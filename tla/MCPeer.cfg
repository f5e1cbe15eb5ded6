SPECIFICATION Spec
CONSTANTS
    a = a
    b = b
    a1 = a1
    a2 = a2
    b1 = b1
    Machines = {a, b}
    Threads = {a1, a2, b1}
    Home <- MCHome
    Control = {a1, b1}
    Calls <- MCCalls
    Qps = {1, 2, 3}
    Site <- MCSite
    MaxWr = 1
    MaxMsgs = 2
    None = None
INVARIANTS PeerSafe ReadersKeepPeer FalseOnlyIfShared
PROPERTY DestroyEnds
CHECK_DEADLOCK FALSE
