SPECIFICATION FairSpec
CONSTANTS
    MaxChannels = 2
    Fds = {f1, f2}
    Threads = {t1, t2}
    MaxCreated = 4
    None = None
INVARIANTS TableSafe
PROPERTIES FreedAfterWorker CloseCompletes
\* An unloaded module does nothing any more.
CHECK_DEADLOCK FALSE
