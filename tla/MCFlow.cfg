SPECIFICATION PairSpec
CONSTANTS
    Streams = {s1}
    QDepths = {1, 2, 3}
    Configs <- MCConfigs
    CreditCap = 5
    RqSize = 7
    WordMod = 8
    NicMayFail = TRUE
    BenchDepths = {1, 2}
    Iterations = {1, 3}
    MaxStray = 2
INVARIANTS CreditsSafe ReceiveIsPosted
           BenchSafe NoReceiveLeft
PROPERTIES StallEnds BenchEnds
