SPECIFICATION FairSpec
CONSTANTS
    n1 = n1
    n2 = n2
    n3 = n3
    a = a
    b = b
    c = c
    Node = {n1, n2}
    ArrayNetwork <- MCNetworkTwo
    Stake <- MCEqualStake
    StringDiff <- MCStringDiff
    Cmd = {a, b}
    Home <- MCHomeTwo
    SyncSize = 1
    Unsteady = {}
    MayCrash = {}
    SlowStore = FALSE
    Lossy = FALSE
    MaxHeight = 4
    MaxFaults = 1
PROPERTY Progress
CHECK_DEADLOCK FALSE
