SPECIFICATION Spec
CONSTANTS
    n1 = n1
    n2 = n2
    n3 = n3
    a = a
    b = b
    c = c
    Node = {n1, n2, n3}
    ArrayNetwork <- MCNetwork
    Stake <- MCUnequalStake
    StringDiff <- MCStringDiff
    Cmd = {a}
    Home <- MCHomeTwo
    SyncSize = 1
    Unsteady = {n2}
    MayCrash = {n1}
    SlowStore = TRUE
    Lossy = TRUE
    MaxHeight = 2
    MaxFaults = 1
INVARIANT QuorumBacked
CHECK_DEADLOCK FALSE
