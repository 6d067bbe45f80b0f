SPECIFICATION Spec
CONSTANTS
    n1 = n1
    n2 = n2
    n3 = n3
    a = a
    b = b
    c = c
    Node = {n1, n2, n3}
    ArrayNetwork <- MCNetwork
    Stake <- MCEqualStake
    StringDiff <- MCStringDiff
    Cmd = {a, b}
    Home <- MCHomeTwo
    SyncSize = 1
    Unsteady = {n1, n2, n3}
    MayCrash = {}
    SlowStore = FALSE
    Lossy = TRUE
    MaxHeight = 2
    MaxFaults = 0
INVARIANT Agreement
CHECK_DEADLOCK FALSE
