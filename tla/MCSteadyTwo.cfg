SPECIFICATION Spec
CONSTANTS
    n1 = n1
    n2 = n2
    n3 = n3
    a = a
    b = b
    c = c
    Node = {n1, n2}
    ArrayNetwork <- MCNetworkTwo
    Stake <- MCEqualStake
    StringDiff <- MCStringDiff
    Cmd = {a, b, c}
    Home <- MCHomeTwo
    SyncSize = 1
    Unsteady = {}
    MayCrash = {}
    SlowStore = FALSE
    Lossy = TRUE
    MaxHeight = 3
    MaxFaults = 1
INVARIANTS
    TypeOK
    Agreement
    QuorumBacked
    OneTxPerRound
    NothingLost
    PoolFresh
    StoreGapless
PROPERTIES
    NeverReverts
    ImplementsLedger
CHECK_DEADLOCK FALSE
SYMMETRY MCSymmetry
