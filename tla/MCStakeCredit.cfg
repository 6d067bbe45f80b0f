SPECIFICATION Spec
CONSTANTS
    n1 = n1
    n2 = n2
    n3 = n3
    n4 = n4
    Node = {n1, n2, n3, n4}
    Quorum <- MCQuorum
    SampleSize = 2
    MaxCommands = 16
    Busy = {n1, n2}
    MaxHeight = 3
    MaxPings = 3
    MaxFaults = 1
INVARIANTS
    TypeOK
    CreditConserved
    VotingGoesOn
    Equalizes
SYMMETRY MCSymmetry
CHECK_DEADLOCK FALSE
