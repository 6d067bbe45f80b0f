SPECIFICATION FairSpec
CONSTANTS
    n1 = n1
    n2 = n2
    n3 = n3
    Node = {n1, n2, n3}
    Scenario <- MCScenario
    MaxInit = 3
    MaxSends = 2
INVARIANTS
    TypeOK
    ReadyCanAsk
    StaysUp
PROPERTIES
    ImplementsTransport
    Reaches
    StartEnds
CHECK_DEADLOCK FALSE
