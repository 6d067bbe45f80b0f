SPECIFICATION Spec
CONSTANTS
    p1 = p1
    p2 = p2
    p3 = p3
    Peer = {p1, p2, p3}
    Self = p1
    Body <- MCBody
    LocalGenesis <- MCGenesis
    NetworkGenesis <- MCGenesisThree
    Bootstrapping = {TRUE, FALSE}
    MaxHeight = 4
    MaxAdds = 2
    MaxCrashes = 1
INVARIANTS
    TypeOK
    WeightIsStake
    QuorumsMeet
    StateIsReplay
    DatabaseIsRight
CHECK_DEADLOCK FALSE
