SPECIFICATION Spec
CONSTANTS
    p1 = p1
    p2 = p2
    p3 = p3
    Peer = {p1, p2, p3}
    Self = p1
    Body <- MCBody
    LocalGenesis <- MCGenesis
    NetworkGenesis <- MCGenesis
    Bootstrapping = {TRUE}
    MaxHeight = 4
    MaxAdds = 1
    MaxCrashes = 1
INVARIANT UnanimityIsQuorum
CHECK_DEADLOCK FALSE
