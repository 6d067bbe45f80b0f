SPECIFICATION Spec
CONSTANTS
    p1 = p1
    p2 = p2
    p3 = p3
    Peer = {p1, p2, p3}
    Self = p1
    Body <- MCMatching
    LocalGenesis <- MCGenesis
    NetworkGenesis <- MCGenesis
    Bootstrapping = {FALSE}
    MaxHeight = 3
    MaxAdds = 1
    MaxCrashes = 1
INVARIANT RestartSucceeds
CHECK_DEADLOCK FALSE
