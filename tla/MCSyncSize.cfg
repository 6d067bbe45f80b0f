\* NETWORK_SYNC_SIZE at its limit, and one call of add() at a time.
SPECIFICATION Spec
CONSTANTS
    MaxBlocksInMemory = 3
    MaxQuerySize = 2
    SyncSize = 2
    MaxHeight = 6
    MaxAdds = 1
    Hits = {1, 3}
    Parameter <- MCParameter
INVARIANTS
    SyncIncludesHeight
