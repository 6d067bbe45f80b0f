SPECIFICATION Spec
CONSTANTS
    MaxBlocksInMemory = 3
    MaxQuerySize = 2
    SyncSize = 1
    MaxHeight = 6
    MaxAdds = 2
    Hits = {1, 3}
    Parameter <- MCParameter
INVARIANTS
    TypeOK
    CacheIsTop
    
    PageRight
    SearchRight
    TransactionFound
