----------------------------- MODULE BlockRange -----------------------------
(***************************************************************************)
(* Reading the chain of one node: the cache of the latest blocks and the   *)
(* ranges cut from it or from the store (src/chain/blockchain.ts:          *)
(* updateCache, getRange, getPage, searchBlocks, getTransaction, init),    *)
(* and the requests that ask for them (src/net/api.ts).  A block is its    *)
(* height: which block stands at a height is the subject of BlockFactory.  *)
(***************************************************************************)
EXTENDS Integers, SequencesExt

CONSTANTS
    MaxBlocksInMemory,   \* config.blockchain_max_blocks_in_memory
    MaxQuerySize,        \* config.api_max_query_size
    SyncSize,            \* config.network_sync_size
    MaxHeight,           \* bound: height of the chain
    MaxAdds,             \* bound: calls of add() under way
    Hits,                \* the heights of the blocks with what is searched for
    Parameter            \* the integers clients put into their requests

ASSUME SizeAssumption ==
    /\ MaxBlocksInMemory \in Nat \ {0} /\ MaxQuerySize \in Nat \ {0} /\ SyncSize \in Nat \ {0}
ASSUME BoundAssumption ==
    MaxHeight \in Nat \ {0} /\ MaxAdds \in Nat /\ Hits \subseteq Nat /\ Parameter \subseteq Int

VARIABLES
    ready,     \* init() is through: the API listens
    stored,    \* the store holds the blocks 1 .. stored
    height,    \* Blockchain.height
    cache,     \* mapBlocks: the heights in the order of their insertion
    adds,      \* the blocks of the calls of add() that wait for the store
    answer     \* the latest request and its answer

vars == <<ready, stored, height, cache, adds, answer>>

NoAnswer == [request |-> "none", from |-> 0, to |-> 0, height |-> 0, top |-> 0, blocks |-> <<>>]

\* The newest block of the cache.  It is above the height after a call of add()
\* that others have overtaken: the latest block is its block then.
Top == IF cache = <<>> THEN 0 ELSE Last(cache)

-----------------------------------------------------------------------------
(* The cache.                                                               *)

Smaller(i, j) == IF i <= j THEN i ELSE j
Larger(i, j) == IF i >= j THEN i ELSE j

\* Map.set keeps the place of a key that is there already.
Inserted(h) == IF Contains(cache, h) THEN cache ELSE Append(cache, h)

EvictsTooLow(h) ==
    IF Len(Inserted(h)) > MaxBlocksInMemory
    THEN RemoveFirst(Inserted(h), h - MaxBlocksInMemory - 1)
    ELSE Inserted(h)

\* updateCache: above the limit the block that many heights below goes.
UpdatedCache(h) ==
    IF Len(Inserted(h)) > MaxBlocksInMemory
    THEN RemoveFirst(Inserted(h), h - MaxBlocksInMemory)
    ELSE Inserted(h)

-----------------------------------------------------------------------------
(* getRange.                                                                *)

\* The first and the last block getRange(gte, lte) returns, in a chain of
\* height h: no end asked for is one block, an end of 0 is the latest block;
\* too long a range loses its first blocks.
StartOf(gte, h) == Smaller(Larger(gte, 1), h)

LastOf(gte, lte, h) ==
    Smaller(IF lte < 0 THEN StartOf(gte, h) ELSE IF lte < 1 THEN h ELSE lte, h)

\* Faulty variants: the limit is one too low, and a range may start below genesis.
FirstCutEarly(gte, lte, h) ==
    Larger(Smaller(StartOf(gte, h), LastOf(gte, lte, h)), LastOf(gte, lte, h) - MaxQuerySize + 2)
FirstUnbounded(gte, lte, h) ==
    Larger(Smaller(gte, LastOf(gte, lte, h)), LastOf(gte, lte, h) - MaxQuerySize + 1)

FirstOf(gte, lte, h) ==
    Larger(Smaller(StartOf(gte, h), LastOf(gte, lte, h)), LastOf(gte, lte, h) - MaxQuerySize + 1)

FromStore(first, last) == [i \in 1..(last - first + 1) |-> first + i - 1]

\* Array.slice of the values from a place to another, places counted from 0.
Slice(s, from, to) == [i \in 1..Larger(0, Smaller(to, Len(s)) - from) |-> s[from + i]]

\* Places in the map are computed from the height, not looked up.
FromCache(first, last) ==
    LET start == Len(cache) - height + first - 1
    IN  Slice(cache, start, start + last - first + 1)

GetRange(gte, lte) ==
    LET first == FirstOf(gte, lte, height)
        last == LastOf(gte, lte, height)
    IN  IF Contains(cache, first) /\ Contains(cache, last)
        THEN FromCache(first, last)
        ELSE FromStore(first, last)

\* getPage: pages of size blocks, the first one at the top of the chain.
PageSize(size) == IF size < 1 \/ size > MaxQuerySize THEN MaxQuerySize ELSE size

PageStartOffByOne(page, size) == Larger(1, height - Larger(1, page) * PageSize(size))

PageStart(page, size) == Larger(1, height - Larger(1, page) * PageSize(size) + 1)

GetPage(page, size) ==
    GetRange(PageStart(page, size), PageStart(page, size) + PageSize(size) - 1)

\* The blocks from first to last with what is searched for, in order.
FoundIn(first, last) ==
    LET found[h \in 0..MaxHeight] ==
            IF h < first THEN <<>>
            ELSE IF h \in Hits THEN Append(found[h - 1], h) ELSE found[h - 1]
    IN  found[last]

\* The oldest blocks of the store instead of the latest.
SearchFromStart == FoundIn(1, Smaller(stored, MaxQuerySize))

\* searchBlocks, among the latest blocks of the store; that may hold a block
\* which add() is still busy with.
SearchBlocks == FoundIn(Larger(1, stored - MaxQuerySize + 1), stored)

\* The first of some blocks with it, if there is one.
FirstHit(blocks) ==
    IF \E i \in DOMAIN blocks : blocks[i] \in Hits
    THEN LET i == CHOOSE i \in DOMAIN blocks :
                     blocks[i] \in Hits /\ \A j \in 1..(i - 1) : blocks[j] \notin Hits
         IN  <<blocks[i]>>
    ELSE <<>>

\* Has no look at the store.
TransactionInCache == FirstHit(cache)

\* getTransaction: the first block with it, in the cache or else in the store.
GetTransaction == FirstHit(cache \o FromStore(1, stored))

-----------------------------------------------------------------------------
(* Requests.  Those that fail (404) leave no answer.                        *)

Answered(request, from, to, blocks) ==
    /\ ready
    /\ answer' = [request |-> request, from |-> from, to |-> to, height |-> height, top |-> Top,
                  blocks |-> blocks]
    /\ UNCHANGED <<ready, stored, height, cache, adds>>

\* GET /blocks/{from}/{to}; without the parameters it is /blocks/1/0.
Blocks(from, to) == from >= 1 /\ Answered("blocks", from, to, GetRange(from, to))

\* GET /block/{h}.
OneBlock(h) == h \in 1..height /\ Answered("block", h, h, GetRange(h, -1))

\* GET /block/latest.
Latest == Answered("block", height, height, <<height>>)

\* GET /blocks/search/{q}, and GET /transaction/{origin}/{ident}.
Search == Answered("search", 1, 0, SearchBlocks)
Transaction == Answered("transaction", 1, 0, GetTransaction)

\* GET /blocks/page/{page}/{size}.
Page(page, size) == Answered("page", page, size, GetPage(page, size))

\* GET /sync/{h}.
Sync(h) == height >= h /\ Answered("sync", h, h + SyncSize, GetRange(h, h + SyncSize))

-----------------------------------------------------------------------------
(* add, shutdown and init.                                                  *)

\* The environment: no call waits while as many later blocks are added as the
\* cache holds (at least 100, config.ts).  A block that has left the cache would
\* come back at its end.
KeepsUp(h) == \A i \in DOMAIN adds : h - adds[i] < MaxBlocksInMemory

\* add(): the block is on its way to the store.  A second call for the same
\* block passes the same checks until the first one is through, and so does one
\* for the next block then, whether the second is through or not.
StartAdd ==
    /\ ready /\ height < MaxHeight /\ Len(adds) < MaxAdds /\ KeepsUp(height + 1)
    /\ adds' = Append(adds, height + 1)
    /\ stored' = Larger(stored, height + 1)
    /\ UNCHANGED <<ready, height, cache, answer>>

\* Nothing is checked again: a call that was overtaken takes the height back.
FinishAdd(i) ==
    /\ height' = adds[i]
    /\ cache' = UpdatedCache(adds[i])
    /\ adds' = RemoveAt(adds, i)
    /\ UNCHANGED <<ready, stored, answer>>

\* The node stops, at any point, and starts again, with or without the blocks
\* that were on their way: init() reads one block after the other.
Restart ==
    /\ ready
    /\ ready' = FALSE /\ height' = 0 /\ cache' = <<>> /\ adds' = <<>> /\ answer' = NoAnswer
    /\ stored' \in Larger(1, Top)..stored

LoadBlock ==
    /\ ~ready /\ height < stored
    /\ height' = height + 1
    /\ cache' = UpdatedCache(height + 1)
    /\ UNCHANGED <<ready, stored, adds, answer>>

Listen ==
    /\ ~ready /\ height = stored
    /\ ready' = TRUE
    /\ UNCHANGED <<stored, height, cache, adds, answer>>

-----------------------------------------------------------------------------
Init ==
    /\ ready = FALSE /\ stored = 1 /\ height = 0 /\ cache = <<>> /\ adds = <<>>
    /\ answer = NoAnswer

Next ==
    \/ \E from, to \in Parameter : Blocks(from, to)
    \/ \E h \in Parameter : OneBlock(h)
    \/ Latest
    \/ Search
    \/ Transaction
    \/ \E page, size \in Parameter : Page(page, size)
    \/ \E h \in Parameter : Sync(h)
    \/ StartAdd
    \/ \E i \in DOMAIN adds : FinishAdd(i)
    \/ Restart
    \/ LoadBlock
    \/ Listen

Spec == Init /\ [][Next]_vars

-----------------------------------------------------------------------------
(* Properties.                                                              *)

\* Every variable has its type.
TypeOK ==
    /\ ready \in BOOLEAN
    /\ stored \in 1..MaxHeight
    /\ height \in 0..MaxHeight
    /\ cache \in Seq(1..MaxHeight)
    /\ adds \in Seq(1..MaxHeight)
    /\ answer \in [request : {"none", "blocks", "block", "search", "transaction", "page", "sync"}, from : Int, to : Int,
                   height : 0..MaxHeight, top : 0..MaxHeight, blocks : Seq(1..MaxHeight)]

\* The cache holds the newest blocks in order, without a gap and at its limit,
\* the latest block among them, and the store at most one block more, whatever
\* overlapping and overtaken calls of add() and restarts do.  (The latest block
\* is not always the newest one, see FinishAdd.)
CacheIsTop ==
    /\ Len(cache) = Smaller(Top, MaxBlocksInMemory)
    /\ \A i \in DOMAIN cache : cache[i] = Top - Len(cache) + i
    /\ height # 0 => Contains(cache, height)
    /\ ready => stored \in {Top, Top + 1}

\* A request for blocks is answered by consecutive blocks and at most
\* MaxQuerySize of them, also after an overtaken call of add().  But for that,
\* they are the blocks up to the end of what was asked for, or to the latest
\* one, and all that was asked for where that is not more; and one block, the
\* end, where that is none (a range above the chain, or with its end before its
\* start).
RangeRight ==
    answer.request \in {"blocks", "block", "sync"} =>
        /\ Len(answer.blocks) <= MaxQuerySize
        /\ \A i \in DOMAIN answer.blocks : answer.blocks[i] = answer.blocks[1] + i - 1
        /\ answer.height = answer.top /\ answer.to >= 0 =>
              LET last == IF answer.to = 0 THEN answer.height ELSE Smaller(answer.to, answer.height)
                  wanted == last - Larger(1, answer.from) + 1
              IN  /\ Len(answer.blocks) = Larger(1, Smaller(wanted, MaxQuerySize))
                  /\ answer.blocks[Len(answer.blocks)] = last

\* Every block is on the page it belongs to, counted from the top, unless the
\* latest block is that of an overtaken call of add().
PageRight ==
    answer.request = "page" =>
        LET size == PageSize(answer.to)
            page == Larger(1, answer.from)
        IN  /\ Len(answer.blocks) <= size
            /\ answer.height = answer.top =>
                  \A h \in 1..answer.height :
                     answer.height - page * size < h /\ h <= answer.height - (page - 1) * size
                       => \E i \in DOMAIN answer.blocks : answer.blocks[i] = h

\* A search finds what is there, in order, in the newest blocks; a write under
\* way may push one of them out, and may be seen before the block is in force.
SearchRight ==
    answer.request = "search" =>
        /\ Len(answer.blocks) <= MaxQuerySize
        /\ \A i, j \in DOMAIN answer.blocks : i < j => answer.blocks[i] < answer.blocks[j]
        /\ \A i \in DOMAIN answer.blocks : answer.blocks[i] \in Hits /\ answer.blocks[i] <= answer.top + 1
        /\ \A h \in Hits \cap (1..answer.top) :
              h > answer.top - MaxQuerySize + 1 => Contains(answer.blocks, h)

\* A transaction of a block that was added is found, whether the block is in the
\* cache, has left it, or is there from before a restart; and one of no such
\* block is found at most while its block is being added.
TransactionFound ==
    answer.request = "transaction" =>
        /\ Hits \cap (1..answer.top) # {} =>
              Len(answer.blocks) = 1 /\ answer.blocks[1] \in Hits \cap (1..answer.top)
        /\ Hits \cap (1..answer.top) = {} =>
              answer.blocks = <<>> \/ answer.blocks = <<answer.top + 1>>

\* "Get a well-defined number of blocks starting from {height} (including)"
\* (README.md, 252).  A node that is behind by many blocks cannot use any other
\* block, and asks again for the same height.  (A negative number is no height:
\* for -SyncSize the end of the range is 0, which stands for the latest block.)
SyncIncludesHeight ==
    answer.request = "sync" /\ answer.from >= 0 => answer.blocks[1] = Larger(1, answer.from)
=============================================================================
