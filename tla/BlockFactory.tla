---------------------------- MODULE BlockFactory ----------------------------
(***************************************************************************)
(* The consensus of divachain: one BlockFactory object per node            *)
(* (src/net/block-factory.ts), the part of Blockchain it calls             *)
(* (src/chain/blockchain.ts: getHeight, getLatestBlock, add,               *)
(* hasQuorumWeighted) and the transport in between (src/net/network.ts:    *)
(* broadcast, incomingData, isOnline).                                     *)
(*                                                                         *)
(* Node.js runs one callback at a time: an action is one callback - a      *)
(* timer, an incoming datagram, an API request, or the continuation after  *)
(* an await - together with everything that callback calls.                *)
(*                                                                         *)
(* A block hash commits to the transactions of the block and, through      *)
(* previousHash, to all earlier blocks.  It is modelled by what it commits *)
(* to: the sequence of transaction sets since genesis.  So a hash is also  *)
(* a chain, genesis is <<>> and stands at height 1.                        *)
(***************************************************************************)
EXTENDS Integers, SequencesExt

CONSTANTS
    Node,            \* public keys of the peers, fixed while this module runs
    ArrayNetwork,    \* Network.arrayNetwork: the peers in key order, from 0
    Stake,           \* stake of each peer
    StringDiff(_),   \* Util.stringDiff(latest.hash, latest.previousHash)
    Cmd,             \* the command lists clients submit, all distinct
    Home,            \* the node a command list is submitted to
    SyncSize,        \* config.network_sync_size
    Unsteady,        \* nodes that start with nobody online and may lose peers
    MayCrash,        \* nodes that may crash and restart
    SlowStore,       \* TRUE: an add() may outlast a round trip of votes
    Lossy,           \* FALSE: every datagram is handled sooner or later
    MaxHeight,       \* bound: no proposal above this height
    MaxFaults        \* bound: retry timers that go off, and crashes

N == Cardinality(Node)

ASSUME NodeAssumption == IsFiniteSet(Node) /\ Node # {}
ASSUME ArrayNetworkAssumption ==
    /\ ArrayNetwork \in [0..(N - 1) -> Node]
    /\ \A n \in Node : \E i \in 0..(N - 1) : ArrayNetwork[i] = n
ASSUME StakeAssumption == Stake \in [Node -> Nat]
ASSUME HomeAssumption == Home \in [Cmd -> Node]
ASSUME BoundAssumption == SyncSize \in Nat /\ MaxHeight \in Nat /\ MaxFaults \in Nat
ASSUME FaultAssumption ==
    /\ Unsteady \subseteq Node /\ MayCrash \subseteq Node /\ SlowStore \in BOOLEAN
    /\ Lossy \in BOOLEAN

Timer == {"addTx", "propose", "retry"}
Type == {"AddTx", "ProposeBlock", "SignBlock", "ConfirmBlock"}

\* A transaction is signed over its commands and the height it is made for;
\* its origin is the node the commands were submitted to.
Tx == [cmd : Cmd, height : Nat]
Hash == Seq(SUBSET Tx)

NoTx == [height |-> 0]                             \* ownTx = {}
NoBlock == [hash |-> <<>>, votes |-> {}]           \* block = {}

SyncIdle == [phase |-> "idle", height |-> 0, queue |-> <<>>]

Block == [hash : Hash, votes : SUBSET Node]
Factory == [stack : Seq(Cmd), ownTx : Tx \cup {NoTx}, pool : SUBSET Tx,
            block : Block, timer : SUBSET Timer]

Write == [hash : Hash, sync : BOOLEAN]             \* add(): by the sync, or not
SyncState == [phase : {"idle"}, height : {0}, queue : {<<>>}]
             \cup [phase : {"fetch"}, height : Nat \ {0}, queue : {<<>>}]
             \cup [phase : {"apply"}, height : {0}, queue : Seq(Hash)]

Message ==
    [type : {"AddTx"}, origin : Node, seq : Nat, tx : Tx]
    \cup [type : {"ProposeBlock", "SignBlock"}, origin : Node, seq : Nat, hash : Hash]
    \cup [type : {"ConfirmBlock"}, origin : Node, seq : Nat, hash : Hash, votes : SUBSET Node]

VARIABLES
    \* Blockchain, one per node
    latest,      \* latestBlock: its hash
    store,       \* the blocks by height, in the cache and in the block store
    adding,      \* the calls of add() under way, oldest first
    \* BlockFactory, one per node
    factory,     \* stackTransaction, ownTx, arrayPoolTx, block and the timers
    sync,        \* the sync in progress, if any
    \* Network, one per node
    online,      \* the peers isOnline() accepts
    seen,        \* mapMsgSeq: highest sequence number seen, per type and origin
    sent,        \* sequence number last used, per type
    msgs,        \* the datagrams ever sent; any of them may be late or get lost
    \* the clients
    submitted,   \* the commands put to the API so far
    \* history: nodes that have gone back in height
    lowered,
    \* the bound
    faults       \* retry timers that have gone off, and crashes

chainVars == <<latest, store, lowered>>
netVars == <<seen, sent, msgs>>
vars == <<latest, store, adding, factory, sync, online, seen, sent, msgs, submitted, lowered,
          faults>>

-----------------------------------------------------------------------------
(* Blockchain: height, quorum and the checks of add().                      *)

Height(chain) == Len(chain) + 1
Weight == [S \in SUBSET Node |-> FoldFunctionOnSet(+, 0, Stake, S)]

HalfIsEnough(S) == 2 * Weight[S] >= Weight[Node]

\* hasQuorumWeighted: more than half of the stake.
HasQuorumWeighted(S) == 2 * Weight[S] > Weight[Node]

Origin(tx) == Home[tx.cmd]

\* validateBlock without the votes: transactions there are, of distinct
\* origins, each signed for the height of the block.
ValidCandidate(hash) ==
    /\ hash # <<>>
    /\ Last(hash) # {}
    /\ \A tx \in Last(hash) : tx.height = Height(hash)
    /\ \A tx, u \in Last(hash) : Origin(tx) = Origin(u) => tx = u

Extends(hash, chain) == hash # <<>> /\ Front(hash) = chain

\* addBlock(block) as far as the first wait of add(): a block that fails the
\* guard of add() is dropped, any other one is on its way to the store.
AddableAnywhere(hash, chain) == ValidCandidate(hash)

Addable(hash, chain) == Extends(hash, chain) /\ ValidCandidate(hash)

StartAdd(n, hash, votes) ==
    adding' = IF Addable(hash, latest[n]) /\ HasQuorumWeighted(votes)
              THEN [adding EXCEPT ![n] = Append(@, [hash |-> hash, sync |-> FALSE])]
              ELSE adding

-----------------------------------------------------------------------------
(* The validator of a round: round-robin over the height; if that peer is   *)
(* offline start from a place the two last hashes give, and take the first  *)
(* peer from there that is online.                                          *)

FirstOnline(i, view) ==
    LET At(d) == ArrayNetwork[(i + d) % N]
        d == CHOOSE d \in 0..(N - 1) :
                At(d) \in view /\ \A e \in 0..(d - 1) : At(e) \notin view
    IN  At(d)

CalcValidator(chain, view) ==
    LET i == Height(chain) % N
    IN  IF ArrayNetwork[i] \in view
        THEN ArrayNetwork[i]
        ELSE FirstOnline(StringDiff(chain) % N, view)

-----------------------------------------------------------------------------
(* Methods of BlockFactory, as functions of its fields f.                   *)

HasOwnTx(f) == f.ownTx.height > 0
HasBlock(f) == f.block.hash # <<>>

Push(f, commands) == [f EXCEPT !.stack = Append(@, commands)]
WithBlock(f, hash, votes) == [f EXCEPT !.block = [hash |-> hash, votes |-> votes]]
Arm(f, timer) == [f EXCEPT !.timer = @ \cup {timer}]
Disarm(f, timer) == [f EXCEPT !.timer = @ \ {timer}]

NoRetry(f) == f

SetupRetry(f) == Arm(f, "retry")

ClearedWith(f, stack) ==
    [stack |-> stack, ownTx |-> NoTx, pool |-> {}, block |-> NoBlock, timer |-> {}]

\* Faulty variants of clear: the own transaction is put back at the end of the
\* stack, only after a retry, as a transaction; the timers go on.
ClearToTheEnd(f, txs) ==
    ClearedWith(f, IF HasOwnTx(f) /\ f.ownTx \notin txs
                   THEN Append(f.stack, f.ownTx.cmd) ELSE f.stack)
ClearOnRetryOnly(f, txs) ==
    ClearedWith(f, IF HasOwnTx(f) /\ txs = {} THEN <<f.ownTx.cmd>> \o f.stack ELSE f.stack)
ClearSigned(f, txs) ==
    ClearedWith(f, IF HasOwnTx(f) /\ f.ownTx \notin txs THEN <<f.ownTx>> \o f.stack ELSE f.stack)
ClearKeepsTimers(f, txs) ==
    [ClearedWith(f, IF HasOwnTx(f) /\ f.ownTx \notin txs
                    THEN <<f.ownTx.cmd>> \o f.stack ELSE f.stack) EXCEPT !.timer = f.timer]

\* clear(block): the own transaction goes back to the head of the stack
\* unless the block contains it; clear() is Clear(f, {}).
Clear(f, txs) ==
    ClearedWith(f, IF HasOwnTx(f) /\ f.ownTx \notin txs
                   THEN <<f.ownTx.cmd>> \o f.stack ELSE f.stack)

\* processAddTx: the first valid transaction of an origin for the next height
\* joins the pool and restarts the proposal timer.
PoolTakes(f, tx, chain) ==
    /\ ~HasBlock(f)
    /\ tx.height = Height(chain) + 1
    /\ \A u \in f.pool : Origin(u) # Origin(tx)

ProcessAddTx(f, tx, chain) ==
    IF PoolTakes(f, tx, chain)
    THEN Arm([f EXCEPT !.pool = @ \cup {tx}], "propose")
    ELSE f

\* The next sequence number of a message type (Date.now() in the code).
NextSeq(n, type) == sent[n][type] + 1

Broadcast(m) ==
    /\ msgs' = msgs \cup {m}
    /\ sent' = [sent EXCEPT ![m.origin][m.type] = m.seq]

Quiet == UNCHANGED <<msgs, sent>>

\* doAddTx, called with the fields f: sign the oldest stacked commands for the
\* next height and hand them to the validator, unless a transaction is out.
DoAddTx(n, f) ==
    LET chain == latest[n]
        tx == [cmd |-> Head(f.stack), height |-> Height(chain) + 1]
        g == [f EXCEPT !.stack = Tail(@), !.ownTx = tx]
    IN  \/ /\ HasOwnTx(f) \/ f.stack = <<>>
           /\ factory' = [factory EXCEPT ![n] = f]
           /\ Quiet
        \/ /\ ~HasOwnTx(f) /\ f.stack # <<>>
           /\ CalcValidator(chain, online[n]) = n
           /\ factory' = [factory EXCEPT ![n] = SetupRetry(ProcessAddTx(g, tx, chain))]
           /\ Quiet
        \/ /\ ~HasOwnTx(f) /\ f.stack # <<>>
           /\ CalcValidator(chain, online[n]) # n
           /\ factory' = [factory EXCEPT ![n] = SetupRetry(g)]
           /\ Broadcast([type |-> "AddTx", origin |-> n, seq |-> NextSeq(n, "AddTx"), tx |-> tx])

-----------------------------------------------------------------------------
(* API and timers.                                                          *)

\* PUT /tx: stack(commands).
Submit(c) ==
    LET n == Home[c]
    IN  /\ c \notin submitted
        /\ submitted' = submitted \cup {c}
        /\ DoAddTx(n, Push(factory[n], c))
        /\ UNCHANGED <<adding, sync, online, seen, faults>> /\ UNCHANGED chainVars

\* 50 ms after a block was added.
AddTxTimer(n) ==
    /\ "addTx" \in factory[n].timer
    /\ DoAddTx(n, Disarm(factory[n], "addTx"))
    /\ UNCHANGED <<adding, sync, online, seen, submitted, faults>> /\ UNCHANGED chainVars

\* The proposal is made of the latest block and the pool as they are when the
\* timer goes off; the proposer's own vote is on it.
ProposeTimer(n) ==
    LET hash == Append(latest[n], factory[n].pool)
    IN  /\ "propose" \in factory[n].timer
        /\ Height(hash) <= MaxHeight
        /\ factory' = [factory EXCEPT ![n] = WithBlock(Disarm(@, "propose"), hash, {n})]
        /\ Broadcast([type |-> "ProposeBlock", origin |-> n,
                      seq |-> NextSeq(n, "ProposeBlock"), hash |-> hash])
        /\ UNCHANGED <<adding, sync, online, seen, submitted, faults>> /\ UNCHANGED chainVars

\* An assumption about the environment, not a guard of the code: the twenty
\* seconds or more of a retry timer are enough for everything else that is under
\* way, unless datagrams get lost or late.
Calm ==
    /\ \A n \in Node : /\ adding[n] = <<>> /\ sync[n] = SyncIdle
                       /\ factory[n].timer \subseteq {"retry"}
    /\ \A n \in Node, m \in msgs : m.origin # n => seen[n][m.type][m.origin] >= m.seq
    /\ \A n, p \in Node : Len(latest[n]) = Len(latest[p])

\* Two network intervals after the last setupRetry: start the round afresh.
RetryTimer(n) ==
    /\ "retry" \in factory[n].timer /\ (Lossy \/ Calm)
    /\ faults < MaxFaults /\ faults' = faults + 1
    /\ DoAddTx(n, Clear(factory[n], {}))
    /\ UNCHANGED <<adding, sync, online, seen, submitted>> /\ UNCHANGED chainVars

-----------------------------------------------------------------------------
(* Datagrams.                                                               *)

\* incomingData: m reaches n from r, its origin or a peer that passes it on.
\* Only a sequence number above the last one of that type and origin counts;
\* then r is online, before the message is processed: view is online by then.
ViewsAfterReceipt(n) == {online[n] \cup {r} : r \in Node \ {n}}

Receive(n, view, m) ==
    /\ m.origin # n
    /\ seen[n][m.type][m.origin] < m.seq
    /\ seen' = [seen EXCEPT ![n][m.type][m.origin] = m.seq]
    /\ online' = [online EXCEPT ![n] = view]
    /\ UNCHANGED <<sync, submitted, faults>> /\ UNCHANGED chainVars

\* What processMessage and the handlers ask of a message before they act on
\* it: the validator of the round receives AddTx and SignBlock and sends
\* ProposeBlock and ConfirmBlock.
AcceptsAddTx(n, view, m) ==
    /\ CalcValidator(latest[n], view) = n
    /\ PoolTakes(factory[n], m.tx, latest[n])

AcceptsProposeBlock(n, view, m) ==
    /\ CalcValidator(latest[n], view) = m.origin
    /\ Extends(m.hash, latest[n]) /\ ValidCandidate(m.hash)

AcceptsAnyVote(n, view, m) ==
    /\ CalcValidator(latest[n], view) = n
    /\ HasBlock(factory[n]) /\ m.origin \notin factory[n].block.votes

AcceptsSignBlock(n, view, m) ==
    /\ CalcValidator(latest[n], view) = n
    /\ factory[n].block.hash = m.hash /\ m.origin \notin factory[n].block.votes

AcceptsConfirmBlock(n, view, m) ==
    /\ CalcValidator(latest[n], view) = m.origin
    /\ HasBlock(factory[n]) /\ factory[n].block.hash = m.hash

Accepts(n, view, m) ==
    \/ m.type = "AddTx" /\ AcceptsAddTx(n, view, m)
    \/ m.type = "ProposeBlock" /\ AcceptsProposeBlock(n, view, m)
    \/ m.type = "SignBlock" /\ AcceptsSignBlock(n, view, m)
    \/ m.type = "ConfirmBlock" /\ AcceptsConfirmBlock(n, view, m)

ReceiveAddTx(n, view, m) ==
    /\ m.type = "AddTx" /\ AcceptsAddTx(n, view, m)
    /\ Receive(n, view, m)
    /\ factory' = [factory EXCEPT ![n] = ProcessAddTx(@, m.tx, latest[n])]
    /\ Quiet /\ UNCHANGED adding

\* processProposeBlock: vote for a valid candidate for the next height.
ReceiveProposeBlock(n, view, m) ==
    /\ m.type = "ProposeBlock" /\ AcceptsProposeBlock(n, view, m)
    /\ Receive(n, view, m)
    /\ factory' = [factory EXCEPT ![n] = SetupRetry(WithBlock(@, m.hash, {m.origin}))]
    /\ Broadcast([type |-> "SignBlock", origin |-> n,
                  seq |-> NextSeq(n, "SignBlock"), hash |-> m.hash])
    /\ UNCHANGED adding

\* An assumption about the environment, too: votes take a round trip through the
\* network.  Unless SlowStore, what was being added when the block was proposed
\* is done when they are counted.
VotesAfterWrites(n) ==
    SlowStore \/ \A i \in DOMAIN adding[n] : adding[n][i].hash = factory[n].block.hash

\* processSignBlock: count the vote; each vote from the quorum on starts an
\* add() of the block and broadcasts a confirmation.
ReceiveSignBlock(n, view, m) ==
    LET hash == factory[n].block.hash
        votes == factory[n].block.votes \cup {m.origin}
    IN  /\ m.type = "SignBlock" /\ AcceptsSignBlock(n, view, m)
        /\ VotesAfterWrites(n)
        /\ Receive(n, view, m)
        /\ factory' = [factory EXCEPT ![n] = WithBlock(@, hash, votes)]
        /\ \/ /\ HasQuorumWeighted(votes)
              /\ StartAdd(n, hash, votes)
              /\ Broadcast([type |-> "ConfirmBlock", origin |-> n,
                            seq |-> NextSeq(n, "ConfirmBlock"), hash |-> hash, votes |-> votes])
           \/ /\ ~HasQuorumWeighted(votes)
              /\ Quiet /\ UNCHANGED adding

\* processConfirmBlock: take over the votes and add the block this node holds.
ReceiveConfirmBlock(n, view, m) ==
    /\ m.type = "ConfirmBlock" /\ AcceptsConfirmBlock(n, view, m)
    /\ Receive(n, view, m)
    /\ factory' = [factory EXCEPT ![n] = WithBlock(@, m.hash, m.votes)]
    /\ StartAdd(n, m.hash, m.votes)
    /\ Quiet

\* A message the handlers return from changes nothing but mapMsgSeq and
\* mapOnline.  Where datagrams get lost that is one more lost datagram (and a
\* status brings its origin online), so the step is only there if none gets lost.
Ignore(n, view, m) ==
    /\ ~Lossy /\ ~Accepts(n, view, m)
    /\ Receive(n, view, m)
    /\ Quiet /\ UNCHANGED <<adding, factory>>

-----------------------------------------------------------------------------
(* The store, and the sync that follows a status: a node that hears of a    *)
(* greater height fetches blocks from one peer and adds them one by one.    *)

\* The sync loop goes on with the blocks of queue, on top of chain: blocks that
\* add() refuses are skipped without a wait, the first other one is added, and
\* after the last one the sync is over.  The peer that serves a block has
\* checked its votes against the same stakes.  pending are the writes of n.
ResumeSync(n, queue, chain, pending) ==
    LET I == {i \in DOMAIN queue : Addable(queue[i], chain)}
    IN  \/ /\ I = {}
           /\ sync' = [sync EXCEPT ![n] = SyncIdle]
           /\ adding' = [adding EXCEPT ![n] = pending]
        \/ \E i \in I :
             /\ \A j \in I : i <= j
             /\ sync' = [sync EXCEPT ![n] = [phase |-> "apply", height |-> 0,
                                            queue |-> SubSeq(queue, i + 1, Len(queue))]]
             /\ adding' = [adding EXCEPT ![n] = Append(pending, [hash |-> queue[i], sync |-> TRUE])]

PutAppends(st, hash) == Append(st, hash)

\* The blocks st with one more: set() of the cache, put() of the block store.
Put(st, hash) ==
    IF Len(hash) \in DOMAIN st THEN [st EXCEPT ![Len(hash)] = hash] ELSE Append(st, hash)

\* One of the calls of add() gets to its end, whichever: each waits for the
\* store once and once more per command.  updateCache makes its block the
\* latest one, with no further check, even if a later block is there by now;
\* addBlock clears the round and arms the next one; and the sync goes on if it
\* was its call.
FinishAdd(n, i) ==
    LET done == adding[n][i]
        others == RemoveAt(adding[n], i)
    IN  /\ latest' = [latest EXCEPT ![n] = done.hash]
        /\ store' = [store EXCEPT ![n] = Put(@, done.hash)]
        /\ lowered' = IF Len(done.hash) < Len(latest[n]) THEN lowered \cup {n} ELSE lowered
        /\ factory' = [factory EXCEPT ![n] = Arm(Clear(@, Last(done.hash)), "addTx")]
        /\ \/ /\ done.sync
              /\ ResumeSync(n, sync[n].queue, done.hash, others)
           \/ /\ ~done.sync
              /\ adding' = [adding EXCEPT ![n] = others] /\ UNCHANGED sync
        /\ UNCHANGED <<online, seen, submitted, faults>> /\ Quiet

\* processStatus of an ONLINE status of q.  A status may be late: its height is
\* any that q has passed.
ReceiveStatus(n, q) ==
    /\ q # n
    /\ online' = [online EXCEPT ![n] = @ \cup {q}]
    /\ \/ /\ sync[n].phase = "idle"
          /\ \E h \in 1..Height(latest[q]) : Height(latest[n]) < h
          /\ sync' = [sync EXCEPT ![n] = [phase |-> "fetch", height |-> Height(latest[n]),
                                         queue |-> <<>>]]
       \/ q \notin online[n] /\ UNCHANGED sync
    /\ UNCHANGED <<adding, factory, submitted, faults>>
    /\ UNCHANGED chainVars /\ UNCHANGED netVars

\* What q answers to sync/(h+1) (Api.sync, Blockchain.getRange): its blocks with
\* the heights h + 1 .. h + 1 + SyncSize, as far as its height goes.  They are
\* counted from the end of the cache, so if q has gone back in height each of
\* them is too high by the same number.
Answer(q, h) ==
    LET top == IF h + 1 + SyncSize <= Height(latest[q]) THEN h + 1 + SyncSize
                                                        ELSE Height(latest[q])
        tooHigh == Len(store[q]) - Len(latest[q])
    IN  SubSeq(store[q], h + tooHigh, top - 1 + tooHigh)

\* fetchFromApi: q is the first peer that answers; a peer below the height
\* answers 404.  It may be that none answers.
FetchSync(n, q) ==
    /\ sync[n].phase = "fetch" /\ q # n
    /\ sync[n].height + 1 <= Height(latest[q])
    /\ ResumeSync(n, Answer(q, sync[n].height), latest[n], adding[n])
    /\ UNCHANGED <<factory, online, submitted, faults>>
    /\ UNCHANGED chainVars /\ UNCHANGED netVars

FetchFails(n) ==
    /\ sync[n].phase = "fetch"
    /\ sync' = [sync EXCEPT ![n] = SyncIdle]
    /\ UNCHANGED <<adding, factory, online, submitted, faults>>
    /\ UNCHANGED chainVars /\ UNCHANGED netVars

-----------------------------------------------------------------------------
(* Faults.                                                                  *)

\* n has not heard from p for three network intervals.
GoOffline(n, p) ==
    /\ n \in Unsteady /\ p \in online[n] /\ p # n
    /\ online' = [online EXCEPT ![n] = @ \ {p}]
    /\ UNCHANGED <<adding, factory, sync, submitted, faults>>
    /\ UNCHANGED chainVars /\ UNCHANGED netVars

EmptyFactory == [stack |-> <<>>, ownTx |-> NoTx, pool |-> {}, block |-> NoBlock, timer |-> {}]
NothingSeen == [t \in Type |-> [p \in Node |-> 0]]

\* What init() finds if of the calls of add() under way those of written have
\* put their block to the store.
FoundAfterCrash(n, written) ==
    LET Written(k) == {i \in written : Len(adding[n][i].hash) = k}
        top == Len(store[n]) + 1
    IN  [k \in 1..(IF Written(top) = {} THEN top - 1 ELSE top) |->
            IF Written(k) = {} THEN store[n][k] ELSE adding[n][CHOOSE i \in Written(k) : TRUE].hash]

\* The process ends and starts again: memory is lost.  A node with bootstrap
\* clears its store as well and is back at genesis.
Crash(n) ==
    /\ n \in MayCrash /\ faults < MaxFaults /\ faults' = faults + 1
    /\ \E st \in {FoundAfterCrash(n, w) : w \in SUBSET DOMAIN adding[n]} \cup {<<>>} :
          /\ store' = [store EXCEPT ![n] = st]
          /\ latest' = [latest EXCEPT ![n] = IF st = <<>> THEN <<>> ELSE Last(st)]
    /\ lowered' = IF Len(latest'[n]) < Len(latest[n]) THEN lowered \cup {n} ELSE lowered
    /\ adding' = [adding EXCEPT ![n] = <<>>]
    /\ factory' = [factory EXCEPT ![n] = EmptyFactory]
    /\ sync' = [sync EXCEPT ![n] = SyncIdle]
    /\ online' = [online EXCEPT ![n] = {n}]
    /\ seen' = [seen EXCEPT ![n] = NothingSeen]
    /\ UNCHANGED submitted /\ Quiet

-----------------------------------------------------------------------------
Init ==
    /\ latest = [n \in Node |-> <<>>]
    /\ store = [n \in Node |-> <<>>]
    /\ adding = [n \in Node |-> <<>>]
    /\ factory = [n \in Node |-> EmptyFactory]
    /\ sync = [n \in Node |-> SyncIdle]
    /\ online = [n \in Node |-> IF n \in Unsteady THEN {n} ELSE Node]
    /\ seen = [n \in Node |-> NothingSeen]
    /\ sent = [n \in Node |-> [t \in Type |-> 0]]
    /\ msgs = {}
    /\ submitted = {}
    /\ lowered = {}
    /\ faults = 0

Next ==
    \/ \E c \in Cmd : Submit(c)
    \/ \E n \in Node : AddTxTimer(n)
    \/ \E n \in Node : ProposeTimer(n)
    \/ \E n \in Node : RetryTimer(n)
    \/ \E n \in Node, m \in msgs : \E view \in ViewsAfterReceipt(n) : ReceiveAddTx(n, view, m)
    \/ \E n \in Node, m \in msgs : \E view \in ViewsAfterReceipt(n) : ReceiveProposeBlock(n, view, m)
    \/ \E n \in Node, m \in msgs : \E view \in ViewsAfterReceipt(n) : ReceiveSignBlock(n, view, m)
    \/ \E n \in Node, m \in msgs : \E view \in ViewsAfterReceipt(n) : ReceiveConfirmBlock(n, view, m)
    \/ \E n \in Node, m \in msgs : \E view \in ViewsAfterReceipt(n) : Ignore(n, view, m)
    \/ \E n \in Node : \E i \in DOMAIN adding[n] : FinishAdd(n, i)
    \/ \E n, q \in Node : ReceiveStatus(n, q)
    \/ \E n, q \in Node : FetchSync(n, q)
    \/ \E n \in Node : FetchFails(n)
    \/ \E n, p \in Node : GoOffline(n, p)
    \/ \E n \in Node : Crash(n)

Spec == Init /\ [][Next]_vars

\* What the event loop and a network without loss guarantee: a timer that is
\* armed goes off, a write ends, a datagram is handled, status messages are
\* sent again and again, and a peer answers a sync sooner or later.
Fairness ==
    /\ \A n \in Node :
          /\ WF_vars(AddTxTimer(n)) /\ WF_vars(ProposeTimer(n)) /\ WF_vars(RetryTimer(n))
          /\ WF_vars(\E i \in DOMAIN adding[n] : FinishAdd(n, i))
          /\ \A q \in Node : WF_vars(ReceiveStatus(n, q)) /\ SF_vars(FetchSync(n, q))
          /\ WF_vars(\E m \in msgs : \E view \in ViewsAfterReceipt(n) :
                      \/ ReceiveAddTx(n, view, m) \/ ReceiveProposeBlock(n, view, m)
                      \/ ReceiveSignBlock(n, view, m) \/ ReceiveConfirmBlock(n, view, m)
                      \/ Ignore(n, view, m))

FairSpec == Spec /\ Fairness

-----------------------------------------------------------------------------
(* Properties.                                                              *)

\* Every variable has its type.
TypeOK ==
    /\ latest \in [Node -> Hash]
    /\ store \in [Node -> Seq(Hash)]
    /\ adding \in [Node -> Seq(Write)]
    /\ factory \in [Node -> Factory]
    /\ sync \in [Node -> SyncState]
    /\ online \in [Node -> SUBSET Node]
    /\ seen \in [Node -> [Type -> [Node -> Nat]]]
    /\ sent \in [Node -> [Type -> Nat]]
    /\ msgs \subseteq Message
    /\ submitted \subseteq Cmd
    /\ lowered \subseteq Node
    /\ faults \in 0..MaxFaults

\* The chains n has: up to its latest block, and up to the last one it holds.
Chains(n) == {latest[n]} \cup Range(store[n])

\* The blockchains of any two nodes are equal as far as both go: the network
\* never decides two blocks for one height, and a node that is back at an
\* earlier block holds later ones of the same chain.
Agreement ==
    \A n, p \in Node : \A c \in Chains(n), d \in Chains(p) : IsPrefix(c, d) \/ IsPrefix(d, c)

\* The nodes that have put their signature under a block, as far as the
\* messages ms show: its proposer and everybody who sent a SignBlock for it.
Signers(ms, hash) ==
    {m.origin : m \in {k \in ms : k.type \in {"ProposeBlock", "SignBlock"} /\ k.hash = hash}}

Certified(ms, hash) ==
    /\ ValidCandidate(hash)
    /\ \E Q \in SUBSET Signers(ms, hash) : 2 * Weight[Q] > Weight[Node]

AllCertified(ms, chain) == \A k \in 1..Len(chain) : Certified(ms, SubSeq(chain, 1, k))

\* Every block of every chain is backed by signatures of a quorum, and each
\* transaction in it was made for that height, at most one per origin: whatever
\* gets lost, late or repeated, and also for blocks taken over from a peer.
QuorumBacked == \A n \in Node : \A chain \in Chains(n) : AllCertified(msgs, chain)

\* The transactions n has signed and given away: as its own, in the pool of
\* the validator it is, or in an AddTx.
SignedTx(n) ==
    {tx \in {factory[n].ownTx} : HasOwnTx(factory[n])}
    \cup {tx \in UNION {factory[p].pool : p \in Node} : Origin(tx) = n}
    \cup {m.tx : m \in {k \in msgs : k.type = "AddTx" /\ k.origin = n}}

\* "Per round, each peer can only add one own transaction": whatever timers,
\* retries and repeated clears do, no node signs two different transactions
\* for one height, unless it has crashed or gone back in height in between.
OneTx(n) == \A tx, u \in SignedTx(n) : tx.height = u.height => tx = u
OneTxPerRound == \A n \in Node \ (MayCrash \cup lowered) : OneTx(n)

CmdsOf(hash) == {tx.cmd : tx \in UNION {hash[k] : k \in DOMAIN hash}}

\* Nothing that was submitted is lost: until it is in a block of its node it is
\* on the stack or in the own transaction there.
NothingLost ==
    \A c \in submitted :
        LET n == Home[c]
        IN  \/ c \in Range(factory[n].stack)
            \/ HasOwnTx(factory[n]) /\ factory[n].ownTx.cmd = c
            \/ \E chain \in Chains(n) : c \in CmdsOf(chain)

\* A proposal timer only runs while there is a pool to propose, and the pool
\* is for the next height: the timer callback does not check it again.
PoolFresh ==
    \A n \in Node :
        /\ "propose" \in factory[n].timer => factory[n].pool # {}
        /\ \A tx \in factory[n].pool : tx.height = Height(latest[n]) + 1

\* No node replaces or loses a block it has, also while it is back at an earlier
\* one: what add() checked before it waited still holds when it is done.
NeverReverts == [][\A n \in Node : IsPrefix(store[n], store'[n])]_vars

\* The blocks a node holds are those of the heights 2, 3 ... with no gap, and the
\* latest one is there unless it is genesis: whatever overlaps, fails or goes
\* back, every call of add() finds the block before its own in place.
StoreGapless ==
    \A n \in Node : /\ \A k \in DOMAIN store[n] : Len(store[n][k]) = k
                    /\ latest[n] \in {<<>>} \cup Range(store[n])

\* Blocks are produced on demand: what a client submits ends up on the chain
\* of every node.
Progress == \A c \in Cmd : c \in submitted ~> \A n \in Node : c \in CmdsOf(latest[n])

\* The blocks of a chain as a client sees them, and the longest chain.
Commands(chain) == [k \in DOMAIN chain |-> {tx.cmd : tx \in chain[k]}]
AllChains == UNION {Chains(n) : n \in Node}
Longest == CHOOSE chain \in AllChains : \A c \in AllChains : Len(c) <= Len(chain)

L == INSTANCE Ledger WITH log <- Commands(Longest),
                          view <- [n \in Node |-> Commands(latest[n])]

\* The nodes implement one ledger: through overlapping calls of add(), repeated
\* clears, retries and syncs every height is decided once, with submitted
\* commands of distinct nodes, and what a node shows is a beginning of the
\* ledger at any time, also after it has gone back.
ImplementsLedger == L!LedgerSpec
=============================================================================
