------------------------- MODULE BlockFactoryProofs -------------------------
(***************************************************************************)
(* Theorems about BlockFactory, for every network, every stake and every   *)
(* combination of the faults it models.                                    *)
(***************************************************************************)
EXTENDS BlockFactory, SequenceTheorems, TLAPS

-----------------------------------------------------------------------------
(* What the methods of BlockFactory return.                                 *)

\* clear() leaves a well-typed object, whatever block it is given.
LEMMA ClearType ==
    ASSUME NEW f \in Factory, NEW txs
    PROVE  Clear(f, txs) \in Factory
<1>1. f.stack \in Seq(Cmd) /\ (HasOwnTx(f) => f.ownTx.cmd \in Cmd)
  BY DEF Factory, HasOwnTx, Tx, NoTx
<1>2. HasOwnTx(f) => <<f.ownTx.cmd>> \o f.stack \in Seq(Cmd)
  BY <1>1
<1>3. NoBlock \in Block
  BY DEF NoBlock, Block, Hash
<1>. QED
  BY <1>1, <1>2, <1>3 DEF Clear, ClearedWith, Factory

\* A stack push, a new block or vote list, and setting or clearing a timer
\* keep the type.
LEMMA FieldTypes ==
    ASSUME NEW f \in Factory
    PROVE  /\ \A c \in Cmd : Push(f, c) \in Factory
           /\ \A hash \in Hash, votes \in SUBSET Node : WithBlock(f, hash, votes) \in Factory
           /\ \A t \in Timer : Arm(f, t) \in Factory /\ Disarm(f, t) \in Factory
           /\ SetupRetry(f) \in Factory
<1>1. ASSUME NEW c \in Cmd PROVE Push(f, c) \in Factory
  <2>1. Append(f.stack, c) \in Seq(Cmd)
    BY DEF Factory
  <2>. QED
    BY <2>1 DEF Push, Factory
<1>2. ASSUME NEW hash \in Hash, NEW votes \in SUBSET Node
      PROVE  WithBlock(f, hash, votes) \in Factory
  BY DEF WithBlock, Factory, Block
<1>3. ASSUME NEW t \in Timer PROVE Arm(f, t) \in Factory /\ Disarm(f, t) \in Factory
  BY DEF Arm, Disarm, Factory
<1>. QED
  BY <1>1, <1>2, <1>3 DEF SetupRetry, Timer

\* processAddTx keeps the type.
LEMMA ProcessAddTxType ==
    ASSUME NEW f \in Factory, NEW tx \in Tx, NEW chain
    PROVE  ProcessAddTx(f, tx, chain) \in Factory
<1>1. [f EXCEPT !.pool = @ \cup {tx}] \in Factory
  BY DEF Factory
<1>. QED
  BY <1>1, FieldTypes DEF ProcessAddTx, Timer

\* broadcast records a well-formed message and its sequence number.
LEMMA BroadcastType ==
    ASSUME TypeOK, NEW m \in Message, Broadcast(m)
    PROVE  msgs' \subseteq Message /\ sent' \in [Node -> [Type -> Nat]]
<1>1. m.origin \in Node /\ m.type \in Type /\ m.seq \in Nat
  BY DEF Message, Type
<1>. QED
  BY <1>1 DEF Broadcast, TypeOK

\* doAddTx, called with well-typed fields.
LEMMA DoAddTxType ==
    ASSUME TypeOK, NEW n \in Node, NEW f \in Factory, DoAddTx(n, f)
    PROVE  /\ factory' \in [Node -> Factory]
           /\ msgs' \subseteq Message
           /\ sent' \in [Node -> [Type -> Nat]]
<1>. DEFINE tx == [cmd |-> Head(f.stack), height |-> Height(latest[n]) + 1]
            g == [f EXCEPT !.stack = Tail(@), !.ownTx = tx]
<1>1. CASE HasOwnTx(f) \/ f.stack = <<>>
  BY <1>1 DEF DoAddTx, Quiet, TypeOK
<1>2. CASE ~HasOwnTx(f) /\ f.stack # <<>>
  <2>1. f.stack \in Seq(Cmd)
    BY DEF Factory
  <2>2. Head(f.stack) \in Cmd /\ Tail(f.stack) \in Seq(Cmd)
    BY <1>2, <2>1
  <2>3. latest[n] \in Seq(SUBSET Tx)
    BY DEF TypeOK, Hash
  <2>4. tx \in Tx
    BY <2>2, <2>3, LenProperties DEF Tx, Height
  <2>5. g \in Factory
    BY <2>2, <2>4 DEF Factory
  <2>6. NextSeq(n, "AddTx") \in Nat
    BY DEF NextSeq, TypeOK, Type
  <2>. HIDE DEF tx, g
  <2>7. SetupRetry(g) \in Factory /\ SetupRetry(ProcessAddTx(g, tx, latest[n])) \in Factory
    BY <2>4, <2>5, FieldTypes, ProcessAddTxType
  <2>8. [type |-> "AddTx", origin |-> n, seq |-> NextSeq(n, "AddTx"), tx |-> tx] \in Message
    BY <2>4, <2>6 DEF Message
  <2>9. factory' \in [Node -> Factory]
    BY <1>2, <2>7 DEF DoAddTx, TypeOK, tx, g
  <2>10. \/ Quiet
         \/ Broadcast([type |-> "AddTx", origin |-> n, seq |-> NextSeq(n, "AddTx"), tx |-> tx])
    BY <1>2 DEF DoAddTx, tx
  <2>. QED
    BY <2>8, <2>9, <2>10, BroadcastType DEF Quiet, TypeOK
<1>. QED
  BY <1>1, <1>2

\* What a message with the fields its type has is made of.
LEMMA MessageType ==
    ASSUME NEW m \in Message
    PROVE  /\ m.origin \in Node /\ m.type \in Type /\ m.seq \in Nat
           /\ m.type = "AddTx" => m.tx \in Tx
           /\ m.type \in {"ProposeBlock", "SignBlock", "ConfirmBlock"} => m.hash \in Hash
           /\ m.type = "ConfirmBlock" => m.votes \in SUBSET Node
BY DEF Message, Type

\* incomingData keeps mapMsgSeq and mapOnline well-typed.
LEMMA ReceiveTypes ==
    ASSUME TypeOK, NEW n \in Node, NEW m \in msgs, NEW view \in ViewsAfterReceipt(n),
           Receive(n, view, m)
    PROVE  /\ seen' \in [Node -> [Type -> [Node -> Nat]]]
           /\ online' \in [Node -> SUBSET Node]
           /\ UNCHANGED <<sync, submitted, faults>> /\ UNCHANGED chainVars
<1>1. m \in Message
  BY DEF TypeOK
<1>2. m.origin \in Node /\ m.type \in Type /\ m.seq \in Nat
  BY <1>1, MessageType
<1>3. view \in SUBSET Node
  BY DEF ViewsAfterReceipt, TypeOK
<1>. QED
  BY <1>2, <1>3 DEF Receive, TypeOK

\* Starting an add() queues a well-typed write.
LEMMA StartAddType ==
    ASSUME TypeOK, NEW n \in Node, NEW hash \in Hash, NEW votes, StartAdd(n, hash, votes)
    PROVE  adding' \in [Node -> Seq(Write)]
<1>1. [hash |-> hash, sync |-> FALSE] \in Write
  BY DEF Write
<1>2. Append(adding[n], [hash |-> hash, sync |-> FALSE]) \in Seq(Write)
  BY <1>1 DEF TypeOK
<1>. QED
  BY <1>2 DEF StartAdd, TypeOK

\* The calls of add() under way at a node, one by one.
LEMMA WriteTypes ==
    ASSUME NEW ws \in Seq(Write)
    PROVE  /\ Len(ws) \in Nat /\ DOMAIN ws = 1..Len(ws)
           /\ \A i \in DOMAIN ws : ws[i] \in Write /\ ws[i].hash \in Hash
<1>1. Len(ws) \in Nat /\ DOMAIN ws = 1..Len(ws) /\ \A i \in 1..Len(ws) : ws[i] \in Write
  BY LenProperties, ElementOfSeq
<1>. QED
  BY <1>1 DEF Write

\* The sync in progress at a node.
LEMMA SyncTypes ==
    ASSUME NEW s \in SyncState
    PROVE  /\ s.queue \in Seq(Hash) /\ s.height \in Nat
           /\ s.phase = "fetch" => s.height \in Nat \ {0}
<1>1. <<>> \in Seq(Hash)
  OBVIOUS
<1>. DEFINE Goal == /\ s.queue \in Seq(Hash) /\ s.height \in Nat
                    /\ s.phase = "fetch" => s.height \in Nat \ {0}
<1>2. ASSUME s \in [phase : {"idle"}, height : {0}, queue : {<<>>}] PROVE Goal
  <2>1. s.phase = "idle" /\ s.height = 0 /\ s.queue = <<>>
    BY <1>2
  <2>. QED
    BY <1>1, <2>1
<1>3. ASSUME s \in [phase : {"fetch"}, height : Nat \ {0}, queue : {<<>>}] PROVE Goal
  <2>1. s.height \in Nat \ {0} /\ s.queue = <<>>
    BY <1>3
  <2>. QED
    BY <1>1, <2>1
<1>4. ASSUME s \in [phase : {"apply"}, height : {0}, queue : Seq(Hash)] PROVE Goal
  <2>1. s.phase = "apply" /\ s.height = 0 /\ s.queue \in Seq(Hash)
    BY <1>4
  <2>. QED
    BY <2>1
<1>. HIDE DEF Goal
<1>5. Goal
  BY <1>2, <1>3, <1>4 DEF SyncState
<1>. QED
  BY <1>5 DEF Goal

\* The sync loop keeps its own state and the pending writes well-typed.
LEMMA ResumeSyncType ==
    ASSUME TypeOK, NEW n \in Node, NEW queue \in Seq(Hash), NEW chain,
           NEW pending \in Seq(Write),
           ResumeSync(n, queue, chain, pending)
    PROVE  /\ adding' \in [Node -> Seq(Write)]
           /\ sync' \in [Node -> SyncState]
<1>. DEFINE I == {i \in DOMAIN queue : Addable(queue[i], chain)}
<1>1. CASE I = {} /\ sync' = [sync EXCEPT ![n] = SyncIdle]
                  /\ adding' = [adding EXCEPT ![n] = pending]
  <2>1. SyncIdle \in SyncState
    BY DEF SyncIdle, SyncState
  <2>. QED
    BY <1>1, <2>1 DEF TypeOK
<1>2. ASSUME NEW i \in I,
             sync' = [sync EXCEPT ![n] = [phase |-> "apply", height |-> 0,
                                          queue |-> SubSeq(queue, i + 1, Len(queue))]],
             adding' = [adding EXCEPT ![n] = Append(pending, [hash |-> queue[i], sync |-> TRUE])]
      PROVE  /\ adding' \in [Node -> Seq(Write)]
             /\ sync' \in [Node -> SyncState]
  <2>1. i \in 1..Len(queue) /\ queue[i] \in Hash /\ Len(queue) \in Nat
    BY LenProperties, ElementOfSeq
  <2>2. [hash |-> queue[i], sync |-> TRUE] \in Write
    BY <2>1 DEF Write
  <2>3. Append(pending, [hash |-> queue[i], sync |-> TRUE]) \in Seq(Write)
    BY <2>2
  <2>4. SubSeq(queue, i + 1, Len(queue)) \in Seq(Hash)
    BY <2>1, SubSeqProperties
  <2>5. [phase |-> "apply", height |-> 0, queue |-> SubSeq(queue, i + 1, Len(queue))] \in SyncState
    BY <2>4 DEF SyncState
  <2>. QED
    BY <1>2, <2>3, <2>5 DEF TypeOK
<1>. QED
  BY <1>1, <1>2 DEF ResumeSync

\* A sequence without one of its elements: all the others are there, and nothing
\* else.
LEMMA Removed ==
    ASSUME NEW S, NEW s \in Seq(S), NEW i \in DOMAIN s
    PROVE  /\ RemoveAt(s, i) \in Seq(S)
           /\ \A j \in DOMAIN RemoveAt(s, i) : \E k \in DOMAIN s : RemoveAt(s, i)[j] = s[k]
           /\ \A k \in DOMAIN s : k = i \/ (\E j \in DOMAIN RemoveAt(s, i) : RemoveAt(s, i)[j] = s[k])
<1>. DEFINE before == SubSeq(s, 1, i - 1)
            after == SubSeq(s, i + 1, Len(s))
            rest == before \o after
<1>1. Len(s) \in Nat /\ DOMAIN s = 1..Len(s) /\ i \in 1..Len(s) /\ \A k \in 1..Len(s) : s[k] \in S
  BY LenProperties, ElementOfSeq
<1>2. before \in Seq(S) /\ Len(before) = i - 1 /\ \A k \in 1..(i - 1) : before[k] = s[k]
  <2>1. PICK h \in Nat : i = h + 1
    BY <1>1
  <2>2. before = SubSeq(s, 1, h) /\ h \in 0..Len(s)
    BY <1>1, <2>1
  <2>3. before \in Seq(S) /\ Len(before) = h /\ \A k \in 1..h : before[k] = s[k]
    BY <1>1, <2>2
  <2>. QED
    BY <2>1, <2>3
<1>3. /\ after \in Seq(S) /\ Len(after) = Len(s) - i
      /\ \A k \in 1..(Len(s) - i) : after[k] = s[i + k]
  <2>1. i + 1 \in Int /\ Len(s) \in Int /\ i + 1 <= Len(s) + 1
        /\ \A k \in (i + 1)..Len(s) : s[k] \in S
    BY <1>1
  <2>2. /\ after \in Seq(S)
        /\ Len(after) = IF i + 1 <= Len(s) THEN Len(s) - (i + 1) + 1 ELSE 0
        /\ \A k \in 1..(Len(s) - (i + 1) + 1) : after[k] = s[i + 1 + k - 1]
    BY <2>1, SubSeqProperties
  <2>3. Len(s) - (i + 1) + 1 = Len(s) - i /\ Len(after) = Len(s) - i
    BY <1>1, <2>2
  <2>4. ASSUME NEW k \in 1..(Len(s) - i) PROVE after[k] = s[i + k]
    <3>1. i + 1 + k - 1 = i + k /\ k \in 1..(Len(s) - (i + 1) + 1)
      BY <1>1, <2>3
    <3>. QED
      BY <2>2, <3>1
  <2>. QED
    BY <2>2, <2>3, <2>4
<1>. HIDE DEF before, after
<1>4. /\ rest \in Seq(S) /\ Len(rest) = Len(s) - 1 /\ DOMAIN rest = 1..(Len(s) - 1)
      /\ \A k \in 1..(Len(before) + Len(after)) :
            rest[k] = IF k <= Len(before) THEN before[k] ELSE after[k - Len(before)]
  <2>1. /\ rest \in Seq(S) /\ Len(rest) = Len(before) + Len(after)
        /\ \A k \in 1..(Len(before) + Len(after)) :
              rest[k] = IF k <= Len(before) THEN before[k] ELSE after[k - Len(before)]
    BY <1>2, <1>3, ConcatProperties
  <2>2. Len(rest) = Len(s) - 1
    BY <1>1, <1>2, <1>3, <2>1
  <2>. QED
    BY <2>1, <2>2, LenProperties
<1>5. ASSUME NEW k \in 1..(Len(s) - 1)
      PROVE  rest[k] = IF k < i THEN s[k] ELSE s[k + 1]
  <2>1. CASE k < i
    <3>1. k \in 1..(Len(before) + Len(after)) /\ k <= Len(before) /\ k \in 1..(i - 1)
      BY <1>1, <1>2, <1>3, <2>1
    <3>. QED
      BY <1>2, <1>4, <2>1, <3>1
  <2>2. CASE ~(k < i)
    <3>1. k \in 1..(Len(before) + Len(after)) /\ ~(k <= Len(before))
          /\ k - Len(before) \in 1..(Len(s) - i) /\ i + (k - Len(before)) = k + 1
      BY <1>1, <1>2, <1>3, <2>2
    <3>2. rest[k] = after[k - Len(before)]
      BY <1>4, <3>1
    <3>3. after[k - Len(before)] = s[i + (k - Len(before))]
      BY <1>3, <3>1
    <3>. QED
      BY <2>2, <3>1, <3>2, <3>3
  <2>. QED
    BY <2>1, <2>2
<1>6. RemoveAt(s, i) = rest
  BY DEF RemoveAt, before, after
<1>. HIDE DEF rest
<1>7. ASSUME NEW j \in DOMAIN rest PROVE \E k \in DOMAIN s : rest[j] = s[k]
  BY <1>1, <1>4, <1>5
<1>8. ASSUME NEW k \in DOMAIN s, k # i PROVE \E j \in DOMAIN rest : rest[j] = s[k]
  <2>1. CASE k < i
    BY <1>1, <1>4, <1>5, <2>1
  <2>2. CASE i < k
    <3>1. k - 1 \in 1..(Len(s) - 1) /\ ~(k - 1 < i) /\ (k - 1) + 1 = k
      BY <1>1, <2>2
    <3>. QED
      BY <1>4, <1>5, <3>1
  <2>. QED
    BY <1>1, <1>8, <2>1, <2>2
<1>. QED
  BY <1>4, <1>6, <1>7, <1>8

\* updateCache adds a block on top or replaces the one of its height: no gap
\* opens, and every other block stays where it is.
LEMMA PutParts ==
    ASSUME NEW st \in Seq(Hash), NEW hash \in Hash, \A k \in DOMAIN st : Len(st[k]) = k,
           Len(hash) \in 1..(Len(st) + 1)
    PROVE  /\ Put(st, hash) \in Seq(Hash)
           /\ \A k \in DOMAIN Put(st, hash) : Len(Put(st, hash)[k]) = k
           /\ Len(hash) \in DOMAIN Put(st, hash) /\ Put(st, hash)[Len(hash)] = hash
           /\ Len(Put(st, hash)) = IF Len(hash) \in DOMAIN st THEN Len(st) ELSE Len(st) + 1
           /\ \A k \in DOMAIN Put(st, hash) :
                 k = Len(hash) \/ (k \in DOMAIN st /\ Put(st, hash)[k] = st[k])
<1>1. Len(st) \in Nat /\ DOMAIN st = 1..Len(st) /\ Len(hash) \in Nat
      /\ \A k \in 1..Len(st) : st[k] \in Hash
  BY LenProperties, ElementOfSeq DEF Hash
<1>2. CASE Len(hash) \in DOMAIN st
  <2>. DEFINE p == [st EXCEPT ![Len(hash)] = hash]
  <2>1. p \in Seq(Hash) /\ Len(p) = Len(st) /\ DOMAIN p = 1..Len(st)
    BY <1>1, <1>2, ExceptSeq
  <2>2. \A k \in 1..Len(st) : p[k] = IF k = Len(hash) THEN hash ELSE st[k]
    BY <1>1, <1>2
  <2>3. Put(st, hash) = p
    BY <1>2 DEF Put
  <2>. HIDE DEF p
  <2>. QED
    BY <1>1, <1>2, <2>1, <2>2, <2>3
<1>3. CASE Len(hash) \notin DOMAIN st
  <2>. DEFINE p == Append(st, hash)
  <2>1. /\ p \in Seq(Hash) /\ Len(p) = Len(st) + 1 /\ DOMAIN p = 1..(Len(st) + 1)
        /\ p[Len(st) + 1] = hash /\ \A k \in 1..Len(st) : p[k] = st[k]
    BY <1>1, AppendProperties
  <2>2. Len(hash) = Len(st) + 1
    BY <1>1, <1>3
  <2>3. Put(st, hash) = p
    BY <1>3 DEF Put
  <2>. HIDE DEF p
  <2>4. ASSUME NEW k \in DOMAIN p PROVE Len(p[k]) = k /\ (k = Len(hash) \/ (k \in DOMAIN st /\ p[k] = st[k]))
    <3>1. k = Len(st) + 1 \/ k \in 1..Len(st)
      BY <1>1, <2>1
    <3>. QED
      BY <1>1, <2>1, <2>2, <3>1
  <2>5. Len(hash) \in DOMAIN p /\ p[Len(hash)] = hash
    BY <1>1, <2>1, <2>2
  <2>. QED
    BY <1>3, <2>1, <2>3, <2>4, <2>5
<1>. QED
  BY <1>2, <1>3
-----------------------------------------------------------------------------
(* The store.  add() checks the height before it waits and updateCache sets *)
(* it afterwards: what counts is that every call under way has the block    *)
(* before its own in the store.                                             *)

\* The blocks st, the latest one chain and the calls ws of a node.
Fitting(st, chain, ws) ==
    /\ \A k \in DOMAIN st : Len(st[k]) = k
    /\ chain = <<>> \/ (Len(chain) \in DOMAIN st /\ st[Len(chain)] = chain)
    /\ \A i \in DOMAIN ws : Len(ws[i].hash) \in 1..(Len(st) + 1)

Fits == \A n \in Node : Fitting(store[n], latest[n], adding[n])

\* What a peer answers to a sync request are blocks that it holds.
LEMMA AnswerType ==
    ASSUME TypeOK, Fits, NEW q \in Node, NEW h \in Nat \ {0}
    PROVE  /\ Answer(q, h) \in Seq(Hash)
           /\ \A i \in DOMAIN Answer(q, h) :
                 \E k \in DOMAIN store[q] : Answer(q, h)[i] = store[q][k]
<1>. DEFINE top == IF h + 1 + SyncSize <= Height(latest[q]) THEN h + 1 + SyncSize
                                                            ELSE Height(latest[q])
            tooHigh == Len(store[q]) - Len(latest[q])
            first == h + tooHigh
            last == top - 1 + tooHigh
<1>1. /\ store[q] \in Seq(Hash) /\ Len(store[q]) \in Nat /\ DOMAIN store[q] = 1..Len(store[q])
      /\ \A k \in 1..Len(store[q]) : store[q][k] \in Hash
  BY LenProperties, ElementOfSeq DEF TypeOK
<1>2. Len(latest[q]) \in Nat /\ Len(latest[q]) <= Len(store[q])
  <2>1. latest[q] \in Hash /\ Len(<<>>) = 0
    BY DEF TypeOK
  <2>2. latest[q] = <<>> \/ Len(latest[q]) \in DOMAIN store[q]
    BY DEF Fits, Fitting
  <2>. QED
    BY <1>1, <2>1, <2>2, LenProperties DEF Hash
<1>3. top \in Int /\ top - 1 <= Len(latest[q]) /\ tooHigh \in Nat
  BY <1>1, <1>2, BoundAssumption DEF Height
<1>4. first \in Nat /\ 1 <= first /\ last \in Int /\ last <= Len(store[q])
  <2>1. Len(latest[q]) + tooHigh = Len(store[q])
    BY <1>1, <1>2
  <2>. HIDE DEF top, tooHigh
  <2>2. first \in Nat /\ 1 <= first
    BY <1>3
  <2>3. last \in Int /\ last <= Len(latest[q]) + tooHigh
    BY <1>2, <1>3
  <2>. QED
    BY <2>1, <2>2, <2>3
<1>5. Answer(q, h) = SubSeq(store[q], first, last)
  BY DEF Answer
<1>. HIDE DEF top, tooHigh, first, last
<1>6. \A k \in first..last : store[q][k] \in Hash
  BY <1>1, <1>4
<1>7. /\ Answer(q, h) \in Seq(Hash)
      /\ Len(Answer(q, h)) = IF first <= last THEN last - first + 1 ELSE 0
      /\ \A i \in 1..(last - first + 1) : Answer(q, h)[i] = store[q][first + i - 1]
  BY <1>4, <1>5, <1>6, SubSeqProperties
<1>8. ASSUME NEW i \in DOMAIN Answer(q, h)
      PROVE  \E k \in DOMAIN store[q] : Answer(q, h)[i] = store[q][k]
  <2>1. i \in 1..Len(Answer(q, h))
    BY <1>7, <1>8, LenProperties
  <2>2. i \in 1..(last - first + 1) /\ first + i - 1 \in 1..Len(store[q])
    BY <1>1, <1>4, <1>7, <2>1
  <2>. QED
    BY <1>1, <1>7, <2>2
<1>. QED
  BY <1>7, <1>8

\* What a node finds in its store after a crash: blocks that were there and
\* blocks of calls under way, again with no gap.
LEMMA CrashStore ==
    ASSUME TypeOK, Fits, NEW n \in Node, NEW w \in SUBSET DOMAIN adding[n], NEW found,
           found = FoundAfterCrash(n, w)
    PROVE  /\ found \in Seq(Hash)
           /\ \A k \in DOMAIN found : Len(found[k]) = k
           /\ \A k \in DOMAIN found : \/ k \in DOMAIN store[n] /\ found[k] = store[n][k]
                                     \/ \E i \in DOMAIN adding[n] : found[k] = adding[n][i].hash
<1>. DEFINE W(k) == {i \in w : Len(adding[n][i].hash) = k}
            top == Len(store[n]) + 1
            size == IF W(top) = {} THEN top - 1 ELSE top
            st == [k \in 1..size |->
                      IF W(k) = {} THEN store[n][k] ELSE adding[n][CHOOSE i \in W(k) : TRUE].hash]
<1>0. found = st
  BY DEF FoundAfterCrash
<1>1. /\ Len(store[n]) \in Nat /\ DOMAIN store[n] = 1..Len(store[n])
      /\ \A k \in DOMAIN store[n] : store[n][k] \in Hash /\ Len(store[n][k]) = k
  BY LenProperties, ElementOfSeq DEF TypeOK, Fits, Fitting
<1>2. \A i \in DOMAIN adding[n] : adding[n][i].hash \in Hash
  BY WriteTypes DEF TypeOK
<1>3. size \in Nat /\ (W(top) = {} => size = Len(store[n])) /\ size <= Len(store[n]) + 1
  BY <1>1
<1>4. ASSUME NEW k \in 1..size
      PROVE  /\ st[k] \in Hash /\ Len(st[k]) = k
             /\ \/ k \in DOMAIN store[n] /\ st[k] = store[n][k]
                \/ \E i \in DOMAIN adding[n] : st[k] = adding[n][i].hash
  <2>1. CASE W(k) = {}
    <3>1. k \in DOMAIN store[n]
      BY <1>1, <1>3, <2>1
    <3>. QED
      BY <1>1, <2>1, <3>1
  <2>2. CASE W(k) # {}
    <3>. DEFINE i == CHOOSE j \in W(k) : TRUE
    <3>1. i \in W(k) /\ st[k] = adding[n][i].hash
      BY <2>2
    <3>. QED
      BY <1>2, <3>1
  <2>. QED
    BY <2>1, <2>2
<1>. HIDE DEF size
<1>5. st \in [1..size -> Hash] /\ DOMAIN st = 1..size
  BY <1>4
<1>. HIDE DEF st
<1>6. st \in Seq(Hash)
  BY <1>3, <1>5, SeqDef
<1>. QED
  BY <1>0, <1>4, <1>5, <1>6

-----------------------------------------------------------------------------
(* Type correctness.                                                        *)

\* The object of a node that has just started.
LEMMA StartTypes ==
    /\ EmptyFactory \in Factory
    /\ NothingSeen \in [Type -> [Node -> Nat]]
    /\ SyncIdle \in SyncState
    /\ <<>> \in Hash
<1>1. NoBlock \in Block
  BY DEF NoBlock, Block, Hash
<1>2. EmptyFactory \in Factory
  BY <1>1 DEF EmptyFactory, Factory
<1>. QED
  BY <1>2 DEF NothingSeen, SyncIdle, SyncState, Hash

\* Every callback keeps the types.
LEMMA TypeStep ==
    TypeOK /\ Fits /\ [Next]_vars => TypeOK'
<1>. SUFFICES ASSUME TypeOK, Fits, [Next]_vars PROVE TypeOK'
  OBVIOUS
<1>0. CASE UNCHANGED vars
  BY <1>0 DEF vars, TypeOK
<1>1. ASSUME NEW c \in Cmd, Submit(c) PROVE TypeOK'
  <2>1. Home[c] \in Node
    BY HomeAssumption
  <2>2. Push(factory[Home[c]], c) \in Factory
    BY <2>1, FieldTypes DEF TypeOK
  <2>3. DoAddTx(Home[c], Push(factory[Home[c]], c))
    BY <1>1 DEF Submit
  <2>. QED
    BY <1>1, <2>1, <2>2, <2>3, DoAddTxType DEF Submit, chainVars, TypeOK
<1>2. ASSUME NEW n \in Node, AddTxTimer(n) PROVE TypeOK'
  <2>1. Disarm(factory[n], "addTx") \in Factory
    BY FieldTypes DEF TypeOK, Timer
  <2>2. DoAddTx(n, Disarm(factory[n], "addTx"))
    BY <1>2 DEF AddTxTimer
  <2>. QED
    BY <1>2, <2>1, <2>2, DoAddTxType DEF AddTxTimer, chainVars, TypeOK
<1>3. ASSUME NEW n \in Node, ProposeTimer(n) PROVE TypeOK'
  <2>. DEFINE hash == Append(latest[n], factory[n].pool)
              m == [type |-> "ProposeBlock", origin |-> n,
                    seq |-> NextSeq(n, "ProposeBlock"), hash |-> hash]
  <2>1. hash \in Hash
    BY DEF TypeOK, Factory, Hash
  <2>. HIDE DEF hash
  <2>2. m \in Message
    BY <2>1 DEF Message, NextSeq, TypeOK, Type
  <2>3. Broadcast(m)
    BY <1>3 DEF ProposeTimer, hash
  <2>. HIDE DEF m
  <2>4. msgs' \subseteq Message /\ sent' \in [Node -> [Type -> Nat]]
    BY <2>2, <2>3, BroadcastType
  <2>5. Disarm(factory[n], "propose") \in Factory
    BY FieldTypes DEF TypeOK, Timer
  <2>6. WithBlock(Disarm(factory[n], "propose"), hash, {n}) \in Factory
    BY <2>1, <2>5, FieldTypes
  <2>7. factory' \in [Node -> Factory]
    BY <1>3, <2>6 DEF ProposeTimer, hash, TypeOK
  <2>. QED
    BY <1>3, <2>4, <2>7 DEF ProposeTimer, chainVars, TypeOK
<1>4. ASSUME NEW n \in Node, RetryTimer(n) PROVE TypeOK'
  <2>1. factory[n] \in Factory
    BY DEF TypeOK
  <2>2. Clear(factory[n], {}) \in Factory /\ DoAddTx(n, Clear(factory[n], {}))
    BY <1>4, <2>1, ClearType DEF RetryTimer
  <2>3. faults' \in 0..MaxFaults
    BY <1>4, BoundAssumption DEF RetryTimer, TypeOK
  <2>. QED
    BY <1>4, <2>2, <2>3, DoAddTxType DEF RetryTimer, chainVars, TypeOK
<1>5. ASSUME NEW n \in Node, NEW m \in msgs, NEW view \in ViewsAfterReceipt(n),
             ReceiveAddTx(n, view, m)
      PROVE  TypeOK'
  <2>1. m.tx \in Tx /\ factory[n] \in Factory
    BY <1>5, MessageType DEF ReceiveAddTx, TypeOK
  <2>2. ProcessAddTx(factory[n], m.tx, latest[n]) \in Factory
    BY <2>1, ProcessAddTxType
  <2>3. factory' \in [Node -> Factory]
    BY <1>5, <2>2 DEF ReceiveAddTx, TypeOK
  <2>4. Receive(n, view, m)
    BY <1>5 DEF ReceiveAddTx
  <2>. QED
    BY <1>5, <2>3, <2>4, ReceiveTypes DEF ReceiveAddTx, Quiet, chainVars, TypeOK
<1>6. ASSUME NEW n \in Node, NEW m \in msgs, NEW view \in ViewsAfterReceipt(n),
             ReceiveProposeBlock(n, view, m)
      PROVE  TypeOK'
  <2>. DEFINE k == [type |-> "SignBlock", origin |-> n,
                    seq |-> NextSeq(n, "SignBlock"), hash |-> m.hash]
              f == WithBlock(factory[n], m.hash, {m.origin})
  <2>1. m.hash \in Hash /\ m.origin \in Node /\ factory[n] \in Factory
    BY <1>6, MessageType DEF ReceiveProposeBlock, TypeOK
  <2>2. k \in Message
    <3>1. NextSeq(n, "SignBlock") \in Nat
      BY DEF NextSeq, TypeOK, Type
    <3>. QED
      BY <2>1, <3>1 DEF Message
  <2>3. f \in Factory
    BY <2>1, FieldTypes
  <2>4. Broadcast(k) /\ factory' = [factory EXCEPT ![n] = SetupRetry(f)] /\ Receive(n, view, m)
    BY <1>6 DEF ReceiveProposeBlock
  <2>. HIDE DEF k, f
  <2>5. factory' \in [Node -> Factory]
    BY <2>3, <2>4, FieldTypes DEF TypeOK
  <2>6. msgs' \subseteq Message /\ sent' \in [Node -> [Type -> Nat]]
    BY <2>2, <2>4, BroadcastType
  <2>. QED
    BY <1>6, <2>4, <2>5, <2>6, ReceiveTypes DEF ReceiveProposeBlock, chainVars, TypeOK
<1>7. ASSUME NEW n \in Node, NEW m \in msgs, NEW view \in ViewsAfterReceipt(n),
             ReceiveSignBlock(n, view, m)
      PROVE  TypeOK'
  <2>. DEFINE hash == factory[n].block.hash
              votes == factory[n].block.votes \cup {m.origin}
              k == [type |-> "ConfirmBlock", origin |-> n,
                    seq |-> NextSeq(n, "ConfirmBlock"), hash |-> hash, votes |-> votes]
  <2>1. m.origin \in Node /\ factory[n] \in Factory /\ factory[n].block \in Block
    BY MessageType DEF TypeOK, Factory
  <2>2. hash \in Hash /\ votes \in SUBSET Node
    BY <2>1 DEF Block
  <2>3. factory' = [factory EXCEPT ![n] = WithBlock(@, hash, votes)]
    BY <1>7 DEF ReceiveSignBlock
  <2>4. Receive(n, view, m)
    BY <1>7 DEF ReceiveSignBlock
  <2>5. \/ StartAdd(n, hash, votes) /\ Broadcast(k)
        \/ Quiet /\ UNCHANGED adding
    BY <1>7 DEF ReceiveSignBlock
  <2>. HIDE DEF hash, votes
  <2>6. k \in Message
    BY <2>2 DEF Message, NextSeq, TypeOK, Type
  <2>7. WithBlock(factory[n], hash, votes) \in Factory
    BY <2>1, <2>2, FieldTypes
  <2>8. factory' \in [Node -> Factory]
    BY <2>3, <2>7 DEF TypeOK
  <2>. HIDE DEF k
  <2>9. /\ msgs' \subseteq Message /\ sent' \in [Node -> [Type -> Nat]]
        /\ adding' \in [Node -> Seq(Write)]
    BY <2>2, <2>5, <2>6, BroadcastType, StartAddType DEF Quiet, TypeOK
  <2>. QED
    BY <2>4, <2>8, <2>9, ReceiveTypes DEF chainVars, TypeOK
<1>8. ASSUME NEW n \in Node, NEW m \in msgs, NEW view \in ViewsAfterReceipt(n),
             ReceiveConfirmBlock(n, view, m)
      PROVE  TypeOK'
  <2>1. m.hash \in Hash /\ m.votes \in SUBSET Node /\ factory[n] \in Factory
    BY <1>8, MessageType DEF ReceiveConfirmBlock, TypeOK
  <2>2. WithBlock(factory[n], m.hash, m.votes) \in Factory
    BY <2>1, FieldTypes
  <2>3. factory' = [factory EXCEPT ![n] = WithBlock(@, m.hash, m.votes)]
    BY <1>8 DEF ReceiveConfirmBlock
  <2>4. factory' \in [Node -> Factory]
    BY <2>2, <2>3 DEF TypeOK
  <2>5. StartAdd(n, m.hash, m.votes) /\ Receive(n, view, m) /\ Quiet
    BY <1>8 DEF ReceiveConfirmBlock
  <2>6. adding' \in [Node -> Seq(Write)]
    BY <2>1, <2>5, StartAddType
  <2>. QED
    BY <2>4, <2>5, <2>6, ReceiveTypes DEF Quiet, chainVars, TypeOK
<1>9. ASSUME NEW n \in Node, NEW m \in msgs, NEW view \in ViewsAfterReceipt(n),
             Ignore(n, view, m)
      PROVE  TypeOK'
  <2>1. Receive(n, view, m) /\ Quiet /\ UNCHANGED <<adding, factory>>
    BY <1>9 DEF Ignore
  <2>. QED
    BY <2>1, ReceiveTypes DEF Quiet, chainVars, TypeOK
<1>10. ASSUME NEW n \in Node, NEW i \in DOMAIN adding[n], FinishAdd(n, i) PROVE TypeOK'
  <2>. DEFINE done == adding[n][i]
              others == RemoveAt(adding[n], i)
              f == Clear(factory[n], Last(done.hash))
  <2>1. adding[n] \in Seq(Write) /\ factory[n] \in Factory
    BY DEF TypeOK
  <2>2. done \in Write /\ others \in Seq(Write)
    BY <2>1, Removed, LenProperties, ElementOfSeq
  <2>3. done.hash \in Hash
    BY <2>2 DEF Write
  <2>4. f \in Factory
    BY <2>1, ClearType
  <2>5. Put(store[n], done.hash) \in Seq(Hash)
    <3>1. store[n] \in Seq(Hash) /\ (\A k \in DOMAIN store[n] : Len(store[n][k]) = k)
          /\ Len(done.hash) \in 1..(Len(store[n]) + 1)
      BY DEF TypeOK, Fits, Fitting
    <3>. QED
      BY <2>3, <3>1, PutParts
  <2>6. /\ latest' = [latest EXCEPT ![n] = done.hash]
        /\ store' = [store EXCEPT ![n] = Put(store[n], done.hash)]
        /\ lowered' = lowered \/ lowered' = lowered \cup {n}
        /\ factory' = [factory EXCEPT ![n] = Arm(f, "addTx")]
        /\ \/ ResumeSync(n, sync[n].queue, done.hash, others)
           \/ adding' = [adding EXCEPT ![n] = others] /\ UNCHANGED sync
        /\ UNCHANGED <<online, seen, submitted, faults>> /\ Quiet
    BY <1>10 DEF FinishAdd
  <2>7. sync[n].queue \in Seq(Hash)
    BY SyncTypes DEF TypeOK
  <2>. HIDE DEF done, others, f
  <2>8. Arm(f, "addTx") \in Factory
    BY <2>4, FieldTypes DEF Timer
  <2>9. /\ factory' \in [Node -> Factory] /\ latest' \in [Node -> Hash]
        /\ store' \in [Node -> Seq(Hash)] /\ lowered' \subseteq Node
    BY <2>3, <2>5, <2>6, <2>8 DEF TypeOK
  <2>10. adding' \in [Node -> Seq(Write)] /\ sync' \in [Node -> SyncState]
    BY <2>2, <2>6, <2>7, ResumeSyncType DEF TypeOK
  <2>. QED
    BY <2>6, <2>9, <2>10 DEF Quiet, TypeOK
<1>11. ASSUME NEW n \in Node, NEW q \in Node, ReceiveStatus(n, q) PROVE TypeOK'
  <2>1. latest[n] \in Hash
    BY DEF TypeOK
  <2>2. Height(latest[n]) \in Nat \ {0}
    BY <2>1, LenProperties DEF Height, Hash
  <2>3. [phase |-> "fetch", height |-> Height(latest[n]), queue |-> <<>>] \in SyncState
    BY <2>2 DEF SyncState, Height
  <2>4. sync' \in [Node -> SyncState]
    BY <1>11, <2>3 DEF ReceiveStatus, TypeOK
  <2>. QED
    BY <1>11, <2>4 DEF ReceiveStatus, chainVars, netVars, TypeOK
<1>12. ASSUME NEW n \in Node, NEW q \in Node, FetchSync(n, q) PROVE TypeOK'
  <2>1. sync[n].height \in Nat \ {0} /\ adding[n] \in Seq(Write)
    BY <1>12, SyncTypes DEF FetchSync, TypeOK
  <2>2. Answer(q, sync[n].height) \in Seq(Hash)
    BY <2>1, AnswerType
  <2>3. ResumeSync(n, Answer(q, sync[n].height), latest[n], adding[n])
    BY <1>12 DEF FetchSync
  <2>. QED
    BY <1>12, <2>1, <2>2, <2>3, ResumeSyncType DEF FetchSync, chainVars, netVars, TypeOK
<1>13. ASSUME NEW n \in Node, FetchFails(n) PROVE TypeOK'
  BY <1>13, StartTypes DEF FetchFails, chainVars, netVars, TypeOK
<1>14. ASSUME NEW n \in Node, NEW p \in Node, GoOffline(n, p) PROVE TypeOK'
  BY <1>14 DEF GoOffline, chainVars, netVars, TypeOK
<1>15. ASSUME NEW n \in Node, Crash(n) PROVE TypeOK'
  <2>1. PICK st \in {FoundAfterCrash(n, w) : w \in SUBSET DOMAIN adding[n]} \cup {<<>>} :
             /\ store' = [store EXCEPT ![n] = st]
             /\ latest' = [latest EXCEPT ![n] = IF st = <<>> THEN <<>> ELSE Last(st)]
    BY <1>15 DEF Crash
  <2>2. st \in Seq(Hash)
    <3>1. ASSUME NEW w \in SUBSET DOMAIN adding[n], st = FoundAfterCrash(n, w)
          PROVE  st \in Seq(Hash)
      BY <3>1, CrashStore
    <3>2. <<>> \in Seq(Hash)
      OBVIOUS
    <3>. QED
      BY <3>1, <3>2
  <2>3. (IF st = <<>> THEN <<>> ELSE Last(st)) \in Hash
    <3>1. CASE st = <<>>
      BY <3>1, StartTypes
    <3>2. CASE st # <<>>
      <4>1. Len(st) \in 1..Len(st) /\ Last(st) = st[Len(st)]
        BY <2>2, <3>2, LenProperties, EmptySeq DEF Last
      <4>. QED
        BY <2>2, <3>2, <4>1, ElementOfSeq
    <3>. QED
      BY <3>1, <3>2
  <2>4. latest' \in [Node -> Hash] /\ store' \in [Node -> Seq(Hash)]
    BY <2>1, <2>2, <2>3 DEF TypeOK
  <2>5. faults' \in 0..MaxFaults /\ lowered' \subseteq Node
    BY <1>15, BoundAssumption DEF Crash, TypeOK
  <2>6. <<>> \in Seq(Write)
    OBVIOUS
  <2>7. /\ adding' \in [Node -> Seq(Write)] /\ factory' \in [Node -> Factory]
        /\ sync' \in [Node -> SyncState] /\ online' \in [Node -> SUBSET Node]
        /\ seen' \in [Node -> [Type -> [Node -> Nat]]]
    BY <1>15, <2>6, StartTypes DEF Crash, TypeOK
  <2>. QED
    BY <1>15, <2>4, <2>5, <2>7 DEF Crash, Quiet, TypeOK
<1>. QED
  BY <1>0, <1>1, <1>2, <1>3, <1>4, <1>5, <1>6, <1>7, <1>8, <1>9, <1>10, <1>11, <1>12,
     <1>13, <1>14, <1>15 DEF Next

\* A block on top of a chain is one longer, and the chain is all of it but the
\* last block.
LEMMA ExtendsParts ==
    ASSUME NEW hash \in Hash, NEW chain, Extends(hash, chain)
    PROVE  /\ Len(chain) \in Nat /\ Len(hash) = Len(chain) + 1
           /\ chain = SubSeq(hash, 1, Len(chain))
<1>1. hash # <<>> /\ chain = SubSeq(hash, 1, Len(hash) - 1)
  BY DEF Extends, Front
<1>2. Len(hash) \in Nat /\ hash \in Seq(SUBSET Tx)
  BY LenProperties DEF Hash
<1>3. Len(hash) # 0
  BY <1>1, <1>2, EmptySeq
<1>4. PICK l \in Nat : Len(hash) = l + 1
  BY <1>2, <1>3
<1>5. chain = SubSeq(hash, 1, l) /\ \A i \in 1..l : hash[i] \in SUBSET Tx
  BY <1>1, <1>2, <1>4, ElementOfSeq
<1>6. Len(chain) = IF 1 <= l THEN l - 1 + 1 ELSE 0
  BY <1>5, SubSeqProperties
<1>7. Len(chain) = l
  BY <1>6
<1>. QED
  BY <1>4, <1>5, <1>7

\* One more call on top of the latest block.
LEMMA FittingAppend ==
    ASSUME NEW st \in Seq(Hash), NEW chain \in Hash, NEW ws \in Seq(Write), Fitting(st, chain, ws),
           NEW hash \in Hash, NEW b \in BOOLEAN, Addable(hash, chain)
    PROVE  Fitting(st, chain, Append(ws, [hash |-> hash, sync |-> b]))
<1>. DEFINE w == [hash |-> hash, sync |-> b]
            vs == Append(ws, w)
<1>1. Len(chain) \in Nat /\ Len(hash) = Len(chain) + 1
  BY ExtendsParts DEF Addable
<1>2. Len(st) \in Nat /\ DOMAIN st = 1..Len(st) /\ Len(<<>>) = 0
  BY LenProperties
<1>3. Len(chain) <= Len(st)
  BY <1>1, <1>2 DEF Fitting
<1>4. w \in Write /\ w.hash = hash
  BY DEF Write
<1>5. Len(ws) \in Nat /\ DOMAIN ws = 1..Len(ws)
  BY LenProperties
<1>. HIDE DEF w
<1>6. /\ DOMAIN vs = 1..(Len(ws) + 1) /\ vs[Len(ws) + 1] = w
      /\ \A i \in 1..Len(ws) : vs[i] = ws[i]
  BY <1>4, <1>5, AppendProperties
<1>. HIDE DEF vs
<1>7. ASSUME NEW i \in DOMAIN vs PROVE Len(vs[i].hash) \in 1..(Len(st) + 1)
  <2>1. CASE i = Len(ws) + 1
    BY <1>1, <1>2, <1>3, <1>4, <1>6, <2>1
  <2>2. CASE i \in 1..Len(ws)
    BY <1>5, <1>6, <2>2 DEF Fitting
  <2>. QED
    BY <1>5, <1>6, <2>1, <2>2
<1>8. Fitting(st, chain, vs)
  BY <1>7 DEF Fitting
<1>. QED
  BY <1>8 DEF vs, w

\* The sync loop adds at most one call, on top of chain.
LEMMA ResumeSyncFits ==
    ASSUME NEW n \in Node, NEW queue \in Seq(Hash), NEW st \in Seq(Hash), NEW chain \in Hash,
           NEW pending \in Seq(Write), Fitting(st, chain, pending),
           ResumeSync(n, queue, chain, pending)
    PROVE  \E ws \in Seq(Write) : adding' = [adding EXCEPT ![n] = ws] /\ Fitting(st, chain, ws)
<1>1. CASE adding' = [adding EXCEPT ![n] = pending]
  BY <1>1
<1>2. ASSUME NEW i \in DOMAIN queue, Addable(queue[i], chain),
             adding' = [adding EXCEPT ![n] = Append(pending, [hash |-> queue[i], sync |-> TRUE])]
      PROVE  \E ws \in Seq(Write) : adding' = [adding EXCEPT ![n] = ws] /\ Fitting(st, chain, ws)
  <2>1. queue[i] \in Hash
    BY LenProperties, ElementOfSeq
  <2>2. [hash |-> queue[i], sync |-> TRUE] \in Write
    BY <2>1 DEF Write
  <2>3. Append(pending, [hash |-> queue[i], sync |-> TRUE]) \in Seq(Write)
    BY <2>2, AppendProperties
  <2>4. Fitting(st, chain, Append(pending, [hash |-> queue[i], sync |-> TRUE]))
    BY <1>2, <2>1, FittingAppend
  <2>. QED
    BY <1>2, <2>3, <2>4
<1>. QED
  BY <1>1, <1>2 DEF ResumeSync

\* A call gets to its end, whichever: its block is in the store, no gap opens,
\* and the other calls still have the block before their own.
LEMMA FinishFits ==
    ASSUME NEW st \in Seq(Hash), NEW chain, NEW ws \in Seq(Write), NEW i \in DOMAIN ws,
           NEW hash, hash = ws[i].hash, Fitting(st, chain, ws)
    PROVE  /\ Put(st, hash) \in Seq(Hash) /\ RemoveAt(ws, i) \in Seq(Write)
           /\ Fitting(Put(st, hash), hash, RemoveAt(ws, i))
<1>1. Len(st) \in Nat /\ DOMAIN st = 1..Len(st)
  BY LenProperties
<1>2. hash \in Hash /\ Len(hash) \in 1..(Len(st) + 1) /\ \A k \in DOMAIN st : Len(st[k]) = k
  BY WriteTypes DEF Fitting
<1>3. /\ Put(st, hash) \in Seq(Hash) /\ \A k \in DOMAIN Put(st, hash) : Len(Put(st, hash)[k]) = k
      /\ Len(hash) \in DOMAIN Put(st, hash) /\ Put(st, hash)[Len(hash)] = hash
      /\ Len(Put(st, hash)) = IF Len(hash) \in DOMAIN st THEN Len(st) ELSE Len(st) + 1
  BY <1>2, PutParts
<1>4. /\ RemoveAt(ws, i) \in Seq(Write)
      /\ \A j \in DOMAIN RemoveAt(ws, i) : \E k \in DOMAIN ws : RemoveAt(ws, i)[j] = ws[k]
  BY Removed
<1>5. ASSUME NEW j \in DOMAIN RemoveAt(ws, i)
      PROVE  Len(RemoveAt(ws, i)[j].hash) \in 1..(Len(Put(st, hash)) + 1)
  <2>1. PICK k \in DOMAIN ws : RemoveAt(ws, i)[j] = ws[k]
    BY <1>4
  <2>2. Len(ws[k].hash) \in 1..(Len(st) + 1)
    BY DEF Fitting
  <2>. QED
    BY <1>1, <1>3, <2>1, <2>2
<1>. QED
  BY <1>3, <1>4, <1>5 DEF Fitting

\* A node that starts again fits, whatever of its calls is in the store.
LEMMA CrashFits ==
    ASSUME TypeOK, Fits, NEW n \in Node,
           NEW st \in {FoundAfterCrash(n, w) : w \in SUBSET DOMAIN adding[n]} \cup {<<>>}
    PROVE  /\ st \in Seq(Hash)
           /\ (IF st = <<>> THEN <<>> ELSE Last(st)) \in Hash
           /\ Fitting(st, IF st = <<>> THEN <<>> ELSE Last(st), <<>>)
<1>1. st \in Seq(Hash) /\ \A k \in DOMAIN st : Len(st[k]) = k
  <2>1. CASE st = <<>>
    BY <2>1
  <2>2. ASSUME NEW w \in SUBSET DOMAIN adding[n], st = FoundAfterCrash(n, w)
        PROVE  st \in Seq(Hash) /\ \A k \in DOMAIN st : Len(st[k]) = k
    BY <2>2, CrashStore
  <2>. QED
    BY <2>1, <2>2
<1>2. CASE st = <<>>
  BY <1>1, <1>2 DEF Fitting, Hash
<1>3. CASE st # <<>>
  <2>1. Len(st) \in DOMAIN st /\ Last(st) = st[Len(st)]
    BY <1>1, <1>3, LenProperties, EmptySeq DEF Last
  <2>2. Last(st) \in Hash /\ Len(Last(st)) = Len(st)
    BY <1>1, <2>1, ElementOfSeq, LenProperties
  <2>3. Len(Last(st)) \in DOMAIN st /\ st[Len(Last(st))] = Last(st)
    BY <2>1, <2>2
  <2>4. Fitting(st, Last(st), <<>>)
    BY <1>1, <2>3 DEF Fitting
  <2>. QED
    BY <1>1, <1>3, <2>2, <2>4
<1>. QED
  BY <1>2, <1>3

\* Every callback keeps the store gapless and every call in its place.
LEMMA FitsStep ==
    TypeOK /\ Fits /\ [Next]_vars => Fits'
<1>. SUFFICES ASSUME TypeOK, Fits, [Next]_vars PROVE Fits'
  OBVIOUS
<1>t. \A n \in Node : /\ latest[n] \in Hash /\ adding[n] \in Seq(Write) /\ store[n] \in Seq(Hash)
                      /\ Fitting(store[n], latest[n], adding[n])
  BY DEF TypeOK, Fits
<1>u. ASSUME UNCHANGED <<latest, store, adding>> PROVE Fits'
  BY <1>t, <1>u DEF Fits
<1>s. ASSUME NEW n \in Node, NEW st, NEW chain, NEW ws, Fitting(st, chain, ws),
             adding' = [adding EXCEPT ![n] = ws], latest' = [latest EXCEPT ![n] = chain],
             store' = [store EXCEPT ![n] = st]
      PROVE  Fits'
  BY <1>t, <1>s DEF Fits, TypeOK
<1>l. ASSUME NEW n \in Node, NEW ws, Fitting(store[n], latest[n], ws),
             adding' = [adding EXCEPT ![n] = ws], UNCHANGED <<latest, store>>
      PROVE  Fits'
  BY <1>t, <1>l DEF Fits, TypeOK
<1>a. ASSUME NEW n \in Node, NEW hash \in Hash, NEW votes, StartAdd(n, hash, votes),
             UNCHANGED <<latest, store>>
      PROVE  Fits'
  <2>1. CASE UNCHANGED adding
    BY <1>a, <1>u, <2>1
  <2>2. CASE /\ Addable(hash, latest[n])
             /\ adding' = [adding EXCEPT ![n] = Append(@, [hash |-> hash, sync |-> FALSE])]
    <3>1. Fitting(store[n], latest[n], Append(adding[n], [hash |-> hash, sync |-> FALSE]))
      BY <1>t, <2>2, FittingAppend
    <3>. QED
      BY <1>a, <1>l, <2>2, <3>1
  <2>. QED
    BY <1>a, <2>1, <2>2 DEF StartAdd
<1>0. ASSUME UNCHANGED vars PROVE Fits'
  BY <1>0, <1>u DEF vars
<1>1. ASSUME NEW c \in Cmd, Submit(c) PROVE Fits'
  BY <1>1, <1>u DEF Submit, chainVars
<1>2. ASSUME NEW n \in Node, AddTxTimer(n) \/ ProposeTimer(n) \/ RetryTimer(n) PROVE Fits'
  BY <1>2, <1>u DEF AddTxTimer, ProposeTimer, RetryTimer, chainVars
<1>3. ASSUME NEW n \in Node, NEW m \in msgs, NEW view,
             \/ ReceiveAddTx(n, view, m) \/ ReceiveProposeBlock(n, view, m)
             \/ Ignore(n, view, m)
      PROVE  Fits'
  BY <1>3, <1>u DEF ReceiveAddTx, ReceiveProposeBlock, Ignore, Receive, chainVars
<1>4. ASSUME NEW n \in Node, NEW m \in msgs, NEW view, ReceiveSignBlock(n, view, m) PROVE Fits'
  <2>1. factory[n].block.hash \in Hash
    BY DEF TypeOK, Factory, Block
  <2>2. UNCHANGED <<latest, store>>
    BY <1>4 DEF ReceiveSignBlock, Receive, chainVars
  <2>3. \/ UNCHANGED adding
        \/ StartAdd(n, factory[n].block.hash, factory[n].block.votes \cup {m.origin})
    BY <1>4 DEF ReceiveSignBlock
  <2>. QED
    BY <1>a, <1>u, <2>1, <2>2, <2>3
<1>5. ASSUME NEW n \in Node, NEW m \in msgs, NEW view, ReceiveConfirmBlock(n, view, m) PROVE Fits'
  <2>1. m.hash \in Hash
    BY <1>5, MessageType DEF ReceiveConfirmBlock, TypeOK
  <2>. QED
    BY <1>5, <1>a, <2>1 DEF ReceiveConfirmBlock, Receive, chainVars
<1>6. ASSUME NEW n \in Node, NEW i \in DOMAIN adding[n], FinishAdd(n, i) PROVE Fits'
  <2>1. PICK hash : hash = adding[n][i].hash
    OBVIOUS
  <2>2. PICK others : others = RemoveAt(adding[n], i)
    OBVIOUS
  <2>3. /\ latest' = [latest EXCEPT ![n] = hash] /\ store' = [store EXCEPT ![n] = Put(store[n], hash)]
        /\ \/ ResumeSync(n, sync[n].queue, hash, others)
           \/ adding' = [adding EXCEPT ![n] = others]
    BY <1>6, <2>1, <2>2 DEF FinishAdd
  <2>4. /\ Put(store[n], hash) \in Seq(Hash) /\ others \in Seq(Write) /\ hash \in Hash
        /\ Fitting(Put(store[n], hash), hash, others)
    <3>1. hash \in Hash
      BY <1>t, <2>1, WriteTypes
    <3>. QED
      BY <1>t, <2>1, <2>2, <3>1, FinishFits
  <2>5. sync[n].queue \in Seq(Hash)
    BY SyncTypes DEF TypeOK
  <2>6. \E ws : adding' = [adding EXCEPT ![n] = ws] /\ Fitting(Put(store[n], hash), hash, ws)
    BY <2>3, <2>4, <2>5, ResumeSyncFits
  <2>. QED
    BY <1>s, <2>3, <2>6
<1>7. ASSUME NEW n \in Node, NEW q \in Node,
             ReceiveStatus(n, q) \/ FetchFails(n) \/ GoOffline(n, q)
      PROVE  Fits'
  BY <1>7, <1>u DEF ReceiveStatus, FetchFails, GoOffline, chainVars
<1>8. ASSUME NEW n \in Node, NEW q \in Node, FetchSync(n, q) PROVE Fits'
  <2>1. /\ ResumeSync(n, Answer(q, sync[n].height), latest[n], adding[n])
        /\ UNCHANGED <<latest, store>>
    BY <1>8 DEF FetchSync, chainVars
  <2>2. sync[n].height \in Nat \ {0}
    BY <1>8, SyncTypes DEF FetchSync, TypeOK
  <2>3. Answer(q, sync[n].height) \in Seq(Hash)
    BY <2>2, AnswerType
  <2>4. \E ws : adding' = [adding EXCEPT ![n] = ws] /\ Fitting(store[n], latest[n], ws)
    BY <1>t, <2>1, <2>3, ResumeSyncFits
  <2>. QED
    BY <1>l, <2>1, <2>4
<1>9. ASSUME NEW n \in Node, Crash(n) PROVE Fits'
  <2>1. PICK st \in {FoundAfterCrash(n, w) : w \in SUBSET DOMAIN adding[n]} \cup {<<>>} :
             /\ store' = [store EXCEPT ![n] = st]
             /\ latest' = [latest EXCEPT ![n] = IF st = <<>> THEN <<>> ELSE Last(st)]
    BY <1>9 DEF Crash
  <2>2. adding' = [adding EXCEPT ![n] = <<>>]
    BY <1>9 DEF Crash
  <2>3. Fitting(st, IF st = <<>> THEN <<>> ELSE Last(st), <<>>)
    BY CrashFits
  <2>. QED
    BY <1>s, <2>1, <2>2, <2>3
<1>. QED
  BY <1>0, <1>1, <1>2, <1>3, <1>4, <1>5, <1>6, <1>7, <1>8, <1>9 DEF Next

\* The nodes start with what fits.
LEMMA InitFits ==
    Init => TypeOK /\ Fits
<1>1. Init => TypeOK
  <2>1. <<>> \in Seq(Hash) /\ <<>> \in Seq(Write)
    OBVIOUS
  <2>. QED
    BY <2>1, StartTypes, BoundAssumption DEF Init, TypeOK
<1>2. Init => Fits
  BY DEF Init, Fits, Fitting
<1>. QED
  BY <1>1, <1>2

\* Every variable keeps its type, in every network and under every fault: in
\* particular the stack only ever holds command lists, whatever clear() puts
\* back, and a sync only ever hands blocks to add().
THEOREM TypeCorrect == Spec => []TypeOK
<1>1. TypeOK /\ Fits /\ [Next]_vars => TypeOK' /\ Fits'
  BY TypeStep, FitsStep
<1>. QED
  BY <1>1, InitFits, PTL DEF Spec

\* No interleaving of calls of add(), no crash and no sync opens a gap in the
\* block store of a node, and its latest block is one of those it holds.
THEOREM StoresAreGapless == Spec => []StoreGapless
<1>1. TypeOK /\ Fits /\ [Next]_vars => TypeOK' /\ Fits'
  BY TypeStep, FitsStep
<1>2. TypeOK /\ Fits => StoreGapless
  BY DEF Fits, Fitting, StoreGapless, Range
<1>. QED
  BY <1>1, <1>2, InitFits, PTL DEF Spec

-----------------------------------------------------------------------------
(* Every block is backed by a quorum.  Alone QuorumBacked is not inductive: *)
(* a block comes to a chain from a pending write, there from the votes of a *)
(* held block, from a confirmation or from another chain by way of a sync.  *)

ChainsBacked == \A n \in Node : \A chain \in Chains(n) : AllCertified(msgs, chain)
WritesBacked == \A n \in Node : \A i \in DOMAIN adding[n] : AllCertified(msgs, adding[n][i].hash)
QueuesBacked == \A n \in Node : \A i \in DOMAIN sync[n].queue : AllCertified(msgs, sync[n].queue[i])
VotesBacked(ms, f) == f.block.votes \subseteq Signers(ms, f.block.hash)
BlocksBacked == \A n \in Node : VotesBacked(msgs, factory[n])
ConfirmsBacked ==
    \A m \in msgs : m.type = "ConfirmBlock" => m.votes \subseteq Signers(msgs, m.hash)

BackedInv ==
    /\ TypeOK
    /\ Fits
    /\ ChainsBacked
    /\ WritesBacked
    /\ QueuesBacked
    /\ BlocksBacked
    /\ ConfirmsBacked

\* A signature is never taken back: what is certified stays so.
LEMMA CertifiedGrows ==
    ASSUME NEW ms, NEW ns, ms \subseteq ns
    PROVE  /\ \A hash : Signers(ms, hash) \subseteq Signers(ns, hash)
           /\ \A chain : AllCertified(ms, chain) => AllCertified(ns, chain)
<1>1. \A hash : Signers(ms, hash) \subseteq Signers(ns, hash)
  BY DEF Signers
<1>2. \A hash : Certified(ms, hash) => Certified(ns, hash)
  BY <1>1 DEF Certified
<1>. QED
  BY <1>1, <1>2 DEF AllCertified

\* What add() accepts on top of a certified chain, with the votes of a quorum
\* that has signed, is a certified chain.
LEMMA CertifiedExtends ==
    ASSUME NEW ms, NEW hash \in Hash, NEW chain \in Hash, NEW votes,
           AllCertified(ms, chain), Addable(hash, chain),
           HasQuorumWeighted(votes), votes \subseteq Signers(ms, hash)
    PROVE  AllCertified(ms, hash)
<1>1. hash # <<>> /\ ValidCandidate(hash) /\ chain = SubSeq(hash, 1, Len(hash) - 1)
  BY DEF Addable, Extends, Front
<1>2. Len(hash) \in Nat /\ \A i \in 1..Len(hash) : hash[i] \in SUBSET Tx
  BY LenProperties, ElementOfSeq DEF Hash
<1>3. Certified(ms, hash)
  BY <1>1 DEF Certified, HasQuorumWeighted
<1>4. Len(chain) = Len(hash) - 1 /\ \A i \in 1..Len(chain) : chain[i] = hash[i]
  <2>1. PICK l \in Nat : Len(hash) = l + 1
    <3>1. Len(hash) # 0
      BY <1>1, <1>2, EmptySeq DEF Hash
    <3>. QED
      BY <1>2, <3>1
  <2>2. chain = SubSeq(hash, 1, l) /\ \A i \in 1..l : hash[i] \in SUBSET Tx
    BY <1>1, <1>2, <2>1
  <2>3. /\ Len(chain) = IF 1 <= l THEN l - 1 + 1 ELSE 0
        /\ \A i \in 1..(l - 1 + 1) : chain[i] = hash[1 + i - 1]
    BY <2>2, SubSeqProperties
  <2>4. Len(chain) = l
    BY <2>3
  <2>5. ASSUME NEW i \in 1..Len(chain) PROVE chain[i] = hash[i]
    <3>1. i \in 1..(l - 1 + 1) /\ 1 + i - 1 = i
      BY <2>4
    <3>. QED
      BY <2>3, <3>1
  <2>. QED
    BY <2>1, <2>4, <2>5
<1>5. ASSUME NEW k \in 1..Len(hash) PROVE Certified(ms, SubSeq(hash, 1, k))
  <2>1. CASE k = Len(hash)
    <3>1. SubSeq(hash, 1, k) = hash
      BY <1>2, <2>1 DEF Hash
    <3>. QED
      BY <1>3, <3>1
  <2>2. CASE k # Len(hash)
    <3>1. k \in 1..Len(chain)
      BY <1>2, <1>4, <2>2
    <3>2. SubSeq(hash, 1, k) = SubSeq(chain, 1, k)
      BY <1>2, <1>4, <3>1 DEF Hash
    <3>. QED
      BY <3>1, <3>2 DEF AllCertified
  <2>. QED
    BY <2>1, <2>2
<1>. QED
  BY <1>5 DEF AllCertified

\* A certified chain is certified up to every earlier block.
LEMMA CertifiedPrefix ==
    ASSUME NEW ms, NEW chain \in Hash, NEW h \in 0..Len(chain), AllCertified(ms, chain)
    PROVE  AllCertified(ms, SubSeq(chain, 1, h))
<1>1. Len(chain) \in Nat /\ \A i \in 1..Len(chain) : chain[i] \in SUBSET Tx
  BY LenProperties, ElementOfSeq DEF Hash
<1>2. Len(SubSeq(chain, 1, h)) = h /\ SubSeq(chain, 1, h) \in Hash
  BY <1>1, SubSeqProperties DEF Hash
<1>3. ASSUME NEW k \in 1..h PROVE SubSeq(SubSeq(chain, 1, h), 1, k) = SubSeq(chain, 1, k)
  BY <1>1, <1>2 DEF Hash
<1>4. \A k \in 1..h : Certified(ms, SubSeq(chain, 1, k))
  BY <1>1 DEF AllCertified
<1>. QED
  BY <1>2, <1>3, <1>4 DEF AllCertified

\* What a step leaves alone stays backed, since messages are only added.
LEMMA BackedKept ==
    ASSUME BackedInv, msgs \subseteq msgs'
    PROVE  /\ UNCHANGED chainVars => ChainsBacked'
           /\ UNCHANGED adding => WritesBacked'
           /\ UNCHANGED sync => QueuesBacked'
           /\ UNCHANGED factory => BlocksBacked'
           /\ \A n \in Node : VotesBacked(msgs', factory[n])
           /\ UNCHANGED msgs => ConfirmsBacked'
<1>1. /\ \A hash : Signers(msgs, hash) \subseteq Signers(msgs', hash)
      /\ \A chain : AllCertified(msgs, chain) => AllCertified(msgs', chain)
  BY CertifiedGrows
<1>2. \A n \in Node : VotesBacked(msgs', factory[n])
  BY <1>1 DEF BackedInv, BlocksBacked, VotesBacked
<1>3. UNCHANGED chainVars => ChainsBacked'
  BY <1>1 DEF BackedInv, ChainsBacked, Chains, chainVars
<1>. QED
  BY <1>1, <1>2, <1>3 DEF BackedInv, WritesBacked, QueuesBacked, BlocksBacked, ConfirmsBacked

\* A broadcast of anything but a confirmation keeps the confirmations backed;
\* that of a confirmation does so if its own votes are.
LEMMA ConfirmsKept ==
    ASSUME BackedInv, NEW m, Broadcast(m),
           m.type = "ConfirmBlock" => m.votes \subseteq Signers(msgs, m.hash)
    PROVE  msgs \subseteq msgs' /\ ConfirmsBacked'
<1>1. msgs' = msgs \cup {m}
  BY DEF Broadcast
<1>2. \A hash : Signers(msgs, hash) \subseteq Signers(msgs', hash)
  BY <1>1, CertifiedGrows
<1>3. \A k \in msgs' : k.type = "ConfirmBlock" => k.votes \subseteq Signers(msgs', k.hash)
  BY <1>1, <1>2 DEF BackedInv, ConfirmsBacked
<1>. QED
  BY <1>1, <1>3 DEF ConfirmsBacked

\* The blocks a peer answers to a sync request are backed: it holds them.
LEMMA AnswerBacked ==
    ASSUME BackedInv, NEW q \in Node, NEW h \in Nat \ {0}
    PROVE  \A i \in DOMAIN Answer(q, h) : AllCertified(msgs, Answer(q, h)[i])
<1>. SUFFICES ASSUME NEW i \in DOMAIN Answer(q, h) PROVE AllCertified(msgs, Answer(q, h)[i])
  OBVIOUS
<1>1. PICK k \in DOMAIN store[q] : Answer(q, h)[i] = store[q][k]
  BY AnswerType DEF BackedInv
<1>2. store[q][k] \in Chains(q)
  BY DEF Chains, Range
<1>. QED
  BY <1>1, <1>2 DEF BackedInv, ChainsBacked

\* The sync loop takes backed blocks to the pending writes.
LEMMA ResumeSyncBacked ==
    ASSUME BackedInv, NEW n \in Node, NEW queue \in Seq(Hash), NEW chain,
           NEW pending \in Seq(Write), ResumeSync(n, queue, chain, pending), UNCHANGED msgs,
           \A i \in DOMAIN queue : AllCertified(msgs, queue[i]),
           \A i \in DOMAIN pending : AllCertified(msgs, pending[i].hash)
    PROVE  WritesBacked' /\ QueuesBacked'
<1>. DEFINE I == {i \in DOMAIN queue : Addable(queue[i], chain)}
<1>0. adding \in [Node -> Seq(Write)] /\ sync \in [Node -> SyncState]
  BY DEF BackedInv, TypeOK
<1>1. CASE sync' = [sync EXCEPT ![n] = SyncIdle] /\ adding' = [adding EXCEPT ![n] = pending]
  <2>1. SyncIdle.queue = <<>>
    BY DEF SyncIdle
  <2>2. WritesBacked'
    BY <1>0, <1>1 DEF BackedInv, WritesBacked
  <2>3. QueuesBacked'
    BY <1>0, <1>1, <2>1 DEF BackedInv, QueuesBacked
  <2>. QED
    BY <2>2, <2>3
<1>2. ASSUME NEW i \in I,
             sync' = [sync EXCEPT ![n] = [phase |-> "apply", height |-> 0,
                                          queue |-> SubSeq(queue, i + 1, Len(queue))]],
             adding' = [adding EXCEPT ![n] = Append(pending, [hash |-> queue[i], sync |-> TRUE])]
      PROVE  WritesBacked' /\ QueuesBacked'
  <2>. DEFINE w == [hash |-> queue[i], sync |-> TRUE]
              rest == SubSeq(queue, i + 1, Len(queue))
  <2>1. i \in 1..Len(queue) /\ Len(queue) \in Nat /\ queue[i] \in Hash
        /\ DOMAIN queue = 1..Len(queue) /\ \A j \in (i + 1)..Len(queue) : queue[j] \in Hash
    BY LenProperties, ElementOfSeq
  <2>2. w \in Write /\ AllCertified(msgs, w.hash)
    BY <2>1 DEF Write
  <2>3. \A j \in DOMAIN Append(pending, w) : AllCertified(msgs, Append(pending, w)[j].hash)
    BY <2>2, AppendProperties
  <2>4. WritesBacked'
    BY <1>0, <1>2, <2>3 DEF BackedInv, WritesBacked
  <2>5. \A j \in DOMAIN rest : AllCertified(msgs, rest[j])
    <3>1. rest \in Seq(Hash) /\ DOMAIN rest = 1..Len(rest)
      BY <2>1, SubSeqProperties
    <3>2. ASSUME NEW j \in 1..Len(rest) PROVE rest[j] = queue[i + j] /\ i + j \in DOMAIN queue
      BY <2>1
    <3>. QED
      BY <3>1, <3>2
  <2>6. QueuesBacked'
    <3>. HIDE DEF rest
    <3>1. sync'[n].queue = rest
      BY <1>0, <1>2 DEF rest
    <3>2. ASSUME NEW p \in Node, p # n PROVE sync'[p] = sync[p]
      BY <1>0, <1>2, <3>2
    <3>. QED
      BY <2>5, <3>1, <3>2 DEF BackedInv, QueuesBacked
  <2>. QED
    BY <2>4, <2>6
<1>. QED
  BY <1>1, <1>2 DEF ResumeSync

\* doAddTx does not touch the held block, and all it broadcasts is an AddTx.
LEMMA DoAddTxBlock ==
    ASSUME TypeOK, NEW n \in Node, NEW f \in Factory, DoAddTx(n, f)
    PROVE  /\ \E g \in Factory : factory' = [factory EXCEPT ![n] = g] /\ g.block = f.block
           /\ Quiet \/ (\E m : Broadcast(m) /\ m.type = "AddTx")
<1>. DEFINE tx == [cmd |-> Head(f.stack), height |-> Height(latest[n]) + 1]
            g == [f EXCEPT !.stack = Tail(@), !.ownTx = tx]
            Goal == \E h \in Factory : factory' = [factory EXCEPT ![n] = h] /\ h.block = f.block
<1>1. ASSUME factory' = [factory EXCEPT ![n] = f] PROVE Goal
  BY <1>1
<1>2. ASSUME factory' = [factory EXCEPT ![n] = SetupRetry(g)] PROVE Goal
  <2>1. SetupRetry(g).block = f.block
    BY DEF SetupRetry, Arm, Factory
  <2>. QED
    BY <1>2, <2>1, DoAddTxType DEF TypeOK
<1>3. ASSUME factory' = [factory EXCEPT ![n] = SetupRetry(ProcessAddTx(g, tx, latest[n]))]
      PROVE  Goal
  <2>1. SetupRetry(ProcessAddTx(g, tx, latest[n])).block = f.block
    BY DEF SetupRetry, Arm, ProcessAddTx, Factory
  <2>. QED
    BY <1>3, <2>1, DoAddTxType DEF TypeOK
<1>4. \/ Quiet
      \/ \E m : Broadcast(m) /\ m.type = "AddTx"
  BY DEF DoAddTx
<1>5. Goal
  BY <1>1, <1>2, <1>3 DEF DoAddTx
<1>. QED
  BY <1>4, <1>5

\* doAddTx keeps the blocks and the confirmations backed.
LEMMA DoAddTxBacked ==
    ASSUME BackedInv, NEW n \in Node, NEW f \in Factory, VotesBacked(msgs, f), DoAddTx(n, f)
    PROVE  msgs \subseteq msgs' /\ BlocksBacked' /\ ConfirmsBacked'
<1>1. \/ Quiet
      \/ \E m : Broadcast(m) /\ m.type = "AddTx"
  BY DoAddTxBlock DEF BackedInv
<1>2. msgs \subseteq msgs' /\ ConfirmsBacked'
  BY <1>1, ConfirmsKept, BackedKept DEF Quiet
<1>3. PICK g \in Factory : factory' = [factory EXCEPT ![n] = g] /\ g.block = f.block
  BY DoAddTxBlock DEF BackedInv
<1>4. VotesBacked(msgs', g)
  BY <1>2, <1>3, CertifiedGrows DEF VotesBacked
<1>5. \A p \in Node : VotesBacked(msgs', factory'[p])
  BY <1>2, <1>3, <1>4, BackedKept DEF BackedInv, TypeOK
<1>. QED
  BY <1>2, <1>5 DEF BlocksBacked

\* A node that replaces the block it holds, or its votes.
LEMMA BlocksReplaced ==
    ASSUME BackedInv, msgs \subseteq msgs', NEW n \in Node, NEW g,
           factory' = [factory EXCEPT ![n] = g], VotesBacked(msgs', g)
    PROVE  BlocksBacked'
<1>1. \A p \in Node : VotesBacked(msgs', factory'[p])
  BY BackedKept DEF BackedInv, TypeOK
<1>. QED
  BY <1>1 DEF BlocksBacked

\* A write that add() starts on backed votes is backed.
LEMMA StartAddBacked ==
    ASSUME BackedInv, msgs \subseteq msgs', NEW n \in Node, NEW hash \in Hash, NEW votes,
           votes \subseteq Signers(msgs', hash), StartAdd(n, hash, votes)
    PROVE  WritesBacked'
<1>1. CASE UNCHANGED adding
  BY <1>1, BackedKept
<1>2. CASE /\ Addable(hash, latest[n]) /\ HasQuorumWeighted(votes)
           /\ adding' = [adding EXCEPT ![n] = Append(@, [hash |-> hash, sync |-> FALSE])]
  <2>. DEFINE w == [hash |-> hash, sync |-> FALSE]
  <2>1. latest[n] \in Hash /\ adding \in [Node -> Seq(Write)]
    BY DEF BackedInv, TypeOK
  <2>2. AllCertified(msgs', latest[n])
    BY CertifiedGrows DEF BackedInv, ChainsBacked, Chains
  <2>3. w \in Write /\ AllCertified(msgs', w.hash)
    BY <1>2, <2>1, <2>2, CertifiedExtends DEF Write
  <2>4. \A p \in Node : \A i \in DOMAIN adding[p] : AllCertified(msgs', adding[p][i].hash)
    <3>1. \A c : AllCertified(msgs, c) => AllCertified(msgs', c)
      BY CertifiedGrows
    <3>. QED
      BY <3>1 DEF BackedInv, WritesBacked
  <2>. HIDE DEF w
  <2>5. \A i \in DOMAIN Append(adding[n], w) : AllCertified(msgs', Append(adding[n], w)[i].hash)
    BY <2>1, <2>3, <2>4, AppendProperties
  <2>6. adding' = [adding EXCEPT ![n] = Append(adding[n], w)]
    BY <1>2 DEF w
  <2>7. \A p \in Node : \A i \in DOMAIN adding'[p] : AllCertified(msgs', adding'[p][i].hash)
    BY <2>1, <2>4, <2>5, <2>6
  <2>. QED
    BY <2>7 DEF WritesBacked
<1>. QED
  BY <1>1, <1>2 DEF StartAdd

\* Every callback keeps the blocks backed.
LEMMA BackedStep ==
    BackedInv /\ [Next]_vars => BackedInv'
<1>. SUFFICES ASSUME BackedInv, [Next]_vars PROVE BackedInv'
  OBVIOUS
<1>. USE DEF BackedInv
<1>t. TypeOK /\ TypeOK' /\ Fits /\ Fits'
  BY TypeStep, FitsStep
<1>f. \A n \in Node : factory[n] \in Factory /\ VotesBacked(msgs, factory[n])
  BY DEF BlocksBacked, TypeOK
<1>0. CASE UNCHANGED vars
  BY <1>0, <1>t, BackedKept DEF vars, chainVars
<1>1. ASSUME NEW c \in Cmd, Submit(c) PROVE BackedInv'
  <2>. DEFINE f == Push(factory[Home[c]], c)
  <2>1. Home[c] \in Node
    BY HomeAssumption
  <2>2. f \in Factory /\ f.block = factory[Home[c]].block
    BY <1>f, <2>1, FieldTypes DEF Push, Factory
  <2>3. VotesBacked(msgs, f) /\ DoAddTx(Home[c], f)
    BY <1>1, <1>f, <2>1, <2>2 DEF VotesBacked, Submit
  <2>. HIDE DEF f
  <2>. QED
    BY <1>1, <1>t, <2>1, <2>2, <2>3, DoAddTxBacked, BackedKept DEF Submit
<1>2. ASSUME NEW n \in Node, AddTxTimer(n) PROVE BackedInv'
  <2>. DEFINE f == Disarm(factory[n], "addTx")
  <2>1. f \in Factory /\ f.block = factory[n].block
    BY <1>f, FieldTypes DEF Disarm, Factory, Timer
  <2>2. VotesBacked(msgs, f) /\ DoAddTx(n, f)
    BY <1>2, <1>f, <2>1 DEF VotesBacked, AddTxTimer
  <2>. HIDE DEF f
  <2>. QED
    BY <1>2, <1>t, <2>1, <2>2, DoAddTxBacked, BackedKept DEF AddTxTimer
<1>3. ASSUME NEW n \in Node, ProposeTimer(n) PROVE BackedInv'
  <2>. DEFINE hash == Append(latest[n], factory[n].pool)
              m == [type |-> "ProposeBlock", origin |-> n,
                    seq |-> NextSeq(n, "ProposeBlock"), hash |-> hash]
              g == WithBlock(Disarm(factory[n], "propose"), hash, {n})
  <2>. HIDE DEF hash
  <2>1. Broadcast(m) /\ factory' = [factory EXCEPT ![n] = g]
    BY <1>3 DEF ProposeTimer, hash
  <2>2. msgs \subseteq msgs' /\ ConfirmsBacked' /\ m \in msgs'
    BY <2>1, ConfirmsKept DEF Broadcast
  <2>3. n \in Signers(msgs', hash)
    BY <2>2 DEF Signers
  <2>4. g.block = [hash |-> hash, votes |-> {n}]
    BY <1>f DEF WithBlock, Disarm, Factory
  <2>5. VotesBacked(msgs', g)
    BY <2>3, <2>4 DEF VotesBacked
  <2>. HIDE DEF g
  <2>6. BlocksBacked'
    BY <2>1, <2>2, <2>5, BlocksReplaced
  <2>. QED
    BY <1>3, <1>t, <2>2, <2>6, BackedKept DEF ProposeTimer
<1>4. ASSUME NEW n \in Node, RetryTimer(n) PROVE BackedInv'
  <2>. DEFINE f == Clear(factory[n], {})
  <2>1. f \in Factory /\ DoAddTx(n, f)
    BY <1>4, <1>f, ClearType DEF RetryTimer
  <2>2. VotesBacked(msgs, f)
    BY DEF VotesBacked, Clear, ClearedWith, NoBlock
  <2>. HIDE DEF f
  <2>. QED
    BY <1>4, <1>t, <2>1, <2>2, DoAddTxBacked, BackedKept DEF RetryTimer
<1>5. ASSUME NEW n \in Node, NEW m \in msgs, NEW view \in ViewsAfterReceipt(n),
             ReceiveAddTx(n, view, m)
      PROVE  BackedInv'
  <2>. DEFINE g == ProcessAddTx(factory[n], m.tx, latest[n])
  <2>1. factory' = [factory EXCEPT ![n] = g] /\ UNCHANGED <<adding, sync, msgs>> /\ UNCHANGED chainVars
    BY <1>5 DEF ReceiveAddTx, Receive, Quiet
  <2>2. g.block = factory[n].block
    BY <1>f DEF ProcessAddTx, Arm, Factory
  <2>3. VotesBacked(msgs', g)
    BY <1>f, <2>1, <2>2 DEF VotesBacked
  <2>. HIDE DEF g
  <2>. QED
    BY <1>t, <2>1, <2>3, BlocksReplaced, BackedKept
<1>6. ASSUME NEW n \in Node, NEW m \in msgs, NEW view \in ViewsAfterReceipt(n),
             ReceiveProposeBlock(n, view, m)
      PROVE  BackedInv'
  <2>. DEFINE k == [type |-> "SignBlock", origin |-> n,
                    seq |-> NextSeq(n, "SignBlock"), hash |-> m.hash]
              g == SetupRetry(WithBlock(factory[n], m.hash, {m.origin}))
  <2>1. /\ factory' = [factory EXCEPT ![n] = g] /\ Broadcast(k)
        /\ UNCHANGED <<adding, sync>> /\ UNCHANGED chainVars /\ m.type = "ProposeBlock"
    BY <1>6 DEF ReceiveProposeBlock, Receive
  <2>2. msgs \subseteq msgs' /\ ConfirmsBacked'
    BY <2>1, ConfirmsKept
  <2>3. m.origin \in Signers(msgs', m.hash)
    BY <2>1, <2>2 DEF Signers
  <2>4. g.block = [hash |-> m.hash, votes |-> {m.origin}]
    BY <1>f DEF SetupRetry, WithBlock, Arm, Factory
  <2>5. VotesBacked(msgs', g)
    BY <2>3, <2>4 DEF VotesBacked
  <2>. HIDE DEF g
  <2>. QED
    BY <1>t, <2>1, <2>2, <2>5, BlocksReplaced, BackedKept
<1>7. ASSUME NEW n \in Node, NEW m \in msgs, NEW view \in ViewsAfterReceipt(n),
             ReceiveSignBlock(n, view, m)
      PROVE  BackedInv'
  <2>. DEFINE hash == factory[n].block.hash
              votes == factory[n].block.votes \cup {m.origin}
              k == [type |-> "ConfirmBlock", origin |-> n,
                    seq |-> NextSeq(n, "ConfirmBlock"), hash |-> hash, votes |-> votes]
              g == WithBlock(factory[n], hash, votes)
  <2>1. m.type = "SignBlock" /\ m.hash = hash /\ hash \in Hash
    BY <1>7, <1>f DEF ReceiveSignBlock, AcceptsSignBlock, Factory, Block
  <2>2. votes \subseteq Signers(msgs, hash)
    <3>1. m.origin \in Signers(msgs, hash)
      BY <2>1 DEF Signers
    <3>. QED
      BY <1>f, <3>1 DEF VotesBacked
  <2>3. /\ factory' = [factory EXCEPT ![n] = g] /\ UNCHANGED sync /\ UNCHANGED chainVars
        /\ \/ StartAdd(n, hash, votes) /\ Broadcast(k)
           \/ UNCHANGED <<msgs, adding>>
    BY <1>7 DEF ReceiveSignBlock, Receive, Quiet
  <2>4. g.block = [hash |-> hash, votes |-> votes]
    BY <1>f DEF WithBlock, Factory
  <2>5. k.votes = votes /\ k.hash = hash
    OBVIOUS
  <2>. HIDE DEF hash, votes, k, g
  <2>6. msgs \subseteq msgs' /\ ConfirmsBacked'
    BY <2>2, <2>3, <2>5, ConfirmsKept, BackedKept
  <2>7. votes \subseteq Signers(msgs', hash)
    BY <2>2, <2>6, CertifiedGrows
  <2>8. WritesBacked'
    BY <2>1, <2>3, <2>6, <2>7, StartAddBacked, BackedKept
  <2>9. BlocksBacked'
    <3>1. VotesBacked(msgs', g)
      BY <2>4, <2>7 DEF VotesBacked
    <3>. QED
      BY <2>3, <2>6, <3>1, BlocksReplaced
  <2>. QED
    BY <1>t, <2>3, <2>6, <2>8, <2>9, BackedKept
<1>8. ASSUME NEW n \in Node, NEW m \in msgs, NEW view \in ViewsAfterReceipt(n),
             ReceiveConfirmBlock(n, view, m)
      PROVE  BackedInv'
  <2>. DEFINE g == WithBlock(factory[n], m.hash, m.votes)
  <2>1. /\ m.type = "ConfirmBlock" /\ factory' = [factory EXCEPT ![n] = g]
        /\ StartAdd(n, m.hash, m.votes) /\ UNCHANGED <<sync, msgs>> /\ UNCHANGED chainVars
    BY <1>8 DEF ReceiveConfirmBlock, Receive, Quiet
  <2>2. m.votes \subseteq Signers(msgs', m.hash)
    BY <2>1 DEF ConfirmsBacked
  <2>3. m.hash \in Hash
    BY <1>t, <2>1, MessageType DEF TypeOK
  <2>4. g.block = [hash |-> m.hash, votes |-> m.votes]
    BY <1>f DEF WithBlock, Factory
  <2>5. VotesBacked(msgs', g)
    BY <2>2, <2>4 DEF VotesBacked
  <2>. HIDE DEF g
  <2>6. WritesBacked'
    BY <2>1, <2>2, <2>3, StartAddBacked
  <2>. QED
    BY <1>t, <2>1, <2>5, <2>6, BlocksReplaced, BackedKept
<1>9. ASSUME NEW n \in Node, NEW m \in msgs, NEW view \in ViewsAfterReceipt(n),
             Ignore(n, view, m)
      PROVE  BackedInv'
  BY <1>9, <1>t, BackedKept DEF Ignore, Receive, Quiet
<1>10. ASSUME NEW n \in Node, NEW i \in DOMAIN adding[n], FinishAdd(n, i) PROVE BackedInv'
  <2>0. PICK hash : hash = adding[n][i].hash
    OBVIOUS
  <2>. DEFINE rest == RemoveAt(adding[n], i)
              st == Put(store[n], hash)
              g == Arm(Clear(factory[n], Last(hash)), "addTx")
  <2>1. /\ latest' = [latest EXCEPT ![n] = hash] /\ store' = [store EXCEPT ![n] = st]
        /\ factory' = [factory EXCEPT ![n] = g] /\ UNCHANGED msgs
        /\ \/ ResumeSync(n, sync[n].queue, hash, rest)
           \/ adding' = [adding EXCEPT ![n] = rest] /\ UNCHANGED sync
    BY <1>10, <2>0 DEF FinishAdd, Quiet
  <2>2. adding[n] \in Seq(Write) /\ sync[n].queue \in Seq(Hash)
    BY <1>t, SyncTypes DEF TypeOK
  <2>3. AllCertified(msgs, hash)
    BY <2>0 DEF WritesBacked
  <2>4. rest \in Seq(Write) /\ \A j \in DOMAIN rest : AllCertified(msgs, rest[j].hash)
    <3>1. rest \in Seq(Write) /\ \A j \in DOMAIN rest : \E k \in DOMAIN adding[n] : rest[j] = adding[n][k]
      BY <2>2, Removed
    <3>. QED
      BY <3>1 DEF WritesBacked
  <2>5. VotesBacked(msgs', g)
    BY DEF VotesBacked, Clear, ClearedWith, NoBlock, Arm
  <2>6. \A k \in DOMAIN st : AllCertified(msgs, st[k])
    <3>1. Fitting(store[n], latest[n], adding[n]) /\ store[n] \in Seq(Hash) /\ hash \in Hash
      BY <1>t, <2>0, <2>2, WriteTypes DEF Fits, TypeOK
    <3>2. \A k \in DOMAIN st : k = Len(hash) \/ (k \in DOMAIN store[n] /\ st[k] = store[n][k])
      BY <2>0, <3>1, PutParts DEF Fitting
    <3>3. st[Len(hash)] = hash
      BY <2>0, <3>1, PutParts DEF Fitting
    <3>4. \A k \in DOMAIN store[n] : AllCertified(msgs, store[n][k])
      BY DEF ChainsBacked, Chains, Range
    <3>. QED
      BY <2>3, <3>2, <3>3, <3>4
  <2>. HIDE DEF rest, g, st
  <2>7. BlocksBacked'
    BY <2>1, <2>5, BlocksReplaced
  <2>8. ChainsBacked'
    <3>1. \A p \in Node : p # n => Chains(p)' = Chains(p)
      BY <1>t, <2>1 DEF Chains, TypeOK
    <3>2. Chains(n)' = {hash} \cup Range(st)
      BY <1>t, <2>1 DEF Chains, TypeOK
    <3>3. \A c \in Chains(n)' : AllCertified(msgs, c)
      BY <2>3, <2>6, <3>2 DEF Range
    <3>4. ASSUME NEW p \in Node, NEW c \in Chains(p)' PROVE AllCertified(msgs', c)
      BY <2>1, <3>1, <3>3 DEF ChainsBacked
    <3>. QED
      BY <3>4 DEF ChainsBacked
  <2>9. WritesBacked' /\ QueuesBacked'
    <3>1. CASE ResumeSync(n, sync[n].queue, hash, rest)
      BY <2>1, <2>2, <2>4, <3>1, ResumeSyncBacked DEF QueuesBacked
    <3>2. CASE adding' = [adding EXCEPT ![n] = rest] /\ UNCHANGED sync
      <4>1. \A p \in Node : \A j \in DOMAIN adding'[p] : AllCertified(msgs', adding'[p][j].hash)
        BY <1>t, <2>1, <2>4, <3>2 DEF WritesBacked, TypeOK
      <4>. QED
        BY <2>1, <3>2, <4>1, BackedKept DEF WritesBacked
    <3>. QED
      BY <2>1, <3>1, <3>2
  <2>. QED
    BY <1>t, <2>1, <2>7, <2>8, <2>9, BackedKept
<1>11. ASSUME NEW n \in Node, NEW q \in Node, ReceiveStatus(n, q) PROVE BackedInv'
  <2>1. UNCHANGED <<adding, factory, msgs>> /\ UNCHANGED chainVars
    BY <1>11 DEF ReceiveStatus, netVars
  <2>2. \A p \in Node : sync'[p].queue = sync[p].queue \/ sync'[p].queue = <<>>
    <3>1. sync \in [Node -> SyncState]
      BY <1>t DEF TypeOK
    <3>2. \/ UNCHANGED sync
          \/ sync' = [sync EXCEPT ![n] = [phase |-> "fetch", height |-> Height(latest[n]),
                                         queue |-> <<>>]]
      BY <1>11 DEF ReceiveStatus
    <3>. QED
      BY <3>1, <3>2
  <2>3. \A p \in Node : \A i \in DOMAIN sync'[p].queue : AllCertified(msgs', sync'[p].queue[i])
    BY <2>1, <2>2 DEF QueuesBacked
  <2>. QED
    BY <1>t, <2>1, <2>3, BackedKept DEF QueuesBacked
<1>12. ASSUME NEW n \in Node, NEW q \in Node, FetchSync(n, q) PROVE BackedInv'
  <2>1. /\ ResumeSync(n, Answer(q, sync[n].height), latest[n], adding[n])
        /\ UNCHANGED <<factory, msgs>> /\ UNCHANGED chainVars
    BY <1>12 DEF FetchSync, netVars
  <2>2. sync[n].height \in Nat \ {0} /\ adding[n] \in Seq(Write)
    BY <1>12, <1>t, SyncTypes DEF FetchSync, TypeOK
  <2>3. Answer(q, sync[n].height) \in Seq(Hash)
    BY <1>t, <2>2, AnswerType
  <2>4. WritesBacked' /\ QueuesBacked'
    BY <2>1, <2>2, <2>3, AnswerBacked, ResumeSyncBacked DEF WritesBacked
  <2>. QED
    BY <1>t, <2>1, <2>4, BackedKept
<1>13. ASSUME NEW n \in Node, FetchFails(n) PROVE BackedInv'
  <2>1. UNCHANGED <<adding, factory, msgs>> /\ UNCHANGED chainVars
    BY <1>13 DEF FetchFails, netVars
  <2>2. \A p \in Node : sync'[p].queue = sync[p].queue \/ sync'[p].queue = <<>>
    BY <1>13, <1>t DEF FetchFails, TypeOK, SyncIdle
  <2>3. \A p \in Node : \A i \in DOMAIN sync'[p].queue : AllCertified(msgs', sync'[p].queue[i])
    BY <2>1, <2>2 DEF QueuesBacked
  <2>. QED
    BY <1>t, <2>1, <2>3, BackedKept DEF QueuesBacked
<1>14. ASSUME NEW n \in Node, NEW p \in Node, GoOffline(n, p) PROVE BackedInv'
  BY <1>14, <1>t, BackedKept DEF GoOffline, netVars
<1>15. ASSUME NEW n \in Node, Crash(n) PROVE BackedInv'
  <2>1. PICK st \in {FoundAfterCrash(n, w) : w \in SUBSET DOMAIN adding[n]} \cup {<<>>} :
             /\ store' = [store EXCEPT ![n] = st]
             /\ latest' = [latest EXCEPT ![n] = IF st = <<>> THEN <<>> ELSE Last(st)]
    BY <1>15 DEF Crash
  <2>2. UNCHANGED msgs /\ factory' = [factory EXCEPT ![n] = EmptyFactory]
    BY <1>15 DEF Crash, Quiet
  <2>3. \A c \in Chains(n)' : AllCertified(msgs, c)
    <3>1. \A k \in DOMAIN st : AllCertified(msgs, st[k])
      <4>1. \A k \in DOMAIN store[n] : AllCertified(msgs, store[n][k])
        BY DEF ChainsBacked, Chains, Range
      <4>2. \A i \in DOMAIN adding[n] : AllCertified(msgs, adding[n][i].hash)
        BY DEF WritesBacked
      <4>3. ASSUME NEW w \in SUBSET DOMAIN adding[n], st = FoundAfterCrash(n, w)
            PROVE  \A k \in DOMAIN st : AllCertified(msgs, st[k])
        <5>1. \A k \in DOMAIN st : \/ k \in DOMAIN store[n] /\ st[k] = store[n][k]
                                   \/ \E i \in DOMAIN adding[n] : st[k] = adding[n][i].hash
          BY <1>t, <4>3, CrashStore
        <5>. QED
          BY <4>1, <4>2, <5>1
      <4>4. CASE st = <<>>
        BY <4>4
      <4>. QED
        BY <4>3, <4>4
    <3>2. latest'[n] = <<>> \/ latest'[n] \in Range(st)
      <4>1. CASE st = <<>>
        BY <1>t, <2>1, <4>1 DEF TypeOK
      <4>2. CASE st # <<>>
        <5>1. st \in Seq(Hash)
          BY <1>t, CrashFits
        <5>2. Len(st) \in DOMAIN st /\ Last(st) = st[Len(st)]
          BY <4>2, <5>1, LenProperties, EmptySeq DEF Last
        <5>. QED
          BY <1>t, <2>1, <4>2, <5>2 DEF TypeOK, Range
      <4>. QED
        BY <4>1, <4>2
    <3>3. AllCertified(msgs, <<>>)
      BY DEF AllCertified
    <3>4. store'[n] = st
      BY <1>t, <2>1 DEF TypeOK
    <3>. QED
      BY <3>1, <3>2, <3>3, <3>4 DEF Chains, Range
  <2>4. ChainsBacked'
    <3>1. \A p \in Node : p # n => Chains(p)' = Chains(p)
      BY <1>t, <2>1 DEF Chains, TypeOK
    <3>2. ASSUME NEW p \in Node, NEW c \in Chains(p)' PROVE AllCertified(msgs', c)
      BY <2>2, <2>3, <3>1 DEF ChainsBacked
    <3>. QED
      BY <3>2 DEF ChainsBacked
  <2>5. \A p \in Node : \A i \in DOMAIN adding'[p] : AllCertified(msgs', adding'[p][i].hash)
    BY <1>15, <1>t, <2>2 DEF Crash, WritesBacked, TypeOK
  <2>6. \A p \in Node : \A i \in DOMAIN sync'[p].queue : AllCertified(msgs', sync'[p].queue[i])
    BY <1>15, <1>t, <2>2 DEF Crash, QueuesBacked, TypeOK, SyncIdle
  <2>7. VotesBacked(msgs', EmptyFactory)
    BY DEF VotesBacked, EmptyFactory, NoBlock
  <2>8. BlocksBacked'
    BY <2>2, <2>7, BlocksReplaced
  <2>. QED
    BY <1>t, <2>2, <2>4, <2>5, <2>6, <2>8, BackedKept DEF WritesBacked, QueuesBacked
<1>. QED
  BY <1>0, <1>1, <1>2, <1>3, <1>4, <1>5, <1>6, <1>7, <1>8, <1>9, <1>10, <1>11, <1>12,
     <1>13, <1>14, <1>15 DEF Next

\* Whatever gets lost, late or repeated, whoever crashes, whoever looks
\* offline, and however slow the stores are: every block of every chain is a
\* valid candidate that peers with more than half of the stake have signed.
THEOREM BlocksAreQuorumBacked == Spec => []QuorumBacked
<1>1. Init => BackedInv
  <2>. SUFFICES ASSUME Init PROVE BackedInv
    OBVIOUS
  <2>1. TypeOK /\ Fits
    BY InitFits
  <2>2. \A n \in Node : \A chain \in Chains(n) : AllCertified(msgs, chain)
    BY DEF Init, Chains, Range, AllCertified
  <2>. QED
    BY <2>1, <2>2 DEF Init, BackedInv, ChainsBacked, WritesBacked, QueuesBacked, BlocksBacked,
       VotesBacked, ConfirmsBacked, EmptyFactory, NoBlock, SyncIdle
<1>2. BackedInv /\ [Next]_vars => BackedInv'
  BY BackedStep
<1>3. BackedInv => QuorumBacked
  BY DEF BackedInv, ChainsBacked, QuorumBacked
<1>. QED
  BY <1>1, <1>2, <1>3, PTL DEF Spec

=============================================================================
