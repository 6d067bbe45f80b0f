----------------------- MODULE BlockFactoryAgreement -----------------------
(***************************************************************************)
(* Theorems about a steady network: every node sees every other one, no    *)
(* node crashes, and what a node was adding when it proposed a block is in *)
(* its store by the time the votes of a quorum are back.  Datagrams may    *)
(* get lost, late or repeated, stakes are any, retry timers go off as often *)
(* as they like, the calls of add() overlap and end in any order.  There    *)
(* all blockchains are equal as far as they go, although a node votes for  *)
(* every valid candidate that the validator of the round proposes.         *)
(***************************************************************************)
EXTENDS BlockFactoryProofs, FiniteSetTheorems

Steady == Unsteady = {} /\ MayCrash = {} /\ ~SlowStore

-----------------------------------------------------------------------------
(* Prefixes of chains.                                                      *)

\* What a chain that extends another one by a block is made of.
LEMMA ExtensionParts ==
    ASSUME NEW hash \in Hash, NEW chain \in Hash, Extends(hash, chain)
    PROVE  /\ Len(chain) \in Nat /\ Len(hash) = Len(chain) + 1
           /\ \A k \in 1..Len(chain) : SubSeq(hash, 1, k) = SubSeq(chain, 1, k)
           /\ SubSeq(hash, 1, Len(hash)) = hash
<1>1. /\ Len(chain) \in Nat /\ Len(hash) = Len(chain) + 1
      /\ chain = SubSeq(hash, 1, Len(chain))
  BY ExtendsParts
<1>2. hash \in Seq(SUBSET Tx) /\ chain \in Seq(SUBSET Tx) /\ Len(hash) \in Nat
  BY LenProperties DEF Hash
<1>3. \A i \in 1..Len(chain) : chain[i] = hash[i]
  BY <1>1, <1>2
<1>4. ASSUME NEW k \in 1..Len(chain) PROVE SubSeq(hash, 1, k) = SubSeq(chain, 1, k)
  BY <1>1, <1>2, <1>3
<1>. QED
  BY <1>1, <1>2, <1>4, SubSeqFull

\* The beginnings of a chain are chains.
LEMMA Beginnings ==
    ASSUME NEW c \in Hash, NEW k \in 1..Len(c)
    PROVE  SubSeq(c, 1, k) \in Hash /\ Len(SubSeq(c, 1, k)) = k
<1>1. Len(c) \in Nat /\ \A i \in 1..Len(c) : c[i] \in SUBSET Tx
  BY LenProperties, ElementOfSeq DEF Hash
<1>. QED
  BY <1>1, SubSeqProperties DEF Hash

-----------------------------------------------------------------------------
(* The validator of a round.                                                *)

SeesAll == \A n \in Node : online[n] = Node

\* The validator of the round that hash decides, where nobody is offline.
Leader(hash) == ArrayNetwork[Len(hash) % N]

\* Round-robin: every node takes the same peer for the validator.
LEMMA OneValidator ==
    ASSUME NEW chain \in Hash, NEW hash \in Hash, Len(hash) = Len(chain) + 1
    PROVE  Leader(hash) \in Node /\ CalcValidator(chain, Node) = Leader(hash)
<1>1. Len(hash) \in Nat /\ N \in Nat \ {0}
  <2>1. N \in Nat /\ N # 0
    BY NodeAssumption, FS_CardinalityType, FS_EmptySet DEF N
  <2>. QED
    BY <2>1, LenProperties DEF Hash
<1>2. Len(hash) % N \in 0..(N - 1)
  BY <1>1
<1>3. ArrayNetwork[Len(hash) % N] \in Node
  BY <1>2, ArrayNetworkAssumption
<1>. QED
  BY <1>3 DEF Leader, CalcValidator, Height

\* Nobody loses sight of anybody.
LEMMA SeesAllStep ==
    ASSUME Steady, TypeOK, SeesAll, [Next]_vars
    PROVE  SeesAll'
<1>0. CASE UNCHANGED online
  BY <1>0 DEF SeesAll
<1>1. ASSUME NEW n \in Node, NEW view \in ViewsAfterReceipt(n),
             online' = [online EXCEPT ![n] = view]
      PROVE  SeesAll'
  <2>1. online \in [Node -> SUBSET Node]
    BY DEF TypeOK
  <2>2. view = Node
    BY DEF SeesAll, ViewsAfterReceipt
  <2>. QED
    BY <1>1, <2>1, <2>2 DEF SeesAll
<1>2. ASSUME NEW n \in Node, NEW q \in Node, ReceiveStatus(n, q) PROVE SeesAll'
  BY <1>2 DEF SeesAll, TypeOK, ReceiveStatus
<1>3. ASSUME NEW n \in Node, NEW m \in msgs, NEW view \in ViewsAfterReceipt(n),
             \/ ReceiveAddTx(n, view, m) \/ ReceiveProposeBlock(n, view, m)
             \/ ReceiveSignBlock(n, view, m) \/ ReceiveConfirmBlock(n, view, m)
             \/ Ignore(n, view, m)
      PROVE  SeesAll'
  <2>1. online' = [online EXCEPT ![n] = view]
    BY <1>3 DEF ReceiveAddTx, ReceiveProposeBlock, ReceiveSignBlock, ReceiveConfirmBlock,
       Ignore, Receive
  <2>. QED
    BY <1>1, <2>1
<1>4. ASSUME NEW c \in Cmd, Submit(c) PROVE SeesAll'
  BY <1>0, <1>4 DEF Submit
<1>5. ASSUME NEW n \in Node,
             \/ AddTxTimer(n) \/ ProposeTimer(n) \/ RetryTimer(n)
             \/ (\E i \in DOMAIN adding[n] : FinishAdd(n, i))
             \/ FetchFails(n) \/ (\E q \in Node : FetchSync(n, q))
      PROVE  SeesAll'
  BY <1>0, <1>5 DEF AddTxTimer, ProposeTimer, RetryTimer, FinishAdd, FetchFails, FetchSync
<1>6. \A n, p \in Node : ~GoOffline(n, p) /\ ~Crash(n)
  BY DEF Steady, GoOffline, Crash
<1>. QED
  BY <1>0, <1>2, <1>3, <1>4, <1>5, <1>6 DEF Next, vars

-----------------------------------------------------------------------------
(* What is in force.  A block is in force at a node if it is in its store   *)
(* or on its way there; it is settled if the validator of its round has it  *)
(* in force.  Since the validator adds before it confirms, nobody adds a    *)
(* block that is not settled, and for one height only one block is.         *)

\* The blocks of the store st and of the calls ws.
InForceOf(st, ws) == Range(st) \cup {ws[i].hash : i \in DOMAIN ws}
InForce(n) == InForceOf(store[n], adding[n])

Settled(hash) == hash \in InForce(Leader(hash))
AllSettled(chain) == \A k \in 1..Len(chain) : Settled(SubSeq(chain, 1, k))

\* Node n with the blocks st, the latest one chain and the calls ws has decided
\* for each round it leads: there is no other block of that height, no call for
\* an earlier one that could take n back behind it, and n is not behind it.
Decided(n, st, chain, ws, c) ==
    /\ \A d \in InForceOf(st, ws) : Len(d) = Len(c) => d = c
    /\ \A i \in DOMAIN ws : Len(c) <= Len(ws[i].hash)
    /\ Len(c) <= Len(chain) + 1
    /\ c \in Range(st) => Len(c) <= Len(chain)

Firm(n, st, chain, ws) ==
    \A c \in InForceOf(st, ws) : Leader(c) = n => Decided(n, st, chain, ws, c)

NodesFirm == \A n \in Node : Firm(n, store[n], latest[n], adding[n])

\* The block that a node holds is for the next height on its latest block.
HeldFollows(f, chain) == HasBlock(f) => Extends(f.block.hash, chain)
BlocksFollow == \A n \in Node : HeldFollows(factory[n], latest[n])

ForceSettled == \A n \in Node : \A c \in InForce(n) : AllSettled(c)
QueuesSettled == \A n \in Node : \A i \in DOMAIN sync[n].queue : AllSettled(sync[n].queue[i])
ConfirmsSettled ==
    \A m \in msgs : m.type = "ConfirmBlock" /\ ValidCandidate(m.hash) => Settled(m.hash)

SteadyInv ==
    /\ TypeOK
    /\ Fits
    /\ SeesAll
    /\ NodesFirm
    /\ BlocksFollow
    /\ ForceSettled
    /\ QueuesSettled
    /\ ConfirmsSettled

\* The types of what is in force and of the latest block.
LEMMA ForceTypes ==
    ASSUME TypeOK, NEW n \in Node
    PROVE  /\ store[n] \in Seq(Hash) /\ adding[n] \in Seq(Write) /\ latest[n] \in Hash
           /\ InForce(n) \subseteq Hash
<1>1. store[n] \in Seq(Hash) /\ adding[n] \in Seq(Write) /\ latest[n] \in Hash
  BY DEF TypeOK
<1>2. \A k \in DOMAIN store[n] : store[n][k] \in Hash
  BY <1>1, LenProperties, ElementOfSeq
<1>3. \A i \in DOMAIN adding[n] : adding[n][i].hash \in Hash
  BY <1>1, WriteTypes
<1>. QED
  BY <1>1, <1>2, <1>3 DEF InForce, InForceOf, Range

\* The latest block of a node is genesis or in force, so it is settled.
LEMMA LatestSettled ==
    ASSUME SteadyInv, NEW n \in Node
    PROVE  AllSettled(latest[n]) /\ (latest[n] = <<>> \/ latest[n] \in InForce(n))
<1>1. latest[n] = <<>> \/ latest[n] \in Range(store[n])
  BY DEF SteadyInv, Fits, Fitting, Range
<1>2. latest[n] = <<>> => AllSettled(latest[n])
  BY DEF AllSettled
<1>. QED
  BY <1>1, <1>2 DEF SteadyInv, ForceSettled, InForce, InForceOf

\* A chain is settled as a whole if it is settled and so is what it extends.
LEMMA SettledExtends ==
    ASSUME NEW hash \in Hash, NEW chain \in Hash, Extends(hash, chain)
    PROVE  AllSettled(chain) /\ Settled(hash) => AllSettled(hash)
<1>1. /\ Len(chain) \in Nat /\ Len(hash) = Len(chain) + 1
      /\ \A k \in 1..Len(chain) : SubSeq(hash, 1, k) = SubSeq(chain, 1, k)
      /\ SubSeq(hash, 1, Len(hash)) = hash
  BY ExtensionParts
<1>2. ASSUME AllSettled(chain), Settled(hash), NEW k \in 1..Len(hash)
      PROVE  Settled(SubSeq(hash, 1, k))
  <2>1. CASE k = Len(hash)
    BY <1>1, <1>2, <2>1
  <2>2. CASE k # Len(hash)
    <3>1. k \in 1..Len(chain)
      BY <1>1, <2>2
    <3>. QED
      BY <1>1, <1>2, <3>1 DEF AllSettled
  <2>. QED
    BY <2>1, <2>2
<1>. QED
  BY <1>2 DEF AllSettled

\* A chain of which all is settled is settled itself, unless it is genesis.
LEMMA SettledWhole ==
    ASSUME NEW c \in Hash, c # <<>>, AllSettled(c)
    PROVE  Settled(c)
<1>1. Len(c) \in Nat /\ Len(c) # 0 /\ SubSeq(c, 1, Len(c)) = c
  BY LenProperties, EmptySeq, SubSeqFull DEF Hash
<1>2. Len(c) \in 1..Len(c)
  BY <1>1
<1>. QED
  BY <1>1, <1>2 DEF AllSettled

\* The validator of a round is a node.
LEMMA LeaderIsNode ==
    ASSUME NEW c \in Hash
    PROVE  Leader(c) \in Node
<1>1. N \in Nat \ {0} /\ Len(c) \in Nat
  <2>1. N \in Nat /\ N # 0
    BY NodeAssumption, FS_CardinalityType, FS_EmptySet DEF N
  <2>. QED
    BY <2>1, LenProperties DEF Hash
<1>2. Len(c) % N \in 0..(N - 1)
  BY <1>1
<1>. QED
  BY <1>2, ArrayNetworkAssumption DEF Leader

\* For one height one block is settled: the validator of the round has decided
\* once, although it may have proposed several blocks.
LEMMA SettledOnce ==
    ASSUME SteadyInv, NEW c \in Hash, NEW d \in Hash,
           Settled(c), Settled(d), Len(c) = Len(d)
    PROVE  c = d
<1>1. Leader(c) \in Node /\ Leader(d) = Leader(c)
  BY LeaderIsNode DEF Leader
<1>2. c \in InForce(Leader(c)) /\ d \in InForce(Leader(c))
  BY <1>1 DEF Settled
<1>. QED
  BY <1>1, <1>2 DEF SteadyInv, NodesFirm, Firm, Decided, InForce

\* So what a node has in force is one block for each height.
LEMMA InForceOnce ==
    ASSUME SteadyInv, NEW n \in Node, NEW c \in InForce(n), NEW d \in InForce(n), Len(c) = Len(d)
    PROVE  c = d
<1>1. c \in Hash /\ d \in Hash /\ AllSettled(c) /\ AllSettled(d)
  BY ForceTypes DEF SteadyInv, ForceSettled
<1>2. CASE c = <<>> \/ d = <<>>
  BY <1>1, <1>2, EmptySeq DEF Hash
<1>3. CASE c # <<>> /\ d # <<>>
  BY <1>1, <1>3, SettledWhole, SettledOnce
<1>. QED
  BY <1>2, <1>3

-----------------------------------------------------------------------------
(* One node.                                                                *)

\* A call that may come on top of the latest block: of a block that another node
\* leads, of one that is in force already, or - the votes are counted - of the
\* only one that is being added.
MayAdd(n, st, ws, hash) ==
    \/ Leader(hash) # n
    \/ hash \in InForceOf(st, ws)
    \/ \A i \in DOMAIN ws : ws[i].hash = hash

\* One more call of that kind.
LEMMA FirmAppend ==
    ASSUME NEW n \in Node, NEW st \in Seq(Hash), NEW chain \in Hash, NEW ws \in Seq(Write),
           NEW w \in Write,
           Firm(n, st, chain, ws), Extends(w.hash, chain), MayAdd(n, st, ws, w.hash)
    PROVE  /\ Append(ws, w) \in Seq(Write)
           /\ Firm(n, st, chain, Append(ws, w))
           /\ InForceOf(st, Append(ws, w)) = InForceOf(st, ws) \cup {w.hash}
<1>h. PICK hash \in Hash : hash = w.hash
  BY DEF Write
<1>v. PICK vs : vs = Append(ws, w)
  OBVIOUS
<1>x. Extends(hash, chain)
  BY <1>h
<1>d. \/ Leader(hash) # n
      \/ hash \in InForceOf(st, ws)
      \/ \A i \in DOMAIN ws : ws[i].hash = hash
  BY <1>h DEF MayAdd
<1>. DEFINE F == InForceOf(st, ws)
            G == InForceOf(st, vs)
<1>1. Len(chain) \in Nat /\ Len(hash) = Len(chain) + 1
  BY <1>x, ExtendsParts
<1>2. w \in Write /\ w.hash = hash
  BY <1>h
<1>3. /\ Len(ws) \in Nat /\ DOMAIN ws = 1..Len(ws)
      /\ \A i \in DOMAIN ws : ws[i].hash \in Hash /\ Len(ws[i].hash) \in Nat
  BY WriteTypes, LenProperties DEF Hash
<1>4. /\ vs \in Seq(Write) /\ DOMAIN vs = 1..(Len(ws) + 1) /\ vs[Len(ws) + 1] = w
      /\ \A i \in 1..Len(ws) : vs[i] = ws[i]
  BY <1>v, <1>2, <1>3, AppendProperties
<1>5. \A i \in DOMAIN vs : vs[i] = w \/ (i \in DOMAIN ws /\ vs[i] = ws[i])
  BY <1>3, <1>4
<1>6. \A i \in DOMAIN ws : i \in DOMAIN vs /\ vs[i] = ws[i]
  BY <1>3, <1>4
<1>7. Len(ws) + 1 \in DOMAIN vs /\ vs[Len(ws) + 1] = w
  BY <1>3, <1>4
<1>8. G = F \cup {hash}
  BY <1>2, <1>5, <1>6, <1>7 DEF InForceOf
<1>9. F \subseteq Hash /\ \A c \in F \cup {hash} : Len(c) \in Nat
  <2>1. \A k \in DOMAIN st : st[k] \in Hash
    BY LenProperties, ElementOfSeq
  <2>2. F \subseteq Hash
    BY <1>3, <2>1 DEF InForceOf, Range
  <2>. QED
    BY <2>2, LenProperties DEF Hash
<1>10. ASSUME NEW c \in F, Leader(c) = n PROVE Decided(n, st, chain, ws, c)
  BY <1>10 DEF Firm
<1>11. ASSUME NEW c \in F, Len(c) = Len(hash), Leader(hash) = n PROVE c = hash
  <2>1. Leader(c) = n
    BY <1>11 DEF Leader
  <2>2. CASE hash \in F
    BY <1>10, <1>11, <2>1, <2>2 DEF Decided
  <2>3. CASE \A i \in DOMAIN ws : ws[i].hash = hash
    <3>1. c \notin Range(st)
      BY <1>1, <1>10, <1>11, <2>1 DEF Decided
    <3>. QED
      BY <2>3, <3>1 DEF InForceOf
  <2>. QED
    BY <1>d, <1>11, <2>2, <2>3
<1>12. ASSUME NEW c \in G, Leader(c) = n PROVE Decided(n, st, chain, vs, c)
  <2>1. \A d \in G : Len(d) = Len(c) => d = c
    <3>1. CASE c \in F
      <4>1. ASSUME Len(hash) = Len(c) PROVE hash = c
        <5>1. Leader(hash) = n
          BY <1>12, <4>1 DEF Leader
        <5>. QED
          BY <1>11, <3>1, <4>1, <5>1
      <4>. QED
        BY <1>8, <1>10, <1>12, <3>1, <4>1 DEF Decided
    <3>2. CASE c = hash
      BY <1>8, <1>11, <1>12, <3>2
    <3>. QED
      BY <1>8, <3>1, <3>2
  <2>2. Len(c) <= Len(chain) + 1
    BY <1>1, <1>8, <1>9, <1>10, <1>12 DEF Decided
  <2>3. ASSUME NEW i \in DOMAIN vs PROVE Len(c) <= Len(vs[i].hash)
    <3>1. CASE vs[i] = w
      BY <1>1, <1>2, <2>2, <3>1
    <3>2. CASE i \in DOMAIN ws /\ vs[i] = ws[i] /\ c \in F
      BY <1>10, <1>12, <3>2 DEF Decided
    <3>3. CASE i \in DOMAIN ws /\ vs[i] = ws[i] /\ c \notin F
      <4>1. c = hash /\ Leader(hash) = n /\ hash \notin F
        BY <1>8, <1>12, <3>3
      <4>2. vs[i].hash = c
        BY <1>d, <3>3, <4>1
      <4>. QED
        BY <1>9, <1>8, <1>12, <4>2
    <3>. QED
      BY <1>5, <3>1, <3>2, <3>3
  <2>4. c \in Range(st) => Len(c) <= Len(chain)
    <3>1. c \in Range(st) => c \in F
      BY DEF InForceOf
    <3>. QED
      BY <1>10, <1>12, <3>1 DEF Decided
  <2>. QED
    BY <2>1, <2>2, <2>3, <2>4 DEF Decided
<1>13. Firm(n, st, chain, vs)
  BY <1>12 DEF Firm
<1>14. /\ vs \in Seq(Write)
       /\ InForceOf(st, vs) = InForceOf(st, ws) \cup {hash}
  BY <1>4, <1>8
<1>. HIDE DEF F, G
<1>. QED
  BY <1>h, <1>v, <1>13, <1>14

\* A call gets to its end: what is in force stays the same, whichever call it
\* is and whatever height the node is at then.
LEMMA FirmFinish ==
    ASSUME NEW n \in Node, NEW st \in Seq(Hash), NEW chain \in Hash, NEW ws \in Seq(Write),
           Firm(n, st, chain, ws), Fitting(st, chain, ws),
           NEW i \in DOMAIN ws, NEW hash, hash = ws[i].hash,
           Len(hash) \in DOMAIN st => st[Len(hash)] = hash
    PROVE  /\ InForceOf(Put(st, hash), RemoveAt(ws, i)) = InForceOf(st, ws)
           /\ Firm(n, Put(st, hash), hash, RemoveAt(ws, i))
           /\ IsPrefix(st, Put(st, hash))
<1>1. hash \in Hash /\ Len(hash) \in Nat /\ Len(hash) \in 1..(Len(st) + 1)
      /\ \A k \in DOMAIN st : Len(st[k]) = k
  BY WriteTypes, LenProperties DEF Fitting, Hash
<1>2. PICK pt : pt = Put(st, hash)
  OBVIOUS
<1>3. PICK vs : vs = RemoveAt(ws, i)
  OBVIOUS
<1>4. /\ pt \in Seq(Hash) /\ Len(hash) \in DOMAIN pt /\ pt[Len(hash)] = hash
      /\ \A k \in DOMAIN pt : k = Len(hash) \/ (k \in DOMAIN st /\ pt[k] = st[k])
  BY <1>1, <1>2, PutParts
<1>5. IsPrefix(st, pt)
  <2>1. CASE Len(hash) \in DOMAIN st
    <3>1. pt = st
      BY <1>2, <2>1, LenProperties DEF Put
    <3>. QED
      BY <3>1, LenProperties DEF IsPrefix
  <2>2. CASE Len(hash) \notin DOMAIN st
    <3>1. pt = Append(st, hash)
      BY <1>2, <2>2 DEF Put
    <3>2. Len(st) \in Nat /\ Len(pt) = Len(st) + 1 /\ \A k \in 1..Len(st) : pt[k] = st[k]
      BY <1>1, <3>1, AppendProperties, LenProperties
    <3>3. SubSeq(pt, 1, Len(st)) = SubSeq(st, 1, Len(st))
      BY <1>4, <3>2
    <3>. QED
      BY <3>2, <3>3 DEF IsPrefix
  <2>. QED
    BY <2>1, <2>2
<1>6. Range(pt) = Range(st) \cup {hash}
  <2>1. \A k \in DOMAIN st : k \in DOMAIN pt /\ pt[k] = st[k]
    <3>1. CASE Len(hash) \in DOMAIN st
      <4>1. pt = st
        BY <1>2, <3>1, LenProperties DEF Put
      <4>. QED
        BY <4>1
    <3>2. CASE Len(hash) \notin DOMAIN st
      <4>1. pt = Append(st, hash)
        BY <1>2, <3>2 DEF Put
      <4>2. Len(st) \in Nat /\ DOMAIN st = 1..Len(st)
        BY LenProperties
      <4>. QED
        BY <1>1, <4>1, <4>2, AppendProperties
    <3>. QED
      BY <3>1, <3>2
  <2>. QED
    BY <1>4, <2>1 DEF Range
<1>7. /\ \A j \in DOMAIN vs : \E k \in DOMAIN ws : vs[j] = ws[k]
      /\ \A k \in DOMAIN ws : k = i \/ (\E j \in DOMAIN vs : vs[j] = ws[k])
  BY <1>3, Removed
<1>8. InForceOf(pt, vs) = InForceOf(st, ws)
  BY <1>6, <1>7 DEF InForceOf
<1>9. ASSUME NEW c \in InForceOf(pt, vs), Leader(c) = n PROVE Decided(n, pt, hash, vs, c)
  <2>1. Decided(n, st, chain, ws, c)
    BY <1>8, <1>9 DEF Firm
  <2>2. Len(c) <= Len(hash) /\ \A j \in DOMAIN vs : Len(c) <= Len(vs[j].hash)
    BY <1>7, <2>1 DEF Decided
  <2>3. Len(c) \in Nat
    <3>1. \A k \in DOMAIN st : st[k] \in Hash
      BY LenProperties, ElementOfSeq
    <3>2. \A k \in DOMAIN ws : ws[k].hash \in Hash
      BY WriteTypes
    <3>3. c \in Hash
      BY <1>8, <1>9, <3>1, <3>2 DEF InForceOf, Range
    <3>. QED
      BY <3>3, LenProperties DEF Hash
  <2>4. Len(c) <= Len(hash) + 1
    BY <1>1, <2>2, <2>3
  <2>. QED
    BY <1>8, <2>1, <2>2, <2>4 DEF Decided
<1>10. Firm(n, pt, hash, vs)
  BY <1>9 DEF Firm
<1>. QED
  BY <1>2, <1>3, <1>5, <1>8, <1>10

-----------------------------------------------------------------------------
(* What is in force stays in force.                                         *)

Kept == \A n \in Node : InForce(n) \subseteq InForce(n)'

\* What is settled stays settled, as long as all that is in force stays so.
LEMMA SettledKept ==
    ASSUME SteadyInv, Kept
    PROVE  /\ \A c \in Hash : Settled(c) => Settled(c)'
           /\ \A c \in Hash : AllSettled(c) => AllSettled(c)'
<1>1. ASSUME NEW c \in Hash, Settled(c) PROVE Settled(c)'
  <2>1. Leader(c) \in Node
    BY LeaderIsNode
  <2>. QED
    BY <1>1, <2>1 DEF Kept, Settled
<1>2. ASSUME NEW c \in Hash, AllSettled(c), NEW k \in 1..Len(c)
      PROVE  Settled(SubSeq(c, 1, k))'
  <2>1. SubSeq(c, 1, k) \in Hash
    BY Beginnings
  <2>2. Settled(SubSeq(c, 1, k))
    BY <1>2 DEF AllSettled
  <2>. QED
    BY <1>1, <2>1, <2>2
<1>. QED
  BY <1>1, <1>2 DEF AllSettled

\* What a step leaves alone stays as it is.
LEMMA SettledParts ==
    ASSUME SteadyInv, Kept
    PROVE  /\ UNCHANGED chainVars /\ UNCHANGED adding => NodesFirm' /\ ForceSettled'
           /\ UNCHANGED sync => QueuesSettled'
           /\ UNCHANGED msgs => ConfirmsSettled'
<1>1. /\ \A c \in Hash : Settled(c) => Settled(c)'
      /\ \A c \in Hash : AllSettled(c) => AllSettled(c)'
  BY SettledKept
<1>2. \A n \in Node : InForce(n) \subseteq Hash /\ sync[n].queue \in Seq(Hash)
  BY ForceTypes, SyncTypes DEF SteadyInv, TypeOK
<1>3. \A n \in Node : \A i \in DOMAIN sync[n].queue : sync[n].queue[i] \in Hash
  BY <1>2, LenProperties, ElementOfSeq
<1>4. \A m \in msgs : m.type = "ConfirmBlock" => m.hash \in Hash
  BY MessageType DEF SteadyInv, TypeOK
<1>5. ASSUME UNCHANGED chainVars, UNCHANGED adding PROVE NodesFirm' /\ ForceSettled'
  <2>1. NodesFirm'
    BY <1>5 DEF SteadyInv, NodesFirm, chainVars
  <2>2. \A n \in Node : InForce(n)' = InForce(n)
    BY <1>5 DEF InForce, chainVars
  <2>3. \A n \in Node : \A c \in InForce(n) : AllSettled(c)'
    BY <1>1, <1>2 DEF SteadyInv, ForceSettled
  <2>4. ForceSettled'
    BY <2>2, <2>3 DEF ForceSettled
  <2>. QED
    BY <2>1, <2>4
<1>6. UNCHANGED sync => QueuesSettled'
  BY <1>1, <1>3 DEF SteadyInv, QueuesSettled
<1>7. UNCHANGED msgs => ConfirmsSettled'
  BY <1>1, <1>4 DEF SteadyInv, ConfirmsSettled
<1>. QED
  BY <1>5, <1>6, <1>7

\* Where no chain and no call changes, all stays in force.
LEMMA KeptIdle ==
    UNCHANGED chainVars /\ UNCHANGED adding => Kept
BY DEF Kept, InForce, chainVars

\* A node gets new blocks, a new latest one and new calls, of which all is in
\* force already or settled.
LEMMA NodeReplaced ==
    ASSUME SteadyInv, NEW n \in Node, NEW st, NEW chain, NEW ws,
           latest' = [latest EXCEPT ![n] = chain], store' = [store EXCEPT ![n] = st],
           adding' = [adding EXCEPT ![n] = ws],
           Firm(n, st, chain, ws), InForce(n) \subseteq InForceOf(st, ws)
    PROVE  /\ NodesFirm' /\ Kept
           /\ InForce(n)' = InForceOf(st, ws)
           /\ (\A c \in InForceOf(st, ws) : c \in InForce(n) \/ AllSettled(c)') => ForceSettled'
<1>t. latest \in [Node -> Hash] /\ store \in [Node -> Seq(Hash)] /\ adding \in [Node -> Seq(Write)]
  BY DEF SteadyInv, TypeOK
<1>1. latest'[n] = chain /\ store'[n] = st /\ adding'[n] = ws
  BY <1>t
<1>2. \A p \in Node : p # n => /\ latest'[p] = latest[p] /\ store'[p] = store[p]
                               /\ adding'[p] = adding[p]
  BY <1>t
<1>3. NodesFirm'
  <2>1. \A p \in Node : Firm(p, store'[p], latest'[p], adding'[p])
    BY <1>1, <1>2 DEF SteadyInv, NodesFirm
  <2>. QED
    BY <2>1 DEF NodesFirm
<1>4. InForce(n)' = InForceOf(st, ws) /\ \A p \in Node : p # n => InForce(p)' = InForce(p)
  BY <1>1, <1>2 DEF InForce
<1>5. Kept
  BY <1>4 DEF Kept
<1>6. ASSUME \A c \in InForceOf(st, ws) : c \in InForce(n) \/ AllSettled(c)'
      PROVE  ForceSettled'
  <2>1. \A p \in Node : \A c \in InForce(p) : AllSettled(c)'
    <3>1. \A c \in Hash : AllSettled(c) => AllSettled(c)'
      BY <1>5, SettledKept
    <3>2. \A p \in Node : InForce(p) \subseteq Hash
      BY ForceTypes DEF SteadyInv
    <3>. QED
      BY <3>1, <3>2 DEF SteadyInv, ForceSettled
  <2>2. \A p \in Node : \A c \in InForce(p)' : AllSettled(c)'
    BY <1>4, <1>6, <2>1
  <2>. QED
    BY <2>2 DEF ForceSettled
<1>. QED
  BY <1>3, <1>4, <1>5, <1>6

\* A broadcast of anything but a confirmation keeps what is confirmed settled;
\* that of a confirmation does so if its block is settled by then.
LEMMA ConfirmsFollow ==
    ASSUME SteadyInv, Kept, NEW m, Broadcast(m),
           m.type = "ConfirmBlock" /\ ValidCandidate(m.hash) => Settled(m.hash)'
    PROVE  ConfirmsSettled'
<1>1. msgs' = msgs \cup {m} /\ \A c \in Hash : Settled(c) => Settled(c)'
  BY SettledKept DEF Broadcast
<1>2. \A k \in msgs : k.type = "ConfirmBlock" => k.hash \in Hash
  BY MessageType DEF SteadyInv, TypeOK
<1>3. ASSUME NEW k \in msgs', k.type = "ConfirmBlock", ValidCandidate(k.hash)
      PROVE  Settled(k.hash)'
  <2>1. CASE k = m
    BY <1>3, <2>1
  <2>2. CASE k \in msgs
    BY <1>1, <1>2, <1>3, <2>2 DEF SteadyInv, ConfirmsSettled
  <2>. QED
    BY <1>1, <2>1, <2>2
<1>. QED
  BY <1>3 DEF ConfirmsSettled

\* Queues of settled blocks stay so.
LEMMA QueuesSettledFor ==
    ASSUME SteadyInv, Kept,
           \A p \in Node : \A i \in DOMAIN sync'[p].queue :
               sync'[p].queue[i] \in Hash /\ AllSettled(sync'[p].queue[i])
    PROVE  QueuesSettled'
<1>1. \A c \in Hash : AllSettled(c) => AllSettled(c)'
  BY SettledKept
<1>. QED
  BY <1>1 DEF QueuesSettled

\* Where the latest blocks stay as they are, a node may drop its block.
LEMMA BlocksKept ==
    ASSUME SteadyInv, UNCHANGED chainVars,
           \A p \in Node : factory'[p].block.hash \in {factory[p].block.hash, <<>>}
    PROVE  BlocksFollow'
<1>1. ASSUME NEW p \in Node
      PROVE  HeldFollows(factory'[p], latest'[p])
  <2>1. HeldFollows(factory[p], latest[p])
    BY DEF SteadyInv, BlocksFollow
  <2>. QED
    BY <2>1 DEF HeldFollows, HasBlock, chainVars
<1>. QED
  BY <1>1 DEF BlocksFollow

\* A node holds another block, for the next height.
LEMMA BlockReplaced ==
    ASSUME SteadyInv, NEW n \in Node, NEW g, UNCHANGED chainVars,
           factory' = [factory EXCEPT ![n] = g], HeldFollows(g, latest[n])
    PROVE  BlocksFollow'
<1>1. \A p \in Node : HeldFollows(factory'[p], latest'[p])
  BY DEF SteadyInv, BlocksFollow, TypeOK, chainVars
<1>. QED
  BY <1>1 DEF BlocksFollow

\* doAddTx touches neither chains nor calls nor the held block.
LEMMA DoAddTxFollows ==
    ASSUME SteadyInv, NEW n \in Node, NEW f \in Factory, DoAddTx(n, f),
           f.block = factory[n].block \/ f.block = NoBlock,
           UNCHANGED <<adding, sync>>, UNCHANGED chainVars
    PROVE  /\ NodesFirm' /\ BlocksFollow'
           /\ ForceSettled' /\ QueuesSettled' /\ ConfirmsSettled'
<1>. USE DEF SteadyInv
<1>1. PICK g \in Factory : factory' = [factory EXCEPT ![n] = g] /\ g.block = f.block
  BY DoAddTxBlock
<1>2. \A p \in Node : factory'[p].block.hash \in {factory[p].block.hash, <<>>}
  BY <1>1 DEF NoBlock, TypeOK
<1>3. Kept
  BY KeptIdle
<1>4. Quiet \/ (\E m : Broadcast(m) /\ m.type = "AddTx")
  BY DoAddTxBlock
<1>5. ConfirmsSettled'
  BY <1>3, <1>4, ConfirmsFollow, SettledParts DEF Quiet
<1>. QED
  BY <1>2, <1>3, <1>5, BlocksKept, SettledParts

\* A call that starts, for a settled block, or at the validator of its round
\* while no other block is being added.
LEMMA WriteStarts ==
    ASSUME SteadyInv, NEW n \in Node, NEW hash \in Hash, NEW b \in BOOLEAN, UNCHANGED chainVars,
           adding' = [adding EXCEPT ![n] = Append(adding[n], [hash |-> hash, sync |-> b])],
           Extends(hash, latest[n]),
           \/ Settled(hash)
           \/ Leader(hash) = n /\ \A i \in DOMAIN adding[n] : adding[n][i].hash = hash
    PROVE  NodesFirm' /\ Kept /\ ForceSettled' /\ Settled(hash)'
<1>. USE DEF SteadyInv
<1>t. /\ store[n] \in Seq(Hash) /\ adding[n] \in Seq(Write) /\ latest[n] \in Hash
      /\ Firm(n, store[n], latest[n], adding[n])
  BY ForceTypes DEF NodesFirm
<1>0. PICK w \in Write : w = [hash |-> hash, sync |-> b] /\ w.hash = hash
  BY DEF Write
<1>1. PICK ws : ws = Append(adding[n], w)
  OBVIOUS
<1>2. MayAdd(n, store[n], adding[n], w.hash)
  BY <1>0 DEF Settled, InForce, MayAdd
<1>3. /\ ws \in Seq(Write) /\ Firm(n, store[n], latest[n], ws)
      /\ InForceOf(store[n], ws) = InForce(n) \cup {hash}
  <2>1. Extends(w.hash, latest[n])
    BY <1>0
  <2>. QED
    BY <1>t, <1>0, <1>1, <1>2, <2>1, FirmAppend DEF InForce
<1>4. /\ latest' = [latest EXCEPT ![n] = latest[n]] /\ store' = [store EXCEPT ![n] = store[n]]
      /\ adding' = [adding EXCEPT ![n] = ws]
  BY <1>0, <1>1 DEF TypeOK, chainVars
<1>5. /\ NodesFirm' /\ Kept /\ InForce(n)' = InForceOf(store[n], ws)
      /\ (\A c \in InForceOf(store[n], ws) : c \in InForce(n) \/ AllSettled(c)') => ForceSettled'
  BY <1>3, <1>4, NodeReplaced
<1>6. Settled(hash)'
  <2>1. CASE Settled(hash)
    BY <1>5, <2>1, SettledKept
  <2>2. CASE Leader(hash) = n
    BY <1>3, <1>5, <2>2 DEF Settled
  <2>. QED
    BY <2>1, <2>2
<1>7. AllSettled(hash)'
  <2>0. PICK chain \in Hash : chain = latest[n]
    BY <1>t
  <2>1. \A k \in 1..Len(chain) : Settled(SubSeq(chain, 1, k))'
    <3>1. AllSettled(chain)
      BY <2>0, LatestSettled
    <3>2. \A c \in Hash : Settled(c) => Settled(c)'
      BY <1>5, SettledKept
    <3>. QED
      BY <3>1, <3>2, Beginnings DEF AllSettled
  <2>2. /\ Len(chain) \in Nat /\ Len(hash) = Len(chain) + 1
        /\ \A k \in 1..Len(chain) : SubSeq(hash, 1, k) = SubSeq(chain, 1, k)
        /\ SubSeq(hash, 1, Len(hash)) = hash
    BY <2>0, ExtensionParts
  <2>3. ASSUME NEW k \in 1..Len(hash) PROVE Settled(SubSeq(hash, 1, k))'
    <3>1. CASE k = Len(hash)
      BY <1>6, <2>2, <3>1
    <3>2. CASE k # Len(hash)
      <4>1. k \in 1..Len(chain)
        BY <2>2, <3>2
      <4>. QED
        BY <2>1, <2>2, <4>1
    <3>. QED
      BY <3>1, <3>2
  <2>. QED
    BY <2>3 DEF AllSettled
<1>. QED
  BY <1>3, <1>5, <1>6, <1>7

\* What add() starts on a block that is settled, or at the validator of its
\* round when the votes are counted.
LEMMA StartAddFollows ==
    ASSUME SteadyInv, NEW n \in Node, NEW hash \in Hash, NEW votes, StartAdd(n, hash, votes),
           UNCHANGED chainVars,
           Addable(hash, latest[n]) =>
               \/ Settled(hash)
               \/ Leader(hash) = n /\ \A i \in DOMAIN adding[n] : adding[n][i].hash = hash
    PROVE  /\ NodesFirm' /\ Kept /\ ForceSettled'
           /\ Addable(hash, latest[n]) /\ HasQuorumWeighted(votes) => Settled(hash)'
<1>1. CASE Addable(hash, latest[n]) /\ HasQuorumWeighted(votes)
  <2>1. adding' = [adding EXCEPT ![n] = Append(adding[n], [hash |-> hash, sync |-> FALSE])]
    BY <1>1 DEF StartAdd
  <2>2. Extends(hash, latest[n])
    BY <1>1 DEF Addable
  <2>. QED
    BY <1>1, <2>1, <2>2, WriteStarts
<1>2. CASE ~(Addable(hash, latest[n]) /\ HasQuorumWeighted(votes))
  <2>1. UNCHANGED adding
    BY <1>2 DEF StartAdd
  <2>. QED
    BY <1>2, <2>1, KeptIdle, SettledParts
<1>. QED
  BY <1>1, <1>2

\* The sync loop takes one settled block of the queue to the calls of a node with
\* the blocks st, the latest one chain and the calls pending.
LEMMA ResumeSyncFollows ==
    ASSUME SteadyInv, NEW n \in Node, NEW queue \in Seq(Hash), NEW st \in Seq(Hash),
           NEW chain \in Hash, NEW pending \in Seq(Write), Firm(n, st, chain, pending),
           InForceOf(st, pending) = InForce(n),
           \A i \in DOMAIN queue : AllSettled(queue[i]),
           ResumeSync(n, queue, chain, pending)
    PROVE  /\ \E ws \in Seq(Write) :
                 /\ adding' = [adding EXCEPT ![n] = ws]
                 /\ Firm(n, st, chain, ws)
                 /\ InForce(n) \subseteq InForceOf(st, ws)
                 /\ \A c \in InForceOf(st, ws) : c \in Hash /\ AllSettled(c)
           /\ \A p \in Node : \A i \in DOMAIN sync'[p].queue :
                 sync'[p].queue[i] \in Hash /\ AllSettled(sync'[p].queue[i])
<1>. DEFINE Writes == \E ws \in Seq(Write) :
                          /\ adding' = [adding EXCEPT ![n] = ws]
                          /\ Firm(n, st, chain, ws)
                          /\ InForce(n) \subseteq InForceOf(st, ws)
                          /\ \A c \in InForceOf(st, ws) : c \in Hash /\ AllSettled(c)
            Queues == \A p \in Node : \A i \in DOMAIN sync'[p].queue :
                          sync'[p].queue[i] \in Hash /\ AllSettled(sync'[p].queue[i])
<1>t. /\ sync \in [Node -> SyncState]
      /\ \A p \in Node : sync[p].queue \in Seq(Hash)
      /\ \A i \in DOMAIN queue : queue[i] \in Hash
  BY SyncTypes, LenProperties, ElementOfSeq DEF SteadyInv, TypeOK
<1>c. \A c \in InForce(n) : c \in Hash /\ AllSettled(c)
  BY ForceTypes DEF SteadyInv, ForceSettled
<1>q. ASSUME NEW rest \in Seq(Hash), \A i \in DOMAIN rest : AllSettled(rest[i]),
             NEW s, s.queue = rest, sync' = [sync EXCEPT ![n] = s]
      PROVE  Queues
  <2>1. ASSUME NEW p \in Node, NEW i \in DOMAIN sync'[p].queue
        PROVE  sync'[p].queue[i] \in Hash /\ AllSettled(sync'[p].queue[i])
    <3>1. CASE p = n
      <4>1. sync'[p].queue = rest
        BY <1>q, <1>t, <3>1
      <4>2. rest[i] \in Hash
        BY <2>1, <4>1, LenProperties, ElementOfSeq
      <4>. QED
        BY <1>q, <2>1, <4>1, <4>2
    <3>2. CASE p # n
      <4>1. sync'[p].queue = sync[p].queue
        BY <1>q, <1>t, <3>2
      <4>2. sync[p].queue[i] \in Hash
        BY <1>t, <2>1, <4>1, LenProperties, ElementOfSeq
      <4>. QED
        BY <2>1, <4>1, <4>2 DEF SteadyInv, QueuesSettled
    <3>. QED
      BY <3>1, <3>2
  <2>. QED
    BY <2>1
<1>. HIDE DEF Queues
<1>1. ASSUME sync' = [sync EXCEPT ![n] = SyncIdle], adding' = [adding EXCEPT ![n] = pending]
      PROVE  Writes /\ Queues
  <2>1. SyncIdle.queue = <<>> /\ <<>> \in Seq(Hash) /\ DOMAIN <<>> = {}
    BY DEF SyncIdle
  <2>2. Queues
    BY <1>1, <1>q, <2>1
  <2>. QED
    BY <1>1, <1>c, <2>2
<1>2. ASSUME NEW i \in DOMAIN queue, Addable(queue[i], chain),
             sync' = [sync EXCEPT ![n] = [phase |-> "apply", height |-> 0,
                                          queue |-> SubSeq(queue, i + 1, Len(queue))]],
             adding' = [adding EXCEPT ![n] = Append(pending, [hash |-> queue[i], sync |-> TRUE])]
      PROVE  Writes /\ Queues
  <2>. DEFINE rest == SubSeq(queue, i + 1, Len(queue))
              s == [phase |-> "apply", height |-> 0, queue |-> rest]
  <2>1. PICK hash \in Hash : hash = queue[i]
    BY <1>t
  <2>2. Extends(hash, chain) /\ AllSettled(hash) /\ hash # <<>>
    BY <1>2, <2>1 DEF Addable, Extends
  <2>0. PICK w \in Write : w = [hash |-> hash, sync |-> TRUE] /\ w.hash = hash
    <3>1. [hash |-> hash, sync |-> TRUE] \in Write
      BY DEF Write
    <3>. QED
      BY <3>1
  <2>a. Leader(hash) # n \/ hash \in InForceOf(st, pending)
    BY <2>1, <2>2, SettledWhole DEF Settled
  <2>3. MayAdd(n, st, pending, w.hash) /\ Extends(w.hash, chain)
    BY <2>0, <2>2, <2>a DEF MayAdd
  <2>4. PICK ws : ws = Append(pending, w)
    OBVIOUS
  <2>5. /\ ws \in Seq(Write) /\ Firm(n, st, chain, ws)
        /\ InForceOf(st, ws) = InForceOf(st, pending) \cup {hash}
    <3>1. Extends(w.hash, chain) /\ MayAdd(n, st, pending, w.hash)
      BY <2>3
    <3>2. /\ Append(pending, w) \in Seq(Write) /\ Firm(n, st, chain, Append(pending, w))
          /\ InForceOf(st, Append(pending, w)) = InForceOf(st, pending) \cup {w.hash}
      BY <3>1, FirmAppend
    <3>. QED
      BY <2>0, <2>4, <3>2
  <2>6. Writes
    BY <1>2, <1>c, <2>0, <2>1, <2>2, <2>4, <2>5
  <2>7. rest \in Seq(Hash) /\ \A j \in DOMAIN rest : AllSettled(rest[j])
    <3>1. i \in 1..Len(queue) /\ Len(queue) \in Nat /\ DOMAIN queue = 1..Len(queue)
          /\ \A j \in (i + 1)..Len(queue) : queue[j] \in Hash
      BY LenProperties, ElementOfSeq
    <3>2. rest \in Seq(Hash) /\ DOMAIN rest = 1..Len(rest)
      BY <3>1, SubSeqProperties
    <3>3. ASSUME NEW j \in 1..Len(rest) PROVE rest[j] = queue[i + j] /\ i + j \in DOMAIN queue
      BY <3>1
    <3>. QED
      BY <3>2, <3>3
  <2>8. s.queue = rest /\ sync' = [sync EXCEPT ![n] = s]
    BY <1>2
  <2>. HIDE DEF rest, s
  <2>9. Queues
    BY <1>q, <2>7, <2>8
  <2>. QED
    BY <2>6, <2>9
<1>3. Writes /\ Queues
  BY <1>1, <1>2 DEF ResumeSync
<1>. QED
  BY <1>3 DEF Queues

\* The blocks a peer answers to a sync request are settled: it holds them.
LEMMA AnswerSettled ==
    ASSUME SteadyInv, NEW q \in Node, NEW h \in Nat \ {0}
    PROVE  \A i \in DOMAIN Answer(q, h) : AllSettled(Answer(q, h)[i])
<1>. SUFFICES ASSUME NEW i \in DOMAIN Answer(q, h) PROVE AllSettled(Answer(q, h)[i])
  OBVIOUS
<1>1. PICK k \in DOMAIN store[q] : Answer(q, h)[i] = store[q][k]
  BY AnswerType DEF SteadyInv
<1>2. store[q][k] \in InForce(q)
  BY DEF InForce, InForceOf, Range
<1>. QED
  BY <1>1, <1>2 DEF SteadyInv, ForceSettled

-----------------------------------------------------------------------------
(* The step.                                                                *)

\* What the checks of the receiver say where everybody sees everybody.
LEMMA SteadyViews ==
    ASSUME SteadyInv, NEW n \in Node, NEW view \in ViewsAfterReceipt(n), NEW hash \in Hash,
           Extends(hash, latest[n])
    PROVE  CalcValidator(latest[n], view) = Leader(hash)
<1>1. latest[n] \in Hash /\ online[n] = Node
  BY DEF SteadyInv, SeesAll, TypeOK
<1>2. view = Node
  BY <1>1 DEF ViewsAfterReceipt
<1>. QED
  BY <1>1, <1>2, ExtensionParts, OneValidator

LEMMA SteadyStep ==
    ASSUME Steady, SteadyInv, [Next]_vars
    PROVE  SteadyInv' /\ \A n \in Node : IsPrefix(store[n], store'[n])
<1>. DEFINE Follows == /\ NodesFirm' /\ BlocksFollow' /\ ForceSettled'
                       /\ QueuesSettled' /\ ConfirmsSettled'
            Grows == \A n \in Node : IsPrefix(store[n], store'[n])
<1>. USE DEF SteadyInv
<1>t. TypeOK' /\ Fits' /\ SeesAll'
  BY TypeStep, FitsStep, SeesAllStep
<1>f. \A n \in Node : /\ factory[n] \in Factory /\ factory[n].block.hash \in Hash
                      /\ store[n] \in Seq(Hash) /\ latest[n] \in Hash /\ adding[n] \in Seq(Write)
                      /\ sync[n].queue \in Seq(Hash)
                      /\ HeldFollows(factory[n], latest[n])
                      /\ Firm(n, store[n], latest[n], adding[n])
                      /\ Fitting(store[n], latest[n], adding[n])
  BY SyncTypes DEF TypeOK, Factory, Block, BlocksFollow, NodesFirm, Fits
<1>g. UNCHANGED chainVars => Grows
  <2>1. \A n \in Node : IsPrefix(store[n], store[n])
    BY <1>f, LenProperties DEF IsPrefix
  <2>. QED
    BY <2>1 DEF chainVars
<1>h. ASSUME NEW p \in Node, NEW g, factory' = [factory EXCEPT ![p] = g],
             g.block.hash = factory[p].block.hash
      PROVE  \A n \in Node : factory'[n].block.hash = factory[n].block.hash
  BY <1>h DEF TypeOK
<1>k. UNCHANGED chainVars /\ UNCHANGED adding => Kept
  BY KeptIdle
<1>0. ASSUME UNCHANGED chainVars, UNCHANGED <<adding, sync, msgs>>,
             \A p \in Node : factory'[p].block.hash \in {factory[p].block.hash, <<>>}
      PROVE  Follows /\ Grows
  BY <1>0, <1>g, <1>k, BlocksKept, SettledParts
<1>s. CASE UNCHANGED vars
  BY <1>s, <1>t, <1>0 DEF vars, chainVars
<1>1. ASSUME NEW c \in Cmd, Submit(c) PROVE Follows /\ Grows
  <2>. DEFINE f == Push(factory[Home[c]], c)
  <2>1. Home[c] \in Node
    BY HomeAssumption
  <2>2. f \in Factory /\ f.block = factory[Home[c]].block
    BY <1>f, <2>1, FieldTypes DEF Push, Factory
  <2>3. DoAddTx(Home[c], f) /\ UNCHANGED <<adding, sync>> /\ UNCHANGED chainVars
    BY <1>1 DEF Submit
  <2>. HIDE DEF f
  <2>. QED
    BY <1>g, <2>1, <2>2, <2>3, DoAddTxFollows
<1>2. ASSUME NEW n \in Node, AddTxTimer(n) PROVE Follows /\ Grows
  <2>. DEFINE f == Disarm(factory[n], "addTx")
  <2>1. f \in Factory /\ f.block = factory[n].block
    BY <1>f, FieldTypes DEF Disarm, Factory, Timer
  <2>2. DoAddTx(n, f) /\ UNCHANGED <<adding, sync>> /\ UNCHANGED chainVars
    BY <1>2 DEF AddTxTimer
  <2>. HIDE DEF f
  <2>. QED
    BY <1>g, <2>1, <2>2, DoAddTxFollows
<1>3. ASSUME NEW n \in Node, ProposeTimer(n) PROVE Follows /\ Grows
  <2>. DEFINE hash == Append(latest[n], factory[n].pool)
              g == WithBlock(Disarm(factory[n], "propose"), hash, {n})
  <2>1. Extends(hash, latest[n])
    <3>1. latest[n] \in Seq(SUBSET Tx) /\ factory[n].pool \in SUBSET Tx
      BY <1>f DEF Hash, Factory
    <3>2. Len(latest[n]) \in Nat /\ Len(hash) = Len(latest[n]) + 1 /\ hash \in Seq(SUBSET Tx)
          /\ \A i \in 1..Len(latest[n]) : hash[i] = latest[n][i]
      BY <3>1, LenProperties, AppendProperties
    <3>3. hash # <<>>
      <4>. HIDE DEF hash
      <4>. QED
        BY <3>2, EmptySeq
    <3>4. SubSeq(hash, 1, Len(hash) - 1) = latest[n]
      <4>. HIDE DEF hash
      <4>1. Len(hash) - 1 = Len(latest[n])
        BY <3>2
      <4>2. SubSeq(hash, 1, Len(latest[n])) = latest[n]
        BY <3>1, <3>2
      <4>. QED
        BY <4>1, <4>2
    <3>. QED
      BY <3>3, <3>4 DEF Extends, Front
  <2>. HIDE DEF hash
  <2>2. PICK m : Broadcast(m) /\ m.type = "ProposeBlock"
    BY <1>3 DEF ProposeTimer
  <2>3. /\ factory' = [factory EXCEPT ![n] = g]
        /\ UNCHANGED <<adding, sync>> /\ UNCHANGED chainVars
    BY <1>3 DEF ProposeTimer, hash
  <2>4. g.block.hash = hash
    BY <1>f DEF WithBlock, Disarm, Factory
  <2>. HIDE DEF g
  <2>5. BlocksFollow'
    <3>1. HeldFollows(g, latest[n])
      BY <2>1, <2>4 DEF HeldFollows
    <3>. QED
      BY <2>3, <3>1, BlockReplaced
  <2>6. ConfirmsSettled'
    <3>1. Kept
      BY <1>k, <2>3
    <3>2. m.type # "ConfirmBlock"
      BY <2>2
    <3>. QED
      BY <2>2, <3>1, <3>2, ConfirmsFollow
  <2>. QED
    BY <1>g, <1>k, <2>3, <2>5, <2>6, SettledParts
<1>4. ASSUME NEW n \in Node, RetryTimer(n) PROVE Follows /\ Grows
  <2>. DEFINE f == Clear(factory[n], {})
  <2>1. f \in Factory /\ f.block = NoBlock
    <3>1. f \in Factory
      BY <1>f, ClearType
    <3>. QED
      BY <3>1 DEF Clear, ClearedWith
  <2>2. DoAddTx(n, f) /\ UNCHANGED <<adding, sync>> /\ UNCHANGED chainVars
    BY <1>4 DEF RetryTimer
  <2>. HIDE DEF f
  <2>. QED
    BY <1>g, <2>1, <2>2, DoAddTxFollows
<1>5. ASSUME NEW n \in Node, NEW m \in msgs, NEW view \in ViewsAfterReceipt(n),
             ReceiveAddTx(n, view, m)
      PROVE  Follows /\ Grows
  <2>. DEFINE g == ProcessAddTx(factory[n], m.tx, latest[n])
  <2>1. factory' = [factory EXCEPT ![n] = g] /\ UNCHANGED <<adding, sync, msgs>> /\ UNCHANGED chainVars
    BY <1>5 DEF ReceiveAddTx, Receive, Quiet
  <2>2. g.block.hash = factory[n].block.hash
    BY <1>f DEF ProcessAddTx, Arm, Factory
  <2>. HIDE DEF g
  <2>. QED
    BY <1>0, <1>h, <2>1, <2>2
<1>6. ASSUME NEW n \in Node, NEW m \in msgs, NEW view \in ViewsAfterReceipt(n),
             ReceiveProposeBlock(n, view, m)
      PROVE  Follows /\ Grows
  <2>. DEFINE k == [type |-> "SignBlock", origin |-> n,
                    seq |-> NextSeq(n, "SignBlock"), hash |-> m.hash]
              g == SetupRetry(WithBlock(factory[n], m.hash, {m.origin}))
  <2>1. /\ factory' = [factory EXCEPT ![n] = g] /\ Broadcast(k) /\ k.type = "SignBlock"
        /\ UNCHANGED <<adding, sync>> /\ UNCHANGED chainVars /\ m.type = "ProposeBlock"
        /\ Extends(m.hash, latest[n])
    BY <1>6 DEF ReceiveProposeBlock, AcceptsProposeBlock, Receive
  <2>2. g.block.hash = m.hash
    BY <1>f DEF SetupRetry, WithBlock, Arm, Factory
  <2>. HIDE DEF g, k
  <2>5. BlocksFollow'
    <3>1. HeldFollows(g, latest[n])
      BY <2>1, <2>2 DEF HeldFollows
    <3>. QED
      BY <2>1, <3>1, BlockReplaced
  <2>6. ConfirmsSettled'
    BY <1>k, <2>1, ConfirmsFollow
  <2>. QED
    BY <1>g, <1>k, <2>1, <2>5, <2>6, SettledParts
<1>7. ASSUME NEW n \in Node, NEW m \in msgs, NEW view \in ViewsAfterReceipt(n),
             ReceiveSignBlock(n, view, m)
      PROVE  Follows /\ Grows
  <2>1. PICK hash \in Hash : hash = factory[n].block.hash
    BY <1>f
  <2>2. PICK votes : votes = factory[n].block.votes \cup {m.origin}
    OBVIOUS
  <2>3. PICK k : k = [type |-> "ConfirmBlock", origin |-> n,
                      seq |-> NextSeq(n, "ConfirmBlock"), hash |-> hash, votes |-> votes]
    OBVIOUS
  <2>4. /\ factory' = [factory EXCEPT ![n] = WithBlock(factory[n], hash, votes)]
        /\ UNCHANGED sync /\ UNCHANGED chainVars
        /\ CalcValidator(latest[n], view) = n
        /\ \A i \in DOMAIN adding[n] : adding[n][i].hash = hash
        /\ \/ StartAdd(n, hash, votes) /\ Broadcast(k) /\ HasQuorumWeighted(votes)
           \/ UNCHANGED <<msgs, adding>>
    BY <1>7, <2>1, <2>2, <2>3 DEF ReceiveSignBlock, AcceptsSignBlock, Receive, Quiet,
       VotesAfterWrites, Steady
  <2>5. WithBlock(factory[n], hash, votes).block.hash = hash /\ k.hash = hash
    BY <1>f, <2>3 DEF WithBlock, Factory
  <2>6. \A p \in Node : factory'[p].block.hash = factory[p].block.hash
    BY <1>h, <2>1, <2>4, <2>5
  <2>7. CASE UNCHANGED <<msgs, adding>>
    BY <1>0, <2>4, <2>6, <2>7
  <2>8. CASE StartAdd(n, hash, votes) /\ Broadcast(k) /\ HasQuorumWeighted(votes)
    <3>1. hash # <<>> => Extends(hash, latest[n])
      BY <1>f, <2>1 DEF HeldFollows, HasBlock
    <3>2. Extends(hash, latest[n]) => Leader(hash) = n
      BY <2>4, SteadyViews
    <3>3. Addable(hash, latest[n]) =>
              Leader(hash) = n /\ \A i \in DOMAIN adding[n] : adding[n][i].hash = hash
      BY <2>4, <3>2 DEF Addable
    <3>4. ValidCandidate(hash) => Addable(hash, latest[n])
      BY <3>1 DEF ValidCandidate, Addable
    <3>5. /\ NodesFirm' /\ Kept /\ ForceSettled'
          /\ Addable(hash, latest[n]) /\ HasQuorumWeighted(votes) => Settled(hash)'
      BY <2>4, <2>8, <3>3, StartAddFollows
    <3>6. ValidCandidate(k.hash) => Settled(k.hash)'
      BY <2>5, <2>8, <3>4, <3>5
    <3>7. ConfirmsSettled'
      BY <2>8, <3>5, <3>6, ConfirmsFollow
    <3>8. BlocksFollow'
      BY <2>4, <2>6, BlocksKept
    <3>. QED
      BY <1>g, <2>4, <3>5, <3>7, <3>8, SettledParts
  <2>. QED
    BY <2>4, <2>7, <2>8
<1>8. ASSUME NEW n \in Node, NEW m \in msgs, NEW view \in ViewsAfterReceipt(n),
             ReceiveConfirmBlock(n, view, m)
      PROVE  Follows /\ Grows
  <2>. DEFINE g == WithBlock(factory[n], m.hash, m.votes)
  <2>1. /\ m.type = "ConfirmBlock" /\ factory' = [factory EXCEPT ![n] = g]
        /\ StartAdd(n, m.hash, m.votes) /\ UNCHANGED <<sync, msgs>> /\ UNCHANGED chainVars
        /\ factory[n].block.hash = m.hash
    BY <1>8 DEF ReceiveConfirmBlock, AcceptsConfirmBlock, Receive, Quiet
  <2>2. m.hash \in Hash
    BY <2>1, MessageType DEF TypeOK
  <2>3. g.block.hash = factory[n].block.hash
    BY <1>f, <2>1 DEF WithBlock, Factory
  <2>. HIDE DEF g
  <2>4. \A p \in Node : factory'[p].block.hash = factory[p].block.hash
    BY <1>h, <2>1, <2>3
  <2>5. Addable(m.hash, latest[n]) => Settled(m.hash)
    BY <2>1 DEF Addable, ConfirmsSettled
  <2>6. NodesFirm' /\ Kept /\ ForceSettled'
    BY <2>1, <2>2, <2>5, StartAddFollows
  <2>7. BlocksFollow'
    BY <2>1, <2>4, BlocksKept
  <2>. QED
    BY <1>g, <2>1, <2>6, <2>7, SettledParts
<1>9. ASSUME NEW n \in Node, NEW m \in msgs, NEW view \in ViewsAfterReceipt(n),
             Ignore(n, view, m)
      PROVE  Follows /\ Grows
  BY <1>9, <1>0 DEF Ignore, Receive, Quiet
<1>10. ASSUME NEW n \in Node, NEW i \in DOMAIN adding[n], FinishAdd(n, i) PROVE Follows /\ Grows
  <2>1. PICK hash \in Hash : hash = adding[n][i].hash
    BY <1>f, WriteTypes
  <2>2. PICK st : st = Put(store[n], hash)
    OBVIOUS
  <2>3. PICK rest : rest = RemoveAt(adding[n], i)
    OBVIOUS
  <2>. DEFINE g == Arm(Clear(factory[n], Last(hash)), "addTx")
  <2>4. /\ latest' = [latest EXCEPT ![n] = hash] /\ store' = [store EXCEPT ![n] = st]
        /\ factory' = [factory EXCEPT ![n] = g] /\ UNCHANGED msgs
        /\ \/ ResumeSync(n, sync[n].queue, hash, rest)
           \/ adding' = [adding EXCEPT ![n] = rest] /\ UNCHANGED sync
    BY <1>10, <2>1, <2>2, <2>3 DEF FinishAdd, Quiet
  <2>5. g.block.hash = <<>>
    BY DEF Clear, ClearedWith, NoBlock, Arm
  <2>. HIDE DEF g
  <2>6. Len(hash) \in DOMAIN store[n] => store[n][Len(hash)] = hash
    <3>1. ASSUME Len(hash) \in DOMAIN store[n] PROVE store[n][Len(hash)] = hash
      <4>1. PICK d : d = store[n][Len(hash)]
        OBVIOUS
      <4>2. Len(d) = Len(hash)
        BY <1>f, <3>1, <4>1 DEF Fitting
      <4>3. hash \in InForce(n) /\ d \in InForce(n)
        BY <2>1, <3>1, <4>1 DEF InForce, InForceOf, Range
      <4>. QED
        BY <4>1, <4>2, <4>3, InForceOnce
    <3>. QED
      BY <3>1
  <2>7. /\ InForceOf(st, rest) = InForce(n) /\ Firm(n, st, hash, rest)
        /\ IsPrefix(store[n], st) /\ st \in Seq(Hash) /\ rest \in Seq(Write)
    <3>1. /\ InForceOf(st, rest) = InForceOf(store[n], adding[n])
          /\ Firm(n, st, hash, rest) /\ IsPrefix(store[n], st)
      BY <1>f, <2>1, <2>2, <2>3, <2>6, FirmFinish
    <3>2. st \in Seq(Hash) /\ rest \in Seq(Write)
      BY <1>f, <2>1, <2>2, <2>3, FinishFits
    <3>. QED
      BY <3>1, <3>2 DEF InForce
  <2>8. \A c \in InForce(n) : c \in Hash /\ AllSettled(c)
    BY ForceTypes DEF ForceSettled
  <2>9. /\ \E ws \in Seq(Write) :
              /\ adding' = [adding EXCEPT ![n] = ws]
              /\ Firm(n, st, hash, ws)
              /\ InForce(n) \subseteq InForceOf(st, ws)
              /\ \A c \in InForceOf(st, ws) : c \in Hash /\ AllSettled(c)
        /\ UNCHANGED sync \/ (\A p \in Node : \A j \in DOMAIN sync'[p].queue :
                                  sync'[p].queue[j] \in Hash /\ AllSettled(sync'[p].queue[j]))
    <3>1. CASE ResumeSync(n, sync[n].queue, hash, rest)
      <4>1. \A j \in DOMAIN sync[n].queue : AllSettled(sync[n].queue[j])
        BY DEF QueuesSettled
      <4>2. sync[n].queue \in Seq(Hash)
        BY <1>f
      <4>3. /\ \E ws \in Seq(Write) :
                  /\ adding' = [adding EXCEPT ![n] = ws]
                  /\ Firm(n, st, hash, ws)
                  /\ InForce(n) \subseteq InForceOf(st, ws)
                  /\ \A c \in InForceOf(st, ws) : c \in Hash /\ AllSettled(c)
            /\ \A p \in Node : \A j \in DOMAIN sync'[p].queue :
                  sync'[p].queue[j] \in Hash /\ AllSettled(sync'[p].queue[j])
        BY <2>7, <3>1, <4>1, <4>2, ResumeSyncFollows
      <4>. QED
        BY <4>3
    <3>2. CASE adding' = [adding EXCEPT ![n] = rest] /\ UNCHANGED sync
      BY <2>7, <2>8, <3>2
    <3>. QED
      BY <2>4, <3>1, <3>2
  <2>10. PICK ws \in Seq(Write) :
              /\ adding' = [adding EXCEPT ![n] = ws]
              /\ Firm(n, st, hash, ws)
              /\ InForce(n) \subseteq InForceOf(st, ws)
              /\ \A c \in InForceOf(st, ws) : c \in Hash /\ AllSettled(c)
    BY <2>9
  <2>11. /\ NodesFirm' /\ Kept
         /\ (\A c \in InForceOf(st, ws) : c \in InForce(n) \/ AllSettled(c)') => ForceSettled'
    BY <2>4, <2>10, NodeReplaced
  <2>12. ForceSettled'
    <3>1. \A c \in Hash : AllSettled(c) => AllSettled(c)'
      BY <2>11, SettledKept
    <3>. QED
      BY <2>10, <2>11, <3>1
  <2>13. QueuesSettled'
    BY <2>9, <2>11, QueuesSettledFor, SettledParts
  <2>14. BlocksFollow'
    <3>1. HeldFollows(factory'[n], latest'[n])
      BY <2>4, <2>5 DEF HeldFollows, HasBlock, TypeOK
    <3>2. \A p \in Node : p # n => factory'[p] = factory[p] /\ latest'[p] = latest[p]
      BY <2>4 DEF TypeOK
    <3>3. \A p \in Node : HeldFollows(factory'[p], latest'[p])
      BY <1>f, <3>1, <3>2
    <3>. QED
      BY <3>3 DEF BlocksFollow
  <2>15. Grows
    <3>1. \A p \in Node : store'[p] = IF p = n THEN st ELSE store[p]
      BY <2>4 DEF TypeOK
    <3>2. \A p \in Node : IsPrefix(store[p], store[p])
      BY <1>f, LenProperties DEF IsPrefix
    <3>. QED
      BY <2>7, <3>1, <3>2
  <2>. QED
    BY <2>4, <2>11, <2>12, <2>13, <2>14, <2>15, SettledParts
<1>11. ASSUME NEW n \in Node, NEW q \in Node, ReceiveStatus(n, q) PROVE Follows /\ Grows
  <2>1. UNCHANGED <<adding, factory, msgs>> /\ UNCHANGED chainVars
    BY <1>11 DEF ReceiveStatus, netVars
  <2>2. \A p \in Node : sync'[p].queue = sync[p].queue \/ sync'[p].queue = <<>>
    <3>1. sync \in [Node -> SyncState]
      BY DEF TypeOK
    <3>2. \/ UNCHANGED sync
          \/ sync' = [sync EXCEPT ![n] = [phase |-> "fetch", height |-> Height(latest[n]),
                                         queue |-> <<>>]]
      BY <1>11 DEF ReceiveStatus
    <3>. QED
      BY <3>1, <3>2
  <2>3. \A p \in Node : \A i \in DOMAIN sync[p].queue :
            sync[p].queue[i] \in Hash /\ AllSettled(sync[p].queue[i])
    BY <1>f, LenProperties, ElementOfSeq DEF QueuesSettled
  <2>4. QueuesSettled'
    BY <1>k, <2>1, <2>2, <2>3, QueuesSettledFor
  <2>. QED
    BY <1>g, <1>k, <2>1, <2>4, BlocksKept, SettledParts
<1>12. ASSUME NEW n \in Node, NEW q \in Node, FetchSync(n, q) PROVE Follows /\ Grows
  <2>1. /\ ResumeSync(n, Answer(q, sync[n].height), latest[n], adding[n])
        /\ UNCHANGED <<factory, msgs>> /\ UNCHANGED chainVars
    BY <1>12 DEF FetchSync, netVars
  <2>2. sync[n].height \in Nat \ {0}
    BY <1>12, SyncTypes DEF FetchSync, TypeOK
  <2>3. Answer(q, sync[n].height) \in Seq(Hash)
    BY <2>2, AnswerType
  <2>4. \A i \in DOMAIN Answer(q, sync[n].height) : AllSettled(Answer(q, sync[n].height)[i])
    BY <2>2, AnswerSettled
  <2>5. /\ \E ws \in Seq(Write) :
              /\ adding' = [adding EXCEPT ![n] = ws]
              /\ Firm(n, store[n], latest[n], ws)
              /\ InForce(n) \subseteq InForceOf(store[n], ws)
              /\ \A c \in InForceOf(store[n], ws) : c \in Hash /\ AllSettled(c)
        /\ \A p \in Node : \A i \in DOMAIN sync'[p].queue :
              sync'[p].queue[i] \in Hash /\ AllSettled(sync'[p].queue[i])
    <3>1. InForceOf(store[n], adding[n]) = InForce(n)
      BY DEF InForce
    <3>. QED
      BY <1>f, <2>1, <2>3, <2>4, <3>1, ResumeSyncFollows
  <2>6. PICK ws \in Seq(Write) :
              /\ adding' = [adding EXCEPT ![n] = ws]
              /\ Firm(n, store[n], latest[n], ws)
              /\ InForce(n) \subseteq InForceOf(store[n], ws)
              /\ \A c \in InForceOf(store[n], ws) : c \in Hash /\ AllSettled(c)
    BY <2>5
  <2>7. latest' = [latest EXCEPT ![n] = latest[n]] /\ store' = [store EXCEPT ![n] = store[n]]
    BY <2>1 DEF TypeOK, chainVars
  <2>8. /\ NodesFirm' /\ Kept
        /\ (\A c \in InForceOf(store[n], ws) : c \in InForce(n) \/ AllSettled(c)') => ForceSettled'
    BY <2>6, <2>7, NodeReplaced
  <2>9. ForceSettled'
    <3>1. \A c \in Hash : AllSettled(c) => AllSettled(c)'
      BY <2>8, SettledKept
    <3>. QED
      BY <2>6, <2>8, <3>1
  <2>10. QueuesSettled'
    BY <2>5, <2>8, QueuesSettledFor
  <2>11. BlocksFollow'
    BY <2>1, BlocksKept
  <2>. QED
    BY <1>g, <2>1, <2>8, <2>9, <2>10, <2>11, SettledParts
<1>13. ASSUME NEW n \in Node, FetchFails(n) PROVE Follows /\ Grows
  <2>1. UNCHANGED <<adding, factory, msgs>> /\ UNCHANGED chainVars
    BY <1>13 DEF FetchFails, netVars
  <2>2. \A p \in Node : sync'[p].queue = sync[p].queue \/ sync'[p].queue = <<>>
    BY <1>13 DEF FetchFails, TypeOK, SyncIdle
  <2>3. \A p \in Node : \A i \in DOMAIN sync[p].queue :
            sync[p].queue[i] \in Hash /\ AllSettled(sync[p].queue[i])
    BY <1>f, LenProperties, ElementOfSeq DEF QueuesSettled
  <2>4. QueuesSettled'
    BY <1>k, <2>1, <2>2, <2>3, QueuesSettledFor
  <2>. QED
    BY <1>g, <1>k, <2>1, <2>4, BlocksKept, SettledParts
<1>14. \A n, p \in Node : ~GoOffline(n, p) /\ ~Crash(n)
  BY DEF Steady, GoOffline, Crash
<1>15. Follows /\ Grows
  BY <1>s, <1>0, <1>1, <1>2, <1>3, <1>4, <1>5, <1>6, <1>7, <1>8, <1>9, <1>10, <1>11, <1>12,
     <1>13, <1>14 DEF Next, vars
<1>. QED
  BY <1>t, <1>15

LEMMA SteadyInit ==
    ASSUME Steady, Init PROVE SteadyInv
<1>1. TypeOK /\ Fits
  BY InitFits
<1>2. SeesAll
  BY DEF Init, SeesAll, Steady
<1>3. \A n \in Node : store[n] = <<>> /\ adding[n] = <<>>
  BY DEF Init
<1>4. \A n \in Node : InForceOf(store[n], adding[n]) = {}
  BY <1>3 DEF InForceOf, Range
<1>5. NodesFirm /\ ForceSettled
  BY <1>4 DEF NodesFirm, Firm, ForceSettled, InForce
<1>6. BlocksFollow
  BY DEF Init, BlocksFollow, HeldFollows, HasBlock, EmptyFactory, NoBlock
<1>7. QueuesSettled /\ ConfirmsSettled
  BY DEF Init, QueuesSettled, ConfirmsSettled, SyncIdle
<1>. QED
  BY <1>1, <1>2, <1>5, <1>6, <1>7 DEF SteadyInv

\* Of two chains of which all is settled the one is a beginning of the other.
LEMMA SettledPrefixes ==
    ASSUME SteadyInv, NEW c \in Hash, NEW d \in Hash, AllSettled(c), AllSettled(d),
           Len(c) <= Len(d)
    PROVE  IsPrefix(c, d)
<1>. DEFINE k == Len(c)
            e == SubSeq(d, 1, k)
<1>1. k \in Nat /\ Len(d) \in Nat /\ SubSeq(c, 1, k) = c
  BY LenProperties, SubSeqFull DEF Hash
<1>2. CASE k = 0
  <2>1. SubSeq(c, 1, 0) = <<>> /\ SubSeq(d, 1, 0) = <<>>
    BY SubSeqEmpty
  <2>. QED
    BY <1>2, <2>1 DEF IsPrefix
<1>3. CASE k # 0
  <2>1. k \in 1..Len(c) /\ k \in 1..Len(d)
    BY <1>1, <1>3
  <2>2. Settled(SubSeq(c, 1, k)) /\ Settled(e)
    BY <2>1 DEF AllSettled
  <2>3. e \in Hash /\ Len(e) = k
    BY <2>1, Beginnings
  <2>. HIDE DEF e
  <2>4. c = e
    BY <1>1, <2>2, <2>3, SettledOnce
  <2>. QED
    BY <1>1, <2>4 DEF IsPrefix, e
<1>. QED
  BY <1>2, <1>3

\* What a node has, up to its latest block and beyond it, is settled.
LEMMA ChainsAreSettled ==
    ASSUME SteadyInv, NEW n \in Node, NEW c \in Chains(n)
    PROVE  c \in Hash /\ Len(c) \in Nat /\ AllSettled(c)
<1>1. c = latest[n] \/ c \in InForce(n)
  BY DEF Chains, InForce, InForceOf
<1>2. c \in Hash /\ AllSettled(c)
  BY <1>1, ForceTypes, LatestSettled DEF SteadyInv, ForceSettled
<1>. QED
  BY <1>2, LenProperties DEF Hash

LEMMA SettledChainsAgree ==
    ASSUME SteadyInv PROVE Agreement
<1>1. ASSUME NEW n \in Node, NEW p \in Node, NEW c \in Chains(n), NEW d \in Chains(p)
      PROVE  IsPrefix(c, d) \/ IsPrefix(d, c)
  <2>1. /\ c \in Hash /\ Len(c) \in Nat /\ AllSettled(c)
        /\ d \in Hash /\ Len(d) \in Nat /\ AllSettled(d)
    BY ChainsAreSettled
  <2>2. Len(c) <= Len(d) \/ Len(d) <= Len(c)
    BY <2>1
  <2>. QED
    BY <2>1, <2>2, SettledPrefixes
<1>. QED
  BY <1>1 DEF Agreement

\* Where everybody sees everybody and nobody crashes, the chains of all nodes
\* are equal as far as they go, although a validator may propose several blocks
\* for one height, everybody votes for all of them, votes and confirmations
\* come late and repeatedly, blocks are fetched from peers in between, and a
\* call of add() that is overtaken takes its node back in height.
THEOREM ChainsAgree ==
    ASSUME Steady PROVE Spec => []Agreement
<1>1. Init => SteadyInv
  BY SteadyInit
<1>2. SteadyInv /\ [Next]_vars => SteadyInv'
  BY SteadyStep
<1>3. SteadyInv => Agreement
  BY SettledChainsAgree
<1>. QED
  BY <1>1, <1>2, <1>3, PTL DEF Spec

\* There no node ever replaces or loses a block of its store, although add()
\* checks the height and the previous hash before it waits and not again, and
\* updateCache puts whatever block its call was started for.
THEOREM StoredBlocksStay ==
    ASSUME Steady PROVE Spec => NeverReverts
<1>1. Init => SteadyInv
  BY SteadyInit
<1>2. SteadyInv /\ [Next]_vars => SteadyInv'
  BY SteadyStep
<1>3. SteadyInv /\ [Next]_vars => [\A n \in Node : IsPrefix(store[n], store'[n])]_vars
  BY SteadyStep
<1>. QED
  BY <1>1, <1>2, <1>3, PTL DEF Spec, NeverReverts
=============================================================================
