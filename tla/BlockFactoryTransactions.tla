---------------------- MODULE BlockFactoryTransactions ----------------------
(***************************************************************************)
(* Theorems about the way of a transaction: from the stack through the own *)
(* transaction and the pool of the validator into a block of the ledger.   *)
(***************************************************************************)
EXTENDS BlockFactoryAgreement

-----------------------------------------------------------------------------
(* The pool and the proposal timer.                                         *)

\* What PoolFresh says of the fields f of a node with this chain.
PoolFor(f, chain) ==
    /\ "propose" \in f.timer => f.pool # {}
    /\ \A tx \in f.pool : tx.height = Height(chain) + 1

\* clear() and a start leave no pool and no proposal timer.
LEMMA ClearPool ==
    ASSUME NEW f \in Factory, NEW txs, NEW chain
    PROVE  /\ PoolFor(Clear(f, txs), chain)
           /\ PoolFor(Arm(Clear(f, txs), "addTx"), chain)
           /\ PoolFor(EmptyFactory, chain)
<1>1. Clear(f, txs).pool = {} /\ Clear(f, txs).timer = {}
  BY DEF Clear, ClearedWith
<1>2. Arm(Clear(f, txs), "addTx").pool = {} /\ Arm(Clear(f, txs), "addTx").timer = {"addTx"}
  BY DEF Clear, ClearedWith, Arm
<1>. QED
  BY <1>1, <1>2 DEF PoolFor, EmptyFactory

\* The other methods add to the pool what is for the next height, and set the
\* proposal timer only with it.
LEMMA MethodsPool ==
    ASSUME NEW f \in Factory, NEW chain, PoolFor(f, chain)
    PROVE  /\ \A c \in Cmd : PoolFor(Push(f, c), chain)
           /\ \A t \in Timer : PoolFor(Disarm(f, t), chain)
           /\ PoolFor(SetupRetry(f), chain)
           /\ \A hash, votes : PoolFor(WithBlock(f, hash, votes), chain)
           /\ \A tx \in Tx : PoolFor(ProcessAddTx(f, tx, chain), chain)
<1>1. ASSUME NEW c \in Cmd PROVE PoolFor(Push(f, c), chain)
  BY DEF Push, PoolFor, Factory
<1>2. ASSUME NEW t \in Timer PROVE PoolFor(Disarm(f, t), chain)
  BY DEF Disarm, PoolFor, Factory
<1>3. PoolFor(SetupRetry(f), chain)
  BY DEF SetupRetry, Arm, PoolFor, Factory
<1>4. ASSUME NEW hash, NEW votes PROVE PoolFor(WithBlock(f, hash, votes), chain)
  BY DEF WithBlock, PoolFor, Factory
<1>5. ASSUME NEW tx \in Tx, PoolTakes(f, tx, chain)
      PROVE  PoolFor(ProcessAddTx(f, tx, chain), chain)
  <2>1. ProcessAddTx(f, tx, chain).pool = f.pool \cup {tx}
    BY <1>5 DEF ProcessAddTx, Arm, Factory
  <2>2. tx.height = Height(chain) + 1
    BY <1>5 DEF PoolTakes
  <2>. QED
    BY <2>1, <2>2 DEF PoolFor
<1>6. ASSUME NEW tx \in Tx, ~PoolTakes(f, tx, chain)
      PROVE  PoolFor(ProcessAddTx(f, tx, chain), chain)
  BY <1>6 DEF ProcessAddTx
<1>. QED
  BY <1>1, <1>2, <1>3, <1>4, <1>5, <1>6

\* What doAddTx, called with the fields f, makes of them: g.  Without a stacked
\* command, or with a transaction out, nothing; else the oldest command is
\* signed for the next height, and goes to the pool or out in an AddTx.
NextTx(f, chain) == [cmd |-> Head(f.stack), height |-> Height(chain) + 1]

Signing(f, g, chain) ==
    /\ ~HasOwnTx(f) /\ f.stack # <<>>
    /\ NextTx(f, chain) \in Tx
    /\ g.ownTx = NextTx(f, chain) /\ g.stack = Tail(f.stack)
    /\ g.pool \in {f.pool, f.pool \cup {NextTx(f, chain)}}

LEMMA DoAddTxEffect ==
    ASSUME TypeOK, NEW n \in Node, NEW f \in Factory, DoAddTx(n, f)
    PROVE  \E g \in Factory :
              /\ factory' = [factory EXCEPT ![n] = g]
              /\ PoolFor(f, latest[n]) => PoolFor(g, latest[n])
              /\ \/ g = f /\ UNCHANGED msgs
                 \/ /\ Signing(f, g, latest[n])
                    /\ \/ UNCHANGED msgs
                       \/ \E m : /\ msgs' = msgs \cup {m} /\ m.type = "AddTx" /\ m.origin = n
                                 /\ m.tx = NextTx(f, latest[n])
<1>. DEFINE tx == NextTx(f, latest[n])
            g == [f EXCEPT !.stack = Tail(@), !.ownTx = tx]
            p == ProcessAddTx(g, tx, latest[n])
<1>1. CASE HasOwnTx(f) \/ f.stack = <<>>
  BY <1>1 DEF DoAddTx, Quiet
<1>2. CASE ~HasOwnTx(f) /\ f.stack # <<>>
  <2>1. f.stack \in Seq(Cmd) /\ latest[n] \in Seq(SUBSET Tx)
    BY DEF Factory, TypeOK, Hash
  <2>2. Head(f.stack) \in Cmd /\ Tail(f.stack) \in Seq(Cmd) /\ Len(latest[n]) \in Nat
    BY <1>2, <2>1, LenProperties
  <2>3. tx \in Tx
    BY <2>2 DEF Tx, Height, NextTx
  <2>4. /\ g \in Factory /\ g.ownTx = tx /\ g.stack = Tail(f.stack)
        /\ g.pool = f.pool /\ g.timer = f.timer
    BY <2>2, <2>3 DEF Factory
  <2>. HIDE DEF g
  <2>5. p \in Factory /\ SetupRetry(g) \in Factory /\ SetupRetry(p) \in Factory
    BY <2>3, <2>4, ProcessAddTxType, FieldTypes
  <2>6. p.ownTx = tx /\ p.stack = Tail(f.stack) /\ p.pool \in {f.pool, f.pool \cup {tx}}
    BY <2>4 DEF ProcessAddTx, Arm, Factory
  <2>7. PoolFor(f, latest[n]) =>
            PoolFor(SetupRetry(g), latest[n]) /\ PoolFor(SetupRetry(p), latest[n])
    <3>1. PoolFor(f, latest[n]) => PoolFor(g, latest[n])
      BY <2>4 DEF PoolFor
    <3>2. PoolFor(g, latest[n]) => PoolFor(p, latest[n])
      BY <2>3, <2>4, MethodsPool
    <3>. QED
      BY <2>4, <2>5, <3>1, <3>2, MethodsPool
  <2>. HIDE DEF p
  <2>8. Signing(f, SetupRetry(g), latest[n]) /\ Signing(f, SetupRetry(p), latest[n])
    <3>1. ASSUME NEW h \in Factory
          PROVE  /\ SetupRetry(h).ownTx = h.ownTx /\ SetupRetry(h).stack = h.stack
                 /\ SetupRetry(h).pool = h.pool
      BY DEF SetupRetry, Arm, Factory
    <3>2. /\ SetupRetry(g).ownTx = tx /\ SetupRetry(g).stack = Tail(f.stack)
          /\ SetupRetry(g).pool = f.pool
      BY <2>4, <3>1
    <3>3. /\ SetupRetry(p).ownTx = tx /\ SetupRetry(p).stack = Tail(f.stack)
          /\ SetupRetry(p).pool \in {f.pool, f.pool \cup {tx}}
      BY <2>5, <2>6, <3>1
    <3>. QED
      BY <1>2, <2>3, <3>2, <3>3 DEF Signing
  <2>9. \/ factory' = [factory EXCEPT ![n] = SetupRetry(p)] /\ UNCHANGED msgs
        \/ /\ factory' = [factory EXCEPT ![n] = SetupRetry(g)]
           /\ msgs' = msgs \cup {[type |-> "AddTx", origin |-> n,
                                  seq |-> NextSeq(n, "AddTx"), tx |-> tx]}
    BY <1>2 DEF DoAddTx, Quiet, Broadcast, NextTx, p, g
  <2>. QED
    BY <2>5, <2>7, <2>8, <2>9
<1>. QED
  BY <1>1, <1>2

\* Every callback keeps the pool of every node for the next height.
LEMMA PoolStep ==
    ASSUME TypeOK, PoolFresh, [Next]_vars
    PROVE  PoolFresh'
<1>p. PoolFresh' <=> \A n \in Node : PoolFor(factory'[n], latest'[n])
  BY DEF PoolFresh, PoolFor, Height
<1>f. \A n \in Node : factory[n] \in Factory /\ PoolFor(factory[n], latest[n])
  BY DEF TypeOK, PoolFresh, PoolFor
<1>s. ASSUME NEW n \in Node, NEW g, NEW chain, factory' = [factory EXCEPT ![n] = g],
             latest' = [latest EXCEPT ![n] = chain], PoolFor(g, chain)
      PROVE  PoolFresh'
  <2>1. ASSUME NEW p \in Node PROVE PoolFor(factory'[p], latest'[p])
    BY <1>f, <1>s DEF TypeOK
  <2>. QED
    BY <1>p, <2>1
<1>l. ASSUME NEW n \in Node, NEW g, factory' = [factory EXCEPT ![n] = g], UNCHANGED latest,
             PoolFor(g, latest[n])
      PROVE  PoolFresh'
  <2>1. latest' = [latest EXCEPT ![n] = latest[n]]
    BY <1>l DEF TypeOK
  <2>. QED
    BY <1>l, <1>s, <2>1
<1>a. ASSUME NEW n \in Node, NEW f \in Factory, DoAddTx(n, f), UNCHANGED latest,
             PoolFor(f, latest[n])
      PROVE  PoolFresh'
  BY <1>a, <1>l, DoAddTxEffect
<1>0. CASE UNCHANGED <<factory, latest>>
  BY <1>0, <1>f, <1>p
<1>1. ASSUME NEW c \in Cmd, Submit(c) PROVE PoolFresh'
  <2>1. Home[c] \in Node
    BY HomeAssumption
  <2>2. Push(factory[Home[c]], c) \in Factory /\ PoolFor(Push(factory[Home[c]], c), latest[Home[c]])
    BY <1>f, <2>1, FieldTypes, MethodsPool
  <2>. QED
    BY <1>1, <1>a, <2>1, <2>2 DEF Submit, chainVars
<1>2. ASSUME NEW n \in Node, AddTxTimer(n) PROVE PoolFresh'
  <2>1. Disarm(factory[n], "addTx") \in Factory /\ PoolFor(Disarm(factory[n], "addTx"), latest[n])
    BY <1>f, FieldTypes, MethodsPool DEF Timer
  <2>. QED
    BY <1>2, <1>a, <2>1 DEF AddTxTimer, chainVars
<1>3. ASSUME NEW n \in Node, ProposeTimer(n) PROVE PoolFresh'
  <2>. DEFINE f == Disarm(factory[n], "propose")
  <2>1. f \in Factory /\ PoolFor(f, latest[n])
    BY <1>f, FieldTypes, MethodsPool DEF Timer
  <2>2. factory' = [factory EXCEPT ![n] = WithBlock(f, Append(latest[n], factory[n].pool), {n})]
        /\ UNCHANGED latest
    BY <1>3 DEF ProposeTimer, chainVars
  <2>. HIDE DEF f
  <2>3. PoolFor(WithBlock(f, Append(latest[n], factory[n].pool), {n}), latest[n])
    BY <2>1, MethodsPool
  <2>. QED
    BY <1>l, <2>2, <2>3
<1>4. ASSUME NEW n \in Node, RetryTimer(n) PROVE PoolFresh'
  <2>1. Clear(factory[n], {}) \in Factory /\ PoolFor(Clear(factory[n], {}), latest[n])
    BY <1>f, ClearType, ClearPool
  <2>. QED
    BY <1>4, <1>a, <2>1 DEF RetryTimer, chainVars
<1>5. ASSUME NEW n \in Node, NEW m \in msgs, NEW view, ReceiveAddTx(n, view, m) PROVE PoolFresh'
  <2>1. m.tx \in Tx
    BY <1>5, MessageType DEF ReceiveAddTx, TypeOK
  <2>2. PoolFor(ProcessAddTx(factory[n], m.tx, latest[n]), latest[n])
    BY <1>f, <2>1, MethodsPool
  <2>. QED
    BY <1>5, <1>l, <2>2 DEF ReceiveAddTx, Receive, chainVars
<1>6. ASSUME NEW n \in Node, NEW m \in msgs, NEW view,
             \/ ReceiveProposeBlock(n, view, m) \/ ReceiveSignBlock(n, view, m)
             \/ ReceiveConfirmBlock(n, view, m)
      PROVE  PoolFresh'
  <2>1. /\ UNCHANGED latest
        /\ \E hash \in Hash, votes \in SUBSET Node :
              LET g == WithBlock(factory[n], hash, votes)
              IN  factory' = [factory EXCEPT ![n] = g] \/ factory' = [factory EXCEPT ![n] = SetupRetry(g)]
    <3>1. m \in Message
      BY DEF TypeOK
    <3>2. factory[n].block.hash \in Hash /\ factory[n].block.votes \in SUBSET Node
      BY <1>f DEF Factory, Block
    <3>3. m.origin \in Node
      BY <3>1, MessageType
    <3>4. CASE ReceiveProposeBlock(n, view, m)
      BY <3>1, <3>3, <3>4, MessageType DEF ReceiveProposeBlock, Receive, chainVars
    <3>5. CASE ReceiveSignBlock(n, view, m)
      BY <3>2, <3>3, <3>5 DEF ReceiveSignBlock, Receive, chainVars
    <3>6. CASE ReceiveConfirmBlock(n, view, m)
      BY <3>1, <3>6, MessageType DEF ReceiveConfirmBlock, Receive, chainVars
    <3>. QED
      BY <1>6, <3>4, <3>5, <3>6
  <2>2. ASSUME NEW hash \in Hash, NEW votes \in SUBSET Node
        PROVE  /\ PoolFor(WithBlock(factory[n], hash, votes), latest[n])
               /\ PoolFor(SetupRetry(WithBlock(factory[n], hash, votes)), latest[n])
    BY <1>f, FieldTypes, MethodsPool
  <2>. QED
    BY <1>l, <2>1, <2>2
<1>7. ASSUME NEW n \in Node, NEW i \in DOMAIN adding[n], FinishAdd(n, i) PROVE PoolFresh'
  BY <1>7, <1>f, <1>s, ClearPool DEF FinishAdd
<1>8. ASSUME NEW n \in Node, Crash(n) PROVE PoolFresh'
  <2>1. PICK hash : latest' = [latest EXCEPT ![n] = hash]
    BY <1>8 DEF Crash
  <2>2. factory' = [factory EXCEPT ![n] = EmptyFactory]
    BY <1>8 DEF Crash
  <2>. QED
    BY <1>f, <1>s, <2>1, <2>2, ClearPool
<1>9. ASSUME NEW n \in Node, NEW m \in msgs, NEW view, Ignore(n, view, m) PROVE PoolFresh'
  BY <1>0, <1>9 DEF Ignore, Receive, chainVars
<1>10. ASSUME NEW n \in Node, NEW q \in Node,
              ReceiveStatus(n, q) \/ FetchSync(n, q) \/ FetchFails(n) \/ GoOffline(n, q)
       PROVE  PoolFresh'
  BY <1>0, <1>10 DEF ReceiveStatus, FetchSync, FetchFails, GoOffline, chainVars
<1>. QED
  BY <1>0, <1>1, <1>2, <1>3, <1>4, <1>5, <1>6, <1>7, <1>8, <1>9, <1>10 DEF Next, vars

\* Whatever fails, a proposal timer that goes off finds a pool, and one for
\* the block after the latest: the callback may use both unchecked.
THEOREM PoolIsFresh == Spec => []PoolFresh
<1>1. Init => TypeOK /\ Fits /\ PoolFresh
  <2>1. Init => TypeOK /\ Fits
    BY InitFits
  <2>. QED
    BY <2>1 DEF Init, PoolFresh, EmptyFactory
<1>2. TypeOK /\ Fits /\ PoolFresh /\ [Next]_vars => TypeOK' /\ Fits' /\ PoolFresh'
  BY TypeStep, FitsStep, PoolStep
<1>. QED
  BY <1>1, <1>2, PTL DEF Spec

-----------------------------------------------------------------------------
(* What a step does to the transactions that are not on a chain yet.        *)

SameTxs(f, g) == g.stack = f.stack /\ g.ownTx = f.ownTx /\ g.pool = f.pool

\* The callback touches no stack, no own transaction, no pool and no chain, and
\* sends no AddTx.
NoTxMoves ==
    /\ UNCHANGED <<chainVars, submitted>>
    /\ \A n \in Node : SameTxs(factory[n], factory'[n])
    /\ \A m \in msgs' : m \in msgs \/ m.type # "AddTx"

\* What doAddTx is called with: new commands, a timer less, or a new round.
Prepared(n, f) ==
    \/ \E c \in Cmd : /\ n = Home[c] /\ c \notin submitted
                      /\ f = Push(factory[n], c) /\ submitted' = submitted \cup {c}
    \/ f = Disarm(factory[n], "addTx") /\ UNCHANGED submitted
    \/ f = Clear(factory[n], {}) /\ UNCHANGED submitted

\* The fields after one of the other methods.
LEMMA MethodsKeepTxs ==
    ASSUME NEW f \in Factory
    PROVE  /\ SameTxs(f, f)
           /\ \A t : SameTxs(f, Arm(f, t)) /\ SameTxs(f, Disarm(f, t))
           /\ \A hash, votes : /\ SameTxs(f, WithBlock(f, hash, votes))
                               /\ SameTxs(f, SetupRetry(WithBlock(f, hash, votes)))
                               /\ \A t : SameTxs(f, WithBlock(Disarm(f, t), hash, votes))
BY DEF SameTxs, Arm, Disarm, WithBlock, SetupRetry, Factory

LEMMA TxStep ==
    ASSUME TypeOK, [Next]_vars
    PROVE  \/ NoTxMoves
           \/ \E n \in Node, f \in Factory :
                  Prepared(n, f) /\ DoAddTx(n, f) /\ UNCHANGED <<chainVars, adding>>
           \/ \E n \in Node, m \in msgs : \E view : ReceiveAddTx(n, view, m)
           \/ \E n \in Node : \E i \in DOMAIN adding[n] : FinishAdd(n, i)
           \/ \E n \in Node : Crash(n)
<1>. DEFINE Signed == \E n \in Node, f \in Factory :
                          Prepared(n, f) /\ DoAddTx(n, f) /\ UNCHANGED <<chainVars, adding>>
<1>f. \A n \in Node : factory[n] \in Factory
  BY DEF TypeOK
<1>s. ASSUME NEW n \in Node, NEW g, factory' = [factory EXCEPT ![n] = g],
             SameTxs(factory[n], g), UNCHANGED <<chainVars, submitted>>,
             UNCHANGED msgs \/ (\E m : Broadcast(m) /\ m.type # "AddTx")
      PROVE  NoTxMoves
  <2>1. \A p \in Node : SameTxs(factory[p], factory'[p])
    BY <1>s, <1>f, MethodsKeepTxs DEF TypeOK
  <2>. QED
    BY <1>s, <2>1 DEF NoTxMoves, Broadcast
<1>0. ASSUME UNCHANGED <<chainVars, submitted, factory, msgs>> PROVE NoTxMoves
  BY <1>0, <1>f, MethodsKeepTxs DEF NoTxMoves
<1>1. ASSUME NEW c \in Cmd, Submit(c) PROVE Signed
  <2>1. Home[c] \in Node
    BY HomeAssumption
  <2>2. Push(factory[Home[c]], c) \in Factory
    BY <1>f, <2>1, FieldTypes
  <2>3. Prepared(Home[c], Push(factory[Home[c]], c))
    BY <1>1 DEF Submit, Prepared
  <2>. QED
    BY <1>1, <2>1, <2>2, <2>3 DEF Submit
<1>2. ASSUME NEW n \in Node, AddTxTimer(n) PROVE Signed
  <2>1. Disarm(factory[n], "addTx") \in Factory
    BY <1>f, FieldTypes DEF Timer
  <2>. QED
    BY <1>2, <2>1 DEF AddTxTimer, Prepared
<1>3. ASSUME NEW n \in Node, ProposeTimer(n) PROVE NoTxMoves
  <2>1. /\ factory' = [factory EXCEPT ![n] = WithBlock(Disarm(factory[n], "propose"),
                                                    Append(latest[n], factory[n].pool), {n})]
        /\ UNCHANGED <<chainVars, submitted>>
        /\ \E m : Broadcast(m) /\ m.type # "AddTx"
    BY <1>3 DEF ProposeTimer
  <2>. QED
    BY <1>f, <1>s, <2>1, MethodsKeepTxs
<1>4. ASSUME NEW n \in Node, RetryTimer(n) PROVE Signed
  <2>1. Clear(factory[n], {}) \in Factory
    BY <1>f, ClearType
  <2>. QED
    BY <1>4, <2>1 DEF RetryTimer, Prepared
<1>5. ASSUME NEW n \in Node, NEW m \in msgs, NEW view, ReceiveProposeBlock(n, view, m)
      PROVE  NoTxMoves
  <2>1. /\ factory' = [factory EXCEPT ![n] = SetupRetry(WithBlock(factory[n], m.hash, {m.origin}))]
        /\ UNCHANGED <<chainVars, submitted>>
        /\ \E k : Broadcast(k) /\ k.type # "AddTx"
    BY <1>5 DEF ReceiveProposeBlock, Receive
  <2>. QED
    BY <1>f, <1>s, <2>1, MethodsKeepTxs
<1>6. ASSUME NEW n \in Node, NEW m \in msgs, NEW view, ReceiveSignBlock(n, view, m)
      PROVE  NoTxMoves
  <2>1. /\ factory' = [factory EXCEPT ![n] = WithBlock(factory[n], factory[n].block.hash,
                                                    factory[n].block.votes \cup {m.origin})]
        /\ UNCHANGED <<chainVars, submitted>>
        /\ UNCHANGED msgs \/ (\E k : Broadcast(k) /\ k.type # "AddTx")
    BY <1>6 DEF ReceiveSignBlock, Receive, Quiet
  <2>. QED
    BY <1>f, <1>s, <2>1, MethodsKeepTxs
<1>7. ASSUME NEW n \in Node, NEW m \in msgs, NEW view, ReceiveConfirmBlock(n, view, m)
      PROVE  NoTxMoves
  <2>1. /\ factory' = [factory EXCEPT ![n] = WithBlock(factory[n], m.hash, m.votes)]
        /\ UNCHANGED <<chainVars, submitted, msgs>>
    BY <1>7 DEF ReceiveConfirmBlock, Receive, Quiet
  <2>. QED
    BY <1>f, <1>s, <2>1, MethodsKeepTxs
<1>8. ASSUME NEW n \in Node, NEW m \in msgs, NEW view, Ignore(n, view, m) PROVE NoTxMoves
  BY <1>0, <1>8 DEF Ignore, Receive, Quiet
<1>9. ASSUME NEW n \in Node, NEW q \in Node,
             ReceiveStatus(n, q) \/ FetchSync(n, q) \/ FetchFails(n) \/ GoOffline(n, q)
      PROVE  NoTxMoves
  BY <1>0, <1>9 DEF ReceiveStatus, FetchSync, FetchFails, GoOffline, netVars
<1>. QED
  BY <1>0, <1>1, <1>2, <1>3, <1>4, <1>5, <1>6, <1>7, <1>8, <1>9 DEF Next, vars, chainVars

-----------------------------------------------------------------------------
(* One transaction per round.  A node that has signed commands for the next *)
(* block has them as its own transaction, or first on the stack: clear()    *)
(* puts them back there, so that they are signed again and nothing else is. *)

StacksAtHome ==
    \A n \in Node :
        /\ \A c \in Range(factory[n].stack) : Home[c] = n
        /\ HasOwnTx(factory[n]) => /\ Home[factory[n].ownTx.cmd] = n
                                   /\ factory[n].ownTx.height = Height(latest[n]) + 1

AddTxFromHome == \A m \in msgs : m.type = "AddTx" => Origin(m.tx) = m.origin

WritesValid == \A n \in Node : \A i \in DOMAIN adding[n] : ValidCandidate(adding[n][i].hash)

\* tx, signed by the node with the fields f, is for a block of the chain, or it
\* is what the node would sign next.
Signable(tx, f, chain) ==
    /\ tx.height <= Height(chain) + 1
    /\ tx.height = Height(chain) + 1 =>
          IF HasOwnTx(f) THEN tx = f.ownTx
                         ELSE f.stack # <<>> /\ tx.cmd = Head(f.stack)

\* The nodes that neither crash nor have gone back in height.
Onward == Node \ (MayCrash \cup lowered)

SignedOnce ==
    \A n \in Onward :
        /\ \A tx \in SignedTx(n) : Signable(tx, factory[n], latest[n])
        /\ OneTx(n)

RoundInv == TypeOK /\ Fits /\ WritesValid /\ StacksAtHome /\ AddTxFromHome /\ SignedOnce

\* Only valid blocks are on their way to the store.
LEMMA ValidStep ==
    ASSUME TypeOK, Fits, WritesValid, [Next]_vars
    PROVE  WritesValid'
<1>a. \A n \in Node : adding[n] \in Seq(Write)
  BY DEF TypeOK
<1>s. ASSUME NEW n \in Node, NEW ws, adding' = [adding EXCEPT ![n] = ws],
             \A i \in DOMAIN ws : ValidCandidate(ws[i].hash)
      PROVE  WritesValid'
  BY <1>s DEF WritesValid, TypeOK
<1>p. ASSUME NEW ws \in Seq(Write), NEW w, NEW hash \in Hash, NEW b \in BOOLEAN,
             \A i \in DOMAIN ws : ValidCandidate(ws[i].hash), ValidCandidate(hash),
             w = [hash |-> hash, sync |-> b]
      PROVE  \A i \in DOMAIN Append(ws, w) : ValidCandidate(Append(ws, w)[i].hash)
  <2>1. w \in Write /\ w.hash = hash
    BY <1>p DEF Write
  <2>2. Len(ws) \in Nat /\ DOMAIN ws = 1..Len(ws)
    BY LenProperties
  <2>3. /\ DOMAIN Append(ws, w) = 1..(Len(ws) + 1) /\ Append(ws, w)[Len(ws) + 1] = w
        /\ \A i \in 1..Len(ws) : Append(ws, w)[i] = ws[i]
    BY <2>1, <2>2, AppendProperties
  <2>. QED
    BY <1>p, <2>1, <2>2, <2>3
<1>r. ASSUME NEW n \in Node, NEW queue \in Seq(Hash), NEW chain, NEW pending \in Seq(Write),
             \A i \in DOMAIN pending : ValidCandidate(pending[i].hash),
             ResumeSync(n, queue, chain, pending)
      PROVE  WritesValid'
  <2>1. CASE adding' = [adding EXCEPT ![n] = pending]
    BY <1>r, <1>s, <2>1
  <2>2. ASSUME NEW i \in DOMAIN queue, Addable(queue[i], chain),
               adding' = [adding EXCEPT ![n] = Append(pending, [hash |-> queue[i], sync |-> TRUE])]
        PROVE  WritesValid'
    <3>1. queue[i] \in Hash /\ ValidCandidate(queue[i])
      BY <2>2, LenProperties, ElementOfSeq DEF Addable
    <3>2. \A j \in DOMAIN Append(pending, [hash |-> queue[i], sync |-> TRUE]) :
              ValidCandidate(Append(pending, [hash |-> queue[i], sync |-> TRUE])[j].hash)
      BY <1>r, <1>p, <3>1
    <3>. QED
      BY <1>s, <2>2, <3>2
  <2>. QED
    BY <1>r, <2>1, <2>2 DEF ResumeSync
<1>t. ASSUME NEW n \in Node, NEW hash \in Hash, NEW votes, StartAdd(n, hash, votes)
      PROVE  WritesValid'
  <2>1. CASE UNCHANGED adding
    BY <2>1 DEF WritesValid
  <2>2. CASE /\ Addable(hash, latest[n])
             /\ adding' = [adding EXCEPT ![n] = Append(adding[n], [hash |-> hash, sync |-> FALSE])]
    <3>1. \A i \in DOMAIN adding[n] : ValidCandidate(adding[n][i].hash)
      BY DEF WritesValid
    <3>2. \A j \in DOMAIN Append(adding[n], [hash |-> hash, sync |-> FALSE]) :
              ValidCandidate(Append(adding[n], [hash |-> hash, sync |-> FALSE])[j].hash)
      BY <1>a, <1>p, <2>2, <3>1 DEF Addable
    <3>. QED
      BY <1>s, <2>2, <3>2
  <2>. QED
    BY <1>t, <2>1, <2>2 DEF StartAdd
<1>0. CASE UNCHANGED adding
  BY <1>0 DEF WritesValid
<1>1. ASSUME NEW n \in Node, NEW m \in msgs, NEW view, ReceiveSignBlock(n, view, m)
      PROVE  WritesValid'
  <2>1. factory[n].block.hash \in Hash
    BY DEF TypeOK, Factory, Block
  <2>2. \/ UNCHANGED adding
        \/ StartAdd(n, factory[n].block.hash, factory[n].block.votes \cup {m.origin})
    BY <1>1 DEF ReceiveSignBlock
  <2>. QED
    BY <1>0, <1>t, <2>1, <2>2
<1>2. ASSUME NEW n \in Node, NEW m \in msgs, NEW view, ReceiveConfirmBlock(n, view, m)
      PROVE  WritesValid'
  <2>1. m.hash \in Hash
    BY <1>2, MessageType DEF ReceiveConfirmBlock, TypeOK
  <2>. QED
    BY <1>2, <1>t, <2>1 DEF ReceiveConfirmBlock
<1>3. ASSUME NEW n \in Node, NEW i \in DOMAIN adding[n], FinishAdd(n, i) PROVE WritesValid'
  <2>1. PICK rest : rest = RemoveAt(adding[n], i)
    OBVIOUS
  <2>2. /\ rest \in Seq(Write)
        /\ \A j \in DOMAIN rest : \E k \in DOMAIN adding[n] : rest[j] = adding[n][k]
    BY <1>a, <2>1, Removed
  <2>3. sync[n].queue \in Seq(Hash)
    BY SyncTypes DEF TypeOK
  <2>4. \/ \E chain : ResumeSync(n, sync[n].queue, chain, rest)
        \/ adding' = [adding EXCEPT ![n] = rest]
    BY <1>3, <2>1 DEF FinishAdd
  <2>5. \A j \in DOMAIN rest : ValidCandidate(rest[j].hash)
    BY <2>2 DEF WritesValid
  <2>. QED
    BY <1>r, <1>s, <2>2, <2>3, <2>4, <2>5
<1>4. ASSUME NEW n \in Node, NEW q \in Node, FetchSync(n, q) PROVE WritesValid'
  <2>1. ResumeSync(n, Answer(q, sync[n].height), latest[n], adding[n])
    BY <1>4 DEF FetchSync
  <2>2. sync[n].height \in Nat \ {0}
    BY <1>4, SyncTypes DEF TypeOK, FetchSync
  <2>3. Answer(q, sync[n].height) \in Seq(Hash)
    BY <2>2, AnswerType
  <2>. QED
    BY <1>a, <1>r, <2>1, <2>3 DEF WritesValid
<1>5. ASSUME NEW n \in Node, Crash(n) PROVE WritesValid'
  <2>1. adding' = [adding EXCEPT ![n] = <<>>]
    BY <1>5 DEF Crash
  <2>2. DOMAIN <<>> = {}
    OBVIOUS
  <2>. QED
    BY <1>s, <2>1, <2>2
<1>6. ASSUME NEW n \in Node, AddTxTimer(n) \/ ProposeTimer(n) \/ RetryTimer(n) \/ FetchFails(n)
      PROVE  WritesValid'
  BY <1>0, <1>6 DEF AddTxTimer, ProposeTimer, RetryTimer, FetchFails
<1>7. ASSUME NEW n \in Node, NEW q \in Node, ReceiveStatus(n, q) \/ GoOffline(n, q)
      PROVE  WritesValid'
  BY <1>0, <1>7 DEF ReceiveStatus, GoOffline
<1>8. ASSUME NEW n \in Node, NEW m \in msgs, NEW view,
             ReceiveAddTx(n, view, m) \/ ReceiveProposeBlock(n, view, m) \/ Ignore(n, view, m)
      PROVE  WritesValid'
  BY <1>0, <1>8 DEF ReceiveAddTx, ReceiveProposeBlock, Ignore
<1>9. ASSUME NEW c \in Cmd, Submit(c) PROVE WritesValid'
  BY <1>0, <1>9 DEF Submit
<1>. QED
  BY <1>0, <1>1, <1>2, <1>3, <1>4, <1>5, <1>6, <1>7, <1>8, <1>9 DEF Next, vars

\* The commands on a stack.
LEMMA StackRange ==
    ASSUME NEW s \in Seq(Cmd), NEW c \in Cmd
    PROVE  /\ Append(s, c) \in Seq(Cmd) /\ Append(s, c) # <<>>
           /\ Range(Append(s, c)) = Range(s) \cup {c}
           /\ s # <<>> => Head(Append(s, c)) = Head(s)
           /\ <<c>> \o s \in Seq(Cmd) /\ <<c>> \o s # <<>>
           /\ Range(<<c>> \o s) = Range(s) \cup {c} /\ Head(<<c>> \o s) = c
           /\ s # <<>> => Range(s) = Range(Tail(s)) \cup {Head(s)}
<1>1. Len(s) \in Nat /\ DOMAIN s = 1..Len(s) /\ (s # <<>> => Len(s) # 0)
  BY LenProperties, EmptySeq
<1>2. /\ Append(s, c) \in Seq(Cmd) /\ DOMAIN Append(s, c) = 1..(Len(s) + 1)
      /\ Append(s, c)[Len(s) + 1] = c /\ \A i \in 1..Len(s) : Append(s, c)[i] = s[i]
  BY <1>1, AppendProperties
<1>3. Append(s, c) # <<>> /\ (s # <<>> => Head(Append(s, c)) = Head(s))
  BY <1>1, <1>2
<1>4. Range(Append(s, c)) = Range(s) \cup {c}
  BY <1>1, <1>2 DEF Range
<1>5. /\ <<c>> \o s \in Seq(Cmd) /\ DOMAIN (<<c>> \o s) = 1..(Len(s) + 1)
      /\ (<<c>> \o s)[1] = c /\ \A i \in 1..Len(s) : (<<c>> \o s)[i + 1] = s[i]
  BY <1>1
<1>6. <<c>> \o s # <<>> /\ Head(<<c>> \o s) = c
  BY <1>1, <1>5
<1>. DEFINE t == <<c>> \o s
<1>. HIDE DEF t
<1>7. DOMAIN t = 1..(Len(s) + 1) /\ t[1] = c /\ \A i \in 1..Len(s) : t[i + 1] = s[i]
  BY <1>5 DEF t
<1>8. \A j \in DOMAIN t : j = 1 \/ (j - 1 \in DOMAIN s /\ t[j] = s[j - 1])
  BY <1>1, <1>7
<1>9. 1 \in DOMAIN t /\ \A i \in DOMAIN s : i + 1 \in DOMAIN t /\ t[i + 1] = s[i]
  BY <1>1, <1>7
<1>10. Range(t) = Range(s) \cup {c}
  BY <1>7, <1>8, <1>9 DEF Range
<1>11. ASSUME s # <<>> PROVE Range(s) = Range(Tail(s)) \cup {Head(s)}
  <2>. DEFINE u == Tail(s)
  <2>1. Head(s) = s[1] /\ 1 \in DOMAIN s
    BY <1>1, <1>11
  <2>2. DOMAIN u = 1..(Len(s) - 1) /\ \A i \in 1..(Len(s) - 1) : u[i] = s[i + 1]
    BY <1>1, <1>11
  <2>. HIDE DEF u
  <2>3. \A j \in DOMAIN s : j = 1 \/ (j - 1 \in DOMAIN u /\ s[j] = u[j - 1])
    BY <1>1, <2>2
  <2>4. \A i \in DOMAIN u : i + 1 \in DOMAIN s /\ u[i] = s[i + 1]
    BY <1>1, <2>2
  <2>5. Range(s) = Range(u) \cup {s[1]}
    BY <2>1, <2>3, <2>4 DEF Range
  <2>. QED
    BY <2>1, <2>5 DEF u
<1>. QED
  BY <1>2, <1>3, <1>4, <1>5, <1>6, <1>10, <1>11 DEF t

\* clear() and the other methods doAddTx is called after.
LEMMA PreparedFields ==
    ASSUME TypeOK, NEW n \in Node, NEW f \in Factory, Prepared(n, f)
    PROVE  /\ f.pool \subseteq factory[n].pool
           /\ HasOwnTx(f) => HasOwnTx(factory[n]) /\ f.ownTx = factory[n].ownTx
           /\ \A c \in Range(f.stack) :
                 \/ c \in Range(factory[n].stack)
                 \/ HasOwnTx(factory[n]) /\ c = factory[n].ownTx.cmd
                 \/ c \in Cmd /\ n = Home[c] /\ c \in submitted'
           /\ Range(factory[n].stack) \subseteq Range(f.stack)
           /\ HasOwnTx(factory[n]) =>
                 HasOwnTx(f) \/ (f.stack # <<>> /\ Head(f.stack) = factory[n].ownTx.cmd)
           /\ ~HasOwnTx(factory[n]) /\ factory[n].stack # <<>> =>
                 f.stack # <<>> /\ Head(f.stack) = Head(factory[n].stack)
           /\ submitted \subseteq submitted'
           /\ \A c \in submitted' : c \in submitted \/ (n = Home[c] /\ c \in Range(f.stack))
<1>. DEFINE e == factory[n]
<1>0. e \in Factory /\ e.stack \in Seq(Cmd) /\ (HasOwnTx(e) => e.ownTx \in Tx /\ e.ownTx.cmd \in Cmd)
      /\ NoTx.height = 0
  BY DEF TypeOK, Factory, HasOwnTx, NoTx, Tx
<1>1. ASSUME NEW c \in Cmd, n = Home[c], f = Push(e, c), submitted' = submitted \cup {c}
      PROVE  /\ f.pool = e.pool /\ f.ownTx = e.ownTx /\ f.stack = Append(e.stack, c)
             /\ HasOwnTx(f) = HasOwnTx(e)
  BY <1>0, <1>1 DEF Push, Factory, HasOwnTx
<1>2. ASSUME f = Disarm(e, "addTx")
      PROVE  /\ f.pool = e.pool /\ f.ownTx = e.ownTx /\ f.stack = e.stack
             /\ HasOwnTx(f) = HasOwnTx(e)
  BY <1>0, <1>2 DEF Disarm, Factory, HasOwnTx
<1>3. ASSUME f = Clear(e, {})
      PROVE  /\ f.pool = {} /\ ~HasOwnTx(f)
             /\ f.stack = IF HasOwnTx(e) THEN <<e.ownTx.cmd>> \o e.stack ELSE e.stack
  BY <1>3 DEF Clear, ClearedWith, HasOwnTx, NoTx
<1>. HIDE DEF e
<1>4. CASE \E c \in Cmd : n = Home[c] /\ f = Push(e, c) /\ submitted' = submitted \cup {c}
  <2>1. PICK c \in Cmd : n = Home[c] /\ f = Push(e, c) /\ submitted' = submitted \cup {c}
    BY <1>4
  <2>2. Range(f.stack) = Range(e.stack) \cup {c} /\ f.stack # <<>>
        /\ (e.stack # <<>> => Head(f.stack) = Head(e.stack))
    <3>1. f.stack = Append(e.stack, c)
      BY <1>1, <2>1
    <3>2. e.stack \in Seq(Cmd)
      BY <1>0
    <3>3. /\ Append(e.stack, c) # <<>> /\ Range(Append(e.stack, c)) = Range(e.stack) \cup {c}
          /\ e.stack # <<>> => Head(Append(e.stack, c)) = Head(e.stack)
      BY <3>2, StackRange
    <3>. QED
      BY <3>1, <3>3
  <2>3. f.pool = e.pool /\ f.ownTx = e.ownTx /\ HasOwnTx(f) = HasOwnTx(e)
    BY <1>1, <2>1
  <2>. QED
    BY <2>1, <2>2, <2>3 DEF e
<1>5. CASE f = Disarm(e, "addTx") /\ UNCHANGED submitted
  BY <1>2, <1>5 DEF e
<1>6. CASE f = Clear(e, {}) /\ UNCHANGED submitted
  <2>1. CASE HasOwnTx(e)
    <3>1. Range(f.stack) = Range(e.stack) \cup {e.ownTx.cmd} /\ f.stack # <<>>
          /\ Head(f.stack) = e.ownTx.cmd
      <4>1. f.stack = <<e.ownTx.cmd>> \o e.stack
        BY <1>3, <1>6, <2>1
      <4>2. e.stack \in Seq(Cmd) /\ e.ownTx.cmd \in Cmd
        BY <1>0, <2>1
      <4>3. /\ <<e.ownTx.cmd>> \o e.stack # <<>>
            /\ Range(<<e.ownTx.cmd>> \o e.stack) = Range(e.stack) \cup {e.ownTx.cmd}
            /\ Head(<<e.ownTx.cmd>> \o e.stack) = e.ownTx.cmd
        BY <4>2, StackRange
      <4>. QED
        BY <4>1, <4>3
    <3>. QED
      BY <1>3, <1>6, <2>1, <3>1 DEF e
  <2>2. CASE ~HasOwnTx(e)
    BY <1>3, <1>6, <2>2 DEF e
  <2>. QED
    BY <2>1, <2>2
<1>. QED
  BY <1>4, <1>5, <1>6 DEF Prepared, e

\* With the message m the node q hands tx to the validator.
IsAddTx(m, q, tx) == m.type = "AddTx" /\ m.origin = q /\ m.tx = tx

\* The fields fs and the messages ms show that q has signed tx.
ShowSigned(fs, ms, q, tx) ==
    \/ HasOwnTx(fs[q]) /\ tx = fs[q].ownTx
    \/ \E p \in Node : tx \in fs[p].pool /\ Origin(tx) = q
    \/ \E m \in ms : IsAddTx(m, q, tx)

\* Where the transactions come from that q has signed after a step of n.
LEMMA SignedFrom ==
    ASSUME TypeOK, NEW n \in Node, NEW g, NEW q \in Node,
           factory' = [factory EXCEPT ![n] = g]
    PROVE  \A tx : ShowSigned(factory', msgs', q, tx) =>
              \/ tx \in SignedTx(q)
              \/ q = n /\ HasOwnTx(g) /\ tx = g.ownTx
              \/ tx \in g.pool /\ Origin(tx) = q
              \/ \E m \in msgs' \ msgs : IsAddTx(m, q, tx)
<1>1. factory'[n] = g /\ \A p \in Node : p # n => factory'[p] = factory[p]
  BY DEF TypeOK
<1>2. \A tx : ShowSigned(factory, msgs, q, tx) => tx \in SignedTx(q)
  BY DEF SignedTx, ShowSigned, IsAddTx
<1>3. ASSUME NEW tx, ShowSigned(factory', msgs', q, tx)
      PROVE  \/ ShowSigned(factory, msgs, q, tx)
             \/ q = n /\ HasOwnTx(g) /\ tx = g.ownTx
             \/ tx \in g.pool /\ Origin(tx) = q
             \/ \E m \in msgs' \ msgs : IsAddTx(m, q, tx)
  BY <1>1, <1>3 DEF ShowSigned
<1>. QED
  BY <1>2, <1>3

\* After a step of n that leaves the fields g and the chain chain to n, the
\* round goes on as it should if n signed nothing but what it has to.
LEMMA RoundKept ==
    ASSUME RoundInv, NEW n \in Node, NEW g \in Factory, NEW chain,
           factory' = [factory EXCEPT ![n] = g], latest' = [latest EXCEPT ![n] = chain],
           \A c \in Range(g.stack) : Home[c] = n,
           HasOwnTx(g) => Home[g.ownTx.cmd] = n /\ g.ownTx.height = Height(chain) + 1,
           \A q \in Node, tx \in g.pool :
              Origin(tx) = q => tx \in SignedTx(q) \/ (q = n /\ HasOwnTx(g) /\ tx = g.ownTx),
           \A m \in msgs' : \/ m \in msgs \/ m.type # "AddTx"
                            \/ m.origin = n /\ HasOwnTx(g) /\ m.tx = g.ownTx,
           lowered \subseteq lowered',
           n \in Onward' => \A tx \in SignedTx(n) : Signable(tx, g, chain)
    PROVE  StacksAtHome' /\ AddTxFromHome' /\ SignedOnce'
<1>1. /\ factory'[n] = g /\ latest'[n] = chain
      /\ \A p \in Node : p # n => factory'[p] = factory[p] /\ latest'[p] = latest[p]
  BY DEF RoundInv, TypeOK
<1>2. StacksAtHome'
  <2>1. \A p \in Node : p # n =>
            /\ \A c \in Range(factory'[p].stack) : Home[c] = p
            /\ HasOwnTx(factory'[p]) => /\ Home[factory'[p].ownTx.cmd] = p
                                        /\ factory'[p].ownTx.height = Height(latest'[p]) + 1
    BY <1>1 DEF RoundInv, StacksAtHome
  <2>2. \A p \in Node :
            /\ \A c \in Range(factory'[p].stack) : Home[c] = p
            /\ HasOwnTx(factory'[p]) => /\ Home[factory'[p].ownTx.cmd] = p
                                        /\ factory'[p].ownTx.height = Height(latest'[p]) + 1
    BY <1>1, <2>1
  <2>. QED
    BY <2>2 DEF StacksAtHome, Height, HasOwnTx
<1>3. AddTxFromHome'
  <2>1. \A m \in msgs' : m.type = "AddTx" => Origin(m.tx) = m.origin
    BY DEF RoundInv, AddTxFromHome, Origin
  <2>. QED
    BY <2>1 DEF AddTxFromHome, Origin
<1>4. ASSUME NEW q \in Node, NEW tx \in SignedTx(q)'
      PROVE  tx \in SignedTx(q) \/ (q = n /\ HasOwnTx(g) /\ tx = g.ownTx)
  <2>1. TypeOK
    BY DEF RoundInv
  <2>2. ShowSigned(factory', msgs', q, tx)
    <3>1. tx \in {u \in {factory'[q].ownTx} : HasOwnTx(factory'[q])}
                 \cup {u \in UNION {factory'[p].pool : p \in Node} : Origin(u) = q}
                 \cup {m.tx : m \in {k \in msgs' : k.type = "AddTx" /\ k.origin = q}}
      BY DEF SignedTx, HasOwnTx, Origin
    <3>. QED
      BY <3>1 DEF ShowSigned, IsAddTx
  <2>3. \/ tx \in SignedTx(q)
        \/ q = n /\ HasOwnTx(g) /\ tx = g.ownTx
        \/ tx \in g.pool /\ Origin(tx) = q
        \/ \E m \in msgs' \ msgs : IsAddTx(m, q, tx)
    BY <2>1, <2>2, SignedFrom
  <2>. QED
    BY <2>3 DEF IsAddTx
<1>5. ASSUME NEW q \in Onward'
      PROVE  /\ \A tx \in SignedTx(q)' : Signable(tx, factory'[q], latest'[q])
             /\ \A tx, u \in SignedTx(q)' : tx.height = u.height => tx = u
  <2>0. /\ q \in Node
        /\ \A tx \in SignedTx(q) : Signable(tx, factory[q], latest[q])
        /\ \A tx, u \in SignedTx(q) : tx.height = u.height => tx = u
    <3>1. q \in Onward
      BY DEF Onward
    <3>. QED
      BY <3>1 DEF RoundInv, SignedOnce, OneTx, Onward
  <2>1. CASE q # n
    <3>1. \A tx \in SignedTx(q)' : tx \in SignedTx(q)
      BY <1>4, <2>0, <2>1
    <3>. QED
      BY <1>1, <2>0, <2>1, <3>1
  <2>2. CASE q = n
    <3>1. \A tx \in SignedTx(q) : Signable(tx, g, chain)
      BY <2>2
    <3>2. ASSUME HasOwnTx(g) PROVE Signable(g.ownTx, g, chain)
      <4>1. Height(chain) + 1 <= Height(chain) + 1
        <5>1. g.ownTx.height = Height(chain) + 1 /\ g.ownTx \in Tx
          BY <3>2 DEF Factory, HasOwnTx, NoTx
        <5>. QED
          BY <5>1 DEF Tx
      <4>. QED
        BY <3>2, <4>1 DEF Signable
    <3>3. \A tx \in SignedTx(q)' : Signable(tx, g, chain)
      BY <1>4, <2>0, <3>1, <3>2
    <3>4. ASSUME HasOwnTx(g), NEW tx \in SignedTx(q), tx.height = g.ownTx.height
          PROVE  tx = g.ownTx
      BY <3>1, <3>4 DEF Signable
    <3>5. \A tx, u \in SignedTx(q)' : tx.height = u.height => tx = u
      <4>1. ASSUME NEW tx \in SignedTx(q)', NEW u \in SignedTx(q)', tx.height = u.height
            PROVE  tx = u
        <5>1. tx \in SignedTx(q) \/ (HasOwnTx(g) /\ tx = g.ownTx)
          BY <1>4, <2>0
        <5>2. u \in SignedTx(q) \/ (HasOwnTx(g) /\ u = g.ownTx)
          BY <1>4, <2>0
        <5>. QED
          BY <2>0, <3>4, <4>1, <5>1, <5>2
      <4>. QED
        BY <4>1
    <3>. QED
      BY <1>1, <2>2, <3>3, <3>5
  <2>. QED
    BY <2>1, <2>2
<1>6. SignedOnce'
  BY <1>5 DEF SignedOnce, OneTx, Signable, HasOwnTx, Height
<1>. QED
  BY <1>2, <1>3, <1>6

\* A block that is done: what the node would sign next stays what it was if the
\* height does, and every transaction signed so far is for an older block if not.
LEMMA SignableCleared ==
    ASSUME NEW f \in Factory, NEW chain \in Hash, NEW hash \in Hash, NEW tx,
           Len(chain) <= Len(hash), ValidCandidate(hash), tx.height \in Nat,
           HasOwnTx(f) => f.ownTx.height = Height(chain) + 1,
           Signable(tx, f, chain)
    PROVE  Signable(tx, Arm(Clear(f, Last(hash)), "addTx"), hash)
<1>. DEFINE g == Arm(Clear(f, Last(hash)), "addTx")
<1>1. Len(chain) \in Nat /\ Len(hash) \in Nat
  BY LenProperties DEF Hash
<1>2. tx.height <= Height(hash) + 1
  BY <1>1 DEF Signable, Height
<1>3. ASSUME tx.height = Height(hash) + 1
      PROVE  g.stack # <<>> /\ tx.cmd = Head(g.stack)
  <2>1. Height(hash) = Height(chain) /\ tx.height = Height(chain) + 1
    BY <1>1, <1>3 DEF Signable, Height
  <2>2. CASE HasOwnTx(f)
    <3>1. tx = f.ownTx
      BY <2>1, <2>2 DEF Signable
    <3>2. f.ownTx \notin Last(hash)
      BY <1>1, <1>3, <3>1 DEF ValidCandidate, Height
    <3>3. g.stack = <<f.ownTx.cmd>> \o f.stack
      BY <2>2, <3>2 DEF Clear, ClearedWith, Arm
    <3>4. f.ownTx.cmd \in Cmd /\ f.stack \in Seq(Cmd)
      BY <2>2 DEF Factory, HasOwnTx, NoTx, Tx
    <3>. HIDE DEF g
    <3>5. <<f.ownTx.cmd>> \o f.stack # <<>> /\ Head(<<f.ownTx.cmd>> \o f.stack) = f.ownTx.cmd
      BY <3>4, StackRange
    <3>. QED
      BY <3>1, <3>3, <3>5
  <2>3. CASE ~HasOwnTx(f)
    <3>1. g.stack = f.stack
      BY <2>3 DEF Clear, ClearedWith, Arm
    <3>. QED
      BY <2>1, <2>3, <3>1 DEF Signable
  <2>. QED
    BY <2>2, <2>3
<1>4. ~HasOwnTx(g)
  BY DEF Clear, ClearedWith, Arm, HasOwnTx, NoTx
<1>. HIDE DEF g
<1>5. Signable(tx, g, hash)
  BY <1>2, <1>3, <1>4 DEF Signable
<1>. QED
  BY <1>5 DEF g

\* Every callback keeps the round in order.
LEMMA RoundStep ==
    ASSUME RoundInv, [Next]_vars
    PROVE  RoundInv'
<1>. DEFINE Goal == StacksAtHome' /\ AddTxFromHome' /\ SignedOnce'
<1>i. /\ TypeOK /\ Fits /\ WritesValid /\ StacksAtHome /\ AddTxFromHome /\ SignedOnce
      /\ TypeOK' /\ Fits' /\ WritesValid'
  BY TypeStep, FitsStep, ValidStep DEF RoundInv
<1>f. \A n \in Node :
          /\ factory[n] \in Factory /\ factory[n].stack \in Seq(Cmd)
          /\ latest[n] \in Hash /\ Len(latest[n]) \in Nat
          /\ \A c \in Range(factory[n].stack) : Home[c] = n
          /\ HasOwnTx(factory[n]) =>
                /\ Home[factory[n].ownTx.cmd] = n
                /\ factory[n].ownTx.height = Height(latest[n]) + 1
                /\ factory[n].ownTx \in SignedTx(n)
          /\ \A tx \in factory[n].pool : Origin(tx) \in Node => tx \in SignedTx(Origin(tx))
          /\ \A m \in msgs : m.type = "AddTx" => m.tx \in SignedTx(m.origin)
          /\ n \in Onward => \A tx \in SignedTx(n) : Signable(tx, factory[n], latest[n])
          /\ \A tx \in SignedTx(n) : tx.height \in Nat
  <2>1. ASSUME NEW n \in Node
        PROVE  /\ factory[n] \in Factory /\ factory[n].stack \in Seq(Cmd)
               /\ latest[n] \in Hash /\ Len(latest[n]) \in Nat
    BY <1>i, LenProperties DEF TypeOK, Factory, Hash
  <2>2. ASSUME NEW n \in Node
        PROVE  /\ HasOwnTx(factory[n]) => factory[n].ownTx \in SignedTx(n)
               /\ \A tx \in factory[n].pool : Origin(tx) \in Node => tx \in SignedTx(Origin(tx))
               /\ \A m \in msgs : m.type = "AddTx" => m.tx \in SignedTx(m.origin)
    BY DEF SignedTx
  <2>3. ASSUME NEW n \in Node, NEW tx \in SignedTx(n) PROVE tx.height \in Nat
    <3>1. ShowSigned(factory, msgs, n, tx)
      BY DEF SignedTx, ShowSigned, IsAddTx
    <3>2. CASE HasOwnTx(factory[n]) /\ tx = factory[n].ownTx
      BY <2>1, <3>2 DEF Factory, Tx, NoTx, HasOwnTx
    <3>3. ASSUME NEW p \in Node, tx \in factory[p].pool PROVE tx.height \in Nat
      BY <2>1, <3>3 DEF Factory, Tx
    <3>4. ASSUME NEW m \in msgs, IsAddTx(m, n, tx) PROVE tx.height \in Nat
      BY <1>i, <3>4, MessageType DEF IsAddTx, TypeOK, Tx
    <3>. QED
      BY <3>1, <3>2, <3>3, <3>4 DEF ShowSigned
  <2>. QED
    BY <1>i, <2>1, <2>2, <2>3 DEF StacksAtHome, SignedOnce
<1>l. ASSUME NEW n \in Node, NEW g, factory' = [factory EXCEPT ![n] = g], UNCHANGED chainVars
      PROVE  /\ latest' = [latest EXCEPT ![n] = latest[n]]
             /\ lowered \subseteq lowered' /\ (n \in Onward' => n \in Onward)
  BY <1>i, <1>l DEF TypeOK, chainVars, Onward
<1>1. ASSUME NoTxMoves PROVE Goal
  <2>1. \A n \in Node :
            /\ factory'[n].stack = factory[n].stack /\ factory'[n].ownTx = factory[n].ownTx
            /\ factory'[n].pool = factory[n].pool /\ latest'[n] = latest[n]
            /\ HasOwnTx(factory'[n]) = HasOwnTx(factory[n])
    BY <1>1 DEF NoTxMoves, SameTxs, HasOwnTx, chainVars
  <2>2. \A m \in msgs' : m.type = "AddTx" => m \in msgs
    BY <1>1 DEF NoTxMoves
  <2>3. StacksAtHome'
    <3>1. \A n \in Node :
              /\ \A c \in Range(factory'[n].stack) : Home[c] = n
              /\ HasOwnTx(factory'[n]) => /\ Home[factory'[n].ownTx.cmd] = n
                                          /\ factory'[n].ownTx.height = Height(latest'[n]) + 1
      BY <1>f, <2>1
    <3>. QED
      BY <3>1 DEF StacksAtHome, Height, HasOwnTx
  <2>4. AddTxFromHome'
    <3>1. \A m \in msgs' : m.type = "AddTx" => Origin(m.tx) = m.origin
      BY <1>i, <2>2 DEF AddTxFromHome
    <3>. QED
      BY <3>1 DEF AddTxFromHome, Origin
  <2>5. ASSUME NEW n \in Node, NEW tx \in SignedTx(n)' PROVE tx \in SignedTx(n)
    <3>1. tx \in {u \in {factory'[n].ownTx} : HasOwnTx(factory'[n])}
                 \cup {u \in UNION {factory'[p].pool : p \in Node} : Origin(u) = n}
                 \cup {m.tx : m \in {k \in msgs' : k.type = "AddTx" /\ k.origin = n}}
      BY DEF SignedTx, HasOwnTx, Origin
    <3>2. CASE HasOwnTx(factory'[n]) /\ tx = factory'[n].ownTx
      BY <2>1, <3>2 DEF SignedTx
    <3>3. ASSUME NEW p \in Node, tx \in factory'[p].pool, Origin(tx) = n PROVE tx \in SignedTx(n)
      BY <2>1, <3>3 DEF SignedTx
    <3>4. ASSUME NEW m \in msgs', m.type = "AddTx", m.origin = n, tx = m.tx PROVE tx \in SignedTx(n)
      BY <2>2, <3>4 DEF SignedTx
    <3>. QED
      BY <3>1, <3>2, <3>3, <3>4
  <2>0. \A n \in Onward' : n \in Onward /\ n \in Node
    BY <1>1 DEF NoTxMoves, Onward, chainVars
  <2>6. \A n \in Onward' :
            /\ \A tx \in SignedTx(n)' : Signable(tx, factory'[n], latest'[n])
            /\ \A tx, u \in SignedTx(n)' : tx.height = u.height => tx = u
    <3>1. \A n \in Node : \A tx : Signable(tx, factory[n], latest[n]) =>
                                  Signable(tx, factory'[n], latest'[n])
      BY <2>1 DEF Signable
    <3>. QED
      BY <1>i, <2>0, <2>5, <3>1 DEF SignedOnce, OneTx
  <2>7. SignedOnce'
    BY <2>6 DEF SignedOnce, OneTx, Signable, HasOwnTx, Height
  <2>. QED
    BY <2>3, <2>4, <2>7
<1>2. ASSUME NEW n \in Node, NEW f \in Factory, Prepared(n, f), DoAddTx(n, f), UNCHANGED chainVars
      PROVE  Goal
  <2>1. PICK g \in Factory :
              /\ factory' = [factory EXCEPT ![n] = g]
              /\ \/ g = f /\ UNCHANGED msgs
                 \/ /\ Signing(f, g, latest[n])
                    /\ \/ UNCHANGED msgs
                       \/ \E m : /\ msgs' = msgs \cup {m} /\ m.type = "AddTx" /\ m.origin = n
                                 /\ m.tx = NextTx(f, latest[n])
    BY <1>i, <1>2, DoAddTxEffect
  <2>2. /\ f.pool \subseteq factory[n].pool
        /\ HasOwnTx(f) => HasOwnTx(factory[n]) /\ f.ownTx = factory[n].ownTx
        /\ \A c \in Range(f.stack) :
              \/ c \in Range(factory[n].stack)
              \/ HasOwnTx(factory[n]) /\ c = factory[n].ownTx.cmd
              \/ n = Home[c]
        /\ HasOwnTx(factory[n]) =>
              HasOwnTx(f) \/ (f.stack # <<>> /\ Head(f.stack) = factory[n].ownTx.cmd)
        /\ ~HasOwnTx(factory[n]) /\ factory[n].stack # <<>> =>
              f.stack # <<>> /\ Head(f.stack) = Head(factory[n].stack)
    BY <1>i, <1>2, PreparedFields
  <2>3. \A c \in Range(f.stack) : Home[c] = n
    BY <1>f, <2>2
  <2>4. HasOwnTx(f) => Home[f.ownTx.cmd] = n /\ f.ownTx.height = Height(latest[n]) + 1
    BY <1>f, <2>2
  <2>5. \A tx : Signable(tx, factory[n], latest[n]) => Signable(tx, f, latest[n])
    <3>1. ASSUME NEW tx, Signable(tx, factory[n], latest[n]), tx.height = Height(latest[n]) + 1
          PROVE  IF HasOwnTx(f) THEN tx = f.ownTx ELSE f.stack # <<>> /\ tx.cmd = Head(f.stack)
      BY <2>2, <3>1 DEF Signable
    <3>. QED
      BY <3>1 DEF Signable
  <2>6. \A q \in Node, tx \in f.pool : Origin(tx) = q => tx \in SignedTx(q)
    BY <1>f, <2>2
  <2>7. /\ latest' = [latest EXCEPT ![n] = latest[n]]
        /\ lowered \subseteq lowered' /\ (n \in Onward' => n \in Onward)
    BY <1>2, <1>l, <2>1
  <2>8. CASE g = f /\ UNCHANGED msgs
    <3>1. n \in Onward' => \A tx \in SignedTx(n) : Signable(tx, g, latest[n])
      BY <1>f, <2>5, <2>7, <2>8
    <3>2. \A q \in Node, tx \in g.pool :
              Origin(tx) = q => tx \in SignedTx(q) \/ (q = n /\ HasOwnTx(g) /\ tx = g.ownTx)
      BY <2>6, <2>8
    <3>3. /\ \A c \in Range(g.stack) : Home[c] = n
          /\ HasOwnTx(g) => Home[g.ownTx.cmd] = n /\ g.ownTx.height = Height(latest[n]) + 1
      BY <2>3, <2>4, <2>8
    <3>4. \A m \in msgs' : \/ m \in msgs \/ m.type # "AddTx"
                           \/ m.origin = n /\ HasOwnTx(g) /\ m.tx = g.ownTx
      BY <2>8
    <3>. QED
      BY <2>1, <2>7, <3>1, <3>2, <3>3, <3>4, RoundKept
  <2>9. CASE Signing(f, g, latest[n])
    <3>. DEFINE tx == NextTx(f, latest[n])
    <3>1. /\ ~HasOwnTx(f) /\ f.stack # <<>> /\ tx \in Tx
          /\ g.ownTx = tx /\ g.stack = Tail(f.stack) /\ g.pool \subseteq f.pool \cup {tx}
      BY <2>9 DEF Signing
    <3>2. tx.cmd = Head(f.stack) /\ tx.height = Height(latest[n]) + 1
      BY DEF NextTx
    <3>. HIDE DEF tx
    <3>3. HasOwnTx(g)
      BY <1>f, <3>1, <3>2 DEF HasOwnTx, Height
    <3>4. Range(g.stack) \subseteq Range(f.stack) /\ tx.cmd \in Range(f.stack)
      <4>1. f.stack \in Seq(Cmd) /\ Head(f.stack) \in Cmd
        BY <3>1 DEF Factory
      <4>2. Range(f.stack) = Range(Tail(f.stack)) \cup {Head(f.stack)}
        BY <3>1, <4>1, StackRange
      <4>. QED
        BY <3>1, <3>2, <4>2
    <3>5. /\ \A c \in Range(g.stack) : Home[c] = n
          /\ Home[g.ownTx.cmd] = n /\ g.ownTx.height = Height(latest[n]) + 1
      BY <2>3, <3>1, <3>2, <3>4
    <3>6. \A q \in Node, u \in g.pool :
              Origin(u) = q => u \in SignedTx(q) \/ (q = n /\ HasOwnTx(g) /\ u = g.ownTx)
      <4>1. Origin(tx) = n
        BY <3>1, <3>5 DEF Origin
      <4>. QED
        BY <2>6, <3>1, <3>3, <4>1
    <3>7. \A m \in msgs' : \/ m \in msgs \/ m.type # "AddTx"
                           \/ m.origin = n /\ HasOwnTx(g) /\ m.tx = g.ownTx
      <4>1. g.ownTx = NextTx(f, latest[n])
        BY <3>1 DEF tx
      <4>. QED
        BY <2>1, <2>8, <3>3, <4>1
    <3>8. ASSUME NEW u \in SignedTx(n), n \in Onward' PROVE Signable(u, g, latest[n])
      <4>1. Signable(u, f, latest[n]) /\ u.height <= Height(latest[n]) + 1
        BY <1>f, <2>5, <2>7, <3>8 DEF Signable
      <4>2. ASSUME u.height = Height(latest[n]) + 1 PROVE u = tx
        <5>1. u.cmd = tx.cmd /\ u.height = tx.height
          BY <3>1, <3>2, <4>1, <4>2 DEF Signable
        <5>2. u \in Tx
          <6>1. ShowSigned(factory, msgs, n, u)
            BY DEF SignedTx, ShowSigned, IsAddTx
          <6>2. CASE HasOwnTx(factory[n]) /\ u = factory[n].ownTx
            BY <1>f, <6>2 DEF Factory, NoTx, HasOwnTx
          <6>3. ASSUME NEW p \in Node, u \in factory[p].pool PROVE u \in Tx
            BY <1>f, <6>3 DEF Factory
          <6>4. ASSUME NEW m \in msgs, IsAddTx(m, n, u) PROVE u \in Tx
            BY <1>i, <6>4, MessageType DEF IsAddTx, TypeOK
          <6>. QED
            BY <6>1, <6>2, <6>3, <6>4 DEF ShowSigned
        <5>. QED
          BY <3>1, <5>1, <5>2 DEF Tx
      <4>. QED
        BY <3>1, <3>3, <4>1, <4>2 DEF Signable
    <3>9. n \in Onward' => \A u \in SignedTx(n) : Signable(u, g, latest[n])
      BY <3>8
    <3>. QED
      BY <2>1, <2>7, <3>5, <3>6, <3>7, <3>9, RoundKept
  <2>. QED
    BY <2>1, <2>8, <2>9
<1>3. ASSUME NEW n \in Node, NEW m \in msgs, NEW view, ReceiveAddTx(n, view, m) PROVE Goal
  <2>. DEFINE g == ProcessAddTx(factory[n], m.tx, latest[n])
  <2>1. /\ m.type = "AddTx" /\ factory' = [factory EXCEPT ![n] = g]
        /\ UNCHANGED chainVars /\ UNCHANGED msgs
    BY <1>3 DEF ReceiveAddTx, Receive, Quiet
  <2>2. m.tx \in Tx /\ g \in Factory
    BY <1>f, <1>i, <2>1, MessageType, ProcessAddTxType DEF TypeOK
  <2>3. /\ g.stack = factory[n].stack /\ g.ownTx = factory[n].ownTx
        /\ g.pool \subseteq factory[n].pool \cup {m.tx}
        /\ HasOwnTx(g) = HasOwnTx(factory[n])
    BY <1>f DEF ProcessAddTx, Arm, Factory, HasOwnTx
  <2>. HIDE DEF g
  <2>4. Origin(m.tx) = m.origin
    BY <1>i, <2>1 DEF AddTxFromHome
  <2>5. \A q \in Node, tx \in g.pool :
            Origin(tx) = q => tx \in SignedTx(q) \/ (q = n /\ HasOwnTx(g) /\ tx = g.ownTx)
    BY <1>f, <2>1, <2>3, <2>4
  <2>8. /\ latest' = [latest EXCEPT ![n] = latest[n]]
        /\ lowered \subseteq lowered' /\ (n \in Onward' => n \in Onward)
    BY <1>l, <2>1
  <2>6. n \in Onward' => \A tx \in SignedTx(n) : Signable(tx, g, latest[n])
    BY <1>f, <2>3, <2>8 DEF Signable
  <2>7. /\ \A c \in Range(g.stack) : Home[c] = n
        /\ HasOwnTx(g) => Home[g.ownTx.cmd] = n /\ g.ownTx.height = Height(latest[n]) + 1
    BY <1>f, <2>3
  <2>9. \A k \in msgs' : \/ k \in msgs \/ k.type # "AddTx"
                         \/ k.origin = n /\ HasOwnTx(g) /\ k.tx = g.ownTx
    BY <2>1
  <2>. QED
    BY <2>1, <2>2, <2>5, <2>6, <2>7, <2>8, <2>9, RoundKept
<1>4. ASSUME NEW n \in Node, NEW i \in DOMAIN adding[n], FinishAdd(n, i) PROVE Goal
  <2>0. PICK hash : hash = adding[n][i].hash
    OBVIOUS
  <2>. DEFINE g == Arm(Clear(factory[n], Last(hash)), "addTx")
  <2>1. /\ latest' = [latest EXCEPT ![n] = hash]
        /\ lowered' = IF Len(hash) < Len(latest[n]) THEN lowered \cup {n} ELSE lowered
        /\ factory' = [factory EXCEPT ![n] = g] /\ UNCHANGED msgs
    BY <1>4, <2>0 DEF FinishAdd, Quiet
  <2>2. hash \in Hash /\ ValidCandidate(hash) /\ Len(hash) \in Nat
    <3>1. adding[n] \in Seq(Write)
      BY <1>i DEF TypeOK
    <3>. QED
      BY <1>i, <2>0, <3>1, WriteTypes, LenProperties DEF WritesValid, Hash
  <2>3. lowered \subseteq lowered' /\ (n \in Onward' => n \in Onward /\ Len(latest[n]) <= Len(hash))
    BY <1>f, <2>1, <2>2 DEF Onward
  <2>4. g \in Factory
    <3>1. Clear(factory[n], Last(hash)) \in Factory
      BY <1>f, ClearType
    <3>. QED
      BY <3>1, FieldTypes DEF Timer
  <2>5. /\ g.pool = {} /\ ~HasOwnTx(g)
        /\ g.stack = IF HasOwnTx(factory[n]) /\ factory[n].ownTx \notin Last(hash)
                     THEN <<factory[n].ownTx.cmd>> \o factory[n].stack ELSE factory[n].stack
    BY DEF Clear, ClearedWith, Arm, HasOwnTx, NoTx
  <2>6. ASSUME NEW tx \in SignedTx(n), n \in Onward' PROVE Signable(tx, g, hash)
    <3>1. Signable(tx, factory[n], latest[n]) /\ tx.height \in Nat
      BY <1>f, <2>3, <2>6
    <3>2. HasOwnTx(factory[n]) => factory[n].ownTx.height = Height(latest[n]) + 1
      BY <1>f
    <3>. QED
      BY <1>f, <2>2, <2>3, <2>6, <3>1, <3>2, SignableCleared
  <2>. HIDE DEF g
  <2>7. \A c \in Range(g.stack) : Home[c] = n
    <3>1. CASE HasOwnTx(factory[n]) /\ factory[n].ownTx \notin Last(hash)
      <4>1. factory[n].ownTx.cmd \in Cmd
        BY <1>f, <3>1 DEF Factory, HasOwnTx, NoTx, Tx
      <4>2. Range(<<factory[n].ownTx.cmd>> \o factory[n].stack)
              = Range(factory[n].stack) \cup {factory[n].ownTx.cmd}
        BY <1>f, <4>1, StackRange
      <4>. QED
        BY <1>f, <2>5, <3>1, <4>2
    <3>2. CASE ~(HasOwnTx(factory[n]) /\ factory[n].ownTx \notin Last(hash))
      BY <1>f, <2>5, <3>2
    <3>. QED
      BY <3>1, <3>2
  <2>8. n \in Onward' => \A tx \in SignedTx(n) : Signable(tx, g, hash)
    BY <2>6
  <2>9. \A q \in Node, tx \in g.pool :
            Origin(tx) = q => tx \in SignedTx(q) \/ (q = n /\ HasOwnTx(g) /\ tx = g.ownTx)
    BY <2>5
  <2>10. \A m \in msgs' : \/ m \in msgs \/ m.type # "AddTx"
                          \/ m.origin = n /\ HasOwnTx(g) /\ m.tx = g.ownTx
    BY <2>1
  <2>11. HasOwnTx(g) => Home[g.ownTx.cmd] = n /\ g.ownTx.height = Height(hash) + 1
    BY <2>5
  <2>. QED
    BY <2>1, <2>3, <2>4, <2>7, <2>8, <2>9, <2>10, <2>11, RoundKept
<1>5. ASSUME NEW n \in Node, Crash(n) PROVE Goal
  <2>. DEFINE g == EmptyFactory
  <2>1. PICK hash : latest' = [latest EXCEPT ![n] = hash]
    BY <1>5 DEF Crash
  <2>2. factory' = [factory EXCEPT ![n] = g] /\ UNCHANGED msgs /\ n \in MayCrash
    BY <1>5 DEF Crash, Quiet
  <2>0. lowered \subseteq lowered' /\ n \notin Onward'
    BY <1>5 DEF Crash, Onward
  <2>3. g \in Factory
    BY StartTypes
  <2>4. g.pool = {} /\ ~HasOwnTx(g) /\ Range(g.stack) = {}
    BY DEF EmptyFactory, HasOwnTx, NoTx, Range
  <2>. HIDE DEF g
  <2>5. \A m \in msgs' : \/ m \in msgs \/ m.type # "AddTx"
                         \/ m.origin = n /\ HasOwnTx(g) /\ m.tx = g.ownTx
    BY <2>2
  <2>6. /\ \A c \in Range(g.stack) : Home[c] = n
        /\ HasOwnTx(g) => Home[g.ownTx.cmd] = n /\ g.ownTx.height = Height(hash) + 1
        /\ \A q \in Node, tx \in g.pool :
              Origin(tx) = q => tx \in SignedTx(q) \/ (q = n /\ HasOwnTx(g) /\ tx = g.ownTx)
        /\ n \in Onward' => \A tx \in SignedTx(n) : Signable(tx, g, hash)
    BY <2>0, <2>2, <2>4
  <2>. QED
    BY <2>0, <2>1, <2>2, <2>3, <2>5, <2>6, RoundKept
<1>6. Goal
  BY <1>i, <1>1, <1>2, <1>3, <1>4, <1>5, TxStep
<1>. QED
  BY <1>i, <1>6 DEF RoundInv

LEMMA RoundInit ==
    ASSUME Init PROVE RoundInv
<1>1. TypeOK /\ Fits
  BY InitFits
<1>2. WritesValid /\ AddTxFromHome
  BY DEF Init, WritesValid, AddTxFromHome
<1>3. StacksAtHome
  BY DEF Init, StacksAtHome, EmptyFactory, HasOwnTx, NoTx, Range
<1>4. \A n \in Node : SignedTx(n) = {}
  BY DEF Init, SignedTx, EmptyFactory, HasOwnTx, NoTx
<1>5. SignedOnce
  BY <1>4 DEF SignedOnce, OneTx, Onward
<1>. QED
  BY <1>1, <1>2, <1>3, <1>5 DEF RoundInv

\* "Each peer can only add one own transaction" per round: timers, retries,
\* repeated and overtaken clears, offline validators and crashes of others do
\* not make a node sign two transactions for one height.  A crash loses the
\* stack, and with it what has been signed; and after a call that takes the node
\* back in height it signs afresh.
THEOREM OneTransactionPerRound == Spec => []OneTxPerRound
<1>1. Init => RoundInv
  BY RoundInit
<1>2. RoundInv /\ [Next]_vars => RoundInv'
  BY RoundStep
<1>3. RoundInv => OneTxPerRound
  BY DEF RoundInv, SignedOnce, OneTxPerRound, Onward
<1>. QED
  BY <1>1, <1>2, <1>3, PTL DEF Spec

-----------------------------------------------------------------------------
(* Nothing is lost.                                                         *)

\* The command list c is on the stack, in the own transaction or on a chain.
Held(c, f, chains) ==
    \/ c \in Range(f.stack)
    \/ HasOwnTx(f) /\ f.ownTx.cmd = c
    \/ \E chain \in chains : c \in CmdsOf(chain)

\* A chain has the commands of its last block; genesis has none.
LEMMA ChainCmds ==
    ASSUME NEW hash \in Hash
    PROVE  /\ hash # <<>> => \A tx \in Last(hash) : tx.cmd \in CmdsOf(hash)
           /\ hash = <<>> => CmdsOf(hash) = {}
<1>1. Len(hash) \in Nat /\ DOMAIN hash = 1..Len(hash)
  BY LenProperties DEF Hash
<1>2. ASSUME hash # <<>> PROVE Last(hash) = hash[Len(hash)] /\ Len(hash) \in DOMAIN hash
  <2>1. Len(hash) # 0
    BY <1>2, EmptySeq DEF Hash
  <2>. QED
    BY <1>1, <2>1 DEF Last
<1>3. ASSUME hash # <<>>, NEW tx \in Last(hash) PROVE tx.cmd \in CmdsOf(hash)
  <2>1. tx \in UNION {hash[k] : k \in DOMAIN hash}
    BY <1>2, <1>3
  <2>. QED
    BY <2>1 DEF CmdsOf
<1>4. ASSUME hash = <<>> PROVE CmdsOf(hash) = {}
  BY <1>4 DEF CmdsOf
<1>. QED
  BY <1>3, <1>4

\* Where no block is replaced, a node keeps every chain it has but genesis.
LEMMA ChainsStay ==
    ASSUME TypeOK, Fits, TypeOK', NEW n \in Node, IsPrefix(store[n], store'[n]),
           NEW chain \in Chains(n), chain # <<>>
    PROVE  chain \in Chains(n)'
<1>1. PICK st \in Seq(Hash) : st = store[n]
  BY DEF TypeOK
<1>2. PICK k \in DOMAIN st : chain = st[k]
  BY <1>1 DEF Chains, Range, Fits, Fitting
<1>3. PICK ts \in Seq(Hash) : ts = store'[n]
  BY DEF TypeOK
<1>4. Len(st) <= Len(ts) /\ SubSeq(st, 1, Len(st)) = SubSeq(ts, 1, Len(st))
  BY <1>1, <1>3 DEF IsPrefix
<1>5. /\ Len(st) \in Nat /\ DOMAIN st = 1..Len(st)
      /\ Len(ts) \in Nat /\ DOMAIN ts = 1..Len(ts)
  BY LenProperties
<1>6. SubSeq(st, 1, Len(st))[k] = st[k] /\ SubSeq(ts, 1, Len(st))[k] = ts[k] /\ k \in DOMAIN ts
  BY <1>2, <1>4, <1>5
<1>7. chain = ts[k] /\ k \in DOMAIN ts
  BY <1>2, <1>4, <1>6
<1>8. chain \in Range(store'[n])
  BY <1>3, <1>7 DEF Range
<1>. QED
  BY <1>8 DEF Chains

\* What is held before doAddTx is held after it.
LEMMA SigningHolds ==
    ASSUME NEW f \in Factory, NEW g, NEW chain \in Hash, NEW chains, NEW c, Held(c, f, chains),
           g = f \/ Signing(f, g, chain)
    PROVE  Held(c, g, chains)
<1>1. CASE Signing(f, g, chain)
  <2>1. /\ ~HasOwnTx(f) /\ f.stack # <<>> /\ g.stack = Tail(f.stack)
        /\ g.ownTx.cmd = Head(f.stack) /\ g.ownTx.height = Height(chain) + 1
    BY <1>1 DEF Signing, NextTx
  <2>2. HasOwnTx(g)
    <3>1. Len(chain) \in Nat
      BY LenProperties DEF Hash
    <3>. QED
      BY <2>1, <3>1 DEF HasOwnTx, Height
  <2>3. Range(f.stack) = Range(Tail(f.stack)) \cup {Head(f.stack)}
    <3>1. f.stack \in Seq(Cmd) /\ Head(f.stack) \in Cmd
      BY <2>1 DEF Factory
    <3>. QED
      BY <2>1, <3>1, StackRange
  <2>. QED
    BY <2>1, <2>2, <2>3 DEF Held
<1>. QED
  BY <1>1

\* Every callback keeps what is submitted, where no block is replaced.
LEMMA LossStep ==
    ASSUME TypeOK, Fits, WritesValid, NothingLost, MayCrash = {}, [Next]_vars,
           \A n \in Node : IsPrefix(store[n], store'[n])
    PROVE  NothingLost'
<1>f. \A n \in Node : factory[n] \in Factory /\ latest[n] \in Hash /\ latest'[n] \in Hash
  BY TypeStep DEF TypeOK
<1>h. \A c \in submitted : Home[c] \in Node /\ Held(c, factory[Home[c]], Chains(Home[c]))
  BY HomeAssumption DEF TypeOK, NothingLost, Held
<1>g. SUFFICES \A c \in submitted' : Held(c, factory'[Home[c]], Chains(Home[c])')
  BY DEF NothingLost, Held, HasOwnTx, CmdsOf
<1>k. ASSUME NEW n \in Node, NEW c, NEW chain \in Chains(n), c \in CmdsOf(chain)
      PROVE  \E d \in Chains(n)' : c \in CmdsOf(d)
  <2>1. chain # <<>>
    BY <1>k, ChainCmds, StartTypes
  <2>. QED
    BY <1>k, <2>1, TypeStep, ChainsStay
<1>s. ASSUME NEW n \in Node, NEW c, NEW f, NEW g, Held(c, f, Chains(n)),
             g.stack = f.stack, g.ownTx = f.ownTx
      PROVE  Held(c, g, Chains(n)')
  BY <1>k, <1>s DEF Held, HasOwnTx
<1>1. ASSUME NoTxMoves, NEW c \in submitted'
      PROVE  Held(c, factory'[Home[c]], Chains(Home[c])')
  <2>1. c \in submitted
    BY <1>1 DEF NoTxMoves
  <2>2. /\ factory'[Home[c]].stack = factory[Home[c]].stack
        /\ factory'[Home[c]].ownTx = factory[Home[c]].ownTx
    BY <1>1, <1>h, <2>1 DEF NoTxMoves, SameTxs
  <2>. QED
    BY <1>h, <1>s, <2>1, <2>2
<1>2. ASSUME NEW n \in Node, NEW f \in Factory, Prepared(n, f), DoAddTx(n, f),
             NEW c \in submitted'
      PROVE  Held(c, factory'[Home[c]], Chains(Home[c])')
  <2>1. PICK g \in Factory : /\ factory' = [factory EXCEPT ![n] = g]
                             /\ g = f \/ Signing(f, g, latest[n])
    BY <1>2, DoAddTxEffect
  <2>2. factory'[n] = g /\ \A p \in Node : p # n => factory'[p] = factory[p]
    BY <2>1 DEF TypeOK
  <2>3. /\ HasOwnTx(f) => f.ownTx = factory[n].ownTx
        /\ Range(factory[n].stack) \subseteq Range(f.stack)
        /\ HasOwnTx(factory[n]) =>
              HasOwnTx(f) \/ (f.stack # <<>> /\ Head(f.stack) = factory[n].ownTx.cmd)
        /\ c \in submitted \/ (n = Home[c] /\ c \in Range(f.stack))
    BY <1>2, PreparedFields
  <2>4. f.stack # <<>> => Head(f.stack) \in Range(f.stack)
    <3>1. f.stack # <<>> => f.stack \in Seq(Cmd) /\ Head(f.stack) \in Cmd
      BY DEF Factory
    <3>. QED
      BY <3>1, StackRange
  <2>5. CASE Home[c] = n
    <3>1. Held(c, f, Chains(n))
      <4>1. CASE c \in submitted
        <5>1. Held(c, factory[n], Chains(n))
          BY <1>h, <2>5, <4>1
        <5>. QED
          BY <2>3, <2>4, <5>1 DEF Held
      <4>2. CASE c \in Range(f.stack)
        BY <4>2 DEF Held
      <4>. QED
        BY <2>3, <4>1, <4>2
    <3>2. Held(c, g, Chains(n))
      BY <1>f, <2>1, <3>1, SigningHolds
    <3>. QED
      BY <1>s, <2>2, <2>5, <3>2
  <2>6. CASE Home[c] # n
    <3>1. factory'[Home[c]] = factory[Home[c]] /\ c \in submitted
      BY <1>2, <1>h, <2>2, <2>3, <2>6, HomeAssumption, TypeStep DEF TypeOK
    <3>. QED
      BY <1>h, <1>s, <3>1
  <2>. QED
    BY <2>5, <2>6
<1>3. ASSUME NEW n \in Node, NEW m \in msgs, NEW view, ReceiveAddTx(n, view, m),
             NEW c \in submitted'
      PROVE  Held(c, factory'[Home[c]], Chains(Home[c])')
  <2>. DEFINE g == ProcessAddTx(factory[n], m.tx, latest[n])
  <2>1. factory' = [factory EXCEPT ![n] = g] /\ UNCHANGED submitted
    BY <1>3 DEF ReceiveAddTx, Receive
  <2>2. g.stack = factory[n].stack /\ g.ownTx = factory[n].ownTx
    BY <1>f DEF ProcessAddTx, Arm, Factory
  <2>. HIDE DEF g
  <2>3. /\ factory'[Home[c]].stack = factory[Home[c]].stack
        /\ factory'[Home[c]].ownTx = factory[Home[c]].ownTx
    BY <1>h, <2>1, <2>2 DEF TypeOK
  <2>. QED
    BY <1>h, <1>s, <2>1, <2>3
<1>4. ASSUME NEW n \in Node, NEW i \in DOMAIN adding[n], FinishAdd(n, i), NEW c \in submitted'
      PROVE  Held(c, factory'[Home[c]], Chains(Home[c])')
  <2>0. PICK hash : hash = adding[n][i].hash
    OBVIOUS
  <2>. DEFINE f == factory[n]
              g == Arm(Clear(f, Last(hash)), "addTx")
  <2>1. /\ latest' = [latest EXCEPT ![n] = hash]
        /\ factory' = [factory EXCEPT ![n] = g] /\ UNCHANGED submitted
    BY <1>4, <2>0 DEF FinishAdd
  <2>2. hash # <<>>
    BY <2>0 DEF WritesValid, ValidCandidate
  <2>3. g.stack = IF HasOwnTx(f) /\ f.ownTx \notin Last(hash)
                  THEN <<f.ownTx.cmd>> \o f.stack ELSE f.stack
    BY DEF Clear, ClearedWith, Arm
  <2>. HIDE DEF g
  <2>4. latest'[n] = hash /\ factory'[n] = g
        /\ \A p \in Node : p # n => factory'[p] = factory[p]
    BY <2>1 DEF TypeOK
  <2>5. CASE Home[c] = n
    <3>1. Held(c, f, Chains(n))
      BY <1>h, <2>1, <2>5
    <3>2. hash \in Hash /\ hash \in Chains(n)'
      BY <1>f, <2>4 DEF Chains
    <3>3. \A tx \in Last(hash) : tx.cmd \in CmdsOf(hash)
      BY <2>2, <3>2, ChainCmds
    <3>4. f.stack \in Seq(Cmd) /\ (HasOwnTx(f) => f.ownTx.cmd \in Cmd)
      BY <1>f DEF Factory, HasOwnTx, NoTx, Tx
    <3>5. HasOwnTx(f) => Range(<<f.ownTx.cmd>> \o f.stack) = Range(f.stack) \cup {f.ownTx.cmd}
      BY <3>4, StackRange
    <3>6. Range(f.stack) \subseteq Range(g.stack)
          /\ (HasOwnTx(f) => f.ownTx.cmd \in Range(g.stack) \cup CmdsOf(hash))
      BY <2>3, <3>3, <3>5
    <3>7. Held(c, g, Chains(n)')
      BY <1>k, <3>1, <3>2, <3>6 DEF Held
    <3>. QED
      BY <2>4, <2>5, <3>7
  <2>6. CASE Home[c] # n
    <3>1. factory'[Home[c]] = factory[Home[c]] /\ c \in submitted
      BY <1>h, <2>1, <2>4, <2>6
    <3>. QED
      BY <1>h, <1>s, <3>1
  <2>. QED
    BY <2>5, <2>6
<1>5. \A n \in Node : ~Crash(n)
  BY DEF Crash
<1>6. \/ NoTxMoves
      \/ \E n \in Node, f \in Factory :
             Prepared(n, f) /\ DoAddTx(n, f) /\ UNCHANGED <<chainVars, adding>>
      \/ \E n \in Node, m \in msgs : \E view : ReceiveAddTx(n, view, m)
      \/ \E n \in Node : \E i \in DOMAIN adding[n] : FinishAdd(n, i)
  BY <1>5, TxStep
<1>. QED
  BY <1>1, <1>2, <1>3, <1>4, <1>6

\* In a steady network no submitted command list is lost, through retries,
\* late and repeated confirmations and syncs: it is on the stack or in the own
\* transaction of its node until it is in a block there.
THEOREM NothingIsLost ==
    ASSUME Steady PROVE Spec => []NothingLost
<1>1. Init => SteadyInv /\ WritesValid /\ NothingLost
  <2>1. Init => WritesValid /\ NothingLost
    BY DEF Init, WritesValid, NothingLost
  <2>. QED
    BY <2>1, SteadyInit
<1>2. SteadyInv /\ WritesValid /\ NothingLost /\ [Next]_vars
        => SteadyInv' /\ WritesValid' /\ NothingLost'
  <2>. SUFFICES ASSUME SteadyInv, WritesValid, NothingLost, [Next]_vars
                PROVE  SteadyInv' /\ WritesValid' /\ NothingLost'
    OBVIOUS
  <2>1. SteadyInv' /\ \A n \in Node : IsPrefix(store[n], store'[n])
    BY SteadyStep
  <2>2. TypeOK /\ Fits /\ MayCrash = {}
    BY DEF SteadyInv, Steady
  <2>. QED
    BY <2>1, <2>2, ValidStep, LossStep
<1>. QED
  BY <1>1, <1>2, PTL DEF Spec

-----------------------------------------------------------------------------
(* Blocks only have what was submitted.                                     *)

\* The commands of a chain, of the fields f of a node and of a message m are
\* all in S.
KnownTo(S, hash) == \A k \in DOMAIN hash : \A tx \in hash[k] : tx.cmd \in S

FieldsKnown(S, f) ==
    /\ Range(f.stack) \subseteq S
    /\ HasOwnTx(f) => f.ownTx.cmd \in S
    /\ \A tx \in f.pool : tx.cmd \in S
    /\ KnownTo(S, f.block.hash)

MessageKnown(S, m) == IF m.type = "AddTx" THEN m.tx.cmd \in S ELSE KnownTo(S, m.hash)

ChainsKnown == \A n \in Node : \A chain \in Chains(n) : KnownTo(submitted, chain)
FactoriesKnown == \A n \in Node : FieldsKnown(submitted, factory[n])
WritesKnown == \A n \in Node : \A i \in DOMAIN adding[n] : KnownTo(submitted, adding[n][i].hash)
QueuesKnown == \A n \in Node : \A i \in DOMAIN sync[n].queue : KnownTo(submitted, sync[n].queue[i])
MessagesKnown == \A m \in msgs : MessageKnown(submitted, m)

KnownInv == ChainsKnown /\ FactoriesKnown /\ WritesKnown /\ QueuesKnown /\ MessagesKnown

\* What a step leaves alone stays known, since clients only submit more.
LEMMA KnownKept ==
    ASSUME KnownInv, submitted \subseteq submitted'
    PROVE  /\ \A n \in Node : FieldsKnown(submitted', factory[n])
           /\ \A m \in msgs : MessageKnown(submitted', m)
           /\ UNCHANGED chainVars => ChainsKnown'
           /\ UNCHANGED factory => FactoriesKnown'
           /\ UNCHANGED adding => WritesKnown'
           /\ UNCHANGED sync => QueuesKnown'
           /\ UNCHANGED msgs => MessagesKnown'
<1>1. \A hash : KnownTo(submitted, hash) => KnownTo(submitted', hash)
  BY DEF KnownTo
<1>2. \A n \in Node : FieldsKnown(submitted', factory[n])
  BY <1>1 DEF KnownInv, FactoriesKnown, FieldsKnown
<1>3. \A m \in msgs : MessageKnown(submitted', m)
  BY <1>1 DEF KnownInv, MessagesKnown, MessageKnown
<1>4. UNCHANGED chainVars => ChainsKnown'
  <2>1. UNCHANGED chainVars => \A n \in Node : Chains(n)' = Chains(n)
    BY DEF chainVars, Chains
  <2>2. UNCHANGED chainVars => \A n \in Node : \A chain \in Chains(n)' : KnownTo(submitted', chain)
    BY <1>1, <2>1 DEF KnownInv, ChainsKnown
  <2>. QED
    BY <2>2 DEF ChainsKnown, KnownTo
<1>5. UNCHANGED adding => WritesKnown'
  BY <1>1 DEF KnownInv, WritesKnown
<1>6. UNCHANGED sync => QueuesKnown'
  BY <1>1 DEF KnownInv, QueuesKnown
<1>. QED
  BY <1>2, <1>3, <1>4, <1>5, <1>6 DEF FactoriesKnown, MessagesKnown

\* A node gets other fields; a message is sent; a node gets other writes.
LEMMA KnownReplaced ==
    ASSUME TypeOK, KnownInv, submitted \subseteq submitted', NEW n \in Node
    PROVE  /\ \A g : factory' = [factory EXCEPT ![n] = g] /\ FieldsKnown(submitted', g)
                     => FactoriesKnown'
           /\ \A m : msgs' = msgs \cup {m} /\ MessageKnown(submitted', m) => MessagesKnown'
           /\ \A ws : adding' = [adding EXCEPT ![n] = ws] /\ submitted' = submitted
                      /\ (\A i \in DOMAIN ws : KnownTo(submitted, ws[i].hash))
                      => WritesKnown'
<1>1. ASSUME NEW g, factory' = [factory EXCEPT ![n] = g], FieldsKnown(submitted', g)
      PROVE  FactoriesKnown'
  <2>1. \A p \in Node : FieldsKnown(submitted', factory'[p])
    BY <1>1, KnownKept DEF TypeOK
  <2>. QED
    BY <2>1 DEF FactoriesKnown, FieldsKnown, HasOwnTx, KnownTo
<1>2. ASSUME NEW m, msgs' = msgs \cup {m}, MessageKnown(submitted', m) PROVE MessagesKnown'
  <2>1. \A k \in msgs' : MessageKnown(submitted', k)
    BY <1>2, KnownKept
  <2>. QED
    BY <2>1 DEF MessagesKnown, MessageKnown, KnownTo
<1>3. ASSUME NEW ws, adding' = [adding EXCEPT ![n] = ws], submitted' = submitted,
             \A i \in DOMAIN ws : KnownTo(submitted, ws[i].hash)
      PROVE  WritesKnown'
  <2>1. \A p \in Node : \A i \in DOMAIN adding'[p] : KnownTo(submitted', adding'[p][i].hash)
    BY <1>3 DEF KnownInv, WritesKnown, TypeOK
  <2>. QED
    BY <2>1 DEF WritesKnown, KnownTo
<1>. QED
  BY <1>1, <1>2, <1>3

\* The block proposed, and one more write.
LEMMA KnownProposal ==
    ASSUME NEW S, NEW chain \in Hash, KnownTo(S, chain), NEW pool \in SUBSET Tx,
           \A tx \in pool : tx.cmd \in S
    PROVE  KnownTo(S, Append(chain, pool))
<1>1. Len(chain) \in Nat /\ DOMAIN chain = 1..Len(chain) /\ chain \in Seq(SUBSET Tx)
      /\ \A i \in 1..Len(chain) : chain[i] \in SUBSET Tx
  BY LenProperties, ElementOfSeq DEF Hash
<1>2. /\ DOMAIN Append(chain, pool) = 1..(Len(chain) + 1)
      /\ Append(chain, pool)[Len(chain) + 1] = pool
      /\ \A i \in 1..Len(chain) : Append(chain, pool)[i] = chain[i]
  BY <1>1, AppendProperties
<1>3. \A i \in DOMAIN Append(chain, pool) : i \in DOMAIN chain \/ i = Len(chain) + 1
  BY <1>1, <1>2
<1>. QED
  BY <1>1, <1>2, <1>3 DEF KnownTo

LEMMA KnownAppend ==
    ASSUME NEW S, NEW ws \in Seq(Write), NEW hash \in Hash, NEW b \in BOOLEAN,
           \A i \in DOMAIN ws : KnownTo(S, ws[i].hash), KnownTo(S, hash)
    PROVE  \A i \in DOMAIN Append(ws, [hash |-> hash, sync |-> b]) :
               KnownTo(S, Append(ws, [hash |-> hash, sync |-> b])[i].hash)
<1>. DEFINE w == [hash |-> hash, sync |-> b]
<1>1. w \in Write /\ w.hash = hash
  BY DEF Write
<1>2. Len(ws) \in Nat /\ DOMAIN ws = 1..Len(ws)
  BY LenProperties
<1>. HIDE DEF w
<1>3. /\ DOMAIN Append(ws, w) = 1..(Len(ws) + 1) /\ Append(ws, w)[Len(ws) + 1] = w
      /\ \A i \in 1..Len(ws) : Append(ws, w)[i] = ws[i]
  BY <1>1, <1>2, AppendProperties
<1>4. \A i \in DOMAIN Append(ws, w) : KnownTo(S, Append(ws, w)[i].hash)
  BY <1>1, <1>2, <1>3
<1>. QED
  BY <1>4 DEF w

\* The blocks a peer answers to a sync request are known as those it holds.
LEMMA AnswerKnown ==
    ASSUME TypeOK, Fits, ChainsKnown, NEW q \in Node, NEW h \in Nat \ {0}
    PROVE  \A i \in DOMAIN Answer(q, h) : KnownTo(submitted, Answer(q, h)[i])
<1>. SUFFICES ASSUME NEW i \in DOMAIN Answer(q, h) PROVE KnownTo(submitted, Answer(q, h)[i])
  OBVIOUS
<1>1. PICK k \in DOMAIN store[q] : Answer(q, h)[i] = store[q][k]
  BY AnswerType
<1>2. store[q][k] \in Chains(q)
  BY DEF Chains, Range
<1>. QED
  BY <1>1, <1>2 DEF ChainsKnown

\* The sync loop takes known blocks to the pending writes.
LEMMA ResumeSyncKnown ==
    ASSUME TypeOK, KnownInv, UNCHANGED submitted, NEW n \in Node, NEW queue \in Seq(Hash),
           NEW chain, NEW pending \in Seq(Write), ResumeSync(n, queue, chain, pending),
           \A i \in DOMAIN queue : KnownTo(submitted, queue[i]),
           \A i \in DOMAIN pending : KnownTo(submitted, pending[i].hash)
    PROVE  WritesKnown' /\ QueuesKnown'
<1>. DEFINE I == {i \in DOMAIN queue : Addable(queue[i], chain)}
<1>0. sync \in [Node -> SyncState]
  BY DEF TypeOK
<1>q. ASSUME NEW st, sync' = [sync EXCEPT ![n] = st],
             \A i \in DOMAIN st.queue : KnownTo(submitted, st.queue[i])
      PROVE  QueuesKnown'
  <2>1. \A p \in Node : \A i \in DOMAIN sync'[p].queue : KnownTo(submitted', sync'[p].queue[i])
    BY <1>0, <1>q DEF KnownInv, QueuesKnown
  <2>. QED
    BY <2>1 DEF QueuesKnown, KnownTo
<1>1. CASE sync' = [sync EXCEPT ![n] = SyncIdle] /\ adding' = [adding EXCEPT ![n] = pending]
  <2>1. SyncIdle.queue = <<>> /\ DOMAIN <<>> = {}
    BY DEF SyncIdle
  <2>2. WritesKnown'
    BY <1>1, KnownReplaced
  <2>. QED
    BY <1>1, <1>q, <2>1, <2>2
<1>2. ASSUME NEW i \in I,
             sync' = [sync EXCEPT ![n] = [phase |-> "apply", height |-> 0,
                                          queue |-> SubSeq(queue, i + 1, Len(queue))]],
             adding' = [adding EXCEPT ![n] = Append(pending, [hash |-> queue[i], sync |-> TRUE])]
      PROVE  WritesKnown' /\ QueuesKnown'
  <2>. DEFINE rest == SubSeq(queue, i + 1, Len(queue))
  <2>1. i \in 1..Len(queue) /\ Len(queue) \in Nat /\ queue[i] \in Hash
        /\ DOMAIN queue = 1..Len(queue) /\ \A j \in (i + 1)..Len(queue) : queue[j] \in Hash
    BY LenProperties, ElementOfSeq
  <2>2. WritesKnown'
    <3>1. \A j \in DOMAIN Append(pending, [hash |-> queue[i], sync |-> TRUE]) :
              KnownTo(submitted, Append(pending, [hash |-> queue[i], sync |-> TRUE])[j].hash)
      BY <2>1, KnownAppend
    <3>. QED
      BY <1>2, <3>1, KnownReplaced
  <2>3. \A j \in DOMAIN rest : KnownTo(submitted, rest[j])
    <3>1. rest \in Seq(Hash) /\ DOMAIN rest = 1..Len(rest)
      BY <2>1, SubSeqProperties
    <3>2. ASSUME NEW j \in 1..Len(rest) PROVE rest[j] = queue[i + j] /\ i + j \in DOMAIN queue
      BY <2>1
    <3>. QED
      BY <3>1, <3>2
  <2>. HIDE DEF rest
  <2>4. [phase |-> "apply", height |-> 0, queue |-> rest].queue = rest
    OBVIOUS
  <2>5. QueuesKnown'
    BY <1>2, <1>q, <2>3, <2>4 DEF rest
  <2>. QED
    BY <2>2, <2>5
<1>. QED
  BY <1>1, <1>2 DEF ResumeSync

\* doAddTx signs what was submitted.
LEMMA DoAddTxKnown ==
    ASSUME TypeOK, KnownInv, NEW n \in Node, NEW f \in Factory, Prepared(n, f), DoAddTx(n, f),
           UNCHANGED <<adding, sync>>, UNCHANGED chainVars
    PROVE  KnownInv'
<1>. DEFINE S == submitted'
<1>1. PICK g \in Factory :
            /\ factory' = [factory EXCEPT ![n] = g]
            /\ \/ g = f /\ UNCHANGED msgs
               \/ /\ Signing(f, g, latest[n])
                  /\ \/ UNCHANGED msgs
                     \/ \E m : /\ msgs' = msgs \cup {m} /\ m.type = "AddTx" /\ m.origin = n
                               /\ m.tx = NextTx(f, latest[n])
  BY DoAddTxEffect
<1>2. g.block = f.block
  <2>1. PICK h \in Factory : factory' = [factory EXCEPT ![n] = h] /\ h.block = f.block
    BY DoAddTxBlock
  <2>. QED
    BY <1>1, <2>1 DEF TypeOK
<1>3. /\ f.pool \subseteq factory[n].pool
      /\ HasOwnTx(f) => HasOwnTx(factory[n]) /\ f.ownTx = factory[n].ownTx
      /\ \A c \in Range(f.stack) :
            \/ c \in Range(factory[n].stack)
            \/ HasOwnTx(factory[n]) /\ c = factory[n].ownTx.cmd
            \/ c \in submitted'
      /\ submitted \subseteq submitted'
  BY PreparedFields
<1>4. FieldsKnown(S, factory[n])
  BY <1>3, KnownKept
<1>5. KnownTo(S, f.block.hash)
  <2>1. factory[n] \in Factory
    BY DEF TypeOK
  <2>2. f.block \in {factory[n].block, NoBlock}
    <3>1. \A c : Push(factory[n], c).block = factory[n].block
      BY <2>1 DEF Push, Factory
    <3>2. Disarm(factory[n], "addTx").block = factory[n].block
      BY <2>1 DEF Disarm, Factory
    <3>3. Clear(factory[n], {}).block = NoBlock
      BY DEF Clear, ClearedWith
    <3>. QED
      BY <3>1, <3>2, <3>3 DEF Prepared
  <2>3. KnownTo(S, NoBlock.hash)
    BY DEF KnownTo, NoBlock
  <2>. QED
    BY <1>4, <2>2, <2>3 DEF FieldsKnown
<1>6. FieldsKnown(S, f)
  BY <1>3, <1>4, <1>5 DEF FieldsKnown
<1>7. CASE g = f /\ UNCHANGED msgs
  <2>1. FactoriesKnown'
    BY <1>1, <1>3, <1>6, <1>7, KnownReplaced
  <2>. QED
    BY <1>3, <1>7, <2>1, KnownKept DEF KnownInv
<1>8. CASE Signing(f, g, latest[n])
  <2>1. /\ f.stack # <<>> /\ g.stack = Tail(f.stack) /\ g.ownTx = NextTx(f, latest[n])
        /\ g.pool \subseteq f.pool \cup {NextTx(f, latest[n])}
        /\ NextTx(f, latest[n]).cmd = Head(f.stack)
    BY <1>8 DEF Signing, NextTx
  <2>2. Range(f.stack) = Range(Tail(f.stack)) \cup {Head(f.stack)}
    <3>1. f.stack \in Seq(Cmd) /\ Head(f.stack) \in Cmd
      BY <2>1 DEF Factory
    <3>. QED
      BY <2>1, <3>1, StackRange
  <2>3. NextTx(f, latest[n]).cmd \in S
    BY <1>6, <2>1, <2>2 DEF FieldsKnown
  <2>4. FieldsKnown(S, g)
    BY <1>2, <1>6, <2>1, <2>2, <2>3 DEF FieldsKnown
  <2>5. FactoriesKnown'
    BY <1>1, <1>3, <2>4, KnownReplaced
  <2>6. MessagesKnown'
    <3>1. CASE UNCHANGED msgs
      BY <1>3, <3>1, KnownKept
    <3>2. ASSUME NEW m, msgs' = msgs \cup {m}, m.type = "AddTx", m.tx = NextTx(f, latest[n])
          PROVE  MessagesKnown'
      <4>1. MessageKnown(S, m)
        BY <2>3, <3>2 DEF MessageKnown
      <4>. QED
        BY <1>3, <3>2, <4>1, KnownReplaced
    <3>. QED
      BY <1>1, <1>7, <3>1, <3>2
  <2>. QED
    BY <1>3, <2>5, <2>6, KnownKept DEF KnownInv
<1>. QED
  BY <1>1, <1>7, <1>8

\* Every callback keeps the commands of all blocks, also of those that are
\* proposed, voted for, on their way or fetched, among the submitted ones.
LEMMA KnownStep ==
    ASSUME TypeOK, Fits, KnownInv, [Next]_vars
    PROVE  KnownInv'
<1>f. \A n \in Node : /\ factory[n] \in Factory /\ latest[n] \in Hash
                      /\ adding[n] \in Seq(Write) /\ sync[n].queue \in Seq(Hash)
                      /\ sync[n].height \in Nat /\ (sync[n].phase = "fetch" => sync[n].height # 0)
                      /\ store[n] \in Seq(Hash) /\ \A k \in DOMAIN store[n] : KnownTo(submitted, store[n][k])
                      /\ FieldsKnown(submitted, factory[n]) /\ KnownTo(submitted, latest[n])
                      /\ \A i \in DOMAIN adding[n] : KnownTo(submitted, adding[n][i].hash)
                      /\ \A i \in DOMAIN sync[n].queue : KnownTo(submitted, sync[n].queue[i])
  <2>1. \A n \in Node : /\ factory[n] \in Factory /\ latest[n] \in Hash /\ store[n] \in Seq(Hash)
                        /\ adding[n] \in Seq(Write) /\ sync[n] \in SyncState
    BY DEF TypeOK
  <2>2. \A n \in Node : /\ sync[n].queue \in Seq(Hash) /\ sync[n].height \in Nat
                        /\ sync[n].phase = "fetch" => sync[n].height # 0
    BY <2>1, SyncTypes
  <2>3. \A n \in Node : /\ FieldsKnown(submitted, factory[n])
                        /\ \A i \in DOMAIN adding[n] : KnownTo(submitted, adding[n][i].hash)
                        /\ \A i \in DOMAIN sync[n].queue : KnownTo(submitted, sync[n].queue[i])
    BY DEF KnownInv, FactoriesKnown, WritesKnown, QueuesKnown
  <2>4. \A n \in Node : /\ KnownTo(submitted, latest[n])
                        /\ \A k \in DOMAIN store[n] : KnownTo(submitted, store[n][k])
    BY DEF KnownInv, ChainsKnown, Chains, Range
  <2>. QED
    BY <2>1, <2>2, <2>3, <2>4
<1>m. \A m \in msgs : m \in Message /\ MessageKnown(submitted, m)
  BY DEF TypeOK, KnownInv, MessagesKnown
<1>b. ASSUME NEW f \in Factory, FieldsKnown(submitted, f)
      PROVE  /\ \A hash \in Hash : \A votes :
                    KnownTo(submitted, hash) =>
                        /\ FieldsKnown(submitted, WithBlock(f, hash, votes))
                        /\ FieldsKnown(submitted, SetupRetry(WithBlock(f, hash, votes)))
             /\ \A t : FieldsKnown(submitted, Disarm(f, t)) /\ FieldsKnown(submitted, Arm(f, t))
  BY <1>b DEF WithBlock, SetupRetry, Arm, Disarm, Factory, FieldsKnown, HasOwnTx
<1>n. ASSUME UNCHANGED <<chainVars, adding, sync, factory, submitted, msgs>> PROVE KnownInv'
  BY <1>n, KnownKept DEF KnownInv
<1>a. ASSUME NEW n \in Node, NEW hash \in Hash, NEW votes, StartAdd(n, hash, votes),
             KnownTo(submitted, hash), UNCHANGED submitted
      PROVE  WritesKnown'
  <2>1. CASE UNCHANGED adding
    BY <1>a, <2>1, KnownKept
  <2>2. CASE adding' = [adding EXCEPT ![n] = Append(adding[n], [hash |-> hash, sync |-> FALSE])]
    <3>1. \A i \in DOMAIN Append(adding[n], [hash |-> hash, sync |-> FALSE]) :
              KnownTo(submitted, Append(adding[n], [hash |-> hash, sync |-> FALSE])[i].hash)
      BY <1>a, <1>f, KnownAppend
    <3>. QED
      BY <1>a, <2>2, <3>1, KnownReplaced
  <2>. QED
    BY <1>a, <2>1, <2>2 DEF StartAdd
<1>c. ASSUME NEW n \in Node, NEW g, factory' = [factory EXCEPT ![n] = g],
             FieldsKnown(submitted, g), UNCHANGED submitted
      PROVE  FactoriesKnown'
  BY <1>c, KnownReplaced
<1>d. ASSUME NEW m, m.type # "AddTx", KnownTo(submitted, m.hash), UNCHANGED submitted,
             Broadcast(m)
      PROVE  MessagesKnown'
  <2>1. Node # {} /\ MessageKnown(submitted', m) /\ msgs' = msgs \cup {m}
    BY <1>d, NodeAssumption DEF MessageKnown, Broadcast
  <2>. QED
    BY <1>d, <2>1, KnownReplaced
<1>1. ASSUME NEW c \in Cmd, Submit(c) PROVE KnownInv'
  <2>1. Home[c] \in Node
    BY HomeAssumption
  <2>2. Push(factory[Home[c]], c) \in Factory /\ Prepared(Home[c], Push(factory[Home[c]], c))
    BY <1>1, <1>f, <2>1, FieldTypes DEF Submit, Prepared
  <2>. QED
    BY <1>1, <2>1, <2>2, DoAddTxKnown DEF Submit
<1>2. ASSUME NEW n \in Node, AddTxTimer(n) PROVE KnownInv'
  <2>1. Disarm(factory[n], "addTx") \in Factory /\ Prepared(n, Disarm(factory[n], "addTx"))
    BY <1>2, <1>f, FieldTypes DEF AddTxTimer, Prepared, Timer
  <2>. QED
    BY <1>2, <2>1, DoAddTxKnown DEF AddTxTimer
<1>3. ASSUME NEW n \in Node, ProposeTimer(n) PROVE KnownInv'
  <2>. DEFINE hash == Append(latest[n], factory[n].pool)
              m == [type |-> "ProposeBlock", origin |-> n,
                    seq |-> NextSeq(n, "ProposeBlock"), hash |-> hash]
  <2>1. factory[n].pool \in SUBSET Tx /\ hash \in Hash
    BY <1>f DEF Factory, Hash
  <2>2. KnownTo(submitted, hash)
    BY <1>f, <2>1, KnownProposal DEF FieldsKnown
  <2>3. Disarm(factory[n], "propose") \in Factory /\ FieldsKnown(submitted, Disarm(factory[n], "propose"))
    BY <1>f, <1>b, FieldTypes DEF Timer
  <2>4. /\ factory' = [factory EXCEPT ![n] = WithBlock(Disarm(factory[n], "propose"), hash, {n})]
        /\ Broadcast(m) /\ UNCHANGED <<chainVars, adding, sync, submitted>>
    BY <1>3 DEF ProposeTimer
  <2>5. m.type # "AddTx" /\ m.hash = hash
    OBVIOUS
  <2>. HIDE DEF hash, m
  <2>6. FactoriesKnown'
    BY <1>b, <1>c, <2>1, <2>2, <2>3, <2>4
  <2>7. MessagesKnown'
    BY <1>d, <2>2, <2>4, <2>5
  <2>. QED
    BY <2>4, <2>6, <2>7, KnownKept DEF KnownInv
<1>4. ASSUME NEW n \in Node, RetryTimer(n) PROVE KnownInv'
  <2>1. Clear(factory[n], {}) \in Factory /\ Prepared(n, Clear(factory[n], {}))
    BY <1>4, <1>f, ClearType DEF RetryTimer, Prepared
  <2>. QED
    BY <1>4, <2>1, DoAddTxKnown DEF RetryTimer
<1>5. ASSUME NEW n \in Node, NEW m \in msgs, NEW view, ReceiveAddTx(n, view, m) PROVE KnownInv'
  <2>1. /\ m.type = "AddTx" /\ UNCHANGED <<chainVars, adding, sync, submitted, msgs>>
        /\ factory' = [factory EXCEPT ![n] = ProcessAddTx(factory[n], m.tx, latest[n])]
    BY <1>5 DEF ReceiveAddTx, Receive, Quiet
  <2>2. m.tx.cmd \in submitted
    BY <1>m, <2>1 DEF MessageKnown
  <2>3. FieldsKnown(submitted, ProcessAddTx(factory[n], m.tx, latest[n]))
    BY <1>f, <2>2 DEF ProcessAddTx, Arm, Factory, FieldsKnown, HasOwnTx
  <2>4. FactoriesKnown'
    BY <1>c, <2>1, <2>3
  <2>. QED
    BY <2>1, <2>4, KnownKept DEF KnownInv
<1>6. ASSUME NEW n \in Node, NEW m \in msgs, NEW view, ReceiveProposeBlock(n, view, m)
      PROVE  KnownInv'
  <2>. DEFINE k == [type |-> "SignBlock", origin |-> n,
                    seq |-> NextSeq(n, "SignBlock"), hash |-> m.hash]
  <2>1. /\ m.type = "ProposeBlock" /\ Broadcast(k) /\ UNCHANGED <<chainVars, adding, sync, submitted>>
        /\ factory' = [factory EXCEPT ![n] = SetupRetry(WithBlock(factory[n], m.hash, {m.origin}))]
    BY <1>6 DEF ReceiveProposeBlock, Receive
  <2>2. m.hash \in Hash /\ KnownTo(submitted, m.hash)
    BY <1>m, <2>1, MessageType DEF MessageKnown
  <2>3. FactoriesKnown'
    BY <1>b, <1>c, <1>f, <2>1, <2>2
  <2>4. k.type # "AddTx" /\ k.hash = m.hash
    OBVIOUS
  <2>. HIDE DEF k
  <2>5. MessagesKnown'
    BY <1>d, <2>1, <2>2, <2>4
  <2>. QED
    BY <2>1, <2>3, <2>5, KnownKept DEF KnownInv
<1>7. ASSUME NEW n \in Node, NEW m \in msgs, NEW view, ReceiveSignBlock(n, view, m)
      PROVE  KnownInv'
  <2>. DEFINE hash == factory[n].block.hash
              votes == factory[n].block.votes \cup {m.origin}
              k == [type |-> "ConfirmBlock", origin |-> n,
                    seq |-> NextSeq(n, "ConfirmBlock"), hash |-> hash, votes |-> votes]
  <2>1. /\ UNCHANGED <<chainVars, sync, submitted>>
        /\ factory' = [factory EXCEPT ![n] = WithBlock(factory[n], hash, votes)]
        /\ \/ StartAdd(n, hash, votes) /\ Broadcast(k)
           \/ UNCHANGED <<adding, msgs>>
    BY <1>7 DEF ReceiveSignBlock, Receive, Quiet
  <2>2. hash \in Hash /\ KnownTo(submitted, hash)
    BY <1>f DEF FieldsKnown, Factory, Block
  <2>3. k.type # "AddTx" /\ k.hash = hash
    OBVIOUS
  <2>. HIDE DEF hash, votes, k
  <2>4. FactoriesKnown'
    BY <1>b, <1>c, <1>f, <2>1, <2>2
  <2>5. WritesKnown' /\ MessagesKnown'
    BY <1>a, <1>d, <2>1, <2>2, <2>3, KnownKept
  <2>. QED
    BY <2>1, <2>4, <2>5, KnownKept DEF KnownInv
<1>8. ASSUME NEW n \in Node, NEW m \in msgs, NEW view, ReceiveConfirmBlock(n, view, m)
      PROVE  KnownInv'
  <2>1. /\ m.type = "ConfirmBlock" /\ UNCHANGED <<chainVars, sync, submitted, msgs>>
        /\ factory' = [factory EXCEPT ![n] = WithBlock(factory[n], m.hash, m.votes)]
        /\ StartAdd(n, m.hash, m.votes)
    BY <1>8 DEF ReceiveConfirmBlock, Receive, Quiet
  <2>2. m.hash \in Hash /\ KnownTo(submitted, m.hash)
    BY <1>m, <2>1, MessageType DEF MessageKnown
  <2>3. FactoriesKnown'
    BY <1>b, <1>c, <1>f, <2>1, <2>2
  <2>4. WritesKnown'
    BY <1>a, <2>1, <2>2
  <2>. QED
    BY <2>1, <2>3, <2>4, KnownKept DEF KnownInv
<1>9. ASSUME NEW n \in Node, NEW i \in DOMAIN adding[n], FinishAdd(n, i) PROVE KnownInv'
  <2>0. PICK hash : hash = adding[n][i].hash
    OBVIOUS
  <2>. DEFINE rest == RemoveAt(adding[n], i)
              st == Put(store[n], hash)
              g == Arm(Clear(factory[n], Last(hash)), "addTx")
  <2>1. /\ latest' = [latest EXCEPT ![n] = hash] /\ store' = [store EXCEPT ![n] = st]
        /\ factory' = [factory EXCEPT ![n] = g] /\ UNCHANGED <<submitted, msgs>>
        /\ \/ ResumeSync(n, sync[n].queue, hash, rest)
           \/ adding' = [adding EXCEPT ![n] = rest] /\ UNCHANGED sync
    BY <1>9, <2>0 DEF FinishAdd, Quiet
  <2>2. /\ rest \in Seq(Write)
        /\ \A j \in DOMAIN rest : \E k \in DOMAIN adding[n] : rest[j] = adding[n][k]
    BY <1>f, Removed
  <2>3. KnownTo(submitted, hash) /\ \A j \in DOMAIN rest : KnownTo(submitted, rest[j].hash)
    BY <1>f, <2>0, <2>2
  <2>8. \A k \in DOMAIN st : KnownTo(submitted, st[k])
    <3>1. Fitting(store[n], latest[n], adding[n]) /\ hash \in Hash
      BY <1>f, <2>0, WriteTypes DEF Fits
    <3>2. \A k \in DOMAIN st : k = Len(hash) \/ (k \in DOMAIN store[n] /\ st[k] = store[n][k])
      BY <1>f, <2>0, <3>1, PutParts DEF Fitting
    <3>3. st[Len(hash)] = hash
      BY <1>f, <2>0, <3>1, PutParts DEF Fitting
    <3>. QED
      BY <1>f, <2>3, <3>2, <3>3
  <2>4. FieldsKnown(submitted, g)
    <3>1. /\ g.pool = {} /\ ~HasOwnTx(g) /\ g.block.hash = <<>>
          /\ g.stack = IF HasOwnTx(factory[n]) /\ factory[n].ownTx \notin Last(hash)
                       THEN <<factory[n].ownTx.cmd>> \o factory[n].stack ELSE factory[n].stack
      BY DEF Clear, ClearedWith, Arm, HasOwnTx, NoTx, NoBlock
    <3>2. factory[n].stack \in Seq(Cmd) /\ (HasOwnTx(factory[n]) => factory[n].ownTx.cmd \in Cmd)
      BY <1>f DEF Factory, HasOwnTx, NoTx, Tx
    <3>3. HasOwnTx(factory[n]) => Range(<<factory[n].ownTx.cmd>> \o factory[n].stack)
                                    = Range(factory[n].stack) \cup {factory[n].ownTx.cmd}
      BY <3>2, StackRange
    <3>. HIDE DEF g
    <3>4. Range(g.stack) \subseteq submitted
      BY <1>f, <3>1, <3>3 DEF FieldsKnown
    <3>5. KnownTo(submitted, <<>>)
      BY DEF KnownTo
    <3>. QED
      BY <3>1, <3>4, <3>5 DEF FieldsKnown
  <2>. HIDE DEF st, rest, g
  <2>5. FactoriesKnown'
    BY <1>c, <2>1, <2>4
  <2>6. WritesKnown' /\ QueuesKnown'
    <3>1. CASE ResumeSync(n, sync[n].queue, hash, rest)
      BY <1>f, <2>1, <2>2, <2>3, <3>1, ResumeSyncKnown
    <3>2. CASE adding' = [adding EXCEPT ![n] = rest] /\ UNCHANGED sync
      BY <2>1, <2>3, <3>2, KnownReplaced, KnownKept
    <3>. QED
      BY <2>1, <3>1, <3>2
  <2>7. ChainsKnown'
    <3>1. \A p \in Node : latest'[p] = latest[p] \/ latest'[p] = hash
      BY <2>1 DEF TypeOK
    <3>2. \A p \in Node : store'[p] = store[p] \/ store'[p] = st
      BY <2>1 DEF TypeOK
    <3>3. \A p \in Node : KnownTo(submitted', latest'[p])
                          /\ \A k \in DOMAIN store'[p] : KnownTo(submitted', store'[p][k])
      BY <1>f, <2>1, <2>3, <2>8, <3>1, <3>2
    <3>. QED
      BY <3>3 DEF ChainsKnown, KnownTo, Chains, Range
  <2>. QED
    BY <2>1, <2>5, <2>6, <2>7, KnownKept DEF KnownInv
<1>10. ASSUME NEW n \in Node, NEW q \in Node, FetchSync(n, q) PROVE KnownInv'
  <2>1. /\ ResumeSync(n, Answer(q, sync[n].height), latest[n], adding[n])
        /\ UNCHANGED <<chainVars, factory, submitted, msgs>>
    BY <1>10 DEF FetchSync, netVars
  <2>0. sync[n].height \in Nat \ {0}
    BY <1>10, <1>f DEF FetchSync
  <2>2. Answer(q, sync[n].height) \in Seq(Hash)
    BY <2>0, AnswerType
  <2>3. \A i \in DOMAIN Answer(q, sync[n].height) :
            KnownTo(submitted, Answer(q, sync[n].height)[i])
    BY <2>0, AnswerKnown DEF KnownInv
  <2>4. WritesKnown' /\ QueuesKnown'
    BY <1>f, <2>1, <2>2, <2>3, ResumeSyncKnown
  <2>. QED
    BY <2>1, <2>4, KnownKept DEF KnownInv
<1>11. ASSUME NEW n \in Node, NEW q \in Node, ReceiveStatus(n, q) \/ FetchFails(n)
       PROVE  KnownInv'
  <2>1. UNCHANGED <<chainVars, adding, factory, submitted, msgs>>
    BY <1>11 DEF ReceiveStatus, FetchFails, netVars
  <2>2. \A p \in Node : sync'[p].queue = sync[p].queue \/ sync'[p].queue = <<>>
    <3>1. sync \in [Node -> SyncState] /\ SyncIdle.queue = <<>>
      BY DEF TypeOK, SyncIdle
    <3>2. \/ UNCHANGED sync
          \/ sync' = [sync EXCEPT ![n] = [phase |-> "fetch", height |-> Height(latest[n]),
                                         queue |-> <<>>]]
          \/ sync' = [sync EXCEPT ![n] = SyncIdle]
      BY <1>11 DEF ReceiveStatus, FetchFails
    <3>. QED
      BY <3>1, <3>2
  <2>3. \A p \in Node : \A i \in DOMAIN sync'[p].queue : KnownTo(submitted', sync'[p].queue[i])
    BY <1>f, <2>1, <2>2
  <2>4. QueuesKnown'
    BY <2>3 DEF QueuesKnown, KnownTo
  <2>. QED
    BY <2>1, <2>4, KnownKept DEF KnownInv
<1>12. ASSUME NEW n \in Node, Crash(n) PROVE KnownInv'
  <2>1. PICK st \in {FoundAfterCrash(n, w) : w \in SUBSET DOMAIN adding[n]} \cup {<<>>} :
             /\ store' = [store EXCEPT ![n] = st]
             /\ latest' = [latest EXCEPT ![n] = IF st = <<>> THEN <<>> ELSE Last(st)]
    BY <1>12 DEF Crash
  <2>2. /\ UNCHANGED <<submitted, msgs>> /\ factory' = [factory EXCEPT ![n] = EmptyFactory]
        /\ adding' = [adding EXCEPT ![n] = <<>>] /\ sync' = [sync EXCEPT ![n] = SyncIdle]
    BY <1>12 DEF Crash, Quiet
  <2>3. \A k \in DOMAIN st : KnownTo(submitted, st[k])
    <3>1. CASE st = <<>>
      BY <3>1
    <3>2. ASSUME NEW w \in SUBSET DOMAIN adding[n], st = FoundAfterCrash(n, w)
          PROVE  \A k \in DOMAIN st : KnownTo(submitted, st[k])
      <4>1. \A k \in DOMAIN st : \/ k \in DOMAIN store[n] /\ st[k] = store[n][k]
                                 \/ \E i \in DOMAIN adding[n] : st[k] = adding[n][i].hash
        BY <3>2, CrashStore
      <4>. QED
        BY <1>f, <4>1
    <3>. QED
      BY <2>1, <3>1, <3>2
  <2>8. KnownTo(submitted, IF st = <<>> THEN <<>> ELSE Last(st))
    <3>1. CASE st = <<>>
      BY <3>1 DEF KnownTo
    <3>2. CASE st # <<>>
      <4>1. st \in Seq(Hash)
        BY <2>1, CrashFits
      <4>2. Len(st) \in DOMAIN st /\ Last(st) = st[Len(st)]
        BY <3>2, <4>1, LenProperties, EmptySeq DEF Last
      <4>. QED
        BY <2>3, <3>2, <4>2
    <3>. QED
      BY <3>1, <3>2
  <2>4. ChainsKnown'
    <3>1. \A p \in Node : latest'[p] = latest[p] \/ latest'[p] = IF st = <<>> THEN <<>> ELSE Last(st)
      BY <2>1 DEF TypeOK
    <3>2. \A p \in Node : store'[p] = store[p] \/ store'[p] = st
      BY <2>1 DEF TypeOK
    <3>3. \A p \in Node : KnownTo(submitted', latest'[p])
                          /\ \A k \in DOMAIN store'[p] : KnownTo(submitted', store'[p][k])
      BY <1>f, <2>2, <2>3, <2>8, <3>1, <3>2
    <3>. QED
      BY <3>3 DEF ChainsKnown, KnownTo, Chains, Range
  <2>5. FactoriesKnown'
    <3>1. FieldsKnown(submitted, EmptyFactory)
      BY DEF FieldsKnown, EmptyFactory, HasOwnTx, NoTx, NoBlock, KnownTo, Range
    <3>. QED
      BY <1>c, <2>2, <3>1
  <2>6. WritesKnown'
    <3>1. \A i \in DOMAIN <<>> : KnownTo(submitted, <<>>[i].hash)
      OBVIOUS
    <3>. QED
      BY <2>2, <3>1, KnownReplaced
  <2>7. QueuesKnown'
    <3>1. SyncIdle.queue = <<>> /\ DOMAIN <<>> = {}
      BY DEF SyncIdle
    <3>2. \A p \in Node : \A i \in DOMAIN sync'[p].queue : KnownTo(submitted', sync'[p].queue[i])
      BY <1>f, <2>2, <3>1 DEF TypeOK
    <3>. QED
      BY <3>2 DEF QueuesKnown, KnownTo
  <2>. QED
    BY <2>2, <2>4, <2>5, <2>6, <2>7, KnownKept DEF KnownInv
<1>13. ASSUME NEW n \in Node, NEW p \in Node, GoOffline(n, p) PROVE KnownInv'
  BY <1>13, <1>n DEF GoOffline, netVars
<1>14. ASSUME NEW n \in Node, NEW m \in msgs, NEW view, Ignore(n, view, m) PROVE KnownInv'
  BY <1>14, <1>n DEF Ignore, Receive, Quiet
<1>15. CASE UNCHANGED vars
  BY <1>15, <1>n DEF vars, chainVars
<1>16. CASE Next
  BY <1>16, <1>1, <1>2, <1>3, <1>4, <1>5, <1>6, <1>7, <1>8, <1>9, <1>10, <1>11, <1>12,
     <1>13, <1>14 DEF Next
<1>. QED
  BY <1>15, <1>16

\* All blocks on all chains, and all that may still become ones, only have
\* commands that a client submitted: whatever fails.
THEOREM BlocksWereSubmitted == Spec => []KnownInv
<1>1. Init => TypeOK /\ Fits /\ KnownInv
  <2>1. Init => TypeOK /\ Fits
    BY InitFits
  <2>2. Init => KnownInv
    BY DEF Init, KnownInv, ChainsKnown, Chains, FactoriesKnown, WritesKnown, QueuesKnown, MessagesKnown,
       KnownTo, FieldsKnown, EmptyFactory, HasOwnTx, NoTx, NoBlock, SyncIdle, Range
  <2>. QED
    BY <2>1, <2>2
<1>2. TypeOK /\ Fits /\ KnownInv /\ [Next]_vars => TypeOK' /\ Fits' /\ KnownInv'
  BY TypeStep, FitsStep, KnownStep
<1>. QED
  BY <1>1, <1>2, PTL DEF Spec

-----------------------------------------------------------------------------
(* The refinement of the ledger.                                            *)

\* The chain m is the longest one of C.  There is one among the chains of all
\* nodes: a step adds at most one block at the end.
Top(C, m) == m \in C /\ \A c \in C : Len(c) <= Len(m)
SomeLongest == \E m : Top(AllChains, m)

LedgerInv == SteadyInv /\ WritesValid /\ KnownInv /\ SomeLongest

LongestOf(C) == CHOOSE chain \in C : \A c \in C : Len(c) <= Len(chain)
AllAgree(C) == \A c, d \in C : IsPrefix(c, d) \/ IsPrefix(d, c)

\* A prefix of the same length is the whole.
LEMMA WholePrefix ==
    ASSUME NEW c \in Hash, NEW d \in Hash
    PROVE  /\ IsPrefix(c, d) /\ Len(c) = Len(d) => c = d
           /\ IsPrefix(c, c)
<1>1. c \in Seq(SUBSET Tx) /\ d \in Seq(SUBSET Tx) /\ Len(c) \in Nat /\ Len(d) \in Nat
  BY LenProperties DEF Hash
<1>2. SubSeq(c, 1, Len(c)) = c /\ SubSeq(d, 1, Len(d)) = d
  BY <1>1, SubSeqFull
<1>3. ASSUME IsPrefix(c, d), Len(c) = Len(d)
      PROVE  c = d
  <2>1. SubSeq(c, 1, Len(c)) = SubSeq(d, 1, Len(c))
    BY <1>1, <1>3 DEF IsPrefix
  <2>2. SubSeq(d, 1, Len(c)) = d
    BY <1>2, <1>3
  <2>. QED
    BY <1>2, <2>1, <2>2
<1>4. IsPrefix(c, c)
  BY <1>1 DEF IsPrefix
<1>. QED
  BY <1>3, <1>4

\* Of chains that agree the longest one is unique, and the others are its prefixes.
LEMMA LongestUnique ==
    ASSUME NEW C \in SUBSET Hash, AllAgree(C), NEW m, Top(C, m)
    PROVE  /\ LongestOf(C) = m
           /\ \A c \in C : IsPrefix(c, m)
<1>1. m \in C /\ \A c \in C : c \in Hash /\ Len(c) \in Nat /\ Len(c) <= Len(m)
  BY LenProperties DEF Hash, Top
<1>2. ASSUME NEW c \in C PROVE IsPrefix(c, m)
  <2>1. CASE IsPrefix(m, c)
    <3>1. Len(m) <= Len(c) /\ Len(c) <= Len(m)
      BY <1>1, <2>1 DEF IsPrefix
    <3>2. Len(m) = Len(c)
      BY <1>1, <3>1
    <3>. QED
      BY <1>1, <2>1, <3>2, WholePrefix
  <2>. QED
    BY <1>1, <2>1 DEF AllAgree
<1>3. PICK top : top = LongestOf(C)
  OBVIOUS
<1>4. top \in C /\ \A c \in C : Len(c) <= Len(top)
  BY <1>1, <1>3 DEF LongestOf
<1>5. Len(top) <= Len(m) /\ Len(m) <= Len(top) /\ Len(top) \in Nat /\ Len(m) \in Nat
  BY <1>1, <1>4
<1>6. Len(top) = Len(m) /\ IsPrefix(top, m) /\ top \in Hash /\ m \in Hash
  BY <1>1, <1>2, <1>4, <1>5
<1>7. top = m
  BY <1>6, WholePrefix
<1>. QED
  BY <1>2, <1>3, <1>7

LEMMA AllChainsAgree ==
    ASSUME SteadyInv PROVE AllChains \in SUBSET Hash /\ AllAgree(AllChains)
<1>1. \A c \in AllChains : c \in Hash
  BY ChainsAreSettled DEF AllChains
<1>2. AllAgree(AllChains)
  BY SettledChainsAgree DEF Agreement, AllAgree, AllChains
<1>. QED
  BY <1>1, <1>2

\* What the clients see of a prefix, and of a chain with one more block.
LEMMA CommandsParts ==
    ASSUME NEW chain \in Hash, NEW hash \in Hash
    PROVE  /\ Commands(chain) \in Seq(SUBSET Cmd) /\ Len(Commands(chain)) = Len(chain)
           /\ IsPrefix(chain, hash) => Commands(chain) = SubSeq(Commands(hash), 1, Len(chain))
           /\ Extends(hash, chain) =>
                  Commands(hash) = Append(Commands(chain), {tx.cmd : tx \in Last(hash)})
<1>1. ASSUME NEW c \in Hash
      PROVE  /\ Len(c) \in Nat /\ DOMAIN c = 1..Len(c)
             /\ Commands(c) \in Seq(SUBSET Cmd) /\ Len(Commands(c)) = Len(c)
             /\ DOMAIN Commands(c) = 1..Len(c)
             /\ \A k \in 1..Len(c) : Commands(c)[k] = {tx.cmd : tx \in c[k]}
  <2>1. Len(c) \in Nat /\ DOMAIN c = 1..Len(c) /\ \A k \in 1..Len(c) : c[k] \in SUBSET Tx
    BY LenProperties, ElementOfSeq DEF Hash
  <2>2. \A k \in 1..Len(c) : {tx.cmd : tx \in c[k]} \in SUBSET Cmd
    BY <2>1 DEF Tx
  <2>3. Commands(c) \in [1..Len(c) -> SUBSET Cmd]
    BY <2>1, <2>2 DEF Commands
  <2>4. Commands(c) \in Seq(SUBSET Cmd)
    BY <2>1, <2>3, SeqDef
  <2>. QED
    BY <2>1, <2>3, <2>4, LenProperties DEF Commands
<1>2. ASSUME IsPrefix(chain, hash) PROVE Commands(chain) = SubSeq(Commands(hash), 1, Len(chain))
  <2>. DEFINE k == Len(chain)
              s == SubSeq(Commands(hash), 1, k)
  <2>1. k <= Len(hash) /\ k \in Nat /\ Len(hash) \in Nat
    BY <1>1, <1>2 DEF IsPrefix
  <2>2. ASSUME NEW i \in 1..k PROVE chain[i] = hash[i]
    <3>1. SubSeq(chain, 1, k) = SubSeq(hash, 1, k)
      BY <1>2 DEF IsPrefix
    <3>2. SubSeq(chain, 1, k)[i] = chain[i] /\ SubSeq(hash, 1, k)[i] = hash[i]
      BY <2>1 DEF Hash
    <3>. QED
      BY <3>1, <3>2
  <2>3. s \in Seq(SUBSET Cmd) /\ DOMAIN s = 1..k /\ \A i \in 1..k : s[i] = Commands(hash)[i]
    BY <1>1, <2>1
  <2>4. ASSUME NEW i \in 1..k PROVE Commands(hash)[i] = Commands(chain)[i]
    <3>1. i \in 1..Len(hash)
      BY <2>1
    <3>2. /\ Commands(chain)[i] = {tx.cmd : tx \in chain[i]}
          /\ Commands(hash)[i] = {tx.cmd : tx \in hash[i]}
      BY <1>1, <3>1
    <3>. QED
      BY <2>2, <3>2
  <2>. QED
    BY <1>1, <2>3, <2>4
<1>3. ASSUME Extends(hash, chain)
      PROVE  Commands(hash) = Append(Commands(chain), {tx.cmd : tx \in Last(hash)})
  <2>. DEFINE k == Len(chain)
              block == {tx.cmd : tx \in Last(hash)}
              s == Append(Commands(chain), block)
  <2>1. k \in Nat /\ Len(hash) = k + 1 /\ \A i \in 1..k : SubSeq(hash, 1, i) = SubSeq(chain, 1, i)
    BY <1>3, ExtensionParts
  <2>2. ASSUME NEW i \in 1..k PROVE chain[i] = hash[i]
    <3>1. SubSeq(chain, 1, i)[i] = chain[i] /\ SubSeq(hash, 1, i)[i] = hash[i]
      BY <2>1 DEF Hash
    <3>. QED
      BY <2>1, <3>1
  <2>3. Last(hash) = hash[k + 1] /\ hash[k + 1] \in SUBSET Tx
    BY <1>1, <2>1, ElementOfSeq DEF Last, Hash
  <2>4. block \in SUBSET Cmd
    BY <2>3 DEF Tx
  <2>5. Commands(hash)[k + 1] = block
    BY <1>1, <2>1, <2>3
  <2>. HIDE DEF block
  <2>6. s \in Seq(SUBSET Cmd) /\ DOMAIN s = 1..(k + 1) /\ s[k + 1] = block
        /\ \A i \in 1..k : s[i] = Commands(chain)[i]
    BY <1>1, <2>1, <2>4, AppendProperties
  <2>. HIDE DEF s
  <2>7. ASSUME NEW i \in 1..k PROVE Commands(hash)[i] = Commands(chain)[i]
    <3>1. i \in 1..Len(hash)
      BY <2>1
    <3>2. /\ Commands(chain)[i] = {tx.cmd : tx \in chain[i]}
          /\ Commands(hash)[i] = {tx.cmd : tx \in hash[i]}
      BY <1>1, <3>1
    <3>. QED
      BY <2>2, <3>2
  <2>8. \A i \in 1..(k + 1) : Commands(hash)[i] = s[i]
    BY <2>1, <2>5, <2>6, <2>7
  <2>9. Commands(hash) = s
    BY <1>1, <2>1, <2>6, <2>8
  <2>. QED
    BY <2>9 DEF s, block
<1>. QED
  BY <1>1, <1>2, <1>3

\* Chains only change when a call of add() ends, and then by one valid block,
\* which follows a block of the store.
LEMMA OneBlockMore ==
    ASSUME Steady, SteadyInv, WritesValid, [Next]_vars
    PROVE  \/ UNCHANGED <<latest, store>>
           \/ /\ UNCHANGED submitted
              /\ \E n \in Node : \E hash \in Hash :
                    /\ latest' = [latest EXCEPT ![n] = hash]
                    /\ store' = [store EXCEPT ![n] = Put(store[n], hash)]
                    /\ Len(hash) \in 1..(Len(store[n]) + 1) /\ ValidCandidate(hash)
<1>1. ASSUME NEW n \in Node, NEW i \in DOMAIN adding[n], FinishAdd(n, i)
      PROVE  /\ UNCHANGED submitted
             /\ \E hash \in Hash :
                    /\ latest' = [latest EXCEPT ![n] = hash]
                    /\ store' = [store EXCEPT ![n] = Put(store[n], hash)]
                    /\ Len(hash) \in 1..(Len(store[n]) + 1) /\ ValidCandidate(hash)
  <2>1. PICK hash : hash = adding[n][i].hash
    OBVIOUS
  <2>2. /\ latest' = [latest EXCEPT ![n] = hash] /\ UNCHANGED submitted
        /\ store' = [store EXCEPT ![n] = Put(store[n], hash)]
    BY <1>1, <2>1 DEF FinishAdd
  <2>3. adding[n] \in Seq(Write) /\ Fitting(store[n], latest[n], adding[n])
    BY DEF SteadyInv, TypeOK, Fits
  <2>4. hash \in Hash /\ Len(hash) \in 1..(Len(store[n]) + 1) /\ ValidCandidate(hash)
    BY <2>1, <2>3, WriteTypes DEF Fitting, WritesValid
  <2>. QED
    BY <2>2, <2>4
<1>2. ASSUME NEW c \in Cmd, Submit(c) PROVE UNCHANGED <<latest, store>>
  BY <1>2 DEF Submit, chainVars
<1>3. ASSUME NEW n \in Node,
             \/ AddTxTimer(n) \/ ProposeTimer(n) \/ RetryTimer(n) \/ FetchFails(n)
             \/ (\E q \in Node : FetchSync(n, q) \/ ReceiveStatus(n, q) \/ GoOffline(n, q))
      PROVE  UNCHANGED <<latest, store>>
  BY <1>3 DEF AddTxTimer, ProposeTimer, RetryTimer, FetchFails, FetchSync, ReceiveStatus,
     GoOffline, chainVars
<1>4. ASSUME NEW n \in Node, NEW m, NEW view,
             \/ ReceiveAddTx(n, view, m) \/ ReceiveProposeBlock(n, view, m)
             \/ ReceiveSignBlock(n, view, m) \/ ReceiveConfirmBlock(n, view, m)
             \/ Ignore(n, view, m)
      PROVE  UNCHANGED <<latest, store>>
  BY <1>4 DEF ReceiveAddTx, ReceiveProposeBlock, ReceiveSignBlock, ReceiveConfirmBlock, Ignore,
     Receive, chainVars
<1>5. ASSUME NEW n \in Node PROVE ~Crash(n)
  BY DEF Steady, Crash
<1>6. CASE UNCHANGED vars
  BY <1>6 DEF vars
<1>7. CASE Next
  BY <1>1, <1>2, <1>3, <1>4, <1>5, <1>7 DEF Next
<1>. QED
  BY <1>6, <1>7

\* Clients submit commands one by one; nothing else changes what is submitted.
LEMMA SubmittedStep ==
    ASSUME [Next]_vars
    PROVE  UNCHANGED submitted \/ \E c \in Cmd : c \notin submitted /\ submitted' = submitted \cup {c}
<1>1. ASSUME NEW c \in Cmd, Submit(c) PROVE c \notin submitted /\ submitted' = submitted \cup {c}
  BY <1>1 DEF Submit
<1>2. ASSUME NEW n \in Node,
             \/ AddTxTimer(n) \/ ProposeTimer(n) \/ RetryTimer(n) \/ FetchFails(n)
             \/ (\E i \in DOMAIN adding[n] : FinishAdd(n, i)) \/ Crash(n)
             \/ (\E q \in Node : FetchSync(n, q) \/ ReceiveStatus(n, q) \/ GoOffline(n, q))
      PROVE  UNCHANGED submitted
  BY <1>2 DEF AddTxTimer, ProposeTimer, RetryTimer, FetchFails, FinishAdd, Crash, FetchSync,
     ReceiveStatus, GoOffline
<1>3. ASSUME NEW n \in Node, NEW m, NEW view,
             \/ ReceiveAddTx(n, view, m) \/ ReceiveProposeBlock(n, view, m)
             \/ ReceiveSignBlock(n, view, m) \/ ReceiveConfirmBlock(n, view, m)
             \/ Ignore(n, view, m)
      PROVE  UNCHANGED submitted
  BY <1>3 DEF ReceiveAddTx, ReceiveProposeBlock, ReceiveSignBlock, ReceiveConfirmBlock, Ignore, Receive
<1>. QED
  BY <1>1, <1>2, <1>3 DEF Next, vars

\* The chains of all nodes after such a step: there is no other new one, and
\* none but genesis is gone.
LEMMA ChainsAfter ==
    ASSUME TypeOK, Fits, TypeOK', \A p \in Node : IsPrefix(store[p], store'[p]),
           NEW n \in Node, NEW hash \in Hash, latest' = [latest EXCEPT ![n] = hash],
           store' = [store EXCEPT ![n] = Put(store[n], hash)],
           Len(hash) \in 1..(Len(store[n]) + 1), NEW m, Top(AllChains, m)
    PROVE  /\ hash \in AllChains' /\ Len(hash) <= Len(m) + 1
           /\ AllChains' \subseteq AllChains \cup {hash}
           /\ \A c \in AllChains : c = <<>> \/ c \in AllChains'
<1>t. /\ store \in [Node -> Seq(Hash)] /\ latest \in [Node -> Hash] /\ store[n] \in Seq(Hash)
      /\ \A k \in DOMAIN store[n] : Len(store[n][k]) = k
  BY DEF TypeOK, Fits, Fitting
<1>1. hash \in AllChains'
  BY <1>t DEF AllChains, Chains
<1>2. \A c \in AllChains : c = <<>> \/ c \in AllChains'
  BY ChainsStay DEF AllChains
<1>3. Len(hash) <= Len(m) + 1
  <2>1. Len(store[n]) \in Nat /\ DOMAIN store[n] = 1..Len(store[n])
    BY <1>t, LenProperties
  <2>2. CASE Len(store[n]) = 0
    <3>1. m \in AllChains
      BY DEF Top
    <3>2. Len(m) \in Nat
      <4>1. AllChains \subseteq Hash
        <5>1. \A p \in Node : store[p] \in Seq(Hash) /\ \A k \in DOMAIN store[p] : store[p][k] \in Hash
          BY <1>t, LenProperties, ElementOfSeq
        <5>. QED
          BY <1>t, <5>1 DEF AllChains, Chains, Range
      <4>. QED
        BY <3>1, <4>1, LenProperties DEF Hash
    <3>3. PICK j \in Nat : j = Len(m)
      BY <3>2
    <3>4. Len(hash) \in 1..(0 + 1)
      BY <2>2
    <3>5. Len(hash) = 1
      BY <3>4
    <3>6. 1 <= j + 1
      OBVIOUS
    <3>. QED
      BY <3>3, <3>5, <3>6
  <2>3. CASE Len(store[n]) # 0
    <3>1. Len(store[n]) \in DOMAIN store[n]
      BY <2>1, <2>3
    <3>2. store[n][Len(store[n])] \in AllChains /\ Len(store[n][Len(store[n])]) = Len(store[n])
      BY <1>t, <3>1 DEF AllChains, Chains, Range
    <3>3. Len(store[n]) <= Len(m)
      BY <3>2 DEF Top
    <3>4. PICK k \in Nat : k = Len(store[n])
      BY <2>1
    <3>5. m \in Hash
      <4>1. \A p \in Node : store[p] \in Seq(Hash) /\ \A j \in DOMAIN store[p] : store[p][j] \in Hash
        BY <1>t, LenProperties, ElementOfSeq
      <4>. QED
        BY <1>t, <4>1 DEF AllChains, Chains, Range, Top
    <3>6. Len(m) \in Nat
      BY <3>5, LenProperties DEF Hash
    <3>7. PICK j \in Nat : j = Len(m)
      BY <3>6
    <3>8. k <= j
      BY <3>3, <3>4, <3>7
    <3>9. Len(hash) \in 1..(k + 1)
      BY <3>4
    <3>10. PICK i \in Int : i = Len(hash)
      BY <3>9
    <3>11. i <= j + 1
      BY <3>8, <3>9, <3>10
    <3>. QED
      BY <3>7, <3>10, <3>11
  <2>. QED
    BY <2>2, <2>3
<1>4. ASSUME NEW c \in AllChains' PROVE c \in AllChains \/ c = hash
  <2>1. PICK p \in Node : c = latest'[p] \/ c \in Range(store'[p])
    BY DEF AllChains, Chains
  <2>2. CASE p # n
    <3>1. latest'[p] = latest[p] /\ store'[p] = store[p]
      BY <1>t, <2>2
    <3>. QED
      BY <2>1, <3>1 DEF AllChains, Chains
  <2>3. CASE p = n /\ c \in Range(store'[n])
    <3>1. PICK st : st = Put(store[n], hash)
      OBVIOUS
    <3>2. \A k \in DOMAIN st : k = Len(hash) \/ (k \in DOMAIN store[n] /\ st[k] = store[n][k])
      BY <1>t, <3>1, PutParts
    <3>3. st[Len(hash)] = hash /\ store'[n] = st
      BY <1>t, <3>1, PutParts
    <3>4. PICK k \in DOMAIN st : c = st[k]
      BY <2>3, <3>3 DEF Range
    <3>. QED
      BY <3>2, <3>3, <3>4 DEF AllChains, Chains, Range
  <2>. QED
    BY <1>t, <2>1, <2>2, <2>3
<1>. QED
  BY <1>1, <1>2, <1>3, <1>4

\* A step of the nodes that adds a block decides the next block of the ledger,
\* or shows a node another beginning of it.
LEMMA LedgerAdvances ==
    ASSUME SteadyInv, SteadyInv', KnownInv', UNCHANGED submitted, NEW m, Top(AllChains, m),
           \A p \in Node : IsPrefix(store[p], store'[p]),
           NEW n \in Node, NEW hash \in Hash, latest' = [latest EXCEPT ![n] = hash],
           store' = [store EXCEPT ![n] = Put(store[n], hash)],
           Len(hash) \in 1..(Len(store[n]) + 1), ValidCandidate(hash)
    PROVE  L!LedgerNext /\ SomeLongest'
<1>. DEFINE block == {tx.cmd : tx \in Last(hash)}
            view == [p \in Node |-> Commands(latest[p])]
<1>t. TypeOK /\ Fits /\ TypeOK' /\ latest \in [Node -> Hash]
  BY DEF SteadyInv, TypeOK
<1>a. /\ AllChains \in SUBSET Hash /\ AllAgree(AllChains)
      /\ AllChains' \in SUBSET Hash /\ AllAgree(AllChains')
  <2>1. AllChains \in SUBSET Hash /\ AllAgree(AllChains)
    BY AllChainsAgree
  <2>2. (AllChains \in SUBSET Hash /\ AllAgree(AllChains))'
    BY AllChainsAgree, PTL
  <2>. QED
    BY <2>1, <2>2 DEF AllAgree
<1>1. PICK C \in SUBSET Hash : C = AllChains /\ AllAgree(C) /\ Top(C, m)
  BY <1>a
<1>2. PICK D \in SUBSET Hash : D = AllChains' /\ AllAgree(D)
  BY <1>a
<1>3. /\ hash \in D /\ Len(hash) <= Len(m) + 1 /\ D \subseteq C \cup {hash}
      /\ \A c \in C : c = <<>> \/ c \in D
  BY <1>t, <1>1, <1>2, ChainsAfter
<1>4. Longest = LongestOf(C) /\ Longest' = LongestOf(D)
  BY <1>1, <1>2 DEF Longest, LongestOf
<1>5. Longest = m /\ m \in C /\ m \in Hash
  BY <1>1, <1>4, LongestUnique DEF Top
<1>6. /\ Len(hash) \in Nat \ {0} /\ Len(m) \in Nat
      /\ \A c \in C : Len(c) \in Nat /\ Len(c) <= Len(m)
  <2>1. \A c \in Hash : Len(c) \in Nat
    BY LenProperties DEF Hash
  <2>2. Len(hash) # 0
    BY <1>t, LenProperties DEF TypeOK
  <2>. QED
    BY <1>1, <1>5, <2>1, <2>2 DEF Top
<1>7. view' = [view EXCEPT ![n] = Commands(hash)]
  <2>1. \A p \in Node : Commands(latest'[p]) = IF p = n THEN Commands(hash) ELSE Commands(latest[p])
    BY <1>t
  <2>. QED
    BY <2>1
<1>8. CASE Len(hash) <= Len(m)
  <2>1. m \in D
    <3>1. m # <<>>
      BY <1>6, <1>8
    <3>. QED
      BY <1>3, <1>5, <3>1
  <2>2. Top(D, m)
    BY <1>3, <1>6, <1>8, <2>1 DEF Top
  <2>3. Longest' = m /\ IsPrefix(hash, m)
    BY <1>2, <1>3, <1>4, <2>2, LongestUnique
  <2>4. Commands(hash) = SubSeq(Commands(m), 1, Len(hash)) /\ Len(Commands(m)) = Len(m)
    BY <1>5, <2>3, CommandsParts
  <2>5. /\ Len(hash) \in 0..Len(Commands(Longest))
        /\ view' = [view EXCEPT ![n] = SubSeq(Commands(Longest), 1, Len(hash))]
        /\ Commands(Longest)' = Commands(Longest)
    BY <1>5, <1>6, <1>7, <1>8, <2>3, <2>4
  <2>6. L!Showing(n)
    BY <2>5 DEF L!Showing
  <2>7. SomeLongest'
    BY <1>2, <2>2 DEF SomeLongest, Top
  <2>. QED
    BY <2>6, <2>7 DEF L!LedgerNext
<1>9. CASE Len(hash) > Len(m)
  <2>0. Len(hash) = Len(m) + 1
    BY <1>3, <1>6, <1>9
  <2>1. Top(D, hash)
    <3>1. \A c \in D : Len(c) <= Len(hash)
      BY <1>3, <1>6, <1>9
    <3>. QED
      BY <1>3, <3>1 DEF Top
  <2>2. Longest' = hash /\ \A c \in D : IsPrefix(c, hash)
    BY <1>2, <1>4, <2>1, LongestUnique
  <2>3. IsPrefix(m, hash)
    <3>1. CASE m = <<>>
      <4>1. SubSeq(hash, 1, 0) = <<>> /\ SubSeq(m, 1, 0) = <<>> /\ Len(m) = 0
        BY <3>1, SubSeqEmpty
      <4>. QED
        BY <1>6, <4>1 DEF IsPrefix
    <3>2. CASE m # <<>>
      BY <1>3, <1>5, <2>2, <3>2
    <3>. QED
      BY <3>1, <3>2
  <2>4. Extends(hash, m)
    <3>1. hash \in Seq(SUBSET Tx) /\ m \in Seq(SUBSET Tx)
      BY <1>5 DEF Hash
    <3>2. SubSeq(m, 1, Len(m)) = SubSeq(hash, 1, Len(m)) /\ SubSeq(m, 1, Len(m)) = m
      BY <2>3, <3>1, SubSeqFull DEF IsPrefix
    <3>3. Front(hash) = SubSeq(hash, 1, Len(hash) - 1) /\ Len(hash) - 1 = Len(m) /\ hash # <<>>
      BY <1>6, <2>0, <3>1 DEF Front
    <3>. QED
      BY <3>2, <3>3 DEF Extends
  <2>5. Commands(hash) = Append(Commands(m), block)
    BY <1>5, <2>4, CommandsParts
  <2>6. Last(hash) \in SUBSET Tx /\ Last(hash) = hash[Len(hash)] /\ Len(hash) \in DOMAIN hash
    <3>1. Len(hash) \in 1..Len(hash) /\ DOMAIN hash = 1..Len(hash)
      BY <1>6, LenProperties DEF Hash
    <3>. QED
      BY <3>1, ElementOfSeq DEF Last, Hash
  <2>7. block \in SUBSET Cmd /\ block # {} /\ block \subseteq submitted
    <3>1. \A tx \in Last(hash) : tx.cmd \in Cmd
      BY <2>6 DEF Tx
    <3>2. Last(hash) # {}
      BY DEF ValidCandidate
    <3>3. latest'[n] = hash
      BY <1>t
    <3>4. KnownTo(submitted', hash)
      BY <3>3 DEF KnownInv, ChainsKnown, Chains
    <3>5. \A tx \in Last(hash) : tx.cmd \in submitted
      BY <2>6, <3>4 DEF KnownTo
    <3>. QED
      BY <3>1, <3>2, <3>5
  <2>8. \A c, d \in block : Home[c] = Home[d] => c = d
    BY DEF ValidCandidate, Origin
  <2>. HIDE DEF block
  <2>9. /\ Commands(Longest)' = Append(Commands(Longest), block)
        /\ view' = [view EXCEPT ![n] = Commands(Longest)']
    BY <1>5, <1>7, <2>2, <2>5
  <2>10. L!Deciding(n, block)
    BY <2>7, <2>8, <2>9 DEF L!Deciding
  <2>11. SomeLongest'
    BY <1>2, <2>1 DEF SomeLongest, Top
  <2>. QED
    BY <2>7, <2>10, <2>11 DEF L!LedgerNext
<1>. QED
  BY <1>6, <1>8, <1>9

\* In a steady network the nodes implement one ledger: each height is decided
\* once, and every node shows a beginning of the ledger, also one that an
\* overtaken call of add() has taken back.
THEOREM LedgerImplemented ==
    ASSUME Steady PROVE Spec => ImplementsLedger
<1>1. Init => LedgerInv /\ L!LedgerInit
  <2>. SUFFICES ASSUME Init PROVE LedgerInv /\ L!LedgerInit
    OBVIOUS
  <2>1. SteadyInv /\ WritesValid
    BY SteadyInit DEF Init, WritesValid
  <2>2. KnownInv
    BY DEF Init, KnownInv, ChainsKnown, Chains, FactoriesKnown, WritesKnown, QueuesKnown,
       MessagesKnown, KnownTo, FieldsKnown, EmptyFactory, HasOwnTx, NoTx, NoBlock, SyncIdle, Range
  <2>3. \A n \in Node : Chains(n) = {<<>>} /\ latest[n] = <<>>
    BY DEF Init, Chains, Range
  <2>4. AllChains = {<<>>}
    BY <2>3, NodeAssumption DEF AllChains
  <2>5. Len(<<>>) <= Len(<<>>)
    OBVIOUS
  <2>6. SomeLongest
    BY <2>4, <2>5 DEF SomeLongest, Top
  <2>7. Longest = <<>>
    BY <2>4, <2>5 DEF Longest
  <2>8. Commands(<<>>) = <<>>
    BY DEF Commands
  <2>9. L!LedgerInit
    BY <2>3, <2>7, <2>8 DEF Init, L!LedgerInit
  <2>. QED
    BY <2>1, <2>2, <2>6, <2>9 DEF LedgerInv
<1>2. LedgerInv /\ [Next]_vars => LedgerInv' /\ [L!LedgerNext]_(L!ledgerVars)
  <2>. SUFFICES ASSUME LedgerInv, [Next]_vars
                PROVE  LedgerInv' /\ [L!LedgerNext]_(L!ledgerVars)
    OBVIOUS
  <2>1. TypeOK /\ Fits /\ SteadyInv /\ WritesValid /\ KnownInv
    BY DEF LedgerInv, SteadyInv
  <2>2. /\ SteadyInv' /\ WritesValid' /\ KnownInv'
        /\ \A p \in Node : IsPrefix(store[p], store'[p])
    BY <2>1, SteadyStep, ValidStep, KnownStep
  <2>3. PICK m : Top(AllChains, m)
    BY DEF LedgerInv, SomeLongest
  <2>4. CASE UNCHANGED <<latest, store>>
    <3>1. AllChains' = AllChains
      BY <2>4 DEF AllChains, Chains
    <3>2. SomeLongest'
      BY <2>3, <3>1 DEF SomeLongest, Top
    <3>3. Commands(Longest)' = Commands(Longest)
          /\ [n \in Node |-> Commands(latest[n])]' = [n \in Node |-> Commands(latest[n])]
      BY <2>4, <3>1 DEF Longest
    <3>4. UNCHANGED submitted \/ \E c \in Cmd : c \notin submitted /\ submitted' = submitted \cup {c}
      BY SubmittedStep
    <3>5. [L!LedgerNext]_(L!ledgerVars)
      BY <3>3, <3>4 DEF L!LedgerNext, L!ledgerVars, L!Submitting
    <3>. QED
      BY <2>2, <3>2, <3>5 DEF LedgerInv
  <2>5. ASSUME UNCHANGED submitted, NEW n \in Node, NEW hash \in Hash,
               latest' = [latest EXCEPT ![n] = hash],
               store' = [store EXCEPT ![n] = Put(store[n], hash)],
               Len(hash) \in 1..(Len(store[n]) + 1), ValidCandidate(hash)
        PROVE  LedgerInv' /\ [L!LedgerNext]_(L!ledgerVars)
    <3>1. L!LedgerNext /\ SomeLongest'
      BY <2>1, <2>2, <2>3, <2>5, LedgerAdvances
    <3>. QED
      BY <2>2, <3>1 DEF LedgerInv
  <2>. QED
    BY <2>1, <2>4, <2>5, OneBlockMore
<1>. QED
  BY <1>1, <1>2, PTL DEF Spec, ImplementsLedger, L!LedgerSpec
=============================================================================
