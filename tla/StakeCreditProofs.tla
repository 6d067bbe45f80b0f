------------------------- MODULE StakeCreditProofs -------------------------
(***************************************************************************)
(* Theorems about StakeCredit, for any peers, quorums and sample sizes:    *)
(* credits are conserved, two peers never lose the means to vote for each  *)
(* other, and the votes on the chain stay balanced.                        *)
(***************************************************************************)
EXTENDS StakeCredit, FunctionTheorems, FiniteSetTheorems, SequenceTheorems, TLAPS

-----------------------------------------------------------------------------
(* Sets and their sizes.                                                    *)

\* Sets with nothing in common.
LEMMA DisjointSum ==
    ASSUME NEW S, NEW T, IsFiniteSet(S), IsFiniteSet(T), S \cap T = {}
    PROVE  /\ IsFiniteSet(S \cup T)
           /\ Cardinality(S \cup T) = Cardinality(S) + Cardinality(T)
<1>1. Cardinality(S \cap T) = 0
  BY FS_EmptySet
<1>2. Cardinality(S) \in Nat /\ Cardinality(T) \in Nat
  BY FS_CardinalityType
<1>3. IsFiniteSet(S \cup T)
      /\ Cardinality(S \cup T) = Cardinality(S) + Cardinality(T) - Cardinality(S \cap T)
  BY FS_Union
<1>. QED
  BY <1>1, <1>2, <1>3

\* Sets whose elements correspond.
LEMMA SameSize ==
    ASSUME NEW S, NEW T, NEW f \in [S -> T], IsFiniteSet(S),
           \A x, y \in S : f[x] = f[y] => x = y,
           \A y \in T : \E x \in S : f[x] = y
    PROVE  IsFiniteSet(T) /\ Cardinality(T) = Cardinality(S)
<1>1. f \in Bijection(S, T)
  BY Fun_IsBij
<1>. QED
  BY <1>1, FS_Bijection DEF ExistsBijection

-----------------------------------------------------------------------------
(* The votes of one peer for another, as functions of the fields of one     *)
(* server, the chain and the two peers.                                     *)

Server == [credit : [Node -> Int], pending : SUBSET Vote, stack : Seq(SUBSET Vote)]

\* What it means to be among BlockVotes.
IsPlaced(ch, after, to, i, j, e) ==
    \E k \in (after + 1)..to : \E ident \in Ident :
        /\ e = <<"block", k, ident>>
        /\ [origin |-> i, peer |-> j, ident |-> ident] \in ch[k].placed

\* All votes i ever gave for j: collected, stacked, or in a block above a.
Out(s, ch, a, i, j) ==
    Votes("pending", 0, s.pending, j) \cup StackVotes(s, j) \cup BlockVotes(ch, a, Len(ch), i, j)

\* What it means to be among Out.
IsOut(s, ch, a, i, j, place, k, ident) ==
    \/ place = "pending" /\ k = 0 /\ [peer |-> j, ident |-> ident] \in s.pending
    \/ place = "stack" /\ k \in DOMAIN s.stack /\ [peer |-> j, ident |-> ident] \in s.stack[k]
    \/ /\ place = "block" /\ k \in (a + 1)..Len(ch)
       /\ [origin |-> i, peer |-> j, ident |-> ident] \in ch[k].placed

LEMMA ServerTypes ==
    ASSUME NEW s \in Server
    PROVE  /\ s.credit \in [Node -> Int] /\ s.pending \subseteq Vote /\ s.stack \in Seq(SUBSET Vote)
           /\ Len(s.stack) \in Nat /\ DOMAIN s.stack = 1..Len(s.stack)
           /\ \A k \in DOMAIN s.stack : s.stack[k] \subseteq Vote
<1>1. s.credit \in [Node -> Int] /\ s.pending \subseteq Vote /\ s.stack \in Seq(SUBSET Vote)
  BY DEF Server
<1>2. Len(s.stack) \in Nat /\ DOMAIN s.stack = 1..Len(s.stack)
      /\ \A k \in 1..Len(s.stack) : s.stack[k] \in SUBSET Vote
  BY <1>1, LenProperties, ElementOfSeq
<1>. QED
  BY <1>1, <1>2

LEMMA ChainTypes ==
    ASSUME NEW ch \in Seq(Block)
    PROVE  /\ Len(ch) \in Nat /\ DOMAIN ch = 1..Len(ch)
           /\ \A k \in 1..Len(ch) : ch[k] \in Block /\ ch[k].placed \subseteq Placed
<1>1. Len(ch) \in Nat /\ DOMAIN ch = 1..Len(ch) /\ \A k \in 1..Len(ch) : ch[k] \in Block
  BY LenProperties, ElementOfSeq
<1>. QED
  BY <1>1 DEF Block

\* Triples, one by one.
LEMMA VotesMembers ==
    ASSUME NEW place, NEW k, NEW votes \in SUBSET Vote, NEW j \in Node
    PROVE  \A e : e \in Votes(place, k, votes, j) <=>
                  \E ident \in Ident : /\ e = <<place, k, ident>>
                                       /\ [peer |-> j, ident |-> ident] \in votes
<1>1. ASSUME NEW e, e \in Votes(place, k, votes, j)
      PROVE  \E ident \in Ident : /\ e = <<place, k, ident>>
                                  /\ [peer |-> j, ident |-> ident] \in votes
  <2>1. PICK v \in votes : v.peer = j /\ e = <<place, k, v.ident>>
    BY <1>1 DEF Votes
  <2>2. v \in Vote
    OBVIOUS
  <2>3. v = [peer |-> j, ident |-> v.ident] /\ v.ident \in Ident
    BY <2>1, <2>2 DEF Vote
  <2>. QED
    BY <2>1, <2>3
<1>2. ASSUME NEW ident \in Ident, [peer |-> j, ident |-> ident] \in votes
      PROVE  <<place, k, ident>> \in Votes(place, k, votes, j)
  <2>. DEFINE v == [peer |-> j, ident |-> ident]
  <2>1. v.peer = j /\ v.ident = ident
    OBVIOUS
  <2>. QED
    BY <1>2, <2>1 DEF Votes
<1>. QED
  BY <1>1, <1>2

LEMMA PlacedMembers ==
    ASSUME NEW place, NEW k, NEW placed \in SUBSET Placed, NEW i \in Node, NEW j \in Node
    PROVE  \A e : e \in Votes(place, k, {v \in placed : v.origin = i}, j) <=>
                  \E ident \in Ident : /\ e = <<place, k, ident>>
                                       /\ [origin |-> i, peer |-> j, ident |-> ident] \in placed
<1>1. ASSUME NEW e, e \in Votes(place, k, {v \in placed : v.origin = i}, j)
      PROVE  \E ident \in Ident : /\ e = <<place, k, ident>>
                                  /\ [origin |-> i, peer |-> j, ident |-> ident] \in placed
  <2>1. PICK v \in placed : v.origin = i /\ v.peer = j /\ e = <<place, k, v.ident>>
    BY <1>1 DEF Votes
  <2>2. v \in Placed
    OBVIOUS
  <2>3. v = [origin |-> i, peer |-> j, ident |-> v.ident] /\ v.ident \in Ident
    BY <2>1, <2>2 DEF Placed
  <2>. QED
    BY <2>1, <2>3
<1>2. ASSUME NEW ident \in Ident, [origin |-> i, peer |-> j, ident |-> ident] \in placed
      PROVE  <<place, k, ident>> \in Votes(place, k, {v \in placed : v.origin = i}, j)
  <2>. DEFINE v == [origin |-> i, peer |-> j, ident |-> ident]
  <2>1. v.origin = i /\ v.peer = j /\ v.ident = ident
    OBVIOUS
  <2>. QED
    BY <1>2, <2>1 DEF Votes
<1>. QED
  BY <1>1, <1>2

LEMMA BlockMembers ==
    ASSUME NEW ch \in Seq(Block), NEW after \in Nat, NEW to \in 0..Len(ch),
           NEW i \in Node, NEW j \in Node
    PROVE  \A e : e \in BlockVotes(ch, after, to, i, j) <=> IsPlaced(ch, after, to, i, j, e)
<1>1. Len(ch) \in Nat /\ \A k \in 1..Len(ch) : ch[k].placed \in SUBSET Placed
  BY ChainTypes
<1>2. \A k \in (after + 1)..to : k \in 1..Len(ch)
  BY <1>1
<1>3. ASSUME NEW k \in (after + 1)..to
      PROVE  \A e : e \in Votes("block", k, {v \in ch[k].placed : v.origin = i}, j) <=>
                    \E ident \in Ident :
                      /\ e = <<"block", k, ident>>
                      /\ [origin |-> i, peer |-> j, ident |-> ident] \in ch[k].placed
  BY <1>1, <1>2, PlacedMembers
<1>4. \A e : e \in BlockVotes(ch, after, to, i, j) <=>
             \E k \in (after + 1)..to : e \in Votes("block", k, {v \in ch[k].placed : v.origin = i}, j)
  BY DEF BlockVotes
<1>. QED
  BY <1>3, <1>4 DEF IsPlaced

LEMMA OutMembers ==
    ASSUME NEW s \in Server, NEW ch \in Seq(Block), NEW a \in 0..Len(ch),
           NEW i \in Node, NEW j \in Node
    PROVE  \A e : e \in Out(s, ch, a, i, j) <=>
                  \E place \in {"pending", "stack", "block"}, k \in Nat, ident \in Ident :
                      e = <<place, k, ident>> /\ IsOut(s, ch, a, i, j, place, k, ident)
<1>1. Len(ch) \in Nat /\ a \in Nat /\ Len(ch) \in 0..Len(ch)
  BY ChainTypes
<1>2. \A e : e \in Votes("pending", 0, s.pending, j) <=>
             \E ident \in Ident : /\ e = <<"pending", 0, ident>>
                                  /\ [peer |-> j, ident |-> ident] \in s.pending
  BY ServerTypes, VotesMembers
<1>3. \A e : e \in StackVotes(s, j) <=>
             \E k \in DOMAIN s.stack : \E ident \in Ident :
                 e = <<"stack", k, ident>> /\ [peer |-> j, ident |-> ident] \in s.stack[k]
  <2>1. ASSUME NEW k \in DOMAIN s.stack
        PROVE  \A e : e \in Votes("stack", k, s.stack[k], j) <=>
                      \E ident \in Ident : /\ e = <<"stack", k, ident>>
                                           /\ [peer |-> j, ident |-> ident] \in s.stack[k]
    BY ServerTypes, VotesMembers
  <2>. QED
    BY <2>1 DEF StackVotes
<1>4. \A e : e \in BlockVotes(ch, a, Len(ch), i, j) <=>
             IsPlaced(ch, a, Len(ch), i, j, e)
  BY <1>1, BlockMembers
<1>5. DOMAIN s.stack \subseteq Nat /\ (a + 1)..Len(ch) \subseteq Nat
  BY <1>1, ServerTypes
<1>6. ASSUME NEW e, e \in Out(s, ch, a, i, j)
      PROVE  \E place \in {"pending", "stack", "block"}, k \in Nat, ident \in Ident :
                      e = <<place, k, ident>> /\ IsOut(s, ch, a, i, j, place, k, ident)
  <2>1. CASE e \in Votes("pending", 0, s.pending, j)
    BY <1>2, <2>1 DEF IsOut
  <2>2. CASE e \in StackVotes(s, j)
    BY <1>3, <1>5, <2>2 DEF IsOut
  <2>3. CASE e \in BlockVotes(ch, a, Len(ch), i, j)
    BY <1>4, <1>5, <2>3 DEF IsOut, IsPlaced
  <2>. QED
    BY <1>6, <2>1, <2>2, <2>3 DEF Out
<1>7. ASSUME NEW place, NEW k \in Nat, NEW ident \in Ident, IsOut(s, ch, a, i, j, place, k, ident)
      PROVE  <<place, k, ident>> \in Out(s, ch, a, i, j)
  <2>1. CASE place = "pending" /\ k = 0 /\ [peer |-> j, ident |-> ident] \in s.pending
    BY <1>2, <2>1 DEF Out
  <2>2. CASE place = "stack" /\ k \in DOMAIN s.stack /\ [peer |-> j, ident |-> ident] \in s.stack[k]
    BY <1>3, <2>2 DEF Out
  <2>3. CASE /\ place = "block" /\ k \in (a + 1)..Len(ch)
             /\ [origin |-> i, peer |-> j, ident |-> ident] \in ch[k].placed
    BY <1>4, <2>3 DEF Out, IsPlaced
  <2>. QED
    BY <1>7, <2>1, <2>2, <2>3 DEF IsOut
<1>. QED
  BY <1>6, <1>7

-----------------------------------------------------------------------------
(* How many there are.                                                      *)

LEMMA MarkFinite ==
    ASSUME NEW S, NEW m \in Nat, \A e \in S : e \in {"pending", "stack", "block"} \X (0..m) \X Ident
    PROVE  IsFiniteSet(S)
<1>1. IsFiniteSet({"pending", "stack", "block"}) /\ IsFiniteSet(Ident)
  <2>1. {"pending", "stack", "block"} = ({} \cup {"pending"}) \cup {"stack"} \cup {"block"}
        /\ Ident = ({} \cup {"ping"}) \cup {"vote"}
    BY DEF Ident
  <2>2. IsFiniteSet({} \cup {"pending"}) /\ IsFiniteSet({} \cup {"ping"})
    BY FS_EmptySet, FS_AddElement
  <2>3. IsFiniteSet(({} \cup {"pending"}) \cup {"stack"}) /\ IsFiniteSet(({} \cup {"ping"}) \cup {"vote"})
    BY <2>2, FS_AddElement
  <2>4. IsFiniteSet((({} \cup {"pending"}) \cup {"stack"}) \cup {"block"})
    BY <2>3, FS_AddElement
  <2>. QED
    BY <2>1, <2>3, <2>4
<1>2. IsFiniteSet(0..m)
  <2>1. 0 \in Int /\ m \in Int
    OBVIOUS
  <2>. QED
    BY ONLY <2>1, FS_Interval
<1>. DEFINE f == [e \in S |-> <<e[1], <<e[2], e[3]>>>>]
            P == {"pending", "stack", "block"} \X ((0..m) \X Ident)
<1>3. IsFiniteSet(P)
  BY <1>1, <1>2, FS_Product
<1>4. f \in [S -> P] /\ \A x, y \in S : f[x] = f[y] => x = y
  OBVIOUS
<1>. HIDE DEF f, P
<1>5. f \in Injection(S, P)
  BY <1>4, Fun_IsInj
<1>. QED
  BY <1>3, <1>5, FS_Injection

LEMMA OutFinite ==
    ASSUME NEW s \in Server, NEW ch \in Seq(Block), NEW a \in 0..Len(ch),
           NEW i \in Node, NEW j \in Node
    PROVE  /\ IsFiniteSet(Out(s, ch, a, i, j))
           /\ Cardinality(Out(s, ch, a, i, j)) \in Nat
<1>. DEFINE m == Len(s.stack) + Len(ch)
<1>1. /\ m \in Nat /\ Len(ch) \in Nat /\ DOMAIN s.stack = 1..Len(s.stack)
      /\ Len(s.stack) \in Nat /\ a \in Nat
  BY ServerTypes, ChainTypes
<1>2. ASSUME NEW e \in Out(s, ch, a, i, j)
      PROVE  e \in {"pending", "stack", "block"} \X (0..m) \X Ident
  <2>1. PICK place \in {"pending", "stack", "block"}, k \in Nat, ident \in Ident :
                e = <<place, k, ident>> /\ IsOut(s, ch, a, i, j, place, k, ident)
    BY OutMembers
  <2>2. k \in 0..m
    BY <1>1, <2>1 DEF IsOut
  <2>. QED
    BY <2>1, <2>2
<1>. HIDE DEF m
<1>3. IsFiniteSet(Out(s, ch, a, i, j))
  BY <1>1, <1>2, MarkFinite
<1>. QED
  BY <1>3, FS_CardinalityType

LEMMA BlocksFinite ==
    ASSUME NEW ch \in Seq(Block), NEW after \in Nat, NEW to \in 0..Len(ch),
           NEW i \in Node, NEW j \in Node
    PROVE  /\ IsFiniteSet(BlockVotes(ch, after, to, i, j))
           /\ Cardinality(BlockVotes(ch, after, to, i, j)) \in Nat
<1>1. to \in Nat
  BY ChainTypes
<1>2. ASSUME NEW e \in BlockVotes(ch, after, to, i, j)
      PROVE  e \in {"pending", "stack", "block"} \X (0..to) \X Ident
  <2>0. IsPlaced(ch, after, to, i, j, e)
    BY BlockMembers
  <2>1. PICK k \in (after + 1)..to : \E ident \in Ident : e = <<"block", k, ident>>
    BY <2>0 DEF IsPlaced
  <2>2. k \in 0..to
    BY <1>1
  <2>. QED
    BY <2>1, <2>2
<1>3. IsFiniteSet(BlockVotes(ch, after, to, i, j))
  BY <1>1, <1>2, MarkFinite
<1>. QED
  BY <1>3, FS_CardinalityType

\* The votes in the blocks up to a, and those after them.
LEMMA OutSplit ==
    ASSUME NEW s \in Server, NEW ch \in Seq(Block), NEW a \in 0..Len(ch),
           NEW i \in Node, NEW j \in Node
    PROVE  Cardinality(Out(s, ch, 0, i, j)) =
               Cardinality(Out(s, ch, a, i, j)) + Cardinality(BlockVotes(ch, 0, a, i, j))
<1>. DEFINE S == Out(s, ch, a, i, j)
            T == BlockVotes(ch, 0, a, i, j)
<1>1. Len(ch) \in Nat /\ a \in Nat /\ 0 \in 0..Len(ch) /\ a <= Len(ch)
  BY ChainTypes
<1>2. \A e : e \in S <=>
          \E place \in {"pending", "stack", "block"}, k \in Nat, ident \in Ident :
                      e = <<place, k, ident>> /\ IsOut(s, ch, a, i, j, place, k, ident)
  BY OutMembers
<1>3. \A e : e \in T <=>
                  \E k \in 1..a : \E ident \in Ident :
                      /\ e = <<"block", k, ident>>
                      /\ [origin |-> i, peer |-> j, ident |-> ident] \in ch[k].placed
  <2>1. \A e : e \in T <=> IsPlaced(ch, 0, a, i, j, e)
    BY <1>1, BlockMembers
  <2>2. 0 + 1 = 1
    OBVIOUS
  <2>. HIDE DEF T
  <2>. QED
    BY <2>1, <2>2, Zenon DEF IsPlaced
<1>4. \A e : e \in Out(s, ch, 0, i, j) <=>
          \E place \in {"pending", "stack", "block"}, k \in Nat, ident \in Ident :
                      e = <<place, k, ident>> /\ IsOut(s, ch, 0, i, j, place, k, ident)
  BY <1>1, OutMembers
<1>5. IsFiniteSet(S) /\ IsFiniteSet(T)
  BY <1>1, OutFinite, BlocksFinite
<1>. HIDE DEF S, T
<1>6. S \cap T = {}
  <2>1. ASSUME NEW e \in S, e \in T PROVE FALSE
    <3>1. PICK place \in {"pending", "stack", "block"}, k \in Nat, ident \in Ident :
                e = <<place, k, ident>> /\ IsOut(s, ch, a, i, j, place, k, ident)
      BY <1>2
    <3>2. PICK l \in 1..a, d \in Ident : e = <<"block", l, d>>
      BY <1>3, <2>1
    <3>3. place = "block" /\ k = l
      BY <3>1, <3>2
    <3>. QED
      BY <1>1, <3>1, <3>3 DEF IsOut
  <2>. QED
    BY <2>1
<1>7. ASSUME NEW place \in {"pending", "stack", "block"}, NEW k \in Nat, NEW ident \in Ident
      PROVE  IsOut(s, ch, 0, i, j, place, k, ident) <=>
                 \/ IsOut(s, ch, a, i, j, place, k, ident)
                 \/ /\ place = "block" /\ k \in 1..a
                    /\ [origin |-> i, peer |-> j, ident |-> ident] \in ch[k].placed
  BY <1>1 DEF IsOut
<1>8. Out(s, ch, 0, i, j) = S \cup T
  <2>1. ASSUME NEW e \in Out(s, ch, 0, i, j) PROVE e \in S \cup T
    <3>1. PICK place \in {"pending", "stack", "block"}, k \in Nat, ident \in Ident :
                e = <<place, k, ident>> /\ IsOut(s, ch, 0, i, j, place, k, ident)
      BY <1>4
    <3>2. CASE IsOut(s, ch, a, i, j, place, k, ident)
      BY <1>2, <3>1, <3>2
    <3>3. CASE /\ place = "block" /\ k \in 1..a
               /\ [origin |-> i, peer |-> j, ident |-> ident] \in ch[k].placed
      BY <1>3, <3>1, <3>3
    <3>. QED
      BY <1>7, <3>1, <3>2, <3>3
  <2>2. ASSUME NEW e \in S PROVE e \in Out(s, ch, 0, i, j)
    <3>1. PICK place \in {"pending", "stack", "block"}, k \in Nat, ident \in Ident :
                e = <<place, k, ident>> /\ IsOut(s, ch, a, i, j, place, k, ident)
      BY <1>2
    <3>. QED
      BY <1>4, <1>7, <3>1
  <2>3. ASSUME NEW e \in T PROVE e \in Out(s, ch, 0, i, j)
    <3>1. PICK k \in 1..a, ident \in Ident :
                /\ e = <<"block", k, ident>>
                /\ [origin |-> i, peer |-> j, ident |-> ident] \in ch[k].placed
      BY <1>3, <2>3
    <3>2. k \in Nat
      BY <1>1
    <3>. QED
      BY <1>4, <1>7, <3>1, <3>2
  <2>. QED
    BY <2>1, <2>2, <2>3
<1>. QED
  BY <1>5, <1>6, <1>8, DisjointSum DEF S, T

\* One more block applied: its votes of j for i.
LEMMA BlocksSplit ==
    ASSUME NEW ch \in Seq(Block), NEW a \in Nat, a + 1 \in 1..Len(ch),
           NEW i \in Node, NEW j \in Node
    PROVE  /\ Cardinality({v \in ch[a + 1].placed : v.origin = j /\ v.peer = i}) \in Nat
           /\ Cardinality(BlockVotes(ch, 0, a + 1, j, i)) =
               Cardinality(BlockVotes(ch, 0, a, j, i))
                   + Cardinality({v \in ch[a + 1].placed : v.origin = j /\ v.peer = i})
<1>. DEFINE V == {v \in ch[a + 1].placed : v.origin = j /\ v.peer = i}
            S == BlockVotes(ch, 0, a, j, i)
            T == BlockVotes(ch, a, a + 1, j, i)
            f == [e \in T |-> [origin |-> j, peer |-> i, ident |-> e[3]]]
<1>1. Len(ch) \in Nat /\ a + 1 <= Len(ch) /\ a \in 0..Len(ch) /\ a + 1 \in 0..Len(ch)
      /\ ch[a + 1].placed \subseteq Placed
  BY ChainTypes
<1>2. \A e : e \in T <=>
                  \E ident \in Ident :
                      /\ e = <<"block", a + 1, ident>>
                      /\ [origin |-> j, peer |-> i, ident |-> ident] \in ch[a + 1].placed
  <2>1. \A e : e \in T <=> IsPlaced(ch, a, a + 1, j, i, e)
    BY <1>1, BlockMembers
  <2>2. (a + 1)..(a + 1) = {a + 1}
    OBVIOUS
  <2>. HIDE DEF T
  <2>. QED
    BY <2>1, <2>2 DEF IsPlaced
<1>3. \A e : e \in S <=>
                  \E k \in 1..a : \E ident \in Ident :
                      /\ e = <<"block", k, ident>>
                      /\ [origin |-> j, peer |-> i, ident |-> ident] \in ch[k].placed
  <2>1. \A e : e \in S <=> IsPlaced(ch, 0, a, j, i, e)
    BY <1>1, BlockMembers
  <2>2. 0 + 1 = 1
    OBVIOUS
  <2>. HIDE DEF S
  <2>. QED
    BY <2>1, <2>2, Zenon DEF IsPlaced
<1>4. IsFiniteSet(S) /\ IsFiniteSet(T)
  BY <1>1, BlocksFinite
<1>5. BlockVotes(ch, 0, a + 1, j, i) = S \cup T
  <2>1. (0 + 1)..(a + 1) = ((0 + 1)..a) \cup ((a + 1)..(a + 1))
    BY <1>1
  <2>. QED
    BY <2>1 DEF BlockVotes
<1>. HIDE DEF S, T
<1>6. S \cap T = {}
  <2>1. ASSUME NEW e \in S, e \in T PROVE FALSE
    <3>1. PICK k \in 1..a, ident \in Ident : e = <<"block", k, ident>>
      BY <1>3
    <3>2. PICK d \in Ident : e = <<"block", a + 1, d>>
      BY <1>2, <2>1
    <3>3. k = a + 1
      BY <3>1, <3>2
    <3>. QED
      BY <1>1, <3>3
  <2>. QED
    BY <2>1
<1>7. f \in [T -> V]
  <2>1. ASSUME NEW e \in T PROVE [origin |-> j, peer |-> i, ident |-> e[3]] \in V
    <3>1. PICK ident \in Ident : /\ e = <<"block", a + 1, ident>>
                      /\ [origin |-> j, peer |-> i, ident |-> ident] \in ch[a + 1].placed
      BY <1>2
    <3>2. e[3] = ident
      BY <3>1
    <3>. QED
      BY <3>1, <3>2
  <2>. QED
    BY <2>1
<1>8. ASSUME NEW x \in T, NEW y \in T, f[x] = f[y] PROVE x = y
  <2>1. PICK d \in Ident : x = <<"block", a + 1, d>>
    BY <1>2
  <2>2. PICK e \in Ident : y = <<"block", a + 1, e>>
    BY <1>2
  <2>3. f[x].ident = d /\ f[y].ident = e
    BY <2>1, <2>2
  <2>. QED
    BY <1>8, <2>1, <2>2, <2>3
<1>9. ASSUME NEW v \in V PROVE \E x \in T : f[x] = v
  <2>1. v \in Placed /\ v.origin = j /\ v.peer = i /\ v \in ch[a + 1].placed
    BY <1>1
  <2>2. v = [origin |-> j, peer |-> i, ident |-> v.ident] /\ v.ident \in Ident
    BY <2>1 DEF Placed
  <2>3. <<"block", a + 1, v.ident>> \in T
    BY <1>2, <2>1, <2>2
  <2>4. f[<<"block", a + 1, v.ident>>] = v
    BY <2>2, <2>3
  <2>. QED
    BY <2>3, <2>4
<1>. HIDE DEF f, V
<1>10. Cardinality(V) = Cardinality(T)
  BY <1>4, <1>7, <1>8, <1>9, SameSize
<1>11. Cardinality(T) \in Nat /\ Cardinality(S \cup T) = Cardinality(S) + Cardinality(T)
  BY <1>4, <1>6, DisjointSum, FS_CardinalityType
<1>. QED
  BY <1>5, <1>10, <1>11 DEF S, V

-----------------------------------------------------------------------------
(* What the methods of Server do to them.                                   *)

\* All votes i ever gave for j and not lost.
Given(s, ch, i, j) == Cardinality(Out(s, ch, 0, i, j))

LEMMA GivenTypes ==
    ASSUME NEW s \in Server, NEW ch \in Seq(Block), NEW i \in Node, NEW j \in Node
    PROVE  /\ IsFiniteSet(Out(s, ch, 0, i, j)) /\ Given(s, ch, i, j) \in Nat
           /\ \A e : e \in Out(s, ch, 0, i, j) <=>
                  \E place \in {"pending", "stack", "block"}, k \in Nat, ident \in Ident :
                      e = <<place, k, ident>> /\ IsOut(s, ch, 0, i, j, place, k, ident)
<1>1. 0 \in 0..Len(ch)
  BY ChainTypes
<1>. QED
  BY <1>1, OutFinite, OutMembers DEF Given

\* One vote more is collected, for a credit.
Collected(s, v) == [s EXCEPT !.credit[v.peer] = @ - 1, !.pending = @ \cup {v}]

LEMMA CollectedEffect ==
    ASSUME NEW s \in Server, NEW v \in Vote, v \notin s.pending,
           NEW ch \in Seq(Block), NEW i \in Node, NEW j \in Node
    PROVE  /\ Collected(s, v) \in Server
           /\ Collected(s, v).pending = s.pending \cup {v}
           /\ Collected(s, v).credit[j] + Given(Collected(s, v), ch, i, j)
                = s.credit[j] + Given(s, ch, i, j)
           /\ Collected(s, v).credit[j] \in {s.credit[j], s.credit[j] - 1}
           /\ j # v.peer => Collected(s, v).credit[j] = s.credit[j]
<1>. DEFINE g == Collected(s, v)
            S == Out(s, ch, 0, i, j)
            e == <<"pending", 0, v.ident>>
<1>1. s.credit \in [Node -> Int] /\ v.peer \in Node /\ v.ident \in Ident
      /\ v = [peer |-> v.peer, ident |-> v.ident] /\ s.credit[j] \in Int
  BY ServerTypes DEF Vote
<1>2. /\ g.pending = s.pending \cup {v} /\ g.stack = s.stack
      /\ g.credit = [s.credit EXCEPT ![v.peer] = s.credit[v.peer] - 1]
      /\ g \in Server
  <2>. DEFINE c == [s.credit EXCEPT ![v.peer] = s.credit[v.peer] - 1]
  <2>1. c \in [Node -> Int]
    BY <1>1
  <2>2. g = [s EXCEPT !.credit = c, !.pending = s.pending \cup {v}]
    BY DEF Collected, Server
  <2>. HIDE DEF c
  <2>3. g.pending = s.pending \cup {v} /\ g.stack = s.stack /\ g.credit = c /\ g \in Server
    BY <2>1, <2>2 DEF Server
  <2>. QED
    BY <2>3 DEF c
<1>3. \A f : f \in S <=>
                  \E place \in {"pending", "stack", "block"}, k \in Nat, ident \in Ident :
                      f = <<place, k, ident>> /\ IsOut(s, ch, 0, i, j, place, k, ident)
  BY GivenTypes
<1>4. \A f : f \in Out(g, ch, 0, i, j) <=>
                  \E place \in {"pending", "stack", "block"}, k \in Nat, ident \in Ident :
                      f = <<place, k, ident>> /\ IsOut(g, ch, 0, i, j, place, k, ident)
  BY <1>2, GivenTypes
<1>5. IsFiniteSet(S) /\ Given(s, ch, i, j) = Cardinality(S) /\ Cardinality(S) \in Nat
  BY GivenTypes DEF Given
<1>. HIDE DEF S, g
<1>6. ASSUME NEW place, NEW k, NEW ident \in Ident
      PROVE  IsOut(g, ch, 0, i, j, place, k, ident) <=>
                 \/ IsOut(s, ch, 0, i, j, place, k, ident)
                 \/ place = "pending" /\ k = 0 /\ [peer |-> j, ident |-> ident] = v
  BY <1>2 DEF IsOut
<1>7. CASE j = v.peer
  <2>1. e \notin S
    <3>1. ASSUME e \in S PROVE FALSE
      <4>1. PICK place \in {"pending", "stack", "block"}, k \in Nat, ident \in Ident :
                 e = <<place, k, ident>> /\ IsOut(s, ch, 0, i, j, place, k, ident)
        BY <1>3, <3>1
      <4>2. place = "pending" /\ ident = v.ident
        BY <4>1
      <4>3. [peer |-> j, ident |-> v.ident] \in s.pending
        BY <4>1, <4>2 DEF IsOut
      <4>. QED
        BY <1>1, <1>7, <4>3
    <3>. QED
      BY <3>1
  <2>2. Out(g, ch, 0, i, j) = S \cup {e}
    <3>1. ASSUME NEW f \in Out(g, ch, 0, i, j) PROVE f \in S \cup {e}
      <4>1. PICK place \in {"pending", "stack", "block"}, k \in Nat, ident \in Ident :
                 f = <<place, k, ident>> /\ IsOut(g, ch, 0, i, j, place, k, ident)
        BY <1>4
      <4>2. CASE IsOut(s, ch, 0, i, j, place, k, ident)
        BY <1>3, <4>1, <4>2
      <4>3. CASE place = "pending" /\ k = 0 /\ [peer |-> j, ident |-> ident] = v
        <5>1. v.ident = ident
          BY <4>3
        <5>. QED
          BY <4>1, <4>3, <5>1
      <4>. QED
        BY <1>6, <4>1, <4>2, <4>3
    <3>2. ASSUME NEW f \in S PROVE f \in Out(g, ch, 0, i, j)
      BY <1>3, <1>4, <1>6
    <3>3. e \in Out(g, ch, 0, i, j)
      <4>1. IsOut(g, ch, 0, i, j, "pending", 0, v.ident)
        BY <1>1, <1>6, <1>7
      <4>. QED
        BY <1>1, <1>4, <4>1
    <3>. QED
      BY <3>1, <3>2, <3>3
  <2>3. Cardinality(S \cup {e}) = Cardinality(S) + 1
    BY <1>5, <2>1, FS_AddElement
  <2>4. g.credit[j] = s.credit[j] - 1
    BY <1>1, <1>2, <1>7
  <2>5. Given(g, ch, i, j) = Given(s, ch, i, j) + 1 /\ Given(s, ch, i, j) \in Nat
    BY <1>5, <2>2, <2>3 DEF Given
  <2>6. g.credit[j] + Given(g, ch, i, j) = s.credit[j] + Given(s, ch, i, j)
    BY <1>1, <2>4, <2>5
  <2>. QED
    BY <1>2, <1>7, <2>4, <2>6 DEF g
<1>8. CASE j # v.peer
  <2>1. \A ident : [peer |-> j, ident |-> ident] # v
    BY <1>1, <1>8
  <2>2. Out(g, ch, 0, i, j) = S
    <3>1. \A place, k : \A ident \in Ident : IsOut(g, ch, 0, i, j, place, k, ident) <=>
                                          IsOut(s, ch, 0, i, j, place, k, ident)
      BY <1>6, <2>1
    <3>2. \A f : f \in Out(g, ch, 0, i, j) <=> f \in S
      BY <1>3, <1>4, <3>1, Zenon
    <3>. QED
      BY <3>2
  <2>3. g.credit[j] = s.credit[j]
    BY <1>1, <1>2, <1>8
  <2>. QED
    BY <1>2, <1>5, <1>8, <2>2, <2>3 DEF Given, g
<1>. QED
  BY <1>7, <1>8

\* All collected votes are stacked as one transaction.
Stacked(s) == [s EXCEPT !.pending = {}, !.stack = Append(s.stack, s.pending)]

LEMMA StackedEffect ==
    ASSUME NEW s \in Server, NEW ch \in Seq(Block), NEW i \in Node, NEW j \in Node
    PROVE  /\ Stacked(s) \in Server /\ Stacked(s).pending = {} /\ Stacked(s).credit = s.credit
           /\ Given(Stacked(s), ch, i, j) = Given(s, ch, i, j)
<1>. DEFINE g == Stacked(s)
            S == Out(s, ch, 0, i, j)
            T == Out(g, ch, 0, i, j)
            l == Len(s.stack) + 1
            f == [e \in S |-> IF e[1] = "pending" THEN <<"stack", l, e[3]>> ELSE e]
<1>1. /\ s.pending \in SUBSET Vote /\ s.stack \in Seq(SUBSET Vote) /\ Len(s.stack) \in Nat
      /\ DOMAIN s.stack = 1..Len(s.stack)
  BY ServerTypes
<1>2. /\ g.pending = {} /\ g.credit = s.credit /\ g.stack = Append(s.stack, s.pending)
      /\ g \in Server
  <2>1. Append(s.stack, s.pending) \in Seq(SUBSET Vote)
    BY <1>1, AppendProperties
  <2>. QED
    BY <1>1, <2>1 DEF Server, Stacked
<1>. HIDE DEF g
<1>3. /\ DOMAIN g.stack = 1..l /\ g.stack[l] = s.pending
      /\ \A k \in 1..Len(s.stack) : g.stack[k] = s.stack[k]
  BY <1>1, <1>2, AppendProperties
<1>4. \A e : e \in S <=>
                  \E place \in {"pending", "stack", "block"}, k \in Nat, ident \in Ident :
                      e = <<place, k, ident>> /\ IsOut(s, ch, 0, i, j, place, k, ident)
  BY GivenTypes
<1>5. \A e : e \in T <=>
                  \E place \in {"pending", "stack", "block"}, k \in Nat, ident \in Ident :
                      e = <<place, k, ident>> /\ IsOut(g, ch, 0, i, j, place, k, ident)
  BY <1>2, GivenTypes
<1>6. IsFiniteSet(S)
  BY GivenTypes
<1>. HIDE DEF S, T
<1>7. ASSUME NEW place, NEW k \in Nat, NEW ident \in Ident
      PROVE  IsOut(g, ch, 0, i, j, place, k, ident) <=>
                 \/ place # "pending" /\ IsOut(s, ch, 0, i, j, place, k, ident)
                 \/ place = "stack" /\ k = l /\ IsOut(s, ch, 0, i, j, "pending", 0, ident)
  BY <1>1, <1>2, <1>3 DEF IsOut
<1>8. \A place, k, ident : /\ <<place, k, ident>>[1] = place /\ <<place, k, ident>>[3] = ident
  OBVIOUS
<1>9. ASSUME NEW e \in S
      PROVE  \E place \in {"pending", "stack", "block"}, k \in Nat, ident \in Ident :
                /\ e = <<place, k, ident>> /\ IsOut(s, ch, 0, i, j, place, k, ident)
                /\ f[e] = IF place = "pending" THEN <<"stack", l, ident>> ELSE e
  BY <1>4, <1>8
<1>10. f \in [S -> T]
  <2>1. ASSUME NEW e \in S PROVE f[e] \in T
    <3>1. PICK place \in {"pending", "stack", "block"}, k \in Nat, ident \in Ident :
                /\ e = <<place, k, ident>> /\ IsOut(s, ch, 0, i, j, place, k, ident)
                /\ f[e] = IF place = "pending" THEN <<"stack", l, ident>> ELSE e
      BY <1>9
    <3>2. CASE place = "pending"
      <4>1. IsOut(g, ch, 0, i, j, "stack", l, ident) /\ l \in Nat
        <5>1. k = 0
          BY <3>1, <3>2 DEF IsOut
        <5>. QED
          BY <1>1, <1>7, <3>1, <3>2, <5>1
      <4>. QED
        BY <1>5, <3>1, <3>2, <4>1
    <3>3. CASE place # "pending"
      BY <1>5, <1>7, <3>1, <3>3
    <3>. QED
      BY <3>2, <3>3
  <2>. QED
    BY <2>1
<1>11. \A e \in S : ~\E ident : e = <<"stack", l, ident>>
  <2>1. ASSUME NEW e \in S, NEW d, e = <<"stack", l, d>> PROVE FALSE
    <3>1. PICK place \in {"pending", "stack", "block"}, k \in Nat, ident \in Ident :
                e = <<place, k, ident>> /\ IsOut(s, ch, 0, i, j, place, k, ident)
      BY <1>4
    <3>2. place = "stack" /\ k = l
      BY <2>1, <3>1
    <3>. QED
      BY <1>1, <3>1, <3>2 DEF IsOut
  <2>. QED
    BY <2>1
<1>. HIDE DEF f
<1>12. ASSUME NEW x \in S, NEW y \in S, f[x] = f[y] PROVE x = y
  <2>1. PICK px \in {"pending", "stack", "block"}, kx \in Nat, dx \in Ident :
                /\ x = <<px, kx, dx>> /\ IsOut(s, ch, 0, i, j, px, kx, dx)
                /\ f[x] = IF px = "pending" THEN <<"stack", l, dx>> ELSE x
    BY <1>9
  <2>2. PICK py \in {"pending", "stack", "block"}, ky \in Nat, dy \in Ident :
                /\ y = <<py, ky, dy>> /\ IsOut(s, ch, 0, i, j, py, ky, dy)
                /\ f[y] = IF py = "pending" THEN <<"stack", l, dy>> ELSE y
    BY <1>9
  <2>3. CASE px = "pending" /\ py = "pending"
    <3>1. kx = 0 /\ ky = 0
      BY <2>1, <2>2, <2>3 DEF IsOut
    <3>2. dx = dy
      BY <1>12, <2>1, <2>2, <2>3
    <3>. QED
      BY <2>1, <2>2, <2>3, <3>1, <3>2
  <2>4. CASE px = "pending" /\ py # "pending"
    BY <1>11, <1>12, <2>1, <2>2, <2>4
  <2>5. CASE px # "pending" /\ py = "pending"
    BY <1>11, <1>12, <2>1, <2>2, <2>5
  <2>6. CASE px # "pending" /\ py # "pending"
    BY <1>12, <2>1, <2>2, <2>6
  <2>. QED
    BY <2>3, <2>4, <2>5, <2>6
<1>13. ASSUME NEW y \in T PROVE \E x \in S : f[x] = y
  <2>1. PICK place \in {"pending", "stack", "block"}, k \in Nat, ident \in Ident :
                y = <<place, k, ident>> /\ IsOut(g, ch, 0, i, j, place, k, ident)
    BY <1>5
  <2>2. CASE place # "pending" /\ IsOut(s, ch, 0, i, j, place, k, ident)
    <3>1. y \in S
      BY <1>4, <2>1, <2>2
    <3>2. f[y] = y
      BY <2>1, <2>2, <3>1 DEF f
    <3>. QED
      BY <3>1, <3>2
  <2>3. CASE place = "stack" /\ k = l /\ IsOut(s, ch, 0, i, j, "pending", 0, ident)
    <3>1. <<"pending", 0, ident>> \in S
      BY <1>4, <2>3
    <3>2. f[<<"pending", 0, ident>>] = <<"stack", l, ident>>
      BY <3>1 DEF f
    <3>. QED
      BY <2>1, <2>3, <3>1, <3>2
  <2>. QED
    BY <1>7, <2>1, <2>2, <2>3
<1>14. Cardinality(T) = Cardinality(S)
  BY <1>6, <1>10, <1>12, <1>13, SameSize
<1>. QED
  BY <1>2, <1>14 DEF Given, S, T, g

\* What keeps proposeModifyStake from going too deep into debt, and the list of
\* collected votes short: k peers are online.
Floor(s, k) == \A j \in Node : 3 * s.credit[j] > -k \/ s.credit[j] >= 0
Small(s, k) == 3 * Cardinality(s.pending) < k \/ s.pending = {}

LEMMA VotesFinite ==
    ASSUME NEW votes \in SUBSET Vote
    PROVE  IsFiniteSet(votes) /\ Cardinality(votes) \in Nat
<1>. DEFINE f == [v \in votes |-> <<v.peer, v.ident>>]
            P == Node \X Ident
<1>1. IsFiniteSet(P)
  <2>1. Ident = ({} \cup {"ping"}) \cup {"vote"}
    BY DEF Ident
  <2>2. IsFiniteSet({} \cup {"ping"})
    BY FS_EmptySet, FS_AddElement
  <2>3. IsFiniteSet(Ident)
    BY <2>1, <2>2, FS_AddElement
  <2>. QED
    BY <2>3, NodeAssumption, FS_Product
<1>2. f \in [votes -> P]
  BY DEF Vote
<1>3. \A x, y \in votes : f[x] = f[y] => x = y
  BY DEF Vote
<1>. HIDE DEF f, P
<1>4. f \in Injection(votes, P)
  BY <1>2, <1>3, Fun_IsInj
<1>5. IsFiniteSet(votes)
  BY <1>1, <1>4, FS_Injection
<1>. QED
  BY <1>5, FS_CardinalityType

\* No vote gets lost in proposeModifyStake: a vote costs one credit, and the
\* list is stacked while it still fits into a transaction.
LEMMA ProposedEffect ==
    ASSUME NEW s \in Server, NEW k \in Nat, k <= N, NEW v \in Vote, Floor(s, k), Small(s, k)
    PROVE  /\ Proposed(s, k, v) \in Server
           /\ Floor(Proposed(s, k, v), k) /\ Small(Proposed(s, k, v), k)
           /\ \A ch \in Seq(Block) : \A i, j \in Node :
                  Proposed(s, k, v).credit[j] + Given(Proposed(s, k, v), ch, i, j)
                      = s.credit[j] + Given(s, ch, i, j)
<1>1. CASE ~Accepted(s, v) \/ ~CreditSuffices(s.credit[v.peer] - 1, k)
  BY <1>1 DEF Proposed
<1>2. CASE Accepted(s, v) /\ CreditSuffices(s.credit[v.peer] - 1, k)
  <2>. DEFINE c == Collected(s, v)
              g == Stacked(c)
  <2>1. v \notin s.pending /\ v.peer \in Node /\ s.credit \in [Node -> Int]
    BY <1>2, ServerTypes DEF Accepted, Vote
  <2>2. Proposed(s, k, v) = Flushed(c, k)
    BY <1>2 DEF Proposed, Collected
  <2>3. c \in Server /\ c.pending = s.pending \cup {v}
        /\ \A ch \in Seq(Block) : \A i, j \in Node :
              /\ c.credit[j] + Given(c, ch, i, j) = s.credit[j] + Given(s, ch, i, j)
              /\ c.credit[j] \in {s.credit[j], s.credit[j] - 1}
              /\ j # v.peer => c.credit[j] = s.credit[j]
    <3>1. ASSUME NEW ch \in Seq(Block), NEW i \in Node, NEW j \in Node
          PROVE  /\ c \in Server /\ c.pending = s.pending \cup {v}
                 /\ c.credit[j] + Given(c, ch, i, j) = s.credit[j] + Given(s, ch, i, j)
                 /\ c.credit[j] \in {s.credit[j], s.credit[j] - 1}
                 /\ j # v.peer => c.credit[j] = s.credit[j]
      BY <2>1, CollectedEffect
    <3>2. <<>> \in Seq(Block)
      OBVIOUS
    <3>. HIDE DEF c
    <3>. QED
      BY <2>1, <3>1, <3>2
  <2>. HIDE DEF c
  <2>4. Floor(c, k)
    <3>1. ASSUME NEW j \in Node PROVE 3 * c.credit[j] > -k \/ c.credit[j] >= 0
      <4>1. <<>> \in Seq(Block) /\ s.credit[j] \in Int
        BY <2>1
      <4>2. c.credit[j] \in {s.credit[j], s.credit[j] - 1} /\ (j # v.peer => c.credit[j] = s.credit[j])
        BY <2>3, <4>1
      <4>3. 3 * s.credit[j] > -k \/ s.credit[j] >= 0
        BY DEF Floor
      <4>4. 3 * (s.credit[v.peer] - 1) > -k
        BY <1>2 DEF CreditSuffices
      <4>. QED
        BY <4>1, <4>2, <4>3, <4>4
    <3>. QED
      BY <3>1 DEF Floor
  <2>5. Cardinality(c.pending) \in Nat /\ Cardinality(c.pending) <= MaxCommands
    <3>1. s.pending \in SUBSET Vote /\ c.pending \in SUBSET Vote
      BY <2>3, ServerTypes
    <3>2. IsFiniteSet(s.pending) /\ Cardinality(s.pending) \in Nat
      BY <3>1, VotesFinite
    <3>3. Cardinality(c.pending) = Cardinality(s.pending) + 1
      BY <2>1, <2>3, <3>2, FS_AddElement
    <3>4. N \in Nat /\ N # 0
      BY <2>1, NodeAssumption, FS_CardinalityType, FS_EmptySet DEF N
    <3>5. 3 * Cardinality(s.pending) < N
      <4>1. s.pending = {} => Cardinality(s.pending) = 0
        BY FS_EmptySet
      <4>. QED
        BY <3>2, <3>4, <4>1 DEF Small
    <3>. QED
      BY <3>2, <3>3, <3>4, <3>5, NodeAssumption, BoundAssumption
  <2>6. CASE 3 * Cardinality(c.pending) < k
    <3>1. Proposed(s, k, v) = c
      BY <2>2, <2>6 DEF Flushed
    <3>2. Small(c, k)
      BY <2>6 DEF Small
    <3>. QED
      BY <2>3, <2>4, <3>1, <3>2
  <2>7. CASE ~(3 * Cardinality(c.pending) < k)
    <3>1. Proposed(s, k, v) = g
      BY <2>2, <2>3, <2>5, <2>7 DEF Flushed, Server, Stacked
    <3>2. ASSUME NEW ch \in Seq(Block), NEW i \in Node, NEW j \in Node
          PROVE  /\ g \in Server /\ g.pending = {} /\ g.credit = c.credit
                 /\ Given(g, ch, i, j) = Given(c, ch, i, j)
      <4>1. c \in Server
        BY <2>3
      <4>. HIDE DEF c
      <4>. QED
        BY <4>1, StackedEffect
    <3>. HIDE DEF g
    <3>3. g \in Server /\ g.pending = {} /\ g.credit = c.credit
      <4>1. <<>> \in Seq(Block)
        OBVIOUS
      <4>. QED
        BY <2>1, <3>2, <4>1
    <3>4. Floor(g, k) /\ Small(g, k)
      BY <2>4, <3>3 DEF Floor, Small
    <3>5. \A ch \in Seq(Block) : \A i, j \in Node :
              g.credit[j] + Given(g, ch, i, j) = s.credit[j] + Given(s, ch, i, j)
      BY <2>3, <3>2, <3>3
    <3>. QED
      BY <3>1, <3>3, <3>4, <3>5
  <2>. QED
    BY <2>6, <2>7
<1>. QED
  BY <1>1, <1>2

\* The votes of p for n in a block.
VotesFor(b, p, n) == {v \in b.placed : v.origin = p /\ v.peer = n}

\* modifyStake for all votes in a block: a credit for each.
LEMMA CreditedEffect ==
    ASSUME NEW s \in Server, NEW ch \in Seq(Block), NEW a \in Nat, a + 1 \in 1..Len(ch),
           NEW n \in Node
    PROVE  /\ Credited(n, s, ch[a + 1]) \in Server
           /\ Credited(n, s, ch[a + 1]).pending = s.pending
           /\ \A j \in Node :
                 /\ s.credit[j] <= Credited(n, s, ch[a + 1]).credit[j]
                 /\ Given(Credited(n, s, ch[a + 1]), ch, n, j) = Given(s, ch, n, j)
                 /\ Credited(n, s, ch[a + 1]).credit[j] - Cardinality(BlockVotes(ch, 0, a + 1, j, n))
                      = s.credit[j] - Cardinality(BlockVotes(ch, 0, a, j, n))
<1>. DEFINE g == Credited(n, s, ch[a + 1])
            b == ch[a + 1]
            c == [p \in Node |-> s.credit[p] + Cardinality(VotesFor(b, p, n))]
<1>1. \A p \in Node :
          /\ Cardinality(VotesFor(b, p, n)) \in Nat
          /\ Cardinality(BlockVotes(ch, 0, a + 1, p, n))
               = Cardinality(BlockVotes(ch, 0, a, p, n)) + Cardinality(VotesFor(b, p, n))
  BY BlocksSplit DEF VotesFor
<1>2. s.credit \in [Node -> Int]
  BY ServerTypes
<1>3. g = [s EXCEPT !.credit = c]
  BY DEF Credited, VotesFor
<1>4. c \in [Node -> Int]
  <2>1. \A p \in Node : s.credit[p] + Cardinality(VotesFor(b, p, n)) \in Int
    BY <1>1, <1>2
  <2>. HIDE DEF b
  <2>. QED
    BY <2>1
<1>5. \A p \in Node : Cardinality(BlockVotes(ch, 0, a, p, n)) \in Nat
  <2>1. a \in 0..Len(ch) /\ 0 \in Nat
    BY ChainTypes
  <2>. QED
    BY <2>1, BlocksFinite
<1>6. \A p \in Node : c[p] = s.credit[p] + Cardinality(VotesFor(b, p, n))
  OBVIOUS
<1>. HIDE DEF g, c, b
<1>7. g \in Server /\ g.pending = s.pending /\ g.stack = s.stack /\ g.credit = c
  BY <1>3, <1>4 DEF Server
<1>8. \A j \in Node : Given(g, ch, n, j) = Given(s, ch, n, j)
  BY <1>7 DEF Given, Out, StackVotes
<1>9. ASSUME NEW j \in Node
      PROVE  /\ s.credit[j] <= g.credit[j]
             /\ g.credit[j] - Cardinality(BlockVotes(ch, 0, a + 1, j, n))
                  = s.credit[j] - Cardinality(BlockVotes(ch, 0, a, j, n))
  <2>1. s.credit[j] \in Int /\ g.credit[j] = s.credit[j] + Cardinality(VotesFor(b, j, n))
    BY <1>2, <1>6, <1>7
  <2>. QED
    BY <1>1, <1>5, <2>1
<1>. QED
  BY <1>7, <1>8, <1>9 DEF g, b

\* A block takes over the oldest transaction of i, or nothing of i.
LEMMA DecidedEffect ==
    ASSUME NEW s \in Server, NEW g \in Server, NEW ch \in Seq(Block), NEW b \in Block,
           NEW i \in Node, NEW j \in Node,
           \/ /\ g = s
              /\ \A ident \in Ident : [origin |-> i, peer |-> j, ident |-> ident] \notin b.placed
           \/ /\ s.stack # <<>> /\ g.stack = Tail(s.stack) /\ g.pending = s.pending
              /\ \A ident \in Ident : [origin |-> i, peer |-> j, ident |-> ident] \in b.placed
                                      <=> [peer |-> j, ident |-> ident] \in Head(s.stack)
    PROVE  Given(g, Append(ch, b), i, j) = Given(s, ch, i, j)
<1>. DEFINE c2 == Append(ch, b)
            S == Out(s, ch, 0, i, j)
            T == Out(g, c2, 0, i, j)
            l == Len(ch) + 1
            f == [e \in S |-> IF e[1] # "stack" THEN e
                              ELSE IF e[2] = 1 THEN <<"block", l, e[3]>>
                                               ELSE <<"stack", e[2] - 1, e[3]>>]
<1>1. Len(ch) \in Nat /\ DOMAIN ch = 1..Len(ch)
  BY ChainTypes
<1>2. c2 \in Seq(Block) /\ Len(c2) = l /\ c2[l] = b /\ \A k \in 1..Len(ch) : c2[k] = ch[k]
  BY <1>1, AppendProperties
<1>. HIDE DEF c2
<1>3. \A e : e \in S <=>
                  \E place \in {"pending", "stack", "block"}, k \in Nat, ident \in Ident :
                      e = <<place, k, ident>> /\ IsOut(s, ch, 0, i, j, place, k, ident)
  BY GivenTypes
<1>4. \A e : e \in T <=>
                  \E place \in {"pending", "stack", "block"}, k \in Nat, ident \in Ident :
                      e = <<place, k, ident>> /\ IsOut(g, c2, 0, i, j, place, k, ident)
  BY <1>2, GivenTypes
<1>5. IsFiniteSet(S)
  BY GivenTypes
<1>. HIDE DEF S, T
<1>6. CASE /\ g = s
           /\ \A ident \in Ident : [origin |-> i, peer |-> j, ident |-> ident] \notin b.placed
  <2>1. ASSUME NEW place, NEW k \in Nat, NEW ident \in Ident
        PROVE  IsOut(g, c2, 0, i, j, place, k, ident) <=> IsOut(s, ch, 0, i, j, place, k, ident)
    <3>1. k \in (0 + 1)..l <=> k \in (0 + 1)..Len(ch) \/ k = l
      BY <1>1
    <3>2. /\ k \in (0 + 1)..l /\ [origin |-> i, peer |-> j, ident |-> ident] \in c2[k].placed
             <=> /\ k \in (0 + 1)..Len(ch)
                 /\ [origin |-> i, peer |-> j, ident |-> ident] \in ch[k].placed
      BY <1>1, <1>2, <1>6, <3>1
    <3>3. IsOut(g, c2, 0, i, j, "block", k, ident) <=>
            k \in (0 + 1)..l /\ [origin |-> i, peer |-> j, ident |-> ident] \in c2[k].placed
      BY <1>2 DEF IsOut
    <3>4. IsOut(s, ch, 0, i, j, "block", k, ident) <=>
            k \in (0 + 1)..Len(ch) /\ [origin |-> i, peer |-> j, ident |-> ident] \in ch[k].placed
      BY DEF IsOut
    <3>5. IsOut(g, c2, 0, i, j, "block", k, ident) <=> IsOut(s, ch, 0, i, j, "block", k, ident)
      BY <3>2, <3>3, <3>4
    <3>6. CASE place = "block"
      BY <3>5, <3>6
    <3>7. CASE place # "block"
      BY <1>6, <3>7 DEF IsOut
    <3>. QED
      BY <3>6, <3>7
  <2>2. ASSUME NEW e \in S PROVE e \in T
    <3>1. PICK place \in {"pending", "stack", "block"}, k \in Nat, ident \in Ident :
                e = <<place, k, ident>> /\ IsOut(s, ch, 0, i, j, place, k, ident)
      BY <1>3
    <3>. QED
      BY <1>4, <2>1, <3>1
  <2>3. ASSUME NEW e \in T PROVE e \in S
    <3>1. PICK place \in {"pending", "stack", "block"}, k \in Nat, ident \in Ident :
                e = <<place, k, ident>> /\ IsOut(g, c2, 0, i, j, place, k, ident)
      BY <1>4
    <3>. QED
      BY <1>3, <2>1, <3>1
  <2>4. S = T
    BY <2>2, <2>3
  <2>. QED
    BY <2>4 DEF Given, S, T, c2
<1>7. CASE /\ s.stack # <<>> /\ g.stack = Tail(s.stack) /\ g.pending = s.pending
           /\ \A ident \in Ident : [origin |-> i, peer |-> j, ident |-> ident] \in b.placed
                                      <=> [peer |-> j, ident |-> ident] \in Head(s.stack)
  <2>1. /\ Len(s.stack) \in Nat /\ Len(s.stack) # 0 /\ DOMAIN s.stack = 1..Len(s.stack)
        /\ s.stack \in Seq(SUBSET Vote)
    BY <1>7, ServerTypes, EmptySeq
  <2>2. Head(s.stack) = s.stack[1] /\ DOMAIN g.stack = 1..(Len(s.stack) - 1)
        /\ \A k \in 1..(Len(s.stack) - 1) : g.stack[k] = s.stack[k + 1]
    BY <1>7, <2>1
  <2>3. ASSUME NEW ident \in Ident
        PROVE  /\ \A k \in Nat : IsOut(g, c2, 0, i, j, "pending", k, ident)
                                    <=> IsOut(s, ch, 0, i, j, "pending", k, ident)
               /\ \A k \in Nat : IsOut(g, c2, 0, i, j, "stack", k, ident)
                                    <=> k # 0 /\ IsOut(s, ch, 0, i, j, "stack", k + 1, ident)
               /\ \A k \in Nat : IsOut(g, c2, 0, i, j, "block", k, ident)
                                    <=> \/ IsOut(s, ch, 0, i, j, "block", k, ident)
                                        \/ k = l /\ IsOut(s, ch, 0, i, j, "stack", 1, ident)
    <3>1. \A k \in Nat : IsOut(g, c2, 0, i, j, "pending", k, ident)
                                    <=> IsOut(s, ch, 0, i, j, "pending", k, ident)
      BY <1>7 DEF IsOut
    <3>2. ASSUME NEW k \in Nat
          PROVE  IsOut(g, c2, 0, i, j, "stack", k, ident)
                                    <=> k # 0 /\ IsOut(s, ch, 0, i, j, "stack", k + 1, ident)
      <4>1. k \in 1..(Len(s.stack) - 1) <=> k # 0 /\ k + 1 \in 1..Len(s.stack)
        BY <2>1
      <4>. QED
        BY <2>1, <2>2, <4>1 DEF IsOut
    <3>3. ASSUME NEW k \in Nat
          PROVE  IsOut(g, c2, 0, i, j, "block", k, ident)
                                    <=> \/ IsOut(s, ch, 0, i, j, "block", k, ident)
                                        \/ k = l /\ IsOut(s, ch, 0, i, j, "stack", 1, ident)
      <4>1. (k \in 1..l <=> k \in 1..Len(ch) \/ k = l) /\ 1 \in 1..Len(s.stack) /\ l \notin 1..Len(ch)
        BY <1>1, <2>1
      <4>2. IsOut(s, ch, 0, i, j, "stack", 1, ident)
              <=> [origin |-> i, peer |-> j, ident |-> ident] \in b.placed
        BY <1>7, <2>1, <2>2, <4>1 DEF IsOut
      <4>3. IsOut(s, ch, 0, i, j, "block", k, ident) <=>
              k \in 1..Len(ch) /\ [origin |-> i, peer |-> j, ident |-> ident] \in ch[k].placed
        BY DEF IsOut
      <4>4. IsOut(g, c2, 0, i, j, "block", k, ident) <=>
              k \in 1..l /\ [origin |-> i, peer |-> j, ident |-> ident] \in c2[k].placed
        BY <1>2 DEF IsOut
      <4>. QED
        BY <1>2, <4>1, <4>2, <4>3, <4>4
    <3>. QED
      BY <3>1, <3>2, <3>3
  <2>4. ASSUME NEW k \in Nat, NEW ident \in Ident
        PROVE  /\ <<"pending", k, ident>> \in S
                    => f[<<"pending", k, ident>>] = <<"pending", k, ident>>
               /\ <<"block", k, ident>> \in S => f[<<"block", k, ident>>] = <<"block", k, ident>>
               /\ <<"stack", 1, ident>> \in S => f[<<"stack", 1, ident>>] = <<"block", l, ident>>
    OBVIOUS
  <2>b. ASSUME NEW k \in Nat, k # 0, NEW ident \in Ident, <<"stack", k + 1, ident>> \in S
        PROVE  f[<<"stack", k + 1, ident>>] = <<"stack", k, ident>>
    <3>1. k + 1 # 1 /\ k + 1 - 1 = k
      BY <2>b
    <3>2. f[<<"stack", k + 1, ident>>] = <<"stack", k + 1 - 1, ident>>
      BY <2>b, <3>1
    <3>. QED
      BY <3>1, <3>2
  <2>5. DOMAIN f = S
    OBVIOUS
  <2>a. f = [e \in S |-> f[e]]
    OBVIOUS
  <2>. HIDE DEF f
  \* The four kinds of votes, and where each goes.
  <2>. DEFINE Pending(e, k, d) == /\ e = <<"pending", k, d>> /\ f[e] = <<"pending", k, d>>
                                  /\ IsOut(s, ch, 0, i, j, "pending", k, d)
              Oldest(e, d) == /\ e = <<"stack", 1, d>> /\ f[e] = <<"block", l, d>>
                              /\ IsOut(s, ch, 0, i, j, "stack", 1, d)
              Waiting(e, k, d) == /\ e = <<"stack", k + 1, d>> /\ f[e] = <<"stack", k, d>> /\ k # 0
                                  /\ IsOut(s, ch, 0, i, j, "stack", k + 1, d)
              Decided(e, k, d) == /\ e = <<"block", k, d>> /\ f[e] = <<"block", k, d>>
                                  /\ IsOut(s, ch, 0, i, j, "block", k, d) /\ k \in 1..Len(ch)
  <2>6. ASSUME NEW e \in S
        PROVE  \E k \in Nat, d \in Ident :
                  Pending(e, k, d) \/ Oldest(e, d) \/ Waiting(e, k, d) \/ Decided(e, k, d)
    <3>1. PICK place \in {"pending", "stack", "block"}, k \in Nat, d \in Ident :
                e = <<place, k, d>> /\ IsOut(s, ch, 0, i, j, place, k, d)
      BY <1>3
    <3>2. CASE place = "pending"
      <4>1. Pending(e, k, d)
        BY <2>4, <3>1, <3>2
      <4>. QED
        BY <4>1
    <3>3. CASE place = "block"
      <4>1. k \in 1..Len(ch)
        BY <3>1, <3>3 DEF IsOut
      <4>2. Decided(e, k, d)
        BY <2>4, <3>1, <3>3, <4>1
      <4>. QED
        BY <4>2
    <3>4. CASE place = "stack" /\ k = 1
      <4>1. Oldest(e, d)
        BY <2>4, <3>1, <3>4
      <4>. QED
        BY <4>1
    <3>5. CASE place = "stack" /\ k # 1
      <4>1. k \in 1..Len(s.stack)
        BY <2>1, <3>1, <3>5 DEF IsOut
      <4>0. k - 1 \in Nat /\ k - 1 # 0 /\ k = (k - 1) + 1
        BY <3>5, <4>1
      <4>2. PICK m \in Nat : k = m + 1 /\ m # 0
        BY <4>0
      <4>3. e = <<"stack", m + 1, d>>
        BY <3>1, <3>5, <4>2
      <4>4. f[<<"stack", m + 1, d>>] = <<"stack", m, d>>
        BY <2>b, <4>2, <4>3
      <4>5. Waiting(e, m, d)
        BY <3>1, <3>5, <4>2, <4>3, <4>4
      <4>. QED
        BY <4>5
    <3>. QED
      BY <3>1, <3>2, <3>3, <3>4, <3>5
  <2>7. f \in [S -> T]
    <3>1. ASSUME NEW e \in S PROVE f[e] \in T
      <4>1. PICK k \in Nat, d \in Ident :
                  Pending(e, k, d) \/ Oldest(e, d) \/ Waiting(e, k, d) \/ Decided(e, k, d)
        BY <2>6
      <4>2. CASE Pending(e, k, d)
        BY <1>4, <2>3, <4>2
      <4>3. CASE Decided(e, k, d)
        BY <1>4, <2>3, <4>3
      <4>4. CASE Oldest(e, d)
        <5>1. l \in Nat /\ IsOut(g, c2, 0, i, j, "block", l, d)
          BY <1>1, <2>3, <4>4
        <5>. QED
          BY <1>4, <4>4, <5>1
      <4>5. CASE Waiting(e, k, d)
        <5>1. IsOut(g, c2, 0, i, j, "stack", k, d)
          BY <2>3, <4>5
        <5>. QED
          BY <1>4, <4>5, <5>1
      <4>. QED
        BY <4>1, <4>2, <4>3, <4>4, <4>5
    <3>. QED
      BY <2>a, <3>1
  <2>8. ASSUME NEW x \in S, NEW y \in S, f[x] = f[y] PROVE x = y
    <3>1. PICK k \in Nat, c \in Ident :
                  Pending(x, k, c) \/ Oldest(x, c) \/ Waiting(x, k, c) \/ Decided(x, k, c)
      BY <2>6
    <3>2. PICK m \in Nat, d \in Ident :
                  Pending(y, m, d) \/ Oldest(y, d) \/ Waiting(y, m, d) \/ Decided(y, m, d)
      BY <2>6
    <3>3. l \notin 1..Len(ch)
      BY <1>1
    <3>. HIDE DEF l
    <3>4. CASE Pending(x, k, c)
      BY <2>8, <3>2, <3>4
    <3>5. CASE Decided(x, k, c)
      BY <2>8, <3>2, <3>3, <3>5
    <3>6. CASE Oldest(x, c)
      BY <2>8, <3>2, <3>3, <3>6
    <3>7. CASE Waiting(x, k, c)
      BY <2>8, <3>2, <3>7
    <3>. QED
      BY <3>1, <3>4, <3>5, <3>6, <3>7
  <2>9. ASSUME NEW y \in T PROVE \E x \in S : f[x] = y
    <3>1. PICK place \in {"pending", "stack", "block"}, k \in Nat, ident \in Ident :
                y = <<place, k, ident>> /\ IsOut(g, c2, 0, i, j, place, k, ident)
      BY <1>4
    <3>2. CASE place = "pending"
      BY <1>3, <2>3, <2>4, <3>1, <3>2
    <3>3. CASE place = "block" /\ IsOut(s, ch, 0, i, j, "block", k, ident)
      BY <1>3, <2>4, <3>1, <3>3
    <3>4. CASE place = "block" /\ k = l /\ IsOut(s, ch, 0, i, j, "stack", 1, ident)
      <4>1. <<"stack", 1, ident>> \in S
        BY <1>3, <3>4
      <4>. QED
        BY <2>4, <3>1, <3>4, <4>1
    <3>5. CASE place = "stack"
      <4>1. k # 0 /\ IsOut(s, ch, 0, i, j, "stack", k + 1, ident) /\ k + 1 \in Nat /\ k + 1 # 1
        BY <2>3, <3>1, <3>5
      <4>2. <<"stack", k + 1, ident>> \in S
        BY <1>3, <4>1
      <4>3. f[<<"stack", k + 1, ident>>] = <<"stack", k, ident>>
        BY <2>b, <4>1, <4>2
      <4>. QED
        BY <3>1, <3>5, <4>2, <4>3
    <3>. QED
      BY <2>3, <3>1, <3>2, <3>3, <3>4, <3>5
  <2>11. Cardinality(T) = Cardinality(S)
    BY <1>5, <2>7, <2>8, <2>9, SameSize
  <2>. QED
    BY <2>11 DEF Given, S, T, c2
<1>. QED
  BY <1>6, <1>7

\* Blocks that are not there yet have no votes.
LEMMA EarlierBlocks ==
    ASSUME NEW ch \in Seq(Block), NEW b \in Block, NEW a \in 0..Len(ch), NEW i \in Node, NEW j \in Node
    PROVE  BlockVotes(Append(ch, b), 0, a, i, j) = BlockVotes(ch, 0, a, i, j)
<1>1. Len(ch) \in Nat
  BY ChainTypes
<1>2. \A k \in 1..Len(ch) : Append(ch, b)[k] = ch[k]
  BY <1>1, AppendProperties
<1>3. \A k \in (0 + 1)..a : Append(ch, b)[k] = ch[k]
  BY <1>1, <1>2
<1>. QED
  BY <1>3 DEF BlockVotes

-----------------------------------------------------------------------------
(* The inductive invariant.  What i has spent for j and not regained is the *)
(* number of its votes for j, less the number of votes of j for i that i    *)
(* has applied; it does not depend on what other nodes have applied.        *)

Owed(s, ch, a, i, j) ==
    s.credit[j] + Given(s, ch, i, j) - Cardinality(BlockVotes(ch, 0, a, j, i))

Settled(s, ch, a, i, u) ==
    \A j \in Node : Owed(s, ch, a, i, j) >= 0 /\ (i \notin u => Owed(s, ch, a, i, j) = 0)

Sound(s, k, ch, a, i, u) == Floor(s, k) /\ Small(s, k) /\ Settled(s, ch, a, i, u)

CreditInv ==
    /\ TypeOK
    /\ \A n \in Node :
          Sound(server[n], Cardinality(online[n]), chain, applied[n], n, upset)

LEMMA OwedTypes ==
    ASSUME NEW s \in Server, NEW ch \in Seq(Block), NEW a \in 0..Len(ch),
           NEW i \in Node, NEW j \in Node
    PROVE  /\ s.credit[j] \in Int /\ Given(s, ch, i, j) \in Nat
           /\ Cardinality(BlockVotes(ch, 0, a, j, i)) \in Nat
           /\ Owed(s, ch, a, i, j) \in Int
<1>1. s.credit[j] \in Int
  BY ServerTypes
<1>2. Given(s, ch, i, j) \in Nat
  BY GivenTypes
<1>3. Cardinality(BlockVotes(ch, 0, a, j, i)) \in Nat
  BY BlocksFinite
<1>. QED
  BY <1>1, <1>2, <1>3 DEF Owed

\* The server of n after a block: credits, and maybe a vote.
AfterBlock(n, s, b, k, g) ==
    \/ g = Credited(n, s, b)
    \/ \E v \in Vote : g = Proposed(Credited(n, s, b), k, v)

\* proposeModifyStake settles nothing and owes nothing.
LEMMA ProposedSound ==
    ASSUME NEW s \in Server, NEW k \in Nat, k <= N, NEW v \in Vote, NEW ch \in Seq(Block),
           NEW a \in 0..Len(ch), NEW n \in Node, NEW u, Sound(s, k, ch, a, n, u)
    PROVE  Proposed(s, k, v) \in Server /\ Sound(Proposed(s, k, v), k, ch, a, n, u)
<1>. DEFINE g == Proposed(s, k, v)
<1>1. /\ g \in Server /\ Floor(g, k) /\ Small(g, k)
      /\ \A c \in Seq(Block) : \A i, j \in Node :
            g.credit[j] + Given(g, c, i, j) = s.credit[j] + Given(s, c, i, j)
  BY ProposedEffect DEF Sound
<1>. HIDE DEF g
<1>2. ASSUME NEW j \in Node PROVE Owed(g, ch, a, n, j) = Owed(s, ch, a, n, j)
  <2>1. /\ s.credit[j] \in Int /\ Given(s, ch, n, j) \in Nat
        /\ Cardinality(BlockVotes(ch, 0, a, j, n)) \in Nat
    BY OwedTypes
  <2>2. g.credit[j] \in Int /\ Given(g, ch, n, j) \in Nat
    BY <1>1, OwedTypes
  <2>3. g.credit[j] + Given(g, ch, n, j) = s.credit[j] + Given(s, ch, n, j)
    BY <1>1
  <2>4. PICK p \in Int : p = Cardinality(BlockVotes(ch, 0, a, j, n))
    BY <2>1
  <2>5. Owed(g, ch, a, n, j) = g.credit[j] + Given(g, ch, n, j) - p
        /\ Owed(s, ch, a, n, j) = s.credit[j] + Given(s, ch, n, j) - p
    BY <2>4 DEF Owed
  <2>6. PICK x \in Int, y \in Int : x = s.credit[j] /\ y = g.credit[j]
    BY <2>1, <2>2
  <2>7. PICK t \in Int, w \in Int : t = Given(s, ch, n, j) /\ w = Given(g, ch, n, j)
    BY <2>1, <2>2
  <2>8. y + w = x + t
    BY <2>3, <2>6, <2>7
  <2>9. y + w - p = x + t - p
    BY <2>8
  <2>. QED
    BY <2>5, <2>6, <2>7, <2>9
<1>3. Settled(g, ch, a, n, u)
  BY <1>2 DEF Sound, Settled
<1>. QED
  BY <1>1, <1>3 DEF g, Sound

\* The next block.
LEMMA AppliedSound ==
    ASSUME NEW s \in Server, NEW k \in Nat, k <= N, NEW ch \in Seq(Block),
           NEW a \in Nat, a + 1 \in 1..Len(ch), NEW n \in Node, NEW u,
           Sound(s, k, ch, a, n, u), NEW g, AfterBlock(n, s, ch[a + 1], k, g)
    PROVE  g \in Server /\ Sound(g, k, ch, a + 1, n, u)
<1>. DEFINE c == Credited(n, s, ch[a + 1])
<1>1. /\ c \in Server /\ c.pending = s.pending
      /\ \A j \in Node :
            /\ s.credit[j] <= c.credit[j]
            /\ Given(c, ch, n, j) = Given(s, ch, n, j)
            /\ c.credit[j] - Cardinality(BlockVotes(ch, 0, a + 1, j, n))
                 = s.credit[j] - Cardinality(BlockVotes(ch, 0, a, j, n))
  BY CreditedEffect
<1>2. a \in 0..Len(ch) /\ a + 1 \in 0..Len(ch)
  BY ChainTypes
<1>. HIDE DEF c
<1>3. ASSUME NEW j \in Node
      PROVE  /\ Owed(c, ch, a + 1, n, j) = Owed(s, ch, a, n, j)
             /\ s.credit[j] \in Int /\ c.credit[j] \in Int /\ s.credit[j] <= c.credit[j]
  <2>1. /\ s.credit[j] \in Int /\ Given(s, ch, n, j) \in Nat
        /\ Cardinality(BlockVotes(ch, 0, a, j, n)) \in Nat
    BY <1>2, OwedTypes
  <2>2. c.credit[j] \in Int /\ Cardinality(BlockVotes(ch, 0, a + 1, j, n)) \in Nat
    BY <1>1, <1>2, OwedTypes
  <2>3. /\ s.credit[j] <= c.credit[j] /\ Given(c, ch, n, j) = Given(s, ch, n, j)
        /\ c.credit[j] - Cardinality(BlockVotes(ch, 0, a + 1, j, n))
             = s.credit[j] - Cardinality(BlockVotes(ch, 0, a, j, n))
    BY <1>1
  <2>4. Owed(c, ch, a + 1, n, j)
          = c.credit[j] + Given(c, ch, n, j) - Cardinality(BlockVotes(ch, 0, a + 1, j, n))
    BY DEF Owed
  <2>5. Owed(s, ch, a, n, j)
          = s.credit[j] + Given(s, ch, n, j) - Cardinality(BlockVotes(ch, 0, a, j, n))
    BY DEF Owed
  <2>6. Owed(c, ch, a + 1, n, j) = Owed(s, ch, a, n, j)
    <3>1. PICK p \in Int : p = Cardinality(BlockVotes(ch, 0, a + 1, j, n))
      BY <2>2
    <3>2. PICK q \in Int : q = Cardinality(BlockVotes(ch, 0, a, j, n))
      BY <2>1
    <3>3. PICK h \in Int : h = Given(s, ch, n, j)
      BY <2>1
    <3>4. PICK x \in Int : x = s.credit[j]
      BY <2>1
    <3>5. PICK y \in Int : y = c.credit[j]
      BY <2>2
    <3>6. y - p = x - q
      BY <2>3, <3>1, <3>2, <3>4, <3>5
    <3>7. y + h - p = x + h - q
      BY <3>6
    <3>. QED
      BY <2>3, <2>4, <2>5, <3>1, <3>2, <3>3, <3>4, <3>5, <3>7
  <2>. QED
    BY <2>1, <2>2, <2>3, <2>6
<1>4. Floor(c, k) /\ Small(c, k)
  BY <1>1, <1>3 DEF Sound, Floor, Small
<1>5. Sound(c, k, ch, a + 1, n, u)
  BY <1>3, <1>4 DEF Sound, Settled
<1>6. CASE g = c
  BY <1>1, <1>5, <1>6
<1>7. ASSUME NEW v \in Vote, g = Proposed(c, k, v)
      PROVE  g \in Server /\ Sound(g, k, ch, a + 1, n, u)
  BY <1>1, <1>2, <1>5, <1>7, ProposedSound
<1>. QED
  BY <1>6, <1>7 DEF AfterBlock, c

\* The same block again only ever adds.
LEMMA RepeatedSound ==
    ASSUME NEW s \in Server, NEW k \in Nat, k <= N, NEW ch \in Seq(Block),
           NEW a \in 1..Len(ch), NEW n \in Node, NEW u, NEW w, n \in w,
           Sound(s, k, ch, a, n, u), NEW g, AfterBlock(n, s, ch[a], k, g)
    PROVE  g \in Server /\ Sound(g, k, ch, a, n, w)
<1>. DEFINE c == Credited(n, s, ch[a])
<1>1. PICK m \in Nat : a = m + 1 /\ m \in 0..Len(ch)
  <2>1. Len(ch) \in Nat
    BY ChainTypes
  <2>2. a - 1 \in Nat /\ a = (a - 1) + 1 /\ a - 1 \in 0..Len(ch)
    BY <2>1
  <2>. QED
    BY <2>2
<1>2. /\ c \in Server /\ c.pending = s.pending
      /\ \A j \in Node :
            /\ s.credit[j] <= c.credit[j]
            /\ Given(c, ch, n, j) = Given(s, ch, n, j)
  <2>1. m + 1 \in 1..Len(ch) /\ ch[a] = ch[m + 1]
    BY <1>1
  <2>. QED
    BY <1>1, <2>1, CreditedEffect
<1>3. a \in 0..Len(ch)
  BY ChainTypes
<1>. HIDE DEF c
<1>4. ASSUME NEW j \in Node
      PROVE  /\ Owed(c, ch, a, n, j) >= 0
             /\ s.credit[j] \in Int /\ c.credit[j] \in Int /\ s.credit[j] <= c.credit[j]
  <2>1. /\ s.credit[j] \in Int /\ Given(s, ch, n, j) \in Nat
        /\ Cardinality(BlockVotes(ch, 0, a, j, n)) \in Nat
    BY <1>3, OwedTypes
  <2>2. c.credit[j] \in Int
    BY <1>2, <1>3, OwedTypes
  <2>3. Owed(s, ch, a, n, j) >= 0
    BY DEF Sound, Settled
  <2>. QED
    BY <1>2, <2>1, <2>2, <2>3 DEF Owed
<1>5. Floor(c, k) /\ Small(c, k)
  BY <1>2, <1>4 DEF Sound, Floor, Small
<1>6. Sound(c, k, ch, a, n, w)
  BY <1>4, <1>5 DEF Sound, Settled
<1>7. CASE g = c
  BY <1>2, <1>6, <1>7
<1>8. ASSUME NEW v \in Vote, g = Proposed(c, k, v)
      PROVE  g \in Server /\ Sound(g, k, ch, a, n, w)
  BY <1>2, <1>3, <1>6, <1>8, ProposedSound
<1>. QED
  BY <1>7, <1>8 DEF AfterBlock, c

\* A block takes the oldest transaction of n, or nothing of n.
LEMMA DecidedSound ==
    ASSUME NEW s \in Server, NEW g \in Server, NEW k, NEW ch \in Seq(Block), NEW b \in Block,
           NEW a \in 0..Len(ch), NEW n \in Node, NEW u, Sound(s, k, ch, a, n, u),
           g.credit = s.credit, g.pending = s.pending,
           \/ /\ g = s
              /\ \A j \in Node, d \in Ident : [origin |-> n, peer |-> j, ident |-> d] \notin b.placed
           \/ /\ s.stack # <<>> /\ g.stack = Tail(s.stack)
              /\ \A j \in Node, d \in Ident : [origin |-> n, peer |-> j, ident |-> d] \in b.placed
                                              <=> [peer |-> j, ident |-> d] \in Head(s.stack)
    PROVE  Sound(g, k, Append(ch, b), a, n, u)
<1>1. ASSUME NEW j \in Node PROVE Owed(g, Append(ch, b), a, n, j) = Owed(s, ch, a, n, j)
  <2>1. Given(g, Append(ch, b), n, j) = Given(s, ch, n, j)
    BY DecidedEffect
  <2>2. BlockVotes(Append(ch, b), 0, a, j, n) = BlockVotes(ch, 0, a, j, n)
    BY EarlierBlocks
  <2>. QED
    BY <2>1, <2>2 DEF Owed
<1>2. Settled(g, Append(ch, b), a, n, u)
  BY <1>1 DEF Sound, Settled
<1>. QED
  BY <1>2 DEF Sound, Floor, Small

\* A node that starts again has credit, if anything.
LEMMA RestartedSound ==
    ASSUME NEW ch \in Seq(Block), NEW n \in Node, NEW u, n \in u
    PROVE  NewServer \in Server /\ Sound(NewServer, 0, ch, 0, n, u)
<1>1. NewServer \in Server /\ NewServer.pending = {} /\ \A j \in Node : NewServer.credit[j] = 0
  BY DEF NewServer, Server, NoCount
<1>2. 0 \in 0..Len(ch)
  BY ChainTypes
<1>3. ASSUME NEW j \in Node PROVE Owed(NewServer, ch, 0, n, j) >= 0
  <2>1. BlockVotes(ch, 0, 0, j, n) = {}
    <3>1. (0 + 1)..0 = {}
      OBVIOUS
    <3>. QED
      BY <3>1 DEF BlockVotes
  <2>2. Cardinality(BlockVotes(ch, 0, 0, j, n)) = 0
    BY <2>1, FS_EmptySet
  <2>3. Given(NewServer, ch, n, j) \in Nat
    BY <1>1, GivenTypes
  <2>. QED
    BY <1>1, <2>2, <2>3 DEF Owed
<1>. QED
  BY <1>1, <1>3 DEF Sound, Floor, Small, Settled

\* More peers online: more room.
LEMMA MoreOnline ==
    ASSUME NEW s \in Server, NEW k \in Nat, NEW l \in Nat, k <= l, NEW ch, NEW a, NEW n, NEW u,
           Sound(s, k, ch, a, n, u)
    PROVE  Sound(s, l, ch, a, n, u)
<1>1. s.credit \in [Node -> Int] /\ Cardinality(s.pending) \in Nat
  BY ServerTypes, VotesFinite
<1>2. Floor(s, l)
  BY <1>1 DEF Sound, Floor
<1>3. Small(s, l)
  BY <1>1 DEF Sound, Small
<1>. QED
  BY <1>2, <1>3 DEF Sound

-----------------------------------------------------------------------------
(* The steps.                                                               *)

\* Online peers are peers.
LEMMA OnlineTypes ==
    ASSUME NEW S \in SUBSET Node, NEW T \in SUBSET Node, S \subseteq T
    PROVE  /\ Cardinality(S) \in Nat /\ Cardinality(T) \in Nat /\ N \in Nat
           /\ Cardinality(S) <= Cardinality(T) /\ Cardinality(T) <= N
<1>1. IsFiniteSet(Node)
  BY NodeAssumption
<1>2. IsFiniteSet(T) /\ Cardinality(T) <= Cardinality(Node)
  BY <1>1, FS_Subset
<1>3. IsFiniteSet(S) /\ Cardinality(S) <= Cardinality(T)
  BY <1>2, FS_Subset
<1>. QED
  BY <1>1, <1>2, <1>3, FS_CardinalityType DEF N

\* What Process leaves.
LEMMA ProcessEffect ==
    ASSUME TypeOK, NEW n \in Node, NEW b \in Block, Process(n, b)
    PROVE  /\ \E g : /\ server' = [server EXCEPT ![n] = g]
                     /\ AfterBlock(n, server[n], b, Cardinality(online[n]), g)
           /\ count' \in [Node -> [Node -> Nat]]
<1>. DEFINE c == Credited(n, server[n], b)
            cnt == Counted(n, b)
            v(p) == [peer |-> p, ident |-> "vote"]
<1>1. count \in [Node -> [Node -> Nat]]
  BY DEF TypeOK
<1>2. cnt \in [Node -> Nat]
  BY <1>1 DEF Counted
<1>3. CASE ~b.match
  <2>1. server' = [server EXCEPT ![n] = c] /\ count' = [count EXCEPT ![n] = cnt]
    BY <1>3 DEF Process
  <2>2. AfterBlock(n, server[n], b, Cardinality(online[n]), c)
    BY DEF AfterBlock
  <2>. HIDE DEF c, cnt
  <2>. QED
    BY <1>1, <1>2, <2>1, <2>2
<1>4. CASE b.match
  <2>1. PICK p \in Top(n, cnt) :
           /\ server' = [server EXCEPT ![n] = Proposed(c, Cardinality(online[n]), v(p))]
           /\ count' = [count EXCEPT ![n] = IF Accepted(c, v(p)) THEN [cnt EXCEPT ![p] = 0]
                                                                 ELSE cnt]
    BY <1>4 DEF Process
  <2>2. p \in Node /\ v(p) \in Vote
    BY DEF Top, Vote, Ident
  <2>3. AfterBlock(n, server[n], b, Cardinality(online[n]),
                   Proposed(c, Cardinality(online[n]), v(p)))
    BY <2>2 DEF AfterBlock
  <2>4. (IF Accepted(c, v(p)) THEN [cnt EXCEPT ![p] = 0] ELSE cnt) \in [Node -> Nat]
    BY <1>2
  <2>. HIDE DEF c, cnt, v
  <2>5. count' \in [Node -> [Node -> Nat]]
    BY <1>1, <2>1, <2>4
  <2>. QED
    BY <2>1, <2>3, <2>5
<1>. QED
  BY <1>3, <1>4

LEMMA InitSound == Init => CreditInv
<1>. SUFFICES ASSUME Init PROVE CreditInv
  OBVIOUS
<1>0. <<>> \in Seq(Block) /\ Len(<<>>) = 0
  OBVIOUS
<1>1. NewServer \in Server
  BY DEF NewServer, Server, NoCount
<1>2. TypeOK
  BY <1>0, <1>1, BoundAssumption DEF Init, TypeOK, Server, NoCount
<1>3. ASSUME NEW n \in Node
      PROVE  Sound(server[n], Cardinality(online[n]), chain, applied[n], n, upset)
  <2>1. server[n] = NewServer /\ online[n] = Node /\ chain = <<>> /\ applied[n] = 0
    BY DEF Init
  <2>2. Cardinality(Node) \in Nat
    BY NodeAssumption, FS_CardinalityType
  <2>3. NewServer.pending = {} /\ NewServer.stack = <<>> /\ \A j \in Node : NewServer.credit[j] = 0
    BY DEF NewServer, NoCount
  <2>4. ASSUME NEW j \in Node PROVE Owed(NewServer, <<>>, 0, n, j) = 0
    <3>1. \A e : e \notin Out(NewServer, <<>>, 0, n, j)
      <4>1. 0 \in 0..Len(<<>>) /\ 1..0 = {} /\ (0 + 1)..0 = {} /\ DOMAIN <<>> = {}
        OBVIOUS
      <4>2. ASSUME NEW place, NEW k, NEW ident PROVE ~IsOut(NewServer, <<>>, 0, n, j, place, k, ident)
        BY <1>0, <2>3, <4>1 DEF IsOut
      <4>. QED
        BY <1>0, <1>1, <4>1, <4>2, OutMembers
    <3>2. Out(NewServer, <<>>, 0, n, j) = {}
      BY <3>1
    <3>3. BlockVotes(<<>>, 0, 0, j, n) = {}
      <4>1. (0 + 1)..0 = {}
        OBVIOUS
      <4>. QED
        BY <4>1 DEF BlockVotes
    <3>4. Given(NewServer, <<>>, n, j) = 0 /\ Cardinality(BlockVotes(<<>>, 0, 0, j, n)) = 0
      BY <3>2, <3>3, FS_EmptySet DEF Given
    <3>. QED
      BY <2>3, <3>4 DEF Owed
  <2>. QED
    BY <2>1, <2>2, <2>3, <2>4 DEF Sound, Floor, Small, Settled
<1>. QED
  BY <1>2, <1>3 DEF CreditInv

\* What the invariant says of one node.
LEMMA NodeTypes ==
    ASSUME CreditInv, NEW n \in Node
    PROVE  /\ server[n] \in Server /\ online[n] \in SUBSET Node
           /\ Cardinality(online[n]) \in Nat /\ Cardinality(online[n]) <= N
           /\ chain \in Seq(Block) /\ applied[n] \in Nat /\ applied[n] \in 0..Len(chain)
           /\ Len(chain) \in Nat
           /\ Sound(server[n], Cardinality(online[n]), chain, applied[n], n, upset)
<1>1. /\ server \in [Node -> Server] /\ online \in [Node -> SUBSET Node]
      /\ chain \in Seq(Block) /\ applied \in [Node -> 0..Len(chain)]
  BY DEF CreditInv, TypeOK, Server
<1>2. Len(chain) \in Nat
  BY <1>1, ChainTypes
<1>3. Cardinality(online[n]) \in Nat /\ Cardinality(online[n]) <= N
  BY <1>1, OnlineTypes
<1>4. applied[n] \in 0..Len(chain) /\ applied[n] \in Nat
  BY <1>1, <1>2
<1>. QED
  BY <1>1, <1>2, <1>3, <1>4 DEF CreditInv

\* Only n has changed, and more nodes are upset.
LEMMA OthersSound ==
    ASSUME CreditInv, NEW n \in Node, NEW m \in Node, m # n, NEW u, upset \subseteq u, u \subseteq upset \cup {n}
    PROVE  Sound(server[m], Cardinality(online[m]), chain, applied[m], m, u)
<1>1. Sound(server[m], Cardinality(online[m]), chain, applied[m], m, upset)
  BY NodeTypes
<1>2. m \notin u <=> m \notin upset
  OBVIOUS
<1>. QED
  BY <1>1, <1>2 DEF Sound, Settled

LEMMA ApplySound ==
    ASSUME CreditInv, NEW n \in Busy, Apply(n)
    PROVE  CreditInv'
<1>. DEFINE b == chain[applied[n] + 1]
            k == Cardinality(online[n])
<1>0. n \in Node
  BY BoundAssumption
<1>1. TypeOK /\ server \in [Node -> Server] /\ applied \in [Node -> 0..Len(chain)]
  BY DEF CreditInv, TypeOK, Server
<1>2. /\ applied[n] + 1 \in 1..Len(chain) /\ b \in Block
  <2>1. applied[n] + 1 \in 1..Len(chain)
    BY <1>0, NodeTypes DEF Apply
  <2>. QED
    BY <1>0, <2>1, NodeTypes, ChainTypes
<1>3. PICK g : /\ server' = [server EXCEPT ![n] = g]
               /\ AfterBlock(n, server[n], b, k, g)
  BY <1>0, <1>1, <1>2, ProcessEffect DEF Apply
<1>4. count' \in [Node -> [Node -> Nat]]
  BY <1>0, <1>1, <1>2, ProcessEffect DEF Apply
<1>5. g \in Server /\ Sound(g, k, chain, applied[n] + 1, n, upset)
  BY <1>0, <1>2, <1>3, NodeTypes, AppliedSound
<1>6. /\ samples' = samples /\ online' = online /\ chain' = chain /\ upset' = upset
      /\ pings' = pings /\ faults' = faults /\ applied' = [applied EXCEPT ![n] = applied[n] + 1]
  BY DEF Apply
<1>. HIDE DEF b, k
<1>7. server' \in [Node -> Server] /\ applied' \in [Node -> 0..Len(chain)]
  <2>1. applied[n] + 1 \in 0..Len(chain)
    BY <1>0, <1>2, NodeTypes
  <2>. QED
    BY <1>1, <1>3, <1>5, <1>6, <2>1
<1>8. TypeOK'
  BY <1>1, <1>4, <1>6, <1>7 DEF TypeOK, Server
<1>9. ASSUME NEW m \in Node
      PROVE  Sound(server[m], Cardinality(online[m]), chain, applied[m], m, upset)'
  <2>1. CASE m = n
    <3>1. server'[n] = g /\ applied'[n] = applied[n] + 1
      BY <1>0, <1>1, <1>3, <1>6
    <3>. QED
      BY <1>5, <1>6, <2>1, <3>1 DEF k
  <2>2. CASE m # n
    <3>1. server'[m] = server[m] /\ applied'[m] = applied[m]
      BY <1>1, <1>3, <1>6, <2>2
    <3>. QED
      BY <1>0, <1>6, <2>2, <3>1, OthersSound
  <2>. QED
    BY <2>1, <2>2
<1>. QED
  BY <1>8, <1>9 DEF CreditInv

LEMMA ApplyAgainSound ==
    ASSUME CreditInv, NEW n \in Busy, ApplyAgain(n)
    PROVE  CreditInv'
<1>. DEFINE b == chain[applied[n]]
            k == Cardinality(online[n])
<1>0. n \in Node
  BY BoundAssumption
<1>1. TypeOK /\ server \in [Node -> Server]
  BY DEF CreditInv, TypeOK, Server
<1>2. applied[n] \in 1..Len(chain) /\ b \in Block
  <2>1. applied[n] \in 1..Len(chain)
    BY <1>0, NodeTypes DEF ApplyAgain
  <2>. QED
    BY <1>0, <2>1, NodeTypes, ChainTypes
<1>3. PICK g : /\ server' = [server EXCEPT ![n] = g]
               /\ AfterBlock(n, server[n], b, k, g)
  BY <1>0, <1>1, <1>2, ProcessEffect DEF ApplyAgain
<1>4. count' \in [Node -> [Node -> Nat]]
  BY <1>0, <1>1, <1>2, ProcessEffect DEF ApplyAgain
<1>5. g \in Server /\ Sound(g, k, chain, applied[n], n, upset \cup {n})
  BY <1>0, <1>2, <1>3, NodeTypes, RepeatedSound
<1>6. /\ samples' = samples /\ online' = online /\ chain' = chain /\ applied' = applied
      /\ pings' = pings /\ upset' = upset \cup {n}
      /\ faults < MaxFaults /\ faults' = faults + 1
  BY DEF ApplyAgain
<1>. HIDE DEF b, k
<1>7. server' \in [Node -> Server] /\ upset' \subseteq Node /\ faults' \in 0..MaxFaults
  BY <1>0, <1>1, <1>3, <1>5, <1>6, BoundAssumption DEF TypeOK
<1>8. TypeOK'
  BY <1>1, <1>4, <1>6, <1>7 DEF TypeOK, Server
<1>9. ASSUME NEW m \in Node
      PROVE  Sound(server[m], Cardinality(online[m]), chain, applied[m], m, upset)'
  <2>1. CASE m = n
    <3>1. server'[n] = g
      BY <1>0, <1>1, <1>3
    <3>. QED
      BY <1>5, <1>6, <2>1, <3>1 DEF k
  <2>2. CASE m # n
    <3>1. server'[m] = server[m]
      BY <1>1, <1>3, <2>2
    <3>2. PICK u : u = upset'
      OBVIOUS
    <3>3. Sound(server[m], Cardinality(online[m]), chain, applied[m], m, u)
      BY <1>0, <1>6, <2>2, <3>2, OthersSound
    <3>. QED
      BY <1>6, <3>1, <3>2, <3>3
  <2>. QED
    BY <2>1, <2>2
<1>. QED
  BY <1>8, <1>9 DEF CreditInv

\* Of SampleSize samples, or one more, two thirds are kept.
LEMMA KeptFewer ==
    ASSUME NEW size \in 0..(SampleSize + 1)
    PROVE  /\ size < SampleSize => size \in 0..SampleSize
           /\ size >= SampleSize => Kept(size) \in 0..SampleSize
BY BoundAssumption DEF Kept

LEMMA StatusSound ==
    ASSUME CreditInv, NEW n \in Busy, NEW p \in Node, Status(n, p)
    PROVE  CreditInv'
<1>. DEFINE size == samples[n][p] + 1
            v == [peer |-> p, ident |-> "ping"]
            on == online[n] \cup {n, p}
            k == Cardinality(on)
<1>0. n \in Node
  BY BoundAssumption
<1>1. /\ TypeOK /\ server \in [Node -> Server] /\ online \in [Node -> SUBSET Node]
      /\ samples \in [Node -> [Node -> 0..SampleSize]]
  BY DEF CreditInv, TypeOK, Server
<1>2. /\ online' = [online EXCEPT ![n] = on] /\ online'[n] = on
      /\ count' = count /\ chain' = chain /\ applied' = applied /\ upset' = upset
      /\ faults' = faults /\ pings < MaxPings /\ pings' = pings + 1
  BY <1>0, <1>1 DEF Status
<1>3. /\ on \in SUBSET Node /\ k \in Nat /\ k <= N /\ Cardinality(online[n]) <= k
      /\ Cardinality(online[n]) \in Nat
  <2>1. on \in SUBSET Node /\ online[n] \subseteq on /\ online[n] \in SUBSET Node
    BY <1>0, <1>1
  <2>. HIDE DEF on
  <2>. QED
    BY <2>1, OnlineTypes
<1>4. /\ size \in 0..(SampleSize + 1)
      /\ \/ size < SampleSize /\ samples' = [samples EXCEPT ![n][p] = size] /\ server' = server
         \/ /\ size >= SampleSize /\ samples' = [samples EXCEPT ![n][p] = Kept(size)]
            /\ \/ server' = server
               \/ server' = [server EXCEPT ![n] = Proposed(server[n], k, v)]
  <2>1. size \in 0..(SampleSize + 1)
    <3>1. samples[n][p] \in 0..SampleSize
      BY <1>0, <1>1
    <3>. QED
      BY <3>1, BoundAssumption
  <2>. HIDE DEF on
  <2>. QED
    BY <1>2, <2>1 DEF Status
<1>5. samples' \in [Node -> [Node -> 0..SampleSize]]
  <2>1. PICK t \in 0..SampleSize : samples' = [samples EXCEPT ![n][p] = t]
    BY <1>4, KeptFewer
  <2>. QED
    BY <1>0, <1>1, <2>1
<1>. HIDE DEF size, on, k, v
<1>6. Sound(server[n], k, chain, applied[n], n, upset)
  <2>1. Sound(server[n], Cardinality(online[n]), chain, applied[n], n, upset) /\ server[n] \in Server
    BY <1>0, NodeTypes
  <2>. QED
    BY <1>3, <2>1, MoreOnline
<1>7. PICK g \in Server : /\ server' = [server EXCEPT ![n] = g]
                          /\ Sound(g, k, chain, applied[n], n, upset)
  <2>1. CASE server' = server
    <3>1. server' = [server EXCEPT ![n] = server[n]] /\ server[n] \in Server
      BY <1>0, <1>1, <2>1
    <3>. QED
      BY <1>6, <3>1
  <2>2. CASE server' = [server EXCEPT ![n] = Proposed(server[n], k, v)]
    <3>1. v \in Vote
      BY DEF v, Vote, Ident
    <3>2. /\ Proposed(server[n], k, v) \in Server
          /\ Sound(Proposed(server[n], k, v), k, chain, applied[n], n, upset)
      BY <1>0, <1>3, <1>6, <3>1, NodeTypes, ProposedSound
    <3>. QED
      BY <2>2, <3>2
  <2>. QED
    BY <1>4, <2>1, <2>2
<1>8. /\ server' \in [Node -> Server] /\ online' \in [Node -> SUBSET Node]
      /\ pings' \in 0..MaxPings
  BY <1>0, <1>1, <1>2, <1>3, <1>7, BoundAssumption DEF TypeOK
<1>9. TypeOK'
  BY <1>1, <1>2, <1>5, <1>8 DEF TypeOK, Server
<1>10. ASSUME NEW m \in Node
       PROVE  Sound(server[m], Cardinality(online[m]), chain, applied[m], m, upset)'
  <2>1. CASE m = n
    <3>1. server'[n] = g /\ Cardinality(online'[n]) = k
      BY <1>0, <1>1, <1>2, <1>7 DEF k
    <3>. QED
      BY <1>2, <1>7, <2>1, <3>1
  <2>2. CASE m # n
    <3>1. server'[m] = server[m] /\ online'[m] = online[m]
      BY <1>1, <1>2, <1>7, <2>2
    <3>2. Sound(server[m], Cardinality(online[m]), chain, applied[m], m, upset)
      BY NodeTypes
    <3>. QED
      BY <1>2, <3>1, <3>2
  <2>. QED
    BY <2>1, <2>2
<1>. QED
  BY <1>9, <1>10 DEF CreditInv

LEMMA DecideSound ==
    ASSUME CreditInv, NEW S \in SUBSET Busy, NEW voters \in Quorum, NEW match \in BOOLEAN,
           Decide(S, voters, match)
    PROVE  CreditInv'
<1>. DEFINE placed == UNION {{[origin |-> n, peer |-> v.peer, ident |-> v.ident] :
                                 v \in Head(server[n].stack)} : n \in S}
            b == [placed |-> placed, voters |-> voters, match |-> match]
<1>0. S \subseteq Node
  BY BoundAssumption
<1>1. /\ TypeOK /\ server \in [Node -> Server] /\ chain \in Seq(Block)
      /\ applied \in [Node -> 0..Len(chain)] /\ Len(chain) \in Nat
  BY ChainTypes DEF CreditInv, TypeOK, Server
<1>2. ASSUME NEW n \in S
      PROVE  /\ server[n].stack # <<>> /\ Head(server[n].stack) \subseteq Vote
             /\ Tail(server[n].stack) \in Seq(SUBSET Vote)
  <2>1. server[n].stack # <<>> /\ server[n].stack \in Seq(SUBSET Vote)
    BY <1>0, <1>1, ServerTypes DEF Decide
  <2>. QED
    BY <2>1, HeadTailProperties
<1>3. ASSUME NEW n \in S, NEW v \in Head(server[n].stack)
      PROVE  /\ v.peer \in Node /\ v.ident \in Ident /\ n \in Node
             /\ v = [peer |-> v.peer, ident |-> v.ident]
             /\ [origin |-> n, peer |-> v.peer, ident |-> v.ident] \in Placed
  <2>1. v \in Vote /\ n \in Node
    BY <1>0, <1>2
  <2>. QED
    BY <2>1 DEF Vote, Placed
<1>4. placed \in SUBSET Placed
  BY <1>3
<1>5. b \in Block
  BY <1>4 DEF Block
<1>6. ASSUME NEW n \in Node, NEW j \in Node, NEW d \in Ident
      PROVE  [origin |-> n, peer |-> j, ident |-> d] \in b.placed
                <=> n \in S /\ [peer |-> j, ident |-> d] \in Head(server[n].stack)
  <2>. DEFINE e == [origin |-> n, peer |-> j, ident |-> d]
  <2>1. b.placed = placed
    OBVIOUS
  <2>2. ASSUME e \in placed
        PROVE  n \in S /\ [peer |-> j, ident |-> d] \in Head(server[n].stack)
    <3>1. PICK m \in S : \E v \in Head(server[m].stack) :
                            e = [origin |-> m, peer |-> v.peer, ident |-> v.ident]
      BY <2>2
    <3>2. PICK v \in Head(server[m].stack) : e = [origin |-> m, peer |-> v.peer, ident |-> v.ident]
      BY <3>1
    <3>3. m = n /\ v.peer = j /\ v.ident = d
      <4>1. /\ e.origin = n /\ e.peer = j /\ e.ident = d
        OBVIOUS
      <4>2. /\ e.origin = m /\ e.peer = v.peer /\ e.ident = v.ident
        BY <3>2
      <4>. QED
        BY <4>1, <4>2
    <3>4. v = [peer |-> j, ident |-> d]
      BY <1>3, <3>2, <3>3
    <3>. QED
      BY <3>2, <3>3, <3>4
  <2>3. ASSUME n \in S, [peer |-> j, ident |-> d] \in Head(server[n].stack)
        PROVE  e \in placed
    <3>. DEFINE v == [peer |-> j, ident |-> d]
    <3>1. v.peer = j /\ v.ident = d
      OBVIOUS
    <3>2. e \in {[origin |-> n, peer |-> w.peer, ident |-> w.ident] : w \in Head(server[n].stack)}
      BY <2>3, <3>1
    <3>. QED
      BY <2>3, <3>2
  <2>. HIDE DEF placed, e
  <2>4. e \in placed <=> n \in S /\ [peer |-> j, ident |-> d] \in Head(server[n].stack)
    BY <2>2, <2>3
  <2>. QED
    BY <2>1, <2>4 DEF e
<1>7. /\ chain' = Append(chain, b)
      /\ server' = [n \in Node |-> IF n \in S THEN [server[n] EXCEPT !.stack = Tail(server[n].stack)]
                                              ELSE server[n]]
      /\ count' = count /\ samples' = samples /\ online' = online /\ applied' = applied
      /\ upset' = upset /\ pings' = pings /\ faults' = faults
  BY DEF Decide
<1>. HIDE DEF b, placed
<1>8. ASSUME NEW n \in Node
      PROVE  /\ server'[n] \in Server
             /\ server'[n].credit = server[n].credit /\ server'[n].pending = server[n].pending
             /\ n \in S => server'[n].stack = Tail(server[n].stack)
             /\ n \notin S => server'[n] = server[n]
  <2>1. server[n] \in Server
    BY <1>1
  <2>2. CASE n \in S
    <3>1. server'[n] = [server[n] EXCEPT !.stack = Tail(server[n].stack)]
      BY <1>7, <2>2
    <3>. QED
      BY <1>2, <2>1, <2>2, <3>1 DEF Server
  <2>3. CASE n \notin S
    BY <1>7, <2>1, <2>3
  <2>. QED
    BY <2>2, <2>3
<1>9. /\ chain' \in Seq(Block) /\ Len(chain') = Len(chain) + 1
      /\ server' \in [Node -> Server] /\ applied' \in [Node -> 0..Len(chain')]
  <2>1. chain' \in Seq(Block) /\ Len(chain') = Len(chain) + 1
    BY <1>1, <1>5, <1>7, AppendProperties
  <2>2. server' \in [Node -> Server]
    BY <1>7, <1>8
  <2>3. applied' \in [Node -> 0..Len(chain')]
    BY <1>1, <1>7, <2>1
  <2>. QED
    BY <2>1, <2>2, <2>3
<1>10. TypeOK'
  BY <1>1, <1>7, <1>9 DEF TypeOK, Server
<1>11. ASSUME NEW n \in Node
       PROVE  Sound(server[n], Cardinality(online[n]), chain, applied[n], n, upset)'
  <2>1. PICK g \in Server : g = server'[n]
    BY <1>8
  <2>2. /\ server[n] \in Server /\ applied[n] \in 0..Len(chain)
        /\ Sound(server[n], Cardinality(online[n]), chain, applied[n], n, upset)
    BY NodeTypes
  <2>3. g.credit = server[n].credit /\ g.pending = server[n].pending
    BY <1>8, <2>1
  <2>4. \/ /\ g = server[n]
           /\ \A j \in Node, d \in Ident : [origin |-> n, peer |-> j, ident |-> d] \notin b.placed
        \/ /\ server[n].stack # <<>> /\ g.stack = Tail(server[n].stack)
           /\ \A j \in Node, d \in Ident : [origin |-> n, peer |-> j, ident |-> d] \in b.placed
                                           <=> [peer |-> j, ident |-> d] \in Head(server[n].stack)
    <3>1. CASE n \in S
      BY <1>2, <1>6, <1>8, <2>1, <3>1
    <3>2. CASE n \notin S
      BY <1>6, <1>8, <2>1, <3>2
    <3>. QED
      BY <3>1, <3>2
  <2>5. Sound(g, Cardinality(online[n]), Append(chain, b), applied[n], n, upset)
    BY <1>1, <1>5, <2>2, <2>3, <2>4, DecidedSound
  <2>. QED
    BY <1>7, <2>1, <2>5
<1>. QED
  BY <1>10, <1>11 DEF CreditInv

LEMMA RestartSound ==
    ASSUME CreditInv, NEW n \in Busy, Restart(n)
    PROVE  CreditInv'
<1>0. n \in Node
  BY BoundAssumption
<1>1. /\ TypeOK /\ server \in [Node -> Server] /\ online \in [Node -> SUBSET Node]
      /\ chain \in Seq(Block) /\ applied \in [Node -> 0..Len(chain)] /\ Len(chain) \in Nat
  BY ChainTypes DEF CreditInv, TypeOK, Server
<1>2. /\ server' = [server EXCEPT ![n] = NewServer] /\ online' = [online EXCEPT ![n] = {}]
      /\ count' = [count EXCEPT ![n] = NoCount] /\ samples' = [samples EXCEPT ![n] = NoCount]
      /\ applied' = [applied EXCEPT ![n] = 0] /\ upset' = upset \cup {n}
      /\ chain' = chain /\ pings' = pings /\ faults < MaxFaults /\ faults' = faults + 1
  BY DEF Restart
<1>3. NewServer \in Server /\ Sound(NewServer, 0, chain, 0, n, upset \cup {n})
  BY <1>0, <1>1, RestartedSound
<1>4. /\ server' \in [Node -> Server] /\ online' \in [Node -> SUBSET Node]
      /\ applied' \in [Node -> 0..Len(chain)]
  <2>1. 0 \in 0..Len(chain)
    BY <1>1
  <2>2. server' \in [Node -> Server]
    BY <1>1, <1>2, <1>3
  <2>3. online' \in [Node -> SUBSET Node] /\ applied' \in [Node -> 0..Len(chain)]
    BY <1>1, <1>2, <2>1
  <2>. QED
    BY <2>2, <2>3
<1>5. count' \in [Node -> [Node -> Nat]] /\ samples' \in [Node -> [Node -> 0..SampleSize]]
  BY <1>1, <1>2, BoundAssumption DEF TypeOK, NoCount
<1>6. upset' \subseteq Node /\ faults' \in 0..MaxFaults
  BY <1>0, <1>1, <1>2, BoundAssumption DEF TypeOK
<1>7. TypeOK'
  BY <1>1, <1>2, <1>4, <1>5, <1>6 DEF TypeOK, Server
<1>8. ASSUME NEW m \in Node
      PROVE  Sound(server[m], Cardinality(online[m]), chain, applied[m], m, upset)'
  <2>1. CASE m = n
    <3>1. server'[n] = NewServer /\ applied'[n] = 0 /\ Cardinality(online'[n]) = 0
      BY <1>0, <1>1, <1>2, FS_EmptySet
    <3>. QED
      BY <1>2, <1>3, <2>1, <3>1
  <2>2. CASE m # n
    <3>1. server'[m] = server[m] /\ applied'[m] = applied[m] /\ online'[m] = online[m]
      BY <1>1, <1>2, <2>2
    <3>2. PICK u : u = upset'
      OBVIOUS
    <3>3. Sound(server[m], Cardinality(online[m]), chain, applied[m], m, u)
      BY <1>0, <1>2, <2>2, <3>2, OthersSound
    <3>. QED
      BY <1>2, <3>1, <3>2, <3>3
  <2>. QED
    BY <2>1, <2>2
<1>. QED
  BY <1>7, <1>8 DEF CreditInv

LEMMA CreditsSound == Spec => []CreditInv
<1>1. Init => CreditInv
  BY InitSound
<1>2. CreditInv /\ [Next]_vars => CreditInv'
  <2>. SUFFICES ASSUME CreditInv, [Next]_vars PROVE CreditInv'
    OBVIOUS
  <2>1. CASE \E n \in Busy : Apply(n)
    BY <2>1, ApplySound
  <2>2. CASE \E n \in Busy : ApplyAgain(n)
    BY <2>2, ApplyAgainSound
  <2>3. CASE \E n \in Busy, p \in Node : Status(n, p)
    BY <2>3, StatusSound
  <2>4. CASE \E S \in SUBSET Busy, voters \in Quorum, match \in BOOLEAN : Decide(S, voters, match)
    BY <2>4, DecideSound
  <2>5. CASE \E n \in Busy : Restart(n)
    BY <2>5, RestartSound
  <2>6. CASE UNCHANGED vars
    BY <2>6 DEF vars, CreditInv, TypeOK
  <2>. QED
    BY <2>1, <2>2, <2>3, <2>4, <2>5, <2>6 DEF Next
<1>. QED
  BY <1>1, <1>2, PTL DEF Spec

-----------------------------------------------------------------------------
(* What follows from it.                                                    *)

\* Every variable has its type.
THEOREM TypeCorrect == Spec => []TypeOK
<1>1. CreditInv => TypeOK
  BY DEF CreditInv
<1>. QED
  BY <1>1, CreditsSound, PTL

\* The balance of two peers is what they owe each other.
LEMMA BalanceIsOwed ==
    ASSUME CreditInv, NEW i \in Node, NEW j \in Node
    PROVE  /\ Balance(i, j) = Owed(server[i], chain, applied[i], i, j)
                                + Owed(server[j], chain, applied[j], j, i)
           /\ IsFiniteSet(InFlight(i, j)) /\ server[i].credit[j] \in Int
<1>. DEFINE Flight(x, y) == Cardinality(Out(server[x], chain, applied[y], x, y))
            Blocks(x, y) == Cardinality(BlockVotes(chain, 0, applied[y], x, y))
<1>1. ASSUME NEW x \in Node, NEW y \in Node
      PROVE  /\ server[x].credit[y] \in Int /\ Flight(x, y) \in Nat /\ Blocks(x, y) \in Nat
             /\ IsFiniteSet(Out(server[x], chain, applied[y], x, y))
             /\ InFlight(x, y) = Out(server[x], chain, applied[y], x, y)
             /\ Owed(server[x], chain, applied[x], x, y)
                  = server[x].credit[y] + (Flight(x, y) + Blocks(x, y)) - Blocks(y, x)
  <2>1. /\ server[x] \in Server /\ chain \in Seq(Block)
        /\ applied[x] \in 0..Len(chain) /\ applied[y] \in 0..Len(chain)
    BY NodeTypes
  <2>2. server[x].credit[y] \in Int
    BY <2>1, OwedTypes
  <2>3. Flight(x, y) \in Nat /\ IsFiniteSet(Out(server[x], chain, applied[y], x, y))
    BY <2>1, OutFinite
  <2>4. 0 \in Nat
    OBVIOUS
  <2>5. Blocks(x, y) \in Nat
    BY <2>1, <2>4, BlocksFinite
  <2>6. InFlight(x, y) = Out(server[x], chain, applied[y], x, y)
    BY DEF InFlight, Out
  <2>7. Given(server[x], chain, x, y) = Flight(x, y) + Blocks(x, y)
    <3>1. Cardinality(Out(server[x], chain, 0, x, y)) =
             Cardinality(Out(server[x], chain, applied[y], x, y))
                + Cardinality(BlockVotes(chain, 0, applied[y], x, y))
      BY <2>1, OutSplit
    <3>. QED
      BY <3>1 DEF Given
  <2>8. Owed(server[x], chain, applied[x], x, y)
                  = server[x].credit[y] + (Flight(x, y) + Blocks(x, y)) - Blocks(y, x)
    BY <2>7 DEF Owed
  <2>. HIDE DEF Flight, Blocks
  <2>. QED
    BY <2>2, <2>3, <2>5, <2>6, <2>8
<1>2. Balance(i, j) = server[i].credit[j] + server[j].credit[i] + Flight(i, j) + Flight(j, i)
  BY <1>1 DEF Balance
<1>. HIDE DEF Flight, Blocks
<1>3. PICK x \in Int, y \in Int : x = server[i].credit[j] /\ y = server[j].credit[i]
  BY <1>1
<1>4. PICK v \in Nat, w \in Nat : v = Flight(i, j) /\ w = Flight(j, i)
  BY <1>1
<1>5. PICK p \in Nat, q \in Nat : p = Blocks(i, j) /\ q = Blocks(j, i)
  BY <1>1
<1>6. /\ Owed(server[i], chain, applied[i], i, j) = x + (v + p) - q
      /\ Owed(server[j], chain, applied[j], j, i) = y + (w + q) - p
  BY <1>1, <1>3, <1>4, <1>5
<1>7. x + y + v + w = (x + (v + p) - q) + (y + (w + q) - p)
  OBVIOUS
<1>. QED
  BY <1>1, <1>2, <1>3, <1>4, <1>6, <1>7

LEMMA OwedBounds ==
    ASSUME CreditInv, NEW i \in Node, NEW j \in Node
    PROVE  /\ Owed(server[i], chain, applied[i], i, j) \in Int
           /\ Owed(server[i], chain, applied[i], i, j) >= 0
           /\ i \notin upset => Owed(server[i], chain, applied[i], i, j) = 0
<1>1. /\ server[i] \in Server /\ chain \in Seq(Block) /\ applied[i] \in 0..Len(chain)
      /\ Settled(server[i], chain, applied[i], i, upset)
  BY NodeTypes DEF Sound
<1>. QED
  BY <1>1, OwedTypes DEF Settled

\* Credits are conserved: what two peers have for each other, and have under
\* way to each other, never falls below nothing, and is nothing unless one of
\* them has restarted or applied a block twice (proposeModifyStake takes a
\* credit, modifyStake gives it to the peer when the vote is in a block).
THEOREM CreditsConserved == Spec => []CreditConserved
<1>1. CreditInv => CreditConserved
  <2>. SUFFICES ASSUME CreditInv, NEW i \in Node, NEW j \in Node
                PROVE  /\ Balance(i, j) >= 0
                       /\ i \notin upset /\ j \notin upset => Balance(i, j) = 0
    BY DEF CreditConserved
  <2>1. PICK x \in Int : x = Owed(server[i], chain, applied[i], i, j)
    BY OwedBounds
  <2>2. PICK y \in Int : y = Owed(server[j], chain, applied[j], j, i)
    BY OwedBounds
  <2>3. x >= 0 /\ y >= 0 /\ (i \notin upset => x = 0) /\ (j \notin upset => y = 0)
    BY <2>1, <2>2, OwedBounds
  <2>4. Balance(i, j) = x + y
    BY <2>1, <2>2, BalanceIsOwed
  <2>. QED
    BY <2>3, <2>4
<1>. QED
  BY <1>1, CreditsSound, PTL

\* Two peers that see a network of four or more never both lose the means to
\* vote for each other: a vote is under way between them, or the credit of one
\* of them suffices (proposeModifyStake).
THEOREM VotingNeverStops == Spec => []VotingGoesOn
<1>1. CreditInv => VotingGoesOn
  <2>. SUFFICES ASSUME CreditInv, NEW i \in Node, NEW j \in Node,
                       Cardinality(online[i]) >= 4, Cardinality(online[j]) >= 4,
                       InFlight(i, j) = {}, InFlight(j, i) = {}
                PROVE  CanVote(i, j) \/ CanVote(j, i)
    BY DEF VotingGoesOn
  <2>1. PICK x \in Int, y \in Int : x = server[i].credit[j] /\ y = server[j].credit[i]
    BY BalanceIsOwed
  <2>2. Balance(i, j) >= 0
    <3>1. PICK v \in Int : v = Owed(server[i], chain, applied[i], i, j) /\ v >= 0
      BY OwedBounds
    <3>2. PICK w \in Int : w = Owed(server[j], chain, applied[j], j, i) /\ w >= 0
      BY OwedBounds
    <3>3. Balance(i, j) = v + w
      BY <3>1, <3>2, BalanceIsOwed
    <3>. QED
      BY <3>1, <3>2, <3>3
  <2>3. Balance(i, j) = x + y + 0 + 0
    BY <2>1, FS_EmptySet DEF Balance
  <2>4. x >= 0 \/ y >= 0
    BY <2>2, <2>3
  <2>5. PICK k \in Nat, l \in Nat : k = Cardinality(online[i]) /\ l = Cardinality(online[j])
    BY NodeTypes
  <2>6. k >= 4 /\ l >= 4
    BY <2>5
  <2>7. 3 * (x - 1) > -k \/ 3 * (y - 1) > -l
    BY <2>4, <2>6
  <2>. QED
    BY <2>1, <2>5, <2>7 DEF CanVote, CreditSuffices
<1>. QED
  BY <1>1, CreditsSound, PTL

\* The votes of i for j in all blocks.
LEMMA OnChainSize ==
    ASSUME chain \in Seq(Block), NEW i \in Node, NEW j \in Node
    PROVE  OnChain(i, j) = Cardinality(BlockVotes(chain, 0, Len(chain), i, j))
<1>. DEFINE S == BlockVotes(chain, 0, Len(chain), i, j)
            T == UNION {{<<k, v.ident>> : v \in {u \in chain[k].placed : u.origin = i /\ u.peer = j}} :
                           k \in DOMAIN chain}
            f == [e \in S |-> <<e[2], e[3]>>]
<1>1. /\ Len(chain) \in Nat /\ Len(chain) \in 0..Len(chain) /\ DOMAIN chain = 1..Len(chain)
      /\ \A k \in 1..Len(chain) : chain[k].placed \subseteq Placed
  BY ChainTypes
<1>2. \A e : e \in S <=>
                  \E k \in 1..Len(chain) : \E d \in Ident :
                      /\ e = <<"block", k, d>>
                      /\ [origin |-> i, peer |-> j, ident |-> d] \in chain[k].placed
  <2>1. \A e : e \in S <=> IsPlaced(chain, 0, Len(chain), i, j, e)
    BY <1>1, BlockMembers
  <2>2. 0 + 1 = 1
    OBVIOUS
  <2>. HIDE DEF S
  <2>. QED
    BY <2>1, <2>2, Zenon DEF IsPlaced
<1>3. \A e : e \in T <=>
                  \E k \in 1..Len(chain) : \E d \in Ident :
                      /\ e = <<k, d>>
                      /\ [origin |-> i, peer |-> j, ident |-> d] \in chain[k].placed
  <2>1. ASSUME NEW e \in T
        PROVE  \E k \in 1..Len(chain) : \E d \in Ident :
                      /\ e = <<k, d>>
                      /\ [origin |-> i, peer |-> j, ident |-> d] \in chain[k].placed
    <3>1. PICK k \in DOMAIN chain :
              e \in {<<k, v.ident>> : v \in {u \in chain[k].placed : u.origin = i /\ u.peer = j}}
      OBVIOUS
    <3>2. PICK v \in chain[k].placed : v.origin = i /\ v.peer = j /\ e = <<k, v.ident>>
      BY <3>1
    <3>3. v \in Placed /\ k \in 1..Len(chain)
      BY <1>1
    <3>4. v.ident \in Ident /\ v = [origin |-> i, peer |-> j, ident |-> v.ident]
      BY <3>2, <3>3 DEF Placed
    <3>. QED
      BY <3>2, <3>3, <3>4
  <2>2. ASSUME NEW k \in 1..Len(chain), NEW d \in Ident,
               [origin |-> i, peer |-> j, ident |-> d] \in chain[k].placed
        PROVE  <<k, d>> \in T
    <3>. DEFINE v == [origin |-> i, peer |-> j, ident |-> d]
    <3>1. v.origin = i /\ v.peer = j /\ v.ident = d
      OBVIOUS
    <3>2. <<k, d>> \in {<<k, w.ident>> : w \in {u \in chain[k].placed : u.origin = i /\ u.peer = j}}
      BY <2>2, <3>1
    <3>3. k \in DOMAIN chain
      BY <1>1
    <3>. QED
      BY <3>2, <3>3
  <2>. HIDE DEF T
  <2>. QED
    BY <2>1, <2>2
<1>4. IsFiniteSet(S)
  <2>1. 0 \in Nat
    OBVIOUS
  <2>. QED
    BY <1>1, <2>1, BlocksFinite
<1>. HIDE DEF S, T
<1>5. ASSUME NEW e \in S
      PROVE  \E k \in 1..Len(chain) : \E d \in Ident :
                 /\ e = <<"block", k, d>> /\ f[e] = <<k, d>>
                 /\ [origin |-> i, peer |-> j, ident |-> d] \in chain[k].placed
  <2>1. PICK k \in 1..Len(chain), d \in Ident :
            /\ e = <<"block", k, d>>
            /\ [origin |-> i, peer |-> j, ident |-> d] \in chain[k].placed
    BY <1>2
  <2>2. f[e] = <<e[2], e[3]>> /\ e[2] = k /\ e[3] = d
    BY <2>1
  <2>. QED
    BY <2>1, <2>2
<1>6. f \in [S -> T]
  <2>1. ASSUME NEW e \in S PROVE f[e] \in T
    BY <1>3, <1>5
  <2>2. f = [e \in S |-> f[e]]
    OBVIOUS
  <2>. HIDE DEF f
  <2>. QED
    BY <2>1, <2>2
<1>. HIDE DEF f
<1>7. ASSUME NEW x \in S, NEW y \in S, f[x] = f[y] PROVE x = y
  <2>1. PICK k \in 1..Len(chain), d \in Ident : x = <<"block", k, d>> /\ f[x] = <<k, d>>
    BY <1>5
  <2>2. PICK l \in 1..Len(chain), c \in Ident : y = <<"block", l, c>> /\ f[y] = <<l, c>>
    BY <1>5
  <2>3. k = l /\ d = c
    BY <1>7, <2>1, <2>2
  <2>. QED
    BY <2>1, <2>2, <2>3
<1>8. ASSUME NEW y \in T PROVE \E x \in S : f[x] = y
  <2>1. PICK k \in 1..Len(chain), d \in Ident :
            y = <<k, d>> /\ [origin |-> i, peer |-> j, ident |-> d] \in chain[k].placed
    BY <1>3
  <2>2. <<"block", k, d>> \in S
    BY <1>2, <2>1
  <2>3. PICK l \in 1..Len(chain), c \in Ident :
            <<"block", k, d>> = <<"block", l, c>> /\ f[<<"block", k, d>>] = <<l, c>>
    BY <1>5, <2>2
  <2>. QED
    BY <2>1, <2>2, <2>3
<1>9. Cardinality(T) = Cardinality(S)
  BY <1>4, <1>6, <1>7, <1>8, SameSize
<1>. QED
  BY <1>9 DEF OnChain, S, T

\* The votes of i for j on the chain exceed those of j for i by less than a
\* third of the network, unless i has restarted or applied a block twice: the
\* credits equalize the distribution of stakes, as the comment of
\* proposeModifyStake says.
THEOREM StakesEqualize == Spec => []Equalizes
<1>1. CreditInv => Equalizes
  <2>. SUFFICES ASSUME CreditInv, NEW i \in Node, NEW j \in Node, i \notin upset
                PROVE  3 * (OnChain(i, j) - OnChain(j, i)) < N
    BY DEF Equalizes
  <2>. DEFINE l == Len(chain)
              k == Cardinality(online[i])
  <2>1. /\ server[i] \in Server /\ chain \in Seq(Block) /\ applied[i] \in 0..l /\ l \in Nat
        /\ l \in 0..l /\ k \in Nat /\ k <= N /\ 0 \in Nat
        /\ Floor(server[i], k)
    BY NodeTypes DEF Sound
  <2>2. N \in Nat /\ N # 0
    BY NodeAssumption, FS_CardinalityType, FS_EmptySet DEF N
  <2>3. PICK c \in Int : c = server[i].credit[j]
    BY <2>1, OwedTypes
  <2>4. PICK g \in Nat : g = Given(server[i], chain, i, j)
    BY <2>1, OwedTypes
  <2>5. PICK p \in Nat : p = OnChain(i, j)
    BY <2>1, BlocksFinite, OnChainSize
  <2>6. PICK q \in Nat : q = OnChain(j, i)
    BY <2>1, BlocksFinite, OnChainSize
  <2>7. PICK t \in Nat : t = Cardinality(BlockVotes(chain, 0, applied[i], j, i))
    BY <2>1, BlocksFinite
  <2>8. c + g - t = 0
    BY <2>3, <2>4, <2>7, OwedBounds DEF Owed
  <2>9. p <= g
    <3>1. /\ g = Cardinality(Out(server[i], chain, l, i, j)) + Cardinality(BlockVotes(chain, 0, l, i, j))
          /\ Cardinality(Out(server[i], chain, l, i, j)) \in Nat
      BY <2>1, <2>4, OutSplit, OutFinite DEF Given
    <3>2. p = Cardinality(BlockVotes(chain, 0, l, i, j))
      BY <2>1, <2>5, OnChainSize
    <3>. QED
      BY <3>1, <3>2
  <2>10. t <= q
    <3>1. (0 + 1)..applied[i] \subseteq (0 + 1)..l
      BY <2>1
    <3>2. BlockVotes(chain, 0, applied[i], j, i) \subseteq BlockVotes(chain, 0, l, j, i)
      BY <3>1 DEF BlockVotes
    <3>3. IsFiniteSet(BlockVotes(chain, 0, l, j, i))
      BY <2>1, BlocksFinite
    <3>4. q = Cardinality(BlockVotes(chain, 0, l, j, i))
      BY <2>1, <2>6, OnChainSize
    <3>. QED
      BY <2>7, <3>2, <3>3, <3>4, FS_Subset
  <2>11. 3 * c > -k \/ c >= 0
    BY <2>1, <2>3 DEF Floor
  <2>. HIDE DEF k, l
  <2>12. 3 * (p - q) < N
    <3>1. p - q <= -c
      BY <2>8, <2>9, <2>10
    <3>2. 3 * (-c) < N
      BY <2>1, <2>2, <2>11
    <3>. QED
      BY <3>1, <3>2, <2>2
  <2>. QED
    BY <2>5, <2>6, <2>12
<1>. QED
  BY <1>1, CreditsSound, PTL
=============================================================================
