-------------------------- MODULE BlockchainProofs --------------------------
(***************************************************************************)
(* Theorems about Blockchain, for any peers, blocks and bounds: what a     *)
(* node derives from its blocks is what the blocks say, although calls of  *)
(* add() overlap, nodes restart and enter networks.                        *)
(***************************************************************************)
EXTENDS Blockchain, FiniteSetTheorems, SequenceTheorems, WellFoundedInduction, TLAPS

-----------------------------------------------------------------------------
(* Numbers.                                                                 *)

\* What induction over numbers rests on.
LEMMA LeastNumber ==
    ASSUME NEW T \in SUBSET Nat, T # {}
    PROVE  \E x \in T : \A y \in T : x <= y
<1>. DEFINE R == OpToRel(<, Nat)
<1>1. IsWellFoundedOn(R, Nat)
  BY NatLessThanWellFounded, Zenon
<1>2. ASSUME NEW x \in Nat, NEW y \in Nat, ~(<<y, x>> \in R) PROVE ~(y < x)
  BY <1>2, Zenon DEF OpToRel
<1>. HIDE DEF R
<1>3. PICK x \in T : \A y \in T : ~(<<y, x>> \in R)
  BY <1>1, WFMin, Zenon
<1>4. ASSUME NEW y \in T PROVE x <= y
  <2>1. ~(y < x)
    BY <1>2, <1>3
  <2>. QED
    BY <2>1
<1>. QED
  BY <1>4

\* Induction up to a number, for a set of numbers.
LEMMA UpTo ==
    ASSUME NEW m \in Nat, NEW T, 0 \in T, \A n \in 0..m : n \in T /\ n < m => n + 1 \in T
    PROVE  \A n \in 0..m : n \in T
<1>. DEFINE U == {n \in 0..m : n \notin T}
<1>1. ASSUME U # {} PROVE FALSE
  <2>0. U \in SUBSET Nat
    OBVIOUS
  <2>1. PICK n \in U : \A k \in U : n <= k
    <3>. HIDE DEF U
    <3>. QED
      BY <1>1, <2>0, LeastNumber
  <2>2. n \in 0..m /\ n \notin T /\ n # 0
    OBVIOUS
  <2>3. n - 1 \in 0..m /\ n - 1 < m /\ (n - 1) + 1 = n
    BY <2>2
  <2>4. n - 1 \in T
    BY <2>1, <2>3
  <2>5. (n - 1) + 1 \in T
    BY <2>3, <2>4
  <2>. QED
    BY <2>2, <2>3, <2>5
<1>. QED
  BY <1>1

-----------------------------------------------------------------------------
(* Sums of stakes.                                                          *)

\* One step of the sum in StakeOf, over some stakes s.
SumAt(s, f, T) ==
    IF T = {} THEN 0 ELSE LET p == CHOOSE p \in T : TRUE IN s[p] + f[T \ {p}]

\* What is taken out of a set first.
LEMMA OneLess ==
    ASSUME NEW S, IsFiniteSet(S), NEW T \in SUBSET S
    PROVE  /\ IsFiniteSet(T) /\ Cardinality(T) \in Nat /\ (Cardinality(T) = 0 <=> T = {})
           /\ Cardinality(T) <= Cardinality(S)
           /\ \A p \in T : T \ {p} \in SUBSET S /\ Cardinality(T \ {p}) = Cardinality(T) - 1
           /\ T # {} => (CHOOSE p \in T : TRUE) \in T
<1>1. IsFiniteSet(T) /\ Cardinality(T) <= Cardinality(S)
  BY FS_Subset
<1>2. Cardinality(T) \in Nat /\ (Cardinality(T) = 0 <=> T = {})
  BY <1>1, FS_CardinalityType, FS_EmptySet
<1>3. \A p \in T : T \ {p} \in SUBSET S /\ Cardinality(T \ {p}) = Cardinality(T) - 1
  BY <1>1, FS_RemoveElement
<1>. QED
  BY <1>1, <1>2, <1>3

\* A step looks at smaller sets only.
LEMMA SumAtSmaller ==
    ASSUME NEW S, IsFiniteSet(S), NEW s, NEW f, NEW g, NEW T \in SUBSET S,
           \A U \in SUBSET S : Cardinality(U) < Cardinality(T) => f[U] = g[U]
    PROVE  SumAt(s, f, T) = SumAt(s, g, T)
<1>1. CASE T = {}
  BY <1>1 DEF SumAt
<1>2. CASE T # {}
  <2>. DEFINE p == CHOOSE p \in T : TRUE
  <2>1. p \in T
    BY <1>2
  <2>2. T \ {p} \in SUBSET S /\ Cardinality(T \ {p}) < Cardinality(T)
    <3>. HIDE DEF p
    <3>1. \A x \in T : T \ {x} \in SUBSET S /\ Cardinality(T \ {x}) = Cardinality(T) - 1
      BY OneLess
    <3>2. Cardinality(T) \in Nat
      BY OneLess
    <3>. QED
      BY <2>1, <3>1, <3>2
  <2>3. f[T \ {p}] = g[T \ {p}]
    BY <2>2
  <2>4. SumAt(s, f, T) = s[p] + f[T \ {p}] /\ SumAt(s, g, T) = s[p] + g[T \ {p}]
    BY <1>2 DEF SumAt
  <2>. QED
    BY <2>3, <2>4
<1>. QED
  BY <1>1, <1>2

\* The sum exists: it grows with the size of the set.
LEMMA SumExists ==
    ASSUME NEW S, IsFiniteSet(S), NEW s
    PROVE  \E f : f = [T \in SUBSET S |-> SumAt(s, f, T)]
<1>. DEFINE N == Cardinality(S)
            M == {n \in 0..N : \E f : \A T \in SUBSET S : Cardinality(T) <= n => f[T] = SumAt(s, f, T)}
<1>0. N \in Nat
  BY FS_CardinalityType
<1>1. 0 \in M
  <2>. DEFINE f == [T \in SUBSET S |-> 0]
  <2>1. ASSUME NEW T \in SUBSET S, Cardinality(T) <= 0 PROVE f[T] = SumAt(s, f, T)
    <3>1. T = {}
      BY <2>1, OneLess
    <3>. QED
      BY <3>1 DEF SumAt
  <2>. HIDE DEF f
  <2>2. 0 \in 0..N
    BY <1>0
  <2>. QED
    BY <2>1, <2>2
<1>2. ASSUME NEW n \in 0..N, n \in M, n < N PROVE n + 1 \in M
  <2>1. PICK f : \A T \in SUBSET S : Cardinality(T) <= n => f[T] = SumAt(s, f, T)
    BY <1>2
  <2>. DEFINE e == [T \in SUBSET S |-> IF Cardinality(T) <= n THEN f[T] ELSE SumAt(s, f, T)]
  <2>2. \A T \in SUBSET S : e[T] = IF Cardinality(T) <= n THEN f[T] ELSE SumAt(s, f, T)
    OBVIOUS
  <2>. HIDE DEF e
  <2>3. ASSUME NEW T \in SUBSET S, Cardinality(T) <= n + 1 PROVE e[T] = SumAt(s, e, T)
    <3>1. e[T] = SumAt(s, f, T)
      BY <2>1, <2>2
    <3>2. \A U \in SUBSET S : Cardinality(U) < Cardinality(T) => f[U] = e[U]
      <4>1. ASSUME NEW U \in SUBSET S, Cardinality(U) < Cardinality(T) PROVE f[U] = e[U]
        <5>1. Cardinality(U) \in Nat /\ Cardinality(T) \in Nat
          BY OneLess
        <5>2. Cardinality(U) <= n
          BY <2>3, <4>1, <5>1
        <5>. QED
          BY <2>2, <5>2
      <4>. QED
        BY <4>1
    <3>3. SumAt(s, f, T) = SumAt(s, e, T)
      BY <3>2, SumAtSmaller
    <3>. QED
      BY <3>1, <3>3
  <2>4. n + 1 \in 0..N
    BY <1>0, <1>2
  <2>. QED
    BY <2>3, <2>4
<1>. HIDE DEF M
<1>3. N \in M
  BY <1>0, <1>1, <1>2, UpTo
<1>4. PICK f : \A T \in SUBSET S : Cardinality(T) <= N => f[T] = SumAt(s, f, T)
  BY <1>3 DEF M
<1>. DEFINE e == [T \in SUBSET S |-> f[T]]
<1>5. \A T \in SUBSET S : e[T] = f[T]
  OBVIOUS
<1>6. e = [T \in SUBSET S |-> e[T]]
  OBVIOUS
<1>. HIDE DEF e
<1>7. ASSUME NEW T \in SUBSET S PROVE e[T] = SumAt(s, e, T)
  <2>1. f[T] = SumAt(s, f, T)
    BY <1>4, OneLess
  <2>2. SumAt(s, f, T) = SumAt(s, e, T)
    BY <1>5, SumAtSmaller
  <2>. QED
    BY <1>5, <2>1, <2>2
<1>8. e = [T \in SUBSET S |-> SumAt(s, e, T)]
  BY <1>6, <1>7
<1>. QED
  BY <1>8

\* f is the sum of the stakes s for all subsets of S.
IsSum(f, s, S) == \A T \in SUBSET S : f[T] = SumAt(s, f, T)

LEMMA StakeSum ==
    ASSUME NEW st, NEW S, IsFiniteSet(S)
    PROVE  \E f : StakeOf(st, S) = f[S] /\ IsSum(f, st.stake, S)
<1>. DEFINE F == CHOOSE f : f = [T \in SUBSET S |-> SumAt(st.stake, f, T)]
<1>1. \A s : \E f : f = [T \in SUBSET S |-> SumAt(s, f, T)]
  BY SumExists, Zenon
<1>2. F = [T \in SUBSET S |-> SumAt(st.stake, F, T)]
  BY <1>1, Zenon
<1>3. StakeOf(st, S) = F[S]
  BY Zenon DEF StakeOf, SumAt
<1>. HIDE DEF F
<1>4. IsSum(F, st.stake, S)
  BY <1>2 DEF IsSum
<1>. QED
  BY <1>3, <1>4

\* It does not matter what is added up first.
Splits(f, s, S) ==
    \A T \in SUBSET S :
        f[T] \in Nat /\ (T = {} => f[T] = 0) /\ \A x \in T : f[T] = s[x] + f[T \ {x}]

LEMMA SumSplits ==
    ASSUME NEW s \in [Peer -> Nat], NEW S \in SUBSET Peer, NEW f, IsSum(f, s, S)
    PROVE  Splits(f, s, S)
<1>. DEFINE N == Cardinality(S)
            Right(T) == f[T] \in Nat /\ (T = {} => f[T] = 0) /\ \A x \in T : f[T] = s[x] + f[T \ {x}]
            M == {n \in 0..N : \A T \in SUBSET S : Cardinality(T) <= n => Right(T)}
<1>f. IsFiniteSet(S)
  BY PeerAssumption, FS_Subset
<1>0. N \in Nat
  BY <1>f, FS_CardinalityType
<1>1. 0 \in M
  <2>1. ASSUME NEW T \in SUBSET S, Cardinality(T) <= 0 PROVE Right(T)
    <3>1. T = {}
      BY <1>f, <2>1, OneLess
    <3>2. f[T] = 0
      BY <3>1 DEF SumAt, IsSum
    <3>. QED
      BY <3>1, <3>2
  <2>2. 0 \in 0..N
    BY <1>0
  <2>. QED
    BY <2>1, <2>2
<1>2. ASSUME NEW n \in 0..N, n \in M, n < N PROVE n + 1 \in M
  <2>1. \A T \in SUBSET S : Cardinality(T) <= n => Right(T)
    BY <1>2
  <2>2. ASSUME NEW T \in SUBSET S, Cardinality(T) <= n + 1, T # {} PROVE Right(T)
    <3>. DEFINE p == CHOOSE p \in T : TRUE
    <3>1. p \in T /\ f[T] = s[p] + f[T \ {p}]
      BY <2>2 DEF SumAt, IsSum
    <3>. HIDE DEF p
    <3>2. Cardinality(T) \in Nat
      BY <1>f, OneLess
    <3>3. \A x \in T : T \ {x} \in SUBSET S /\ Cardinality(T \ {x}) = Cardinality(T) - 1
      BY <1>f, OneLess
    <3>4. \A x \in T : Right(T \ {x})
      <4>1. ASSUME NEW x \in T PROVE Right(T \ {x})
        <5>1. Cardinality(T \ {x}) <= n
          BY <2>2, <3>2, <3>3
        <5>. HIDE DEF Right
        <5>. QED
          BY <2>1, <3>3, <5>1
      <4>. HIDE DEF Right
      <4>. QED
        BY <4>1
    <3>5. f[T] \in Nat
      <4>1. f[T \ {p}] \in Nat /\ s[p] \in Nat
        BY <3>1, <3>4
      <4>. QED
        BY <3>1, <4>1
    <3>6. ASSUME NEW x \in T, x # p PROVE f[T] = s[x] + f[T \ {x}]
      <4>1. f[T \ {p}] = s[x] + f[(T \ {p}) \ {x}]
        BY <3>1, <3>4, <3>6
      <4>2. f[T \ {x}] = s[p] + f[(T \ {x}) \ {p}]
        BY <3>1, <3>4, <3>6
      <4>3. (T \ {p}) \ {x} = (T \ {x}) \ {p}
        OBVIOUS
      <4>4. PICK U : U = (T \ {x}) \ {p}
        OBVIOUS
      <4>5. U \in SUBSET S /\ Cardinality(U) <= n
        <5>1. p \in T \ {x}
          BY <3>1, <3>6
        <5>2. T \ {x} \in SUBSET S /\ Cardinality(T \ {x}) = Cardinality(T) - 1
          BY <3>3
        <5>3. U \in SUBSET S /\ Cardinality(U) = Cardinality(T \ {x}) - 1
          <6>1. PICK V \in SUBSET S : V = T \ {x}
            BY <5>2
          <6>2. \A y \in V : V \ {y} \in SUBSET S /\ Cardinality(V \ {y}) = Cardinality(V) - 1
            BY <1>f, OneLess
          <6>. QED
            BY <4>4, <5>1, <6>1, <6>2
        <5>. QED
          BY <2>2, <3>2, <5>2, <5>3
      <4>6. f[U] \in Nat
        BY <2>1, <4>5
      <4>7. f[T \ {p}] = s[x] + f[U] /\ f[T \ {x}] = s[p] + f[U]
        BY <4>1, <4>2, <4>3, <4>4
      <4>8. s[x] \in Nat /\ s[p] \in Nat
        BY <3>1
      <4>. QED
        BY <3>1, <4>6, <4>7, <4>8
    <3>. QED
      BY <2>2, <3>1, <3>5, <3>6
  <2>3. ASSUME NEW T \in SUBSET S, T = {} PROVE Right(T)
    <3>1. f[T] = 0
      BY <2>3 DEF SumAt, IsSum
    <3>. QED
      BY <2>3, <3>1
  <2>4. n + 1 \in 0..N
    BY <1>0, <1>2
  <2>. HIDE DEF Right
  <2>. QED
    BY <2>2, <2>3, <2>4
<1>. HIDE DEF M, Right
<1>3. N \in M
  BY <1>0, <1>1, <1>2, UpTo
<1>4. \A T \in SUBSET S : Cardinality(T) <= N => Right(T)
  BY <1>3 DEF M
<1>5. \A T \in SUBSET S : Right(T)
  BY <1>f, <1>4, OneLess
<1>. QED
  BY <1>5 DEF Right, Splits

LEMMA PeerSums ==
    ASSUME NEW s \in [Peer -> Nat], NEW f, IsSum(f, s, Peer)
    PROVE  \A T \in SUBSET Peer :
              f[T] \in Nat /\ (T = {} => f[T] = 0) /\ \A x \in T : f[T] = s[x] + f[T \ {x}]
<1>1. Peer \in SUBSET Peer
  OBVIOUS
<1>2. Splits(f, s, Peer)
  BY <1>1, SumSplits
<1>. QED
  BY <1>2, Zenon DEF Splits

\* Induction over the subsets of Peer, for a set of them.
LEMMA OneByOne ==
    ASSUME NEW Q, {} \in Q, \A T \in SUBSET Peer : \A x \in T : T \ {x} \in Q => T \in Q
    PROVE  \A T \in SUBSET Peer : T \in Q
<1>. DEFINE N == Cardinality(Peer)
            M == {n \in 0..N : \A T \in SUBSET Peer : Cardinality(T) <= n => T \in Q}
<1>f. IsFiniteSet(Peer)
  BY PeerAssumption
<1>0. N \in Nat
  BY <1>f, FS_CardinalityType
<1>1. 0 \in M
  <2>1. ASSUME NEW T \in SUBSET Peer, Cardinality(T) <= 0 PROVE T \in Q
    <3>1. T = {}
      BY <1>f, <2>1, OneLess
    <3>. QED
      BY <3>1
  <2>2. 0 \in 0..N
    BY <1>0
  <2>. QED
    BY <2>1, <2>2
<1>2. ASSUME NEW n \in 0..N, n \in M, n < N PROVE n + 1 \in M
  <2>1. ASSUME NEW T \in SUBSET Peer, Cardinality(T) <= n + 1, T # {} PROVE T \in Q
    <3>1. PICK x \in T : TRUE
      BY <2>1
    <3>2. Cardinality(T) \in Nat
      BY <1>f, OneLess
    <3>3. T \ {x} \in SUBSET Peer /\ Cardinality(T \ {x}) = Cardinality(T) - 1
      BY <1>f, OneLess
    <3>4. Cardinality(T \ {x}) <= n
      BY <2>1, <3>2, <3>3
    <3>5. T \ {x} \in Q
      BY <1>2, <3>3, <3>4
    <3>. QED
      BY <3>5
  <2>2. n + 1 \in 0..N
    BY <1>0, <1>2
  <2>. QED
    BY <2>1, <2>2
<1>. HIDE DEF M
<1>3. N \in M
  BY <1>0, <1>1, <1>2, UpTo
<1>4. \A T \in SUBSET Peer : Cardinality(T) <= N => T \in Q
  BY <1>3 DEF M
<1>. QED
  BY <1>f, <1>4, OneLess

\* No stakes, no sum.
LEMMA StakeZero ==
    ASSUME NEW st, st.stake = [p \in Peer |-> 0]
    PROVE  StakeOf(st, Peer) = 0
<1>1. st.stake \in [Peer -> Nat] /\ \A p \in Peer : st.stake[p] = 0
  OBVIOUS
<1>2. PICK f : StakeOf(st, Peer) = f[Peer] /\ IsSum(f, st.stake, Peer)
  BY StakeSum, PeerAssumption
<1>3. \A T \in SUBSET Peer :
         f[T] \in Nat /\ (T = {} => f[T] = 0) /\ \A x \in T : f[T] = st.stake[x] + f[T \ {x}]
  BY <1>1, <1>2, PeerSums, Zenon
<1>. DEFINE Q == {T \in SUBSET Peer : f[T] = 0}
<1>4. {} \in Q
  BY <1>3
<1>5. ASSUME NEW T \in SUBSET Peer, NEW x \in T, T \ {x} \in Q PROVE T \in Q
  <2>1. f[T] = st.stake[x] + f[T \ {x}] /\ f[T \ {x}] = 0 /\ st.stake[x] = 0
    BY <1>1, <1>3, <1>5
  <2>. QED
    BY <2>1
<1>. HIDE DEF Q
<1>6. Peer \in Q
  BY <1>4, <1>5, OneByOne
<1>7. f[Peer] = 0
  BY <1>6 DEF Q
<1>. QED
  BY <1>2, <1>7

\* One stake changes.
LEMMA StakeChanges ==
    ASSUME NEW st, NEW u, NEW x \in Peer, st.stake \in [Peer -> Nat], u.stake \in [Peer -> Nat],
           \A p \in Peer \ {x} : u.stake[p] = st.stake[p]
    PROVE  /\ StakeOf(st, Peer) \in Nat /\ StakeOf(u, Peer) \in Nat
           /\ StakeOf(u, Peer) - u.stake[x] = StakeOf(st, Peer) - st.stake[x]
<1>1. PICK f : StakeOf(st, Peer) = f[Peer] /\ IsSum(f, st.stake, Peer)
  BY StakeSum, PeerAssumption
<1>2. PICK g : StakeOf(u, Peer) = g[Peer] /\ IsSum(g, u.stake, Peer)
  BY StakeSum, PeerAssumption
<1>3. \A T \in SUBSET Peer :
         f[T] \in Nat /\ (T = {} => f[T] = 0) /\ \A y \in T : f[T] = st.stake[y] + f[T \ {y}]
  BY <1>1, PeerSums, Zenon
<1>4. \A T \in SUBSET Peer :
         g[T] \in Nat /\ (T = {} => g[T] = 0) /\ \A y \in T : g[T] = u.stake[y] + g[T \ {y}]
  BY <1>2, PeerSums, Zenon
<1>. DEFINE Q == {T \in SUBSET Peer : x \notin T => f[T] = g[T]}
<1>5. {} \in Q
  BY <1>3, <1>4
<1>6. ASSUME NEW T \in SUBSET Peer, NEW y \in T, T \ {y} \in Q PROVE T \in Q
  <2>1. ASSUME x \notin T PROVE f[T] = g[T]
    <3>1. f[T] = st.stake[y] + f[T \ {y}] /\ g[T] = u.stake[y] + g[T \ {y}]
      BY <1>3, <1>4
    <3>2. u.stake[y] = st.stake[y] /\ f[T \ {y}] = g[T \ {y}]
      BY <1>6, <2>1
    <3>. QED
      BY <3>1, <3>2
  <2>. QED
    BY <2>1
<1>. HIDE DEF Q
<1>7. Peer \ {x} \in Q
  BY <1>5, <1>6, OneByOne
<1>8. PICK n : n = f[Peer \ {x}]
  OBVIOUS
<1>9. n \in Nat /\ g[Peer \ {x}] = n
  BY <1>3, <1>7, <1>8 DEF Q
<1>10. f[Peer] = st.stake[x] + n /\ g[Peer] = u.stake[x] + n /\ f[Peer] \in Nat /\ g[Peer] \in Nat
  BY <1>3, <1>4, <1>8, <1>9
<1>11. st.stake[x] \in Nat /\ u.stake[x] \in Nat
  OBVIOUS
<1>. QED
  BY <1>1, <1>2, <1>9, <1>10, <1>11

LEMMA StakeNat ==
    ASSUME NEW st, st.stake \in [Peer -> Nat]
    PROVE  StakeOf(st, Peer) \in Nat
<1>1. PICK x \in Peer : TRUE
  BY PeerAssumption
<1>. QED
  BY <1>1, StakeChanges

LEMMA SameStake ==
    ASSUME NEW st, NEW u, st.stake \in [Peer -> Nat], u.stake = st.stake
    PROVE  StakeOf(u, Peer) = StakeOf(st, Peer)
<1>1. PICK x \in Peer : TRUE
  BY PeerAssumption
<1>2. u.stake \in [Peer -> Nat] /\ \A p \in Peer \ {x} : u.stake[p] = st.stake[p]
  OBVIOUS
<1>3. /\ StakeOf(st, Peer) \in Nat /\ StakeOf(u, Peer) \in Nat
      /\ StakeOf(u, Peer) - u.stake[x] = StakeOf(st, Peer) - st.stake[x]
  BY <1>2, StakeChanges
<1>4. st.stake[x] \in Nat /\ u.stake[x] = st.stake[x]
  OBVIOUS
<1>. QED
  BY <1>3, <1>4

-----------------------------------------------------------------------------
(* The inductive invariant.                                                 *)

Ballot == [peer : Peer, amount : Int, origin : Peer]
State ==
    [members : SUBSET Peer, stake : [Peer -> Nat], weight : Int, ballots : SUBSET Ballot,
     dbPeer : [Peer -> Int], dbData : [Peer -> Int]]
Adding == [json : Block, block : Block, object : 1..MaxAdds, at : 1..MaxHeight, next : Nat]

ChainTypes ==
    /\ bootstrap \in BOOLEAN /\ phase \in {"init", "entering", "up", "failed"}
    /\ store \in Seq(Block) /\ Len(store) \in 1..MaxHeight /\ height \in 0..MaxHeight
    /\ state \in State
    /\ voted \subseteq Peer
    /\ adds \in Seq(Adding)
    /\ decided \in Seq(Block)
    /\ twice \in BOOLEAN /\ overtaken \in BOOLEAN /\ crashes \in 0..MaxCrashes

\* dbState is in step with mapPeer, and a peer that is gone has no stake.
Tidy(st) ==
    \A p \in Peer :
        IF p \in st.members THEN st.dbPeer[p] = st.stake[p]
        ELSE st.stake[p] = 0 /\ st.dbPeer[p] = Missing

\* The weight is the sum of all stakes; it is never less, also after reset().
Balanced(st) == st.weight = StakeOf(st, Peer)
Heavy(st) == StakeOf(st, Peer) <= st.weight

\* Who is a peer, and what a client has stored: what a command overwrites
\* whatever was there before.
Kind == {"member", "data"}

Val(st, kind, p) ==
    IF kind = "member" THEN IF p \in st.members THEN 1 ELSE 0 ELSE st.dbData[p]

Touches(c, kind, p) ==
    IF kind = "member" THEN c.op \in {"addPeer", "removePeer"} /\ c.peer = p
    ELSE c.op = "data" /\ c.origin = p

Puts(c) == IF c.op = "addPeer" THEN 1 ELSE IF c.op = "removePeer" THEN 0 ELSE c.amount

SameVals(st, u) == \A kind \in Kind, p \in Peer : Val(st, kind, p) = Val(u, kind, p)

\* Two texts of one block: calls of add() only rewrite amounts of stakes.
SameWrite(c, d) ==
    /\ c.op = d.op /\ c.peer = d.peer /\ c.origin = d.origin
    /\ c.op # "modifyStake" => c.amount = d.amount
SameWrites(b, d) ==
    /\ Len(b.cmds) = Len(d.cmds)
    /\ \A k \in 1..Len(b.cmds) : SameWrite(b.cmds[k], d.cmds[k])

\* The height and the calls of add() do not run ahead of the store, nor the store
\* of the blocks the network has decided.
PlacesRight ==
    /\ height <= Len(store) /\ Len(store) <= Len(decided)
    /\ adds # <<>> => phase \in {"up", "failed"}
    /\ \A i \in 1..Len(adds) :
          /\ adds[i].at <= Len(store) + 1 /\ adds[i].at <= Len(decided)
          /\ adds[i].next > 0 => adds[i].at <= Len(store)

\* init() has read the blocks up to the height.
LoadingRight == phase = "init" => adds = <<>> /\ ~twice /\ ~overtaken /\ state = Replay(store, height)

EnteringRight == phase = "entering" => bootstrap /\ adds = <<>>

\* While no call has been overtaken: no block is being added.
RestRight ==
    adds = <<>> /\ phase \in {"entering", "up"} =>
        Len(store) = height /\ SameVals(state, Replay(store, height))

\* All calls of add() are for one block, the one after the last that was at rest.
\* What they and the store hold are texts of the block the network decided.
CallsRight ==
    adds # <<>> =>
        /\ height \in {adds[1].at - 1, adds[1].at} /\ Len(store) \in {adds[1].at - 1, adds[1].at}
        /\ \A i \in 1..Len(adds) :
              /\ adds[i].at = adds[1].at
              /\ adds[i].next <= Len(decided[adds[1].at].cmds) + 1
              /\ SameWrites(adds[i].json, decided[adds[1].at])
              /\ SameWrites(adds[i].block, decided[adds[1].at])
        /\ Len(store) = adds[1].at => SameWrites(store[adds[1].at], decided[adds[1].at])

\* A peer or a stored value is what it will be after the block d, or some call is
\* still to overwrite it.
Overwritten(d, kind, p) ==
    \E i \in 1..Len(adds) : \E k \in 1..Len(d.cmds) : k >= adds[i].next /\ Touches(d.cmds[k], kind, p)

ValuesRight ==
    adds # <<>> =>
        \A kind \in Kind, p \in Peer :
            \/ Val(state, kind, p) =
                  Val(ProcessState(Replay(store, adds[1].at - 1), decided[adds[1].at]), kind, p)
            \/ Overwritten(decided[adds[1].at], kind, p)

TogetherRight == ~overtaken => RestRight /\ CallsRight /\ ValuesRight

\* One call at a time.
OnceRight == ~twice => ~overtaken /\ (adds # <<>> => Len(adds) = 1 /\ height = adds[1].at - 1)

\* With one call per block all of the state is what the blocks say: a call has
\* rewritten only the commands that it is through with.
Done(call) == IF call.next = 0 THEN 0 ELSE call.next - 1

SingleRight ==
    ~twice /\ ~bootstrap =>
        /\ adds = <<>> /\ phase = "up" => state = Replay(store, height)
        /\ adds # <<>> =>
              /\ Len(adds[1].json.cmds) = Len(adds[1].block.cmds)
              /\ \A k \in 1..Len(adds[1].block.cmds) :
                    k > Done(adds[1]) => adds[1].block.cmds[k] = adds[1].json.cmds[k]
              /\ state = After(Replay(store, adds[1].at - 1), adds[1].json.cmds, Done(adds[1]))
              /\ adds[1].next > 0 => store[adds[1].at] = adds[1].json

\* What holds whatever overlaps.
AlwaysRight ==
    /\ ChainTypes /\ Tidy(state) /\ Heavy(state) /\ (~bootstrap => Balanced(state))
    /\ PlacesRight /\ LoadingRight /\ EnteringRight

ChainInv == AlwaysRight /\ TogetherRight /\ OnceRight /\ SingleRight

-----------------------------------------------------------------------------
(* Sums over parts of the peers.                                            *)

\* All sums of the stakes of some peers, as one function.
LEMMA StakeParts ==
    ASSUME NEW st, st.stake \in [Peer -> Nat]
    PROVE  \E g : Splits(g, st.stake, Peer) /\ \A S \in SUBSET Peer : StakeOf(st, S) = g[S]
<1>1. PICK s \in [Peer -> Nat] : s = st.stake
  OBVIOUS
<1>2. PICK g : IsSum(g, st.stake, Peer)
  BY StakeSum, PeerAssumption
<1>3. Splits(g, s, Peer)
  BY <1>1, <1>2, SumSplits
<1>4. ASSUME NEW S \in SUBSET Peer PROVE StakeOf(st, S) = g[S]
  <2>1. IsFiniteSet(S)
    BY PeerAssumption, FS_Subset
  <2>2. PICK f : StakeOf(st, S) = f[S] /\ IsSum(f, st.stake, S)
    BY <2>1, StakeSum
  <2>3. Splits(f, s, S)
    BY <1>1, <2>2, SumSplits
  <2>. DEFINE Q == {T \in SUBSET Peer : T \subseteq S => f[T] = g[T]}
  <2>4. {} \in Q
    BY <1>3, <2>3 DEF Splits
  <2>5. ASSUME NEW T \in SUBSET Peer, NEW x \in T, T \ {x} \in Q PROVE T \in Q
    <3>1. ASSUME T \subseteq S PROVE f[T] = g[T]
      <4>1. f[T] = s[x] + f[T \ {x}]
        BY <2>3, <3>1 DEF Splits
      <4>2. g[T] = s[x] + g[T \ {x}]
        BY <1>3 DEF Splits
      <4>3. f[T \ {x}] = g[T \ {x}]
        BY <2>5, <3>1
      <4>. QED
        BY <4>1, <4>2, <4>3
    <3>. QED
      BY <3>1
  <2>. HIDE DEF Q
  <2>6. S \in Q
    BY <2>4, <2>5, OneByOne
  <2>. QED
    BY <2>2, <2>6 DEF Q
<1>. QED
  BY <1>1, <1>3, <1>4

\* Sets of peers that have no stake in common.
Apart(s, S, U) == \A x \in S \cap U : s[x] = 0

LEMMA PartsAdd ==
    ASSUME NEW s \in [Peer -> Nat], NEW g, Splits(g, s, Peer)
    PROVE  \A S, U \in SUBSET Peer :
             Apart(s, S, U) => g[S] \in Nat /\ g[U] \in Nat /\ g[S \cup U] = g[S] + g[U]
<1>. SUFFICES ASSUME NEW S \in SUBSET Peer, NEW U \in SUBSET Peer, Apart(s, S, U)
              PROVE  g[S] \in Nat /\ g[U] \in Nat /\ g[S \cup U] = g[S] + g[U]
  OBVIOUS
<1>. DEFINE Q == {T \in SUBSET Peer : (\A x \in T \cap U : s[x] = 0) => g[T \cup U] = g[T] + g[U]}
<1>1. \A T \in SUBSET Peer :
         g[T] \in Nat /\ (T = {} => g[T] = 0) /\ \A x \in T : g[T] = s[x] + g[T \ {x}]
  BY DEF Splits
<1>2. {} \in Q
  <2>1. {} \cup U = U /\ g[{}] = 0 /\ g[U] \in Nat
    BY <1>1
  <2>. QED
    BY <2>1
<1>3. ASSUME NEW T \in SUBSET Peer, NEW x \in T, T \ {x} \in Q PROVE T \in Q
  <2>1. ASSUME \A y \in T \cap U : s[y] = 0 PROVE g[T \cup U] = g[T] + g[U]
    <3>1. PICK a \in Nat : a = g[T \ {x}]
      BY <1>1
    <3>2. PICK b \in Nat : b = g[U]
      BY <1>1
    <3>3. PICK n \in Nat : n = s[x]
      OBVIOUS
    <3>4. g[T] = n + a
      BY <1>1, <3>1, <3>3
    <3>5. g[(T \ {x}) \cup U] = a + b
      BY <1>3, <2>1, <3>1, <3>2
    <3>6. CASE x \in U
      <4>1. (T \ {x}) \cup U = T \cup U /\ n = 0
        BY <2>1, <3>3, <3>6
      <4>2. g[T \cup U] = a + b
        BY <3>5, <4>1
      <4>3. g[T] = a
        BY <3>4, <4>1
      <4>. QED
        BY <3>2, <4>2, <4>3
    <3>7. CASE x \notin U
      <4>1. PICK X \in SUBSET Peer : X = T \cup U
        OBVIOUS
      <4>2. X \ {x} = (T \ {x}) \cup U /\ x \in X
        BY <3>7, <4>1
      <4>3. g[X] = s[x] + g[X \ {x}]
        BY <1>1, <4>2
      <4>4. PICK c \in Nat : c = g[X \ {x}]
        BY <1>1
      <4>5. c = a + b /\ g[X] = n + c
        BY <3>3, <3>5, <4>2, <4>3, <4>4
      <4>6. g[X] = g[T] + g[U]
        BY <3>2, <3>4, <4>5
      <4>. QED
        BY <4>1, <4>6
    <3>. QED
      BY <3>6, <3>7
  <2>. QED
    BY <2>1
<1>. HIDE DEF Q
<1>4. S \in Q
  BY <1>2, <1>3, OneByOne
<1>. QED
  BY <1>1, <1>4 DEF Q, Apart

-----------------------------------------------------------------------------
(* One command.                                                             *)

LEMMA CommandFields ==
    ASSUME NEW c \in Command
    PROVE  /\ c.op \in {"addPeer", "removePeer", "modifyStake", "data", "decision"}
           /\ c.origin \in Peer /\ c.peer \in Peer /\ c.amount \in Int
BY DEF Command

LEMMA StateFields ==
    ASSUME NEW st \in State
    PROVE  /\ st.members \in SUBSET Peer /\ st.stake \in [Peer -> Nat] /\ st.weight \in Int
           /\ st.ballots \in SUBSET Ballot /\ st.dbPeer \in [Peer -> Int] /\ st.dbData \in [Peer -> Int]
           /\ DOMAIN st = {"members", "stake", "weight", "ballots", "dbPeer", "dbData"}
BY DEF State

LEMMA ClampedStake ==
    ASSUME NEW st \in State, NEW c \in Command
    PROVE  Clamped(st, c) \in Int /\ st.stake[c.peer] + Clamped(st, c) \in Nat
<1>1. PICK n \in Nat : n = st.stake[c.peer]
  BY StateFields, CommandFields
<1>2. c.amount \in Int
  BY CommandFields
<1>. QED
  BY <1>1, <1>2 DEF Clamped, Larger

\* A stake becomes n, and what dbState has of the peer m.
PeerSet(st, c, M, B, n, w, m) ==
    [st EXCEPT !.members = M, !.ballots = B, !.stake[c.peer] = n, !.weight = w, !.dbPeer[c.peer] = m]

\* What a command does: nothing, a change of one peer, a vote, or a stored value.
Changes(st, c, u) ==
    \E n \in Nat, m \in Int, w \in Int, M \in SUBSET Peer, B \in SUBSET Ballot :
        /\ u = PeerSet(st, c, M, B, n, w, m)
        /\ w - st.weight = n - st.stake[c.peer]
        /\ IF c.peer \in M THEN m = n ELSE n = 0 /\ m = Missing
        /\ \/ c.op = "addPeer" /\ M = st.members \cup {c.peer}
           \/ c.op = "removePeer" /\ M = st.members \ {c.peer}
           \/ c.op = "modifyStake" /\ M = st.members

LEMMA ProcessChanges ==
    ASSUME NEW st \in State, Tidy(st), NEW c \in Command, NEW u, u = Process(st, c)
    PROVE  \/ Changes(st, c, u)
           \/ /\ c.op = "addPeer" => c.peer \in st.members
              /\ c.op = "removePeer" => c.peer \notin st.members
              /\ c.op # "data" /\ u = st
           \/ c.op = "modifyStake" /\ \E B \in SUBSET Ballot : u = [st EXCEPT !.ballots = B]
           \/ c.op = "data" /\ u = [st EXCEPT !.dbData[c.origin] = c.amount]
<1>1. /\ c.op \in {"addPeer", "removePeer", "modifyStake", "data", "decision"}
      /\ c.origin \in Peer /\ c.peer \in Peer /\ c.amount \in Int
  BY CommandFields
<1>2. /\ st.members \in SUBSET Peer /\ st.stake \in [Peer -> Nat] /\ st.weight \in Int
      /\ st.ballots \in SUBSET Ballot /\ st.dbPeer \in [Peer -> Int] /\ st.dbData \in [Peer -> Int]
      /\ DOMAIN st = {"members", "stake", "weight", "ballots", "dbPeer", "dbData"}
  BY StateFields
<1>3. PICK n \in Nat : n = st.stake[c.peer]
  BY <1>1, <1>2
<1>4. ASSUME c.op = "addPeer", c.peer \notin st.members PROVE Changes(st, c, u)
  <2>1. n = 0
    BY <1>1, <1>3, <1>4 DEF Tidy
  <2>2. u = PeerSet(st, c, st.members \cup {c.peer}, st.ballots, 1, st.weight + 1, 1)
    BY <1>2, <1>4 DEF Process, AddPeer, PeerSet
  <2>3. st.members \cup {c.peer} \in SUBSET Peer /\ st.weight + 1 \in Int /\ 1 \in Nat /\ 1 \in Int
    BY <1>1, <1>2
  <2>4. (st.weight + 1) - st.weight = 1 - n
    BY <1>2, <2>1
  <2>. QED
    BY <1>2, <1>3, <1>4, <2>2, <2>3, <2>4 DEF Changes
<1>5. ASSUME c.op = "removePeer", c.peer \in st.members PROVE Changes(st, c, u)
  <2>1. u = PeerSet(st, c, st.members \ {c.peer}, st.ballots, 0, st.weight - n, Missing)
    BY <1>2, <1>3, <1>5 DEF Process, RemovePeer, PeerSet
  <2>2. st.members \ {c.peer} \in SUBSET Peer /\ st.weight - n \in Int /\ Missing \in Int /\ 0 \in Nat
    BY <1>2 DEF Missing
  <2>3. (st.weight - n) - st.weight = 0 - n
    BY <1>2
  <2>. QED
    BY <1>2, <1>3, <1>5, <2>1, <2>2, <2>3 DEF Changes
<1>6. ASSUME c.op = "modifyStake", Decides(st, c) PROVE Changes(st, c, u)
  <2>. DEFINE d == Clamped(st, c)
              B == st.ballots \ SameBallot(st, c)
  <2>1. d \in Int /\ n + d \in Nat
    BY <1>3, ClampedStake
  <2>2. u = [st EXCEPT !.ballots = B, !.stake[c.peer] = n + d, !.weight = st.weight + d, !.dbPeer[c.peer] = n + d]
    BY <1>2, <1>3, <1>6 DEF Process, ModifyStake, Decides
  <2>3. c.peer \in st.members /\ B \in SUBSET Ballot
    BY <1>2, <1>6 DEF Decides, IgnoresVote
  <2>. HIDE DEF d, B
  <2>4. u = PeerSet(st, c, st.members, B, n + d, st.weight + d, n + d)
    BY <1>2, <2>2 DEF PeerSet
  <2>5. PICK k : k = n + d
    OBVIOUS
  <2>6. PICK w : w = st.weight + d
    OBVIOUS
  <2>7. k \in Nat /\ k \in Int /\ w \in Int /\ w - st.weight = k - n
    BY <1>2, <2>1, <2>5, <2>6
  <2>. QED
    BY <1>2, <1>3, <1>6, <2>3, <2>4, <2>5, <2>6, <2>7 DEF Changes
<1>7. ASSUME c.op = "modifyStake", ~IgnoresVote(st, c), ~Decides(st, c)
      PROVE  \E B \in SUBSET Ballot : u = [st EXCEPT !.ballots = B]
  <2>. DEFINE B == st.ballots \cup {[peer |-> c.peer, amount |-> c.amount, origin |-> c.origin]}
  <2>1. u = [st EXCEPT !.ballots = B]
    BY <1>2, <1>7 DEF Process, ModifyStake
  <2>2. B \in SUBSET Ballot
    BY <1>1, <1>2 DEF Ballot
  <2>. QED
    BY <2>1, <2>2
<1>8. ASSUME c.op = "modifyStake", IgnoresVote(st, c) PROVE u = st
  BY <1>8 DEF Process, ModifyStake
<1>9. ASSUME c.op = "addPeer", c.peer \in st.members PROVE u = st
  BY <1>9 DEF Process, AddPeer
<1>10. ASSUME c.op = "removePeer", c.peer \notin st.members PROVE u = st
  BY <1>10 DEF Process, RemovePeer
<1>11. ASSUME c.op = "data" PROVE u = [st EXCEPT !.dbData[c.origin] = c.amount]
  BY <1>11 DEF Process
<1>12. ASSUME c.op = "decision" PROVE u = st
  BY <1>12 DEF Process
<1>. QED
  BY <1>1, <1>4, <1>5, <1>6, <1>7, <1>8, <1>9, <1>10, <1>11, <1>12

LEMMA ChangedFields ==
    ASSUME NEW st \in State, NEW c \in Command, NEW u, Changes(st, c, u)
    PROVE  /\ u \in State /\ u.dbData = st.dbData
           /\ u.weight - st.weight = u.stake[c.peer] - st.stake[c.peer]
           /\ IF c.peer \in u.members THEN u.dbPeer[c.peer] = u.stake[c.peer]
              ELSE u.stake[c.peer] = 0 /\ u.dbPeer[c.peer] = Missing
           /\ \A p \in Peer \ {c.peer} : u.stake[p] = st.stake[p] /\ u.dbPeer[p] = st.dbPeer[p]
           /\ \/ c.op = "addPeer" /\ u.members = st.members \cup {c.peer}
              \/ c.op = "removePeer" /\ u.members = st.members \ {c.peer}
              \/ c.op = "modifyStake" /\ u.members = st.members
<1>1. PICK n \in Nat, m \in Int, w \in Int, M \in SUBSET Peer, B \in SUBSET Ballot :
        /\ u = PeerSet(st, c, M, B, n, w, m)
        /\ w - st.weight = n - st.stake[c.peer]
        /\ IF c.peer \in M THEN m = n ELSE n = 0 /\ m = Missing
        /\ \/ c.op = "addPeer" /\ M = st.members \cup {c.peer}
           \/ c.op = "removePeer" /\ M = st.members \ {c.peer}
           \/ c.op = "modifyStake" /\ M = st.members
  BY DEF Changes
<1>2. c.peer \in Peer
  BY CommandFields
<1>3. u = [members |-> M, stake |-> [st.stake EXCEPT ![c.peer] = n], weight |-> w, ballots |-> B,
           dbPeer |-> [st.dbPeer EXCEPT ![c.peer] = m], dbData |-> st.dbData]
  BY <1>1 DEF State, PeerSet
<1>4. [st.stake EXCEPT ![c.peer] = n] \in [Peer -> Nat]
  BY StateFields
<1>5. [st.dbPeer EXCEPT ![c.peer] = m] \in [Peer -> Int] /\ st.dbData \in [Peer -> Int]
  BY StateFields
<1>6. u \in State
  BY <1>3, <1>4, <1>5 DEF State
<1>7. u.stake = [st.stake EXCEPT ![c.peer] = n] /\ u.dbPeer = [st.dbPeer EXCEPT ![c.peer] = m]
  BY <1>3
<1>8. u.stake[c.peer] = n /\ u.dbPeer[c.peer] = m
  BY <1>2, <1>7, StateFields
<1>9. \A p \in Peer \ {c.peer} : u.stake[p] = st.stake[p] /\ u.dbPeer[p] = st.dbPeer[p]
  BY <1>7, StateFields
<1>10. u.members = M /\ u.weight = w /\ u.dbData = st.dbData
  BY <1>3
<1>. QED
  BY <1>1, <1>6, <1>8, <1>9, <1>10

\* A command keeps the state tidy, and the weight the sum of all stakes.
LEMMA ProcessKeeps ==
    ASSUME NEW st \in State, Tidy(st), NEW c \in Command, NEW u, u = Process(st, c)
    PROVE  /\ u \in State /\ Tidy(u)
           /\ (Balanced(st) => Balanced(u)) /\ (Heavy(st) => Heavy(u))
<1>1. /\ st.members \in SUBSET Peer /\ st.stake \in [Peer -> Nat] /\ st.weight \in Int
      /\ st.ballots \in SUBSET Ballot /\ st.dbPeer \in [Peer -> Int] /\ st.dbData \in [Peer -> Int]
      /\ DOMAIN st = {"members", "stake", "weight", "ballots", "dbPeer", "dbData"}
  BY StateFields
<1>2. c.peer \in Peer /\ c.origin \in Peer /\ c.amount \in Int
  BY CommandFields
<1>3. CASE Changes(st, c, u)
  <2>1. /\ u \in State
        /\ u.weight - st.weight = u.stake[c.peer] - st.stake[c.peer]
        /\ IF c.peer \in u.members THEN u.dbPeer[c.peer] = u.stake[c.peer]
           ELSE u.stake[c.peer] = 0 /\ u.dbPeer[c.peer] = Missing
        /\ \A p \in Peer \ {c.peer} : u.stake[p] = st.stake[p] /\ u.dbPeer[p] = st.dbPeer[p]
        /\ \A p \in Peer \ {c.peer} : p \in u.members <=> p \in st.members
    BY <1>3, ChangedFields
  <2>2. Tidy(u)
    <3>1. ASSUME NEW p \in Peer, p # c.peer
          PROVE  IF p \in u.members THEN u.dbPeer[p] = u.stake[p]
                 ELSE u.stake[p] = 0 /\ u.dbPeer[p] = Missing
      BY <2>1, <3>1 DEF Tidy
    <3>. QED
      BY <2>1, <3>1 DEF Tidy
  <2>3. (Balanced(st) => Balanced(u)) /\ (Heavy(st) => Heavy(u))
    <3>1. u.stake \in [Peer -> Nat] /\ u.weight \in Int
      BY <2>1, StateFields
    <3>2. /\ StakeOf(st, Peer) \in Nat /\ StakeOf(u, Peer) \in Nat
          /\ StakeOf(u, Peer) - u.stake[c.peer] = StakeOf(st, Peer) - st.stake[c.peer]
      BY <1>1, <1>2, <2>1, <3>1, StakeChanges
    <3>3. PICK a \in Nat : a = StakeOf(st, Peer)
      BY <3>2
    <3>4. PICK b \in Nat : b = StakeOf(u, Peer)
      BY <3>2
    <3>5. PICK k \in Nat : k = st.stake[c.peer]
      BY <1>1, <1>2
    <3>6. PICK n \in Nat : n = u.stake[c.peer]
      BY <1>2, <3>1
    <3>7. PICK w \in Int : w = u.weight
      BY <3>1
    <3>8. PICK v \in Int : v = st.weight
      BY <1>1
    <3>9. b - n = a - k /\ w - v = n - k
      BY <2>1, <3>2, <3>3, <3>4, <3>5, <3>6, <3>7, <3>8
    <3>10. (v = a => w = b) /\ (a <= v => b <= w)
      BY <3>9
    <3>. QED
      BY <3>3, <3>4, <3>7, <3>8, <3>10 DEF Balanced, Heavy
  <2>. QED
    BY <2>1, <2>2, <2>3
<1>4. CASE u = st
  BY <1>4
<1>5. CASE \E B \in SUBSET Ballot : u = [st EXCEPT !.ballots = B]
  <2>1. PICK B \in SUBSET Ballot : u = [st EXCEPT !.ballots = B]
    BY <1>5
  <2>2. u \in State
    BY <2>1 DEF State
  <2>3. u.members = st.members /\ u.stake = st.stake /\ u.dbPeer = st.dbPeer /\ u.weight = st.weight
    BY <1>1, <2>1
  <2>4. StakeOf(u, Peer) = StakeOf(st, Peer)
    BY <1>1, <2>3, SameStake
  <2>. QED
    BY <2>2, <2>3, <2>4 DEF Tidy, Balanced, Heavy
<1>6. CASE u = [st EXCEPT !.dbData[c.origin] = c.amount]
  <2>2. u \in State
    BY <1>2, <1>6 DEF State
  <2>3. u.members = st.members /\ u.stake = st.stake /\ u.dbPeer = st.dbPeer /\ u.weight = st.weight
    BY <1>1, <1>6
  <2>4. StakeOf(u, Peer) = StakeOf(st, Peer)
    BY <1>1, <2>3, SameStake
  <2>. QED
    BY <2>2, <2>3, <2>4 DEF Tidy, Balanced, Heavy
<1>. QED
  BY <1>3, <1>4, <1>5, <1>6, ProcessChanges

\* What a command overwrites, and only that, is what it puts there.
LEMMA ProcessPuts ==
    ASSUME NEW st \in State, Tidy(st), NEW c \in Command, NEW u, u = Process(st, c),
           NEW kind \in Kind, NEW p \in Peer
    PROVE  Val(u, kind, p) = IF Touches(c, kind, p) THEN Puts(c) ELSE Val(st, kind, p)
<1>1. /\ st.members \in SUBSET Peer /\ st.stake \in [Peer -> Nat] /\ st.weight \in Int
      /\ st.ballots \in SUBSET Ballot /\ st.dbPeer \in [Peer -> Int] /\ st.dbData \in [Peer -> Int]
      /\ DOMAIN st = {"members", "stake", "weight", "ballots", "dbPeer", "dbData"}
  BY StateFields
<1>2. /\ c.op \in {"addPeer", "removePeer", "modifyStake", "data", "decision"}
      /\ c.peer \in Peer /\ c.origin \in Peer /\ c.amount \in Int
  BY CommandFields
<1>3. CASE Changes(st, c, u)
  <2>1. /\ u.dbData = st.dbData
        /\ \/ c.op = "addPeer" /\ u.members = st.members \cup {c.peer}
           \/ c.op = "removePeer" /\ u.members = st.members \ {c.peer}
           \/ c.op = "modifyStake" /\ u.members = st.members
    BY <1>3, ChangedFields
  <2>. QED
    BY <2>1 DEF Val, Touches, Puts, Kind
<1>4. CASE /\ c.op = "addPeer" => c.peer \in st.members
           /\ c.op = "removePeer" => c.peer \notin st.members
           /\ c.op # "data" /\ u = st
  BY <1>4 DEF Val, Touches, Puts, Kind
<1>5. CASE c.op = "modifyStake" /\ \E B \in SUBSET Ballot : u = [st EXCEPT !.ballots = B]
  <2>1. u.members = st.members /\ u.dbData = st.dbData
    BY <1>1, <1>5
  <2>. QED
    BY <1>5, <2>1 DEF Val, Touches, Kind
<1>6. CASE c.op = "data" /\ u = [st EXCEPT !.dbData[c.origin] = c.amount]
  <2>1. u.members = st.members /\ u.dbData = [st.dbData EXCEPT ![c.origin] = c.amount]
    BY <1>1, <1>6
  <2>2. u.dbData[p] = IF p = c.origin THEN c.amount ELSE st.dbData[p]
    BY <1>1, <1>2, <2>1
  <2>. QED
    BY <1>6, <2>1, <2>2 DEF Val, Touches, Puts, Kind
<1>. QED
  BY <1>3, <1>4, <1>5, <1>6, ProcessChanges

\* Two texts of one command overwrite the same, with the same.
LEMMA SameWritePuts ==
    ASSUME NEW c, NEW d, SameWrite(c, d), NEW kind \in Kind, NEW p
    PROVE  /\ Touches(c, kind, p) <=> Touches(d, kind, p)
           /\ Touches(c, kind, p) => Puts(c) = Puts(d)
BY DEF SameWrite, Touches, Puts, Kind

\* What modifyStake writes back into the block.
LEMMA RewrittenSame ==
    ASSUME NEW st \in State, NEW c \in Command, NEW d, d = Rewritten(st, c)
    PROVE  d \in Command /\ SameWrite(c, d)
<1>1. CASE c.op = "modifyStake" /\ Decides(st, c)
  <2>1. d = [c EXCEPT !.amount = Clamped(st, c)]
    BY <1>1 DEF Rewritten
  <2>2. Clamped(st, c) \in Int
    BY ClampedStake
  <2>3. d \in Command
    BY <2>1, <2>2 DEF Command
  <2>4. d.op = c.op /\ d.peer = c.peer /\ d.origin = c.origin
    BY <2>1 DEF Command
  <2>. QED
    BY <1>1, <2>3, <2>4 DEF SameWrite
<1>2. CASE ~(c.op = "modifyStake" /\ Decides(st, c))
  <2>1. d = c
    BY <1>2 DEF Rewritten
  <2>. QED
    BY <2>1 DEF SameWrite
<1>. QED
  BY <1>1, <1>2

-----------------------------------------------------------------------------
(* The commands of a block, and the blocks of a chain.                      *)

\* One step of the recursion in After.
AfterAt(g, k, st, cmds) == IF k = 0 THEN st ELSE Process(g[k - 1], cmds[k])
IsAfter(g, st, cmds, m) == g = [k \in 0..m |-> AfterAt(g, k, st, cmds)]

LEMMA AfterExists ==
    ASSUME NEW st, NEW cmds, NEW m \in Nat
    PROVE  \E g : IsAfter(g, st, cmds, m)
<1>. DEFINE T == {n \in 0..m : \E g : \A k \in 0..n : g[k] = AfterAt(g, k, st, cmds)}
<1>1. 0 \in T
  <2>. DEFINE g == [k \in 0..0 |-> st]
  <2>1. \A k \in 0..0 : g[k] = AfterAt(g, k, st, cmds)
    BY DEF AfterAt
  <2>2. 0 \in 0..m
    OBVIOUS
  <2>. HIDE DEF g
  <2>. QED
    BY <2>1, <2>2
<1>2. ASSUME NEW n \in 0..m, n \in T, n < m PROVE n + 1 \in T
  <2>1. PICK g : \A k \in 0..n : g[k] = AfterAt(g, k, st, cmds)
    BY <1>2
  <2>. DEFINE e == [k \in 0..(n + 1) |-> IF k <= n THEN g[k] ELSE AfterAt(g, k, st, cmds)]
  <2>2. \A k \in 0..(n + 1) : e[k] = IF k <= n THEN g[k] ELSE AfterAt(g, k, st, cmds)
    OBVIOUS
  <2>. HIDE DEF e
  <2>3. ASSUME NEW k \in 0..(n + 1) PROVE e[k] = AfterAt(e, k, st, cmds)
    <3>1. e[k] = AfterAt(g, k, st, cmds)
      <4>1. k <= n => k \in 0..n
        OBVIOUS
      <4>. QED
        BY <2>1, <2>2, <4>1
    <3>2. ASSUME k # 0 PROVE e[k - 1] = g[k - 1]
      <4>1. k - 1 \in 0..(n + 1) /\ k - 1 <= n
        BY <3>2
      <4>. QED
        BY <2>2, <4>1
    <3>. QED
      BY <3>1, <3>2 DEF AfterAt
  <2>4. n + 1 \in 0..m
    BY <1>2
  <2>. QED
    BY <2>3, <2>4
<1>. HIDE DEF T
<1>3. m \in T
  BY <1>1, <1>2, UpTo
<1>4. PICK g : \A k \in 0..m : g[k] = AfterAt(g, k, st, cmds)
  BY <1>3 DEF T
<1>. DEFINE e == [k \in 0..m |-> g[k]]
<1>5. \A k \in 0..m : e[k] = g[k]
  OBVIOUS
<1>6. e = [k \in 0..m |-> e[k]]
  OBVIOUS
<1>. HIDE DEF e
<1>7. ASSUME NEW k \in 0..m PROVE e[k] = AfterAt(e, k, st, cmds)
  <2>1. ASSUME k # 0 PROVE e[k - 1] = g[k - 1]
    <3>1. k - 1 \in 0..m
      BY <2>1
    <3>. QED
      BY <1>5, <3>1
  <2>. QED
    BY <1>4, <1>5, <2>1 DEF AfterAt
<1>8. IsAfter(e, st, cmds, m)
  BY <1>6, <1>7 DEF IsAfter
<1>. QED
  BY <1>8

\* Two such functions agree as far as both reach.
LEMMA AfterUnique ==
    ASSUME NEW st, NEW cmds, NEW m \in Nat, NEW f, NEW g,
           \A k \in 0..m : f[k] = AfterAt(f, k, st, cmds),
           \A k \in 0..m : g[k] = AfterAt(g, k, st, cmds)
    PROVE  \A k \in 0..m : f[k] = g[k]
<1>. DEFINE T == {k \in 0..m : f[k] = g[k]}
<1>1. 0 \in T
  <2>1. 0 \in 0..m
    OBVIOUS
  <2>. QED
    BY <2>1 DEF AfterAt
<1>2. ASSUME NEW n \in 0..m, n \in T, n < m PROVE n + 1 \in T
  <2>1. n + 1 \in 0..m /\ n + 1 # 0 /\ (n + 1) - 1 = n
    BY <1>2
  <2>2. f[n + 1] = Process(f[n], cmds[n + 1]) /\ g[n + 1] = Process(g[n], cmds[n + 1])
    BY <2>1 DEF AfterAt
  <2>. QED
    BY <1>2, <2>1, <2>2
<1>. HIDE DEF T
<1>3. \A k \in 0..m : k \in T
  BY <1>1, <1>2, UpTo
<1>. QED
  BY <1>3 DEF T

LEMMA AfterIs ==
    ASSUME NEW st, NEW cmds, NEW m \in Nat
    PROVE  \E g : After(st, cmds, m) = g[m] /\ \A k \in 0..m : g[k] = AfterAt(g, k, st, cmds)
<1>. DEFINE F == CHOOSE g : g = [k \in 0..m |-> AfterAt(g, k, st, cmds)]
<1>0. \E g : IsAfter(g, st, cmds, m)
  BY AfterExists, Zenon
<1>1. F = [k \in 0..m |-> AfterAt(F, k, st, cmds)]
  BY <1>0, Zenon DEF IsAfter
<1>2. After(st, cmds, m) = F[m]
  BY Zenon DEF After, AfterAt
<1>. HIDE DEF F
<1>3. \A k \in 0..m : F[k] = AfterAt(F, k, st, cmds)
  BY <1>1
<1>. QED
  BY <1>2, <1>3

\* What After does, one command at a time.
LEMMA AfterNone ==
    ASSUME NEW st, NEW cmds
    PROVE  After(st, cmds, 0) = st
<1>1. PICK g : After(st, cmds, 0) = g[0] /\ \A k \in 0..0 : g[k] = AfterAt(g, k, st, cmds)
  BY AfterIs
<1>. QED
  BY <1>1 DEF AfterAt

LEMMA AfterNext ==
    ASSUME NEW st, NEW cmds, NEW n \in Nat
    PROVE  After(st, cmds, n + 1) = Process(After(st, cmds, n), cmds[n + 1])
<1>1. PICK f : After(st, cmds, n) = f[n] /\ \A k \in 0..n : f[k] = AfterAt(f, k, st, cmds)
  BY AfterIs
<1>2. PICK m \in Nat : m = n + 1
  OBVIOUS
<1>3. PICK g : After(st, cmds, m) = g[m] /\ \A k \in 0..m : g[k] = AfterAt(g, k, st, cmds)
  BY AfterIs
<1>4. \A k \in 0..n : k \in 0..m
  BY <1>2
<1>5. \A k \in 0..n : f[k] = g[k]
  BY <1>1, <1>3, <1>4, AfterUnique
<1>6. g[m] = Process(g[m - 1], cmds[m])
  BY <1>2, <1>3 DEF AfterAt
<1>7. m - 1 = n /\ n \in 0..n
  BY <1>2
<1>. QED
  BY <1>1, <1>2, <1>3, <1>5, <1>6, <1>7

\* It depends on the commands that it has come to only.
LEMMA AfterSame ==
    ASSUME NEW st, NEW b, NEW d, NEW n \in Nat, \A k \in 1..n : b[k] = d[k]
    PROVE  After(st, b, n) = After(st, d, n)
<1>. DEFINE T == {k \in 0..n : After(st, b, k) = After(st, d, k)}
<1>1. 0 \in T
  BY AfterNone
<1>2. ASSUME NEW k \in 0..n, k \in T, k < n PROVE k + 1 \in T
  <2>1. k \in Nat /\ k + 1 \in 1..n /\ k + 1 \in 0..n
    BY <1>2
  <2>. QED
    BY <1>2, <2>1, AfterNext
<1>. HIDE DEF T
<1>3. n \in T
  BY <1>1, <1>2, UpTo
<1>. QED
  BY <1>3 DEF T

\* A state after some commands.
LEMMA AfterKeeps ==
    ASSUME NEW st \in State, Tidy(st), NEW b \in Seq(Command), NEW n \in 0..Len(b)
    PROVE  /\ After(st, b, n) \in State /\ Tidy(After(st, b, n))
           /\ Balanced(st) => Balanced(After(st, b, n))
           /\ Heavy(st) => Heavy(After(st, b, n))
<1>. DEFINE Right(u) == u \in State /\ Tidy(u) /\ (Balanced(st) => Balanced(u)) /\ (Heavy(st) => Heavy(u))
            T == {k \in 0..n : Right(After(st, b, k))}
<1>0. n \in Nat /\ Len(b) \in Nat /\ \A k \in 1..n : b[k] \in Command
  BY ElementOfSeq
<1>1. 0 \in T
  <2>1. 0 \in 0..n /\ After(st, b, 0) = st
    BY <1>0, AfterNone
  <2>. QED
    BY <2>1
<1>2. ASSUME NEW k \in 0..n, k \in T, k < n PROVE k + 1 \in T
  <2>1. k \in Nat /\ k + 1 \in 1..n /\ k + 1 \in 0..n
    BY <1>0, <1>2
  <2>2. PICK u : u = After(st, b, k)
    OBVIOUS
  <2>3. Right(u)
    BY <1>2, <2>2
  <2>4. After(st, b, k + 1) = Process(u, b[k + 1]) /\ b[k + 1] \in Command
    BY <1>0, <2>1, <2>2, AfterNext
  <2>5. Right(Process(u, b[k + 1]))
    BY <2>3, <2>4, ProcessKeeps
  <2>. QED
    BY <2>1, <2>4, <2>5
<1>. HIDE DEF T
<1>3. n \in 0..n
  BY <1>0
<1>4. n \in T
  BY <1>0, <1>1, <1>2, <1>3, UpTo
<1>. QED
  BY <1>4 DEF T

\* What stands in the end is what the last command put there that overwrites it.
LEMMA AfterPuts ==
    ASSUME NEW st \in State, Tidy(st), NEW b \in Seq(Command), NEW n \in 0..Len(b),
           NEW kind \in Kind, NEW p \in Peer
    PROVE  \/ /\ \A k \in 1..n : ~Touches(b[k], kind, p)
              /\ Val(After(st, b, n), kind, p) = Val(st, kind, p)
           \/ \E k \in 1..n :
                 /\ Touches(b[k], kind, p) /\ \A j \in 1..n : j > k => ~Touches(b[j], kind, p)
                 /\ Val(After(st, b, n), kind, p) = Puts(b[k])
<1>. DEFINE None(m) == /\ \A k \in 1..m : ~Touches(b[k], kind, p)
                       /\ Val(After(st, b, m), kind, p) = Val(st, kind, p)
            Final(m, k) == /\ Touches(b[k], kind, p) /\ \A j \in 1..m : j > k => ~Touches(b[j], kind, p)
                          /\ Val(After(st, b, m), kind, p) = Puts(b[k])
            T == {m \in 0..n : None(m) \/ \E k \in 1..m : Final(m, k)}
<1>0. n \in Nat /\ Len(b) \in Nat /\ \A k \in 1..n : b[k] \in Command
  BY ElementOfSeq
<1>1. 0 \in T
  <2>1. 0 \in 0..n /\ After(st, b, 0) = st
    BY <1>0, AfterNone
  <2>2. None(0)
    BY <2>1
  <2>. QED
    BY <2>1, <2>2
<1>2. ASSUME NEW m \in 0..n, m \in T, m < n PROVE m + 1 \in T
  <2>1. m \in Nat /\ m + 1 \in 1..n /\ m + 1 \in 0..n /\ m \in 0..Len(b)
    BY <1>0, <1>2
  <2>2. PICK u : u = After(st, b, m)
    OBVIOUS
  <2>3. u \in State /\ Tidy(u)
    BY <2>1, <2>2, AfterKeeps
  <2>4. After(st, b, m + 1) = Process(u, b[m + 1]) /\ b[m + 1] \in Command
    BY <1>0, <2>1, <2>2, AfterNext
  <2>5. PICK w : w = After(st, b, m + 1)
    OBVIOUS
  <2>6. Val(w, kind, p) = IF Touches(b[m + 1], kind, p) THEN Puts(b[m + 1]) ELSE Val(u, kind, p)
    BY <2>3, <2>4, <2>5, ProcessPuts
  <2>7. CASE Touches(b[m + 1], kind, p)
    <3>1. m + 1 \in 1..(m + 1) /\ \A j \in 1..(m + 1) : ~(j > m + 1)
      BY <2>1
    <3>2. Final(m + 1, m + 1)
      BY <2>5, <2>6, <2>7, <3>1
    <3>. QED
      BY <2>1, <3>1, <3>2
  <2>8. CASE ~Touches(b[m + 1], kind, p)
    <3>0. \A j \in 1..(m + 1) : j \in 1..m \/ j = m + 1
      BY <2>1
    <3>1. CASE None(m)
      <4>1. None(m + 1)
        BY <2>2, <2>5, <2>6, <2>8, <3>0, <3>1
      <4>. QED
        BY <2>1, <4>1
    <3>2. CASE \E k \in 1..m : Final(m, k)
      <4>1. PICK k \in 1..m : Final(m, k)
        BY <3>2
      <4>2. Final(m + 1, k)
        BY <2>2, <2>5, <2>6, <2>8, <3>0, <4>1
      <4>3. k \in 1..(m + 1)
        BY <2>1
      <4>. HIDE DEF Final
      <4>. QED
        BY <2>1, <4>2, <4>3
    <3>. QED
      BY <1>2, <3>1, <3>2
  <2>. QED
    BY <2>7, <2>8
<1>. HIDE DEF T
<1>3. n \in 0..n
  BY <1>0
<1>4. n \in T
  BY <1>0, <1>1, <1>2, <1>3, UpTo
<1>. QED
  BY <1>4 DEF T

\* It depends on what the commands overwrite, and on what was there before.
LEMMA AfterAgrees ==
    ASSUME NEW st \in State, Tidy(st), NEW u \in State, Tidy(u), NEW b \in Seq(Command),
           NEW d \in Seq(Command), NEW n \in 0..Len(b), n <= Len(d),
           \A k \in 1..n : SameWrite(b[k], d[k]),
           NEW kind \in Kind, NEW p \in Peer, Val(st, kind, p) = Val(u, kind, p)
    PROVE  Val(After(st, b, n), kind, p) = Val(After(u, d, n), kind, p)
<1>0. n \in 0..Len(d) /\ n \in Nat
  OBVIOUS
<1>1. \A k \in 1..n : /\ Touches(b[k], kind, p) <=> Touches(d[k], kind, p)
                      /\ Touches(b[k], kind, p) => Puts(b[k]) = Puts(d[k])
  BY SameWritePuts
<1>2. \/ /\ \A k \in 1..n : ~Touches(b[k], kind, p)
         /\ Val(After(st, b, n), kind, p) = Val(st, kind, p)
      \/ \E k \in 1..n :
            /\ Touches(b[k], kind, p) /\ \A j \in 1..n : j > k => ~Touches(b[j], kind, p)
            /\ Val(After(st, b, n), kind, p) = Puts(b[k])
  BY AfterPuts
<1>3. \/ /\ \A k \in 1..n : ~Touches(d[k], kind, p)
         /\ Val(After(u, d, n), kind, p) = Val(u, kind, p)
      \/ \E k \in 1..n :
            /\ Touches(d[k], kind, p) /\ \A j \in 1..n : j > k => ~Touches(d[j], kind, p)
            /\ Val(After(u, d, n), kind, p) = Puts(d[k])
  BY <1>0, AfterPuts
<1>4. CASE \A k \in 1..n : ~Touches(b[k], kind, p)
  BY <1>1, <1>2, <1>3, <1>4
<1>5. CASE \E k \in 1..n :
              /\ Touches(b[k], kind, p) /\ \A j \in 1..n : j > k => ~Touches(b[j], kind, p)
              /\ Val(After(st, b, n), kind, p) = Puts(b[k])
  <2>1. PICK k \in 1..n :
              /\ Touches(b[k], kind, p) /\ \A j \in 1..n : j > k => ~Touches(b[j], kind, p)
              /\ Val(After(st, b, n), kind, p) = Puts(b[k])
    BY <1>5
  <2>2. PICK m \in 1..n :
            /\ Touches(d[m], kind, p) /\ \A j \in 1..n : j > m => ~Touches(d[j], kind, p)
            /\ Val(After(u, d, n), kind, p) = Puts(d[m])
    BY <1>1, <1>3, <2>1
  <2>3. ~(m > k) /\ ~(k > m)
    BY <1>1, <2>1, <2>2
  <2>4. k = m
    BY <2>3
  <2>. QED
    BY <1>1, <2>1, <2>2, <2>4
<1>. QED
  BY <1>2, <1>4, <1>5

\* One step of the recursion in Replay.
ReplayAt(g, k, blocks) == IF k = 0 THEN NoState ELSE ProcessState(g[k - 1], blocks[k])
IsReplay(g, blocks, m) == g = [k \in 0..m |-> ReplayAt(g, k, blocks)]
Replays(g, blocks, m) == \A k \in 0..m : g[k] = ReplayAt(g, k, blocks)

LEMMA ReplayExists ==
    ASSUME NEW blocks, NEW m \in Nat
    PROVE  \E g : IsReplay(g, blocks, m)
<1>. DEFINE T == {n \in 0..m : \E g : \A k \in 0..n : g[k] = ReplayAt(g, k, blocks)}
<1>1. 0 \in T
  <2>. DEFINE g == [k \in 0..0 |-> NoState]
  <2>1. \A k \in 0..0 : g[k] = ReplayAt(g, k, blocks)
    BY DEF ReplayAt
  <2>2. 0 \in 0..m
    OBVIOUS
  <2>. HIDE DEF g
  <2>. QED
    BY <2>1, <2>2
<1>2. ASSUME NEW n \in 0..m, n \in T, n < m PROVE n + 1 \in T
  <2>1. PICK g : \A k \in 0..n : g[k] = ReplayAt(g, k, blocks)
    BY <1>2
  <2>. DEFINE e == [k \in 0..(n + 1) |-> IF k <= n THEN g[k] ELSE ReplayAt(g, k, blocks)]
  <2>2. \A k \in 0..(n + 1) : e[k] = IF k <= n THEN g[k] ELSE ReplayAt(g, k, blocks)
    OBVIOUS
  <2>. HIDE DEF e
  <2>3. ASSUME NEW k \in 0..(n + 1) PROVE e[k] = ReplayAt(e, k, blocks)
    <3>1. e[k] = ReplayAt(g, k, blocks)
      <4>1. k <= n => k \in 0..n
        OBVIOUS
      <4>. QED
        BY <2>1, <2>2, <4>1
    <3>2. ASSUME k # 0 PROVE e[k - 1] = g[k - 1]
      <4>1. k - 1 \in 0..(n + 1) /\ k - 1 <= n
        BY <3>2
      <4>. QED
        BY <2>2, <4>1
    <3>. QED
      BY <3>1, <3>2 DEF ReplayAt
  <2>4. n + 1 \in 0..m
    BY <1>2
  <2>. QED
    BY <2>3, <2>4
<1>. HIDE DEF T
<1>3. m \in T
  BY <1>1, <1>2, UpTo
<1>4. PICK g : \A k \in 0..m : g[k] = ReplayAt(g, k, blocks)
  BY <1>3 DEF T
<1>. DEFINE e == [k \in 0..m |-> g[k]]
<1>5. \A k \in 0..m : e[k] = g[k]
  OBVIOUS
<1>6. e = [k \in 0..m |-> e[k]]
  OBVIOUS
<1>. HIDE DEF e
<1>7. ASSUME NEW k \in 0..m PROVE e[k] = ReplayAt(e, k, blocks)
  <2>1. ASSUME k # 0 PROVE e[k - 1] = g[k - 1]
    <3>1. k - 1 \in 0..m
      BY <2>1
    <3>. QED
      BY <1>5, <3>1
  <2>. QED
    BY <1>4, <1>5, <2>1 DEF ReplayAt
<1>8. IsReplay(e, blocks, m)
  BY <1>6, <1>7 DEF IsReplay
<1>. QED
  BY <1>8

\* Two such functions agree as far as both reach.
LEMMA ReplayUnique ==
    ASSUME NEW blocks, NEW m \in Nat, NEW f, NEW g,
           Replays(f, blocks, m), Replays(g, blocks, m)
    PROVE  \A k \in 0..m : f[k] = g[k]
<1>. DEFINE T == {k \in 0..m : f[k] = g[k]}
<1>1. 0 \in T
  <2>1. 0 \in 0..m
    OBVIOUS
  <2>. QED
    BY <2>1 DEF ReplayAt, Replays
<1>2. ASSUME NEW n \in 0..m, n \in T, n < m PROVE n + 1 \in T
  <2>1. n + 1 \in 0..m /\ n + 1 # 0 /\ (n + 1) - 1 = n
    BY <1>2
  <2>2. f[n + 1] = ProcessState(f[n], blocks[n + 1]) /\ g[n + 1] = ProcessState(g[n], blocks[n + 1])
    BY <2>1 DEF ReplayAt, Replays
  <2>. QED
    BY <1>2, <2>1, <2>2
<1>. HIDE DEF T
<1>3. \A k \in 0..m : k \in T
  BY <1>1, <1>2, UpTo
<1>. QED
  BY <1>3 DEF T

LEMMA ReplayIs ==
    ASSUME NEW blocks, NEW m \in Nat
    PROVE  \E g : Replay(blocks, m) = g[m] /\ \A k \in 0..m : g[k] = ReplayAt(g, k, blocks)
<1>. DEFINE F == CHOOSE g : g = [k \in 0..m |-> ReplayAt(g, k, blocks)]
<1>0. \E g : IsReplay(g, blocks, m)
  BY ReplayExists, Zenon
<1>1. F = [k \in 0..m |-> ReplayAt(F, k, blocks)]
  BY <1>0, Zenon DEF IsReplay
<1>2. Replay(blocks, m) = F[m]
  BY Zenon DEF Replay, ReplayAt
<1>. HIDE DEF F
<1>3. \A k \in 0..m : F[k] = ReplayAt(F, k, blocks)
  BY <1>1
<1>. QED
  BY <1>2, <1>3

\* What Replay does, one block at a time.
LEMMA ReplayNone ==
    ASSUME NEW blocks
    PROVE  Replay(blocks, 0) = NoState
<1>1. PICK g : Replay(blocks, 0) = g[0] /\ \A k \in 0..0 : g[k] = ReplayAt(g, k, blocks)
  BY ReplayIs
<1>. QED
  BY <1>1 DEF ReplayAt

LEMMA ReplayNext ==
    ASSUME NEW blocks, NEW n \in Nat
    PROVE  Replay(blocks, n + 1) = ProcessState(Replay(blocks, n), blocks[n + 1])
<1>1. PICK f : Replay(blocks, n) = f[n] /\ \A k \in 0..n : f[k] = ReplayAt(f, k, blocks)
  BY ReplayIs
<1>2. PICK m \in Nat : m = n + 1
  OBVIOUS
<1>3. PICK g : Replay(blocks, m) = g[m] /\ \A k \in 0..m : g[k] = ReplayAt(g, k, blocks)
  BY ReplayIs
<1>4. \A k \in 0..n : k \in 0..m
  BY <1>2
<1>5. \A k \in 0..n : f[k] = g[k]
  <2>1. Replays(f, blocks, n)
    BY <1>1 DEF Replays
  <2>2. Replays(g, blocks, n)
    BY <1>3, <1>4 DEF Replays
  <2>. QED
    BY <2>1, <2>2, ReplayUnique
<1>6. g[m] = ProcessState(g[m - 1], blocks[m])
  BY <1>2, <1>3 DEF ReplayAt
<1>7. m - 1 = n /\ n \in 0..n
  BY <1>2
<1>. QED
  BY <1>1, <1>2, <1>3, <1>5, <1>6, <1>7

\* It depends on the blocks that it has come to only.
LEMMA ReplaySame ==
    ASSUME NEW b, NEW d, NEW n \in Nat, \A k \in 1..n : b[k] = d[k]
    PROVE  Replay(b, n) = Replay(d, n)
<1>. DEFINE T == {k \in 0..n : Replay(b, k) = Replay(d, k)}
<1>1. 0 \in T
  BY ReplayNone
<1>2. ASSUME NEW k \in 0..n, k \in T, k < n PROVE k + 1 \in T
  <2>1. k \in Nat /\ k + 1 \in 1..n /\ k + 1 \in 0..n
    BY <1>2
  <2>. QED
    BY <1>2, <2>1, ReplayNext
<1>. HIDE DEF T
<1>3. n \in T
  BY <1>1, <1>2, UpTo
<1>. QED
  BY <1>3 DEF T

LEMMA NoStateKeeps == NoState \in State /\ Tidy(NoState) /\ Balanced(NoState) /\ Heavy(NoState)
<1>1. NoState \in State
  <2>1. [p \in Peer |-> 0] \in [Peer -> Nat]
    OBVIOUS
  <2>2. [p \in Peer |-> Missing] \in [Peer -> Int]
    BY DEF Missing
  <2>. QED
    BY <2>1, <2>2 DEF NoState, State
<1>2. Tidy(NoState)
  BY DEF NoState, Tidy
<1>3. NoState.stake = [p \in Peer |-> 0] /\ NoState.weight = 0
  BY DEF NoState
<1>. QED
  BY <1>1, <1>2, <1>3, StakeZero DEF Balanced, Heavy

LEMMA BlockFields ==
    ASSUME NEW b \in Block
    PROVE  /\ b.cmds \in Seq(Command) /\ b.voters \in SUBSET Peer /\ b.match \in BOOLEAN
           /\ Len(b.cmds) \in Nat /\ \A k \in 1..Len(b.cmds) : b.cmds[k] \in Command
<1>1. b.cmds \in Seq(Command) /\ b.voters \in SUBSET Peer /\ b.match \in BOOLEAN
  BY DEF Block
<1>2. Len(b.cmds) \in Nat /\ \A k \in 1..Len(b.cmds) : b.cmds[k] \in Command
  BY <1>1, ElementOfSeq
<1>. QED
  BY <1>1, <1>2

\* A state after a block, and after some blocks.
LEMMA BlockKeeps ==
    ASSUME NEW st \in State, Tidy(st), NEW b \in Block
    PROVE  /\ ProcessState(st, b) \in State /\ Tidy(ProcessState(st, b))
           /\ Balanced(st) => Balanced(ProcessState(st, b))
           /\ Heavy(st) => Heavy(ProcessState(st, b))
<1>1. b.cmds \in Seq(Command) /\ Len(b.cmds) \in 0..Len(b.cmds)
  BY BlockFields
<1>. QED
  BY <1>1, AfterKeeps DEF ProcessState

LEMMA ReplayKeeps ==
    ASSUME NEW b \in Seq(Block), NEW n \in 0..Len(b)
    PROVE  Replay(b, n) \in State /\ Tidy(Replay(b, n)) /\ Balanced(Replay(b, n))
<1>. DEFINE Right(u) == u \in State /\ Tidy(u) /\ Balanced(u)
            T == {k \in 0..n : Right(Replay(b, k))}
<1>0. n \in Nat /\ Len(b) \in Nat /\ \A k \in 1..n : b[k] \in Block
  BY ElementOfSeq
<1>1. 0 \in T
  <2>1. 0 \in 0..n /\ Replay(b, 0) = NoState
    BY <1>0, ReplayNone
  <2>. QED
    BY <2>1, NoStateKeeps
<1>2. ASSUME NEW k \in 0..n, k \in T, k < n PROVE k + 1 \in T
  <2>1. k \in Nat /\ k + 1 \in 1..n /\ k + 1 \in 0..n
    BY <1>0, <1>2
  <2>2. PICK u : u = Replay(b, k)
    OBVIOUS
  <2>3. Right(u)
    BY <1>2, <2>2
  <2>4. Replay(b, k + 1) = ProcessState(u, b[k + 1]) /\ b[k + 1] \in Block
    BY <1>0, <2>1, <2>2, ReplayNext
  <2>5. Right(ProcessState(u, b[k + 1]))
    BY <2>3, <2>4, BlockKeeps
  <2>. QED
    BY <2>1, <2>4, <2>5
<1>. HIDE DEF T
<1>3. n \in 0..n
  BY <1>0
<1>4. n \in T
  BY <1>0, <1>1, <1>2, <1>3, UpTo
<1>. QED
  BY <1>4 DEF T

-----------------------------------------------------------------------------
(* Every step keeps the invariant.                                          *)

LEMMA ChainFields ==
    ASSUME ChainTypes
    PROVE  /\ Len(store) \in Nat /\ DOMAIN store = 1..Len(store)
           /\ \A k \in 1..Len(store) : store[k] \in Block
           /\ Len(decided) \in Nat /\ DOMAIN decided = 1..Len(decided)
           /\ \A k \in 1..Len(decided) : decided[k] \in Block
           /\ Len(adds) \in Nat /\ DOMAIN adds = 1..Len(adds) /\ (adds = <<>> <=> Len(adds) = 0)
           /\ \A i \in 1..Len(adds) :
                 /\ adds[i] \in Adding /\ adds[i].json \in Block /\ adds[i].block \in Block
                 /\ adds[i].at \in 1..MaxHeight /\ adds[i].next \in Nat
           /\ MaxHeight \in Nat /\ height \in Nat
<1>1. store \in Seq(Block) /\ adds \in Seq(Adding) /\ height \in 0..MaxHeight /\ decided \in Seq(Block)
  BY DEF ChainTypes
<1>2. MaxHeight \in Nat
  BY BoundAssumption
<1>3. Len(store) \in Nat /\ DOMAIN store = 1..Len(store) /\ \A k \in 1..Len(store) : store[k] \in Block
  BY <1>1, LenProperties, ElementOfSeq
<1>4. Len(adds) \in Nat /\ DOMAIN adds = 1..Len(adds) /\ \A i \in 1..Len(adds) : adds[i] \in Adding
  BY <1>1, LenProperties, ElementOfSeq
<1>5. adds = <<>> <=> Len(adds) = 0
  BY <1>1, EmptySeq
<1>6. \A i \in 1..Len(adds) :
         /\ adds[i].json \in Block /\ adds[i].block \in Block
         /\ adds[i].at \in 1..MaxHeight /\ adds[i].next \in Nat
  BY <1>4 DEF Adding
<1>7. /\ Len(decided) \in Nat /\ DOMAIN decided = 1..Len(decided)
      /\ \A k \in 1..Len(decided) : decided[k] \in Block
  BY <1>1, LenProperties, ElementOfSeq
<1>. QED
  BY <1>1, <1>2, <1>3, <1>4, <1>5, <1>6, <1>7

LEMMA ReplayIsState ==
    ASSUME ChainTypes, NEW n \in 0..Len(store)
    PROVE  Replay(store, n) \in State /\ Tidy(Replay(store, n)) /\ Balanced(Replay(store, n))
BY ReplayKeeps DEF ChainTypes

LEMMA OneBlock ==
    ASSUME NEW b \in Block
    PROVE  <<b>> \in Seq(Block) /\ Len(<<b>>) = 1 /\ <<b>>[1] = b
OBVIOUS

LEMMA SameIsSame ==
    ASSUME NEW b
    PROVE  SameVals(b, b) /\ SameWrites(b, b)
BY DEF SameVals, SameWrites, SameWrite

LEMMA SameWritesTwice ==
    ASSUME NEW b, NEW d, NEW e, SameWrites(b, d), SameWrites(d, e)
    PROVE  SameWrites(b, e)
BY DEF SameWrites, SameWrite

LEMMA SameWritesBack ==
    ASSUME NEW b, NEW d, SameWrites(b, d)
    PROVE  SameWrites(d, b)
BY DEF SameWrites, SameWrite

LEMMA ChainInvInit == Init => ChainInv
<1>. SUFFICES ASSUME Init PROVE ChainInv
  OBVIOUS
<1>1. LocalGenesis \in Block /\ Bootstrapping \subseteq BOOLEAN /\ MaxHeight \in Nat \ {0} /\ MaxCrashes \in Nat
  BY GenesisAssumption, BoundAssumption
<1>2. /\ state = NoState /\ store = <<LocalGenesis>> /\ adds = <<>> /\ height = 0 /\ phase = "init"
      /\ decided = store /\ twice = FALSE /\ overtaken = FALSE
  BY DEF Init
<1>3. store \in Seq(Block) /\ Len(store) = 1
  BY <1>1, <1>2, OneBlock
<1>4. ChainTypes
  <2>1. Len(store) \in 1..MaxHeight /\ height \in 0..MaxHeight /\ decided \in Seq(Block)
    BY <1>1, <1>2, <1>3
  <2>2. adds \in Seq(Adding) /\ state \in State
    BY <1>2, NoStateKeeps
  <2>3. bootstrap \in BOOLEAN /\ crashes \in 0..MaxCrashes /\ voted \subseteq Peer
    BY <1>1 DEF Init
  <2>. QED
    BY <1>2, <1>3, <2>1, <2>2, <2>3 DEF ChainTypes
<1>5. Tidy(state) /\ Balanced(state) /\ Heavy(state)
  BY <1>2, NoStateKeeps
<1>6. PlacesRight /\ LoadingRight
  <2>1. height <= Len(store) /\ Len(store) <= Len(decided) /\ Len(adds) = 0 /\ Replay(store, height) = NoState
    BY <1>2, <1>3, ReplayNone
  <2>. QED
    BY <1>2, <2>1 DEF PlacesRight, LoadingRight
<1>. QED
  BY <1>2, <1>4, <1>5, <1>6
  DEF ChainInv, AlwaysRight, TogetherRight, OnceRight, EnteringRight, RestRight, CallsRight,
      ValuesRight, SingleRight

LEMMA NothingKeeps ==
    ASSUME ChainInv, UNCHANGED vars
    PROVE  ChainInv'
<1>1. UNCHANGED <<bootstrap, phase, store, height, state, voted, adds, decided, twice, overtaken, crashes>>
  BY DEF vars
<1>2. AlwaysRight'
  BY <1>1 DEF ChainInv, AlwaysRight, ChainTypes, PlacesRight, LoadingRight, EnteringRight
<1>3. TogetherRight'
  BY <1>1 DEF ChainInv, TogetherRight, RestRight, CallsRight, ValuesRight, Overwritten
<1>4. OnceRight' /\ SingleRight'
  BY <1>1 DEF ChainInv, OnceRight, SingleRight
<1>. QED
  BY <1>2, <1>3, <1>4 DEF ChainInv

LEMMA RestartInv ==
    ASSUME ChainInv, Restart
    PROVE  ChainInv'
<1>1. /\ LocalGenesis \in Block /\ Bootstrapping \subseteq BOOLEAN /\ MaxHeight \in Nat \ {0}
      /\ MaxCrashes \in Nat
  BY GenesisAssumption, BoundAssumption
<1>2. /\ state' = NoState /\ adds' = <<>> /\ height' = 0 /\ phase' = "init" /\ twice' = FALSE
      /\ overtaken' = FALSE /\ voted' = {} /\ crashes < MaxCrashes /\ crashes' = crashes + 1
      /\ bootstrap' \in Bootstrapping
      /\ \/ store' = store /\ decided' = decided
         \/ store' = <<LocalGenesis>> /\ decided' = <<LocalGenesis>>
  BY DEF Restart
<1>3. ChainTypes /\ PlacesRight
  BY DEF ChainInv, AlwaysRight
<1>4. /\ store' \in Seq(Block) /\ decided' \in Seq(Block) /\ Len(store') \in 1..MaxHeight
      /\ Len(store') <= Len(decided')
  <2>1. CASE store' = store /\ decided' = decided
    BY <1>3, <2>1 DEF ChainTypes, PlacesRight
  <2>2. CASE store' = <<LocalGenesis>> /\ decided' = <<LocalGenesis>>
    <3>1. <<LocalGenesis>> \in Seq(Block) /\ Len(<<LocalGenesis>>) = 1
      BY <1>1, OneBlock
    <3>. QED
      BY <1>1, <2>2, <3>1
  <2>. QED
    BY <1>2, <2>1, <2>2
<1>5. ChainTypes'
  <2>1. adds' \in Seq(Adding) /\ state' \in State
    BY <1>2, NoStateKeeps
  <2>2. bootstrap' \in BOOLEAN /\ crashes' \in 0..MaxCrashes /\ voted' \subseteq Peer
    BY <1>1, <1>2, <1>3 DEF ChainTypes
  <2>3. height' \in 0..MaxHeight
    BY <1>1, <1>2
  <2>. QED
    BY <1>2, <1>4, <2>1, <2>2, <2>3 DEF ChainTypes
<1>6. Tidy(state') /\ Balanced(state') /\ Heavy(state')
  BY <1>2, NoStateKeeps
<1>7. PlacesRight' /\ LoadingRight'
  <2>1. height' <= Len(store') /\ Len(adds') = 0 /\ Replay(store', height') = NoState
    BY <1>1, <1>2, <1>4, ReplayNone
  <2>. QED
    BY <1>2, <1>4, <2>1 DEF PlacesRight, LoadingRight
<1>. QED
  BY <1>2, <1>5, <1>6, <1>7
  DEF ChainInv, AlwaysRight, TogetherRight, OnceRight, EnteringRight, RestRight, CallsRight,
      ValuesRight, SingleRight

LEMMA ListenInv ==
    ASSUME ChainInv, Listen
    PROVE  ChainInv'
<1>1. /\ phase = "init" /\ height = Len(store)
      /\ IF bootstrap THEN phase' = "entering" ELSE phase' = "up"
      /\ UNCHANGED <<bootstrap, store, height, state, voted, adds, decided, twice, overtaken, crashes>>
  BY DEF Listen, histories
<1>2. adds = <<>> /\ ~twice /\ ~overtaken /\ state = Replay(store, height)
  BY <1>1 DEF ChainInv, AlwaysRight, LoadingRight
<1>3. ChainTypes'
  BY <1>1 DEF ChainInv, AlwaysRight, ChainTypes
<1>4. Tidy(state') /\ Heavy(state') /\ (~bootstrap' => Balanced(state'))
  BY <1>1 DEF ChainInv, AlwaysRight
<1>5. RestRight'
  BY <1>1, <1>2, SameIsSame DEF RestRight
<1>6. PlacesRight' /\ LoadingRight' /\ EnteringRight'
  BY <1>1, <1>2 DEF ChainInv, AlwaysRight, PlacesRight, LoadingRight, EnteringRight
<1>7. CallsRight' /\ ValuesRight' /\ OnceRight' /\ SingleRight'
  BY <1>1, <1>2 DEF CallsRight, ValuesRight, OnceRight, SingleRight
<1>. QED
  BY <1>3, <1>4, <1>5, <1>6, <1>7 DEF ChainInv, AlwaysRight, TogetherRight

LEMMA EnterUnchangedInv ==
    ASSUME ChainInv, EnterUnchanged
    PROVE  ChainInv'
<1>1. /\ phase = "entering" /\ phase' = "up"
      /\ UNCHANGED <<bootstrap, store, height, state, voted, adds, decided, twice, overtaken, crashes>>
  BY DEF EnterUnchanged, histories
<1>2. adds = <<>> /\ bootstrap
  BY <1>1 DEF ChainInv, AlwaysRight, EnteringRight
<1>3. ChainTypes'
  BY <1>1 DEF ChainInv, AlwaysRight, ChainTypes
<1>4. Tidy(state') /\ Heavy(state')
  BY <1>1 DEF ChainInv, AlwaysRight
<1>5. ~overtaken' => RestRight'
  BY <1>1, <1>2 DEF ChainInv, TogetherRight, RestRight
<1>6. PlacesRight' /\ LoadingRight' /\ EnteringRight'
  BY <1>1, <1>2 DEF ChainInv, AlwaysRight, PlacesRight, LoadingRight, EnteringRight
<1>7. CallsRight' /\ ValuesRight' /\ OnceRight' /\ SingleRight'
  BY <1>1, <1>2 DEF ChainInv, CallsRight, ValuesRight, OnceRight, SingleRight
<1>. QED
  BY <1>1, <1>2, <1>3, <1>4, <1>5, <1>6, <1>7 DEF ChainInv, AlwaysRight, TogetherRight

LEMMA VotedTypes ==
    ASSUME voted \subseteq Peer, NEW b \in Block, NEW st
    PROVE  VotedWith(b, st) \subseteq Peer
BY BlockFields DEF VotedWith

LEMMA LoadBlockInv ==
    ASSUME ChainInv, LoadBlock
    PROVE  ChainInv'
<1>. DEFINE b == store[height + 1]
<1>1. /\ phase = "init" /\ height < Len(store)
      /\ UNCHANGED <<bootstrap, store, adds, decided, twice, overtaken, crashes>>
      /\ \/ /\ height' = height + 1 /\ voted' = VotedWith(b, state) /\ state' = ProcessState(state, b)
            /\ phase' = phase
         \/ phase' = "failed" /\ UNCHANGED <<height, voted, state>>
  BY DEF LoadBlock, histories
<1>2. adds = <<>> /\ ~twice /\ ~overtaken /\ state = Replay(store, height) /\ PlacesRight
  BY <1>1 DEF ChainInv, AlwaysRight, LoadingRight
<1>3. /\ ChainTypes /\ state \in State /\ Tidy(state) /\ voted \subseteq Peer
      /\ Heavy(state) /\ (~bootstrap => Balanced(state))
      /\ Len(store) \in 1..MaxHeight /\ height \in Nat /\ MaxHeight \in Nat
  BY ChainFields DEF ChainInv, AlwaysRight, ChainTypes
<1>4. height + 1 \in 1..Len(store) /\ height + 1 \in 0..MaxHeight /\ height + 1 <= Len(store)
  BY <1>1, <1>3
<1>5. b \in Block
  BY <1>3, <1>4, ChainFields
<1>. HIDE DEF b
<1>6. ProcessState(state, b) \in State /\ Tidy(ProcessState(state, b))
      /\ Heavy(ProcessState(state, b)) /\ (~bootstrap => Balanced(ProcessState(state, b)))
  BY <1>3, <1>5, BlockKeeps
<1>7. VotedWith(b, state) \subseteq Peer
  BY <1>3, <1>5, VotedTypes
<1>8. ChainTypes'
  <2>1. height' \in 0..MaxHeight /\ state' \in State /\ voted' \subseteq Peer /\ phase' \in {"init", "failed"}
    BY <1>1, <1>3, <1>4, <1>6, <1>7
  <2>. QED
    BY <1>1, <1>3, <2>1 DEF ChainTypes
<1>9. Tidy(state') /\ Heavy(state') /\ (~bootstrap' => Balanced(state'))
  BY <1>1, <1>3, <1>6
<1>10. LoadingRight'
  <2>1. Replay(store, height + 1) = ProcessState(Replay(store, height), store[height + 1])
    BY <1>3, ReplayNext
  <2>2. ASSUME phase' = "init" PROVE height' = height + 1 /\ state' = ProcessState(state, b)
    BY <1>1, <2>2
  <2>. QED
    BY <1>1, <1>2, <2>1, <2>2 DEF LoadingRight, b
<1>11. PlacesRight'
  <2>1. height' <= Len(store)
    BY <1>1, <1>2, <1>4 DEF PlacesRight
  <2>. QED
    BY <1>1, <1>2, <2>1 DEF PlacesRight
<1>12. EnteringRight' /\ RestRight' /\ CallsRight' /\ ValuesRight' /\ OnceRight' /\ SingleRight'
  BY <1>1, <1>2 DEF RestRight, EnteringRight, CallsRight, ValuesRight, OnceRight, SingleRight
<1>. QED
  BY <1>8, <1>9, <1>10, <1>11, <1>12 DEF ChainInv, AlwaysRight, TogetherRight

LEMMA EnterNetworkInv ==
    ASSUME ChainInv, EnterNetwork
    PROVE  ChainInv'
<1>. DEFINE g == NetworkGenesis
            c == ClearedState
<1>1. /\ phase = "entering" /\ phase' = "up" /\ store' = <<g>> /\ height' = 1
      /\ voted' = VotedWith(g, c) /\ state' = ProcessState(c, g)
      /\ UNCHANGED <<bootstrap, adds, twice, overtaken, crashes>> /\ decided' = store'
  BY DEF EnterNetwork
<1>2. adds = <<>> /\ bootstrap
  BY <1>1 DEF ChainInv, AlwaysRight, EnteringRight
<1>3. g \in Block /\ MaxHeight \in Nat \ {0}
  BY GenesisAssumption, BoundAssumption
<1>4. state \in State /\ ChainTypes /\ voted \subseteq Peer
  BY DEF ChainInv, AlwaysRight, ChainTypes
<1>5. NoState \in State /\ Tidy(NoState)
  BY NoStateKeeps
<1>6. /\ c \in State
      /\ c.members = NoState.members /\ c.dbData = NoState.dbData /\ c.stake = NoState.stake
      /\ c.dbPeer = NoState.dbPeer
  <2>1. state.weight \in Int /\ state.ballots \in SUBSET Ballot
    BY <1>4, StateFields
  <2>. QED
    BY <1>5, <2>1 DEF ClearedState, State
<1>7. Tidy(c) /\ Heavy(c) /\ SameVals(NoState, c)
  <2>1. Tidy(c) /\ SameVals(NoState, c)
    BY <1>5, <1>6 DEF Tidy, SameVals, Val
  <2>2. StakeOf(c, Peer) = 0
    BY <1>6, StakeZero DEF NoState
  <2>3. PICK w \in Int : w = state.weight
    BY <1>4, StateFields
  <2>4. c.weight = w
    BY <2>3 DEF ClearedState, NoState
  <2>5. StakeOf(state, Peer) \in Nat /\ StakeOf(state, Peer) <= w
    <3>1. StakeOf(state, Peer) \in Nat
      BY <1>4, StateFields, StakeNat
    <3>. QED
      BY <2>3, <3>1 DEF ChainInv, AlwaysRight, Heavy
  <2>6. Heavy(c)
    BY <2>2, <2>4, <2>5 DEF Heavy
  <2>. QED
    BY <2>1, <2>6
<1>. HIDE DEF c, g
<1>8. ProcessState(c, g) \in State /\ Tidy(ProcessState(c, g)) /\ Heavy(ProcessState(c, g))
  BY <1>3, <1>6, <1>7, BlockKeeps
<1>9. VotedWith(g, c) \subseteq Peer
  BY <1>3, <1>4, VotedTypes
<1>10. <<g>> \in Seq(Block) /\ Len(<<g>>) = 1 /\ <<g>>[1] = g /\ 1 \in 1..MaxHeight /\ 1 \in 0..MaxHeight
  BY <1>3, OneBlock
<1>11. ChainTypes'
  <2>1. store' \in Seq(Block)
    BY <1>1, <1>10
  <2>2. Len(store') \in 1..MaxHeight /\ height' \in 0..MaxHeight
    BY <1>1, <1>10
  <2>3. state' \in State /\ voted' \subseteq Peer /\ phase' \in {"up"}
    BY <1>1, <1>8, <1>9
  <2>. QED
    BY <1>1, <1>4, <2>1, <2>2, <2>3 DEF ChainTypes
<1>12. Tidy(state') /\ Heavy(state')
  BY <1>1, <1>8
<1>13. RestRight'
  <2>1. Replay(<<g>>, 0 + 1) = ProcessState(Replay(<<g>>, 0), <<g>>[0 + 1]) /\ Replay(<<g>>, 0) = NoState
    BY ReplayNone, ReplayNext
  <2>2. Replay(<<g>>, 1) = ProcessState(NoState, g)
    <3>1. 0 + 1 = 1
      OBVIOUS
    <3>. QED
      BY <1>10, <2>1, <3>1
  <2>3. ASSUME NEW kind \in Kind, NEW p \in Peer
        PROVE  Val(ProcessState(c, g), kind, p) = Val(ProcessState(NoState, g), kind, p)
    <3>1. g.cmds \in Seq(Command) /\ Len(g.cmds) \in 0..Len(g.cmds) /\ Len(g.cmds) <= Len(g.cmds)
      BY <1>3, BlockFields
    <3>2. \A k \in 1..Len(g.cmds) : SameWrite(g.cmds[k], g.cmds[k])
      BY DEF SameWrite
    <3>3. Val(c, kind, p) = Val(NoState, kind, p)
      BY <1>7 DEF SameVals
    <3>. QED
      BY <1>5, <1>6, <1>7, <3>1, <3>2, <3>3, AfterAgrees DEF ProcessState
  <2>4. SameVals(ProcessState(c, g), ProcessState(NoState, g))
    BY <2>3 DEF SameVals
  <2>5. Len(store') = height' /\ SameVals(state', Replay(store', height'))
    BY <1>1, <1>10, <2>2, <2>4
  <2>. QED
    BY <2>5 DEF RestRight
<1>14. PlacesRight' /\ LoadingRight' /\ EnteringRight'
  <2>1. height' <= Len(store') /\ Len(store') <= Len(decided') /\ Len(adds') = 0 /\ adds' = <<>>
    BY <1>1, <1>2, <1>10
  <2>. QED
    BY <1>1, <2>1 DEF PlacesRight, LoadingRight, EnteringRight
<1>15. CallsRight' /\ ValuesRight' /\ OnceRight' /\ SingleRight'
  BY <1>1, <1>2 DEF ChainInv, CallsRight, ValuesRight, OnceRight, SingleRight
<1>. QED
  BY <1>1, <1>2, <1>11, <1>12, <1>13, <1>14, <1>15 DEF ChainInv, AlwaysRight, TogetherRight

\* What the decided block leaves, before it is added and after.
LEMMA CallFacts ==
    ASSUME ChainInv, ~overtaken, adds # <<>>, NEW at, at = adds[1].at,
           NEW d, d = decided[at], NEW R, R = Replay(store, at - 1)
    PROVE  /\ Len(adds) \in Nat \ {0} /\ DOMAIN adds = 1..Len(adds)
           /\ at \in 1..MaxHeight /\ at - 1 \in 0..Len(store)
           /\ height \in {at - 1, at} /\ Len(store) \in {at - 1, at}
           /\ \A i \in 1..Len(adds) :
                 /\ adds[i].at = at /\ adds[i].next \in Nat /\ adds[i].next <= Len(d.cmds) + 1
                 /\ SameWrites(adds[i].json, d) /\ SameWrites(adds[i].block, d)
                 /\ adds[i].next > 0 => Len(store) = at
           /\ Len(store) = at => SameWrites(store[at], d)
           /\ d \in Block /\ d.cmds \in Seq(Command) /\ Len(d.cmds) \in Nat
           /\ R \in State /\ Tidy(R)
           /\ \A kind \in Kind, p \in Peer :
                 Val(state, kind, p) = Val(ProcessState(R, d), kind, p) \/ Overwritten(d, kind, p)
<1>1. ChainTypes /\ PlacesRight /\ CallsRight /\ ValuesRight
  BY DEF ChainInv, AlwaysRight, TogetherRight
<1>2. /\ height \in {at - 1, at} /\ Len(store) \in {at - 1, at}
      /\ \A i \in 1..Len(adds) :
            /\ adds[i].at = at /\ adds[i].next <= Len(d.cmds) + 1
            /\ SameWrites(adds[i].json, d) /\ SameWrites(adds[i].block, d)
      /\ Len(store) = at => SameWrites(store[at], d)
  BY <1>1 DEF CallsRight
<1>3. /\ Len(adds) \in Nat \ {0} /\ DOMAIN adds = 1..Len(adds)
      /\ \A i \in 1..Len(adds) : adds[i].at \in 1..MaxHeight /\ adds[i].next \in Nat
      /\ Len(store) \in Nat /\ MaxHeight \in Nat /\ Len(decided) \in Nat
  BY <1>1, ChainFields
<1>4. 1 \in 1..Len(adds)
  BY <1>3
<1>5. at \in 1..MaxHeight /\ at <= Len(decided)
  BY <1>1, <1>3, <1>4 DEF PlacesRight
<1>6. at - 1 \in 0..Len(store) /\ at \in 1..Len(decided)
  BY <1>2, <1>3, <1>5
<1>7. d \in Block
  BY <1>1, <1>6, ChainFields
<1>8. d.cmds \in Seq(Command) /\ Len(d.cmds) \in Nat
  BY <1>7, BlockFields
<1>9. R \in State /\ Tidy(R)
  BY <1>1, <1>6, ReplayIsState
<1>10. ASSUME NEW i \in 1..Len(adds), adds[i].next > 0 PROVE Len(store) = at
  <2>1. at <= Len(store)
    BY <1>1, <1>2, <1>10 DEF PlacesRight
  <2>. QED
    BY <1>2, <1>3, <1>5, <2>1
<1>11. \A kind \in Kind, p \in Peer :
          Val(state, kind, p) = Val(ProcessState(R, d), kind, p) \/ Overwritten(d, kind, p)
  BY <1>1 DEF ValuesRight
<1>. QED
  BY <1>2, <1>3, <1>5, <1>6, <1>7, <1>8, <1>9, <1>10, <1>11

\* One more call, for the next height.
LEMMA OneMore ==
    ASSUME ChainTypes, NEW c \in Adding, adds' = Append(adds, c)
    PROVE  /\ adds' \in Seq(Adding) /\ Len(adds') = Len(adds) + 1 /\ adds' # <<>>
           /\ \A i \in 1..Len(adds) : adds'[i] = adds[i]
           /\ adds'[Len(adds) + 1] = c
           /\ \A i \in 1..Len(adds') : i \in 1..Len(adds) \/ i = Len(adds) + 1
<1>1. adds \in Seq(Adding) /\ Len(adds) \in Nat
  BY ChainFields DEF ChainTypes
<1>2. PICK a : a = Append(adds, c)
  OBVIOUS
<1>3. /\ a \in Seq(Adding) /\ Len(a) = Len(adds) + 1
      /\ \A i \in 1..Len(adds) : a[i] = adds[i]
      /\ a[Len(adds) + 1] = c
  BY <1>1, <1>2, AppendProperties
<1>4. a # <<>>
  BY <1>1, <1>3
<1>5. \A i \in 1..Len(a) : i \in 1..Len(adds) \/ i = Len(adds) + 1
  BY <1>1, <1>3
<1>. QED
  BY <1>2, <1>3, <1>4, <1>5

\* The blocks the network has decided are now known to reach the next height.
Reaches(blocks, n) ==
    /\ blocks \in Seq(Block) /\ Len(decided) <= Len(blocks) /\ n <= Len(blocks)
    /\ \A k \in 1..Len(decided) : blocks[k] = decided[k]

LEMMA BeginInv ==
    ASSUME ChainInv, phase = "up", height < MaxHeight,
           NEW c \in Adding, c.at = height + 1, c.next = 0, c.json = c.block, Begin(c),
           Reaches(decided', height + 1),
           ~overtaken' => SameWrites(c.json, decided'[height + 1])
    PROVE  ChainInv'
<1>1. /\ adds' = Append(adds, c)
      /\ UNCHANGED <<bootstrap, phase, store, height, state, voted, crashes>>
      /\ twice' = (twice \/ \E i \in DOMAIN adds : adds[i].at = height + 1)
      /\ overtaken' = (overtaken \/ \E i \in DOMAIN adds : adds[i].at # height + 1)
  BY DEF Begin
<1>2. /\ AlwaysRight /\ TogetherRight /\ OnceRight /\ SingleRight
      /\ ChainTypes /\ PlacesRight /\ state \in State /\ Tidy(state) /\ height \in Nat /\ MaxHeight \in Nat
      /\ Len(store) \in Nat /\ Len(adds) \in Nat /\ DOMAIN adds = 1..Len(adds) /\ Len(decided) \in Nat
      /\ adds = <<>> <=> Len(adds) = 0
      /\ \A i \in 1..Len(adds) : adds[i].at \in 1..MaxHeight /\ adds[i].next \in Nat
  BY ChainFields DEF ChainInv, AlwaysRight, ChainTypes
<1>3. PICK at \in Nat : at = height + 1
  BY <1>2
<1>4. at - 1 = height /\ c.at = at
  BY <1>2, <1>3
<1>5. /\ adds' \in Seq(Adding) /\ Len(adds') = Len(adds) + 1 /\ adds' # <<>>
      /\ \A i \in 1..Len(adds) : adds'[i] = adds[i]
      /\ adds'[Len(adds) + 1] = c
      /\ \A i \in 1..Len(adds') : i \in 1..Len(adds) \/ i = Len(adds) + 1
  BY <1>1, <1>2, OneMore
<1>6. /\ decided' \in Seq(Block) /\ Len(decided') \in Nat
      /\ Len(decided) <= Len(decided') /\ at \in 1..Len(decided')
      /\ \A k \in 1..Len(decided) : decided'[k] = decided[k]
  <2>1. decided' \in Seq(Block) /\ Len(decided') \in Nat
    BY DEF Reaches
  <2>. QED
    BY <1>2, <1>3, <2>1 DEF Reaches
<1>7. ChainTypes'
  <2>1. twice' \in BOOLEAN /\ overtaken' \in BOOLEAN
    BY <1>1
  <2>. QED
    BY <1>1, <1>2, <1>5, <1>6, <2>1 DEF ChainTypes
<1>8. PlacesRight'
  <2>1. ASSUME NEW i \in 1..Len(adds')
        PROVE  /\ adds'[i].at <= Len(store) + 1 /\ adds'[i].at <= Len(decided')
               /\ adds'[i].next > 0 => adds'[i].at <= Len(store)
    <3>1. CASE i \in 1..Len(adds)
      BY <1>2, <1>5, <1>6, <3>1 DEF PlacesRight
    <3>2. CASE i = Len(adds) + 1
      <4>1. adds'[i].at = at /\ adds'[i].next = 0
        BY <1>4, <1>5, <3>2
      <4>2. at <= Len(store) + 1 /\ at <= Len(decided')
        BY <1>2, <1>3, <1>6 DEF PlacesRight
      <4>. QED
        BY <4>1, <4>2
    <3>. QED
      BY <1>5, <3>1, <3>2
  <2>2. height <= Len(store) /\ Len(store) <= Len(decided')
    BY <1>2, <1>6 DEF PlacesRight
  <2>. QED
    BY <1>1, <2>1, <2>2 DEF PlacesRight
<1>9. AlwaysRight'
  <2>1. LoadingRight' /\ EnteringRight'
    BY <1>1 DEF LoadingRight, EnteringRight
  <2>2. Tidy(state') /\ Heavy(state') /\ (~bootstrap' => Balanced(state'))
    BY <1>1, <1>2 DEF AlwaysRight
  <2>. QED
    BY <1>7, <1>8, <2>1, <2>2 DEF AlwaysRight
<1>10. ASSUME ~overtaken' PROVE RestRight' /\ CallsRight' /\ ValuesRight'
  <2>1. /\ RestRight /\ CallsRight /\ ValuesRight
        /\ \A i \in 1..Len(adds) : adds[i].at = at
    BY <1>1, <1>2, <1>3, <1>10 DEF TogetherRight
  <2>2. PICK d : d = decided'[at]
    OBVIOUS
  <2>3. d \in Block /\ d.cmds \in Seq(Command) /\ Len(d.cmds) \in Nat /\ SameWrites(c.json, d)
    <3>1. d \in Block
      BY <1>6, <2>2, ElementOfSeq
    <3>. QED
      BY <1>3, <1>10, <2>2, <3>1, BlockFields
  <2>4. adds'[1].at = at
    <3>1. CASE adds = <<>>
      BY <1>2, <1>4, <1>5, <3>1
    <3>2. CASE adds # <<>>
      BY <1>2, <1>5, <2>1, <3>2
    <3>. QED
      BY <3>1, <3>2
  <2>5. ASSUME adds # <<>>
        PROVE  adds[1].at = at /\ decided[at] = d
    <3>1. 1 \in 1..Len(adds)
      BY <1>2, <2>5
    <3>2. adds[1].at = at /\ at <= Len(decided)
      BY <1>2, <2>1, <3>1 DEF PlacesRight
    <3>3. at \in 1..Len(decided)
      BY <1>2, <1>3, <3>2
    <3>. QED
      BY <1>6, <2>2, <3>2, <3>3
  <2>6. CallsRight'
    <3>1. Len(store) \in {at - 1, at} /\ (Len(store) = at => SameWrites(store[at], d))
      <4>1. CASE adds = <<>>
        <5>1. Len(store) = height
          BY <2>1, <4>1 DEF RestRight
        <5>. QED
          BY <1>2, <1>3, <1>4, <5>1
      <4>2. CASE adds # <<>>
        BY <2>1, <2>5, <4>2 DEF CallsRight
      <4>. QED
        BY <4>1, <4>2
    <3>2. ASSUME NEW i \in 1..Len(adds')
          PROVE  /\ adds'[i].at = at /\ adds'[i].next <= Len(d.cmds) + 1
                 /\ SameWrites(adds'[i].json, d) /\ SameWrites(adds'[i].block, d)
      <4>1. CASE i \in 1..Len(adds)
        <5>1. adds # <<>> /\ adds'[i] = adds[i]
          BY <1>2, <1>5, <4>1
        <5>. QED
          BY <2>1, <2>5, <4>1, <5>1 DEF CallsRight
      <4>2. CASE i = Len(adds) + 1
        <5>1. adds'[i] = c
          BY <1>5, <4>2
        <5>2. c.next <= Len(d.cmds) + 1
          BY <2>3
        <5>. QED
          BY <1>4, <2>3, <5>1, <5>2
      <4>. QED
        BY <1>5, <4>1, <4>2
    <3>3. height \in {at - 1, at}
      BY <1>4
    <3>. QED
      BY <1>1, <2>2, <2>4, <3>1, <3>2, <3>3 DEF CallsRight
  <2>7. PICK R : R = Replay(store, height)
    OBVIOUS
  <2>8. ASSUME NEW kind \in Kind, NEW p \in Peer
        PROVE  Val(state, kind, p) = Val(ProcessState(R, d), kind, p) \/ Overwritten(d, kind, p)'
    <3>1. CASE adds = <<>>
      <4>1. Len(store) = height /\ SameVals(state, R)
        BY <2>1, <2>7, <3>1 DEF RestRight
      <4>2. R \in State /\ Tidy(R)
        BY <1>2, <2>7, <4>1, ReplayIsState
      <4>3. Val(state, kind, p) = Val(R, kind, p)
        BY <4>1 DEF SameVals
      <4>4. Len(d.cmds) \in 0..Len(d.cmds)
        BY <2>3
      <4>5. \/ Val(After(R, d.cmds, Len(d.cmds)), kind, p) = Val(R, kind, p)
            \/ \E k \in 1..Len(d.cmds) : Touches(d.cmds[k], kind, p)
        BY <2>3, <4>2, <4>4, AfterPuts
      <4>6. ASSUME NEW k \in 1..Len(d.cmds), Touches(d.cmds[k], kind, p) PROVE Overwritten(d, kind, p)'
        <5>1. adds'[1] = c /\ 1 \in 1..Len(adds')
          BY <1>2, <1>5, <3>1
        <5>2. k >= adds'[1].next
          BY <2>3, <5>1
        <5>. QED
          BY <4>6, <5>1, <5>2 DEF Overwritten
      <4>. QED
        BY <4>3, <4>5, <4>6 DEF ProcessState
    <3>2. CASE adds # <<>>
      <4>1. Val(state, kind, p) = Val(ProcessState(R, d), kind, p) \/ Overwritten(d, kind, p)
        BY <1>4, <2>1, <2>5, <2>7, <3>2 DEF ValuesRight
      <4>2. ASSUME Overwritten(d, kind, p) PROVE Overwritten(d, kind, p)'
        <5>1. PICK i \in 1..Len(adds) : \E k \in 1..Len(d.cmds) :
                    k >= adds[i].next /\ Touches(d.cmds[k], kind, p)
          BY <4>2 DEF Overwritten
        <5>2. i \in 1..Len(adds') /\ adds'[i] = adds[i]
          BY <1>2, <1>5
        <5>. QED
          BY <5>1, <5>2 DEF Overwritten
      <4>. QED
        BY <4>1, <4>2
    <3>. QED
      BY <3>1, <3>2
  <2>9. ValuesRight'
    BY <1>1, <1>4, <2>2, <2>4, <2>7, <2>8 DEF ValuesRight, Overwritten
  <2>10. RestRight'
    BY <1>5 DEF RestRight
  <2>. QED
    BY <2>6, <2>9, <2>10
<1>11. ASSUME ~twice' PROVE ~twice /\ adds = <<>> /\ ~overtaken' /\ Len(adds') = 1 /\ adds'[1] = c
  <2>1. ~twice /\ ~overtaken /\ \A i \in 1..Len(adds) : adds[i].at # at
    BY <1>1, <1>2, <1>3, <1>11 DEF OnceRight
  <2>2. ASSUME adds # <<>> PROVE FALSE
    <3>1. 1 \in 1..Len(adds) /\ height = adds[1].at - 1
      BY <1>2, <2>1, <2>2 DEF OnceRight
    <3>2. adds[1].at = at
      BY <1>2, <1>3, <3>1
    <3>. QED
      BY <2>1, <3>1, <3>2
  <2>3. adds = <<>> /\ Len(adds) = 0
    BY <1>2, <2>2
  <2>4. ~overtaken'
    <3>1. \A i \in 1..Len(adds) : FALSE
      BY <2>3
    <3>2. overtaken' = (overtaken \/ \E i \in 1..Len(adds) : adds[i].at # height + 1)
      BY <1>1, <1>2
    <3>. QED
      BY <2>1, <3>1, <3>2
  <2>5. Len(adds') = 1 /\ adds'[1] = c
    BY <1>5, <2>3
  <2>. QED
    BY <2>1, <2>3, <2>4, <2>5
<1>12. OnceRight'
  BY <1>1, <1>4, <1>11 DEF OnceRight
<1>13. SingleRight'
  <2>1. ASSUME ~twice', ~bootstrap' PROVE state = Replay(store, height)
    BY <1>1, <1>2, <1>11, <2>1 DEF SingleRight
  <2>2. Done(c) = 0
    BY DEF Done
  <2>3. After(Replay(store, height), c.json.cmds, 0) = Replay(store, height)
    BY AfterNone
  <2>. QED
    BY <1>1, <1>4, <1>5, <1>11, <2>1, <2>2, <2>3 DEF SingleRight
<1>. QED
  BY <1>9, <1>10, <1>12, <1>13 DEF ChainInv, TogetherRight

LEMMA AddInv ==
    ASSUME ChainInv, NEW b \in Body, Add(b)
    PROVE  ChainInv'
<1>1. /\ phase = "up" /\ height < MaxHeight
      /\ height + 1 \in DOMAIN decided => b = decided[height + 1]
      /\ IF height + 1 \in DOMAIN decided THEN decided' = decided ELSE decided' = Append(decided, b)
  BY DEF Add, Checked, Decided
<1>2. PICK o \in 1..MaxAdds :
          Begin([json |-> b, block |-> b, object |-> o, at |-> height + 1, next |-> 0])
  BY DEF Add
<1>3. PICK c : c = [json |-> b, block |-> b, object |-> o, at |-> height + 1, next |-> 0]
  OBVIOUS
<1>4. /\ b \in Block /\ ChainTypes /\ PlacesRight /\ decided \in Seq(Block) /\ height \in Nat
      /\ Len(store) \in Nat /\ Len(decided) \in Nat /\ DOMAIN decided = 1..Len(decided) /\ MaxHeight \in Nat
  BY BodyAssumption, ChainFields DEF ChainInv, AlwaysRight, ChainTypes
<1>5. height + 1 \in 1..MaxHeight
  BY <1>1, <1>4
<1>6. c \in Adding /\ c.at = height + 1 /\ c.next = 0 /\ c.json = c.block /\ c.json = b
  BY <1>3, <1>4, <1>5 DEF Adding
<1>7. Begin(c)
  BY <1>2, <1>3
<1>8. Reaches(decided', height + 1) /\ decided'[height + 1] = b
  <2>1. CASE height + 1 \in DOMAIN decided
    BY <1>1, <1>4, <2>1 DEF Reaches
  <2>2. CASE height + 1 \notin DOMAIN decided
    <3>1. decided' = Append(decided, b)
      BY <1>1, <2>2
    <3>2. PICK e : e = Append(decided, b)
      OBVIOUS
    <3>3. /\ e \in Seq(Block) /\ Len(e) = Len(decided) + 1
          /\ \A k \in 1..Len(decided) : e[k] = decided[k]
          /\ e[Len(decided) + 1] = b
      BY <1>4, <3>2, AppendProperties
    <3>4. Len(decided) = height
      <4>1. height <= Len(store) /\ Len(store) <= Len(decided)
        BY <1>4 DEF PlacesRight
      <4>2. height + 1 \notin 1..Len(decided)
        BY <1>4, <2>2
      <4>3. PICK h \in Nat, m \in Nat, l \in Nat : h = height /\ m = Len(store) /\ l = Len(decided)
        BY <1>4
      <4>4. h <= m /\ m <= l /\ h + 1 \notin 1..l
        BY <4>1, <4>2, <4>3
      <4>5. l = h
        BY <4>4
      <4>. QED
        BY <4>3, <4>5
    <3>5. Reaches(e, height + 1) /\ e[height + 1] = b
      BY <1>4, <3>3, <3>4 DEF Reaches
    <3>. QED
      BY <3>1, <3>2, <3>5
  <2>. QED
    BY <2>1, <2>2
<1>9. SameWrites(c.json, decided'[height + 1])
  BY <1>6, <1>8, SameIsSame
<1>. QED
  BY <1>1, <1>6, <1>7, <1>8, <1>9, BeginInv

LEMMA AddAgainInv ==
    ASSUME ChainInv, NEW i \in DOMAIN adds, AddAgain(i)
    PROVE  ChainInv'
<1>1. PICK c : c = [adds[i] EXCEPT !.json = adds[i].block, !.next = 0]
  OBVIOUS
<1>2. adds[i].at = height + 1 /\ phase = "up" /\ height < MaxHeight /\ Begin(c) /\ decided' = decided
  BY <1>1 DEF AddAgain, Checked
<1>3. /\ ChainTypes /\ PlacesRight /\ decided \in Seq(Block) /\ Len(adds) \in Nat /\ Len(decided) \in Nat
      /\ DOMAIN adds = 1..Len(adds) /\ adds[i] \in Adding /\ (adds = <<>> <=> Len(adds) = 0)
  BY ChainFields DEF ChainInv, AlwaysRight, ChainTypes
<1>4. c \in Adding /\ c.at = height + 1 /\ c.next = 0 /\ c.json = c.block /\ c.json = adds[i].block
  BY <1>1, <1>2, <1>3 DEF Adding
<1>5. Reaches(decided', height + 1)
  <2>1. height + 1 <= Len(decided)
    BY <1>2, <1>3 DEF PlacesRight
  <2>. QED
    BY <1>2, <1>3, <2>1 DEF Reaches
<1>6. ASSUME ~overtaken' PROVE SameWrites(c.json, decided'[height + 1])
  <2>1. ~overtaken
    BY <1>2, <1>6 DEF Begin
  <2>2. adds # <<>>
    BY <1>3
  <2>3. CallsRight
    BY <2>1 DEF ChainInv, TogetherRight
  <2>4. adds[i].at = adds[1].at /\ SameWrites(adds[i].block, decided[adds[1].at])
    BY <1>3, <2>2, <2>3 DEF CallsRight
  <2>. QED
    BY <1>2, <1>4, <2>4
<1>. QED
  BY <1>2, <1>4, <1>5, <1>6, BeginInv

\* One call goes on.
LEMMA CallGoesOn ==
    ASSUME ChainTypes, NEW i \in 1..Len(adds), NEW n \in Nat, adds' = [adds EXCEPT ![i].next = n]
    PROVE  /\ adds' \in Seq(Adding) /\ Len(adds') = Len(adds) /\ adds' # <<>>
           /\ \A j \in 1..Len(adds) :
                 /\ adds'[j].json = adds[j].json /\ adds'[j].block = adds[j].block
                 /\ adds'[j].at = adds[j].at
                 /\ adds'[j].next = IF j = i THEN n ELSE adds[j].next
<1>1. adds \in Seq(Adding) /\ adds[i] \in Adding /\ Len(adds) \in Nat
  BY ChainFields DEF ChainTypes
<1>2. PICK c : c = [adds[i] EXCEPT !.next = n]
  OBVIOUS
<1>3. /\ c \in Adding /\ c.next = n /\ c.json = adds[i].json /\ c.block = adds[i].block
      /\ c.at = adds[i].at
  BY <1>1, <1>2 DEF Adding
<1>4. adds' = [adds EXCEPT ![i] = c]
  BY <1>2
<1>5. PICK a : a = [adds EXCEPT ![i] = c]
  OBVIOUS
<1>6. /\ a \in Seq(Adding) /\ Len(a) = Len(adds)
      /\ \A j \in 1..Len(adds) : a[j] = IF j = i THEN c ELSE adds[j]
  BY <1>1, <1>3, <1>5, ExceptSeq
<1>7. a # <<>>
  BY <1>6
<1>. QED
  BY <1>3, <1>4, <1>5, <1>6, <1>7

\* A block is put at its place, or at the end.
PutAt(blocks, at, b) ==
    IF at \in DOMAIN blocks THEN [blocks EXCEPT ![at] = b] ELSE Append(blocks, b)

IsPut(s, at, b) ==
    /\ s \in Seq(Block) /\ Len(s) \in 1..MaxHeight /\ Len(store) <= Len(s) /\ at <= Len(s)
    /\ Len(s) = Len(store) \/ Len(s) = at
    /\ s[at] = b
    /\ \A k \in 1..Len(store) : k # at => s[k] = store[k]

LEMMA PutStore ==
    ASSUME ChainTypes, NEW at \in 1..MaxHeight, at <= Len(store) + 1, NEW b \in Block,
           NEW s, s = PutAt(store, at, b)
    PROVE  IsPut(s, at, b)
<1>1. /\ store \in Seq(Block) /\ DOMAIN store = 1..Len(store) /\ Len(store) \in 1..MaxHeight
      /\ MaxHeight \in Nat
  BY ChainFields DEF ChainTypes
<1>2. CASE at \in 1..Len(store)
  <2>1. s = [store EXCEPT ![at] = b]
    BY <1>1, <1>2 DEF PutAt
  <2>2. /\ s \in Seq(Block) /\ Len(s) = Len(store)
        /\ \A k \in 1..Len(store) : s[k] = IF k = at THEN b ELSE store[k]
    BY <1>1, <1>2, <2>1, ExceptSeq
  <2>. QED
    BY <1>1, <1>2, <2>2 DEF IsPut
<1>3. CASE at \notin 1..Len(store)
  <2>1. s = Append(store, b)
    BY <1>1, <1>3 DEF PutAt
  <2>2. /\ s \in Seq(Block) /\ Len(s) = Len(store) + 1 /\ s[Len(store) + 1] = b
        /\ \A k \in 1..Len(store) : s[k] = store[k]
    BY <1>1, <2>1, AppendProperties
  <2>3. Len(store) + 1 = at
    BY <1>1, <1>3
  <2>4. Len(s) = at /\ s[at] = b
    BY <2>2, <2>3
  <2>5. Len(s) \in 1..MaxHeight /\ Len(store) <= Len(s) /\ at <= Len(s)
    BY <1>1, <2>3, <2>4
  <2>. QED
    BY <2>2, <2>4, <2>5 DEF IsPut
<1>. QED
  BY <1>2, <1>3

LEMMA PutInv ==
    ASSUME ChainInv, NEW i \in DOMAIN adds, Put(i)
    PROVE  ChainInv'
<1>1. /\ adds[i].next = 0
      /\ store' = PutAt(store, adds[i].at, adds[i].json)
      /\ adds' = [adds EXCEPT ![i].next = 1]
      /\ UNCHANGED <<bootstrap, phase, height, state, voted, decided, twice, overtaken, crashes>>
  BY DEF Put, PutAt, histories
<1>2. /\ AlwaysRight /\ ChainTypes /\ PlacesRight /\ DOMAIN store = 1..Len(store) /\ Len(store) \in Nat
      /\ Len(decided) \in Nat /\ MaxHeight \in Nat /\ height \in Nat
      /\ Len(adds) \in Nat /\ DOMAIN adds = 1..Len(adds) /\ (adds = <<>> <=> Len(adds) = 0)
      /\ \A j \in 1..Len(adds) : adds[j].at \in 1..MaxHeight /\ adds[j].next \in Nat
  BY ChainFields DEF ChainInv, AlwaysRight
<1>3. i \in 1..Len(adds) /\ adds # <<>> /\ 1 \in 1..Len(adds)
  BY <1>2
<1>4. PICK at \in 1..MaxHeight : at = adds[i].at
  BY <1>2, <1>3
<1>5. PICK b \in Block : b = adds[i].json
  BY <1>2, <1>3, ChainFields
<1>6. PICK s : s = store'
  OBVIOUS
<1>7. at <= Len(store) + 1 /\ at <= Len(decided) /\ Len(store) <= Len(decided) /\ height <= Len(store)
  BY <1>2, <1>3, <1>4 DEF PlacesRight
<1>8. /\ s \in Seq(Block) /\ Len(s) \in 1..MaxHeight /\ Len(store) <= Len(s) /\ at <= Len(s)
      /\ Len(s) = Len(store) \/ Len(s) = at
      /\ s[at] = b
      /\ \A k \in 1..Len(store) : k # at => s[k] = store[k]
  <2>1. s = PutAt(store, at, b)
    <3>1. store' = PutAt(store, adds[i].at, adds[i].json)
      BY <1>1
    <3>. QED
      BY <1>4, <1>5, <1>6, <3>1
  <2>2. ChainTypes /\ at <= Len(store) + 1
    BY <1>2, <1>7
  <2>3. IsPut(s, at, b)
    BY <2>1, <2>2, PutStore
  <2>. QED
    BY <2>3 DEF IsPut
<1>9. /\ adds' \in Seq(Adding) /\ Len(adds') = Len(adds) /\ adds' # <<>>
      /\ \A j \in 1..Len(adds) :
            /\ adds'[j].json = adds[j].json /\ adds'[j].block = adds[j].block
            /\ adds'[j].at = adds[j].at
            /\ adds'[j].next = IF j = i THEN 1 ELSE adds[j].next
  <2>1. PICK n \in Nat : n = 1
    OBVIOUS
  <2>2. adds' = [adds EXCEPT ![i].next = n]
    BY <1>1, <2>1
  <2>3. /\ adds' \in Seq(Adding) /\ Len(adds') = Len(adds) /\ adds' # <<>>
        /\ \A j \in 1..Len(adds) :
              /\ adds'[j].json = adds[j].json /\ adds'[j].block = adds[j].block
              /\ adds'[j].at = adds[j].at
              /\ adds'[j].next = IF j = i THEN n ELSE adds[j].next
    BY <1>2, <1>3, <2>2, CallGoesOn
  <2>. QED
    BY <2>1, <2>3
<1>10. ChainTypes'
  BY <1>1, <1>2, <1>6, <1>8, <1>9 DEF ChainTypes
<1>11. PlacesRight'
  <2>1. ASSUME NEW j \in 1..Len(adds')
        PROVE  /\ adds'[j].at <= Len(s) + 1 /\ adds'[j].at <= Len(decided)
               /\ adds'[j].next > 0 => adds'[j].at <= Len(s)
    <3>1. /\ adds[j].at <= Len(store) + 1 /\ adds[j].at <= Len(decided)
          /\ adds[j].next > 0 => adds[j].at <= Len(store)
      BY <1>2, <1>9 DEF PlacesRight
    <3>2. adds'[j].at = adds[j].at /\ adds[j].at \in 1..MaxHeight /\ (j # i => adds'[j].next = adds[j].next)
      BY <1>2, <1>9
    <3>3. j = i => adds[j].at <= Len(s)
      BY <1>4, <1>8
    <3>. QED
      BY <1>2, <1>8, <3>1, <3>2, <3>3
  <2>2. height <= Len(s) /\ Len(s) <= Len(decided)
    BY <1>2, <1>7, <1>8
  <2>3. phase \in {"up", "failed"}
    BY <1>2, <1>3 DEF PlacesRight
  <2>. QED
    BY <1>1, <1>6, <2>1, <2>2, <2>3 DEF PlacesRight
<1>12. AlwaysRight'
  <2>1. phase \in {"up", "failed"}
    BY <1>2, <1>3 DEF PlacesRight
  <2>2. LoadingRight' /\ EnteringRight'
    BY <1>1, <2>1 DEF LoadingRight, EnteringRight
  <2>3. Tidy(state') /\ Heavy(state') /\ (~bootstrap' => Balanced(state'))
    BY <1>1, <1>2 DEF AlwaysRight
  <2>. QED
    BY <1>10, <1>11, <2>2, <2>3 DEF AlwaysRight
<1>13. ASSUME adds[1].at = at, Len(store) \in {at - 1, at}
       PROVE  /\ Len(s) = at /\ adds'[1].at = at
              /\ Replay(s, at - 1) = Replay(store, at - 1)
  <2>1. Len(s) = at
    BY <1>4, <1>8, <1>13
  <2>2. at - 1 \in Nat /\ \A k \in 1..(at - 1) : k \in 1..Len(store) /\ k # at
    BY <1>2, <1>4, <1>13
  <2>3. \A k \in 1..(at - 1) : s[k] = store[k]
    BY <1>8, <2>2
  <2>4. Replay(s, at - 1) = Replay(store, at - 1)
    BY <2>2, <2>3, ReplaySame
  <2>5. adds'[1].at = at
    BY <1>3, <1>9, <1>13
  <2>. QED
    BY <2>1, <2>4, <2>5
<1>14. ASSUME ~overtaken' PROVE RestRight' /\ CallsRight' /\ ValuesRight'
  <2>0. ~overtaken
    BY <1>1, <1>14
  <2>1. PICK a : a = adds[1].at
    OBVIOUS
  <2>2. PICK d : d = decided[a]
    OBVIOUS
  <2>3. PICK R : R = Replay(store, a - 1)
    OBVIOUS
  <2>4. /\ height \in {a - 1, a} /\ Len(store) \in {a - 1, a}
        /\ \A j \in 1..Len(adds) :
              /\ adds[j].at = a /\ adds[j].next \in Nat /\ adds[j].next <= Len(d.cmds) + 1
              /\ SameWrites(adds[j].json, d) /\ SameWrites(adds[j].block, d)
        /\ d \in Block /\ Len(d.cmds) \in Nat
        /\ \A kind \in Kind, p \in Peer :
              Val(state, kind, p) = Val(ProcessState(R, d), kind, p) \/ Overwritten(d, kind, p)
    BY <1>3, <2>0, <2>1, <2>2, <2>3, CallFacts
  <2>5. a = at /\ Len(s) = at /\ adds'[1].at = at /\ Replay(s, at - 1) = R
    BY <1>3, <1>4, <1>13, <2>1, <2>3, <2>4
  <2>6. CallsRight'
    <3>1. ASSUME NEW j \in 1..Len(adds')
          PROVE  /\ adds'[j].at = at /\ adds'[j].next <= Len(d.cmds) + 1
                 /\ SameWrites(adds'[j].json, d) /\ SameWrites(adds'[j].block, d)
      <4>1. 1 <= Len(d.cmds) + 1
        BY <2>4
      <4>. QED
        BY <1>9, <2>4, <2>5, <4>1
    <3>2. SameWrites(s[at], d)
      BY <1>3, <1>5, <1>8, <2>4
    <3>. QED
      BY <1>1, <1>6, <2>2, <2>4, <2>5, <3>1, <3>2 DEF CallsRight
  <2>7. ASSUME NEW kind \in Kind, NEW p \in Peer, Overwritten(d, kind, p)
        PROVE  Overwritten(d, kind, p)'
    <3>1. PICK j \in 1..Len(adds) : \E k \in 1..Len(d.cmds) :
                k >= adds[j].next /\ Touches(d.cmds[k], kind, p)
      BY <2>7 DEF Overwritten
    <3>2. PICK k \in 1..Len(d.cmds) : k >= adds[j].next /\ Touches(d.cmds[k], kind, p)
      BY <3>1
    <3>3. k >= adds'[j].next /\ j \in 1..Len(adds')
      BY <1>9, <2>4, <3>2
    <3>. QED
      BY <3>2, <3>3 DEF Overwritten
  <2>8. ValuesRight'
    BY <1>1, <1>6, <2>2, <2>4, <2>5, <2>7 DEF ValuesRight, Overwritten
  <2>. QED
    BY <1>9, <2>6, <2>8 DEF RestRight
<1>15. OnceRight'
  BY <1>1, <1>3, <1>9 DEF ChainInv, OnceRight
<1>16. SingleRight'
  <2>1. ASSUME ~twice', ~bootstrap'
        PROVE  /\ adds'[1].at = at
               /\ Len(adds'[1].json.cmds) = Len(adds'[1].block.cmds)
               /\ \A k \in 1..Len(adds'[1].block.cmds) :
                     k > Done(adds'[1]) => adds'[1].block.cmds[k] = adds'[1].json.cmds[k]
               /\ state' = After(Replay(store', at - 1), adds'[1].json.cmds, Done(adds'[1]))
               /\ store'[at] = adds'[1].json
    <3>1. /\ Len(adds) = 1 /\ ~overtaken
          /\ Len(adds[1].json.cmds) = Len(adds[1].block.cmds)
          /\ \A k \in 1..Len(adds[1].block.cmds) :
                k > Done(adds[1]) => adds[1].block.cmds[k] = adds[1].json.cmds[k]
          /\ state = After(Replay(store, adds[1].at - 1), adds[1].json.cmds, Done(adds[1]))
      BY <1>1, <1>3, <2>1 DEF ChainInv, SingleRight, OnceRight
    <3>2. i = 1
      BY <1>3, <3>1
    <3>3. Done(adds[1]) = 0 /\ Done(adds'[1]) = 0
      <4>1. adds[1].next = 0 /\ adds'[1].next = 1
        BY <1>1, <1>3, <1>9, <3>2
      <4>. QED
        BY <4>1 DEF Done
    <3>4. adds'[1].json = adds[1].json /\ b = adds[1].json /\ adds'[1].block = adds[1].block
      BY <1>3, <1>5, <1>9, <3>2
    <3>5. adds[1].at = at /\ Len(store) \in {at - 1, at}
      BY <1>3, <1>4, <3>1, <3>2 DEF ChainInv, TogetherRight, CallsRight
    <3>6. adds'[1].at = at /\ Replay(s, at - 1) = Replay(store, at - 1)
      BY <1>13, <3>5
    <3>. QED
      BY <1>1, <1>6, <1>8, <3>1, <3>3, <3>4, <3>5, <3>6
  <2>. QED
    BY <1>9, <2>1 DEF SingleRight
<1>. QED
  BY <1>12, <1>14, <1>15, <1>16 DEF ChainInv, TogetherRight

\* A command is rewritten in the block.
WithCommand(b, k, c) == [b EXCEPT !.cmds[k] = c]

LEMMA CommandRewritten ==
    ASSUME NEW b \in Block, NEW k \in 1..Len(b.cmds), NEW c \in Command, SameWrite(b.cmds[k], c),
           NEW d, d = WithCommand(b, k, c)
    PROVE  /\ d \in Block /\ Len(d.cmds) = Len(b.cmds) /\ SameWrites(b, d) /\ d.cmds[k] = c
           /\ \A m \in 1..Len(b.cmds) : m # k => d.cmds[m] = b.cmds[m]
<1>1. b.cmds \in Seq(Command)
  BY BlockFields
<1>2. PICK s : s = [b.cmds EXCEPT ![k] = c]
  OBVIOUS
<1>3. /\ s \in Seq(Command) /\ Len(s) = Len(b.cmds)
      /\ \A m \in 1..Len(b.cmds) : s[m] = IF m = k THEN c ELSE b.cmds[m]
  BY <1>1, <1>2, ExceptSeq
<1>4. d = [b EXCEPT !.cmds = s]
  BY <1>2 DEF WithCommand
<1>5. d \in Block /\ d.cmds = s
  BY <1>3, <1>4 DEF Block
<1>6. SameWrites(b, d)
  <2>1. ASSUME NEW m \in 1..Len(b.cmds) PROVE SameWrite(b.cmds[m], d.cmds[m])
    <3>1. CASE m = k
      BY <1>3, <1>5, <3>1
    <3>2. CASE m # k
      BY <1>3, <1>5, <3>2 DEF SameWrite
    <3>. QED
      BY <3>1, <3>2
  <2>. QED
    BY <1>3, <1>5, <2>1 DEF SameWrites
<1>. QED
  BY <1>3, <1>5, <1>6

\* Two texts of a block leave the same members and the same data.
LEMMA BlockAgrees ==
    ASSUME NEW st \in State, Tidy(st), NEW b \in Block, NEW d \in Block, SameWrites(b, d),
           NEW kind \in Kind, NEW p \in Peer
    PROVE  Val(ProcessState(st, b), kind, p) = Val(ProcessState(st, d), kind, p)
<1>1. b.cmds \in Seq(Command) /\ d.cmds \in Seq(Command) /\ Len(b.cmds) \in Nat
  BY BlockFields
<1>2. Len(b.cmds) = Len(d.cmds) /\ \A k \in 1..Len(b.cmds) : SameWrite(b.cmds[k], d.cmds[k])
  BY DEF SameWrites
<1>3. Len(b.cmds) \in 0..Len(b.cmds) /\ Len(b.cmds) <= Len(d.cmds)
  BY <1>1, <1>2
<1>4. Val(After(st, b.cmds, Len(b.cmds)), kind, p) = Val(After(st, d.cmds, Len(b.cmds)), kind, p)
  BY <1>1, <1>2, <1>3, AfterAgrees
<1>. QED
  BY <1>2, <1>4 DEF ProcessState

\* The last command that overwrites a value decides what the block leaves.
LEMMA LastPuts ==
    ASSUME NEW st \in State, Tidy(st), NEW b \in Block, NEW k \in 1..Len(b.cmds),
           NEW kind \in Kind, NEW p \in Peer, Touches(b.cmds[k], kind, p),
           \A m \in 1..Len(b.cmds) : m > k => ~Touches(b.cmds[m], kind, p)
    PROVE  Val(ProcessState(st, b), kind, p) = Puts(b.cmds[k])
<1>1. b.cmds \in Seq(Command) /\ Len(b.cmds) \in Nat
  BY BlockFields
<1>2. Len(b.cmds) \in 0..Len(b.cmds)
  BY <1>1
<1>3. \/ /\ \A j \in 1..Len(b.cmds) : ~Touches(b.cmds[j], kind, p)
         /\ Val(After(st, b.cmds, Len(b.cmds)), kind, p) = Val(st, kind, p)
      \/ \E j \in 1..Len(b.cmds) :
            /\ Touches(b.cmds[j], kind, p) /\ \A m \in 1..Len(b.cmds) : m > j => ~Touches(b.cmds[m], kind, p)
            /\ Val(After(st, b.cmds, Len(b.cmds)), kind, p) = Puts(b.cmds[j])
  BY <1>1, <1>2, AfterPuts
<1>4. PICK j \in 1..Len(b.cmds) :
            /\ Touches(b.cmds[j], kind, p) /\ \A m \in 1..Len(b.cmds) : m > j => ~Touches(b.cmds[m], kind, p)
            /\ Val(After(st, b.cmds, Len(b.cmds)), kind, p) = Puts(b.cmds[j])
  BY <1>3
<1>5. ~(j > k) /\ ~(k > j)
  BY <1>4
<1>6. j = k
  BY <1>5
<1>. QED
  BY <1>4, <1>6 DEF ProcessState

\* A call has applied a command; the block object it shares with others is now b.
Stepped(i, n, b) ==
    [j \in 1..Len(adds) |-> [adds[j] EXCEPT !.block = IF adds[j].object = adds[i].object THEN b ELSE @,
                                            !.next = IF j = i THEN n ELSE @]]

LEMMA CallSteps ==
    ASSUME ChainTypes, NEW i \in 1..Len(adds), NEW n \in Nat, NEW b \in Block,
           NEW a, a = Stepped(i, n, b)
    PROVE  /\ a \in Seq(Adding) /\ Len(a) = Len(adds) /\ a # <<>>
           /\ \A j \in 1..Len(adds) :
                 /\ a[j].json = adds[j].json /\ a[j].at = adds[j].at
                 /\ a[j].block = IF adds[j].object = adds[i].object THEN b ELSE adds[j].block
                 /\ a[j].next = IF j = i THEN n ELSE adds[j].next
<1>1. Len(adds) \in Nat /\ \A j \in 1..Len(adds) : adds[j] \in Adding
  BY ChainFields
<1>2. /\ DOMAIN a = 1..Len(adds)
      /\ \A j \in 1..Len(adds) :
            a[j] = [adds[j] EXCEPT !.block = IF adds[j].object = adds[i].object THEN b ELSE @,
                                   !.next = IF j = i THEN n ELSE @]
      /\ a = [j \in 1..Len(adds) |-> a[j]]
  BY DEF Stepped
<1>3. ASSUME NEW j \in 1..Len(adds)
      PROVE  /\ a[j] \in Adding
             /\ a[j].json = adds[j].json /\ a[j].at = adds[j].at
             /\ a[j].block = IF adds[j].object = adds[i].object THEN b ELSE adds[j].block
             /\ a[j].next = IF j = i THEN n ELSE adds[j].next
  <2>1. PICK c \in Adding : c = adds[j]
    BY <1>1
  <2>2. a[j] = [c EXCEPT !.block = IF c.object = adds[i].object THEN b ELSE @,
                         !.next = IF j = i THEN n ELSE @]
    BY <1>2, <2>1
  <2>3. PICK e \in Block : e = IF c.object = adds[i].object THEN b ELSE c.block
    BY DEF Adding
  <2>4. PICK m \in Nat : m = IF j = i THEN n ELSE c.next
    BY DEF Adding
  <2>5. a[j] = [c EXCEPT !.block = e, !.next = m]
    BY <2>2, <2>3, <2>4
  <2>6. a[j] \in Adding /\ a[j].json = c.json /\ a[j].at = c.at /\ a[j].block = e /\ a[j].next = m
    BY <2>5 DEF Adding
  <2>. QED
    BY <2>1, <2>3, <2>4, <2>6
<1>4. a \in [1..Len(adds) -> Adding]
  <2>1. \A j \in 1..Len(adds) : a[j] \in Adding
    BY <1>3
  <2>. QED
    BY <1>2, <2>1
<1>5. a \in Seq(Adding) /\ Len(a) = Len(adds)
  BY <1>1, <1>4
<1>6. a # <<>>
  BY <1>1, <1>5
<1>. QED
  BY <1>3, <1>5, <1>6

\* What a command of a text of d puts is what the command of d puts.
LEMMA SameTouches ==
    ASSUME NEW c, NEW e, SameWrite(c, e), NEW kind \in Kind, NEW p
    PROVE  /\ Touches(c, kind, p) <=> Touches(e, kind, p)
           /\ Touches(c, kind, p) => Puts(c) = Puts(e)
BY DEF SameWrite, Touches, Puts, Kind

LEMMA StepInv ==
    ASSUME ChainInv, NEW i \in DOMAIN adds, Step(i)
    PROVE  ChainInv'
<1>1. PICK k : k = adds[i].next
  OBVIOUS
<1>2. PICK b : b = adds[i].block
  OBVIOUS
<1>3. PICK now : now = [b EXCEPT !.cmds[k] = Rewritten(state, @)]
  OBVIOUS
<1>4. /\ k \in DOMAIN b.cmds
      /\ state' = Process(state, b.cmds[k])
      /\ adds' = [j \in DOMAIN adds |->
                    [adds[j] EXCEPT !.block = IF adds[j].object = adds[i].object THEN now ELSE @,
                                    !.next = IF j = i THEN k + 1 ELSE @]]
      /\ UNCHANGED <<bootstrap, phase, store, height, voted, decided, twice, overtaken, crashes>>
  BY <1>1, <1>2, <1>3 DEF Step, histories
<1>5. /\ AlwaysRight /\ ChainTypes /\ PlacesRight /\ state \in State /\ Tidy(state) /\ Heavy(state)
      /\ ~bootstrap => Balanced(state)
      /\ Len(store) \in Nat /\ Len(adds) \in Nat /\ DOMAIN adds = 1..Len(adds)
      /\ adds = <<>> <=> Len(adds) = 0
      /\ \A j \in 1..Len(adds) :
            adds[j].at \in 1..MaxHeight /\ adds[j].next \in Nat /\ adds[j].block \in Block
  BY ChainFields DEF ChainInv, AlwaysRight, ChainTypes
<1>6. i \in 1..Len(adds) /\ adds # <<>> /\ 1 \in 1..Len(adds)
  BY <1>5
<1>7. b \in Block /\ b.cmds \in Seq(Command) /\ Len(b.cmds) \in Nat
  BY <1>2, <1>5, <1>6, BlockFields
<1>8. k \in 1..Len(b.cmds)
  BY <1>4, <1>7, LenProperties
<1>9. PICK n \in Nat : n = k + 1
  BY <1>7, <1>8
<1>10. k \in Nat /\ k > 0 /\ n <= Len(b.cmds) + 1 /\ n > 0
  BY <1>7, <1>8, <1>9
<1>11. PICK c \in Command : c = b.cmds[k]
  BY <1>7, <1>8, ElementOfSeq
<1>12. PICK e : e = Rewritten(state, c)
  OBVIOUS
<1>13. e \in Command /\ SameWrite(c, e)
  BY <1>5, <1>12, RewrittenSame
<1>14. /\ now \in Block /\ Len(now.cmds) = Len(b.cmds) /\ SameWrites(b, now)
       /\ \A m \in 1..Len(b.cmds) : m # k => now.cmds[m] = b.cmds[m]
  <2>1. PICK u : u = WithCommand(b, k, e)
    OBVIOUS
  <2>2. now = u
    BY <1>3, <1>11, <1>12, <2>1 DEF WithCommand
  <2>3. SameWrite(b.cmds[k], e)
    BY <1>11, <1>13
  <2>4. /\ u \in Block /\ Len(u.cmds) = Len(b.cmds) /\ SameWrites(b, u)
        /\ \A m \in 1..Len(b.cmds) : m # k => u.cmds[m] = b.cmds[m]
    BY <1>7, <1>8, <1>13, <2>1, <2>3, CommandRewritten
  <2>. QED
    BY <2>2, <2>4
<1>15. /\ adds' \in Seq(Adding) /\ Len(adds') = Len(adds) /\ adds' # <<>>
       /\ \A j \in 1..Len(adds) :
             /\ adds'[j].json = adds[j].json /\ adds'[j].at = adds[j].at
             /\ adds'[j].block = IF adds[j].object = adds[i].object THEN now ELSE adds[j].block
             /\ adds'[j].next = IF j = i THEN n ELSE adds[j].next
  <2>1. PICK o \in Block : o = now
    BY <1>14
  <2>2. PICK a : a = adds'
    OBVIOUS
  <2>3. a = Stepped(i, n, o)
    BY <1>4, <1>5, <1>9, <2>1, <2>2 DEF Stepped
  <2>4. ChainTypes /\ i \in 1..Len(adds)
    BY <1>5, <1>6
  <2>5. /\ a \in Seq(Adding) /\ Len(a) = Len(adds) /\ a # <<>>
        /\ \A j \in 1..Len(adds) :
              /\ a[j].json = adds[j].json /\ a[j].at = adds[j].at
              /\ a[j].block = IF adds[j].object = adds[i].object THEN o ELSE adds[j].block
              /\ a[j].next = IF j = i THEN n ELSE adds[j].next
    BY <2>3, <2>4, CallSteps
  <2>. QED
    BY <2>1, <2>2, <2>5
<1>16. PICK u : u = Process(state, c)
  OBVIOUS
<1>17. state' = u /\ u \in State /\ Tidy(u) /\ Heavy(u) /\ (~bootstrap => Balanced(u))
  BY <1>4, <1>5, <1>11, <1>16, ProcessKeeps
<1>18. ChainTypes'
  BY <1>4, <1>5, <1>15, <1>17 DEF ChainTypes
<1>19. phase \in {"up", "failed"} /\ adds[i].at <= Len(store)
  BY <1>1, <1>5, <1>6, <1>10 DEF PlacesRight
<1>20. AlwaysRight'
  <2>1. PlacesRight'
    <3>1. ASSUME NEW j \in 1..Len(adds')
          PROVE  /\ adds'[j].at <= Len(store) + 1 /\ adds'[j].at <= Len(decided)
                 /\ adds'[j].next > 0 => adds'[j].at <= Len(store)
      <4>1. /\ adds[j].at <= Len(store) + 1 /\ adds[j].at <= Len(decided)
            /\ adds[j].next > 0 => adds[j].at <= Len(store)
        BY <1>5, <1>15 DEF PlacesRight
      <4>2. adds'[j].at = adds[j].at /\ (j # i => adds'[j].next = adds[j].next)
        BY <1>15
      <4>. QED
        BY <1>19, <4>1, <4>2
    <3>2. height <= Len(store) /\ Len(store) <= Len(decided)
      BY <1>5 DEF PlacesRight
    <3>. QED
      BY <1>4, <1>19, <3>1, <3>2 DEF PlacesRight
  <2>2. LoadingRight' /\ EnteringRight'
    BY <1>4, <1>19 DEF LoadingRight, EnteringRight
  <2>. QED
    BY <1>4, <1>17, <1>18, <2>1, <2>2 DEF AlwaysRight
<1>21. ASSUME ~overtaken' PROVE RestRight' /\ CallsRight' /\ ValuesRight'
  <2>0. ~overtaken
    BY <1>4, <1>21
  <2>1. PICK at : at = adds[1].at
    OBVIOUS
  <2>2. PICK d : d = decided[at]
    OBVIOUS
  <2>3. PICK R : R = Replay(store, at - 1)
    OBVIOUS
  <2>4. /\ height \in {at - 1, at} /\ Len(store) \in {at - 1, at}
        /\ \A j \in 1..Len(adds) :
              /\ adds[j].at = at /\ adds[j].next \in Nat /\ adds[j].next <= Len(d.cmds) + 1
              /\ SameWrites(adds[j].json, d) /\ SameWrites(adds[j].block, d)
        /\ Len(store) = at => SameWrites(store[at], d)
        /\ d \in Block /\ d.cmds \in Seq(Command) /\ Len(d.cmds) \in Nat
        /\ R \in State /\ Tidy(R)
        /\ \A kind \in Kind, p \in Peer :
              Val(state, kind, p) = Val(ProcessState(R, d), kind, p) \/ Overwritten(d, kind, p)
    BY <1>6, <2>0, <2>1, <2>2, <2>3, CallFacts
  <2>5. SameWrites(b, d) /\ Len(d.cmds) = Len(b.cmds) /\ SameWrite(c, d.cmds[k])
    <3>1. SameWrites(b, d)
      BY <1>2, <1>6, <2>4
    <3>. QED
      BY <1>8, <1>11, <3>1 DEF SameWrites
  <2>6. SameWrites(now, d)
    <3>1. SameWrites(now, b) /\ SameWrites(b, d)
      BY <1>14, <2>5, SameWritesBack
    <3>. QED
      BY <3>1, SameWritesTwice
  <2>7. adds'[1].at = at
    BY <1>6, <1>15, <2>1
  <2>8. CallsRight'
    <3>1. ASSUME NEW j \in 1..Len(adds')
          PROVE  /\ adds'[j].at = at /\ adds'[j].next <= Len(d.cmds) + 1
                 /\ SameWrites(adds'[j].json, d) /\ SameWrites(adds'[j].block, d)
      <4>1. adds'[j].at = at /\ SameWrites(adds'[j].json, d) /\ SameWrites(adds'[j].block, d)
        BY <1>15, <2>4, <2>6
      <4>2. adds'[j].next <= Len(d.cmds) + 1
        BY <1>10, <1>15, <2>4, <2>5
      <4>. QED
        BY <4>1, <4>2
    <3>. QED
      BY <1>4, <2>2, <2>4, <2>7, <3>1 DEF CallsRight
  <2>9. ASSUME NEW kind \in Kind, NEW p \in Peer
        PROVE  Val(u, kind, p) = Val(ProcessState(R, d), kind, p) \/ Overwritten(d, kind, p)'
    <3>1. Val(u, kind, p) = IF Touches(c, kind, p) THEN Puts(c) ELSE Val(state, kind, p)
      BY <1>5, <1>16, ProcessPuts
    <3>2. /\ Touches(c, kind, p) <=> Touches(d.cmds[k], kind, p)
          /\ Touches(c, kind, p) => Puts(c) = Puts(d.cmds[k])
      BY <2>5, SameTouches
    <3>3. ASSUME Touches(c, kind, p)
          PROVE  Val(u, kind, p) = Val(ProcessState(R, d), kind, p) \/ Overwritten(d, kind, p)'
      <4>1. CASE \A m \in 1..Len(d.cmds) : m > k => ~Touches(d.cmds[m], kind, p)
        <5>1. Touches(d.cmds[k], kind, p) /\ k \in 1..Len(d.cmds)
          BY <1>8, <2>5, <3>2, <3>3
        <5>2. Val(ProcessState(R, d), kind, p) = Puts(d.cmds[k])
          BY <2>4, <4>1, <5>1, LastPuts
        <5>. QED
          BY <3>1, <3>2, <3>3, <5>2
      <4>2. CASE \E m \in 1..Len(d.cmds) : m > k /\ Touches(d.cmds[m], kind, p)
        <5>1. PICK m \in 1..Len(d.cmds) : m > k /\ Touches(d.cmds[m], kind, p)
          BY <4>2
        <5>2. adds'[i].next = n /\ i \in 1..Len(adds')
          BY <1>6, <1>15
        <5>3. m >= adds'[i].next
          BY <1>9, <1>10, <5>1, <5>2
        <5>. QED
          BY <5>1, <5>2, <5>3 DEF Overwritten
      <4>. QED
        BY <4>1, <4>2
    <3>4. ASSUME ~Touches(c, kind, p), Overwritten(d, kind, p) PROVE Overwritten(d, kind, p)'
      <4>1. PICK j \in 1..Len(adds) : \E m \in 1..Len(d.cmds) :
                m >= adds[j].next /\ Touches(d.cmds[m], kind, p)
        BY <3>4 DEF Overwritten
      <4>2. PICK m \in 1..Len(d.cmds) : m >= adds[j].next /\ Touches(d.cmds[m], kind, p)
        BY <4>1
      <4>3. m # k
        BY <3>2, <3>4, <4>2
      <4>4. m >= adds'[j].next
        BY <1>1, <1>9, <1>10, <1>15, <4>2, <4>3
      <4>. QED
        BY <1>15, <4>2, <4>4 DEF Overwritten
    <3>. QED
      BY <2>4, <3>1, <3>3, <3>4
  <2>10. ValuesRight'
    BY <1>4, <1>17, <2>2, <2>3, <2>7, <2>9 DEF ValuesRight, Overwritten
  <2>. QED
    BY <1>15, <2>8, <2>10 DEF RestRight
<1>22. OnceRight'
  BY <1>4, <1>6, <1>15 DEF ChainInv, OnceRight
<1>23. SingleRight'
  <2>1. ASSUME ~twice', ~bootstrap'
        PROVE  /\ Len(adds'[1].json.cmds) = Len(adds'[1].block.cmds)
               /\ \A m \in 1..Len(adds'[1].block.cmds) :
                     m > Done(adds'[1]) => adds'[1].block.cmds[m] = adds'[1].json.cmds[m]
               /\ state' = After(Replay(store', adds'[1].at - 1), adds'[1].json.cmds, Done(adds'[1]))
               /\ store'[adds'[1].at] = adds'[1].json
    <3>1. /\ Len(adds) = 1
          /\ Len(adds[1].json.cmds) = Len(adds[1].block.cmds)
          /\ \A m \in 1..Len(adds[1].block.cmds) :
                m > Done(adds[1]) => adds[1].block.cmds[m] = adds[1].json.cmds[m]
          /\ state = After(Replay(store, adds[1].at - 1), adds[1].json.cmds, Done(adds[1]))
          /\ adds[1].next > 0 => store[adds[1].at] = adds[1].json
      BY <1>4, <1>6, <2>1 DEF ChainInv, SingleRight, OnceRight
    <3>2. i = 1
      BY <1>6, <3>1
    <3>3. PICK l \in Nat : l = k - 1
      BY <1>10
    <3>4. adds'[1].next = n /\ adds'[1].block = now
      BY <1>6, <1>15, <3>2
    <3>5. Done(adds[1]) = l /\ Done(adds'[1]) = k /\ l + 1 = k
      BY <1>1, <1>9, <1>10, <3>2, <3>3, <3>4 DEF Done
    <3>6. PICK j : j = adds[1].json
      OBVIOUS
    <3>7. adds'[1].json = j /\ adds'[1].at = adds[1].at
      BY <1>6, <1>15, <3>6
    <3>8. PICK R : R = Replay(store, adds[1].at - 1)
      OBVIOUS
    <3>9. state = After(R, j.cmds, l)
      BY <3>1, <3>5, <3>6, <3>8
    <3>10. c = j.cmds[k]
      BY <1>2, <1>8, <1>10, <1>11, <3>1, <3>2, <3>3, <3>5, <3>6
    <3>11. After(R, j.cmds, l + 1) = Process(After(R, j.cmds, l), j.cmds[l + 1])
      BY <3>3, AfterNext
    <3>12. state' = After(R, j.cmds, k)
      BY <1>16, <1>17, <3>5, <3>9, <3>10, <3>11
    <3>13. \A m \in 1..Len(now.cmds) : m > k => now.cmds[m] = j.cmds[m]
      BY <1>2, <1>10, <1>14, <3>1, <3>2, <3>3, <3>5, <3>6
    <3>14. store[adds[1].at] = j
      BY <1>1, <1>10, <3>1, <3>2, <3>6
    <3>15. Len(j.cmds) = Len(now.cmds)
      BY <1>2, <1>14, <3>1, <3>2, <3>6
    <3>. QED
      BY <1>4, <3>4, <3>5, <3>7, <3>8, <3>12, <3>13, <3>14, <3>15
  <2>. QED
    BY <1>15, <2>1 DEF SingleRight
<1>. QED
  BY <1>20, <1>21, <1>22, <1>23 DEF ChainInv, TogetherRight

\* A sequence without one of its elements.
LEMMA Removed ==
    ASSUME NEW S, NEW s \in Seq(S), NEW i \in 1..Len(s), NEW r, r = RemoveAt(s, i)
    PROVE  /\ r \in Seq(S) /\ Len(r) = Len(s) - 1
           /\ \A j \in 1..Len(r) : r[j] = s[IF j < i THEN j ELSE j + 1]
<1>0. Len(s) \in Nat /\ i \in Nat /\ i >= 1 /\ i <= Len(s)
  OBVIOUS
<1>1. PICK n \in Int : n = i - 1
  BY <1>0
<1>2. PICK m \in Int : m = i + 1
  BY <1>0
<1>3. PICK l \in Nat : l = Len(s)
  BY <1>0
<1>4. PICK a : a = SubSeq(s, 1, n)
  OBVIOUS
<1>5. PICK b : b = SubSeq(s, m, l)
  OBVIOUS
<1>6. \A j \in 1..n : s[j] \in S
  BY <1>0, <1>1, ElementOfSeq
<1>7. \A j \in m..l : s[j] \in S
  BY <1>0, <1>2, <1>3, ElementOfSeq
<1>8. 1 \in Int /\ l \in Int
  BY <1>3
<1>9. /\ a \in Seq(S) /\ Len(a) = (IF 1 <= n THEN n - 1 + 1 ELSE 0)
      /\ \A j \in 1..(n - 1 + 1) : a[j] = s[1 + j - 1]
  BY <1>1, <1>4, <1>6, <1>8, SubSeqProperties
<1>10. /\ b \in Seq(S) /\ Len(b) = (IF m <= l THEN l - m + 1 ELSE 0)
       /\ \A j \in 1..(l - m + 1) : b[j] = s[m + j - 1]
  BY <1>2, <1>5, <1>7, <1>8, SubSeqProperties
<1>11. r = a \o b
  BY <1>1, <1>2, <1>3, <1>4, <1>5 DEF RemoveAt
<1>12. Len(a) = n /\ Len(b) = l - i
  BY <1>0, <1>1, <1>2, <1>3, <1>9, <1>10
<1>13. /\ r \in Seq(S) /\ Len(r) = Len(a) + Len(b)
       /\ \A j \in 1..(Len(a) + Len(b)) : r[j] = IF j <= Len(a) THEN a[j] ELSE b[j - Len(a)]
  <2>1. a \in Seq(S) /\ b \in Seq(S)
    BY <1>9, <1>10
  <2>2. /\ a \o b \in Seq(S) /\ Len(a \o b) = Len(a) + Len(b)
        /\ \A j \in 1..(Len(a) + Len(b)) : (a \o b)[j] = IF j <= Len(a) THEN a[j] ELSE b[j - Len(a)]
    BY <2>1, ConcatProperties
  <2>. QED
    BY <1>11, <2>2
<1>14. Len(r) = l - 1
  BY <1>0, <1>1, <1>3, <1>12, <1>13
<1>15. ASSUME NEW j \in 1..Len(r) PROVE r[j] = s[IF j < i THEN j ELSE j + 1]
  <2>1. r[j] = IF j <= n THEN a[j] ELSE b[j - n]
    BY <1>12, <1>13
  <2>2. CASE j < i
    <3>1. j <= n /\ j \in 1..(n - 1 + 1) /\ 1 + j - 1 = j
      BY <1>0, <1>1, <2>2
    <3>2. a[j] = s[j]
      BY <1>9, <3>1
    <3>. QED
      BY <2>1, <2>2, <3>1, <3>2
  <2>3. CASE ~(j < i)
    <3>1. PICK q \in Int : q = j - n
      BY <1>1
    <3>2. ~(j <= n) /\ q \in 1..(l - m + 1) /\ m + q - 1 = j + 1
      BY <1>0, <1>1, <1>2, <1>14, <2>3, <3>1
    <3>3. b[q] = s[m + q - 1]
      BY <1>10, <3>2
    <3>. QED
      BY <2>1, <2>3, <3>1, <3>2, <3>3
  <2>. QED
    BY <2>2, <2>3
<1>. QED
  BY <1>3, <1>13, <1>14, <1>15

LEMMA UpdateCacheInv ==
    ASSUME ChainInv, NEW i \in DOMAIN adds, UpdateCache(i)
    PROVE  ChainInv'
<1>1. PICK b : b = adds[i].block
  OBVIOUS
<1>2. /\ adds[i].next = Len(b.cmds) + 1
      /\ height' = adds[i].at
      /\ adds' = RemoveAt(adds, i)
      /\ UNCHANGED <<bootstrap, store, state, decided, twice, overtaken, crashes>>
      /\ voted' \subseteq VotedWith(b, state)
      /\ phase' \in {phase, "failed"}
  <2>. DEFINE now == VotedWith(b, state)
  <2>1. /\ adds[i].next = Len(b.cmds) + 1
        /\ height' = adds[i].at
        /\ adds' = RemoveAt(adds, i)
        /\ UNCHANGED <<bootstrap, store, state, decided, twice, overtaken, crashes>>
        /\ \/ voted' = now /\ UNCHANGED phase
           \/ (\E p \in now \ {Self} : voted' \in {now, now \ {p}}) /\ UNCHANGED phase
           \/ voted' = now /\ phase' = "failed"
    BY <1>1 DEF UpdateCache, histories
  <2>. HIDE DEF now
  <2>2. voted' \subseteq now /\ phase' \in {phase, "failed"}
    BY <2>1
  <2>. QED
    BY <2>1, <2>2 DEF now
<1>3. /\ AlwaysRight /\ ChainTypes /\ PlacesRight /\ adds \in Seq(Adding)
      /\ state \in State /\ Tidy(state) /\ voted \subseteq Peer
      /\ Len(store) \in Nat /\ MaxHeight \in Nat
      /\ Len(adds) \in Nat /\ DOMAIN adds = 1..Len(adds) /\ (adds = <<>> <=> Len(adds) = 0)
      /\ \A j \in 1..Len(adds) :
            adds[j].at \in 1..MaxHeight /\ adds[j].next \in Nat /\ adds[j].block \in Block
  BY ChainFields DEF ChainInv, AlwaysRight, ChainTypes
<1>4. i \in 1..Len(adds) /\ adds # <<>>
  BY <1>3
<1>5. b \in Block /\ Len(b.cmds) \in Nat
  BY <1>1, <1>3, <1>4, BlockFields
<1>6. /\ adds[i].at \in 1..MaxHeight /\ adds[i].at <= Len(store) /\ phase \in {"up", "failed"}
      /\ adds[i].next > 0
  <2>1. adds[i].next > 0
    BY <1>2, <1>5
  <2>. QED
    BY <1>3, <1>4, <2>1 DEF PlacesRight
<1>7. PICK r : r = RemoveAt(adds, i)
  OBVIOUS
<1>8. /\ r \in Seq(Adding) /\ Len(r) = Len(adds) - 1
      /\ \A j \in 1..Len(r) : r[j] = adds[IF j < i THEN j ELSE j + 1]
  BY <1>3, <1>4, <1>7, Removed
<1>9. /\ adds' = r /\ Len(r) \in Nat /\ (adds' = <<>> <=> Len(r) = 0)
      /\ \A j \in 1..Len(r) : \E m \in 1..Len(adds) : r[j] = adds[m]
      /\ \A m \in 1..Len(adds) : m # i => \E j \in 1..Len(r) : r[j] = adds[m]
  <2>1. adds' = r /\ Len(r) \in Nat
    BY <1>2, <1>3, <1>4, <1>7, <1>8
  <2>2. r = <<>> <=> Len(r) = 0
    BY <1>8, EmptySeq
  <2>3. ASSUME NEW j \in 1..Len(r) PROVE \E m \in 1..Len(adds) : r[j] = adds[m]
    <3>1. (IF j < i THEN j ELSE j + 1) \in 1..Len(adds)
      BY <1>3, <1>4, <1>8
    <3>. QED
      BY <1>8, <3>1
  <2>4. ASSUME NEW m \in 1..Len(adds), m # i PROVE \E j \in 1..Len(r) : r[j] = adds[m]
    <3>1. CASE m < i
      <4>1. m \in 1..Len(r)
        BY <1>3, <1>4, <1>8, <3>1
      <4>. QED
        BY <1>8, <3>1, <4>1
    <3>2. CASE m > i
      <4>1. PICK j \in Int : j = m - 1
        OBVIOUS
      <4>2. j \in 1..Len(r) /\ ~(j < i) /\ j + 1 = m
        BY <1>3, <1>4, <1>8, <3>2, <4>1
      <4>. QED
        BY <1>8, <4>2
    <3>. QED
      BY <1>4, <2>4, <3>1, <3>2
  <2>. QED
    BY <2>1, <2>2, <2>3, <2>4
<1>10. ChainTypes'
  <2>1. VotedWith(b, state) \subseteq Peer
    BY <1>3, <1>5, VotedTypes
  <2>2. voted' \subseteq Peer
    BY <1>2, <2>1
  <2>3. height' \in 0..MaxHeight
    BY <1>2, <1>3, <1>6
  <2>4. phase' \in {"up", "failed"}
    BY <1>2, <1>6
  <2>5. adds' \in Seq(Adding)
    BY <1>8, <1>9
  <2>. QED
    BY <1>2, <1>3, <2>2, <2>3, <2>4, <2>5 DEF ChainTypes
<1>11. AlwaysRight'
  <2>1. phase' \in {"up", "failed"}
    BY <1>2, <1>6
  <2>2. ASSUME NEW j \in 1..Len(r)
        PROVE  /\ r[j].at <= Len(store) + 1 /\ r[j].at <= Len(decided)
               /\ r[j].next > 0 => r[j].at <= Len(store)
    <3>1. PICK m \in 1..Len(adds) : r[j] = adds[m]
      BY <1>9
    <3>. QED
      BY <1>3, <3>1 DEF PlacesRight
  <2>3. height' <= Len(store) /\ Len(store) <= Len(decided)
    BY <1>2, <1>3, <1>6 DEF PlacesRight
  <2>4. PlacesRight'
    BY <1>2, <1>9, <2>1, <2>2, <2>3 DEF PlacesRight
  <2>5. LoadingRight' /\ EnteringRight'
    BY <2>1 DEF LoadingRight, EnteringRight
  <2>6. Tidy(state') /\ Heavy(state') /\ (~bootstrap' => Balanced(state'))
    BY <1>2, <1>3 DEF AlwaysRight
  <2>. QED
    BY <1>10, <2>4, <2>5, <2>6 DEF AlwaysRight
<1>12. ASSUME ~overtaken' PROVE RestRight' /\ CallsRight' /\ ValuesRight'
  <2>0. ~overtaken
    BY <1>2, <1>12
  <2>1. PICK at : at = adds[1].at
    OBVIOUS
  <2>2. PICK d : d = decided[at]
    OBVIOUS
  <2>3. PICK R : R = Replay(store, at - 1)
    OBVIOUS
  <2>4. /\ at \in 1..MaxHeight
        /\ \A j \in 1..Len(adds) :
              /\ adds[j].at = at /\ adds[j].next \in Nat /\ adds[j].next <= Len(d.cmds) + 1
              /\ SameWrites(adds[j].json, d) /\ SameWrites(adds[j].block, d)
              /\ adds[j].next > 0 => Len(store) = at
        /\ Len(store) = at => SameWrites(store[at], d)
        /\ d \in Block /\ d.cmds \in Seq(Command) /\ Len(d.cmds) \in Nat
        /\ R \in State /\ Tidy(R)
        /\ \A kind \in Kind, p \in Peer :
              Val(state, kind, p) = Val(ProcessState(R, d), kind, p) \/ Overwritten(d, kind, p)
    BY <1>4, <2>0, <2>1, <2>2, <2>3, CallFacts
  <2>5. height' = at /\ Len(store) = at /\ SameWrites(store[at], d)
    BY <1>2, <1>4, <1>6, <2>4
  <2>6. adds[i].next = Len(d.cmds) + 1
    <3>1. SameWrites(b, d)
      BY <1>1, <1>4, <2>4
    <3>. QED
      BY <1>2, <3>1 DEF SameWrites
  <2>7. \A kind \in Kind, p \in Peer :
           Val(state, kind, p) = Val(ProcessState(R, d), kind, p) \/ Overwritten(d, kind, p)'
    <3>1. ASSUME NEW kind \in Kind, NEW p \in Peer, Overwritten(d, kind, p)
          PROVE  Overwritten(d, kind, p)'
      <4>1. PICK m \in 1..Len(adds) : \E k \in 1..Len(d.cmds) :
                k >= adds[m].next /\ Touches(d.cmds[k], kind, p)
        BY <3>1 DEF Overwritten
      <4>2. m # i
        BY <2>4, <2>6, <4>1
      <4>3. PICK j \in 1..Len(r) : r[j] = adds[m]
        BY <1>9, <4>2
      <4>. QED
        BY <1>9, <4>1, <4>3 DEF Overwritten
    <3>. QED
      BY <2>4, <3>1
  <2>8. CallsRight' /\ ValuesRight'
    <3>1. ASSUME adds' # <<>>
          PROVE  /\ Len(adds') = Len(r) /\ adds'[1].at = at
                 /\ \A j \in 1..Len(adds') :
                       /\ adds'[j].at = at /\ adds'[j].next <= Len(d.cmds) + 1
                       /\ SameWrites(adds'[j].json, d) /\ SameWrites(adds'[j].block, d)
      <4>1. 1 \in 1..Len(r)
        BY <1>9, <3>1
      <4>2. ASSUME NEW j \in 1..Len(r)
            PROVE  /\ r[j].at = at /\ r[j].next <= Len(d.cmds) + 1
                   /\ SameWrites(r[j].json, d) /\ SameWrites(r[j].block, d)
        <5>1. PICK m \in 1..Len(adds) : r[j] = adds[m]
          BY <1>9
        <5>. QED
          BY <2>4, <5>1
      <4>3. r[1].at = at
        BY <4>1, <4>2
      <4>. QED
        BY <1>9, <4>2, <4>3
    <3>2. CallsRight'
      BY <1>2, <2>2, <2>5, <3>1 DEF CallsRight
    <3>3. ValuesRight'
      BY <1>2, <2>2, <2>3, <2>7, <3>1 DEF ValuesRight, Overwritten
    <3>. QED
      BY <3>2, <3>3
  <2>9. PICK e \in Block : e = store[at]
    <3>1. at \in 1..Len(store)
      BY <2>4, <2>5
    <3>. QED
      BY <1>3, <3>1, ChainFields
  <2>10. Replay(store, at) = ProcessState(R, e)
    <3>1. PICK n \in Nat : n = at - 1
      BY <2>4
    <3>2. n + 1 = at
      BY <2>4, <3>1
    <3>3. Replay(store, n + 1) = ProcessState(Replay(store, n), store[n + 1])
      BY ReplayNext
    <3>. QED
      BY <2>3, <2>9, <3>1, <3>2, <3>3
  <2>11. ASSUME adds' = <<>>, NEW kind \in Kind, NEW p \in Peer
         PROVE  Val(state, kind, p) = Val(ProcessState(R, e), kind, p)
    <3>1. ~Overwritten(d, kind, p)'
      <4>1. Len(adds') = 0
        BY <1>9, <2>11
      <4>. QED
        BY <4>1 DEF Overwritten
    <3>2. SameWrites(e, d)
      BY <2>5, <2>9
    <3>3. Val(ProcessState(R, e), kind, p) = Val(ProcessState(R, d), kind, p)
      BY <2>4, <3>2, BlockAgrees
    <3>. QED
      BY <2>7, <3>1, <3>3
  <2>12. adds' = <<>> => SameVals(state, ProcessState(R, e))
    BY <2>11 DEF SameVals
  <2>13. RestRight'
    BY <1>2, <2>5, <2>10, <2>12 DEF RestRight
  <2>. QED
    BY <2>8, <2>13
<1>13. ASSUME ~twice'
       PROVE  ~twice /\ ~overtaken /\ i = 1 /\ Len(adds) = 1 /\ adds' = <<>>
  <2>1. ~twice /\ ~overtaken /\ Len(adds) = 1
    BY <1>2, <1>4, <1>13 DEF ChainInv, OnceRight
  <2>2. i = 1 /\ Len(r) = 0
    BY <1>4, <1>8, <2>1
  <2>. QED
    BY <1>9, <2>1, <2>2
<1>14. OnceRight'
  BY <1>2, <1>13 DEF OnceRight
<1>15. SingleRight'
  <2>1. ASSUME ~twice', ~bootstrap' PROVE state' = Replay(store', height')
    <3>1. /\ ~twice /\ ~overtaken /\ i = 1
          /\ Len(adds[1].json.cmds) = Len(adds[1].block.cmds)
          /\ state = After(Replay(store, adds[1].at - 1), adds[1].json.cmds, Done(adds[1]))
          /\ adds[1].next > 0 => store[adds[1].at] = adds[1].json
      BY <1>2, <1>4, <1>13, <2>1 DEF ChainInv, SingleRight
    <3>2. PICK at \in 1..MaxHeight : at = adds[1].at
      BY <1>6, <3>1
    <3>3. PICK e : e = adds[1].json
      OBVIOUS
    <3>4. store[at] = e /\ height' = at
      BY <1>2, <1>6, <3>1, <3>2, <3>3
    <3>5. Done(adds[1]) = Len(e.cmds)
      <4>1. adds[1].next = Len(e.cmds) + 1 /\ Len(e.cmds) \in Nat
        BY <1>1, <1>2, <1>5, <3>1, <3>3
      <4>. QED
        BY <4>1 DEF Done
    <3>6. PICK R : R = Replay(store, at - 1)
      OBVIOUS
    <3>7. state = ProcessState(R, e)
      BY <3>1, <3>2, <3>3, <3>5, <3>6 DEF ProcessState
    <3>8. PICK n \in Nat : n = at - 1
      BY <1>3
    <3>9. n + 1 = at
      BY <1>3, <3>8
    <3>10. Replay(store, n + 1) = ProcessState(Replay(store, n), store[n + 1])
      BY ReplayNext
    <3>. QED
      BY <1>2, <3>4, <3>6, <3>7, <3>8, <3>9, <3>10
  <2>. QED
    BY <1>13, <2>1 DEF SingleRight
<1>. QED
  BY <1>11, <1>12, <1>14, <1>15 DEF ChainInv, TogetherRight

LEMMA ChainInvAlways == Spec => []ChainInv
<1>1. ASSUME ChainInv, [Next]_vars PROVE ChainInv'
  <2>1. ASSUME NEW b \in Body, Add(b) PROVE ChainInv'
    BY <1>1, <2>1, AddInv
  <2>2. ASSUME NEW i \in DOMAIN adds, AddAgain(i) PROVE ChainInv'
    BY <1>1, <2>2, AddAgainInv
  <2>3. ASSUME NEW i \in DOMAIN adds, Put(i) PROVE ChainInv'
    BY <1>1, <2>3, PutInv
  <2>4. ASSUME NEW i \in DOMAIN adds, Step(i) PROVE ChainInv'
    BY <1>1, <2>4, StepInv
  <2>5. ASSUME NEW i \in DOMAIN adds, UpdateCache(i) PROVE ChainInv'
    BY <1>1, <2>5, UpdateCacheInv
  <2>6. ASSUME Restart PROVE ChainInv'
    BY <1>1, <2>6, RestartInv
  <2>7. ASSUME LoadBlock PROVE ChainInv'
    BY <1>1, <2>7, LoadBlockInv
  <2>8. ASSUME Listen PROVE ChainInv'
    BY <1>1, <2>8, ListenInv
  <2>9. ASSUME EnterNetwork PROVE ChainInv'
    BY <1>1, <2>9, EnterNetworkInv
  <2>10. ASSUME EnterUnchanged PROVE ChainInv'
    BY <1>1, <2>10, EnterUnchangedInv
  <2>11. ASSUME UNCHANGED vars PROVE ChainInv'
    BY <1>1, <2>11, NothingKeeps
  <2>. QED
    BY <1>1, <2>1, <2>2, <2>3, <2>4, <2>5, <2>6, <2>7, <2>8, <2>9, <2>10, <2>11 DEF Next
<1>. QED
  BY <1>1, ChainInvInit, PTL DEF Spec

-----------------------------------------------------------------------------
(* Quorums.                                                                 *)

\* Two sets with more than half of a weight that is not too small.
LEMMA MajoritiesMeet ==
    ASSUME NEW st \in State, Heavy(st), NEW S \in SUBSET Peer, NEW U \in SUBSET Peer,
           HasQuorumWeighted(st, S), HasQuorumWeighted(st, U)
    PROVE  \E p \in S \cap U : st.stake[p] > 0
<1>1. PICK s \in [Peer -> Nat] : s = st.stake
  BY StateFields
<1>2. PICK g : Splits(g, s, Peer) /\ \A T \in SUBSET Peer : StakeOf(st, T) = g[T]
  BY <1>1, StakeParts
<1>3. PICK w \in Int : w = st.weight
  BY StateFields
<1>4. Peer \in SUBSET Peer /\ S \cup U \in SUBSET Peer /\ Peer \ (S \cup U) \in SUBSET Peer
  OBVIOUS
<1>5. g[Peer] <= w /\ 2 * g[S] > w /\ 2 * g[U] > w
  BY <1>2, <1>3, <1>4 DEF Heavy, HasQuorumWeighted
<1>6. \A T1, T2 \in SUBSET Peer :
       Apart(s, T1, T2) => g[T1] \in Nat /\ g[T2] \in Nat /\ g[T1 \cup T2] = g[T1] + g[T2]
  BY <1>2, PartsAdd
<1>7. ASSUME \A x \in S \cap U : s[x] = 0 PROVE FALSE
  <2>1. g[S] \in Nat /\ g[U] \in Nat /\ g[S \cup U] = g[S] + g[U]
    <3>1. Apart(s, S, U)
      BY <1>7 DEF Apart
    <3>. QED
      BY <1>6, <3>1
  <2>2. PICK V \in SUBSET Peer : V = S \cup U
    BY <1>4
  <2>3. PICK W \in SUBSET Peer : W = Peer \ V
    OBVIOUS
  <2>4. V \cup W = Peer
    BY <2>3
  <2>5. g[V] \in Nat /\ g[W] \in Nat /\ g[V \cup W] = g[V] + g[W]
    <3>1. Apart(s, V, W)
      BY <2>3 DEF Apart
    <3>. QED
      BY <1>6, <3>1
  <2>6. PICK a \in Nat : a = g[S]
    BY <2>1
  <2>7. PICK b \in Nat : b = g[U]
    BY <2>1
  <2>8. PICK c \in Nat : c = g[W]
    BY <2>5
  <2>9. g[Peer] = (a + b) + c
    BY <2>1, <2>2, <2>4, <2>5, <2>6, <2>7, <2>8
  <2>10. (a + b) + c <= w /\ 2 * a > w /\ 2 * b > w
    BY <1>5, <2>6, <2>7, <2>9
  <2>. QED
    BY <2>10
<1>8. PICK p \in S \cap U : s[p] # 0
  BY <1>7
<1>. QED
  BY <1>1, <1>8

\* All members together have more than half of a weight that is right.
LEMMA MembersSuffice ==
    ASSUME NEW st \in State, Tidy(st), Balanced(st), NEW p \in st.members, st.stake[p] > 0
    PROVE  HasQuorumWeighted(st, st.members)
<1>1. PICK s \in [Peer -> Nat] : s = st.stake
  BY StateFields
<1>2. PICK g : Splits(g, s, Peer) /\ \A T \in SUBSET Peer : StakeOf(st, T) = g[T]
  BY <1>1, StakeParts
<1>3. PICK M \in SUBSET Peer : M = st.members
  BY StateFields
<1>4. PICK W \in SUBSET Peer : W = Peer \ M
  OBVIOUS
<1>. DEFINE Q == {T \in SUBSET Peer : T \subseteq W => g[T] = 0}
<1>5. {} \in Q
  BY <1>2 DEF Splits
<1>6. ASSUME NEW T \in SUBSET Peer, NEW x \in T, T \ {x} \in Q PROVE T \in Q
  <2>1. ASSUME T \subseteq W PROVE g[T] = 0
    <3>1. s[x] = 0
      BY <1>1, <1>3, <1>4, <2>1 DEF Tidy
    <3>2. g[T] = s[x] + g[T \ {x}] /\ g[T \ {x}] = 0
      BY <1>2, <1>6, <2>1 DEF Splits
    <3>. QED
      BY <3>1, <3>2
  <2>. QED
    BY <2>1
<1>. HIDE DEF Q
<1>7. W \in Q
  BY <1>5, <1>6, OneByOne
<1>8. g[W] = 0
  BY <1>7 DEF Q
<1>9. M \cup W = Peer
  BY <1>4
<1>10. \A T1, T2 \in SUBSET Peer :
       Apart(s, T1, T2) => g[T1] \in Nat /\ g[T2] \in Nat /\ g[T1 \cup T2] = g[T1] + g[T2]
  BY <1>2, PartsAdd
<1>11. g[M] \in Nat /\ g[W] \in Nat /\ g[M \cup W] = g[M] + g[W]
  <2>1. Apart(s, M, W)
    BY <1>4 DEF Apart
  <2>. QED
    BY <1>10, <2>1
<1>12. g[M] > 0
  <2>1. p \in M /\ s[p] \in Nat /\ s[p] > 0
    BY <1>1, <1>3
  <2>2. PICK n \in Nat : n = g[M \ {p}]
    BY <1>2 DEF Splits
  <2>3. g[M] = s[p] + n
    BY <1>2, <2>1, <2>2 DEF Splits
  <2>. QED
    BY <2>1, <2>2, <2>3
<1>13. PICK a \in Nat : a = g[M]
  BY <1>11
<1>14. StakeOf(st, M) = a /\ st.weight = a
  <2>1. g[Peer] = a
    <3>1. g[Peer] = g[M] + g[W]
      BY <1>9, <1>11
    <3>. QED
      BY <1>8, <1>13, <3>1
  <2>2. Peer \in SUBSET Peer
    OBVIOUS
  <2>. QED
    BY <1>2, <1>13, <2>1, <2>2 DEF Balanced
<1>15. 2 * a > a
  BY <1>12, <1>13
<1>. QED
  BY <1>3, <1>14, <1>15 DEF HasQuorumWeighted

-----------------------------------------------------------------------------
(* Theorems.                                                                *)

\* Every variable has its type: no stake drops below 0, whatever the votes of
\* modifyStake ask for, and the height stays in its bound.
THEOREM TypeCorrect == Spec => []TypeOK
<1>1. ChainInv => TypeOK
  <2>. SUFFICES ASSUME ChainInv PROVE TypeOK
    OBVIOUS
  <2>1. ChainTypes /\ state \in State
    BY DEF ChainInv, AlwaysRight, ChainTypes
  <2>2. /\ state.members \subseteq Peer /\ state.stake \in [Peer -> Nat] /\ state.weight \in Int
        /\ state.ballots \subseteq Ballot /\ state.dbPeer \in [Peer -> Int] /\ state.dbData \in [Peer -> Int]
    BY <2>1, StateFields
  <2>. QED
    BY <2>1, <2>2 DEF ChainTypes, TypeOK, Ballot, Adding
<1>. QED
  BY <1>1, ChainInvAlways, PTL

\* What hasQuorumWeighted measures votes against is the sum of all stakes in a
\* node that has not entered a network: after every command of addPeer,
\* removePeer and modifyStake, also of overlapping calls of add().
THEOREM WeightsAreStakes == Spec => []WeightIsStake
<1>1. ChainInv => WeightIsStake
  BY DEF ChainInv, AlwaysRight, Balanced, WeightIsStake
<1>. QED
  BY <1>1, ChainInvAlways, PTL

\* Any two sets of voters that hasQuorumWeighted accepts at one time have a peer
\* with a stake in common, also after reset() has left quorumWeighted too large.
THEOREM QuorumsAlwaysMeet == Spec => []QuorumsMeet
<1>1. ChainInv => QuorumsMeet
  <2>. SUFFICES ASSUME ChainInv, NEW S \in SUBSET Peer, NEW T \in SUBSET Peer,
                       HasQuorumWeighted(state, S), HasQuorumWeighted(state, T)
                PROVE  \E p \in S \cap T : state.stake[p] > 0
    BY DEF QuorumsMeet
  <2>1. state \in State /\ Heavy(state)
    BY DEF ChainInv, AlwaysRight, ChainTypes
  <2>. QED
    BY <2>1, MajoritiesMeet
<1>. QED
  BY <1>1, ChainInvAlways, PTL

\* The votes of all peers are a quorum in a node that has not entered a network,
\* as long as any of them has a stake: what UnanimityIsQuorum asks for fails
\* because of reset(), or of stakes that are all 0, and for no other reason.
THEOREM MembersAreAQuorum ==
    Spec => [](~bootstrap /\ (\E p \in state.members : state.stake[p] > 0)
               => HasQuorumWeighted(state, state.members))
<1>. DEFINE Suffice == ~bootstrap /\ (\E p \in state.members : state.stake[p] > 0)
                       => HasQuorumWeighted(state, state.members)
<1>1. ChainInv => Suffice
  <2>. SUFFICES ASSUME ChainInv, ~bootstrap, NEW p \in state.members, state.stake[p] > 0
                PROVE  HasQuorumWeighted(state, state.members)
    OBVIOUS
  <2>1. state \in State /\ Tidy(state) /\ Balanced(state)
    BY DEF ChainInv, AlwaysRight, ChainTypes
  <2>. QED
    BY <2>1, MembersSuffice
<1>. QED
  BY <1>1, ChainInvAlways, PTL

\* With one call of add() per block, all that processState derives is a function
\* of the blocks on the store, for any chain and any point of a restart.
THEOREM StatesAreReplays == Spec => []StateIsReplay
<1>1. ChainInv => StateIsReplay
  BY DEF ChainInv, SingleRight, StateIsReplay, AtRest, Replayed
<1>. QED
  BY <1>1, ChainInvAlways, PTL

\* In the end dbState is in step with mapPeer, whatever overlaps; and however many
\* calls of add() overlap for one block, with whatever objects, the peers and the
\* data of the clients are what the blocks say.  That a block is not begun while
\* calls for an earlier one still apply theirs is needed for the second part: add()
\* does not make sure of it.
THEOREM DatabasesAreRight == Spec => []DatabaseIsRight
<1>1. ChainInv => DatabaseIsRight
  <2>1. ASSUME ChainInv, AtRest, NEW p \in Peer
        PROVE  state.dbPeer[p] = IF p \in state.members THEN state.stake[p] ELSE Missing
    BY <2>1 DEF ChainInv, AlwaysRight, Tidy
  <2>2. ASSUME ChainInv, AtRest, ~overtaken
        PROVE  state.members = Replayed.members /\ state.dbData = Replayed.dbData
    <3>1. /\ Len(store) = height /\ SameVals(state, Replay(store, height))
          /\ ChainTypes /\ state \in State /\ height \in Nat
      BY <2>2, ChainFields DEF ChainInv, AlwaysRight, TogetherRight, ChainTypes, RestRight, AtRest
    <3>2. PICK R : R = Replayed
      OBVIOUS
    <3>3. R \in State /\ SameVals(state, R)
      <4>1. height \in 0..Len(store)
        BY <3>1
      <4>. QED
        BY <3>1, <3>2, <4>1, ReplayIsState DEF Replayed
    <3>4. /\ state.members \in SUBSET Peer /\ state.dbData \in [Peer -> Int]
          /\ R.members \in SUBSET Peer /\ R.dbData \in [Peer -> Int]
      BY <3>1, <3>3, StateFields
    <3>5. \A p \in Peer : (p \in state.members <=> p \in R.members) /\ state.dbData[p] = R.dbData[p]
      BY <3>3 DEF SameVals, Val, Kind
    <3>6. state.members = R.members
      BY <3>4, <3>5
    <3>7. state.dbData = R.dbData
      BY <3>4, <3>5
    <3>. QED
      BY <3>2, <3>6, <3>7
  <2>. QED
    BY <2>1, <2>2 DEF DatabaseIsRight
<1>. QED
  BY <1>1, ChainInvAlways, PTL

=============================================================================
