-------------------------- MODULE BlockRangeProofs --------------------------
(***************************************************************************)
(* Theorems about BlockRange, for any sizes, heights and requests: the     *)
(* cache holds the newest blocks, and the answers are the blocks that were *)
(* asked for unless the latest block is not the newest one.                *)
(***************************************************************************)
EXTENDS BlockRange, SequenceTheorems, WellFoundedInduction, TLAPS

-----------------------------------------------------------------------------
(* Numbers and sequences.                                                   *)

\* What induction over numbers rests on.
LEMMA LeastNumber ==
    ASSUME NEW T \in SUBSET Nat, T # {}
    PROVE  \E x \in T : \A y \in T : x <= y
<1>. DEFINE R == OpToRel(<, Nat)
<1>1. IsWellFoundedOn(R, Nat)
  BY NatLessThanWellFounded, Zenon
<1>2. ASSUME NEW x \in Nat, NEW y \in Nat, ~(<<y, x>> \in R) PROVE ~(y < x)
  BY <1>2, Zenon DEF OpToRel
<1>. HIDE DEF R
<1>3. PICK x \in T : \A y \in T : ~(<<y, x>> \in R)
  BY <1>1, WFMin, Zenon
<1>4. ASSUME NEW y \in T PROVE x <= y
  <2>1. ~(y < x)
    BY <1>2, <1>3
  <2>. QED
    BY <2>1
<1>. QED
  BY <1>4

\* Induction up to a number, for a set of numbers.
LEMMA UpTo ==
    ASSUME NEW m \in Nat, NEW T, 0 \in T, \A n \in 0..m : n \in T /\ n < m => n + 1 \in T
    PROVE  \A n \in 0..m : n \in T
<1>. DEFINE U == {n \in 0..m : n \notin T}
<1>1. ASSUME U # {} PROVE FALSE
  <2>0. U \in SUBSET Nat
    OBVIOUS
  <2>1. PICK n \in U : \A k \in U : n <= k
    <3>. HIDE DEF U
    <3>. QED
      BY <1>1, <2>0, LeastNumber
  <2>2. n \in 0..m /\ n \notin T /\ n # 0
    OBVIOUS
  <2>3. n - 1 \in 0..m /\ n - 1 < m /\ (n - 1) + 1 = n
    BY <2>2
  <2>4. n - 1 \in T
    BY <2>1, <2>3
  <2>5. (n - 1) + 1 \in T
    BY <2>3, <2>4
  <2>. QED
    BY <2>2, <2>3, <2>5
<1>. QED
  BY <1>1

\* The first element of a sequence is the first that equals it.
LEMMA RemoveHead ==
    ASSUME NEW S, NEW s \in Seq(S), s # <<>>
    PROVE  RemoveFirst(s, s[1]) = Tail(s)
<1>. DEFINE I == {i \in 1..Len(s) : s[i] = s[1]}
<1>1. Len(s) \in Nat /\ Len(s) # 0
  BY EmptySeq, LenProperties
<1>2. 1 \in I /\ \A i \in I : i \in Nat /\ 1 <= i
  BY <1>1
<1>3. SelectInSeq(s, LAMBDA v : v = s[1]) = Min(I)
  BY <1>2, Zenon DEF SelectInSeq
<1>4. Min(I) = 1
  <2>1. Min(I) \in I /\ \A i \in I : Min(I) <= i
    BY <1>2, Zenon DEF Min
  <2>. HIDE DEF I
  <2>. QED
    BY <1>2, <2>1
<1>5. RemoveFirst(s, s[1]) = RemoveAt(s, SelectInSeq(s, LAMBDA v : v = s[1]))
  BY <1>2, Zenon DEF RemoveFirst
<1>6. RemoveFirst(s, s[1]) = RemoveAt(s, 1)
  BY <1>3, <1>4, <1>5, Zenon
<1>7. SubSeq(s, 1, 1 - 1) = <<>> /\ SubSeq(s, 1 + 1, Len(s)) = Tail(s)
  BY <1>1
<1>8. Tail(s) \in Seq(S)
  BY HeadTailProperties
<1>9. <<>> \o Tail(s) = Tail(s)
  BY <1>8
<1>. QED
  BY <1>6, <1>7, <1>9 DEF RemoveAt

\* A sequence without one of its elements.
LEMMA Removed ==
    ASSUME NEW S, NEW s \in Seq(S), NEW i \in 1..Len(s), NEW r, r = RemoveAt(s, i)
    PROVE  /\ r \in Seq(S) /\ Len(r) = Len(s) - 1
           /\ \A j \in 1..Len(r) : r[j] = s[IF j < i THEN j ELSE j + 1]
<1>0. Len(s) \in Nat /\ i \in Nat /\ i >= 1 /\ i <= Len(s)
  OBVIOUS
<1>1. PICK n \in Int : n = i - 1
  BY <1>0
<1>2. PICK m \in Int : m = i + 1
  BY <1>0
<1>3. PICK l \in Nat : l = Len(s)
  BY <1>0
<1>4. PICK a : a = SubSeq(s, 1, n)
  OBVIOUS
<1>5. PICK b : b = SubSeq(s, m, l)
  OBVIOUS
<1>6. \A j \in 1..n : s[j] \in S
  BY <1>0, <1>1, ElementOfSeq
<1>7. \A j \in m..l : s[j] \in S
  BY <1>0, <1>2, <1>3, ElementOfSeq
<1>8. 1 \in Int /\ l \in Int
  BY <1>3
<1>9. /\ a \in Seq(S) /\ Len(a) = (IF 1 <= n THEN n - 1 + 1 ELSE 0)
      /\ \A j \in 1..(n - 1 + 1) : a[j] = s[1 + j - 1]
  BY <1>1, <1>4, <1>6, <1>8, SubSeqProperties
<1>10. /\ b \in Seq(S) /\ Len(b) = (IF m <= l THEN l - m + 1 ELSE 0)
       /\ \A j \in 1..(l - m + 1) : b[j] = s[m + j - 1]
  BY <1>2, <1>5, <1>7, <1>8, SubSeqProperties
<1>11. r = a \o b
  BY <1>1, <1>2, <1>3, <1>4, <1>5 DEF RemoveAt
<1>12. Len(a) = n /\ Len(b) = l - i
  BY <1>0, <1>1, <1>2, <1>3, <1>9, <1>10
<1>13. /\ r \in Seq(S) /\ Len(r) = Len(a) + Len(b)
       /\ \A j \in 1..(Len(a) + Len(b)) : r[j] = IF j <= Len(a) THEN a[j] ELSE b[j - Len(a)]
  <2>1. a \in Seq(S) /\ b \in Seq(S)
    BY <1>9, <1>10
  <2>2. /\ a \o b \in Seq(S) /\ Len(a \o b) = Len(a) + Len(b)
        /\ \A j \in 1..(Len(a) + Len(b)) : (a \o b)[j] = IF j <= Len(a) THEN a[j] ELSE b[j - Len(a)]
    BY <2>1, ConcatProperties
  <2>. QED
    BY <1>11, <2>2
<1>14. Len(r) = l - 1
  BY <1>0, <1>1, <1>3, <1>12, <1>13
<1>15. ASSUME NEW j \in 1..Len(r) PROVE r[j] = s[IF j < i THEN j ELSE j + 1]
  <2>1. r[j] = IF j <= n THEN a[j] ELSE b[j - n]
    BY <1>12, <1>13
  <2>2. CASE j < i
    <3>1. j <= n /\ j \in 1..(n - 1 + 1) /\ 1 + j - 1 = j
      BY <1>0, <1>1, <2>2
    <3>2. a[j] = s[j]
      BY <1>9, <3>1
    <3>. QED
      BY <2>1, <2>2, <3>1, <3>2
  <2>3. CASE ~(j < i)
    <3>1. PICK q \in Int : q = j - n
      BY <1>1
    <3>2. ~(j <= n) /\ q \in 1..(l - m + 1) /\ m + q - 1 = j + 1
      BY <1>0, <1>1, <1>2, <1>14, <2>3, <3>1
    <3>3. b[q] = s[m + q - 1]
      BY <1>10, <3>2
    <3>. QED
      BY <2>1, <2>3, <3>1, <3>2, <3>3
  <2>. QED
    BY <2>2, <2>3
<1>. QED
  BY <1>3, <1>13, <1>14, <1>15

\* What is in a sequence after one more element, and without one of its elements.
LEMMA AppendRange ==
    ASSUME NEW S, NEW s \in Seq(S), NEW x \in S, NEW r, r = Append(s, x)
    PROVE  \A y \in Range(r) : y \in Range(s) \/ y = x
<1>1. /\ r \in Seq(S) /\ Len(r) = Len(s) + 1 /\ r[Len(s) + 1] = x /\ Len(s) \in Nat
      /\ \A i \in 1..Len(s) : r[i] = s[i]
  BY AppendProperties
<1>2. DOMAIN s = 1..Len(s) /\ DOMAIN r = 1..(Len(s) + 1)
  BY <1>1, LenProperties
<1>3. ASSUME NEW y \in Range(r) PROVE y \in Range(s) \/ y = x
  <2>1. PICK i \in 1..(Len(s) + 1) : r[i] = y
    BY <1>2 DEF Range
  <2>2. i \in 1..Len(s) \/ i = Len(s) + 1
    BY <1>1
  <2>. QED
    BY <1>1, <1>2, <2>1, <2>2 DEF Range
<1>. QED
  BY <1>3

LEMMA RemoveRange ==
    ASSUME NEW S, NEW s \in Seq(S), NEW i \in DOMAIN s, NEW r, r = RemoveAt(s, i)
    PROVE  r \in Seq(S) /\ Range(r) \subseteq Range(s)
<1>1. i \in 1..Len(s) /\ Len(s) \in Nat /\ DOMAIN s = 1..Len(s)
  BY LenProperties
<1>2. /\ r \in Seq(S) /\ Len(r) = Len(s) - 1
      /\ \A j \in 1..Len(r) : r[j] = s[IF j < i THEN j ELSE j + 1]
  BY <1>1, Removed
<1>3. DOMAIN r = 1..Len(r)
  BY <1>2, LenProperties
<1>4. ASSUME NEW y \in Range(r) PROVE y \in Range(s)
  <2>1. PICK j \in 1..Len(r) : r[j] = y
    BY <1>3 DEF Range
  <2>2. PICK k \in Int : k = IF j < i THEN j ELSE j + 1
    OBVIOUS
  <2>3. k \in 1..Len(s) /\ y = s[k]
    BY <1>1, <1>2, <2>1, <2>2
  <2>. QED
    BY <1>1, <2>3 DEF Range
<1>. QED
  BY <1>2, <1>4

LEMMA Widened ==
    ASSUME NEW S, NEW T, S \subseteq T, NEW s \in Seq(S)
    PROVE  s \in Seq(T)
<1>1. s \in [1..Len(s) -> S] /\ Len(s) \in Nat
  OBVIOUS
<1>2. s \in [1..Len(s) -> T]
  BY <1>1
<1>. QED
  BY <1>1, <1>2, SeqDef, Zenon

-----------------------------------------------------------------------------
(* The cache.                                                               *)

\* The top of a chain of height h, as far as it fits.
TopOf(h) ==
    [i \in 1..Smaller(h, MaxBlocksInMemory) |-> h - Smaller(h, MaxBlocksInMemory) + i]

LEMMA TopTypes ==
    ASSUME NEW h \in Nat
    PROVE  /\ Smaller(h, MaxBlocksInMemory) \in 0..h
           /\ TopOf(h) \in Seq(1..h) /\ Len(TopOf(h)) = Smaller(h, MaxBlocksInMemory)
           /\ DOMAIN TopOf(h) = 1..Smaller(h, MaxBlocksInMemory)
           /\ \A i \in 1..Smaller(h, MaxBlocksInMemory) :
                 TopOf(h)[i] = h - Smaller(h, MaxBlocksInMemory) + i
<1>. DEFINE l == Smaller(h, MaxBlocksInMemory)
<1>1. l \in 0..h
  BY SizeAssumption DEF Smaller
<1>. HIDE DEF l
<1>2. \A i \in 1..l : h - l + i \in 1..h
  BY <1>1
<1>3. TopOf(h) = [i \in 1..l |-> h - l + i]
  BY DEF TopOf, l
<1>4. TopOf(h) \in [1..l -> 1..h] /\ l \in Nat
  BY <1>1, <1>2, <1>3
<1>5. TopOf(h) \in Seq(1..h) /\ Len(TopOf(h)) = l
  BY <1>3, <1>4
<1>. QED
  BY <1>1, <1>3, <1>5 DEF l

\* updateCache adds the next block to the newest ones, and changes nothing if the
\* block is in the cache already.
LEMMA CacheStep ==
    ASSUME NEW t \in Nat, cache = TopOf(t)
    PROVE  /\ UpdatedCache(t + 1) = TopOf(t + 1)
           /\ \A x \in 1..t : t - x < MaxBlocksInMemory => UpdatedCache(x) = TopOf(t)
<1>. DEFINE m == MaxBlocksInMemory
            l == Smaller(t, MaxBlocksInMemory)
<1>0. m \in Nat /\ m # 0 /\ l \in 0..t /\ l <= m /\ (l < m => l = t)
  BY SizeAssumption DEF Smaller
<1>1. /\ cache \in Seq(1..t) /\ Len(cache) = l
      /\ \A i \in 1..l : cache[i] = t - l + i
  BY TopTypes
<1>2. ASSUME NEW x \in 1..t, t - x < MaxBlocksInMemory PROVE UpdatedCache(x) = TopOf(t)
  <2>1. x - t + l \in 1..l
    BY <1>0, <1>2
  <2>2. cache[x - t + l] = x
    <3>1. t - l + (x - t + l) = x
      BY <1>0
    <3>. HIDE DEF l
    <3>. QED
      BY <1>1, <2>1, <3>1
  <2>3. Inserted(x) = cache
    BY <1>1, <2>1, <2>2 DEF Inserted, Contains
  <2>. HIDE DEF l
  <2>. QED
    BY <1>0, <1>1, <2>3 DEF UpdatedCache
<1>3. UpdatedCache(t + 1) = TopOf(t + 1)
  <2>. DEFINE k == Smaller(t + 1, MaxBlocksInMemory)
              s == Append(cache, t + 1)
  <2>1. Inserted(t + 1) = s
    <3>1. \A i \in 1..Len(cache) : cache[i] # t + 1
      BY <1>0, <1>1
    <3>. QED
      BY <3>1 DEF Inserted, Contains
  <2>2. /\ s \in Seq(1..(t + 1)) /\ Len(s) = l + 1 /\ s[l + 1] = t + 1
        /\ \A i \in 1..l : s[i] = cache[i]
    <3>1. cache \in Seq(1..(t + 1)) /\ t + 1 \in 1..(t + 1)
      <4>1. 1..t \subseteq 1..(t + 1)
        OBVIOUS
      <4>2. cache \in [1..l -> 1..t] /\ l \in Nat
        BY <1>0, <1>1
      <4>3. cache \in [1..l -> 1..(t + 1)]
        <5>. HIDE DEF l
        <5>. QED
          BY <4>1, <4>2
      <4>. HIDE DEF l
      <4>. QED
        BY <4>2, <4>3
    <3>. QED
      BY <1>0, <1>1, <3>1, AppendProperties
  <2>3. /\ TopOf(t + 1) \in Seq(1..(t + 1)) /\ Len(TopOf(t + 1)) = k
        /\ \A i \in 1..k : TopOf(t + 1)[i] = t + 1 - k + i
    BY TopTypes
  <2>4. \A i \in 1..(l + 1) : s[i] = t - l + i
    <3>1. ASSUME NEW i \in 1..(l + 1) PROVE s[i] = t - l + i
      <4>1. i \in 1..l \/ i = l + 1
        BY <1>0
      <4>. HIDE DEF s, l
      <4>2. CASE i \in 1..l
        BY <1>0, <1>1, <2>2, <4>2
      <4>3. CASE i = l + 1
        BY <1>0, <2>2, <4>3
      <4>. QED
        BY <4>1, <4>2, <4>3
    <3>. QED
      BY <3>1
  <2>5. CASE l < m
    <3>1. k = l + 1 /\ l = t
      BY <1>0, <2>5 DEF Smaller
    <3>. HIDE DEF s, l, k
    <3>2. s = TopOf(t + 1)
      BY <1>0, <2>2, <2>3, <2>4, <3>1, SeqEqual
    <3>3. ~(l + 1 > m)
      BY <1>0, <2>5
    <3>. QED
      BY <2>1, <2>2, <3>2, <3>3 DEF UpdatedCache, m
  <2>6. CASE l = m
    <3>1. k = l
      BY <1>0, <2>6 DEF Smaller
    <3>. HIDE DEF s, l, k
    <3>2. s[1] = (t + 1) - MaxBlocksInMemory /\ s # <<>>
      <4>1. s[1] = t - l + 1
        BY <1>0, <2>4
      <4>2. s # <<>>
        BY <1>0, <2>2, EmptySeq
      <4>. QED
        BY <1>0, <2>6, <4>1, <4>2
    <3>3. UpdatedCache(t + 1) = Tail(s)
      <4>1. l + 1 > m
        BY <1>0, <2>6
      <4>2. RemoveFirst(s, s[1]) = Tail(s)
        BY <2>2, <3>2, RemoveHead
      <4>3. UpdatedCache(t + 1) = RemoveFirst(s, (t + 1) - MaxBlocksInMemory)
        BY <2>1, <2>2, <4>1 DEF UpdatedCache
      <4>. QED
        BY <3>2, <4>2, <4>3
    <3>4. /\ Tail(s) \in Seq(1..(t + 1)) /\ Len(Tail(s)) = l
          /\ \A i \in 1..l : Tail(s)[i] = s[i + 1]
      BY <1>0, <2>2, <3>2, HeadTailProperties
    <3>5. \A i \in 1..l : Tail(s)[i] = TopOf(t + 1)[i]
      BY <1>0, <2>3, <2>4, <3>1, <3>4
    <3>6. Tail(s) = TopOf(t + 1)
      BY <2>3, <3>1, <3>4, <3>5, SeqEqual
    <3>. QED
      BY <3>3, <3>6
  <2>. QED
    BY <1>0, <2>5, <2>6
<1>. QED
  BY <1>2, <1>3

-----------------------------------------------------------------------------
(* Ranges.                                                                  *)

\* getRange never leaves the chain, returns a block at least and no more than
\* the limit.
LEMMA RangeBounds ==
    ASSUME NEW gte \in Int, NEW lte \in Int, NEW h \in Nat, h # 0
    PROVE  /\ FirstOf(gte, lte, h) \in 1..LastOf(gte, lte, h)
           /\ LastOf(gte, lte, h) \in 1..h
           /\ LastOf(gte, lte, h) - FirstOf(gte, lte, h) < MaxQuerySize
<1>1. StartOf(gte, h) \in 1..h
  BY DEF StartOf, Smaller, Larger
<1>2. LastOf(gte, lte, h) \in 1..h
  BY <1>1 DEF LastOf, Smaller
<1>3. FirstOf(gte, lte, h) =
        Larger(Smaller(StartOf(gte, h), LastOf(gte, lte, h)), LastOf(gte, lte, h) - MaxQuerySize + 1)
  BY DEF FirstOf
<1>. QED
  BY <1>1, <1>2, <1>3, SizeAssumption DEF Smaller, Larger

LEMMA StoreTypes ==
    ASSUME NEW first \in Nat \ {0}, NEW last \in Nat, first <= last + 1
    PROVE  /\ FromStore(first, last) \in Seq(1..last)
           /\ Len(FromStore(first, last)) = last - first + 1
           /\ \A i \in 1..(last - first + 1) : FromStore(first, last)[i] = first + i - 1
<1>. DEFINE n == last - first + 1
<1>1. n \in Nat
  OBVIOUS
<1>2. \A i \in 1..n : first + i - 1 \in 1..last
  OBVIOUS
<1>3. FromStore(first, last) = [i \in 1..n |-> first + i - 1]
  BY DEF FromStore
<1>. HIDE DEF n
<1>4. FromStore(first, last) \in [1..n -> 1..last]
  BY <1>2, <1>3
<1>5. FromStore(first, last) \in Seq(1..last) /\ Len(FromStore(first, last)) = n
  BY <1>1, <1>3, <1>4
<1>. QED
  BY <1>3, <1>5 DEF n

\* What is cut from the cache, by its places, are consecutive blocks; those that
\* were asked for if the latest block is the newest one.
LEMMA CacheIsCut ==
    ASSUME height \in Nat, NEW t \in Nat, height <= t, cache = TopOf(t),
           NEW first \in 1..height, NEW last \in 1..height, first <= last, Contains(cache, first)
    PROVE  \E b \in Seq(1..t) :
              /\ FromCache(first, last) = b /\ Len(b) <= last - first + 1
              /\ \A i \in 1..Len(b) : b[i] = t - height + first + i - 1
              /\ height = t => Len(b) = last - first + 1
<1>. DEFINE l == Smaller(t, MaxBlocksInMemory)
            s == Len(cache) - height + first - 1
<1>1. /\ cache \in Seq(1..t) /\ Len(cache) = l /\ l \in 0..t
      /\ \A i \in 1..l : cache[i] = t - l + i
  BY TopTypes
<1>2. PICK k \in 1..l : cache[k] = first
  BY <1>1 DEF Contains
<1>. HIDE DEF l
<1>3. first >= t - l + 1
  BY <1>1, <1>2
<1>4. s \in Nat /\ s = first - 1 - height + l
  BY <1>1, <1>3
<1>. HIDE DEF s
<1>5. PICK n \in Nat : n = Larger(0, Smaller(s + last - first + 1, l) - s)
  <2>1. Larger(0, Smaller(s + last - first + 1, l) - s) \in Nat
    BY <1>1, <1>4 DEF Larger, Smaller
  <2>. QED
    BY <2>1
<1>6. n <= last - first + 1 /\ (n # 0 => s + n <= l)
  BY <1>1, <1>4, <1>5 DEF Larger, Smaller
<1>7. height = t => n = last - first + 1
  BY <1>1, <1>4, <1>5 DEF Larger, Smaller
<1>8. PICK b : b = [i \in 1..n |-> cache[s + i]]
  OBVIOUS
<1>9. FromCache(first, last) = b
  <2>1. FromCache(first, last) = Slice(cache, s, s + last - first + 1)
    BY Zenon DEF FromCache, s
  <2>. QED
    BY <1>1, <1>5, <1>8, <2>1 DEF Slice
<1>10. ASSUME NEW i \in 1..n PROVE b[i] = t - height + first + i - 1 /\ b[i] \in 1..t
  <2>1. s + i \in 1..l
    BY <1>1, <1>4, <1>6
  <2>2. b[i] = t - l + (s + i)
    BY <1>1, <1>8, <2>1
  <2>. QED
    BY <1>1, <1>4, <2>1, <2>2
<1>11. b \in Seq(1..t) /\ Len(b) = n
  <2>1. b \in [1..n -> 1..t]
    BY <1>8, <1>10
  <2>. QED
    BY <1>8, <2>1
<1>. QED
  BY <1>6, <1>7, <1>9, <1>10, <1>11

\* getRange, wherever it takes the blocks from.
LEMMA RangeIsCut ==
    ASSUME NEW t \in Nat, height \in 1..t, cache = TopOf(t), NEW gte \in Int, NEW lte \in Int
    PROVE  \E b \in Seq(1..t), first \in 1..height, last \in 1..height :
              /\ GetRange(gte, lte) = b
              /\ first = FirstOf(gte, lte, height) /\ last = LastOf(gte, lte, height)
              /\ first <= last /\ last - first < MaxQuerySize
              /\ Len(b) <= last - first + 1
              /\ \A i \in 1..Len(b) : b[i] = b[1] + i - 1
              /\ height = t => /\ Len(b) = last - first + 1
                               /\ \A i \in 1..Len(b) : b[i] = first + i - 1
<1>0. height \in Nat /\ height # 0 /\ height <= t
  OBVIOUS
<1>1. PICK first \in Int, last \in Int : first = FirstOf(gte, lte, height) /\ last = LastOf(gte, lte, height)
  <2>1. /\ FirstOf(gte, lte, height) \in 1..LastOf(gte, lte, height)
        /\ LastOf(gte, lte, height) \in 1..height
    BY <1>0, RangeBounds
  <2>2. LastOf(gte, lte, height) \in Int /\ FirstOf(gte, lte, height) \in Int
    BY <2>1
  <2>. QED
    BY <2>2
<1>2. first \in 1..last /\ last \in 1..height /\ last - first < MaxQuerySize
  BY <1>0, <1>1, RangeBounds
<1>3. first \in 1..height /\ first <= last
  BY <1>0, <1>2
<1>4. GetRange(gte, lte) =
        IF Contains(cache, first) /\ Contains(cache, last) THEN FromCache(first, last) ELSE FromStore(first, last)
  BY <1>1 DEF GetRange
<1>5. CASE Contains(cache, first) /\ Contains(cache, last)
  <2>1. PICK b \in Seq(1..t) :
              /\ FromCache(first, last) = b /\ Len(b) <= last - first + 1
              /\ \A i \in 1..Len(b) : b[i] = t - height + first + i - 1
              /\ height = t => Len(b) = last - first + 1
    BY <1>0, <1>2, <1>3, <1>5, CacheIsCut
  <2>2. Len(b) \in Nat
    BY LenProperties
  <2>3. ASSUME NEW i \in 1..Len(b) PROVE b[i] = b[1] + i - 1
    <3>1. 1 \in 1..Len(b)
      BY <2>2
    <3>2. b[1] = t - height + first + 1 - 1 /\ b[i] = t - height + first + i - 1
      BY <2>1, <3>1
    <3>. QED
      BY <1>0, <1>3, <3>2
  <2>4. ASSUME height = t, NEW i \in 1..Len(b) PROVE b[i] = first + i - 1
    BY <1>0, <1>3, <2>1, <2>4
  <2>5. GetRange(gte, lte) = b
    BY <1>4, <1>5, <2>1
  <2>. QED
    BY <1>1, <1>2, <1>3, <2>1, <2>3, <2>4, <2>5
<1>6. CASE ~(Contains(cache, first) /\ Contains(cache, last))
  <2>1. PICK b : b = FromStore(first, last)
    OBVIOUS
  <2>2. first \in Nat \ {0} /\ last \in Nat /\ first <= last + 1
    BY <1>2
  <2>3. /\ b \in Seq(1..last) /\ Len(b) = last - first + 1
        /\ \A i \in 1..(last - first + 1) : b[i] = first + i - 1
    BY <2>1, <2>2, StoreTypes
  <2>4. 1..last \subseteq 1..t
    BY <1>0, <1>2
  <2>5. b \in Seq(1..t)
    BY <2>3, <2>4, Widened
  <2>6. \A i \in 1..Len(b) : b[i] = first + i - 1 /\ b[i] = b[1] + i - 1
    BY <1>2, <2>3
  <2>7. GetRange(gte, lte) = b
    BY <1>4, <1>6, <2>1
  <2>8. Len(b) = last - first + 1 /\ Len(b) <= last - first + 1
    BY <1>2, <2>3
  <2>. QED
    BY <1>1, <1>2, <1>3, <2>5, <2>6, <2>7, <2>8
<1>. QED
  BY <1>5, <1>6

-----------------------------------------------------------------------------
(* Searches.                                                                *)

\* One step of FoundIn.
FoundAt(g, h, first) ==
    IF h < first THEN <<>> ELSE IF h \in Hits THEN Append(g[h - 1], h) ELSE g[h - 1]

\* The function that FoundIn defines recursively exists: it grows from below.
LEMMA FoundExists ==
    ASSUME NEW first \in Nat \ {0}
    PROVE  \E g : g = [h \in 0..MaxHeight |-> FoundAt(g, h, first)]
<1>. DEFINE T == {n \in 0..MaxHeight :
                    \E g : /\ g = [h \in 0..n |-> g[h]]
                           /\ \A h \in 0..n : g[h] = FoundAt(g, h, first)}
<1>0. MaxHeight \in Nat
  BY BoundAssumption
<1>1. 0 \in T
  <2>. DEFINE g == [h \in 0..0 |-> <<>>]
  <2>1. g = [h \in 0..0 |-> g[h]]
    OBVIOUS
  <2>2. \A h \in 0..0 : g[h] = FoundAt(g, h, first)
    BY DEF FoundAt
  <2>3. 0 \in 0..MaxHeight
    BY <1>0
  <2>. HIDE DEF g
  <2>. QED
    BY <2>1, <2>2, <2>3
<1>2. ASSUME NEW n \in 0..MaxHeight, n \in T, n < MaxHeight PROVE n + 1 \in T
  <2>1. PICK g : \A h \in 0..n : g[h] = FoundAt(g, h, first)
    BY <1>2
  <2>. DEFINE e == [h \in 0..(n + 1) |-> IF h <= n THEN g[h] ELSE FoundAt(g, h, first)]
  <2>2. e = [h \in 0..(n + 1) |-> e[h]]
    OBVIOUS
  <2>3. \A h \in 0..(n + 1) : e[h] = FoundAt(g, h, first)
    BY <2>1
  <2>4. ASSUME NEW h \in 0..(n + 1) PROVE FoundAt(e, h, first) = FoundAt(g, h, first)
    <3>1. CASE h < first
      BY <3>1 DEF FoundAt
    <3>2. CASE ~(h < first)
      <4>1. h - 1 \in 0..(n + 1) /\ h - 1 <= n
        BY <3>2
      <4>2. e[h - 1] = g[h - 1]
        BY <4>1
      <4>. HIDE DEF e
      <4>. QED
        BY <4>2, Zenon DEF FoundAt
    <3>. QED
      BY <3>1, <3>2
  <2>. HIDE DEF e
  <2>5. \A h \in 0..(n + 1) : e[h] = FoundAt(e, h, first)
    BY <2>3, <2>4
  <2>6. n + 1 \in 0..MaxHeight
    BY <1>0, <1>2
  <2>. QED
    BY <2>2, <2>5, <2>6
<1>. HIDE DEF T
<1>3. MaxHeight \in T
  BY <1>0, <1>1, <1>2, UpTo
<1>4. PICK g : /\ g = [h \in 0..MaxHeight |-> g[h]]
               /\ \A h \in 0..MaxHeight : g[h] = FoundAt(g, h, first)
  BY <1>3 DEF T
<1>5. g = [h \in 0..MaxHeight |-> FoundAt(g, h, first)]
  BY <1>4
<1>. QED
  BY <1>5

LEMMA FoundSteps ==
    ASSUME NEW first \in Nat \ {0}, NEW last \in 0..MaxHeight
    PROVE  \E g : /\ FoundIn(first, last) = g[last]
                  /\ \A h \in 0..MaxHeight : g[h] = FoundAt(g, h, first)
<1>. DEFINE F == CHOOSE g : g = [h \in 0..MaxHeight |-> FoundAt(g, h, first)]
<1>1. F = [h \in 0..MaxHeight |-> FoundAt(F, h, first)]
  BY FoundExists, Zenon
<1>2. FoundIn(first, last) = F[last]
  BY Zenon DEF FoundIn, FoundAt
<1>. HIDE DEF F
<1>3. \A h \in 0..MaxHeight : F[h] = FoundAt(F, h, first)
  BY <1>1
<1>. QED
  BY <1>2, <1>3

\* The hits from first to last, in order.
IsFound(blocks, first, last) ==
    /\ blocks \in Seq(Nat)
    /\ \A i \in 1..Len(blocks) : blocks[i] \in Hits /\ first <= blocks[i] /\ blocks[i] <= last
    /\ \A i, j \in 1..Len(blocks) : i < j => blocks[i] < blocks[j]
    /\ \A h \in Hits : first <= h /\ h <= last => \E i \in 1..Len(blocks) : blocks[i] = h
    /\ Len(blocks) <= Larger(0, last + 1 - first)

\* One more block is looked at.
LEMMA FoundStep ==
    ASSUME NEW b, NEW first \in Nat \ {0}, NEW last \in Nat, IsFound(b, first, last)
    PROVE  /\ last + 1 < first => IsFound(<<>>, first, last + 1)
           /\ last + 1 >= first /\ last + 1 \in Hits => IsFound(Append(b, last + 1), first, last + 1)
           /\ last + 1 >= first /\ last + 1 \notin Hits => IsFound(b, first, last + 1)
<1>0. /\ b \in Seq(Nat) /\ Len(b) \in Nat
      /\ \A i \in 1..Len(b) : b[i] \in Nat /\ b[i] \in Hits /\ first <= b[i] /\ b[i] <= last
      /\ \A i, j \in 1..Len(b) : i < j => b[i] < b[j]
      /\ \A h \in Hits : first <= h /\ h <= last => \E i \in 1..Len(b) : b[i] = h
      /\ Len(b) <= Larger(0, last + 1 - first)
  BY DEF IsFound
<1>h. Hits \subseteq Nat
  BY BoundAssumption
<1>1. ASSUME last + 1 < first PROVE IsFound(<<>>, first, last + 1)
  <2>1. /\ <<>> \in Seq(Nat) /\ Len(<<>>) = 0
        /\ 0 <= Larger(0, (last + 1) + 1 - first)
    BY DEF Larger
  <2>2. \A h \in Hits : ~(first <= h /\ h <= last + 1)
    BY <1>1, <1>h
  <2>. QED
    BY <2>1, <2>2 DEF IsFound
<1>2. ASSUME last + 1 >= first, last + 1 \in Hits PROVE IsFound(Append(b, last + 1), first, last + 1)
  <2>. DEFINE s == Append(b, last + 1)
              n == Len(b)
  <2>1. /\ s \in Seq(Nat) /\ Len(s) = n + 1 /\ s[n + 1] = last + 1 /\ n \in Nat
        /\ \A i \in 1..n : s[i] = b[i]
    BY <1>0, AppendProperties
  <2>. HIDE DEF s
  <2>2. \A i \in 1..(n + 1) : i \in 1..n \/ i = n + 1
    BY <2>1
  <2>. HIDE DEF n
  <2>3. \A i \in 1..(n + 1) : s[i] \in Hits /\ first <= s[i] /\ s[i] <= last + 1
    <3>1. ASSUME NEW i \in 1..(n + 1) PROVE s[i] \in Hits /\ first <= s[i] /\ s[i] <= last + 1
      <4>1. CASE i \in 1..n
        <5>1. s[i] = b[i] /\ b[i] \in Nat /\ b[i] \in Hits /\ first <= b[i] /\ b[i] <= last
          BY <1>0, <2>1, <4>1 DEF n
        <5>. QED
          BY <5>1
      <4>2. CASE i = n + 1
        BY <1>2, <2>1, <4>2
      <4>. QED
        BY <2>2, <4>1, <4>2
    <3>. QED
      BY <3>1
  <2>4. \A i, j \in 1..(n + 1) : i < j => s[i] < s[j]
    <3>1. ASSUME NEW i \in 1..(n + 1), NEW j \in 1..(n + 1), i < j PROVE s[i] < s[j]
      <4>1. i \in 1..n
        BY <2>1, <3>1
      <4>2. s[i] = b[i] /\ b[i] \in Nat /\ b[i] <= last
        BY <1>0, <2>1, <4>1 DEF n
      <4>3. CASE j \in 1..n
        BY <1>0, <2>1, <3>1, <4>1, <4>3 DEF n
      <4>4. CASE j = n + 1
        BY <2>1, <4>2, <4>4
      <4>. QED
        BY <2>2, <4>3, <4>4
    <3>. QED
      BY <3>1
  <2>5. \A h \in Hits : first <= h /\ h <= last + 1 => \E i \in 1..(n + 1) : s[i] = h
    <3>1. ASSUME NEW h \in Hits, first <= h, h <= last + 1 PROVE \E i \in 1..(n + 1) : s[i] = h
      <4>1. h = last + 1 \/ h <= last
        BY <1>h, <3>1
      <4>2. CASE h = last + 1
        <5>1. n + 1 \in 1..(n + 1)
          BY <2>1
        <5>. QED
          BY <2>1, <4>2, <5>1
      <4>3. CASE h <= last
        <5>1. PICK i \in 1..n : b[i] = h
          BY <1>0, <3>1, <4>3 DEF n
        <5>2. i \in 1..(n + 1) /\ s[i] = h
          BY <2>1, <5>1
        <5>. QED
          BY <5>2
      <4>. QED
        BY <4>1, <4>2, <4>3
    <3>. QED
      BY <3>1
  <2>6. n + 1 <= Larger(0, (last + 1) + 1 - first)
    BY <1>0, <1>2, <2>1 DEF Larger, n
  <2>. QED
    BY <2>1, <2>3, <2>4, <2>5, <2>6 DEF IsFound, s
<1>3. ASSUME last + 1 >= first, last + 1 \notin Hits PROVE IsFound(b, first, last + 1)
  <2>1. \A i \in 1..Len(b) : b[i] <= last + 1
    BY <1>0
  <2>2. \A h \in Hits : h <= last + 1 => h <= last
    BY <1>h, <1>3
  <2>3. Len(b) <= Larger(0, (last + 1) + 1 - first)
    BY <1>0, <1>3 DEF Larger
  <2>. QED
    BY <1>0, <2>1, <2>2, <2>3 DEF IsFound
<1>. QED
  BY <1>1, <1>2, <1>3

LEMMA FoundRight ==
    ASSUME NEW first \in Nat \ {0}, NEW last \in 0..MaxHeight
    PROVE  IsFound(FoundIn(first, last), first, last)
<1>1. PICK g : /\ FoundIn(first, last) = g[last]
               /\ \A h \in 0..MaxHeight : g[h] = FoundAt(g, h, first)
  BY FoundSteps
<1>. DEFINE T == {n \in 0..MaxHeight : IsFound(g[n], first, n)}
<1>0. MaxHeight \in Nat
  BY BoundAssumption
<1>2. 0 \in T
  <2>1. 0 \in 0..MaxHeight /\ g[0] = <<>>
    BY <1>0, <1>1 DEF FoundAt
  <2>2. /\ <<>> \in Seq(Nat) /\ Len(<<>>) = 0 /\ 0 <= Larger(0, 0 + 1 - first)
        /\ \A h \in Hits : ~(first <= h /\ h <= 0)
    BY BoundAssumption DEF Larger
  <2>3. IsFound(<<>>, first, 0)
    BY <2>2 DEF IsFound
  <2>. QED
    BY <2>1, <2>3
<1>3. ASSUME NEW n \in 0..MaxHeight, n \in T, n < MaxHeight PROVE n + 1 \in T
  <2>1. n + 1 \in 0..MaxHeight /\ n \in Nat /\ (n + 1) - 1 = n
    BY <1>0, <1>3
  <2>2. IsFound(g[n], first, n)
    BY <1>3
  <2>3. g[n + 1] = IF n + 1 < first THEN <<>>
                   ELSE IF n + 1 \in Hits THEN Append(g[n], n + 1) ELSE g[n]
    BY <1>1, <2>1 DEF FoundAt
  <2>4. n + 1 < first \/ n + 1 >= first
    BY <2>1
  <2>5. IsFound(g[n + 1], first, n + 1)
    BY <2>1, <2>2, <2>3, <2>4, FoundStep
  <2>. QED
    BY <2>1, <2>5
<1>. HIDE DEF T
<1>4. last \in T
  BY <1>0, <1>2, <1>3, UpTo
<1>. QED
  BY <1>1, <1>4 DEF T

LEMMA FirstHitRight ==
    ASSUME NEW b \in Seq(Nat)
    PROVE  \/ FirstHit(b) = <<>> /\ \A i \in 1..Len(b) : b[i] \notin Hits
           \/ \E i \in 1..Len(b) : /\ FirstHit(b) = <<b[i]>> /\ b[i] \in Hits
                                   /\ \A j \in 1..(i - 1) : b[j] \notin Hits
<1>. DEFINE I == {i \in 1..Len(b) : b[i] \in Hits}
            First(i) == b[i] \in Hits /\ \A j \in 1..(i - 1) : b[j] \notin Hits
<1>0. Len(b) \in Nat /\ DOMAIN b = 1..Len(b)
  OBVIOUS
<1>1. CASE I = {}
  <2>1. ~ \E i \in DOMAIN b : b[i] \in Hits
    BY <1>0, <1>1
  <2>. QED
    BY <1>0, <2>1 DEF FirstHit
<1>2. CASE I # {}
  <2>0. I \in SUBSET Nat
    OBVIOUS
  <2>1. PICK i \in I : \A j \in I : i <= j
    <3>. HIDE DEF I
    <3>. QED
      BY <1>2, <2>0, LeastNumber
  <2>2. i \in DOMAIN b /\ First(i)
    <3>1. i \in 1..Len(b) /\ b[i] \in Hits
      OBVIOUS
    <3>2. ASSUME NEW j \in 1..(i - 1), b[j] \in Hits PROVE FALSE
      <4>1. j \in 1..Len(b) /\ j < i
        BY <1>0, <3>1
      <4>2. j \in I
        BY <3>2, <4>1
      <4>3. i <= j
        BY <2>1, <4>2
      <4>. QED
        BY <3>1, <4>1, <4>3
    <3>. QED
      BY <1>0, <3>1, <3>2
  <2>. DEFINE k == CHOOSE k \in DOMAIN b : First(k)
  <2>3. k \in DOMAIN b /\ First(k)
    BY <2>2, Zenon
  <2>4. FirstHit(b) = <<b[k]>>
    BY <2>2, Zenon DEF FirstHit
  <2>. HIDE DEF k
  <2>. QED
    BY <1>0, <2>3, <2>4
<1>. QED
  BY <1>1, <1>2

-----------------------------------------------------------------------------
(* The invariant.                                                           *)

\* The chain in memory: the cache holds the newest blocks; the latest block and
\* that of every call of add() that waits are in it, or are the next one, and will
\* be so when the others are through.
Near(a, b) == a - b < MaxBlocksInMemory

Growing ==
    /\ Top \in Nat /\ cache = TopOf(Top) /\ Top <= stored
    /\ \A x \in Range(adds) : x <= stored /\ x <= Top + 1 /\ Near(Top, x)
    /\ \A x, y \in Range(adds) : Near(x, y)
    /\ ready => 1 <= height /\ height <= Top /\ Near(Top, height) /\ stored <= Top + 1
    /\ ~ready => height = Top /\ adds = <<>>

StateTypes ==
    /\ ready \in BOOLEAN
    /\ stored \in 1..MaxHeight
    /\ height \in 0..MaxHeight
    /\ adds \in Seq(1..MaxHeight)

AnswerType ==
    answer \in [request : {"none", "blocks", "block", "search", "transaction", "page", "sync"},
                from : Int, to : Int, height : 0..MaxHeight, top : 0..MaxHeight,
                blocks : Seq(1..MaxHeight)]

AnswerRight == AnswerType /\ RangeRight /\ PageRight /\ SearchRight /\ TransactionFound

RangeInv == StateTypes /\ Growing /\ AnswerRight

LEMMA CacheTypes ==
    ASSUME StateTypes, Growing
    PROVE  cache \in Seq(1..MaxHeight) /\ CacheIsTop
<1>. DEFINE l == Smaller(Top, MaxBlocksInMemory)
<1>1. Top \in Nat /\ Top <= MaxHeight /\ MaxHeight \in Nat /\ stored \in Nat /\ height \in Nat
  BY BoundAssumption DEF StateTypes, Growing
<1>2. /\ cache \in Seq(1..Top) /\ Len(cache) = l /\ l \in Nat /\ l <= Top /\ DOMAIN cache = 1..l
      /\ \A i \in 1..l : cache[i] = Top - l + i
  <2>1. cache = TopOf(Top)
    BY DEF Growing
  <2>2. PICK t \in Nat : t = Top
    BY <1>1
  <2>3. /\ TopOf(t) \in Seq(1..t) /\ Len(TopOf(t)) = Smaller(t, MaxBlocksInMemory)
        /\ Smaller(t, MaxBlocksInMemory) \in 0..t
        /\ DOMAIN TopOf(t) = 1..Smaller(t, MaxBlocksInMemory)
        /\ \A i \in 1..Smaller(t, MaxBlocksInMemory) : TopOf(t)[i] = t - Smaller(t, MaxBlocksInMemory) + i
    BY TopTypes
  <2>4. l = Smaller(t, MaxBlocksInMemory)
    BY <2>2
  <2>. HIDE DEF l
  <2>. QED
    BY <2>1, <2>2, <2>3, <2>4
<1>3. ASSUME height # 0 PROVE Contains(cache, height)
  <2>1. height <= Top /\ Top - height < MaxBlocksInMemory
    BY <1>1, SizeAssumption DEF Growing, Near
  <2>2. height - Top + l \in 1..l /\ Top - l + (height - Top + l) = height
    BY <1>1, <1>3, <2>1, SizeAssumption DEF Smaller
  <2>. HIDE DEF l
  <2>3. cache[height - Top + l] = height
    BY <1>2, <2>2
  <2>. QED
    BY <1>2, <2>2, <2>3 DEF Contains
<1>4. ready => stored \in {Top, Top + 1}
  BY <1>1 DEF Growing
<1>. HIDE DEF l
<1>5. CacheIsTop
  BY <1>2, <1>3, <1>4 DEF CacheIsTop, l
<1>6. 1..Top \subseteq 1..MaxHeight
  BY <1>1
<1>7. cache \in Seq(1..MaxHeight)
  BY <1>2, <1>6, Widened
<1>. QED
  BY <1>5, <1>7

-----------------------------------------------------------------------------
(* The steps that change the chain.                                         *)

LEMMA NoAnswerRight ==
    ASSUME answer' = NoAnswer
    PROVE  AnswerRight'
<1>1. /\ answer'.request = "none" /\ NoAnswer \in
           [request : {"none", "blocks", "block", "search", "transaction", "page", "sync"},
            from : Int, to : Int, height : 0..MaxHeight, top : 0..MaxHeight, blocks : Seq(1..MaxHeight)]
  BY BoundAssumption DEF NoAnswer
<1>. QED
  BY <1>1 DEF AnswerRight, AnswerType, RangeRight, PageRight, SearchRight, TransactionFound

LEMMA SameAnswer ==
    ASSUME AnswerRight, UNCHANGED answer
    PROVE  AnswerRight'
BY DEF AnswerRight, AnswerType, RangeRight, PageRight, SearchRight, TransactionFound

LEMMA TopOfNone ==
    TopOf(0) = <<>>
<1>1. Smaller(0, MaxBlocksInMemory) = 0
  BY SizeAssumption DEF Smaller
<1>2. TopOf(0) \in Seq(1..0) /\ Len(TopOf(0)) = 0
  BY <1>1, TopTypes
<1>. QED
  BY <1>2, EmptySeq

LEMMA TopIs ==
    ASSUME NEW t \in Nat, NEW c, c = TopOf(t)
    PROVE  (IF c = <<>> THEN 0 ELSE Last(c)) = t
<1>1. CASE t = 0
  BY <1>1, TopOfNone
<1>2. CASE t # 0
  <2>1. PICK l \in Nat : l = Smaller(t, MaxBlocksInMemory)
    BY TopTypes
  <2>2. l # 0
    BY <1>2, <2>1, SizeAssumption DEF Smaller
  <2>3. /\ c \in Seq(1..t) /\ Len(c) = l /\ \A i \in 1..l : c[i] = t - l + i
    BY <2>1, TopTypes
  <2>4. c # <<>> /\ c[l] = t
    BY <2>2, <2>3, EmptySeq
  <2>. QED
    BY <2>3, <2>4 DEF Last
<1>. QED
  BY <1>1, <1>2

\* The newest block of the cache after a step.
LEMMA NextTop ==
    ASSUME NEW t \in Nat, cache' = TopOf(t)
    PROVE  Top' = t /\ cache' = TopOf(Top')
<1>1. Top' = IF cache' = <<>> THEN 0 ELSE Last(cache')
  BY DEF Top
<1>2. PICK c : c = cache'
  OBVIOUS
<1>. QED
  BY <1>1, <1>2, TopIs

LEMMA StartAddKeeps ==
    ASSUME StateTypes, Growing, StartAdd
    PROVE  StateTypes' /\ Growing'
<1>1. /\ ready /\ height < MaxHeight /\ adds' = Append(adds, height + 1)
      /\ stored' = Larger(stored, height + 1)
      /\ ready' = ready /\ height' = height /\ cache' = cache
  BY DEF StartAdd
<1>2. /\ height \in Nat /\ MaxHeight \in Nat /\ stored \in Nat /\ stored <= MaxHeight /\ 1 <= stored
      /\ Top \in Nat /\ Top <= stored /\ 1 <= height /\ height <= Top /\ stored <= Top + 1
  BY <1>1, BoundAssumption DEF StateTypes, Growing
<1>3. /\ stored' \in 1..MaxHeight /\ stored <= stored' /\ height + 1 <= stored' /\ stored' <= Top + 1
      /\ height + 1 \in 1..MaxHeight
  BY <1>1, <1>2 DEF Larger
<1>4. adds' \in Seq(1..MaxHeight) /\ \A y \in Range(adds') : y \in Range(adds) \/ y = height + 1
  <2>1. adds \in Seq(1..MaxHeight)
    BY DEF StateTypes
  <2>2. PICK x \in 1..MaxHeight : x = height + 1
    BY <1>3
  <2>3. PICK r : r = adds'
    OBVIOUS
  <2>4. r \in Seq(1..MaxHeight)
    BY <1>1, <2>1, <2>2, <2>3, AppendProperties
  <2>5. PICK S : adds \in Seq(S) /\ x \in S
    BY <2>1
  <2>6. PICK u \in Seq(S) : u = adds
    BY <2>5
  <2>7. r = Append(u, x)
    BY <1>1, <2>2, <2>3, <2>6
  <2>8. \A y \in Range(r) : y \in Range(u) \/ y = x
    BY <2>5, <2>7, AppendRange
  <2>. QED
    BY <2>2, <2>3, <2>4, <2>6, <2>8
<1>5. Range(adds) \subseteq Nat /\ \A x \in Range(adds) : Near(height + 1, x)
  <2>1. \A i \in DOMAIN adds : adds[i] \in 1..MaxHeight
    BY LenProperties, ElementOfSeq DEF StateTypes
  <2>2. KeepsUp(height + 1)
    BY DEF StartAdd
  <2>3. ASSUME NEW x \in Range(adds) PROVE x \in Nat /\ Near(height + 1, x)
    <3>1. PICK i \in DOMAIN adds : x = adds[i]
      BY DEF Range
    <3>2. (height + 1) - adds[i] < MaxBlocksInMemory
      BY <2>2 DEF KeepsUp
    <3>. QED
      BY <2>1, <3>1, <3>2 DEF Near
  <2>. QED
    BY <2>3
<1>6. \A x \in Range(adds) : x <= stored /\ x <= Top + 1 /\ Near(Top, x)
  BY DEF Growing
<1>7. \A x, y \in Range(adds) : Near(x, y)
  BY DEF Growing
<1>8. Near(Top, height) /\ MaxBlocksInMemory \in Nat \ {0}
  BY <1>1, SizeAssumption DEF Growing
<1>9. Top' = Top
  BY <1>1 DEF Top
<1>10. \A x \in Range(adds') : x <= stored' /\ x <= Top + 1 /\ Near(Top, x)
  <2>1. ASSUME NEW x \in Range(adds) PROVE x <= stored'
    BY <1>2, <1>3, <1>5, <1>6
  <2>2. height + 1 <= stored' /\ height + 1 <= Top + 1 /\ Near(Top, height + 1)
    BY <1>2, <1>3, <1>8 DEF Near
  <2>. QED
    BY <1>4, <1>6, <2>1, <2>2
<1>11. \A x, y \in Range(adds') : Near(x, y)
  <2>1. ASSUME NEW x \in Range(adds) PROVE Near(x, height + 1)
    <3>1. x \in Nat /\ x <= Top + 1
      BY <1>5, <1>6
    <3>. QED
      BY <1>2, <1>8, <3>1 DEF Near
  <2>2. Near(height + 1, height + 1)
    BY <1>2, <1>8 DEF Near
  <2>. QED
    BY <1>4, <1>5, <1>7, <2>1, <2>2
<1>12. StateTypes'
  BY <1>1, <1>3, <1>4 DEF StateTypes
<1>13. cache' = TopOf(Top')
  BY <1>1, <1>9 DEF Growing
<1>14. Top' \in Nat /\ Top' <= stored'
  BY <1>2, <1>3, <1>9
<1>15. \A x \in Range(adds)' : x <= stored' /\ x <= Top' + 1 /\ Near(Top', x)
  BY <1>9, <1>10
<1>16. \A x, y \in Range(adds)' : Near(x, y)
  BY <1>11
<1>17. ready' /\ 1 <= height' /\ height' <= Top' /\ Near(Top', height') /\ stored' <= Top' + 1
  BY <1>1, <1>2, <1>3, <1>8, <1>9
<1>. QED
  BY <1>12, <1>13, <1>14, <1>15, <1>16, <1>17 DEF Growing, Near

LEMMA FinishAddKeeps ==
    ASSUME StateTypes, Growing, NEW i \in DOMAIN adds, FinishAdd(i)
    PROVE  StateTypes' /\ Growing'
<1>1. /\ height' = adds[i] /\ cache' = UpdatedCache(adds[i])
      /\ adds' = RemoveAt(adds, i) /\ ready' = ready /\ stored' = stored
  BY DEF FinishAdd
<1>2. adds \in Seq(1..MaxHeight) /\ Len(adds) \in Nat /\ DOMAIN adds = 1..Len(adds)
  BY LenProperties DEF StateTypes
<1>3. ready
  <2>1. adds # <<>>
    BY <1>2
  <2>. QED
    BY <2>1 DEF Growing
<1>4. /\ height \in Nat /\ MaxHeight \in Nat /\ stored \in Nat /\ stored <= MaxHeight /\ 1 <= stored
      /\ Top \in Nat /\ Top <= stored /\ stored <= Top + 1 /\ MaxBlocksInMemory \in Nat \ {0}
  BY <1>3, BoundAssumption, SizeAssumption DEF StateTypes, Growing
<1>5. adds' \in Seq(1..MaxHeight) /\ Range(adds') \subseteq Range(adds)
  BY <1>1, <1>2, RemoveRange
<1>6. PICK h \in 1..MaxHeight : h = adds[i]
  BY <1>2, ElementOfSeq
<1>7. h \in Range(adds) /\ Range(adds) \subseteq Nat
  <2>1. \A j \in DOMAIN adds : adds[j] \in 1..MaxHeight
    BY <1>2, ElementOfSeq
  <2>. QED
    BY <1>6, <2>1 DEF Range
<1>8. h <= stored /\ h <= Top + 1 /\ Near(Top, h)
  BY <1>7 DEF Growing
<1>9. PICK t \in Nat : t = IF h = Top + 1 THEN Top + 1 ELSE Top
  BY <1>4
<1>10. cache' = TopOf(t)
  <2>1. PICK u \in Nat : u = Top
    BY <1>4
  <2>2. cache = TopOf(u)
    BY <2>1 DEF Growing
  <2>3. /\ UpdatedCache(u + 1) = TopOf(u + 1)
        /\ \A x \in 1..u : u - x < MaxBlocksInMemory => UpdatedCache(x) = TopOf(u)
    BY <2>2, CacheStep
  <2>4. CASE h = u + 1
    BY <1>1, <1>6, <1>9, <2>1, <2>3, <2>4
  <2>5. CASE h # u + 1
    <3>1. h \in 1..u /\ u - h < MaxBlocksInMemory
      BY <1>6, <1>8, <2>1, <2>5 DEF Near
    <3>2. t = u
      BY <1>9, <2>1, <2>5
    <3>. QED
      BY <1>1, <1>6, <2>3, <3>1, <3>2
  <2>. QED
    BY <2>4, <2>5
<1>11. Top' = t /\ cache' = TopOf(Top')
  BY <1>10, NextTop
<1>12. \A x \in Range(adds) : x <= stored /\ x <= Top + 1 /\ Near(Top, x) /\ Near(h, x)
  BY <1>7 DEF Growing
<1>13. ASSUME NEW x \in Range(adds) PROVE x <= stored /\ x <= t + 1 /\ Near(t, x)
  <2>1. x \in Nat /\ x <= stored /\ x <= Top + 1 /\ Near(Top, x) /\ Near(h, x)
    BY <1>7, <1>12
  <2>2. CASE h = Top + 1
    BY <1>4, <1>9, <2>1, <2>2
  <2>3. CASE h # Top + 1
    BY <1>4, <1>9, <2>1, <2>3
  <2>. QED
    BY <2>2, <2>3
<1>14. t <= stored /\ stored <= t + 1 /\ h <= t /\ Near(t, h)
  <2>1. CASE h = Top + 1
    BY <1>4, <1>6, <1>8, <1>9, <2>1 DEF Near
  <2>2. CASE h # Top + 1
    BY <1>4, <1>6, <1>8, <1>9, <2>2
  <2>. QED
    BY <2>1, <2>2
<1>15. StateTypes'
  <2>1. height' \in 0..MaxHeight
    BY <1>1, <1>4, <1>6
  <2>2. ready' \in BOOLEAN /\ stored' \in 1..MaxHeight
    BY <1>1 DEF StateTypes
  <2>. QED
    BY <1>5, <2>1, <2>2 DEF StateTypes
<1>16. \A x \in Range(adds)' : x <= stored' /\ x <= Top' + 1 /\ Near(Top', x)
  BY <1>1, <1>5, <1>11, <1>13
<1>17. \A x, y \in Range(adds)' : Near(x, y)
  BY <1>5 DEF Growing
<1>18. ready' /\ 1 <= height' /\ height' <= Top' /\ Near(Top', height') /\ stored' <= Top' + 1
  BY <1>1, <1>3, <1>6, <1>11, <1>14
<1>. QED
  BY <1>1, <1>11, <1>14, <1>15, <1>16, <1>17, <1>18 DEF Growing, Near

LEMMA RestartKeeps ==
    ASSUME StateTypes, Growing, Restart
    PROVE  StateTypes' /\ Growing'
<1>1. /\ ready' = FALSE /\ height' = 0 /\ cache' = <<>> /\ adds' = <<>>
      /\ stored' \in Larger(1, Top)..stored
  BY DEF Restart
<1>2. stored \in 1..MaxHeight /\ Top \in Nat /\ MaxHeight \in Nat
  BY BoundAssumption DEF StateTypes, Growing
<1>3. stored' \in 1..MaxHeight
  BY <1>1, <1>2 DEF Larger
<1>4. StateTypes'
  <2>1. <<>> \in Seq(1..MaxHeight) /\ 0 \in 0..MaxHeight /\ FALSE \in BOOLEAN
    BY <1>2
  <2>. QED
    BY <1>1, <1>3, <2>1 DEF StateTypes
<1>5. Top' = 0 /\ cache' = TopOf(Top')
  <2>1. 0 \in Nat /\ cache' = TopOf(0)
    BY <1>1, TopOfNone
  <2>. QED
    BY <2>1, NextTop
<1>6. 0 <= stored'
  BY <1>3
<1>7. Range(adds)' = {}
  BY <1>1 DEF Range
<1>. QED
  BY <1>1, <1>4, <1>5, <1>6, <1>7 DEF Growing, Near

LEMMA LoadBlockKeeps ==
    ASSUME StateTypes, Growing, LoadBlock
    PROVE  StateTypes' /\ Growing'
<1>1. /\ ~ready /\ height < stored /\ height' = height + 1 /\ cache' = UpdatedCache(height + 1)
      /\ ready' = ready /\ stored' = stored /\ adds' = adds
  BY DEF LoadBlock
<1>2. height \in Nat /\ stored \in 1..MaxHeight /\ MaxHeight \in Nat /\ adds = <<>> /\ height = Top
  BY <1>1, BoundAssumption DEF StateTypes, Growing
<1>3. Top' = height + 1 /\ cache' = TopOf(Top')
  <2>1. cache = TopOf(height)
    BY <1>2 DEF Growing
  <2>2. cache' = TopOf(height + 1)
    BY <1>1, <1>2, <2>1, CacheStep
  <2>3. height + 1 \in Nat
    BY <1>2
  <2>. QED
    BY <2>2, <2>3, NextTop
<1>4. StateTypes'
  <2>1. height' \in 0..MaxHeight /\ stored' \in 1..MaxHeight
    BY <1>1, <1>2
  <2>2. ready' \in BOOLEAN /\ adds' \in Seq(1..MaxHeight)
    BY <1>1 DEF StateTypes
  <2>. QED
    BY <2>1, <2>2 DEF StateTypes
<1>5. Range(adds)' = {} /\ Top' \in Nat /\ Top' <= stored'
  BY <1>1, <1>2, <1>3 DEF Range
<1>. QED
  BY <1>1, <1>2, <1>3, <1>4, <1>5 DEF Growing, Near

LEMMA ListenKeeps ==
    ASSUME StateTypes, Growing, Listen
    PROVE  StateTypes' /\ Growing'
<1>1. /\ ~ready /\ height = stored /\ ready' = TRUE
      /\ stored' = stored /\ height' = height /\ cache' = cache /\ adds' = adds
  BY DEF Listen
<1>2. stored \in 1..MaxHeight /\ MaxHeight \in Nat /\ adds = <<>> /\ height = Top
      /\ MaxBlocksInMemory \in Nat \ {0}
  BY <1>1, BoundAssumption, SizeAssumption DEF StateTypes, Growing
<1>3. StateTypes'
  BY <1>1, <1>2 DEF StateTypes
<1>4. Top' = Top /\ cache' = TopOf(Top')
  BY <1>1 DEF Growing, Top
<1>5. /\ Range(adds)' = {} /\ Top' \in Nat /\ Top' <= stored'
      /\ 1 <= height' /\ height' <= Top' /\ Top' - height' < MaxBlocksInMemory /\ stored' <= Top' + 1
  BY <1>1, <1>2, <1>4 DEF Range
<1>. QED
  BY <1>1, <1>3, <1>4, <1>5 DEF Growing, Near

-----------------------------------------------------------------------------
(* The answers.                                                             *)


LEMMA SameChain ==
    ASSUME StateTypes, Growing, UNCHANGED <<ready, stored, height, cache, adds>>
    PROVE  StateTypes' /\ Growing'
<1>1. StateTypes'
  BY DEF StateTypes
<1>2. Top' = Top
  BY DEF Top
<1>3. Growing'
  BY <1>2 DEF Growing, Near
<1>. QED
  BY <1>1, <1>3

LEMMA AnswerFields ==
    ASSUME StateTypes, Growing, NEW b \in Seq(1..MaxHeight), NEW f \in Int, NEW t \in Int,
           NEW r \in {"blocks", "block", "search", "transaction", "page", "sync"},
           answer' = [request |-> r, from |-> f, to |-> t, height |-> height, top |-> Top, blocks |-> b]
    PROVE  /\ answer'.request = r /\ answer'.from = f /\ answer'.to = t
           /\ answer'.height = height /\ answer'.top = Top /\ answer'.blocks = b
           /\ DOMAIN b = 1..Len(b) /\ Len(b) \in Nat
           /\ AnswerType'
<1>1. height \in 0..MaxHeight /\ Top \in 0..MaxHeight
  BY BoundAssumption DEF StateTypes, Growing
<1>2. DOMAIN b = 1..Len(b) /\ Len(b) \in Nat
  OBVIOUS
<1>3. PICK u \in 0..MaxHeight : u = Top
  BY <1>1
<1>4. answer' \in [request : {"none", "blocks", "block", "search", "transaction", "page", "sync"},
                   from : Int, to : Int, height : 0..MaxHeight, top : 0..MaxHeight,
                   blocks : Seq(1..MaxHeight)]
  BY <1>1, <1>3
<1>5. AnswerType'
  BY <1>4 DEF AnswerType
<1>. QED
  BY <1>2, <1>5

LEMMA RangeAnswer ==
    ASSUME StateTypes, Growing, ready, NEW gte \in Int, NEW lte \in Int
    PROVE  \E b \in Seq(1..MaxHeight), first \in 1..height, last \in 1..height :
              /\ GetRange(gte, lte) = b
              /\ first = FirstOf(gte, lte, height) /\ last = LastOf(gte, lte, height)
              /\ first <= last /\ last - first < MaxQuerySize
              /\ Len(b) <= last - first + 1
              /\ \A i \in 1..Len(b) : b[i] = b[1] + i - 1
              /\ height = Top => /\ Len(b) = last - first + 1
                                 /\ \A i \in 1..Len(b) : b[i] = first + i - 1
<1>1. PICK t \in Nat : t = Top
  BY DEF Growing
<1>2. height \in 1..t /\ t <= MaxHeight /\ MaxHeight \in Nat /\ cache = TopOf(t)
  BY <1>1, BoundAssumption DEF StateTypes, Growing
<1>3. PICK b \in Seq(1..t), first \in 1..height, last \in 1..height :
              /\ GetRange(gte, lte) = b
              /\ first = FirstOf(gte, lte, height) /\ last = LastOf(gte, lte, height)
              /\ first <= last /\ last - first < MaxQuerySize
              /\ Len(b) <= last - first + 1
              /\ \A i \in 1..Len(b) : b[i] = b[1] + i - 1
              /\ height = t => /\ Len(b) = last - first + 1
                               /\ \A i \in 1..Len(b) : b[i] = first + i - 1
  BY <1>2, RangeIsCut
<1>4. 1..t \subseteq 1..MaxHeight
  BY <1>2
<1>5. b \in Seq(1..MaxHeight)
  BY <1>4, Widened
<1>. QED
  BY <1>1, <1>3, <1>5

\* What RangeRight says of an answer.
IsRange(blocks, from, to, h, top) ==
    /\ Len(blocks) <= MaxQuerySize
    /\ \A i \in DOMAIN blocks : blocks[i] = blocks[1] + i - 1
    /\ h = top /\ to >= 0 =>
          LET last == IF to = 0 THEN h ELSE Smaller(to, h)
              wanted == last - Larger(1, from) + 1
          IN  /\ Len(blocks) = Larger(1, Smaller(wanted, MaxQuerySize))
              /\ blocks[Len(blocks)] = last

LEMMA RangeIsRight ==
    ASSUME StateTypes, Growing, ready, NEW from \in Int, NEW to \in Int
    PROVE  /\ GetRange(from, to) \in Seq(1..MaxHeight)
           /\ IsRange(GetRange(from, to), from, to, height, Top)
<1>1. PICK b \in Seq(1..MaxHeight), first \in 1..height, last \in 1..height :
              /\ GetRange(from, to) = b
              /\ first = FirstOf(from, to, height) /\ last = LastOf(from, to, height)
              /\ first <= last /\ last - first < MaxQuerySize
              /\ Len(b) <= last - first + 1
              /\ \A i \in 1..Len(b) : b[i] = b[1] + i - 1
              /\ height = Top => /\ Len(b) = last - first + 1
                                 /\ \A i \in 1..Len(b) : b[i] = first + i - 1
  BY RangeAnswer
<1>2. height \in Nat /\ 1 <= height /\ MaxQuerySize \in Nat \ {0} /\ Len(b) \in Nat /\ DOMAIN b = 1..Len(b)
  BY SizeAssumption, LenProperties DEF StateTypes, Growing
<1>3. Len(b) <= MaxQuerySize
  BY <1>1, <1>2
<1>4. ASSUME height = Top, to >= 0
      PROVE  LET end == IF to = 0 THEN height ELSE Smaller(to, height)
                 wanted == end - Larger(1, from) + 1
             IN  /\ Len(b) = Larger(1, Smaller(wanted, MaxQuerySize))
                 /\ b[Len(b)] = end
  <2>1. PICK end \in Nat : end = IF to = 0 THEN height ELSE Smaller(to, height)
    BY <1>2, <1>4 DEF Smaller
  <2>2. PICK low \in Nat : low = Larger(1, from)
    BY DEF Larger
  <2>3. last = end /\ 1 <= end /\ end <= height
    BY <1>1, <1>2, <1>4, <2>1 DEF LastOf, Smaller
  <2>4. StartOf(from, height) = Smaller(low, height)
    <3>1. Larger(from, 1) = low
      BY <2>2 DEF Larger
    <3>. QED
      BY <3>1 DEF StartOf
  <2>5. first = Larger(Smaller(low, end), end - MaxQuerySize + 1)
    <3>1. first = Larger(Smaller(Smaller(low, height), last), last - MaxQuerySize + 1)
      BY <1>1, <2>4 DEF FirstOf
    <3>2. Smaller(Smaller(low, height), last) = Smaller(low, end)
      BY <1>2, <2>2, <2>3 DEF Smaller
    <3>. QED
      BY <2>3, <3>1, <3>2
  <2>6. Len(b) = last - first + 1 /\ Len(b) \in 1..Len(b) /\ b[Len(b)] = first + Len(b) - 1
    BY <1>1, <1>2, <1>4
  <2>7. b[Len(b)] = end
    BY <2>3, <2>6
  <2>8. 1 <= low
    BY <2>2 DEF Larger
  <2>9. Len(b) = Larger(1, Smaller(end - low + 1, MaxQuerySize))
    BY <1>2, <2>2, <2>3, <2>5, <2>6, <2>8 DEF Larger, Smaller
  <2>. QED
    BY <2>1, <2>2, <2>7, <2>9
<1>5. IsRange(b, from, to, height, Top)
  BY <1>1, <1>2, <1>3, <1>4 DEF IsRange
<1>. QED
  BY <1>1, <1>5

LEMMA RangeAnswerRight ==
    ASSUME StateTypes, Growing, NEW b \in Seq(1..MaxHeight), NEW f \in Int, NEW t \in Int,
           NEW r \in {"blocks", "block", "sync"}, IsRange(b, f, t, height, Top),
           answer' = [request |-> r, from |-> f, to |-> t, height |-> height, top |-> Top, blocks |-> b]
    PROVE  AnswerRight'
<1>1. r \in {"blocks", "block", "search", "transaction", "page", "sync"}
  OBVIOUS
<1>2. /\ answer'.request = r /\ answer'.from = f /\ answer'.to = t
      /\ answer'.height = height /\ answer'.top = Top /\ answer'.blocks = b
      /\ AnswerType'
  BY <1>1, AnswerFields
<1>3. RangeRight'
  BY <1>2 DEF RangeRight, IsRange
<1>. QED
  BY <1>2, <1>3 DEF AnswerRight, PageRight, SearchRight, TransactionFound

\* GET /blocks and GET /block.
LEMMA BlocksRight ==
    ASSUME StateTypes, Growing, NEW from \in Int, NEW to \in Int, Blocks(from, to)
    PROVE  AnswerRight'
<1>1. PICK b : b = GetRange(from, to)
  OBVIOUS
<1>2. /\ ready
      /\ answer' = [request |-> "blocks", from |-> from, to |-> to, height |-> height, top |-> Top,
                    blocks |-> b]
  BY <1>1 DEF Blocks, Answered
<1>3. b \in Seq(1..MaxHeight) /\ IsRange(b, from, to, height, Top)
  BY <1>1, <1>2, RangeIsRight
<1>4. PICK r \in {"blocks", "block", "sync"} : r = "blocks"
  OBVIOUS
<1>5. answer' = [request |-> r, from |-> from, to |-> to, height |-> height, top |-> Top, blocks |-> b]
  BY <1>2, <1>4
<1>. QED
  BY <1>3, <1>5, RangeAnswerRight

LEMMA OneBlockRight ==
    ASSUME StateTypes, Growing, NEW h \in Int, OneBlock(h)
    PROVE  AnswerRight'
<1>1. /\ h \in 1..height /\ ready
      /\ answer' = [request |-> "block", from |-> h, to |-> h, height |-> height, top |-> Top,
                    blocks |-> GetRange(h, -1)]
  BY DEF OneBlock, Answered
<1>2. PICK b \in Seq(1..MaxHeight), first \in 1..height, last \in 1..height :
              /\ GetRange(h, -1) = b
              /\ first = FirstOf(h, -1, height) /\ last = LastOf(h, -1, height)
              /\ first <= last /\ last - first < MaxQuerySize
              /\ Len(b) <= last - first + 1
              /\ \A i \in 1..Len(b) : b[i] = b[1] + i - 1
              /\ height = Top => /\ Len(b) = last - first + 1
                                 /\ \A i \in 1..Len(b) : b[i] = first + i - 1
  <2>1. -1 \in Int
    OBVIOUS
  <2>. QED
    BY <1>1, <2>1, RangeAnswer
<1>3. height \in Nat /\ 1 <= height /\ MaxQuerySize \in Nat \ {0} /\ Len(b) \in Nat /\ DOMAIN b = 1..Len(b)
  BY <1>1, SizeAssumption, LenProperties DEF StateTypes, Growing
<1>4. StartOf(h, height) = h
  BY <1>1, <1>3 DEF StartOf, Smaller, Larger
<1>5. last = h /\ first = h
  BY <1>1, <1>2, <1>3, <1>4 DEF LastOf, FirstOf, Smaller, Larger
<1>6. Len(b) <= MaxQuerySize
  BY <1>2, <1>3
<1>7. ASSUME height = Top PROVE Len(b) = 1 /\ b[1] = h
  <2>1. Len(b) = 1
    <3>1. Len(b) = last - first + 1
      BY <1>2, <1>7
    <3>2. h - h + 1 = 1
      BY <1>1, <1>3
    <3>. QED
      BY <1>5, <3>1, <3>2
  <2>2. 1 \in 1..Len(b) /\ b[1] = first + 1 - 1
    BY <1>2, <1>7, <2>1
  <2>. QED
    BY <1>1, <1>5, <2>1, <2>2
<1>8. h # 0 /\ Smaller(h, height) = h /\ Larger(1, h) = h /\ h - h + 1 = 1
      /\ Larger(1, Smaller(1, MaxQuerySize)) = 1
  BY <1>1, <1>3 DEF Smaller, Larger
<1>9. IsRange(b, h, h, height, Top)
  BY <1>2, <1>3, <1>6, <1>7, <1>8 DEF IsRange
<1>10. PICK r \in {"blocks", "block", "sync"} : r = "block"
  OBVIOUS
<1>11. answer' = [request |-> r, from |-> h, to |-> h, height |-> height, top |-> Top, blocks |-> b]
  BY <1>1, <1>2, <1>10
<1>. QED
  BY <1>9, <1>11, RangeAnswerRight

\* GET /blocks/page.
LEMMA PageAnswerRight ==
    ASSUME StateTypes, Growing, NEW page \in Int, NEW size \in Int, Page(page, size)
    PROVE  AnswerRight'
<1>. DEFINE z == PageSize(size)
            p == Larger(1, page)
<1>1. /\ ready
      /\ answer' = [request |-> "page", from |-> page, to |-> size, height |-> height, top |-> Top,
                    blocks |-> GetPage(page, size)]
  BY DEF Page, Answered
<1>2. height \in Nat /\ 1 <= height /\ MaxQuerySize \in Nat \ {0}
  BY <1>1, SizeAssumption DEF StateTypes, Growing
<1>3. z \in 1..MaxQuerySize /\ p \in Nat /\ 1 <= p
  BY <1>2 DEF PageSize, Larger
<1>4. PICK m \in Int : m = p * z
  BY <1>3
<1>5. m >= z /\ (p - 1) * z = m - z
  <2>. HIDE DEF z, p
  <2>. QED
    BY <1>3, <1>4
<1>6. PICK start \in Int : start = Larger(1, height - m + 1) /\ start = PageStart(page, size)
  <2>1. PageStart(page, size) = Larger(1, height - m + 1)
    BY <1>4 DEF PageStart
  <2>2. Larger(1, height - m + 1) \in Int
    BY <1>2 DEF Larger
  <2>. QED
    BY <2>1, <2>2
<1>. HIDE DEF z, p
<1>7. start \in 1..height /\ start >= height - m + 1
  BY <1>2, <1>3, <1>5, <1>6 DEF Larger
<1>8. PICK end \in Int : end = start + z - 1
  BY <1>3
<1>9. GetPage(page, size) = GetRange(start, end)
  BY <1>6, <1>8 DEF GetPage, z
<1>10. PICK b \in Seq(1..MaxHeight), first \in 1..height, last \in 1..height :
              /\ GetRange(start, end) = b
              /\ first = FirstOf(start, end, height) /\ last = LastOf(start, end, height)
              /\ first <= last /\ last - first < MaxQuerySize
              /\ Len(b) <= last - first + 1
              /\ \A i \in 1..Len(b) : b[i] = b[1] + i - 1
              /\ height = Top => /\ Len(b) = last - first + 1
                                 /\ \A i \in 1..Len(b) : b[i] = first + i - 1
  BY <1>1, RangeAnswer
<1>11. /\ answer'.request = "page" /\ answer'.from = page /\ answer'.to = size
       /\ answer'.height = height /\ answer'.top = Top /\ answer'.blocks = b
       /\ DOMAIN b = 1..Len(b) /\ Len(b) \in Nat
       /\ AnswerType'
  BY <1>1, <1>9, <1>10, AnswerFields
<1>12. StartOf(start, height) = start
  BY <1>2, <1>7 DEF StartOf, Smaller, Larger
<1>13. last = Smaller(end, height) /\ last >= start
  BY <1>2, <1>3, <1>7, <1>8, <1>10, <1>12 DEF LastOf, Smaller
<1>14. first = start
  <2>1. last - MaxQuerySize + 1 <= start
    BY <1>2, <1>3, <1>7, <1>8, <1>13 DEF Smaller
  <2>. QED
    BY <1>2, <1>7, <1>10, <1>12, <1>13, <2>1 DEF FirstOf, Smaller, Larger
<1>15. Len(b) <= z
  <2>1. Len(b) <= last - start + 1 /\ last <= end
    BY <1>2, <1>8, <1>10, <1>13, <1>14 DEF Smaller
  <2>2. Len(b) \in Nat
    BY LenProperties
  <2>. QED
    BY <1>3, <1>7, <1>8, <1>10, <2>1, <2>2
<1>16. ASSUME height = Top, NEW h \in 1..height, height - m < h, h <= height - (m - z)
       PROVE  \E i \in 1..Len(b) : b[i] = h
  <2>1. start <= h /\ h <= end
    BY <1>2, <1>3, <1>6, <1>8, <1>16 DEF Larger
  <2>2. h <= last
    BY <1>13, <1>16, <2>1 DEF Smaller
  <2>3. h - start + 1 \in 1..Len(b) /\ start + (h - start + 1) - 1 = h
    BY <1>7, <1>10, <1>14, <1>16, <2>1, <2>2
  <2>. QED
    BY <1>10, <1>14, <1>16, <2>3
<1>17. PageRight'
  <2>1. ASSUME height = Top, NEW h \in 1..height, height - p * z < h, h <= height - (p - 1) * z
        PROVE  \E i \in DOMAIN b : b[i] = h
    BY <1>4, <1>5, <1>11, <1>16, <2>1
  <2>. QED
    BY <1>11, <1>15, <2>1 DEF PageRight, z, p
<1>. QED
  BY <1>11, <1>17 DEF AnswerRight, RangeRight, SearchRight, TransactionFound

\* GET /blocks/search.
LEMMA SearchAnswerRight ==
    ASSUME StateTypes, Growing, Search
    PROVE  AnswerRight'
<1>1. /\ ready
      /\ answer' = [request |-> "search", from |-> 1, to |-> 0, height |-> height, top |-> Top,
                    blocks |-> SearchBlocks]
  BY DEF Search, Answered
<1>2. /\ height \in Nat /\ 1 <= height /\ stored \in 0..MaxHeight /\ 1 <= stored /\ MaxHeight \in Nat
      /\ Top \in Nat /\ Top <= stored /\ stored <= Top + 1
      /\ MaxQuerySize \in Nat \ {0} /\ Hits \subseteq Nat
  BY <1>1, SizeAssumption, BoundAssumption DEF StateTypes, Growing
<1>3. PICK first \in Nat \ {0} : first = Larger(1, stored - MaxQuerySize + 1)
  <2>1. Larger(1, stored - MaxQuerySize + 1) \in Nat \ {0}
    BY <1>2 DEF Larger
  <2>. QED
    BY <2>1
<1>4. PICK b : b = SearchBlocks
  OBVIOUS
<1>5. IsFound(b, first, stored)
  <2>1. SearchBlocks = FoundIn(first, stored)
    BY <1>3 DEF SearchBlocks
  <2>. QED
    BY <1>2, <1>4, <2>1, FoundRight
<1>6. /\ b \in Seq(Nat) /\ Len(b) \in Nat
      /\ \A i \in 1..Len(b) : b[i] \in Nat /\ b[i] \in Hits /\ first <= b[i] /\ b[i] <= stored
      /\ \A i, j \in 1..Len(b) : i < j => b[i] < b[j]
      /\ \A h \in Hits : first <= h /\ h <= stored => \E i \in 1..Len(b) : b[i] = h
      /\ Len(b) <= Larger(0, stored + 1 - first)
  BY <1>5 DEF IsFound
<1>7. b \in Seq(1..MaxHeight)
  <2>1. \A i \in 1..Len(b) : b[i] \in 1..MaxHeight
    BY <1>2, <1>6
  <2>2. b = [i \in 1..Len(b) |-> b[i]]
    BY <1>6
  <2>3. b \in [1..Len(b) -> 1..MaxHeight]
    BY <2>1, <2>2
  <2>4. Len(b) \in Nat
    BY <1>6
  <2>. QED
    BY <2>3, <2>4, SeqDef, Zenon
<1>8. /\ answer'.request = "search" /\ answer'.from = 1 /\ answer'.to = 0
      /\ answer'.height = height /\ answer'.top = Top /\ answer'.blocks = b
      /\ DOMAIN b = 1..Len(b) /\ Len(b) \in Nat
      /\ AnswerType'
  <2>1. answer' = [request |-> "search", from |-> 1, to |-> 0, height |-> height, top |-> Top, blocks |-> b]
    BY <1>1, <1>4
  <2>2. 1 \in Int /\ 0 \in Int
    OBVIOUS
  <2>. QED
    BY <1>7, <2>1, <2>2, AnswerFields
<1>9. Len(b) <= MaxQuerySize
  BY <1>2, <1>3, <1>6 DEF Larger
<1>10. \A i \in DOMAIN b : b[i] \in Hits /\ b[i] <= Top + 1
  BY <1>2, <1>6, <1>8
<1>11. ASSUME NEW h \in Hits \cap (1..Top), h > Top - MaxQuerySize + 1
       PROVE  Contains(b, h)
  <2>1. first <= h /\ h <= stored
    BY <1>2, <1>3, <1>11 DEF Larger
  <2>2. \E i \in 1..Len(b) : b[i] = h
    BY <1>6, <2>1
  <2>. QED
    BY <1>8, <2>2 DEF Contains
<1>12. SearchRight'
  <2>1. \A i, j \in DOMAIN b : i < j => b[i] < b[j]
    BY <1>6, <1>8
  <2>. QED
    BY <1>8, <1>9, <1>10, <1>11, <2>1 DEF SearchRight
<1>. QED
  BY <1>8, <1>12 DEF AnswerRight, RangeRight, PageRight, TransactionFound

\* GET /transaction.
LEMMA TransactionAnswerRight ==
    ASSUME StateTypes, Growing, Transaction
    PROVE  AnswerRight'
<1>. DEFINE s == cache \o FromStore(1, stored)
            l == Len(cache)
<1>1. /\ ready
      /\ answer' = [request |-> "transaction", from |-> 1, to |-> 0, height |-> height, top |-> Top,
                    blocks |-> FirstHit(s)]
  BY DEF Transaction, Answered, GetTransaction
<1>0. PICK top \in Nat : top = Top
  BY DEF Growing
<1>2. /\ height \in Nat /\ 1 <= height /\ stored \in Nat /\ stored <= MaxHeight /\ MaxHeight \in Nat
      /\ top \in Nat /\ top <= stored /\ stored <= top + 1 /\ cache = TopOf(top)
  BY <1>0, <1>1, BoundAssumption DEF StateTypes, Growing
<1>3. cache \in Seq(1..top) /\ l \in Nat /\ \A i \in 1..l : cache[i] \in 1..top
  <2>1. cache \in Seq(1..top)
    BY <1>2, TopTypes
  <2>2. \A i \in 1..Len(cache) : cache[i] \in 1..top
    BY <2>1, ElementOfSeq
  <2>. QED
    BY <2>1, <2>2, LenProperties
<1>4. /\ FromStore(1, stored) \in Seq(1..stored) /\ Len(FromStore(1, stored)) = stored
      /\ \A i \in 1..stored : FromStore(1, stored)[i] = i
  <2>1. 1 \in Nat \ {0} /\ 1 <= stored + 1 /\ stored - 1 + 1 = stored
    BY <1>2
  <2>2. \A i \in 1..stored : 1 + i - 1 = i
    BY <1>2
  <2>. QED
    BY <1>2, <2>1, <2>2, StoreTypes
<1>. DEFINE f == FromStore(1, stored)
<1>5. /\ s \in Seq(Nat) /\ Len(s) = l + stored
      /\ \A i \in 1..(l + stored) : s[i] = IF i <= l THEN cache[i] ELSE f[i - l]
  <2>1. 1..top \subseteq Nat /\ 1..stored \subseteq Nat
    OBVIOUS
  <2>2. cache \in Seq(Nat) /\ f \in Seq(Nat)
    BY <1>3, <1>4, <2>1, Widened
  <2>. HIDE DEF f
  <2>. QED
    BY <1>4, <2>2, ConcatProperties DEF f
<1>. HIDE DEF s, f
<1>6. \A i \in 1..(l + stored) : \/ s[i] \in 1..top /\ i <= l
                                 \/ s[i] = i - l /\ i - l \in 1..stored
  <2>1. ASSUME NEW i \in 1..(l + stored), ~(i <= l) PROVE s[i] = i - l /\ i - l \in 1..stored
    <3>1. i - l \in 1..stored
      BY <1>2, <1>3, <2>1
    <3>. QED
      BY <1>4, <1>5, <2>1, <3>1 DEF f
  <2>2. ASSUME NEW i \in 1..(l + stored), i <= l PROVE s[i] \in 1..top
    <3>1. i \in 1..l
      BY <1>3, <2>2
    <3>. QED
      BY <1>3, <1>5, <2>2, <3>1
  <2>. QED
    BY <2>1, <2>2
<1>7. ASSUME NEW h \in 1..stored PROVE l + h \in 1..(l + stored) /\ s[l + h] = h
  <2>1. l + h \in 1..(l + stored) /\ ~(l + h <= l) /\ (l + h) - l = h
    BY <1>2, <1>3
  <2>. QED
    BY <1>4, <1>5, <2>1 DEF f
<1>8. PICK t : t = s
  OBVIOUS
<1>9. \/ FirstHit(t) = <<>> /\ \A i \in 1..Len(t) : t[i] \notin Hits
      \/ \E i \in 1..Len(t) : /\ FirstHit(t) = <<t[i]>> /\ t[i] \in Hits
                              /\ \A j \in 1..(i - 1) : t[j] \notin Hits
  BY <1>5, <1>8, FirstHitRight
<1>. HIDE DEF l
<1>10. CASE FirstHit(t) = <<>> /\ \A i \in 1..Len(t) : t[i] \notin Hits
  <2>1. Hits \cap (1..top) = {}
    <3>1. ASSUME NEW h \in Hits, h \in 1..top PROVE FALSE
      <4>1. h \in 1..stored
        BY <1>2, <3>1
      <4>. QED
        BY <1>5, <1>7, <1>8, <1>10, <3>1, <4>1
    <3>. QED
      BY <3>1
  <2>2. <<>> \in Seq(1..MaxHeight)
    OBVIOUS
  <2>3. /\ answer'.request = "transaction" /\ answer'.height = height /\ answer'.top = top /\ answer'.blocks = <<>>
        /\ AnswerType'
    <3>1. answer' = [request |-> "transaction", from |-> 1, to |-> 0, height |-> height, top |-> Top, blocks |-> <<>>]
      BY <1>1, <1>8, <1>10
    <3>2. 1 \in Int /\ 0 \in Int
      OBVIOUS
    <3>. QED
      BY <2>2, <1>0, <3>1, <3>2, AnswerFields
  <2>4. TransactionFound'
    BY <2>1, <2>3 DEF TransactionFound
  <2>. QED
    BY <2>3, <2>4 DEF AnswerRight, RangeRight, PageRight, SearchRight
<1>11. CASE \E i \in 1..Len(t) : /\ FirstHit(t) = <<t[i]>> /\ t[i] \in Hits
                                 /\ \A j \in 1..(i - 1) : t[j] \notin Hits
  <2>1. PICK i \in 1..(l + stored) : /\ FirstHit(t) = <<s[i]>> /\ s[i] \in Hits
                                     /\ \A j \in 1..(i - 1) : s[j] \notin Hits
    BY <1>5, <1>8, <1>11
  <2>2. s[i] \in 1..stored
    BY <1>2, <1>6
  <2>3. PICK h \in 1..stored : h = s[i]
    BY <2>2
  <2>4. <<h>> \in Seq(1..MaxHeight) /\ Len(<<h>>) = 1 /\ <<h>>[1] = h
    <3>1. h \in 1..MaxHeight
      BY <1>2
    <3>. QED
      BY <3>1
  <2>5. /\ answer'.request = "transaction" /\ answer'.height = height /\ answer'.top = top /\ answer'.blocks = <<h>>
        /\ AnswerType'
    <3>1. answer' = [request |-> "transaction", from |-> 1, to |-> 0, height |-> height, top |-> Top, blocks |-> <<h>>]
      BY <1>1, <1>8, <2>1, <2>3
    <3>2. 1 \in Int /\ 0 \in Int
      OBVIOUS
    <3>. QED
      BY <2>4, <1>0, <3>1, <3>2, AnswerFields
  <2>6. ASSUME NEW k \in Hits \cap (1..top) PROVE h \in Hits \cap (1..top)
    <3>1. CASE i <= l
      BY <1>2, <1>3, <1>6, <2>1, <2>3, <3>1
    <3>2. CASE ~(i <= l)
      <4>1. h = i - l
        BY <1>6, <2>3, <3>2
      <4>2. k \in 1..stored
        BY <1>2
      <4>3. l + k \in 1..(l + stored) /\ s[l + k] = k
        BY <1>7, <4>2
      <4>4. ~(l + k \in 1..(i - 1))
        BY <2>1, <4>3
      <4>5. h <= k
        BY <1>2, <1>3, <4>1, <4>3, <4>4
      <4>. QED
        BY <1>2, <2>1, <2>3, <4>5
    <3>. QED
      BY <3>1, <3>2
  <2>7. ASSUME Hits \cap (1..top) = {} PROVE h = top + 1
    <3>1. ~(h \in 1..top)
      BY <2>1, <2>3, <2>7
    <3>. QED
      BY <1>2, <3>1
  <2>8. TransactionFound'
    BY <2>4, <2>5, <2>6, <2>7 DEF TransactionFound
  <2>. QED
    BY <2>5, <2>8 DEF AnswerRight, RangeRight, PageRight, SearchRight
<1>. QED
  BY <1>9, <1>10, <1>11

\* GET /block/latest.
LEMMA LatestRight ==
    ASSUME StateTypes, Growing, Latest
    PROVE  AnswerRight'
<1>1. /\ ready
      /\ answer' = [request |-> "block", from |-> height, to |-> height, height |-> height,
                    top |-> Top, blocks |-> <<height>>]
  BY DEF Latest, Answered
<1>2. height \in Nat /\ 1 <= height /\ height <= MaxHeight /\ MaxHeight \in Nat /\ MaxQuerySize \in Nat \ {0}
  BY <1>1, SizeAssumption, BoundAssumption DEF StateTypes, Growing
<1>3. PICK h \in 1..MaxHeight : h = height
  BY <1>2
<1>4. PICK b : b = <<h>>
  OBVIOUS
<1>5. b \in Seq(1..MaxHeight) /\ Len(b) = 1 /\ b[1] = h /\ DOMAIN b = 1..1
  BY <1>4
<1>6. h # 0 /\ Smaller(h, h) = h /\ Larger(1, h) = h /\ h - h + 1 = 1
      /\ Larger(1, Smaller(1, MaxQuerySize)) = 1 /\ 1 <= MaxQuerySize
  BY <1>2 DEF Smaller, Larger
<1>7. \A i \in DOMAIN b : b[i] = b[1] + i - 1
  BY <1>5
<1>8. IsRange(b, h, h, height, Top)
  BY <1>3, <1>5, <1>6, <1>7 DEF IsRange
<1>9. PICK r \in {"blocks", "block", "sync"} : r = "block"
  OBVIOUS
<1>10. answer' = [request |-> r, from |-> h, to |-> h, height |-> height, top |-> Top, blocks |-> b]
  BY <1>1, <1>3, <1>4, <1>9
<1>11. h \in Int
  OBVIOUS
<1>. QED
  BY <1>5, <1>8, <1>10, <1>11, RangeAnswerRight

\* GET /sync.
LEMMA SyncRight ==
    ASSUME StateTypes, Growing, NEW h \in Int, Sync(h)
    PROVE  AnswerRight'
<1>1. PICK to \in Int : to = h + SyncSize
  BY SizeAssumption
<1>2. PICK b : b = GetRange(h, to)
  OBVIOUS
<1>3. /\ ready
      /\ answer' = [request |-> "sync", from |-> h, to |-> to, height |-> height, top |-> Top,
                    blocks |-> b]
  BY <1>1, <1>2 DEF Sync, Answered
<1>4. b \in Seq(1..MaxHeight) /\ IsRange(b, h, to, height, Top)
  BY <1>2, <1>3, RangeIsRight
<1>5. PICK r \in {"blocks", "block", "sync"} : r = "sync"
  OBVIOUS
<1>6. answer' = [request |-> r, from |-> h, to |-> to, height |-> height, top |-> Top, blocks |-> b]
  BY <1>3, <1>5
<1>. QED
  BY <1>4, <1>6, RangeAnswerRight

-----------------------------------------------------------------------------
(* The theorems.                                                            *)

LEMMA RangeInvInit ==
    ASSUME Init
    PROVE  RangeInv
<1>1. /\ ready = FALSE /\ stored = 1 /\ height = 0 /\ cache = <<>> /\ adds = <<>>
      /\ answer = NoAnswer
  BY DEF Init
<1>2. StateTypes
  <2>1. <<>> \in Seq(1..MaxHeight) /\ 0 \in 0..MaxHeight /\ 1 \in 1..MaxHeight /\ FALSE \in BOOLEAN
    BY BoundAssumption
  <2>. QED
    BY <1>1, <2>1 DEF StateTypes
<1>3. Growing
  <2>1. Range(adds) = {} /\ Top = 0
    BY <1>1 DEF Range, Top
  <2>. QED
    BY <1>1, <2>1, TopOfNone DEF Growing
<1>4. answer.request = "none" /\ AnswerType
  BY <1>1, BoundAssumption DEF NoAnswer, AnswerType
<1>. QED
  BY <1>2, <1>3, <1>4
     DEF RangeInv, AnswerRight, RangeRight, PageRight, SearchRight, TransactionFound

LEMMA RangeInvStep ==
    ASSUME RangeInv, [Next]_vars
    PROVE  RangeInv'
<1>. DEFINE Kept == RangeInv'
<1>0. StateTypes /\ Growing /\ AnswerRight /\ Parameter \subseteq Int
  BY BoundAssumption DEF RangeInv
<1>2. ASSUME UNCHANGED answer, StateTypes', Growing' PROVE Kept
  BY <1>0, <1>2, SameAnswer DEF RangeInv
<1>3. ASSUME NEW from \in Parameter, NEW to \in Parameter, Blocks(from, to) PROVE Kept
  <2>1. AnswerRight'
    BY <1>0, <1>3, BlocksRight
  <2>2. StateTypes' /\ Growing'
    BY <1>0, <1>3, SameChain DEF Blocks, Answered
  <2>. QED
    BY <2>1, <2>2 DEF RangeInv
<1>4. ASSUME NEW h \in Parameter, OneBlock(h) PROVE Kept
  <2>1. AnswerRight'
    BY <1>0, <1>4, OneBlockRight
  <2>2. StateTypes' /\ Growing'
    BY <1>0, <1>4, SameChain DEF OneBlock, Answered
  <2>. QED
    BY <2>1, <2>2 DEF RangeInv
<1>5. ASSUME Latest PROVE Kept
  <2>1. AnswerRight'
    BY <1>0, <1>5, LatestRight
  <2>2. StateTypes' /\ Growing'
    BY <1>0, <1>5, SameChain DEF Latest, Answered
  <2>. QED
    BY <2>1, <2>2 DEF RangeInv
<1>6. ASSUME Search PROVE Kept
  <2>1. AnswerRight'
    BY <1>0, <1>6, SearchAnswerRight
  <2>2. StateTypes' /\ Growing'
    BY <1>0, <1>6, SameChain DEF Search, Answered
  <2>. QED
    BY <2>1, <2>2 DEF RangeInv
<1>7. ASSUME Transaction PROVE Kept
  <2>1. AnswerRight'
    BY <1>0, <1>7, TransactionAnswerRight
  <2>2. StateTypes' /\ Growing'
    BY <1>0, <1>7, SameChain DEF Transaction, Answered
  <2>. QED
    BY <2>1, <2>2 DEF RangeInv
<1>8. ASSUME NEW page \in Parameter, NEW size \in Parameter, Page(page, size) PROVE Kept
  <2>1. AnswerRight'
    BY <1>0, <1>8, PageAnswerRight
  <2>2. StateTypes' /\ Growing'
    BY <1>0, <1>8, SameChain DEF Page, Answered
  <2>. QED
    BY <2>1, <2>2 DEF RangeInv
<1>9. ASSUME NEW h \in Parameter, Sync(h) PROVE Kept
  <2>1. AnswerRight'
    BY <1>0, <1>9, SyncRight
  <2>2. StateTypes' /\ Growing'
    BY <1>0, <1>9, SameChain DEF Sync, Answered
  <2>. QED
    BY <2>1, <2>2 DEF RangeInv
<1>10. ASSUME StartAdd PROVE Kept
  BY <1>0, <1>2, <1>10, StartAddKeeps DEF StartAdd
<1>11. ASSUME NEW i \in DOMAIN adds, FinishAdd(i) PROVE Kept
  BY <1>0, <1>2, <1>11, FinishAddKeeps DEF FinishAdd
<1>12. ASSUME Restart PROVE Kept
  <2>1. StateTypes' /\ Growing'
    BY <1>0, <1>12, RestartKeeps
  <2>2. answer' = NoAnswer
    BY <1>12 DEF Restart
  <2>3. AnswerRight'
    BY <2>2, NoAnswerRight
  <2>. QED
    BY <2>1, <2>3 DEF RangeInv
<1>13. ASSUME LoadBlock PROVE Kept
  BY <1>0, <1>2, <1>13, LoadBlockKeeps DEF LoadBlock
<1>14. ASSUME Listen PROVE Kept
  BY <1>0, <1>2, <1>14, ListenKeeps DEF Listen
<1>15. ASSUME UNCHANGED vars PROVE Kept
  BY <1>0, <1>2, <1>15, SameChain DEF vars
<1>. HIDE DEF Kept
<1>16. ASSUME \E from, to \in Parameter : Blocks(from, to) PROVE Kept
  BY <1>3, <1>16
<1>17. ASSUME \E h \in Parameter : OneBlock(h) PROVE Kept
  BY <1>4, <1>17
<1>18. ASSUME \E page, size \in Parameter : Page(page, size) PROVE Kept
  BY <1>8, <1>18
<1>19. ASSUME \E h \in Parameter : Sync(h) PROVE Kept
  BY <1>9, <1>19
<1>20. ASSUME \E i \in DOMAIN adds : FinishAdd(i) PROVE Kept
  BY <1>11, <1>20
<1>21. Kept
  BY <1>5, <1>6, <1>7, <1>10, <1>12, <1>13, <1>14, <1>15, <1>16, <1>17, <1>18, <1>19, <1>20 DEF Next
<1>. QED
  BY <1>21 DEF Kept

LEMMA RangeInvariant ==
    Spec => []RangeInv
<1>1. RangeInv /\ [Next]_vars => RangeInv'
  BY RangeInvStep
<1>2. Init => RangeInv
  BY RangeInvInit
<1>. QED
  BY <1>1, <1>2, PTL DEF Spec

\* Every variable keeps its type (updateCache, add, init and all requests).
THEOREM TypeCorrect ==
    Spec => []TypeOK
<1>1. RangeInv => TypeOK
  BY CacheTypes DEF RangeInv, AnswerRight, AnswerType, StateTypes, TypeOK
<1>. QED
  BY <1>1, RangeInvariant, PTL

\* The cache holds the newest blocks and the latest one among them, whatever
\* overlapping and overtaken calls of add() and restarts do: updateCache evicts
\* one block, the right one, and none for a block that is added once more.
THEOREM CacheStaysTop ==
    Spec => []CacheIsTop
<1>1. RangeInv => CacheIsTop
  BY CacheTypes DEF RangeInv
<1>. QED
  BY <1>1, RangeInvariant, PTL

\* getRange answers with consecutive blocks within the limit, from the cache or
\* from the store; and with those that were asked for, up to the end, if the
\* latest block is the newest one.
THEOREM RangesRight ==
    Spec => []RangeRight
<1>1. RangeInv => RangeRight
  BY DEF RangeInv, AnswerRight
<1>. QED
  BY <1>1, RangeInvariant, PTL

\* getPage: every block is on the page it belongs to, under the same condition.
THEOREM PagesRight ==
    Spec => []PageRight
<1>1. RangeInv => PageRight
  BY DEF RangeInv, AnswerRight
<1>. QED
  BY <1>1, RangeInvariant, PTL

\* searchBlocks finds what is in the latest blocks, in order.
THEOREM SearchesRight ==
    Spec => []SearchRight
<1>1. RangeInv => SearchRight
  BY DEF RangeInv, AnswerRight
<1>. QED
  BY <1>1, RangeInvariant, PTL

\* getTransaction finds a transaction of the chain in the cache or in the store.
THEOREM TransactionsFound ==
    Spec => []TransactionFound
<1>1. RangeInv => TransactionFound
  BY DEF RangeInv, AnswerRight
<1>. QED
  BY <1>1, RangeInvariant, PTL
=============================================================================
