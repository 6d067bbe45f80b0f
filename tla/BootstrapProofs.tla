-------------------------- MODULE BootstrapProofs --------------------------
(***************************************************************************)
(* Theorems about Bootstrap, for any members and newcomers: a challenge    *)
(* that is due can still be confirmed, and one start of a newcomer admits  *)
(* it once at most, whoever passes the challenges on to it.                *)
(***************************************************************************)
EXTENDS Bootstrap, FiniteSetTheorems, TLAPS

-----------------------------------------------------------------------------
(* Types.                                                                   *)

\* join() keeps tokens, the timer and the counter well-typed.
LEMMA JoinType ==
    ASSUME TypeOK, NEW m \in Member, NEW at \in Newcomer, NEW key \in Newcomer, NEW r \in Nat,
           Join(m, at, key, r)
    PROVE  /\ token' \in [Member -> [Newcomer -> Nat]]
           /\ timer' \in [Member -> Job \cup {NoJob}]
           /\ issued' \in Nat
<1>1. FreshToken \in Nat \ {0}
  BY DEF FreshToken, TypeOK
<1>2. [at |-> at, key |-> key, token |-> FreshToken, r |-> r, signed |-> {}] \in Job
  BY <1>1 DEF Job
<1>3. token' \in [Member -> [Newcomer -> Nat]]
  <2>1. \/ token' = [token EXCEPT ![m][key] = 0]
        \/ token' = [token EXCEPT ![m][key] = FreshToken]
    BY DEF Join
  <2>. QED
    BY <1>1, <2>1 DEF TypeOK
<1>4. timer' \in [Member -> Job \cup {NoJob}]
  <2>. DEFINE job == [at |-> at, key |-> key, token |-> FreshToken, r |-> r, signed |-> {}]
  <2>1. timer' = [timer EXCEPT ![m] = NoJob] \/ timer' = [timer EXCEPT ![m] = job]
    BY DEF Join
  <2>2. job \in Job
    BY <1>2
  <2>. HIDE DEF job
  <2>. QED
    BY <2>1, <2>2 DEF TypeOK
<1>5. issued' \in Nat
  BY DEF Join, TypeOK
<1>. QED
  BY <1>3, <1>4, <1>5

\* Every step keeps the types.
LEMMA TypeStep == TypeOK /\ [Next]_vars => TypeOK'
<1>. SUFFICES ASSUME TypeOK, [Next]_vars PROVE TypeOK'
  OBVIOUS
<1>. USE DEF newcomerVars
<1>0. CASE UNCHANGED vars
  BY <1>0 DEF vars, TypeOK
<1>1. ASSUME NEW j \in Newcomer, JoinNetwork(j) PROVE TypeOK'
  BY <1>1, BoundAssumption DEF JoinNetwork, TypeOK
<1>2. ASSUME NEW j \in Newcomer, NEW m \in Member, Ask(j, m) PROVE TypeOK'
  <2>1. Join(m, j, j, 0)
    BY <1>2 DEF Ask
  <2>2. asking' \in [Newcomer -> SUBSET Member]
    BY <1>2 DEF Ask, TypeOK
  <2>. QED
    BY <1>2, <2>1, <2>2, JoinType DEF Ask, TypeOK
<1>3. ASSUME NEW j \in Newcomer, NEW m \in Member, AskFails(j, m) PROVE TypeOK'
  BY <1>3 DEF AskFails, TypeOK
<1>4. ASSUME NEW m \in Member, NEW at \in Newcomer, NEW key \in Newcomer, StrayJoin(m, at, key)
      PROVE  TypeOK'
  <2>1. Join(m, at, key, 0)
    BY <1>4 DEF StrayJoin
  <2>. QED
    BY <1>4, <2>1, JoinType, BoundAssumption DEF StrayJoin, TypeOK
<1>5. ASSUME NEW m \in Member, InvalidJoin(m) PROVE TypeOK'
  BY <1>5, BoundAssumption DEF InvalidJoin, TypeOK
<1>6. ASSUME NEW m \in Member, ChallengeTimer(m) PROVE TypeOK'
  BY <1>6 DEF ChallengeTimer, TypeOK
<1>7. ASSUME NEW m \in Member, NEW f \in fetches[m], NEW j \in Newcomer, Challenge(m, f, j)
      PROVE  TypeOK'
  <2>1. f \in Job
    BY DEF TypeOK
  <2>2. [f EXCEPT !.signed = {j}] \in Job
    BY <2>1 DEF Job
  <2>. QED
    BY <1>7, <2>2 DEF Challenge, TypeOK
<1>8. ASSUME NEW m \in Member, NEW f \in fetches[m], ChallengeFails(m, f) PROVE TypeOK'
  BY <1>8 DEF ChallengeFails, TypeOK
<1>9. ASSUME NEW m \in Member, NEW f \in fetches[m], Confirm(m, f) PROVE TypeOK'
  <2>1. f \in Job /\ f.key \in Newcomer
    BY DEF TypeOK, Job
  <2>. DEFINE admission == [key |-> f.key, token |-> f.token]
              rejoin == [at |-> f.at, key |-> f.key, r |-> f.r]
  <2>2. admission \in Admission /\ rejoin \in Rejoin
    BY <2>1 DEF Job, Admission, Rejoin
  <2>3. /\ token' = token \/ token' = [token EXCEPT ![m][f.key] = 0]
        /\ fetches' = [fetches EXCEPT ![m] = @ \ {f}]
        /\ stacked' = stacked \/ stacked' = [stacked EXCEPT ![m] = @ \cup {admission}]
        /\ again' = again \/ again' = [again EXCEPT ![m] = @ \cup {rejoin}]
    BY <1>9 DEF Confirm
  <2>. HIDE DEF admission, rejoin
  <2>4. token' \in [Member -> [Newcomer -> Nat]]
    BY <2>1, <2>3 DEF TypeOK
  <2>5. fetches' \in [Member -> SUBSET Job]
    BY <2>3 DEF TypeOK
  <2>6. stacked' \in [Member -> SUBSET Admission]
    BY <2>2, <2>3 DEF TypeOK
  <2>7. again' \in [Member -> SUBSET Rejoin]
    BY <2>2, <2>3 DEF TypeOK
  <2>. QED
    BY <1>9, <2>4, <2>5, <2>6, <2>7 DEF Confirm, TypeOK
<1>10. ASSUME NEW m \in Member, NEW a \in again[m], Retry(m, a) PROVE TypeOK'
  <2>1. a.at \in Newcomer /\ a.key \in Newcomer /\ a.r \in Nat
    BY DEF TypeOK, Rejoin
  <2>2. Join(m, a.at, a.key, a.r)
    BY <1>10 DEF Retry
  <2>. QED
    BY <1>10, <2>1, <2>2, JoinType DEF Retry, TypeOK
<1>11. ASSUME NEW key \in Newcomer, AddPeer(key) PROVE TypeOK'
  BY <1>11 DEF AddPeer, TypeOK
<1>12. ASSUME NEW j \in Newcomer, StrayChallenge(j) PROVE TypeOK'
  BY <1>12, BoundAssumption DEF StrayChallenge, TypeOK
<1>. QED
  BY <1>0, <1>1, <1>2, <1>3, <1>4, <1>5, <1>6, <1>7, <1>8, <1>9, <1>10, <1>11, <1>12 DEF Next

LEMMA TypeInit == Init => TypeOK
BY BoundAssumption DEF Init, TypeOK

\* Every variable keeps its type, for any members and newcomers.
THEOREM TypeCorrect == Spec => []TypeOK
<1>. QED
  BY TypeInit, TypeStep, PTL DEF Spec

-----------------------------------------------------------------------------
(* Admission.                                                               *)

\* The transactions that are stacked only change when a member confirms, by one
\* for the key that has signed.
LEMMA StackedStep ==
    ASSUME TypeOK, [Next]_vars
    PROVE  \/ UNCHANGED Stacked
           \/ \E m \in Member : \E f \in fetches[m] :
                 /\ Confirm(m, f) /\ f.signed # {} /\ Confirms(m, f)
                 /\ Stacked' = Stacked \cup {[key |-> f.key, token |-> f.token]}
<1>1. CASE UNCHANGED stacked
  BY <1>1 DEF Stacked
<1>2. ASSUME NEW m \in Member, NEW f \in fetches[m], Confirm(m, f), ~UNCHANGED stacked
      PROVE  /\ f.signed # {} /\ Confirms(m, f)
             /\ Stacked' = Stacked \cup {[key |-> f.key, token |-> f.token]}
  <2>. DEFINE admission == [key |-> f.key, token |-> f.token]
  <2>1. /\ f.signed # {} /\ Confirms(m, f)
        /\ stacked' = [stacked EXCEPT ![m] = @ \cup {admission}]
    BY <1>2 DEF Confirm
  <2>. HIDE DEF admission
  <2>2. Stacked' = Stacked \cup {admission}
    BY <2>1 DEF Stacked, TypeOK
  <2>. QED
    BY <2>1, <2>2 DEF admission
<1>3. \/ UNCHANGED stacked
      \/ \E m \in Member : \E f \in fetches[m] : Confirm(m, f)
  BY DEF Next, vars, JoinNetwork, Ask, AskFails, StrayJoin, InvalidJoin, ChallengeTimer,
     Challenge, StrayChallenge, ChallengeFails, Retry, AddPeer
<1>. QED
  BY <1>1, <1>2, <1>3

\* What a newcomer has signed and what it may still sign.  AdmittedOnce alone is
\* not inductive: a transaction comes from an answer that is under way, and that
\* from the right to sign, which each start gives once.
Answers == UNION {fetches[m] : m \in Member}
Signed(j) ==
    {f.token : f \in {g \in Answers : j \in g.signed}}
    \cup {p.token : p \in {q \in Stacked : q.key = j}}
Unsigned(j) == IF joining[j] THEN 1 ELSE 0

OneSignaturePerStart ==
    \A j \in Newcomer : IsFiniteSet(Signed(j)) /\ Cardinality(Signed(j)) + Unsigned(j) <= starts[j]

\* Fewer signatures, or one more for the right to sign, keep the balance.
LEMMA SignaturesBalance ==
    ASSUME TypeOK, TypeOK', OneSignaturePerStart, NEW j \in Newcomer,
           \/ /\ Signed(j)' \subseteq Signed(j)
              /\ Unsigned(j)' <= Unsigned(j) /\ starts'[j] = starts[j]
           \/ /\ Signed(j)' \subseteq Signed(j) /\ starts'[j] = starts[j] + 1
           \/ \E t : /\ Signed(j)' \subseteq Signed(j) \cup {t}
                     /\ joining[j] /\ ~joining'[j] /\ starts'[j] = starts[j]
    PROVE  IsFiniteSet(Signed(j)') /\ Cardinality(Signed(j)') + Unsigned(j)' <= starts'[j]
<1>. DEFINE s == Signed(j)
            t == Signed(j)'
            c == Cardinality(s)
<1>1. IsFiniteSet(s) /\ c + Unsigned(j) <= starts[j]
  BY DEF OneSignaturePerStart
<1>2. c \in Nat /\ starts[j] \in Int /\ starts'[j] \in Int
  BY <1>1, FS_CardinalityType, BoundAssumption DEF TypeOK
<1>3. Unsigned(j) \in {0, 1} /\ Unsigned(j)' \in {0, 1}
  BY DEF Unsigned
<1>. HIDE DEF s, t
<1>4. CASE t \subseteq s
  <2>1. IsFiniteSet(t) /\ Cardinality(t) <= c /\ Cardinality(t) \in Nat
    BY <1>1, <1>4, FS_Subset, FS_CardinalityType
  <2>. QED
    BY <1>1, <1>2, <1>3, <2>1 DEF s, t, Unsigned
<1>5. ASSUME NEW x, t \subseteq s \cup {x}, joining[j], ~joining'[j], starts'[j] = starts[j]
      PROVE  IsFiniteSet(t) /\ Cardinality(t) + Unsigned(j)' <= starts'[j]
  <2>1. IsFiniteSet(s \cup {x}) /\ Cardinality(s \cup {x}) <= c + 1
    BY <1>1, <1>2, FS_AddElement
  <2>2. IsFiniteSet(t) /\ Cardinality(t) <= Cardinality(s \cup {x}) /\ Cardinality(t) \in Nat
        /\ Cardinality(s \cup {x}) \in Nat
    BY <1>5, <2>1, FS_Subset, FS_CardinalityType
  <2>3. Unsigned(j) = 1 /\ Unsigned(j)' = 0
    BY <1>5 DEF Unsigned
  <2>. QED
    BY <1>1, <1>2, <1>5, <2>1, <2>2, <2>3
<1>. QED
  BY <1>4, <1>5 DEF s, t

\* A challenge has no signature before it is sent.
TimersUnsigned == \A m \in Member : timer[m] # NoJob => timer[m].signed = {}

\* join() arms a timer or none.
LEMMA JoinTimer ==
    ASSUME TypeOK, NEW m \in Member, NEW at, NEW key, NEW r, Join(m, at, key, r)
    PROVE  \/ timer' = [timer EXCEPT ![m] = NoJob]
           \/ \E job : /\ timer' = [timer EXCEPT ![m] = job]
                       /\ job.signed = {} /\ job.token = FreshToken /\ job.key = key
BY DEF Join

\* No step puts a signature into a timer.
LEMMA TimerStep == TypeOK /\ TimersUnsigned /\ [Next]_vars => TimersUnsigned'
<1>. SUFFICES ASSUME TypeOK, TimersUnsigned, [Next]_vars PROVE TimersUnsigned'
  OBVIOUS
<1>1. CASE UNCHANGED timer
  BY <1>1 DEF TimersUnsigned
<1>2. ASSUME NEW m \in Member, timer' = [timer EXCEPT ![m] = NoJob] PROVE TimersUnsigned'
  BY <1>2 DEF TimersUnsigned, TypeOK
<1>3. ASSUME NEW m \in Member, NEW job, timer' = [timer EXCEPT ![m] = job], job.signed = {}
      PROVE  TimersUnsigned'
  BY <1>3 DEF TimersUnsigned, TypeOK
<1>4. ASSUME NEW m \in Member, NEW at, NEW key, NEW r, Join(m, at, key, r) PROVE TimersUnsigned'
  BY <1>2, <1>3, <1>4, JoinTimer
<1>5. \/ UNCHANGED timer
      \/ \E m \in Member : timer' = [timer EXCEPT ![m] = NoJob]
      \/ \E m \in Member : \E at, key, r : Join(m, at, key, r)
  <2>1. ASSUME NEW j \in Newcomer, NEW m \in Member, Ask(j, m) PROVE Join(m, j, j, 0)
    BY <2>1 DEF Ask
  <2>2. ASSUME NEW m \in Member, NEW at \in Newcomer, NEW key \in Newcomer, StrayJoin(m, at, key)
        PROVE  Join(m, at, key, 0)
    BY <2>2 DEF StrayJoin
  <2>3. ASSUME NEW m \in Member, NEW a \in again[m], Retry(m, a) PROVE Join(m, a.at, a.key, a.r)
    BY <2>3 DEF Retry
  <2>. QED
    BY <2>1, <2>2, <2>3 DEF Next, vars, newcomerVars, JoinNetwork, AskFails, InvalidJoin,
       ChallengeTimer, Challenge, StrayChallenge, ChallengeFails, Confirm, AddPeer
<1>. QED
  BY <1>1, <1>2, <1>4, <1>5

\* A node signs a challenge once per start, and a member stacks a transaction
\* only for an answer.
LEMMA SignatureStep ==
    TypeOK /\ TypeOK' /\ TimersUnsigned /\ OneSignaturePerStart /\ [Next]_vars
        => OneSignaturePerStart'
<1>. SUFFICES ASSUME TypeOK, TypeOK', TimersUnsigned, OneSignaturePerStart, [Next]_vars,
                     NEW j \in Newcomer
              PROVE  IsFiniteSet(Signed(j)') /\ Cardinality(Signed(j)') + Unsigned(j)' <= starts'[j]
  BY DEF OneSignaturePerStart
<1>. DEFINE Goal == IsFiniteSet(Signed(j)') /\ Cardinality(Signed(j)') + Unsigned(j)' <= starts'[j]
<1>u. ASSUME UNCHANGED <<starts, joining>>, Signed(j)' \subseteq Signed(j) PROVE Goal
  <2>1. Unsigned(j)' = Unsigned(j) /\ Unsigned(j) \in Int
    BY <1>u DEF Unsigned
  <2>. QED
    BY <1>u, <2>1, SignaturesBalance
<1>f. UNCHANGED <<fetches, stacked>> => Signed(j)' = Signed(j)
  BY DEF Signed, Answers, Stacked
<1>g. ASSUME UNCHANGED stacked, \A f \in Answers' : f.signed # {} => f \in Answers
      PROVE  Signed(j)' \subseteq Signed(j)
  BY <1>g DEF Signed, Stacked
<1>1. CASE UNCHANGED <<fetches, stacked, starts, joining>>
  BY <1>1, <1>u, <1>f
<1>2. ASSUME NEW k \in Newcomer, JoinNetwork(k) PROVE Goal
  <2>1. Signed(j)' = Signed(j)
    BY <1>2, <1>f DEF JoinNetwork
  <2>2. CASE k = j
    <3>1. starts'[j] = starts[j] + 1
      BY <1>2, <2>2 DEF JoinNetwork, TypeOK
    <3>. QED
      BY <2>1, <3>1, SignaturesBalance
  <2>3. CASE k # j
    <3>1. starts'[j] = starts[j] /\ joining'[j] = joining[j]
      BY <1>2, <2>3 DEF JoinNetwork, TypeOK
    <3>2. Unsigned(j)' <= Unsigned(j)
      BY <3>1 DEF Unsigned
    <3>. QED
      BY <2>1, <3>1, <3>2, SignaturesBalance
  <2>. QED
    BY <2>2, <2>3
<1>3. ASSUME NEW m \in Member, ChallengeTimer(m) PROVE Goal
  <2>1. Answers' \subseteq Answers \cup {timer[m]}
    BY <1>3 DEF ChallengeTimer, Answers, TypeOK
  <2>2. timer[m].signed = {}
    BY <1>3 DEF ChallengeTimer, TimersUnsigned
  <2>. QED
    BY <1>3, <1>u, <1>g, <2>1, <2>2 DEF ChallengeTimer, newcomerVars
<1>4. ASSUME NEW m \in Member, NEW f \in fetches[m], NEW k \in Newcomer, Challenge(m, f, k) PROVE Goal
  <2>. DEFINE answer == [f EXCEPT !.signed = {k}]
  <2>1. f \in Job /\ answer.signed = {k} /\ answer.token = f.token
    BY DEF TypeOK, Job
  <2>. HIDE DEF answer
  <2>2. UNCHANGED <<starts, stacked>>
    BY <1>4 DEF Challenge
  <2>3. CASE ~joining[k]
    <3>1. fetches' = [fetches EXCEPT ![m] = @ \ {f}]
      BY <1>4, <2>3 DEF Challenge
    <3>2. Answers' \subseteq Answers
      BY <3>1 DEF Answers, TypeOK
    <3>3. joining' = joining
      BY <1>4, <2>1, <2>3 DEF Challenge, TypeOK
    <3>. QED
      BY <2>2, <3>2, <3>3, <1>u, <1>g
  <2>4. CASE joining[k]
    <3>1. fetches' = [fetches EXCEPT ![m] = (@ \ {f}) \cup {answer}]
      BY <1>4, <2>4 DEF Challenge, answer
    <3>2. Answers' \subseteq Answers \cup {answer}
      BY <3>1 DEF Answers, TypeOK
    <3>3. joining' = [joining EXCEPT ![k] = FALSE]
      BY <1>4 DEF Challenge
    <3>4. CASE k = j
      <4>1. Signed(j)' \subseteq Signed(j) \cup {f.token}
        BY <2>1, <2>2, <3>2 DEF Signed, Stacked
      <4>. QED
        BY <2>1, <2>2, <2>4, <3>3, <3>4, <4>1, SignaturesBalance DEF TypeOK
    <3>5. CASE k # j
      <4>1. Signed(j)' \subseteq Signed(j)
        BY <2>1, <2>2, <3>2, <3>5 DEF Signed, Stacked
      <4>2. joining'[j] = joining[j]
        BY <3>3, <3>5 DEF TypeOK
      <4>3. Unsigned(j)' <= Unsigned(j)
        BY <4>2 DEF Unsigned
      <4>. QED
        BY <2>2, <4>1, <4>3, SignaturesBalance
    <3>. QED
      BY <3>4, <3>5
  <2>. QED
    BY <2>3, <2>4
<1>5. ASSUME NEW m \in Member, NEW f \in fetches[m], ChallengeFails(m, f) PROVE Goal
  <2>1. Answers' \subseteq Answers
    BY <1>5 DEF ChallengeFails, Answers, TypeOK
  <2>. QED
    BY <1>5, <2>1, <1>u, <1>g DEF ChallengeFails, newcomerVars
<1>6. ASSUME NEW m \in Member, NEW f \in fetches[m], Confirm(m, f) PROVE Goal
  <2>. DEFINE admission == [key |-> f.key, token |-> f.token]
  <2>1. Answers' \subseteq Answers /\ f \in Answers
    BY <1>6 DEF Confirm, Answers, TypeOK
  <2>2. \/ stacked' = stacked
        \/ /\ stacked' = [stacked EXCEPT ![m] = @ \cup {admission}]
           /\ f.key \in f.signed
    BY <1>6 DEF Confirm, Confirms, VerifySignature
  <2>3. admission.key = f.key /\ admission.token = f.token
    OBVIOUS
  <2>. HIDE DEF admission
  <2>4. ASSUME stacked' = stacked PROVE Signed(j)' \subseteq Signed(j)
    BY <2>1, <2>4 DEF Signed, Stacked
  <2>5. ASSUME stacked' = [stacked EXCEPT ![m] = @ \cup {admission}], f.key \in f.signed
        PROVE  Signed(j)' \subseteq Signed(j)
    <3>1. \A k \in Member : stacked'[k] \subseteq stacked[k] \cup {admission}
      BY <2>5 DEF TypeOK
    <3>2. Stacked' \subseteq Stacked \cup {admission}
      BY <3>1 DEF Stacked
    <3>. QED
      BY <2>1, <2>3, <2>5, <3>2 DEF Signed
  <2>6. Signed(j)' \subseteq Signed(j)
    BY <2>2, <2>4, <2>5
  <2>. QED
    BY <1>6, <2>6, <1>u DEF Confirm, newcomerVars
<1>7. ASSUME NEW k \in Newcomer, StrayChallenge(k) PROVE Goal
  <2>1. Signed(j)' = Signed(j) /\ starts' = starts
    BY <1>7, <1>f DEF StrayChallenge
  <2>2. Unsigned(j)' <= Unsigned(j)
    <3>1. joining'[j] => joining[j]
      BY <1>7 DEF StrayChallenge, TypeOK
    <3>. QED
      BY <3>1 DEF Unsigned
  <2>. QED
    BY <2>1, <2>2, SignaturesBalance
<1>8. \/ UNCHANGED <<fetches, stacked, starts, joining>>
      \/ \E k \in Newcomer : JoinNetwork(k) \/ StrayChallenge(k)
      \/ \E m \in Member : ChallengeTimer(m)
      \/ \E m \in Member : \E f \in fetches[m], k \in Newcomer : Challenge(m, f, k)
      \/ \E m \in Member : \E f \in fetches[m] : ChallengeFails(m, f) \/ Confirm(m, f)
  BY DEF Next, vars, newcomerVars, Ask, AskFails, StrayJoin, InvalidJoin, Retry, AddPeer
<1>. QED
  BY <1>1, <1>2, <1>3, <1>4, <1>5, <1>6, <1>7, <1>8

AdmissionInv == TypeOK /\ TimersUnsigned /\ OneSignaturePerStart

\* The transactions for one key have different tokens, each of them signed.
LEMMA SignaturesBoundAdmissions ==
    ASSUME AdmissionInv, NEW j \in Newcomer
    PROVE  Cardinality({p \in Stacked : p.key = j}) <= starts[j]
<1>. DEFINE S == {p \in Stacked : p.key = j}
            T == Signed(j)
            f == [p \in S |-> p.token]
<1>1. IsFiniteSet(T) /\ Cardinality(T) + Unsigned(j) <= starts[j] /\ Unsigned(j) \in {0, 1}
  BY DEF AdmissionInv, OneSignaturePerStart, Unsigned
<1>2. \A p \in S : p \in Admission /\ p.key = j
  BY DEF AdmissionInv, TypeOK, Stacked
<1>3. \A p \in S : p.token \in T
  BY <1>2 DEF Signed
<1>4. ASSUME NEW p \in S, NEW q \in S, p.token = q.token PROVE p = q
  BY <1>2, <1>4 DEF Admission
<1>5. f \in [S -> T] /\ \A p, q \in S : f[p] = f[q] => p = q
  BY <1>3, <1>4
<1>. HIDE DEF S, T, f
<1>6. f \in Injection(S, T)
  BY <1>5 DEF Injection, IsInjective
<1>7. IsFiniteSet(S) /\ Cardinality(S) <= Cardinality(T)
  BY <1>1, <1>6, FS_Injection
<1>8. Cardinality(S) \in Nat /\ Cardinality(T) \in Nat /\ starts[j] \in Int
  BY <1>1, <1>7, FS_CardinalityType, BoundAssumption DEF AdmissionInv, TypeOK
<1>. QED
  BY <1>1, <1>7, <1>8 DEF S

\* However many members a newcomer has asked, and whoever passes their challenges
\* on to it, one start yields at most one transaction for it.
THEOREM StartsAdmitOnce == Spec => []AdmittedOnce
<1>1. Init => TimersUnsigned /\ OneSignaturePerStart
  <2>. SUFFICES ASSUME Init PROVE TimersUnsigned /\ OneSignaturePerStart
    OBVIOUS
  <2>1. \A j \in Newcomer : Signed(j) = {}
    BY DEF Init, Signed, Answers, Stacked
  <2>2. \A j \in Newcomer : starts[j] = 0 /\ Unsigned(j) = 0
    BY DEF Init, Unsigned
  <2>3. IsFiniteSet({}) /\ Cardinality({}) = 0
    BY FS_EmptySet
  <2>4. OneSignaturePerStart
    BY <2>1, <2>2, <2>3 DEF OneSignaturePerStart
  <2>5. TimersUnsigned
    BY DEF Init, TimersUnsigned
  <2>. QED
    BY <2>4, <2>5
<1>2. TypeOK /\ TypeOK' /\ TimersUnsigned /\ OneSignaturePerStart /\ [Next]_vars
        => TimersUnsigned' /\ OneSignaturePerStart'
  BY TimerStep, SignatureStep
<1>3. AdmissionInv => AdmittedOnce
  BY SignaturesBoundAdmissions DEF AdmittedOnce
<1>. QED
  BY <1>1, <1>2, <1>3, TypeCorrect, PTL DEF Spec, AdmissionInv

-----------------------------------------------------------------------------
(* Challenges.                                                              *)

\* No challenge under way has the token of one that is due, since each join()
\* issues a new token.
TokensFresh ==
    \A m \in Member :
        /\ timer[m] # NoJob => timer[m].token <= issued
        /\ \A f \in fetches[m] :
              f.token <= issued /\ (timer[m] # NoJob => timer[m].token # f.token)

ChallengeInv == TokensFresh /\ ChallengeIsCurrent

\* join() replaces token and timer together.
LEMMA JoinIsCurrent ==
    ASSUME TypeOK, ChallengeInv, UNCHANGED fetches,
           NEW m \in Member, NEW at \in Newcomer, NEW key \in Newcomer, NEW r \in Nat,
           Join(m, at, key, r), \A k \in Member : k # m => again'[k] = again[k]
    PROVE  ChallengeInv'
<1>. USE DEF ChallengeInv
<1>1. issued \in Nat /\ issued' \in Nat /\ issued <= issued'
  BY DEF Join, TypeOK
<1>2. CASE timer' = [timer EXCEPT ![m] = NoJob]
  <2>1. \A k \in Member : k # m => token'[k] = token[k]
    BY DEF Join, TypeOK
  <2>2. \A k \in Member : timer'[k] = IF k = m THEN NoJob ELSE timer[k]
    BY <1>2 DEF TypeOK
  <2>3. TokensFresh'
    BY <1>1, <2>2 DEF TokensFresh, TypeOK, Job
  <2>4. ChallengeIsCurrent'
    BY <2>1, <2>2 DEF ChallengeIsCurrent
  <2>. QED
    BY <2>3, <2>4
<1>3. CASE timer' # [timer EXCEPT ![m] = NoJob]
  <2>1. PICK job : /\ timer' = [timer EXCEPT ![m] = job]
                   /\ job.token = FreshToken /\ job.key = key
    BY <1>3, JoinTimer
  <2>2. token' = [token EXCEPT ![m][key] = FreshToken] /\ issued' = FreshToken
    BY <1>3 DEF Join, FreshToken
  <2>3. \A k \in Member : /\ timer'[k] = IF k = m THEN job ELSE timer[k]
                          /\ k # m => token'[k] = token[k]
    BY <2>1, <2>2 DEF TypeOK
  <2>4. token'[m][key] = FreshToken
    BY <2>2 DEF TypeOK
  <2>5. TokensFresh'
    BY <1>1, <2>1, <2>2, <2>3 DEF TokensFresh, FreshToken, TypeOK, Job
  <2>6. ChallengeIsCurrent'
    BY <2>1, <2>3, <2>4 DEF ChallengeIsCurrent
  <2>. QED
    BY <2>5, <2>6
<1>. QED
  BY <1>2, <1>3

\* A confirmation that takes a token away leaves the one of the challenge that
\* is due, or a retry for its key.
LEMMA ChallengeStep == TypeOK /\ ChallengeInv /\ [Next]_vars => ChallengeInv'
<1>. SUFFICES ASSUME TypeOK, ChallengeInv, [Next]_vars PROVE ChallengeInv'
  OBVIOUS
<1>. USE DEF ChallengeInv
<1>1. CASE UNCHANGED <<token, timer, fetches, again, issued>>
  BY <1>1 DEF TokensFresh, ChallengeIsCurrent
<1>2. ASSUME NEW j \in Newcomer, NEW m \in Member, Ask(j, m) PROVE ChallengeInv'
  <2>1. Join(m, j, j, 0) /\ UNCHANGED <<fetches, again>>
    BY <1>2 DEF Ask
  <2>. QED
    BY <2>1, JoinIsCurrent
<1>3. ASSUME NEW m \in Member, NEW at \in Newcomer, NEW key \in Newcomer, StrayJoin(m, at, key)
      PROVE  ChallengeInv'
  <2>1. Join(m, at, key, 0) /\ UNCHANGED <<fetches, again>>
    BY <1>3 DEF StrayJoin
  <2>. QED
    BY <2>1, JoinIsCurrent
<1>4. ASSUME NEW m \in Member, NEW a \in again[m], Retry(m, a) PROVE ChallengeInv'
  <2>1. Join(m, a.at, a.key, a.r) /\ UNCHANGED fetches
        /\ \A k \in Member : k # m => again'[k] = again[k]
    BY <1>4 DEF Retry, TypeOK
  <2>2. a.at \in Newcomer /\ a.key \in Newcomer /\ a.r \in Nat
    BY DEF TypeOK, Rejoin
  <2>. QED
    BY <2>1, <2>2, JoinIsCurrent
<1>5. ASSUME NEW m \in Member, InvalidJoin(m) \/ ChallengeTimer(m) PROVE ChallengeInv'
  <2>1. timer' = [timer EXCEPT ![m] = NoJob] /\ UNCHANGED <<token, again, issued>>
    BY <1>5 DEF InvalidJoin, ChallengeTimer
  <2>2. \A k \in Member : timer'[k] = IF k = m THEN NoJob ELSE timer[k]
    BY <2>1 DEF TypeOK
  <2>3. \A k \in Member : \A f \in fetches'[k] :
           f \in fetches[k] \/ (k = m /\ timer[m] # NoJob /\ f = timer[m])
    BY <1>5 DEF InvalidJoin, ChallengeTimer, TypeOK
  <2>4. TokensFresh'
    BY <2>1, <2>2, <2>3 DEF TokensFresh
  <2>5. ChallengeIsCurrent'
    BY <2>1, <2>2 DEF ChallengeIsCurrent
  <2>. QED
    BY <2>4, <2>5
<1>6. ASSUME NEW m \in Member, NEW f \in fetches[m], NEW j,
             Challenge(m, f, j) \/ ChallengeFails(m, f)
      PROVE  ChallengeInv'
  <2>. DEFINE answer == [f EXCEPT !.signed = {j}]
  <2>1. answer.token = f.token
    BY DEF TypeOK, Job
  <2>2. \/ fetches' = [fetches EXCEPT ![m] = @ \ {f}]
        \/ fetches' = [fetches EXCEPT ![m] = (@ \ {f}) \cup {answer}]
    BY <1>6 DEF Challenge, ChallengeFails
  <2>. HIDE DEF answer
  <2>3. \A k \in Member : \A g \in fetches'[k] : \E h \in fetches[k] : h.token = g.token
    BY <2>1, <2>2 DEF TypeOK
  <2>4. UNCHANGED <<token, timer, again, issued>>
    BY <1>6 DEF Challenge, ChallengeFails
  <2>5. TokensFresh'
    BY <2>3, <2>4 DEF TokensFresh
  <2>6. ChallengeIsCurrent'
    BY <2>4 DEF ChallengeIsCurrent
  <2>. QED
    BY <2>5, <2>6
<1>7. ASSUME NEW m \in Member, NEW f \in fetches[m], Confirm(m, f) PROVE ChallengeInv'
  <2>. DEFINE rejoin == [at |-> f.at, key |-> f.key, r |-> f.r]
  <2>1. f.key \in Newcomer /\ rejoin.key = f.key
    BY DEF TypeOK, Job
  <2>2. UNCHANGED <<timer, issued>> /\ fetches' = [fetches EXCEPT ![m] = @ \ {f}]
    BY <1>7 DEF Confirm
  <2>3. \/ UNCHANGED <<token, again>>
        \/ /\ token' = [token EXCEPT ![m][f.key] = 0]
           /\ \/ UNCHANGED again /\ token[m][f.key] = f.token
              \/ again' = [again EXCEPT ![m] = @ \cup {rejoin}]
    BY <1>7 DEF Confirm, Confirms, VerifySignature
  <2>. HIDE DEF rejoin
  <2>4. \A k \in Member : fetches'[k] \subseteq fetches[k]
    BY <2>2 DEF TypeOK
  <2>5. TokensFresh'
    BY <2>2, <2>4 DEF TokensFresh
  <2>6. ASSUME NEW k \in Member, timer'[k] # NoJob
        PROVE  \/ token'[k][timer'[k].key] = timer'[k].token
               \/ \E a \in again'[k] : a.key = timer'[k].key
    <3>1. timer'[k] = timer[k] /\ timer[k] \in Job /\ timer[k].key \in Newcomer
      BY <2>2, <2>6 DEF TypeOK, Job
    <3>2. CASE \E a \in again[k] : a.key = timer[k].key
      BY <2>3, <3>1, <3>2 DEF TypeOK
    <3>3. CASE token[k][timer[k].key] = timer[k].token
      <4>1. CASE token'[k][timer[k].key] = token[k][timer[k].key]
        BY <3>1, <3>3, <4>1
      <4>2. CASE token'[k][timer[k].key] # token[k][timer[k].key]
        <5>1. /\ k = m /\ timer[k].key = f.key
              /\ token[m][f.key] = f.token \/ again' = [again EXCEPT ![m] = @ \cup {rejoin}]
          BY <2>1, <2>3, <3>1, <4>2 DEF TypeOK
        <5>2. token[m][f.key] # f.token
          BY <2>2, <2>6, <3>1, <3>3, <5>1 DEF TokensFresh
        <5>3. rejoin \in again'[k]
          BY <5>1, <5>2 DEF TypeOK
        <5>. QED
          BY <2>1, <3>1, <5>1, <5>3
      <4>. QED
        BY <4>1, <4>2
    <3>. QED
      BY <2>2, <2>6, <3>1, <3>2, <3>3 DEF ChallengeIsCurrent
  <2>7. ChallengeIsCurrent'
    BY <2>6 DEF ChallengeIsCurrent
  <2>. QED
    BY <2>5, <2>7
<1>8. \/ UNCHANGED <<token, timer, fetches, again, issued>>
      \/ \E j \in Newcomer, m \in Member : Ask(j, m)
      \/ \E m \in Member, at, key \in Newcomer : StrayJoin(m, at, key)
      \/ \E m \in Member : \E a \in again[m] : Retry(m, a)
      \/ \E m \in Member : InvalidJoin(m) \/ ChallengeTimer(m)
      \/ \E m \in Member : \E f \in fetches[m], j \in Newcomer :
            Challenge(m, f, j) \/ ChallengeFails(m, f)
      \/ \E m \in Member : \E f \in fetches[m] : ChallengeFails(m, f) \/ Confirm(m, f)
  BY DEF Next, vars, newcomerVars, JoinNetwork, StrayChallenge, AskFails, AddPeer
<1>. QED
  BY <1>1, <1>2, <1>3, <1>4, <1>5, <1>6, <1>7, <1>8

\* A challenge that is due is one the member can still confirm, whatever
\* requests and retries come in between.
THEOREM ChallengesAreCurrent == Spec => []ChallengeIsCurrent
<1>1. Init => ChallengeInv
  BY DEF Init, ChallengeInv, TokensFresh, ChallengeIsCurrent
<1>2. TypeOK /\ ChallengeInv /\ [Next]_vars => ChallengeInv'
  BY ChallengeStep
<1>3. ChallengeInv => ChallengeIsCurrent
  BY DEF ChallengeInv
<1>. QED
  BY <1>1, <1>2, <1>3, TypeCorrect, PTL DEF Spec
=============================================================================
