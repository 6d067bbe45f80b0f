----------------------------- MODULE Bootstrap -----------------------------
(***************************************************************************)
(* How newcomers join the network (src/net/bootstrap.ts: joinNetwork,      *)
(* challenge, join, confirm; src/net/api.ts: join, challenge).             *)
(*                                                                         *)
(* A newcomer asks one member after the other to join, until one accepts.  *)
(* Half a minute later that member sends a token to the address it was     *)
(* given.  A newcomer signs one token per start; with the signature of the *)
(* key it was given the member stacks the transaction that adds the peer.  *)
(*                                                                         *)
(* A token is a number; a signature is the pair of key and token.  An      *)
(* address is named after a node, but only names a route: a request may    *)
(* combine it with the key of another node, and since /challenge answers   *)
(* anybody, the answer from it may be any newcomer's.                      *)
(***************************************************************************)
EXTENDS Integers, FiniteSets

CONSTANTS
    Member,         \* nodes that are in the network
    Newcomer,       \* nodes that are not
    Malformed,      \* newcomers whose addresses validateTx refuses
    MaxRetryJoin,   \* MAX_RETRY_JOIN
    MaxStarts,      \* bound: starts of one newcomer
    MaxStrays       \* bound: requests not made by joinNetwork or join()

ASSUME NodeAssumption == IsFiniteSet(Member) /\ IsFiniteSet(Newcomer) /\ Malformed \subseteq Newcomer
ASSUME BoundAssumption ==
    /\ MaxRetryJoin \in Nat /\ MaxStarts \in Nat /\ MaxStrays \in Nat

VARIABLES
    \* a newcomer
    starts,      \* how often it has started
    asking,      \* the members joinNetwork has still to ask
    joining,     \* isJoiningNetwork
    \* a member
    token,       \* mapToken: the token of each key, 0 for none
    timer,       \* timeoutChallenge: the challenge it will send, at most one
    fetches,     \* the challenges it has sent
    again,       \* the retries that wait for setImmediate
    stacked,     \* the keys it has stacked a transaction for, with the token
    \* the network
    peers,       \* the newcomers the blockchain has added
    issued,      \* tokens issued so far
    strays       \* requests not made by joinNetwork or join()

vars == <<starts, asking, joining, token, timer, fetches, again, stacked, peers, issued,
          strays>>
newcomerVars == <<starts, asking, joining>>

\* A challenge sent to an address for a key: r is the parameter of join(),
\* signed the node whose signature is the answer, {} before there is one.
Job == [at : Newcomer, key : Newcomer, token : Nat \ {0}, r : Nat, signed : SUBSET Newcomer]
NoJob == [at |-> "none"]
Rejoin == [at : Newcomer, key : Newcomer, r : Nat]
Admission == [key : Newcomer, token : Nat \ {0}]

-----------------------------------------------------------------------------
(* A newcomer.                                                              *)

\* start: joinNetwork, unless the node finds itself in the network already.
JoinNetwork(j) ==
    /\ starts[j] < MaxStarts /\ j \notin peers
    /\ starts' = [starts EXCEPT ![j] = @ + 1]
    /\ asking' = [asking EXCEPT ![j] = Member]
    /\ joining' = [joining EXCEPT ![j] = TRUE]
    /\ UNCHANGED <<token, timer, fetches, again, stacked, peers, issued, strays>>

-----------------------------------------------------------------------------
(* join() of a member.                                                      *)

ShortToken == 0

FreshToken == issued + 1

Refuses(m, key) == token[m][key] # 0 \/ key \in peers

\* Tests the request before it stops the challenge that is due.
JoinTestsFirst(m, at, key, r) ==
    \/ /\ Refuses(m, key)
       /\ token' = [token EXCEPT ![m][key] = 0]
       /\ UNCHANGED <<timer, issued>>
    \/ /\ ~Refuses(m, key)
       /\ token' = [token EXCEPT ![m][key] = FreshToken]
       /\ timer' = [timer EXCEPT ![m] = [at |-> at, key |-> key, token |-> FreshToken,
                                        r |-> r, signed |-> {}]]
       /\ issued' = issued + 1

\* Whatever comes of it, the challenge that is due is cancelled.
Join(m, at, key, r) ==
    \/ /\ Refuses(m, key)
       /\ token' = [token EXCEPT ![m][key] = 0]
       /\ timer' = [timer EXCEPT ![m] = NoJob]
       /\ UNCHANGED issued
    \/ /\ ~Refuses(m, key)
       /\ token' = [token EXCEPT ![m][key] = FreshToken]
       /\ timer' = [timer EXCEPT ![m] = [at |-> at, key |-> key, token |-> FreshToken,
                                        r |-> r, signed |-> {}]]
       /\ issued' = issued + 1

\* The next member joinNetwork asks: it answers 200 if it accepts, which ends
\* the search, or 403; or the answer does not arrive in time.
Ask(j, m) ==
    /\ m \in asking[j]
    /\ Join(m, j, j, 0)
    /\ \/ ~Refuses(m, j) /\ asking' = [asking EXCEPT ![j] = {}]
       \/ asking' = [asking EXCEPT ![j] = @ \ {m}]
    /\ UNCHANGED <<starts, joining, fetches, again, stacked, peers, strays>>

\* The request does not arrive.
AskFails(j, m) ==
    /\ m \in asking[j]
    /\ asking' = [asking EXCEPT ![j] = @ \ {m}]
    /\ UNCHANGED <<starts, joining, token, timer, fetches, again, stacked, peers, issued, strays>>

\* Anybody may send GET /join, with the address of one node and the key of
\* another one.
StrayJoin(m, at, key) ==
    /\ strays < MaxStrays /\ strays' = strays + 1
    /\ Join(m, at, key, 0)
    /\ UNCHANGED <<fetches, again, stacked, peers>> /\ UNCHANGED newcomerVars

\* A public key in the wrong format.
InvalidJoin(m) ==
    /\ strays < MaxStrays /\ strays' = strays + 1
    /\ timer' = [timer EXCEPT ![m] = NoJob]
    /\ UNCHANGED <<token, fetches, again, stacked, peers, issued>>
    /\ UNCHANGED newcomerVars

-----------------------------------------------------------------------------
(* Challenge and confirmation.                                              *)

\* WAIT_JOIN_MS after join().
ChallengeTimer(m) ==
    /\ timer[m] # NoJob
    /\ fetches' = [fetches EXCEPT ![m] = @ \cup {timer[m]}]
    /\ timer' = [timer EXCEPT ![m] = NoJob]
    /\ UNCHANGED <<token, again, stacked, peers, issued, strays>>
    /\ UNCHANGED newcomerVars

ChallengeKeepsFlag(m, f, j) ==
    /\ f \in fetches[m] /\ f.signed = {}
    /\ fetches' = [fetches EXCEPT ![m] = IF joining[j] THEN (@ \ {f}) \cup {[f EXCEPT !.signed = {j}]}
                                                       ELSE @ \ {f}]
    /\ UNCHANGED <<starts, asking, joining, token, timer, again, stacked, peers, issued, strays>>

\* challenge(): the node that answers signs while it is joining, and is not
\* joining any more.  Otherwise it answers 403, and fetchFromApi yields nothing.
Challenge(m, f, j) ==
    /\ f \in fetches[m] /\ f.signed = {}
    /\ fetches' = [fetches EXCEPT ![m] = IF joining[j] THEN (@ \ {f}) \cup {[f EXCEPT !.signed = {j}]}
                                                       ELSE @ \ {f}]
    /\ joining' = [joining EXCEPT ![j] = FALSE]
    /\ UNCHANGED <<starts, asking, token, timer, again, stacked, peers, issued, strays>>

\* Anybody may send GET /challenge: the node is not joining any more, and
\* nobody waits for its signature.
StrayChallenge(j) ==
    /\ strays < MaxStrays /\ strays' = strays + 1
    /\ joining' = [joining EXCEPT ![j] = FALSE]
    /\ UNCHANGED <<starts, asking, token, timer, fetches, again, stacked, peers, issued>>

\* The challenge or its answer gets lost: fetchFromApi swallows the error.
ChallengeFails(m, f) ==
    /\ f \in fetches[m]
    /\ fetches' = [fetches EXCEPT ![m] = @ \ {f}]
    /\ UNCHANGED <<token, timer, again, stacked, peers, issued, strays>>
    /\ UNCHANGED newcomerVars

\* There is a token for the key, and it is the one that the key has signed.
VerifySignature(m, f) ==
    token[m][f.key] # 0 /\ f.key \in f.signed /\ token[m][f.key] = f.token

Confirms(m, f) == VerifySignature(m, f) /\ f.at \notin Malformed

\* confirm().  If it throws, join() is called again with the value of r before
\* its increment; beyond the limit the token stays.
Confirm(m, f) ==
    /\ f \in fetches[m] /\ f.signed # {}
    /\ fetches' = [fetches EXCEPT ![m] = @ \ {f}]
    /\ \/ /\ Confirms(m, f)
          /\ stacked' = [stacked EXCEPT ![m] = @ \cup {[key |-> f.key, token |-> f.token]}]
          /\ token' = [token EXCEPT ![m][f.key] = 0]
          /\ UNCHANGED again
       \/ /\ ~Confirms(m, f)
          /\ IF f.r < MaxRetryJoin
                THEN /\ token' = [token EXCEPT ![m][f.key] = 0]
                     /\ again' = [again EXCEPT ![m] = @ \cup {[at |-> f.at, key |-> f.key, r |-> f.r]}]
                ELSE UNCHANGED <<token, again>>
          /\ UNCHANGED stacked
    /\ UNCHANGED <<timer, peers, issued, strays>> /\ UNCHANGED newcomerVars

Retry(m, a) ==
    /\ a \in again[m]
    /\ again' = [again EXCEPT ![m] = @ \ {a}]
    /\ Join(m, a.at, a.key, a.r)
    /\ UNCHANGED <<fetches, stacked, peers, strays>> /\ UNCHANGED newcomerVars

Stacked == UNION {stacked[m] : m \in Member}

\* A block with the transaction is added.
AddPeer(key) ==
    /\ key \notin peers /\ \E p \in Stacked : p.key = key
    /\ peers' = peers \cup {key}
    /\ UNCHANGED <<token, timer, fetches, again, stacked, issued, strays>>
    /\ UNCHANGED newcomerVars

-----------------------------------------------------------------------------
Init ==
    /\ starts = [j \in Newcomer |-> 0] /\ asking = [j \in Newcomer |-> {}]
    /\ joining = [j \in Newcomer |-> FALSE]
    /\ token = [m \in Member |-> [j \in Newcomer |-> 0]]
    /\ timer = [m \in Member |-> NoJob]
    /\ fetches = [m \in Member |-> {}] /\ again = [m \in Member |-> {}]
    /\ stacked = [m \in Member |-> {}]
    /\ peers = {} /\ issued = 0 /\ strays = 0

Next ==
    \/ \E j \in Newcomer : JoinNetwork(j)
    \/ \E j \in Newcomer, m \in Member : Ask(j, m)
    \/ \E j \in Newcomer, m \in Member : AskFails(j, m)
    \/ \E m \in Member, at, key \in Newcomer : StrayJoin(m, at, key)
    \/ \E m \in Member : InvalidJoin(m)
    \/ \E m \in Member : ChallengeTimer(m)
    \/ \E m \in Member : \E f \in fetches[m], j \in Newcomer : Challenge(m, f, j)
    \/ \E j \in Newcomer : StrayChallenge(j)
    \/ \E m \in Member : \E f \in fetches[m] : ChallengeFails(m, f)
    \/ \E m \in Member : \E f \in fetches[m] : Confirm(m, f)
    \/ \E m \in Member : \E a \in again[m] : Retry(m, a)
    \/ \E key \in Newcomer : AddPeer(key)

Spec == Init /\ [][Next]_vars

-----------------------------------------------------------------------------
(* Properties.                                                              *)

\* Every variable has its type.
TypeOK ==
    /\ starts \in [Newcomer -> 0..MaxStarts] /\ asking \in [Newcomer -> SUBSET Member]
    /\ joining \in [Newcomer -> BOOLEAN]
    /\ token \in [Member -> [Newcomer -> Nat]]
    /\ timer \in [Member -> Job \cup {NoJob}]
    /\ fetches \in [Member -> SUBSET Job] /\ again \in [Member -> SUBSET Rejoin]
    /\ stacked \in [Member -> SUBSET Admission]
    /\ peers \subseteq Newcomer /\ issued \in Nat
    /\ strays \in 0..MaxStrays

\* A newcomer is added only if it has asked to join, and no more often: however
\* many members it has asked, and whoever passes their challenges on to it, one
\* start yields at most one transaction for it.
AdmittedOnce ==
    \A j \in Newcomer : Cardinality({p \in Stacked : p.key = j}) <= starts[j]

\* A challenge that is due is one the member can still confirm: its
\* token is the latest one for the key, unless a retry will replace it.
ChallengeIsCurrent ==
    \A m \in Member :
        timer[m] # NoJob =>
            \/ token[m][timer[m].key] = timer[m].token
            \/ \E a \in again[m] : a.key = timer[m].key
=============================================================================
