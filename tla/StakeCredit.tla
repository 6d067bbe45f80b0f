---------------------------- MODULE StakeCredit ----------------------------
(***************************************************************************)
(* How nodes come to vote on stakes: the credits a node keeps for every    *)
(* peer and the votes it collects (src/net/server.ts: proposeModifyStake,  *)
(* incStakeCredit, stackTx), the two occasions to place a vote - a block   *)
(* whose hash calls for one (src/chain/blockchain.ts: updateCache) and     *)
(* regular status messages of a peer (src/net/block-factory.ts:            *)
(* processStatus) - and the credit for a vote received (modifyStake).      *)
(*                                                                         *)
(* Consensus is taken as given here (module BlockFactory): there is one    *)
(* chain, a stacked transaction stays until a block has it, and every node *)
(* adds the blocks in their order.                                         *)
(***************************************************************************)
EXTENDS Integers, Sequences, FiniteSets

CONSTANTS
    Node,          \* the peers
    Quorum,        \* the sets of peers that vote for a block
    SampleSize,    \* STAKE_PING_SAMPLE_SIZE
    MaxCommands,   \* commands that the schema admits in one transaction
    Busy,          \* bound: the nodes that take steps; the others are too slow to
    MaxHeight,     \* bound: blocks
    MaxPings,      \* bound: status messages
    MaxFaults      \* bound: restarts, and blocks that are applied twice

N == Cardinality(Node)

\* The list of collected votes grows to a third of the network at most; a
\* transaction must have room for it.
ASSUME NodeAssumption == IsFiniteSet(Node) /\ N <= 3 * MaxCommands
\* No peer is a quorum by itself (updateCache fails in a network of one).
ASSUME QuorumAssumption == \A Q \in Quorum : Q \subseteq Node /\ \E p, q \in Q : p # q
ASSUME BoundAssumption ==
    /\ SampleSize \in Nat \ {0} /\ MaxCommands \in Nat /\ Busy \subseteq Node
    /\ MaxHeight \in Nat /\ MaxPings \in Nat /\ MaxFaults \in Nat

\* A vote for the stake of a peer; the ident tells the two occasions apart.
Ident == {"ping", "vote"}
Vote == [peer : Node, ident : Ident]
Placed == [origin : Node, peer : Node, ident : Ident]

\* A block: the votes on stakes in it, the peers that voted for the block, and
\* whether its hash calls for a vote on a stake.
Block == [placed : SUBSET Placed, voters : Quorum, match : BOOLEAN]

VARIABLES
    server,    \* per node: mapStakeCredit, stackModifyStake, stacked transactions
    count,     \* per node: mapVoteStake
    samples,   \* per node: mapAvailability, the number of samples of a peer
    online,    \* per node: the keys of mapOnline
    chain,     \* the blocks of the network
    applied,   \* per node: the height of its chain
    upset,     \* history: nodes that have restarted or applied a block twice
    pings,     \* status messages so far
    faults     \* restarts and repeated blocks so far

vars == <<server, count, samples, online, chain, applied, upset, pings, faults>>

NoCount == [p \in Node |-> 0]
NewServer == [credit |-> NoCount, pending |-> {}, stack |-> <<>>]

-----------------------------------------------------------------------------
(* proposeModifyStake, as functions of the fields s of Server and of the    *)
(* number k of peers in mapOnline.                                          *)

\* The credit is compared as it was before the vote.
BeforeDebit(credit, k) == 3 * (credit + 1) > -k

\* credit > -1 * (k / 3)
CreditSuffices(credit, k) == 3 * credit > -k

\* The list is emptied first, and an empty transaction is invalid.
FlushesEmptied(s, k) ==
    IF 3 * Cardinality(s.pending) < k THEN s ELSE [s EXCEPT !.pending = {}]

\* A third of the online peers collected: one transaction with all votes, if
\* it is valid; the list is emptied anyway.
Flushed(s, k) ==
    IF 3 * Cardinality(s.pending) < k THEN s
    ELSE [s EXCEPT !.pending = {},
                   !.stack = IF Cardinality(s.pending) <= MaxCommands
                             THEN Append(@, s.pending) ELSE @]

\* The return value: TRUE also if the credit does not suffice.
Accepted(s, v) == v \notin s.pending

\* The vote is collected, the credit stays.
ProposedFree(s, k, v) ==
    IF ~Accepted(s, v) \/ ~CreditSuffices(s.credit[v.peer] - 1, k) THEN s
    ELSE Flushed([s EXCEPT !.pending = @ \cup {v}], k)

Proposed(s, k, v) ==
    IF ~Accepted(s, v) \/ ~CreditSuffices(s.credit[v.peer] - 1, k) THEN s
    ELSE Flushed([s EXCEPT !.credit[v.peer] = @ - 1, !.pending = @ \cup {v}], k)

-----------------------------------------------------------------------------
(* add(): processState, then updateCache.                                   *)

\* modifyStake: a vote for this node is a credit for its origin, before it is
\* checked whether the same vote is open already.
Credited(n, s, b) ==
    [s EXCEPT !.credit = [p \in Node |->
        @[p] + Cardinality({v \in b.placed : v.origin = p /\ v.peer = n})]]

Counted(n, b) == [p \in Node |-> IF p \in b.voters THEN count[n][p] + 1 ELSE count[n][p]]

\* The peers other than n with most votes on blocks; of several the code takes
\* the greatest key.
Top(n, cnt) ==
    {p \in Node \ {n} : cnt[p] > 0 /\ \A q \in Node \ {n} : cnt[q] <= cnt[p]}

Process(n, b) ==
    LET s == Credited(n, server[n], b)
        cnt == Counted(n, b)
        v(p) == [peer |-> p, ident |-> "vote"]
    IN  \/ /\ ~b.match
           /\ server' = [server EXCEPT ![n] = s]
           /\ count' = [count EXCEPT ![n] = cnt]
        \/ /\ b.match
           /\ \E p \in Top(n, cnt) :
                /\ server' = [server EXCEPT ![n] = Proposed(s, Cardinality(online[n]), v(p))]
                /\ count' = [count EXCEPT ![n] = IF Accepted(s, v(p)) THEN [cnt EXCEPT ![p] = 0]
                                                                      ELSE cnt]

\* The next block of the chain.
Apply(n) ==
    /\ applied[n] < Len(chain)
    /\ applied' = [applied EXCEPT ![n] = @ + 1]
    /\ Process(n, chain[applied[n] + 1])
    /\ UNCHANGED <<samples, online, chain, upset, pings, faults>>

\* Two overlapping calls of add() apply one block twice.
ApplyAgain(n) ==
    /\ faults < MaxFaults /\ faults' = faults + 1
    /\ applied[n] > 0 /\ Process(n, chain[applied[n]])
    /\ upset' = upset \cup {n}
    /\ UNCHANGED <<samples, online, chain, applied, pings>>

-----------------------------------------------------------------------------
KeptAll(size) == size

\* slice(-1 * floor(size / 3 * 2)); slice(-0) is all of a single sample.
Kept(size) == IF size = 1 THEN 1 ELSE (2 * size) \div 3

\* processStatus of a status of p: one more sample; with enough of them p may
\* get a vote, if their dispersion is the wanted one, and two thirds are kept.
Status(n, p) ==
    LET size == samples[n][p] + 1
        k == Cardinality(online'[n])
    IN  /\ p # n /\ pings < MaxPings /\ pings' = pings + 1
        /\ online' = [online EXCEPT ![n] = @ \cup {n, p}]
        /\ \/ /\ size < SampleSize
              /\ samples' = [samples EXCEPT ![n][p] = size]
              /\ UNCHANGED server
           \/ /\ size >= SampleSize
              /\ samples' = [samples EXCEPT ![n][p] = Kept(size)]
              /\ \/ UNCHANGED server
                 \/ server' = [server EXCEPT ![n] =
                                 Proposed(@, k, [peer |-> p, ident |-> "ping"])]
        /\ UNCHANGED <<count, chain, applied, upset, faults>>

\* The network decides a block with the oldest transaction of some nodes, and
\* maybe others that do not matter here.
Decide(S, voters, match) ==
    /\ Len(chain) < MaxHeight
    /\ \A n \in S : server[n].stack # <<>>
    /\ chain' = Append(chain,
                  [placed |-> UNION {{[origin |-> n, peer |-> v.peer, ident |-> v.ident] :
                                         v \in Head(server[n].stack)} : n \in S},
                   voters |-> voters, match |-> match])
    /\ server' = [n \in Node |-> IF n \in S THEN [server[n] EXCEPT !.stack = Tail(@)]
                                            ELSE server[n]]
    /\ UNCHANGED <<count, samples, online, applied, upset, pings, faults>>

\* The process ends and starts again: all of this is in memory.  The blocks are
\* applied again, as they come from the network (a node that loads them from
\* its store does the same, unless one calls for a vote: then it fails).
Restart(n) ==
    /\ faults < MaxFaults /\ faults' = faults + 1
    /\ server' = [server EXCEPT ![n] = NewServer]
    /\ count' = [count EXCEPT ![n] = NoCount]
    /\ samples' = [samples EXCEPT ![n] = NoCount]
    /\ online' = [online EXCEPT ![n] = {}]
    /\ applied' = [applied EXCEPT ![n] = 0]
    /\ upset' = upset \cup {n}
    /\ UNCHANGED <<chain, pings>>

-----------------------------------------------------------------------------
\* All nodes have heard of each other.
Init ==
    /\ server = [n \in Node |-> NewServer]
    /\ count = [n \in Node |-> NoCount]
    /\ samples = [n \in Node |-> NoCount]
    /\ online = [n \in Node |-> Node]
    /\ chain = <<>>
    /\ applied = [n \in Node |-> 0]
    /\ upset = {}
    /\ pings = 0 /\ faults = 0

Next ==
    \/ \E n \in Busy : Apply(n)
    \/ \E n \in Busy : ApplyAgain(n)
    \/ \E n \in Busy, p \in Node : Status(n, p)
    \/ \E S \in SUBSET Busy, voters \in Quorum, match \in BOOLEAN : Decide(S, voters, match)
    \/ \E n \in Busy : Restart(n)

Spec == Init /\ [][Next]_vars

-----------------------------------------------------------------------------
(* Properties.                                                              *)

\* Every variable has its type.
TypeOK ==
    /\ server \in [Node -> [credit : [Node -> Int], pending : SUBSET Vote, stack : Seq(SUBSET Vote)]]
    /\ count \in [Node -> [Node -> Nat]]
    /\ samples \in [Node -> [Node -> 0..SampleSize]]
    /\ online \in [Node -> SUBSET Node]
    /\ chain \in Seq(Block)
    /\ applied \in [Node -> 0..Len(chain)]
    /\ upset \subseteq Node
    /\ pings \in 0..MaxPings /\ faults \in 0..MaxFaults

\* The votes for j among votes, in the transactions that a server has stacked,
\* and those of i in blocks of a chain.  Each is its place and its ident.
Votes(place, k, votes, j) == {<<place, k, v.ident>> : v \in {u \in votes : u.peer = j}}

StackVotes(s, j) == UNION {Votes("stack", k, s.stack[k], j) : k \in DOMAIN s.stack}

BlockVotes(ch, after, to, i, j) ==
    UNION {Votes("block", k, {v \in ch[k].placed : v.origin = i}, j) : k \in (after + 1)..to}

\* The votes of i for j that j has not applied yet: collected, stacked, or in a
\* block above the height of j.
InFlight(i, j) ==
    Votes("pending", 0, server[i].pending, j)
        \cup StackVotes(server[i], j) \cup BlockVotes(chain, applied[j], Len(chain), i, j)

Balance(i, j) ==
    server[i].credit[j] + server[j].credit[i]
        + Cardinality(InFlight(i, j)) + Cardinality(InFlight(j, i))

\* Credits of two peers for each other add up to nothing, counting the votes
\* that are on their way: what proposeModifyStake takes, modifyStake gives.
\* Restarts and blocks that are applied twice only ever add.
CreditConserved ==
    \A i, j \in Node : i # j =>
        /\ Balance(i, j) >= 0
        /\ i \notin upset /\ j \notin upset => Balance(i, j) = 0

CanVote(i, j) == CreditSuffices(server[i].credit[j] - 1, Cardinality(online[i]))

\* In a network of four or more, any two peers can go on voting for each other:
\* there is a vote under way between them, or one of the two has the credit for
\* one.  No order of votes and restarts leaves both without.
VotingGoesOn ==
    \A i, j \in Node :
        i # j /\ Cardinality(online[i]) >= 4 /\ Cardinality(online[j]) >= 4
        => InFlight(i, j) # {} \/ InFlight(j, i) # {} \/ CanVote(i, j) \/ CanVote(j, i)

OnChain(i, j) ==
    Cardinality(UNION {{<<k, v.ident>> : v \in {u \in chain[k].placed : u.origin = i /\ u.peer = j}} :
                           k \in DOMAIN chain})

\* "simple algorithm for credits equalizes the stake distribution" (server.ts,
\* 211): on the chain, the votes of i for j exceed those of j for i by less
\* than a third of the network, as long as i neither restarts nor applies a
\* block twice.
Equalizes ==
    \A i, j \in Node : i # j /\ i \notin upset => 3 * (OnChain(i, j) - OnChain(j, i)) < N
=============================================================================
