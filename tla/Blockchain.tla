----------------------------- MODULE Blockchain -----------------------------
(***************************************************************************)
(* What one node derives from its blocks: the peers, their stake, the      *)
(* weight a quorum is measured against, the open votes on stakes and the   *)
(* database of states (src/chain/blockchain.ts: init, reset, add,          *)
(* updateCache, processState, addPeer, removePeer, modifyStake), and how   *)
(* it starts (src/net/server.ts start, src/net/bootstrap.ts                *)
(* syncWithNetwork).                                                       *)
(*                                                                         *)
(* add() is asynchronous: it waits for the store, and between any two      *)
(* commands of the block.  Meanwhile a vote, a confirmation or a sync may  *)
(* start another add() of the same block, which passes the same checks.    *)
(* Once one of the calls is through, the next block may be added while the *)
(* others still apply theirs; whatever their order, each of them ends by   *)
(* setting the height to that of its own block.                            *)
(***************************************************************************)
EXTENDS Integers, SequencesExt

CONSTANTS
    Peer,            \* public keys
    Self,            \* the public key of this node
    Body,            \* the blocks the network may decide
    LocalGenesis,    \* the genesis block in the file system of the node
    NetworkGenesis,  \* the genesis block of the network the node enters
    Bootstrapping,   \* whether config.bootstrap may be set, at a start
    MaxHeight,       \* bound: height of the chain
    MaxAdds,         \* bound: calls of add() under way
    MaxCrashes       \* bound: restarts

\* A command with the origin of its transaction; a block of such commands, with
\* the peers that voted for it and whether its hash calls for a stake vote.  The
\* amount is a change of a stake, or what a data command stores.
Command ==
    [op : {"addPeer", "removePeer", "modifyStake", "data", "decision"}, origin : Peer,
     peer : Peer, amount : Int]
Block == [cmds : Seq(Command), voters : SUBSET Peer, match : BOOLEAN]

ASSUME PeerAssumption == IsFiniteSet(Peer) /\ Self \in Peer
\* validateTx: only a peer itself may remove it.
ASSUME BodyAssumption ==
    /\ Body \subseteq Block
    /\ \A b \in Body : \A i \in DOMAIN b.cmds :
          b.cmds[i].op = "removePeer" => b.cmds[i].origin = b.cmds[i].peer
ASSUME GenesisAssumption == LocalGenesis \in Block /\ NetworkGenesis \in Block
ASSUME BoundAssumption ==
    /\ Bootstrapping \subseteq BOOLEAN /\ MaxHeight \in Nat \ {0} /\ MaxAdds \in Nat /\ MaxCrashes \in Nat

VARIABLES
    bootstrap, \* config.bootstrap is set
    phase,     \* init() runs; the node enters the network; it is up; it has failed
    store,     \* dbBlockchain
    height,    \* Blockchain.height
    state,     \* mapPeer, quorumWeighted, mapModifyStake and dbState
    voted,     \* mapVoteStake: the peers with votes on blocks to reward
    adds,      \* the calls of add() under way, each with its block and its progress
    decided,   \* history: the blocks of the network, as far as the node began to add them
    twice,     \* history: since the start, two calls were under way for one height
    overtaken, \* history: since the start, a block was begun with earlier ones under way
    crashes    \* restarts so far

histories == <<decided, twice, overtaken, crashes>>
vars == <<bootstrap, phase, store, height, state, voted, adds, decided, twice, overtaken, crashes>>

\* dbState has a key for each peer, with its stake, and one per origin for data.
Missing == -1
NoState ==
    [members |-> {}, stake |-> [p \in Peer |-> 0], weight |-> 0, ballots |-> {},
     dbPeer |-> [p \in Peer |-> Missing], dbData |-> [p \in Peer |-> Missing]]

-----------------------------------------------------------------------------
(* processState, as functions of the state st.                              *)

Larger(i, j) == IF i >= j THEN i ELSE j

StakeOf(st, S) ==
    LET sum[T \in SUBSET S] ==
            IF T = {} THEN 0
            ELSE LET p == CHOOSE p \in T : TRUE IN st.stake[p] + sum[T \ {p}]
    IN  sum[S]

HasQuorumWeighted(st, S) == 2 * StakeOf(st, S) > st.weight

AddPeer(st, c) ==
    IF c.peer \in st.members THEN st
    ELSE [st EXCEPT !.members = @ \cup {c.peer}, !.stake[c.peer] = 1, !.weight = @ + 1,
                    !.dbPeer[c.peer] = 1]

\* Leaves the peer in dbState.
RemoveKeepsKey(st, c) ==
    IF c.peer \notin st.members THEN st
    ELSE [st EXCEPT !.members = @ \ {c.peer}, !.stake[c.peer] = 0, !.weight = @ - st.stake[c.peer]]

\* Open votes for and by the peer remain.
RemovePeer(st, c) ==
    IF c.peer \notin st.members THEN st
    ELSE [st EXCEPT !.members = @ \ {c.peer}, !.stake[c.peer] = 0, !.weight = @ - st.stake[c.peer],
                    !.dbPeer[c.peer] = Missing]

\* The votes on the same change of the same stake.
SameBallot(st, c) == {v \in st.ballots : v.peer = c.peer /\ v.amount = c.amount}
Voters(st, c) == {v.origin : v \in SameBallot(st, c)}

\* A stake does not drop below 0.
Clamped(st, c) == Larger(c.amount, -st.stake[c.peer])

IgnoresVote(st, c) ==
    c.peer \notin st.members \/ c.peer = c.origin \/ c.origin \in Voters(st, c)

Decides(st, c) ==
    ~IgnoresVote(st, c) /\ HasQuorumWeighted(st, Voters(st, c) \cup {c.origin})

\* Takes the change as it is for the weight.
ModifyUnclamped(st, c) ==
    IF IgnoresVote(st, c) THEN st
    ELSE IF ~Decides(st, c)
    THEN [st EXCEPT !.ballots = @ \cup {[peer |-> c.peer, amount |-> c.amount, origin |-> c.origin]}]
    ELSE [st EXCEPT !.ballots = @ \ SameBallot(st, c),
                    !.stake[c.peer] = @ + Clamped(st, c), !.weight = @ + c.amount,
                    !.dbPeer[c.peer] = st.stake[c.peer] + Clamped(st, c)]

\* Lets a stake drop below 0.
StakeBelowZero(st, c) ==
    IF IgnoresVote(st, c) THEN st
    ELSE IF ~Decides(st, c)
    THEN [st EXCEPT !.ballots = @ \cup {[peer |-> c.peer, amount |-> c.amount, origin |-> c.origin]}]
    ELSE [st EXCEPT !.ballots = @ \ SameBallot(st, c),
                    !.stake[c.peer] = @ + c.amount, !.weight = @ + c.amount,
                    !.dbPeer[c.peer] = st.stake[c.peer] + c.amount]

\* modifyStake: one more vote, and the change once a quorum has voted for it.
ModifyStake(st, c) ==
    IF IgnoresVote(st, c) THEN st
    ELSE IF ~Decides(st, c)
    THEN [st EXCEPT !.ballots = @ \cup {[peer |-> c.peer, amount |-> c.amount, origin |-> c.origin]}]
    ELSE [st EXCEPT !.ballots = @ \ SameBallot(st, c),
                    !.stake[c.peer] = @ + Clamped(st, c), !.weight = @ + Clamped(st, c),
                    !.dbPeer[c.peer] = st.stake[c.peer] + Clamped(st, c)]

Process(st, c) ==
    CASE c.op = "addPeer" -> AddPeer(st, c)
      [] c.op = "removePeer" -> RemovePeer(st, c)
      [] c.op = "modifyStake" -> ModifyStake(st, c)
      [] c.op = "data" -> [st EXCEPT !.dbData[c.origin] = c.amount]
      [] c.op = "decision" -> st      \* no decision is ever taken

\* modifyStake writes the clamped value back into the command, that is into
\* the block object (the store has its text already).
Rewritten(st, c) ==
    IF c.op = "modifyStake" /\ Decides(st, c) THEN [c EXCEPT !.amount = Clamped(st, c)] ELSE c

\* The state after the first n of some commands.
After(st, cmds, n) ==
    LET after[k \in 0..n] == IF k = 0 THEN st ELSE Process(after[k - 1], cmds[k])
    IN  after[n]

ProcessState(st, b) == After(st, b.cmds, Len(b.cmds))

\* The voters a block adds to mapVoteStake.
VotedWith(b, st) == voted \cup (b.voters \cap st.members)

-----------------------------------------------------------------------------
(* add().                                                                   *)

\* A call of add() with a block of the next height: height, previousHash and
\* transactions are right, and the votes are a quorum by what this node knows.
Checked(b) == phase = "up" /\ height < MaxHeight /\ HasQuorumWeighted(state, b.voters)

\* An assumption about the network: it decides one block per height (Agreement,
\* module BlockFactory).
Decided(b) == height + 1 \in DOMAIN decided => b = decided[height + 1]

\* A call keeps the text for the store (json) and the content of its block
\* object, which the calls with the same object share.
Objects == {adds[i].object : i \in DOMAIN adds}

Begin(call) ==
    /\ Len(adds) < MaxAdds
    /\ adds' = Append(adds, call)
    /\ twice' = (twice \/ \E i \in DOMAIN adds : adds[i].at = height + 1)
    /\ overtaken' = (overtaken \/ \E i \in DOMAIN adds : adds[i].at # height + 1)
    /\ UNCHANGED <<bootstrap, phase, store, height, state, voted, crashes>>

\* A block object of its own, from a proposal or from a sync.
Add(b) ==
    /\ Checked(b) /\ Decided(b)
    /\ \E o \in 1..MaxAdds \ Objects :
          /\ 1..(o - 1) \subseteq Objects
          /\ Begin([json |-> b, block |-> b, object |-> o, at |-> height + 1, next |-> 0])
    /\ decided' = IF height + 1 \in DOMAIN decided THEN decided ELSE Append(decided, b)

\* One more vote or confirmation: the block object of call i once more.
AddAgain(i) ==
    /\ adds[i].at = height + 1 /\ Checked(adds[i].block)
    /\ Begin([adds[i] EXCEPT !.json = adds[i].block, !.next = 0])
    /\ UNCHANGED decided

\* Keeps a block that is put twice as two blocks.
PutAppends(i) ==
    /\ adds[i].next = 0
    /\ store' = Append(store, adds[i].json)
    /\ adds' = [adds EXCEPT ![i].next = 1]
    /\ UNCHANGED <<bootstrap, phase, height, state, voted, histories>>

\* The block is on the store.
Put(i) ==
    /\ adds[i].next = 0
    /\ store' = IF adds[i].at \in DOMAIN store
                THEN [store EXCEPT ![adds[i].at] = adds[i].json]
                ELSE Append(store, adds[i].json)
    /\ adds' = [adds EXCEPT ![i].next = 1]
    /\ UNCHANGED <<bootstrap, phase, height, state, voted, histories>>

\* processState, one command of the block.
Step(i) ==
    LET k == adds[i].next
        b == adds[i].block
        now == [b EXCEPT !.cmds[k] = Rewritten(state, @)]
    IN  /\ k \in DOMAIN b.cmds
        /\ state' = Process(state, b.cmds[k])
        /\ adds' = [j \in DOMAIN adds |->
              [adds[j] EXCEPT !.block = IF adds[j].object = adds[i].object THEN now ELSE @,
                              !.next = IF j = i THEN k + 1 ELSE @]]
        /\ UNCHANGED <<bootstrap, phase, store, height, voted, histories>>

\* updateCache.  Some hashes call for a vote on the stake of the peer that
\* voted for most blocks, other than this node; it may be dropped from the
\* map then.  Without such a peer, or without a network, that fails.
UpdateCache(i) ==
    LET block == adds[i].block
        now == VotedWith(block, state)
    IN  /\ adds[i].next = Len(block.cmds) + 1
        /\ height' = adds[i].at
        /\ adds' = RemoveAt(adds, i)
        /\ \/ /\ block.match => now = {}
              /\ voted' = now /\ UNCHANGED phase
           \/ /\ block.match
              /\ \E p \in now \ {Self} : voted' \in {now, now \ {p}}
              /\ UNCHANGED phase
           \/ /\ block.match /\ now # {} /\ now \subseteq {Self}
              /\ voted' = now /\ phase' = "failed"
        /\ UNCHANGED <<bootstrap, store, state, histories>>

-----------------------------------------------------------------------------
(* Start.                                                                   *)

\* Open votes survive the restart.
RestartKeepsState ==
    /\ crashes < MaxCrashes /\ crashes' = crashes + 1
    /\ phase' = "init" /\ height' = 0 /\ voted' = {} /\ adds' = <<>>
    /\ twice' = FALSE /\ overtaken' = FALSE
    /\ state' = [NoState EXCEPT !.ballots = state.ballots]
    /\ bootstrap' \in Bootstrapping
    /\ store' = IF bootstrap' THEN <<LocalGenesis>> ELSE store
    /\ decided' = IF bootstrap' THEN <<LocalGenesis>> ELSE decided

\* The process ends, at any point, and starts again.  A node that is to enter
\* a network starts with an empty store, hence with its own genesis block.
Restart ==
    /\ crashes < MaxCrashes /\ crashes' = crashes + 1
    /\ phase' = "init" /\ height' = 0 /\ voted' = {} /\ adds' = <<>>
    /\ twice' = FALSE /\ overtaken' = FALSE
    /\ state' = NoState
    /\ bootstrap' \in Bootstrapping
    /\ store' = IF bootstrap' THEN <<LocalGenesis>> ELSE store
    /\ decided' = IF bootstrap' THEN <<LocalGenesis>> ELSE decided

\* init(): the next block of the store.  Unlike add() it calls updateCache
\* first; and there is no network yet, so a vote on a stake fails.
LoadBlock ==
    LET b == store[height + 1]
        now == VotedWith(b, state)
    IN  /\ phase = "init" /\ height < Len(store)
        /\ \/ /\ b.match => now = {}
              /\ height' = height + 1
              /\ voted' = now
              /\ state' = ProcessState(state, b)
              /\ UNCHANGED phase
           \/ /\ b.match /\ now # {}
              /\ phase' = "failed"
              /\ UNCHANGED <<height, voted, state>>
        /\ UNCHANGED <<bootstrap, store, adds, histories>>

Listen ==
    /\ phase = "init" /\ height = Len(store)
    /\ phase' = IF bootstrap THEN "entering" ELSE "up"
    /\ UNCHANGED <<bootstrap, store, height, state, voted, adds, histories>>

\* clear(), as far as the state goes: only mapPeer is emptied.
ClearedState == [NoState EXCEPT !.weight = state.weight, !.ballots = state.ballots]

\* A node can ask others once its own blocks give it another peer to ask.
ReachesNetwork == Cardinality(state.members) >= 2

\* syncWithNetwork: reset(genesis) with the genesis block of the network.  The
\* blocks that follow come through add().
EnterNetwork ==
    /\ phase = "entering" /\ ReachesNetwork
    /\ phase' = "up"
    /\ store' = <<NetworkGenesis>> /\ height' = 1
    /\ voted' = VotedWith(NetworkGenesis, ClearedState)
    /\ state' = ProcessState(ClearedState, NetworkGenesis)
    /\ decided' = store'
    /\ UNCHANGED <<bootstrap, adds, twice, overtaken, crashes>>

\* No peer answers, or its latest block is the same: the node stays as it is.
EnterUnchanged ==
    /\ phase = "entering"
    /\ phase' = "up"
    /\ UNCHANGED <<bootstrap, store, height, state, voted, adds, histories>>

-----------------------------------------------------------------------------
Init ==
    /\ bootstrap \in Bootstrapping
    /\ phase = "init" /\ store = <<LocalGenesis>> /\ height = 0
    /\ state = NoState /\ voted = {}
    /\ adds = <<>> /\ decided = store /\ twice = FALSE /\ overtaken = FALSE /\ crashes = 0

Next ==
    \/ \E b \in Body : Add(b)
    \/ \E i \in DOMAIN adds : AddAgain(i)
    \/ \E i \in DOMAIN adds : Put(i)
    \/ \E i \in DOMAIN adds : Step(i)
    \/ \E i \in DOMAIN adds : UpdateCache(i)
    \/ Restart
    \/ LoadBlock
    \/ Listen
    \/ EnterNetwork
    \/ EnterUnchanged

Spec == Init /\ [][Next]_vars

-----------------------------------------------------------------------------
(* Properties.                                                              *)

\* Every variable has its type.
TypeOK ==
    /\ bootstrap \in BOOLEAN /\ phase \in {"init", "entering", "up", "failed"}
    /\ store \in Seq(Block) /\ height \in 0..MaxHeight
    /\ state.members \subseteq Peer /\ state.stake \in [Peer -> Nat] /\ state.weight \in Int
    /\ state.ballots \subseteq [peer : Peer, amount : Int, origin : Peer]
    /\ state.dbPeer \in [Peer -> Int] /\ state.dbData \in [Peer -> Int]
    /\ voted \subseteq Peer
    /\ adds \in Seq([json : Block, block : Block, object : 1..MaxAdds, at : 1..MaxHeight, next : Nat])
    /\ decided \in Seq(Block)
    /\ twice \in BOOLEAN /\ overtaken \in BOOLEAN /\ crashes \in 0..MaxCrashes

\* What a quorum is measured against is the stake of all peers: through joins,
\* leaves, votes on stakes, clamping at 0, restarts and overlapping calls.  (Not
\* so in a node that enters a network, see UnanimityIsQuorum.)
WeightIsStake == ~bootstrap => state.weight = StakeOf(state, Peer)

\* Any two sets of voters that are a quorum for a node, be it for a block or for
\* a change of a stake, have a peer with a stake in common: also for a node that
\* has entered a network, whose weight is too large rather than too small.
QuorumsMeet ==
    LET quorums == {S \in SUBSET Peer : HasQuorumWeighted(state, S)}
    IN  \A S, T \in quorums : \E p \in S \cap T : state.stake[p] > 0

\* What the first n of some blocks give.
Replay(blocks, n) ==
    LET after[k \in 0..n] == IF k = 0 THEN NoState ELSE ProcessState(after[k - 1], blocks[k])
    IN  after[n]

Replayed == Replay(store, height)
AtRest == phase = "up" /\ adds = <<>>

\* "Each peer in the network represents a round-based state machine"
\* (README.md, 15): stakes, open votes and stored states are a function of the
\* blocks, so that nodes with equal chains, and a node after a restart, agree on
\* them, also on what GET /state answers.  Votes on stakes are counted in every
\* call of add(), so this takes one call per block.
StateIsReplay == AtRest /\ ~bootstrap /\ ~twice => state = Replayed

\* dbState is in step with mapPeer, whatever overlaps.  As long as no block is
\* begun while calls for an earlier one are under way, overlapping calls of one
\* block and another genesis block leave the set of peers and the data of the
\* clients what the blocks say: the last of the calls stores the last value,
\* whatever came in between.  (A call that is overtaken stores its old values
\* over those of the later block.)
DatabaseIsRight ==
    AtRest =>
        /\ \A p \in Peer : state.dbPeer[p] = IF p \in state.members THEN state.stake[p] ELSE Missing
        /\ ~overtaken => state.members = Replayed.members /\ state.dbData = Replayed.dbData

\* "as soon as consensus (2/3 of the network peers) is reached through voting
\* [...] peers will create the new block" (README.md, 19): at the very least
\* the votes of all peers are a quorum.
UnanimityIsQuorum ==
    AtRest /\ state.members # {} => HasQuorumWeighted(state, state.members)

\* A node that was up starts again from the blocks it has stored: it may skip
\* bootstrapping (README.md, 41), and containers restart with the store kept
\* (test/join-i2p-testnet.yml, 67 and 88).
RestartSucceeds == phase # "failed"
=============================================================================
