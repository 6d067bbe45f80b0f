# divachain: TLA+ models, checks and proofs

divachain is a small proof-of-stake blockchain in TypeScript. Nodes talk over
I2P: signed datagrams for the consensus, HTTP for reading blocks, syncing and
joining. This directory models its protocol code (`src/src` of the
repository; paths below are relative to `src/`, the root of the repository),
checks it with TLC on small instances, and proves some of the results with
TLAPS for all instances.

## 1. Inventory

| Component | State | Operations | Properties that make it correct |
|---|---|---|---|
| `net/block-factory.ts` BlockFactory | stack of commands, own transaction, pool, current block with votes, three timers, sync flag | `stack`, `doAddTx`, `processMessage` with five handlers, `addBlock`, `clear`, `setupRetry` | one block per height in the network; a block has the votes of a quorum; nothing submitted is lost; a round gets done |
| `chain/blockchain.ts` Blockchain | block store, height, latest block, cache, peers, stakes, quorum weight, open votes on stakes, state database, counted votes | `add`, `init`, `reset`, `clear`, `updateCache`, `processState`, `getRange`, `getPage`, `searchBlocks`, `getTransaction` | state is a function of the blocks; weight is the sum of stakes; a range is the range asked for; what is on the chain is found |
| `net/validation.ts` Validation | none | `validateMessage`, `validateBlock`, `validateTx` | what it accepts (part of the modules that use it) |
| `net/network.ts` Network | list of peers, list to broadcast to, who is online, highest sequence number per type and origin, two timers | `init`, `hasP2PNetwork`, `bootstrapNetwork`, `p2pNetwork`, `incomingData`, `broadcast`, `isOnline`, `fetchFromApi` | a message is processed once and in order; it reaches its addressees; a start comes to an end |
| `net/bootstrap.ts` Bootstrap | tokens, one challenge timer, joining flag | `syncWithNetwork`, `joinNetwork`, `challenge`, `join`, `confirm` | a start adds a newcomer once at most; who is accepted is challenged |
| `net/api.ts` Api | none | HTTP routes | answers as documented |
| `net/server.ts` Server | stake credits, collected stake votes | `start`, `shutdown`, `stackTx`, `proposeModifyStake`, `incStakeCredit` | a restart succeeds; credits balance; voting never comes to a standstill |
| `chain/block.ts`, `chain/transaction.ts`, `net/message/*` | data | constructors | part of the modules that use them |
| `config.ts`, `genesis.ts`, `chain/wallet.ts`, `chain/util.ts`, `logger.ts`, `main.ts` | configuration, keys | | not modelled, or as constants |

How the parts interact. The API and the timers of a node call its
BlockFactory; datagrams pass `Network.incomingData`, which drops all but the
newest of a type and origin and marks the sender as online, and reach
`processMessage`. The validator of a round is computed from the height and
from who is online. It collects transactions (AddTx), proposes a block
(ProposeBlock), counts votes (SignBlock), adds the block at the quorum and
tells the others (ConfirmBlock). `Blockchain.add` checks, waits for the store,
applies the commands (waiting again between any two), and only then moves the
height. A node that hears of a greater height fetches blocks over HTTP.
Regular status messages and blocks with certain hashes make a node vote for a
higher stake of a peer, which costs credit that votes received bring back. A
node that starts waits until it has a list of peers, from its own blocks or
from a bootstrap node, and the lists follow the blockchain once per interval.

What is hard here: every `await` is a point where other callbacks run, so
checks made before it may not hold after it; several `add` calls of one block
overlap, and one that lags ends after the next block was added; nodes disagree
on who is online, hence on the validator; datagrams get lost, late and
repeated, and are sent once; timers race messages; a restart replays the blocks
in other circumstances. `PROJECT.json` lists these hazards line by line with
the properties that cover them.

## 2. Modules

| Module | Models | Used by |
|---|---|---|
| `BlockFactory` | consensus of the nodes: BlockFactory, the guards of `add`, transport, sync, crashes | `MCBlockFactory`, `BlockFactoryProofs` and the two modules on top of it |
| `Blockchain` | one node: what is derived from the blocks, overlapping `add`, restart, entering a network | `MCBlockchain`, `BlockchainProofs` |
| `BlockRange` | one node: cache, `getRange`, `getPage` and the requests for blocks | `MCBlockRange`, `BlockRangeProofs` |
| `Bootstrap` | members and newcomers: join, challenge, confirm | `MCBootstrap`, `BootstrapProofs` |
| `StakeCredit` | how nodes come to vote on stakes: credits, collected votes, samples of status messages | `MCStakeCredit`, `StakeCreditProofs` |
| `Network` | start of a node, lists of peers, datagrams and gossip | `MCNetwork`, `NetworkProofs` |
| `Ledger` | abstract: one append-only log that every node shows some beginning of | instance in `BlockFactory` |
| `Transport` | abstract: messages handed over once and in order | instance in `Network` |
| `BlockFactoryProofs` | theorems about `BlockFactory` in every network | `BlockFactoryAgreement` |
| `BlockFactoryAgreement` | theorems about a steady network: agreement | `BlockFactoryTransactions` |
| `BlockFactoryTransactions` | theorems about pools and transactions; the refinement of `Ledger` | |
| `BlockchainProofs`, `BlockRangeProofs`, `BootstrapProofs`, `NetworkProofs`, `StakeCreditProofs` | theorems about the module they are named for | |

An action is one callback of the Node.js event loop with everything it calls
until the next `await`. Operators that stand before a definition and are
described as faulty (`ClearToTheEnd`, `AddableAnywhere`, ...) are variants of it
that a property must tell from the original; no specification uses them.

### BlockFactory

A hash is modelled by what it commits to: the sequence of transaction sets
since genesis. It is thus a chain as well, `latest[n]` is the chain up to the
latest block of node n, and equal hashes are equal chains. `store[n]` are the
blocks that n holds, by height: these two differ (see below). A transaction is
its commands with the height it is signed for. `msgs` holds every datagram ever
sent: a datagram may be received at any later time by anybody, directly or
through a peer that passes it on, or never; `seen` keeps what `mapMsgSeq`
keeps, so an overtaken datagram is lost. `adding[n]` are the calls of `add`
that have passed their checks and wait for the store.

`FinishAdd(n, i)` is the rest of `add` and of `addBlock` for any one of these
calls, including `clear` and the 50 ms timer. The calls end in any order: each
waits once for the store and once per command (`chain/blockchain.ts:144`), and
the loop of `processStatus` starts the next block while a second call for the
one before, started by a vote or a confirmation, may still be under way
(`net/block-factory.ts:295`). `updateCache` checks nothing
(`chain/blockchain.ts:152`), so the lagging call makes its own block the latest
one again: the node goes back in height while it holds the later block, and is
in `lowered` from then on. `Answer`/`FetchSync` are `GET /sync` at the peer,
which counts its blocks from the end of the cache, and that loop, which adds
one block after the other and skips those that do not fit. `Crash` keeps the
store, with any of the blocks under way, or clears it, as a node with a
bootstrap URL does (`chain/blockchain.ts:75`).

Two definitions are assumptions about the environment, not code, and are named
so where they stand. `VotesAfterWrites`: a proposal takes a round trip of votes
through I2P, and what the validator was adding when it proposed is written by
then. No guard of the code says so (the proposal timer may be set to 0 ms,
`net/block-factory.ts:227`); `SlowStore = TRUE` lifts it. It matters: with
`SlowStore = TRUE` a retry and a second proposal while the first block is being
written make two blocks for one height, and `Agreement` fails in `steady_two`.
`Calm`: where no datagram gets lost, the retry timer (20 s or more) outlasts
everything that is under way; `Lossy = TRUE` lifts it.

Peers and stakes are fixed (their changes are the subject of `Blockchain`).
`Unsteady` nodes start seeing nobody and may lose sight of peers; all others
see everybody. Date.now() as sequence number is a counter.

`ImplementsLedger` maps the longest chain of all nodes to the log of `Ledger`,
with the commands of each block, and `latest` to the view of each node, which
may go back. The log only grows; that a list of commands is in one block only
is not promised, and does not hold (section 3).

### Blockchain

`state` is `mapPeer` with stakes, `quorumWeighted`, `mapModifyStake` and
`dbState` (a key per peer with its stake, a key per origin for the data of the
one namespace modelled). Decisions have no effect: the code that takes them is
commented out. `bootstrap` is chosen at every start, so that a node may enter a
network, and later start from its store, or the other way round. A call of
`add` begins once its checks pass (`Begin`): `Add` with a block object of its
own, from a proposal or a sync, `AddAgain` with the object of a call under way,
for one more vote or confirmation. Calls for one height, and for two heights in
a row, overlap; `twice` and `overtaken` remember it. That the network has one
block per height is an assumption here (`Decided`), and the subject of
`BlockFactory`. `processState` is `Step`, one command at a time, for every call
in `adds`; `ProcessState` runs through all commands of a block at once
(`After`), and `Replay` through the blocks: `init` uses the former, and
`Replayed` is the reference for the properties. The key of a ballot is peer and
amount (the ident of a vote goes with its amount). `modifyStake` writes the
clamped amount into the block object, which calls with the same object share,
while the store has the text of the call: `block` and `json`. Of the stake
votes that a node proposes itself, `voted` keeps who may be voted for, and that
`proposeModifyStake` fails without a network. `match` says that the hash of a
block calls for such a vote. `QuorumsMeet` says what a quorum is for: two
decisions of one node have a voter with a stake in common, so
`hasQuorumWeighted` must measure votes against no less than all stakes. A node
can enter the network if its own genesis block has two peers or more
(`ReachesNetwork`: otherwise `arrayBroadcast` is empty).

### BlockRange

A block is its height; `Hits` are the blocks with the transaction or the term
that is searched for. `cache` is the insertion order of `mapBlocks`, as
`getRange` slices the values of the map by position. `answer` is the last
request with its answer, the height at that time and the newest block of the
cache (`top`): after a call of `add` that was overtaken the height is below it,
and places in the cache, which are counted from the height, are off. `KeepsUp`
is an assumption about the environment: no call of `add` waits while as many
later blocks are added as the cache holds (at least 100, `config.ts:102`).
Numbers in requests may be negative: for `GET /sync/-network_sync_size` the end
of the range is 0, which `getRange` takes for the latest block
(`chain/blockchain.ts:236`), so that `SyncIncludesHeight` speaks of heights
from 0 on.

### StakeCredit

Consensus is taken as given: one chain, which every node applies in order and at
its own pace (`Apply`), and stacked transactions that are decided some time
(`Decide`). `server` has the credits, the collected votes and the stacked
transactions of a node, `count` the votes on blocks a peer is rewarded for,
`samples` the number of status messages kept. The dispersion of the samples
(`Util.QuartileCoeff`) is a free choice. A peer counts as online for the
credits once heard of, since `getArrayOnline` returns all keys.

### Network

A message is its type, origin, destination and time. `scene` is the scenario of
a behaviour, fixed from the start: who starts and with which genesis block,
whether it has a bootstrap URL, who joins, leaves, falls silent and which links
are broken; scenarios are checked side by side in one run. `Started` and
`Connected` show the fields of a node. `getPeer(pk).udp` of somebody who is no
peer is an exception nobody catches: the node has failed (`main.ts:47`).
`GetStuck` is the endless loop of `calcValidator`. `ImplementsTransport` says
that what `incomingData` hands to `processMessage` is what `Transport` allows,
and `BlockFactory` receives from a transport of that kind: `seen` there is the
same map, and any datagram of `msgs` may come late or never.

### Bootstrap

Each member has one token per key and at most one challenge timer, as the
code; `r` is the parameter of `join` that is meant to count the retries. A
`Malformed` newcomer has an address that `validateTx` refuses, so that
`confirm` fails after a good signature. An address only names a route:
`GET /join` takes any pair of address and key (`StrayJoin`), and
`GET /challenge/{token}` answers anybody (`net/api.ts:44`), so the answer that a
member gets from an address may be the signature of any newcomer
(`Challenge(m, f, j)`), and a newcomer may be challenged by somebody who is not
a member (`StrayChallenge`). `signed` keeps whose signature the answer is.

## 3. Runs

Passing:

| Run | Instance | Checks |
|---|---|---|
| `steady_two` | 2 nodes, 3 command lists, up to height 3, one retry | `TypeOK`, `Agreement`, `QuorumBacked`, `OneTxPerRound`, `NothingLost`, `PoolFresh`, `StoreGapless`, `NeverReverts`, `ImplementsLedger` |
| `faults` | 3 nodes with stakes 2, 1, 1, one loses sight of others, one crashes, slow store, one block | `QuorumBacked` |
| `live` | 2 nodes, no loss, fair | `Progress` |
| `block_range` | cache of 3, queries up to 2, sync size 1, height up to 6, two calls of `add` that overlap and overtake each other, restarts | `TypeOK`, `CacheIsTop`, `RangeRight`, `PageRight`, `SearchRight`, `TransactionFound` |
| `chain` | 3 peers, up to height 4, two overlapping calls of `add`, a restart, with and without entering a network of another genesis block | `TypeOK`, `WeightIsStake`, `QuorumsMeet`, `StateIsReplay`, `DatabaseIsRight` |
| `stake_credit` | 4 peers, 2 of which vote, 3 blocks, 3 status messages, one restart or repeated block | `TypeOK`, `CreditConserved`, `VotingGoesOn`, `Equalizes` |
| `network` | 3 nodes in 18 scenarios, up to 2 messages, fair | `TypeOK`, `ReadyCanAsk`, `StaysUp`, `ImplementsTransport`, `Reaches`, `StartEnds` |
| `join` | 2 members, 2 newcomers (one malformed), loss, challenges passed on, one stray request | `TypeOK`, `AdmittedOnce`, `ChallengeIsCurrent` |

Expected to fail, each showing that code and documentation or tests disagree
(`findings` in `PROJECT.json` quotes the lines):

| Run | Property | What happens |
|---|---|---|
| `fork` | `Agreement` | n1 and n2 see different peers, each is validator in its own view, n3 votes for both: two blocks at height 2 |
| `chain_genesis` | `UnanimityIsQuorum` | entering a network counts the genesis weight twice |
| `chain_restart` | `RestartSucceeds` | a stored block that calls for a stake vote makes `init` fail |
| `sync_size` | `SyncIncludesHeight` | a sync size equal to the maximum query size, which `README.md:114` allows: the packet loses the block that was asked for |

Further disagreements, seen while modelling and kept in the models as the code
has them, without a run of their own:

* The quorum is more than half of the stake (`chain/blockchain.ts:344`), not
  2/3 of the peers (`README.md:19`): 3 of 5 peers decide a block.
* A sync packet holds `network_sync_size + 1` blocks (`net/api.ts:150`).
* A range above the height is answered with the latest block
  (`chain/blockchain.ts:235`, `README.md:183`).
* A call of `add` that lags behind the sync (`net/block-factory.ts:295`) takes
  the height back to its own block (`chain/blockchain.ts:152`). Until blocks are
  added again, requests for ranges get blocks that are too high
  (`chain/blockchain.ts:243`): `RangeRight` and `PageRight` fail in
  `block_range` without `answer.height = answer.top`. What it stores lasts:
  states and peers of the later block are overwritten, and `DatabaseIsRight`
  fails in `chain` without `~overtaken`. The node may also sign a second
  transaction for one height (`README.md:17`): `OneTxPerRound` without the
  exception for `lowered` fails in `steady_two` if all commands are submitted to
  one node (`MCHomeOne`).
* Overlapping calls of `add` count votes on stakes twice: `StateIsReplay`
  without `~twice` fails in `chain`.
* The proposal timer arms no retry (`net/block-factory.ts:218`): a validator
  without a transaction of its own keeps a proposal that missed its quorum,
  though a retry is documented (`README.md:121`).
* A transaction may be put on the chain twice: a second `add` of a block that
  ends after the own transaction of the next round was sent puts that
  transaction back on the stack (`net/block-factory.ts:348`), while
  `GET /transaction/{origin}/{ident}` is documented to be well-defined
  (`README.md:208`). `Ledger` with a command in one block at most fails in
  `steady_two` with `MaxHeight = 4`.
* Once a block has removed a peer (`PUT /leave`, `README.md:242`), the next
  broadcast of every other node ends its process (`net/network.ts:251`);
  and a relay that is a block behind ends when it passes on a message for a
  peer it does not know yet (`net/network.ts:247`). `StaysUp` without its
  first line fails in `network`.
* A node with a bootstrap URL is ready as soon as it has the list of the
  bootstrap node, when `arrayBroadcast` may still be empty: it syncs with
  nobody. `ReadyCanAsk` fails for such nodes.
* The comment says that 2/3 of the samples are removed, the code keeps 2/3
  (`net/block-factory.ts:317`).
* The address that is put on the chain with a newcomer's key need not be that of
  the newcomer: a challenge that is sent to one node may be answered with the
  signature of another one that is joining (`net/bootstrap.ts:78`). Nothing
  documents the contrary.
* With three or fewer peers online no stake vote is ever placed
  (`net/server.ts:212`).
* A second join request within half a minute cancels the challenge of the
  first, which was answered with 200 (`net/bootstrap.ts:86`, `README.md:235`).
* The retry of a failed confirmation passes `r++`, the old value
  (`net/bootstrap.ts:115`), so `MAX_RETRY_JOIN` is never reached.

Bounds and why they are enough. `MaxHeight` bounds proposals, `MaxFaults` the
retries and crashes together, `MaxAdds` the calls of `add` at a time,
`MaxCrashes` restarts, `MaxStarts` and `MaxStrays` joins. Two nodes suffice for
races of timers, votes, confirmations and syncs over several rounds (each is
validator once, and a node may be two blocks behind); three nodes with unequal
stake are the least in which a vote arrives after the decision and a minority
may hold half of the stake (`faults`). With two blocks a second call for the
first one is overtaken by the sync of the other, and a stale pool, timer or
status meets the next round. Agreement of three and more nodes rests on the
theorem of section 4. In `BlockRange` the height exceeds cache and query size
by enough for every case of `getRange`, and two calls suffice for one to be
overtaken; parameters go from negative to above the height. In `Blockchain`
three peers give votes that are, and are not, a quorum, and amounts that clamp.
In `StakeCredit` four peers are the least that can vote at all (the number of
peers is at most three times `MaxCommands`, so that the votes of a node fit one
transaction), and two that vote for each other show every exchange of credit.
In `Network` three nodes have an origin, a relay and an addressee; two messages
meet in every order, also at the same time; `MaxInit` (60 in the code) is 3.

Deadlock is not checked where the bounds end every behaviour (all but the runs
of `BlockRange`).

Fairness. `live` assumes weak fairness of timers, writes and of the reception
of datagrams (the event loop handles what is there; the run excludes loss), of
status messages, which are sent again every interval, and strong fairness of a
sync with a peer that is ahead, which is asked again after every status.
`network` assumes weak fairness of the timer of `init` and of the arrival of
datagrams on links that are not broken, nothing else: `StartEnds` needs neither
I2P nor a bootstrap node to answer.

## 4. Proofs

Every theorem below is about all values of the constants: any finite set of
nodes, any stakes, commands, bounds and sizes, and any number of messages,
faults and requests within the bounds. The assumptions are the named ones of
the modules on their constants (TLC evaluates them in every run), and the
hypotheses given here. Of the inductive invariants TLC has checked, on small
instances: `BackedInv` on that of `faults`, `SteadyInv`, `KnownInv` and
`RoundInv` on `steady_two`, `Delivered` and `AllCanAsk` on `network`,
`OneSignaturePerStart` and `TokensFresh` on `join`, `CreditInv` on
`stake_credit`, `Growing` on `block_range`, `TogetherRight` and `OnceRight` on
`chain`. The theorems of type correctness are part of each argument and are
left out of this text.

### Consensus (`BlockFactoryProofs`, `BlockFactoryAgreement`, `BlockFactoryTransactions`)

* `BlocksAreQuorumBacked`: `Spec => []QuorumBacked`, under all faults. A block
  comes to a chain through a pending write, a sync queue, a confirmation or the
  votes in a proposal, so `QuorumBacked` is not inductive. `BackedInv` adds that
  all of these are backed by messages already sent; `msgs` only grows, so what
  is certified stays certified.
* `StoresAreGapless`: `Spec => []StoreGapless`, under all faults. Height and
  store come apart when calls of `add` are overtaken or the node crashes, so
  the invariant cannot be about heights alone. `Fits` says that a call under
  way is for a height that the store reaches or is next to, however the latest
  block goes back in the meantime; then `Put` replaces or appends, and never
  leaves a gap.
* `PoolIsFresh`: `Spec => []PoolFresh`, under all faults. The argument is about
  the fields of one node: `clear` empties the pool and the timer together, and
  a transaction enters the pool only for the next height.
* `ChainsAgree` and `StoredBlocksStay`: `Spec => []Agreement` and
  `Spec => NeverReverts`, in a steady network: no node loses sight of others, none
  crashes, and the writes of a validator end before the votes on its next
  proposal are back (`Steady`). Loss, delay and repetition of datagrams are not
  limited, nor is the order in which calls of `add` end: nodes do go back in
  height, and what is shown is that no two blocks of a height are decided and
  that what a node holds stays. The run `fork` shows why the first hypothesis
  is needed (the code has no other protection). The proof does not count votes,
  since a node votes for every valid candidate; it rests on the validator of a
  round. `Settled(hash)` says that the validator of that round has the block in
  its store or a call for it under way (`InForce`). `SteadyInv` says so for
  every block in force anywhere (`ForceSettled`), in a sync queue
  (`QueuesSettled`) and in a confirmation (`ConfirmsSettled`); that a proposal
  is for the next height of its node (`BlocksFollow`); and of each node
  (`NodesFirm`) that for a round it leads it has one block in force, with no
  call for an earlier block that could take it back before that round
  (`Decided`). The last point is where a lagging call would do harm: a
  validator taken back behind a block of its own could propose another one. But
  it counts votes before it adds a block that it leads, and by
  `VotesAfterWrites` nothing older is under way then.
* `OneTransactionPerRound`: `Spec => []OneTxPerRound`, under all faults, for
  every node that neither crashes nor goes back in height. `RoundInv` ties each
  AddTx message to the own transaction or to a stale height (`SignedOnce`):
  after a late second `add` the transaction goes back to the stack
  (`net/block-factory.ts:348`), and only the chain having grown allows another.
* `NothingIsLost`: `Spec => []NothingLost` in a steady network. The pieces are
  that `clear` either finds the own transaction in the block or stacks it again,
  and that by `StoredBlocksStay` nothing leaves a store.
* `LedgerImplemented`: `Spec => ImplementsLedger` in a steady network. By
  agreement the longest chain (`SomeLongest`) is a log that a step extends by
  one block or not at all, and the others are beginnings of it, so that a node
  that goes back shows an earlier one. `KnownInv` (theorem
  `BlocksWereSubmitted`) says that every command anywhere, in a stack, a
  message or a block, was submitted by a client. `LedgerInv` puts these
  together.

### Transport (`NetworkProofs`)

* `TransportImplemented`: `Spec => ImplementsTransport`, in all scenarios.
  `Delivered` says that what is under way was sent by its origin and goes to
  somebody else, and that everything handled is at most the number that `seen`
  keeps: hence once, and in order.
* `NodesCanAsk`: `Spec => []ReadyCanAsk`, and `NodesStayUp`:
  `Spec => []StaysUp`. For the latter `StayInv` says that as long as the peers
  do not change, whoever a node sends to knows the same peers, so that `getPeer`
  never fails; a node ends only after `MaxInit` attempts.

### Joining (`BootstrapProofs`)

* `StartsAdmitOnce`: `Spec => []AdmittedOnce`. `OneSignaturePerStart` balances
  the starts of a newcomer with its signatures, wherever they were asked for, on
  their way or stacked, and the right to sign that it still has.
* `ChallengesAreCurrent`: `Spec => []ChallengeIsCurrent`. `TokensFresh` says
  that no answer under way has the token of a challenge that is still due.

### Stake votes (`StakeCreditProofs`)

`CreditsConserved`, `VotingNeverStops` and `StakesEqualize` all follow from
`CreditInv`. The difficulty is that two nodes apply the blocks at their own
pace. `Owed` therefore compares the credit of i for j only with the votes of i
for j wherever they are (collected, stacked, on the chain) and those of j for i
that i has applied. That is 0 for a node that never restarted or repeated a
block, and never negative. `Floor` (a vote never takes more than the credit
allows) and `Small` (a transaction of votes fits) complete it. `Equalizes`
follows by adding the two sides.

### Ranges (`BlockRangeProofs`)

* `CacheStaysTop`: `Spec => []CacheIsTop`, with calls of `add` that end in any
  order. `Growing` says that a call under way is for a block that the cache
  holds or the next one, since by `KeepsUp` none is further behind than the
  cache is long (`Near`): so a lagging call inserts nothing, and the next block
  evicts the oldest one and only that.
* `RangesRight`, `PagesRight`, `SearchesRight`, `TransactionsFound`: what
  `getRange` cuts from the cache by position (`CacheIsCut`, `RangeIsCut`) is
  always consecutive and not too long, and is what the store would give if the
  latest block is the newest one; the rest is a matter of arithmetic, also for
  numbers that no client should send.

### Derived state (`BlockchainProofs`)

All of it follows from one invariant, `ChainInv`, for any peers, blocks, stakes,
number of overlapping calls of `add` and of restarts.

* `WeightsAreStakes`: `Spec => []WeightIsStake`. `Balanced` (the weight is the
  sum of all stakes) survives a command only if a peer that is gone has no
  stake: otherwise `addPeer`, which sets the stake to 1 and adds 1 to the
  weight, would lose the difference. `Tidy` says so, together with the place of
  each stake in `dbState`. The clamped amount of `modifyStake` is what both
  sides change by.
* `QuorumsAlwaysMeet`: `Spec => []QuorumsMeet`, in every node. After `reset` the
  weight is too large; `Heavy` (it is never less than the sum) is what a command
  keeps then, and two majorities of a sum that is no greater than the weight
  cannot be disjoint.
* `MembersAreAQuorum`: in a node that has not entered a network, the votes of
  all peers are a quorum as long as any of them has a stake. It shows that the
  run `chain_genesis`, where this fails with stakes above 0, depends on
  `reset`.
* `StatesAreReplays`: `Spec => []StateIsReplay`. While a block is added, the
  state is a beginning of the commands of the block on top of the replay of the
  blocks below (`SingleRight`). The store has the text of the call, not the
  block object with its rewritten amounts, so a replay applies the same
  commands; the invariant must say that the amounts beyond the command that is
  being processed are still the same.
* `DatabasesAreRight`: `Spec => []DatabaseIsRight`. The stakes in the database
  are those of `mapPeer`, whatever overlaps (`AlwaysRight`, which also carries
  the theorems on weights and quorums). Peers and data are what the blocks say
  as long as no call was overtaken (`TogetherRight`). Also then no state of one
  call need ever exist in between. What holds is that each peer and each stored
  value either is what it will be after the block or is still to be overwritten
  by a command that some call has before it (`ValuesRight` with `Overwritten`):
  the last command that touches a value is the same in every call. `CallsRight`
  says that all calls are for one block, whose texts differ in the amounts of
  stakes only (`SameWrites`); `RestRight`, `LoadingRight` and `EnteringRight`
  say what the state is before and after. `ChainInv` adds what takes one call
  per block (`OnceRight`, `SingleRight`).

Induction. The library's induction theorems cannot be used here, but the least
element of a set of numbers exists (`LeastNumber`, from well-foundedness of
`<`), and that carries induction up to a number (`UpTo`). It gives the
existence and the properties of the recursive functions in `FoundIn`, `After`
and `Replay`, and, by the size of a set, of the sum in `StakeOf`; that a sum
does not depend on the order in which `CHOOSE` takes its terms is proved by
adding peers one by one (`OneByOne`).

### Only model-checked

* `Progress`, `Reaches` and `StartEnds`: liveness under fairness is out of the
  reach of this prover.

All invariants and safety action properties of the passing runs are proved. Some
need a hypothesis that the theorem states: a steady network for agreement,
lost transactions and the refinement of `Ledger`. The run `steady_two` that
checks them has an instance that meets it, and the run `fork` one that does not.
`KeepsUp`, `VotesAfterWrites`, `Calm` and `Decided` (in `Blockchain`) are
assumptions about the environment that stand in the specifications themselves.

## 5. Not modelled

* Configuration, key files, the genesis tool and logging: read or written once,
  without behaviour; the sizes are constants.
* JSON schemas beyond the number of commands: messages are well-formed.
* Cryptography: a hash is what it commits to, a signature what it signs.
* I2P sessions beyond "up or not yet", the web server, the block feed,
  `searchState`, debug timestamps, requests that print a field.
* A failing write of the store: `add` goes on and `init` does not look at
  heights, so nothing could be promised after one.
* `add` while `reset` is under way, and the loop of `syncWithNetwork`.
* A clock that is set back, two peers with one address.
* `BlockFactory`, `Blockchain` and `StakeCredit` are separate: peers and stakes
  are fixed in the first, consensus is given in the others.

## 6. Plan

1. Done: consensus (`BlockFactory`), derived state (`Blockchain`), ranges
   (`BlockRange`), joining (`Bootstrap`), first theorems.
2. Done: `StakeCredit`, `Network`, the abstract `Ledger` and `Transport` with
   their refinements, state database, searches and transactions.
3. Done: theorems about consensus (agreement and the refinement of `Ledger` in a
   steady network, transactions), transport, joining, credits, ranges.
4. Done: theorems about `Blockchain`: weights, quorums, replay, and the database
   under overlapping calls of `add`.
5. Done: calls of `add` that end in any order, with what then still holds of
   the chain, the ranges and the state database; stores that are cleared on a
   restart; challenges that are passed on to other newcomers.
