------------------------------ MODULE Network ------------------------------
(***************************************************************************)
(* How nodes find and reach each other (src/net/network.ts): the start of  *)
(* a node up to its 'ready' event (init, hasP2PNetwork, p2pNetwork,        *)
(* bootstrapNetwork), its lists of peers, which follow the blockchain only *)
(* from time to time, and the datagrams: broadcast, incomingData with its  *)
(* sequence numbers, gossip over one hop.                                  *)
(*                                                                         *)
(* What the messages say is the subject of BlockFactory; here a message is *)
(* its type, origin, destination and sequence number.  An action is one    *)
(* callback of a node.                                                     *)
(***************************************************************************)
EXTENDS Integers, FiniteSets

CONSTANTS
    Node,        \* public keys
    Scenario,    \* who starts and with what, and what may happen
    MaxInit,     \* calls of init() before it gives up: 60 in the code
    MaxSends     \* bound: messages

\* fresh: the nodes that start, the others are up and know each other;
\* genesis: the peers on the blockchain of a fresh node; url: it has a bootstrap
\* URL; sender: the nodes whose BlockFactory sends messages; joining and leaving:
\* the peers that decided blocks add and remove; broken: links that are broken
\* for good; silent: peers may not be heard of for a long time; sends: messages.
ScenarioType ==
    [fresh : SUBSET Node, genesis : SUBSET Node, url : BOOLEAN, sender : SUBSET Node,
     joining : SUBSET Node, leaving : SUBSET Node, broken : SUBSET (Node \X Node),
     silent : BOOLEAN, sends : 0..MaxSends]

ASSUME NodeAssumption == IsFiniteSet(Node) /\ MaxInit \in Nat \ {0} /\ MaxSends \in Nat
\* Nodes that know each other are two at least (p2pNetwork).
ASSUME ScenarioAssumption ==
    /\ Scenario \subseteq ScenarioType
    /\ \A s \in Scenario, n \in Node : Node \ s.fresh # {n}

\* AddTx and SignBlock have a destination, "Directed"; ProposeBlock and
\* ConfirmBlock have none, "Open".  A Status is not passed on.
Type == {"Directed", "Open", "Status"}
Message ==
    [type : Type, origin : Node, dest : {{}} \cup {{p} : p \in Node}, seq : 1..MaxSends,
     id : 1..MaxSends]

VARIABLES
    scene,       \* the scenario of the behaviour
    peers,       \* Blockchain, per node: the keys of mapPeer (and of mapUdp)
    net,         \* Network, per node: its fields, see Started and Connected
    seen,        \* mapMsgSeq, per node: highest sequence number per type and origin
    datagrams,   \* the datagrams under way
    clock,       \* the time of the latest message of a node
    sent,        \* history: the messages sent so far
    handled      \* history, per node: the messages it has processed

msgVars == <<seen, datagrams, clock, sent, handled>>
vars == <<scene, peers, net, msgVars>>

Member == Node \ scene.fresh

Fields ==
    [phase : {"starting", "ready", "stuck", "failed"}, inits : 1..(MaxInit + 1),
     sam : BOOLEAN, arrayNetwork : SUBSET Node, arrayBroadcast : SUBSET Node,
     mapOnline : SUBSET Node, statusDue : BOOLEAN,
     bootstrap : {"none", "asking", "open", "done"}]

\* A node that starts, and one that has long been up.  mapOnline: the peers heard
\* of lately.  A node is stuck if it searches for a validator for good; it has
\* failed if its process has ended.
Started ==
    [phase |-> "starting", inits |-> 1, sam |-> FALSE, arrayNetwork |-> {},
     arrayBroadcast |-> {}, mapOnline |-> {}, statusDue |-> FALSE,
     bootstrap |-> IF scene.url THEN "asking" ELSE "none"]

Connected(n) ==
    [phase |-> "ready", inits |-> 1, sam |-> TRUE, arrayNetwork |-> Member,
     arrayBroadcast |-> Member \ {n}, mapOnline |-> Member, statusDue |-> FALSE,
     bootstrap |-> "none"]

Up(n) == net[n].phase \in {"starting", "ready"}

Becomes(n, f) == net' = [net EXCEPT ![n] = f]

-----------------------------------------------------------------------------
(* broadcast(m, isFinalHop).                                                *)

\* Sends to the list a bootstrap node may have given.
TargetsListed(n, m, isFinalHop) ==
    (IF isFinalHop /\ m.dest # {} THEN m.dest ELSE net[n].arrayNetwork \ {n}) \ {m.origin}

Targets(n, m, isFinalHop) ==
    (IF isFinalHop /\ m.dest # {} THEN m.dest ELSE net[n].arrayBroadcast) \ {m.origin}

\* The address of a target comes from the blockchain as it is now.
Known(n, S) == S \subseteq peers[n]

Sendings(n, m, S) ==
    {[msg |-> m, from |-> n, to |-> p] : p \in {q \in S : <<n, q>> \notin scene.broken}}

\* f are the fields of n otherwise, ds the datagrams under way.  A target that
\* is no peer of this blockchain has no address: the exception ends the process,
\* wherever broadcast was called from, with some of the datagrams sent.
Broadcast(n, m, isFinalHop, f, ds) ==
    LET S == Targets(n, m, isFinalHop)
    IN  \/ /\ Known(n, S)
           /\ datagrams' = ds \cup Sendings(n, m, S)
           /\ Becomes(n, f)
        \/ /\ ~Known(n, S)
           /\ \E R \in SUBSET (S \cap peers[n]) : datagrams' = ds \cup Sendings(n, m, R)
           /\ Becomes(n, [f EXCEPT !.phase = "failed"])

\* A new message of n is broadcast.  Its sequence number is the time, which may
\* be the same as that of the message before.
Send(n, type, dest, f) ==
    /\ Cardinality(sent) < scene.sends
    /\ \E seq \in {clock[n], clock[n] + 1} \ {0} :
          LET m == [type |-> type, origin |-> n, dest |-> dest, seq |-> seq,
                    id |-> Cardinality(sent) + 1]
          IN  /\ Broadcast(n, m, FALSE, f, datagrams)
              /\ clock' = [clock EXCEPT ![n] = seq]
              /\ sent' = sent \cup {m}
    /\ UNCHANGED <<scene, peers, seen, handled>>

-----------------------------------------------------------------------------
(* The start of a node and its lists.                                       *)

\* I2P has a session for both sockets.
SamUp(n) ==
    /\ net[n].phase = "starting" /\ ~net[n].sam
    /\ Becomes(n, [net[n] EXCEPT !.sam = TRUE])
    /\ UNCHANGED <<scene, peers, msgVars>>

HasHalf(n) == 2 * Cardinality(net[n].arrayNetwork) >= Cardinality(peers[n]) /\ net[n].sam

HasP2PNetwork(n) == 2 * Cardinality(net[n].arrayNetwork) > Cardinality(peers[n]) /\ net[n].sam

\* The counter is not passed on.
RetryForgotten(n) == 1

Retry(n) == net[n].inits + 1

\* init(), called again every two seconds until the network is there.
InitTimer(n) ==
    /\ net[n].phase = "starting"
    /\ Becomes(n, [net[n] EXCEPT !.inits = Retry(n),
                                 !.phase = IF Retry(n) > MaxInit THEN "failed"
                                           ELSE IF HasP2PNetwork(n) THEN "ready" ELSE @])
    /\ UNCHANGED <<scene, peers, msgVars>>

\* bootstrapNetwork: an answer is the list of the node that was asked; no answer
\* is the same as an empty list.  Either replaces the list, also one that
\* p2pNetwork has made.  A list that is not empty ends the interval; requests
\* that are open then still end one way or the other.
BootstrapAnswer(n, list) ==
    /\ Up(n) /\ net[n].bootstrap \in {"asking", "open"}
    /\ \E b \in IF net[n].bootstrap = "asking" /\ list = {} THEN {"asking"} ELSE {"open", "done"} :
          Becomes(n, [net[n] EXCEPT !.arrayNetwork = list, !.bootstrap = b])
    /\ UNCHANGED <<scene, peers, msgVars>>

\* The node itself is not taken out.
OthersAndSelf(n) == peers[n]

Others(n) == peers[n] \ {n}

\* p2pNetwork, once per interval: the lists follow the blockchain.
P2PNetwork(n) ==
    /\ Up(n) /\ net[n].sam /\ Cardinality(peers[n]) >= 2
    /\ Becomes(n, [net[n] EXCEPT !.arrayNetwork = peers[n], !.arrayBroadcast = Others(n),
                                 !.mapOnline = @ \cup {n}, !.statusDue = TRUE])
    /\ UNCHANGED <<scene, peers, msgVars>>

\* isOnline: p has not been heard of for three intervals.
Expire(n, p) ==
    /\ scene.silent /\ Up(n) /\ p \in net[n].mapOnline \ {n}
    /\ Becomes(n, [net[n] EXCEPT !.mapOnline = @ \ {p}])
    /\ UNCHANGED <<scene, peers, msgVars>>

\* A block with addPeer or removePeer is added.
AddPeer(n, p) ==
    /\ Up(n) /\ p \in scene.joining \ peers[n]
    /\ peers' = [peers EXCEPT ![n] = @ \cup {p}]
    /\ UNCHANGED <<scene, net, msgVars>>

RemovePeer(n, p) ==
    /\ Up(n) /\ p \in scene.leaving \cap peers[n]
    /\ peers' = [peers EXCEPT ![n] = @ \ {p}]
    /\ UNCHANGED <<scene, net, msgVars>>

-----------------------------------------------------------------------------
(* Messages.                                                                *)

\* The status timer, at some time within the interval.
SendStatus(n) ==
    /\ Up(n) /\ net[n].statusDue
    /\ Send(n, "Status", {}, [net[n] EXCEPT !.statusDue = FALSE])

\* The BlockFactory of n proposes or confirms a block.
SendOpen(n) == net[n].phase = "ready" /\ n \in scene.sender /\ Send(n, "Open", {}, net[n])

\* The peers calcValidator may settle on.
Candidates(n) == net[n].arrayNetwork \cap ({n} \cup net[n].mapOnline)

\* PUT /transaction or a vote: to the validator, by way of all peers.
SendDirected(n, p) ==
    /\ Up(n) /\ n \in scene.sender /\ p \in Candidates(n) \ {n}
    /\ Send(n, "Directed", {p}, net[n])

\* The same with no candidate: calcValidator does not return.
GetStuck(n) ==
    /\ Up(n) /\ n \in scene.sender /\ Candidates(n) = {}
    /\ Becomes(n, [net[n] EXCEPT !.phase = "stuck"])
    /\ UNCHANGED <<scene, peers, msgVars>>

\* fetchFromApi asks one peer after the other; one that is no peer any more ends
\* the process.
FetchFails(n) ==
    /\ net[n].phase = "ready" /\ ~Known(n, net[n].arrayBroadcast)
    /\ Becomes(n, [net[n] EXCEPT !.phase = "failed"])
    /\ UNCHANGED <<scene, peers, msgVars>>

NewerOrEqual(n, m) == seen[n][m.type][m.origin] <= m.seq

Newer(n, m) == seen[n][m.type][m.origin] < m.seq

\* incomingData takes a datagram of a known sender with a new message.
Takes(n, d) ==
    /\ Up(n) /\ net[n].sam /\ net[n].arrayNetwork # {}
    /\ d.from \in peers[n] /\ Newer(n, d.msg)

\* Passes on what a peer has passed on, and keeps what it has from the origin.
ForwardsRelayed(d) == d.msg.type # "Status" /\ d.from # d.msg.origin

\* Gossip, once: what comes from its origin.
Forwards(d) == d.msg.type # "Status" /\ d.from = d.msg.origin

Receive(d) ==
    LET n == d.to
        f == [net[n] EXCEPT !.mapOnline = @ \cup {d.from}]
    IN  /\ Takes(n, d)
        /\ seen' = [seen EXCEPT ![n][d.msg.type][d.msg.origin] = d.msg.seq]
        /\ handled' = [handled EXCEPT ![n] = @ \cup {d.msg}]
        /\ \/ /\ Forwards(d)
              /\ Broadcast(n, d.msg, TRUE, f, datagrams \ {d})
           \/ /\ ~Forwards(d)
              /\ Becomes(n, f) /\ datagrams' = datagrams \ {d}
        /\ UNCHANGED <<scene, peers, clock, sent>>

Drop(d) ==
    /\ ~Takes(d.to, d)
    /\ datagrams' = datagrams \ {d}
    /\ UNCHANGED <<scene, peers, net, seen, clock, sent, handled>>

-----------------------------------------------------------------------------
Init ==
    /\ scene \in Scenario
    /\ peers = [n \in Node |-> IF n \in scene.fresh THEN scene.genesis ELSE Member]
    /\ net = [n \in Node |-> IF n \in scene.fresh THEN Started ELSE Connected(n)]
    /\ seen = [n \in Node |-> [t \in Type |-> [p \in Node |-> 0]]]
    /\ datagrams = {} /\ clock = [n \in Node |-> 0]
    /\ sent = {} /\ handled = [n \in Node |-> {}]

Next ==
    \/ \E n \in Node : SamUp(n)
    \/ \E n \in Node : InitTimer(n)
    \/ \E n \in Node : BootstrapAnswer(n, {})
    \/ \E n, q \in Node : q # n /\ Up(q) /\ BootstrapAnswer(n, net[q].arrayNetwork)
    \/ \E n \in Node : P2PNetwork(n)
    \/ \E n, p \in Node : Expire(n, p)
    \/ \E n, p \in Node : AddPeer(n, p)
    \/ \E n, p \in Node : RemovePeer(n, p)
    \/ \E n \in Node : SendStatus(n)
    \/ \E n \in Node : SendOpen(n)
    \/ \E n, p \in Node : SendDirected(n, p)
    \/ \E n \in Node : GetStuck(n)
    \/ \E n \in Node : FetchFails(n)
    \/ \E d \in datagrams : Receive(d)
    \/ \E d \in datagrams : Drop(d)

Spec == Init /\ [][Next]_vars

\* The timer of init() goes off, and every datagram that is under way arrives;
\* only those on a broken link do not.
Fairness ==
    \A n \in Node :
        /\ WF_vars(InitTimer(n))
        /\ WF_vars(\E d \in datagrams : d.to = n /\ (Receive(d) \/ Drop(d)))

FairSpec == Spec /\ Fairness

-----------------------------------------------------------------------------
(* Properties.                                                              *)

\* Every variable has its type.
TypeOK ==
    /\ scene \in Scenario
    /\ peers \in [Node -> SUBSET Node]
    /\ net \in [Node -> Fields]
    /\ \A n \in Node : n \notin net[n].arrayBroadcast
    /\ seen \in [Node -> [Type -> [Node -> 0..MaxSends]]]
    /\ datagrams \subseteq [msg : Message, from : Node, to : Node]
    /\ clock \in [Node -> 0..MaxSends]
    /\ sent \subseteq Message /\ handled \in [Node -> SUBSET sent]

T == INSTANCE Transport

\* The transport that BlockFactory relies on: what a node processes was sent
\* by its origin, is processed once, and not after something later, although
\* copies come from several peers, in any order and with equal sequence numbers.
ImplementsTransport == T!TransportSpec

\* hasP2PNetwork lets a node without a bootstrap URL begin only when there is
\* somebody to send to and to ask, whatever its genesis block holds and however
\* the peers change while it waits.
ReadyCanAsk ==
    \A n \in Node :
        net[n].phase = "ready" /\ net[n].bootstrap = "none" => net[n].arrayBroadcast # {}

\* As long as nobody joins or leaves, no member ends or hangs, and a node that
\* starts ends only because it found no network, whatever list a bootstrap node
\* gave it and whenever: nobody is sent to whose address is not on the chain.
StaysUp ==
    scene.joining = {} /\ scene.leaving = {} =>
        \A n \in Node :
            /\ n \in Member => net[n].phase = "ready"
            /\ net[n].phase = "failed" => net[n].inits > MaxInit

\* The addressees of a message among the members.
Addressees(m) == (IF m.dest = {} THEN Member ELSE m.dest \cap Member) \ {m.origin}

Healthy == \A n \in Member : net[n].phase = "ready" /\ Member \subseteq peers[n]

\* A relay ignores a message once it has one of the same type and origin of the
\* same or a later time, though that one was for somebody else.
Overtaken(m) ==
    m.dest # {} /\ \E k \in sent \ {m} : T!SameStream(m, k) /\ k.seq >= m.seq

\* Gossip over one hop makes up for a broken link: as long as all members are
\* up, each addressee of a member's message gets it, or has one of that type,
\* origin and of the same or a later time.
Reaches ==
    \A i \in 1..MaxSends :
        (\E m \in sent : m.id = i) ~>
            \/ ~Healthy
            \/ \A m \in sent : m.id = i /\ m.type # "Status" /\ m.origin \in Member =>
                  Overtaken(m) \/ \A p \in Addressees(m) : seen[p][m.type][m.origin] >= m.seq

\* A start comes to an end: init() calls itself until the network is there or
\* it has tried often enough.
StartEnds == \A n \in Node : net[n].phase = "starting" ~> net[n].phase # "starting"
=============================================================================
