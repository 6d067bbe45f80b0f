--------------------------- MODULE NetworkProofs ---------------------------
(***************************************************************************)
(* Theorems about Network, for any nodes and scenarios: the transport that *)
(* BlockFactory relies on is implemented, a node that begins has somebody  *)
(* to ask, and nobody ends as long as the peers do not change.             *)
(***************************************************************************)
EXTENDS Network, FiniteSetTheorems, TLAPS

-----------------------------------------------------------------------------
(* Types.                                                                   *)

\* The bounds: a start has not been given up, a message has a number of its own,
\* and no clock is ahead of the number of messages.
Counted ==
    /\ \A n \in Node : net[n].phase = "starting" => net[n].inits <= MaxInit
    /\ IsFiniteSet(sent)
    /\ \A m \in sent : m.id <= Cardinality(sent)
    /\ \A n \in Node : clock[n] <= Cardinality(sent)

TypeInv == TypeOK /\ Counted

FieldsOf(n, f) ==
    /\ f \in Fields /\ n \notin f.arrayBroadcast
    /\ f.phase = "starting" => f.inits <= MaxInit

LEMMA SceneType ==
    ASSUME TypeOK
    PROVE  /\ scene \in ScenarioType
           /\ scene.fresh \subseteq Node /\ scene.genesis \subseteq Node
           /\ scene.sends \in 0..MaxSends /\ scene.url \in BOOLEAN
           /\ \A n \in Node : Member # {n}
BY ScenarioAssumption DEF TypeOK, ScenarioType, Member

\* The changes that callbacks make to the fields of a node keep them what they are.
LEMMA FieldsChange ==
    ASSUME TypeOK, NEW n \in Node, NEW g, FieldsOf(n, g)
    PROVE  /\ FieldsOf(n, [g EXCEPT !.sam = TRUE])
           /\ FieldsOf(n, [g EXCEPT !.statusDue = FALSE])
           /\ \A ph \in {"ready", "stuck", "failed"} : FieldsOf(n, [g EXCEPT !.phase = ph])
           /\ \A list \in SUBSET Node, b \in {"asking", "open", "done"} :
                 FieldsOf(n, [g EXCEPT !.arrayNetwork = list, !.bootstrap = b])
           /\ FieldsOf(n, [g EXCEPT !.arrayNetwork = peers[n], !.arrayBroadcast = Others(n),
                                    !.mapOnline = @ \cup {n}, !.statusDue = TRUE])
           /\ \A p \in Node : FieldsOf(n, [g EXCEPT !.mapOnline = @ \ {p}])
           /\ \A p \in Node : FieldsOf(n, [g EXCEPT !.mapOnline = @ \cup {p}])
           /\ \A i \in 1..(MaxInit + 1), ph \in {"starting", "ready", "failed"} :
                 (ph = "starting" => i <= MaxInit) =>
                     FieldsOf(n, [g EXCEPT !.inits = i, !.phase = ph])
<1>1. g \in Fields /\ n \notin g.arrayBroadcast /\ (g.phase = "starting" => g.inits <= MaxInit)
  BY DEF FieldsOf
<1>2. peers[n] \in SUBSET Node /\ Others(n) \in SUBSET Node /\ n \notin Others(n)
  BY DEF TypeOK, Others
<1>3. FieldsOf(n, [g EXCEPT !.sam = TRUE])
  BY <1>1 DEF FieldsOf, Fields
<1>4. FieldsOf(n, [g EXCEPT !.statusDue = FALSE])
  BY <1>1 DEF FieldsOf, Fields
<1>5. ASSUME NEW ph \in {"ready", "stuck", "failed"} PROVE FieldsOf(n, [g EXCEPT !.phase = ph])
  BY <1>1 DEF FieldsOf, Fields
<1>6. ASSUME NEW list \in SUBSET Node, NEW b \in {"asking", "open", "done"}
      PROVE  FieldsOf(n, [g EXCEPT !.arrayNetwork = list, !.bootstrap = b])
  BY <1>1 DEF FieldsOf, Fields
<1>7. FieldsOf(n, [g EXCEPT !.arrayNetwork = peers[n], !.arrayBroadcast = Others(n),
                           !.mapOnline = @ \cup {n}, !.statusDue = TRUE])
  BY <1>1, <1>2 DEF FieldsOf, Fields
<1>8. ASSUME NEW p \in Node PROVE FieldsOf(n, [g EXCEPT !.mapOnline = @ \ {p}])
  BY <1>1 DEF FieldsOf, Fields
<1>9. ASSUME NEW p \in Node PROVE FieldsOf(n, [g EXCEPT !.mapOnline = @ \cup {p}])
  BY <1>1 DEF FieldsOf, Fields
<1>10. ASSUME NEW i \in 1..(MaxInit + 1), NEW ph \in {"starting", "ready", "failed"},
              ph = "starting" => i <= MaxInit
       PROVE  FieldsOf(n, [g EXCEPT !.inits = i, !.phase = ph])
  BY <1>1, <1>10, NodeAssumption DEF FieldsOf, Fields
<1>. QED
  BY <1>3, <1>4, <1>5, <1>6, <1>7, <1>8, <1>9, <1>10

\* What a broadcast sends goes to others than the origin, and its node is the
\* same otherwise or has failed.
LEMMA BroadcastShape ==
    ASSUME NEW n, NEW m, NEW hop, NEW f, NEW ds, Broadcast(n, m, hop, f, ds)
    PROVE  /\ \/ net' = [net EXCEPT ![n] = f]
              \/ /\ net' = [net EXCEPT ![n] = [f EXCEPT !.phase = "failed"]]
                 /\ ~(Targets(n, m, hop) \subseteq peers[n])
           /\ datagrams' \subseteq ds \cup Sendings(n, m, Targets(n, m, hop))
BY DEF Broadcast, Becomes, Sendings, Known

\* A node with other fields.
LEMMA FieldsType ==
    ASSUME TypeOK, NEW n \in Node, NEW f \in Fields, n \notin f.arrayBroadcast,
           \/ net' = [net EXCEPT ![n] = f]
           \/ net' = [net EXCEPT ![n] = [f EXCEPT !.phase = "failed"]]
    PROVE  net' \in [Node -> Fields] /\ \A k \in Node : k \notin net'[k].arrayBroadcast
<1>. DEFINE g == [f EXCEPT !.phase = "failed"]
<1>1. g \in Fields /\ g.arrayBroadcast = f.arrayBroadcast
  BY DEF Fields
<1>. HIDE DEF g
<1>2. \E h \in {f, g} : net' = [net EXCEPT ![n] = h]
  BY DEF g
<1>. QED
  BY <1>1, <1>2 DEF TypeOK

LEMMA SendingsType ==
    ASSUME TypeOK, NEW n \in Node, NEW m \in Message, NEW hop \in BOOLEAN
    PROVE  /\ Sendings(n, m, Targets(n, m, hop)) \subseteq [msg : Message, from : Node, to : Node]
           /\ \A d \in Sendings(n, m, Targets(n, m, hop)) :
                 d.msg = m /\ d.from = n /\ d.to # m.origin /\ d.to \in Targets(n, m, hop)
<1>1. Targets(n, m, hop) \subseteq Node /\ m.origin \notin Targets(n, m, hop)
  BY DEF Targets, Message, TypeOK, Fields
<1>2. \A d \in Sendings(n, m, Targets(n, m, hop)) :
         \E p \in Targets(n, m, hop) : d = [msg |-> m, from |-> n, to |-> p]
  BY DEF Sendings
<1>. QED
  BY <1>1, <1>2

\* A message is new, and later than those of its origin.
LEMMA SendType ==
    ASSUME TypeInv, NEW n \in Node, NEW type \in Type, NEW dest \in {{}} \cup {{p} : p \in Node},
           NEW f, FieldsOf(n, f),
           Send(n, type, dest, f)
    PROVE  TypeInv'
<1>. DEFINE k == Cardinality(sent)
<1>1. PICK seq \in {clock[n], clock[n] + 1} \ {0} :
         LET m == [type |-> type, origin |-> n, dest |-> dest, seq |-> seq, id |-> k + 1]
         IN  /\ Broadcast(n, m, FALSE, f, datagrams)
             /\ clock' = [clock EXCEPT ![n] = seq]
             /\ sent' = sent \cup {m}
  BY DEF Send
<1>. DEFINE m == [type |-> type, origin |-> n, dest |-> dest, seq |-> seq, id |-> k + 1]
<1>2. k \in Nat /\ k < scene.sends /\ k + 1 \in 1..MaxSends /\ clock[n] \in Nat /\ clock[n] <= k
  BY SceneType, FS_CardinalityType, NodeAssumption DEF TypeInv, Counted, Send, TypeOK
<1>3. seq \in 1..MaxSends /\ seq <= k + 1
  <2>1. seq = clock[n] \/ seq = clock[n] + 1
    OBVIOUS
  <2>. HIDE DEF k
  <2>. QED
    BY <1>2, <2>1, NodeAssumption
<1>4. m \in Message /\ m.id = k + 1 /\ m.seq = seq
  BY <1>2, <1>3 DEF Message
<1>5. Broadcast(n, m, FALSE, f, datagrams) /\ sent' = sent \cup {m}
  BY <1>1
<1>. HIDE DEF m, k
<1>6. m \notin sent
  BY <1>2, <1>4 DEF TypeInv, Counted, k
<1>7. IsFiniteSet(sent') /\ Cardinality(sent') = k + 1
  BY <1>5, <1>6, FS_AddElement DEF TypeInv, Counted, k
<1>8. UNCHANGED <<scene, peers, seen, handled>>
  BY DEF Send
<1>9. net' \in [Node -> Fields] /\ \A q \in Node : q \notin net'[q].arrayBroadcast
  BY <1>5, BroadcastShape, FieldsType DEF TypeInv, FieldsOf
<1>10. datagrams' \subseteq [msg : Message, from : Node, to : Node]
  <2>1. Sendings(n, m, Targets(n, m, FALSE)) \subseteq [msg : Message, from : Node, to : Node]
    BY <1>4, SendingsType DEF TypeInv
  <2>2. datagrams' \subseteq datagrams \cup Sendings(n, m, Targets(n, m, FALSE))
    BY <1>5, BroadcastShape
  <2>. QED
    BY <2>1, <2>2 DEF TypeInv, TypeOK
<1>11. clock' \in [Node -> 0..MaxSends] /\ \A q \in Node : clock'[q] <= k + 1
  BY <1>1, <1>2, <1>3 DEF TypeInv, TypeOK, Counted, k
<1>12. sent' \subseteq Message /\ handled' \in [Node -> SUBSET sent']
  BY <1>4, <1>5, <1>8 DEF TypeInv, TypeOK
<1>13. TypeOK'
  BY <1>8, <1>9, <1>10, <1>11, <1>12 DEF TypeInv, TypeOK
<1>14. \A q \in sent' : q.id <= k + 1
  BY <1>2, <1>4, <1>5 DEF TypeInv, Counted, k, TypeOK, Message
<1>15. \A q \in Node : net'[q].phase = "starting" => net'[q].inits <= MaxInit
  <2>1. CASE net' = [net EXCEPT ![n] = f]
    BY <2>1 DEF TypeInv, Counted, TypeOK, FieldsOf
  <2>2. CASE net' = [net EXCEPT ![n] = [f EXCEPT !.phase = "failed"]]
    BY <2>2 DEF TypeInv, Counted, TypeOK, Fields, FieldsOf
  <2>. QED
    BY <1>5, <2>1, <2>2, BroadcastShape
<1>. QED
  BY <1>7, <1>11, <1>13, <1>14, <1>15 DEF TypeInv, Counted

\* A callback that sends nothing and changes the fields of one node.
LEMMA BecomesType ==
    ASSUME TypeInv, NEW n \in Node, NEW f, FieldsOf(n, f),
           Becomes(n, f), UNCHANGED <<scene, peers, msgVars>>
    PROVE  TypeInv'
<1>1. net' = [net EXCEPT ![n] = f] /\ UNCHANGED <<scene, peers, seen, datagrams, clock, sent, handled>>
  BY DEF Becomes, msgVars
<1>2. net' \in [Node -> Fields] /\ \A k \in Node : k \notin net'[k].arrayBroadcast
  BY <1>1, FieldsType DEF TypeInv, FieldsOf
<1>3. TypeOK'
  BY <1>1, <1>2 DEF TypeInv, TypeOK
<1>4. Counted'
  BY <1>1 DEF TypeInv, Counted, TypeOK, FieldsOf
<1>. QED
  BY <1>3, <1>4 DEF TypeInv

\* incomingData: mapMsgSeq, the messages handled and the datagrams passed on.
LEMMA ReceiveType ==
    ASSUME TypeInv, NEW d \in datagrams, d.msg \in sent, Receive(d)
    PROVE  TypeInv'
<1>. DEFINE n == d.to
            f == [net[n] EXCEPT !.mapOnline = @ \cup {d.from}]
<1>1. /\ n \in Node /\ d.from \in Node /\ d.msg \in Message
      /\ d.msg.type \in Type /\ d.msg.origin \in Node /\ d.msg.seq \in 1..MaxSends
  BY DEF TypeInv, TypeOK, Message
<1>2. FieldsOf(n, net[n])
  BY <1>1 DEF TypeInv, TypeOK, Counted, FieldsOf
<1>3. FieldsOf(n, f)
  BY <1>1, <1>2, FieldsChange DEF TypeInv
<1>4. /\ seen' = [seen EXCEPT ![n][d.msg.type][d.msg.origin] = d.msg.seq]
      /\ handled' = [handled EXCEPT ![n] = @ \cup {d.msg}]
      /\ \/ Broadcast(n, d.msg, TRUE, f, datagrams \ {d})
         \/ Becomes(n, f) /\ datagrams' = datagrams \ {d}
      /\ UNCHANGED <<scene, peers, clock, sent>>
  BY DEF Receive
<1>. HIDE DEF n, f
<1>5. /\ \/ net' = [net EXCEPT ![n] = f]
         \/ net' = [net EXCEPT ![n] = [f EXCEPT !.phase = "failed"]]
      /\ datagrams' \subseteq datagrams \cup Sendings(n, d.msg, Targets(n, d.msg, TRUE))
  <2>1. CASE Broadcast(n, d.msg, TRUE, f, datagrams \ {d})
    <3>1. /\ \/ net' = [net EXCEPT ![n] = f]
             \/ /\ net' = [net EXCEPT ![n] = [f EXCEPT !.phase = "failed"]]
                /\ ~(Targets(n, d.msg, TRUE) \subseteq peers[n])
          /\ datagrams' \subseteq (datagrams \ {d}) \cup Sendings(n, d.msg, Targets(n, d.msg, TRUE))
      BY <2>1, BroadcastShape
    <3>. QED
      BY <3>1
  <2>2. CASE Becomes(n, f) /\ datagrams' = datagrams \ {d}
    BY <2>2 DEF Becomes
  <2>. QED
    BY <1>4, <2>1, <2>2
<1>6. net' \in [Node -> Fields] /\ \A k \in Node : k \notin net'[k].arrayBroadcast
  BY <1>1, <1>3, <1>5, FieldsType DEF TypeInv, FieldsOf
<1>7. datagrams' \subseteq [msg : Message, from : Node, to : Node]
  <2>1. Sendings(n, d.msg, Targets(n, d.msg, TRUE)) \subseteq [msg : Message, from : Node, to : Node]
    BY <1>1, SendingsType DEF TypeInv
  <2>. QED
    BY <1>5, <2>1 DEF TypeInv, TypeOK
<1>8. seen' \in [Node -> [Type -> [Node -> 0..MaxSends]]]
  BY <1>1, <1>4 DEF TypeInv, TypeOK
<1>9. handled' \in [Node -> SUBSET sent']
  BY <1>1, <1>4 DEF TypeInv, TypeOK
<1>10. TypeOK'
  BY <1>4, <1>6, <1>7, <1>8, <1>9 DEF TypeInv, TypeOK
<1>11. \A k \in Node : net'[k].phase = "starting" => net'[k].inits <= MaxInit
  <2>1. CASE net' = [net EXCEPT ![n] = f]
    BY <1>1, <1>3, <2>1 DEF TypeInv, Counted, TypeOK, FieldsOf
  <2>2. CASE net' = [net EXCEPT ![n] = [f EXCEPT !.phase = "failed"]]
    BY <1>1, <1>3, <2>2 DEF TypeInv, Counted, TypeOK, FieldsOf, Fields
  <2>. QED
    BY <1>5, <2>1, <2>2
<1>. QED
  BY <1>4, <1>10, <1>11 DEF TypeInv, Counted

\* What is under way was sent by its origin, goes to others, and what a node
\* handled is no later than the sequence number it remembers.
Delivered ==
    /\ \A d \in datagrams : d.msg \in sent /\ d.to # d.msg.origin
    /\ \A m \in sent : m.seq <= clock[m.origin]
    /\ \A n \in Node : \A m \in handled[n] : m.seq <= seen[n][m.type][m.origin]

\* Every callback keeps the types.
LEMMA TypeStep == TypeInv /\ Delivered /\ [Next]_vars => TypeInv'
<1>. SUFFICES ASSUME TypeInv, Delivered, [Next]_vars PROVE TypeInv'
  OBVIOUS
<1>0. \A n \in Node : FieldsOf(n, net[n])
  BY DEF TypeInv, TypeOK, Counted, FieldsOf
<1>1. CASE UNCHANGED vars
  BY <1>1 DEF vars, msgVars, TypeInv, TypeOK, Counted
<1>2. ASSUME NEW n \in Node, SamUp(n) PROVE TypeInv'
  <2>. DEFINE f == [net[n] EXCEPT !.sam = TRUE]
  <2>1. FieldsOf(n, f)
    BY <1>0, FieldsChange DEF TypeInv
  <2>. QED
    BY <1>2, <2>1, BecomesType DEF SamUp
<1>3. ASSUME NEW n \in Node, InitTimer(n) PROVE TypeInv'
  <2>. DEFINE ph == IF Retry(n) > MaxInit THEN "failed"
                    ELSE IF HasP2PNetwork(n) THEN "ready" ELSE net[n].phase
              f == [net[n] EXCEPT !.inits = Retry(n), !.phase = ph]
  <2>1. /\ Retry(n) \in 1..(MaxInit + 1) /\ ph \in {"starting", "ready", "failed"}
        /\ ph = "starting" => Retry(n) <= MaxInit
    BY <1>3, <1>0, NodeAssumption DEF InitTimer, Retry, FieldsOf, Fields
  <2>2. FieldsOf(n, f)
    <3>. HIDE DEF ph
    <3>. QED
      BY <1>0, <2>1, FieldsChange DEF TypeInv
  <2>. QED
    BY <1>3, <2>2, BecomesType DEF InitTimer
<1>4. ASSUME NEW n \in Node, NEW list \in SUBSET Node, BootstrapAnswer(n, list) PROVE TypeInv'
  <2>1. PICK b \in {"asking", "open", "done"} :
           Becomes(n, [net[n] EXCEPT !.arrayNetwork = list, !.bootstrap = b])
    BY <1>4 DEF BootstrapAnswer
  <2>. DEFINE f == [net[n] EXCEPT !.arrayNetwork = list, !.bootstrap = b]
  <2>2. FieldsOf(n, f)
    BY <1>0, FieldsChange DEF TypeInv
  <2>. QED
    BY <1>4, <2>1, <2>2, BecomesType DEF BootstrapAnswer
<1>5. ASSUME NEW n \in Node, P2PNetwork(n) PROVE TypeInv'
  <2>. DEFINE f == [net[n] EXCEPT !.arrayNetwork = peers[n], !.arrayBroadcast = Others(n),
                                  !.mapOnline = @ \cup {n}, !.statusDue = TRUE]
  <2>1. FieldsOf(n, f)
    BY <1>0, FieldsChange DEF TypeInv
  <2>. QED
    BY <1>5, <2>1, BecomesType DEF P2PNetwork
<1>6. ASSUME NEW n \in Node, NEW p \in Node, Expire(n, p) PROVE TypeInv'
  <2>. DEFINE f == [net[n] EXCEPT !.mapOnline = @ \ {p}]
  <2>1. FieldsOf(n, f)
    BY <1>0, FieldsChange DEF TypeInv
  <2>. QED
    BY <1>6, <2>1, BecomesType DEF Expire
<1>7. ASSUME NEW n \in Node, NEW p \in Node, AddPeer(n, p) PROVE TypeInv'
  <2>1. peers' \in [Node -> SUBSET Node]
    BY <1>7 DEF AddPeer, TypeInv, TypeOK
  <2>. QED
    BY <1>7, <2>1 DEF AddPeer, msgVars, TypeInv, TypeOK, Counted
<1>17. ASSUME NEW n \in Node, NEW p \in Node, RemovePeer(n, p) PROVE TypeInv'
  <2>1. peers' \in [Node -> SUBSET Node]
    BY <1>17 DEF RemovePeer, TypeInv, TypeOK
  <2>. QED
    BY <1>17, <2>1 DEF RemovePeer, msgVars, TypeInv, TypeOK, Counted
<1>8. ASSUME NEW n \in Node, SendStatus(n) PROVE TypeInv'
  <2>. DEFINE f == [net[n] EXCEPT !.statusDue = FALSE]
  <2>1. FieldsOf(n, f)
    BY <1>0, FieldsChange DEF TypeInv
  <2>. HIDE DEF f
  <2>2. Send(n, "Status", {}, f)
    BY <1>8 DEF SendStatus, f
  <2>. QED
    BY <2>1, <2>2, SendType DEF Type
<1>9. ASSUME NEW n \in Node, SendOpen(n) PROVE TypeInv'
  <2>1. Send(n, "Open", {}, net[n])
    BY <1>9 DEF SendOpen
  <2>. QED
    BY <1>0, <2>1, SendType DEF Type
<1>10. ASSUME NEW n \in Node, NEW p \in Node, SendDirected(n, p) PROVE TypeInv'
  <2>1. Send(n, "Directed", {p}, net[n])
    BY <1>10 DEF SendDirected
  <2>. QED
    BY <1>0, <2>1, SendType DEF Type
<1>11. ASSUME NEW n \in Node, GetStuck(n) PROVE TypeInv'
  <2>. DEFINE f == [net[n] EXCEPT !.phase = "stuck"]
  <2>1. FieldsOf(n, f)
    BY <1>0, FieldsChange DEF TypeInv
  <2>. QED
    BY <1>11, <2>1, BecomesType DEF GetStuck
<1>12. ASSUME NEW n \in Node, FetchFails(n) PROVE TypeInv'
  <2>. DEFINE f == [net[n] EXCEPT !.phase = "failed"]
  <2>1. FieldsOf(n, f)
    BY <1>0, FieldsChange DEF TypeInv
  <2>. QED
    BY <1>12, <2>1, BecomesType DEF FetchFails
<1>13. ASSUME NEW d \in datagrams, Receive(d) PROVE TypeInv'
  BY <1>13, ReceiveType DEF Delivered
<1>14. ASSUME NEW d \in datagrams, Drop(d) PROVE TypeInv'
  BY <1>14 DEF Drop, TypeInv, TypeOK, Counted
<1>15. ASSUME NEW n \in Node, NEW q \in Node, BootstrapAnswer(n, net[q].arrayNetwork) PROVE TypeInv'
  <2>1. net[q].arrayNetwork \in SUBSET Node
    BY DEF TypeInv, TypeOK, Fields
  <2>. QED
    BY <1>4, <1>15, <2>1
<1>16. ASSUME NEW n \in Node, BootstrapAnswer(n, {}) PROVE TypeInv'
  BY <1>4, <1>16
<1>. QED
  BY <1>1, <1>2, <1>3, <1>5, <1>6, <1>7, <1>8, <1>9, <1>10, <1>11, <1>12, <1>13, <1>14, <1>15,
     <1>16, <1>17 DEF Next

-----------------------------------------------------------------------------
(* The transport.                                                           *)

\* What a send changes, but for the fields of its node: the message is m.
SendsAs(n, type, dest, f, m) ==
    /\ m.origin = n /\ m.type = type /\ m.dest = dest
    /\ m \notin sent /\ clock[n] <= m.seq
    /\ sent' = sent \cup {m} /\ clock' = [clock EXCEPT ![n] = m.seq]
    /\ Broadcast(n, m, FALSE, f, datagrams)
    /\ \A d \in datagrams' :
          d \in datagrams \/ (d.msg = m /\ d.from = n /\ d.to \in Targets(n, m, FALSE))
    /\ UNCHANGED <<scene, peers, seen, handled>>

LEMMA SendShape ==
    ASSUME TypeInv, NEW n \in Node, NEW type \in Type, NEW dest \in {{}} \cup {{p} : p \in Node},
           NEW f, Send(n, type, dest, f)
    PROVE  \E m \in Message : SendsAs(n, type, dest, f, m)
<1>. DEFINE k == Cardinality(sent)
<1>1. PICK seq \in {clock[n], clock[n] + 1} \ {0} :
         LET m == [type |-> type, origin |-> n, dest |-> dest, seq |-> seq, id |-> k + 1]
         IN  /\ Broadcast(n, m, FALSE, f, datagrams)
             /\ clock' = [clock EXCEPT ![n] = seq]
             /\ sent' = sent \cup {m}
  BY DEF Send
<1>. DEFINE m == [type |-> type, origin |-> n, dest |-> dest, seq |-> seq, id |-> k + 1]
<1>2. k \in Nat /\ k < scene.sends /\ k + 1 \in 1..MaxSends /\ clock[n] \in Nat /\ clock[n] <= k
  BY SceneType, FS_CardinalityType, NodeAssumption DEF TypeInv, Counted, Send, TypeOK
<1>3. seq \in 1..MaxSends /\ clock[n] <= seq
  <2>1. seq = clock[n] \/ seq = clock[n] + 1
    OBVIOUS
  <2>. HIDE DEF k
  <2>. QED
    BY <1>2, <2>1, NodeAssumption
<1>4. m \in Message /\ m.id = k + 1 /\ m.seq = seq /\ m.origin = n /\ m.type = type /\ m.dest = dest
  BY <1>2, <1>3 DEF Message
<1>5. /\ Broadcast(n, m, FALSE, f, datagrams) /\ sent' = sent \cup {m}
      /\ clock' = [clock EXCEPT ![n] = seq]
  BY <1>1
<1>. HIDE DEF m, k
<1>6. m \notin sent
  BY <1>2, <1>4 DEF TypeInv, Counted, k
<1>7. datagrams' \subseteq datagrams \cup Sendings(n, m, Targets(n, m, FALSE))
  BY <1>5, BroadcastShape
<1>8. \A d \in Sendings(n, m, Targets(n, m, FALSE)) :
         d.msg = m /\ d.from = n /\ d.to # m.origin /\ d.to \in Targets(n, m, FALSE)
  <2>. DEFINE S == Targets(n, m, FALSE)
  <2>1. m.origin \notin S
    BY DEF Targets
  <2>. HIDE DEF S
  <2>2. \A d \in Sendings(n, m, S) : \E p \in S : d = [msg |-> m, from |-> n, to |-> p]
    BY DEF Sendings
  <2>3. \A d \in Sendings(n, m, S) : d.msg = m /\ d.from = n /\ d.to # m.origin /\ d.to \in S
    BY <2>1, <2>2
  <2>. QED
    BY <2>3 DEF S
<1>9. UNCHANGED <<scene, peers, seen, handled>>
  BY DEF Send
<1>10. \A d \in datagrams' :
          d \in datagrams \/ (d.msg = m /\ d.from = n /\ d.to \in Targets(n, m, FALSE))
  <2>. TAKE d \in datagrams'
  <2>1. d \in datagrams \/ d \in Sendings(n, m, Targets(n, m, FALSE))
    BY <1>7
  <2>. QED
    BY <1>8, <2>1
<1>. QED
  BY <1>3, <1>4, <1>5, <1>6, <1>9, <1>10 DEF SendsAs

\* What taking a datagram changes, but for the fields of its node.
LEMMA ReceiveShape ==
    ASSUME TypeInv, NEW d \in datagrams, Receive(d)
    PROVE  /\ Takes(d.to, d)
           /\ seen' = [seen EXCEPT ![d.to][d.msg.type][d.msg.origin] = d.msg.seq]
           /\ handled' = [handled EXCEPT ![d.to] = @ \cup {d.msg}]
           /\ \A e \in datagrams' :
                 \/ e \in datagrams
                 \/ /\ Forwards(d) /\ e.msg = d.msg /\ e.from = d.to
                    /\ e.to # d.msg.origin /\ e.to \in Targets(d.to, d.msg, TRUE)
           /\ UNCHANGED <<scene, peers, clock, sent>>
<1>. DEFINE n == d.to
            f == [net[n] EXCEPT !.mapOnline = @ \cup {d.from}]
<1>1. n \in Node /\ d.msg \in Message
  BY DEF TypeInv, TypeOK
<1>2. /\ seen' = [seen EXCEPT ![n][d.msg.type][d.msg.origin] = d.msg.seq]
      /\ handled' = [handled EXCEPT ![n] = @ \cup {d.msg}]
      /\ \/ Forwards(d) /\ Broadcast(n, d.msg, TRUE, f, datagrams \ {d})
         \/ datagrams' = datagrams \ {d}
      /\ UNCHANGED <<scene, peers, clock, sent>>
  BY DEF Receive
<1>. HIDE DEF n, f
<1>3. ASSUME Forwards(d), Broadcast(n, d.msg, TRUE, f, datagrams \ {d}), NEW e \in datagrams'
      PROVE  \/ e \in datagrams
             \/ e.msg = d.msg /\ e.from = n /\ e.to # d.msg.origin /\ e.to \in Targets(n, d.msg, TRUE)
  <2>1. datagrams' \subseteq (datagrams \ {d}) \cup Sendings(n, d.msg, Targets(n, d.msg, TRUE))
    BY <1>3, BroadcastShape
  <2>2. \A x \in Sendings(n, d.msg, Targets(n, d.msg, TRUE)) :
           x.msg = d.msg /\ x.from = n /\ x.to # d.msg.origin /\ x.to \in Targets(n, d.msg, TRUE)
    BY <1>1, SendingsType DEF TypeInv
  <2>. QED
    BY <2>1, <2>2
<1>4. \A e \in datagrams' :
         \/ e \in datagrams
         \/ /\ Forwards(d) /\ e.msg = d.msg /\ e.from = n
            /\ e.to # d.msg.origin /\ e.to \in Targets(n, d.msg, TRUE)
  BY <1>2, <1>3
<1>5. Takes(n, d)
  BY DEF Receive, n
<1>. QED
  BY <1>2, <1>4, <1>5 DEF n

\* A callback other than these leaves the messages alone, or drops one.
MessagesSame == UNCHANGED <<seen, clock, sent, handled>> /\ datagrams' \subseteq datagrams

\* The sends and receipts, and the rest.
LEMMA StepKinds ==
    ASSUME [Next]_vars
    PROVE  \/ MessagesSame
           \/ \E n \in Node, type \in Type, dest \in {{}} \cup {{p} : p \in Node} :
                 \E f : Send(n, type, dest, f)
           \/ \E d \in datagrams : Receive(d)
<1>1. CASE UNCHANGED vars
  BY <1>1 DEF vars, msgVars, MessagesSame
<1>2. ASSUME NEW n \in Node, SendStatus(n)
      PROVE  \E f : Send(n, "Status", {}, f)
  BY <1>2 DEF SendStatus
<1>3. ASSUME NEW n \in Node, SendOpen(n)
      PROVE  \E f : Send(n, "Open", {}, f)
  BY <1>3 DEF SendOpen
<1>4. ASSUME NEW n \in Node, NEW p \in Node, SendDirected(n, p)
      PROVE  \E f : Send(n, "Directed", {p}, f)
  BY <1>4 DEF SendDirected
<1>5. ASSUME NEW d \in datagrams, Drop(d) PROVE MessagesSame
  BY <1>5 DEF Drop, MessagesSame
<1>6. ASSUME NEW n \in Node, NEW p \in Node, NEW list,
             \/ SamUp(n) \/ InitTimer(n) \/ BootstrapAnswer(n, list) \/ P2PNetwork(n)
             \/ Expire(n, p) \/ AddPeer(n, p) \/ RemovePeer(n, p) \/ GetStuck(n) \/ FetchFails(n)
      PROVE  MessagesSame
  <2>1. UNCHANGED msgVars
    BY <1>6 DEF SamUp, InitTimer, BootstrapAnswer, P2PNetwork, Expire, AddPeer, RemovePeer,
                GetStuck, FetchFails
  <2>. QED
    BY <2>1 DEF msgVars, MessagesSame
<1>. QED
  <2>1. "Status" \in Type /\ "Open" \in Type /\ "Directed" \in Type
    BY DEF Type
  <2>. QED
    BY <1>1, <1>2, <1>3, <1>4, <1>5, <1>6, <2>1 DEF Next

LEMMA DeliveredStep == TypeInv /\ Delivered /\ [Next]_vars => Delivered'
<1>. SUFFICES ASSUME TypeInv, Delivered, [Next]_vars PROVE Delivered'
  OBVIOUS
<1>1. CASE MessagesSame
  BY <1>1 DEF MessagesSame, Delivered
<1>2. ASSUME NEW n \in Node, NEW type \in Type, NEW dest \in {{}} \cup {{p} : p \in Node},
             NEW f, Send(n, type, dest, f)
      PROVE  Delivered'
  <2>1. PICK m \in Message :
           /\ m.origin = n /\ clock[n] <= m.seq
           /\ sent' = sent \cup {m} /\ clock' = [clock EXCEPT ![n] = m.seq]
           /\ \A d \in datagrams' :
                 d \in datagrams \/ (d.msg = m /\ d.from = n /\ d.to \in Targets(n, m, FALSE))
           /\ UNCHANGED <<seen, handled>>
    BY <1>2, SendShape DEF SendsAs
  <2>2. m.origin \notin Targets(n, m, FALSE)
    BY DEF Targets
  <2>3. \A d \in datagrams' : d.msg \in sent' /\ d.to # d.msg.origin
    BY <2>1, <2>2 DEF Delivered
  <2>4. \A k \in sent' : k.seq <= clock'[k.origin]
    <3>1. \A k \in sent : k.origin \in Node /\ k.seq \in Int /\ clock[k.origin] \in Int
      BY DEF TypeInv, TypeOK, Message
    <3>2. m.seq \in Int /\ clock[n] \in Int /\ clock \in [Node -> 0..MaxSends]
      BY DEF TypeInv, TypeOK, Message
    <3>. QED
      BY <2>1, <3>1, <3>2 DEF Delivered
  <2>. QED
    BY <2>1, <2>3, <2>4 DEF Delivered
<1>3. ASSUME NEW d \in datagrams, Receive(d) PROVE Delivered'
  <2>. DEFINE n == d.to
              m == d.msg
  <2>1. /\ Takes(n, d)
        /\ seen' = [seen EXCEPT ![n][m.type][m.origin] = m.seq]
        /\ handled' = [handled EXCEPT ![n] = @ \cup {m}]
        /\ \A e \in datagrams' :
              \/ e \in datagrams
              \/ /\ Forwards(d) /\ e.msg = d.msg /\ e.from = d.to
                 /\ e.to # d.msg.origin /\ e.to \in Targets(d.to, d.msg, TRUE)
        /\ UNCHANGED <<scene, peers, clock, sent>>
    BY <1>3, ReceiveShape
  <2>2. n \in Node /\ m \in Message /\ m \in sent /\ m.type \in Type /\ m.origin \in Node
    BY DEF TypeInv, TypeOK, Delivered, Message
  <2>. HIDE DEF n, m
  <2>3. seen[n][m.type][m.origin] < m.seq
    BY <2>1 DEF Takes, Newer, n, m
  <2>4. \A e \in datagrams' : e.msg \in sent' /\ e.to # e.msg.origin
    BY <2>1, <2>2 DEF Delivered
  <2>5. ASSUME NEW q \in Node, NEW k \in handled'[q]
        PROVE  k.seq <= seen'[q][k.type][k.origin]
    <3>1. k \in handled[q] \/ (q = n /\ k = m)
      BY <2>1, <2>2 DEF TypeInv, TypeOK
    <3>2. k \in sent /\ k \in Message
      BY <2>2, <3>1 DEF TypeInv, TypeOK
    <3>3. /\ k.type \in Type /\ k.origin \in Node /\ k.seq \in Int
          /\ seen[q][k.type][k.origin] \in Int /\ m.seq \in Int
      BY <2>2, <3>2 DEF TypeInv, TypeOK, Message
    <3>4. seen'[q][k.type][k.origin] =
             IF q = n /\ k.type = m.type /\ k.origin = m.origin THEN m.seq
             ELSE seen[q][k.type][k.origin]
      BY <2>1, <2>2, <3>3 DEF TypeInv, TypeOK
    <3>5. CASE k \in handled[q]
      <4>1. k.seq <= seen[q][k.type][k.origin]
        BY <3>5 DEF Delivered
      <4>. QED
        BY <2>3, <3>3, <3>4, <4>1
    <3>6. CASE q = n /\ k = m
      BY <3>3, <3>4, <3>6
    <3>. QED
      BY <3>1, <3>5, <3>6
  <2>. QED
    BY <2>1, <2>4, <2>5 DEF Delivered
<1>. QED
  BY <1>1, <1>2, <1>3, StepKinds

LEMMA InitInv == Init => TypeInv /\ Delivered
<1>. SUFFICES ASSUME Init PROVE TypeInv /\ Delivered
  OBVIOUS
<1>1. scene \in ScenarioType /\ scene.genesis \in SUBSET Node /\ scene.url \in BOOLEAN
  BY ScenarioAssumption DEF Init, ScenarioType
<1>2. \A n \in Node : FieldsOf(n, Started) /\ FieldsOf(n, Connected(n))
  BY <1>1, NodeAssumption DEF FieldsOf, Started, Connected, Fields, Member
<1>3. net \in [Node -> Fields] /\ \A n \in Node : FieldsOf(n, net[n])
  <2>. HIDE DEF Started
  <2>1. net = [n \in Node |-> IF n \in scene.fresh THEN Started ELSE Connected(n)]
    BY DEF Init
  <2>. QED
    BY <1>2, <2>1 DEF FieldsOf
<1>4. 0 \in 0..MaxSends
  BY NodeAssumption
<1>5. peers \in [Node -> SUBSET Node]
  BY <1>1 DEF Init, Member
<1>6. seen \in [Node -> [Type -> [Node -> 0..MaxSends]]]
  BY <1>4 DEF Init
<1>7. TypeOK
  BY <1>3, <1>4, <1>5, <1>6 DEF Init, TypeOK, FieldsOf
<1>8. IsFiniteSet({}) /\ Cardinality({}) = 0
  BY FS_EmptySet
<1>9. Counted
  BY <1>3, <1>8 DEF Init, Counted, FieldsOf
<1>. QED
  BY <1>7, <1>9 DEF Init, TypeInv, Delivered

LEMMA TransportInv == Spec => [](TypeInv /\ Delivered)
BY InitInv, TypeStep, DeliveredStep, PTL DEF Spec

\* Every variable of the network has its type.
THEOREM TypeCorrect == Spec => []TypeOK
BY TransportInv, PTL DEF TypeInv

\* The lists of peers and the gossip over one hop are a transport as BlockFactory
\* takes it: a message is processed by others than its origin, once, and after
\* every earlier one of its type and origin that is processed at all.
THEOREM TransportImplemented == Spec => ImplementsTransport
<1>1. Init => T!TransportInit
  BY DEF Init, T!TransportInit
<1>2. ASSUME TypeInv, Delivered, [Next]_vars
      PROVE  [T!TransportNext]_(T!transportVars)
  <2>1. CASE MessagesSame
    BY <2>1 DEF MessagesSame, T!transportVars
  <2>2. ASSUME NEW n \in Node, NEW type \in Type, NEW dest \in {{}} \cup {{p} : p \in Node},
               NEW f, Send(n, type, dest, f)
        PROVE  T!TransportNext
    <3>1. PICK m \in Message :
             /\ m.origin = n /\ m \notin sent /\ clock[n] <= m.seq
             /\ sent' = sent \cup {m} /\ UNCHANGED handled
      BY <1>2, <2>2, SendShape DEF SendsAs
    <3>2. \A k \in sent : k.origin = n => k.seq <= m.seq
      <4>1. \A k \in sent : k.seq <= clock[k.origin] /\ k.seq \in Int
        BY <1>2 DEF TypeInv, TypeOK, Message, Delivered
      <4>2. clock[n] \in Int /\ m.seq \in Int
        BY <1>2 DEF TypeInv, TypeOK, Message
      <4>. QED
        BY <3>1, <4>1, <4>2
    <3>3. T!Sending(m)
      BY <3>1, <3>2 DEF T!Sending, T!SameStream
    <3>. QED
      BY <3>3 DEF T!TransportNext
  <2>3. ASSUME NEW d \in datagrams, Receive(d) PROVE T!TransportNext
    <3>. DEFINE n == d.to
                m == d.msg
    <3>1. /\ seen[n][m.type][m.origin] < m.seq
          /\ handled' = [handled EXCEPT ![n] = @ \cup {m}] /\ UNCHANGED sent
      BY <1>2, <2>3, ReceiveShape DEF Takes, Newer
    <3>2. n \in Node /\ m \in sent /\ m.origin # n
      BY <1>2 DEF TypeInv, TypeOK, Delivered
    <3>. HIDE DEF n, m
    <3>3. ASSUME NEW k \in handled[n], k.type = m.type, k.origin = m.origin PROVE k.seq < m.seq
      <4>1. k \in Message /\ m \in Message /\ k.seq <= seen[n][m.type][m.origin]
        BY <1>2, <3>2, <3>3 DEF TypeInv, TypeOK, Delivered
      <4>2. k.seq \in Int /\ m.seq \in Int /\ seen[n][m.type][m.origin] \in Int
        BY <1>2, <3>2, <4>1 DEF TypeInv, TypeOK, Message
      <4>. QED
        BY <3>1, <4>1, <4>2
    <3>4. T!Handling(n, m)
      BY <3>1, <3>2, <3>3 DEF T!Handling, T!SameStream
    <3>. QED
      BY <3>2, <3>4 DEF T!TransportNext
  <2>. QED
    BY <1>2, <2>1, <2>2, <2>3, StepKinds
<1>. QED
  BY <1>1, <1>2, TransportInv, PTL DEF Spec, ImplementsTransport, T!TransportSpec

-----------------------------------------------------------------------------
(* A node that begins has somebody to ask.                                  *)

\* A node without a bootstrap URL makes both lists at once, so that it has others
\* to send to as soon as hasP2PNetwork counts anybody.
CanAsk(f) ==
    f.bootstrap = "none" =>
        /\ f.arrayNetwork # {} => f.arrayBroadcast # {}
        /\ f.phase = "ready" => f.arrayBroadcast # {}

AllCanAsk == \A n \in Node : CanAsk(net[n])

LEMMA CanAskInit == Init => AllCanAsk
<1>. SUFFICES ASSUME Init, NEW n \in Node PROVE CanAsk(net[n])
  BY DEF AllCanAsk
<1>1. net[n] = IF n \in scene.fresh THEN Started ELSE Connected(n)
  BY DEF Init
<1>2. CASE n \in scene.fresh
  BY <1>1, <1>2 DEF Started, CanAsk
<1>3. CASE n \notin scene.fresh
  <2>1. Member # {n} /\ n \in Member
    BY <1>3, ScenarioAssumption DEF Init, Member
  <2>2. Member \ {n} # {}
    BY <2>1
  <2>. QED
    BY <1>1, <1>3, <2>2 DEF Connected, CanAsk
<1>. QED
  BY <1>2, <1>3

\* A node with other fields.
LEMMA CanAskChange ==
    ASSUME TypeInv, AllCanAsk, NEW n \in Node, NEW g, FieldsOf(n, g), CanAsk(g),
           \/ net' = [net EXCEPT ![n] = g]
           \/ net' = [net EXCEPT ![n] = [g EXCEPT !.phase = "failed"]]
    PROVE  AllCanAsk'
<1>. DEFINE h == [g EXCEPT !.phase = "failed"]
<1>1. CanAsk(h)
  BY DEF CanAsk, FieldsOf, Fields
<1>. HIDE DEF h
<1>2. \E x \in {g, h} : net' = [net EXCEPT ![n] = x]
  BY DEF h
<1>3. PICK x \in {g, h} : net' = [net EXCEPT ![n] = x]
  BY <1>2
<1>4. \A k \in Node : net'[k] = IF k = n THEN x ELSE net[k]
  BY <1>3 DEF TypeInv, TypeOK
<1>. QED
  BY <1>1, <1>4 DEF AllCanAsk

LEMMA CanAskStep == TypeInv /\ AllCanAsk /\ [Next]_vars => AllCanAsk'
<1>. SUFFICES ASSUME TypeInv, AllCanAsk, [Next]_vars PROVE AllCanAsk'
  OBVIOUS
<1>0. TypeOK /\ \A n \in Node : FieldsOf(n, net[n]) /\ CanAsk(net[n])
  BY DEF TypeInv, TypeOK, Counted, FieldsOf, AllCanAsk
<1>1. ASSUME UNCHANGED net PROVE AllCanAsk'
  BY <1>1 DEF AllCanAsk
<1>2. ASSUME NEW n \in Node, SamUp(n) PROVE AllCanAsk'
  <2>. DEFINE g == net[n]
              f == [g EXCEPT !.sam = TRUE]
  <2>1. FieldsOf(n, g) /\ CanAsk(g)
    BY <1>0
  <2>2. net' = [net EXCEPT ![n] = f] /\ FieldsOf(n, f)
    BY <1>0, <1>2, <2>1, FieldsChange DEF SamUp, Becomes
  <2>. HIDE DEF g
  <2>3. CanAsk(f)
    BY <2>1 DEF CanAsk, FieldsOf, Fields
  <2>. QED
    BY <2>2, <2>3, CanAskChange DEF g
<1>3. ASSUME NEW n \in Node, InitTimer(n) PROVE AllCanAsk'
  <2>. DEFINE g == net[n]
              ph == IF Retry(n) > MaxInit THEN "failed"
                    ELSE IF HasP2PNetwork(n) THEN "ready" ELSE g.phase
              f == [g EXCEPT !.inits = Retry(n), !.phase = ph]
  <2>1. FieldsOf(n, g) /\ CanAsk(g)
    BY <1>0
  <2>2. /\ Retry(n) \in 1..(MaxInit + 1) /\ ph \in {"starting", "ready", "failed"}
        /\ ph = "starting" => Retry(n) <= MaxInit
    BY <1>3, <2>1, NodeAssumption DEF InitTimer, Retry, FieldsOf, Fields
  <2>3. ph = "ready" => g.arrayNetwork # {}
    <3>1. SUFFICES ASSUME HasP2PNetwork(n), g.arrayNetwork = {} PROVE FALSE
      BY <1>3, <2>2 DEF InitTimer
    <3>2. peers[n] \subseteq Node
      BY <1>0 DEF TypeOK
    <3>3. Cardinality(peers[n]) \in Nat
      BY <3>2, NodeAssumption, FS_Subset, FS_CardinalityType
    <3>4. Cardinality({}) = 0
      BY FS_EmptySet
    <3>. QED
      BY <3>1, <3>3, <3>4 DEF HasP2PNetwork
  <2>4. net' = [net EXCEPT ![n] = f]
    BY <1>3 DEF InitTimer, Becomes
  <2>. HIDE DEF g, ph
  <2>5. CanAsk(f)
    BY <2>1, <2>3 DEF CanAsk, FieldsOf, Fields
  <2>6. FieldsOf(n, f)
    BY <1>0, <2>1, <2>2, FieldsChange
  <2>. QED
    BY <2>4, <2>5, <2>6, CanAskChange DEF g
<1>4. ASSUME NEW n \in Node, NEW list \in SUBSET Node, BootstrapAnswer(n, list) PROVE AllCanAsk'
  <2>1. PICK b \in {"asking", "open", "done"} :
           Becomes(n, [net[n] EXCEPT !.arrayNetwork = list, !.bootstrap = b])
    BY <1>4 DEF BootstrapAnswer
  <2>. DEFINE g == net[n]
              f == [g EXCEPT !.arrayNetwork = list, !.bootstrap = b]
  <2>2. FieldsOf(n, g) /\ CanAsk(g)
    BY <1>0
  <2>3. net' = [net EXCEPT ![n] = f] /\ FieldsOf(n, f)
    BY <1>0, <2>1, <2>2, FieldsChange DEF Becomes
  <2>. HIDE DEF g
  <2>4. CanAsk(f)
    BY <2>2 DEF CanAsk, FieldsOf, Fields
  <2>. QED
    BY <2>3, <2>4, CanAskChange DEF g
<1>5. ASSUME NEW n \in Node, P2PNetwork(n) PROVE AllCanAsk'
  <2>. DEFINE g == net[n]
              f == [g EXCEPT !.arrayNetwork = peers[n], !.arrayBroadcast = Others(n),
                             !.mapOnline = @ \cup {n}, !.statusDue = TRUE]
  <2>1. FieldsOf(n, g) /\ CanAsk(g)
    BY <1>0
  <2>2. net' = [net EXCEPT ![n] = f]
    BY <1>5 DEF P2PNetwork, Becomes
  <2>3. Others(n) # {}
    <3>1. SUFFICES ASSUME peers[n] \ {n} = {} PROVE FALSE
      BY DEF Others
    <3>2. peers[n] = {} \/ peers[n] = {n}
      BY <3>1
    <3>3. Cardinality({}) = 0 /\ Cardinality({n}) = 1
      BY FS_EmptySet, FS_Singleton
    <3>. QED
      BY <1>5, <3>2, <3>3 DEF P2PNetwork
  <2>4. FieldsOf(n, f)
    BY <1>0, <2>1, FieldsChange
  <2>. HIDE DEF g
  <2>5. CanAsk(f)
    BY <2>1, <2>3 DEF CanAsk, FieldsOf, Fields
  <2>. QED
    BY <2>2, <2>4, <2>5, CanAskChange DEF g
<1>6. ASSUME NEW n \in Node, NEW p \in Node, Expire(n, p) PROVE AllCanAsk'
  <2>. DEFINE g == net[n]
              f == [g EXCEPT !.mapOnline = @ \ {p}]
  <2>1. FieldsOf(n, g) /\ CanAsk(g)
    BY <1>0
  <2>2. net' = [net EXCEPT ![n] = f] /\ FieldsOf(n, f)
    BY <1>0, <1>6, <2>1, FieldsChange DEF Expire, Becomes
  <2>. HIDE DEF g
  <2>3. CanAsk(f)
    BY <2>1 DEF CanAsk, FieldsOf, Fields
  <2>. QED
    BY <2>2, <2>3, CanAskChange DEF g
<1>7. ASSUME NEW n \in Node, NEW type \in Type, NEW dest \in {{}} \cup {{p} : p \in Node}, NEW f,
             FieldsOf(n, f), CanAsk(f), Send(n, type, dest, f)
      PROVE  AllCanAsk'
  <2>1. PICK m \in Message : Broadcast(n, m, FALSE, f, datagrams)
    BY <1>7, SendShape DEF SendsAs
  <2>2. \/ net' = [net EXCEPT ![n] = f]
        \/ net' = [net EXCEPT ![n] = [f EXCEPT !.phase = "failed"]]
    BY <2>1, BroadcastShape
  <2>. QED
    BY <1>7, <2>2, CanAskChange
<1>8. ASSUME NEW n \in Node, SendStatus(n) PROVE AllCanAsk'
  <2>. DEFINE g == net[n]
              f == [g EXCEPT !.statusDue = FALSE]
  <2>1. FieldsOf(n, g) /\ CanAsk(g)
    BY <1>0
  <2>2. Send(n, "Status", {}, f) /\ FieldsOf(n, f) /\ "Status" \in Type
    BY <1>0, <1>8, <2>1, FieldsChange DEF SendStatus, Type
  <2>. HIDE DEF g
  <2>3. CanAsk(f)
    BY <2>1 DEF CanAsk, FieldsOf, Fields
  <2>. HIDE DEF f
  <2>. QED
    BY <1>7, <2>2, <2>3
<1>9. ASSUME NEW n \in Node, SendOpen(n) PROVE AllCanAsk'
  <2>1. Send(n, "Open", {}, net[n]) /\ "Open" \in Type
    BY <1>9 DEF SendOpen, Type
  <2>. QED
    BY <1>0, <1>7, <2>1
<1>10. ASSUME NEW n \in Node, NEW p \in Node, SendDirected(n, p) PROVE AllCanAsk'
  <2>1. Send(n, "Directed", {p}, net[n]) /\ "Directed" \in Type
    BY <1>10 DEF SendDirected, Type
  <2>. QED
    BY <1>0, <1>7, <2>1
<1>11. ASSUME NEW n \in Node, NEW ph \in {"stuck", "failed"}, Becomes(n, [net[n] EXCEPT !.phase = ph])
       PROVE  AllCanAsk'
  <2>. DEFINE g == net[n]
              f == [g EXCEPT !.phase = ph]
  <2>1. FieldsOf(n, g) /\ CanAsk(g)
    BY <1>0
  <2>2. net' = [net EXCEPT ![n] = f] /\ FieldsOf(n, f)
    BY <1>0, <1>11, <2>1, FieldsChange DEF Becomes
  <2>. HIDE DEF g
  <2>3. CanAsk(f)
    BY <2>1 DEF CanAsk, FieldsOf, Fields
  <2>. QED
    BY <2>2, <2>3, CanAskChange DEF g
<1>12. ASSUME NEW d \in datagrams, Receive(d) PROVE AllCanAsk'
  <2>. DEFINE n == d.to
              g == net[n]
              f == [g EXCEPT !.mapOnline = @ \cup {d.from}]
  <2>1. n \in Node /\ d.from \in Node
    BY <1>0 DEF TypeOK
  <2>2. FieldsOf(n, g) /\ CanAsk(g) /\ FieldsOf(n, f)
    BY <1>0, <2>1, FieldsChange
  <2>3. Broadcast(n, d.msg, TRUE, f, datagrams \ {d}) \/ Becomes(n, f)
    BY <1>12 DEF Receive
  <2>. HIDE DEF n, f
  <2>4. CanAsk(f)
    <3>. HIDE DEF g
    <3>. QED
      BY <2>2 DEF CanAsk, FieldsOf, Fields, f
  <2>5. \/ net' = [net EXCEPT ![n] = f]
        \/ net' = [net EXCEPT ![n] = [f EXCEPT !.phase = "failed"]]
    <3>1. CASE Broadcast(n, d.msg, TRUE, f, datagrams \ {d})
      <4>1. /\ \/ net' = [net EXCEPT ![n] = f]
               \/ /\ net' = [net EXCEPT ![n] = [f EXCEPT !.phase = "failed"]]
                  /\ ~(Targets(n, d.msg, TRUE) \subseteq peers[n])
            /\ datagrams' \subseteq (datagrams \ {d}) \cup Sendings(n, d.msg, Targets(n, d.msg, TRUE))
        BY <3>1, BroadcastShape
      <4>. QED
        BY <4>1
    <3>2. CASE Becomes(n, f)
      BY <3>2 DEF Becomes
    <3>. QED
      BY <2>3, <3>1, <3>2
  <2>. QED
    BY <2>1, <2>2, <2>4, <2>5, CanAskChange
<1>13. ASSUME NEW n \in Node, GetStuck(n) \/ FetchFails(n) PROVE AllCanAsk'
  <2>1. \E ph \in {"stuck", "failed"} : Becomes(n, [net[n] EXCEPT !.phase = ph])
    BY <1>13 DEF GetStuck, FetchFails
  <2>. QED
    BY <1>11, <2>1
<1>14. ASSUME NEW n \in Node, NEW p \in Node, AddPeer(n, p) \/ RemovePeer(n, p) PROVE UNCHANGED net
  BY <1>14 DEF AddPeer, RemovePeer
<1>15. ASSUME NEW d \in datagrams, Drop(d) PROVE UNCHANGED net
  BY <1>15 DEF Drop
<1>16. UNCHANGED vars => UNCHANGED net
  BY DEF vars
<1>17. \A q \in Node : net[q].arrayNetwork \in SUBSET Node
  BY <1>0 DEF TypeOK, Fields
<1>. QED
  BY <1>1, <1>2, <1>3, <1>4, <1>5, <1>6, <1>8, <1>9, <1>10, <1>12, <1>13, <1>14, <1>15, <1>16, <1>17
     DEF Next

\* A node without a bootstrap URL that has begun has somebody to send to and to
\* ask, whatever its genesis block holds and however the peers change.
THEOREM NodesCanAsk == Spec => []ReadyCanAsk
<1>1. AllCanAsk => ReadyCanAsk
  BY DEF AllCanAsk, CanAsk, ReadyCanAsk
<1>. QED
  BY <1>1, CanAskInit, CanAskStep, TransportInv, PTL DEF Spec

-----------------------------------------------------------------------------
(* As long as the peers do not change, nobody ends.                         *)

\* What a node knows: it sends to peers of its blockchain, and a member has what
\* is on it, whatever a bootstrap node has told a node that starts.
FieldsStay(n, f) ==
    /\ f.arrayBroadcast \subseteq peers[n] /\ f.mapOnline \subseteq peers[n] \cup {n}
    /\ n \in Member => f.arrayNetwork = Member /\ f.bootstrap = "none" /\ f.phase = "ready"
    /\ f.phase = "failed" => f.inits > MaxInit

\* Members and starting nodes each agree on the peers, so that who gets a message
\* from its origin and takes it knows the addressee as the origin does.
StayInv ==
    /\ scene.joining = {} /\ scene.leaving = {}
    /\ \A n \in Node : peers[n] = IF n \in scene.fresh THEN scene.genesis ELSE Member
    /\ \A n \in Node : FieldsStay(n, net[n])
    /\ \A m \in sent : m.dest \subseteq peers[m.origin]
    /\ \A d \in datagrams : d.to \in peers[d.from]

Fixed == scene.joining = {} /\ scene.leaving = {}

LEMMA StayInit == Init /\ Fixed => StayInv
<1>. SUFFICES ASSUME Init, Fixed PROVE StayInv
  OBVIOUS
<1>1. \A n \in Node : peers[n] = IF n \in scene.fresh THEN scene.genesis ELSE Member
  BY DEF Init
<1>2. ASSUME NEW n \in Node PROVE FieldsStay(n, net[n])
  <2>1. CASE n \in scene.fresh
    <3>1. net[n] = Started /\ n \notin Member
      BY <2>1 DEF Init, Member
    <3>. QED
      BY <3>1 DEF Started, FieldsStay
  <2>2. CASE n \notin scene.fresh
    <3>1. net[n] = Connected(n) /\ peers[n] = Member
      BY <1>1, <2>2 DEF Init
    <3>. QED
      BY <3>1 DEF Connected, FieldsStay
  <2>. QED
    BY <2>1, <2>2
<1>. QED
  BY <1>1, <1>2 DEF Init, StayInv, Fixed

\* A broadcast to peers does not fail.
LEMMA BroadcastKnown ==
    ASSUME NEW n, NEW m, NEW hop, NEW f, NEW ds, Broadcast(n, m, hop, f, ds),
           Targets(n, m, hop) \subseteq peers[n]
    PROVE  net' = [net EXCEPT ![n] = f]
BY DEF Broadcast, Becomes, Known

\* A node with other fields.
LEMMA StayChange ==
    ASSUME TypeInv, StayInv, NEW n \in Node, NEW f, FieldsStay(n, f),
           net' = [net EXCEPT ![n] = f], UNCHANGED <<scene, peers>>
    PROVE  /\ scene.joining' = {} /\ scene.leaving' = {}
           /\ (\A k \in Node : peers[k] = IF k \in scene.fresh THEN scene.genesis ELSE Member)'
           /\ (\A k \in Node : FieldsStay(k, net[k]))'
<1>1. \A k \in Node : net'[k] = IF k = n THEN f ELSE net[k]
  BY DEF TypeInv, TypeOK
<1>2. \A k \in Node : FieldsStay(k, net'[k])
  BY <1>1 DEF StayInv
<1>. QED
  BY <1>2 DEF StayInv, FieldsStay, Member

\* The same without messages.
LEMMA StayBecomes ==
    ASSUME TypeInv, StayInv, NEW n \in Node, NEW f, FieldsStay(n, f), Becomes(n, f),
           UNCHANGED <<scene, peers, msgVars>>
    PROVE  StayInv'
<1>1. net' = [net EXCEPT ![n] = f] /\ UNCHANGED <<scene, peers, datagrams, sent>>
  BY DEF Becomes, msgVars
<1>. QED
  BY <1>1, StayChange DEF StayInv

LEMMA StaySend ==
    ASSUME TypeInv, StayInv, NEW n \in Node, NEW type \in Type,
           NEW dest \in {{}} \cup {{p} : p \in Node}, dest \subseteq peers[n],
           NEW f, FieldsStay(n, f), Send(n, type, dest, f)
    PROVE  StayInv'
<1>0. PICK m \in Message : SendsAs(n, type, dest, f, m)
  BY SendShape
<1>1. /\ m.origin = n /\ m.type = type /\ m.dest = dest
      /\ m \notin sent /\ clock[n] <= m.seq
      /\ sent' = sent \cup {m} /\ clock' = [clock EXCEPT ![n] = m.seq]
      /\ Broadcast(n, m, FALSE, f, datagrams)
      /\ \A d \in datagrams' :
            d \in datagrams \/ (d.msg = m /\ d.from = n /\ d.to \in Targets(n, m, FALSE))
      /\ UNCHANGED <<scene, peers, seen, handled>>
  BY <1>0 DEF SendsAs
<1>2. Targets(n, m, FALSE) \subseteq peers[n]
  <2>1. net[n].arrayBroadcast \subseteq peers[n]
    BY DEF StayInv, FieldsStay
  <2>2. Targets(n, m, FALSE) \subseteq net[n].arrayBroadcast
    BY DEF Targets
  <2>. QED
    BY <2>1, <2>2
<1>3. net' = [net EXCEPT ![n] = f]
  BY <1>1, <1>2, BroadcastKnown
<1>4. \A d \in datagrams' : d.to \in peers'[d.from]
  BY <1>1, <1>2 DEF StayInv
<1>5. \A k \in sent' : k.dest \subseteq peers'[k.origin]
  BY <1>1 DEF StayInv
<1>6. UNCHANGED <<scene, peers>>
  BY <1>1
<1>7. /\ scene.joining' = {} /\ scene.leaving' = {}
      /\ (\A k \in Node : peers[k] = IF k \in scene.fresh THEN scene.genesis ELSE Member)'
      /\ (\A k \in Node : FieldsStay(k, net[k]))'
  BY <1>3, <1>6, StayChange
<1>. QED
  BY <1>4, <1>5, <1>7 DEF StayInv

\* Who takes a message from its origin has the same peers: a member takes only
\* what members send, and members send only to members.
LEMMA SamePeers ==
    ASSUME TypeInv, StayInv, NEW d \in datagrams, Takes(d.to, d)
    PROVE  peers[d.to] = peers[d.from]
<1>1. d.from \in peers[d.to] /\ d.to \in peers[d.from] /\ d.to \in Node /\ d.from \in Node
  BY DEF Takes, StayInv, TypeInv, TypeOK
<1>2. \A n \in Node : n \notin scene.fresh => peers[n] = Member
  BY DEF StayInv
<1>3. \A n \in Node : n \in scene.fresh => peers[n] = scene.genesis
  BY DEF StayInv
<1>. QED
  BY <1>1, <1>2, <1>3 DEF Member

LEMMA StayReceive ==
    ASSUME TypeInv, Delivered, StayInv, NEW d \in datagrams, Receive(d)
    PROVE  StayInv'
<1>. DEFINE n == d.to
            g == net[n]
            f == [g EXCEPT !.mapOnline = @ \cup {d.from}]
<1>1. /\ Takes(d.to, d)
      /\ seen' = [seen EXCEPT ![d.to][d.msg.type][d.msg.origin] = d.msg.seq]
      /\ handled' = [handled EXCEPT ![d.to] = @ \cup {d.msg}]
      /\ \A e \in datagrams' :
            \/ e \in datagrams
            \/ /\ Forwards(d) /\ e.msg = d.msg /\ e.from = d.to
               /\ e.to # d.msg.origin /\ e.to \in Targets(d.to, d.msg, TRUE)
      /\ UNCHANGED <<scene, peers, clock, sent>>
  BY ReceiveShape
<1>2. n \in Node /\ d.from \in peers[n] /\ d.msg \in sent
  BY <1>1 DEF TypeInv, TypeOK, Takes, Delivered
<1>3. FieldsOf(n, g) /\ FieldsStay(n, g)
  BY <1>2 DEF TypeInv, TypeOK, Counted, FieldsOf, StayInv
<1>4. FieldsStay(n, f)
  <2>. HIDE DEF n, g
  <2>. QED
    BY <1>2, <1>3 DEF FieldsOf, Fields, FieldsStay
<1>5. Forwards(d) => Targets(n, d.msg, TRUE) \subseteq peers[n]
  <2>1. SUFFICES ASSUME d.from = d.msg.origin PROVE Targets(n, d.msg, TRUE) \subseteq peers[n]
    BY DEF Forwards
  <2>2. d.msg.dest \subseteq peers[n]
    BY <1>1, <1>2, <2>1, SamePeers DEF StayInv
  <2>3. net[n].arrayBroadcast \subseteq peers[n]
    BY <1>3 DEF FieldsStay
  <2>. QED
    BY <2>2, <2>3 DEF Targets
<1>6. \/ Forwards(d) /\ Broadcast(n, d.msg, TRUE, f, datagrams \ {d})
      \/ Becomes(n, f)
  BY DEF Receive
<1>. HIDE DEF f, g
<1>7. net' = [net EXCEPT ![n] = f]
  BY <1>5, <1>6, BroadcastKnown DEF Becomes
<1>8. \A e \in datagrams' : e.to \in peers'[e.from]
  BY <1>1, <1>5 DEF StayInv
<1>. HIDE DEF n
<1>. QED
  BY <1>1, <1>2, <1>4, <1>7, <1>8, StayChange DEF StayInv

LEMMA StayStep == TypeInv /\ Delivered /\ StayInv /\ [Next]_vars => StayInv'
<1>. SUFFICES ASSUME TypeInv, Delivered, StayInv, [Next]_vars PROVE StayInv'
  OBVIOUS
<1>0. TypeOK /\ \A n \in Node : FieldsOf(n, net[n]) /\ FieldsStay(n, net[n])
  BY DEF TypeInv, TypeOK, Counted, FieldsOf, StayInv
<1>1. CASE UNCHANGED vars
  BY <1>1 DEF vars, msgVars, StayInv, FieldsStay, Member
<1>2. ASSUME NEW n \in Node, SamUp(n) PROVE StayInv'
  <2>. DEFINE g == net[n]
              f == [g EXCEPT !.sam = TRUE]
  <2>1. FieldsOf(n, g) /\ FieldsStay(n, g)
    BY <1>0
  <2>2. Becomes(n, f) /\ UNCHANGED <<scene, peers, msgVars>>
    BY <1>2 DEF SamUp
  <2>. HIDE DEF g
  <2>3. FieldsStay(n, f)
    BY <2>1 DEF FieldsStay, FieldsOf, Fields
  <2>. QED
    BY <2>2, <2>3, StayBecomes
<1>3. ASSUME NEW n \in Node, InitTimer(n) PROVE StayInv'
  <2>. DEFINE g == net[n]
              ph == IF Retry(n) > MaxInit THEN "failed"
                    ELSE IF HasP2PNetwork(n) THEN "ready" ELSE g.phase
              f == [g EXCEPT !.inits = Retry(n), !.phase = ph]
  <2>1. FieldsOf(n, g) /\ FieldsStay(n, g) /\ g.phase = "starting"
    BY <1>0, <1>3 DEF InitTimer
  <2>2. ph = "failed" => Retry(n) > MaxInit
    BY <2>1
  <2>3. n \notin Member
    BY <2>1 DEF FieldsStay
  <2>4. Becomes(n, f) /\ UNCHANGED <<scene, peers, msgVars>>
    BY <1>3 DEF InitTimer
  <2>. HIDE DEF g, ph
  <2>5. FieldsStay(n, f)
    BY <2>1, <2>2, <2>3 DEF FieldsStay, FieldsOf, Fields
  <2>. QED
    BY <2>4, <2>5, StayBecomes
<1>4. ASSUME NEW n \in Node, NEW list \in SUBSET Node, BootstrapAnswer(n, list) PROVE StayInv'
  <2>1. PICK b \in {"asking", "open", "done"} :
           Becomes(n, [net[n] EXCEPT !.arrayNetwork = list, !.bootstrap = b])
    BY <1>4 DEF BootstrapAnswer
  <2>. DEFINE g == net[n]
              f == [g EXCEPT !.arrayNetwork = list, !.bootstrap = b]
  <2>2. FieldsOf(n, g) /\ FieldsStay(n, g) /\ g.bootstrap \in {"asking", "open"}
    BY <1>0, <1>4 DEF BootstrapAnswer
  <2>3. n \notin Member
    BY <2>2 DEF FieldsStay
  <2>4. Becomes(n, f) /\ UNCHANGED <<scene, peers, msgVars>>
    BY <1>4, <2>1 DEF BootstrapAnswer
  <2>. HIDE DEF g
  <2>5. FieldsStay(n, f)
    BY <2>2, <2>3 DEF FieldsStay, FieldsOf, Fields
  <2>. QED
    BY <2>4, <2>5, StayBecomes
<1>5. ASSUME NEW n \in Node, P2PNetwork(n) PROVE StayInv'
  <2>. DEFINE g == net[n]
              f == [g EXCEPT !.arrayNetwork = peers[n], !.arrayBroadcast = Others(n),
                             !.mapOnline = @ \cup {n}, !.statusDue = TRUE]
  <2>1. FieldsOf(n, g) /\ FieldsStay(n, g)
    BY <1>0
  <2>2. Becomes(n, f) /\ UNCHANGED <<scene, peers, msgVars>>
    BY <1>5 DEF P2PNetwork
  <2>3. n \in Member => peers[n] = Member
    BY DEF Member, StayInv
  <2>. HIDE DEF g
  <2>4. FieldsStay(n, f)
    BY <2>1, <2>3 DEF FieldsStay, FieldsOf, Fields, Others
  <2>. QED
    BY <2>2, <2>4, StayBecomes
<1>6. ASSUME NEW n \in Node, NEW p \in Node, Expire(n, p) PROVE StayInv'
  <2>. DEFINE g == net[n]
              f == [g EXCEPT !.mapOnline = @ \ {p}]
  <2>1. FieldsOf(n, g) /\ FieldsStay(n, g)
    BY <1>0
  <2>2. Becomes(n, f) /\ UNCHANGED <<scene, peers, msgVars>>
    BY <1>6 DEF Expire
  <2>. HIDE DEF g
  <2>3. FieldsStay(n, f)
    BY <2>1 DEF FieldsStay, FieldsOf, Fields
  <2>. QED
    BY <2>2, <2>3, StayBecomes
<1>7. ASSUME NEW n \in Node, NEW p \in Node, AddPeer(n, p) \/ RemovePeer(n, p) PROVE FALSE
  BY <1>7 DEF AddPeer, RemovePeer, StayInv
<1>8. ASSUME NEW n \in Node, SendStatus(n) PROVE StayInv'
  <2>. DEFINE g == net[n]
              f == [g EXCEPT !.statusDue = FALSE]
  <2>1. FieldsOf(n, g) /\ FieldsStay(n, g)
    BY <1>0
  <2>2. Send(n, "Status", {}, f) /\ "Status" \in Type /\ {} \subseteq peers[n]
    BY <1>8 DEF SendStatus, Type
  <2>. HIDE DEF g
  <2>3. FieldsStay(n, f)
    BY <2>1 DEF FieldsStay, FieldsOf, Fields
  <2>. HIDE DEF f
  <2>. QED
    BY <2>2, <2>3, StaySend
<1>9. ASSUME NEW n \in Node, SendOpen(n) PROVE StayInv'
  <2>1. Send(n, "Open", {}, net[n]) /\ "Open" \in Type /\ {} \subseteq peers[n]
    BY <1>9 DEF SendOpen, Type
  <2>. QED
    BY <1>0, <2>1, StaySend
<1>10. ASSUME NEW n \in Node, NEW p \in Node, SendDirected(n, p) PROVE StayInv'
  <2>1. Send(n, "Directed", {p}, net[n]) /\ "Directed" \in Type
    BY <1>10 DEF SendDirected, Type
  <2>2. p \in peers[n]
    BY <1>0, <1>10 DEF SendDirected, Candidates, FieldsStay
  <2>. QED
    BY <1>0, <2>1, <2>2, StaySend
<1>11. ASSUME NEW n \in Node, GetStuck(n) PROVE StayInv'
  <2>. DEFINE g == net[n]
              f == [g EXCEPT !.phase = "stuck"]
  <2>1. FieldsOf(n, g) /\ FieldsStay(n, g)
    BY <1>0
  <2>2. Becomes(n, f) /\ UNCHANGED <<scene, peers, msgVars>>
    BY <1>11 DEF GetStuck
  <2>3. n \notin Member
    BY <1>11, <2>1 DEF GetStuck, Candidates, FieldsStay
  <2>. HIDE DEF g
  <2>4. FieldsStay(n, f)
    BY <2>1, <2>3 DEF FieldsStay, FieldsOf, Fields
  <2>. QED
    BY <2>2, <2>4, StayBecomes
<1>12. ASSUME NEW n \in Node, FetchFails(n) PROVE FALSE
  BY <1>0, <1>12 DEF FetchFails, Known, FieldsStay
<1>13. ASSUME NEW d \in datagrams, Receive(d) PROVE StayInv'
  BY <1>13, StayReceive
<1>14. ASSUME NEW d \in datagrams, Drop(d) PROVE StayInv'
  BY <1>14 DEF Drop, StayInv, FieldsStay, Member
<1>15. \A q \in Node : net[q].arrayNetwork \in SUBSET Node
  BY <1>0 DEF TypeOK, Fields
<1>. QED
  BY <1>1, <1>2, <1>3, <1>4, <1>5, <1>6, <1>7, <1>8, <1>9, <1>10, <1>11, <1>12, <1>13, <1>14, <1>15
     DEF Next

LEMMA StayAlways == Spec => [](Fixed => StayInv)
<1>. DEFINE Inv == Fixed => StayInv
<1>1. Init => Inv
  BY StayInit
<1>2. TypeInv /\ Delivered /\ Inv /\ [Next]_vars => Inv'
  <2>1. [Next]_vars => scene' = scene
    BY DEF Next, vars, SamUp, InitTimer, BootstrapAnswer, P2PNetwork, Expire, AddPeer, RemovePeer,
           SendStatus, SendOpen, SendDirected, GetStuck, FetchFails, Receive, Drop, Send
  <2>. QED
    BY <2>1, StayStep DEF Fixed
<1>. QED
  BY <1>1, <1>2, TransportInv, PTL DEF Spec

\* As long as nobody joins or leaves, no member ends or hangs, and a node that
\* starts ends only because it found no network.
THEOREM NodesStayUp == Spec => []StaysUp
<1>1. (Fixed => StayInv) => StaysUp
  BY DEF Fixed, StayInv, FieldsStay, StaysUp
<1>. QED
  BY <1>1, StayAlways, PTL
=============================================================================
