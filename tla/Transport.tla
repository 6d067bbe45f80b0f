----------------------------- MODULE Transport -----------------------------
(***************************************************************************)
(* What a node may rely on when a message is handed to processMessage: it  *)
(* was sent by its origin, it is handed over once at most, and never after *)
(* a later message of the same type and origin.  Messages may be late, and *)
(* they may get lost.  BlockFactory takes its messages from a transport    *)
(* like this one (msgs and seen there); Network implements it.             *)
(***************************************************************************)
EXTENDS Integers

CONSTANTS
    Node,      \* the nodes
    Message    \* the messages: type, origin, sequence number and more

VARIABLES
    sent,      \* the messages sent so far
    handled    \* the messages each node has handled

transportVars == <<sent, handled>>

SameStream(m, k) == m.type = k.type /\ m.origin = k.origin

TransportInit ==
    /\ sent = {}
    /\ handled = [n \in Node |-> {}]

Sending(m) ==
    /\ m \notin sent /\ \A k \in sent : SameStream(m, k) => k.seq <= m.seq
    /\ sent' = sent \cup {m}
    /\ UNCHANGED handled

Handling(n, m) ==
    /\ m.origin # n
    /\ \A k \in handled[n] : SameStream(m, k) => k.seq < m.seq
    /\ handled' = [handled EXCEPT ![n] = @ \cup {m}]
    /\ UNCHANGED sent

TransportNext ==
    \/ \E m \in Message : Sending(m)
    \/ \E n \in Node, m \in sent : Handling(n, m)

TransportSpec == TransportInit /\ [][TransportNext]_transportVars
=============================================================================
