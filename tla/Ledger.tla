------------------------------- MODULE Ledger -------------------------------
(***************************************************************************)
(* What the nodes of divachain promise their clients together: one log of  *)
(* blocks that only grows, of which every node shows a beginning.  A block *)
(* has commands that were submitted, at most one list of each node.        *)
(* They do not promise to decide a list only once.                         *)
(***************************************************************************)
EXTENDS Integers, Sequences

CONSTANTS
    Node,    \* the nodes
    Cmd,     \* the command lists clients submit
    Home     \* the node a command list is submitted to

VARIABLES
    submitted,   \* the commands submitted so far
    log,         \* the blocks, as sets of commands
    view         \* the blocks each node has

ledgerVars == <<submitted, log, view>>

LedgerInit ==
    /\ submitted = {}
    /\ log = <<>>
    /\ view = [n \in Node |-> <<>>]

Submitting(c) ==
    /\ c \notin submitted
    /\ submitted' = submitted \cup {c}
    /\ UNCHANGED <<log, view>>

\* The next block is decided, and n shows the log with it.
Deciding(n, block) ==
    /\ block # {} /\ block \subseteq submitted
    /\ \A c, d \in block : Home[c] = Home[d] => c = d
    /\ log' = Append(log, block)
    /\ view' = [view EXCEPT ![n] = log']
    /\ UNCHANGED submitted

\* A node shows another beginning of the log: it goes on, or back.
Showing(n) ==
    /\ \E k \in 0..Len(log) : view' = [view EXCEPT ![n] = SubSeq(log, 1, k)]
    /\ UNCHANGED <<submitted, log>>

LedgerNext ==
    \/ \E c \in Cmd : Submitting(c)
    \/ \E n \in Node, block \in SUBSET Cmd : Deciding(n, block)
    \/ \E n \in Node : Showing(n)

LedgerSpec == LedgerInit /\ [][LedgerNext]_ledgerVars
=============================================================================
