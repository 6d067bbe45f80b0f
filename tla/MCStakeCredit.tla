--------------------------- MODULE MCStakeCredit ---------------------------
(* Model values for checking StakeCredit.                                   *)
EXTENDS StakeCredit, TLC

CONSTANTS n1, n2, n3, n4

\* All peers vote for each block.
MCQuorum == {Node}

\* Nodes are interchangeable: no choice depends on the key of a node.
MCSymmetry == Permutations(Busy) \cup Permutations(Node \ Busy)
=============================================================================
