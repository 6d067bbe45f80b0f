--------------------------- MODULE MCBlockFactory ---------------------------
(* Model values and small definitions for checking BlockFactory.            *)
EXTENDS BlockFactory, TLC

CONSTANTS n1, n2, n3, a, b, c

\* The peers in key order.
MCNetwork == 0 :> n1 @@ 1 :> n2 @@ 2 :> n3
MCNetworkTwo == 0 :> n1 @@ 1 :> n2

MCEqualStake == [n \in Node |-> 1]
MCUnequalStake == [n \in Node |-> IF n = n1 THEN 2 ELSE 1]
MCHeavyStake == [n \in Node |-> IF n = n1 THEN 3 ELSE 1]

\* stringDiff of two hashes: any number that depends on the chain only.
MCStringDiff(chain) == Len(chain)

\* Clients of two nodes; clients of one node.
MCHomeTwo == [x \in Cmd |-> IF x = b THEN n2 ELSE n1]
MCHomeOne == [x \in Cmd |-> n2]

\* a and c are submitted to the same node: nothing tells them apart.
MCSymmetry == Permutations({a, c})
=============================================================================
