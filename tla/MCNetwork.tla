----------------------------- MODULE MCNetwork -----------------------------
(* Scenarios for checking Network.                                          *)
EXTENDS Network

CONSTANTS n1, n2, n3

MCNode == {n1, n2, n3}

Quiet ==
    [fresh |-> {}, genesis |-> {}, url |-> FALSE, sender |-> {n1}, joining |-> {},
     leaving |-> {}, broken |-> {}, silent |-> FALSE, sends |-> 2]

\* Everybody is up, and one link at most is broken.
MCGossip ==
    {[Quiet EXCEPT !.broken = links] :
        links \in {{}} \cup {{l} : l \in {<<p, q>> \in MCNode \X MCNode : p # q}}}

\* n3 starts, with different genesis blocks, and may send at once.
MCStart ==
    {[Quiet EXCEPT !.fresh = {n3}, !.genesis = g, !.url = u, !.sender = {n3}, !.sends = 1] :
        g \in {{}, {n3}, {n1, n2}, MCNode}, u \in BOOLEAN}

\* n3 starts and joins; n3 leaves; n3 falls silent.
MCChange ==
    {[Quiet EXCEPT !.fresh = {n3}, !.genesis = {n1, n2}, !.joining = {n3}, !.sends = 1],
     [Quiet EXCEPT !.leaving = {n3}, !.sends = 1],
     [Quiet EXCEPT !.silent = TRUE, !.sends = 1]}

MCScenario == MCGossip \cup MCStart \cup MCChange
=============================================================================
