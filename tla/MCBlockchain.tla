---------------------------- MODULE MCBlockchain ----------------------------
(* Small chains for checking Blockchain.                                    *)
EXTENDS Blockchain

CONSTANTS p1, p2, p3

Cmd(op, origin, peer, amount) == [op |-> op, origin |-> origin, peer |-> peer, amount |-> amount]
Plain(cmds, voters) == [cmds |-> cmds, voters |-> voters, match |-> FALSE]

\* Genesis blocks of two and of three peers.
MCGenesis == Plain(<<Cmd("addPeer", p1, p1, 0), Cmd("addPeer", p1, p2, 0)>>, {})
MCGenesisThree == Plain(Append(MCGenesis.cmds, Cmd("addPeer", p1, p3, 0)), {})

\* A block whose hash calls for a stake vote.
MCMatch == [Plain(<<Cmd("decision", p1, p1, 0)>>, Peer) EXCEPT !.match = TRUE]

\* Joins, leaves, votes that raise a stake or lower it below 0, and data.
MCBody ==
    {MCMatch} \cup {Plain(cmds, Peer) : cmds \in
        {<<Cmd("addPeer", p1, p3, 0)>>,
         <<Cmd("removePeer", p3, p3, 0), Cmd("addPeer", p1, p3, 0)>>,
         <<Cmd("removePeer", p2, p2, 0)>>,
         <<Cmd("modifyStake", p1, p2, 2), Cmd("modifyStake", p3, p2, 2)>>,
         <<Cmd("modifyStake", p2, p1, 2), Cmd("data", p2, p2, 3)>>,
         <<Cmd("data", p2, p2, 1), Cmd("data", p2, p2, 2)>>,
         <<Cmd("modifyStake", p2, p1, -3), Cmd("modifyStake", p3, p1, -3)>>}}

\* Blocks without votes on stakes by their content, one of them with a hash
\* that calls for one.
MCMatching ==
    {[cmds |-> <<Cmd("addPeer", p1, p3, 0)>>, voters |-> Peer, match |-> m] : m \in BOOLEAN}
=============================================================================
