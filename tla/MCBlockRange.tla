---------------------------- MODULE MCBlockRange ----------------------------
(* Requests for checking BlockRange: below, within and above the chain.     *)
EXTENDS BlockRange, TLC

MCParameter == -2..(MaxHeight + 2)
=============================================================================
