---------------------------- MODULE MCBootstrap ----------------------------
(* Model values for checking Bootstrap.                                     *)
EXTENDS Bootstrap, TLC

CONSTANTS m1, m2, j1, j2

\* Members are interchangeable; of the newcomers one is malformed.
MCSymmetry == Permutations(Member)
=============================================================================
