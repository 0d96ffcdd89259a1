----------------------------- MODULE MCPrivacy -----------------------------
(***************************************************************************)
(* Instances of Privacy for TLC.                                           *)
(***************************************************************************)
EXTENDS Privacy, TLC

CONSTANTS w1, w2, o1, o2

MCWorkers1 == {w1}
MCIds2 == 1..2
MCOps1 == {o1}
MCOps2 == {o1, o2}
OpSymmetry == Permutations(MCOps2)
=============================================================================
