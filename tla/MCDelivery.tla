----------------------------- MODULE MCDelivery -----------------------------
(***************************************************************************)
(* Instances of Delivery for TLC.                                          *)
(***************************************************************************)
EXTENDS Delivery, TLC

CONSTANTS w1, w2

MCWorkers1 == {w1}
MCWorkers2 == {w1, w2}
MCIds2 == 1..2
MCIds4 == 1..4
WorkerSymmetry == Permutations(MCWorkers2)
=============================================================================
