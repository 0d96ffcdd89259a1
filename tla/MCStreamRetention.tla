------------------------- MODULE MCStreamRetention -------------------------
(***************************************************************************)
(* An instance of StreamRetention for TLC.                                 *)
(***************************************************************************)
EXTENDS StreamRetention, TLC

CONSTANTS g1, g2, k1, k2

MCGroups == {g1, g2}
MCConsumers == {k1, k2}
MCSwept == {g1}
RetentionSymmetry == Permutations(MCConsumers)
=============================================================================
