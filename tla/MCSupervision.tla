--------------------------- MODULE MCSupervision ---------------------------
(***************************************************************************)
(* Instances of Supervision for TLC: three loops.                          *)
(***************************************************************************)
EXTENDS Supervision

MCLoops == <<"consume", "deliver", "poll">>
MCLoops2 == <<"replay", "catchup">>
=============================================================================
