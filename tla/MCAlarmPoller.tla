--------------------------- MODULE MCAlarmPoller ---------------------------
(***************************************************************************)
(* Instances of AlarmPoller for TLC: a tick stands for 18 s, so that a     *)
(* request (8 s) and the sleep (15 s) take at most one, the time to live   *)
(* five, its half (rounded up) three, and the threshold ten.               *)
(***************************************************************************)
EXTENDS AlarmPoller

MCTtl == 5
MCHalf == 3
MCFailsafeAfter == 10
=============================================================================
