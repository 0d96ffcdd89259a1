--------------------------- MODULE MCTriggerCache ---------------------------
(***************************************************************************)
(* Instances of TriggerCache for TLC.                                      *)
(***************************************************************************)
EXTENDS TriggerCache

CONSTANTS c1, c2, u1, u2, p, q, r1, r2, k1, k2

MCCalls == {c1, c2}
MCUsers == {u1, u2}
MCUsers1 == {u1}
MCPhrases == {p, q}
MCRecs1 == {r1}
MCTasks == {k1, k2}
MCNoTasks == {}
=============================================================================
