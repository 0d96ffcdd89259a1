--------------------------- MODULE MCSourceWorker ---------------------------
(***************************************************************************)
(* Instances of SourceWorker for TLC.                                      *)
(***************************************************************************)
EXTENDS SourceWorker, TLC

CONSTANTS p1, la, lb

Post(status, locs, clears, custom) ==
  [status |-> status, locs |-> locs, clears |-> clears, custom |-> custom]

MCProcs1 == {p1}
MCLocations == {la, lb}
MCUsers == 1..2
MCNewcomers == {1}

\* A threat to one place that also calls off another and matches a recipient's
\* phrase, and a later all-clear for the channel and both places.
MCMsgs == 1..2
MCBody == <<Post("active", {lb}, {la}, TRUE),
            Post("clear", {}, {la, lb, Global}, FALSE)>>

\* One threat that only a phrase makes worth sending.
MCThreat == 1..1
MCThreatBody == <<Post("active", {}, {}, TRUE)>>

\* A threat that names a place and matches a phrase, and a later all-clear for
\* that place alone.
MCPhraseBody == <<Post("active", {la}, {}, TRUE), Post("clear", {}, {la}, FALSE)>>
=============================================================================
