------------------------------- MODULE Chain -------------------------------
(***************************************************************************)
(* What the delivery promises about the stages of one alert, without       *)
(* consumers, leases, queues or retries: stages are offered once, reach    *)
(* the recipient in order, and each is settled once.  A consumer that      *)
(* outlives its lease weakens the promise: then a settled stage may still  *)
(* be accepted, or settled again, but never out of order.                  *)
(***************************************************************************)
EXTENDS Naturals

CONSTANT LastStage

Stages == 1..LastStage

VARIABLES
  offered,   \* stages the chain consists of
  accepted,  \* stages that have reached the recipient
  status,    \* how a stage was settled, or "none"
  lapsed     \* a consumer has outlived its lease

vars == <<offered, accepted, status, lapsed>>

Init ==
  /\ offered = {} /\ accepted = {}
  /\ status = [s \in Stages |-> "none"]
  /\ lapsed = FALSE

Offer(S) ==
  /\ offered = {} /\ 1 \in S
  /\ offered' = S
  /\ UNCHANGED <<accepted, status, lapsed>>

Accept(s) ==
  /\ s \in offered
  /\ s > 1 => s - 1 \in accepted
  /\ ~lapsed => status[s] = "none" /\ (s > 1 => status[s - 1] = "sent")
  /\ accepted' = accepted \cup {s}
  /\ UNCHANGED <<offered, status, lapsed>>

Settle(s, outcome) ==
  /\ s \in offered
  /\ outcome = "sent" => s \in accepted
  /\ ~lapsed => status[s] = "none"
  /\ status' = [status EXCEPT ![s] = outcome]
  /\ UNCHANGED <<offered, accepted, lapsed>>

Lapse ==
  /\ lapsed' = TRUE
  /\ UNCHANGED <<offered, accepted, status>>

Next ==
  \/ \E S \in SUBSET Stages : Offer(S)
  \/ \E s \in Stages : \/ Accept(s)
                       \/ \E o \in {"sent", "skipped", "failed"} : Settle(s, o)
  \/ Lapse

Spec == Init /\ [][Next]_vars
=============================================================================
