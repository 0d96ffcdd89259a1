------------------------------ MODULE Courier ------------------------------
(***************************************************************************)
(* What the scraper promises about posts, without saying how: a post that   *)
(* it accepted stays accepted, is handed to the worker at most once, and    *)
(* nothing is handed over that was not accepted first.                      *)
(***************************************************************************)
CONSTANT Posts

VARIABLES
  accepted,  \* posts the scraper answers for
  handed     \* posts it has put on the stream

vars == <<accepted, handed>>

Init == accepted = {} /\ handed = {}

Accept(p) ==
  /\ p \notin accepted
  /\ accepted' = accepted \cup {p}
  /\ UNCHANGED handed

HandOver(p) ==
  /\ p \in accepted \ handed
  /\ handed' = handed \cup {p}
  /\ UNCHANGED accepted

Next == \E p \in Posts : Accept(p) \/ HandOver(p)

Spec == Init /\ [][Next]_vars
=============================================================================
