--------------------------- MODULE MCRateLimiter ---------------------------
(***************************************************************************)
(* An instance of RateLimiter for TLC.  One tick stands for 50 ms of the   *)
(* global limit; the other spans keep their order, not their ratio.        *)
(***************************************************************************)
EXTENDS RateLimiter, TLC

CONSTANTS c1, c2, h1, h2

MCCallers == {c1, c2}
MCChats == {h1, h2}
Symmetry == Permutations(MCCallers) \cup Permutations(MCChats)
=============================================================================
