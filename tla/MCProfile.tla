------------------------------ MODULE MCProfile ------------------------------
(***************************************************************************)
(* An instance of Profile for TLC.                                         *)
(***************************************************************************)
EXTENDS Profile, TLC

CONSTANTS h1, h2, c1, c2, l1, l2, f1, f2, f3

MCTasks == {h1, h2}
MCCategories == {c1, c2}
MCLocations == {l1, l2}
MCPhrases == {f1, f2, f3}
ProfileSymmetry ==
  Permutations(MCTasks) \cup Permutations(MCCategories)
    \cup Permutations(MCLocations) \cup Permutations(MCPhrases)
=============================================================================
