-------------------------- MODULE MCCustomMatcher --------------------------
(***************************************************************************)
(* Instances of CustomMatcher for TLC: two letters and a separator.        *)
(***************************************************************************)
EXTENDS CustomMatcher, FiniteSetsExt

CONSTANTS a, b, sep

MCChars == {a, b, sep}
MCWordChars == {a, b}

Words(S, lengths) == UNION {[1..n -> S] : n \in lengths}

MCPhrases == Words({a, b}, 1..3) \cup {<<sep, a>>, <<a, sep, b>>}
MCDictionaries == {d \in SUBSET MCPhrases : Cardinality(d) \in 1..3}
MCTexts == Words(MCChars, {5})
=============================================================================
