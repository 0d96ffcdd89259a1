--------------------------- MODULE CustomMatcher ---------------------------
(***************************************************************************)
(* The Aho-Corasick automaton of worker/custom_matcher.py, which finds the *)
(* phrases of the users in a post in one pass over its characters.         *)
(*                                                                         *)
(* A node of the trie is named by the characters on the way to it, so      *)
(* that the edge from n by c exists when Append(n, c) is a node, and the   *)
(* root is the empty sequence.  A phrase counts where no word character    *)
(* stands before it and at most MaxSuffix word characters follow it, the   *)
(* rule of core_shared/text_processor.py for the built-in places.          *)
(***************************************************************************)
EXTENDS Integers, SequencesExt

CONSTANTS
  Chars,       \* the characters
  WordChars,   \* those that _word_char accepts
  Dictionaries,\* the phrase sets that Redis may hold
  Texts,       \* the normalised posts
  MaxSuffix    \* word characters that may follow a phrase (3 in the code)

ASSUME MatcherAssumption ==
  /\ WordChars \subseteq Chars
  /\ \A d \in Dictionaries : \A p \in d : p \in Seq(Chars) /\ p # << >>
  /\ \A t \in Texts : t \in Seq(Chars)
  /\ MaxSuffix \in Nat

VARIABLES
  pc,       \* "idle", "insert", "link", "ready", "scan", "done"
  phrases,  \* the set _build is given
  todo,     \* phrases still to insert
  nodes,    \* _edges
  fail,     \* _fail
  outputs,  \* _outputs
  queue,    \* nodes whose children are still to be linked
  text, end, node, matches   \* _match

trie == <<phrases, nodes, fail, outputs>>
scan == <<text, end, node, matches>>
matcherVars == <<pc, todo, queue, trie, scan>>

Root == << >>

\* The types; and every node has a fail link and a set of outputs of its own.
MatcherTypeOK ==
  /\ pc \in {"idle", "insert", "link", "ready", "scan", "done"}
  /\ phrases \subseteq UNION Dictionaries /\ todo \subseteq phrases
  /\ Root \in nodes /\ nodes \subseteq Seq(Chars)
  /\ fail \in [nodes -> nodes] /\ outputs \in [nodes -> SUBSET phrases]
  /\ queue \in Seq(nodes \ {Root})
  /\ text \in Seq(Chars) /\ end \in 0..Len(text)
  /\ node \in nodes /\ matches \subseteq phrases

MatcherInit ==
  /\ pc = "idle" /\ phrases = {} /\ todo = {} /\ queue = << >>
  /\ nodes = {Root} /\ fail = [n \in {Root} |-> Root] /\ outputs = [n \in {Root} |-> {}]
  /\ text = << >> /\ end = 0 /\ node = Root /\ matches = {}

-----------------------------------------------------------------------------
(* _build: it replaces the trie, so that every build starts as the first one. *)

Children(n) == {m \in nodes : m # Root /\ Front(m) = n}

Build ==
  /\ pc = "idle"
  /\ \E d \in Dictionaries : phrases' = d /\ todo' = d
  /\ pc' = "insert" /\ UNCHANGED <<nodes, fail, outputs, queue, scan>>

\* The order of the phrases only decides the numbers of the nodes.
InsertPhrase ==
  /\ pc = "insert" /\ todo # {}
  /\ LET p == CHOOSE p \in todo : TRUE IN
     /\ todo' = todo \ {p}
     /\ nodes' = nodes \cup Prefixes(p)
     /\ fail' = [n \in nodes' |-> Root]
     /\ outputs' = [n \in nodes' |->
          (IF n \in nodes THEN outputs[n] ELSE {}) \cup (IF n = p THEN {p} ELSE {})]
  /\ UNCHANGED <<pc, phrases, queue, scan>>

BeginLinks ==
  /\ pc = "insert" /\ todo = {}
  /\ queue' = SetToSeq(Children(Root)) /\ pc' = "link"
  /\ UNCHANGED <<todo, trie, scan>>

\* Mutation: one fail link is followed instead of all.
TargetOneBack(n, c) ==
  LET k == IF Append(n, c) \in nodes THEN n ELSE fail[n]
      over == Append(k, c)
  IN IF over \in nodes THEN over ELSE Root

\* From n by c: along the fail links to a node with an edge, and over that edge.
Target(n, c) ==
  LET back[k \in nodes] == IF k = Root \/ Append(k, c) \in nodes THEN k ELSE back[fail[k]]
      over == Append(back[n], c)
  IN IF over \in nodes THEN over ELSE Root

\* Mutation: outputs are not inherited over the link.
OwnOnly(own, other) == own

\* A child also ends whatever phrases its fail link ends.
Inherited(own, other) == own \cup other

Link ==
  /\ pc = "link" /\ queue # << >>
  /\ LET n == Head(queue) IN
     /\ fail' = [m \in nodes |->
          IF m \in Children(n) THEN Target(fail[n], Last(m)) ELSE fail[m]]
     /\ outputs' = [m \in nodes |->
          IF m \in Children(n) THEN Inherited(outputs[m], outputs[fail'[m]]) ELSE outputs[m]]
     /\ queue' = Tail(queue) \o SetToSeq(Children(n))
  /\ UNCHANGED <<pc, phrases, todo, nodes, scan>>

EndLinks ==
  /\ pc = "link" /\ queue = << >> /\ pc' = "ready"
  /\ UNCHANGED <<todo, queue, trie, scan>>

-----------------------------------------------------------------------------
(* _match: it starts at the root, and keeps nothing for the next post. *)

Match ==
  /\ pc = "ready"
  /\ text' \in Texts /\ pc' = "scan"
  /\ UNCHANGED <<todo, queue, trie, end, node, matches>>

IsWord(i) == i \in DOMAIN text /\ text[i] \in WordChars

\* Mutation: an off-by-one in the length of the suffix.
SuffixEndShort(e) ==
  CHOOSE k \in (e + 1)..(e + MaxSuffix) :
    /\ \A j \in (e + 1)..(k - 1) : IsWord(j)
    /\ ~IsWord(k) \/ k = e + MaxSuffix

\* Of the word characters after position e, at most MaxSuffix are skipped; the
\* phrase counts unless another one follows.
SuffixEnd(e) ==
  CHOOSE k \in (e + 1)..(e + MaxSuffix + 1) :
    /\ \A j \in (e + 1)..(k - 1) : IsWord(j)
    /\ ~IsWord(k) \/ k = e + MaxSuffix + 1

Counts(p, e) == ~IsWord(e - Len(p)) /\ ~IsWord(SuffixEnd(e))

Scan ==
  /\ pc = "scan" /\ end < Len(text)
  /\ end' = end + 1
  /\ node' = Target(node, text[end'])
  /\ matches' = matches \cup {p \in outputs[node'] : Counts(p, end')}
  /\ UNCHANGED <<pc, todo, queue, trie, text>>

EndScan ==
  /\ pc = "scan" /\ end = Len(text) /\ pc' = "done"
  /\ UNCHANGED <<todo, queue, trie, scan>>

MatcherNext ==
  \/ Build \/ InsertPhrase \/ BeginLinks \/ Link \/ EndLinks
  \/ Match \/ Scan \/ EndScan

MatcherSpec == MatcherInit /\ [][MatcherNext]_matcherVars

-----------------------------------------------------------------------------
(* Properties. *)

Longest(S) == CHOOSE s \in S : \A t \in S : Len(t) <= Len(s)

\* The links are what the algorithm needs before it reads a post: every node fails to
\* the longest of its proper suffixes that begins a phrase, and knows every phrase
\* that ends with it, those of other branches included.
LinksAreComplete ==
  pc = "ready" => \A n \in nodes :
    /\ fail[n] = IF n = Root THEN Root ELSE Longest((Suffixes(n) \ {n}) \cap nodes)
    /\ outputs[n] = phrases \cap Suffixes(n)

\* While a post is read the automaton stands at the longest suffix of what it has read
\* that may still become a phrase: no occurrence that has begun is forgotten.
NothingForgotten ==
  pc = "scan" => node = Longest(Suffixes(SubSeq(text, 1, end)) \cap nodes)

\* The pattern of the built-in places: (?<!\w)phrase\w{0,3}(?!\w)
Occurs(p) ==
  \E i \in 1..(Len(text) - Len(p) + 1), k \in 0..MaxSuffix :
    LET after == i + Len(p) IN
    /\ SubSeq(text, i, after - 1) = p
    /\ ~IsWord(i - 1) /\ ~IsWord(after + k)
    /\ \A j \in after..(after + k - 1) : IsWord(j)

\* One pass finds the phrases that the pattern finds when each is searched for alone.
MatchesAreExact == pc = "done" => matches = {p \in phrases : Occurs(p)}
=============================================================================
