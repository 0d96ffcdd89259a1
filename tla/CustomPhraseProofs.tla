------------------------- MODULE CustomPhraseProofs -------------------------
(***************************************************************************)
(* The custom phrases, from the set in Redis to the automaton.  First      *)
(* TriggerCache, for every number of users, phrases, handlers,             *)
(* reconciliation loops and source tasks: a dictionary that passes for     *)
(* current is current, reconciliation overwrites no newer update, and the  *)
(* global limit holds.  Then CustomMatcher, for all dictionaries and       *)
(* posts: the automaton finds what the pattern finds.                      *)
(*                                                                         *)
(* The version argument: it never falls and rises with every change of the *)
(* set, so that an old version a task or a loop remembers (Remembered)     *)
(* still equals the present one only if the set is the same.               *)
(* The limit: the phrase that is about to be inserted still fits (Room),   *)
(* since only the holder of the advisory lock inserts and others remove.   *)
(***************************************************************************)
EXTENDS TriggerCache, CustomMatcher, FiniteSetTheorems, SequenceTheorems, TLAPS

\* What was read with the present version is the present set.
Remembered ==
  /\ dict.version <= version
  /\ \A k \in Matchings : task[k].seen <= version
  /\ \A r \in Reconcilers :
       /\ rec[r].version <= version
       /\ rec[r].pc # "idle" /\ rec[r].version = version => rec[r].base = cache

\* Who is about to insert a phrase finds room for it.
Room ==
  \A c \in Calls : At(c, "insert") => Cardinality(Wanted \cup {call[c].phrase}) <= GlobalLimit

IInv == TypeOK /\ Remembered /\ NoFalseFreshness /\ Room /\ GlobalLimitHolds

-----------------------------------------------------------------------------
(* Wanted.                                                                 *)

LEMMA WantedFacts ==
  ASSUME db \subseteq Users \X Phrases
  PROVE  Wanted \subseteq Phrases /\ IsFiniteSet(Wanted) /\ Cardinality(Wanted) \in Nat
<1>1. Wanted \subseteq Phrases
  BY DEF Wanted
<1>2. IsFiniteSet(Wanted)
  BY <1>1, TriggerAssumption, FS_Subset
<1>3. QED
  BY <1>1, <1>2, FS_CardinalityType

\* Fewer rows leave as much room as there was.
LEMMA RoomStays ==
  ASSUME db \subseteq Users \X Phrases, db' \subseteq db, NEW S, IsFiniteSet(S),
         Cardinality(Wanted \cup S) <= GlobalLimit
  PROVE  Cardinality(Wanted' \cup S) <= GlobalLimit
<1>1. Wanted' \cup S \subseteq Wanted \cup S
  BY DEF Wanted
<1>2. IsFiniteSet(Wanted \cup S)
  BY WantedFacts, FS_Union
<1>3. /\ Cardinality(Wanted' \cup S) <= Cardinality(Wanted \cup S)
      /\ IsFiniteSet(Wanted' \cup S)
  BY <1>1, <1>2, FS_Subset
<1>4. Cardinality(Wanted' \cup S) \in Nat /\ Cardinality(Wanted \cup S) \in Nat
  BY <1>2, <1>3, FS_CardinalityType
<1>5. QED
  BY <1>3, <1>4, TriggerAssumption

\* The limit is a matter of the rows alone when nobody comes to insert.
LEMMA LimitStays ==
  ASSUME IInv, db' \subseteq db,
         \A c \in Calls : call'[c].pc = "insert" =>
            call[c].pc = "insert" /\ call'[c].phrase = call[c].phrase
  PROVE  Room' /\ GlobalLimitHolds'
<1>1. db \subseteq Users \X Phrases
  BY DEF IInv, TypeOK
<1>2. GlobalLimitHolds'
  <2>1. Cardinality(Wanted \cup {}) <= GlobalLimit
    BY DEF IInv, GlobalLimitHolds
  <2>2. Cardinality(Wanted' \cup {}) <= GlobalLimit
    BY <1>1, <2>1, RoomStays, FS_EmptySet
  <2>3. QED
    BY <2>2 DEF GlobalLimitHolds
<1>3. Room'
  <2>1. SUFFICES ASSUME NEW c \in Calls, call'[c].pc = "insert"
                 PROVE Cardinality(Wanted' \cup {call'[c].phrase}) <= GlobalLimit
    BY DEF Room, At
  <2>2. Cardinality(Wanted \cup {call[c].phrase}) <= GlobalLimit
    BY <2>1 DEF IInv, Room, At
  <2>3. IsFiniteSet({call[c].phrase})
    BY FS_Singleton
  <2>4. QED
    BY <1>1, <2>1, <2>2, <2>3, RoomStays
<1>4. QED
  BY <1>2, <1>3

-----------------------------------------------------------------------------
(* The version.                                                            *)

\* A script that replaces the set by held makes every older version out of date.
LEMMA ScriptStep ==
  ASSUME IInv, NEW held \in SUBSET Phrases,
         cache' = held, version' = VersionAfter(held), UNCHANGED <<dict, task>>,
         \A r \in Reconcilers : rec'[r] = rec[r] \/ rec'[r] = NoRecon
  PROVE  Remembered' /\ NoFalseFreshness'
<1>1. version \in Nat /\ version' \in Nat /\ version <= version'
      /\ (version' = version => cache' = cache)
  BY DEF IInv, TypeOK, VersionAfter
<1>2. dict.version \in Nat /\ dict.version <= version
  BY DEF IInv, TypeOK, Remembered
<1>3. NoFalseFreshness'
  BY <1>1, <1>2 DEF IInv, NoFalseFreshness
<1>4. ASSUME NEW k \in Matchings PROVE task'[k].seen <= version'
  BY <1>1 DEF IInv, TypeOK, Remembered
<1>5. ASSUME NEW r \in Reconcilers
      PROVE /\ rec'[r].version <= version'
            /\ rec'[r].pc # "idle" /\ rec'[r].version = version' => rec'[r].base = cache'
  <2>1. CASE rec'[r] = rec[r]
    <3>1. rec[r].version \in Nat /\ rec[r].version <= version
          /\ (rec[r].pc # "idle" /\ rec[r].version = version => rec[r].base = cache)
      BY DEF IInv, TypeOK, Remembered
    <3>2. QED
      BY <1>1, <2>1, <3>1
  <2>2. CASE rec'[r] = NoRecon
    BY <1>1, <2>2 DEF NoRecon
  <2>3. QED
    BY <2>1, <2>2
<1>6. QED
  BY <1>1, <1>2, <1>3, <1>4, <1>5 DEF Remembered

\* Steps of the bot that run no script.
LEMMA NoScript ==
  ASSUME IInv, UNCHANGED <<cache, version, rec, dict, task>>
  PROVE  Remembered' /\ NoFalseFreshness'
BY DEF IInv, Remembered, NoFalseFreshness

-----------------------------------------------------------------------------
(* The steps.                                                              *)

LEMMA InitIInv == Init => IInv
<1> SUFFICES ASSUME Init PROVE IInv
  OBVIOUS
<1> USE DEF Init
<1>1. TypeOK
  BY TriggerAssumption DEF TypeOK, Call, NoCall, NoRecon, NoMatch
<1>2. Remembered /\ NoFalseFreshness
  BY DEF Remembered, NoFalseFreshness, NoRecon, NoMatch
<1>3. Wanted = {} /\ Cardinality(Wanted) = 0
  BY FS_EmptySet DEF Wanted
<1>4. Room /\ GlobalLimitHolds
  BY <1>3, TriggerAssumption DEF Room, GlobalLimitHolds, At, NoCall
<1>5. QED
  BY <1>1, <1>2, <1>4 DEF IInv

\* One handler moves on or returns.
Moves(c, stage) ==
  \/ Goto(c, stage) /\ stage \in CallPCs /\ ~At(c, "idle")
  \/ Return(c) /\ stage = "idle"

LEMMA CallMoves ==
  ASSUME TypeOK, NEW c \in Calls, NEW stage, Moves(c, stage)
  PROVE  /\ call' \in [Calls -> Call] /\ call'[c].pc = stage
         /\ stage # "idle" => call'[c].phrase = call[c].phrase
         /\ \A d \in Calls \ {c} : call'[d] = call[d]
<1>1. call \in [Calls -> Call] /\ call[c] \in Call
  BY DEF TypeOK
<1>2. CASE Goto(c, stage) /\ stage \in CallPCs /\ ~At(c, "idle")
  <2>1. call[c] \in [pc : CallPCs, user : Users, phrase : Phrases]
    BY <1>1, <1>2 DEF Call, NoCall, At
  <2>2. /\ [call[c] EXCEPT !.pc = stage] \in Call
        /\ [call[c] EXCEPT !.pc = stage].pc = stage
        /\ [call[c] EXCEPT !.pc = stage].phrase = call[c].phrase
    BY <1>2, <2>1 DEF Call
  <2>3. call' = [call EXCEPT ![c] = [call[c] EXCEPT !.pc = stage]]
    BY <1>2 DEF Goto
  <2>4. QED
    BY <1>1, <2>2, <2>3
<1>3. CASE Return(c) /\ stage = "idle"
  BY <1>1, <1>3 DEF Return, NoCall, Call
<1>4. QED
  BY <1>2, <1>3 DEF Moves

\* The handlers of the bot.
LEMMA ServeStep == ASSUME IInv, NEW c \in Calls, Serve(c) PROVE IInv'
<1> USE DEF At, Worker
<1>0. TypeOK /\ c # None
  BY TriggerAssumption DEF IInv
<1>1. CASE CountOwn(c)
  <2>0. \E stage \in {"idle", "lock"} : Moves(c, stage)
    BY <1>1 DEF CountOwn, Moves, CallPCs
  <2>1. TypeOK'
    BY <1>0, <1>1, <2>0, CallMoves DEF CountOwn, TypeOK
  <2>2. Room' /\ GlobalLimitHolds'
    BY <1>0, <1>1, <2>0, CallMoves, LimitStays DEF CountOwn
  <2>3. QED
    BY <1>1, <2>1, <2>2, NoScript DEF CountOwn, IInv
<1>2. CASE Lock(c)
  <2>0. Moves(c, "admit")
    BY <1>2 DEF Lock, Moves, CallPCs
  <2>1. TypeOK'
    BY <1>0, <1>2, <2>0, CallMoves, TriggerAssumption DEF Lock, MayAdmit, TypeOK
  <2>2. Room' /\ GlobalLimitHolds'
    BY <1>0, <1>2, <2>0, CallMoves, LimitStays DEF Lock
  <2>3. QED
    BY <1>2, <2>1, <2>2, NoScript DEF Lock, IInv
<1>3. CASE Admit(c)
  <2>0. \/ Moves(c, "insert") /\ advisory' = c
        \/ Moves(c, "idle") /\ advisory' = None
    BY <1>0, <1>3 DEF Admit, Moves, CallPCs, TypeOK
  <2>1. TypeOK'
    BY <1>0, <1>3, <2>0, CallMoves, TriggerAssumption DEF Admit, TypeOK
  <2>2. Room' /\ GlobalLimitHolds'
    <3>1. CASE Return(c)
      BY <1>0, <1>3, <3>1, CallMoves, LimitStays DEF Admit, Moves
    <3>2. CASE Goto(c, "insert") /\ (call[c].phrase \in Wanted \/ Cardinality(Wanted) < GlobalLimit)
      <4>1. db \subseteq Users \X Phrases /\ UNCHANGED db
        BY <1>0, <1>3 DEF Admit, TypeOK
      <4>2. GlobalLimitHolds' /\ Wanted' = Wanted
        BY <4>1 DEF IInv, GlobalLimitHolds, Wanted
      <4>3. Cardinality(Wanted \cup {call[c].phrase}) <= GlobalLimit
        <5>1. IsFiniteSet(Wanted) /\ Cardinality(Wanted) \in Nat
              /\ Cardinality(Wanted) <= GlobalLimit
          BY <4>1, WantedFacts DEF IInv, GlobalLimitHolds
        <5>2. Cardinality(Wanted \cup {call[c].phrase})
                = IF call[c].phrase \in Wanted THEN Cardinality(Wanted) ELSE Cardinality(Wanted) + 1
          BY <5>1, FS_AddElement
        <5>3. QED
          BY <3>2, <5>1, <5>2, TriggerAssumption
      <4>4. \A d \in Calls : call'[d].pc = "insert" => d = c /\ call'[d].phrase = call[c].phrase
        <5>1. /\ call'[c].phrase = call[c].phrase
              /\ \A d \in Calls \ {c} : call'[d] = call[d]
          BY <1>0, <1>3, <3>2, CallMoves DEF Admit, Moves, CallPCs
        <5>2. \A d \in Calls \ {c} : call[d].pc # "insert"
          BY <1>0, <1>3 DEF Admit, TypeOK
        <5>3. QED
          BY <5>1, <5>2
      <4>5. QED
        BY <4>2, <4>3, <4>4 DEF Room
    <3>3. QED
      BY <1>3, <3>1, <3>2 DEF Admit
  <2>3. QED
    BY <1>3, <2>1, <2>2, NoScript DEF Admit, IInv
<1>4. CASE Insert(c)
  <2>0. \E stage \in {"idle", "sadd"} : Moves(c, stage)
    BY <1>4 DEF Insert, Moves, CallPCs
  <2>1. call[c].user \in Users /\ call[c].phrase \in Phrases
    BY <1>0, <1>4 DEF Insert, TypeOK, Call, NoCall
  <2>2. TypeOK'
    BY <1>0, <1>4, <2>0, <2>1, CallMoves, TriggerAssumption DEF Insert, TypeOK
  <2>3. GlobalLimitHolds'
    <3>1. Wanted' = Wanted \cup {call[c].phrase}
      BY <1>4 DEF Insert, Wanted
    <3>2. QED
      BY <1>4, <3>1 DEF Insert, IInv, Room, GlobalLimitHolds
  <2>4. Room'
    BY <1>0, <1>4, <2>0, CallMoves DEF Insert, TypeOK, Room
  <2>5. QED
    BY <1>4, <2>2, <2>3, <2>4, NoScript DEF Insert, IInv
<1>5. CASE RemovePhrase(c)
  <2>0. Moves(c, "exists")
    BY <1>5 DEF RemovePhrase, Moves, CallPCs
  <2>1. TypeOK'
    BY <1>0, <1>5, <2>0, CallMoves DEF RemovePhrase, TypeOK
  <2>2. Room' /\ GlobalLimitHolds'
    BY <1>0, <1>5, <2>0, CallMoves, LimitStays DEF RemovePhrase
  <2>3. QED
    BY <1>5, <2>1, <2>2, NoScript DEF RemovePhrase, IInv
<1>6. CASE StillUsed(c)
  <2>0. \E stage \in {"idle", "srem"} : Moves(c, stage)
    BY <1>6 DEF StillUsed, Moves, CallPCs
  <2>1. TypeOK'
    BY <1>0, <1>6, <2>0, CallMoves DEF StillUsed, TypeOK
  <2>2. Room' /\ GlobalLimitHolds'
    BY <1>0, <1>6, <2>0, CallMoves, LimitStays DEF StillUsed
  <2>3. QED
    BY <1>6, <2>1, <2>2, NoScript DEF StillUsed, IInv
<1>7. CASE UpdateCache(c)
  <2>0. Moves(c, "idle")
    BY <1>7 DEF UpdateCache, Moves
  <2>1. cache' \subseteq Phrases
    BY <1>0, <1>7 DEF UpdateCache, TypeOK, Call, NoCall
  <2>2. TypeOK'
    BY <1>0, <1>7, <2>0, <2>1, CallMoves DEF UpdateCache, VersionAfter, TypeOK
  <2>3. Room' /\ GlobalLimitHolds'
    BY <1>0, <1>7, <2>0, CallMoves, LimitStays DEF UpdateCache
  <2>4. Remembered' /\ NoFalseFreshness'
    BY <1>7, <2>1, ScriptStep DEF UpdateCache
  <2>5. QED
    BY <2>2, <2>3, <2>4 DEF IInv
<1>8. QED
  BY <1>1, <1>2, <1>3, <1>4, <1>5, <1>6, <1>7 DEF Serve

\* What else befalls the bot: calls begin, fail, or a user is deleted.
LEMMA BotStep ==
  ASSUME IInv,
         \/ \E c \in Calls, u \in Users, p \in Phrases : Called(c, u, p)
         \/ \E c \in Calls : CallFails(c)
         \/ \E u \in Users : DeleteUser(u)
  PROVE  IInv'
<1> USE DEF At, Worker
<1>0. TypeOK
  BY DEF IInv
<1>1. CASE \E c \in Calls, u \in Users, p \in Phrases : Called(c, u, p)
  <2>1. PICK c \in Calls, u \in Users, p \in Phrases : Called(c, u, p)
    BY <1>1
  <2>2. TypeOK'
    BY <1>0, <2>1, TriggerAssumption DEF Called, TypeOK, CallPCs, Call
  <2>3. Room' /\ GlobalLimitHolds'
    BY <1>0, <2>1, LimitStays DEF Called, TypeOK
  <2>4. QED
    BY <2>1, <2>2, <2>3, NoScript DEF Called, IInv
<1>2. CASE \E c \in Calls : CallFails(c)
  <2>1. PICK c \in Calls : CallFails(c)
    BY <1>2
  <2>0. Moves(c, "idle")
    BY <2>1 DEF CallFails, Moves
  <2>2. TypeOK'
    BY <1>0, <2>0, <2>1, CallMoves, TriggerAssumption DEF CallFails, TypeOK
  <2>3. Room' /\ GlobalLimitHolds'
    BY <1>0, <2>0, <2>1, CallMoves, LimitStays DEF CallFails
  <2>4. QED
    BY <2>1, <2>2, <2>3, NoScript DEF CallFails, IInv
<1>3. CASE \E u \in Users : DeleteUser(u)
  <2>1. PICK u \in Users : DeleteUser(u)
    BY <1>3
  <2>2. TypeOK'
    BY <1>0, <2>1, TriggerAssumption DEF DeleteUser, TypeOK
  <2>3. Room' /\ GlobalLimitHolds'
    BY <1>0, <2>1, LimitStays DEF DeleteUser, TypeOK
  <2>4. QED
    BY <2>1, <2>2, <2>3, NoScript DEF DeleteUser, IInv
<1>4. QED
  BY <1>1, <1>2, <1>3

\* The worker's side: reconciliation and the matcher.
LEMMA WorkerStep ==
  ASSUME IInv,
         \/ \E r \in Reconcilers : Reconcile(r) \/ ReconcileFails(r)
         \/ \E k \in Matchings : ReadVersion(k) \/ Compare(k) \/ Load(k) \/ LoadFails(k)
  PROVE  IInv'
<1> USE DEF Bot
<1>0. TypeOK /\ Remembered /\ NoFalseFreshness
  BY DEF IInv
<1>1. CASE \E r \in Reconcilers : Reconcile(r) \/ ReconcileFails(r)
  <2>1. PICK r \in Reconcilers : Reconcile(r) \/ ReconcileFails(r)
    BY <1>1
  <2>2. UNCHANGED <<db, call>>
    BY <2>1 DEF Reconcile, ReconcileBegins, ReconcileSelects, ReconcileWrites, ReconcileFails
  <2>3. Room' /\ GlobalLimitHolds'
    BY <2>2, LimitStays
  <2>4. Wanted \in SUBSET Phrases
    BY <1>0, WantedFacts DEF TypeOK
  <2>5. CASE ReconcileBegins(r)
    <3>1. TypeOK'
      BY <1>0, <2>5 DEF ReconcileBegins, TypeOK
    <3>2. Remembered' /\ NoFalseFreshness'
      BY <1>0, <2>5 DEF ReconcileBegins, TypeOK, Remembered, NoFalseFreshness
    <3>3. QED
      BY <2>3, <3>1, <3>2 DEF IInv
  <2>6. CASE ReconcileSelects(r)
    <3>1. rec' = [rec EXCEPT ![r] = NoRecon]
          \/ rec' = [rec EXCEPT ![r] = 
               [pc |-> "write", version |-> rec[r].version, phrases |-> Wanted,
                base |-> rec[r].base]]
      BY <2>6 DEF ReconcileSelects
    <3>2. TypeOK'
      BY <1>0, <2>4, <2>6, <3>1 DEF ReconcileSelects, NoRecon, TypeOK
    <3>3. Remembered' /\ NoFalseFreshness'
      BY <1>0, <2>6, <3>1 DEF ReconcileSelects, NoRecon, TypeOK, Remembered, NoFalseFreshness
    <3>4. QED
      BY <2>3, <3>2, <3>3 DEF IInv
  <2>7. CASE ReconcileWrites(r)
    <3>1. \E held \in SUBSET Phrases : cache' = held /\ version' = VersionAfter(held)
      BY <1>0, <2>7 DEF ReconcileWrites, TypeOK, VersionAfter
    <3>2. TypeOK'
      BY <1>0, <2>7, <3>1 DEF ReconcileWrites, VersionAfter, NoRecon, TypeOK
    <3>3. \A q \in Reconcilers : rec'[q] = rec[q] \/ rec'[q] = NoRecon
      BY <1>0, <2>7 DEF ReconcileWrites, TypeOK
    <3>4. Remembered' /\ NoFalseFreshness'
      BY <2>7, <3>1, <3>3, ScriptStep DEF ReconcileWrites
    <3>5. QED
      BY <2>3, <3>2, <3>4 DEF IInv
  <2>8. CASE ReconcileFails(r)
    <3>1. TypeOK'
      BY <1>0, <2>8, TriggerAssumption DEF ReconcileFails, NoRecon, TypeOK
    <3>2. Remembered' /\ NoFalseFreshness'
      BY <1>0, <2>8 DEF ReconcileFails, NoRecon, TypeOK, Remembered, NoFalseFreshness
    <3>3. QED
      BY <2>3, <3>1, <3>2 DEF IInv
  <2>9. QED
    BY <2>1, <2>5, <2>6, <2>7, <2>8 DEF Reconcile
<1>2. CASE \E k \in Matchings : ReadVersion(k) \/ Compare(k) \/ Load(k) \/ LoadFails(k)
  <2>1. PICK k \in Matchings : ReadVersion(k) \/ Compare(k) \/ Load(k) \/ LoadFails(k)
    BY <1>2
  <2>2. UNCHANGED <<db, call, advisory, cache, version, rec, ops>> /\ k # None
    BY <2>1, TriggerAssumption DEF ReadVersion, Compare, Load, LoadFails
  <2>3. Room' /\ GlobalLimitHolds'
    BY <2>2, LimitStays
  <2>4. task[k].seen \in Nat /\ task[k].seen <= version /\ version \in Nat
    BY <1>0 DEF TypeOK, Remembered
  <2>5. CASE ReadVersion(k)
    <3>1. TypeOK'
      BY <1>0, <2>2, <2>4, <2>5 DEF ReadVersion, TypeOK
    <3>2. Remembered' /\ NoFalseFreshness'
      BY <1>0, <2>4, <2>5 DEF ReadVersion, TypeOK, Remembered, NoFalseFreshness
    <3>3. QED
      BY <2>3, <3>1, <3>2 DEF IInv
  <2>6. CASE Compare(k)
    <3>1. TypeOK'
      <4>1. CASE holder' = holder
        BY <1>0, <2>2, <2>6, <4>1, TriggerAssumption DEF Compare, NoMatch, TypeOK
      <4>2. CASE holder' = k
        <5>1. task' = [task EXCEPT ![k] = [pc |-> "load", seen |-> task[k].seen]]
          BY <2>2, <2>6, <4>2 DEF Compare
        <5>2. QED
          BY <1>0, <2>2, <2>4, <2>6, <4>2, <5>1, TriggerAssumption DEF Compare, TypeOK
      <4>3. QED
        BY <2>6, <4>1, <4>2 DEF Compare
    <3>2. Remembered' /\ NoFalseFreshness'
      BY <1>0, <2>4, <2>6 DEF Compare, NoMatch, TypeOK, Remembered, NoFalseFreshness
    <3>3. QED
      BY <2>3, <3>1, <3>2 DEF IInv
  <2>7. CASE Load(k)
    <3>1. TypeOK'
      BY <1>0, <2>2, <2>4, <2>7, TriggerAssumption DEF Load, NoMatch, TypeOK
    <3>2. Remembered' /\ NoFalseFreshness'
      BY <1>0, <2>4, <2>7 DEF Load, NoMatch, TypeOK, Remembered, NoFalseFreshness
    <3>3. QED
      BY <2>3, <3>1, <3>2 DEF IInv
  <2>8. CASE LoadFails(k)
    <3>1. TypeOK'
      BY <1>0, <2>2, <2>8, TriggerAssumption DEF LoadFails, NoMatch, TypeOK
    <3>2. Remembered' /\ NoFalseFreshness'
      BY <1>0, <2>4, <2>8 DEF LoadFails, NoMatch, TypeOK, Remembered, NoFalseFreshness
    <3>3. QED
      BY <2>3, <3>1, <3>2 DEF IInv
  <2>9. QED
    BY <2>1, <2>5, <2>6, <2>7, <2>8
<1>3. QED
  BY <1>1, <1>2

LEMMA StepIInv == IInv /\ [Next]_vars => IInv'
<1> SUFFICES ASSUME IInv, [Next]_vars PROVE IInv'
  OBVIOUS
<1>1. CASE UNCHANGED vars
  BY <1>1 DEF vars, IInv, TypeOK, Remembered, NoFalseFreshness, Room, GlobalLimitHolds,
              Wanted, At
<1>2. QED
  BY <1>1, ServeStep, BotStep, WorkerStep DEF Next

-----------------------------------------------------------------------------
(* The theorems.                                                           *)

\* Type correctness: the rows, the set, the handlers, loops and tasks keep their
\* types, and the advisory lock and the matcher's lock have their one holder.
THEOREM TypeCorrect == Spec => []TypeOK
<1>1. IInv => TypeOK
  BY DEF IInv
<1>2. QED
  BY <1>1, InitIInv, StepIInv, PTL DEF Spec

\* A dictionary stamped with the version in Redis holds the phrases in Redis.
THEOREM Fresh == Spec => []NoFalseFreshness
<1>1. IInv => NoFalseFreshness
  BY DEF IInv
<1>2. QED
  BY <1>1, InitIInv, StepIInv, PTL DEF Spec

\* The number of distinct phrases stays within the global limit.
THEOREM Limited == Spec => []GlobalLimitHolds
<1>1. IInv => GlobalLimitHolds
  BY DEF IInv
<1>2. QED
  BY <1>1, InitIInv, StepIInv, PTL DEF Spec

\* Reconciliation replaces only the set whose version it has read.
THEOREM NoOverwrite == Spec => ReconcileOverwritesNothing
<1>1. ASSUME IInv, [Next]_vars, NEW r \in Reconcilers,
             rec[r].pc = "write", rec'[r].pc = "idle", cache' # cache
      PROVE  cache = rec[r].base
  <2>1. rec' # rec
    BY <1>1
  <2>2. PICK q \in Reconcilers : ReconcileWrites(q)
    BY <1>1, <2>1
    DEF Next, vars, Called, Serve, CountOwn, Lock, Admit, Insert, RemovePhrase, StillUsed, UpdateCache,
        CallFails, DeleteUser, Worker, Reconcile, ReconcileBegins, ReconcileSelects,
        ReconcileFails, ReadVersion, Compare, Load, LoadFails
  <2>3. q = r
    BY <1>1, <2>2 DEF ReconcileWrites, IInv, TypeOK
  <2>4. rec[r].version = version
    BY <1>1, <2>2, <2>3 DEF ReconcileWrites, MayReplace
  <2>5. QED
    BY <1>1, <2>4 DEF IInv, Remembered
<1>2. IInv /\ [Next]_vars
        => [\A r \in Reconcilers :
              rec[r].pc = "write" /\ rec'[r].pc = "idle" /\ cache' # cache
                => cache = rec[r].base]_vars
  BY <1>1
<1>3. QED
  BY <1>2, InitIInv, StepIInv, PTL DEF Spec, ReconcileOverwritesNothing

-----------------------------------------------------------------------------
(***************************************************************************)
(* CustomMatcher.  A string ends another one (Ends), and the automaton     *)
(* looks for longest ends that are nodes (LongestIn).  Where induction is  *)
(* needed, over the length of a node, it is a least counterexample         *)
(* (LeastNat).                                                             *)
(*                                                                         *)
(* Links: breadth first, when the head of the queue is linked to its       *)
(* children, every node that is no longer than the head has its links      *)
(* (HeadIsReady), which is all that Target follows (TargetIsLongest, for   *)
(* any set D of nodes that the links do not leave).  Scan: the node is the *)
(* longest end of what has been read, so that its outputs are all the      *)
(* phrases that end there.                                                 *)
(***************************************************************************)

\* Sequences of characters, and those that end another one.
Strings == Seq(Chars)

Ends(s, t) ==
  /\ Len(s) <= Len(t)
  /\ \A i \in 1..Len(s) : s[i] = t[i + (Len(t) - Len(s))]

\* A nonempty set of numbers has a least element.
LEMMA LeastNat ==
  ASSUME NEW T, T \subseteq Nat, T # {}
  PROVE  \E m \in T : \A k \in T : m <= k
<1> DEFINE R == OpToRel(<, Nat)
<1>1. R = {ss \in Nat \X Nat : ss[1] < ss[2]}
  BY DEF OpToRel
<1>2. IsWellFoundedOn(R, Nat)
  BY NatLessThanWellFounded
<1> HIDE DEF R
<1>3. PICK m \in T : \A k \in T : <<k, m>> \notin R
  BY <1>2, WFMin
<1>4. \A k \in T : ~(k < m)
  BY <1>1, <1>3
<1> QED
  BY <1>4

\* Two ends of a string that are equally long are the same.
LEMMA EndsOfOneLength ==
  ASSUME NEW s \in Strings, NEW t \in Strings, NEW u \in Strings,
         Ends(s, u), Ends(t, u), Len(s) = Len(t)
  PROVE  s = t
<1>1. \A i \in 1..Len(s) : s[i] = t[i]
  BY DEF Ends
<1> QED
  BY <1>1, SeqEqual DEF Strings

\* Of two ends of a string the shorter one ends the longer one.
LEMMA EndsNest ==
  ASSUME NEW s \in Strings, NEW t \in Strings, NEW u \in Strings,
         Ends(s, u), Ends(t, u), Len(s) <= Len(t)
  PROVE  Ends(s, t)
<1>1. Len(s) \in Nat /\ Len(t) \in Nat /\ Len(u) \in Nat
  BY DEF Strings
<1>2. ASSUME NEW i \in 1..Len(s)
      PROVE  s[i] = t[i + (Len(t) - Len(s))]
  <2>1. PICK k : k = i + (Len(t) - Len(s))
    OBVIOUS
  <2>2. k \in 1..Len(t) /\ k + (Len(u) - Len(t)) = i + (Len(u) - Len(s))
    BY <1>1, <2>1
  <2>3. t[k] = u[k + (Len(u) - Len(t))]
    BY <2>2 DEF Ends
  <2>4. s[i] = u[i + (Len(u) - Len(s))]
    BY DEF Ends
  <2> QED
    BY <2>1, <2>2, <2>3, <2>4
<1> QED
  BY <1>2 DEF Ends

\* An end of an end is an end.
LEMMA EndsTransitive ==
  ASSUME NEW s \in Strings, NEW t \in Strings, NEW u \in Strings,
         Ends(s, t), Ends(t, u)
  PROVE  Ends(s, u)
<1>1. Len(s) \in Nat /\ Len(t) \in Nat /\ Len(u) \in Nat
  BY DEF Strings
<1>2. ASSUME NEW i \in 1..Len(s)
      PROVE  s[i] = u[i + (Len(u) - Len(s))]
  <2>1. PICK k : k = i + (Len(t) - Len(s))
    OBVIOUS
  <2>2. k \in 1..Len(t) /\ k + (Len(u) - Len(t)) = i + (Len(u) - Len(s))
    BY <1>1, <2>1 DEF Ends
  <2>3. t[k] = u[k + (Len(u) - Len(t))]
    BY <2>2 DEF Ends
  <2>4. s[i] = t[i + (Len(t) - Len(s))]
    BY DEF Ends
  <2> QED
    BY <2>1, <2>2, <2>3, <2>4
<1>3. Len(s) <= Len(u)
  BY <1>1 DEF Ends
<1> QED
  BY <1>2, <1>3 DEF Ends

\* The whole string and the empty one are ends.
LEMMA EndsSelf ==
  ASSUME NEW s \in Strings
  PROVE  Ends(s, s) /\ Ends(Root, s) /\ Root \in Strings /\ Len(Root) = 0
<1>1. Root \in Strings /\ Len(Root) = 0
  BY DEF Root, Strings
<1>2. Ends(s, s)
  <2>1. Len(s) \in Nat
    BY DEF Strings
  <2>2. \A i \in 1..Len(s) : i + (Len(s) - Len(s)) = i
    BY <2>1
  <2> QED
    BY <2>1, <2>2 DEF Ends
<1>3. Ends(Root, s)
  BY <1>1 DEF Ends, Strings
<1> QED
  BY <1>1, <1>2, <1>3

\* The root is the only string without characters.
LEMMA OnlyRootIsEmpty ==
  ASSUME NEW s \in Strings, Len(s) = 0
  PROVE  s = Root
BY EmptySeq DEF Strings, Root

\* Ends grow by the same character.
LEMMA EndsAppend ==
  ASSUME NEW s \in Strings, NEW t \in Strings, NEW c \in Chars, NEW d \in Chars
  PROVE  Ends(Append(s, c), Append(t, d)) <=> c = d /\ Ends(s, t)
<1> DEFINE sc == Append(s, c)
           td == Append(t, d)
<1>1. /\ Len(s) \in Nat /\ Len(t) \in Nat
      /\ Len(sc) = Len(s) + 1 /\ Len(td) = Len(t) + 1
      /\ sc[Len(s) + 1] = c /\ td[Len(t) + 1] = d
      /\ \A i \in 1..Len(s) : sc[i] = s[i]
      /\ \A i \in 1..Len(t) : td[i] = t[i]
  BY AppendProperties DEF Strings
<1> HIDE DEF sc, td
<1>2. ASSUME Ends(sc, td) PROVE c = d /\ Ends(s, t)
  <2>1. Len(s) <= Len(t)
    BY <1>1, <1>2 DEF Ends
  <2>2. PICK k : k = Len(td) - Len(sc)
    OBVIOUS
  <2>3. k \in Nat /\ k = Len(t) - Len(s)
    BY <1>1, <2>1, <2>2
  <2>4. \A i \in 1..(Len(s) + 1) : sc[i] = td[i + k]
    BY <1>1, <1>2, <2>2 DEF Ends
  <2>5. c = d
    <3>1. sc[Len(s) + 1] = td[(Len(s) + 1) + k]
      BY <1>1, <2>4
    <3>2. (Len(s) + 1) + k = Len(t) + 1
      BY <1>1, <2>3
    <3> QED
      BY <1>1, <3>1, <3>2
  <2>6. ASSUME NEW i \in 1..Len(s) PROVE s[i] = t[i + k]
    <3>1. i + k \in 1..Len(t) /\ i \in 1..(Len(s) + 1)
      BY <1>1, <2>1, <2>3
    <3> QED
      BY <1>1, <2>4, <3>1
  <2> QED
    BY <2>1, <2>3, <2>5, <2>6 DEF Ends
<1>3. ASSUME c = d, Ends(s, t) PROVE Ends(sc, td)
  <2>1. Len(s) <= Len(t)
    BY <1>3 DEF Ends
  <2>2. PICK k : k = Len(t) - Len(s)
    OBVIOUS
  <2>3. k \in Nat /\ k = Len(td) - Len(sc)
    BY <1>1, <2>1, <2>2
  <2>4. \A i \in 1..Len(s) : s[i] = t[i + k]
    BY <1>3, <2>2 DEF Ends
  <2>5. ASSUME NEW i \in 1..(Len(s) + 1) PROVE sc[i] = td[i + k]
    <3>1. CASE i = Len(s) + 1
      <4>1. i + k = Len(t) + 1
        BY <1>1, <2>2, <3>1
      <4> QED
        BY <1>1, <1>3, <3>1, <4>1
    <3>2. CASE i # Len(s) + 1
      <4>1. i \in 1..Len(s) /\ i + k \in 1..Len(t)
        BY <1>1, <2>1, <2>2, <3>2
      <4> QED
        BY <1>1, <2>4, <4>1
    <3> QED
      BY <3>1, <3>2
  <2>6. Len(sc) <= Len(td)
    BY <1>1, <2>1
  <2> QED
    BY <1>1, <2>3, <2>5, <2>6 DEF Ends
<1> QED
  BY <1>2, <1>3 DEF sc, td

\* A string other than the root is its front and its last character.
LEMMA FrontAndLast ==
  ASSUME NEW s \in Strings, s # Root
  PROVE  /\ Len(s) \in Nat \ {0}
         /\ Front(s) \in Strings /\ Last(s) \in Chars /\ Len(Front(s)) = Len(s) - 1
         /\ s = Append(Front(s), Last(s))
<1>1. Len(s) \in Nat /\ Len(s) # 0
  BY OnlyRootIsEmpty DEF Strings
<1>2. \A i \in 1..Len(s) : s[i] \in Chars
  BY DEF Strings
<1>3. Last(s) \in Chars
  BY <1>1, <1>2 DEF Last
<1>4. /\ Front(s) \in Strings /\ Len(Front(s)) = Len(s) - 1
      /\ \A i \in 1..(Len(s) - 1) : Front(s)[i] = s[i]
  <2>1. \A i \in 1..(Len(s) - 1) : s[i] \in Chars
    BY <1>1, <1>2
  <2>2. /\ SubSeq(s, 1, Len(s) - 1) \in Seq(Chars)
        /\ Len(SubSeq(s, 1, Len(s) - 1)) = IF 1 <= Len(s) - 1 THEN Len(s) - 1 - 1 + 1 ELSE 0
        /\ \A i \in 1..(Len(s) - 1 - 1 + 1) : SubSeq(s, 1, Len(s) - 1)[i] = s[1 + i - 1]
    BY <1>1, <2>1, SubSeqProperties
  <2>3. PICK l \in Nat : l = Len(s) - 1
    BY <1>1
  <2>4. \A i \in 1..l : Front(s)[i] = s[i]
    <3>1. l - 1 + 1 = l /\ \A i \in 1..l : 1 + i - 1 = i
      OBVIOUS
    <3> QED
      BY <2>2, <2>3, <3>1 DEF Front
  <2>5. Len(Front(s)) = l
    BY <2>2, <2>3 DEF Front
  <2> QED
    BY <2>2, <2>3, <2>4, <2>5 DEF Front, Strings
<1>5. PICK u : u = Append(Front(s), Last(s))
  OBVIOUS
<1>6. /\ u \in Strings /\ Len(u) = Len(s) /\ u[Len(s)] = Last(s)
      /\ \A i \in 1..(Len(s) - 1) : u[i] = s[i]
  BY <1>1, <1>3, <1>4, <1>5, AppendProperties DEF Strings
<1>7. \A i \in 1..Len(s) : u[i] = s[i]
  BY <1>1, <1>6 DEF Last
<1>8. u = s
  BY <1>6, <1>7, SeqEqual DEF Strings
<1> QED
  BY <1>1, <1>3, <1>4, <1>5, <1>8

\* The suffixes of the community modules are the ends.
LEMMA SuffixesAreEnds ==
  ASSUME NEW t \in Strings
  PROVE  Suffixes(t) = {s \in Strings : Ends(s, t)}
<1>1. Len(t) \in Nat /\ \A i \in 1..Len(t) : t[i] \in Chars
  BY DEF Strings
<1>2. ASSUME NEW l \in 1..Len(t)
      PROVE  /\ SubSeq(t, l, Len(t)) \in Strings
             /\ Len(SubSeq(t, l, Len(t))) = Len(t) - l + 1
             /\ \A i \in 1..(Len(t) - l + 1) : SubSeq(t, l, Len(t))[i] = t[l + i - 1]
  <2>1. \A i \in l..Len(t) : t[i] \in Chars
    BY <1>1
  <2> QED
    BY <1>1, <2>1, SubSeqProperties DEF Strings
<1>3. ASSUME NEW s \in Suffixes(t) PROVE s \in Strings /\ Ends(s, t)
  <2>1. CASE s = Root
    BY <2>1, EndsSelf
  <2>2. CASE s # Root
    <3>1. PICK l \in 1..Len(t) : s = SubSeq(t, l, Len(t))
      BY <2>2 DEF Suffixes, Root
    <3>2. /\ Len(s) = Len(t) - l + 1
          /\ \A i \in 1..Len(s) : s[i] = t[l + i - 1]
      BY <1>2, <3>1
    <3>3. \A i \in 1..Len(s) : l + i - 1 = i + (Len(t) - Len(s))
      BY <1>1, <3>2
    <3>4. Len(s) <= Len(t)
      BY <1>1, <3>2
    <3>5. Ends(s, t)
      BY <3>2, <3>3, <3>4 DEF Ends
    <3> QED
      BY <1>2, <3>1, <3>5
  <2> QED
    BY <2>1, <2>2
<1>4. ASSUME NEW s \in Strings, Ends(s, t) PROVE s \in Suffixes(t)
  <2>1. Len(s) \in Nat /\ Len(s) <= Len(t)
    BY <1>4 DEF Strings, Ends
  <2>2. CASE Len(s) = 0
    BY <2>2, OnlyRootIsEmpty DEF Suffixes, Root
  <2>3. CASE Len(s) # 0
    <3>1. PICK l : l = Len(t) - Len(s) + 1
      OBVIOUS
    <3>2. l \in 1..Len(t) /\ Len(t) - l + 1 = Len(s)
      BY <1>1, <2>1, <2>3, <3>1
    <3>3. PICK u : u = SubSeq(t, l, Len(t))
      OBVIOUS
    <3>4. u \in Strings /\ Len(u) = Len(s) /\ \A i \in 1..Len(s) : u[i] = t[l + i - 1]
      BY <1>2, <3>2, <3>3
    <3>5. \A i \in 1..Len(s) : l + i - 1 = i + (Len(t) - Len(s))
      BY <1>1, <2>1, <3>1
    <3>6. \A i \in 1..Len(s) : u[i] = s[i]
      BY <1>4, <3>4, <3>5 DEF Ends
    <3>7. u = s
      BY <3>4, <3>6, SeqEqual DEF Strings
    <3> QED
      BY <3>2, <3>3, <3>7 DEF Suffixes
  <2> QED
    BY <2>2, <2>3
<1> QED
  BY <1>3, <1>4

\* s is the longest member of S that ends t.
LongestIn(s, t, S) ==
  /\ s \in S /\ Ends(s, t)
  /\ \A u \in S : Ends(u, t) => Len(u) <= Len(s)

\* A set with an end of t has a longest end of t,
LEMMA LongestExists ==
  ASSUME NEW t \in Strings, NEW S \in SUBSET Strings, NEW x \in S, Ends(x, t)
  PROVE  \E s \in S : LongestIn(s, t, S)
<1> DEFINE E == {s \in S : Ends(s, t)}
           T == {Len(t) - Len(s) : s \in E}
<1>1. \A s \in E : Len(s) \in Nat /\ Len(t) \in Nat /\ Len(s) <= Len(t)
  BY DEF Strings, Ends
<1>2. T \subseteq Nat /\ T # {}
  BY <1>1
<1>3. PICK m \in T : \A k \in T : m <= k
  <2> HIDE DEF T
  <2> QED
    BY <1>2, LeastNat
<1>4. PICK s \in E : m = Len(t) - Len(s)
  OBVIOUS
<1>5. ASSUME NEW u \in E PROVE Len(u) <= Len(s)
  <2>1. m <= Len(t) - Len(u)
    BY <1>3
  <2> QED
    BY <1>1, <1>4, <2>1
<1> QED
  BY <1>5 DEF LongestIn

\* only one,
LEMMA LongestIsUnique ==
  ASSUME NEW t \in Strings, NEW S \in SUBSET Strings, NEW r, NEW s,
         LongestIn(r, t, S), LongestIn(s, t, S)
  PROVE  r = s
<1>1. r \in Strings /\ s \in Strings /\ Len(r) \in Nat /\ Len(s) \in Nat
  BY DEF LongestIn, Strings
<1>2. Len(r) = Len(s)
  BY <1>1 DEF LongestIn
<1> QED
  BY <1>1, <1>2, EndsOfOneLength DEF LongestIn

\* and it is the one that Longest chooses.
LEMMA LongestIsLongest ==
  ASSUME NEW t \in Strings, NEW S \in SUBSET Strings, NEW s, LongestIn(s, t, S)
  PROVE  s = Longest(Suffixes(t) \cap S)
<1> DEFINE E == Suffixes(t) \cap S
           Top(u) == \A v \in E : Len(v) <= Len(u)
<1>1. E = {u \in S : Ends(u, t)}
  BY SuffixesAreEnds
<1>2. s \in E /\ Top(s)
  BY <1>1 DEF LongestIn
<1>3. \A r \in E : Top(r) => r = s
  <2> SUFFICES ASSUME NEW r \in E, Top(r) PROVE r = s
    OBVIOUS
  <2>1. LongestIn(r, t, S)
    BY <1>1 DEF LongestIn
  <2> QED
    BY <2>1, LongestIsUnique
<1>4. (CHOOSE u \in E : Top(u)) = s
  <2> HIDE DEF E, Top
  <2> QED
    BY <1>2, <1>3
<1> QED
  BY <1>4 DEF Longest

\* Every beginning of a node is a node.
Branches == \A m \in nodes : \A l \in 0..Len(m) : SubSeq(m, 1, l) \in nodes

\* Node m fails to the longest of its proper suffixes that is a node.
Best(m) == IF m = Root THEN fail[m] = Root ELSE LongestIn(fail[m], m, nodes \ {m})

\* A link leads to a shorter node that ends this one.
LEMMA BestIsShorter ==
  ASSUME nodes \subseteq Strings, NEW m \in nodes, m # Root, Best(m)
  PROVE  /\ fail[m] \in nodes /\ fail[m] \in Strings /\ Ends(fail[m], m)
         /\ Len(fail[m]) \in Nat /\ Len(m) \in Nat /\ Len(fail[m]) < Len(m)
<1>1. /\ fail[m] \in nodes /\ fail[m] # m /\ Ends(fail[m], m)
      /\ fail[m] \in Strings /\ m \in Strings
  BY DEF Best, LongestIn
<1>2. Len(fail[m]) \in Nat /\ Len(m) \in Nat /\ Len(fail[m]) <= Len(m)
  BY <1>1 DEF Strings, Ends
<1>3. Len(fail[m]) # Len(m)
  BY <1>1, EndsSelf, EndsOfOneLength
<1> QED
  BY <1>1, <1>2, <1>3

\* The beginning of a node that is one character shorter is a node.
LEMMA FrontIsNode ==
  ASSUME nodes \subseteq Strings, Branches, NEW m \in nodes, m # Root
  PROVE  Front(m) \in nodes
<1>1. Len(m) \in Nat \ {0}
  BY FrontAndLast
<1>2. Len(m) - 1 \in 0..Len(m)
  BY <1>1
<1> QED
  BY <1>2 DEF Branches, Front

\* Following the links: the recursive function of Target is a function that obeys
\* its equation, when some function obeys it.
LEMMA BackDef ==
  ASSUME NEW n, NEW c, NEW g,
    g = [k \in nodes |-> IF k = Root \/ Append(k, c) \in nodes THEN k ELSE g[fail[k]]]
  PROVE \E b :
     /\ b = [k \in nodes |-> IF k = Root \/ Append(k, c) \in nodes THEN k ELSE b[fail[k]]]
     /\ Target(n, c) = IF Append(b[n], c) \in nodes THEN Append(b[n], c) ELSE Root
<1> DEFINE Def(b) == b = [k \in nodes |-> IF k = Root \/ Append(k, c) \in nodes THEN k ELSE b[fail[k]]]
<1> DEFINE b == CHOOSE b : Def(b)
<1>1. Def(b)
  <2>1. \E x : Def(x)
    OBVIOUS
  <2> HIDE DEF Def
  <2> QED BY <2>1
<1>2. Target(n, c) = IF Append(b[n], c) \in nodes THEN Append(b[n], c) ELSE Root
  BY DEF Target
<1> QED
  BY <1>1, <1>2

\* Where all links on the way are right, Target finds the longest node that ends
\* the string read so far.
LEMMA TargetIsLongest ==
  ASSUME nodes \subseteq Strings, Root \in nodes, fail \in [nodes -> nodes], Branches,
         NEW D \in SUBSET nodes, Root \in D,
         \A k \in D : Best(k), \A k \in nodes : fail[k] \in D,
         NEW n \in D, NEW c \in Chars
  PROVE  LongestIn(Target(n, c), Append(n, c), nodes)
<1> DEFINE Stops == {z \in nodes : z = Root \/ Append(z, c) \in nodes}
           Stop(k) == CHOOSE z : LongestIn(z, k, Stops)
           Equation(b) ==
             b = [k \in nodes |-> IF k = Root \/ Append(k, c) \in nodes THEN k ELSE b[fail[k]]]
<1>1. Stops \in SUBSET Strings /\ Root \in Stops /\ D \subseteq Strings
  OBVIOUS
<1>2. ASSUME NEW k \in D PROVE LongestIn(Stop(k), k, Stops)
  <2>1. \E z \in Stops : LongestIn(z, k, Stops)
    <3> HIDE DEF Stops
    <3> QED
      BY <1>1, EndsSelf, LongestExists
  <2> QED
    BY <2>1
<1>3. ASSUME NEW k \in D, NEW z, LongestIn(z, k, Stops) PROVE z = Stop(k)
  <2> HIDE DEF Stops, Stop
  <2> QED
    BY <1>1, <1>2, <1>3, LongestIsUnique
<1>4. ASSUME NEW k \in Stops \cap D PROVE Stop(k) = k
  <2>1. LongestIn(k, k, Stops)
    <3>1. \A u \in Stops : Ends(u, k) => Len(u) <= Len(k)
      BY DEF Ends
    <3> QED
      BY <1>1, <3>1, EndsSelf DEF LongestIn
  <2> QED
    BY <1>3, <2>1
<1>5. ASSUME NEW k \in D, k \notin Stops
      PROVE  /\ k # Root /\ fail[k] \in D /\ Stop(k) = Stop(fail[k])
             /\ Len(fail[k]) \in Nat /\ Len(k) \in Nat /\ Len(fail[k]) < Len(k)
  <2>1. k # Root /\ fail[k] \in D /\ k \in Strings /\ fail[k] \in Strings /\ Best(k)
    BY <1>5
  <2>2. Ends(fail[k], k) /\ Len(fail[k]) \in Nat /\ Len(k) \in Nat /\ Len(fail[k]) < Len(k)
    BY <2>1, BestIsShorter
  <2>3. ASSUME NEW z \in Stops, Ends(z, k) PROVE Ends(z, fail[k])
    <3>1. z \in nodes \ {k} /\ z \in Strings
      BY <1>5
    <3>2. Len(z) <= Len(fail[k])
      BY <2>1, <2>3, <3>1 DEF Best, LongestIn
    <3> QED
      BY <2>1, <2>2, <2>3, <3>1, <3>2, EndsNest
  <2>4. ASSUME NEW z \in Stops, Ends(z, fail[k]) PROVE Ends(z, k)
    BY <1>1, <2>1, <2>2, <2>4, EndsTransitive
  <2>5. LongestIn(Stop(k), fail[k], Stops)
    <3> HIDE DEF Stops, Stop
    <3>1. LongestIn(Stop(k), k, Stops)
      BY <1>2
    <3> QED
      BY <2>3, <2>4, <3>1 DEF LongestIn
  <2>6. Stop(k) = Stop(fail[k])
    BY <1>3, <2>1, <2>5
  <2> QED
    BY <2>1, <2>2, <2>6
<1>6. \E g : Equation(g)
  <2> DEFINE h == [k \in nodes |-> IF k \in D THEN Stop(k)
                                   ELSE IF k \in Stops THEN k ELSE Stop(fail[k])]
             Go(k) == IF k = Root \/ Append(k, c) \in nodes THEN k ELSE h[fail[k]]
  <2>1. ASSUME NEW k \in nodes PROVE h[k] = Go(k)
    <3>1. k \in Stops <=> k = Root \/ Append(k, c) \in nodes
      OBVIOUS
    <3>2. fail[k] \in D /\ fail[k] \in nodes
      OBVIOUS
    <3> HIDE DEF Stops, Stop
    <3>3. h[fail[k]] = Stop(fail[k])
      BY <3>2
    <3>4. CASE k \in D /\ k \in Stops
      BY <1>4, <3>1, <3>4
    <3>5. CASE k \in D /\ k \notin Stops
      BY <1>5, <3>1, <3>3, <3>5
    <3>6. CASE k \notin D
      BY <3>1, <3>3, <3>6
    <3> QED
      BY <3>4, <3>5, <3>6
  <2>2. h = [k \in nodes |-> h[k]]
    OBVIOUS
  <2>3. h = [k \in nodes |-> Go(k)]
    <3> HIDE DEF h, Go
    <3> QED
      BY <2>1, <2>2
  <2>4. Equation(h)
    <3> HIDE DEF h
    <3> QED
      BY <2>3
  <2> QED
    <3> HIDE DEF h, Equation
    <3> QED
      BY <2>4
<1>7. PICK b : /\ Equation(b)
               /\ Target(n, c) = IF Append(b[n], c) \in nodes THEN Append(b[n], c) ELSE Root
  <2>1. PICK g : Equation(g)
    BY <1>6
  <2> QED
    BY <2>1, BackDef
<1>8. ASSUME NEW k \in nodes
      PROVE  b[k] = IF k \in Stops THEN k ELSE b[fail[k]]
  BY <1>7
<1>9. \A k \in D : b[k] = Stop(k)
  <2> DEFINE Wrong == {k \in D : b[k] # Stop(k)}
             T == {Len(k) : k \in Wrong}
  <2>1. SUFFICES ASSUME Wrong # {} PROVE FALSE
    OBVIOUS
  <2>2. T \subseteq Nat /\ T # {}
    <3>1. \A k \in Wrong : Len(k) \in Nat
      BY <1>1 DEF Strings
    <3> HIDE DEF Wrong
    <3> QED
      BY <2>1, <3>1
  <2>3. PICK m \in T : \A l \in T : m <= l
    <3> HIDE DEF T
    <3> QED
      BY <2>2, LeastNat
  <2>4. PICK k \in Wrong : m = Len(k)
    BY <2>3
  <2>5. k \notin Stops
    <3> HIDE DEF Stops, Stop
    <3> QED
      BY <1>4, <1>8, <2>4
  <2>6. fail[k] \in D /\ Stop(k) = Stop(fail[k]) /\ ~(Len(k) <= Len(fail[k]))
    <3>1. k \in D
      BY <2>4
    <3> HIDE DEF Stops, Stop, Wrong, T, Equation
    <3>2. Len(fail[k]) \in Nat /\ Len(k) \in Nat /\ Len(fail[k]) < Len(k)
      BY <1>5, <2>5, <3>1
    <3>3. ~(Len(k) <= Len(fail[k]))
      BY <3>2
    <3>4. fail[k] \in D /\ Stop(k) = Stop(fail[k])
      BY <1>5, <2>5, <3>1
    <3> QED
      BY <3>3, <3>4
  <2>7. b[k] = b[fail[k]]
    <3> HIDE DEF Stops, Stop
    <3> QED
      BY <1>8, <2>4, <2>5
  <2>8. fail[k] \in Wrong
    <3> HIDE DEF Stops, Stop
    <3> QED
      BY <2>4, <2>6, <2>7
  <2>9. Len(k) <= Len(fail[k])
    <3> HIDE DEF Wrong
    <3> QED
      BY <2>3, <2>4, <2>8
  <2> QED
    BY <2>6, <2>9
<1>10. PICK z : z = b[n] /\ z \in Stops /\ LongestIn(z, n, Stops)
  <2>1. LongestIn(b[n], n, Stops)
    <3> HIDE DEF Stops, Stop
    <3> QED
      BY <1>2, <1>9
  <2> QED
    BY <2>1 DEF LongestIn
<1>11. /\ z \in Strings /\ n \in Strings /\ Append(n, c) \in Strings /\ Ends(z, n)
       /\ Root \in Strings /\ Len(Root) = 0 /\ Len(z) \in Nat
  <2>1. Append(n, c) \in Strings
    BY AppendProperties DEF Strings
  <2>2. Len(z) \in Nat
    BY <1>1, <1>10 DEF Strings
  <2> QED
    BY <1>1, <1>10, <2>1, <2>2, EndsSelf DEF LongestIn
<1>12. ASSUME NEW u \in nodes, Ends(u, Append(n, c)), u # Root
       PROVE  /\ Append(Front(u), c) = u /\ Front(u) \in Stops
              /\ Len(u) = Len(Front(u)) + 1 /\ Len(u) \in Nat /\ Len(Front(u)) \in Nat
              /\ Len(Front(u)) <= Len(z)
  <2>1. /\ u = Append(Front(u), Last(u)) /\ Front(u) \in Strings /\ Last(u) \in Chars
        /\ Len(u) = Len(Front(u)) + 1 /\ Len(u) \in Nat /\ Len(Front(u)) \in Nat
    <3>1. /\ Len(u) \in Nat \ {0}
          /\ Front(u) \in Strings /\ Last(u) \in Chars /\ Len(Front(u)) = Len(u) - 1
          /\ u = Append(Front(u), Last(u))
      BY <1>12, FrontAndLast
    <3> QED
      BY <3>1
  <2>2. Last(u) = c /\ Ends(Front(u), n)
    <3>1. Ends(Append(Front(u), Last(u)), Append(n, c))
      BY <1>12, <2>1
    <3> QED
      BY <1>11, <2>1, <3>1, EndsAppend
  <2>3. Front(u) \in Stops
    BY <1>12, <2>1, <2>2, FrontIsNode
  <2> QED
    BY <1>10, <2>1, <2>2, <2>3 DEF LongestIn
<1>13. CASE Append(z, c) \in nodes
  <2>1. Target(n, c) = Append(z, c)
    BY <1>7, <1>10, <1>13
  <2>2. Ends(Append(z, c), Append(n, c))
    BY <1>11, EndsAppend
  <2>3. Len(Append(z, c)) = Len(z) + 1
    BY <1>11, AppendProperties DEF Strings
  <2>4. ASSUME NEW u \in nodes, Ends(u, Append(n, c)) PROVE Len(u) <= Len(Append(z, c))
    <3>1. CASE u = Root
      BY <1>11, <2>3, <3>1
    <3>2. CASE u # Root
      BY <1>11, <1>12, <2>3, <2>4, <3>2
    <3> QED
      BY <3>1, <3>2
  <2> QED
    BY <1>13, <2>1, <2>2, <2>4 DEF LongestIn
<1>14. CASE Append(z, c) \notin nodes
  <2>1. Target(n, c) = Root /\ z = Root
    BY <1>7, <1>10, <1>14
  <2>2. Ends(Root, Append(n, c))
    BY <1>11, EndsSelf
  <2>3. ASSUME NEW u \in nodes, Ends(u, Append(n, c)) PROVE u = Root
    <3>1. SUFFICES ASSUME u # Root PROVE FALSE
      OBVIOUS
    <3>2. /\ Append(Front(u), c) = u /\ Front(u) \in Stops
          /\ Len(Front(u)) \in Nat /\ Len(Front(u)) <= Len(z)
      BY <1>12, <2>3, <3>1
    <3>3. Len(Front(u)) = 0
      BY <1>11, <2>1, <3>2
    <3>4. Front(u) = Root
      BY <1>1, <3>2, <3>3, OnlyRootIsEmpty
    <3> QED
      BY <1>14, <2>1, <3>2, <3>4
  <2> QED
    BY <1>11, <2>1, <2>2, <2>3 DEF LongestIn
<1> QED
  BY <1>13, <1>14

\* The first l characters of a string.
LEMMA Beginning ==
  ASSUME NEW s \in Strings, NEW l \in 0..Len(s)
  PROVE  /\ SubSeq(s, 1, l) \in Strings /\ Len(SubSeq(s, 1, l)) = l
         /\ \A i \in 1..l : SubSeq(s, 1, l)[i] = s[i]
<1>1. Len(s) \in Nat /\ \A i \in 1..Len(s) : s[i] \in Chars
  BY DEF Strings
<1>2. l \in Nat /\ \A i \in 1..l : s[i] \in Chars
  BY <1>1
<1>3. /\ SubSeq(s, 1, l) \in Seq(Chars)
      /\ Len(SubSeq(s, 1, l)) = IF 1 <= l THEN l - 1 + 1 ELSE 0
      /\ \A i \in 1..(l - 1 + 1) : SubSeq(s, 1, l)[i] = s[1 + i - 1]
  BY <1>2, SubSeqProperties
<1>4. l - 1 + 1 = l /\ \A i \in 1..l : 1 + i - 1 = i
  BY <1>2
<1>5. Len(SubSeq(s, 1, l)) = l
  BY <1>2, <1>3
<1>6. \A i \in 1..l : SubSeq(s, 1, l)[i] = s[i]
  BY <1>3, <1>4
<1> QED
  BY <1>3, <1>5, <1>6 DEF Strings

\* A beginning of a beginning is a beginning.
LEMMA BeginningOfBeginning ==
  ASSUME NEW s \in Strings, NEW l \in 0..Len(s), NEW k \in 0..l
  PROVE  SubSeq(SubSeq(s, 1, l), 1, k) = SubSeq(s, 1, k)
<1>1. Len(s) \in Nat /\ k \in 0..Len(s)
  BY DEF Strings
<1>2. PICK t \in Strings : /\ t = SubSeq(s, 1, l) /\ Len(t) = l
                           /\ \A i \in 1..l : t[i] = s[i]
  BY Beginning
<1>3. PICK u \in Strings : /\ u = SubSeq(t, 1, k) /\ Len(u) = k
                           /\ \A i \in 1..k : u[i] = t[i]
  BY <1>2, Beginning
<1>4. PICK v \in Strings : /\ v = SubSeq(s, 1, k) /\ Len(v) = k
                           /\ \A i \in 1..k : v[i] = s[i]
  BY <1>1, Beginning
<1>5. \A i \in 1..k : u[i] = v[i]
  BY <1>1, <1>2, <1>3, <1>4
<1>6. u = v
  BY <1>3, <1>4, <1>5, SeqEqual DEF Strings
<1> QED
  BY <1>2, <1>3, <1>4, <1>6

\* What InsertPhrase adds: finitely many nodes, with all that is above them.
LEMMA PrefixesOf ==
  ASSUME NEW p \in Strings
  PROVE  /\ Prefixes(p) \subseteq Strings /\ IsFiniteSet(Prefixes(p))
         /\ p \in Prefixes(p)
         /\ \A m \in Prefixes(p) : \A l \in 0..Len(m) : SubSeq(m, 1, l) \in Prefixes(p)
<1>1. Len(p) \in Nat
  BY DEF Strings
<1>2. Prefixes(p) \subseteq Strings
  BY Beginning DEF Prefixes
<1>3. IsFiniteSet(Prefixes(p))
  <2> DEFINE f == [l \in 0..Len(p) |-> SubSeq(p, 1, l)]
  <2>1. f \in Surjection(0..Len(p), Prefixes(p))
    BY DEF Prefixes, Surjection
  <2>2. IsFiniteSet(0..Len(p))
    BY <1>1, FS_Interval
  <2> HIDE DEF f
  <2> QED
    BY <2>1, <2>2, FS_Surjection
<1>4. p \in Prefixes(p)
  <2>1. PICK l \in 0..Len(p) : l = Len(p)
    BY <1>1
  <2>2. SubSeq(p, 1, l) = p
    BY <2>1, SubSeqFull DEF Strings
  <2>3. SubSeq(p, 1, l) \in Prefixes(p)
    BY DEF Prefixes
  <2> QED
    BY <2>2, <2>3
<1>5. ASSUME NEW m \in Prefixes(p), NEW l \in 0..Len(m)
      PROVE  SubSeq(m, 1, l) \in Prefixes(p)
  <2>1. PICK k \in 0..Len(p) : m = SubSeq(p, 1, k)
    BY DEF Prefixes
  <2>2. Len(m) = k
    BY <2>1, Beginning
  <2>3. l \in 0..k /\ l \in 0..Len(p)
    BY <1>1, <2>2
  <2>4. SubSeq(m, 1, l) = SubSeq(p, 1, l)
    BY <2>1, <2>3, BeginningOfBeginning
  <2> QED
    BY <2>3, <2>4 DEF Prefixes
<1> QED
  BY <1>2, <1>3, <1>4, <1>5

\* SetToSeq lists every element of a finite set.
LEMMA SetToSeqLists ==
  ASSUME NEW S, IsFiniteSet(S)
  PROVE  /\ SetToSeq(S) \in Seq(S)
         /\ \A x \in S : \E i \in 1..Len(SetToSeq(S)) : SetToSeq(S)[i] = x
<1> DEFINE n == Cardinality(S)
           Lists(f) == f \in [1..n -> S] /\ IsInjective(f)
<1>1. n \in Nat /\ ExistsBijection(1..n, S)
  BY FS_CardinalityType
<1>2. \E f : Lists(f)
  BY <1>1 DEF ExistsBijection, Bijection, Injection
<1>3. PICK f : f = SetToSeq(S) /\ Lists(f)
  <2>1. SetToSeq(S) = CHOOSE f : Lists(f)
    BY DEF SetToSeq
  <2> HIDE DEF Lists
  <2> QED
    BY <1>2, <2>1
<1>4. f \in Surjection(1..n, S)
  <2>1. f \in Injection(1..n, S)
    BY <1>3 DEF Injection
  <2>2. IsFiniteSet(1..n) /\ Cardinality(1..n) = n
    BY <1>1, FS_Interval
  <2> QED
    BY <2>1, <2>2, FS_Injection
<1>5. f \in Seq(S) /\ Len(f) = n
  BY <1>1, <1>3
<1> QED
  BY <1>3, <1>4, <1>5 DEF Surjection

-----------------------------------------------------------------------------
\* Node m has its links: where it fails to, and the phrases that end with it.
Linked(m) == Best(m) /\ outputs[m] = {p \in phrases : Ends(p, m)}

\* Node m is as InsertPhrase left it.
Unlinked(m) == fail[m] = Root /\ outputs[m] = {m} \cap (phrases \ todo)

\* q is a proper beginning of m.
Begins(q, m) == Len(q) < Len(m) /\ SubSeq(m, 1, Len(q)) = q

\* The trie of the phrases inserted so far, without links until all are.
Trie ==
  /\ Branches /\ IsFiniteSet(nodes)
  /\ phrases \ todo \subseteq nodes
  /\ pc = "idle" => phrases = {}
  /\ pc \notin {"idle", "insert"} => todo = {}
  /\ pc \in {"idle", "insert"} => \A m \in nodes : Unlinked(m)

\* Breadth first: the queue holds one level and the next, in order; a node without
\* links is below a node of the queue, and what is two levels below its head is fresh.
Levels ==
  /\ \A i \in 1..Len(queue) : \A j \in i..Len(queue) : Len(queue[i]) <= Len(queue[j])
  /\ \A i \in 1..Len(queue) : Len(queue[i]) <= Len(queue[1]) + 1
  /\ \A m \in nodes : Unlinked(m) \/ Linked(m)
  /\ \A m \in nodes : Linked(m) \/ \E i \in 1..Len(queue) : Begins(queue[i], m)
  /\ \A m \in nodes : queue # << >> /\ Len(m) > Len(queue[1]) + 1 => Unlinked(m)

\* What has been read: the automaton's node, and the phrases that ended at some e.
Read ==
  /\ LongestIn(node, SubSeq(text, 1, end), nodes)
  /\ matches = {p \in phrases :
       \E e \in 1..end : Ends(p, SubSeq(text, 1, e)) /\ Counts(p, e)}

MatcherInv ==
  /\ MatcherTypeOK /\ Trie
  /\ pc = "link" => Levels
  /\ pc \in {"ready", "scan", "done"} => \A m \in nodes : Linked(m)
  /\ pc \notin {"scan", "done"} => end = 0 /\ node = Root /\ matches = {}
  /\ pc \in {"scan", "done"} => Read
  /\ pc = "done" => end = Len(text)

\* What MatcherTypeOK says, in terms of Strings.
LEMMA Typed ==
  ASSUME MatcherInv
  PROVE  /\ nodes \subseteq Strings /\ Root \in nodes /\ fail \in [nodes -> nodes]
         /\ outputs \in [nodes -> SUBSET phrases]
         /\ phrases \subseteq Strings \ {Root} /\ text \in Strings
BY MatcherAssumption DEF MatcherInv, MatcherTypeOK, Strings, Root

LEMMA InitMatcher == MatcherInit => MatcherInv
<1> SUFFICES ASSUME MatcherInit PROVE MatcherInv
  OBVIOUS
<1>1. MatcherTypeOK
  BY DEF MatcherInit, MatcherTypeOK, Root
<1>2. Branches
  <2>1. Len(Root) = 0 /\ Root \in Strings
    BY DEF Root, Strings
  <2>2. \A l \in 0..0 : SubSeq(Root, 1, l) = Root
    BY <2>1, Beginning, OnlyRootIsEmpty
  <2> QED
    BY <2>1, <2>2 DEF MatcherInit, Branches
<1>3. Trie
  BY <1>2, FS_Singleton DEF MatcherInit, Trie, Unlinked
<1> QED
  BY <1>1, <1>3 DEF MatcherInit, MatcherInv

LEMMA BuildStep == MatcherInv /\ Build => MatcherInv'
<1> SUFFICES ASSUME MatcherInv, Build PROVE MatcherInv'
  OBVIOUS
<1>1. phrases = {} /\ \A m \in nodes : outputs[m] = {} /\ fail[m] = Root
  BY DEF MatcherInv, Trie, Unlinked, Build
<1>2. MatcherTypeOK'
  BY <1>1 DEF MatcherInv, MatcherTypeOK, Build, scan
<1>3. Trie'
  BY <1>1 DEF MatcherInv, Trie, Unlinked, Build, scan, Branches
<1> QED
  BY <1>2, <1>3 DEF MatcherInv, Build, scan

LEMMA InsertStep == MatcherInv /\ InsertPhrase => MatcherInv'
<1> SUFFICES ASSUME MatcherInv, InsertPhrase PROVE MatcherInv'
  OBVIOUS
<1>1. PICK p \in todo :
        /\ todo' = todo \ {p} /\ nodes' = nodes \cup Prefixes(p)
        /\ fail' = [n \in nodes' |-> Root]
        /\ outputs' = [n \in nodes' |->
             (IF n \in nodes THEN outputs[n] ELSE {}) \cup (IF n = p THEN {p} ELSE {})]
  BY DEF InsertPhrase
<1>2. /\ pc = "insert" /\ pc' = pc /\ phrases' = phrases /\ queue' = queue
      /\ text' = text /\ end' = end /\ node' = node /\ matches' = matches
  BY DEF InsertPhrase, scan
<1>3. /\ todo \subseteq phrases /\ phrases \subseteq Strings /\ nodes \subseteq Strings
      /\ Root \in nodes
  BY Typed DEF MatcherInv, MatcherTypeOK
<1>4. p \in Strings /\ p \in phrases
  BY <1>3
<1>5. /\ Prefixes(p) \subseteq Strings /\ IsFiniteSet(Prefixes(p)) /\ p \in Prefixes(p)
      /\ \A m \in Prefixes(p) : \A l \in 0..Len(m) : SubSeq(m, 1, l) \in Prefixes(p)
  BY <1>4, PrefixesOf
<1>6. MatcherTypeOK'
  <2>1. queue' \in Seq(nodes' \ {Root})
    <3>1. queue \in Seq(nodes \ {Root})
      BY DEF MatcherInv, MatcherTypeOK
    <3>2. nodes \ {Root} \subseteq nodes' \ {Root}
      BY <1>1
    <3> QED
      BY <1>2, <3>1, <3>2, SeqMonotonic
  <2>2. outputs' \in [nodes' -> SUBSET phrases]
    BY <1>1, <1>4, Typed
  <2>3. fail' \in [nodes' -> nodes']
    BY <1>1, <1>3
  <2> QED
    BY <1>1, <1>2, <1>3, <1>5, <2>1, <2>2, <2>3 DEF MatcherInv, MatcherTypeOK, Strings
<1>7. Branches'
  BY <1>1, <1>5 DEF MatcherInv, Trie, Branches
<1>8. IsFiniteSet(nodes')
  BY <1>1, <1>5, FS_Union DEF MatcherInv, Trie
<1>9. phrases' \ todo' \subseteq nodes'
  BY <1>1, <1>2, <1>5 DEF MatcherInv, Trie
<1>10. ASSUME NEW m \in nodes' PROVE Unlinked(m)'
  <2>1. fail'[m] = Root
    BY <1>1
  <2>2. m \in nodes => outputs[m] = {m} \cap (phrases \ todo)
    BY <1>2 DEF MatcherInv, Trie, Unlinked
  <2>3. m \notin nodes => m \notin phrases \ todo
    BY DEF MatcherInv, Trie
  <2>4. outputs'[m] = {m} \cap (phrases \ (todo \ {p}))
    BY <1>1, <1>4, <2>2, <2>3
  <2> QED
    BY <1>1, <1>2, <2>1, <2>4 DEF Unlinked
<1>11. Trie'
  BY <1>2, <1>7, <1>8, <1>9, <1>10 DEF MatcherInv, Trie
<1> QED
  BY <1>2, <1>6, <1>11 DEF MatcherInv

\* The children of n are finitely many, and one character longer.
LEMMA ChildrenOf ==
  ASSUME MatcherInv, NEW n \in nodes
  PROVE  /\ IsFiniteSet(Children(n))
         /\ \A m \in Children(n) :
              /\ m \in nodes /\ m # Root /\ Front(m) = n /\ Last(m) \in Chars
              /\ m = Append(n, Last(m)) /\ Len(m) = Len(n) + 1
<1>1. Children(n) \in SUBSET nodes
  BY DEF Children
<1>2. IsFiniteSet(Children(n))
  BY <1>1, FS_Subset DEF MatcherInv, Trie
<1>3. ASSUME NEW m \in Children(n)
      PROVE  /\ m \in nodes /\ m # Root /\ Front(m) = n /\ Last(m) \in Chars
             /\ m = Append(n, Last(m)) /\ Len(m) = Len(n) + 1
  <2>1. m \in nodes /\ m # Root /\ Front(m) = n /\ m \in Strings
    BY Typed DEF Children
  <2>2. /\ Len(m) \in Nat \ {0} /\ Last(m) \in Chars /\ Len(Front(m)) = Len(m) - 1
        /\ m = Append(Front(m), Last(m))
    BY <2>1, FrontAndLast
  <2> QED
    BY <2>1, <2>2
<1> QED
  BY <1>2, <1>3

\* Below n, on the way to m, stands a child of n.
LEMMA ChildOnTheWay ==
  ASSUME MatcherInv, NEW n \in nodes, NEW m \in nodes, Begins(n, m)
  PROVE  \E q \in Children(n) : q = m \/ Begins(q, m)
<1>1. n \in Strings /\ m \in Strings /\ Len(n) \in Nat /\ Len(m) \in Nat
  BY Typed DEF Strings
<1>2. PICK l \in 0..Len(m) : l = Len(n) + 1
  BY <1>1 DEF Begins
<1>3. PICK q \in nodes : q = SubSeq(m, 1, l)
  BY DEF MatcherInv, Trie, Branches
<1>4. q \in Strings /\ Len(q) = l
  BY <1>1, <1>3, Beginning
<1>5. q # Root
  BY <1>1, <1>2, <1>4 DEF Root
<1>6. Front(q) = n
  <2>1. PICK k \in 0..l : k = Len(n)
    BY <1>1, <1>2
  <2>2. SubSeq(q, 1, k) = SubSeq(m, 1, k)
    BY <1>1, <1>3, BeginningOfBeginning
  <2>3. Len(q) - 1 = k
    BY <1>1, <1>2, <1>4, <2>1
  <2> QED
    BY <2>1, <2>2, <2>3 DEF Front, Begins
<1>7. q = m \/ Begins(q, m)
  <2>1. CASE l = Len(m)
    <3>1. SubSeq(m, 1, Len(m)) = m
      BY <1>1, SubSeqFull DEF Strings
    <3> QED
      BY <1>3, <2>1, <3>1
  <2>2. CASE l # Len(m)
    <3>1. Len(q) < Len(m)
      BY <1>1, <1>4, <2>2
    <3> QED
      BY <1>3, <1>4, <3>1 DEF Begins
  <2> QED
    BY <2>1, <2>2
<1> QED
  BY <1>3, <1>5, <1>6, <1>7 DEF Children

\* A node of one character has its links from the start.
LEMMA FirstLevel ==
  ASSUME MatcherInv, todo = {}, NEW m \in nodes, Unlinked(m), m = Root \/ Front(m) = Root
  PROVE  Linked(m)
<1>1. /\ m \in Strings /\ Root \in nodes /\ nodes \subseteq Strings
      /\ phrases \subseteq Strings \ {Root} /\ Len(Root) = 0
      /\ \A s \in Strings : Ends(s, s) /\ Ends(Root, s)
  BY Typed, EndsSelf
<1>2. Len(m) \in Nat /\ (m # Root => Len(m) = 1)
  <2>1. CASE m = Root
    BY <1>1, <2>1
  <2>2. CASE m # Root
    <3>1. Len(m) \in Nat \ {0} /\ Len(Front(m)) = Len(m) - 1
      BY <1>1, <2>2, FrontAndLast
    <3>2. Len(Front(m)) = 0
      BY <1>1, <2>2
    <3> QED
      BY <3>1, <3>2
  <2> QED
    BY <2>1, <2>2
<1>3. ASSUME NEW s \in Strings, Ends(s, m), s # m PROVE s = Root
  <2>1. Len(s) \in Nat /\ Len(s) <= Len(m)
    BY <1>3 DEF Strings, Ends
  <2>2. Len(s) # Len(m)
    <3>1. m \in Strings /\ Ends(m, m)
      BY <1>1
    <3> QED
      BY <1>3, <3>1, EndsOfOneLength
  <2>3. Len(m) = 0 \/ Len(m) = 1
    BY <1>1, <1>2
  <2>4. Len(s) = 0
    <3>1. PICK i \in Nat, j \in Nat : i = Len(s) /\ j = Len(m)
      BY <1>2, <2>1
    <3>2. i <= j /\ i # j /\ (j = 0 \/ j = 1)
      BY <2>1, <2>2, <2>3, <3>1
    <3> QED
      BY <3>1, <3>2
  <2> QED
    BY <2>4, OnlyRootIsEmpty
<1>4. Best(m)
  <2>1. CASE m = Root
    BY <2>1 DEF Best, Unlinked
  <2>2. CASE m # Root
    <3>1. \A u \in nodes \ {m} : Ends(u, m) => Len(u) <= Len(Root)
      BY <1>1, <1>3
    <3> QED
      BY <1>1, <2>2, <3>1 DEF Best, Unlinked, LongestIn
  <2> QED
    BY <2>1, <2>2
<1>5. \A p \in phrases : Ends(p, m) <=> p = m
  BY <1>1, <1>3
<1>6. outputs[m] = {m} \cap phrases
  BY DEF Unlinked
<1>7. outputs[m] = {p \in phrases : Ends(p, m)}
  BY <1>5, <1>6
<1> QED
  BY <1>4, <1>7 DEF Linked

LEMMA BeginLinksStep == MatcherInv /\ BeginLinks => MatcherInv'
<1> SUFFICES ASSUME MatcherInv, BeginLinks PROVE MatcherInv'
  OBVIOUS
<1>1. /\ pc = "insert" /\ pc' = "link" /\ todo = {} /\ todo' = todo
      /\ phrases' = phrases /\ nodes' = nodes /\ fail' = fail /\ outputs' = outputs
      /\ text' = text /\ end' = end /\ node' = node /\ matches' = matches
      /\ queue' = SetToSeq(Children(Root))
  BY DEF BeginLinks, trie, scan
<1>2. Root \in nodes /\ Root \in Strings /\ Len(Root) = 0 /\ nodes \subseteq Strings
  BY Typed, EndsSelf
<1>3. PICK q : q = SetToSeq(Children(Root))
  OBVIOUS
<1>4. q \in Seq(Children(Root)) /\ \A m \in Children(Root) : \E i \in 1..Len(q) : q[i] = m
  <2>1. IsFiniteSet(Children(Root))
    BY <1>2, ChildrenOf
  <2> QED
    BY <1>3, <2>1, SetToSeqLists
<1>5. ASSUME NEW m \in Children(Root) PROVE m \in nodes \ {Root} /\ Len(m) = 1
  <2>1. m \in nodes /\ m # Root /\ Len(m) = Len(Root) + 1
    BY <1>2, ChildrenOf
  <2> QED
    BY <1>2, <2>1
<1>6. \A i \in 1..Len(q) : q[i] \in Children(Root) /\ Len(q[i]) = 1
  BY <1>4, <1>5
<1>7. q \in Seq(nodes \ {Root})
  BY <1>4, <1>5, SeqMonotonic
<1>8. MatcherTypeOK'
  BY <1>1, <1>3, <1>7 DEF MatcherInv, MatcherTypeOK
<1>9. Trie'
  BY <1>1 DEF MatcherInv, Trie, Branches
<1>10. \A m \in nodes : Unlinked(m)
  BY <1>1 DEF MatcherInv, Trie
<1>11. ASSUME NEW m \in nodes PROVE Linked(m) \/ \E i \in 1..Len(q) : Begins(q[i], m)
  <2>1. CASE m = Root
    BY <1>1, <1>10, <2>1, FirstLevel
  <2>2. CASE m # Root
    <3>1. Begins(Root, m)
      <4>1. Len(m) \in Nat \ {0}
        BY <1>2, <2>2, FrontAndLast
      <4>2. SubSeq(m, 1, 0) = Root
        BY SubSeqEmpty DEF Root
      <4> QED
        BY <1>2, <4>1, <4>2 DEF Begins
    <3>2. PICK k \in Children(Root) : k = m \/ Begins(k, m)
      BY <1>2, <3>1, ChildOnTheWay
    <3>3. CASE k = m
      BY <1>1, <1>10, <1>2, <3>2, <3>3, ChildrenOf, FirstLevel
    <3>4. CASE Begins(k, m)
      BY <1>4, <3>4
    <3> QED
      BY <3>2, <3>3, <3>4
  <2> QED
    BY <2>1, <2>2
<1>12. Levels'
  <2>1. \A m \in nodes : (Unlinked(m)' <=> Unlinked(m)) /\ (Linked(m)' <=> Linked(m))
    BY <1>1 DEF Unlinked, Linked, Best
  <2>2. \A i \in 1..Len(q) : \A j \in i..Len(q) : Len(q[i]) <= Len(q[j])
    <3>1. \A i \in 1..Len(q) : \A j \in i..Len(q) : Len(q[i]) = 1 /\ Len(q[j]) = 1
      <4>1. Len(q) \in Nat
        BY <1>4
      <4> QED
        BY <1>6, <4>1
    <3> QED
      BY <3>1
  <2>3. \A i \in 1..Len(q) : Len(q[i]) <= Len(q[1]) + 1
    <3>1. \A i \in 1..Len(q) : 1 \in 1..Len(q)
      BY <1>4
    <3>2. \A i \in 1..Len(q) : Len(q[i]) = 1 /\ Len(q[1]) = 1
      BY <1>6, <3>1
    <3> QED
      BY <3>2
  <2> QED
    BY <1>1, <1>3, <1>10, <1>11, <2>1, <2>2, <2>3 DEF Levels
<1> QED
  BY <1>1, <1>8, <1>9, <1>12 DEF MatcherInv

\* What Link relies on at the head of the queue: every node that is no longer has its
\* links, and so Target is right from each of them.
LEMMA HeadIsReady ==
  ASSUME MatcherInv, pc = "link", queue # << >>, NEW n, n = Head(queue)
  PROVE  /\ n \in nodes \ {Root} /\ n = queue[1] /\ Len(queue) \in Nat \ {0}
         /\ \A k \in nodes : Len(k) <= Len(n) => Linked(k)
         /\ \A k \in nodes : fail[k] \in nodes /\ Len(fail[k]) <= Len(n)
<1>1. /\ queue \in Seq(nodes \ {Root}) /\ todo = {} /\ Levels
      /\ \A k \in nodes : Len(k) \in Nat /\ k \in Strings
  <2>1. \A k \in nodes : Len(k) \in Nat /\ k \in Strings
    BY Typed DEF Strings
  <2> QED
    BY <2>1 DEF MatcherInv, MatcherTypeOK, Trie
<1>2. n \in nodes \ {Root} /\ n = queue[1] /\ Len(queue) \in Nat \ {0}
  <2>1. Len(queue) \in Nat \ {0}
    BY <1>1, EmptySeq
  <2>2. n = queue[1] /\ queue[1] \in nodes \ {Root}
    BY <1>1, <2>1
  <2> QED
    BY <2>1, <2>2
<1>3. ASSUME NEW k \in nodes, Len(k) <= Len(n) PROVE Linked(k)
  <2>1. SUFFICES ASSUME NEW i \in 1..Len(queue), Begins(queue[i], k) PROVE FALSE
    BY <1>1 DEF Levels
  <2>2. 1 \in 1..Len(queue) /\ i \in 1..Len(queue)
    BY <1>2
  <2>3. Len(n) <= Len(queue[i])
    BY <1>1, <1>2, <2>2 DEF Levels
  <2>4. Len(queue[i]) < Len(k) /\ queue[i] \in nodes
    BY <1>1, <2>1 DEF Begins
  <2>5. PICK x \in Nat, y \in Nat, z \in Nat : x = Len(n) /\ y = Len(queue[i]) /\ z = Len(k)
    BY <1>1, <1>2, <2>4
  <2> QED
    BY <1>3, <2>3, <2>4, <2>5
<1>4. ASSUME NEW k \in nodes PROVE fail[k] \in nodes /\ Len(fail[k]) <= Len(n)
  <2>1. fail[k] \in nodes /\ Root \in nodes /\ Len(Root) = 0 /\ Len(n) \in Nat
    <3>1. Root \in nodes /\ fail \in [nodes -> nodes] /\ n \in Strings
      BY <1>1, <1>2, Typed
    <3> QED
      BY <1>1, <1>2, <3>1, EndsSelf
  <2>2. CASE fail[k] = Root
    BY <2>1, <2>2
  <2>3. CASE fail[k] # Root
    <3>1. ~Unlinked(k)
      BY <2>3 DEF Unlinked
    <3>2. Linked(k) /\ ~(Len(k) > Len(queue[1]) + 1)
      BY <1>1, <3>1 DEF Levels
    <3>3. k # Root
      BY <2>3, <3>2 DEF Linked, Best
    <3>4. Len(fail[k]) < Len(k) /\ Len(fail[k]) \in Nat /\ Len(k) \in Nat
      BY <3>2, <3>3, Typed, BestIsShorter DEF Linked
    <3>5. PICK x \in Nat, y \in Nat, z \in Nat : x = Len(n) /\ y = Len(fail[k]) /\ z = Len(k)
      BY <2>1, <3>4
    <3>6. ~(z > x + 1) /\ y < z
      BY <1>2, <3>2, <3>4, <3>5
    <3>7. y <= x
      BY <3>6
    <3> QED
      BY <2>1, <3>5, <3>7
  <2> QED
    BY <2>1, <2>2, <2>3
<1> QED
  BY <1>2, <1>3, <1>4

\* A child m of the head gets the links it needs.
LEMMA ChildIsLinked ==
  ASSUME MatcherInv, pc = "link", queue # << >>, NEW n, n = Head(queue),
         NEW m \in Children(n), NEW f, f = Target(fail[n], Last(m))
  PROVE  /\ LongestIn(f, m, nodes \ {m}) /\ f \notin Children(n)
         /\ Inherited(outputs[m], outputs[f]) = {p \in phrases : Ends(p, m)}
<1>1. /\ n \in nodes \ {Root}
      /\ \A k \in nodes : Len(k) <= Len(n) => Linked(k)
      /\ \A k \in nodes : fail[k] \in nodes /\ Len(fail[k]) <= Len(n)
  BY HeadIsReady
<1>2. /\ nodes \subseteq Strings /\ Root \in nodes /\ fail \in [nodes -> nodes]
      /\ phrases \subseteq Strings \ {Root} /\ Branches /\ todo = {} /\ phrases \subseteq nodes
  <2>1. Branches /\ todo = {} /\ phrases \ todo \subseteq nodes
    BY DEF MatcherInv, Trie
  <2> QED
    BY <2>1, Typed
<1>3. \A k \in nodes : k \in Strings /\ Len(k) \in Nat
  BY <1>2 DEF Strings
<1>4. PICK c \in Chars : c = Last(m)
  BY <1>1, ChildrenOf
<1>5. m \in nodes /\ m # Root /\ Front(m) = n /\ m = Append(n, c) /\ Len(m) = Len(n) + 1
  BY <1>1, <1>4, ChildrenOf
<1>6. PICK z : z = fail[n]
  OBVIOUS
<1>7. LongestIn(z, n, nodes \ {n})
  <2>1. n \in nodes /\ n # Root /\ Len(n) <= Len(n)
    BY <1>1, <1>3
  <2>2. Best(n)
    BY <1>1, <2>1 DEF Linked
  <2> QED
    BY <1>6, <2>1, <2>2 DEF Best
<1>8. z \in nodes /\ z \in Strings /\ Ends(z, n) /\ Len(z) \in Nat /\ Len(z) < Len(n)
  <2>1. Best(n) /\ n \in nodes /\ n # Root
    BY <1>1, <1>3 DEF Linked
  <2> QED
    BY <1>2, <1>6, <2>1, BestIsShorter
<1>9. LongestIn(f, Append(z, c), nodes)
  <2> DEFINE D == {k \in nodes : Len(k) <= Len(n)}
  <2>1. D \in SUBSET nodes /\ Root \in D /\ z \in D
    <3>1. Len(Root) = 0 /\ Len(n) \in Nat
      BY <1>1, <1>2, <1>3, EndsSelf
    <3> QED
      BY <1>2, <1>8, <3>1
  <2>2. (\A k \in D : Best(k)) /\ (\A k \in nodes : fail[k] \in D)
    BY <1>1 DEF Linked
  <2> HIDE DEF D
  <2>3. LongestIn(Target(z, c), Append(z, c), nodes)
    BY <1>2, <2>1, <2>2, TargetIsLongest
  <2> QED
    BY <1>4, <1>6, <2>3
<1>10. Append(z, c) \in Strings /\ Len(Append(z, c)) = Len(z) + 1 /\ Ends(Append(z, c), m)
  <2>1. Append(z, c) \in Strings /\ Len(Append(z, c)) = Len(z) + 1
    BY <1>8, AppendProperties DEF Strings
  <2>2. n \in Strings
    BY <1>1, <1>3
  <2>3. Ends(Append(z, c), Append(n, c))
    BY <1>8, <2>2, EndsAppend
  <2> QED
    BY <1>5, <2>1, <2>3
<1>11. f \in nodes /\ f \in Strings /\ Ends(f, m) /\ Len(f) \in Nat /\ Len(f) <= Len(n)
  <2>1. f \in nodes /\ f \in Strings /\ Ends(f, Append(z, c)) /\ Len(f) \in Nat
    BY <1>3, <1>9 DEF LongestIn
  <2>2. Ends(f, m)
    BY <1>3, <1>5, <1>10, <2>1, EndsTransitive
  <2>3. Len(f) <= Len(z) + 1
    BY <1>10, <2>1 DEF Ends
  <2>4. PICK x \in Nat, y \in Nat : x = Len(n) /\ y = Len(z)
    BY <1>1, <1>3, <1>8
  <2> QED
    BY <1>8, <2>1, <2>2, <2>3, <2>4
<1>12. f # m /\ f \notin Children(n)
  <2>1. \A k \in Children(n) : Len(k) = Len(n) + 1
    BY <1>1, ChildrenOf
  <2>2. Len(n) \in Nat
    BY <1>1, <1>3
  <2> QED
    BY <1>5, <1>11, <2>1, <2>2
<1>13. ASSUME NEW u \in nodes \ {m}, Ends(u, m) PROVE Len(u) <= Len(f)
  <2>1. CASE u = Root
    BY <1>2, <1>11, <2>1, EndsSelf
  <2>2. CASE u # Root
    <3>1. u \in Strings
      BY <1>3
    <3>2. Front(u) \in Strings /\ Last(u) \in Chars /\ u = Append(Front(u), Last(u))
      BY <2>2, <3>1, FrontAndLast
    <3>3. n \in Strings /\ Ends(Append(Front(u), Last(u)), Append(n, c))
      BY <1>1, <1>3, <1>5, <1>13, <3>2
    <3>4. Last(u) = c /\ Ends(Front(u), n)
      BY <3>2, <3>3, EndsAppend
    <3>5. Front(u) \in nodes \ {n}
      BY <1>2, <1>5, <2>2, <3>2, <3>4, FrontIsNode
    <3>6. Ends(Front(u), z)
      <4>1. Len(Front(u)) <= Len(z)
        BY <1>7, <3>4, <3>5 DEF LongestIn
      <4> QED
        BY <1>8, <3>2, <3>3, <3>4, <4>1, EndsNest
    <3>7. Ends(u, Append(z, c))
      <4>1. Ends(Append(Front(u), c), Append(z, c))
        BY <1>8, <3>2, <3>6, EndsAppend
      <4> QED
        BY <3>2, <3>4, <4>1
    <3> QED
      BY <1>9, <3>7 DEF LongestIn
  <2> QED
    BY <2>1, <2>2
<1>14. LongestIn(f, m, nodes \ {m})
  BY <1>11, <1>12, <1>13 DEF LongestIn
<1>15. outputs[f] = {p \in phrases : Ends(p, f)}
  BY <1>1, <1>11 DEF Linked
<1>16. ASSUME NEW p \in phrases PROVE Ends(p, m) <=> p = m \/ Ends(p, f)
  <2>1. p \in nodes /\ p \in Strings /\ m \in Strings
    BY <1>2, <1>3, <1>5
  <2>2. ASSUME Ends(p, m), p # m PROVE Ends(p, f)
    <3>1. Len(p) <= Len(f)
      BY <1>13, <2>1, <2>2
    <3> QED
      BY <1>11, <2>1, <2>2, <3>1, EndsNest
  <2>3. ASSUME Ends(p, f) PROVE Ends(p, m)
    BY <1>11, <2>1, <2>3, EndsTransitive
  <2>4. Ends(m, m)
    BY <2>1, EndsSelf
  <2> QED
    BY <2>2, <2>3, <2>4
<1>17. /\ outputs[m] \subseteq {p \in phrases : Ends(p, m)}
       /\ m \in phrases => m \in outputs[m]
  <2>1. Unlinked(m) \/ Linked(m)
    BY <1>5 DEF MatcherInv, Levels
  <2>2. m \in Strings /\ Ends(m, m)
    BY <1>3, <1>5, EndsSelf
  <2>3. CASE Unlinked(m)
    BY <1>2, <2>2, <2>3 DEF Unlinked
  <2>4. CASE Linked(m)
    BY <2>2, <2>4 DEF Linked
  <2> QED
    BY <2>1, <2>3, <2>4
<1>18. Inherited(outputs[m], outputs[f]) = {p \in phrases : Ends(p, m)}
  BY <1>15, <1>16, <1>17 DEF Inherited
<1> QED
  BY <1>12, <1>14, <1>18

LEMMA LinkStep == MatcherInv /\ Link => MatcherInv'
<1> SUFFICES ASSUME MatcherInv, Link PROVE MatcherInv'
  OBVIOUS
<1>1. PICK n : n = Head(queue)
  OBVIOUS
<1>2. /\ pc = "link" /\ pc' = pc /\ queue # << >> /\ todo' = todo
      /\ phrases' = phrases /\ nodes' = nodes
      /\ text' = text /\ end' = end /\ node' = node /\ matches' = matches
      /\ queue' = Tail(queue) \o SetToSeq(Children(n))
      /\ fail' = [m \in nodes |->
           IF m \in Children(n) THEN Target(fail[n], Last(m)) ELSE fail[m]]
      /\ outputs' = [m \in nodes |->
           IF m \in Children(n) THEN Inherited(outputs[m], outputs[fail'[m]]) ELSE outputs[m]]
  BY <1>1 DEF Link, scan
<1>3. /\ n \in nodes \ {Root} /\ n = queue[1] /\ Len(queue) \in Nat \ {0}
      /\ \A k \in nodes : Len(k) <= Len(n) => Linked(k)
  BY <1>1, <1>2, HeadIsReady
<1>4. /\ nodes \subseteq Strings /\ fail \in [nodes -> nodes]
      /\ outputs \in [nodes -> SUBSET phrases]
      /\ queue \in Seq(nodes \ {Root}) /\ todo = {} /\ Levels
      /\ \A k \in nodes : Len(k) \in Nat
  <2>1. nodes \subseteq Strings /\ fail \in [nodes -> nodes] /\ outputs \in [nodes -> SUBSET phrases]
    BY Typed
  <2>2. \A k \in nodes : Len(k) \in Nat
    BY <2>1 DEF Strings
  <2> QED
    BY <1>2, <2>1, <2>2 DEF MatcherInv, MatcherTypeOK, Trie
<1>5. ASSUME NEW m \in nodes, m \notin Children(n)
      PROVE  fail'[m] = fail[m] /\ outputs'[m] = outputs[m]
  BY <1>2, <1>5
<1>6. ASSUME NEW m \in Children(n)
      PROVE  /\ m \in nodes /\ fail'[m] \in nodes /\ outputs'[m] \in SUBSET phrases
             /\ Linked(m)' /\ Len(m) = Len(n) + 1
  <2>1. m \in nodes /\ m # Root /\ Len(m) = Len(n) + 1
    BY <1>3, ChildrenOf
  <2>2. fail'[m] = Target(fail[n], Last(m))
    BY <1>2, <2>1
  <2>3. outputs'[m] = Inherited(outputs[m], outputs[fail'[m]])
    BY <1>2, <2>1
  <2>4. PICK f : f = Target(fail[n], Last(m))
    OBVIOUS
  <2>5. /\ LongestIn(f, m, nodes \ {m})
        /\ Inherited(outputs[m], outputs[f]) = {p \in phrases : Ends(p, m)}
    BY <1>1, <1>2, <2>4, ChildIsLinked
  <2>6. f \in nodes
    BY <2>5 DEF LongestIn
  <2>7. Best(m)'
    BY <1>2, <2>1, <2>2, <2>4, <2>5 DEF Best
  <2>8. outputs'[m] = {p \in phrases : Ends(p, m)}
    BY <2>2, <2>3, <2>4, <2>5
  <2>9. Linked(m)'
    BY <1>2, <2>7, <2>8 DEF Linked
  <2> QED
    BY <2>1, <2>2, <2>4, <2>6, <2>8, <2>9
<1>7. ASSUME NEW m \in nodes, m \notin Children(n)
      PROVE  (Linked(m) => Linked(m)') /\ (Unlinked(m) => Unlinked(m)')
  BY <1>2, <1>5, <1>7 DEF Linked, Best, Unlinked
<1>8. PICK q : q = SetToSeq(Children(n))
  OBVIOUS
<1>9. /\ q \in Seq(Children(n)) /\ Len(q) \in Nat
      /\ \A m \in Children(n) : \E i \in 1..Len(q) : q[i] = m
  <2>1. IsFiniteSet(Children(n))
    BY <1>3, ChildrenOf
  <2> QED
    BY <1>8, <2>1, SetToSeqLists
<1>10. PICK r, s : r = queue' /\ s = Tail(queue)
  OBVIOUS
<1>11. /\ s \in Seq(nodes \ {Root}) /\ Len(s) = Len(queue) - 1
       /\ \A i \in 1..Len(s) : s[i] = queue[i + 1]
  BY <1>2, <1>4, <1>10, HeadTailProperties
<1>12. q \in Seq(nodes \ {Root})
  <2>1. Children(n) \subseteq nodes \ {Root}
    BY DEF Children
  <2> QED
    BY <1>9, <2>1, SeqMonotonic
<1>13. /\ r \in Seq(nodes \ {Root}) /\ Len(r) = Len(s) + Len(q) /\ Len(s) \in Nat
       /\ \A i \in 1..Len(s) + Len(q) : r[i] = IF i <= Len(s) THEN s[i] ELSE q[i - Len(s)]
  <2>1. r = s \o q
    BY <1>2, <1>8, <1>10
  <2>2. Len(s) \in Nat
    BY <1>11
  <2> QED
    BY <1>11, <1>12, <2>1, <2>2, ConcatProperties
<1>14. ASSUME NEW i \in 1..Len(r)
       PROVE  \/ i <= Len(s) /\ i + 1 \in 1..Len(queue) /\ r[i] = queue[i + 1]
              \/ i > Len(s) /\ r[i] \in Children(n) /\ Len(r[i]) = Len(n) + 1
  <2>1. CASE i <= Len(s)
    <3>1. i \in 1..Len(s) /\ i + 1 \in 1..Len(queue)
      BY <1>3, <1>11, <1>13, <2>1
    <3> QED
      BY <1>11, <1>13, <2>1, <3>1
  <2>2. CASE ~(i <= Len(s))
    <3>1. i - Len(s) \in 1..Len(q) /\ i > Len(s) /\ i \in 1..(Len(s) + Len(q))
      BY <1>9, <1>13, <2>2
    <3>2. PICK j \in 1..Len(q) : j = i - Len(s)
      BY <3>1
    <3>3. r[i] = q[j]
      BY <1>13, <2>2, <3>1, <3>2
    <3>4. q[j] \in Children(n)
      BY <1>9
    <3> QED
      BY <1>6, <3>1, <3>3, <3>4
  <2> QED
    BY <2>1, <2>2
<1>15. /\ \A i \in 1..Len(s) : i \in 1..Len(r) /\ r[i] = queue[i + 1]
       /\ \A m \in Children(n) : \E i \in 1..Len(r) : r[i] = m
  <2>1. \A i \in 1..Len(s) : i \in 1..Len(r) /\ r[i] = queue[i + 1]
    BY <1>9, <1>11, <1>13
  <2>2. ASSUME NEW m \in Children(n) PROVE \E i \in 1..Len(r) : r[i] = m
    <3>1. PICK j \in 1..Len(q) : q[j] = m
      BY <1>9
    <3>2. PICK i \in 1..Len(r) : i = Len(s) + j
      <4>1. PICK x \in Nat, y \in Nat : x = Len(s) /\ y = Len(q)
        BY <1>9, <1>13
      <4>2. x + j \in 1..(x + y)
        BY <4>1
      <4> QED
        BY <1>13, <4>1, <4>2
    <3>3. ~(i <= Len(s)) /\ i - Len(s) = j
      BY <1>13, <3>2
    <3> QED
      BY <1>13, <3>1, <3>2, <3>3
  <2> QED
    BY <2>1, <2>2
<1>16. MatcherTypeOK'
  <2>1. fail' \in [nodes -> nodes]
    BY <1>2, <1>4, <1>5, <1>6
  <2>2. outputs' \in [nodes -> SUBSET phrases]
    BY <1>2, <1>4, <1>5, <1>6
  <2>3. queue' \in Seq(nodes \ {Root})
    BY <1>10, <1>13
  <2> QED
    BY <1>2, <2>1, <2>2, <2>3 DEF MatcherInv, MatcherTypeOK
<1>17. Trie'
  BY <1>2 DEF MatcherInv, Trie, Branches
<1>18. \A i \in 1..Len(r) : \A j \in i..Len(r) : Len(r[i]) <= Len(r[j])
  <2> SUFFICES ASSUME NEW i \in 1..Len(r), NEW j \in i..Len(r) PROVE Len(r[i]) <= Len(r[j])
    OBVIOUS
  <2>1. j \in 1..Len(r) /\ Len(n) \in Nat
    BY <1>3, <1>4, <1>13
  <2>2. CASE j <= Len(s)
    <3>1. i <= Len(s)
      BY <1>13, <2>2
    <3>2. /\ i + 1 \in 1..Len(queue) /\ r[i] = queue[i + 1]
          /\ j + 1 \in 1..Len(queue) /\ r[j] = queue[j + 1]
      BY <1>13, <1>14, <2>1, <2>2, <3>1
    <3>3. j + 1 \in (i + 1)..Len(queue)
      BY <1>3, <3>2
    <3> QED
      BY <1>4, <3>2, <3>3 DEF Levels
  <2>3. CASE ~(j <= Len(s))
    <3>1. Len(r[j]) = Len(n) + 1
      BY <1>14, <2>1, <2>3
    <3>2. CASE i <= Len(s)
      <4>1. i + 1 \in 1..Len(queue) /\ r[i] = queue[i + 1]
        BY <1>13, <1>14, <3>2
      <4> QED
        BY <1>3, <1>4, <3>1, <4>1 DEF Levels
    <3>3. CASE ~(i <= Len(s))
      <4>1. Len(r[i]) = Len(n) + 1
        BY <1>14, <3>3
      <4> QED
        BY <2>1, <3>1, <4>1
    <3> QED
      BY <3>2, <3>3
  <2> QED
    BY <2>2, <2>3
<1>19. ASSUME r # << >>
       PROVE  1 \in 1..Len(r) /\ Len(r[1]) \in Nat /\ Len(r[1]) >= Len(n)
  <2>1. Len(r) \in Nat \ {0}
    BY <1>13, <1>19, EmptySeq
  <2>2. 1 \in 1..Len(r) /\ Len(n) \in Nat
    BY <1>3, <1>4, <2>1
  <2>3. r[1] \in nodes
    BY <1>13, <2>2
  <2>4. CASE 1 <= Len(s)
    <3>1. 1 + 1 \in 1..Len(queue) /\ r[1] = queue[1 + 1]
      BY <1>13, <1>14, <2>2, <2>4
    <3>2. 1 \in 1..Len(queue) /\ 1 + 1 \in 1..Len(queue)
      BY <1>3, <3>1
    <3>3. Len(queue[1]) <= Len(queue[1 + 1])
      BY <1>4, <3>2 DEF Levels
    <3> QED
      BY <1>3, <1>4, <2>2, <2>3, <3>1, <3>3
  <2>5. CASE ~(1 <= Len(s))
    <3>1. Len(r[1]) = Len(n) + 1
      BY <1>14, <2>2, <2>5
    <3> QED
      BY <2>2, <3>1
  <2> QED
    BY <2>4, <2>5
<1>20. ASSUME NEW i \in 1..Len(r) PROVE Len(r[i]) <= Len(r[1]) + 1
  <2>1. r # << >>
    BY <1>20
  <2>2. Len(r[1]) \in Nat /\ Len(r[1]) >= Len(n) /\ Len(n) \in Nat
    BY <1>3, <1>4, <1>19, <2>1
  <2>3. Len(r[i]) <= Len(n) + 1 /\ Len(r[i]) \in Nat
    <3>1. CASE i <= Len(s)
      <4>1. i + 1 \in 1..Len(queue) /\ r[i] = queue[i + 1]
        BY <1>13, <1>14, <3>1
      <4>2. queue[i + 1] \in nodes
        BY <1>4, <4>1
      <4> QED
        BY <1>3, <1>4, <4>1, <4>2 DEF Levels
    <3>2. CASE ~(i <= Len(s))
      BY <1>14, <2>2, <3>2
    <3> QED
      BY <3>1, <3>2
  <2> QED
    BY <2>2, <2>3
<1>21. ASSUME NEW m \in nodes PROVE (Unlinked(m) \/ Linked(m))'
  BY <1>4, <1>6, <1>7 DEF Levels
<1>22. ASSUME NEW m \in nodes PROVE Linked(m)' \/ \E i \in 1..Len(r) : Begins(r[i], m)
  <2>1. CASE m \in Children(n)
    BY <1>6, <2>1
  <2>2. CASE m \notin Children(n) /\ Linked(m)
    BY <1>7, <2>2
  <2>3. CASE m \notin Children(n) /\ ~Linked(m)
    <3>1. PICK i \in 1..Len(queue) : Begins(queue[i], m)
      BY <1>4, <2>3 DEF Levels
    <3>2. CASE i = 1
      <4>1. PICK k \in Children(n) : k = m \/ Begins(k, m)
        BY <1>3, <3>1, <3>2, ChildOnTheWay
      <4>2. Begins(k, m)
        BY <2>3, <4>1
      <4> QED
        BY <1>15, <4>2
    <3>3. CASE i # 1
      <4>1. PICK j \in 1..Len(s) : i = j + 1
        <5>1. i - 1 \in 1..Len(s) /\ i = (i - 1) + 1
          BY <1>3, <1>11, <3>3
        <5> QED
          BY <5>1
      <4> QED
        BY <1>15, <3>1, <4>1
    <3> QED
      BY <3>2, <3>3
  <2> QED
    BY <2>1, <2>2, <2>3
<1>23. ASSUME NEW m \in nodes, r # << >>, Len(m) > Len(r[1]) + 1 PROVE Unlinked(m)'
  <2>1. Len(r[1]) \in Nat /\ Len(r[1]) >= Len(n) /\ Len(n) \in Nat /\ Len(m) \in Nat
    BY <1>3, <1>4, <1>19, <1>23
  <2>2. PICK x \in Nat, y \in Nat, z \in Nat : x = Len(n) /\ y = Len(r[1]) /\ z = Len(m)
    BY <2>1
  <2>3. z > x + 1
    BY <1>23, <2>1, <2>2
  <2>4. Len(m) > Len(queue[1]) + 1
    BY <1>3, <2>2, <2>3
  <2>5. Unlinked(m)
    BY <1>2, <1>4, <2>4 DEF Levels
  <2>6. m \notin Children(n)
    BY <1>6, <2>2, <2>3
  <2> QED
    BY <1>7, <2>5, <2>6
<1>24. Levels'
  BY <1>2, <1>10, <1>18, <1>20, <1>21, <1>22, <1>23 DEF Levels, Begins
<1> QED
  BY <1>2, <1>16, <1>17, <1>24 DEF MatcherInv

LEMMA EndLinksStep == MatcherInv /\ EndLinks => MatcherInv'
<1> SUFFICES ASSUME MatcherInv, EndLinks PROVE MatcherInv'
  OBVIOUS
<1>1. /\ pc = "link" /\ queue = << >> /\ pc' = "ready" /\ todo' = todo /\ queue' = queue
      /\ phrases' = phrases /\ nodes' = nodes /\ fail' = fail /\ outputs' = outputs
      /\ text' = text /\ end' = end /\ node' = node /\ matches' = matches
  BY DEF EndLinks, trie, scan
<1>2. \A m \in nodes : Linked(m)
  <2>1. 1..Len(queue) = {}
    BY <1>1
  <2> QED
    BY <1>1, <2>1 DEF MatcherInv, Levels
<1>3. \A m \in nodes : Linked(m)'
  BY <1>1, <1>2 DEF Linked, Best
<1>4. MatcherTypeOK' /\ Trie'
  BY <1>1 DEF MatcherInv, MatcherTypeOK, Trie, Branches
<1> QED
  BY <1>1, <1>3, <1>4 DEF MatcherInv

-----------------------------------------------------------------------------
(* The scan. *)

LEMMA MatchStep == MatcherInv /\ Match => MatcherInv'
<1> SUFFICES ASSUME MatcherInv, Match PROVE MatcherInv'
  OBVIOUS
<1>1. /\ pc = "ready" /\ pc' = "scan" /\ todo' = todo /\ queue' = queue
      /\ phrases' = phrases /\ nodes' = nodes /\ fail' = fail /\ outputs' = outputs
      /\ text' \in Texts /\ end' = end /\ node' = node /\ matches' = matches
  BY DEF Match, trie
<1>2. end = 0 /\ node = Root /\ matches = {} /\ text' \in Strings
  BY <1>1, MatcherAssumption DEF MatcherInv, Strings
<1>3. \A m \in nodes : Linked(m)'
  BY <1>1 DEF MatcherInv, Linked, Best
<1>4. MatcherTypeOK' /\ Trie'
  <2>1. Len(text') \in Nat
    BY <1>2 DEF Strings
  <2>2. end' \in 0..Len(text')
    BY <1>1, <1>2, <2>1
  <2> QED
    BY <1>1, <1>2, <2>2 DEF MatcherInv, MatcherTypeOK, Trie, Branches, Strings
<1>5. Read'
  <2>1. SubSeq(text', 1, 0) = Root
    BY SubSeqEmpty DEF Root
  <2>2. LongestIn(Root, Root, nodes)
    <3>1. Root \in nodes /\ Root \in Strings
      BY Typed, EndsSelf
    <3>2. \A u \in nodes : Ends(u, Root) => Len(u) <= Len(Root)
      BY DEF Ends
    <3> QED
      BY <3>1, <3>2, EndsSelf DEF LongestIn
  <2>3. 1..0 = {}
    OBVIOUS
  <2> QED
    BY <1>1, <1>2, <2>1, <2>2, <2>3 DEF Read
<1> QED
  BY <1>1, <1>3, <1>4, <1>5 DEF MatcherInv

LEMMA ScanStep == MatcherInv /\ Scan => MatcherInv'
<1> SUFFICES ASSUME MatcherInv, Scan PROVE MatcherInv'
  OBVIOUS
<1>1. /\ pc = "scan" /\ pc' = pc /\ todo' = todo /\ queue' = queue
      /\ phrases' = phrases /\ nodes' = nodes /\ fail' = fail /\ outputs' = outputs
      /\ text' = text /\ end < Len(text) /\ end' = end + 1
      /\ node' = Target(node, text[end'])
      /\ matches' = matches \cup {p \in outputs[node'] : Counts(p, end')}
  BY DEF Scan, trie
<1>2. /\ nodes \subseteq Strings /\ Root \in nodes /\ fail \in [nodes -> nodes]
      /\ phrases \subseteq Strings \ {Root} /\ text \in Strings
      /\ Branches /\ phrases \subseteq nodes /\ node \in nodes
      /\ \A m \in nodes : Linked(m)
  <2>1. phrases \subseteq nodes
    BY <1>1 DEF MatcherInv, Trie
  <2> QED
    BY <1>1, <2>1, Typed DEF MatcherInv, MatcherTypeOK, Trie
<1>3. PICK e \in 1..Len(text) : e = end + 1 /\ e - 1 = end /\ end \in 0..Len(text)
  <2>1. end \in 0..Len(text) /\ Len(text) \in Nat
    BY <1>2 DEF MatcherInv, MatcherTypeOK, Strings
  <2> QED
    BY <1>1, <2>1
<1>4. PICK c \in Chars : c = text[e]
  BY <1>2 DEF Strings
<1>5. PICK s \in Strings, t \in Strings :
        /\ s = SubSeq(text, 1, end) /\ t = SubSeq(text, 1, e) /\ t = Append(s, c)
  <2>1. Len(text) \in Nat
    BY <1>2 DEF Strings
  <2>2. PICK s \in Strings : /\ s = SubSeq(text, 1, end) /\ Len(s) = end
                             /\ \A i \in 1..end : s[i] = text[i]
    BY <1>2, <1>3, Beginning
  <2>3. PICK t \in Strings : /\ t = SubSeq(text, 1, e) /\ Len(t) = e
                             /\ \A i \in 1..e : t[i] = text[i]
    <3>1. e \in 0..Len(text)
      BY <2>1
    <3> QED
      BY <1>2, <3>1, Beginning
  <2>4. PICK u \in Strings : u = Append(s, c) /\ Len(u) = e /\ u[e] = c
                             /\ \A i \in 1..end : u[i] = s[i]
    <3>1. PICK u : u = Append(s, c)
      OBVIOUS
    <3>2. /\ u \in Strings /\ Len(u) = Len(s) + 1 /\ u[Len(s) + 1] = c
          /\ \A i \in 1..Len(s) : u[i] = s[i]
      BY <3>1, AppendProperties DEF Strings
    <3>3. Len(s) = end /\ Len(s) + 1 = e
      BY <1>3, <2>2
    <3> QED
      BY <3>1, <3>2, <3>3
  <2>5. ASSUME NEW i \in 1..e PROVE t[i] = u[i]
    <3>1. i = e \/ i \in 1..end
      BY <1>3
    <3> QED
      BY <1>3, <1>4, <2>1, <2>2, <2>3, <2>4, <3>1
  <2>6. t = u
    BY <2>3, <2>4, <2>5, SeqEqual DEF Strings
  <2> QED
    BY <2>2, <2>3, <2>4, <2>6
<1>6. LongestIn(node, s, nodes) /\ node \in Strings
  BY <1>1, <1>2, <1>5 DEF MatcherInv, Read
<1>7. PICK f : f = node'
  OBVIOUS
<1>8. LongestIn(f, Append(node, c), nodes)
  <2>1. nodes \in SUBSET nodes /\ (\A k \in nodes : Best(k)) /\ \A k \in nodes : fail[k] \in nodes
    BY <1>2 DEF Linked
  <2>2. LongestIn(Target(node, c), Append(node, c), nodes)
    BY <1>2, <2>1, TargetIsLongest
  <2> QED
    BY <1>1, <1>3, <1>4, <1>7, <2>2
<1>9. f \in nodes /\ f \in Strings /\ Ends(f, t)
  <2>1. f \in nodes /\ f \in Strings /\ Ends(f, Append(node, c)) /\ Append(node, c) \in Strings
    BY <1>2, <1>6, <1>8, AppendProperties DEF LongestIn, Strings
  <2>2. Ends(Append(node, c), Append(s, c))
    BY <1>6, EndsAppend DEF LongestIn
  <2> QED
    BY <1>5, <2>1, <2>2, EndsTransitive
<1>10. ASSUME NEW u \in nodes, Ends(u, t) PROVE Len(u) <= Len(f)
  <2>1. CASE u = Root
    <3>1. Len(Root) = 0 /\ Len(f) \in Nat
      BY <1>9, EndsSelf DEF Strings
    <3> QED
      BY <2>1, <3>1
  <2>2. CASE u # Root
    <3>1. u \in Strings
      BY <1>2
    <3>2. Front(u) \in Strings /\ Last(u) \in Chars /\ u = Append(Front(u), Last(u))
      BY <2>2, <3>1, FrontAndLast
    <3>3. Ends(Append(Front(u), Last(u)), Append(s, c))
      BY <1>5, <1>10, <3>2
    <3>4. Last(u) = c /\ Ends(Front(u), s)
      BY <3>2, <3>3, EndsAppend
    <3>5. Front(u) \in nodes
      BY <1>2, <2>2, FrontIsNode
    <3>6. Ends(Front(u), node)
      <4>1. Len(Front(u)) <= Len(node) /\ Ends(node, s)
        BY <1>6, <3>4, <3>5 DEF LongestIn
      <4> QED
        BY <1>6, <3>2, <3>4, <4>1, EndsNest
    <3>7. Ends(u, Append(node, c))
      <4>1. Ends(Append(Front(u), c), Append(node, c))
        BY <1>6, <3>2, <3>6, EndsAppend
      <4> QED
        BY <3>2, <3>4, <4>1
    <3> QED
      BY <1>8, <3>7 DEF LongestIn
  <2> QED
    BY <2>1, <2>2
<1>11. LongestIn(f, t, nodes)
  BY <1>9, <1>10 DEF LongestIn
<1>12. outputs[f] = {p \in phrases : Ends(p, t)}
  <2>1. outputs[f] = {p \in phrases : Ends(p, f)}
    BY <1>2, <1>9 DEF Linked
  <2>2. ASSUME NEW p \in phrases PROVE Ends(p, f) <=> Ends(p, t)
    <3>1. p \in nodes /\ p \in Strings
      BY <1>2
    <3>2. ASSUME Ends(p, t) PROVE Ends(p, f)
      <4>1. Len(p) <= Len(f)
        BY <1>10, <3>1, <3>2
      <4> QED
        BY <1>9, <3>1, <3>2, <4>1, EndsNest
    <3>3. ASSUME Ends(p, f) PROVE Ends(p, t)
      BY <1>9, <3>1, <3>3, EndsTransitive
    <3> QED
      BY <3>2, <3>3
  <2> QED
    BY <2>1, <2>2
<1>13. matches' = matches \cup {p \in phrases : Ends(p, t) /\ Counts(p, e)}
  BY <1>1, <1>3, <1>7, <1>12
<1>14. matches = {p \in phrases :
                    \E i \in 1..end : Ends(p, SubSeq(text, 1, i)) /\ Counts(p, i)}
  BY <1>1 DEF MatcherInv, Read
<1>15. ASSUME NEW i PROVE i \in 1..e <=> i \in 1..end \/ i = e
  BY <1>3
<1>16. matches' = {p \in phrases :
                     \E i \in 1..e : Ends(p, SubSeq(text, 1, i)) /\ Counts(p, i)}
  BY <1>5, <1>13, <1>14, <1>15
<1>17. \A p, i : Counts(p, i)' <=> Counts(p, i)
  BY <1>1 DEF Counts, IsWord, SuffixEnd
<1>18. Read'
  BY <1>1, <1>3, <1>5, <1>7, <1>11, <1>16, <1>17 DEF Read
<1>19. MatcherTypeOK'
  <2>1. matches' \subseteq phrases
    BY <1>16
  <2>2. end' \in 0..Len(text)
    BY <1>1, <1>3
  <2> QED
    BY <1>1, <1>7, <1>9, <2>1, <2>2 DEF MatcherInv, MatcherTypeOK
<1>20. Trie' /\ \A m \in nodes : Linked(m)'
  BY <1>1, <1>2 DEF MatcherInv, Trie, Branches, Linked, Best
<1> QED
  BY <1>1, <1>18, <1>19, <1>20 DEF MatcherInv

LEMMA EndScanStep == MatcherInv /\ EndScan => MatcherInv'
<1> SUFFICES ASSUME MatcherInv, EndScan PROVE MatcherInv'
  OBVIOUS
<1>1. /\ pc = "scan" /\ end = Len(text) /\ pc' = "done" /\ todo' = todo /\ queue' = queue
      /\ phrases' = phrases /\ nodes' = nodes /\ fail' = fail /\ outputs' = outputs
      /\ text' = text /\ end' = end /\ node' = node /\ matches' = matches
  BY DEF EndScan, trie, scan
<1>2. MatcherTypeOK' /\ Trie' /\ \A m \in nodes : Linked(m)'
  BY <1>1 DEF MatcherInv, MatcherTypeOK, Trie, Branches, Linked, Best
<1>3. Read'
  <2>1. Read
    BY <1>1 DEF MatcherInv
  <2> QED
    BY <1>1, <2>1 DEF Read, Counts, IsWord, SuffixEnd
<1> QED
  BY <1>1, <1>2, <1>3 DEF MatcherInv

LEMMA StepMatcher == MatcherInv /\ [MatcherNext]_matcherVars => MatcherInv'
<1> SUFFICES ASSUME MatcherInv, [MatcherNext]_matcherVars PROVE MatcherInv'
  OBVIOUS
<1>1. CASE UNCHANGED matcherVars
  <2>1. /\ pc' = pc /\ todo' = todo /\ queue' = queue
        /\ phrases' = phrases /\ nodes' = nodes /\ fail' = fail /\ outputs' = outputs
        /\ text' = text /\ end' = end /\ node' = node /\ matches' = matches
    BY <1>1 DEF matcherVars, trie, scan
  <2>2. MatcherTypeOK' <=> MatcherTypeOK
    BY <2>1 DEF MatcherTypeOK
  <2>3. \A m : (Unlinked(m)' <=> Unlinked(m)) /\ (Linked(m)' <=> Linked(m))
    BY <2>1 DEF Unlinked, Linked, Best
  <2>4. Trie' <=> Trie
    BY <2>1, <2>3 DEF Trie, Branches
  <2>5. Levels' <=> Levels
    BY <2>1, <2>3 DEF Levels
  <2>6. \A p, e : Counts(p, e)' <=> Counts(p, e)
    BY <2>1 DEF Counts, IsWord, SuffixEnd
  <2>7. Read' <=> Read
    BY <2>1, <2>6 DEF Read
  <2> QED
    BY <2>1, <2>2, <2>3, <2>4, <2>5, <2>7 DEF MatcherInv
<1> QED
  BY <1>1, BuildStep, InsertStep, BeginLinksStep, LinkStep, EndLinksStep, MatchStep, ScanStep,
     EndScanStep DEF MatcherNext

-----------------------------------------------------------------------------
(* The pattern. *)

\* SuffixEnd is the end of the word, or the end of what may follow a phrase.
LEMMA SuffixEndIs ==
  ASSUME NEW e \in Nat
  PROVE  /\ SuffixEnd(e) \in (e + 1)..(e + MaxSuffix + 1)
         /\ \A j \in (e + 1)..(SuffixEnd(e) - 1) : IsWord(j)
         /\ ~IsWord(SuffixEnd(e)) \/ SuffixEnd(e) = e + MaxSuffix + 1
<1> DEFINE Stop(k) == ~IsWord(k) \/ k = e + MaxSuffix + 1
           T == {k \in (e + 1)..(e + MaxSuffix + 1) : Stop(k)}
           Is(k) == (\A j \in (e + 1)..(k - 1) : IsWord(j)) /\ Stop(k)
<1>1. MaxSuffix \in Nat
  BY MatcherAssumption
<1>2. T \subseteq Nat /\ T # {}
  <2>1. e + MaxSuffix + 1 \in T
    BY <1>1
  <2>2. T \subseteq Nat
    BY <1>1
  <2> QED
    BY <2>1, <2>2
<1>3. PICK m \in T : \A k \in T : m <= k
  <2> HIDE DEF T
  <2> QED
    BY <1>2, LeastNat
<1>4. ASSUME NEW j \in (e + 1)..(m - 1) PROVE IsWord(j)
  <2>1. j \in (e + 1)..(e + MaxSuffix + 1) /\ ~(m <= j)
    BY <1>1, <1>2, <1>3
  <2>2. j \notin T
    BY <1>3, <2>1
  <2> QED
    BY <2>1, <2>2
<1>5. \E k \in (e + 1)..(e + MaxSuffix + 1) : Is(k)
  BY <1>3, <1>4
<1>6. SuffixEnd(e) = CHOOSE k \in (e + 1)..(e + MaxSuffix + 1) : Is(k)
  BY DEF SuffixEnd
<1>7. SuffixEnd(e) \in (e + 1)..(e + MaxSuffix + 1) /\ Is(SuffixEnd(e))
  <2> HIDE DEF Is
  <2> QED
    BY <1>5, <1>6
<1> QED
  BY <1>7

\* A phrase occurs in the text exactly when it ends what has been read at some
\* position where it counts.
LEMMA OccursWhereItEnds ==
  ASSUME MatcherInv, NEW p \in phrases
  PROVE  Occurs(p) <=> \E e \in 1..Len(text) : Ends(p, SubSeq(text, 1, e)) /\ Counts(p, e)
<1>1. p \in Strings /\ text \in Strings /\ Len(text) \in Nat /\ Len(p) \in Nat \ {0}
  <2>1. p \in Strings /\ p # Root /\ text \in Strings
    BY Typed
  <2> QED
    BY <2>1, FrontAndLast DEF Strings
<1>2. MaxSuffix \in Nat /\ \A i \in 1..Len(text) : text[i] \in Chars
  BY <1>1, MatcherAssumption DEF Strings
<1>3. ASSUME NEW e \in 1..Len(text), NEW i \in Int, i = e - Len(p) + 1
      PROVE  Ends(p, SubSeq(text, 1, e)) <=> i >= 1 /\ SubSeq(text, i, e) = p
  <2>1. e \in 0..Len(text)
    BY <1>1
  <2>2. PICK t \in Strings : /\ t = SubSeq(text, 1, e) /\ Len(t) = e
                             /\ \A j \in 1..e : t[j] = text[j]
    BY <1>1, <2>1, Beginning
  <2>3. PICK l \in Nat \ {0} : l = Len(p)
    BY <1>1
  <2>4. CASE i >= 1
    <3>1. l <= e /\ i \in 1..e /\ e - i + 1 = l
      BY <1>3, <2>3, <2>4
    <3>2. PICK u \in Strings : /\ u = SubSeq(text, i, e) /\ Len(u) = l
                               /\ \A j \in 1..l : u[j] = text[i + j - 1]
      <4>1. \A j \in i..e : text[j] \in Chars
        BY <1>1, <1>2, <2>4
      <4>2. /\ SubSeq(text, i, e) \in Seq(Chars)
            /\ Len(SubSeq(text, i, e)) = IF i <= e THEN e - i + 1 ELSE 0
            /\ \A j \in 1..(e - i + 1) : SubSeq(text, i, e)[j] = text[i + j - 1]
        BY <4>1, SubSeqProperties
      <4>3. Len(SubSeq(text, i, e)) = l
        BY <3>1, <4>2
      <4>4. \A j \in 1..l : SubSeq(text, i, e)[j] = text[i + j - 1]
        BY <3>1, <4>2
      <4> QED
        BY <4>2, <4>3, <4>4 DEF Strings
    <3>3. \A j \in 1..l : j + (e - l) = i + j - 1 /\ j + (e - l) \in 1..e
      BY <1>3, <2>3, <3>1
    <3>4. Ends(p, t) <=> \A j \in 1..l : p[j] = u[j]
      <4>1. Ends(p, t) <=> \A j \in 1..l : p[j] = t[j + (e - l)]
        <5>1. Ends(p, t) <=> l <= e /\ \A j \in 1..l : p[j] = t[j + (Len(t) - l)]
          BY <2>2, <2>3 DEF Ends
        <5> QED
          BY <2>2, <3>1, <5>1
      <4>2. ASSUME NEW j \in 1..l PROVE t[j + (e - l)] = u[j]
        <5>1. PICK x \in 1..e : x = j + (e - l) /\ x = i + j - 1
          BY <3>3
        <5>2. t[x] = text[x] /\ u[j] = text[i + j - 1]
          BY <2>2, <3>2
        <5> QED
          BY <5>1, <5>2
      <4> QED
        BY <4>1, <4>2
    <3>5. (\A j \in 1..l : p[j] = u[j]) <=> u = p
      BY <1>1, <2>3, <3>2, SeqEqual DEF Strings
    <3> QED
      BY <2>2, <2>4, <3>2, <3>4, <3>5
  <2>5. CASE ~(i >= 1)
    <3>1. ~(l <= e)
      BY <1>3, <2>3, <2>5
    <3> QED
      BY <2>2, <2>3, <2>5, <3>1 DEF Ends
  <2> QED
    BY <2>4, <2>5
<1>4. ASSUME NEW e \in 1..Len(text), Ends(p, SubSeq(text, 1, e)), Counts(p, e)
      PROVE  Occurs(p)
  <2>1. PICK i \in Int : i = e - Len(p) + 1
    BY <1>1
  <2>2. i >= 1 /\ SubSeq(text, i, e) = p
    BY <1>3, <1>4, <2>1
  <2>3. i \in 1..(Len(text) - Len(p) + 1) /\ i + Len(p) = e + 1 /\ e + 1 - 1 = e /\ i - 1 = e - Len(p)
    BY <1>1, <2>1, <2>2
  <2>4. PICK z : /\ z = SuffixEnd(e) /\ z \in (e + 1)..(e + MaxSuffix + 1)
                 /\ \A j \in (e + 1)..(z - 1) : IsWord(j)
    <3>1. e \in Nat
      BY <1>1
    <3> QED
      BY <3>1, SuffixEndIs
  <2>5. ~IsWord(e - Len(p)) /\ ~IsWord(z)
    BY <1>4, <2>4 DEF Counts
  <2>6. PICK k \in 0..MaxSuffix : e + 1 + k = z /\ e + 1 + k - 1 = z - 1
    <3>1. z - (e + 1) \in 0..MaxSuffix /\ e + 1 + (z - (e + 1)) = z
      BY <1>1, <1>2, <2>4
    <3>2. PICK k \in 0..MaxSuffix : k = z - (e + 1)
      BY <3>1
    <3> QED
      BY <1>1, <2>4, <3>1, <3>2
  <2>7. /\ SubSeq(text, i, i + Len(p) - 1) = p
        /\ ~IsWord(i - 1) /\ ~IsWord(i + Len(p) + k)
        /\ \A j \in (i + Len(p))..(i + Len(p) + k - 1) : IsWord(j)
    <3>1. i + Len(p) - 1 = e /\ i - 1 = e - Len(p) /\ i + Len(p) + k = z
          /\ i + Len(p) + k - 1 = z - 1
      BY <2>3, <2>6
    <3>2. SubSeq(text, i, i + Len(p) - 1) = p /\ ~IsWord(i - 1) /\ ~IsWord(i + Len(p) + k)
      BY <2>2, <2>5, <3>1
    <3>3. \A j \in (i + Len(p))..(i + Len(p) + k - 1) : IsWord(j)
      BY <2>3, <2>4, <3>1
    <3> QED
      BY <3>2, <3>3
  <2> QED
    BY <2>3, <2>7 DEF Occurs
<1>5. ASSUME Occurs(p)
      PROVE  \E e \in 1..Len(text) : Ends(p, SubSeq(text, 1, e)) /\ Counts(p, e)
  <2>1. PICK i \in 1..(Len(text) - Len(p) + 1), k \in 0..MaxSuffix :
          /\ SubSeq(text, i, i + Len(p) - 1) = p
          /\ ~IsWord(i - 1) /\ ~IsWord(i + Len(p) + k)
          /\ \A j \in (i + Len(p))..(i + Len(p) + k - 1) : IsWord(j)
    BY <1>5 DEF Occurs
  <2>2. PICK e \in 1..Len(text) : e = i + Len(p) - 1
    <3>1. i + Len(p) - 1 \in 1..Len(text)
      BY <1>1
    <3> QED
      BY <3>1
  <2>3. e \in Nat /\ i + Len(p) = e + 1 /\ i - 1 = e - Len(p) /\ i = e - Len(p) + 1 /\ i >= 1
    BY <1>1, <2>2
  <2>4. Ends(p, SubSeq(text, 1, e))
    BY <1>3, <2>1, <2>2, <2>3
  <2>5. PICK y : y = e + 1 + k
    OBVIOUS
  <2>6. ~IsWord(y) /\ \A j \in (e + 1)..(y - 1) : IsWord(j)
    BY <2>1, <2>3, <2>5
  <2>7. PICK z : /\ z = SuffixEnd(e) /\ z \in (e + 1)..(e + MaxSuffix + 1)
                 /\ \A j \in (e + 1)..(z - 1) : IsWord(j)
                 /\ ~IsWord(z) \/ z = e + MaxSuffix + 1
    BY <2>3, SuffixEndIs
  <2>8. y \in (e + 1)..(e + MaxSuffix + 1)
    BY <1>2, <2>3, <2>5
  <2>9. ~IsWord(z)
    <3>1. CASE z < y
      <4>1. z # e + MaxSuffix + 1
        BY <1>2, <2>3, <2>7, <2>8, <3>1
      <4> QED
        BY <2>7, <4>1
    <3>2. CASE z = y
      BY <2>6, <3>2
    <3>3. CASE z > y
      <4>1. y \in (e + 1)..(z - 1)
        BY <1>2, <2>3, <2>7, <2>8, <3>3
      <4> QED
        BY <2>6, <2>7, <4>1
    <3> QED
      BY <1>2, <2>3, <2>7, <2>8, <3>1, <3>2, <3>3
  <2>10. Counts(p, e)
    BY <2>1, <2>3, <2>7, <2>9 DEF Counts
  <2> QED
    BY <2>4, <2>10
<1> QED
  BY <1>4, <1>5

-----------------------------------------------------------------------------
(* The theorems.                                                           *)

\* The inductive invariant holds in every state.
LEMMA MatcherInvariant == MatcherSpec => []MatcherInv
<1> QED
  BY InitMatcher, StepMatcher, PTL DEF MatcherSpec

\* Type correctness: every link leads to a node, and the outputs and matches are
\* phrases of the dictionary.
THEOREM MatcherTypes == MatcherSpec => []MatcherTypeOK
<1>1. MatcherInv => MatcherTypeOK
  BY DEF MatcherInv
<1> QED
  BY <1>1, MatcherInvariant, PTL

\* When _build has returned, every node fails to the longest of its proper suffixes in
\* the trie and knows every phrase that ends with it.
THEOREM LinksComplete == MatcherSpec => []LinksAreComplete
<1>1. ASSUME MatcherInv PROVE LinksAreComplete
  <2> SUFFICES ASSUME pc = "ready", NEW n \in nodes
               PROVE  /\ fail[n] = IF n = Root THEN Root
                                   ELSE Longest((Suffixes(n) \ {n}) \cap nodes)
                      /\ outputs[n] = phrases \cap Suffixes(n)
    BY DEF LinksAreComplete
  <2>1. Linked(n) /\ nodes \subseteq Strings /\ phrases \subseteq Strings /\ n \in Strings
    BY <1>1, Typed DEF MatcherInv
  <2>2. outputs[n] = phrases \cap Suffixes(n)
    <3>1. Suffixes(n) = {s \in Strings : Ends(s, n)}
      BY <2>1, SuffixesAreEnds
    <3>2. outputs[n] = {p \in phrases : Ends(p, n)}
      BY <2>1 DEF Linked
    <3> QED
      BY <2>1, <3>1, <3>2
  <2>3. CASE n = Root
    BY <2>1, <2>2, <2>3 DEF Linked, Best
  <2>4. CASE n # Root
    <3>1. LongestIn(fail[n], n, nodes \ {n})
      BY <2>1, <2>4 DEF Linked, Best
    <3>2. nodes \ {n} \in SUBSET Strings
      BY <2>1
    <3>3. fail[n] = Longest(Suffixes(n) \cap (nodes \ {n}))
      BY <2>1, <3>1, <3>2, LongestIsLongest
    <3>4. Suffixes(n) \cap (nodes \ {n}) = (Suffixes(n) \ {n}) \cap nodes
      OBVIOUS
    <3> QED
      BY <2>2, <2>4, <3>3, <3>4
  <2> QED
    BY <2>3, <2>4
<1> QED
  BY <1>1, MatcherInvariant, PTL

\* While _match reads a post, it stands at the longest suffix of what it has read that
\* is in the trie.
THEOREM NothingIsForgotten == MatcherSpec => []NothingForgotten
<1>1. ASSUME MatcherInv PROVE NothingForgotten
  <2> SUFFICES ASSUME pc = "scan"
               PROVE  node = Longest(Suffixes(SubSeq(text, 1, end)) \cap nodes)
    BY DEF NothingForgotten
  <2>1. nodes \in SUBSET Strings /\ text \in Strings /\ end \in 0..Len(text)
    BY <1>1, Typed DEF MatcherInv, MatcherTypeOK
  <2>2. SubSeq(text, 1, end) \in Strings
    BY <2>1, Beginning
  <2>3. LongestIn(node, SubSeq(text, 1, end), nodes)
    BY <1>1 DEF MatcherInv, Read
  <2> QED
    BY <2>1, <2>2, <2>3, LongestIsLongest
<1> QED
  BY <1>1, MatcherInvariant, PTL

\* _match returns the phrases that the pattern finds in the post, no other and all.
THEOREM MatchesExact == MatcherSpec => []MatchesAreExact
<1>1. ASSUME MatcherInv PROVE MatchesAreExact
  <2> SUFFICES ASSUME pc = "done" PROVE matches = {p \in phrases : Occurs(p)}
    BY DEF MatchesAreExact
  <2>1. /\ matches = {p \in phrases :
             \E e \in 1..end : Ends(p, SubSeq(text, 1, e)) /\ Counts(p, e)}
        /\ end = Len(text)
    BY <1>1 DEF MatcherInv, Read
  <2>2. \A p \in phrases :
          Occurs(p) <=> \E e \in 1..end : Ends(p, SubSeq(text, 1, e)) /\ Counts(p, e)
    BY <1>1, <2>1, OccursWhereItEnds
  <2> QED
    BY <2>1, <2>2
<1> QED
  BY <1>1, MatcherInvariant, PTL
=============================================================================
