---------------------------- MODULE ProfileProofs ----------------------------
(***************************************************************************)
(* What the settings of one user keep, however many tasks of the           *)
(* dispatcher handle the user's updates, and whatever the limits.          *)
(*                                                                         *)
(* The throttle key is the only thing that keeps the tasks of a user       *)
(* apart.  It lets one task through; another one follows while the first   *)
(* is at work only when the key has expired under it (Alone, Counted).  A  *)
(* task that is alone finds at its commit what it has read (Fresh); a      *)
(* phrase that was counted still has room, but for one phrase for each     *)
(* task beyond the first (Room).  Prompted and Keyed follow a prompt and a *)
(* mute through the steps of the task that works on them.                  *)
(***************************************************************************)
EXTENDS Profile, TLAPS, FiniteSetTheorems

Kinds == {"view", "prompt", "erase", "category", "location", "mute", "text", "drop", "refused"}

Args == {"-"} \cup Categories \cup Locations \cup Mutes \cup Phrases \cup Refusals

Task == [pc : PCs, kind : Kinds, arg : Args, raw : BOOLEAN,
         cats : SUBSET Categories, had : BOOLEAN, creates : BOOLEAN]

\* The argument of an update is of its kind; only a phrase gets as far as the service,
\* and only a mute or an erasure as far as the key.
Fits(t) ==
  /\ t.kind = "category" => t.arg \in Categories
  /\ t.kind = "location" => t.arg \in Locations
  /\ t.kind = "mute" => t.arg \in Mutes
  /\ t.kind = "drop" => t.arg \in Phrases
  /\ t.kind = "text" => t.arg \in Phrases \cup Refusals
  /\ t.kind = "text" /\ t.pc \in {"open", "commit"} => t.arg \in Phrases
  /\ t.pc = "key" => t.kind \in {"mute", "erase"}

Typed ==
  /\ TypeOK
  /\ task \in [Tasks -> Task]
  /\ \A h \in Tasks : Fits(task[h])

\* The tasks that the throttle has let through.
Active == {h \in Tasks : task[h].pc \notin {"idle", "throttle"}}

\* Without a slow update one task at most is let through, and its key is still there.
Alone == slow = 0 => \A h \in Active : throttled /\ \A k \in Active : k = h

\* What a task alone has read is still so when it commits.
Fresh ==
  slow = 0 => \A h \in Tasks : At(h, "commit") =>
    /\ task[h].kind = "category" => task[h].cats = cats
    /\ task[h].kind = "location" => task[h].had = (task[h].arg \in rows)
    /\ task[h].kind = "mute" /\ task[h].arg = "off" /\ task[h].had => muted = "off"

\* A task beyond the first has been let in by a slow one.
Counted ==
  /\ IsFiniteSet(Active)
  /\ Cardinality(Active) <= slow + (IF throttled THEN 1 ELSE 0)

\* The texts that have found room below the limit.
Pending == {h \in Tasks : At(h, "commit") /\ task[h].kind = "text"}

Room ==
  /\ IsFiniteSet(phrases) /\ IsFiniteSet(Pending)
  /\ Cardinality(phrases) + Cardinality(Pending) <= MaxCustom + slow

\* The state that admits a text stands for a prompt that no phrase has answered yet,
\* but for the moment between the commit of a phrase and the end of its handler.
Prompted ==
  slow = 0 /\ faults = 0 =>
    /\ credit >= 0
    /\ waiting => \/ credit = 1
                  \/ \E h \in Tasks : /\ At(h, "reply") /\ task[h].kind = "text"
                                      /\ task[h].arg \in Phrases
    /\ \A h \in Tasks :
         /\ task[h].kind = "text" /\ task[h].pc \in {"open", "commit"} => credit = 1
         /\ At(h, "throttle") /\ task[h].raw /\ ~throttled => waiting

\* Key and row agree, or the task that will make them agree is about to.
Keyed ==
  slow = 0 /\ faults = 0 =>
    /\ (\A h \in Tasks : ~At(h, "key")) => muteKey = muted
    /\ \A h \in Tasks : At(h, "key") => muted = KeyFor(task[h])

IInv ==
  /\ Typed /\ Alone /\ Fresh /\ TogglesAreKept
  /\ Counted /\ Room /\ Prompted /\ Keyed

USE ProfileAssumption

-----------------------------------------------------------------------------
(* What a step does to the tasks.                                          *)

\* All tasks but h are as they were.
Others(h) == \A k \in Tasks \ {h} : task'[k] = task[k]

\* Task h goes on with the update it has.
Keeps(h) ==
  /\ task'[h].kind = task[h].kind /\ task'[h].arg = task[h].arg
  /\ task'[h].raw = task[h].raw /\ task'[h].cats = task[h].cats
  /\ task'[h].had = task[h].had

LEMMA IdleIsTask == Idle \in Task /\ Fits(Idle) /\ Idle.pc = "idle" /\ Idle.kind = "view"
  BY DEF Idle, Task, PCs, Kinds, Args, Fits

LEMMA GotoFacts ==
  ASSUME task \in [Tasks -> Task], NEW h \in Tasks, NEW pc \in PCs, Goto(h, pc)
  PROVE  /\ task' \in [Tasks -> Task] /\ Others(h) /\ Keeps(h)
         /\ task'[h].pc = pc /\ task'[h].creates = task[h].creates
  BY DEF Goto, Task, Others, Keeps

LEMMA EndsFacts ==
  ASSUME task \in [Tasks -> Task], NEW h \in Tasks, Ends(h)
  PROVE  /\ task' \in [Tasks -> Task] /\ Others(h) /\ task'[h] = Idle
         /\ task'[h].pc = "idle" /\ task'[h].kind = "view"
  BY IdleIsTask DEF Ends, Others

LEMMA CommittedFacts ==
  ASSUME task \in [Tasks -> Task], NEW h \in Tasks, NEW pc \in PCs, Committed(h, pc)
  PROVE  /\ task' \in [Tasks -> Task] /\ Others(h) /\ Keeps(h)
         /\ task'[h].pc = pc
  BY DEF Committed, Task, Others, Keeps

LEMMA ArriveFacts ==
  ASSUME Typed, NEW h \in Tasks, NEW u \in Update, Arrive(h, u)
  PROVE  /\ task' \in [Tasks -> Task] /\ Others(h) /\ Fits(task'[h])
         /\ task[h].pc = "idle" /\ task'[h].pc = "throttle" /\ task'[h].raw = waiting
<1> DEFINE t == [Idle EXCEPT !.pc = "throttle", !.kind = u.kind, !.arg = u.arg,
                             !.raw = waiting]
<1>1. u.kind \in Kinds /\ u.arg \in Args
  BY DEF Update, Kinds, Args
<1>2. waiting \in BOOLEAN
  BY DEF Typed, TypeOK
<1>3. t \in Task /\ t.pc = "throttle" /\ t.kind = u.kind /\ t.arg = u.arg /\ t.raw = waiting
  BY <1>1, <1>2 DEF Task, Idle, PCs
<1>4. task' = [task EXCEPT ![h] = t] /\ task[h].pc = "idle"
  BY DEF Arrive, At
<1>5. Fits(t)
  <2> HIDE DEF t
  <2>1. QED
    BY <1>3 DEF Fits, Update
<1>6. QED
  <2> HIDE DEF t
  <2>1. QED
    BY <1>3, <1>4, <1>5 DEF Others, Typed

LEMMA OpenFacts ==
  ASSUME Typed, NEW h \in Tasks, Open(h)
  PROVE  /\ task' \in [Tasks -> Task] /\ Others(h)
         /\ At(h, "open")
         /\ task'[h].arg = task[h].arg /\ task'[h].cats = cats
         /\ task'[h].had = IF task[h].kind = "mute" THEN task[h].arg = muted
                           ELSE task[h].arg \in rows
         /\ \/ /\ Refused(task[h])
               /\ task'[h].kind = "refused" /\ task'[h].pc = "reply"
            \/ /\ ~Refused(task[h])
               /\ task'[h].kind = task[h].kind
               /\ task'[h].pc = IF task[h].kind = "view" THEN "reply" ELSE "commit"
<1> DEFINE had == IF task[h].kind = "mute" THEN task[h].arg = muted
                  ELSE task[h].arg \in rows
           new == ~registered
           kind == IF Refused(task[h]) THEN "refused" ELSE task[h].kind
           step == IF task[h].kind = "view" \/ Refused(task[h]) THEN "reply" ELSE "commit"
           t == [task[h] EXCEPT !.creates = new, !.cats = cats, !.had = had,
                                !.kind = kind, !.pc = step]
<1>1. had \in BOOLEAN
  <2>1. (task[h].arg = muted) \in BOOLEAN /\ (task[h].arg \in rows) \in BOOLEAN
    BY SMT
  <2>2. QED
    BY <2>1, Zenon
<1>2. new \in BOOLEAN /\ cats \subseteq Categories
  BY DEF Typed, TypeOK
<1>3. kind \in Kinds /\ step \in PCs
  BY DEF Typed, Task, Kinds, PCs
<1>4. task' = [task EXCEPT ![h] = t] /\ At(h, "open")
  BY DEF Open
<1>5. /\ t \in Task /\ t.arg = task[h].arg /\ t.cats = cats /\ t.had = had
      /\ t.kind = kind /\ t.pc = step
  <2>1. task[h] \in Task
    BY DEF Typed
  <2>2. PICK b \in BOOLEAN, c \in BOOLEAN : b = had /\ c = new
    <3> HIDE DEF had, new
    <3>1. QED
      BY <1>1, <1>2, Zenon
  <2>3. t = [task[h] EXCEPT !.creates = c, !.cats = cats, !.had = b, !.kind = kind,
                            !.pc = step]
    <3> HIDE DEF had, new, kind, step
    <3>1. QED
      BY <2>2, Zenon
  <2> HIDE DEF had, new, kind, step, t
  <2>4. /\ t \in Task /\ t.arg = task[h].arg /\ t.cats = cats /\ t.had = b
        /\ t.kind = kind /\ t.pc = step
    BY <1>2, <1>3, <2>1, <2>3 DEF Task
  <2>5. QED
    BY <2>2, <2>4, Zenon
<1>6. task' \in [Tasks -> Task] /\ Others(h) /\ task'[h] = t
  <2> HIDE DEF t
  <2>1. QED
    BY <1>4, <1>5 DEF Others, Typed
<1>7. /\ task'[h].arg = task[h].arg /\ task'[h].cats = cats /\ task'[h].had = had
      /\ task'[h].kind = kind /\ task'[h].pc = step
  <2> HIDE DEF t, had, kind, step
  <2>1. QED
    BY <1>5, <1>6
<1>8. QED
  BY <1>4, <1>6, <1>7

\* Where Throttle sends an update that has a handler.
LEMMA FirstFacts ==
  ASSUME Typed, NEW h \in Tasks, NEW s, s = First(task[h]), s # "idle"
  PROVE  /\ s \in {"reply", "commit", "open"}
         /\ task[h].kind = "text" => task[h].raw /\ s \in {"reply", "open"}
         /\ task[h].kind = "text" /\ s = "open" => task[h].arg \notin Refusals
         /\ task[h].kind = "prompt" => s = "reply"
         /\ s = "commit" => task[h].kind \in {"drop", "erase"}
  BY DEF First, Typed, Task

LEMMA ThrottleFacts ==
  ASSUME Typed, NEW h \in Tasks, Throttle(h)
  PROVE  /\ task' \in [Tasks -> Task] /\ Others(h) /\ Fits(task'[h])
         /\ task[h].pc = "throttle" /\ throttled'
         /\ \/ /\ Admits /\ Keeps(h) /\ task'[h].pc = First(task[h]) /\ First(task[h]) # "idle"
               /\ waiting' = (waiting \/ task[h].kind = "prompt")
               /\ credit' = IF task[h].kind = "prompt" THEN 1 ELSE credit
            \/ /\ task'[h] = Idle /\ task'[h].pc = "idle" /\ task'[h].kind = "view"
               /\ UNCHANGED <<waiting, credit>>
<1>1. task[h].pc = "throttle" /\ throttled' /\ task \in [Tasks -> Task]
  BY DEF Throttle, At, Typed
<1>2. CASE Admits /\ First(task[h]) # "idle"
  <2>1. PICK s : s = First(task[h])
    OBVIOUS
  <2>2. /\ Goto(h, s) /\ waiting' = (waiting \/ task[h].kind = "prompt")
        /\ credit' = IF task[h].kind = "prompt" THEN 1 ELSE credit
    BY <1>2, <2>1 DEF Throttle
  <2>3. /\ s \in {"reply", "commit", "open"} /\ s # "idle"
        /\ task[h].kind = "text" /\ s = "open" => task[h].arg \notin Refusals
        /\ s = "commit" => task[h].kind \in {"drop", "erase"}
    BY <1>2, <2>1, FirstFacts
  <2>4. s \in PCs
    BY <2>3 DEF PCs
  <2>5. task' \in [Tasks -> Task] /\ Others(h) /\ Keeps(h) /\ task'[h].pc = s
    BY <1>1, <2>2, <2>4, GotoFacts
  <2>6. Fits(task'[h])
    BY <2>3, <2>5 DEF Fits, Keeps, Typed
  <2>7. QED
    BY <1>1, <1>2, <2>1, <2>2, <2>5, <2>6
<1>3. CASE ~(Admits /\ First(task[h]) # "idle")
  <2>1. Ends(h) /\ UNCHANGED <<waiting, credit>>
    BY <1>3 DEF Throttle
  <2>2. QED
    BY <1>1, <2>1, EndsFacts, IdleIsTask
<1>4. QED
  BY <1>2, <1>3

\* One task has moved: the others fit as they did.
LEMMA MovedFits ==
  ASSUME Typed, NEW h \in Tasks, task' \in [Tasks -> Task], Others(h), Fits(task'[h])
  PROVE  \A k \in Tasks : Fits(task'[k])
  BY DEF Others, Typed

\* Every commit moves its task on, and only its task.
LEMMA CommitFacts ==
  ASSUME Typed, NEW h \in Tasks,
         CommitCategory(h) \/ CommitLocation(h) \/ CommitMute(h) \/ CommitPhrase(h)
           \/ CommitDrop(h) \/ Vanished(h) \/ Erase(h)
  PROVE  /\ task' \in [Tasks -> Task] /\ Others(h) /\ Fits(task'[h])
         /\ task[h].pc = "commit" /\ task'[h].pc \in {"reply", "key", "open", "idle"}
         /\ task'[h].kind = "text" => /\ CommitPhrase(h) /\ task'[h].pc = "reply"
                                      /\ task'[h].arg = task[h].arg
         /\ task'[h].pc = "key" => /\ CommitMute(h) \/ Erase(h)
                                   /\ task'[h].kind = task[h].kind
                                   /\ task'[h].arg = task[h].arg
<1>1. task \in [Tasks -> Task] /\ task[h].pc = "commit" /\ Fits(task[h])
  BY DEF CommitCategory, CommitLocation, CommitMute, CommitPhrase, CommitDrop, Vanished,
         Erase, Commits, At, Typed
<1>2. CASE CommitCategory(h) \/ CommitLocation(h)
  <2>1. Committed(h, "reply") /\ task[h].kind \in {"category", "location"}
    BY <1>2 DEF CommitCategory, CommitLocation, Commits
  <2>2. QED
    BY <1>1, <2>1, CommittedFacts DEF Keeps, Fits, PCs
<1>3. CASE CommitMute(h)
  <2>1. Committed(h, "key") /\ task[h].kind = "mute"
    BY <1>3 DEF CommitMute, Commits
  <2>2. QED
    BY <1>1, <1>3, <2>1, CommittedFacts DEF Keeps, Fits, PCs
<1>4. CASE CommitPhrase(h)
  <2>1. task[h].kind = "text"
    BY <1>4 DEF CommitPhrase, Commits
  <2>2. CASE Committed(h, "reply")
    BY <1>1, <1>4, <2>1, <2>2, CommittedFacts DEF Keeps, Fits, PCs
  <2>3. CASE task' = [task EXCEPT ![h].kind = "refused", ![h].pc = "reply"]
    <3>1. /\ task' \in [Tasks -> Task] /\ Others(h)
          /\ task'[h].kind = "refused" /\ task'[h].pc = "reply"
      BY <1>1, <2>3 DEF Task, Others, Kinds, PCs
    <3>2. QED
      BY <1>1, <3>1 DEF Fits
  <2>4. QED
    BY <1>4, <2>2, <2>3 DEF CommitPhrase
<1>5. CASE CommitDrop(h)
  <2>1. task' = [task EXCEPT ![h].kind = "view", ![h].pc = "open"]
    BY <1>5 DEF CommitDrop
  <2>2. /\ task' \in [Tasks -> Task] /\ Others(h)
        /\ task'[h].kind = "view" /\ task'[h].pc = "open"
    BY <1>1, <2>1 DEF Task, Others, Kinds, PCs
  <2>3. QED
    BY <1>1, <2>2 DEF Fits
<1>6. CASE Vanished(h)
  BY <1>1, <1>6, EndsFacts, IdleIsTask DEF Vanished
<1>7. CASE Erase(h)
  <2>1. Goto(h, "key") /\ task[h].kind = "erase"
    BY <1>7 DEF Erase
  <2>2. QED
    BY <1>1, <1>7, <2>1, GotoFacts DEF Keeps, Fits, PCs
<1>8. QED
  BY <1>2, <1>3, <1>4, <1>5, <1>6, <1>7

\* After the commit a task ends, answers or closes its transaction.
LEMMA AfterFacts ==
  ASSUME Typed, NEW h \in Tasks, WriteKey(h) \/ Reply(h) \/ Close(h) \/ KeyFails(h) \/ Fail(h)
  PROVE  /\ task' \in [Tasks -> Task] /\ Others(h) /\ Fits(task'[h])
         /\ task[h].pc # "idle"
         /\ \/ task'[h] = Idle /\ task'[h].pc = "idle"
            \/ Keeps(h) /\ task[h].pc = "key" /\ task'[h].pc = "reply"
            \/ Keeps(h) /\ task[h].pc = "reply" /\ task'[h].pc = "close"
<1>1. task \in [Tasks -> Task] /\ Fits(task[h]) /\ task[h].pc # "idle"
  BY DEF WriteKey, Reply, Close, KeyFails, Fail, At, Typed
<1>2. \/ Ends(h)
      \/ Goto(h, "reply") /\ task[h].pc = "key"
      \/ Goto(h, "close") /\ task[h].pc = "reply"
  BY DEF WriteKey, Reply, Close, KeyFails, Fail, At
<1>3. QED
  BY <1>1, <1>2, EndsFacts, GotoFacts, IdleIsTask DEF Keeps, Fits, PCs

-----------------------------------------------------------------------------
(* The types.                                                              *)

LEMMA InitTyped == Init => Typed
<1> SUFFICES ASSUME Init PROVE Typed
  OBVIOUS
<1>1. task \in [Tasks -> Task] /\ \A h \in Tasks : Fits(task[h])
  BY IdleIsTask DEF Init
<1>2. TypeOK
  <2>1. \A h \in Tasks : task[h].pc \in PCs /\ task[h].cats \subseteq Categories
    BY <1>1 DEF Task
  <2>2. /\ 0 \in 0..MaxUpdates /\ 0 \in 0..MaxSlow /\ 0 \in 0..MaxFaults /\ 0 \in -1..1
        /\ "off" \in Mutes
    BY DEF Mutes
  <2>3. /\ registered = FALSE /\ cats = Categories /\ rows = {} /\ phrases = {}
        /\ muted = "off" /\ muteKey = "off" /\ throttled = FALSE /\ waiting = FALSE
        /\ wantCats = Categories /\ wantRows = {} /\ raced = {} /\ credit = 0
        /\ updates = 0 /\ slow = 0 /\ faults = 0
    BY DEF Init
  <2>4. QED
    BY <2>1, <2>2, <2>3 DEF TypeOK
<1>3. QED
  BY <1>1, <1>2 DEF Typed

LEMMA TypedTask ==
  ASSUME task' \in [Tasks -> Task]
  PROVE  \A h \in Tasks : task'[h].pc \in PCs /\ task'[h].cats \subseteq Categories
  BY DEF Task

\* Every step of a task keeps the types.
LEMMA TypedHandle ==
  ASSUME Typed, NEW h \in Tasks,
         (\E u \in Update : Arrive(h, u)) \/ Handle(h) \/ KeyFails(h) \/ Fail(h)
  PROVE  Typed'
<1> USE DEF profile, history, Bounds
<1>0. /\ TypeOK /\ task[h] \in Task /\ Fits(task[h])
      /\ task[h].cats \subseteq Categories
  BY DEF Typed, Task
<1>1. ASSUME NEW u \in Update, Arrive(h, u) PROVE Typed'
  <2>1. task' \in [Tasks -> Task] /\ Others(h) /\ Fits(task'[h])
    BY <1>1, ArriveFacts
  <2>2. TypeOK'
    <3>1. \A k \in Tasks : task'[k].pc \in PCs /\ task'[k].cats \subseteq Categories
      BY <2>1, TypedTask
    <3>2. updates' \in 0..MaxUpdates
      <4>1. updates < MaxUpdates /\ updates' = updates + 1
        BY <1>1 DEF Arrive
      <4>2. QED
        BY <1>0, <4>1 DEF TypeOK
    <3>3. UNCHANGED <<profile, muteKey, throttled, waiting, history, slow, faults>>
      BY <1>1 DEF Arrive
    <3>4. QED
      BY <1>0, <3>1, <3>2, <3>3 DEF TypeOK
  <2>3. QED
    BY <2>1, <2>2, MovedFits DEF Typed
<1>2. CASE Throttle(h)
  <2>1. credit' \in -1..1 /\ throttled' = TRUE
    BY <1>0, <1>2 DEF Throttle, TypeOK
  <2>4. waiting' \in BOOLEAN
    <3>1. waiting' = waiting \/ waiting' = (waiting \/ task[h].kind = "prompt")
      BY <1>2, ThrottleFacts
    <3>2. (task[h].kind = "prompt") \in BOOLEAN /\ waiting \in BOOLEAN
      BY <1>0 DEF TypeOK
    <3>3. QED
      BY <3>1, <3>2, Zenon
  <2>2. TypeOK'
    BY <1>0, <1>2, <2>1, <2>4, ThrottleFacts, TypedTask DEF Throttle, TypeOK
  <2>3. QED
    BY <1>2, <2>2, ThrottleFacts, MovedFits DEF Typed
<1>3. CASE Open(h)
  <2>1. task' \in [Tasks -> Task] /\ Fits(task'[h])
    BY <1>0, <1>3, OpenFacts DEF Fits, At
  <2>2. TypeOK'
    BY <1>0, <1>3, <2>1, TypedTask DEF Open, TypeOK
  <2>3. QED
    BY <1>3, <2>1, <2>2, OpenFacts, MovedFits DEF Typed
<1>4. CASE CommitCategory(h)
  <2>1. task[h].arg \in Categories
    BY <1>0, <1>4 DEF CommitCategory, Commits, Fits
  <2>2. cats' \subseteq Categories /\ wantCats' \subseteq Categories /\ registered' = TRUE
    BY <1>0, <1>4, <2>1 DEF CommitCategory, Commits, Flip, TypeOK
  <2>3. TypeOK'
    BY <1>0, <1>4, <2>2, CommitFacts, TypedTask DEF CommitCategory, TypeOK
  <2>4. QED
    BY <1>4, <2>3, CommitFacts, MovedFits DEF Typed
<1>5. CASE CommitLocation(h)
  <2>1. task[h].arg \in Locations
    BY <1>0, <1>5 DEF CommitLocation, Commits, Fits
  <2>2. /\ rows' \subseteq Locations /\ wantRows' \subseteq Locations
        /\ raced' \subseteq Locations /\ registered' = TRUE
    BY <1>0, <1>5, <2>1 DEF CommitLocation, Commits, Flip, Toggled, TypeOK
  <2>3. TypeOK'
    BY <1>0, <1>5, <2>2, CommitFacts, TypedTask DEF CommitLocation, TypeOK
  <2>4. QED
    BY <1>5, <2>3, CommitFacts, MovedFits DEF Typed
<1>6. CASE CommitMute(h)
  <2>1. task[h].arg \in Mutes
    BY <1>0, <1>6 DEF CommitMute, Commits, Fits
  <2>2. muted' \in Mutes /\ registered' = TRUE
    BY <1>0, <1>6, <2>1 DEF CommitMute, Commits, TypeOK, Mutes
  <2>3. TypeOK'
    BY <1>0, <1>6, <2>2, CommitFacts, TypedTask DEF CommitMute, TypeOK
  <2>4. QED
    BY <1>6, <2>3, CommitFacts, MovedFits DEF Typed
<1>7. CASE CommitPhrase(h)
  <2>1. task[h].arg \in Phrases
    BY <1>0, <1>7 DEF CommitPhrase, Commits, Fits, At
  <2>2. phrases' \subseteq Phrases /\ credit' \in -1..1 /\ registered' = TRUE
    BY <1>0, <1>7, <2>1 DEF CommitPhrase, Commits, TypeOK
  <2>3. TypeOK'
    BY <1>0, <1>7, <2>2, CommitFacts, TypedTask DEF CommitPhrase, TypeOK
  <2>4. QED
    BY <1>7, <2>3, CommitFacts, MovedFits DEF Typed
<1>8. CASE CommitDrop(h)
  <2>1. phrases' \subseteq Phrases /\ registered' = TRUE
    BY <1>0, <1>8 DEF CommitDrop, Commits, TypeOK
  <2>2. TypeOK'
    BY <1>0, <1>8, <2>1, CommitFacts, TypedTask DEF CommitDrop, TypeOK
  <2>3. QED
    BY <1>8, <2>2, CommitFacts, MovedFits DEF Typed
<1>9. CASE Vanished(h)
  BY <1>0, <1>9, CommitFacts, MovedFits, TypedTask DEF Vanished, Typed, TypeOK
<1>10. CASE Erase(h)
  <2>1. TypeOK'
    BY <1>0, <1>10, CommitFacts, TypedTask DEF Erase, TypeOK, Mutes
  <2>2. QED
    BY <1>10, <2>1, CommitFacts, MovedFits DEF Typed
<1>11. CASE WriteKey(h)
  <2>1. muteKey' \in Mutes
    BY <1>0, <1>11 DEF WriteKey, KeyFor, Fits, At, Mutes
  <2>2. TypeOK'
    BY <1>0, <1>11, <2>1, AfterFacts, TypedTask DEF WriteKey, TypeOK
  <2>3. QED
    BY <1>11, <2>2, AfterFacts, MovedFits DEF Typed
<1>12. CASE Reply(h) \/ Close(h)
  <2>1. waiting' \in BOOLEAN /\ registered' \in BOOLEAN /\ (registered => registered')
    BY <1>0, <1>12 DEF Reply, Close, TypeOK
  <2>2. UNCHANGED <<cats, rows, phrases, muted, muteKey, throttled, history, Bounds>>
    BY <1>12 DEF Reply, Close
  <2>3. TypeOK'
    BY <1>0, <1>12, <2>1, <2>2, AfterFacts, TypedTask DEF TypeOK
  <2>4. QED
    BY <1>12, <2>3, AfterFacts, MovedFits DEF Typed
<1>13. CASE KeyFails(h) \/ Fail(h)
  <2>1. /\ faults' \in 0..MaxFaults
        /\ UNCHANGED <<profile, muteKey, throttled, waiting, history, updates, slow>>
    BY <1>0, <1>13 DEF KeyFails, Fail, TypeOK
  <2>2. TypeOK'
    BY <1>0, <1>13, <2>1, AfterFacts, TypedTask DEF TypeOK
  <2>3. QED
    BY <1>13, <2>2, AfterFacts, MovedFits DEF Typed
<1>14. QED
  BY <1>1, <1>2, <1>3, <1>4, <1>5, <1>6, <1>7, <1>8, <1>9, <1>10, <1>11, <1>12, <1>13
  DEF Handle

LEMMA TypedStep == Typed /\ [Next]_vars => Typed'
<1> SUFFICES ASSUME Typed, [Next]_vars PROVE Typed'
  OBVIOUS
<1> USE DEF profile, history, Bounds
<1>1. CASE Restart
  <2>1. task' \in [Tasks -> Task] /\ \A h \in Tasks : Fits(task'[h])
    <3>1. task' \in [Tasks -> Task] /\ \A h \in Tasks : task'[h] = Idle
      BY <1>1, IdleIsTask DEF Restart
    <3>2. QED
      BY <3>1, IdleIsTask
  <2>2. TypeOK'
    <3>1. \A h \in Tasks : task'[h].pc \in PCs /\ task'[h].cats \subseteq Categories
      BY <2>1, TypedTask
    <3>2. faults' \in 0..MaxFaults /\ waiting' = FALSE
      BY <1>1 DEF Restart, Typed, TypeOK
    <3>3. UNCHANGED <<profile, muteKey, throttled, history, updates, slow>>
      BY <1>1 DEF Restart
    <3>4. QED
      BY <3>1, <3>2, <3>3 DEF Typed, TypeOK
  <2>3. QED
    BY <2>1, <2>2 DEF Typed
<1>2. CASE ThrottleExpires
  <2>1. slow' \in 0..MaxSlow
    BY <1>2 DEF ThrottleExpires, Typed, TypeOK
  <2>2. QED
    BY <1>2, <2>1 DEF ThrottleExpires, Typed, TypeOK
<1>3. CASE MuteEnds
  <2>1. muted' \in {muted, "off"} /\ muteKey' \in {muteKey, "off"}
    BY <1>3 DEF MuteEnds
  <2>2. UNCHANGED <<registered, cats, rows, phrases, throttled, waiting, task, history, Bounds>>
    BY <1>3 DEF MuteEnds
  <2>3. QED
    BY <2>1, <2>2 DEF Typed, TypeOK, Mutes
<1>4. CASE UNCHANGED vars
  BY <1>4 DEF vars, Typed, TypeOK
<1>5. QED
  BY <1>1, <1>2, <1>3, <1>4, TypedHandle DEF Next

-----------------------------------------------------------------------------
(* The tasks that the throttle lets through.                               *)

\* A step lets a task through, ends some, or takes the key from under them.
LEMMA ActiveSteps ==
  ASSUME Typed, [Next]_vars
  PROVE  \/ Active' \subseteq Active /\ UNCHANGED <<throttled, slow>>
         \/ Active' \subseteq Active /\ throttled' = TRUE /\ UNCHANGED slow
         \/ \E h \in Tasks : /\ Active' = Active \cup {h} /\ h \notin Active
                             /\ ~throttled /\ throttled' = TRUE /\ UNCHANGED slow
         \/ Active' = Active /\ ~throttled' /\ throttled /\ slow' = slow + 1
         \/ Active = {} /\ Active' = {} /\ ~throttled' /\ UNCHANGED slow
<1> USE DEF profile, history, Bounds
<1>1. ASSUME NEW h \in Tasks, NEW u \in Update, Arrive(h, u)
      PROVE  Active' \subseteq Active /\ UNCHANGED <<throttled, slow>>
  <2>1. /\ \A k \in Tasks \ {h} : task'[k] = task[k]
        /\ task'[h].pc = "throttle"
    BY <1>1, ArriveFacts DEF Others
  <2>2. UNCHANGED <<throttled, slow>>
    BY <1>1 DEF Arrive
  <2>3. QED
    BY <2>1, <2>2 DEF Active
<1>2. ASSUME NEW h \in Tasks, Throttle(h)
      PROVE  \/ Active' \subseteq Active /\ throttled' = TRUE /\ UNCHANGED slow
             \/ /\ Active' = Active \cup {h} /\ h \notin Active
                /\ ~throttled /\ throttled' = TRUE /\ UNCHANGED slow
  <2>1. /\ \A k \in Tasks \ {h} : task'[k] = task[k]
        /\ task[h].pc = "throttle" /\ throttled' = TRUE /\ UNCHANGED slow
    BY <1>2, ThrottleFacts DEF Others, Throttle
  <2>2. CASE task'[h].pc = "idle"
    BY <2>1, <2>2 DEF Active
  <2>3. CASE task'[h].pc # "idle"
    <3>1. ~throttled /\ task'[h].pc \in {"reply", "commit", "open"}
      BY <1>2, <2>3, ThrottleFacts, FirstFacts DEF Admits
    <3>2. QED
      BY <2>1, <3>1 DEF Active
  <2>4. QED
    BY <2>2, <2>3
<1>3. ASSUME NEW h \in Tasks, Open(h)
      PROVE  Active' \subseteq Active /\ UNCHANGED <<throttled, slow>>
  <2>1. (\A k \in Tasks \ {h} : task'[k] = task[k]) /\ task[h].pc = "open"
    BY <1>3, OpenFacts DEF Others, At
  <2>2. UNCHANGED <<throttled, slow>>
    BY <1>3 DEF Open
  <2>3. QED
    BY <2>1, <2>2 DEF Active
<1>4. ASSUME NEW h \in Tasks,
             CommitCategory(h) \/ CommitLocation(h) \/ CommitMute(h) \/ CommitPhrase(h)
               \/ CommitDrop(h) \/ Vanished(h) \/ Erase(h)
      PROVE  Active' \subseteq Active /\ UNCHANGED <<throttled, slow>>
  <2>1. (\A k \in Tasks \ {h} : task'[k] = task[k]) /\ task[h].pc = "commit"
    BY <1>4, CommitFacts DEF Others
  <2>2. UNCHANGED <<throttled, slow>>
    BY <1>4 DEF CommitCategory, CommitLocation, CommitMute, CommitPhrase, CommitDrop,
                Vanished, Erase
  <2>3. QED
    BY <2>1, <2>2 DEF Active
<1>5. ASSUME NEW h \in Tasks, WriteKey(h) \/ Reply(h) \/ Close(h) \/ KeyFails(h) \/ Fail(h)
      PROVE  Active' \subseteq Active /\ UNCHANGED <<throttled, slow>>
  <2>1. /\ \A k \in Tasks \ {h} : task'[k] = task[k]
        /\ task'[h].pc = "idle" \/ task[h].pc \in {"key", "reply"}
    BY <1>5, AfterFacts DEF Others
  <2>2. UNCHANGED <<throttled, slow>>
    BY <1>5 DEF WriteKey, Reply, Close, KeyFails, Fail
  <2>3. QED
    BY <2>1, <2>2 DEF Active
<1>6. CASE Restart
  <2>1. \A k \in Tasks : task'[k].pc = "idle"
    BY <1>6, IdleIsTask DEF Restart
  <2>2. UNCHANGED <<throttled, slow>>
    BY <1>6 DEF Restart
  <2>3. QED
    BY <2>1, <2>2 DEF Active
<1>7. CASE ThrottleExpires
  <2>1. Active' = Active /\ ~throttled' /\ throttled
    BY <1>7 DEF ThrottleExpires, Active
  <2>2. CASE Busy
    BY <1>7, <2>1, <2>2 DEF ThrottleExpires
  <2>3. CASE ~Busy
    <3>1. Active = {} /\ UNCHANGED slow
      BY <1>7, <2>3 DEF ThrottleExpires, Busy, Active
    <3>2. QED
      BY <2>1, <3>1
  <2>4. QED
    BY <2>2, <2>3
<1>8. CASE MuteEnds \/ UNCHANGED vars
  BY <1>8 DEF MuteEnds, vars, Active
<1>9. QED
  BY <1>1, <1>2, <1>3, <1>4, <1>5, <1>6, <1>7, <1>8 DEF Next, Handle

LEMMA AloneStep == Typed /\ Alone /\ [Next]_vars => Alone'
<1> SUFFICES ASSUME Typed, Alone, [Next]_vars, slow' = 0
             PROVE  \A h \in Active' : throttled' /\ \A k \in Active' : k = h
  BY DEF Alone
<1>1. slow \in Nat
  BY DEF Typed, TypeOK
<1>2. CASE Active' \subseteq Active /\ UNCHANGED <<throttled, slow>>
  BY <1>2 DEF Alone
<1>3. CASE Active' \subseteq Active /\ throttled' = TRUE /\ UNCHANGED slow
  BY <1>3 DEF Alone
<1>4. ASSUME NEW h \in Tasks, Active' = Active \cup {h}, ~throttled, throttled' = TRUE,
             UNCHANGED slow
      PROVE  \A g \in Active' : throttled' /\ \A k \in Active' : k = g
  <2>1. Active = {}
    BY <1>4 DEF Alone
  <2>2. QED
    BY <1>4, <2>1
<1>5. CASE slow' = slow + 1
  BY <1>1, <1>5
<1>6. QED
  BY <1>2, <1>3, <1>4, <1>5, ActiveSteps

LEMMA CountedStep == Typed /\ Counted /\ [Next]_vars => Counted'
<1> SUFFICES ASSUME Typed, Counted, [Next]_vars PROVE Counted'
  OBVIOUS
<1>1. slow \in Nat /\ IsFiniteSet(Active) /\ Cardinality(Active) \in Nat
  BY FS_CardinalityType DEF Typed, TypeOK, Counted
<1>2. CASE Active' \subseteq Active /\ (UNCHANGED throttled \/ throttled' = TRUE) /\ UNCHANGED slow
  <2>1. IsFiniteSet(Active') /\ Cardinality(Active') <= Cardinality(Active)
    BY <1>1, <1>2, FS_Subset
  <2>2. Cardinality(Active') \in Nat
    BY <2>1, FS_CardinalityType
  <2>3. QED
    BY <1>1, <1>2, <2>1, <2>2 DEF Counted
<1>3. ASSUME NEW h \in Tasks, Active' = Active \cup {h}, h \notin Active,
             ~throttled, throttled' = TRUE, UNCHANGED slow
      PROVE  Counted'
  <2>1. IsFiniteSet(Active') /\ Cardinality(Active') = Cardinality(Active) + 1
    BY <1>1, <1>3, FS_AddElement
  <2>2. QED
    BY <1>1, <1>3, <2>1 DEF Counted
<1>4. CASE Active' = Active /\ ~throttled' /\ throttled /\ slow' = slow + 1
  BY <1>1, <1>4 DEF Counted
<1>5. CASE Active' = {} /\ ~throttled' /\ UNCHANGED slow
  BY <1>1, <1>5, FS_EmptySet DEF Counted
<1>6. QED
  BY <1>2, <1>3, <1>4, <1>5, ActiveSteps

-----------------------------------------------------------------------------
(* Steps of a task that is alone.                                          *)

\* An update that outlives its throttle key, or a failure, is not taken back.
LEMMA Monotone ==
  ASSUME Typed, [Next]_vars
  PROVE  (slow' = 0 => slow = 0) /\ (faults' = 0 => faults = 0)
<1>1. slow \in Nat /\ faults \in Nat
  BY DEF Typed, TypeOK
<1>2. slow' = slow \/ slow' = slow + 1
  BY ActiveSteps
<1>3. faults' = faults \/ faults' = faults + 1
  BY DEF Next, Handle, Arrive, Throttle, Open, CommitCategory, CommitLocation, CommitMute,
         CommitPhrase, CommitDrop, Vanished, Erase, WriteKey, KeyFails, Reply, Close, Fail,
         Restart, ThrottleExpires, MuteEnds, vars, Bounds
<1>4. QED
  BY <1>1, <1>2, <1>3

\* The task at work is the only one, and the key still stands for it.
LEMMA OnlyOne ==
  ASSUME Typed, Alone, slow = 0, NEW h \in Tasks, task[h].pc \notin {"idle", "throttle"}
  PROVE  throttled /\ \A k \in Tasks \ {h} : task[k].pc \in {"idle", "throttle"}
  BY DEF Alone, Active

-----------------------------------------------------------------------------
(* Nothing tapped is undone.                                               *)

Toggles == <<cats, rows, wantCats, wantRows, raced>>

\* Steps that read and write no setting but the mute.
LEMMA FreshKept ==
  ASSUME Typed, Fresh, slow' = 0 => slow = 0, UNCHANGED Toggles,
         muted' = muted \/ muted' = "off",
         \A k \in Tasks : \/ task'[k] = task[k]
                          \/ task'[k].pc # "commit"
                          \/ task'[k].kind \in {"drop", "erase"}
  PROVE  Fresh'
  BY DEF Fresh, At, Toggles

LEMMA TogglesKept ==
  ASSUME TogglesAreKept, slow' = 0 => slow = 0, UNCHANGED Toggles
  PROVE  TogglesAreKept'
  BY DEF TogglesAreKept, Toggles

\* The commit of the only task leaves nobody with an old reading.
LEMMA NobodyCommits ==
  ASSUME Typed, Alone, slow' = 0 => slow = 0, NEW h \in Tasks, task[h].pc = "commit",
         Others(h), task'[h].pc # "commit"
  PROVE  Fresh'
<1> SUFFICES ASSUME slow = 0, NEW k \in Tasks PROVE task'[k].pc # "commit"
  BY DEF Fresh, At
<1>1. CASE k = h
  BY <1>1
<1>2. CASE k # h
  BY <1>2, OnlyOne DEF Others
<1>3. QED
  BY <1>1, <1>2

LEMMA SettingsStep ==
  Typed /\ Alone /\ Fresh /\ TogglesAreKept /\ [Next]_vars => Fresh' /\ TogglesAreKept'
<1> SUFFICES ASSUME Typed, Alone, Fresh, TogglesAreKept, [Next]_vars
             PROVE  Fresh' /\ TogglesAreKept'
  OBVIOUS
<1> USE DEF profile, history, Bounds, Toggles
<1>0. slow' = 0 => slow = 0
  BY Monotone
<1>1. ASSUME NEW h \in Tasks, NEW u \in Update, Arrive(h, u)
      PROVE  Fresh' /\ TogglesAreKept'
  <2>1. UNCHANGED Toggles /\ muted' = muted
    BY <1>1 DEF Arrive
  <2>2. \A k \in Tasks : task'[k] = task[k] \/ task'[k].pc # "commit"
    BY <1>1, ArriveFacts DEF Others
  <2>3. QED
    BY <1>0, <2>1, <2>2, FreshKept, TogglesKept
<1>2. ASSUME NEW h \in Tasks, Throttle(h)
      PROVE  Fresh' /\ TogglesAreKept'
  <2>1. UNCHANGED Toggles /\ muted' = muted
    BY <1>2 DEF Throttle
  <2>2. (\A k \in Tasks \ {h} : task'[k] = task[k]) /\
        (task'[h].pc # "commit" \/ task'[h].kind \in {"drop", "erase"})
    BY <1>2, ThrottleFacts, FirstFacts DEF Others, Keeps
  <2>3. QED
    BY <1>0, <2>1, <2>2, FreshKept, TogglesKept
<1>3. ASSUME NEW h \in Tasks, Open(h)
      PROVE  Fresh' /\ TogglesAreKept'
  <2>1. UNCHANGED Toggles /\ muted' = muted
    BY <1>3 DEF Open
  <2>2. Fresh'
    <3>1. SUFFICES ASSUME slow = 0, NEW k \in Tasks, task'[k].pc = "commit"
                   PROVE  /\ task'[k].kind = "category" => task'[k].cats = cats
                          /\ task'[k].kind = "location"
                               => task'[k].had = (task'[k].arg \in rows)
                          /\ task'[k].kind = "mute" /\ task'[k].arg = "off" /\ task'[k].had
                               => muted = "off"
      BY <1>0, <2>1 DEF Fresh, At
    <3>2. k = h
      BY <1>3, <3>1, OpenFacts, OnlyOne DEF Others, At
    <3>3. QED
      BY <1>3, <3>1, <3>2, OpenFacts
  <2>3. QED
    BY <1>0, <2>1, <2>2, TogglesKept
<1>4. ASSUME NEW h \in Tasks, CommitCategory(h)
      PROVE  Fresh' /\ TogglesAreKept'
  <2>1. /\ cats' = Flip(task[h].cats, task[h].arg) /\ wantCats' = Flip(wantCats, task[h].arg)
        /\ UNCHANGED <<rows, wantRows, raced>> /\ At(h, "commit") /\ task[h].kind = "category"
    BY <1>4 DEF CommitCategory, Commits
  <2>2. slow = 0 => task[h].cats = wantCats
    BY <2>1 DEF Fresh, TogglesAreKept
  <2>3. TogglesAreKept'
    BY <1>0, <2>1, <2>2 DEF TogglesAreKept
  <2>4. QED
    BY <1>0, <1>4, <2>3, CommitFacts, NobodyCommits
<1>5. ASSUME NEW h \in Tasks, CommitLocation(h)
      PROVE  Fresh' /\ TogglesAreKept'
  <2>1. /\ rows' = Toggled(task[h]) /\ wantRows' = Flip(wantRows, task[h].arg)
        /\ raced' = IF task[h].had = (task[h].arg \in rows) THEN raced
                    ELSE raced \cup {task[h].arg}
        /\ UNCHANGED <<cats, wantCats>> /\ At(h, "commit") /\ task[h].kind = "location"
    BY <1>5 DEF CommitLocation, Commits
  <2>2. slow = 0 => task[h].had = (task[h].arg \in rows)
    BY <2>1 DEF Fresh
  <2>3. ASSUME NEW l \in Locations, l \notin raced'
        PROVE  l \in rows' <=> l \in wantRows'
    <3>1. l \notin raced /\ (l \in rows <=> l \in wantRows)
      BY <2>1, <2>3 DEF TogglesAreKept
    <3>2. CASE l # task[h].arg
      BY <2>1, <3>1, <3>2 DEF Toggled, Flip
    <3>3. CASE l = task[h].arg
      <4>1. task[h].had = (l \in rows)
        BY <2>1, <2>3, <3>3
      <4>2. QED
        BY <2>1, <3>1, <3>3, <4>1 DEF Toggled, Flip
    <3>4. QED
      BY <3>2, <3>3
  <2>4. slow' = 0 => cats' = wantCats' /\ raced' = {}
    BY <1>0, <2>1, <2>2 DEF TogglesAreKept
  <2>5. TogglesAreKept'
    BY <2>3, <2>4 DEF TogglesAreKept
  <2>6. QED
    BY <1>0, <1>5, <2>5, CommitFacts, NobodyCommits
<1>6. ASSUME NEW h \in Tasks, CommitMute(h) \/ CommitPhrase(h) \/ CommitDrop(h) \/ Vanished(h)
      PROVE  Fresh' /\ TogglesAreKept'
  <2>1. UNCHANGED Toggles
    BY <1>6 DEF CommitMute, CommitPhrase, CommitDrop, Vanished
  <2>2. QED
    BY <1>0, <1>6, <2>1, CommitFacts, NobodyCommits, TogglesKept
<1>7. ASSUME NEW h \in Tasks, Erase(h)
      PROVE  Fresh' /\ TogglesAreKept'
  <2>1. cats' = wantCats' /\ rows' = {} /\ wantRows' = {} /\ raced' = {}
    BY <1>7 DEF Erase
  <2>2. QED
    BY <1>0, <1>7, <2>1, CommitFacts, NobodyCommits DEF TogglesAreKept
<1>8. ASSUME NEW h \in Tasks, WriteKey(h) \/ Reply(h) \/ Close(h) \/ KeyFails(h) \/ Fail(h)
      PROVE  Fresh' /\ TogglesAreKept'
  <2>1. UNCHANGED Toggles /\ muted' = muted
    BY <1>8 DEF WriteKey, Reply, Close, KeyFails, Fail
  <2>2. \A k \in Tasks : task'[k] = task[k] \/ task'[k].pc # "commit"
    BY <1>8, AfterFacts DEF Others
  <2>3. QED
    BY <1>0, <2>1, <2>2, FreshKept, TogglesKept
<1>9. CASE Restart
  <2>1. UNCHANGED Toggles /\ muted' = muted
    BY <1>9 DEF Restart
  <2>2. \A k \in Tasks : task'[k].pc # "commit"
    BY <1>9, IdleIsTask DEF Restart
  <2>3. QED
    BY <1>0, <2>1, <2>2, FreshKept, TogglesKept
<1>10. CASE ThrottleExpires \/ MuteEnds \/ UNCHANGED vars
  <2>1. UNCHANGED Toggles /\ (muted' = muted \/ muted' = "off") /\ task' = task
    BY <1>10 DEF ThrottleExpires, MuteEnds, vars
  <2>2. QED
    BY <1>0, <2>1, FreshKept, TogglesKept
<1>11. QED
  BY <1>1, <1>2, <1>3, <1>4, <1>5, <1>6, <1>7, <1>8, <1>9, <1>10 DEF Next, Handle

-----------------------------------------------------------------------------
(* The limit of phrases.                                                   *)

\* Phrases are only added by a text that was counted, and counted below the limit.
LEMMA PhraseSteps ==
  ASSUME Typed, [Next]_vars
  PROVE  \/ Pending' \subseteq Pending /\ phrases' \subseteq phrases
         \/ \E h \in Tasks : /\ Pending' \subseteq Pending \cup {h} /\ phrases' = phrases
                             /\ ~LimitReached
         \/ \E h \in Pending, p \in Phrases : /\ Pending' \subseteq Pending \ {h}
                                              /\ phrases' = phrases \cup {p}
<1> USE DEF profile, history, Bounds, At
<1>1. ASSUME NEW h \in Tasks, NEW u \in Update, Arrive(h, u)
      PROVE  Pending' \subseteq Pending /\ phrases' = phrases
  <2>1. phrases' = phrases
    BY <1>1 DEF Arrive
  <2>2. \A k \in Tasks : task'[k] = task[k] \/ task'[k].pc # "commit"
    BY <1>1, ArriveFacts DEF Others
  <2>3. QED
    BY <2>1, <2>2 DEF Pending
<1>2. ASSUME NEW h \in Tasks, Throttle(h)
      PROVE  Pending' \subseteq Pending /\ phrases' = phrases
  <2>1. phrases' = phrases
    BY <1>2 DEF Throttle
  <2>2. \A k \in Tasks : \/ task'[k] = task[k] \/ task'[k].pc # "commit"
                         \/ task'[k].kind \in {"drop", "erase"}
    BY <1>2, ThrottleFacts, FirstFacts DEF Others, Keeps
  <2>3. QED
    BY <2>1, <2>2 DEF Pending
<1>3. ASSUME NEW h \in Tasks, Open(h)
      PROVE  \/ Pending' \subseteq Pending /\ phrases' = phrases
             \/ /\ Pending' \subseteq Pending \cup {h} /\ phrases' = phrases
                /\ ~LimitReached
  <2>1. phrases' = phrases
    BY <1>3 DEF Open
  <2>2. \A k \in Tasks \ {h} : task'[k] = task[k]
    BY <1>3, OpenFacts DEF Others
  <2>3. task'[h].kind = "text" => ~LimitReached
    BY <1>3, OpenFacts DEF Refused
  <2>4. QED
    BY <2>1, <2>2, <2>3 DEF Pending
<1>4. ASSUME NEW h \in Tasks,
             CommitCategory(h) \/ CommitLocation(h) \/ CommitMute(h) \/ CommitPhrase(h)
               \/ CommitDrop(h) \/ Vanished(h) \/ Erase(h)
      PROVE  \/ Pending' \subseteq Pending /\ phrases' \subseteq phrases
             \/ \E p \in Phrases : /\ h \in Pending /\ Pending' \subseteq Pending \ {h}
                                   /\ phrases' = phrases \cup {p}
  <2>1. /\ \A k \in Tasks \ {h} : task'[k] = task[k]
        /\ task[h].pc = "commit" /\ task'[h].pc # "commit"
    BY <1>4, CommitFacts DEF Others
  <2>2. Pending' \subseteq Pending \ {h}
    BY <2>1 DEF Pending
  <2>3. CASE CommitPhrase(h)
    <3>1. task[h].kind = "text" /\ task[h].arg \in Phrases
      BY <2>1, <2>3 DEF CommitPhrase, Commits, Typed, Fits
    <3>2. phrases' = phrases \/ phrases' = phrases \cup {task[h].arg}
      BY <2>3 DEF CommitPhrase
    <3>3. h \in Pending
      BY <2>1, <3>1 DEF Pending
    <3>4. QED
      BY <2>2, <3>1, <3>2, <3>3
  <2>4. CASE ~CommitPhrase(h)
    BY <1>4, <2>2, <2>4 DEF CommitCategory, CommitLocation, CommitMute, CommitDrop, Vanished,
                            Erase
  <2>5. QED
    BY <2>3, <2>4
<1>5. ASSUME NEW h \in Tasks, WriteKey(h) \/ Reply(h) \/ Close(h) \/ KeyFails(h) \/ Fail(h)
      PROVE  Pending' \subseteq Pending /\ phrases' = phrases
  <2>1. phrases' = phrases
    BY <1>5 DEF WriteKey, Reply, Close, KeyFails, Fail
  <2>2. \A k \in Tasks : task'[k] = task[k] \/ task'[k].pc # "commit"
    BY <1>5, AfterFacts DEF Others
  <2>3. QED
    BY <2>1, <2>2 DEF Pending
<1>6. CASE Restart
  <2>1. (\A k \in Tasks : task'[k].pc # "commit") /\ phrases' = phrases
    BY <1>6, IdleIsTask DEF Restart
  <2>2. QED
    BY <2>1 DEF Pending
<1>7. CASE ThrottleExpires \/ MuteEnds \/ UNCHANGED vars
  BY <1>7 DEF ThrottleExpires, MuteEnds, vars, Pending
<1>8. QED
  BY <1>1, <1>2, <1>3, <1>4, <1>5, <1>6, <1>7 DEF Next, Handle

LEMMA RoomStep == Typed /\ Counted /\ Room /\ [Next]_vars => Room'
<1> SUFFICES ASSUME Typed, Counted, Room, [Next]_vars PROVE Room'
  OBVIOUS
<1>1. /\ slow \in Nat /\ MaxCustom \in Nat /\ slow' \in Nat /\ slow' >= slow
  <2>1. slow \in Nat
    BY DEF Typed, TypeOK
  <2>2. slow' = slow \/ slow' = slow + 1
    BY ActiveSteps
  <2>3. QED
    BY <2>1, <2>2
<1>2. /\ IsFiniteSet(phrases) /\ IsFiniteSet(Pending)
      /\ Cardinality(phrases) \in Nat /\ Cardinality(Pending) \in Nat
      /\ Cardinality(phrases) + Cardinality(Pending) <= MaxCustom + slow
  BY FS_CardinalityType DEF Room
<1>3. CASE Pending' \subseteq Pending /\ phrases' \subseteq phrases
  <2>1. /\ IsFiniteSet(phrases') /\ IsFiniteSet(Pending')
        /\ Cardinality(phrases') <= Cardinality(phrases)
        /\ Cardinality(Pending') <= Cardinality(Pending)
    BY <1>2, <1>3, FS_Subset
  <2>2. Cardinality(phrases') \in Nat /\ Cardinality(Pending') \in Nat
    BY <2>1, FS_CardinalityType
  <2>3. QED
    BY <1>1, <1>2, <2>1, <2>2 DEF Room
<1>4. ASSUME NEW h \in Tasks, Pending' \subseteq Pending \cup {h}, phrases' = phrases,
             ~LimitReached
      PROVE  Room'
  <2>1. Counted'
    BY CountedStep
  <2>2. Pending' \subseteq Active'
    BY DEF Pending, Active, At
  <2>3. /\ IsFiniteSet(Active') /\ Cardinality(Active') \in Nat
        /\ Cardinality(Active') <= slow' + 1
    BY <1>1, <2>1, FS_CardinalityType DEF Counted
  <2>4. IsFiniteSet(Pending') /\ Cardinality(Pending') <= Cardinality(Active')
    BY <2>2, <2>3, FS_Subset
  <2>5. Cardinality(Pending') \in Nat
    BY <2>4, FS_CardinalityType
  <2>6. Cardinality(phrases) < MaxCustom
    BY <1>1, <1>2, <1>4 DEF LimitReached
  <2>7. QED
    BY <1>1, <1>2, <1>4, <2>3, <2>4, <2>5, <2>6 DEF Room
<1>5. ASSUME NEW h \in Pending, NEW p \in Phrases, Pending' \subseteq Pending \ {h},
             phrases' = phrases \cup {p}
      PROVE  Room'
  <2>1. /\ IsFiniteSet(Pending \ {h})
        /\ Cardinality(Pending \ {h}) = Cardinality(Pending) - 1
    BY <1>2, FS_RemoveElement
  <2>2. IsFiniteSet(Pending') /\ Cardinality(Pending') <= Cardinality(Pending \ {h})
    BY <1>5, <2>1, FS_Subset
  <2>3. /\ IsFiniteSet(phrases')
        /\ Cardinality(phrases') <= Cardinality(phrases) + 1
    <3>1. CASE p \in phrases
      <4>1. phrases' = phrases
        BY <1>5, <3>1
      <4>2. IsFiniteSet(phrases') /\ Cardinality(phrases') = Cardinality(phrases)
        BY <1>2, <4>1, Zenon
      <4>3. Cardinality(phrases) <= Cardinality(phrases) + 1
        BY <1>2, FS_CardinalityType
      <4>4. QED
        BY <4>2, <4>3, Zenon
    <3>2. CASE p \notin phrases
      <4>1. /\ IsFiniteSet(phrases \cup {p})
            /\ Cardinality(phrases \cup {p}) = Cardinality(phrases) + 1
        BY <1>2, <3>2, FS_AddElement
      <4>2. Cardinality(phrases \cup {p}) <= Cardinality(phrases) + 1
        BY <1>2, <4>1, FS_CardinalityType
      <4>3. QED
        BY <1>5, <4>1, <4>2, Zenon
    <3>3. QED
      BY <3>1, <3>2
  <2>4. Cardinality(phrases') \in Nat /\ Cardinality(Pending') \in Nat
    BY <2>2, <2>3, FS_CardinalityType
  <2>5. QED
    BY <1>1, <1>2, <2>1, <2>2, <2>3, <2>4 DEF Room
<1>6. QED
  BY <1>3, <1>4, <1>5, PhraseSteps

-----------------------------------------------------------------------------
(* A prompt admits one phrase.                                             *)

\* The task that has stored the phrase of the last prompt and is about to answer.
Answers(h) == At(h, "reply") /\ task[h].kind = "text" /\ task[h].arg \in Phrases

LEMMA PromptedStep == Typed /\ Alone /\ Prompted /\ [Next]_vars => Prompted'
<1> SUFFICES ASSUME Typed, Alone, Prompted, [Next]_vars, slow' = 0, faults' = 0
             PROVE  /\ credit' >= 0
                    /\ waiting' => credit' = 1 \/ \E h \in Tasks : Answers(h)'
                    /\ \A h \in Tasks :
                         /\ task'[h].kind = "text" /\ task'[h].pc \in {"open", "commit"}
                              => credit' = 1
                         /\ task'[h].pc = "throttle" /\ task'[h].raw /\ ~throttled'
                              => waiting'
  BY DEF Prompted, Answers, At
<1> USE DEF profile, history, Bounds, At
<1>0. slow = 0 /\ faults = 0 /\ faults \in Nat
  BY Monotone DEF Typed, TypeOK
<1>1. /\ credit >= 0 /\ credit \in -1..1
      /\ waiting => credit = 1 \/ \E h \in Tasks : Answers(h)
      /\ \A h \in Tasks :
           /\ task[h].kind = "text" /\ task[h].pc \in {"open", "commit"} => credit = 1
           /\ task[h].pc = "throttle" /\ task[h].raw /\ ~throttled => waiting
  BY <1>0 DEF Prompted, Answers, Typed, TypeOK
\* While a task is at work nobody else is, and the throttle holds.
<1>2. ASSUME NEW h \in Tasks, task[h].pc \notin {"idle", "throttle"}
      PROVE  throttled /\ \A k \in Tasks \ {h} : task[k].pc \in {"idle", "throttle"}
  BY <1>0, <1>2, OnlyOne
<1>3. ASSUME NEW h \in Tasks, NEW u \in Update, Arrive(h, u) PROVE Prompted'
  <2>1. /\ \A k \in Tasks \ {h} : task'[k] = task[k]
        /\ task[h].pc = "idle" /\ task'[h].pc = "throttle" /\ task'[h].raw = waiting
    BY <1>3, ArriveFacts DEF Others
  <2>2. UNCHANGED <<credit, waiting, throttled>>
    BY <1>3 DEF Arrive
  <2>3. \A k \in Tasks : Answers(k) => Answers(k)'
    BY <2>1 DEF Answers
  <2>4. QED
    BY <1>1, <2>1, <2>2, <2>3 DEF Prompted, Answers
<1>4. ASSUME NEW h \in Tasks, Throttle(h) PROVE Prompted'
  <2>1. /\ \A k \in Tasks \ {h} : task'[k] = task[k]
        /\ task[h].pc = "throttle" /\ throttled'
    BY <1>4, ThrottleFacts DEF Others
  <2>2. \A k \in Tasks : Answers(k) => Answers(k)'
    BY <2>1 DEF Answers
  <2>3. CASE task'[h].pc = "idle" /\ UNCHANGED <<waiting, credit>>
    BY <1>1, <2>1, <2>2, <2>3 DEF Prompted, Answers
  <2>4. CASE /\ Admits /\ Keeps(h) /\ task'[h].pc = First(task[h]) /\ First(task[h]) # "idle"
             /\ waiting' = (waiting \/ task[h].kind = "prompt")
             /\ credit' = IF task[h].kind = "prompt" THEN 1 ELSE credit
    <3>1. ~throttled /\ \A k \in Tasks : task[k].pc \in {"idle", "throttle"}
      BY <1>2, <2>4 DEF Admits
    <3>2. waiting => credit = 1
      BY <1>1, <3>1 DEF Answers
    <3>3. waiting' => credit' = 1
      BY <2>4, <3>2
    <3>4. task'[h].kind = "text" => credit' = 1
      <4>1. SUFFICES ASSUME task'[h].kind = "text" PROVE credit' = 1
        OBVIOUS
      <4>2. task[h].kind = "text" /\ task[h].raw
        BY <2>4, <4>1, FirstFacts DEF Keeps
      <4>3. waiting
        BY <1>1, <2>1, <3>1, <4>2
      <4>4. QED
        BY <2>4, <3>2, <4>2, <4>3
    <3>5. credit' >= 0
      BY <1>1, <2>4
    <3>6. \A k \in Tasks \ {h} : task'[k].pc \notin {"open", "commit"}
      BY <2>1, <3>1
    <3>7. QED
      BY <2>1, <3>3, <3>4, <3>5, <3>6 DEF Prompted, Answers
  <2>5. QED
    BY <1>4, <2>3, <2>4, ThrottleFacts
<1>5. ASSUME NEW h \in Tasks, Open(h) PROVE Prompted'
  <2>1. /\ \A k \in Tasks \ {h} : task'[k] = task[k]
        /\ task[h].pc = "open" /\ task'[h].pc \in {"reply", "commit"}
        /\ task'[h].kind = "text" => task[h].kind = "text"
    BY <1>5, OpenFacts DEF Others
  <2>2. UNCHANGED <<credit, waiting, throttled>>
    BY <1>5 DEF Open
  <2>3. \A k \in Tasks : Answers(k) => Answers(k)'
    BY <2>1 DEF Answers
  <2>4. QED
    BY <1>1, <2>1, <2>2, <2>3 DEF Prompted, Answers
<1>6. ASSUME NEW h \in Tasks, CommitPhrase(h) PROVE Prompted'
  <2>1. /\ \A k \in Tasks \ {h} : task'[k] = task[k]
        /\ task[h].pc = "commit" /\ task[h].kind = "text" /\ task[h].arg \in Phrases
        /\ task'[h].pc \in {"reply", "key", "open", "idle"}
        /\ task'[h].kind = "text" => task'[h].pc = "reply" /\ task'[h].arg = task[h].arg
    BY <1>6, CommitFacts DEF Others, CommitPhrase, Commits, Typed, Fits
  <2>2. credit = 1 /\ throttled /\ \A k \in Tasks \ {h} : task[k].pc \in {"idle", "throttle"}
    BY <1>1, <1>2, <2>1
  <2>3. UNCHANGED <<waiting, throttled>>
    BY <1>6 DEF CommitPhrase
  <2>4. CASE credit' = credit
    BY <2>1, <2>2, <2>3, <2>4 DEF Prompted, Answers
  <2>5. CASE credit' # credit
    <3>1. credit' = 0 /\ Committed(h, "reply")
      BY <1>6, <2>2, <2>5 DEF CommitPhrase
    <3>2. task'[h].kind = "text" /\ task'[h].pc = "reply" /\ task'[h].arg \in Phrases
      BY <2>1, <3>1, CommittedFacts DEF Keeps, Typed, PCs
    <3>3. QED
      BY <2>1, <2>2, <2>3, <3>1, <3>2 DEF Prompted, Answers
  <2>6. QED
    BY <2>4, <2>5
<1>7. ASSUME NEW h \in Tasks,
             CommitCategory(h) \/ CommitLocation(h) \/ CommitMute(h) \/ CommitDrop(h)
               \/ Vanished(h) \/ Erase(h)
      PROVE  Prompted'
  <2>1. /\ \A k \in Tasks \ {h} : task'[k] = task[k]
        /\ task[h].pc = "commit" /\ task'[h].pc \in {"reply", "key", "open", "idle"}
        /\ task'[h].kind = "text" => task'[h].pc = "reply"
    BY <1>7, CommitFacts DEF Others
  <2>2. UNCHANGED <<credit, waiting, throttled>>
    BY <1>7 DEF CommitCategory, CommitLocation, CommitMute, CommitDrop, Vanished, Erase
  <2>3. \A k \in Tasks : Answers(k) => Answers(k)'
    BY <2>1 DEF Answers
  <2>4. QED
    BY <1>1, <2>1, <2>2, <2>3 DEF Prompted, Answers
<1>8. ASSUME NEW h \in Tasks, Reply(h) PROVE Prompted'
  <2>1. /\ \A k \in Tasks \ {h} : task'[k] = task[k]
        /\ task[h].pc = "reply" /\ task'[h].pc \in {"idle", "close"}
    BY <1>8, AfterFacts DEF Others, Reply
  <2>2. /\ UNCHANGED <<credit, throttled>> /\ waiting' = (waiting /\ ~LeavesState(task[h]))
    BY <1>8 DEF Reply
  <2>3. throttled /\ \A k \in Tasks \ {h} : ~Answers(k)
    BY <1>2, <2>1 DEF Answers
  <2>4. waiting' => credit' = 1
    <3>1. SUFFICES ASSUME waiting' PROVE credit = 1
      BY <2>2
    <3>2. waiting /\ ~LeavesState(task[h])
      BY <2>2, <3>1
    <3>3. ~Answers(h)
      BY <3>2 DEF LeavesState, Answers, Refusals
    <3>4. QED
      BY <1>1, <2>3, <3>2, <3>3
  <2>5. QED
    BY <1>1, <2>1, <2>2, <2>3, <2>4 DEF Prompted, Answers
<1>9. ASSUME NEW h \in Tasks, WriteKey(h) \/ Close(h) PROVE Prompted'
  <2>1. /\ \A k \in Tasks \ {h} : task'[k] = task[k]
        /\ task[h].pc \in {"key", "close"} /\ task'[h].pc \in {"idle", "reply"}
    BY <1>9, AfterFacts DEF Others, WriteKey, Close
  <2>2. UNCHANGED <<credit, waiting, throttled>>
    BY <1>9 DEF WriteKey, Close
  <2>3. \A k \in Tasks : Answers(k) => Answers(k)'
    BY <2>1 DEF Answers
  <2>4. QED
    BY <1>1, <2>1, <2>2, <2>3 DEF Prompted, Answers
<1>10. ASSUME (\E h \in Tasks : KeyFails(h) \/ Fail(h)) \/ Restart PROVE FALSE
  BY <1>0, <1>10 DEF KeyFails, Fail, Restart
<1>11. ASSUME ThrottleExpires PROVE Prompted'
  <2>1. ~Busy /\ UNCHANGED <<credit, waiting, task>>
    BY <1>0, <1>11 DEF ThrottleExpires
  <2>2. \A k \in Tasks : task[k].pc = "idle"
    BY <2>1 DEF Busy
  <2>3. QED
    BY <1>1, <2>1, <2>2 DEF Prompted, Answers
<1>12. ASSUME MuteEnds \/ UNCHANGED vars PROVE Prompted'
  <2>1. UNCHANGED <<credit, waiting, throttled, task>>
    BY <1>12 DEF MuteEnds, vars
  <2>2. QED
    BY <1>1, <2>1 DEF Prompted, Answers
<1>13. ASSUME NEW h \in Tasks, Handle(h) PROVE Prompted'
  BY <1>4, <1>5, <1>6, <1>7, <1>8, <1>9, <1>13 DEF Handle
<1>14. Prompted'
  <2>1. CASE MuteEnds \/ UNCHANGED vars \/ ThrottleExpires
    BY <1>11, <1>12, <2>1
  <2>2. CASE \E h \in Tasks : (\E u \in Update : Arrive(h, u)) \/ Handle(h)
    BY <1>3, <1>13, <2>2
  <2>3. QED
    BY <1>10, <2>1, <2>2 DEF Next
<1>15. QED
  BY <1>14 DEF Prompted, Answers

-----------------------------------------------------------------------------
(* The mute in its two stores.                                             *)

LEMMA KeyedStep == Typed /\ Alone /\ Fresh /\ Keyed /\ [Next]_vars => Keyed'
<1> SUFFICES ASSUME Typed, Alone, Fresh, Keyed, [Next]_vars, slow' = 0, faults' = 0
             PROVE  /\ (\A h \in Tasks : task'[h].pc # "key") => muteKey' = muted'
                    /\ \A h \in Tasks : task'[h].pc = "key" => muted' = KeyFor(task'[h])
  BY DEF Keyed, At, KeyFor
<1> USE DEF profile, history, Bounds, At
<1>0. slow = 0 /\ faults = 0 /\ faults \in Nat
  BY Monotone DEF Typed, TypeOK
<1>1. /\ (\A h \in Tasks : task[h].pc # "key") => muteKey = muted
      /\ \A h \in Tasks : task[h].pc = "key" => muted = KeyFor(task[h])
  BY <1>0 DEF Keyed
<1>2. ASSUME NEW h \in Tasks, task[h].pc \notin {"idle", "throttle"}
      PROVE  \A k \in Tasks \ {h} : task[k].pc \in {"idle", "throttle"}
  BY <1>0, <1>2, OnlyOne
\* A step of a task that neither comes to the key nor leaves it.
<1>3. ASSUME NEW h \in Tasks, Others(h), task[h].pc # "key", task'[h].pc # "key",
             UNCHANGED <<muted, muteKey>>
      PROVE  Keyed'
  <2>1. \A k \in Tasks : \/ task'[k] = task[k]
                         \/ task[k].pc # "key" /\ task'[k].pc # "key"
    BY <1>3 DEF Others
  <2>2. \A k \in Tasks : task'[k].pc = "key" => muted' = KeyFor(task'[k])
    BY <1>1, <1>3, <2>1
  <2>3. (\A k \in Tasks : task'[k].pc # "key") => muteKey' = muted'
    BY <1>1, <1>3, <2>1
  <2>4. QED
    BY <2>2, <2>3 DEF Keyed, KeyFor
<1>4. ASSUME NEW h \in Tasks, NEW u \in Update, Arrive(h, u) PROVE Keyed'
  BY <1>3, <1>4, ArriveFacts DEF Arrive
<1>5. ASSUME NEW h \in Tasks, Throttle(h) PROVE Keyed'
  <2>1. task'[h].pc # "key" /\ task[h].pc # "key" /\ Others(h)
    BY <1>5, ThrottleFacts, FirstFacts
  <2>2. QED
    BY <1>3, <1>5, <2>1 DEF Throttle
<1>6. ASSUME NEW h \in Tasks, Open(h) PROVE Keyed'
  <2>1. task'[h].pc # "key" /\ task[h].pc # "key" /\ Others(h)
    BY <1>6, OpenFacts
  <2>2. QED
    BY <1>3, <1>6, <2>1 DEF Open
<1>7. ASSUME NEW h \in Tasks, CommitMute(h) \/ Erase(h) PROVE Keyed'
  <2>1. Others(h) /\ task[h].pc = "commit" /\ task'[h].pc \in {"key"}
    <3>1. Committed(h, "key") \/ Goto(h, "key")
      BY <1>7 DEF CommitMute, Erase
    <3>2. "key" \in PCs /\ task \in [Tasks -> Task]
      BY DEF PCs, Typed
    <3>3. QED
      BY <1>7, <3>1, <3>2, CommittedFacts, GotoFacts, CommitFacts
  <2>2. task'[h].kind = task[h].kind /\ task'[h].arg = task[h].arg
    BY <1>7, <2>1, CommitFacts
  <2>3. muted' = KeyFor(task'[h])
    <3>1. CASE CommitMute(h)
      <4>1. /\ task[h].kind = "mute"
            /\ muted' \in IF task[h].arg = "off" /\ task[h].had THEN {muted, "off"}
                          ELSE {task[h].arg}
        BY <3>1 DEF CommitMute, Commits
      <4>2. task[h].arg = "off" /\ task[h].had => muted = "off"
        BY <1>0, <2>1, <4>1 DEF Fresh
      <4>3. muted' = task[h].arg
        BY <4>1, <4>2
      <4>4. QED
        BY <2>2, <4>1, <4>3 DEF KeyFor
    <3>2. CASE Erase(h)
      BY <2>2, <3>2 DEF Erase, KeyFor
    <3>3. QED
      BY <1>7, <3>1, <3>2
  <2>4. \A k \in Tasks \ {h} : task'[k].pc # "key"
    BY <1>2, <2>1 DEF Others
  <2>5. QED
    BY <2>1, <2>3, <2>4 DEF Keyed, KeyFor
<1>8. ASSUME NEW h \in Tasks,
             CommitCategory(h) \/ CommitLocation(h) \/ CommitPhrase(h) \/ CommitDrop(h)
               \/ Vanished(h)
      PROVE  Keyed'
  <2>1. Others(h) /\ task[h].pc = "commit" /\ task'[h].pc # "key"
    <3>1. Others(h) /\ task[h].pc = "commit"
      BY <1>8, CommitFacts
    <3>2. \/ Committed(h, "reply") \/ Ends(h)
          \/ task' = [task EXCEPT ![h].kind = "refused", ![h].pc = "reply"]
          \/ task' = [task EXCEPT ![h].kind = "view", ![h].pc = "open"]
      BY <1>8 DEF CommitCategory, CommitLocation, CommitPhrase, CommitDrop, Vanished
    <3>3. "reply" \in PCs /\ task \in [Tasks -> Task]
      BY DEF PCs, Typed
    <3>4. task'[h].pc # "key"
      BY <3>2, <3>3, CommittedFacts, EndsFacts DEF Task
    <3>5. QED
      BY <3>1, <3>4
  <2>2. UNCHANGED <<muted, muteKey>>
    BY <1>8 DEF CommitCategory, CommitLocation, CommitPhrase, CommitDrop, Vanished
  <2>3. QED
    BY <1>3, <2>1, <2>2
<1>9. ASSUME NEW h \in Tasks, WriteKey(h) PROVE Keyed'
  <2>1. Others(h) /\ task[h].pc = "key" /\ task'[h].pc # "key"
    BY <1>9, AfterFacts DEF WriteKey
  <2>2. muteKey' = KeyFor(task[h]) /\ muted' = muted
    BY <1>9 DEF WriteKey
  <2>3. \A k \in Tasks : task'[k].pc # "key"
    BY <1>2, <2>1 DEF Others
  <2>4. QED
    BY <1>1, <2>1, <2>2, <2>3 DEF Keyed
<1>10. ASSUME NEW h \in Tasks, Reply(h) \/ Close(h) PROVE Keyed'
  <2>1. Others(h) /\ task[h].pc # "key" /\ task'[h].pc # "key"
    BY <1>10, AfterFacts DEF Reply, Close
  <2>2. UNCHANGED <<muted, muteKey>>
    BY <1>10 DEF Reply, Close
  <2>3. QED
    BY <1>3, <2>1, <2>2
<1>11. ASSUME (\E h \in Tasks : KeyFails(h) \/ Fail(h)) \/ Restart PROVE FALSE
  BY <1>0, <1>11 DEF KeyFails, Fail, Restart
<1>12. ASSUME ThrottleExpires \/ UNCHANGED vars PROVE Keyed'
  BY <1>1, <1>12 DEF ThrottleExpires, vars, Keyed, KeyFor
<1>13. ASSUME MuteEnds PROVE Keyed'
  <2>1. CASE /\ muted # "off" /\ \A h \in Tasks : ~At(h, "key")
             /\ muted' = "off" /\ muteKey' = IF muteKey = muted THEN "off" ELSE muteKey
             /\ task' = task
    BY <1>1, <2>1 DEF Keyed
  <2>2. CASE /\ muteKey \notin {"off", muted} /\ muteKey' = "off" /\ UNCHANGED <<profile, task>>
    BY <1>1, <2>2 DEF Keyed, KeyFor
  <2>3. QED
    BY <1>13, <2>1, <2>2 DEF MuteEnds
<1>14. ASSUME NEW h \in Tasks, Handle(h) PROVE Keyed'
  BY <1>5, <1>6, <1>7, <1>8, <1>9, <1>10, <1>14 DEF Handle
<1>15. Keyed'
  <2>1. CASE MuteEnds \/ UNCHANGED vars \/ ThrottleExpires
    BY <1>12, <1>13, <2>1
  <2>2. CASE \E h \in Tasks : (\E u \in Update : Arrive(h, u)) \/ Handle(h)
    BY <1>4, <1>14, <2>2
  <2>3. QED
    BY <1>11, <2>1, <2>2 DEF Next
<1>16. QED
  BY <1>15 DEF Keyed

-----------------------------------------------------------------------------
(* The theorems.                                                           *)

LEMMA InitIInv == Init => IInv
<1> SUFFICES ASSUME Init PROVE IInv
  OBVIOUS
<1>1. \A h \in Tasks : task[h].pc = "idle"
  BY IdleIsTask DEF Init
<1>2. Active = {} /\ Pending = {} /\ phrases = {}
  BY <1>1 DEF Active, Pending, At, Init
<1>3. /\ IsFiniteSet(Active) /\ Cardinality(Active) = 0
      /\ IsFiniteSet(Pending) /\ Cardinality(Pending) = 0
      /\ IsFiniteSet(phrases) /\ Cardinality(phrases) = 0
  BY <1>2, FS_EmptySet
<1>4. Counted /\ Room
  BY <1>3 DEF Counted, Room, Init
<1>5. Alone /\ Fresh /\ Prompted /\ Keyed
  BY <1>1, <1>2 DEF Alone, Fresh, Prompted, Keyed, Init, At
<1>6. TogglesAreKept
  BY DEF Init, TogglesAreKept
<1>7. QED
  BY <1>4, <1>5, <1>6, InitTyped DEF IInv

LEMMA StepIInv == IInv /\ [Next]_vars => IInv'
  BY TypedStep, AloneStep, SettingsStep, CountedStep, RoomStep, PromptedStep, KeyedStep
  DEF IInv

THEOREM Invariant == Spec => []IInv
  BY InitIInv, StepIInv, PTL DEF Spec

\* Rows, keys and tasks of a user keep their types, and nothing is committed without a
\* row of the user.
THEOREM TypeCorrect == Spec => []TypeOK
<1>1. IInv => TypeOK
  BY DEF IInv, Typed
<1>2. QED
  BY <1>1, Invariant, PTL

\* A toggle of a location is only lost to a toggle of the same location, and one of a
\* category only when an update outlived its throttle key.
THEOREM TogglesKeptAlways == Spec => []TogglesAreKept
<1>1. IInv => TogglesAreKept
  BY DEF IInv
<1>2. QED
  BY <1>1, Invariant, PTL

\* add_custom_trigger counts before it locks: each phrase beyond the limit is paid for
\* by an update that outlived its throttle key, for any number of tasks.
THEOREM LimitNeedsThrottle == Spec => []PhraseLimitNeedsThrottle
<1>1. IInv => PhraseLimitNeedsThrottle
  <2>1. SUFFICES ASSUME IInv PROVE Cardinality(phrases) <= MaxCustom + slow
    BY DEF PhraseLimitNeedsThrottle
  <2>2. Cardinality(phrases) \in Nat /\ Cardinality(Pending) \in Nat /\ slow \in Nat
    BY <2>1, FS_CardinalityType DEF IInv, Room, Typed, TypeOK
  <2>3. QED
    BY <2>1, <2>2 DEF IInv, Room
<1>2. QED
  BY <1>1, Invariant, PTL

\* One prompt, one phrase: while no update is slow and no call fails.
THEOREM OnePhrasePerPrompt == Spec => []PhrasesArePrompted
<1>1. IInv => PhrasesArePrompted
  BY DEF IInv, Prompted, PhrasesArePrompted
<1>2. QED
  BY <1>1, Invariant, PTL

\* Between updates the mute key in Redis and muted_until in the database agree, an
\* erasure included, while no update is slow and no call fails.
THEOREM StoresAgree == Spec => []MuteKeyFollowsProfile
<1>1. IInv => MuteKeyFollowsProfile
  BY DEF IInv, Keyed, MuteKeyFollowsProfile, Busy, At
<1>2. QED
  BY <1>1, Invariant, PTL
=============================================================================
