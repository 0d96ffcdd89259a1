------------------------------- MODULE Profile -------------------------------
(***************************************************************************)
(* The settings of one user as the bot edits them: bot/handlers/settings.py*)
(* and services/user_service.py behind bot/middlewares/throttling.py.      *)
(*                                                                         *)
(* The dispatcher runs every update as a task of its own.  No lock orders  *)
(* the tasks of a user: only the throttle key, which lives for 0.5 s, keeps*)
(* a second update away while the first is handled.  A handler reads the   *)
(* profile, commits, then writes Redis and answers, each an await.         *)
(*                                                                         *)
(* Module Privacy details the fence, the lock and the purge of an erasure, *)
(* module TriggerCache the global cache of phrases.                        *)
(***************************************************************************)
EXTENDS Integers, FiniteSets

CONSTANTS
  Tasks,       \* tasks of the dispatcher that may handle this user at a time
  Categories,  \* threat categories (KR_POTVORY)
  Locations,   \* static location keys
  Phrases,     \* custom phrases the user may type
  MaxCustom,   \* MAX_CUSTOM_TRIGGERS
  MaxUpdates,  \* bound: updates of the user
  MaxSlow,     \* bound: throttle keys that expire under a running update
  MaxFaults    \* bound: failed calls and restarts of the bot

\* Texts that store_custom_user_keyword refuses before it calls the service.
Refusals == {"bad length", "built in"}

\* Lengths of a mute: none, ten minutes (ALERT_ACK), a preset.
Mutes == {"off", "ack", "preset"}

Update == [kind : {"view", "prompt", "erase"}, arg : {"-"}]
     \cup [kind : {"category"}, arg : Categories]
     \cup [kind : {"location"}, arg : Locations]
     \cup [kind : {"mute"}, arg : Mutes]
     \cup [kind : {"text"}, arg : Phrases \cup Refusals]
     \cup [kind : {"drop"}, arg : Phrases]

ASSUME ProfileAssumption ==
  /\ MaxCustom \in Nat /\ MaxUpdates \in Nat /\ MaxSlow \in Nat /\ MaxFaults \in Nat
  /\ Phrases \cap Refusals = {}

VARIABLES
  registered,  \* a row of user_settings exists
  cats,        \* its potvory; the default while there is no row
  rows,        \* the user's location keys in user_triggers
  phrases,     \* the user's custom phrases in user_triggers
  muted,       \* its muted_until, as the length that is still running
  muteKey,     \* user_mute:<id> in Redis
  throttled,   \* throttle:<id> in Redis
  waiting,     \* the FSM state is waiting_for_keyword (bot memory)
  task,        \* the tasks
  wantCats, wantRows, \* history: what the committed toggles add up to
  raced,       \* history: locations toggled from an outdated reading
  credit,      \* history: prompts answered minus phrases stored, at most 1
  updates, slow, faults

profile == <<registered, cats, rows, phrases, muted>>
history == <<wantCats, wantRows, raced, credit>>
vars == <<profile, muteKey, throttled, waiting, task, history, updates, slow, faults>>

PCs == {"idle", "throttle", "open", "commit", "key", "reply", "close"}

Idle == [pc |-> "idle", kind |-> "view", arg |-> "-", raw |-> FALSE,
         cats |-> {}, had |-> FALSE, creates |-> FALSE]

\* The types of the stores, and that the bot commits no settings without a row.
TypeOK ==
  /\ registered \in BOOLEAN
  /\ cats \subseteq Categories /\ rows \subseteq Locations /\ phrases \subseteq Phrases
  /\ muted \in Mutes /\ muteKey \in Mutes
  /\ ~registered => cats = Categories /\ rows = {} /\ phrases = {} /\ muted = "off"
  /\ throttled \in BOOLEAN /\ waiting \in BOOLEAN
  /\ \A h \in Tasks : task[h].pc \in PCs /\ task[h].cats \subseteq Categories
  /\ wantCats \subseteq Categories /\ wantRows \subseteq Locations
  /\ raced \subseteq Locations /\ credit \in -1..1
  /\ updates \in 0..MaxUpdates /\ slow \in 0..MaxSlow /\ faults \in 0..MaxFaults

Init ==
  /\ registered = FALSE /\ cats = Categories /\ rows = {} /\ phrases = {}
  /\ muted = "off" /\ muteKey = "off"
  /\ throttled = FALSE /\ waiting = FALSE
  /\ task = [h \in Tasks |-> Idle]
  /\ wantCats = Categories /\ wantRows = {} /\ raced = {} /\ credit = 0
  /\ updates = 0 /\ slow = 0 /\ faults = 0

-----------------------------------------------------------------------------
(* An update arrives and passes the middlewares.                           *)

At(h, pc) == task[h].pc = pc
Goto(h, pc) == task' = [task EXCEPT ![h].pc = pc]
Ends(h) == task' = [task EXCEPT ![h] = Idle]
Busy == \E h \in Tasks : task[h].pc # "idle"
Bounds == <<updates, slow, faults>>

\* The FSM middleware reads the state of the user before the throttle does.
Arrive(h, u) ==
  /\ At(h, "idle") /\ updates < MaxUpdates
  /\ updates' = updates + 1
  /\ task' = [task EXCEPT ![h] = [Idle EXCEPT !.pc = "throttle", !.kind = u.kind,
                                    !.arg = u.arg, !.raw = waiting]]
  /\ UNCHANGED <<profile, muteKey, throttled, waiting, history, slow, faults>>

\* Where the handler of an update begins: a text without a prompt has no handler.
First(t) ==
  IF t.kind = "text" /\ ~t.raw THEN "idle"
  ELSE IF t.arg \in Refusals \/ t.kind = "prompt" THEN "reply"
  ELSE IF t.kind \in {"drop", "erase"} THEN "commit" ELSE "open"

\* Mutation: the key is looked at and set, but its absence is no condition.
AdmitsAlways == TRUE

\* SET NX PX: only the update that creates the key is let through.
Admits == ~throttled

\* initiate_custom_trigger_prompt sets the FSM state before anything else.
Throttle(h) ==
  /\ At(h, "throttle")
  /\ throttled' = TRUE
  /\ IF Admits /\ First(task[h]) # "idle"
     THEN LET prompts == task[h].kind = "prompt" IN
          /\ Goto(h, First(task[h]))
          /\ waiting' = (waiting \/ prompts)
          /\ credit' = IF prompts THEN 1 ELSE credit
     ELSE Ends(h) /\ UNCHANGED <<waiting, credit>>
  /\ UNCHANGED <<profile, muteKey, wantCats, wantRows, raced, Bounds>>

-----------------------------------------------------------------------------
(* The handlers, from the first read of the profile to the commit.         *)

\* The count of phrases that add_custom_trigger takes before it locks.
LimitReached == Cardinality(phrases) >= MaxCustom

\* A phrase beyond the limit is refused on the count just read.
Refused(t) == t.kind = "text" /\ LimitReached

\* get_or_create_user.  The INSERT of one task makes that of another wait.
Open(h) ==
  LET t == task[h] IN
  /\ At(h, "open")
  /\ \A k \in Tasks : ~task[k].creates
  /\ task' = [task EXCEPT ![h] =
       [t EXCEPT !.creates = ~registered, !.cats = cats,
          !.had = IF t.kind = "mute" THEN t.arg = muted ELSE t.arg \in rows,
          !.kind = IF Refused(t) THEN "refused" ELSE t.kind,
          !.pc = IF t.kind = "view" \/ Refused(t) THEN "reply" ELSE "commit"]]
  /\ UNCHANGED <<profile, muteKey, throttled, waiting, history, Bounds>>

\* A commit of this kind is due, and there is a row to commit to.
Commits(h, kind) ==
  /\ At(h, "commit") /\ task[h].kind = kind
  /\ registered \/ task[h].creates
  /\ registered' = TRUE

Committed(h, pc) == task' = [task EXCEPT ![h].pc = pc, ![h].creates = FALSE]

Flip(S, x) == IF x \in S THEN S \ {x} ELSE S \cup {x}

\* toggle_threat_category writes the whole array it computed from its reading.
CommitCategory(h) ==
  /\ Commits(h, "category")
  /\ cats' = Flip(task[h].cats, task[h].arg)
  /\ wantCats' = Flip(wantCats, task[h].arg)
  /\ Committed(h, "reply")
  /\ UNCHANGED <<rows, phrases, muted, muteKey, throttled, waiting, wantRows, raced,
                 credit, Bounds>>

\* Mutation: the whole set of locations is written from the reading.
ToggledSet(t) == IF t.had THEN {} ELSE {t.arg}

\* toggle_location inserts or deletes one row.
Toggled(t) == IF t.had THEN rows \ {t.arg} ELSE rows \cup {t.arg}

CommitLocation(h) ==
  LET t == task[h] IN
  /\ Commits(h, "location")
  /\ rows' = Toggled(t)
  /\ wantRows' = Flip(wantRows, t.arg)
  /\ raced' = IF t.had = (t.arg \in rows) THEN raced ELSE raced \cup {t.arg}
  /\ Committed(h, "reply")
  /\ UNCHANGED <<cats, phrases, muted, muteKey, throttled, waiting, wantCats, credit,
                 Bounds>>

\* apply_mute_preset and acknowledge_alert.  A null read as a null is not written.
CommitMute(h) ==
  LET t == task[h] IN
  /\ Commits(h, "mute")
  /\ muted' \in IF t.arg = "off" /\ t.had THEN {muted, "off"} ELSE {t.arg}
  /\ Committed(h, "key")
  /\ UNCHANGED <<cats, rows, phrases, muteKey, throttled, waiting, history, Bounds>>

\* add_custom_trigger: INSERT ON CONFLICT DO NOTHING; a phrase that is there
\* already is refused.
CommitPhrase(h) ==
  /\ Commits(h, "text")
  /\ IF task[h].arg \in phrases
     THEN /\ task' = [task EXCEPT ![h].kind = "refused", ![h].pc = "reply"]
          /\ UNCHANGED <<phrases, credit>>
     ELSE /\ phrases' = phrases \cup {task[h].arg}
          /\ credit' = IF credit >= 0 THEN credit - 1 ELSE credit
          /\ Committed(h, "reply")
  /\ UNCHANGED <<cats, rows, muted, muteKey, throttled, waiting, wantCats, wantRows,
                 raced, Bounds>>

\* delete_custom_trigger, after which the profile is read again for the menu.
CommitDrop(h) ==
  /\ Commits(h, "drop")
  /\ phrases' = phrases \ {task[h].arg}
  /\ task' = [task EXCEPT ![h].kind = "view", ![h].pc = "open"]
  /\ UNCHANGED <<cats, rows, muted, muteKey, throttled, waiting, history, Bounds>>

\* No row is left to update: the statement or its foreign key fails.
Vanished(h) ==
  /\ At(h, "commit") /\ task[h].kind # "erase"
  /\ ~registered /\ ~task[h].creates
  /\ Ends(h)
  /\ UNCHANGED <<profile, muteKey, throttled, waiting, history, Bounds>>

\* DELETE FROM user_settings, whose triggers go with it.
Erase(h) ==
  /\ At(h, "commit") /\ task[h].kind = "erase"
  /\ registered' = FALSE /\ cats' = Categories /\ rows' = {} /\ phrases' = {}
  /\ muted' = "off"
  /\ wantCats' = Categories /\ wantRows' = {} /\ raced' = {}
  /\ Goto(h, "key")
  /\ UNCHANGED <<muteKey, throttled, waiting, credit, Bounds>>

-----------------------------------------------------------------------------
(* After the commit.                                                       *)

\* Mutation: removing a mute leaves the key to its TTL.
KeyNeverDeleted(t) ==
  IF t.kind = "erase" THEN "off" ELSE IF t.arg = "off" THEN muteKey ELSE t.arg

\* SET EX of the length just committed, or DEL.
KeyFor(t) == IF t.kind = "erase" THEN "off" ELSE t.arg

WriteKey(h) ==
  /\ At(h, "key")
  /\ muteKey' = KeyFor(task[h])
  /\ Goto(h, "reply")
  /\ UNCHANGED <<profile, throttled, waiting, history, Bounds>>

\* A RedisError is logged by the service; it makes an erasure fail.
KeyFails(h) ==
  /\ At(h, "key") /\ faults < MaxFaults
  /\ faults' = faults + 1
  /\ IF task[h].kind = "erase" THEN Ends(h) ELSE Goto(h, "reply")
  /\ UNCHANGED <<profile, muteKey, throttled, waiting, history, updates, slow>>

\* Mutation: the FSM state outlives the phrase it asked for.
LeavesStateAlways(t) == FALSE

\* state.clear() after the answer to a text, unless its length was wrong.
LeavesState(t) == t.kind \in {"text", "refused"} /\ t.arg # "bad length"

\* The answer.  What was only flushed is committed by DatabaseMiddleware later.
Reply(h) ==
  /\ At(h, "reply")
  /\ waiting' = (waiting /\ ~LeavesState(task[h]))
  /\ IF task[h].creates THEN Goto(h, "close") ELSE Ends(h)
  /\ UNCHANGED <<profile, muteKey, throttled, history, Bounds>>

Close(h) ==
  /\ At(h, "close")
  /\ registered' = TRUE
  /\ Ends(h)
  /\ UNCHANGED <<cats, rows, phrases, muted, muteKey, throttled, waiting, history,
                 Bounds>>

-----------------------------------------------------------------------------
(* Failures and time.                                                      *)

\* A database, Redis or Telegram call raises; what is not committed is rolled back.
Fail(h) ==
  /\ ~At(h, "idle") /\ ~At(h, "key") /\ faults < MaxFaults
  /\ faults' = faults + 1
  /\ Ends(h)
  /\ UNCHANGED <<profile, muteKey, throttled, waiting, history, updates, slow>>

\* The FSM storage is the memory of the bot.
Restart ==
  /\ faults < MaxFaults
  /\ faults' = faults + 1
  /\ task' = [h \in Tasks |-> Idle]
  /\ waiting' = FALSE
  /\ UNCHANGED <<profile, muteKey, throttled, history, updates, slow>>

\* The key lives 0.5 s.  It outlives every update that met it, or one is slow.
ThrottleExpires ==
  /\ throttled
  /\ throttled' = FALSE
  /\ IF Busy THEN slow < MaxSlow /\ slow' = slow + 1 ELSE UNCHANGED slow
  /\ UNCHANGED <<profile, muteKey, waiting, task, history, updates, faults>>

\* A mute ends, in both stores at a time if both hold the same one.  The shortest
\* lasts ten minutes and does not end between its commit and the write of its key.
MuteEnds ==
  \/ /\ muted # "off" /\ \A h \in Tasks : ~At(h, "key")
     /\ muted' = "off" /\ muteKey' = IF muteKey = muted THEN "off" ELSE muteKey
     /\ UNCHANGED <<registered, cats, rows, phrases, throttled, waiting, task, history,
                    Bounds>>
  \/ /\ muteKey \notin {"off", muted}
     /\ muteKey' = "off"
     /\ UNCHANGED <<profile, throttled, waiting, task, history, Bounds>>

Handle(h) ==
  \/ Throttle(h) \/ Open(h)
  \/ CommitCategory(h) \/ CommitLocation(h) \/ CommitMute(h) \/ CommitPhrase(h)
  \/ CommitDrop(h) \/ Vanished(h) \/ Erase(h)
  \/ WriteKey(h) \/ Reply(h) \/ Close(h)

Next ==
  \/ \E h \in Tasks : \/ \E u \in Update : Arrive(h, u)
                      \/ Handle(h) \/ KeyFails(h) \/ Fail(h)
  \/ Restart \/ ThrottleExpires \/ MuteEnds

Spec == Init /\ [][Next]_vars

-----------------------------------------------------------------------------
(* Properties.                                                             *)

\* Nothing the user tapped is undone by another tap.  Locations are rows of their
\* own: a toggle is only ever lost to a toggle of the same location.  The
\* categories are one array, rewritten from an earlier reading, and the throttle
\* alone protects them: a toggle is lost only if an update took longer than 0.5 s.
TogglesAreKept ==
  /\ \A l \in Locations \ raced : l \in rows <=> l \in wantRows
  /\ slow = 0 => cats = wantCats /\ raced = {}

\* The limit of phrases per user is checked before the advisory lock: every
\* phrase beyond it is paid for by an update that outlived its throttle key.
PhraseLimitNeedsThrottle == Cardinality(phrases) <= MaxCustom + slow

\* A prompt admits one phrase.  A second one is stored only after an answer or the
\* bot failed between the commit and state.clear(), or when two texts overlapped.
PhrasesArePrompted == slow = 0 /\ faults = 0 => credit >= 0

\* Once no update is in progress Redis and the database agree on the mute, also
\* after an erasure, unless a call failed or two updates overlapped.
MuteKeyFollowsProfile == ~Busy /\ slow = 0 /\ faults = 0 => muteKey = muted
=============================================================================
