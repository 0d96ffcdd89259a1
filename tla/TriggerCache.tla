---------------------------- MODULE TriggerCache ----------------------------
(***************************************************************************)
(* Custom phrases on their way from the bot to the matcher of the worker:  *)
(* services/user_service.py writes the database and then a Redis set with  *)
(* a version (core_shared/trigger_cache.py), the worker reconciles the set *)
(* with the database once a minute (worker/main.py) and its source tasks   *)
(* match posts against a dictionary rebuilt when the version differs       *)
(* (worker/custom_matcher.py).                                             *)
(***************************************************************************)
EXTENDS Integers, FiniteSets

CONSTANTS
  Calls,        \* handler invocations of the bot that may overlap
  Users, Phrases,
  Reconcilers,  \* worker processes, one reconciliation loop each
  Matchings,    \* source tasks of one worker process, sharing its matcher
  UserLimit,    \* MAX_CUSTOM_TRIGGERS (5 in the code)
  GlobalLimit,  \* MAX_GLOBAL_CUSTOM_TRIGGERS (5000 in the code)
  None,
  MaxOps,       \* bound: handler invocations
  MaxFaults     \* bound: failed Redis or database calls and restarts

ASSUME TriggerAssumption ==
  /\ UserLimit \in Nat \ {0} /\ GlobalLimit \in Nat \ {0}
  /\ MaxOps \in Nat /\ MaxFaults \in Nat
  /\ None \notin Calls \cup Users \cup Phrases \cup Matchings
  /\ IsFiniteSet(Phrases) /\ IsFiniteSet(Users)

VARIABLES
  db,       \* user_triggers without the built-in locations
  advisory, \* holder of pg_advisory_xact_lock(1987763)
  cache,    \* global_custom_triggers
  version,  \* global_custom_triggers:version, 0 when absent
  call,     \* the handler invocations
  rec,      \* the reconciliation loops
  dict,     \* the matcher: its phrases and the version it was built for
  holder,   \* holder of the matcher's asyncio.Lock
  task,     \* the source tasks inside get_matches
  ops, faults

vars == <<db, advisory, cache, version, call, rec, dict, holder, task, ops, faults>>

CallPCs  == {"count", "lock", "admit", "insert", "sadd", "remove", "exists", "srem"}
NoCall   == [pc |-> "idle", user |-> None, phrase |-> None]
Call     == [pc : CallPCs, user : Users, phrase : Phrases] \cup {NoCall}
NoRecon  == [pc |-> "idle", version |-> 0, phrases |-> {}, base |-> {}]
NoMatch  == [pc |-> "idle", seen |-> 0]

Wanted == {d[2] : d \in db}
Of(u)  == {d[2] : d \in {e \in db : e[1] = u}}

\* The types of the table, the cache, the callers and the matcher.
TypeOK ==
  /\ db \subseteq Users \X Phrases
  /\ advisory \in Calls \cup {None}
  /\ cache \subseteq Phrases
  /\ version \in Nat
  /\ call \in [Calls -> Call]
  /\ \A c \in Calls : call[c].pc \in {"admit", "insert"} <=> advisory = c
  /\ rec \in [Reconcilers -> [pc : {"idle", "select", "write"}, version : Nat,
                              phrases : SUBSET Phrases, base : SUBSET Phrases]]
  /\ dict \in [loaded : BOOLEAN, version : Nat, phrases : SUBSET Phrases]
  /\ holder \in Matchings \cup {None}
  /\ task \in [Matchings -> [pc : {"idle", "lock", "load"}, seen : Nat]]
  /\ \A k \in Matchings : task[k].pc = "load" <=> holder = k
  /\ ops \in 0..MaxOps /\ faults \in 0..MaxFaults

Init ==
  /\ db = {} /\ advisory = None
  /\ cache = {} /\ version = 0
  /\ call = [c \in Calls |-> NoCall]
  /\ rec = [r \in Reconcilers |-> NoRecon]
  /\ dict = [loaded |-> FALSE, version |-> 0, phrases |-> {}]
  /\ holder = None
  /\ task = [k \in Matchings |-> NoMatch]
  /\ ops = 0 /\ faults = 0

-----------------------------------------------------------------------------
(* UserService.                                                            *)

At(c, pc) == call[c].pc = pc
Goto(c, pc) == call' = [call EXCEPT ![c].pc = pc]
Return(c) == call' = [call EXCEPT ![c] = NoCall]

Worker == <<rec, dict, holder, task>>

\* A handler is called: add_custom_trigger or delete_custom_trigger.
Called(c, u, p) ==
  /\ At(c, "idle") /\ ops < MaxOps
  /\ ops' = ops + 1
  /\ \E pc \in {"count", "remove"} :
        call' = [call EXCEPT ![c] = [pc |-> pc, user |-> u, phrase |-> p]]
  /\ UNCHANGED <<db, advisory, cache, version, Worker, faults>>

\* The user's own limit is checked first, outside the lock.
CountOwn(c) ==
  /\ At(c, "count")
  /\ IF Cardinality(Of(call[c].user)) >= UserLimit THEN Return(c) ELSE Goto(c, "lock")
  /\ UNCHANGED <<db, advisory, cache, version, Worker, ops, faults>>

\* Mutation: registrations of new phrases are not serialized.
MayAdmitAnyTime(c) == TRUE

\* pg_advisory_xact_lock waits until no other transaction holds the lock.
MayAdmit(c) == advisory = None

Lock(c) ==
  /\ At(c, "lock") /\ MayAdmit(c)
  /\ advisory' = c
  /\ Goto(c, "admit")
  /\ UNCHANGED <<db, cache, version, Worker, ops, faults>>

\* A phrase somebody uses already is admitted; a new one below the global limit.
\* The lock goes with the transaction.
Admit(c) ==
  /\ At(c, "admit")
  /\ IF call[c].phrase \in Wanted \/ Cardinality(Wanted) < GlobalLimit
     THEN Goto(c, "insert") /\ UNCHANGED advisory
     ELSE Return(c) /\ advisory' = None
  /\ UNCHANGED <<db, cache, version, Worker, ops, faults>>

\* INSERT .. ON CONFLICT DO NOTHING and COMMIT; only a new row updates the cache.
Insert(c) ==
  LET row == <<call[c].user, call[c].phrase>> IN
  /\ At(c, "insert")
  /\ IF row \in db THEN Return(c) ELSE Goto(c, "sadd")
  /\ db' = db \cup {row}
  /\ advisory' = None
  /\ UNCHANGED <<cache, version, Worker, ops, faults>>

\* delete_custom_trigger commits first and looks afterwards whether the phrase
\* is used by anybody else.
RemovePhrase(c) ==
  /\ At(c, "remove")
  /\ db' = db \ {<<call[c].user, call[c].phrase>>}
  /\ Goto(c, "exists")
  /\ UNCHANGED <<advisory, cache, version, Worker, ops, faults>>

StillUsed(c) ==
  /\ At(c, "exists")
  /\ IF call[c].phrase \in Wanted THEN Return(c) ELSE Goto(c, "srem")
  /\ UNCHANGED <<db, advisory, cache, version, Worker, ops, faults>>

\* Mutation: the script changes the set and leaves the version alone.
VersionKept(phrases) == version

\* A script that changes the set increments its version.
VersionAfter(phrases) == IF phrases = cache THEN version ELSE version + 1

\* UPDATE_TRIGGER_LUA.
UpdateCache(c) ==
  LET phrases == IF At(c, "sadd") THEN cache \cup {call[c].phrase}
                 ELSE cache \ {call[c].phrase} IN
  /\ call[c].pc \in {"sadd", "srem"}
  /\ cache' = phrases
  /\ version' = VersionAfter(phrases)
  /\ Return(c)
  /\ UNCHANGED <<db, advisory, Worker, ops, faults>>

\* A call fails or the bot restarts: an open transaction is rolled back, a cache
\* update that follows a commit is lost.
CallFails(c) ==
  /\ ~At(c, "idle") /\ faults < MaxFaults
  /\ faults' = faults + 1
  /\ advisory' = IF advisory = c THEN None ELSE advisory
  /\ Return(c)
  /\ UNCHANGED <<db, cache, version, Worker, ops>>

\* services/privacy.py deletes the rows of a user and leaves the cache alone.
DeleteUser(u) ==
  /\ ops < MaxOps /\ Of(u) # {}
  /\ ops' = ops + 1
  /\ db' = {d \in db : d[1] # u}
  /\ UNCHANGED <<advisory, cache, version, call, Worker, faults>>

-----------------------------------------------------------------------------
(* sync_global_custom_triggers.                                            *)

Bot == <<db, advisory, call, ops>>

\* base remembers the cache the version belongs to.
ReconcileBegins(r) ==
  /\ rec[r].pc = "idle"
  /\ rec' = [rec EXCEPT ![r] = [pc |-> "select", version |-> version,
                                phrases |-> {}, base |-> cache]]
  /\ UNCHANGED <<Bot, cache, version, dict, holder, task, faults>>

\* The loop gives up for now when the database holds too many phrases.
ReconcileSelects(r) ==
  /\ rec[r].pc = "select"
  /\ rec' = [rec EXCEPT ![r] =
       IF Cardinality(Wanted) > GlobalLimit THEN NoRecon
       ELSE [pc |-> "write", version |-> @.version, phrases |-> Wanted, base |-> @.base]]
  /\ UNCHANGED <<Bot, cache, version, dict, holder, task, faults>>

\* Mutation: the version is not compared.
MayReplaceAlways(r) == TRUE

\* Mutation: an absent version equals no expected version.
MayReplaceKnown(r) == rec[r].version = version /\ version # 0

\* The version is still the one that was read, or still absent.
MayReplace(r) == rec[r].version = version

\* RECONCILE_TRIGGERS_LUA.
ReconcileWrites(r) ==
  /\ rec[r].pc = "write"
  /\ IF MayReplace(r)
     THEN cache' = rec[r].phrases /\ version' = VersionAfter(rec[r].phrases)
     ELSE UNCHANGED <<cache, version>>
  /\ rec' = [rec EXCEPT ![r] = NoRecon]
  /\ UNCHANGED <<Bot, dict, holder, task, faults>>

ReconcileFails(r) ==
  /\ rec[r].pc # "idle" /\ faults < MaxFaults
  /\ faults' = faults + 1
  /\ rec' = [rec EXCEPT ![r] = NoRecon]
  /\ UNCHANGED <<Bot, cache, version, dict, holder, task>>

-----------------------------------------------------------------------------
(* CustomTriggerMatcher.get_matches.                                       *)

\* The version is read before the lock is taken.
ReadVersion(k) ==
  /\ task[k].pc = "idle"
  /\ task' = [task EXCEPT ![k] = [pc |-> "lock", seen |-> version]]
  /\ UNCHANGED <<Bot, cache, version, rec, dict, holder, faults>>

\* Under the lock: a dictionary of the version seen is used as it is.
Compare(k) ==
  /\ task[k].pc = "lock" /\ holder = None
  /\ IF dict.loaded /\ dict.version = task[k].seen
     THEN task' = [task EXCEPT ![k] = NoMatch] /\ UNCHANGED holder
     ELSE task' = [task EXCEPT ![k] = [pc |-> "load", seen |-> @.seen]] /\ holder' = k
  /\ UNCHANGED <<Bot, cache, version, rec, dict, faults>>

\* SMEMBERS, then the dictionary is built and stamped with the version seen.
Load(k) ==
  /\ task[k].pc = "load"
  /\ dict' = [loaded |-> TRUE, version |-> task[k].seen, phrases |-> cache]
  /\ holder' = None
  /\ task' = [task EXCEPT ![k] = NoMatch]
  /\ UNCHANGED <<Bot, cache, version, rec, faults>>

LoadFails(k) ==
  /\ task[k].pc = "load" /\ faults < MaxFaults
  /\ faults' = faults + 1
  /\ holder' = None
  /\ task' = [task EXCEPT ![k] = NoMatch]
  /\ UNCHANGED <<Bot, cache, version, rec, dict>>

-----------------------------------------------------------------------------

Serve(c) ==
  \/ CountOwn(c) \/ Lock(c) \/ Admit(c) \/ Insert(c)
  \/ RemovePhrase(c) \/ StillUsed(c) \/ UpdateCache(c)

Reconcile(r) == ReconcileBegins(r) \/ ReconcileSelects(r) \/ ReconcileWrites(r)

Next ==
  \/ \E c \in Calls : \/ \E u \in Users, p \in Phrases : Called(c, u, p)
                      \/ Serve(c) \/ CallFails(c)
  \/ \E u \in Users : DeleteUser(u)
  \/ \E r \in Reconcilers : Reconcile(r) \/ ReconcileFails(r)
  \/ \E k \in Matchings : ReadVersion(k) \/ Compare(k) \/ Load(k) \/ LoadFails(k)

Spec == Init /\ [][Next]_vars

\* Handlers end, and every worker repeats the reconciliation each minute.
FairSpec ==
  /\ Spec
  /\ \A c \in Calls : WF_vars(Serve(c))
  /\ \A r \in Reconcilers : WF_vars(Reconcile(r))

-----------------------------------------------------------------------------
(* Properties.                                                             *)

\* A dictionary that passes for current is current: when its version is the one
\* in Redis its phrases are those in Redis, although the version is read before
\* the phrases, outside the lock, and scripts run in between.
NoFalseFreshness ==
  dict.loaded /\ dict.version = version => dict.phrases = cache

\* The number of distinct phrases never exceeds the global limit, although it
\* is counted before the insertion and users add phrases concurrently.
GlobalLimitHolds == Cardinality(Wanted) <= GlobalLimit

\* Reconciliation never overwrites an update made while it read the database:
\* when it replaces the set, the set is still the one whose version it read.
ReconcileOverwritesNothing ==
  [][\A r \in Reconcilers :
       rec[r].pc = "write" /\ rec'[r].pc = "idle" /\ cache' # cache
         => cache = rec[r].base]_vars

\* "Periodic reconciliation will repair it": once users stop editing, the set in
\* Redis becomes the set in the database and stays so, whatever was lost.
CacheConverges == <>[](cache = Wanted)

\* docs/asvs_assurance.md: at most five custom phrases per user.
UserLimitHolds == \A u \in Users : Cardinality(Of(u)) <= UserLimit
=============================================================================
