---------------------------- MODULE SourceWorker ----------------------------
(***************************************************************************)
(* The source half of the worker service, worker/main.py: channel posts    *)
(* are read from the Redis stream, classified, and fanned out page by page *)
(* to the subscribed recipients before the entry is acknowledged.          *)
(*                                                                         *)
(* Every process runs two tasks on the same stream under one consumer      *)
(* name: "consume" (first the process's own pending entries, then new      *)
(* ones) and "recover" (XAUTOCLAIM of entries idle for 60 s).  Nothing     *)
(* renews an entry while it is processed, so an entry may be processed by  *)
(* several tasks at a time.  enqueue_alert, detailed in module Delivery,   *)
(* is one step here.                                                       *)
(***************************************************************************)
EXTENDS Integers, Sequences, FiniteSets, Functions

CONSTANTS
  Procs,       \* worker processes
  Msgs,        \* channel message ids; the later post has the larger id
  Body,        \* what the text processor and the phrase matcher find in each post
  Locations,   \* places of the dictionary that a post may name
  Users,       \* user ids
  Newcomers,   \* users who may not be subscribed at the beginning
  PageSize,    \* page_size of get_target_user_ids_page (500 in the code)
  ReadCount,   \* count of XREADGROUP (5 in the code)
  MaxRetries,  \* database failures that leave an entry pending (5 in the code)
  None,        \* no owner: unread or acknowledged
  Gone,        \* the name of a consumer that will not come back
  Moves,       \* bound: the changes of the outside world that may happen
  MaxMoves     \* bound: such changes, crashes and failed Redis calls in all

Global == "global"
Scopes == {Global} \cup Locations
Roles  == {"consume", "recover"}
Tasks  == Procs \X Roles

Statuses == {"active", "clear", "negated", "unknown", "invalid"}

ASSUME SourceAssumption ==
  /\ Msgs \subseteq Nat \ {0} /\ Users \subseteq Nat \ {0}
  /\ Newcomers \subseteq Users
  /\ Body \in [Msgs -> [status : Statuses, locs : SUBSET Locations,
                        clears : SUBSET Scopes, custom : BOOLEAN]]
  /\ \A m \in Msgs : Body[m].status = "clear" => Body[m].clears # {}
  /\ \A m \in Msgs : Body[m].status \in {"negated", "unknown"} => Body[m].clears = {}
  /\ Global \notin Locations
  /\ PageSize \in Nat \ {0} /\ ReadCount \in Nat \ {0}
  /\ MaxRetries \in Nat /\ MaxMoves \in Nat
  /\ {None, Gone} \cap Procs = {} /\ None # Gone
  /\ Moves \subseteq {"subs", "night", "official", "age"}

VARIABLES
  log,        \* the source stream, in the order of publication
  next,       \* position in log of the first entry the group has not read
  owner,      \* consumer a pending entry belongs to
  idle,       \* pending entries idle for longer than XAUTOCLAIM's minimum
  retry,      \* retry_count:<id>
  clearId,    \* threat:clear_id:<chat>[:<location>]
  audits,     \* entries of expired_alerts_queue per message
  dead,       \* messages in dead_letter_queue
  chains,     \* recipients whose chain enqueue_alert has stored
  tk,         \* the tasks
  subscribed, \* users the fan-out query selects
  night, official, old,  \* the night interval, the alarm key, posts over 600 s
  steady,     \* history: users subscribed ever since the post was published
  excused,    \* history: posts that at some time needed no delivery
  late,       \* history: posts published under a newer all-clear
  recovered,  \* history: posts that were over 600 s old when published
  moves

stream  == <<log, next, owner, idle>>
world   == <<subscribed, night, official, old>>
history == <<steady, excused, late, recovered>>
vars == <<stream, retry, clearId, audits, dead, chains, tk, world, history, moves>>

Handling == {"start", "clears", "global", "scoped", "alarm", "page", "dispatch",
             "fail", "dead", "ack", "finish", "forget"}

Task == [pc : Handling \cup {"drain", "wait"}, draining : BOOLEAN,
         batch : SUBSET Msgs, stale : BOOLEAN, scopes : SUBSET Scopes,
         todo : SUBSET Users, after : Users \cup {0}, full : BOOLEAN]

Fresh(role) ==
  [pc |-> IF role = "consume" THEN "drain" ELSE "wait",
   draining |-> role = "consume", batch |-> {}, stale |-> FALSE,
   scopes |-> {}, todo |-> {}, after |-> 0, full |-> FALSE]

Published == Range(log)

\* The types of the stores and source tasks, and which entry a task works on.
TypeOK ==
  /\ log \in Seq(Msgs) /\ IsInjective(log)
  /\ next \in 1..(Len(log) + 1)
  /\ owner \in [Msgs -> Procs \cup {None, Gone}]
  /\ idle \subseteq {m \in Msgs : owner[m] # None}
  /\ retry \in [Msgs -> 0..(MaxRetries + 1)]
  /\ clearId \in [Scopes -> Msgs \cup {0}]
  /\ audits \in [Msgs -> Nat]
  /\ dead \subseteq Msgs
  /\ chains \in [Msgs -> SUBSET Users]
  /\ tk \in [Tasks -> Task]
  /\ \A t \in Tasks : tk[t].pc \in Handling <=> tk[t].batch # {}
  /\ subscribed \subseteq Users
  /\ night \in BOOLEAN /\ official \in BOOLEAN
  /\ old \subseteq Msgs
  /\ steady \in [Msgs -> SUBSET Users]
  /\ excused \subseteq Msgs /\ late \subseteq Msgs /\ recovered \subseteq Msgs
  /\ moves \in 0..MaxMoves

Init ==
  /\ log = <<>> /\ next = 1
  /\ owner = [m \in Msgs |-> None]
  /\ idle = {}
  /\ retry = [m \in Msgs |-> 0]
  /\ clearId = [s \in Scopes |-> 0]
  /\ audits = [m \in Msgs |-> 0]
  /\ dead = {}
  /\ chains = [m \in Msgs |-> {}]
  /\ tk = [t \in Tasks |-> Fresh(t[2])]
  /\ subscribed \in {Users, Users \ Newcomers}
  /\ night = TRUE /\ official = FALSE /\ old = {}
  /\ steady = [m \in Msgs |-> {}]
  /\ excused = {} /\ late = {} /\ recovered = {}
  /\ moves = 0

-----------------------------------------------------------------------------
(* What the rules of process_single_stream_payload say of a post.          *)

\* A newer all-clear covers the channel, or every place of the dictionary that
\* the post names.  No all-clear concerns a recipient's phrase, and none keeps a
\* post whose places are cleared: phrases are looked up after this.
Covered(m) ==
  \/ clearId[Global] > m
  \/ Body[m].locs # {} /\ \A l \in Body[m].locs : clearId[l] > m

\* _resolve_trigger_words.  A category is recognised exactly in an active post;
\* a recipient's phrase is here as good as a place.
Relevant(m) ==
  LET active == Body[m].status = "active"
      named  == Body[m].locs # {} \/ Body[m].custom
  IN  IF official THEN active \/ named ELSE active /\ named

Unread == {log[i] : i \in next..Len(log)}
Acked  == {m \in Published \ Unread : owner[m] = None}

\* A batch is worked off in the order of the stream.
Current(t) ==
  LET left == {i \in 1..Len(log) : log[i] \in tk[t].batch}
  IN  log[CHOOSE i \in left : \A j \in left : i <= j]

InHand(m) == {t \in Tasks : /\ tk[t].batch # {} /\ Current(t) = m
                            /\ tk[t].pc # "start"}

\* Posts that need no delivery now: no threat, irrelevant, covered by a newer
\* all-clear (also those that a recipient's phrase matches), or read by day while
\* not yet historical.
NeedsNone(m) ==
  \/ Body[m].status \in {"clear", "negated", "invalid"}
  \/ Covered(m) \/ ~Relevant(m)
  \/ ~night /\ (m \notin old \/ \E t \in InHand(m) : ~tk[t].stale)

\* Every step that may free a post from delivery notes it.
NoteExcused == excused' = excused \cup {m \in Range(log') : NeedsNone(m)'}

-----------------------------------------------------------------------------
(* Reading the stream.                                                     *)

At(t, pc) == tk[t].pc = pc
Goto(t, pc) == tk' = [tk EXCEPT ![t].pc = pc]

Give(t, batch) ==
  tk' = [tk EXCEPT ![t].pc = "start", ![t].batch = batch]

Beyond == <<retry, clearId, audits, dead, chains, world, history, moves>>

\* _drain_pending_backlog: the whole PEL of this consumer name, again and again
\* until it is empty.
Drain(t) ==
  LET mine == {m \in Msgs : owner[m] = t[1]} IN
  /\ At(t, "drain")
  /\ IF mine = {} THEN tk' = [tk EXCEPT ![t].pc = "wait", ![t].draining = FALSE]
     ELSE Give(t, mine)
  /\ idle' = idle \ mine
  /\ UNCHANGED <<log, next, owner, Beyond>>

\* _consume_loop: a bounded read of new entries.
ReadNew(t) ==
  LET last  == IF Len(log) < next + ReadCount THEN Len(log) ELSE next + ReadCount - 1
      batch == {log[i] : i \in next..last} IN
  /\ At(t, "wait") /\ t[2] = "consume"
  /\ next <= Len(log)
  /\ next' = last + 1
  /\ owner' = [m \in Msgs |-> IF m \in batch THEN t[1] ELSE owner[m]]
  /\ Give(t, batch)
  /\ UNCHANGED <<log, idle, Beyond>>

\* auto_claim_pending_tasks: whatever has been idle goes to this consumer, also
\* what the other task of this process is working on.
ClaimIdle(t) ==
  /\ At(t, "wait") /\ t[2] = "recover"
  /\ idle # {}
  /\ owner' = [m \in Msgs |-> IF m \in idle THEN t[1] ELSE owner[m]]
  /\ idle' = {}
  /\ Give(t, idle)
  /\ UNCHANGED <<log, next, Beyond>>

\* The next entry of the batch, or back to the loop the task is in.
Onward(t, rest) ==
  IF rest # {} THEN "start" ELSE IF tk[t].draining THEN "drain" ELSE "wait"

Advance(t) ==
  LET rest == tk[t].batch \ {Current(t)} IN
  tk' = [tk EXCEPT ![t] = [Fresh(t[2]) EXCEPT !.pc = Onward(t, rest),
                             !.draining = tk[t].draining, !.batch = rest]]

XAck(m) == owner' = [owner EXCEPT ![m] = None] /\ idle' = idle \ {m}

-----------------------------------------------------------------------------
(* process_single_stream_payload.                                          *)

\* Where a post goes once its all-clears are recorded.
Classified(m) ==
  IF Body[m].status \in {"clear", "negated"} THEN "ack" ELSE "global"

\* Mutation: EXISTS and XADD without the marker being set.
AuditAlways(m) == audits' = [audits EXCEPT ![m] = IF @ < 2 THEN @ + 1 ELSE @]

\* The audit script adds one entry per post, however often it is processed.
Audit(m) == IF audits[m] = 0 THEN audits' = [audits EXCEPT ![m] = 1]
            ELSE UNCHANGED audits

\* Validate, classify by age, audit a historical post.
Start(t) ==
  LET m == Current(t) IN
  /\ At(t, "start")
  /\ IF Body[m].status = "invalid" THEN Goto(t, "ack") /\ UNCHANGED audits
     ELSE /\ tk' = [tk EXCEPT ![t].stale = m \in old, ![t].scopes = Body[m].clears,
                      ![t].pc = IF Body[m].clears # {} THEN "clears" ELSE Classified(m)]
          /\ IF m \in old THEN Audit(m) ELSE UNCHANGED audits
  /\ UNCHANGED <<stream, retry, clearId, dead, chains, world, history, moves>>

\* Mutation: the incoming id replaces the recorded one unconditionally.
ClearIdOverwritten(s, m) == m

\* RECORD_CLEAR_LUA keeps the newest id of a scope.
NewerClear(s, m) == IF m > clearId[s] THEN m ELSE clearId[s]

RecordClear(t) ==
  \E s \in tk[t].scopes :
    LET left == tk[t].scopes \ {s} IN
    /\ At(t, "clears") /\ (Global \in tk[t].scopes => s = Global)
    /\ clearId' = [clearId EXCEPT ![s] = NewerClear(s, Current(t))]
    /\ tk' = [tk EXCEPT ![t].scopes = left,
                ![t].pc = IF left = {} THEN Classified(Current(t)) ELSE "clears"]
    /\ UNCHANGED <<stream, retry, audits, dead, chains, world, steady, late,
                   recovered, moves>>
    /\ NoteExcused

Reading == <<stream, retry, clearId, audits, dead, chains, world, history, moves>>

\* Mutation: the comparison is the wrong way round.
OverrulesSwapped(s, m) == clearId[s] < m

\* The all-clear of a scope is newer than the post.
Overrules(s, m) == clearId[s] > m

CheckGlobal(t) ==
  /\ At(t, "global")
  /\ IF Overrules(Global, Current(t)) THEN Goto(t, "ack")
     ELSE Goto(t, IF Body[Current(t)].locs # {} THEN "scoped" ELSE "alarm")
  /\ UNCHANGED Reading

\* Only the places are looked at; a post without any, though a phrase may match
\* it, does not come here.
CheckScoped(t) ==
  /\ At(t, "scoped")
  /\ IF \A l \in Body[Current(t)].locs : Overrules(l, Current(t))
     THEN Goto(t, "ack") ELSE Goto(t, "alarm")
  /\ UNCHANGED Reading

\* The phrases are matched and the alarm key is read; the rules and the night
\* interval are evaluated with them; the fan-out starts before the first user.
CheckAlarm(t) ==
  /\ At(t, "alarm")
  /\ IF Relevant(Current(t)) /\ (tk[t].stale \/ night)
     THEN tk' = [tk EXCEPT ![t].pc = "page", ![t].after = 0]
     ELSE Goto(t, "ack")
  /\ UNCHANGED Reading

\* The first PageSize members of a set of users.
FirstPage(S) ==
  {u \in S : Cardinality({v \in S : v < u}) < PageSize}

\* Mutation: pages by offset, which shift when a user of an earlier page leaves.
PageByOffset(t) ==
  FirstPage({u \in subscribed :
               Cardinality({v \in subscribed : v < u}) >= tk[t].after})

\* Keyset pagination: the first PageSize selected users behind the last one.
Page(t) == FirstPage({u \in subscribed : u > tk[t].after})

FetchPage(t) ==
  /\ At(t, "page")
  /\ \/ IF Page(t) = {} THEN Goto(t, "finish")
        ELSE tk' = [tk EXCEPT ![t].pc = "dispatch", ![t].todo = Page(t),
                              ![t].full = Cardinality(Page(t)) = PageSize]
     \/ Goto(t, "fail")
  /\ UNCHANGED Reading

\* After the last recipient of a page: a full page may have a successor.
Turned(t) == IF tk[t].full THEN "page" ELSE "finish"

\* enqueue_alert for the next recipient.  A user who left in the meantime may
\* have been deleted, and then nothing is stored.
Dispatch(t) ==
  LET u == CHOOSE u \in tk[t].todo : \A v \in tk[t].todo : u <= v
      m == Current(t) IN
  /\ At(t, "dispatch")
  /\ \/ chains' = [chains EXCEPT ![m] = @ \cup {u}]
     \/ u \notin subscribed /\ UNCHANGED chains
  /\ tk' = [tk EXCEPT ![t].todo = @ \ {u}, ![t].after = u,
              ![t].pc = IF tk[t].todo = {u} THEN Turned(t) ELSE "dispatch"]
  /\ UNCHANGED <<stream, retry, clearId, audits, dead, world, history, moves>>

\* XACK of a post that was not fanned out; its retry key is left to expire.
Dismiss(t) ==
  /\ At(t, "ack")
  /\ XAck(Current(t))
  /\ Advance(t)
  /\ UNCHANGED <<log, next, Beyond>>

\* XACK of a post that was fanned out or dead-lettered, then DEL of the key.
Finish(t) ==
  /\ At(t, "finish")
  /\ XAck(Current(t))
  /\ Goto(t, "forget")
  /\ UNCHANGED <<log, next, Beyond>>

Forget(t) ==
  /\ At(t, "forget")
  /\ retry' = [retry EXCEPT ![Current(t)] = 0]
  /\ Advance(t)
  /\ UNCHANGED <<stream, clearId, audits, dead, chains, world, history, moves>>

\* Mutation: the counter has expired by the time of the next failure.
CountedAfresh(m) == 1

\* INCR; counts beyond the limit are not told apart.
Counted(m) == IF retry[m] > MaxRetries THEN retry[m] ELSE retry[m] + 1

\* _handle_db_failure: INCR, then XADD, XACK and DEL once the limit is exceeded.
CountFailure(t) ==
  LET m == Current(t) IN
  /\ At(t, "fail")
  /\ retry' = [retry EXCEPT ![m] = Counted(m)]
  /\ IF Counted(m) > MaxRetries THEN Goto(t, "dead") ELSE Advance(t)
  /\ UNCHANGED <<stream, clearId, audits, dead, chains, world, history, moves>>

DeadLetters(t) == dead \cup {Current(t)}

DeadLetter(t) ==
  /\ At(t, "dead")
  /\ dead' = DeadLetters(t)
  /\ Goto(t, "finish")
  /\ UNCHANGED <<stream, retry, clearId, audits, chains, world, history, moves>>

-----------------------------------------------------------------------------
(* Failures.                                                               *)

\* Every disturbance counts against the bound.
Moving == moves < MaxMoves /\ moves' = moves + 1

\* A Redis call raises: the loop drops the rest of its batch, and a drain ends.
Abandon(t) ==
  /\ tk[t].pc \in Handling \cup {"drain"}
  /\ Moving
  /\ tk' = [tk EXCEPT ![t] = [Fresh(t[2]) EXCEPT !.pc = "wait", !.draining = FALSE]]
  /\ UNCHANGED <<stream, retry, clearId, audits, dead, chains, world, history>>

\* The process dies and is started again, under its old name or a new one.
Crash(p) ==
  /\ Moving
  /\ tk' = [t \in Tasks |-> IF t[1] = p THEN Fresh(t[2]) ELSE tk[t]]
  /\ \/ UNCHANGED owner
     \/ owner' = [m \in Msgs |-> IF owner[m] = p THEN Gone ELSE owner[m]]
  /\ UNCHANGED <<log, next, idle, retry, clearId, audits, dead, chains, world, history>>

-----------------------------------------------------------------------------
(* The world.                                                              *)

\* The scraper publishes each post once; catch-up publishes in any order.
Publish(m) ==
  /\ m \in Msgs \ Published
  /\ log' = Append(log, m)
  /\ steady' = [steady EXCEPT ![m] = subscribed]
  /\ late' = IF Covered(m) THEN late \cup {m} ELSE late
  /\ recovered' = IF m \in old THEN recovered \cup {m} ELSE recovered
  /\ UNCHANGED <<next, owner, idle, retry, clearId, audits, dead, chains, tk,
                 world, moves>>
  /\ NoteExcused

GoesIdle(m) ==
  /\ owner[m] # None /\ m \notin idle
  /\ idle' = idle \cup {m}
  /\ UNCHANGED <<log, next, owner, tk, Beyond>>

\* Registration, mutes, deletions and edits of the subscriptions.
Subscribe(u) ==
  /\ Moving /\ "subs" \in Moves /\ u \notin subscribed
  /\ subscribed' = subscribed \cup {u}
  /\ UNCHANGED <<stream, retry, clearId, audits, dead, chains, tk, night, official,
                 old, history>>

Unsubscribe(u) ==
  /\ Moving /\ "subs" \in Moves /\ u \in subscribed
  /\ subscribed' = subscribed \ {u}
  /\ steady' = [m \in Msgs |-> steady[m] \ {u}]
  /\ UNCHANGED <<stream, retry, clearId, audits, dead, chains, tk, night, official,
                 old, excused, late, recovered>>

DayOrNight ==
  /\ Moving /\ "night" \in Moves
  /\ night' = ~night
  /\ UNCHANGED <<stream, retry, clearId, audits, dead, chains, tk, subscribed,
                 official, old, steady, late, recovered>>
  /\ NoteExcused

OfficialAlarm ==
  /\ Moving /\ "official" \in Moves
  /\ official' = ~official
  /\ UNCHANGED <<stream, retry, clearId, audits, dead, chains, tk, subscribed,
                 night, old, steady, late, recovered>>
  /\ NoteExcused

Ages(m) ==
  /\ Moving /\ "age" \in Moves /\ m \notin old
  /\ old' = old \cup {m}
  /\ UNCHANGED <<stream, retry, clearId, audits, dead, chains, tk, subscribed,
                 night, official, history>>

-----------------------------------------------------------------------------

Step(t) ==
  \/ Drain(t) \/ ReadNew(t) \/ ClaimIdle(t)
  \/ Start(t) \/ RecordClear(t) \/ CheckGlobal(t) \/ CheckScoped(t) \/ CheckAlarm(t)
  \/ FetchPage(t) \/ Dispatch(t) \/ Dismiss(t) \/ Finish(t) \/ Forget(t)
  \/ CountFailure(t) \/ DeadLetter(t)

Next ==
  \/ \E t \in Tasks : Step(t) \/ Abandon(t)
  \/ \E p \in Procs : Crash(p)
  \/ \E m \in Msgs : Publish(m) \/ GoesIdle(m) \/ Ages(m)
  \/ \E u \in Users : Subscribe(u) \/ Unsubscribe(u)
  \/ DayOrNight \/ OfficialAlarm

Spec == Init /\ [][Next]_vars

\* Every task keeps stepping (calls have timeouts, a dead process is restarted)
\* and a pending entry that nobody acknowledges becomes idle.
FairSpec ==
  /\ Spec
  /\ \A t \in Tasks : WF_vars(Step(t))
  /\ \A m \in Msgs : WF_vars(GoesIdle(m))

-----------------------------------------------------------------------------
(* Properties.                                                             *)

\* "Persist each recipient before acknowledging the source stream entry": when a
\* threat is acknowledged, every user subscribed ever since its publication has
\* a chain, unless the post is in the DLQ or at some time needed no delivery;
\* whatever tasks overlap, pages shift, calls fail or processes die.  A newer
\* all-clear for every place named excuses the post for all recipients, also those
\* whose own phrase it matches: the code acknowledges it before the phrases are
\* matched (PhrasesOutlivePlaces below).
AcknowledgedIsHandled ==
  \A m \in Acked : m \in excused \cup dead \/ steady[m] \subseteq chains[m]

\* No all-clear is lost or taken back: once a post with an all-clear has been
\* acknowledged, the recorded id of each of its scopes is at least its own, in
\* whatever order posts are published and processed (RECORD_CLEAR_LUA).
AckedClearsAreRecorded ==
  \A m \in Acked : Body[m].status # "invalid" =>
     \A s \in Body[m].clears : clearId[s] >= m

\* "History recovery can publish an older threat after a newer clear. Suppress
\* the first delivery as well": a post published under a newer all-clear is
\* fanned out to nobody.
LateThreatsStaySilent == \A m \in late : chains[m] = {}

\* A valid post that was historical when published has exactly one entry in
\* expired_alerts_queue once acknowledged, though several tasks may process it.
ExpiredIsAuditedOnce ==
  \A m \in Published :
    /\ audits[m] <= 1
    /\ m \in Acked \cap recovered /\ Body[m].status # "invalid" => audits[m] = 1

\* Every published post is eventually acknowledged, fanned out, dismissed or
\* dead-lettered: again and again nothing published is left (and what has been
\* acknowledged stays so).
EventuallyAcknowledged == []<>(Published \subseteq Acked)

\* _resolve_trigger_words: with a category of threat "a location or a custom
\* phrase" makes a post worth sending.  So, while it stays night, a threat that
\* matches a phrase and has no newer all-clear for the channel is acknowledged only
\* after its subscribers have a chain.  The code does not keep this for posts that
\* also name places: once all of those are cleared, nobody is told.
PhrasesOutlivePlaces ==
  \A m \in Acked \ dead :
    Body[m].status = "active" /\ Body[m].custom /\ clearId[Global] < m
      => steady[m] \subseteq chains[m]

\* docs/oncall_runbook.md: after five failed attempts the source goes to the
\* dead-letter queue.
DeadLetteredAtLimit ==
  [][\A t \in Tasks : At(t, "fail") /\ retry'[Current(t)] = MaxRetries
                         /\ retry[Current(t)] < MaxRetries
                        => tk'[t].pc = "dead"]_vars
=============================================================================
