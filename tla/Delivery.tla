------------------------------ MODULE Delivery ------------------------------
(***************************************************************************)
(* The delivery half of the worker service: the fan-out of one source      *)
(* event to one recipient as a chain of stages (a first alert and delayed  *)
(* reminders), worker/broadcaster.py, worker/delivery_lease.py and the     *)
(* Redis scripts of services/privacy.py that a delivery runs.              *)
(*                                                                         *)
(* Chains of other events and recipients share with this one only the rate *)
(* limiter (module RateLimiter) and the key telegram:blocked, so one chain *)
(* is followed.  Every await of a handler is a step of its own: the        *)
(* consumers interleave there, and there a consumer may be cancelled, die  *)
(* or be suspended.                                                        *)
(***************************************************************************)
EXTENDS Integers, Sequences, FiniteSets

CONSTANTS
  Workers,      \* delivery consumers, of one or of several processes
  Ids,          \* entry identifiers of delivery_stream
  LastStage,    \* number of stages of a chain (3 in the code)
  MaxAttempts,  \* failed attempts before a job goes to the DLQ (5 in the code)
  Locations,    \* source_locations of the event
  None,         \* no job, no owner, no lease holder
  Orphan,       \* the token of a lease that nobody will renew or release
  Moves,        \* bound: the changes of the outside world that may happen
  MaxFaults,    \* bound: cancellations, crashes and lost Telegram answers
  MaxStalls     \* bound: suspensions of a consumer beyond its lease

Stages == 1..LastStage

\* The payload of a job, as far as a handler reads it.
Job == [step : Stages, gen : Nat]

\* The scopes of an all-clear: the whole channel, or one location of it.
Global == "global"
Scopes == {Global} \cup Locations

ASSUME DeliveryAssumption ==
  /\ LastStage \in Nat \ {0}
  /\ MaxAttempts \in Nat \ {0}
  /\ MaxFaults \in Nat
  /\ MaxStalls \in Nat
  /\ None \notin Workers \cup Ids \cup Job
  /\ Orphan \notin Workers \cup {None}
  /\ Global \notin Locations
  /\ Moves \subseteq {"age", "night", "mute", "clear"}

VARIABLES
  \* --- Redis
  queue,     \* delivery_stream entries not yet read by the group, oldest first
  entry,     \* payload of every entry that is unread or pending, else None
  owner,     \* consumer a pending entry belongs to, None when it is unread
  idle,      \* pending entries idle for longer than XAUTOCLAIM's minimum
  retry,     \* delivery:retry:<id>
  lease,     \* delivery:lease:<event>:<step>
  delayed,   \* delayed_alerts_queue
  stage,     \* delivery:stage:<event>:<step>
  enqueued,  \* delivery:enqueued:<event>, with the stages stored under it
  dlq,       \* delivery_dead_letter_queue
  blocked,   \* telegram:blocked:<chat>
  deleted,   \* privacy:deleted:<chat>
  gen,       \* privacy:generation:<chat>
  inflight,  \* privacy:inflight:<chat>
  \* --- processes
  wk,        \* the consumers
  stalled,   \* consumers that are suspended: they neither step nor renew
  src,       \* the source worker inside enqueue_alert
  \* --- the world
  age,       \* age class of the source event
  night,     \* _is_night()
  muted,     \* user_settings.muted_until lies in the future
  cleared,   \* scopes whose threat:clear_id exceeds the event's message id
  \* --- history and bounds
  got,       \* copies of each stage that Telegram accepted
  faults, stalls

redis == <<queue, entry, owner, idle, retry, lease, delayed, stage, enqueued,
           dlq, blocked, deleted, gen, inflight>>
world == <<age, night, muted, cleared>>
vars  == <<redis, wk, stalled, src, world, got, faults, stalls>>

Ages   == {"fresh", "old", "expired"}   \* <= 600 s, <= 7 days, older
States == {"none", "sent", "skipped", "failed"}

\* Where a consumer is: each value is the await it is about to issue.
Checks  == {"gate", "own", "clear", "prior", "cutoff", "blocked", "rate",
            "guard", "begin"}
Working == Checks \cup {"sending", "answer", "commit", "end"}
PCs     == Working \cup {"idle", "lease", "release"}

\* What the consumer has decided to write, or what Telegram answered.
Plans == {"none", "ack", "skip", "requeue", "fail",
          "sent", "retry", "blocked", "permanent"}

Worker == [pc : PCs, id : Ids \cup {None}, job : Job \cup {None},
           plan : Plans, reserved : BOOLEAN]

Rest == [pc |-> "idle", id |-> None, job |-> None, plan |-> "none",
         reserved |-> FALSE]

NoCall == [pc |-> "idle", gen |-> 0, stale |-> FALSE]

\* The types of the stores and consumers, and which entry, job and lease a consumer
\* has at which of its steps.
TypeOK ==
  /\ queue \in Seq(Ids)
  /\ entry \in [Ids -> Job \cup {None}]
  /\ owner \in [Ids -> Workers \cup {None}]
  /\ idle \subseteq Ids
  /\ retry \in [Ids -> 0..MaxAttempts]
  /\ lease \in [Stages -> Workers \cup {None, Orphan}]
  /\ delayed \subseteq Job
  /\ stage \in [Stages -> States]
  /\ enqueued \subseteq Stages
  /\ dlq \subseteq Job
  /\ blocked \in BOOLEAN
  /\ deleted \in BOOLEAN
  /\ gen \in Nat
  /\ inflight \in Nat
  /\ wk \in [Workers -> Worker]
  /\ \A w \in Workers : wk[w].pc # "idle" => wk[w].id \in Ids /\ wk[w].job \in Job
  /\ stalled \subseteq Workers
  /\ src \in [pc : {"idle", "read"}, gen : Nat, stale : BOOLEAN]
  /\ age \in Ages
  /\ night \in BOOLEAN
  /\ muted \in BOOLEAN
  /\ cleared \subseteq Scopes
  /\ got \in [Stages -> Nat]
  /\ faults \in 0..MaxFaults
  /\ stalls \in 0..MaxStalls

Init ==
  /\ queue = <<>>
  /\ entry = [i \in Ids |-> None]
  /\ owner = [i \in Ids |-> None]
  /\ idle = {}
  /\ retry = [i \in Ids |-> 0]
  /\ lease = [s \in Stages |-> None]
  /\ delayed = {}
  /\ stage = [s \in Stages |-> "none"]
  /\ enqueued = {}
  /\ dlq = {}
  /\ blocked = FALSE
  /\ deleted = FALSE
  /\ gen = 0
  /\ inflight = 0
  /\ wk = [w \in Workers |-> Rest]
  /\ stalled = {}
  /\ src = NoCall
  /\ age = "fresh"
  /\ night = TRUE
  /\ muted = FALSE
  /\ cleared = {}
  /\ got = [s \in Stages |-> 0]
  /\ faults = 0
  /\ stalls = 0

-----------------------------------------------------------------------------
(* Redis commands on delivery_stream and its consumer group.               *)

\* An identifier is used again only when nothing refers to it any more, which
\* keeps the set finite and cannot be told from a fresh one.
Free == {i \in Ids : entry[i] = None /\ \A w \in Workers : wk[w].id # i}

XAdd(j) ==
  LET i == CHOOSE i \in Ids : i \in Free IN
  /\ Free # {}
  /\ queue' = Append(queue, i)
  /\ entry' = [entry EXCEPT ![i] = j]
  /\ owner' = [owner EXCEPT ![i] = None]
  /\ idle' = idle \ {i}
  /\ retry' = [retry EXCEPT ![i] = 0]

\* XACK of an entry that somebody already acknowledged does nothing.
XAck(i) ==
  /\ entry' = [entry EXCEPT ![i] = None]
  /\ owner' = [owner EXCEPT ![i] = None]
  /\ idle' = idle \ {i}

\* The recipient check every script makes: not deleted, generation unchanged.
Current(j) == ~deleted /\ j.gen = gen

-----------------------------------------------------------------------------
(* enqueue_alert: read the generation, then run ENQUEUE_ALERT_LUA.  The    *)
(* source worker calls it again whenever it processes the event again.     *)

ReadGeneration ==
  /\ src.pc = "idle"
  /\ src' = [pc |-> "read", gen |-> gen, stale |-> age # "fresh"]
  /\ UNCHANGED <<redis, wk, stalled, world, got, faults, stalls>>

Enqueue ==
  /\ src.pc = "read"
  /\ src' = NoCall
  /\ IF ~deleted /\ src.gen = gen /\ enqueued = {}
     THEN LET later == IF src.stale THEN {} ELSE Stages \ {1} IN
          /\ XAdd([step |-> 1, gen |-> src.gen])
          /\ delayed' = delayed \cup {[step |-> s, gen |-> src.gen] : s \in later}
          /\ enqueued' = {1} \cup later
     ELSE UNCHANGED <<queue, entry, owner, idle, retry, delayed, enqueued>>
  /\ UNCHANGED <<lease, stage, dlq, blocked, deleted, gen, inflight, wk,
                 stalled, world, got, faults, stalls>>

\* POP_MATURE_TASKS_LUA moves every due member in one script; members do not
\* affect one another, so they move one at a time here, at any time.
PopMature(j) ==
  /\ j \in delayed
  /\ delayed' = delayed \ {j}
  /\ IF Current(j) THEN XAdd(j)
     ELSE UNCHANGED <<queue, entry, owner, idle, retry>>
  /\ UNCHANGED <<lease, stage, enqueued, dlq, blocked, deleted, gen, inflight,
                 wk, stalled, src, world, got, faults, stalls>>

-----------------------------------------------------------------------------
(* process_delivery_stream: a consumer claims an idle entry or reads a new *)
(* one, and hands it to _deliver_owned.                                    *)

Runs(w) == w \notin stalled

Take(w, i) ==
  wk' = [wk EXCEPT ![w] = [Rest EXCEPT !.pc = "lease", !.id = i, !.job = entry[i]]]

ClaimIdle(w, i) ==
  /\ Runs(w) /\ wk[w].pc = "idle"
  /\ i \in idle
  /\ owner' = [owner EXCEPT ![i] = w]
  /\ idle' = idle \ {i}
  /\ Take(w, i)
  /\ UNCHANGED <<queue, entry, retry, lease, delayed, stage, enqueued, dlq,
                 blocked, deleted, gen, inflight, stalled, src, world, got,
                 faults, stalls>>

ReadNew(w) ==
  /\ Runs(w) /\ wk[w].pc = "idle"
  /\ queue # <<>>
  /\ queue' = Tail(queue)
  /\ owner' = [owner EXCEPT ![Head(queue)] = w]
  /\ Take(w, Head(queue))
  /\ UNCHANGED <<entry, idle, retry, lease, delayed, stage, enqueued, dlq,
                 blocked, deleted, gen, inflight, stalled, src, world, got,
                 faults, stalls>>

-----------------------------------------------------------------------------
(* DeliveryLease.                                                          *)

\* RENEW_DELIVERY_LUA grants: the entry is pending for this consumer and the
\* stage is free or already leased under this consumer's token.
CanRenew(w) ==
  /\ entry[wk[w].id] # None
  /\ owner[wk[w].id] = w
  /\ lease[wk[w].job.step] \in {None, w}

Renew(w) ==
  /\ lease' = [lease EXCEPT ![wk[w].job.step] = w]
  /\ idle' = idle \ {wk[w].id}

Goto(w, pc) == wk' = [wk EXCEPT ![w].pc = pc]

\* Decide on the final write, which is a later await.
Commit(w, plan) == wk' = [wk EXCEPT ![w].pc = "commit", ![w].plan = plan]

\* Leave _deliver_one: through its finally clause when a slot is reserved.
Leaving(w) == IF wk[w].reserved THEN "end" ELSE "release"

AcquireLease(w) ==
  /\ Runs(w) /\ wk[w].pc = "lease"
  /\ \/ CanRenew(w) /\ Renew(w) /\ Goto(w, "gate")
     \/ ~CanRenew(w) /\ wk' = [wk EXCEPT ![w] = Rest] /\ UNCHANGED <<lease, idle>>
  /\ UNCHANGED <<queue, entry, owner, retry, delayed, stage, enqueued, dlq,
                 blocked, deleted, gen, inflight, stalled, src, world, got,
                 faults, stalls>>

\* The heartbeat of DeliveryLease.run.  A refused renewal cancels the handler;
\* a cancellation that hits the finally clause loses END_DELIVERY.
Heartbeat(w) ==
  /\ Runs(w) /\ wk[w].pc \in Working
  /\ \/ /\ CanRenew(w)
        /\ Renew(w)
        /\ UNCHANGED wk
     \/ /\ ~CanRenew(w)
        /\ wk[w].pc # "end"
        /\ Goto(w, Leaving(w))
        /\ UNCHANGED <<lease, idle>>
     \/ /\ ~CanRenew(w)
        /\ wk[w].pc = "end"
        /\ wk' = [wk EXCEPT ![w].pc = "release", ![w].reserved = FALSE]
        /\ UNCHANGED <<lease, idle>>
  /\ UNCHANGED <<queue, entry, owner, retry, delayed, stage, enqueued, dlq,
                 blocked, deleted, gen, inflight, stalled, src, world, got,
                 faults, stalls>>

\* RELEASE_DELIVERY_LUA deletes the key only under this consumer's token.
ReleaseLease(w) ==
  /\ Runs(w) /\ wk[w].pc = "release"
  /\ lease' = [lease EXCEPT ![wk[w].job.step] = IF @ = w THEN None ELSE @]
  /\ wk' = [wk EXCEPT ![w] = Rest]
  /\ UNCHANGED <<queue, entry, owner, idle, retry, delayed, stage, enqueued, dlq,
                 blocked, deleted, gen, inflight, stalled, src, world, got,
                 faults, stalls>>

-----------------------------------------------------------------------------
(* _deliver_one up to the send: reads, each of which may end the delivery. *)

At(w, pc) == Runs(w) /\ wk[w].pc = pc

Reading == <<redis, stalled, src, world, got, faults, stalls>>

\* Generation, deletion fence and age.  The fence and the generation change
\* together and a job whose generation is outdated stays so, hence one step.
CheckGate(w) ==
  /\ At(w, "gate")
  /\ IF Current(wk[w].job) /\ age # "expired" THEN Goto(w, "own") ELSE Commit(w, "ack")
  /\ UNCHANGED Reading

CheckOwnStage(w) ==
  LET s == wk[w].job.step IN
  /\ At(w, "own")
  /\ IF stage[s] = "sent" THEN Commit(w, "ack")
     ELSE Goto(w, IF s > 1 THEN "clear" ELSE "blocked")
  /\ UNCHANGED Reading

\* An all-clear for the channel, or for every location the event names.
Cancelled == \/ Global \in cleared
             \/ Locations # {} /\ Locations \subseteq cleared

CheckClear(w) ==
  /\ At(w, "clear")
  /\ IF Cancelled THEN Commit(w, "skip") ELSE Goto(w, "prior")
  /\ UNCHANGED Reading

\* Mutation: only a skipped stage holds its successors back.
CheckPriorSkipped(w) ==
  LET prior == stage[wk[w].job.step - 1] IN
  /\ At(w, "prior")
  /\ IF prior = "skipped" THEN Commit(w, "skip") ELSE Goto(w, "cutoff")
  /\ UNCHANGED Reading

\* Mutation: a reminder goes on waiting for an alert that has failed.
CheckPriorWaits(w) ==
  LET prior == stage[wk[w].job.step - 1] IN
  /\ At(w, "prior")
  /\ \/ prior = "skipped" /\ Commit(w, "skip")
     \/ prior \in {"failed", "none"} /\ Commit(w, "requeue")
     \/ prior = "sent" /\ Goto(w, "cutoff")
  /\ UNCHANGED Reading

CheckPrior(w) ==
  LET prior == stage[wk[w].job.step - 1] IN
  /\ At(w, "prior")
  /\ \/ prior = "skipped" /\ Commit(w, "skip")
     \/ prior = "failed"  /\ Commit(w, "fail")
     \/ prior = "none"    /\ Commit(w, "requeue")
     \/ prior = "sent"    /\ Goto(w, "cutoff")
  /\ UNCHANGED Reading

CheckCutoff(w) ==
  /\ At(w, "cutoff")
  /\ IF ~night \/ muted THEN Commit(w, "skip") ELSE Goto(w, "blocked")
  /\ UNCHANGED Reading

CheckBlocked(w) ==
  /\ At(w, "blocked")
  /\ IF blocked THEN Commit(w, "fail") ELSE Goto(w, "rate")
  /\ UNCHANGED Reading

-----------------------------------------------------------------------------
(* send_single_message.                                                    *)

\* The rate limiter grants a slot, or the wait for one times out.
AcquireRate(w) ==
  /\ At(w, "rate")
  /\ \/ Goto(w, "guard")
     \/ wk' = [wk EXCEPT ![w].pc = "answer", ![w].plan = "retry"]
  /\ UNCHANGED Reading

\* reservation.guard() is lease.renew: ownership is checked again.
Guard(w) ==
  /\ At(w, "guard")
  /\ \/ CanRenew(w) /\ Renew(w) /\ Goto(w, "begin")
     \/ ~CanRenew(w) /\ Goto(w, "release") /\ UNCHANGED <<lease, idle>>
  /\ UNCHANGED <<queue, entry, owner, retry, delayed, stage, enqueued, dlq,
                 blocked, deleted, gen, inflight, stalled, src, world, got,
                 faults, stalls>>

\* delivery_content: nothing is sent after seven days, no reminder after 600 s.
Deliverable(j) == age = "fresh" \/ (age = "old" /\ j.step = 1)

\* delivery_content, then BEGIN_DELIVERY_LUA reserves a slot.
Begin(w) ==
  /\ At(w, "begin")
  /\ IF Deliverable(wk[w].job) /\ Current(wk[w].job)
     THEN /\ wk' = [wk EXCEPT ![w].pc = "sending", ![w].reserved = TRUE]
          /\ inflight' = inflight + 1
     ELSE /\ Commit(w, IF Deliverable(wk[w].job) THEN "ack" ELSE "skip")
          /\ UNCHANGED inflight
  /\ UNCHANGED <<queue, entry, owner, idle, retry, lease, delayed, stage,
                 enqueued, dlq, blocked, deleted, gen, stalled, src, world, got,
                 faults, stalls>>

Answer(w, answer) == wk' = [wk EXCEPT ![w].pc = "answer", ![w].plan = answer]

\* Telegram accepts the message, and the answer may be lost on its way back;
\* or it refuses it (429, 5xx and transport errors are all retried).
Send(w) ==
  /\ At(w, "sending")
  /\ \/ /\ Answer(w, "sent")
        /\ got' = [got EXCEPT ![wk[w].job.step] = @ + 1]
        /\ UNCHANGED faults
     \/ /\ faults < MaxFaults
        /\ Answer(w, "retry")
        /\ got' = [got EXCEPT ![wk[w].job.step] = @ + 1]
        /\ faults' = faults + 1
     \/ /\ \E a \in {"retry", "blocked", "permanent"} : Answer(w, a)
        /\ UNCHANGED <<got, faults>>
  /\ UNCHANGED <<redis, stalled, src, world, stalls>>

-----------------------------------------------------------------------------
(* _deliver_one after the send, and the writes that end a delivery.        *)

\* Mutation: the pipeline is filled and never executed.
RecordSentUnflushed(w) ==
  /\ At(w, "answer") /\ wk[w].plan = "sent"
  /\ retry' = [retry EXCEPT ![wk[w].id] = 0]
  /\ Goto(w, Leaving(w))
  /\ UNCHANGED <<queue, entry, owner, idle, lease, delayed, stage, enqueued, dlq,
                 blocked, deleted, gen, inflight, stalled, src, world, got, faults,
                 stalls>>

\* Mutation: a failure after the send counts as a permanent failure of the job.
RecordSentThenFail(w) ==
  /\ At(w, "answer") /\ wk[w].plan = "sent"
  /\ stage' = [stage EXCEPT ![wk[w].job.step] = "sent"]
  /\ Commit(w, "fail")
  /\ UNCHANGED <<queue, entry, owner, idle, retry, lease, delayed, enqueued, dlq,
                 blocked, deleted, gen, inflight, stalled, src, world, got, faults,
                 stalls>>

\* One transaction stores "sent" and acknowledges; the retry key goes next.
RecordSent(w) ==
  LET j == wk[w].job IN
  /\ At(w, "answer") /\ wk[w].plan = "sent"
  /\ stage' = [stage EXCEPT ![j.step] = "sent"]
  /\ XAck(wk[w].id)
  /\ retry' = [retry EXCEPT ![wk[w].id] = 0]
  /\ Goto(w, Leaving(w))
  /\ UNCHANGED <<queue, lease, delayed, enqueued, dlq, blocked, deleted, gen,
                 inflight, stalled, src, world, got, faults, stalls>>

GivesUp(attempts) == attempts >= MaxAttempts

\* A transient failure is counted; below the limit the entry stays pending.
CountFailure(w) ==
  LET attempts == IF retry[wk[w].id] < MaxAttempts THEN retry[wk[w].id] + 1
                  ELSE MaxAttempts IN
  /\ At(w, "answer") /\ wk[w].plan = "retry"
  /\ retry' = [retry EXCEPT ![wk[w].id] = attempts]
  /\ IF GivesUp(attempts) THEN Commit(w, "fail") ELSE Goto(w, Leaving(w))
  /\ UNCHANGED <<queue, entry, owner, idle, lease, delayed, stage, enqueued, dlq,
                 blocked, deleted, gen, inflight, stalled, src, world, got,
                 faults, stalls>>

\* A permanent failure; telegram:blocked is set before the job is given up.
FailPermanently(w) ==
  /\ At(w, "answer") /\ wk[w].plan \in {"blocked", "permanent"}
  /\ blocked' = (blocked \/ wk[w].plan = "blocked")
  /\ Commit(w, "fail")
  /\ UNCHANGED <<queue, entry, owner, idle, retry, lease, delayed, stage,
                 enqueued, dlq, deleted, gen, inflight, stalled, src, world, got,
                 faults, stalls>>

\* XACK alone: outdated, deleted, expired or already sent.
CommitAck(w) ==
  /\ At(w, "commit") /\ wk[w].plan = "ack"
  /\ XAck(wk[w].id)
  /\ Goto(w, Leaving(w))
  /\ UNCHANGED <<queue, retry, lease, delayed, stage, enqueued, dlq, blocked,
                 deleted, gen, inflight, stalled, src, world, got, faults, stalls>>

\* _skip_stage.
CommitSkip(w) ==
  /\ At(w, "commit") /\ wk[w].plan = "skip"
  /\ stage' = [stage EXCEPT ![wk[w].job.step] = "skipped"]
  /\ XAck(wk[w].id)
  /\ Goto(w, Leaving(w))
  /\ UNCHANGED <<queue, retry, lease, delayed, enqueued, dlq, blocked, deleted,
                 gen, inflight, stalled, src, world, got, faults, stalls>>

\* Mutation: the entry is acknowledged and the stage not scheduled again.
DroppedStage(w) == delayed

RequeuedStage(w) == delayed \cup {wk[w].job}

\* The stage goes back to the delayed queue until the previous one succeeds.
CommitRequeue(w) ==
  /\ At(w, "commit") /\ wk[w].plan = "requeue"
  /\ delayed' = RequeuedStage(w)
  /\ XAck(wk[w].id)
  /\ Goto(w, Leaving(w))
  /\ UNCHANGED <<queue, retry, lease, stage, enqueued, dlq, blocked, deleted, gen,
                 inflight, stalled, src, world, got, faults, stalls>>

\* Mutation: the dead-letter queue takes every job.
AlwaysStorable(j) == TRUE

\* STORE_DLQ_LUA keeps nothing of a recipient that was deleted meanwhile.
Storable(j) == Current(j)

CommitFail(w) ==
  LET j == wk[w].job IN
  /\ At(w, "commit") /\ wk[w].plan = "fail"
  /\ dlq' = IF Storable(j) THEN dlq \cup {j} ELSE dlq
  /\ stage' = IF Storable(j) THEN [stage EXCEPT ![j.step] = "failed"] ELSE stage
  /\ XAck(wk[w].id)
  /\ retry' = [retry EXCEPT ![wk[w].id] = 0]
  /\ Goto(w, Leaving(w))
  /\ UNCHANGED <<queue, lease, delayed, enqueued, blocked, deleted, gen, inflight,
                 stalled, src, world, got, faults, stalls>>

SlotsLeft == IF inflight <= 1 THEN 0 ELSE inflight - 1

\* END_DELIVERY_LUA, from the finally clause.
End(w) ==
  /\ At(w, "end")
  /\ inflight' = SlotsLeft
  /\ wk' = [wk EXCEPT ![w].pc = "release", ![w].reserved = FALSE]
  /\ UNCHANGED <<queue, entry, owner, idle, retry, lease, delayed, stage,
                 enqueued, dlq, blocked, deleted, gen, stalled, src, world, got,
                 faults, stalls>>

-----------------------------------------------------------------------------
(* Failures of a consumer.                                                 *)

\* An await raises (Redis or database error, budget): the handler unwinds.
Cancel(w) ==
  /\ Runs(w) /\ wk[w].pc \in Working \ {"end"}
  /\ faults < MaxFaults
  /\ faults' = faults + 1
  /\ Goto(w, Leaving(w))
  /\ UNCHANGED <<redis, stalled, src, world, got, stalls>>

\* The process dies, or the cleanup calls fail too: the slot and the lease
\* stay behind until their keys expire.
Crash(w) ==
  /\ wk[w].pc # "idle"
  /\ faults < MaxFaults
  /\ faults' = faults + 1
  /\ lease' = [s \in Stages |-> IF lease[s] = w THEN Orphan ELSE lease[s]]
  /\ wk' = [wk EXCEPT ![w] = Rest]
  /\ stalled' = stalled \ {w}
  /\ UNCHANGED <<queue, entry, owner, idle, retry, delayed, stage, enqueued, dlq,
                 blocked, deleted, gen, inflight, src, world, got, stalls>>

\* A consumer is suspended for longer than its lease, and goes on later with
\* the await it was about to issue.
Stall(w) ==
  /\ wk[w].pc # "idle" /\ w \notin stalled
  /\ stalls < MaxStalls
  /\ stalls' = stalls + 1
  /\ stalled' = stalled \cup {w}
  /\ UNCHANGED <<redis, wk, src, world, got, faults>>

Resume(w) ==
  /\ w \in stalled
  /\ stalled' = stalled \ {w}
  /\ UNCHANGED <<redis, wk, src, world, got, faults, stalls>>

-----------------------------------------------------------------------------
(* The passage of time.                                                    *)

\* A lease expires 90 s after its last renewal; heartbeats come every 15 s.
LeaseExpires(s) ==
  /\ lease[s] \in {Orphan} \cup stalled
  /\ lease' = [lease EXCEPT ![s] = None]
  /\ UNCHANGED <<queue, entry, owner, idle, retry, delayed, stage, enqueued, dlq,
                 blocked, deleted, gen, inflight, wk, stalled, src, world, got,
                 faults, stalls>>

\* A consumer that works on entry i as its owner keeps resetting its idle time.
Tended(i) == \E w \in Workers \ stalled :
                wk[w].pc # "idle" /\ wk[w].id = i /\ owner[i] = w

\* A pending entry nobody tends becomes idle after 360 s, when a lease renewed
\* together with it has long expired.
GoesIdle(i) ==
  /\ entry[i] # None /\ owner[i] # None /\ i \notin idle
  /\ ~Tended(i)
  /\ lease[entry[i].step] \notin {Orphan} \cup stalled
  /\ idle' = idle \cup {i}
  /\ UNCHANGED <<queue, entry, owner, retry, lease, delayed, stage, enqueued, dlq,
                 blocked, deleted, gen, inflight, wk, stalled, src, world, got,
                 faults, stalls>>

\* privacy:inflight expires 600 s after the last reservation; a delivery may
\* take 330 s, so only slots left behind, or held by a suspended consumer.
SlotsExpire ==
  /\ inflight > 0
  /\ \A w \in Workers : wk[w].reserved => w \in stalled
  /\ inflight' = 0
  /\ UNCHANGED <<queue, entry, owner, idle, retry, lease, delayed, stage,
                 enqueued, dlq, blocked, deleted, gen, wk, stalled, src, world,
                 got, faults, stalls>>

WorldOnly == <<redis, wk, stalled, src, got, faults, stalls>>

Ageing ==
  /\ "age" \in Moves /\ age # "expired"
  /\ age' = IF age = "fresh" THEN "old" ELSE "expired"
  /\ UNCHANGED <<WorldOnly, night, muted, cleared>>

DayOrNight ==
  /\ "night" \in Moves
  /\ night' = ~night
  /\ UNCHANGED <<WorldOnly, age, muted, cleared>>

\* acknowledge_alert and the mute presets, and the end of a mute.
MuteOrUnmute ==
  /\ "mute" \in Moves
  /\ muted' = ~muted
  /\ UNCHANGED <<WorldOnly, age, night, cleared>>

\* The source worker records a newer all-clear for a scope.
RecordClear ==
  /\ "clear" \in Moves
  /\ \E c \in Scopes \ cleared : cleared' = cleared \cup {c}
  /\ UNCHANGED <<WorldOnly, age, night, muted>>

-----------------------------------------------------------------------------

Handle(w) ==
  \/ AcquireLease(w) \/ ReleaseLease(w)
  \/ CheckGate(w) \/ CheckOwnStage(w) \/ CheckClear(w) \/ CheckPrior(w)
  \/ CheckCutoff(w) \/ CheckBlocked(w)
  \/ AcquireRate(w) \/ Guard(w) \/ Begin(w) \/ Send(w)
  \/ RecordSent(w) \/ CountFailure(w) \/ FailPermanently(w)
  \/ CommitAck(w) \/ CommitSkip(w) \/ CommitRequeue(w) \/ CommitFail(w)
  \/ End(w)

Next ==
  \/ ReadGeneration \/ Enqueue
  \/ \E j \in delayed : PopMature(j)
  \/ \E w \in Workers :
       \/ \E i \in idle : ClaimIdle(w, i)
       \/ ReadNew(w) \/ Handle(w) \/ Heartbeat(w)
       \/ Cancel(w) \/ Crash(w) \/ Stall(w) \/ Resume(w)
  \/ \E s \in Stages : LeaseExpires(s)
  \/ \E i \in Ids : GoesIdle(i)
  \/ SlotsExpire
  \/ Ageing \/ DayOrNight \/ MuteOrUnmute \/ RecordClear

Spec == Init /\ [][Next]_vars

\* A consumer keeps stepping and is resumed; on every pass of its loop it tries
\* XAUTOCLAIM, whose cursor wraps around, and XREADGROUP, so an entry that is
\* offered again and again is taken; the transfer loop moves every due member;
\* keys expire.  Telegram answers or the request times out after 120 s.
Fairness ==
  /\ WF_vars(Enqueue)
  /\ \A s \in Stages : WF_vars(\E j \in delayed : j.step = s /\ PopMature(j))
  /\ \A w \in Workers : /\ WF_vars(Handle(w))
                        /\ WF_vars(Resume(w))
  /\ \A i \in Ids : SF_vars(\E w \in Workers : ClaimIdle(w, i))
  /\ SF_vars(\E w \in Workers : ReadNew(w))
  /\ \A s \in Stages : WF_vars(LeaseExpires(s))
  /\ \A i \in Ids : WF_vars(GoesIdle(i))
  /\ WF_vars(SlotsExpire)

FairSpec == Spec /\ Fairness

-----------------------------------------------------------------------------
(* Properties.                                                             *)

\* A job of stage s exists that a consumer can still reach.
Live(s) == \/ \E j \in delayed : j.step = s
           \/ \E i \in Ids : entry[i] # None /\ entry[i].step = s

\* No stage that ENQUEUE_ALERT_LUA stored is lost: until its state is recorded
\* (or the event is seven days old) a job for it is queued, pending or delayed,
\* whatever crashes, hand-overs and re-queueing happen in between.
NoStageLost ==
  \A s \in enqueued : stage[s] # "none" \/ Live(s) \/ age = "expired"

\* Stages reach the recipient in order: Telegram never accepts a reminder
\* before it accepted the stage in front of it (_deliver_one's prior_state).
StagesInOrder == \A s \in Stages : s > 1 /\ got[s] > 0 => got[s - 1] > 0

\* A chain that was given up stays silent: once a stage is recorded as skipped
\* or failed no later stage has been or is ever accepted by Telegram, unless a
\* consumer was suspended beyond its lease.
GiveUpEndsChain ==
  stalls = 0 =>
    \A s, t \in Stages : s < t /\ stage[s] \in {"skipped", "failed"} => got[t] = 0

\* Every copy of a stage beyond the first is paid for by a fault: a lost
\* answer, a cancelled or dead consumer, or one suspended beyond its lease.
DuplicatesNeedFaults == \A s \in Stages : got[s] <= 1 + faults + stalls

\* The consumers, with their leases, hand-overs, retries and re-queueing, implement
\* Chain: unless one of them was suspended beyond its lease (it still writes what it
\* had decided before) a stage is settled once, "sent" is final, and a reminder goes
\* out only while it is unsettled and the stage before it is recorded as sent.
C == INSTANCE Chain WITH offered <- enqueued,
                         accepted <- {s \in Stages : got[s] > 0},
                         status <- stage,
                         lapsed <- stalls > 0

ImplementsChain == C!Spec

\* "Clear after the source ID cancels the relevant repeats" (docs/asvs_assurance.md):
\* no reminder reserves its send while a newer all-clear covers the event.
ClearCancelsReminders ==
  [][\A w \in Workers :
       wk[w].pc = "begin" /\ wk'[w].pc = "sending" /\ Cancelled => wk[w].job.step = 1]_vars

\* A stage the script stored is eventually settled: sent, skipped or failed, unless
\* the event has become seven days old, when its jobs are dropped without a record.
EventuallySettled ==
  \A s \in Stages : s \in enqueued ~> stage[s] # "none" \/ age = "expired"
=============================================================================
