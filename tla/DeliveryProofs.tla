--------------------------- MODULE DeliveryProofs ---------------------------
(***************************************************************************)
(* For every number of consumers, operations, entries, stages, attempts    *)
(* and failures:                                                           *)
(*  - deliveries are well typed and the stages of a chain arrive in order; *)
(*  - no stage of a chain is lost, and the delivery implements Chain;      *)
(*  - every copy of a stage beyond the first is paid for by a fault;       *)
(*  - an erased recipient is sent nothing and stays erased.                *)
(***************************************************************************)
EXTENDS Privacy, TLAPS, FiniteSetTheorems

-----------------------------------------------------------------------------
(***************************************************************************)
(* Delivery: types, and the order of the stages.                           *)
(***************************************************************************)

\* An unread entry has a payload, no consumer, and occurs once in the stream;
\* nobody works on it yet.
Unread ==
  /\ \A n \in 1..Len(queue) : /\ entry[queue[n]] # None
                              /\ owner[queue[n]] = None
                              /\ \A w \in Workers : wk[w].id # queue[n]
  /\ \A m, n \in 1..Len(queue) : m # n => queue[m] # queue[n]

\* An idle entry is pending.
IdlePending == \A i \in idle : entry[i] # None /\ owner[i] # None

\* The consumer has seen that the stage before its own was sent.
Past == {"cutoff", "blocked", "rate", "guard", "begin", "sending"}

\* What is recorded or answered as sent was accepted, and who is past the prior
\* check of a reminder knows that the stage before it was accepted.
Ordered ==
  /\ \A s \in Stages : stage[s] = "sent" => got[s] > 0
  /\ \A w \in Workers : wk[w].pc \in Past /\ wk[w].job.step > 1
                          => got[wk[w].job.step - 1] > 0
  /\ \A w \in Workers : wk[w].pc = "answer" /\ wk[w].plan = "sent"
                          => got[wk[w].job.step] > 0

IInv == TypeOK /\ Unread /\ IdlePending /\ Ordered /\ StagesInOrder

\* Consumer w goes on with its job while the others stay where they are.
GoesOn(w) ==
  /\ wk' \in [Workers -> Worker]
  /\ wk[w].pc # "idle" /\ wk'[w].pc # "idle"
  /\ wk'[w].id = wk[w].id /\ wk'[w].job = wk[w].job
  /\ \A v \in Workers \ {w} : wk'[v] = wk[v]

\* Consumer w is back at the head of its loop.
Resets(w) ==
  /\ wk' \in [Workers -> Worker]
  /\ wk'[w] = Rest
  /\ \A v \in Workers \ {w} : wk'[v] = wk[v]

-----------------------------------------------------------------------------
(* The updates of a consumer.                                              *)

LEMMA JobFacts ==
  ASSUME NEW j \in Job PROVE j.step \in Stages /\ j.gen \in Nat /\ j # None
BY DeliveryAssumption DEF Job

LEMMA GotoFacts ==
  ASSUME TypeOK, NEW w \in Workers, wk[w].pc # "idle", NEW pc \in PCs \ {"idle"},
         Goto(w, pc)
  PROVE  GoesOn(w) /\ wk'[w].pc = pc /\ wk'[w].plan = wk[w].plan
<1>1. wk \in [Workers -> Worker] /\ wk[w] \in Worker
  BY DEF TypeOK
<1>2. wk' = [wk EXCEPT ![w] = [wk[w] EXCEPT !.pc = pc]]
  BY DEF Goto
<1>3. [wk[w] EXCEPT !.pc = pc] \in Worker
  BY <1>1 DEF Worker
<1> QED
  BY <1>1, <1>2, <1>3 DEF GoesOn, Worker

LEMMA PlanFacts ==
  ASSUME TypeOK, NEW w \in Workers, wk[w].pc # "idle", NEW pc \in PCs \ {"idle"},
         NEW plan \in Plans, wk' = [wk EXCEPT ![w].pc = pc, ![w].plan = plan]
  PROVE  GoesOn(w) /\ wk'[w].pc = pc /\ wk'[w].plan = plan
<1>1. wk \in [Workers -> Worker] /\ wk[w] \in Worker
  BY DEF TypeOK
<1>2. wk' = [wk EXCEPT ![w] = [wk[w] EXCEPT !.pc = pc, !.plan = plan]]
  BY <1>1
<1>3. [wk[w] EXCEPT !.pc = pc, !.plan = plan] \in Worker
  BY <1>1 DEF Worker
<1> QED
  BY <1>1, <1>2, <1>3 DEF GoesOn, Worker

LEMMA SlotFacts ==
  ASSUME TypeOK, NEW w \in Workers, wk[w].pc # "idle", NEW pc \in PCs \ {"idle"},
         NEW r \in BOOLEAN, wk' = [wk EXCEPT ![w].pc = pc, ![w].reserved = r]
  PROVE  GoesOn(w) /\ wk'[w].pc = pc /\ wk'[w].plan = wk[w].plan
<1>1. wk \in [Workers -> Worker] /\ wk[w] \in Worker
  BY DEF TypeOK
<1>2. wk' = [wk EXCEPT ![w] = [wk[w] EXCEPT !.pc = pc, !.reserved = r]]
  BY <1>1
<1>3. [wk[w] EXCEPT !.pc = pc, !.reserved = r] \in Worker
  BY <1>1 DEF Worker
<1> QED
  BY <1>1, <1>2, <1>3 DEF GoesOn, Worker

LEMMA ResetFacts ==
  ASSUME TypeOK, NEW w \in Workers, wk' = [wk EXCEPT ![w] = Rest]
  PROVE  Resets(w)
<1>1. Rest \in Worker
  BY DEF Rest, Worker, PCs, Plans
<1> QED
  BY <1>1 DEF TypeOK, Resets

LEMMA LeavingFacts ==
  ASSUME NEW w PROVE Leaving(w) \in {"end", "release"}
BY DEF Leaving

-----------------------------------------------------------------------------
(* The parts of the invariant that a step keeps.                           *)

\* The stream and the group are left alone.
LEMMA KeepsQueue ==
  ASSUME IInv, NEW w \in Workers, GoesOn(w) \/ Resets(w) \/ UNCHANGED wk,
         UNCHANGED <<queue, entry, owner>>, idle' \subseteq idle
  PROVE  Unread' /\ IdlePending'
<1>1. \A n \in 1..Len(queue) : queue[n] \in Ids
  BY DEF IInv, TypeOK
<1>2. \A v \in Workers : wk'[v].id \in {wk[v].id, None}
  BY DEF GoesOn, Resets, Rest
<1> QED
  BY <1>1, <1>2, DeliveryAssumption DEF IInv, Unread, IdlePending

\* A consumer acknowledges the entry it works on.
LEMMA Acks ==
  ASSUME IInv, NEW w \in Workers, GoesOn(w), XAck(wk[w].id), UNCHANGED queue
  PROVE  /\ Unread' /\ IdlePending'
         /\ entry' \in [Ids -> Job \cup {None}]
         /\ owner' \in [Ids -> Workers \cup {None}]
         /\ idle' \subseteq Ids
<1>1. wk[w].id \in Ids
  BY DEF IInv, TypeOK, GoesOn
<1>2. \A v \in Workers : wk'[v].id = wk[v].id
  BY DEF GoesOn
<1>3. \A n \in 1..Len(queue) : queue[n] \in Ids /\ queue[n] # wk[w].id
  BY DEF IInv, TypeOK, Unread
<1> QED
  BY <1>1, <1>2, <1>3 DEF IInv, TypeOK, XAck, Unread, IdlePending

\* A job enters the stream.
LEMMA Adds ==
  ASSUME IInv, NEW j \in Job, XAdd(j), UNCHANGED wk
  PROVE  /\ Unread' /\ IdlePending'
         /\ queue' \in Seq(Ids)
         /\ entry' \in [Ids -> Job \cup {None}]
         /\ owner' \in [Ids -> Workers \cup {None}]
         /\ idle' \subseteq Ids
         /\ retry' \in [Ids -> 0..MaxAttempts]
<1>1. PICK i \in Ids :
        /\ i \in Free
        /\ queue' = Append(queue, i)
        /\ entry' = [entry EXCEPT ![i] = j]
        /\ owner' = [owner EXCEPT ![i] = None]
        /\ idle' = idle \ {i}
        /\ retry' = [retry EXCEPT ![i] = 0]
  BY DEF XAdd, Free
<1>2. entry[i] = None /\ \A w \in Workers : wk[w].id # i
  BY <1>1 DEF Free
<1>3. queue \in Seq(Ids) /\ \A n \in 1..Len(queue) : queue[n] \in Ids /\ queue[n] # i
  BY <1>2 DEF IInv, TypeOK, Unread
<1>4. /\ Len(queue') = Len(queue) + 1
      /\ \A n \in 1..Len(queue) : queue'[n] = queue[n]
      /\ queue'[Len(queue) + 1] = i
      /\ queue' \in Seq(Ids)
  BY <1>1, <1>3
<1>5. j # None
  BY JobFacts
<1>6. Unread'
  BY <1>1, <1>2, <1>3, <1>4, <1>5 DEF IInv, TypeOK, Unread
<1> QED
  BY <1>1, <1>4, <1>5, <1>6, DeliveryAssumption DEF IInv, TypeOK, IdlePending

\* A consumer goes on with nothing new to account for.
LEMMA KeepsOrder ==
  ASSUME IInv, NEW w \in Workers, GoesOn(w) \/ Resets(w) \/ UNCHANGED wk,
         UNCHANGED <<stage, got>>,
         wk'[w].pc \in Past =>
           wk[w].pc \in Past \/ wk[w].job.step <= 1 \/ got[wk[w].job.step - 1] > 0,
         wk'[w].pc = "answer" => wk'[w].plan # "sent" \/ UNCHANGED wk
  PROVE  Ordered' /\ StagesInOrder'
<1>1. Ordered /\ StagesInOrder
  BY DEF IInv
<1>2. /\ \A s \in Stages : stage'[s] = "sent" => got'[s] > 0
      /\ StagesInOrder'
  BY <1>1 DEF Ordered, StagesInOrder
<1>3. ASSUME NEW v \in Workers, wk'[v].pc \in Past, wk'[v].job.step > 1
      PROVE  got'[wk'[v].job.step - 1] > 0
  <2>1. CASE wk'[v] = wk[v]
    BY <1>1, <1>3, <2>1 DEF Ordered
  <2>2. CASE v = w /\ GoesOn(w)
    <3>1. wk[w].job \in Job /\ wk'[w].job = wk[w].job
      BY <2>2 DEF IInv, TypeOK, GoesOn
    <3>2. wk[w].job.step \in Nat
      BY <3>1, JobFacts DEF Stages
    <3> QED
      BY <1>1, <1>3, <2>2, <3>1, <3>2 DEF Ordered
  <2>3. CASE v = w /\ Resets(w)
    BY <1>3, <2>3 DEF Resets, Rest, Past
  <2> QED
    BY <2>1, <2>2, <2>3 DEF GoesOn, Resets
<1>4. ASSUME NEW v \in Workers, wk'[v].pc = "answer", wk'[v].plan = "sent"
      PROVE  got'[wk'[v].job.step] > 0
  <2>1. CASE wk'[v] = wk[v]
    BY <1>1, <1>4, <2>1 DEF Ordered
  <2>2. CASE v = w /\ ~UNCHANGED wk
    BY <1>4, <2>2
  <2> QED
    BY <2>1, <2>2 DEF GoesOn, Resets
<1> QED
  BY <1>2, <1>3, <1>4 DEF Ordered

\* The step is one of a consumer that changes no more than its own record and
\* some of the keys that have no part in the invariant but their types.
Bystanders == <<queue, entry, owner, idle, retry, lease, delayed, stage, enqueued,
                dlq, deleted, gen, src, world, got, stalls>>

LEMMA ReadsOnly ==
  ASSUME IInv, NEW w \in Workers, GoesOn(w), UNCHANGED Bystanders,
         blocked' \in BOOLEAN, inflight' \in Nat, stalled' \subseteq Workers,
         faults' \in 0..MaxFaults,
         wk'[w].pc \in Past =>
           wk[w].pc \in Past \/ wk[w].job.step <= 1 \/ got[wk[w].job.step - 1] > 0,
         wk'[w].pc = "answer" => wk'[w].plan # "sent"
  PROVE  IInv'
<1>1. UNCHANGED <<queue, entry, owner, idle, stage, got>>
  BY DEF Bystanders
<1>2. Unread' /\ IdlePending' /\ Ordered' /\ StagesInOrder'
  BY <1>1, KeepsQueue, KeepsOrder
<1>3. \A v \in Workers : wk'[v].pc # "idle" => wk'[v].id \in Ids /\ wk'[v].job \in Job
  BY DEF IInv, TypeOK, GoesOn
<1>4. TypeOK'
  BY <1>3 DEF IInv, TypeOK, GoesOn, Bystanders, world
<1> QED
  BY <1>2, <1>4 DEF IInv

\* A consumer goes to its next await, or decides what to write.
LEMMA Proceeds ==
  ASSUME IInv, NEW w \in Workers, wk[w].pc # "idle", UNCHANGED Bystanders,
         blocked' \in BOOLEAN, inflight' \in Nat, stalled' \subseteq Workers,
         faults' \in 0..MaxFaults,
         NEW pc \in PCs \ {"idle", "answer"}, Goto(w, pc),
         pc \in Past =>
           wk[w].pc \in Past \/ wk[w].job.step <= 1 \/ got[wk[w].job.step - 1] > 0
  PROVE  IInv'
<1>1. GoesOn(w) /\ wk'[w].pc = pc
  BY GotoFacts DEF IInv
<1> QED
  BY <1>1, ReadsOnly

LEMMA Decides ==
  ASSUME IInv, NEW w \in Workers, wk[w].pc # "idle", UNCHANGED Bystanders,
         blocked' \in BOOLEAN, inflight' \in Nat, stalled' \subseteq Workers,
         faults' \in 0..MaxFaults,
         NEW plan \in Plans, Commit(w, plan)
  PROVE  IInv'
<1>1. GoesOn(w) /\ wk'[w].pc = "commit"
  BY PlanFacts DEF IInv, Commit, PCs, Working
<1> QED
  BY <1>1, ReadsOnly DEF Past

-----------------------------------------------------------------------------
(* The steps.                                                              *)

LEMMA InitIInv == Init => IInv
<1> SUFFICES ASSUME Init PROVE IInv
  OBVIOUS
<1>1. Rest \in Worker /\ NoCall \in [pc : {"idle", "read"}, gen : Nat, stale : BOOLEAN]
  BY DEF Rest, Worker, PCs, Plans, NoCall
<1>2. /\ queue \in Seq(Ids)
      /\ entry \in [Ids -> Job \cup {None}]
      /\ owner \in [Ids -> Workers \cup {None}]
      /\ lease \in [Stages -> Workers \cup {None, Orphan}]
  BY DEF Init
<1>3. /\ retry \in [Ids -> 0..MaxAttempts]
      /\ got \in [Stages -> Nat]
      /\ faults \in 0..MaxFaults /\ stalls \in 0..MaxStalls
      /\ gen \in Nat /\ inflight \in Nat
  BY DeliveryAssumption DEF Init
<1>4. /\ stage \in [Stages -> States]
      /\ wk \in [Workers -> Worker]
      /\ \A w \in Workers : wk[w].pc = "idle" /\ wk[w].id = None
      /\ src \in [pc : {"idle", "read"}, gen : Nat, stale : BOOLEAN]
      /\ age \in Ages
  BY <1>1 DEF Init, States, Ages, Rest
<1>5. TypeOK
  BY <1>2, <1>3, <1>4 DEF Init, TypeOK
<1> QED
  BY <1>4, <1>5 DEF Init, IInv, Unread, IdlePending, Ordered, StagesInOrder, Past, Stages

\* The reads before the send and the wait for the rate limiter.
LEMMA CheckSteps ==
  ASSUME IInv, NEW w \in Workers,
         \/ CheckGate(w) \/ CheckOwnStage(w) \/ CheckClear(w) \/ CheckPrior(w)
         \/ CheckCutoff(w) \/ CheckBlocked(w) \/ AcquireRate(w)
  PROVE  IInv'
<1> USE DEF At, PCs, Working, Checks, Plans
<1>0. TypeOK /\ Ordered
  BY DEF IInv
<1>1. /\ UNCHANGED Reading => UNCHANGED Bystanders
      /\ UNCHANGED Reading => blocked' \in BOOLEAN /\ inflight' \in Nat
                              /\ stalled' \subseteq Workers /\ faults' \in 0..MaxFaults
  BY <1>0 DEF TypeOK, Reading, Bystanders, redis
<1>2. wk[w].pc # "idle" => wk[w].job.step \in Stages
  BY <1>0, JobFacts DEF TypeOK
<1>3. CASE CheckGate(w)
  BY <1>1, <1>3, Proceeds, Decides DEF CheckGate, Past
<1>4. CASE CheckOwnStage(w)
  <2>1. CASE Commit(w, "ack")
    BY <1>1, <1>4, <2>1, Decides DEF CheckOwnStage
  <2>2. CASE wk[w].job.step > 1 /\ Goto(w, "clear")
    BY <1>1, <1>4, <2>2, Proceeds DEF CheckOwnStage, Past
  <2>3. CASE ~(wk[w].job.step > 1) /\ Goto(w, "blocked")
    <3>1. wk[w].job.step <= 1
      BY <1>2, <1>4, <2>3 DEF CheckOwnStage, Stages
    <3> QED
      BY <1>1, <1>4, <2>3, <3>1, Proceeds DEF CheckOwnStage
  <2> QED
    BY <1>4, <2>1, <2>2, <2>3 DEF CheckOwnStage
<1>5. CASE CheckClear(w)
  BY <1>1, <1>5, Proceeds, Decides DEF CheckClear, Past
<1>6. CASE CheckPrior(w)
  <2>1. ASSUME NEW plan \in {"skip", "fail", "requeue"}, Commit(w, plan) PROVE IInv'
    BY <1>1, <1>6, <2>1, Decides DEF CheckPrior
  <2>2. CASE stage[wk[w].job.step - 1] = "sent" /\ Goto(w, "cutoff")
    <3>1. wk[w].job.step <= 1 \/ wk[w].job.step - 1 \in Stages
      <4>1. wk[w].job.step \in 1..LastStage
        BY <1>2, <1>6 DEF CheckPrior, Stages
      <4> QED
        BY <4>1, DeliveryAssumption DEF Stages
    <3>2. wk[w].job.step <= 1 \/ got[wk[w].job.step - 1] > 0
      BY <1>0, <2>2, <3>1 DEF Ordered
    <3> QED
      BY <1>1, <1>6, <2>2, <3>2, Proceeds DEF CheckPrior
  <2> QED
    BY <1>6, <2>1, <2>2 DEF CheckPrior
<1>7. CASE CheckCutoff(w)
  BY <1>1, <1>7, Proceeds, Decides DEF CheckCutoff, Past
<1>8. CASE CheckBlocked(w)
  BY <1>1, <1>8, Proceeds, Decides DEF CheckBlocked, Past
<1>9. CASE AcquireRate(w)
  <2>1. CASE Goto(w, "guard")
    BY <1>1, <1>9, <2>1, Proceeds DEF AcquireRate, Past
  <2>2. CASE wk' = [wk EXCEPT ![w].pc = "answer", ![w].plan = "retry"]
    <3>1. GoesOn(w) /\ wk'[w].pc = "answer" /\ wk'[w].plan = "retry"
      BY <1>0, <1>9, <2>2, PlanFacts DEF AcquireRate
    <3> QED
      BY <1>1, <1>9, <3>1, ReadsOnly DEF AcquireRate, Past
  <2> QED
    BY <1>9, <2>1, <2>2 DEF AcquireRate
<1> QED
  BY <1>3, <1>4, <1>5, <1>6, <1>7, <1>8, <1>9

\* The steps that write a key of their own, and a cancelled handler.
LEMMA SlotSteps ==
  ASSUME IInv, NEW w \in Workers,
         Begin(w) \/ FailPermanently(w) \/ End(w) \/ Cancel(w)
  PROVE  IInv'
<1> USE DEF At, PCs, Working, Checks, Plans
<1>0. TypeOK
  BY DEF IInv
<1>1. blocked \in BOOLEAN /\ inflight \in Nat /\ stalled \subseteq Workers
      /\ faults \in 0..MaxFaults
  BY <1>0 DEF TypeOK
<1>2. CASE Begin(w)
  <2>1. wk[w].pc = "begin" /\ UNCHANGED Bystanders /\ UNCHANGED <<blocked, stalled, faults>>
    BY <1>2 DEF Begin, Bystanders
  <2>2. ASSUME NEW plan \in {"ack", "skip"}, Commit(w, plan), UNCHANGED inflight
        PROVE  IInv'
    BY <1>1, <2>1, <2>2, Decides
  <2>3. CASE /\ wk' = [wk EXCEPT ![w].pc = "sending", ![w].reserved = TRUE]
             /\ inflight' = inflight + 1
    <3>0. inflight' \in Nat
      BY <1>1, <2>3
    <3>1. GoesOn(w) /\ wk'[w].pc = "sending"
      BY <1>0, <2>1, <2>3, SlotFacts
    <3>2. blocked' \in BOOLEAN /\ stalled' \subseteq Workers /\ faults' \in 0..MaxFaults
      BY <1>1, <2>1
    <3>3. wk[w].pc \in Past /\ wk'[w].pc # "answer"
      BY <2>1, <3>1 DEF Past
    <3> QED
      BY <2>1, <3>0, <3>1, <3>2, <3>3, ReadsOnly, Zenon
  <2> QED
    BY <1>2, <2>2, <2>3 DEF Begin
<1>3. CASE FailPermanently(w)
  <2>1. UNCHANGED Bystanders /\ UNCHANGED <<inflight, stalled, faults>>
        /\ blocked' \in BOOLEAN
    BY <1>1, <1>3 DEF FailPermanently, Bystanders
  <2> QED
    BY <1>1, <1>3, <2>1, Decides DEF FailPermanently
<1>4. CASE End(w)
  <2>1. UNCHANGED Bystanders /\ UNCHANGED <<blocked, stalled, faults>> /\ inflight' \in Nat
    BY <1>1, <1>4 DEF End, SlotsLeft, Bystanders
  <2>2. GoesOn(w) /\ wk'[w].pc = "release"
    BY <1>0, <1>4, SlotFacts DEF End
  <2> QED
    BY <1>1, <2>1, <2>2, ReadsOnly DEF Past
<1>5. CASE Cancel(w)
  <2>1. UNCHANGED Bystanders /\ UNCHANGED <<blocked, inflight, stalled>>
    BY <1>5 DEF Cancel, Bystanders, redis
  <2>2. faults' \in 0..MaxFaults
    BY <1>1, <1>5, DeliveryAssumption DEF Cancel
  <2> QED
    BY <1>1, <1>5, <2>1, <2>2, LeavingFacts, Proceeds DEF Cancel, Past
<1> QED
  BY <1>2, <1>3, <1>4, <1>5

\* The steps that take, renew or give up a lease.
LEMMA LeaseSteps ==
  ASSUME IInv, NEW w \in Workers,
         AcquireLease(w) \/ Heartbeat(w) \/ ReleaseLease(w) \/ Guard(w)
  PROVE  IInv'
<1> USE DEF At, PCs, Working, Checks
<1>0. TypeOK
  BY DEF IInv
<1> DEFINE others == <<queue, entry, owner, retry, delayed, stage, enqueued, dlq,
                       blocked, deleted, gen, inflight, stalled, src, world, got,
                       faults, stalls>>
<1>1. wk[w].pc # "idle" /\ UNCHANGED others
  BY DEF AcquireLease, Heartbeat, ReleaseLease, Guard
<1>2. wk[w].job.step \in Stages /\ wk[w].id \in Ids
  BY <1>0, <1>1, JobFacts DEF TypeOK
<1>3. /\ lease' \in [Stages -> Workers \cup {None, Orphan}]
      /\ idle' \subseteq idle
  <2>1. Renew(w) \/ UNCHANGED <<lease, idle>> \/ ReleaseLease(w)
    BY DEF AcquireLease, Heartbeat, Guard
  <2>2. lease \in [Stages -> Workers \cup {None, Orphan}]
    BY <1>0 DEF TypeOK
  <2>3. CASE Renew(w)
    BY <1>2, <2>2, <2>3 DEF Renew
  <2>4. CASE ReleaseLease(w)
    BY <1>2, <2>2, <2>4 DEF ReleaseLease
  <2> QED
    BY <2>1, <2>2, <2>3, <2>4
<1>4. \/ Resets(w)
      \/ UNCHANGED wk
      \/ GoesOn(w) /\ wk'[w].pc \in {"gate", "release", "end"}
      \/ GoesOn(w) /\ wk'[w].pc = "begin" /\ wk[w].pc = "guard"
  <2>1. CASE wk' = [wk EXCEPT ![w] = Rest]
    BY <1>0, <2>1, ResetFacts
  <2>2. ASSUME NEW pc \in {"gate", "release", "end"}, Goto(w, pc)
        PROVE  GoesOn(w) /\ wk'[w].pc = pc
    BY <1>0, <1>1, <2>2, GotoFacts
  <2>3. CASE Goto(w, "begin") /\ wk[w].pc = "guard"
    BY <1>0, <1>1, <2>3, GotoFacts
  <2>4. CASE wk' = [wk EXCEPT ![w].pc = "release", ![w].reserved = FALSE]
    BY <1>0, <1>1, <2>4, SlotFacts
  <2>5. Leaving(w) \in {"gate", "release", "end"}
    BY LeavingFacts
  <2> QED
    BY <2>1, <2>2, <2>3, <2>4, <2>5 DEF AcquireLease, Heartbeat, ReleaseLease, Guard
<1>5. Unread' /\ IdlePending'
  BY <1>1, <1>3, <1>4, KeepsQueue
<1>6. Ordered' /\ StagesInOrder'
  <2>1. UNCHANGED <<stage, got>>
    BY <1>1
  <2>2. CASE UNCHANGED wk
    BY <2>1, <2>2, KeepsOrder
  <2>3. CASE Resets(w)
    <3>1. wk'[w].pc = "idle"
      BY <2>3 DEF Resets, Rest
    <3> QED
      BY <2>1, <2>3, <3>1, KeepsOrder DEF Past
  <2>4. CASE GoesOn(w) /\ wk'[w].pc \in {"gate", "release", "end"}
    BY <2>1, <2>4, KeepsOrder DEF Past
  <2>5. CASE GoesOn(w) /\ wk'[w].pc = "begin" /\ wk[w].pc = "guard"
    BY <2>1, <2>5, KeepsOrder DEF Past
  <2> QED
    BY <1>4, <2>2, <2>3, <2>4, <2>5
<1>7. TypeOK'
  <2>1. wk' \in [Workers -> Worker]
    BY <1>0, <1>4 DEF TypeOK, Resets, GoesOn
  <2>2. \A v \in Workers : wk'[v].pc # "idle" => wk'[v].id \in Ids /\ wk'[v].job \in Job
    <3>1. ASSUME NEW v \in Workers
          PROVE  wk'[v].pc = "idle" \/ (wk[v].pc # "idle" /\ wk'[v].id = wk[v].id
                                       /\ wk'[v].job = wk[v].job)
                 \/ wk'[v] = wk[v]
      BY <1>4 DEF Resets, GoesOn, Rest
    <3> QED
      BY <1>0, <3>1 DEF TypeOK
  <2> QED
    BY <1>0, <1>1, <1>3, <2>1, <2>2 DEF TypeOK, world
<1> QED
  BY <1>5, <1>6, <1>7 DEF IInv

\* Telegram's answer: got only grows, and an acceptance is accounted for.
LEMMA SendStep ==
  ASSUME IInv, NEW w \in Workers, Send(w)
  PROVE  IInv'
<1>0. TypeOK /\ Ordered /\ StagesInOrder
  BY DEF IInv
<1>1. wk[w].pc = "sending" /\ UNCHANGED <<redis, stalled, src, world, stalls>>
  BY DEF Send, At
<1> DEFINE s == wk[w].job.step
<1>2. s \in Stages /\ s \in Nat
  BY <1>0, <1>1, JobFacts DEF TypeOK, Stages
<1>3. \/ got' = got
      \/ got' = [got EXCEPT ![s] = got[s] + 1]
  BY DEF Send
<1>4. faults' \in 0..MaxFaults
  BY <1>0, DeliveryAssumption DEF Send, TypeOK
<1>5. PICK a \in {"sent", "retry", "blocked", "permanent"} :
        Answer(w, a) /\ (a = "sent" => got' = [got EXCEPT ![s] = got[s] + 1])
  BY DEF Send
<1>6. GoesOn(w) /\ wk'[w].pc = "answer" /\ wk'[w].plan = a
  BY <1>0, <1>1, <1>5, PlanFacts DEF Answer, PCs, Working, Plans
<1>7. /\ got' \in [Stages -> Nat]
      /\ \A t \in Stages : got[t] > 0 => got'[t] > 0
      /\ \A t \in Stages : got'[t] > 0 => got[t] > 0 \/ t = s
      /\ a = "sent" => got'[s] > 0
  <2>1. got \in [Stages -> Nat] /\ got[s] \in Nat
    BY <1>0, <1>2 DEF TypeOK
  <2>2. CASE got' = got
    BY <1>5, <2>1, <2>2, <1>2
  <2>3. CASE got' = [got EXCEPT ![s] = got[s] + 1]
    BY <1>2, <2>1, <2>3
  <2> QED
    BY <1>3, <2>2, <2>3
<1>8. TypeOK'
  <2>1. \A v \in Workers : wk'[v].pc # "idle" => wk'[v].id \in Ids /\ wk'[v].job \in Job
    BY <1>0, <1>6 DEF TypeOK, GoesOn
  <2> QED
    BY <1>0, <1>1, <1>4, <1>6, <1>7, <2>1 DEF TypeOK, GoesOn, redis, world
<1>9. StagesInOrder'
  <2>1. s > 1 => got[s - 1] > 0
    BY <1>0, <1>1 DEF Ordered, Past
  <2>2. ASSUME NEW t \in Stages, t > 1, got'[t] > 0 PROVE got'[t - 1] > 0
    <3>1. t - 1 \in Stages
      BY <2>2, DeliveryAssumption DEF Stages
    <3>2. got[t - 1] > 0
      BY <1>0, <1>7, <2>1, <2>2 DEF StagesInOrder
    <3> QED
      BY <1>7, <3>1, <3>2
  <2> QED
    BY <2>2 DEF StagesInOrder
<1>10. Ordered'
  <2>1. \A t \in Stages : stage'[t] = "sent" => got'[t] > 0
    BY <1>0, <1>1, <1>7 DEF Ordered, redis
  <2>2. ASSUME NEW v \in Workers, wk'[v].pc \in Past, wk'[v].job.step > 1
        PROVE  got'[wk'[v].job.step - 1] > 0
    <3>1. v # w /\ wk'[v] = wk[v]
      BY <1>6, <2>2 DEF GoesOn, Past
    <3>2. wk[v].job.step \in Stages
      BY <1>0, <2>2, <3>1, JobFacts DEF TypeOK, Past
    <3>3. wk[v].job.step - 1 \in Stages
      BY <2>2, <3>1, <3>2, DeliveryAssumption DEF Stages
    <3> QED
      BY <1>0, <1>7, <2>2, <3>1, <3>3 DEF Ordered
  <2>3. ASSUME NEW v \in Workers, wk'[v].pc = "answer", wk'[v].plan = "sent"
        PROVE  got'[wk'[v].job.step] > 0
    <3>1. CASE v = w
      BY <1>6, <1>7, <2>3, <3>1 DEF GoesOn
    <3>2. CASE v # w
      <4>1. wk'[v] = wk[v]
        BY <1>6, <3>2 DEF GoesOn
      <4>2. wk[v].job.step \in Stages
        BY <1>0, <2>3, <4>1, JobFacts DEF TypeOK
      <4> QED
        BY <1>0, <1>7, <2>3, <4>1, <4>2 DEF Ordered
    <3> QED
      BY <3>1, <3>2
  <2> QED
    BY <2>1, <2>2, <2>3 DEF Ordered
<1>11. Unread' /\ IdlePending'
  BY <1>1, <1>6, KeepsQueue DEF redis
<1> QED
  BY <1>8, <1>9, <1>10, <1>11 DEF IInv

\* A stage is recorded as sent only after Telegram accepted it.
LEMMA Records ==
  ASSUME IInv, NEW w \in Workers, GoesOn(w), UNCHANGED got, wk'[w].pc \notin Past,
         wk'[w].pc # "answer", NEW s \in Stages, NEW to \in States,
         stage' = stage \/ stage' = [stage EXCEPT ![s] = to],
         to = "sent" => got[s] > 0
  PROVE  Ordered' /\ StagesInOrder' /\ stage' \in [Stages -> States]
<1>0. TypeOK /\ Ordered /\ StagesInOrder
  BY DEF IInv
<1>1. \A t \in Stages : stage'[t] = "sent" => stage[t] = "sent" \/ (t = s /\ to = "sent")
  BY <1>0 DEF TypeOK
<1>2. \A t \in Stages : stage'[t] = "sent" => got'[t] > 0
  BY <1>0, <1>1 DEF Ordered
<1>3. \A v \in Workers : wk'[v] = wk[v] \/ (wk'[v].pc \notin Past /\ wk'[v].pc # "answer")
  BY DEF GoesOn
<1>4. Ordered'
  BY <1>0, <1>2, <1>3 DEF Ordered
<1> QED
  BY <1>0, <1>4 DEF TypeOK, StagesInOrder

\* The writes that end a delivery.
LEMMA CommitSteps ==
  ASSUME IInv, NEW w \in Workers,
         \/ RecordSent(w) \/ CommitAck(w) \/ CommitSkip(w) \/ CommitRequeue(w)
         \/ CommitFail(w)
  PROVE  IInv'
<1>0. TypeOK /\ Ordered
  BY DEF IInv
<1>1. /\ wk[w].pc # "idle" /\ XAck(wk[w].id) /\ Goto(w, Leaving(w))
      /\ UNCHANGED <<queue, lease, enqueued, blocked, deleted, gen, inflight, stalled,
                     src, world, got, faults, stalls>>
  BY DEF RecordSent, CommitAck, CommitSkip, CommitRequeue, CommitFail, At
<1>2. GoesOn(w) /\ wk'[w].pc \in {"end", "release"}
  BY <1>0, <1>1, GotoFacts, LeavingFacts DEF PCs, Working
<1>3. wk[w].job \in Job /\ wk[w].job.step \in Stages /\ wk[w].id \in Ids
  BY <1>0, <1>1, JobFacts DEF TypeOK
<1>4. Unread' /\ IdlePending' /\ entry' \in [Ids -> Job \cup {None}]
      /\ owner' \in [Ids -> Workers \cup {None}] /\ idle' \subseteq Ids
  BY <1>1, <1>2, Acks
<1>5. Ordered' /\ StagesInOrder' /\ stage' \in [Stages -> States]
  <2>1. wk'[w].pc \notin Past /\ wk'[w].pc # "answer"
    BY <1>2 DEF Past
  <2>2. CASE RecordSent(w)
    <3>1. got[wk[w].job.step] > 0 /\ stage' = [stage EXCEPT ![wk[w].job.step] = "sent"]
      BY <1>0, <2>2 DEF RecordSent, At, Ordered
    <3> QED
      BY <1>1, <1>2, <1>3, <2>1, <3>1, Records DEF States
  <2>3. CASE \/ UNCHANGED stage
             \/ \E to \in {"skipped", "failed"} :
                  stage' = [stage EXCEPT ![wk[w].job.step] = to]
    <3>1. ASSUME NEW to \in {"skipped", "failed"},
                 stage' = stage \/ stage' = [stage EXCEPT ![wk[w].job.step] = to]
          PROVE  Ordered' /\ StagesInOrder' /\ stage' \in [Stages -> States]
      BY <1>1, <1>2, <1>3, <2>1, <3>1, Records DEF States
    <3> QED
      BY <2>3, <3>1
  <2> QED
    BY <2>2, <2>3 DEF CommitAck, CommitSkip, CommitRequeue, CommitFail
<1>6. retry' \in [Ids -> 0..MaxAttempts]
  <2>1. UNCHANGED retry \/ retry' = [retry EXCEPT ![wk[w].id] = 0]
    BY DEF RecordSent, CommitAck, CommitSkip, CommitRequeue, CommitFail
  <2>2. retry \in [Ids -> 0..MaxAttempts] /\ 0 \in 0..MaxAttempts
    BY <1>0, DeliveryAssumption DEF TypeOK
  <2> QED
    BY <2>1, <2>2
<1>7. delayed' \subseteq Job /\ dlq' \subseteq Job
  BY <1>0, <1>3
     DEF RecordSent, CommitAck, CommitSkip, CommitRequeue, RequeuedStage, CommitFail, TypeOK
<1>8. TypeOK'
  <2>1. \A v \in Workers : wk'[v].pc # "idle" => wk'[v].id \in Ids /\ wk'[v].job \in Job
    BY <1>0, <1>2 DEF TypeOK, GoesOn
  <2> QED
    BY <1>0, <1>1, <1>2, <1>4, <1>5, <1>6, <1>7, <2>1 DEF TypeOK, GoesOn, world
<1> QED
  BY <1>4, <1>5, <1>8 DEF IInv

\* A transient failure is counted.
LEMMA CountStep ==
  ASSUME IInv, NEW w \in Workers, CountFailure(w)
  PROVE  IInv'
<1>0. TypeOK
  BY DEF IInv
<1>1. /\ wk[w].pc = "answer"
      /\ UNCHANGED <<queue, entry, owner, idle, lease, delayed, stage, enqueued, dlq,
                     blocked, deleted, gen, inflight, stalled, src, world, got,
                     faults, stalls>>
  BY DEF CountFailure, At
<1>2. GoesOn(w) /\ wk'[w].pc \in {"end", "release", "commit"}
  <2>1. CASE Goto(w, Leaving(w))
    BY <1>0, <1>1, <2>1, GotoFacts, LeavingFacts DEF PCs, Working
  <2>2. CASE Commit(w, "fail")
    BY <1>0, <1>1, <2>2, PlanFacts DEF Commit, PCs, Working, Plans
  <2> QED
    BY <2>1, <2>2 DEF CountFailure
<1>3. retry' \in [Ids -> 0..MaxAttempts]
  <2>1. wk[w].id \in Ids /\ retry \in [Ids -> 0..MaxAttempts]
    BY <1>0, <1>1 DEF TypeOK
  <2> DEFINE attempts == IF retry[wk[w].id] < MaxAttempts THEN retry[wk[w].id] + 1
                         ELSE MaxAttempts
  <2>2. retry[wk[w].id] \in 0..MaxAttempts /\ MaxAttempts \in Nat
    BY <2>1, DeliveryAssumption
  <2>3. attempts \in 0..MaxAttempts
    BY <2>2
  <2>4. retry' = [retry EXCEPT ![wk[w].id] = attempts]
    BY DEF CountFailure
  <2> QED
    BY <2>1, <2>3, <2>4
<1>4. Unread' /\ IdlePending' /\ Ordered' /\ StagesInOrder'
  BY <1>1, <1>2, KeepsQueue, KeepsOrder DEF Past
<1>5. \A v \in Workers : wk'[v].pc # "idle" => wk'[v].id \in Ids /\ wk'[v].job \in Job
  BY <1>0, <1>2 DEF TypeOK, GoesOn
<1>6. TypeOK'
  BY <1>0, <1>1, <1>2, <1>3, <1>5 DEF TypeOK, GoesOn, world
<1> QED
  BY <1>4, <1>6 DEF IInv

\* A consumer claims an idle entry or reads an unread one.
LEMMA TakeSteps ==
  ASSUME IInv, NEW w \in Workers,
         (\E i \in idle : ClaimIdle(w, i)) \/ ReadNew(w)
  PROVE  IInv'
<1>0. TypeOK /\ Unread /\ IdlePending /\ Ordered /\ StagesInOrder
  BY DEF IInv
<1>1. PICK i \in Ids : /\ Take(w, i)
                       /\ owner' = [owner EXCEPT ![i] = w]
                       /\ entry[i] # None
                       /\ \/ i \in idle /\ queue' = queue /\ idle' = idle \ {i}
                          \/ /\ queue # <<>> /\ i = Head(queue)
                             /\ queue' = Tail(queue) /\ idle' = idle
  <2>1. ASSUME NEW i \in idle, ClaimIdle(w, i) PROVE i \in Ids /\ entry[i] # None
    BY <1>0 DEF TypeOK, IdlePending
  <2>2. ASSUME ReadNew(w)
        PROVE  /\ Head(queue) = queue[1] /\ 1 \in 1..Len(queue)
               /\ Head(queue) \in Ids /\ entry[Head(queue)] # None
    <3>1. queue \in Seq(Ids) /\ queue # <<>>
      BY <1>0, <2>2 DEF TypeOK, ReadNew
    <3>2. Head(queue) = queue[1] /\ 1 \in 1..Len(queue) /\ Head(queue) \in Ids
      BY <3>1
    <3> QED
      BY <1>0, <3>2 DEF Unread
  <2> QED
    BY <2>1, <2>2 DEF ClaimIdle, ReadNew
<1>2. UNCHANGED <<entry, retry, lease, delayed, stage, enqueued, dlq, blocked, deleted,
                  gen, inflight, stalled, src, world, got, faults, stalls>>
  BY DEF ClaimIdle, ReadNew
<1>3. entry[i] \in Job
  BY <1>0, <1>1 DEF TypeOK
<1>4. /\ wk' \in [Workers -> Worker]
      /\ wk'[w].pc = "lease" /\ wk'[w].id = i /\ wk'[w].job = entry[i]
      /\ \A v \in Workers \ {w} : wk'[v] = wk[v]
  <2>1. [Rest EXCEPT !.pc = "lease", !.id = i, !.job = entry[i]] \in Worker
    BY <1>3 DEF Rest, Worker, PCs, Plans
  <2> QED
    BY <1>0, <1>1, <2>1 DEF TypeOK, Take, Rest
<1>5. owner' \in [Ids -> Workers \cup {None}] /\ owner'[i] = w /\ w # None
  BY <1>0, <1>1, DeliveryAssumption DEF TypeOK
<1>6. /\ queue' \in Seq(Ids)
      /\ \A n \in 1..Len(queue') : /\ entry[queue'[n]] # None /\ owner[queue'[n]] = None
                                   /\ \A v \in Workers : wk[v].id # queue'[n]
                                   /\ queue'[n] # i /\ queue'[n] \in Ids
      /\ \A m, n \in 1..Len(queue') : m # n => queue'[m] # queue'[n]
  <2>1. queue \in Seq(Ids)
    BY <1>0 DEF TypeOK
  <2>2. CASE i \in idle /\ queue' = queue
    BY <1>0, <2>1, <2>2 DEF Unread, IdlePending
  <2>3. CASE queue # <<>> /\ i = Head(queue) /\ queue' = Tail(queue)
    <3>1. /\ queue' \in Seq(Ids) /\ i = queue[1] /\ Len(queue') = Len(queue) - 1
          /\ \A n \in 1..Len(queue') : queue'[n] = queue[n + 1] /\ queue'[n] \in Ids
          /\ 1 \in 1..Len(queue)
          /\ \A n \in 1..Len(queue') : n + 1 \in 1..Len(queue) /\ n + 1 # 1
      BY <2>1, <2>3
    <3>2. \A n \in 1..Len(queue') : queue'[n] # i
      BY <1>0, <3>1 DEF Unread
    <3>3. \A m, n \in 1..Len(queue') : m # n => queue'[m] # queue'[n]
      <4>1. ASSUME NEW m \in 1..Len(queue'), NEW n \in 1..Len(queue'), m # n
            PROVE  queue[m + 1] # queue[n + 1]
        <5>1. m + 1 \in 1..Len(queue) /\ n + 1 \in 1..Len(queue) /\ m + 1 # n + 1
          BY <3>1, <4>1
        <5> QED
          BY <1>0, <5>1 DEF Unread
      <4> QED
        BY <3>1, <4>1
    <3> QED
      BY <1>0, <3>1, <3>2, <3>3 DEF Unread
  <2> QED
    BY <1>1, <2>2, <2>3
<1>7. Unread'
  <2>1. ASSUME NEW n \in 1..Len(queue')
        PROVE  /\ entry'[queue'[n]] # None /\ owner'[queue'[n]] = None
               /\ \A v \in Workers : wk'[v].id # queue'[n]
    <3>1. owner' = [owner EXCEPT ![i] = w] /\ owner \in [Ids -> Workers \cup {None}]
      BY <1>0, <1>1 DEF TypeOK
    <3>2. owner'[queue'[n]] = None
      BY <1>6, <3>1
    <3> QED
      BY <1>2, <1>4, <1>6, <3>2
  <2> QED
    BY <1>6, <2>1 DEF Unread
<1>8. IdlePending'
  BY <1>0, <1>1, <1>2, <1>5 DEF IdlePending, TypeOK
<1>9. Ordered' /\ StagesInOrder'
  BY <1>0, <1>2, <1>4 DEF Ordered, StagesInOrder, Past
<1>10. TypeOK'
  <2>1. \A v \in Workers : wk'[v].pc # "idle" => wk'[v].id \in Ids /\ wk'[v].job \in Job
    BY <1>0, <1>3, <1>4 DEF TypeOK
  <2>2. idle' \subseteq Ids
    BY <1>0, <1>1 DEF TypeOK
  <2> QED
    BY <1>0, <1>2, <1>4, <1>5, <1>6, <2>1, <2>2 DEF TypeOK, world
<1> QED
  BY <1>7, <1>8, <1>9, <1>10 DEF IInv

\* enqueue_alert and the transfer of due members.
LEMMA FeedSteps ==
  ASSUME IInv, ReadGeneration \/ Enqueue \/ (\E j \in delayed : PopMature(j))
  PROVE  IInv'
<1>0. TypeOK /\ Unread /\ IdlePending /\ Ordered /\ StagesInOrder
  BY DEF IInv
<1>1. UNCHANGED <<lease, stage, dlq, blocked, deleted, gen, inflight, wk, stalled,
                  world, got, faults, stalls>>
  BY DEF ReadGeneration, Enqueue, PopMature, redis
<1>2. Ordered' /\ StagesInOrder'
  BY <1>0, <1>1 DEF Ordered, StagesInOrder
<1>3. /\ src' \in [pc : {"idle", "read"}, gen : Nat, stale : BOOLEAN]
      /\ delayed' \subseteq Job /\ enqueued' \subseteq Stages
  <2>1. CASE ReadGeneration
    <3>1. (age # "fresh") \in BOOLEAN /\ gen \in Nat
      BY <1>0 DEF TypeOK
    <3> QED
      BY <1>0, <2>1, <3>1 DEF ReadGeneration, TypeOK, redis
  <2>2. CASE Enqueue
    <3>1. src.gen \in Nat /\ 1 \in Stages
      BY <1>0, DeliveryAssumption DEF TypeOK, Stages
    <3>2. \A s \in Stages : [step |-> s, gen |-> src.gen] \in Job
      BY <3>1 DEF Job
    <3>3. \/ UNCHANGED <<delayed, enqueued>>
          \/ \E later \in {{}, Stages \ {1}} :
               /\ delayed' = delayed \cup {[step |-> s, gen |-> src.gen] : s \in later}
               /\ enqueued' = {1} \cup later
      BY <2>2 DEF Enqueue
    <3>4. NoCall \in [pc : {"idle", "read"}, gen : Nat, stale : BOOLEAN]
      BY DEF NoCall
    <3> QED
      BY <1>0, <2>2, <3>1, <3>2, <3>3, <3>4 DEF TypeOK, Enqueue
  <2>3. CASE \E j \in delayed : PopMature(j)
    BY <1>0, <2>3 DEF TypeOK, PopMature
  <2> QED
    BY <2>1, <2>2, <2>3
<1> DEFINE added ==
      /\ Unread' /\ IdlePending'
      /\ queue' \in Seq(Ids)
      /\ entry' \in [Ids -> Job \cup {None}]
      /\ owner' \in [Ids -> Workers \cup {None}]
      /\ idle' \subseteq Ids
      /\ retry' \in [Ids -> 0..MaxAttempts]
<1>4. added
  <2>1. CASE UNCHANGED <<queue, entry, owner, idle, retry>>
    BY <1>0, <1>1, <2>1 DEF TypeOK, Unread, IdlePending
  <2>2. ASSUME NEW j \in Job, XAdd(j)
        PROVE  added
    BY <1>1, <2>2, Adds
  <2>3. src.gen \in Nat /\ 1 \in Stages
    BY <1>0, DeliveryAssumption DEF TypeOK, Stages
  <2>4. [step |-> 1, gen |-> src.gen] \in Job
    BY <2>3 DEF Job
  <2>5. delayed \subseteq Job
    BY <1>0 DEF TypeOK
  <2>6. \/ UNCHANGED <<queue, entry, owner, idle, retry>>
        \/ \E j \in Job : XAdd(j)
    BY <2>4, <2>5 DEF ReadGeneration, Enqueue, PopMature, redis
  <2> QED
    BY <2>1, <2>2, <2>6
<1>5. TypeOK'
  BY <1>0, <1>1, <1>3, <1>4 DEF TypeOK, world
<1> QED
  BY <1>2, <1>4, <1>5 DEF IInv

\* The failures of a consumer, the passage of time, and the outside world.
LEMMA OtherSteps ==
  ASSUME IInv,
         \/ \E w \in Workers : Crash(w) \/ Stall(w) \/ Resume(w)
         \/ \E s \in Stages : LeaseExpires(s)
         \/ \E i \in Ids : GoesIdle(i)
         \/ SlotsExpire
         \/ Ageing \/ DayOrNight \/ MuteOrUnmute \/ RecordClear
         \/ UNCHANGED vars
  PROVE  IInv'
<1>0. TypeOK /\ Unread /\ IdlePending /\ Ordered /\ StagesInOrder
  BY DEF IInv
<1> DEFINE kept == <<queue, entry, owner, retry, delayed, stage, enqueued, dlq,
                     blocked, deleted, gen, src, got>>
<1>1. UNCHANGED kept
  BY DEF Crash, Stall, Resume, LeaseExpires, GoesIdle, SlotsExpire, Ageing, DayOrNight,
         MuteOrUnmute, RecordClear, WorldOnly, vars, redis
<1>2. UNCHANGED wk \/ \E w \in Workers : Resets(w)
  BY <1>0, ResetFacts
     DEF Crash, Stall, Resume, LeaseExpires, GoesIdle, SlotsExpire, Ageing, DayOrNight,
         MuteOrUnmute, RecordClear, WorldOnly, vars
<1> DEFINE typed ==
      /\ lease' \in [Stages -> Workers \cup {None, Orphan}]
      /\ inflight' \in Nat
      /\ stalled' \subseteq Workers
      /\ faults' \in 0..MaxFaults /\ stalls' \in 0..MaxStalls
      /\ age' \in Ages /\ night' \in BOOLEAN /\ muted' \in BOOLEAN
      /\ cleared' \subseteq Scopes
<1>3. typed
  <2> USE <1>0, DeliveryAssumption DEF TypeOK
  <2>1. ASSUME NEW w \in Workers, Crash(w) PROVE typed
    BY <2>1 DEF Crash, world
  <2>2. ASSUME NEW w \in Workers, Stall(w) PROVE typed
    BY <2>2 DEF Stall, world, redis
  <2>3. ASSUME NEW w \in Workers, Resume(w) PROVE typed
    BY <2>3 DEF Resume, world, redis
  <2>4. ASSUME NEW s \in Stages, LeaseExpires(s) PROVE typed
    BY <2>4 DEF LeaseExpires, world
  <2>5. ASSUME NEW i \in Ids, GoesIdle(i) PROVE typed
    BY <2>5 DEF GoesIdle, world
  <2>6. CASE SlotsExpire
    BY <2>6 DEF SlotsExpire, world
  <2>7. CASE Ageing
    BY <2>7 DEF Ageing, WorldOnly, redis, Ages
  <2>8. CASE DayOrNight \/ MuteOrUnmute \/ RecordClear
    BY <2>8 DEF DayOrNight, MuteOrUnmute, RecordClear, WorldOnly, redis
  <2>9. CASE UNCHANGED vars
    BY <2>9 DEF vars, redis, world
  <2> QED
    BY <2>1, <2>2, <2>3, <2>4, <2>5, <2>6, <2>7, <2>8, <2>9
<1>4. idle' \subseteq Ids /\ \A i \in idle' : entry[i] # None /\ owner[i] # None
  <2>1. idle' \subseteq idle \/ \E i \in Ids : GoesIdle(i)
    BY DEF Crash, Stall, Resume, LeaseExpires, SlotsExpire, Ageing, DayOrNight,
           MuteOrUnmute, RecordClear, WorldOnly, vars, redis
  <2> QED
    BY <1>0, <2>1 DEF GoesIdle, TypeOK, IdlePending
<1>5. Unread' /\ IdlePending'
  <2>1. \A n \in 1..Len(queue) : queue[n] \in Ids
    BY <1>0 DEF TypeOK
  <2>2. \A v \in Workers : wk'[v].id \in {wk[v].id, None}
    BY <1>2 DEF Resets, Rest
  <2> QED
    BY <1>0, <1>1, <1>4, <2>1, <2>2, DeliveryAssumption DEF Unread, IdlePending
<1>6. Ordered' /\ StagesInOrder'
  <2>1. \A v \in Workers : wk'[v] = wk[v] \/ wk'[v].pc = "idle"
    BY <1>2 DEF Resets, Rest
  <2> QED
    BY <1>0, <1>1, <2>1 DEF Ordered, StagesInOrder, Past
<1>7. TypeOK'
  <2>1. /\ wk' \in [Workers -> Worker]
        /\ \A v \in Workers : wk'[v].pc # "idle" => wk'[v].id \in Ids /\ wk'[v].job \in Job
    <3>1. CASE UNCHANGED wk
      BY <1>0, <3>1 DEF TypeOK
    <3>2. ASSUME NEW w \in Workers, Resets(w)
          PROVE  /\ wk' \in [Workers -> Worker]
                 /\ \A v \in Workers : wk'[v] = wk[v] \/ wk'[v].pc = "idle"
      BY <3>2 DEF Resets, Rest
    <3> QED
      BY <1>0, <1>2, <3>1, <3>2 DEF TypeOK
  <2> QED
    BY <1>0, <1>1, <1>3, <1>4, <2>1 DEF TypeOK
<1> QED
  BY <1>5, <1>6, <1>7 DEF IInv

LEMMA StepIInv == IInv /\ [Next]_vars => IInv'
BY FeedSteps, TakeSteps, LeaseSteps, CheckSteps, SlotSteps, SendStep, CommitSteps,
   CountStep, OtherSteps
   DEF Next, Handle

THEOREM Invariant == Spec => []IInv
BY InitIInv, StepIInv, PTL DEF Spec

\* Type correctness: no record, key or counter of a delivery ever leaves its type,
\* and no consumer works without an entry and a job of its own.
THEOREM TypeCorrect == Spec => []TypeOK
<1>1. IInv => TypeOK
  BY DEF IInv
<1> QED
  BY <1>1, Invariant, PTL

\* Whatever the number of consumers, stages and failures, and however consumers
\* die, stall, lose their lease and hand entries over, Telegram never accepts a
\* reminder before it accepted the stage in front of it.
THEOREM Order == Spec => []StagesInOrder
<1>1. IInv => StagesInOrder
  BY DEF IInv
<1> QED
  BY <1>1, Invariant, PTL

-----------------------------------------------------------------------------
(***************************************************************************)
(* Chain: no stage is lost, and the delivery implements Chain.             *)
(***************************************************************************)

\* A consumer that has not written the outcome of its job yet.
Unsettled == {"lease"} \cup Checks \cup {"sending", "answer", "commit"}

\* Every job, record and acceptance belongs to a stage that was enqueued.
Offered ==
  /\ \A j \in delayed : j.step \in enqueued
  /\ \A i \in Ids : entry[i] # None => entry[i].step \in enqueued
  /\ \A w \in Workers : wk[w].pc # "idle" => wk[w].job.step \in enqueued
  /\ \A s \in Stages : stage[s] # "none" => s \in enqueued

\* The recipient stays what it was when its jobs were made.
Addressed ==
  /\ ~deleted
  /\ src.pc = "read" => src.gen = gen
  /\ \A j \in delayed : j.gen = gen
  /\ \A i \in Ids : entry[i] # None => entry[i].gen = gen
  /\ \A w \in Workers : wk[w].pc # "idle" => wk[w].job.gen = gen

\* The entry of a consumer holds its job or was acknowledged, and it is dropped
\* without a record only when there is a record or the event has expired.
Dropped ==
  /\ \A w \in Workers : wk[w].pc # "idle" => entry[wk[w].id] \in {None, wk[w].job}
  /\ \A w \in Workers : wk[w].pc = "commit" /\ wk[w].plan = "ack"
                          => stage[wk[w].job.step] # "none" \/ age = "expired"

Lossless == Offered /\ Addressed /\ Dropped /\ NoStageLost

\* A stage that is not settled has one job at most, a settled one has none; a
\* consumer that is not done owns the entry of its job.
Single ==
  /\ stalled = {}
  /\ \A i, k \in Ids : entry[i] # None /\ entry[k] # None /\ entry[i].step = entry[k].step
                         => i = k
  /\ \A j, k \in delayed : j.step = k.step => j = k
  /\ \A j \in delayed, i \in Ids : entry[i] # None => entry[i].step # j.step
  /\ \A s \in Stages : stage[s] # "none" => ~Live(s)
  /\ \A w \in Workers : wk[w].pc \in Unsettled =>
       entry[wk[w].id] = wk[w].job /\ owner[wk[w].id] = w /\ wk[w].id \notin idle
  /\ \A w \in Workers : wk[w].pc \in Past /\ wk[w].job.step > 1
                          => stage[wk[w].job.step - 1] = "sent"

CInv == IInv /\ Lossless /\ (stalls = 0 => Single)

-----------------------------------------------------------------------------
(* Steps that leave the jobs and the records alone.                        *)

\* Consumer w goes on, with a reason for where it goes.
Advances(w) ==
  /\ GoesOn(w)
  /\ wk'[w].pc \in Unsettled => wk[w].pc \in Unsettled
  /\ wk'[w].pc = "commit" /\ wk'[w].plan = "ack"
       => \/ wk[w].pc = "commit" /\ wk[w].plan = "ack"
          \/ stage[wk[w].job.step] # "none"
          \/ age = "expired"
  /\ wk'[w].pc \in Past => \/ wk[w].pc \in Past
                           \/ wk[w].job.step <= 1
                           \/ stage[wk[w].job.step - 1] = "sent"

Jobs == <<entry, owner, delayed, stage, enqueued, deleted, gen, src>>

Quiet ==
  /\ UNCHANGED Jobs
  /\ idle' \subseteq idle
  /\ age = "expired" => age' = "expired"
  /\ stalls' = 0 => stalls = 0 /\ stalled' \subseteq stalled

Kept == Lossless' /\ (stalls' = 0 => Single')

LEMMA QuietStep ==
  ASSUME CInv, Quiet, UNCHANGED wk \/ \E w \in Workers : Advances(w) \/ Resets(w)
  PROVE  Kept
<1>0. TypeOK /\ Offered /\ Addressed /\ Dropped /\ NoStageLost
  BY DEF CInv, IInv, Lossless
<1>1. /\ UNCHANGED <<entry, owner, delayed, stage, enqueued, deleted, gen, src>>
      /\ idle' \subseteq idle
      /\ age = "expired" => age' = "expired"
      /\ stalls' = 0 => stalls = 0 /\ stalled' \subseteq stalled
  BY DEF Quiet, Jobs
<1>2. ASSUME NEW v \in Workers
      PROVE  \/ wk'[v] = wk[v]
             \/ wk'[v].pc = "idle"
             \/ /\ wk[v].pc # "idle" /\ wk'[v].id = wk[v].id /\ wk'[v].job = wk[v].job
                /\ Advances(v)
  BY DEF Advances, GoesOn, Resets, Rest
<1>3. Offered' /\ Addressed'
  BY <1>0, <1>1, <1>2 DEF Offered, Addressed
<1>4. Dropped'
  BY <1>0, <1>1, <1>2 DEF Dropped, Advances
<1>5. \A s : Live(s)' <=> Live(s)
  BY <1>1 DEF Live
<1>6. NoStageLost'
  BY <1>0, <1>1, <1>5 DEF NoStageLost
<1>7. ASSUME stalls' = 0 PROVE Single'
  <2>1. Single /\ stalled' = {}
    BY <1>1, <1>7 DEF CInv, Single
  <2>2. \A v \in Workers : wk'[v].pc \in Unsettled =>
          entry'[wk'[v].id] = wk'[v].job /\ owner'[wk'[v].id] = v /\ wk'[v].id \notin idle'
    BY <1>1, <1>2, <2>1 DEF Single, Advances, Unsettled, Checks
  <2>3. ASSUME NEW v \in Workers, wk'[v].pc \in Past, wk'[v].job.step > 1
        PROVE  stage'[wk'[v].job.step - 1] = "sent"
    <3>1. CASE wk'[v] = wk[v]
      BY <1>1, <2>1, <2>3, <3>1 DEF Single
    <3>2. CASE wk[v].pc # "idle" /\ wk'[v].job = wk[v].job /\ Advances(v)
      <4>1. wk[v].job.step \in Nat
        BY <1>0, <3>2, JobFacts DEF TypeOK, Stages
      <4> QED
        BY <1>1, <2>1, <2>3, <3>2, <4>1 DEF Single, Advances
    <3> QED
      BY <1>2, <2>3, <3>1, <3>2 DEF Past
  <2> QED
    BY <1>1, <1>5, <2>1, <2>2, <2>3 DEF Single
<1> QED
  BY <1>3, <1>4, <1>6, <1>7 DEF Kept, Lossless

\* The reads before the send and the wait for the rate limiter.
LEMMA QuietChecks ==
  ASSUME CInv, NEW w \in Workers,
         \/ CheckGate(w) \/ CheckOwnStage(w) \/ CheckClear(w) \/ CheckPrior(w)
         \/ CheckCutoff(w) \/ CheckBlocked(w) \/ AcquireRate(w)
  PROVE  Kept
<1> USE DEF At, PCs, Working, Checks, Plans, Unsettled, Past
<1>0. TypeOK /\ Addressed
  BY DEF CInv, IInv, Lossless
<1>1. UNCHANGED Reading /\ wk[w].pc \in Checks
  BY DEF CheckGate, CheckOwnStage, CheckClear, CheckPrior, CheckCutoff, CheckBlocked,
         AcquireRate
<1>2. Quiet
  BY <1>1 DEF Reading, redis, world, Quiet, Jobs
<1>3. wk[w].job \in Job /\ wk[w].job.step \in Nat /\ wk[w].job.gen = gen /\ ~deleted
  BY <1>0, <1>1, JobFacts DEF TypeOK, Addressed, Stages
<1>4. ASSUME NEW pc \in Checks, Goto(w, pc),
             pc \in Past => \/ wk[w].pc \in Past
                            \/ wk[w].job.step <= 1
                            \/ stage[wk[w].job.step - 1] = "sent"
      PROVE  Advances(w)
  <2>1. GoesOn(w) /\ wk'[w].pc = pc
    BY <1>0, <1>1, <1>4, GotoFacts
  <2> QED
    BY <1>1, <1>4, <2>1 DEF Advances
<1>5. ASSUME NEW plan \in Plans, Commit(w, plan),
             plan = "ack" => stage[wk[w].job.step] # "none" \/ age = "expired"
      PROVE  Advances(w)
  <2>1. GoesOn(w) /\ wk'[w].pc = "commit" /\ wk'[w].plan = plan
    BY <1>0, <1>1, <1>5, PlanFacts DEF Commit
  <2> QED
    BY <1>1, <1>5, <2>1 DEF Advances
<1>6. Advances(w)
  <2>1. CASE CheckGate(w)
    BY <1>3, <1>4, <1>5, <2>1 DEF CheckGate, Current
  <2>2. CASE CheckOwnStage(w)
    BY <1>3, <1>4, <1>5, <2>2 DEF CheckOwnStage
  <2>3. CASE CheckClear(w)
    BY <1>4, <1>5, <2>3 DEF CheckClear
  <2>4. CASE CheckPrior(w)
    BY <1>4, <1>5, <2>4 DEF CheckPrior
  <2>5. CASE CheckCutoff(w)
    BY <1>4, <1>5, <2>5 DEF CheckCutoff
  <2>6. CASE CheckBlocked(w)
    BY <1>4, <1>5, <2>6 DEF CheckBlocked
  <2>7. CASE AcquireRate(w)
    <3>1. CASE wk' = [wk EXCEPT ![w].pc = "answer", ![w].plan = "retry"]
      <4>1. GoesOn(w) /\ wk'[w].pc = "answer"
        BY <1>0, <1>1, <3>1, PlanFacts
      <4> QED
        BY <1>1, <4>1 DEF Advances
    <3> QED
      BY <1>4, <2>7, <3>1 DEF AcquireRate
  <2> QED
    BY <2>1, <2>2, <2>3, <2>4, <2>5, <2>6, <2>7
<1> QED
  BY <1>2, <1>6, QuietStep

\* The reservation, the send and its answer, the finally clause, a cancelled handler.
LEMMA QuietSends ==
  ASSUME CInv, NEW w \in Workers,
         \/ Begin(w) \/ Send(w) \/ CountFailure(w) \/ FailPermanently(w)
         \/ End(w) \/ Cancel(w)
  PROVE  Kept
<1> USE DEF At, PCs, Working, Checks, Plans, Unsettled, Past
<1>0. TypeOK /\ Addressed
  BY DEF CInv, IInv, Lossless
<1>1. wk[w].pc \in Working
  BY DEF Begin, Send, CountFailure, FailPermanently, End, Cancel
<1>2. Quiet
  BY DEF Begin, Send, CountFailure, FailPermanently, End, Cancel, redis, world, Quiet, Jobs
<1>3. wk[w].job \in Job /\ wk[w].job.gen = gen /\ ~deleted
  BY <1>0, <1>1 DEF TypeOK, Addressed
<1>4. ASSUME NEW pc \in {"end", "release", "sending", "answer"}, GoesOn(w), wk'[w].pc = pc,
             pc \in Unsettled => wk[w].pc \in Unsettled,
             pc = "sending" => wk[w].pc = "begin"
      PROVE  Advances(w)
  BY <1>4 DEF Advances
<1>5. ASSUME NEW plan \in Plans \ {"ack"}, Commit(w, plan), wk[w].pc \in Unsettled
      PROVE  Advances(w)
  <2>1. GoesOn(w) /\ wk'[w].pc = "commit" /\ wk'[w].plan = plan
    BY <1>0, <1>1, <1>5, PlanFacts DEF Commit
  <2> QED
    BY <1>5, <2>1 DEF Advances
<1>6. ASSUME Goto(w, Leaving(w)) PROVE Advances(w)
  <2>1. PICK pc \in {"end", "release"} : Goto(w, pc)
    BY <1>6, LeavingFacts
  <2>2. GoesOn(w) /\ wk'[w].pc = pc
    BY <1>0, <1>1, <2>1, GotoFacts
  <2> QED
    BY <1>4, <2>2
<1>7. Advances(w)
  <2>1. CASE Begin(w)
    <3>1. wk[w].pc = "begin" /\ Current(wk[w].job)
      BY <1>3, <2>1 DEF Begin, Current
    <3>2. CASE wk' = [wk EXCEPT ![w].pc = "sending", ![w].reserved = TRUE]
      <4>1. GoesOn(w) /\ wk'[w].pc = "sending"
        BY <1>0, <3>1, <3>2, SlotFacts
      <4> QED
        BY <1>4, <3>1, <4>1
    <3>3. CASE Commit(w, "skip")
      BY <1>5, <3>1, <3>3
    <3> QED
      BY <2>1, <3>1, <3>2, <3>3 DEF Begin
  <2>2. CASE Send(w)
    <3>1. PICK a \in {"sent", "retry", "blocked", "permanent"} : Answer(w, a)
      BY <2>2 DEF Send
    <3>2. GoesOn(w) /\ wk'[w].pc = "answer"
      BY <1>0, <1>1, <3>1, PlanFacts DEF Answer
    <3> QED
      BY <1>4, <2>2, <3>2 DEF Send
  <2>3. CASE CountFailure(w)
    BY <1>5, <1>6, <2>3 DEF CountFailure
  <2>4. CASE FailPermanently(w)
    BY <1>5, <2>4 DEF FailPermanently
  <2>5. CASE End(w)
    <3>1. GoesOn(w) /\ wk'[w].pc = "release"
      BY <1>0, <2>5, SlotFacts DEF End
    <3> QED
      BY <1>4, <3>1
  <2>6. CASE Cancel(w)
    BY <1>6, <2>6 DEF Cancel
  <2> QED
    BY <2>1, <2>2, <2>3, <2>4, <2>5, <2>6
<1> QED
  BY <1>2, <1>7, QuietStep

\* The steps that take, renew or give up a lease.
LEMMA QuietLeases ==
  ASSUME CInv, NEW w \in Workers,
         AcquireLease(w) \/ Heartbeat(w) \/ ReleaseLease(w) \/ Guard(w)
  PROVE  Kept
<1> USE DEF At, PCs, Working, Checks, Unsettled, Past
<1>0. TypeOK
  BY DEF CInv, IInv
<1>1. wk[w].pc # "idle" /\ Quiet
  BY DEF AcquireLease, Heartbeat, ReleaseLease, Guard, Renew, Quiet, Jobs, world
<1>2. ASSUME NEW pc \in {"gate", "end", "release", "begin"}, GoesOn(w), wk'[w].pc = pc,
             pc = "gate" => wk[w].pc = "lease", pc = "begin" => wk[w].pc = "guard"
      PROVE  Advances(w)
  BY <1>2 DEF Advances
<1>3. ASSUME NEW pc \in {"gate", "end", "release", "begin"}, Goto(w, pc),
             pc = "gate" => wk[w].pc = "lease", pc = "begin" => wk[w].pc = "guard"
      PROVE  Advances(w)
  <2>1. GoesOn(w) /\ wk'[w].pc = pc
    BY <1>0, <1>1, <1>3, GotoFacts
  <2> QED
    BY <1>2, <1>3, <2>1
<1>4. UNCHANGED wk \/ Advances(w) \/ Resets(w)
  <2>1. CASE wk' = [wk EXCEPT ![w] = Rest]
    BY <1>0, <2>1, ResetFacts
  <2>2. CASE wk' = [wk EXCEPT ![w].pc = "release", ![w].reserved = FALSE]
    BY <1>0, <1>1, <1>2, <2>2, SlotFacts
  <2>3. CASE Goto(w, Leaving(w))
    <3>1. PICK pc \in {"end", "release"} : Goto(w, pc)
      BY <2>3, LeavingFacts
    <3> QED
      BY <1>3, <3>1
  <2> QED
    BY <1>3, <2>1, <2>2, <2>3 DEF AcquireLease, Heartbeat, ReleaseLease, Guard
<1> QED
  BY <1>1, <1>4, QuietStep

\* The failures of a consumer, most of the passage of time, and the outside world.
LEMMA QuietOthers ==
  ASSUME CInv,
         \/ \E w \in Workers : Crash(w) \/ Stall(w) \/ Resume(w)
         \/ \E s \in Stages : LeaseExpires(s)
         \/ SlotsExpire
         \/ Ageing \/ DayOrNight \/ MuteOrUnmute \/ RecordClear
         \/ UNCHANGED vars
  PROVE  Kept
<1>0. TypeOK
  BY DEF CInv, IInv
<1>1. UNCHANGED Jobs /\ idle' \subseteq idle /\ (age = "expired" => age' = "expired")
  BY DEF Crash, Stall, Resume, LeaseExpires, SlotsExpire, Ageing, DayOrNight,
         MuteOrUnmute, RecordClear, WorldOnly, vars, redis, world, Jobs
<1>2. stalls' = 0 => stalls = 0 /\ stalled' \subseteq stalled
  <2>1. stalls \in Nat
    BY <1>0, DeliveryAssumption DEF TypeOK
  <2>2. CASE \E w \in Workers : Stall(w)
    BY <2>1, <2>2 DEF Stall
  <2>3. CASE ~\E w \in Workers : Stall(w)
    BY <2>3 DEF Crash, Resume, LeaseExpires, SlotsExpire, Ageing, DayOrNight,
                MuteOrUnmute, RecordClear, WorldOnly, vars
  <2> QED
    BY <2>2, <2>3
<1>3. UNCHANGED wk \/ \E w \in Workers : Resets(w)
  BY <1>0, ResetFacts
     DEF Crash, Stall, Resume, LeaseExpires, SlotsExpire, Ageing, DayOrNight,
         MuteOrUnmute, RecordClear, WorldOnly, vars
<1> QED
  BY <1>1, <1>2, <1>3, QuietStep DEF Quiet

\* The source worker reads the generation it enqueues under.
LEMMA ReadGenerationStep == ASSUME CInv, ReadGeneration PROVE Kept
<1>1. UNCHANGED <<redis, wk, stalled, world, stalls>> /\ src'.gen = gen
  BY DEF ReadGeneration
<1>2. Offered' /\ Dropped' /\ NoStageLost'
  BY <1>1 DEF CInv, Lossless, Offered, Dropped, NoStageLost, Live, redis, world
<1>3. Addressed'
  BY <1>1 DEF CInv, Lossless, Addressed, redis
<1>4. Single => Single'
  BY <1>1 DEF Single, Live, redis
<1> QED
  BY <1>1, <1>2, <1>3, <1>4 DEF CInv, Kept, Lossless

\* An entry becomes idle once no running consumer works on it as its owner.
LEMMA GoesIdleStep == ASSUME CInv, NEW i \in Ids, GoesIdle(i) PROVE Kept
<1>1. /\ idle' = idle \cup {i} /\ ~Tended(i)
      /\ UNCHANGED <<entry, owner, delayed, stage, enqueued, deleted, gen, src, wk,
                     stalled, world, stalls>>
  BY DEF GoesIdle
<1>2. Offered' /\ Addressed' /\ Dropped' /\ NoStageLost'
  BY <1>1 DEF CInv, Lossless, Offered, Addressed, Dropped, NoStageLost, Live, world
<1>3. ASSUME Single PROVE Single'
  <2>1. \A w \in Workers : wk[w].pc \in Unsettled => wk[w].id # i
    BY <1>1, <1>3 DEF Single, Tended, Unsettled, Checks
  <2> QED
    BY <1>1, <1>3, <2>1 DEF Single, Live
<1> QED
  BY <1>1, <1>2, <1>3 DEF CInv, Kept, Lossless

-----------------------------------------------------------------------------
(* Steps that settle, acknowledge, take or add a job.                      *)

\* The writes that end a delivery: the stage is settled, the job goes back to the
\* delayed queue, or there is nothing left to settle.
LEMMA CommitStep ==
  ASSUME CInv, NEW w \in Workers,
         \/ RecordSent(w) \/ CommitAck(w) \/ CommitSkip(w) \/ CommitRequeue(w)
         \/ CommitFail(w)
  PROVE  Kept
<1> DEFINE id == wk[w].id
           job == wk[w].job
           s == wk[w].job.step
<1>0. TypeOK /\ Offered /\ Addressed /\ Dropped /\ NoStageLost
  BY DEF CInv, IInv, Lossless
<1>1. /\ wk[w].pc \in {"answer", "commit"} /\ XAck(id) /\ Goto(w, Leaving(w))
      /\ UNCHANGED <<enqueued, deleted, gen, src, age, stalled, stalls>>
  BY DEF RecordSent, CommitAck, CommitSkip, CommitRequeue, CommitFail, At, world
<1>2. GoesOn(w) /\ wk'[w].pc \in {"end", "release"}
  BY <1>0, <1>1, GotoFacts, LeavingFacts DEF PCs, Working
<1>3. /\ id \in Ids /\ job \in Job /\ s \in Stages /\ job.gen = gen /\ ~deleted
      /\ s \in enqueued /\ entry[id] \in {None, job} /\ job # None
  BY <1>0, <1>1, JobFacts DEF TypeOK, Addressed, Offered, Dropped
<1>4. /\ entry' = [entry EXCEPT ![id] = None] /\ owner' = [owner EXCEPT ![id] = None]
      /\ idle' = idle \ {id}
      /\ entry \in [Ids -> Job \cup {None}] /\ owner \in [Ids -> Workers \cup {None}]
  BY <1>0, <1>1 DEF XAck, TypeOK
<1>5. \/ delayed' = delayed /\ \E o \in States \ {"none"} : stage' = [stage EXCEPT ![s] = o]
      \/ delayed' = delayed \cup {job} /\ stage' = stage
      \/ /\ delayed' = delayed /\ stage' = stage
         /\ stage[s] # "none" \/ age = "expired"
  <2>1. CASE RecordSent(w) \/ CommitSkip(w)
    BY <2>1 DEF RecordSent, CommitSkip, States
  <2>2. CASE CommitFail(w)
    BY <1>3, <2>2 DEF CommitFail, Storable, Current, States
  <2>3. CASE CommitRequeue(w)
    BY <2>3 DEF CommitRequeue, RequeuedStage
  <2>4. CASE CommitAck(w)
    BY <1>0, <2>4 DEF CommitAck, At, Dropped
  <2> QED
    BY <2>1, <2>2, <2>3, <2>4
<1>6. ASSUME NEW v \in Workers
      PROVE  /\ wk'[v].id = wk[v].id /\ wk'[v].job = wk[v].job
             /\ wk'[v].pc # "idle" => wk[v].pc # "idle"
             /\ v # w => wk'[v] = wk[v]
  BY <1>2 DEF GoesOn
<1>7. stage \in [Stages -> States] /\ \A t \in Stages : stage[t] # "none" => stage'[t] # "none"
  BY <1>0, <1>3, <1>5 DEF TypeOK
<1>8. Offered'
  BY <1>0, <1>1, <1>3, <1>4, <1>5, <1>6 DEF Offered, TypeOK
<1>9. Addressed'
  BY <1>0, <1>1, <1>3, <1>4, <1>5, <1>6 DEF Addressed
<1>10. Dropped'
  <2>1. ASSUME NEW v \in Workers, wk'[v].pc # "idle"
        PROVE  entry'[wk'[v].id] \in {None, wk'[v].job}
    BY <1>0, <1>4, <1>6, <2>1 DEF Dropped, TypeOK
  <2>2. ASSUME NEW v \in Workers, wk'[v].pc = "commit", wk'[v].plan = "ack"
        PROVE  stage'[wk'[v].job.step] # "none" \/ age' = "expired"
    <3>1. v # w /\ wk'[v] = wk[v]
      BY <1>2, <1>6, <2>2
    <3>2. wk[v].job.step \in Stages
      BY <1>0, <2>2, <3>1, JobFacts DEF TypeOK
    <3> QED
      BY <1>0, <1>1, <1>7, <2>2, <3>1, <3>2 DEF Dropped
  <2> QED
    BY <2>1, <2>2 DEF Dropped
<1>11. ASSUME NEW t \in Stages, t # s, Live(t) PROVE Live(t)'
  <2>1. CASE \E j \in delayed : j.step = t
    BY <1>5, <2>1 DEF Live
  <2>2. ASSUME NEW i \in Ids, entry[i] # None, entry[i].step = t
        PROVE  Live(t)'
    BY <1>3, <1>4, <1>11, <2>2 DEF Live
  <2> QED
    BY <1>11, <2>1, <2>2 DEF Live
<1>12. NoStageLost'
  <2>1. ASSUME NEW t \in enqueued
        PROVE  stage'[t] # "none" \/ Live(t)' \/ age' = "expired"
    <3>1. t \in Stages
      BY <1>0 DEF TypeOK
    <3>2. CASE t # s
      BY <1>0, <1>1, <1>7, <1>11, <3>1, <3>2 DEF NoStageLost
    <3>3. CASE t = s
      BY <1>1, <1>3, <1>5, <1>7, <3>3 DEF Live
    <3> QED
      BY <3>2, <3>3
  <2> QED
    BY <1>1, <2>1 DEF NoStageLost
<1>13. ASSUME Single PROVE Single'
  <2>1. entry[id] = job /\ owner[id] = w /\ Live(s) /\ stage[s] = "none"
    <3>1. entry[id] = job /\ owner[id] = w
      BY <1>1, <1>13 DEF Single, Unsettled
    <3> QED
      BY <1>3, <1>13, <3>1 DEF Single, Live
  <2>2. \A i \in Ids : entry'[i] # None => entry'[i] = entry[i] /\ i # id /\ entry[i].step # s
    BY <1>3, <1>4, <1>13, <2>1 DEF Single
  <2>3. \A j \in delayed : j.step # s
    BY <1>3, <1>13, <2>1 DEF Single
  <2>4. \A j \in delayed' : j \in delayed \/ (j = job /\ delayed' = delayed \cup {job})
    BY <1>5
  <2>5. /\ \A i, k \in Ids : entry'[i] # None /\ entry'[k] # None
                               /\ entry'[i].step = entry'[k].step => i = k
        /\ \A j, k \in delayed' : j.step = k.step => j = k
        /\ \A j \in delayed', i \in Ids : entry'[i] # None => entry'[i].step # j.step
    BY <1>13, <2>2, <2>3, <2>4 DEF Single
  <2>6. ASSUME NEW t \in Stages, stage'[t] # "none" PROVE ~Live(t)'
    <3>1. CASE t # s
      <4>1. stage[t] # "none"
        BY <1>5, <1>7, <2>6, <3>1
      <4> QED
        BY <1>13, <2>2, <2>4, <3>1, <4>1 DEF Single, Live
    <3>2. CASE t = s
      <4>1. delayed' = delayed
        BY <1>5, <2>1, <2>6, <3>2
      <4> QED
        BY <2>2, <2>3, <3>2, <4>1 DEF Live
    <3> QED
      BY <3>1, <3>2
  <2>7. ASSUME NEW v \in Workers, wk'[v].pc \in Unsettled
        PROVE  /\ entry'[wk'[v].id] = wk'[v].job /\ owner'[wk'[v].id] = v
               /\ wk'[v].id \notin idle'
    <3>1. v # w /\ wk'[v] = wk[v]
      BY <1>2, <1>6, <2>7 DEF Unsettled, Checks
    <3>2. wk[v].id \in Ids /\ wk[v].id # id
      BY <1>0, <1>13, <2>1, <2>7, <3>1 DEF Single, TypeOK, Unsettled, Checks
    <3> QED
      BY <1>4, <1>13, <2>7, <3>1, <3>2 DEF Single
  <2>8. ASSUME NEW v \in Workers, wk'[v].pc \in Past, wk'[v].job.step > 1
        PROVE  stage'[wk'[v].job.step - 1] = "sent"
    <3>1. v # w /\ wk'[v] = wk[v]
      BY <1>2, <1>6, <2>8 DEF Past
    <3>2. stage[wk[v].job.step - 1] = "sent"
      BY <1>13, <2>8, <3>1 DEF Single
    <3>3. wk[v].job.step - 1 \in Stages
      <4>1. wk[v].job.step \in 1..LastStage
        BY <1>0, <2>8, <3>1, JobFacts DEF TypeOK, Past, Stages
      <4> QED
        BY <2>8, <3>1, <4>1, DeliveryAssumption DEF Stages
    <3>4. wk[v].job.step - 1 # s
      BY <2>1, <3>2
    <3> QED
      BY <1>5, <1>7, <3>1, <3>2, <3>3, <3>4
  <2> QED
    BY <1>1, <1>13, <2>5, <2>6, <2>7, <2>8 DEF Single
<1> QED
  BY <1>1, <1>8, <1>9, <1>10, <1>12, <1>13 DEF CInv, Kept, Lossless

\* A consumer claims an idle entry or reads an unread one.
LEMMA TakeStep ==
  ASSUME CInv, NEW w \in Workers, (\E i \in idle : ClaimIdle(w, i)) \/ ReadNew(w)
  PROVE  Kept
<1>0. TypeOK /\ Unread /\ IdlePending /\ Offered /\ Addressed /\ Dropped /\ NoStageLost
  BY DEF CInv, IInv, Lossless
<1>1. PICK i \in Ids : /\ Take(w, i)
                       /\ owner' = [owner EXCEPT ![i] = w]
                       /\ entry[i] # None
                       /\ i \notin idle' /\ idle' \subseteq idle
                       /\ i \in idle \/ \A v \in Workers : wk[v].id # i
  <2>1. ASSUME NEW i \in idle, ClaimIdle(w, i) PROVE i \in Ids /\ entry[i] # None
    BY <1>0 DEF TypeOK, IdlePending
  <2>2. ASSUME ReadNew(w)
        PROVE  /\ Head(queue) \in Ids /\ entry[Head(queue)] # None
               /\ owner[Head(queue)] = None /\ \A v \in Workers : wk[v].id # Head(queue)
    <3>1. queue \in Seq(Ids) /\ queue # <<>>
      BY <1>0, <2>2 DEF TypeOK, ReadNew
    <3>2. Head(queue) = queue[1] /\ 1 \in 1..Len(queue) /\ Head(queue) \in Ids
      BY <3>1
    <3> QED
      BY <1>0, <3>2 DEF Unread
  <2>3. ASSUME ReadNew(w) PROVE Head(queue) \notin idle
    BY <1>0, <2>2, <2>3 DEF IdlePending
  <2> QED
    BY <2>1, <2>2, <2>3 DEF ClaimIdle, ReadNew
<1>2. UNCHANGED <<entry, delayed, stage, enqueued, deleted, gen, src, age, stalled, stalls>>
  BY DEF ClaimIdle, ReadNew, world
<1>3. entry[i] \in Job /\ wk \in [Workers -> Worker] /\ owner \in [Ids -> Workers \cup {None}]
  BY <1>0, <1>1 DEF TypeOK
<1>4. /\ wk'[w].pc = "lease" /\ wk'[w].id = i /\ wk'[w].job = entry[i]
      /\ \A v \in Workers \ {w} : wk'[v] = wk[v]
  BY <1>1, <1>3 DEF Take, Rest
<1>5. Offered' /\ Addressed' /\ Dropped' /\ NoStageLost'
  <2>1. Offered' /\ Addressed'
    BY <1>0, <1>1, <1>2, <1>4 DEF Offered, Addressed
  <2>2. Dropped'
    BY <1>0, <1>2, <1>4 DEF Dropped
  <2>3. NoStageLost'
    BY <1>0, <1>2 DEF NoStageLost, Live
  <2> QED
    BY <2>1, <2>2, <2>3
<1>6. ASSUME Single PROVE Single'
  <2>1. ASSUME NEW v \in Workers, wk'[v].pc \in Unsettled
        PROVE  /\ entry'[wk'[v].id] = wk'[v].job /\ owner'[wk'[v].id] = v
               /\ wk'[v].id \notin idle'
    <3>1. CASE v = w
      BY <1>1, <1>2, <1>3, <1>4, <3>1
    <3>2. CASE v # w
      <4>1. wk'[v] = wk[v] /\ wk[v].id # i
        BY <1>1, <1>4, <1>6, <2>1, <3>2 DEF Single
      <4> QED
        BY <1>1, <1>2, <1>3, <1>6, <2>1, <4>1 DEF Single
    <3> QED
      BY <3>1, <3>2
  <2>2. \A v \in Workers : wk'[v].pc \in Past => wk'[v] = wk[v]
    BY <1>4 DEF Past
  <2> QED
    BY <1>2, <1>6, <2>1, <2>2 DEF Single, Live
<1> QED
  BY <1>2, <1>5, <1>6 DEF CInv, Kept, Lossless

\* A due member moves to the stream.
LEMMA PopStep ==
  ASSUME CInv, NEW j \in delayed, PopMature(j)
  PROVE  Kept
<1>0. TypeOK /\ Offered /\ Addressed /\ Dropped /\ NoStageLost
  BY DEF CInv, IInv, Lossless
<1>1. /\ delayed' = delayed \ {j}
      /\ UNCHANGED <<stage, enqueued, deleted, gen, src, wk, age, stalled, stalls>>
  BY DEF PopMature, world
<1>2. j \in Job /\ j # None /\ j.gen = gen /\ j.step \in enqueued
  BY <1>0, JobFacts DEF TypeOK, Addressed, Offered
<1>3. XAdd(j)
  BY <1>0, <1>2 DEF PopMature, Current, Addressed
<1>4. PICK i \in Ids : /\ entry[i] = None /\ \A w \in Workers : wk[w].id # i
                       /\ entry' = [entry EXCEPT ![i] = j]
                       /\ owner' = [owner EXCEPT ![i] = None]
                       /\ idle' = idle \ {i}
  BY <1>3 DEF XAdd, Free
<1>5. entry \in [Ids -> Job \cup {None}] /\ owner \in [Ids -> Workers \cup {None}]
  BY <1>0 DEF TypeOK
<1>6. \A k \in Ids : entry'[k] = IF k = i THEN j ELSE entry[k]
  BY <1>4, <1>5
<1>7. \A t : Live(t) <=> Live(t)'
  <2>1. ASSUME NEW t, Live(t) PROVE Live(t)'
    BY <1>1, <1>2, <1>4, <1>6, <2>1 DEF Live
  <2>2. ASSUME NEW t, Live(t)' PROVE Live(t)
    BY <1>1, <1>6, <2>2 DEF Live
  <2> QED
    BY <2>1, <2>2
<1>8. Offered' /\ Addressed'
  BY <1>0, <1>1, <1>2, <1>6 DEF Offered, Addressed
<1>9. Dropped'
  <2>1. \A w \in Workers : wk[w].pc # "idle" => wk[w].id \in Ids /\ wk[w].id # i
    BY <1>0, <1>4 DEF TypeOK
  <2> QED
    BY <1>0, <1>1, <1>6, <2>1 DEF Dropped
<1>10. NoStageLost'
  BY <1>0, <1>1, <1>7 DEF NoStageLost
<1>11. ASSUME Single PROVE Single'
  <2>1. \A w \in Workers : wk[w].pc \in Unsettled =>
          entry'[wk[w].id] = wk[w].job /\ owner'[wk[w].id] = w /\ wk[w].id \notin idle'
    <3>1. \A w \in Workers : wk[w].pc \in Unsettled => wk[w].id \in Ids /\ wk[w].id # i
      BY <1>0, <1>4 DEF TypeOK, Unsettled, Checks
    <3> QED
      BY <1>4, <1>5, <1>6, <1>11, <3>1 DEF Single
  <2>2. \A k \in Ids : entry[k] # None => entry[k].step # j.step
    BY <1>11 DEF Single
  <2>3. \A k \in delayed' : k \in delayed /\ k.step # j.step
    BY <1>1, <1>11 DEF Single
  <2>4. /\ \A m, k \in Ids : entry'[m] # None /\ entry'[k] # None
                               /\ entry'[m].step = entry'[k].step => m = k
        /\ \A m, k \in delayed' : m.step = k.step => m = k
        /\ \A m \in delayed', k \in Ids : entry'[k] # None => entry'[k].step # m.step
    BY <1>6, <1>11, <2>2, <2>3 DEF Single
  <2> QED
    BY <1>1, <1>7, <1>11, <2>1, <2>4 DEF Single
<1> QED
  BY <1>1, <1>8, <1>9, <1>10, <1>11 DEF CInv, Kept, Lossless

\* The first call of enqueue_alert makes one job for every stage it stores.
LEMMA EnqueueStep == ASSUME CInv, Enqueue PROVE Kept
<1>0. TypeOK /\ Offered /\ Addressed /\ Dropped /\ NoStageLost
  BY DEF CInv, IInv, Lossless
<1>1. /\ UNCHANGED <<stage, deleted, gen, wk, age, stalled, stalls>>
      /\ src' = NoCall /\ src.pc = "read"
  BY DEF Enqueue, world
<1>2. CASE UNCHANGED <<queue, entry, owner, idle, retry, delayed, enqueued>>
  <2>1. Offered' /\ Addressed' /\ Dropped' /\ NoStageLost'
    BY <1>0, <1>1, <1>2 DEF Offered, Addressed, Dropped, NoStageLost, Live, NoCall
  <2>2. Single => Single'
    BY <1>1, <1>2 DEF Single, Live
  <2> QED
    BY <1>1, <2>1, <2>2 DEF CInv, Kept, Lossless
<1>3. ASSUME enqueued = {}, NEW later \in {{}, Stages \ {1}},
             XAdd([step |-> 1, gen |-> src.gen]),
             delayed' = delayed \cup {[step |-> s, gen |-> src.gen] : s \in later},
             enqueued' = {1} \cup later
      PROVE  Kept
  <2> DEFINE first == [step |-> 1, gen |-> gen]
  <2>1. src.gen = gen /\ gen \in Nat /\ 1 \in Stages /\ first \in Job /\ first # None
    <3>1. src.gen = gen /\ gen \in Nat /\ 1 \in Stages
      BY <1>0, <1>1, DeliveryAssumption DEF Addressed, TypeOK, Stages
    <3>2. first \in Job
      BY <3>1 DEF Job
    <3> QED
      BY <3>1, <3>2, JobFacts
  <2>2. /\ \A k \in Ids : entry[k] = None
        /\ delayed = {}
        /\ \A w \in Workers : wk[w].pc = "idle"
        /\ \A s \in Stages : stage[s] = "none"
    BY <1>0, <1>3 DEF Offered
  <2>3. delayed' = {[step |-> s, gen |-> gen] : s \in later}
    BY <1>3, <2>1, <2>2
  <2>4. PICK i \in Ids : entry' = [entry EXCEPT ![i] = first]
    BY <1>3, <2>1 DEF XAdd, Free
  <2>5. \A k \in Ids : entry'[k] = IF k = i THEN first ELSE None
    BY <1>0, <2>2, <2>4 DEF TypeOK
  <2>6. \A k \in delayed' : k.step \in later /\ k.step # 1 /\ k.gen = gen
    BY <1>3, <2>3
  <2>7. Offered' /\ Addressed' /\ Dropped'
    BY <1>0, <1>1, <1>3, <2>1, <2>2, <2>5, <2>6 DEF Offered, Addressed, Dropped, NoCall
  <2>8. NoStageLost'
    <3>1. Live(1)'
      BY <2>1, <2>5 DEF Live
    <3>2. ASSUME NEW s \in later PROVE Live(s)'
      <4>1. [step |-> s, gen |-> gen] \in delayed'
        BY <2>3
      <4> QED
        BY <4>1 DEF Live
    <3> QED
      BY <1>3, <3>1, <3>2 DEF NoStageLost
  <2>9. ASSUME Single PROVE Single'
    <3>1. \A k, m \in delayed' : k.step = m.step => k = m
      BY <2>3
    <3> QED
      BY <1>1, <2>1, <2>2, <2>5, <2>6, <2>9, <3>1 DEF Single, Unsettled, Checks, Past
  <2> QED
    BY <1>1, <2>7, <2>8, <2>9 DEF CInv, Kept, Lossless
<1>4. \/ UNCHANGED <<queue, entry, owner, idle, retry, delayed, enqueued>>
      \/ /\ enqueued = {}
         /\ \E later \in {{}, Stages \ {1}} :
              /\ XAdd([step |-> 1, gen |-> src.gen])
              /\ delayed' = delayed \cup {[step |-> s, gen |-> src.gen] : s \in later}
              /\ enqueued' = {1} \cup later
  BY DEF Enqueue
<1> QED
  BY <1>2, <1>3, <1>4

-----------------------------------------------------------------------------

LEMMA InitCInv == Init => CInv
<1> SUFFICES ASSUME Init PROVE CInv
  OBVIOUS
<1>1. IInv
  BY InitIInv
<1>2. \A w \in Workers : wk[w].pc = "idle"
  BY DEF Init, Rest
<1>3. Lossless
  BY <1>2 DEF Init, Lossless, Offered, Addressed, Dropped, NoStageLost, NoCall
<1>4. Single
  BY <1>2 DEF Init, Single, Live, Unsettled, Checks, Past
<1> QED
  BY <1>1, <1>3, <1>4 DEF CInv

LEMMA StepCInv == CInv /\ [Next]_vars => CInv'
<1> SUFFICES ASSUME CInv, [Next]_vars PROVE CInv'
  OBVIOUS
<1>1. IInv'
  BY StepIInv DEF CInv
<1>2. Kept
  BY ReadGenerationStep, EnqueueStep, PopStep, TakeStep, QuietLeases, QuietChecks,
     QuietSends, CommitStep, GoesIdleStep, QuietOthers
     DEF Next, Handle
<1> QED
  BY <1>1, <1>2 DEF CInv, Kept

THEOREM ChainInvariant == Spec => []CInv
BY InitCInv, StepCInv, PTL DEF Spec

\* Whatever the number of consumers and stages, and however consumers crash, stall,
\* lose their lease and hand entries over: a stage that was stored is recorded,
\* still has a job, or belongs to an event that is seven days old.
THEOREM NoneLost == Spec => []NoStageLost
<1>1. CInv => NoStageLost
  BY DEF CInv, Lossless
<1> QED
  BY <1>1, ChainInvariant, PTL

-----------------------------------------------------------------------------
(* The delivery implements Chain.                                          *)

\* What one step changes of the variables that Chain sees.
Seen == <<enqueued, stage, got, stalls>>

Arrived == {s \in Stages : got[s] > 0}

LEMMA Unseen == ASSUME UNCHANGED Seen PROVE UNCHANGED C!vars
BY DEF Seen, C!vars

LEMMA StageNames == C!Stages = Stages
BY DEF C!Stages, Stages

\* A consumer that has still to write an outcome works on an unsettled stage.
LEMMA StillOpen ==
  ASSUME CInv, stalls = 0, NEW w \in Workers, wk[w].pc \in Unsettled
  PROVE  stage[wk[w].job.step] = "none"
<1>1. wk[w].id \in Ids /\ wk[w].job \in Job /\ wk[w].job.step \in Stages /\ wk[w].job # None
  BY JobFacts DEF CInv, IInv, TypeOK, Unsettled, Checks
<1>2. entry[wk[w].id] = wk[w].job
  BY DEF CInv, Single
<1>3. Live(wk[w].job.step)
  BY <1>1, <1>2 DEF Live
<1> QED
  BY <1>1, <1>3 DEF CInv, Single

\* Telegram's acceptance is Accept, or nothing when the stage had been accepted.
LEMMA SendRefines ==
  ASSUME CInv, NEW w \in Workers, Send(w)
  PROVE  [C!Next]_(C!vars)
<1> DEFINE s == wk[w].job.step
<1>0. TypeOK /\ Ordered /\ Offered
  BY DEF CInv, IInv, Lossless
<1>1. wk[w].pc = "sending" /\ UNCHANGED <<enqueued, stage, stalls>>
  BY DEF Send, At, redis
<1>2. s \in Stages /\ s \in Nat /\ s \in enqueued
  BY <1>0, <1>1, JobFacts DEF TypeOK, Stages, Offered
<1>3. CASE UNCHANGED got
  BY <1>1, <1>3, Unseen DEF Seen
<1>4. CASE got' = [got EXCEPT ![s] = got[s] + 1]
  <2>1. Arrived' = Arrived \cup {s}
    BY <1>0, <1>2, <1>4 DEF Arrived, TypeOK
  <2>2. s > 1 => s - 1 \in Stages /\ got[s - 1] > 0
    BY <1>0, <1>1, <1>2, DeliveryAssumption DEF Ordered, Past, Stages
  <2>3. stalls = 0 => stage[s] = "none" /\ (s > 1 => stage[s - 1] = "sent")
    BY <1>1, <1>2, StillOpen DEF CInv, Single, Unsettled, Past
  <2>4. (stalls > 0) \in BOOLEAN /\ (~(stalls > 0) => stalls = 0)
    BY <1>0, DeliveryAssumption DEF TypeOK
  <2>5. PICK t \in Stages : t = s
    BY <1>2
  <2>6. C!Accept(t)
    BY <1>1, <1>2, <2>1, <2>2, <2>3, <2>4, <2>5 DEF C!Accept, Arrived
  <2> QED
    BY <2>6, StageNames DEF C!Next
<1> QED
  BY <1>3, <1>4 DEF Send

\* Recording an outcome is Settle.
LEMMA CommitRefines ==
  ASSUME CInv, NEW w \in Workers,
         \/ RecordSent(w) \/ CommitAck(w) \/ CommitSkip(w) \/ CommitRequeue(w)
         \/ CommitFail(w)
  PROVE  [C!Next]_(C!vars)
<1> DEFINE s == wk[w].job.step
<1>0. TypeOK /\ Ordered /\ Offered
  BY DEF CInv, IInv, Lossless
<1>1. wk[w].pc \in {"answer", "commit"} /\ UNCHANGED <<enqueued, got, stalls>>
  BY DEF RecordSent, CommitAck, CommitSkip, CommitRequeue, CommitFail, At
<1>2. s \in Stages /\ s \in enqueued
  BY <1>0, <1>1, JobFacts DEF TypeOK, Offered
<1>3. CASE UNCHANGED stage
  BY <1>1, <1>3, Unseen DEF Seen
<1>4. ASSUME NEW o \in {"sent", "skipped", "failed"}, stage' = [stage EXCEPT ![s] = o],
             o = "sent" => got[s] > 0
      PROVE  [C!Next]_(C!vars)
  <2>1. stalls = 0 => stage[s] = "none"
    BY <1>1, StillOpen DEF Unsettled
  <2>2. ~(stalls > 0) => stalls = 0
    BY <1>0, DeliveryAssumption DEF TypeOK
  <2>3. C!Settle(s, o)
    BY <1>1, <1>2, <1>4, <2>1, <2>2 DEF C!Settle
  <2> QED
    BY <1>2, <2>3, StageNames DEF C!Next
<1>5. CASE RecordSent(w)
  BY <1>0, <1>4, <1>5 DEF RecordSent, At, Ordered
<1>6. CASE ~RecordSent(w)
  BY <1>3, <1>4, <1>6 DEF CommitAck, CommitSkip, CommitRequeue, CommitFail
<1> QED
  BY <1>5, <1>6

\* The first call of enqueue_alert is Offer.
LEMMA EnqueueRefines == ASSUME CInv, Enqueue PROVE [C!Next]_(C!vars)
<1>1. UNCHANGED <<stage, got, stalls>>
  BY DEF Enqueue
<1>2. CASE UNCHANGED enqueued
  BY <1>1, <1>2, Unseen DEF Seen
<1>3. ASSUME NEW later \in {{}, Stages \ {1}}, enqueued = {}, enqueued' = {1} \cup later
      PROVE  [C!Next]_(C!vars)
  <2>1. enqueued' \in SUBSET Stages /\ 1 \in enqueued'
    BY <1>3, DeliveryAssumption DEF Stages
  <2>2. C!Offer(enqueued')
    BY <1>1, <1>3, <2>1 DEF C!Offer
  <2> QED
    BY <2>1, <2>2, StageNames DEF C!Next
<1> QED
  BY <1>2, <1>3 DEF Enqueue

\* A suspension is Lapse.
LEMMA StallRefines == ASSUME CInv, NEW w \in Workers, Stall(w) PROVE [C!Next]_(C!vars)
<1>1. UNCHANGED <<enqueued, stage, got>> /\ stalls' = stalls + 1 /\ stalls \in Nat
  BY DeliveryAssumption DEF Stall, redis, CInv, IInv, TypeOK
<1>2. (stalls > 0)' = TRUE
  BY <1>1
<1>3. C!Lapse
  BY <1>1, <1>2 DEF C!Lapse
<1> QED
  BY <1>3 DEF C!Next

\* Every other step is invisible to Chain.
LEMMA OthersRefine ==
  ASSUME \/ ReadGeneration \/ (\E j \in delayed : PopMature(j))
         \/ \E w \in Workers :
              \/ (\E i \in idle : ClaimIdle(w, i)) \/ ReadNew(w)
              \/ AcquireLease(w) \/ Heartbeat(w) \/ ReleaseLease(w) \/ Guard(w)
              \/ CheckGate(w) \/ CheckOwnStage(w) \/ CheckClear(w) \/ CheckPrior(w)
              \/ CheckCutoff(w) \/ CheckBlocked(w) \/ AcquireRate(w)
              \/ Begin(w) \/ CountFailure(w) \/ FailPermanently(w) \/ End(w)
              \/ Cancel(w) \/ Crash(w) \/ Resume(w)
         \/ \E s \in Stages : LeaseExpires(s)
         \/ \E i \in Ids : GoesIdle(i)
         \/ SlotsExpire \/ Ageing \/ DayOrNight \/ MuteOrUnmute \/ RecordClear
         \/ UNCHANGED vars
  PROVE  [C!Next]_(C!vars)
<1>1. UNCHANGED Seen
  BY DEF ReadGeneration, PopMature, ClaimIdle, ReadNew, AcquireLease, Heartbeat,
         ReleaseLease, Guard, CheckGate, CheckOwnStage, CheckClear, CheckPrior,
         CheckCutoff, CheckBlocked, AcquireRate, Begin, CountFailure, FailPermanently,
         End, Cancel, Crash, Resume, LeaseExpires, GoesIdle, SlotsExpire, Ageing,
         DayOrNight, MuteOrUnmute, RecordClear, WorldOnly, Reading, redis, vars, Seen
<1> QED
  BY <1>1, Unseen

LEMMA StepRefines == CInv /\ [Next]_vars => [C!Next]_(C!vars)
BY SendRefines, CommitRefines, EnqueueRefines, StallRefines, OthersRefine DEF Next, Handle

LEMMA InitRefines == Init => C!Init
<1> SUFFICES ASSUME Init PROVE C!Init
  OBVIOUS
<1>1. {s \in Stages : got[s] > 0} = {} /\ (stalls > 0) = FALSE
  BY DEF Init
<1>2. stage = [s \in C!Stages |-> "none"]
  BY StageNames DEF Init
<1> QED
  BY <1>1, <1>2 DEF Init, C!Init

\* Consumers, leases, hand-overs, retries and re-queueing implement Chain, for any
\* number of consumers, stages and faults.
THEOREM Implements == Spec => ImplementsChain
BY InitRefines, StepRefines, ChainInvariant, PTL DEF Spec, ImplementsChain, C!Spec

-----------------------------------------------------------------------------

\* What was accepted is preceded by stages recorded as sent.
Preceded ==
  stalls = 0 => \A s, t \in Stages : s < t /\ got[t] > 0 => stage[s] = "sent"

LEMMA StepPreceded == CInv /\ Preceded /\ [Next]_vars => Preceded'
<1> SUFFICES ASSUME CInv, Preceded, [Next]_vars, stalls' = 0,
                    NEW s \in Stages, NEW t \in Stages, s < t, got'[t] > 0
             PROVE  stage'[s] = "sent"
  BY DEF Preceded
<1>0. TypeOK /\ Ordered
  BY DEF CInv, IInv
<1>1. CASE UNCHANGED Seen
  BY <1>1 DEF Preceded, Seen
<1>2. ASSUME NEW w \in Workers, Send(w) PROVE stage'[s] = "sent"
  <2>1. wk[w].pc = "sending" /\ UNCHANGED <<stage, stalls>>
    BY <1>2 DEF Send, At, redis
  <2>2. CASE got[t] > 0
    BY <2>1, <2>2 DEF Preceded
  <2>3. CASE ~(got[t] > 0)
    <3>1. t = wk[w].job.step
      BY <1>0, <1>2, <2>3 DEF Send, TypeOK
    <3>2. t - 1 \in Stages /\ t > 1 /\ s <= t - 1
      BY DeliveryAssumption DEF Stages
    <3>3. stage[t - 1] = "sent" /\ got[t - 1] > 0
      BY <1>0, <2>1, <3>1, <3>2 DEF CInv, Single, Past, Ordered
    <3>4. s = t - 1 \/ s < t - 1
      BY <3>2 DEF Stages
    <3> QED
      BY <2>1, <3>2, <3>3, <3>4 DEF Preceded
  <2> QED
    BY <2>2, <2>3
<1>3. ASSUME NEW w \in Workers,
             \/ RecordSent(w) \/ CommitAck(w) \/ CommitSkip(w) \/ CommitRequeue(w)
             \/ CommitFail(w)
      PROVE  stage'[s] = "sent"
  <2>1. /\ wk[w].pc \in Unsettled /\ UNCHANGED <<got, stalls>>
        /\ stage' = stage \/ \E o \in States : stage' = [stage EXCEPT ![wk[w].job.step] = o]
    BY <1>3 DEF RecordSent, CommitAck, CommitSkip, CommitRequeue, CommitFail, At,
                Unsettled, States
  <2>2. stage[s] = "sent" /\ stage[wk[w].job.step] = "none"
    BY <2>1, StillOpen DEF Preceded
  <2> QED
    BY <1>0, <2>1, <2>2 DEF TypeOK
<1>4. CASE Enqueue
  BY <1>4 DEF Enqueue, Preceded
<1>5. CASE \E w \in Workers : Stall(w)
  BY <1>0, <1>5, DeliveryAssumption DEF Stall, TypeOK
<1>6. CASE \/ UNCHANGED vars
           \/ ReadGeneration \/ (\E j \in delayed : PopMature(j))
           \/ \E w \in Workers :
                \/ (\E i \in idle : ClaimIdle(w, i)) \/ ReadNew(w)
                \/ AcquireLease(w) \/ Heartbeat(w) \/ ReleaseLease(w) \/ Guard(w)
                \/ CheckGate(w) \/ CheckOwnStage(w) \/ CheckClear(w) \/ CheckPrior(w)
                \/ CheckCutoff(w) \/ CheckBlocked(w) \/ AcquireRate(w)
                \/ Begin(w) \/ CountFailure(w) \/ FailPermanently(w) \/ End(w)
                \/ Cancel(w) \/ Crash(w) \/ Resume(w)
           \/ \E r \in Stages : LeaseExpires(r)
           \/ \E i \in Ids : GoesIdle(i)
           \/ SlotsExpire \/ Ageing \/ DayOrNight \/ MuteOrUnmute \/ RecordClear
  <2>1. UNCHANGED Seen
    BY <1>6
       DEF ReadGeneration, PopMature, ClaimIdle, ReadNew, AcquireLease, Heartbeat,
           ReleaseLease, Guard, CheckGate, CheckOwnStage, CheckClear, CheckPrior,
           CheckCutoff, CheckBlocked, AcquireRate, Begin, CountFailure, FailPermanently,
           End, Cancel, Crash, Resume, LeaseExpires, GoesIdle, SlotsExpire, Ageing,
           DayOrNight, MuteOrUnmute, RecordClear, WorldOnly, Reading, redis, vars, Seen
  <2> QED
    BY <1>1, <2>1
<1> QED
  BY <1>2, <1>3, <1>4, <1>5, <1>6 DEF Next, Handle

\* Once a stage was skipped or failed, nothing later of its chain reaches the
\* recipient, for any number of consumers, stages and crashes.
THEOREM Silent == Spec => []GiveUpEndsChain
<1>1. Init => Preceded
  BY DEF Init, Preceded
<1>2. Spec => []Preceded
  BY <1>1, StepPreceded, ChainInvariant, PTL DEF Spec
<1>3. TypeOK /\ Preceded => GiveUpEndsChain
  <2> SUFFICES ASSUME TypeOK, Preceded, stalls = 0, NEW s \in Stages, NEW t \in Stages,
                      s < t, stage[s] \in {"skipped", "failed"}
               PROVE  got[t] = 0
    BY DEF GiveUpEndsChain
  <2>1. got[t] \in Nat
    BY DEF TypeOK
  <2>2. ~(got[t] > 0)
    BY DEF Preceded
  <2> QED
    BY <2>1, <2>2
<1> QED
  BY <1>2, <1>3, TypeCorrect, PTL

-----------------------------------------------------------------------------
(***************************************************************************)
(* Duplicates: every copy of a stage beyond the first is paid for.         *)
(***************************************************************************)

\* The consumer is not suspended, and what it is about to write or send is
\* backed by the pending entry and the lease.
Holds(w) == /\ w \notin stalled
            /\ CanRenew(w)
            /\ lease[wk[w].job.step] = w

\* The consumer may still send its job or give it back, unless the guard refuses.
Risky(w) == \/ wk[w].pc \in {"gate", "own", "clear", "prior", "begin", "sending"}
            \/ wk[w].pc = "commit" /\ wk[w].plan = "requeue"

\* The consumer is about to record and acknowledge what Telegram accepted.
Answers(w) == wk[w].pc = "answer" /\ wk[w].plan = "sent"

Answered(i) == \E w \in Workers : Answers(w) /\ wk[w].id = i /\ Holds(w)

\* The copies of a stage that can still be sent: its delayed jobs, its entries but
\* those whose acceptance is about to be recorded, and the consumers that go on
\* with a job they no longer hold.
Loose(w) == Risky(w) /\ ~Holds(w)

Tokens(s) ==
  {<<"delayed", j>> : j \in {k \in delayed : k.step = s}}
  \cup {<<"entry", i>> : i \in {k \in Ids : entry[k] # None /\ entry[k].step = s
                                             /\ ~Answered(k)}}
  \cup {<<"worker", w>> : w \in {v \in Workers : Loose(v) /\ wk[v].job.step = s}}

\* The copies sent and the copies that can still be sent are at most one more than
\* the faults so far.
Paid ==
  \A s \in Stages : /\ IsFiniteSet(Tokens(s))
                    /\ got[s] + Cardinality(Tokens(s)) <= 1 + faults + stalls

\* A lease names a consumer only while it works on that stage past the acquisition,
\* and the entry of a consumer that owns it under its lease is not idle.
Leased ==
  /\ \A w \in Workers, s \in Stages :
       lease[s] = w => wk[w].pc \notin {"idle", "lease"} /\ wk[w].job.step = s
  /\ \A w \in Workers :
       wk[w].pc # "idle" /\ lease[wk[w].job.step] = w /\ owner[wk[w].id] = w
         => wk[w].id \notin idle

Begun == \A s \in Stages : got[s] > 0 => s \in enqueued

DInv == CInv /\ Leased /\ Begun /\ Paid

-----------------------------------------------------------------------------
(* The books.                                                              *)

\* No copy appears.
LEMMA Less ==
  ASSUME NEW A, IsFiniteSet(A), NEW B, B \subseteq A
  PROVE  /\ IsFiniteSet(B)
         /\ Cardinality(A) \in Nat /\ Cardinality(B) \in Nat
         /\ Cardinality(B) <= Cardinality(A)
<1>1. B \in SUBSET A
  OBVIOUS
<1>2. IsFiniteSet(B) /\ Cardinality(B) <= Cardinality(A)
  BY <1>1, FS_Subset
<1> QED
  BY <1>2, FS_CardinalityType

\* One copy appears.
LEMMA Grow ==
  ASSUME NEW A, IsFiniteSet(A), NEW B, NEW x, B \subseteq A \cup {x}
  PROVE  /\ IsFiniteSet(B)
         /\ Cardinality(A) \in Nat /\ Cardinality(B) \in Nat
         /\ Cardinality(B) <= Cardinality(A) + 1
<1> DEFINE U == A \cup {x}
<1>1. IsFiniteSet(U) /\ Cardinality(U) = IF x \in A THEN Cardinality(A) ELSE Cardinality(A) + 1
  BY FS_AddElement
<1>2. Cardinality(A) \in Nat
  BY FS_CardinalityType
<1> HIDE DEF U
<1>3. B \subseteq U
  BY DEF U
<1>4. IsFiniteSet(B) /\ Cardinality(B) \in Nat /\ Cardinality(U) \in Nat
      /\ Cardinality(B) <= Cardinality(U)
  BY <1>1, <1>3, Less
<1> QED
  BY <1>1, <1>2, <1>4

\* One copy is spent.
LEMMA Spend ==
  ASSUME NEW A, IsFiniteSet(A), NEW B, NEW y \in A, B \subseteq A \ {y}
  PROVE  /\ IsFiniteSet(B)
         /\ Cardinality(A) \in Nat /\ Cardinality(B) \in Nat
         /\ Cardinality(B) + 1 <= Cardinality(A)
<1> DEFINE U == A \ {y}
<1>1. IsFiniteSet(U) /\ Cardinality(U) = Cardinality(A) - 1
  BY FS_RemoveElement
<1>2. Cardinality(A) \in Nat
  BY FS_CardinalityType
<1> HIDE DEF U
<1>3. B \subseteq U
  BY DEF U
<1>4. IsFiniteSet(B) /\ Cardinality(B) \in Nat /\ Cardinality(U) \in Nat
      /\ Cardinality(B) <= Cardinality(U)
  BY <1>1, <1>3, Less
<1> QED
  BY <1>1, <1>2, <1>4

\* One copy takes the place of another.
LEMMA Swap ==
  ASSUME NEW A, IsFiniteSet(A), NEW B, NEW y \in A, NEW x, B \subseteq (A \ {y}) \cup {x}
  PROVE  /\ IsFiniteSet(B)
         /\ Cardinality(A) \in Nat /\ Cardinality(B) \in Nat
         /\ Cardinality(B) <= Cardinality(A)
<1> DEFINE U == A \ {y}
<1>1. IsFiniteSet(U) /\ Cardinality(U) \in Nat /\ Cardinality(A) \in Nat
      /\ Cardinality(U) + 1 <= Cardinality(A)
  <2>1. U \subseteq A \ {y}
    OBVIOUS
  <2> HIDE DEF U
  <2> QED
    BY <2>1, Spend
<1> HIDE DEF U
<1>2. B \subseteq U \cup {x}
  BY DEF U
<1>3. IsFiniteSet(B) /\ Cardinality(B) \in Nat /\ Cardinality(B) <= Cardinality(U) + 1
  BY <1>1, <1>2, Grow
<1> QED
  BY <1>1, <1>3

\* What is a copy of stage s.
LEMMA TokenFacts ==
  ASSUME NEW s \in Stages
  PROVE  /\ \A j : <<"delayed", j>> \in Tokens(s) <=> j \in delayed /\ j.step = s
         /\ \A i : <<"entry", i>> \in Tokens(s)
                     <=> i \in Ids /\ entry[i] # None /\ entry[i].step = s /\ ~Answered(i)
         /\ \A w : <<"worker", w>> \in Tokens(s)
                     <=> w \in Workers /\ Loose(w) /\ wk[w].job.step = s
         /\ \A x \in Tokens(s) : \E y : x \in {<<"delayed", y>>, <<"entry", y>>, <<"worker", y>>}
BY DEF Tokens

\* Nothing about consumer v makes a copy.
Calm(v) ==
  /\ Loose(v)' => Loose(v) /\ wk'[v].job.step = wk[v].job.step
  /\ Answers(v) /\ Holds(v)
       => entry'[wk[v].id] = None \/ (Answers(v)' /\ Holds(v)' /\ wk'[v].id = wk[v].id)

LEMMA Bystander ==
  ASSUME NEW v \in Workers, wk'[v] = wk[v], wk[v].pc # "idle" /\ Holds(v) => Holds(v)'
  PROVE  Calm(v)
BY DEF Calm, Loose, Risky, Answers

\* The copies of stage s are those before the step and those named.
LEMMA Flow ==
  ASSUME NEW s \in Stages, NEW X,
         \A j \in delayed' : j \in delayed \/ j.step # s \/ <<"delayed", j>> \in X,
         \A i \in Ids : \/ entry'[i] \in {entry[i], None}
                        \/ entry'[i].step # s
                        \/ <<"entry", i>> \in X,
         \A v \in Workers :
           \/ Calm(v)
           \/ /\ Loose(v)' /\ wk'[v].job.step = s => <<"worker", v>> \in X
              /\ Answers(v) /\ Holds(v) => \/ entry'[wk[v].id] = None
                                           \/ entry'[wk[v].id].step # s
                                           \/ <<"entry", wk[v].id>> \in X
  PROVE  Tokens(s)' \subseteq Tokens(s) \cup X
<1> SUFFICES ASSUME NEW x \in Tokens(s)' PROVE x \in Tokens(s) \cup X
  OBVIOUS
<1>1. ASSUME NEW j \in delayed', j.step = s, x = <<"delayed", j>>
      PROVE  x \in Tokens(s) \cup X
  BY <1>1, TokenFacts
<1>2. ASSUME NEW i \in Ids, entry'[i] # None, entry'[i].step = s, ~Answered(i)', x = <<"entry", i>>
      PROVE  x \in Tokens(s) \cup X
  <2>1. CASE entry'[i] # entry[i]
    BY <1>2, <2>1
  <2>2. CASE entry'[i] = entry[i] /\ ~Answered(i)
    BY <1>2, <2>2, TokenFacts
  <2>3. CASE Answered(i)
    <3>1. PICK v \in Workers : Answers(v) /\ wk[v].id = i /\ Holds(v)
      BY <2>3 DEF Answered
    <3>2. ~Calm(v)
      BY <1>2, <3>1 DEF Calm, Answered
    <3> QED
      BY <1>2, <3>1, <3>2
  <2> QED
    BY <2>1, <2>2, <2>3
<1>3. ASSUME NEW w \in Workers, Loose(w)', wk'[w].job.step = s, x = <<"worker", w>>
      PROVE  x \in Tokens(s) \cup X
  BY <1>3, TokenFacts DEF Calm
<1> QED
  BY <1>1, <1>2, <1>3 DEF Tokens

LEMMA Counters ==
  ASSUME TypeOK
  PROVE  faults \in Nat /\ stalls \in Nat /\ \A s \in Stages : got[s] \in Nat
BY DeliveryAssumption DEF TypeOK

\* What a step may do to the copies of a stage: none appears, one appears for a fault,
\* one is sent, or as many appear as go.
Accounted(s) ==
  LET before == Tokens(s)
      after == Tokens(s)'
  IN \/ /\ after \subseteq before
        /\ got'[s] + faults + stalls <= got[s] + faults' + stalls'
     \/ /\ \E x : after \subseteq before \cup {x}
        /\ got'[s] = got[s] /\ faults + stalls + 1 <= faults' + stalls'
     \/ /\ \E y \in before : after \subseteq before \ {y}
        /\ got'[s] = got[s] + 1 /\ faults + stalls <= faults' + stalls'
     \/ /\ \E y \in before : \E x : after \subseteq (before \ {y}) \cup {x}
        /\ got'[s] = got[s] /\ faults + stalls <= faults' + stalls'
     \/ /\ \E y, z \in before : y # z /\ \E x, u : after \subseteq (before \ {y, z}) \cup {x, u}
        /\ got'[s] = got[s] /\ faults + stalls <= faults' + stalls'

LEMMA Books ==
  ASSUME TypeOK, TypeOK', Paid, \A s \in Stages : Accounted(s)
  PROVE  Paid'
<1> SUFFICES ASSUME NEW s \in Stages
             PROVE  /\ IsFiniteSet(Tokens(s)')
                    /\ got'[s] + Cardinality(Tokens(s)') <= 1 + faults' + stalls'
  BY DEF Paid
<1> DEFINE A == Tokens(s)
           B == Tokens(s)'
<1>1. IsFiniteSet(A) /\ got[s] + Cardinality(A) <= 1 + faults + stalls
  BY DEF Paid
<1>2. \/ /\ B \subseteq A
         /\ got'[s] + faults + stalls <= got[s] + faults' + stalls'
      \/ /\ \E x : B \subseteq A \cup {x}
         /\ got'[s] = got[s] /\ faults + stalls + 1 <= faults' + stalls'
      \/ /\ \E y \in A : B \subseteq A \ {y}
         /\ got'[s] = got[s] + 1 /\ faults + stalls <= faults' + stalls'
      \/ /\ \E y \in A : \E x : B \subseteq (A \ {y}) \cup {x}
         /\ got'[s] = got[s] /\ faults + stalls <= faults' + stalls'
      \/ /\ \E y, z \in A : y # z /\ \E x, u : B \subseteq (A \ {y, z}) \cup {x, u}
         /\ got'[s] = got[s] /\ faults + stalls <= faults' + stalls'
  BY DEF Accounted
<1>3. got[s] \in Nat /\ faults \in Nat /\ stalls \in Nat
  BY Counters
<1>4. got'[s] \in Nat /\ faults' \in Nat /\ stalls' \in Nat
  BY DeliveryAssumption DEF TypeOK
<1> HIDE DEF A, B
<1>5. IsFiniteSet(B) /\ Cardinality(A) \in Nat /\ Cardinality(B) \in Nat
      /\ \/ /\ Cardinality(B) <= Cardinality(A)
            /\ got'[s] + faults + stalls <= got[s] + faults' + stalls'
         \/ /\ Cardinality(B) <= Cardinality(A) + 1
            /\ got'[s] = got[s] /\ faults + stalls + 1 <= faults' + stalls'
         \/ /\ Cardinality(B) + 1 <= Cardinality(A)
            /\ got'[s] = got[s] + 1 /\ faults + stalls <= faults' + stalls'
         \/ /\ Cardinality(B) <= Cardinality(A)
            /\ got'[s] = got[s] /\ faults + stalls <= faults' + stalls'
  <2>1. CASE B \subseteq A /\ got'[s] + faults + stalls <= got[s] + faults' + stalls'
    BY <1>1, <2>1, Less
  <2>2. CASE /\ \E x : B \subseteq A \cup {x}
             /\ got'[s] = got[s] /\ faults + stalls + 1 <= faults' + stalls'
    BY <1>1, <2>2, Grow
  <2>3. CASE /\ \E y \in A : B \subseteq A \ {y}
             /\ got'[s] = got[s] + 1 /\ faults + stalls <= faults' + stalls'
    BY <1>1, <2>3, Spend
  <2>4. CASE /\ \E y \in A : \E x : B \subseteq (A \ {y}) \cup {x}
             /\ got'[s] = got[s] /\ faults + stalls <= faults' + stalls'
    BY <1>1, <2>4, Swap
  <2>5. CASE /\ \E y, z \in A : y # z /\ \E x, u : B \subseteq (A \ {y, z}) \cup {x, u}
             /\ got'[s] = got[s] /\ faults + stalls <= faults' + stalls'
    <3>1. PICK y \in A, z \in A : y # z /\ \E x, u : B \subseteq (A \ {y, z}) \cup {x, u}
      BY <2>5
    <3>2. PICK x, u : B \subseteq (A \ {y, z}) \cup {x, u}
      BY <3>1
    <3> DEFINE V == (A \ {y, z}) \cup {u}
               W == A \ {y}
    <3>3. y \in A /\ W \subseteq A \ {y} /\ B \subseteq V \cup {x}
      BY <3>2
    <3>4. z \in W /\ V \subseteq (W \ {z}) \cup {u}
      BY <3>1
    <3> HIDE DEF V, W
    <3>5. IsFiniteSet(W) /\ Cardinality(W) \in Nat /\ Cardinality(A) \in Nat
          /\ Cardinality(W) + 1 <= Cardinality(A)
      BY <1>1, <3>3, Spend
    <3>6. IsFiniteSet(V) /\ Cardinality(V) \in Nat /\ Cardinality(V) <= Cardinality(W)
      BY <3>4, <3>5, Swap
    <3>7. IsFiniteSet(B) /\ Cardinality(B) \in Nat /\ Cardinality(B) <= Cardinality(V) + 1
      BY <3>3, <3>6, Grow
    <3> QED
      BY <2>5, <3>5, <3>6, <3>7
  <2> QED
    BY <1>2, <2>1, <2>2, <2>3, <2>4, <2>5
<1>6. got'[s] + Cardinality(B) <= 1 + faults' + stalls'
  <2>1. PICK g \in Nat, f \in Nat, t \in Nat, h \in Nat, e \in Nat, u \in Nat :
          /\ g = got[s] /\ f = faults /\ t = stalls
          /\ h = got'[s] /\ e = faults' /\ u = stalls'
    BY <1>3, <1>4
  <2>2. PICK c \in Nat, d \in Nat : c = Cardinality(A) /\ d = Cardinality(B)
    BY <1>5
  <2>3. g + c <= 1 + f + t
    BY <1>1, <2>1, <2>2
  <2>4. \/ d <= c /\ h + f + t <= g + e + u
        \/ d <= c + 1 /\ h = g /\ f + t + 1 <= e + u
        \/ d + 1 <= c /\ h = g + 1 /\ f + t <= e + u
        \/ d <= c /\ h = g /\ f + t <= e + u
    BY <1>5, <2>1, <2>2
  <2>5. h + d <= 1 + e + u
    BY <2>3, <2>4
  <2> QED
    BY <2>1, <2>2, <2>5
<1> QED
  BY <1>5, <1>6 DEF B

-----------------------------------------------------------------------------
(* Leases, holders and bystanders.                                         *)

LEMMA HoldsSame ==
  ASSUME NEW v \in Workers, wk'[v].id = wk[v].id, wk'[v].job = wk[v].job,
         UNCHANGED <<entry, owner, lease, stalled>>
  PROVE  Holds(v)' <=> Holds(v)
BY DEF Holds, CanRenew

\* Somebody else's step: the holder keeps its entry and lease.
LEMMA StillHolds ==
  ASSUME NEW v \in Workers, wk'[v] = wk[v], Holds(v),
         lease[wk[v].job.step] = v => lease'[wk[v].job.step] = v,
         owner[wk[v].id] = v => /\ owner'[wk[v].id] = v
                                /\ entry'[wk[v].id] = entry[wk[v].id],
         v \notin stalled'
  PROVE  Holds(v)'
BY DEF Holds, CanRenew

\* Leases pass to the consumer that takes the step, at most.
LEMMA LeasedStays ==
  ASSUME Leased, NEW w,
         \A v \in Workers \ {w} : wk'[v] = wk[v],
         idle' \subseteq idle,
         \A v \in Workers \ {w} : /\ \A s \in Stages : lease'[s] = v => lease[s] = v
                                  /\ \A i \in Ids : owner'[i] = v => owner[i] = v,
         \A v \in Workers : wk'[v].pc # "idle" => wk'[v].id \in Ids /\ wk'[v].job.step \in Stages,
         w \in Workers =>
           \/ \A s \in Stages : lease'[s] # w
           \/ /\ wk'[w].pc \notin {"idle", "lease"}
              /\ wk'[w].id = wk[w].id /\ wk'[w].job = wk[w].job
              /\ \A s \in Stages : lease'[s] = w =>
                   \/ s = wk[w].job.step /\ wk[w].id \notin idle'
                   \/ lease[s] = w /\ wk[w].pc # "idle" /\ owner'[wk[w].id] = owner[wk[w].id]
           \/ wk'[w] = wk[w] /\ \A s \in Stages : lease'[s] = lease[s]
                /\ owner' = owner
  PROVE  Leased'
<1>1. ASSUME NEW v \in Workers, NEW s \in Stages, lease'[s] = v
      PROVE  wk'[v].pc \notin {"idle", "lease"} /\ wk'[v].job.step = s
  <2>1. CASE v # w
    BY <1>1, <2>1 DEF Leased
  <2>2. CASE v = w
    BY <1>1, <2>2 DEF Leased
  <2> QED
    BY <2>1, <2>2
<1>2. ASSUME NEW v \in Workers, wk'[v].pc # "idle", lease'[wk'[v].job.step] = v,
             owner'[wk'[v].id] = v
      PROVE  wk'[v].id \notin idle'
  <2>0. wk'[v].id \in Ids /\ wk'[v].job.step \in Stages
    BY <1>2
  <2>1. CASE v # w
    BY <1>2, <2>0, <2>1 DEF Leased
  <2>2. CASE v = w
    BY <1>2, <2>0, <2>2 DEF Leased
  <2> QED
    BY <2>1, <2>2
<1> QED
  BY <1>1, <1>2 DEF Leased

Booked == Leased' /\ Begun' /\ \A s \in Stages : Accounted(s)

\* No copy appears.
LEMMA Calmly ==
  ASSUME TypeOK, UNCHANGED got, faults' + stalls' >= faults + stalls,
         faults' \in Nat, stalls' \in Nat,
         \A j \in delayed' : j \in delayed,
         \A i \in Ids : entry'[i] \in {entry[i], None},
         \A v \in Workers : Calm(v)
  PROVE  \A s \in Stages : Accounted(s)
<1> SUFFICES ASSUME NEW s \in Stages PROVE Accounted(s)
  OBVIOUS
<1>1. Tokens(s)' \subseteq Tokens(s) \cup {}
  BY Flow
<1>2. got'[s] + faults + stalls <= got[s] + faults' + stalls'
  BY Counters
<1> QED
  BY <1>1, <1>2 DEF Accounted

\* A consumer goes on with its entry and its lease.
LEMMA Plainly ==
  ASSUME CInv, Leased, Begun, NEW w \in Workers, GoesOn(w), wk'[w].pc # "lease",
         UNCHANGED <<entry, owner, idle, lease, delayed, enqueued, stalled, got, faults, stalls>>,
         Risky(w)' => Risky(w), ~Answers(w)
  PROVE  Booked
<1>0. TypeOK
  BY DEF CInv, IInv
<1>1. \A v \in Workers \ {w} : wk'[v] = wk[v]
  BY DEF GoesOn
<1>2. \A v \in Workers : Calm(v)
  <2>1. ASSUME NEW v \in Workers \ {w} PROVE Calm(v)
    BY <1>1, HoldsSame, Bystander
  <2>2. Holds(w)' <=> Holds(w)
    BY HoldsSame DEF GoesOn
  <2>3. Calm(w)
    BY <2>2 DEF Calm, Loose, GoesOn
  <2> QED
    BY <2>1, <2>3
<1>3. \A s \in Stages : Accounted(s)
  BY <1>0, <1>2, Calmly, Counters
<1>4. wk[w].pc # "idle" /\ wk[w].id \in Ids /\ wk[w].job \in Job
  BY <1>0 DEF GoesOn, TypeOK
<1>5. \A v \in Workers : wk'[v].pc # "idle" => wk'[v].id \in Ids /\ wk'[v].job.step \in Stages
  BY <1>0, <1>1, <1>4, JobFacts DEF GoesOn, TypeOK
<1>6. Leased'
  BY <1>1, <1>4, <1>5, LeasedStays DEF GoesOn
<1> QED
  BY <1>3, <1>6 DEF Booked, Begun

\* The reads before the send, the wait for a slot, its reservation, the failures that
\* Telegram answered, the finally clause.
LEMMA PlainSteps ==
  ASSUME CInv, Leased, Begun, NEW w \in Workers,
         \/ CheckGate(w) \/ CheckOwnStage(w) \/ CheckClear(w) \/ CheckPrior(w)
         \/ CheckCutoff(w) \/ CheckBlocked(w) \/ AcquireRate(w)
         \/ Begin(w) \/ CountFailure(w) \/ FailPermanently(w) \/ End(w)
  PROVE  Booked
<1> USE DEF At, PCs, Working, Checks, Plans
<1>0. TypeOK
  BY DEF CInv, IInv
<1>1. /\ wk[w].pc # "idle"
      /\ UNCHANGED <<entry, owner, idle, lease, delayed, enqueued, stalled, got, faults, stalls>>
      /\ ~Answers(w)
  BY DEF CheckGate, CheckOwnStage, CheckClear, CheckPrior, CheckCutoff, CheckBlocked,
         AcquireRate, Begin, CountFailure, FailPermanently, End, Reading, redis, Answers
<1>2. ASSUME NEW pc \in PCs \ {"idle", "lease"}, Goto(w, pc),
             pc \in {"gate", "own", "clear", "prior", "begin", "sending"} => Risky(w),
             pc # "commit"
      PROVE  Booked
  <2>1. GoesOn(w) /\ wk'[w].pc = pc
    BY <1>0, <1>1, <1>2, GotoFacts
  <2> QED
    BY <1>1, <1>2, <2>1, Plainly DEF Risky
<1>3. ASSUME NEW plan \in Plans, Commit(w, plan), plan = "requeue" => wk[w].pc = "prior"
      PROVE  Booked
  <2>1. GoesOn(w) /\ wk'[w].pc = "commit" /\ wk'[w].plan = plan
    BY <1>0, <1>1, <1>3, PlanFacts DEF Commit
  <2> QED
    BY <1>1, <1>3, <2>1, Plainly DEF Risky
<1>4. CASE CheckGate(w)
  BY <1>2, <1>3, <1>4 DEF CheckGate, Risky
<1>5. CASE CheckOwnStage(w)
  BY <1>2, <1>3, <1>5 DEF CheckOwnStage, Risky
<1>6. CASE CheckClear(w)
  BY <1>2, <1>3, <1>6 DEF CheckClear, Risky
<1>7. CASE CheckPrior(w)
  BY <1>2, <1>3, <1>7 DEF CheckPrior, Risky
<1>8. CASE CheckCutoff(w)
  BY <1>2, <1>3, <1>8 DEF CheckCutoff, Risky
<1>9. CASE CheckBlocked(w)
  BY <1>2, <1>3, <1>9 DEF CheckBlocked, Risky
<1>10. CASE AcquireRate(w)
  <2>1. CASE Goto(w, "guard")
    BY <1>2, <2>1
  <2>2. CASE wk' = [wk EXCEPT ![w].pc = "answer", ![w].plan = "retry"]
    <3>1. GoesOn(w) /\ wk'[w].pc = "answer"
      BY <1>0, <1>1, <2>2, PlanFacts
    <3> QED
      BY <1>1, <3>1, Plainly DEF Risky
  <2> QED
    BY <1>10, <2>1, <2>2 DEF AcquireRate
<1>11. CASE Begin(w)
  <2>1. CASE wk' = [wk EXCEPT ![w].pc = "sending", ![w].reserved = TRUE]
    <3>1. GoesOn(w) /\ wk'[w].pc = "sending" /\ Risky(w)
      BY <1>0, <1>1, <1>11, <2>1, SlotFacts DEF Begin, Risky
    <3> QED
      BY <1>1, <3>1, Plainly
  <2>2. ASSUME NEW plan \in {"ack", "skip"}, Commit(w, plan) PROVE Booked
    BY <1>3, <2>2
  <2> QED
    BY <1>11, <2>1, <2>2 DEF Begin
<1>12. CASE CountFailure(w)
  <2>1. CASE Commit(w, "fail")
    BY <1>3, <2>1
  <2>2. CASE Goto(w, Leaving(w))
    <3>1. PICK pc \in {"end", "release"} : Goto(w, pc)
      BY <2>2, LeavingFacts
    <3> QED
      BY <1>2, <3>1
  <2> QED
    BY <1>12, <2>1, <2>2 DEF CountFailure
<1>13. CASE FailPermanently(w)
  BY <1>3, <1>13 DEF FailPermanently
<1>14. CASE End(w)
  <2>1. GoesOn(w) /\ wk'[w].pc = "release"
    BY <1>0, <1>1, <1>14, SlotFacts DEF End
  <2> QED
    BY <1>1, <2>1, Plainly DEF Risky
<1> QED
  BY <1>4, <1>5, <1>6, <1>7, <1>8, <1>9, <1>10, <1>11, <1>12, <1>13, <1>14

\* Where an entry and a lease of the others are left alone, so are their copies.
LEMMA Others ==
  ASSUME TypeOK, NEW w, NEW v \in Workers \ {w}, wk'[v] = wk[v],
         \A s \in Stages : lease[s] = v => lease'[s] = v,
         \A i \in Ids : owner[i] = v /\ wk[v].pc # "idle" /\ wk[v].id = i /\ Holds(v)
                          => owner'[i] = v /\ entry'[i] = entry[i],
         v \in stalled' => v \in stalled
  PROVE  Calm(v)
<1>1. ASSUME wk[v].pc # "idle", Holds(v) PROVE Holds(v)'
  <2>1. wk[v].id \in Ids /\ wk[v].job.step \in Stages
    BY <1>1, JobFacts DEF TypeOK
  <2>2. v \notin stalled'
    BY <1>1 DEF Holds
  <2> QED
    BY <1>1, <2>1, <2>2, StillHolds
<1> QED
  BY <1>1, Bystander

\* The lease is acquired, renewed, lost or released.
LEMMA LeaseBooks ==
  ASSUME CInv, Leased, Begun, NEW w \in Workers,
         AcquireLease(w) \/ Heartbeat(w) \/ ReleaseLease(w) \/ Guard(w)
  PROVE  Booked
<1> USE DEF At, PCs, Working, Checks
<1>0. TypeOK
  BY DEF CInv, IInv
<1>1. /\ wk[w].pc # "idle" /\ w \notin stalled /\ idle' \subseteq idle
      /\ UNCHANGED <<entry, owner, delayed, enqueued, stalled, got, faults, stalls>>
  BY DEF AcquireLease, Heartbeat, ReleaseLease, Guard, Renew, Runs
<1>2. wk[w].id \in Ids /\ wk[w].job \in Job /\ wk[w].job.step \in Stages
  BY <1>0, <1>1, JobFacts DEF TypeOK
<1>3. lease \in [Stages -> Workers \cup {None, Orphan}]
      /\ None \notin Workers /\ Orphan \notin Workers
  BY <1>0, DeliveryAssumption DEF TypeOK
<1> DEFINE renewed ==
             /\ CanRenew(w) /\ Renew(w)
             /\ \/ UNCHANGED wk /\ wk[w].pc # "lease"
                \/ GoesOn(w) /\ wk'[w].pc \in {"gate", "begin"} /\ wk[w].pc \in {"lease", "guard"}
<1>4. \/ renewed
      \/ /\ ~CanRenew(w) /\ UNCHANGED lease
         /\ GoesOn(w) /\ wk'[w].pc \in {"end", "release"}
      \/ /\ wk[w].pc = "lease" /\ UNCHANGED lease /\ Resets(w)
      \/ /\ wk[w].pc = "release" /\ Resets(w)
         /\ lease' = [lease EXCEPT ![wk[w].job.step] = IF @ = w THEN None ELSE @]
  <2>1. CASE AcquireLease(w)
    <3>1. CASE CanRenew(w) /\ Renew(w) /\ Goto(w, "gate")
      BY <1>0, <1>1, <2>1, <3>1, GotoFacts DEF AcquireLease
    <3>2. CASE ~CanRenew(w) /\ wk' = [wk EXCEPT ![w] = Rest] /\ UNCHANGED <<lease, idle>>
      BY <1>0, <2>1, <3>2, ResetFacts DEF AcquireLease
    <3> QED
      BY <2>1, <3>1, <3>2 DEF AcquireLease
  <2>2. CASE Heartbeat(w)
    <3>1. CASE CanRenew(w) /\ Renew(w) /\ UNCHANGED wk
      BY <2>2, <3>1 DEF Heartbeat
    <3>2. CASE ~CanRenew(w) /\ Goto(w, Leaving(w)) /\ UNCHANGED lease
      <4>1. PICK pc \in {"end", "release"} : Goto(w, pc)
        BY <3>2, LeavingFacts
      <4> QED
        BY <1>0, <1>1, <3>2, <4>1, GotoFacts
    <3>3. CASE /\ ~CanRenew(w) /\ UNCHANGED lease
               /\ wk' = [wk EXCEPT ![w].pc = "release", ![w].reserved = FALSE]
      BY <1>0, <1>1, <3>3, SlotFacts
    <3> QED
      BY <2>2, <3>1, <3>2, <3>3 DEF Heartbeat
  <2>3. CASE ReleaseLease(w)
    BY <1>0, <2>3, ResetFacts DEF ReleaseLease
  <2>4. CASE Guard(w)
    <3>1. CASE CanRenew(w) /\ Renew(w) /\ Goto(w, "begin")
      BY <1>0, <1>1, <2>4, <3>1, GotoFacts DEF Guard
    <3>2. CASE ~CanRenew(w) /\ Goto(w, "release") /\ UNCHANGED <<lease, idle>>
      BY <1>0, <1>1, <3>2, GotoFacts
    <3> QED
      BY <2>4, <3>1, <3>2 DEF Guard
  <2> QED
    BY <2>1, <2>2, <2>3, <2>4
<1>5. \A v \in Workers \ {w} : wk'[v] = wk[v]
  BY <1>4 DEF GoesOn, Resets
<1>6. \A v \in Workers \ {w}, s \in Stages : lease'[s] = v <=> lease[s] = v
  BY <1>2, <1>3, <1>4 DEF Renew, CanRenew
<1>7. Calm(w)
  <2>1. CASE renewed
    <3>1. wk'[w].id = wk[w].id /\ wk'[w].job = wk[w].job
      BY <2>1 DEF GoesOn
    <3>2. lease'[wk[w].job.step] = w
      BY <1>2, <1>3, <2>1 DEF Renew
    <3>3. Holds(w)'
      BY <1>1, <2>1, <3>1, <3>2 DEF Holds, CanRenew
    <3> QED
      BY <2>1, <3>1, <3>3 DEF Calm, Loose, Answers
  <2>2. CASE ~renewed
    BY <1>4, <2>2 DEF Calm, Loose, Risky, Answers, Holds, Resets, Rest
  <2> QED
    BY <2>1, <2>2
<1>8. \A v \in Workers : Calm(v)
  <2>1. ASSUME NEW v \in Workers \ {w} PROVE Calm(v)
    BY <1>0, <1>1, <1>5, <1>6, Others
  <2> QED
    BY <1>7, <2>1
<1>9. \A s \in Stages : Accounted(s)
  BY <1>0, <1>1, <1>8, Calmly, Counters
<1>10. \A v \in Workers : wk'[v].pc # "idle" => wk'[v].id \in Ids /\ wk'[v].job.step \in Stages
  <2>1. ASSUME NEW v \in Workers \ {w}, wk'[v].pc # "idle"
        PROVE  wk'[v].id \in Ids /\ wk'[v].job.step \in Stages
    BY <1>0, <1>5, <2>1, JobFacts DEF TypeOK
  <2> QED
    BY <1>2, <1>4, <2>1 DEF GoesOn, Resets, Rest
<1>11. \/ \A s \in Stages : lease'[s] # w
       \/ /\ wk'[w].pc \notin {"idle", "lease"}
          /\ wk'[w].id = wk[w].id /\ wk'[w].job = wk[w].job
          /\ \A s \in Stages : lease'[s] = w =>
               \/ s = wk[w].job.step /\ wk[w].id \notin idle'
               \/ lease[s] = w /\ wk[w].pc # "idle" /\ owner'[wk[w].id] = owner[wk[w].id]
  <2>1. CASE renewed
    <3>1. wk'[w].pc \notin {"idle", "lease"} /\ wk'[w].id = wk[w].id /\ wk'[w].job = wk[w].job
      BY <1>1, <2>1 DEF GoesOn
    <3>2. /\ \A s \in Stages \ {wk[w].job.step} : lease'[s] = lease[s]
          /\ wk[w].id \notin idle'
      BY <1>2, <1>3, <2>1 DEF Renew
    <3> QED
      BY <1>1, <3>1, <3>2
  <2>2. CASE ~CanRenew(w) /\ UNCHANGED lease /\ GoesOn(w) /\ wk'[w].pc \in {"end", "release"}
    BY <1>1, <2>2 DEF GoesOn
  <2>3. CASE wk[w].pc = "lease" /\ UNCHANGED lease
    BY <2>3 DEF Leased
  <2>4. CASE lease' = [lease EXCEPT ![wk[w].job.step] = IF @ = w THEN None ELSE @]
    BY <1>2, <1>3, <2>4 DEF Leased
  <2> QED
    BY <1>4, <2>1, <2>2, <2>3, <2>4
<1>12. Leased'
  BY <1>1, <1>5, <1>6, <1>10, <1>11, LeasedStays
<1> QED
  BY <1>1, <1>9, <1>12 DEF Booked, Begun

\* A copy comes back with a cancellation, a crash or a suspension, which pays for it.
LEMMA FaultBooks ==
  ASSUME CInv, Leased, Begun, NEW w \in Workers, Cancel(w) \/ Crash(w) \/ Stall(w)
  PROVE  Booked
<1>0. TypeOK
  BY DEF CInv, IInv
<1>1. /\ wk[w].pc # "idle"
      /\ UNCHANGED <<entry, owner, idle, delayed, enqueued, got>>
      /\ stalled' \subseteq stalled \cup {w}
  BY DEF Cancel, Crash, Stall, redis, Working, Checks
<1>2. faults' + stalls' = faults + stalls + 1
  BY <1>0, Counters DEF Cancel, Crash, Stall
<1>3. /\ wk[w].id \in Ids /\ wk[w].job.step \in Stages
      /\ lease \in [Stages -> Workers \cup {None, Orphan}]
      /\ Orphan \notin Workers
  BY <1>0, <1>1, JobFacts, DeliveryAssumption DEF TypeOK
<1>4. \/ GoesOn(w) /\ wk'[w].pc \in {"end", "release"} /\ UNCHANGED lease
      \/ Resets(w) /\ lease' = [s \in Stages |-> IF lease[s] = w THEN Orphan ELSE lease[s]]
      \/ UNCHANGED <<wk, lease>>
  <2>1. CASE Cancel(w)
    <3>1. PICK pc \in {"end", "release"} : Goto(w, pc)
      BY <2>1, LeavingFacts DEF Cancel
    <3> QED
      BY <1>0, <1>1, <2>1, <3>1, GotoFacts DEF Cancel, redis, PCs, Working
  <2>2. CASE Crash(w)
    BY <1>0, <2>2, ResetFacts DEF Crash
  <2>3. CASE Stall(w)
    BY <2>3 DEF Stall, redis
  <2> QED
    BY <2>1, <2>2, <2>3
<1>5. \A v \in Workers \ {w} : wk'[v] = wk[v]
  BY <1>4 DEF GoesOn, Resets
<1>6. \A v \in Workers \ {w}, s \in Stages : lease'[s] = v <=> lease[s] = v
  BY <1>3, <1>4
<1>7. \A v \in Workers \ {w} : Calm(v)
  BY <1>0, <1>1, <1>5, <1>6, Others
<1>8. ASSUME NEW s \in Stages PROVE Accounted(s)
  <2>1. Answers(w) => ~Loose(w)'
    BY <1>4 DEF Answers, Loose, Risky, Resets, Rest
  <2>2. PICK x : /\ Loose(w)' => <<"worker", w>> = x
                 /\ Answers(w) /\ Holds(w) => <<"entry", wk[w].id>> = x
    BY <2>1
  <2>3. \A v \in Workers :
          \/ Calm(v)
          \/ /\ Loose(v)' /\ wk'[v].job.step = s => <<"worker", v>> \in {x}
             /\ Answers(v) /\ Holds(v) => \/ entry'[wk[v].id] = None
                                          \/ entry'[wk[v].id].step # s
                                          \/ <<"entry", wk[v].id>> \in {x}
    BY <1>7, <2>2
  <2>4. delayed' = delayed /\ entry' = entry
    BY <1>1
  <2>5. Tokens(s)' \subseteq Tokens(s) \cup {x}
    BY <2>3, <2>4, Flow
  <2>6. got'[s] = got[s] /\ faults + stalls + 1 <= faults' + stalls'
    BY <1>0, <1>1, <1>2, Counters
  <2> QED
    BY <2>5, <2>6 DEF Accounted
<1>9. \A v \in Workers : wk'[v].pc # "idle" => wk'[v].id \in Ids /\ wk'[v].job.step \in Stages
  <2>1. ASSUME NEW v \in Workers \ {w}, wk'[v].pc # "idle"
        PROVE  wk'[v].id \in Ids /\ wk'[v].job.step \in Stages
    BY <1>0, <1>5, <2>1, JobFacts DEF TypeOK
  <2> QED
    BY <1>3, <1>4, <2>1 DEF GoesOn, Resets, Rest
<1>10. \/ \A s \in Stages : lease'[s] # w
       \/ /\ wk'[w].pc \notin {"idle", "lease"}
          /\ wk'[w].id = wk[w].id /\ wk'[w].job = wk[w].job
          /\ \A s \in Stages : lease'[s] = w =>
               \/ s = wk[w].job.step /\ wk[w].id \notin idle'
               \/ lease[s] = w /\ wk[w].pc # "idle" /\ owner'[wk[w].id] = owner[wk[w].id]
       \/ wk'[w] = wk[w] /\ \A s \in Stages : lease'[s] = lease[s]
                /\ owner' = owner
  BY <1>1, <1>3, <1>4 DEF GoesOn
<1>11. Leased'
  BY <1>1, <1>5, <1>6, <1>9, <1>10, LeasedStays
<1> QED
  BY <1>1, <1>8, <1>11 DEF Booked, Begun

\* The passage of time, the outside world, a consumer that goes on.
LEMMA TimeBooks ==
  ASSUME CInv, Leased, Begun,
         \/ \E w \in Workers : Resume(w)
         \/ \E s \in Stages : LeaseExpires(s)
         \/ ReadGeneration \/ SlotsExpire
         \/ Ageing \/ DayOrNight \/ MuteOrUnmute \/ RecordClear
         \/ UNCHANGED vars
  PROVE  Booked
<1>0. TypeOK
  BY DEF CInv, IInv
<1>1. /\ UNCHANGED <<entry, owner, idle, delayed, enqueued, wk, got, faults, stalls>>
      /\ stalled' \subseteq stalled
  BY DEF Resume, LeaseExpires, ReadGeneration, SlotsExpire, Ageing, DayOrNight,
         MuteOrUnmute, RecordClear, WorldOnly, vars, redis
<1>2. \/ UNCHANGED lease
      \/ \E s \in Stages : /\ lease[s] \in {Orphan} \cup stalled
                           /\ lease' = [lease EXCEPT ![s] = None]
  BY DEF Resume, LeaseExpires, ReadGeneration, SlotsExpire, Ageing, DayOrNight,
         MuteOrUnmute, RecordClear, WorldOnly, vars, redis
<1>3. lease \in [Stages -> Workers \cup {None, Orphan}]
      /\ None \notin Workers /\ Orphan \notin Workers
  BY <1>0, DeliveryAssumption DEF TypeOK
<1>4. \A s \in Stages : lease'[s] \in {lease[s], None}
  BY <1>2, <1>3
<1>5. \A v \in Workers : Calm(v)
  <2>1. ASSUME NEW v \in Workers, wk[v].pc # "idle", Holds(v) PROVE Holds(v)'
    <3>1. wk[v].job.step \in Stages /\ v \notin stalled /\ lease[wk[v].job.step] = v
      BY <1>0, <2>1, JobFacts DEF TypeOK, Holds
    <3>2. lease'[wk[v].job.step] = v
      BY <1>2, <1>3, <3>1
    <3> QED
      BY <1>1, <2>1, <3>1, <3>2, StillHolds
  <2> QED
    BY <1>1, <2>1, Bystander
<1>6. \A s \in Stages : Accounted(s)
  BY <1>0, <1>1, <1>5, Calmly, Counters
<1>7. Leased'
  <2>1. \A v \in Workers, s \in Stages : lease'[s] = v => lease[s] = v
    BY <1>3, <1>4
  <2>2. \A v \in Workers : wk[v].pc # "idle" => wk[v].job.step \in Stages
    BY <1>0, JobFacts DEF TypeOK
  <2> QED
    BY <1>1, <2>1, <2>2 DEF Leased
<1> QED
  BY <1>1, <1>6, <1>7 DEF Booked, Begun

\* No entry becomes idle under the lease of the consumer that owns it.
LEMMA IdleBooks == ASSUME CInv, Leased, Begun, NEW i \in Ids, GoesIdle(i) PROVE Booked
<1>0. TypeOK /\ Dropped
  BY DEF CInv, IInv, Lossless
<1>1. /\ UNCHANGED <<entry, owner, delayed, enqueued, wk, lease, stalled, got, faults, stalls>>
      /\ entry[i] # None /\ ~Tended(i) /\ idle' = idle \cup {i}
      /\ lease[entry[i].step] \notin {Orphan} \cup stalled
  BY DEF GoesIdle
<1>2. \A v \in Workers : Calm(v)
  BY <1>1, HoldsSame, Bystander
<1>3. \A s \in Stages : Accounted(s)
  BY <1>0, <1>1, <1>2, Calmly, Counters
<1>4. ASSUME NEW v \in Workers, wk[v].pc # "idle", lease[wk[v].job.step] = v,
             owner[wk[v].id] = v
      PROVE  wk[v].id # i
  <2> SUFFICES ASSUME wk[v].id = i PROVE FALSE
    OBVIOUS
  <2>1. v \in stalled
    BY <1>1, <1>4 DEF Tended
  <2>2. entry[i] = wk[v].job
    BY <1>0, <1>1, <1>4 DEF Dropped
  <2> QED
    BY <1>1, <1>4, <2>1, <2>2
<1>5. Leased'
  BY <1>1, <1>4 DEF Leased
<1> QED
  BY <1>1, <1>3, <1>5 DEF Booked, Begun

\* An entry is taken from nobody who holds it.
LEMMA TakeBooks ==
  ASSUME CInv, Leased, Begun, NEW w \in Workers,
         (\E i \in idle : ClaimIdle(w, i)) \/ ReadNew(w)
  PROVE  Booked
<1>0. TypeOK /\ Unread /\ IdlePending
  BY DEF CInv, IInv
<1>1. PICK i \in Ids : /\ Take(w, i)
                       /\ owner' = [owner EXCEPT ![i] = w]
                       /\ entry[i] # None
                       /\ i \in idle \/ \A v \in Workers : wk[v].id # i
  <2>1. ASSUME NEW i \in idle, ClaimIdle(w, i) PROVE i \in Ids /\ entry[i] # None
    BY <1>0 DEF TypeOK, IdlePending
  <2>2. ASSUME ReadNew(w)
        PROVE  /\ Head(queue) \in Ids /\ entry[Head(queue)] # None
               /\ \A v \in Workers : wk[v].id # Head(queue)
    <3>1. queue \in Seq(Ids) /\ queue # <<>>
      BY <1>0, <2>2 DEF TypeOK, ReadNew
    <3>2. Head(queue) = queue[1] /\ 1 \in 1..Len(queue) /\ Head(queue) \in Ids
      BY <3>1
    <3> QED
      BY <1>0, <3>2 DEF Unread
  <2> QED
    BY <2>1, <2>2 DEF ClaimIdle, ReadNew
<1>2. /\ UNCHANGED <<entry, lease, delayed, enqueued, stalled, got, faults, stalls>>
      /\ idle' \subseteq idle /\ wk[w].pc = "idle"
  BY DEF ClaimIdle, ReadNew
<1>3. wk \in [Workers -> Worker] /\ owner \in [Ids -> Workers \cup {None}]
      /\ entry \in [Ids -> Job \cup {None}]
  BY <1>0 DEF TypeOK
<1>4. /\ wk'[w].pc = "lease" /\ wk'[w].id = i /\ wk'[w].job = entry[i]
      /\ \A v \in Workers \ {w} : wk'[v] = wk[v]
  BY <1>1, <1>3 DEF Take, Rest
<1>5. \A k \in Ids : owner'[k] = IF k = i THEN w ELSE owner[k]
  BY <1>1, <1>3
<1>6. ASSUME NEW v \in Workers \ {w} PROVE Calm(v)
  <2>1. ASSUME wk[v].pc # "idle", Holds(v) PROVE wk[v].id # i
    BY <1>1, <2>1 DEF Leased, Holds, CanRenew
  <2> QED
    BY <1>0, <1>2, <1>4, <1>5, <2>1, Others
<1>7. Calm(w)
  BY <1>2, <1>4 DEF Calm, Loose, Risky, Answers
<1>8. \A s \in Stages : Accounted(s)
  BY <1>0, <1>2, <1>6, <1>7, Calmly, Counters
<1>9. \A s \in Stages : lease'[s] # w
  BY <1>2 DEF Leased
<1>10. \A v \in Workers : wk'[v].pc # "idle" => wk'[v].id \in Ids /\ wk'[v].job.step \in Stages
  <2>1. ASSUME NEW v \in Workers \ {w}, wk'[v].pc # "idle"
        PROVE  wk'[v].id \in Ids /\ wk'[v].job.step \in Stages
    BY <1>0, <1>4, <2>1, JobFacts DEF TypeOK
  <2> QED
    BY <1>1, <1>3, <1>4, <2>1, JobFacts
<1>11. Leased'
  BY <1>2, <1>4, <1>5, <1>9, <1>10, LeasedStays
<1> QED
  BY <1>2, <1>8, <1>11 DEF Booked, Begun

\* The entry of a consumer that holds it counts until its acceptance is answered.
LEMMA HolderToken ==
  ASSUME CInv, NEW v \in Workers, wk[v].pc # "idle", Holds(v), ~Answers(v)
  PROVE  /\ <<"entry", wk[v].id>> \in Tokens(wk[v].job.step)
         /\ entry[wk[v].id] = wk[v].job
         /\ \A u \in Workers : wk[u].id = wk[v].id /\ Holds(u) => u = v
<1>1. wk[v].id \in Ids /\ wk[v].job.step \in Stages
  BY JobFacts DEF CInv, IInv, TypeOK
<1>2. entry[wk[v].id] # None /\ owner[wk[v].id] = v
  BY DEF Holds, CanRenew
<1>3. entry[wk[v].id] = wk[v].job
  BY <1>2 DEF CInv, Lossless, Dropped
<1>4. \A u \in Workers : wk[u].id = wk[v].id /\ Holds(u) => u = v
  BY <1>2 DEF Holds, CanRenew
<1>5. ~Answered(wk[v].id)
  BY <1>4 DEF Answered
<1> QED
  BY <1>1, <1>2, <1>3, <1>4, <1>5, TokenFacts

\* What no longer is a copy of stage s.
LEMMA Gone ==
  ASSUME NEW s \in Stages
  PROVE  /\ \A j : <<"delayed", j>> \in Tokens(s)' => j \in delayed'
         /\ \A i : <<"entry", i>> \in Tokens(s)' => entry'[i] # None /\ ~Answered(i)'
         /\ \A w : <<"worker", w>> \in Tokens(s)' => Loose(w)'
BY DEF Tokens

\* The consumer keeps its job and its lease.
LEMMA LeasedGoesOn ==
  ASSUME CInv, Leased, NEW w \in Workers, GoesOn(w), wk'[w].pc # "lease",
         UNCHANGED lease, idle' \subseteq idle,
         \A i \in Ids : owner'[i] \in {owner[i], None}
  PROVE  Leased'
<1>0. TypeOK
  BY DEF CInv, IInv
<1>1. \A v \in Workers \ {w} : wk'[v] = wk[v]
  BY DEF GoesOn
<1>2. wk[w].pc # "idle" /\ wk[w].id \in Ids /\ wk[w].job \in Job /\ wk[w].job.step \in Stages
  BY <1>0, JobFacts DEF GoesOn, TypeOK
<1>3. \A v \in Workers : wk[v].pc # "idle" => wk[v].id \in Ids /\ wk[v].job.step \in Stages
  BY <1>0, JobFacts DEF TypeOK
<1>4. None \notin Workers
  BY DeliveryAssumption
<1>5. \A v \in Workers : /\ wk'[v].pc # "idle" => wk[v].pc # "idle"
                         /\ wk'[v].id = wk[v].id /\ wk'[v].job = wk[v].job
                         /\ wk'[v].pc = "lease" => wk[v].pc = "lease"
                         /\ wk'[v].pc = "idle" => wk[v].pc = "idle"
  BY <1>1, <1>2 DEF GoesOn
<1>6. \A v \in Workers, i \in Ids : owner'[i] = v => owner[i] = v
  BY <1>4
<1> QED
  BY <1>3, <1>5, <1>6 DEF Leased

\* A message that is accepted is paid for by the entry of its consumer, by the
\* consumer that held it no longer, or by the answer that was lost.
LEMMA SendBooks == ASSUME CInv, Leased, Begun, NEW w \in Workers, Send(w) PROVE Booked
<1> DEFINE id == wk[w].id
           job == wk[w].job
<1>0. TypeOK /\ Offered
  BY DEF CInv, IInv, Lossless
<1>1. /\ wk[w].pc = "sending"
      /\ UNCHANGED <<entry, owner, idle, lease, delayed, enqueued, stalled, stalls>>
  BY DEF Send, At, redis
<1>2. id \in Ids /\ job \in Job /\ job.step \in Stages /\ job.step \in enqueued
  BY <1>0, <1>1, JobFacts DEF TypeOK, Offered
<1>3. PICK a \in {"sent", "retry", "blocked", "permanent"} :
        /\ Answer(w, a)
        /\ \/ /\ a = "sent" /\ faults' = faults
              /\ got' = [got EXCEPT ![job.step] = @ + 1]
           \/ /\ faults' = faults + 1
              /\ got' = [got EXCEPT ![job.step] = @ + 1]
           \/ got' = got /\ faults' = faults
  BY DEF Send
<1>4. GoesOn(w) /\ wk'[w].pc = "answer" /\ wk'[w].plan = a
  BY <1>0, <1>1, <1>3, PlanFacts DEF Answer, PCs, Working, Plans
<1>5. \A v \in Workers : Holds(v)' <=> Holds(v)
  BY <1>1, <1>4, HoldsSame DEF GoesOn
<1>6. \A v \in Workers : Calm(v)
  <2>1. \A v \in Workers \ {w} : Calm(v)
    BY <1>4, <1>5, Bystander DEF GoesOn
  <2>2. Calm(w)
    BY <1>1, <1>4 DEF Calm, Loose, Risky, Answers
  <2> QED
    BY <2>1, <2>2
<1>7. ASSUME NEW s \in Stages PROVE Accounted(s)
  <2>1. Tokens(s)' \subseteq Tokens(s) \cup {}
    BY <1>1, <1>6, Flow
  <2>2. got[s] \in Nat /\ faults \in Nat /\ stalls \in Nat /\ got \in [Stages -> Nat]
    BY <1>0, Counters DEF TypeOK
  <2>3. CASE s # job.step \/ got' = got \/ faults' = faults + 1
    <3>1. got'[s] + faults + stalls <= got[s] + faults' + stalls'
      BY <1>1, <1>2, <1>3, <2>2, <2>3
    <3> QED
      BY <2>1, <3>1 DEF Accounted
  <2>4. CASE /\ s = job.step /\ a = "sent" /\ faults' = faults
             /\ got' = [got EXCEPT ![job.step] = @ + 1]
    <3>1. got'[s] = got[s] + 1 /\ faults + stalls <= faults' + stalls'
      BY <1>1, <1>2, <2>2, <2>4
    <3>2. \E y \in Tokens(s) : y \notin Tokens(s)'
      <4>1. CASE Holds(w)
        <5>1. PICK i \in Ids : i = id
          BY <1>2
        <5>2. <<"entry", i>> \in Tokens(s)
          BY <1>1, <2>4, <4>1, <5>1, HolderToken DEF Answers
        <5>3. Answered(i)'
          BY <1>4, <1>5, <2>4, <4>1, <5>1 DEF Answered, Answers, GoesOn
        <5> QED
          BY <5>2, <5>3, Gone
      <4>2. CASE ~Holds(w)
        <5>1. <<"worker", w>> \in Tokens(s)
          BY <1>1, <2>4, <4>2, TokenFacts DEF Loose, Risky
        <5>2. ~Loose(w)'
          BY <1>4 DEF Loose, Risky
        <5> QED
          BY <5>1, <5>2, Gone
      <4> QED
        BY <4>1, <4>2
    <3>3. \E y \in Tokens(s) : Tokens(s)' \subseteq Tokens(s) \ {y}
      BY <2>1, <3>2
    <3> QED
      BY <3>1, <3>3 DEF Accounted
  <2> QED
    BY <1>3, <2>3, <2>4
<1>8. Begun'
  BY <1>0, <1>1, <1>2, <1>3 DEF Begun, TypeOK
<1>9. Leased'
  BY <1>1, <1>4, LeasedGoesOn
<1> QED
  BY <1>7, <1>8, <1>9 DEF Booked

\* An acknowledgement gives up one copy, the entry, for each it makes: that of the
\* consumer whose entry it was, and, when the stage is put back, the delayed job.
LEMMA CommitBooks ==
  ASSUME CInv, Leased, Begun, NEW w \in Workers,
         \/ RecordSent(w) \/ CommitAck(w) \/ CommitSkip(w) \/ CommitRequeue(w)
         \/ CommitFail(w)
  PROVE  Booked
<1>0. TypeOK /\ Dropped
  BY DEF CInv, IInv, Lossless
<1>1. /\ wk[w].pc \in {"answer", "commit"} /\ XAck(wk[w].id) /\ Goto(w, Leaving(w))
      /\ UNCHANGED <<enqueued, lease, stalled, got, faults, stalls>>
      /\ \/ delayed' = delayed
         \/ Risky(w) /\ delayed' = delayed \cup {wk[w].job}
  BY DEF RecordSent, CommitAck, CommitSkip, CommitRequeue, CommitFail, At, Risky, RequeuedStage
<1>2. GoesOn(w) /\ wk'[w].pc \in {"end", "release"}
  <2>1. PICK pc \in {"end", "release"} : Goto(w, pc)
    BY <1>1, LeavingFacts
  <2> QED
    BY <1>0, <1>1, <2>1, GotoFacts DEF PCs, Working
<1>3. PICK id \in Ids, job \in Job : id = wk[w].id /\ job = wk[w].job
  BY <1>0, <1>1 DEF TypeOK
<1>4. /\ \A i \in Ids : entry'[i] = IF i = id THEN None ELSE entry[i]
      /\ \A i \in Ids : owner'[i] = IF i = id THEN None ELSE owner[i]
      /\ idle' \subseteq idle
      /\ job.step \in Stages
  BY <1>0, <1>1, <1>3, JobFacts DEF XAck, TypeOK
<1>5. \A v \in Workers \ {w} : wk'[v] = wk[v]
  BY <1>2 DEF GoesOn
<1> DEFINE Ousted(v) == wk[v].pc # "idle" /\ Risky(v) /\ Holds(v) /\ wk[v].id = id
<1>6. Calm(w) /\ ~Loose(w)'
  BY <1>2, <1>3, <1>4 DEF Calm, Loose, Risky
<1>7. ASSUME NEW v \in Workers \ {w} PROVE Calm(v) \/ Ousted(v)
  <2>1. CASE wk[v].pc # "idle" /\ Holds(v) /\ wk[v].id = id
    BY <1>4, <1>5, <2>1 DEF Calm, Loose, Risky
  <2>2. CASE ~(wk[v].pc # "idle" /\ Holds(v) /\ wk[v].id = id)
    <3>1. \A i \in Ids : owner[i] = v /\ wk[v].pc # "idle" /\ wk[v].id = i /\ Holds(v)
                           => owner'[i] = v /\ entry'[i] = entry[i]
      BY <1>4, <2>2
    <3> QED
      BY <1>0, <1>1, <1>5, <3>1, Others
  <2> QED
    BY <2>1, <2>2
<1>8. \A v \in Workers : Ousted(v) =>
        /\ ~Answers(v)
        /\ wk[v].job = job
        /\ <<"entry", id>> \in Tokens(job.step)
        /\ \A u \in Workers : Holds(u) /\ wk[u].id = id => u = v
  <2> SUFFICES ASSUME NEW v \in Workers, Ousted(v)
               PROVE  /\ ~Answers(v) /\ wk[v].job = job
                      /\ <<"entry", id>> \in Tokens(job.step)
                      /\ \A u \in Workers : Holds(u) /\ wk[u].id = id => u = v
    OBVIOUS
  <2>1. ~Answers(v)
    BY DEF Answers, Risky
  <2>2. /\ <<"entry", id>> \in Tokens(wk[v].job.step)
        /\ entry[id] = wk[v].job
        /\ \A u \in Workers : wk[u].id = id /\ Holds(u) => u = v
    BY <2>1, HolderToken
  <2>3. entry[id] # None
    BY DEF Holds, CanRenew
  <2>4. entry[id] = job
    BY <1>0, <1>1, <1>3, <2>3 DEF Dropped
  <2> QED
    BY <2>1, <2>2, <2>4
<1>9. \A i \in Ids : entry'[i] \in {entry[i], None}
  BY <1>4
<1>10. \A s \in Stages : /\ got'[s] = got[s] /\ faults + stalls <= faults' + stalls'
                         /\ got'[s] + faults + stalls <= got[s] + faults' + stalls'
  BY <1>0, <1>1, Counters
<1>11. \A s \in Stages : <<"entry", id>> \notin Tokens(s)' /\ <<"worker", w>> \notin Tokens(s)'
  BY <1>4, <1>6, Gone
<1>12. ASSUME NEW s \in Stages, s # job.step PROVE Accounted(s)
  <2>1. \A j \in delayed' : j \in delayed \/ j.step # s
    BY <1>1, <1>3, <1>12
  <2>2. \A v \in Workers :
          Calm(v) \/ (Ousted(v) /\ ~(Loose(v)' /\ wk'[v].job.step = s) /\ ~Answers(v))
    BY <1>5, <1>6, <1>7, <1>8, <1>12
  <2>3. Tokens(s)' \subseteq Tokens(s) \cup {}
    BY <1>9, <2>1, <2>2, Flow
  <2> QED
    BY <1>10, <2>3 DEF Accounted
<1>13. Accounted(job.step)
  <2> DEFINE s == job.step
             A == Tokens(s)
             B == Tokens(s)'
  <2> HIDE DEF Ousted
  <2>1. CASE \E v \in Workers \ {w} : Ousted(v)
    <3>1. PICK v \in Workers \ {w} : Ousted(v)
      BY <2>1
    <3>2. /\ <<"entry", id>> \in A
          /\ \A u \in Workers \ {w} : u = v \/ Calm(u)
          /\ ~Answers(v) /\ ~Holds(w)
      BY <1>3, <1>7, <1>8, <3>1 DEF Ousted
    <3>3. CASE delayed' = delayed
      <4> DEFINE X == {<<"worker", v>>}
      <4>0. \A u \in Workers : Calm(u) \/ (<<"worker", u>> \in X /\ ~Answers(u))
        BY <1>6, <3>2
      <4> HIDE DEF X
      <4>1. B \subseteq A \cup X
        BY <1>4, <1>9, <3>3, <4>0, Flow
      <4>2. B \subseteq (A \ {<<"entry", id>>}) \cup {<<"worker", v>>}
        BY <1>4, <1>11, <4>1 DEF X
      <4> QED
        BY <1>4, <1>10, <3>2, <4>2 DEF Accounted
    <3>4. CASE Risky(w) /\ delayed' = delayed \cup {wk[w].job}
      <4>1. <<"worker", w>> \in A /\ <<"worker", w>> # <<"entry", id>>
        BY <1>3, <1>4, <3>2, <3>4, TokenFacts DEF Loose
      <4> DEFINE X == {<<"worker", v>>, <<"delayed", job>>}
      <4>0. /\ \A u \in Workers : Calm(u) \/ (<<"worker", u>> \in X /\ ~Answers(u))
            /\ \A j \in delayed' : j \in delayed \/ <<"delayed", j>> \in X
        BY <1>3, <1>6, <3>2, <3>4
      <4> HIDE DEF X
      <4>2. B \subseteq A \cup X
        BY <1>4, <1>9, <4>0, Flow
      <4>3. B \subseteq (A \ {<<"entry", id>>, <<"worker", w>>})
                          \cup {<<"worker", v>>, <<"delayed", job>>}
        BY <1>4, <1>11, <4>2 DEF X
      <4> QED
        BY <1>4, <1>10, <3>2, <4>1, <4>3 DEF Accounted
    <3> QED
      BY <1>1, <3>3, <3>4
  <2>2. CASE \A v \in Workers \ {w} : ~Ousted(v)
    <3>1. \A v \in Workers : Calm(v)
      BY <1>6, <1>7, <2>2
    <3>2. CASE delayed' = delayed
      <4>1. B \subseteq A \cup {}
        BY <1>4, <1>9, <3>1, <3>2, Flow
      <4> QED
        BY <1>4, <1>10, <4>1 DEF Accounted
    <3>3. CASE Risky(w) /\ delayed' = delayed \cup {wk[w].job}
      <4>1. B \subseteq A \cup {<<"delayed", job>>}
        BY <1>3, <1>4, <1>9, <3>1, <3>3, Flow
      <4>2. \E y \in A : y \notin B
        <5>1. CASE Holds(w)
          <6>1. ~Answers(w) /\ wk[w].pc # "idle"
            BY <1>1, <3>3 DEF Answers, Risky
          <6>2. <<"entry", id>> \in A
            BY <1>3, <5>1, <6>1, HolderToken
          <6> QED
            BY <1>4, <1>11, <6>2
        <5>2. CASE ~Holds(w)
          <6>1. <<"worker", w>> \in A
            BY <1>3, <1>4, <3>3, <5>2, TokenFacts DEF Loose
          <6> QED
            BY <1>4, <1>11, <6>1
        <5> QED
          BY <5>1, <5>2
      <4>3. \E y \in A : B \subseteq (A \ {y}) \cup {<<"delayed", job>>}
        BY <4>1, <4>2
      <4> QED
        BY <1>4, <1>10, <4>3 DEF Accounted
    <3> QED
      BY <1>1, <3>2, <3>3
  <2> QED
    BY <2>1, <2>2
<1>14. Leased'
  <2>1. \A i \in Ids : owner'[i] \in {owner[i], None}
    BY <1>4
  <2> QED
    BY <1>1, <1>2, <1>4, <2>1, LeasedGoesOn
<1> QED
  BY <1>1, <1>12, <1>13, <1>14 DEF Booked, Begun

\* A job enters the stream, under an identifier nobody uses.
LEMMA AddBooks ==
  ASSUME TypeOK, Leased, NEW j \in Job, NEW i \in Ids,
         entry[i] = None, \A w \in Workers : wk[w].id # i,
         entry' = [entry EXCEPT ![i] = j], owner' = [owner EXCEPT ![i] = None],
         idle' = idle \ {i}, UNCHANGED <<wk, lease, stalled>>
  PROVE  /\ \A v \in Workers : Calm(v)
         /\ \A k \in Ids : entry'[k] = IF k = i THEN j ELSE entry[k]
         /\ Leased'
<1>1. /\ \A k \in Ids : entry'[k] = IF k = i THEN j ELSE entry[k]
      /\ \A k \in Ids : owner'[k] = IF k = i THEN None ELSE owner[k]
  BY DEF TypeOK
<1>2. None \notin Workers
  BY DeliveryAssumption
<1>3. \A v \in Workers : Calm(v)
  BY <1>1, <1>2, Others
<1>4. Leased'
  <2>1. \A v \in Workers : wk[v].pc # "idle" => wk[v].id \in Ids
    BY DEF TypeOK
  <2> QED
    BY <1>1, <1>2, <2>1 DEF Leased
<1> QED
  BY <1>1, <1>3, <1>4

\* A due member moves to the stream: one copy for another.
LEMMA PopBooks == ASSUME CInv, Leased, Begun, NEW j \in delayed, PopMature(j) PROVE Booked
<1>0. TypeOK /\ Addressed
  BY DEF CInv, IInv, Lossless
<1>1. /\ delayed' = delayed \ {j}
      /\ UNCHANGED <<lease, enqueued, wk, stalled, got, faults, stalls>>
  BY DEF PopMature
<1>2. j \in Job /\ j.step \in Stages
  BY <1>0, JobFacts DEF TypeOK
<1>3. XAdd(j)
  BY <1>0 DEF PopMature, Current, Addressed
<1>4. PICK i \in Ids : /\ entry[i] = None /\ \A w \in Workers : wk[w].id # i
                       /\ entry' = [entry EXCEPT ![i] = j]
                       /\ owner' = [owner EXCEPT ![i] = None]
                       /\ idle' = idle \ {i}
  BY <1>3 DEF XAdd, Free
<1>5. /\ \A v \in Workers : Calm(v)
      /\ \A k \in Ids : entry'[k] = IF k = i THEN j ELSE entry[k]
      /\ Leased'
  BY <1>0, <1>1, <1>2, <1>4, AddBooks
<1>6. \A s \in Stages : /\ got'[s] = got[s] /\ faults + stalls <= faults' + stalls'
                        /\ got'[s] + faults + stalls <= got[s] + faults' + stalls'
  BY <1>0, <1>1, Counters
<1>7. ASSUME NEW s \in Stages PROVE Accounted(s)
  <2>1. CASE s # j.step
    <3>1. Tokens(s)' \subseteq Tokens(s) \cup {}
      BY <1>1, <1>5, <2>1, Flow
    <3> QED
      BY <1>6, <3>1 DEF Accounted
  <2>2. CASE s = j.step
    <3> DEFINE X == {<<"entry", i>>}
    <3>1. \A k \in Ids : entry'[k] = entry[k] \/ <<"entry", k>> \in X
      BY <1>5
    <3> HIDE DEF X
    <3>2. Tokens(s)' \subseteq Tokens(s) \cup X
      BY <1>1, <1>5, <3>1, Flow
    <3>3. <<"delayed", j>> \in Tokens(s) /\ <<"delayed", j>> \notin Tokens(s)'
      BY <1>1, <2>2, TokenFacts, Gone
    <3>4. Tokens(s)' \subseteq (Tokens(s) \ {<<"delayed", j>>}) \cup {<<"entry", i>>}
      BY <3>2, <3>3 DEF X
    <3> QED
      BY <1>6, <3>3, <3>4 DEF Accounted
  <2> QED
    BY <2>1, <2>2
<1> QED
  BY <1>1, <1>5, <1>7 DEF Booked, Begun

\* The first call of enqueue_alert makes one copy of each stage.
LEMMA EnqueueBooks == ASSUME CInv, Leased, Begun, Paid, Enqueue PROVE Leased' /\ Begun' /\ Paid'
<1>0. TypeOK /\ Offered /\ Addressed
  BY DEF CInv, IInv, Lossless
<1>1. UNCHANGED <<lease, wk, stalled, got, faults, stalls>> /\ src.pc = "read"
  BY DEF Enqueue
<1>2. TypeOK'
  BY StepIInv DEF CInv, IInv, Next
<1>3. CASE UNCHANGED <<queue, entry, owner, idle, retry, delayed, enqueued>>
  <2>1. \A v \in Workers : Calm(v)
    BY <1>1, <1>3, HoldsSame, Bystander
  <2>2. \A s \in Stages : Accounted(s)
    BY <1>0, <1>1, <1>3, <2>1, Calmly, Counters
  <2>3. Paid'
    BY <1>0, <1>2, <2>2, Books
  <2> QED
    BY <1>1, <1>3, <2>3 DEF Leased, Begun
<1>4. ASSUME enqueued = {}, NEW later \in {{}, Stages \ {1}},
             XAdd([step |-> 1, gen |-> src.gen]),
             delayed' = delayed \cup {[step |-> s, gen |-> src.gen] : s \in later}
      PROVE  Leased' /\ Begun' /\ Paid'
  <2> DEFINE first == [step |-> 1, gen |-> gen]
  <2>1. src.gen = gen /\ gen \in Nat /\ 1 \in Stages /\ first \in Job
    <3>1. src.gen = gen /\ gen \in Nat /\ 1 \in Stages
      BY <1>0, <1>1, DeliveryAssumption DEF Addressed, TypeOK, Stages
    <3> QED
      BY <3>1 DEF Job
  <2>2. /\ \A k \in Ids : entry[k] = None
        /\ delayed = {}
        /\ \A w \in Workers : wk[w].pc = "idle"
    BY <1>0, <1>4 DEF Offered
  <2>3. PICK i \in Ids : /\ entry[i] = None /\ \A w \in Workers : wk[w].id # i
                         /\ entry' = [entry EXCEPT ![i] = first]
                         /\ owner' = [owner EXCEPT ![i] = None]
                         /\ idle' = idle \ {i}
    BY <1>4, <2>1 DEF XAdd, Free
  <2>4. Leased' /\ \A k \in Ids : entry'[k] = IF k = i THEN first ELSE entry[k]
    BY <1>0, <1>1, <2>1, <2>3, AddBooks
  <2>5. \A s \in Stages : got[s] = 0
    BY <1>0, <1>4, Counters DEF Begun
  <2>6. ASSUME NEW s \in Stages
        PROVE  \E x : Tokens(s)' \subseteq {} \cup {x}
    <3> DEFINE x == IF s = 1 THEN <<"entry", i>> ELSE <<"delayed", [step |-> s, gen |-> gen]>>
    <3>1. ASSUME NEW j \in delayed', j.step = s PROVE <<"delayed", j>> = x
      <4>1. PICK t \in later : j = [step |-> t, gen |-> gen]
        BY <1>4, <2>1, <2>2, <3>1
      <4>2. t # 1 /\ t = s
        BY <1>4, <3>1, <4>1
      <4> QED
        BY <4>1, <4>2
    <3>2. ASSUME NEW k \in Ids, entry'[k] # None, entry'[k].step = s PROVE <<"entry", k>> = x
      BY <2>2, <2>4, <3>2
    <3>3. \A w \in Workers : ~Loose(w)'
      BY <1>1, <2>2 DEF Loose, Risky
    <3> HIDE DEF x
    <3>4. Tokens(s)' \subseteq {} \cup {x}
      BY <3>1, <3>2, <3>3 DEF Tokens
    <3> QED
      BY <3>4
  <2>7. ASSUME NEW s \in Stages
        PROVE  /\ IsFiniteSet(Tokens(s)')
               /\ got'[s] + Cardinality(Tokens(s)') <= 1 + faults' + stalls'
    <3>1. IsFiniteSet({}) /\ Cardinality({}) = 0
      BY FS_EmptySet
    <3>2. IsFiniteSet(Tokens(s)') /\ Cardinality(Tokens(s)') \in Nat
          /\ Cardinality(Tokens(s)') <= Cardinality({}) + 1
      BY <2>6, <3>1, Grow
    <3>3. Cardinality(Tokens(s)') <= 1
      BY <3>1, <3>2
    <3>4. got'[s] = 0 /\ faults' \in Nat /\ stalls' \in Nat
      BY <1>0, <1>1, <2>5, Counters
    <3> QED
      BY <3>2, <3>3, <3>4
  <2>8. Begun'
    BY <1>1, <2>5 DEF Begun
  <2> QED
    BY <2>4, <2>7, <2>8 DEF Paid
<1>5. \/ UNCHANGED <<queue, entry, owner, idle, retry, delayed, enqueued>>
      \/ /\ enqueued = {}
         /\ \E later \in {{}, Stages \ {1}} :
              /\ XAdd([step |-> 1, gen |-> src.gen])
              /\ delayed' = delayed \cup {[step |-> s, gen |-> src.gen] : s \in later}
  BY DEF Enqueue
<1> QED
  BY <1>3, <1>4, <1>5

-----------------------------------------------------------------------------

LEMMA InitDInv == Init => DInv
<1> SUFFICES ASSUME Init PROVE DInv
  OBVIOUS
<1>1. CInv
  BY InitCInv
<1>2. /\ \A w \in Workers : wk[w].pc = "idle"
      /\ \A s \in Stages : lease[s] = None /\ got[s] = 0
      /\ delayed = {} /\ \A i \in Ids : entry[i] = None
      /\ faults = 0 /\ stalls = 0
  BY DEF Init, Rest
<1>3. Leased /\ Begun
  BY <1>2, DeliveryAssumption DEF Leased, Begun
<1>4. ASSUME NEW s \in Stages PROVE Tokens(s) = {}
  BY <1>2 DEF Tokens, Loose, Risky
<1>5. Paid
  BY <1>2, <1>4, FS_EmptySet DEF Paid
<1> QED
  BY <1>1, <1>3, <1>5 DEF DInv

LEMMA StepDInv == DInv /\ [Next]_vars => DInv'
<1> SUFFICES ASSUME DInv, [Next]_vars PROVE DInv'
  OBVIOUS
<1>1. CInv /\ CInv' /\ TypeOK /\ TypeOK'
  BY StepCInv DEF DInv, CInv, IInv
<1>2. Booked => DInv'
  BY <1>1, Books DEF DInv, Booked
<1>3. Enqueue => DInv'
  BY <1>1, EnqueueBooks DEF DInv
<1> QED
  BY <1>2, <1>3, PopBooks, TakeBooks, LeaseBooks, PlainSteps, SendBooks, CommitBooks,
     FaultBooks, TimeBooks, IdleBooks
     DEF DInv, Next, Handle

THEOREM BooksKept == Spec => []DInv
BY InitDInv, StepDInv, PTL DEF Spec

\* However many consumers there are and wherever they crash, are cancelled, suspended
\* or lose an answer: Telegram accepts no more copies of a stage than one and one for
\* each of these faults.
THEOREM DuplicatesPaid == Spec => []DuplicatesNeedFaults
<1>1. DInv => DuplicatesNeedFaults
  <2> SUFFICES ASSUME DInv, NEW s \in Stages PROVE got[s] <= 1 + faults + stalls
    BY DEF DuplicatesNeedFaults
  <2>1. IsFiniteSet(Tokens(s)) /\ got[s] + Cardinality(Tokens(s)) <= 1 + faults + stalls
    BY DEF DInv, Paid
  <2>2. Cardinality(Tokens(s)) \in Nat
    BY <2>1, FS_CardinalityType
  <2>3. got[s] \in Nat /\ faults \in Nat /\ stalls \in Nat
    BY Counters DEF DInv, CInv, IInv
  <2> QED
    BY <2>1, <2>2, <2>3
<1> QED
  BY <1>1, BooksKept, PTL

-----------------------------------------------------------------------------
(***************************************************************************)
(* Privacy: deliveries together with deletions and registrations.          *)
(***************************************************************************)

(* The invariant.                                                          *)

\* Consumers that hold a slot of privacy:inflight.
Reserved == {w \in Workers : wk[w].reserved}

\* The jobs that exist: due later, in the stream, or in the hands of a consumer.
InPlay == delayed \cup {entry[i] : i \in {k \in Ids : entry[k] # None}}
                  \cup {wk[w].job : w \in {v \in Workers : wk[v].pc # "idle"}}

\* A job of the present generation exists.
Fresh == \E j \in InPlay : j.gen = gen

\* Consumer w sends, knows of Telegram's answer, or is about to give a slot back.
NeedsSlot(w) == \/ wk[w].pc \in {"sending", "end"}
                \/ wk[w].pc = "answer" /\ wk[w].plan \in {"sent", "blocked", "permanent"}

\* The steps of a deletion after its wait for the slots, and after each scrub.
AfterStream  == {"dlq"}
AfterStages  == {"delayed", "stream"} \cup AfterStream
AfterMarkers == {"stages"} \cup AfterStages
AfterKeys    == {"markers"} \cup AfterMarkers
AfterWait    == {"rows", "keys"} \cup AfterKeys

\* A deletion is at one of these steps, or was the last to succeed.
Reached(steps) == outcome = "erased" \/ \E p \in Ops : op[p] \in steps

\* A deletion at one of these steps has put up the fence.
Fenced == DeletePCs \ {"fence"}

Exclusive == \A p \in Ops : op[p] # "idle" => oplock = p

Reports ==
  /\ \A p \in Ops : op[p] \in Fenced => deleted /\ outcome = "none"
  /\ \A p \in Ops : op[p] = "unfence" => profile /\ outcome = "none"
  /\ OutcomeStands

\* The counter in Redis never falls short of the slots held.
Slots ==
  /\ IsFiniteSet(Reserved)
  /\ \A w \in Workers : NeedsSlot(w) => wk[w].reserved
  /\ stalls = 0 => stalled = {} /\ Cardinality(Reserved) <= inflight

\* What the deletion has waited for and emptied so far stays so.
Erased ==
  /\ Reached(AfterWait) => Reserved = {}
  /\ Reached(AfterKeys) => ~blocked
  /\ Reached(AfterMarkers) => enqueued = {}
  /\ Reached(AfterStages) => \A s \in Stages : stage[s] \in {"none", "skipped"}
  /\ Reached(AfterStream) => \A i \in Ids : entry[i] = None
  /\ outcome = "erased" => dlq = {}
  /\ \A w \in Workers : wk[w].pc = "sending" => wk[w].job.gen >= drainedTo

Dated == src.gen <= gen /\ \A j \in InPlay : j.gen <= gen

Before(j) == [j EXCEPT !.step = j.step - 1]

\* While a job of the present generation exists, every "sent" is of that generation;
\* it came to be after the stages of the one before were erased.
Lineage ==
  /\ \A p \in Ops : op[p] \in Fenced => ~Fresh
  /\ enqueued = {} => /\ Reserved = {} /\ ~Fresh
                      /\ \/ \A s \in Stages : stage[s] # "sent"
                         \/ \E p \in Ops : op[p] = "stages"
  /\ Fresh => /\ \A s \in Stages : stage[s] = "sent" => [step |-> s, gen |-> gen] \in accepted
              /\ \A w \in Reserved : wk[w].job.gen = gen
  /\ \A w \in Workers : wk[w].pc = "answer" /\ wk[w].plan = "sent" => wk[w].job \in accepted
  /\ \A w \in Workers :
       wk[w].pc \in Past /\ wk[w].job.step > 1 /\ (wk[w].pc = "sending" \/ wk[w].job.gen = gen)
         => Before(wk[w].job) \in accepted

PInv ==
  /\ PrivacyTypeOK /\ IInv
  /\ Exclusive /\ Reports /\ Slots /\ Dated
  /\ stalls = 0 => Erased
  /\ stalls = 0 /\ opfaults = 0 => Lineage
  /\ GenerationsInOrder

LEMMA Afters ==
  /\ AfterStream \subseteq AfterStages /\ AfterStages \subseteq AfterMarkers
  /\ AfterMarkers \subseteq AfterKeys /\ AfterKeys \subseteq AfterWait
  /\ AfterWait \subseteq Fenced /\ "idle" \notin Fenced
BY DEF AfterStream, AfterStages, AfterMarkers, AfterKeys, AfterWait, Fenced, DeletePCs

-----------------------------------------------------------------------------
(* The initial state.                                                      *)

LEMMA InitPInv == PrivacyInit => PInv
<1> SUFFICES ASSUME PrivacyInit PROVE PInv
  OBVIOUS
<1>1. IInv
  BY InitIInv DEF PrivacyInit
<1>2. /\ wk = [w \in Workers |-> Rest] /\ \A w \in Workers : wk[w] = Rest
      /\ delayed = {} /\ \A i \in Ids : entry[i] = None
      /\ gen = 0 /\ inflight = 0 /\ src.gen = 0
      /\ stage = [s \in Stages |-> "none"] /\ ~deleted /\ stalled = {}
  BY DEF PrivacyInit, Init, NoCall
<1>3. Reserved = {} /\ InPlay = {}
  BY <1>2 DEF Reserved, InPlay, Rest
<1>4. \A w \in Workers : wk[w].pc = "idle"
  BY <1>2 DEF Rest
<1>5. PrivacyTypeOK
  BY <1>1, <1>2, PrivacyAssumption DEF PrivacyInit, PrivacyTypeOK, IInv, OpPCs
<1>6. Slots
  BY <1>2, <1>3, <1>4, FS_EmptySet DEF Slots, NeedsSlot
<1>7. Exclusive /\ Reports /\ Dated
  BY <1>2, <1>3
     DEF PrivacyInit, Exclusive, Reports, OutcomeStands, Fenced, DeletePCs, Dated
<1>8. \A p \in Ops : op[p] = "idle"
  BY DEF PrivacyInit
<1>9. \A steps : "idle" \notin steps => ~Reached(steps)
  BY <1>8 DEF PrivacyInit, Reached
<1>10. Erased
  BY <1>4, <1>9, Afters DEF PrivacyInit, Erased
<1>11. Lineage
  <2>1. ~Fresh /\ \A s \in Stages : stage[s] # "sent"
    BY <1>2, <1>3 DEF Fresh
  <2>2. \A w \in Workers : wk[w].pc \notin Past /\ wk[w].pc # "answer"
    BY <1>4 DEF Past
  <2> QED
    BY <1>3, <1>8, <2>1, <2>2 DEF Lineage, Fenced, DeletePCs
<1>12. GenerationsInOrder
  BY DEF PrivacyInit, GenerationsInOrder
<1> QED
  BY <1>1, <1>5, <1>6, <1>7, <1>10, <1>11, <1>12 DEF PInv

-----------------------------------------------------------------------------
(* What a step of the worker service means to the recipient's data.        *)

\* A slot is taken, and a job made, for a recipient that is not fenced off; what a
\* consumer records or stores beyond that needs the slot it holds.
Effect ==
  /\ UNCHANGED <<deleted, gen>>
  /\ stalls' = 0 => stalls = 0
  /\ Slots'
  /\ src'.gen \in {src.gen, gen, 0}
  /\ \/ InPlay' \subseteq InPlay /\ UNCHANGED enqueued
     \/ /\ ~deleted /\ enqueued = {} /\ enqueued' # {}
        /\ \A j \in InPlay' \ InPlay : j.gen = gen
  /\ \A w \in Workers : wk'[w].reserved =>
       /\ wk'[w].job = wk[w].job
       /\ wk[w].reserved \/ (wk[w].pc # "idle" /\ Current(wk[w].job))
  /\ \A w \in Workers : wk'[w].pc = "sending" =>
       /\ wk'[w].job = wk[w].job
       /\ wk[w].pc = "sending" \/ (wk[w].pc = "begin" /\ Current(wk[w].job))
  /\ \A w \in Workers : wk'[w].pc = "answer" /\ wk'[w].plan = "sent" =>
       /\ wk'[w].job = wk[w].job
       /\ (wk[w].pc = "answer" /\ wk[w].plan = "sent") \/ wk[w].job \in accepted'
  /\ \A w \in Workers : wk'[w].pc \in Past =>
       /\ wk'[w].job = wk[w].job /\ wk[w].pc # "idle"
       /\ \/ wk[w].pc \in Past
          \/ wk[w].job.step <= 1
          \/ wk'[w].pc # "sending" /\ stage[wk[w].job.step - 1] = "sent"
  /\ blocked' = blocked \/ Reserved # {}
  /\ \A s \in Stages :
       \/ stage'[s] \in {stage[s], "skipped"}
       \/ stage'[s] = "failed" /\ ~deleted
       \/ stage'[s] = "sent" /\ \E w \in Reserved :
            wk[w].pc = "answer" /\ wk[w].plan = "sent" /\ wk[w].job.step = s
  /\ deleted => dlq' = dlq /\ \A i \in Ids : entry[i] = None => entry'[i] = None
  /\ accepted \subseteq accepted'
  /\ \A j \in accepted' \ accepted : \E w \in Workers : wk[w].pc = "sending" /\ wk[w].job = j

Operating == <<profile, oplock, op, opfaults, outcome, drainedTo>>

LEMMA CurrentInPlay ==
  ASSUME NEW w \in Workers, wk[w].pc # "idle" PROVE wk[w].job \in InPlay
BY DEF InPlay

LEMMA EffectErased ==
  ASSUME PInv, Effect, UNCHANGED Operating, stalls = 0, Erased
  PROVE  Erased'
<1>1. /\ \A p \in Ops : op[p] \in Fenced => deleted
      /\ outcome = "erased" => deleted
      /\ \A w \in Workers : NeedsSlot(w) => wk[w].reserved
      /\ drainedTo \in 0..gen /\ gen \in Nat
  BY DEF PInv, Reports, OutcomeStands, Slots, PrivacyTypeOK, TypeOK
<1>2. \A steps : Reached(steps)' <=> Reached(steps)
  BY DEF Reached, Operating
<1>3. \A steps : Reached(steps) /\ steps \subseteq Fenced => deleted
  BY <1>1 DEF Reached
<1>4. ASSUME Reached(AfterWait)
      PROVE  Reserved' = {} /\ Reserved = {} /\ deleted
  <2>1. Reserved = {} /\ deleted
    BY <1>3, <1>4, Afters DEF Erased
  <2> QED
    BY <2>1 DEF Effect, Reserved, Current
<1>5. Reached(AfterKeys) => ~blocked'
  BY <1>4, Afters DEF Reached, Erased, Effect
<1>6. Reached(AfterMarkers) => enqueued' = {}
  BY <1>4, Afters DEF Reached, Erased, Effect
<1>7. Reached(AfterStages) => \A s \in Stages : stage'[s] \in {"none", "skipped"}
  BY <1>4, Afters DEF Reached, Erased, Effect
<1>8. Reached(AfterStream) => \A i \in Ids : entry'[i] = None
  BY <1>4, Afters DEF Reached, Erased, Effect
<1>9. outcome = "erased" => dlq' = {}
  BY <1>1 DEF Erased, Effect
<1>10. \A w \in Workers : wk'[w].pc = "sending" => wk'[w].job.gen >= drainedTo
  BY <1>1 DEF Erased, Effect, Current
<1> QED
  BY <1>2, <1>4, <1>5, <1>6, <1>7, <1>8, <1>9, <1>10 DEF Erased, Operating

LEMMA EffectLineage ==
  ASSUME PInv, Effect, UNCHANGED Operating, stalls = 0, opfaults = 0
  PROVE  Lineage' /\ GenerationsInOrder'
<1>1. /\ \A p \in Ops : op[p] \in Fenced => deleted
      /\ \A w \in Workers : NeedsSlot(w) => wk[w].reserved
      /\ Lineage /\ GenerationsInOrder /\ UNCHANGED op
      /\ TypeOK
  BY DEF PInv, Reports, Slots, Operating, PrivacyTypeOK
<1>2. \A w \in Workers : wk[w].pc # "idle" => wk[w].job \in Job /\ wk[w].job \in InPlay
  BY <1>1 DEF TypeOK, InPlay
<1>3. \A p \in Ops : op'[p] \in Fenced => ~Fresh'
  BY <1>1 DEF Lineage, Effect, Fresh
<1>4. ASSUME enqueued' = {}
      PROVE  /\ Reserved' = {} /\ ~Fresh'
             /\ (\A s \in Stages : stage'[s] # "sent") \/ \E p \in Ops : op'[p] = "stages"
  <2>1. enqueued = {} /\ InPlay' \subseteq InPlay
    BY <1>4 DEF Effect
  <2>2. Reserved = {} /\ ~Fresh /\ ~Fresh'
    BY <1>1, <2>1 DEF Lineage, Effect, Fresh
  <2>3. Reserved' = {}
    BY <1>2, <2>2 DEF Effect, Reserved, Current, Fresh
  <2>4. \A s \in Stages : stage'[s] = "sent" => stage[s] = "sent"
    BY <2>2 DEF Effect
  <2> QED
    BY <1>1, <2>1, <2>2, <2>3, <2>4 DEF Lineage
<1>5. ASSUME Fresh'
      PROVE  /\ \A s \in Stages : stage'[s] = "sent" => [step |-> s, gen |-> gen] \in accepted
             /\ \A w \in Reserved' : wk'[w].job.gen = gen
  <2>1. CASE Fresh
    <3>1. ASSUME NEW w \in Reserved, wk[w].pc = "answer", wk[w].plan = "sent"
          PROVE  [step |-> wk[w].job.step, gen |-> gen] \in accepted
      <4>1. wk[w].job \in accepted /\ wk[w].job.gen = gen /\ wk[w].job \in Job
        BY <1>1, <1>2, <2>1, <3>1 DEF Lineage, Reserved
      <4> QED
        BY <4>1 DEF Job
    <3> QED
      BY <1>1, <2>1, <3>1 DEF Lineage, Effect, Reserved, Current
  <2>2. CASE ~Fresh
    <3>1. enqueued = {} /\ ~deleted
      BY <1>5, <2>2 DEF Effect, Fresh
    <3>2. Reserved = {} /\ \A s \in Stages : stage[s] # "sent"
      BY <1>1, <3>1 DEF Lineage, Fenced, DeletePCs
    <3> QED
      BY <1>2, <2>2, <3>2 DEF Effect, Reserved, Current, Fresh
  <2> QED
    BY <2>1, <2>2
<1>6. \A w \in Workers : wk'[w].pc = "answer" /\ wk'[w].plan = "sent"
                           => wk'[w].job \in accepted'
  BY <1>1 DEF Lineage, Effect
<1>7. ASSUME NEW w \in Workers, wk'[w].pc \in Past, wk'[w].job.step > 1,
             wk'[w].pc = "sending" \/ wk'[w].job.gen = gen
      PROVE  Before(wk'[w].job) \in accepted'
  <2>1. wk'[w].job = wk[w].job /\ wk[w].pc # "idle"
    BY <1>7 DEF Effect
  <2>2. wk[w].job \in Job /\ wk[w].job.step \in Nat /\ wk[w].job \in InPlay
    BY <1>2, <2>1, JobFacts DEF Stages
  <2>3. CASE wk[w].pc \in Past
    <3>1. wk[w].pc = "sending" \/ wk[w].job.gen = gen
      BY <1>7, <2>1 DEF Effect, Current
    <3> QED
      BY <1>1, <1>7, <2>1, <2>3, <3>1 DEF Lineage, Effect
  <2>4. CASE wk[w].pc \notin Past
    <3>1. stage[wk[w].job.step - 1] = "sent" /\ wk[w].job.gen = gen
      BY <1>7, <2>1, <2>2, <2>4 DEF Effect
    <3>2. wk[w].job.step - 1 \in Stages /\ Fresh
      BY <1>7, <2>1, <2>2, <3>1, JobFacts, DeliveryAssumption DEF Stages, Fresh
    <3>3. [step |-> wk[w].job.step - 1, gen |-> gen] \in accepted
      BY <1>1, <3>1, <3>2 DEF Lineage
    <3>4. Before(wk[w].job) = [step |-> wk[w].job.step - 1, gen |-> gen]
      BY <2>2, <3>1 DEF Before, Job
    <3> QED
      BY <2>1, <3>3, <3>4 DEF Effect
  <2> QED
    BY <2>3, <2>4
<1>8. Lineage'
  <2>1. Fresh' => /\ \A s \in Stages : stage'[s] = "sent" => [step |-> s, gen |-> gen'] \in accepted'
                  /\ \A w \in Reserved' : wk'[w].job.gen = gen'
    BY <1>5 DEF Effect
  <2>2. \A w \in Workers :
          /\ wk'[w].pc \in Past /\ wk'[w].job.step > 1
          /\ wk'[w].pc = "sending" \/ wk'[w].job.gen = gen'
          => Before(wk'[w].job) \in accepted'
    BY <1>7 DEF Effect
  <2> QED
    BY <1>3, <1>4, <1>6, <2>1, <2>2 DEF Lineage, Before
<1>9. GenerationsInOrder'
  <2>1. ASSUME NEW j \in accepted', j.step > 1
        PROVE  [j EXCEPT !.step = j.step - 1] \in accepted'
    <3>1. CASE j \in accepted
      BY <1>1, <2>1, <3>1 DEF GenerationsInOrder, Effect
    <3>2. CASE j \notin accepted
      <4>1. PICK w \in Workers : wk[w].pc = "sending" /\ wk[w].job = j
        BY <2>1, <3>2 DEF Effect
      <4>2. Before(j) \in accepted
        BY <1>1, <2>1, <4>1 DEF Lineage, Past
      <4> QED
        BY <4>2 DEF Before, Effect
    <3> QED
      BY <3>1, <3>2
  <2> QED
    BY <2>1 DEF GenerationsInOrder
<1> QED
  BY <1>8, <1>9

LEMMA EffectInv ==
  ASSUME PInv, Effect, UNCHANGED Operating, IInv'
  PROVE  PInv'
<1>1. PrivacyTypeOK /\ IInv /\ TypeOK /\ UNCHANGED <<deleted, gen>> /\ Slots'
  BY DEF PInv, PrivacyTypeOK, Effect
<1>2. PrivacyTypeOK'
  <2>1. \A w \in Workers : wk[w].pc = "sending" => wk[w].job \in Job
    BY <1>1 DEF TypeOK
  <2>2. accepted' \subseteq Job
    BY <1>1, <2>1 DEF PrivacyTypeOK, Effect
  <2> QED
    BY <1>1, <2>2 DEF PrivacyTypeOK, IInv, Operating
<1>3. Exclusive' /\ Reports'
  BY <1>1 DEF PInv, Exclusive, Reports, OutcomeStands, Operating
<1>4. Dated'
  <2>1. gen \in Nat /\ src'.gen \in {src.gen, gen, 0} /\ Dated
    BY <1>1 DEF PInv, TypeOK, Effect
  <2>2. src'.gen <= gen
    BY <2>1 DEF Dated
  <2>3. \A j \in InPlay' : j \in InPlay \/ j.gen = gen
    BY DEF Effect
  <2> QED
    BY <1>1, <2>1, <2>2, <2>3 DEF Dated
<1>5. stalls' = 0 => Erased'
  BY EffectErased DEF PInv, Effect
<1>6. stalls' = 0 /\ opfaults' = 0 => Lineage' /\ GenerationsInOrder'
  BY EffectLineage DEF Effect, Operating
<1>7. GenerationsInOrder'
  BY <1>6 DEF GenerationsInOrder
<1> QED
  BY <1>1, <1>2, <1>3, <1>4, <1>5, <1>6, <1>7 DEF PInv

-----------------------------------------------------------------------------
(* The steps of the worker service have this effect.                       *)

LEMMA NoNewJob ==
  ASSUME delayed' \subseteq InPlay,
         \A i \in Ids : entry'[i] \in InPlay \cup {None},
         \A w \in Workers : wk'[w].pc = "idle" \/ wk'[w].job \in InPlay
  PROVE  InPlay' \subseteq InPlay
BY DEF InPlay

\* Slots given back, left behind or expired.
LEMMA FewerSlots ==
  ASSUME TypeOK, Slots, Reserved' \subseteq Reserved,
         stalls' = 0 => stalls = 0 /\ stalled' \subseteq stalled,
         \/ inflight' = inflight
         \/ inflight' = SlotsLeft /\ \E w \in Reserved : w \notin Reserved'
         \/ Reserved \subseteq stalled /\ inflight' \in Nat
  PROVE  IsFiniteSet(Reserved') /\ (stalls' = 0 => stalled' = {}
                                                   /\ Cardinality(Reserved') <= inflight')
<1>1. IsFiniteSet(Reserved') /\ Cardinality(Reserved') <= Cardinality(Reserved)
      /\ Cardinality(Reserved') \in Nat /\ Cardinality(Reserved) \in Nat
  BY FS_Subset, FS_CardinalityType DEF Slots
<1>2. inflight \in Nat
  BY DEF TypeOK
<1>3. ASSUME stalls' = 0 PROVE stalled' = {} /\ Cardinality(Reserved') <= inflight'
  <2>1. stalled = {} /\ stalled' = {} /\ Cardinality(Reserved) <= inflight
    BY <1>3 DEF Slots
  <2>2. CASE inflight' = inflight
    BY <1>1, <1>2, <2>1, <2>2
  <2>3. CASE inflight' = SlotsLeft /\ \E w \in Reserved : w \notin Reserved'
    <3>1. PICK w \in Reserved : w \notin Reserved'
      BY <2>3
    <3>2. Reserved' \subseteq Reserved \ {w}
      BY <3>1
    <3>3. IsFiniteSet(Reserved \ {w}) /\ Cardinality(Reserved \ {w}) = Cardinality(Reserved) - 1
      BY <3>1, FS_RemoveElement DEF Slots
    <3>4. Cardinality(Reserved') <= Cardinality(Reserved) - 1
      BY <3>2, <3>3, FS_Subset
    <3> QED
      BY <1>1, <1>2, <2>1, <2>3, <3>4 DEF SlotsLeft
  <2>4. CASE Reserved \subseteq stalled /\ inflight' \in Nat
    <3>1. Reserved' = {}
      BY <2>1, <2>4
    <3> QED
      BY <2>1, <2>4, <3>1, FS_EmptySet
  <2> QED
    BY <2>2, <2>3, <2>4
<1> QED
  BY <1>1, <1>3

\* Consumer w goes on without a new slot; what it has written is listed.
Walks(w) ==
  /\ GoesOn(w) \/ Resets(w) \/ UNCHANGED wk
  /\ wk'[w].reserved => wk[w].reserved
  /\ UNCHANGED <<deleted, gen, enqueued>>
  /\ stalls' = 0 => stalls = 0 /\ stalled' \subseteq stalled
  /\ src'.gen \in {src.gen, gen}
  /\ \/ inflight' = inflight
     \/ inflight' = SlotsLeft /\ wk[w].reserved /\ ~wk'[w].reserved
  /\ delayed' = delayed \/ (wk[w].pc # "idle" /\ delayed' = delayed \cup {wk[w].job})
  /\ \A i \in Ids : entry'[i] \in {entry[i], None}
  /\ wk'[w] # wk[w] =>
       /\ wk'[w].pc # "sending"
       /\ wk'[w].pc = "end" \/ (wk'[w].pc = "answer" /\ wk'[w].plan # "retry") => wk'[w].reserved
       /\ wk'[w].pc = "answer" /\ wk'[w].plan = "sent" => wk[w].job \in accepted'
       /\ wk'[w].pc \in Past => \/ wk[w].pc \in Past
                                \/ wk[w].job.step <= 1
                                \/ stage[wk[w].job.step - 1] = "sent"
  /\ blocked' = blocked \/ wk[w].reserved
  /\ \A s \in Stages :
       \/ stage'[s] \in {stage[s], "skipped"}
       \/ stage'[s] = "failed" /\ ~deleted
       \/ /\ stage'[s] = "sent" /\ wk[w].reserved /\ wk[w].pc = "answer"
          /\ wk[w].plan = "sent" /\ wk[w].job.step = s
  /\ deleted => dlq' = dlq
  /\ accepted' \in {accepted, accepted \cup {wk[w].job}}
  /\ accepted' = accepted \/ wk[w].pc = "sending"

LEMMA WalksEffect ==
  ASSUME PInv, NEW w \in Workers, Walks(w)
  PROVE  Effect
<1>0. TypeOK /\ Slots
  BY DEF PInv, IInv
<1>1. ASSUME NEW v \in Workers
      PROVE  \/ wk'[v] = wk[v]
             \/ v = w /\ wk[v].pc # "idle" /\ wk'[v].pc # "idle" /\ wk'[v].job = wk[v].job
             \/ v = w /\ wk'[v].pc = "idle" /\ ~wk'[v].reserved
  BY DEF Walks, GoesOn, Resets, Rest
<1>2. UNCHANGED <<deleted, gen, enqueued>> /\ (stalls' = 0 => stalls = 0)
      /\ src'.gen \in {src.gen, gen, 0}
  BY DEF Walks
<1>3. InPlay' \subseteq InPlay
  <2>1. \A v \in Workers : wk'[v].pc = "idle" \/ wk'[v].job \in InPlay
    BY <1>1, CurrentInPlay
  <2>2. delayed' \subseteq InPlay
    BY CurrentInPlay DEF Walks, InPlay
  <2>3. \A i \in Ids : entry'[i] \in InPlay \cup {None}
    BY DEF Walks, InPlay
  <2> QED
    BY <2>1, <2>2, <2>3, NoNewJob
<1>4. Reserved' \subseteq Reserved
  BY <1>1 DEF Walks, Reserved
<1>5. Slots'
  <2>1. \/ inflight' = inflight
        \/ inflight' = SlotsLeft /\ \E v \in Reserved : v \notin Reserved'
        \/ Reserved \subseteq stalled /\ inflight' \in Nat
    BY DEF Walks, Reserved
  <2>2. IsFiniteSet(Reserved') /\ (stalls' = 0 => stalled' = {}
                                                  /\ Cardinality(Reserved') <= inflight')
    BY <1>0, <1>4, <2>1, FewerSlots DEF Walks
  <2>3. \A v \in Workers : NeedsSlot(v)' => wk'[v].reserved
    BY <1>0, <1>1 DEF Walks, Slots, NeedsSlot
  <2> QED
    BY <2>2, <2>3 DEF Slots
<1>6. \A v \in Workers : /\ wk'[v].reserved => wk'[v].job = wk[v].job /\ wk[v].reserved
                         /\ wk'[v].pc = "sending" => wk'[v] = wk[v]
                         /\ wk'[v].pc = "answer" /\ wk'[v].plan = "sent"
                              => \/ wk'[v] = wk[v]
                                 \/ wk'[v].job = wk[v].job /\ wk[v].job \in accepted'
  BY <1>1, <1>4 DEF Walks, Reserved
<1>7. \A v \in Workers : wk'[v].pc \in Past =>
       /\ wk'[v].job = wk[v].job /\ wk[v].pc # "idle"
       /\ \/ wk[v].pc \in Past
          \/ wk[v].job.step <= 1
          \/ wk'[v].pc # "sending" /\ stage[wk[v].job.step - 1] = "sent"
  BY <1>1 DEF Walks, Past
<1>8. /\ blocked' = blocked \/ Reserved # {}
      /\ \A s \in Stages :
           \/ stage'[s] \in {stage[s], "skipped"}
           \/ stage'[s] = "failed" /\ ~deleted
           \/ stage'[s] = "sent" /\ \E v \in Reserved :
                wk[v].pc = "answer" /\ wk[v].plan = "sent" /\ wk[v].job.step = s
  BY DEF Walks, Reserved
<1>9. /\ deleted => dlq' = dlq /\ \A i \in Ids : entry[i] = None => entry'[i] = None
      /\ accepted \subseteq accepted'
      /\ \A j \in accepted' \ accepted : \E v \in Workers : wk[v].pc = "sending" /\ wk[v].job = j
  BY DEF Walks
<1> QED
  BY <1>2, <1>3, <1>5, <1>6, <1>7, <1>8, <1>9 DEF Effect

LEMMA SameAccepted ==
  ASSUME Deliver, got' = got PROVE accepted' = accepted
BY DEF Deliver

LEMMA GotoSlot ==
  ASSUME TypeOK, NEW w \in Workers, NEW pc, Goto(w, pc)
  PROVE  wk'[w].reserved = wk[w].reserved
BY DEF TypeOK, Worker, Goto

LEMMA SetSlot ==
  ASSUME TypeOK, NEW w \in Workers, NEW pc, NEW r \in BOOLEAN,
         wk' = [wk EXCEPT ![w].pc = pc, ![w].reserved = r]
  PROVE  wk'[w].reserved = r
BY DEF TypeOK, Worker

LEMMA PlanSlot ==
  ASSUME TypeOK, NEW w \in Workers, NEW pc, NEW plan,
         wk' = [wk EXCEPT ![w].pc = pc, ![w].plan = plan]
  PROVE  wk'[w].reserved = wk[w].reserved
BY DEF TypeOK, Worker

\* A consumer leaves through its finally clause only with a slot.
LEMMA LeavesRightly ==
  ASSUME PInv, NEW w \in Workers, wk[w].pc # "idle", Goto(w, Leaving(w))
  PROVE  /\ GoesOn(w) /\ wk'[w].pc \in {"end", "release"}
         /\ wk'[w].reserved = wk[w].reserved
         /\ wk'[w].pc = "end" => wk'[w].reserved
<1>1. TypeOK
  BY DEF PInv, IInv
<1>2. Leaving(w) \in PCs \ {"idle"}
  BY LeavingFacts DEF PCs, Working
<1>3. GoesOn(w) /\ wk'[w].pc = Leaving(w) /\ wk'[w].reserved = wk[w].reserved
  BY <1>1, <1>2, GotoFacts, GotoSlot
<1> QED
  BY <1>3 DEF Leaving

\* Steps of a consumer that write nothing of what Walks lists.
Bare == <<entry, delayed, stage, enqueued, dlq, blocked, deleted, gen, inflight,
          stalled, src, accepted, stalls>>

\* A consumer only goes somewhere else.
LEMMA BareGoto ==
  ASSUME PInv, NEW w \in Workers, wk[w].pc # "idle", UNCHANGED Bare,
         NEW pc \in PCs \ {"idle", "sending", "answer", "end"}, Goto(w, pc),
         pc \in Past => \/ wk[w].pc \in Past
                        \/ wk[w].job.step <= 1
                        \/ stage[wk[w].job.step - 1] = "sent"
  PROVE  Effect
<1>1. GoesOn(w) /\ wk'[w].pc = pc /\ wk'[w].reserved = wk[w].reserved
  BY GotoFacts, GotoSlot DEF PInv, IInv
<1>2. Walks(w)
  BY <1>1 DEF Walks, Bare
<1> QED
  BY <1>2, WalksEffect

\* A consumer decides what to write, or learns that the send has failed.
LEMMA BarePlan ==
  ASSUME PInv, NEW w \in Workers, wk[w].pc # "idle", UNCHANGED Bare,
         NEW plan \in Plans, NEW pc \in {"commit", "answer"},
         wk' = [wk EXCEPT ![w].pc = pc, ![w].plan = plan],
         pc = "answer" => plan = "retry"
  PROVE  Effect
<1>1. GoesOn(w) /\ wk'[w].pc = pc /\ wk'[w].plan = plan /\ wk'[w].reserved = wk[w].reserved
  BY PlanFacts, PlanSlot DEF PInv, IInv, PCs, Working
<1>2. Walks(w)
  BY <1>1 DEF Walks, Bare, Past
<1> QED
  BY <1>2, WalksEffect

LEMMA EffectChecks ==
  ASSUME PInv, Deliver, NEW w \in Workers,
         \/ CheckGate(w) \/ CheckOwnStage(w) \/ CheckClear(w) \/ CheckPrior(w)
         \/ CheckCutoff(w) \/ CheckBlocked(w) \/ AcquireRate(w)
  PROVE  Effect
<1> USE DEF At, PCs, Working, Checks, Plans
<1>0. TypeOK
  BY DEF PInv, IInv
<1>1. wk[w].pc \in Checks /\ UNCHANGED Reading
  BY DEF CheckGate, CheckOwnStage, CheckClear, CheckPrior, CheckCutoff, CheckBlocked,
         AcquireRate
<1>2. UNCHANGED Bare
  BY <1>1, SameAccepted DEF Reading, redis, Bare
<1>3. wk[w].job.step \in Nat
  BY <1>0, <1>1, JobFacts DEF TypeOK, Stages
<1>4. ASSUME NEW plan \in Plans, Commit(w, plan) PROVE Effect
  BY <1>1, <1>2, <1>4, BarePlan DEF Commit
<1>5. ASSUME NEW pc \in Checks, Goto(w, pc),
             pc \in Past => \/ wk[w].pc \in Past
                            \/ wk[w].job.step <= 1
                            \/ stage[wk[w].job.step - 1] = "sent"
      PROVE  Effect
  BY <1>1, <1>2, <1>5, BareGoto
<1>6. CASE CheckGate(w)
  BY <1>4, <1>5, <1>6 DEF CheckGate, Past
<1>7. CASE CheckOwnStage(w)
  BY <1>3, <1>4, <1>5, <1>7 DEF CheckOwnStage, Past
<1>8. CASE CheckClear(w)
  BY <1>4, <1>5, <1>8 DEF CheckClear, Past
<1>9. CASE CheckPrior(w)
  BY <1>4, <1>5, <1>9 DEF CheckPrior, Past
<1>10. CASE CheckCutoff(w)
  BY <1>4, <1>5, <1>10 DEF CheckCutoff, Past
<1>11. CASE CheckBlocked(w)
  BY <1>4, <1>5, <1>11 DEF CheckBlocked, Past
<1>12. CASE AcquireRate(w)
  <2>1. CASE wk' = [wk EXCEPT ![w].pc = "answer", ![w].plan = "retry"]
    BY <1>1, <1>2, <2>1, BarePlan
  <2> QED
    BY <1>5, <1>12, <2>1 DEF AcquireRate, Past
<1> QED
  BY <1>6, <1>7, <1>8, <1>9, <1>10, <1>11, <1>12

\* The lease: a cancelled finally clause leaves the slot to its expiry.
LEMMA EffectLeases ==
  ASSUME PInv, Deliver, NEW w \in Workers,
         AcquireLease(w) \/ Heartbeat(w) \/ ReleaseLease(w) \/ Guard(w)
  PROVE  Effect
<1> USE DEF At, PCs, Working, Checks
<1>0. TypeOK
  BY DEF PInv, IInv
<1>1. wk[w].pc # "idle" /\ UNCHANGED Bare
  BY SameAccepted DEF AcquireLease, Heartbeat, ReleaseLease, Guard, Bare
<1>2. CASE UNCHANGED wk
  <2>1. Walks(w)
    BY <1>1, <1>2 DEF Walks, Bare
  <2> QED
    BY <2>1, WalksEffect
<1>3. CASE wk' = [wk EXCEPT ![w] = Rest]
  <2>1. Resets(w)
    BY <1>0, <1>3, ResetFacts
  <2>2. Walks(w)
    BY <1>1, <2>1 DEF Walks, Bare, Resets, Rest, Past
  <2> QED
    BY <2>2, WalksEffect
<1>4. CASE wk' = [wk EXCEPT ![w].pc = "release", ![w].reserved = FALSE]
  <2>1. GoesOn(w) /\ wk'[w].pc = "release" /\ ~wk'[w].reserved
    BY <1>0, <1>1, <1>4, SlotFacts, SetSlot
  <2>2. Walks(w)
    BY <1>1, <2>1 DEF Walks, Bare, Past
  <2> QED
    BY <2>2, WalksEffect
<1>5. CASE Goto(w, Leaving(w))
  <2>1. Walks(w)
    BY <1>1, <1>5, LeavesRightly DEF Walks, Bare, Past
  <2> QED
    BY <2>1, WalksEffect
<1>6. ASSUME NEW pc \in {"gate", "release", "begin"}, Goto(w, pc),
             pc = "begin" => wk[w].pc = "guard"
      PROVE  Effect
  BY <1>1, <1>6, BareGoto DEF Past
<1> QED
  BY <1>2, <1>3, <1>4, <1>5, <1>6 DEF AcquireLease, Heartbeat, ReleaseLease, Guard

\* Telegram's answer, what the consumer makes of it, and the finally clause.
LEMMA EffectSends ==
  ASSUME PInv, Deliver, NEW w \in Workers,
         Send(w) \/ CountFailure(w) \/ FailPermanently(w) \/ End(w) \/ Cancel(w)
  PROVE  Effect
<1> USE DEF At
<1>0. TypeOK /\ Slots
  BY DEF PInv, IInv
<1>1. CASE Send(w)
  <2>1. wk[w].pc = "sending" /\ wk[w].reserved
        /\ UNCHANGED <<redis, stalled, src, stalls>>
    BY <1>0, <1>1 DEF Send, Slots, NeedsSlot
  <2>2. PICK a \in {"sent", "retry", "blocked", "permanent"} :
          /\ Answer(w, a)
          /\ got' = got \/ got' = [got EXCEPT ![wk[w].job.step] = @ + 1]
          /\ a = "sent" => got' = [got EXCEPT ![wk[w].job.step] = @ + 1]
    BY <1>1 DEF Send
  <2>3. /\ GoesOn(w) /\ wk'[w].pc = "answer" /\ wk'[w].plan = a
        /\ wk'[w].reserved = wk[w].reserved
    BY <1>0, <2>1, <2>2, PlanFacts, PlanSlot DEF Answer, PCs, Working, Plans
  <2>4. \A v \in Workers : wk'[v] # wk[v] <=> v = w
    BY <2>1, <2>3 DEF GoesOn
  <2>5. got' = [got EXCEPT ![wk[w].job.step] = @ + 1] => got' # got
    <3>1. wk[w].job.step \in Stages /\ got \in [Stages -> Nat]
      BY <1>0, <2>1, JobFacts DEF TypeOK
    <3> QED
      BY <3>1
  <2>6. /\ accepted' \in {accepted, accepted \cup {wk[w].job}}
        /\ a = "sent" => wk[w].job \in accepted'
    <3>1. CASE got' = got
      BY <2>2, <2>5, <3>1, SameAccepted
    <3>2. CASE got' # got
      <4>1. accepted' = accepted \cup {wk[v].job : v \in {w}}
        <5>1. {v \in Workers : wk[v].pc = "sending" /\ got' # got /\ wk'[v] # wk[v]} = {w}
          BY <2>1, <2>4, <3>2
        <5> QED
          BY <5>1 DEF Deliver
      <4> QED
        BY <4>1
    <3> QED
      BY <3>1, <3>2
  <2>7. Walks(w)
    BY <2>1, <2>3, <2>6 DEF Walks, redis, Past
  <2> QED
    BY <2>7, WalksEffect
<1>2. CASE CountFailure(w)
  <2>1. wk[w].pc = "answer" /\ UNCHANGED Bare
    BY <1>2, SameAccepted DEF CountFailure, Bare
  <2>2. CASE Commit(w, "fail")
    BY <2>1, <2>2, BarePlan DEF Commit, Plans
  <2>3. CASE Goto(w, Leaving(w))
    <3>1. Walks(w)
      BY <2>1, <2>3, LeavesRightly DEF Walks, Bare, Past
    <3> QED
      BY <3>1, WalksEffect
  <2> QED
    BY <1>2, <2>2, <2>3 DEF CountFailure
<1>3. CASE FailPermanently(w)
  <2>1. /\ wk[w].pc = "answer" /\ wk[w].plan \in {"blocked", "permanent"}
        /\ UNCHANGED <<entry, delayed, stage, enqueued, dlq, deleted, gen, inflight,
                       stalled, src, accepted, stalls>>
        /\ Commit(w, "fail")
    BY <1>3, SameAccepted DEF FailPermanently
  <2>2. wk[w].reserved
    BY <1>0, <2>1 DEF Slots, NeedsSlot
  <2>3. GoesOn(w) /\ wk'[w].pc = "commit" /\ wk'[w].reserved = wk[w].reserved
    BY <1>0, <2>1, PlanFacts, PlanSlot DEF Commit, PCs, Working, Plans
  <2>4. Walks(w)
    BY <2>1, <2>2, <2>3 DEF Walks, Past
  <2> QED
    BY <2>4, WalksEffect
<1>4. CASE End(w)
  <2>1. /\ wk[w].pc = "end" /\ inflight' = SlotsLeft
        /\ UNCHANGED <<entry, delayed, stage, enqueued, dlq, blocked, deleted, gen,
                       stalled, src, accepted, stalls>>
        /\ wk' = [wk EXCEPT ![w].pc = "release", ![w].reserved = FALSE]
    BY <1>4, SameAccepted DEF End
  <2>2. wk[w].reserved
    BY <1>0, <2>1 DEF Slots, NeedsSlot
  <2>3. GoesOn(w) /\ wk'[w].pc = "release" /\ ~wk'[w].reserved
    BY <1>0, <2>1, SlotFacts, SetSlot DEF PCs
  <2>4. Walks(w)
    BY <2>1, <2>2, <2>3 DEF Walks, Past
  <2> QED
    BY <2>4, WalksEffect
<1>5. CASE Cancel(w)
  <2>1. wk[w].pc # "idle" /\ UNCHANGED Bare /\ Goto(w, Leaving(w))
    BY <1>5, SameAccepted DEF Cancel, redis, Bare, Working, Checks
  <2>2. Walks(w)
    BY <2>1, LeavesRightly DEF Walks, Bare, Past
  <2> QED
    BY <2>2, WalksEffect
<1> QED
  BY <1>1, <1>2, <1>3, <1>4, <1>5

\* The writes that end a delivery.
LEMMA EffectCommits ==
  ASSUME PInv, Deliver, NEW w \in Workers,
         \/ RecordSent(w) \/ CommitAck(w) \/ CommitSkip(w) \/ CommitRequeue(w)
         \/ CommitFail(w)
  PROVE  Effect
<1>0. TypeOK /\ Slots
  BY DEF PInv, IInv
<1>1. /\ wk[w].pc # "idle" /\ XAck(wk[w].id) /\ Goto(w, Leaving(w))
      /\ UNCHANGED <<enqueued, blocked, deleted, gen, inflight, stalled, src, accepted, stalls>>
  BY SameAccepted DEF RecordSent, CommitAck, CommitSkip, CommitRequeue, CommitFail, At
<1>2. /\ GoesOn(w) /\ wk'[w].pc \in {"end", "release"} /\ wk'[w].reserved = wk[w].reserved
      /\ wk'[w].pc = "end" => wk'[w].reserved
  BY <1>1, LeavesRightly
<1>3. wk[w].id \in Ids /\ wk[w].job.step \in Stages /\ stage \in [Stages -> States]
  BY <1>0, <1>1, JobFacts DEF TypeOK
<1>4. \A i \in Ids : entry'[i] \in {entry[i], None}
  BY <1>0, <1>1, <1>3 DEF XAck, TypeOK
<1>5. \A s \in Stages :
       \/ stage'[s] \in {stage[s], "skipped"}
       \/ stage'[s] = "failed" /\ ~deleted
       \/ /\ stage'[s] = "sent" /\ wk[w].reserved /\ wk[w].pc = "answer"
          /\ wk[w].plan = "sent" /\ wk[w].job.step = s
  <2>1. CASE RecordSent(w)
    <3>1. /\ stage' = [stage EXCEPT ![wk[w].job.step] = "sent"] /\ wk[w].pc = "answer"
          /\ wk[w].plan = "sent" /\ wk[w].reserved
      BY <1>0, <2>1 DEF RecordSent, At, Slots, NeedsSlot
    <3> QED
      BY <1>3, <3>1
  <2>2. CASE CommitFail(w)
    <3>1. \/ stage' = stage
          \/ stage' = [stage EXCEPT ![wk[w].job.step] = "failed"] /\ ~deleted
      BY <2>2 DEF CommitFail, Storable, Current
    <3> QED
      BY <1>3, <3>1
  <2>3. CASE CommitSkip(w)
    BY <1>3, <2>3 DEF CommitSkip
  <2>4. CASE CommitAck(w) \/ CommitRequeue(w)
    BY <2>4 DEF CommitAck, CommitRequeue
  <2> QED
    BY <2>1, <2>2, <2>3, <2>4
<1>6. /\ delayed' = delayed \/ delayed' = delayed \cup {wk[w].job}
      /\ deleted => dlq' = dlq
  BY DEF RecordSent, CommitAck, CommitSkip, CommitRequeue, RequeuedStage, CommitFail,
         Storable, Current
<1>7. Walks(w)
  BY <1>1, <1>2, <1>4, <1>5, <1>6 DEF Walks, Past
<1> QED
  BY <1>7, WalksEffect

\* No consumer moves and nothing is written.
LEMMA EffectIdle ==
  ASSUME PInv,
         UNCHANGED <<wk, entry, delayed, stage, enqueued, dlq, blocked, deleted, gen, accepted>>,
         stalls' = 0 => stalls = 0 /\ stalled' \subseteq stalled,
         src'.gen \in {src.gen, gen, 0},
         inflight' = inflight \/ (inflight' = 0 /\ Reserved \subseteq stalled)
  PROVE  Effect
<1>0. TypeOK /\ Slots
  BY DEF PInv, IInv
<1>1. InPlay' = InPlay /\ Reserved' = Reserved
  BY DEF InPlay, Reserved
<1>2. Slots'
  <2>1. IsFiniteSet(Reserved') /\ (stalls' = 0 => stalled' = {}
                                                  /\ Cardinality(Reserved') <= inflight')
    BY <1>0, <1>1, FewerSlots
  <2>2. \A v \in Workers : NeedsSlot(v)' => wk'[v].reserved
    BY <1>0 DEF Slots, NeedsSlot
  <2> QED
    BY <2>1, <2>2 DEF Slots
<1> QED
  BY <1>1, <1>2 DEF Effect, Past

LEMMA EffectOthers ==
  ASSUME PInv, Deliver,
         \/ \E w \in Workers : Crash(w) \/ Stall(w) \/ Resume(w)
         \/ \E s \in Stages : LeaseExpires(s)
         \/ \E i \in Ids : GoesIdle(i)
         \/ SlotsExpire \/ ReadGeneration
         \/ Ageing \/ DayOrNight \/ MuteOrUnmute \/ RecordClear
  PROVE  Effect
<1>0. TypeOK
  BY DEF PInv, IInv
<1>1. ASSUME NEW w \in Workers, Crash(w) PROVE Effect
  <2>1. /\ UNCHANGED <<entry, delayed, stage, enqueued, dlq, blocked, deleted, gen, inflight,
                       src, accepted, stalls>>
        /\ stalled' \subseteq stalled
        /\ wk' = [wk EXCEPT ![w] = Rest]
    BY <1>1, SameAccepted DEF Crash
  <2>2. Resets(w)
    BY <1>0, <2>1, ResetFacts
  <2>3. Walks(w)
    BY <2>1, <2>2 DEF Walks, Resets, Rest, Past
  <2> QED
    BY <2>3, WalksEffect
<1>2. CASE ~\E w \in Workers : Crash(w)
  <2> DEFINE kept == <<wk, entry, delayed, stage, enqueued, dlq, blocked, deleted, gen>>
  <2>1. UNCHANGED kept /\ got' = got
    BY <1>2 DEF Stall, Resume, LeaseExpires, GoesIdle, SlotsExpire, ReadGeneration, Ageing,
                DayOrNight, MuteOrUnmute, RecordClear, WorldOnly, redis
  <2>2. stalls' = 0 => stalls = 0 /\ stalled' \subseteq stalled
    <3>1. stalls \in Nat
      BY <1>0, DeliveryAssumption DEF TypeOK
    <3>2. CASE \E w \in Workers : Stall(w)
      BY <3>1, <3>2 DEF Stall
    <3>3. CASE ~\E w \in Workers : Stall(w)
      BY <1>2, <3>3 DEF Resume, LeaseExpires, GoesIdle, SlotsExpire, ReadGeneration, Ageing,
                        DayOrNight, MuteOrUnmute, RecordClear, WorldOnly
    <3> QED
      BY <3>2, <3>3
  <2>3. src'.gen \in {src.gen, gen, 0}
    BY <1>2 DEF Stall, Resume, LeaseExpires, GoesIdle, SlotsExpire, ReadGeneration, Ageing,
                DayOrNight, MuteOrUnmute, RecordClear, WorldOnly
  <2>4. inflight' = inflight \/ (inflight' = 0 /\ Reserved \subseteq stalled)
    BY <1>2 DEF Stall, Resume, LeaseExpires, GoesIdle, SlotsExpire, ReadGeneration, Ageing,
                DayOrNight, MuteOrUnmute, RecordClear, WorldOnly, redis, Reserved
  <2> QED
    BY <2>1, <2>2, <2>3, <2>4, SameAccepted, EffectIdle
<1> QED
  BY <1>1, <1>2

\* The reservation: the script refuses a recipient that is fenced off.
LEMMA EffectBegin ==
  ASSUME PInv, Deliver, NEW w \in Workers, Begin(w)
  PROVE  Effect
<1>0. TypeOK /\ Slots
  BY DEF PInv, IInv
<1>1. /\ wk[w].pc = "begin"
      /\ UNCHANGED <<entry, delayed, stage, enqueued, dlq, blocked, deleted, gen,
                     stalled, src, accepted, stalls>>
  BY SameAccepted DEF Begin, At
<1>2. CASE UNCHANGED inflight /\ \E plan \in {"ack", "skip"} : Commit(w, plan)
  BY <1>1, <1>2, BarePlan DEF Commit, Bare, Plans
<1>3. CASE /\ Current(wk[w].job) /\ inflight' = inflight + 1
           /\ wk' = [wk EXCEPT ![w].pc = "sending", ![w].reserved = TRUE]
  <2>1. GoesOn(w) /\ wk'[w].pc = "sending" /\ wk'[w].reserved
    BY <1>0, <1>1, <1>3, SlotFacts, SetSlot DEF PCs, Working
  <2>2. wk'[w].job = wk[w].job /\ \A v \in Workers : wk'[v] = wk[v] \/ v = w
    BY <2>1 DEF GoesOn
  <2>3. Reserved' = Reserved \cup {w}
    BY <2>1, <2>2 DEF Reserved
  <2>4. InPlay' \subseteq InPlay
    <3>1. \A v \in Workers : wk'[v].pc = "idle" \/ wk'[v].job \in InPlay
      BY <1>1, <2>2, CurrentInPlay
    <3> QED
      BY <1>1, <3>1, NoNewJob DEF InPlay
  <2>5. Slots'
    <3>1. /\ IsFiniteSet(Reserved')
          /\ Cardinality(Reserved') \in Nat /\ Cardinality(Reserved) \in Nat
          /\ Cardinality(Reserved') <= Cardinality(Reserved) + 1
      BY <1>0, <2>3, FS_AddElement, FS_CardinalityType DEF Slots
    <3>2. stalls' = 0 => stalled' = {} /\ Cardinality(Reserved') <= inflight'
      BY <1>0, <1>1, <1>3, <3>1 DEF Slots, TypeOK
    <3>3. \A v \in Workers : NeedsSlot(v)' => wk'[v].reserved
      BY <1>0, <2>1, <2>2 DEF Slots, NeedsSlot
    <3> QED
      BY <3>1, <3>2, <3>3 DEF Slots
  <2> QED
    BY <1>1, <1>3, <2>1, <2>2, <2>4, <2>5 DEF Effect, Past
<1> QED
  BY <1>2, <1>3 DEF Begin

\* A consumer takes an entry.
LEMMA EffectTake ==
  ASSUME PInv, Deliver, NEW w \in Workers, (\E i \in idle : ClaimIdle(w, i)) \/ ReadNew(w)
  PROVE  Effect
<1>0. TypeOK /\ Slots /\ Unread /\ IdlePending
  BY DEF PInv, IInv
<1>1. /\ wk[w].pc = "idle"
      /\ UNCHANGED <<entry, delayed, stage, enqueued, dlq, blocked, deleted, gen, inflight,
                     stalled, src, accepted, stalls>>
  BY SameAccepted DEF ClaimIdle, ReadNew
<1>2. PICK i \in Ids : Take(w, i) /\ entry[i] # None
  <2>1. ASSUME NEW i \in idle, ClaimIdle(w, i) PROVE i \in Ids /\ entry[i] # None
    BY <1>0 DEF TypeOK, IdlePending
  <2>2. ASSUME ReadNew(w) PROVE Head(queue) \in Ids /\ entry[Head(queue)] # None
    <3>1. queue \in Seq(Ids) /\ queue # <<>>
      BY <1>0, <2>2 DEF TypeOK, ReadNew
    <3>2. Head(queue) = queue[1] /\ 1 \in 1..Len(queue) /\ Head(queue) \in Ids
      BY <3>1
    <3> QED
      BY <1>0, <3>2 DEF Unread
  <2> QED
    BY <2>1, <2>2 DEF ClaimIdle, ReadNew
<1>3. /\ wk'[w].pc = "lease" /\ wk'[w].job = entry[i] /\ ~wk'[w].reserved
      /\ \A v \in Workers : wk'[v] = wk[v] \/ v = w
  BY <1>0, <1>2 DEF Take, Rest, TypeOK
<1>4. InPlay' \subseteq InPlay
  <2>1. entry[i] \in InPlay
    BY <1>2 DEF InPlay
  <2>2. \A v \in Workers : wk'[v].pc = "idle" \/ wk'[v].job \in InPlay
    BY <1>3, <2>1, CurrentInPlay
  <2> QED
    BY <1>1, <2>2, NoNewJob DEF InPlay
<1>5. Reserved' \subseteq Reserved
  BY <1>3 DEF Reserved
<1>6. Slots'
  <2>1. IsFiniteSet(Reserved') /\ (stalls' = 0 => stalled' = {}
                                                  /\ Cardinality(Reserved') <= inflight')
    BY <1>0, <1>1, <1>5, FewerSlots
  <2>2. \A v \in Workers : NeedsSlot(v)' => wk'[v].reserved
    BY <1>0, <1>3 DEF Slots, NeedsSlot
  <2> QED
    BY <2>1, <2>2 DEF Slots
<1> QED
  BY <1>1, <1>3, <1>4, <1>6 DEF Effect, Past

\* A job enters the stream: it was due, or the event is new to this recipient.
LEMMA EffectFeeds ==
  ASSUME PInv, Deliver, Enqueue \/ \E j \in delayed : PopMature(j)
  PROVE  Effect
<1>0. TypeOK /\ Slots
  BY DEF PInv, IInv
<1>1. UNCHANGED <<wk, stage, dlq, blocked, deleted, gen, inflight, stalled, accepted, stalls>>
  BY SameAccepted DEF Enqueue, PopMature
<1>2. ASSUME NEW j, XAdd(j)
      PROVE  /\ ~UNCHANGED queue
             /\ \A k \in Ids : entry'[k] = entry[k] \/ entry'[k] = j
  BY <1>0, <1>2 DEF XAdd, Free, TypeOK
<1>3. src'.gen \in {src.gen, gen, 0}
  BY DEF Enqueue, PopMature, NoCall
<1>4. Reserved' = Reserved /\ Slots'
  BY <1>0, <1>1 DEF Reserved, Slots, NeedsSlot
<1>5. \A v \in Workers : wk[v].pc = "idle" \/ wk[v].job \in InPlay
  BY CurrentInPlay
<1>6. \/ InPlay' \subseteq InPlay /\ UNCHANGED enqueued
      \/ /\ ~deleted /\ enqueued = {} /\ enqueued' # {}
         /\ \A j \in InPlay' \ InPlay : j.gen = gen
  <2>1. ASSUME NEW j \in delayed, PopMature(j) PROVE InPlay' \subseteq InPlay /\ UNCHANGED enqueued
    <3>1. \A i \in Ids : entry'[i] \in {entry[i], j}
      BY <1>2, <2>1 DEF PopMature
    <3>2. \A i \in Ids : entry'[i] \in InPlay \cup {None}
      BY <2>1, <3>1 DEF InPlay
    <3>3. delayed' \subseteq InPlay
      BY <2>1 DEF PopMature, InPlay
    <3>4. InPlay' \subseteq InPlay
      BY <1>1, <1>5, <3>2, <3>3, NoNewJob
    <3> QED
      BY <2>1, <3>4 DEF PopMature
  <2>2. CASE Enqueue /\ UNCHANGED <<entry, delayed, enqueued>>
    BY <1>1, <2>2 DEF InPlay
  <2>3. CASE Enqueue /\ ~UNCHANGED <<entry, delayed, enqueued>>
    <3>1. PICK later \in {{}, Stages \ {1}} :
            /\ ~deleted /\ src.gen = gen /\ enqueued = {}
            /\ XAdd([step |-> 1, gen |-> gen])
            /\ delayed' = delayed \cup {[step |-> s, gen |-> gen] : s \in later}
            /\ enqueued' = {1} \cup later
      BY <2>3 DEF Enqueue
    <3>2. \A i \in Ids : entry'[i] \in {entry[i], [step |-> 1, gen |-> gen]}
      BY <1>2, <3>1
    <3>3. ASSUME NEW j \in InPlay', j \notin InPlay PROVE j.gen = gen
      <4>1. CASE j \in delayed'
        BY <3>1, <3>3, <4>1 DEF InPlay
      <4>2. CASE \E i \in Ids : entry'[i] # None /\ j = entry'[i]
        BY <3>2, <3>3, <4>2 DEF InPlay
      <4>3. CASE \E w \in Workers : wk'[w].pc # "idle" /\ j = wk'[w].job
        BY <1>1, <3>3, <4>3 DEF InPlay
      <4> QED
        BY <3>3, <4>1, <4>2, <4>3 DEF InPlay
    <3> QED
      BY <3>1, <3>3
  <2> QED
    BY <2>1, <2>2, <2>3
<1>7. deleted => \A i \in Ids : entry[i] = None => entry'[i] = None
  BY DEF Enqueue, PopMature, Current
<1> QED
  BY <1>1, <1>3, <1>4, <1>6, <1>7 DEF Effect, Past, NeedsSlot

LEMMA DeliverStep == PInv /\ Deliver => PInv'
<1> SUFFICES ASSUME PInv, Deliver PROVE PInv'
  OBVIOUS
<1>1. UNCHANGED Operating
  BY DEF Deliver, Operating
<1>2. IInv'
  BY StepIInv DEF PInv, Deliver
<1>3. Effect
  BY EffectChecks, EffectLeases, EffectSends, EffectCommits, EffectOthers, EffectBegin,
     EffectTake, EffectFeeds
     DEF Deliver, Next, Handle
<1> QED
  BY <1>1, <1>2, <1>3, EffectInv

-----------------------------------------------------------------------------
(* The steps of the operations.                                            *)

\* The others are idle, so where this one is decides how far a deletion has come.
LEMMA OpFacts ==
  ASSUME PInv, NEW p \in Ops, op[p] # "idle", NEW to \in OpPCs, OpGoto(p, to)
  PROVE  /\ op'[p] = to /\ \A q \in Ops \ {p} : op[q] = "idle" /\ op'[q] = "idle"
         /\ op' \in [Ops -> OpPCs] /\ oplock = p
         /\ \A steps : "idle" \notin steps =>
              /\ Reached(steps) <=> outcome = "erased" \/ op[p] \in steps
              /\ Reached(steps)' <=> outcome' = "erased" \/ to \in steps
<1>1. op \in [Ops -> OpPCs] /\ Exclusive
  BY DEF PInv, PrivacyTypeOK
<1>2. \A q \in Ops : q # p => op[q] = "idle"
  BY <1>1 DEF Exclusive
<1> QED
  BY <1>1, <1>2 DEF OpGoto, Reached, Exclusive

\* The scrubs take jobs and keys away; the consumers do not notice.
LEMMA DataShrinks ==
  ASSUME PInv, UNCHANGED <<wk, stalled, stalls, inflight, src>>, delayed' \subseteq delayed,
         \A i \in Ids : entry'[i] \in {entry[i], None}, gen' = gen
  PROVE  /\ Slots' /\ Dated' /\ InPlay' \subseteq InPlay /\ Reserved' = Reserved
         /\ Fresh' => Fresh
<1>1. Slots /\ Dated
  BY DEF PInv
<1>2. InPlay' \subseteq InPlay /\ Reserved' = Reserved
  BY DEF InPlay, Reserved
<1> QED
  BY <1>1, <1>2 DEF Slots, NeedsSlot, Dated, Fresh

LEMMA LineageKept ==
  ASSUME PInv, stalls = 0, opfaults = 0, UNCHANGED <<wk, accepted, gen, enqueued>>,
         InPlay' \subseteq InPlay,
         \A s \in Stages : stage'[s] = "sent" => stage[s] = "sent",
         \A p \in Ops : op'[p] \in Fenced => \E q \in Ops : op[q] \in Fenced,
         \A p \in Ops : op[p] = "stages" => \/ op'[p] = "stages"
                                           \/ \A s \in Stages : stage'[s] # "sent"
  PROVE  Lineage' /\ GenerationsInOrder'
<1>1. Lineage /\ GenerationsInOrder
  BY DEF PInv
<1>2. Reserved' = Reserved /\ (Fresh' => Fresh)
  BY DEF Reserved, Fresh
<1>3. \A p \in Ops : op'[p] \in Fenced => ~Fresh'
  BY <1>1, <1>2 DEF Lineage
<1>4. enqueued' = {} => /\ Reserved' = {} /\ ~Fresh'
                        /\ \/ \A s \in Stages : stage'[s] # "sent"
                           \/ \E p \in Ops : op'[p] = "stages"
  BY <1>1, <1>2 DEF Lineage
<1>5. Fresh' => /\ \A s \in Stages : stage'[s] = "sent"
                                       => [step |-> s, gen |-> gen'] \in accepted'
                /\ \A w \in Reserved' : wk'[w].job.gen = gen'
  BY <1>1, <1>2 DEF Lineage
<1>6. \A w \in Workers :
        /\ wk'[w].pc = "answer" /\ wk'[w].plan = "sent" => wk'[w].job \in accepted'
        /\ wk'[w].pc \in Past /\ wk'[w].job.step > 1
             /\ (wk'[w].pc = "sending" \/ wk'[w].job.gen = gen')
             => Before(wk'[w].job) \in accepted'
  BY <1>1 DEF Lineage
<1> QED
  BY <1>1, <1>3, <1>4, <1>5, <1>6 DEF Lineage, GenerationsInOrder, Before

\* An operation moves and the deliveries do not: what the deletion has emptied so
\* far it had emptied before, or nobody held a slot.
LEMMA OpsOnly ==
  ASSUME PInv, UNCHANGED <<vars, accepted>>,
         UNCHANGED drainedTo \/ (drainedTo' = gen /\ inflight = 0),
         PrivacyTypeOK', Exclusive', Reports', opfaults' = 0 => opfaults = 0,
         \A steps \in {AfterWait, AfterKeys, AfterMarkers, AfterStages, AfterStream} :
           Reached(steps)' => Reached(steps) \/ (steps = AfterWait /\ inflight = 0),
         outcome' = "erased" => outcome = "erased",
         \A p \in Ops : op'[p] \in Fenced => \E q \in Ops : op[q] \in Fenced,
         opfaults' = 0 => \A p \in Ops : op[p] = "stages" => op'[p] = "stages"
  PROVE  PInv'
<1>0. IInv /\ Slots /\ (stalls = 0 => Erased)
  BY DEF PInv
<1>1. IInv'
  BY <1>0, StepIInv
<1>2. UNCHANGED <<queue, entry, owner, idle, retry, lease, delayed, stage, enqueued,
                  dlq, blocked, deleted, gen, inflight, wk, stalled, src, stalls>>
  BY DEF vars, redis
<1>3. Slots' /\ Dated' /\ InPlay' \subseteq InPlay /\ Reserved' = Reserved
  BY <1>2, DataShrinks
<1>4. ASSUME stalls' = 0 PROVE Erased'
  <2>1. inflight = 0 => Reserved = {}
    <3>1. IsFiniteSet(Reserved) /\ Cardinality(Reserved) \in Nat
          /\ Cardinality(Reserved) <= inflight
      BY <1>0, <1>2, <1>4, FS_CardinalityType DEF Slots
    <3> QED
      BY <3>1, FS_EmptySet
  <2>2. AfterKeys # AfterWait /\ AfterMarkers # AfterWait /\ AfterStages # AfterWait
        /\ AfterStream # AfterWait
    BY DEF AfterStream, AfterStages, AfterMarkers, AfterKeys, AfterWait
  <2>3. \A w \in Workers : wk[w].pc = "sending" => wk[w].job.gen >= drainedTo'
    <3>1. CASE UNCHANGED drainedTo
      BY <1>0, <1>2, <1>4, <3>1 DEF Erased
    <3>2. CASE inflight = 0
      BY <1>0, <2>1, <3>2 DEF Slots, NeedsSlot, Reserved
    <3> QED
      BY <3>1, <3>2
  <2> QED
    BY <1>0, <1>2, <1>3, <1>4, <2>1, <2>2, <2>3 DEF Erased
<1>5. stalls' = 0 /\ opfaults' = 0 => Lineage' /\ GenerationsInOrder'
  BY <1>2, <1>3, LineageKept
<1>6. GenerationsInOrder'
  BY <1>5 DEF GenerationsInOrder
<1> QED
  BY <1>1, <1>3, <1>4, <1>5, <1>6 DEF PInv

\* The lock, the wait for the slots, the rows, and a settings click.
LEMMA LockSteps ==
  ASSUME PInv,
         \/ \E p \in Ops : \/ BeginOp(p) \/ Unlock(p) \/ OpRaises(p) \/ OpDies(p)
                           \/ SlotsDrained(p) \/ DrainTimesOut(p) \/ DeleteRows(p)
                           \/ Register(p)
         \/ OpLockExpires \/ Touch
  PROVE  PInv'
<1> USE DEF OpPCs, DeletePCs, StartPCs
<1>0. /\ PrivacyTypeOK /\ Exclusive /\ Reports
      /\ op \in [Ops -> OpPCs] /\ opfaults \in Nat
      /\ oplock \in Ops \cup {None, Orphan}
  BY PrivacyAssumption DEF PInv, PrivacyTypeOK
<1>1. UNCHANGED <<vars, accepted>>
  BY DEF BeginOp, Unlock, OpRaises, OpDies, SlotsDrained, DrainTimesOut, DeleteRows, Register,
         OpLockExpires, Touch, OpOnly
<1>2. UNCHANGED <<gen, deleted>> /\ TypeOK'
  <2>1. IInv'
    BY <1>1, StepIInv DEF PInv
  <2> QED
    BY <1>1, <2>1 DEF vars, redis, IInv
<1>3. ASSUME NEW p \in Ops, BeginOp(p) PROVE PInv'
  <2>1. /\ op[p] = "idle" /\ oplock = None /\ oplock' = p
        /\ UNCHANGED <<profile, outcome, opfaults, drainedTo>>
        /\ \E pc \in {"fence", "register"} : op' = [op EXCEPT ![p] = pc]
    BY <1>3 DEF BeginOp, LockFree, OpOnly, OpGoto
  <2>2. \A q \in Ops : op[q] = "idle"
    BY <1>0, <2>1, PrivacyAssumption DEF Exclusive
  <2>3. op'[p] \in {"fence", "register"} /\ \A q \in Ops \ {p} : op'[q] = "idle"
    BY <1>0, <2>1, <2>2
  <2>4. PrivacyTypeOK' /\ Exclusive' /\ Reports'
    BY <1>0, <1>1, <1>2, <2>1, <2>3
       DEF PrivacyTypeOK, Exclusive, Reports, OutcomeStands, Fenced
  <2>5. \A steps : steps \subseteq Fenced => (Reached(steps)' => Reached(steps))
    BY <2>1, <2>3 DEF Reached, Fenced
  <2> QED
    BY <1>1, <2>1, <2>2, <2>3, <2>4, <2>5, OpsOnly, Afters DEF Fenced
<1>4. ASSUME NEW p \in Ops, NEW to \in OpPCs, op[p] # "idle", OpGoto(p, to),
             to \in Fenced => op[p] \in Fenced,
             oplock' = oplock \/ to = "idle",
             oplock' \in Ops \cup {None, Orphan},
             UNCHANGED outcome \/ (outcome' = "none" /\ op[p] = "register"),
             profile' \in BOOLEAN,
             UNCHANGED profile \/ outcome' # "registered",
             to = "unfence" => profile' /\ outcome' = "none",
             opfaults' \in 0..MaxOpFaults, opfaults' = 0 => opfaults = 0,
             to \in AfterWait => op[p] \in AfterWait \/ inflight = 0,
             to \notin AfterKeys,
             op[p] = "stages" => opfaults' # 0,
             UNCHANGED drainedTo \/ (drainedTo' = gen /\ inflight = 0)
      PROVE  PInv'
  <2>1. /\ op'[p] = to /\ \A q \in Ops \ {p} : op[q] = "idle" /\ op'[q] = "idle"
        /\ op' \in [Ops -> OpPCs] /\ oplock = p
        /\ \A steps : "idle" \notin steps =>
             /\ Reached(steps) <=> outcome = "erased" \/ op[p] \in steps
             /\ Reached(steps)' <=> outcome' = "erased" \/ to \in steps
    BY <1>4, OpFacts
  <2>2. outcome' \in {"none", outcome} /\ outcome \in {"none", "registered", "erased"}
    BY <1>0, <1>4 DEF PrivacyTypeOK
  <2>3. PrivacyTypeOK'
    <3>1. gen \in Nat /\ drainedTo \in 0..gen
      BY <1>0 DEF PrivacyTypeOK, TypeOK
    <3>2. drainedTo' \in 0..gen'
      BY <1>2, <1>4, <3>1
    <3> QED
      BY <1>0, <1>1, <1>2, <1>4, <2>1, <2>2, <3>2 DEF PrivacyTypeOK
  <2>4. Exclusive'
    BY <1>4, <2>1 DEF Exclusive
  <2>5. Reports'
    BY <1>0, <1>1, <1>2, <1>4, <2>1, <2>2 DEF Reports, OutcomeStands, Fenced
  <2>6. \A steps \in {AfterWait, AfterKeys, AfterMarkers, AfterStages, AfterStream} :
          Reached(steps)' => Reached(steps) \/ (steps = AfterWait /\ inflight = 0)
    BY <1>4, <2>1, <2>2, Afters
  <2>7. \A q \in Ops : op'[q] \in Fenced => \E r \in Ops : op[r] \in Fenced
    BY <1>4, <2>1, Afters
  <2> QED
    BY <1>1, <1>4, <2>1, <2>2, <2>3, <2>4, <2>5, <2>6, <2>7, OpsOnly
<1> USE DEF AfterStream, AfterStages, AfterMarkers, AfterKeys, AfterWait, Fenced
<1>5. ASSUME NEW p \in Ops, Unlock(p) PROVE PInv'
  BY <1>0, <1>4, <1>5 DEF Unlock, OpOnly, PrivacyTypeOK
<1>6. ASSUME NEW p \in Ops, OpRaises(p) PROVE PInv'
  BY <1>0, <1>4, <1>6, PrivacyAssumption DEF OpRaises, OpOnly, PrivacyTypeOK
<1>7. ASSUME NEW p \in Ops, OpDies(p) PROVE PInv'
  BY <1>0, <1>4, <1>7, PrivacyAssumption DEF OpDies, OpOnly, PrivacyTypeOK
<1>8. ASSUME NEW p \in Ops, SlotsDrained(p) PROVE PInv'
  BY <1>0, <1>4, <1>8 DEF SlotsDrained, Drained, Step, OpOnly, PrivacyTypeOK
<1>9. ASSUME NEW p \in Ops, DrainTimesOut(p) PROVE PInv'
  BY <1>0, <1>4, <1>9 DEF DrainTimesOut, Step, OpOnly, PrivacyTypeOK
<1>10. ASSUME NEW p \in Ops, DeleteRows(p) PROVE PInv'
  BY <1>0, <1>4, <1>10 DEF DeleteRows, Step, Reports, PrivacyTypeOK
<1>11. ASSUME NEW p \in Ops, Register(p) PROVE PInv'
  BY <1>0, <1>4, <1>11 DEF Register, Step, PrivacyTypeOK
<1>12. CASE OpLockExpires
  <2>1. /\ oplock = Orphan /\ oplock' = None
        /\ UNCHANGED <<profile, outcome, op, opfaults, drainedTo>>
    BY <1>12 DEF OpLockExpires, OpOnly
  <2>2. PrivacyTypeOK' /\ Exclusive' /\ Reports'
    BY <1>0, <1>1, <1>2, <2>1, PrivacyAssumption
       DEF PrivacyTypeOK, Exclusive, Reports, OutcomeStands
  <2>3. \A steps : Reached(steps)' <=> Reached(steps)
    BY <2>1 DEF Reached
  <2> QED
    BY <1>1, <2>1, <2>2, <2>3, OpsOnly
<1>13. CASE Touch
  <2>1. profile' = TRUE /\ UNCHANGED <<oplock, outcome, op, opfaults, drainedTo>>
    BY <1>13 DEF Touch
  <2>2. PrivacyTypeOK' /\ Exclusive' /\ Reports'
    BY <1>0, <1>1, <1>2, <2>1 DEF PrivacyTypeOK, Exclusive, Reports, OutcomeStands
  <2>3. \A steps : Reached(steps)' <=> Reached(steps)
    BY <2>1 DEF Reached
  <2> QED
    BY <1>1, <2>1, <2>2, <2>3, OpsOnly
<1> QED
  BY <1>3, <1>5, <1>6, <1>7, <1>8, <1>9, <1>10, <1>11, <1>12, <1>13

\* What the scrubs and the fence do to the stores of a delivery.
LEMMA ScrubIInv ==
  ASSUME IInv,
         UNCHANGED <<lease, inflight, wk, stalled, src, world, got, faults, stalls>>,
         \/ UNCHANGED <<queue, entry, owner, idle>>
         \/ /\ queue' = <<>> /\ idle' = {}
            /\ entry' = [i \in Ids |-> None] /\ owner' = [i \in Ids |-> None],
         retry' \in [Ids -> 0..MaxAttempts], delayed' \subseteq delayed,
         stage' \in {stage, ErasedStages}, enqueued' \subseteq enqueued,
         dlq' \subseteq dlq, blocked' \in BOOLEAN, deleted' \in BOOLEAN, gen' \in Nat
  PROVE  IInv'
<1>0. TypeOK /\ Unread /\ IdlePending /\ Ordered /\ StagesInOrder
  BY DEF IInv
<1>1. Unread' /\ IdlePending'
  BY <1>0 DEF Unread, IdlePending
<1>2. stage' \in [Stages -> States] /\ \A s \in Stages : stage'[s] = "sent" => stage[s] = "sent"
  BY <1>0 DEF ErasedStages, States, TypeOK
<1>3. Ordered' /\ StagesInOrder'
  BY <1>0, <1>2 DEF Ordered, StagesInOrder
<1>4. /\ queue' \in Seq(Ids) /\ idle' \subseteq Ids
      /\ entry' \in [Ids -> Job \cup {None}]
      /\ owner' \in [Ids -> Workers \cup {None}]
  <2>1. CASE UNCHANGED <<queue, entry, owner, idle>>
    BY <1>0, <2>1 DEF TypeOK
  <2>2. CASE /\ queue' = <<>> /\ idle' = {}
             /\ entry' = [i \in Ids |-> None] /\ owner' = [i \in Ids |-> None]
    <3>1. queue' \in Seq(Ids)
      BY <2>2
    <3> QED
      BY <2>2, <3>1
  <2> QED
    BY <2>1, <2>2
<1>5. delayed' \subseteq Job /\ dlq' \subseteq Job /\ enqueued' \subseteq Stages
  BY <1>0 DEF TypeOK
<1>6. TypeOK'
  BY <1>0, <1>2, <1>4, <1>5 DEF TypeOK, world
<1> QED
  BY <1>1, <1>3, <1>6 DEF IInv

\* FENCE_DELETION_LUA: no job is of the new generation yet.
LEMMA FenceStep ==
  ASSUME PInv, NEW p \in Ops, Fence(p)
  PROVE  PInv'
<1>0. /\ PrivacyTypeOK /\ IInv /\ TypeOK /\ Exclusive /\ Reports /\ Slots /\ Dated
      /\ op[p] = "fence" /\ op'[p] = "wait"
      /\ gen \in Nat /\ gen < MaxGen /\ MaxGen \in Nat /\ gen' = gen + 1
      /\ deleted' /\ outcome' = "none" /\ "wait" \in OpPCs
      /\ UNCHANGED <<profile, oplock, opfaults, drainedTo, accepted>>
      /\ UNCHANGED <<lease, inflight, wk, stalled, src, world, got, faults, stalls,
                     queue, entry, owner, idle, retry, delayed, stage, enqueued, dlq, blocked>>
  BY PrivacyAssumption
     DEF PInv, PrivacyTypeOK, IInv, TypeOK, Fence, Step, OpGoto, OpPCs, DeletePCs
<1>1. IInv'
  <2>1. gen' \in Nat /\ deleted' \in BOOLEAN
    BY <1>0 DEF Fence
  <2> QED
    BY <1>0, <2>1, ScrubIInv DEF TypeOK
<1>2. /\ \A q \in Ops \ {p} : op[q] = "idle" /\ op'[q] = "idle"
      /\ op' \in [Ops -> OpPCs] /\ oplock = p
      /\ \A steps : "idle" \notin steps =>
           (Reached(steps)' <=> outcome' = "erased" \/ "wait" \in steps)
  BY <1>0, OpFacts DEF Fence, Step
<1>3. InPlay' = InPlay /\ Reserved' = Reserved
  BY <1>0 DEF InPlay, Reserved
<1>4. ~Fresh' /\ Dated' /\ Slots'
  <2>1. \A j \in InPlay : j \in Job /\ j.gen \in Nat
    <3>1. InPlay \subseteq Job
      BY <1>0 DEF InPlay, TypeOK
    <3> QED
      BY <3>1, JobFacts
  <2>2. src.gen \in Nat
    BY <1>0 DEF TypeOK
  <2> QED
    BY <1>0, <1>3, <2>1, <2>2 DEF Fresh, Dated, Slots, NeedsSlot
<1>5. PrivacyTypeOK'
  <2>1. drainedTo' \in 0..gen'
    BY <1>0 DEF PrivacyTypeOK
  <2> QED
    BY <1>0, <1>1, <1>2, <2>1 DEF PrivacyTypeOK, IInv
<1>6. Exclusive' /\ Reports'
  BY <1>0, <1>2 DEF Exclusive, Reports, OutcomeStands, Fenced
<1>7. stalls' = 0 => Erased'
  <2>1. ~Reached(AfterWait)' /\ ~Reached(AfterKeys)' /\ ~Reached(AfterMarkers)'
        /\ ~Reached(AfterStages)' /\ ~Reached(AfterStream)'
    BY <1>0, <1>2 DEF AfterStream, AfterStages, AfterMarkers, AfterKeys, AfterWait
  <2> QED
    BY <1>0, <2>1 DEF Erased, PInv
<1>8. ASSUME stalls' = 0, opfaults' = 0 PROVE Lineage' /\ GenerationsInOrder'
  <2>1. Lineage /\ GenerationsInOrder
    BY <1>0, <1>8 DEF PInv
  <2>2. enqueued' = {} => Reserved' = {} /\ \A s \in Stages : stage'[s] # "sent"
    BY <1>0, <1>2, <1>3, <2>1 DEF Lineage
  <2>3. \A w \in Workers : wk[w].pc \in Past => wk[w].job.gen # gen'
    <3>1. \A w \in Workers : wk[w].pc \in Past => wk[w].job \in InPlay
      BY CurrentInPlay DEF Past
    <3> QED
      BY <1>3, <1>4, <3>1 DEF Fresh
  <2>4. \A w \in Workers :
          /\ wk'[w].pc = "answer" /\ wk'[w].plan = "sent" => wk'[w].job \in accepted'
          /\ wk'[w].pc \in Past /\ wk'[w].job.step > 1
               /\ (wk'[w].pc = "sending" \/ wk'[w].job.gen = gen')
               => Before(wk'[w].job) \in accepted'
    BY <1>0, <2>1, <2>3 DEF Lineage
  <2> QED
    BY <1>0, <1>4, <2>1, <2>2, <2>4 DEF Lineage, GenerationsInOrder, Before
<1> QED
  BY <1>0, <1>1, <1>4, <1>5, <1>6, <1>7, <1>8 DEF PInv, GenerationsInOrder

\* The scrubs, up to the last one.
LEMMA ScrubSteps ==
  ASSUME PInv, NEW p \in Ops,
         DeleteKeys(p) \/ DeleteMarkers(p) \/ DeleteStages(p) \/ PurgeDelayed(p) \/ ScrubStream(p)
  PROVE  PInv'
<1> DEFINE from == op[p]
<1> DEFINE to == op'[p]
<1>0. /\ PrivacyTypeOK /\ IInv /\ TypeOK /\ Exclusive /\ Reports /\ (stalls = 0 => Erased)
      /\ UNCHANGED <<profile, oplock, opfaults, outcome, drainedTo, accepted, gen, deleted>>
      /\ UNCHANGED <<lease, inflight, wk, stalled, src, world, got, faults, stalls, dlq>>
  BY DEF PInv, PrivacyTypeOK, IInv, DeleteKeys, DeleteMarkers, DeleteStages, PurgeDelayed,
         ScrubStream, OpOnly
<1>1. /\ \/ from = "keys" /\ to = "markers"
         \/ from = "markers" /\ to = "stages"
         \/ from = "stages" /\ to = "delayed"
         \/ from = "delayed" /\ to = "stream"
         \/ from = "stream" /\ to = "dlq"
      /\ OpGoto(p, to)
  BY <1>0 DEF PrivacyTypeOK, DeleteKeys, DeleteMarkers, DeleteStages, PurgeDelayed,
              ScrubStream, Step, OpGoto
<1>2. to \in OpPCs /\ from # "idle" /\ from \in Fenced /\ to \in Fenced
  BY <1>1 DEF OpPCs, DeletePCs, Fenced
<1>3. /\ \A q \in Ops \ {p} : op[q] = "idle" /\ op'[q] = "idle"
      /\ op' \in [Ops -> OpPCs] /\ oplock = p
      /\ \A steps : "idle" \notin steps =>
           /\ Reached(steps) <=> outcome = "erased" \/ from \in steps
           /\ Reached(steps)' <=> outcome = "erased" \/ to \in steps
  BY <1>0, <1>1, <1>2, OpFacts
<1>4. /\ \/ UNCHANGED <<queue, entry, owner, idle>>
         \/ /\ queue' = <<>> /\ idle' = {}
            /\ entry' = [i \in Ids |-> None] /\ owner' = [i \in Ids |-> None]
      /\ delayed' \subseteq delayed /\ stage' \in {stage, ErasedStages}
      /\ enqueued' \subseteq enqueued /\ blocked' \in {blocked, FALSE}
      /\ from = "keys" => ~blocked'
      /\ IF from = "markers" THEN enqueued' = {} ELSE enqueued' = enqueued
      /\ from = "markers" => UNCHANGED <<stage, delayed, entry>>
      /\ from = "stages" => stage' = ErasedStages
      /\ from = "stream" => \A i \in Ids : entry'[i] = None
  BY DEF DeleteKeys, DeleteMarkers, DeleteStages, PurgeDelayed, ScrubStream, Step
<1>5. retry' \in [Ids -> 0..MaxAttempts]
  <2>1. retry \in [Ids -> 0..MaxAttempts] /\ 0 \in 0..MaxAttempts
    BY <1>0, DeliveryAssumption DEF TypeOK
  <2>2. retry' = retry \/ retry' = [i \in Ids |-> IF entry[i] # None THEN 0 ELSE retry[i]]
    BY DEF DeleteKeys, DeleteMarkers, DeleteStages, PurgeDelayed, ScrubStream
  <2> QED
    BY <2>1, <2>2
<1>6. IInv'
  BY <1>0, <1>4, <1>5, ScrubIInv DEF TypeOK
<1>7. \A i \in Ids : entry'[i] \in {entry[i], None}
  BY <1>4
<1>8. Slots' /\ Dated' /\ InPlay' \subseteq InPlay /\ Reserved' = Reserved /\ (Fresh' => Fresh)
  BY <1>0, <1>4, <1>7, DataShrinks
<1>9. PrivacyTypeOK' /\ Exclusive' /\ Reports'
  <2>1. PrivacyTypeOK'
    BY <1>0, <1>3, <1>6 DEF PrivacyTypeOK, IInv
  <2>2. Exclusive' /\ Reports'
    BY <1>0, <1>2, <1>3 DEF Exclusive, Reports, OutcomeStands, Fenced, DeletePCs
  <2> QED
    BY <2>1, <2>2
<1>10. \A s \in Stages : stage'[s] \in {stage[s], "none"}
  BY <1>4 DEF ErasedStages
<1>11. ASSUME stalls' = 0 PROVE Erased'
  <2>1. Erased
    BY <1>0, <1>11
  <2> USE DEF AfterStream, AfterStages, AfterMarkers, AfterKeys, AfterWait
  <2>2. Reached(AfterWait)' => Reserved' = {}
    BY <1>1, <1>3, <1>8, <2>1 DEF Erased
  <2>3. Reached(AfterKeys)' => ~blocked'
    BY <1>1, <1>3, <1>4, <2>1 DEF Erased
  <2>4. Reached(AfterMarkers)' => enqueued' = {}
    BY <1>1, <1>3, <1>4, <2>1 DEF Erased
  <2>5. Reached(AfterStages)' => \A s \in Stages : stage'[s] \in {"none", "skipped"}
    <3>1. from = "stages" => \A s \in Stages : stage'[s] = "none"
      BY <1>4 DEF ErasedStages
    <3> QED
      BY <1>1, <1>3, <1>10, <2>1, <3>1 DEF Erased
  <2>6. Reached(AfterStream)' => \A i \in Ids : entry'[i] = None
    BY <1>1, <1>3, <1>4, <1>7, <2>1 DEF Erased
  <2> QED
    BY <1>0, <2>1, <2>2, <2>3, <2>4, <2>5, <2>6 DEF Erased
<1>12. ASSUME stalls' = 0, opfaults' = 0 PROVE Lineage' /\ GenerationsInOrder'
  <2>1. Lineage /\ GenerationsInOrder /\ Erased
    BY <1>0, <1>12 DEF PInv
  <2>2. ~Fresh'
    BY <1>2, <1>8, <2>1 DEF Lineage
  <2>3. Reserved' = {}
    BY <1>1, <1>3, <1>8, <2>1
       DEF Erased, AfterStream, AfterStages, AfterMarkers, AfterKeys, AfterWait
  <2>4. enqueued' = {} => \/ \A s \in Stages : stage'[s] # "sent"
                          \/ \E q \in Ops : op'[q] = "stages"
    <3>1. CASE from = "markers"
      BY <1>1, <3>1
    <3>2. CASE from = "stages"
      BY <1>4, <3>2 DEF ErasedStages
    <3>3. CASE from \notin {"markers", "stages"}
      <4>1. enqueued' = enqueued
        BY <1>4, <3>3
      <4> QED
        BY <1>3, <1>10, <2>1, <3>3, <4>1 DEF Lineage
    <3> QED
      BY <3>1, <3>2, <3>3
  <2>5. \A w \in Workers :
          /\ wk'[w].pc = "answer" /\ wk'[w].plan = "sent" => wk'[w].job \in accepted'
          /\ wk'[w].pc \in Past /\ wk'[w].job.step > 1
               /\ (wk'[w].pc = "sending" \/ wk'[w].job.gen = gen')
               => Before(wk'[w].job) \in accepted'
    BY <1>0, <2>1 DEF Lineage
  <2> QED
    BY <1>0, <2>1, <2>2, <2>3, <2>4, <2>5 DEF Lineage, GenerationsInOrder, Before
<1> QED
  BY <1>6, <1>8, <1>9, <1>11, <1>12 DEF PInv, GenerationsInOrder

\* The last scrub: the deletion reports success.
LEMMA ScrubDlqStep ==
  ASSUME PInv, NEW p \in Ops, ScrubDlq(p)
  PROVE  PInv'
<1>0. /\ PrivacyTypeOK /\ IInv /\ TypeOK /\ Exclusive /\ Reports /\ Slots /\ Dated
      /\ op[p] = "dlq" /\ op'[p] = "unlock" /\ OpGoto(p, "unlock") /\ "unlock" \in OpPCs
      /\ dlq' = {} /\ outcome' = "erased"
      /\ UNCHANGED <<profile, oplock, opfaults, drainedTo, accepted>>
      /\ UNCHANGED <<lease, inflight, wk, stalled, src, world, got, faults, stalls, gen,
                     queue, entry, owner, idle, retry, delayed, stage, enqueued, blocked, deleted>>
  BY DEF PInv, PrivacyTypeOK, IInv, ScrubDlq, Step, OpGoto, OpPCs
<1>1. IInv'
  BY <1>0, ScrubIInv DEF TypeOK
<1>2. /\ \A q \in Ops \ {p} : op[q] = "idle" /\ op'[q] = "idle"
      /\ op' \in [Ops -> OpPCs] /\ oplock = p
      /\ \A steps : "idle" \notin steps =>
           (Reached(steps) <=> outcome = "erased" \/ "dlq" \in steps)
  BY <1>0, OpFacts
<1>3. Slots' /\ Dated' /\ InPlay' \subseteq InPlay /\ Reserved' = Reserved
  BY <1>0, DataShrinks
<1>4. deleted /\ gen \in Nat
  BY <1>0 DEF Reports, Fenced, DeletePCs, TypeOK
<1>5. PrivacyTypeOK'
  BY <1>0, <1>1, <1>2, <1>4 DEF PrivacyTypeOK, IInv
<1>6. Exclusive' /\ Reports'
  BY <1>0, <1>2, <1>4 DEF Exclusive, Reports, OutcomeStands, Fenced, DeletePCs
<1>7. ASSUME stalls' = 0 PROVE Erased'
  <2>1. Erased
    BY <1>0, <1>7 DEF PInv
  <2>2. Reached(AfterWait) /\ Reached(AfterKeys) /\ Reached(AfterMarkers)
        /\ Reached(AfterStages) /\ Reached(AfterStream)
    BY <1>2 DEF AfterStream, AfterStages, AfterMarkers, AfterKeys, AfterWait
  <2>3. \A w \in Workers : wk[w].pc # "sending"
    BY <1>0, <2>1, <2>2 DEF Erased, Slots, NeedsSlot, Reserved
  <2> QED
    BY <1>0, <1>3, <2>1, <2>2, <2>3 DEF Erased
<1>8. ASSUME stalls' = 0, opfaults' = 0 PROVE Lineage' /\ GenerationsInOrder'
  <2>1. \A q \in Ops : op'[q] \in Fenced => \E r \in Ops : op[r] \in Fenced
    BY <1>0, <1>2 DEF Fenced, DeletePCs
  <2>2. \A q \in Ops : op[q] # "stages"
    BY <1>0, <1>2
  <2> QED
    BY <1>0, <1>3, <1>8, <2>1, <2>2, LineageKept
<1> QED
  BY <1>1, <1>3, <1>5, <1>6, <1>7, <1>8 DEF PInv, GenerationsInOrder

\* /start lifts the fence: jobs of the present generation may come up again.
LEMMA UnfenceStep ==
  ASSUME PInv, NEW p \in Ops, Unfence(p)
  PROVE  PInv'
<1>0. /\ PrivacyTypeOK /\ IInv /\ TypeOK /\ Exclusive /\ Reports /\ Slots /\ Dated
      /\ op[p] = "unfence" /\ op'[p] = "unlock" /\ OpGoto(p, "unlock") /\ "unlock" \in OpPCs
      /\ deleted' = FALSE /\ outcome' = "registered"
      /\ UNCHANGED <<profile, oplock, opfaults, drainedTo, accepted>>
      /\ UNCHANGED <<lease, inflight, wk, stalled, src, world, got, faults, stalls, gen, dlq,
                     queue, entry, owner, idle, retry, delayed, stage, enqueued, blocked>>
  BY DEF PInv, PrivacyTypeOK, IInv, Unfence, Step, OpGoto, OpPCs
<1>1. IInv'
  BY <1>0, ScrubIInv DEF TypeOK
<1>2. /\ \A q \in Ops \ {p} : op[q] = "idle" /\ op'[q] = "idle"
      /\ op' \in [Ops -> OpPCs] /\ oplock = p
      /\ \A steps : "idle" \notin steps =>
           (Reached(steps)' <=> outcome' = "erased" \/ "unlock" \in steps)
  BY <1>0, OpFacts
<1>3. Slots' /\ Dated' /\ InPlay' \subseteq InPlay /\ Reserved' = Reserved
  BY <1>0, DataShrinks
<1>4. PrivacyTypeOK'
  BY <1>0, <1>1, <1>2 DEF PrivacyTypeOK, IInv
<1>5. Exclusive' /\ Reports'
  BY <1>0, <1>2 DEF Exclusive, Reports, OutcomeStands, Fenced, DeletePCs
<1>6. ASSUME stalls' = 0 PROVE Erased'
  <2>1. ~Reached(AfterWait)' /\ ~Reached(AfterKeys)' /\ ~Reached(AfterMarkers)'
        /\ ~Reached(AfterStages)' /\ ~Reached(AfterStream)'
    BY <1>0, <1>2 DEF AfterStream, AfterStages, AfterMarkers, AfterKeys, AfterWait
  <2> QED
    BY <1>0, <1>6, <2>1 DEF Erased, PInv
<1>7. ASSUME stalls' = 0, opfaults' = 0 PROVE Lineage' /\ GenerationsInOrder'
  <2>1. \A q \in Ops : op'[q] \notin Fenced /\ op[q] # "stages"
    BY <1>0, <1>2 DEF Fenced, DeletePCs
  <2> QED
    BY <1>0, <1>3, <1>7, <2>1, LineageKept
<1> QED
  BY <1>1, <1>3, <1>4, <1>5, <1>6, <1>7 DEF PInv, GenerationsInOrder

LEMMA StepPInv == PInv /\ [PrivacyNext]_allvars => PInv'
<1> SUFFICES ASSUME PInv, [PrivacyNext]_allvars PROVE PInv'
  OBVIOUS
<1>1. CASE UNCHANGED allvars
  <2>1. \A steps : Reached(steps)' <=> Reached(steps)
    BY <1>1 DEF allvars, pvars, Reached
  <2>2. UNCHANGED <<profile, oplock, op, opfaults, outcome, drainedTo, accepted>>
        /\ UNCHANGED vars
    BY <1>1 DEF allvars, pvars
  <2>3. IInv'
    BY <2>2, StepIInv DEF PInv
  <2>4. PrivacyTypeOK' /\ Exclusive' /\ Reports'
    BY <2>2, <2>3
       DEF PInv, PrivacyTypeOK, Exclusive, Reports, OutcomeStands, IInv, vars, redis
  <2> QED
    BY <2>1, <2>2, <2>4, OpsOnly
<1> QED
  BY <1>1, DeliverStep, LockSteps, FenceStep, ScrubSteps, ScrubDlqStep, UnfenceStep
     DEF PrivacyNext, Deletion, Start

THEOREM PrivacyInvariant == PrivacySpec => []PInv
BY InitPInv, StepPInv, PTL DEF PrivacySpec

\* Type correctness: no deletion or registration takes a key, row or lock out of its
\* type, and no generation but the bound's is drawn.
THEOREM PrivacyTypeCorrect == PrivacySpec => []PrivacyTypeOK
<1>1. PInv => PrivacyTypeOK
  BY DEF PInv
<1> QED
  BY <1>1, PrivacyInvariant, PTL

\* However many consumers send, die and come back while deletions and registrations
\* start, fail half way and follow one another: no request to Telegram is under way for
\* a job older than the last deletion that has waited for the slots.
THEOREM NoSendAcross == PrivacySpec => []NoSendAcrossErasure
<1>1. PInv => NoSendAcrossErasure
  BY DEF PInv, Erased, NoSendAcrossErasure
<1> QED
  BY <1>1, PrivacyInvariant, PTL

\* What a successful deletion emptied stays empty while it stands, whatever consumers
\* still hold of the old jobs.
THEOREM StoresStayEmpty == PrivacySpec => []ErasedStoresStayEmpty
<1>1. PInv => ErasedStoresStayEmpty
  <2> SUFFICES ASSUME PInv, stalls = 0, outcome = "erased"
               PROVE  /\ \A i \in Ids : entry[i] = None
                      /\ dlq = {} /\ enqueued = {} /\ ~blocked
                      /\ \A s \in Stages : stage[s] \in {"none", "skipped"}
    BY DEF ErasedStoresStayEmpty
  <2>1. Erased /\ \A steps : Reached(steps)
    BY DEF PInv, Reached
  <2> QED
    BY <2>1 DEF Erased
<1> QED
  BY <1>1, PrivacyInvariant, PTL

\* What an operation reported stays true until another one starts to change it.
THEOREM Stands == PrivacySpec => []OutcomeStands
<1>1. PInv => OutcomeStands
  BY DEF PInv, Reports
<1> QED
  BY <1>1, PrivacyInvariant, PTL

\* In each generation the stages arrive in order, unless an operation died half-way or
\* a consumer was suspended beyond its lease.
THEOREM InOrder == PrivacySpec => []GenerationsInOrder
<1>1. PInv => GenerationsInOrder
  BY DEF PInv
<1> QED
  BY <1>1, PrivacyInvariant, PTL
=============================================================================
