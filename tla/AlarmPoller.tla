---------------------------- MODULE AlarmPoller ----------------------------
(***************************************************************************)
(* The official air-raid alarm, services/ukrainealarm.py: a loop of the    *)
(* worker polls the alarm API and keeps its answer in a Redis key with a   *)
(* time to live, and the source half of the worker reads that key          *)
(* (check_official_air_alarm) to decide what a post is worth.              *)
(*                                                                         *)
(* A poll asks for the cheap action counter first.  While the counter      *)
(* stands still the key is only refreshed; otherwise, and every half of    *)
(* the time to live, the alerts of the region are read and written.  After *)
(* a long silence the configured failsafe value is written instead.  Every *)
(* await of the loop is a step boundary; time passes in ticks.             *)
(***************************************************************************)
EXTENDS Integers

CONSTANTS
  Failsafe,       \* OFFICIAL_ALARM_FAILSAFE (TRUE in the code)
  RegionGiven,    \* whether UKRAINEALARM_REGION_ID is configured
  Ttl,            \* state_ttl (90 s in the code)
  Half,           \* state_ttl / 2
  FailsafeAfter,  \* state_ttl * 2
  Interval,       \* poll_interval (15 s in the code)
  MaxWait,        \* ticks an HTTP request or a Redis call may take before it raises
  None,           \* no action counter
  MaxIndex,       \* bound: actions the API publishes
  MaxOutages,     \* bound: how often the API becomes unreachable
  MaxRestarts,    \* bound: deaths of the worker process
  MaxFaults       \* bound: Redis calls that raise

ASSUME AlarmAssumption ==
  /\ Failsafe \in BOOLEAN /\ RegionGiven \in BOOLEAN
  /\ {Ttl, Half, FailsafeAfter, Interval, MaxWait} \subseteq Nat \ {0}
  /\ Half < Ttl /\ Ttl < FailsafeAfter
  /\ {MaxIndex, MaxOutages, MaxRestarts, MaxFaults} \subseteq Nat
  /\ None \notin Nat

VARIABLES
  at,         \* the alarm of the region after each action; the history of the API
  index,      \* lastActionIndex of the API
  up,         \* the API answers, and its answers are well formed
  key,        \* official_alarm_status:odesa and the ticks it has to live
  pc,         \* where the loop is
  timer,      \* ticks the current sleep or call may still take
  region,     \* whether the poller knows the id of the region
  seen,       \* the action counter of this poll
  read,       \* the alarm this poll has read
  lastIndex,  \* _last_index
  lastOk,     \* ticks since _last_success_ts, at most FailsafeAfter
  silent,     \* ticks since a poll of any process last succeeded, at most FailsafeAfter
  agreed,     \* ticks for which the alarm has been equal to Failsafe, at most Limit
  outages, restarts, faults

world  == <<at, index, up, outages>>
poller == <<pc, timer, region, seen, read, lastIndex, lastOk>>
vars   == <<world, key, poller, silent, agreed, restarts, faults>>

Never  == -1              \* _last_success_ts = 0.0
Limit  == Ttl + MaxWait
Absent == [value |-> FALSE, ttl |-> 0]
Steps  == {"down", "nap", "region", "status", "refresh", "alerts", "write", "failsafe"}

\* The types; and the cheap refresh is only reached by a process that has read the
\* alarm, at the counter it has just seen.
TypeOK ==
  /\ at \in [0..MaxIndex -> BOOLEAN] /\ index \in 0..MaxIndex /\ up \in BOOLEAN
  /\ key \in [value : BOOLEAN, ttl : 0..Ttl]
  /\ pc \in Steps /\ timer \in 0..(Interval + MaxWait)
  /\ region \in BOOLEAN /\ read \in BOOLEAN
  /\ {seen, lastIndex} \subseteq 0..MaxIndex \cup {None}
  /\ lastOk \in Never..FailsafeAfter /\ silent \in 0..FailsafeAfter
  /\ agreed \in 0..Limit
  /\ outages \in 0..MaxOutages /\ restarts \in 0..MaxRestarts /\ faults \in 0..MaxFaults
  /\ pc = "refresh" => lastOk \in 0..FailsafeAfter /\ seen = lastIndex

Init ==
  /\ at \in [0..MaxIndex -> BOOLEAN] /\ index = 0 /\ up = TRUE
  /\ key = Absent
  /\ pc = "nap" /\ timer = 0
  /\ region = RegionGiven /\ seen = None /\ read = FALSE
  /\ lastIndex = None /\ lastOk = Never
  /\ silent = FailsafeAfter /\ agreed = 0
  /\ outages = 0 /\ restarts = 0 /\ faults = 0

Alarm == at[index]

Goto(step) ==
  /\ pc' = step
  /\ timer' = IF step = "nap" THEN Interval ELSE MaxWait

Lower(x, y) == IF x < y THEN x ELSE y

Keeping(value) == [value |-> value, ttl |-> Ttl]

\* What the source half reads: the key, or the failsafe once it has expired.
Official == IF key.ttl > 0 THEN key.value ELSE Failsafe

-----------------------------------------------------------------------------
(* The loop. *)

\* The sleep between two polls is over.
BeginPoll ==
  /\ pc = "nap" /\ timer = 0
  /\ Goto(IF region THEN "status" ELSE "region")
  /\ UNCHANGED <<world, key, region, seen, read, lastIndex, lastOk, silent, agreed,
                 restarts, faults>>

\* Mutation: the failsafe comes as soon as the key has expired.
KeepsStateForTtl == lastOk # Never /\ lastOk < Ttl

\* A poll fails: the last known state is kept until it is FailsafeAfter old.  A
\* process that has not succeeded yet knows no state to keep.
KeepsState == lastOk # Never /\ lastOk < FailsafeAfter

Fails == Goto(IF KeepsState THEN "nap" ELSE "failsafe")

GetRegions ==
  /\ pc = "region"
  /\ \/ up /\ region' = TRUE /\ Goto("status")
     \/ ~up /\ Fails /\ UNCHANGED region
  /\ UNCHANGED <<world, key, seen, read, lastIndex, lastOk, silent, agreed,
                 restarts, faults>>

\* Mutation: an unreachable counter counts as an unchanged one.
NeedFullIfKnown(i) == (i # None /\ i # lastIndex) \/ lastOk >= Half
\* Mutation: the age of the last reading is not looked at.
NeedFullOnChange(i) == i = None \/ i # lastIndex

\* The counter has moved, is unknown, or the state was last read too long ago.
NeedFull(i) == i = None \/ i # lastIndex \/ lastOk >= Half

GetStatus ==
  /\ pc = "status"
  /\ seen' = IF up THEN index ELSE None
  /\ Goto(IF NeedFull(seen') THEN "alerts" ELSE "refresh")
  /\ UNCHANGED <<world, key, region, read, lastIndex, lastOk, silent, agreed,
                 restarts, faults>>

Extended == IF key.ttl > 0 THEN Keeping(key.value) ELSE key

\* EXPIRE answers 0 when the key has gone.
Refresh ==
  /\ pc = "refresh"
  /\ key' = Extended
  /\ \/ key.ttl > 0 /\ silent' = 0 /\ Goto("nap")
     \/ key.ttl = 0 /\ UNCHANGED silent /\ Goto("alerts")
  /\ UNCHANGED <<world, region, seen, read, lastIndex, lastOk, agreed, restarts, faults>>

GetAlerts ==
  /\ pc = "alerts"
  /\ \/ up /\ read' = Alarm /\ Goto("write")
     \/ ~up /\ UNCHANGED read /\ Fails
  /\ UNCHANGED <<world, key, region, seen, lastIndex, lastOk, silent, agreed,
                 restarts, faults>>

\* The counter that goes with the state is the one read before it.
Remembered == IF seen = None THEN lastIndex ELSE seen

WriteState ==
  /\ pc = "write"
  /\ key' = Keeping(read)
  /\ lastOk' = 0 /\ lastIndex' = Remembered /\ silent' = 0
  /\ Goto("nap")
  /\ UNCHANGED <<world, region, seen, read, agreed, restarts, faults>>

WriteFailsafe ==
  /\ pc = "failsafe"
  /\ key' = Keeping(Failsafe)
  /\ Goto("nap")
  /\ UNCHANGED <<world, region, seen, read, lastIndex, lastOk, silent, agreed,
                 restarts, faults>>

\* A process dies, and starts again knowing nothing.
Dies ==
  /\ pc' = "down" /\ timer' = 0
  /\ region' = RegionGiven /\ seen' = None /\ read' = FALSE
  /\ lastIndex' = None /\ lastOk' = Never

\* EXPIRE or SET raises, before or after Redis has carried it out.  A failsafe that
\* cannot be written ends the loop, and with it the worker.
RedisRaises ==
  /\ faults < MaxFaults /\ faults' = faults + 1
  /\ \/ /\ pc = "refresh" /\ Fails /\ key' \in {key, Extended}
        /\ UNCHANGED <<region, seen, read, lastIndex, lastOk>>
     \/ /\ pc = "write" /\ Fails /\ key' \in {key, Keeping(read)}
        /\ UNCHANGED <<region, seen, read, lastIndex, lastOk>>
     \/ /\ pc = "failsafe" /\ Dies /\ key' \in {key, Keeping(Failsafe)}
  /\ UNCHANGED <<world, silent, agreed, restarts>>

Crash ==
  /\ restarts < MaxRestarts /\ restarts' = restarts + 1
  /\ pc # "down" /\ Dies
  /\ UNCHANGED <<world, key, silent, agreed, faults>>

Boot ==
  /\ pc = "down"
  /\ pc' = "nap" /\ timer' = 0
  /\ UNCHANGED <<world, key, region, seen, read, lastIndex, lastOk, silent, agreed,
                 restarts, faults>>

-----------------------------------------------------------------------------
(* The API and the clock. *)

\* An alarm starts or ends somewhere, in this region or in another one.
Act ==
  /\ index < MaxIndex /\ index' = index + 1
  /\ agreed' = IF at[index + 1] = Alarm THEN agreed ELSE 0
  /\ UNCHANGED <<at, up, outages, key, poller, silent, restarts, faults>>

GoesDown ==
  /\ up /\ outages < MaxOutages
  /\ up' = FALSE /\ outages' = outages + 1
  /\ UNCHANGED <<at, index, key, poller, silent, agreed, restarts, faults>>

ComesBack ==
  /\ ~up /\ up' = TRUE
  /\ UNCHANGED <<at, index, outages, key, poller, silent, agreed, restarts, faults>>

Tick ==
  /\ pc = "down" \/ timer > 0
  /\ timer' = IF pc = "down" THEN 0 ELSE timer - 1
  /\ key' = IF key.ttl > 1 THEN [value |-> key.value, ttl |-> key.ttl - 1] ELSE Absent
  /\ lastOk' = IF lastOk = Never THEN Never ELSE Lower(lastOk + 1, FailsafeAfter)
  /\ silent' = Lower(silent + 1, FailsafeAfter)
  /\ agreed' = IF Alarm = Failsafe THEN Lower(agreed + 1, Limit) ELSE 0
  /\ UNCHANGED <<world, pc, region, seen, read, lastIndex, restarts, faults>>

Loop ==
  \/ BeginPoll \/ GetRegions \/ GetStatus \/ Refresh \/ GetAlerts
  \/ WriteState \/ WriteFailsafe \/ Boot

Next == Loop \/ RedisRaises \/ Crash \/ Act \/ GoesDown \/ ComesBack \/ Tick

Spec == Init /\ [][Next]_vars

\* The event loop runs the poller, and time passes.
FairSpec == Spec /\ WF_vars(Loop) /\ WF_vars(Tick)

-----------------------------------------------------------------------------
(* Properties. *)

\* The worker never acts for long on a state that the failsafe would correct: once
\* the region has been for Ttl + MaxWait ticks in the state the failsafe stands for
\* (an alarm, by default), the source half reads that state, whatever failed.
StaleStateExpires == agreed >= Limit => Official = Failsafe

\* EXPIRE never prolongs a value that is not the region's alarm at the action the
\* poll has just seen: not one written before a change, and not a failsafe.
RefreshConfirms ==
  [][pc = "refresh" /\ pc' = "nap" /\ key.ttl > 0 => key'.value = at[seen]]_vars

\* A process that has once read the alarm overwrites it with the failsafe only when
\* no poll has succeeded for nearly the whole threshold.  What is missing is how long
\* an unchanged counter may stand in for a reading.
FailsafeNeedsSilence ==
  [][pc = "failsafe" /\ pc' = "nap" /\ lastOk # Never
       => silent > FailsafeAfter - Half - MaxWait]_vars

\* _maybe_failsafe: "if the API is unreachable for longer than the threshold, switch
\* the failsafe on".
FailsafeWaitsForThreshold ==
  [][pc = "failsafe" /\ pc' = "nap" => silent >= FailsafeAfter]_vars

\* Once the API stays reachable, the worker reads the region's alarm for good.
EventuallyShown == <>[]up => <>[](Official = Alarm)
=============================================================================
