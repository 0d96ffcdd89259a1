-------------------------- MODULE WorkerLoopsProofs --------------------------
(***************************************************************************)
(* Two results about the loops of the worker, for every value of the       *)
(* constants: what the official alarm poller promises, and what            *)
(* supervise() promises for whatever loops it is given.                    *)
(*                                                                         *)
(* THE POLLER                                                              *)
(*                                                                         *)
(* The poller is well typed, the cheap refresh of the key never prolongs a *)
(* value that is not the alarm it stands for, and a state that the         *)
(* failsafe would correct expires, whatever the times, outages, restarts   *)
(* and failing Redis calls.                                                *)
(*                                                                         *)
(* Why the refresh is right: a process that has read the alarm remembers   *)
(* the counter it read before (Ordered, ReadLater), so that a counter      *)
(* which has not moved vouches for the key (Vouched).  The failsafe only   *)
(* replaces a state that is too old to be vouched for (TooOld).            *)
(*                                                                         *)
(* Why a stale state expires: what is about to be written, or about to be  *)
(* prolonged, was the alarm when the call began, which may last MaxWait;   *)
(* the key then lives for Ttl, and nothing prolongs it again once the      *)
(* alarm has changed (Bounded).                                            *)
(*                                                                         *)
(* Why the failsafe comes late: an unchanged counter stands in for a       *)
(* reading only while that reading is younger than Half, so that the age   *)
(* of the reading and the silence stay close to each other (Aged).         *)
(*                                                                         *)
(* THE SUPERVISOR                                                          *)
(*                                                                         *)
(* FailureIsReported is not inductive: it says nothing while the outcome   *)
(* is open.  What makes it true is that a loop that has raised stays       *)
(* raised until the supervisor looks (Raised), and that nothing has run    *)
(* before the loops are started (NotBegun).                                *)
(***************************************************************************)
EXTENDS AlarmPoller, Supervision, TLAPS

-----------------------------------------------------------------------------
(* The poller.                                                             *)

\* A counter the poller knows was the API's at some time, and it knows none before
\* its first success.
Ordered ==
  /\ lastOk = Never => lastIndex = None
  /\ lastIndex # None => lastIndex <= index
  /\ seen # None => seen <= index

\* The alarm that is about to be written was read after both counters.
ReadLater ==
  pc = "write" => \E k \in 0..index :
    /\ read = at[k]
    /\ seen # None => seen <= k
    /\ lastIndex # None => lastIndex <= k

\* As long as the counter has not moved, what the key holds is the alarm.
Vouched == key.ttl > 0 /\ KeepsState /\ lastIndex = index => key.value = Alarm

TooOld == pc = "failsafe" => ~KeepsState

\* The same for the counter of this poll, which may have moved since.
Refreshable == pc = "refresh" /\ key.ttl > 0 => key.value = at[seen]

IInv == TypeOK /\ Ordered /\ ReadLater /\ Vouched /\ TooOld /\ Refreshable

\* A value other than the failsafe, read or written, bounds how long the region has
\* agreed with the failsafe.
Bounded ==
  /\ Alarm # Failsafe => agreed = 0
  /\ pc = "write" /\ read # Failsafe => agreed + timer <= MaxWait
  /\ pc = "refresh" /\ key.ttl > 0 /\ key.value # Failsafe => agreed + timer <= MaxWait
  /\ key.ttl > 0 /\ key.value # Failsafe => agreed + key.ttl <= Limit

LEMMA Numbers ==
  /\ Ttl \in Nat /\ Half \in Nat /\ FailsafeAfter \in Nat /\ Interval \in Nat /\ MaxWait \in Nat
  /\ 0 < Half /\ Half < Ttl /\ Ttl < FailsafeAfter /\ 0 < Interval /\ 0 < MaxWait
  /\ MaxIndex \in Nat /\ MaxOutages \in Nat /\ MaxRestarts \in Nat /\ MaxFaults \in Nat
  /\ Failsafe \in BOOLEAN /\ RegionGiven \in BOOLEAN
  /\ None \notin Nat /\ None \notin 0..MaxIndex
  BY AlarmAssumption

\* The initial states: nothing read, nothing written.
LEMMA InitIInv == Init => IInv
<1> SUFFICES ASSUME Init PROVE IInv
  OBVIOUS
<1>1. /\ Absent \in [value : BOOLEAN, ttl : 0..Ttl]
      /\ 0 \in 0..(Interval + MaxWait) /\ 0 \in 0..MaxIndex
      /\ 0 \in 0..MaxOutages /\ 0 \in 0..MaxRestarts /\ 0 \in 0..MaxFaults
      /\ Never \in Never..FailsafeAfter /\ FailsafeAfter \in 0..FailsafeAfter
      /\ 0 \in 0..Limit
  BY Numbers DEF Absent, Never, Limit
<1>2. TypeOK
  BY <1>1, Numbers DEF Init, TypeOK, Steps
<1>3. Ordered /\ ReadLater /\ Vouched /\ TooOld /\ Refreshable
  BY Numbers DEF Init, Ordered, ReadLater, Vouched, TooOld, Refreshable, Absent, KeepsState, Never
<1>4. QED
  BY <1>2, <1>3 DEF IInv

\* A step to another point of the loop sets its timer.
LEMMA GotoFacts ==
  ASSUME NEW step \in Steps, Goto(step)
  PROVE pc' = step /\ pc' \in Steps /\ timer' \in 0..(Interval + MaxWait)
  BY Numbers DEF Goto

LEMMA KeyFacts ==
  ASSUME NEW v \in BOOLEAN, NEW t \in 0..Ttl
  PROVE /\ [value |-> v, ttl |-> t] \in [value : BOOLEAN, ttl : 0..Ttl]
        /\ [value |-> v, ttl |-> t].value = v
        /\ [value |-> v, ttl |-> t].ttl = t
  OBVIOUS

LEMMA KeepingFacts ==
  ASSUME NEW value \in BOOLEAN
  PROVE /\ Keeping(value) \in [value : BOOLEAN, ttl : 0..Ttl]
        /\ Keeping(value).value = value /\ Keeping(value).ttl = Ttl
  BY Numbers DEF Keeping

LEMMA ExtendedFacts ==
  ASSUME TypeOK
  PROVE /\ Extended \in [value : BOOLEAN, ttl : 0..Ttl]
        /\ Extended.value = key.value
        /\ Extended.ttl > 0 => key.ttl > 0
  BY KeepingFacts, Numbers DEF TypeOK, Extended

\* The poll ends early: the state is kept, or the failsafe is due.
LEMMA FailsFacts ==
  ASSUME TypeOK, Fails
  PROVE /\ pc' \in {"nap", "failsafe"} /\ timer' \in 0..(Interval + MaxWait)
        /\ pc' = "failsafe" => ~KeepsState
  BY Numbers DEF TypeOK, Fails, Goto

LEMMA DiesFacts ==
  ASSUME Dies
  PROVE /\ pc' = "down" /\ timer' \in 0..(Interval + MaxWait)
        /\ region' \in BOOLEAN /\ seen' = None /\ read' = FALSE
        /\ lastIndex' = None /\ lastOk' = Never
  BY Numbers DEF Dies

\* Every step of the loop keeps the invariant.
LEMMA LoopSteps == IInv /\ Loop => IInv'
<1> SUFFICES ASSUME IInv, Loop PROVE IInv'
  OBVIOUS
<1> USE DEF IInv, world
<1>1. CASE BeginPoll
  <2>1. pc' \in {"status", "region"} /\ timer' \in 0..(Interval + MaxWait)
    BY <1>1, GotoFacts DEF BeginPoll, Goto, Steps
  <2>2. TypeOK'
    BY <1>1, <2>1 DEF BeginPoll, TypeOK, Steps
  <2>3. QED
    BY <1>1, <2>1, <2>2
    DEF BeginPoll, Ordered, ReadLater, Vouched, TooOld, Refreshable, KeepsState, Alarm
<1>2. CASE GetRegions
  <2>1. /\ pc' \in {"status", "nap", "failsafe"} /\ timer' \in 0..(Interval + MaxWait)
        /\ pc' = "failsafe" => ~KeepsState
        /\ region' \in BOOLEAN
    BY <1>2, GotoFacts, FailsFacts DEF GetRegions, Goto, Steps, TypeOK
  <2>2. TypeOK'
    BY <1>2, <2>1 DEF GetRegions, TypeOK, Steps
  <2>3. QED
    BY <1>2, <2>1, <2>2
    DEF GetRegions, Ordered, ReadLater, Vouched, TooOld, Refreshable, KeepsState, Alarm
<1>3. CASE GetStatus
  <2>1. /\ pc' \in {"alerts", "refresh"} /\ timer' \in 0..(Interval + MaxWait)
        /\ pc' = "refresh" <=> ~NeedFull(seen')
    BY <1>3, GotoFacts DEF GetStatus, Goto, Steps
  <2>2. seen' \in {index, None}
    BY <1>3 DEF GetStatus
  <2>3. pc' = "refresh" => /\ seen' = index /\ seen' = lastIndex
                           /\ lastOk \in 0..FailsafeAfter /\ KeepsState
    <3>1. SUFFICES ASSUME pc' = "refresh"
                   PROVE /\ seen' = index /\ seen' = lastIndex
                         /\ lastOk \in 0..FailsafeAfter /\ KeepsState
      OBVIOUS
    <3>2. seen' # None /\ seen' = lastIndex /\ ~(lastOk >= Half)
      BY <2>1, <3>1 DEF NeedFull
    <3>3. lastOk # Never
      BY <2>2, <3>2, Numbers DEF Ordered
    <3>4. lastOk \in Never..FailsafeAfter /\ lastIndex \in 0..MaxIndex \cup {None}
      BY DEF TypeOK
    <3>5. lastOk \in 0..FailsafeAfter /\ lastOk < FailsafeAfter
      <4>1. lastOk \in 0..FailsafeAfter
        BY <3>3, <3>4, Numbers DEF Never
      <4>2. lastOk < Half
        BY <3>2, <4>1, Numbers
      <4>3. QED
        BY <4>1, <4>2, Numbers
    <3>6. QED
      BY <2>2, <3>2, <3>3, <3>5 DEF KeepsState
  <2>4. TypeOK'
    BY <1>3, <2>1, <2>2, <2>3 DEF GetStatus, TypeOK, Steps
  <2>5. Ordered'
    BY <1>3, <2>2 DEF GetStatus, Ordered, TypeOK
  <2>6. Refreshable'
    BY <1>3, <2>3 DEF GetStatus, Refreshable, Vouched, Alarm
  <2>7. QED
    BY <1>3, <2>1, <2>4, <2>5, <2>6
    DEF GetStatus, ReadLater, Vouched, TooOld, KeepsState, Alarm
<1>4. CASE Refresh
  <2>1. /\ pc' \in {"nap", "alerts"} /\ timer' \in 0..(Interval + MaxWait)
        /\ silent' \in 0..FailsafeAfter
    BY <1>4, GotoFacts, Numbers DEF Refresh, Goto, Steps, TypeOK
  <2>2. TypeOK'
    BY <1>4, <2>1, ExtendedFacts DEF Refresh, TypeOK, Steps
  <2>3. Vouched'
    BY <1>4, ExtendedFacts DEF Refresh, Vouched, KeepsState, Alarm
  <2>4. QED
    BY <1>4, <2>1, <2>2, <2>3
    DEF Refresh, Ordered, ReadLater, TooOld, Refreshable
<1>5. CASE GetAlerts
  <2>1. /\ pc' \in {"write", "nap", "failsafe"} /\ timer' \in 0..(Interval + MaxWait)
        /\ pc' = "failsafe" => ~KeepsState
        /\ pc' = "write" => read' = Alarm
        /\ read' \in BOOLEAN
    BY <1>5, GotoFacts, FailsFacts DEF GetAlerts, Goto, Steps, TypeOK, Alarm
  <2>2. TypeOK'
    BY <1>5, <2>1 DEF GetAlerts, TypeOK, Steps
  <2>3. ReadLater'
    BY <1>5, <2>1 DEF GetAlerts, ReadLater, Ordered, TypeOK, Alarm
  <2>4. QED
    BY <1>5, <2>1, <2>2, <2>3
    DEF GetAlerts, Ordered, Vouched, TooOld, Refreshable, KeepsState, Alarm
<1>6. CASE WriteState
  <2>1. pc' = "nap" /\ timer' \in 0..(Interval + MaxWait)
    BY <1>6, GotoFacts DEF WriteState, Steps
  <2>2. /\ key' \in [value : BOOLEAN, ttl : 0..Ttl] /\ key'.value = read
    BY <1>6, KeepingFacts DEF WriteState, TypeOK
  <2>3. lastIndex' \in {seen, lastIndex} /\ (lastIndex' = None => lastIndex = None)
    BY <1>6 DEF WriteState, Remembered
  <2>4. TypeOK'
    <3>1. 0 \in Never..FailsafeAfter /\ 0 \in 0..FailsafeAfter
      BY Numbers DEF Never
    <3>2. QED
      BY <1>6, <2>1, <2>2, <2>3, <3>1 DEF WriteState, TypeOK, Steps
  <2>5. Ordered'
    BY <1>6, <2>3 DEF WriteState, Ordered, Never
  <2>6. Vouched'
    <3>1. SUFFICES ASSUME lastIndex' = index PROVE read = at[index]
      BY <1>6, <2>2 DEF WriteState, Vouched, Alarm
    <3>2. PICK k \in 0..index : /\ read = at[k]
                                /\ seen # None => seen <= k
                                /\ lastIndex # None => lastIndex <= k
      BY <1>6 DEF WriteState, ReadLater
    <3>3. index \in 0..MaxIndex
      BY DEF TypeOK
    <3>4. index # None
      BY <3>3, Numbers
    <3>5. index <= k
      BY <2>3, <3>1, <3>2, <3>4
    <3>6. k = index
      BY <3>2, <3>3, <3>5, Numbers
    <3>7. QED
      BY <3>2, <3>6
  <2>7. QED
    BY <2>1, <2>4, <2>5, <2>6 DEF ReadLater, TooOld, Refreshable
<1>7. CASE WriteFailsafe
  <2>1. pc' = "nap" /\ timer' \in 0..(Interval + MaxWait)
    BY <1>7, GotoFacts DEF WriteFailsafe, Steps
  <2>2. TypeOK'
    BY <1>7, <2>1, KeepingFacts, Numbers DEF WriteFailsafe, TypeOK, Steps
  <2>3. ~KeepsState'
    BY <1>7 DEF WriteFailsafe, TooOld, KeepsState
  <2>4. QED
    BY <1>7, <2>1, <2>2, <2>3
    DEF WriteFailsafe, Ordered, ReadLater, Vouched, TooOld, Refreshable
<1>8. CASE Boot
  <2>1. TypeOK'
    BY <1>8, Numbers DEF Boot, TypeOK, Steps
  <2>2. QED
    BY <1>8, <2>1
    DEF Boot, Ordered, ReadLater, Vouched, TooOld, Refreshable, KeepsState, Alarm
<1>9. QED
  BY <1>1, <1>2, <1>3, <1>4, <1>5, <1>6, <1>7, <1>8 DEF Loop

\* So do failures, restarts, the API and the clock.
LEMMA OtherSteps ==
  IInv /\ (RedisRaises \/ Crash \/ Act \/ GoesDown \/ ComesBack \/ Tick) => IInv'
<1> SUFFICES ASSUME IInv, RedisRaises \/ Crash \/ Act \/ GoesDown \/ ComesBack \/ Tick
             PROVE IInv'
  OBVIOUS
<1> USE DEF IInv, world, poller
<1>1. CASE RedisRaises
  <2>1. faults' \in 0..MaxFaults
    BY <1>1, Numbers DEF RedisRaises, TypeOK
  <2>2. CASE pc = "refresh" /\ Fails /\ key' \in {key, Extended}
             /\ UNCHANGED <<region, seen, read, lastIndex, lastOk>>
    <3>1. TypeOK'
      BY <1>1, <2>1, <2>2, FailsFacts, ExtendedFacts DEF RedisRaises, TypeOK, Steps
    <3>2. key'.value = key.value /\ (key'.ttl > 0 => key.ttl > 0)
      BY <2>2, ExtendedFacts
    <3>3. QED
      BY <1>1, <2>2, <3>1, <3>2, FailsFacts
      DEF RedisRaises, Ordered, ReadLater, Vouched, TooOld, Refreshable, KeepsState, Alarm
  <2>3. CASE pc = "write" /\ Fails /\ key' \in {key, Keeping(read)}
             /\ UNCHANGED <<region, seen, read, lastIndex, lastOk>>
    <3>1. TypeOK'
      BY <1>1, <2>1, <2>3, FailsFacts, KeepingFacts DEF RedisRaises, TypeOK, Steps
    <3>2. Vouched'
      <4>1. CASE key' = key
        BY <1>1, <2>3, <4>1 DEF RedisRaises, Vouched, KeepsState, Alarm
      <4>2. CASE key' = Keeping(read)
        <5>1. key'.value = read
          BY <4>2, KeepingFacts DEF TypeOK
        <5>2. SUFFICES ASSUME lastIndex = index PROVE read = at[index]
          BY <1>1, <2>3, <5>1 DEF RedisRaises, Vouched, Alarm
        <5>3. PICK k \in 0..index : read = at[k] /\ (lastIndex # None => lastIndex <= k)
          BY <2>3 DEF ReadLater
        <5>4. index \in 0..MaxIndex /\ index # None
          BY Numbers DEF TypeOK
        <5>5. k = index
          BY <5>2, <5>3, <5>4, Numbers
        <5>6. QED
          BY <5>3, <5>5
      <4>3. QED
        BY <2>3, <4>1, <4>2
    <3>3. QED
      BY <1>1, <2>3, <3>1, <3>2, FailsFacts
      DEF RedisRaises, Ordered, ReadLater, TooOld, Refreshable, KeepsState
  <2>4. CASE pc = "failsafe" /\ Dies /\ key' \in {key, Keeping(Failsafe)}
    <3>1. TypeOK'
      BY <1>1, <2>1, <2>4, DiesFacts, KeepingFacts, Numbers
      DEF RedisRaises, TypeOK, Steps, Never
    <3>2. QED
      BY <1>1, <2>4, <3>1, DiesFacts
      DEF RedisRaises, Ordered, ReadLater, Vouched, TooOld, Refreshable, KeepsState
  <2>5. QED
    BY <1>1, <2>2, <2>3, <2>4 DEF RedisRaises
<1>2. CASE Crash
  <2>1. TypeOK'
    BY <1>2, DiesFacts, Numbers DEF Crash, TypeOK, Steps, Never
  <2>2. QED
    BY <1>2, <2>1, DiesFacts
    DEF Crash, Ordered, ReadLater, Vouched, TooOld, Refreshable, KeepsState
<1>3. CASE Act
  <2>1. index \in 0..MaxIndex /\ index' = index + 1 /\ index' \in 0..MaxIndex
    BY <1>3, Numbers DEF Act, TypeOK
  <2>2. agreed' \in {agreed, 0} /\ 0 \in 0..Limit
    BY <1>3, Numbers DEF Act, Limit
  <2>3. TypeOK'
    BY <1>3, <2>1, <2>2 DEF Act, TypeOK
  <2>4. lastIndex \in 0..MaxIndex \cup {None} /\ seen \in 0..MaxIndex \cup {None}
    BY DEF TypeOK
  <2>5. Ordered'
    BY <1>3, <2>1, <2>4, Numbers DEF Act, Ordered
  <2>6. lastIndex' # index'
    BY <1>3, <2>1, <2>4, Numbers DEF Act, Ordered
  <2>7. Vouched'
    BY <2>6 DEF Vouched
  <2>8. ReadLater'
    <3>1. SUFFICES ASSUME pc = "write"
                   PROVE \E k \in 0..(index + 1) : /\ read = at[k]
                                                   /\ seen # None => seen <= k
                                                   /\ lastIndex # None => lastIndex <= k
      BY <1>3, <2>1 DEF Act, ReadLater
    <3>2. PICK k \in 0..index : /\ read = at[k]
                                /\ seen # None => seen <= k
                                /\ lastIndex # None => lastIndex <= k
      BY <3>1 DEF ReadLater
    <3>3. k \in 0..(index + 1)
      BY <2>1, <3>2, Numbers
    <3>4. QED
      BY <3>2, <3>3
  <2>9. QED
    BY <1>3, <2>3, <2>5, <2>7, <2>8 DEF Act, TooOld, Refreshable, KeepsState
<1>4. CASE GoesDown
  <2>1. outages \in 0..MaxOutages
    BY DEF TypeOK
  <2>2. outages' \in 0..MaxOutages
    BY <1>4, <2>1, Numbers DEF GoesDown
  <2>3. TypeOK'
    BY <1>4, <2>2 DEF GoesDown, TypeOK
  <2>4. QED
    BY <1>4, <2>3
    DEF GoesDown, Ordered, ReadLater, Vouched, TooOld, Refreshable, KeepsState, Alarm
<1>5. CASE ComesBack
  <2>1. TypeOK'
    BY <1>5 DEF ComesBack, TypeOK
  <2>2. QED
    BY <1>5, <2>1
    DEF ComesBack, Ordered, ReadLater, Vouched, TooOld, Refreshable, KeepsState, Alarm
<1>6. CASE Tick
  <2>1. /\ timer \in 0..(Interval + MaxWait) /\ silent \in 0..FailsafeAfter
        /\ agreed \in 0..Limit /\ lastOk \in Never..FailsafeAfter
        /\ key \in [value : BOOLEAN, ttl : 0..Ttl]
    BY DEF TypeOK
  <2>2. /\ timer' \in 0..(Interval + MaxWait)
        /\ silent' \in 0..FailsafeAfter
    BY <1>6, <2>1, Numbers DEF Tick, Lower
  <2>3. agreed' \in 0..Limit
    BY <1>6, <2>1, Numbers DEF Tick, Lower, Limit
  <2>4. /\ lastOk' \in Never..FailsafeAfter
        /\ lastOk = Never <=> lastOk' = Never
        /\ lastOk' # Never /\ lastOk' < FailsafeAfter => lastOk < FailsafeAfter
        /\ lastOk \in 0..FailsafeAfter => lastOk' \in 0..FailsafeAfter
    <3>1. CASE lastOk = Never
      BY <1>6, <3>1, Numbers DEF Tick, Never
    <3>2. CASE lastOk # Never
      <4>1. lastOk \in 0..FailsafeAfter
        BY <2>1, <3>2, Numbers DEF Never
      <4>2. lastOk' = Lower(lastOk + 1, FailsafeAfter)
        BY <1>6, <3>2 DEF Tick
      <4>3. QED
        BY <3>2, <4>1, <4>2, Numbers DEF Lower, Never
    <3>3. QED
      BY <3>1, <3>2
  <2>5. /\ key' \in [value : BOOLEAN, ttl : 0..Ttl]
        /\ key'.ttl > 0 => key.ttl > 0 /\ key'.value = key.value
    <3>1. CASE key.ttl > 1
      <4>1. key' = [value |-> key.value, ttl |-> key.ttl - 1]
        BY <1>6, <3>1 DEF Tick
      <4>2. key.ttl - 1 \in 0..Ttl /\ key.ttl > 0 /\ key.value \in BOOLEAN
        BY <2>1, <3>1, Numbers
      <4>3. QED
        BY <4>1, <4>2, KeyFacts
    <3>2. CASE ~(key.ttl > 1)
      <4>1. key' = [value |-> FALSE, ttl |-> 0]
        BY <1>6, <3>2 DEF Tick, Absent
      <4>2. 0 \in 0..Ttl /\ ~(0 > 0)
        BY Numbers
      <4>3. QED
        BY <4>1, <4>2, KeyFacts
    <3>3. QED
      BY <3>1, <3>2
  <2>6. TypeOK'
    BY <1>6, <2>2, <2>3, <2>4, <2>5 DEF Tick, TypeOK
  <2>7. KeepsState' => KeepsState
    BY <2>4 DEF KeepsState
  <2>8. TooOld'
    BY <1>6, <2>7 DEF Tick, TooOld
  <2>9. QED
    BY <1>6, <2>4, <2>5, <2>6, <2>7, <2>8 DEF Tick, Ordered, ReadLater, Vouched, Refreshable, Alarm
<1>7. QED
  BY <1>1, <1>2, <1>3, <1>4, <1>5, <1>6

LEMMA StepIInv == IInv /\ [Next]_vars => IInv'
<1> SUFFICES ASSUME IInv, [Next]_vars PROVE IInv'
  OBVIOUS
<1>1. CASE UNCHANGED vars
  BY <1>1 DEF vars, world, poller, IInv, TypeOK, Ordered, ReadLater, Vouched, TooOld,
              Refreshable, KeepsState, Alarm
<1>2. QED
  BY <1>1, LoopSteps, OtherSteps DEF Next

\* Every step keeps the bound on what is stale.
LEMMA BoundedLoop == IInv /\ Bounded /\ Loop => Bounded'
<1> SUFFICES ASSUME IInv, Bounded, Loop PROVE Bounded'
  OBVIOUS
<1> USE DEF world
<1>1. /\ agreed \in Nat /\ timer \in Nat /\ MaxWait \in Nat /\ Ttl \in Nat
      /\ read \in BOOLEAN /\ key \in [value : BOOLEAN, ttl : 0..Ttl]
      /\ Limit = Ttl + MaxWait
  BY Numbers DEF IInv, TypeOK, Limit
<1>2. CASE BeginPoll \/ GetRegions \/ Boot
  <2>1. pc' \notin {"write", "refresh"} /\ UNCHANGED <<at, index, agreed, key>>
    BY <1>2 DEF BeginPoll, GetRegions, Boot, Goto, Fails
  <2>2. QED
    BY <2>1 DEF Bounded, Alarm, Limit
<1>3. CASE GetStatus
  <2>1. UNCHANGED <<at, index, agreed, key>> /\ pc' \in {"alerts", "refresh"} /\ timer' = MaxWait
    BY <1>3 DEF GetStatus, Goto
  <2>2. ASSUME pc' = "refresh", key.ttl > 0, key.value # Failsafe
        PROVE agreed = 0
    <3>1. Refreshable' /\ seen' = index
      <4>1. IInv'
        BY LoopSteps
      <4>2. seen' \in {index, None}
        BY <1>3 DEF GetStatus
      <4>3. seen' # None
        BY <1>3, <2>2 DEF GetStatus, Goto, NeedFull
      <4>4. QED
        BY <4>1, <4>2, <4>3 DEF IInv
    <3>2. Alarm # Failsafe
      BY <2>1, <2>2, <3>1 DEF Refreshable, Alarm
    <3>3. QED
      BY <3>2 DEF Bounded
  <2>3. pc' = "refresh" /\ key.ttl > 0 /\ key.value # Failsafe => agreed + timer' <= MaxWait
    BY <1>1, <2>1, <2>2
  <2>4. QED
    BY <2>1, <2>3 DEF Bounded, Alarm, Limit
<1>4. CASE Refresh
  <2>1. UNCHANGED <<at, index, agreed>> /\ pc' \in {"nap", "alerts"} /\ key' = Extended /\ pc = "refresh"
    BY <1>4 DEF Refresh, Goto
  <2>2. ASSUME key'.ttl > 0, key'.value # Failsafe
        PROVE agreed + key'.ttl <= Limit
    <3>1. key.ttl > 0 /\ key.value # Failsafe
      BY <2>1, <2>2, ExtendedFacts DEF IInv
    <3>2. agreed + timer <= MaxWait
      BY <2>1, <3>1 DEF Bounded
    <3>3. key'.ttl = Ttl
      BY <1>1, <2>1, <3>1, KeepingFacts DEF Extended
    <3>4. QED
      BY <1>1, <3>2, <3>3
  <2>3. QED
    BY <2>1, <2>2 DEF Bounded, Alarm, Limit
<1>5. CASE GetAlerts
  <2>1. UNCHANGED <<at, index, agreed, key>> /\ pc' \in {"write", "nap", "failsafe"}
    BY <1>5 DEF GetAlerts, Goto, Fails
  <2>2. pc' = "write" => read' = Alarm /\ timer' = MaxWait
    BY <1>5 DEF GetAlerts, Goto, Fails
  <2>3. pc' = "write" /\ read' # Failsafe => agreed + timer' <= MaxWait
    BY <1>1, <2>2 DEF Bounded
  <2>4. QED
    BY <2>1, <2>3 DEF Bounded, Alarm, Limit
<1>6. CASE WriteState
  <2>1. /\ UNCHANGED <<at, index, agreed>> /\ pc' = "nap" /\ pc = "write"
        /\ key'.value = read /\ key'.ttl = Ttl
    BY <1>1, <1>6, KeepingFacts DEF WriteState, Goto
  <2>2. key'.value # Failsafe => agreed + key'.ttl <= Limit
    BY <1>1, <2>1 DEF Bounded
  <2>3. QED
    BY <2>1, <2>2 DEF Bounded, Alarm, Limit
<1>7. CASE WriteFailsafe
  <2>1. UNCHANGED <<at, index, agreed>> /\ pc' = "nap" /\ key'.value = Failsafe
    BY <1>7, KeepingFacts, Numbers DEF WriteFailsafe, Goto
  <2>2. QED
    BY <2>1 DEF Bounded, Alarm, Limit
<1>8. QED
  BY <1>2, <1>3, <1>4, <1>5, <1>6, <1>7 DEF Loop

LEMMA BoundedOther ==
  IInv /\ Bounded /\ (RedisRaises \/ Crash \/ Act \/ GoesDown \/ ComesBack \/ Tick) => Bounded'
<1> SUFFICES ASSUME IInv, Bounded,
                    RedisRaises \/ Crash \/ Act \/ GoesDown \/ ComesBack \/ Tick
             PROVE Bounded'
  OBVIOUS
<1> USE DEF world, poller
<1>1. /\ agreed \in Nat /\ timer \in Nat /\ MaxWait \in Nat /\ Ttl \in Nat
      /\ read \in BOOLEAN /\ key \in [value : BOOLEAN, ttl : 0..Ttl]
      /\ Limit = Ttl + MaxWait
  BY Numbers DEF IInv, TypeOK, Limit
<1>2. CASE RedisRaises
  <2>1. UNCHANGED <<at, index, agreed>> /\ pc' \in {"nap", "failsafe", "down"}
    BY <1>2 DEF RedisRaises, Fails, Goto, Dies
  <2>2. ASSUME key'.ttl > 0, key'.value # Failsafe
        PROVE agreed + key'.ttl <= Limit
    <3>1. CASE key' = key
      BY <2>2, <3>1 DEF Bounded
    <3>2. CASE pc = "refresh" /\ key' = Extended
      <4>1. key.ttl > 0 /\ key.value # Failsafe
        BY <2>2, <3>2, ExtendedFacts DEF IInv
      <4>2. key'.ttl = Ttl
        BY <1>1, <3>2, <4>1, KeepingFacts DEF Extended
      <4>3. QED
        BY <1>1, <3>2, <4>1, <4>2 DEF Bounded
    <3>3. CASE pc = "write" /\ key' = Keeping(read)
      BY <1>1, <2>2, <3>3, KeepingFacts DEF Bounded
    <3>4. CASE key' = Keeping(Failsafe)
      BY <2>2, <3>4, KeepingFacts, Numbers
    <3>5. QED
      BY <1>2, <3>1, <3>2, <3>3, <3>4 DEF RedisRaises
  <2>3. QED
    BY <2>1, <2>2 DEF Bounded, Alarm, Limit
<1>3. CASE Crash
  <2>1. UNCHANGED <<at, index, agreed, key>> /\ pc' = "down"
    BY <1>3 DEF Crash, Dies
  <2>2. QED
    BY <2>1 DEF Bounded, Alarm, Limit
<1>4. CASE Act
  <2>1. /\ UNCHANGED <<at, key, pc, timer, read>> /\ index' = index + 1
        /\ agreed' = IF at[index + 1] = at[index] THEN agreed ELSE 0
    BY <1>4 DEF Act, Alarm
  <2>2. agreed' = agreed \/ agreed' = 0
    BY <2>1
  <2>3. agreed' \in Nat /\ agreed' <= agreed
    BY <1>1, <2>2
  <2>4. Alarm' # Failsafe => agreed' = 0
    BY <2>1 DEF Bounded, Alarm
  <2>5. key.ttl \in Nat
    BY <1>1
  <2>6. QED
    BY <1>1, <2>1, <2>3, <2>4, <2>5 DEF Bounded, Limit
<1>5. CASE GoesDown \/ ComesBack
  BY <1>5 DEF GoesDown, ComesBack, Bounded, Alarm, Limit
<1>6. CASE Tick
  <2>1. UNCHANGED <<at, index, pc, read>>
    BY <1>6 DEF Tick
  <2>2. agreed' \in Nat /\ agreed' <= agreed + 1 /\ (Alarm # Failsafe => agreed' = 0)
    BY <1>1, <1>6 DEF Tick, Lower
  <2>3. pc # "down" => timer' \in Nat /\ timer' + 1 = timer
    BY <1>1, <1>6 DEF Tick
  <2>4. ASSUME key'.ttl > 0
        PROVE /\ key'.value = key.value /\ key.ttl > 0
              /\ key'.ttl \in Nat /\ key'.ttl + 1 = key.ttl
    <3>1. key.ttl \in 0..Ttl /\ key.value \in BOOLEAN
      BY <1>1
    <3>2. key.ttl > 1
      BY <1>6, <2>4, <3>1 DEF Tick, Absent
    <3>3. key' = [value |-> key.value, ttl |-> key.ttl - 1]
      BY <1>6, <3>2 DEF Tick
    <3>4. QED
      BY <3>1, <3>2, <3>3
  <2>5. Alarm' = Alarm /\ Limit' = Limit
    BY <2>1 DEF Alarm, Limit
  <2>6. pc' = "write" /\ read' # Failsafe => agreed' + timer' <= MaxWait
    BY <1>1, <2>1, <2>2, <2>3 DEF Bounded
  <2>7. pc' = "refresh" /\ key'.ttl > 0 /\ key'.value # Failsafe => agreed' + timer' <= MaxWait
    BY <1>1, <2>1, <2>2, <2>3, <2>4 DEF Bounded
  <2>8. key'.ttl > 0 /\ key'.value # Failsafe => agreed' + key'.ttl <= Limit
    <3>1. SUFFICES ASSUME key'.ttl > 0, key'.value # Failsafe PROVE agreed' + key'.ttl <= Limit
      OBVIOUS
    <3>2. key.ttl \in Nat /\ agreed + key.ttl <= Limit
      BY <1>1, <2>4, <3>1 DEF Bounded
    <3>3. QED
      BY <1>1, <2>2, <2>4, <3>1, <3>2
  <2>9. QED
    BY <2>2, <2>5, <2>6, <2>7, <2>8 DEF Bounded
<1>7. QED
  BY <1>2, <1>3, <1>4, <1>5, <1>6

LEMMA BoundedStep == IInv /\ Bounded /\ [Next]_vars => Bounded'
<1> SUFFICES ASSUME IInv, Bounded, [Next]_vars PROVE Bounded'
  OBVIOUS
<1>1. CASE UNCHANGED vars
  BY <1>1 DEF vars, world, poller, Bounded, Alarm, Limit
<1>2. QED
  BY <1>1, BoundedLoop, BoundedOther DEF Next

\* Type correctness: key, timers and counters of the poller keep their types, and the
\* cheap refresh is only reached by a process that has read the alarm.
THEOREM TypeCorrect == Spec => []TypeOK
<1>1. IInv => TypeOK
  BY DEF IInv
<1>2. QED
  BY <1>1, InitIInv, StepIInv, PTL DEF Spec

\* EXPIRE prolongs only the alarm at the action that the poll has just seen, for any
\* times to live and thresholds, and any outages, restarts and failing calls.
THEOREM RefreshesConfirm == Spec => RefreshConfirms
<1>1. ASSUME IInv, [Next]_vars, pc = "refresh", pc' = "nap", key.ttl > 0
      PROVE key'.value = at[seen]
  <2>1. key.value = at[seen]
    BY <1>1 DEF IInv, Refreshable
  <2>2. key' \in {key, Extended}
    <3>1. CASE Loop
      BY <1>1, <3>1 DEF Loop, BeginPoll, GetRegions, GetStatus, Refresh, GetAlerts,
                        WriteState, WriteFailsafe, Boot
    <3>2. CASE RedisRaises
      BY <1>1, <3>2 DEF RedisRaises
    <3>3. CASE Crash \/ Act \/ GoesDown \/ ComesBack \/ Tick \/ UNCHANGED vars
      BY <1>1, <3>3 DEF Crash, Dies, Act, GoesDown, ComesBack, Tick, vars, poller
    <3>4. QED
      BY <1>1, <3>1, <3>2, <3>3 DEF Next
  <2>3. QED
    BY <1>1, <2>1, <2>2, ExtendedFacts DEF IInv
<1>2. IInv /\ [Next]_vars
        => [pc = "refresh" /\ pc' = "nap" /\ key.ttl > 0 => key'.value = at[seen]]_vars
  BY <1>1
<1>3. QED
  BY <1>2, InitIInv, StepIInv, PTL DEF Spec, RefreshConfirms

\* Once the region has been for Ttl + MaxWait in the state the failsafe stands for, the
\* source half reads that state: for any times, and whatever has failed.
THEOREM StaleExpires == Spec => []StaleStateExpires
<1>1. Init => Bounded
  BY Numbers DEF Init, Bounded, Absent
<1>2. IInv /\ Bounded => StaleStateExpires
  <2>1. SUFFICES ASSUME IInv, Bounded, agreed >= Limit, key.ttl > 0
                 PROVE key.value = Failsafe
    BY DEF StaleStateExpires, Official
  <2>2. agreed \in Nat /\ key.ttl \in Nat /\ Limit \in Nat
    BY <2>1, Numbers DEF IInv, TypeOK, Limit
  <2>3. QED
    BY <2>1, <2>2 DEF Bounded
<1>3. QED
  BY <1>1, <1>2, InitIInv, StepIInv, BoundedStep, PTL DEF Spec

\* What silence is bounded by the age of the last reading: a refresh ends the silence,
\* but only one that began before that age was Half.
Aged ==
  /\ pc = "refresh" => lastOk + timer < Half + MaxWait
  /\ lastOk < silent + Half + MaxWait

\* Two ages that grow together keep their distance; a cap takes nothing from it.
LEMMA Ages ==
  ASSUME NEW a \in Int, NEW b \in Int, NEW c \in Int, NEW d \in Int, NEW u \in Int, NEW v \in Int,
         b <= a + 1
  PROVE /\ a < c + u + v /\ d = c + 1 => b < d + u + v
        /\ b <= d /\ 0 < u /\ 0 < v => b < d + u + v
  OBVIOUS

\* An age that grows while a timer runs down keeps their sum below its bound.
LEMMA Timers ==
  ASSUME NEW a \in Int, NEW b \in Int, NEW d \in Int, NEW u \in Int, NEW v \in Int,
         b <= a + 1, a + (d + 1) < u + v
  PROVE b + d < u + v
  OBVIOUS

\* Every step keeps the two ages that close to each other.
LEMMA AgedStep == IInv /\ Aged /\ [Next]_vars => Aged'
<1> SUFFICES ASSUME IInv, Aged, [Next]_vars PROVE Aged'
  OBVIOUS
<1> USE DEF world, poller
<1>1. /\ timer \in Nat /\ silent \in Nat /\ lastOk \in Int /\ lastOk >= -1
      /\ lastOk <= FailsafeAfter /\ FailsafeAfter \in Nat
      /\ Half \in Nat /\ 0 < Half /\ MaxWait \in Nat /\ 0 < MaxWait
  BY Numbers DEF IInv, TypeOK, Never
<1>2. ASSUME UNCHANGED <<lastOk, silent>>, pc' # "refresh" PROVE Aged'
  BY <1>2 DEF Aged
<1>3. CASE BeginPoll \/ GetRegions \/ GetAlerts \/ WriteFailsafe \/ Boot
  BY <1>2, <1>3 DEF BeginPoll, GetRegions, GetAlerts, WriteFailsafe, Boot, Goto, Fails
<1>4. CASE GetStatus
  <2>1. UNCHANGED <<lastOk, silent>> /\ timer' = MaxWait
    BY <1>4 DEF GetStatus, Goto
  <2>2. pc' = "refresh" => ~(lastOk >= Half)
    BY <1>4 DEF GetStatus, Goto, NeedFull
  <2>3. QED
    BY <1>1, <2>1, <2>2 DEF Aged
<1>5. CASE Refresh
  <2>1. /\ pc = "refresh" /\ pc' \in {"nap", "alerts"} /\ lastOk' = lastOk
        /\ silent' = 0 \/ silent' = silent
    BY <1>5 DEF Refresh, Goto
  <2>2. lastOk + timer < Half + MaxWait /\ lastOk < silent + Half + MaxWait
    BY <2>1 DEF Aged
  <2>3. lastOk' < silent' + Half + MaxWait
    BY <1>1, <2>1, <2>2
  <2>4. QED
    BY <2>1, <2>3 DEF Aged
<1>6. CASE WriteState
  <2>1. pc' = "nap" /\ lastOk' = 0 /\ silent' = 0
    BY <1>6 DEF WriteState, Goto
  <2>2. QED
    BY <1>1, <2>1 DEF Aged
<1>7. CASE RedisRaises \/ Crash
  <2>1. pc' # "refresh" /\ silent' = silent /\ lastOk' \in {lastOk, Never}
    BY <1>7 DEF RedisRaises, Crash, Fails, Goto, Dies
  <2>2. QED
    BY <1>1, <2>1 DEF Aged, Never
<1>8. CASE Act \/ GoesDown \/ ComesBack \/ UNCHANGED vars
  BY <1>8 DEF Act, GoesDown, ComesBack, vars, Aged
<1>9. CASE Tick
  <2>1. pc' = pc /\ (pc = "refresh" => timer' + 1 = timer)
    BY <1>1, <1>9 DEF Tick
  <2>2. timer' \in Int
    BY <1>1, <1>9 DEF Tick
  <2>3. lastOk' \in Int /\ lastOk' <= lastOk + 1 /\ lastOk' <= FailsafeAfter
    BY <1>1, <1>9 DEF Tick, Lower, Never
  <2>4. silent' \in Nat /\ (silent' = silent + 1 \/ silent' = FailsafeAfter)
    BY <1>1, <1>9 DEF Tick, Lower
  <2>5. lastOk' < silent' + Half + MaxWait
    <3>1. lastOk < silent + Half + MaxWait
      BY DEF Aged
    <3>2. CASE silent' = silent + 1
      BY <1>1, <2>3, <3>1, <3>2, Ages
    <3>3. CASE silent' = FailsafeAfter
      BY <1>1, <2>3, <3>3, Ages
    <3>4. QED
      BY <2>4, <3>2, <3>3
  <2>6. pc = "refresh" => lastOk' + timer' < Half + MaxWait
    <3>1. SUFFICES ASSUME pc = "refresh" PROVE lastOk' + timer' < Half + MaxWait
      OBVIOUS
    <3>2. lastOk + timer < Half + MaxWait /\ timer' + 1 = timer
      BY <2>1, <3>1 DEF Aged
    <3>3. timer = timer' + 1 /\ lastOk + (timer' + 1) < Half + MaxWait
      BY <1>1, <2>2, <3>2
    <3>4. Half \in Int /\ MaxWait \in Int /\ lastOk \in Int /\ lastOk' <= lastOk + 1
      BY <1>1, <2>3
    <3>5. lastOk' \in Int /\ timer' \in Int
      BY <2>2, <2>3
    <3>6. lastOk + (timer' + 1) < Half + MaxWait
      BY <3>3
    <3>7. QED
      BY <3>4, <3>5, <3>6, Timers
  <2>7. QED
    BY <2>1, <2>5, <2>6 DEF Aged
<1>10. QED
  BY <1>3, <1>4, <1>5, <1>6, <1>7, <1>8, <1>9 DEF Next, Loop

\* A process that has read the alarm writes the failsafe only after a silence of nearly
\* the whole threshold, for any times, outages, restarts and failing calls.
THEOREM FailsafeIsLate == Spec => FailsafeNeedsSilence
<1>1. Init => Aged
  BY Numbers DEF Init, Aged, Never
<1>2. ASSUME IInv, Aged, pc = "failsafe", lastOk # Never
      PROVE silent > FailsafeAfter - Half - MaxWait
  <2>1. lastOk \in Int /\ lastOk >= FailsafeAfter /\ silent \in Nat
    BY <1>2, Numbers DEF IInv, TypeOK, TooOld, KeepsState, Never
  <2>2. QED
    BY <1>2, <2>1, Numbers DEF Aged
<1>3. IInv /\ Aged => [pc = "failsafe" /\ pc' = "nap" /\ lastOk # Never
                          => silent > FailsafeAfter - Half - MaxWait]_vars
  BY <1>2
<1>4. QED
  BY <1>1, <1>3, InitIInv, StepIInv, AgedStep, PTL DEF Spec, FailsafeNeedsSilence

-----------------------------------------------------------------------------
(* The supervisor.                                                         *)

Raised == outcome = "none" => \A n \in failed : task[n] = "raised"

NotBegun == phase = "start" => \A n \in Names : task[n] = "absent"

SupervisionInv ==
  /\ SupervisionTypeOK /\ Raised /\ NotBegun
  /\ FailureIsReported /\ NothingLeftRunning

\* In the initial states nothing has begun, and nothing has failed.
LEMMA InitSupervisionInv == SupervisionInit => SupervisionInv
<1> SUFFICES ASSUME SupervisionInit PROVE SupervisionInv
  OBVIOUS
<1>1. task = [n \in Names |-> "absent"] /\ phase = "start" /\ outcome = "none" /\ failed = {}
  BY DEF SupervisionInit
<1>2. task \in [Names -> {"absent", "running"} \cup Ended]
  BY <1>1
<1>3. SupervisionTypeOK
  BY <1>1, <1>2 DEF SupervisionInit, SupervisionTypeOK
<1>4. QED
  BY <1>1, <1>3 DEF SupervisionInv, Raised, NotBegun, FailureIsReported, NothingLeftRunning

\* Every step of the supervisor, of a loop and of the environment keeps the invariant.
LEMMA StepSupervisionInv == SupervisionInv /\ [SupervisionNext]_supervision => SupervisionInv'
<1> SUFFICES ASSUME SupervisionInv, [SupervisionNext]_supervision PROVE SupervisionInv'
  OBVIOUS
<1> USE DEF SupervisionInv, SupervisionTypeOK, Raised, NotBegun, FailureIsReported,
            NothingLeftRunning, Ended
<1>1. CASE StartLoops
  <2>1. failed = {}
    BY <1>1 DEF StartLoops
  <2>2. CASE shutdown /\ LeaveWith("ok", task) /\ UNCHANGED task
    BY <1>1, <2>1, <2>2 DEF StartLoops, LeaveWith, Told
  <2>3. CASE /\ ~shutdown /\ task' = [n \in Names |-> "running"]
             /\ phase' = "wait" /\ UNCHANGED <<cancelled, shutdown, outcome>>
    BY <1>1, <2>1, <2>3 DEF StartLoops
  <2>4. CASE /\ ~shutdown
             /\ \E i \in DOMAIN Loops :
                  LET begun == {Loops[j] : j \in 1..(i - 1)} IN
                  task' = [n \in Names |-> IF n \in begun THEN "running" ELSE "absent"]
             /\ LeaveWith("error", task')
    <3>1. PICK begun : task' = [n \in Names |-> IF n \in begun THEN "running" ELSE "absent"]
      BY <2>4
    <3>2. task' \in [Names -> {"absent", "running"}]
      BY <3>1
    <3>3. QED
      BY <1>1, <2>1, <2>4, <3>2 DEF StartLoops, LeaveWith, Told
  <2>5. QED
    BY <1>1, <2>2, <2>3, <2>4 DEF StartLoops
<1>2. CASE Wake
  BY <1>2 DEF Wake
<1>3. CASE Look
  <2>1. failed \subseteq Done /\ \A n \in failed : Faulty(n)
    BY <1>3 DEF Look, Done, Faulty
  <2>2. outcome' = "ok" => failed = {}
    BY <1>3, <2>1 DEF Look, LeaveWith
  <2>3. outcome' \in {"ok", "error"}
    BY <1>3 DEF Look, LeaveWith
  <2>4. QED
    BY <1>3, <2>2, <2>3 DEF Look, LeaveWith, Told
<1>4. CASE Join
  BY <1>4 DEF Join, Joined
<1>5. CASE ParentCancelled
  BY <1>5 DEF ParentCancelled, LeaveWith, Told
<1>6. ASSUME NEW n \in Names, LoopEnds(n) PROVE SupervisionInv'
  <2>1. PICK how \in Ended :
          /\ task' = [task EXCEPT ![n] = how]
          /\ failed' = IF how = "raised" /\ outcome = "none" THEN failed \cup {n} ELSE failed
    BY <1>6 DEF LoopEnds
  <2>2. /\ task[n] = "running"
        /\ early' = IF shutdown THEN early ELSE early \cup {n}
        /\ UNCHANGED <<cancelled, shutdown, stopped, phase, outcome>>
    BY <1>6 DEF LoopEnds
  <2>3. n \notin failed \/ outcome # "none"
    BY <2>2
  <2>4. QED
    BY <1>6, <2>1, <2>2, <2>3
<1>7. CASE Signal
  BY <1>7 DEF Signal
<1>8. CASE StoppedEnds
  BY <1>8 DEF StoppedEnds
<1>9. CASE UNCHANGED supervision
  BY <1>9 DEF supervision
<1>10. QED
  BY <1>1, <1>2, <1>3, <1>4, <1>5, <1>6, <1>7, <1>8, <1>9 DEF SupervisionNext, Supervise

\* A loop that raised before the supervisor looked at what had ended always makes the
\* service fail: no shutdown, signal or cancellation that falls between turns it into
\* an orderly end.
THEOREM FailuresReported == SupervisionSpec => []FailureIsReported
<1>1. SupervisionInv => FailureIsReported
  BY DEF SupervisionInv
<1>2. QED
  BY <1>1, InitSupervisionInv, StepSupervisionInv, PTL DEF SupervisionSpec

\* supervise() never ends while a loop it has started still runs.
THEOREM NoneLeftRunning == SupervisionSpec => [](SupervisionTypeOK /\ NothingLeftRunning)
<1>1. SupervisionInv => SupervisionTypeOK /\ NothingLeftRunning
  BY DEF SupervisionInv
<1>2. QED
  BY <1>1, InitSupervisionInv, StepSupervisionInv, PTL DEF SupervisionSpec
=============================================================================
