------------------------- MODULE RateLimiterProofs -------------------------
(***************************************************************************)
(* For every number of callers and chats and every choice of the spans that *)
(* RateAssumption allows, grants are spaced and pauses are kept.           *)
(***************************************************************************)
EXTENDS RateLimiter, TLAPS

\* The inductive invariant: the keys remember whatever still lies ahead.
IInv == TypeOK /\ KeysRemember

\* Reserving writes a key that outlives the instant it holds.
LEMMA ReserveKey ==
  ASSUME TypeOK, NEW gap \in Nat, gap <= KeyTtl, KeyTtl \in Nat
  PROVE  /\ Reserve(gap) \in Key
         /\ Reserve(gap).at = now + gap
         /\ Reserve(gap).at <= Reserve(gap).dies
         /\ Remembers(Reserve(gap), now + gap)
BY DEF TypeOK, Reserve, Key, Remembers, Live

\* A key that dies no earlier than the instant it holds still says so after the
\* clock has moved on, as long as that instant lies ahead.
LEMMA TickRemembers ==
  ASSUME now \in Nat, NEW k \in Key, NEW from \in Nat, k.at <= k.dies,
         Remembers(k, from), now' = now + 1
  PROVE  now' < from => now' < k.dies /\ from <= k.at
BY DEF Key, Remembers, Live

\* A grant finds nothing ahead that a key remembers.
LEMMA GrantSeesAll ==
  ASSUME TypeOK, NEW k \in Key, NEW from \in Nat, Remembers(k, from), At(k) <= now
  PROVE  now >= from
BY DEF TypeOK, Key, Remembers, Live, At

\* The records of callers that hold no place in the queue.
LEMMA AwayType ==
  /\ Away \in Caller
  /\ \A pc \in {"granted", "told"} : [Away EXCEPT !.pc = pc] \in Caller
BY DEF Away, Caller

LEMMA InitIInv == Init => IInv
BY RateAssumption DEF Init, IInv, TypeOK, KeysRemember, Key, Absent, Caller, Away,
   Remembers, Live

LEMMA StepIInv == IInv /\ [Next]_vars => IInv'
<1> SUFFICES ASSUME IInv, [Next]_vars PROVE IInv'
  OBVIOUS
<1> USE RateAssumption
<1>0. TypeOK /\ KeysRemember
  BY DEF IInv
<1>1. CASE Tick
  <2>1. TypeOK'
    BY <1>0, <1>1 DEF TypeOK, Tick, keys, history
  <2>2. now \in Nat /\ now' = now + 1 /\ UNCHANGED <<keys, history>>
    BY <1>0, <1>1 DEF TypeOK, Tick
  <2>3. Remembers(globalKey, globalFrom)' /\ Remembers(globalKey, pausedUntil)'
        /\ Remembers(repeatKey, repeatFrom)'
    BY <1>0, <2>2, TickRemembers
       DEF TypeOK, KeysRemember, keys, history, Remembers, Live
  <2>4. ASSUME NEW h \in Chats PROVE Remembers(chatKey[h], chatFrom[h])'
    <3>1. chatKey[h] \in Key /\ chatFrom[h] \in Nat /\ chatKey[h].at <= chatKey[h].dies
          /\ Remembers(chatKey[h], chatFrom[h])
      BY <1>0 DEF TypeOK, KeysRemember
    <3> QED
      BY <2>2, <3>1, TickRemembers DEF keys, history, Remembers, Live
  <2> QED
    BY <1>0, <2>1, <2>2, <2>3, <2>4 DEF IInv, KeysRemember, keys, history
<1>2. ASSUME NEW c \in Callers, NEW h \in Chats, NEW r \in BOOLEAN, Enter(c, h, r)
      PROVE IInv'
  <2>1. TypeOK'
    BY <1>0, <1>2 DEF TypeOK, Enter, Caller, keys, history
  <2> QED
    BY <1>0, <1>2, <2>1 DEF IInv, KeysRemember, Enter, keys, history, Remembers, Live
<1>3. ASSUME NEW c \in Callers, Grant(c) PROVE IInv'
  <2> DEFINE h == caller[c].chat
  <2>1. h \in Chats
    BY <1>0, <1>3 DEF TypeOK, Grant
  <2>2. TypeOK'
    <3>1. Reserve(GlobalGap) \in Key /\ Reserve(ChatGap) \in Key /\ Reserve(RepeatGap) \in Key
      BY <1>0, ReserveKey
    <3>2. globalKey' \in Key /\ chatKey' \in [Chats -> Key] /\ repeatKey' \in Key
      BY <1>0, <1>3, <3>1 DEF TypeOK, Grant
    <3>3. globalFrom' \in Nat /\ chatFrom' \in [Chats -> Nat] /\ repeatFrom' \in Nat
      BY <1>0, <1>3 DEF TypeOK, Grant
    <3>4. caller' = [caller EXCEPT ![c] = [Away EXCEPT !.pc = "granted"]]
      BY <1>3 DEF Grant
    <3>5. caller' \in [Callers -> Caller]
      BY <1>0, <3>4, AwayType DEF TypeOK
    <3>6. \A x \in Callers : caller'[x].pc \in {"asking", "napping"} => caller'[x].chat \in Chats
      BY <1>0, <3>4 DEF TypeOK, Away
    <3> QED
      BY <1>0, <1>3, <3>2, <3>3, <3>5, <3>6 DEF TypeOK, Grant
  <2>3. now' = now /\ pausedUntil' = pausedUntil
    BY <1>3 DEF Grant
  <2>4. now >= pausedUntil
    BY <1>0, <1>3, GrantSeesAll DEF Grant, Grants, Blocks, TypeOK, KeysRemember
  <2>5. globalKey'.at <= globalKey'.dies /\ Remembers(globalKey, globalFrom)'
        /\ Remembers(globalKey, pausedUntil)'
    <3>1. globalKey' = Reserve(GlobalGap) /\ globalFrom' = now + GlobalGap
      BY <1>3 DEF Grant
    <3> QED
      BY <1>0, <2>3, <2>4, <3>1, ReserveKey DEF Remembers, Live, TypeOK
  <2>6. repeatKey'.at <= repeatKey'.dies /\ Remembers(repeatKey, repeatFrom)'
    BY <1>0, <1>3, <2>3, ReserveKey DEF Grant, KeysRemember, Remembers, Live
  <2>7. ASSUME NEW x \in Chats
        PROVE  chatKey'[x].at <= chatKey'[x].dies /\ Remembers(chatKey[x], chatFrom[x])'
    <3>1. CASE x = h
      <4>1. chatKey'[x] = Reserve(ChatGap) /\ chatFrom'[x] = now + ChatGap
        BY <1>0, <1>3, <2>1, <3>1 DEF Grant, TypeOK
      <4> QED
        BY <1>0, <2>3, <4>1, ReserveKey DEF Remembers, Live
    <3>2. CASE x # h
      <4>1. chatKey'[x] = chatKey[x] /\ chatFrom'[x] = chatFrom[x]
        BY <1>0, <1>3, <3>2 DEF Grant, TypeOK
      <4> QED
        BY <1>0, <2>3, <4>1 DEF KeysRemember, Remembers, Live
    <3> QED
      BY <3>1, <3>2
  <2> QED
    BY <2>2, <2>5, <2>6, <2>7 DEF IInv, KeysRemember
<1>4. ASSUME NEW c \in Callers, Nap(c) \/ Wake(c) \/ GiveUp(c) \/ Finish(c)
      PROVE IInv'
  <2>1. UNCHANGED <<now, keys, history>>
    BY <1>4 DEF Nap, Wake, GiveUp, Finish
  <2>2. caller' \in [Callers -> Caller]
    <3>1. CASE Nap(c)
      <4>1. PICK t \in Blocks(c) :
              caller' = [caller EXCEPT ![c].pc = "napping", ![c].wake = now + NapFor(t)]
        BY <3>1 DEF Nap
      <4>2. caller[c].chat \in Chats
        BY <1>0, <3>1 DEF TypeOK, Nap
      <4>3. t \in Nat
        BY <1>0, <4>1, <4>2 DEF Blocks, At, TypeOK, Key
      <4>4. now + NapFor(t) \in Nat
        BY <1>0, <4>3 DEF NapFor, TypeOK
      <4>5. [caller[c] EXCEPT !.pc = "napping", !.wake = now + NapFor(t)] \in Caller
        BY <1>0, <4>4 DEF TypeOK, Caller
      <4> QED
        BY <1>0, <4>1, <4>5 DEF TypeOK
    <3>2. CASE Wake(c)
      BY <1>0, <3>2 DEF TypeOK, Wake, Caller
    <3>3. CASE GiveUp(c)
      BY <1>0, <3>3, AwayType DEF TypeOK, GiveUp
    <3>4. CASE Finish(c)
      BY <1>0, <3>4, AwayType DEF TypeOK, Finish
    <3> QED
      BY <1>4, <3>1, <3>2, <3>3, <3>4
  <2>3. \A x \in Callers : caller'[x].pc \in {"asking", "napping"} => caller'[x].chat \in Chats
    BY <1>0, <1>4 DEF TypeOK, Nap, Wake, GiveUp, Finish, Caller, Away
  <2> QED
    BY <1>0, <2>1, <2>2, <2>3
       DEF IInv, TypeOK, KeysRemember, keys, history, Remembers, Live
<1>5. ASSUME NEW c \in Callers, NEW d \in Pauses, Pause(c, d) PROVE IInv'
  <2>1. d \in Nat
    OBVIOUS
  <2>2. globalKey' \in Key /\ pausedUntil' \in Nat
    BY <1>0, <1>5, <2>1 DEF TypeOK, Pause, Paused, Key
  <2>3. TypeOK'
    BY <1>0, <1>5, <2>2 DEF TypeOK, Pause, Caller, Away
  <2>4. globalKey'.at <= globalKey'.dies
    BY <1>0, <1>5, <2>1 DEF TypeOK, KeysRemember, Pause, Paused, Key
  <2>5. Remembers(globalKey, globalFrom)' /\ Remembers(globalKey, pausedUntil)'
    BY <1>0, <1>5, <2>1
       DEF TypeOK, KeysRemember, Pause, Paused, Key, Remembers, Live, At
  <2> QED
    BY <1>0, <1>5, <2>3, <2>4, <2>5 DEF IInv, KeysRemember, Pause, Paused, Remembers, Live
<1>6. ASSUME NEW h \in Chats, ForgetChat(h) PROVE IInv'
  <2>1. TypeOK'
    BY <1>0, <1>6 DEF TypeOK, ForgetChat, Key, Absent
  <2>2. ASSUME NEW x \in Chats
        PROVE  chatKey'[x].at <= chatKey'[x].dies /\ Remembers(chatKey[x], chatFrom[x])'
    BY <1>0, <1>6 DEF TypeOK, KeysRemember, ForgetChat, Absent, Remembers, Live
  <2> QED
    BY <1>0, <1>6, <2>1, <2>2 DEF IInv, KeysRemember, ForgetChat, Remembers, Live
<1>7. CASE UNCHANGED vars
  BY <1>0, <1>7 DEF IInv, TypeOK, KeysRemember, vars, keys, history, Remembers, Live
<1> QED
  BY <1>1, <1>2, <1>3, <1>4, <1>5, <1>6, <1>7 DEF Next

\* Only the script's grant takes a caller from asking to granted.
LEMMA OnlyGrant ==
  ASSUME IInv, Next, NEW c \in Callers, Granted(c)
  PROVE  Grants(c)
<1>0. caller \in [Callers -> Caller]
  BY DEF IInv, TypeOK
<1>1. CASE Tick \/ \E h \in Chats : ForgetChat(h)
  BY <1>1 DEF Granted, Tick, ForgetChat
<1>2. ASSUME NEW d \in Callers, d # c,
             \/ \E h \in Chats, r \in BOOLEAN : Enter(d, h, r)
             \/ Grant(d) \/ Nap(d) \/ Wake(d) \/ GiveUp(d) \/ Finish(d)
             \/ \E t \in Pauses : Pause(d, t)
      PROVE FALSE
  <2>1. caller'[c] = caller[c]
    BY <1>0, <1>2 DEF Enter, Grant, Nap, Wake, GiveUp, Finish, Pause
  <2> QED
    BY <2>1 DEF Granted
<1>3. CASE \/ \E h \in Chats, r \in BOOLEAN : Enter(c, h, r)
           \/ Wake(c) \/ Finish(c) \/ \E t \in Pauses : Pause(c, t)
  BY <1>3 DEF Granted, Enter, Wake, Finish, Pause
<1>4. CASE Nap(c)
  BY <1>0, <1>4 DEF Granted, Nap
<1>5. CASE GiveUp(c)
  BY <1>0, <1>5 DEF Granted, GiveUp, Away
<1>6. CASE Grant(c)
  BY <1>6 DEF Grant
<1> QED
  BY <1>1, <1>2, <1>3, <1>4, <1>5, <1>6 DEF Next

\* The keys always remember what lies ahead, and the state keeps its types.
THEOREM KeysAlwaysRemember == Spec => [](TypeOK /\ KeysRemember)
<1>1. Spec => []IInv
  BY InitIInv, StepIInv, PTL DEF Spec
<1> QED
  BY <1>1, PTL DEF IInv

\* Grants keep their distance: 50 ms overall, a second within a chat and 200 ms
\* between reminders, for any number of workers and any expiry of the keys.
THEOREM GrantsSpaced == Spec => GrantsAreSpaced
<1>1. IInv /\ [Next]_vars =>
        [\A c \in Callers : Granted(c) =>
           /\ now >= globalFrom
           /\ now >= chatFrom[caller[c].chat]
           /\ caller[c].repeat => now >= repeatFrom]_vars
  <2> SUFFICES ASSUME IInv, Next, NEW c \in Callers, Granted(c)
               PROVE  /\ now >= globalFrom
                      /\ now >= chatFrom[caller[c].chat]
                      /\ caller[c].repeat => now >= repeatFrom
    OBVIOUS
  <2>1. Grants(c)
    BY OnlyGrant
  <2>2. caller[c].chat \in Chats
    BY DEF Granted, IInv, TypeOK
  <2> QED
    BY <2>1, <2>2, GrantSeesAll DEF Grants, Blocks, IInv, TypeOK, KeysRemember
<1>2. Spec => []IInv
  BY InitIInv, StepIInv, PTL DEF Spec
<1> QED
  BY <1>1, <1>2, PTL DEF Spec, GrantsAreSpaced

\* No slot is granted inside a pause, whoever reported it.
THEOREM PausesKept == Spec => PausesAreKept
<1>1. IInv /\ [Next]_vars => [\A c \in Callers : Granted(c) => now >= pausedUntil]_vars
  <2> SUFFICES ASSUME IInv, Next, NEW c \in Callers, Granted(c)
               PROVE  now >= pausedUntil
    OBVIOUS
  <2>1. Grants(c)
    BY OnlyGrant
  <2> QED
    BY <2>1, GrantSeesAll DEF Grants, Blocks, IInv, TypeOK, KeysRemember
<1>2. Spec => []IInv
  BY InitIInv, StepIInv, PTL DEF Spec
<1> QED
  BY <1>1, <1>2, PTL DEF Spec, PausesAreKept
=============================================================================
