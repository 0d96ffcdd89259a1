---------------------------- MODULE RateLimiter ----------------------------
(***************************************************************************)
(* The send rate shared by all workers (worker/rate_limit.py): Redis keys  *)
(* that hold the next allowed instant and expire on their own, the script  *)
(* that reserves a slot, the pause after a Telegram 429, and the callers   *)
(* that ask, nap, give up or send.  Times are read from the Redis clock.   *)
(***************************************************************************)
EXTENDS Integers

CONSTANTS
  Callers,     \* consumers inside send_single_message
  Chats,
  GlobalGap,   \* 50 ms between any two grants
  ChatGap,     \* 1000 ms between grants for one chat
  RepeatGap,   \* 200 ms between grants of reminders
  KeyTtl,      \* 2000 ms, PX of the keys
  PauseExtra,  \* 2000 ms, by which the key outlives a pause
  Pauses,      \* durations Telegram may ask for (at least 1000 ms)
  MinNap, MaxNap, \* bounds of one sleep between two attempts
  Patience,    \* TELEGRAM_MAX_RETRY_SECONDS
  NoChat,
  MaxTime      \* bound on the clock

ASSUME RateAssumption ==
  /\ GlobalGap \in Nat /\ ChatGap \in Nat /\ RepeatGap \in Nat
  /\ KeyTtl \in Nat /\ PauseExtra \in Nat /\ Pauses \subseteq Nat
  /\ MinNap \in Nat /\ MaxNap \in Nat /\ Patience \in Nat /\ MaxTime \in Nat
  /\ GlobalGap <= KeyTtl /\ ChatGap <= KeyTtl /\ RepeatGap <= KeyTtl
  /\ NoChat \notin Chats

VARIABLES
  now,         \* Redis TIME
  globalKey, chatKey, repeatKey,
  caller,
  \* history: the instants before which no grant is due
  globalFrom, chatFrom, repeatFrom, pausedUntil

keys    == <<globalKey, chatKey, repeatKey>>
history == <<globalFrom, chatFrom, repeatFrom, pausedUntil>>
vars    == <<now, keys, caller, history>>

\* A key holds an instant and disappears at another one.
Key == [at : Nat, dies : Nat]
Absent == [at |-> 0, dies |-> 0]
Live(k) == now < k.dies
At(k)   == IF Live(k) THEN k.at ELSE 0

Caller == [pc : {"idle", "asking", "napping", "granted", "told"},
           chat : Chats \cup {NoChat}, repeat : BOOLEAN, wake : Nat, since : Nat]
Away == [pc |-> "idle", chat |-> NoChat, repeat |-> FALSE, wake |-> 0, since |-> 0]

\* The types of the keys and callers, and that a waiting caller has a chat.
TypeOK ==
  /\ now \in Nat
  /\ globalKey \in Key
  /\ chatKey \in [Chats -> Key]
  /\ repeatKey \in Key
  /\ caller \in [Callers -> Caller]
  /\ \A c \in Callers : caller[c].pc \in {"asking", "napping"} => caller[c].chat \in Chats
  /\ globalFrom \in Nat
  /\ chatFrom \in [Chats -> Nat]
  /\ repeatFrom \in Nat
  /\ pausedUntil \in Nat

Init ==
  /\ now = 0
  /\ globalKey = Absent
  /\ chatKey = [h \in Chats |-> Absent]
  /\ repeatKey = Absent
  /\ caller = [c \in Callers |-> Away]
  /\ globalFrom = 0
  /\ chatFrom = [h \in Chats |-> 0]
  /\ repeatFrom = 0
  /\ pausedUntil = 0

Tick ==
  /\ now < MaxTime
  /\ now' = now + 1
  /\ UNCHANGED <<keys, caller, history>>

\* A consumer enters acquire with the chat and the kind of its message.
Enter(c, h, r) ==
  /\ caller[c].pc = "idle"
  /\ caller' = [caller EXCEPT ![c] = [pc |-> "asking", chat |-> h, repeat |-> r,
                                      wake |-> 0, since |-> now]]
  /\ UNCHANGED <<now, keys, history>>

\* Mutation: the limit of the chat is forgotten.
BlocksInAll(c) == {At(globalKey)} \cup (IF caller[c].repeat THEN {At(repeatKey)} ELSE {})

\* ACQUIRE_SLOT_LUA: what it still has to wait for.
Blocks(c) ==
  {At(globalKey), At(chatKey[caller[c].chat])}
    \cup (IF caller[c].repeat THEN {At(repeatKey)} ELSE {})

Grants(c) == \A t \in Blocks(c) : t <= now

\* Mutation: every key lives for no longer than the global limit.
ReserveBriefly(gap) == [at |-> now + gap, dies |-> now + GlobalGap]

\* Every key the script writes lives for KeyTtl.
Reserve(gap) == [at |-> now + gap, dies |-> now + KeyTtl]

Grant(c) ==
  LET h == caller[c].chat IN
  /\ caller[c].pc = "asking"
  /\ Grants(c)
  /\ globalKey' = Reserve(GlobalGap)
  /\ chatKey' = [chatKey EXCEPT ![h] = Reserve(ChatGap)]
  /\ globalFrom' = now + GlobalGap
  /\ chatFrom' = [chatFrom EXCEPT ![h] = now + ChatGap]
  /\ IF caller[c].repeat
     THEN repeatKey' = Reserve(RepeatGap) /\ repeatFrom' = now + RepeatGap
     ELSE UNCHANGED <<repeatKey, repeatFrom>>
  /\ caller' = [caller EXCEPT ![c] = [Away EXCEPT !.pc = "granted"]]
  /\ UNCHANGED <<now, pausedUntil>>

\* Refused: sleep for the longest wait, but for no less than 10 ms and no more
\* than one second.
NapFor(t) == IF t - now < MinNap THEN MinNap
             ELSE IF t - now > MaxNap THEN MaxNap ELSE t - now

Nap(c) ==
  /\ caller[c].pc = "asking"
  /\ ~Grants(c)
  /\ \E t \in Blocks(c) :
       /\ \A u \in Blocks(c) : u <= t
       /\ caller' = [caller EXCEPT ![c].pc = "napping", ![c].wake = now + NapFor(t)]
  /\ UNCHANGED <<now, keys, history>>

Wake(c) ==
  /\ caller[c].pc = "napping"
  /\ now >= caller[c].wake
  /\ caller' = [caller EXCEPT ![c].pc = "asking", ![c].wake = 0]
  /\ UNCHANGED <<now, keys, history>>

\* wait_for gives up; the job stays pending and is retried later.
GiveUp(c) ==
  /\ caller[c].pc \in {"asking", "napping"}
  /\ now >= caller[c].since + Patience
  /\ caller' = [caller EXCEPT ![c] = Away]
  /\ UNCHANGED <<now, keys, history>>

\* The message goes out under the slot, and Telegram may answer with a 429.
Finish(c) ==
  /\ caller[c].pc = "granted"
  /\ \/ caller' = [caller EXCEPT ![c] = Away]
     \/ caller' = [caller EXCEPT ![c] = [Away EXCEPT !.pc = "told"]]
  /\ UNCHANGED <<now, keys, history>>

\* Mutation: the last pause wins.
PausedAnew(d) == [at |-> now + d, dies |-> now + d + PauseExtra]

\* PAUSE_GLOBAL_LUA never shortens what the key already says.
Paused(d) == IF now + d > At(globalKey)
             THEN [at |-> now + d, dies |-> now + d + PauseExtra]
             ELSE globalKey

Pause(c, d) ==
  /\ caller[c].pc = "told"
  /\ globalKey' = Paused(d)
  /\ pausedUntil' = IF now + d > pausedUntil THEN now + d ELSE pausedUntil
  /\ caller' = [caller EXCEPT ![c] = Away]
  /\ UNCHANGED <<now, chatKey, repeatKey, globalFrom, chatFrom, repeatFrom>>

\* The deletion of a recipient removes the key of its chat.
ForgetChat(h) ==
  /\ chatKey' = [chatKey EXCEPT ![h] = Absent]
  /\ chatFrom' = [chatFrom EXCEPT ![h] = 0]
  /\ UNCHANGED <<now, globalKey, repeatKey, caller, globalFrom, repeatFrom,
                 pausedUntil>>

Next ==
  \/ Tick
  \/ \E c \in Callers :
       \/ \E h \in Chats, r \in BOOLEAN : Enter(c, h, r)
       \/ Grant(c) \/ Nap(c) \/ Wake(c) \/ GiveUp(c) \/ Finish(c)
       \/ \E d \in Pauses : Pause(c, d)
  \/ \E h \in Chats : ForgetChat(h)

Spec == Init /\ [][Next]_vars

-----------------------------------------------------------------------------
(* Properties.                                                             *)

Granted(c) == caller[c].pc = "asking" /\ caller'[c].pc = "granted"

\* Two grants are never closer than the limits allow: 20 sends a second in all,
\* one a second for one chat and five reminders a second, although the keys that
\* remember the last grant expire.
GrantsAreSpaced ==
  [][\A c \in Callers : Granted(c) =>
       /\ now >= globalFrom
       /\ now >= chatFrom[caller[c].chat]
       /\ caller[c].repeat => now >= repeatFrom]_vars

\* After a 429 nobody is granted a slot before the longest pause that Telegram
\* asked for is over, whichever consumers reported which pauses in which order.
PausesAreKept ==
  [][\A c \in Callers : Granted(c) => now >= pausedUntil]_vars

\* While an instant of the history lies ahead, a key that has not expired says so.
Remembers(k, from) == now < from => Live(k) /\ from <= k.at

\* What makes the two properties hold: no key expires before the instant it holds.
KeysRemember ==
  /\ \A k \in {globalKey, repeatKey} : k.at <= k.dies
  /\ \A h \in Chats : chatKey[h].at <= chatKey[h].dies
  /\ Remembers(globalKey, globalFrom)
  /\ Remembers(globalKey, pausedUntil)
  /\ Remembers(repeatKey, repeatFrom)
  /\ \A h \in Chats : Remembers(chatKey[h], chatFrom[h])
=============================================================================
