-------------------------- MODULE StreamRetention --------------------------
(***************************************************************************)
(* Trimming of a Redis stream that consumer groups read                    *)
(* (worker/stream_retention.py) and removal of consumers that died         *)
(* (cleanup_dead_consumers of worker/main.py) against the commands that    *)
(* other processes run on the stream meanwhile.  Entries are numbered in   *)
(* the order of XADD.                                                      *)
(***************************************************************************)
EXTENDS Naturals

CONSTANTS
  Groups,      \* names of consumer groups
  Swept,       \* the groups whose dead consumers are removed
  Consumers,   \* names of the consumers of a group
  Nobody,      \* holds what is not pending
  MaxEntries   \* bound on XADD

ASSUME RetentionAssumption ==
  MaxEntries \in Nat /\ Nobody \notin Consumers /\ Swept \subseteq Groups

VARIABLES
  last,       \* identifier of the newest entry, 0 when none was ever added
  kept,       \* entries the stream still holds
  exists,     \* groups that were created
  delivered,  \* last-delivered-id of a group, 0 for 0-0
  pending,    \* entries delivered to a group and not acknowledged
  holder,     \* the consumer each of them is pending for
  silent,     \* consumers whose last command is more than 24 hours old
  doomed,     \* consumers a cleanup has found silent and without work
  acked,      \* history: entries a group acknowledged
  late,       \* history: entries that a consumer took while it was doomed, and
              \* nobody acknowledged since
  erased      \* history: entries removed with their recipient

group == <<delivered, pending, holder, silent, doomed, acked, late>>
vars == <<last, kept, exists, group, erased>>

\* The types of the stream, of the positions of its groups and of their consumers.
TypeOK ==
  /\ last \in 0..MaxEntries
  /\ kept \subseteq Nat \ {0}
  /\ exists \subseteq Groups
  /\ delivered \in [Groups -> Nat]
  /\ pending \in [Groups -> SUBSET (Nat \ {0})]
  /\ holder \in [Groups -> [1..MaxEntries -> Consumers \cup {Nobody}]]
  /\ silent \in [Groups -> SUBSET Consumers]
  /\ doomed \in [Groups -> SUBSET Consumers]
  /\ acked \in [Groups -> SUBSET (Nat \ {0})]
  /\ late \in [Groups -> SUBSET (Nat \ {0})]
  /\ erased \subseteq Nat \ {0}

Init ==
  /\ last = 0
  /\ kept = {}
  /\ exists = {}
  /\ delivered = [g \in Groups |-> 0]
  /\ pending = [g \in Groups |-> {}]
  /\ holder = [g \in Groups |-> [e \in 1..MaxEntries |-> Nobody]]
  /\ silent = [g \in Groups |-> {}]
  /\ doomed = [g \in Groups |-> {}]
  /\ acked = [g \in Groups |-> {}]
  /\ late = [g \in Groups |-> {}]
  /\ erased = {}

XAdd ==
  /\ last < MaxEntries
  /\ last' = last + 1
  /\ kept' = kept \cup {last + 1}
  /\ UNCHANGED <<exists, group, erased>>

\* XGROUP CREATE with id 0: the group starts before the first entry.
CreateGroup(g) ==
  /\ g \notin exists
  /\ exists' = exists \cup {g}
  /\ UNCHANGED <<last, kept, group, erased>>

Unread(g) == {e \in kept : e > delivered[g]}

\* Any command of a consumer ends its silence, not its doom.
Takes(g, c, e) ==
  /\ holder' = [holder EXCEPT ![g][e] = c]
  /\ silent' = [silent EXCEPT ![g] = @ \ {c}]
  /\ late' = IF c \in doomed[g] THEN [late EXCEPT ![g] = @ \cup {e}] ELSE late

\* XREADGROUP with ">" delivers the oldest entry the group has not seen.
Read(g, c) ==
  /\ g \in exists
  /\ \E e \in Unread(g) :
       /\ \A f \in Unread(g) : e <= f
       /\ delivered' = [delivered EXCEPT ![g] = e]
       /\ pending' = [pending EXCEPT ![g] = @ \cup {e}]
       /\ Takes(g, c, e)
  /\ UNCHANGED <<last, kept, exists, doomed, acked, erased>>

\* XAUTOCLAIM moves an entry nobody answered for to another consumer.
Claim(g, c, e) ==
  /\ e \in pending[g]
  /\ Takes(g, c, e)
  /\ UNCHANGED <<last, kept, exists, delivered, pending, doomed, acked, erased>>

Ack(g, e) ==
  /\ e \in pending[g]
  /\ pending' = [pending EXCEPT ![g] = @ \ {e}]
  /\ holder' = [holder EXCEPT ![g][e] = Nobody]
  /\ acked' = [acked EXCEPT ![g] = @ \cup {e}]
  /\ late' = [late EXCEPT ![g] = @ \ {e}]
  /\ UNCHANGED <<last, kept, exists, delivered, silent, doomed, erased>>

\* Deleting a recipient acknowledges and removes the entries addressed to it.
Erase(e) ==
  /\ e \in kept
  /\ kept' = kept \ {e}
  /\ pending' = [g \in Groups |-> pending[g] \ {e}]
  /\ holder' = [g \in Groups |-> [holder[g] EXCEPT ![e] = Nobody]]
  /\ erased' = erased \cup {e}
  /\ UNCHANGED <<last, exists, delivered, silent, doomed, acked, late>>

-----------------------------------------------------------------------------
(* cleanup_dead_consumers, when a worker starts.                           *)

\* A consumer that died, or is suspended, sends nothing for 24 hours.
FallSilent(g, c) ==
  /\ g \in Swept
  /\ silent' = [silent EXCEPT ![g] = @ \cup {c}]
  /\ UNCHANGED <<last, kept, exists, delivered, pending, holder, doomed, acked, late,
                 erased>>

\* Mutation: only the silence is looked at.
DeadAnyway(g, c) == c \in silent[g]

\* Silent for 24 hours, with nothing pending.
Dead(g, c) == c \in silent[g] /\ \A e \in pending[g] : holder[g][e] # c

\* XINFO CONSUMERS: the reply is the list the loop of a starting worker works through.
FindDead(g) ==
  /\ g \in exists \cap Swept
  /\ doomed' = [doomed EXCEPT ![g] = @ \cup {c \in Consumers : Dead(g, c)}]
  /\ UNCHANGED <<last, kept, exists, delivered, pending, holder, silent, acked, late,
                 erased>>

\* XGROUP DELCONSUMER takes what the consumer holds by now with it.  Another worker
\* that is starting may have the same consumer on its list.
RemoveDead(g, c) ==
  LET gone == {e \in pending[g] : holder[g][e] = c} IN
  /\ c \in doomed[g]
  /\ doomed' \in {doomed, [doomed EXCEPT ![g] = @ \ {c}]}
  /\ silent' = [silent EXCEPT ![g] = @ \ {c}]
  /\ pending' = [pending EXCEPT ![g] = @ \ gone]
  /\ holder' = [holder EXCEPT ![g] = [e \in 1..MaxEntries |-> IF @[e] = c THEN Nobody ELSE @[e]]]
  /\ UNCHANGED <<last, kept, exists, delivered, acked, late, erased>>

\* A RedisError is logged and the loop goes on, or the worker dies.
SpareDead(g, c) ==
  /\ c \in doomed[g]
  /\ doomed' = [doomed EXCEPT ![g] = @ \ {c}]
  /\ UNCHANGED <<last, kept, exists, delivered, pending, holder, silent, acked, late,
                 erased>>

-----------------------------------------------------------------------------
(* trim_acknowledged_stream.                                               *)

\* Mutation: pending entries are not looked at.
CandidateDelivered(g, c) == c = delivered[g]

\* What TRIM_ACKNOWLEDGED_LUA computes for one group: its oldest pending entry,
\* or its last delivered one when nothing is pending.
Candidate(g, c) ==
  IF pending[g] # {} THEN c \in pending[g] /\ \A e \in pending[g] : c <= e
                     ELSE c = delivered[g]

\* Mutation: the greatest candidate.
FloorOfFastest(f) ==
  /\ \E g \in exists : Candidate(g, f)
  /\ \A g \in exists : \E c \in {delivered[g]} \cup pending[g] : Candidate(g, c) /\ f >= c

\* The least candidate over all groups.
Floor(f) ==
  /\ \E g \in exists : Candidate(g, f)
  /\ \A g \in exists : \E c \in {delivered[g]} \cup pending[g] : Candidate(g, c) /\ f <= c

\* One script: nothing without a group or with a group that has read nothing,
\* else XTRIM MINID.
Trim ==
  /\ exists # {}
  /\ \A g \in exists : ~Candidate(g, 0)
  /\ \E f \in kept \cup UNION {{delivered[g]} \cup pending[g] : g \in exists} :
       /\ Floor(f)
       /\ kept' = {e \in kept : e >= f}
  /\ UNCHANGED <<last, exists, group, erased>>

Next ==
  \/ XAdd \/ Trim
  \/ \E e \in kept : Erase(e)
  \/ \E g \in Groups :
       \/ CreateGroup(g) \/ FindDead(g)
       \/ \E e \in pending[g] : Ack(g, e)
       \/ \E c \in Consumers : \/ Read(g, c) \/ FallSilent(g, c)
                              \/ RemoveDead(g, c) \/ SpareDead(g, c)
                              \/ \E e \in pending[g] : Claim(g, c, e)

Spec == Init /\ [][Next]_vars

-----------------------------------------------------------------------------
(* Properties.                                                             *)

\* Trimming never takes away work: an entry that a group has been given and not
\* acknowledged, or that is still ahead of a group that has started to read, is
\* in the stream, unless it went with its recipient.
WorkIsKept ==
  \A g \in exists :
    /\ pending[g] \subseteq kept
    /\ delivered[g] > 0 => (delivered[g] + 1)..last \subseteq kept \cup erased

\* The cleanup loses no work but what a consumer took between the reply that found
\* it dead and its removal: whatever else was delivered and is in the stream is
\* pending or was acknowledged.
OnlyLateWorkIsLost ==
  \A g \in exists : \A e \in kept :
     e <= delivered[g] => e \in pending[g] \cup acked[g] \cup late[g]

\* What a trim removes had been acknowledged by every group of that moment, or had
\* gone with a consumer that came back under the cleanup.
TrimmedIsDone ==
  [][\A e \in kept \ (kept' \cup erased'), g \in exists : e \in acked[g] \cup late[g]]_vars
=============================================================================
