----------------------- MODULE StreamRetentionProofs -----------------------
(***************************************************************************)
(* For any number of groups, consumers and entries, trimming removes       *)
(* finished work only, and the removal of dead consumers loses none but    *)
(* what a consumer took after it was found dead.                           *)
(***************************************************************************)
EXTENDS StreamRetention, TLAPS

\* Numbers of entries are at most the last one given out; what a group was
\* delivered is pending, acknowledged, late or erased; and the stream has no holes
\* but for erased entries, so that a group that reads on misses nothing.
Bounded ==
  /\ kept \subseteq 1..last
  /\ \A g \in Groups : delivered[g] <= last
  /\ \A g \in Groups : \A e \in pending[g] : e <= delivered[g]

Accounted ==
  \A g \in Groups : \A e \in kept :
     e <= delivered[g] => e \in pending[g] \cup acked[g] \cup late[g]

NoHoles ==
  \A e \in kept : e..last \subseteq kept \cup erased

Started ==
  \A g \in Groups : g \notin exists => delivered[g] = 0 /\ pending[g] = {}

\* Whatever a consumer holds that was found dead, it took after that.
HeldLate ==
  \A g \in Groups : \A c \in doomed[g], e \in pending[g] :
     holder[g][e] = c => e \in late[g]

IInv == TypeOK /\ Bounded /\ Accounted /\ NoHoles /\ Started /\ HeldLate /\ WorkIsKept

LEMMA InitIInv == Init => IInv
BY RetentionAssumption
   DEF Init, IInv, TypeOK, Bounded, Accounted, NoHoles, Started, HeldLate, WorkIsKept

\* Entries that are kept or pending have numbers that were given out.
LEMMA NumbersBounded ==
  ASSUME IInv
  PROVE  /\ kept \subseteq 1..MaxEntries
         /\ \A g \in Groups : pending[g] \subseteq 1..MaxEntries
<1>1. MaxEntries \in Nat /\ last \in Nat /\ last <= MaxEntries
  BY RetentionAssumption DEF IInv, TypeOK
<1>2. kept \subseteq 1..last
  BY DEF IInv, Bounded
<1>3. ASSUME NEW g \in Groups, NEW e \in pending[g] PROVE e \in 1..MaxEntries
  <2>1. e \in Nat \ {0} /\ delivered[g] \in Nat
    BY DEF IInv, TypeOK
  <2>2. e <= delivered[g] /\ delivered[g] <= last
    BY DEF IInv, Bounded
  <2> QED
    BY <1>1, <2>1, <2>2
<1> QED
  BY <1>1, <1>2, <1>3

\* The floor is no later than the last entry delivered to any group, and no
\* later than any pending entry.
LEMMA FloorBelowWork ==
  ASSUME IInv, NEW f, Floor(f), NEW g \in exists
  PROVE  /\ f \in Nat
         /\ f <= delivered[g]
         /\ \A e \in pending[g] : f <= e
<1>1. PICK h \in exists : Candidate(h, f)
  BY DEF Floor
<1>2. f \in Nat
  BY <1>1 DEF Candidate, IInv, TypeOK
<1>3. PICK c \in {delivered[g]} \cup pending[g] : Candidate(g, c) /\ f <= c
  BY DEF Floor
<1>4. c \in Nat /\ c <= delivered[g] /\ \A e \in pending[g] : c <= e
  BY <1>3 DEF Candidate, IInv, TypeOK, Bounded
<1>5. delivered[g] \in Nat /\ pending[g] \subseteq Nat
  BY DEF IInv, TypeOK
<1> QED
  BY <1>2, <1>3, <1>4, <1>5

\* A consumer takes an entry: the history keeps up with the cleanup.
LEMMA TakesKeeps ==
  ASSUME IInv, NEW g \in Groups, NEW c \in Consumers, NEW e \in kept, Takes(g, c, e)
  PROVE  /\ holder' \in [Groups -> [1..MaxEntries -> Consumers \cup {Nobody}]]
         /\ silent' \in [Groups -> SUBSET Consumers]
         /\ late' \in [Groups -> SUBSET (Nat \ {0})]
         /\ \A h \in Groups : late[h] \subseteq late'[h]
         /\ \A h \in Groups : \A f \in 1..MaxEntries :
              holder'[h][f] = IF h = g /\ f = e THEN c ELSE holder[h][f]
         /\ c \in doomed[g] => e \in late'[g]
         /\ e \in 1..MaxEntries /\ e \in Nat \ {0}
<1>1. e \in 1..MaxEntries /\ e \in Nat \ {0}
  BY NumbersBounded DEF IInv, TypeOK
<1>2. holder \in [Groups -> [1..MaxEntries -> Consumers \cup {Nobody}]]
  BY DEF IInv, TypeOK
<1>3. /\ holder' \in [Groups -> [1..MaxEntries -> Consumers \cup {Nobody}]]
      /\ \A h \in Groups : \A f \in 1..MaxEntries :
           holder'[h][f] = IF h = g /\ f = e THEN c ELSE holder[h][f]
  <2> DEFINE row == [holder[g] EXCEPT ![e] = c]
  <2>1. holder' = [holder EXCEPT ![g] = row]
    BY DEF Takes
  <2>2. holder[g] \in [1..MaxEntries -> Consumers \cup {Nobody}]
    BY <1>2
  <2>3. /\ row \in [1..MaxEntries -> Consumers \cup {Nobody}]
        /\ \A f \in 1..MaxEntries : row[f] = IF f = e THEN c ELSE holder[g][f]
    BY <1>1, <2>2
  <2> HIDE DEF row
  <2> QED
    BY <1>2, <2>1, <2>3
<1>4. /\ late' \in [Groups -> SUBSET (Nat \ {0})]
      /\ \A h \in Groups : late[h] \subseteq late'[h]
      /\ c \in doomed[g] => e \in late'[g]
  BY <1>1 DEF Takes, IInv, TypeOK
<1>5. silent' \in [Groups -> SUBSET Consumers]
  BY DEF Takes, IInv, TypeOK
<1> QED
  BY <1>1, <1>3, <1>4, <1>5

LEMMA StreamSteps ==
  ASSUME IInv, XAdd \/ \E g \in Groups : CreateGroup(g)
  PROVE  IInv'
<1>0. TypeOK /\ Bounded /\ Accounted /\ NoHoles /\ Started /\ HeldLate /\ WorkIsKept
  BY DEF IInv
<1>1. CASE XAdd
  <2>1. TypeOK'
    BY <1>0, <1>1, RetentionAssumption DEF XAdd, group, TypeOK
  <2>5. Bounded'
    <3>1. UNCHANGED <<delivered, pending>> /\ last' = last + 1 /\ kept' = kept \cup {last + 1}
      BY <1>1 DEF XAdd, group
    <3>2. last \in Nat /\ \A g \in Groups : delivered[g] \in Nat
      BY <1>0 DEF TypeOK
    <3> QED
      BY <1>0, <3>1, <3>2 DEF Bounded
  <2>6. Started' /\ HeldLate'
    BY <1>0, <1>1 DEF XAdd, group, Started, HeldLate
  <2>2. Accounted'
    BY <1>0, <1>1 DEF XAdd, group, TypeOK, Bounded, Accounted
  <2>3. NoHoles'
    BY <1>0, <1>1 DEF XAdd, group, TypeOK, Bounded, NoHoles
  <2>4. WorkIsKept'
    <3>1. /\ UNCHANGED <<exists, delivered, pending, erased>>
          /\ last' = last + 1 /\ kept' = kept \cup {last + 1}
      BY <1>1 DEF XAdd, group
    <3>2. last \in Nat /\ \A g \in exists : delivered[g] \in Nat
      BY <1>0 DEF TypeOK
    <3> QED
      BY <1>0, <3>1, <3>2 DEF WorkIsKept
  <2> QED
    BY <2>1, <2>2, <2>3, <2>4, <2>5, <2>6 DEF IInv
<1>2. ASSUME NEW g \in Groups, CreateGroup(g) PROVE IInv'
  BY <1>0, <1>2 DEF CreateGroup, group, IInv, TypeOK, Bounded, Accounted, NoHoles, Started,
                    HeldLate, WorkIsKept
<1> QED
  BY <1>1, <1>2

LEMMA TrimStep == ASSUME IInv, Trim PROVE IInv'
<1>0. TypeOK /\ Bounded /\ Accounted /\ NoHoles /\ Started /\ HeldLate /\ WorkIsKept
  BY DEF IInv
<1>1. PICK f : Floor(f) /\ kept' = {e \in kept : e >= f}
  BY DEF Trim
<1>2. UNCHANGED <<last, exists, group, erased>>
  BY DEF Trim
<1>3. f \in Nat
  BY <1>1, FloorBelowWork DEF Trim
<1>4. TypeOK' /\ Bounded' /\ Accounted' /\ Started' /\ HeldLate'
  BY <1>0, <1>1, <1>2 DEF group, TypeOK, Bounded, Accounted, Started, HeldLate
<1>5. NoHoles'
  BY <1>0, <1>1, <1>2, <1>3 DEF TypeOK, Bounded, NoHoles
<1>6. WorkIsKept'
  <2> SUFFICES ASSUME NEW g \in exists
               PROVE  /\ pending[g] \subseteq kept'
                      /\ delivered[g] > 0 => (delivered[g] + 1)..last \subseteq kept' \cup erased
    BY <1>2 DEF group, WorkIsKept
  <2>1. f <= delivered[g] /\ \A e \in pending[g] : f <= e
    BY <1>1, FloorBelowWork
  <2> QED
    BY <1>0, <1>1, <1>3, <2>1 DEF WorkIsKept, TypeOK
<1> QED
  BY <1>4, <1>5, <1>6 DEF IInv

LEMMA ReadStep == ASSUME IInv, NEW g \in Groups, NEW c \in Consumers, Read(g, c) PROVE IInv'
<1>0. TypeOK /\ Bounded /\ Accounted /\ NoHoles /\ Started /\ HeldLate /\ WorkIsKept
  BY DEF IInv
<1>1. PICK e \in Unread(g) :
        /\ \A f \in Unread(g) : e <= f
        /\ delivered' = [delivered EXCEPT ![g] = e]
        /\ pending' = [pending EXCEPT ![g] = @ \cup {e}]
        /\ Takes(g, c, e)
  BY DEF Read
<1>2. g \in exists /\ UNCHANGED <<last, kept, exists, doomed, acked, erased>>
  BY DEF Read
<1>3. e \in kept /\ e > delivered[g] /\ e \in Nat /\ e <= last
  BY <1>0, <1>1 DEF Unread, TypeOK, Bounded
<1>4. /\ holder' \in [Groups -> [1..MaxEntries -> Consumers \cup {Nobody}]]
      /\ silent' \in [Groups -> SUBSET Consumers]
      /\ late' \in [Groups -> SUBSET (Nat \ {0})]
      /\ \A h \in Groups : late[h] \subseteq late'[h]
      /\ \A h \in Groups : \A f \in 1..MaxEntries :
           holder'[h][f] = IF h = g /\ f = e THEN c ELSE holder[h][f]
      /\ c \in doomed[g] => e \in late'[g]
      /\ e \in Nat \ {0}
  BY <1>1, <1>3, TakesKeeps
<1>5. TypeOK' /\ Started'
  BY <1>0, <1>1, <1>2, <1>3, <1>4 DEF TypeOK, Started
<1>6. Bounded'
  BY <1>0, <1>1, <1>2, <1>3 DEF TypeOK, Bounded
<1>7. Accounted'
  BY <1>0, <1>1, <1>2, <1>3, <1>4 DEF TypeOK, Accounted, Unread
<1>8. NoHoles'
  BY <1>0, <1>2 DEF NoHoles
<1>9. HeldLate'
  <2> SUFFICES ASSUME NEW h \in Groups, NEW d \in doomed[h], NEW f \in pending'[h],
                      holder'[h][f] = d
               PROVE  f \in late'[h]
    BY <1>2 DEF HeldLate
  <2>1. CASE h = g /\ f = e
    <3>1. e \in 1..MaxEntries /\ holder'[g][e] = c
      BY <1>3, <1>4, NumbersBounded
    <3> QED
      BY <1>2, <1>4, <2>1, <3>1
  <2>2. CASE ~(h = g /\ f = e)
    <3>1. f \in pending[h]
      BY <1>0, <1>1, <2>2 DEF TypeOK
    <3>2. f \in 1..MaxEntries
      BY <3>1, NumbersBounded
    <3> QED
      BY <1>0, <1>4, <2>2, <3>1, <3>2 DEF HeldLate
  <2> QED
    BY <2>1, <2>2
<1>10. WorkIsKept'
  <2>1. (e + 1)..last \subseteq kept \cup erased
    BY <1>0, <1>3 DEF NoHoles, TypeOK
  <2> QED
    BY <1>0, <1>1, <1>2, <1>3, <2>1 DEF WorkIsKept, TypeOK
<1> QED
  BY <1>5, <1>6, <1>7, <1>8, <1>9, <1>10 DEF IInv

LEMMA ClaimStep ==
  ASSUME IInv, NEW g \in Groups, NEW c \in Consumers, NEW e \in pending[g], Claim(g, c, e)
  PROVE  IInv'
<1>0. TypeOK /\ Bounded /\ Accounted /\ NoHoles /\ Started /\ HeldLate /\ WorkIsKept
  BY DEF IInv
<1>1. /\ Takes(g, c, e)
      /\ UNCHANGED <<last, kept, exists, delivered, pending, doomed, acked, erased>>
  BY DEF Claim
<1>2. e \in kept
  BY <1>0 DEF Started, WorkIsKept
<1>3. /\ holder' \in [Groups -> [1..MaxEntries -> Consumers \cup {Nobody}]]
      /\ silent' \in [Groups -> SUBSET Consumers]
      /\ late' \in [Groups -> SUBSET (Nat \ {0})]
      /\ \A h \in Groups : late[h] \subseteq late'[h]
      /\ \A h \in Groups : \A f \in 1..MaxEntries :
           holder'[h][f] = IF h = g /\ f = e THEN c ELSE holder[h][f]
      /\ c \in doomed[g] => e \in late'[g]
  BY <1>1, <1>2, TakesKeeps
<1>4. TypeOK' /\ Started' /\ Bounded' /\ NoHoles' /\ WorkIsKept'
  BY <1>0, <1>1, <1>3 DEF TypeOK, Started, Bounded, NoHoles, WorkIsKept
<1>5. Accounted'
  BY <1>0, <1>1, <1>3 DEF Accounted
<1>6. HeldLate'
  <2>1. \A h \in Groups : pending[h] \subseteq 1..MaxEntries
    BY NumbersBounded
  <2> QED
    BY <1>0, <1>1, <1>3, <2>1 DEF HeldLate
<1> QED
  BY <1>4, <1>5, <1>6 DEF IInv

LEMMA LeaveSteps ==
  ASSUME IInv,
         \/ \E g \in Groups : \E e \in pending[g] : Ack(g, e)
         \/ \E e \in kept : Erase(e)
  PROVE  IInv'
<1>0. TypeOK /\ Bounded /\ Accounted /\ NoHoles /\ Started /\ HeldLate /\ WorkIsKept
  BY DEF IInv
<1>1. \A g \in Groups : pending[g] \subseteq 1..MaxEntries
  BY NumbersBounded
<1>2. ASSUME NEW g \in Groups, NEW e \in pending[g], Ack(g, e) PROVE IInv'
  <2>1. TypeOK' /\ Bounded' /\ NoHoles' /\ Started'
    BY <1>0, <1>2 DEF Ack, TypeOK, Bounded, NoHoles, Started
  <2>2. Accounted' /\ WorkIsKept'
    BY <1>0, <1>2 DEF Ack, TypeOK, Accounted, WorkIsKept
  <2>3. HeldLate'
    BY <1>0, <1>1, <1>2 DEF Ack, TypeOK, HeldLate
  <2> QED
    BY <2>1, <2>2, <2>3 DEF IInv
<1>3. ASSUME NEW e \in kept, Erase(e) PROVE IInv'
  <2>1. TypeOK' /\ Bounded' /\ Started'
    BY <1>0, <1>3 DEF Erase, TypeOK, Bounded, Started
  <2>2. Accounted' /\ NoHoles'
    BY <1>0, <1>3 DEF Erase, TypeOK, Accounted, NoHoles
  <2>3. WorkIsKept'
    BY <1>0, <1>3 DEF Erase, TypeOK, WorkIsKept
  <2>4. HeldLate'
    BY <1>0, <1>1, <1>3 DEF Erase, TypeOK, HeldLate
  <2> QED
    BY <2>1, <2>2, <2>3, <2>4 DEF IInv
<1> QED
  BY <1>2, <1>3

\* The cleanup: what it takes away with a consumer was late.
LEMMA CleanupSteps ==
  ASSUME IInv, NEW g \in Groups,
         FindDead(g) \/ \E c \in Consumers : FallSilent(g, c) \/ RemoveDead(g, c) \/ SpareDead(g, c)
  PROVE  IInv'
<1>0. TypeOK /\ Bounded /\ Accounted /\ NoHoles /\ Started /\ HeldLate /\ WorkIsKept
  BY DEF IInv
<1>1. UNCHANGED <<last, kept, exists, delivered, acked, late, erased>>
  BY DEF FindDead, FallSilent, RemoveDead, SpareDead
<1> DEFINE Types == /\ silent' \in [Groups -> SUBSET Consumers]
                    /\ doomed' \in [Groups -> SUBSET Consumers]
           FoundIdle == \A h \in Groups : \A c \in doomed'[h] :
                          c \in doomed[h] \/ \A e \in pending[h] : holder[h][e] # c
<1>2. ASSUME UNCHANGED <<pending, holder>>, Types, FoundIdle PROVE IInv'
  <2>1. TypeOK' /\ Bounded' /\ Accounted' /\ NoHoles' /\ Started' /\ WorkIsKept'
    BY <1>0, <1>1, <1>2 DEF TypeOK, Bounded, Accounted, NoHoles, Started, WorkIsKept
  <2>2. HeldLate'
    BY <1>0, <1>1, <1>2 DEF HeldLate
  <2> QED
    BY <2>1, <2>2 DEF IInv
<1>3. CASE FindDead(g)
  <2>1. /\ doomed' = [doomed EXCEPT ![g] = @ \cup {c \in Consumers : Dead(g, c)}]
        /\ UNCHANGED <<pending, holder, silent>>
    BY <1>3 DEF FindDead
  <2>2. Types
    BY <1>0, <2>1 DEF TypeOK
  <2>3. FoundIdle
    BY <1>0, <2>1 DEF TypeOK, Dead
  <2> QED
    BY <1>2, <2>1, <2>2, <2>3
<1>4. ASSUME NEW c \in Consumers, FallSilent(g, c) PROVE IInv'
  <2>1. silent' = [silent EXCEPT ![g] = @ \cup {c}] /\ UNCHANGED <<pending, holder, doomed>>
    BY <1>4 DEF FallSilent
  <2>2. Types /\ FoundIdle
    BY <1>0, <2>1 DEF TypeOK
  <2> QED
    BY <1>2, <2>1, <2>2
<1>5. ASSUME NEW c \in Consumers, SpareDead(g, c) PROVE IInv'
  <2>1. doomed' = [doomed EXCEPT ![g] = @ \ {c}] /\ UNCHANGED <<pending, holder, silent>>
    BY <1>5 DEF SpareDead
  <2>2. Types /\ FoundIdle
    BY <1>0, <2>1 DEF TypeOK
  <2> QED
    BY <1>2, <2>1, <2>2
<1>6. ASSUME NEW c \in Consumers, RemoveDead(g, c) PROVE IInv'
  <2> DEFINE gone == {e \in pending[g] : holder[g][e] = c}
  <2>1. /\ c \in doomed[g]
        /\ doomed' \in {doomed, [doomed EXCEPT ![g] = @ \ {c}]}
        /\ silent' = [silent EXCEPT ![g] = @ \ {c}]
        /\ pending' = [pending EXCEPT ![g] = @ \ gone]
        /\ holder' = [holder EXCEPT ![g] =
                        [e \in 1..MaxEntries |-> IF @[e] = c THEN Nobody ELSE @[e]]]
    BY <1>6 DEF RemoveDead
  <2>2. /\ \A h \in Groups : pending'[h] \subseteq pending[h]
        /\ \A h \in Groups : pending[h] \subseteq 1..MaxEntries
        /\ \A h \in Groups : \A e \in pending[h] \ pending'[h] : e \in late[h]
    <3>1. \A h \in Groups : pending'[h] = IF h = g THEN pending[g] \ gone ELSE pending[h]
      BY <1>0, <2>1 DEF TypeOK
    <3>2. \A e \in gone : e \in late[g]
      BY <1>0, <2>1 DEF HeldLate
    <3> QED
      BY <3>1, <3>2, NumbersBounded
  <2>3. holder' \in [Groups -> [1..MaxEntries -> Consumers \cup {Nobody}]]
    BY <1>0, <2>1 DEF TypeOK
  <2>4. \A h \in Groups : \A e \in 1..MaxEntries :
          holder'[h][e] \in {holder[h][e], Nobody}
    BY <1>0, <2>1 DEF TypeOK
  <2>5. TypeOK'
    <3>1. pending' \in [Groups -> SUBSET (Nat \ {0})]
      BY <1>0, <2>1 DEF TypeOK
    <3>2. silent' \in [Groups -> SUBSET Consumers] /\ doomed' \in [Groups -> SUBSET Consumers]
      BY <1>0, <2>1 DEF TypeOK
    <3> QED
      BY <1>0, <1>1, <2>3, <3>1, <3>2 DEF TypeOK
  <2>6. Bounded' /\ NoHoles' /\ Started' /\ WorkIsKept'
    BY <1>0, <1>1, <2>2 DEF TypeOK, Bounded, NoHoles, Started, WorkIsKept
  <2>7. Accounted'
    BY <1>0, <1>1, <2>2 DEF Accounted
  <2>8. HeldLate'
    <3>1. \A h \in Groups : doomed'[h] \subseteq doomed[h] /\ Nobody \notin doomed[h]
      BY <1>0, <2>1, RetentionAssumption DEF TypeOK
    <3> QED
      BY <1>0, <1>1, <2>2, <2>4, <3>1 DEF HeldLate
  <2> QED
    BY <2>5, <2>6, <2>7, <2>8 DEF IInv
<1> QED
  BY <1>6, <1>3, <1>4, <1>5

LEMMA StepIInv == IInv /\ [Next]_vars => IInv'
<1> SUFFICES ASSUME IInv, [Next]_vars PROVE IInv'
  OBVIOUS
<1>1. CASE UNCHANGED vars
  BY <1>1 DEF vars, group, IInv, TypeOK, Bounded, Accounted, NoHoles, Started, HeldLate,
              WorkIsKept
<1> QED
  BY <1>1, StreamSteps, TrimStep, ReadStep, ClaimStep, LeaveSteps, CleanupSteps DEF Next

\* Whatever a group has still to read or to acknowledge is never trimmed away.
THEOREM WorkAlwaysKept == Spec => [](TypeOK /\ WorkIsKept)
<1>1. Spec => []IInv
  BY InitIInv, StepIInv, PTL DEF Spec
<1> QED
  BY <1>1, PTL DEF IInv

\* The removal of dead consumers loses no work, however it interleaves with reads and
\* claims, but what a consumer took after it had been found dead.
THEOREM CleanupLosesOnlyLate == Spec => []OnlyLateWorkIsLost
<1>1. IInv => OnlyLateWorkIsLost
  BY DEF IInv, TypeOK, Accounted, OnlyLateWorkIsLost
<1>2. Spec => []IInv
  BY InitIInv, StepIInv, PTL DEF Spec
<1> QED
  BY <1>1, <1>2, PTL

\* An entry that a trim removes had been acknowledged by every existing group, or was
\* taken by a consumer under the cleanup.
THEOREM TrimmedWasAcknowledged == Spec => TrimmedIsDone
<1>1. IInv /\ [Next]_vars =>
        [\A e \in kept \ (kept' \cup erased'), g \in exists : e \in acked[g] \cup late[g]]_vars
  <2> SUFFICES ASSUME IInv, Next, NEW e \in kept \ (kept' \cup erased'), NEW g \in exists
               PROVE  e \in acked[g] \cup late[g]
    OBVIOUS
  <2>1. Trim
    BY DEF Next, XAdd, CreateGroup, Read, Claim, Ack, Erase, FindDead, FallSilent,
           RemoveDead, SpareDead
  <2>2. PICK f : Floor(f) /\ kept' = {x \in kept : x >= f}
    BY <2>1 DEF Trim
  <2>3. f \in Nat /\ f <= delivered[g] /\ \A x \in pending[g] : f <= x
    BY <2>2, FloorBelowWork
  <2>4. e \in Nat /\ e < f /\ g \in Groups /\ delivered[g] \in Nat
    BY <2>2, <2>3 DEF IInv, TypeOK
  <2>5. e <= delivered[g] /\ e \notin pending[g]
    BY <2>3, <2>4
  <2> QED
    BY <2>4, <2>5 DEF IInv, Accounted
<1>2. Spec => []IInv
  BY InitIInv, StepIInv, PTL DEF Spec
<1> QED
  BY <1>1, <1>2, PTL DEF Spec, TrimmedIsDone
=============================================================================
