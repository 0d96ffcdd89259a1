------------------------- MODULE SourceWorkerProofs -------------------------
(***************************************************************************)
(* For every number of processes, posts, recipients, pages and failures:   *)
(* what is acknowledged was handled, recorded and audited, and late        *)
(* threats stay silent.                                                    *)
(***************************************************************************)
EXTENDS SourceWorker, TLAPS, FiniteSetTheorems, WellFoundedInduction

-----------------------------------------------------------------------------
(* Pages.                                                                  *)

\* A nonempty set of natural numbers has a least element.
LEMMA LeastExists ==
  ASSUME NEW S, S \subseteq Nat, S # {}
  PROVE  \E x \in S : \A y \in S : x <= y
<1> DEFINE R == {p \in Nat \X Nat : p[1] < p[2]}
<1>1. IsWellFoundedOn(R, Nat)
  BY NatLessThanWellFounded DEF OpToRel
<1>2. \A x \in Nat : \A y \in Nat : y < x => <<y, x>> \in R
  OBVIOUS
<1> HIDE DEF R
<1>3. PICK x \in S : \A y \in S : <<y, x>> \notin R
  BY <1>1, WFMin
<1>4. ASSUME NEW y \in S PROVE x <= y
  <2>1. x \in Nat /\ y \in Nat
    OBVIOUS
  <2>2. ~(y < x)
    BY <1>2, <1>3, <2>1
  <2>3. QED
    BY <2>1, <2>2
<1>5. QED
  BY <1>4

\* A nonempty set of natural numbers below a bound has a greatest element.
LEMMA GreatestExists ==
  ASSUME NEW S, S \subseteq Nat, S # {}, NEW b \in Nat, \A x \in S : x < b
  PROVE  \E x \in S : \A y \in S : y <= x
<1> DEFINE Bounds == {n \in Nat : \A x \in S : x <= n}
<1>1. b \in Bounds
  OBVIOUS
<1>2. PICK n \in Bounds : \A k \in Bounds : n <= k
  BY <1>1, LeastExists
<1>3. n \in S
  <2>1. SUFFICES ASSUME n \notin S PROVE FALSE
    OBVIOUS
  <2>2. ASSUME NEW x \in S PROVE n - 1 \in Nat /\ x <= n - 1
    <3>1. x \in Nat /\ n \in Nat
      OBVIOUS
    <3>2. x <= n /\ x # n
      BY <2>1
    <3>3. QED
      BY <3>1, <3>2
  <2>3. n - 1 \in Bounds
    BY <2>2
  <2>4. n <= n - 1 /\ n \in Nat
    BY <1>2, <2>3
  <2>5. QED
    BY <2>4
<1>4. QED
  BY <1>2, <1>3

\* The first page of a set of users: it is empty only if the set is, it holds
\* the smallest users, and a page that is not full holds them all.
LEMMA PageFacts ==
  ASSUME NEW S, S \subseteq Nat
  PROVE  /\ FirstPage(S) \subseteq S
         /\ FirstPage(S) = {} => S = {}
         /\ \A u \in FirstPage(S), v \in S \ FirstPage(S) : u < v
         /\ Cardinality(FirstPage(S)) # PageSize => FirstPage(S) = S
<1> DEFINE Below(u) == {v \in S : v < u}
           P == FirstPage(S)
<1>1. P = {u \in S : Cardinality(Below(u)) < PageSize}
  BY DEF FirstPage
<1>2. PageSize \in Nat \ {0}
  BY SourceAssumption
<1> HIDE DEF P
<1>3. \A u \in Nat : IsFiniteSet(Below(u)) /\ Cardinality(Below(u)) \in Nat
  <2>1. SUFFICES ASSUME NEW u \in Nat PROVE IsFiniteSet(Below(u))
    BY FS_CardinalityType
  <2>2. ASSUME NEW w \in Below(u) PROVE w \in 0..u
    <3>1. w \in Nat /\ w < u
      OBVIOUS
    <3>2. QED
      BY <3>1
  <2>3. IsFiniteSet(0..u)
    BY FS_Interval
  <2>4. QED
    BY <2>2, <2>3, FS_Subset
<1>4. \A u \in P : \A v \in S : v <= u => v \in P
  <2>0. SUFFICES ASSUME NEW u \in P, NEW v \in S, v <= u PROVE v \in P
    OBVIOUS
  <2>1. u \in S /\ u \in Nat /\ v \in Nat
    BY <1>1
  <2>2. ASSUME NEW w \in Below(v) PROVE w \in Below(u)
    <3>1. w \in S /\ w \in Nat /\ w < v
      OBVIOUS
    <3>2. w < u
      BY <2>0, <2>1, <3>1
    <3>3. QED
      BY <3>1, <3>2
  <2>3. Cardinality(Below(v)) <= Cardinality(Below(u))
    BY <2>1, <2>2, <1>3, FS_Subset
  <2>4. Cardinality(Below(v)) \in Nat /\ Cardinality(Below(u)) \in Nat
    BY <2>1, <1>3
  <2>5. Cardinality(Below(u)) < PageSize
    BY <1>1
  <2>6. Cardinality(Below(v)) < PageSize
    BY <2>3, <2>4, <2>5, <1>2
  <2>7. QED
    BY <2>6, <1>1
<1>5. ASSUME NEW v \in S, v \notin P, \A w \in S \ P : v <= w
      PROVE  Cardinality(P) = PageSize
  <2>1. P = Below(v)
    <3>1. ASSUME NEW w \in P PROVE w \in Below(v)
      <4>1. w \in S /\ w \in Nat /\ v \in Nat
        BY <1>1
      <4>2. ~(v <= w)
        BY <1>4, <1>5
      <4>3. QED
        BY <4>1, <4>2
    <3>2. ASSUME NEW w \in Below(v) PROVE w \in P
      <4>1. w \in S /\ w \in Nat /\ v \in Nat /\ w < v
        OBVIOUS
      <4>2. ~(v <= w)
        BY <4>1
      <4>3. QED
        BY <4>1, <4>2, <1>5
    <3>3. QED
      BY <3>1, <3>2
  <2>2. v \in Nat /\ Cardinality(Below(v)) \in Nat /\ IsFiniteSet(Below(v))
    BY <1>3
  <2>3. Cardinality(Below(v)) >= PageSize
    BY <1>5, <1>1, <1>2, <2>2
  <2>4. Below(v) # {}
    BY <2>3, <1>2, FS_EmptySet
  <2>5. Below(v) \subseteq Nat /\ \A w \in Below(v) : w < v
    OBVIOUS
  <2>6. PICK u \in Below(v) : \A w \in Below(v) : w <= u
    <3> HIDE DEF Below
    <3>1. QED
      BY <2>2, <2>4, <2>5, GreatestExists
  <2>7. u \in S /\ u \in Nat /\ u < v
    BY <2>6
  <2>8. Below(u) = Below(v) \ {u}
    <3>1. ASSUME NEW w \in S PROVE w < u <=> w < v /\ w # u
      <4>1. w \in Nat
        OBVIOUS
      <4>2. w < v => w <= u
        BY <2>6
      <4>3. QED
        BY <4>1, <4>2, <2>2, <2>7
    <3>2. QED
      BY <3>1
  <2>9. Cardinality(Below(u)) = Cardinality(Below(v)) - 1
    <3> HIDE DEF Below
    <3>1. QED
      BY <2>2, <2>6, <2>8, FS_RemoveElement
  <2>10. Cardinality(Below(u)) < PageSize
    BY <2>1, <2>6, <1>1
  <2>11. QED
    <3> HIDE DEF Below
    <3>1. QED
      BY <2>1, <2>2, <2>3, <2>9, <2>10, <1>2
<1>6. P # S => Cardinality(P) = PageSize
  <2>1. SUFFICES ASSUME P # S PROVE Cardinality(P) = PageSize
    OBVIOUS
  <2>2. S \ P # {} /\ S \ P \subseteq Nat
    BY <2>1, <1>1
  <2>3. PICK v \in S \ P : \A w \in S \ P : v <= w
    BY <2>2, LeastExists
  <2>4. QED
    BY <2>3, <1>5
<1>7. P = {} => S = {}
  BY <1>6, <1>2, FS_EmptySet
<1>8. ASSUME NEW u \in P, NEW v \in S \ P PROVE u < v
  <2>1. u \in Nat /\ v \in Nat
    BY <1>1
  <2>2. ~(v <= u)
    BY <1>4
  <2>3. QED
    BY <2>1, <2>2
<1>9. QED
  BY <1>1, <1>6, <1>7, <1>8 DEF P

-----------------------------------------------------------------------------
(* The invariant.                                                          *)

\* What the group has read of the stream.
Read == {log[i] : i \in 1..(next - 1)}

\* Only what was read is pending, in a task's hands, or has chains.
Located ==
  /\ \A m \in Msgs \ Read : owner[m] = None /\ chains[m] = {}
  /\ \A t \in Tasks : tk[t].batch \subseteq Read

\* The histories agree with the world, and no post is audited twice.
Dated ==
  /\ recovered \subseteq old
  /\ \A m \in Msgs : steady[m] \subseteq subscribed /\ audits[m] <= 1

\* Every published post that needs no delivery was noted.
Noted == \A m \in Published : NeedsNone(m) => m \in excused

\* The all-clear that a late post was published under still covers it.
StillCovered == \A m \in late : Covered(m)

Begun(t) == tk[t].pc \in Handling \ {"start"}
Valid(m) == Body[m].status # "invalid"

\* Task t has recorded the all-clears of its post but for those it still has to.
ClearsKept(t) ==
  Begun(t) /\ Valid(Current(t)) =>
    \A s \in Body[Current(t)].clears :
      clearId[s] >= Current(t) \/ (At(t, "clears") /\ s \in tk[t].scopes)

\* Task t has audited its post if it was historical when published.
AuditKept(t) ==
  Begun(t) /\ Valid(Current(t)) /\ Current(t) \in recovered => audits[Current(t)] = 1

\* Task t does not get past the checks with a late post.
LateStopped(t) ==
  /\ At(t, "scoped") => Body[Current(t)].locs # {}
  /\ Begun(t) /\ Current(t) \in late =>
       /\ tk[t].pc \in {"clears", "global", "scoped", "ack"}
       /\ At(t, "scoped") => \A l \in Body[Current(t)].locs : Overrules(l, Current(t))

Served(m) == m \in excused \cup dead \/ steady[m] \subseteq chains[m]

\* How far task t has come with its fan-out: steady subscribers have a chain,
\* are on the page in hand, or come on a later page.
FannedOut(t) ==
  LET m == Current(t) IN
  /\ At(t, "ack") => m \in excused
  /\ At(t, "page") => \A u \in steady[m] : u \in chains[m] \/ u > tk[t].after
  /\ At(t, "dispatch") =>
       /\ tk[t].todo # {}
       /\ \A u \in steady[m] : \/ u \in chains[m] \cup tk[t].todo
                               \/ tk[t].full /\ \A v \in tk[t].todo : v < u
  /\ tk[t].pc \in {"finish", "forget"} => Served(m)

Progress(t) == ClearsKept(t) /\ AuditKept(t) /\ LateStopped(t) /\ FannedOut(t)

Settled(m) ==
  /\ Served(m)
  /\ Valid(m) => /\ \A s \in Body[m].clears : clearId[s] >= m
                 /\ m \in recovered => audits[m] = 1

SInv ==
  /\ TypeOK /\ Located /\ Dated /\ Noted /\ StillCovered
  /\ LateThreatsStaySilent
  /\ \A t \in Tasks : Progress(t)
  /\ \A m \in Acked : Settled(m)

-----------------------------------------------------------------------------
(* What every step keeps.                                                  *)

USE SourceAssumption DEF Tasks, Roles

\* The entry in hand is of the batch, and was read.
LEMMA CurrentFacts ==
  ASSUME TypeOK, Located, NEW t \in Tasks, tk[t].batch # {}
  PROVE  Current(t) \in tk[t].batch /\ Current(t) \in Msgs /\ Current(t) \in Read
<1> DEFINE left == {i \in 1..Len(log) : log[i] \in tk[t].batch}
<1>1. Len(log) \in Nat /\ next \in 1..(Len(log) + 1) /\ tk[t].batch \subseteq Msgs
  BY DEF TypeOK, Task
<1>2. PICK m \in tk[t].batch : m \in Read
  BY DEF Located
<1>3. PICK i \in 1..(next - 1) : log[i] = m
  BY <1>2 DEF Read
<1>4. i \in left
  BY <1>1, <1>2, <1>3
<1>5. left \subseteq Nat /\ left # {}
  BY <1>1, <1>4
<1>6. \E k \in left : \A j \in left : k <= j
  <2> HIDE DEF left
  <2>1. QED
    BY <1>5, LeastExists
<1>7. (CHOOSE k \in left : \A j \in left : k <= j) \in left
  BY <1>6
<1>8. Current(t) \in tk[t].batch
  BY <1>7 DEF Current
<1>9. QED
  BY <1>8, <1>1 DEF Located

\* A task works on the same entry as long as the stream and its batch last.
LEMMA CurrentSame ==
  ASSUME NEW t \in Tasks, log' = log, tk'[t].batch = tk[t].batch
  PROVE  Current(t)' = Current(t)
BY DEF Current

\* A task that handles nothing, or is at the start of a post, owes nothing.
LEMMA RestProgress ==
  ASSUME NEW t \in Tasks, tk'[t].pc \notin Handling \ {"start"}
  PROVE  Progress(t)'
BY DEF Progress, ClearsKept, AuditKept, LateStopped, FannedOut, Begun, At, Handling

\* What a step may do to the stores and histories without undoing anything.
Grows ==
  /\ \A s \in Scopes : clearId'[s] >= clearId[s]
  /\ excused \subseteq excused' /\ dead \subseteq dead'
  /\ \A m \in Read : /\ steady'[m] \subseteq steady[m]
                     /\ chains[m] \subseteq chains'[m]
                     /\ m \in late' => m \in late
                     /\ m \in recovered' => m \in recovered
                     /\ audits[m] = 1 => audits'[m] = 1
  /\ \A v \in Tasks : tk'[v] = tk[v] /\ tk[v].batch # {} => Current(v)' = Current(v)

\* Scopes and the posts of a clear are of the right kind.
LEMMA BodyFacts ==
  ASSUME NEW m \in Msgs
  PROVE  /\ m \in Nat \ {0} /\ Body[m].locs \subseteq Scopes
         /\ Body[m].clears \subseteq Scopes /\ Global \in Scopes
         /\ Body[m].locs \subseteq Locations
BY DEF Scopes

LEMMA IdsAreNat ==
  ASSUME NEW n \in Msgs \cup {0}
  PROVE  n \in Nat
BY SourceAssumption

LEMMA ClearsAreNat ==
  ASSUME TypeOK, NEW s \in Scopes
  PROVE  clearId[s] \in Nat
<1>1. clearId[s] \in Msgs \cup {0}
  BY DEF TypeOK
<1>2. QED
  BY <1>1, IdsAreNat

\* What is newer than a post stays newer.
LEMMA NewerStays ==
  ASSUME TypeOK, TypeOK', Grows, NEW m \in Msgs, NEW s \in Scopes
  PROVE  /\ clearId[s] >= m => clearId'[s] >= m
         /\ Overrules(s, m) => Overrules(s, m)'
<1>1. clearId[s] \in Nat /\ clearId'[s] \in Nat /\ m \in Nat
  <2>1. clearId'[s] \in Msgs \cup {0}
    BY DEF TypeOK
  <2>2. QED
    BY <2>1, ClearsAreNat, IdsAreNat
<1>2. clearId'[s] >= clearId[s]
  BY DEF Grows
<1>3. QED
  BY <1>1, <1>2 DEF Overrules

LEMMA CoveredStays ==
  ASSUME TypeOK, TypeOK', Grows, NEW m \in Msgs, Covered(m)
  PROVE  Covered(m)'
<1>1. Covered(m) <=> \/ Overrules(Global, m)
                     \/ Body[m].locs # {} /\ \A l \in Body[m].locs : Overrules(l, m)
  BY DEF Covered, Overrules
<1>2. Covered(m)' <=> \/ Overrules(Global, m)'
                      \/ Body[m].locs # {} /\ \A l \in Body[m].locs : Overrules(l, m)'
  BY DEF Covered, Overrules
<1>3. QED
  BY <1>1, <1>2, NewerStays, BodyFacts

LEMMA ServedStays ==
  ASSUME Grows, NEW m \in Read, Served(m)
  PROVE  Served(m)'
BY DEF Grows, Served

LEMMA SettledStays ==
  ASSUME TypeOK, TypeOK', Grows, NEW m \in Read, m \in Msgs, Settled(m)
  PROVE  Settled(m)'
<1>1. Served(m)'
  BY ServedStays DEF Settled
<1>2. Valid(m)' <=> Valid(m)
  BY DEF Valid
<1>3. Valid(m) => \A s \in Body[m].clears : clearId'[s] >= m
  BY NewerStays, BodyFacts DEF Settled
<1>4. Valid(m) /\ m \in recovered' => audits'[m] = 1
  BY DEF Settled, Grows
<1>5. QED
  BY <1>1, <1>2, <1>3, <1>4 DEF Settled

\* A task that does not step keeps its progress.
LEMMA ProgressStays ==
  ASSUME TypeOK, TypeOK', Located, Grows, NEW t \in Tasks, tk'[t] = tk[t], Progress(t)
  PROVE  Progress(t)'
<1>1. CASE tk[t].batch = {}
  <2>1. tk'[t].pc \notin Handling \ {"start"}
    BY <1>1 DEF TypeOK
  <2>2. QED
    BY <2>1, RestProgress
<1>2. CASE tk[t].batch # {}
  <2>0. PICK m \in Msgs : m = Current(t) /\ m \in Read
    BY <1>2, CurrentFacts
  <2>1. Current(t)' = m /\ Current(t) = m /\ m \in Read
    BY <1>2, <2>0 DEF Grows
  <2>2. (Valid(m)' <=> Valid(m)) /\ (Begun(t)' <=> Begun(t)) /\ \A pc : At(t, pc)' <=> At(t, pc)
    BY DEF Valid, Begun, At
  <2>3. ClearsKept(t)'
    <3>1. Begun(t) /\ Valid(m) => \A s \in Body[m].clears :
             clearId[s] >= m \/ (At(t, "clears") /\ s \in tk[t].scopes)
      BY <2>1 DEF Progress, ClearsKept
    <3>2. Begun(t) /\ Valid(m) => \A s \in Body[m].clears :
             clearId'[s] >= m \/ (At(t, "clears") /\ s \in tk[t].scopes)
      BY <3>1, <2>1, NewerStays, BodyFacts
    <3>3. QED
      BY <3>2, <2>1, <2>2 DEF ClearsKept, Valid
  <2>4. AuditKept(t)'
    BY <2>1, <2>2 DEF Progress, AuditKept, Grows, Valid
  <2>5. LateStopped(t)'
    <3>1. Begun(t) /\ m \in late' =>
             /\ tk[t].pc \in {"clears", "global", "scoped", "ack"}
             /\ At(t, "scoped") => \A l \in Body[m].locs : Overrules(l, m)
      BY <2>1 DEF Progress, LateStopped, Grows
    <3>2. (\A l \in Body[m].locs : Overrules(l, m)) =>
             \A l \in Body[m].locs : Overrules(l, m)'
      BY <2>1, NewerStays, BodyFacts
    <3>3. At(t, "scoped") => Body[m].locs # {}
      BY <2>1 DEF Progress, LateStopped
    <3>4. QED
      BY <3>1, <3>2, <3>3, <2>1, <2>2 DEF LateStopped, Overrules
  <2>6. FannedOut(t)'
    <3>1. Served(m) => Served(m)'
      BY <2>1, ServedStays
    <3>2. steady'[m] \subseteq steady[m] /\ chains[m] \subseteq chains'[m]
          /\ excused \subseteq excused'
      BY <2>1 DEF Grows
    <3>3. QED
      BY <3>1, <3>2, <2>1, <2>2 DEF Progress, FannedOut, Served
  <2>7. QED
    BY <2>3, <2>4, <2>5, <2>6 DEF Progress
<1>3. QED
  BY <1>1, <1>2

LEMMA AckedIsRead ==
  ASSUME TypeOK, NEW m \in Acked
  PROVE  m \in Read /\ m \in Msgs
<1>1. PICK i \in 1..Len(log) : log[i] = m
  BY DEF TypeOK, Acked, Published, Range
<1>2. i \notin next..Len(log) /\ Len(log) \in Nat /\ next \in Nat
  BY <1>1 DEF TypeOK, Acked, Unread
<1>3. i \in 1..(next - 1)
  BY <1>2
<1>4. QED
  BY <1>1, <1>3 DEF Read, TypeOK

\* Whatever grows the stores keeps the invariant if those who step do.
LEMMA Preserved ==
  ASSUME SInv, TypeOK', Dated', Noted', Grows, Read \subseteq Read',
         \A m \in Msgs \ Read' : owner'[m] = None /\ chains'[m] = {},
         \A t \in Tasks : tk'[t] = tk[t] \/ (tk'[t].batch \subseteq Read' /\ Progress(t)'),
         \A m \in late' : chains'[m] = {} /\ (m \in late \/ Covered(m)'),
         \A m \in Acked' : m \in Acked \/ Settled(m)'
  PROVE  SInv'
<1>0. TypeOK /\ Located /\ StillCovered
  BY DEF SInv
<1>1. Located'
  BY <1>0 DEF Located
<1>2. StillCovered'
  <2>1. late \subseteq Msgs
    BY <1>0 DEF TypeOK
  <2>2. QED
    BY <1>0, <2>1, CoveredStays DEF StillCovered
<1>3. LateThreatsStaySilent'
  BY DEF LateThreatsStaySilent
<1>4. ASSUME NEW t \in Tasks PROVE Progress(t)'
  BY <1>0, ProgressStays DEF SInv
<1>5. ASSUME NEW m \in Acked' PROVE Settled(m)'
  BY <1>0, AckedIsRead, SettledStays DEF SInv
<1>6. QED
  BY <1>1, <1>2, <1>3, <1>4, <1>5 DEF SInv

-----------------------------------------------------------------------------
(* Steps of one task.                                                      *)

LEMMA ReadIsPosts ==
  ASSUME TypeOK
  PROVE  Read \subseteq Msgs /\ Read \subseteq Published
<1>1. ASSUME NEW i \in 1..(next - 1) PROVE log[i] \in Msgs /\ log[i] \in Published
  <2>1. Len(log) \in Nat /\ next \in 1..(Len(log) + 1) /\ log \in Seq(Msgs)
    BY DEF TypeOK
  <2>2. i \in 1..Len(log)
    BY <2>1
  <2>3. QED
    BY <2>1, <2>2 DEF Published, Range
<1>2. QED
  BY <1>1 DEF Read

\* A step of task t that does not touch the order of the stream or the world.
LEMMA TaskStep ==
  ASSUME SInv, TypeOK', Noted', NEW t \in Tasks, \A v \in Tasks \ {t} : tk'[v] = tk[v],
         UNCHANGED <<log, next, world, steady, late, recovered>>,
         \A s \in Scopes : clearId'[s] >= clearId[s],
         excused \subseteq excused', dead \subseteq dead',
         \A m \in Msgs : /\ chains[m] \subseteq chains'[m]
                         /\ m \notin Read \/ m \in late => chains'[m] = chains[m]
                         /\ audits'[m] = audits[m] \/ audits'[m] = 1
                         /\ owner'[m] # None => m \in Read,
         tk'[t].batch \subseteq Read, Progress(t)',
         \A m \in Read : owner'[m] = None /\ owner[m] # None => Settled(m)'
  PROVE  SInv'
<1>0. TypeOK /\ Located /\ Dated /\ LateThreatsStaySilent
  BY DEF SInv
<1>1. Read' = Read /\ Read \subseteq Msgs
  BY <1>0, ReadIsPosts DEF Read
<1>2. Dated'
  <2>1. recovered' = recovered /\ old' = old /\ steady' = steady /\ subscribed' = subscribed
    BY DEF world
  <2>2. QED
    BY <2>1, <1>0 DEF Dated
<1>3. Grows
  <2>1. \A v \in Tasks : tk'[v] = tk[v] => Current(v)' = Current(v)
    BY CurrentSame
  <2>2. QED
    BY <2>1, <1>1 DEF Grows
<1>4. \A m \in Msgs \ Read' : owner'[m] = None /\ chains'[m] = {}
  BY <1>0, <1>1 DEF Located
<1>5. \A m \in late' : chains'[m] = {} /\ m \in late
  BY <1>0 DEF LateThreatsStaySilent, TypeOK
<1>6. \A m \in Acked' : m \in Acked \/ Settled(m)'
  <2>1. SUFFICES ASSUME NEW m \in Acked', ~ Settled(m)' PROVE m \in Acked
    OBVIOUS
  <2>2. m \in Published \ Unread /\ owner'[m] = None
    BY DEF Acked, Published, Unread
  <2>3. m \in Read
    BY <1>1, AckedIsRead DEF Acked, Published, Unread, TypeOK, Range, Read
  <2>4. QED
    BY <2>1, <2>2, <2>3 DEF Acked
<1>7. QED
  BY <1>1, <1>2, <1>3, <1>4, <1>5, <1>6, Preserved

\* A step that frees no post from delivery leaves every such post noted.
LEMMA QuietNoted ==
  ASSUME SInv, TypeOK', UNCHANGED <<log, clearId, night, official, excused>>,
         old \subseteq old',
         \A t \in Tasks : tk'[t].pc \in Handling \ {"start"} =>
           /\ tk'[t].batch = tk[t].batch
           /\ \/ Begun(t) /\ tk'[t].stale = tk[t].stale
              \/ tk'[t].stale = (Current(t) \in old)
              \/ ~ Valid(Current(t))
  PROVE  Noted'
<1>1. SUFFICES ASSUME NEW m \in Published, NeedsNone(m)' PROVE NeedsNone(m)
  BY DEF SInv, Noted, Published
<1>2. (Covered(m)' <=> Covered(m)) /\ (Relevant(m)' <=> Relevant(m))
  BY DEF Covered, Relevant
<1>3. CASE \E t \in InHand(m)' : ~ tk'[t].stale /\ ~ night'
  <2>1. PICK t \in Tasks : /\ tk'[t].batch # {} /\ Current(t)' = m /\ tk'[t].pc # "start"
                           /\ ~ tk'[t].stale /\ ~ night'
    BY <1>3 DEF InHand
  <2>2. tk'[t].pc \in Handling \ {"start"}
    BY <2>1 DEF TypeOK
  <2>3. tk'[t].batch = tk[t].batch
    BY <2>2
  <2>4. Current(t) = m
    BY <2>1, <2>3, CurrentSame
  <2>5. CASE Begun(t) /\ tk'[t].stale = tk[t].stale
    BY <2>1, <2>3, <2>4, <2>5 DEF InHand, NeedsNone, Begun
  <2>6. CASE tk'[t].stale = (Current(t) \in old)
    BY <2>1, <2>4, <2>6 DEF NeedsNone
  <2>7. CASE ~ Valid(Current(t))
    BY <2>4, <2>7 DEF NeedsNone, Valid
  <2>8. QED
    BY <2>2, <2>5, <2>6, <2>7
<1>4. CASE ~ \E t \in InHand(m)' : ~ tk'[t].stale /\ ~ night'
  BY <1>1, <1>2, <1>4 DEF NeedsNone
<1>5. QED
  BY <1>3, <1>4

\* A step that notes every such post.
LEMMA NoteNoted ==
  ASSUME NoteExcused
  PROVE  Noted' /\ excused \subseteq excused'
BY DEF NoteExcused, Noted, Published

\* A step after which task t has nothing in hand.
LEMMA RestStep ==
  ASSUME SInv, TypeOK', NEW t \in Tasks, \A v \in Tasks \ {t} : tk'[v] = tk[v],
         UNCHANGED <<log, next, clearId, audits, dead, chains, world, history>>,
         tk'[t].pc \notin Handling \ {"start"}, tk'[t].batch \subseteq Read,
         \A m \in Msgs : owner'[m] # None => m \in Read,
         \A m \in Read : owner'[m] = None /\ owner[m] # None => Settled(m)
  PROVE  SInv'
<1>1. Progress(t)'
  BY RestProgress
<1>2. UNCHANGED <<subscribed, night, official, old, steady, excused, late, recovered>>
  BY DEF world, history
<1>3. Noted'
  <2>1. ASSUME NEW v \in Tasks, tk'[v].pc \in Handling \ {"start"}
        PROVE  tk'[v] = tk[v] /\ Begun(v)
    BY <2>1 DEF Begun
  <2>2. QED
    BY <2>1, <1>2, QuietNoted
<1>4. \A m : Settled(m) => Settled(m)'
  BY <1>2 DEF Settled, Served, Valid
<1>5. \A s \in Scopes : clearId'[s] >= clearId[s]
  BY ClearsAreNat DEF SInv
<1>6. QED
  BY <1>1, <1>2, <1>3, <1>4, <1>5, TaskStep

\* A step of task t with the post it has in hand.
LEMMA HoldStep ==
  ASSUME SInv, TypeOK', NEW t \in Tasks, \A v \in Tasks \ {t} : tk'[v] = tk[v],
         UNCHANGED <<log, next, clearId, audits, world, history>>, dead \subseteq dead',
         Begun(t), ~ At(t, "clears"),
         tk'[t].batch = tk[t].batch, tk'[t].stale = tk[t].stale,
         LateStopped(t)', FannedOut(t)',
         \A m \in Msgs : /\ chains[m] \subseteq chains'[m]
                         /\ m # Current(t) \/ m \in late => chains'[m] = chains[m]
                         /\ owner'[m] # None => owner[m] # None,
         \A m \in Read : owner'[m] = None /\ owner[m] # None => Settled(m)
  PROVE  SInv'
<1>0. TypeOK /\ Located /\ Progress(t) /\ tk[t].batch # {}
  BY DEF SInv, TypeOK, Begun
<1>1. PICK m \in Msgs : m = Current(t) /\ m \in Read
  BY <1>0, CurrentFacts
<1>2. Current(t)' = m /\ Current(t) = m
  BY <1>1, CurrentSame
<1>3. UNCHANGED <<subscribed, night, official, old, steady, excused, late, recovered>>
  BY DEF world, history
<1>4. ClearsKept(t)'
  BY <1>0, <1>2 DEF Progress, ClearsKept, Valid, At
<1>5. AuditKept(t)'
  BY <1>0, <1>2, <1>3 DEF Progress, AuditKept, Valid
<1>6. Progress(t)'
  BY <1>4, <1>5 DEF Progress
<1>7. Noted'
  <2>1. ASSUME NEW v \in Tasks, tk'[v].pc \in Handling \ {"start"}
        PROVE  tk'[v].batch = tk[v].batch /\ tk'[v].stale = tk[v].stale /\ Begun(v)
    BY <2>1 DEF Begun
  <2>2. QED
    BY <2>1, <1>3, QuietNoted
<1>8. ASSUME NEW n \in Read, Settled(n) PROVE Settled(n)'
  <2>1. n \in Msgs
    BY <1>0, <1>8 DEF Read, TypeOK
  <2>2. QED
    BY <2>1, <1>3, <1>8 DEF Settled, Served, Valid
<1>9. \A s \in Scopes : clearId'[s] >= clearId[s]
  BY <1>0, ClearsAreNat
<1>10. \A n \in Msgs : (owner'[n] # None => n \in Read)
                       /\ (n \notin Read => chains'[n] = chains[n])
  BY <1>0, <1>1 DEF Located
<1>11. tk'[t].batch \subseteq Read
  BY <1>0 DEF Located
<1>12. QED
  BY <1>3, <1>6, <1>7, <1>8, <1>9, <1>10, <1>11, TaskStep

-----------------------------------------------------------------------------
(* Types.                                                                  *)

Owners == [Msgs -> Procs \cup {None, Gone}]

LEMMA InitTypes == Init => TypeOK
<1> SUFFICES ASSUME Init PROVE TypeOK
  OBVIOUS
<1>1. log \in Seq(Msgs) /\ IsInjective(log) /\ next \in 1..(Len(log) + 1)
  BY DEF Init, IsInjective
<1>2. \A role \in Roles : Fresh(role) \in Task
  BY DEF Fresh, Task
<1>3. tk \in [Tasks -> Task] /\ \A t \in Tasks : tk[t].pc \notin Handling /\ tk[t].batch = {}
  <2>1. \A t \in Tasks : tk[t] = Fresh(t[2]) /\ t[2] \in Roles
    BY DEF Init
  <2>2. \A role \in Roles : Fresh(role).pc \notin Handling /\ Fresh(role).batch = {}
    BY DEF Fresh, Handling
  <2>3. tk = [t \in Tasks |-> Fresh(t[2])]
    BY DEF Init
  <2>4. QED
    BY <2>1, <2>2, <2>3, <1>2
<1>4. subscribed \subseteq Users
  BY DEF Init
<1>5. /\ owner \in [Msgs -> Procs \cup {None, Gone}] /\ idle \subseteq {m \in Msgs : owner[m] # None}
      /\ retry \in [Msgs -> 0..(MaxRetries + 1)] /\ moves \in 0..MaxMoves
  BY DEF Init
<1>6. /\ clearId \in [Scopes -> Msgs \cup {0}] /\ audits \in [Msgs -> Nat] /\ dead \subseteq Msgs
      /\ chains \in [Msgs -> SUBSET Users] /\ steady \in [Msgs -> SUBSET Users]
  BY DEF Init
<1>7. /\ night \in BOOLEAN /\ official \in BOOLEAN /\ old \subseteq Msgs
      /\ excused \subseteq Msgs /\ late \subseteq Msgs /\ recovered \subseteq Msgs
  BY DEF Init
<1>8. QED
  BY <1>1, <1>3, <1>4, <1>5, <1>6, <1>7 DEF TypeOK

\* The functions of tasks after a step of task t to x.
LEMMA TaskTypes ==
  ASSUME TypeOK, NEW t \in Tasks, NEW x \in Task, x.pc \in Handling <=> x.batch # {},
         tk' = [tk EXCEPT ![t] = x]
  PROVE  /\ tk' \in [Tasks -> Task] /\ tk'[t] = x
         /\ \A v \in Tasks \ {t} : tk'[v] = tk[v]
         /\ \A v \in Tasks : tk'[v].pc \in Handling <=> tk'[v].batch # {}
BY DEF TypeOK

\* Task t goes on to step p with the post it has in hand.
Goes(t, p) ==
  /\ tk' \in [Tasks -> Task]
  /\ \A v \in Tasks \ {t} : tk'[v] = tk[v]
  /\ \A v \in Tasks : tk'[v].pc \in Handling <=> tk'[v].batch # {}
  /\ tk'[t].pc = p /\ tk'[t].batch = tk[t].batch /\ tk'[t].stale = tk[t].stale

LEMMA GotoGoes ==
  ASSUME TypeOK, NEW t \in Tasks, NEW p \in Handling, tk[t].pc \in Handling, Goto(t, p)
  PROVE  /\ Goes(t, p)
         /\ tk'[t].scopes = tk[t].scopes /\ tk'[t].todo = tk[t].todo
         /\ tk'[t].after = tk[t].after /\ tk'[t].full = tk[t].full
<1> DEFINE x == [tk[t] EXCEPT !.pc = p]
<1>1. tk[t] \in Task /\ tk[t].batch # {}
  BY DEF TypeOK
<1>2. /\ x \in Task /\ x.pc = p /\ x.batch = tk[t].batch /\ x.stale = tk[t].stale
      /\ x.scopes = tk[t].scopes /\ x.todo = tk[t].todo
      /\ x.after = tk[t].after /\ x.full = tk[t].full
  BY <1>1 DEF Task
<1>3. tk' = [tk EXCEPT ![t] = x]
  BY DEF Goto
<1> HIDE DEF x
<1>4. QED
  BY <1>1, <1>2, <1>3, TaskTypes DEF Goes

\* Task t has nothing in hand afterwards.
Rests(t, batch) ==
  /\ tk' \in [Tasks -> Task]
  /\ \A v \in Tasks \ {t} : tk'[v] = tk[v]
  /\ \A v \in Tasks : tk'[v].pc \in Handling <=> tk'[v].batch # {}
  /\ tk'[t].pc \notin Handling \ {"start"} /\ tk'[t].batch \subseteq batch

LEMMA GiveRests ==
  ASSUME TypeOK, NEW t \in Tasks, NEW batch \in SUBSET Msgs, batch # {}, Give(t, batch)
  PROVE  Rests(t, batch)
<1> DEFINE x == [tk[t] EXCEPT !.pc = "start", !.batch = batch]
<1>1. tk[t] \in Task
  BY DEF TypeOK
<1>2. x \in Task /\ x.pc = "start" /\ x.batch = batch
  BY <1>1 DEF Task, Handling
<1>3. tk' = [tk EXCEPT ![t] = x]
  BY DEF Give
<1> HIDE DEF x
<1>4. "start" \in Handling
  BY DEF Handling
<1>5. QED
  BY <1>2, <1>3, <1>4, TaskTypes DEF Rests

LEMMA AdvanceRests ==
  ASSUME TypeOK, NEW t \in Tasks, Advance(t)
  PROVE  Rests(t, tk[t].batch)
<1> DEFINE rest == tk[t].batch \ {Current(t)}
           x == [Fresh(t[2]) EXCEPT !.pc = Onward(t, rest),
                   !.draining = tk[t].draining, !.batch = rest]
<1>1. tk[t] \in Task /\ rest \subseteq Msgs /\ rest \subseteq tk[t].batch
  BY DEF TypeOK, Task
<1>2. x \in Task /\ x.pc = Onward(t, rest) /\ x.batch = rest
  <2>1. Fresh(t[2]) \in Task
    BY DEF Fresh, Task
  <2>2. Onward(t, rest) \in Handling \cup {"drain", "wait"} /\ tk[t].draining \in BOOLEAN
    BY <1>1 DEF Onward, Task, Handling
  <2> HIDE DEF rest
  <2>3. QED
    BY <1>1, <2>1, <2>2 DEF Task
<1>3. tk' = [tk EXCEPT ![t] = x]
  BY DEF Advance
<1>4. /\ Onward(t, rest) \in Handling <=> rest # {}
      /\ Onward(t, rest) \notin Handling \ {"start"}
  BY DEF Onward, Handling
<1> HIDE DEF x, rest
<1>5. QED
  BY <1>1, <1>2, <1>3, <1>4, TaskTypes DEF Rests

\* Typed stores make a typed state.
LEMMA StepTypes ==
  ASSUME TypeOK, UNCHANGED <<log, next, clearId, world, history, moves>>,
         tk' \in [Tasks -> Task],
         \A v \in Tasks : tk'[v].pc \in Handling <=> tk'[v].batch # {},
         owner' \in Owners, idle' \subseteq {m \in Msgs : owner'[m] # None},
         retry' \in [Msgs -> 0..(MaxRetries + 1)], audits' \in [Msgs -> Nat],
         dead' \subseteq Msgs, chains' \in [Msgs -> SUBSET Users]
  PROVE  TypeOK'
BY DEF TypeOK, world, history, Owners

\* The stores after an acknowledgement.
LEMMA XAckFacts ==
  ASSUME TypeOK, Located, NEW m \in Msgs, XAck(m)
  PROVE  /\ owner' \in Owners /\ idle' \subseteq {n \in Msgs : owner'[n] # None}
         /\ \A n \in Msgs : owner'[n] # None => owner[n] # None
         /\ \A n \in Msgs : owner'[n] = None /\ owner[n] # None => n = m
BY DEF XAck, TypeOK, Owners

-----------------------------------------------------------------------------
(* The steps of a task.                                                    *)

LEMMA InitSInv == Init => SInv
<1> SUFFICES ASSUME Init PROVE SInv
  OBVIOUS
<1>1. TypeOK
  BY InitTypes
<1>2. \A t \in Tasks : tk[t].batch = {} /\ tk[t].pc \notin Handling
  <2>1. \A t \in Tasks : tk[t] = Fresh(t[2])
    BY DEF Init
  <2>2. \A role \in Roles : Fresh(role).batch = {} /\ Fresh(role).pc \notin Handling
    BY DEF Fresh, Handling
  <2>3. QED
    BY <2>1, <2>2
<1>3. Published = {} /\ Acked = {} /\ late = {} /\ recovered = {}
  BY DEF Init, Published, Acked, Range
<1>4. Located
  BY <1>2 DEF Init, Located
<1>5. Dated
  BY <1>3 DEF Init, Dated
<1>6. \A t \in Tasks : Progress(t)
  BY <1>2 DEF Progress, ClearsKept, AuditKept, LateStopped, FannedOut, Begun, At, Handling
<1>7. QED
  BY <1>1, <1>3, <1>4, <1>5, <1>6 DEF SInv, Noted, StillCovered, LateThreatsStaySilent

\* What holds of a task with a post.
LEMMA HoldFacts ==
  ASSUME SInv, NEW t \in Tasks, tk[t].pc \in Handling
  PROVE  /\ TypeOK /\ Located /\ Progress(t) /\ tk[t].batch # {}
         /\ Current(t) \in Msgs /\ Current(t) \in Read /\ Current(t) \in Published
         /\ tk[t] \in Task
<1>1. TypeOK /\ Located /\ Progress(t)
  BY DEF SInv
<1>2. tk[t].batch # {} /\ tk[t] \in Task
  BY <1>1 DEF TypeOK
<1>3. QED
  BY <1>1, <1>2, CurrentFacts, ReadIsPosts

\* A post whose task acknowledges it is settled.
LEMMA AckSettles ==
  ASSUME SInv, NEW t \in Tasks, tk[t].pc \in {"ack", "finish"}
  PROVE  Settled(Current(t))
<1>1. Progress(t) /\ Begun(t) /\ ~ At(t, "clears")
  BY DEF SInv, Begun, At, Handling
<1>2. Served(Current(t))
  BY <1>1 DEF Progress, FannedOut, Served, At
<1>3. QED
  BY <1>1, <1>2 DEF Progress, ClearsKept, AuditKept, Settled

\* Nothing but the tasks and their counters moves.
LEMMA StillStores ==
  ASSUME SInv, UNCHANGED owner
  PROVE  /\ owner' \in Owners
         /\ \A m \in Msgs : owner'[m] # None => m \in Read
         /\ \A m \in Read : ~ (owner'[m] = None /\ owner[m] # None)
BY DEF SInv, TypeOK, Located, Owners

LEMMA DrainStep ==
  ASSUME SInv, NEW t \in Tasks, Drain(t)
  PROVE  SInv'
<1> DEFINE mine == {m \in Msgs : owner[m] = t[1]}
<1>1. TypeOK /\ Located /\ tk[t] \in Task /\ tk[t].batch = {} /\ t[1] # None
  BY DEF SInv, TypeOK, Drain, At, Handling
<1>2. mine \subseteq Read
  BY <1>1 DEF Located
<1>3. Rests(t, mine)
  <2>1. CASE mine = {}
    <3> DEFINE x == [tk[t] EXCEPT !.pc = "wait", !.draining = FALSE]
    <3>1. x \in Task /\ x.pc = "wait" /\ x.batch = {}
      BY <1>1 DEF Task
    <3>2. tk' = [tk EXCEPT ![t] = x]
      BY <2>1 DEF Drain
    <3> HIDE DEF x
    <3>3. "wait" \notin Handling
      BY DEF Handling
    <3>4. QED
      BY <1>1, <3>1, <3>2, <3>3, TaskTypes DEF Rests
  <2>2. CASE mine # {}
    <3>1. Give(t, mine) /\ mine \in SUBSET Msgs
      BY <2>2 DEF Drain
    <3> HIDE DEF mine
    <3>2. QED
      BY <1>1, <2>2, <3>1, GiveRests
  <2>3. QED
    BY <2>1, <2>2
<1>4. /\ UNCHANGED <<log, next, owner, Beyond>> /\ idle' \subseteq idle
  BY DEF Drain
<1>5. TypeOK'
  BY <1>1, <1>3, <1>4, StepTypes DEF TypeOK, Beyond, Owners, Rests
<1>6. QED
  BY <1>1, <1>2, <1>3, <1>4, <1>5, StillStores, RestStep DEF Beyond, Rests

LEMMA ClaimIdleStep ==
  ASSUME SInv, NEW t \in Tasks, ClaimIdle(t)
  PROVE  SInv'
<1>1. TypeOK /\ Located /\ t[1] \in Procs /\ idle \in SUBSET Msgs /\ idle # {}
  BY DEF SInv, TypeOK, ClaimIdle
<1>2. Rests(t, idle)
  BY <1>1, GiveRests DEF ClaimIdle
<1>3. idle \subseteq Read
  BY <1>1 DEF TypeOK, Located
<1>4. /\ UNCHANGED <<log, next, Beyond>> /\ idle' = {}
      /\ owner' = [m \in Msgs |-> IF m \in idle THEN t[1] ELSE owner[m]]
  BY DEF ClaimIdle
<1>5. owner' \in Owners
  BY <1>1, <1>4 DEF TypeOK, Owners
<1>6. TypeOK'
  BY <1>1, <1>2, <1>4, <1>5, StepTypes DEF TypeOK, Beyond, Rests
<1>7. /\ \A m \in Msgs : owner'[m] # None => m \in Read
      /\ \A m \in Msgs : owner'[m] = None => owner[m] = None
  BY <1>1, <1>3, <1>4 DEF Located
<1>8. Read \subseteq Msgs
  BY <1>1, ReadIsPosts
<1>9. QED
  BY <1>1, <1>2, <1>3, <1>4, <1>6, <1>7, <1>8, RestStep DEF Beyond, Rests

LEMMA DismissStep ==
  ASSUME SInv, NEW t \in Tasks, Dismiss(t)
  PROVE  SInv'
<1>1. PICK m \in Msgs : m = Current(t) /\ XAck(m) /\ Settled(m) /\ m \in Read
  BY HoldFacts, AckSettles DEF Dismiss, At, Handling
<1>2. TypeOK /\ Located /\ Advance(t) /\ UNCHANGED <<log, next, Beyond>>
  BY DEF SInv, Dismiss
<1>3. Rests(t, tk[t].batch) /\ tk[t].batch \subseteq Read
  BY <1>2, AdvanceRests DEF Located
<1>4. TypeOK'
  BY <1>1, <1>2, <1>3, XAckFacts, StepTypes DEF TypeOK, Beyond, Rests
<1>5. Read \subseteq Msgs
  BY <1>2, ReadIsPosts
<1>6. /\ \A n \in Msgs : owner'[n] # None => n \in Read
      /\ \A n \in Read : owner'[n] = None /\ owner[n] # None => Settled(n)
  <2>1. \A n \in Msgs : /\ owner'[n] # None => owner[n] # None
                        /\ owner'[n] = None /\ owner[n] # None => n = m
    BY <1>1, <1>2, XAckFacts
  <2>2. \A n \in Msgs : owner[n] # None => n \in Read
    BY <1>2 DEF Located
  <2>3. QED
    BY <2>1, <2>2, <1>1, <1>5
<1>7. QED
  BY <1>2, <1>3, <1>4, <1>6, RestStep DEF Beyond, Rests

LEMMA ForgetStep ==
  ASSUME SInv, NEW t \in Tasks, Forget(t)
  PROVE  SInv'
<1>1. Current(t) \in Msgs
  BY HoldFacts DEF Forget, At, Handling
<1>2. TypeOK /\ Located /\ Advance(t)
      /\ UNCHANGED <<stream, clearId, audits, dead, chains, world, history, moves>>
  BY DEF SInv, Forget
<1>3. Rests(t, tk[t].batch) /\ tk[t].batch \subseteq Read
  BY <1>2, AdvanceRests DEF Located
<1>4. retry' \in [Msgs -> 0..(MaxRetries + 1)]
  <2>1. 0 \in 0..(MaxRetries + 1) /\ retry \in [Msgs -> 0..(MaxRetries + 1)]
    BY <1>2 DEF TypeOK
  <2>2. retry' = [retry EXCEPT ![Current(t)] = 0]
    BY DEF Forget
  <2>3. QED
    BY <2>1, <2>2
<1>5. TypeOK'
  BY <1>2, <1>3, <1>4, StepTypes DEF TypeOK, stream, Rests, Owners
<1>6. QED
  BY <1>2, <1>3, <1>5, StillStores, RestStep DEF stream, Rests

LEMMA AbandonStep ==
  ASSUME SInv, NEW t \in Tasks, Abandon(t)
  PROVE  SInv'
<1> DEFINE x == [Fresh(t[2]) EXCEPT !.pc = "wait", !.draining = FALSE]
<1>1. TypeOK /\ UNCHANGED <<stream, retry, clearId, audits, dead, chains, world, history>>
  BY DEF SInv, Abandon
<1>2. x \in Task /\ x.pc = "wait" /\ x.batch = {} /\ "wait" \notin Handling
  BY DEF Task, Fresh, Handling
<1>3. tk' = [tk EXCEPT ![t] = x]
  BY DEF Abandon
<1> HIDE DEF x
<1>4. Rests(t, {})
  BY <1>1, <1>2, <1>3, TaskTypes DEF Rests
<1>5. moves' \in 0..MaxMoves
  BY <1>1 DEF Abandon, Moving, TypeOK
<1>6. TypeOK'
  BY <1>1, <1>4, <1>5 DEF TypeOK, stream, world, history, Rests
<1>7. QED
  BY <1>1, <1>4, <1>6, StillStores, RestStep DEF stream, Rests

LEMMA StartStep ==
  ASSUME SInv, NEW t \in Tasks, Start(t)
  PROVE  SInv'
<1>1. /\ tk[t].pc = "start" /\ tk[t].pc \in Handling /\ ~ Begun(t)
      /\ UNCHANGED <<stream, retry, clearId, dead, chains, world, history, moves>>
  BY DEF Start, At, Handling, Begun
<1>2. PICK m \in Msgs : m = Current(t) /\ m \in Published /\ m \in Read
  BY <1>1, HoldFacts
<1>3. /\ TypeOK /\ Located /\ Dated /\ Noted /\ tk[t] \in Task /\ tk[t].batch # {}
      /\ tk[t].batch \subseteq Read
  BY <1>1, HoldFacts DEF SInv, Located
<1> DEFINE p == IF Body[m].status = "invalid" THEN "ack"
                ELSE IF Body[m].clears # {} THEN "clears" ELSE Classified(m)
<1>4. p \in {"ack", "clears", "global"} /\ p \in Handling /\ p # "start"
  BY DEF Classified, Handling
<1>5. /\ Goes(t, p) \/ (tk' \in [Tasks -> Task] /\ (\A v \in Tasks \ {t} : tk'[v] = tk[v])
           /\ (\A v \in Tasks : tk'[v].pc \in Handling <=> tk'[v].batch # {})
           /\ tk'[t].pc = p /\ tk'[t].batch = tk[t].batch)
      /\ Valid(m) => tk'[t].stale = (m \in old) /\ tk'[t].scopes = Body[m].clears
      /\ Valid(m) => audits' = IF m \in old THEN [audits EXCEPT ![m] = IF @ = 0 THEN 1 ELSE @]
                               ELSE audits
      /\ ~ Valid(m) => audits' = audits
  <2>1. CASE ~ Valid(m)
    <3>1. Goto(t, p) /\ audits' = audits
      BY <1>2, <2>1 DEF Start, Valid
    <3> HIDE DEF p
    <3>2. Goes(t, p)
      BY <1>1, <1>3, <1>4, <3>1, GotoGoes
    <3>3. QED
      BY <2>1, <3>1, <3>2
  <2>2. CASE Valid(m)
    <3>0. PICK b \in BOOLEAN : b = (m \in old)
      <4>1. (m \in old) \in BOOLEAN
        BY SMT
      <4>2. QED
        BY <4>1, Zenon
    <3> DEFINE x == [tk[t] EXCEPT !.stale = b, !.scopes = Body[m].clears, !.pc = p]
    <3>1. tk' = [tk EXCEPT ![t] = x]
      BY <1>2, <2>2, <3>0 DEF Start, Valid
    <3>2. audits' = IF m \in old THEN [audits EXCEPT ![m] = IF @ = 0 THEN 1 ELSE @] ELSE audits
      <4>1. audits \in [Msgs -> Nat]
        BY <1>3 DEF TypeOK
      <4>2. IF m \in old THEN Audit(m) ELSE audits' = audits
        BY <1>2, <2>2 DEF Start, Valid
      <4>3. QED
        BY <4>1, <4>2 DEF Audit
    <3>3. Body[m].clears \subseteq Scopes
      BY BodyFacts
    <3> HIDE DEF p
    <3>4. /\ x \in Task /\ x.pc = p /\ x.batch = tk[t].batch
          /\ x.stale = b /\ x.scopes = Body[m].clears
      BY <1>3, <1>4, <3>3 DEF Task
    <3> HIDE DEF x
    <3>5. QED
      BY <1>3, <1>4, <2>2, <3>0, <3>1, <3>2, <3>4, TaskTypes
  <2>3. QED
    BY <2>1, <2>2
<1> HIDE DEF p
<1>6. /\ tk' \in [Tasks -> Task] /\ (\A v \in Tasks \ {t} : tk'[v] = tk[v])
      /\ (\A v \in Tasks : tk'[v].pc \in Handling <=> tk'[v].batch # {})
      /\ tk'[t].pc = p /\ tk'[t].batch = tk[t].batch
  BY <1>5 DEF Goes
<1>7. /\ audits' \in [Msgs -> Nat]
      /\ \A n \in Msgs : audits'[n] = audits[n] \/ audits'[n] = 1
      /\ Valid(m) /\ m \in old => audits'[m] = 1
  <2>1. audits \in [Msgs -> Nat] /\ audits[m] <= 1 /\ audits[m] \in Nat
    BY <1>3 DEF TypeOK, Dated
  <2>2. QED
    BY <2>1, <1>5
<1>8. TypeOK'
  BY <1>1, <1>3, <1>6, <1>7, StepTypes DEF TypeOK, stream, Owners
<1>9. Current(t)' = m
  BY <1>1, <1>2, <1>6, CurrentSame DEF stream
<1>10. Noted'
  <2>1. ASSUME NEW v \in Tasks, tk'[v].pc \in Handling \ {"start"}, v # t
        PROVE  tk'[v] = tk[v] /\ Begun(v)
    BY <1>6, <2>1 DEF Begun
  <2>2. tk'[t].batch = tk[t].batch /\ (tk'[t].stale = (m \in old) \/ ~ Valid(m))
    BY <1>5, <1>6
  <2>3. UNCHANGED <<log, clearId, night, official, excused, old>>
    BY <1>1 DEF stream, world, history
  <2>4. QED
    BY <2>1, <2>2, <2>3, <1>2, <1>8, QuietNoted
<1>11. Progress(t)'
  <2>1. UNCHANGED <<clearId, old, excused, recovered, late>>
    BY <1>1 DEF world, history
  <2>2. ClearsKept(t)'
    <3>1. Valid(m) => \A s \in Body[m].clears : p = "clears" /\ s \in tk'[t].scopes
      BY <1>5 DEF p, Valid
    <3>2. QED
      BY <3>1, <1>6, <1>9 DEF ClearsKept, Valid, At
  <2>3. AuditKept(t)'
    BY <2>1, <1>3, <1>7, <1>9 DEF AuditKept, Valid, Dated
  <2>4. LateStopped(t)'
    BY <1>4, <1>6 DEF LateStopped, At
  <2>5. FannedOut(t)'
    <3>1. p = "ack" => Body[m].status \in {"clear", "negated", "invalid"}
      BY DEF p, Classified
    <3>2. p = "ack" => m \in excused
      BY <3>1, <1>2, <1>3 DEF Noted, NeedsNone
    <3>3. QED
      BY <3>2, <2>1, <1>4, <1>6, <1>9 DEF FannedOut, At
  <2>6. QED
    BY <2>2, <2>3, <2>4, <2>5 DEF Progress
<1>12. UNCHANGED <<log, next, owner, clearId, dead, chains, world, excused, steady, late, recovered>>
  BY <1>1 DEF stream, history
<1>13. \A s \in Scopes : clearId'[s] >= clearId[s]
  BY <1>3, <1>12, ClearsAreNat
<1>14. QED
  BY <1>3, <1>6, <1>7, <1>8, <1>10, <1>11, <1>12, <1>13, StillStores, TaskStep

LEMMA RecordClearStep ==
  ASSUME SInv, NEW t \in Tasks, RecordClear(t)
  PROVE  SInv'
<1>0. PICK s \in tk[t].scopes :
    LET left == tk[t].scopes \ {s} IN
    /\ At(t, "clears") /\ (Global \in tk[t].scopes => s = Global)
    /\ clearId' = [clearId EXCEPT ![s] = NewerClear(s, Current(t))]
    /\ tk' = [tk EXCEPT ![t].scopes = left,
                ![t].pc = IF left = {} THEN Classified(Current(t)) ELSE "clears"]
    /\ UNCHANGED <<stream, retry, audits, dead, chains, world, steady, late,
                   recovered, moves>>
    /\ NoteExcused
  BY DEF RecordClear
<1>1. tk[t].pc = "clears" /\ tk[t].pc \in Handling /\ Begun(t)
  BY <1>0 DEF At, Handling, Begun
<1>2. PICK m \in Msgs : m = Current(t) /\ m \in Published /\ m \in Read
  BY <1>1, HoldFacts
<1>3. /\ TypeOK /\ Located /\ Noted /\ Progress(t) /\ tk[t] \in Task
      /\ tk[t].batch # {} /\ tk[t].batch \subseteq Read
  BY <1>1, HoldFacts DEF SInv, Located
<1> DEFINE left == tk[t].scopes \ {s}
           p == IF left = {} THEN Classified(m) ELSE "clears"
           x == [tk[t] EXCEPT !.scopes = left, !.pc = p]
<1>4. p \in {"ack", "clears", "global"} /\ p \in Handling /\ p # "start"
  BY DEF Classified, Handling
<1>5. /\ x \in Task /\ x.pc = p /\ x.batch = tk[t].batch /\ x.stale = tk[t].stale
      /\ x.scopes = left
  <2>1. left \subseteq Scopes
    BY <1>3 DEF Task
  <2> HIDE DEF p, left
  <2>2. QED
    BY <2>1, <1>3, <1>4 DEF Task
<1>6. tk' = [tk EXCEPT ![t] = x]
  BY <1>0, <1>2
<1>7. s \in Scopes /\ tk[t].scopes \subseteq Scopes
  BY <1>3 DEF Task
<1> HIDE DEF x
<1>8. /\ tk' \in [Tasks -> Task] /\ (\A v \in Tasks \ {t} : tk'[v] = tk[v])
      /\ (\A v \in Tasks : tk'[v].pc \in Handling <=> tk'[v].batch # {})
      /\ tk'[t].pc = p /\ tk'[t].batch = tk[t].batch /\ tk'[t].stale = tk[t].stale
      /\ tk'[t].scopes = left
  BY <1>3, <1>4, <1>5, <1>6, TaskTypes
<1> HIDE DEF p
<1>9. /\ clearId' \in [Scopes -> Msgs \cup {0}]
      /\ \A r \in Scopes : clearId'[r] >= clearId[r]
      /\ clearId'[s] >= m
  <2>1. /\ clearId' = [clearId EXCEPT ![s] = IF m > clearId[s] THEN m ELSE clearId[s]]
        /\ clearId \in [Scopes -> Msgs \cup {0}]
    BY <1>0, <1>2, <1>3 DEF NewerClear, TypeOK
  <2>2. m \in Nat /\ \A r \in Scopes : clearId[r] \in Nat
    BY <1>3, IdsAreNat, ClearsAreNat
  <2>3. clearId' \in [Scopes -> Msgs \cup {0}]
    BY <2>1
  <2>4. clearId'[s] = IF m > clearId[s] THEN m ELSE clearId[s]
    BY <2>1, <1>7
  <2>5. \A r \in Scopes \ {s} : clearId'[r] = clearId[r]
    BY <2>1
  <2>6. clearId'[s] >= m /\ clearId'[s] >= clearId[s]
    BY <2>2, <2>4, <1>7
  <2>7. \A r \in Scopes \ {s} : clearId'[r] >= clearId[r]
    BY <2>2, <2>5
  <2>8. QED
    BY <2>3, <2>6, <2>7
<1>10. Noted' /\ excused \subseteq excused'
  BY <1>0, NoteNoted
<1>11. UNCHANGED <<log, next, owner, idle, retry, audits, dead, chains, world, steady, late,
                   recovered, moves>>
  BY <1>0 DEF stream
<1>12. TypeOK'
  <2>1. excused' \subseteq Msgs
    BY <1>0, <1>3, <1>11 DEF NoteExcused, TypeOK, Range
  <2>2. QED
    BY <2>1, <1>3, <1>8, <1>9, <1>11 DEF TypeOK, world
<1>13. Current(t)' = m
  BY <1>2, <1>8, <1>11, CurrentSame
<1>14. Progress(t)'
  <2>1. ClearsKept(t)'
    <3>1. Valid(m) => \A r \in Body[m].clears : clearId[r] >= m \/ r \in tk[t].scopes
      BY <1>1, <1>2, <1>3 DEF Progress, ClearsKept
    <3>2. \A r \in Scopes : clearId[r] >= m => clearId'[r] >= m
      <4>1. \A r \in Scopes : clearId[r] \in Nat /\ clearId'[r] \in Nat /\ m \in Nat
        BY <1>3, <1>9, IdsAreNat, ClearsAreNat
      <4>2. QED
        BY <4>1, <1>9
    <3>3. Valid(m) => \A r \in Body[m].clears : clearId'[r] >= m \/ r \in left
      BY <3>1, <3>2, <1>9, BodyFacts
    <3>4. left # {} => p = "clears"
      BY DEF p
    <3>5. QED
      BY <3>3, <3>4, <1>8, <1>13 DEF ClearsKept, Valid, At
  <2>2. AuditKept(t)'
    BY <1>1, <1>2, <1>3, <1>11, <1>13 DEF Progress, AuditKept, Valid
  <2>3. LateStopped(t)'
    BY <1>4, <1>8 DEF LateStopped, At
  <2>4. FannedOut(t)'
    <3>1. p = "ack" => Body[m].status \in {"clear", "negated", "invalid"}
      BY DEF p, Classified
    <3>2. p = "ack" => m \in excused'
      BY <3>1, <1>2, <1>3, <1>10 DEF Noted, NeedsNone
    <3>3. QED
      BY <3>2, <1>4, <1>8, <1>13 DEF FannedOut, At
  <2>5. QED
    BY <2>1, <2>2, <2>3, <2>4 DEF Progress
<1>15. QED
  BY <1>3, <1>8, <1>9, <1>10, <1>11, <1>12, <1>14, StillStores, TaskStep

\* What holds of a task with a post in hand, past its all-clears.
LEMMA InHandFacts ==
  ASSUME SInv, NEW t \in Tasks, tk[t].pc \in Handling \ {"start", "clears"}
  PROVE  /\ Begun(t) /\ ~ At(t, "clears")
         /\ TypeOK /\ Located /\ Dated /\ Noted /\ StillCovered /\ Progress(t)
         /\ tk[t].batch # {} /\ tk[t] \in Task
         /\ Current(t) \in Msgs /\ Current(t) \in Read /\ Current(t) \in Published
<1>1. Begun(t) /\ ~ At(t, "clears")
  BY DEF Begun, At
<1>2. QED
  BY <1>1, HoldFacts DEF SInv

\* A check sends its post on, or dismisses it and then it needs no delivery.
LEMMA CheckStep ==
  ASSUME SInv, NEW t \in Tasks, NEW p \in {"ack", "scoped", "alarm", "page"}, Goes(t, p),
         UNCHANGED Reading, tk[t].pc \in {"global", "scoped", "alarm"},
         p = "ack" => NeedsNone(Current(t)),
         p = "scoped" => Body[Current(t)].locs # {},
         p # "ack" /\ Current(t) \in late =>
           p = "scoped" /\ \A l \in Body[Current(t)].locs : Overrules(l, Current(t)),
         p = "page" => tk'[t].after = 0
  PROVE  SInv'
<1>1. tk[t].pc \in Handling \ {"start", "clears"} /\ p \in Handling
  BY DEF Handling
<1>2. /\ Begun(t) /\ ~ At(t, "clears") /\ TypeOK /\ Noted
      /\ Current(t) \in Msgs /\ Current(t) \in Published
  BY <1>1, InHandFacts
<1>3. PICK m \in Msgs : m = Current(t)
  BY <1>2
<1>4. Goes(t, p)
  OBVIOUS
<1>5. UNCHANGED <<log, next, owner, idle, retry, clearId, audits, dead, chains, world, history, moves>>
  BY DEF Reading, stream
<1>6. Current(t)' = m
  BY <1>3, <1>4, <1>5, CurrentSame DEF Goes
<1>7. UNCHANGED <<subscribed, night, official, old, steady, excused, late, recovered>>
  BY <1>5 DEF world, history
<1>8. TypeOK'
  BY <1>2, <1>4, <1>5, StepTypes DEF TypeOK, Goes, Owners
<1>9. LateStopped(t)'
  BY <1>3, <1>4, <1>5, <1>6, <1>7 DEF LateStopped, Goes, At, Overrules
<1>10. FannedOut(t)'
  <2>1. p = "ack" => m \in excused
    BY <1>2, <1>3 DEF Noted
  <2>2. p = "page" => \A u \in steady[m] : u > tk'[t].after
    <3>1. steady[m] \subseteq Nat \ {0}
      BY <1>2 DEF TypeOK
    <3>2. ASSUME NEW u \in steady[m] PROVE u > 0
      <4>1. u \in Nat /\ u # 0
        BY <3>1
      <4>2. QED
        BY <4>1
    <3>3. QED
      BY <3>2, <1>4
  <2>3. QED
    BY <2>1, <2>2, <1>4, <1>6, <1>7 DEF FannedOut, Goes, At
<1>11. \A n \in Msgs : chains'[n] = chains[n] /\ owner'[n] = owner[n]
  BY <1>5
<1>12. tk'[t].batch = tk[t].batch /\ tk'[t].stale = tk[t].stale
  BY <1>4 DEF Goes
<1>13. \A v \in Tasks \ {t} : tk'[v] = tk[v]
  BY <1>4 DEF Goes
<1>14. Read \subseteq Msgs
  BY <1>2, ReadIsPosts
<1>15. QED
  BY <1>2, <1>5, <1>8, <1>9, <1>10, <1>11, <1>12, <1>13, <1>14, HoldStep

LEMMA CheckGoes ==
  ASSUME SInv, NEW t \in Tasks, NEW p \in {"ack", "scoped", "alarm"}, Goto(t, p),
         tk[t].pc \in {"global", "scoped", "alarm"}
  PROVE  Goes(t, p)
<1>1. tk[t].pc \in Handling /\ p \in Handling /\ TypeOK
  BY DEF Handling, SInv
<1>2. QED
  BY <1>1, GotoGoes

\* A late post is covered by the channel's all-clear or by those of its places.
LEMMA LateCovered ==
  ASSUME SInv, NEW m \in late
  PROVE  \/ Overrules(Global, m)
         \/ Body[m].locs # {} /\ \A l \in Body[m].locs : Overrules(l, m)
BY DEF SInv, StillCovered, Covered, Overrules

LEMMA CheckGlobalStep ==
  ASSUME SInv, NEW t \in Tasks, CheckGlobal(t)
  PROVE  SInv'
<1>1. tk[t].pc = "global" /\ UNCHANGED Reading
  BY DEF CheckGlobal, At
<1>2. CASE Overrules(Global, Current(t))
  <2>1. Goto(t, "ack") /\ NeedsNone(Current(t))
    BY <1>2 DEF CheckGlobal, NeedsNone, Covered, Overrules
  <2>2. QED
    BY <1>1, <2>1, CheckGoes, CheckStep
<1>3. CASE ~ Overrules(Global, Current(t))
  <2>1. PICK p \in {"scoped", "alarm"} : Goto(t, p) /\ (p = "scoped" <=> Body[Current(t)].locs # {})
    BY <1>3 DEF CheckGlobal
  <2>2. Current(t) \in late => Body[Current(t)].locs # {}
                               /\ \A l \in Body[Current(t)].locs : Overrules(l, Current(t))
    BY <1>3, LateCovered
  <2>3. QED
    BY <1>1, <2>1, <2>2, CheckGoes, CheckStep
<1>4. QED
  BY <1>2, <1>3

LEMMA CheckScopedStep ==
  ASSUME SInv, NEW t \in Tasks, CheckScoped(t)
  PROVE  SInv'
<1> DEFINE Over == \A l \in Body[Current(t)].locs : Overrules(l, Current(t))
<1>1. tk[t].pc = "scoped" /\ UNCHANGED Reading
  BY DEF CheckScoped, At
<1>2. LateStopped(t) /\ Begun(t)
  BY <1>1 DEF SInv, Progress, Begun, Handling
<1>3. Body[Current(t)].locs # {} /\ (Current(t) \in late => Over)
  BY <1>1, <1>2 DEF LateStopped, At
<1>4. CASE Over
  <2>1. Goto(t, "ack") /\ NeedsNone(Current(t))
    BY <1>3, <1>4 DEF CheckScoped, NeedsNone, Covered, Overrules
  <2>2. QED
    BY <1>1, <2>1, CheckGoes, CheckStep
<1>5. CASE ~ Over
  <2>1. Goto(t, "alarm") /\ Current(t) \notin late
    BY <1>3, <1>5 DEF CheckScoped
  <2>2. QED
    BY <1>1, <2>1, CheckGoes, CheckStep
<1>6. QED
  BY <1>4, <1>5

LEMMA CheckAlarmStep ==
  ASSUME SInv, NEW t \in Tasks, CheckAlarm(t)
  PROVE  SInv'
<1>1. tk[t].pc = "alarm" /\ UNCHANGED Reading
  BY DEF CheckAlarm, At
<1>2. LateStopped(t) /\ Begun(t) /\ tk[t].batch # {}
  BY <1>1, HoldFacts DEF SInv, Progress, Begun, Handling
<1>3. Current(t) \notin late
  BY <1>1, <1>2 DEF LateStopped
<1>4. CASE Relevant(Current(t)) /\ (tk[t].stale \/ night)
  <2> DEFINE x == [tk[t] EXCEPT !.pc = "page", !.after = 0]
  <2>1. tk' = [tk EXCEPT ![t] = x]
    BY <1>4 DEF CheckAlarm
  <2>2. TypeOK /\ tk[t] \in Task /\ "page" \in Handling
    BY <1>1, HoldFacts DEF Handling
  <2>3. x \in Task /\ x.pc = "page" /\ x.batch = tk[t].batch /\ x.stale = tk[t].stale /\ x.after = 0
    BY <2>2 DEF Task
  <2> HIDE DEF x
  <2>4. Goes(t, "page") /\ tk'[t].after = 0
    BY <1>2, <2>1, <2>2, <2>3, TaskTypes DEF Goes
  <2>5. QED
    BY <1>1, <1>3, <2>4, CheckStep
<1>5. CASE ~ (Relevant(Current(t)) /\ (tk[t].stale \/ night))
  <2>1. Goto(t, "ack")
    BY <1>5 DEF CheckAlarm
  <2>2. ~ tk[t].stale => t \in InHand(Current(t))
    BY <1>1, <1>2 DEF InHand
  <2>3. NeedsNone(Current(t))
    BY <1>5, <2>2 DEF NeedsNone
  <2>4. QED
    BY <1>1, <2>1, <2>3, CheckGoes, CheckStep
<1>6. QED
  BY <1>4, <1>5

LEMMA FetchPageStep ==
  ASSUME SInv, NEW t \in Tasks, FetchPage(t)
  PROVE  SInv'
<1>1. tk[t].pc = "page" /\ tk[t].pc \in Handling \ {"start", "clears"}
  BY DEF FetchPage, At, Handling
<1>2. /\ Begun(t) /\ ~ At(t, "clears") /\ TypeOK /\ Located /\ Dated /\ Progress(t)
      /\ tk[t].batch # {} /\ tk[t] \in Task
  BY <1>1, InHandFacts
<1>3. PICK m \in Msgs : m = Current(t) /\ m \in Read
  BY <1>1, InHandFacts
<1>4. UNCHANGED <<log, next, owner, idle, retry, clearId, audits, dead, chains, world, history, moves>>
  BY DEF FetchPage, Reading, stream
<1>5. UNCHANGED <<subscribed, night, official, old, steady, excused, late, recovered>>
  BY <1>4 DEF world, history
<1>6. m \notin late
  BY <1>1, <1>2, <1>3 DEF Progress, LateStopped
<1> DEFINE S == {u \in subscribed : u > tk[t].after}
<1>7. /\ S \subseteq Nat /\ S \subseteq Users /\ Page(t) = FirstPage(S)
      /\ \A u \in steady[m] : u \in chains[m] \/ u \in S
  <2>1. subscribed \subseteq Users /\ steady[m] \subseteq subscribed
    BY <1>2 DEF TypeOK, Dated
  <2>2. \A u \in steady[m] : u \in chains[m] \/ u > tk[t].after
    BY <1>1, <1>2, <1>3 DEF Progress, FannedOut, At
  <2>3. Users \subseteq Nat
    BY SourceAssumption
  <2>4. QED
    BY <2>1, <2>2, <2>3 DEF Page
<1> HIDE DEF S
<1>8. /\ Page(t) \subseteq S /\ (Page(t) = {} => S = {})
      /\ \A u \in Page(t), v \in S \ Page(t) : u < v
      /\ Cardinality(Page(t)) # PageSize => Page(t) = S
  <2>1. /\ FirstPage(S) \subseteq S /\ (FirstPage(S) = {} => S = {})
        /\ \A u \in FirstPage(S), v \in S \ FirstPage(S) : u < v
        /\ Cardinality(FirstPage(S)) # PageSize => FirstPage(S) = S
    BY <1>7, PageFacts
  <2>2. QED
    BY <2>1, <1>7
<1>9. PICK p \in {"finish", "dispatch", "fail"} :
        /\ Goes(t, p)
        /\ p = "finish" => S = {}
        /\ p = "dispatch" => /\ tk'[t].todo = Page(t) /\ Page(t) # {}
                             /\ ~ tk'[t].full => Page(t) = S
  <2>1. CASE Goto(t, "fail")
    <3>1. "fail" \in Handling
      BY DEF Handling
    <3>2. QED
      BY <1>1, <1>2, <2>1, <3>1, GotoGoes
  <2>2. CASE Page(t) = {} /\ Goto(t, "finish")
    <3>1. "finish" \in Handling
      BY DEF Handling
    <3>2. QED
      BY <1>1, <1>2, <1>8, <2>2, <3>1, GotoGoes
  <2>3. CASE /\ Page(t) # {}
             /\ tk' = [tk EXCEPT ![t].pc = "dispatch", ![t].todo = Page(t),
                                 ![t].full = Cardinality(Page(t)) = PageSize]
    <3>0. PICK b \in BOOLEAN : b = (Cardinality(Page(t)) = PageSize)
      <4>1. (Cardinality(Page(t)) = PageSize) \in BOOLEAN
        BY SMT
      <4>2. QED
        BY <4>1, Zenon
    <3> DEFINE x == [tk[t] EXCEPT !.pc = "dispatch", !.todo = Page(t), !.full = b]
    <3>1. tk' = [tk EXCEPT ![t] = x]
      BY <2>3, <3>0
    <3>2. "dispatch" \in Handling /\ Page(t) \subseteq Users
      BY <1>7, <1>8 DEF Handling
    <3>3. /\ x \in Task /\ x.pc = "dispatch" /\ x.batch = tk[t].batch
          /\ x.stale = tk[t].stale /\ x.todo = Page(t) /\ x.full = b
      BY <1>2, <3>2 DEF Task
    <3> HIDE DEF x
    <3>4. Goes(t, "dispatch") /\ tk'[t].todo = Page(t) /\ tk'[t].full = b
      BY <1>2, <3>1, <3>2, <3>3, TaskTypes DEF Goes
    <3>5. QED
      BY <2>3, <3>0, <3>4, <1>8
  <2>4. QED
    BY <2>1, <2>2, <2>3 DEF FetchPage
<1>10. Current(t)' = m
  BY <1>3, <1>4, <1>9, CurrentSame DEF Goes
<1>11. TypeOK'
  BY <1>2, <1>4, <1>9, StepTypes DEF TypeOK, Goes, Owners
<1>12. LateStopped(t)'
  BY <1>5, <1>6, <1>9, <1>10 DEF LateStopped, Goes, At
<1>13. FannedOut(t)'
  <2>1. p = "finish" => Served(m)'
    BY <1>4, <1>5, <1>7, <1>9 DEF Served
  <2>2. p = "dispatch" => /\ tk'[t].todo # {}
                          /\ \A u \in steady[m] : \/ u \in chains[m] \cup tk'[t].todo
                                                  \/ tk'[t].full /\ \A v \in tk'[t].todo : v < u
    <3>1. SUFFICES ASSUME p = "dispatch", NEW u \in steady[m],
                          u \notin chains[m] \cup tk'[t].todo
                   PROVE  tk'[t].full /\ \A v \in tk'[t].todo : v < u
      BY <1>9
    <3>2. u \in S \ Page(t) /\ tk'[t].todo = Page(t)
      BY <3>1, <1>7, <1>9
    <3>3. tk'[t].full
      BY <3>1, <3>2, <1>9
    <3>4. QED
      BY <3>2, <3>3, <1>8
  <2>3. QED
    BY <2>1, <2>2, <1>4, <1>5, <1>9, <1>10 DEF FannedOut, Goes, At, Served
<1>14. /\ tk'[t].batch = tk[t].batch /\ tk'[t].stale = tk[t].stale
       /\ \A v \in Tasks \ {t} : tk'[v] = tk[v]
  BY <1>9 DEF Goes
<1>15. \A n \in Msgs : chains'[n] = chains[n] /\ owner'[n] = owner[n]
  BY <1>4
<1>16. Read \subseteq Msgs
  BY <1>2, ReadIsPosts
<1>17. QED
  BY <1>2, <1>4, <1>11, <1>12, <1>13, <1>14, <1>15, <1>16, HoldStep

LEMMA DispatchStep ==
  ASSUME SInv, NEW t \in Tasks, Dispatch(t)
  PROVE  SInv'
<1>1. tk[t].pc = "dispatch" /\ tk[t].pc \in Handling \ {"start", "clears"}
  BY DEF Dispatch, At, Handling
<1>2. /\ Begun(t) /\ ~ At(t, "clears") /\ TypeOK /\ Located /\ Dated /\ Progress(t)
      /\ tk[t].batch # {} /\ tk[t] \in Task
  BY <1>1, InHandFacts
<1>3. PICK m \in Msgs : m = Current(t) /\ m \in Read
  BY <1>1, InHandFacts
<1>4. UNCHANGED <<log, next, owner, idle, retry, clearId, audits, dead, world, history, moves>>
  BY DEF Dispatch, stream
<1>5. UNCHANGED <<subscribed, night, official, old, steady, excused, late, recovered>>
  BY <1>4 DEF world, history
<1>6. m \notin late
  BY <1>1, <1>2, <1>3 DEF Progress, LateStopped
<1>7. /\ tk[t].todo # {} /\ tk[t].todo \subseteq Users /\ tk[t].todo \subseteq Nat
      /\ \A u \in steady[m] : \/ u \in chains[m] \cup tk[t].todo
                              \/ tk[t].full /\ \A v \in tk[t].todo : v < u
  BY <1>1, <1>2, <1>3 DEF Progress, FannedOut, At, Task
<1>8. PICK u \in tk[t].todo :
        /\ \A v \in tk[t].todo : u <= v
        /\ chains' = [chains EXCEPT ![m] = @ \cup {u}] \/ (u \notin subscribed /\ chains' = chains)
        /\ tk' = [tk EXCEPT ![t].todo = @ \ {u}, ![t].after = u,
                            ![t].pc = IF tk[t].todo = {u} THEN Turned(t) ELSE "dispatch"]
  <2> DEFINE u == CHOOSE u \in tk[t].todo : \A v \in tk[t].todo : u <= v
  <2>1. \E w \in tk[t].todo : \A v \in tk[t].todo : w <= v
    BY <1>7, LeastExists
  <2>2. u \in tk[t].todo /\ \A v \in tk[t].todo : u <= v
    BY <2>1
  <2>3. /\ chains' = [chains EXCEPT ![m] = @ \cup {u}] \/ (u \notin subscribed /\ chains' = chains)
        /\ tk' = [tk EXCEPT ![t].todo = @ \ {u}, ![t].after = u,
                            ![t].pc = IF tk[t].todo = {u} THEN Turned(t) ELSE "dispatch"]
    BY <1>3 DEF Dispatch
  <2> HIDE DEF u
  <2>4. QED
    BY <2>2, <2>3
<1> DEFINE p == IF tk[t].todo = {u} THEN Turned(t) ELSE "dispatch"
           x == [tk[t] EXCEPT !.todo = @ \ {u}, !.after = u, !.pc = p]
<1>9. p \in {"page", "finish", "dispatch"} /\ p \in Handling
  BY DEF Turned, Handling
<1>10. /\ x \in Task /\ x.pc = p /\ x.batch = tk[t].batch /\ x.stale = tk[t].stale
       /\ x.todo = tk[t].todo \ {u} /\ x.after = u /\ x.full = tk[t].full
  <2> HIDE DEF p
  <2>1. QED
    BY <1>2, <1>7, <1>9 DEF Task
<1>11. tk' = [tk EXCEPT ![t] = x]
  BY <1>8
<1> HIDE DEF x
<1>12. /\ Goes(t, p) /\ tk'[t].todo = tk[t].todo \ {u}
       /\ tk'[t].after = u /\ tk'[t].full = tk[t].full
  <2> HIDE DEF p
  <2>1. QED
    BY <1>2, <1>9, <1>10, <1>11, TaskTypes DEF Goes
<1>13. Current(t)' = m
  BY <1>3, <1>4, <1>12, CurrentSame DEF Goes
<1>14. /\ chains' \in [Msgs -> SUBSET Users]
       /\ \A n \in Msgs : chains[n] \subseteq chains'[n] /\ (n # m => chains'[n] = chains[n])
       /\ u \in chains'[m] \/ u \notin steady[m]
  <2>1. chains \in [Msgs -> SUBSET Users] /\ u \in Users /\ steady[m] \subseteq subscribed
    BY <1>2, <1>7 DEF TypeOK, Dated
  <2>2. QED
    BY <2>1, <1>8
<1>15. TypeOK'
  <2> HIDE DEF p
  <2>1. QED
    BY <1>2, <1>4, <1>12, <1>14, StepTypes DEF TypeOK, Goes, Owners
<1>16. LateStopped(t)'
  <2> HIDE DEF p
  <2>1. QED
    BY <1>5, <1>6, <1>9, <1>12, <1>13 DEF LateStopped, Goes, At
<1>17. FannedOut(t)'
  <2>1. \A w \in steady[m] : \/ w \in chains'[m] \cup (tk[t].todo \ {u})
                             \/ tk[t].full /\ \A v \in tk[t].todo : v < w
    BY <1>7, <1>14
  <2>2. p = "dispatch" =>
          /\ tk'[t].todo # {}
          /\ \A w \in steady[m] : \/ w \in chains'[m] \cup tk'[t].todo
                                  \/ tk'[t].full /\ \A v \in tk'[t].todo : v < w
    BY <1>12, <2>1 DEF Turned
  <2>3. p = "page" => \A w \in steady[m] : w \in chains'[m] \/ w > tk'[t].after
    <3>1. p = "page" => tk[t].todo = {u}
      BY DEF Turned
    <3>2. ASSUME NEW w \in steady[m], u < w PROVE w > u
      <4>1. w \in Nat /\ u \in Nat
        BY <1>2, <1>7 DEF TypeOK
      <4>2. QED
        BY <3>2, <4>1
    <3>3. QED
      BY <3>1, <3>2, <2>1, <1>12
  <2>4. p = "finish" => Served(m)'
    <3>1. p = "finish" => tk[t].todo = {u} /\ ~ tk[t].full
      BY <1>8 DEF Turned
    <3>2. p = "finish" => steady[m] \subseteq chains'[m]
      BY <3>1, <2>1
    <3>3. QED
      BY <3>2, <1>5 DEF Served
  <2> HIDE DEF p
  <2>5. QED
    BY <2>2, <2>3, <2>4, <1>5, <1>9, <1>12, <1>13 DEF FannedOut, Goes, At
<1>18. /\ tk'[t].batch = tk[t].batch /\ tk'[t].stale = tk[t].stale
       /\ \A v \in Tasks \ {t} : tk'[v] = tk[v]
  BY <1>12 DEF Goes
<1>19. \A n \in Msgs : /\ chains[n] \subseteq chains'[n]
                       /\ n # Current(t) \/ n \in late => chains'[n] = chains[n]
  BY <1>3, <1>6, <1>14
<1>20. Read \subseteq Msgs /\ UNCHANGED owner
  BY <1>2, <1>4, ReadIsPosts
<1>21. QED
  BY <1>2, <1>4, <1>15, <1>16, <1>17, <1>18, <1>19, <1>20, HoldStep

LEMMA FinishStep ==
  ASSUME SInv, NEW t \in Tasks, Finish(t)
  PROVE  SInv'
<1>1. tk[t].pc = "finish" /\ tk[t].pc \in Handling \ {"start", "clears"} /\ "forget" \in Handling
  BY DEF Finish, At, Handling
<1>2. /\ Begun(t) /\ ~ At(t, "clears") /\ TypeOK /\ Located /\ Progress(t)
  BY <1>1, InHandFacts
<1>3. PICK m \in Msgs : m = Current(t) /\ m \in Read /\ XAck(m) /\ Settled(m)
  BY <1>1, InHandFacts, AckSettles DEF Finish
<1>4. UNCHANGED <<log, next, retry, clearId, audits, dead, chains, world, history, moves>>
  BY DEF Finish, Beyond
<1>5. UNCHANGED <<steady, excused, late>>
  BY <1>4 DEF history
<1>6. Goes(t, "forget")
  BY <1>1, <1>2, GotoGoes DEF Finish
<1>7. Current(t)' = m
  BY <1>3, <1>4, <1>6, CurrentSame DEF Goes
<1>8. TypeOK'
  BY <1>2, <1>3, <1>4, <1>6, XAckFacts, StepTypes DEF TypeOK, Goes
<1>9. m \notin late
  BY <1>1, <1>2, <1>3 DEF Progress, LateStopped
<1>10. LateStopped(t)'
  BY <1>5, <1>6, <1>7, <1>9 DEF LateStopped, Goes, At
<1>11. FannedOut(t)'
  BY <1>3, <1>4, <1>5, <1>6, <1>7 DEF FannedOut, Goes, At, Settled, Served
<1>12. /\ tk'[t].batch = tk[t].batch /\ tk'[t].stale = tk[t].stale
       /\ \A v \in Tasks \ {t} : tk'[v] = tk[v]
  BY <1>6 DEF Goes
<1>13. \A n \in Msgs : chains'[n] = chains[n] /\ (owner'[n] # None => owner[n] # None)
  BY <1>2, <1>3, <1>4, XAckFacts
<1>14. \A n \in Read : owner'[n] = None /\ owner[n] # None => Settled(n)
  <2>1. Read \subseteq Msgs
    BY <1>2, ReadIsPosts
  <2>2. \A n \in Msgs : owner'[n] = None /\ owner[n] # None => n = m
    BY <1>2, <1>3, XAckFacts
  <2>3. QED
    BY <2>1, <2>2, <1>3
<1>15. QED
  BY <1>2, <1>4, <1>8, <1>10, <1>11, <1>12, <1>13, <1>14, HoldStep

\* A step towards the dead-letter queue.
LEMMA DeadwardStep ==
  ASSUME SInv, NEW t \in Tasks, NEW p \in {"dead", "finish"}, Goto(t, p), TypeOK',
         tk[t].pc \in {"fail", "dead"},
         UNCHANGED <<log, next, owner, clearId, audits, chains, world, history>>,
         dead \subseteq dead', p = "finish" => Current(t) \in dead'
  PROVE  SInv'
<1>1. tk[t].pc \in Handling \ {"start", "clears"} /\ p \in Handling
  BY DEF Handling
<1>2. /\ Begun(t) /\ ~ At(t, "clears") /\ TypeOK /\ Located /\ Progress(t)
  BY <1>1, InHandFacts
<1>3. PICK m \in Msgs : m = Current(t)
  BY <1>1, InHandFacts
<1>4. UNCHANGED <<steady, excused, late>>
  BY DEF history
<1>5. Goes(t, p)
  BY <1>1, <1>2, GotoGoes
<1>6. Current(t)' = m
  BY <1>3, <1>5, CurrentSame DEF Goes
<1>7. m \notin late
  BY <1>2, <1>3 DEF Progress, LateStopped
<1>8. LateStopped(t)'
  BY <1>4, <1>5, <1>6, <1>7 DEF LateStopped, Goes, At
<1>9. FannedOut(t)'
  BY <1>3, <1>5, <1>6 DEF FannedOut, Goes, At, Served
<1>10. /\ tk'[t].batch = tk[t].batch /\ tk'[t].stale = tk[t].stale
       /\ \A v \in Tasks \ {t} : tk'[v] = tk[v]
  BY <1>5 DEF Goes
<1>11. Read \subseteq Msgs
  BY <1>2, ReadIsPosts
<1>12. QED
  BY <1>2, <1>8, <1>9, <1>10, <1>11, HoldStep

LEMMA CountFailureStep ==
  ASSUME SInv, NEW t \in Tasks, CountFailure(t)
  PROVE  SInv'
<1>1. tk[t].pc = "fail" /\ tk[t].pc \in Handling /\ "dead" \in Handling
  BY DEF CountFailure, At, Handling
<1>2. PICK m \in Msgs : m = Current(t)
  BY <1>1, HoldFacts
<1>3. TypeOK /\ Located
      /\ UNCHANGED <<stream, clearId, audits, dead, chains, world, history, moves>>
  BY DEF SInv, CountFailure
<1>4. retry' \in [Msgs -> 0..(MaxRetries + 1)]
  <2>1. retry[m] \in 0..(MaxRetries + 1) /\ MaxRetries \in Nat
    BY <1>3, SourceAssumption DEF TypeOK
  <2>2. Counted(m) \in 0..(MaxRetries + 1)
    BY <2>1 DEF Counted
  <2>3. retry' = [retry EXCEPT ![m] = Counted(m)] /\ retry \in [Msgs -> 0..(MaxRetries + 1)]
    BY <1>2, <1>3 DEF CountFailure, TypeOK
  <2>4. QED
    BY <2>2, <2>3
<1>5. CASE Goto(t, "dead")
  <2>1. Goes(t, "dead")
    BY <1>1, <1>3, <1>5, GotoGoes
  <2>2. TypeOK'
    BY <1>3, <1>4, <2>1, StepTypes DEF TypeOK, stream, Goes, Owners
  <2>3. QED
    BY <1>1, <1>3, <1>5, <2>2, DeadwardStep DEF stream
<1>6. CASE Advance(t)
  <2>1. Rests(t, tk[t].batch) /\ tk[t].batch \subseteq Read
    BY <1>3, <1>6, AdvanceRests DEF Located
  <2>2. TypeOK'
    BY <1>3, <1>4, <2>1, StepTypes DEF TypeOK, stream, Rests, Owners
  <2>3. QED
    BY <1>3, <2>1, <2>2, StillStores, RestStep DEF stream, Rests
<1>7. QED
  BY <1>5, <1>6 DEF CountFailure

LEMMA DeadLetterStep ==
  ASSUME SInv, NEW t \in Tasks, DeadLetter(t)
  PROVE  SInv'
<1>1. tk[t].pc = "dead" /\ tk[t].pc \in Handling /\ "finish" \in Handling
  BY DEF DeadLetter, At, Handling
<1>2. Current(t) \in Msgs
  BY <1>1, HoldFacts
<1>3. /\ TypeOK /\ Goto(t, "finish") /\ dead' = dead \cup {Current(t)}
      /\ UNCHANGED <<stream, retry, clearId, audits, chains, world, history, moves>>
  BY DEF SInv, DeadLetter, DeadLetters
<1>4. Goes(t, "finish")
  BY <1>1, <1>3, GotoGoes
<1>5. TypeOK'
  BY <1>2, <1>3, <1>4, StepTypes DEF TypeOK, stream, Goes, Owners
<1>6. QED
  BY <1>1, <1>3, <1>5, DeadwardStep DEF stream

-----------------------------------------------------------------------------
(* Reading, publication, failures and the world.                           *)

LEMMA ReadNewStep ==
  ASSUME SInv, NEW t \in Tasks, ReadNew(t)
  PROVE  SInv'
<1> DEFINE last  == IF Len(log) < next + ReadCount THEN Len(log) ELSE next + ReadCount - 1
           batch == {log[i] : i \in next..last}
<1>1. TypeOK /\ Located /\ Dated /\ LateThreatsStaySilent /\ t[1] \in Procs
  BY DEF SInv
<1>2. /\ next \in Nat \ {0} /\ Len(log) \in Nat /\ next <= Len(log) /\ ReadCount \in Nat \ {0}
      /\ log \in Seq(Msgs)
  BY <1>1, SourceAssumption DEF TypeOK, ReadNew
<1>3. last \in Nat /\ next <= last /\ last <= Len(log)
  BY <1>2
<1>4. /\ next' = last + 1 /\ Give(t, batch) /\ UNCHANGED <<log, idle, Beyond>>
      /\ owner' = [m \in Msgs |-> IF m \in batch THEN t[1] ELSE owner[m]]
  BY DEF ReadNew
<1>5. UNCHANGED <<log, clearId, audits, dead, chains, subscribed, night, official, old, steady,
                  excused, late, recovered, retry, moves, world, history>>
  BY <1>4 DEF Beyond, world, history
<1> HIDE DEF last
<1>6. batch \subseteq Msgs /\ log[next] \in batch
  <2>1. ASSUME NEW i \in next..last PROVE log[i] \in Msgs
    <3>1. i \in 1..Len(log)
      BY <1>2, <1>3
    <3>2. QED
      BY <1>2, <3>1
  <2>2. next \in next..last
    BY <1>2, <1>3
  <2>3. QED
    BY <2>1, <2>2
<1>7. Read' = Read \cup batch
  <2>1. 1..(next' - 1) = (1..(next - 1)) \cup (next..last)
    BY <1>2, <1>3, <1>4
  <2>2. Read' = {log[i] : i \in 1..(next' - 1)}
    BY <1>4 DEF Read
  <2>3. \A S, T : {log[i] : i \in S \cup T} = {log[i] : i \in S} \cup {log[i] : i \in T}
    OBVIOUS
  <2>4. {log[i] : i \in 1..(next' - 1)} = {log[i] : i \in 1..(next - 1)} \cup batch
    BY <2>1, <2>3, Zenon
  <2>5. QED
    BY <2>2, <2>4 DEF Read
<1>8. Published' = Published /\ Unread \subseteq batch \cup Unread'
  <2>1. next..Len(log) \subseteq (next..last) \cup (next'..Len(log))
    BY <1>2, <1>3, <1>4
  <2>2. Unread = {log[i] : i \in next..Len(log)} /\ Unread' = {log[i] : i \in next'..Len(log)}
    BY <1>4 DEF Unread
  <2>3. QED
    BY <2>1, <2>2, <1>4 DEF Published
<1> HIDE DEF batch
<1>9. Rests(t, batch)
  BY <1>1, <1>4, <1>6, GiveRests
<1>10. TypeOK'
  <2>1. owner' \in [Msgs -> Procs \cup {None, Gone}] /\ idle \subseteq {m \in Msgs : owner'[m] # None}
    BY <1>1, <1>4, SourceAssumption DEF TypeOK
  <2>2. next' \in 1..(Len(log') + 1)
    BY <1>2, <1>3, <1>4
  <2>3. log' \in Seq(Msgs) /\ IsInjective(log')
    BY <1>1, <1>2, <1>5 DEF TypeOK
  <2>4. tk' \in [Tasks -> Task] /\ \A v \in Tasks : tk'[v].pc \in Handling <=> tk'[v].batch # {}
    BY <1>9 DEF Rests
  <2>5. idle' \subseteq {m \in Msgs : owner'[m] # None}
    BY <2>1, <1>4
  <2>6. QED
    BY <2>1, <2>2, <2>3, <2>4, <2>5, <1>1, <1>5 DEF TypeOK
<1>11. Dated'
  BY <1>1, <1>5 DEF Dated
<1>12. Noted'
  <2>1. ASSUME NEW v \in Tasks, tk'[v].pc \in Handling \ {"start"}
        PROVE  tk'[v] = tk[v] /\ Begun(v)
    BY <2>1, <1>9 DEF Begun, Rests
  <2>2. QED
    BY <2>1, <1>5, <1>10, QuietNoted
<1>13. Grows
  <2>1. \A s \in Scopes : clearId'[s] >= clearId[s]
    BY <1>1, <1>5, ClearsAreNat
  <2>2. \A v \in Tasks : tk'[v] = tk[v] => Current(v)' = Current(v)
    BY <1>4, CurrentSame
  <2>3. QED
    BY <2>1, <2>2, <1>5 DEF Grows
<1>14. \A m \in Msgs \ Read' : owner'[m] = None /\ chains'[m] = {}
  BY <1>1, <1>4, <1>5, <1>7 DEF Located
<1>15. ASSUME NEW v \in Tasks
       PROVE  tk'[v] = tk[v] \/ (tk'[v].batch \subseteq Read' /\ Progress(v)')
  <2>1. CASE v = t
    BY <2>1, <1>7, <1>9, RestProgress DEF Rests
  <2>2. CASE v # t
    BY <2>2, <1>9 DEF Rests
  <2>3. QED
    BY <2>1, <2>2
<1>16. \A m \in late' : chains'[m] = {} /\ m \in late
  BY <1>1, <1>5 DEF LateThreatsStaySilent
<1>17. \A m \in Acked' : m \in Acked
  <2>1. SUFFICES ASSUME NEW m \in Acked' PROVE m \in Acked
    OBVIOUS
  <2>2. m \in Published /\ m \notin Unread' /\ owner'[m] = None /\ m \in Msgs
    <3>1. m \in Published' /\ m \notin Unread' /\ owner'[m] = None
      BY DEF Acked
    <3>2. Published \subseteq Msgs
      BY <1>2 DEF Published, Range
    <3>3. QED
      BY <3>1, <3>2, <1>8
  <2>3. m \notin batch
    BY <2>2, <1>1, <1>4, SourceAssumption
  <2>4. owner[m] = None /\ m \notin Unread
    BY <2>2, <2>3, <1>4, <1>8
  <2>5. QED
    BY <2>2, <2>4 DEF Acked
<1>18. QED
  BY <1>7, <1>10, <1>11, <1>12, <1>13, <1>14, <1>15, <1>16, <1>17, Preserved

\* A publication does not change what the tasks work on.
LEMMA CurrentAfterAppend ==
  ASSUME TypeOK, Located, NEW t \in Tasks, NEW m \in Msgs \ Published,
         log' = Append(log, m), tk'[t] = tk[t], tk[t].batch # {}
  PROVE  Current(t)' = Current(t)
<1> DEFINE left == {i \in 1..Len(log) : log[i] \in tk[t].batch}
           first == CHOOSE k \in left : \A j \in left : k <= j
<1>1. log \in Seq(Msgs) /\ Len(log) \in Nat /\ next \in 1..(Len(log) + 1)
  BY DEF TypeOK
<1>2. /\ Len(log') = Len(log) + 1 /\ log'[Len(log) + 1] = m
      /\ \A i \in 1..Len(log) : log'[i] = log[i]
  BY <1>1
<1>3. m \notin tk[t].batch
  BY ReadIsPosts DEF Located
<1>4. {i \in 1..Len(log') : log'[i] \in tk'[t].batch} = left
  <2>1. 1..Len(log') = (1..Len(log)) \cup {Len(log) + 1}
    BY <1>1, <1>2
  <2>2. QED
    BY <2>1, <1>2, <1>3
<1>5. Current(t) = log[first] /\ Current(t)' = log'[first]
  BY <1>4 DEF Current
<1>6. first \in 1..Len(log)
  <2>1. PICK n \in tk[t].batch : n \in Read
    BY DEF Located
  <2>2. PICK i \in 1..(next - 1) : log[i] = n
    BY <2>1 DEF Read
  <2>3. i \in left
    BY <1>1, <2>1, <2>2
  <2>4. left \subseteq Nat /\ left # {} /\ left \subseteq 1..Len(log)
    BY <1>1, <2>3
  <2>5. \E k \in left : \A j \in left : k <= j
    <3> HIDE DEF left
    <3>1. QED
      BY <2>4, LeastExists
  <2>6. first \in left
    BY <2>5
  <2>7. QED
    BY <2>4, <2>6
<1> HIDE DEF first
<1>7. QED
  BY <1>2, <1>5, <1>6

LEMMA PublishStep ==
  ASSUME SInv, NEW m \in Msgs, Publish(m)
  PROVE  SInv'
<1>1. TypeOK /\ Located /\ Dated /\ LateThreatsStaySilent
  BY DEF SInv
<1>2. /\ m \in Msgs \ Published /\ log' = Append(log, m) /\ NoteExcused
      /\ steady' = [steady EXCEPT ![m] = subscribed]
      /\ late' = IF Covered(m) THEN late \cup {m} ELSE late
      /\ recovered' = IF m \in old THEN recovered \cup {m} ELSE recovered
      /\ UNCHANGED <<next, owner, idle, retry, clearId, audits, dead, chains, tk, world, moves>>
  BY DEF Publish
<1>3. UNCHANGED <<subscribed, night, official, old>>
  BY <1>2 DEF world
<1>4. log \in Seq(Msgs) /\ Len(log) \in Nat /\ next \in 1..(Len(log) + 1)
  BY <1>1 DEF TypeOK
<1>5. /\ log' \in Seq(Msgs) /\ Len(log') = Len(log) + 1 /\ log'[Len(log) + 1] = m
      /\ \A i \in 1..Len(log) : log'[i] = log[i]
  BY <1>2, <1>4
<1>6. Read' = Read /\ Read \subseteq Msgs /\ m \notin Read
  <2>1. 1..(next - 1) \subseteq 1..Len(log)
    BY <1>4
  <2>2. Read' = {log'[i] : i \in 1..(next - 1)}
    BY <1>2 DEF Read
  <2>3. \A i \in 1..(next - 1) : log'[i] = log[i]
    BY <2>1, <1>5
  <2>4. {log'[i] : i \in 1..(next - 1)} = {log[i] : i \in 1..(next - 1)}
    BY <2>3
  <2>5. Read' = Read
    BY <2>2, <2>4 DEF Read
  <2>6. QED
    BY <2>5, <1>1, <1>2, ReadIsPosts
<1>7. Published' \subseteq Msgs
  BY <1>5 DEF Published, Range
<1>8. Noted' /\ excused \subseteq excused' /\ excused' \subseteq Msgs
  <2>1. excused \subseteq Msgs /\ Range(log') = Published'
    BY <1>1 DEF TypeOK, Published
  <2>2. excused' \subseteq Msgs
    BY <1>2, <1>7, <2>1 DEF NoteExcused
  <2>3. QED
    BY <1>2, <2>2, NoteNoted
<1>9. steady' \in [Msgs -> SUBSET Users] /\ \A n \in Msgs : n # m => steady'[n] = steady[n]
  BY <1>1, <1>2 DEF TypeOK
<1>10. IsInjective(log')
  <2>1. SUFFICES ASSUME NEW i \in DOMAIN log', NEW j \in DOMAIN log', log'[i] = log'[j]
                 PROVE  i = j
    BY DEF IsInjective
  <2>2. DOMAIN log' = (1..Len(log)) \cup {Len(log) + 1} /\ DOMAIN log = 1..Len(log)
    BY <1>4, <1>5
  <2>3. \A k \in 1..Len(log) : log[k] \in Published
    BY <2>2 DEF Published, Range
  <2>4. CASE i \in 1..Len(log) /\ j \in 1..Len(log)
    BY <1>1, <1>5, <2>1, <2>2, <2>4 DEF TypeOK, IsInjective
  <2>5. CASE i = Len(log) + 1 /\ j \in 1..Len(log)
    BY <1>2, <1>5, <2>1, <2>3, <2>5
  <2>6. CASE j = Len(log) + 1 /\ i \in 1..Len(log)
    BY <1>2, <1>5, <2>1, <2>3, <2>6
  <2>7. CASE i = Len(log) + 1 /\ j = Len(log) + 1
    BY <2>7
  <2>8. QED
    BY <2>2, <2>4, <2>5, <2>6, <2>7
<1>11. TypeOK'
  <2>1. next' \in 1..(Len(log') + 1)
    BY <1>2, <1>4, <1>5
  <2>2. late' \subseteq Msgs /\ recovered' \subseteq Msgs
    BY <1>1, <1>2 DEF TypeOK
  <2>3. QED
    BY <2>1, <2>2, <1>1, <1>2, <1>3, <1>5, <1>8, <1>9, <1>10 DEF TypeOK
<1>12. Dated'
  BY <1>1, <1>2, <1>3 DEF Dated, TypeOK
<1>13. Grows
  <2>1. \A s \in Scopes : clearId'[s] >= clearId[s]
    BY <1>1, <1>2, ClearsAreNat
  <2>2. \A v \in Tasks : tk[v].batch # {} => Current(v)' = Current(v)
    BY <1>1, <1>2, CurrentAfterAppend
  <2>3. QED
    BY <2>1, <2>2, <1>2, <1>6, <1>8, <1>9 DEF Grows
<1>14. \A n \in Msgs \ Read' : owner'[n] = None /\ chains'[n] = {}
  BY <1>1, <1>2, <1>6 DEF Located
<1>15. \A n \in late' : chains'[n] = {} /\ (n \in late \/ Covered(n)')
  <2>1. Covered(m)' <=> Covered(m)
    BY <1>2 DEF Covered
  <2>2. chains[m] = {}
    BY <1>1, <1>6 DEF Located
  <2>3. QED
    BY <2>1, <2>2, <1>1, <1>2 DEF LateThreatsStaySilent
<1>16. \A n \in Acked' : n \in Acked
  <2>1. SUFFICES ASSUME NEW n \in Acked' PROVE n \in Acked
    OBVIOUS
  <2>2. PICK i \in 1..Len(log') : log'[i] = n
    BY <1>5 DEF Acked, Published, Range
  <2>3. i \notin next..Len(log') /\ owner[n] = None
    BY <1>2, <2>2 DEF Acked, Unread
  <2>4. i \in 1..Len(log) /\ i < next
    BY <1>4, <1>5, <2>3
  <2>5. n = log[i] /\ n \in Published
    BY <1>4, <1>5, <2>2, <2>4 DEF Published, Range
  <2>6. ASSUME NEW j \in next..Len(log) PROVE log[j] # n
    <3>1. j \in 1..Len(log) /\ j # i
      BY <1>4, <2>4
    <3>2. QED
      BY <3>1, <1>1, <1>4, <2>4, <2>5 DEF TypeOK, IsInjective
  <2>7. QED
    BY <2>3, <2>5, <2>6 DEF Acked, Unread
<1>17. QED
  BY <1>2, <1>6, <1>8, <1>11, <1>12, <1>13, <1>14, <1>15, <1>16, Preserved

\* A step of the world, or the loss of what a process had in hand.
LEMMA WorldStep ==
  ASSUME SInv, TypeOK', Dated', Noted',
         UNCHANGED <<log, next, clearId, audits, dead, chains, late, recovered>>,
         excused \subseteq excused',
         \A m \in Msgs : /\ steady'[m] \subseteq steady[m]
                         /\ owner'[m] = None <=> owner[m] = None,
         \A t \in Tasks : \/ tk'[t] = tk[t]
                          \/ tk'[t].pc \notin Handling \ {"start"} /\ tk'[t].batch = {}
  PROVE  SInv'
<1>1. TypeOK /\ Located /\ LateThreatsStaySilent
  BY DEF SInv
<1>2. Read' = Read /\ Read \subseteq Msgs
  BY <1>1, ReadIsPosts DEF Read
<1>3. Grows
  <2>1. \A s \in Scopes : clearId'[s] >= clearId[s]
    BY <1>1, ClearsAreNat
  <2>2. \A v \in Tasks : tk'[v] = tk[v] => Current(v)' = Current(v)
    BY CurrentSame
  <2>3. QED
    BY <2>1, <2>2, <1>2 DEF Grows
<1>4. \A m \in Msgs \ Read' : owner'[m] = None /\ chains'[m] = {}
  BY <1>1, <1>2 DEF Located
<1>5. \A t \in Tasks : tk'[t] = tk[t] \/ (tk'[t].batch \subseteq Read' /\ Progress(t)')
  BY RestProgress
<1>6. \A m \in late' : chains'[m] = {} /\ m \in late
  BY <1>1 DEF LateThreatsStaySilent
<1>7. Published' = Published /\ Unread' = Unread /\ Published \subseteq Msgs
  BY <1>1 DEF Published, Unread, Range, TypeOK
<1>8. \A m \in Acked' : m \in Acked
  BY <1>7 DEF Acked
<1>9. QED
  BY <1>2, <1>3, <1>4, <1>5, <1>6, <1>8, Preserved

LEMMA CrashStep ==
  ASSUME SInv, NEW p \in Procs, Crash(p)
  PROVE  SInv'
<1>1. TypeOK /\ Dated
  BY DEF SInv
<1>2. /\ UNCHANGED <<log, next, idle, retry, clearId, audits, dead, chains, world, history>>
      /\ tk' = [t \in Tasks |-> IF t[1] = p THEN Fresh(t[2]) ELSE tk[t]]
  BY DEF Crash
<1>3. UNCHANGED <<subscribed, night, official, old, steady, excused, late, recovered>>
  BY <1>2 DEF world, history
<1>4. \A role \in Roles : /\ Fresh(role) \in Task /\ Fresh(role).batch = {}
                          /\ Fresh(role).pc \notin Handling
  BY DEF Fresh, Task, Handling
<1>5. \A t \in Tasks : tk'[t] \in Task /\ \/ tk'[t] = tk[t]
                                          \/ tk'[t].pc \notin Handling /\ tk'[t].batch = {}
  BY <1>1, <1>2, <1>4 DEF TypeOK
<1>6. tk' \in [Tasks -> Task] /\ \A t \in Tasks : tk'[t].pc \in Handling <=> tk'[t].batch # {}
  BY <1>1, <1>2, <1>5 DEF TypeOK
<1>7. /\ owner' \in [Msgs -> Procs \cup {None, Gone}]
      /\ \A m \in Msgs : owner'[m] = None <=> owner[m] = None
  BY <1>1, SourceAssumption DEF Crash, TypeOK
<1>8. moves' \in 0..MaxMoves
  BY <1>1, SourceAssumption DEF Crash, Moving, TypeOK
<1>9. TypeOK'
  BY <1>1, <1>2, <1>3, <1>6, <1>7, <1>8 DEF TypeOK
<1>10. Dated'
  BY <1>1, <1>2, <1>3 DEF Dated
<1>11. Noted'
  <2>1. ASSUME NEW v \in Tasks, tk'[v].pc \in Handling \ {"start"}
        PROVE  tk'[v] = tk[v] /\ Begun(v)
    BY <2>1, <1>5 DEF Begun
  <2>2. QED
    BY <2>1, <1>2, <1>3, <1>9, QuietNoted
<1>12. QED
  BY <1>2, <1>3, <1>5, <1>7, <1>9, <1>10, <1>11, WorldStep

LEMMA WorldMoves ==
  ASSUME SInv,
         \/ \E m \in Msgs : GoesIdle(m) \/ Ages(m)
         \/ \E u \in Users : Subscribe(u) \/ Unsubscribe(u)
         \/ DayOrNight \/ OfficialAlarm
  PROVE  SInv'
<1>1. TypeOK /\ Dated /\ Noted
  BY DEF SInv
<1>2. UNCHANGED <<log, next, owner, retry, clearId, audits, dead, chains, tk, late, recovered>>
  BY DEF GoesIdle, Ages, Subscribe, Unsubscribe, DayOrNight, OfficialAlarm, Beyond, stream, history
<1>3. moves' \in 0..MaxMoves
  BY <1>1, SourceAssumption DEF TypeOK, GoesIdle, Ages, Subscribe, Unsubscribe, DayOrNight,
       OfficialAlarm, Moving, Beyond
<1>4. /\ idle' \subseteq {m \in Msgs : owner[m] # None} /\ old \subseteq old' /\ old' \subseteq Msgs
      /\ subscribed' \subseteq Users /\ night' \in BOOLEAN /\ official' \in BOOLEAN
  BY <1>1 DEF TypeOK, GoesIdle, Ages, Subscribe, Unsubscribe, DayOrNight, OfficialAlarm,
       Beyond, stream, world
<1>5. /\ steady' \in [Msgs -> SUBSET Users]
      /\ \A m \in Msgs : steady'[m] \subseteq steady[m] /\ steady'[m] \subseteq subscribed'
  <2>1. CASE \E u \in Users : Unsubscribe(u)
    <3>1. PICK u \in Users : /\ subscribed' = subscribed \ {u}
                             /\ steady' = [m \in Msgs |-> steady[m] \ {u}]
      BY <2>1 DEF Unsubscribe
    <3>2. QED
      BY <1>1, <3>1 DEF TypeOK, Dated
  <2>2. CASE UNCHANGED steady /\ subscribed \subseteq subscribed'
    BY <1>1, <2>2 DEF TypeOK, Dated
  <2>3. QED
    BY <2>1, <2>2 DEF GoesIdle, Ages, Subscribe, DayOrNight, OfficialAlarm, Beyond, world, history
<1>6. excused' \subseteq Msgs /\ excused \subseteq excused' /\ (TypeOK' => Noted')
  <2>1. CASE NoteExcused
    <3>1. Range(log') \subseteq Msgs
      BY <1>1, <1>2 DEF TypeOK, Range
    <3>2. QED
      BY <1>1, <2>1, <3>1, NoteNoted DEF NoteExcused, TypeOK
  <2>2. CASE UNCHANGED <<night, official, excused>>
    <3>1. \A v \in Tasks : tk'[v].pc \in Handling \ {"start"} => tk'[v] = tk[v] /\ Begun(v)
      BY <1>2 DEF Begun
    <3>2. QED
      BY <1>1, <1>2, <1>4, <2>2, <3>1, QuietNoted DEF TypeOK
  <2>3. QED
    BY <2>1, <2>2 DEF GoesIdle, Ages, Subscribe, Unsubscribe, DayOrNight, OfficialAlarm,
         Beyond, world, history
<1>7. TypeOK'
  BY <1>1, <1>2, <1>3, <1>4, <1>5, <1>6 DEF TypeOK
<1>8. Dated'
  BY <1>1, <1>2, <1>4, <1>5 DEF Dated
<1>9. QED
  BY <1>2, <1>5, <1>6, <1>7, <1>8, WorldStep

-----------------------------------------------------------------------------
(* The theorems.                                                           *)

LEMMA StepSInv == SInv /\ [Next]_vars => SInv'
<1> SUFFICES ASSUME SInv, [Next]_vars PROVE SInv'
  OBVIOUS
<1>1. ASSUME NEW t \in Tasks, Step(t) PROVE SInv'
  BY <1>1, DrainStep, ReadNewStep, ClaimIdleStep, StartStep, RecordClearStep,
     CheckGlobalStep, CheckScopedStep, CheckAlarmStep, FetchPageStep, DispatchStep,
     DismissStep, FinishStep, ForgetStep, CountFailureStep, DeadLetterStep DEF Step
<1>2. ASSUME NEW t \in Tasks, Abandon(t) PROVE SInv'
  BY <1>2, AbandonStep
<1>3. ASSUME NEW p \in Procs, Crash(p) PROVE SInv'
  BY <1>3, CrashStep
<1>4. ASSUME NEW m \in Msgs, Publish(m) PROVE SInv'
  BY <1>4, PublishStep
<1>5. CASE \/ \E m \in Msgs : GoesIdle(m) \/ Ages(m)
           \/ \E u \in Users : Subscribe(u) \/ Unsubscribe(u)
           \/ DayOrNight \/ OfficialAlarm
  BY <1>5, WorldMoves
<1>6. CASE UNCHANGED vars
  <2>1. TypeOK /\ Dated /\ Noted
    BY DEF SInv
  <2>2. UNCHANGED <<log, next, owner, idle, retry, clearId, audits, dead, chains, tk, subscribed,
                    night, official, old, steady, excused, late, recovered, moves>>
    BY <1>6 DEF vars, stream, world, history
  <2>3. TypeOK' /\ Dated'
    BY <2>1, <2>2 DEF TypeOK, Dated
  <2>4. Noted'
    <3>1. \A v \in Tasks : tk'[v].pc \in Handling \ {"start"} => tk'[v] = tk[v] /\ Begun(v)
      BY <2>2 DEF Begun
    <3>2. QED
      BY <2>2, <2>3, <3>1, QuietNoted
  <2>5. QED
    BY <2>2, <2>3, <2>4, WorldStep
<1>7. QED
  BY <1>1, <1>2, <1>3, <1>4, <1>5, <1>6 DEF Next

\* What the tasks hold, record and owe agrees with the stores: the invariant of
\* the source half of the worker.
THEOREM SourceInvariant == Spec => []SInv
<1>1. QED
  BY InitSInv, StepSInv, PTL DEF Spec

\* Stores and tasks are well typed.
THEOREM SourceTypes == Spec => []TypeOK
<1>1. SInv => TypeOK
  BY DEF SInv
<1>2. QED
  BY <1>1, SourceInvariant, PTL

\* process_single_stream_payload acknowledges a threat only when every user
\* subscribed ever since its publication has a chain, the post is in the DLQ, or
\* it needed no delivery at some time.
THEOREM Handled == Spec => []AcknowledgedIsHandled
<1>1. SInv => AcknowledgedIsHandled
  BY DEF SInv, Settled, Served, AcknowledgedIsHandled
<1>2. QED
  BY <1>1, SourceInvariant, PTL

\* No recorded all-clear is lost or taken back (RECORD_CLEAR_LUA).
THEOREM Recorded == Spec => []AckedClearsAreRecorded
<1>1. SInv => AckedClearsAreRecorded
  BY DEF SInv, Settled, Valid, AckedClearsAreRecorded
<1>2. QED
  BY <1>1, SourceInvariant, PTL

\* A post published under a newer all-clear is fanned out to nobody.
THEOREM LateSilence == Spec => []LateThreatsStaySilent
<1>1. SInv => LateThreatsStaySilent
  BY DEF SInv
<1>2. QED
  BY <1>1, SourceInvariant, PTL

\* A post that was historical when published is audited exactly once.
THEOREM AuditedOnce == Spec => []ExpiredIsAuditedOnce
<1>1. SInv => ExpiredIsAuditedOnce
  <2>1. SUFFICES ASSUME SInv, NEW m \in Published
                 PROVE  /\ audits[m] <= 1
                        /\ m \in Acked \cap recovered /\ Body[m].status # "invalid" => audits[m] = 1
    BY DEF ExpiredIsAuditedOnce
  <2>2. m \in Msgs
    BY <2>1 DEF SInv, TypeOK, Published, Range
  <2>3. QED
    BY <2>1, <2>2 DEF SInv, Dated, Settled, Valid
<1>2. QED
  BY <1>1, SourceInvariant, PTL

=============================================================================
