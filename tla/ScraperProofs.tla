--------------------------- MODULE ScraperProofs ---------------------------
(***************************************************************************)
(* For every number of posts, attempts, rows and failures, the scraper     *)
(* leaves no gap below its checkpoint and implements the abstract courier. *)
(***************************************************************************)
EXTENDS Scraper, TLAPS

\* Nobody in the scraper has the post, or will ever take it up again.
Settled(p) ==
  p \in expired /\ p \notin outbox \cup batch /\ live[p].pc \in {"none", "done"} /\ p <= checkpoint

\* A published post has its marker until the scraper is done with it, unless it
\* has outlived the marker.
Marked ==
  /\ marks \subseteq Published /\ Published \subseteq Usable
  /\ \A p \in Posts \ outlived : copies[p] <= 1
  /\ \A p \in Published \ (marks \cup outlived) : Settled(p)

\* Whoever holds a post beyond its put holds one that is stored or published,
\* and deletes it only when it is published.
Held ==
  /\ \A p \in Posts : live[p].pc \in {"put", "publish", "delete"} => p \in Usable
  /\ \A p \in Posts : live[p].pc # "done" => live[p].tries < MaxTries
  /\ \A p \in Posts : live[p].pc = "publish" => p \in outbox \cup Published
  /\ \A p \in Posts : live[p].pc = "delete" => p \in Published
  /\ batch \subseteq outbox \cup Published
  /\ replay = "delete" => \A p \in batch : First(p) => p \in Published

\* The part of the history a running scan has behind it is stored or published.
Scanned ==
  scan.pc # "idle" =>
    /\ scan.from = checkpoint
    /\ scan.at <= scan.high
    /\ \A p \in Usable : scan.at < p /\ p <= scan.high => p \in outbox \cup Published
    /\ scan.pc = "advance" => Beyond(scan.at)

Gapless == \A p \in Usable : excused < p /\ p <= checkpoint => p \in outbox \cup Published

IInv == TypeOK /\ Marked /\ Held /\ Scanned /\ Gapless

LEMMA InitIInv == Init => IInv
<1> SUFFICES ASSUME Init PROVE IInv
  OBVIOUS
<1>1. Published = {}
  BY DEF Init, Published
<1> QED
  BY <1>1, ScraperAssumption
     DEF Init, IInv, TypeOK, Marked, Held, Scanned, Gapless, Live, Scan, NoHandler,
         NoScan, NoCheckpoint, Posts

\* A step that publishes nothing keeps the markers in order if it gives no settled
\* post back to anybody.
LEMMA MarkedKept ==
  ASSUME Marked, UNCHANGED <<marks, copies, aged>>,
         \A p \in Posts : Settled(p) => Settled(p)'
  PROVE  Marked' /\ Published' = Published
<1>1. Published' = Published
  BY DEF Published
<1> QED
  BY <1>1 DEF Marked, aged, Published

\* Publishing a usable post that somebody holds adds it to the published ones.
LEMMA PublishFacts ==
  ASSUME TypeOK, Marked, NEW p \in Usable, ~Settled(p), PublishOnce(p), UNCHANGED aged,
         \A q \in Posts : Settled(q) => Settled(q)'
  PROVE  /\ Published' = Published \cup {p}
         /\ marks' \subseteq Usable
         /\ copies' \in [Posts -> Nat]
         /\ Marked'
<1>1. p \in Posts /\ copies \in [Posts -> Nat] /\ marks' = marks \cup {p} /\ marks \subseteq Usable
  BY ScraperAssumption DEF TypeOK, PublishOnce
<1>2. copies' \in [Posts -> Nat]
  BY <1>1 DEF PublishOnce
<1>3. Published' = Published \cup {p}
  BY <1>1 DEF PublishOnce, Published, Marked
<1>4. \A q \in Posts \ outlived : copies'[q] <= 1
  <2> SUFFICES ASSUME NEW q \in Posts \ outlived PROVE copies'[q] <= 1
    OBVIOUS
  <2>1. CASE p \in marks \/ q # p
    BY <1>1, <2>1 DEF PublishOnce, Marked
  <2>2. CASE p \notin marks /\ q = p
    <3>1. p \notin Published
      BY <2>2 DEF Marked
    <3>2. copies[p] = 0
      BY <1>1, <3>1 DEF Published
    <3> QED
      BY <1>1, <2>2, <3>2 DEF PublishOnce
  <2> QED
    BY <2>1, <2>2
<1>5. Marked'
  BY <1>1, <1>3, <1>4 DEF Marked, aged, Published
<1> QED
  BY <1>1, <1>2, <1>3, <1>5

\* What the scan and the checkpoint rely on only grows.
LEMMA StoredGrows ==
  ASSUME IInv, outbox \cup Published \subseteq outbox' \cup Published',
         UNCHANGED <<checkpoint, excused, scan>>
  PROVE  Scanned' /\ Gapless'
BY DEF IInv, Scanned, Gapless, Beyond

LEMMA StepIInv == IInv /\ [Next]_vars => IInv'
<1> SUFFICES ASSUME IInv, [Next]_vars PROVE IInv'
  OBVIOUS
<1> USE ScraperAssumption
<1>0. TypeOK /\ Marked /\ Held /\ Scanned /\ Gapless
  BY DEF IInv
<1>1. CASE Appears \/ Ages
  <2>1. TypeOK'
    BY <1>0, <1>1 DEF Appears, Ages, TypeOK, store, tasks, aged
  <2>2. UNCHANGED <<store, tasks, excused, aged>>
    BY <1>1 DEF Appears, Ages
  <2>3. Marked' /\ Published' = Published
    BY <1>0, <2>2, MarkedKept DEF Settled, store, tasks, aged
  <2> QED
    BY <1>0, <2>1, <2>2, <2>3
       DEF IInv, Held, Scanned, Gapless, Beyond, First, store, tasks
<1>2. ASSUME NEW p \in Posts, Arrives(p) PROVE IInv'
  <2>1. UNCHANGED <<channel, ageLimit, store, batch, replay, scan, excused, aged,
                    crashes, fails>>
    BY <1>2 DEF Arrives
  <2>2. live' = [live EXCEPT ![p].pc = IF p \in Usable THEN "put" ELSE "done"]
    BY <1>2 DEF Arrives, LiveGoto, Accepts
  <2>3. TypeOK'
    BY <1>0, <2>1, <2>2 DEF TypeOK, Live, store, aged
  <2>4. /\ live'[p].pc = IF p \in Usable THEN "put" ELSE "done"
        /\ live'[p].tries = live[p].tries /\ live[p].pc = "none"
        /\ \A q \in Posts \ {p} : live'[q] = live[q]
    BY <1>0, <1>2, <2>2 DEF TypeOK, Live, Arrives
  <2>5. \A q \in Posts : Settled(q) => Settled(q)'
    BY <1>2, <2>1, <2>4 DEF Settled, Arrives, store, aged
  <2>6. Marked' /\ Published' = Published
    BY <1>0, <2>1, <2>5, MarkedKept DEF store
  <2>7. Held'
    BY <1>0, <2>1, <2>4, <2>6 DEF Held, First, store
  <2> QED
    BY <1>0, <2>1, <2>3, <2>6, <2>7, StoredGrows DEF IInv, store
<1>3. ASSUME NEW p \in Posts, LivePut(p) PROVE IInv'
  <2>1. p \in Usable
    BY <1>0, <1>3 DEF LivePut, Held
  <2>2. TypeOK'
    BY <1>0, <1>3, <2>1 DEF LivePut, Put, LiveGoto, TypeOK, Live, aged
  <2>3. /\ live'[p].pc = "publish" /\ live[p].pc = "put"
        /\ live'[p].tries = live[p].tries
        /\ \A q \in Posts \ {p} : live'[q] = live[q]
    BY <1>0, <1>3 DEF LivePut, LiveGoto, TypeOK, Live
  <2>4. \A q \in Posts : Settled(q) => Settled(q)'
    BY <1>3, <2>3 DEF LivePut, Put, Settled, aged
  <2>5. Marked' /\ Published' = Published
    BY <1>0, <1>3, <2>4, MarkedKept DEF LivePut
  <2>6. Held'
    BY <1>0, <1>3, <2>1, <2>3, <2>5 DEF LivePut, Put, Held, First
  <2>7. Scanned' /\ Gapless'
    BY <1>3, <2>5, StoredGrows DEF LivePut, Put
  <2> QED
    BY <2>2, <2>5, <2>6, <2>7 DEF IInv
<1>4. ASSUME NEW p \in Posts, LivePublish(p) PROVE IInv'
  <2>1. p \in Usable /\ PublishOnce(p) /\ ~Settled(p)
    BY <1>0, <1>4 DEF LivePublish, Held, Settled
  <2>2. /\ live'[p].pc = "delete" /\ live[p].pc = "publish"
        /\ live'[p].tries = live[p].tries
        /\ \A q \in Posts \ {p} : live'[q] = live[q]
    BY <1>0, <1>4 DEF LivePublish, LiveGoto, TypeOK, Live
  <2>3. \A q \in Posts : Settled(q) => Settled(q)'
    BY <1>4, <2>2 DEF LivePublish, Settled, aged
  <2>4. Marked' /\ Published' = Published \cup {p} /\ marks' \subseteq Usable
        /\ copies' \in [Posts -> Nat]
    BY <1>0, <1>4, <2>1, <2>3, PublishFacts DEF LivePublish
  <2>5. TypeOK'
    BY <1>0, <1>4, <2>4 DEF LivePublish, LiveGoto, TypeOK, Live, aged
  <2>6. Held'
    BY <1>0, <1>4, <2>1, <2>2, <2>4 DEF LivePublish, Held, First
  <2>7. Scanned' /\ Gapless'
    BY <1>4, <2>4, StoredGrows DEF LivePublish
  <2> QED
    BY <2>4, <2>5, <2>6, <2>7 DEF IInv
<1>5. ASSUME NEW p \in Posts, LivePublishRaises(p) PROVE IInv'
  <2>1. p \in Usable /\ p \in outbox \cup Published /\ ~Settled(p)
    BY <1>0, <1>5 DEF LivePublishRaises, Held, Settled
  <2>2. LiveRetry(p) /\ fails' \in 0..MaxFails
        /\ UNCHANGED <<channel, ageLimit, outbox, checkpoint, batch, replay, scan,
                       excused, aged, crashes>>
    BY <1>0, <1>5 DEF LivePublishRaises, PublishRaises, TypeOK
  <2>3. live[p].tries + 1 \in 0..MaxTries
    BY <1>0, <1>5 DEF TypeOK, Live, Held, LivePublishRaises
  <2>4. /\ live'[p].pc \in {"publish", "done"} /\ live'[p].tries = live[p].tries + 1
        /\ live'[p].pc # "done" => live'[p].tries < MaxTries
        /\ \A q \in Posts \ {p} : live'[q] = live[q]
    BY <1>0, <2>2, <2>3 DEF LiveRetry, TypeOK, Live
  <2>5. \A q \in Posts : Settled(q) => Settled(q)'
    BY <2>1, <2>2, <2>4 DEF Settled, aged
  <2>6. Marked' /\ Published \subseteq Published' /\ marks' \subseteq Usable
        /\ copies' \in [Posts -> Nat]
    <3>1. CASE PublishOnce(p)
      BY <1>0, <2>1, <2>2, <2>5, <3>1, PublishFacts
    <3>2. CASE UNCHANGED <<marks, copies>>
      BY <1>0, <2>2, <2>5, <3>2, MarkedKept DEF TypeOK
    <3> QED
      BY <1>5, <3>1, <3>2 DEF LivePublishRaises, PublishRaises
  <2>7. TypeOK'
    BY <1>0, <2>2, <2>3, <2>6 DEF LiveRetry, TypeOK, Live, aged
  <2>8. Held'
    BY <1>0, <2>1, <2>2, <2>4, <2>6 DEF Held, First
  <2>9. Scanned' /\ Gapless'
    BY <2>2, <2>6, StoredGrows
  <2> QED
    BY <2>6, <2>7, <2>8, <2>9 DEF IInv
<1>6. ASSUME NEW p \in Posts, LiveDelete(p) PROVE IInv'
  <2>1. p \in Published
    BY <1>0, <1>6 DEF LiveDelete, Held
  <2>2. TypeOK'
    BY <1>0, <1>6 DEF LiveDelete, Delete, LiveGoto, TypeOK, Live, aged
  <2>3. /\ live'[p].pc = "done" /\ live[p].pc = "delete"
        /\ \A q \in Posts \ {p} : live'[q] = live[q]
    BY <1>0, <1>6 DEF LiveDelete, LiveGoto, TypeOK, Live
  <2>4. \A q \in Posts : Settled(q) => Settled(q)'
    BY <1>6, <2>3 DEF LiveDelete, Delete, Settled, aged
  <2>5. Marked' /\ Published' = Published
    BY <1>0, <1>6, <2>4, MarkedKept DEF LiveDelete
  <2>6. Held'
    BY <1>0, <1>6, <2>1, <2>3, <2>5 DEF LiveDelete, Delete, Held, First
  <2>7. Scanned' /\ Gapless'
    BY <1>6, <2>1, <2>5, StoredGrows DEF LiveDelete, Delete
  <2> QED
    BY <2>2, <2>5, <2>6, <2>7 DEF IInv
<1>7. ASSUME NEW p \in Posts, LiveDeleteRaises(p) PROVE IInv'
  <2>1. p \in Published /\ p \in Usable /\ live[p].tries + 1 \in 0..MaxTries
    BY <1>0, <1>7 DEF LiveDeleteRaises, Held, TypeOK, Live
  <2>2. TypeOK'
    BY <1>0, <1>7, <2>1 DEF LiveDeleteRaises, LiveRetry, TypeOK, Live, store, aged
  <2>3. /\ live'[p].pc \in {"publish", "done"} /\ live'[p].tries = live[p].tries + 1
        /\ live'[p].pc # "done" => live'[p].tries < MaxTries
        /\ live[p].pc = "delete" /\ \A q \in Posts \ {p} : live'[q] = live[q]
    BY <1>0, <1>7, <2>1 DEF LiveDeleteRaises, LiveRetry, TypeOK, Live
  <2>4. UNCHANGED <<store, batch, replay, scan, excused, aged>>
    BY <1>7 DEF LiveDeleteRaises
  <2>5. Marked' /\ Published' = Published
    BY <1>0, <2>3, <2>4, MarkedKept DEF Settled, store, aged
  <2>6. Held'
    BY <1>0, <2>1, <2>3, <2>4, <2>5 DEF Held, First, store
  <2>7. Scanned' /\ Gapless'
    BY <2>4, <2>5, StoredGrows DEF store
  <2> QED
    BY <2>2, <2>5, <2>6, <2>7 DEF IInv
<1>8. ASSUME NEW p \in Posts, LivePutRaises(p) PROVE IInv'
  <2>1. TypeOK'
    BY <1>0, <1>8 DEF LivePutRaises, LiveGoto, TypeOK, Live, store, aged
  <2>2. live'[p].pc = "done" /\ \A q \in Posts \ {p} : live'[q] = live[q]
    BY <1>0, <1>8 DEF LivePutRaises, LiveGoto, TypeOK, Live
  <2>3. UNCHANGED <<store, batch, replay, scan, excused, aged>>
    BY <1>8 DEF LivePutRaises
  <2>4. Marked' /\ Published' = Published
    BY <1>0, <2>2, <2>3, MarkedKept DEF Settled, store, aged
  <2>5. Held'
    BY <1>0, <2>2, <2>3, <2>4 DEF Held, First, store
  <2>6. Scanned' /\ Gapless'
    BY <2>3, <2>4, StoredGrows DEF store
  <2> QED
    BY <2>1, <2>4, <2>5, <2>6 DEF IInv
<1>9. CASE ReadBatch
  <2>1. PICK b \in SUBSET outbox : batch' = b
    BY <1>9 DEF ReadBatch
  <2>2. TypeOK'
    BY <1>0, <1>9, <2>1 DEF ReadBatch, TypeOK, store, aged
  <2>3. UNCHANGED <<store, live, scan, excused, aged>> /\ replay' = "publish"
    BY <1>9 DEF ReadBatch
  <2>4. Marked' /\ Published' = Published
    BY <1>0, <2>1, <2>3, MarkedKept DEF Settled, store, aged
  <2>5. Held'
    BY <1>0, <2>1, <2>3, <2>4 DEF Held, store
  <2>6. Scanned' /\ Gapless'
    BY <2>3, <2>4, StoredGrows DEF store
  <2> QED
    BY <2>2, <2>4, <2>5, <2>6 DEF IInv
<1>10. CASE ReplayPublish
  <2>1. PICK p \in batch : First(p) /\ PublishOnce(p)
    BY <1>10 DEF ReplayPublish
  <2>2. p \in Usable /\ ~Settled(p)
    BY <1>0 DEF TypeOK, Settled
  <2>3. \A q \in Posts : Settled(q) => Settled(q)'
    BY <1>10 DEF ReplayPublish, Settled, aged
  <2>4. Marked' /\ Published' = Published \cup {p} /\ marks' \subseteq Usable
        /\ copies' \in [Posts -> Nat]
    BY <1>0, <1>10, <2>1, <2>2, <2>3, PublishFacts DEF ReplayPublish
  <2>5. TypeOK'
    BY <1>0, <1>10, <2>4 DEF ReplayPublish, TypeOK, aged
  <2>6. \A q \in batch : First(q) => q = p
    BY <1>0, <2>1, <2>2 DEF First, TypeOK, Posts
  <2>7. Held'
    BY <1>0, <1>10, <2>1, <2>4, <2>6 DEF ReplayPublish, Held, First
  <2>8. Scanned' /\ Gapless'
    BY <1>10, <2>4, StoredGrows DEF ReplayPublish
  <2> QED
    BY <2>4, <2>5, <2>7, <2>8 DEF IInv
<1>11. CASE ReplayDelete
  <2>1. PICK p \in batch : First(p) /\ Delete(p) /\ batch' = batch \ {p}
                          /\ replay' = IF batch = {p} THEN "idle" ELSE "publish"
    BY <1>11 DEF ReplayDelete
  <2>2. p \in Published
    BY <1>0, <1>11, <2>1 DEF ReplayDelete, Held
  <2>3. TypeOK'
    BY <1>0, <1>11, <2>1 DEF ReplayDelete, Delete, TypeOK, aged
  <2>4. \A q \in Posts : Settled(q) => Settled(q)'
    BY <1>11, <2>1 DEF ReplayDelete, Delete, Settled, aged
  <2>5. Marked' /\ Published' = Published
    BY <1>0, <1>11, <2>4, MarkedKept DEF ReplayDelete
  <2>6. Held'
    BY <1>0, <1>11, <2>1, <2>2, <2>5 DEF ReplayDelete, Delete, Held, First
  <2>7. Scanned' /\ Gapless'
    BY <1>11, <2>1, <2>2, <2>5, StoredGrows DEF ReplayDelete, Delete
  <2> QED
    BY <2>3, <2>5, <2>6, <2>7 DEF IInv
<1>12. CASE ReplayRaises
  <2>1. \A q \in Posts : Settled(q) => Settled(q)'
    BY <1>12 DEF ReplayRaises, Settled, aged
  <2>2. Marked' /\ Published \subseteq Published' /\ marks' \subseteq Usable
        /\ copies' \in [Posts -> Nat]
    <3>1. ASSUME NEW p \in batch, PublishOnce(p)
          PROVE  Marked' /\ Published \subseteq Published' /\ marks' \subseteq Usable
                 /\ copies' \in [Posts -> Nat]
      <4>1. p \in Usable /\ ~Settled(p) /\ UNCHANGED aged
        BY <1>0, <1>12 DEF TypeOK, Settled, ReplayRaises
      <4> QED
        BY <1>0, <2>1, <3>1, <4>1, PublishFacts
    <3>2. CASE UNCHANGED <<marks, copies>>
      BY <1>0, <1>12, <2>1, <3>2, MarkedKept DEF ReplayRaises, TypeOK
    <3> QED
      BY <1>12, <3>1, <3>2 DEF ReplayRaises, PublishRaises
  <2>3. fails' \in 0..MaxFails
    BY <1>0, <1>12 DEF ReplayRaises, PublishRaises, TypeOK
  <2>4. TypeOK'
    BY <1>0, <1>12, <2>2, <2>3 DEF ReplayRaises, TypeOK, aged
  <2>5. Held'
    BY <1>0, <1>12, <2>2 DEF ReplayRaises, Held, First
  <2>6. Scanned' /\ Gapless'
    BY <1>12, <2>2, StoredGrows DEF ReplayRaises
  <2> QED
    BY <2>2, <2>4, <2>5, <2>6 DEF IInv
<1>13. CASE StartScan
  <2>1. scan' = [pc |-> "scan", from |-> checkpoint, cutoff |-> ageLimit,
                 high |-> channel, at |-> channel]
    BY <1>13 DEF StartScan
  <2>2. TypeOK'
    <3>1. scan' \in Scan
      BY <1>0, <2>1 DEF TypeOK, Scan, NoCheckpoint, Posts
    <3> QED
      BY <1>0, <1>13, <3>1 DEF StartScan, TypeOK, store, aged
  <2>3. Scanned'
    BY <1>0, <1>13, <2>1 DEF StartScan, Scanned, TypeOK, Posts, store
  <2>4. Marked' /\ Published' = Published
    BY <1>0, <1>13, MarkedKept DEF StartScan, Settled, store, aged
  <2>5. Held' /\ Gapless'
    BY <1>0, <1>13, <2>4 DEF StartScan, Held, Gapless, First, store
  <2> QED
    BY <2>2, <2>3, <2>4, <2>5 DEF IInv
<1>14. CASE ScanPost
  <2>1. scan' = [scan EXCEPT !.at = scan.at - 1] /\ scan.pc = "scan" /\ scan.at # 0
    BY <1>14 DEF ScanPost, Beyond
  <2>2. outbox' = (IF scan.at \in Usable THEN outbox \cup {scan.at} ELSE outbox)
    BY <1>14 DEF ScanPost, Put, Accepts
  <2>3. TypeOK'
    BY <1>0, <1>14, <2>1, <2>2 DEF ScanPost, TypeOK, Scan, aged
  <2>4. UNCHANGED <<checkpoint, marks, copies, live, batch, replay, excused, aged>>
        /\ scan.at \in Nat /\ scan.high \in Nat
    BY <1>0, <1>14 DEF ScanPost, TypeOK, Scan
  <2>5. ~(scan.at <= checkpoint)
    BY <1>0, <1>14, <2>1, <2>4
       DEF ScanPost, Beyond, Scanned, TypeOK, NoCheckpoint, Posts
  <2>6. \A q \in Posts : Settled(q) => Settled(q)'
    BY <2>2, <2>4, <2>5 DEF Settled, aged
  <2>7. Marked' /\ Published' = Published
    BY <1>0, <2>4, <2>6, MarkedKept
  <2>8. Scanned'
    <3>1. scan'.at = scan.at - 1 /\ scan'.from = scan.from /\ scan'.high = scan.high
          /\ scan'.pc = "scan"
      BY <1>0, <2>1 DEF TypeOK, Scan
    <3> QED
      BY <1>0, <2>1, <2>2, <2>4, <2>7, <3>1 DEF Scanned, Posts
  <2>9. Held' /\ Gapless'
    BY <1>0, <2>2, <2>4, <2>7 DEF Held, Gapless, First
  <2> QED
    BY <2>3, <2>7, <2>8, <2>9 DEF IInv
<1>15. CASE EndScan
  <2>1. scan' \in {NoScan, [scan EXCEPT !.pc = "advance"]} /\ scan.pc = "scan"
        /\ Beyond(scan.at)
    BY <1>15 DEF EndScan
  <2>2. TypeOK'
    BY <1>0, <1>15, <2>1 DEF EndScan, TypeOK, Scan, NoScan, NoCheckpoint, Posts, store, aged
  <2>3. Marked' /\ Published' = Published
    BY <1>0, <1>15, MarkedKept DEF EndScan, Settled, store, aged
  <2>4. Scanned'
    <3>1. CASE scan' = NoScan
      BY <3>1 DEF Scanned, NoScan
    <3>2. CASE scan' = [scan EXCEPT !.pc = "advance"]
      <4>1. /\ scan'.at = scan.at /\ scan'.from = scan.from
            /\ scan'.high = scan.high /\ scan'.cutoff = scan.cutoff
        BY <1>0, <3>2 DEF TypeOK, Scan
      <4> QED
        BY <1>0, <1>15, <2>1, <2>3, <4>1 DEF EndScan, Scanned, Beyond, store
    <3> QED
      BY <2>1, <3>1, <3>2
  <2>5. Held' /\ Gapless'
    BY <1>0, <1>15, <2>3 DEF EndScan, Held, Gapless, First, store
  <2> QED
    BY <2>2, <2>3, <2>4, <2>5 DEF IInv
<1>16. CASE Advance
  <2>1. TypeOK'
    BY <1>0, <1>16 DEF Advance, TypeOK, Scan, NoScan, NoCheckpoint, Posts, aged
  <2>2. checkpoint <= checkpoint' /\ UNCHANGED <<outbox, marks, copies, live, batch, replay, aged>>
    BY <1>0, <1>16 DEF Advance, TypeOK, Scan, NoCheckpoint
  <2>3. Marked' /\ Published' = Published
    <3>1. \A q \in Posts : Settled(q) => Settled(q)'
      BY <1>0, <2>1, <2>2 DEF Settled, aged, TypeOK, Posts, NoCheckpoint
    <3> QED
      BY <1>0, <2>2, <3>1, MarkedKept
  <2>4. Gapless'
    <3>1. /\ scan.from = checkpoint /\ Beyond(scan.at)
          /\ \A p \in Usable : scan.at < p /\ p <= scan.high => p \in outbox \cup Published
      BY <1>0, <1>16 DEF Advance, Scanned
    <3>2. /\ checkpoint \in Int /\ scan.at \in Nat /\ scan.high \in Nat
          /\ scan.cutoff \in Nat /\ Usable \subseteq Nat
      BY <1>0 DEF TypeOK, Scan, NoCheckpoint, Posts
    <3>3. CASE checkpoint = NoCheckpoint
      <4>1. excused' = scan.cutoff /\ checkpoint' = scan.high
        BY <1>16, <3>1, <3>2, <3>3 DEF Advance, NoCheckpoint
      <4> QED
        BY <2>2, <2>3, <3>1, <3>2, <3>3, <4>1 DEF Gapless, Beyond
    <3>4. CASE checkpoint # NoCheckpoint
      <4>1. UNCHANGED excused
        BY <1>16, <3>1, <3>4 DEF Advance
      <4>2. scan.at <= checkpoint
        BY <3>1, <3>2, <3>4, <1>0 DEF Beyond, TypeOK, NoCheckpoint
      <4>3. checkpoint' <= checkpoint \/ checkpoint' = scan.high
        BY <1>16, <3>2 DEF Advance
      <4>4. checkpoint' \in Int /\ excused \in Nat
        BY <1>0, <1>16, <3>2 DEF Advance, TypeOK
      <4>5. ASSUME NEW p \in Usable, excused < p, p <= checkpoint'
            PROVE  p \in outbox \cup Published
        <5>1. CASE p <= checkpoint
          BY <1>0, <4>5, <5>1 DEF Gapless
        <5>2. CASE ~(p <= checkpoint)
          BY <3>1, <3>2, <4>2, <4>3, <4>4, <4>5, <5>2
        <5> QED
          BY <5>1, <5>2
      <4> QED
        BY <2>2, <2>3, <4>1, <4>5 DEF Gapless
    <3> QED
      BY <3>3, <3>4
  <2>5. Held' /\ Scanned'
    BY <1>0, <1>16, <2>2, <2>3 DEF Advance, Held, Scanned, First, NoScan
  <2> QED
    BY <2>1, <2>3, <2>4, <2>5 DEF IInv
<1>17. CASE ScanRaises
  <2>1. TypeOK'
    BY <1>0, <1>17 DEF ScanRaises, TypeOK, Scan, NoScan, NoCheckpoint, Posts, store, aged
  <2>2. Marked' /\ Published' = Published
    BY <1>0, <1>17, MarkedKept DEF ScanRaises, Settled, store, aged
  <2> QED
    BY <1>0, <1>17, <2>1, <2>2
       DEF ScanRaises, IInv, Held, Scanned, Gapless, First, NoScan, store
<1>18. CASE Crash
  <2>1. TypeOK'
    BY <1>0, <1>18
       DEF Crash, TypeOK, Scan, NoScan, NoCheckpoint, Posts, store, aged, NoHandler, Live
  <2>2. Marked' /\ Published' = Published
    BY <1>0, <1>18, MarkedKept DEF Crash, Settled, NoHandler, store, aged
  <2>3. Held'
    BY <1>0, <1>18, <2>2 DEF Crash, Held, First, NoHandler, store
  <2> QED
    BY <1>0, <1>18, <2>1, <2>2, <2>3 DEF Crash, IInv, Scanned, Gapless, NoScan, store
<1>19. ASSUME NEW p \in Posts, MarkExpires(p) PROVE IInv'
  <2>1. UNCHANGED <<channel, ageLimit, outbox, checkpoint, copies, live, batch, replay, scan,
                    excused, crashes, fails>>
        /\ marks' = marks \ {p} /\ expired' = expired \cup {p}
        /\ outlived' \in {outlived, outlived \cup {p}}
        /\ (outlived' = outlived /\ p \notin outlived => p \notin outbox /\ ~(p > checkpoint))
    BY <1>19 DEF MarkExpires, tasks
  <2>2. TypeOK'
    BY <1>0, <2>1 DEF TypeOK
  <2>3. Published' = Published
    BY <2>1 DEF Published
  <2>4. \A q \in Posts : Settled(q) => Settled(q)'
    BY <2>1 DEF Settled
  <2>5. p \notin outlived' => Settled(p)'
    BY <1>0, <1>19, <2>1 DEF MarkExpires, Settled, TypeOK, Posts, NoCheckpoint
  <2>6. Marked'
    BY <1>0, <2>1, <2>3, <2>4, <2>5 DEF Marked, Published
  <2> QED
    BY <1>0, <2>1, <2>2, <2>3, <2>6 DEF IInv, Held, Scanned, Gapless, Beyond, First
<1>20. CASE UNCHANGED vars
  <2>1. UNCHANGED <<store, tasks, excused, aged>>
    BY <1>20 DEF vars
  <2>2. Marked' /\ Published' = Published
    BY <1>0, <2>1, MarkedKept DEF Settled, store, tasks, aged
  <2> QED
    BY <1>0, <1>20, <2>2
       DEF IInv, TypeOK, Held, Scanned, Gapless, Beyond, First, vars, store, tasks, aged
<1> QED
  BY <1>1, <1>2, <1>3, <1>4, <1>5, <1>6, <1>7, <1>8, <1>9, <1>10, <1>11, <1>12, <1>13,
     <1>14, <1>15, <1>16, <1>17, <1>18, <1>19, <1>20
     DEF Next, LiveStep, ReplayStep, ScanStep

\* In every behaviour the strengthening holds.
THEOREM Invariant == Spec => []IInv
BY InitIInv, StepIInv, PTL DEF Spec

\* Type correctness, for every channel, bound and set of usable posts.
THEOREM TypeCorrect == Spec => []TypeOK
<1>1. IInv => TypeOK
  BY DEF IInv
<1> QED
  BY <1>1, Invariant, PTL

\* The catch-up never moves its checkpoint over a post that is neither on disk nor
\* on the stream, for every number of posts, crashes and failed calls.
THEOREM NoGap == Spec => []NoGapBelowCheckpoint
<1>1. IInv => NoGapBelowCheckpoint
  BY DEF IInv, Gapless, NoGapBelowCheckpoint
<1> QED
  BY <1>1, Invariant, PTL

\* A post enters the stream at most once, whichever of the tasks publish it and
\* however often a call is repeated after an uncertain failure, unless the scraper
\* was not done with it when its marker expired.
THEOREM Once == Spec => []PublishedOnce
<1>1. IInv => PublishedOnce
  BY DEF IInv, Marked, PublishedOnce
<1> QED
  BY <1>1, Invariant, PTL

-----------------------------------------------------------------------------
(* The refinement: each step accepts one post, hands one over, or stutters. *)

Stored == outbox \cup Published

\* What the mapping shows of a step is what it shows of outbox and Published.
LEMMA Shown ==
  ASSUME \/ Stored' = Stored /\ Published' = Published
         \/ \E p \in Usable : Stored' = Stored \cup {p} /\ Published' = Published
         \/ \E p \in Usable : /\ Stored' = Stored /\ Published' = Published \cup {p}
                              /\ p \in Stored
  PROVE  [C!Next]_(C!vars)
BY DEF Stored, C!Next, C!vars, C!Accept, C!HandOver

\* Publishing a post that is stored hands it over, or changes nothing.
LEMMA PublishShown ==
  ASSUME TypeOK, Marked, NEW p \in Usable, p \in Stored, UNCHANGED outbox,
         PublishOnce(p) \/ UNCHANGED <<marks, copies>>
  PROVE  [C!Next]_(C!vars)
<1>1. CASE PublishOnce(p)
  <2>1. Published' = Published \cup {p}
    BY <1>1, ScraperAssumption DEF TypeOK, Marked, PublishOnce, Published
  <2> QED
    BY <2>1, Shown DEF Stored
<1>2. CASE UNCHANGED <<marks, copies>>
  BY <1>2, Shown DEF Stored, Published
<1> QED
  BY <1>1, <1>2

LEMMA StepRefines == IInv /\ [Next]_vars => [C!Next]_(C!vars)
<1> SUFFICES ASSUME IInv, [Next]_vars PROVE [C!Next]_(C!vars)
  OBVIOUS
<1>0. TypeOK /\ Marked /\ Held
  BY DEF IInv
<1>1. ASSUME UNCHANGED <<outbox, copies>> PROVE [C!Next]_(C!vars)
  BY <1>1, Shown DEF Stored, Published
<1>2. ASSUME NEW p \in Usable, Put(p), UNCHANGED copies PROVE [C!Next]_(C!vars)
  BY <1>2, Shown DEF Put, Stored, Published
<1>3. ASSUME NEW p \in Published, Delete(p), UNCHANGED copies PROVE [C!Next]_(C!vars)
  BY <1>3, Shown DEF Delete, Stored, Published
<1>4. ASSUME NEW p \in Posts, LivePut(p) PROVE [C!Next]_(C!vars)
  BY <1>0, <1>2, <1>4 DEF LivePut, Held
<1>5. ASSUME NEW p \in Posts, LivePublish(p) \/ LivePublishRaises(p)
      PROVE  [C!Next]_(C!vars)
  <2>1. p \in Usable /\ p \in Stored
    BY <1>0, <1>5 DEF LivePublish, LivePublishRaises, Held, Stored
  <2> QED
    BY <1>0, <1>5, <2>1, PublishShown DEF LivePublish, LivePublishRaises, PublishRaises
<1>6. ASSUME NEW p \in Posts, LiveDelete(p) PROVE [C!Next]_(C!vars)
  BY <1>0, <1>3, <1>6 DEF LiveDelete, Held
<1>7. CASE ReplayPublish \/ ReplayRaises
  <2>1. ASSUME NEW p \in batch, PublishOnce(p), UNCHANGED outbox
        PROVE  [C!Next]_(C!vars)
    <3>1. p \in Usable /\ p \in Stored
      BY <1>0 DEF TypeOK, Held, Stored
    <3> QED
      BY <1>0, <2>1, <3>1, PublishShown
  <2> QED
    BY <1>1, <1>7, <2>1 DEF ReplayPublish, ReplayRaises, PublishRaises
<1>8. CASE ReplayDelete
  <2>1. PICK p \in batch : First(p) /\ Delete(p)
    BY <1>8 DEF ReplayDelete
  <2>2. p \in Published /\ UNCHANGED copies
    BY <1>0, <1>8, <2>1 DEF ReplayDelete, Held
  <2> QED
    BY <1>3, <2>1, <2>2
<1>9. CASE ScanPost
  BY <1>1, <1>2, <1>9 DEF ScanPost, Accepts
<1>10. CASE \/ Appears \/ Ages \/ ReadBatch \/ StartScan \/ EndScan \/ Advance
            \/ ScanRaises \/ Crash \/ UNCHANGED vars
            \/ \E p \in Posts : \/ Arrives(p) \/ LivePutRaises(p) \/ LiveDeleteRaises(p)
                                \/ MarkExpires(p)
  BY <1>1, <1>10
     DEF Appears, Ages, ReadBatch, StartScan, EndScan, Advance, ScanRaises, Crash,
         Arrives, LivePutRaises, LiveDeleteRaises, MarkExpires, vars, store
<1> QED
  BY <1>4, <1>5, <1>6, <1>7, <1>8, <1>9, <1>10
     DEF Next, LiveStep, ReplayStep, ScanStep

\* The scraper implements the abstract courier: whatever it is configured with and
\* wherever it dies or fails, it answers for every post it stored, and hands over
\* each at most once and none that it had not stored.
THEOREM Implements == Spec => ImplementsCourier
<1>1. Init => C!Init
  BY ScraperAssumption DEF Init, C!Init, Published, Posts
<1> QED
  BY <1>1, Invariant, StepRefines, PTL DEF Spec, ImplementsCourier, C!Spec
=============================================================================
