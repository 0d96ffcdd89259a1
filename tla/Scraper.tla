------------------------------ MODULE Scraper ------------------------------
(***************************************************************************)
(* The scraper: the live handler of channel posts, the catch-up over the   *)
(* channel's history, the replay of the SQLite outbox and the script that  *)
(* publishes a post once (scraper/main.py, catchup.py, outbox.py and       *)
(* publisher.py).  The three run as tasks of one process; SQLite and Redis *)
(* survive it.  Posts are numbered as Telegram numbers them.               *)
(***************************************************************************)
EXTENDS Integers, FiniteSets

CONSTANTS
  MaxPost,      \* bound on the posts of the channel
  Usable,       \* posts that have a text and pass AlertMessage
  MaxTries,     \* publish attempts of the live handler (3 in the code)
  BatchLimit,   \* rows one replay reads (100 in the code)
  MaxCrashes,   \* bound: deaths of the process
  MaxFails      \* bound: calls that raise

Posts == 1..MaxPost

ASSUME ScraperAssumption ==
  /\ MaxPost \in Nat /\ Usable \subseteq Posts
  /\ MaxTries \in Nat \ {0} /\ BatchLimit \in Nat \ {0}
  /\ MaxCrashes \in Nat /\ MaxFails \in Nat

NoCheckpoint == -1

VARIABLES
  channel,     \* newest post of the channel
  ageLimit,    \* posts up to this one are more than 15 minutes old
  \* --- SQLite
  outbox,      \* pending_posts
  checkpoint,  \* last_reconciled_id
  \* --- Redis
  marks,       \* source:published:<chat>:<post>
  copies,      \* entries of alerts_stream that carry the post
  \* --- tasks of the process
  live,        \* handler of each post that arrived as an update
  batch,       \* rows the replay has read and not yet finished
  replay,      \* the replay's next call
  scan,        \* the catch-up
  \* --- history and bounds
  excused,     \* posts the first completed scan left out as too old
  expired,     \* posts whose marker has expired
  outlived,    \* those of them the scraper was not done with by then
  crashes, fails

store == <<outbox, checkpoint, marks, copies>>
tasks == <<live, batch, replay, scan>>
aged  == <<expired, outlived>>
vars  == <<channel, ageLimit, store, tasks, excused, aged, crashes, fails>>

Live == [pc : {"none", "put", "publish", "delete", "done"}, tries : 0..MaxTries]
Scan == [pc : {"idle", "scan", "advance"}, from : Posts \cup {0, NoCheckpoint},
         cutoff : 0..MaxPost, high : 0..MaxPost, at : 0..MaxPost]

NoHandler == [pc |-> "none", tries |-> 0]
NoScan    == [pc |-> "idle", from |-> NoCheckpoint, cutoff |-> 0, high |-> 0, at |-> 0]

\* The types of the stores and handlers, and the numbers of attempts they are bounded by.
TypeOK ==
  /\ channel \in 0..MaxPost
  /\ ageLimit \in 0..channel
  /\ outbox \subseteq Usable
  /\ checkpoint \in 0..MaxPost \cup {NoCheckpoint}
  /\ marks \subseteq Usable
  /\ copies \in [Posts -> Nat]
  /\ live \in [Posts -> Live]
  /\ batch \subseteq Usable
  /\ replay \in {"idle", "publish", "delete"}
  /\ scan \in Scan
  /\ excused \in 0..MaxPost
  /\ expired \subseteq Posts /\ outlived \subseteq expired
  /\ crashes \in 0..MaxCrashes
  /\ fails \in 0..MaxFails

\* The scraper is deployed on a channel that already has a history.
Init ==
  /\ channel \in 0..MaxPost
  /\ ageLimit \in 0..channel
  /\ outbox = {}
  /\ checkpoint = NoCheckpoint
  /\ marks = {}
  /\ copies = [p \in Posts |-> 0]
  /\ live = [p \in Posts |-> NoHandler]
  /\ batch = {}
  /\ replay = "idle"
  /\ scan = NoScan
  /\ excused = 0
  /\ expired = {}
  /\ outlived = {}
  /\ crashes = 0
  /\ fails = 0

-----------------------------------------------------------------------------
(* The channel.                                                            *)

Appears ==
  /\ channel < MaxPost
  /\ channel' = channel + 1
  /\ UNCHANGED <<ageLimit, store, tasks, excused, aged, crashes, fails>>

Ages ==
  /\ ageLimit < channel
  /\ ageLimit' = ageLimit + 1
  /\ UNCHANGED <<channel, store, tasks, excused, aged, crashes, fails>>

-----------------------------------------------------------------------------
(* PUBLISH_ONCE_LUA and the outbox.                                        *)

\* Mutation: the marker is not read.
PublishAlways(p) ==
  /\ marks' = marks \cup {p}
  /\ copies' = [copies EXCEPT ![p] = @ + 1]

\* Mutation: the marker is set and the entry is not added.
MarkOnly(p) == marks' = marks \cup {p} /\ copies' = copies

PublishOnce(p) ==
  /\ marks' = marks \cup {p}
  /\ copies' = IF p \in marks THEN copies ELSE [copies EXCEPT ![p] = @ + 1]

\* The call raises before the script ran, or after it ran.
PublishRaises(p) ==
  /\ fails < MaxFails
  /\ fails' = fails + 1
  /\ PublishOnce(p) \/ UNCHANGED <<marks, copies>>

Put(p) == outbox' = outbox \cup {p}

Delete(p) == outbox' = outbox \ {p}

-----------------------------------------------------------------------------
(* handle_channel_post.  An update may reach the process late or never; it *)
(* is not repeated after 30 days.                                          *)

LiveGoto(p, pc) == live' = [live EXCEPT ![p].pc = pc]

\* The post has a text and passes AlertMessage.
Accepts(p) == p \in Usable

Arrives(p) ==
  /\ p <= channel /\ p \notin expired
  /\ live[p].pc = "none"
  /\ LiveGoto(p, IF Accepts(p) THEN "put" ELSE "done")
  /\ UNCHANGED <<channel, ageLimit, store, batch, replay, scan, excused, aged, crashes, fails>>

LivePut(p) ==
  /\ live[p].pc = "put"
  /\ Put(p)
  /\ LiveGoto(p, "publish")
  /\ UNCHANGED <<channel, ageLimit, checkpoint, marks, copies, batch, replay, scan,
                 excused, aged, crashes, fails>>

\* SQLite raises: the handler dies and the post is left to the catch-up.
LivePutRaises(p) ==
  /\ live[p].pc = "put"
  /\ fails < MaxFails
  /\ fails' = fails + 1
  /\ LiveGoto(p, "done")
  /\ UNCHANGED <<channel, ageLimit, store, batch, replay, scan, excused, aged, crashes>>

LivePublish(p) ==
  /\ live[p].pc = "publish"
  /\ PublishOnce(p)
  /\ LiveGoto(p, "delete")
  /\ UNCHANGED <<channel, ageLimit, outbox, checkpoint, batch, replay, scan,
                 excused, aged, crashes, fails>>

\* After the last attempt the post is left to the replay.
LiveRetry(p) ==
  live' = [live EXCEPT ![p].tries = @ + 1,
                       ![p].pc = IF live[p].tries + 1 < MaxTries THEN "publish" ELSE "done"]

LivePublishRaises(p) ==
  /\ live[p].pc = "publish"
  /\ PublishRaises(p)
  /\ LiveRetry(p)
  /\ UNCHANGED <<channel, ageLimit, outbox, checkpoint, batch, replay, scan,
                 excused, aged, crashes>>

LiveDelete(p) ==
  /\ live[p].pc = "delete"
  /\ Delete(p)
  /\ LiveGoto(p, "done")
  /\ UNCHANGED <<channel, ageLimit, checkpoint, marks, copies, batch, replay, scan,
                 excused, aged, crashes, fails>>

\* The delete is inside the try: if it raises, the post is published again.
LiveDeleteRaises(p) ==
  /\ live[p].pc = "delete"
  /\ fails < MaxFails
  /\ fails' = fails + 1
  /\ LiveRetry(p)
  /\ UNCHANGED <<channel, ageLimit, store, batch, replay, scan, excused, aged, crashes>>

-----------------------------------------------------------------------------
(* replay_outbox.                                                          *)

\* The oldest rows, at most BatchLimit of them.
Oldest(b) ==
  /\ b \subseteq outbox
  /\ \A p \in b, q \in outbox \ b : p < q
  /\ Cardinality(b) = IF Cardinality(outbox) < BatchLimit THEN Cardinality(outbox)
                      ELSE BatchLimit

ReadBatch ==
  /\ replay = "idle" /\ outbox # {}
  /\ \E b \in SUBSET outbox : Oldest(b) /\ batch' = b
  /\ replay' = "publish"
  /\ UNCHANGED <<channel, ageLimit, store, live, scan, excused, aged, crashes, fails>>

First(p) == p \in batch /\ \A q \in batch : p <= q

ReplayPublish ==
  /\ replay = "publish"
  /\ \E p \in batch : First(p) /\ PublishOnce(p)
  /\ replay' = "delete"
  /\ UNCHANGED <<channel, ageLimit, outbox, checkpoint, live, batch, scan,
                 excused, aged, crashes, fails>>

ReplayDelete ==
  /\ replay = "delete"
  /\ \E p \in batch :
       /\ First(p) /\ Delete(p)
       /\ batch' = batch \ {p}
       /\ replay' = IF batch = {p} THEN "idle" ELSE "publish"
  /\ UNCHANGED <<channel, ageLimit, checkpoint, marks, copies, live, scan,
                 excused, aged, crashes, fails>>

\* Any call of the replay raises: the rest of the batch is read again later.
ReplayRaises ==
  /\ \/ replay = "publish" /\ \E p \in batch : First(p) /\ PublishRaises(p)
     \/ /\ replay = "delete"
        /\ fails < MaxFails /\ fails' = fails + 1
        /\ UNCHANGED <<marks, copies>>
  /\ batch' = {}
  /\ replay' = "idle"
  /\ UNCHANGED <<channel, ageLimit, outbox, checkpoint, live, scan, excused, aged, crashes>>

-----------------------------------------------------------------------------
(* catch_up_channel.                                                       *)

\* Read the checkpoint; the history then starts at the newest post.
StartScan ==
  /\ scan.pc = "idle"
  /\ scan' = [pc |-> "scan", from |-> checkpoint, cutoff |-> ageLimit,
              high |-> channel, at |-> channel]
  /\ UNCHANGED <<channel, ageLimit, store, live, batch, replay, excused, aged, crashes, fails>>

\* Mutation: off by one at the checkpoint.
BeyondByOne(p) ==
  \/ p = 0
  \/ scan.from # NoCheckpoint /\ p <= scan.from + 1
  \/ scan.from = NoCheckpoint /\ p <= scan.cutoff

\* The scan leaves the loop at the checkpoint, or at the age limit of a first
\* deployment, or at the beginning of the history.
Beyond(p) ==
  \/ p = 0
  \/ scan.from # NoCheckpoint /\ p <= scan.from
  \/ scan.from = NoCheckpoint /\ p <= scan.cutoff

ScanPost ==
  /\ scan.pc = "scan" /\ ~Beyond(scan.at)
  /\ IF Accepts(scan.at) THEN Put(scan.at) ELSE UNCHANGED outbox
  /\ scan' = [scan EXCEPT !.at = @ - 1]
  /\ UNCHANGED <<channel, ageLimit, checkpoint, marks, copies, live, batch, replay,
                 excused, aged, crashes, fails>>

\* An empty history leaves highest_id unset and writes no checkpoint.
EndScan ==
  /\ scan.pc = "scan" /\ Beyond(scan.at)
  /\ scan' = IF scan.high = 0 THEN NoScan ELSE [scan EXCEPT !.pc = "advance"]
  /\ UNCHANGED <<channel, ageLimit, store, live, batch, replay, excused, aged, crashes, fails>>

Advance ==
  /\ scan.pc = "advance"
  /\ checkpoint' = IF scan.high > checkpoint THEN scan.high ELSE checkpoint
  /\ excused' = IF scan.from = NoCheckpoint THEN scan.cutoff ELSE excused
  /\ scan' = NoScan
  /\ UNCHANGED <<channel, ageLimit, outbox, marks, copies, live, batch, replay,
                 aged, crashes, fails>>

\* History or SQLite raises: the checkpoint stays where it is.
ScanRaises ==
  /\ scan.pc # "idle"
  /\ fails < MaxFails
  /\ fails' = fails + 1
  /\ scan' = NoScan
  /\ UNCHANGED <<channel, ageLimit, store, live, batch, replay, excused, aged, crashes>>

-----------------------------------------------------------------------------

\* The process dies and is started again.  Telegram may repeat an update that
\* was not taken in.
Crash ==
  /\ crashes < MaxCrashes
  /\ crashes' = crashes + 1
  /\ live' = [p \in Posts |-> NoHandler]
  /\ batch' = {}
  /\ replay' = "idle"
  /\ scan' = NoScan
  /\ UNCHANGED <<channel, ageLimit, store, excused, aged, fails>>

\* SOURCE_REPLAY_HORIZON_SECONDS: the marker lives 30 days, which no handler, batch
\* or scan outlasts.  A row that is still in the outbox, and a post that no scan has
\* passed, may have waited for the process to be started again.
MarkExpires(p) ==
  /\ p \in marks
  /\ live[p].pc \in {"none", "done"} /\ p \notin batch /\ scan.pc = "idle"
  /\ marks' = marks \ {p}
  /\ expired' = expired \cup {p}
  /\ outlived' = IF p \in outbox \/ p > checkpoint THEN outlived \cup {p} ELSE outlived
  /\ UNCHANGED <<channel, ageLimit, outbox, checkpoint, copies, tasks, excused,
                 crashes, fails>>

LiveStep(p) == LivePut(p) \/ LivePublish(p) \/ LiveDelete(p)
ReplayStep  == ReadBatch \/ ReplayPublish \/ ReplayDelete
ScanStep    == StartScan \/ ScanPost \/ EndScan \/ Advance

Next ==
  \/ Appears \/ Ages
  \/ \E p \in Posts : \/ Arrives(p) \/ LiveStep(p) \/ MarkExpires(p)
                      \/ LivePutRaises(p) \/ LivePublishRaises(p) \/ LiveDeleteRaises(p)
  \/ ReplayStep \/ ReplayRaises
  \/ ScanStep \/ ScanRaises
  \/ Crash

Spec == Init /\ [][Next]_vars

\* The replay and the catch-up are supervised loops that always go on; an update
\* need never arrive.  Redis and Telegram fail only finitely often.
FairSpec == Spec /\ WF_vars(ReplayStep) /\ WF_vars(ScanStep)

-----------------------------------------------------------------------------
(* Properties.                                                             *)

Published == {p \in Posts : copies[p] > 0}

\* "Persist the gap before advancing a monotonic source checkpoint": every usable
\* post up to the checkpoint is on disk or on the stream, but for those the first
\* deployment left out as too old, whatever crashes the scan and whatever the
\* live handler and the replay do to the outbox meanwhile.
NoGapBelowCheckpoint ==
  \A p \in Usable : excused < p /\ p <= checkpoint => p \in outbox \cup Published

\* "Publish a source post once, including after an uncertain network failure": the
\* handler, the catch-up and the replay may all hold the same post.  The marker that
\* keeps them apart may expire: a post enters the stream again only if 30 days after
\* its publication its row was in the outbox or the checkpoint was below it.
PublishedOnce == \A p \in Posts \ outlived : copies[p] <= 1

\* The scraper does what the abstract courier promises: accepting a post is its
\* commit in SQLite, handing it over is its entry in the stream.
C == INSTANCE Courier WITH Posts <- Usable,
                           accepted <- outbox \cup Published,
                           handed <- Published

ImplementsCourier == C!Spec

\* No post is missed for good: once the first scan is complete every newer usable
\* post is published in the end, even if no update ever arrives for it.
EventuallyPublished ==
  \A p \in Usable :
    (checkpoint # NoCheckpoint /\ excused < p /\ p <= channel) ~> p \in Published
=============================================================================
