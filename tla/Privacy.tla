------------------------------- MODULE Privacy -------------------------------
(***************************************************************************)
(* Deletion and registration of the recipient (services/privacy.py and     *)
(* bot/handlers/start.py) together with the deliveries of module Delivery: *)
(* the bot's operations and the worker's consumers meet only in Redis.     *)
(***************************************************************************)
EXTENDS Delivery

CONSTANTS
  Ops,        \* operations of the recipient that may run at the same time
  MaxGen,     \* bound: deletions that draw a new generation
  MaxOpFaults \* bound: operations that raise or die half-way

ASSUME PrivacyAssumption ==
  /\ MaxGen \in Nat
  /\ MaxOpFaults \in Nat
  /\ None \notin Ops /\ Orphan \notin Ops

VARIABLES
  profile,   \* a user_settings row exists
  oplock,    \* privacy:operation:<user>
  op,        \* where each operation is
  opfaults,
  outcome,   \* the last result an operation reported and that still stands
  drainedTo, \* generation opened by the last deletion that saw all slots free
  accepted   \* the jobs whose message Telegram accepted

pvars == <<profile, oplock, op, opfaults, outcome, drainedTo, accepted>>
allvars == <<vars, pvars>>

DeletePCs == {"fence", "wait", "rows", "keys", "markers", "stages", "delayed",
              "stream", "dlq"}
StartPCs  == {"register", "unfence"}
OpPCs     == {"idle", "unlock"} \cup DeletePCs \cup StartPCs

\* The types of the stores, the generation and the operations on the profile.
PrivacyTypeOK ==
  /\ TypeOK
  /\ gen <= MaxGen
  /\ profile \in BOOLEAN
  /\ oplock \in Ops \cup {None, Orphan}
  /\ op \in [Ops -> OpPCs]
  /\ opfaults \in 0..MaxOpFaults
  /\ outcome \in {"none", "registered", "erased"}
  /\ drainedTo \in 0..gen
  /\ accepted \subseteq Job

PrivacyInit ==
  /\ Init
  /\ profile = TRUE
  /\ oplock = None
  /\ op = [p \in Ops |-> "idle"]
  /\ opfaults = 0
  /\ outcome = "registered"
  /\ drainedTo = 0
  /\ accepted = {}

-----------------------------------------------------------------------------
(* user_privacy_lock.                                                      *)

OpGoto(p, pc) == op' = [op EXCEPT ![p] = pc]

OpOnly == <<profile, outcome, drainedTo, accepted>>

\* Mutation: the lock is taken over whoever holds it.
LockFreeAlways == TRUE

LockFree == oplock = None

\* SET NX: an operation that finds the lock taken raises at once.
BeginOp(p) ==
  /\ op[p] = "idle"
  /\ LockFree
  /\ oplock' = p
  /\ \E pc \in {"fence", "register"} : OpGoto(p, pc)
  /\ UNCHANGED <<vars, OpOnly, opfaults>>

\* The holder's release compares the token first.
Unlock(p) ==
  /\ op[p] = "unlock"
  /\ oplock' = IF oplock = p THEN None ELSE oplock
  /\ OpGoto(p, "idle")
  /\ UNCHANGED <<vars, OpOnly, opfaults>>

\* A database or Redis error: the operation unwinds and reports a failure.
OpRaises(p) ==
  /\ op[p] \in DeletePCs \cup StartPCs
  /\ opfaults < MaxOpFaults
  /\ opfaults' = opfaults + 1
  /\ OpGoto(p, "unlock")
  /\ UNCHANGED <<vars, OpOnly, oplock>>

\* The bot dies, or the release fails: the lock stays until it expires.
OpDies(p) ==
  /\ op[p] # "idle"
  /\ opfaults < MaxOpFaults
  /\ opfaults' = opfaults + 1
  /\ OpGoto(p, "idle")
  /\ oplock' = IF oplock = p THEN Orphan ELSE oplock
  /\ UNCHANGED <<vars, OpOnly>>

\* The lock expires 90 s after its last renewal.
OpLockExpires ==
  /\ oplock = Orphan
  /\ oplock' = None
  /\ UNCHANGED <<vars, OpOnly, op, opfaults>>

-----------------------------------------------------------------------------
(* _delete_user_data_locked, one step per command.                         *)

Step(p, from, to) == op[p] = from /\ OpGoto(p, to)

\* FENCE_DELETION_LUA; a random generation differs from all earlier ones.
Fence(p) ==
  /\ gen < MaxGen
  /\ Step(p, "fence", "wait")
  /\ deleted' = TRUE
  /\ gen' = gen + 1
  /\ outcome' = "none"
  /\ UNCHANGED <<queue, entry, owner, idle, retry, lease, delayed, stage,
                 enqueued, dlq, blocked, inflight, wk, stalled, src, world, got,
                 faults, stalls, profile, oplock, opfaults, drainedTo, accepted>>

\* Mutation: the deletion does not wait for sends under way.
DrainedAtOnce == TRUE

Drained == inflight = 0

\* Poll privacy:inflight for 35 s.
SlotsDrained(p) ==
  /\ Drained
  /\ Step(p, "wait", "rows")
  /\ drainedTo' = gen
  /\ UNCHANGED <<vars, profile, outcome, accepted, oplock, opfaults>>

DrainTimesOut(p) ==
  /\ inflight > 0
  /\ Step(p, "wait", "unlock")
  /\ UNCHANGED <<vars, OpOnly, oplock, opfaults>>

DeleteRows(p) ==
  /\ Step(p, "rows", "keys")
  /\ profile' = FALSE
  /\ UNCHANGED <<vars, outcome, drainedTo, accepted, oplock, opfaults>>

DeleteKeys(p) ==
  /\ Step(p, "keys", "markers")
  /\ blocked' = FALSE
  /\ UNCHANGED <<queue, entry, owner, idle, retry, lease, delayed, stage,
                 enqueued, dlq, deleted, gen, inflight, wk, stalled, src, world,
                 got, faults, stalls, OpOnly, oplock, opfaults>>

\* The scans for the two key patterns come one after the other.
DeleteMarkers(p) ==
  /\ Step(p, "markers", "stages")
  /\ enqueued' = {}
  /\ UNCHANGED <<queue, entry, owner, idle, retry, lease, delayed, stage, dlq,
                 blocked, deleted, gen, inflight, wk, stalled, src, world, got,
                 faults, stalls, OpOnly, oplock, opfaults>>

\* Mutation: the pattern misses the key of the first stage.
ErasedLaterStages == [s \in Stages |-> IF s = 1 THEN stage[s] ELSE "none"]

ErasedStages == [s \in Stages |-> "none"]

DeleteStages(p) ==
  /\ Step(p, "stages", "delayed")
  /\ stage' = ErasedStages
  /\ UNCHANGED <<queue, entry, owner, idle, retry, lease, delayed, enqueued, dlq,
                 blocked, deleted, gen, inflight, wk, stalled, src, world, got,
                 faults, stalls, OpOnly, oplock, opfaults>>

PurgeDelayed(p) ==
  /\ Step(p, "delayed", "stream")
  /\ delayed' = {j \in delayed : j.gen = gen}
  /\ UNCHANGED <<queue, entry, owner, idle, retry, lease, stage, enqueued, dlq,
                 blocked, deleted, gen, inflight, wk, stalled, src, world, got,
                 faults, stalls, OpOnly, oplock, opfaults>>

\* _scrub_recipient_stream: XACK, XDEL and DEL of the retry key of every entry.
ScrubStream(p) ==
  /\ Step(p, "stream", "dlq")
  /\ queue' = <<>>
  /\ entry' = [i \in Ids |-> None]
  /\ owner' = [i \in Ids |-> None]
  /\ idle' = {}
  /\ retry' = [i \in Ids |-> IF entry[i] # None THEN 0 ELSE retry[i]]
  /\ UNCHANGED <<lease, delayed, stage, enqueued, dlq, blocked, deleted, gen,
                 inflight, wk, stalled, src, world, got, faults, stalls, OpOnly,
                 oplock, opfaults>>

\* The last scrub; the deletion then leaves the lock and reports success.
ScrubDlq(p) ==
  /\ Step(p, "dlq", "unlock")
  /\ dlq' = {}
  /\ outcome' = "erased"
  /\ UNCHANGED <<queue, entry, owner, idle, retry, lease, delayed, stage,
                 enqueued, blocked, deleted, gen, inflight, wk, stalled, src,
                 world, got, faults, stalls, profile, drainedTo, oplock, opfaults,
                 accepted>>

-----------------------------------------------------------------------------
(* process_start_command, and the handlers that run without the lock.      *)

Register(p) ==
  /\ Step(p, "register", "unfence")
  /\ profile' = TRUE
  /\ outcome' = "none"
  /\ UNCHANGED <<vars, drainedTo, accepted, oplock, opfaults>>

Unfence(p) ==
  /\ Step(p, "unfence", "unlock")
  /\ deleted' = FALSE
  /\ outcome' = "registered"
  /\ UNCHANGED <<queue, entry, owner, idle, retry, lease, delayed, stage,
                 enqueued, dlq, blocked, gen, inflight, wk, stalled, src, world,
                 got, faults, stalls, profile, oplock, opfaults, drainedTo,
                 accepted>>

\* Every settings handler calls get_or_create_user and commits.
Touch ==
  /\ ~profile
  /\ profile' = TRUE
  /\ UNCHANGED <<vars, outcome, drainedTo, accepted, oplock, op, opfaults>>

-----------------------------------------------------------------------------

Deletion(p) ==
  \/ Fence(p) \/ SlotsDrained(p) \/ DrainTimesOut(p) \/ DeleteRows(p)
  \/ DeleteKeys(p) \/ DeleteMarkers(p) \/ DeleteStages(p) \/ PurgeDelayed(p)
  \/ ScrubStream(p) \/ ScrubDlq(p)

Start(p) == Register(p) \/ Unfence(p)

\* A step of the worker service, with the history of what Telegram accepted.
Deliver ==
  /\ Next
  /\ accepted' = accepted \cup
       {wk[w].job : w \in {v \in Workers : wk[v].pc = "sending" /\ got' # got
                                           /\ wk'[v] # wk[v]}}
  /\ UNCHANGED <<profile, oplock, op, opfaults, outcome, drainedTo>>

PrivacyNext ==
  \/ Deliver
  \/ \E p \in Ops : \/ BeginOp(p) \/ Unlock(p) \/ OpRaises(p) \/ OpDies(p)
                    \/ Deletion(p) \/ Start(p)
  \/ OpLockExpires
  \/ Touch

PrivacySpec == PrivacyInit /\ [][PrivacyNext]_allvars

-----------------------------------------------------------------------------
(* Properties.                                                             *)

\* No request to Telegram is under way for a job older than the last deletion
\* that has waited for the slots, whether that deletion then succeeded, raised or
\* died, and whatever registration followed it: the fence stops new reservations,
\* the deletion waits for the slots already taken ("A send that reserved its slot
\* before the fence must finish before deletion can report success"), and "the
\* random generation prevents them being delivered after a user registers again",
\* also what a half-done deletion leaves behind.  A consumer suspended for longer
\* than the slot counter lives loses its slot: here, and below, the promise stands
\* as long as no consumer was.
NoSendAcrossErasure ==
  stalls = 0 => \A w \in Workers : wk[w].pc = "sending" => wk[w].job.gen >= drainedTo

\* While a successful deletion stands, the stream, the DLQ, the deduplication
\* marker, telegram:blocked and every "sent" or "failed" stage are gone and stay
\* gone, whatever consumers still hold of the old jobs.
ErasedStoresStayEmpty ==
  stalls = 0 /\ outcome = "erased" =>
    /\ \A i \in Ids : entry[i] = None
    /\ dlq = {} /\ enqueued = {} /\ ~blocked
    /\ \A s \in Stages : stage[s] \in {"none", "skipped"}

\* What an operation reported stays true until another one starts to change it:
\* after a registration the recipient is not fenced off, after a deletion the
\* fence is up.  Concurrent operations exclude one another (user_privacy_lock).
OutcomeStands ==
  /\ outcome = "registered" => ~deleted /\ profile
  /\ outcome = "erased" => deleted

\* In each generation the stages arrive in order: after a new registration a
\* reminder never relies on the first alert of an earlier registration.  A
\* deletion that dies between the scans for the two key patterns, followed by
\* /start and a replay of the event, is the one way to break it: the old "sent"
\* mark then stands for a first alert of the new generation.
GenerationsInOrder ==
  stalls = 0 /\ opfaults = 0 =>
    \A j \in accepted : j.step > 1 => [j EXCEPT !.step = j.step - 1] \in accepted

\* A deletion that reported success left no queued payload of the recipient
\* (the module's docstring: "Delete a user's live profile and queued delivery
\* payloads").
ErasureComplete ==
  outcome = "erased" => delayed = {} /\ \A i \in Ids : entry[i] = None

\* Registration and deletion are serialised: no profile exists between a
\* successful deletion and the next /start.
ErasedProfileStaysGone == outcome = "erased" => ~profile

\* A new registration lifts the mark that the recipient blocked the bot.
RegistrationUnblocks ==
  [][\A p \in Ops : op[p] = "unfence" /\ op'[p] = "unlock" /\ ~deleted' => ~blocked']_allvars
=============================================================================
