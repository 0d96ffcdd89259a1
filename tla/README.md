# Formal models of the alert bot

TLA+ modules, TLC configurations and TLAPS proofs for the alert bot: a scraper that
reads a Telegram channel, a worker that fans the posts out to recipients, and a bot
through which recipients register, tune and delete themselves. The code is under
`alert_bot_project/`; paths below are relative to it, and `PROJECT.json` (`map`) gives
the lines that each definition translates.

    tlc -workers 2 -config DeliveryStalls.cfg MCDelivery     # a model-checking run
    tlapm DeliveryProofs.tla                                 # a proof module

## 1. The system

Three processes share Redis and PostgreSQL.

    channel --> scraper --alerts_stream--> worker, source half --+
                (SQLite outbox)              ^  reads the alarm   |  delivery_stream,
                                             |  and the phrases   v  delayed_alerts_queue
    alarm API --> alarm poller (worker) -----+       worker, delivery half --> Telegram
    recipient --> bot (database, phrase set, deletion, registration)

| Component | Source | State | Operations | What is hard | What makes it right |
|---|---|---|---|---|---|
| delivery | `worker/broadcaster.py`, `worker/delivery_lease.py`, scripts of `services/privacy.py` | stream entries and their owners, retry counters, leases, delayed queue, stage records, dead letters, in-flight slots | enqueue, mature, read, claim, check, reserve, send, record, retry, give up, requeue | several consumers, crash between send and record, suspended consumer, reminders that overtake | no stage lost, stages in order, a duplicate only after a fault, a chain given up ends, everything settles |
| erasure, registration | `services/privacy.py`, `bot/handlers/start.py`, `settings.py` | fence, generation, operation lock, profile, marks | delete in ten steps, register, touch | runs against deliveries in flight; fails half way | nothing sent after an erasure, erased stores stay empty |
| rate limiter | `worker/rate_limit.py` | three keys that hold an instant and expire | reserve, nap, give up, pause | keys expire, many callers | spacing, pauses kept |
| stream retention, dead consumers | `worker/stream_retention.py`, `worker/main.py` (`cleanup_dead_consumers`, `_remove_dead_consumer`) | entries, groups, positions, consumers and their pending entries | inspect, trim, find dead consumers, remove them, beside XADD/XREADGROUP/XAUTOCLAIM/XACK | groups that lag or appear late, a consumer that wakes up under the cleanup | nothing trimmed that a group needs, no work removed but what was taken after the look |
| scraper | `scraper/` | outbox and checkpoint in SQLite, markers and stream in Redis | live handler, replay, catch-up | death between any two steps, uncertain publish | published once, no gap below the checkpoint |
| source worker | `worker/main.py` | source stream, retry counters, clear ids, audits, dead letters, chains | read, drain, claim, record clear, suppress, page, acknowledge | tasks overlap on one entry, users change between pages | an acknowledged threat reached everybody |
| phrase cache | `services/user_service.py`, `core_shared/trigger_cache.py`, `worker/custom_matcher.py` | table, Redis set and version, dictionary of the matcher | add, delete, reconcile, match | two stores, a version read outside the lock | limit, freshness, convergence |
| settings of a user | `bot/handlers/settings.py`, `bot/middlewares/`, `services/user_service.py` | profile row, location and phrase rows, mute key, throttle key, dialogue state, tasks | throttle, read, toggle, mute, prompt, store, drop, erase | tasks of one user overlap, four stores, an answer fails after the commit | no tap undone by another, a prompt admits one phrase, mute key and row agree |
| phrase matcher | `worker/custom_matcher.py` | trie, fail links, outputs | build, match | fail links, inherited outputs, suffix rule | exactly the phrases of the post |
| alarm poller | `services/ukrainealarm.py` | key with a time to live, counter, age of the last reading | poll, refresh, write, failsafe | outages, restarts, failing Redis calls | a stale state does not survive |
| supervision | `core_shared/supervision.py` | tasks, event, outcome | start, wait, look, join | failure and shutdown in the same turn | failures reported, nothing left running |

The remaining parts (keyboards, metrics, logging, schema and migrations, configuration
and secrets, readiness, scripts, mirror pool, target caches) keep no protocol state or are
used by nothing: section 8, and `PROJECT.json` (`components`).

## 2. The modules

| Module | Models | Steps |
|---|---|---|
| `Delivery` | one chain (event, recipient) from fan-out to the last reminder | every `await` of a consumer is a step boundary; `wk[w].pc` is the call it is about to issue |
| `Chain` | abstract specification of that chain: stages are offered once, accepted in order, settled once | refined by `Delivery` (`ImplementsChain`) |
| `Privacy` EXTENDS `Delivery` | deletion and registration of the same recipient, composed with the deliveries: they meet only in Redis, as in the code | one step per command of `_delete_user_data_locked` and `process_start_command` |
| `RateLimiter` | the Lua reservation, naps, giving up, 429 pauses; keys are `[at, dies]` | clock ticks are steps |
| `StreamRetention` | trimming, and the removal of dead consumers, beside the commands of other processes | the trim is one step, since it is one script; XINFO CONSUMERS and each XGROUP DELCONSUMER are steps of their own |
| `Scraper` | handler, replay, catch-up, process death, expiry of the publish markers | each SQLite commit and each Redis call is a step |
| `Courier` | abstract specification: a post is accepted, then handed over, once | refined by `Scraper` (`ImplementsCourier`) |
| `SourceWorker` | the two tasks per process on the source stream | each Redis or database call is a step; `enqueue_alert` is one step (detailed in `Delivery`) |
| `TriggerCache` | handlers, advisory lock, Redis scripts, reconciliation, the matcher's version check | each query or script is a step |
| `Profile` | the settings handlers of one user, run by overlapping tasks of the dispatcher | throttle key, read, commit, Redis, answer and dialogue state are steps; a throttle key may expire under its update |
| `CustomMatcher` | building and running the automaton; a node is named by the characters on the way to it | one character or link per step |
| `AlarmPoller` | the poll loop in ticks (one tick stands for 18 s: 90 s to live = 5, half = 3, failsafe = 10) | each call is a step that may last `MaxWait` ticks |
| `Supervision` | `supervise()` | callbacks between a task's end and the supervisor's look are steps |
| `MC*` | values for TLC, nothing else | |
| `*Proofs` | theorems and their proofs | |

Conventions. State variables and action names follow the code; comments name the Redis
keys. Definitions marked `Mutation:` are wrong variants of the definition after them: they
are used by no specification; put in the place of the right one, each makes a property fail
(`PROJECT.json`, `mutants`). Bounds are constants named `Max*`
or `Moves` (the changes of the outside world an instance admits); they appear only in
guards.

Abstractions worth knowing:

- One chain at a time in `Delivery`: chains share only the rate limiter (its wait is a
  step of unknown length) and `telegram:blocked`. Payloads are reduced to stage and
  generation; the age of the event to three classes (up to 600 s, up to 7 days, older).
- `SourceWorker`: what a post says (threat, all-clears, places, whether a recipient's
  phrase matches it) is an input, so the phrases do not change while a post is handled
  (how they change is `TriggerCache`). Phrases count where the code looks at them, in
  `Relevant`; the all-clears are compared for the places alone, before that
  (`CheckScoped`, `Covered`). Clear ids and audit markers do not expire (they live for
  days), nor does `retry_count`, which lives for an hour after the last failure
  (`worker/main.py:254`) while the retries come within minutes. A Redis error while the
  alarm is read takes the configured default.
- `Scraper`: one channel, posts numbered as Telegram numbers them, published in order. A
  publish marker (30 days to live) does not expire while a handler, a batch or a scan is
  under way; an update is not repeated after its marker expired.
- `Profile`: callbacks carry no message text; the phrase cache is `TriggerCache`'s and an
  erasure is one step (detailed in `Privacy`).
- `CustomMatcher`: one build and one text per behaviour.
- The 64 bits of Redis counters and Telegram identifiers are not exhausted.

## 3. The runs

Instances are small because the hazards need few actors: a hand-over needs two
consumers, an overtaking reminder two stages, a lost update two writers, a failure in the
wrong place one fault. Twelve runs are listed; each finishes within two or three minutes.

| Run | Instance | Shows |
|---|---|---|
| `DeliveryStalls` | 2 consumers, 2 stages, 4 entry ids, 1 suspension beyond the lease, 1 crash/cancellation/lost answer, consumers symmetric | `NoStageLost`, `StagesInOrder`, `DuplicatesNeedFaults`, `ImplementsChain`: one fault of each kind is enough to place it between any two steps |
| `DeliverySettles` | 1 consumer, 2 stages, all moves (age, night, mute, clear), 1 fault, fair | `GiveUpEndsChain`; `EventuallySettled` |
| `PrivacyErasure` | 2 operations, 1 consumer, 2 stages, 1 new generation, 1 crash, 1 failing operation | `NoSendAcrossErasure` (also when the deletion fails half way and the user registers again: one failing operation and a second one), `ErasedStoresStayEmpty`, `OutcomeStands`, `GenerationsInOrder` |
| `PrivacyTouch` | 1 operation, 1 stage | **fails**: see section 6 |
| `RateLimiter` | 2 callers, 2 chats, repeats, pauses of 2 and 3 ticks, gaps 1/3/2, 4 ticks of life | `GrantsAreSpaced`, `PausesAreKept`, `KeysRemember`; the clock stops at `MaxTime`, the proof has no clock bound |
| `StreamRetention` | 2 groups (one created late, one swept of dead consumers), 2 consumers (symmetric), 3 entries | `WorkIsKept`, `OnlyLateWorkIsLost`, `TrimmedIsDone`: three entries let one be acknowledged, one pending and one unread at the same time |
| `Scraper` | 2 usable posts, 2 tries, batches of 1, 1 crash, 1 failing call, any number of markers expiring, fair | `NoGapBelowCheckpoint`, `PublishedOnce`, `ImplementsCourier`, `EventuallyPublished` |
| `SourceWorker` | 1 process (two tasks), a threat that also calls off another place and matches a phrase, and an all-clear, 2 users on pages of 1 (one may subscribe late), 1 database retry, 1 disturbance (subscription, ageing, night, official alarm, crash or failed call), fair | `AcknowledgedIsHandled` against shifting pages, `ExpiredIsAuditedOnce`, `AckedClearsAreRecorded`, `LateThreatsStaySilent`, `EventuallyAcknowledged` (as `[]<>`: what is acknowledged stays so) |
| `TriggerCache` | 2 handlers, 2 users, 2 phrases, 1 reconciler, 2 source tasks, global limit 1, 2 calls, 1 fault, fair | `NoFalseFreshness`, `GlobalLimitHolds`, `ReconcileOverwritesNothing`, `CacheConverges` |
| `AlarmPoller` | 1 action of the API, either alarm before and after it, 2 outages, 1 restart, 1 failing call, fair | `StaleStateExpires`, `RefreshConfirms`, `FailsafeNeedsSilence`, `EventuallyShown` |
| `Profile` | 2 tasks, 2 categories, 2 locations, 3 phrases (each symmetric), a limit of 1 phrase, 5 updates, 1 slow update, 1 fault | `TogglesAreKept`, `PhraseLimitNeedsThrottle`, `PhrasesArePrompted`, `MuteKeyFollowsProfile`: three phrases are one more than the limit and the slow update explain |
| `CustomMatcher` | all 696 dictionaries of up to 3 of 16 phrases (over two letters and a separator), all 243 texts of 5 characters | `MatchesAreExact`, `LinksAreComplete`, `NothingForgotten`: nested, overlapping and separated phrases all occur |

Type invariants are proved (section 4) and not checked again by the listed runs.

Deadlock is checked except in the source worker (a process with nothing to read waits),
retention, settings, matcher and supervision, which do come to rest.

Other configurations, not among the listed runs, are kept for the reader: `DeliveryWorld`
(one consumer, two attempts, every cut-off and scoped all-clears; passes), `SourceMoves`
(the source worker with two disturbances, safety only; passes), `Supervision`
(passes, with the liveness property `EventuallyStops`), and those of section 6.

### Fairness

- `Delivery`: a running consumer keeps stepping (calls have timeouts), a suspended one is
  resumed, keys expire. Reading and claiming are *strongly* fair: on every pass of its
  loop each consumer tries XAUTOCLAIM, whose cursor wraps around, and XREADGROUP, so that
  an entry offered again and again is taken although each offer may be taken back by
  another event. No fairness is assumed of faults, mutes, clears or day and night.
- `Scraper`: only the two loops `replay` and `catchup` are fair. The live handler is not:
  Telegram need never deliver an update.
- `SourceWorker`: the tasks step, and a pending entry nobody acknowledges becomes idle.
- `TriggerCache`: handlers end and reconciliation repeats; matching is not fair.
- `AlarmPoller`: the loop runs and time passes.
- `Supervision`: the event loop runs what is ready; only loops told to stop must end.

Every fault is bounded by a constant: the liveness properties say what happens once faults
cease, which is all the code can promise.

## 4. Proofs

Eight modules hold theorems, proved by TLAPS for every value of the constants that the
named assumptions allow (any number of consumers, stages, users, phrases, posts, loops,
callers, tasks; any bounds on faults; any lifetimes). The assumptions are types and finiteness,
`Half < Ttl < FailsafeAfter` (half, one and two times `state_ttl`) and, for the limiter,
that keys live as long as the gaps they carry, which the constants of the code satisfy.
TLC evaluates each assumption in the runs of its module.

| Module | Theorems | Inductive invariant and why it is needed |
|---|---|---|
| `DeliveryProofs`, on `Delivery` | `TypeCorrect`, `Order` (`StagesInOrder`) | `Ordered`: order of acceptance is only checked early (`CheckPrior`), many steps before the send, so the invariant carries "the stage before was accepted" through the checks (`Past`), and ties the record `sent` and Telegram's answer to acceptance. `Unread`, `IdlePending`: an unread entry is nobody's, so that reading cannot give a job away twice. It covers suspended consumers and scoped all-clears too |
| `DeliveryProofs`, on `Chain` | `ChainInvariant`, `NoneLost` (`NoStageLost`), `Implements` (`ImplementsChain`), `Silent` (`GiveUpEndsChain`) | `Offered`, `Addressed`, `Dropped`: a job is dropped only with a record, an old event or a successor job. `Single`, while no consumer has outlived its lease: one job per unsettled stage, none for a settled one, and whoever has not settled its job owns the entry; without it a late consumer's write could not be told from a second settlement. `Preceded`: what was accepted follows stages recorded as sent |
| `DeliveryProofs`, on `Delivery` again | `BooksKept`, `DuplicatesPaid` (`DuplicatesNeedFaults`) | `Paid` keeps books on each stage: the copies sent and those that can still be sent (`Tokens`: delayed jobs, entries whose acceptance is not about to be recorded, consumers that go on with a job they no longer hold) are at most one more than the faults. Every step either makes no copy, or makes one with a fault, or sends one, or makes as many as it gives up (`Accounted`): an acknowledgement under another consumer's hands gives up the entry for that consumer. `Leased` is what protects the holder: a lease names a consumer only while it works on that stage, and an entry it owns under its lease does not become idle |
| `DeliveryProofs`, on `Privacy` | `PrivacyInvariant`, `PrivacyTypeCorrect`, `NoSendAcross` (`NoSendAcrossErasure`), `StoresStayEmpty` (`ErasedStoresStayEmpty`), `Stands` (`OutcomeStands`), `InOrder` (`GenerationsInOrder`) | the slots of a job are counted: whoever is past the fence check holds one, so that a deletion that has seen none left has nobody of an old generation behind the check (`drainedTo` names the generation of that look and outlasts a failure of the deletion), and the fence and the generation keep later ones in front of it; no store can take what is older than the fence's generation; the holder of the operation lock is the only operation at work. The order within a generation repeats `Ordered`, with the stages a half-done deletion may leave behind named by where it stands |
| `CustomPhraseProofs`, on `TriggerCache` | `TypeCorrect`, `Fresh`, `Limited`, `NoOverwrite` | `Remembered`: versions only rise and rise with every change, so that what was read at the present version is the present set. `Room`: the phrase about to be inserted still fits, because only the lock's holder inserts and others only remove |
| `CustomPhraseProofs`, on `CustomMatcher` | `MatcherTypes`, `LinksComplete` (`LinksAreComplete`), `NothingIsForgotten` (`NothingForgotten`), `MatchesExact` (`MatchesAreExact`) | `Levels`: breadth first, the queue holds one level and the next, in order, and whatever has no links yet is below a node of it; so every node no longer than the head has its links when its children are linked through them, and a link is never followed into a part that is not ready (`TargetIsLongest`). `Read`: the node is the longest end of what has been read, and the matches are the phrases that ended, and counted, at some position so far; a phrase occurs where it ends (`OccursWhereItEnds`). Dictionaries, posts, alphabet and `MaxSuffix` are arbitrary |
| `WorkerLoopsProofs`, on `AlarmPoller` | `TypeCorrect`, `RefreshesConfirm`, `StaleExpires` (`StaleStateExpires`), `FailsafeIsLate` (`FailsafeNeedsSilence`) | `Vouched`: while the counter has not moved the key holds the alarm; it needs `Ordered` and `ReadLater` (the alarm is read after the counter it is stored with) and `TooOld` (the failsafe replaces only states too old to vouch for). `Bounded`: a value other than the failsafe, in the hands of a write or a refresh or in the key, bounds the time for which the region has agreed with the failsafe; it needs `Vouched`, since a refresh of a value that is no longer the alarm would start that time afresh. `Aged`: the age of the last reading exceeds the silence by less than `Half + MaxWait`, since a refresh ends the silence only while the reading is younger than `Half` |
| `RateLimiterProofs` | `KeysAlwaysRemember`, `GrantsSpaced`, `PausesKept` | `KeysRemember`: an instant that still lies ahead is held by a live key |
| `StreamRetentionProofs` | `WorkAlwaysKept`, `CleanupLosesOnlyLate`, `TrimmedWasAcknowledged` | `Accounted`, `NoHoles`: what a group was given is pending, acknowledged or taken from a consumer that came back under the cleanup, and the stream has no holes to skip; `HeldLate`: whatever a consumer found dead holds, it took after that |
| `ScraperProofs` | `TypeCorrect`, `NoGap`, `Once`, `Implements` | `Marked` (a published post keeps its marker until the scraper is done with it, `Settled`, or has outlived the marker), `Held` (who goes on with a post holds a stored one), `Scanned` (the part behind a running scan is safe), from which the refinement of `Courier` follows step by step |
| `SourceWorkerProofs` | `SourceTypes`, `Handled` (`AcknowledgedIsHandled`), `Recorded` (`AckedClearsAreRecorded`), `LateSilence` (`LateThreatsStaySilent`), `AuditedOnce` (`ExpiredIsAuditedOnce`) | `Progress`: by the step it is at, what a task has already recorded of its post, audited, suppressed and fanned out; in the fan-out, everybody up to the last user of the last page has a chain or is on the page in hand (`FannedOut`), which rests on the facts of keyset pages (`PageFacts`: nobody below the last user of a page is left out, whoever subscribes meanwhile). `StillCovered`: the clear ids only rise, so that a post once overruled stays so. `Settled`: what is acknowledged is served, because every acknowledgement comes at the end of one of these |
| `WorkerLoopsProofs`, on `Supervision` | `FailuresReported`, `NoneLeftRunning` | `Raised`: a loop that raised stays raised until the supervisor looks. (The names of `Supervision`, and those of `CustomMatcher`, are their own, so that one module can extend both parts.) |
| `ProfileProofs` | `TypeCorrect`, `TogglesKeptAlways` (`TogglesAreKept`), `LimitNeedsThrottle` (`PhraseLimitNeedsThrottle`), `OnePhrasePerPrompt` (`PhrasesArePrompted`), `StoresAgree` (`MuteKeyFollowsProfile`) | `Alone`: while no key has expired under its update, the one task that was let through finds its key still there, so that no second one enters; hence `Fresh`: what it read is still so when it commits. `Counted` generalises it: the tasks let through are at most one more than the keys that expired, and `Room` charges them: phrases stored and phrases that have passed the count fit the limit and those. `Prompted` and `Keyed` say which task is about to restore what the properties claim between updates |

Only model-checked, and why:

- liveness (`EventuallySettled`, `EventuallyPublished`, `EventuallyAcknowledged`,
  `CacheConverges`, `EventuallyShown`, `EventuallyStops`): fairness and ENABLED are beyond
  the prover.

Every invariant and every action property of a passing run is a theorem. The induction
over data that the matcher needs (the links are followed to ever shorter nodes) is done by
a least counterexample: the library's induction theorems take an operator, which the
prover cannot instantiate, but that a set of numbers has a least element (`LeastNat`)
follows from well-foundedness without one, and the recursive function of `Target` is
unfolded from its definition as a CHOOSE (`BackDef`).

## 5. What the checks found right

The points at which a reader of the code may doubt it, and which hold: the hand-over of a
stage between stream, delayed queue and dead letters loses nothing; a suspended consumer
is fenced by the guard before the send; a failing deletion cannot let an old send pass,
and a generation starts with clean stages when no operation dies half way; the limiter's
keys never expire too early; the matcher may read the version outside its lock because a
script always raises it; the reconciler's compare-and-set never undoes a newer update;
the checkpoint never passes an unsaved post.

`ImplementsChain` promises a single settlement, and `GiveUpEndsChain` silence after a stage
that failed, for consumers that are not suspended beyond their lease: one that is may still
write the outcome it had decided on, which the abstract chain allows once it has `lapsed`;
the order of the stages holds even then. `OnlyLateWorkIsLost` admits the entries that a
consumer took between the reply that called it dead and its removal, which XGROUP
DELCONSUMER drops: that window is open in the code, and the property bounds it. `PublishedOnce` admits a second copy of a post whose row, or the
checkpoint below it, stood still for the 30 days its marker lives. In the settings nothing
orders two tasks of a user but the throttle key: `TogglesAreKept`, `PhrasesArePrompted` and
`MuteKeyFollowsProfile` hold as long as no update outlives it (0.5 s), and each update that
does costs at most one phrase over the limit. `GenerationsInOrder` is stated for
deletions that do not die half way; the comment there gives the one exception. What
holds even then is that nothing of the earlier generation is sent (`NoSendAcrossErasure`).
`AcknowledgedIsHandled` excuses a threat once every place it names is cleared, also for
the subscribers of a phrase it matches (section 6, `SourcePhrase`).
`NoSendAcrossErasure`, `ErasedStoresStayEmpty` and `GenerationsInOrder` hold as long as no
consumer was suspended: one that is, for longer than the slot counter lives (600 s), loses
its slot, the deletion no longer waits for it, and the request it had begun ends after the
deletion has reported success. TLC finds this when `PrivacyErasure` is given one suspension
(`MaxStalls = 1`) and the hypothesis `stalls = 0` is dropped; `OutcomeStands` holds even
then.
`EventuallySettled` excuses events older than seven days, whose jobs are dropped without
a record.

## 6. Where code and words differ

One is a listed run, `PrivacyTouch`: settings handlers get or create the profile without
`user_privacy_lock` (`bot/handlers/settings.py:78`), so a click beside a deletion recreates
the row, although `services/privacy.py:49` says "Serialize registration and deletion of
one recipient."

The others can be reproduced with the named configuration; each ends with a short trace.

| Configuration | Property | Difference |
|---|---|---|
| `DeliveryClear` | `ClearCancelsReminders` | `broadcaster.py:371-388` looks for an all-clear before the wait for the rate slot and not after it; `docs/asvs_assurance.md:28` promises that a clear cancels the relevant repeats |
| `PrivacyQueued` | `ErasureComplete` | the requeue of a waiting reminder (`broadcaster.py:401`) is not fenced and may land after the deletion's sweep of the queue; `services/privacy.py:1` promises to delete queued payloads. Nothing is sent from it (`NoSendAcrossErasure`) |
| `PrivacyBlocked` | `RegistrationUnblocks` | a refusal answered before a re-registration is recorded after it (`broadcaster.py:456`) and blocks the registered user; `docs/oncall_runbook.md:24` |
| `SourceRetry` | `DeadLetteredAtLimit` | the sixth failure, not the fifth, goes to the dead letters (`worker/main.py:256`); `main.py:251` and `docs/oncall_runbook.md:28` say five |
| `SourcePhrase` | `PhrasesOutlivePlaces` | a threat that names places, all of them cleared since, is acknowledged at `worker/main.py:438-447`, before the phrases are matched at line 449: subscribers of a phrase in it get nothing, although `_resolve_trigger_words` (lines 352-356) makes a phrase as good a reason to send as a place |
| `TriggerLimit` | `UserLimitHolds` | the user's phrases are counted outside the lock (`user_service.py:53-60`); `docs/asvs_assurance.md:26` says at most five |
| `AlarmRestart` | `FailsafeWaitsForThreshold` | a restarted poller writes the failsafe after one failed poll (`ukrainealarm.py:309`); the docstring at line 304 says the threshold must have passed |
| `SupervisionEarly` | `EarlyStopIsReported` | a loop that returned before a signal, seen after it, is not reported (`supervision.py:40`); lines 21-22 and `docs/runtime_supervision.md:11-12` say it is a failure |

## 7. Plan

Written so far, in the order of their weight: delivery and its abstract chain, erasure, rate
limiter, retention and dead consumers, scraper with its abstract courier, source worker,
settings, phrase cache, matcher, alarm poller, supervision; and the proofs of section 4.
Next:

1. Model: expiry of clear ids, retry counters and audit markers in `SourceWorker`; several
   channels in `Scraper`; the alarm key of `AlarmPoller` composed with `SourceWorker`'s
   reading of it.
2. Prove: the invariants of those extensions, with the inductive invariants of section 4
   extended alongside.

Not planned: timing beyond ticks, the wording of messages, regular expressions and place
dictionaries, the asyncio and Redis implementations, whose commands are taken to be atomic
and durable as the code relies on them.

## 8. Not modelled

Parts without protocol state, or used by nothing:

- the target cache helpers (`worker/main.py:231-247`, `263-326`), which only tests call,
  and `worker/mirror_pool.py`, which nothing imports;
- `database/migration.py`: a one-time conversion of legacy location keys. A point its
  reader should know: a user who holds both the old and the new key makes the update fail
  on the unique constraint, and the DELETE of the `except` branch then runs in the
  transaction PostgreSQL has already aborted;
- schema, privileges, daily activity, readiness, configuration, secrets, Redis transport
  and ACL, keyboards, metrics, logging, redaction, scripts, deployment: they validate, show
  or count, and no other part's state depends on them.

Details of modelled parts that are left out:

- an erasure or registration that outlives its lock of 90 s without having died
  (`services/privacy.py:56`): the lock is renewed every 30 s, the model lets it expire for
  dead operations only;
- the recovery from NOGROUP after a loss of the Redis data; the pace at which the backlog
  is drained at start (`worker/main.py:544`); a failure between XADD to the dead letters
  and XACK of a source post may write the dead letter twice (`worker/main.py:258`): the model
  keeps the set of dead letters;
- posts that cannot be dated or that always fail in catch-up, which stop the scan of their
  channel (`scraper/catchup.py:45`); the one-time task that gives old markers an expiry
  (`scraper/main.py`, `expire_legacy_source_markers`).
