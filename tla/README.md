# gh-report: TLA+ models, model checks and proofs

gh-report collects security evidence about the repositories of a GitHub
organisation, persists it as events, folds the events into a read model and
serves rendered reports. These modules model the parts of it in which order,
failure and concurrency decide whether the result is right. Paths below are
relative to `src/crates/gh-report/src/`.

## The system

| Component | State | Operations | Hard because |
|---|---|---|---|
| Event stores (`store/mod.rs`) | journal (file or NATS stream), `cached`, `knowledge` latch | `record`, `detach`, `resync_from_authoritative`, open | a write may land and not be acknowledged, give no verdict, be lost before the sync; another revision of the program may write too |
| Projection (`projection.rs`) | repositories, deleted, org state, rosters, ghosts | `apply` per event kind, replay | must be the same live and replayed; a degraded capture must not replace a complete one |
| Write path (`app/state/mod.rs`) | `write_admission`, three stores, resident projection | six durable writes, `resync_event_store`, restart | org and team writes touch two stores without a transaction; a doubt must stop every later write |
| Run and delivery (`app/collect.rs`, `app/daemon.rs`) | work queue, outcome channel, `scheduled_run`, `batch_tracker`, `run_fence` | `publish_batch`, workers, `delivery_loop`, `retire_batch`, sweep timeout | collector, workers, delivery task, webhooks and other writers interleave; the barrier must open exactly when it may |
| Collection loop (`app/daemon.rs`) | `consecutive_retries`, one-shot flags, cancellation | initial and scheduled run, `converge_on_fence` | bounded retries, back-off, cancellation between steps |
| Sweep saga (`app/collect.rs`) | phase, inventory, baseline, pending | inventory, baseline reuse, batch, reconcile deleted, finalise | several exits; a listing may be partial; evidence is written while the run decides what is gone |
| Publication (`app/collect.rs`) | admitted publication, page cache, capture tokens | `projection_render_snapshot`, `commit_cached_pages` | renderings of several runs finish out of order; a report must not lose what an earlier one showed |
| Partial publisher (`app/collect.rs`) | hold-down state, stored permit, shutdown channel | `transition`, render, flush at the barrier | signals, timers and the shutdown race; a dropped run leaves it behind |
| Webhooks (`webhook/`) | replay and debounce caches | remove, enqueue, ignore | redelivery, concurrent requests, full queue |
| Write policy (`app/write_policy.rs`) | attempt counter | classify, bounded retry | what must not be retried |
| Team refresh (`app/team_refresh.rs`) | none of its own | record and detach rosters | stops in the middle; omission only counts when discovery was complete |
| GitHub budget (`github/`) | remaining budget, pauses | admission, replenish | shared by all workers |
| Rendering, metrics, conversion, configuration, web client | none | pure functions | formatting and counting |

How they interact: the collection loop starts a run; the run enqueues one job
per repository; workers evaluate jobs and send outcomes to the delivery task;
the delivery task calls `record_repo`, which goes through `admitted_write` to a
store and then to the projection; it counts the outcome down on the run's
tracker, for which the collector waits; the collector then reconciles and
publishes. Webhooks enqueue jobs into the same queue or remove a repository
directly; the team refresh writes rosters. A fence conflict aborts the run and
leads to a resync of the stores and another attempt; an indeterminate write
stops the admission, and with it every later write, until the process restarts.

What makes each part correct is stated as properties below; what is hard to
test is listed, at its line, under `hazards` in `PROJECT.json`.

## Modules

* `EventStore`: the stores. `journal` is the authoritative sequence, `cached`,
  `knowledge` and the holder of its mutex (`writing`) are `StoreInner`'s fields.
  `Lands`, `Undetermined`, `Acknowledge`, `AfterLanded` and `Panics` are the ways
  through `record` and `detach`; `resync_from_authoritative`, `Reopen` and
  `ForeignWrite` are the ways a cache or a journal changes besides.
  `unsynced` says that the last envelope can be lost in a crash; `fresh` is a
  history variable. pardosa itself is external: it is its verdicts.
* `EvidenceProjection`: the read model as pure operators, one per event kind
  (`apply_repo`, `apply_deleted`, `apply_org_state`, `apply_team`) and
  `projection_from_stores`. Evidence is reduced to completeness and a version.
* `AppState`: composes three stores from `EventStore`'s actions with the
  projection and the write admission. An operation (`op`) enters through
  `admitted_write` and goes from store to store; each store call has one action
  per way it can end. `Restart` replays.
* `DeliveryRun`: the collector, the queue, the workers, the delivery task and
  the writers that stop the admission. The collector's `pc` has one place per
  point of `publish_batch` at which a writer that does not take the delivery
  gate can be observed.
* `Webhook`: one request is one handler (`place`), a delivery may be sent several
  times. Each early return of `webhook_handler` and of `execute_remove` and
  `execute_enqueue` is an action that answers; the points between which others
  can be observed (after the replay check, between two write attempts, between
  reading and writing the debounce cache) are places. The work queue is a set of
  keys, which is what its deduplication makes of it.
* `Daemon`: the collection loop, the team-refresh loop and the main task with its
  drain. A run is "preparing" until its signal listener is installed, then
  "running", and ends in any of the ways `run_with_outcome` returns.
  `converge_on_fence` is `fenced`, `rearm_run` or `rearm_tick`, `attempt_fails`,
  `backoff_ends` and the two `_gives_up`. `collection_interval` keeps the word's
  width.
* `ReportBoard`: what a reader of the reports is promised, without any of the
  mechanism: a report moves forward in capture order, keeps its knowledge of the
  inventory, and loses a repository only to a recorded deletion, and complete
  evidence or a complete roster never; a provisional (warm-start) report may be
  replaced by anything, and a restart takes the report down.
* `Publication`: capture tokens, the quality of a candidate (`from_evidence`), its
  comparison with the admitted one (`succeeds`, `preserves`) and
  `commit_cached_pages`. Evidence versions are here whether anything was observed.
* `PartialPublisher`: the loop of one run's publisher, one per run. `at` is where
  the task is, `state` the hold-down, `permit` what `pause_notify` stores,
  `shutdown` the watch channel. `Turn` is one turn of the loop, `Capture` and
  `Commit` are the two ends of `partial_render_once`.
* `Sweep`: composes them into runs (`phase` is `SweepSaga`'s), next to webhook jobs,
  webhook removals, team refreshes, failures, timeouts, cancellation and restarts.
  A listing may be complete or not, which `collector/inventory.rs` is trusted to tell,
  and is cut to `max_repos`; a job of the batch may
  end well, fail or be lost. `gone` and `since` are history variables. Its durable
  writes are single steps, because `AppState` shows what a write does when it fails
  half-way.
* `MC...`: instances for TLC. `EventStoreProofs`, `AppStateProofs`,
  `DeliveryRunProofs`, `WebhookProofs`, `DaemonProofs`, `SweepProofs`: theorems.
  `ProjectionProofs` and `InductionProofs`: the lemmas about replay and about
  induction that they share.

Definitions named `X_something` next to a definition `X`, each marked "Faulty
variant", are the mistakes the properties were tried against.

Abstractions: payloads are small records or model values; keys stand for fiber
identities; `PermissionDenied` rosters are folded as `TransientError` ones and
share its value; a store's refusal before anything landed is one action whatever
its cause, because the caller treats all of them alike; encoding and schema
failures are refusals or failed resyncs.

## Runs

| Run | Instance | What it shows |
|---|---|---|
| `write_path_repositories` | one repository, two versions, journals up to 3, an overlapping process | `CacheExact`: a cache misses at most the one unsettled write. `NothingAcknowledgedIsLost`: what a caller was told is written stays, in order, through crashes and resyncs. `ProjectionSurvivesRestart`: the resident repositories are what a replay gives. `DetachFollowsLive`: no tombstone without a live envelope before it, next to another writer too. `LiveOrGone`, `NoDowngrade` |
| `write_path_org_team` | two teams, the organisation, journals up to 3 | `OpenMeansSettled`: an open admission hides no unsettled store. `PrimaryLeads`: the writes and detaches of each fiber of a dedicated journal have their counterparts in the primary one, in order. `NoDowngrade` for rosters and organisation state. `DetachFollowsLive` in both stores of a detach. `StoreSpec`: the write path implements `EventStore` |
| `rosters_after_restart` | one team, the organisation, journals up to 2 | violated: see findings |
| `delivery_run` | two repositories, two runs, one webhook job, a queue of two, sweep timeouts, other writers, fairness | `SuccessIsWhole`: a successful run had each accepted job delivered, with no failed write. `TrackerExact`: the tracker counts what is outstanding. `OwnershipKept`: `RunOwnershipLost` is unreachable. `FencedRunIsSilentUnlessDropped`: a fenced run that a timeout did not drop writes nothing more. `BarrierOpens`: the collector never waits for ever, although no timeout need come |
| `late_outcome_of_fenced_run` | as `delivery_run` | violated: see findings |
| `webhook` | two deliveries sent twice each, two repositories, a queue of one, one eviction, two retries | `CarriedOutOnce`: duplicates do no work twice. `LossIsVisible`: an acknowledged delivery is lost only where a request of it, or of the push that debounced it, was visibly refused or dropped |
| `retried_delivery` | as `webhook` | violated: see findings |
| `daemon` | two attempts, three retries, a word of 2 bits, fairness | `ForcedOnce`, `LateRunsBounded`, `BackoffFollowsOutcome`: on the initial, scheduled and re-armed path alike the loop backs off exactly after an incomplete collection. `SuccessMeansOpen`: no success over an indeterminate write. `BackoffNeverShrinks`, past the width of the word. `RearmEnds`, `StopIsReported` |
| `run_after_shutdown` | as `daemon` | violated: see findings |
| `sweep` | one run, two repositories (one public), a team, three captures, one event outside the run or a restart; with and without a cap of one and live rosters | `NeverDeletedBlindly`: a listing that broke off, was cut or is empty deletes nothing. `TerminalMatchesInventory`: a terminal report with authority shows the run's inventory and what was recorded after it had looked. `ReportKeepsItsPromise`: the served report implements `ReportBoard` |
| `sweep_overlap` | two runs, one repository, three captures, fairness | `FlushedAtBarrier`: coalescing drops no signal; each is followed by a capture, or by an attempt that found no sequence number left. `BarrierBound`: two renders at most end after the shutdown was sent. `JoinEnds`: the run that joins its publisher goes on. `ReportKeepsItsPromise`, with the publisher of a dropped first run rendering into the second |
| `frozen_report` | two repositories, one run, one event | violated: see findings |

Bounds. A journal of 3 to 4 envelopes holds record, detach, rescue and one
unsettled write, and, for two-store writes, a complete write followed by a half
one. Two teams tell the fibers apart; two versions tell captures of equal
completeness apart. Two runs let a late outcome of the first meet the second;
two repositories and a queue of two, shared with a webhook job, let the queue
refuse and deduplicate. The runs of `DeliveryRun` may stop
when the bounded runs are used up, so they do not check deadlock;
`BarrierOpens` covers the waiting that matters. Two deliveries of two sends with
one eviction let a replay, a concurrent duplicate and a debounced push meet; a
queue of one is full as soon as another repository is in it. Three retries in
a word of two bits reach the shift that `checked_shl` refuses, as 65 do in 64
bits; two attempts let one fail and the next one succeed or give up.
Deliveries and repositories are interchangeable in `Webhook`, whose run checks
invariants only and uses them symmetrically. So are the two teams of
`write_path_org_team`, whose properties are invariants and action properties.
The webhook and daemon runs may stop: requests are answered, the process exits.
In `Sweep` two repositories let one be cut, lost or removed while the other stays; two
runs let a publisher outlive its run; three captures let an older and a newer one
race and then use the sequence up, which stands for `u64::MAX`. These runs may stop
when runs, captures and events are used up, so they do not check deadlock.

Fairness. `FairSpec` assumes that the tokio runtime keeps scheduling the
collector, the delivery task, the workers, and a writer that has latched the
admission and not drained yet (a few synchronous statements). Workers are fair
because every job of the pool yields an outcome, failed and panicking ones too.
Nothing is assumed of webhooks, fences, failures or timeouts. In `Daemon` the two
loops and the shutdown are scheduled, and runs and ticks end because requests and the sweep have timeouts and `drain_task` bounds
what is left; signals, a failing server and indeterminate writes need never
come. In `Sweep` the run's own steps and each publisher's are scheduled, weakly and
as a whole: which branch of the publisher's `select!` is taken is up to it, so
`JoinEnds` holds although the shutdown branch itself may lose every race.

## Findings

* `rosters_after_restart`. `NativeTeamStore::fold_events` replays through
  `fold_defined_events`, which skips detached envelopes, and the team store is
  folded last: record a team, detach it, restart, and it is live again.
  `OPERATIONS.md:489`: "A process restart alone folds the full event log and
  rebuilds the same projection."
* `late_outcome_of_fenced_run`. A fence aborts run 1; the sweep timeout drops
  its collector before it retires the batch; run 2's `publish_batch` takes the
  latched fence and returns with run 1 still installed; an outcome of run 1
  arrives, matches the owner and is persisted. `fence_active_run`'s comment: "no
  further record of this run may be written by a writer the fence has already
  superseded".
* `retried_delivery`. `webhook_handler` remembers the delivery id before it acts
  on it. A removal that fails is answered 502, GitHub sends the delivery again,
  and the replay check answers 200 without doing anything.
  `webhook/mod.rs:158-161`: "GitHub redelivers the webhook".
* `run_after_shutdown`. `converge_on_fence` never looks at the cancellation: a run
  fenced before the shutdown is re-armed and starts after it.
  `app/daemon.rs:95-96`: "This guarantees no further `collect::run` is started
  after shutdown is requested". `LateRunsBounded` says how many can start.
* `frozen_report`. The served report shows a repository; a webhook removes it
  (`execute_remove`), which leaves no deletion record; the next run's inventory, its
  projection and its capture all do without it, but `reconcile_deleted_repositories`
  marks only what is still in the projection, so no capture witnesses the deletion,
  `preserves` refuses the terminal report and the earlier one is served on until the
  repository comes back or the process restarts. A complete roster that is detached
  has the same effect. `docs/adr/cherry/CHE-0068-event-driven-projection-refresh.md:43`:
  "the terminal view is fresh without polling"; R5 of it (`:39`), a rule about coalesced
  renders, concludes "so barriers always observe the latest applied state."

Noticed while modelling and not checked by a run of their own: the comment of
`step_enqueue_and_await` says that a batch rejected as a whole ends in `Completed`,
the code sets `Failed`; the hold-down is ten seconds in CHE-0068, one in
`OPERATIONS.md` and two minutes in the configuration; `reuse_from_baseline` reuses the
record of a failed evaluation of a repository that is not public; a repository
created while a run is under way, and recorded by a webhook job before the run looks for
deleted ones, is marked deleted until its next capture (`TerminalMatchesInventory` and
`NeverDeletedBlindly` hold: it was missing when GitHub was listed).

## Proofs

Every safety property that a passing run checks is also a theorem, for all values of
the constants.

`EventStoreProofs` proves `TypeOK`, `CacheExact`, `DetachFollowsLive` and
`NothingAcknowledgedIsLost` of the stores. `CacheExact` alone is not inductive: that a
landed envelope is the last one of the journal and the one held in `writing` must be
known too. The invariant `StoreInv` is `TypeOK`, `InFlight` (what the slot, the latch
and the tail of the journal say of each other) and `CacheExact`; one lemma per action
shows it preserved, and `OneStore` reduces each to the store it touches. Every step
extends a journal by an envelope its fiber permits, loses an unsynced tail, or leaves it
alone (`Extends`, `LosesLast`), which keeps a journal `Disciplined`. `AllBacked` says
that what a cache holds is in the journal in its order and never reaches into a tail
that a crash can still take.

`AppStateProofs` proves that `AppSpec` implements `EventStore!Spec` (each action
of the write path is a store step or leaves the stores alone), so that the three store
properties above hold of the composed path too, and from an invariant that ties `op` to
the store holding an envelope (`OneWriter`) and every latched store to a stopped
admission or to the operation that is about to stop it (`DoubtIsHeld`),
`AppSpec => []OpenMeansSettled`. Its further theorems rest on `WriteInv`: the above,
`AllBacked`, that each journal holds writes of its own kind (`Kinds`), that the
projection is well typed and nothing in it both live and deleted (`Resident`), and that
a running write found the admission open (`Admitted`). That gives `AppTypeOK` and
`LiveOrGone`. For `ProjectionSurvivesRestart` the invariant `Kept` names the three
journals whose replay the projection mirrors at every moment of a write: the actual
ones without the envelope that is in flight or in doubt (`Held`). Complete
rosters are mirrored in one direction only (`Mirrors`), because the replay of the team
store brings detached ones back. `NoDowngrade` follows from `Kept`: a restart replays at most one
more envelope per store than the projection has folded, and `RebuildKeeps` shows that
this downgrades nothing. For `PrimaryLeads` the
invariant `Led` also says what a crash leaves: without the tail that can be lost, the
primary journal still has every counterpart, and a write that has reached its dedicated
store has a counterpart of its own that no earlier one uses.

`ProjectionProofs` is about replay for journals of every length: that the recursive
function `fold_events` is made of exists, what it does on an appended envelope, that it
stays in the type, keeps live and deleted apart, and what of it another order or another
store's envelopes cannot change. The induction theorems of the library take an operator as a
parameter and cannot be used here; `InductionProofs` has induction over an interval and
over sequences in a form that takes a set instead, from the least counterexample.

`DeliveryRunProofs` proves `TypeOK`, `SuccessIsWhole`, `TrackerExact`, `OwnershipKept`
and `FencedRunIsSilentUnlessDropped`, for any repositories, runs, webhook jobs and queue
capacity. `RunInv` says, besides the types: what each place of the collector knows of
gate, owner and tracker (`Phases`, `Ownership`); that a run that has not published has
left no trace (`NoTrace`); that a job is in one of queue, worker, channel and delivered,
once (`JobsOnce`); that a fenced run still installed has its fence latched,
unless a timeout dropped it (`FenceLatched`); that an unreleased tracker counts what was accepted and not delivered
(`Countdown`), which gives `TrackerExact` and keeps the counter from wrapping; and that
a batch retired without fence or stop was whole (`RetiredWhole`).

`WebhookProofs` proves `CarriedOutOnce`. The invariant counts, per delivery, what
was carried out plus the requests in flight, against the evictions plus the entry
in the replay cache (`PassesCounted`). `RequestStep` reduces the sixteen actions
of a request to the three ways they change a count: not at all, one request let
through, one finished. It also proves `TypeOK` and `LossIsVisible`, whose invariant
`LossInv` says that a remembered delivery is attended to: it was carried out, was
refused or dropped, debounced, or a request of it is still under way (`Attended`), and
that every debounce entry and every debounced answer is backed by a push of the same repository
that is (`DebounceBacked`, `DebouncedBacked`).

`DaemonProofs` proves `ForcedOnce`, `LateRunsBounded` and `SuccessMeansOpen`, each
with the strengthening it needs: an armed flag means that no run has started
(`FlagUnused`); the late runs are bounded by the attempt the loop is at, one less
while it is resyncing (`LateRuns`); a returned process has no loop and no
undrained delivery task (`ExitSettled`). `TypeOK` is part of the same invariant.
`BackoffFollowsOutcome` is inductive with it, and `BackoffNeverShrinks` holds for a word
of any width: the shift is a recursive function (`shl`) that doubles and so only grows,
and what it no longer fits, saturates.

`SweepProofs` proves that the served report implements `ReportBoard`
(`ReportKeepsItsPromise`), `FlushedAtBarrier`, `BarrierBound`, `TypeOK`,
`NeverDeletedBlindly` and `TerminalMatchesInventory`, for any repositories, teams, runs,
captures and configurations. The refinement needs that every report in flight,
captured by a publisher or a run and not yet committed, is as sound as the served one:
its deleted repositories are not among its live ones (`ReportsOK`), which comes from
`LiveOrDeleted` of the projection it was taken of. `AdmissionKeepsPromise` is the heart
of it: what `preserves` lets through is a step of the board. The publisher's part
(`PublishersOK`) says that an owed signal is still in the permit, the dirty bit or a
render that has not captured yet, and how many renders may still end late at each
place of the loop. `DeletionInv` is the strengthening for the last two: an inventory
with authority has lost only repositories that were missing on GitHub; what is marked
or about to be was missing; and live evidence of a lost repository is about to be
marked or was written since the run looked.

The assumptions are the ones the modules state: bounds are natural numbers (at
least one attempt and one retry), the "no write", "no operation", "absent" and
"no run" values are none of what they stand next to, run numbers do not name a webhook
job, the stores are the three of the program and their keys are disjoint, the
repositories of a run are finitely many and repository ids are numbers, evidence is
observed or failed, and the collection interval fits the word.

A proof attempt corrected one property. `PrimaryLeads` used to say that the dedicated
journal as a whole is a subsequence of the primary one, which holds with one team and
not with two: a detach that reached only `events` before a crash is made good in `teams`
by the next detach of that team, after whatever the other team wrote in between. The
order is per fiber, as it is now stated, and the run has two teams.

Only model-checked: `BarrierOpens`, `RearmEnds`, `StopIsReported` and `JoinEnds`, which
are liveness under fairness and out of the prover's reach. The properties of the runs
that expect a violation are false and have no theorem.

## Plan

1. Done: `EventStore`, `EvidenceProjection`, `AppState`, `DeliveryRun`,
   `Webhook`, `Daemon`, `Publication`, `PartialPublisher`, `Sweep`, their runs and the
   proofs above. The store properties that a run of `EventStore` alone used to check
   are checked in the composed write path.
2. Done: a theorem for every safety property of a passing run. Left with TLC: the four
   liveness properties.
3. Candidates for more: the tick of the team refresh computed from the owners of
   repositories; replenishment of the GitHub budget and its checkpoint; token refresh
   and the conditional-request cache of the client.

## Not modelled

Rendering, view models, metrics, event conversion, configuration, logging, the
web server and the browser client keep no state that outlives a call and consist
of formatting, parsing or counting. GitHub's API, pardosa, NATS, cherry-pit-wq
and the storage library are external: they appear as the outcomes the code
handles. Together with the tests, which sit in the same files, these are most of the
repository's lines, so the modelled part is a small share of the lines and most of
the control.

Left out of the modelled parts: serve-only mode (no loop runs), a second signal
(it changes nothing), and an invalid NATS configuration found by a re-arm (start-up
has validated it). `AppState` models one resync at a time, although the re-arms of
both loops may resync at once; each of them re-reads the same stores.
