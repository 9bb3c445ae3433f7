---------------------------- MODULE DeliveryRun ----------------------------
(***************************************************************************)
(* A scheduled collection run and the delivery task (app/collect.rs,       *)
(* app/daemon.rs).  The collector publishes one job per pending repository *)
(* on the shared work queue, installs itself as the owner of the run and   *)
(* waits until a BatchTracker has counted every job down.  Workers execute *)
(* queued jobs in any order; the delivery task persists their outcomes one *)
(* by one and counts them down for the owner.  Webhook jobs, which belong  *)
(* to no run, share queue, workers and delivery task.                      *)
(*                                                                         *)
(* A run ends early in four ways: the single-writer fence rejects a write  *)
(* (run_fence), a write becomes indeterminate and the admission stops, the *)
(* sweep timeout drops the waiting collector, or the queue takes no job.   *)
(* The delivery gate serialises publishing, retiring and delivering; the   *)
(* writers that stop the admission do not take it.                         *)
(***************************************************************************)
EXTENDS Naturals, Sequences, FiniteSets

CONSTANTS Repos,          \* inventory keys
          MaxRuns,        \* bound: scheduled runs that are started
          MaxExternal,    \* bound: webhook jobs that are enqueued
          QueueCapacity,  \* capacity of the work queue
          External,       \* the owner of a webhook job: none of the runs
          NoRun           \* no run installed

Runs == 1..MaxRuns

ASSUME BoundsAssumption ==
  /\ MaxRuns \in Nat /\ MaxExternal \in Nat /\ QueueCapacity \in Nat
  /\ IsFiniteSet(Repos)
ASSUME NamesAssumption == External \notin Nat /\ NoRun \notin Nat /\ External # NoRun

Job == [key : Repos, run : Runs \cup {External}]

VARIABLES
  queued,         \* the work queue: at most one job per key
  executing,      \* jobs taken by a worker
  channel,        \* outcomes on their way to the delivery task
  externals,      \* webhook jobs enqueued so far
  delivery,       \* the delivery task: "alive" or "exited"
  gate,           \* delivery_gate is held by the publishing collector
  admission,      \* write_admission: "open" or "stopped"
  draining,       \* a writer latched the admission and has yet to drain
  run_fence,      \* a fence is latched
  scheduled_run,  \* the installed owner
  batch_tracker,  \* the run whose tracker fence_active_run drains
  tracker,        \* BatchTracker of each run: jobs left
  failure,        \* ScheduledRun::failure
  pc,             \* where the collector is
  run,            \* the collector's last run
  pending,        \* the repositories the collector enqueues
  outcome,        \* how each run ended
  accepted,       \* history: the jobs of each run the queue took
  delivered,      \* history: the jobs of each run that were delivered
  fenced          \* history: the runs a fence aborted

vars == <<queued, executing, channel, externals, delivery, gate, admission, draining,
          run_fence, scheduled_run, batch_tracker, tracker, failure, pc, run, pending,
          outcome, accepted, delivered, fenced>>

jobVars == <<queued, executing, channel, externals>>
runVars == <<scheduled_run, batch_tracker, tracker, failure>>
collectorVars == <<pc, run, pending, outcome>>
history == <<accepted, delivered, fenced>>

Outcomes == {"none", "ok", "fenced", "failed", "rejected", "stopped", "timed_out", "not_owner"}
Places == {"idle", "gated", "tracked", "owned", "published", "waiting", "retired"}

TypeOK ==
  /\ queued \subseteq Job /\ executing \subseteq Job
  /\ channel \in Seq(Job)
  /\ externals \in 0..MaxExternal
  /\ delivery \in {"alive", "exited"}
  /\ gate \in BOOLEAN
  /\ admission \in {"open", "stopped"}
  /\ draining \in BOOLEAN
  /\ run_fence \in BOOLEAN
  /\ scheduled_run \in Runs \cup {NoRun}
  /\ batch_tracker \in Runs \cup {NoRun}
  /\ tracker \in [Runs -> Nat]
  /\ failure \in [Runs -> BOOLEAN]
  /\ pc \in Places
  /\ run \in 0..MaxRuns
  /\ pending \subseteq Repos
  /\ outcome \in [Runs -> Outcomes]
  /\ accepted \in [Runs -> SUBSET Repos]
  /\ delivered \in [Runs -> SUBSET Repos]
  /\ fenced \in SUBSET Runs

Init ==
  /\ queued = {} /\ executing = {} /\ channel = <<>>
  /\ externals = 0
  /\ delivery = "alive"
  /\ gate = FALSE
  /\ admission = "open"
  /\ draining = FALSE
  /\ run_fence = FALSE
  /\ scheduled_run = NoRun /\ batch_tracker = NoRun
  /\ tracker = [r \in Runs |-> 0]
  /\ failure = [r \in Runs |-> FALSE]
  /\ pc = "idle"
  /\ run = 0
  /\ pending = {}
  /\ outcome = [r \in Runs |-> "none"]
  /\ accepted = [r \in Runs |-> {}]
  /\ delivered = [r \in Runs |-> {}]
  /\ fenced = {}

-----------------------------------------------------------------------------
(***************************************************************************)
(* The work queue and its workers (cherry-pit-wq): a key that is queued is *)
(* not queued twice, a full queue refuses, and every job a worker takes    *)
(* yields an outcome.                                                      *)
(***************************************************************************)
QueuedKeys == {j.key : j \in queued}

Free == QueueCapacity - Cardinality(queued)

execute_enqueue(k) ==
  /\ externals < MaxExternal
  /\ k \notin QueuedKeys
  /\ Free > 0
  /\ queued' = queued \cup {[key |-> k, run |-> External]}
  /\ externals' = externals + 1
  /\ UNCHANGED <<executing, channel, delivery, gate, admission, draining, run_fence,
                 runVars, collectorVars, history>>

Dequeue(j) ==
  /\ j \in queued
  /\ j \notin executing
  /\ queued' = queued \ {j}
  /\ executing' = executing \cup {j}
  /\ UNCHANGED <<channel, externals, delivery, gate, admission, draining, run_fence,
                 runVars, collectorVars, history>>

Finish(j) ==
  /\ j \in executing
  /\ executing' = executing \ {j}
  /\ channel' = Append(channel, j)
  /\ UNCHANGED <<queued, externals, delivery, gate, admission, draining, run_fence,
                 runVars, collectorVars, history>>

-----------------------------------------------------------------------------
(***************************************************************************)
(* BatchTracker (cherry-pit-wq): retire counts down and stops at zero,     *)
(* drain releases the barrier outright.                                    *)
(***************************************************************************)
Less(n, m) == IF n > m THEN n - m ELSE 0

retire(t, r, n) == [t EXCEPT ![r] = Less(@, n)]

drain(t, r) == IF r = NoRun THEN t ELSE [t EXCEPT ![r] = 0]

-----------------------------------------------------------------------------
(***************************************************************************)
(* publish_batch, under the gate.  begin_run: a fence latched since the    *)
(* last run aborts this one before it is installed.                        *)
(***************************************************************************)
StartsRun ==
  /\ pc = "idle"
  /\ run < MaxRuns
  /\ admission = "open"
  /\ ~gate
  /\ run' = run + 1
  /\ pending' \in (SUBSET Repos) \ {{}}

begin_run_fenced ==
  /\ StartsRun
  /\ run_fence
  /\ run_fence' = FALSE
  /\ outcome' = [outcome EXCEPT ![run + 1] = "fenced"]
  /\ UNCHANGED <<jobVars, delivery, gate, admission, draining, runVars, pc, history>>

begin_run ==
  /\ StartsRun
  /\ ~run_fence
  /\ gate' = TRUE
  /\ pc' = "gated"
  /\ UNCHANGED <<jobVars, delivery, admission, draining, run_fence, runVars, outcome, history>>

set_active_batch_tracker ==
  /\ pc = "gated"
  /\ tracker' = [tracker EXCEPT ![run] = Cardinality(pending)]
  /\ batch_tracker' = run
  /\ pc' = "tracked"
  /\ UNCHANGED <<jobVars, delivery, gate, admission, draining, run_fence, scheduled_run,
                 failure, run, pending, outcome, history>>

(***************************************************************************)
(* Faulty variant: an owner that is still installed is kept.               *)
(***************************************************************************)
install_owner_if_free ==
  /\ pc = "tracked"
  /\ scheduled_run' = IF scheduled_run = NoRun THEN run ELSE scheduled_run
  /\ pc' = "owned"
  /\ UNCHANGED <<jobVars, delivery, gate, admission, draining, run_fence, batch_tracker,
                 tracker, failure, run, pending, outcome, history>>

install_owner ==
  /\ pc = "tracked"
  /\ scheduled_run' = run
  /\ pc' = "owned"
  /\ UNCHANGED <<jobVars, delivery, gate, admission, draining, run_fence, batch_tracker,
                 tracker, failure, run, pending, outcome, history>>

Taken(acc) ==
  LET candidates == pending \ QueuedKeys
  IN /\ acc \subseteq candidates
     /\ Cardinality(acc) = IF Cardinality(candidates) < Free
                           THEN Cardinality(candidates) ELSE Free

(***************************************************************************)
(* Faulty variant: the jobs the queue did not take are not retired.        *)
(***************************************************************************)
enqueue_batch_unretired(acc) ==
  /\ pc = "owned"
  /\ Taken(acc)
  /\ queued' = queued \cup {[key |-> k, run |-> run] : k \in acc}
  /\ accepted' = [accepted EXCEPT ![run] = acc]
  /\ pc' = "published"
  /\ UNCHANGED <<executing, channel, externals, delivery, gate, admission, draining,
                 run_fence, runVars, run, pending, outcome, delivered, fenced>>

(***************************************************************************)
(* Enqueue what the queue takes and retire the rest at once.               *)
(***************************************************************************)
enqueue_batch(acc) ==
  /\ pc = "owned"
  /\ Taken(acc)
  /\ queued' = queued \cup {[key |-> k, run |-> run] : k \in acc}
  /\ accepted' = [accepted EXCEPT ![run] = acc]
  /\ tracker' = retire(tracker, run, Cardinality(pending) - Cardinality(acc))
  /\ pc' = "published"
  /\ UNCHANGED <<executing, channel, externals, delivery, gate, admission, draining,
                 run_fence, scheduled_run, batch_tracker, failure, run, pending, outcome,
                 delivered, fenced>>

(***************************************************************************)
(* Faulty variant: the admission is not asked again after publishing.      *)
(***************************************************************************)
check_admission_skipped ==
  /\ pc = "published"
  /\ gate' = FALSE
  /\ pc' = "waiting"
  /\ UNCHANGED <<jobVars, delivery, admission, draining, run_fence, runVars, run, pending,
                 outcome, history>>

(***************************************************************************)
(* An admission stopped while the run was being installed drains it here;  *)
(* the gate is released.                                                   *)
(***************************************************************************)
check_admission ==
  /\ pc = "published"
  /\ tracker' = IF admission = "stopped" THEN drain(tracker, run) ELSE tracker
  /\ gate' = FALSE
  /\ pc' = "waiting"
  /\ UNCHANGED <<jobVars, delivery, admission, draining, run_fence, scheduled_run,
                 batch_tracker, failure, run, pending, outcome, history>>

-----------------------------------------------------------------------------
Owner == scheduled_run = run

(***************************************************************************)
(* Faulty variant: the fence is taken and the owner stays installed.       *)
(***************************************************************************)
retire_batch_installed ==
  /\ pc = "waiting"
  /\ ~gate
  /\ accepted[run] = {} \/ tracker[run] = 0
  /\ pc' = "retired"
  /\ outcome' = [outcome EXCEPT ![run] = IF ~Owner THEN "not_owner"
                                         ELSE IF run_fence THEN "fenced" ELSE "none"]
  /\ run_fence' = (run_fence /\ ~Owner)
  /\ UNCHANGED <<jobVars, delivery, gate, admission, draining, runVars, run, pending,
                 history>>

(***************************************************************************)
(* The barrier opened, or no job was taken: retire_batch, under the gate,  *)
(* uninstalls the owner and takes the fence in one step.                   *)
(***************************************************************************)
retire_batch ==
  /\ pc = "waiting"
  /\ ~gate
  /\ accepted[run] = {} \/ tracker[run] = 0
  /\ pc' = "retired"
  /\ outcome' = [outcome EXCEPT ![run] = IF ~Owner THEN "not_owner"
                                         ELSE IF run_fence THEN "fenced" ELSE "none"]
  /\ scheduled_run' = IF Owner THEN NoRun ELSE scheduled_run
  /\ batch_tracker' = IF Owner THEN NoRun ELSE batch_tracker
  /\ run_fence' = (run_fence /\ ~Owner)
  /\ UNCHANGED <<jobVars, delivery, gate, admission, draining, tracker, failure, run,
                 pending, history>>

(***************************************************************************)
(* The end of enqueue_and_await_batch: the admission is asked first, then  *)
(* the fence, then the run's own persist failure.  (A run without jobs     *)
(* reports its fence or else the rejection.)                               *)
(***************************************************************************)
Conclusion ==
  IF accepted[run] = {} THEN IF outcome[run] = "none" THEN "rejected" ELSE outcome[run]
  ELSE IF admission = "stopped" THEN "stopped"
  ELSE IF outcome[run] # "none" THEN outcome[run]
  ELSE IF failure[run] THEN "failed" ELSE "ok"

conclude ==
  /\ pc = "retired"
  /\ outcome' = [outcome EXCEPT ![run] = Conclusion]
  /\ pc' = "idle"
  /\ UNCHANGED <<jobVars, delivery, gate, admission, draining, run_fence, runVars, run,
                 pending, history>>

(***************************************************************************)
(* The sweep timeout, or a cancelled daemon, drops the collector at one of *)
(* its awaits.  Nothing is uninstalled.                                    *)
(***************************************************************************)
sweep_timeout ==
  /\ pc = "waiting" \/ (pc = "retired" /\ accepted[run] # {})
  /\ outcome' = [outcome EXCEPT ![run] = "timed_out"]
  /\ pc' = "idle"
  /\ UNCHANGED <<jobVars, delivery, gate, admission, draining, run_fence, runVars, run,
                 pending, history>>

-----------------------------------------------------------------------------
(***************************************************************************)
(* The delivery task takes the next outcome and the gate.  An outcome of a *)
(* run that is no longer installed is stale; with a fence latched nothing  *)
(* may be written.                                                         *)
(***************************************************************************)
Next_outcome == Head(channel)

(***************************************************************************)
(* Faulty variant: any installed run is taken for the owner.               *)
(***************************************************************************)
Owned_by_any(j) == j.run = External \/ scheduled_run # NoRun

Owned(j) == j.run = External \/ j.run = scheduled_run

Receives ==
  /\ delivery = "alive"
  /\ channel # <<>>
  /\ ~gate
  /\ channel' = Tail(channel)
  /\ UNCHANGED <<queued, executing, externals, gate, collectorVars, accepted>>

delivery_exits ==
  /\ Receives
  /\ admission = "stopped"
  /\ delivery' = "exited"
  /\ UNCHANGED <<admission, draining, run_fence, runVars, delivered, fenced>>

discard ==
  /\ Receives
  /\ admission = "open"
  /\ ~Owned(Next_outcome) \/ run_fence
  /\ UNCHANGED <<delivery, admission, draining, run_fence, runVars, delivered, fenced>>

Persists ==
  /\ Receives
  /\ admission = "open"
  /\ Owned(Next_outcome)
  /\ ~run_fence
  /\ UNCHANGED delivery

Scheduled == Next_outcome.run # External

(***************************************************************************)
(* Faulty variant: a plain decrement instead of BatchTracker::retire.      *)
(***************************************************************************)
CountsDown_unsaturated ==
  IF Scheduled
  THEN /\ tracker' = [tracker EXCEPT ![scheduled_run] = @ - 1]
       /\ delivered' = [delivered EXCEPT ![Next_outcome.run] = @ \cup {Next_outcome.key}]
  ELSE UNCHANGED <<tracker, delivered>>

(***************************************************************************)
(* apply_owned_delivery_step, one action per DeliveryStep.                 *)
(***************************************************************************)
CountsDown ==
  IF Scheduled
  THEN /\ tracker' = retire(tracker, scheduled_run, 1)
       /\ delivered' = [delivered EXCEPT ![Next_outcome.run] = @ \cup {Next_outcome.key}]
  ELSE UNCHANGED <<tracker, delivered>>

(***************************************************************************)
(* The record is written, or there is nothing to write: the evaluation of  *)
(* a repository without an entry has failed (handle_failure_outcome).      *)
(***************************************************************************)
Delivered ==
  /\ Persists
  /\ CountsDown
  /\ UNCHANGED <<admission, draining, run_fence, scheduled_run, batch_tracker, failure,
                 fenced>>

Unpersisted ==
  /\ Persists
  /\ CountsDown
  /\ failure' = IF Scheduled THEN [failure EXCEPT ![scheduled_run] = TRUE] ELSE failure
  /\ UNCHANGED <<admission, draining, run_fence, scheduled_run, batch_tracker, fenced>>

Fenced ==
  /\ Persists
  /\ run_fence' = TRUE
  /\ tracker' = drain(tracker, batch_tracker)
  /\ fenced' = IF scheduled_run = NoRun THEN fenced ELSE fenced \cup {scheduled_run}
  /\ UNCHANGED <<admission, draining, scheduled_run, batch_tracker, failure, delivered>>

ReconciliationRequired ==
  /\ Persists
  /\ admission' = "stopped"
  /\ tracker' = drain(drain(tracker, scheduled_run), batch_tracker)
  /\ UNCHANGED <<draining, run_fence, scheduled_run, batch_tracker, failure, delivered,
                 fenced>>

-----------------------------------------------------------------------------
(***************************************************************************)
(* Another admitted write (a webhook removal, a team refresh) becomes      *)
(* indeterminate.  It latches the admission first and drains the owner it  *)
(* finds installed afterwards, without the gate.                           *)
(***************************************************************************)
admitted_write_stops ==
  /\ admission = "open"
  /\ admission' = "stopped"
  /\ draining' = TRUE
  /\ UNCHANGED <<jobVars, delivery, gate, run_fence, runVars, collectorVars, history>>

admitted_write_drains ==
  /\ draining
  /\ draining' = FALSE
  /\ tracker' = drain(tracker, scheduled_run)
  /\ UNCHANGED <<jobVars, delivery, gate, admission, run_fence, scheduled_run,
                 batch_tracker, failure, collectorVars, history>>

-----------------------------------------------------------------------------
Publish ==
  \/ begin_run_fenced \/ begin_run \/ set_active_batch_tracker \/ install_owner
  \/ \E acc \in SUBSET Repos : enqueue_batch(acc)
  \/ check_admission

Collect == Publish \/ retire_batch \/ conclude

Deliver == delivery_exits \/ discard \/ Delivered \/ Unpersisted \/ Fenced
           \/ ReconciliationRequired

Work == \E j \in Job : Dequeue(j) \/ Finish(j)

Next ==
  \/ Collect \/ sweep_timeout \/ Deliver \/ Work
  \/ \E k \in Repos : execute_enqueue(k)
  \/ admitted_write_stops \/ admitted_write_drains

Spec == Init /\ [][Next]_vars

(***************************************************************************)
(* Every task of the runtime is scheduled: the collector, the delivery     *)
(* task, the workers and a writer between its latch and its drain.         *)
(***************************************************************************)
FairSpec ==
  /\ Spec
  /\ WF_vars(Collect) /\ WF_vars(Deliver) /\ WF_vars(Work)
  /\ WF_vars(admitted_write_drains)

-----------------------------------------------------------------------------
(***************************************************************************)
(* The barrier never opens early: a run that reports success had every job *)
(* the queue took delivered, with no failed write, and was aborted by      *)
(* no fence (publish_batch, enqueue_and_await_batch and                    *)
(* apply_owned_delivery_step, collect.rs:1093-1273, daemon.rs:1257-1288).  *)
(***************************************************************************)
SuccessIsWhole ==
  \A r \in Runs : outcome[r] = "ok" =>
    /\ delivered[r] = accepted[r]
    /\ ~failure[r]
    /\ r \notin fenced

(***************************************************************************)
(* The tracker of the waiting run counts exactly the jobs that are still   *)
(* on their way, unless a fence or a stop released it: each of them is in  *)
(* the queue, with a worker or in the channel, once.                       *)
(***************************************************************************)
OnTheWay(r, k) ==
  LET j == [key |-> k, run |-> r]
  IN \/ j \in queued
     \/ j \in executing
     \/ \E i \in DOMAIN channel : channel[i] = j

TrackerExact ==
  (pc = "waiting" /\ ~run_fence /\ admission = "open") =>
    /\ tracker[run] = Cardinality(accepted[run] \ delivered[run])
    /\ \A k \in accepted[run] \ delivered[run] : OnTheWay(run, k)

(***************************************************************************)
(* RunOwnershipLost is unreachable: whoever retires a batch still owns it. *)
(***************************************************************************)
OwnershipKept == \A r \in Runs : outcome[r] # "not_owner"

(***************************************************************************)
(* "No further record of this run may be written by a writer the fence has *)
(* already superseded" (fence_active_run, app/state/mod.rs:611-622): once  *)
(* a fence aborted a run, no outcome of that run is persisted.             *)
(***************************************************************************)
FencedRunIsSilent ==
  [][\A r \in fenced : delivered'[r] = delivered[r]]_vars

(***************************************************************************)
(* Only a sweep timeout before it breaks that: a fenced run that is not    *)
(* dropped writes nothing more, while it retires, and while the next run   *)
(* is published (publish_batch and retire_batch, collect.rs:1093-1273).    *)
(***************************************************************************)
FencedRunIsSilentUnlessDropped ==
  [][\A r \in fenced : delivered'[r] # delivered[r] => outcome[r] = "timed_out"]_vars

(***************************************************************************)
(* The collector never waits for ever, even if no sweep timeout comes to   *)
(* its help: jobs, fences and stops always release the barrier (the        *)
(* comment on fence_active_run, and the drain in publish_batch for a stop  *)
(* that comes while the run is being installed).                           *)
(***************************************************************************)
BarrierOpens == (pc = "waiting") ~> (pc # "waiting")
=============================================================================
