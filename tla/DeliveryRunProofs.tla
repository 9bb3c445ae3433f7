------------------------- MODULE DeliveryRunProofs -------------------------
(***************************************************************************)
(* Proofs about DeliveryRun for every inventory, every number of runs and  *)
(* of webhook jobs, and every queue capacity: a run that reports success   *)
(* was delivered whole, the barrier counts exactly the jobs on their way,  *)
(* whoever retires a batch owns it, and a fenced run writes nothing more   *)
(* unless a sweep timeout dropped it first.                                *)
(***************************************************************************)
EXTENDS DeliveryRun, FiniteSetTheorems, SequenceTheorems, TLAPS

(***************************************************************************)
(* The gate is held exactly while a batch is published, and no fence is    *)
(* latched then; a writer that has yet to drain has stopped the admission. *)
(***************************************************************************)
Phases ==
  /\ gate <=> pc \in {"gated", "tracked", "owned", "published"}
  /\ gate => ~run_fence
  /\ pc # "idle" => run \in Runs
  /\ draining => admission = "stopped"

(***************************************************************************)
(* The owner is the collector's run, from its installation to the end of   *)
(* its wait, or a run that a sweep timeout dropped.                        *)
(***************************************************************************)
Ownership ==
  /\ pc \in {"owned", "published", "waiting"} => scheduled_run = run
  /\ pc = "retired" => scheduled_run = NoRun
  /\ scheduled_run \in Runs =>
       \/ scheduled_run = run /\ pc \in {"owned", "published", "waiting"}
       \/ outcome[scheduled_run] = "timed_out"

(***************************************************************************)
(* A run that has published no job yet has left no trace, and a run that   *)
(* is waiting has no outcome.                                              *)
(***************************************************************************)
Unpublished(r) == r > run \/ (r = run /\ pc \in {"gated", "tracked", "owned"})

NoTrace ==
  /\ \A r \in Runs : Unpublished(r) =>
       accepted[r] = {} /\ r \notin fenced /\ outcome[r] = "none"
  /\ pc \in {"published", "waiting"} => outcome[run] = "none"

(***************************************************************************)
(* A job of a run is in one place at a time, and only between its          *)
(* acceptance and its delivery.                                            *)
(***************************************************************************)
JobOnce(r, k) ==
  LET j == [key |-> k, run |-> r]
  IN /\ ~(j \in queued /\ j \in executing)
     /\ \A i \in DOMAIN channel : channel[i] = j => j \notin queued /\ j \notin executing
     /\ \A h, i \in DOMAIN channel : channel[h] = j /\ channel[i] = j => h = i
     /\ OnTheWay(r, k) => k \in accepted[r] /\ k \notin delivered[r]

JobsOnce ==
  /\ \A r \in Runs, k \in Repos : JobOnce(r, k)
  /\ \A r \in Runs : delivered[r] \subseteq accepted[r]

(***************************************************************************)
(* A fenced run that is still installed has its fence latched, unless it   *)
(* was dropped.                                                            *)
(***************************************************************************)
FenceLatched ==
  \A r \in fenced : scheduled_run = r => run_fence \/ outcome[r] = "timed_out"

(***************************************************************************)
(* TrackerExact, from the moment the tracker is set.                       *)
(***************************************************************************)
Countdown ==
  (~run_fence /\ admission = "open") =>
    /\ pc \in {"tracked", "owned"} => tracker[run] = Cardinality(pending)
    /\ pc \in {"published", "waiting"} =>
         /\ tracker[run] = Cardinality(accepted[run] \ delivered[run])
         /\ \A k \in accepted[run] \ delivered[run] : OnTheWay(run, k)

(***************************************************************************)
(* What SuccessIsWhole says, between retiring the batch and concluding.    *)
(***************************************************************************)
RetiredWhole ==
  (/\ pc = "retired" /\ accepted[run] # {}
   /\ outcome[run] = "none" /\ admission = "open") =>
    delivered[run] = accepted[run] /\ run \notin fenced

RunInv ==
  /\ TypeOK
  /\ Phases /\ Ownership /\ NoTrace /\ JobsOnce /\ FenceLatched
  /\ Countdown /\ RetiredWhole
  /\ SuccessIsWhole /\ OwnershipKept

-----------------------------------------------------------------------------
(***************************************************************************)
(* What the BatchTracker operations do to a family of counters.            *)
(***************************************************************************)
LEMMA RetireCounts ==
  ASSUME NEW t \in [Runs -> Nat], NEW r \in Runs, NEW n \in Nat
  PROVE  /\ retire(t, r, n) \in [Runs -> Nat]
         /\ retire(t, r, n)[r] = IF t[r] > n THEN t[r] - n ELSE 0
BY DEF retire, Less

LEMMA DrainCounts ==
  ASSUME NEW t \in [Runs -> Nat], NEW s \in Runs \cup {NoRun}
  PROVE  drain(t, s) \in [Runs -> Nat]
BY DEF drain

(***************************************************************************)
(* Taking the first outcome off the channel and putting one at its end.    *)
(***************************************************************************)
LEMMA ChannelTail ==
  ASSUME NEW S, NEW c \in Seq(S), c # <<>>
  PROVE  /\ Head(c) \in S /\ Head(c) = c[1] /\ 1 \in DOMAIN c
         /\ Tail(c) \in Seq(S)
         /\ \A i \in DOMAIN Tail(c) : i + 1 \in DOMAIN c /\ Tail(c)[i] = c[i + 1]
         /\ \A i \in DOMAIN c : i = 1 \/ (i - 1 \in DOMAIN Tail(c)
                                          /\ Tail(c)[i - 1] = c[i])
BY HeadTailProperties, LenProperties, ElementOfSeq

LEMMA ChannelAppend ==
  ASSUME NEW S, NEW c \in Seq(S), NEW e \in S
  PROVE  /\ Append(c, e) \in Seq(S)
         /\ \A i \in DOMAIN c : i \in DOMAIN Append(c, e) /\ Append(c, e)[i] = c[i]
         /\ \A i \in DOMAIN Append(c, e) :
              (i \in DOMAIN c /\ Append(c, e)[i] = c[i]) \/ (i = Len(c) + 1 /\ Append(c, e)[i] = e)
         /\ Len(c) + 1 \in DOMAIN Append(c, e) /\ Append(c, e)[Len(c) + 1] = e
BY AppendProperties, LenProperties

(***************************************************************************)
(* The steps of the delivery task share what Receives does.                *)
(***************************************************************************)
LEMMA ReceivesTakesOne ==
  ASSUME TypeOK, Receives
  PROVE  /\ Next_outcome \in Job
         /\ channel' \in Seq(Job)
         /\ Next_outcome.run \in Runs \cup {External} /\ Next_outcome.key \in Repos
<1>1. channel \in Seq(Job) /\ channel # <<>> /\ channel' = Tail(channel)
  BY DEF TypeOK, Receives
<1>2. Next_outcome \in Job /\ channel' \in Seq(Job)
  BY <1>1, ChannelTail DEF Next_outcome
<1> QED BY <1>2 DEF Job

LEMMA NamesDiffer == External \notin Runs /\ NoRun \notin Runs
BY NamesAssumption, BoundsAssumption DEF Runs

(***************************************************************************)
(* The queue takes some of the pending repositories.                       *)
(***************************************************************************)
LEMMA TakenCount ==
  ASSUME TypeOK, NEW acc, Taken(acc)
  PROVE  /\ acc \subseteq pending /\ IsFiniteSet(acc)
         /\ Cardinality(pending) \in Nat /\ Cardinality(acc) \in Nat
         /\ Cardinality(pending) - Cardinality(acc) \in Nat
<1>1. acc \subseteq pending
  BY DEF Taken
<1>2. IsFiniteSet(pending)
  BY BoundsAssumption, FS_Subset DEF TypeOK
<1>3. IsFiniteSet(acc) /\ Cardinality(acc) <= Cardinality(pending)
  BY <1>1, <1>2, FS_Subset
<1>4. Cardinality(pending) \in Nat /\ Cardinality(acc) \in Nat
  BY <1>2, <1>3, FS_CardinalityType
<1> QED BY <1>1, <1>3, <1>4

-----------------------------------------------------------------------------
LEMMA InitEstablishes == Init => RunInv
<1> SUFFICES ASSUME Init PROVE RunInv
  OBVIOUS
<1>1. TypeOK
  <2>1. channel \in Seq(Job)
    BY EmptySeq DEF Init
  <2>2. 0 \in 0..MaxExternal /\ 0 \in 0..MaxRuns
    BY BoundsAssumption
  <2> QED BY <2>1, <2>2 DEF Init, TypeOK, Outcomes, Places
<1>2. Phases /\ Ownership /\ NoTrace /\ FenceLatched
  BY NamesDiffer, <1>1 DEF Init, Phases, Ownership, NoTrace, FenceLatched, Runs
<1>3. JobsOnce
  BY EmptySeq DEF Init, JobsOnce, JobOnce, OnTheWay
<1>4. Countdown /\ RetiredWhole /\ SuccessIsWhole /\ OwnershipKept
  BY DEF Init, Countdown, RetiredWhole, SuccessIsWhole, OwnershipKept
<1> QED BY <1>1, <1>2, <1>3, <1>4 DEF RunInv

LEMMA TypeStep ==
  ASSUME RunInv, [Next]_vars
  PROVE  TypeOK'
<1> USE DEF RunInv
<1>1. CASE UNCHANGED vars
  BY <1>1 DEF TypeOK, vars
<1>2. CASE begin_run_fenced
  <2>1. run' \in 0..MaxRuns /\ run + 1 \in Runs /\ pending' \subseteq Repos
    BY <1>2, BoundsAssumption DEF TypeOK, begin_run_fenced, StartsRun, Runs
  <2> QED BY <1>2, <2>1 DEF TypeOK, begin_run_fenced, jobVars, runVars, history, Outcomes
<1>3. CASE begin_run
  <2>1. run' \in 0..MaxRuns /\ pending' \subseteq Repos
    BY <1>3, BoundsAssumption DEF TypeOK, begin_run, StartsRun
  <2> QED BY <1>3, <2>1 DEF TypeOK, begin_run, jobVars, runVars, history, Places
<1>4. CASE set_active_batch_tracker
  <2>1. Cardinality(pending) \in Nat
    BY BoundsAssumption, FS_Subset, FS_CardinalityType DEF TypeOK
  <2> QED BY <1>4, <2>1 DEF TypeOK, set_active_batch_tracker, jobVars, history, Places, Phases
<1>5. CASE install_owner
  BY <1>5 DEF TypeOK, install_owner, jobVars, history, Places, Phases
<1>6. ASSUME NEW acc \in SUBSET Repos, enqueue_batch(acc)
      PROVE  TypeOK'
  <2>1. Cardinality(pending) - Cardinality(acc) \in Nat
    BY <1>6, TakenCount DEF enqueue_batch
  <2>2. tracker' \in [Runs -> Nat]
    BY <1>6, <2>1, RetireCounts DEF TypeOK, enqueue_batch, Phases
  <2>3. queued' \subseteq Job
    BY <1>6 DEF TypeOK, enqueue_batch, Phases, Job
  <2> QED BY <1>6, <2>2, <2>3 DEF TypeOK, enqueue_batch, Places, Phases
<1>7. CASE check_admission
  BY <1>7, DrainCounts DEF TypeOK, check_admission, jobVars, history, Places, Phases
<1>8. CASE retire_batch
  BY <1>8 DEF TypeOK, retire_batch, jobVars, history, Places, Outcomes, Phases
<1>9. CASE conclude
  BY <1>9 DEF TypeOK, conclude, Conclusion, jobVars, runVars, history, Places, Outcomes, Phases
<1>10. CASE sweep_timeout
  BY <1>10 DEF TypeOK, sweep_timeout, jobVars, runVars, history, Places, Outcomes, Phases
<1>11. CASE delivery_exits
  BY <1>11, ReceivesTakesOne DEF TypeOK, delivery_exits, Receives, runVars, collectorVars
<1>12. CASE discard
  BY <1>12, ReceivesTakesOne DEF TypeOK, discard, Receives, runVars, collectorVars
<1>13. CASE Delivered \/ Unpersisted
  <2>1. Receives /\ CountsDown
    BY <1>13 DEF Delivered, Unpersisted, Persists
  <2>2. Scheduled => scheduled_run \in Runs /\ Next_outcome.run = scheduled_run
    BY <1>13, <2>1, ReceivesTakesOne
       DEF Scheduled, Delivered, Unpersisted, Persists, Owned
  <2>3. tracker' \in [Runs -> Nat] /\ delivered' \in [Runs -> SUBSET Repos]
    <3>1. CASE Scheduled
      <4>1. retire(tracker, scheduled_run, 1) \in [Runs -> Nat]
        BY <3>1, <2>2, RetireCounts DEF TypeOK
      <4>2. Next_outcome.run \in Runs /\ Next_outcome.key \in Repos
        BY <3>1, <2>1, <2>2, ReceivesTakesOne
      <4>3. delivered \in [Runs -> SUBSET Repos]
        BY DEF TypeOK
      <4>4. /\ tracker' = retire(tracker, scheduled_run, 1)
            /\ delivered' = [delivered EXCEPT ![Next_outcome.run] = @ \cup {Next_outcome.key}]
        BY <3>1, <2>1 DEF CountsDown
      <4> QED BY <4>1, <4>2, <4>3, <4>4
    <3> QED BY <3>1, <2>1 DEF TypeOK, CountsDown
  <2>4. failure' \in [Runs -> BOOLEAN]
    BY <1>13, <2>2 DEF TypeOK, Delivered, Unpersisted
  <2> QED BY <1>13, <2>1, <2>3, <2>4, ReceivesTakesOne
         DEF TypeOK, Delivered, Unpersisted, Persists, Receives, runVars, collectorVars, Owned
<1>14. CASE Fenced
  BY <1>14, ReceivesTakesOne, DrainCounts
     DEF TypeOK, Fenced, Persists, Receives, runVars, collectorVars
<1>15. CASE ReconciliationRequired
  BY <1>15, ReceivesTakesOne, DrainCounts
     DEF TypeOK, ReconciliationRequired, Persists, Receives, runVars, collectorVars
<1>16. ASSUME NEW j \in Job, Dequeue(j)
       PROVE  TypeOK'
  BY <1>16 DEF TypeOK, Dequeue, runVars, collectorVars, history
<1>17. ASSUME NEW j \in Job, Finish(j)
       PROVE  TypeOK'
  BY <1>17, ChannelAppend DEF TypeOK, Finish, runVars, collectorVars, history
<1>18. ASSUME NEW k \in Repos, execute_enqueue(k)
       PROVE  TypeOK'
  BY <1>18, BoundsAssumption DEF TypeOK, execute_enqueue, runVars, collectorVars, history, Job
<1>19. CASE admitted_write_stops
  BY <1>19 DEF TypeOK, admitted_write_stops, jobVars, runVars, collectorVars, history
<1>20. CASE admitted_write_drains
  BY <1>20, DrainCounts DEF TypeOK, admitted_write_drains, jobVars, collectorVars, history
<1> QED
  BY <1>1, <1>2, <1>3, <1>4, <1>5, <1>6, <1>7, <1>8, <1>9, <1>10, <1>11, <1>12,
     <1>13, <1>14, <1>15, <1>16, <1>17, <1>18, <1>19, <1>20
     DEF Next, Collect, Publish, Deliver, Work

(***************************************************************************)
(* Which steps the control state of the collector can see: the workers and *)
(* the producers of webhook jobs change nothing but the jobs, and the      *)
(* delivery task works without the collector, outside the gate.            *)
(***************************************************************************)
WorkStep ==
  UNCHANGED <<gate, admission, draining, run_fence, runVars, collectorVars, history>>

DeliveryStep ==
  /\ ~gate /\ UNCHANGED <<gate, draining, scheduled_run, batch_tracker, collectorVars, accepted>>
  /\ admission' \in {admission, "stopped"}
  /\ \/ UNCHANGED <<run_fence, fenced>>
     \/ /\ run_fence' = TRUE
        /\ fenced' = IF scheduled_run = NoRun THEN fenced ELSE fenced \cup {scheduled_run}

LEMMA StepKinds ==
  ASSUME [Next]_vars
  PROVE  \/ Publish \/ retire_batch \/ conclude \/ sweep_timeout
         \/ DeliveryStep \/ WorkStep
         \/ admitted_write_stops \/ admitted_write_drains
<1>1. CASE UNCHANGED vars
  BY <1>1 DEF vars, WorkStep, runVars, collectorVars, history
<1>2. CASE delivery_exits \/ discard
  BY <1>2 DEF delivery_exits, discard, Receives, runVars, collectorVars, DeliveryStep
<1>3. CASE Delivered \/ Unpersisted
  BY <1>3 DEF Delivered, Unpersisted, Persists, Receives, runVars, collectorVars, DeliveryStep
<1>4. CASE Fenced
  BY <1>4 DEF Fenced, Persists, Receives, runVars, collectorVars, DeliveryStep
<1>5. CASE ReconciliationRequired
  BY <1>5 DEF ReconciliationRequired, Persists, Receives, runVars, collectorVars, DeliveryStep
<1>6. CASE Work
  BY <1>6 DEF Work, Dequeue, Finish, WorkStep, runVars, collectorVars, history
<1>7. CASE \E k \in Repos : execute_enqueue(k)
  BY <1>7 DEF execute_enqueue, WorkStep, runVars, collectorVars, history
<1> QED BY <1>1, <1>2, <1>3, <1>4, <1>5, <1>6, <1>7 DEF Next, Collect, Deliver

(***************************************************************************)
(* A run that starts is new, and no run is installed that was not dropped. *)
(***************************************************************************)
LEMMA StartsFresh ==
  ASSUME RunInv, StartsRun
  PROVE  /\ pc = "idle" /\ ~gate /\ run \in Nat
         /\ run' = run + 1 /\ run + 1 \in Runs
         /\ outcome[run + 1] = "none" /\ accepted[run + 1] = {} /\ run + 1 \notin fenced
         /\ scheduled_run # run + 1
         /\ scheduled_run \in Runs => outcome[scheduled_run] = "timed_out"
<1>1. pc = "idle" /\ ~gate /\ run \in Nat /\ run' = run + 1 /\ run + 1 \in Runs
  BY BoundsAssumption DEF RunInv, TypeOK, StartsRun, Runs
<1>2. outcome[run + 1] = "none" /\ accepted[run + 1] = {} /\ run + 1 \notin fenced
  BY <1>1 DEF RunInv, NoTrace, Unpublished
<1>3. scheduled_run \in Runs => outcome[scheduled_run] = "timed_out"
  BY <1>1 DEF RunInv, Ownership
<1> QED BY <1>1, <1>2, <1>3

(***************************************************************************)
(* The gate, the phases of the collector and the stopped admission.        *)
(***************************************************************************)
LEMMA PhasesStep ==
  ASSUME RunInv, [Next]_vars
  PROVE  Phases'
<1> USE DEF RunInv, Phases
<1>1. CASE begin_run_fenced \/ begin_run
  BY <1>1, BoundsAssumption DEF TypeOK, begin_run_fenced, begin_run, StartsRun, Runs
<1>2. CASE set_active_batch_tracker \/ install_owner
  BY <1>2 DEF set_active_batch_tracker, install_owner
<1>3. CASE \E acc \in SUBSET Repos : enqueue_batch(acc)
  BY <1>3 DEF enqueue_batch
<1>4. CASE check_admission
  BY <1>4 DEF check_admission
<1>5. CASE retire_batch
  BY <1>5 DEF retire_batch
<1>6. CASE conclude \/ sweep_timeout
  BY <1>6 DEF conclude, sweep_timeout
<1>7. CASE DeliveryStep
  BY <1>7 DEF DeliveryStep, collectorVars
<1>8. CASE WorkStep
  BY <1>8 DEF WorkStep, collectorVars
<1>9. CASE admitted_write_stops \/ admitted_write_drains
  BY <1>9 DEF admitted_write_stops, admitted_write_drains, collectorVars
<1> QED BY <1>1, <1>2, <1>3, <1>4, <1>5, <1>6, <1>7, <1>8, <1>9, StepKinds DEF Publish

LEMMA OwnershipStep ==
  ASSUME RunInv, [Next]_vars
  PROVE  Ownership' /\ OwnershipKept'
<1> USE DEF RunInv, Ownership, OwnershipKept
<1>1. CASE begin_run_fenced \/ begin_run
  <2>1. StartsRun
    BY <1>1 DEF begin_run_fenced, begin_run
  <2> QED BY <1>1, <2>1, StartsFresh DEF TypeOK, begin_run_fenced, begin_run, runVars
<1>2. CASE set_active_batch_tracker \/ install_owner
  BY <1>2 DEF set_active_batch_tracker, install_owner
<1>3. CASE \E acc \in SUBSET Repos : enqueue_batch(acc)
  BY <1>3 DEF enqueue_batch
<1>4. CASE check_admission
  BY <1>4 DEF check_admission
<1>5. CASE retire_batch
  BY <1>5, NamesDiffer DEF retire_batch, Owner, TypeOK
<1>6. CASE conclude
  BY <1>6, NamesDiffer DEF conclude, Conclusion, TypeOK, runVars, Phases
<1>7. CASE sweep_timeout
  BY <1>7, NamesDiffer DEF sweep_timeout, TypeOK, runVars, Phases
<1>8. CASE DeliveryStep
  BY <1>8 DEF DeliveryStep, collectorVars
<1>9. CASE WorkStep
  BY <1>9 DEF WorkStep, runVars, collectorVars
<1>10. CASE admitted_write_stops \/ admitted_write_drains
  BY <1>10 DEF admitted_write_stops, admitted_write_drains, runVars, collectorVars
<1> QED BY <1>1, <1>2, <1>3, <1>4, <1>5, <1>6, <1>7, <1>8, <1>9, <1>10, StepKinds DEF Publish

LEMMA NoTraceStep ==
  ASSUME RunInv, [Next]_vars
  PROVE  NoTrace'
<1> USE DEF RunInv, NoTrace, Unpublished
<1>1. CASE begin_run_fenced \/ begin_run
  <2>1. StartsRun
    BY <1>1 DEF begin_run_fenced, begin_run
  <2>2. UNCHANGED history /\ \A r \in Runs : r # run + 1 => outcome'[r] = outcome[r]
    BY <1>1 DEF TypeOK, begin_run_fenced, begin_run
  <2>3. pc' \in {"idle", "gated"} /\ (pc' = "gated" => outcome' = outcome)
    BY <1>1, <2>1, StartsFresh DEF begin_run_fenced, begin_run
  <2> QED BY <2>1, <2>2, <2>3, StartsFresh DEF history, Runs
<1>2. CASE set_active_batch_tracker \/ install_owner
  BY <1>2 DEF set_active_batch_tracker, install_owner, history
<1>3. CASE \E acc \in SUBSET Repos : enqueue_batch(acc)
  BY <1>3 DEF enqueue_batch, TypeOK, Phases, Runs
<1>4. CASE check_admission
  BY <1>4 DEF check_admission, history
<1>5. CASE retire_batch
  BY <1>5 DEF retire_batch, TypeOK, Runs, history
<1>6. CASE conclude \/ sweep_timeout
  <2>1. /\ pc \in {"waiting", "retired"} /\ pc' = "idle"
        /\ UNCHANGED <<run, accepted, fenced>>
        /\ \A r \in Runs : r # run => outcome'[r] = outcome[r]
    BY <1>6 DEF conclude, sweep_timeout, TypeOK, history
  <2>2. run \in Nat
    BY DEF TypeOK
  <2> QED BY <2>1, <2>2 DEF Runs
<1>7. CASE DeliveryStep
  BY <1>7, NamesDiffer DEF DeliveryStep, collectorVars, TypeOK, Phases, Ownership, Runs
<1>8. CASE WorkStep
  BY <1>8 DEF WorkStep, collectorVars, history
<1>9. CASE admitted_write_stops \/ admitted_write_drains
  BY <1>9 DEF admitted_write_stops, admitted_write_drains, collectorVars, history
<1> QED BY <1>1, <1>2, <1>3, <1>4, <1>5, <1>6, <1>7, <1>8, <1>9, StepKinds DEF Publish

LEMMA FenceLatchedStep ==
  ASSUME RunInv, [Next]_vars
  PROVE  FenceLatched'
<1> USE DEF RunInv, FenceLatched
<1>1. CASE begin_run_fenced \/ begin_run
  <2>1. StartsRun
    BY <1>1 DEF begin_run_fenced, begin_run
  <2>2. UNCHANGED <<scheduled_run, fenced>>
    BY <1>1 DEF begin_run_fenced, begin_run, runVars, history
  <2>3. \A r \in Runs : r # run + 1 => outcome'[r] = outcome[r]
    BY <1>1 DEF TypeOK, begin_run_fenced, begin_run
  <2> QED BY <2>1, <2>2, <2>3, StartsFresh DEF TypeOK
<1>2. CASE set_active_batch_tracker \/ install_owner
  BY <1>2 DEF set_active_batch_tracker, install_owner, history, NoTrace, Unpublished,
     TypeOK, Phases
<1>3. CASE \E acc \in SUBSET Repos : enqueue_batch(acc)
  BY <1>3 DEF enqueue_batch
<1>4. CASE check_admission
  BY <1>4 DEF check_admission, history
<1>5. CASE retire_batch
  BY <1>5, NamesDiffer DEF retire_batch, TypeOK, Owner, Ownership, history
<1>6. CASE conclude \/ sweep_timeout
  BY <1>6, NamesDiffer DEF conclude, sweep_timeout, TypeOK, runVars, history, Ownership, Phases
<1>7. CASE DeliveryStep
  BY <1>7 DEF DeliveryStep, collectorVars
<1>8. CASE WorkStep
  BY <1>8 DEF WorkStep, runVars, collectorVars, history
<1>9. CASE admitted_write_stops \/ admitted_write_drains
  BY <1>9 DEF admitted_write_stops, admitted_write_drains, runVars, collectorVars, history
<1> QED BY <1>1, <1>2, <1>3, <1>4, <1>5, <1>6, <1>7, <1>8, <1>9, StepKinds DEF Publish

-----------------------------------------------------------------------------
(***************************************************************************)
(* A job is the record of its key and its run.                             *)
(***************************************************************************)
LEMMA JobIsRecord ==
  ASSUME NEW j \in Job
  PROVE  j = [key |-> j.key, run |-> j.run]
BY DEF Job

(***************************************************************************)
(* Receiving takes the first outcome, and only that, off its way.          *)
(***************************************************************************)
LEMMA ReceivesOnce ==
  ASSUME RunInv, Receives, NEW r \in Runs, NEW k \in Repos
  PROVE  /\ JobOnce(r, k)
         /\ \A i \in DOMAIN channel' : channel'[i] = [key |-> k, run |-> r] =>
              \E h \in DOMAIN channel : channel[h] = [key |-> k, run |-> r]
         /\ \A h, i \in DOMAIN channel' :
              channel'[h] = [key |-> k, run |-> r] /\ channel'[i] = [key |-> k, run |-> r]
                => h = i
         /\ OnTheWay(r, k)' => OnTheWay(r, k)
         /\ Next_outcome = [key |-> k, run |-> r] => OnTheWay(r, k) /\ ~OnTheWay(r, k)'
         /\ Next_outcome # [key |-> k, run |-> r] /\ OnTheWay(r, k) => OnTheWay(r, k)'
<1> DEFINE j == [key |-> k, run |-> r]
<1>1. /\ channel \in Seq(Job) /\ channel # <<>> /\ channel' = Tail(channel)
      /\ UNCHANGED <<queued, executing>>
  BY DEF RunInv, TypeOK, Receives
<1>2. JobOnce(r, k)
  BY DEF RunInv, JobsOnce
<1>3. /\ ~(j \in queued /\ j \in executing)
      /\ \A i \in DOMAIN channel : channel[i] = j => j \notin queued /\ j \notin executing
      /\ \A h, i \in DOMAIN channel : channel[h] = j /\ channel[i] = j => h = i
  BY <1>2 DEF JobOnce
<1>4. /\ Next_outcome = channel[1] /\ 1 \in DOMAIN channel
      /\ DOMAIN channel' \subseteq Nat \ {0} /\ DOMAIN channel \subseteq Nat \ {0}
      /\ \A i \in DOMAIN channel' : i + 1 \in DOMAIN channel /\ channel'[i] = channel[i + 1]
      /\ \A i \in DOMAIN channel : i = 1 \/ (i - 1 \in DOMAIN channel'
                                             /\ channel'[i - 1] = channel[i])
  BY <1>1, ChannelTail, LenProperties DEF Next_outcome
<1> HIDE DEF j
<1>5. \A i \in DOMAIN channel' : channel'[i] = j => \E h \in DOMAIN channel : channel[h] = j
  BY <1>4
<1>6. \A h, i \in DOMAIN channel' : channel'[h] = j /\ channel'[i] = j => h = i
  BY <1>3, <1>4
<1>7. Next_outcome = j =>
        /\ j \notin queued /\ j \notin executing
        /\ \A i \in DOMAIN channel' : channel'[i] # j
  <2> SUFFICES ASSUME channel[1] = j
               PROVE  /\ j \notin queued /\ j \notin executing
                      /\ \A i \in DOMAIN channel' : channel'[i] # j
    BY <1>4
  <2>1. j \notin queued /\ j \notin executing
    BY <1>3, <1>4
  <2>2. ASSUME NEW i \in DOMAIN channel', channel'[i] = j
        PROVE  FALSE
    <3>1. i \in Nat \ {0} /\ i + 1 \in DOMAIN channel /\ channel[i + 1] = j
      BY <2>2, <1>4
    <3>2. i + 1 = 1
      BY <3>1, <1>3, <1>4
    <3> QED BY <3>1, <3>2
  <2> QED BY <2>1, <2>2
<1>8. Next_outcome # j =>
        \A h \in DOMAIN channel : channel[h] = j => \E i \in DOMAIN channel' : channel'[i] = j
  BY <1>4
<1>9. /\ OnTheWay(r, k) <=> \/ j \in queued \/ j \in executing
                            \/ \E i \in DOMAIN channel : channel[i] = j
      /\ OnTheWay(r, k)' <=> \/ j \in queued' \/ j \in executing'
                             \/ \E i \in DOMAIN channel' : channel'[i] = j
  BY DEF OnTheWay, j
<1>10. /\ OnTheWay(r, k)' => OnTheWay(r, k)
       /\ Next_outcome = j => OnTheWay(r, k) /\ ~OnTheWay(r, k)'
       /\ Next_outcome # j /\ OnTheWay(r, k) => OnTheWay(r, k)'
  BY <1>1, <1>4, <1>5, <1>7, <1>8, <1>9
<1> QED BY <1>2, <1>5, <1>6, <1>10 DEF j

(***************************************************************************)
(* The delivery task either counts an outcome of the owner down, or        *)
(* records nothing: it then drops what is not the owner's, or the run is   *)
(* over.                                                                   *)
(***************************************************************************)
Counts ==
  /\ Persists /\ CountsDown
  /\ UNCHANGED <<admission, run_fence, scheduled_run, fenced>>
  /\ \A r \in Runs : r # scheduled_run => failure'[r] = failure[r]

RecordsNothing ==
  /\ Receives
  /\ UNCHANGED <<delivered, failure, scheduled_run>>
  /\ \/ ~Owned(Next_outcome) /\ UNCHANGED <<tracker, admission, run_fence, fenced>>
     \/ run_fence /\ UNCHANGED <<tracker, run_fence, fenced, admission>>
     \/ admission' = "stopped" /\ UNCHANGED <<run_fence, fenced>>
     \/ run_fence' /\ ~run_fence

LEMMA DeliveryKinds ==
  ASSUME TypeOK, Deliver
  PROVE  Counts \/ RecordsNothing
<1>1. CASE delivery_exits
  BY <1>1 DEF delivery_exits, RecordsNothing, runVars
<1>2. CASE discard
  BY <1>2 DEF discard, RecordsNothing, runVars
<1>3. CASE Delivered
  BY <1>3 DEF Delivered, Counts
<1>4. CASE Unpersisted
  <2>1. \A r \in Runs : r # scheduled_run => failure'[r] = failure[r]
    BY <1>4 DEF Unpersisted, TypeOK
  <2> QED BY <1>4, <2>1 DEF Unpersisted, Counts
<1>5. CASE Fenced
  BY <1>5 DEF Fenced, Persists, RecordsNothing
<1>6. CASE ReconciliationRequired
  BY <1>6 DEF ReconciliationRequired, Persists, RecordsNothing
<1> QED BY <1>1, <1>2, <1>3, <1>4, <1>5, <1>6 DEF Deliver

(***************************************************************************)
(* Counting down delivers a job of the owner that was on its way, once.    *)
(***************************************************************************)
LEMMA CountsOne ==
  ASSUME RunInv, Counts, Scheduled
  PROVE  LET r == scheduled_run
             k == Next_outcome.key
         IN /\ r \in Runs /\ k \in Repos
            /\ Next_outcome = [key |-> k, run |-> r]
            /\ k \in accepted[r] /\ k \notin delivered[r]
            /\ delivered' = [delivered EXCEPT ![r] = @ \cup {k}]
            /\ tracker' = retire(tracker, r, 1)
<1>1. Receives /\ TypeOK /\ Owned(Next_outcome)
  BY DEF Counts, Persists, RunInv
<1>2. /\ Next_outcome \in Job /\ Next_outcome.key \in Repos
      /\ Next_outcome.run = scheduled_run /\ scheduled_run \in Runs
  BY <1>1, ReceivesTakesOne DEF Owned, Scheduled
<1>3. Next_outcome = [key |-> Next_outcome.key, run |-> scheduled_run]
  BY <1>2, JobIsRecord
<1>4. JobOnce(scheduled_run, Next_outcome.key) /\ OnTheWay(scheduled_run, Next_outcome.key)
  BY <1>1, <1>2, <1>3, ReceivesOnce
<1> QED BY <1>2, <1>3, <1>4 DEF Counts, CountsDown, JobOnce

(***************************************************************************)
(* Jobs: one lemma per kind of step that moves them.                       *)
(***************************************************************************)
LEMMA EnqueueKeepsJobsOnce ==
  ASSUME RunInv, NEW acc \in SUBSET Repos, enqueue_batch(acc)
  PROVE  JobsOnce'
<1>1. /\ queued' = queued \cup {[key |-> k, run |-> run] : k \in acc}
      /\ accepted' = [accepted EXCEPT ![run] = acc]
      /\ UNCHANGED <<executing, channel, delivered>>
      /\ run \in Runs
  BY DEF enqueue_batch, RunInv, Phases
<1>2. accepted[run] = {} /\ delivered[run] = {}
  BY <1>1 DEF enqueue_batch, RunInv, NoTrace, Unpublished, JobsOnce
<1>3. accepted' \in [Runs -> SUBSET Repos] /\ accepted'[run] = acc
      /\ \A r \in Runs : r # run => accepted'[r] = accepted[r]
  BY <1>1 DEF RunInv, TypeOK
<1>4. \A k \in Repos : ~OnTheWay(run, k)
  BY <1>1, <1>2 DEF RunInv, JobsOnce, JobOnce
<1>5. ASSUME NEW r \in Runs, NEW k \in Repos
      PROVE  JobOnce(r, k)'
  <2>1. CASE r = run
    <3>1. /\ [key |-> k, run |-> r] \notin executing
          /\ \A i \in DOMAIN channel : channel[i] # [key |-> k, run |-> r]
          /\ [key |-> k, run |-> r] \notin queued
      BY <1>4, <2>1 DEF OnTheWay
    <3>2. [key |-> k, run |-> r] \in queued' => k \in acc
      BY <1>1, <3>1
    <3> QED BY <1>1, <1>2, <1>3, <2>1, <3>1, <3>2 DEF JobOnce, OnTheWay
  <2>2. CASE r # run
    <3>1. [key |-> k, run |-> r] \in queued' <=> [key |-> k, run |-> r] \in queued
      BY <1>1, <2>2
    <3>2. JobOnce(r, k)
      BY DEF RunInv, JobsOnce
    <3> QED BY <1>1, <1>3, <2>2, <3>1, <3>2 DEF JobOnce, OnTheWay
  <2> QED BY <2>1, <2>2
<1>6. \A r \in Runs : delivered'[r] \subseteq accepted'[r]
  BY <1>1, <1>2, <1>3 DEF RunInv, JobsOnce
<1> QED BY <1>5, <1>6 DEF JobsOnce

LEMMA WorkKeepsJobsOnce ==
  ASSUME RunInv, Work \/ \E k \in Repos : execute_enqueue(k)
  PROVE  JobsOnce'
<1>1. UNCHANGED <<accepted, delivered>>
  BY DEF Work, Dequeue, Finish, execute_enqueue, history
<1>2. SUFFICES ASSUME NEW r \in Runs, NEW k \in Repos PROVE JobOnce(r, k)'
  BY <1>1 DEF RunInv, JobsOnce
<1>3. JobOnce(r, k)
  BY DEF RunInv, JobsOnce
<1>4. ASSUME NEW j \in Job, Dequeue(j)
      PROVE  JobOnce(r, k)'
  BY <1>1, <1>3, <1>4 DEF JobOnce, OnTheWay, Dequeue
<1>5. ASSUME NEW j \in Job, Finish(j)
      PROVE  JobOnce(r, k)'
  <2>1. channel \in Seq(Job) /\ channel' = Append(channel, j)
    BY <1>5 DEF RunInv, TypeOK, Finish
  <2>2. /\ \A i \in DOMAIN channel : i \in DOMAIN channel' /\ channel'[i] = channel[i]
        /\ \A i \in DOMAIN channel' :
             (i \in DOMAIN channel /\ channel'[i] = channel[i]) \/ (i = Len(channel) + 1
                                                                /\ channel'[i] = j)
    BY <2>1, ChannelAppend
  <2>3. j \in executing /\ executing' = executing \ {j} /\ queued' = queued
    BY <1>5 DEF Finish
  <2> QED BY <1>1, <1>3, <2>2, <2>3 DEF JobOnce, OnTheWay
<1>6. ASSUME NEW x \in Repos, execute_enqueue(x)
      PROVE  JobOnce(r, k)'
  <2>1. [key |-> k, run |-> r] # [key |-> x, run |-> External]
    BY NamesDiffer
  <2> QED BY <1>1, <1>3, <1>6, <2>1 DEF JobOnce, OnTheWay, execute_enqueue
<1> QED BY <1>4, <1>5, <1>6 DEF Work

LEMMA DeliveryKeepsJobsOnce ==
  ASSUME RunInv, Deliver
  PROVE  JobsOnce'
<1>1. Receives /\ accepted' = accepted
  BY DEF Deliver, delivery_exits, discard, Delivered, Unpersisted, Fenced,
     ReconciliationRequired, Persists, Receives
<1>2. UNCHANGED <<queued, executing>>
  BY <1>1 DEF Receives
<1>3. CASE delivered' = delivered
  <2>1. ASSUME NEW r \in Runs, NEW k \in Repos
        PROVE  JobOnce(r, k)'
    BY <1>1, <1>2, <1>3, ReceivesOnce DEF JobOnce
  <2> QED BY <1>1, <1>3, <2>1 DEF RunInv, JobsOnce
<1>4. CASE Counts /\ Scheduled
  <2> DEFINE d == scheduled_run
             c == Next_outcome.key
  <2>1. /\ d \in Runs /\ c \in Repos /\ c \in accepted[d]
        /\ Next_outcome = [key |-> c, run |-> d]
        /\ delivered' = [delivered EXCEPT ![d] = @ \cup {c}]
    BY <1>4, CountsOne
  <2>2. delivered \in [Runs -> SUBSET Repos]
    BY DEF RunInv, TypeOK
  <2> HIDE DEF d, c
  <2>3. \A r \in Runs, k \in Repos :
          k \in delivered'[r] => k \in delivered[r] \/ (r = d /\ k = c)
    BY <2>1, <2>2
  <2>4. \A r \in Runs : delivered'[r] \subseteq accepted'[r]
    BY <1>1, <2>1, <2>2 DEF RunInv, JobsOnce
  <2>5. ASSUME NEW r \in Runs, NEW k \in Repos
        PROVE  JobOnce(r, k)'
    <3>1. OnTheWay(r, k)' => k \in accepted[r] /\ k \notin delivered[r] /\ ~(r = d /\ k = c)
      BY <1>1, <2>1, ReceivesOnce DEF JobOnce
    <3>2. OnTheWay(r, k)' => k \in accepted'[r] /\ k \notin delivered'[r]
      BY <1>1, <2>3, <3>1
    <3> QED BY <1>1, <1>2, <3>2, ReceivesOnce DEF JobOnce
  <2> QED BY <2>4, <2>5 DEF JobsOnce
<1>5. Counts /\ ~Scheduled => delivered' = delivered
  BY DEF Counts, CountsDown
<1> QED BY <1>3, <1>4, <1>5, DeliveryKinds DEF RecordsNothing, RunInv

LEMMA JobsOnceStep ==
  ASSUME RunInv, [Next]_vars
  PROVE  JobsOnce'
<1>1. CASE UNCHANGED <<queued, executing, channel, accepted, delivered>>
  BY <1>1 DEF RunInv, JobsOnce, JobOnce, OnTheWay
<1>2. CASE \E acc \in SUBSET Repos : enqueue_batch(acc)
  BY <1>2, EnqueueKeepsJobsOnce
<1>3. CASE Work \/ \E k \in Repos : execute_enqueue(k)
  BY <1>3, WorkKeepsJobsOnce
<1>4. CASE Deliver
  BY <1>4, DeliveryKeepsJobsOnce
<1>5. UNCHANGED vars => UNCHANGED <<queued, executing, channel, accepted, delivered>>
  BY DEF vars
<1>6. begin_run_fenced \/ begin_run \/ set_active_batch_tracker \/ install_owner
        => UNCHANGED <<queued, executing, channel, accepted, delivered>>
  BY DEF begin_run_fenced, begin_run, set_active_batch_tracker, install_owner, jobVars, history
<1>7. check_admission \/ retire_batch \/ conclude \/ sweep_timeout
        => UNCHANGED <<queued, executing, channel, accepted, delivered>>
  BY DEF check_admission, retire_batch, conclude, sweep_timeout, jobVars, history
<1>8. admitted_write_stops \/ admitted_write_drains
        => UNCHANGED <<queued, executing, channel, accepted, delivered>>
  BY DEF admitted_write_stops, admitted_write_drains, jobVars, history
<1> QED
  BY <1>1, <1>2, <1>3, <1>4, <1>5, <1>6, <1>7, <1>8 DEF Next, Collect, Publish

-----------------------------------------------------------------------------
(***************************************************************************)
(* The countdown: what enqueueing sets, and what delivering takes off.     *)
(***************************************************************************)
LEMMA EnqueueCounts ==
  ASSUME RunInv, NEW acc \in SUBSET Repos, enqueue_batch(acc)
  PROVE  Countdown'
<1>1. /\ pc = "owned" /\ pc' = "published" /\ Taken(acc) /\ run \in Runs
      /\ queued' = queued \cup {[key |-> k, run |-> run] : k \in acc}
      /\ accepted' = [accepted EXCEPT ![run] = acc]
      /\ tracker' = retire(tracker, run, Cardinality(pending) - Cardinality(acc))
      /\ UNCHANGED <<run_fence, admission, run, delivered>>
  BY DEF enqueue_batch, RunInv, Phases
<1> SUFFICES ASSUME ~run_fence, admission = "open"
             PROVE  /\ tracker'[run] = Cardinality(accepted'[run] \ delivered'[run])
                    /\ \A k \in accepted'[run] \ delivered'[run] : OnTheWay(run, k)'
  BY <1>1 DEF Countdown
<1>2. delivered[run] = {} /\ accepted'[run] = acc
  BY <1>1 DEF RunInv, NoTrace, Unpublished, JobsOnce, TypeOK
<1>3. accepted'[run] \ delivered'[run] = acc
  BY <1>1, <1>2
<1>4. tracker[run] = Cardinality(pending)
  BY <1>1 DEF RunInv, Countdown
<1>5. tracker'[run] = Cardinality(acc)
  <2>1. /\ Cardinality(pending) \in Nat /\ Cardinality(acc) \in Nat
        /\ Cardinality(pending) - Cardinality(acc) \in Nat
    BY <1>1, TakenCount DEF RunInv
  <2>2. tracker \in [Runs -> Nat]
    BY DEF RunInv, TypeOK
  <2>3. tracker'[run] = IF tracker[run] > Cardinality(pending) - Cardinality(acc)
                        THEN tracker[run] - (Cardinality(pending) - Cardinality(acc)) ELSE 0
    BY <1>1, <2>1, <2>2, RetireCounts
  <2> QED BY <1>4, <2>1, <2>3
<1>6. \A k \in acc : OnTheWay(run, k)'
  BY <1>1 DEF OnTheWay
<1> QED BY <1>3, <1>5, <1>6

LEMMA DeliveryCounts ==
  ASSUME RunInv, Deliver
  PROVE  Countdown'
<1>1. Receives /\ ~gate /\ UNCHANGED <<pc, run, accepted>>
  BY DEF Deliver, delivery_exits, discard, Delivered, Unpersisted, Fenced,
     ReconciliationRequired, Persists, Receives, collectorVars
<1>2. SUFFICES ASSUME pc = "waiting", ~run_fence', admission' = "open"
               PROVE  /\ tracker'[run] = Cardinality(accepted[run] \ delivered'[run])
                      /\ \A k \in accepted[run] \ delivered'[run] : OnTheWay(run, k)'
  BY <1>1 DEF Countdown, RunInv, Phases
<1>3. run \in Runs /\ scheduled_run = run
  BY <1>2 DEF RunInv, Phases, Ownership
<1>4. ~run_fence /\ admission = "open"
  <2>1. CASE Counts
    BY <1>2, <2>1 DEF Counts
  <2>2. CASE RecordsNothing
    BY <1>2, <1>1, <2>2 DEF RecordsNothing, Deliver, delivery_exits, discard, Fenced,
       ReconciliationRequired, Delivered, Unpersisted, Persists
  <2> QED BY <2>1, <2>2, DeliveryKinds DEF RunInv
<1>5. /\ tracker[run] = Cardinality(accepted[run] \ delivered[run])
      /\ \A k \in accepted[run] \ delivered[run] : OnTheWay(run, k)
  BY <1>2, <1>4 DEF RunInv, Countdown
<1>6. accepted[run] \subseteq Repos
  BY <1>3 DEF RunInv, TypeOK
<1>7. CASE Counts /\ Scheduled
  <2> DEFINE c == Next_outcome.key
             left == accepted[run] \ delivered[run]
  <2>1. /\ Next_outcome = [key |-> c, run |-> run] /\ c \in left
        /\ delivered' = [delivered EXCEPT ![run] = @ \cup {c}]
        /\ tracker' = retire(tracker, run, 1)
    BY <1>3, <1>7, CountsOne
  <2>2. accepted[run] \ delivered'[run] = left \ {c}
    BY <1>3, <2>1 DEF RunInv, TypeOK
  <2>3. IsFiniteSet(left)
    BY <1>6, BoundsAssumption, FS_Subset
  <2>4. /\ Cardinality(left \ {c}) = Cardinality(left) - 1
        /\ Cardinality(left) \in Nat /\ Cardinality(left \ {c}) \in Nat
    BY <2>1, <2>3, FS_RemoveElement, FS_CardinalityType
  <2>5. tracker'[run] = IF tracker[run] > 1 THEN tracker[run] - 1 ELSE 0
    BY <1>3, <2>1, RetireCounts DEF RunInv, TypeOK
  <2>6. tracker'[run] = Cardinality(left \ {c})
    BY <1>5, <2>4, <2>5
  <2>7. ASSUME NEW k \in left \ {c}
        PROVE  OnTheWay(run, k)'
    <3>1. Next_outcome # [key |-> k, run |-> run]
      BY <2>1, <2>7
    <3> QED BY <1>1, <1>3, <1>5, <1>6, <2>7, <3>1, ReceivesOnce
  <2> QED BY <2>2, <2>6, <2>7
<1>8. ASSUME UNCHANGED <<tracker, delivered>>, Next_outcome.run # run
      PROVE  /\ tracker'[run] = Cardinality(accepted[run] \ delivered'[run])
             /\ \A k \in accepted[run] \ delivered'[run] : OnTheWay(run, k)'
  <2>1. \A k \in Repos : Next_outcome # [key |-> k, run |-> run]
    BY <1>8
  <2> QED BY <1>1, <1>3, <1>5, <1>6, <1>8, <2>1, ReceivesOnce
<1>9. Counts /\ ~Scheduled => UNCHANGED <<tracker, delivered>> /\ Next_outcome.run # run
  BY <1>3, NamesDiffer DEF Counts, CountsDown, Scheduled
<1>10. RecordsNothing => UNCHANGED <<tracker, delivered>> /\ Next_outcome.run # run
  BY <1>2, <1>3, <1>4 DEF RecordsNothing, Owned
<1> QED BY <1>7, <1>8, <1>9, <1>10, DeliveryKinds DEF RunInv

LEMMA WorkKeepsOnTheWay ==
  ASSUME RunInv, Work \/ \E k \in Repos : execute_enqueue(k),
         NEW r \in Runs, NEW k \in Repos, OnTheWay(r, k)
  PROVE  OnTheWay(r, k)'
<1>1. ASSUME NEW j \in Job, Dequeue(j)
      PROVE  OnTheWay(r, k)'
  BY <1>1 DEF OnTheWay, Dequeue
<1>2. ASSUME NEW j \in Job, Finish(j)
      PROVE  OnTheWay(r, k)'
  <2>1. channel \in Seq(Job) /\ channel' = Append(channel, j)
    BY <1>2 DEF RunInv, TypeOK, Finish
  <2>2. /\ \A i \in DOMAIN channel : i \in DOMAIN channel' /\ channel'[i] = channel[i]
        /\ Len(channel) + 1 \in DOMAIN channel' /\ channel'[Len(channel) + 1] = j
    BY <2>1, ChannelAppend
  <2> QED BY <1>2, <2>2 DEF OnTheWay, Finish
<1>3. ASSUME NEW x \in Repos, execute_enqueue(x)
      PROVE  OnTheWay(r, k)'
  BY <1>3 DEF OnTheWay, execute_enqueue
<1> QED BY <1>1, <1>2, <1>3 DEF Work

LEMMA CountdownStep ==
  ASSUME RunInv, [Next]_vars
  PROVE  Countdown'
<1>1. CASE pc' \notin {"tracked", "owned", "published", "waiting"}
  BY <1>1 DEF Countdown
<1>2. CASE set_active_batch_tracker
  BY <1>2 DEF set_active_batch_tracker, Countdown, RunInv, TypeOK, Phases
<1>3. CASE install_owner
  BY <1>3 DEF install_owner, Countdown, RunInv
<1>4. CASE \E acc \in SUBSET Repos : enqueue_batch(acc)
  BY <1>4, EnqueueCounts
<1>5. CASE check_admission
  BY <1>5 DEF check_admission, Countdown, OnTheWay, RunInv, jobVars, history
<1>6. CASE Deliver
  BY <1>6, DeliveryCounts
<1>7. CASE Work \/ \E k \in Repos : execute_enqueue(k)
  <2>1. UNCHANGED <<run_fence, admission, pc, run, pending, tracker, accepted, delivered>>
    BY <1>7 DEF Work, Dequeue, Finish, execute_enqueue, runVars, collectorVars, history
  <2>2. pc # "idle" => run \in Runs /\ accepted[run] \subseteq Repos
    BY DEF RunInv, TypeOK, Phases
  <2>3. \A r \in Runs, k \in Repos : OnTheWay(r, k) => OnTheWay(r, k)'
    BY <1>7, WorkKeepsOnTheWay
  <2>4. Countdown
    BY DEF RunInv
  <2> QED BY <2>1, <2>2, <2>3, <2>4 DEF Countdown, OnTheWay
<1>8. CASE admitted_write_stops \/ admitted_write_drains
  BY <1>8 DEF admitted_write_stops, admitted_write_drains, Countdown, RunInv, Phases
<1>9. CASE UNCHANGED vars
  BY <1>9 DEF vars, Countdown, OnTheWay, RunInv
<1>10. begin_run_fenced \/ begin_run \/ retire_batch \/ conclude \/ sweep_timeout
         => pc' \notin {"tracked", "owned", "published", "waiting"}
  BY DEF begin_run_fenced, begin_run, StartsRun, retire_batch, conclude, sweep_timeout
<1> QED
  BY <1>1, <1>2, <1>3, <1>4, <1>5, <1>6, <1>7, <1>8, <1>9, <1>10 DEF Next, Collect, Publish

-----------------------------------------------------------------------------
(***************************************************************************)
(* Nothing is recorded about a run that is not installed.                  *)
(***************************************************************************)
LEMMA OnlyOwnerIsWritten ==
  ASSUME RunInv, [Next]_vars, NEW r \in Runs, r # scheduled_run
  PROVE  /\ delivered'[r] = delivered[r]
         /\ failure'[r] = failure[r]
         /\ r \in fenced' => r \in fenced
<1>1. CASE Deliver
  <2>1. CASE Counts /\ Scheduled
    BY <2>1, CountsOne DEF Counts, RunInv, TypeOK
  <2>2. CASE Counts /\ ~Scheduled
    BY <2>2 DEF Counts, CountsDown
  <2>3. CASE RecordsNothing
    <3>1. UNCHANGED <<delivered, failure>>
      BY <2>3 DEF RecordsNothing
    <3>2. r \in fenced' => r \in fenced
      BY <1>1 DEF Deliver, delivery_exits, discard, Delivered, Unpersisted, Fenced,
         ReconciliationRequired, Persists
    <3> QED BY <3>1, <3>2
  <2> QED BY <1>1, <2>1, <2>2, <2>3, DeliveryKinds DEF RunInv
<1>2. CASE UNCHANGED <<delivered, failure, fenced>>
  BY <1>2
<1>3. begin_run_fenced \/ begin_run \/ set_active_batch_tracker \/ install_owner
        => UNCHANGED <<delivered, failure, fenced>>
  BY DEF begin_run_fenced, begin_run, set_active_batch_tracker, install_owner, runVars, history
<1>4. (\E acc \in SUBSET Repos : enqueue_batch(acc)) \/ check_admission \/ retire_batch
        => UNCHANGED <<delivered, failure, fenced>>
  BY DEF enqueue_batch, check_admission, retire_batch, history
<1>5. conclude \/ sweep_timeout \/ admitted_write_stops \/ admitted_write_drains
        => UNCHANGED <<delivered, failure, fenced>>
  BY DEF conclude, sweep_timeout, admitted_write_stops, admitted_write_drains, runVars, history
<1>6. Work \/ (\E k \in Repos : execute_enqueue(k)) \/ UNCHANGED vars
        => UNCHANGED <<delivered, failure, fenced>>
  BY DEF Work, Dequeue, Finish, execute_enqueue, runVars, history, vars
<1> QED BY <1>1, <1>2, <1>3, <1>4, <1>5, <1>6 DEF Next, Collect, Publish

(***************************************************************************)
(* A run is whole when it is retired unfenced under an open admission: the *)
(* barrier opened because the countdown reached zero.                      *)
(***************************************************************************)
LEMMA RetiredWholeStep ==
  ASSUME RunInv, [Next]_vars
  PROVE  RetiredWhole'
<1> SUFFICES ASSUME pc' = "retired", accepted'[run'] # {}, outcome'[run'] = "none",
                    admission' = "open"
             PROVE  delivered'[run'] = accepted'[run'] /\ run' \notin fenced'
  BY DEF RetiredWhole
<1>1. CASE retire_batch
  <2>1. /\ pc = "waiting" /\ UNCHANGED <<run, accepted, delivered, fenced, admission>>
        /\ accepted[run] = {} \/ tracker[run] = 0
        /\ outcome' = [outcome EXCEPT ![run] = IF ~Owner THEN "not_owner"
                                               ELSE IF run_fence THEN "fenced" ELSE "none"]
    BY <1>1 DEF retire_batch, history
  <2>2. run \in Runs /\ scheduled_run = run /\ outcome[run] = "none"
    BY <2>1 DEF RunInv, Phases, Ownership, NoTrace
  <2>3. ~run_fence
    BY <2>1, <2>2 DEF RunInv, TypeOK
  <2>4. Cardinality(accepted[run] \ delivered[run]) = 0
    BY <2>1, <2>3 DEF RunInv, Countdown
  <2>5. IsFiniteSet(accepted[run] \ delivered[run])
    BY <2>2, BoundsAssumption, FS_Subset DEF RunInv, TypeOK
  <2>6. accepted[run] \ delivered[run] = {}
    BY <2>4, <2>5, FS_EmptySet
  <2>7. run \notin fenced
    BY <2>2, <2>3 DEF RunInv, FenceLatched
  <2> QED BY <2>1, <2>2, <2>6, <2>7 DEF RunInv, JobsOnce
<1>2. CASE ~retire_batch
  <2>1. pc = "retired" /\ UNCHANGED <<run, accepted, outcome>> /\ admission = "open"
    <3>1. ~Publish /\ ~conclude /\ ~sweep_timeout
      BY DEF Publish, begin_run_fenced, begin_run, StartsRun, set_active_batch_tracker,
         install_owner, enqueue_batch, check_admission, conclude, sweep_timeout
    <3>2. DeliveryStep \/ WorkStep \/ admitted_write_stops \/ admitted_write_drains
      BY <1>2, <3>1, StepKinds
    <3> QED BY <3>2 DEF DeliveryStep, WorkStep, admitted_write_stops, admitted_write_drains,
            collectorVars, history
  <2>2. delivered[run] = accepted[run] /\ run \notin fenced
    BY <2>1 DEF RunInv, RetiredWhole
  <2>3. run \in Runs /\ run # scheduled_run
    BY <2>1, NamesDiffer DEF RunInv, Phases, Ownership
  <2> QED BY <2>1, <2>2, <2>3, OnlyOwnerIsWritten
<1> QED BY <1>1, <1>2

(***************************************************************************)
(* Success is concluded from a whole run, and stays: a run that succeeded  *)
(* is not installed any more.                                              *)
(***************************************************************************)
LEMMA SuccessStep ==
  ASSUME RunInv, [Next]_vars
  PROVE  SuccessIsWhole'
<1> SUFFICES ASSUME NEW r \in Runs, outcome'[r] = "ok"
             PROVE  delivered'[r] = accepted'[r] /\ ~failure'[r] /\ r \notin fenced'
  BY DEF SuccessIsWhole
<1>1. CASE outcome[r] = "ok"
  <2>1. delivered[r] = accepted[r] /\ ~failure[r] /\ r \notin fenced
    BY <1>1 DEF RunInv, SuccessIsWhole
  <2>2. r # scheduled_run
    BY <1>1 DEF RunInv, Ownership, NoTrace, Unpublished
  <2>3. ~Unpublished(r) /\ (pc = "owned" => r # run)
    BY <1>1 DEF RunInv, NoTrace, Unpublished
  <2>4. accepted'[r] = accepted[r]
    <3>1. CASE \E acc \in SUBSET Repos : enqueue_batch(acc)
      BY <3>1, <2>3 DEF enqueue_batch, RunInv, TypeOK
    <3>2. ~(\E acc \in SUBSET Repos : enqueue_batch(acc)) => accepted' = accepted
      BY StepKinds DEF Publish, begin_run_fenced, begin_run, set_active_batch_tracker,
         install_owner, check_admission, retire_batch, conclude, sweep_timeout, DeliveryStep,
         WorkStep, admitted_write_stops, admitted_write_drains, history
    <3> QED BY <3>1, <3>2
  <2> QED BY <2>1, <2>2, <2>4, OnlyOwnerIsWritten
<1>2. CASE outcome[r] # "ok"
  <2>1. conclude
    BY <1>2, StepKinds DEF Publish, begin_run_fenced, begin_run, set_active_batch_tracker,
       install_owner, enqueue_batch, check_admission, retire_batch, sweep_timeout, DeliveryStep,
       WorkStep, admitted_write_stops, admitted_write_drains, collectorVars, RunInv, TypeOK
  <2>2. r = run /\ pc = "retired" /\ Conclusion = "ok"
    BY <1>2, <2>1 DEF conclude, RunInv, TypeOK
  <2>3. /\ accepted[run] # {} /\ admission = "open" /\ outcome[run] = "none" /\ ~failure[run]
    BY <1>2, <2>2 DEF Conclusion, RunInv, TypeOK
  <2>4. delivered[run] = accepted[run] /\ run \notin fenced
    BY <2>2, <2>3 DEF RunInv, RetiredWhole
  <2>5. UNCHANGED <<delivered, accepted, failure, fenced>>
    BY <2>1 DEF conclude, runVars, history
  <2> QED BY <2>2, <2>3, <2>4, <2>5
<1> QED BY <1>1, <1>2

-----------------------------------------------------------------------------
LEMMA RunInvHolds == Spec => []RunInv
<1>1. Init => RunInv
  BY InitEstablishes
<1>2. RunInv /\ [Next]_vars => RunInv'
  BY TypeStep, PhasesStep, OwnershipStep, NoTraceStep, FenceLatchedStep, JobsOnceStep,
     CountdownStep, RetiredWholeStep, SuccessStep DEF RunInv
<1> QED BY <1>1, <1>2, PTL DEF Spec

(***************************************************************************)
(* Every reachable state is well typed: in particular no BatchTracker      *)
(* counts below zero and no job belongs to a run that was never started.   *)
(***************************************************************************)
THEOREM TypeCorrect == Spec => []TypeOK
BY RunInvHolds, PTL DEF RunInv

(***************************************************************************)
(* A run that reports success had every accepted job delivered, with no    *)
(* failed write, and was aborted by no fence (enqueue_and_await_batch,     *)
(* collect.rs).                                                            *)
(***************************************************************************)
THEOREM SuccessfulRunsAreWhole == Spec => []SuccessIsWhole
BY RunInvHolds, PTL DEF RunInv

(***************************************************************************)
(* The barrier the collector waits on counts the accepted jobs that are    *)
(* still in the queue, with a worker or in the channel (BatchTracker).     *)
(***************************************************************************)
THEOREM BarrierIsExact == Spec => []TrackerExact
<1>1. RunInv => TrackerExact
  BY DEF RunInv, Countdown, TrackerExact
<1> QED BY <1>1, RunInvHolds, PTL

(***************************************************************************)
(* retire_batch never finds another owner installed (RunOwnershipLost).    *)
(***************************************************************************)
THEOREM OwnershipIsKept == Spec => []OwnershipKept
BY RunInvHolds, PTL DEF RunInv

(***************************************************************************)
(* A fenced run that no sweep timeout dropped has no outcome persisted     *)
(* after its fence (fence_active_run, app/state/mod.rs).                   *)
(***************************************************************************)
THEOREM FencedRunsAreSilent == Spec => FencedRunIsSilentUnlessDropped
<1>1. RunInv /\ [Next]_vars =>
        [\A r \in fenced : delivered'[r] # delivered[r] => outcome[r] = "timed_out"]_vars
  <2> SUFFICES ASSUME RunInv, [Next]_vars, NEW r \in fenced, delivered'[r] # delivered[r]
               PROVE  outcome[r] = "timed_out"
    OBVIOUS
  <2>1. r \in Runs
    BY DEF RunInv, TypeOK
  <2>2. scheduled_run = r
    BY <2>1, OnlyOwnerIsWritten
  <2>3. Deliver
    BY StepKinds DEF Next, Collect, Publish, begin_run_fenced, begin_run,
       set_active_batch_tracker, install_owner, enqueue_batch, check_admission, retire_batch,
       conclude, sweep_timeout, Work, Dequeue, Finish, execute_enqueue, admitted_write_stops,
       admitted_write_drains, history, vars
  <2>4. ~run_fence
    BY <2>3, DeliveryKinds DEF Counts, Persists, RecordsNothing, RunInv
  <2> QED BY <2>2, <2>4 DEF RunInv, FenceLatched
<1> QED BY <1>1, RunInvHolds, PTL DEF Spec, FencedRunIsSilentUnlessDropped
=============================================================================
