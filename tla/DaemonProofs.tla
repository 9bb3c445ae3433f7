---------------------------- MODULE DaemonProofs ----------------------------
(***************************************************************************)
(* For every number of attempts, every width of the counters and every     *)
(* interval: the force flags act once, a shutdown starts a bounded number  *)
(* of runs, success is not reported over an indeterminate write, the loop  *)
(* backs off when something was left undone, and the back-off never        *)
(* shrinks.                                                                *)
(***************************************************************************)
EXTENDS Daemon, InductionProofs, TLAPS

(***************************************************************************)
(* While the flag is armed no run has been started.                        *)
(***************************************************************************)
FlagUnused ==
  /\ force_flag => place["collection"] \in {"starting", "exited"} /\ forced_runs = 0
  /\ place["collection"] = "starting" => initial
  /\ forced_runs <= 1

(***************************************************************************)
(* How many late runs there can have been, by the place of the loop: each  *)
(* attempt of a re-arm adds at most one.                                   *)
(***************************************************************************)
LateRuns ==
  /\ ~cancel => late_runs = 0
  /\ place["collection"] \in {"starting", "due"} => late_runs = 0
  /\ place["collection"] \in {"starting", "due", "waiting"} => attempt["collection"] = 0
  /\ place["collection"] \in {"preparing", "running", "backoff"} =>
       late_runs <= 1 + attempt["collection"]
  /\ place["collection"] = "resyncing" => late_runs <= attempt["collection"]
  /\ late_runs <= 1 + MaxAttempts
  /\ \A l \in Loops : place[l] = "backoff" => attempt[l] < MaxAttempts

(***************************************************************************)
(* A process that has returned has no loop and no undrained delivery task  *)
(* left that could still write.                                            *)
(***************************************************************************)
ExitSettled ==
  /\ main \in {"ok", "error"} =>
       /\ \A l \in Loops : place[l] = "exited"
       /\ delivery # "alive"
  /\ main = "ok" /\ admission = "stopped" => delivery = "aborted"

DaemonInv == TypeOK /\ FlagUnused /\ LateRuns /\ ExitSettled

(***************************************************************************)
(* What the proofs need of the bounds.                                     *)
(***************************************************************************)
LEMMA BoundsAreNats ==
  MaxAttempts \in Nat /\ MaxAttempts > 0 /\ MaxRetries \in Nat /\ MaxRetries > 0
BY DaemonBounds

(***************************************************************************)
(* The collection loop starts a run: the flag is used up, and the run is   *)
(* counted if the cancellation is already there.                           *)
(***************************************************************************)
LEMMA RunStartKeepsInv ==
  ASSUME DaemonInv, initial_run \/ scheduled_run \/ rearm_run
  PROVE  DaemonInv'
<1> USE BoundsAreNats DEF DaemonInv, Places, Loops, mainVars, runHistory, Goes
<1>1. /\ place["collection"] \in {"starting", "due", "resyncing"}
      /\ place' = [place EXCEPT !["collection"] = "preparing"]
      /\ place["collection"] = "resyncing" => attempt["collection"] > 0
      /\ force_flag' = (force_flag /\ ~initial)
      /\ forced_runs' = IF force_flag THEN forced_runs + 1 ELSE forced_runs
      /\ heard' = FALSE
      /\ late_runs' = IF cancel THEN late_runs + 1 ELSE late_runs
      /\ UNCHANGED <<mainVars, admission, consecutive_retries, initial, client, delivery,
                     last, attempt>>
  BY DEF initial_run, scheduled_run, rearm_run, run_starts, run_config
<1>2. place'["collection"] = "preparing" /\ place'["team"] = place["team"]
  BY <1>1 DEF TypeOK
<1>3. force_flag' = FALSE
  BY <1>1 DEF FlagUnused
<1>4. forced_runs' \in Nat /\ forced_runs' <= 1
  BY <1>1 DEF FlagUnused, TypeOK
<1>5. late_runs' \in Nat /\ late_runs' <= 1 + attempt["collection"]
  BY <1>1 DEF LateRuns, TypeOK
<1>6. TypeOK'
  BY <1>1, <1>3, <1>4, <1>5 DEF TypeOK
<1>7. FlagUnused'
  BY <1>2, <1>3, <1>4 DEF FlagUnused
<1>8. ~cancel' => late_runs' = 0
  BY <1>1 DEF LateRuns
<1>9. LateRuns'
  BY <1>1, <1>2, <1>5, <1>8 DEF LateRuns, TypeOK
<1>10. ExitSettled'
  BY <1>1, <1>2 DEF ExitSettled
<1> QED
  BY <1>6, <1>7, <1>9, <1>10

(***************************************************************************)
(* A collection ends, whichever way: the loop is waiting, out of a re-arm, *)
(* with its flag used up.                                                  *)
(***************************************************************************)
LEMMA EndKeepsInv ==
  ASSUME DaemonInv, NEW how \in Ends, ends_with(how),
         place["collection"] \notin {"waiting", "exited"},
         force_flag' = (force_flag /\ place["collection"] # "starting"),
         UNCHANGED <<mainVars, admission, heard, client, delivery, runHistory>>
  PROVE  DaemonInv'
<1> USE BoundsAreNats DEF DaemonInv, Places, Loops, mainVars, runHistory
<1>1. /\ place' = [place EXCEPT !["collection"] = "waiting"]
      /\ attempt' = [attempt EXCEPT !["collection"] = 0]
      /\ initial' = FALSE
      /\ last' = how
  BY DEF ends_with
<1>2. /\ place'["collection"] = "waiting" /\ place'["team"] = place["team"]
      /\ attempt'["collection"] = 0 /\ attempt'["team"] = attempt["team"]
  BY <1>1 DEF TypeOK
<1>3. consecutive_retries' \in 0..MaxRetries
  BY DEF ends_with, saturating_add_one, Least, TypeOK
<1>4. force_flag' = FALSE
  BY DEF FlagUnused
<1>5. TypeOK'
  <2>1. place' \in [Loops -> Places] /\ attempt' \in [Loops -> 0..MaxAttempts]
    BY <1>1 DEF TypeOK
  <2>2. initial' \in BOOLEAN /\ force_flag' \in BOOLEAN /\ last' \in Ends
    BY <1>1, <1>4, Zenon
  <2> QED
    BY <2>1, <2>2, <1>3 DEF TypeOK
<1>6. FlagUnused'
  BY <1>2, <1>4 DEF FlagUnused
<1>7. LateRuns'
  BY <1>2 DEF LateRuns
<1>8. ExitSettled'
  BY <1>2 DEF ExitSettled
<1> QED
  BY <1>5, <1>6, <1>7, <1>8

(***************************************************************************)
(* The steps of the collection loop.                                       *)
(***************************************************************************)
LEMMA CollectionLoopKeepsInv ==
  ASSUME DaemonInv, CollectionLoop
  PROVE  DaemonInv'
<1> USE BoundsAreNats DEF DaemonInv, TypeOK, FlagUnused, LateRuns, ExitSettled, Places, Loops,
                         mainVars, runHistory
<1>1. CASE initial_run \/ scheduled_run \/ rearm_run
  BY <1>1, RunStartKeepsInv
<1>3. CASE next_collection_tick("collection", "due")
  BY <1>3 DEF next_collection_tick, Goes
<1>4. CASE loop_returns("collection")
  BY <1>4 DEF loop_returns
<1>5. CASE github_client_or_try_init
  BY <1>5 DEF github_client_or_try_init
<1>6. CASE prepare_collection
  BY <1>6 DEF prepare_collection, Goes
<1>7. CASE \E how \in {"clean", "unscanned", "cancelled"} : Completed(how)
  <2>1. PICK how \in {"clean", "unscanned", "cancelled"} : Completed(how)
    BY <1>7
  <2>2. how \in Ends
    BY DEF Ends
  <2>3. force_flag = FALSE /\ force_flag' = FALSE
    BY <2>1 DEF Completed, FlagUnused, TypeOK
  <2> QED
    BY <2>1, <2>2, <2>3, EndKeepsInv DEF Completed
<1>8. CASE run_failed
  <2>1. "failed" \in Ends
    BY DEF Ends
  <2> QED
    BY <1>8, <2>1, EndKeepsInv DEF run_failed, RunFails
<1>9. CASE fenced("collection")
  BY <1>9 DEF fenced
<1>11. CASE attempt_fails("collection")
  BY <1>11 DEF attempt_fails, Failing
<1>12. CASE backoff_ends("collection")
  BY <1>12 DEF backoff_ends, Goes
<1>13. CASE collection_gives_up
  <2>1. "failed" \in Ends
    BY DEF Ends
  <2>2. place["collection"] \in {"resyncing", "preparing", "running"}
    BY <1>13 DEF collection_gives_up, Failing
  <2>3. force_flag = FALSE /\ force_flag' = FALSE
    BY <1>13, <2>2 DEF collection_gives_up, FlagUnused, TypeOK
  <2> QED
    BY <1>13, <2>1, <2>2, <2>3, EndKeepsInv DEF collection_gives_up
<1> QED
  BY <1>1, <1>3, <1>4, <1>5, <1>6, <1>7, <1>8, <1>9, <1>11, <1>12, <1>13 DEF CollectionLoop

(***************************************************************************)
(* The steps of the team-refresh loop.                                     *)
(***************************************************************************)
LEMMA TeamRefreshLoopKeepsInv ==
  ASSUME DaemonInv, TeamRefreshLoop
  PROVE  DaemonInv'
<1> USE BoundsAreNats DEF DaemonInv, TypeOK, FlagUnused, LateRuns, ExitSettled, Places, Loops,
                         mainVars, runHistory
<1>1. CASE client_ready
  BY <1>1 DEF client_ready, Goes
<1>2. CASE next_collection_tick("team", "awaiting_client")
  BY <1>2 DEF next_collection_tick, Goes
<1>3. CASE loop_returns("team")
  BY <1>3 DEF loop_returns
<1>4. CASE tick_ends
  BY <1>4 DEF tick_ends, Goes
<1>5. CASE tick_indeterminate
  BY <1>5 DEF tick_indeterminate, Goes
<1>6. CASE fenced("team")
  BY <1>6 DEF fenced
<1>7. CASE rearm_tick
  BY <1>7 DEF rearm_tick, Goes
<1>8. CASE attempt_fails("team")
  BY <1>8 DEF attempt_fails, Failing
<1>9. CASE backoff_ends("team")
  BY <1>9 DEF backoff_ends, Goes
<1>10. CASE team_gives_up
  BY <1>10 DEF team_gives_up, Failing, Goes
<1> QED
  BY <1>1, <1>2, <1>3, <1>4, <1>5, <1>6, <1>7, <1>8, <1>9, <1>10 DEF TeamRefreshLoop

(***************************************************************************)
(* The steps of the shutdown, of other writers and of the environment.     *)
(***************************************************************************)
LEMMA ShutdownKeepsInv ==
  ASSUME DaemonInv, Shutdown \/ writer_stops \/ signal \/ server_fails
  PROVE  DaemonInv'
<1> USE BoundsAreNats DEF DaemonInv, TypeOK, FlagUnused, LateRuns, ExitSettled, Places, Loops,
                         mainVars, runHistory
<1>1. CASE server_ends
  BY <1>1 DEF server_ends, Ending
<1>2. CASE drain_worker_pool
  BY <1>2 DEF drain_worker_pool
<1>3. CASE run_returns
  BY <1>3 DEF run_returns, Verdict
<1>4. CASE \E l \in Loops : drain_task_expires(l)
  BY <1>4 DEF drain_task_expires
<1>5. CASE writer_stops
  BY <1>5 DEF writer_stops
<1>6. CASE signal
  BY <1>6 DEF signal
<1>7. CASE server_fails
  BY <1>7 DEF server_fails
<1> QED
  BY <1>1, <1>2, <1>3, <1>4, <1>5, <1>6, <1>7 DEF Shutdown

(***************************************************************************)
(* The invariant holds from the start and every step keeps it.             *)
(***************************************************************************)
THEOREM DaemonInvariant == Spec => []DaemonInv
<1>1. Init => DaemonInv
  <2> SUFFICES ASSUME Init PROVE DaemonInv
    OBVIOUS
  <2> USE BoundsAreNats DEF Loops
  <2>1. place \in [Loops -> Places] /\ attempt \in [Loops -> 0..MaxAttempts]
    BY DEF Init, Places
  <2>2. /\ place["collection"] = "starting" /\ place["team"] = "awaiting_client"
        /\ attempt["collection"] = 0 /\ attempt["team"] = 0
    BY DEF Init
  <2>3. TypeOK
    <3>1. force_flag \in BOOLEAN /\ last \in Ends
      BY DEF Init, Ends
    <3>2. consecutive_retries \in 0..MaxRetries /\ forced_runs \in Nat /\ late_runs \in Nat
      BY DEF Init
    <3>3. /\ main \in {"serving", "draining", "ok", "error"}
          /\ admission \in {"open", "stopped"}
          /\ delivery \in {"none", "alive", "aborted", "ended"}
      BY DEF Init
    <3>4. /\ signalled \in BOOLEAN /\ server_failed \in BOOLEAN /\ cancel \in BOOLEAN
          /\ initial \in BOOLEAN /\ heard \in BOOLEAN /\ client \in BOOLEAN
      BY DEF Init
    <3> QED
      BY <2>1, <3>1, <3>2, <3>3, <3>4 DEF TypeOK
  <2>4. FlagUnused
    BY <2>2 DEF Init, FlagUnused
  <2>5. LateRuns
    BY <2>2 DEF Init, LateRuns
  <2>6. ExitSettled
    BY DEF Init, ExitSettled
  <2> QED
    BY <2>3, <2>4, <2>5, <2>6 DEF DaemonInv
<1>2. DaemonInv /\ [Next]_vars => DaemonInv'
  <2> SUFFICES ASSUME DaemonInv, [Next]_vars
               PROVE  DaemonInv'
    OBVIOUS
  <2>1. CASE Next
    BY <2>1, CollectionLoopKeepsInv, TeamRefreshLoopKeepsInv, ShutdownKeepsInv DEF Next
  <2>2. CASE UNCHANGED vars
    BY <2>2 DEF vars, DaemonInv, TypeOK, FlagUnused, LateRuns, ExitSettled
  <2> QED
    BY <2>1, <2>2
<1> QED
  BY <1>1, <1>2, PTL DEF Spec

(***************************************************************************)
(* At most one run is started with a force flag set (OneShotFlag and the   *)
(* run configurations, app/daemon.rs:66-89, 1074-1099).                    *)
(***************************************************************************)
THEOREM FlagsActOnce == Spec => []ForcedOnce
<1>1. DaemonInv => ForcedOnce
  BY DEF DaemonInv, FlagUnused, ForcedOnce
<1> QED
  BY <1>1, DaemonInvariant, PTL

(***************************************************************************)
(* After the cancellation at most one run and one re-arm's attempts start  *)
(* (next_collection_tick, converge_on_fence).                              *)
(***************************************************************************)
THEOREM ShutdownStartsFewRuns == Spec => []LateRunsBounded
<1>1. DaemonInv => LateRunsBounded
  BY DEF DaemonInv, LateRuns, LateRunsBounded
<1> QED
  BY <1>1, DaemonInvariant, PTL

(***************************************************************************)
(* The process reports success over an indeterminate write only if that    *)
(* was the last write of an aborted delivery task (run, drain_shutdown).   *)
(***************************************************************************)
THEOREM SuccessIsHonest == Spec => []SuccessMeansOpen
<1>1. DaemonInv => SuccessMeansOpen
  BY DEF DaemonInv, ExitSettled, SuccessMeansOpen
<1> QED
  BY <1>1, DaemonInvariant, PTL

(***************************************************************************)
(* The counters of the loops (consecutive_retries, the attempts of         *)
(* converge_on_fence) and the places of every task stay in their ranges.   *)
(***************************************************************************)
THEOREM DaemonTypesHold == Spec => []TypeOK
<1>1. DaemonInv => TypeOK
  BY DEF DaemonInv
<1> QED
  BY <1>1, DaemonInvariant, PTL

-----------------------------------------------------------------------------
(***************************************************************************)
(* Every way back to the wait sets the count by the outcome, and no other  *)
(* step touches it.                                                        *)
(***************************************************************************)
LEMMA EndFollowsOutcome ==
  ASSUME TypeOK, NEW how \in Ends, ends_with(how)
  PROVE  BackoffFollowsOutcome'
<1>1. last' = how /\ consecutive_retries \in Nat
  BY DEF ends_with, TypeOK
<1>2. saturating_add_one(consecutive_retries) # 0
  BY <1>1, BoundsAreNats DEF saturating_add_one, Least
<1> QED BY <1>1, <1>2 DEF ends_with, BackoffFollowsOutcome

LEMMA OtherStepsFollowOutcome ==
  ASSUME TypeOK, BackoffFollowsOutcome,
         UNCHANGED <<last, consecutive_retries>>,
         place'["collection"] = "waiting" => place["collection"] = "waiting"
  PROVE  BackoffFollowsOutcome'
BY DEF BackoffFollowsOutcome

(***************************************************************************)
(* The loop backs off exactly when the last collection left something      *)
(* undone, whether it was an initial, a scheduled or a re-armed one        *)
(* (spawn_collection_loop, app/daemon.rs:786-929).                         *)
(***************************************************************************)
THEOREM BackoffIsDue == Spec => []BackoffFollowsOutcome
<1>1. Init => BackoffFollowsOutcome
  BY DEF Init, BackoffFollowsOutcome
<1>2. TypeOK /\ BackoffFollowsOutcome /\ [Next]_vars => BackoffFollowsOutcome'
  <2> SUFFICES ASSUME TypeOK, BackoffFollowsOutcome, [Next]_vars
               PROVE  BackoffFollowsOutcome'
    OBVIOUS
  <2>0. place \in [Loops -> Places] /\ "collection" \in Loops /\ "team" # "collection"
    BY DEF TypeOK, Loops
  <2>1. CASE \/ \E how \in {"clean", "unscanned", "cancelled"} : Completed(how)
             \/ run_failed \/ collection_gives_up
    <3>1. \E how \in Ends : ends_with(how)
      BY <2>1 DEF Completed, run_failed, collection_gives_up, Ends
    <3> QED BY <3>1, EndFollowsOutcome
  <2>2. CASE \/ initial_run \/ scheduled_run \/ rearm_run \/ loop_returns("collection")
             \/ next_collection_tick("collection", "due") \/ github_client_or_try_init
             \/ prepare_collection \/ fenced("collection") \/ attempt_fails("collection")
             \/ backoff_ends("collection")
    <3>1. /\ UNCHANGED <<last, consecutive_retries>>
          /\ \/ place' = place
             \/ \E to \in {"preparing", "running", "due", "resyncing", "backoff", "exited"} :
                  place' = [place EXCEPT !["collection"] = to]
      BY <2>2 DEF initial_run, scheduled_run, rearm_run, run_starts, loop_returns,
                  next_collection_tick, github_client_or_try_init, prepare_collection, fenced,
                  attempt_fails, backoff_ends, Goes
    <3>2. place'["collection"] = "waiting" => place["collection"] = "waiting"
      BY <2>0, <3>1
    <3> QED BY <3>1, <3>2, OtherStepsFollowOutcome
  <2>3. CASE TeamRefreshLoop
    <3>1. /\ UNCHANGED <<last, consecutive_retries>>
          /\ \E to : place' = [place EXCEPT !["team"] = to]
      BY <2>3 DEF TeamRefreshLoop, client_ready, next_collection_tick, loop_returns, tick_ends,
                  tick_indeterminate, fenced, rearm_tick, attempt_fails, backoff_ends,
                  team_gives_up, Goes
    <3>2. place'["collection"] = place["collection"]
      BY <2>0, <3>1
    <3> QED BY <3>1, <3>2, OtherStepsFollowOutcome
  <2>4. CASE Shutdown \/ writer_stops \/ signal \/ server_fails \/ UNCHANGED vars
    <3>1. /\ UNCHANGED <<last, consecutive_retries>>
          /\ place' = place \/ \E l \in Loops : place' = [place EXCEPT ![l] = "exited"]
      BY <2>4 DEF Shutdown, server_ends, drain_worker_pool, run_returns, drain_task_expires,
                  writer_stops, signal, server_fails, vars
    <3>2. place'["collection"] = "waiting" => place["collection"] = "waiting"
      BY <2>0, <3>1
    <3> QED BY <3>1, <3>2, OtherStepsFollowOutcome
  <2> QED BY <2>1, <2>2, <2>3, <2>4 DEF Next, CollectionLoop
<1> QED BY <1>1, <1>2, DaemonTypesHold, PTL DEF Spec

-----------------------------------------------------------------------------
(***************************************************************************)
(* The powers of two that fit the word: their recursion exists, so they    *)
(* double, and the largest of them is above all others.                    *)
(***************************************************************************)
Doubles(g, N) == g = [i \in 0..N |-> IF i = 0 THEN 1 ELSE 2 * g[i - 1]]

LEMMA DoublesExists ==
  ASSUME NEW N \in Nat
  PROVE  \E g : Doubles(g, N)
<1> DEFINE T == {n \in Nat : \E g : Doubles(g, n)}
<1>1. 0 \in T
  <2>1. Doubles([i \in 0..0 |-> 1], 0)
    BY DEF Doubles
  <2> QED BY <2>1
<1>2. ASSUME NEW n \in 1..N, n - 1 \in T
      PROVE  n \in T
  <2>1. PICK g : Doubles(g, n - 1)
    BY <1>2
  <2>2. \A i \in 0..(n - 1) : g[i] = IF i = 0 THEN 1 ELSE 2 * g[i - 1]
    BY <2>1 DEF Doubles
  <2> DEFINE h == [i \in 0..n |-> IF i = n THEN 2 * g[n - 1] ELSE g[i]]
  <2>3. \A i \in 0..n : h[i] = IF i = 0 THEN 1 ELSE 2 * h[i - 1]
    BY <2>2
  <2>4. h = [i \in 0..n |-> IF i = 0 THEN 1 ELSE 2 * h[i - 1]]
    <3>1. h = [i \in 0..n |-> h[i]]
      OBVIOUS
    <3> HIDE DEF h
    <3> QED BY <2>3, <3>1
  <2>5. Doubles(h, n)
    <3> HIDE DEF h
    <3> QED BY <2>4 DEF Doubles
  <2> QED BY <2>5
<1> HIDE DEF T
<1>3. N \in T
  BY <1>1, <1>2, IntervalInduction
<1> QED BY <1>3 DEF T

LEMMA ShlDoubles ==
  /\ shl[0] = 1
  /\ \A n \in 1..WordBits : shl[n] = 2 * shl[n - 1]
<1> DEFINE G == CHOOSE g : Doubles(g, WordBits)
<1>0. WordBits \in Nat
  BY DaemonBounds
<1>1. Doubles(G, WordBits)
  BY <1>0, DoublesExists
<1>2. shl = G
  BY DEF shl, Doubles
<1> HIDE DEF G
<1>3. Doubles(shl, WordBits)
  BY <1>1, <1>2
<1>4. \A i \in 0..WordBits : shl[i] = IF i = 0 THEN 1 ELSE 2 * shl[i - 1]
  BY <1>3 DEF Doubles
<1> QED BY <1>0, <1>4

LEMMA ShlGrows ==
  \A n \in 0..WordBits : /\ shl[n] \in Nat
                         /\ \A i \in 0..n : i < n => shl[i] < shl[n]
<1> DEFINE T == {n \in 0..WordBits : /\ shl[n] > 0
                                     /\ \A i \in 0..n : shl[i] \in Nat
                                     /\ \A i \in 0..n : i < n => shl[i] < shl[n]}
<1>0. WordBits \in Nat
  BY DaemonBounds
<1>1. 0 \in T
  BY <1>0, ShlDoubles
<1>2. ASSUME NEW n \in 1..WordBits, n - 1 \in T
      PROVE  n \in T
  <2>1. /\ shl[n] = 2 * shl[n - 1] /\ shl[n - 1] \in Nat /\ shl[n - 1] > 0
        /\ \A i \in 0..(n - 1) : shl[i] \in Nat
        /\ \A i \in 0..(n - 1) : i < n - 1 => shl[i] < shl[n - 1]
    BY <1>2, ShlDoubles
  <2>2. \A i \in 0..n : i = n \/ i = n - 1 \/ (i \in 0..(n - 1) /\ i < n - 1)
    BY <1>0
  <2> QED BY <1>0, <2>1, <2>2
<1>3. \A n \in 0..WordBits : n \in T
  <2> HIDE DEF T
  <2> QED BY <1>0, <1>1, <1>2, IntervalInduction
<1> QED BY <1>0, <1>3

(***************************************************************************)
(* One more failure never shortens the wait, below, at and beyond the      *)
(* shift that no longer fits the word.                                     *)
(***************************************************************************)
LEMMA FactorGrows ==
  ASSUME NEW n \in Nat, n > 0
  PROVE  factor(n) \in Nat /\ factor(n + 1) \in Nat /\ factor(n) <= factor(n + 1)
<1>0. WordBits \in Nat /\ WordBits > 0
  BY DaemonBounds
<1>1. /\ \A i \in 0..WordBits : shl[i] \in Nat
      /\ \A i \in 0..WordBits : i < WordBits => shl[i] < shl[WordBits]
  BY <1>0, ShlGrows
<1>2. WordMax \in Nat
  BY <1>0, <1>1 DEF WordMax
<1>3. CASE n - 1 >= WordBits
  BY <1>0, <1>2, <1>3 DEF factor
<1>4. CASE n - 1 < WordBits /\ n >= WordBits
  <2>1. factor(n) = shl[n - 1] /\ factor(n + 1) = WordMax /\ n - 1 \in 0..WordBits
    BY <1>0, <1>4 DEF factor
  <2> QED BY <1>0, <1>1, <1>2, <1>4, <2>1 DEF WordMax
<1>5. CASE n < WordBits
  <2>1. /\ factor(n) = shl[n - 1] /\ factor(n + 1) = shl[n]
        /\ n - 1 \in 0..n /\ n - 1 < n /\ n \in 0..WordBits /\ n - 1 \in 0..WordBits
    BY <1>0, <1>5 DEF factor
  <2>2. shl[n - 1] < shl[n]
    BY <2>1, ShlGrows
  <2> QED BY <1>1, <2>1, <2>2
<1> QED BY <1>0, <1>3, <1>4, <1>5

LEMMA IntervalGrows ==
  ASSUME NEW n \in Nat, n > 0
  PROVE  collection_interval(n) <= collection_interval(n + 1)
<1> DEFINE a == RETRY_INTERVAL_SECS * factor(n)
           b == RETRY_INTERVAL_SECS * factor(n + 1)
<1>1. factor(n) \in Nat /\ factor(n + 1) \in Nat /\ factor(n) <= factor(n + 1)
  BY FactorGrows
<1>2. WordMax \in Int
  <2>1. WordBits \in 0..WordBits
    BY DaemonBounds
  <2> QED BY <2>1, ShlGrows DEF WordMax
<1>3. a \in Nat /\ b \in Nat /\ a <= b
  <2>1. \A f, g, r \in Nat : f <= g => r * f <= r * g /\ r * f \in Nat /\ r * g \in Nat
    OBVIOUS
  <2> QED BY <1>1, <2>1, DaemonBounds
<1>4. /\ collection_interval(n) = Least(Least(a, WordMax), INTERVAL_SECS)
      /\ collection_interval(n + 1) = Least(Least(b, WordMax), INTERVAL_SECS)
  BY DEF collection_interval
<1> HIDE DEF a, b
<1>5. INTERVAL_SECS \in Nat
  BY DaemonBounds
<1> QED BY <1>2, <1>3, <1>4, <1>5 DEF Least

(***************************************************************************)
(* The back-off never shrinks while failures follow one another, for every *)
(* width of the word and every saturation of the count: a step adds at     *)
(* most one (collection_interval, app/daemon.rs:763-775).                  *)
(***************************************************************************)
THEOREM BackoffGrows == Spec => BackoffNeverShrinks
<1> DEFINE Grows == 0 < consecutive_retries /\ consecutive_retries < consecutive_retries' =>
                      collection_interval(consecutive_retries)
                        <= collection_interval(consecutive_retries')
<1>1. TypeOK /\ [Next]_vars => [Grows]_vars
  <2> SUFFICES ASSUME TypeOK, Next, 0 < consecutive_retries,
                      consecutive_retries < consecutive_retries'
               PROVE  collection_interval(consecutive_retries)
                        <= collection_interval(consecutive_retries')
    OBVIOUS
  <2>1. consecutive_retries \in Nat
    BY DEF TypeOK
  <2>2. \/ UNCHANGED consecutive_retries
        \/ \E how \in Ends : ends_with(how)
    <3>1. CASE CollectionLoop
      BY <3>1 DEF CollectionLoop, initial_run, scheduled_run, rearm_run, run_starts,
                  loop_returns, next_collection_tick, github_client_or_try_init,
                  prepare_collection, fenced, attempt_fails, backoff_ends, Completed,
                  run_failed, collection_gives_up, Ends
    <3>2. CASE TeamRefreshLoop
      BY <3>2 DEF TeamRefreshLoop, client_ready, next_collection_tick, loop_returns, tick_ends,
                  tick_indeterminate, fenced, rearm_tick, attempt_fails, backoff_ends,
                  team_gives_up
    <3>3. CASE Shutdown \/ writer_stops \/ signal \/ server_fails
      BY <3>3 DEF Shutdown, server_ends, drain_worker_pool, run_returns, drain_task_expires,
                  writer_stops, signal, server_fails
    <3> QED BY <3>1, <3>2, <3>3 DEF Next
  <2>3. consecutive_retries' = consecutive_retries + 1
    BY <2>1, <2>2, BoundsAreNats DEF ends_with, saturating_add_one, Least
  <2> QED BY <2>1, <2>3, IntervalGrows
<1> HIDE DEF Grows
<1>2. Spec => [][Grows]_vars
  BY <1>1, DaemonTypesHold, PTL DEF Spec
<1> QED BY <1>2 DEF BackoffNeverShrinks, Grows
=============================================================================
