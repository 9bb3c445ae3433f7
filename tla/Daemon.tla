------------------------------- MODULE Daemon -------------------------------
(***************************************************************************)
(* The daemon (app/daemon.rs): the collection loop with its initial run,   *)
(* its schedule and back-off, the team-refresh loop, the bounded re-arm    *)
(* both use after the single-writer fence rejected a write                 *)
(* (converge_on_fence), and the shutdown that drains them.                 *)
(*                                                                         *)
(* A run and a team-refresh tick are what they return; how a run gets      *)
(* there is module DeliveryRun.  Sleeps end at any time.                   *)
(***************************************************************************)
EXTENDS Naturals

CONSTANTS MaxAttempts,         \* RearmPolicy::max_attempts
          MaxRetries,          \* where the u32 consecutive_retries saturates
          WordBits,            \* width of the seconds (u64)
          RETRY_INTERVAL_SECS, \* COLLECTION_RETRY_INTERVAL_SECS
          INTERVAL_SECS        \* COLLECTION_INTERVAL_SECS

ASSUME DaemonBounds ==
  /\ MaxAttempts \in Nat \ {0} /\ MaxRetries \in Nat \ {0} /\ WordBits \in Nat \ {0}
  /\ RETRY_INTERVAL_SECS \in Nat /\ INTERVAL_SECS \in Nat
  /\ 0 < RETRY_INTERVAL_SECS /\ RETRY_INTERVAL_SECS <= INTERVAL_SECS

Loops == {"collection", "team"}

VARIABLES
  main,                 \* "serving", "draining", or how the process exited
  signalled,            \* a shutdown signal was delivered
  server_failed,        \* the server ended with an error
  cancel,               \* the watch channel of drain_shutdown
  admission,            \* write_admission: "open" or "stopped"
  place,                \* where each loop is
  attempt,              \* attempt of converge_on_fence, 0 outside of it
  consecutive_retries,
  initial,              \* the collection loop has not reached its schedule yet
  heard,                \* the run's own signal listener fired
  force_flag,           \* --force-unlock, --force-refresh: armed
  client,               \* the GitHub client exists
  delivery,             \* delivery task: "none", "alive", "aborted", "ended"
  forced_runs,          \* history: runs that were started with the flag set
  late_runs,            \* history: runs started after the cancellation
  last                  \* history: how the last collection ended

vars == <<main, signalled, server_failed, cancel, admission, place, attempt,
          consecutive_retries, initial, heard, force_flag, client, delivery,
          forced_runs, late_runs, last>>

mainVars == <<main, signalled, server_failed, cancel>>
runHistory == <<forced_runs, late_runs>>

(***************************************************************************)
(* Places.  "preparing" and "running" are the two halves of a run: only    *)
(* the second listens for a signal.  "ticking" is a team-refresh tick.     *)
(***************************************************************************)
Places == {"starting", "awaiting_client", "due", "preparing", "running", "ticking",
           "resyncing", "backoff", "waiting", "exited"}
Ends == {"none", "clean", "unscanned", "cancelled", "failed"}

TypeOK ==
  /\ main \in {"serving", "draining", "ok", "error"}
  /\ signalled \in BOOLEAN /\ server_failed \in BOOLEAN /\ cancel \in BOOLEAN
  /\ admission \in {"open", "stopped"}
  /\ place \in [Loops -> Places]
  /\ attempt \in [Loops -> 0..MaxAttempts]
  /\ consecutive_retries \in 0..MaxRetries
  /\ initial \in BOOLEAN /\ heard \in BOOLEAN
  /\ force_flag \in BOOLEAN /\ client \in BOOLEAN
  /\ delivery \in {"none", "alive", "aborted", "ended"}
  /\ forced_runs \in Nat
  /\ late_runs \in Nat
  /\ last \in Ends

Init ==
  /\ main = "serving"
  /\ signalled = FALSE /\ server_failed = FALSE /\ cancel = FALSE
  /\ admission = "open"
  /\ place = [collection |-> "starting", team |-> "awaiting_client"]
  /\ attempt = [l \in Loops |-> 0]
  /\ consecutive_retries = 0
  /\ initial = TRUE /\ heard = FALSE
  /\ force_flag \in BOOLEAN
  /\ client = FALSE
  /\ delivery = "none"
  /\ forced_runs = 0 /\ late_runs = 0
  /\ last = "none"

Goes(l, from, to) ==
  /\ place[l] = from
  /\ place' = [place EXCEPT ![l] = to]

-----------------------------------------------------------------------------
(***************************************************************************)
(* The back-off.  checked_shl and saturating_mul keep the u64 arithmetic   *)
(* from wrapping.                                                          *)
(***************************************************************************)
Least(a, b) == IF a < b THEN a ELSE b

shl[n \in 0..WordBits] == IF n = 0 THEN 1 ELSE 2 * shl[n - 1]  \* 1 << n

WordMax == shl[WordBits] - 1

ASSUME IntervalAssumption == INTERVAL_SECS <= WordMax

(***************************************************************************)
(* Faulty variant: the shift wraps around the word.                        *)
(***************************************************************************)
factor_wrapping(n) == shl[(n - 1) % WordBits]

factor(n) == IF n - 1 >= WordBits THEN WordMax ELSE shl[n - 1]

collection_interval(n) ==
  IF n = 0 THEN INTERVAL_SECS
  ELSE Least(Least(RETRY_INTERVAL_SECS * factor(n), WordMax), INTERVAL_SECS)

(***************************************************************************)
(* Faulty variant: a plain increment.                                      *)
(***************************************************************************)
plain_add_one(n) == n + 1

saturating_add_one(n) == Least(n + 1, MaxRetries)

-----------------------------------------------------------------------------
(***************************************************************************)
(* Faulty variant: the initial run reads the flag without clearing it.     *)
(***************************************************************************)
run_config_peeked ==
  /\ force_flag' = force_flag
  /\ forced_runs' = IF force_flag THEN forced_runs + 1 ELSE forced_runs

(***************************************************************************)
(* A run starts: initial_run_config consumes the one-shot flag,            *)
(* scheduled_run_config only reads it.  run_with_outcome asks the          *)
(* admission first; a stopped one fails the run before it starts.          *)
(***************************************************************************)
run_config ==
  /\ force_flag' = (force_flag /\ ~initial)
  /\ forced_runs' = IF force_flag THEN forced_runs + 1 ELSE forced_runs

run_starts(from) ==
  /\ Goes("collection", from, "preparing")
  /\ admission = "open"
  /\ run_config
  /\ heard' = FALSE
  /\ late_runs' = IF cancel THEN late_runs + 1 ELSE late_runs
  /\ UNCHANGED <<mainVars, admission, consecutive_retries, initial, client, delivery, last>>

initial_run == run_starts("starting") /\ UNCHANGED attempt

scheduled_run == run_starts("due") /\ UNCHANGED attempt

(***************************************************************************)
(* Faulty variant: the timer alone decides, the cancellation is ignored.   *)
(***************************************************************************)
next_collection_tick_uncancelled(l, to) ==
  /\ Goes(l, "waiting", to)
  /\ admission = "open"
  /\ UNCHANGED <<mainVars, admission, attempt, consecutive_retries, initial, heard,
                 force_flag, client, delivery, runHistory, last>>

(***************************************************************************)
(* The wait between two iterations: the interval elapses, or the           *)
(* cancellation wins.  A stopped admission ends the loop.                  *)
(***************************************************************************)
next_collection_tick(l, to) ==
  /\ Goes(l, "waiting", to)
  /\ admission = "open"
  /\ ~cancel
  /\ UNCHANGED <<mainVars, admission, attempt, consecutive_retries, initial, heard,
                 force_flag, client, delivery, runHistory, last>>

loop_returns(l) ==
  /\ \/ place[l] = "waiting" /\ (cancel \/ admission = "stopped")
     \/ place[l] = "due" /\ admission = "stopped"
     \/ place[l] = "awaiting_client" /\ cancel
  /\ place' = [place EXCEPT ![l] = "exited"]
  /\ UNCHANGED <<mainVars, admission, attempt, consecutive_retries, initial, heard,
                 force_flag, client, delivery, runHistory, last>>

-----------------------------------------------------------------------------
(***************************************************************************)
(* The run up to its signal listener.  The client is created once, and     *)
(* survives a run that fails later; so are the worker pool and the         *)
(* delivery task, which end at once when they are created cancelled.       *)
(***************************************************************************)
github_client_or_try_init ==
  /\ place["collection"] = "preparing"
  /\ ~client
  /\ client' = TRUE
  /\ UNCHANGED <<mainVars, admission, place, attempt, consecutive_retries, initial, heard,
                 force_flag, delivery, runHistory, last>>

prepare_collection ==
  /\ Goes("collection", "preparing", "running")
  /\ client
  /\ delivery' = IF delivery # "none" THEN delivery
                 ELSE IF cancel THEN "ended" ELSE "alive"
  /\ UNCHANGED <<mainVars, admission, attempt, consecutive_retries, initial, heard,
                 force_flag, client, runHistory, last>>

(***************************************************************************)
(* Faulty variant: a re-armed run that did not converge counts as success. *)
(***************************************************************************)
ends_with_lenient(how) ==
  /\ place' = [place EXCEPT !["collection"] = "waiting"]
  /\ attempt' = [attempt EXCEPT !["collection"] = 0]
  /\ initial' = FALSE
  /\ last' = how
  /\ consecutive_retries' =
       IF how = "clean" \/ attempt["collection"] > 0 THEN 0
       ELSE IF how = "cancelled" THEN consecutive_retries
       ELSE saturating_add_one(consecutive_retries)

(***************************************************************************)
(* A collection has ended and the loop goes back to waiting.  A run that   *)
(* was cancelled leaves the count alone, unless it was a re-armed one.     *)
(***************************************************************************)
ends_with(how) ==
  /\ place' = [place EXCEPT !["collection"] = "waiting"]
  /\ attempt' = [attempt EXCEPT !["collection"] = 0]
  /\ initial' = FALSE
  /\ last' = how
  /\ consecutive_retries' =
       IF how = "clean" THEN 0
       ELSE IF how = "cancelled" /\ attempt["collection"] = 0 THEN consecutive_retries
       ELSE saturating_add_one(consecutive_retries)

Completed(how) ==
  /\ place["collection"] = "running"
  /\ how \in {"clean", "unscanned"} \/ (how = "cancelled" /\ heard)
  /\ ends_with(how)
  /\ UNCHANGED <<mainVars, admission, heard, force_flag, client, delivery, runHistory>>

(***************************************************************************)
(* The run fails, before or after its listener is installed; also when a   *)
(* stopped admission refuses it: the initial run, which uses the flag up   *)
(* too, or a scheduled one when the admission stopped after the loop had   *)
(* asked it and before run_with_outcome did.                               *)
(***************************************************************************)
RunFails ==
  \/ place["collection"] \in {"preparing", "running"}
  \/ place["collection"] \in {"starting", "due"} /\ admission = "stopped"

run_failed ==
  /\ RunFails
  /\ attempt["collection"] = 0
  /\ ends_with("failed")
  /\ force_flag' = (force_flag /\ place["collection"] # "starting")
  /\ UNCHANGED <<mainVars, admission, heard, client, delivery, runHistory>>

-----------------------------------------------------------------------------
(***************************************************************************)
(* The team-refresh loop.                                                  *)
(***************************************************************************)
client_ready ==
  /\ Goes("team", "awaiting_client", IF admission = "open" THEN "ticking" ELSE "waiting")
  /\ ~cancel
  /\ client
  /\ UNCHANGED <<mainVars, admission, attempt, consecutive_retries, initial, heard,
                 force_flag, client, delivery, runHistory, last>>

(***************************************************************************)
(* A tick that succeeds, or, outside of a re-arm, fails and is logged.     *)
(***************************************************************************)
tick_ends ==
  /\ Goes("team", "ticking", "waiting")
  /\ attempt' = [attempt EXCEPT !["team"] = 0]
  /\ UNCHANGED <<mainVars, admission, consecutive_retries, initial, heard, force_flag,
                 client, delivery, runHistory, last>>

(***************************************************************************)
(* An indeterminate tick stops the admission.  A re-arm goes on to its     *)
(* next attempt all the same, while it has one.                            *)
(***************************************************************************)
tick_indeterminate ==
  /\ Goes("team", "ticking", IF attempt["team"] \in 1..(MaxAttempts - 1)
                             THEN "backoff" ELSE "waiting")
  /\ attempt' = [attempt EXCEPT !["team"] = IF @ = MaxAttempts THEN 0 ELSE @]
  /\ admission' = "stopped"
  /\ UNCHANGED <<mainVars, consecutive_retries, initial, heard, force_flag, client,
                 delivery, runHistory, last>>

-----------------------------------------------------------------------------
(***************************************************************************)
(* converge_on_fence: resync, run, and after a failure of either sleep and *)
(* try again, MaxAttempts times.  It does not look at the cancellation.    *)
(***************************************************************************)
fenced(l) ==
  /\ place[l] = (IF l = "collection" THEN "running" ELSE "ticking")
  /\ attempt[l] = 0
  /\ place' = [place EXCEPT ![l] = "resyncing"]
  /\ attempt' = [attempt EXCEPT ![l] = 1]
  /\ UNCHANGED <<mainVars, admission, consecutive_retries, initial, heard, force_flag,
                 client, delivery, runHistory, last>>

rearm_run ==
  /\ attempt["collection"] > 0
  /\ run_starts("resyncing")
  /\ UNCHANGED attempt

rearm_tick ==
  /\ Goes("team", "resyncing", "ticking")
  /\ admission = "open"
  /\ UNCHANGED <<mainVars, admission, attempt, consecutive_retries, initial, heard,
                 force_flag, client, delivery, runHistory, last>>

(***************************************************************************)
(* An attempt fails: the resync, the run (fenced again or failed) or the   *)
(* tick.                                                                   *)
(***************************************************************************)
Failing(l) ==
  /\ attempt[l] > 0
  /\ \/ place[l] = "resyncing"
     \/ l = "collection" /\ place[l] \in {"preparing", "running"}
     \/ l = "team" /\ place[l] = "ticking"

attempt_fails(l) ==
  /\ Failing(l)
  /\ attempt[l] < MaxAttempts
  /\ place' = [place EXCEPT ![l] = "backoff"]
  /\ UNCHANGED <<mainVars, admission, attempt, consecutive_retries, initial, heard,
                 force_flag, client, delivery, runHistory, last>>

(***************************************************************************)
(* Faulty variant: the same attempt is made again.                         *)
(***************************************************************************)
backoff_ends_uncounted(l) ==
  /\ Goes(l, "backoff", "resyncing")
  /\ UNCHANGED <<mainVars, admission, attempt, consecutive_retries, initial, heard,
                 force_flag, client, delivery, runHistory, last>>

backoff_ends(l) ==
  /\ Goes(l, "backoff", "resyncing")
  /\ attempt' = [attempt EXCEPT ![l] = @ + 1]
  /\ UNCHANGED <<mainVars, admission, consecutive_retries, initial, heard, force_flag,
                 client, delivery, runHistory, last>>

collection_gives_up ==
  /\ Failing("collection")
  /\ attempt["collection"] = MaxAttempts
  /\ ends_with("failed")
  /\ UNCHANGED <<mainVars, admission, heard, force_flag, client, delivery, runHistory>>

team_gives_up ==
  /\ Failing("team")
  /\ attempt["team"] = MaxAttempts
  /\ Goes("team", place["team"], "waiting")
  /\ attempt' = [attempt EXCEPT !["team"] = 0]
  /\ UNCHANGED <<mainVars, admission, consecutive_retries, initial, heard, force_flag,
                 client, delivery, runHistory, last>>

-----------------------------------------------------------------------------
(***************************************************************************)
(* Another write becomes indeterminate: of the delivery task, even while   *)
(* it is being aborted, of the run, or, as long as the server runs, of a   *)
(* webhook.                                                                *)
(***************************************************************************)
writer_stops ==
  /\ admission = "open"
  /\ \/ delivery \in {"alive", "aborted"}
     \/ place["collection"] = "running"
     \/ main = "serving"
  /\ admission' = "stopped"
  /\ UNCHANGED <<mainVars, place, attempt, consecutive_retries, initial, heard,
                 force_flag, client, delivery, runHistory, last>>

signal ==
  /\ main = "serving"
  /\ ~signalled
  /\ signalled' = TRUE
  /\ heard' = (place["collection"] = "running")
  /\ UNCHANGED <<main, server_failed, cancel, admission, place, attempt,
                 consecutive_retries, initial, force_flag, client, delivery, runHistory,
                 last>>

(***************************************************************************)
(* Faulty variant: only a signal ends the server.                          *)
(***************************************************************************)
Ending_on_signal == signalled

(***************************************************************************)
(* The server ends: on a signal, on a stopped admission, or by itself with *)
(* an error.  drain_shutdown cancels the loops and the worker pool.        *)
(***************************************************************************)
Ending == signalled \/ admission = "stopped"

server_fails ==
  /\ main = "serving"
  /\ main' = "draining"
  /\ server_failed' = TRUE
  /\ cancel' = TRUE
  /\ UNCHANGED <<signalled, admission, place, attempt, consecutive_retries, initial,
                 heard, force_flag, client, delivery, runHistory, last>>

server_ends ==
  /\ main = "serving"
  /\ Ending
  /\ main' = "draining"
  /\ UNCHANGED server_failed
  /\ cancel' = TRUE
  /\ UNCHANGED <<signalled, admission, place, attempt, consecutive_retries, initial,
                 heard, force_flag, client, delivery, runHistory, last>>

(***************************************************************************)
(* The drain budget of a loop is used up: it is aborted and joined.        *)
(***************************************************************************)
drain_task_expires(l) ==
  /\ main = "draining"
  /\ place[l] # "exited"
  /\ place' = [place EXCEPT ![l] = "exited"]
  /\ UNCHANGED <<mainVars, admission, attempt, consecutive_retries, initial, heard,
                 force_flag, client, delivery, runHistory, last>>

(***************************************************************************)
(* The delivery task drains, or is aborted when its budget is used up; an  *)
(* aborted one still finishes the write it is in.                          *)
(***************************************************************************)
drain_worker_pool ==
  /\ main = "draining"
  /\ delivery = "alive"
  /\ delivery' \in {"ended", "aborted"}
  /\ UNCHANGED <<mainVars, admission, place, attempt, consecutive_retries, initial, heard,
                 force_flag, client, runHistory, last>>

Verdict == IF admission = "stopped" \/ server_failed THEN "error" ELSE "ok"

(***************************************************************************)
(* Faulty variant: the admission is asked before everything has drained.   *)
(***************************************************************************)
run_returns_early ==
  /\ main = "draining"
  /\ main' = Verdict
  /\ UNCHANGED <<signalled, server_failed, cancel, admission, place, attempt,
                 consecutive_retries, initial, heard, force_flag, client, delivery,
                 runHistory, last>>

run_returns ==
  /\ main = "draining"
  /\ \A l \in Loops : place[l] = "exited"
  /\ delivery # "alive"
  /\ main' = Verdict
  /\ UNCHANGED <<signalled, server_failed, cancel, admission, place, attempt,
                 consecutive_retries, initial, heard, force_flag, client, delivery,
                 runHistory, last>>

-----------------------------------------------------------------------------
CollectionLoop ==
  \/ initial_run \/ scheduled_run \/ next_collection_tick("collection", "due")
  \/ loop_returns("collection") \/ github_client_or_try_init \/ prepare_collection
  \/ \E how \in {"clean", "unscanned", "cancelled"} : Completed(how)
  \/ run_failed \/ fenced("collection") \/ rearm_run \/ attempt_fails("collection")
  \/ backoff_ends("collection") \/ collection_gives_up

TeamRefreshLoop ==
  \/ client_ready \/ next_collection_tick("team", "awaiting_client") \/ loop_returns("team")
  \/ tick_ends \/ tick_indeterminate \/ fenced("team") \/ rearm_tick
  \/ attempt_fails("team") \/ backoff_ends("team") \/ team_gives_up

Shutdown ==
  \/ server_ends \/ drain_worker_pool \/ run_returns
  \/ \E l \in Loops : drain_task_expires(l)

Next ==
  \/ CollectionLoop \/ TeamRefreshLoop \/ Shutdown
  \/ writer_stops \/ signal \/ server_fails

Spec == Init /\ [][Next]_vars

(***************************************************************************)
(* The runtime keeps polling both loops, whose runs and ticks end because  *)
(* timeouts bound their requests and their sweep, and the shutdown.        *)
(***************************************************************************)
FairSpec ==
  /\ Spec
  /\ WF_vars(CollectionLoop) /\ WF_vars(TeamRefreshLoop) /\ WF_vars(Shutdown)

-----------------------------------------------------------------------------
(***************************************************************************)
(* --force-unlock and --force-refresh "apply only to the daemon's initial  *)
(* collection run" (OneShotFlag, app/daemon.rs:66-89): whatever is fenced  *)
(* and re-armed, at most one run is started with the flag set.             *)
(***************************************************************************)
ForcedOnce == forced_runs <= 1

(***************************************************************************)
(* A shutdown does not drag on: after the cancellation at most the run     *)
(* that was due starts and, if it is fenced, the attempts of one re-arm    *)
(* (next_collection_tick and converge_on_fence, app/daemon.rs:97-564).     *)
(***************************************************************************)
LateRunsBounded == late_runs <= 1 + MaxAttempts

(***************************************************************************)
(* The loop backs off exactly when the last collection left something      *)
(* undone, whichever of the initial, scheduled and re-armed paths it took  *)
(* (spawn_collection_loop, app/daemon.rs:786-929).                         *)
(***************************************************************************)
BackoffFollowsOutcome ==
  (place["collection"] = "waiting" /\ last # "cancelled") =>
    (consecutive_retries = 0 <=> last = "clean")

(***************************************************************************)
(* The process does not report success over an indeterminate write: only   *)
(* the one write an aborted delivery task is in can be missed, because     *)
(* drain_worker_pool does not join it (app/daemon.rs:274,                  *)
(* app/state/mod.rs:2388-2398).                                            *)
(***************************************************************************)
SuccessMeansOpen == main = "ok" /\ admission = "stopped" => delivery = "aborted"

(***************************************************************************)
(* The back-off never shrinks while failures follow one another, up to and *)
(* beyond the shift that no longer fits a u64 (collection_interval,        *)
(* app/daemon.rs:763-775).                                                 *)
(***************************************************************************)
BackoffNeverShrinks ==
  [][0 < consecutive_retries /\ consecutive_retries < consecutive_retries' =>
       collection_interval(consecutive_retries)
         <= collection_interval(consecutive_retries')]_vars

(***************************************************************************)
(* "This guarantees no further collect::run is started after shutdown is   *)
(* requested" (app/daemon.rs:95-96), apart from a run that was due or not  *)
(* yet begun when it was.                                                  *)
(***************************************************************************)
NoRunAfterShutdown ==
  [][cancel /\ place'["collection"] = "preparing" =>
       place["collection"] \in {"preparing", "due", "starting"}]_vars

(***************************************************************************)
(* Every re-arm ends: the loop returns to its schedule after a bounded     *)
(* number of attempts (converge_on_fence, app/daemon.rs:519-564).          *)
(***************************************************************************)
RearmEnds == \A l \in Loops : (attempt[l] > 0) ~> (attempt[l] = 0 \/ place[l] = "exited")

(***************************************************************************)
(* A stopped admission ends the process with an error, through the         *)
(* shutdown path (app/daemon.rs:181-188, 264-274).                         *)
(***************************************************************************)
StopIsReported ==
  (admission = "stopped" /\ main \in {"serving", "draining"}) ~> (main = "error")
=============================================================================
