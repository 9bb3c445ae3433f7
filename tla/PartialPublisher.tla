------------------------- MODULE PartialPublisher -------------------------
(***************************************************************************)
(* The partial publisher of a run (run_partial_publisher and               *)
(* partial_render_once, app/collect.rs): a task that renders intermediate  *)
(* reports while the run waits for its batch.  A signal (the API budget    *)
(* paused, or 15 seconds passed) renders at once when the publisher is     *)
(* idle, and is remembered as one dirty bit while it holds down.  The run  *)
(* stops it through a watch channel and joins it; a run that is dropped    *)
(* drops the channel and does not wait.                                    *)
(*                                                                         *)
(* Time is left out: the hold-down may expire, and the interval tick, at   *)
(* any moment.  What is not read again is forgotten: the state while a     *)
(* render that ends it is under way, and all but the history once the loop *)
(* is left.                                                                *)
(***************************************************************************)
EXTENDS Publication

CONSTANTS MaxRuns       \* bounds the runs, each with a publisher of its own

ASSUME RunsAssumption == MaxRuns \in Nat

VARIABLES publisher,    \* the publisher of each run
          pages         \* what it has captured and not yet committed

pubVars == <<projection, captures, publication, publisher, pages>>

Runs == 1..MaxRuns

Publisher ==
  [at       : {"off", "select", "render", "commit", "flush", "flush_commit", "done"},
   state    : {"Idle", "Clean", "Dirty"},          \* HoldingDown { dirty } when not Idle
   permit   : BOOLEAN,                             \* the permit stored in pause_notify
   shutdown : {"open", "sent", "dropped"},         \* the watch channel
   inventory_known : BOOLEAN,
   owed     : BOOLEAN,  \* history: a signal before the shutdown awaits its attempt
   late     : 0..3]     \* history: renders that ended after the shutdown was sent

Off == [at |-> "off", state |-> "Idle", permit |-> FALSE, shutdown |-> "open",
        inventory_known |-> FALSE, owed |-> FALSE, late |-> 0]

PublisherTypeOK ==
  /\ PublicationTypeOK
  /\ publisher \in [Runs -> Publisher]
  /\ pages \in [Runs -> Candidate \cup {NoReport}]

NoPublishers ==
  /\ publisher = [r \in Runs |-> Off]
  /\ pages = [r \in Runs |-> NoReport]

-----------------------------------------------------------------------------
(***************************************************************************)
(* spawn_partial_publisher_from_store.  The budget may have paused, and    *)
(* stored a permit, since the run began.                                   *)
(***************************************************************************)
Spawned(known, permit) ==
  [Off EXCEPT !.at = "select", !.inventory_known = known, !.permit = permit, !.owed = permit]

Ended(p) == [Off EXCEPT !.at = "done", !.owed = p.owed, !.late = p.late]

(***************************************************************************)
(* The run ends, and the channel with it; a publisher that has not ended   *)
(* sees the sender dropped, unless it was used.                            *)
(***************************************************************************)
Dropped(p) ==
  IF p.at \in {"off", "done"} THEN Off
  ELSE IF p.shutdown = "open" THEN [p EXCEPT !.shutdown = "dropped"] ELSE p

(***************************************************************************)
(* The budget gate pauses: notify_one stores a permit.  After the loop     *)
(* nobody takes it.                                                        *)
(***************************************************************************)
Notify(r) ==
  /\ publisher[r].at \in {"select", "render", "commit"}
  /\ publisher' = [publisher EXCEPT ![r].permit = TRUE,
                                    ![r].owed = @ \/ publisher[r].shutdown = "open"]
  /\ UNCHANGED <<projection, captures, publication, pages>>

(***************************************************************************)
(* Faulty variant: a publisher that is told to stop goes on as before.     *)
(***************************************************************************)
transition_unstoppable(stopping, state, event) ==
  CASE event = "ShutdownObserved" -> "Exit"
    [] event = "Signal" /\ state = "Idle" -> "RenderLeadingEdge"
    [] event = "Signal" /\ state # "Idle" -> "MarkDirty"
    [] event = "HoldDownExpired" /\ state = "Dirty" -> "RenderCoalesced"
    [] OTHER -> "ParkIdle"

transition(stopping, state, event) ==
  CASE stopping \/ event = "ShutdownObserved" -> "Exit"
    [] ~stopping /\ event = "Signal" /\ state = "Idle" -> "RenderLeadingEdge"
    [] ~stopping /\ event = "Signal" /\ state # "Idle" -> "MarkDirty"
    [] ~stopping /\ event = "HoldDownExpired" /\ state = "Dirty" -> "RenderCoalesced"
    [] OTHER -> "ParkIdle"

(***************************************************************************)
(* Faulty variant: a render that waits for the hold-down is forgotten.     *)
(***************************************************************************)
at_barrier_clean(state, buffered) == buffered

at_barrier(state, buffered) == state = "Dirty" \/ buffered

(***************************************************************************)
(* One turn of the loop: an event is selected, the channel is read, and    *)
(* the transition taken.  On exit a signal just selected is carried over,  *)
(* otherwise the stored permit is drained.                                 *)
(***************************************************************************)
Turn(r, event, p) ==
  LET t == transition(p.shutdown = "sent", p.state, event)
  IN publisher' = [publisher EXCEPT ![r] =
       CASE t = "Exit" ->
              IF at_barrier(p.state, event = "Signal" \/ p.permit)
              THEN [p EXCEPT !.at = "flush", !.state = "Idle", !.permit = FALSE]
              ELSE Ended(p)
         [] t \in {"RenderLeadingEdge", "RenderCoalesced"} ->
              [p EXCEPT !.at = "render", !.state = "Clean"]
         [] t = "MarkDirty" -> [p EXCEPT !.state = "Dirty"]
         [] t = "ParkIdle" -> [p EXCEPT !.state = "Idle"]]

TakePermit(r) ==
  /\ publisher[r].at = "select"
  /\ publisher[r].permit
  /\ Turn(r, "Signal", [publisher[r] EXCEPT !.permit = FALSE])
  /\ UNCHANGED <<projection, captures, publication, pages>>

IntervalTick(r) ==
  /\ publisher[r].at = "select"
  /\ Turn(r, "Signal", [publisher[r] EXCEPT !.owed = @ \/ publisher[r].shutdown = "open"])
  /\ UNCHANGED <<projection, captures, publication, pages>>

HoldDownExpires(r) ==
  /\ publisher[r].at = "select"
  /\ publisher[r].state # "Idle"
  /\ Turn(r, "HoldDownExpired", publisher[r])
  /\ UNCHANGED <<projection, captures, publication, pages>>

ObserveShutdown(r) ==
  /\ publisher[r].at = "select"
  /\ publisher[r].shutdown # "open"
  /\ Turn(r, "ShutdownObserved", publisher[r])
  /\ UNCHANGED <<projection, captures, publication, pages>>

(***************************************************************************)
(* partial_render_once: capture, render, commit.  With no sequence number  *)
(* left the render ends without a capture (the signal has then had its     *)
(* attempt), and a failed render commits nothing.                          *)
(***************************************************************************)
Rendered(p) ==
  LET q == [p EXCEPT !.owed = @ /\ p.at \in {"commit", "flush_commit"},
                     !.late = @ + (IF p.shutdown = "sent" THEN 1 ELSE 0)]
  IN IF p.at \in {"flush", "flush_commit"} THEN Ended(q) ELSE [q EXCEPT !.at = "select"]

Capture(r) ==
  /\ publisher[r].at \in {"render", "flush"}
  /\ IF CaptureAvailable
     THEN /\ captures' = captures + 1
          /\ pages' = [pages EXCEPT ![r] =
                         candidate(projection, "Intermediate", publisher[r].inventory_known)]
          /\ publisher' = [publisher EXCEPT
               ![r].at = IF @ = "render" THEN "commit" ELSE "flush_commit",
               ![r].owed = FALSE]
     ELSE /\ publisher' = [publisher EXCEPT ![r] = Rendered(@)]
          /\ UNCHANGED <<captures, pages>>
  /\ UNCHANGED <<projection, publication>>

Commit(r) ==
  /\ publisher[r].at \in {"commit", "flush_commit"}
  /\ \/ commit_cached_pages(pages[r])
     \/ UNCHANGED publication
  /\ publisher' = [publisher EXCEPT ![r] = Rendered(@)]
  /\ pages' = [pages EXCEPT ![r] = NoReport]
  /\ UNCHANGED <<projection, captures>>

PublisherStep(r) ==
  TakePermit(r) \/ IntervalTick(r) \/ HoldDownExpires(r) \/ ObserveShutdown(r)
    \/ Capture(r) \/ Commit(r)

-----------------------------------------------------------------------------
(***************************************************************************)
(* Coalescing never drops a signal: when a publisher has ended, every      *)
(* signal raised before it was told to stop has been followed by a render  *)
(* attempt, in the loop or in the flush at the barrier                     *)
(* (FinalRender::at_barrier and the "coalesce-never-drop property" of      *)
(* transition).  An attempt is a capture, or the finding that no sequence  *)
(* number is left for one (collect.rs:3116-3121).                          *)
(***************************************************************************)
FlushedAtBarrier ==
  \A r \in Runs : publisher[r].at = "done" => ~publisher[r].owed

(***************************************************************************)
(* "the barrier can take TWO render durations" (finalise_at_barrier): at   *)
(* most one render in flight when the shutdown is sent, or authorised just *)
(* before, and one flush hold up the run that joins its publisher.         *)
(***************************************************************************)
BarrierBound == \A r \in Runs : publisher[r].late <= 2
=============================================================================
