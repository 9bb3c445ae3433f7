----------------------------- MODULE AppState -----------------------------
(***************************************************************************)
(* The durable write path of gh-report (app/state/mod.rs): AppState owns   *)
(* three event stores, the resident projection and the write admission.    *)
(*                                                                         *)
(* Every write runs under the admission mutex (admitted_write).  A         *)
(* repository write goes to the `events' store; an org or team write goes  *)
(* to `events' first and to its dedicated store second, without a          *)
(* transaction; only then is the event folded into the projection.  A      *)
(* failure whose effect is in doubt stops the admission for the rest of    *)
(* the process's life.  The stores are resynced in place, one after the    *)
(* other, when a run is re-armed after a fence; the projection is rebuilt  *)
(* from the stores only when the process starts.                           *)
(***************************************************************************)
EXTENDS EventStore, EvidenceProjection

CONSTANTS NoOp,        \* no write is admitted at the moment
          Overlap      \* may another revision of the program run next to this one?

ASSUME StoresAssumption == Stores = {"events", "orgs", "teams"}
ASSUME OverlapAssumption == Overlap \in BOOLEAN
ASSUME KeysAssumption ==
  /\ Keys = RepoKeys \cup TeamKeys \cup OrgKeys
  /\ Events = DomainEvents
  /\ RepoKeys \cap TeamKeys = {}
  /\ OrgKeys \cap (RepoKeys \cup TeamKeys) = {}

VARIABLES admission,    \* write_admission: "open", or "stopped" once latched
          op,           \* the write that holds the admission mutex
          resyncing,    \* the store resync_event_store reads next, or "none"
          projection,   \* projection_state
          foreign       \* history: did another process write "never", "before"
                        \* this one started, or "now", next to it

vars == <<storeVars, admission, op, resyncing, projection, foreign>>

Op == [env : Envelope, at : Stores, primary_landed : BOOLEAN]

ASSUME NoOpAssumption == NoOp \notin Op

AppTypeOK ==
  /\ TypeOK
  /\ admission \in {"open", "stopped"}
  /\ op \in Op \cup {NoOp}
  /\ resyncing \in {"none", "events", "orgs", "teams"}
  /\ projection \in Projection
  /\ foreign \in {"never", "before", "now"}

AppInit ==
  /\ Init
  /\ admission = "open"
  /\ op = NoOp
  /\ resyncing = "none"
  /\ projection = EmptyProjection
  /\ foreign = "never"

-----------------------------------------------------------------------------
(***************************************************************************)
(* The store an operation ends with.                                       *)
(***************************************************************************)
LastStore(env) ==
  IF env.key \in TeamKeys THEN "teams" ELSE IF env.key \in OrgKeys THEN "orgs" ELSE "events"

(***************************************************************************)
(* Faulty variant: the primary append is skipped.                          *)
(***************************************************************************)
admitted_write_dedicated(k, detached, e) ==
  /\ op = NoOp
  /\ admission = "open"
  /\ op' = LET env == envelope(k, detached, e)
           IN [env |-> env, at |-> LastStore(env), primary_landed |-> FALSE]
  /\ UNCHANGED <<storeVars, admission, resyncing, projection, foreign>>

(***************************************************************************)
(* admitted_write: enter only while the admission is open.                 *)
(***************************************************************************)
admitted_write(k, detached, e) ==
  /\ op = NoOp
  /\ admission = "open"
  /\ op' = [env |-> envelope(k, detached, e), at |-> "events", primary_landed |-> FALSE]
  /\ UNCHANGED <<storeVars, admission, resyncing, projection, foreign>>

(***************************************************************************)
(* The callers of remove_repo and mark_repo_deleted saw the key in the     *)
(* projection before they asked for the write.                             *)
(***************************************************************************)
WasRecorded(k) == \E i \in DOMAIN journal["events"] : journal["events"][i].key = k

LiveRosters == {e \in TeamCaptures : e.status # "Deleted"}  \* write_team_event

record_repo == \E k \in RepoKeys, e \in RepoCaptures : admitted_write(k, FALSE, e)
remove_repo == \E k \in RepoKeys : WasRecorded(k) /\ admitted_write(k, TRUE, RepoTombstone)
mark_repo_deleted == \E k \in RepoKeys : WasRecorded(k) /\ admitted_write(k, FALSE, RepoDeleted)
record_org == \E k \in OrgKeys, e \in OrgCaptures : admitted_write(k, FALSE, e)
record_team == \E k \in TeamKeys, e \in LiveRosters : admitted_write(k, FALSE, e)
detach_team == \E k \in TeamKeys, e \in TeamCaptures : admitted_write(k, TRUE, e)

-----------------------------------------------------------------------------
(***************************************************************************)
(* One store call of the operation succeeded: go on to the dedicated       *)
(* store, or fold the event and release the mutex.                         *)
(***************************************************************************)
Succeeded(landed) ==
  IF op.at = LastStore(op.env)
  THEN /\ projection' = apply(projection, op.env)
       /\ op' = NoOp
  ELSE /\ op' = [op EXCEPT !.at = LastStore(op.env), !.primary_landed = landed]
       /\ UNCHANGED projection

(***************************************************************************)
(* Faulty variant: a clean refusal of the dedicated store does not latch.  *)
(***************************************************************************)
Failed_ignoring_primary(indeterminate) ==
  /\ op' = NoOp
  /\ admission' = IF indeterminate THEN "stopped" ELSE admission
  /\ UNCHANGED projection

(***************************************************************************)
(* Faulty variant: an indeterminate outcome does not latch.                *)
(***************************************************************************)
Failed_ignoring_doubt(indeterminate) ==
  /\ op' = NoOp
  /\ admission' = IF op.primary_landed THEN "stopped" ELSE admission
  /\ UNCHANGED projection

(***************************************************************************)
(* Faulty variant: the event is published although it was not persisted.   *)
(***************************************************************************)
Failed_published(indeterminate) ==
  /\ op' = NoOp
  /\ admission' = IF op.primary_landed \/ indeterminate THEN "stopped" ELSE admission
  /\ projection' = apply(projection, op.env)

(***************************************************************************)
(* The operation returns an error.  The admission stops when the primary   *)
(* effect had landed or the error is itself indeterminate.                 *)
(***************************************************************************)
Failed(indeterminate) ==
  /\ op' = NoOp
  /\ admission' = IF op.primary_landed \/ indeterminate THEN "stopped" ELSE admission
  /\ UNCHANGED projection

(***************************************************************************)
(* Faulty variant: a fiber is detached without asking whether it is live.  *)
(***************************************************************************)
DetachIsVoid_never == FALSE

DetachIsVoid == op.env.detached /\ ~is_active(journal[op.at], op.env.key)

WriteLands ==
  /\ op # NoOp
  /\ ~DetachIsVoid
  /\ Lands(op.at, op.env)
  /\ UNCHANGED <<admission, op, resyncing, projection, foreign>>

WriteUndetermined ==
  /\ op # NoOp
  /\ ~DetachIsVoid
  /\ Undetermined(op.at, op.env)
  /\ Failed(TRUE)
  /\ UNCHANGED <<resyncing, foreign>>

(***************************************************************************)
(* Detaching a fiber that is not active writes nothing and succeeds.       *)
(***************************************************************************)
DetachNothing ==
  /\ op # NoOp
  /\ DetachIsVoid
  /\ lock_knowledge(op.at)
  /\ Succeeded(FALSE)
  /\ UNCHANGED <<storeVars, admission, resyncing, foreign>>

(***************************************************************************)
(* The store refuses before anything landed: it is latched, or the backend *)
(* reports a fence conflict or is unavailable.                             *)
(***************************************************************************)
WriteRefused ==
  /\ op # NoOp
  /\ writing[op.at] = NoWrite
  /\ Failed(knowledge[op.at] \in {"Unknown", "Landed"})
  /\ UNCHANGED <<storeVars, resyncing, foreign>>

WriteAcknowledged ==
  /\ op # NoOp
  /\ Acknowledge(op.at)
  /\ Succeeded(TRUE)
  /\ UNCHANGED <<admission, resyncing, foreign>>

WriteAfterLanded ==
  /\ op # NoOp
  /\ AfterLanded(op.at)
  /\ Failed(TRUE)
  /\ UNCHANGED <<resyncing, foreign>>

(***************************************************************************)
(* A panic inside the operation is caught and stops the admission.         *)
(***************************************************************************)
WritePanics ==
  /\ op # NoOp
  /\ Panics(op.at) \/ (writing[op.at] = NoWrite /\ UNCHANGED storeVars)
  /\ Failed(TRUE)
  /\ UNCHANGED <<resyncing, foreign>>

-----------------------------------------------------------------------------
(***************************************************************************)
(* resync_event_store: the admission is checked once, then the stores are  *)
(* re-read in order; the first failure leaves the later ones unattempted.  *)
(***************************************************************************)
NextStore(s) == CASE s = "events" -> "orgs" [] s = "orgs" -> "teams" [] OTHER -> "none"

ResyncStarts ==
  /\ resyncing = "none"
  /\ op = NoOp
  /\ admission = "open"
  /\ resyncing' = "events"
  /\ UNCHANGED <<storeVars, admission, op, projection, foreign>>

ResyncStore ==
  /\ resyncing # "none"
  /\ resync_from_authoritative(resyncing)
  /\ resyncing' = NextStore(resyncing)
  /\ UNCHANGED <<admission, op, projection, foreign>>

ResyncFails ==
  /\ resyncing # "none"
  /\ writing[resyncing] = NoWrite
  /\ resyncing' = "none"
  /\ UNCHANGED <<storeVars, admission, op, projection, foreign>>

(***************************************************************************)
(* The envelopes the six operations write.                                 *)
(***************************************************************************)
Writable ==
  {env \in Envelope :
     \/ env.key \in RepoKeys /\ ~env.detached /\ env.event \in RepoCaptures \cup {RepoDeleted}
     \/ env.key \in RepoKeys /\ env.detached /\ env.event = RepoTombstone
     \/ env.key \in OrgKeys /\ ~env.detached /\ env.event \in OrgCaptures
     \/ env.key \in TeamKeys /\ ~env.detached /\ env.event \in LiveRosters
     \/ env.key \in TeamKeys /\ env.detached /\ env.event \in TeamCaptures}

(***************************************************************************)
(* An overlapping process writes, to `events' before a dedicated store.    *)
(***************************************************************************)
OtherProcessWrites ==
  /\ Overlap
  /\ \E s \in Stores, env \in Writable :
       /\ s = "events" \/ s = LastStore(env)
       /\ ForeignWrite(s, env)
  /\ foreign' = "now"
  /\ UNCHANGED <<admission, op, resyncing, projection>>

(***************************************************************************)
(* The process dies at any point and is started again: the stores are      *)
(* opened and the projection is rebuilt from them.                         *)
(***************************************************************************)
Restart ==
  /\ Reopen
  /\ projection' = projection_from_stores(cached'["events"], cached'["orgs"], cached'["teams"])
  /\ admission' = "open"
  /\ op' = NoOp
  /\ resyncing' = "none"
  /\ foreign' = IF foreign = "never" THEN "never" ELSE "before"

AppNext ==
  \/ record_repo \/ remove_repo \/ mark_repo_deleted
  \/ record_org \/ record_team \/ detach_team
  \/ WriteLands \/ WriteUndetermined \/ DetachNothing \/ WriteRefused
  \/ WriteAcknowledged \/ WriteAfterLanded \/ WritePanics
  \/ ResyncStarts \/ ResyncStore \/ ResyncFails
  \/ OtherProcessWrites \/ Restart

AppSpec == AppInit /\ [][AppNext]_vars

-----------------------------------------------------------------------------
(***************************************************************************)
(* An open admission means that no store holds a write in doubt: whoever   *)
(* is let in writes on top of a journal the process knows                  *)
(* (admitted_write, app/state/mod.rs:405-447).                             *)
(***************************************************************************)
OpenMeansSettled ==
  (admission = "open" /\ op = NoOp) =>
    \A s \in Stores : knowledge[s] = "Ready" /\ writing[s] = NoWrite

(***************************************************************************)
(* With no other writer and an open admission, the resident repositories,  *)
(* deleted repositories and org state are what a restart would rebuild     *)
(* from the journals: persist-then-fold neither loses nor invents state,   *)
(* whatever failed and crashed before (record_repo, mark_repo_deleted,     *)
(* record_org and projection_from_stores).                                 *)
(***************************************************************************)
Replayed == projection_from_stores(journal["events"], journal["orgs"], journal["teams"])

ProjectionSurvivesRestart ==
  (foreign # "now" /\ admission = "open" /\ op = NoOp) =>
    /\ projection.repositories = Replayed.repositories
    /\ projection.deleted = Replayed.deleted
    /\ projection.org_state = Replayed.org_state

(***************************************************************************)
(* The same for team rosters: "A process restart alone folds the full      *)
(* event log and rebuilds the same projection" (OPERATIONS.md:489).        *)
(***************************************************************************)
RostersSurviveRestart ==
  (foreign # "now" /\ admission = "open" /\ op = NoOp) =>
    projection.team_rosters = Replayed.team_rosters

(***************************************************************************)
(* Nothing is live and gone at once: a repository listed as deleted has no *)
(* live entry, a ghost team has no live roster (EvidenceProjection::apply).*)
(***************************************************************************)
LiveOrGone ==
  /\ \A k \in projection.deleted : projection.repositories[k] = Absent
  /\ \A k \in TeamKeys : projection.team_ghosts[k] # Absent => projection.team_rosters[k] = Absent

(***************************************************************************)
(* No degraded capture replaces a complete one, not even through failed    *)
(* writes, resyncs and restarts: a complete entry of a process that writes *)
(* alone stays complete or disappears, except that a crash between the two *)
(* detaches of a team may bring back a roster whose removal is already in  *)
(* the primary journal (CHE-0092 in EvidenceProjection::apply).            *)
(***************************************************************************)
NoDowngrade ==
  [][foreign # "now" =>
       /\ \A k \in RepoKeys :
            Complete(projection.repositories[k]) =>
              projection'.repositories[k] = Absent \/ Complete(projection'.repositories[k])
       /\ Complete(projection.org_state) => Complete(projection'.org_state)
       /\ \A k \in TeamKeys :
            RosterComplete(projection.team_rosters[k]) =>
              \/ projection'.team_rosters[k] = Absent
              \/ RosterComplete(projection'.team_rosters[k])
              \/ ~is_active(journal'["events"], k)]_vars

(***************************************************************************)
(* The dedicated streams never run ahead of the primary one: as long as no *)
(* other process wrote, the org and team journals hold nothing but orgs    *)
(* and teams, and the writes and detaches of each fiber have their         *)
(* counterparts in the primary journal, in order, through every refused,   *)
(* lost or half-done write (record_org, record_team and detach_team write  *)
(* `events' first).  Between two teams there is no such order: a detach    *)
(* that reached only `events' before a crash is made good in `teams' by    *)
(* the next detach of that team, after whatever the other team wrote.      *)
(***************************************************************************)
Follows(d, p) ==
  \E f \in [DOMAIN d -> DOMAIN p] :
    /\ \A i \in DOMAIN d : d[i].key = p[f[i]].key /\ d[i].detached = p[f[i]].detached
    /\ \A i, n \in DOMAIN d : (i < n /\ d[i].key = d[n].key) => f[i] < f[n]

PrimaryLeads ==
  foreign = "never" =>
    \A s \in {"orgs", "teams"} :
      /\ \A i \in DOMAIN journal[s] : LastStore(journal[s][i]) = s
      /\ Follows(journal[s], journal["events"])

(***************************************************************************)
(* Each store, under the composed write path, behaves as EventStore says.  *)
(***************************************************************************)
StoreSpec == Spec
=============================================================================
