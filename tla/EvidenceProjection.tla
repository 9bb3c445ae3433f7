------------------------ MODULE EvidenceProjection ------------------------
(***************************************************************************)
(* The read model of gh-report (projection.rs) as pure operators: one fold *)
(* step per event kind, and the rebuild of the whole projection from the   *)
(* three event journals (projection_from_stores in app/state/mod.rs).      *)
(*                                                                         *)
(* Evidence, org snapshots and rosters keep what the folds look at: are    *)
(* they complete (a roster: its status), and a version that tells one      *)
(* capture from another.                                                   *)
(***************************************************************************)
EXTENDS Naturals, Sequences

CONSTANTS RepoKeys, TeamKeys, OrgKeys,
          Versions,   \* distinguishes captures of the same completeness
          Absent      \* no entry in the map: not a capture

RosterStatus == {"Complete", "Deleted", "TransientError"}
                \* PermissionDenied is folded exactly as TransientError

(***************************************************************************)
(* The events.  A repository tombstone carries no evidence; team           *)
(* tombstones keep only the status of the roster they detach.              *)
(***************************************************************************)
RepoCaptured(c, v) == [type |-> "RepositoryStateCaptured", complete |-> c, at |-> v]
RepoTombstone == [type |-> "RepositoryStateCaptured", complete |-> FALSE, at |-> Absent]
RepoDeleted == [type |-> "RepositoryDeleted"]
OrgCaptured(c, v) == [type |-> "OrgStateCaptured", complete |-> c, at |-> v]
TeamCaptured(st, v) == [type |-> "TeamStateCaptured", status |-> st, at |-> v]

RepoCaptures == {RepoCaptured(c, v) : c \in BOOLEAN, v \in Versions}
OrgCaptures == {OrgCaptured(c, v) : c \in BOOLEAN, v \in Versions}
TeamCaptures == {TeamCaptured(st, v) : st \in RosterStatus, v \in Versions}
DomainEvents == RepoCaptures \cup {RepoTombstone, RepoDeleted}
                \cup OrgCaptures \cup TeamCaptures

ASSUME AbsentAssumption == Absent \notin RepoCaptures \cup OrgCaptures \cup TeamCaptures

Projection ==
  [repositories : [RepoKeys -> RepoCaptures \cup {Absent}],
   deleted      : SUBSET RepoKeys,
   org_state    : OrgCaptures \cup {Absent},
   team_rosters : [TeamKeys -> TeamCaptures \cup {Absent}],
   team_ghosts  : [TeamKeys -> TeamCaptures \cup {Absent}]]

EmptyProjection ==
  [repositories |-> [k \in RepoKeys |-> Absent],
   deleted      |-> {},
   org_state    |-> Absent,
   team_rosters |-> [k \in TeamKeys |-> Absent],
   team_ghosts  |-> [k \in TeamKeys |-> Absent]]

-----------------------------------------------------------------------------
(***************************************************************************)
(* The anti-downgrade rule: a complete entry is overwritten only by a      *)
(* complete capture.                                                       *)
(***************************************************************************)
Complete(entry) == entry # Absent /\ entry.complete
RosterComplete(entry) == entry # Absent /\ entry.status = "Complete"

(***************************************************************************)
(* Faulty variant: the latest capture always wins.                         *)
(***************************************************************************)
upserts_unguarded(existing_complete, incoming_complete) == TRUE

upserts(existing_complete, incoming_complete) ==
  ~existing_complete \/ incoming_complete

(***************************************************************************)
(* Faulty variant: the detached flag of a repository event is ignored.     *)
(***************************************************************************)
apply_repo_undetached(p, k, detached, ev) ==
  IF upserts(Complete(p.repositories[k]), ev.complete)
  THEN [p EXCEPT !.repositories[k] = ev, !.deleted = @ \ {k}]
  ELSE p

apply_repo(p, k, detached, ev) ==
  IF detached THEN [p EXCEPT !.repositories[k] = Absent]
  ELSE IF upserts(Complete(p.repositories[k]), ev.complete)
       THEN [p EXCEPT !.repositories[k] = ev, !.deleted = @ \ {k}]
       ELSE p

(***************************************************************************)
(* Faulty variant: a deletion leaves the live entry in place.              *)
(***************************************************************************)
apply_deleted_keeping(p, k) == [p EXCEPT !.deleted = @ \cup {k}]

apply_deleted(p, k) ==
  [p EXCEPT !.repositories[k] = Absent, !.deleted = @ \cup {k}]

apply_org_state(p, ev) ==
  IF upserts(Complete(p.org_state), ev.complete)
  THEN [p EXCEPT !.org_state = ev] ELSE p

apply_team(p, k, detached, ev) ==
  IF detached
  THEN [p EXCEPT !.team_rosters[k] = Absent,
                 !.team_ghosts[k] = IF ev.status = "Deleted" THEN ev ELSE Absent]
  ELSE [p EXCEPT !.team_rosters[k] = IF upserts(RosterComplete(@), ev.status = "Complete")
                                     THEN ev ELSE @,
                 !.team_ghosts[k] = Absent]

(***************************************************************************)
(* Projection::apply after the conversion in fold_native_event: a detached *)
(* org envelope is skipped.                                                *)
(***************************************************************************)
apply(p, env) ==
  CASE env.event.type = "RepositoryStateCaptured" ->
         apply_repo(p, env.key, env.detached, env.event)
    [] env.event.type = "RepositoryDeleted" -> apply_deleted(p, env.key)
    [] env.event.type = "OrgStateCaptured" ->
         IF env.detached THEN p ELSE apply_org_state(p, env.event)
    [] OTHER -> apply_team(p, env.key, env.detached, env.event)

-----------------------------------------------------------------------------
(***************************************************************************)
(* fold_events folds every envelope; fold_defined_events, which the org    *)
(* and team stores replay through, skips the detached ones.                *)
(***************************************************************************)
folds(skip, p, env) == IF skip /\ env.detached THEN p ELSE apply(p, env)

replay(skip, p, j) ==
  LET f[i \in 0..Len(j)] == IF i = 0 THEN p ELSE folds(skip, f[i - 1], j[i])
  IN f[Len(j)]

fold_events(p, j) == replay(FALSE, p, j)
fold_defined_events(p, j) == replay(TRUE, p, j)

projection_from_stores(events, orgs, teams) ==
  fold_defined_events(fold_defined_events(fold_events(EmptyProjection, events), orgs), teams)
=============================================================================
