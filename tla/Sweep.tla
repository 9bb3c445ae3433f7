------------------------------- MODULE Sweep -------------------------------
(***************************************************************************)
(* A collection run from its inventory to its report (SweepSaga in         *)
(* app/collect.rs), next to everything that writes evidence meanwhile.     *)
(*                                                                         *)
(* A run loads the inventory, reuses evidence that still holds, waits for  *)
(* the jobs of the other repositories while its partial publisher renders, *)
(* reconciles deleted repositories, records the org state, captures the    *)
(* projection and commits the terminal report.  It may fail between any    *)
(* two steps, time out while it waits, or be cancelled by a signal; the    *)
(* publisher of a run that is dropped lives on.  The durable write behind  *)
(* each fold is AppState's, the queue, fence and tracker behind the batch  *)
(* are DeliveryRun's, and the schedule of runs is Daemon's: here a write   *)
(* or a batch succeeds or fails as a whole.                                *)
(***************************************************************************)
EXTENDS PartialPublisher, FiniteSets

CONSTANTS Public,      \* the public repositories
          Configs,     \* the configurations the process may be started with
          NoInventory,
          MaxEvents    \* bounds what happens outside the runs

ASSUME KeysAreIds == RepoKeys \subseteq Nat /\ Public \subseteq RepoKeys
ASSUME ConfigsAssumption ==
  Configs \subseteq [max_repos : Nat \ {0}, team_roster_read_from_projection : BOOLEAN]
ASSUME EventsAssumption == MaxEvents \in Nat

VARIABLES config,
          gone,          \* history: repositories missing on GitHub when it was listed
          events,        \* how much has happened outside the runs
          run, phase,    \* the latest run and where it is
          inventory,     \* its admitted inventory
          pending,       \* jobs it waits for
          disappeared,   \* repositories it has yet to mark as deleted
          terminal,      \* its captured terminal report
          since,         \* history: evidence recorded since it looked for deleted ones
          live           \* live_observation: the sequence of live fetches

sweepVars == <<config, gone, events, run, phase, inventory, pending, disappeared, terminal,
               since, live>>
vars == <<pubVars, sweepVars>>

Phase == {"Boot", "Idle", "Init", "AwaitingBatch", "Joining", "BatchDrained",
          "Reconciling", "Committing"}

Inventory == [complete : BOOLEAN, is_capped : BOOLEAN, active : SUBSET RepoKeys]

TypeOK ==
  /\ PublisherTypeOK
  /\ config \in Configs
  /\ gone \subseteq RepoKeys
  /\ events \in 0..MaxEvents
  /\ run \in 0..MaxRuns
  /\ phase \in Phase
  /\ inventory \in Inventory \cup {NoInventory}
  /\ pending \subseteq RepoKeys
  /\ disappeared \subseteq RepoKeys
  /\ terminal \in Candidate \cup {NoReport}
  /\ since \subseteq RepoKeys
  /\ live \in Nat

Init ==
  /\ \E seen \in SUBSET RepoKeys :
       projection = [EmptyProjection EXCEPT !.repositories =
         [k \in RepoKeys |-> IF k \in seen THEN RepoCaptured(TRUE, "Observed") ELSE Absent]]
  /\ captures = 0
  /\ publication = NoReport
  /\ NoPublishers
  /\ config \in Configs
  /\ gone = {}
  /\ events = 0
  /\ run = 0
  /\ phase = "Boot"
  /\ inventory = NoInventory
  /\ pending = {}
  /\ disappeared = {}
  /\ terminal = NoReport
  /\ since = {}
  /\ live = 0

-----------------------------------------------------------------------------
(***************************************************************************)
(* Evidence written through the delivery task.  An evaluation that ends    *)
(* leaves a capture, complete, partial or with nothing observed; one that  *)
(* fails leaves a failure record on the entry there is, and nothing where  *)
(* there is none (handle_success_outcome, handle_failure_outcome).         *)
(***************************************************************************)
Record(k, ev) ==
  /\ projection' = apply_repo(projection, k, FALSE, ev)
  /\ since' = IF phase \in {"Reconciling", "Committing"} THEN since \cup {k} ELSE since

Succeeds(k) ==
  \E complete \in BOOLEAN, read \in Versions :
    /\ complete => read = "Observed"
    /\ Record(k, RepoCaptured(complete, read))

failure_evidence == RepoCaptured(FALSE, "Failed")

Fails(k) ==
  IF projection.repositories[k] = Absent
  THEN UNCHANGED <<projection, since>>
  ELSE Record(k, failure_evidence)

-----------------------------------------------------------------------------
(***************************************************************************)
(* What happens outside the runs: webhook deliveries evaluate a            *)
(* repository, perhaps after it is gone, or remove it, and the team        *)
(* refresh records and detaches rosters.                                   *)
(***************************************************************************)
Outside ==
  /\ events < MaxEvents
  /\ events' = events + 1
  /\ UNCHANGED <<captures, publication, publisher, pages, config, run, phase, inventory,
                 pending, disappeared, terminal, live>>

WebhookJob ==
  /\ Outside
  /\ \E k \in RepoKeys : Succeeds(k) \/ Fails(k)
  /\ UNCHANGED gone

(***************************************************************************)
(* execute_remove: the entry goes; no deletion is recorded.                *)
(***************************************************************************)
WebhookRemove ==
  /\ Outside
  /\ \E k \in RepoKeys :
       /\ projection.repositories[k] # Absent
       /\ projection' = apply_repo(projection, k, TRUE, RepoTombstone)
  /\ UNCHANGED <<gone, since>>

(***************************************************************************)
(* write_team_event: rosters of teams GitHub does not know, and of teams   *)
(* that own nothing any more, are detached.                                *)
(***************************************************************************)
TeamRefresh ==
  /\ Outside
  /\ \E t \in TeamKeys, status \in RosterStatus, detach \in BOOLEAN :
       /\ status = "Deleted" => detach
       /\ projection' = apply_team(projection, t, detach, TeamCaptured(status, "Observed"))
  /\ UNCHANGED <<gone, since>>

-----------------------------------------------------------------------------
(***************************************************************************)
(* warm_start_from_baseline, before the server and the loops are started:  *)
(* nothing to show skips it, and a failed render serves nothing.           *)
(***************************************************************************)
NothingStored ==
  /\ projection.org_state = Absent
  /\ \A k \in RepoKeys : projection.repositories[k] = Absent

warm_start_from_baseline ==
  /\ phase = "Boot"
  /\ phase' = "Idle"
  /\ IF CaptureAvailable
     THEN /\ captures' = captures + 1
          /\ \/ UNCHANGED publication
             \/ ~NothingStored
                /\ commit_cached_pages(candidate(projection, "WarmStart", FALSE))
     ELSE UNCHANGED <<captures, publication>>
  /\ UNCHANGED <<projection, publisher, pages, config, gone, events, run, inventory,
                 pending, disappeared, terminal, since, live>>

(***************************************************************************)
(* The run ends: its report and its bookkeeping go with it, and the        *)
(* channel to its publisher is dropped.                                    *)
(***************************************************************************)
RunEnds ==
  /\ phase' = "Idle"
  /\ inventory' = NoInventory
  /\ pending' = {}
  /\ disappeared' = {}
  /\ since' = {}
  /\ terminal' = NoReport
  /\ publisher' = [publisher EXCEPT ![run] = Dropped(@)]

(***************************************************************************)
(* The admitted inventory: what GitHub listed, cut to the max_repos lowest *)
(* ids.  A listing that broke off is incomplete: whether it did is told by *)
(* collector/inventory.rs, outside the model, and taken as exact.          *)
(***************************************************************************)
admit(found, complete) ==
  LET capped == Cardinality(found) > config.max_repos
  IN [complete |-> complete, is_capped |-> capped,
      active |-> IF capped
                 THEN {k \in found : Cardinality({j \in found : j < k}) < config.max_repos}
                 ELSE found]

load_active_repositories ==
  /\ phase = "Idle"
  /\ run < MaxRuns
  /\ run' = run + 1
  /\ \E actual \in SUBSET RepoKeys, complete \in BOOLEAN :
       \E found \in SUBSET actual :
         /\ complete => found = actual
         /\ inventory' = admit(found, complete)
         /\ gone' = gone \cup (RepoKeys \ actual)
  /\ phase' = "Init"
  /\ UNCHANGED <<pubVars, config, events, pending, disappeared,
                 terminal, since, live>>

(***************************************************************************)
(* reuse_from_baseline: an entry may be reused, if it is recent and GitHub *)
(* has not changed the repository since.  A public repository whose        *)
(* security policy is unknown, as after a failed evaluation, is read again.*)
(***************************************************************************)
should_reuse(k) ==
  /\ projection.repositories[k] # Absent
  /\ k \in Public => Observed(projection.repositories[k])

(***************************************************************************)
(* step_baseline and step_enqueue_and_await.  Ages, changes and the other  *)
(* reasons to refuse reuse (dependabot paused, alerts that contradict the  *)
(* entry, the forced refresh) are a choice.  With nothing left to read     *)
(* there is no batch.                                                      *)
(***************************************************************************)
step_enqueue_and_await ==
  /\ phase = "Init"
  /\ \E reused \in SUBSET {k \in inventory.active : should_reuse(k)} :
       pending' = inventory.active \ reused
  /\ IF pending' = {}
     THEN phase' = "BatchDrained" /\ UNCHANGED publisher
     ELSE /\ phase' = "AwaitingBatch"
          /\ \E permit \in BOOLEAN :
               publisher' = [publisher EXCEPT ![run] = Spawned(inventory.complete, permit)]
  /\ UNCHANGED <<projection, captures, publication, pages, config, gone, events, run,
                 inventory, disappeared, terminal, since, live>>

(***************************************************************************)
(* A job of the batch ends, or is lost on its way (rejected by a full      *)
(* queue, deduplicated, discarded): then its entry stays as it was.        *)
(***************************************************************************)
Deliver ==
  /\ phase = "AwaitingBatch"
  /\ \E k \in pending :
       /\ pending' = pending \ {k}
       /\ \/ Succeeds(k)
          \/ Fails(k)
          \/ UNCHANGED <<projection, since>>
  /\ UNCHANGED <<captures, publication, publisher, pages, config, gone, events, run, phase,
                 inventory, disappeared, terminal, live>>

BudgetPauses ==
  /\ run # 0
  /\ Notify(run)
  /\ UNCHANGED sweepVars

(***************************************************************************)
(* The tracker opens: the publisher is told to stop, and joined.           *)
(***************************************************************************)
BatchEnds ==
  /\ phase = "AwaitingBatch"
  /\ pending = {}
  /\ phase' = "Joining"
  /\ publisher' = [publisher EXCEPT ![run].shutdown = "sent"]
  /\ UNCHANGED <<projection, captures, publication, pages, config, gone, events, run,
                 inventory, pending, disappeared, terminal, since, live>>

PublisherJoined ==
  /\ phase = "Joining"
  /\ publisher[run].at = "done"
  /\ phase' = "BatchDrained"
  /\ UNCHANGED <<pubVars, config, gone, events, run, inventory, pending,
                 disappeared, terminal, since, live>>

(***************************************************************************)
(* Faulty variant: a capped inventory authorises deletions.                *)
(***************************************************************************)
deletion_authority_capped == inventory.complete /\ inventory.active # {}

(***************************************************************************)
(* deletion_authority: only a complete, uncapped, non-empty inventory says *)
(* that a repository is gone.                                              *)
(***************************************************************************)
deletion_authority ==
  inventory.complete /\ ~inventory.is_capped /\ inventory.active # {}

(***************************************************************************)
(* Faulty variant: disappeared repositories are left in place.             *)
(***************************************************************************)
reconcile_nothing ==
  /\ phase = "BatchDrained"
  /\ phase' = "Reconciling"
  /\ disappeared' = {}
  /\ since' = {}
  /\ UNCHANGED <<pubVars, config, gone, events, run, inventory, pending,
                 terminal, live>>

(***************************************************************************)
(* reconcile_deleted_repositories: the projection is read once, then each  *)
(* key is written.                                                         *)
(***************************************************************************)
reconcile_deleted_repositories ==
  /\ phase = "BatchDrained"
  /\ phase' = "Reconciling"
  /\ disappeared' = IF deletion_authority
                    THEN {k \in RepoKeys \ inventory.active : projection.repositories[k] # Absent}
                    ELSE {}
  /\ since' = {}
  /\ UNCHANGED <<pubVars, config, gone, events, run, inventory, pending,
                 terminal, live>>

mark_repo_deleted ==
  /\ phase = "Reconciling"
  /\ \E k \in disappeared :
       /\ disappeared' = disappeared \ {k}
       /\ projection' = apply_deleted(projection, k)
       /\ since' = since \ {k}
  /\ UNCHANGED <<captures, publication, publisher, pages, config, gone, events, run,
                 phase, inventory, pending, terminal, live>>

(***************************************************************************)
(* finalize_and_publish: record the org state, capture, and render; rosters*)
(* come from the capture or, in the older configuration, from a live fetch *)
(* with a sequence number of its own.                                      *)
(***************************************************************************)
finalize_and_publish ==
  /\ phase = "Reconciling"
  /\ disappeared = {}
  /\ CaptureAvailable
  /\ captures' = captures + 1
  /\ projection' = apply_org_state(projection, OrgCaptured(TRUE, "Observed"))
  /\ LET captured == candidate(projection', "Terminal", inventory.complete)
     IN \/ /\ config.team_roster_read_from_projection
           /\ terminal' = captured
           /\ UNCHANGED live
        \/ /\ ~config.team_roster_read_from_projection
           /\ live' = live + 1
           /\ \E rosters \in SUBSET TeamKeys :
                terminal' = [captured EXCEPT !.provenance = "LiveOverlay", !.live = live + 1,
                                             !.rosters = rosters]
  /\ phase' = "Committing"
  /\ UNCHANGED <<publication, publisher, pages, config, gone, events, run, inventory,
                 pending, disappeared, since>>

commit_terminal_publication ==
  /\ phase = "Committing"
  /\ commit_cached_pages(terminal)
  /\ RunEnds
  /\ UNCHANGED <<projection, captures, pages, config, gone, events, run, live>>

(***************************************************************************)
(* A step of the run fails, the batch times out, or a signal cancels the   *)
(* run; what it had captured is not committed.                             *)
(***************************************************************************)
RunFails ==
  /\ phase \notin {"Boot", "Idle"}
  /\ RunEnds
  /\ UNCHANGED <<projection, captures, publication, pages, config, gone, events, run,
                 live>>

(***************************************************************************)
(* The process ends and a new one rebuilds the projection.  Runs are       *)
(* counted on, to bound them.                                              *)
(***************************************************************************)
Restart ==
  /\ phase # "Boot"
  /\ events < MaxEvents
  /\ events' = events + 1
  /\ phase' = "Boot"
  /\ publication' = NoReport
  /\ captures' = 0
  /\ live' = 0
  /\ publisher' = [r \in Runs |-> Off]
  /\ pages' = [r \in Runs |-> NoReport]
  /\ inventory' = NoInventory
  /\ pending' = {}
  /\ disappeared' = {}
  /\ since' = {}
  /\ terminal' = NoReport
  /\ UNCHANGED <<projection, config, gone, run>>

RunStep ==
  \/ step_enqueue_and_await \/ BatchEnds \/ PublisherJoined
  \/ reconcile_deleted_repositories \/ mark_repo_deleted
  \/ finalize_and_publish \/ commit_terminal_publication

Next ==
  \/ warm_start_from_baseline \/ load_active_repositories
  \/ RunStep \/ Deliver \/ BudgetPauses \/ RunFails
  \/ \E r \in Runs : PublisherStep(r) /\ UNCHANGED sweepVars
  \/ WebhookJob \/ WebhookRemove \/ TeamRefresh
  \/ Restart

Spec == Init /\ [][Next]_vars

(***************************************************************************)
(* The runtime polls the publisher task and the run.                       *)
(***************************************************************************)
FairSpec ==
  /\ Spec
  /\ \A r \in Runs : WF_vars(PublisherStep(r) /\ UNCHANGED sweepVars)
  /\ WF_vars(RunStep)

-----------------------------------------------------------------------------
(***************************************************************************)
(* The admitted publication keeps the promise of ReportBoard, however      *)
(* partial, terminal and warm-start renderings of overlapping runs, writes *)
(* and restarts interleave (commit_cached_pages and                        *)
(* PublicationQuality::preserves).                                         *)
(***************************************************************************)
Shown ==
  IF publication = NoReport THEN NoReport
  ELSE [at |-> publication.sequence,
        provisional |-> publication.stage = "WarmStart",
        inventory_known |-> publication.inventory_known,
        repositories |-> publication.repositories,
        deleted |-> publication.deleted,
        rosters |-> publication.rosters]

Board == INSTANCE ReportBoard WITH report <- Shown

ReportKeepsItsPromise == Board!BoardSpec

(***************************************************************************)
(* What a run with deletion authority publishes at its end is its own      *)
(* inventory: evidence of a repository GitHub no longer lists, even one    *)
(* recorded by a job that ended after the repository was removed, has left *)
(* the capture, unless it was recorded after the run had looked            *)
(* (reconcile_deleted_repositories before finalize_and_publish).           *)
(***************************************************************************)
TerminalMatchesInventory ==
  phase = "Committing" /\ deletion_authority =>
    \A k \in RepoKeys :
      terminal.repositories[k] # "none" => k \in inventory.active \cup since

(***************************************************************************)
(* No repository is listed as deleted that GitHub has had all along, no    *)
(* matter which listings broke off, were cut to max_repos or came back     *)
(* empty (AdmittedInventory::deletion_authority).                          *)
(***************************************************************************)
NeverDeletedBlindly == projection.deleted \subseteq gone

(***************************************************************************)
(* A run that tells its publisher to stop does not wait for ever, however  *)
(* the budget goes on pausing and the interval ticking (transition: once   *)
(* stopping is observed, every event exits).                               *)
(***************************************************************************)
JoinEnds == phase = "Joining" ~> phase # "Joining"

(***************************************************************************)
(* "barriers always observe the latest applied state"                      *)
(* (docs/adr/cherry/CHE-0068-event-driven-projection-refresh.md:39): when  *)
(* a run whose inventory speaks for GitHub commits its report, a           *)
(* repository that the inventory, the projection and the run's own capture *)
(* all do without is not shown any more (commit_cached_pages).             *)
(***************************************************************************)
RemovedRepoLeavesReport ==
  [][commit_terminal_publication /\ deletion_authority =>
       \A k \in RepoKeys \ inventory.active :
         projection.repositories[k] = Absent /\ terminal.repositories[k] = "none" =>
           publication'.repositories[k] = "none"]_vars
=============================================================================
