---------------------------- MODULE SweepProofs ----------------------------
(***************************************************************************)
(* Proofs about collection runs and their reports for every number of      *)
(* repositories, teams, runs and captures: the served report keeps the     *)
(* promise of ReportBoard, a publisher leaves no signal behind, the run    *)
(* that joins it waits for two renders at most, and nothing is listed as   *)
(* deleted that GitHub never missed.                                       *)
(***************************************************************************)
EXTENDS Sweep, TLAPS

(***************************************************************************)
(* No repository is both live and listed as deleted.                       *)
(***************************************************************************)
LiveOrDeleted(p) == \A k \in p.deleted : p.repositories[k] = Absent

ProjectionOK == projection \in Projection /\ LiveOrDeleted(projection)

(***************************************************************************)
(* A report, offered or admitted, shows nothing of what it lists as        *)
(* deleted.                                                                *)
(***************************************************************************)
Sound(c) ==
  /\ c \in Candidate \cup {NoReport}
  /\ c # NoReport => \A k \in c.deleted : c.repositories[k] = "none"

ReportsOK ==
  /\ captures \in 0..MaxCaptures
  /\ Sound(publication)
  /\ Sound(terminal)
  /\ pages \in [Runs -> Candidate \cup {NoReport}]
  /\ \A r \in Runs : Sound(pages[r])

(***************************************************************************)
(* Where a signal waits: it is a permit, the dirty bit, or a render that   *)
(* has not captured yet.                                                   *)
(***************************************************************************)
SignalKept(p) ==
  /\ p.at = "select" /\ p.owed => p.permit \/ p.state = "Dirty"
  /\ p.at = "commit" /\ p.owed => p.permit
  /\ p.at \in {"off", "flush_commit", "done"} => ~p.owed

(***************************************************************************)
(* How many renders have ended since the shutdown was sent.                *)
(***************************************************************************)
FewLate(p) ==
  /\ p.at \in {"flush", "flush_commit"} => p.shutdown # "open"
  /\ p.shutdown # "sent" /\ p.at # "done" => p.late = 0
  /\ p.at \in {"render", "commit"} => p.late = 0
  /\ p.at # "done" => p.late <= 1
  /\ p.late <= 2

PublishersOK ==
  /\ publisher \in [Runs -> Publisher]
  /\ \A r \in Runs : SignalKept(publisher[r]) /\ FewLate(publisher[r])

RunOK ==
  /\ config \in Configs
  /\ gone \subseteq RepoKeys
  /\ events \in 0..MaxEvents
  /\ run \in 0..MaxRuns
  /\ phase \in Phase
  /\ inventory \in Inventory \cup {NoInventory}
  /\ phase \notin {"Boot", "Idle"} => inventory \in Inventory
  /\ pending \subseteq RepoKeys
  /\ disappeared \subseteq RepoKeys
  /\ since \subseteq RepoKeys
  /\ live \in Nat

SweepInv == ProjectionOK /\ ReportsOK /\ PublishersOK /\ RunOK

-----------------------------------------------------------------------------
(***************************************************************************)
(* The folds keep a projection well formed.                                *)
(***************************************************************************)
LEMMA RepoFold ==
  ASSUME NEW p \in Projection, LiveOrDeleted(p), NEW k \in RepoKeys, NEW ev \in RepoCaptures
  PROVE  apply_repo(p, k, FALSE, ev) \in Projection /\ LiveOrDeleted(apply_repo(p, k, FALSE, ev))
<1> DEFINE q == [p EXCEPT !.repositories[k] = ev, !.deleted = @ \ {k}]
<1>1. q \in Projection
  BY DEF Projection
<1>2. LiveOrDeleted(q)
  BY DEF Projection, LiveOrDeleted
<1>3. apply_repo(p, k, FALSE, ev) \in {p, q}
  BY DEF apply_repo
<1> QED BY <1>1, <1>2, <1>3

LEMMA DetachFold ==
  ASSUME NEW p \in Projection, LiveOrDeleted(p), NEW k \in RepoKeys
  PROVE  /\ apply_repo(p, k, TRUE, RepoTombstone) \in Projection
         /\ LiveOrDeleted(apply_repo(p, k, TRUE, RepoTombstone))
BY DEF apply_repo, Projection, LiveOrDeleted

LEMMA DeletedFold ==
  ASSUME NEW p \in Projection, LiveOrDeleted(p), NEW k \in RepoKeys
  PROVE  apply_deleted(p, k) \in Projection /\ LiveOrDeleted(apply_deleted(p, k))
BY DEF apply_deleted, Projection, LiveOrDeleted

LEMMA OrgFold ==
  ASSUME NEW p \in Projection, LiveOrDeleted(p), NEW ev \in OrgCaptures
  PROVE  apply_org_state(p, ev) \in Projection /\ LiveOrDeleted(apply_org_state(p, ev))
<1>1. [p EXCEPT !.org_state = ev] \in Projection /\ LiveOrDeleted([p EXCEPT !.org_state = ev])
  BY DEF Projection, LiveOrDeleted
<1> QED BY <1>1 DEF apply_org_state

LEMMA TeamFold ==
  ASSUME NEW p \in Projection, LiveOrDeleted(p), NEW t \in TeamKeys, NEW detach \in BOOLEAN,
         NEW ev \in TeamCaptures
  PROVE  apply_team(p, t, detach, ev) \in Projection /\ LiveOrDeleted(apply_team(p, t, detach, ev))
<1> DEFINE gone1 == IF ev.status = "Deleted" THEN ev ELSE Absent
           kept == IF upserts(RosterComplete(p.team_rosters[t]), ev.status = "Complete")
                   THEN ev ELSE p.team_rosters[t]
           q1 == [p EXCEPT !.team_rosters[t] = Absent, !.team_ghosts[t] = gone1]
           q2 == [p EXCEPT !.team_rosters[t] = kept, !.team_ghosts[t] = Absent]
<1>1. gone1 \in TeamCaptures \cup {Absent} /\ kept \in TeamCaptures \cup {Absent}
  BY DEF Projection
<1> HIDE DEF gone1, kept
<1>2. q1 \in Projection /\ LiveOrDeleted(q1)
  BY <1>1 DEF Projection, LiveOrDeleted
<1>3. q2 \in Projection /\ LiveOrDeleted(q2)
  BY <1>1 DEF Projection, LiveOrDeleted
<1>4. apply_team(p, t, detach, ev) = IF detach THEN q1 ELSE q2
  BY DEF apply_team, gone1, kept, Projection
<1> QED BY <1>2, <1>3, <1>4

(***************************************************************************)
(* What is captured from a well formed projection is a sound report.       *)
(***************************************************************************)
LEMMA CandidateSound ==
  ASSUME NEW p \in Projection, LiveOrDeleted(p), NEW stage \in Stage, NEW known \in BOOLEAN,
         captures \in Nat
  PROVE  /\ candidate(p, stage, known) \in Candidate
         /\ \A k \in candidate(p, stage, known).deleted :
              candidate(p, stage, known).repositories[k] = "none"
         /\ Sound(candidate(p, stage, known))
<1> DEFINE c == candidate(p, stage, known)
<1>1. from_evidence(p) \in [RepoKeys -> Grade]
  BY DEF from_evidence, Grade
<1>2. c \in Candidate
  BY <1>1 DEF candidate, Candidate, Stage, CompleteRosters, Projection
<1>3. \A k \in p.deleted : k \in RepoKeys /\ from_evidence(p)[k] = "none"
  BY DEF from_evidence, LiveOrDeleted, Projection, Observed
<1>4. \A k \in c.deleted : c.repositories[k] = "none"
  BY <1>3 DEF candidate
<1> QED BY <1>2, <1>4 DEF Sound

(***************************************************************************)
(* Admission keeps the promise: what replaces a report that was not        *)
(* provisional preserves it.                                               *)
(***************************************************************************)
LEMMA AdmissionKeepsPromise ==
  ASSUME Sound(publication), NEW c, Sound(c), commit_cached_pages(c)
  PROVE  Sound(publication') /\ [Board!Replace \/ Board!TakeDown]_Shown
<1>1. publication' \in {publication, c}
  BY DEF commit_cached_pages
<1>2. Sound(publication')
  BY <1>1
<1>3. CASE publication' = publication
  BY <1>2, <1>3 DEF Shown
<1>4. CASE publication' = NoReport
  BY <1>2, <1>4 DEF Shown, Board!TakeDown
<1>5. CASE publication' = c /\ c # NoReport /\ publication' # publication
  <2>1. c \in Candidate
    BY <1>5 DEF Sound
  <2>2. Shown' \in Board!Report
    BY <2>1, <1>5 DEF Shown, Board!Report, Candidate, Grade, Board!Grade
  <2>3. Board!Consistent(Shown')
    BY <1>5 DEF Shown, Board!Consistent, Sound
  <2>4. CASE publication = NoReport
    BY <1>2, <2>2, <2>3, <2>4 DEF Shown, Board!Replace
  <2>5. CASE publication # NoReport /\ publication.stage = "WarmStart"
    BY <1>2, <2>2, <2>3, <2>5 DEF Shown, Board!Replace
  <2>6. CASE publication # NoReport /\ publication.stage # "WarmStart"
    <3>1. preserves(c, publication)
      BY <1>5, <2>6 DEF commit_cached_pages
    <3>2. publication \in Candidate
      BY <2>6 DEF Sound
    <3>3. Board!Keeps(Shown', Shown)
      <4>1. Shown'.at >= Shown.at
        BY <3>1, <1>5, <2>6 DEF Shown, preserves, succeeds
      <4>2. Shown.inventory_known => Shown'.inventory_known
        BY <3>1, <1>5, <2>6 DEF Shown, preserves
      <4>3. \A k \in RepoKeys :
              /\ Shown.repositories[k] = "complete" => Shown'.repositories[k] # "partial"
              /\ Shown.repositories[k] # "none" /\ Shown'.repositories[k] = "none" =>
                   k \in Shown'.deleted
        BY <3>1, <1>5, <2>6 DEF Shown, preserves, preserves_entry
      <4>4. Shown.rosters \subseteq Shown'.rosters
        BY <3>1, <1>5, <2>6 DEF Shown, preserves
      <4> QED BY <4>1, <4>2, <4>3, <4>4 DEF Board!Keeps
    <3> QED BY <1>2, <2>2, <2>3, <3>3 DEF Board!Replace
  <2> QED BY <2>4, <2>5, <2>6
<1> QED BY <1>1, <1>2, <1>3, <1>4, <1>5

-----------------------------------------------------------------------------
PublisherOK(p) == p \in Publisher /\ SignalKept(p) /\ FewLate(p)

LEMMA OnePublisher ==
  ASSUME PublishersOK, NEW r \in Runs, NEW q, PublisherOK(q),
         publisher' = [publisher EXCEPT ![r] = q]
  PROVE  PublishersOK'
BY DEF PublishersOK, PublisherOK

LEMMA EndedOK ==
  ASSUME NEW p \in Publisher, ~p.owed, p.late \in 0..2
  PROVE  PublisherOK(Ended(p))
<1> DEFINE q == [at |-> "done", state |-> "Idle", permit |-> FALSE, shutdown |-> "open",
                 inventory_known |-> FALSE, owed |-> FALSE, late |-> p.late]
<1>1. p.owed = FALSE
  BY DEF Publisher
<1>2. Ended(p) = q
  <2>1. Ended(p) = [Off EXCEPT !.at = "done", !.owed = FALSE, !.late = p.late]
    BY <1>1, Zenon DEF Ended
  <2> QED BY <2>1 DEF Off
<1>3. p.late \in 0..3 /\ p.late <= 2
  OBVIOUS
<1>4. q \in Publisher
  BY <1>3 DEF Publisher
<1>5. SignalKept(q) /\ FewLate(q)
  BY <1>3 DEF SignalKept, FewLate
<1> QED BY <1>2, <1>4, <1>5 DEF PublisherOK

(***************************************************************************)
(* A turn of the loop keeps every signal and starts no render once the     *)
(* shutdown was sent.                                                      *)
(***************************************************************************)
LEMMA TurnKeeps ==
  ASSUME PublishersOK, NEW r \in Runs, NEW p \in Publisher, p.at = "select", FewLate(p),
         NEW event \in {"Signal", "HoldDownExpired", "ShutdownObserved"},
         p.owed => event = "Signal" \/ p.permit \/ p.state = "Dirty",
         event = "ShutdownObserved" => p.shutdown # "open",
         Turn(r, event, p)
  PROVE  PublishersOK'
<1> DEFINE t == transition(p.shutdown = "sent", p.state, event)
           flush == [p EXCEPT !.at = "flush", !.state = "Idle", !.permit = FALSE]
           render == [p EXCEPT !.at = "render", !.state = "Clean"]
           dirty == [p EXCEPT !.state = "Dirty"]
           idle == [p EXCEPT !.state = "Idle"]
<1>1. CASE p.shutdown = "sent" \/ event = "ShutdownObserved"
  <2>1. t = "Exit"
    BY <1>1 DEF transition
  <2>2. CASE p.state = "Dirty" \/ event = "Signal" \/ p.permit
    <3>1. publisher' = [publisher EXCEPT ![r] = flush]
      BY <2>1, <2>2 DEF Turn, at_barrier
    <3>2. PublisherOK(flush)
      BY <1>1 DEF Publisher, PublisherOK, SignalKept, FewLate
    <3> QED BY <3>1, <3>2, OnePublisher
  <2>3. CASE ~(p.state = "Dirty" \/ event = "Signal" \/ p.permit)
    <3>1. publisher' = [publisher EXCEPT ![r] = Ended(p)]
      BY <2>1, <2>3 DEF Turn, at_barrier
    <3>2. ~p.owed /\ p.late \in 0..2
      BY <2>3 DEF FewLate, Publisher
    <3>3. PublisherOK(Ended(p))
      BY <3>2, EndedOK
    <3> QED BY <3>1, <3>3, OnePublisher
  <2> QED BY <2>2, <2>3
<1>2. CASE p.shutdown # "sent" /\ event # "ShutdownObserved"
  <2>1. CASE \/ event = "Signal" /\ p.state = "Idle"
             \/ event = "HoldDownExpired" /\ p.state = "Dirty"
    <3>1. t \in {"RenderLeadingEdge", "RenderCoalesced"}
      BY <1>2, <2>1 DEF transition
    <3>2. publisher' = [publisher EXCEPT ![r] = render]
      BY <3>1 DEF Turn
    <3>3. PublisherOK(render)
      BY <1>2 DEF Publisher, PublisherOK, SignalKept, FewLate
    <3> QED BY <3>2, <3>3, OnePublisher
  <2>2. CASE event = "Signal" /\ p.state # "Idle"
    <3>1. t = "MarkDirty"
      BY <1>2, <2>2 DEF transition
    <3>2. publisher' = [publisher EXCEPT ![r] = dirty]
      BY <3>1 DEF Turn
    <3>3. PublisherOK(dirty)
      BY <1>2 DEF Publisher, PublisherOK, SignalKept, FewLate
    <3> QED BY <3>2, <3>3, OnePublisher
  <2>3. CASE event = "HoldDownExpired" /\ p.state # "Dirty"
    <3>1. t = "ParkIdle"
      BY <1>2, <2>3 DEF transition
    <3>2. publisher' = [publisher EXCEPT ![r] = idle]
      BY <3>1 DEF Turn
    <3>3. PublisherOK(idle)
      BY <1>2, <2>3 DEF Publisher, PublisherOK, SignalKept, FewLate
    <3> QED BY <3>2, <3>3, OnePublisher
  <2> QED BY <1>2, <2>1, <2>2, <2>3
<1> QED BY <1>1, <1>2

(***************************************************************************)
(* The end of a render, with or without a report.                          *)
(***************************************************************************)
LEMMA RenderedOK ==
  ASSUME NEW p, PublisherOK(p), p.at \in {"render", "commit", "flush", "flush_commit"}
  PROVE  PublisherOK(Rendered(p))
<1> DEFINE n == IF p.shutdown = "sent" THEN 1 ELSE 0
           o == p.owed /\ p.at \in {"commit", "flush_commit"}
           l == p.late + n
           q == [p EXCEPT !.owed = o, !.late = l]
<1>1. p \in Publisher /\ p.late \in 0..1 /\ l \in 0..2 /\ l \in 0..3
  BY DEF PublisherOK, FewLate, Publisher
<1>2. o \in BOOLEAN /\ (p.at # "commit" => ~o) /\ (o => p.permit)
  BY DEF PublisherOK, SignalKept, Publisher
<1>3. q \in Publisher
  <2> HIDE DEF o, l
  <2> QED BY <1>1, <1>2 DEF Publisher
<1>4. CASE p.at \in {"flush", "flush_commit"}
  <2>1. Rendered(p) = Ended(q)
    BY <1>4 DEF Rendered
  <2>2. ~q.owed /\ q.late \in 0..2
    BY <1>1, <1>2, <1>4 DEF Publisher
  <2> QED BY <1>3, <2>1, <2>2, EndedOK
<1>5. CASE p.at \in {"render", "commit"}
  <2>1. Rendered(p) = [q EXCEPT !.at = "select"]
    BY <1>5 DEF Rendered
  <2>2. [q EXCEPT !.at = "select"] \in Publisher
    BY <1>3 DEF Publisher
  <2>3. SignalKept([q EXCEPT !.at = "select"])
    BY <1>1, <1>2 DEF SignalKept, Publisher
  <2>4. FewLate([q EXCEPT !.at = "select"])
    BY <1>1, <1>5 DEF FewLate, PublisherOK, Publisher
  <2> QED BY <2>1, <2>2, <2>3, <2>4 DEF PublisherOK
<1> QED BY <1>4, <1>5

BoardStep == [Board!Replace \/ Board!TakeDown]_Shown

LEMMA NoBoardStep == UNCHANGED publication => BoardStep
BY DEF BoardStep, Shown

(***************************************************************************)
(* The loop of a publisher: turns, captures and commits.                   *)
(***************************************************************************)
LEMMA LoopKeeps ==
  ASSUME PublishersOK, NEW r \in Runs,
         TakePermit(r) \/ IntervalTick(r) \/ HoldDownExpires(r) \/ ObserveShutdown(r)
  PROVE  PublishersOK' /\ UNCHANGED <<projection, captures, publication, pages>>
<1> DEFINE p == publisher[r]
           taken == [p EXCEPT !.permit = FALSE]
           ticked == [p EXCEPT !.owed = p.owed \/ p.shutdown = "open"]
<1>1. p \in Publisher /\ SignalKept(p) /\ FewLate(p)
  BY DEF PublishersOK
<1>2. CASE TakePermit(r)
  <2>1. taken \in Publisher /\ FewLate(taken) /\ taken.at = "select"
    BY <1>1, <1>2 DEF TakePermit, Publisher, FewLate
  <2>2. Turn(r, "Signal", taken)
    BY <1>2 DEF TakePermit
  <2>3. PublishersOK'
    BY <2>1, <2>2, TurnKeeps
  <2> QED BY <1>2, <2>3 DEF TakePermit
<1>3. CASE IntervalTick(r)
  <2>1. ticked \in Publisher
    BY <1>1 DEF Publisher
  <2>2. FewLate(ticked) /\ ticked.at = "select"
    BY <1>1, <1>3 DEF IntervalTick, Publisher, FewLate
  <2>3. Turn(r, "Signal", ticked)
    BY <1>3 DEF IntervalTick
  <2>4. PublishersOK'
    BY <2>1, <2>2, <2>3, TurnKeeps
  <2> QED BY <1>3, <2>4 DEF IntervalTick
<1>4. CASE HoldDownExpires(r)
  <2>1. p.owed => p.permit \/ p.state = "Dirty"
    BY <1>1, <1>4 DEF HoldDownExpires, SignalKept
  <2>2. p.at = "select" /\ Turn(r, "HoldDownExpired", p)
    BY <1>4 DEF HoldDownExpires
  <2>3. PublishersOK'
    BY <1>1, <2>1, <2>2, TurnKeeps
  <2> QED BY <1>4, <2>3 DEF HoldDownExpires
<1>5. CASE ObserveShutdown(r)
  <2>1. p.owed => p.permit \/ p.state = "Dirty"
    BY <1>1, <1>5 DEF ObserveShutdown, SignalKept
  <2>2. p.at = "select" /\ p.shutdown # "open" /\ Turn(r, "ShutdownObserved", p)
    BY <1>5 DEF ObserveShutdown
  <2>3. PublishersOK'
    BY <1>1, <2>1, <2>2, TurnKeeps
  <2> QED BY <1>5, <2>3 DEF ObserveShutdown
<1> QED BY <1>2, <1>3, <1>4, <1>5

LEMMA CaptureKeeps ==
  ASSUME ProjectionOK, ReportsOK, PublishersOK, NEW r \in Runs, Capture(r), UNCHANGED terminal
  PROVE  PublishersOK' /\ ReportsOK' /\ UNCHANGED <<projection, publication>>
<1> DEFINE p == publisher[r]
           c == candidate(projection, "Intermediate", p.inventory_known)
           q == [p EXCEPT !.at = IF p.at = "render" THEN "commit" ELSE "flush_commit",
                          !.owed = FALSE]
<1>1. PublisherOK(p) /\ p \in Publisher /\ p.at \in {"render", "flush"}
  BY DEF PublishersOK, PublisherOK, Capture
<1>2. CASE CaptureAvailable
  <2>1. /\ captures' = captures + 1
        /\ pages' = [pages EXCEPT ![r] = c]
        /\ publisher' = [publisher EXCEPT ![r] = q]
    BY <1>2 DEF Capture, PublishersOK
  <2>2. PublisherOK(q)
    BY <1>1 DEF PublisherOK, Publisher, SignalKept, FewLate
  <2>3. PublishersOK'
    BY <2>1, <2>2, OnePublisher
  <2>4. captures \in Nat /\ captures' \in 0..MaxCaptures
    BY <1>2, <2>1, CapturesAssumption DEF ReportsOK, CaptureAvailable
  <2>5. p.inventory_known \in BOOLEAN /\ "Intermediate" \in Stage
    BY <1>1 DEF Publisher, Stage
  <2>6. c \in Candidate /\ Sound(c)
    BY <2>4, <2>5, CandidateSound DEF ProjectionOK
  <2> HIDE DEF c
  <2>7. pages' \in [Runs -> Candidate \cup {NoReport}] /\ \A s \in Runs : Sound(pages'[s])
    BY <2>1, <2>6 DEF ReportsOK
  <2>8. UNCHANGED <<projection, publication>>
    BY DEF Capture
  <2>9. ReportsOK'
    BY <2>4, <2>7, <2>8 DEF ReportsOK, Sound
  <2> QED BY <2>3, <2>8, <2>9
<1>3. CASE ~CaptureAvailable
  <2>1. publisher' = [publisher EXCEPT ![r] = Rendered(p)]
    BY <1>3 DEF Capture
  <2>2. PublishersOK'
    BY <1>1, <2>1, RenderedOK, OnePublisher
  <2> QED BY <1>3, <2>2 DEF Capture, ReportsOK, Sound
<1> QED BY <1>2, <1>3

LEMMA CommitKeeps ==
  ASSUME ReportsOK, PublishersOK, NEW r \in Runs, Commit(r), UNCHANGED terminal
  PROVE  PublishersOK' /\ ReportsOK' /\ BoardStep /\ UNCHANGED projection
<1>1. PublisherOK(publisher[r]) /\ publisher[r].at \in {"commit", "flush_commit"}
  BY DEF PublishersOK, PublisherOK, Commit
<1>2. publisher' = [publisher EXCEPT ![r] = Rendered(publisher[r])]
  BY DEF Commit
<1>3. PublishersOK'
  BY <1>1, <1>2, RenderedOK, OnePublisher
<1>4. Sound(publication) /\ Sound(pages[r])
  BY DEF ReportsOK
<1>5. Sound(publication') /\ BoardStep
  <2>1. CASE commit_cached_pages(pages[r])
    BY <1>4, <2>1, AdmissionKeepsPromise DEF BoardStep
  <2>2. CASE UNCHANGED publication
    BY <1>4, <2>2, NoBoardStep
  <2> QED BY <2>1, <2>2 DEF Commit
<1>6. pages' = [pages EXCEPT ![r] = NoReport] /\ UNCHANGED <<projection, captures>>
  BY DEF Commit
<1>7. Sound(NoReport)
  BY DEF Sound
<1>8. pages' \in [Runs -> Candidate \cup {NoReport}] /\ \A s \in Runs : Sound(pages'[s])
  BY <1>6, <1>7 DEF ReportsOK
<1>9. ReportsOK'
  BY <1>5, <1>6, <1>8 DEF ReportsOK, Sound
<1> QED BY <1>3, <1>5, <1>6, <1>9

-----------------------------------------------------------------------------
(***************************************************************************)
(* Evidence that is written, by a run or outside it.                       *)
(***************************************************************************)
LEMMA RecordKeeps ==
  ASSUME ProjectionOK, since \subseteq RepoKeys, NEW k \in RepoKeys, Succeeds(k) \/ Fails(k)
  PROVE  ProjectionOK' /\ since' \subseteq RepoKeys
<1>1. ASSUME NEW ev \in RepoCaptures, Record(k, ev)
      PROVE  ProjectionOK' /\ since' \subseteq RepoKeys
  BY <1>1, RepoFold DEF Record, ProjectionOK, LiveOrDeleted
<1>2. CASE Succeeds(k)
  <2>1. PICK complete \in BOOLEAN, read \in Versions : Record(k, RepoCaptured(complete, read))
    BY <1>2 DEF Succeeds
  <2>2. RepoCaptured(complete, read) \in RepoCaptures
    BY DEF RepoCaptures
  <2> QED BY <1>1, <2>1, <2>2
<1>3. CASE Fails(k)
  <2>1. failure_evidence \in RepoCaptures
    <3>1. \A c \in BOOLEAN, v \in Versions : RepoCaptured(c, v) \in RepoCaptures
      BY DEF RepoCaptures
    <3>2. RepoCaptured(FALSE, "Failed") \in RepoCaptures
      BY <3>1, VersionsAssumption
    <3> QED BY <3>2 DEF failure_evidence
  <2>2. CASE Record(k, failure_evidence)
    BY <1>1, <2>1, <2>2
  <2>3. CASE UNCHANGED <<projection, since>>
    BY <2>3 DEF ProjectionOK, LiveOrDeleted
  <2> QED BY <1>3, <2>2, <2>3 DEF Fails
<1> QED BY <1>2, <1>3

LEMMA OutsideKeeps ==
  ASSUME SweepInv, WebhookJob \/ WebhookRemove \/ TeamRefresh
  PROVE  SweepInv' /\ BoardStep
<1>1. Outside
  BY DEF WebhookJob, WebhookRemove, TeamRefresh
<1>2. ReportsOK' /\ PublishersOK'
  BY <1>1 DEF Outside, SweepInv, ReportsOK, PublishersOK, Sound
<1>3. BoardStep
  BY <1>1, NoBoardStep DEF Outside
<1>4. events' \in 0..MaxEvents
  BY <1>1, EventsAssumption DEF Outside, SweepInv, RunOK
<1>5. gone' = gone /\ since' \subseteq RepoKeys /\ ProjectionOK'
  <2>1. CASE WebhookJob
    BY <2>1, RecordKeeps DEF WebhookJob, SweepInv, RunOK
  <2>2. CASE WebhookRemove
    BY <2>2, DetachFold DEF WebhookRemove, SweepInv, RunOK, ProjectionOK, LiveOrDeleted
  <2>3. CASE TeamRefresh
    <3>1. PICK t \in TeamKeys, status \in RosterStatus, detach \in BOOLEAN :
            projection' = apply_team(projection, t, detach, TeamCaptured(status, "Observed"))
      BY <2>3 DEF TeamRefresh
    <3>2. TeamCaptured(status, "Observed") \in TeamCaptures
      BY VersionsAssumption DEF TeamCaptures
    <3>3. projection' \in Projection /\ LiveOrDeleted(projection')
      BY <3>1, <3>2, TeamFold DEF SweepInv, ProjectionOK
    <3> QED BY <2>3, <3>3 DEF TeamRefresh, SweepInv, RunOK, ProjectionOK, LiveOrDeleted
  <2> QED BY <2>1, <2>2, <2>3
<1>6. RunOK'
  BY <1>1, <1>4, <1>5 DEF Outside, SweepInv, RunOK
<1> QED BY <1>2, <1>3, <1>5, <1>6 DEF SweepInv

LEMMA DeliverKeeps ==
  ASSUME SweepInv, Deliver
  PROVE  SweepInv' /\ BoardStep
<1>1. ReportsOK' /\ PublishersOK'
  BY DEF Deliver, SweepInv, ReportsOK, PublishersOK, Sound
<1>2. BoardStep
  BY NoBoardStep DEF Deliver
<1>3. ProjectionOK' /\ since' \subseteq RepoKeys /\ pending' \subseteq RepoKeys
  <2>1. PICK k \in pending :
          /\ pending' = pending \ {k}
          /\ Succeeds(k) \/ Fails(k) \/ UNCHANGED <<projection, since>>
    BY DEF Deliver
  <2>2. k \in RepoKeys /\ pending' \subseteq RepoKeys
    BY <2>1 DEF SweepInv, RunOK
  <2>3. CASE Succeeds(k) \/ Fails(k)
    BY <2>2, <2>3, RecordKeeps DEF SweepInv, RunOK
  <2>4. CASE UNCHANGED <<projection, since>>
    BY <2>2, <2>4 DEF SweepInv, RunOK, ProjectionOK, LiveOrDeleted
  <2> QED BY <2>1, <2>2, <2>3, <2>4
<1>4. RunOK'
  BY <1>3 DEF Deliver, SweepInv, RunOK
<1> QED BY <1>1, <1>2, <1>3, <1>4 DEF SweepInv

-----------------------------------------------------------------------------
(***************************************************************************)
(* The steps of a run that leave the evidence and the reports alone.       *)
(***************************************************************************)
LEMMA AdmitType ==
  ASSUME NEW found \in SUBSET RepoKeys, NEW complete \in BOOLEAN
  PROVE  admit(found, complete) \in Inventory
<1>1. (Cardinality(found) > config.max_repos) \in BOOLEAN
  OBVIOUS
<1> QED BY <1>1 DEF admit, Inventory

LEMMA SpawnedOK ==
  ASSUME NEW known \in BOOLEAN, NEW permit \in BOOLEAN
  PROVE  PublisherOK(Spawned(known, permit))
<1> DEFINE q == Spawned(known, permit)
<1>1. q \in Publisher
  <2>1. Off \in Publisher
    BY DEF Off, Publisher
  <2> QED BY <2>1 DEF Spawned, Publisher
<1>2. q.at = "select" /\ q.shutdown = "open" /\ q.late = 0
  BY DEF Spawned, Off
<1>3. q.owed = permit /\ q.permit = permit
  BY Zenon DEF Spawned, Off
<1>4. SignalKept(q)
  BY <1>2, <1>3 DEF SignalKept
<1>5. FewLate(q)
  BY <1>2 DEF FewLate
<1> QED BY <1>1, <1>4, <1>5 DEF PublisherOK

LEMMA DroppedOK ==
  ASSUME NEW p, PublisherOK(p)
  PROVE  PublisherOK(Dropped(p))
<1>1. PublisherOK(Off)
  BY DEF Off, PublisherOK, Publisher, SignalKept, FewLate
<1>2. PublisherOK([p EXCEPT !.shutdown = "dropped"]) \/ p.shutdown # "open" \/ p.at = "done"
  BY DEF PublisherOK, Publisher, SignalKept, FewLate
<1> QED BY <1>1, <1>2 DEF Dropped

LEMMA QuietStepKeeps ==
  ASSUME SweepInv,
         UNCHANGED <<projection, captures, publication, pages, terminal>>,
         PublishersOK', RunOK'
  PROVE  SweepInv' /\ BoardStep
<1>1. ProjectionOK' /\ ReportsOK'
  BY DEF SweepInv, ProjectionOK, LiveOrDeleted, ReportsOK, Sound
<1>2. BoardStep
  BY NoBoardStep
<1> QED BY <1>1, <1>2 DEF SweepInv

LEMMA BookkeepingKeeps ==
  ASSUME SweepInv,
         \/ load_active_repositories \/ step_enqueue_and_await \/ BudgetPauses
         \/ BatchEnds \/ PublisherJoined \/ reconcile_deleted_repositories
  PROVE  SweepInv' /\ BoardStep
<1>1. CASE load_active_repositories
  <2>1. /\ UNCHANGED <<pubVars, terminal>>
        /\ PublishersOK'
    BY <1>1 DEF load_active_repositories, pubVars, SweepInv, PublishersOK
  <2>2. inventory' \in Inventory /\ gone' \subseteq RepoKeys
    BY <1>1, AdmitType DEF load_active_repositories, SweepInv, RunOK
  <2>3. run' \in 0..MaxRuns
    BY <1>1, RunsAssumption DEF load_active_repositories, SweepInv, RunOK
  <2>4. RunOK'
    BY <1>1, <2>2, <2>3 DEF load_active_repositories, SweepInv, RunOK, Phase
  <2> QED BY <2>1, <2>4, QuietStepKeeps DEF pubVars
<1>2. CASE step_enqueue_and_await
  <2>1. inventory \in Inventory
    BY <1>2 DEF step_enqueue_and_await, SweepInv, RunOK
  <2>2. inventory.active \subseteq RepoKeys /\ inventory.complete \in BOOLEAN
    BY <2>1 DEF Inventory
  <2>3. RunOK'
    BY <1>2, <2>2 DEF step_enqueue_and_await, SweepInv, RunOK, Phase
  <2>4. PublishersOK'
    <3>1. CASE UNCHANGED publisher
      BY <3>1 DEF SweepInv, PublishersOK
    <3>2. ASSUME NEW permit \in BOOLEAN,
                 publisher' = [publisher EXCEPT ![run] = Spawned(inventory.complete, permit)]
          PROVE  PublishersOK'
      <4>1. CASE run \in Runs
        BY <2>2, <3>2, <4>1, SpawnedOK, OnePublisher DEF SweepInv
      <4>2. CASE run \notin Runs
        BY <3>2, <4>2 DEF SweepInv, PublishersOK
      <4> QED BY <4>1, <4>2
    <3> QED BY <1>2, <3>1, <3>2 DEF step_enqueue_and_await
  <2> QED BY <1>2, <2>3, <2>4, QuietStepKeeps DEF step_enqueue_and_await
<1>3. CASE BudgetPauses
  <2>1. run \in Runs
    BY <1>3, RunsAssumption DEF BudgetPauses, SweepInv, RunOK, Runs
  <2> DEFINE p == publisher[run]
             o == p.owed \/ p.shutdown = "open"
             q == [p EXCEPT !.permit = TRUE, !.owed = o]
  <2>2. p \in Publisher /\ SignalKept(p) /\ FewLate(p)
    BY <2>1 DEF SweepInv, PublishersOK
  <2>3. o \in BOOLEAN
    BY <2>2 DEF Publisher
  <2>4. p.at \in {"select", "render", "commit"}
    BY <1>3 DEF BudgetPauses, Notify
  <2>5. PublisherOK(q)
    <3> HIDE DEF o
    <3> QED BY <2>2, <2>3, <2>4 DEF PublisherOK, Publisher, SignalKept, FewLate
  <2>6. publisher' = [publisher EXCEPT ![run] = q]
    BY <1>3, <2>1, <2>2 DEF BudgetPauses, Notify, SweepInv, PublishersOK, Publisher
  <2>7. PublishersOK'
    BY <2>1, <2>5, <2>6, OnePublisher DEF SweepInv
  <2>8. RunOK' /\ UNCHANGED terminal
    BY <1>3 DEF BudgetPauses, sweepVars, SweepInv, RunOK
  <2> QED BY <1>3, <2>7, <2>8, QuietStepKeeps DEF BudgetPauses, Notify
<1>4. CASE BatchEnds
  <2>1. PublishersOK'
    <3> DEFINE q == [publisher[run] EXCEPT !.shutdown = "sent"]
    <3>1. publisher' = [publisher EXCEPT ![run] = q]
      BY <1>4 DEF BatchEnds
    <3>2. CASE run \in Runs
      <4>1. PublisherOK(q)
        BY <3>2 DEF SweepInv, PublishersOK, PublisherOK, Publisher, SignalKept, FewLate
      <4> QED BY <3>1, <3>2, <4>1, OnePublisher DEF SweepInv
    <3>3. CASE run \notin Runs
      BY <3>1, <3>3 DEF SweepInv, PublishersOK
    <3> QED BY <3>2, <3>3
  <2>2. RunOK'
    BY <1>4 DEF BatchEnds, SweepInv, RunOK, Phase
  <2> QED BY <1>4, <2>1, <2>2, QuietStepKeeps DEF BatchEnds
<1>5. CASE PublisherJoined
  <2>1. PublishersOK'
    BY <1>5 DEF PublisherJoined, pubVars, SweepInv, PublishersOK
  <2>2. RunOK'
    BY <1>5 DEF PublisherJoined, SweepInv, RunOK, Phase
  <2> QED BY <1>5, <2>1, <2>2, QuietStepKeeps DEF PublisherJoined, pubVars
<1>6. CASE reconcile_deleted_repositories
  <2>1. PublishersOK'
    BY <1>6 DEF reconcile_deleted_repositories, pubVars, SweepInv, PublishersOK
  <2>2. RunOK'
    BY <1>6 DEF reconcile_deleted_repositories, SweepInv, RunOK, Phase
  <2> QED BY <1>6, <2>1, <2>2, QuietStepKeeps DEF reconcile_deleted_repositories, pubVars
<1> QED BY <1>1, <1>2, <1>3, <1>4, <1>5, <1>6

-----------------------------------------------------------------------------
(***************************************************************************)
(* The steps of a run that touch the evidence or a report.                 *)
(***************************************************************************)
LEMMA RunEndsKeeps ==
  ASSUME SweepInv, RunEnds, UNCHANGED <<config, gone, events, run, live>>
  PROVE  PublishersOK' /\ RunOK' /\ Sound(terminal')
<1>1. publisher' = [publisher EXCEPT ![run] = Dropped(publisher[run])]
  BY DEF RunEnds
<1>2. PublishersOK'
  <2>1. CASE run \in Runs
    <3>1. PublisherOK(publisher[run])
      BY <2>1 DEF SweepInv, PublishersOK, PublisherOK
    <3> QED BY <1>1, <2>1, <3>1, DroppedOK, OnePublisher DEF SweepInv
  <2>2. CASE run \notin Runs
    BY <1>1, <2>2 DEF SweepInv, PublishersOK
  <2> QED BY <2>1, <2>2
<1>3. RunOK'
  BY DEF RunEnds, SweepInv, RunOK, Phase
<1>4. Sound(terminal')
  BY DEF RunEnds, Sound
<1> QED BY <1>2, <1>3, <1>4

LEMMA WarmStartKeeps ==
  ASSUME SweepInv, warm_start_from_baseline
  PROVE  SweepInv' /\ BoardStep
<1>1. ProjectionOK' /\ PublishersOK'
  BY DEF warm_start_from_baseline, SweepInv, ProjectionOK, LiveOrDeleted, PublishersOK
<1>2. RunOK'
  BY DEF warm_start_from_baseline, SweepInv, RunOK, Phase
<1>3. captures \in Nat /\ captures' \in 0..MaxCaptures
  <2>1. captures \in 0..MaxCaptures
    BY DEF SweepInv, ReportsOK
  <2>2. captures' = captures \/ (captures < MaxCaptures /\ captures' = captures + 1)
    BY DEF warm_start_from_baseline, CaptureAvailable
  <2> QED BY <2>1, <2>2, CapturesAssumption
<1>4. Sound(publication') /\ BoardStep
  <2>1. CASE UNCHANGED publication
    BY <2>1, NoBoardStep DEF SweepInv, ReportsOK
  <2>2. CASE commit_cached_pages(candidate(projection, "WarmStart", FALSE))
    <3>1. "WarmStart" \in Stage /\ FALSE \in BOOLEAN
      BY DEF Stage
    <3>2. Sound(candidate(projection, "WarmStart", FALSE))
      BY <1>3, <3>1, CandidateSound DEF SweepInv, ProjectionOK
    <3> QED BY <2>2, <3>2, AdmissionKeepsPromise DEF SweepInv, ReportsOK, BoardStep
  <2> QED BY <2>1, <2>2 DEF warm_start_from_baseline
<1>5. ReportsOK'
  BY <1>3, <1>4 DEF warm_start_from_baseline, SweepInv, ReportsOK, Sound
<1> QED BY <1>1, <1>2, <1>4, <1>5 DEF SweepInv

LEMMA MarkDeletedKeeps ==
  ASSUME SweepInv, mark_repo_deleted
  PROVE  SweepInv' /\ BoardStep
<1>1. ReportsOK' /\ PublishersOK'
  BY DEF mark_repo_deleted, SweepInv, ReportsOK, PublishersOK, Sound
<1>2. ProjectionOK'
  BY DeletedFold DEF mark_repo_deleted, SweepInv, RunOK, ProjectionOK, LiveOrDeleted
<1>3. RunOK'
  BY DEF mark_repo_deleted, SweepInv, RunOK
<1>4. BoardStep
  BY NoBoardStep DEF mark_repo_deleted
<1> QED BY <1>1, <1>2, <1>3, <1>4 DEF SweepInv

LEMMA FinalizeKeeps ==
  ASSUME SweepInv, finalize_and_publish
  PROVE  SweepInv' /\ BoardStep
<1> DEFINE c == candidate(projection', "Terminal", inventory.complete)
<1>1. ProjectionOK'
  <2>1. \A b \in BOOLEAN, v \in Versions : OrgCaptured(b, v) \in OrgCaptures
    BY DEF OrgCaptures
  <2>2. OrgCaptured(TRUE, "Observed") \in OrgCaptures
    BY <2>1, VersionsAssumption
  <2> QED BY <2>2, OrgFold DEF finalize_and_publish, SweepInv, ProjectionOK, LiveOrDeleted
<1>2. inventory \in Inventory /\ inventory.complete \in BOOLEAN
  BY DEF finalize_and_publish, SweepInv, RunOK, Inventory
<1>3. captures \in Nat /\ captures' \in 0..MaxCaptures
  <2>1. captures \in 0..MaxCaptures
    BY DEF SweepInv, ReportsOK
  <2>2. captures' = captures \/ (captures < MaxCaptures /\ captures' = captures + 1)
    BY DEF finalize_and_publish, CaptureAvailable
  <2> QED BY <2>1, <2>2, CapturesAssumption
<1>4. c \in Candidate /\ Sound(c) /\ \A k \in c.deleted : c.repositories[k] = "none"
  <2>1. "Terminal" \in Stage
    BY DEF Stage
  <2>2. projection' \in Projection /\ LiveOrDeleted(projection')
    BY <1>1 DEF ProjectionOK, LiveOrDeleted
  <2> QED BY <1>2, <1>3, <2>1, <2>2, CandidateSound
<1> HIDE DEF c
<1>5. Sound(terminal') /\ live' \in Nat
  <2>1. CASE terminal' = c /\ UNCHANGED live
    BY <1>4, <2>1 DEF SweepInv, RunOK, Sound
  <2>2. ASSUME NEW rosters \in SUBSET TeamKeys, live' = live + 1,
               terminal' = [c EXCEPT !.provenance = "LiveOverlay", !.live = live + 1,
                                     !.rosters = rosters]
        PROVE  Sound(terminal') /\ live' \in Nat
    <3>1. live + 1 \in Nat
      BY DEF SweepInv, RunOK
    <3>2. terminal' \in Candidate
      BY <1>4, <2>2, <3>1 DEF Candidate
    <3>3. terminal'.deleted = c.deleted /\ terminal'.repositories = c.repositories
      BY <1>4, <2>2 DEF Candidate
    <3> QED BY <1>4, <2>2, <3>1, <3>2, <3>3 DEF Sound
  <2> QED BY <2>1, <2>2 DEF finalize_and_publish, c
<1>6. ReportsOK'
  BY <1>3, <1>5 DEF finalize_and_publish, SweepInv, ReportsOK, Sound
<1>7. PublishersOK' /\ BoardStep
  BY NoBoardStep DEF finalize_and_publish, SweepInv, PublishersOK
<1>8. RunOK'
  BY <1>2, <1>5 DEF finalize_and_publish, SweepInv, RunOK, Phase
<1> QED BY <1>1, <1>6, <1>7, <1>8 DEF SweepInv

LEMMA EndOfRunKeeps ==
  ASSUME SweepInv, commit_terminal_publication \/ RunFails
  PROVE  SweepInv' /\ BoardStep
<1>1. /\ RunEnds
      /\ UNCHANGED <<projection, captures, pages, config, gone, events, run, live>>
  BY DEF commit_terminal_publication, RunFails
<1>2. PublishersOK' /\ RunOK' /\ Sound(terminal')
  BY <1>1, RunEndsKeeps
<1>3. Sound(publication') /\ BoardStep
  <2>1. CASE commit_terminal_publication
    BY <2>1, AdmissionKeepsPromise DEF commit_terminal_publication, SweepInv, ReportsOK, BoardStep
  <2>2. CASE RunFails
    BY <2>2, NoBoardStep DEF RunFails, SweepInv, ReportsOK
  <2> QED BY <2>1, <2>2
<1>4. ProjectionOK' /\ ReportsOK'
  BY <1>1, <1>2, <1>3 DEF SweepInv, ProjectionOK, LiveOrDeleted, ReportsOK, Sound
<1> QED BY <1>2, <1>3, <1>4 DEF SweepInv

LEMMA RestartKeeps ==
  ASSUME SweepInv, Restart
  PROVE  SweepInv' /\ BoardStep
<1>1. PublisherOK(Off) /\ Sound(NoReport)
  BY DEF Off, PublisherOK, Publisher, SignalKept, FewLate, Sound
<1>2. PublishersOK'
  BY <1>1 DEF Restart, PublishersOK, PublisherOK
<1>3. ReportsOK'
  BY <1>1, CapturesAssumption DEF Restart, ReportsOK
<1>4. ProjectionOK'
  BY DEF Restart, SweepInv, ProjectionOK, LiveOrDeleted
<1>5. RunOK'
  BY EventsAssumption DEF Restart, SweepInv, RunOK, Phase
<1>6. BoardStep
  BY DEF Restart, BoardStep, Shown, Board!TakeDown
<1> QED BY <1>2, <1>3, <1>4, <1>5, <1>6 DEF SweepInv

-----------------------------------------------------------------------------
LEMMA PublisherStepKeeps ==
  ASSUME SweepInv, NEW r \in Runs, PublisherStep(r), UNCHANGED sweepVars
  PROVE  SweepInv' /\ BoardStep
<1>1. RunOK' /\ UNCHANGED terminal
  BY DEF sweepVars, SweepInv, RunOK
<1>2. CASE TakePermit(r) \/ IntervalTick(r) \/ HoldDownExpires(r) \/ ObserveShutdown(r)
  BY <1>1, <1>2, LoopKeeps, QuietStepKeeps DEF SweepInv
<1>3. CASE Capture(r)
  <2>1. PublishersOK' /\ ReportsOK' /\ UNCHANGED <<projection, publication>>
    BY <1>1, <1>3, CaptureKeeps DEF SweepInv
  <2> QED BY <1>1, <2>1, NoBoardStep DEF SweepInv, ProjectionOK, LiveOrDeleted
<1>4. CASE Commit(r)
  <2>1. PublishersOK' /\ ReportsOK' /\ BoardStep /\ UNCHANGED projection
    BY <1>1, <1>4, CommitKeeps DEF SweepInv
  <2> QED BY <1>1, <2>1 DEF SweepInv, ProjectionOK, LiveOrDeleted
<1> QED BY <1>2, <1>3, <1>4 DEF PublisherStep

LEMMA InitEstablishes == Init => SweepInv /\ Board!BoardInit
<1> SUFFICES ASSUME Init PROVE SweepInv /\ Board!BoardInit
  OBVIOUS
<1>1. ProjectionOK
  <2>1. \A c \in BOOLEAN, v \in Versions : RepoCaptured(c, v) \in RepoCaptures
    BY DEF RepoCaptures
  <2>2. RepoCaptured(TRUE, "Observed") \in RepoCaptures
    BY <2>1, VersionsAssumption
  <2>3. PICK seen \in SUBSET RepoKeys :
          projection = [EmptyProjection EXCEPT !.repositories =
            [k \in RepoKeys |-> IF k \in seen THEN RepoCaptured(TRUE, "Observed") ELSE Absent]]
    BY DEF Init
  <2>4. projection.deleted = {}
    BY <2>3 DEF EmptyProjection
  <2>5. projection \in Projection
    BY <2>2, <2>3 DEF EmptyProjection, Projection
  <2> QED BY <2>4, <2>5 DEF ProjectionOK, LiveOrDeleted
<1>2. PublisherOK(Off) /\ Sound(NoReport)
  BY DEF Off, PublisherOK, Publisher, SignalKept, FewLate, Sound
<1>3. PublishersOK
  BY <1>2 DEF Init, NoPublishers, PublishersOK, PublisherOK
<1>4. ReportsOK
  BY <1>2, CapturesAssumption DEF Init, NoPublishers, ReportsOK
<1>5. RunOK
  BY EventsAssumption, RunsAssumption DEF Init, RunOK, Phase
<1>6. Board!BoardInit
  BY DEF Init, Board!BoardInit, Shown
<1> QED BY <1>1, <1>3, <1>4, <1>5, <1>6 DEF SweepInv

LEMMA StepKeeps ==
  ASSUME SweepInv, [Next]_vars
  PROVE  SweepInv' /\ BoardStep
<1>1. CASE UNCHANGED vars
  <2>1. PublishersOK' /\ RunOK' /\ UNCHANGED <<projection, captures, publication, pages, terminal>>
    BY <1>1 DEF vars, pubVars, sweepVars, SweepInv, PublishersOK, RunOK
  <2> QED BY <2>1, QuietStepKeeps
<1>2. CASE \E r \in Runs : PublisherStep(r) /\ UNCHANGED sweepVars
  BY <1>2, PublisherStepKeeps
<1>3. CASE WebhookJob \/ WebhookRemove \/ TeamRefresh
  BY <1>3, OutsideKeeps
<1>4. CASE \/ load_active_repositories \/ step_enqueue_and_await \/ BudgetPauses
           \/ BatchEnds \/ PublisherJoined \/ reconcile_deleted_repositories
  BY <1>4, BookkeepingKeeps
<1>5. CASE commit_terminal_publication \/ RunFails
  BY <1>5, EndOfRunKeeps
<1> QED BY <1>1, <1>2, <1>3, <1>4, <1>5, DeliverKeeps, WarmStartKeeps, MarkDeletedKeeps,
           FinalizeKeeps, RestartKeeps
        DEF Next, RunStep

(***************************************************************************)
(* The inductive invariant of the sweep.                                   *)
(***************************************************************************)
THEOREM SweepInvariant == Spec => []SweepInv
<1>1. Init => SweepInv
  BY InitEstablishes
<1>2. SweepInv /\ [Next]_vars => SweepInv'
  BY StepKeeps
<1> QED BY <1>1, <1>2, PTL DEF Spec

(***************************************************************************)
(* The report that commit_cached_pages lets through keeps the promise of   *)
(* ReportBoard, whichever renderings, runs, webhook writes and restarts    *)
(* interleave.                                                             *)
(***************************************************************************)
THEOREM ReportsKeepTheirPromise == Spec => ReportKeepsItsPromise
<1>1. Init => SweepInv /\ Board!BoardInit
  BY InitEstablishes
<1>2. SweepInv /\ [Next]_vars => SweepInv' /\ [Board!Replace \/ Board!TakeDown]_Shown
  BY StepKeeps DEF BoardStep
<1> QED BY <1>1, <1>2, PTL DEF Spec, ReportKeepsItsPromise, Board!BoardSpec

(***************************************************************************)
(* A partial publisher that has ended (run_partial_publisher) has          *)
(* attempted a render after every signal raised before it was told to      *)
(* stop.                                                                   *)
(***************************************************************************)
THEOREM SignalsAreFlushed == Spec => []FlushedAtBarrier
<1>1. SweepInv => FlushedAtBarrier
  BY DEF SweepInv, PublishersOK, SignalKept, FlushedAtBarrier
<1> QED BY <1>1, SweepInvariant, PTL

(***************************************************************************)
(* The join in step_enqueue_and_await waits for two renders at most        *)
(* (transition, finalise_at_barrier).                                      *)
(***************************************************************************)
THEOREM JoinWaitsForTwo == Spec => []BarrierBound
<1>1. SweepInv => BarrierBound
  BY DEF SweepInv, PublishersOK, FewLate, BarrierBound
<1> QED BY <1>1, SweepInvariant, PTL

(***************************************************************************)
(* The state of the runs, their publishers and their reports keeps its     *)
(* type.                                                                   *)
(***************************************************************************)
THEOREM SweepTypesHold == Spec => []TypeOK
<1>1. SweepInv => TypeOK
  BY DEF SweepInv, ProjectionOK, ReportsOK, PublishersOK, RunOK, Sound, TypeOK, PublisherTypeOK,
         PublicationTypeOK
<1> QED BY <1>1, SweepInvariant, PTL

-----------------------------------------------------------------------------
(***************************************************************************)
(* The strengthening for deletions.  An inventory with authority has lost  *)
(* only repositories that were missing on GitHub; what is to be marked, or *)
(* is marked, was missing; and live evidence of a lost repository is about *)
(* to be marked or was written since the run looked.                       *)
(***************************************************************************)
Lost == RepoKeys \ inventory.active

DeletionInv ==
  /\ projection.deleted \subseteq gone
  /\ disappeared \subseteq gone
  /\ phase \notin {"Boot", "Idle"} /\ deletion_authority => Lost \subseteq gone
  /\ phase = "Reconciling" /\ deletion_authority =>
       \A k \in Lost : projection.repositories[k] # Absent => k \in disappeared \cup since
  /\ phase = "Committing" /\ deletion_authority =>
       \A k \in Lost : terminal.repositories[k] # "none" => k \in since

(***************************************************************************)
(* A step that writes evidence of k: nothing new is listed as deleted, and *)
(* evidence of k is noted once the run has looked.                         *)
(***************************************************************************)
LEMMA EvidenceWritten ==
  ASSUME SweepInv, DeletionInv,
         UNCHANGED <<gone, disappeared, phase, inventory, terminal>>,
         projection'.deleted \subseteq projection.deleted,
         since \subseteq since',
         \A j \in RepoKeys :
           \/ projection'.repositories[j] \in {projection.repositories[j], Absent}
           \/ phase = "Reconciling" => j \in since'
  PROVE  DeletionInv'
BY DEF DeletionInv, Lost, deletion_authority

LEMMA RecordNotes ==
  ASSUME SweepInv, NEW k \in RepoKeys,
         Succeeds(k) \/ Fails(k) \/ UNCHANGED <<projection, since>>
  PROVE  /\ projection'.deleted \subseteq projection.deleted
         /\ since \subseteq since'
         /\ \A j \in RepoKeys :
              \/ projection'.repositories[j] \in {projection.repositories[j], Absent}
              \/ phase = "Reconciling" => j \in since'
<1>1. projection \in Projection
  BY DEF SweepInv, ProjectionOK
<1>2. ASSUME NEW ev, Record(k, ev)
      PROVE  /\ projection'.deleted \subseteq projection.deleted
             /\ since \subseteq since'
             /\ \A j \in RepoKeys :
                  \/ projection'.repositories[j] \in {projection.repositories[j], Absent}
                  \/ phase = "Reconciling" => j \in since'
  <2> DEFINE q == [projection EXCEPT !.repositories[k] = ev, !.deleted = @ \ {k}]
  <2>1. projection' \in {projection, q}
    BY <1>2 DEF Record, apply_repo
  <2>2. q.deleted \subseteq projection.deleted
    BY <1>1 DEF Projection
  <2>3. \A j \in RepoKeys : j = k \/ q.repositories[j] = projection.repositories[j]
    BY <1>1 DEF Projection
  <2>4. since \subseteq since' /\ (phase = "Reconciling" => k \in since')
    BY <1>2 DEF Record
  <2> QED BY <2>1, <2>2, <2>3, <2>4
<1> QED BY <1>2 DEF Succeeds, Fails

LEMMA OutsideNotes ==
  ASSUME SweepInv, DeletionInv, WebhookJob \/ WebhookRemove \/ TeamRefresh \/ Deliver
  PROVE  DeletionInv'
<1>1. UNCHANGED <<gone, disappeared, phase, inventory, terminal>>
  BY DEF WebhookJob, WebhookRemove, TeamRefresh, Outside, Deliver
<1>2. projection \in Projection
  BY DEF SweepInv, ProjectionOK
<1>3. CASE WebhookJob \/ Deliver
  <2>1. PICK k \in RepoKeys : Succeeds(k) \/ Fails(k) \/ UNCHANGED <<projection, since>>
    BY <1>3 DEF WebhookJob, Deliver, SweepInv, RunOK
  <2> QED BY <1>1, <2>1, RecordNotes, EvidenceWritten
<1>4. CASE WebhookRemove
  <2>1. PICK k \in RepoKeys : projection' = [projection EXCEPT !.repositories[k] = Absent]
    BY <1>4 DEF WebhookRemove, apply_repo
  <2>2. /\ projection'.deleted = projection.deleted
        /\ \A j \in RepoKeys :
             projection'.repositories[j] \in {projection.repositories[j], Absent}
    BY <1>2, <2>1 DEF Projection
  <2> QED BY <1>1, <1>4, <2>2, EvidenceWritten DEF WebhookRemove
<1>5. CASE TeamRefresh
  <2>1. PICK t \in TeamKeys, status \in RosterStatus, detach \in BOOLEAN :
          projection' = apply_team(projection, t, detach, TeamCaptured(status, "Observed"))
    BY <1>5 DEF TeamRefresh
  <2>2. /\ projection'.deleted = projection.deleted
        /\ projection'.repositories = projection.repositories
    BY <1>2, <2>1 DEF apply_team, Projection
  <2> QED BY <1>1, <1>5, <2>2, EvidenceWritten DEF TeamRefresh
<1> QED BY <1>3, <1>4, <1>5

(***************************************************************************)
(* The steps of the run that look for lost repositories and mark them.     *)
(***************************************************************************)
LEMMA LoadNotes ==
  ASSUME SweepInv, DeletionInv, load_active_repositories
  PROVE  DeletionInv'
<1>1. PICK actual \in SUBSET RepoKeys, complete \in BOOLEAN :
        \E found \in SUBSET actual :
          /\ complete => found = actual
          /\ inventory' = admit(found, complete)
          /\ gone' = gone \cup (RepoKeys \ actual)
  BY DEF load_active_repositories
<1>2. PICK found \in SUBSET actual :
          /\ complete => found = actual
          /\ inventory' = admit(found, complete)
          /\ gone' = gone \cup (RepoKeys \ actual)
  BY <1>1
<1> DEFINE capped == Cardinality(found) > config.max_repos
<1>3. inventory'.complete = complete /\ inventory'.is_capped = capped
  BY <1>2, Zenon DEF admit
<1>4. ~capped => inventory'.active = found
  BY <1>2 DEF admit
<1>5. deletion_authority' => Lost' \subseteq gone'
  <2> HIDE DEF capped
  <2> QED BY <1>2, <1>3, <1>4 DEF deletion_authority, Lost
<1>6. phase' = "Init" /\ UNCHANGED <<projection, disappeared>> /\ gone \subseteq gone'
  BY <1>2 DEF load_active_repositories, pubVars
<1> QED BY <1>5, <1>6 DEF DeletionInv

LEMMA ReconcileNotes ==
  ASSUME SweepInv, DeletionInv, reconcile_deleted_repositories \/ mark_repo_deleted
  PROVE  DeletionInv'
<1>1. UNCHANGED <<gone, inventory>> /\ (deletion_authority' <=> deletion_authority) /\ Lost' = Lost
  BY DEF reconcile_deleted_repositories, mark_repo_deleted, deletion_authority, Lost
<1>2. CASE reconcile_deleted_repositories
  <2>1. phase = "BatchDrained" /\ phase' = "Reconciling" /\ UNCHANGED projection
    BY <1>2 DEF reconcile_deleted_repositories, pubVars
  <2>2. CASE deletion_authority
    <3>1. disappeared' = {k \in Lost : projection.repositories[k] # Absent}
      BY <1>2, <2>2 DEF reconcile_deleted_repositories, Lost
    <3> QED BY <1>1, <2>1, <2>2, <3>1 DEF DeletionInv
  <2>3. CASE ~deletion_authority
    <3>1. disappeared' = {}
      BY <1>2, <2>3 DEF reconcile_deleted_repositories
    <3> QED BY <1>1, <2>1, <2>3, <3>1 DEF DeletionInv
  <2> QED BY <2>2, <2>3
<1>3. CASE mark_repo_deleted
  <2>1. PICK k \in disappeared :
          /\ disappeared' = disappeared \ {k}
          /\ projection' = apply_deleted(projection, k)
          /\ since' = since \ {k}
    BY <1>3 DEF mark_repo_deleted
  <2>2. phase = "Reconciling" /\ phase' = "Reconciling"
    BY <1>3 DEF mark_repo_deleted
  <2>3. k \in RepoKeys /\ projection \in Projection
    BY <2>1 DEF SweepInv, RunOK, ProjectionOK
  <2>4. projection'.deleted = projection.deleted \cup {k}
    BY <2>1, <2>3 DEF apply_deleted, Projection
  <2>5. \A j \in RepoKeys :
          projection'.repositories[j] = IF j = k THEN Absent ELSE projection.repositories[j]
    BY <2>1, <2>3 DEF apply_deleted, Projection
  <2>6. projection'.deleted \subseteq gone' /\ disappeared' \subseteq gone'
    BY <1>1, <2>1, <2>4 DEF DeletionInv
  <2>7. deletion_authority =>
          \A j \in Lost : projection'.repositories[j] # Absent => j \in disappeared' \cup since'
    BY <2>1, <2>2, <2>5 DEF DeletionInv, Lost
  <2> QED BY <1>1, <2>2, <2>6, <2>7 DEF DeletionInv
<1> QED BY <1>2, <1>3

LEMMA FinalizeNotes ==
  ASSUME SweepInv, DeletionInv, finalize_and_publish
  PROVE  DeletionInv'
<1>1. /\ UNCHANGED <<gone, inventory, since, disappeared>> /\ disappeared = {}
      /\ phase = "Reconciling" /\ phase' = "Committing"
  BY DEF finalize_and_publish
<1>2. projection \in Projection
  BY DEF SweepInv, ProjectionOK
<1>3. /\ projection'.deleted = projection.deleted
      /\ projection'.repositories = projection.repositories
  BY <1>2 DEF finalize_and_publish, apply_org_state, Projection
<1>4. terminal'.repositories = from_evidence(projection')
  <2> DEFINE c == candidate(projection', "Terminal", inventory.complete)
  <2>1. c.repositories = from_evidence(projection')
    BY DEF candidate
  <2>2. \A rosters : [c EXCEPT !.provenance = "LiveOverlay", !.live = live + 1,
                              !.rosters = rosters].repositories = c.repositories
    BY DEF candidate
  <2> HIDE DEF c
  <2> QED BY <2>1, <2>2 DEF finalize_and_publish, c
<1>5. \A k \in RepoKeys : terminal'.repositories[k] # "none" => projection.repositories[k] # Absent
  BY <1>3, <1>4 DEF from_evidence, Observed
<1>6. (deletion_authority' <=> deletion_authority) /\ Lost' = Lost
  BY <1>1 DEF deletion_authority, Lost
<1> QED BY <1>1, <1>3, <1>5, <1>6 DEF DeletionInv, Lost

(***************************************************************************)
(* The other steps leave the evidence alone, or end the run.               *)
(***************************************************************************)
LEMMA QuietNotes ==
  ASSUME SweepInv, DeletionInv,
         UNCHANGED <<projection, gone, disappeared, since, terminal, inventory>>,
         \/ UNCHANGED phase
         \/ phase \notin {"Boot", "Idle"} /\ phase' \notin {"Reconciling", "Committing"}
         \/ phase' \in {"Boot", "Idle"}
  PROVE  DeletionInv'
<1>1. (deletion_authority' <=> deletion_authority) /\ Lost' = Lost
  BY DEF deletion_authority, Lost
<1> QED BY <1>1 DEF DeletionInv

LEMMA EndNotes ==
  ASSUME SweepInv, DeletionInv, commit_terminal_publication \/ RunFails \/ Restart
  PROVE  DeletionInv'
<1>1. UNCHANGED <<projection, gone>> /\ disappeared' = {} /\ phase' \in {"Boot", "Idle"}
  BY DEF commit_terminal_publication, RunFails, Restart, RunEnds
<1> QED BY <1>1 DEF DeletionInv

LEMMA LoopLeavesEvidence ==
  ASSUME NEW r \in Runs, PublisherStep(r)
  PROVE  UNCHANGED projection
BY DEF PublisherStep, TakePermit, IntervalTick, HoldDownExpires, ObserveShutdown, Turn,
       Capture, Commit

LEMMA StepNotes ==
  ASSUME SweepInv, DeletionInv, [Next]_vars
  PROVE  DeletionInv'
<1>1. CASE UNCHANGED vars
  BY <1>1, QuietNotes DEF vars, pubVars, sweepVars
<1>2. CASE warm_start_from_baseline
  BY <1>2, QuietNotes DEF warm_start_from_baseline
<1>3. CASE load_active_repositories
  BY <1>3, LoadNotes
<1>4. CASE step_enqueue_and_await
  <2>1. UNCHANGED <<projection, gone, disappeared, since, terminal, inventory>>
    BY <1>4 DEF step_enqueue_and_await
  <2>2. phase = "Init" /\ phase' \in {"BatchDrained", "AwaitingBatch"}
    BY <1>4 DEF step_enqueue_and_await
  <2> QED BY <2>1, <2>2, QuietNotes
<1>5. CASE BatchEnds \/ PublisherJoined
  BY <1>5, QuietNotes DEF BatchEnds, PublisherJoined, pubVars
<1>6. CASE reconcile_deleted_repositories \/ mark_repo_deleted
  BY <1>6, ReconcileNotes
<1>7. CASE finalize_and_publish
  BY <1>7, FinalizeNotes
<1>8. CASE commit_terminal_publication \/ RunFails \/ Restart
  BY <1>8, EndNotes
<1>9. CASE WebhookJob \/ WebhookRemove \/ TeamRefresh \/ Deliver
  BY <1>9, OutsideNotes
<1>10. CASE BudgetPauses
  BY <1>10, QuietNotes DEF BudgetPauses, Notify, sweepVars
<1>11. CASE \E r \in Runs : PublisherStep(r) /\ UNCHANGED sweepVars
  BY <1>11, LoopLeavesEvidence, QuietNotes DEF sweepVars
<1> QED BY <1>1, <1>2, <1>3, <1>4, <1>5, <1>6, <1>7, <1>8, <1>9, <1>10, <1>11
        DEF Next, RunStep

LEMMA DeletionHolds == Spec => []DeletionInv
<1>1. Init => DeletionInv
  BY DEF Init, DeletionInv, EmptyProjection
<1>2. SweepInv /\ DeletionInv /\ [Next]_vars => DeletionInv'
  BY StepNotes
<1> QED BY <1>1, <1>2, SweepInvariant, PTL DEF Spec

(***************************************************************************)
(* Only what GitHub has once listed as missing is ever listed as deleted.  *)
(***************************************************************************)
THEOREM NoBlindDeletion == Spec => []NeverDeletedBlindly
<1>1. DeletionInv => NeverDeletedBlindly
  BY DEF DeletionInv, NeverDeletedBlindly
<1> QED BY <1>1, DeletionHolds, PTL

(***************************************************************************)
(* The terminal report of a run with deletion authority is its inventory.  *)
(***************************************************************************)
THEOREM TerminalIsTheInventory == Spec => []TerminalMatchesInventory
<1>1. DeletionInv => TerminalMatchesInventory
  BY DEF DeletionInv, TerminalMatchesInventory, Lost
<1> QED BY <1>1, DeletionHolds, PTL
=============================================================================
