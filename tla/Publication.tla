---------------------------- MODULE Publication ----------------------------
(***************************************************************************)
(* Admission of rendered reports (app/collect.rs: PublicationQuality,      *)
(* AdmittedPublication, commit_cached_pages).  A renderer captures the     *)
(* projection under its lock together with a sequence number and the keys  *)
(* deleted at that moment, renders at its own pace, and offers the result; *)
(* under the publication mutex the offer replaces the served report or the *)
(* earlier report is retained.                                             *)
(*                                                                         *)
(* A report keeps what admission looks at.  Every candidate outside the    *)
(* tests has an ordered provenance (a projection capture, maybe overlaid   *)
(* with live rosters), so capture times and equal content, which           *)
(* preserves_entry consults for unordered ones only, are left out, as are  *)
(* pages, the disclosure on a retained report and the broadcast.           *)
(***************************************************************************)
EXTENDS EvidenceProjection

CONSTANTS NoReport,
          MaxCaptures    \* the largest capture sequence number (u64::MAX)

ASSUME CapturesAssumption == MaxCaptures \in Nat
ASSUME VersionsAssumption == Versions = {"Observed", "Failed"}

VARIABLES projection,   \* projection_state, read under its lock
          captures,     \* RENDER_CAPTURE_SEQUENCE
          publication   \* the admitted publication, or NoReport

Stage == {"WarmStart", "Intermediate", "Terminal"}
Grade == {"none", "partial", "complete"}

Candidate ==
  [stage : Stage, provenance : {"Projection", "LiveOverlay"},
   sequence : Nat, live : Nat, deleted : SUBSET RepoKeys,
   inventory_known : BOOLEAN, repositories : [RepoKeys -> Grade], rosters : SUBSET TeamKeys]

PublicationTypeOK ==
  /\ projection \in Projection
  /\ captures \in 0..MaxCaptures
  /\ publication \in Candidate \cup {NoReport}

-----------------------------------------------------------------------------
(***************************************************************************)
(* RepositoryReadState: an entry with no observed check, as a failed       *)
(* evaluation leaves it, does not count as evidence.                       *)
(***************************************************************************)
Observed(entry) == entry # Absent /\ entry.at = "Observed"

(***************************************************************************)
(* PublicationQuality::from_evidence: observed repositories and complete   *)
(* rosters.  The unread repositories of the inventory are rendered as      *)
(* pending rows and are not evidence either.                               *)
(***************************************************************************)
from_evidence(p) ==
  [k \in RepoKeys |->
     IF ~Observed(p.repositories[k]) THEN "none"
     ELSE IF p.repositories[k].complete THEN "complete" ELSE "partial"]

CompleteRosters(p) == {t \in TeamKeys : RosterComplete(p.team_rosters[t])}

candidate(p, stage, known) ==
  [stage |-> stage, provenance |-> "Projection", sequence |-> captures + 1, live |-> 0,
   deleted |-> p.deleted, inventory_known |-> known,
   repositories |-> from_evidence(p), rosters |-> CompleteRosters(p)]

(***************************************************************************)
(* Faulty variant: the sequence is counted on past its last number.        *)
(***************************************************************************)
CaptureAvailable_unchecked == captures <= MaxCaptures

(***************************************************************************)
(* next_render_capture: checked_add refuses once the sequence is used up.  *)
(***************************************************************************)
CaptureAvailable == captures < MaxCaptures

-----------------------------------------------------------------------------
(***************************************************************************)
(* Faulty variant: captures may be applied out of order.                   *)
(***************************************************************************)
succeeds_any(new, old) == TRUE

succeeds(new, old) ==
  /\ new.sequence >= old.sequence
  /\ old.provenance = "LiveOverlay" =>
       \/ new.provenance = "LiveOverlay" /\ new.live >= old.live
       \/ new.provenance = "Projection" /\ old.rosters = {}

preserves_entry(incoming, previous) == previous = "complete" => incoming = "complete"

(***************************************************************************)
(* Faulty variant: absence from the capture is enough to drop a            *)
(* repository.                                                             *)
(***************************************************************************)
preserves_unwitnessed(new, old) ==
  /\ succeeds(new, old)
  /\ old.inventory_known => new.inventory_known
  /\ \A k \in RepoKeys :
       old.repositories[k] # "none" /\ new.repositories[k] # "none" =>
         preserves_entry(new.repositories[k], old.repositories[k])
  /\ old.rosters \subseteq new.rosters

preserves(new, old) ==
  /\ succeeds(new, old)
  /\ old.inventory_known => new.inventory_known
  /\ \A k \in RepoKeys :
       old.repositories[k] # "none" =>
         IF new.repositories[k] # "none"
         THEN preserves_entry(new.repositories[k], old.repositories[k])
         ELSE k \in new.deleted
  /\ old.rosters \subseteq new.rosters

commit_cached_pages(cand) ==
  publication' =
    IF /\ publication # NoReport
       /\ publication.stage # "WarmStart"
       /\ ~preserves(cand, publication)
    THEN publication
    ELSE cand
=============================================================================
