---------------------------- MODULE ReportBoard ----------------------------
(***************************************************************************)
(* What a reader of the served report is promised, whoever renders it: the *)
(* report moves forward through captures of the evidence, and what it has  *)
(* shown it goes on showing; a repository leaves it only by moving to the  *)
(* list of deleted ones.  A provisional report, put up from stored state   *)
(* before anything was collected, gives way to any other.                  *)
(***************************************************************************)
EXTENDS Naturals

CONSTANTS RepoKeys, TeamKeys,
          NoReport          \* nothing is served

VARIABLE report

Grade == {"none", "partial", "complete"}   \* what is shown of a repository

Report == [at : Nat, provisional : BOOLEAN, inventory_known : BOOLEAN,
           repositories : [RepoKeys -> Grade], deleted : SUBSET RepoKeys,
           rosters : SUBSET TeamKeys]

Consistent(r) == \A k \in r.deleted : r.repositories[k] = "none"

(***************************************************************************)
(* New evidence keeps the old: no earlier capture, no known inventory      *)
(* turned unknown, no repository degraded, none dropped unless listed as   *)
(* deleted, no roster dropped.                                             *)
(***************************************************************************)
Keeps(new, old) ==
  /\ new.at >= old.at
  /\ old.inventory_known => new.inventory_known
  /\ \A k \in RepoKeys :
       /\ old.repositories[k] = "complete" => new.repositories[k] # "partial"
       /\ old.repositories[k] # "none" /\ new.repositories[k] = "none" => k \in new.deleted
  /\ old.rosters \subseteq new.rosters

BoardInit == report = NoReport

Replace ==
  /\ report' \in Report
  /\ Consistent(report')
  /\ report = NoReport \/ report.provisional \/ Keeps(report', report)

(***************************************************************************)
(* The process ends, and the report with it.                               *)
(***************************************************************************)
TakeDown == report' = NoReport

BoardSpec == BoardInit /\ [][Replace \/ TakeDown]_report
=============================================================================
