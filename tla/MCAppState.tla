---------------------------- MODULE MCAppState ----------------------------
(***************************************************************************)
(* Model-checking instances of AppState.  The keys of the three kinds and  *)
(* their captures make up the keys and events of the stores.  The cfg      *)
(* files choose the keys: one repository next to an overlapping process,   *)
(* or two teams, which are interchangeable, and the organisation without   *)
(* one.                                                                    *)
(***************************************************************************)
EXTENDS AppState, TLC

MCStores == {"events", "orgs", "teams"}
MCKeys == RepoKeys \cup TeamKeys \cup OrgKeys
TeamSymmetry == Permutations(TeamKeys)
=============================================================================
