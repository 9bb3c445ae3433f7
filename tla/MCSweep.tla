------------------------------ MODULE MCSweep ------------------------------
(***************************************************************************)
(* Model-checking instances of Sweep: one run over two repositories with   *)
(* an event outside it, in two configurations, and two runs over one       *)
(* repository, whose publishers may overlap.                               *)
(***************************************************************************)
EXTENDS Sweep

MCConfigs == {[max_repos |-> 2, team_roster_read_from_projection |-> TRUE],
              [max_repos |-> 1, team_roster_read_from_projection |-> FALSE]}

MCDefaultConfig == {[max_repos |-> 2, team_roster_read_from_projection |-> TRUE]}
=============================================================================
