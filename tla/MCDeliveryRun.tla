--------------------------- MODULE MCDeliveryRun ---------------------------
(***************************************************************************)
(* Model-checking instance of DeliveryRun: two repositories share the      *)
(* queue with webhook jobs.                                                *)
(***************************************************************************)
EXTENDS DeliveryRun
=============================================================================
