----------------------------- MODULE MCWorkload -----------------------------
(***************************************************************************)
(* Instance of Workload: two requests that compete for one slot of         *)
(* demo-api, and for the one worker of inventory-service when the first of *)
(* them is abandoned there.                                                *)
(***************************************************************************)
EXTENDS Workload
=============================================================================
