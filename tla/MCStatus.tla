------------------------------ MODULE MCStatus -------------------------------
(* Small instances of Status for TLC, on the plans of MCPlanRunner. *)
EXTENDS MCPlanRunner, Status
=============================================================================
