------------------------ MODULE MCProcurementWorkflow ------------------------
(* ProcurementWorkflow on a small instance. *)
EXTENDS ProcurementWorkflow
=============================================================================
