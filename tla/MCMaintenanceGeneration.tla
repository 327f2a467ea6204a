----------------------- MODULE MCMaintenanceGeneration -----------------------
(***************************************************************************)
(* Two backend instances that run the job and a request on a schedule with *)
(* two occurrences, one failure among them.                                *)
(***************************************************************************)
EXTENDS MaintenanceGeneration
=============================================================================
