------------------------------- MODULE MCJobs -------------------------------
(***************************************************************************)
(* Exports of one or two tenants, run by two workers.                      *)
(***************************************************************************)
EXTENDS Exports
=============================================================================
