------------------------------ MODULE Exports -------------------------------
(***************************************************************************)
(* Report exports, jobs of the queue whose handler writes a file: POST     *)
(* enqueues an export with the tenant of the request in its payload, the   *)
(* worker of jobs/export_jobs.py produces it, and users of that tenant     *)
(* poll and download it.  The handler writes a metadata sidecar as its     *)
(* last step; file and sidecar stay on disk over a restart.                *)
(***************************************************************************)
EXTENDS JobQueue

CONSTANTS Tenants, NoTenant

VARIABLES
  tenant,     \* tenant[j]: tenant_id in the payload of export j
  sidecars    \* the exports whose file and sidecar are on disk

exportVars == <<queueVars, tenant, sidecars>>

ExportTypeOK ==
  /\ QueueTypeOK
  /\ tenant \in [Jobs -> Tenants \cup {NoTenant}]
  /\ sidecars \subseteq Jobs

ExportInit ==
  /\ QueueInit
  /\ tenant = [j \in Jobs |-> NoTenant]
  /\ sidecars = {}

\* create_export of a user of tenant t
CreateExport(j, t) ==
  /\ CommitRow(j)
  /\ tenant' = [tenant EXCEPT ![j] = t]
  /\ UNCHANGED sidecars

\* A mutant of WriteExport: the handler leaves the sidecar to somebody else.
ForgetSidecar(w) == HandlerReturns(w) /\ UNCHANGED <<tenant, sidecars>>

\* export_report_worker
WriteExport(w) ==
  /\ HandlerReturns(w)
  /\ sidecars' = sidecars \cup {task[w].job}
  /\ UNCHANGED tenant

ExportNext ==
  \/ \E j \in Jobs, t \in Tenants : CreateExport(j, t)
  \/ \E w \in Workers : WriteExport(w)
  \/ /\ \/ \E j \in Jobs : PutRecord(j)
        \/ \E w \in Workers : WorkerStep(w)
        \/ ProcessStep
     /\ UNCHANGED <<tenant, sidecars>>

ExportSpec == ExportInit /\ [][ExportNext]_exportVars /\ QueueFairness

\* A mutant of Found: any sidecar will do.
FoundAnywhere(j) == sidecars

\* _find_job_metadata: any sidecar of the tenant, in the order of the directory.
Found(j) == {k \in sidecars : tenant[k] = tenant[j]}

\* The files download_export may send to a user of tenant t who asks for export j.
Served(j, t) == IF tenant[j] = t /\ row[j] = "completed" THEN Found(j) ELSE {}

-----------------------------------------------------------------------------
(***************************************************************************)
(* The only export of a tenant to have been carried out is delivered once  *)
(* it is completed: its file is there and no other can be taken for it,    *)
(* whatever failed before and whatever other tenants export.  More cannot  *)
(* be said: the look-up compares tenants only, so with a second export of  *)
(* the tenant, even one recorded as failed, the file whose sidecar comes   *)
(* first in the directory is sent for both.                                *)
(***************************************************************************)
LoneExportIsDelivered ==
  \A j \in Jobs :
    /\ row[j] = "completed"
    /\ \A k \in Jobs \ {j} : tenant[k] = tenant[j] => successes[k] = 0
    => Served(j, tenant[j]) = {j}
=============================================================================
