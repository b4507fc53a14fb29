----------------------------- MODULE RunPolicy -----------------------------
(***************************************************************************)
(* resolve_ingestion_run (backend/runs/service.py), the question every     *)
(* path of ingestion asks inside the transaction that writes, stated over  *)
(* the phases of RunRegistry.  RunManager has the same function over the   *)
(* rows themselves.                                                        *)
(***************************************************************************)
EXTENDS RunRegistry

CONSTANTS
  NoRun,            \* no run
  AllowUnmanaged    \* ALLOW_UNMANAGED_RUN_INGESTION

ASSUME PolicyAssumption == NoRun \notin Runs /\ AllowUnmanaged \in BOOLEAN

\* The run is not deleted, no other run is in progress, and an unknown run is
\* registered if the settings allow it.
Admits(r) ==
  /\ phase[r] # "deleted"
  /\ \A q \in Runs : phase[q] = "open" => q = r
  /\ IF phase[r] = "absent" THEN AllowUnmanaged /\ Observe(r) ELSE UNCHANGED phase

\* Runs start, end, are imported and ingest elsewhere.
RunsMove ==
  \/ \E r \in Runs : Open(r) \/ Close(r) \/ Reopen(r) \/ Observe(r)
  \/ \E R \in SUBSET Runs : Import(R)
=============================================================================
