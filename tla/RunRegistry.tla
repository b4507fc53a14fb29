---------------------------- MODULE RunRegistry ----------------------------
(***************************************************************************)
(* What the dashboard and the reports may rely on about the runs, without  *)
(* the worker, the locks, the transactions and the restarts behind it: the *)
(* phases of a run and the only ways from one to the next.                 *)
(***************************************************************************)
CONSTANTS Runs   \* run identifiers

Phases == {"absent", "open", "closed", "external", "deleted"}

VARIABLE phase   \* of every run identifier

RInit == phase = [r \in Runs |-> "absent"]

NoneOpen == \A r \in Runs : phase[r] # "open"

\* A new run is opened; the run that was in progress, if any, is closed with it.
Open(r) ==
  /\ phase[r] = "absent"
  /\ phase' = [q \in Runs |-> IF q = r THEN "open"
                              ELSE IF phase[q] = "open" THEN "closed" ELSE phase[q]]

\* The run in progress ends, fails or is interrupted.
Close(r) ==
  /\ phase[r] = "open"
  /\ phase' = [phase EXCEPT ![r] = "closed"]

\* The worker refused to stop a run that is already recorded as interrupted: the
\* run is in progress again.
Reopen(r) ==
  /\ phase[r] = "closed" /\ NoneOpen
  /\ phase' = [phase EXCEPT ![r] = "open"]

\* Runs whose data is older than Run Manager are imported at startup.
Import(R) ==
  /\ \A r \in R : phase[r] = "absent"
  /\ phase' = [r \in Runs |-> IF r \in R THEN "closed" ELSE phase[r]]

\* Data of a pipeline that was started outside the dashboard.
Observe(r) ==
  /\ phase[r] = "absent" /\ NoneOpen
  /\ phase' = [phase EXCEPT ![r] = "external"]

\* Deletion is for good.
Delete(r) ==
  /\ phase[r] \in {"closed", "external"}
  /\ phase' = [phase EXCEPT ![r] = "deleted"]

RNext ==
  \/ \E r \in Runs : Open(r) \/ Close(r) \/ Reopen(r) \/ Observe(r) \/ Delete(r)
  \/ \E R \in SUBSET Runs : Import(R)

RSpec == RInit /\ [][RNext]_phase
=============================================================================
