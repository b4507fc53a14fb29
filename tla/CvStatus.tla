----------------------------- MODULE CvStatus -----------------------------
(***************************************************************************)
(* What the backend may rely on about CvManager: the status record that    *)
(* status() returns, and the only ways it changes.  Run service, ingestion *)
(* and deletion read it; CvLifecycle, the three processes behind it, is    *)
(* shown to implement it.                                                  *)
(***************************************************************************)
CONSTANTS Runs,    \* run identifiers
          NoRun    \* Python's None in a run_id field

ASSUME NoRunAssumption == NoRun \notin Runs

States == {"offline", "loading", "ready", "starting", "running", "stopping", "failed"}
Status == [state : States, run : Runs \cup {NoRun}]
Line(s, r) == [state |-> s, run |-> r]

VARIABLES
  status,   \* CvManager._status: state and run_id
  asked     \* the runs start_session has been called for

cvVars == <<status, asked>>

CvInit == status = Line("offline", NoRun) /\ asked = {}

\* start_session: accepted only when ready; a broken pipe fails the worker.
StartAccepted(r) ==
  /\ status.state = "ready" /\ r \notin asked
  /\ asked' = asked \cup {r}
  /\ status' = Line("starting", r)
StartBroken(r) ==
  /\ status.state = "ready" /\ r \notin asked
  /\ asked' = asked \cup {r}
  /\ status' = [status EXCEPT !.state = "failed"]

\* stop_session, when there is something to stop.
Stoppable == status.state \in {"starting", "running"}
StopAccepted ==
  /\ Stoppable
  /\ status' = [status EXCEPT !.state = "stopping"]
  /\ UNCHANGED asked
StopBroken ==
  /\ Stoppable
  /\ status' = [status EXCEPT !.state = "failed"]
  /\ UNCHANGED asked

\* A line of the worker, its start, its exit or its shutdown.  The run it
\* names is one that was asked for.
WorkerReports ==
  /\ \E s \in States, r \in asked \cup {NoRun} : status' = Line(s, r)
  /\ UNCHANGED asked

CvNext ==
  \/ \E r \in Runs : StartAccepted(r) \/ StartBroken(r)
  \/ StopAccepted \/ StopBroken
  \/ WorkerReports

CvSpec == CvInit /\ [][CvNext]_cvVars
=============================================================================
