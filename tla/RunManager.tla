---------------------------- MODULE RunManager ----------------------------
(***************************************************************************)
(* The backend's run bookkeeping (backend/runs/service.py over             *)
(* runs/repository.py) beside the CV worker it cannot roll back.           *)
(*                                                                         *)
(* SQLite is one store: every immediate_write() body is one step, because  *)
(* BEGIN IMMEDIATE admits one writer at a time.  A handler that commits,   *)
(* then calls CvManager or unlinks files, then commits again is that many  *)
(* steps, and the reconciler, ingestion, deletion and the worker's own     *)
(* status changes fall between them.  start_run and end_run hold           *)
(* _lifecycle_lock from their first step to their last.                    *)
(***************************************************************************)
EXTENDS CvStatus, Naturals

CONSTANTS
  AllowUnmanaged,   \* ALLOW_UNMANAGED_RUN_INGESTION
  Orderly,          \* TRUE: the worker's lines arrive in the order one session writes
                    \* them; FALSE: in any order CvStatus allows
  MaxCrashes        \* bound: crashes of the backend

ASSUME SettingsAssumption ==
  AllowUnmanaged \in BOOLEAN /\ Orderly \in BOOLEAN /\ MaxCrashes \in Nat

Open == {"starting", "active", "ending"}             \* IN_PROGRESS_STATUSES
Closed == {"ended", "failed", "interrupted"}
RunStates == {"absent", "external"} \cup Open \cup Closed
Origins == {"managed", "legacy", "external"}
Audited == {"activated", "end_requested", "ended"}   \* the run_events the properties read
NoOp == [kind |-> "idle", at |-> "idle", run |-> NoRun]
Op(k, a, r) == [kind |-> k, at |-> a, run |-> r]

VARIABLES
  backend,     \* "down", "booting" (before startup tasks), "recovering", "up"
  crashes,     \* crashes so far
  op,          \* the holder of _lifecycle_lock and how far it has come
  stopDue,     \* a reconcile transaction is about to call stop_session
  stray,       \* /api/cv/session/stop saw no run in progress and will stop the worker
  unlinking,   \* runs whose delete_run has committed and not yet unlinked the files
  unrecorded,  \* runs whose files could not be unlinked, before the second transaction
  state,       \* runs.status, "absent" when there is no row
  origin,      \* runs.origin_type
  begun,       \* runs whose started_at is set
  recent,      \* runs whose last_ingested_at is inside the activity window
  tombs,       \* deleted_runs
  data,        \* runs with rows in the operational tables
  files,       \* runs with evidence files on disk
  pending,     \* runs with a pending_file_deletions row
  events       \* run_events: pairs of a run and an audited event type

rowVars == <<state, origin, begun, recent>>
dbVars == <<rowVars, tombs, data, pending, events>>
procVars == <<op, stopDue, stray, unlinking, unrecorded>>
vars == <<cvVars, backend, crashes, procVars, dbVars, files>>

TypeOK ==
  /\ status \in Status /\ asked \subseteq Runs
  /\ backend \in {"down", "booting", "recovering", "up"}
  /\ crashes \in 0 .. MaxCrashes
  /\ op \in {NoOp} \cup [kind : {"start", "end"}, at : {"checked", "committed", "raised"}, run : Runs]
  /\ stopDue \in BOOLEAN /\ stray \in BOOLEAN
  /\ unlinking \subseteq Runs /\ unrecorded \subseteq Runs
  /\ state \in [Runs -> RunStates]
  /\ origin \in [Runs -> Origins]
  /\ begun \subseteq Runs /\ recent \subseteq Runs
  /\ tombs \subseteq Runs /\ data \subseteq Runs /\ files \subseteq Runs
  /\ pending \subseteq Runs
  /\ events \subseteq Runs \X Audited

\* A database from before Run Manager may hold rows and files of some runs.
Init ==
  /\ CvInit
  /\ backend = "down" /\ crashes = 0 /\ op = NoOp /\ stopDue = FALSE /\ stray = FALSE
  /\ unlinking = {} /\ unrecorded = {}
  /\ state = [r \in Runs |-> "absent"]
  /\ origin = [r \in Runs |-> "managed"]
  /\ begun = {} /\ recent = {} /\ tombs = {}
  /\ data \in SUBSET Runs /\ files = data
  /\ pending = {} /\ events = {}

-----------------------------------------------------------------------------
(* repository.py: what the transactions are made of.                        *)

InProgress == {r \in Runs : state[r] \in Open}       \* get_in_progress
Idle == InProgress = {}
Known(r) == state[r] # "absent"                       \* get_by_run_id
Events(r, types) == events' = events \cup ({r} \X (types \cap Audited))

\* set_status: never clears started_at.
SetStatus(r, s, starts) ==
  /\ state' = [state EXCEPT ![r] = s]
  /\ begun' = IF starts THEN begun \cup {r} ELSE begun
  /\ UNCHANGED <<origin, recent>>

\* register_external_run, for a run that has no row.
RegisterExternal(r) ==
  /\ state' = [state EXCEPT ![r] = "external"]
  /\ origin' = [origin EXCEPT ![r] = "external"]
  /\ begun' = begun \cup {r}

\* No other writer holds BEGIN IMMEDIATE.  What reads and writes no row does not wait.
CanWrite == backend # "down" /\ ~stopDue
Serving == backend = "up" /\ ~stopDue

-----------------------------------------------------------------------------
(* decide_reconciliation, by what it returns.  How long the run has been    *)
(* starting or ending is left open: late is the timeout's answer.           *)

Matches(r) == status.run = r
WorkerLost == status.state \in {"failed", "offline"}

Confirmed(r) == state[r] = "starting" /\ status.state = "running" /\ Matches(r)
Unstarted(r, late) == state[r] = "starting" /\ ~Confirmed(r) /\ (WorkerLost \/ late)
\* Seeded fault: a worker that is ready again has ended whatever was active, too.
StoppedUnasked(r) == state[r] \in {"active", "ending"} /\ status.state = "ready"

Stopped(r) == state[r] = "ending" /\ status.state = "ready"
\* Seeded fault: no timeout for a worker that never stops.
LostPatiently(r, late) ==
  \/ state[r] = "active" /\ (WorkerLost \/ (status.state = "ready" /\ ~Matches(r)))
  \/ state[r] = "ending" /\ ~Stopped(r) /\ WorkerLost

Lost(r, late) ==
  \/ state[r] = "active" /\ (WorkerLost \/ (status.state = "ready" /\ ~Matches(r)))
  \/ state[r] = "ending" /\ ~Stopped(r) /\ (WorkerLost \/ late)

\* The status a run in progress is due, or the one it has.
Due(r, late) ==
  IF Confirmed(r) THEN "active"
  ELSE IF Unstarted(r, late) THEN "failed"
  ELSE IF Stopped(r) THEN "ended"
  ELSE IF Lost(r, late) THEN "interrupted"
  ELSE state[r]

\* stop_worker: only the start timeout asks for it.
StopsWorker(r, late) == Unstarted(r, late) /\ ~WorkerLost

EventOf(s) == IF s = "active" THEN "activated" ELSE s

\* reconcile(db), where there is something to do.
ReconcileRow(r, late) ==
  /\ r \in InProgress /\ Due(r, late) # state[r]
  /\ SetStatus(r, Due(r, late), Due(r, late) = "active")
  /\ Events(r, {EventOf(Due(r, late))})

\* The periodic reconciler and GET /api/runs/active.  The read-only check before
\* the transaction decides nothing: the transaction decides again.
Reconcile(r, late) ==
  /\ Serving
  /\ ReconcileRow(r, late)
  /\ stopDue' = StopsWorker(r, late)
  /\ UNCHANGED <<cvVars, backend, crashes, op, stray, unlinking, unrecorded, tombs, data,
                 pending, files>>

\* What stop_session does: nothing, a stop, a broken pipe, or a refusal because
\* the worker has already exited.
StopNothing == ~Stoppable /\ UNCHANGED cvVars
StopRefused == Stoppable /\ UNCHANGED cvVars

\* _request_cv_stop_quietly, inside the transaction that failed the run.
StopQuietly ==
  /\ stopDue /\ stopDue' = FALSE
  /\ StopNothing \/ StopAccepted \/ StopBroken \/ StopRefused
  /\ UNCHANGED <<backend, crashes, op, stray, unlinking, unrecorded, dbVars, files>>

-----------------------------------------------------------------------------
(* start_run                                                                *)

StartCheck(r) ==
  /\ backend = "up" /\ op = NoOp
  /\ status.state = "ready"
  /\ op' = Op("start", "checked", r)
  /\ UNCHANGED <<cvVars, backend, crashes, stopDue, stray, unlinking, unrecorded, dbVars, files>>

\* The transaction reconciles first; settled is the run that frees the worker.
Settled(late) == {x \in InProgress : Due(x, late) \in Closed}
\* Seeded fault: the run in progress is not looked at.
MayCreateBesides(r, late) == r \notin tombs /\ ~Known(r)

MayCreate(r, late) == Settled(late) = InProgress /\ r \notin tombs /\ ~Known(r)

StartCommit(late) ==
  LET r == op.run  done == Settled(late) IN
  /\ Serving /\ op.kind = "start" /\ op.at = "checked"
  /\ MayCreate(r, late)
  /\ state' = [q \in Runs |-> IF q = r THEN "starting"
                              ELSE IF q \in done THEN Due(q, late) ELSE state[q]]
  /\ origin' = [origin EXCEPT ![r] = "managed"]
  /\ begun' = begun \ {r}
  /\ recent' = recent \ {r}
  /\ events' = events \cup {<<x, "ended">> : x \in {y \in done : Due(y, late) = "ended"}}
  /\ stopDue' = \E x \in done : StopsWorker(x, late)
  /\ op' = [op EXCEPT !.at = "committed"]
  /\ UNCHANGED <<cvVars, backend, crashes, stray, unlinking, unrecorded, tombs, data, pending, files>>

\* The transaction rolls back; a stop it has already sent stays sent.
StartReject(late) ==
  /\ Serving /\ op.kind = "start" /\ op.at = "checked"
  /\ ~MayCreate(op.run, late)
  /\ stopDue' = \E x \in InProgress : StopsWorker(x, late)
  /\ op' = NoOp
  /\ UNCHANGED <<cvVars, backend, crashes, stray, unlinking, unrecorded, dbVars, files>>

\* start_session may raise in any state: the worker has changed state since the
\* check, or has exited and poll() says so.
StartCall ==
  /\ backend = "up" /\ op.kind = "start" /\ op.at = "committed"
  /\ \/ StartAccepted(op.run) /\ op' = NoOp
     \/ StartBroken(op.run) /\ op' = [op EXCEPT !.at = "raised"]
     \/ UNCHANGED cvVars /\ op' = [op EXCEPT !.at = "raised"]
  /\ UNCHANGED <<backend, crashes, stopDue, stray, unlinking, unrecorded, dbVars, files>>

\* The compensating transaction, unless the run was deleted meanwhile.
StartRaised ==
  /\ Serving /\ op.kind = "start" /\ op.at = "raised"
  /\ op' = NoOp
  /\ IF Known(op.run)
     THEN SetStatus(op.run, "failed", FALSE) /\ Events(op.run, {"failed"})
     ELSE UNCHANGED <<rowVars, events>>
  /\ UNCHANGED <<cvVars, backend, crashes, stopDue, stray, unlinking, unrecorded, tombs, data,
                 pending, files>>

-----------------------------------------------------------------------------
(* end_run                                                                  *)

\* Seeded fault: any known run can be ended.
EndCommitAny(r) ==
  /\ Serving /\ op = NoOp
  /\ Known(r)
  /\ ~(status.state = "running" /\ status.run \notin {r, NoRun})
  /\ SetStatus(r, "ending", FALSE)
  /\ Events(r, {"end_requested"})
  /\ op' = Op("end", "committed", r)
  /\ UNCHANGED <<cvVars, backend, crashes, stopDue, stray, unlinking, unrecorded, tombs, data,
                 pending, files>>

EndCommit(r) ==
  /\ Serving /\ op = NoOp
  /\ r \in InProgress
  /\ ~(status.state = "running" /\ status.run \notin {r, NoRun})
  /\ SetStatus(r, "ending", FALSE)
  /\ Events(r, {"end_requested"})
  /\ op' = Op("end", "committed", r)
  /\ UNCHANGED <<cvVars, backend, crashes, stopDue, stray, unlinking, unrecorded, tombs, data,
                 pending, files>>

EndCall ==
  /\ backend = "up" /\ op.kind = "end" /\ op.at = "committed"
  /\ \/ (StopNothing \/ StopAccepted) /\ op' = NoOp
     \/ (StopBroken \/ StopRefused) /\ op' = [op EXCEPT !.at = "raised"]
  /\ UNCHANGED <<backend, crashes, stopDue, stray, unlinking, unrecorded, dbVars, files>>

\* The compensating transaction writes what the worker says now, whatever the
\* reconciler has written since.
EndRaised ==
  LET truthful == IF status.state = "running" THEN "active" ELSE "failed" IN
  /\ Serving /\ op.kind = "end" /\ op.at = "raised"
  /\ op' = NoOp
  /\ IF Known(op.run)
     THEN SetStatus(op.run, truthful, FALSE)
     ELSE UNCHANGED rowVars
  /\ UNCHANGED <<cvVars, backend, crashes, stopDue, stray, unlinking, unrecorded, tombs, data,
                 pending, files, events>>

\* The compensating transaction cannot take the write lock (RunWriteConflict):
\* nothing is compensated and the lifecycle lock is released.
WriteConflict ==
  /\ backend = "up" /\ op.at = "raised"
  /\ op' = NoOp
  /\ UNCHANGED <<cvVars, backend, crashes, stopDue, stray, unlinking, unrecorded, dbVars, files>>

\* POST /api/cv/session/stop with no run in progress: the transaction, then the stop.
StrayCheck ==
  /\ Serving /\ Idle /\ ~stray /\ stray' = TRUE
  /\ UNCHANGED <<cvVars, backend, crashes, op, stopDue, unlinking, unrecorded, dbVars, files>>
StrayStop ==
  /\ backend = "up" /\ stray /\ stray' = FALSE
  /\ StopNothing \/ StopAccepted \/ StopBroken \/ StopRefused
  /\ UNCHANGED <<backend, crashes, op, stopDue, unlinking, unrecorded, dbVars, files>>

-----------------------------------------------------------------------------
(* Guarded ingestion: MQTT from the moment the bridge starts, HTTP later.   *)

\* resolve_ingestion_run
ActiveExternal == {x \in Runs : origin[x] = "external" /\ x \in recent /\ Known(x)}
\* Seeded fault: a late payload is not held against the tombstones.
AcceptsDeleted(r) ==
  /\ InProgress \subseteq {r}
  /\ Known(r) \/ (AllowUnmanaged /\ ActiveExternal = {})

Accepts(r) ==
  /\ r \notin tombs
  /\ InProgress \subseteq {r}
  /\ Known(r) \/ (AllowUnmanaged /\ ActiveExternal = {})

\* A payload is written in the transaction that accepted it; some carry evidence.
Ingest(r) ==
  /\ CanWrite /\ Accepts(r)
  /\ IF Known(r)
     THEN UNCHANGED <<state, origin, begun>>
     ELSE RegisterExternal(r)
  /\ recent' = recent \cup {r}
  /\ data' = data \cup {r}
  /\ files' \in {files, files \cup {r}}
  /\ UNCHANGED <<cvVars, backend, crashes, procVars, tombs, pending, events>>

\* The activity window of a run's last payload passes.
Quiet(r) ==
  /\ r \in recent /\ recent' = recent \ {r}
  /\ UNCHANGED <<cvVars, backend, crashes, procVars, state, origin, begun, tombs, data,
                 pending, events, files>>

-----------------------------------------------------------------------------
(* delete_run                                                               *)

\* Seeded fault: a run in progress may be deleted.
MayDeleteOpen(r) ==
  /\ Known(r)
  /\ ~(status.run = r /\ status.state \in {"starting", "running", "stopping"})
  /\ ~(origin[r] = "external" /\ r \in recent)

MayDelete(r) ==
  /\ Known(r) /\ state[r] \notin Open
  /\ ~(status.run = r /\ status.state \in {"starting", "running", "stopping"})
  /\ ~(origin[r] = "external" /\ r \in recent)

DeleteCommit(r) ==
  /\ Serving /\ MayDelete(r)
  /\ state' = [state EXCEPT ![r] = "absent"]
  /\ begun' = begun \ {r} /\ recent' = recent \ {r}
  /\ data' = data \ {r}
  /\ tombs' = tombs \cup {r}
  /\ Events(r, {"deleted"})
  /\ unlinking' = unlinking \cup (files \cap {r})
  /\ UNCHANGED <<cvVars, backend, crashes, op, stopDue, stray, unrecorded, origin, pending, files>>

\* Files go after the commit: unlinked, or kept for the second transaction.
DeleteUnlink(r) ==
  /\ backend = "up" /\ r \in unlinking
  /\ unlinking' = unlinking \ {r}
  /\ files' = files \ {r}
  /\ UNCHANGED <<cvVars, backend, crashes, op, stopDue, stray, unrecorded, dbVars>>
DeleteUnlinkFails(r) ==
  /\ backend = "up" /\ r \in unlinking
  /\ unlinking' = unlinking \ {r}
  /\ unrecorded' = unrecorded \cup {r}
  /\ UNCHANGED <<cvVars, backend, crashes, op, stopDue, stray, dbVars, files>>

\* record_pending_file_deletion
DeleteRecord(r) ==
  /\ Serving /\ r \in unrecorded
  /\ unrecorded' = unrecorded \ {r}
  /\ pending' = pending \cup {r}
  /\ Events(r, {"file_cleanup_warning"})
  /\ UNCHANGED <<cvVars, backend, crashes, op, stopDue, stray, unlinking, rowVars, tombs, data, files>>

\* The same conflict in delete_run's second transaction: the files are forgotten.
RecordConflict(r) ==
  /\ backend = "up" /\ r \in unrecorded
  /\ unrecorded' = unrecorded \ {r}
  /\ UNCHANGED <<cvVars, backend, crashes, op, stopDue, stray, unlinking, dbVars, files>>

-----------------------------------------------------------------------------
(* The backend process and the worker.                                      *)

\* Whatever is not in the database or on disk is lost.  A crash inside an open
\* transaction rolls it back: it is the crash just before that transaction.
Crash ==
  /\ backend # "down" /\ ~stopDue
  /\ crashes < MaxCrashes /\ crashes' = crashes + 1
  /\ backend' = "down"
  /\ op' = NoOp /\ stray' = FALSE /\ unlinking' = {} /\ unrecorded' = {}
  /\ status' = Line("offline", NoRun)
  /\ UNCHANGED <<asked, stopDue, dbVars, files>>

\* lifespan: the bridge and the worker are started before the startup tasks.
Boot ==
  /\ backend = "down" /\ backend' = "booting"
  /\ UNCHANGED <<cvVars, crashes, procVars, dbVars, files>>

\* backfill_legacy_runs
Backfill ==
  LET missing == {r \in data : ~Known(r) /\ r \notin tombs} IN
  /\ backend = "booting" /\ backend' = "recovering"
  /\ state' = [r \in Runs |-> IF r \in missing THEN "ended" ELSE state[r]]
  /\ origin' = [r \in Runs |-> IF r \in missing THEN "legacy" ELSE origin[r]]
  /\ begun' = begun \cup missing
  /\ UNCHANGED <<cvVars, crashes, procVars, recent, tombs, data, pending, events, files>>

\* recover_after_restart
Recover ==
  /\ backend = "recovering" /\ backend' = "up"
  /\ \/ \E r \in InProgress :
          /\ ~(status.state = "running" /\ Matches(r))
          /\ SetStatus(r, "interrupted", FALSE)
          /\ Events(r, {"interrupted"})
     \/ /\ \A r \in InProgress : status.state = "running" /\ Matches(r)
        /\ UNCHANGED <<rowVars, events>>
  /\ UNCHANGED <<cvVars, crashes, procVars, tombs, data, pending, files>>

\* The status lines one session after another writes, for the run it was given.
SessionOrder ==
  [offline |-> {"loading"}, ready |-> {}, failed |-> {},
   loading |-> {"ready", "starting"}, starting |-> {"loading", "running"},
   running |-> {"ready"}, stopping |-> {"ready"}]
OrderlyReports ==
  /\ \E s \in SessionOrder[status.state] \cup {"failed"} :
       /\ status' = Line(s, status.run)
       /\ s = "starting" => status.run # NoRun
  /\ UNCHANGED asked

Worker ==
  /\ backend # "down"
  /\ IF Orderly THEN OrderlyReports ELSE WorkerReports
  /\ UNCHANGED <<backend, crashes, procVars, dbVars, files>>

-----------------------------------------------------------------------------
Lifecycle ==
  \/ \E r \in Runs : StartCheck(r) \/ EndCommit(r)
  \/ \E late \in BOOLEAN : StartCommit(late) \/ StartReject(late)
  \/ StartCall \/ StartRaised \/ EndCall \/ EndRaised \/ WriteConflict
  \/ StrayCheck \/ StrayStop

Deletion ==
  \E r \in Runs : \/ DeleteCommit(r) \/ DeleteUnlink(r) \/ DeleteUnlinkFails(r)
                \/ DeleteRecord(r) \/ RecordConflict(r)

Next ==
  \/ Lifecycle
  \/ \E r \in Runs, late \in BOOLEAN : Reconcile(r, late)
  \/ StopQuietly
  \/ \E r \in Runs : Ingest(r) \/ Quiet(r)
  \/ Deletion
  \/ Crash \/ Boot \/ Backfill \/ Recover
  \/ Worker

Spec == Init /\ [][Next]_vars

\* Threads run, timeouts pass, a crashed backend is started again.  The reconciler
\* comes back every interval for ever and waits for the write lock each time, so
\* transactions that come and go cannot always be in its way: strong fairness.
\* The operator, producers and the worker owe nothing.
Fairness ==
  /\ WF_vars(StartCall) /\ WF_vars(StartRaised) /\ WF_vars(EndCall) /\ WF_vars(EndRaised)
  /\ WF_vars(StartCommit(FALSE) \/ StartReject(FALSE))
  /\ WF_vars(StopQuietly)
  /\ \A r \in Runs : SF_vars(Reconcile(r, TRUE))
  /\ WF_vars(Boot \/ Backfill \/ Recover)
  /\ \A r \in Runs : WF_vars(DeleteUnlink(r) \/ DeleteUnlinkFails(r)) /\ WF_vars(DeleteRecord(r))

FairSpec == Spec /\ Fairness

-----------------------------------------------------------------------------
(* Correctness.                                                             *)

\* At most one run is starting, active or ending, whatever a start that waits for
\* its worker, a failed End, the reconciler and ingestion do in between.
AtMostOneInProgress == \A x, y \in InProgress : x = y

\* A deleted run has neither a row nor data again: not from a late payload, a
\* restart's backfill, a start under the same name, or a compensating transaction
\* that was still due when the run was deleted.
DeletedStaysDeleted == \A r \in tombs : ~Known(r) /\ r \notin data

\* A managed run is recorded as ended only if somebody asked for its end and the
\* audit trail says both; whatever the worker does by itself is not an end.
EndedWasRequested ==
  \A r \in Runs : state[r] = "ended" /\ origin[r] = "managed" =>
    {<<r, "end_requested">>, <<r, "ended">>} \subseteq events

\* A managed run has a start time only if the worker was asked for it and then
\* reported it as running.
StartedWasConfirmed ==
  \A r \in begun : origin[r] = "managed" => <<r, "activated">> \in events /\ r \in asked

\* The audit trail and the times of a managed run tell what was asked and what the
\* worker reported, whatever order the reconciler, the operator, a failed call and
\* a restart come in.
TrailTruthful == EndedWasRequested /\ StartedWasConfirmed

\* A closed run is reopened by nothing but the compensating transaction of an End
\* that the reconciler overtook.
NoResurrection ==
  [][\A r \in Runs : state[r] \in Closed /\ state'[r] \in Open => op = Op("end", "raised", r)]_vars

\* The registry of runs as the dashboard sees it (RunRegistry): every commit of every
\* handler, the ingestion of unmanaged data and every restart is one of its steps,
\* or none.
Phase(r) ==
  IF r \in tombs THEN "deleted"
  ELSE IF state[r] \in Open THEN "open"
  ELSE IF state[r] \in Closed THEN "closed"
  ELSE state[r]
Registry == INSTANCE RunRegistry WITH phase <- [r \in Runs |-> Phase(r)]
ImplementsRegistry == Registry!RSpec

\* No run is left starting or ending for ever (the docstring of reconcile).
TransitionalResolves ==
  \A r \in Runs : (state[r] \in {"starting", "ending"}) ~> (state[r] \notin {"starting", "ending"})

\* An active run whose session is over does not stay active ("Keep run state
\* truthful even when nobody is looking at the dashboard", main.py).
ActiveRunTruthful ==
  \A r \in Runs : (state[r] = "active" /\ status = Line("ready", r))
                     ~> ~(state[r] = "active" /\ status = Line("ready", r))
=============================================================================
