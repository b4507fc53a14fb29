------------------------- MODULE RunManager_proofs -------------------------
(***************************************************************************)
(* What holds of RunManager for any number of runs, any settings, any      *)
(* number of crashes and any order of the worker's status lines.           *)
(***************************************************************************)
EXTENDS RunManager, TLAPS

USE DEF Open, Closed, NoOp, Op, Known, InProgress

-----------------------------------------------------------------------------
(* What reconciliation decides.                                             *)

\* A run in progress stays where it is, is activated because the worker runs it,
\* or is closed; only an ending run is ended.
LEMMA DueRange ==
  ASSUME NEW r \in Runs, NEW late \in BOOLEAN, state[r] \in Open
  PROVE  /\ Due(r, late) \in Open \cup Closed
         /\ Due(r, late) \in Open => Due(r, late) = state[r] \/ Due(r, late) = "active"
         /\ Due(r, late) = "active" /\ state[r] # "active" => Confirmed(r)
         /\ Due(r, late) = "ended" => state[r] = "ending"
         /\ Due(r, late) = "ending" => state[r] = "ending"
BY DEF Due, Confirmed, Unstarted, Stopped, Lost

-----------------------------------------------------------------------------
(* Types.                                                                   *)

\* What stop_session may do to the status record.
LEMMA StopTypes ==
  ASSUME status \in Status, asked \subseteq Runs,
         StopNothing \/ StopAccepted \/ StopBroken \/ StopRefused
  PROVE  status' \in Status /\ asked' = asked /\ status'.run = status.run
BY DEF StopNothing, StopAccepted, StopBroken, StopRefused, cvVars, Status, States

\* The initial values have their types.
LEMMA TypeInit == Init => TypeOK
<1> SUFFICES ASSUME Init PROVE TypeOK
  OBVIOUS
<1>1. status \in Status
  BY DEF Init, CvInit, Status, States, Line
<1>2. crashes \in 0 .. MaxCrashes
  BY SettingsAssumption DEF Init, SettingsAssumption
<1>3. op = NoOp
  BY DEF Init
<1>4. state \in [Runs -> RunStates] /\ origin \in [Runs -> Origins]
  BY DEF Init, RunStates, Origins
<1> QED BY <1>1, <1>2, <1>3, <1>4 DEF Init, CvInit, TypeOK

\* One step keeps every type.
LEMMA TypeStep ==
  ASSUME TypeOK, [Next]_vars
  PROVE  TypeOK'
<1> USE DEF TypeOK
<1>1. ASSUME NEW r \in Runs, StartCheck(r) PROVE TypeOK'
  BY <1>1 DEF StartCheck, cvVars, dbVars, rowVars
<1>2. ASSUME NEW r \in Runs, EndCommit(r) PROVE TypeOK'
  BY <1>2 DEF EndCommit, SetStatus, Events, Audited, RunStates, cvVars
<1>3. ASSUME NEW late \in BOOLEAN, StartCommit(late) PROVE TypeOK'
  <2>1. op.run \in Runs
    BY <1>3 DEF StartCommit
  <2>2. state' \in [Runs -> RunStates]
    BY <1>3, <2>1, DueRange DEF StartCommit, Settled, RunStates
  <2>3. op' \in {NoOp} \cup [kind : {"start", "end"}, at : {"checked", "committed", "raised"}, run : Runs]
    BY <1>3, <2>1 DEF StartCommit
  <2>4. events' \subseteq Runs \X Audited
    BY <1>3 DEF StartCommit, Settled, Audited
  <2>5. origin' \in [Runs -> Origins] /\ stopDue' \in BOOLEAN
    BY <1>3 DEF StartCommit, Origins
  <2> QED BY <1>3, <2>2, <2>3, <2>4, <2>5 DEF StartCommit, cvVars
<1>4. ASSUME NEW late \in BOOLEAN, StartReject(late) PROVE TypeOK'
  BY <1>4 DEF StartReject, cvVars, dbVars, rowVars
<1>5. CASE StartCall
  BY <1>5 DEF StartCall, StartAccepted, StartBroken, cvVars, dbVars, rowVars, Status, States, Line
<1>6. CASE StartRaised
  BY <1>6 DEF StartRaised, SetStatus, Events, Audited, RunStates, cvVars, rowVars
<1>7. CASE EndCall
  <2>1. status' \in Status /\ asked' = asked
    BY <1>7, StopTypes DEF EndCall
  <2> QED BY <1>7, <2>1 DEF EndCall, dbVars, rowVars
<1>8. CASE EndRaised
  BY <1>8 DEF EndRaised, SetStatus, RunStates, cvVars, rowVars
<1>9. CASE WriteConflict
  BY <1>9 DEF WriteConflict, cvVars, dbVars, rowVars
<1>10. CASE StrayCheck
  BY <1>10 DEF StrayCheck, cvVars, dbVars, rowVars
<1>11. CASE StrayStop
  <2>1. status' \in Status /\ asked' = asked
    BY <1>11, StopTypes DEF StrayStop
  <2> QED BY <1>11, <2>1 DEF StrayStop, dbVars, rowVars
<1>12. ASSUME NEW r \in Runs, NEW late \in BOOLEAN, Reconcile(r, late) PROVE TypeOK'
  BY <1>12, DueRange
     DEF Reconcile, ReconcileRow, SetStatus, StopsWorker, Events, Audited, RunStates, cvVars
<1>13. CASE StopQuietly
  <2>1. status' \in Status /\ asked' = asked
    BY <1>13, StopTypes DEF StopQuietly
  <2> QED BY <1>13, <2>1 DEF StopQuietly, dbVars, rowVars
<1>14. ASSUME NEW r \in Runs, Ingest(r) PROVE TypeOK'
  BY <1>14 DEF Ingest, RegisterExternal, RunStates, Origins, cvVars, procVars
<1>15. ASSUME NEW r \in Runs, Quiet(r) PROVE TypeOK'
  BY <1>15 DEF Quiet, cvVars, procVars
<1>16. ASSUME NEW r \in Runs, DeleteCommit(r) PROVE TypeOK'
  BY <1>16 DEF DeleteCommit, Events, Audited, RunStates, cvVars
<1>17. ASSUME NEW r \in Runs,
              DeleteUnlink(r) \/ DeleteUnlinkFails(r) \/ DeleteRecord(r) \/ RecordConflict(r)
       PROVE  TypeOK'
  BY <1>17 DEF DeleteUnlink, DeleteUnlinkFails, DeleteRecord, RecordConflict, Events, Audited,
               cvVars, dbVars, rowVars
<1>18. CASE Crash
  <2>1. crashes' \in 0 .. MaxCrashes
    BY <1>18, SettingsAssumption DEF Crash, SettingsAssumption
  <2>2. status' \in Status
    BY <1>18 DEF Crash, Status, States, Line
  <2> QED BY <1>18, <2>1, <2>2 DEF Crash, dbVars, rowVars
<1>19. CASE Boot
  BY <1>19 DEF Boot, cvVars, procVars, dbVars, rowVars
<1>20. CASE Backfill
  BY <1>20 DEF Backfill, cvVars, procVars, RunStates, Origins
<1>21. CASE Recover
  BY <1>21 DEF Recover, SetStatus, Events, Audited, RunStates, cvVars, procVars, rowVars
<1>22. CASE Worker
  BY <1>22 DEF Worker, OrderlyReports, WorkerReports, SessionOrder, procVars, dbVars, rowVars,
               Status, States, Line
<1>23. CASE UNCHANGED vars
  BY <1>23 DEF vars, cvVars, procVars, dbVars, rowVars
<1> QED
  BY <1>1, <1>2, <1>3, <1>4, <1>5, <1>6, <1>7, <1>8, <1>9, <1>10, <1>11, <1>12, <1>13, <1>14,
     <1>15, <1>16, <1>17, <1>18, <1>19, <1>20, <1>21, <1>22, <1>23
     DEF Next, Lifecycle, Deletion

\* Every variable keeps its type, whatever the bounds are.
THEOREM TypeCorrect == Spec => []TypeOK
BY TypeInit, TypeStep, PTL DEF Spec

-----------------------------------------------------------------------------
(* One run in progress.  The lifecycle lock is what keeps it so: while an   *)
(* End waits to be compensated no other run can start.                      *)

EndHolds == op.kind = "end" => InProgress \subseteq {op.run}
OneInv == AtMostOneInProgress /\ EndHolds

\* A step that takes no run into progress and keeps the lock keeps the invariant.
LEMMA OneKept ==
  ASSUME OneInv, InProgress' \subseteq InProgress, op' = op \/ op'.kind # "end"
  PROVE  OneInv'
BY DEF OneInv, AtMostOneInProgress, EndHolds

\* One step leaves one run in progress, and an End's lock holds that run.
LEMMA OneStep ==
  ASSUME TypeOK, OneInv, [Next]_vars
  PROVE  OneInv'
<1> USE DEF TypeOK
<1>1. ASSUME NEW r \in Runs, StartCheck(r) PROVE OneInv'
  BY <1>1, OneKept DEF StartCheck, dbVars, rowVars
<1>2. ASSUME NEW r \in Runs, EndCommit(r) PROVE OneInv'
  <2>1. InProgress' \subseteq InProgress
    BY <1>2 DEF EndCommit, SetStatus, RunStates
  <2>2. InProgress \subseteq {r}
    BY <1>2 DEF EndCommit, OneInv, AtMostOneInProgress
  <2> QED BY <1>2, <2>1, <2>2 DEF EndCommit, OneInv, AtMostOneInProgress, EndHolds
<1>3. ASSUME NEW late \in BOOLEAN, StartCommit(late) PROVE OneInv'
  <2>1. \A q \in Runs : q # op.run => state'[q] \notin Open
    BY <1>3 DEF StartCommit, MayCreate, Settled
  <2>2. op'.kind # "end"
    BY <1>3 DEF StartCommit
  <2> QED BY <2>1, <2>2 DEF OneInv, AtMostOneInProgress, EndHolds
<1>4. ASSUME NEW late \in BOOLEAN, StartReject(late) PROVE OneInv'
  BY <1>4, OneKept DEF StartReject, dbVars, rowVars
<1>5. CASE StartCall
  BY <1>5, OneKept DEF StartCall, dbVars, rowVars
<1>6. CASE StartRaised
  BY <1>6, OneKept DEF StartRaised, SetStatus, rowVars
<1>7. CASE EndCall
  <2>1. OneInv /\ UNCHANGED state
    BY <1>7 DEF EndCall, dbVars, rowVars
  <2> QED BY <1>7, <2>1 DEF EndCall, OneInv, AtMostOneInProgress, EndHolds
<1>8. CASE EndRaised
  <2>1. InProgress \subseteq {op.run}
    BY <1>8 DEF EndRaised, OneInv, EndHolds
  <2>2. InProgress' \subseteq {op.run}
    BY <1>8, <2>1 DEF EndRaised, SetStatus, rowVars
  <2> QED BY <1>8, <2>2 DEF EndRaised, OneInv, AtMostOneInProgress, EndHolds
<1>9. CASE WriteConflict
  BY <1>9, OneKept DEF WriteConflict, dbVars, rowVars
<1>10. CASE StrayCheck \/ StrayStop \/ StopQuietly
  BY <1>10, OneKept DEF StrayCheck, StrayStop, StopQuietly, dbVars, rowVars
<1>11. ASSUME NEW r \in Runs, NEW late \in BOOLEAN, Reconcile(r, late) PROVE OneInv'
  <2>1. InProgress' \subseteq InProgress
    BY <1>11 DEF Reconcile, ReconcileRow, SetStatus
  <2> QED BY <1>11, <2>1, OneKept DEF Reconcile
<1>12. ASSUME NEW r \in Runs, Ingest(r) PROVE OneInv'
  <2>1. InProgress' \subseteq InProgress
    BY <1>12 DEF Ingest, RegisterExternal
  <2> QED BY <1>12, <2>1, OneKept DEF Ingest, procVars
<1>13. ASSUME NEW r \in Runs, Quiet(r) PROVE OneInv'
  BY <1>13, OneKept DEF Quiet, procVars
<1>14. ASSUME NEW r \in Runs, DeleteCommit(r) PROVE OneInv'
  <2>1. InProgress' \subseteq InProgress
    BY <1>14 DEF DeleteCommit
  <2> QED BY <1>14, <2>1, OneKept DEF DeleteCommit
<1>15. ASSUME NEW r \in Runs,
              DeleteUnlink(r) \/ DeleteUnlinkFails(r) \/ DeleteRecord(r) \/ RecordConflict(r)
       PROVE  OneInv'
  BY <1>15, OneKept
     DEF DeleteUnlink, DeleteUnlinkFails, DeleteRecord, RecordConflict, dbVars, rowVars
<1>16. CASE Crash \/ Boot \/ Worker
  BY <1>16, OneKept DEF Crash, Boot, Worker, procVars, dbVars, rowVars
<1>17. CASE Backfill
  <2>1. InProgress' \subseteq InProgress
    BY <1>17 DEF Backfill
  <2> QED BY <1>17, <2>1, OneKept DEF Backfill, procVars
<1>18. CASE Recover
  <2>1. InProgress' \subseteq InProgress
    BY <1>18 DEF Recover, SetStatus, rowVars
  <2> QED BY <1>18, <2>1, OneKept DEF Recover, procVars
<1>19. CASE UNCHANGED vars
  BY <1>19, OneKept DEF vars, procVars, dbVars, rowVars
<1> QED
  BY <1>1, <1>2, <1>3, <1>4, <1>5, <1>6, <1>7, <1>8, <1>9, <1>10, <1>11, <1>12, <1>13, <1>14,
     <1>15, <1>16, <1>17, <1>18, <1>19
     DEF Next, Lifecycle, Deletion

\* At no time are two runs starting, active or ending.
THEOREM OneInProgress == Spec => []AtMostOneInProgress
<1>1. Init => TypeOK /\ OneInv
  BY TypeInit DEF Init, OneInv, AtMostOneInProgress, EndHolds
<1>2. TypeOK /\ OneInv /\ [Next]_vars => (TypeOK /\ OneInv)'
  BY TypeStep, OneStep
<1>3. OneInv => AtMostOneInProgress
  BY DEF OneInv
<1> QED BY <1>1, <1>2, <1>3, PTL DEF Spec

-----------------------------------------------------------------------------
(* Deletion is final.                                                       *)

\* One step brings no deleted run back, in the runs table or in the data tables.
LEMMA DeletedStep ==
  ASSUME TypeOK, DeletedStaysDeleted, [Next]_vars
  PROVE  DeletedStaysDeleted'
<1> USE DEF TypeOK, DeletedStaysDeleted
<1>1. ASSUME NEW r \in Runs, StartCheck(r) \/ Quiet(r) PROVE DeletedStaysDeleted'
  BY <1>1 DEF StartCheck, Quiet, dbVars, rowVars
<1>2. ASSUME NEW r \in Runs, EndCommit(r) PROVE DeletedStaysDeleted'
  BY <1>2 DEF EndCommit, SetStatus
<1>3. ASSUME NEW late \in BOOLEAN, StartCommit(late) PROVE DeletedStaysDeleted'
  BY <1>3 DEF StartCommit, MayCreate, Settled
<1>4. ASSUME NEW late \in BOOLEAN, StartReject(late) PROVE DeletedStaysDeleted'
  BY <1>4 DEF StartReject, dbVars, rowVars
<1>5. CASE StartCall \/ EndCall \/ WriteConflict \/ StrayCheck \/ StrayStop \/ StopQuietly
  BY <1>5 DEF StartCall, EndCall, WriteConflict, StrayCheck, StrayStop, StopQuietly, dbVars, rowVars
<1>6. CASE StartRaised
  BY <1>6 DEF StartRaised, SetStatus, rowVars
<1>7. CASE EndRaised
  BY <1>7 DEF EndRaised, SetStatus, rowVars
<1>8. ASSUME NEW r \in Runs, NEW late \in BOOLEAN, Reconcile(r, late) PROVE DeletedStaysDeleted'
  BY <1>8 DEF Reconcile, ReconcileRow, SetStatus
<1>9. ASSUME NEW r \in Runs, Ingest(r) PROVE DeletedStaysDeleted'
  BY <1>9 DEF Ingest, Accepts, RegisterExternal
<1>10. ASSUME NEW r \in Runs, DeleteCommit(r) PROVE DeletedStaysDeleted'
  BY <1>10 DEF DeleteCommit
<1>11. ASSUME NEW r \in Runs,
              DeleteUnlink(r) \/ DeleteUnlinkFails(r) \/ DeleteRecord(r) \/ RecordConflict(r)
       PROVE  DeletedStaysDeleted'
  BY <1>11 DEF DeleteUnlink, DeleteUnlinkFails, DeleteRecord, RecordConflict, dbVars, rowVars
<1>12. CASE Crash \/ Boot \/ Worker
  BY <1>12 DEF Crash, Boot, Worker, dbVars, rowVars
<1>13. CASE Backfill
  BY <1>13 DEF Backfill
<1>14. CASE Recover
  BY <1>14 DEF Recover, SetStatus, rowVars
<1>15. CASE UNCHANGED vars
  BY <1>15 DEF vars, dbVars, rowVars
<1> QED
  BY <1>1, <1>2, <1>3, <1>4, <1>5, <1>6, <1>7, <1>8, <1>9, <1>10, <1>11, <1>12, <1>13, <1>14, <1>15
     DEF Next, Lifecycle, Deletion

\* A deleted run never has a row or data again.
THEOREM DeletionFinal == Spec => []DeletedStaysDeleted
<1>1. Init => TypeOK /\ DeletedStaysDeleted
  BY TypeInit DEF Init, DeletedStaysDeleted
<1>2. TypeOK /\ DeletedStaysDeleted /\ [Next]_vars => (TypeOK /\ DeletedStaysDeleted)'
  BY TypeStep, DeletedStep
<1> QED BY <1>1, <1>2, PTL DEF Spec

-----------------------------------------------------------------------------
(* The audit trail.  An ending run was asked to end, and the worker names   *)
(* no run but one it was asked for.                                         *)

EndingWasRequested == \A r \in Runs : state[r] = "ending" => <<r, "end_requested">> \in events
NamesAsked == status.run \in asked \cup {NoRun}
TrailInv == EndingWasRequested /\ NamesAsked /\ EndedWasRequested /\ StartedWasConfirmed

\* The worker's lines and the manager's calls leave the run named an asked one.
LEMMA NamesAskedStep ==
  ASSUME TypeOK, NamesAsked, [Next]_vars
  PROVE  NamesAsked' /\ asked \subseteq asked'
<1> USE DEF TypeOK, NamesAsked
<1>1. ASSUME StopNothing \/ StopAccepted \/ StopBroken \/ StopRefused
      PROVE  NamesAsked' /\ asked \subseteq asked'
  BY <1>1, StopTypes
<1>2. CASE StartCall
  BY <1>2 DEF StartCall, StartAccepted, StartBroken, cvVars, Status, Line
<1>3. CASE Worker
  BY <1>3 DEF Worker, OrderlyReports, WorkerReports, Line
<1>4. CASE Crash
  BY <1>4 DEF Crash, Line
<1>5. CASE EndCall \/ StrayStop \/ StopQuietly
  BY <1>1, <1>5 DEF EndCall, StrayStop, StopQuietly
<1>6. CASE UNCHANGED cvVars
  BY <1>6 DEF cvVars
<1>7. UNCHANGED cvVars \/ StartCall \/ Worker \/ Crash \/ EndCall \/ StrayStop \/ StopQuietly
  BY DEF Next, Lifecycle, Deletion, StartCheck, EndCommit, StartCommit, StartReject, StartRaised,
         EndRaised, WriteConflict, StrayCheck, Reconcile, Ingest, Quiet, DeleteCommit, DeleteUnlink,
         DeleteUnlinkFails, DeleteRecord, RecordConflict, Boot, Backfill, Recover, vars
<1> QED BY <1>2, <1>3, <1>4, <1>5, <1>6, <1>7

\* One step records an end only where it was requested, a start time only where the
\* worker confirmed it.
LEMMA TrailStep ==
  ASSUME TypeOK, TrailInv, [Next]_vars
  PROVE  TrailInv'
<1> USE DEF TypeOK, EndingWasRequested, EndedWasRequested, StartedWasConfirmed
<1>0. NamesAsked' /\ asked \subseteq asked' /\ TrailInv
  BY NamesAskedStep DEF TrailInv
<1> DEFINE Rest == EndingWasRequested /\ EndedWasRequested /\ StartedWasConfirmed
<1>1. ASSUME NEW r \in Runs, NEW late \in BOOLEAN, r \in InProgress
      PROVE  /\ Due(r, late) = "active" /\ state[r] # "active" => r \in asked
             /\ Due(r, late) = "ended" => <<r, "end_requested">> \in events
             /\ Due(r, late) = "ending" => <<r, "end_requested">> \in events
  BY <1>0, <1>1, DueRange, NoRunAssumption
     DEF TrailInv, NamesAsked, Confirmed, Matches, NoRunAssumption
<1>2. ASSUME UNCHANGED <<state, origin, begun, events>> PROVE Rest'
  BY <1>0, <1>2 DEF TrailInv
<1>3. ASSUME NEW r \in Runs, EndCommit(r) PROVE Rest'
  BY <1>0, <1>3 DEF EndCommit, SetStatus, Events, Audited, TrailInv
<1>4. ASSUME NEW late \in BOOLEAN, StartCommit(late) PROVE Rest'
  BY <1>0, <1>1, <1>4 DEF StartCommit, Settled, TrailInv
<1>5. CASE StartRaised
  BY <1>0, <1>5 DEF StartRaised, SetStatus, Events, Audited, TrailInv, rowVars
<1>6. CASE EndRaised
  BY <1>0, <1>6 DEF EndRaised, SetStatus, TrailInv, rowVars
<1>7. ASSUME NEW r \in Runs, NEW late \in BOOLEAN, Reconcile(r, late) PROVE Rest'
  <2>1. /\ r \in InProgress /\ Due(r, late) # state[r]
        /\ state' = [state EXCEPT ![r] = Due(r, late)]
        /\ begun' = IF Due(r, late) = "active" THEN begun \cup {r} ELSE begun
        /\ events' = events \cup ({r} \X ({EventOf(Due(r, late))} \cap Audited))
        /\ UNCHANGED origin
    BY <1>7 DEF Reconcile, ReconcileRow, SetStatus, Events
  <2>2. Due(r, late) = "active" => r \in asked /\ <<r, "activated">> \in events'
    BY <1>1, <2>1 DEF EventOf, Audited
  <2>3. Due(r, late) = "ended" => {<<r, "end_requested">>, <<r, "ended">>} \subseteq events'
    BY <1>1, <2>1 DEF EventOf, Audited
  <2>4. EndingWasRequested'
    BY <1>0, <1>1, <2>1 DEF TrailInv
  <2>5. EndedWasRequested'
    BY <1>0, <2>1, <2>3 DEF TrailInv
  <2>6. StartedWasConfirmed'
    BY <1>0, <2>1, <2>2 DEF TrailInv
  <2> QED BY <2>4, <2>5, <2>6
<1>8. ASSUME NEW r \in Runs, Ingest(r) PROVE Rest'
  BY <1>0, <1>8 DEF Ingest, RegisterExternal, TrailInv
<1>9. ASSUME NEW r \in Runs, DeleteCommit(r) PROVE Rest'
  BY <1>0, <1>9 DEF DeleteCommit, Events, Audited, TrailInv
<1>10. CASE Backfill
  BY <1>0, <1>10 DEF Backfill, TrailInv
<1>11. CASE Recover
  BY <1>0, <1>11 DEF Recover, SetStatus, Events, Audited, TrailInv, rowVars
<1>12. ASSUME NEW r \in Runs, DeleteRecord(r) PROVE Rest'
  BY <1>0, <1>12 DEF DeleteRecord, Events, Audited, TrailInv, rowVars
<1>13. \/ UNCHANGED <<state, origin, begun, events>>
       \/ StartRaised \/ EndRaised \/ Backfill \/ Recover
       \/ \E r \in Runs : EndCommit(r) \/ Ingest(r) \/ DeleteCommit(r) \/ DeleteRecord(r)
       \/ \E late \in BOOLEAN : StartCommit(late) \/ \E r \in Runs : Reconcile(r, late)
  BY DEF Next, Lifecycle, Deletion, StartCheck, StartReject, StartCall, EndCall, WriteConflict,
         StrayCheck, StrayStop, StopQuietly, Quiet, DeleteUnlink, DeleteUnlinkFails, RecordConflict,
         Crash, Boot, Worker, vars, dbVars, rowVars
<1>14. Rest' => TrailInv'
  BY <1>0 DEF TrailInv
<1> HIDE DEF TypeOK, EndingWasRequested, EndedWasRequested, StartedWasConfirmed, Rest
<1> QED
  BY <1>2, <1>3, <1>4, <1>5, <1>6, <1>7, <1>8, <1>9, <1>10, <1>11, <1>12, <1>13, <1>14

\* No managed run is recorded as ended without a request, and none has a start
\* time without the worker's confirmation.
THEOREM TrailCorrect == Spec => []TrailTruthful
<1>1. Init => TypeOK /\ TrailInv
  BY TypeInit DEF Init, CvInit, Line, TrailInv, EndingWasRequested, NamesAsked, EndedWasRequested,
                  StartedWasConfirmed
<1>2. TypeOK /\ TrailInv /\ [Next]_vars => (TypeOK /\ TrailInv)'
  BY TypeStep, TrailStep
<1>3. TrailInv => TrailTruthful
  BY DEF TrailInv, TrailTruthful
<1> QED BY <1>1, <1>2, <1>3, PTL DEF Spec

-----------------------------------------------------------------------------
(* A closed run stays closed, but for an End that was overtaken.            *)

\* The one step that reopens a closed run compensates an End.
LEMMA ClosedStep ==
  ASSUME TypeOK, [Next]_vars, NEW r \in Runs, state[r] \in Closed, state'[r] \in Open
  PROVE  op = Op("end", "raised", r)
<1> USE DEF TypeOK
<1>1. \/ EndRaised \/ StartRaised \/ Backfill \/ Recover
      \/ \E q \in Runs : EndCommit(q) \/ Ingest(q) \/ DeleteCommit(q)
      \/ \E late \in BOOLEAN : StartCommit(late) \/ \E q \in Runs : Reconcile(q, late)
  BY DEF Next, Lifecycle, Deletion, StartCheck, StartReject, StartCall, EndCall, WriteConflict,
         StrayCheck, StrayStop, StopQuietly, Quiet, DeleteUnlink, DeleteUnlinkFails, DeleteRecord,
         RecordConflict, Crash, Boot, Worker, vars, dbVars, rowVars
<1>2. CASE EndRaised
  BY <1>2 DEF EndRaised, SetStatus, rowVars
<1>3. ~StartRaised /\ ~Backfill /\ ~Recover
  BY DEF StartRaised, Backfill, Recover, SetStatus, rowVars
<1>4. ASSUME NEW q \in Runs PROVE ~EndCommit(q) /\ ~Ingest(q) /\ ~DeleteCommit(q)
  BY DEF EndCommit, Ingest, DeleteCommit, SetStatus, RegisterExternal
<1>5. ASSUME NEW late \in BOOLEAN PROVE ~StartCommit(late)
  BY DEF StartCommit, MayCreate, Settled
<1>6. ASSUME NEW late \in BOOLEAN, NEW q \in Runs PROVE ~Reconcile(q, late)
  BY DEF Reconcile, ReconcileRow, SetStatus
<1> QED BY <1>1, <1>2, <1>3, <1>4, <1>5, <1>6

\* No step reopens a closed run but end_run's compensating transaction.
THEOREM ClosedStaysClosed == Spec => NoResurrection
<1>1. TypeOK /\ [Next]_vars =>
        [\A r \in Runs : state[r] \in Closed /\ state'[r] \in Open => op = Op("end", "raised", r)]_vars
  BY ClosedStep
<1> QED BY <1>1, TypeCorrect, PTL DEF Spec, NoResurrection

-----------------------------------------------------------------------------
(* RunManager implements RunRegistry.                                       *)

\* The run a start or an End has committed is one of the dashboard's: in progress,
\* closed, or deleted since.
OpRunKnown ==
  op.at \in {"committed", "raised"} => op.run \in tombs \/ state[op.run] \in Open \cup Closed

RegInv == TypeOK /\ OneInv /\ DeletedStaysDeleted /\ OpRunKnown

\* The lifecycle lock's run keeps its row, or is deleted.
LEMMA OpRunStep ==
  ASSUME RegInv, [Next]_vars
  PROVE  OpRunKnown'
<1> USE DEF RegInv, TypeOK, OpRunKnown
<1>1. ASSUME NEW q \in Runs, NEW late \in BOOLEAN, Reconcile(q, late) PROVE OpRunKnown'
  BY <1>1, DueRange DEF Reconcile, ReconcileRow, SetStatus
<1>2. ASSUME NEW late \in BOOLEAN, StartCommit(late) PROVE OpRunKnown'
  BY <1>2 DEF StartCommit
<1>3. ASSUME NEW q \in Runs, EndCommit(q) PROVE OpRunKnown'
  BY <1>3 DEF EndCommit, SetStatus
<1>4. ASSUME NEW q \in Runs, Ingest(q) PROVE OpRunKnown'
  BY <1>4 DEF Ingest, RegisterExternal, procVars
<1>5. ASSUME NEW q \in Runs, DeleteCommit(q) PROVE OpRunKnown'
  BY <1>5 DEF DeleteCommit
<1>6. CASE Backfill
  BY <1>6 DEF Backfill, procVars
<1>7. CASE Recover
  BY <1>7 DEF Recover, SetStatus, procVars, rowVars
<1>8. ASSUME op' = NoOp PROVE OpRunKnown'
  BY <1>8
<1> DEFINE Moved == /\ op' = op \/ (op.at = "committed" /\ op' = [op EXCEPT !.at = "raised"])
                    /\ state' = state /\ tombs' = tombs
<1>9. ASSUME Moved PROVE OpRunKnown'
  BY <1>9
<1>10. ASSUME NEW q \in Runs, StartCheck(q) PROVE OpRunKnown'
  BY <1>10 DEF StartCheck
<1>11. \/ op' = NoOp \/ Moved \/ Backfill \/ Recover
       \/ \E q \in Runs : EndCommit(q) \/ Ingest(q) \/ DeleteCommit(q) \/ StartCheck(q)
       \/ \E late \in BOOLEAN : StartCommit(late) \/ \E q \in Runs : Reconcile(q, late)
  <2>1. StartCall \/ EndCall => op' = NoOp \/ Moved
    BY DEF StartCall, EndCall, dbVars, rowVars
  <2>2. StartRaised \/ EndRaised \/ WriteConflict \/ Crash => op' = NoOp
    BY DEF StartRaised, EndRaised, WriteConflict, Crash
  <2>3. ASSUME NEW late \in BOOLEAN, StartReject(late) PROVE op' = NoOp
    BY <2>3 DEF StartReject
  <2>4. StrayCheck \/ StrayStop \/ StopQuietly \/ Boot \/ Worker \/ UNCHANGED vars =>
          UNCHANGED <<op, state, tombs>>
    BY DEF StrayCheck, StrayStop, StopQuietly, Boot, Worker, vars, procVars, dbVars, rowVars
  <2>5. ASSUME NEW q \in Runs,
               \/ Quiet(q) \/ DeleteUnlink(q) \/ DeleteUnlinkFails(q) \/ DeleteRecord(q)
               \/ RecordConflict(q)
        PROVE  UNCHANGED <<op, state, tombs>>
    BY <2>5 DEF Quiet, DeleteUnlink, DeleteUnlinkFails, DeleteRecord, RecordConflict, procVars,
                dbVars, rowVars
  <2> HIDE DEF RegInv, TypeOK, OpRunKnown
  <2>6. UNCHANGED <<op, state, tombs>> => Moved
    OBVIOUS
  <2> HIDE DEF Moved
  <2> QED BY <2>1, <2>2, <2>3, <2>4, <2>5, <2>6 DEF Next, Lifecycle, Deletion
<1> HIDE DEF RegInv, TypeOK, OpRunKnown, Moved
<1> QED BY <1>1, <1>2, <1>3, <1>4, <1>5, <1>6, <1>7, <1>8, <1>9, <1>10, <1>11

\* What the refinement needs of every reachable state.
LEMMA RegInvariant == Spec => []RegInv
<1>1. Init => RegInv
  BY TypeInit DEF Init, RegInv, OneInv, AtMostOneInProgress, EndHolds, DeletedStaysDeleted, OpRunKnown
<1>2. RegInv /\ [Next]_vars => RegInv'
  BY TypeStep, OneStep, DeletedStep, OpRunStep DEF RegInv
<1> QED BY <1>1, <1>2, PTL DEF Spec

Phases == [r \in Runs |-> Phase(r)]

\* Giving one run with a row another status, by what it was and what it becomes.
LEMMA PhaseMoves ==
  ASSUME RegInv, NEW r \in Runs, Known(r), NEW s \in Open \cup Closed,
         state' = [state EXCEPT ![r] = s], tombs' = tombs
  PROVE  /\ state[r] \in Open /\ s \in Open => Phases' = Phases
         /\ state[r] \in Closed /\ s \in Closed => Phases' = Phases
         /\ state[r] \in Open /\ s \in Closed => Registry!Close(r)
         /\ state[r] \in Closed /\ s \in Open /\ InProgress \subseteq {r} => Registry!Reopen(r)
<1> USE DEF RegInv, TypeOK, DeletedStaysDeleted, Phases, Phase
<1>1. r \notin tombs /\ state' \in [Runs -> RunStates]
  BY DEF RunStates
<1>2. \A q \in Runs : Phase(q)' = IF q = r THEN (IF s \in Open THEN "open" ELSE "closed") ELSE Phase(q)
  BY <1>1
<1>3. state[r] \in Open => Phase(r) = "open"
  BY <1>1
<1>4. state[r] \in Closed => Phase(r) = "closed"
  BY <1>1
<1>5. InProgress \subseteq {r} /\ state[r] \notin Open => \A q \in Runs : Phase(q) # "open"
  BY DEF RunStates
<1>6. state[r] \in Open /\ s \in Open => Phases' = Phases
  BY <1>1
<1>7. state[r] \in Closed /\ s \in Closed => Phases' = Phases
  BY <1>1
<1> HIDE DEF Phase, RegInv, TypeOK
<1>8. state[r] \in Open /\ s \in Closed => Registry!Close(r)
  <2> SUFFICES ASSUME state[r] \in Open, s \in Closed PROVE Registry!Close(r)
    OBVIOUS
  <2>1. \A q \in Runs : Phase(q)' = IF q = r THEN "closed" ELSE Phase(q)
    BY <1>2
  <2> QED BY <1>3, <2>1 DEF Registry!Close
<1>9. state[r] \in Closed /\ s \in Open /\ InProgress \subseteq {r} => Registry!Reopen(r)
  <2> SUFFICES ASSUME state[r] \in Closed, s \in Open, InProgress \subseteq {r} PROVE Registry!Reopen(r)
    OBVIOUS
  <2>1. \A q \in Runs : Phase(q)' = IF q = r THEN "open" ELSE Phase(q)
    BY <1>2
  <2> QED BY <1>4, <1>5, <2>1 DEF Registry!Reopen, Registry!NoneOpen
<1> QED BY <1>6, <1>7, <1>8, <1>9

\* Every step of the bookkeeping is one step of the registry, or none.
LEMMA RegStep ==
  ASSUME RegInv, [Next]_vars
  PROVE  Registry!RNext \/ Phases' = Phases
<1> USE DEF RegInv, TypeOK
<1>1. ASSUME UNCHANGED <<state, tombs>> PROVE Phases' = Phases
  BY <1>1 DEF Phases, Phase
<1>2. ASSUME NEW q \in Runs, NEW late \in BOOLEAN, Reconcile(q, late)
      PROVE  Registry!RNext \/ Phases' = Phases
  <2>1. Registry!Close(q) \/ Phases' = Phases
    BY <1>2, PhaseMoves, DueRange DEF Reconcile, ReconcileRow, SetStatus
  <2> QED BY <2>1 DEF Registry!RNext
<1>3. ASSUME NEW late \in BOOLEAN, StartCommit(late) PROVE Registry!RNext
  <2> PICK r \in Runs : r = op.run
    BY <1>3 DEF StartCommit
  <2>1. r \notin tombs /\ ~Known(r) /\ tombs' = tombs
    BY <1>3 DEF StartCommit, MayCreate
  <2>2. \A q \in Runs : state'[q] = IF q = r THEN "starting"
                                   ELSE IF q \in InProgress THEN Due(q, late) ELSE state[q]
    BY <1>3 DEF StartCommit, MayCreate
  <2>3. \A q \in InProgress : Due(q, late) \in Closed /\ q \notin tombs
    BY <1>3 DEF StartCommit, MayCreate, Settled, DeletedStaysDeleted
  <2>4. Phase(r) = "absent" /\ Phase(r)' = "open"
    BY <2>1, <2>2 DEF Phase
  <2>5. \A q \in Runs \ {r} :
          Phase(q)' = IF Phase(q) = "open" THEN "closed" ELSE Phase(q)
    <3> SUFFICES ASSUME NEW q \in Runs \ {r}
                 PROVE  Phase(q)' = IF Phase(q) = "open" THEN "closed" ELSE Phase(q)
      OBVIOUS
    <3>1. CASE q \in InProgress
      BY <2>1, <2>2, <2>3, <3>1 DEF Phase
    <3>2. CASE q \notin InProgress
      BY <2>1, <2>2, <3>2 DEF Phase, RunStates
    <3> QED BY <3>1, <3>2
  <2> HIDE DEF Phase, RegInv, TypeOK
  <2>6. Registry!Open(r)
    BY <2>1, <2>4, <2>5 DEF Registry!Open
  <2> QED BY <2>1, <2>6 DEF Registry!RNext
<1>4. ASSUME NEW q \in Runs, EndCommit(q) PROVE Phases' = Phases
  BY <1>4, PhaseMoves DEF EndCommit, SetStatus
<1>5. CASE StartRaised
  <2>1. Known(op.run) => op.run \in Runs /\ state[op.run] \in Open \cup Closed
    BY <1>5 DEF StartRaised, OpRunKnown, DeletedStaysDeleted
  <2>2. op.run \in Runs /\ (Registry!Close(op.run) \/ Phases' = Phases)
    BY <1>1, <1>5, <2>1, PhaseMoves DEF StartRaised, SetStatus, rowVars
  <2> QED BY <2>2 DEF Registry!RNext
<1>6. CASE EndRaised
  <2>1. Known(op.run) => op.run \in Runs /\ state[op.run] \in Open \cup Closed
    BY <1>6 DEF EndRaised, OpRunKnown, DeletedStaysDeleted
  <2>2. op.run \in Runs /\ InProgress \subseteq {op.run}
    BY <1>6 DEF EndRaised, OneInv, EndHolds
  <2>3. Registry!Close(op.run) \/ Registry!Reopen(op.run) \/ Phases' = Phases
    BY <1>1, <1>6, <2>1, <2>2, PhaseMoves DEF EndRaised, SetStatus, rowVars
  <2> QED BY <2>2, <2>3 DEF Registry!RNext
<1>7. ASSUME NEW q \in Runs, Ingest(q) PROVE Registry!RNext \/ Phases' = Phases
  <2>1. CASE Known(q)
    BY <1>1, <1>7, <2>1 DEF Ingest
  <2>2. CASE ~Known(q)
    <3>1. state' = [state EXCEPT ![q] = "external"] /\ tombs' = tombs /\ q \notin tombs
      BY <1>7, <2>2 DEF Ingest, RegisterExternal, Accepts
    <3>2. \A x \in Runs : state[x] \notin Open
      BY <1>7, <2>2 DEF Ingest, Accepts
    <3>3. \A x \in Runs : Phase(x) # "open" /\ Phase(x)' = IF x = q THEN "external" ELSE Phase(x)
      BY <3>1, <3>2 DEF Phase, RunStates
    <3>4. Phase(q) = "absent"
      BY <2>2, <3>1 DEF Phase
    <3> HIDE DEF Phase, RegInv, TypeOK
    <3>5. Registry!Observe(q)
      BY <3>3, <3>4 DEF Registry!Observe, Registry!NoneOpen
    <3> QED BY <3>5 DEF Registry!RNext
  <2> QED BY <2>1, <2>2
<1>8. ASSUME NEW q \in Runs, DeleteCommit(q) PROVE Registry!RNext
  <2>1. q \notin tombs /\ state[q] \in Closed \cup {"external"}
    BY <1>8 DEF DeleteCommit, MayDelete, DeletedStaysDeleted, RunStates
  <2>2. \A x \in Runs : Phase(x)' = IF x = q THEN "deleted" ELSE Phase(x)
    BY <1>8 DEF DeleteCommit, Phase
  <2>3. Registry!Delete(q)
    BY <2>1, <2>2 DEF Registry!Delete, Phase
  <2> QED BY <2>3 DEF Registry!RNext
<1>9. CASE Backfill
  <2> DEFINE missing == {r \in data : ~Known(r) /\ r \notin tombs}
  <2>1. state' = [r \in Runs |-> IF r \in missing THEN "ended" ELSE state[r]] /\ tombs' = tombs
    BY <1>9 DEF Backfill
  <2>2. \A r \in missing : r \in Runs /\ Phase(r) = "absent"
    BY DEF Phase
  <2>3. \A r \in Runs : Phase(r)' = IF r \in missing THEN "closed" ELSE Phase(r)
    BY <2>1, <2>2 DEF Phase
  <2>4. missing \in SUBSET Runs /\ Registry!Import(missing)
    BY <2>2, <2>3 DEF Registry!Import
  <2> QED BY <2>4 DEF Registry!RNext
<1>10. CASE Recover
  <2>1. CASE UNCHANGED state
    BY <1>1, <1>10, <2>1 DEF Recover
  <2>2. CASE ~UNCHANGED state
    <3>1. PICK r \in InProgress : SetStatus(r, "interrupted", FALSE)
      BY <1>10, <2>2 DEF Recover, rowVars
    <3>2. Registry!Close(r)
      BY <1>10, <3>1, PhaseMoves DEF Recover, SetStatus
    <3> QED BY <3>2 DEF Registry!RNext
  <2> QED BY <2>1, <2>2
<1>11. \/ UNCHANGED <<state, tombs>>
       \/ StartRaised \/ EndRaised \/ Backfill \/ Recover
       \/ \E q \in Runs : EndCommit(q) \/ Ingest(q) \/ DeleteCommit(q)
       \/ \E late \in BOOLEAN : StartCommit(late) \/ \E q \in Runs : Reconcile(q, late)
  BY DEF Next, Lifecycle, Deletion, StartCheck, StartReject, StartCall, EndCall, WriteConflict,
         StrayCheck, StrayStop, StopQuietly, Quiet, DeleteUnlink, DeleteUnlinkFails, DeleteRecord,
         RecordConflict, Crash, Boot, Worker, vars, dbVars, rowVars
<1> HIDE DEF RegInv, TypeOK
<1> QED BY <1>1, <1>2, <1>3, <1>4, <1>5, <1>6, <1>7, <1>8, <1>9, <1>10, <1>11

\* The run bookkeeping with all its concurrency is the registry of RunRegistry.
THEOREM RegistryImplemented == Spec => ImplementsRegistry
<1>1. Init => Registry!RInit
  BY DEF Init, Registry!RInit, Phase
<1>2. RegInv /\ [Next]_vars => [Registry!RNext]_Phases
  BY RegStep
<1>3. Phases = [r \in Runs |-> Phase(r)]
  BY DEF Phases
<1> QED BY <1>1, <1>2, RegInvariant, PTL DEF Spec, ImplementsRegistry, Registry!RSpec, Phases
=============================================================================
