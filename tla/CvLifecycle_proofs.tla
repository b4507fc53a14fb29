------------------------- MODULE CvLifecycle_proofs -------------------------
(***************************************************************************)
(* What holds of CvLifecycle for any number of runs, stops and faults.     *)
(***************************************************************************)
EXTENDS CvLifecycle, SequenceTheorems, TLAPS

USE DEF Line, Idle, Stop, Shutdown, Start, SesActive, SesAlive

-----------------------------------------------------------------------------
(* Types.                                                                   *)

\* What the pipes and queues are made of: a sequence grows at its end and is
\* consumed from its head.
LEMMA SeqOps ==
  ASSUME NEW S, NEW s \in Seq(S)
  PROVE  /\ << >> \in Seq(S)
         /\ \A x \in S : <<x>> \in Seq(S) /\ Append(s, x) \in Seq(S)
         /\ \A t \in Seq(S) : s \o t \in Seq(S)
         /\ s # << >> => Head(s) \in S /\ Tail(s) \in Seq(S)
<1>1. \A x \in S : <<x>> \in Seq(S)
  OBVIOUS
<1>2. \A x \in S : Append(s, x) \in Seq(S)
  BY AppendProperties
<1>3. \A t \in Seq(S) : s \o t \in Seq(S)
  BY ConcatProperties
<1>4. s # << >> => Head(s) \in S /\ Tail(s) \in Seq(S)
  BY HeadTailProperties
<1> QED BY <1>1, <1>2, <1>3, <1>4, EmptySeq

\* A status line is a state and a run; a refused or forced one keeps its run.
LEMMA StatusFacts ==
  /\ \A s \in States, r \in Named : Line(s, r) \in Status
  /\ \A l \in Status : l.state \in States /\ l.run \in Named
  /\ \A l \in Status, s \in States : [l EXCEPT !.state = s] \in Status
  /\ NoRun \in Named
  /\ Stop \in Command /\ Shutdown \in Command
  /\ \A c \in Command : c.name = "start" => c.run \in Named
  /\ \A r \in asked : Start(r) \in Command
BY DEF Status, Named, Command

\* The bounds are numbers.
LEMMA Bounds == MaxStops \in Nat /\ MaxFaults \in Nat
BY BoundsAssumption DEF BoundsAssumption

\* The initial values have their types.
LEMMA TypeInit == Init => TypeOK
<1> SUFFICES ASSUME Init PROVE TypeOK
  OBVIOUS
<1>1. status \in Status /\ shared \in Status
  BY StatusFacts DEF Init, States
<1>2. stops \in 0 .. MaxStops /\ faults \in 0 .. MaxFaults
  BY Bounds DEF Init
<1>3. emitting \in [Threads -> Seq(Status)]
  BY EmptySeq DEF Init
<1>4. current \in [run : Named, saw : States] /\ ses.run \in Named
  BY StatusFacts DEF Init, States
<1>5. << >> \in Seq(Command) /\ << >> \in Seq(Status)
  BY EmptySeq
<1> QED BY <1>1, <1>2, <1>3, <1>4, <1>5
   DEF Init, TypeOK, ManagerTypes, PipeTypes, SupervisorTypes, SessionTypes

\* What a step does to the pipes and queues keeps their types.
LEMMA PipeFacts ==
  ASSUME TypeOK
  PROVE  /\ \A x \in Command : /\ Append(commands, x) \in Seq(Command)
                              /\ Append(queue, x) \in Seq(Command)
                              /\ Append(sesIn, x) \in Seq(Command)
         /\ \A x \in Status : <<x>> \in Seq(Status) /\ Append(sesOut, x) \in Seq(Status)
         /\ \A t \in Threads : report \o emitting[t] \in Seq(Status)
         /\ commands # << >> => Head(commands) \in Command /\ Tail(commands) \in Seq(Command)
         /\ queue # << >> => Head(queue) \in Command /\ Tail(queue) \in Seq(Command)
         /\ sesIn # << >> => Head(sesIn) \in Command /\ Tail(sesIn) \in Seq(Command)
         /\ report # << >> => Head(report) \in Status /\ Tail(report) \in Seq(Status)
         /\ sesOut # << >> => Head(sesOut) \in Status /\ Tail(sesOut) \in Seq(Status)
         /\ << >> \in Seq(Command) /\ << >> \in Seq(Status)
<1>1. /\ commands \in Seq(Command) /\ queue \in Seq(Command) /\ sesIn \in Seq(Command)
      /\ report \in Seq(Status) /\ sesOut \in Seq(Status)
      /\ \A t \in Threads : emitting[t] \in Seq(Status)
  BY DEF TypeOK, PipeTypes, SupervisorTypes, SessionTypes
<1> QED BY <1>1, SeqOps

\* A start makes one more run known; what was well typed stays so.
LEMMA AskedGrows ==
  ASSUME TypeOK, asked \subseteq asked'
  PROVE  /\ Named \subseteq Named' /\ Status \subseteq Status' /\ Command \subseteq Command'
         /\ \A s \in Seq(Command) : s \in Seq(Command')
         /\ \A s \in Seq(Status) : s \in Seq(Status')
<1>1. Named \subseteq Named' /\ Status \subseteq Status' /\ Command \subseteq Command'
  BY DEF Named, Status, Command
<1> QED BY <1>1, SeqMonotonic


\* An action that starts no run leaves the types themselves alone.
LEMMA AskedSame ==
  ASSUME asked' = asked
  PROVE  Status' = Status /\ Command' = Command /\ Named' = Named
BY DEF Status, Command, Named

\* The supervisor and the session start over.
LEMMA SupDiesTypes ==
  ASSUME SupDies, asked' = asked
  PROVE  SupervisorTypes'
BY AskedSame, StatusFacts, EmptySeq DEF SupDies, SupervisorTypes, States

\* A session that ends leaves well-typed pipes.
LEMMA SesDiesTypes ==
  ASSUME SessionTypes, asked' = asked, NEW code \in {0, 1}, SesDies(code)
  PROVE  SessionTypes'
BY AskedSame, EmptySeq DEF SesDies, SessionTypes

\* The steps that change the manager's record.
LEMMA ManagerSteps ==
  ASSUME [Next]_vars
  PROVE  \/ StartWorker \/ StartWorkerFails \/ StopSession \/ ReadProtocol \/ MonitorProcess
         \/ ShutdownBegin \/ ShutdownEnd \/ BackendCrash \/ (\E r \in Runs : StartSession(r))
         \/ UNCHANGED mgrVars
BY DEF Next, Manager, Reader, Main, Session, SessionReader, Fails, Threads, WriteCommand,
       SesTerminated, SesDies, vars, mgrVars, supVars, rdrVars, mainVars, sesVars, MainFrame,
       SesFrame, ShutdownKill, Emit, ReadStart, ReadStop, ForwardStop, AnnounceStop, ReaderEof,
       MainBoot, MainBootFails, MainGet, MainWait, MainCheck, MainRefuse, MainLaunch,
       MainLaunchFails, MainSpawn, MainSpawnFails, MainRegister, MainRelay, MainReap, MainReaped,
       MainConclude, MainFinally, MainExit, SesBoot, SesStage, SesPreloaded, SesMark, SesEnd,
       SesFail, SesExit, SesCrash, SesRead, SesEof

\* The steps that write or read the pipes between manager and supervisor.
LEMMA PipeSteps ==
  ASSUME [Next]_vars
  PROVE  \/ StopSession \/ ShutdownBegin \/ ReadStart \/ ReadStop \/ ReadProtocol
         \/ BackendCrash \/ (\E r \in Runs : StartSession(r)) \/ (\E t \in Threads : Emit(t))
         \/ UNCHANGED <<commands, report>>
BY DEF Next, Manager, Reader, Main, Session, SessionReader, Fails, Threads, WriteCommand,
       SesTerminated, SesDies, vars, mgrVars, supVars, rdrVars, mainVars, sesVars, MainFrame,
       SesFrame, StartWorker, StartWorkerFails, MonitorProcess, ShutdownKill, ShutdownEnd,
       ForwardStop, AnnounceStop, ReaderEof, MainBoot, MainBootFails, MainGet, MainWait,
       MainCheck, MainRefuse, MainLaunch, MainLaunchFails, MainSpawn, MainSpawnFails,
       MainRegister, MainRelay, MainReap, MainReaped, MainConclude, MainFinally, MainExit,
       SesBoot, SesStage, SesPreloaded, SesMark, SesEnd, SesFail, SesExit, SesCrash, SesRead,
       SesEof

\* The steps that change the supervisor's memory.
LEMMA SupervisorSteps ==
  ASSUME [Next]_vars
  PROVE  \/ StartWorker \/ ShutdownKill \/ ReadStart \/ ReadStop \/ ForwardStop
         \/ AnnounceStop \/ ReaderEof \/ MainBoot \/ MainBootFails \/ MainGet \/ MainWait
         \/ MainCheck \/ MainRefuse \/ MainLaunch \/ MainLaunchFails \/ MainSpawn
         \/ MainSpawnFails \/ MainRegister \/ MainRelay \/ MainReap \/ MainReaped
         \/ MainConclude \/ MainFinally \/ MainExit \/ (\E t \in Threads : Emit(t))
         \/ UNCHANGED supVars
BY DEF Next, Manager, Reader, Main, Session, SessionReader, Fails, Threads, WriteCommand,
       SesTerminated, SesDies, vars, mgrVars, supVars, rdrVars, mainVars, sesVars, MainFrame,
       SesFrame, StartWorkerFails, StartSession, StopSession, ReadProtocol, MonitorProcess,
       ShutdownBegin, ShutdownEnd, BackendCrash, SesBoot, SesStage, SesPreloaded, SesMark,
       SesEnd, SesFail, SesExit, SesCrash, SesRead, SesEof

\* The steps that change the session or its pipes.
LEMMA SessionSteps ==
  ASSUME [Next]_vars
  PROVE  \/ ShutdownKill \/ ForwardStop \/ ReaderEof \/ MainSpawn \/ MainRegister \/ MainRelay
         \/ MainFinally \/ SesBoot \/ SesStage \/ SesPreloaded \/ SesMark \/ SesFail
         \/ SesExit \/ SesCrash \/ SesRead \/ SesEof \/ (\E b \in BOOLEAN : SesEnd(b))
         \/ UNCHANGED sesVars
BY DEF Next, Manager, Reader, Main, Session, SessionReader, Fails, Threads, WriteCommand,
       SesTerminated, SesDies, vars, mgrVars, supVars, rdrVars, mainVars, sesVars, MainFrame,
       SesFrame, StartWorker, StartWorkerFails, StartSession, StopSession, ReadProtocol,
       MonitorProcess, ShutdownBegin, ShutdownEnd, BackendCrash, Emit, ReadStart, ReadStop,
       AnnounceStop, MainBoot, MainBootFails, MainGet, MainWait, MainCheck, MainRefuse,
       MainLaunch, MainLaunchFails, MainSpawnFails, MainReap, MainReaped, MainConclude, MainExit

\* Only start_session makes a run known.
LEMMA AskedSteps ==
  ASSUME [Next]_vars
  PROVE  (\E r \in Runs : StartSession(r)) \/ asked' = asked
BY ManagerSteps
   DEF StartWorker, StartWorkerFails, StopSession, ReadProtocol, MonitorProcess, ShutdownBegin,
       ShutdownEnd, BackendCrash, WriteCommand, mgrVars

\* A failure is counted.
LEMMA FaultSteps ==
  ASSUME [Next]_vars
  PROVE  Fault \/ faults' = faults
BY DEF Next, Manager, Reader, Main, Session, SessionReader, Fails, Threads, WriteCommand, vars,
       mgrVars, supVars, rdrVars, mainVars, sesVars, MainFrame, SesFrame, StartWorker,
       StartWorkerFails, StartSession, StopSession, ReadProtocol, MonitorProcess, ShutdownBegin,
       ShutdownKill, ShutdownEnd, BackendCrash, Emit, ReadStart, ReadStop, ForwardStop,
       AnnounceStop, ReaderEof, MainBoot, MainBootFails, MainGet, MainWait, MainCheck,
       MainRefuse, MainLaunch, MainLaunchFails, MainSpawn, MainSpawnFails, MainRegister,
       MainRelay, MainReap, MainReaped, MainConclude, MainFinally, MainExit, SesBoot, SesStage,
       SesPreloaded, SesMark, SesEnd, SesFail, SesExit, SesCrash, SesRead, SesEof

\* The manager's record keeps its types.
LEMMA ManagerTypesStep ==
  ASSUME TypeOK, [Next]_vars
  PROVE  ManagerTypes'
<1> USE DEF TypeOK, ManagerTypes
<1>1. CASE StartWorker \/ StartWorkerFails
  BY <1>1, AskedSame, StatusFacts DEF StartWorker, StartWorkerFails, States
<1>2. ASSUME NEW r \in Runs, StartSession(r) PROVE ManagerTypes'
  BY <1>2 DEF StartSession, WriteCommand, Status, States, Named
<1>3. CASE StopSession
  <2>1. stops' \in 0 .. MaxStops
    BY <1>3, Bounds DEF StopSession
  <2>2. status' \in Status
    BY <1>3, StatusFacts DEF StopSession, WriteCommand, States
  <2> QED BY <1>3, <2>1, <2>2, AskedSame DEF StopSession, WriteCommand
<1>4. CASE ReadProtocol
  BY <1>4, AskedSame, PipeFacts DEF ReadProtocol
<1>5. CASE MonitorProcess \/ ShutdownBegin \/ ShutdownEnd
  BY <1>5, AskedSame, StatusFacts DEF MonitorProcess, ShutdownBegin, ShutdownEnd, States
<1>6. CASE BackendCrash
  BY <1>6, AskedSame, StatusFacts DEF BackendCrash, States
<1>7. CASE UNCHANGED mgrVars
  BY <1>7, AskedSame DEF mgrVars
<1> HIDE DEF TypeOK, ManagerTypes
<1> QED
  BY <1>1, <1>2, <1>3, <1>4, <1>5, <1>6, <1>7, ManagerSteps

\* What is in the pipes between manager and supervisor keeps its types.
LEMMA PipeTypesStep ==
  ASSUME TypeOK, [Next]_vars
  PROVE  PipeTypes'
<1> USE DEF TypeOK, PipeTypes
<1>1. ASSUME NEW r \in Runs, StartSession(r) PROVE PipeTypes'
  <2>1. asked' = asked \cup {r} /\ report' = report
    BY <1>1 DEF StartSession, WriteCommand
  <2>2. Start(r) \in Command' /\ commands \in Seq(Command') /\ report \in Seq(Status')
    BY <2>1, AskedGrows DEF Command
  <2>3. commands' = commands \/ commands' = Append(commands, Start(r))
    BY <1>1 DEF StartSession, WriteCommand
  <2>4. Append(commands, Start(r)) \in Seq(Command')
    BY <2>2, SeqOps
  <2> QED BY <2>1, <2>2, <2>3, <2>4
<1>2. CASE StopSession \/ ShutdownBegin
  BY <1>2, AskedSame, PipeFacts, StatusFacts DEF StopSession, ShutdownBegin, WriteCommand
<1>3. CASE ReadStart \/ ReadStop
  BY <1>3, AskedSame, PipeFacts DEF ReadStart, ReadStop, mgrVars
<1>4. CASE ReadProtocol \/ BackendCrash
  BY <1>4, AskedSame, PipeFacts DEF ReadProtocol, BackendCrash
<1>5. ASSUME NEW t \in Threads, Emit(t) PROVE PipeTypes'
  BY <1>5, AskedSame, PipeFacts DEF Emit, mgrVars
<1>6. CASE UNCHANGED <<commands, report>> /\ asked' = asked
  BY <1>6, AskedSame
<1> HIDE DEF TypeOK, PipeTypes
<1> QED
  BY <1>1, <1>2, <1>3, <1>4, <1>5, <1>6, PipeSteps, AskedSteps

\* set_state of a well-typed line.
LEMMA SetStateTypes ==
  ASSUME TypeOK, asked' = asked, NEW t \in Threads, NEW l \in Status, SetState(t, l)
  PROVE  shared' \in Status' /\ emitting' \in [Threads -> Seq(Status')]
BY AskedSame, PipeFacts DEF SetState, TypeOK, SupervisorTypes

\* The supervisor's memory keeps its types.
LEMMA SupervisorTypesStep ==
  ASSUME TypeOK, [Next]_vars
  PROVE  SupervisorTypes'
<1> USE DEF TypeOK, SupervisorTypes
<1> HIDE DEF Line
<1>1. CASE StartWorker
  BY <1>1, AskedSame DEF StartWorker, rdrVars, mainVars
<1>2. CASE ShutdownKill \/ ReaderEof \/ MainExit
  BY <1>2, SupDiesTypes DEF ShutdownKill, ReaderEof, MainExit, mgrVars
<1>3. ASSUME NEW t \in Threads, Emit(t) PROVE SupervisorTypes'
  BY <1>3, AskedSame, StatusFacts, PipeFacts DEF Emit, mgrVars
<1>4. CASE ReadStart \/ ReadStop \/ ForwardStop
  BY <1>4, AskedSame, StatusFacts, PipeFacts
     DEF ReadStart, ReadStop, ForwardStop, mgrVars, mainVars
<1>5. CASE AnnounceStop
  <2>1. Line("stopping", shared.run) \in Status /\ asked' = asked
    BY <1>5, StatusFacts DEF AnnounceStop, States, mgrVars
  <2>2. shared' \in Status' /\ emitting' \in [Threads -> Seq(Status')]
    BY <1>5, <2>1, AskedSame, SetStateTypes DEF AnnounceStop, Threads
  <2> QED BY <1>5, <2>1, <2>2, AskedSame, StatusFacts, PipeFacts DEF AnnounceStop, mainVars
<1>6. CASE MainBoot \/ MainLaunch \/ MainFinally
  <2>1. /\ Line("ready", NoRun) \in Status /\ Line("starting", current.run) \in Status
        /\ Line("offline", shared.run) \in Status /\ asked' = asked
    BY <1>6, StatusFacts DEF MainBoot, MainLaunch, MainFinally, MainFrame, States, mgrVars
  <2>2. shared' \in Status' /\ emitting' \in [Threads -> Seq(Status')]
    BY <1>6, <2>1, SetStateTypes DEF MainBoot, MainLaunch, MainFinally, Says, Threads
  <2> QED BY <1>6, <2>1, <2>2, AskedSame
          DEF MainBoot, MainLaunch, MainFinally, Says, MainFrame, rdrVars
<1>7. CASE MainBootFails \/ MainLaunchFails \/ MainSpawnFails
  <2>1. /\ Line("failed", NoRun) \in Status /\ Line("failed", shared.run) \in Status
        /\ asked' = asked
    BY <1>7, StatusFacts DEF MainBootFails, MainLaunchFails, MainSpawnFails, States, mgrVars
  <2>2. shared' \in Status' /\ emitting' \in [Threads -> Seq(Status')]
    BY <1>7, <2>1, SetStateTypes DEF MainBootFails, MainLaunchFails, MainSpawnFails, Says, Threads
  <2>3. Idle \in [run : Named, saw : States]
    BY StatusFacts DEF States
  <2> QED BY <1>7, <2>1, <2>2, <2>3, AskedSame
          DEF MainBootFails, MainLaunchFails, MainSpawnFails, Says, rdrVars
<1>8. CASE MainGet
  BY <1>8, AskedSame, StatusFacts, PipeFacts DEF MainGet, MainFrame, mgrVars, rdrVars
<1>9. CASE MainWait \/ MainCheck
  BY <1>9, AskedSame, StatusFacts, PipeFacts DEF MainWait, MainCheck, MainFrame, mgrVars, rdrVars
<1>10. CASE MainRefuse
  <2>1. asked' = asked /\ current.saw \in States /\ shared.run \in Named
    BY <1>10, StatusFacts DEF MainRefuse, MainFrame, mgrVars
  <2>2. Line(IF current.saw = "stopping" /\ stopAsked THEN "ready" ELSE current.saw, shared.run)
          \in Status
    BY <2>1, StatusFacts DEF States
  <2>3. shared' \in Status' /\ emitting' \in [Threads -> Seq(Status')]
    BY <1>10, <2>1, <2>2, SetStateTypes DEF MainRefuse, Says, Threads
  <2> QED BY <1>10, <2>1, <2>3, AskedSame, StatusFacts
          DEF MainRefuse, Says, MainFrame, States, rdrVars
<1>11. CASE MainSpawn
  BY <1>11, AskedSame, StatusFacts, PipeFacts
     DEF MainSpawn, States, Idle, MainFrame, mgrVars, rdrVars
<1>12. CASE MainRegister \/ MainReap
  BY <1>12, AskedSame, StatusFacts, PipeFacts
     DEF MainRegister, MainReap, MainFrame, mgrVars, rdrVars
<1>13. CASE MainReaped
  BY <1>13, AskedSame, StatusFacts, PipeFacts DEF MainReaped, MainFrame, mgrVars, rdrVars
<1>14. CASE MainRelay
  BY <1>14, AskedSame, StatusFacts, PipeFacts
     DEF MainRelay, SetState, Threads, mainVars, MainFrame, mgrVars, rdrVars
<1>15. CASE MainConclude
  <2>1. /\ Line("failed", shared.run) \in Status /\ Line("ready", shared.run) \in Status
        /\ asked' = asked
    BY <1>15, StatusFacts DEF MainConclude, MainFrame, States, mgrVars
  <2>2. shared' \in Status' /\ emitting' \in [Threads -> Seq(Status')]
    BY <1>15, <2>1, SetStateTypes, AskedSame DEF MainConclude, Threads
  <2> QED BY <1>15, <2>1, <2>2, AskedSame, StatusFacts
          DEF MainConclude, MainFrame, States, rdrVars
<1>16. CASE UNCHANGED supVars /\ asked' = asked
  BY <1>16, AskedSame DEF supVars, rdrVars, mainVars
<1>17. ASSUME NEW r \in Runs, StartSession(r) PROVE SupervisorTypes'
  BY <1>17, AskedGrows DEF StartSession, WriteCommand, supVars, rdrVars, mainVars
<1> HIDE DEF TypeOK, SupervisorTypes
<1> QED
  BY <1>1, <1>2, <1>3, <1>4, <1>5, <1>6, <1>7, <1>8, <1>9, <1>10, <1>11, <1>12, <1>13, <1>14,
     <1>15, <1>16, <1>17, SupervisorSteps, AskedSteps

\* The session and its pipes keep their types.
LEMMA SessionTypesStep ==
  ASSUME TypeOK, [Next]_vars
  PROVE  SessionTypes'
<1> USE DEF TypeOK, SessionTypes
<1> HIDE DEF Line
<1>1. CASE SesTerminated(TRUE) /\ asked' = asked
  BY <1>1, AskedSame, SesDiesTypes DEF SesTerminated, sesVars
<1>2. CASE ForwardStop
  BY <1>2, AskedSame, StatusFacts, PipeFacts DEF ForwardStop, mgrVars
<1>3. CASE MainSpawn
  BY <1>3, AskedSame, StatusFacts, PipeFacts DEF MainSpawn, SupervisorTypes, MainFrame, mgrVars
<1>4. CASE MainRegister \/ MainRelay
  BY <1>4, AskedSame, StatusFacts, PipeFacts DEF MainRegister, MainRelay, MainFrame, mgrVars
<1>5. CASE SesBoot \/ SesStage \/ SesPreloaded \/ SesMark
  <2>1. asked' = asked /\ \A st \in States : Line(st, ses.run) \in Status
    BY <1>5, StatusFacts DEF SesBoot, SesStage, SesPreloaded, SesMark, SesFrame, mgrVars
  <2>2. sesOut' \in Seq(Status)
    BY <1>5, <2>1, PipeFacts
       DEF SesBoot, SesStage, SesPreloaded, SesMark, SesEmit, States
  <2> QED BY <1>5, <2>1, <2>2, AskedSame
          DEF SesBoot, SesStage, SesPreloaded, SesMark, SesGo
<1>6. ASSUME NEW b \in BOOLEAN, SesEnd(b) PROVE SessionTypes'
  BY <1>6, AskedSame, StatusFacts, PipeFacts DEF SesEnd, SesGo, SesEmit, States, SesFrame, mgrVars
<1>7. CASE SesFail
  BY <1>7, AskedSame, StatusFacts, PipeFacts DEF SesFail, SesGo, SesEmit, States, mgrVars
<1>8. CASE SesExit \/ SesCrash \/ SesEof
  BY <1>8, SesDiesTypes DEF SesExit, SesCrash, SesEof, SesFrame, mgrVars
<1>9. CASE SesRead
  BY <1>9, AskedSame, StatusFacts, PipeFacts DEF SesRead, SesFrame, mgrVars
<1>10. CASE UNCHANGED sesVars /\ asked' = asked
  BY <1>10, AskedSame DEF sesVars
<1>11. ASSUME NEW r \in Runs, StartSession(r) PROVE SessionTypes'
  BY <1>11, AskedGrows DEF StartSession, WriteCommand, sesVars
<1>12. ASSUME ShutdownKill \/ ReaderEof \/ MainFinally PROVE (SesTerminated(TRUE) \/ UNCHANGED sesVars) /\ asked' = asked
  BY <1>12 DEF ShutdownKill, ReaderEof, MainFinally, SesTerminated, MainFrame, mgrVars
<1> HIDE DEF TypeOK, SessionTypes
<1> QED
  BY <1>1, <1>2, <1>3, <1>4, <1>5, <1>6, <1>7, <1>8, <1>9, <1>10, <1>11, <1>12, SessionSteps,
     AskedSteps

\* One step keeps every type: the groups of the manager, the pipes, the supervisor and
\* the session are taken one by one.
LEMMA TypeStep ==
  ASSUME TypeOK, [Next]_vars
  PROVE  TypeOK'
<1>1. faults' \in 0 .. MaxFaults
  BY FaultSteps, Bounds DEF Fault, TypeOK
<1> QED BY <1>1, ManagerTypesStep, PipeTypesStep, SupervisorTypesStep, SessionTypesStep DEF TypeOK

\* Every variable keeps its type, whatever the bounds are, and no line or command
\* anywhere names a run nobody asked for.
THEOREM TypeCorrect == Spec => []TypeOK
BY TypeInit, TypeStep, PTL DEF Spec

-----------------------------------------------------------------------------
(* A worker the manager has let go of.                                      *)

\* A manager without a worker process shows it offline or failed after every step.
LEMMA DeadWorkerStep ==
  ASSUME TypeOK, DeadWorkerNotReported, [Next]_vars
  PROVE  DeadWorkerNotReported'
<1> USE DEF DeadWorkerNotReported, TypeOK, ManagerTypes, Status
<1>1. CASE StartWorker \/ StartWorkerFails
  BY <1>1 DEF StartWorker, StartWorkerFails
<1>2. ASSUME NEW r \in Runs, StartSession(r) PROVE DeadWorkerNotReported'
  BY <1>2 DEF StartSession, WriteCommand
<1>3. CASE StopSession
  BY <1>3 DEF StopSession, WriteCommand
<1>4. CASE ReadProtocol
  BY <1>4 DEF ReadProtocol
<1>5. CASE MonitorProcess \/ ShutdownBegin \/ ShutdownEnd
  BY <1>5 DEF MonitorProcess, ShutdownBegin, ShutdownEnd
<1>6. CASE BackendCrash
  BY <1>6 DEF BackendCrash
<1>7. CASE UNCHANGED mgrVars
  BY <1>7 DEF mgrVars
<1> QED BY <1>1, <1>2, <1>3, <1>4, <1>5, <1>6, <1>7, ManagerSteps

\* Whatever is left in its pipe, a worker process that is no longer the manager's
\* is never shown as one that loads, is ready or runs.
THEOREM DeadWorkerStaysDead == Spec => []DeadWorkerNotReported
<1>1. Init => TypeOK /\ DeadWorkerNotReported
  BY TypeInit DEF Init, DeadWorkerNotReported
<1>2. TypeOK /\ DeadWorkerNotReported /\ [Next]_vars => (TypeOK /\ DeadWorkerNotReported)'
  BY TypeStep, DeadWorkerStep
<1> QED BY <1>1, <1>2, PTL DEF Spec

-----------------------------------------------------------------------------
(* One session.  A worker is started once and never again, so no session of *)
(* a lost supervisor can meet a new supervisor; and while a session lives   *)
(* its supervisor's main thread is registering it, relaying it or leaving.  *)

Watching == {"register", "relay", "exit", "gone"}

Unstarted ==
  ~attached /\ ~closing /\ backendUp /\ status.state = "offline" => ~supUp /\ ses.at = "none"
SessionWatched ==
  supUp /\ main \notin Watching => ~SesAlive
SesInv == Unstarted /\ SessionWatched

\* The session process appears where the main thread spawns it and nowhere else,
\* and a spawning main thread has a supervisor.
LEMMA SessionBorn ==
  ASSUME TypeOK, [Next]_vars
  PROVE  /\ MainSpawn \/ (SesAlive' => SesAlive)
         /\ MainSpawn \/ (ses'.at = "boot" => ses.at = "boot")
         /\ MainSpawn \/ (ses.at = "none" => ses'.at = "none")
<1> USE DEF TypeOK, SessionTypes
<1>1. CASE ShutdownKill \/ ReaderEof \/ MainFinally
  BY <1>1 DEF ShutdownKill, ReaderEof, MainFinally, SesTerminated, SesDies, sesVars
<1>2. CASE ForwardStop \/ MainRegister \/ MainRelay
  BY <1>2 DEF ForwardStop, MainRegister, MainRelay
<1>3. CASE SesBoot \/ SesStage \/ SesPreloaded \/ SesMark
  BY <1>3 DEF SesBoot, SesStage, SesPreloaded, SesMark, SesGo
<1>4. ASSUME NEW b \in BOOLEAN, SesEnd(b) PROVE ses.at = "running" /\ ses'.at = "closing"
  BY <1>4 DEF SesEnd, SesGo
<1>5. CASE SesFail
  BY <1>5 DEF SesFail
<1>6. CASE SesExit \/ SesCrash \/ SesEof
  BY <1>6 DEF SesExit, SesCrash, SesEof, SesDies
<1>7. CASE SesRead
  BY <1>7 DEF SesRead
<1>8. CASE UNCHANGED sesVars
  BY <1>8 DEF sesVars
<1> QED BY <1>1, <1>2, <1>3, <1>4, <1>5, <1>6, <1>7, <1>8, SessionSteps

\* The supervisor process appears where the manager starts it and nowhere else.
LEMMA WorkerBorn ==
  ASSUME [Next]_vars
  PROVE  StartWorker \/ (supUp' => supUp)
BY SupervisorSteps
   DEF ShutdownKill, Emit, ReadStart, ReadStop, ForwardStop, AnnounceStop, ReaderEof, MainBoot,
       MainBootFails, MainGet, MainWait, MainCheck, MainRefuse, MainLaunch, MainLaunchFails,
       MainSpawn, MainSpawnFails, MainRegister, MainRelay, MainReap, MainReaped, MainConclude,
       MainFinally, MainExit, MainFrame, SupDies, supVars

\* Before the worker is started there is neither a supervisor nor a session.
LEMMA UnstartedStep ==
  ASSUME TypeOK, Unstarted, [Next]_vars
  PROVE  Unstarted'
<1> DEFINE Fresh == ~attached /\ ~closing /\ backendUp /\ status.state = "offline"
<1>1. Fresh' => Fresh /\ ~StartWorker
  <2> USE DEF TypeOK, ManagerTypes, Status
  <2>1. CASE StartWorker \/ StartWorkerFails
    BY <2>1 DEF StartWorker, StartWorkerFails
  <2>2. ASSUME NEW r \in Runs, StartSession(r) PROVE ~Fresh' /\ ~StartWorker
    BY <2>2 DEF StartSession, StartWorker, WriteCommand
  <2>3. CASE StopSession
    BY <2>3 DEF StopSession, StartWorker, WriteCommand
  <2>4. CASE ReadProtocol
    BY <2>4 DEF ReadProtocol, StartWorker
  <2>5. CASE MonitorProcess \/ ShutdownBegin \/ ShutdownEnd
    BY <2>5 DEF MonitorProcess, ShutdownBegin, ShutdownEnd, StartWorker
  <2>6. CASE BackendCrash
    BY <2>6 DEF BackendCrash
  <2>7. CASE UNCHANGED mgrVars
    BY <2>7 DEF mgrVars, StartWorker
  <2> QED BY <2>1, <2>2, <2>3, <2>4, <2>5, <2>6, <2>7, ManagerSteps
<1>2. Fresh => ~MainSpawn
  BY DEF Unstarted, MainSpawn, Free
<1>3. Fresh => (supUp' => StartWorker) /\ (ses'.at = "none" \/ MainSpawn)
  BY WorkerBorn, SessionBorn DEF Unstarted
<1> QED BY <1>1, <1>2, <1>3 DEF Unstarted

\* Where the main thread goes: it stops watching a session only by reaping it.
LEMMA MainMoves ==
  ASSUME TypeOK, [Next]_vars, supUp
  PROVE  \/ ~supUp'
         \/ main' \in Watching
         \/ main \notin Watching /\ ~MainSpawn
         \/ MainReap
<1> USE DEF Watching
<1>1. CASE UNCHANGED <<supUp, main>>
  BY <1>1 DEF MainSpawn
<1>2. CASE StartWorker
  BY <1>2 DEF StartWorker, mainVars, MainSpawn
<1>3. CASE ShutdownKill \/ ReaderEof \/ MainExit
  BY <1>3 DEF ShutdownKill, ReaderEof, MainExit, SupDies
<1>4. ASSUME NEW t \in Threads, Emit(t) PROVE main' = main \/ main' \in {"exit", "gone"}
  BY <1>4 DEF Emit
<1>5. ASSUME NEW t \in Threads, Emit(t) PROVE ~MainSpawn
  BY <1>5 DEF Emit, MainSpawn, MainFrame, Free, mainVars, Threads
<1>6. CASE \/ MainBoot \/ MainBootFails \/ MainGet \/ MainWait \/ MainCheck \/ MainRefuse
           \/ MainLaunch \/ MainLaunchFails \/ MainSpawnFails \/ MainReaped \/ MainConclude
  BY <1>6
     DEF MainBoot, MainBootFails, MainGet, MainWait, MainCheck, MainRefuse, MainLaunch,
         MainLaunchFails, MainSpawn, MainSpawnFails, MainReaped, MainConclude, Says, Free
<1>7. CASE MainSpawn \/ MainRegister \/ MainRelay \/ MainFinally
  BY <1>7 DEF MainSpawn, MainRegister, MainRelay, MainFinally, Says
<1>8. CASE ReadStart \/ ReadStop \/ ForwardStop \/ AnnounceStop
  BY <1>8 DEF ReadStart, ReadStop, ForwardStop, AnnounceStop, mainVars, MainSpawn
<1> QED
  BY <1>1, <1>2, <1>3, <1>4, <1>5, <1>6, <1>7, <1>8, SupervisorSteps DEF supVars, mainVars

\* A living session is being registered, relayed, or left behind by the main thread.
LEMMA WatchedStep ==
  ASSUME TypeOK, SesInv, [Next]_vars
  PROVE  SessionWatched'
<1>1. CASE supUp
  <2>1. MainReap => ~SesAlive /\ ~MainSpawn
    BY DEF MainReap, MainSpawn
  <2>2. MainSpawn => main' \in Watching
    BY DEF MainSpawn, Watching
  <2> QED BY <1>1, <2>1, <2>2, MainMoves, SessionBorn DEF SesInv, SessionWatched
<1>2. CASE ~supUp
  <2>1. supUp' => StartWorker
    BY <1>2, WorkerBorn
  <2>2. StartWorker => ~SesAlive'
    BY DEF StartWorker, SesInv, Unstarted, sesVars
  <2> QED BY <2>1, <2>2 DEF SessionWatched
<1> QED BY <1>1, <1>2

\* No session is spawned while another one is alive.
THEOREM SessionsNeverMeet == Spec => OneSession
<1>1. Init => TypeOK /\ SesInv
  BY TypeInit DEF Init, SesInv, Unstarted, SessionWatched, Watching
<1>2. TypeOK /\ SesInv /\ [Next]_vars => (TypeOK /\ SesInv)'
  BY TypeStep, UnstartedStep, WatchedStep DEF SesInv
<1>3. TypeOK /\ SesInv /\ [Next]_vars => [ses'.at = "boot" /\ ses.at # "boot" => ~SesAlive]_vars
  BY SessionBorn DEF SesInv, SessionWatched, MainSpawn, Free, Watching
<1> QED BY <1>1, <1>2, <1>3, PTL DEF Spec, OneSession

-----------------------------------------------------------------------------
(* To the run service: CvStatus.                                            *)

\* Each step is a start accepted or broken, a report of the worker, or none.
LEMMA CvStatusStep ==
  ASSUME TypeOK, TypeOK', [Next]_vars
  PROVE  Cv!CvNext \/ UNCHANGED Cv!cvVars
<1>1. ASSUME NEW r \in Runs, StartSession(r) PROVE Cv!CvNext
  BY <1>1 DEF StartSession, WriteCommand, Cv!CvNext, Cv!StartAccepted, Cv!StartBroken, Cv!Line
<1>2. CASE asked' = asked
  <2>1. status' \in [state : States, run : asked \cup {NoRun}]
    BY <1>2 DEF TypeOK, ManagerTypes, Status, Named
  <2>2. Cv!WorkerReports
    BY <1>2, <2>1 DEF Cv!WorkerReports, Cv!Line, Cv!States, States
  <2> QED BY <2>2 DEF Cv!CvNext
<1> QED BY <1>1, <1>2, AskedSteps

\* The three processes and their pipes are the status record the run service sees.
THEOREM CvStatusImplemented == Spec => ImplementsCvStatus
<1>1. Init => Cv!CvInit
  BY DEF Init, Cv!CvInit, Cv!Line
<1>2. TypeOK /\ TypeOK' /\ [Next]_vars => [Cv!CvNext]_(Cv!cvVars)
  BY CvStatusStep
<1> QED BY <1>1, <1>2, TypeCorrect, PTL DEF Spec, ImplementsCvStatus, Cv!CvSpec

-----------------------------------------------------------------------------
(* A stop reaches its session.  The child is registered only while the main *)
(* thread relays it or leaves, and the reader thread has a line to write    *)
(* only between two commands, so a broken pipe cannot eat a stop it read.   *)

ChildRelayed == child => main \in {"relay", "exit", "gone"}
ReaderAnnounces == emitting["reader"] # << >> => rdr = "read"
StopInv == ChildRelayed /\ ReaderAnnounces /\ StopReachesSession

\* A step that leaves the stop's way to the session alone keeps it open.
LEMMA StopKept ==
  ASSUME StopReachesSession, child' => child, stopAsked' = stopAsked, rdr' = rdr,
         SesAlive' => SesAlive, sesStop' = sesStop, sesIn' = sesIn
  PROVE  StopReachesSession'
BY DEF StopReachesSession

\* The child is set only where its session is relayed or terminated.
LEMMA ChildStep ==
  ASSUME TypeOK, ChildRelayed, [Next]_vars
  PROVE  ChildRelayed'
<1> USE DEF ChildRelayed
<1>1. CASE StartWorker
  BY <1>1 DEF StartWorker, mainVars
<1>2. CASE ShutdownKill \/ ReaderEof \/ MainExit
  BY <1>2 DEF ShutdownKill, ReaderEof, MainExit, SupDies
<1>3. ASSUME NEW t \in Threads, Emit(t) PROVE ChildRelayed'
  BY <1>3 DEF Emit
<1>4. CASE ReadStart \/ ReadStop \/ ForwardStop \/ AnnounceStop
  BY <1>4 DEF ReadStart, ReadStop, ForwardStop, AnnounceStop, mainVars
<1>5. CASE \/ MainBoot \/ MainBootFails \/ MainGet \/ MainWait \/ MainCheck \/ MainRefuse
           \/ MainLaunch \/ MainLaunchFails \/ MainSpawnFails \/ MainReaped \/ MainConclude
           \/ MainSpawn
  BY <1>5
     DEF MainBoot, MainBootFails, MainGet, MainWait, MainCheck, MainRefuse, MainLaunch,
         MainLaunchFails, MainSpawn, MainSpawnFails, MainReaped, MainConclude, Says
<1>6. CASE MainRegister \/ MainRelay \/ MainReap \/ MainFinally
  BY <1>6 DEF MainRegister, MainRelay, MainReap, MainFinally, Says
<1>7. CASE UNCHANGED supVars
  BY <1>7 DEF supVars, mainVars
<1> QED BY <1>1, <1>2, <1>3, <1>4, <1>5, <1>6, <1>7, SupervisorSteps

\* The reader thread owes a line only when it is back at reading commands.
LEMMA AnnounceStep ==
  ASSUME TypeOK, ReaderAnnounces, [Next]_vars
  PROVE  ReaderAnnounces'
<1> USE DEF ReaderAnnounces, TypeOK, SupervisorTypes, Threads
<1>1. CASE StartWorker \/ UNCHANGED supVars
  BY <1>1 DEF StartWorker, supVars, rdrVars
<1>2. CASE ShutdownKill \/ ReaderEof \/ MainExit
  BY <1>2 DEF ShutdownKill, ReaderEof, MainExit, SupDies
<1>3. ASSUME NEW t \in Threads, Emit(t) PROVE ReaderAnnounces'
  BY <1>3 DEF Emit
<1>4. CASE ReadStart \/ ReadStop \/ ForwardStop
  BY <1>4 DEF ReadStart, ReadStop, ForwardStop, Free
<1>5. CASE AnnounceStop
  BY <1>5 DEF AnnounceStop, SetState, Free
<1>6. ASSUME NEW l, SetState("main", l), UNCHANGED rdrVars PROVE ReaderAnnounces'
  BY <1>6 DEF SetState, rdrVars
<1>7. CASE \/ MainBoot \/ MainBootFails \/ MainRefuse \/ MainLaunch \/ MainLaunchFails
           \/ MainSpawnFails \/ MainFinally \/ MainRelay
  BY <1>6, <1>7
     DEF MainBoot, MainBootFails, MainRefuse, MainLaunch, MainLaunchFails, MainSpawnFails,
         MainFinally, MainRelay, Says, MainFrame
<1>8. CASE \/ MainGet \/ MainWait \/ MainCheck \/ MainSpawn \/ MainRegister \/ MainReap
           \/ MainReaped
  BY <1>8
     DEF MainGet, MainWait, MainCheck, MainSpawn, MainRegister, MainReap, MainReaped, MainFrame,
         rdrVars
<1>9. CASE MainConclude
  BY <1>6, <1>9 DEF MainConclude, MainFrame, rdrVars
<1> QED BY <1>1, <1>2, <1>3, <1>4, <1>5, <1>7, <1>8, <1>9, SupervisorSteps

\* A stop the supervisor has read stays on its way to the session after every step.
LEMMA StopStep ==
  ASSUME TypeOK, StopInv, [Next]_vars
  PROVE  StopReachesSession'
<1> USE DEF StopReachesSession
<1>1. CASE StartWorker
  BY <1>1 DEF StartWorker, StopInv, rdrVars, mainVars, sesVars
<1>2. CASE ShutdownKill \/ ReaderEof \/ MainExit
  BY <1>2 DEF ShutdownKill, ReaderEof, MainExit, SupDies
<1>3. ASSUME NEW t \in Threads, Emit(t) PROVE StopReachesSession'
  BY <1>3 DEF Emit, StopInv, ReaderAnnounces, Threads, sesVars
<1>4. CASE ReadStart \/ ReadStop
  BY <1>4 DEF ReadStart, ReadStop, mainVars, sesVars
<1>5. CASE ForwardStop
  <2>1. Append(sesIn, Stop) # << >> /\ Append(sesIn, Shutdown) # << >>
    BY AppendProperties, StatusFacts DEF TypeOK, SessionTypes
  <2> QED BY <1>5, <2>1 DEF ForwardStop, mainVars
<1>6. CASE AnnounceStop
  BY <1>6 DEF AnnounceStop, StopInv, mainVars, sesVars
<1>7. CASE \/ MainBoot \/ MainBootFails \/ MainGet \/ MainWait \/ MainCheck \/ MainRefuse
           \/ MainLaunch \/ MainLaunchFails \/ MainSpawnFails \/ MainReaped \/ MainConclude
           \/ MainReap
  BY <1>7, StopKept
     DEF MainBoot, MainBootFails, MainGet, MainWait, MainCheck, MainRefuse, MainLaunch, MainReap,
         MainLaunchFails, MainSpawn, MainSpawnFails, MainReaped, MainConclude, Says, StopInv,
         MainFrame, rdrVars, sesVars
<1>8. CASE MainSpawn
  BY <1>8 DEF MainSpawn, StopInv, ChildRelayed
<1>9. CASE MainRegister
  <2>1. stopAsked /\ SesAlive => sesIn' # << >>
    BY <1>9, AppendProperties DEF MainRegister, TypeOK, SessionTypes, Command
  <2> QED BY <1>9, <2>1 DEF MainRegister, MainFrame, rdrVars
<1>10. CASE MainRelay \/ MainFinally
  <2>1. CASE MainRelay
    BY <1>10, <2>1, StopKept DEF MainRelay, StopInv, MainFrame, rdrVars
  <2>2. CASE MainFinally
    <3>1. child' = child /\ stopAsked' = stopAsked /\ rdr' = rdr
      BY <2>2 DEF MainFinally, MainFrame, rdrVars
    <3>2. child => ~SesAlive' \/ UNCHANGED sesVars
      BY <2>2 DEF MainFinally, SesTerminated, SesDies, TypeOK, SessionTypes
    <3> QED BY <3>1, <3>2 DEF StopInv, sesVars
  <2> QED BY <1>10, <2>1, <2>2
<1>11. CASE SesBoot \/ SesStage \/ SesPreloaded \/ SesMark
  BY <1>11, StopKept
     DEF SesBoot, SesStage, SesPreloaded, SesMark, SesGo, SesFrame, StopInv, TypeOK, SessionTypes,
         supVars, rdrVars, mainVars
<1>12. ASSUME NEW b \in BOOLEAN, SesEnd(b) PROVE StopReachesSession'
  BY <1>12, StopKept
     DEF SesEnd, SesGo, SesFrame, StopInv, TypeOK, SessionTypes, supVars, rdrVars, mainVars
<1>13. CASE SesFail
  BY <1>13, StopKept DEF SesFail, StopInv, TypeOK, SessionTypes, supVars, rdrVars, mainVars
<1>14. CASE SesExit \/ SesCrash \/ SesEof
  BY <1>14 DEF SesExit, SesCrash, SesEof, SesDies, TypeOK, SessionTypes
<1>15. CASE SesRead
  BY <1>15 DEF SesRead
<1>16. CASE UNCHANGED supVars /\ UNCHANGED sesVars
  BY <1>16, StopKept DEF StopInv, supVars, sesVars, rdrVars, mainVars
<1> HIDE DEF StopReachesSession, SesAlive
<1> QED
  BY <1>1, <1>2, <1>3, <1>4, <1>5, <1>6, <1>7, <1>8, <1>9, <1>10, <1>11, <1>12, <1>13, <1>14,
     <1>15, <1>16, SupervisorSteps, SessionSteps

\* A stop the supervisor has read reaches its session, whatever the order in which
\* it was read, the session was spawned and the child was registered.
THEOREM StopIsDelivered == Spec => []StopReachesSession
<1>1. Init => TypeOK /\ StopInv
  BY TypeInit DEF Init, StopInv, ChildRelayed, ReaderAnnounces, StopReachesSession, Threads
<1>2. TypeOK /\ StopInv /\ [Next]_vars => (TypeOK /\ StopInv)'
  BY TypeStep, ChildStep, AnnounceStep, StopStep DEF StopInv
<1>3. StopInv => StopReachesSession
  BY DEF StopInv
<1> QED BY <1>1, <1>2, <1>3, PTL DEF Spec

=============================================================================
