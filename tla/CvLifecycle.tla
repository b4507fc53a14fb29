---------------------------- MODULE CvLifecycle ----------------------------
(***************************************************************************)
(* The life cycle of the computer-vision worker, across its three          *)
(* processes and the pipes between them:                                   *)
(*                                                                         *)
(*   backend     CvManager (backend/cv_manager.py): one status record      *)
(*               under a lock, a protocol reader thread and a monitor      *)
(*               thread.                                                   *)
(*   supervisor  run_supervisor (edge_tracker/cv_worker.py): a command     *)
(*               reader thread and a main thread that share a state, a     *)
(*               queue and two events.  set_state writes the state under   *)
(*               state_lock and emits the status line AFTER releasing it,  *)
(*               so the two threads' lines can leave in either order.      *)
(*   session     run_session (edge_tracker/cv_worker.py): one process per  *)
(*               run, with a command reader thread and the pipeline.       *)
(*                                                                         *)
(* A pipe is a FIFO sequence; a status line is its state and run.          *)
(***************************************************************************)
EXTENDS Naturals, Sequences

CONSTANTS Runs,         \* run identifiers an operator may start
          NoRun,        \* Python's None in a run_id field
          MaxStops,     \* bound: stop commands the manager writes
          MaxFaults     \* bound: failures injected anywhere

ASSUME RunsAssumption == NoRun \notin Runs
ASSUME BoundsAssumption == {MaxStops, MaxFaults} \subseteq Nat

States == {"offline", "loading", "ready", "starting", "running", "stopping", "failed"}
Threads == {"reader", "main"}

Stop == [name |-> "stop", run |-> NoRun]
Shutdown == [name |-> "shutdown", run |-> NoRun]
Idle == [run |-> NoRun, saw |-> "offline"]   \* the main thread's locals when they are dead
Start(r) == [name |-> "start", run |-> r]
Line(s, r) == [state |-> s, run |-> r]

VARIABLES
  status,       \* CvManager._status: state and run_id
  attached,     \* CvManager._process is not None
  closing,      \* CvManager._shutdown_requested, or shutdown found no process
  asked,        \* the runs start_session has written a start for, or tried to
  stops,        \* stop commands written so far
  backendUp,    \* the backend process exists
  faults,       \* failures injected so far
  commands,     \* the supervisor's stdin
  report,       \* the supervisor's stdout
  supUp,        \* the supervisor process exists
  shared,       \* the supervisor's state record
  emitting,     \* per thread, the lines its set_state has yet to write (0 or 1)
  rdr,          \* the command reader thread's position
  main,         \* the main thread's position
  current,      \* main's local variables: the command's run, the state it read
  queue,        \* command_queue
  stopAsked,    \* session_stop_requested
  shutEvent,    \* shutdown_event
  child,        \* child["process"] is not None
  ses,          \* the session process: where it is, and for which run
  sesStop,      \* its stop_event
  sesIn,        \* its stdin
  sesOut        \* its stdout

mgrVars == <<status, attached, closing, asked, stops, backendUp>>
mainVars == <<main, current, child>>
rdrVars == <<rdr, stopAsked, shutEvent>>
supVars == <<supUp, shared, emitting, queue, rdrVars, mainVars>>
sesVars == <<ses, sesStop, sesIn, sesOut>>
vars == <<mgrVars, faults, commands, report, supVars, sesVars>>

\* The session process exists; its pipeline (cameras, GPUs, runtime lock) is in use.
SesActive == ses.at \in {"boot", "loading", "preload", "opening", "running"}
SesAlive == SesActive \/ ses.at = "closing"

\* A status line names a run start_session was called for, or none, and so does
\* everything a line is made from.
Named == asked \cup {NoRun}
Status == [state : States, run : Named]
Command == [name : {"start"}, run : asked] \cup [name : {"stop", "shutdown"}, run : {NoRun}]

ManagerTypes ==
  /\ status \in Status
  /\ attached \in BOOLEAN /\ closing \in BOOLEAN /\ backendUp \in BOOLEAN
  /\ asked \subseteq Runs /\ stops \in 0 .. MaxStops
PipeTypes ==
  /\ commands \in Seq(Command) /\ report \in Seq(Status)
SupervisorTypes ==
  /\ supUp \in BOOLEAN
  /\ shared \in Status
  /\ emitting \in [Threads -> Seq(Status)]
  /\ rdr \in {"read", "forward", "announce", "returned"}
  /\ main \in {"boot", "loop", "wait", "check", "launch", "spawn", "register", "relay",
               "reaped", "conclude", "exit", "gone"}
  /\ current \in [run : Named, saw : States]
  /\ queue \in Seq(Command)
  /\ stopAsked \in BOOLEAN /\ shutEvent \in BOOLEAN /\ child \in BOOLEAN
SessionTypes ==
  /\ ses \in [at : {"none", "boot", "loading", "preload", "opening", "running", "closing", "exited"},
              run : Named, code : {0, 1}, deaf : BOOLEAN]
  /\ sesStop \in BOOLEAN
  /\ sesIn \in Seq(Command) /\ sesOut \in Seq(Status)

TypeOK ==
  /\ ManagerTypes /\ PipeTypes /\ SupervisorTypes /\ SessionTypes
  /\ faults \in 0 .. MaxFaults

Init ==
  /\ status = Line("offline", NoRun)
  /\ attached = FALSE /\ closing = FALSE
  /\ asked = {} /\ stops = 0 /\ backendUp = TRUE /\ faults = 0
  /\ commands = << >> /\ report = << >>
  /\ supUp = FALSE
  /\ shared = Line("offline", NoRun)
  /\ emitting = [t \in Threads |-> << >>]
  /\ rdr = "read" /\ main = "boot"
  /\ current = Idle
  /\ queue = << >>
  /\ stopAsked = FALSE /\ shutEvent = FALSE /\ child = FALSE
  /\ ses = [at |-> "none", run |-> NoRun, code |-> 0, deaf |-> FALSE]
  /\ sesStop = FALSE /\ sesIn = << >> /\ sesOut = << >>

\* A process that ends takes its memory and its unread input with it; what it
\* wrote stays readable in its pipe.
SupDies ==
  /\ supUp' = FALSE
  /\ shared' = Line("offline", NoRun)
  /\ emitting' = [t \in Threads |-> << >>]
  /\ queue' = << >>
  /\ rdr' = "read" /\ stopAsked' = FALSE /\ shutEvent' = FALSE
  /\ main' = "boot" /\ current' = Idle /\ child' = FALSE

SesDies(code) ==
  /\ ses' = [ses EXCEPT !.at = "exited", !.code = code, !.deaf = FALSE]
  /\ sesStop' = FALSE /\ sesIn' = << >>
  /\ UNCHANGED sesOut

SesTerminated(registered) ==
  IF registered /\ SesAlive THEN SesDies(1) ELSE UNCHANGED sesVars

\* What may fail by itself, a spawn, a file, a camera, a model, a process, at most
\* MaxFaults times.
Fault == faults < MaxFaults /\ faults' = faults + 1

-----------------------------------------------------------------------------
(* CvManager: every method holds self._lock, so each is one step.           *)

\* start_worker, as the application's lifespan calls it, once.
StartWorker ==
  /\ backendUp /\ ~attached /\ ~closing
  /\ status.state = "offline"
  /\ status' = [status EXCEPT !.state = "loading"]
  /\ attached' = TRUE /\ supUp' = TRUE
  /\ UNCHANGED <<closing, asked, stops, backendUp, faults, commands, report, shared, emitting,
                 queue, rdrVars, mainVars, sesVars>>

\* The interpreter or the script is missing, or Popen fails.
StartWorkerFails ==
  /\ Fault
  /\ backendUp /\ ~attached /\ ~closing
  /\ status.state = "offline"
  /\ status' = [status EXCEPT !.state = "failed"]
  /\ UNCHANGED <<attached, closing, asked, stops, backendUp, commands, report, supVars, sesVars>>

\* _write_command_locked, and the status the caller sets once it has written.
\* The worker may have exited before the monitor thread notices: poll() then
\* refuses and nothing changes, or the write breaks the pipe and the state fails.
WriteCommand(c, next) ==
  /\ backendUp /\ attached
  /\ IF supUp THEN commands' = Append(commands, c) /\ status' = next
              ELSE UNCHANGED commands /\ status' = [status EXCEPT !.state = "failed"]
  /\ UNCHANGED <<attached, closing, backendUp, faults, report, supVars, sesVars>>

\* Seeded fault: a start is also taken while the last session is still stopping.
StartSessionEarly(r) ==
  /\ status.state \in {"ready", "stopping"}
  /\ r \notin asked /\ asked' = asked \cup {r}
  /\ WriteCommand(Start(r), Line("starting", r))
  /\ UNCHANGED stops

\* start_session: a refusal, and a repeated start of the run already starting
\* or running, change nothing.  The run service never reuses a run identifier.
StartSession(r) ==
  /\ status.state = "ready"
  /\ r \notin asked /\ asked' = asked \cup {r}
  /\ WriteCommand(Start(r), Line("starting", r))
  /\ UNCHANGED stops

\* stop_session: does nothing while ready, offline, failed, loading or stopping.
StopSession ==
  /\ status.state \in {"starting", "running"}
  /\ stops < MaxStops /\ stops' = stops + 1
  /\ WriteCommand(Stop, [status EXCEPT !.state = "stopping"])
  /\ UNCHANGED asked

\* Seeded fault: the lines of a process the manager has let go of still count.
ReadProtocolLate ==
  /\ backendUp /\ report # << >>
  /\ report' = Tail(report)
  /\ status' = Head(report)
  /\ UNCHANGED <<attached, closing, asked, stops, backendUp, faults, commands, supVars, sesVars>>

\* _read_protocol: lines of a process that is no longer the manager's are dropped.
ReadProtocol ==
  /\ backendUp /\ report # << >>
  /\ report' = Tail(report)
  /\ status' = IF attached THEN Head(report) ELSE status
  /\ UNCHANGED <<attached, closing, asked, stops, backendUp, faults, commands, supVars, sesVars>>

\* _monitor_process, once process.wait() has returned.
MonitorProcess ==
  /\ backendUp /\ attached /\ ~supUp
  /\ attached' = FALSE
  /\ status' = [status EXCEPT !.state = IF closing THEN "offline" ELSE "failed"]
  /\ UNCHANGED <<closing, asked, stops, backendUp, faults, commands, report, supVars, sesVars>>

\* shutdown, up to process.wait(timeout=15).
ShutdownBegin ==
  /\ backendUp /\ ~closing
  /\ closing' = TRUE
  /\ commands' = IF attached /\ supUp THEN Append(commands, Shutdown) ELSE commands
  /\ status' = IF attached THEN status ELSE [status EXCEPT !.state = "offline"]
  /\ UNCHANGED <<attached, asked, stops, backendUp, faults, report, supVars, sesVars>>

\* The wait timed out: killpg reaches the supervisor and its session.
ShutdownKill ==
  /\ Fault
  /\ backendUp /\ closing /\ supUp
  /\ SupDies /\ SesTerminated(TRUE)
  /\ UNCHANGED <<mgrVars, commands, report>>

\* shutdown, after the wait.
ShutdownEnd ==
  /\ backendUp /\ closing /\ ~supUp
  /\ attached' = FALSE
  /\ status' = [status EXCEPT !.state = "offline"]
  /\ UNCHANGED <<closing, asked, stops, backendUp, faults, commands, report, supVars, sesVars>>

\* The backend dies without its shutdown handshake; the pipes' ends close.
BackendCrash ==
  /\ Fault
  /\ backendUp /\ backendUp' = FALSE
  /\ status' = Line("offline", NoRun) /\ attached' = FALSE /\ closing' = FALSE
  /\ report' = << >>
  /\ UNCHANGED <<asked, stops, commands, supVars, sesVars>>

-----------------------------------------------------------------------------
(* The supervisor.  A thread with a line to write can only write it.        *)

Free(t) == supUp /\ emitting[t] = << >>

\* set_state: the shared record now, the line in the thread's next step.
SetState(t, l) ==
  /\ shared' = l
  /\ emitting' = [emitting EXCEPT ![t] = <<l>>]

\* emit.  Without a backend the write raises BrokenPipeError: the reader thread
\* dies of it, the main thread leaves its loop for the finally block.
Emit(t) ==
  /\ supUp /\ emitting[t] # << >>
  /\ emitting' = [emitting EXCEPT ![t] = << >>]
  /\ IF backendUp
     THEN report' = report \o emitting[t] /\ UNCHANGED <<rdr, main>>
     ELSE /\ UNCHANGED report
          /\ rdr' = IF t = "reader" THEN "returned" ELSE rdr
          /\ main' = IF t = "main" /\ main # "gone" THEN "exit" ELSE main
  /\ UNCHANGED <<mgrVars, faults, commands, supUp, shared, queue, stopAsked, shutEvent,
                 current, child, sesVars>>

(* read_commands *)

ReadStart ==
  /\ Free("reader") /\ rdr = "read"
  /\ commands # << >> /\ Head(commands).name = "start"
  /\ commands' = Tail(commands)
  /\ stopAsked' = FALSE
  /\ queue' = Append(queue, Head(commands))
  /\ UNCHANGED <<mgrVars, faults, report, supUp, shared, emitting, rdr, shutEvent, mainVars, sesVars>>

ReadStop ==
  /\ Free("reader") /\ rdr = "read"
  /\ commands # << >> /\ Head(commands).name \in {"stop", "shutdown"}
  /\ commands' = Tail(commands)
  /\ stopAsked' = TRUE
  /\ shutEvent' = (shutEvent \/ Head(commands).name = "shutdown")
  /\ rdr' = "forward"
  /\ UNCHANGED <<mgrVars, faults, report, supUp, shared, emitting, queue, mainVars, sesVars>>

\* Under child_lock: _send_command to the registered child, if it still runs.
ForwardStop ==
  /\ Free("reader") /\ rdr = "forward"
  /\ sesIn' = IF child /\ SesAlive
              THEN Append(sesIn, IF shutEvent THEN Shutdown ELSE Stop) ELSE sesIn
  /\ rdr' = "announce"
  /\ UNCHANGED <<mgrVars, faults, commands, report, supUp, shared, emitting, queue, stopAsked,
                 shutEvent, mainVars, ses, sesStop, sesOut>>

\* Seeded fault: the shutdown is not queued, so it wakes nobody.
AnnounceStopUnqueued ==
  /\ Free("reader") /\ rdr = "announce"
  /\ IF shutEvent
     THEN rdr' = "returned" /\ UNCHANGED <<shared, emitting>>
     ELSE rdr' = "read" /\ SetState("reader", Line("stopping", shared.run))
  /\ UNCHANGED <<mgrVars, faults, commands, report, supUp, queue, stopAsked, shutEvent, mainVars,
                 sesVars>>

\* set_state("stopping") for a stop; a shutdown is queued and ends the thread.
AnnounceStop ==
  /\ Free("reader") /\ rdr = "announce"
  /\ IF shutEvent
     THEN rdr' = "returned" /\ queue' = Append(queue, Shutdown) /\ UNCHANGED <<shared, emitting>>
     ELSE rdr' = "read" /\ SetState("reader", Line("stopping", shared.run)) /\ UNCHANGED queue
  /\ UNCHANGED <<mgrVars, faults, commands, report, supUp, stopAsked, shutEvent, mainVars, sesVars>>

\* EOF: the backend is gone and every command it wrote has been read.
ReaderEof ==
  /\ Free("reader") /\ rdr = "read"
  /\ ~backendUp /\ commands = << >>
  /\ SupDies /\ SesTerminated(child)
  /\ UNCHANGED <<mgrVars, faults, commands, report>>

(* run_supervisor's main thread *)

\* What a main-thread step leaves alone unless it says otherwise.
MainFrame == UNCHANGED <<mgrVars, faults, commands, report, supUp, rdrVars>>

\* A main-thread step that goes to position at and sets a state.
Says(at, l) == main' = at /\ SetState("main", l)

MainBoot ==
  /\ Free("main") /\ main = "boot"
  /\ Says("loop", Line("ready", NoRun))
  /\ MainFrame /\ UNCHANGED <<current, child, queue, sesVars>>

\* The session script is missing.
MainBootFails ==
  /\ Fault
  /\ Free("main") /\ main = "boot"
  /\ Says("gone", Line("failed", NoRun))
  /\ UNCHANGED <<mgrVars, commands, report, supUp, rdrVars, current, child, queue, sesVars>>

\* The loop's condition, then command_queue.get(): a shutdown event set in between
\* wakes nobody, the queued shutdown command does.  A start queued before it counts.
MainWait ==
  /\ Free("main") /\ main = "loop"
  /\ main' = IF shutEvent THEN "exit" ELSE "wait"
  /\ MainFrame /\ UNCHANGED <<shared, emitting, queue, current, child, sesVars>>

MainGet ==
  /\ Free("main") /\ main = "wait" /\ queue # << >>
  /\ queue' = Tail(queue)
  /\ IF Head(queue).name = "start"
     THEN main' = "check" /\ current' = [current EXCEPT !.run = Head(queue).run]
     ELSE main' = "exit" /\ UNCHANGED current
  /\ MainFrame /\ UNCHANGED <<shared, emitting, child, sesVars>>

\* current_state, read under state_lock and used after it is released.
MainCheck ==
  /\ Free("main") /\ main = "check"
  /\ current' = [current EXCEPT !.saw = shared.state]
  /\ main' = "launch"
  /\ MainFrame /\ UNCHANGED <<shared, emitting, queue, child, sesVars>>

\* A start stopped before it was launched is answered with ready; any other
\* start in a state that is not ready is refused by repeating that state.
MainRefuse ==
  /\ Free("main") /\ main = "launch" /\ current.saw # "ready"
  /\ Says("loop", Line(IF current.saw = "stopping" /\ stopAsked THEN "ready" ELSE current.saw,
                       shared.run))
  /\ current' = Idle
  /\ MainFrame /\ UNCHANGED <<child, queue, sesVars>>

MainLaunch ==
  /\ Free("main") /\ main = "launch" /\ current.saw = "ready"
  /\ Says("spawn", Line("starting", current.run))
  /\ MainFrame /\ UNCHANGED <<current, child, queue, sesVars>>

\* The debug logs cannot be created: the start fails before it is announced.
MainLaunchFails ==
  /\ Fault
  /\ Free("main") /\ main = "launch" /\ current.saw = "ready"
  /\ Says("loop", Line("failed", shared.run))
  /\ current' = Idle
  /\ UNCHANGED <<mgrVars, commands, report, supUp, rdrVars, child, queue, sesVars>>

MainSpawn ==
  /\ Free("main") /\ main = "spawn"
  /\ main' = "register"
  /\ ses' = [at |-> "boot", run |-> current.run, code |-> 0, deaf |-> FALSE]
  /\ current' = Idle
  /\ MainFrame /\ UNCHANGED <<shared, emitting, child, queue, sesStop, sesIn, sesOut>>

\* Seeded fault: the failed spawn is not reported.
MainSpawnFailsSilently ==
  /\ Fault
  /\ Free("main") /\ main = "spawn"
  /\ main' = "loop" /\ current' = Idle
  /\ UNCHANGED <<mgrVars, commands, report, supUp, shared, emitting, rdrVars, child, queue, sesVars>>

\* Popen fails.
MainSpawnFails ==
  /\ Fault
  /\ Free("main") /\ main = "spawn"
  /\ Says("loop", Line("failed", shared.run))
  /\ current' = Idle
  /\ UNCHANGED <<mgrVars, commands, report, supUp, rdrVars, child, queue, sesVars>>

\* Seeded fault: the stop read before the child existed is forgotten.
MainRegisterLate ==
  /\ Free("main") /\ main = "register"
  /\ main' = "relay"
  /\ child' = TRUE
  /\ MainFrame /\ UNCHANGED <<shared, emitting, queue, current, sesVars>>

\* Under child_lock: a stop read before the child existed is forwarded now.
MainRegister ==
  /\ Free("main") /\ main = "register"
  /\ main' = "relay"
  /\ child' = TRUE
  /\ sesIn' = IF stopAsked /\ SesAlive THEN Append(sesIn, Stop) ELSE sesIn
  /\ MainFrame /\ UNCHANGED <<shared, emitting, queue, current, ses, sesStop, sesOut>>

MainRelay ==
  /\ Free("main") /\ main = "relay" /\ sesOut # << >>
  /\ sesOut' = Tail(sesOut)
  /\ SetState("main", Head(sesOut))
  /\ MainFrame /\ UNCHANGED <<main, current, child, queue, ses, sesStop, sesIn>>

\* Seeded fault: the session's end is not waited for.
MainReapUnwaited ==
  /\ Free("main") /\ main = "relay" /\ sesOut = << >>
  /\ main' = "reaped"
  /\ child' = FALSE
  /\ MainFrame /\ UNCHANGED <<shared, emitting, queue, current, sesVars>>

\* End of the session's output: wait for it and forget it.
MainReap ==
  /\ Free("main") /\ main = "relay" /\ sesOut = << >> /\ ~SesAlive
  /\ main' = "reaped"
  /\ child' = FALSE
  /\ MainFrame /\ UNCHANGED <<shared, emitting, queue, current, sesVars>>

\* completed_state, again read under the lock and used after it.
MainReaped ==
  /\ Free("main") /\ main = "reaped"
  /\ IF shutEvent THEN main' = "exit" /\ UNCHANGED current
     ELSE main' = "conclude" /\ current' = [current EXCEPT !.saw = shared.state]
  /\ MainFrame /\ UNCHANGED <<shared, emitting, queue, child, sesVars>>

MainConclude ==
  /\ Free("main") /\ main = "conclude"
  /\ main' = "loop" /\ current' = Idle
  /\ \/ /\ ses.code # 0 /\ current.saw # "failed"
        /\ SetState("main", Line("failed", shared.run))
     \/ /\ ses.code = 0 /\ current.saw \notin {"ready", "failed"}
        /\ SetState("main", Line("ready", shared.run))
     \/ /\ IF ses.code = 0 THEN current.saw \in {"ready", "failed"} ELSE current.saw = "failed"
        /\ UNCHANGED <<shared, emitting>>
  /\ MainFrame /\ UNCHANGED <<child, queue, sesVars>>

\* The finally block: terminate the child, report offline, and exit.
MainFinally ==
  /\ Free("main") /\ main = "exit"
  /\ Says("gone", Line("offline", shared.run))
  /\ SesTerminated(child)
  /\ MainFrame /\ UNCHANGED <<current, child, queue>>

MainExit ==
  /\ Free("main") /\ main = "gone"
  /\ SupDies
  /\ UNCHANGED <<mgrVars, faults, commands, report, sesVars>>

-----------------------------------------------------------------------------
(* The session process.                                                     *)

SesFrame == UNCHANGED <<mgrVars, faults, commands, report, supVars>>

\* emit in the session; the pipe is read by the supervisor's main thread.
SesEmit(s) == sesOut' = Append(sesOut, Line(s, ses.run))
SesGo(at) == ses' = [ses EXCEPT !.at = at]

\* CvRuntimeLock taken, first status line.
SesBoot ==
  /\ ses.at = "boot" /\ SesGo("loading") /\ SesEmit("loading")
  /\ SesFrame /\ UNCHANGED <<sesStop, sesIn>>

\* preload_models reports its stages until a stop is asked for.
SesStage ==
  /\ ses.at = "loading" /\ SesGo("preload")
  /\ IF sesStop THEN UNCHANGED sesOut ELSE SesEmit("loading")
  /\ SesFrame /\ UNCHANGED <<sesStop, sesIn>>

SesPreloaded ==
  /\ ses.at = "preload"
  /\ IF sesStop THEN SesGo("closing") /\ SesEmit("ready")
                ELSE SesGo("opening") /\ SesEmit("starting")
  /\ SesFrame /\ UNCHANGED <<sesStop, sesIn>>

\* mark_running, the pipeline's started_callback.
SesMark ==
  /\ ses.at = "opening" /\ SesGo("running")
  /\ SesEmit(IF sesStop THEN "stopping" ELSE "running")
  /\ SesFrame /\ UNCHANGED <<sesStop, sesIn>>

\* run_pipeline returns: stop_event, no camera has a frame left, or a window closed.
SesEnd(byStop) ==
  /\ ses.at = "running" /\ byStop = sesStop
  /\ SesGo("closing") /\ SesEmit("ready")
  /\ SesFrame /\ UNCHANGED <<sesStop, sesIn>>

\* An exception, CvRuntimeBusyError among them.
SesFail ==
  /\ Fault
  /\ SesActive
  /\ ses' = [ses EXCEPT !.at = "closing", !.code = 1]
  /\ SesEmit("failed")
  /\ UNCHANGED <<mgrVars, commands, report, supVars, sesStop, sesIn>>

\* models.close() and exit; the process may also die at any point.
SesExit ==
  /\ ses.at = "closing" /\ SesDies(ses.code)
  /\ SesFrame

SesCrash ==
  /\ Fault
  /\ SesAlive /\ SesDies(1)
  /\ UNCHANGED <<mgrVars, commands, report, supVars>>

\* The session's command reader: either command sets stop_event, shutdown ends it.
SesRead ==
  /\ SesAlive /\ ~ses.deaf /\ sesIn # << >>
  /\ sesIn' = Tail(sesIn)
  /\ sesStop' = TRUE
  /\ ses' = [ses EXCEPT !.deaf = (Head(sesIn).name = "shutdown")]
  /\ SesFrame /\ UNCHANGED sesOut

\* Seeded fault: at EOF the reader thread returns and the process stays.
SesEofReturns ==
  /\ SesAlive /\ ~ses.deaf /\ sesIn = << >> /\ ~supUp
  /\ ses' = [ses EXCEPT !.deaf = TRUE]
  /\ SesFrame /\ UNCHANGED <<sesStop, sesIn, sesOut>>

\* EOF on stdin: the supervisor disappeared, os._exit(0).
SesEof ==
  /\ SesAlive /\ ~ses.deaf /\ sesIn = << >> /\ ~supUp
  /\ SesDies(0)
  /\ SesFrame

-----------------------------------------------------------------------------
Manager ==
  \/ StartWorker \/ (\E r \in Runs : StartSession(r)) \/ StopSession
  \/ ReadProtocol \/ MonitorProcess
  \/ ShutdownBegin \/ ShutdownEnd

Reader == Emit("reader") \/ ReadStart \/ ReadStop \/ ForwardStop \/ AnnounceStop \/ ReaderEof

Main ==
  \/ Emit("main") \/ MainBoot \/ MainWait \/ MainGet \/ MainCheck \/ MainRefuse \/ MainLaunch
  \/ MainSpawn \/ MainRegister \/ MainRelay \/ MainReap \/ MainReaped \/ MainConclude
  \/ MainFinally \/ MainExit

Session == SesBoot \/ SesStage \/ SesPreloaded \/ SesMark \/ SesEnd(TRUE) \/ SesExit
SessionReader == SesRead \/ SesEof

\* Whatever may fail by itself: a spawn, a file, a camera, a model, a process.
Fails ==
  \/ StartWorkerFails \/ ShutdownKill \/ BackendCrash
  \/ MainBootFails \/ MainLaunchFails \/ MainSpawnFails
  \/ SesFail \/ SesCrash

Next == Manager \/ Reader \/ Main \/ Session \/ SessionReader \/ SesEnd(FALSE) \/ Fails

Spec == Init /\ [][Next]_vars

\* Every thread that can run eventually does; operators, failures and a
\* pipeline that nobody stops owe nothing.
Fairness ==
  /\ WF_vars(ReadProtocol)
  /\ WF_vars(MonitorProcess)
  /\ WF_vars(Reader)
  /\ WF_vars(Main)
  /\ WF_vars(Session)
  /\ WF_vars(SessionReader)

FairSpec == Spec /\ Fairness

-----------------------------------------------------------------------------
(* Correctness.                                                             *)

\* A stop the supervisor has read reaches the session it was meant for, whether it
\* was read before, while or after the session was spawned and registered.
StopReachesSession ==
  child /\ stopAsked /\ SesAlive => sesStop \/ sesIn # << >> \/ rdr = "forward"

\* Cameras, GPUs and the runtime lock are never handed to two sessions: none is
\* spawned while the last one is alive, however starts, stops and failures fall.
OneSession == [][ses'.at = "boot" /\ ses.at # "boot" => ~SesAlive]_vars

\* Once the manager has let go of a worker process, no line left in its pipe makes
\* it look alive.
DeadWorkerNotReported == ~attached => status.state \in {"offline", "failed"}

\* To the run service the three processes are the status record of CvStatus: a start
\* is accepted only when ready, a stop only when there is something to stop, and
\* no line names a run that was not asked for.
Cv == INSTANCE CvStatus
ImplementsCvStatus == Cv!CvSpec

\* A backend that dies without its handshake leaves no session behind (the comments
\* on EOF in both read_commands).
CrashEndsSession == ~backendUp ~> [](~SesAlive)

\* A session whose stop the manager has accepted and shown stops processing.
StopEndsSession ==
  \A r \in Runs : (status = Line("stopping", r)) ~> ~(SesActive /\ ses.run = r)

\* A start is answered: the manager does not show starting for ever.
StartIsAnswered == status.state = "starting" ~> (status.state # "starting" \/ ~backendUp)

\* shutdown ends the supervisor and its session.
ShutdownCompletes == closing ~> (~supUp /\ ~SesAlive) \/ ~backendUp

\* A stop settles: the session states of README.md lead from stopping to ready.
StoppingSettles == status.state = "stopping" ~> status.state # "stopping"
=============================================================================
