-------------------------- MODULE ReidPersistence --------------------------
(***************************************************************************)
(* How the masters of a session reach the backend and come back            *)
(* (edge_tracker/reid_memory.py: load_database, save_database, the         *)
(* persistence and the evidence threads, close; reid_backend_store.py;     *)
(* reid_evidence_writer.py).                                               *)
(*                                                                         *)
(* A view counts once the helper process has written its crop: the digest  *)
(* of the written crop is put beside the feature, and the record is queued *)
(* for the backend again.  The intake thread and the evidence thread queue *)
(* copies of a record, the copy under one lock and the queueing under      *)
(* another; one thread sends them, a request for the master and one for    *)
(* each view the backend does not hold.  What the demographics add to a    *)
(* record is left out: a record is its gallery.                            *)
(***************************************************************************)
EXTENDS Integers, FiniteSets, FiniteSetsExt, Sequences

CONSTANTS
  Slots,      \* REID_GALLERY_SLOTS, "baseline" among them
  MaxId,      \* bound: master numbers
  Budgets     \* bound: what a behaviour may hold, in several mixes

Base == "baseline"
Ids == 1 .. MaxId
Events == {"sessions", "crops", "withdrawals", "requestFaults", "evidenceFaults", "timeouts", "clears", "crashes"}

ASSUME PersistenceAssumption ==
  Base \in Slots /\ MaxId \in Nat /\ Budgets \subseteq [Events -> Nat]

VARIABLES
  stage,     \* of the memory: no session, running, or how far close() has come
  session,   \* history: sessions begun so far
  memory,    \* identities: the gallery, and the session that numbered the master (history)
  next,      \* next_identity_id
  crops,     \* crops taken so far; a crop is named by its number
  files,     \* crops the helper has written
  tasks,     \* _evidence_queue
  writer,    \* the evidence thread's task in hand
  saving,    \* the threads inside save_database
  pending,   \* _pending_persistence, in the order of its keys
  sender,    \* the persistence thread's snapshot in hand
  uploaded,  \* _uploaded_slot_digests
  backend,   \* the evacuee rows of the run and their views
  left,      \* the masters close() has still to save
  budget,    \* what may still happen
  blind,     \* history: a session could not load what the backend holds
  withdrawn, \* history: crops an audit has taken back
  cut        \* history, of the session: a wait of close() timed out, a request of its last
             \* save was lost or the answer for a view that replaced another, or the
             \* administrator removed the rows

memoryVars == <<stage, session, memory, next, crops, files, blind, withdrawn, cut>>
threadVars == <<tasks, writer, saving, pending, sender, left>>
vars == <<memoryVars, threadVars, uploaded, backend, budget>>

Threads == {"intake", "evidence", "close"}
NoCrop == 0
NoView == [crop |-> NoCrop, digest |-> FALSE, path |-> FALSE]
NoMaster == [born |-> 0]
Free == [at |-> "free"]
Stop == [id |-> 0, crop |-> NoCrop]        \* the stop token of the evidence queue
Stages == {"off", "running", "drain", "evidence", "save", "flush", "stopping", "closed"}

View == [crop : Nat, digest : BOOLEAN, path : BOOLEAN]   \* path: image_path is set
Master == [born : Nat, gallery : [Slots -> View]]
Task == [id : Ids, crop : Nat \ {0}]
Snapshot == [id : Ids, copy : Master]
Save == [at : {"copy"}, id : Ids] \cup [at : {"queue"}, id : Ids, copy : Master]
Send == [at : {"master"}, id : Ids, copy : Master]
          \cup [at : {"views"}, id : Ids, copy : Master, todo : SUBSET Slots]

TypeOK ==
  /\ stage \in Stages /\ session \in Nat /\ crops \in Nat /\ next \in Nat \ {0}
  /\ memory \in [Ids -> Master \cup {NoMaster}] /\ backend \in [Ids -> Master \cup {NoMaster}]
  /\ uploaded \in [Ids -> [Slots -> Nat]]
  /\ files \subseteq Nat /\ withdrawn \subseteq Nat /\ left \subseteq Ids
  /\ tasks \in Seq(Task \cup {Stop}) /\ pending \in Seq(Snapshot)
  /\ writer \in {Free, [at |-> "ended"]} \cup [at : {"written"}, task : Task]
  /\ saving \in [Threads -> Save \cup {Free}]
  /\ sender \in Send \cup {Free}
  /\ blind \in BOOLEAN

Init ==
  /\ stage = "off" /\ session = 0 /\ crops = 0 /\ next = 1
  /\ memory = [i \in Ids |-> NoMaster] /\ backend = memory
  /\ uploaded = [i \in Ids |-> [s \in Slots |-> NoCrop]]
  /\ files = {} /\ left = {} /\ tasks = <<>> /\ pending = <<>>
  /\ writer = Free /\ sender = Free /\ saving = [t \in Threads |-> Free]
  /\ budget \in Budgets
  /\ blind = FALSE /\ cut = FALSE /\ withdrawn = {}

Spend(event) == budget[event] > 0 /\ budget' = [budget EXCEPT ![event] = @ - 1]

-----------------------------------------------------------------------------
(* A session begins: load_database.                                         *)

Holds(master, s) == master # NoMaster /\ master.gallery[s] # NoView
Known == {i \in Ids : backend[i] # NoMaster}
Complete == {i \in Known : Holds(backend[i], Base)}

\* Seeded fault: masters that are skipped do not count.
FirstFreeOfLoaded == Max(Complete \cup {0}) + 1

\* Masters without a baseline are skipped, their numbers are not.
FirstFree == Max(Known \cup {0}) + 1

Begins ==
  /\ stage \in {"off", "closed"} /\ stage' = "running" /\ session' = session + 1
  /\ cut' = FALSE
  /\ tasks' = <<>> /\ pending' = <<>> /\ left' = {}
  /\ writer' = Free /\ sender' = Free /\ saving' = [t \in Threads |-> Free]

Loads ==
  /\ Spend("sessions") /\ Begins
  /\ memory' = [i \in Ids |-> IF i \in Complete THEN backend[i] ELSE NoMaster]
  /\ next' = FirstFree
  /\ uploaded' = [i \in Ids |-> [s \in Slots |->
       IF i \in Known /\ backend[i].gallery[s].digest THEN backend[i].gallery[s].crop ELSE NoCrop]]
  /\ UNCHANGED <<crops, files, backend, blind, withdrawn>>

\* The request fails: an empty gallery, and numbers from 1.
LoadFails ==
  /\ budget.requestFaults > 0 /\ budget.sessions > 0
  /\ budget' = [budget EXCEPT !.requestFaults = @ - 1, !.sessions = @ - 1]
  /\ Begins
  /\ memory' = [i \in Ids |-> NoMaster] /\ next' = 1
  /\ uploaded' = [i \in Ids |-> [s \in Slots |-> NoCrop]]
  /\ blind' = (blind \/ Known # {})
  /\ UNCHANGED <<crops, files, backend, withdrawn>>

-----------------------------------------------------------------------------
(* The intake thread, as far as galleries go.                               *)

\* It goes on until its queue is empty; past the first wait of close() only if
\* that wait, or the join of the thread, has timed out.
Intakes == stage \in {"running", "drain"} \/ (cut /\ stage \notin {"off", "closed"})
IntakeFree == Intakes /\ saving["intake"] = Free

Refilled(master, gallery) == [born |-> master.born, gallery |-> gallery]
Taken == [crop |-> crops + 1, digest |-> FALSE, path |-> TRUE]
Saves(t, i) == saving' = [saving EXCEPT ![t] = [at |-> "copy", id |-> i]]

\* Takes a crop for a slot: _make_slot, _queue_evidence_save, save_database.
Takes(i, master) ==
  /\ IntakeFree /\ Spend("crops")
  /\ crops' = crops + 1
  /\ memory' = [memory EXCEPT ![i] = master]
  /\ tasks' = Append(tasks, [id |-> i, crop |-> crops'])
  /\ Saves("intake", i)
  /\ UNCHANGED <<stage, session, files, writer, pending, sender, left, uploaded, backend, blind, withdrawn, cut>>

Creates ==
  /\ next \in Ids /\ next' = next + 1
  /\ Takes(next, [born |-> session, gallery |-> [s \in Slots |-> IF s = Base THEN Taken ELSE NoView]])

Fills(i, s) ==
  /\ s # Base /\ Holds(memory[i], Base) /\ ~ Holds(memory[i], s)
  /\ Takes(i, Refilled(memory[i], [memory[i].gallery EXCEPT ![s] = Taken]))
  /\ UNCHANGED next

\* _withdraw_track_contributions_locked: views of one track are taken back, the
\* baseline is replaced by another view; nothing is saved.
Withdraws(i, views, best) ==
  /\ IntakeFree /\ Spend("withdrawals")
  /\ views # {} /\ \A s \in views : Holds(memory[i], s) /\ memory[i].gallery[s].path
  /\ LET kept == [s \in Slots |-> IF s \in views THEN NoView ELSE memory[i].gallery[s]]
     IN /\ \/ kept[best] # NoView
           \/ best = Base /\ \A s \in Slots : kept[s] = NoView
        /\ kept[Base] # NoView => best = Base
        /\ memory' = [memory EXCEPT ![i] = Refilled(@, [kept EXCEPT ![Base] = kept[best]])]
  /\ withdrawn' = withdrawn \cup {memory[i].gallery[s].crop : s \in views}
  /\ UNCHANGED <<stage, session, next, crops, files, threadVars, uploaded, backend, blind, cut>>

-----------------------------------------------------------------------------
(* save_database, from any thread.                                          *)

\* Under the lock of the memory.
Copies(t) ==
  /\ saving[t] # Free /\ saving[t].at = "copy"
  /\ LET i == saving[t].id
     IN saving' = [saving EXCEPT ![t] =
          IF Holds(memory[i], Base) THEN [at |-> "queue", id |-> i, copy |-> memory[i]] ELSE Free]
  /\ UNCHANGED <<stage, session, memory, next, crops, files, tasks, writer, pending, sender, left,
                 uploaded, backend, budget, blind, withdrawn, cut>>

Stopping == stage \in {"stopping", "closed"}

\* One copy for each master, in its old place.
Put(i, copy) ==
  IF \E k \in DOMAIN pending : pending[k].id = i
  THEN [k \in DOMAIN pending |-> IF pending[k].id = i THEN [id |-> i, copy |-> copy] ELSE pending[k]]
  ELSE Append(pending, [id |-> i, copy |-> copy])

\* Under the condition of the queue.
Queues(t) ==
  /\ saving[t] # Free /\ saving[t].at = "queue"
  /\ pending' = IF Stopping THEN pending ELSE Put(saving[t].id, saving[t].copy)
  /\ saving' = [saving EXCEPT ![t] = Free]
  /\ UNCHANGED <<stage, session, memory, next, crops, files, tasks, writer, sender, left,
                 uploaded, backend, budget, blind, withdrawn, cut>>

-----------------------------------------------------------------------------
(* The evidence thread and its helper process.                              *)

HelperRuns == stage \in {"running", "drain", "evidence"}
WriterFree == stage # "off" /\ writer = Free /\ saving["evidence"] = Free /\ tasks # <<>>
Unheld(i, crop) == [s \in Slots |-> IF memory[i].gallery[s].crop = crop THEN NoView ELSE memory[i].gallery[s]]

\* The helper replaces the file in one step and answers with the digest.
Writes ==
  /\ WriterFree /\ Head(tasks) # Stop /\ HelperRuns
  /\ files' = files \cup {Head(tasks).crop}
  /\ writer' = [at |-> "written", task |-> Head(tasks)]
  /\ tasks' = Tail(tasks)
  /\ UNCHANGED <<stage, session, memory, next, crops, saving, pending, sender, left,
                 uploaded, backend, budget, blind, withdrawn, cut>>

Answered(view) == [view EXCEPT !.digest = TRUE]

\* _complete_evidence_save_locked, then save_database.
Completes ==
  /\ writer # Free /\ writer.at = "written" /\ writer' = Free
  /\ LET i == writer.task.id
         crop == writer.task.crop
     IN /\ memory' = IF memory[i] = NoMaster THEN memory
                     ELSE [memory EXCEPT ![i] = Refilled(@, [s \in Slots |->
                            IF @.gallery[s].crop = crop THEN Answered(@.gallery[s]) ELSE @.gallery[s]])]
        /\ Saves("evidence", i)
  /\ UNCHANGED <<stage, session, next, crops, files, tasks, pending, sender, left,
                 uploaded, backend, budget, blind, withdrawn, cut>>

\* _rollback_failed_evidence_locked: without its baseline the master is forgotten.
RolledBack(i, crop) ==
  IF memory[i] = NoMaster \/ memory[i].gallery[Base].crop = crop THEN NoMaster
  ELSE Refilled(memory[i], Unheld(i, crop))

EvidenceFails ==
  /\ WriterFree /\ Head(tasks) # Stop
  /\ IF HelperRuns THEN Spend("evidenceFaults") ELSE UNCHANGED budget
  /\ LET i == Head(tasks).id
     IN memory' = [memory EXCEPT ![i] = RolledBack(i, Head(tasks).crop)]
  /\ tasks' = Tail(tasks)
  /\ UNCHANGED <<stage, session, next, crops, files, writer, saving, pending, sender, left,
                 uploaded, backend, blind, withdrawn, cut>>

\* What is queued behind the stop token is not written any more.
WriterEnds ==
  /\ WriterFree /\ Head(tasks) = Stop
  /\ writer' = [at |-> "ended"] /\ tasks' = Tail(tasks)
  /\ UNCHANGED <<stage, session, memory, next, crops, files, saving, pending, sender, left,
                 uploaded, backend, budget, blind, withdrawn, cut>>

-----------------------------------------------------------------------------
(* The persistence thread: ReidBackendStore.save_identity.                  *)

SendsNext ==
  /\ sender = Free /\ stage \notin {"off", "closed"} /\ pending # <<>>
  /\ sender' = [at |-> "master", id |-> Head(pending).id, copy |-> Head(pending).copy]
  /\ pending' = Tail(pending)
  /\ UNCHANGED <<stage, session, memory, next, crops, files, tasks, writer, saving, left,
                 uploaded, backend, budget, blind, withdrawn, cut>>

Row(i, copy) == IF backend[i] = NoMaster THEN [born |-> copy.born, gallery |-> [s \in Slots |-> NoView]]
                ELSE backend[i]

SendsMaster ==
  /\ sender # Free /\ sender.at = "master"
  /\ backend' = [backend EXCEPT ![sender.id] = Row(sender.id, sender.copy)]
  /\ sender' = [at |-> "views", id |-> sender.id, copy |-> sender.copy, todo |-> Slots]
  /\ UNCHANGED <<stage, session, memory, next, crops, files, tasks, writer, saving, pending, left,
                 uploaded, budget, blind, withdrawn, cut>>

Stored(view) == [view EXCEPT !.path = FALSE]
Digest(view) == IF view.digest THEN view.crop ELSE NoCrop

\* A view is sent when its digest is another than the uploaded one and its file
\* is there; a view that came from the backend has no path.
Due(i, s, view) ==
  /\ view # NoView /\ uploaded[i][s] # Digest(view)
  /\ view.path /\ view.crop \in files

Arrived(i, s, copy) ==
  LET row == Row(i, copy)
  IN [backend EXCEPT ![i] = Refilled(row, [row.gallery EXCEPT ![s] = Stored(copy.gallery[s])])]

SendsView(s) ==
  /\ sender # Free /\ sender.at = "views" /\ s \in sender.todo
  /\ LET i == sender.id
         view == sender.copy.gallery[s]
     IN IF Due(i, s, view)
        THEN /\ backend' = Arrived(i, s, sender.copy)
             /\ uploaded' = [uploaded EXCEPT ![i][s] = Digest(view)]
        ELSE UNCHANGED <<backend, uploaded>>
  /\ sender' = [sender EXCEPT !.todo = @ \ {s}]
  /\ UNCHANGED <<stage, session, memory, next, crops, files, tasks, writer, saving, pending, left,
                 budget, blind, withdrawn, cut>>

SendsDone ==
  /\ sender # Free /\ sender.at = "views" /\ sender.todo = {} /\ sender' = Free
  /\ UNCHANGED <<stage, session, memory, next, crops, files, tasks, writer, saving, pending, left,
                 uploaded, backend, budget, blind, withdrawn, cut>>

LastSave == stage \in {"save", "flush", "stopping"}

\* Seeded fault: the digest is noted before the request.
LostNoted(s) == [uploaded EXCEPT ![sender.id][s] = Digest(sender.copy.gallery[s])]

LostUploads(s) == uploaded

\* Seeded fault: an error ends the thread in the middle of a save.
AfterLossActive == [at |-> "ended"]

AfterLoss == Free

\* A request fails before or after the backend has done it: the rest of the copy
\* is dropped and not tried again.  When the answer is lost for a view that had
\* been uploaded before, what the tracker believes is uploaded is wrong for good.
RequestFails ==
  /\ sender # Free /\ Spend("requestFaults") /\ sender' = AfterLoss
  /\ LET i == sender.id
         row == Row(i, sender.copy)
     IN \/ /\ sender.at = "master"
           /\ backend' \in {backend, [backend EXCEPT ![i] = row]}
           /\ cut' = (cut \/ LastSave) /\ UNCHANGED uploaded
        \/ /\ sender.at = "views"
           /\ \E s \in sender.todo, done \in BOOLEAN :
                /\ Due(i, s, sender.copy.gallery[s])
                /\ backend' = IF done THEN Arrived(i, s, sender.copy) ELSE backend
                /\ uploaded' = LostUploads(s)
                /\ cut' = (cut \/ LastSave \/ (done /\ uploaded[i][s] # NoCrop))
  /\ UNCHANGED <<stage, session, memory, next, crops, files, tasks, writer, saving, pending, left, blind, withdrawn>>

\* DELETE /api/evacuees (external to the tracker).
Cleared ==
  /\ stage # "off" /\ Spend("clears")
  /\ backend' = [i \in Ids |-> NoMaster] /\ cut' = TRUE
  /\ UNCHANGED <<stage, session, memory, next, crops, files, threadVars, uploaded, blind, withdrawn>>

-----------------------------------------------------------------------------
(* close(drain=True), and what becomes of a process that dies.              *)

IntakeIdle == saving["intake"] = Free
EvidenceIdle == tasks = <<>> /\ writer = Free /\ saving["evidence"] = Free
PersistenceIdle == pending = <<>> /\ sender = Free

\* A wait of close() ends when what it waits for has come, or when its time is up.
Waits(for) ==
  \/ for /\ UNCHANGED <<cut, budget>>
  \/ ~ for /\ Spend("timeouts") /\ cut' = TRUE

Closes == /\ stage = "running" /\ stage' = "drain"
          /\ UNCHANGED <<tasks, left, cut, budget>>

Drained == /\ stage = "drain" /\ stage' = "evidence"
           /\ Waits(IntakeIdle /\ EvidenceIdle /\ PersistenceIdle)
           /\ tasks' = Append(tasks, Stop) /\ UNCHANGED left

EvidenceJoined == /\ stage = "evidence" /\ stage' = "save"
                  /\ Waits(writer # Free /\ writer.at = "ended")
                  /\ left' = {i \in Ids : memory[i] # NoMaster} /\ UNCHANGED tasks

AllSaved == stage = "save" /\ left = {} /\ saving["close"] = Free

SavedAll == /\ AllSaved /\ stage' = "flush" /\ UNCHANGED <<tasks, left, cut, budget>>

Flushed == /\ stage = "flush" /\ stage' = "stopping"
           /\ Waits(PersistenceIdle) /\ UNCHANGED <<tasks, left>>

\* The persistence thread ends once nothing is pending.
Joined == /\ stage = "stopping" /\ stage' = "closed"
          /\ Waits(PersistenceIdle) /\ UNCHANGED <<tasks, left>>

CloseSteps ==
  /\ Closes \/ Drained \/ EvidenceJoined \/ SavedAll \/ Flushed \/ Joined
  /\ UNCHANGED <<session, memory, next, crops, files, writer, saving, pending, sender,
                 uploaded, backend, blind, withdrawn>>

SavesAgain(i) ==
  /\ stage = "save" /\ i \in left /\ saving["close"] = Free
  /\ left' = left \ {i} /\ Saves("close", i)
  /\ UNCHANGED <<stage, session, memory, next, crops, files, tasks, writer, pending, sender,
                 uploaded, backend, budget, blind, withdrawn, cut>>

Crash == /\ stage \notin {"off", "closed"} /\ Spend("crashes") /\ stage' = "off"
         /\ UNCHANGED <<session, memory, next, crops, files, threadVars, uploaded, backend, blind, withdrawn, cut>>

-----------------------------------------------------------------------------
Intake == Creates \/ \E i \in Ids, s \in Slots : Fills(i, s)
Repairs == \E i \in Ids, views \in SUBSET Slots, best \in Slots : Withdraws(i, views, best)
Saving == stage \notin {"off", "closed"} /\ \E t \in Threads : Copies(t) \/ Queues(t)
Evidence == stage \notin {"off", "closed"} /\ (Writes \/ Completes \/ EvidenceFails \/ WriterEnds)
Sending == /\ stage \notin {"off", "closed"}
           /\ SendsNext \/ SendsMaster \/ (\E s \in Slots : SendsView(s)) \/ SendsDone
Closing == CloseSteps \/ \E i \in Ids : SavesAgain(i)

Next ==
  \/ Loads \/ LoadFails
  \/ Intake \/ Repairs \/ Saving \/ Evidence \/ Sending
  \/ (stage \notin {"off", "closed"} /\ RequestFails) \/ Cleared
  \/ Closing \/ Crash

Spec == Init /\ [][Next]_vars

\* The threads of the memory run; a loss or a crash is never owed.  A wait of close()
\* has to time out only where the budget holds a timeout.
FairSpec ==
  /\ Spec
  /\ WF_vars(Saving) /\ WF_vars(Sending) /\ WF_vars(Evidence) /\ WF_vars(Closing)

-----------------------------------------------------------------------------
(* Properties.                                                              *)

\* A session that was closed in its time has left its galleries behind: every view
\* in memory is the backend's, whatever was lost, failed or overtaken before the
\* last save; and of what is not in memory the backend holds no view, but those an
\* audit has taken back and, after a load that failed, those of the masters whose
\* numbers were given again (load_database, save_database, save_identity, close).
ClosedIsComplete ==
  stage = "closed" /\ ~ cut =>
    \A i \in Ids, s \in Slots :
      IF Holds(memory[i], s)
      THEN Holds(backend[i], s) /\ backend[i].gallery[s] = Stored(memory[i].gallery[s])
      ELSE memory[i] # NoMaster /\ Holds(backend[i], s) => blind \/ backend[i].gallery[s].crop \in withdrawn

\* A number means one master for ever: a session that has loaded the run never
\* gives a new master the number of a row, not even of one it could not use
\* (load_database, known_identity_ids).
RowOfOneMaster ==
  blind \/ \A i \in Ids : memory[i] # NoMaster /\ backend[i] # NoMaster => memory[i].born = backend[i].born

\* close() never needs its timeouts to come to an end: each of its waits is for
\* threads that are not waiting for it.
CloseEnds == stage = "drain" ~> stage \in {"closed", "off"}
=============================================================================
