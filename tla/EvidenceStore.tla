--------------------------- MODULE EvidenceStore ---------------------------
(***************************************************************************)
(* The evidence of a run: rows of identities, gallery views and            *)
(* observations in SQLite, and the image files the rows point to           *)
(* (backend/evacuees/, backend/observation_storage.py, and what delete_run *)
(* does with them).  A file and a row cannot be committed together, so     *)
(* every handler writes the file first and removes files last.             *)
(*                                                                         *)
(* Uploads are coroutines that do not yield between saving the file and    *)
(* answering: one at a time is in hand.  The other handlers run in the     *)
(* thread pool beside them.                                                *)
(***************************************************************************)
EXTENDS RunPolicy, Integers

CONSTANTS
  Masters,                        \* master_identity_id, unique within a run
  Views,                          \* VIEW_TYPES
  Pictures, Snapshots,            \* files of the gallery and of the observations, each written once
  NoFile, NoPerson,
  MaxId,                          \* bound: largest row id of an identity
  MaxCrashes                      \* bound: crashes of the backend

Files == Pictures \cup Snapshots
Persons == Runs \X Masters
Ids == 1..MaxId

ASSUME EvidenceAssumption ==
  /\ NoFile \notin Files /\ NoPerson \notin Persons
  /\ Pictures \cap Snapshots = {}
  /\ MaxId \in Nat /\ MaxCrashes \in Nat

VARIABLES
  person,    \* evacuee_identities: whose row has this id
  gallery,   \* evacuee_gallery_views: the image_path of each view of an identity row
  observed,  \* passenger_observations: the run of the row with this image_path
  disk,      \* files in the upload directories
  used,      \* file names ever generated
  pending,   \* pending_file_deletions
  upload,    \* the upload in hand
  clear,     \* DELETE /api/evacuees in progress
  wipe,      \* DELETE /api/observations in progress
  removal,   \* per run, the files delete_run has still to remove and those it could not
  depicts,   \* history: the person a gallery file was uploaded for
  crashes,
  upsets     \* history: "fault" once the disk or the backend has failed, "clear" once the
             \* administrator has used DELETE /api/evacuees or /api/observations

rowVars == <<person, gallery, observed>>
evidenceVars == <<rowVars, disk, used, pending, upload, clear, wipe, removal, depicts, crashes, upsets>>
vars == <<phase, evidenceVars>>

Idle == [at |-> "idle"]
NoRemoval == [left |-> {}, failed |-> {}]

TypeOK ==
  /\ phase \in [Runs -> Phases]
  /\ person \in [Ids -> Persons \cup {NoPerson}]
  /\ gallery \in [Ids -> [Views -> Pictures \cup {NoFile}]]
  /\ observed \in [Snapshots -> Runs \cup {NoRun}]
  /\ disk \subseteq used /\ used \subseteq Files /\ pending \subseteq Files
  /\ upload \in {Idle} \cup [at : {"view"}, of : Persons, view : Views, file : Pictures]
                       \cup [at : {"observation"}, run : Runs, file : Snapshots]
                       \cup [at : {"replaced"}, file : Pictures]
  /\ clear \in {Idle} \cup [at : {"ids", "paths", "unlink"}, ids : SUBSET Ids,
                            paths : SUBSET Pictures]
  /\ wipe \in {Idle} \cup [at : {"list", "unlink"}, files : SUBSET Snapshots]
  /\ removal \in [Runs -> [left : SUBSET Files, failed : SUBSET Files]]
  /\ depicts \in [Pictures -> Persons \cup {NoPerson}]
  /\ crashes \in 0..MaxCrashes
  /\ upsets \subseteq {"fault", "clear"}

Init ==
  /\ RInit
  /\ person = [i \in Ids |-> NoPerson]
  /\ gallery = [i \in Ids |-> [v \in Views |-> NoFile]]
  /\ observed = [f \in Snapshots |-> NoRun]
  /\ disk = {} /\ used = {} /\ pending = {}
  /\ upload = Idle /\ clear = Idle /\ wipe = Idle
  /\ removal = [r \in Runs |-> NoRemoval]
  /\ depicts = [f \in Pictures |-> NoPerson]
  /\ crashes = 0 /\ upsets = {}

-----------------------------------------------------------------------------
(* Rows.                                                                    *)

Fault == upsets' = upsets \cup {"fault"}
Clearing == upsets' = upsets \cup {"clear"}

NoViews == [v \in Views |-> NoFile]
IdsOf(R) == {i \in Ids : person[i] # NoPerson /\ person[i][1] \in R}
PathsOf(ids) == {gallery[i][v] : i \in ids, v \in Views} \ {NoFile}
Referenced == PathsOf(Ids)

\* Seeded fault: the views stay, as they did before foreign keys were enforced.
DropIdentitiesOnly(ids) ==
  /\ person' = [i \in Ids |-> IF i \in ids THEN NoPerson ELSE person[i]]
  /\ UNCHANGED gallery

\* Rows of identities and, with them or by ON DELETE CASCADE, of their views.
DropIdentities(ids) ==
  /\ person' = [i \in Ids |-> IF i \in ids THEN NoPerson ELSE person[i]]
  /\ gallery' = [i \in Ids |-> IF i \in ids THEN NoViews ELSE gallery[i]]

\* The id the row of p has or, new, gets: one more than the largest in the table.
IdFor(i, p) ==
  IF \E j \in Ids : person[j] = p
    THEN person[i] = p
    ELSE /\ \A j \in Ids : person[j] # NoPerson => j < i
         /\ \A k \in Ids : k < i => \E j \in Ids : person[j] # NoPerson /\ j >= k

-----------------------------------------------------------------------------
(* Uploads by the tracker.                                                  *)

\* put_evacuee_identity
PutIdentity(p) ==
  /\ Admits(p[1])
  /\ \E i \in Ids : IdFor(i, p) /\ person' = [person EXCEPT ![i] = p]
  /\ UNCHANGED <<gallery, observed, disk, used, pending, upload, clear, wipe, removal,
                 depicts, crashes, upsets>>

\* save_gallery_image
SavePicture(p, v, f) ==
  /\ upload = Idle /\ f \notin used
  /\ upload' = [at |-> "view", of |-> p, view |-> v, file |-> f]
  /\ disk' = disk \cup {f} /\ used' = used \cup {f}
  /\ depicts' = [depicts EXCEPT ![f] = p]
  /\ UNCHANGED <<phase, rowVars, pending, clear, wipe, removal, crashes, upsets>>

\* What an upload has left to do once its view is committed.
Replaces(previous) == IF previous = NoFile THEN Idle ELSE [at |-> "replaced", file |-> previous]

\* put_evacuee_gallery_view, its transaction: the run is admitted, the identity is
\* found or made, and its view points to the new file.
ViewAccepted ==
  /\ upload.at = "view" /\ Admits(upload.of[1])
  /\ \E i \in Ids :
       /\ IdFor(i, upload.of)
       /\ person' = [person EXCEPT ![i] = upload.of]
       /\ gallery' = [gallery EXCEPT ![i][upload.view] = upload.file]
       /\ upload' = Replaces(gallery[i][upload.view])
  /\ UNCHANGED <<observed, disk, used, pending, clear, wipe, removal, depicts, crashes, upsets>>

\* save_observation_image
SaveSnapshot(r, f) ==
  /\ upload = Idle /\ f \notin used
  /\ upload' = [at |-> "observation", run |-> r, file |-> f]
  /\ disk' = disk \cup {f} /\ used' = used \cup {f}
  /\ UNCHANGED <<phase, rowVars, pending, clear, wipe, removal, depicts, crashes, upsets>>

\* post_observation
ObservationAccepted ==
  /\ upload.at = "observation" /\ Admits(upload.run)
  /\ observed' = [observed EXCEPT ![upload.file] = upload.run]
  /\ upload' = Idle
  /\ UNCHANGED <<person, gallery, disk, used, pending, clear, wipe, removal, depicts, crashes, upsets>>

\* Seeded fault: a rejected upload keeps its file.
UploadRefusedKept ==
  /\ upload.at \in {"view", "observation"} /\ upload' = Idle
  /\ UNCHANGED <<phase, rowVars, disk, used, pending, clear, wipe, removal, depicts, crashes, upsets>>

\* The policy refuses, the database stays locked or the transaction raises: the new
\* file is removed.
UploadRefused ==
  /\ upload.at \in {"view", "observation"} /\ upload' = Idle
  /\ \/ disk' = disk \ {upload.file} /\ UNCHANGED upsets
     \/ Fault /\ UNCHANGED disk
  /\ UNCHANGED <<phase, rowVars, used, pending, clear, wipe, removal, depicts, crashes>>

\* The image that was replaced goes, after the commit.
RemoveReplaced ==
  /\ upload.at = "replaced" /\ upload' = Idle
  /\ \/ disk' = disk \ {upload.file} /\ UNCHANGED upsets
     \/ Fault /\ UNCHANGED disk
  /\ UNCHANGED <<phase, rowVars, used, pending, clear, wipe, removal, depicts, crashes>>

\* write_bytes raises half way, outside every handler's try.
SaveFails(f) ==
  /\ Fault /\ upload = Idle /\ f \notin used
  /\ disk' = disk \cup {f} /\ used' = used \cup {f}
  /\ UNCHANGED <<phase, rowVars, pending, upload, clear, wipe, removal, depicts, crashes>>

-----------------------------------------------------------------------------
(* DELETE /api/evacuees: two reads, then the transaction, then the files.   *)

\* The identities of one run, or of all when no run is given.
ClearSelect(R) ==
  /\ Clearing /\ clear = Idle /\ IdsOf(R) # {}
  /\ clear' = [at |-> "ids", ids |-> IdsOf(R), paths |-> {}]
  /\ UNCHANGED <<phase, rowVars, disk, used, pending, upload, wipe, removal, depicts, crashes>>

ClearPaths ==
  /\ clear.at = "ids"
  /\ clear' = [clear EXCEPT !.at = "paths", !.paths = PathsOf(clear.ids)]
  /\ UNCHANGED <<phase, rowVars, disk, used, pending, upload, wipe, removal, depicts, crashes, upsets>>

\* Seeded fault: the paths are unlinked whether or not the rows could be deleted.
ClearRowsAtBest ==
  /\ clear.at = "paths"
  /\ clear' = [clear EXCEPT !.at = "unlink"]
  /\ DropIdentities(clear.ids) \/ UNCHANGED <<person, gallery>>
  /\ UNCHANGED <<phase, observed, disk, used, pending, upload, wipe, removal, depicts, crashes, upsets>>

ClearRows ==
  /\ clear.at = "paths"
  /\ clear' = [clear EXCEPT !.at = "unlink"]
  /\ DropIdentities(clear.ids)
  /\ UNCHANGED <<phase, observed, disk, used, pending, upload, wipe, removal, depicts, crashes, upsets>>

\* The transaction finds the database locked.
ClearLocked ==
  /\ clear.at = "paths" /\ clear' = Idle
  /\ UNCHANGED <<phase, rowVars, disk, used, pending, upload, wipe, removal, depicts, crashes, upsets>>

ClearUnlink(f) ==
  /\ clear.at = "unlink" /\ f \in clear.paths
  /\ disk' = disk \ {f}
  /\ clear' = [clear EXCEPT !.paths = @ \ {f}]
  /\ UNCHANGED <<phase, rowVars, used, pending, upload, wipe, removal, depicts, crashes, upsets>>

\* Every file is gone, or one could not be removed and the rest are not tried.
ClearEnds ==
  /\ clear.at = "unlink" /\ (IF clear.paths = {} THEN UNCHANGED upsets ELSE Fault)
  /\ clear' = Idle
  /\ UNCHANGED <<phase, rowVars, disk, used, pending, upload, wipe, removal, depicts, crashes>>

-----------------------------------------------------------------------------
(* DELETE /api/observations: every row, then every file in the directory.   *)

WipeRows ==
  /\ Clearing /\ wipe = Idle
  /\ observed' = [f \in Snapshots |-> NoRun]
  /\ wipe' = [at |-> "list", files |-> {}]
  /\ UNCHANGED <<phase, person, gallery, disk, used, pending, upload, clear, removal,
                 depicts, crashes>>

WipeList ==
  /\ wipe.at = "list"
  /\ wipe' = [at |-> "unlink", files |-> disk \cap Snapshots]
  /\ UNCHANGED <<phase, rowVars, disk, used, pending, upload, clear, removal, depicts, crashes, upsets>>

WipeUnlink(f) ==
  /\ wipe.at = "unlink" /\ f \in wipe.files
  /\ disk' = disk \ {f}
  /\ wipe' = [wipe EXCEPT !.files = @ \ {f}]
  /\ UNCHANGED <<phase, rowVars, used, pending, upload, clear, removal, depicts, crashes, upsets>>

WipeEnds ==
  /\ wipe.at = "unlink" /\ (IF wipe.files = {} THEN UNCHANGED upsets ELSE Fault)
  /\ wipe' = Idle
  /\ UNCHANGED <<phase, rowVars, disk, used, pending, upload, clear, removal, depicts, crashes>>

-----------------------------------------------------------------------------
(* delete_run.                                                              *)

\* Seeded fault: the observations are not selected by their run.
FilesOfAnyRun(r) == disk \cap (PathsOf(IdsOf({r})) \cup {f \in Snapshots : observed[f] # NoRun})

\* collect_image_paths, and _resolve_deletable_file on each.
FilesOf(r) == disk \cap (PathsOf(IdsOf({r})) \cup {f \in Snapshots : observed[f] = r})

DeleteCommit(r) ==
  /\ Delete(r)
  /\ removal' = [removal EXCEPT ![r].left = FilesOf(r)]
  /\ DropIdentities(IdsOf({r}))
  /\ observed' = [f \in Snapshots |-> IF observed[f] = r THEN NoRun ELSE observed[f]]
  /\ UNCHANGED <<disk, used, pending, upload, clear, wipe, depicts, crashes, upsets>>

DeleteUnlink(r, f) ==
  /\ f \in removal[r].left
  /\ \/ /\ disk' = disk \ {f}
        /\ removal' = [removal EXCEPT ![r].left = @ \ {f}] /\ UNCHANGED upsets
     \/ /\ Fault /\ UNCHANGED disk
        /\ removal' = [removal EXCEPT ![r] = [left |-> @.left \ {f}, failed |-> @.failed \cup {f}]]
  /\ UNCHANGED <<phase, rowVars, used, pending, upload, clear, wipe, depicts, crashes>>

\* The failures are recorded, or the transaction that records them raises.
DeleteRecord(r) ==
  /\ removal[r].left = {} /\ removal[r].failed # {}
  /\ removal' = [removal EXCEPT ![r] = NoRemoval]
  /\ pending' = pending \cup removal[r].failed \/ UNCHANGED pending
  /\ UNCHANGED <<phase, rowVars, disk, used, upload, clear, wipe, depicts, crashes, upsets>>

-----------------------------------------------------------------------------
\* What is neither in the database nor on disk is lost.
Crash ==
  /\ crashes < MaxCrashes /\ crashes' = crashes + 1 /\ Fault
  /\ upload' = Idle /\ clear' = Idle /\ wipe' = Idle
  /\ removal' = [r \in Runs |-> NoRemoval]
  /\ UNCHANGED <<phase, rowVars, disk, used, pending, depicts>>

RunsElsewhere == RunsMove /\ UNCHANGED evidenceVars

Next ==
  \/ \E p \in Persons : PutIdentity(p)
  \/ \E p \in Persons, v \in Views, f \in Pictures : SavePicture(p, v, f)
  \/ \E r \in Runs, f \in Snapshots : SaveSnapshot(r, f)
  \/ \E f \in Files : SaveFails(f)
  \/ ViewAccepted \/ ObservationAccepted \/ UploadRefused \/ RemoveReplaced
  \/ \E R \in {{r} : r \in Runs} \cup {Runs} : ClearSelect(R)
  \/ ClearPaths \/ ClearRows \/ ClearLocked \/ ClearEnds
  \/ WipeRows \/ WipeList \/ WipeEnds
  \/ \E f \in Files : ClearUnlink(f) \/ WipeUnlink(f)
  \/ \E r \in Runs : DeleteCommit(r) \/ DeleteRecord(r)
  \/ \E r \in Runs, f \in Files : DeleteUnlink(r, f)
  \/ Crash \/ RunsElsewhere

Spec == Init /\ [][Next]_vars

-----------------------------------------------------------------------------
(* Correctness.                                                             *)

\* A view the dashboard or the tracker can ask for has its image, whatever is replaced,
\* cleared, refused, deleted or interrupted beside it.
RowHasFile == Referenced \subseteq disk

\* The image of a view is one of the person whose row it hangs on, although SQLite hands
\* out the ids of deleted identities again and files are removed after the rows.
PictureOfItsPerson ==
  \A i \in Ids, v \in Views : gallery[i][v] # NoFile => depicts[gallery[i][v]] = person[i]

\* A deleted run has no evidence rows, whatever was being uploaded when it was deleted.
NoEvidenceOfDeleted ==
  \A r \in Runs : phase[r] = "deleted" =>
    /\ \A i \in Ids : person[i] # NoPerson => person[i][1] # r
    /\ \A f \in Snapshots : observed[f] # r

\* An observation has its image; only the administrator's wipe, which is not restricted
\* to a run, may take it away.
ObservationHasFile == "clear" \notin upsets => \A f \in Snapshots : observed[f] # NoRun => f \in disk

InHand ==
  (IF upload.at = "idle" THEN {} ELSE {upload.file})
    \cup (IF clear.at = "idle" THEN {} ELSE clear.paths)
    \cup (IF wipe.at = "idle" THEN {} ELSE wipe.files)
    \cup UNION {removal[r].left \cup removal[r].failed : r \in Runs}

Accounted ==
  disk \subseteq Referenced \cup {f \in Snapshots : observed[f] # NoRun} \cup InHand \cup pending

\* Until something fails or the administrator clears, every image has a row, or a handler
\* that will remove it or give it one: uploads, replacements, refusals and deletions leave
\* nothing behind, in whatever order they come.
FilesAccounted == upsets = {} => Accounted
=============================================================================
