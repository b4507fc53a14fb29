----------------------- MODULE EvidenceStore_proofs -----------------------
(***************************************************************************)
(* Rows and files of the evidence, for any number of runs, identities,     *)
(* views, files and crashes.                                               *)
(***************************************************************************)
EXTENDS EvidenceStore, TLAPS

-----------------------------------------------------------------------------
(* The registry, the policy and the row operators.                          *)

\* The runs of the other handlers keep their phases' type and stay deleted.
LEMMA RunsMoveFacts ==
  ASSUME phase \in [Runs -> Phases], RunsMove
  PROVE  /\ phase' \in [Runs -> Phases]
         /\ \A r \in Runs : phase'[r] = "deleted" <=> phase[r] = "deleted"
BY DEF RunsMove, Open, Close, Reopen, Observe, Import, Phases

\* Admitted data belongs to a run that is not deleted, and deletes none.
LEMMA AdmitsFacts ==
  ASSUME phase \in [Runs -> Phases], NEW r \in Runs, Admits(r)
  PROVE  /\ phase' \in [Runs -> Phases]
         /\ phase[r] # "deleted"
         /\ \A q \in Runs : phase'[q] = "deleted" <=> phase[q] = "deleted"
BY DEF Admits, Observe, Phases

\* The paths of a set of rows are pictures.
LEMMA PathsFacts ==
  ASSUME TypeOK, NEW ids \in SUBSET Ids
  PROVE  /\ PathsOf(ids) \in SUBSET Pictures
         /\ PathsOf(ids) \subseteq Referenced
         /\ \A f \in Pictures : f \in PathsOf(ids) <=> \E i \in ids, v \in Views : gallery[i][v] = f
BY EvidenceAssumption DEF TypeOK, PathsOf, Referenced, Files

\* An identity keeps its row or gets one that nobody has.
LEMMA IdForFacts ==
  ASSUME TypeOK, NEW i \in Ids, NEW p \in Persons, IdFor(i, p)
  PROVE  person[i] \in {p, NoPerson}
<1>1. CASE \E j \in Ids : person[j] = p
  BY <1>1 DEF IdFor
<1>2. CASE ~ \E j \in Ids : person[j] = p
  <2>1. \A j \in Ids : person[j] # NoPerson => j < i
    BY <1>2 DEF IdFor
  <2>2. ~ (i < i)
    BY DEF Ids
  <2> QED BY <2>1, <2>2
<1> QED BY <1>1, <1>2

-----------------------------------------------------------------------------
(* Types.                                                                   *)

\* The initial values have their types.
LEMMA TypeInit == Init => TypeOK
BY EvidenceAssumption DEF Init, RInit, TypeOK, Phases, NoRemoval

\* One step keeps every type.
LEMMA TypeStep ==
  ASSUME TypeOK, [Next]_vars
  PROVE  TypeOK'
<1> USE DEF TypeOK, rowVars
<1>1. ASSUME NEW p \in Persons, PutIdentity(p) PROVE TypeOK'
  <2>1. p[1] \in Runs
    BY DEF Persons
  <2> QED BY <1>1, <2>1, AdmitsFacts DEF PutIdentity
<1>2. ASSUME NEW p \in Persons, NEW v \in Views, NEW f \in Pictures, SavePicture(p, v, f)
      PROVE  TypeOK'
  BY <1>2 DEF SavePicture, Files
<1>3. ASSUME NEW r \in Runs, NEW f \in Snapshots, SaveSnapshot(r, f) PROVE TypeOK'
  BY <1>3 DEF SaveSnapshot, Files
<1>4. ASSUME NEW f \in Files, SaveFails(f) PROVE TypeOK'
  BY <1>4 DEF SaveFails, Fault
<1>5. CASE ViewAccepted
  <2>1. /\ upload.of \in Persons /\ upload.view \in Views /\ upload.file \in Pictures
        /\ upload.of[1] \in Runs
    BY <1>5 DEF ViewAccepted, Idle, Persons
  <2>2. phase' \in [Runs -> Phases]
    BY <1>5, <2>1, AdmitsFacts DEF ViewAccepted
  <2>3. PICK i \in Ids :
          /\ person' = [person EXCEPT ![i] = upload.of]
          /\ gallery' = [gallery EXCEPT ![i][upload.view] = upload.file]
          /\ upload' = Replaces(gallery[i][upload.view])
    BY <1>5 DEF ViewAccepted
  <2>4. gallery' \in [Ids -> [Views -> Pictures \cup {NoFile}]]
    BY <2>1, <2>3
  <2>5. upload' \in {Idle} \cup [at : {"replaced"}, file : Pictures]
    BY <2>1, <2>3 DEF Replaces
  <2> QED BY <1>5, <2>1, <2>2, <2>3, <2>4, <2>5 DEF ViewAccepted
<1>6. CASE ObservationAccepted
  <2>1. upload.run \in Runs /\ upload.file \in Snapshots
    BY <1>6 DEF ObservationAccepted, Idle
  <2> QED BY <1>6, <2>1, AdmitsFacts DEF ObservationAccepted
<1>7. CASE UploadRefused \/ RemoveReplaced
  BY <1>7 DEF UploadRefused, RemoveReplaced, Fault
<1>8. ASSUME NEW R \in {{r} : r \in Runs} \cup {Runs}, ClearSelect(R) PROVE TypeOK'
  BY <1>8 DEF ClearSelect, IdsOf, Clearing
<1>9. CASE ClearPaths
  <2>1. clear.ids \in SUBSET Ids
    BY <1>9 DEF ClearPaths, Idle
  <2>2. PathsOf(clear.ids) \in SUBSET Pictures
    BY <2>1, PathsFacts
  <2>3. clear' \in [at : {"ids", "paths", "unlink"}, ids : SUBSET Ids, paths : SUBSET Pictures]
    <3>1. clear \in [at : {"ids", "paths", "unlink"}, ids : SUBSET Ids, paths : SUBSET Pictures]
      BY <1>9 DEF ClearPaths, Idle
    <3>2. clear' = [clear EXCEPT !.at = "paths", !.paths = PathsOf(clear.ids)]
      BY <1>9 DEF ClearPaths
    <3> HIDE DEF TypeOK
    <3> QED BY <3>1, <3>2, <2>2
  <2> QED BY <1>9, <2>3 DEF ClearPaths
<1>10. CASE ClearRows
  <2>1. person' \in [Ids -> Persons \cup {NoPerson}]
    BY <1>10 DEF ClearRows, DropIdentities
  <2>2. gallery' \in [Ids -> [Views -> Pictures \cup {NoFile}]]
    BY <1>10 DEF ClearRows, DropIdentities, NoViews
  <2>3. clear' \in [at : {"ids", "paths", "unlink"}, ids : SUBSET Ids, paths : SUBSET Pictures]
    BY <1>10 DEF ClearRows, Idle
  <2> QED BY <1>10, <2>1, <2>2, <2>3 DEF ClearRows
<1>11. CASE ClearLocked \/ ClearEnds \/ WipeRows \/ WipeList \/ WipeEnds
  <2>1. CASE ClearLocked \/ ClearEnds
    BY <2>1 DEF ClearLocked, ClearEnds, Fault
  <2>2. CASE WipeRows
    BY <2>2 DEF WipeRows, Clearing
  <2>3. CASE WipeList
    BY <2>3 DEF WipeList
  <2>4. CASE WipeEnds
    <3>1. upsets' \subseteq {"fault", "clear"} /\ wipe' = Idle
      BY <2>4 DEF WipeEnds, Fault
    <3> QED BY <2>4, <3>1 DEF WipeEnds
  <2> QED BY <1>11, <2>1, <2>2, <2>3, <2>4
<1>12. ASSUME NEW f \in Files, ClearUnlink(f) \/ WipeUnlink(f) PROVE TypeOK'
  <2>1. CASE ClearUnlink(f)
    BY <2>1 DEF ClearUnlink, Idle
  <2>2. CASE WipeUnlink(f)
    BY <2>2 DEF WipeUnlink, Idle
  <2> QED BY <1>12, <2>1, <2>2
<1>13. ASSUME NEW r \in Runs, DeleteCommit(r) PROVE TypeOK'
  <2>1. FilesOf(r) \subseteq Files
    BY DEF FilesOf
  <2> QED BY <1>13, <2>1 DEF DeleteCommit, Delete, Phases, DropIdentities, NoViews
<1>14. ASSUME NEW r \in Runs, DeleteRecord(r) PROVE TypeOK'
  BY <1>14 DEF DeleteRecord, NoRemoval
<1>15. ASSUME NEW r \in Runs, NEW f \in Files, DeleteUnlink(r, f) PROVE TypeOK'
  <2>1. removal' \in [Runs -> [left : SUBSET Files, failed : SUBSET Files]]
    <3>1. \/ removal' = [removal EXCEPT ![r].left = @ \ {f}]
          \/ removal' = [removal EXCEPT ![r] = [left |-> @.left \ {f}, failed |-> @.failed \cup {f}]]
      BY <1>15 DEF DeleteUnlink
    <3>2. removal \in [Runs -> [left : SUBSET Files, failed : SUBSET Files]]
      OBVIOUS
    <3> HIDE DEF TypeOK
    <3> QED BY <3>1, <3>2
  <2>2. disk' \subseteq disk /\ upsets' \subseteq {"fault", "clear"}
    BY <1>15 DEF DeleteUnlink, Fault
  <2> QED BY <1>15, <2>1, <2>2 DEF DeleteUnlink
<1>16. CASE Crash
  BY <1>16, EvidenceAssumption DEF Crash, NoRemoval, Fault
<1>17. CASE RunsElsewhere
  BY <1>17, RunsMoveFacts DEF RunsElsewhere, evidenceVars
<1>18. CASE UNCHANGED vars
  BY <1>18 DEF vars, evidenceVars
<1> QED
  BY <1>1, <1>2, <1>3, <1>4, <1>5, <1>6, <1>7, <1>8, <1>9, <1>10, <1>11, <1>12, <1>13,
     <1>14, <1>15, <1>16, <1>17, <1>18 DEF Next

\* Every variable keeps its type, for any identities, views and files.
THEOREM TypeCorrect == Spec => []TypeOK
BY TypeInit, TypeStep, PTL DEF Spec

-----------------------------------------------------------------------------
(* Rows and their files.                                                    *)

\* A row shows the picture.
Shows(i, v, f) == gallery[i][v] = f
Shown(f) == \E i \in Ids, v \in Views : Shows(i, v, f)

\* No two rows show one picture, and a shown picture is on disk.
ShownOnce ==
  \A i, j \in Ids, v, w \in Views, f \in Pictures :
    Shows(i, v, f) /\ Shows(j, w, f) => i = j /\ v = w
ShownOnDisk == \A f \in Pictures : Shown(f) => f \in disk

\* What is to be removed is shown no more; what is to be shown is not to be removed.
ToRemove(f) ==
  \/ clear.at \in {"paths", "unlink"} /\ f \in clear.paths
  \/ \E r \in Runs : f \in removal[r].left
UploadIsFree ==
  /\ upload.at = "view" => /\ upload.file \in disk
                           /\ ~Shown(upload.file) /\ ~ToRemove(upload.file)
  /\ upload.at = "replaced" => ~Shown(upload.file)
RemovalIsFree == \A r \in Runs, f \in Pictures : f \in removal[r].left => ~Shown(f)
ClearIsFree ==
  /\ clear.at = "paths" =>
       \A i \in Ids, v \in Views : gallery[i][v] \in clear.paths => i \in clear.ids
  /\ clear.at = "unlink" => \A f \in clear.paths : ~Shown(f)
RemovedIsUsed == \A f \in Pictures : ToRemove(f) => f \in used

Apart ==
  /\ ShownOnce /\ ShownOnDisk
  /\ UploadIsFree /\ RemovalIsFree /\ ClearIsFree /\ RemovedIsUsed
FileInv == TypeOK /\ Apart

\* The invariant gives the property.
LEMMA FileInvImplies == FileInv => RowHasFile
<1> SUFFICES ASSUME FileInv PROVE RowHasFile
  OBVIOUS
<1>1. Ids \in SUBSET Ids
  OBVIOUS
<1>2. \A f \in Pictures : f \in Referenced <=> Shown(f)
  BY <1>1, PathsFacts DEF FileInv, Referenced, Shown, Shows
<1>3. Referenced \subseteq Pictures
  BY <1>1, PathsFacts DEF FileInv, Referenced
<1> QED BY <1>2, <1>3 DEF FileInv, Apart, ShownOnDisk, RowHasFile

\* There are no files in the beginning.
LEMMA FileInit == Init => FileInv
BY TypeInit, EvidenceAssumption
   DEF Init, FileInv, Apart, ShownOnce, ShownOnDisk, UploadIsFree, RemovalIsFree, ClearIsFree,
       RemovedIsUsed, ToRemove, Shown, Shows, Idle, NoRemoval, Files

\* Dropping identities shows nothing new.
LEMMA DropFacts ==
  ASSUME TypeOK, NEW ids \in SUBSET Ids, DropIdentities(ids)
  PROVE  \A i \in Ids, v \in Views, f \in Pictures : Shows(i, v, f)' <=> Shows(i, v, f) /\ i \notin ids
BY EvidenceAssumption DEF DropIdentities, NoViews, Shows, TypeOK, Files

\* One step keeps every shown picture on disk and out of the hands that remove files.
LEMMA FileStep ==
  ASSUME FileInv, [Next]_vars
  PROVE  FileInv'
<1> USE DEF FileInv, Apart, rowVars
<1>0. TypeOK'
  BY TypeStep
<1>1. ASSUME NEW p \in Persons, PutIdentity(p) PROVE Apart'
  BY <1>1 DEF PutIdentity, ShownOnce, ShownOnDisk, UploadIsFree, RemovalIsFree, ClearIsFree,
              RemovedIsUsed, ToRemove, Shown, Shows
<1>2. ASSUME NEW p \in Persons, NEW v \in Views, NEW f \in Pictures, SavePicture(p, v, f)
      PROVE  Apart'
  <2>1. ~Shown(f) /\ ~ToRemove(f)
    BY <1>2 DEF SavePicture, ShownOnDisk, RemovedIsUsed, TypeOK
  <2> QED
    BY <1>2, <2>1 DEF SavePicture, ShownOnce, ShownOnDisk, UploadIsFree, RemovalIsFree,
                      ClearIsFree, RemovedIsUsed, ToRemove, Shown, Shows, TypeOK
<1>3. ASSUME NEW r \in Runs, NEW f \in Snapshots, SaveSnapshot(r, f) PROVE Apart'
  BY <1>3 DEF SaveSnapshot, ShownOnce, ShownOnDisk, UploadIsFree, RemovalIsFree,
              ClearIsFree, RemovedIsUsed, ToRemove, Shown, Shows
<1>4. ASSUME NEW f \in Files, SaveFails(f) PROVE Apart'
  BY <1>4 DEF SaveFails, ShownOnce, ShownOnDisk, UploadIsFree, RemovalIsFree,
              ClearIsFree, RemovedIsUsed, ToRemove, Shown, Shows
<1>5. CASE ViewAccepted
  <2>1. /\ upload.of \in Persons /\ upload.view \in Views /\ upload.file \in Pictures
        /\ upload.file \in disk /\ ~Shown(upload.file) /\ ~ToRemove(upload.file)
    BY <1>5 DEF ViewAccepted, Idle, TypeOK, UploadIsFree
  <2>2. PICK i \in Ids :
          /\ gallery' = [gallery EXCEPT ![i][upload.view] = upload.file]
          /\ upload' = Replaces(gallery[i][upload.view])
    BY <1>5 DEF ViewAccepted
  <2>3. \A j \in Ids, w \in Views, f \in Pictures :
          Shows(j, w, f)' <=> IF j = i /\ w = upload.view THEN f = upload.file
                                                          ELSE Shows(j, w, f)
    BY <2>1, <2>2 DEF Shows, TypeOK
  <2>4. UNCHANGED <<disk, used, clear, removal>>
    BY <1>5 DEF ViewAccepted
  <2>5. \A f \in Pictures : Shown(f)' => f = upload.file \/ Shown(f)
    BY <2>3 DEF Shown
  <2>6. ShownOnce'
    BY <2>1, <2>3 DEF ShownOnce, Shown
  <2>7. ShownOnDisk'
    BY <2>1, <2>4, <2>5 DEF ShownOnDisk
  <2>8. UploadIsFree'
    <3>1. CASE gallery[i][upload.view] = NoFile
      BY <2>2, <3>1 DEF Replaces, Idle, UploadIsFree
    <3>2. ASSUME NEW old \in Pictures, gallery[i][upload.view] = old PROVE UploadIsFree'
      <4>1. Shows(i, upload.view, old)
        BY <3>2 DEF Shows
      <4>2. old # upload.file
        BY <2>1, <4>1 DEF Shown
      <4>3. \A j \in Ids, w \in Views : ~(j = i /\ w = upload.view) => ~Shows(j, w, old)
        BY <2>1, <4>1 DEF ShownOnce
      <4>4. \A j \in Ids, w \in Views : ~Shows(j, w, old)'
        BY <2>3, <4>2, <4>3
      <4>5. ~Shown(old)'
        BY <4>4 DEF Shown
      <4>6. upload' = [at |-> "replaced", file |-> old]
        BY <2>2, <3>2, EvidenceAssumption DEF Replaces, Files
      <4> QED BY <4>5, <4>6 DEF UploadIsFree
    <3>3. gallery[i][upload.view] \in Pictures \cup {NoFile}
      BY <2>1 DEF TypeOK
    <3> QED BY <3>1, <3>2, <3>3
  <2>9. RemovalIsFree'
    BY <2>1, <2>4, <2>5 DEF RemovalIsFree, ToRemove
  <2>10. ClearIsFree'
    <3>1. \A j \in Ids, w \in Views :
            gallery'[j][w] = IF j = i /\ w = upload.view THEN upload.file ELSE gallery[j][w]
      BY <2>1, <2>2 DEF TypeOK
    <3>2. CASE clear.at = "paths"
      BY <2>1, <2>4, <3>1, <3>2 DEF ClearIsFree, ToRemove
    <3>3. CASE clear.at = "unlink"
      <4>1. clear.paths \subseteq Pictures
        BY <3>3 DEF TypeOK, Idle
      <4> QED BY <2>1, <2>4, <2>5, <3>3, <4>1 DEF ClearIsFree, ToRemove
    <3> QED BY <2>4, <3>2, <3>3 DEF ClearIsFree
  <2>11. RemovedIsUsed'
    BY <2>4 DEF RemovedIsUsed, ToRemove
  <2> QED BY <1>0, <2>6, <2>7, <2>8, <2>9, <2>10, <2>11
<1>6. CASE ObservationAccepted
  BY <1>0, <1>6 DEF ObservationAccepted, ShownOnce, ShownOnDisk, UploadIsFree, RemovalIsFree,
              ClearIsFree, RemovedIsUsed, ToRemove, Shown, Shows, Idle
<1>7. CASE UploadRefused \/ RemoveReplaced
  <2>1. upload.file \in Pictures => ~Shown(upload.file)
    BY <1>7, EvidenceAssumption DEF UploadRefused, RemoveReplaced, UploadIsFree, TypeOK, Idle
  <2> QED
    BY <1>0, <1>7, <2>1 DEF UploadRefused, RemoveReplaced, ShownOnce, ShownOnDisk, UploadIsFree,
                      RemovalIsFree, ClearIsFree, RemovedIsUsed, ToRemove, Shown, Shows, Idle
<1>8. ASSUME NEW R \in {{r} : r \in Runs} \cup {Runs}, ClearSelect(R) PROVE Apart'
  BY <1>8 DEF ClearSelect, ShownOnce, ShownOnDisk, UploadIsFree, RemovalIsFree,
              ClearIsFree, RemovedIsUsed, ToRemove, Shown, Shows, Idle
<1>9. CASE ClearPaths
  <2>1. clear.ids \in SUBSET Ids
    BY <1>9 DEF ClearPaths, Idle, TypeOK
  <2>2. clear'.at = "paths" /\ clear'.ids = clear.ids /\ clear'.paths = PathsOf(clear.ids)
    BY <1>9 DEF ClearPaths, Idle, TypeOK
  <2>3. \A f \in Pictures : f \in clear'.paths <=> \E i \in clear.ids, v \in Views : Shows(i, v, f)
    BY <2>1, <2>2, PathsFacts DEF Shows
  <2>4. ClearIsFree'
    <3>1. ASSUME NEW i \in Ids, NEW v \in Views, gallery[i][v] \in clear'.paths
          PROVE  i \in clear.ids
      <4>1. gallery[i][v] \in Pictures
        BY <2>1, <2>2, <3>1, PathsFacts
      <4> QED BY <2>1, <2>3, <3>1, <4>1 DEF ShownOnce, Shows
    <3> QED BY <1>9, <2>2, <3>1 DEF ClearPaths, ClearIsFree
  <2>5. \A f \in Pictures : f \in clear'.paths => Shown(f)
    BY <2>1, <2>3 DEF Shown
  <2>6. UploadIsFree' /\ RemovedIsUsed'
    BY <1>9, <2>5 DEF ClearPaths, UploadIsFree, RemovedIsUsed, ShownOnDisk, ToRemove, Shown,
                      Shows, TypeOK, Idle
  <2> QED
    BY <1>0, <1>9, <2>4, <2>6 DEF ClearPaths, ShownOnce, ShownOnDisk, RemovalIsFree, Shown, Shows
<1>10. CASE ClearRows
  <2>1. clear.ids \in SUBSET Ids /\ clear.paths \in SUBSET Pictures
    BY <1>10 DEF ClearRows, Idle, TypeOK
  <2>2. clear'.at = "unlink" /\ clear'.paths = clear.paths
    BY <1>10 DEF ClearRows, Idle, TypeOK
  <2>3. \A i \in Ids, v \in Views, f \in Pictures :
          Shows(i, v, f)' <=> Shows(i, v, f) /\ i \notin clear.ids
    BY <1>10, <2>1, DropFacts DEF ClearRows
  <2>4. \A f \in Pictures : Shown(f)' => Shown(f)
    BY <2>3 DEF Shown
  <2>5. UNCHANGED <<disk, used, upload, removal>>
    BY <1>10 DEF ClearRows
  <2>6. ClearIsFree'
    BY <1>10, <2>1, <2>2, <2>3 DEF ClearRows, ClearIsFree, Shown, Shows
  <2>7. \A f : ToRemove(f)' <=> ToRemove(f)
    BY <1>10, <2>2, <2>5 DEF ClearRows, ToRemove
  <2>8. ShownOnce'
    BY <2>3 DEF ShownOnce
  <2>9. UploadIsFree'
    BY <2>4, <2>5, <2>7 DEF UploadIsFree, TypeOK, Idle
  <2> QED BY <1>0, <2>4, <2>5, <2>6, <2>7, <2>8, <2>9 DEF ShownOnDisk, RemovalIsFree, RemovedIsUsed
<1>11. CASE ClearLocked \/ ClearEnds \/ WipeRows \/ WipeList \/ WipeEnds
  BY <1>0, <1>11 DEF ClearLocked, ClearEnds, WipeRows, WipeList, WipeEnds, ShownOnce, ShownOnDisk,
               UploadIsFree, RemovalIsFree, ClearIsFree, RemovedIsUsed, ToRemove, Shown, Shows, Idle
<1>12. ASSUME NEW f \in Files, ClearUnlink(f) PROVE Apart'
  <2>1. clear'.at = "unlink" /\ clear'.paths = clear.paths \ {f} /\ f \in clear.paths
    BY <1>12 DEF ClearUnlink, Idle, TypeOK
  <2>2. f \in Pictures /\ ~Shown(f) /\ ToRemove(f)
    BY <1>12, <2>1 DEF ClearUnlink, Idle, TypeOK, ClearIsFree, ToRemove
  <2> QED
    BY <1>12, <2>1, <2>2 DEF ClearUnlink, ShownOnce, ShownOnDisk, UploadIsFree, RemovalIsFree,
                             ClearIsFree, RemovedIsUsed, ToRemove, Shown, Shows
<1>13. ASSUME NEW f \in Files, WipeUnlink(f) PROVE Apart'
  <2>1. f \notin Pictures
    BY <1>13, EvidenceAssumption DEF WipeUnlink, TypeOK, Idle
  <2>2. upload.at = "view" => upload.file \in Pictures
    BY DEF TypeOK, Idle
  <2> QED
    BY <1>13, <2>1, <2>2 DEF WipeUnlink, ShownOnce, ShownOnDisk, UploadIsFree, RemovalIsFree,
                        ClearIsFree, RemovedIsUsed, ToRemove, Shown, Shows
<1>14. ASSUME NEW r \in Runs, DeleteCommit(r) PROVE Apart'
  <2>1. IdsOf({r}) \in SUBSET Ids
    BY DEF IdsOf
  <2>2. \A i \in Ids, v \in Views, f \in Pictures :
          Shows(i, v, f)' <=> Shows(i, v, f) /\ i \notin IdsOf({r})
    BY <1>14, <2>1, DropFacts DEF DeleteCommit
  <2>3. \A f \in Pictures : Shown(f)' => Shown(f)
    BY <2>2 DEF Shown
  <2>4. \A f \in Pictures : f \in FilesOf(r) =>
          f \in disk /\ \E i \in IdsOf({r}), v \in Views : Shows(i, v, f)
    BY <2>1, PathsFacts, EvidenceAssumption DEF FilesOf, Shows
  <2>5. \A f \in Pictures : f \in FilesOf(r) => ~Shown(f)'
    <3> SUFFICES ASSUME NEW f \in Pictures, f \in FilesOf(r),
                        NEW j \in Ids, NEW w \in Views, Shows(j, w, f)'
                 PROVE  FALSE
      BY DEF Shown
    <3>1. Shows(j, w, f) /\ j \notin IdsOf({r})
      BY <2>2
    <3>2. PICK i \in IdsOf({r}), v \in Views : Shows(i, v, f)
      BY <2>4
    <3> QED BY <2>1, <3>1, <3>2 DEF ShownOnce
  <2>6. UNCHANGED <<disk, used, upload, clear>>
    BY <1>14 DEF DeleteCommit
  <2>7. \A q \in Runs : removal'[q].left = IF q = r THEN FilesOf(r) ELSE removal[q].left
    BY <1>14 DEF DeleteCommit, TypeOK
  <2>8. \A f \in Pictures : f \in FilesOf(r) => Shown(f)
    BY <2>1, <2>4 DEF Shown
  <2>9. \A f \in Pictures : ToRemove(f)' => ToRemove(f) \/ f \in FilesOf(r)
    BY <2>6, <2>7 DEF ToRemove
  <2>10. RemovalIsFree'
    BY <2>3, <2>5, <2>7 DEF RemovalIsFree
  <2>11. UploadIsFree'
    BY <2>3, <2>6, <2>8, <2>9 DEF UploadIsFree, TypeOK, Idle
  <2>12. ClearIsFree'
    <3>1. CASE clear.at = "paths"
      <4>1. \A i \in Ids, v \in Views : gallery'[i][v] \in {gallery[i][v], NoFile}
        BY <1>14 DEF DeleteCommit, DropIdentities, NoViews, TypeOK
      <4>2. NoFile \notin clear.paths
        BY <3>1, EvidenceAssumption DEF TypeOK, Idle, Files
      <4> QED BY <2>6, <3>1, <4>1, <4>2 DEF ClearIsFree
    <3>2. CASE clear.at # "paths"
      BY <2>3, <2>6, <3>2 DEF ClearIsFree, TypeOK, Idle
    <3> QED BY <3>1, <3>2
  <2>13. RemovedIsUsed'
    BY <2>4, <2>6, <2>9 DEF RemovedIsUsed, TypeOK
  <2>14. ShownOnce'
    BY <2>2 DEF ShownOnce
  <2> QED BY <2>3, <2>6, <2>10, <2>11, <2>12, <2>13, <2>14 DEF ShownOnDisk
<1>15. ASSUME NEW r \in Runs, DeleteRecord(r) PROVE Apart'
  <2>1. \A q \in Runs : removal'[q].left \subseteq removal[q].left
    BY <1>15 DEF DeleteRecord, NoRemoval, TypeOK
  <2> QED
    BY <1>15, <2>1 DEF DeleteRecord, ShownOnce, ShownOnDisk, UploadIsFree, RemovalIsFree,
                       ClearIsFree, RemovedIsUsed, ToRemove, Shown, Shows
<1>16. ASSUME NEW r \in Runs, NEW f \in Files, DeleteUnlink(r, f) PROVE Apart'
  <2>1. \A q \in Runs : removal'[q].left \subseteq removal[q].left
    <3>1. \/ removal' = [removal EXCEPT ![r].left = @ \ {f}]
          \/ removal' = [removal EXCEPT ![r] = [left |-> @.left \ {f}, failed |-> @.failed \cup {f}]]
      BY <1>16 DEF DeleteUnlink
    <3>2. ASSUME NEW q \in Runs PROVE removal'[q].left \subseteq removal[q].left
      BY <3>1 DEF TypeOK
    <3> QED BY <3>2
  <2>2. f \in Pictures => ~Shown(f) /\ ToRemove(f)
    BY <1>16 DEF DeleteUnlink, RemovalIsFree, ToRemove
  <2>3. disk \ {f} \subseteq disk'
    BY <1>16 DEF DeleteUnlink
  <2>4. upload.at = "view" => upload.file \in Pictures
    BY DEF TypeOK, Idle
  <2> QED
    BY <1>16, <2>1, <2>2, <2>3, <2>4 DEF DeleteUnlink, ShownOnce, ShownOnDisk, UploadIsFree,
       RemovalIsFree, ClearIsFree, RemovedIsUsed, ToRemove, Shown, Shows
<1>17. CASE Crash
  <2>1. \A q \in Runs : removal'[q].left = {}
    BY <1>17 DEF Crash, NoRemoval
  <2> QED
    BY <1>0, <1>17, <2>1 DEF Crash, ShownOnce, ShownOnDisk, UploadIsFree, RemovalIsFree, ClearIsFree,
                       RemovedIsUsed, ToRemove, Shown, Shows, Idle
<1>18. CASE RunsElsewhere \/ UNCHANGED vars
  BY <1>0, <1>18 DEF RunsElsewhere, vars, evidenceVars, ShownOnce, ShownOnDisk, UploadIsFree,
               RemovalIsFree, ClearIsFree, RemovedIsUsed, ToRemove, Shown, Shows
<1> QED
  BY <1>0, <1>1, <1>2, <1>3, <1>4, <1>5, <1>6, <1>7, <1>8, <1>9, <1>10, <1>11, <1>12, <1>13,
     <1>14, <1>15, <1>16, <1>17, <1>18 DEF Next

\* Every view has its image on disk, through any replacement, refusal, clearing, deletion,
\* failure and crash.
THEOREM RowsKeepFiles == Spec => []RowHasFile
BY FileInit, FileStep, FileInvImplies, PTL DEF Spec

-----------------------------------------------------------------------------
(* Images and persons.                                                      *)

\* An id without a row has no views that the next row with this id would inherit.
ViewsNeedRow == \A i \in Ids, v \in Views : person[i] = NoPerson => gallery[i][v] = NoFile
UploadDepicts == upload.at = "view" => depicts[upload.file] = upload.of
PersonInv == FileInv /\ ViewsNeedRow /\ UploadDepicts /\ PictureOfItsPerson

\* There are no rows in the beginning.
LEMMA PersonInit == Init => PersonInv
BY FileInit DEF Init, PersonInv, ViewsNeedRow, UploadDepicts, PictureOfItsPerson, Idle

\* Dropping identities takes their views with them.
LEMMA DropPersonFacts ==
  ASSUME PersonInv, NEW ids \in SUBSET Ids, DropIdentities(ids), UNCHANGED depicts
  PROVE  (ViewsNeedRow /\ PictureOfItsPerson)'
BY DEF PersonInv, DropIdentities, NoViews, ViewsNeedRow, PictureOfItsPerson

\* One step hangs every image on the row of the person it depicts.
LEMMA PersonStep ==
  ASSUME PersonInv, [Next]_vars
  PROVE  PersonInv'
<1> USE DEF PersonInv, rowVars
<1>0. FileInv' /\ TypeOK
  BY FileStep DEF FileInv
<1> DEFINE Goal == ViewsNeedRow' /\ UploadDepicts' /\ PictureOfItsPerson'
<1>1. ASSUME NEW p \in Persons, PutIdentity(p) PROVE Goal
  <2>1. PICK i \in Ids : IdFor(i, p) /\ person' = [person EXCEPT ![i] = p]
    BY <1>1 DEF PutIdentity
  <2>2. person[i] \in {p, NoPerson}
    BY <1>0, <2>1, IdForFacts
  <2>3. p # NoPerson
    BY EvidenceAssumption
  <2>4. UNCHANGED <<gallery, upload, depicts>>
    BY <1>1 DEF PutIdentity
  <2>5. \A j \in Ids : person'[j] = IF j = i THEN p ELSE person[j]
    BY <1>0, <2>1 DEF TypeOK
  <2> QED BY <2>2, <2>3, <2>4, <2>5 DEF ViewsNeedRow, UploadDepicts, PictureOfItsPerson
<1>2. ASSUME NEW p \in Persons, NEW v \in Views, NEW f \in Pictures, SavePicture(p, v, f)
      PROVE  Goal
  <2>1. \A i \in Ids, w \in Views : gallery[i][w] # NoFile => gallery[i][w] \in Pictures /\ gallery[i][w] # f
    BY <1>0, <1>2 DEF SavePicture, FileInv, Apart, ShownOnDisk, Shown, Shows, TypeOK
  <2> QED
    BY <1>0, <1>2, <2>1 DEF SavePicture, ViewsNeedRow, UploadDepicts, PictureOfItsPerson, TypeOK
<1>3. CASE ViewAccepted
  <2>1. /\ upload.of \in Persons /\ upload.view \in Views /\ upload.file \in Pictures
        /\ depicts[upload.file] = upload.of
    BY <1>0, <1>3 DEF ViewAccepted, Idle, TypeOK, UploadDepicts
  <2>2. PICK i \in Ids :
          /\ IdFor(i, upload.of)
          /\ person' = [person EXCEPT ![i] = upload.of]
          /\ gallery' = [gallery EXCEPT ![i][upload.view] = upload.file]
          /\ upload' = Replaces(gallery[i][upload.view])
    BY <1>3 DEF ViewAccepted
  <2>3. person[i] \in {upload.of, NoPerson} /\ upload.of # NoPerson
    BY <1>0, <2>1, <2>2, IdForFacts, EvidenceAssumption
  <2>4. \A j \in Ids : person'[j] = IF j = i THEN upload.of ELSE person[j]
    BY <1>0, <2>2 DEF TypeOK
  <2>5. \A j \in Ids, w \in Views :
          gallery'[j][w] = IF j = i /\ w = upload.view THEN upload.file ELSE gallery[j][w]
    BY <1>0, <2>1, <2>2 DEF TypeOK
  <2>6. depicts' = depicts /\ upload'.at # "view"
    BY <1>3, <2>2 DEF ViewAccepted, Replaces, Idle
  <2>7. ViewsNeedRow'
    BY <2>3, <2>4, <2>5 DEF ViewsNeedRow
  <2>8. PictureOfItsPerson'
    BY <2>1, <2>3, <2>4, <2>5, <2>6 DEF ViewsNeedRow, PictureOfItsPerson
  <2> QED BY <1>0, <2>6, <2>7, <2>8 DEF UploadDepicts
<1>4. CASE ClearRows
  <2>1. clear.ids \in SUBSET Ids
    BY <1>0, <1>4 DEF ClearRows, Idle, TypeOK
  <2> QED BY <1>0, <1>4, <2>1, DropPersonFacts DEF ClearRows, UploadDepicts
<1>5. ASSUME NEW r \in Runs, DeleteCommit(r) PROVE Goal
  <2>1. IdsOf({r}) \in SUBSET Ids
    BY DEF IdsOf
  <2> QED BY <1>5, <2>1, DropPersonFacts DEF DeleteCommit, UploadDepicts
<1>6. CASE ObservationAccepted \/ UploadRefused \/ RemoveReplaced \/ Crash
  BY <1>0, <1>6 DEF ObservationAccepted, UploadRefused, RemoveReplaced, Crash, Idle,
                    ViewsNeedRow, UploadDepicts, PictureOfItsPerson
<1>7. ASSUME NEW r \in Runs, NEW f \in Snapshots, SaveSnapshot(r, f) PROVE Goal
  BY <1>7 DEF SaveSnapshot, ViewsNeedRow, UploadDepicts, PictureOfItsPerson
<1>8. ASSUME NEW f \in Files, SaveFails(f) \/ ClearUnlink(f) \/ WipeUnlink(f) PROVE Goal
  BY <1>8 DEF SaveFails, ClearUnlink, WipeUnlink, ViewsNeedRow, UploadDepicts, PictureOfItsPerson
<1>9. ASSUME NEW R \in {{r} : r \in Runs} \cup {Runs}, ClearSelect(R) PROVE Goal
  BY <1>9 DEF ClearSelect, ViewsNeedRow, UploadDepicts, PictureOfItsPerson
<1>10. CASE ClearPaths \/ ClearLocked \/ ClearEnds \/ WipeRows \/ WipeList \/ WipeEnds
  BY <1>0, <1>10 DEF ClearPaths, ClearLocked, ClearEnds, WipeRows, WipeList, WipeEnds,
                     ViewsNeedRow, UploadDepicts, PictureOfItsPerson
<1>11. ASSUME NEW r \in Runs, DeleteRecord(r) PROVE Goal
  BY <1>11 DEF DeleteRecord, ViewsNeedRow, UploadDepicts, PictureOfItsPerson
<1>12. ASSUME NEW r \in Runs, NEW f \in Files, DeleteUnlink(r, f) PROVE Goal
  BY <1>12 DEF DeleteUnlink, ViewsNeedRow, UploadDepicts, PictureOfItsPerson
<1>13. CASE RunsElsewhere \/ UNCHANGED vars
  BY <1>0, <1>13 DEF RunsElsewhere, vars, evidenceVars, ViewsNeedRow, UploadDepicts,
                     PictureOfItsPerson
<1> QED
  BY <1>0, <1>1, <1>2, <1>3, <1>4, <1>5, <1>6, <1>7, <1>8, <1>9, <1>10, <1>11, <1>12, <1>13
     DEF Next

\* No view ever shows another person's image, however ids are reused.
THEOREM PicturesStay == Spec => []PictureOfItsPerson
<1>1. PersonInv => PictureOfItsPerson
  BY DEF PersonInv
<1> QED BY <1>1, PersonInit, PersonStep, PTL DEF Spec

-----------------------------------------------------------------------------
(* Deleted runs.                                                            *)

\* One step gives a deleted run no row.
LEMMA DeletedStep ==
  ASSUME TypeOK, NoEvidenceOfDeleted, [Next]_vars
  PROVE  NoEvidenceOfDeleted'
<1> USE DEF rowVars
<1>1. ASSUME NEW p \in Persons, PutIdentity(p) PROVE NoEvidenceOfDeleted'
  <2>1. p[1] \in Runs
    BY DEF Persons
  <2> QED BY <1>1, <2>1, AdmitsFacts DEF PutIdentity, NoEvidenceOfDeleted, TypeOK
<1>2. CASE ViewAccepted
  <2>1. upload.of[1] \in Runs
    BY <1>2 DEF ViewAccepted, Idle, TypeOK, Persons
  <2> QED BY <1>2, <2>1, AdmitsFacts DEF ViewAccepted, NoEvidenceOfDeleted, TypeOK
<1>3. CASE ObservationAccepted
  <2>1. upload.run \in Runs
    BY <1>3 DEF ObservationAccepted, Idle, TypeOK
  <2> QED BY <1>3, <2>1, AdmitsFacts DEF ObservationAccepted, NoEvidenceOfDeleted, TypeOK
<1>4. CASE ClearRows
  BY <1>4 DEF ClearRows, DropIdentities, NoEvidenceOfDeleted, TypeOK
<1>5. ASSUME NEW r \in Runs, DeleteCommit(r) PROVE NoEvidenceOfDeleted'
  <2>1. \A q \in Runs : phase'[q] = "deleted" => q = r \/ phase[q] = "deleted"
    BY <1>5 DEF DeleteCommit, Delete, TypeOK
  <2>2. \A i \in Ids : person'[i] = IF i \in IdsOf({r}) THEN NoPerson ELSE person[i]
    BY <1>5 DEF DeleteCommit, DropIdentities
  <2>3. \A f \in Snapshots : observed'[f] = IF observed[f] = r THEN NoRun ELSE observed[f]
    BY <1>5 DEF DeleteCommit
  <2> QED BY <2>1, <2>2, <2>3, PolicyAssumption DEF NoEvidenceOfDeleted, IdsOf
<1>6. CASE WipeRows
  BY <1>6, PolicyAssumption DEF WipeRows, NoEvidenceOfDeleted
<1>7. CASE RunsElsewhere
  BY <1>7, RunsMoveFacts DEF RunsElsewhere, evidenceVars, NoEvidenceOfDeleted, TypeOK
<1>8. CASE UNCHANGED <<phase, rowVars>>
  BY <1>8 DEF NoEvidenceOfDeleted
<1> QED
  BY <1>1, <1>2, <1>3, <1>4, <1>5, <1>6, <1>7, <1>8
     DEF Next, vars, evidenceVars, SavePicture, SaveSnapshot, SaveFails, UploadRefused,
         RemoveReplaced, ClearSelect, ClearPaths, ClearLocked, ClearEnds, ClearUnlink,
         WipeList, WipeUnlink, WipeEnds, DeleteUnlink, DeleteRecord, Crash

\* An upload that was under way when its run was deleted leaves no row.
THEOREM EvidenceStaysDeleted == Spec => []NoEvidenceOfDeleted
<1>1. Init => NoEvidenceOfDeleted
  BY DEF Init, RInit, NoEvidenceOfDeleted
<1>2. TypeOK /\ NoEvidenceOfDeleted /\ [Next]_vars => NoEvidenceOfDeleted'
  BY DeletedStep
<1> QED BY <1>1, <1>2, TypeInit, TypeStep, PTL DEF Spec

-----------------------------------------------------------------------------
(* No image is forgotten until something fails or the administrator clears: *)
(* replacements, refusals and deletions clean up after themselves.          *)

Kept(f) == (f \in Pictures /\ Shown(f)) \/ (f \in Snapshots /\ observed[f] # NoRun)
Leaving(f) ==
  \/ upload.at # "idle" /\ f = upload.file
  \/ \E r \in Runs : f \in removal[r].left
Undisturbed ==
  /\ clear = Idle /\ wipe = Idle
  /\ \A r \in Runs : removal[r].failed = {} /\ (phase[r] # "deleted" => removal[r].left = {})
Tidy == Undisturbed /\ \A f \in disk : Kept(f) \/ Leaving(f)
TidyInv == FileInv /\ (upsets = {} => Tidy)

\* The invariant gives the property.
LEMMA TidyImplies == TidyInv => FilesAccounted
<1> SUFFICES ASSUME TidyInv, upsets = {}, NEW f \in disk
             PROVE  f \in Referenced \cup {g \in Snapshots : observed[g] # NoRun} \cup InHand \cup pending
  BY DEF FilesAccounted, Accounted
<1>1. f \in Pictures /\ Shown(f) => f \in Referenced
  BY PathsFacts DEF TidyInv, FileInv, Referenced, Shown, Shows
<1>2. Leaving(f) => f \in InHand
  BY DEF Leaving, InHand
<1> QED BY <1>1, <1>2 DEF TidyInv, Tidy, Kept

\* A step that changes no row, and takes nothing out of a hand, forgets nothing.
LEMMA StillKept ==
  ASSUME UNCHANGED <<gallery, observed>>, NEW f, Kept(f)
  PROVE  Kept(f)'
BY DEF Kept, Shown, Shows

\* An upset is never forgotten.
LEMMA UpsetsGrow ==
  ASSUME [Next]_vars, upsets' = {}
  PROVE  upsets = {}
BY DEF Next, vars, evidenceVars, PutIdentity, SavePicture, SaveSnapshot, SaveFails, ViewAccepted,
       ObservationAccepted, UploadRefused, RemoveReplaced, ClearSelect, ClearPaths, ClearRows,
       ClearLocked, ClearUnlink, ClearEnds, WipeRows, WipeList, WipeUnlink, WipeEnds,
       DeleteCommit, DeleteUnlink, DeleteRecord, Crash, RunsElsewhere, Fault, Clearing

\* One step that upsets nothing forgets no file.
LEMMA TidyStep ==
  ASSUME FileInv, Tidy, upsets' = {}, [Next]_vars
  PROVE  Tidy'
<1> USE DEF Tidy, rowVars
<1>0. FileInv' /\ TypeOK
  BY FileStep DEF FileInv
<1> DEFINE Goal == Undisturbed' /\ \A f \in disk' : Kept(f)' \/ Leaving(f)'
<1>1. ASSUME NEW p \in Persons, PutIdentity(p) PROVE Goal
  <2>1. \A r \in Runs : phase'[r] = "deleted" <=> phase[r] = "deleted"
    BY <1>0, <1>1, AdmitsFacts DEF PutIdentity, Persons, TypeOK
  <2> QED BY <1>1, <2>1, StillKept DEF PutIdentity, Undisturbed, Leaving
<1>2. ASSUME NEW p \in Persons, NEW v \in Views, NEW f \in Pictures, SavePicture(p, v, f)
      PROVE  Goal
  BY <1>2, StillKept DEF SavePicture, Undisturbed, Leaving, Idle
<1>3. ASSUME NEW r \in Runs, NEW f \in Snapshots, SaveSnapshot(r, f) PROVE Goal
  BY <1>3, StillKept DEF SaveSnapshot, Undisturbed, Leaving, Idle
<1>4. CASE ViewAccepted
  <2>1. /\ upload.of \in Persons /\ upload.view \in Views /\ upload.file \in Pictures
        /\ upload.at # "idle"
    BY <1>0, <1>4 DEF ViewAccepted, Idle, TypeOK
  <2>2. PICK i \in Ids :
          /\ gallery' = [gallery EXCEPT ![i][upload.view] = upload.file]
          /\ upload' = Replaces(gallery[i][upload.view])
    BY <1>4 DEF ViewAccepted
  <2>3. \A j \in Ids, w \in Views :
          gallery'[j][w] = IF j = i /\ w = upload.view THEN upload.file ELSE gallery[j][w]
    BY <1>0, <2>1, <2>2 DEF TypeOK
  <2>4. UNCHANGED <<observed, disk, clear, wipe, removal>>
    BY <1>4 DEF ViewAccepted
  <2>5. ASSUME NEW f \in disk PROVE Kept(f)' \/ Leaving(f)'
    <3>1. CASE f = upload.file
      BY <2>1, <2>3, <3>1 DEF Kept, Shown, Shows
    <3>2. CASE f \in Pictures /\ f = gallery[i][upload.view]
      <4>1. upload' = [at |-> "replaced", file |-> f]
        BY <2>2, <3>2, EvidenceAssumption DEF Replaces, Files
      <4> QED BY <4>1 DEF Leaving
    <3>3. CASE f # upload.file /\ ~(f \in Pictures /\ f = gallery[i][upload.view])
      <4>1. Kept(f) => Kept(f)'
        BY <2>3, <2>4, <3>3 DEF Kept, Shown, Shows
      <4>2. Leaving(f) => Leaving(f)'
        BY <2>4, <3>3 DEF Leaving
      <4> QED BY <4>1, <4>2
    <3> QED BY <3>1, <3>2, <3>3
  <2>6. upload.of[1] \in Runs
    BY <2>1 DEF Persons
  <2>7. \A r \in Runs : phase'[r] = "deleted" <=> phase[r] = "deleted"
    BY <1>0, <1>4, <2>6, AdmitsFacts DEF ViewAccepted, TypeOK
  <2> QED BY <1>0, <2>4, <2>5, <2>7 DEF Undisturbed
<1>5. CASE ObservationAccepted
  <2>1. upload.run \in Runs /\ upload.file \in Snapshots
    BY <1>0, <1>5 DEF ObservationAccepted, Idle, TypeOK
  <2>2. \A f \in Snapshots : observed'[f] = IF f = upload.file THEN upload.run ELSE observed[f]
    BY <1>0, <1>5, <2>1 DEF ObservationAccepted, TypeOK
  <2>3. \A r \in Runs : phase'[r] = "deleted" <=> phase[r] = "deleted"
    BY <1>0, <1>5, <2>1, AdmitsFacts DEF ObservationAccepted, TypeOK
  <2>4. UNCHANGED <<gallery, disk, clear, wipe, removal>>
    BY <1>5 DEF ObservationAccepted
  <2>5. \A f : Kept(f) => Kept(f)'
    BY <2>1, <2>2, <2>4, PolicyAssumption DEF Kept, Shown, Shows
  <2>6. ASSUME NEW f \in disk PROVE Kept(f)' \/ Leaving(f)'
    <3>1. CASE Kept(f)
      BY <2>5, <3>1
    <3>2. CASE f = upload.file
      BY <2>1, <2>2, <3>2, PolicyAssumption DEF Kept
    <3>3. CASE \E r \in Runs : f \in removal[r].left
      BY <2>4, <3>3 DEF Leaving
    <3> QED BY <3>1, <3>2, <3>3 DEF Leaving
  <2> QED BY <1>0, <2>3, <2>4, <2>6 DEF Undisturbed
<1>6. CASE UploadRefused \/ RemoveReplaced
  BY <1>0, <1>6, StillKept DEF UploadRefused, RemoveReplaced, Fault, Undisturbed, Leaving
<1>7. ASSUME NEW r \in Runs, DeleteCommit(r) PROVE Goal
  <2>1. IdsOf({r}) \in SUBSET Ids
    BY DEF IdsOf
  <2>2. \A i \in Ids, v \in Views, f \in Pictures :
          Shows(i, v, f)' <=> Shows(i, v, f) /\ i \notin IdsOf({r})
    BY <1>0, <1>7, <2>1, DropFacts DEF DeleteCommit
  <2>3. \A f \in Snapshots : observed'[f] = IF observed[f] = r THEN NoRun ELSE observed[f]
    BY <1>7 DEF DeleteCommit
  <2>4. \A q \in Runs : /\ removal'[q].left = IF q = r THEN FilesOf(r) ELSE removal[q].left
                        /\ removal'[q].failed = removal[q].failed
    BY <1>0, <1>7 DEF DeleteCommit, TypeOK
  <2>5. UNCHANGED <<disk, upload, clear, wipe>>
    BY <1>7 DEF DeleteCommit
  <2>6. removal[r].left = {} /\ \A q \in Runs : phase'[q] # "deleted" => q # r /\ phase[q] # "deleted"
    BY <1>0, <1>7 DEF DeleteCommit, Delete, Undisturbed, TypeOK
  <2>7. ASSUME NEW f \in disk PROVE Kept(f)' \/ Leaving(f)'
    <3>1. f \in FilesOf(r) => Leaving(f)'
      BY <2>4 DEF Leaving
    <3>2. Kept(f) /\ f \notin FilesOf(r) => Kept(f)'
      <4>1. ASSUME f \in Pictures, Shown(f), f \notin FilesOf(r) PROVE Shown(f)'
        <5>1. f \notin PathsOf(IdsOf({r}))
          BY <2>7, <4>1 DEF FilesOf
        <5>2. \A i \in IdsOf({r}), v \in Views : ~Shows(i, v, f)
          BY <1>0, <2>1, <4>1, <5>1, PathsFacts DEF Shows
        <5> QED BY <2>2, <4>1, <5>2 DEF Shown
      <4>2. ASSUME f \in Snapshots, observed[f] # NoRun, f \notin FilesOf(r)
            PROVE  observed'[f] # NoRun
        BY <2>3, <2>7, <4>2 DEF FilesOf
      <4> QED BY <4>1, <4>2 DEF Kept
    <3>3. Leaving(f) => Leaving(f)'
      BY <2>4, <2>5, <2>6 DEF Leaving
    <3> QED BY <2>7, <3>1, <3>2, <3>3
  <2> QED BY <2>4, <2>5, <2>6, <2>7 DEF Undisturbed
<1>8. ASSUME NEW r \in Runs, DeleteRecord(r) PROVE Goal
  BY <1>8 DEF DeleteRecord, Undisturbed
<1>9. ASSUME NEW r \in Runs, NEW f \in Files, DeleteUnlink(r, f) PROVE Goal
  <2>1. /\ disk' = disk \ {f}
        /\ removal' = [removal EXCEPT ![r].left = @ \ {f}]
        /\ UNCHANGED <<phase, rowVars, upload, clear, wipe>>
    BY <1>9 DEF DeleteUnlink, Fault
  <2>2. \A q \in Runs : removal'[q] = [left |-> IF q = r THEN removal[r].left \ {f} ELSE removal[q].left,
                                       failed |-> removal[q].failed]
    BY <1>0, <2>1 DEF TypeOK
  <2> QED BY <2>1, <2>2, StillKept DEF Undisturbed, Leaving
<1>10. CASE RunsElsewhere \/ UNCHANGED vars
  <2>1. UNCHANGED evidenceVars /\ \A r \in Runs : phase'[r] = "deleted" <=> phase[r] = "deleted"
    BY <1>0, <1>10, RunsMoveFacts DEF RunsElsewhere, vars, TypeOK
  <2> QED BY <1>0, <2>1, StillKept DEF evidenceVars, Undisturbed, Leaving
<1>11. \A f : ~SaveFails(f) /\ ~ClearUnlink(f) /\ ~WipeUnlink(f)
  BY DEF SaveFails, Fault, ClearUnlink, WipeUnlink, Undisturbed, Idle
<1>12. \A R : ~ClearSelect(R)
  BY DEF ClearSelect, Clearing
<1>13. ~(ClearPaths \/ ClearRows \/ ClearLocked \/ ClearEnds \/ WipeRows \/ WipeList \/ WipeEnds)
  BY DEF ClearPaths, ClearRows, ClearLocked, ClearEnds, WipeRows, WipeList, WipeEnds,
         Clearing, Undisturbed, Idle
<1>14. ~Crash
  BY DEF Crash, Fault
<1> QED
  BY <1>0, <1>1, <1>2, <1>3, <1>4, <1>5, <1>6, <1>7, <1>8, <1>9, <1>10, <1>11, <1>12, <1>13,
     <1>14 DEF Next

\* Until something fails or the administrator clears, every image has a row or a handler,
\* for any number of runs, identities and uploads.
THEOREM NoImageForgotten == Spec => []FilesAccounted
<1>1. Init => TidyInv
  BY FileInit DEF Init, TidyInv, Tidy, Undisturbed, NoRemoval
<1>2. ASSUME TidyInv, [Next]_vars PROVE TidyInv'
  <2>1. FileInv'
    BY <1>2, FileStep DEF TidyInv
  <2>2. ASSUME upsets' = {} PROVE Tidy'
    BY <1>2, <2>2, UpsetsGrow, TidyStep DEF TidyInv
  <2> QED BY <2>1, <2>2 DEF TidyInv
<1> QED BY <1>1, <1>2, TidyImplies, PTL DEF Spec

-----------------------------------------------------------------------------
(* Observations and their snapshots, until the administrator clears.        *)

SnapshotsKept ==
  /\ clear = Idle /\ wipe = Idle
  /\ \A f \in Snapshots : observed[f] # NoRun => f \in disk
  /\ upload.at = "observation" =>
       /\ upload.file \in disk /\ observed[upload.file] = NoRun
       /\ \A r \in Runs : upload.file \notin removal[r].left
  /\ \A r \in Runs, f \in Snapshots :
       f \in removal[r].left => f \in used /\ observed[f] = NoRun
SnapshotInv == TypeOK /\ ("clear" \notin upsets => SnapshotsKept)

\* A clearing is never forgotten.
LEMMA ClearingsGrow ==
  ASSUME [Next]_vars, "clear" \notin upsets'
  PROVE  "clear" \notin upsets
BY DEF Next, vars, evidenceVars, PutIdentity, SavePicture, SaveSnapshot, SaveFails, ViewAccepted,
       ObservationAccepted, UploadRefused, RemoveReplaced, ClearSelect, ClearPaths, ClearRows,
       ClearLocked, ClearUnlink, ClearEnds, WipeRows, WipeList, WipeUnlink, WipeEnds,
       DeleteCommit, DeleteUnlink, DeleteRecord, Crash, RunsElsewhere, Fault, Clearing

\* One step that is not a clearing takes no observation's snapshot.
LEMMA SnapshotStep ==
  ASSUME TypeOK, SnapshotsKept, "clear" \notin upsets', [Next]_vars
  PROVE  SnapshotsKept'
<1> USE DEF SnapshotsKept, rowVars
<1>1. ASSUME NEW p \in Persons, PutIdentity(p) PROVE SnapshotsKept'
  BY <1>1 DEF PutIdentity
<1>2. ASSUME NEW p \in Persons, NEW v \in Views, NEW f \in Pictures, SavePicture(p, v, f)
      PROVE  SnapshotsKept'
  BY <1>2 DEF SavePicture
<1>3. ASSUME NEW r \in Runs, NEW f \in Snapshots, SaveSnapshot(r, f) PROVE SnapshotsKept'
  <2>1. observed[f] = NoRun
    BY <1>3 DEF SaveSnapshot, TypeOK
  <2> QED BY <1>3, <2>1 DEF SaveSnapshot
<1>4. ASSUME NEW f \in Files, SaveFails(f) PROVE SnapshotsKept'
  <2>1. upload' = upload /\ upload = Idle
    BY <1>4 DEF SaveFails
  <2> QED BY <1>4, <2>1 DEF SaveFails, Idle
<1>5. CASE ViewAccepted
  <2>1. upload'.at \in {"idle", "replaced"}
    BY <1>5 DEF ViewAccepted, Replaces, Idle
  <2> QED BY <1>5, <2>1 DEF ViewAccepted
<1>6. CASE ObservationAccepted
  <2>1. upload.file \in Snapshots /\ upload.file \in disk
    BY <1>6 DEF ObservationAccepted, Idle, TypeOK
  <2>2. \A f \in Snapshots : observed'[f] = IF f = upload.file THEN upload.run ELSE observed[f]
    BY <1>6, <2>1 DEF ObservationAccepted, TypeOK
  <2>3. UNCHANGED <<disk, used, clear, wipe, removal>> /\ upload' = Idle
    BY <1>6 DEF ObservationAccepted
  <2>4. \A r \in Runs : upload.file \notin removal[r].left
    BY <1>6 DEF ObservationAccepted
  <2> QED BY <2>1, <2>2, <2>3, <2>4 DEF Idle
<1>7. CASE UploadRefused \/ RemoveReplaced
  <2>1. upload.file \in Snapshots => observed[upload.file] = NoRun
    BY <1>7, EvidenceAssumption DEF UploadRefused, RemoveReplaced, TypeOK, Idle
  <2>2. disk \ {upload.file} \subseteq disk' /\ upload' = Idle
    BY <1>7 DEF UploadRefused, RemoveReplaced
  <2>3. UNCHANGED <<observed, used, clear, wipe, removal>>
    BY <1>7 DEF UploadRefused, RemoveReplaced
  <2> QED BY <2>1, <2>2, <2>3 DEF Idle
<1>8. \A R : ~ClearSelect(R)
  BY DEF ClearSelect, Clearing
<1>9. ~(ClearPaths \/ ClearRows \/ ClearLocked \/ ClearEnds \/ WipeRows \/ WipeList \/ WipeEnds)
  BY DEF ClearPaths, ClearRows, ClearLocked, ClearEnds, WipeRows, WipeList, WipeEnds,
         Clearing, Idle
<1>10. \A f : ~ClearUnlink(f) /\ ~WipeUnlink(f)
  BY DEF ClearUnlink, WipeUnlink, Idle
<1>11. ASSUME NEW r \in Runs, DeleteCommit(r) PROVE SnapshotsKept'
  <2>1. \A f \in Snapshots : observed'[f] = IF observed[f] = r THEN NoRun ELSE observed[f]
    BY <1>11 DEF DeleteCommit
  <2>2. \A q \in Runs : removal'[q].left = IF q = r THEN FilesOf(r) ELSE removal[q].left
    BY <1>11 DEF DeleteCommit, TypeOK
  <2>3. UNCHANGED <<disk, used, upload, clear, wipe>>
    BY <1>11 DEF DeleteCommit
  <2>4. \A f \in Snapshots : f \in FilesOf(r) => f \in disk /\ observed[f] = r
    BY PathsFacts, EvidenceAssumption DEF FilesOf, IdsOf, TypeOK
  <2>5. upload.at = "observation" => upload.file \in Snapshots
    BY DEF TypeOK, Idle
  <2>6. r # NoRun /\ disk \subseteq used
    BY PolicyAssumption DEF TypeOK
  <2> QED BY <2>1, <2>2, <2>3, <2>4, <2>5, <2>6
<1>12. ASSUME NEW r \in Runs, DeleteRecord(r) PROVE SnapshotsKept'
  <2>1. \A q \in Runs : removal'[q].left \subseteq removal[q].left
    BY <1>12 DEF DeleteRecord, NoRemoval, TypeOK
  <2> QED BY <1>12, <2>1 DEF DeleteRecord
<1>13. ASSUME NEW r \in Runs, NEW f \in Files, DeleteUnlink(r, f) PROVE SnapshotsKept'
  <2>1. \A q \in Runs : removal'[q].left \subseteq removal[q].left
    BY <1>13 DEF DeleteUnlink, TypeOK
  <2>2. disk \ {f} \subseteq disk' /\ f \in removal[r].left
    BY <1>13 DEF DeleteUnlink
  <2>3. UNCHANGED <<observed, used, upload, clear, wipe>>
    BY <1>13 DEF DeleteUnlink
  <2> QED BY <2>1, <2>2, <2>3
<1>14. CASE Crash
  BY <1>14 DEF Crash, NoRemoval, Idle
<1>15. CASE RunsElsewhere \/ UNCHANGED vars
  BY <1>15 DEF RunsElsewhere, vars, evidenceVars
<1> QED
  BY <1>1, <1>2, <1>3, <1>4, <1>5, <1>6, <1>7, <1>8, <1>9, <1>10, <1>11, <1>12, <1>13, <1>14,
     <1>15 DEF Next

\* Until the administrator clears, every observation has its image, through failures and
\* crashes, for any number of runs and snapshots.
THEOREM SnapshotsStay == Spec => []ObservationHasFile
<1>1. Init => SnapshotInv
  BY TypeInit DEF Init, SnapshotInv, SnapshotsKept, NoRemoval, Idle
<1>2. ASSUME SnapshotInv, [Next]_vars PROVE SnapshotInv'
  <2>1. TypeOK'
    BY <1>2, TypeStep DEF SnapshotInv
  <2>2. ASSUME "clear" \notin upsets' PROVE SnapshotsKept'
    BY <1>2, <2>2, ClearingsGrow, SnapshotStep DEF SnapshotInv
  <2> QED BY <2>1, <2>2 DEF SnapshotInv
<1>3. SnapshotInv => ObservationHasFile
  BY DEF SnapshotInv, SnapshotsKept, ObservationHasFile
<1> QED BY <1>1, <1>2, <1>3, PTL DEF Spec
=============================================================================
