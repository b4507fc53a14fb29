---------------------------- MODULE ReidBinding ----------------------------
(***************************************************************************)
(* How AppearanceIdentityMemory (edge_tracker/reid_memory.py) gives the    *)
(* local tracks of the cameras their master identities.                    *)
(*                                                                         *)
(* The camera loop reports the boxes of a frame (observe_tracks) and offers *)
(* a crop of each (assign).  A track without a master collects a burst of  *)
(* crops and queues it; one worker extracts the features WITHOUT the lock, *)
(* then matches, waits, contests or creates under it.  Everything the lock *)
(* protects is the record mem, and an operator below is a method of the    *)
(* class: it takes the memory and returns it changed, for a set of tracks  *)
(* where the code loops.                                                   *)
(*                                                                         *)
(* Frame numbers, clocks, boxes and distances are choices: where the code  *)
(* compares one with a threshold, either answer is possible.  Provisional  *)
(* (negative) groups, audits and semantic slots are not part of it.        *)
(***************************************************************************)
EXTENDS Naturals, FiniteSets, Sequences, Functions

CONSTANTS
  Tracks,      \* (camera, local id) keys
  Cameras,
  CameraOf,    \* [Tracks -> Cameras]
  Pairs,       \* pairs of tracks the cross-camera coordinator may hold, as sets
  Known,       \* number of masters load_database finds
  MaxMasters,  \* bound on the masters ever created
  MaxGen,      \* bound on the generations of all tracks together
  MaxToken,    \* bound on the conflicts ever started
  QueueSize,   \* queue_size of the analyst's task queue
  Overlaps,    \* boxes of one camera may overlap
  Gaps,        \* a track may be away for longer than its TTL, or time run backwards
  Failures     \* feature extraction may fail

ASSUME BindingAssumption ==
  /\ CameraOf \in [Tracks -> Cameras]
  /\ Pairs \subseteq SUBSET Tracks
  /\ {Known, MaxMasters, MaxGen, MaxToken, QueueSize} \subseteq Nat
  /\ Known <= MaxMasters
  /\ {Overlaps, Gaps, Failures} \subseteq BOOLEAN

VARIABLES
  mem,       \* what the lock protects
  queue,     \* _task_queue
  worker,    \* <<>>, or the task whose features are being extracted
  crossWon   \* history: masters a challenger won from an owner in another camera

vars == <<mem, queue, worker, crossWon>>

Of(c) == {t \in Tracks : CameraOf[t] = c}
Peers(t) == Of(CameraOf[t]) \ {t}
Without(f, S) == IF S \cap DOMAIN f = {} THEN f ELSE [x \in DOMAIN f \ S |-> f[x]]  \* dict.pop
Set(f, x, v) == [y \in DOMAIN f \cup {x} |-> IF y = x THEN v ELSE f[y]]

(* pending_intake: handoff is {} or the target master, from {} or the       *)
(* canonical track; deferred names the holds a finished intake waits for.  *)
Intake == [gen : Nat, submitted : BOOLEAN, handoff : SUBSET Nat,
           from : SUBSET Tracks, deferred : SUBSET {"hold", "recovery", "contest"}]
Shadow == [canon : Tracks, id : SUBSET Nat, verified : BOOLEAN]
(* physical_conflicts: `ready` are the candidates with enough clean crops.  *)
Conflict == [token : Nat \ {0}, cands : SUBSET Tracks, ready : SUBSET Tracks,
             submitted : BOOLEAN, challenger : SUBSET Tracks, gen : Nat]
(* A queued burst.  `left` is history: its track has left the picture since. *)
IntakeTask == [type : {"intake"}, track : Tracks, gen : Nat,
               excluded : SUBSET Nat, peers : SUBSET Tracks,
               handoff : SUBSET Nat, from : SUBSET Tracks, left : BOOLEAN]
ConflictTask == [type : {"physical_conflict"}, master : Nat, token : Nat \ {0}]
Task == IntakeTask \cup ConflictTask

Fits(s) == s.token <= MaxToken /\ FoldFunction(+, 0, s.gen) <= MaxGen

Init ==
  /\ mem = [visible |-> {},                            \* visible_track_keys_by_camera
            masters |-> Known,                         \* next_identity_id - 1
            bound |-> <<>>,                            \* track_to_identity
            gen |-> [t \in Tracks |-> 0],              \* track_generations
            tentative |-> <<>>,                        \* metadata tentative_reid_match
            intake |-> <<>>,                           \* pending_intake
            shadow |-> <<>>,                           \* shadow_tracks
            holds |-> [t \in Tracks |-> {}],           \* new_master_holds
            rejected |-> [t \in Tracks |-> {}],        \* physical_conflict_rejections
            conflict |-> <<>>,                         \* physical_conflicts
            recovery |-> <<>>,                         \* ..._recovery_holds: linked conflicts
            token |-> 0]                               \* _next_physical_conflict_token - 1
  /\ queue = <<>>
  /\ worker = <<>>
  /\ crossWon = {}

-----------------------------------------------------------------------------
(* The helpers.                                                             *)

(* An intake of a track of T may be submitted again; `flag` no longer holds it. *)
Rearm(s, T, flag) == IF T = {} THEN s ELSE
  [s EXCEPT !.intake = [t \in DOMAIN s.intake |->
     IF t \in T THEN [s.intake[t] EXCEPT !.submitted = FALSE, !.deferred = @ \ {flag}]
                ELSE s.intake[t]]]

Deferred(s, flag) == {t \in DOMAIN s.intake : flag \in s.intake[t].deferred}

(* _release_physical_conflict_recovery_hold_locked                          *)
ReleaseRecovery(s, T) ==
  LET T0 == T \cap DOMAIN s.recovery
  IN Rearm([s EXCEPT !.recovery = Without(@, T0)], T0 \cap Deferred(s, "recovery"), "recovery")
DropRecovery(s, T) == [s EXCEPT !.recovery = Without(@, T)]        \* rearm_deferred_intake=False

(* _release_recovery_holds_for_conflict_locked                              *)
Linked(s, M) == {t \in DOMAIN s.recovery : s.recovery[t] \cap M # {}}

(* _related_physical_conflict_tokens_locked: a conflict is named by its     *)
(* master, since no hold stays linked to one that has ended.               *)
Related(s, t) ==
  {m \in DOMAIN s.conflict : t \notin s.conflict[m].cands /\ s.conflict[m].cands \cap Peers(t) # {}}

(* _cancel_physical_conflict_locked                                         *)
CancelConflicts(s, M) ==
  LET ended == M \cap DOMAIN s.conflict
      waiting == {t \in DOMAIN s.intake : \E m \in ended :
                    t \in s.conflict[m].challenger /\ s.intake[t].gen = s.conflict[m].gen}
  IN ReleaseRecovery(Rearm([s EXCEPT !.conflict = Without(@, ended)], waiting, "contest"),
                     Linked(s, ended))

ConflictsOf(s, T) == {m \in DOMAIN s.conflict : s.conflict[m].cands \cap T # {}}
NextGeneration(s, T) == [t \in Tracks |-> s.gen[t] + (IF t \in T THEN 1 ELSE 0)]

(* The intake of a track of T is forgotten and its task outdated.           *)
DropIntakes(s, T) ==
  LET T0 == T \cap DOMAIN s.intake
  IN [s EXCEPT !.intake = Without(@, T0), !.tentative = Without(@, T0),
               !.gen = NextGeneration(s, T0)]

(* Seeded fault: the contests of a track that is unbound go on.             *)
ClearBindingsContested(s, T) == IF T = {} THEN s ELSE
  LET s1 == DropRecovery(s, T)
  IN [s1 EXCEPT !.bound = Without(@, T), !.tentative = Without(@, T),
                !.intake = Without(@, T), !.shadow = Without(@, T),
                !.holds = [t \in Tracks |-> IF t \in T THEN {} ELSE s.holds[t]],
                !.gen = NextGeneration(s, T)]

(* _clear_local_binding_locked                                              *)
ClearBindings(s, T) == IF T = {} THEN s ELSE
  LET s1 == CancelConflicts(DropRecovery(s, T), ConflictsOf(s, T))
  IN [s1 EXCEPT !.bound = Without(@, T), !.tentative = Without(@, T),
                !.intake = Without(@, T), !.shadow = Without(@, T),
                !.holds = [t \in Tracks |-> IF t \in T THEN {} ELSE s.holds[t]],
                !.gen = NextGeneration(s, T)]

(* _release_shadow_locked                                                   *)
ReleaseShadows(s, T) == DropIntakes([s EXCEPT !.shadow = Without(@, T)], T)

(* _visible_same_camera_identity_owners_locked, excluding t                 *)
VisibleOwners(s, m, t) ==
  {u \in Peers(t) \cap s.visible \cap DOMAIN s.bound : s.bound[u] = m}

(* _clear_nonvisible_same_camera_owners_locked, preserving t                *)
ClearNonvisibleOwners(s, m, t) ==
  ClearBindings(s, {u \in Peers(t) \cap DOMAIN s.bound : s.bound[u] = m /\ u \notin s.visible})

(* _same_camera_active_ids_locked                                           *)
ActiveIds(s, c) == {s.bound[u] : u \in Of(c) \cap s.visible \cap DOMAIN s.bound}

(* Seeded fault: a task is current for whatever burst its track collects.   *)
IsCurrentForAny(s, t, gen) ==
  /\ t \in DOMAIN s.intake
  /\ s.intake[t].submitted
  /\ t \in s.visible

(* _intake_task_is_current_locked                                           *)
IsCurrent(s, t, gen) ==
  /\ t \in DOMAIN s.intake
  /\ s.intake[t].submitted
  /\ s.intake[t].gen = gen
  /\ t \in s.visible

(* _promote_verified_shadow_locked, with no visible owner                   *)
Promote(s, t, m) ==
  LET s1 == ClearNonvisibleOwners(s, m, t)
  IN [s1 EXCEPT !.bound = Set(@, t, m), !.tentative = Without(@, {t}),
                !.intake = Without(@, {t}), !.shadow = Without(@, {t})]

(* _refresh_physical_conflict_recovery_hold_locked.  `keep`: the hold has   *)
(* not expired, and a conflict is linked or the grace period still runs.   *)
Refresh(s, t, keep) ==
  IF t \notin DOMAIN s.recovery THEN s
  ELSE IF t \in DOMAIN s.bound THEN DropRecovery(s, {t})
  ELSE IF keep THEN [s EXCEPT !.recovery[t] = @ \cup Related(s, t)]
  ELSE ReleaseRecovery(s, {t})

-----------------------------------------------------------------------------
(* observe_tracks: the frame of camera c shows the tracks `keys`.           *)

(* Tracks that left the picture.                                            *)
Vanish(s, gone) == IF gone = {} THEN s ELSE
  LET s1 == [s EXCEPT !.rejected = [t \in Tracks |-> IF t \in gone THEN {} ELSE @[t]]]
      s2 == CancelConflicts(s1, ConflictsOf(s1, gone))
      s3 == DropIntakes(DropRecovery(s2, gone), gone)
  IN [s3 EXCEPT !.shadow = Without(@, gone)]

ShadowsIn(s, keys) == {k \in keys : k \in DOMAIN s.shadow}
MappedTo(s, t) == IF t \in DOMAIN s.bound THEN {s.bound[t]} ELSE {}

(* Why a shadow is let go; `rel` are those let go in this frame, because a  *)
(* canonical track whose intake was cancelled takes its shadows along.     *)
MustRelease(s, k, keys, rel) ==
  LET sh == s.shadow[k]
      mapped == MappedTo(s, sh.canon)
  IN IF mapped # {} THEN sh.id # {} /\ sh.id # mapped
     ELSE IF sh.id = {} THEN sh.canon \notin (keys \cap DOMAIN s.intake) \ rel
     ELSE ~sh.verified

Released(s, keys, apart, rel) ==
  {k \in ShadowsIn(s, keys) :
     \/ MustRelease(s, k, keys, rel)
     \/ k \in apart}

(* A surviving shadow learns the master its canonical track has got.        *)
FollowCanonical(s, T) == IF T \cap DOMAIN s.shadow = {} THEN s ELSE
  [s EXCEPT !.shadow = [k \in DOMAIN s.shadow |->
     IF k \in T /\ MappedTo(s, s.shadow[k].canon) # {}
       THEN [s.shadow[k] EXCEPT !.id = MappedTo(s, s.shadow[k].canon)]
       ELSE s.shadow[k]]]

(* The tracks a newcomer may be a duplicate of, and the newcomers.          *)
Canonicals(s, keys) ==
  {k \in keys : Overlaps /\ (k \in DOMAIN s.bound \/ k \in s.visible \cap DOMAIN s.intake)}
Newcomers(s, keys) ==
  keys \ (s.visible \cup DOMAIN s.bound \cup DOMAIN s.intake \cup DOMAIN s.shadow)

Nominate(s, over) ==
  [s EXCEPT !.shadow = [k \in DOMAIN s.shadow \cup DOMAIN over |->
     IF k \in DOMAIN over
       THEN [canon |-> over[k], id |-> MappedTo(s, over[k]), verified |-> FALSE]
       ELSE s.shadow[k]]]

(* The tracks of which there is something to clear.                         *)
Remembered(s) ==
  DOMAIN s.bound \cup DOMAIN s.intake \cup DOMAIN s.shadow \cup DOMAIN s.recovery
    \cup {t \in Tracks : s.holds[t] # {}}

(* The frame is recorded, and overdue bindings are cleared.                 *)
Observed(c, keys, s) ==
  LET s1 == [s EXCEPT !.visible = (@ \ Of(c)) \cup keys]
      Overdue(T) == IF Gaps THEN SUBSET T ELSE {{}}
  IN \E expired \in Overdue(keys \cap Remembered(s)) :
       \E abandoned \in Overdue((Of(c) \ keys) \cap DOMAIN s1.bound) :
         mem' = ClearBindings(s1, expired \cup abandoned)

(* History: the tracks of these tasks have left the picture.                *)
Left(tasks, gone) ==
  [i \in DOMAIN tasks |->
     IF tasks[i].type = "intake" /\ tasks[i].track \in gone
       THEN [tasks[i] EXCEPT !.left = TRUE] ELSE tasks[i]]

(* `apart`: shadows seen apart from their canonical for long enough;        *)
(* `over`: which newcomer overlaps which canonical track the most;         *)
(* `expired`: tracks whose frame gap exceeds the TTL (or ran backwards);   *)
(* `abandoned`: bound tracks that have been away for track_abandon_frames. *)
Observe(c) ==
  /\ \E keys \in SUBSET Of(c) :
       LET gone == (mem.visible \cap Of(c)) \ keys
           s1 == Vanish(mem, gone)
       IN /\ queue' = Left(queue, gone)
          /\ worker' = Left(worker, gone)
          /\ \E apart \in SUBSET {k \in ShadowsIn(s1, keys) : s1.shadow[k].canon \in keys},
                rel \in SUBSET ShadowsIn(s1, keys) :
               /\ rel = Released(s1, keys, apart, rel)
               /\ LET s2 == ReleaseShadows(FollowCanonical(s1, ShadowsIn(s1, keys)), rel)
                  IN \E new \in SUBSET Newcomers(s2, keys) :
                       \E over \in [new -> Canonicals(s2, keys)] :
                         Observed(c, keys, Nominate(s2, over))
  /\ Fits(mem')
  /\ UNCHANGED crossWon

-----------------------------------------------------------------------------
(* assign: the crop of track t.                                             *)

(* _queue_task_locked: Submit is what the caller does when there is room.   *)
HasRoom == Len(queue) < QueueSize

(* _collect_intake_crop_locked.  `full`: this crop passes every gate, the   *)
(* burst is complete and its retry frame has come.                         *)
NewIntake(s, t, handoff, from) ==
  [s EXCEPT !.gen[t] = @ + 1,
            !.intake = Set(@, t, [gen |-> s.gen[t] + 1, submitted |-> FALSE,
                                  handoff |-> handoff, from |-> from, deferred |-> {}])]

(* Seeded fault: the masters the track has lost are not left alone.         *)
BurstForgetful(s, t) ==
  [type |-> "intake", track |-> t, gen |-> s.intake[t].gen,
   excluded |-> ActiveIds(mem, CameraOf[t]),
   peers |-> Peers(t) \cap s.visible,
   handoff |-> s.intake[t].handoff, from |-> s.intake[t].from, left |-> FALSE]

(* The caller leaves alone the masters it saw in the camera in this frame.  *)
Burst(s, t) ==
  [type |-> "intake", track |-> t, gen |-> s.intake[t].gen,
   excluded |-> ActiveIds(mem, CameraOf[t]) \cup s.rejected[t],
   peers |-> Peers(t) \cap s.visible,
   handoff |-> s.intake[t].handoff, from |-> s.intake[t].from, left |-> FALSE]

CollectIntake(s0, t, handoff, from) ==
  LET s == IF t \in DOMAIN s0.intake THEN s0 ELSE NewIntake(s0, t, handoff, from)
  IN \/ /\ mem' = s
        /\ UNCHANGED queue
     \/ /\ ~s.intake[t].submitted
        /\ HasRoom
        /\ mem' = [s EXCEPT !.intake[t].submitted = TRUE]
        /\ queue' = Append(queue, Burst(s, t))

(* _physical_match_allowed_locked for a binding that already stands.        *)
OwnersElsewhere(s, m, t) ==
  {u \in DOMAIN s.bound : s.bound[u] = m /\ CameraOf[u] # CameraOf[t]}

PositionAgrees(s, m, t) ==
  IF m \in DOMAIN s.conflict /\ s.conflict[m].challenger = {} /\ t \in s.conflict[m].cands
    THEN CancelConflicts(s, {m})                               \* "locations_recovered"
    ELSE s

(* _start_physical_conflict_locked                                          *)
LinkHolds(s, m, T) ==
  [s EXCEPT !.recovery = [t \in DOMAIN s.recovery |->
     IF t \notin T /\ \E u \in T : CameraOf[u] = CameraOf[t]
       THEN s.recovery[t] \cup {m} ELSE s.recovery[t]]]

StartLocationConflict(s, m, t, other) ==
  LET T == {t, other}
  IN LinkHolds([s EXCEPT !.token = @ + 1,
                         !.conflict = Set(@, m, [token |-> s.token + 1, cands |-> T,
                            ready |-> {}, submitted |-> FALSE, challenger |-> {}, gen |-> 0])],
               m, T)

(* _collect_physical_conflict_sample_locked: a clean crop of a candidate.   *)
CollectSample(s, m, t) ==
  \/ /\ mem' = s
     /\ UNCHANGED queue
  \/ /\ m \in DOMAIN s.conflict
     /\ t \in s.conflict[m].cands
     /\ ~s.conflict[m].submitted
     /\ LET ready == s.conflict[m].ready \cup {t}
            full == ready = s.conflict[m].cands /\ HasRoom
        IN /\ mem' = [s EXCEPT !.conflict[m].ready = ready, !.conflict[m].submitted = full]
           /\ queue' = IF full
                         THEN Append(queue, [type |-> "physical_conflict", master |-> m,
                                             token |-> s.conflict[m].token])
                         ELSE queue

(* _resolve_bound_identity_locked and _service_bound_master_locked: the     *)
(* position of the track agrees with the other cameras, cannot be compared, *)
(* or is too far from an owner elsewhere.                                  *)
ServiceBound(s, t, handoff, from) ==
  LET m == s.bound[t]
  IN \/ CollectSample(s, m, t)
     \/ /\ OwnersElsewhere(s, m, t) # {}
        /\ CollectSample(PositionAgrees(s, m, t), m, t)
     \/ \E other \in OwnersElsewhere(s, m, t) :
          IF m \notin DOMAIN s.conflict
            THEN CollectSample(StartLocationConflict(s, m, t, other), m, t)
            ELSE /\ ~({t, other} \subseteq s.conflict[m].cands)
                 /\ CollectIntake(ClearBindings(s, {t}), t, handoff, from)  \* revoked

(* Housekeeping, and what the shadow entry of the track has become.         *)
Arrive(s, t, reset, keep) ==
  LET s1 == Refresh(IF reset THEN ClearBindings(s, {t}) ELSE s, t, keep)
  IN IF t \in DOMAIN s1.shadow /\ MustRelease(s1, t, s1.visible, {})
       THEN ReleaseShadows(s1, {t})
       ELSE FollowCanonical(s1, {t})

IsVerified(s, t) == t \in DOMAIN s.shadow /\ s.shadow[t].verified
CanonicalVisible(s, t) == s.shadow[t].canon \in s.visible

(* The track stays hidden behind its canonical track in this frame: that    *)
(* one's own intake decides first, the probation has not passed, or the     *)
(* verified master still has a visible owner.                              *)
StaysHidden(s, t) ==
  /\ t \in DOMAIN s.shadow
  /\ \/ s.shadow[t].id = {}
     \/ CanonicalVisible(s, t)
     \/ IsVerified(s, t) /\ \E m \in s.shadow[t].id : VisibleOwners(s, m, t) # {}
MayProceed(s, t) ==
  \/ t \notin DOMAIN s.shadow
  \/ t \in DOMAIN s.shadow /\ ~s.shadow[t].verified /\ s.shadow[t].id # {}

(* The master of the shadow entry, and the canonical track.                 *)
Target(s, t) == IF t \in DOMAIN s.shadow THEN s.shadow[t].id ELSE {}
CanonicalOf(s, t) == IF t \in DOMAIN s.shadow THEN {s.shadow[t].canon} ELSE {}

Serve(s, t, handoff, from) ==
  IF t \in DOMAIN s.bound THEN ServiceBound(s, t, handoff, from)
                          ELSE CollectIntake(s, t, handoff, from)

AssignHidden(t, s) ==
  /\ StaysHidden(s, t)
  /\ mem' = s
  /\ UNCHANGED queue

AssignServed(t, s) ==
  /\ MayProceed(s, t)
  /\ Serve(s, t, Target(s, t), CanonicalOf(s, t))

AssignPromoted(t, s) ==
  /\ IsVerified(s, t)
  /\ ~CanonicalVisible(s, t)
  /\ \E m \in s.shadow[t].id :
       /\ VisibleOwners(s, m, t) = {}
       /\ Serve(Promote(s, t, m), t, {m}, CanonicalOf(s, t))

Assign(t) ==
  /\ t \in mem.visible
  /\ \E reset, keep \in BOOLEAN :
       /\ reset => Gaps /\ t \in Remembered(mem)
       /\ keep => t \in DOMAIN mem.recovery
       /\ LET s == Arrive(mem, t, reset, keep)
          IN AssignHidden(t, s) \/ AssignServed(t, s) \/ AssignPromoted(t, s)
  /\ Fits(mem')
  /\ UNCHANGED <<worker, crossWon>>

(* hold_new_master_creation and release_new_master_hold, by the coordinator. *)
HoldPair(pair) ==
  /\ mem' = [mem EXCEPT !.holds = [t \in Tracks |->
       IF t \in pair \ DOMAIN mem.bound THEN @[t] \cup {pair} ELSE @[t]]]
  /\ UNCHANGED <<queue, worker, crossWon>>

(* Seeded fault: the intake the hold put off is not armed again.            *)
ReleasePairOnly(pair) ==
  /\ mem' = [mem EXCEPT !.holds = [t \in Tracks |-> @[t] \ (IF t \in pair THEN {pair} ELSE {})]]
  /\ UNCHANGED <<queue, worker, crossWon>>

ReleasePair(pair) ==
  LET s == [mem EXCEPT !.holds = [t \in Tracks |-> @[t] \ (IF t \in pair THEN {pair} ELSE {})]]
  IN /\ mem' = Rearm(s, {t \in pair \cap Deferred(s, "hold") : s.holds[t] = {}}, "hold")
     /\ UNCHANGED <<queue, worker, crossWon>>

-----------------------------------------------------------------------------
(* The analyst thread (_worker_loop): take a task, extract its features     *)
(* without the lock, then act on what the lock protects by then.           *)
Take ==
  /\ worker = <<>>
  /\ queue # <<>>
  /\ queue' = Tail(queue)
  /\ LET task == Head(queue)
         outdated == task.type = "intake" /\ ~IsCurrent(mem, task.track, task.gen)
     IN worker' = IF outdated THEN <<>> ELSE <<task>>
  /\ UNCHANGED <<mem, crossWon>>

Resubmittable(s, m) ==
  [s EXCEPT !.conflict[m].submitted = FALSE, !.conflict[m].ready = s.conflict[m].challenger]

(* Seeded fault: the intake of a task that failed stays submitted.          *)
FailSubmitted ==
  /\ Failures
  /\ worker # <<>>
  /\ worker' = <<>>
  /\ UNCHANGED <<mem, queue, crossWon>>

(* An exception while the features are extracted.                           *)
Fail ==
  /\ Failures
  /\ worker # <<>>
  /\ worker' = <<>>
  /\ LET task == worker[1]
     IN \/ /\ task.type = "intake"
           /\ mem' = IF task.track \in DOMAIN mem.intake
                           /\ mem.intake[task.track].gen = task.gen
                       THEN [mem EXCEPT !.gen[task.track] = @ + 1,
                                        !.intake[task.track].submitted = FALSE,
                                        !.intake[task.track].gen = mem.gen[task.track] + 1]
                       ELSE mem
        \/ /\ task.type = "physical_conflict"
           /\ mem' = IF task.master \in DOMAIN mem.conflict
                           /\ mem.conflict[task.master].token = task.token
                       THEN Resubmittable(mem, task.master)
                       ELSE mem
  /\ Fits(mem')
  /\ UNCHANGED <<queue, crossWon>>

(* _process_intake_task under the lock.  `look` is how close the burst is   *)
(* to each master: a strong match, within the threshold only, or no match. *)
Looks == [1..mem.masters -> {"strong", "near", "far"}]
Best(look, M) ==
  LET strong == {m \in M : look[m] = "strong"}
  IN IF strong # {} THEN strong ELSE {m \in M : look[m] = "near"}

HandoffGone(s, task) ==
  /\ task.handoff # {}
  /\ ~(/\ task.track \in DOMAIN s.shadow
       /\ s.shadow[task.track].id = task.handoff
       /\ {s.shadow[task.track].canon} = task.from)

Discard(task) ==
  /\ ~IsCurrent(mem, task.track, task.gen) \/ HandoffGone(mem, task)
  /\ UNCHANGED <<mem, crossWon>>

(* The overlapping box is the same person while the owner is still visible. *)
VerifyDuplicate(task, look) ==
  LET t == task.track
  IN \E m \in task.handoff :
       /\ look[m] # "far"
       /\ \E owner \in VisibleOwners(mem, m, t) :
            mem' = DropIntakes([mem EXCEPT !.shadow[t] =
                     [canon |-> owner, id |-> {m}, verified |-> TRUE]], {t})

(* The end of the method: the track gets its master.                        *)
Bind(s, t, m) ==
  LET s1 == DropRecovery(s, {t})
  IN [s1 EXCEPT !.bound = Set(@, t, m), !.rejected[t] = {},
                !.tentative = Without(@, {t}), !.intake = Without(@, {t}),
                !.shadow = Without(@, {t})]

(* _borderline_match_needs_retry_locked: a match that is not strong is made *)
(* only when a second burst finds the same master.                          *)
Confirmed(s, t, m, look) ==
  look[m] = "strong" \/ (t \in DOMAIN s.tentative /\ s.tentative[t] = m)
Retry(s, t, m) ==
  [s EXCEPT !.tentative = Set(@, t, m), !.gen[t] = @ + 1,
            !.intake[t].submitted = FALSE, !.intake[t].gen = s.gen[t] + 1]

(* Seeded fault: earlier aliases of the master keep it.                     *)
MatchBeside(s, t, m, look) ==
  mem' = IF Confirmed(s, t, m, look) THEN Bind(s, t, m) ELSE Retry(s, t, m)

(* Earlier aliases of the master in this camera are retired first.          *)
Match(s, t, m, look) ==
  LET s1 == ClearNonvisibleOwners(s, m, t)
  IN mem' = IF Confirmed(s1, t, m, look) THEN Bind(s1, t, m) ELSE Retry(s1, t, m)

FollowHandoff(task, look) ==
  \E m \in task.handoff :
    /\ look[m] # "far"
    /\ VisibleOwners(mem, m, task.track) = {}
    /\ Match(mem, task.track, m, look)

(* What an ordinary match may not take: a master of a visible track of the  *)
(* camera, one the task was told to leave alone, the vetoed handoff.       *)
Excluded(s, task) ==
  LET t == task.track
  IN task.excluded \cup task.handoff
       \cup {s.bound[u] : u \in ((Peers(t) \cap s.visible) \cup task.peers) \cap DOMAIN s.bound}

Vetoed(task, look) == \A m \in task.handoff : look[m] = "far"
AfterVeto(task) ==
  IF task.handoff = {} THEN mem
  ELSE [mem EXCEPT !.shadow = Without(@, {task.track})]

(* Masters that match, and whose position does not forbid it (`away`).      *)
Eligible(task, look, away) ==
  {m \in 1..mem.masters : look[m] # "far"} \ (away \cup Excluded(mem, task))

MatchOrdinary(task, look, away) ==
  \E m \in Best(look, Eligible(task, look, away)) :
    Match(AfterVeto(task), task.track, m, look)

-----------------------------------------------------------------------------
(* Nothing eligible matched.                                                *)

(* Seeded fault: a contest does not advance the token.                      *)
StartClaimUntokened(s, t, m, incumbent) ==
  LET s1 == CancelConflicts(s, {m})
  IN [s1 EXCEPT !.conflict = Set(@, m, [token |-> s.token, cands |-> {t, incumbent},
                   ready |-> {t}, submitted |-> FALSE, challenger |-> {t},
                   gen |-> s.intake[t].gen]),
                !.intake[t].deferred = @ \cup {"contest"}]

(* _start_contested_identity_claim_locked.  A location conflict is          *)
(* superseded when it has stalled; boxes of one camera must be apart.      *)
Claimable(s, t, m, incumbent, look) ==
  /\ look[m] = "strong"
  /\ t \notin DOMAIN s.bound
  /\ incumbent \in DOMAIN s.bound \ {t}
  /\ s.bound[incumbent] = m
  /\ incumbent \in s.visible
  /\ m \in DOMAIN s.conflict =>
       s.conflict[m].challenger = {} /\ s.conflict[m].ready # s.conflict[m].cands

StartClaim(s, t, m, incumbent) ==
  LET s1 == CancelConflicts(s, {m})
  IN [s1 EXCEPT !.token = @ + 1,
                !.conflict = Set(@, m, [token |-> s.token + 1, cands |-> {t, incumbent},
                   ready |-> {t}, submitted |-> FALSE, challenger |-> {t},
                   gen |-> s.intake[t].gen]),
                !.intake[t].deferred = @ \cup {"contest"}]

(* The strongest master its position forbids, worn by a track elsewhere.    *)
ClaimFarMaster(task, look, away) ==
  \E m \in Best(look, away \ Excluded(mem, task)) :
    \E incumbent \in OwnersElsewhere(mem, m, task.track) :
      /\ Claimable(mem, task.track, m, incumbent, look)
      /\ mem' = StartClaim(AfterVeto(task), task.track, m, incumbent)

(* _contest_owner_blocked_master_locked: one its single owner in this       *)
(* camera kept from the search, unless the track has lost it before.       *)
ClaimBlockedMaster(task, look) ==
  \E m \in (Excluded(mem, task) \cap 1..mem.masters) \ mem.rejected[task.track] :
    \E incumbent \in VisibleOwners(mem, m, task.track) :
      /\ VisibleOwners(mem, m, task.track) = {incumbent}
      /\ Claimable(mem, task.track, m, incumbent, look)
      /\ mem' = StartClaim(AfterVeto(task), task.track, m, incumbent)

Defer(s, t, flag) == [s EXCEPT !.intake[t].deferred = @ \cup {flag}]

(* The recovery hold of a lost contest, then the coordinator's hold, delay  *)
(* a new master; otherwise it is created.                                  *)
WaitOrCreate(task) ==
  LET t == task.track
      s == AfterVeto(task)
      released == Refresh(s, t, FALSE)
      next == s.masters + 1
  IN \/ t \in DOMAIN s.recovery /\ mem' = Defer(Refresh(s, t, TRUE), t, "recovery")
     \/ s.holds[t] # {} /\ mem' = Defer(released, t, "hold")
     \/ /\ s.holds[t] = {}
        /\ next <= MaxMasters
        /\ mem' = Bind([released EXCEPT !.masters = next], t, next)

(* A contest is always tried first; whether the boxes are apart and the     *)
(* conflict in the way has stalled is a choice, so it may be refused.      *)
Unmatched(task, look, away) ==
  /\ Eligible(task, look, away) = {}
  /\ \/ ClaimFarMaster(task, look, away)
     \/ ClaimBlockedMaster(task, look)
     \/ WaitOrCreate(task)

Analyse ==
  /\ worker # <<>>
  /\ worker[1].type = "intake"
  /\ worker' = <<>>
  /\ LET task == worker[1]
     IN \/ Discard(task)
        \/ /\ IsCurrent(mem, task.track, task.gen)
           /\ ~HandoffGone(mem, task)
           /\ \E look \in Looks :
                \/ VerifyDuplicate(task, look)
                \/ FollowHandoff(task, look)
                \/ /\ Vetoed(task, look)
                   /\ \E away \in SUBSET {m \in 1..mem.masters :
                            OwnersElsewhere(mem, m, task.track) # {} /\ look[m] # "far"} :
                        \/ MatchOrdinary(task, look, away)
                        \/ Unmatched(task, look, away)
  /\ Fits(mem')
  /\ UNCHANGED <<queue, crossWon>>

-----------------------------------------------------------------------------
(* _process_physical_conflict_task under the lock.                          *)

(* The candidates still are who they were when the contest began.           *)
StillContested(s, m) ==
  LET c == s.conflict[m]
  IN /\ \A t \in c.challenger : t \notin DOMAIN s.bound /\ IsCurrent(s, t, c.gen)
     /\ \A t \in c.cands \ c.challenger : t \in DOMAIN s.bound /\ s.bound[t] = m

(* A challenger that lost resumes its intake; any other loser is unbound    *)
(* and held back from a new master.  It may be matched again only if it    *)
(* did not challenge and still looks like the master.                      *)
LoserLeaves(s, m, loser, c, stillMatches) ==
  LET barred == loser \in c.challenger \/ ~stillMatches
      s1 == IF loser \in c.challenger
              THEN Rearm(s, {t \in {loser} \cap DOMAIN s.intake : s.intake[t].gen = c.gen}, "contest")
              ELSE ClearBindings(s, {loser})
      s2 == [s1 EXCEPT !.rejected[loser] = IF barred THEN @ \cup {m} ELSE @]
  IN IF loser \in c.challenger THEN s2
     ELSE [s2 EXCEPT !.recovery = Set(@, loser, Related(s2, loser))]

WinnerTakes(s, m, winner, c) ==
  IF winner \notin c.challenger THEN s
  ELSE LET s1 == ClearNonvisibleOwners(s, m, winner)
       IN [s1 EXCEPT !.bound = Set(@, winner, m), !.rejected[winner] = {},
                     !.intake = Without(@, {winner}), !.shadow = Without(@, {winner})]

Resolve(s, m, winner, loser, stillMatches) ==
  LET c == s.conflict[m]
      s1 == LoserLeaves([s EXCEPT !.conflict = Without(@, {m})], m, loser, c, stillMatches)
  IN WinnerTakes(ReleaseRecovery(s1, Linked(s1, {m})), m, winner, c)

Arbitrate ==
  /\ worker # <<>>
  /\ worker[1].type = "physical_conflict"
  /\ worker' = <<>>
  /\ LET m == worker[1].master
     IN IF m \notin DOMAIN mem.conflict \/ mem.conflict[m].token # worker[1].token
          THEN UNCHANGED <<mem, crossWon>>
        ELSE IF ~StillContested(mem, m)
          THEN mem' = CancelConflicts(mem, {m}) /\ UNCHANGED crossWon
        ELSE \/ mem' = Resubmittable(mem, m) /\ UNCHANGED crossWon       \* inconclusive
             \/ \E winner \in mem.conflict[m].cands, loser \in mem.conflict[m].cands, stillMatches \in BOOLEAN :
                  /\ winner # loser
                  /\ mem' = Resolve(mem, m, winner, loser, stillMatches)
                  /\ crossWon' = IF /\ winner \in mem.conflict[m].challenger
                                    /\ CameraOf[winner] # CameraOf[loser]
                                   THEN crossWon \cup {m} ELSE crossWon
  /\ Fits(mem')
  /\ UNCHANGED queue

Next ==
  \/ \E c \in Cameras : Observe(c)
  \/ \E t \in Tracks : Assign(t)
  \/ \E pair \in Pairs : HoldPair(pair) \/ ReleasePair(pair)
  \/ Take
  \/ Fail
  \/ Analyse
  \/ Arbitrate

Spec == Init /\ [][Next]_vars

-----------------------------------------------------------------------------
IsDict(f, D, R) == DOMAIN f \subseteq D /\ \A x \in DOMAIN f : f[x] \in R

(* The type invariant.                                                      *)
TypeOK ==
  /\ mem.visible \subseteq Tracks
  /\ mem.masters \in Nat
  /\ mem.gen \in [Tracks -> Nat]
  /\ mem.holds \in [Tracks -> SUBSET Pairs]
  /\ mem.rejected \in [Tracks -> SUBSET Nat]
  /\ mem.token \in Nat
  /\ IsDict(mem.bound, Tracks, Nat)
  /\ IsDict(mem.tentative, Tracks, Nat)
  /\ IsDict(mem.intake, Tracks, Intake)
  /\ IsDict(mem.shadow, Tracks, Shadow)
  /\ IsDict(mem.recovery, Tracks, SUBSET Nat)
  /\ IsDict(mem.conflict, Nat, Conflict)
  /\ queue \in Seq(Task)
  /\ worker \in Seq(Task) /\ Len(worker) <= 1
  /\ crossWon \subseteq Nat

(* A track that has a master is neither collecting crops for one nor a      *)
(* shadow: however it got it, its earlier roles ended in the same step.    *)
OneRole ==
  \A t \in DOMAIN mem.bound :
    t \notin DOMAIN mem.intake \cup DOMAIN mem.shadow

(* A master has one local owner per camera, in view or not, unless a        *)
(* challenger won it from an owner in another camera, and its owners have   *)
(* no other role.  "Preserve the single-owner invariant"                    *)
(* (reid_memory.py:5319-5320).                                              *)
OneOwner ==
  /\ OneRole
  /\ \A t, u \in DOMAIN mem.bound :
       CameraOf[t] = CameraOf[u] /\ mem.bound[t] = mem.bound[u] =>
         t = u \/ mem.bound[t] \in crossWon

(* The candidates of a contest are the owners of the master and at most one *)
(* challenger, whose finished intake waits for the verdict, and no loser is *)
(* held for a contest that has ended.                                       *)
ContestIsLive ==
  /\ \A t \in DOMAIN mem.recovery : mem.recovery[t] \subseteq DOMAIN mem.conflict
  /\ \A m \in DOMAIN mem.conflict :
    LET c == mem.conflict[m]
    IN /\ Cardinality(c.cands) = 2
       /\ c.challenger \subseteq c.ready /\ c.ready \subseteq c.cands
       /\ \A t \in c.cands \ c.challenger : t \in DOMAIN mem.bound /\ mem.bound[t] = m
       /\ \A t \in c.challenger :
            /\ t \in DOMAIN mem.intake /\ mem.intake[t].gen = c.gen
            /\ mem.intake[t].submitted /\ "contest" \in mem.intake[t].deferred

TaskOf(t) == {task \in {queue[i] : i \in DOMAIN queue} \cup {worker[i] : i \in DOMAIN worker} :
                task.type = "intake" /\ task.track = t /\ task.gen = mem.intake[t].gen}

(* Something will answer the submitted intake of t: its task, or the hold   *)
(* or contest that put it off.                                             *)
Answered(t) ==
  \/ TaskOf(t) # {}
  \/ "hold" \in mem.intake[t].deferred /\ mem.holds[t] # {}
  \/ "recovery" \in mem.intake[t].deferred /\ t \in DOMAIN mem.recovery
  \/ \E m \in DOMAIN mem.conflict :
       t \in mem.conflict[m].challenger /\ mem.conflict[m].gen = mem.intake[t].gen

(* No submitted intake is forgotten (release_new_master_hold: "re-arm any   *)
(* completed deferred intake"), unless its handoff has lost its shadow.    *)
OrdinaryIntakeAnswered ==
  \A t \in DOMAIN mem.intake :
    mem.intake[t].submitted /\ (mem.intake[t].handoff = {} \/ t \in DOMAIN mem.shadow) => Answered(t)

(* The step gives t a master it did not have.                               *)
Gained(t) == t \in DOMAIN mem'.bound /\ (t \notin DOMAIN mem.bound \/ mem'.bound[t] # mem.bound[t])

(* Only a track in view gains a master, and never from crops taken before   *)
(* it last left the picture: its local id may be another person's by then.  *)
BindsWhatIsSeen ==
  [][\A t \in Tracks : Gained(t) =>
       /\ t \in mem'.visible
       /\ worker # <<>> /\ worker' = <<>> /\ worker[1].type = "intake" => ~worker[1].left]_vars

(* A track does not get back a master it was barred from.                   *)
LosersStayOut ==
  [][\A t \in Tracks : Gained(t) => mem'.bound[t] \notin mem.rejected[t]]_vars
=============================================================================
