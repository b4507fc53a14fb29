-------------------------- MODULE ReidProvisional --------------------------
(***************************************************************************)
(* The provisional groups of AppearanceIdentityMemory                      *)
(* (edge_tracker/reid_memory.py): tracks of two cameras that stand at one  *)
(* place share a negative identity until appearance or a long enough stay  *)
(* numbers it (promotion), or appearance finds the master it belongs to    *)
(* (merge).  A track paired with one that has a master becomes a pending   *)
(* member of that master and has to be confirmed.                          *)
(*                                                                         *)
(* The pairs come from CrossCameraProvisional, which extends this module.  *)
(* Everything the lock protects is the record mem; an operator below is a   *)
(* method of the class.  A method with several outcomes is the SET of them. *)
(*                                                                         *)
(* Distances, positions, clocks and crop quality are choices.  Shadows,    *)
(* contests about a location and the recovery hold of a lost contest are   *)
(* in ReidBinding; semantic crops of numbered tracks only add pictures.    *)
(***************************************************************************)
EXTENDS Integers, FiniteSets, Sequences, Functions

CONSTANTS
  Tracks,      \* (camera, local id) keys
  Cameras,
  CameraOf,    \* [Tracks -> Cameras]
  Known,       \* number of masters load_database finds
  MaxMasters,  \* bound on the masters ever created
  MaxGroups,   \* bound on the temporary groups in use
  MaxGen,      \* bound on the generations of all tracks together
  QueueSize,   \* queue_size of the analyst's task queue
  Rounds,      \* identity_audit_rounds, 0 when audits are off
  Contests,    \* an intake may contest the master of a visible track
  Gaps         \* a track may be away for longer than its TTL

ASSUME ProvisionalAssumption ==
  /\ CameraOf \in [Tracks -> Cameras]
  /\ {Known, MaxMasters, MaxGroups, MaxGen, QueueSize, Rounds} \subseteq Nat
  /\ Known <= MaxMasters
  /\ {Contests, Gaps} \subseteq BOOLEAN

VARIABLES
  mem,       \* what the lock protects
  queue,     \* _task_queue
  worker,    \* <<>>, or the task in hand and where it stands
  slipped    \* history: tracks the ordinary path numbered although they were bound

memVars == <<mem, queue, worker, slipped>>

Masters == 1..MaxMasters
Groups == (-MaxGroups)..(-1)
Pairs == {{t, u} : t \in Tracks, u \in Tracks} \cap {p \in SUBSET Tracks :
            Cardinality({CameraOf[t] : t \in p}) = 2}
Of(c) == {t \in Tracks : CameraOf[t] = c}
Peers(t) == Of(CameraOf[t]) \ {t}
Without(f, S) == IF S \cap DOMAIN f = {} THEN f ELSE [x \in DOMAIN f \ S |-> f[x]]  \* dict.pop
Set(f, x, v) == [y \in DOMAIN f \cup {x} |-> IF y = x THEN v ELSE f[y]]

(* An identity.  doubted, refused, checked: challenged_member_keys,          *)
(* appearance_rejected_member_keys, global_reid_checked_track_keys; shots   *)
(* and views: the cameras of camera_baselines and camera_views; home: that  *)
(* of the gallery's baseline; blocked: merge_blocked_by_master; revoked:    *)
(* the tracks of split_recovery, empty when there is none.                  *)
Record == [state : {"provisional", "challenged", "confirmed"}, managed : BOOLEAN,
           members : SUBSET Tracks, pending : SUBSET Tracks, doubted : SUBSET Tracks,
           refused : SUBSET Tracks, checked : SUBSET Tracks,
           shots : SUBSET Cameras, views : SUBSET Cameras, home : SUBSET Cameras,
           blocked : SUBSET Masters, revoked : SUBSET Tracks]

(* _new_record                                                              *)
NewRecord(state, home) ==
  [state |-> state, managed |-> state # "confirmed", members |-> {}, pending |-> {},
   doubted |-> {}, refused |-> {}, checked |-> {}, shots |-> {}, views |-> {},
   home |-> home, blocked |-> {}, revoked |-> {}]

Intake == [gen : Nat, submitted : BOOLEAN, why : SUBSET {"hold", "contest"}]
Contest == [chal : Tracks, inc : Tracks, gen : Nat]
IntakeTask == [type : {"intake"}, track : Tracks, gen : Nat]
BoundTask == [type : {"semantic", "audit"}, track : Tracks, id : Groups \cup Masters]
Task == IntakeTask \cup BoundTask

Fits(s) == FoldFunction(+, 0, s.gen) <= MaxGen

MemInit ==
  /\ \E c \in Cameras :
       mem = [visible |-> {},                              \* visible_track_keys_by_camera
              ids |-> [m \in 1..Known |-> NewRecord("confirmed", {c})],  \* identities
              masters |-> Known,                           \* next_identity_id - 1
              bound |-> <<>>,                              \* track_to_identity
              done |-> {},               \* metadata provisional_intake_complete
              gen |-> [t \in Tracks |-> 0],                \* track_generations
              intake |-> <<>>,                             \* pending_intake
              staged |-> {},             \* pending_member_evidence with a baseline
              rivals |-> <<>>,                             \* identity_audit_state
              holds |-> [t \in Tracks |-> {}],             \* new_master_holds
              barred |-> [t \in Tracks |-> {}],            \* physical_conflict_rejections
              contest |-> <<>>]                            \* physical_conflicts
  /\ queue = <<>>
  /\ worker = <<>>
  /\ slipped = {}

-----------------------------------------------------------------------------
(* Helpers.                                                                 *)

IdOf(s, t) == IF t \in DOMAIN s.bound THEN {s.bound[t]} ELSE {}
Unnumbered(s, i) == i \in DOMAIN s.ids /\ s.ids[i].state \in {"provisional", "challenged"}
Revise(s, i, record) == [s EXCEPT !.ids = Set(@, i, record)]
BoundTo(s, i) == {t \in DOMAIN s.bound : s.bound[t] = i}
LiveMembers(s, i) == s.ids[i].members \cap BoundTo(s, i)

(* _track_identity_state_locked                                             *)
TrackState(s, i, t) ==
  IF t \in s.ids[i].doubted THEN "challenged"
  ELSE IF t \in s.ids[i].pending THEN "provisional"
  ELSE s.ids[i].state

Rearm(s, T, flag) == IF T = {} THEN s ELSE
  [s EXCEPT !.intake = [t \in DOMAIN s.intake |->
     IF t \in T THEN [s.intake[t] EXCEPT !.submitted = FALSE, !.why = @ \ {flag}]
                ELSE s.intake[t]]]

(* _cancel_physical_conflict_locked                                         *)
CancelContests(s, M) ==
  LET ended == M \cap DOMAIN s.contest
      waiting == {t \in DOMAIN s.intake : \E m \in ended :
                    t = s.contest[m].chal /\ s.intake[t].gen = s.contest[m].gen}
  IN Rearm([s EXCEPT !.contest = Without(@, ended)], waiting, "contest")

ContestsOf(s, T) == {m \in DOMAIN s.contest : {s.contest[m].chal, s.contest[m].inc} \cap T # {}}
NextGeneration(s, T) == [t \in Tracks |-> s.gen[t] + (IF t \in T THEN 1 ELSE 0)]

(* A record whose members T leave.                                          *)
Less(record, T) == [record EXCEPT !.members = @ \ T, !.pending = @ \ T, !.doubted = @ \ T, !.refused = @ \ T]

(* Seeded fault: a cleared track stays a member of its identity.            *)
ForgetListed(s, T) ==
  [s EXCEPT !.bound = Without(@, T), !.done = @ \ T, !.staged = @ \ T,
            !.rivals = Without(@, T), !.intake = Without(@, T),
            !.holds = [t \in Tracks |-> IF t \in T THEN {} ELSE @[t]],
            !.gen = NextGeneration(s, T)]

(* A cleared track: what is kept of it ends, and its next intake is another. *)
Forget(s, T) ==
  [s EXCEPT !.bound = Without(@, T), !.done = @ \ T, !.staged = @ \ T,
            !.rivals = Without(@, T), !.intake = Without(@, T),
            !.holds = [t \in Tracks |-> IF t \in T THEN {} ELSE @[t]],
            !.gen = NextGeneration(s, T),
            !.ids = [i \in DOMAIN @ |-> Less(@[i], T \cap BoundTo(s, i))]]

(* _clear_local_binding_locked, of each track of T                          *)
ClearBindings(s, T) ==
  IF T = {} THEN s ELSE Forget(CancelContests(s, ContestsOf(s, T)), T)

(* _visible_same_camera_identity_owners_locked, excluding t                 *)
VisibleOwners(s, i, t) == Peers(t) \cap s.visible \cap BoundTo(s, i)

(* _clear_nonvisible_same_camera_owners_locked, preserving t                *)
ClearNonvisibleOwners(s, i, t) == ClearBindings(s, (Peers(t) \cap BoundTo(s, i)) \ s.visible)

(* Seeded fault: only a batch whose every track meets an owner is refused.  *)
SecondOwnerOfEach(s, i, T) ==
  /\ i \in DOMAIN s.ids
  /\ \A t \in T : i \notin IdOf(s, t) /\ VisibleOwners(s, i, t) \ T # {}

(* _reject_second_visible_owner_locked, for the tracks T                    *)
SecondOwner(s, i, T) ==
  /\ i \in DOMAIN s.ids
  /\ \E t \in T : i \notin IdOf(s, t) /\ VisibleOwners(s, i, t) \ T # {}

(* _same_camera_active_ids_locked, excluding t                              *)
ActiveIds(s, t) == {s.bound[u] : u \in Peers(t) \cap s.visible \cap DOMAIN s.bound}

(* _intake_task_is_current_locked                                           *)
IsCurrent(s, t, gen) ==
  /\ t \in DOMAIN s.intake
  /\ s.intake[t].submitted
  /\ s.intake[t].gen = gen
  /\ t \in s.visible

Tasks == {queue[i] : i \in DOMAIN queue} \cup (IF worker = <<>> THEN {} ELSE {worker[1]})

(* The identities the tasks of the worker name.                             *)
Mentioned == {task.id : task \in {q \in Tasks : q.type # "intake"}}

DropGroup(s, g) == [s EXCEPT !.ids = Without(@, {g})]

-----------------------------------------------------------------------------
(* The coordinator's calls.                                                 *)

(* hold_new_master_creation                                                 *)
HoldPair(s, p) ==
  [s EXCEPT !.holds = [t \in Tracks |->
     IF t \in p \ DOMAIN s.bound THEN @[t] \cup {p} ELSE @[t]]]

(* Seeded fault: a released intake stays as it was.                         *)
ReleasePairsSilently(s, P) == [s EXCEPT !.holds = [t \in Tracks |-> @[t] \ P]]

(* release_new_master_hold, of each pair of P                               *)
ReleasePairs(s, P) ==
  LET s1 == [s EXCEPT !.holds = [t \in Tracks |-> @[t] \ P]]
  IN Rearm(s1, {t \in (UNION P) \cap DOMAIN s.intake :
                  s1.holds[t] = {} /\ "hold" \in s.intake[t].why}, "hold")

(* _start_provisional_split_recovery_locked: t has just left identity i.    *)
StartSplit(s, i, t) ==
  IF i \notin Groups \/ ~Unnumbered(s, i) THEN s
  ELSE LET left == LiveMembers(s, i)
       IN IF left = {} THEN DropGroup(s, i)
          ELSE IF Cardinality({CameraOf[u] : u \in left}) >= 2 THEN s
          ELSE Revise(s, i, [s.ids[i] EXCEPT !.revoked = @ \cup {t}])

(* _dissolve_provisional_split_locked                                       *)
Dissolve(s, g) == DropGroup(ClearBindings(s, LiveMembers(s, g)), g)

(* _recoverable_split_pair_locked: t, alone in group g, and u that left it   *)
(* and has master m since; the recovery has not expired.                    *)
Recoverable(s, t, u) ==
  /\ {t, u} \subseteq DOMAIN s.bound
  /\ LET g == s.bound[t]
         m == s.bound[u]
     IN /\ g \in Groups /\ Unnumbered(s, g)
        /\ m \in Masters \cap DOMAIN s.ids /\ s.ids[m].state = "confirmed"
        /\ LiveMembers(s, g) = {t}
        /\ u \in s.ids[g].revoked

(* The tracks T are bound to identity i, their intake to be done for it.     *)
BindTo(s, i, T) ==
  [s EXCEPT !.bound = [t \in DOMAIN @ \cup T |-> IF t \in T THEN i ELSE @[t]], !.done = @ \ T]

(* A track becomes a pending member of master m.                            *)
Attach(s, m, T) ==
  BindTo(Revise(s, m, [s.ids[m] EXCEPT !.members = @ \cup T, !.pending = @ \cup T]), m, T)

(* _recover_provisional_split_locked                                        *)
Recover(s, t, u) ==
  LET m == s.bound[u]
      s1 == DropGroup(ClearBindings(s, {t}), s.bound[t])
  IN Attach(Revise(s1, m, [s1.ids[m] EXCEPT !.doubted = @ \ {t}, !.refused = @ \ {t}, !.managed = TRUE]),
            m, {t})

(* Attaching to a master copies its baseline into the camera galleries.     *)
JoinMaster(s, m, p) ==
  Attach(Revise(s, m, [s.ids[m] EXCEPT !.managed = TRUE, !.shots = @ \cup s.ids[m].home,
                                       !.members = @ \cup p]),
         m, p \ DOMAIN s.bound)

JoinGroup(s, g, p) ==
  BindTo(Revise(s, g, [s.ids[g] EXCEPT !.members = @ \cup p]), g, p \ DOMAIN s.bound)

(* next_temporary_group_id: a number no track and no task refers to any     *)
(* more, be it that of a group whose members were all abandoned.            *)
NewGroup(s) ==
  LET unused == {g \in Groups \ Mentioned : BoundTo(s, g) = {}}
  IN {g \in unused : \A h \in unused : h <= g}

StartGroup(s, g, p) ==
  JoinGroup(Revise(s, g, NewRecord("provisional", {})), g, p)

(* A track of the pair has lost a contest for the identity of the other.     *)
LostBefore(s, i, p) == \E t \in p \ DOMAIN s.bound : i \in s.barred[t]

(* create_provisional_pair.  A recovery is offered until it expires.        *)
CreatePair(s, p) ==
  LET ids == UNION {IdOf(s, t) : t \in p}
      groups == {i \in ids : Unnumbered(s, i)}
      recoveries == {q \in p \X p : Recoverable(s, q[1], q[2])}
      decided ==
        IF Cardinality(ids) > 1 THEN {s}
        ELSE IF ids = {} THEN {StartGroup(s, g, p) : g \in NewGroup(s)}
        ELSE LET i == CHOOSE i \in ids : TRUE
             IN IF LostBefore(s, i, p) \/ SecondOwner(s, i, p) THEN {s}
                ELSE {IF groups = {} THEN JoinMaster(s, i, p) ELSE JoinGroup(s, i, p)}
  IN IF p \subseteq DOMAIN s.bound /\ Cardinality(ids) = 1 THEN {s}
     ELSE IF recoveries = {} THEN decided
     ELSE decided \cup {Recover(s, q[1], q[2]) : q \in recoveries}

-----------------------------------------------------------------------------
(* Promotion and confirmation.                                              *)

(* _member_contest_in_flight_locked, had its patience not run out           *)
ContestInFlight(s, i) == \E m \in DOMAIN s.contest : s.contest[m].chal \in s.ids[i].members

(* _provisional_global_reid_complete_locked                                 *)
Checked(s, i) ==
  LET seen == LiveMembers(s, i) \cap s.visible
  IN seen # {} /\ seen \subseteq s.ids[i].checked

(* The owner that kept the group from its master is still in view.          *)
StillBlocked(s, i) ==
  \E m \in s.ids[i].blocked : m \in DOMAIN s.ids /\
    \E t \in s.ids[i].members : VisibleOwners(s, m, t) \ s.ids[i].members # {}

(* The record of group g moves to the next master, its baseline from one of *)
(* the cameras, and the tracks with it.                                     *)
Numbered(s, g, c) ==
  LET m == s.masters + 1
      record == [s.ids[g] EXCEPT !.state = "confirmed", !.blocked = {}, !.home = {c}]
  IN [s EXCEPT !.masters = m,
               !.ids = Set(Without(s.ids, {g}), m, record),
               !.bound = [t \in DOMAIN @ |-> IF @[t] = g THEN m ELSE @[t]]]

(* _promote_provisional_locked.  The baselines of two cameras may veto a    *)
(* promotion by location (_location_promotion_appearance_vetoed_locked).    *)
Promote(s, g, reason) ==
  LET s1 == Revise(s, g, [s.ids[g] EXCEPT !.blocked = {}])
      shots == s.ids[g].shots \cup s.ids[g].views
      promoted == IF s.masters < MaxMasters THEN {Numbered(s1, g, c) : c \in shots} ELSE {}
      vetoed == IF reason = "location" /\ Cardinality(s.ids[g].shots) >= 2 THEN {s1} ELSE {}
  IN IF ~Checked(s, g) \/ StillBlocked(s, g) THEN {s}
     ELSE IF shots = {} THEN {s1}
     ELSE promoted \cup vetoed \cup (IF ContestInFlight(s, g) THEN {s} ELSE {})

(* Seeded fault: the stable location overrules an appearance that refused.  *)
ConfirmableByAny(s, i, byLocation) == (s.ids[i].pending \cup s.ids[i].doubted) \cap s.visible

(* The members a confirmation may reach.                                    *)
Confirmable(s, i, byLocation) ==
  (((s.ids[i].pending \cup s.ids[i].doubted)
      \ (IF byLocation THEN s.ids[i].refused ELSE {})) \cap s.visible)

(* _confirm_pending_members_locked                                          *)
Confirm(s, i, byLocation, T) ==
  LET ready == Confirmable(s, i, byLocation) \cap T
  IN [Revise(s, i, [s.ids[i] EXCEPT !.pending = @ \ ready, !.doubted = @ \ ready]) EXCEPT
        !.staged = @ \ ready, !.done = @ \cup (ready \cap BoundTo(s, i))]

(* _evaluate_provisional_evidence_locked: views of two cameras may be too    *)
(* unlike to tell, of one person, or of two.                                *)
Evaluate(s, i) ==
  IF ~Unnumbered(s, i) \/ Cardinality(s.ids[i].views) < 2 THEN {s}
  ELSE {s, Revise(s, i, [s.ids[i] EXCEPT !.state = "challenged"])} \cup Promote(s, i, "appearance")

(* note_location_match: the tracks of p share i, for `streak` updates now.   *)
NoteMatch(s, i, streak, limit, p) ==
  IF i \notin DOMAIN s.ids THEN {s}
  ELSE LET matched == p \cap BoundTo(s, i)
           s1 == Revise(s, i, [s.ids[i] EXCEPT !.managed = TRUE, !.members = @ \cup matched])
           ready == {t \in matched \cap s1.ids[i].pending :
                       streak >= limit /\ (t \in s.staged \/ CameraOf[t] \in s.ids[i].shots)}
       IN IF /\ s.ids[i].state = "provisional"
             /\ streak >= limit
             /\ Cardinality(s.ids[i].shots) >= 2
            THEN Promote(s1, i, "location")
          ELSE IF s.ids[i].state = "confirmed" /\ ready # {} THEN {Confirm(s1, i, TRUE, ready)}
          ELSE {s1}

-----------------------------------------------------------------------------
(* Seeded fault: only the tracks in view move to the master.                *)
MergeIntoInView(s, g, m, K, last) ==
  LET seen == K \cap s.visible
  IN DropGroup([Revise(s, m, [s.ids[m] EXCEPT !.managed = TRUE, !.members = @ \cup seen]) EXCEPT
                  !.bound = [t \in DOMAIN @ |-> IF t \in seen THEN m ELSE @[t]],
                  !.intake = Without(@, seen), !.gen = NextGeneration(s, seen)], g)

(* _merge_provisional_into_confirmed_locked: the members K of group g join  *)
(* master m one after the other, each retiring the aliases of its camera    *)
(* that are out of view; last[c] is the last of them in camera c.           *)
MergeInto(s, g, m, K, last) ==
  LET record == [s.ids[m] EXCEPT !.managed = TRUE, !.members = @ \cup K,
                                 !.shots = @ \cup s.ids[g].shots, !.views = @ \cup s.ids[g].views]
      moved == [Revise(s, m, record) EXCEPT
                  !.bound = [t \in DOMAIN @ |-> IF t \in K THEN m ELSE @[t]],
                  !.done = @ \cup K, !.intake = Without(@, K), !.gen = NextGeneration(s, K)]
      retired == {t \in BoundTo(moved, m) \ s.visible :
                    CameraOf[t] \in DOMAIN last /\ last[CameraOf[t]] # t}
  IN ClearBindings(DropGroup(moved, g), retired)

Merge(s, g, m) ==
  LET K == LiveMembers(s, g)
      cams == {CameraOf[t] : t \in K}
  IN {MergeInto(s, g, m, K, last) : last \in {f \in [cams -> K] : \A c \in cams : CameraOf[f[c]] = c}}

(* The intake of t begins anew (_borderline_match_needs_retry_locked).       *)
Retry(s, t) ==
  [s EXCEPT !.gen[t] = @ + 1,
            !.intake = Set(@, t, [@[t] EXCEPT !.gen = s.gen[t] + 1, !.submitted = FALSE])]

(* _contest_owner_blocked_master_locked: the masters t may contest.         *)
Contestable(s, t) ==
  {m \in DOMAIN s.ids \cap Masters :
     /\ Contests
     /\ m \notin s.barred[t]
     /\ IdOf(s, t) \cap Masters = {}
     /\ m \notin DOMAIN s.contest
     /\ Cardinality(VisibleOwners(s, m, t)) = 1}

(* _start_contested_identity_claim_locked                                   *)
StartContest(s, t, m) ==
  [s EXCEPT !.contest = Set(@, m, [chal |-> t, gen |-> s.intake[t].gen,
                                   inc |-> CHOOSE u \in VisibleOwners(s, m, t) : TRUE]),
            !.intake = Set(@, t, [s.intake[t] EXCEPT !.why = @ \cup {"contest"}])]

Finish(s, t) == [s EXCEPT !.done = @ \cup {t}, !.intake = Without(@, {t})]

(* _store_provisional_intake_locked, of a group: the crops are kept, then    *)
(* the galleries of the masters searched.                                   *)
KeepCrops(s, t) ==
  LET g == s.bound[t]
      c == CameraOf[t]
  IN {Revise(s, g, [s.ids[g] EXCEPT !.shots = @ \cup {c}, !.views = @ \cup v,
                                    !.members = @ \cup {t}]) : v \in {{}, {c}}}

Search(s, t) ==
  LET g == s.bound[t]
      checked == Revise(s, g, [s.ids[g] EXCEPT !.checked = @ \cup {t}])
      block(m) == Revise(checked, g, [checked.ids[g] EXCEPT !.blocked = {m}])
      free == {m \in DOMAIN s.ids \cap Masters : m \notin ActiveIds(s, t)}
      barred == {m \in free : SecondOwner(s, m, LiveMembers(s, g))}
  IN Evaluate(Finish(checked, t), g)
       \cup {StartContest(s, t, m) : m \in Contestable(s, t)}
       \cup {Retry(s, t) : m \in free}
       \cup (UNION {Evaluate(Finish(block(m), t), g) : m \in barred})
       \cup (UNION {Merge(checked, g, m) : m \in free \ barred})

StoreForGroup(s, t) == UNION {Search(kept, t) : kept \in KeepCrops(s, t)}

(* The same of a member of a master: the crops are staged and compared with *)
(* its gallery.                                                             *)
StoreForMember(s, t) ==
  LET m == s.bound[t]
      s1 == [Revise(s, m, [s.ids[m] EXCEPT !.members = @ \cup {t}]) EXCEPT !.staged = @ \cup {t}]
      s2 == Revise(s1, m, [s1.ids[m] EXCEPT !.checked = @ \cup {t}])
      confirmed == Confirm(s2, m, FALSE, {t})
      accepted == Revise(confirmed, m, [confirmed.ids[m] EXCEPT
                    !.pending = @ \ {t}, !.doubted = @ \ {t}, !.refused = @ \ {t}])
      challenged == [Revise(s2, m, [s2.ids[m] EXCEPT !.pending = @ \ {t}, !.doubted = @ \cup {t},
                                                     !.refused = @ \cup {t}])
                       EXCEPT !.staged = @ \ {t}]
      unlike == Revise(s2, m, [s2.ids[m] EXCEPT !.refused = @ \cup {t}])
  IN {Retry(s1, t)} \cup {Finish(s3, t) : s3 \in {accepted, challenged, unlike, s2}}

(* An intake the provisional path takes.                                    *)
Grouped(s, t) ==
  /\ t \in DOMAIN s.bound
  /\ LET i == s.bound[t] IN
       /\ i \in DOMAIN s.ids
       /\ TrackState(s, i, t) # "confirmed" \/ s.ids[i].managed

Store(s, t) ==
  IF Unnumbered(s, s.bound[t]) THEN StoreForGroup(s, t) ELSE StoreForMember(s, t)

(* The ordinary path: match a master, contest one, wait for the coordinator, *)
(* or create.                                                               *)
Bind(s, t, m) ==
  [s EXCEPT !.bound = Set(@, t, m), !.intake = Without(@, {t}), !.done = @ \ {t}, !.barred[t] = {}]

Create(s, t) ==
  LET m == s.masters + 1
  IN IF s.holds[t] # {} THEN {[s EXCEPT !.intake = Set(@, t, [s.intake[t] EXCEPT !.why = @ \cup {"hold"}])]}
     ELSE IF m > MaxMasters THEN {}
     ELSE {Bind([s EXCEPT !.masters = m,
                          !.ids = Set(@, m, NewRecord("confirmed", {CameraOf[t]}))], t, m)}

Ordinary(s, t) ==
  LET free == {m \in DOMAIN s.ids \cap Masters : m \notin ActiveIds(s, t) \cup s.barred[t]}
  IN {Bind(ClearNonvisibleOwners(s, m, t), t, m) : m \in free}
       \cup {Retry(s, t) : m \in free}
       \cup {StartContest(s, t, m) : m \in Contestable(s, t)}
       \cup Create(s, t)

-----------------------------------------------------------------------------
(* The camera loop.                                                         *)

(* Tracks that left the picture.                                            *)
Vanish(s, gone) == IF gone = {} THEN s ELSE
  LET s1 == CancelContests([s EXCEPT !.barred = [t \in Tracks |-> IF t \in gone THEN {} ELSE @[t]]],
                           ContestsOf(s, gone))
      T == gone \cap DOMAIN s1.intake
  IN [s1 EXCEPT !.intake = Without(@, T), !.done = @ \ T, !.gen = NextGeneration(s1, T)]

(* observe_tracks, then _abandon_missing_track_bindings_locked              *)
Observe(c) ==
  /\ \E keys \in SUBSET Of(c) :
       LET s1 == Vanish(mem, (mem.visible \cap Of(c)) \ keys)
           s2 == [s1 EXCEPT !.visible = (@ \ Of(c)) \cup keys]
       IN \E abandoned \in IF Gaps THEN SUBSET ((Of(c) \ keys) \cap DOMAIN s2.bound) ELSE {{}} :
            mem' = ClearBindings(s2, abandoned)
  /\ Fits(mem')
  /\ UNCHANGED <<queue, worker, slipped>>

HasRoom == Len(queue) < QueueSize

(* _collect_intake_crop_locked.  The burst may be complete and its retry    *)
(* frame come; a full queue refuses it until later.                         *)
Collect(s, t) ==
  LET s1 == IF t \in DOMAIN s.intake THEN s
            ELSE [s EXCEPT !.gen[t] = @ + 1,
                   !.intake = Set(@, t, [gen |-> s.gen[t] + 1, submitted |-> FALSE, why |-> {}])]
  IN \/ mem' = s1 /\ UNCHANGED queue
     \/ /\ ~s1.intake[t].submitted /\ HasRoom
        /\ mem' = [s1 EXCEPT !.intake = Set(@, t, [@[t] EXCEPT !.submitted = TRUE])]
        /\ queue' = Append(queue, [type |-> "intake", track |-> t, gen |-> s1.intake[t].gen])

(* _schedule_semantic_locked, of a group; one task per camera's view        *)
ScheduleSemantic(s, t) ==
  LET task == [type |-> "semantic", track |-> t, id |-> s.bound[t]]
  IN \/ UNCHANGED queue
     \/ /\ CameraOf[t] \notin s.ids[s.bound[t]].views
        /\ \A q \in Tasks : q.type = "semantic" => CameraOf[q.track] # CameraOf[t]
        /\ HasRoom /\ queue' = Append(queue, task)

(* _schedule_identity_audit_locked                                          *)
ScheduleAudit(s, t) ==
  \/ UNCHANGED queue
  \/ /\ Rounds > 0 /\ s.bound[t] \notin DOMAIN s.contest
     /\ HasRoom /\ queue' = Append(queue, [type |-> "audit", track |-> t, id |-> s.bound[t]])

(* _physical_match_allowed_locked may refuse a place another camera disputes. *)
Disputed(s, t) == \E u \in BoundTo(s, s.bound[t]) : CameraOf[u] # CameraOf[t]

(* _resolve_bound_identity_locked and what assign does with its answer: a   *)
(* member without a finished intake goes on collecting crops.               *)
ServeBound(s, t) ==
  LET i == s.bound[t]
      pending == TrackState(s, i, t) # "confirmed"
      cleared == ClearBindings(s, {t})
      counted == IF pending THEN Revise(s, i, [s.ids[i] EXCEPT !.members = @ \cup {t}]) ELSE s
  IN \/ /\ Disputed(s, t)
        /\ Collect(IF pending THEN StartSplit(cleared, i, t) ELSE cleared, t)
     \/ /\ pending /\ t \notin s.done
        /\ Collect(counted, t)
     \/ /\ pending /\ t \in s.done
        /\ mem' = counted
        /\ IF Unnumbered(s, i) THEN ScheduleSemantic(s, t) ELSE UNCHANGED queue
     \/ /\ ~pending
        /\ mem' = s
        /\ ScheduleAudit(s, t)

(* assign.  The track may have been away too long, and the recovery of its   *)
(* group may have expired.                                                  *)
Assign(t) ==
  /\ t \in mem.visible
  /\ \E s \in {mem} \cup (IF Gaps THEN {ClearBindings(mem, {t})} ELSE {})
             \cup {Dissolve(mem, g) : g \in {g \in IdOf(mem, t) \cap Groups :
                                              mem.ids[g].revoked # {}}} :
       IF t \in DOMAIN s.bound THEN ServeBound(s, t) ELSE Collect(s, t)
  /\ Fits(mem')
  /\ UNCHANGED <<worker, slipped>>

-----------------------------------------------------------------------------
(* The worker.                                                              *)

Busy(type, at) == worker # <<>> /\ worker[1].type = type /\ worker[2] = at

Take ==
  /\ worker = <<>> /\ queue # <<>>
  /\ queue' = Tail(queue)
  /\ LET task == Head(queue)
     IN worker' = IF task.type = "intake" /\ ~IsCurrent(mem, task.track, task.gen)
                    THEN <<>> ELSE <<task, "extracted">>
  /\ UNCHANGED <<mem, slipped>>

(* _process_intake_task, the first hold of the lock: a track that is bound  *)
(* by now is answered through its group or master.                          *)
AnswerGrouped ==
  /\ Busy("intake", "extracted")
  /\ LET t == worker[1].track
     IN IF Grouped(mem, t) /\ IsCurrent(mem, t, worker[1].gen)
          THEN mem' \in Store(mem, t) /\ worker' = <<>>
        ELSE mem' = mem /\ worker' = <<worker[1], "ordinary">>
  /\ Fits(mem')
  /\ UNCHANGED <<queue, slipped>>

(* The second hold of the lock, after the coordinator may have paired it.    *)
AnswerOrdinary ==
  /\ Busy("intake", "ordinary")
  /\ worker' = <<>>
  /\ LET t == worker[1].track
     IN IF ~IsCurrent(mem, t, worker[1].gen) THEN UNCHANGED <<mem, slipped>>
        ELSE /\ mem' \in Ordinary(mem, t)
             /\ slipped' = IF IdOf(mem, t) \notin {{}, IdOf(mem, t) \cap IdOf(mem', t)}
                              THEN slipped \cup {t} ELSE slipped
  /\ Fits(mem')
  /\ UNCHANGED queue

(* _process_provisional_semantic_task, of a group                           *)
AddView ==
  /\ Busy("semantic", "extracted")
  /\ worker' = <<>>
  /\ LET t == worker[1].track
         g == worker[1].id
         fresh == Unnumbered(mem, g) /\ g \in IdOf(mem, t) /\ t \in mem.visible
                    /\ CameraOf[t] \notin mem.ids[g].views
     IN \/ UNCHANGED mem                                           \* or not admitted
        \/ fresh /\ mem' \in Evaluate(Revise(mem, g, [mem.ids[g] EXCEPT !.views = @ \cup {CameraOf[t]}]), g)
  /\ UNCHANGED <<queue, slipped>>

(* _process_identity_audit_task, when another master looks more like t      *)
Audited(s, t, rival) ==
  LET i == s.bound[t]
      won == 1 + IF t \in DOMAIN s.rivals /\ s.rivals[t].id = rival THEN s.rivals[t].rounds ELSE 0
      moved == ClearBindings(s, {t})
      counted == [s EXCEPT !.rivals = Set(@, t, [id |-> rival, rounds |-> IF won > Rounds THEN Rounds ELSE won])]
  IN IF won < Rounds \/ SecondOwner(s, rival, {t}) THEN counted
     ELSE [Revise(moved, rival, [moved.ids[rival] EXCEPT !.members = @ \cup {t}])
             EXCEPT !.bound = Set(@, t, rival)]

Audit ==
  /\ Busy("audit", "extracted")
  /\ worker' = <<>>
  /\ LET t == worker[1].track
     IN IF worker[1].id \notin IdOf(mem, t) THEN UNCHANGED mem
        ELSE \/ mem' = [mem EXCEPT !.rivals = Without(@, {t})]                \* agrees
             \/ ContestsOf(mem, {t}) # {} /\ UNCHANGED mem
             \/ \E rival \in (DOMAIN mem.ids \cap Masters) \ {worker[1].id} :
                  mem' = Audited(mem, t, rival)
  /\ Fits(mem')
  /\ UNCHANGED <<queue, slipped>>

(* The challenger t wins master m, leaving its group if it is in one.        *)
WinnerTakes(s, m, t) ==
  LET s1 == ClearNonvisibleOwners(s, m, t)
      s2 == IF t \in DOMAIN s1.bound THEN ClearBindings(s1, {t}) ELSE s1
  IN [Revise(s2, m, [s2.ids[m] EXCEPT !.members = @ \cup {t}]) EXCEPT
                !.bound = Set(@, t, m), !.intake = Without(@, {t}), !.barred[t] = {}]

(* _process_physical_conflict_task: the verdict of the contest for m.  The   *)
(* worker is between tasks; the collection of the incumbent's crops and the *)
(* queueing of the contest are in ReidBinding.                              *)
Verdict(m) ==
  /\ worker = <<>>
  /\ m \in DOMAIN mem.contest
  /\ LET c == mem.contest[m]
         s == [mem EXCEPT !.contest = Without(@, {m})]
         stands == /\ IdOf(mem, c.chal) \cap Masters = {} /\ IsCurrent(mem, c.chal, c.gen)
                   /\ m \in IdOf(mem, c.inc)
         lost == Rearm([s EXCEPT !.barred[c.chal] = @ \cup {m}],
                       {t \in {c.chal} \cap DOMAIN s.intake : s.intake[t].gen = c.gen}, "contest")
         won == ClearBindings(s, {c.inc})
     IN IF ~stands THEN mem' = CancelContests(mem, {m})
        ELSE \/ mem' = lost
             \/ \E barred \in {{}, {m}} :
                  mem' = WinnerTakes([won EXCEPT !.barred[c.inc] = @ \cup barred], m, c.chal)
  /\ Fits(mem')
  /\ UNCHANGED <<queue, worker, slipped>>

WorkerStep == Take \/ AnswerGrouped \/ AnswerOrdinary \/ AddView \/ Audit
                \/ \E m \in Masters : Verdict(m)
=============================================================================
