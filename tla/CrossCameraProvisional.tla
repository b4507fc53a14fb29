----------------------- MODULE CrossCameraProvisional -----------------------
(***************************************************************************)
(* CrossCameraProvisionalCoordinator (edge_tracker/                        *)
(* cross_camera_provisional.py) over the identity memory of                *)
(* ReidProvisional.  In one update it evaluates every pair of a left and a *)
(* right track, keeps a streak and a hold on new masters for each, asks    *)
(* the memory for a group when a streak is long enough, and reports the    *)
(* streak of pairs that share an identity.                                 *)
(*                                                                         *)
(* The camera loop calls observe_tracks and assign before update, so they  *)
(* do not run during one; the worker does, between any two calls that take *)
(* the memory's lock.  A step of the update is what it does with one call. *)
(***************************************************************************)
EXTENDS ReidProvisional

CONSTANTS
  Required,    \* required_pair_frames
  ConfirmAt,   \* location_confirm_frames, of the coordinator and of the memory
  HoldGrace,   \* hold_grace_frames
  HoldMax      \* hold_max_frames

ASSUME CoordinatorAssumption ==       \* as __init__ clamps them
  /\ {Required, ConfirmAt, HoldGrace, HoldMax} \subseteq Nat
  /\ 1 <= Required /\ Required <= ConfirmAt /\ Required <= HoldMax

VARIABLE co    \* the coordinator

vars == <<mem, queue, worker, slipped, co>>

(* streak: updates in a row, 0 when the last one missed the pair; a hold's   *)
(* grace: 0, or 1 + the updates since it began; seen: evaluated_pair_keys.  *)
Hold == [age : 0..HoldMax, grace : 0..HoldGrace + 2]
Coordinator == [pc : {"idle", "pairs", "request", "settle", "note"},
                streak : [Pairs -> 0..ConfirmAt], hold : UNION {[P -> Hold] : P \in SUBSET Pairs},
                seen : SUBSET Pairs, todo : SUBSET Pairs,
                pair : {{}} \cup Pairs, shared : SUBSET (Groups \cup Masters)]

Idle == [pc |-> "idle", streak |-> [p \in Pairs |-> 0], hold |-> <<>>,
         seen |-> {}, todo |-> {}, pair |-> {}, shared |-> {}]

Init == MemInit /\ co = Idle

(* _patch_identity of both observations: the identity the tracks share.      *)
Shared(s, p) ==
  {i \in UNION {IdOf(s, t) : t \in p} : p \subseteq BoundTo(s, i)}

(* _release_pair_hold                                                       *)
ReleaseHolds(s, hold, P) == ReleasePairs(s, P \cap DOMAIN hold)

(* _mark_pair_failed_for_hold for a reason that may pass: the grace begins.  *)
BeginGrace(hold, P) ==
  [p \in DOMAIN hold |-> IF p \in P /\ hold[p].grace = 0 THEN [hold[p] EXCEPT !.grace = 1]
                         ELSE hold[p]]

(* The next update: holds and graces are one update older.                   *)
Older(hold) ==
  [p \in DOMAIN hold |-> [age |-> hold[p].age + 1,
                          grace |-> IF hold[p].grace = 0 THEN 0 ELSE hold[p].grace + 1]]

-----------------------------------------------------------------------------
(* _candidate_pairs.                                                        *)

(* Pairs that already have two identities no recovery can join.             *)
Different(p) ==
  /\ Cardinality(UNION {IdOf(mem, t) : t \in p}) = 2
  /\ ~\E t, u \in p : Recoverable(mem, t, u)

OneToOne(P) == \A p, q \in P : p # q => p \cap q = {}

(* _best_pairs maximises the number of pairs, then minimises their distance. *)
BestPairs(near) ==
  {P \in SUBSET near : OneToOne(P) /\ \A Q \in SUBSET near : OneToOne(Q) => Cardinality(Q) <= Cardinality(P)}

(* A selected pair is ambiguous when an alternative is almost as near.      *)
Contended(near, P) == {p \in P : \E q \in near \ {p} : q \cap p # {}}

(* The update begins.  `points`: tracks with a usable position; `near`:     *)
(* pairs close enough in space and time.  A pair left out keeps no streak.  *)
Evaluation ==
  /\ co.pc = "idle"
  /\ \E points \in SUBSET mem.visible :
       LET seen == {p \in Pairs : p \subseteq points}
           different == {p \in seen : Different(p)}
       IN \E near \in SUBSET (seen \ different) :
            \E selected \in BestPairs(near) :
              \E ambiguous \in SUBSET Contended(near, selected) :
                LET kept == selected \ ambiguous
                    hold == Older(co.hold)
                    dropped == different \cup (near \ kept)
                IN /\ mem' = ReleaseHolds(mem, hold, dropped)
                   /\ co' = [co EXCEPT
                        !.pc = "pairs", !.seen = seen, !.todo = kept,
                        !.streak = [p \in Pairs |-> IF p \in kept THEN @[p] ELSE 0],
                        !.hold = BeginGrace(Without(hold, dropped), seen \ (near \cup different))]
  /\ UNCHANGED <<queue, worker, slipped>>

-----------------------------------------------------------------------------
(* _advance_streak: a pair whose two tracks moved apart begins again.        *)
NextStreak(p, moved) ==
  IF moved \/ co.streak[p] = 0 THEN 1
  ELSE IF co.streak[p] < ConfirmAt THEN co.streak[p] + 1 ELSE ConfirmAt

(* _mark_pair_valid_for_hold: the memory holds tracks that have no identity. *)
Held(hold, p) ==
  Set(hold, p, [age |-> IF p \in DOMAIN hold THEN hold[p].age ELSE 0, grace |-> 0])

(* A selected pair, up to the decision to ask for a group.                  *)
Advance(p) ==
  /\ co.pc = "pairs" /\ p \in co.todo
  /\ \E moved \in IF co.streak[p] > 0 THEN BOOLEAN ELSE {FALSE} :
       LET streak == NextStreak(p, moved)
           shared == Shared(mem, p)
           valid == ~moved /\ shared = {}
       IN /\ co' = [co EXCEPT
               !.todo = @ \ {p}, !.pair = p, !.shared = shared, !.streak[p] = streak,
               !.hold = IF valid THEN Held(@, p) ELSE Without(@, {p}),
               !.pc = IF shared # {} THEN "note"
                      ELSE IF valid /\ streak >= Required THEN "request" ELSE "pairs"]
          /\ mem' = IF ~valid THEN ReleaseHolds(mem, co.hold, {p})
                    ELSE IF p \in DOMAIN co.hold THEN mem ELSE HoldPair(mem, p)
  /\ UNCHANGED <<queue, worker, slipped>>

Request ==
  /\ co.pc = "request"
  /\ mem' \in CreatePair(mem, co.pair)
  /\ Fits(mem')
  /\ co' = [co EXCEPT !.pc = "settle"]
  /\ UNCHANGED <<queue, worker, slipped>>

(* The memory's answer is what the two tracks are bound to by now.           *)
Settle ==
  /\ co.pc = "settle"
  /\ LET shared == Shared(mem, co.pair)
     IN co' = [co EXCEPT !.shared = shared, !.hold = Without(@, {co.pair}),
                         !.pc = IF shared = {} THEN "pairs" ELSE "note"]
  /\ mem' = ReleaseHolds(mem, co.hold, {co.pair})
  /\ UNCHANGED <<queue, worker, slipped>>

Note ==
  /\ co.pc = "note"
  /\ \E i \in co.shared : mem' \in NoteMatch(mem, i, co.streak[co.pair], ConfirmAt, co.pair)
  /\ co' = [co EXCEPT !.pc = "pairs"]
  /\ UNCHANGED <<queue, worker, slipped>>

(* Seeded fault: a hold that expires is not released in the memory.         *)
ExpiredQuietly(hold) == {p \in DOMAIN hold : FALSE}

(* _expire_pair_holds                                                       *)
Expired(hold) ==
  {p \in DOMAIN hold : hold[p].age >= HoldMax \/ hold[p].grace > HoldGrace + 1}

(* The end of the update: holds of pairs not seen begin their grace         *)
(* (_mark_active_holds_unobserved), and overdue ones are released.          *)
Conclude ==
  /\ co.pc = "pairs" /\ co.todo = {}
  /\ LET hold == BeginGrace(co.hold, Pairs \ co.seen)
     IN /\ mem' = ReleaseHolds(mem, hold, Expired(hold))
        /\ co' = [co EXCEPT !.pc = "idle", !.hold = Without(hold, Expired(hold)),
                            !.seen = {}, !.pair = {}, !.shared = {}]
  /\ UNCHANGED <<queue, worker, slipped>>

CameraLoop ==
  /\ co.pc = "idle"
  /\ UNCHANGED co
  /\ \/ \E c \in Cameras : Observe(c)
     \/ \E t \in Tracks : Assign(t)

Update == Evaluation \/ (\E p \in Pairs : Advance(p)) \/ Request \/ Settle \/ Note \/ Conclude

Next == CameraLoop \/ Update \/ (WorkerStep /\ UNCHANGED co)

Spec == Init /\ [][Next]_vars

-----------------------------------------------------------------------------
IsDict(f, D, R) == DOMAIN f \subseteq D /\ \A x \in DOMAIN f : f[x] \in R

(* The type invariant.                                                      *)
TypeOK ==
  /\ mem.visible \subseteq Tracks
  /\ mem.masters \in 0..MaxMasters
  /\ mem.done \subseteq Tracks /\ mem.staged \subseteq Tracks
  /\ mem.gen \in [Tracks -> Nat]
  /\ mem.holds \in [Tracks -> SUBSET Pairs]
  /\ mem.barred \in [Tracks -> SUBSET Masters]
  /\ IsDict(mem.ids, Groups \cup Masters, Record)
  /\ IsDict(mem.bound, Tracks, Groups \cup Masters)
  /\ IsDict(mem.intake, Tracks, Intake)
  /\ IsDict(mem.rivals, Tracks, [id : Masters, rounds : 1..Rounds])
  /\ IsDict(mem.contest, Masters, Contest)
  /\ queue \in Seq(Task)
  /\ worker = <<>> \/ worker \in Task \X {"extracted", "ordinary"}
  /\ slipped \subseteq Tracks
  /\ co \in Coordinator

(* What a record says of its members and what the tracks are bound to agree: *)
(* a track of a group is one of its members, and a pending, doubted or      *)
(* refused member of an identity is bound to it, unless the ordinary path   *)
(* numbered it while it was being paired.                                   *)
MembershipAgrees ==
  /\ \A g \in DOMAIN mem.ids \cap Groups : BoundTo(mem, g) \subseteq mem.ids[g].members
  /\ \A i \in DOMAIN mem.ids :
       (mem.ids[i].pending \cup mem.ids[i].doubted \cup mem.ids[i].refused) \ slipped \subseteq LiveMembers(mem, i)

(* No submitted intake is forgotten: its task is on its way, the contest it *)
(* started is open, or the coordinator knows the hold it waits for          *)
(* (release_new_master_hold: "re-arm any completed deferred intake").       *)
IntakeAnswered ==
  \A t \in DOMAIN mem.intake : mem.intake[t].submitted =>
    \/ \E task \in Tasks :
         task.type = "intake" /\ task.track = t /\ task.gen = mem.intake[t].gen
    \/ "hold" \in mem.intake[t].why /\ mem.holds[t] # {} /\ mem.holds[t] \subseteq DOMAIN co.hold
    \/ \E m \in DOMAIN mem.contest :
         mem.contest[m].chal = t /\ mem.contest[m].gen = mem.intake[t].gen

(* The track t gains identity i in this step.                               *)
Gains(t, i) == t \in BoundTo(mem', i) /\ t \notin BoundTo(mem, i)

(* A recovered split, which the coordinator's other checks do not reach.    *)
Recovery(t) ==
  /\ co.pc = "request" /\ co'.pc = "settle"
  /\ \E u \in Tracks : Recoverable(mem, t, u)

(* Owners of i in view beside t in its camera, before the step and after.   *)
OthersKeep(t, i) == VisibleOwners(mem', i, t) \cap BoundTo(mem, i)

(* t wins its contest for i.  The verdict takes i from the incumbent; who    *)
(* came into view with i since the contest began is not looked for.         *)
Wins(t, i) ==
  /\ worker = <<>> /\ i \in DOMAIN mem.contest \ DOMAIN mem'.contest
  /\ mem.contest[i].chal = t

Alone(t, i) ==
  t \in mem.visible =>
    IF Wins(t, i) THEN mem.contest[i].inc \notin OthersKeep(t, i) ELSE OthersKeep(t, i) = {}

(* t is in view since it lost a contest for i; but a group is merged for all *)
(* its members, and the audit does not ask who lost.                        *)
Reclaims(t, i) ==
  /\ t \in mem.visible /\ i \in mem.barred[t]
  /\ ~ (Busy("intake", "extracted") /\ \E g \in IdOf(mem, t) \cap Groups : g \notin DOMAIN mem'.ids)
  /\ ~ (Busy("audit", "extracted") /\ worker[1].track = t)

(* However a track comes by an identity, by being paired, merged, promoted, *)
(* matched or audited or by winning a contest, it does not share it with    *)
(* another track in view in its camera ("Single-owner invariant",           *)
(* reid_memory.py:3463), and it is not a master it lost a contest for       *)
(* ("appearance_conflict_loser_cannot_reclaim_master", reid_memory.py:3459); *)
(* Wins, Reclaims and Recovery name what the code excepts.                  *)
GainsAreLawful ==
  [][\A t \in Tracks : \A i \in IdOf(mem', t) :
       Gains(t, i) /\ ~Recovery(t) => Alone(t, i) /\ ~Reclaims(t, i)]_vars

(* A group that ends takes its tracks along: those still bound have one and *)
(* the same master, and nothing is left bound to the group.                 *)
GroupsEndTogether ==
  [][\A g \in DOMAIN mem.ids \cap Groups : g \notin DOMAIN mem'.ids =>
       /\ BoundTo(mem', g) = {}
       /\ \A t, u \in BoundTo(mem, g) \cap DOMAIN mem'.bound : mem'.bound[t] = mem'.bound[u]]_vars

(* A member its appearance argued against is confirmed by its appearance    *)
(* alone ("never by the stable-location fallback", reid_memory.py:617).     *)
LocationNeverOverrules ==
  [][\A m \in DOMAIN mem.ids \cap Masters : \A t \in mem.ids[m].refused \cap BoundTo(mem', m) :
       TrackState(mem, m, t) # "confirmed" /\ TrackState(mem', m, t) = "confirmed" =>
         worker # <<>> /\ worker[1].track = t]_vars
=============================================================================
