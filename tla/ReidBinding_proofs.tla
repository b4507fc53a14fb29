------------------------ MODULE ReidBinding_proofs ------------------------
(***************************************************************************)
(* One owner of a master in each camera, no binding by crops of somebody   *)
(* who has left or to a master a track was barred from, contests between   *)
(* live candidates, and an answer on its way for every submitted intake:   *)
(* for any tracks, cameras, masters, contests and bursts, and with either  *)
(* setting of the switches.                                                *)
(*                                                                         *)
(* The first part is about what each method keeps of the memory (Keeps),   *)
(* or gives to one track (Moves), and ends with the invariant Safe.  The   *)
(* second is about what an intake that was put off waits for (Sound), and  *)
(* about the tasks under way (Due), and ends with the invariant Answering. *)
(***************************************************************************)
EXTENDS ReidBinding, SequenceTheorems, FiniteSetTheorems, TLAPS

-----------------------------------------------------------------------------
(* The types of the memory.                                                 *)

Dict(D, R) == UNION {[S -> R] : S \in SUBSET D}

Memory ==
  [visible : SUBSET Tracks, masters : Nat, bound : Dict(Tracks, Nat), gen : [Tracks -> Nat],
   tentative : Dict(Tracks, Nat), intake : Dict(Tracks, Intake),
   shadow : Dict(Tracks, Shadow), holds : [Tracks -> SUBSET Pairs],
   rejected : [Tracks -> SUBSET Nat], conflict : Dict(Nat, Conflict),
   recovery : Dict(Tracks, SUBSET Nat), token : Nat]

\* The values of mem, the queue and the worker, whatever the bounds.

LEMMA DictFacts ==
  ASSUME NEW D, NEW R, NEW f
  PROVE  f \in Dict(D, R) <=>
           f = [x \in DOMAIN f |-> f[x]] /\ DOMAIN f \subseteq D /\ \A x \in DOMAIN f : f[x] \in R
<1>1. ASSUME f \in Dict(D, R)
      PROVE  f = [x \in DOMAIN f |-> f[x]] /\ DOMAIN f \subseteq D /\ \A x \in DOMAIN f : f[x] \in R
  <2>1. PICK S \in SUBSET D : f \in [S -> R]
    BY <1>1 DEF Dict
  <2> QED BY <2>1
<1>2. ASSUME f = [x \in DOMAIN f |-> f[x]], DOMAIN f \subseteq D, \A x \in DOMAIN f : f[x] \in R
      PROVE  f \in Dict(D, R)
  <2>1. f \in [DOMAIN f -> R] /\ DOMAIN f \in SUBSET D
    BY <1>2
  <2> QED BY <2>1 DEF Dict
<1> QED BY <1>1, <1>2

LEMMA EmptyFacts ==
  ASSUME NEW D, NEW R
  PROVE  << >> \in Dict(D, R) /\ DOMAIN << >> = {}
<1>1. << >> \in [{} -> R] /\ DOMAIN << >> = {}
  OBVIOUS
<1> QED BY <1>1 DEF Dict

\* dict.pop leaves the rest, and an assignment to a key, too.
LEMMA WithoutFacts ==
  ASSUME NEW f, NEW S
  PROVE  /\ DOMAIN Without(f, S) = DOMAIN f \ S
         /\ \A x \in DOMAIN Without(f, S) : Without(f, S)[x] = f[x]
BY DEF Without

LEMMA WithoutDict ==
  ASSUME NEW D, NEW R, NEW f \in Dict(D, R), NEW S
  PROVE  Without(f, S) \in Dict(D, R)
<1>1. f = [x \in DOMAIN f |-> f[x]] /\ DOMAIN f \subseteq D /\ \A x \in DOMAIN f : f[x] \in R
  BY DictFacts
<1> DEFINE g == [x \in DOMAIN f \ S |-> f[x]]
<1>2. g \in Dict(D, R)
  <2>1. g = [x \in DOMAIN g |-> g[x]] /\ DOMAIN g \subseteq D /\ \A x \in DOMAIN g : g[x] \in R
    BY <1>1
  <2> HIDE DEF g
  <2> QED BY <2>1, DictFacts
<1> QED BY <1>2 DEF Without

LEMMA SetDomain == ASSUME NEW f, NEW x, NEW v PROVE DOMAIN Set(f, x, v) = DOMAIN f \cup {x}
BY DEF Set

LEMMA SetHere == ASSUME NEW f, NEW x, NEW v PROVE Set(f, x, v)[x] = v
BY DEF Set

LEMMA SetElsewhere ==
  ASSUME NEW f, NEW x, NEW v, NEW y \in DOMAIN f \ {x}
  PROVE  Set(f, x, v)[y] = f[y]
BY DEF Set

LEMMA SetDict ==
  ASSUME NEW D, NEW R, NEW f \in Dict(D, R), NEW x \in D, NEW v \in R
  PROVE  Set(f, x, v) \in Dict(D, R)
<1>1. DOMAIN f \subseteq D /\ \A y \in DOMAIN f : f[y] \in R
  BY DictFacts
<1> DEFINE g == [y \in DOMAIN f \cup {x} |-> IF y = x THEN v ELSE f[y]]
<1>2. g = [y \in DOMAIN g |-> g[y]] /\ DOMAIN g \subseteq D /\ \A y \in DOMAIN g : g[y] \in R
  BY <1>1
<1>3. Set(f, x, v) = g
  BY DEF Set
<1> HIDE DEF g
<1> QED BY <1>2, <1>3, DictFacts

-----------------------------------------------------------------------------
(* What most methods do: they take bindings, intakes, shadows and contests  *)
(* away and give none.                                                      *)

Keeps(s, r) ==
  /\ r \in Memory
  /\ r.masters = s.masters /\ r.visible = s.visible
  /\ DOMAIN r.bound \subseteq DOMAIN s.bound /\ \A t \in DOMAIN r.bound : r.bound[t] = s.bound[t]
  /\ \A t \in Tracks : r.gen[t] >= s.gen[t]
  /\ DOMAIN r.intake \subseteq DOMAIN s.intake
  /\ \A t \in DOMAIN r.intake : r.intake[t].handoff = s.intake[t].handoff /\ r.intake[t].gen = s.intake[t].gen
  /\ DOMAIN r.shadow \subseteq DOMAIN s.shadow
  /\ \A t \in DOMAIN r.shadow : r.shadow[t].id \subseteq s.shadow[t].id \cup {s.bound[u] : u \in DOMAIN s.bound}
  /\ DOMAIN r.conflict \subseteq DOMAIN s.conflict
  /\ \A m \in DOMAIN r.conflict : r.conflict[m].challenger = s.conflict[m].challenger

LEMMA KeepsSelf == ASSUME NEW s \in Memory PROVE Keeps(s, s)
BY DEF Keeps, Memory

LEMMA KeepsOn ==
  ASSUME NEW s \in Memory, NEW r, NEW q, Keeps(s, r), Keeps(r, q)
  PROVE  Keeps(s, q)
<1>1. /\ q \in Memory /\ q.masters = s.masters /\ q.visible = s.visible
      /\ DOMAIN q.bound \subseteq DOMAIN s.bound /\ \A t \in DOMAIN q.bound : q.bound[t] = s.bound[t]
  BY DEF Keeps
<1>2. \A t \in Tracks : q.gen[t] >= s.gen[t]
  BY DEF Keeps, Memory
<1>3. /\ DOMAIN q.intake \subseteq DOMAIN s.intake
      /\ \A t \in DOMAIN q.intake : q.intake[t].handoff = s.intake[t].handoff /\ q.intake[t].gen = s.intake[t].gen
  BY DEF Keeps
<1>4. {r.bound[u] : u \in DOMAIN r.bound} \subseteq {s.bound[u] : u \in DOMAIN s.bound}
  BY DEF Keeps
<1>5. /\ DOMAIN q.shadow \subseteq DOMAIN s.shadow
      /\ \A t \in DOMAIN q.shadow : q.shadow[t].id \subseteq s.shadow[t].id \cup {s.bound[u] : u \in DOMAIN s.bound}
  BY <1>4 DEF Keeps
<1>6. /\ DOMAIN q.conflict \subseteq DOMAIN s.conflict
      /\ \A m \in DOMAIN q.conflict : q.conflict[m].challenger = s.conflict[m].challenger
  BY DEF Keeps
<1> QED BY <1>1, <1>2, <1>3, <1>5, <1>6 DEF Keeps

\* dict.pop on the dictionaries of the memory.
LEMMA PopFacts ==
  ASSUME NEW s \in Memory, NEW S
  PROVE  /\ Without(s.bound, S) \in Dict(Tracks, Nat)
         /\ Without(s.tentative, S) \in Dict(Tracks, Nat)
         /\ Without(s.intake, S) \in Dict(Tracks, Intake)
         /\ Without(s.shadow, S) \in Dict(Tracks, Shadow)
         /\ Without(s.conflict, S) \in Dict(Nat, Conflict)
         /\ Without(s.recovery, S) \in Dict(Tracks, SUBSET Nat)
<1>1. /\ s.bound \in Dict(Tracks, Nat)
      /\ s.tentative \in Dict(Tracks, Nat)
      /\ s.intake \in Dict(Tracks, Intake)
      /\ s.shadow \in Dict(Tracks, Shadow)
      /\ s.conflict \in Dict(Nat, Conflict)
      /\ s.recovery \in Dict(Tracks, SUBSET Nat)
  BY DEF Memory
<1> QED BY <1>1, WithoutDict

LEMMA DropRecoveryKeeps ==
  ASSUME NEW s \in Memory, NEW T
  PROVE  Keeps(s, DropRecovery(s, T))
<1>1. Without(s.recovery, T) \in Dict(Tracks, SUBSET Nat)
  BY PopFacts, WithoutFacts
<1> QED BY <1>1 DEF DropRecovery, Keeps, Memory

LEMMA RearmKeeps ==
  ASSUME NEW s \in Memory, NEW T, NEW flag
  PROVE  Keeps(s, Rearm(s, T, flag))
<1> DEFINE f == [t \in DOMAIN s.intake |->
                   IF t \in T THEN [s.intake[t] EXCEPT !.submitted = FALSE, !.deferred = @ \ {flag}]
                              ELSE s.intake[t]]
<1>1. DOMAIN s.intake \subseteq Tracks /\ \A t \in DOMAIN s.intake : s.intake[t] \in Intake
  BY DictFacts DEF Memory
<1>2. \A t \in DOMAIN f : f[t] \in Intake /\ f[t].handoff = s.intake[t].handoff /\ f[t].gen = s.intake[t].gen
  BY <1>1 DEF Intake
<1>3. f \in Dict(Tracks, Intake)
  <2>1. f = [t \in DOMAIN f |-> f[t]] /\ DOMAIN f \subseteq Tracks
    BY <1>1
  <2> HIDE DEF f
  <2> QED BY <1>2, <2>1, DictFacts
<1>4. Rearm(s, T, flag) = s \/ Rearm(s, T, flag) = [s EXCEPT !.intake = f]
  BY DEF Rearm
<1>5. Keeps(s, [s EXCEPT !.intake = f])
  <2>1. DOMAIN f = DOMAIN s.intake
    OBVIOUS
  <2> HIDE DEF f
  <2> QED BY <1>2, <1>3, <2>1 DEF Keeps, Memory
<1> QED BY <1>4, <1>5, KeepsSelf

LEMMA ReleaseRecoveryKeeps ==
  ASSUME NEW s \in Memory, NEW T
  PROVE  Keeps(s, ReleaseRecovery(s, T))
<1> DEFINE T0 == T \cap DOMAIN s.recovery
           s1 == [s EXCEPT !.recovery = Without(@, T0)]
<1>1. Keeps(s, s1)
  <2>1. Without(s.recovery, T0) \in Dict(Tracks, SUBSET Nat)
    BY PopFacts, WithoutFacts
  <2> QED BY <2>1 DEF Keeps, Memory
<1>2. s1 \in Memory
  BY <1>1 DEF Keeps
<1>3. Keeps(s1, Rearm(s1, T0 \cap Deferred(s, "recovery"), "recovery"))
  BY <1>2, RearmKeeps
<1>4. Keeps(s, Rearm(s1, T0 \cap Deferred(s, "recovery"), "recovery"))
  BY <1>1, <1>3, KeepsOn
<1> QED BY <1>4 DEF ReleaseRecovery

LEMMA CancelConflictsKeeps ==
  ASSUME NEW s \in Memory, NEW M
  PROVE  Keeps(s, CancelConflicts(s, M))
<1> DEFINE ended == M \cap DOMAIN s.conflict
           waiting == {t \in DOMAIN s.intake : \E m \in ended :
                         t \in s.conflict[m].challenger /\ s.intake[t].gen = s.conflict[m].gen}
           s1 == [s EXCEPT !.conflict = Without(@, ended)]
           s2 == Rearm(s1, waiting, "contest")
<1>1. Keeps(s, s1)
  <2>1. /\ Without(s.conflict, ended) \in Dict(Nat, Conflict)
        /\ DOMAIN Without(s.conflict, ended) \subseteq DOMAIN s.conflict
        /\ \A m \in DOMAIN Without(s.conflict, ended) : Without(s.conflict, ended)[m] = s.conflict[m]
    <3> HIDE DEF ended
    <3>1. DOMAIN Without(s.conflict, ended) = DOMAIN s.conflict \ ended
      BY WithoutFacts
    <3> QED BY <3>1, PopFacts, WithoutFacts
  <2> HIDE DEF ended
  <2> QED BY <2>1 DEF Keeps, Memory
<1>2. s1 \in Memory
  BY <1>1 DEF Keeps
<1>3. Keeps(s, s2) /\ s2 \in Memory
  <2> HIDE DEF s1, waiting
  <2>1. Keeps(s1, s2)
    BY <1>2, RearmKeeps
  <2>2. Keeps(s, s2)
    BY <1>1, <2>1, KeepsOn
  <2> QED BY <2>2 DEF Keeps
<1>4. Keeps(s, ReleaseRecovery(s2, Linked(s, ended)))
  BY <1>3, ReleaseRecoveryKeeps, KeepsOn
<1> QED BY <1>4 DEF CancelConflicts

LEMMA GenerationFacts ==
  ASSUME NEW s \in Memory, NEW T
  PROVE  /\ NextGeneration(s, T) \in [Tracks -> Nat]
         /\ \A t \in Tracks : NextGeneration(s, T)[t] >= s.gen[t]
BY DEF NextGeneration, Memory

LEMMA DropIntakesKeeps ==
  ASSUME NEW s \in Memory, NEW T
  PROVE  /\ Keeps(s, DropIntakes(s, T))
         /\ DOMAIN DropIntakes(s, T).intake = DOMAIN s.intake \ T
         /\ DropIntakes(s, T).bound = s.bound /\ DropIntakes(s, T).shadow = s.shadow
         /\ DropIntakes(s, T).rejected = s.rejected
<1> DEFINE T0 == T \cap DOMAIN s.intake
           r == [s EXCEPT !.intake = Without(@, T0), !.tentative = Without(@, T0),
                          !.gen = NextGeneration(s, T0)]
<1>1. /\ Without(s.intake, T0) \in Dict(Tracks, Intake)
      /\ DOMAIN Without(s.intake, T0) = DOMAIN s.intake \ T
      /\ \A t \in DOMAIN Without(s.intake, T0) : Without(s.intake, T0)[t] = s.intake[t]
      /\ Without(s.tentative, T0) \in Dict(Tracks, Nat)
  <2>2. DOMAIN s.intake \ T0 = DOMAIN s.intake \ T
    OBVIOUS
  <2> HIDE DEF T0
  <2>3. DOMAIN Without(s.intake, T0) = DOMAIN s.intake \ T
    BY <2>2, WithoutFacts
  <2> QED BY <2>3, PopFacts, WithoutFacts
<1>2. NextGeneration(s, T0) \in [Tracks -> Nat] /\ \A t \in Tracks : NextGeneration(s, T0)[t] >= s.gen[t]
  BY GenerationFacts
<1>3. Keeps(s, r)
  BY <1>1, <1>2 DEF Keeps, Memory
<1>4. DOMAIN r.intake = DOMAIN s.intake \ T /\ r.bound = s.bound /\ r.shadow = s.shadow /\ r.rejected = s.rejected
  BY <1>1 DEF Memory
<1> QED BY <1>3, <1>4 DEF DropIntakes

LEMMA CancelFacts ==
  ASSUME NEW s \in Memory, NEW M
  PROVE  /\ CancelConflicts(s, M).bound = s.bound /\ CancelConflicts(s, M).token = s.token
         /\ DOMAIN CancelConflicts(s, M).intake = DOMAIN s.intake
BY DEF CancelConflicts, ReleaseRecovery, Rearm, Memory

LEMMA ClearBindingsKeeps ==
  ASSUME NEW s \in Memory, NEW T
  PROVE  /\ Keeps(s, ClearBindings(s, T))
         /\ DOMAIN ClearBindings(s, T).bound = DOMAIN s.bound \ T
         /\ DOMAIN ClearBindings(s, T).intake = DOMAIN s.intake \ T
         /\ T \cap DOMAIN ClearBindings(s, T).shadow = {}
<1>1. CASE T = {}
  BY <1>1, KeepsSelf DEF ClearBindings
<1>2. CASE T # {}
  <2> DEFINE s0 == DropRecovery(s, T)
             s1 == CancelConflicts(s0, ConflictsOf(s, T))
             r == [s1 EXCEPT !.bound = Without(@, T), !.tentative = Without(@, T),
                             !.intake = Without(@, T), !.shadow = Without(@, T),
                             !.holds = [t \in Tracks |-> IF t \in T THEN {} ELSE s.holds[t]],
                             !.gen = NextGeneration(s, T)]
  <2>1. Keeps(s, s1) /\ s1 \in Memory
    <3>1. Keeps(s, s0) /\ s0 \in Memory
      BY DropRecoveryKeeps DEF Keeps
    <3> QED BY <3>1, CancelConflictsKeeps, KeepsOn DEF Keeps
  <2>2. s1.bound = s.bound /\ DOMAIN s1.intake = DOMAIN s.intake
    <3>1. s0 \in Memory /\ s0.bound = s.bound /\ s0.intake = s.intake
      BY DropRecoveryKeeps DEF Keeps, DropRecovery, Memory
    <3> HIDE DEF s0
    <3> QED BY <3>1, CancelFacts
  <2> HIDE DEF s1
  <2>3. /\ Without(s1.bound, T) \in Dict(Tracks, Nat)
        /\ DOMAIN Without(s1.bound, T) = DOMAIN s1.bound \ T
        /\ \A t \in DOMAIN Without(s1.bound, T) : Without(s1.bound, T)[t] = s1.bound[t]
        /\ Without(s1.tentative, T) \in Dict(Tracks, Nat)
    BY <2>1, PopFacts, WithoutFacts
  <2>4. /\ Without(s1.intake, T) \in Dict(Tracks, Intake)
        /\ DOMAIN Without(s1.intake, T) = DOMAIN s1.intake \ T
        /\ \A t \in DOMAIN Without(s1.intake, T) : Without(s1.intake, T)[t] = s1.intake[t]
    BY <2>1, PopFacts, WithoutFacts
  <2>5. /\ Without(s1.shadow, T) \in Dict(Tracks, Shadow)
        /\ DOMAIN Without(s1.shadow, T) = DOMAIN s1.shadow \ T
        /\ \A t \in DOMAIN Without(s1.shadow, T) : Without(s1.shadow, T)[t] = s1.shadow[t]
    BY <2>1, PopFacts, WithoutFacts
  <2>6. /\ NextGeneration(s, T) \in [Tracks -> Nat]
        /\ \A t \in Tracks : NextGeneration(s, T)[t] >= s.gen[t]
        /\ [t \in Tracks |-> IF t \in T THEN {} ELSE s.holds[t]] \in [Tracks -> SUBSET Pairs]
    BY GenerationFacts DEF Memory
  <2>7. /\ r \in Memory /\ r.masters = s1.masters /\ r.visible = s1.visible
        /\ r.bound = Without(s1.bound, T) /\ r.intake = Without(s1.intake, T)
        /\ r.shadow = Without(s1.shadow, T) /\ r.conflict = s1.conflict
        /\ r.gen = NextGeneration(s, T)
    BY <2>1, <2>3, <2>4, <2>5, <2>6 DEF Memory
  <2>8. Keeps(s, r)
    BY <2>1, <2>3, <2>4, <2>5, <2>6, <2>7 DEF Keeps
  <2>9. ClearBindings(s, T) = r
    BY <1>2 DEF ClearBindings, s1
  <2> QED BY <2>2, <2>3, <2>4, <2>5, <2>7, <2>8, <2>9
<1> QED BY <1>1, <1>2

LEMMA ReleaseShadowsKeeps ==
  ASSUME NEW s \in Memory, NEW T
  PROVE  Keeps(s, ReleaseShadows(s, T)) /\ ReleaseShadows(s, T).bound = s.bound
<1> DEFINE s1 == [s EXCEPT !.shadow = Without(@, T)]
<1>1. Keeps(s, s1) /\ s1 \in Memory /\ s1.bound = s.bound
  <2>1. /\ Without(s.shadow, T) \in Dict(Tracks, Shadow)
        /\ DOMAIN Without(s.shadow, T) = DOMAIN s.shadow \ T
        /\ \A t \in DOMAIN Without(s.shadow, T) : Without(s.shadow, T)[t] = s.shadow[t]
    BY PopFacts, WithoutFacts
  <2> QED BY <2>1 DEF Keeps, Memory
<1>2. Keeps(s1, DropIntakes(s1, T)) /\ DropIntakes(s1, T).bound = s1.bound
  BY <1>1, DropIntakesKeeps
<1>3. Keeps(s, DropIntakes(s1, T)) /\ DropIntakes(s1, T).bound = s.bound
  BY <1>1, <1>2, KeepsOn
<1> QED BY <1>3 DEF ReleaseShadows

\* With no other owner in view in its camera, a track has none to share with
\* once those out of view are retired.
LEMMA ClearNonvisibleKeeps ==
  ASSUME NEW s \in Memory, NEW m, NEW t \in Tracks
  PROVE  /\ Keeps(s, ClearNonvisibleOwners(s, m, t))
         /\ t \in DOMAIN s.bound => t \in DOMAIN ClearNonvisibleOwners(s, m, t).bound
         /\ t \in DOMAIN s.intake => t \in DOMAIN ClearNonvisibleOwners(s, m, t).intake
         /\ VisibleOwners(s, m, t) = {} =>
              \A u \in DOMAIN ClearNonvisibleOwners(s, m, t).bound :
                u # t /\ CameraOf[u] = CameraOf[t] => ClearNonvisibleOwners(s, m, t).bound[u] # m
<1> DEFINE T == {u \in Peers(t) \cap DOMAIN s.bound : s.bound[u] = m /\ u \notin s.visible}
           r == ClearBindings(s, T)
<1>1. Keeps(s, r) /\ DOMAIN r.bound = DOMAIN s.bound \ T /\ DOMAIN r.intake = DOMAIN s.intake \ T
  BY ClearBindingsKeeps
<1>2. t \notin T
  BY DEF Peers
<1>3. ASSUME VisibleOwners(s, m, t) = {}, NEW u \in DOMAIN r.bound, u # t, CameraOf[u] = CameraOf[t]
      PROVE  r.bound[u] # m
  <2>1. u \in DOMAIN s.bound /\ u \notin T /\ r.bound[u] = s.bound[u] /\ DOMAIN s.bound \subseteq Tracks
    BY <1>1, DictFacts DEF Keeps, Memory
  <2>2. u \in Peers(t)
    BY <1>3, <2>1 DEF Peers, Of
  <2> QED BY <1>3, <2>1, <2>2 DEF VisibleOwners
<1> HIDE DEF T
<1>4. ClearNonvisibleOwners(s, m, t) = r
  BY DEF ClearNonvisibleOwners, T
<1> QED BY <1>1, <1>2, <1>3, <1>4

LEMMA RefreshKeeps ==
  ASSUME NEW s \in Memory, NEW t \in Tracks, NEW keep \in BOOLEAN
  PROVE  Keeps(s, Refresh(s, t, keep)) /\ Refresh(s, t, keep).bound = s.bound
<1>1. Keeps(s, s)
  BY KeepsSelf
<1>2. Keeps(s, DropRecovery(s, {t})) /\ DropRecovery(s, {t}).bound = s.bound
  BY DropRecoveryKeeps DEF DropRecovery, Memory
<1>3. Keeps(s, ReleaseRecovery(s, {t})) /\ ReleaseRecovery(s, {t}).bound = s.bound
  BY ReleaseRecoveryKeeps DEF ReleaseRecovery, Rearm, Memory
<1>4. ASSUME t \in DOMAIN s.recovery
      PROVE  /\ Keeps(s, [s EXCEPT !.recovery[t] = @ \cup Related(s, t)])
             /\ [s EXCEPT !.recovery[t] = @ \cup Related(s, t)].bound = s.bound
  <2> DEFINE f == [s.recovery EXCEPT ![t] = @ \cup Related(s, t)]
  <2>1. s.recovery \in Dict(Tracks, SUBSET Nat)
    BY DEF Memory
  <2>2. /\ s.recovery = [x \in DOMAIN s.recovery |-> s.recovery[x]]
        /\ DOMAIN s.recovery \subseteq Tracks /\ \A x \in DOMAIN s.recovery : s.recovery[x] \in SUBSET Nat
    BY <2>1, DictFacts
  <2>3. Related(s, t) \subseteq Nat
    <3>1. s.conflict \in Dict(Nat, Conflict)
      BY DEF Memory
    <3> QED BY <3>1, DictFacts DEF Related
  <2>4. f = [x \in DOMAIN f |-> f[x]] /\ DOMAIN f \subseteq Tracks /\ \A x \in DOMAIN f : f[x] \in SUBSET Nat
    BY <2>2, <2>3
  <2> HIDE DEF f
  <2>5. f \in Dict(Tracks, SUBSET Nat)
    BY <2>4, DictFacts
  <2>6. Keeps(s, [s EXCEPT !.recovery = f]) /\ [s EXCEPT !.recovery = f].bound = s.bound
    BY <2>5 DEF Keeps, Memory
  <2>7. [s EXCEPT !.recovery[t] = @ \cup Related(s, t)] = [s EXCEPT !.recovery = f]
    BY DEF Memory, f
  <2> QED BY <2>6, <2>7
<1> QED BY <1>1, <1>2, <1>3, <1>4 DEF Refresh

LEMMA VanishKeeps ==
  ASSUME NEW s \in Memory, NEW gone
  PROVE  /\ Keeps(s, Vanish(s, gone))
         /\ gone \cap DOMAIN Vanish(s, gone).intake = {}
<1>1. CASE gone = {}
  BY <1>1, KeepsSelf DEF Vanish
<1>2. CASE gone # {}
  <2> DEFINE s1 == [s EXCEPT !.rejected = [t \in Tracks |-> IF t \in gone THEN {} ELSE @[t]]]
             s2 == CancelConflicts(s1, ConflictsOf(s1, gone))
             s3 == DropRecovery(s2, gone)
             s4 == DropIntakes(s3, gone)
             r == [s4 EXCEPT !.shadow = Without(@, gone)]
  <2>1. Keeps(s, s1) /\ s1 \in Memory
    BY DEF Keeps, Memory
  <2> HIDE DEF s1
  <2>2. Keeps(s, s2) /\ s2 \in Memory
    BY <2>1, CancelConflictsKeeps, KeepsOn DEF Keeps
  <2> HIDE DEF s2
  <2>3. Keeps(s, s3) /\ s3 \in Memory
    BY <2>2, DropRecoveryKeeps, KeepsOn DEF Keeps
  <2> HIDE DEF s3
  <2>4. Keeps(s3, s4) /\ s4 \in Memory /\ DOMAIN s4.intake = DOMAIN s3.intake \ gone
    BY <2>3, DropIntakesKeeps DEF Keeps
  <2> HIDE DEF s4
  <2>5. Keeps(s, s4)
    BY <2>3, <2>4, KeepsOn
  <2>6. Keeps(s4, r) /\ r.intake = s4.intake
    <3>1. /\ Without(s4.shadow, gone) \in Dict(Tracks, Shadow)
          /\ DOMAIN Without(s4.shadow, gone) = DOMAIN s4.shadow \ gone
          /\ \A t \in DOMAIN Without(s4.shadow, gone) : Without(s4.shadow, gone)[t] = s4.shadow[t]
      BY <2>4, PopFacts, WithoutFacts
    <3> QED BY <2>4, <3>1 DEF Keeps, Memory
  <2>7. Keeps(s, r) /\ gone \cap DOMAIN r.intake = {}
    BY <2>4, <2>5, <2>6, KeepsOn
  <2>8. Vanish(s, gone) = r
    BY <1>2 DEF Vanish, s1, s2, s3, s4
  <2> QED BY <2>7, <2>8
<1> QED BY <1>1, <1>2

LEMMA FollowKeeps ==
  ASSUME NEW s \in Memory, NEW T
  PROVE  Keeps(s, FollowCanonical(s, T)) /\ FollowCanonical(s, T).bound = s.bound
         /\ FollowCanonical(s, T).intake = s.intake
<1> DEFINE f == [k \in DOMAIN s.shadow |->
                   IF k \in T /\ MappedTo(s, s.shadow[k].canon) # {}
                     THEN [s.shadow[k] EXCEPT !.id = MappedTo(s, s.shadow[k].canon)]
                     ELSE s.shadow[k]]
<1>1. s.shadow \in Dict(Tracks, Shadow) /\ s.bound \in Dict(Tracks, Nat)
  BY DEF Memory
<1>2. /\ DOMAIN s.shadow \subseteq Tracks /\ \A k \in DOMAIN s.shadow : s.shadow[k] \in Shadow
      /\ \A u \in DOMAIN s.bound : s.bound[u] \in Nat
  BY <1>1, DictFacts
<1>3. \A u : MappedTo(s, u) \subseteq Nat /\ MappedTo(s, u) \subseteq {s.bound[x] : x \in DOMAIN s.bound}
  BY <1>2 DEF MappedTo
<1>4. \A k \in DOMAIN s.shadow : /\ f[k] \in Shadow
                                /\ f[k].id \subseteq s.shadow[k].id \cup {s.bound[x] : x \in DOMAIN s.bound}
  BY <1>2, <1>3 DEF Shadow
<1>5. f = [x \in DOMAIN f |-> f[x]] /\ DOMAIN f = DOMAIN s.shadow
  OBVIOUS
<1> HIDE DEF f
<1>6. f \in Dict(Tracks, Shadow)
  BY <1>2, <1>4, <1>5, DictFacts
<1>7. Keeps(s, [s EXCEPT !.shadow = f])
  BY <1>4, <1>5, <1>6 DEF Keeps, Memory
<1>8. FollowCanonical(s, T) = s \/ FollowCanonical(s, T) = [s EXCEPT !.shadow = f]
  BY DEF FollowCanonical, f
<1> QED BY <1>7, <1>8, KeepsSelf DEF Memory

LEMMA PositionKeeps ==
  ASSUME NEW s \in Memory, NEW m, NEW t
  PROVE  Keeps(s, PositionAgrees(s, m, t)) /\ PositionAgrees(s, m, t).bound = s.bound
<1>1. CancelConflicts(s, {m}).bound = s.bound
  BY DEF CancelConflicts, ReleaseRecovery, Rearm, Memory
<1> QED BY <1>1, CancelConflictsKeeps, KeepsSelf DEF PositionAgrees

-----------------------------------------------------------------------------
(* The invariant of the memory.                                             *)

\* Masters that are mentioned exist; a numbered track has no other role; a
\* master has one owner in a camera, but for those in W; a contest has one
\* challenger; an intake has a generation its track has reached.
Existing(s) ==
  /\ \A t \in DOMAIN s.bound : s.bound[t] \in 1..s.masters
  /\ \A t \in DOMAIN s.intake : s.intake[t].handoff \subseteq 1..s.masters
  /\ \A t \in DOMAIN s.shadow : s.shadow[t].id \subseteq 1..s.masters
  /\ DOMAIN s.conflict \subseteq 1..s.masters
Roles(s) == DOMAIN s.bound \cap (DOMAIN s.intake \cup DOMAIN s.shadow) = {}
Owners(s, W) ==
  \A t, u \in DOMAIN s.bound :
    CameraOf[t] = CameraOf[u] /\ s.bound[t] = s.bound[u] => t = u \/ s.bound[t] \in W
OneChallenger(s) == \A m \in DOMAIN s.conflict : \A t, u \in s.conflict[m].challenger : t = u
Generations(s) == \A t \in DOMAIN s.intake : s.intake[t].gen <= s.gen[t]

Proper(s, W) ==
  s \in Memory /\ Existing(s) /\ Roles(s) /\ Owners(s, W) /\ OneChallenger(s) /\ Generations(s)

\* What a step may do: masters and generations grow, an intake that is new or
\* repeated has a new generation, and only the tracks of G gain a master.
Moves(s, r, G) ==
  /\ r.masters >= s.masters
  /\ \A t \in Tracks : r.gen[t] >= s.gen[t]
  /\ \A t \in DOMAIN r.intake :
       r.intake[t].gen > s.gen[t] \/ (t \in DOMAIN s.intake /\ r.intake[t].gen >= s.intake[t].gen)
  /\ \A t \in DOMAIN r.bound \ G : t \in DOMAIN s.bound /\ r.bound[t] = s.bound[t]

LEMMA MemoryFacts ==
  ASSUME NEW s \in Memory
  PROVE  /\ s.visible \subseteq Tracks /\ s.masters \in Nat /\ s.gen \in [Tracks -> Nat]
         /\ s.token \in Nat /\ s.rejected \in [Tracks -> SUBSET Nat]
         /\ DOMAIN s.bound \subseteq Tracks /\ \A t \in DOMAIN s.bound : s.bound[t] \in Nat
         /\ DOMAIN s.intake \subseteq Tracks /\ \A t \in DOMAIN s.intake : s.intake[t] \in Intake
         /\ DOMAIN s.shadow \subseteq Tracks /\ \A t \in DOMAIN s.shadow : s.shadow[t] \in Shadow
         /\ DOMAIN s.conflict \subseteq Nat /\ \A m \in DOMAIN s.conflict : s.conflict[m] \in Conflict
<1>1. /\ s.visible \subseteq Tracks /\ s.masters \in Nat /\ s.gen \in [Tracks -> Nat]
      /\ s.token \in Nat /\ s.rejected \in [Tracks -> SUBSET Nat]
      /\ s.bound \in Dict(Tracks, Nat) /\ s.intake \in Dict(Tracks, Intake)
      /\ s.shadow \in Dict(Tracks, Shadow) /\ s.conflict \in Dict(Nat, Conflict)
  BY DEF Memory
<1> QED BY <1>1, DictFacts

LEMMA KeepsProper ==
  ASSUME NEW s, NEW r, NEW W, Proper(s, W), Keeps(s, r)
  PROVE  Proper(r, W) /\ Moves(s, r, {})
<1>0. s \in Memory /\ r \in Memory
  BY DEF Proper, Keeps
<1>1. {s.bound[u] : u \in DOMAIN s.bound} \subseteq 1..s.masters
  BY DEF Proper, Existing
<1>2. Existing(r)
  BY <1>1 DEF Proper, Existing, Keeps
<1>3. Roles(r)
  BY DEF Proper, Roles, Keeps
<1>4. Owners(r, W)
  BY DEF Proper, Owners, Keeps
<1>5. OneChallenger(r)
  BY DEF Proper, OneChallenger, Keeps
<1>6. Generations(r)
  <2> SUFFICES ASSUME NEW t \in DOMAIN r.intake PROVE r.intake[t].gen <= r.gen[t]
    BY DEF Generations
  <2>1. t \in DOMAIN s.intake /\ r.intake[t].gen = s.intake[t].gen /\ s.intake[t].gen <= s.gen[t]
    BY DEF Proper, Generations, Keeps
  <2>2. t \in Tracks /\ s.intake[t].gen \in Nat /\ s.gen[t] \in Nat /\ r.gen[t] \in Nat
    BY <1>0, <2>1, MemoryFacts DEF Intake
  <2>3. r.gen[t] >= s.gen[t]
    BY <2>2 DEF Keeps
  <2> QED BY <2>1, <2>2, <2>3
<1>7. Moves(s, r, {})
  <2>1. r.masters >= s.masters
    BY <1>0, MemoryFacts DEF Keeps
  <2>2. \A t \in DOMAIN r.intake : t \in DOMAIN s.intake /\ r.intake[t].gen >= s.intake[t].gen
    BY <1>0, MemoryFacts DEF Keeps, Intake
  <2> QED BY <2>1, <2>2 DEF Keeps, Moves
<1> QED BY <1>0, <1>2, <1>3, <1>4, <1>5, <1>6, <1>7 DEF Proper

LEMMA MovesOn ==
  ASSUME NEW s \in Memory, NEW r \in Memory, NEW q \in Memory, NEW G, NEW H,
         Moves(s, r, G), Moves(r, q, H)
  PROVE  Moves(s, q, G \cup H)
<1>1. q.masters >= s.masters
  BY MemoryFacts DEF Moves
<1>2. \A t \in Tracks : /\ s.gen[t] \in Nat /\ r.gen[t] \in Nat /\ q.gen[t] \in Nat
                       /\ r.gen[t] >= s.gen[t] /\ q.gen[t] >= r.gen[t]
  BY MemoryFacts DEF Moves
<1>3. ASSUME NEW t \in DOMAIN q.intake
      PROVE  q.intake[t].gen > s.gen[t] \/ (t \in DOMAIN s.intake /\ q.intake[t].gen >= s.intake[t].gen)
  <2>1. t \in Tracks /\ q.intake[t].gen \in Nat
    BY MemoryFacts DEF Intake
  <2>2. CASE q.intake[t].gen > r.gen[t]
    BY <1>2, <2>1, <2>2
  <2>3. CASE t \in DOMAIN r.intake /\ q.intake[t].gen >= r.intake[t].gen
    <3>1. r.intake[t].gen \in Nat
      BY <2>3, MemoryFacts DEF Intake
    <3>2. CASE r.intake[t].gen > s.gen[t]
      BY <1>2, <2>1, <2>3, <3>1, <3>2
    <3>3. CASE t \in DOMAIN s.intake /\ r.intake[t].gen >= s.intake[t].gen
      <4>1. s.intake[t].gen \in Nat
        BY <3>3, MemoryFacts DEF Intake
      <4> QED BY <2>1, <2>3, <3>1, <3>3, <4>1
    <3> QED BY <2>3, <3>2, <3>3 DEF Moves
  <2> QED BY <2>2, <2>3 DEF Moves
<1>4. \A t \in DOMAIN q.bound \ (G \cup H) : t \in DOMAIN s.bound /\ q.bound[t] = s.bound[t]
  BY DEF Moves
<1> QED BY <1>1, <1>2, <1>3, <1>4 DEF Moves

\* A burst under way was taken of a generation its track has reached; if the
\* track has left since, the track has no intake of that generation.
BurstFits(s, b) ==
  /\ b.handoff \subseteq 1..s.masters
  /\ b.gen <= s.gen[b.track]
  /\ b.left /\ b.track \in DOMAIN s.intake => s.intake[b.track].gen > b.gen
TaskFits(s, task) == task \in Task /\ (task \in IntakeTask => BurstFits(s, task))

LEMMA MovesFits ==
  ASSUME NEW s \in Memory, NEW r \in Memory, NEW G, Moves(s, r, G), NEW task, TaskFits(s, task)
  PROVE  TaskFits(r, task)
<1> SUFFICES ASSUME task \in IntakeTask PROVE BurstFits(r, task)
  BY DEF TaskFits
<1>1. /\ task.track \in Tracks /\ task.gen \in Nat /\ task.left \in BOOLEAN
      /\ BurstFits(s, task)
  BY DEF TaskFits, IntakeTask
<1>2. task.handoff \subseteq 1..r.masters
  <2>1. s.masters \in Nat /\ r.masters \in Nat /\ r.masters >= s.masters
    BY MemoryFacts DEF Moves
  <2> QED BY <1>1, <2>1 DEF BurstFits
<1>3. /\ s.gen[task.track] \in Nat /\ r.gen[task.track] \in Nat /\ r.gen[task.track] >= s.gen[task.track]
      /\ task.gen <= s.gen[task.track]
  BY <1>1, MemoryFacts DEF Moves, BurstFits
<1>4. ASSUME task.left, task.track \in DOMAIN r.intake
      PROVE  r.intake[task.track].gen > task.gen
  <2>1. r.intake[task.track].gen \in Nat
    BY <1>4, MemoryFacts DEF Intake
  <2>2. CASE r.intake[task.track].gen > s.gen[task.track]
    BY <1>1, <1>3, <2>1, <2>2
  <2>3. CASE task.track \in DOMAIN s.intake /\ r.intake[task.track].gen >= s.intake[task.track].gen
    <3>1. s.intake[task.track].gen > task.gen /\ s.intake[task.track].gen \in Nat
      BY <1>1, <1>4, <2>3, MemoryFacts DEF BurstFits, Intake
    <3> QED BY <1>1, <2>1, <2>3, <3>1
  <2> QED BY <1>4, <2>2, <2>3 DEF Moves
<1> QED BY <1>1, <1>2, <1>3, <1>4 DEF BurstFits

-----------------------------------------------------------------------------
(* The steps that give something.                                           *)

\* A track is given a master and loses its other roles.
LEMMA Given ==
  ASSUME NEW s, NEW W, Proper(s, W), NEW t \in Tracks, NEW m \in 1..s.masters, NEW r \in Memory,
         r.masters = s.masters, r.gen = s.gen, r.conflict = s.conflict, r.bound = Set(s.bound, t, m),
         r.intake = Without(s.intake, {t}), r.shadow = Without(s.shadow, {t}),
         m \in W \/ \A u \in DOMAIN s.bound : u # t /\ CameraOf[u] = CameraOf[t] => s.bound[u] # m
  PROVE  Proper(r, W) /\ Moves(s, r, {t})
<1>0. s \in Memory
  BY DEF Proper
<1>1. /\ DOMAIN r.bound = DOMAIN s.bound \cup {t} /\ r.bound[t] = m
      /\ \A u \in DOMAIN s.bound \ {t} : r.bound[u] = s.bound[u]
  <2>1. /\ DOMAIN Set(s.bound, t, m) = DOMAIN s.bound \cup {t} /\ Set(s.bound, t, m)[t] = m
        /\ \A u \in DOMAIN s.bound \ {t} : Set(s.bound, t, m)[u] = s.bound[u]
    <3>1. DOMAIN Set(s.bound, t, m) = DOMAIN s.bound \cup {t}
      BY SetDomain
    <3>2. Set(s.bound, t, m)[t] = m
      BY SetHere
    <3>3. \A u \in DOMAIN s.bound \ {t} : Set(s.bound, t, m)[u] = s.bound[u]
      BY SetElsewhere
    <3> QED BY <3>1, <3>2, <3>3
  <2> QED BY <2>1
<1>2. /\ DOMAIN r.intake = DOMAIN s.intake \ {t} /\ \A u \in DOMAIN r.intake : r.intake[u] = s.intake[u]
      /\ DOMAIN r.shadow = DOMAIN s.shadow \ {t} /\ \A u \in DOMAIN r.shadow : r.shadow[u] = s.shadow[u]
  <2>1. /\ DOMAIN Without(s.intake, {t}) = DOMAIN s.intake \ {t}
        /\ \A u \in DOMAIN Without(s.intake, {t}) : Without(s.intake, {t})[u] = s.intake[u]
    BY WithoutFacts, Zenon
  <2>2. /\ DOMAIN Without(s.shadow, {t}) = DOMAIN s.shadow \ {t}
        /\ \A u \in DOMAIN Without(s.shadow, {t}) : Without(s.shadow, {t})[u] = s.shadow[u]
    BY WithoutFacts, Zenon
  <2> QED BY <2>1, <2>2
<1>3. Existing(r)
  BY <1>1, <1>2 DEF Proper, Existing
<1>4. Roles(r)
  BY <1>1, <1>2 DEF Proper, Roles
<1>5. Owners(r, W)
  <2> SUFFICES ASSUME NEW x \in DOMAIN r.bound, NEW y \in DOMAIN r.bound,
                      CameraOf[x] = CameraOf[y], r.bound[x] = r.bound[y]
               PROVE  x = y \/ r.bound[x] \in W
    BY DEF Owners
  <2>1. CASE x # t /\ y # t
    BY <1>1, <2>1 DEF Proper, Owners
  <2>2. CASE x = t
    BY <1>1, <2>2
  <2>3. CASE y = t
    BY <1>1, <2>3
  <2> QED BY <2>1, <2>2, <2>3
<1>6. OneChallenger(r) /\ Generations(r)
  BY <1>2 DEF Proper, OneChallenger, Generations
<1>7. Moves(s, r, {t})
  <2>1. \A u \in DOMAIN r.intake : u \in DOMAIN s.intake /\ r.intake[u].gen >= s.intake[u].gen
    <3> TAKE u \in DOMAIN r.intake
    <3>1. u \in DOMAIN s.intake /\ r.intake[u] = s.intake[u]
      BY <1>2
    <3>2. s.intake[u].gen \in Nat
      BY <1>0, <3>1, MemoryFacts DEF Intake
    <3> QED BY <3>1, <3>2
  <2>2. r.masters >= s.masters /\ \A u \in Tracks : r.gen[u] >= s.gen[u]
    BY <1>0, MemoryFacts
  <2>3. \A u \in DOMAIN r.bound \ {t} : u \in DOMAIN s.bound /\ r.bound[u] = s.bound[u]
    BY <1>1
  <2> QED BY <2>1, <2>2, <2>3 DEF Moves
<1> QED BY <1>3, <1>4, <1>5, <1>6, <1>7 DEF Proper

\* The dictionaries of the memory after an assignment to a key.
LEMMA SetMemory ==
  ASSUME NEW s \in Memory, NEW t \in Tracks
  PROVE  /\ \A m \in Nat : Set(s.bound, t, m) \in Dict(Tracks, Nat)
         /\ \A m \in Nat : Set(s.tentative, t, m) \in Dict(Tracks, Nat)
         /\ \A x \in Intake : Set(s.intake, t, x) \in Dict(Tracks, Intake)
         /\ \A x \in Shadow : Set(s.shadow, t, x) \in Dict(Tracks, Shadow)
         /\ \A M \in SUBSET Nat : Set(s.recovery, t, M) \in Dict(Tracks, SUBSET Nat)
         /\ \A m \in Nat, c \in Conflict : Set(s.conflict, m, c) \in Dict(Nat, Conflict)
<1>1. /\ s.bound \in Dict(Tracks, Nat) /\ s.tentative \in Dict(Tracks, Nat)
      /\ s.intake \in Dict(Tracks, Intake) /\ s.shadow \in Dict(Tracks, Shadow)
      /\ s.recovery \in Dict(Tracks, SUBSET Nat) /\ s.conflict \in Dict(Nat, Conflict)
  BY DEF Memory
<1> QED BY <1>1, SetDict

LEMMA BindGives ==
  ASSUME NEW s, NEW W, Proper(s, W), NEW t \in Tracks, NEW m \in 1..s.masters,
         \A u \in DOMAIN s.bound : u # t /\ CameraOf[u] = CameraOf[t] => s.bound[u] # m
  PROVE  Proper(Bind(s, t, m), W) /\ Moves(s, Bind(s, t, m), {t}) /\ Bind(s, t, m).visible = s.visible
<1> DEFINE s1 == DropRecovery(s, {t})
           r == Bind(s, t, m)
<1>0. s \in Memory /\ m \in Nat
  BY MemoryFacts DEF Proper
<1>1. s1 \in Memory
  BY <1>0, DropRecoveryKeeps DEF Keeps
<1>2. /\ s1.masters = s.masters /\ s1.gen = s.gen /\ s1.conflict = s.conflict /\ s1.bound = s.bound
      /\ s1.intake = s.intake /\ s1.shadow = s.shadow /\ s1.tentative = s.tentative /\ s1.visible = s.visible
  BY <1>0 DEF DropRecovery, Memory
<1>3. /\ Set(s.bound, t, m) \in Dict(Tracks, Nat)
      /\ Without(s.tentative, {t}) \in Dict(Tracks, Nat)
      /\ Without(s.intake, {t}) \in Dict(Tracks, Intake)
      /\ Without(s.shadow, {t}) \in Dict(Tracks, Shadow)
      /\ [s1.rejected EXCEPT ![t] = {}] \in [Tracks -> SUBSET Nat]
  <2>1. s1.rejected \in [Tracks -> SUBSET Nat]
    BY <1>1, MemoryFacts
  <2> HIDE DEF s1
  <2> QED BY <1>0, <2>1, SetMemory, PopFacts
<1>4. r = [s1 EXCEPT !.bound = Set(@, t, m), !.rejected[t] = {},
                !.tentative = Without(@, {t}), !.intake = Without(@, {t}),
                !.shadow = Without(@, {t})]
  BY DEF Bind
<1> HIDE DEF s1
<1>5. /\ r \in Memory /\ r.masters = s.masters /\ r.gen = s.gen /\ r.conflict = s.conflict
      /\ r.bound = Set(s.bound, t, m) /\ r.visible = s.visible
      /\ r.intake = Without(s.intake, {t}) /\ r.shadow = Without(s.shadow, {t})
  <2> DEFINE f == [s1.rejected EXCEPT ![t] = {}]
  <2>1. r = [s1 EXCEPT !.bound = Set(@, t, m), !.rejected = f, !.tentative = Without(@, {t}),
                       !.intake = Without(@, {t}), !.shadow = Without(@, {t})]
    BY <1>1, <1>4 DEF Memory
  <2>2. f \in [Tracks -> SUBSET Nat]
    BY <1>3
  <2> HIDE DEF f, r
  <2> QED BY <1>1, <1>2, <1>3, <2>1, <2>2 DEF Memory
<1> HIDE DEF r
<1>6. Proper(r, W) /\ Moves(s, r, {t})
  BY <1>5, Given
<1> QED BY <1>5, <1>6 DEF r

LEMMA PromoteGives ==
  ASSUME NEW s, NEW W, Proper(s, W), NEW t \in Tracks, NEW m \in 1..s.masters,
         VisibleOwners(s, m, t) = {}
  PROVE  /\ Proper(Promote(s, t, m), W) /\ Moves(s, Promote(s, t, m), {t})
         /\ Promote(s, t, m).visible = s.visible
         /\ t \in DOMAIN Promote(s, t, m).bound
<1> DEFINE s1 == ClearNonvisibleOwners(s, m, t)
           r == Promote(s, t, m)
<1>0. s \in Memory /\ m \in Nat
  BY MemoryFacts DEF Proper
<1>1. /\ Keeps(s, s1) /\ s1 \in Memory
      /\ \A u \in DOMAIN s1.bound : u # t /\ CameraOf[u] = CameraOf[t] => s1.bound[u] # m
  BY <1>0, ClearNonvisibleKeeps DEF Keeps
<1>2. r = [s1 EXCEPT !.bound = Set(@, t, m), !.tentative = Without(@, {t}),
                !.intake = Without(@, {t}), !.shadow = Without(@, {t})]
  BY DEF Promote
<1> HIDE DEF s1
<1>3. Proper(s1, W) /\ Moves(s, s1, {}) /\ s1.masters = s.masters /\ s1.visible = s.visible
  BY <1>1, KeepsProper DEF Keeps
<1>4. /\ Set(s1.bound, t, m) \in Dict(Tracks, Nat)
      /\ Without(s1.tentative, {t}) \in Dict(Tracks, Nat)
      /\ Without(s1.intake, {t}) \in Dict(Tracks, Intake)
      /\ Without(s1.shadow, {t}) \in Dict(Tracks, Shadow)
  BY <1>0, <1>1, SetMemory, PopFacts
<1>5. /\ r \in Memory /\ r.masters = s1.masters /\ r.gen = s1.gen /\ r.conflict = s1.conflict
      /\ r.bound = Set(s1.bound, t, m) /\ r.visible = s1.visible
      /\ r.intake = Without(s1.intake, {t}) /\ r.shadow = Without(s1.shadow, {t})
  BY <1>1, <1>2, <1>4 DEF Memory
<1> HIDE DEF r
<1>6. Proper(r, W) /\ Moves(s1, r, {t})
  BY <1>1, <1>3, <1>5, Given
<1>7. Moves(s, r, {} \cup {t})
  BY <1>0, <1>1, <1>3, <1>5, <1>6, MovesOn
<1>8. t \in DOMAIN r.bound
  <2>1. t \in DOMAIN Set(s1.bound, t, m)
    <3>1. DOMAIN Set(s1.bound, t, m) = DOMAIN s1.bound \cup {t}
      BY SetDomain
    <3> QED BY <3>1
  <2> QED BY <1>5, <2>1
<1> QED BY <1>3, <1>5, <1>6, <1>7, <1>8 DEF r

\* What a handler may do to the queue.
QueueMoves(r) ==
  queue' = queue \/ \E task \in Task : queue' = Append(queue, task) /\ TaskFits(r, task)

LEMMA CollectGives ==
  ASSUME mem \in Memory, NEW s0, NEW W, Proper(s0, W), NEW t \in Tracks, t \notin DOMAIN s0.bound,
         NEW handoff \in SUBSET (1..s0.masters), NEW from \in SUBSET Tracks,
         CollectIntake(s0, t, handoff, from)
  PROVE  Proper(mem', W) /\ Moves(s0, mem', {}) /\ QueueMoves(mem') /\ mem'.visible = s0.visible
<1> DEFINE s == IF t \in DOMAIN s0.intake THEN s0 ELSE NewIntake(s0, t, handoff, from)
<1>0. s0 \in Memory
  BY DEF Proper
<1>1. Proper(s, W) /\ Moves(s0, s, {}) /\ s.visible = s0.visible /\ t \in DOMAIN s.intake
  <2>1. CASE t \in DOMAIN s0.intake
    BY <1>0, <2>1, KeepsSelf, KeepsProper
  <2>2. CASE t \notin DOMAIN s0.intake
    <3> DEFINE x == [gen |-> s0.gen[t] + 1, submitted |-> FALSE,
                     handoff |-> handoff, from |-> from, deferred |-> {}]
               r == NewIntake(s0, t, handoff, from)
    <3>1. x \in Intake /\ s0.gen[t] \in Nat
      BY <1>0, MemoryFacts DEF Intake
    <3>2. /\ Set(s0.intake, t, x) \in Dict(Tracks, Intake)
          /\ DOMAIN Set(s0.intake, t, x) = DOMAIN s0.intake \cup {t}
          /\ Set(s0.intake, t, x)[t] = x
          /\ \A u \in DOMAIN s0.intake \ {t} : Set(s0.intake, t, x)[u] = s0.intake[u]
      <4> HIDE DEF x
      <4>1. Set(s0.intake, t, x) \in Dict(Tracks, Intake)
        BY <1>0, <3>1, SetMemory
      <4>2. DOMAIN Set(s0.intake, t, x) = DOMAIN s0.intake \cup {t}
        BY SetDomain
      <4>3. Set(s0.intake, t, x)[t] = x
        BY SetHere
      <4>4. \A u \in DOMAIN s0.intake \ {t} : Set(s0.intake, t, x)[u] = s0.intake[u]
        BY SetElsewhere
      <4> QED BY <4>1, <4>2, <4>3, <4>4
    <3>3. r = [s0 EXCEPT !.gen[t] = @ + 1, !.intake = Set(@, t, x)]
      BY DEF NewIntake
    <3>4. x.handoff \subseteq 1..s0.masters /\ x.gen = s0.gen[t] + 1
      OBVIOUS
    <3> DEFINE g == [s0.gen EXCEPT ![t] = @ + 1]
    <3>12. g \in [Tracks -> Nat]
      BY <1>0, MemoryFacts
    <3>13. r = [s0 EXCEPT !.gen = g, !.intake = Set(@, t, x)]
      BY <1>0, <3>3 DEF Memory
    <3> HIDE DEF x, r
    <3>5. /\ r \in Memory /\ r.masters = s0.masters /\ r.visible = s0.visible /\ r.bound = s0.bound
          /\ r.shadow = s0.shadow /\ r.conflict = s0.conflict /\ r.intake = Set(s0.intake, t, x)
          /\ r.gen = [s0.gen EXCEPT ![t] = @ + 1]
      <4> HIDE DEF g
      <4>1. /\ r \in Memory /\ r.masters = s0.masters /\ r.visible = s0.visible /\ r.bound = s0.bound
            /\ r.shadow = s0.shadow /\ r.conflict = s0.conflict /\ r.intake = Set(s0.intake, t, x)
            /\ r.gen = g
        BY <1>0, <3>1, <3>2, <3>12, <3>13 DEF Memory
      <4> QED BY <4>1 DEF g
    <3>6. \A u \in Tracks : /\ s0.gen[u] \in Nat /\ r.gen[u] >= s0.gen[u]
                           /\ r.gen[u] = IF u = t THEN s0.gen[t] + 1 ELSE s0.gen[u]
      BY <1>0, <3>5, MemoryFacts
    <3>7. Existing(r)
      BY <3>2, <3>4, <3>5 DEF Proper, Existing
    <3>8. Roles(r) /\ Owners(r, W) /\ OneChallenger(r)
      BY <3>2, <3>5 DEF Proper, Roles, Owners, OneChallenger
    <3>9. Generations(r)
      BY <1>0, <3>1, <3>2, <3>4, <3>5, <3>6, MemoryFacts DEF Proper, Generations
    <3>10. Moves(s0, r, {})
      <4>1. r.masters >= s0.masters
        BY <1>0, <3>5, MemoryFacts
      <4>2. ASSUME NEW u \in DOMAIN r.intake
            PROVE  r.intake[u].gen > s0.gen[u] \/ (u \in DOMAIN s0.intake /\ r.intake[u].gen >= s0.intake[u].gen)
        <5>1. CASE u = t
          BY <3>1, <3>2, <3>4, <3>5, <5>1
        <5>2. CASE u # t
          <6>1. u \in DOMAIN s0.intake /\ r.intake[u] = s0.intake[u] /\ s0.intake[u].gen \in Nat
            BY <1>0, <3>2, <3>5, <5>2, MemoryFacts DEF Intake
          <6> QED BY <6>1
        <5> QED BY <5>1, <5>2
      <4> QED BY <3>5, <3>6, <4>1, <4>2 DEF Moves
    <3>11. t \in DOMAIN r.intake
      BY <3>2, <3>5
    <3> QED BY <2>2, <3>5, <3>7, <3>8, <3>9, <3>10, <3>11 DEF Proper, r
  <2> QED BY <2>1, <2>2
<1>2. (mem' = s /\ queue' = queue)
      \/ (mem' = [s EXCEPT !.intake[t].submitted = TRUE] /\ queue' = Append(queue, Burst(s, t)))
  BY DEF CollectIntake
<1> HIDE DEF s
<1>3. s \in Memory
  BY <1>1 DEF Proper
<1>4. CASE mem' = s /\ queue' = queue
  BY <1>1, <1>4 DEF QueueMoves
<1>5. CASE mem' = [s EXCEPT !.intake[t].submitted = TRUE] /\ queue' = Append(queue, Burst(s, t))
  <2> DEFINE f == [s.intake EXCEPT ![t].submitted = TRUE]
             r == [s EXCEPT !.intake = f]
  <2>1. /\ DOMAIN f = DOMAIN s.intake /\ f = [u \in DOMAIN f |-> f[u]]
        /\ \A u \in DOMAIN s.intake : /\ f[u] \in Intake /\ f[u].handoff = s.intake[u].handoff
                                      /\ f[u].gen = s.intake[u].gen
    <3>1. DOMAIN f = DOMAIN s.intake /\ f = [u \in DOMAIN f |-> f[u]]
      OBVIOUS
    <3>2. ASSUME NEW u \in DOMAIN s.intake
          PROVE  f[u] \in Intake /\ f[u].handoff = s.intake[u].handoff /\ f[u].gen = s.intake[u].gen
      <4>1. s.intake[u] \in Intake
        BY <1>3, MemoryFacts
      <4>2. f[u] = s.intake[u] \/ f[u] = [s.intake[u] EXCEPT !.submitted = TRUE]
        OBVIOUS
      <4> HIDE DEF f
      <4> QED BY <4>1, <4>2 DEF Intake
    <3> QED BY <3>1, <3>2
  <2>2. mem' = r
    BY <1>3, <1>5 DEF Memory
  <2> HIDE DEF f
  <2>3. f \in Dict(Tracks, Intake)
    BY <1>3, <2>1, MemoryFacts, DictFacts
  <2>4. Keeps(s, r)
    BY <1>3, <2>1, <2>3 DEF Keeps, Memory
  <2> HIDE DEF r
  <2>5. Proper(r, W) /\ Moves(s, r, {}) /\ r.visible = s.visible /\ r \in Memory
    BY <1>1, <2>4, KeepsProper DEF Keeps
  <2>6. Moves(s0, r, {} \cup {})
    BY <1>0, <1>1, <1>3, <2>5, MovesOn
  <2>7. /\ Burst(s, t) \in IntakeTask /\ Burst(s, t).handoff = s.intake[t].handoff
        /\ Burst(s, t).gen = s.intake[t].gen /\ Burst(s, t).left = FALSE /\ Burst(s, t).track = t
    <3>1. s.intake[t] \in Intake /\ s.rejected[t] \in SUBSET Nat /\ s.visible \subseteq Tracks
      BY <1>1, <1>3, MemoryFacts
    <3>2. ActiveIds(mem, CameraOf[t]) \subseteq Nat
      BY MemoryFacts DEF ActiveIds
    <3> QED BY <3>1, <3>2 DEF Burst, IntakeTask, Intake
  <2>8. BurstFits(s, Burst(s, t))
    BY <1>1, <2>7 DEF BurstFits, Proper, Existing, Generations
  <2>9. TaskFits(s, Burst(s, t))
    BY <2>7, <2>8 DEF TaskFits, Task
  <2>10. TaskFits(r, Burst(s, t))
    BY <1>3, <2>5, <2>9, MovesFits
  <2>11. QueueMoves(r)
    BY <1>5, <2>7, <2>10 DEF QueueMoves, Task
  <2> QED BY <1>1, <2>2, <2>5, <2>6, <2>11
<1> QED BY <1>2, <1>4, <1>5

\* A contest whose candidates stay what they are.
LEMMA ContestKeeps ==
  ASSUME NEW s \in Memory, NEW m \in DOMAIN s.conflict, NEW c \in Conflict,
         c.challenger = s.conflict[m].challenger
  PROVE  Keeps(s, [s EXCEPT !.conflict[m] = c])
<1> DEFINE f == [s.conflict EXCEPT ![m] = c]
<1>1. /\ f = [x \in DOMAIN f |-> f[x]] /\ DOMAIN f = DOMAIN s.conflict
      /\ \A x \in DOMAIN f : f[x] \in Conflict /\ f[x].challenger = s.conflict[x].challenger
  BY MemoryFacts
<1>2. [s EXCEPT !.conflict[m] = c] = [s EXCEPT !.conflict = f]
  BY DEF Memory
<1> HIDE DEF f
<1>3. f \in Dict(Nat, Conflict)
  BY <1>1, MemoryFacts, DictFacts
<1>4. Keeps(s, [s EXCEPT !.conflict = f])
  BY <1>1, <1>3 DEF Keeps, Memory
<1> QED BY <1>2, <1>4

LEMMA SampleGives ==
  ASSUME NEW s, NEW W, Proper(s, W), NEW m, NEW t \in Tracks, CollectSample(s, m, t)
  PROVE  Proper(mem', W) /\ Moves(s, mem', {}) /\ QueueMoves(mem') /\ mem'.visible = s.visible
<1>0. s \in Memory
  BY DEF Proper
<1>1. CASE mem' = s /\ queue' = queue
  BY <1>0, <1>1, KeepsSelf, KeepsProper DEF QueueMoves
<1>2. CASE /\ m \in DOMAIN s.conflict
           /\ LET ready == s.conflict[m].ready \cup {t}
                  full == ready = s.conflict[m].cands /\ HasRoom
              IN /\ mem' = [s EXCEPT !.conflict[m].ready = ready, !.conflict[m].submitted = full]
                 /\ queue' = IF full
                               THEN Append(queue, [type |-> "physical_conflict", master |-> m,
                                                   token |-> s.conflict[m].token])
                               ELSE queue
  <2> DEFINE ready == s.conflict[m].ready \cup {t}
             full == ready = s.conflict[m].cands /\ HasRoom
             c == [s.conflict[m] EXCEPT !.ready = ready, !.submitted = full]
             verdict == [type |-> "physical_conflict", master |-> m, token |-> s.conflict[m].token]
  <2>1. s.conflict[m] \in Conflict /\ m \in Nat
    BY <1>0, <1>2, MemoryFacts
  <2>2. ready \in SUBSET Tracks /\ full \in BOOLEAN
    BY <2>1 DEF Conflict
  <2>3. c \in Conflict /\ c.challenger = s.conflict[m].challenger
    BY <2>1, <2>2 DEF Conflict
  <2>4. mem' = [s EXCEPT !.conflict[m] = c]
    <3>1. mem' = [s EXCEPT !.conflict[m].ready = ready, !.conflict[m].submitted = full]
      BY <1>2
    <3> HIDE DEF ready, full
    <3> QED BY <1>0, <1>2, <2>1, <3>1 DEF Memory, Conflict
  <2>5. Keeps(s, mem')
    <3> HIDE DEF c
    <3>1. m \in DOMAIN s.conflict /\ c \in Conflict /\ c.challenger = s.conflict[m].challenger
      BY <1>2, <2>3
    <3>2. Keeps(s, [s EXCEPT !.conflict[m] = c])
      BY <1>0, <3>1, ContestKeeps
    <3> QED BY <2>4, <3>2
  <2>6. verdict \in ConflictTask
    BY <2>1 DEF ConflictTask, Conflict
  <2>7. verdict \in Task /\ verdict \notin IntakeTask
    BY <2>6 DEF Task, IntakeTask
  <2>8. QueueMoves(mem')
    BY <1>2, <2>7 DEF QueueMoves, TaskFits
  <2> QED BY <2>5, <2>8, KeepsProper DEF Keeps
<1> QED BY <1>1, <1>2 DEF CollectSample

\* A contest begins.
LEMMA ContestGives ==
  ASSUME NEW s, NEW W, Proper(s, W), NEW m \in 1..s.masters, NEW c \in Conflict,
         \A t, u \in c.challenger : t = u, NEW r \in Memory,
         r.masters = s.masters, r.gen = s.gen, r.bound = s.bound, r.shadow = s.shadow,
         r.conflict = Set(s.conflict, m, c), DOMAIN r.intake = DOMAIN s.intake,
         \A t \in DOMAIN r.intake : r.intake[t].handoff = s.intake[t].handoff /\ r.intake[t].gen = s.intake[t].gen
  PROVE  Proper(r, W) /\ Moves(s, r, {})
<1>0. s \in Memory
  BY DEF Proper
<1>1. DOMAIN r.conflict = DOMAIN s.conflict \cup {m}
  <2>1. DOMAIN Set(s.conflict, m, c) = DOMAIN s.conflict \cup {m}
    BY SetDomain
  <2> QED BY <2>1
<1>2. r.conflict[m] = c
  <2>1. Set(s.conflict, m, c)[m] = c
    BY SetHere
  <2> QED BY <2>1
<1>3. \A x \in DOMAIN s.conflict \ {m} : r.conflict[x] = s.conflict[x]
  <2>1. \A x \in DOMAIN s.conflict \ {m} : Set(s.conflict, m, c)[x] = s.conflict[x]
    BY SetElsewhere
  <2> QED BY <2>1
<1>4. Existing(r) /\ Roles(r) /\ Owners(r, W) /\ Generations(r)
  BY <1>1 DEF Proper, Existing, Roles, Owners, Generations
<1>5. OneChallenger(r)
  BY <1>1, <1>2, <1>3 DEF Proper, OneChallenger
<1>6. Moves(s, r, {})
  <2>1. r.masters >= s.masters /\ \A t \in Tracks : r.gen[t] >= s.gen[t]
    BY <1>0, MemoryFacts
  <2>2. \A t \in DOMAIN r.intake : t \in DOMAIN s.intake /\ r.intake[t].gen >= s.intake[t].gen
    <3> TAKE t \in DOMAIN r.intake
    <3>1. t \in DOMAIN s.intake /\ r.intake[t].gen = s.intake[t].gen /\ s.intake[t].gen \in Nat
      BY <1>0, MemoryFacts DEF Intake
    <3> QED BY <3>1
  <2> QED BY <2>1, <2>2 DEF Moves
<1> QED BY <1>4, <1>5, <1>6 DEF Proper

LEMMA LinkKeeps ==
  ASSUME NEW s \in Memory, NEW m \in Nat, NEW T
  PROVE  Keeps(s, LinkHolds(s, m, T))
<1> DEFINE f == [t \in DOMAIN s.recovery |->
                   IF t \notin T /\ \E u \in T : CameraOf[u] = CameraOf[t]
                     THEN s.recovery[t] \cup {m} ELSE s.recovery[t]]
<1>1. s.recovery \in Dict(Tracks, SUBSET Nat)
  BY DEF Memory
<1>2. DOMAIN s.recovery \subseteq Tracks /\ \A t \in DOMAIN s.recovery : s.recovery[t] \in SUBSET Nat
  BY <1>1, DictFacts
<1>3. f = [t \in DOMAIN f |-> f[t]] /\ DOMAIN f \subseteq Tracks /\ \A t \in DOMAIN f : f[t] \in SUBSET Nat
  BY <1>2
<1>4. LinkHolds(s, m, T) = [s EXCEPT !.recovery = f]
  BY DEF LinkHolds
<1> HIDE DEF f
<1>5. f \in Dict(Tracks, SUBSET Nat)
  BY <1>3, DictFacts
<1>6. Keeps(s, [s EXCEPT !.recovery = f])
  BY <1>5 DEF Keeps, Memory
<1> QED BY <1>4, <1>6

LEMMA LocationGives ==
  ASSUME NEW s, NEW W, Proper(s, W), NEW m \in 1..s.masters, NEW t \in Tracks, NEW other \in Tracks
  PROVE  /\ Proper(StartLocationConflict(s, m, t, other), W)
         /\ Moves(s, StartLocationConflict(s, m, t, other), {})
         /\ StartLocationConflict(s, m, t, other).visible = s.visible
<1> DEFINE T == {t, other}
           c == [token |-> s.token + 1, cands |-> T, ready |-> {}, submitted |-> FALSE,
                 challenger |-> {}, gen |-> 0]
           r == [s EXCEPT !.token = @ + 1, !.conflict = Set(@, m, c)]
           q == StartLocationConflict(s, m, t, other)
<1>0. s \in Memory /\ m \in Nat /\ s.token \in Nat
  BY MemoryFacts DEF Proper
<1>1. c \in Conflict /\ c.challenger = {}
  BY <1>0 DEF Conflict
<1>2. q = LinkHolds(r, m, T)
  BY DEF StartLocationConflict
<1> HIDE DEF c, T, q
<1>3. Set(s.conflict, m, c) \in Dict(Nat, Conflict)
  <2>1. s.conflict \in Dict(Nat, Conflict)
    BY <1>0 DEF Memory
  <2> QED BY <1>0, <1>1, <2>1, SetDict
<1>4. /\ r \in Memory /\ r.masters = s.masters /\ r.gen = s.gen /\ r.bound = s.bound
      /\ r.shadow = s.shadow /\ r.conflict = Set(s.conflict, m, c) /\ r.intake = s.intake
      /\ r.visible = s.visible
  <2> DEFINE token == s.token + 1
             f == Set(s.conflict, m, c)
  <2>1. token \in Nat
    BY <1>0
  <2>2. r = [s EXCEPT !.token = token, !.conflict = f]
    BY <1>0 DEF Memory
  <2> HIDE DEF token, r
  <2>3. f \in Dict(Nat, Conflict)
    BY <1>3
  <2>4. /\ r \in Memory /\ r.masters = s.masters /\ r.gen = s.gen /\ r.bound = s.bound
        /\ r.shadow = s.shadow /\ r.conflict = f /\ r.intake = s.intake /\ r.visible = s.visible
    <3> HIDE DEF f
    <3> QED BY <1>0, <2>1, <2>2, <2>3 DEF Memory
  <2> QED BY <2>4
<1> HIDE DEF r
<1>5. Proper(r, W) /\ Moves(s, r, {})
  BY <1>1, <1>4, ContestGives
<1>6. Keeps(r, q)
  BY <1>0, <1>2, <1>4, LinkKeeps
<1>7. Proper(q, W) /\ Moves(r, q, {}) /\ q.visible = r.visible /\ q \in Memory
  BY <1>5, <1>6, KeepsProper DEF Keeps
<1>8. Moves(s, q, {} \cup {})
  BY <1>0, <1>4, <1>5, <1>7, MovesOn
<1> QED BY <1>4, <1>7, <1>8 DEF q

LEMMA ServiceGives ==
  ASSUME mem \in Memory, NEW s, NEW W, Proper(s, W), NEW t \in Tracks, t \in DOMAIN s.bound,
         NEW handoff \in SUBSET (1..s.masters), NEW from \in SUBSET Tracks,
         ServiceBound(s, t, handoff, from)
  PROVE  Proper(mem', W) /\ Moves(s, mem', {}) /\ QueueMoves(mem') /\ mem'.visible = s.visible
<1> DEFINE m == s.bound[t]
<1>0. s \in Memory /\ m \in 1..s.masters
  BY DEF Proper, Existing
<1>1. CASE CollectSample(s, m, t)
  BY <1>1, SampleGives
<1>2. CASE CollectSample(PositionAgrees(s, m, t), m, t)
  <2> DEFINE r == PositionAgrees(s, m, t)
  <2>1. Keeps(s, r)
    BY <1>0, PositionKeeps
  <2>2. CollectSample(r, m, t)
    BY <1>2
  <2> HIDE DEF r, m
  <2>3. Proper(r, W) /\ Moves(s, r, {}) /\ r.visible = s.visible /\ r \in Memory
    BY <2>1, KeepsProper DEF Keeps
  <2>4. Proper(mem', W) /\ Moves(r, mem', {}) /\ QueueMoves(mem') /\ mem'.visible = r.visible
    BY <2>2, <2>3, SampleGives
  <2>5. Moves(s, mem', {} \cup {})
    BY <1>0, <2>3, <2>4, MovesOn DEF Proper
  <2> QED BY <2>3, <2>4, <2>5
<1>3. ASSUME NEW other \in OwnersElsewhere(s, m, t),
             CollectSample(StartLocationConflict(s, m, t, other), m, t)
      PROVE  Proper(mem', W) /\ Moves(s, mem', {}) /\ QueueMoves(mem') /\ mem'.visible = s.visible
  <2> DEFINE r == StartLocationConflict(s, m, t, other)
  <2>1. other \in Tracks
    BY <1>0, MemoryFacts DEF OwnersElsewhere
  <2>2. CollectSample(r, m, t)
    BY <1>3
  <2> HIDE DEF m
  <2>3. Proper(r, W) /\ Moves(s, r, {}) /\ r.visible = s.visible
    BY <1>0, <2>1, LocationGives
  <2> HIDE DEF r
  <2>4. Proper(mem', W) /\ Moves(r, mem', {}) /\ QueueMoves(mem') /\ mem'.visible = r.visible
    BY <2>2, <2>3, SampleGives
  <2>5. Moves(s, mem', {} \cup {})
    BY <1>0, <2>3, <2>4, MovesOn DEF Proper
  <2> QED BY <2>3, <2>4, <2>5
<1>4. CASE CollectIntake(ClearBindings(s, {t}), t, handoff, from)
  <2> DEFINE r == ClearBindings(s, {t})
  <2>1. Keeps(s, r) /\ t \notin DOMAIN r.bound
    BY <1>0, ClearBindingsKeeps
  <2>2. CollectIntake(r, t, handoff, from)
    BY <1>4
  <2> HIDE DEF r, m
  <2>3. /\ Proper(r, W) /\ Moves(s, r, {}) /\ r.visible = s.visible /\ r \in Memory
        /\ r.masters = s.masters
    BY <2>1, KeepsProper DEF Keeps
  <2>4. Proper(mem', W) /\ Moves(r, mem', {}) /\ QueueMoves(mem') /\ mem'.visible = r.visible
    BY <2>1, <2>2, <2>3, CollectGives
  <2>5. Moves(s, mem', {} \cup {})
    BY <1>0, <2>3, <2>4, MovesOn DEF Proper
  <2> QED BY <2>3, <2>4, <2>5
<1> QED BY <1>1, <1>2, <1>3, <1>4 DEF ServiceBound

-----------------------------------------------------------------------------
(* The actions of the camera loop and of the coordinator.                   *)

LEMMA ArriveKeeps ==
  ASSUME NEW s \in Memory, NEW t \in Tracks, NEW reset \in BOOLEAN, NEW keep \in BOOLEAN
  PROVE  Keeps(s, Arrive(s, t, reset, keep))
<1> DEFINE s0 == IF reset THEN ClearBindings(s, {t}) ELSE s
           s1 == Refresh(s0, t, keep)
<1>1. Keeps(s, s0) /\ s0 \in Memory
  <2>1. Keeps(s, ClearBindings(s, {t})) /\ Keeps(s, s)
    BY ClearBindingsKeeps, KeepsSelf
  <2> QED BY <2>1 DEF Keeps
<1> HIDE DEF s0
<1>2. Keeps(s, s1) /\ s1 \in Memory
  <2>1. Keeps(s0, s1)
    BY <1>1, RefreshKeeps
  <2>2. Keeps(s, s1)
    BY <1>1, <2>1, KeepsOn
  <2> QED BY <2>2 DEF Keeps
<1> HIDE DEF s1
<1>3. Keeps(s1, ReleaseShadows(s1, {t})) /\ Keeps(s1, FollowCanonical(s1, {t}))
  BY <1>2, ReleaseShadowsKeeps, FollowKeeps
<1>4. Keeps(s, ReleaseShadows(s1, {t})) /\ Keeps(s, FollowCanonical(s1, {t}))
  BY <1>2, <1>3, KeepsOn
<1>5. Arrive(s, t, reset, keep) \in {ReleaseShadows(s1, {t}), FollowCanonical(s1, {t})}
  BY DEF Arrive, s0, s1
<1> QED BY <1>4, <1>5

LEMMA ServeGives ==
  ASSUME mem \in Memory, NEW s, NEW W, Proper(s, W), NEW t \in Tracks,
         NEW handoff \in SUBSET (1..s.masters), NEW from \in SUBSET Tracks,
         Serve(s, t, handoff, from)
  PROVE  Proper(mem', W) /\ Moves(s, mem', {}) /\ QueueMoves(mem') /\ mem'.visible = s.visible
<1>1. CASE t \in DOMAIN s.bound
  BY <1>1, ServiceGives DEF Serve
<1>2. CASE t \notin DOMAIN s.bound
  BY <1>2, CollectGives DEF Serve
<1> QED BY <1>1, <1>2

LEMMA AssignStep ==
  ASSUME NEW W, Proper(mem, W), NEW t \in Tracks, Assign(t)
  PROVE  /\ Proper(mem', W) /\ Moves(mem, mem', {t}) /\ QueueMoves(mem')
         /\ mem'.visible = mem.visible /\ t \in mem.visible
<1>0. mem \in Memory
  BY DEF Proper
<1>1. PICK reset \in BOOLEAN, keep \in BOOLEAN :
        LET s == Arrive(mem, t, reset, keep)
        IN AssignHidden(t, s) \/ AssignServed(t, s) \/ AssignPromoted(t, s)
  BY DEF Assign
<1> DEFINE s == Arrive(mem, t, reset, keep)
<1>2. AssignHidden(t, s) \/ AssignServed(t, s) \/ AssignPromoted(t, s)
  BY <1>1
<1>3. Keeps(mem, s)
  BY <1>0, ArriveKeeps
<1> HIDE DEF s
<1>4. /\ Proper(s, W) /\ Moves(mem, s, {}) /\ s.visible = mem.visible /\ s \in Memory
  BY <1>3, KeepsProper DEF Keeps
<1>5. CanonicalOf(s, t) \subseteq Tracks /\ Target(s, t) \subseteq 1..s.masters
  <2>1. t \in DOMAIN s.shadow => s.shadow[t].canon \in Tracks
    BY <1>4, MemoryFacts DEF Shadow
  <2> QED BY <1>4, <2>1 DEF CanonicalOf, Target, Proper, Existing
<1>6. CASE AssignHidden(t, s)
  <2>1. mem' = s /\ queue' = queue
    BY <1>6 DEF AssignHidden
  <2>2. Moves(mem, s, {t})
    BY <1>4 DEF Moves
  <2> QED BY <1>4, <2>1, <2>2 DEF QueueMoves, Assign
<1>7. CASE AssignServed(t, s)
  <2>1. Serve(s, t, Target(s, t), CanonicalOf(s, t))
    BY <1>7 DEF AssignServed
  <2>2. Proper(mem', W) /\ Moves(s, mem', {}) /\ QueueMoves(mem') /\ mem'.visible = s.visible
    BY <1>0, <1>4, <1>5, <2>1, ServeGives
  <2>3. Moves(mem, mem', {} \cup {})
    BY <1>0, <1>4, <2>2, MovesOn DEF Proper
  <2>4. Moves(mem, mem', {t})
    BY <2>3 DEF Moves
  <2> QED BY <1>4, <2>2, <2>4 DEF Assign
<1>8. CASE AssignPromoted(t, s)
  <2>1. PICK m \in s.shadow[t].id :
          VisibleOwners(s, m, t) = {} /\ Serve(Promote(s, t, m), t, {m}, CanonicalOf(s, t))
    BY <1>8 DEF AssignPromoted
  <2>2. m \in 1..s.masters
    BY <1>4, <1>8 DEF AssignPromoted, IsVerified, Proper, Existing
  <2> DEFINE r == Promote(s, t, m)
  <2>3. Proper(r, W) /\ Moves(s, r, {t}) /\ r.visible = s.visible
    BY <1>4, <2>1, <2>2, PromoteGives
  <2>4. Serve(r, t, {m}, CanonicalOf(s, t))
    BY <2>1
  <2> HIDE DEF r
  <2>5. {m} \in SUBSET (1..r.masters)
    BY <1>4, <2>2, <2>3, MemoryFacts DEF Moves, Proper
  <2>6. Proper(mem', W) /\ Moves(r, mem', {}) /\ QueueMoves(mem') /\ mem'.visible = r.visible
    BY <1>0, <1>5, <2>3, <2>4, <2>5, ServeGives
  <2>7. Moves(mem, r, {} \cup {t})
    BY <1>0, <1>4, <2>3, MovesOn DEF Proper
  <2>8. Moves(mem, mem', ({} \cup {t}) \cup {})
    BY <1>0, <2>3, <2>6, <2>7, MovesOn DEF Proper
  <2> QED BY <1>4, <2>3, <2>6, <2>8 DEF Assign
<1> QED BY <1>2, <1>6, <1>7, <1>8

LEMMA NominateGives ==
  ASSUME NEW s, NEW W, Proper(s, W), NEW keys \in SUBSET Tracks, NEW new \in SUBSET Newcomers(s, keys),
         NEW over \in [new -> Canonicals(s, keys)]
  PROVE  /\ Proper(Nominate(s, over), W) /\ Moves(s, Nominate(s, over), {})
         /\ Nominate(s, over).visible = s.visible
<1> DEFINE f == [k \in DOMAIN s.shadow \cup DOMAIN over |->
                   IF k \in DOMAIN over
                     THEN [canon |-> over[k], id |-> MappedTo(s, over[k]), verified |-> FALSE]
                     ELSE s.shadow[k]]
           r == Nominate(s, over)
<1>0. s \in Memory /\ s.masters \in Nat
  BY MemoryFacts DEF Proper
<1>1. /\ DOMAIN s.shadow \subseteq Tracks
      /\ \A k \in DOMAIN s.shadow : s.shadow[k] \in Shadow /\ s.shadow[k].id \subseteq 1..s.masters
  BY <1>0, MemoryFacts DEF Proper, Existing
<1>2. \A u : MappedTo(s, u) \subseteq 1..s.masters
  BY DEF MappedTo, Proper, Existing
<1>3. DOMAIN over = new /\ new \subseteq Tracks /\ new \cap DOMAIN s.bound = {}
  BY DEF Newcomers
<1>4. \A k \in new : over[k] \in Tracks
  BY DEF Canonicals
<1>5. ASSUME NEW k \in DOMAIN f
      PROVE  f[k] \in Shadow /\ f[k].id \subseteq 1..s.masters
  <2>1. CASE k \in new
    <3>1. f[k] = [canon |-> over[k], id |-> MappedTo(s, over[k]), verified |-> FALSE]
      BY <1>3, <2>1
    <3>2. MappedTo(s, over[k]) \subseteq 1..s.masters /\ MappedTo(s, over[k]) \subseteq Nat
      BY <1>2
    <3> HIDE DEF f
    <3> QED BY <1>4, <2>1, <3>1, <3>2 DEF Shadow
  <2>2. CASE k \notin new
    BY <1>1, <1>3, <2>2
  <2> QED BY <2>1, <2>2
<1>6. f = [k \in DOMAIN f |-> f[k]] /\ DOMAIN f = DOMAIN s.shadow \cup new
  BY <1>3
<1>7. r = [s EXCEPT !.shadow = f]
  BY DEF Nominate
<1> HIDE DEF f, r
<1>8. f \in Dict(Tracks, Shadow)
  BY <1>1, <1>3, <1>5, <1>6, DictFacts
<1>9. /\ r \in Memory /\ r.masters = s.masters /\ r.gen = s.gen /\ r.bound = s.bound /\ r.shadow = f
      /\ r.conflict = s.conflict /\ r.intake = s.intake /\ r.visible = s.visible
  BY <1>0, <1>7, <1>8 DEF Memory
<1>10. Existing(r) /\ Roles(r) /\ Owners(r, W) /\ OneChallenger(r) /\ Generations(r)
  BY <1>3, <1>5, <1>6, <1>9 DEF Proper, Existing, Roles, Owners, OneChallenger, Generations
<1>11. Moves(s, r, {})
  <2>1. \A t \in DOMAIN r.intake : t \in DOMAIN s.intake /\ r.intake[t].gen >= s.intake[t].gen
    BY <1>0, <1>9, MemoryFacts DEF Intake
  <2>2. r.masters >= s.masters /\ \A t \in Tracks : r.gen[t] >= s.gen[t]
    BY <1>0, <1>9, MemoryFacts
  <2> QED BY <1>9, <2>1, <2>2 DEF Moves
<1> QED BY <1>9, <1>10, <1>11 DEF Proper, r

\* The tasks of tracks that have left are marked.
LEMMA LeftFits ==
  ASSUME NEW s \in Memory, NEW gone, gone \cap DOMAIN s.intake = {},
         NEW tasks \in Seq(Task), \A i \in DOMAIN tasks : TaskFits(s, tasks[i])
  PROVE  /\ Left(tasks, gone) \in Seq(Task)
         /\ \A i \in DOMAIN Left(tasks, gone) : TaskFits(s, Left(tasks, gone)[i])
<1> DEFINE f == Left(tasks, gone)
<1>1. DOMAIN f = DOMAIN tasks
  BY DEF Left
<1>2. ASSUME NEW i \in DOMAIN tasks
      PROVE  f[i] \in Task /\ TaskFits(s, f[i])
  <2>1. tasks[i] \in Task /\ TaskFits(s, tasks[i])
    OBVIOUS
  <2>2. CASE tasks[i].type = "intake" /\ tasks[i].track \in gone
    <3>1. tasks[i] \in IntakeTask
      BY <2>1, <2>2 DEF Task, ConflictTask
    <3>2. f[i] = [tasks[i] EXCEPT !.left = TRUE]
      BY <2>2 DEF Left
    <3> HIDE DEF f
    <3>3. /\ f[i] \in IntakeTask /\ f[i].track = tasks[i].track /\ f[i].gen = tasks[i].gen
          /\ f[i].handoff = tasks[i].handoff
      BY <3>1, <3>2 DEF IntakeTask
    <3> QED BY <2>1, <2>2, <3>1, <3>3 DEF TaskFits, BurstFits, Task
  <2>3. CASE ~ (tasks[i].type = "intake" /\ tasks[i].track \in gone)
    BY <2>1, <2>3 DEF Left
  <2> QED BY <2>2, <2>3
<1>3. f \in Seq(Task)
  <2>1. f \in [1..Len(tasks) -> Task] /\ Len(tasks) \in Nat
    BY <1>2 DEF Left
  <2> HIDE DEF f
  <2> QED BY <2>1
<1> QED BY <1>1, <1>2, <1>3

\* The queue and the worker hold tasks that fit.
Tasks ==
  /\ queue \in Seq(Task) /\ \A i \in DOMAIN queue : TaskFits(mem, queue[i])
  /\ worker \in Seq(Task) /\ \A i \in DOMAIN worker : TaskFits(mem, worker[i])

LEMMA ObserveStep ==
  ASSUME NEW W, Proper(mem, W), Tasks, NEW c \in Cameras, Observe(c)
  PROVE  Proper(mem', W) /\ Moves(mem, mem', {}) /\ Tasks'
<1>0. mem \in Memory
  BY DEF Proper
<1>1. PICK keys \in SUBSET Of(c) :
       LET gone == (mem.visible \cap Of(c)) \ keys
           s1 == Vanish(mem, gone)
       IN /\ queue' = Left(queue, gone)
          /\ worker' = Left(worker, gone)
          /\ \E apart \in SUBSET {k \in ShadowsIn(s1, keys) : s1.shadow[k].canon \in keys},
                rel \in SUBSET ShadowsIn(s1, keys) :
               /\ rel = Released(s1, keys, apart, rel)
               /\ LET s2 == ReleaseShadows(FollowCanonical(s1, ShadowsIn(s1, keys)), rel)
                  IN \E new \in SUBSET Newcomers(s2, keys) :
                       \E over \in [new -> Canonicals(s2, keys)] :
                         Observed(c, keys, Nominate(s2, over))
  BY DEF Observe
<1> DEFINE gone == (mem.visible \cap Of(c)) \ keys
           s1 == Vanish(mem, gone)
<1>2. PICK rel \in SUBSET ShadowsIn(s1, keys) :
        LET s2 == ReleaseShadows(FollowCanonical(s1, ShadowsIn(s1, keys)), rel)
        IN \E new \in SUBSET Newcomers(s2, keys) :
             \E over \in [new -> Canonicals(s2, keys)] : Observed(c, keys, Nominate(s2, over))
  BY <1>1
<1>3. queue' = Left(queue, gone) /\ worker' = Left(worker, gone)
  BY <1>1
<1>4. Keeps(mem, s1) /\ gone \cap DOMAIN s1.intake = {}
  BY <1>0, VanishKeeps
<1> DEFINE f1 == FollowCanonical(s1, ShadowsIn(s1, keys))
           s2 == ReleaseShadows(f1, rel)
<1>5. PICK new \in SUBSET Newcomers(s2, keys) :
        \E over \in [new -> Canonicals(s2, keys)] : Observed(c, keys, Nominate(s2, over))
  BY <1>2
<1>6. PICK over \in [new -> Canonicals(s2, keys)] : Observed(c, keys, Nominate(s2, over))
  BY <1>5
<1> HIDE DEF gone, s1
<1>7. s1 \in Memory /\ Proper(s1, W) /\ Moves(mem, s1, {})
  BY <1>4, KeepsProper DEF Keeps
<1>8. Keeps(s1, f1) /\ f1 \in Memory
  BY <1>7, FollowKeeps DEF Keeps
<1> HIDE DEF f1
<1>9. Keeps(f1, s2)
  BY <1>8, ReleaseShadowsKeeps
<1>10. Keeps(s1, s2)
  BY <1>7, <1>8, <1>9, KeepsOn
<1> HIDE DEF s2
<1>11. s2 \in Memory /\ Proper(s2, W) /\ Moves(s1, s2, {})
  BY <1>7, <1>10, KeepsProper DEF Keeps
<1>12. keys \in SUBSET Tracks
  BY DEF Of
<1> DEFINE s3 == Nominate(s2, over)
           s4 == [s3 EXCEPT !.visible = (@ \ Of(c)) \cup keys]
<1>13. Proper(s3, W) /\ Moves(s2, s3, {}) /\ s3 \in Memory
  BY <1>11, <1>12, NominateGives DEF Proper
<1>14. Observed(c, keys, s3)
  BY <1>6
<1> HIDE DEF s3
<1>15. Proper(s4, W) /\ Moves(s3, s4, {}) /\ s4 \in Memory
  <2>1. /\ s4 \in Memory /\ s4.masters = s3.masters /\ s4.gen = s3.gen /\ s4.bound = s3.bound
        /\ s4.intake = s3.intake /\ s4.shadow = s3.shadow /\ s4.conflict = s3.conflict
    BY <1>12, <1>13 DEF Memory
  <2> HIDE DEF s4
  <2>2. Existing(s4) /\ Roles(s4) /\ Owners(s4, W) /\ OneChallenger(s4) /\ Generations(s4)
    BY <1>13, <2>1 DEF Proper, Existing, Roles, Owners, OneChallenger, Generations
  <2>3. Moves(s3, s3, {})
    BY <1>13, KeepsSelf, KeepsProper
  <2>4. Moves(s3, s4, {})
    BY <2>1, <2>3 DEF Moves
  <2> QED BY <2>1, <2>2, <2>4 DEF Proper
<1>16. PICK T : mem' = ClearBindings(s4, T)
  BY <1>14 DEF Observed
<1> HIDE DEF s4
<1>17. Proper(mem', W) /\ Moves(s4, mem', {}) /\ mem' \in Memory
  <2>1. Keeps(s4, mem')
    BY <1>15, <1>16, ClearBindingsKeeps
  <2> QED BY <1>15, <2>1, KeepsProper DEF Keeps
<1>18. Moves(s1, s3, {} \cup {})
  BY <1>7, <1>11, <1>13, MovesOn
<1>19. Moves(s1, s4, ({} \cup {}) \cup {})
  BY <1>7, <1>13, <1>15, <1>18, MovesOn
<1>20. Moves(s1, mem', (({} \cup {}) \cup {}) \cup {})
  BY <1>7, <1>15, <1>17, <1>19, MovesOn
<1>21. Moves(s1, mem', {})
  BY <1>20
<1>22. Moves(mem, mem', {} \cup {})
  BY <1>0, <1>7, <1>17, <1>21, MovesOn
<1>23. ASSUME NEW tasks \in Seq(Task), \A i \in DOMAIN tasks : TaskFits(mem, tasks[i])
       PROVE  /\ Left(tasks, gone) \in Seq(Task)
              /\ \A i \in DOMAIN Left(tasks, gone) : TaskFits(mem', Left(tasks, gone)[i])
  <2>1. \A i \in DOMAIN tasks : TaskFits(s1, tasks[i])
    BY <1>0, <1>7, <1>23, MovesFits
  <2>2. /\ Left(tasks, gone) \in Seq(Task)
        /\ \A i \in DOMAIN Left(tasks, gone) : TaskFits(s1, Left(tasks, gone)[i])
    BY <1>4, <1>7, <2>1, LeftFits
  <2> QED BY <1>7, <1>17, <1>21, <2>2, MovesFits
<1>24. Tasks'
  BY <1>3, <1>23 DEF Tasks
<1> QED BY <1>17, <1>22, <1>24

LEMMA HoldsStep ==
  ASSUME NEW W, Proper(mem, W), NEW pair \in Pairs, HoldPair(pair) \/ ReleasePair(pair)
  PROVE  Proper(mem', W) /\ Moves(mem, mem', {})
<1>0. mem \in Memory /\ mem.holds \in [Tracks -> SUBSET Pairs]
  BY DEF Proper, Memory
<1>1. CASE HoldPair(pair)
  <2> DEFINE f == [t \in Tracks |-> IF t \in pair \ DOMAIN mem.bound
                                     THEN mem.holds[t] \cup {pair} ELSE mem.holds[t]]
  <2>1. f \in [Tracks -> SUBSET Pairs]
    BY <1>0
  <2>2. mem' = [mem EXCEPT !.holds = f]
    BY <1>0, <1>1 DEF HoldPair
  <2> HIDE DEF f
  <2>3. Keeps(mem, [mem EXCEPT !.holds = f])
    BY <1>0, <2>1 DEF Keeps, Memory
  <2> QED BY <2>2, <2>3, KeepsProper
<1>2. CASE ReleasePair(pair)
  <2> DEFINE f == [t \in Tracks |-> mem.holds[t] \ (IF t \in pair THEN {pair} ELSE {})]
             s == [mem EXCEPT !.holds = f]
  <2>1. f \in [Tracks -> SUBSET Pairs]
    BY <1>0
  <2>2. PICK T : mem' = Rearm(s, T, "hold")
    BY <1>0, <1>2 DEF ReleasePair
  <2> HIDE DEF f
  <2>3. Keeps(mem, s) /\ s \in Memory
    BY <1>0, <2>1 DEF Keeps, Memory
  <2> HIDE DEF s
  <2>4. Keeps(s, mem')
    BY <2>2, <2>3, RearmKeeps
  <2>5. Keeps(mem, mem')
    BY <1>0, <2>3, <2>4, KeepsOn
  <2> QED BY <2>5, KeepsProper
<1> QED BY <1>1, <1>2

-----------------------------------------------------------------------------
(* The actions of the analyst.                                              *)

\* A burst that failed or needs a second one: the intake gets a new generation.
LEMMA RepeatGives ==
  ASSUME NEW s, NEW W, Proper(s, W), NEW t \in DOMAIN s.intake, NEW r \in Memory,
         r.masters = s.masters, r.bound = s.bound, r.shadow = s.shadow, r.conflict = s.conflict,
         DOMAIN r.intake = DOMAIN s.intake,
         \A u \in DOMAIN r.intake : r.intake[u].handoff = s.intake[u].handoff,
         \A u \in DOMAIN r.intake \ {t} : r.intake[u].gen = s.intake[u].gen,
         \A u \in Tracks \ {t} : r.gen[u] = s.gen[u],
         r.gen[t] = s.gen[t] + 1, r.intake[t].gen = s.gen[t] + 1
  PROVE  Proper(r, W) /\ Moves(s, r, {})
<1>0. s \in Memory
  BY DEF Proper
<1>1. /\ s.gen \in [Tracks -> Nat] /\ r.gen \in [Tracks -> Nat] /\ t \in Tracks /\ s.masters \in Nat
      /\ DOMAIN s.intake \subseteq Tracks /\ \A u \in DOMAIN s.intake : s.intake[u].gen \in Nat
  BY <1>0, MemoryFacts DEF Intake
<1>2. \A u \in Tracks : s.gen[u] \in Nat /\ r.gen[u] >= s.gen[u]
  BY <1>1
<1>3. Existing(r) /\ Roles(r) /\ Owners(r, W) /\ OneChallenger(r)
  BY DEF Proper, Existing, Roles, Owners, OneChallenger
<1>4. ASSUME NEW u \in DOMAIN r.intake
      PROVE  /\ r.intake[u].gen <= r.gen[u]
             /\ r.intake[u].gen > s.gen[u] \/ (u \in DOMAIN s.intake /\ r.intake[u].gen >= s.intake[u].gen)
  <2>1. CASE u = t
    BY <1>1, <1>2, <2>1
  <2>2. CASE u # t
    <3>1. u \in Tracks /\ s.intake[u].gen \in Nat /\ s.intake[u].gen <= s.gen[u]
      BY <1>1 DEF Proper, Generations
    <3>2. r.intake[u].gen = s.intake[u].gen /\ r.gen[u] = s.gen[u]
      BY <2>2, <3>1
    <3> QED BY <3>1, <3>2
  <2> QED BY <2>1, <2>2
<1>5. Generations(r)
  BY <1>4 DEF Generations
<1>6. Moves(s, r, {})
  BY <1>1, <1>2, <1>4 DEF Moves
<1> QED BY <1>3, <1>5, <1>6 DEF Proper

\* The generations and the intakes after such a step.
NextGen(s, t) == [s.gen EXCEPT ![t] = @ + 1]
NextIntake(s, t) == [s.intake EXCEPT ![t].submitted = FALSE, ![t].gen = s.gen[t] + 1]

LEMMA RepeatMemory ==
  ASSUME NEW s \in Memory, NEW t \in DOMAIN s.intake
  PROVE  /\ NextGen(s, t) \in [Tracks -> Nat] /\ NextIntake(s, t) \in Dict(Tracks, Intake)
         /\ DOMAIN NextIntake(s, t) = DOMAIN s.intake
         /\ \A u \in DOMAIN s.intake : NextIntake(s, t)[u].handoff = s.intake[u].handoff
         /\ \A u \in DOMAIN s.intake \ {t} : NextIntake(s, t)[u].gen = s.intake[u].gen
         /\ \A u \in Tracks \ {t} : NextGen(s, t)[u] = s.gen[u]
         /\ NextGen(s, t)[t] = s.gen[t] + 1 /\ NextIntake(s, t)[t].gen = s.gen[t] + 1
<1> DEFINE f == NextIntake(s, t)
           k == s.gen[t] + 1
<1>1. /\ s.gen \in [Tracks -> Nat] /\ t \in Tracks
      /\ DOMAIN s.intake \subseteq Tracks /\ \A u \in DOMAIN s.intake : s.intake[u] \in Intake
  BY MemoryFacts
<1>2. k \in Nat
  BY <1>1
<1> HIDE DEF k
<1>3. f[t] = [s.intake[t] EXCEPT !.submitted = FALSE, !.gen = k]
  BY DEF k, NextIntake
<1>5. f = [u \in DOMAIN f |-> f[u]] /\ DOMAIN f = DOMAIN s.intake
  BY DEF NextIntake
<1>6. \A u \in DOMAIN s.intake \ {t} : f[u] = s.intake[u]
  BY DEF NextIntake
<1> HIDE DEF f
<1>4. f[t] \in Intake /\ f[t].handoff = s.intake[t].handoff /\ f[t].gen = k
  <2>1. s.intake[t] \in Intake
    BY <1>1
  <2> QED BY <1>2, <1>3, <2>1 DEF Intake
<1>7. \A u \in DOMAIN f : f[u] \in Intake /\ f[u].handoff = s.intake[u].handoff
  BY <1>1, <1>4, <1>5, <1>6
<1>8. f \in Dict(Tracks, Intake)
  BY <1>1, <1>5, <1>7, DictFacts
<1>9. NextGen(s, t) \in [Tracks -> Nat] /\ NextGen(s, t)[t] = k /\ \A u \in Tracks \ {t} : NextGen(s, t)[u] = s.gen[u]
  BY <1>1, <1>2 DEF k, NextGen
<1> QED BY <1>4, <1>5, <1>6, <1>7, <1>8, <1>9 DEF k, f

LEMMA ResubmitKeeps ==
  ASSUME NEW s \in Memory, NEW m \in DOMAIN s.conflict
  PROVE  Keeps(s, Resubmittable(s, m))
<1> DEFINE c == [s.conflict[m] EXCEPT !.submitted = FALSE, !.ready = s.conflict[m].challenger]
<1>1. s.conflict[m] \in Conflict /\ DOMAIN s.conflict \subseteq Nat
  BY MemoryFacts
<1>2. c \in Conflict /\ c.challenger = s.conflict[m].challenger
  BY <1>1 DEF Conflict
<1>3. Resubmittable(s, m) = [s EXCEPT !.conflict[m] = c]
  BY <1>1 DEF Resubmittable, Memory, Conflict
<1> HIDE DEF c
<1>4. Keeps(s, [s EXCEPT !.conflict[m] = c])
  BY <1>2, ContestKeeps
<1> QED BY <1>3, <1>4

LEMMA WorkerFacts ==
  ASSUME Tasks, worker # << >>
  PROVE  worker[1] \in Task /\ TaskFits(mem, worker[1])
<1>1. 1 \in DOMAIN worker
  BY DEF Tasks
<1> QED BY <1>1 DEF Tasks

LEMMA FailStep ==
  ASSUME NEW W, Proper(mem, W), Tasks, Fail
  PROVE  Proper(mem', W) /\ Moves(mem, mem', {})
<1>0. mem \in Memory
  BY DEF Proper
<1> DEFINE task == worker[1]
<1>1. task \in Task
  BY WorkerFacts DEF Fail
<1>2. CASE mem' = mem
  BY <1>0, <1>2, KeepsSelf, KeepsProper
<1>3. CASE /\ task.track \in DOMAIN mem.intake
           /\ mem' = [mem EXCEPT !.gen[task.track] = @ + 1,
                                 !.intake[task.track].submitted = FALSE,
                                 !.intake[task.track].gen = mem.gen[task.track] + 1]
  <2> DEFINE t == task.track
             g == NextGen(mem, t)
             f == NextIntake(mem, t)
  <2>1. /\ g \in [Tracks -> Nat] /\ f \in Dict(Tracks, Intake) /\ DOMAIN f = DOMAIN mem.intake
        /\ \A u \in DOMAIN mem.intake : f[u].handoff = mem.intake[u].handoff
        /\ \A u \in DOMAIN mem.intake \ {t} : f[u].gen = mem.intake[u].gen
        /\ \A u \in Tracks \ {t} : g[u] = mem.gen[u]
        /\ g[t] = mem.gen[t] + 1 /\ f[t].gen = mem.gen[t] + 1
    BY <1>0, <1>3, RepeatMemory
  <2>2. mem' = [mem EXCEPT !.gen = g, !.intake = f]
    BY <1>0, <1>3 DEF Memory, NextGen, NextIntake
  <2>3. t \in DOMAIN mem.intake
    BY <1>3
  <2> HIDE DEF g, f, t
  <2>4. /\ mem' \in Memory /\ mem'.masters = mem.masters /\ mem'.bound = mem.bound
        /\ mem'.shadow = mem.shadow /\ mem'.conflict = mem.conflict /\ mem'.gen = g /\ mem'.intake = f
    BY <1>0, <2>1, <2>2 DEF Memory
  <2> QED BY <2>1, <2>3, <2>4, RepeatGives
<1>4. CASE task.master \in DOMAIN mem.conflict /\ mem' = Resubmittable(mem, task.master)
  BY <1>0, <1>4, ResubmitKeeps, KeepsProper
<1> QED BY <1>2, <1>3, <1>4 DEF Fail

\* A match that is not confirmed is remembered and asks for another burst.
LEMMA RetryGives ==
  ASSUME NEW s, NEW W, Proper(s, W), NEW t \in DOMAIN s.intake, NEW m \in 1..s.masters
  PROVE  Proper(Retry(s, t, m), W) /\ Moves(s, Retry(s, t, m), {}) /\ Retry(s, t, m).visible = s.visible
<1> DEFINE g == NextGen(s, t)
           f == NextIntake(s, t)
           h == Set(s.tentative, t, m)
           r == Retry(s, t, m)
<1>0. s \in Memory /\ m \in Nat /\ t \in Tracks
  BY MemoryFacts DEF Proper
<1>1. /\ g \in [Tracks -> Nat] /\ f \in Dict(Tracks, Intake) /\ DOMAIN f = DOMAIN s.intake
      /\ \A u \in DOMAIN s.intake : f[u].handoff = s.intake[u].handoff
      /\ \A u \in DOMAIN s.intake \ {t} : f[u].gen = s.intake[u].gen
      /\ \A u \in Tracks \ {t} : g[u] = s.gen[u]
      /\ g[t] = s.gen[t] + 1 /\ f[t].gen = s.gen[t] + 1
  BY <1>0, RepeatMemory
<1>2. h \in Dict(Tracks, Nat)
  BY <1>0, SetMemory
<1>3. r = [s EXCEPT !.tentative = h, !.gen = g, !.intake = f]
  BY <1>0 DEF Memory, NextGen, NextIntake, Retry
<1> HIDE DEF g, f, h, r
<1>4. /\ r \in Memory /\ r.masters = s.masters /\ r.bound = s.bound /\ r.visible = s.visible
      /\ r.shadow = s.shadow /\ r.conflict = s.conflict /\ r.gen = g /\ r.intake = f
  BY <1>0, <1>1, <1>2, <1>3 DEF Memory
<1>5. Proper(r, W) /\ Moves(s, r, {})
  BY <1>1, <1>4, RepeatGives
<1> QED BY <1>4, <1>5 DEF r

\* A step that ends with the track bound, or with another burst to come.
LEMMA MatchGives ==
  ASSUME NEW s, NEW W, Proper(s, W), NEW t \in DOMAIN s.intake, NEW m \in 1..s.masters, NEW look,
         VisibleOwners(s, m, t) = {}, Match(s, t, m, look)
  PROVE  Proper(mem', W) /\ Moves(s, mem', {t}) /\ mem'.visible = s.visible
<1> DEFINE s1 == ClearNonvisibleOwners(s, m, t)
<1>0. s \in Memory /\ t \in Tracks
  BY MemoryFacts DEF Proper
<1>1. /\ Keeps(s, s1) /\ t \in DOMAIN s1.intake
      /\ \A u \in DOMAIN s1.bound : u # t /\ CameraOf[u] = CameraOf[t] => s1.bound[u] # m
  BY <1>0, ClearNonvisibleKeeps
<1>2. mem' = Bind(s1, t, m) \/ mem' = Retry(s1, t, m)
  BY DEF Match
<1> HIDE DEF s1
<1>3. Proper(s1, W) /\ Moves(s, s1, {}) /\ s1 \in Memory /\ s1.visible = s.visible /\ m \in 1..s1.masters
  BY <1>1, KeepsProper DEF Keeps
<1>4. Proper(mem', W) /\ Moves(s1, mem', {t}) /\ mem'.visible = s1.visible
  <2>1. CASE mem' = Bind(s1, t, m)
    BY <1>0, <1>1, <1>3, <2>1, BindGives
  <2>2. CASE mem' = Retry(s1, t, m)
    <3>1. Proper(mem', W) /\ Moves(s1, mem', {}) /\ mem'.visible = s1.visible
      BY <1>1, <1>3, <2>2, RetryGives
    <3> QED BY <3>1 DEF Moves
  <2> QED BY <1>2, <2>1, <2>2
<1>5. Moves(s, mem', {} \cup {t})
  BY <1>0, <1>3, <1>4, MovesOn DEF Proper
<1> QED BY <1>3, <1>4, <1>5

\* A finished intake waits for something.
LEMMA DeferKeeps ==
  ASSUME NEW s \in Memory, NEW t, NEW flag \in {"hold", "recovery", "contest"}
  PROVE  Keeps(s, Defer(s, t, flag)) /\ Defer(s, t, flag).bound = s.bound
<1> DEFINE f == [s.intake EXCEPT ![t].deferred = @ \cup {flag}]
<1>1. f = [u \in DOMAIN f |-> f[u]] /\ DOMAIN f = DOMAIN s.intake
  OBVIOUS
<1>2. \A u \in DOMAIN s.intake : f[u] = s.intake[u] \/ f[u] = [s.intake[u] EXCEPT !.deferred = @ \cup {flag}]
  OBVIOUS
<1>3. Defer(s, t, flag) = [s EXCEPT !.intake = f]
  BY DEF Defer, Memory
<1> HIDE DEF f
<1>4. ASSUME NEW u \in DOMAIN s.intake
      PROVE  f[u] \in Intake /\ f[u].handoff = s.intake[u].handoff /\ f[u].gen = s.intake[u].gen
  <2> DEFINE x == s.intake[u]
             D == x.deferred \cup {flag}
  <2>1. x \in Intake
    BY MemoryFacts
  <2>2. D \in SUBSET {"hold", "recovery", "contest"}
    BY <2>1 DEF Intake
  <2>3. f[u] = x \/ f[u] = [x EXCEPT !.deferred = D]
    BY <1>2
  <2> HIDE DEF x, D
  <2>4. f[u] \in Intake /\ f[u].handoff = x.handoff /\ f[u].gen = x.gen
    BY <2>1, <2>2, <2>3 DEF Intake
  <2> QED BY <2>4 DEF x
<1>5. f \in Dict(Tracks, Intake)
  BY <1>1, <1>4, MemoryFacts, DictFacts
<1>6. Keeps(s, [s EXCEPT !.intake = f]) /\ [s EXCEPT !.intake = f].bound = s.bound
  BY <1>1, <1>4, <1>5 DEF Keeps, Memory
<1> QED BY <1>3, <1>6

LEMMA ClaimGives ==
  ASSUME NEW s, NEW W, Proper(s, W), NEW t \in DOMAIN s.intake, NEW m \in 1..s.masters,
         NEW incumbent \in Tracks
  PROVE  /\ Proper(StartClaim(s, t, m, incumbent), W)
         /\ Moves(s, StartClaim(s, t, m, incumbent), {})
         /\ StartClaim(s, t, m, incumbent).visible = s.visible
<1> DEFINE s1 == CancelConflicts(s, {m})
           token == s.token + 1
           c == [token |-> token, cands |-> {t, incumbent}, ready |-> {t}, submitted |-> FALSE,
                 challenger |-> {t}, gen |-> s.intake[t].gen]
           q == [s1 EXCEPT !.token = token, !.conflict = Set(@, m, c)]
           r == StartClaim(s, t, m, incumbent)
<1>0. s \in Memory /\ m \in Nat /\ t \in Tracks /\ s.intake[t].gen \in Nat /\ token \in Nat \ {0}
  BY MemoryFacts DEF Proper, Intake
<1>1. Keeps(s, s1) /\ s1.token = s.token
  BY <1>0, CancelConflictsKeeps, CancelFacts
<1>2. c \in Conflict /\ \A x, y \in c.challenger : x = y
  <2> HIDE DEF token
  <2> QED BY <1>0 DEF Conflict
<1>3. r = Defer(q, t, "contest")
  <2>1. s1 \in Memory
    BY <1>1 DEF Keeps
  <2> HIDE DEF s1
  <2> SUFFICES [s1 EXCEPT !.token = @ + 1, !.conflict = Set(@, m, c),
                          !.intake[t].deferred = @ \cup {"contest"}]
               = [q EXCEPT !.intake[t].deferred = @ \cup {"contest"}]
    BY <1>1 DEF StartClaim, Defer, s1
  <2> HIDE DEF c
  <2> QED BY <1>1, <2>1 DEF Memory
<1> HIDE DEF s1, c, r
<1>4. Proper(s1, W) /\ Moves(s, s1, {}) /\ s1 \in Memory /\ s1.visible = s.visible /\ m \in 1..s1.masters
  BY <1>1, KeepsProper DEF Keeps
<1> DEFINE f == Set(s1.conflict, m, c)
<1>5. f \in Dict(Nat, Conflict)
  BY <1>0, <1>2, <1>4, SetMemory
<1>6. q = [s1 EXCEPT !.token = token, !.conflict = f]
  OBVIOUS
<1> HIDE DEF token, q
<1>7. /\ q \in Memory /\ q.masters = s1.masters /\ q.gen = s1.gen /\ q.bound = s1.bound
      /\ q.shadow = s1.shadow /\ q.conflict = Set(s1.conflict, m, c) /\ q.intake = s1.intake
      /\ q.visible = s1.visible
  <2>1. q.conflict = f
    <3> HIDE DEF f
    <3> QED BY <1>4, <1>6 DEF Memory
  <2> HIDE DEF f
  <2>2. /\ q \in Memory /\ q.masters = s1.masters /\ q.gen = s1.gen /\ q.bound = s1.bound
        /\ q.shadow = s1.shadow /\ q.intake = s1.intake /\ q.visible = s1.visible
    BY <1>0, <1>4, <1>5, <1>6 DEF Memory
  <2> QED BY <2>1, <2>2 DEF f
<1>8. Proper(q, W) /\ Moves(s1, q, {})
  BY <1>2, <1>4, <1>7, ContestGives
<1>9. Proper(r, W) /\ Moves(q, r, {}) /\ r.visible = q.visible
  <2>1. Keeps(q, r)
    BY <1>3, <1>7, DeferKeeps
  <2> QED BY <1>8, <2>1, KeepsProper DEF Keeps
<1>10. Moves(s, q, {} \cup {})
  BY <1>0, <1>4, <1>7, <1>8, MovesOn
<1>11. Moves(s, r, ({} \cup {}) \cup {})
  BY <1>0, <1>7, <1>9, <1>10, MovesOn DEF Proper
<1> QED BY <1>4, <1>7, <1>9, <1>11 DEF r

\* A new master.
LEMMA CreateGives ==
  ASSUME NEW s, NEW W, Proper(s, W), NEW t \in Tracks
  PROVE  LET q == [s EXCEPT !.masters = s.masters + 1]
             r == Bind(q, t, s.masters + 1)
         IN Proper(r, W) /\ Moves(s, r, {t}) /\ r.visible = s.visible
<1> DEFINE next == s.masters + 1
           q == [s EXCEPT !.masters = next]
           r == Bind(q, t, next)
<1>0. s \in Memory /\ s.masters \in Nat /\ next \in Nat
  BY MemoryFacts DEF Proper
<1>1. /\ q \in Memory /\ q.masters = next /\ q.gen = s.gen /\ q.bound = s.bound /\ q.visible = s.visible
      /\ q.shadow = s.shadow /\ q.conflict = s.conflict /\ q.intake = s.intake
  <2> HIDE DEF next
  <2> QED BY <1>0 DEF Memory
<1> HIDE DEF q
<1>2. 1..s.masters \subseteq 1..q.masters /\ next \in 1..q.masters /\ next \notin 1..s.masters
  BY <1>0, <1>1
<1>3. q.masters >= s.masters
  BY <1>0, <1>1
<1> HIDE DEF next
<1>4. Existing(q)
  BY <1>1, <1>2 DEF Proper, Existing
<1>5. Proper(q, W)
  BY <1>1, <1>4 DEF Proper, Roles, Owners, OneChallenger, Generations
<1>6. Moves(s, q, {})
  <2>1. Moves(s, s, {})
    BY <1>0, KeepsSelf, KeepsProper
  <2> QED BY <1>1, <1>3, <2>1 DEF Moves
<1>7. \A u \in DOMAIN q.bound : q.bound[u] # next
  BY <1>1, <1>2 DEF Proper, Existing
<1>8. Proper(r, W) /\ Moves(q, r, {t}) /\ r.visible = q.visible
  BY <1>2, <1>5, <1>7, BindGives
<1>9. Moves(s, r, {} \cup {t})
  BY <1>0, <1>1, <1>6, <1>8, MovesOn DEF Proper
<1> QED BY <1>1, <1>8, <1>9 DEF q, next

LEMMA VetoKeeps ==
  ASSUME mem \in Memory, NEW task
  PROVE  /\ Keeps(mem, AfterVeto(task)) /\ AfterVeto(task).bound = mem.bound
         /\ AfterVeto(task).intake = mem.intake
<1> DEFINE f == Without(mem.shadow, {task.track})
<1>1. /\ f \in Dict(Tracks, Shadow) /\ DOMAIN f = DOMAIN mem.shadow \ {task.track}
      /\ \A k \in DOMAIN f : f[k] = mem.shadow[k]
  BY PopFacts, WithoutFacts
<1>2. Keeps(mem, [mem EXCEPT !.shadow = f])
  <2> HIDE DEF f
  <2> QED BY <1>1 DEF Keeps, Memory
<1> QED BY <1>2, KeepsSelf DEF AfterVeto, Memory

LEMMA WaitGives ==
  ASSUME NEW W, Proper(mem, W), NEW task, task.track \in Tracks, WaitOrCreate(task)
  PROVE  Proper(mem', W) /\ Moves(mem, mem', {task.track}) /\ mem'.visible = mem.visible
<1> DEFINE t == task.track
           s == AfterVeto(task)
           released == Refresh(s, t, FALSE)
<1>0. mem \in Memory
  BY DEF Proper
<1>1. Keeps(mem, s) /\ s \in Memory
  BY <1>0, VetoKeeps DEF Keeps
<1>2. ASSUME NEW keep \in BOOLEAN, NEW flag \in {"hold", "recovery", "contest"},
             mem' = Defer(Refresh(s, t, keep), t, flag)
      PROVE  Proper(mem', W) /\ Moves(mem, mem', {t}) /\ mem'.visible = mem.visible
  <2> DEFINE r == Refresh(s, t, keep)
  <2>1. Keeps(s, r) /\ r \in Memory
    BY <1>1, RefreshKeeps DEF Keeps
  <2>2. mem' = Defer(r, t, flag)
    BY <1>2
  <2> HIDE DEF r, s
  <2>3. Keeps(mem, r) /\ Keeps(r, mem')
    BY <1>0, <1>1, <2>1, <2>2, KeepsOn, DeferKeeps
  <2>4. Keeps(mem, mem')
    BY <1>0, <2>3, KeepsOn
  <2>5. Proper(mem', W) /\ Moves(mem, mem', {})
    BY <2>4, KeepsProper
  <2> QED BY <2>4, <2>5 DEF Keeps, Moves
<1>3. CASE mem' = Bind([released EXCEPT !.masters = s.masters + 1], t, s.masters + 1)
  <2>1. Keeps(s, released)
    BY <1>1, RefreshKeeps
  <2>2. mem' = Bind([released EXCEPT !.masters = s.masters + 1], t, s.masters + 1)
    BY <1>3
  <2> HIDE DEF released, s
  <2>3. Keeps(mem, released) /\ released.masters = s.masters
    BY <1>0, <1>1, <2>1, KeepsOn DEF Keeps
  <2>4. Proper(released, W) /\ Moves(mem, released, {}) /\ released \in Memory /\ released.visible = mem.visible
    BY <2>3, KeepsProper DEF Keeps
  <2>5. Proper(mem', W) /\ Moves(released, mem', {t}) /\ mem'.visible = released.visible
    BY <2>2, <2>3, <2>4, CreateGives
  <2>6. Moves(mem, mem', {} \cup {t})
    BY <1>0, <2>4, <2>5, MovesOn DEF Proper
  <2> QED BY <2>4, <2>5, <2>6
<1>4. \/ mem' = Defer(Refresh(s, t, TRUE), t, "recovery")
      \/ mem' = Defer(released, t, "hold")
      \/ mem' = Bind([released EXCEPT !.masters = s.masters + 1], t, s.masters + 1)
  BY DEF WaitOrCreate
<1> QED BY <1>2, <1>3, <1>4

\* A master that an ordinary match may take has no visible owner in the camera.
LEMMA EligibleFacts ==
  ASSUME mem \in Memory, NEW task, NEW look, NEW away, NEW M,
         NEW m \in Best(look, Eligible(task, look, away))
  PROVE  m \in 1..mem.masters /\ VisibleOwners(mem, m, task.track) = {}
<1>1. m \in Eligible(task, look, away)
  BY DEF Best
<1>2. m \in 1..mem.masters /\ m \notin Excluded(mem, task)
  BY <1>1 DEF Eligible
<1>3. \A u \in Peers(task.track) \cap mem.visible \cap DOMAIN mem.bound : mem.bound[u] # m
  BY <1>2 DEF Excluded
<1> QED BY <1>2, <1>3 DEF VisibleOwners

LEMMA VerifyKeeps ==
  ASSUME NEW W, Proper(mem, W), NEW task, task.track \in DOMAIN mem.shadow, NEW look,
         task.handoff \subseteq 1..mem.masters, VerifyDuplicate(task, look)
  PROVE  Keeps(mem, mem')
<1> DEFINE t == task.track
<1>0. mem \in Memory /\ t \in Tracks
  BY MemoryFacts DEF Proper
<1>1. PICK m \in task.handoff : \E owner \in VisibleOwners(mem, m, t) :
        mem' = DropIntakes([mem EXCEPT !.shadow[t] =
                 [canon |-> owner, id |-> {m}, verified |-> TRUE]], {t})
  BY DEF VerifyDuplicate
<1>2. PICK owner \in VisibleOwners(mem, m, t) :
        mem' = DropIntakes([mem EXCEPT !.shadow[t] =
                 [canon |-> owner, id |-> {m}, verified |-> TRUE]], {t})
  BY <1>1
<1> DEFINE x == [canon |-> owner, id |-> {m}, verified |-> TRUE]
           f == [mem.shadow EXCEPT ![t] = x]
           s == [mem EXCEPT !.shadow[t] = x]
<1>3. m \in Nat /\ owner \in Tracks /\ owner \in DOMAIN mem.bound /\ mem.bound[owner] = m
  <2>1. mem.masters \in Nat
    BY <1>0, MemoryFacts
  <2> QED BY <1>0, <1>2, <2>1, MemoryFacts DEF VisibleOwners
<1>4. x \in Shadow /\ x.id = {m}
  BY <1>3 DEF Shadow
<1>5. f = [k \in DOMAIN f |-> f[k]] /\ DOMAIN f = DOMAIN mem.shadow /\ f[t] = x
      /\ \A k \in DOMAIN mem.shadow \ {t} : f[k] = mem.shadow[k]
  OBVIOUS
<1>6. s = [mem EXCEPT !.shadow = f]
  BY <1>0 DEF Memory
<1>7. mem' = DropIntakes(s, {t})
  BY <1>2
<1> HIDE DEF x, f, s
<1>8. \A k \in DOMAIN f : /\ f[k] \in Shadow
                         /\ f[k].id \subseteq mem.shadow[k].id \cup {mem.bound[u] : u \in DOMAIN mem.bound}
  BY <1>0, <1>3, <1>4, <1>5, MemoryFacts
<1>9. f \in Dict(Tracks, Shadow)
  BY <1>0, <1>5, <1>8, MemoryFacts, DictFacts
<1>10. Keeps(mem, s) /\ s \in Memory
  BY <1>0, <1>5, <1>6, <1>8, <1>9 DEF Keeps, Memory
<1>11. Keeps(s, mem')
  BY <1>7, <1>10, DropIntakesKeeps
<1> QED BY <1>0, <1>10, <1>11, KeepsOn

\* The burst of a track that does not collect one any more changes nothing.
LEMMA AnalyseStep ==
  ASSUME NEW W, Proper(mem, W), Tasks, Analyse
  PROVE  /\ Proper(mem', W) /\ mem'.visible = mem.visible
         /\ Moves(mem, mem', {t \in {worker[1].track} : IsCurrent(mem, t, worker[1].gen)})
<1> DEFINE task == worker[1]
           t == task.track
           G == {x \in {t} : IsCurrent(mem, x, task.gen)}
<1>0. mem \in Memory
  BY DEF Proper
<1>1. task \in IntakeTask /\ BurstFits(mem, task)
  <2>1. task \in Task /\ TaskFits(mem, task) /\ task.type = "intake"
    BY WorkerFacts DEF Analyse
  <2>2. task \in IntakeTask
    BY <2>1 DEF Task, ConflictTask
  <2> QED BY <2>1, <2>2 DEF TaskFits
<1>2. t \in Tracks /\ task.handoff \subseteq 1..mem.masters
  BY <1>1 DEF IntakeTask, BurstFits
<1>3. ASSUME Keeps(mem, mem')
      PROVE  Proper(mem', W) /\ mem'.visible = mem.visible /\ Moves(mem, mem', G)
  <2>1. Proper(mem', W) /\ Moves(mem, mem', {})
    BY <1>3, KeepsProper
  <2> QED BY <1>3, <2>1 DEF Keeps, Moves
<1>4. CASE Discard(task)
  BY <1>0, <1>3, <1>4, KeepsSelf DEF Discard
<1>5. ASSUME IsCurrent(mem, t, task.gen), ~HandoffGone(mem, task), NEW look,
             \/ VerifyDuplicate(task, look)
             \/ FollowHandoff(task, look)
             \/ \E away \in SUBSET {m \in 1..mem.masters :
                         OwnersElsewhere(mem, m, t) # {} /\ look[m] # "far"} :
                  \/ MatchOrdinary(task, look, away)
                  \/ Unmatched(task, look, away)
      PROVE  Proper(mem', W) /\ mem'.visible = mem.visible /\ Moves(mem, mem', G)
  <2> DEFINE s == AfterVeto(task)
  <2>1. G = {t} /\ t \in DOMAIN mem.intake
    BY <1>5 DEF IsCurrent
  <2>2. Keeps(mem, s) /\ s.bound = mem.bound /\ s.intake = mem.intake
    BY <1>0, VetoKeeps
  <2> HIDE DEF s
  <2>3. Proper(s, W) /\ Moves(mem, s, {}) /\ s \in Memory /\ s.visible = mem.visible /\ s.masters = mem.masters
    BY <2>2, KeepsProper DEF Keeps
  <2>4. CASE VerifyDuplicate(task, look)
    <3>1. t \in DOMAIN mem.shadow
      BY <1>5, <2>4 DEF VerifyDuplicate, HandoffGone
    <3>2. Keeps(mem, mem')
      BY <1>2, <2>4, <3>1, VerifyKeeps
    <3> QED BY <1>3, <3>2
  <2>5. CASE FollowHandoff(task, look)
    <3>1. PICK m \in task.handoff : VisibleOwners(mem, m, t) = {} /\ Match(mem, t, m, look)
      BY <2>5 DEF FollowHandoff
    <3>2. m \in 1..mem.masters
      BY <1>2
    <3> QED BY <2>1, <3>1, <3>2, MatchGives
  <2>6. ASSUME NEW away, MatchOrdinary(task, look, away)
        PROVE  Proper(mem', W) /\ mem'.visible = mem.visible /\ Moves(mem, mem', {t})
    <3>1. PICK m \in Best(look, Eligible(task, look, away)) : Match(s, t, m, look)
      BY <2>6 DEF MatchOrdinary, s
    <3>2. m \in 1..mem.masters /\ VisibleOwners(mem, m, t) = {}
      BY <1>0, EligibleFacts
    <3>3. VisibleOwners(s, m, t) = {}
      BY <2>2, <2>3, <3>2 DEF VisibleOwners
    <3>4. Proper(mem', W) /\ Moves(s, mem', {t}) /\ mem'.visible = s.visible
      BY <2>1, <2>2, <2>3, <3>1, <3>2, <3>3, MatchGives
    <3>5. Moves(mem, mem', {} \cup {t})
      BY <1>0, <2>3, <3>4, MovesOn DEF Proper
    <3> QED BY <2>3, <3>4, <3>5
  <2>7. ASSUME NEW m \in 1..mem.masters, NEW incumbent \in Tracks, mem' = StartClaim(s, t, m, incumbent)
        PROVE  Proper(mem', W) /\ mem'.visible = mem.visible /\ Moves(mem, mem', {t})
    <3>1. Proper(mem', W) /\ Moves(s, mem', {}) /\ mem'.visible = s.visible
      BY <2>1, <2>2, <2>3, <2>7, ClaimGives
    <3>2. Moves(mem, mem', {} \cup {})
      BY <1>0, <2>3, <3>1, MovesOn DEF Proper
    <3> QED BY <2>3, <3>1, <3>2 DEF Moves
  <2>8. ASSUME NEW away \in SUBSET (1..mem.masters), Unmatched(task, look, away)
        PROVE  Proper(mem', W) /\ mem'.visible = mem.visible /\ Moves(mem, mem', {t})
    <3>1. CASE ClaimFarMaster(task, look, away)
      <4>1. PICK m \in Best(look, away \ Excluded(mem, task)) :
              \E incumbent \in OwnersElsewhere(mem, m, t) : mem' = StartClaim(s, t, m, incumbent)
        BY <3>1 DEF ClaimFarMaster, s
      <4>4. PICK incumbent \in OwnersElsewhere(mem, m, t) : mem' = StartClaim(s, t, m, incumbent)
        BY <4>1
      <4>2. m \in 1..mem.masters
        BY <2>8 DEF Best
      <4>3. incumbent \in Tracks
        BY <1>0, MemoryFacts DEF OwnersElsewhere
      <4> QED BY <2>7, <4>2, <4>3, <4>4
    <3>2. CASE ClaimBlockedMaster(task, look)
      <4>1. PICK m \in (Excluded(mem, task) \cap 1..mem.masters) \ mem.rejected[t] :
              \E incumbent \in VisibleOwners(mem, m, t) : mem' = StartClaim(s, t, m, incumbent)
        BY <3>2 DEF ClaimBlockedMaster, s
      <4>2. PICK incumbent \in VisibleOwners(mem, m, t) : mem' = StartClaim(s, t, m, incumbent)
        BY <4>1
      <4>3. incumbent \in Tracks
        BY DEF VisibleOwners, Peers, Of
      <4> QED BY <2>7, <4>2, <4>3
    <3>3. CASE WaitOrCreate(task)
      BY <1>2, <3>3, WaitGives
    <3> QED BY <2>8, <3>1, <3>2, <3>3 DEF Unmatched
  <2> QED BY <1>5, <2>1, <2>4, <2>5, <2>6, <2>8
<1> QED BY <1>4, <1>5 DEF Analyse

\* The loser of a contest gives up its claim, or its master.
LEMMA LoserKeeps ==
  ASSUME NEW s \in Memory, NEW m \in Nat, NEW loser \in Tracks, NEW c, NEW stillMatches \in BOOLEAN
  PROVE  /\ Keeps(s, LoserLeaves(s, m, loser, c, stillMatches))
         /\ loser \notin c.challenger => loser \notin DOMAIN LoserLeaves(s, m, loser, c, stillMatches).bound
<1> DEFINE barred == loser \in c.challenger \/ ~stillMatches
           s1 == IF loser \in c.challenger
                   THEN Rearm(s, {t \in {loser} \cap DOMAIN s.intake : s.intake[t].gen = c.gen}, "contest")
                   ELSE ClearBindings(s, {loser})
           s2 == [s1 EXCEPT !.rejected[loser] = IF barred THEN @ \cup {m} ELSE @]
           s3 == [s2 EXCEPT !.recovery = Set(@, loser, Related(s2, loser))]
<1>1. Keeps(s, s1) /\ s1 \in Memory /\ (loser \notin c.challenger => loser \notin DOMAIN s1.bound)
  <2>1. CASE loser \in c.challenger
    <3>1. \A T : Keeps(s, Rearm(s, T, "contest"))
      BY RearmKeeps
    <3>2. Keeps(s, s1)
      BY <2>1, <3>1
    <3> HIDE DEF s1
    <3> QED BY <2>1, <3>2 DEF Keeps
  <2>2. CASE loser \notin c.challenger
    <3>1. Keeps(s, ClearBindings(s, {loser})) /\ loser \notin DOMAIN ClearBindings(s, {loser}).bound
      BY ClearBindingsKeeps
    <3>2. Keeps(s, s1) /\ loser \notin DOMAIN s1.bound
      BY <2>2, <3>1
    <3> HIDE DEF s1
    <3> QED BY <3>2 DEF Keeps
  <2> QED BY <2>1, <2>2
<1> DEFINE f == [s1.rejected EXCEPT ![loser] = IF barred THEN @ \cup {m} ELSE @]
<1>2. f \in [Tracks -> SUBSET Nat]
  <2>1. s1.rejected \in [Tracks -> SUBSET Nat]
    BY <1>1, MemoryFacts
  <2> HIDE DEF s1, barred
  <2> QED BY <2>1
<1>3. s2 = [s1 EXCEPT !.rejected = f]
  <2> HIDE DEF s1, barred
  <2> QED BY <1>1 DEF Memory
<1>4. LoserLeaves(s, m, loser, c, stillMatches) = IF loser \in c.challenger THEN s2 ELSE s3
  BY DEF LoserLeaves
<1> HIDE DEF s1, f, s2
<1>5. Keeps(s1, s2) /\ s2 \in Memory /\ s2.bound = s1.bound
  BY <1>1, <1>2, <1>3 DEF Keeps, Memory
<1>6. Keeps(s, s2)
  BY <1>1, <1>5, KeepsOn
<1> DEFINE g == Set(s2.recovery, loser, Related(s2, loser))
<1>7. g \in Dict(Tracks, SUBSET Nat)
  <2>1. Related(s2, loser) \in SUBSET Nat
    BY <1>5, MemoryFacts DEF Related
  <2> QED BY <1>5, <2>1, SetMemory
<1>8. s3 = [s2 EXCEPT !.recovery = g]
  OBVIOUS
<1> HIDE DEF g, s3
<1>9. Keeps(s2, s3) /\ s3.bound = s2.bound
  BY <1>5, <1>7, <1>8 DEF Keeps, Memory
<1>10. Keeps(s, s3)
  BY <1>5, <1>6, <1>9, KeepsOn
<1> QED BY <1>1, <1>4, <1>5, <1>6, <1>9, <1>10

\* A contest ends: of its candidates only a challenger that wins gains anything,
\* and the owner it wins from in its own camera has been unbound.
LEMMA ResolveGives ==
  ASSUME NEW s, NEW W, Proper(s, W), NEW m \in DOMAIN s.conflict, StillContested(s, m),
         NEW winner \in s.conflict[m].cands, NEW loser \in s.conflict[m].cands, winner # loser,
         NEW stillMatches \in BOOLEAN, NEW V, W \subseteq V,
         winner \in s.conflict[m].challenger /\ CameraOf[winner] # CameraOf[loser] => m \in V
  PROVE  /\ Proper(Resolve(s, m, winner, loser, stillMatches), V)
         /\ Moves(s, Resolve(s, m, winner, loser, stillMatches), s.visible)
         /\ Resolve(s, m, winner, loser, stillMatches).visible = s.visible
<1> DEFINE c == s.conflict[m]
           s0 == [s EXCEPT !.conflict = Without(@, {m})]
           s1 == LoserLeaves(s0, m, loser, c, stillMatches)
           s2 == ReleaseRecovery(s1, Linked(s1, {m}))
           r == WinnerTakes(s2, m, winner, c)
<1>0. /\ s \in Memory /\ m \in Nat /\ m \in 1..s.masters /\ c \in Conflict
      /\ winner \in Tracks /\ loser \in Tracks
  <2>1. s \in Memory /\ m \in 1..s.masters
    BY DEF Proper, Existing
  <2>2. m \in Nat /\ c \in Conflict
    BY <2>1, MemoryFacts
  <2> QED BY <2>1, <2>2 DEF Conflict
<1>1. Resolve(s, m, winner, loser, stillMatches) = r
  BY DEF Resolve
<1>2. Keeps(s, s0) /\ s0 \in Memory
  <2> DEFINE f == Without(s.conflict, {m})
  <2>1. /\ f \in Dict(Nat, Conflict) /\ DOMAIN f = DOMAIN s.conflict \ {m}
        /\ \A x \in DOMAIN f : f[x] = s.conflict[x]
    BY <1>0, PopFacts, WithoutFacts
  <2> HIDE DEF f
  <2>2. Keeps(s, [s EXCEPT !.conflict = f])
    BY <1>0, <2>1 DEF Keeps, Memory
  <2> QED BY <2>2 DEF Keeps, f
<1> HIDE DEF s0
<1>3. Keeps(s0, s1) /\ s1 \in Memory /\ (loser \notin c.challenger => loser \notin DOMAIN s1.bound)
  BY <1>0, <1>2, LoserKeeps DEF Keeps
<1> HIDE DEF s1
<1>4. Keeps(s1, s2) /\ s2 \in Memory
  <2>1. Keeps(s1, s2)
    BY <1>3, ReleaseRecoveryKeeps
  <2> QED BY <2>1 DEF Keeps
<1> HIDE DEF s2
<1>5. Keeps(s, s1)
  BY <1>0, <1>2, <1>3, KeepsOn
<1>6. Keeps(s, s2)
  BY <1>0, <1>4, <1>5, KeepsOn
<1>7. loser \notin c.challenger => loser \notin DOMAIN s2.bound
  BY <1>3, <1>4 DEF Keeps
<1>8. CASE winner \notin c.challenger
  <2>1. r = s2
    BY <1>8 DEF WinnerTakes
  <2>2. Proper(s2, W) /\ Moves(s, s2, {})
    BY <1>6, KeepsProper
  <2>3. Proper(s2, V)
    BY <2>2 DEF Proper, Owners
  <2>4. Moves(s, s2, s.visible)
    BY <2>2 DEF Moves
  <2> QED BY <1>1, <1>6, <2>1, <2>3, <2>4 DEF Keeps
<1>9. CASE winner \in c.challenger
  <2> DEFINE s3 == ClearNonvisibleOwners(s2, m, winner)
  <2>1. loser \notin c.challenger /\ loser \in DOMAIN s.bound /\ s.bound[loser] = m /\ winner \in s.visible
    <3>1. loser \notin c.challenger
      BY <1>9 DEF Proper, OneChallenger
    <3> QED BY <1>9, <3>1 DEF StillContested, IsCurrent
  <2>2. Keeps(s2, s3)
    BY <1>0, <1>4, ClearNonvisibleKeeps
  <2>3. r = [s3 EXCEPT !.bound = Set(@, winner, m), !.rejected[winner] = {},
                     !.intake = Without(@, {winner}), !.shadow = Without(@, {winner})]
    BY <1>9 DEF WinnerTakes
  <2> HIDE DEF s3, c, r
  <2>4. Keeps(s, s3)
    BY <1>0, <1>4, <1>6, <2>2, KeepsOn
  <2>5. Proper(s3, W) /\ Moves(s, s3, {}) /\ s3 \in Memory /\ s3.masters = s.masters /\ s3.visible = s.visible
    BY <2>4, KeepsProper DEF Keeps
  <2>6. Proper(s3, V)
    BY <2>5 DEF Proper, Owners
  <2> DEFINE f == [s3.rejected EXCEPT ![winner] = {}]
             b == Set(s3.bound, winner, m)
  <2>7. f \in [Tracks -> SUBSET Nat]
    BY <2>5, MemoryFacts
  <2>8. r = [s3 EXCEPT !.bound = b, !.rejected = f,
                     !.intake = Without(@, {winner}), !.shadow = Without(@, {winner})]
    BY <2>3, <2>5 DEF Memory
  <2>9. /\ b \in Dict(Tracks, Nat)
        /\ Without(s3.intake, {winner}) \in Dict(Tracks, Intake)
        /\ Without(s3.shadow, {winner}) \in Dict(Tracks, Shadow)
    BY <1>0, <2>5, SetMemory, PopFacts
  <2> HIDE DEF f, b
  <2>10. /\ r \in Memory /\ r.masters = s3.masters /\ r.gen = s3.gen /\ r.conflict = s3.conflict
         /\ r.bound = b /\ r.visible = s3.visible
         /\ r.intake = Without(s3.intake, {winner}) /\ r.shadow = Without(s3.shadow, {winner})
    BY <2>5, <2>7, <2>8, <2>9 DEF Memory
  <2>11. m \in V \/ \A u \in DOMAIN s3.bound : u # winner /\ CameraOf[u] = CameraOf[winner] => s3.bound[u] # m
    <3> SUFFICES ASSUME m \notin V, NEW u \in DOMAIN s3.bound, CameraOf[u] = CameraOf[winner], s3.bound[u] = m
                 PROVE  FALSE
      OBVIOUS
    <3>1. CameraOf[winner] = CameraOf[loser]
      BY <1>9 DEF c
    <3>2. u \in DOMAIN s2.bound /\ u \in DOMAIN s.bound /\ s.bound[u] = m
      BY <2>2, <2>4 DEF Keeps
    <3>3. u # loser
      BY <1>7, <2>1, <3>2
    <3>4. u = loser \/ m \in W
      BY <2>1, <3>1, <3>2 DEF Proper, Owners
    <3> QED BY <3>3, <3>4
  <2>12. Proper(r, V) /\ Moves(s3, r, {winner})
    BY <1>0, <2>5, <2>6, <2>10, <2>11, Given DEF b
  <2>13. Moves(s, r, {} \cup {winner})
    BY <1>0, <2>5, <2>10, <2>12, MovesOn
  <2>14. Moves(s, r, s.visible)
    BY <2>1, <2>13 DEF Moves
  <2> QED BY <1>1, <2>5, <2>10, <2>12, <2>14 DEF r
<1> QED BY <1>8, <1>9

LEMMA ArbitrateStep ==
  ASSUME Proper(mem, crossWon), Tasks, Arbitrate
  PROVE  Proper(mem', crossWon') /\ Moves(mem, mem', mem.visible) /\ mem'.visible = mem.visible
<1> DEFINE m == worker[1].master
<1>0. mem \in Memory
  BY DEF Proper
<1>1. ASSUME Keeps(mem, mem'), crossWon' = crossWon
      PROVE  Proper(mem', crossWon') /\ Moves(mem, mem', mem.visible) /\ mem'.visible = mem.visible
  <2>1. Proper(mem', crossWon) /\ Moves(mem, mem', {})
    BY <1>1, KeepsProper
  <2> QED BY <1>1, <2>1 DEF Keeps, Moves
<1>2. CASE mem' = mem /\ crossWon' = crossWon
  BY <1>0, <1>1, <1>2, KeepsSelf
<1>3. CASE mem' = CancelConflicts(mem, {m}) /\ crossWon' = crossWon
  BY <1>0, <1>1, <1>3, CancelConflictsKeeps
<1>4. CASE m \in DOMAIN mem.conflict /\ mem' = Resubmittable(mem, m) /\ crossWon' = crossWon
  BY <1>0, <1>1, <1>4, ResubmitKeeps
<1>5. ASSUME m \in DOMAIN mem.conflict, StillContested(mem, m),
             NEW winner \in mem.conflict[m].cands, NEW loser \in mem.conflict[m].cands,
             NEW stillMatches \in BOOLEAN, winner # loser,
             mem' = Resolve(mem, m, winner, loser, stillMatches),
             crossWon' = IF /\ winner \in mem.conflict[m].challenger
                            /\ CameraOf[winner] # CameraOf[loser]
                           THEN crossWon \cup {m} ELSE crossWon
      PROVE  Proper(mem', crossWon') /\ Moves(mem, mem', mem.visible) /\ mem'.visible = mem.visible
  <2>1. crossWon \subseteq crossWon'
    BY <1>5
  <2>2. winner \in mem.conflict[m].challenger /\ CameraOf[winner] # CameraOf[loser] => m \in crossWon'
    BY <1>5
  <2> HIDE DEF m
  <2> QED BY <1>5, <2>1, <2>2, ResolveGives
<1> QED BY <1>2, <1>3, <1>4, <1>5 DEF Arbitrate

-----------------------------------------------------------------------------
(* The first invariant of the whole.                                        *)

LEMMA QueueFacts ==
  ASSUME NEW S, NEW s \in Seq(S)
  PROVE  /\ \A x \in S : /\ Append(s, x) \in Seq(S)
                         /\ \A k \in DOMAIN Append(s, x) :
                              Append(s, x)[k] = x \/ \E j \in DOMAIN s : Append(s, x)[k] = s[j]
         /\ s # << >> => /\ Tail(s) \in Seq(S) /\ Head(s) = s[1] /\ 1 \in DOMAIN s
                         /\ \A k \in DOMAIN Tail(s) : \E j \in DOMAIN s : Tail(s)[k] = s[j]
<1>1. \A x \in S : /\ Append(s, x) \in Seq(S)
                   /\ \A k \in DOMAIN Append(s, x) :
                        Append(s, x)[k] = x \/ \E j \in DOMAIN s : Append(s, x)[k] = s[j]
  <2> TAKE x \in S
  <2>1. /\ Append(s, x) \in Seq(S)
        /\ Append(s, x)[Len(s) + 1] = x /\ \A k \in 1 .. Len(s) : Append(s, x)[k] = s[k]
        /\ DOMAIN Append(s, x) = 1 .. Len(s) + 1 /\ DOMAIN s = 1 .. Len(s) /\ Len(s) \in Nat
    BY AppendProperties, LenProperties
  <2> QED BY <2>1
<1>2. ASSUME s # << >>
      PROVE  /\ Tail(s) \in Seq(S) /\ Head(s) = s[1] /\ 1 \in DOMAIN s
             /\ \A k \in DOMAIN Tail(s) : \E j \in DOMAIN s : Tail(s)[k] = s[j]
  <2>1. /\ Tail(s) \in Seq(S) /\ Len(Tail(s)) = Len(s) - 1 /\ Len(s) \in Nat /\ Len(s) > 0
        /\ \A k \in 1 .. Len(Tail(s)) : Tail(s)[k] = s[k + 1]
        /\ DOMAIN Tail(s) = 1 .. Len(Tail(s)) /\ DOMAIN s = 1 .. Len(s)
    BY <1>2, HeadTailProperties, LenProperties, EmptySeq
  <2>2. Head(s) = s[1] /\ 1 \in DOMAIN s
    BY <1>2, <2>1, HeadTailProperties
  <2>3. ASSUME NEW k \in DOMAIN Tail(s) PROVE k + 1 \in DOMAIN s /\ Tail(s)[k] = s[k + 1]
    BY <2>1
  <2> QED BY <2>1, <2>2, <2>3
<1> QED BY <1>1, <1>2

Safe == Proper(mem, crossWon) /\ Tasks

\* Tasks stay fitting when the memory moves on and the queue gets one that fits.
LEMMA TasksMove ==
  ASSUME Safe, mem' \in Memory, NEW G, Moves(mem, mem', G), QueueMoves(mem'),
         worker' = worker \/ worker' = << >>
  PROVE  Tasks'
<1>1. mem \in Memory
  BY DEF Safe, Proper
<1>2. \A i \in DOMAIN queue : TaskFits(mem', queue[i])
  BY <1>1, MovesFits DEF Safe, Tasks
<1>3. \A i \in DOMAIN worker : TaskFits(mem', worker[i])
  BY <1>1, MovesFits DEF Safe, Tasks
<1>4. queue' \in Seq(Task) /\ \A i \in DOMAIN queue' : TaskFits(mem', queue'[i])
  <2>1. CASE queue' = queue
    BY <1>2, <2>1 DEF Safe, Tasks
  <2>2. ASSUME NEW task \in Task, queue' = Append(queue, task), TaskFits(mem', task)
        PROVE  queue' \in Seq(Task) /\ \A i \in DOMAIN queue' : TaskFits(mem', queue'[i])
    <3>1. queue \in Seq(Task)
      BY DEF Safe, Tasks
    <3>2. /\ Append(queue, task) \in Seq(Task)
          /\ \A k \in DOMAIN Append(queue, task) :
               Append(queue, task)[k] = task \/ \E j \in DOMAIN queue : Append(queue, task)[k] = queue[j]
      BY <3>1, QueueFacts
    <3> QED BY <1>2, <2>2, <3>2
  <2> QED BY <2>1, <2>2 DEF QueueMoves
<1>5. worker' \in Seq(Task) /\ \A i \in DOMAIN worker' : TaskFits(mem', worker'[i])
  <2>1. CASE worker' = worker
    BY <1>3, <2>1 DEF Safe, Tasks
  <2>2. CASE worker' = << >>
    BY <2>2
  <2> QED BY <2>1, <2>2
<1> QED BY <1>4, <1>5 DEF Tasks

LEMMA TakeStep ==
  ASSUME Safe, Take
  PROVE  Safe'
<1>1. queue \in Seq(Task) /\ worker \in Seq(Task) /\ \A i \in DOMAIN queue : TaskFits(mem, queue[i])
  BY DEF Safe, Tasks
<1>2. /\ Tail(queue) \in Seq(Task) /\ Head(queue) = queue[1] /\ 1 \in DOMAIN queue
      /\ \A k \in DOMAIN Tail(queue) : \E j \in DOMAIN queue : Tail(queue)[k] = queue[j]
  BY <1>1, QueueFacts DEF Take
<1>3. \A i \in DOMAIN queue' : TaskFits(mem, queue'[i])
  BY <1>1, <1>2 DEF Take
<1>4. Head(queue) \in Task /\ TaskFits(mem, Head(queue))
  BY <1>1, <1>2
<1>5. worker' \in Seq(Task) /\ \A i \in DOMAIN worker' : TaskFits(mem, worker'[i])
  <2>1. worker' = << >> \/ worker' = << Head(queue) >>
    BY DEF Take
  <2>2. CASE worker' = << >>
    BY <2>2
  <2>3. CASE worker' = << Head(queue) >>
    <3> DEFINE h == Head(queue)
    <3>1. worker' = << h >> /\ h \in Task /\ TaskFits(mem, h)
      BY <1>4, <2>3
    <3> HIDE DEF h
    <3>2. << h >> \in Seq(Task) /\ \A i \in DOMAIN << h >> : << h >>[i] = h
      BY <3>1
    <3> QED BY <3>1, <3>2
  <2> QED BY <2>1, <2>2, <2>3
<1>6. mem' = mem /\ crossWon' = crossWon /\ queue' = Tail(queue)
  BY DEF Take
<1> QED BY <1>2, <1>3, <1>5, <1>6 DEF Safe, Tasks

\* A step in which only tracks of G gain, and what it leaves behind.
LEMMA GainedFacts ==
  ASSUME NEW G, Moves(mem, mem', G), NEW t, Gained(t)
  PROVE  t \in G
BY DEF Moves, Gained

Seen(t) ==
  /\ t \in mem'.visible
  /\ worker # << >> /\ worker' = << >> /\ worker[1].type = "intake" => ~worker[1].left

LEMMA Step ==
  ASSUME Safe, Next
  PROVE  Safe' /\ \A t \in Tracks : Gained(t) => Seen(t)
<1>0. Proper(mem, crossWon) /\ Tasks /\ mem \in Memory
  BY DEF Safe, Proper
<1>1. ASSUME NEW c \in Cameras, Observe(c)
      PROVE  Safe' /\ \A t \in Tracks : Gained(t) => Seen(t)
  <2>1. Proper(mem', crossWon) /\ Moves(mem, mem', {}) /\ Tasks' /\ crossWon' = crossWon
    BY <1>0, <1>1, ObserveStep DEF Observe
  <2> QED BY <2>1, GainedFacts DEF Safe
<1>2. ASSUME NEW t \in Tracks, Assign(t)
      PROVE  Safe' /\ \A u \in Tracks : Gained(u) => Seen(u)
  <2>1. /\ Proper(mem', crossWon) /\ Moves(mem, mem', {t}) /\ QueueMoves(mem')
        /\ mem'.visible = mem.visible /\ t \in mem.visible
    BY <1>0, <1>2, AssignStep
  <2>2. worker' = worker /\ crossWon' = crossWon
    BY <1>2 DEF Assign
  <2>3. Tasks'
    BY <2>1, <2>2, TasksMove DEF Proper
  <2> QED BY <2>1, <2>2, <2>3, GainedFacts DEF Safe, Seen
<1>3. ASSUME NEW pair \in Pairs, HoldPair(pair) \/ ReleasePair(pair)
      PROVE  Safe' /\ \A t \in Tracks : Gained(t) => Seen(t)
  <2>1. Proper(mem', crossWon) /\ Moves(mem, mem', {})
    BY <1>0, <1>3, HoldsStep
  <2>2. queue' = queue /\ worker' = worker /\ crossWon' = crossWon
    BY <1>3 DEF HoldPair, ReleasePair
  <2>3. Tasks'
    BY <2>1, <2>2, TasksMove DEF Proper, QueueMoves
  <2> QED BY <2>1, <2>2, <2>3, GainedFacts DEF Safe
<1>4. CASE Take
  <2>1. mem' = mem
    BY <1>4 DEF Take
  <2> QED BY <1>4, <2>1, TakeStep DEF Gained
<1>5. CASE Fail
  <2>1. Proper(mem', crossWon) /\ Moves(mem, mem', {})
    BY <1>0, <1>5, FailStep
  <2>2. queue' = queue /\ worker' = << >> /\ crossWon' = crossWon
    BY <1>5 DEF Fail
  <2>3. Tasks'
    BY <2>1, <2>2, TasksMove DEF Proper, QueueMoves
  <2> QED BY <2>1, <2>2, <2>3, GainedFacts DEF Safe
<1>6. CASE Analyse
  <2> DEFINE G == {t \in {worker[1].track} : IsCurrent(mem, t, worker[1].gen)}
  <2>1. Proper(mem', crossWon) /\ mem'.visible = mem.visible /\ Moves(mem, mem', G)
    BY <1>0, <1>6, AnalyseStep
  <2>2. queue' = queue /\ worker' = << >> /\ crossWon' = crossWon /\ worker # << >> /\ worker[1].type = "intake"
    BY <1>6 DEF Analyse
  <2>3. ASSUME NEW t \in G PROVE Seen(t)
    <3>1. t = worker[1].track /\ IsCurrent(mem, t, worker[1].gen)
      OBVIOUS
    <3>2. worker[1] \in IntakeTask /\ BurstFits(mem, worker[1])
      <4>1. worker[1] \in Task /\ TaskFits(mem, worker[1])
        BY <1>0, <2>2, WorkerFacts
      <4>2. worker[1] \in IntakeTask
        BY <2>2, <4>1 DEF Task, ConflictTask
      <4> QED BY <4>1, <4>2 DEF TaskFits
    <3>3. t \in DOMAIN mem.intake /\ mem.intake[t].gen = worker[1].gen /\ t \in mem.visible
      BY <3>1 DEF IsCurrent
    <3>4. worker[1].gen \in Nat
      BY <3>2 DEF IntakeTask
    <3>5. ~worker[1].left
      BY <3>1, <3>2, <3>3, <3>4 DEF BurstFits
    <3> QED BY <2>1, <3>3, <3>5 DEF Seen
  <2> HIDE DEF G
  <2>4. Tasks'
    BY <2>1, <2>2, TasksMove DEF Proper, QueueMoves
  <2> QED BY <2>1, <2>2, <2>3, <2>4, GainedFacts DEF Safe
<1>7. CASE Arbitrate
  <2>1. Proper(mem', crossWon') /\ Moves(mem, mem', mem.visible) /\ mem'.visible = mem.visible
    BY <1>0, <1>7, ArbitrateStep
  <2>2. queue' = queue /\ worker' = << >> /\ worker[1].type = "physical_conflict"
    BY <1>7 DEF Arbitrate
  <2>3. Tasks'
    BY <2>1, <2>2, TasksMove DEF Proper, QueueMoves
  <2> QED BY <2>1, <2>2, <2>3, GainedFacts DEF Safe, Seen
<1> QED BY <1>1, <1>2, <1>3, <1>4, <1>5, <1>6, <1>7 DEF Next

LEMMA Start ==
  ASSUME Init
  PROVE  Safe
<1>1. /\ << >> \in Dict(Tracks, Nat) /\ << >> \in Dict(Tracks, Intake)
      /\ << >> \in Dict(Tracks, Shadow) /\ << >> \in Dict(Nat, Conflict)
      /\ << >> \in Dict(Tracks, SUBSET Nat) /\ DOMAIN << >> = {}
  BY EmptyFacts
<1>2. Known \in Nat
  BY BindingAssumption
<1>3. mem \in Memory
  BY <1>1, <1>2 DEF Init, Memory
<1>4. DOMAIN mem.bound = {} /\ DOMAIN mem.intake = {} /\ DOMAIN mem.shadow = {} /\ DOMAIN mem.conflict = {}
  BY <1>1 DEF Init
<1>5. Proper(mem, crossWon)
  BY <1>3, <1>4 DEF Proper, Existing, Roles, Owners, OneChallenger, Generations
<1>6. Tasks
  BY DEF Tasks, Init
<1> QED BY <1>5, <1>6 DEF Safe

LEMMA SafeStep == Safe /\ [Next]_vars => Safe' /\ \A t \in Tracks : Gained(t) => Seen(t)
<1>1. CASE Next
  BY <1>1, Step
<1>2. CASE UNCHANGED vars
  BY <1>2 DEF vars, Safe, Tasks, Gained
<1> QED BY <1>1, <1>2

-----------------------------------------------------------------------------
(* The contests, and what an intake that was put off waits for.             *)

\* A contest is of two candidates, in view once they are ready, of whom each
\* has the master or challenges for it.
Bouts(s) ==
  \A m \in DOMAIN s.conflict :
    LET c == s.conflict[m]
    IN /\ m <= s.masters /\ c.token <= s.token
       /\ \E t, u \in Tracks : t # u /\ c.cands = {t, u}
       /\ c.challenger \subseteq c.ready /\ c.ready \subseteq c.cands
       /\ c.ready \subseteq s.visible
       /\ c.submitted => c.ready = c.cands
       /\ \A t \in c.cands \ c.challenger : t \in DOMAIN s.bound /\ s.bound[t] = m

\* A challenger challenges once, with an intake that waits for the verdict; it
\* may take the master.
Challengers(s) ==
  \A m \in DOMAIN s.conflict : \A t \in s.conflict[m].challenger :
    /\ t \in DOMAIN s.intake /\ s.intake[t].gen = s.conflict[m].gen
    /\ "contest" \in s.intake[t].deferred
    /\ m \notin s.rejected[t] /\ m \notin s.intake[t].handoff
    /\ t \notin DOMAIN s.shadow
    /\ \A n \in DOMAIN s.conflict : t \in s.conflict[n].challenger => n = m

\* An intake is of a track in view, waits for one thing at most, which is
\* still there unless the track is in X, and agrees with its shadow entry.
Excused(s, t, f) ==
  \/ f = "hold" /\ s.holds[t] # {}
  \/ f = "recovery" /\ t \in DOMAIN s.recovery
  \/ f = "contest" /\ \E m \in DOMAIN s.conflict : t \in s.conflict[m].challenger
Waits(s, X) ==
  \A t \in DOMAIN s.intake :
    LET i == s.intake[t]
    IN /\ t \in s.visible
       /\ i.deferred # {} => i.submitted
       /\ \A f, g \in i.deferred : f = g
       /\ t \in X \/ \A f \in i.deferred : Excused(s, t, f)
       /\ i.handoff \cap s.rejected[t] = {}
       /\ t \in DOMAIN s.shadow =>
            /\ i.handoff = s.shadow[t].id /\ i.from = {s.shadow[t].canon}
            /\ s.shadow[t].id # {} /\ ~s.shadow[t].verified

\* Only a track in view that is no shadow is barred from masters, all of which exist.
Losses(s) ==
  \A t \in Tracks :
    /\ s.rejected[t] \subseteq 1..s.masters
    /\ s.rejected[t] # {} => t \in s.visible /\ t \notin DOMAIN s.shadow

\* Holds of losers are linked to contests that go on, or to those of Y.
Links(s, Y) == \A t \in DOMAIN s.recovery : s.recovery[t] \subseteq DOMAIN s.conflict \cup Y

Sound(s, X, Y) == Bouts(s) /\ Challengers(s) /\ Waits(s, X) /\ Losses(s) /\ Links(s, Y)

\* What the methods that only take away do to an intake and to a contest: one
\* that waited may be armed again, the rest stays as it is or goes.
Calm(s, r) ==
  /\ Keeps(s, r)
  /\ r.token = s.token
  /\ \A m \in DOMAIN r.conflict : r.conflict[m] = s.conflict[m]
  /\ \A t \in DOMAIN r.intake :
       r.intake[t] = s.intake[t] \/ (s.intake[t].deferred # {} /\ ~r.intake[t].submitted)
  /\ \A t \in Tracks : r.rejected[t] \subseteq s.rejected[t]

LEMMA CalmSelf == ASSUME NEW s \in Memory PROVE Calm(s, s)
BY KeepsSelf DEF Calm

LEMMA CalmOn ==
  ASSUME NEW s \in Memory, NEW r, NEW q, Calm(s, r), Calm(r, q)
  PROVE  Calm(s, q)
<1>1. Keeps(s, q)
  BY KeepsOn DEF Calm
<1>2. q.token = s.token /\ \A m \in DOMAIN q.conflict : q.conflict[m] = s.conflict[m]
  BY DEF Calm, Keeps
<1>3. ASSUME NEW t \in DOMAIN q.intake
      PROVE  q.intake[t] = s.intake[t] \/ (s.intake[t].deferred # {} /\ ~q.intake[t].submitted)
  <2>1. t \in DOMAIN r.intake
    BY DEF Calm, Keeps
  <2> QED BY <2>1 DEF Calm
<1>4. \A t \in Tracks : q.rejected[t] \subseteq s.rejected[t]
  BY DEF Calm
<1> QED BY <1>1, <1>2, <1>3, <1>4 DEF Calm

\* The memory but for its intakes, contests and recovery holds.
Rest(s, r) ==
  /\ r.visible = s.visible /\ r.masters = s.masters /\ r.bound = s.bound /\ r.gen = s.gen
  /\ r.tentative = s.tentative /\ r.shadow = s.shadow /\ r.holds = s.holds
  /\ r.rejected = s.rejected /\ r.token = s.token

LEMMA RecoveryFacts ==
  ASSUME NEW s \in Memory
  PROVE  DOMAIN s.recovery \subseteq Tracks /\ \A t \in DOMAIN s.recovery : s.recovery[t] \subseteq Nat
<1>1. s.recovery \in Dict(Tracks, SUBSET Nat)
  BY DEF Memory
<1> QED BY <1>1, DictFacts

\* An intake armed again.
Armed(i, j) == j.gen = i.gen /\ j.handoff = i.handoff /\ j.from = i.from /\ ~j.submitted

LEMMA RearmEffect ==
  ASSUME NEW s \in Memory, NEW T, NEW flag
  PROVE  LET r == Rearm(s, T, flag)
         IN /\ r \in Memory /\ Rest(s, r) /\ r.conflict = s.conflict /\ r.recovery = s.recovery
            /\ DOMAIN r.intake = DOMAIN s.intake
            /\ \A t \in DOMAIN s.intake \ T : r.intake[t] = s.intake[t]
            /\ \A t \in DOMAIN s.intake \cap T :
                 Armed(s.intake[t], r.intake[t]) /\ r.intake[t].deferred = s.intake[t].deferred \ {flag}
<1> DEFINE f == [t \in DOMAIN s.intake |->
                   IF t \in T THEN [s.intake[t] EXCEPT !.submitted = FALSE, !.deferred = @ \ {flag}]
                              ELSE s.intake[t]]
           r == Rearm(s, T, flag)
<1>1. \A t \in DOMAIN s.intake : s.intake[t] \in Intake
  BY MemoryFacts
<1>2. /\ DOMAIN f = DOMAIN s.intake
      /\ \A t \in DOMAIN s.intake \ T : f[t] = s.intake[t]
      /\ \A t \in DOMAIN s.intake \cap T :
           Armed(s.intake[t], f[t]) /\ f[t].deferred = s.intake[t].deferred \ {flag}
  BY <1>1 DEF Intake, Armed
<1>3. r \in Memory
  BY RearmKeeps DEF Keeps
<1>4. CASE T = {}
  BY <1>3, <1>4 DEF Rearm, Rest
<1>5. CASE T # {}
  <2>1. r = [s EXCEPT !.intake = f]
    BY <1>5 DEF Rearm
  <2> HIDE DEF f
  <2>2. Rest(s, r) /\ r.conflict = s.conflict /\ r.recovery = s.recovery /\ r.intake = f
    BY <2>1 DEF Memory, Rest
  <2> HIDE DEF Rearm
  <2> QED BY <1>2, <1>3, <2>2
<1> QED BY <1>4, <1>5

\* What is let go of the contests, the intakes that waited and the holds.
LEMMA Lighten ==
  ASSUME NEW s \in Memory, NEW X, NEW Y, NEW Z, Sound(s, X, Y), NEW r \in Memory, Rest(s, r),
         Keeps(s, r),
         DOMAIN r.conflict \subseteq DOMAIN s.conflict,
         \A m \in DOMAIN r.conflict : r.conflict[m] = s.conflict[m],
         DOMAIN r.intake = DOMAIN s.intake,
         \A t \in DOMAIN s.intake : \/ r.intake[t] = s.intake[t]
                                    \/ /\ s.intake[t].deferred # {} /\ r.intake[t].deferred = {}
                                       /\ Armed(s.intake[t], r.intake[t]),
         \A t \in DOMAIN s.intake \ X : \A f \in r.intake[t].deferred : Excused(r, t, f),
         \A m \in DOMAIN r.conflict : \A t \in s.conflict[m].challenger : r.intake[t] = s.intake[t],
         Links(r, Z)
  PROVE  Sound(r, X, Z) /\ Calm(s, r)
<1>1. Bouts(r)
  BY DEF Sound, Bouts, Rest
<1>2. Challengers(r)
  BY DEF Sound, Challengers, Rest
<1>3. Waits(r, X)
  <2> SUFFICES ASSUME NEW t \in DOMAIN r.intake
               PROVE  /\ t \in r.visible
                      /\ r.intake[t].deferred # {} => r.intake[t].submitted
                      /\ \A f, g \in r.intake[t].deferred : f = g
                      /\ t \in X \/ \A f \in r.intake[t].deferred : Excused(r, t, f)
                      /\ r.intake[t].handoff \cap r.rejected[t] = {}
                      /\ t \in DOMAIN r.shadow =>
                           /\ r.intake[t].handoff = r.shadow[t].id /\ r.intake[t].from = {r.shadow[t].canon}
                           /\ r.shadow[t].id # {} /\ ~r.shadow[t].verified
    BY DEF Waits
  <2>1. t \in DOMAIN s.intake
    OBVIOUS
  <2>2. CASE r.intake[t] = s.intake[t]
    BY <2>1, <2>2 DEF Sound, Waits, Rest
  <2>3. CASE r.intake[t].deferred = {} /\ Armed(s.intake[t], r.intake[t])
    BY <2>1, <2>3 DEF Sound, Waits, Rest, Armed
  <2> QED BY <2>1, <2>2, <2>3
<1>4. Losses(r)
  BY DEF Sound, Losses, Rest
<1>5. Calm(s, r)
  <2>1. \A t \in DOMAIN r.intake :
          r.intake[t] = s.intake[t] \/ (s.intake[t].deferred # {} /\ ~r.intake[t].submitted)
    BY DEF Armed
  <2> QED BY <2>1 DEF Calm, Rest
<1> QED BY <1>1, <1>2, <1>3, <1>4, <1>5 DEF Sound

LEMMA SoundMore ==
  ASSUME NEW s, NEW X, NEW Y, Sound(s, X, Y), NEW V, X \subseteq V
  PROVE  Sound(s, V, Y)
BY DEF Sound, Waits

LEMMA DropRecoverySound ==
  ASSUME NEW s \in Memory, NEW X, NEW Y, Sound(s, X, Y), NEW T
  PROVE  Sound(DropRecovery(s, T), X \cup T, Y) /\ Calm(s, DropRecovery(s, T))
<1> DEFINE r == DropRecovery(s, T)
<1>1. r \in Memory /\ Keeps(s, r)
  BY DropRecoveryKeeps DEF Keeps
<1>2. /\ Rest(s, r) /\ r.conflict = s.conflict /\ r.intake = s.intake
      /\ r.recovery = Without(s.recovery, T)
  BY DEF DropRecovery, Rest, Memory
<1>3. DOMAIN r.recovery = DOMAIN s.recovery \ T /\ \A t \in DOMAIN r.recovery : r.recovery[t] = s.recovery[t]
  <2>1. /\ DOMAIN Without(s.recovery, T) = DOMAIN s.recovery \ T
        /\ \A t \in DOMAIN Without(s.recovery, T) : Without(s.recovery, T)[t] = s.recovery[t]
    BY WithoutFacts, Zenon
  <2> QED BY <1>2, <2>1
<1> HIDE DEF r
<1>4. Links(r, Y)
  BY <1>2, <1>3 DEF Sound, Links
<1>5. \A t \in DOMAIN s.intake \ (X \cup T) : \A f \in r.intake[t].deferred : Excused(r, t, f)
  BY <1>2, <1>3 DEF Sound, Waits, Excused, Rest
<1>6. Sound(s, X \cup T, Y)
  BY SoundMore
<1> QED BY <1>1, <1>2, <1>4, <1>5, <1>6, Lighten DEF r

LEMMA ReleaseRecoverySound ==
  ASSUME NEW s \in Memory, NEW X, NEW Y, NEW Z, Sound(s, X, Y), NEW T,
         \A t \in DOMAIN s.recovery \ T : s.recovery[t] \subseteq DOMAIN s.conflict \cup Z
  PROVE  Sound(ReleaseRecovery(s, T), X, Z) /\ Calm(s, ReleaseRecovery(s, T))
<1> DEFINE T0 == T \cap DOMAIN s.recovery
           s1 == [s EXCEPT !.recovery = Without(@, T0)]
           A == T0 \cap Deferred(s, "recovery")
           r == Rearm(s1, A, "recovery")
<1>1. /\ s1 \in Memory /\ Rest(s, s1) /\ s1.conflict = s.conflict /\ s1.intake = s.intake
      /\ s1.recovery = Without(s.recovery, T0)
  <2>1. Without(s.recovery, T0) \in Dict(Tracks, SUBSET Nat)
    BY PopFacts
  <2> QED BY <2>1 DEF Memory, Rest
<1>2. DOMAIN s1.recovery = DOMAIN s.recovery \ T /\ \A t \in DOMAIN s1.recovery : s1.recovery[t] = s.recovery[t]
  <2> HIDE DEF T0
  <2>1. /\ DOMAIN Without(s.recovery, T0) = DOMAIN s.recovery \ T0
        /\ \A t \in DOMAIN Without(s.recovery, T0) : Without(s.recovery, T0)[t] = s.recovery[t]
    BY WithoutFacts, Zenon
  <2>2. DOMAIN s.recovery \ T0 = DOMAIN s.recovery \ T
    BY DEF T0
  <2> QED BY <1>1, <2>1, <2>2
<1>3. A \subseteq DOMAIN s.intake /\ \A t \in A : "recovery" \in s.intake[t].deferred /\ t \in T
  BY DEF Deferred
<1>4. \A t \in T \cap DOMAIN s.recovery \cap DOMAIN s.intake : "recovery" \in s.intake[t].deferred => t \in A
  BY DEF Deferred
<1>5. ReleaseRecovery(s, T) = r
  BY DEF ReleaseRecovery
<1>6. Keeps(s, r)
  BY <1>5, ReleaseRecoveryKeeps
<1> HIDE DEF s1, A
<1>7. /\ r \in Memory /\ Rest(s1, r) /\ r.conflict = s1.conflict /\ r.recovery = s1.recovery
      /\ DOMAIN r.intake = DOMAIN s1.intake
      /\ \A t \in DOMAIN s1.intake \ A : r.intake[t] = s1.intake[t]
      /\ \A t \in DOMAIN s1.intake \cap A :
           Armed(s1.intake[t], r.intake[t]) /\ r.intake[t].deferred = s1.intake[t].deferred \ {"recovery"}
  BY <1>1, RearmEffect
<1> HIDE DEF r
<1>8. Rest(s, r)
  BY <1>1, <1>7 DEF Rest
<1>9. \A t \in A : s.intake[t].deferred # {} /\ r.intake[t].deferred = {} /\ Armed(s.intake[t], r.intake[t])
  BY <1>1, <1>3, <1>7 DEF Sound, Waits
<1>10. \A t \in DOMAIN s.intake \ X : \A f \in r.intake[t].deferred : Excused(r, t, f)
  <2> SUFFICES ASSUME NEW t \in DOMAIN s.intake \ X, NEW f \in r.intake[t].deferred PROVE Excused(r, t, f)
    OBVIOUS
  <2>1. t \notin A /\ r.intake[t] = s.intake[t] /\ Excused(s, t, f)
    BY <1>1, <1>7, <1>9 DEF Sound, Waits
  <2>2. f = "recovery" /\ t \in DOMAIN s.recovery => t \notin T
    BY <1>4, <2>1
  <2> QED BY <1>1, <1>2, <1>7, <1>8, <2>1, <2>2 DEF Excused, Rest
<1>11. \A m \in DOMAIN r.conflict : \A t \in s.conflict[m].challenger : r.intake[t] = s.intake[t]
  <2> SUFFICES ASSUME NEW m \in DOMAIN r.conflict, NEW t \in s.conflict[m].challenger PROVE t \notin A
    BY <1>1, <1>7 DEF Sound, Challengers
  <2>1. t \in DOMAIN s.intake /\ "contest" \in s.intake[t].deferred
    BY <1>1, <1>7 DEF Sound, Challengers
  <2>2. "recovery" \notin s.intake[t].deferred
    <3>1. "recovery" # "contest"
      OBVIOUS
    <3> QED BY <2>1, <3>1 DEF Sound, Waits
  <2> QED BY <1>3, <2>2
<1>12. Links(r, Z)
  BY <1>1, <1>2, <1>7 DEF Links
<1>13. \A t \in DOMAIN s.intake : \/ r.intake[t] = s.intake[t]
                                    \/ /\ s.intake[t].deferred # {} /\ r.intake[t].deferred = {}
                                       /\ Armed(s.intake[t], r.intake[t])
  BY <1>1, <1>7, <1>9
<1>14. Sound(r, X, Z) /\ Calm(s, r)
  BY <1>1, <1>6, <1>7, <1>8, <1>10, <1>11, <1>12, <1>13, Lighten
<1> QED BY <1>5, <1>14

LEMMA CancelSound ==
  ASSUME NEW s \in Memory, NEW X, NEW Y, Sound(s, X, Y), NEW M
  PROVE  Sound(CancelConflicts(s, M), X, Y) /\ Calm(s, CancelConflicts(s, M))
<1> DEFINE ended == M \cap DOMAIN s.conflict
           waiting == {t \in DOMAIN s.intake : \E m \in ended :
                         t \in s.conflict[m].challenger /\ s.intake[t].gen = s.conflict[m].gen}
           s1 == [s EXCEPT !.conflict = Without(@, ended)]
           s2 == Rearm(s1, waiting, "contest")
           L == Linked(s, ended)
<1>1. /\ s1 \in Memory /\ Rest(s, s1) /\ s1.intake = s.intake /\ s1.recovery = s.recovery
      /\ DOMAIN s1.conflict = DOMAIN s.conflict \ ended
      /\ \A m \in DOMAIN s1.conflict : s1.conflict[m] = s.conflict[m]
  <2> HIDE DEF ended
  <2>1. /\ Without(s.conflict, ended) \in Dict(Nat, Conflict)
        /\ DOMAIN Without(s.conflict, ended) = DOMAIN s.conflict \ ended
        /\ \A m \in DOMAIN Without(s.conflict, ended) : Without(s.conflict, ended)[m] = s.conflict[m]
    <3>1. /\ DOMAIN Without(s.conflict, ended) = DOMAIN s.conflict \ ended
          /\ \A m \in DOMAIN Without(s.conflict, ended) : Without(s.conflict, ended)[m] = s.conflict[m]
      BY WithoutFacts, Zenon
    <3> QED BY <3>1, PopFacts
  <2> QED BY <2>1 DEF Memory, Rest
<1>2. waiting \subseteq DOMAIN s.intake
  OBVIOUS
<1>3. \A t \in waiting : \E m \in ended : t \in s.conflict[m].challenger
  OBVIOUS
<1>4. \A m \in ended : \A t \in s.conflict[m].challenger : t \in waiting
  BY DEF Sound, Challengers
<1>5. CancelConflicts(s, M) = ReleaseRecovery(s2, L)
  BY DEF CancelConflicts
<1>6. ended \subseteq DOMAIN s.conflict
  OBVIOUS
<1>7. L = {t \in DOMAIN s.recovery : s.recovery[t] \cap ended # {}}
  BY DEF Linked
<1> HIDE DEF s1, waiting, ended, L
<1>8. /\ s2 \in Memory /\ Rest(s1, s2) /\ s2.conflict = s1.conflict /\ s2.recovery = s1.recovery
      /\ DOMAIN s2.intake = DOMAIN s1.intake
      /\ \A t \in DOMAIN s1.intake \ waiting : s2.intake[t] = s1.intake[t]
      /\ \A t \in DOMAIN s1.intake \cap waiting :
           Armed(s1.intake[t], s2.intake[t]) /\ s2.intake[t].deferred = s1.intake[t].deferred \ {"contest"}
  BY <1>1, RearmEffect
<1> HIDE DEF s2
<1>9. Sound(s2, X, Y \cup ended) /\ Calm(s, s2)
  <2>1. Rest(s, s2)
    BY <1>1, <1>8 DEF Rest
  <2>2. \A t \in waiting : /\ s.intake[t].deferred # {} /\ s2.intake[t].deferred = {}
                           /\ Armed(s.intake[t], s2.intake[t])
    <3> SUFFICES ASSUME NEW t \in waiting
                 PROVE  "contest" \in s.intake[t].deferred /\ s.intake[t].deferred \ {"contest"} = {}
      BY <1>1, <1>2, <1>8
    <3>1. "contest" \in s.intake[t].deferred
      BY <1>3, <1>6 DEF Sound, Challengers
    <3> QED BY <1>2, <3>1 DEF Sound, Waits
  <2>3. \A t \in DOMAIN s.intake : \/ s2.intake[t] = s.intake[t]
                                     \/ /\ s.intake[t].deferred # {} /\ s2.intake[t].deferred = {}
                                        /\ Armed(s.intake[t], s2.intake[t])
    BY <1>1, <1>8, <2>2
  <2>4. \A t \in DOMAIN s.intake \ X : \A f \in s2.intake[t].deferred : Excused(s2, t, f)
    <3> SUFFICES ASSUME NEW t \in DOMAIN s.intake \ X, NEW f \in s2.intake[t].deferred PROVE Excused(s2, t, f)
      OBVIOUS
    <3>1. t \notin waiting /\ s2.intake[t] = s.intake[t] /\ Excused(s, t, f)
      BY <1>1, <1>8, <2>2 DEF Sound, Waits
    <3>2. \A m \in DOMAIN s.conflict : t \in s.conflict[m].challenger => m \in DOMAIN s2.conflict /\ s2.conflict[m] = s.conflict[m]
      BY <1>1, <1>4, <1>8, <3>1
    <3> QED BY <1>1, <1>8, <2>1, <3>1, <3>2 DEF Excused, Rest
  <2>5. \A m \in DOMAIN s2.conflict : \A t \in s.conflict[m].challenger : s2.intake[t] = s.intake[t]
    <3> SUFFICES ASSUME NEW m \in DOMAIN s2.conflict, NEW t \in s.conflict[m].challenger PROVE t \notin waiting
      BY <1>1, <1>8 DEF Sound, Challengers
    <3> QED BY <1>1, <1>3, <1>6, <1>8 DEF Sound, Challengers
  <2>6. Links(s2, Y \cup ended)
    BY <1>1, <1>8 DEF Sound, Links
  <2>7. Keeps(s, s2)
    <3>1. Keeps(s, s1)
      BY <1>1 DEF Keeps, Rest, Memory
    <3>2. Keeps(s1, s2)
      BY <1>1, RearmKeeps DEF s2
    <3> QED BY <3>1, <3>2, KeepsOn
  <2>8. /\ s2 \in Memory /\ DOMAIN s2.intake = DOMAIN s.intake /\ DOMAIN s2.conflict \subseteq DOMAIN s.conflict
        /\ \A m \in DOMAIN s2.conflict : s2.conflict[m] = s.conflict[m]
    BY <1>1, <1>8
  <2> QED BY <2>1, <2>3, <2>4, <2>5, <2>6, <2>7, <2>8, Lighten
<1>10. \A t \in DOMAIN s2.recovery \ L : s2.recovery[t] \subseteq DOMAIN s2.conflict \cup Y
  BY <1>1, <1>7, <1>8 DEF Sound, Links
<1>11. Sound(ReleaseRecovery(s2, L), X, Y) /\ Calm(s2, ReleaseRecovery(s2, L))
  BY <1>8, <1>9, <1>10, ReleaseRecoverySound
<1> QED BY <1>5, <1>9, <1>11, CalmOn

LEMMA RefreshSound ==
  ASSUME NEW s \in Memory, Roles(s), NEW X, NEW Y, Sound(s, X, Y), NEW t \in Tracks, NEW keep \in BOOLEAN
  PROVE  Sound(Refresh(s, t, keep), X, Y) /\ Calm(s, Refresh(s, t, keep))
<1>1. CASE t \notin DOMAIN s.recovery
  BY <1>1, CalmSelf DEF Refresh
<1>2. ASSUME t \in DOMAIN s.bound
      PROVE  Sound(DropRecovery(s, {t}), X, Y) /\ Calm(s, DropRecovery(s, {t}))
  <2> DEFINE r == DropRecovery(s, {t})
  <2>1. Sound(r, X \cup {t}, Y) /\ Calm(s, r)
    BY DropRecoverySound
  <2>2. t \notin DOMAIN r.intake
    BY <1>2, <2>1 DEF Roles, Calm, Keeps
  <2> HIDE DEF r
  <2>3. Sound(r, X, Y)
    BY <2>1, <2>2 DEF Sound, Waits
  <2> QED BY <2>1, <2>3 DEF r
<1>3. ASSUME t \in DOMAIN s.recovery
      PROVE  LET r == [s EXCEPT !.recovery[t] = @ \cup Related(s, t)] IN Sound(r, X, Y) /\ Calm(s, r)
  <2> DEFINE f == [s.recovery EXCEPT ![t] = @ \cup Related(s, t)]
             r == [s EXCEPT !.recovery = f]
  <2>1. DOMAIN s.recovery \subseteq Tracks /\ \A x \in DOMAIN s.recovery : s.recovery[x] \in SUBSET Nat
    BY RecoveryFacts
  <2>2. Related(s, t) \subseteq DOMAIN s.conflict /\ DOMAIN s.conflict \subseteq Nat
    BY MemoryFacts DEF Related
  <2>3. f = [x \in DOMAIN f |-> f[x]] /\ DOMAIN f = DOMAIN s.recovery /\ \A x \in DOMAIN f : f[x] \in SUBSET Nat
    <3>1. s.recovery = [x \in DOMAIN s.recovery |-> s.recovery[x]]
      BY DictFacts DEF Memory
    <3> QED BY <2>1, <2>2, <3>1
  <2>4. \A x \in DOMAIN f : f[x] \subseteq s.recovery[x] \cup DOMAIN s.conflict
    BY <2>2
  <2>5. r = [s EXCEPT !.recovery[t] = @ \cup Related(s, t)]
    BY DEF Memory
  <2> HIDE DEF f
  <2>6. f \in Dict(Tracks, SUBSET Nat)
    BY <2>1, <2>3, DictFacts
  <2>7. r \in Memory /\ Rest(s, r) /\ r.conflict = s.conflict /\ r.intake = s.intake /\ r.recovery = f /\ Keeps(s, r)
    BY <2>6 DEF Memory, Rest, Keeps
  <2> HIDE DEF r
  <2>8. Links(r, Y)
    BY <2>3, <2>4, <2>7 DEF Sound, Links
  <2>9. \A u \in DOMAIN s.intake \ X : \A g \in r.intake[u].deferred : Excused(r, u, g)
    BY <2>3, <2>7 DEF Sound, Waits, Excused, Rest
  <2>10. Sound(r, X, Y) /\ Calm(s, r)
    BY <2>7, <2>8, <2>9, Lighten
  <2> QED BY <2>5, <2>10
<1>4. Sound(ReleaseRecovery(s, {t}), X, Y) /\ Calm(s, ReleaseRecovery(s, {t}))
  BY ReleaseRecoverySound DEF Sound, Links
<1> QED BY <1>1, <1>2, <1>3, <1>4 DEF Refresh

\* The intakes of T, none of them a challenger's, are forgotten, and bindings
\* and shadow entries with them.
LEMMA Forget ==
  ASSUME NEW s \in Memory, NEW X, NEW Y, NEW T, Sound(s, X \cup T, Y), NEW r, Keeps(s, r),
         r.token = s.token, r.conflict = s.conflict, r.recovery = s.recovery, r.rejected = s.rejected,
         DOMAIN r.intake = DOMAIN s.intake \ T,
         \A t \in DOMAIN r.intake : r.intake[t] = s.intake[t],
         \A t \in DOMAIN r.intake : r.holds[t] = s.holds[t],
         \A t \in DOMAIN r.intake \cap DOMAIN r.shadow : r.shadow[t] = s.shadow[t],
         \A m \in DOMAIN s.conflict : s.conflict[m].challenger \cap T = {},
         \A m \in DOMAIN s.conflict : \A t \in s.conflict[m].cands : t \in DOMAIN s.bound => t \in DOMAIN r.bound
  PROVE  Sound(r, X, Y) /\ Calm(s, r)
<1>1. Bouts(r)
  BY DEF Sound, Bouts, Keeps
<1>2. Challengers(r)
  BY DEF Sound, Challengers, Keeps
<1>3. Waits(r, X)
  <2> SUFFICES ASSUME NEW t \in DOMAIN r.intake
               PROVE  /\ t \in r.visible
                      /\ r.intake[t].deferred # {} => r.intake[t].submitted
                      /\ \A f, g \in r.intake[t].deferred : f = g
                      /\ t \in X \/ \A f \in r.intake[t].deferred : Excused(r, t, f)
                      /\ r.intake[t].handoff \cap r.rejected[t] = {}
                      /\ t \in DOMAIN r.shadow =>
                           /\ r.intake[t].handoff = r.shadow[t].id /\ r.intake[t].from = {r.shadow[t].canon}
                           /\ r.shadow[t].id # {} /\ ~r.shadow[t].verified
    BY DEF Waits
  <2>1. t \in DOMAIN s.intake \ T /\ r.intake[t] = s.intake[t] /\ r.holds[t] = s.holds[t] /\ r.visible = s.visible
        /\ (t \in DOMAIN r.shadow => t \in DOMAIN s.shadow /\ r.shadow[t] = s.shadow[t])
    BY DEF Keeps
  <2> QED BY <2>1 DEF Sound, Waits, Excused
<1>4. Losses(r)
  BY DEF Sound, Losses, Keeps
<1>5. Links(r, Y)
  BY DEF Sound, Links
<1>6. Calm(s, r)
  BY DEF Calm
<1> QED BY <1>1, <1>2, <1>3, <1>4, <1>5, <1>6 DEF Sound

LEMMA CancelRest ==
  ASSUME NEW s \in Memory, NEW M
  PROVE  Rest(s, CancelConflicts(s, M)) /\ DOMAIN CancelConflicts(s, M).conflict = DOMAIN s.conflict \ M
<1> DEFINE ended == M \cap DOMAIN s.conflict
           r == CancelConflicts(s, M)
<1>1. Rest(s, r) /\ r.conflict = Without(s.conflict, ended)
  BY DEF CancelConflicts, ReleaseRecovery, Rearm, Memory, Rest
<1>2. DOMAIN Without(s.conflict, ended) = DOMAIN s.conflict \ ended
  BY WithoutFacts, Zenon
<1>3. DOMAIN s.conflict \ ended = DOMAIN s.conflict \ M
  OBVIOUS
<1> HIDE DEF r, ended
<1>4. Rest(s, r) /\ DOMAIN r.conflict = DOMAIN s.conflict \ M
  BY <1>1, <1>2, <1>3
<1> QED BY <1>4 DEF r

LEMMA ClearBindingsSound ==
  ASSUME NEW s \in Memory, NEW X, NEW Y, Sound(s, X, Y), NEW T
  PROVE  /\ Sound(ClearBindings(s, T), X, Y) /\ Calm(s, ClearBindings(s, T))
         /\ \A m \in DOMAIN ClearBindings(s, T).conflict : s.conflict[m].cands \cap T = {}
         /\ T \cap DOMAIN ClearBindings(s, T).recovery = {}
         /\ \A t \in DOMAIN s.shadow \ T : t \in DOMAIN ClearBindings(s, T).shadow
                                            /\ ClearBindings(s, T).shadow[t] = s.shadow[t]
<1> DEFINE r == ClearBindings(s, T)
<1>1. CASE T = {}
  <2>1. r = s
    BY <1>1 DEF ClearBindings
  <2> HIDE DEF r
  <2> QED BY <1>1, <2>1, CalmSelf DEF r
<1>2. CASE T # {}
  <2> DEFINE s0 == DropRecovery(s, T)
             s1 == CancelConflicts(s0, ConflictsOf(s, T))
  <2>1. Sound(s0, X \cup T, Y) /\ Calm(s, s0) /\ s0 \in Memory
    BY DropRecoverySound DEF Calm, Keeps
  <2>2. s0.conflict = s.conflict /\ s0.shadow = s.shadow /\ s0.recovery = Without(s.recovery, T)
    BY DEF DropRecovery, Memory
  <2>3. DOMAIN Without(s.recovery, T) = DOMAIN s.recovery \ T
    BY WithoutFacts, Zenon
  <2> HIDE DEF s0
  <2>4. Sound(s1, X \cup T, Y) /\ Calm(s0, s1) /\ s1 \in Memory
    BY <2>1, CancelSound DEF Calm, Keeps
  <2>5. Rest(s0, s1) /\ DOMAIN s1.conflict = DOMAIN s0.conflict \ ConflictsOf(s, T)
    BY <2>1, CancelRest
  <2>6. DOMAIN s1.recovery \subseteq DOMAIN s0.recovery
    <3>1. s1.recovery = Without(s0.recovery, Linked(s0, ConflictsOf(s, T) \cap DOMAIN s0.conflict) \cap DOMAIN s0.recovery)
      BY <2>1 DEF CancelConflicts, ReleaseRecovery, Rearm, Memory
    <3> DEFINE S == Linked(s0, ConflictsOf(s, T) \cap DOMAIN s0.conflict) \cap DOMAIN s0.recovery
    <3> HIDE DEF S
    <3>2. DOMAIN Without(s0.recovery, S) = DOMAIN s0.recovery \ S
      BY WithoutFacts, Zenon
    <3> QED BY <3>1, <3>2 DEF S
  <2>7. \A m \in DOMAIN s1.conflict : s1.conflict[m] = s.conflict[m] /\ s.conflict[m].cands \cap T = {}
    BY <2>2, <2>4, <2>5 DEF ConflictsOf, Calm
  <2>8. r = [s1 EXCEPT !.bound = Without(@, T), !.tentative = Without(@, T),
                       !.intake = Without(@, T), !.shadow = Without(@, T),
                       !.holds = [t \in Tracks |-> IF t \in T THEN {} ELSE s.holds[t]],
                       !.gen = NextGeneration(s, T)]
    BY <1>2 DEF ClearBindings, s0
  <2> HIDE DEF s1
  <2>9. r \in Memory /\ Keeps(s, r)
    BY ClearBindingsKeeps DEF Keeps
  <2>10. /\ r.token = s1.token /\ r.conflict = s1.conflict /\ r.recovery = s1.recovery /\ r.rejected = s1.rejected
         /\ r.masters = s1.masters /\ r.visible = s1.visible
         /\ r.bound = Without(s1.bound, T) /\ r.intake = Without(s1.intake, T) /\ r.shadow = Without(s1.shadow, T)
         /\ r.holds = [t \in Tracks |-> IF t \in T THEN {} ELSE s.holds[t]]
         /\ r.gen = NextGeneration(s, T)
    BY <2>4, <2>8 DEF Memory
  <2> HIDE DEF r
  <2>11. /\ DOMAIN r.bound = DOMAIN s1.bound \ T /\ \A t \in DOMAIN r.bound : r.bound[t] = s1.bound[t]
         /\ DOMAIN r.intake = DOMAIN s1.intake \ T /\ \A t \in DOMAIN r.intake : r.intake[t] = s1.intake[t]
         /\ DOMAIN r.shadow = DOMAIN s1.shadow \ T /\ \A t \in DOMAIN r.shadow : r.shadow[t] = s1.shadow[t]
    <3>1. /\ DOMAIN Without(s1.bound, T) = DOMAIN s1.bound \ T
          /\ \A t \in DOMAIN Without(s1.bound, T) : Without(s1.bound, T)[t] = s1.bound[t]
      BY WithoutFacts, Zenon
    <3>2. /\ DOMAIN Without(s1.intake, T) = DOMAIN s1.intake \ T
          /\ \A t \in DOMAIN Without(s1.intake, T) : Without(s1.intake, T)[t] = s1.intake[t]
      BY WithoutFacts, Zenon
    <3>3. /\ DOMAIN Without(s1.shadow, T) = DOMAIN s1.shadow \ T
          /\ \A t \in DOMAIN Without(s1.shadow, T) : Without(s1.shadow, T)[t] = s1.shadow[t]
      BY WithoutFacts, Zenon
    <3> QED BY <2>10, <3>1, <3>2, <3>3
  <2>12. Keeps(s1, r)
    <3>1. \A t \in Tracks : r.gen[t] >= s1.gen[t]
      <4>1. s1.gen = s.gen
        BY <2>5 DEF Rest, DropRecovery, s0, Memory
      <4> QED BY <2>10, <4>1, GenerationFacts
    <3> QED BY <2>9, <2>10, <2>11, <3>1 DEF Keeps
  <2>13. \A t \in DOMAIN r.intake : r.holds[t] = s1.holds[t]
    <3>1. s1.holds = s.holds
      BY <2>5 DEF Rest, DropRecovery, s0, Memory
    <3>2. DOMAIN r.intake \subseteq Tracks
      BY <2>9, MemoryFacts
    <3> QED BY <2>10, <2>11, <3>1, <3>2
  <2>14. \A m \in DOMAIN s1.conflict : s1.conflict[m].challenger \cap T = {}
    BY <2>4, <2>7 DEF Sound, Bouts
  <2>15. \A m \in DOMAIN s1.conflict : \A t \in s1.conflict[m].cands : t \in DOMAIN s1.bound => t \in DOMAIN r.bound
    BY <2>7, <2>11
  <2>16. \A t \in DOMAIN r.intake \cap DOMAIN r.shadow : r.shadow[t] = s1.shadow[t]
    BY <2>11
  <2>17. r.token = s1.token /\ r.conflict = s1.conflict /\ r.recovery = s1.recovery /\ r.rejected = s1.rejected
         /\ DOMAIN r.intake = DOMAIN s1.intake \ T /\ \A t \in DOMAIN r.intake : r.intake[t] = s1.intake[t]
    BY <2>10, <2>11
  <2>18. Sound(r, X, Y) /\ Calm(s1, r)
    BY <2>4, <2>12, <2>13, <2>14, <2>15, <2>16, <2>17, Forget
  <2>19. Calm(s, r)
    BY <2>1, <2>4, <2>18, CalmOn
  <2>20. \A m \in DOMAIN r.conflict : s.conflict[m].cands \cap T = {}
    BY <2>7, <2>17
  <2>21. T \cap DOMAIN r.recovery = {}
    BY <2>2, <2>3, <2>6, <2>17
  <2>22. \A t \in DOMAIN s.shadow \ T : t \in DOMAIN r.shadow /\ r.shadow[t] = s.shadow[t]
    BY <2>2, <2>5, <2>11 DEF Rest
  <2> QED BY <2>18, <2>19, <2>20, <2>21, <2>22 DEF r
<1> QED BY <1>1, <1>2

\* A surviving shadow learns a master only if it had none, or the same.
LEMMA FollowReleaseSound ==
  ASSUME NEW s \in Memory, NEW X, NEW Y, Sound(s, X, Y), NEW T, NEW R \in SUBSET DOMAIN s.shadow,
         \A k \in (T \cap DOMAIN s.shadow) \ R :
           LET mapped == MappedTo(s, s.shadow[k].canon)
           IN mapped # {} /\ s.shadow[k].id # {} => s.shadow[k].id = mapped
  PROVE  LET r == ReleaseShadows(FollowCanonical(s, T), R)
         IN Sound(r, X, Y) /\ Calm(s, r) /\ r.bound = s.bound
<1> DEFINE f == [k \in DOMAIN s.shadow |->
                   IF k \in T /\ MappedTo(s, s.shadow[k].canon) # {}
                     THEN [s.shadow[k] EXCEPT !.id = MappedTo(s, s.shadow[k].canon)]
                     ELSE s.shadow[k]]
           s1 == FollowCanonical(s, T)
           s2 == [s1 EXCEPT !.shadow = Without(@, R)]
           r == DropIntakes(s2, R)
<1>1. s1 \in Memory /\ Keeps(s, s1)
  BY FollowKeeps DEF Keeps
<1>2. /\ s1.token = s.token /\ s1.conflict = s.conflict /\ s1.recovery = s.recovery /\ s1.rejected = s.rejected
      /\ s1.intake = s.intake /\ s1.holds = s.holds /\ s1.bound = s.bound
  BY DEF FollowCanonical, Memory
<1>3. /\ DOMAIN s1.shadow = DOMAIN s.shadow
      /\ \A k \in DOMAIN s.shadow \ R : s1.shadow[k] = s.shadow[k] \/ s.shadow[k].id = {}
  <2>1. \A k \in DOMAIN s.shadow \ R : f[k] = s.shadow[k] \/ s.shadow[k].id = {}
    <3> SUFFICES ASSUME NEW k \in DOMAIN s.shadow \ R, s.shadow[k].id # {}, k \in T,
                        MappedTo(s, s.shadow[k].canon) # {}
                 PROVE  f[k] = s.shadow[k]
      OBVIOUS
    <3>1. s.shadow[k].id = MappedTo(s, s.shadow[k].canon) /\ s.shadow[k] \in Shadow
      BY MemoryFacts
    <3>2. [s.shadow[k] EXCEPT !.id = s.shadow[k].id] = s.shadow[k]
      BY <3>1 DEF Shadow
    <3> QED BY <3>1, <3>2
  <2>2. DOMAIN f = DOMAIN s.shadow
    OBVIOUS
  <2>3. s1 = s \/ s1 = [s EXCEPT !.shadow = f]
    BY DEF FollowCanonical
  <2> HIDE DEF f, s1
  <2>4. s1.shadow = s.shadow \/ s1.shadow = f
    BY <2>3 DEF Memory
  <2> QED BY <2>1, <2>2, <2>4
<1> HIDE DEF s1, f
<1>4. /\ s2 \in Memory /\ Keeps(s1, s2)
      /\ s2.token = s1.token /\ s2.conflict = s1.conflict /\ s2.recovery = s1.recovery /\ s2.rejected = s1.rejected
      /\ s2.intake = s1.intake /\ s2.holds = s1.holds /\ s2.bound = s1.bound
      /\ DOMAIN s2.shadow = DOMAIN s1.shadow \ R /\ \A k \in DOMAIN s2.shadow : s2.shadow[k] = s1.shadow[k]
  <2>1. Without(s1.shadow, R) \in Dict(Tracks, Shadow)
    BY <1>1, PopFacts
  <2>2. /\ DOMAIN Without(s1.shadow, R) = DOMAIN s1.shadow \ R
        /\ \A k \in DOMAIN Without(s1.shadow, R) : Without(s1.shadow, R)[k] = s1.shadow[k]
    BY WithoutFacts, Zenon
  <2> HIDE DEF s2
  <2>3. s2 = [s1 EXCEPT !.shadow = Without(s1.shadow, R)]
    BY DEF s2
  <2>4. /\ s2 \in Memory
        /\ s2.token = s1.token /\ s2.conflict = s1.conflict /\ s2.recovery = s1.recovery /\ s2.rejected = s1.rejected
        /\ s2.intake = s1.intake /\ s2.holds = s1.holds /\ s2.bound = s1.bound /\ s2.shadow = Without(s1.shadow, R)
        /\ s2.masters = s1.masters /\ s2.visible = s1.visible /\ s2.gen = s1.gen
    BY <1>1, <2>1, <2>3 DEF Memory
  <2>5. \A t \in Tracks : s2.gen[t] >= s1.gen[t]
    BY <1>1, <2>4, MemoryFacts
  <2> QED BY <2>2, <2>4, <2>5 DEF Keeps
<1> HIDE DEF s2
<1>5. /\ Keeps(s2, r) /\ r \in Memory
      /\ DOMAIN r.intake = DOMAIN s2.intake \ R
      /\ r.bound = s2.bound /\ r.shadow = s2.shadow
      /\ r.rejected = s2.rejected
  BY <1>4, DropIntakesKeeps DEF Keeps
<1>6. /\ r.token = s2.token /\ r.conflict = s2.conflict /\ r.recovery = s2.recovery /\ r.holds = s2.holds
      /\ \A t \in DOMAIN r.intake : r.intake[t] = s2.intake[t]
  <2>1. /\ r.token = s2.token /\ r.conflict = s2.conflict /\ r.recovery = s2.recovery /\ r.holds = s2.holds
        /\ r.intake = Without(s2.intake, R \cap DOMAIN s2.intake)
    BY <1>4 DEF DropIntakes, Memory
  <2>2. \A S : \A t \in DOMAIN Without(s2.intake, S) : Without(s2.intake, S)[t] = s2.intake[t]
    BY WithoutFacts
  <2> QED BY <2>1, <2>2
<1>7. r = ReleaseShadows(FollowCanonical(s, T), R)
  BY DEF ReleaseShadows, s1, s2
<1> HIDE DEF r
<1>8. Keeps(s, r)
  BY <1>1, <1>4, <1>5, KeepsOn
<1>9. /\ r.token = s.token /\ r.conflict = s.conflict /\ r.recovery = s.recovery /\ r.rejected = s.rejected
      /\ DOMAIN r.intake = DOMAIN s.intake \ R /\ r.bound = s.bound /\ r.holds = s.holds
      /\ \A t \in DOMAIN r.intake : r.intake[t] = s.intake[t]
  BY <1>2, <1>4, <1>5, <1>6
<1>10. \A t \in DOMAIN r.intake \cap DOMAIN r.shadow : r.shadow[t] = s.shadow[t]
  <2> SUFFICES ASSUME NEW t \in DOMAIN r.intake \cap DOMAIN r.shadow PROVE r.shadow[t] = s.shadow[t]
    OBVIOUS
  <2>1. t \in DOMAIN s.intake /\ t \in DOMAIN s.shadow /\ t \notin R /\ r.shadow[t] = s1.shadow[t]
    BY <1>3, <1>4, <1>5, <1>9
  <2>2. s.shadow[t].id # {}
    BY <2>1 DEF Sound, Waits
  <2> QED BY <1>3, <2>1, <2>2
<1>11. \A m \in DOMAIN s.conflict : s.conflict[m].challenger \cap R = {}
  BY DEF Sound, Challengers
<1>12. Sound(s, X \cup R, Y)
  BY SoundMore
<1>13. \A t \in DOMAIN r.intake : r.holds[t] = s.holds[t]
  BY <1>9
<1>14. \A m \in DOMAIN s.conflict : \A t \in s.conflict[m].cands : t \in DOMAIN s.bound => t \in DOMAIN r.bound
  BY <1>9
<1>15. Sound(r, X, Y) /\ Calm(s, r)
  BY <1>8, <1>9, <1>10, <1>11, <1>12, <1>13, <1>14, Forget
<1> QED BY <1>7, <1>9, <1>15

LEMMA ReleaseNone ==
  ASSUME NEW s \in Memory
  PROVE  ReleaseShadows(s, {}) = s /\ FollowCanonical(s, {}) = s
<1>1. \A f : Without(f, {}) = f
  BY DEF Without
<1>2. NextGeneration(s, {}) = s.gen
  BY DEF NextGeneration, Memory
<1>3. [s EXCEPT !.shadow = s.shadow] = s
  BY DEF Memory
<1>4. [s EXCEPT !.intake = s.intake, !.tentative = s.tentative, !.gen = s.gen] = s
  BY DEF Memory
<1>5. [s EXCEPT !.shadow = Without(@, {})] = s
  BY <1>1, <1>3
<1>6. DropIntakes(s, {}) = s
  <2>1. {} \cap DOMAIN s.intake = {}
    OBVIOUS
  <2> QED BY <1>1, <1>2, <1>4, <2>1 DEF DropIntakes
<1> QED BY <1>5, <1>6 DEF ReleaseShadows, FollowCanonical

LEMMA ArriveSound ==
  ASSUME NEW s \in Memory, Roles(s), NEW X, NEW Y, Sound(s, X, Y), NEW t \in Tracks,
         NEW reset \in BOOLEAN, NEW keep \in BOOLEAN
  PROVE  Sound(Arrive(s, t, reset, keep), X, Y) /\ Calm(s, Arrive(s, t, reset, keep))
<1> DEFINE s0 == IF reset THEN ClearBindings(s, {t}) ELSE s
           s1 == Refresh(s0, t, keep)
           must == t \in DOMAIN s1.shadow /\ MustRelease(s1, t, s1.visible, {})
           r == Arrive(s, t, reset, keep)
<1>1. Sound(s0, X, Y) /\ Calm(s, s0) /\ s0 \in Memory
  <2>1. Sound(ClearBindings(s, {t}), X, Y) /\ Calm(s, ClearBindings(s, {t}))
    BY ClearBindingsSound
  <2>2. Calm(s, s)
    BY CalmSelf
  <2> QED BY <2>1, <2>2 DEF Calm, Keeps
<1>2. r = IF must THEN ReleaseShadows(s1, {t}) ELSE FollowCanonical(s1, {t})
  BY DEF Arrive
<1> HIDE DEF s0, r
<1>3. Sound(s1, X, Y) /\ Calm(s, s1) /\ s1 \in Memory
  <2>1. Roles(s0)
    BY <1>1 DEF Roles, Calm, Keeps
  <2>2. Sound(s1, X, Y) /\ Calm(s0, s1)
    BY <1>1, <2>1, RefreshSound
  <2> HIDE DEF s1
  <2>3. Calm(s, s1)
    BY <1>1, <2>2, CalmOn
  <2> QED BY <2>2, <2>3 DEF Calm, Keeps
<1> HIDE DEF s1
<1>4. CASE must
  <2> DEFINE q == ReleaseShadows(FollowCanonical(s1, {}), {t})
  <2>1. r = q
    BY <1>2, <1>3, <1>4, ReleaseNone
  <2> HIDE DEF must, r
  <2>2. Sound(q, X, Y) /\ Calm(s1, q)
    BY <1>3, <1>4, FollowReleaseSound DEF must
  <2> HIDE DEF q
  <2> QED BY <1>3, <2>1, <2>2, CalmOn DEF r
<1>5. CASE ~must
  <2> DEFINE q == ReleaseShadows(FollowCanonical(s1, {t}), {})
  <2>1. r = q
    <3>1. FollowCanonical(s1, {t}) \in Memory
      BY <1>3, FollowKeeps DEF Keeps
    <3> QED BY <1>2, <1>5, <3>1, ReleaseNone
  <2>2. \A k \in ({t} \cap DOMAIN s1.shadow) \ {} :
           LET mapped == MappedTo(s1, s1.shadow[k].canon)
           IN mapped # {} /\ s1.shadow[k].id # {} => s1.shadow[k].id = mapped
    BY <1>5 DEF MustRelease
  <2> HIDE DEF must, r
  <2>3. {} \in SUBSET DOMAIN s1.shadow
    OBVIOUS
  <2>4. Sound(q, X, Y) /\ Calm(s1, q)
    BY <1>3, <2>2, <2>3, FollowReleaseSound
  <2> HIDE DEF q
  <2> QED BY <1>3, <2>1, <2>4, CalmOn DEF r
<1> QED BY <1>4, <1>5

LEMMA VanishSound ==
  ASSUME NEW s \in Memory, NEW X, NEW Y, Sound(s, X, Y), NEW gone \in SUBSET Tracks
  PROVE  LET r == Vanish(s, gone)
         IN /\ Sound(r, X, Y) /\ Calm(s, r)
            /\ gone \cap DOMAIN r.intake = {}
            /\ \A t \in gone : r.rejected[t] = {}
            /\ \A m \in DOMAIN r.conflict : r.conflict[m].cands \cap gone = {}
<1> DEFINE r == Vanish(s, gone)
<1>1. CASE gone = {}
  BY <1>1, CalmSelf DEF Vanish
<1>2. CASE gone # {}
  <2> DEFINE g == [t \in Tracks |-> IF t \in gone THEN {} ELSE s.rejected[t]]
             s1 == [s EXCEPT !.rejected = g]
             C == ConflictsOf(s1, gone)
             s2 == CancelConflicts(s1, C)
             s3 == DropRecovery(s2, gone)
             s4 == DropIntakes(s3, gone)
  <2>1. r = [s4 EXCEPT !.shadow = Without(@, gone)]
    <3>1. s1 = [s EXCEPT !.rejected = [t \in Tracks |-> IF t \in gone THEN {} ELSE @[t]]]
      OBVIOUS
    <3> QED BY <1>2, <3>1 DEF Vanish
  <2>2. g \in [Tracks -> SUBSET Nat] /\ \A t \in Tracks : g[t] \subseteq s.rejected[t] /\ (t \in gone => g[t] = {})
    BY MemoryFacts
  <2> HIDE DEF g, r
  <2>3. /\ s1 \in Memory /\ s1.rejected = g /\ s1.visible = s.visible /\ s1.masters = s.masters /\ s1.bound = s.bound
        /\ s1.gen = s.gen /\ s1.shadow = s.shadow /\ s1.holds = s.holds /\ s1.token = s.token
        /\ s1.intake = s.intake /\ s1.conflict = s.conflict /\ s1.recovery = s.recovery
    BY <2>2 DEF Memory
  <2>4. Keeps(s, s1)
    BY <2>2 DEF Keeps, Memory
  <2> HIDE DEF s1
  <2>5. Sound(s1, X, Y) /\ Calm(s, s1)
    <3>1. Bouts(s1)
      BY <2>3 DEF Sound, Bouts
    <3>2. DOMAIN s.intake \subseteq Tracks
      BY MemoryFacts
    <3>3. Challengers(s1)
      BY <2>2, <2>3, <3>2 DEF Sound, Challengers
    <3>4. Waits(s1, X)
      BY <2>2, <2>3, <3>2 DEF Sound, Waits, Excused
    <3>5. Losses(s1)
      BY <2>2, <2>3 DEF Sound, Losses
    <3>6. Links(s1, Y)
      BY <2>3 DEF Sound, Links
    <3>7. Calm(s, s1)
      BY <2>2, <2>3, <2>4 DEF Calm
    <3> QED BY <3>1, <3>3, <3>4, <3>5, <3>6, <3>7 DEF Sound
  <2>6. /\ Sound(s2, X, Y) /\ Calm(s1, s2) /\ s2 \in Memory /\ s2.rejected = g
        /\ \A m \in DOMAIN s2.conflict : s2.conflict[m].cands \cap gone = {}
    <3>1. Sound(s2, X, Y) /\ Calm(s1, s2) /\ s2 \in Memory
      BY <2>3, <2>5, CancelSound DEF Calm, Keeps
    <3>2. Rest(s1, s2) /\ DOMAIN s2.conflict = DOMAIN s1.conflict \ C
      BY <2>3, CancelRest
    <3> QED BY <2>3, <3>1, <3>2 DEF Rest, Calm, ConflictsOf
  <2> HIDE DEF s2
  <2>7. /\ Sound(s3, X \cup gone, Y) /\ Calm(s2, s3) /\ s3 \in Memory /\ s3.rejected = g
        /\ s3.conflict = s2.conflict /\ s3.bound = s2.bound /\ s3.shadow = s2.shadow
    <3>1. Sound(s3, X \cup gone, Y) /\ Calm(s2, s3)
      BY <2>6, DropRecoverySound
    <3>2. s3 \in Memory
      BY <3>1 DEF Calm, Keeps
    <3> QED BY <2>6, <3>1, <3>2 DEF DropRecovery, Memory
  <2> HIDE DEF s3
  <2>8. /\ Keeps(s3, s4) /\ s4 \in Memory /\ DOMAIN s4.intake = DOMAIN s3.intake \ gone
        /\ s4.bound = s3.bound /\ s4.shadow = s3.shadow /\ s4.rejected = s3.rejected
    BY <2>7, DropIntakesKeeps DEF Keeps
  <2>9. /\ s4.token = s3.token /\ s4.conflict = s3.conflict /\ s4.recovery = s3.recovery /\ s4.holds = s3.holds
        /\ \A t \in DOMAIN s4.intake : s4.intake[t] = s3.intake[t]
    <3> DEFINE S == gone \cap DOMAIN s3.intake
    <3>1. /\ s4.token = s3.token /\ s4.conflict = s3.conflict /\ s4.recovery = s3.recovery /\ s4.holds = s3.holds
          /\ s4.intake = Without(s3.intake, S)
      BY <2>7 DEF DropIntakes, Memory
    <3> HIDE DEF S
    <3>2. \A t \in DOMAIN Without(s3.intake, S) : Without(s3.intake, S)[t] = s3.intake[t]
      BY WithoutFacts, Zenon
    <3> QED BY <3>1, <3>2
  <2> HIDE DEF s4
  <2>10. /\ DOMAIN Without(s4.shadow, gone) = DOMAIN s4.shadow \ gone
         /\ \A t \in DOMAIN Without(s4.shadow, gone) : Without(s4.shadow, gone)[t] = s4.shadow[t]
    BY WithoutFacts, Zenon
  <2>11. Without(s4.shadow, gone) \in Dict(Tracks, Shadow)
    BY <2>8, PopFacts
  <2>12. /\ r \in Memory /\ r.masters = s4.masters /\ r.visible = s4.visible /\ r.bound = s4.bound /\ r.gen = s4.gen
         /\ r.shadow = Without(s4.shadow, gone) /\ r.intake = s4.intake /\ r.conflict = s4.conflict
         /\ r.token = s4.token /\ r.recovery = s4.recovery /\ r.rejected = s4.rejected /\ r.holds = s4.holds
    BY <2>1, <2>8, <2>11 DEF Memory
  <2>13. Keeps(s3, r)
    <3>1. \A t \in Tracks : r.gen[t] >= s4.gen[t]
      BY <2>8, <2>12, MemoryFacts
    <3>2. Keeps(s4, r)
      BY <2>10, <2>12, <3>1 DEF Keeps
    <3> QED BY <2>7, <2>8, <3>2, KeepsOn
  <2>14. /\ r.token = s3.token /\ r.conflict = s3.conflict /\ r.recovery = s3.recovery /\ r.rejected = s3.rejected
         /\ DOMAIN r.intake = DOMAIN s3.intake \ gone /\ r.bound = s3.bound
         /\ \A t \in DOMAIN r.intake : r.intake[t] = s3.intake[t] /\ r.holds[t] = s3.holds[t]
    BY <2>8, <2>9, <2>12
  <2>15. \A t \in DOMAIN r.intake \cap DOMAIN r.shadow : r.shadow[t] = s3.shadow[t]
    BY <2>8, <2>10, <2>12
  <2>16. \A m \in DOMAIN s3.conflict : s3.conflict[m].challenger \cap gone = {}
    BY <2>6, <2>7 DEF Sound, Bouts
  <2>17. \A m \in DOMAIN s3.conflict : \A t \in s3.conflict[m].cands : t \in DOMAIN s3.bound => t \in DOMAIN r.bound
    BY <2>14
  <2>18. Sound(r, X, Y) /\ Calm(s3, r)
    BY <2>7, <2>13, <2>14, <2>15, <2>16, <2>17, Forget
  <2>19. Calm(s, r)
    <3>1. Calm(s, s2)
      BY <2>5, <2>6, CalmOn
    <3>2. Calm(s, s3)
      BY <2>7, <3>1, CalmOn
    <3> QED BY <2>18, <3>2, CalmOn
  <2>20. /\ gone \cap DOMAIN r.intake = {}
         /\ \A t \in gone : r.rejected[t] = {}
         /\ \A m \in DOMAIN r.conflict : r.conflict[m].cands \cap gone = {}
    BY <2>2, <2>6, <2>7, <2>14
  <2> QED BY <2>18, <2>19, <2>20 DEF r
<1> QED BY <1>1, <1>2

-----------------------------------------------------------------------------
(* The bursts and verdicts under way.                                       *)

\* The intake or contest a task was made for is still there.
Live(s, x) ==
  IF x.type = "intake"
    THEN x.track \in DOMAIN s.intake /\ s.intake[x.track].gen = x.gen
    ELSE x.master \in DOMAIN s.conflict /\ s.conflict[x.master].token = x.token
Same(x, y) ==
  x.type = y.type /\ IF x.type = "intake" THEN x.track = y.track ELSE x.master = y.master

\* What a live task carries agrees with the memory.
Fitting(s, x) ==
  IF x.type = "intake"
    THEN /\ x.gen <= s.gen[x.track]
         /\ Live(s, x) =>
              LET i == s.intake[x.track]
              IN /\ i.submitted /\ i.deferred = {} /\ i.handoff = x.handoff /\ i.from = x.from
                 /\ s.rejected[x.track] \subseteq x.excluded
    ELSE /\ x.token <= s.token
         /\ Live(s, x) => s.conflict[x.master].submitted

\* A submitted intake that waits for nothing has its burst under way.
Waiting(s, t) ==
  LET i == s.intake[t]
  IN i.submitted /\ i.deferred = {} /\ (i.handoff = {} \/ t \in DOMAIN s.shadow)
Owed(s, Q) ==
  \A t \in DOMAIN s.intake : Waiting(s, t) =>
    \E x \in Q : x.type = "intake" /\ x.track = t /\ x.gen = s.intake[t].gen

\* No intake or contest has two live tasks.
Apart(s, q, w) ==
  /\ \A i, j \in DOMAIN q : i # j /\ Live(s, q[i]) /\ Live(s, q[j]) => ~Same(q[i], q[j])
  /\ \A i \in DOMAIN q, j \in DOMAIN w : Live(s, q[i]) /\ Live(s, w[j]) => ~Same(q[i], w[j])

Under(q, w) == {q[i] : i \in DOMAIN q} \cup {w[i] : i \in DOMAIN w}
Due(s, q, w) ==
  /\ \A x \in Under(q, w) : x \in Task /\ Fitting(s, x)
  /\ Owed(s, Under(q, w)) /\ Apart(s, q, w)

\* A step makes live no task that was not, and keeps what a live one relies
\* on, but for the intakes of E and the contests of F.
Onward(s, r, E, F) ==
  /\ s.token <= r.token /\ \A t \in Tracks : s.gen[t] <= r.gen[t]
  /\ \A t \in DOMAIN r.intake :
       \/ r.intake[t].gen > s.gen[t] /\ ~r.intake[t].submitted
       \/ /\ t \in DOMAIN s.intake /\ r.intake[t].gen = s.intake[t].gen
          /\ \/ t \in E
             \/ s.intake[t].deferred # {} /\ (r.intake[t].submitted => r.intake[t].deferred # {})
             \/ /\ r.intake[t] = s.intake[t] /\ r.rejected[t] \subseteq s.rejected[t]
                /\ t \in DOMAIN r.shadow => t \in DOMAIN s.shadow
  /\ \A m \in DOMAIN r.conflict :
       \/ r.conflict[m].token > s.token
       \/ /\ m \in DOMAIN s.conflict /\ r.conflict[m].token = s.conflict[m].token
          /\ m \in F \/ (s.conflict[m].submitted => r.conflict[m].submitted)

LEMMA CalmOnward ==
  ASSUME NEW s \in Memory, NEW r, Calm(s, r)
  PROVE  Onward(s, r, {}, {})
<1>1. s.token <= r.token /\ \A t \in Tracks : s.gen[t] <= r.gen[t]
  <2>1. s.token \in Nat /\ s.gen \in [Tracks -> Nat] /\ r.gen \in [Tracks -> Nat] /\ r.token = s.token
    BY MemoryFacts DEF Calm, Keeps
  <2> QED BY <2>1 DEF Calm, Keeps
<1>2. \A t \in DOMAIN r.intake : t \in Tracks /\ t \in DOMAIN s.intake /\ r.intake[t].gen = s.intake[t].gen
  BY MemoryFacts DEF Calm, Keeps
<1> QED BY <1>1, <1>2 DEF Onward, Calm, Keeps

\* Tasks that are live afterwards were live before.
LEMMA LiveBefore ==
  ASSUME NEW s \in Memory, NEW r \in Memory, NEW E, NEW F, Onward(s, r, E, F),
         NEW x \in Task, Fitting(s, x), Live(r, x)
  PROVE  Live(s, x)
<1>1. CASE x.type = "intake"
  <2>1. x.track \in Tracks /\ x.gen \in Nat /\ x.gen <= s.gen[x.track] /\ s.gen[x.track] \in Nat
    BY <1>1, MemoryFacts DEF Task, IntakeTask, ConflictTask, Fitting
  <2>2. ~(r.intake[x.track].gen > s.gen[x.track])
    BY <1>1, <2>1 DEF Live
  <2> QED BY <1>1, <2>2 DEF Live, Onward
<1>2. CASE x.type # "intake"
  <2>1. x.token \in Nat /\ x.token <= s.token /\ s.token \in Nat
    BY <1>2, MemoryFacts DEF Task, IntakeTask, ConflictTask, Fitting
  <2>2. ~(r.conflict[x.master].token > s.token)
    BY <1>2, <2>1 DEF Live
  <2> QED BY <1>2, <2>2 DEF Live, Onward
<1> QED BY <1>1, <1>2

LEMMA FittingOn ==
  ASSUME NEW s \in Memory, NEW r \in Memory, NEW E, NEW F, Onward(s, r, E, F),
         NEW x \in Task, Fitting(s, x),
         Live(s, x) => IF x.type = "intake" THEN x.track \notin E ELSE x.master \notin F
  PROVE  Fitting(r, x)
<1>1. CASE x.type = "intake"
  <2>1. x.track \in Tracks /\ x.gen \in Nat /\ x.gen <= s.gen[x.track] /\ s.gen[x.track] \in Nat
        /\ r.gen[x.track] \in Nat /\ s.gen[x.track] <= r.gen[x.track]
    BY <1>1, MemoryFacts DEF Task, IntakeTask, ConflictTask, Fitting, Onward
  <2>2. x.gen <= r.gen[x.track]
    BY <2>1
  <2>3. ASSUME Live(r, x)
        PROVE  LET i == r.intake[x.track]
               IN /\ i.submitted /\ i.deferred = {} /\ i.handoff = x.handoff /\ i.from = x.from
                  /\ r.rejected[x.track] \subseteq x.excluded
    <3>1. Live(s, x)
      BY <2>3, LiveBefore
    <3>2. ~(r.intake[x.track].gen > s.gen[x.track])
      BY <1>1, <2>1, <2>3 DEF Live
    <3>3. s.intake[x.track].deferred = {} /\ x.track \notin E
      BY <1>1, <3>1 DEF Fitting
    <3>4. r.intake[x.track] = s.intake[x.track] /\ r.rejected[x.track] \subseteq s.rejected[x.track]
      BY <1>1, <2>3, <3>2, <3>3 DEF Onward, Live
    <3> QED BY <1>1, <3>1, <3>4 DEF Fitting
  <2> QED BY <1>1, <2>2, <2>3 DEF Fitting
<1>2. CASE x.type # "intake"
  <2>1. x.token \in Nat /\ x.token <= s.token /\ s.token \in Nat /\ r.token \in Nat /\ s.token <= r.token
    BY <1>2, MemoryFacts DEF Task, IntakeTask, ConflictTask, Fitting, Onward
  <2>2. x.token <= r.token
    BY <2>1
  <2>3. ASSUME Live(r, x)
        PROVE  r.conflict[x.master].submitted
    <3>1. Live(s, x)
      BY <2>3, LiveBefore
    <3>2. ~(r.conflict[x.master].token > s.token)
      BY <1>2, <2>1, <2>3 DEF Live
    <3> QED BY <1>2, <2>3, <3>1, <3>2 DEF Onward, Live, Fitting
  <2> QED BY <1>2, <2>2, <2>3 DEF Fitting
<1> QED BY <1>1, <1>2

LEMMA UnderFacts ==
  ASSUME NEW q, NEW w
  PROVE  (\A i \in DOMAIN q : q[i] \in Under(q, w)) /\ (\A i \in DOMAIN w : w[i] \in Under(q, w))
BY DEF Under

LEMMA DueOn ==
  ASSUME NEW s \in Memory, NEW r \in Memory, Onward(s, r, {}, {}), NEW q, NEW w, Due(s, q, w)
  PROVE  Due(r, q, w)
<1>1. \A x \in Under(q, w) : x \in Task /\ Fitting(r, x)
  BY FittingOn DEF Due
<1>2. \A x \in Under(q, w) : Live(r, x) => Live(s, x)
  BY LiveBefore DEF Due
<1>3. Apart(r, q, w)
  BY <1>2, UnderFacts DEF Due, Apart
<1>4. Owed(r, Under(q, w))
  BY DEF Due, Owed, Waiting, Onward
<1> QED BY <1>1, <1>3, <1>4 DEF Due

\* The task in hand is answered.
LEMMA DueDone ==
  ASSUME NEW s \in Memory, NEW r \in Memory, NEW E, NEW F, Onward(s, r, E, F),
         NEW q, NEW x, Due(s, q, <<x>>),
         \A t \in E : x.type = "intake" /\ x.track = t /\ Live(s, x),
         \A m \in F : x.type # "intake" /\ x.master = m /\ Live(s, x),
         x.type = "intake" /\ Live(r, x) => ~Waiting(r, x.track)
  PROVE  Due(r, q, <<>>)
<1>1. /\ DOMAIN <<x>> = {1} /\ <<x>>[1] = x /\ DOMAIN <<>> = {}
  OBVIOUS
<1>2. Under(q, <<>>) = {q[i] : i \in DOMAIN q} /\ Under(q, <<x>>) = {q[i] : i \in DOMAIN q} \cup {x}
  BY <1>1 DEF Under
<1>3. \A i \in DOMAIN q : /\ q[i] \in Task /\ Fitting(s, q[i])
                          /\ Live(s, q[i]) /\ Live(s, x) => ~Same(q[i], x)
  BY <1>1, <1>2 DEF Due, Apart
<1>4. \A i \in DOMAIN q : Live(s, q[i]) => IF q[i].type = "intake" THEN q[i].track \notin E ELSE q[i].master \notin F
  <2> SUFFICES ASSUME NEW i \in DOMAIN q, Live(s, q[i])
               PROVE  IF q[i].type = "intake" THEN q[i].track \notin E ELSE q[i].master \notin F
    OBVIOUS
  <2>1. x \in Task /\ q[i] \in Task
    BY <1>2 DEF Due
  <2>2. x.type # "intake" /\ q[i].type # "intake" => x.type = q[i].type
    BY <2>1 DEF Task, IntakeTask, ConflictTask
  <2> QED BY <1>3, <2>2 DEF Same
<1>5. \A i \in DOMAIN q : Fitting(r, q[i]) /\ (Live(r, q[i]) => Live(s, q[i]))
  <2> TAKE i \in DOMAIN q
  <2>1. q[i] \in Task /\ Fitting(s, q[i])
    BY <1>3
  <2>2. Fitting(r, q[i])
    BY <1>4, <2>1, FittingOn
  <2> QED BY <2>1, <2>2, LiveBefore
<1>6. Apart(r, q, <<>>)
  BY <1>1, <1>5 DEF Due, Apart
<1>7. Owed(r, Under(q, <<>>))
  <2> SUFFICES ASSUME NEW t \in DOMAIN r.intake, Waiting(r, t)
               PROVE  \E y \in Under(q, <<>>) : y.type = "intake" /\ y.track = t /\ y.gen = r.intake[t].gen
    BY DEF Owed
  <2>1. t \notin E
    <3> SUFFICES ASSUME t \in E PROVE FALSE
      OBVIOUS
    <3>1. x.type = "intake" /\ x.track = t /\ s.intake[t].gen = x.gen /\ t \in DOMAIN s.intake
      BY DEF Live
    <3>2. x.gen <= s.gen[t] /\ t \in Tracks /\ x.gen \in Nat /\ s.gen[t] \in Nat
      <4>1. x \in Task /\ Fitting(s, x)
        BY <1>2 DEF Due
      <4> QED BY <3>1, <4>1, MemoryFacts DEF Fitting, Task, IntakeTask, ConflictTask
    <3>3. r.intake[t].gen = x.gen
      BY <3>1, <3>2 DEF Onward, Waiting
    <3> QED BY <3>1, <3>3 DEF Live
  <2>2. t \in DOMAIN s.intake /\ r.intake[t].gen = s.intake[t].gen /\ Waiting(s, t)
    BY <2>1 DEF Onward, Waiting
  <2>3. PICK y \in Under(q, <<x>>) : y.type = "intake" /\ y.track = t /\ y.gen = r.intake[t].gen
    BY <2>2 DEF Due, Owed
  <2>4. y # x
    BY <2>3 DEF Live
  <2> QED BY <1>2, <2>3, <2>4
<1> QED BY <1>2, <1>3, <1>5, <1>6, <1>7 DEF Due

-----------------------------------------------------------------------------
(* The frame.                                                               *)

LEMMA SteadyOnward ==
  ASSUME NEW s \in Memory, NEW r \in Memory, r.token = s.token, r.gen = s.gen, r.conflict = s.conflict,
         r.intake = s.intake, r.rejected = s.rejected,
         DOMAIN s.intake \cap DOMAIN r.shadow \subseteq DOMAIN s.shadow
  PROVE  Onward(s, r, {}, {})
<1>1. s.token \in Nat /\ s.gen \in [Tracks -> Nat]
  BY MemoryFacts
<1> QED BY <1>1 DEF Onward

\* A newcomer becomes a shadow: it had no role, and nothing barred it.
LEMMA NominateSound ==
  ASSUME NEW s \in Memory, Sound(s, {}, {}), NEW keys \in SUBSET Tracks, NEW over,
         DOMAIN over \subseteq Newcomers(s, keys), Nominate(s, over) \in Memory
  PROVE  LET r == Nominate(s, over)
         IN /\ Sound(r, {}, {}) /\ Onward(s, r, {}, {})
            /\ r.visible = s.visible /\ r.intake = s.intake /\ r.conflict = s.conflict /\ r.rejected = s.rejected
<1> DEFINE f == [k \in DOMAIN s.shadow \cup DOMAIN over |->
                   IF k \in DOMAIN over
                     THEN [canon |-> over[k], id |-> MappedTo(s, over[k]), verified |-> FALSE]
                     ELSE s.shadow[k]]
           r == Nominate(s, over)
<1>1. r = [s EXCEPT !.shadow = f]
  BY DEF Nominate
<1>2. DOMAIN f = DOMAIN s.shadow \cup DOMAIN over /\ \A k \in DOMAIN s.shadow \ DOMAIN over : f[k] = s.shadow[k]
  OBVIOUS
<1>3. DOMAIN over \cap (s.visible \cup DOMAIN s.intake) = {}
  BY DEF Newcomers
<1> HIDE DEF f, r
<1>4. /\ r.shadow = f /\ r.visible = s.visible /\ r.masters = s.masters /\ r.bound = s.bound /\ r.gen = s.gen
      /\ r.intake = s.intake /\ r.holds = s.holds /\ r.rejected = s.rejected /\ r.conflict = s.conflict
      /\ r.recovery = s.recovery /\ r.token = s.token
  BY <1>1 DEF Memory
<1>5. r \in Memory
  BY DEF r
<1>6. Bouts(r) /\ Links(r, {})
  BY <1>4 DEF Sound, Bouts, Links
<1>7. Challengers(r)
  BY <1>2, <1>3, <1>4 DEF Sound, Challengers
<1>8. Waits(r, {})
  BY <1>2, <1>3, <1>4 DEF Sound, Waits, Excused
<1>9. Losses(r)
  BY <1>2, <1>3, <1>4 DEF Sound, Losses
<1>10. Onward(s, r, {}, {})
  BY <1>2, <1>3, <1>4, <1>5, SteadyOnward
<1> QED BY <1>4, <1>6, <1>7, <1>8, <1>9, <1>10 DEF Sound, r

\* The view changes, but for nobody who is collecting, ready or barred.
LEMMA LookSound ==
  ASSUME NEW s \in Memory, Sound(s, {}, {}), NEW V \in SUBSET Tracks,
         DOMAIN s.intake \subseteq V, \A m \in DOMAIN s.conflict : s.conflict[m].ready \subseteq V,
         \A t \in Tracks : s.rejected[t] # {} => t \in V
  PROVE  LET r == [s EXCEPT !.visible = V]
         IN r \in Memory /\ Sound(r, {}, {}) /\ Onward(s, r, {}, {})
<1> DEFINE r == [s EXCEPT !.visible = V]
<1>1. /\ r \in Memory /\ r.visible = V /\ r.shadow = s.shadow /\ r.masters = s.masters /\ r.bound = s.bound
      /\ r.gen = s.gen /\ r.intake = s.intake /\ r.holds = s.holds /\ r.rejected = s.rejected
      /\ r.conflict = s.conflict /\ r.recovery = s.recovery /\ r.token = s.token
  BY DEF Memory
<1> HIDE DEF r
<1>2. Bouts(r) /\ Links(r, {})
  BY <1>1 DEF Sound, Bouts, Links
<1>3. Challengers(r)
  BY <1>1 DEF Sound, Challengers
<1>4. Waits(r, {})
  BY <1>1 DEF Sound, Waits, Excused
<1>5. Losses(r)
  BY <1>1 DEF Sound, Losses
<1>6. Onward(s, r, {}, {})
  BY <1>1, SteadyOnward
<1> QED BY <1>1, <1>2, <1>3, <1>4, <1>5, <1>6 DEF Sound, r

LEMMA LeftDue ==
  ASSUME NEW s, NEW gone, NEW q \in Seq(Task), NEW w \in Seq(Task), Due(s, q, w)
  PROVE  Due(s, Left(q, gone), Left(w, gone))
<1>1. ASSUME NEW tasks \in Seq(Task), NEW i \in DOMAIN tasks
      PROVE  LET x == tasks[i]
                 y == Left(tasks, gone)[i]
             IN /\ y \in Task /\ y.type = x.type
                /\ x.type = "intake" => /\ y.track = x.track /\ y.gen = x.gen /\ y.handoff = x.handoff
                                        /\ y.from = x.from /\ y.excluded = x.excluded
                /\ x.type # "intake" => y = x
  <2> DEFINE x == tasks[i]
             y == Left(tasks, gone)[i]
  <2>1. x \in Task
    OBVIOUS
  <2>2. CASE x.type = "intake" /\ x.track \in gone
    <3>1. x \in IntakeTask /\ y = [x EXCEPT !.left = TRUE]
      BY <2>1, <2>2 DEF Left, Task, ConflictTask
    <3> HIDE DEF x, y
    <3>2. /\ y \in Task /\ y.type = x.type /\ y.track = x.track /\ y.gen = x.gen /\ y.handoff = x.handoff
          /\ y.from = x.from /\ y.excluded = x.excluded
      BY <3>1 DEF IntakeTask, Task
    <3> QED BY <2>2, <3>2 DEF x, y
  <2>3. CASE ~(x.type = "intake" /\ x.track \in gone)
    <3>1. y = x
      BY <2>3 DEF Left
    <3> QED BY <2>1, <3>1
  <2> QED BY <2>2, <2>3
<1>2. \A tasks : DOMAIN Left(tasks, gone) = DOMAIN tasks
  BY DEF Left
<1> DEFINE lq == Left(q, gone)
           lw == Left(w, gone)
<1>3. /\ DOMAIN lq = DOMAIN q /\ DOMAIN lw = DOMAIN w
      /\ \A i \in DOMAIN q : /\ q[i] \in Task /\ lq[i] \in Task /\ lq[i].type = q[i].type
                             /\ q[i].type = "intake" =>
                                  /\ lq[i].track = q[i].track /\ lq[i].gen = q[i].gen /\ lq[i].handoff = q[i].handoff
                                  /\ lq[i].from = q[i].from /\ lq[i].excluded = q[i].excluded
                             /\ q[i].type # "intake" => lq[i] = q[i]
      /\ \A i \in DOMAIN w : /\ w[i] \in Task /\ lw[i] \in Task /\ lw[i].type = w[i].type
                             /\ w[i].type = "intake" =>
                                  /\ lw[i].track = w[i].track /\ lw[i].gen = w[i].gen /\ lw[i].handoff = w[i].handoff
                                  /\ lw[i].from = w[i].from /\ lw[i].excluded = w[i].excluded
                             /\ w[i].type # "intake" => lw[i] = w[i]
  BY <1>1, <1>2
<1> HIDE DEF lq, lw
<1>4. /\ \A i \in DOMAIN q : (Live(s, lq[i]) <=> Live(s, q[i])) /\ (Fitting(s, q[i]) => Fitting(s, lq[i]))
      /\ \A i \in DOMAIN w : (Live(s, lw[i]) <=> Live(s, w[i])) /\ (Fitting(s, w[i]) => Fitting(s, lw[i]))
  BY <1>3 DEF Live, Fitting
<1>5. \A x \in Under(lq, lw) : x \in Task /\ Fitting(s, x)
  BY <1>3, <1>4 DEF Due, Under
<1>6. Apart(s, lq, lw)
  <2>1. /\ \A i, j \in DOMAIN q : Same(lq[i], lq[j]) <=> Same(q[i], q[j])
        /\ \A i \in DOMAIN q, j \in DOMAIN w : Same(lq[i], lw[j]) <=> Same(q[i], w[j])
    BY <1>3 DEF Same
  <2> QED BY <1>3, <1>4, <2>1 DEF Due, Apart
<1>7. Owed(s, Under(lq, lw))
  <2> SUFFICES ASSUME NEW t \in DOMAIN s.intake, Waiting(s, t)
               PROVE  \E x \in Under(lq, lw) : x.type = "intake" /\ x.track = t /\ x.gen = s.intake[t].gen
    BY DEF Owed
  <2>1. PICK x \in Under(q, w) : x.type = "intake" /\ x.track = t /\ x.gen = s.intake[t].gen
    BY DEF Due, Owed
  <2>2. CASE \E i \in DOMAIN q : x = q[i]
    BY <1>3, <2>1, <2>2 DEF Under
  <2>3. CASE \E i \in DOMAIN w : x = w[i]
    BY <1>3, <2>1, <2>3 DEF Under
  <2> QED BY <2>1, <2>2, <2>3 DEF Under
<1> QED BY <1>5, <1>6, <1>7 DEF Due, lq, lw

\* What a step has to keep.
Settled == Sound(mem, {}, {}) /\ Due(mem, queue, worker)

LEMMA ObserveSettled ==
  ASSUME NEW W, Proper(mem, W), Tasks, Settled, NEW c \in Cameras, Observe(c)
  PROVE  Settled'
<1>0. mem \in Memory /\ Sound(mem, {}, {}) /\ Due(mem, queue, worker) /\ queue \in Seq(Task) /\ worker \in Seq(Task)
  BY DEF Proper, Settled, Tasks
<1>1. PICK keys \in SUBSET Of(c) :
       LET gone == (mem.visible \cap Of(c)) \ keys
           s1 == Vanish(mem, gone)
       IN /\ queue' = Left(queue, gone)
          /\ worker' = Left(worker, gone)
          /\ \E apart \in SUBSET {k \in ShadowsIn(s1, keys) : s1.shadow[k].canon \in keys},
                rel \in SUBSET ShadowsIn(s1, keys) :
               /\ rel = Released(s1, keys, apart, rel)
               /\ LET s2 == ReleaseShadows(FollowCanonical(s1, ShadowsIn(s1, keys)), rel)
                  IN \E new \in SUBSET Newcomers(s2, keys) :
                       \E over \in [new -> Canonicals(s2, keys)] :
                         Observed(c, keys, Nominate(s2, over))
  BY DEF Observe
<1> DEFINE gone == (mem.visible \cap Of(c)) \ keys
           s1 == Vanish(mem, gone)
           F == ShadowsIn(s1, keys)
<1>2. PICK apart \in SUBSET {k \in F : s1.shadow[k].canon \in keys}, rel \in SUBSET F :
        /\ rel = Released(s1, keys, apart, rel)
        /\ LET s2 == ReleaseShadows(FollowCanonical(s1, F), rel)
           IN \E new \in SUBSET Newcomers(s2, keys) :
                \E over \in [new -> Canonicals(s2, keys)] : Observed(c, keys, Nominate(s2, over))
  BY <1>1
<1>3. queue' = Left(queue, gone) /\ worker' = Left(worker, gone)
  BY <1>1
<1> DEFINE s2 == ReleaseShadows(FollowCanonical(s1, F), rel)
<1>4. PICK new \in SUBSET Newcomers(s2, keys) :
        \E over \in [new -> Canonicals(s2, keys)] : Observed(c, keys, Nominate(s2, over))
  BY <1>2
<1>5. PICK over \in [new -> Canonicals(s2, keys)] : Observed(c, keys, Nominate(s2, over))
  BY <1>4
<1>6. gone \in SUBSET Tracks /\ keys \in SUBSET Tracks /\ Of(c) \subseteq Tracks
  BY DEF Of
<1>7. \A t \in mem.visible \ gone : t \in (mem.visible \ Of(c)) \cup keys
  OBVIOUS
<1> HIDE DEF gone
<1>8. /\ Sound(s1, {}, {}) /\ Calm(mem, s1)
      /\ gone \cap DOMAIN s1.intake = {}
      /\ \A t \in gone : s1.rejected[t] = {}
      /\ \A m \in DOMAIN s1.conflict : s1.conflict[m].cands \cap gone = {}
  BY <1>0, <1>6, VanishSound
<1> HIDE DEF s1
<1>9. s1 \in Memory /\ Proper(s1, W) /\ s1.visible = mem.visible
  <2>1. Keeps(mem, s1)
    BY <1>8 DEF Calm
  <2> QED BY <2>1, KeepsProper DEF Keeps
<1>10. Sound(s2, {}, {}) /\ Calm(s1, s2)
  <2>1. rel \in SUBSET DOMAIN s1.shadow
    BY DEF ShadowsIn
  <2>2. \A k \in (F \cap DOMAIN s1.shadow) \ rel :
           LET mapped == MappedTo(s1, s1.shadow[k].canon)
           IN mapped # {} /\ s1.shadow[k].id # {} => s1.shadow[k].id = mapped
    BY <1>2 DEF Released, MustRelease
  <2> HIDE DEF F
  <2> QED BY <1>8, <1>9, <2>1, <2>2, FollowReleaseSound
<1> HIDE DEF s2
<1>11. s2 \in Memory /\ Proper(s2, W) /\ s2.visible = mem.visible /\ Calm(mem, s2)
  <2>1. Keeps(s1, s2)
    BY <1>10 DEF Calm
  <2>2. Calm(mem, s2)
    BY <1>0, <1>8, <1>10, CalmOn
  <2> QED BY <1>9, <2>1, <2>2, KeepsProper DEF Keeps
<1> DEFINE s3 == Nominate(s2, over)
           s4 == [s3 EXCEPT !.visible = (s3.visible \ Of(c)) \cup keys]
<1>12. s3 \in Memory
  BY <1>6, <1>11, NominateGives DEF Proper
<1>13. /\ Sound(s3, {}, {}) /\ Onward(s2, s3, {}, {})
       /\ s3.visible = s2.visible /\ s3.intake = s2.intake /\ s3.conflict = s2.conflict /\ s3.rejected = s2.rejected
  <2>1. DOMAIN over \subseteq Newcomers(s2, keys)
    OBVIOUS
  <2> QED BY <1>6, <1>10, <1>11, <1>12, <2>1, NominateSound
<1>14. Observed(c, keys, s3)
  BY <1>5
<1> HIDE DEF s3
<1> DEFINE V == (s3.visible \ Of(c)) \cup keys
<1>15. DOMAIN s3.intake \subseteq V
  <2>1. \A t \in DOMAIN s3.intake : t \in s3.visible /\ t \notin gone
    BY <1>8, <1>10, <1>13 DEF Sound, Waits, Calm, Keeps
  <2> QED BY <1>7, <1>11, <1>13, <2>1
<1>16. \A m \in DOMAIN s3.conflict : s3.conflict[m].ready \subseteq V
  <2>1. \A m \in DOMAIN s3.conflict : s3.conflict[m].ready \subseteq s3.visible /\ s3.conflict[m].ready \cap gone = {}
    <3>1. \A m \in DOMAIN s3.conflict : m \in DOMAIN s1.conflict /\ s3.conflict[m] = s1.conflict[m]
      BY <1>10, <1>13 DEF Calm, Keeps
    <3> QED BY <1>8, <1>13, <3>1 DEF Sound, Bouts
  <2> QED BY <1>7, <1>11, <1>13, <2>1
<1>17. \A t \in Tracks : s3.rejected[t] # {} => t \in V
  <2>1. \A t \in Tracks : s3.rejected[t] # {} => t \in s3.visible /\ t \notin gone
    BY <1>8, <1>10, <1>13 DEF Sound, Losses, Calm
  <2> QED BY <1>7, <1>11, <1>13, <2>1
<1>18. s4 \in Memory /\ Sound(s4, {}, {}) /\ Onward(s3, s4, {}, {})
  <2>1. V \in SUBSET Tracks
    BY <1>6, <1>12, MemoryFacts
  <2> HIDE DEF V
  <2>2. LET r == [s3 EXCEPT !.visible = V] IN r \in Memory /\ Sound(r, {}, {}) /\ Onward(s3, r, {}, {})
    BY <1>12, <1>13, <1>15, <1>16, <1>17, <2>1, LookSound
  <2> QED BY <2>2 DEF V
<1>19. PICK T : mem' = ClearBindings(s4, T)
  BY <1>14 DEF Observed
<1> HIDE DEF s4
<1>20. Sound(mem', {}, {}) /\ Calm(s4, mem') /\ mem' \in Memory
  BY <1>18, <1>19, ClearBindingsSound DEF Calm, Keeps
<1> DEFINE lq == Left(queue, gone)
           lw == Left(worker, gone)
<1>21. Due(mem, lq, lw)
  BY <1>0, LeftDue
<1> HIDE DEF lq, lw
<1>22. Due(s2, lq, lw)
  BY <1>0, <1>11, <1>21, CalmOnward, DueOn
<1>23. Due(s3, lq, lw)
  BY <1>11, <1>12, <1>13, <1>22, DueOn
<1>24. Due(s4, lq, lw)
  BY <1>12, <1>18, <1>23, DueOn
<1>25. Due(mem', lq, lw)
  BY <1>18, <1>20, <1>24, CalmOnward, DueOn
<1> QED BY <1>3, <1>20, <1>25 DEF Settled, lq, lw

-----------------------------------------------------------------------------
(* The crop of a track.                                                     *)

LEMMA AppendFacts ==
  ASSUME NEW S, NEW q \in Seq(S), NEW b \in S
  PROVE  /\ Append(q, b) \in Seq(S)
         /\ DOMAIN Append(q, b) = DOMAIN q \cup {Len(q) + 1} /\ Len(q) + 1 \notin DOMAIN q
         /\ \A i \in DOMAIN q : Append(q, b)[i] = q[i]
         /\ Append(q, b)[Len(q) + 1] = b
<1>1. Len(q) \in Nat /\ DOMAIN q = 1..Len(q) /\ DOMAIN Append(q, b) = 1..(Len(q) + 1) /\ Append(q, b) \in Seq(S)
  OBVIOUS
<1>2. 1..(Len(q) + 1) = (1..Len(q)) \cup {Len(q) + 1} /\ Len(q) + 1 \notin 1..Len(q)
  BY <1>1
<1>3. (\A i \in DOMAIN q : Append(q, b)[i] = q[i]) /\ Append(q, b)[Len(q) + 1] = b
  OBVIOUS
<1> QED BY <1>1, <1>2, <1>3

\* A task that no live task doubles is queued.
LEMMA DueAppend ==
  ASSUME NEW r, NEW q \in Seq(Task), NEW w, NEW b \in Task, Fitting(r, b),
         \A x \in Under(q, w) : x \in Task /\ Fitting(r, x) /\ ~(Live(r, x) /\ Same(x, b)),
         Apart(r, q, w), Owed(r, Under(q, w) \cup {b})
  PROVE  Due(r, Append(q, b), w)
<1> DEFINE p == Append(q, b)
           n == Len(q) + 1
<1>1. /\ DOMAIN p = DOMAIN q \cup {n} /\ n \notin DOMAIN q
      /\ \A i \in DOMAIN q : p[i] = q[i]
      /\ p[n] = b
  BY AppendFacts
<1> HIDE DEF p, n
<1>2. Under(p, w) = Under(q, w) \cup {b}
  BY <1>1 DEF Under
<1>3. \A i \in DOMAIN q : q[i] \in Under(q, w)
  BY DEF Under
<1>4. \A i \in DOMAIN w : w[i] \in Under(q, w)
  BY DEF Under
<1>5. \A x : Same(b, x) => Same(x, b)
  BY DEF Same
<1>6. Apart(r, p, w)
  <2>1. \A i, j \in DOMAIN p : i # j /\ Live(r, p[i]) /\ Live(r, p[j]) => ~Same(p[i], p[j])
    <3> SUFFICES ASSUME NEW i \in DOMAIN p, NEW j \in DOMAIN p, i # j, Live(r, p[i]), Live(r, p[j])
                 PROVE  ~Same(p[i], p[j])
      OBVIOUS
    <3>1. CASE i \in DOMAIN q /\ j \in DOMAIN q
      BY <1>1, <3>1 DEF Apart
    <3>2. CASE i = n
      BY <1>1, <1>3, <1>5, <3>2
    <3>3. CASE j = n
      BY <1>1, <1>3, <3>3
    <3> QED BY <1>1, <3>1, <3>2, <3>3
  <2>2. \A i \in DOMAIN p, j \in DOMAIN w : Live(r, p[i]) /\ Live(r, w[j]) => ~Same(p[i], w[j])
    BY <1>1, <1>4, <1>5 DEF Apart
  <2> QED BY <2>1, <2>2 DEF Apart
<1> QED BY <1>2, <1>6 DEF Due, p

\* A burst begins: the track had none, and its target agrees with its shadow
\* entry and is none it is barred from.
LEMMA NewIntakeSound ==
  ASSUME NEW s \in Memory, Sound(s, {}, {}), NEW t \in Tracks, t \notin DOMAIN s.intake, t \in s.visible,
         NEW handoff \in SUBSET Nat, NEW from \in SUBSET Tracks, handoff \cap s.rejected[t] = {},
         t \in DOMAIN s.shadow => /\ handoff = s.shadow[t].id /\ from = {s.shadow[t].canon}
                                  /\ s.shadow[t].id # {} /\ ~s.shadow[t].verified
  PROVE  LET r == NewIntake(s, t, handoff, from)
         IN /\ r \in Memory /\ Sound(r, {}, {}) /\ Onward(s, r, {}, {}) /\ t \in DOMAIN r.intake
            /\ Generations(s) => Generations(r)
<1> DEFINE x == [gen |-> s.gen[t] + 1, submitted |-> FALSE, handoff |-> handoff, from |-> from, deferred |-> {}]
           g == [s.gen EXCEPT ![t] = @ + 1]
           r == NewIntake(s, t, handoff, from)
<1>1. s.gen \in [Tracks -> Nat] /\ g \in [Tracks -> Nat] /\ \A u \in Tracks : g[u] = IF u = t THEN s.gen[t] + 1 ELSE s.gen[u]
  BY MemoryFacts
<1>2. x \in Intake
  BY <1>1 DEF Intake
<1>3. x.gen = s.gen[t] + 1 /\ ~x.submitted /\ x.handoff = handoff /\ x.from = from /\ x.deferred = {}
  OBVIOUS
<1>4. r = [s EXCEPT !.gen[t] = @ + 1, !.intake = Set(@, t, x)]
  BY DEF NewIntake
<1>5. r = [s EXCEPT !.gen = g, !.intake = Set(@, t, x)]
  BY <1>4 DEF Memory
<1> HIDE DEF x, g, r
<1>6. /\ Set(s.intake, t, x) \in Dict(Tracks, Intake)
      /\ DOMAIN Set(s.intake, t, x) = DOMAIN s.intake \cup {t}
      /\ Set(s.intake, t, x)[t] = x
      /\ \A u \in DOMAIN s.intake : Set(s.intake, t, x)[u] = s.intake[u]
  <2>1. Set(s.intake, t, x) \in Dict(Tracks, Intake)
    BY <1>2, SetMemory
  <2>2. DOMAIN Set(s.intake, t, x) = DOMAIN s.intake \cup {t}
    BY SetDomain
  <2>3. Set(s.intake, t, x)[t] = x
    BY SetHere
  <2>4. \A u \in DOMAIN s.intake \ {t} : Set(s.intake, t, x)[u] = s.intake[u]
    BY SetElsewhere
  <2> QED BY <2>1, <2>2, <2>3, <2>4
<1>7. /\ r \in Memory /\ r.masters = s.masters /\ r.visible = s.visible /\ r.bound = s.bound
      /\ r.shadow = s.shadow /\ r.conflict = s.conflict /\ r.intake = Set(s.intake, t, x)
      /\ r.gen = g /\ r.holds = s.holds /\ r.rejected = s.rejected /\ r.recovery = s.recovery /\ r.token = s.token
  BY <1>1, <1>5, <1>6 DEF Memory
<1>8. Bouts(r) /\ Links(r, {}) /\ Losses(r)
  BY <1>7 DEF Sound, Bouts, Links, Losses
<1>9. Challengers(r)
  BY <1>6, <1>7 DEF Sound, Challengers
<1>10. Waits(r, {})
  <2> SUFFICES ASSUME NEW u \in DOMAIN r.intake
               PROVE  /\ u \in r.visible
                      /\ r.intake[u].deferred # {} => r.intake[u].submitted
                      /\ \A f, h \in r.intake[u].deferred : f = h
                      /\ u \in {} \/ \A f \in r.intake[u].deferred : Excused(r, u, f)
                      /\ r.intake[u].handoff \cap r.rejected[u] = {}
                      /\ u \in DOMAIN r.shadow =>
                           /\ r.intake[u].handoff = r.shadow[u].id /\ r.intake[u].from = {r.shadow[u].canon}
                           /\ r.shadow[u].id # {} /\ ~r.shadow[u].verified
    BY DEF Waits
  <2>1. CASE u = t
    BY <1>3, <1>6, <1>7, <2>1
  <2>2. CASE u # t
    <3>1. u \in DOMAIN s.intake /\ r.intake[u] = s.intake[u]
      BY <1>6, <1>7, <2>2
    <3> QED BY <1>7, <3>1 DEF Sound, Waits, Excused
  <2> QED BY <2>1, <2>2
<1>11. Onward(s, r, {}, {})
  <2>1. s.token <= r.token /\ \A u \in Tracks : s.gen[u] <= r.gen[u]
    BY <1>1, <1>7, MemoryFacts
  <2>2. r.intake[t].gen > s.gen[t] /\ ~r.intake[t].submitted
    BY <1>1, <1>3, <1>6, <1>7
  <2>3. \A u \in DOMAIN r.intake \ {t} : u \in DOMAIN s.intake /\ r.intake[u] = s.intake[u] /\ u \in Tracks
    BY <1>6, <1>7, MemoryFacts
  <2> QED BY <1>7, <2>1, <2>2, <2>3 DEF Onward
<1>12. t \in DOMAIN r.intake
  BY <1>6, <1>7
<1>13. ASSUME Generations(s)
       PROVE  Generations(r)
  <2> SUFFICES ASSUME NEW u \in DOMAIN r.intake PROVE r.intake[u].gen <= r.gen[u]
    BY DEF Generations
  <2>1. CASE u = t
    BY <1>1, <1>3, <1>6, <1>7, <2>1
  <2>2. CASE u # t
    <3>1. u \in DOMAIN s.intake /\ r.intake[u] = s.intake[u] /\ u \in Tracks
      BY <1>6, <1>7, <2>2, MemoryFacts
    <3> QED BY <1>1, <1>7, <1>13, <2>2, <3>1 DEF Generations
  <2> QED BY <2>1, <2>2
<1> QED BY <1>7, <1>8, <1>9, <1>10, <1>11, <1>12, <1>13 DEF Sound, r

LEMMA BurstFacts ==
  ASSUME mem \in Memory, NEW s \in Memory, NEW t \in DOMAIN s.intake
  PROVE  LET b == Burst(s, t)
         IN /\ b \in Task /\ b.type = "intake" /\ b.track = t /\ b.gen = s.intake[t].gen
            /\ b.handoff = s.intake[t].handoff /\ b.from = s.intake[t].from /\ s.rejected[t] \subseteq b.excluded
<1>1. t \in Tracks /\ s.intake[t] \in Intake /\ s.rejected[t] \in SUBSET Nat /\ s.visible \subseteq Tracks
  BY MemoryFacts
<1>2. ActiveIds(mem, CameraOf[t]) \subseteq Nat
  BY MemoryFacts DEF ActiveIds
<1> QED BY <1>1, <1>2 DEF Burst, IntakeTask, Intake, Task

LEMMA SubmitSettled ==
  ASSUME mem \in Memory, NEW s \in Memory, Generations(s), Sound(s, {}, {}),
         NEW q \in Seq(Task), NEW w, Due(s, q, w),
         NEW t \in DOMAIN s.intake, ~s.intake[t].submitted
  PROVE  LET r == [s EXCEPT !.intake[t].submitted = TRUE]
         IN Sound(r, {}, {}) /\ Due(r, Append(q, Burst(s, t)), w)
<1> DEFINE f == [s.intake EXCEPT ![t].submitted = TRUE]
           r == [s EXCEPT !.intake = f]
           b == Burst(s, t)
<1>1. t \in Tracks /\ s.intake[t] \in Intake /\ s.intake[t].deferred = {}
  BY MemoryFacts DEF Sound, Waits
<1>2. /\ DOMAIN f = DOMAIN s.intake /\ \A u \in DOMAIN s.intake \ {t} : f[u] = s.intake[u]
      /\ f[t].gen = s.intake[t].gen /\ f[t].handoff = s.intake[t].handoff /\ f[t].from = s.intake[t].from
      /\ f[t].deferred = {} /\ f[t].submitted
  <2>1. f[t] = [s.intake[t] EXCEPT !.submitted = TRUE]
    OBVIOUS
  <2>2. DOMAIN f = DOMAIN s.intake /\ \A u \in DOMAIN s.intake \ {t} : f[u] = s.intake[u]
    OBVIOUS
  <2> HIDE DEF f
  <2> QED BY <1>1, <2>1, <2>2 DEF Intake
<1>3. r = [s EXCEPT !.intake[t].submitted = TRUE]
  BY DEF Memory
<1> HIDE DEF f
<1>4. /\ r.masters = s.masters /\ r.visible = s.visible /\ r.bound = s.bound
      /\ r.shadow = s.shadow /\ r.conflict = s.conflict /\ r.intake = f
      /\ r.gen = s.gen /\ r.holds = s.holds /\ r.rejected = s.rejected /\ r.recovery = s.recovery /\ r.token = s.token
  BY DEF Memory
<1> HIDE DEF r
<1>5. /\ b \in Task /\ b.type = "intake" /\ b.track = t /\ b.gen = s.intake[t].gen
      /\ b.handoff = s.intake[t].handoff /\ b.from = s.intake[t].from /\ s.rejected[t] \subseteq b.excluded
  BY BurstFacts
<1> HIDE DEF b
<1>6. Bouts(r) /\ Links(r, {}) /\ Losses(r)
  BY <1>4 DEF Sound, Bouts, Links, Losses
<1>7. Challengers(r)
  BY <1>1, <1>2, <1>4 DEF Sound, Challengers
<1>8. Waits(r, {})
  <2> SUFFICES ASSUME NEW u \in DOMAIN r.intake
               PROVE  /\ u \in r.visible
                      /\ r.intake[u].deferred # {} => r.intake[u].submitted
                      /\ \A g, h \in r.intake[u].deferred : g = h
                      /\ u \in {} \/ \A g \in r.intake[u].deferred : Excused(r, u, g)
                      /\ r.intake[u].handoff \cap r.rejected[u] = {}
                      /\ u \in DOMAIN r.shadow =>
                           /\ r.intake[u].handoff = r.shadow[u].id /\ r.intake[u].from = {r.shadow[u].canon}
                           /\ r.shadow[u].id # {} /\ ~r.shadow[u].verified
    BY DEF Waits
  <2>1. CASE u = t
    BY <1>2, <1>4, <2>1 DEF Sound, Waits
  <2>2. CASE u # t
    <3>1. u \in DOMAIN s.intake /\ r.intake[u] = s.intake[u]
      BY <1>2, <1>4, <2>2
    <3> QED BY <1>4, <3>1 DEF Sound, Waits, Excused
  <2> QED BY <2>1, <2>2
<1>9. \A x \in Under(q, w) : Live(s, x) => ~Same(x, b)
  BY <1>5 DEF Due, Fitting, Live, Same
<1>10. \A x : Live(r, x) <=> Live(s, x)
  BY <1>2, <1>4 DEF Live
<1>11. ASSUME NEW x \in Under(q, w)
       PROVE  x \in Task /\ Fitting(r, x) /\ ~(Live(r, x) /\ Same(x, b))
  <2>1. x \in Task /\ Fitting(s, x)
    BY DEF Due
  <2>2. CASE x.type = "intake"
    <3>1. Live(r, x) => r.intake[x.track] = s.intake[x.track]
      BY <1>2, <1>4, <1>5, <1>9, <1>10, <2>2 DEF Live, Same
    <3> QED BY <1>4, <1>9, <1>10, <2>1, <2>2, <3>1 DEF Fitting
  <2>3. CASE x.type # "intake"
    BY <1>4, <1>9, <1>10, <2>1, <2>3 DEF Fitting
  <2> QED BY <2>2, <2>3
<1>12. Fitting(r, b)
  BY <1>2, <1>4, <1>5 DEF Fitting, Generations
<1>13. Apart(r, q, w)
  BY <1>10 DEF Due, Apart
<1>14. Owed(r, Under(q, w) \cup {b})
  <2> SUFFICES ASSUME NEW u \in DOMAIN r.intake, Waiting(r, u)
               PROVE  \E x \in Under(q, w) \cup {b} : x.type = "intake" /\ x.track = u /\ x.gen = r.intake[u].gen
    BY DEF Owed
  <2>1. CASE u = t
    BY <1>2, <1>4, <1>5, <2>1
  <2>2. CASE u # t
    <3>1. u \in DOMAIN s.intake /\ r.intake[u] = s.intake[u] /\ Waiting(s, u)
      BY <1>2, <1>4, <2>2 DEF Waiting
    <3> QED BY <3>1 DEF Due, Owed
  <2> QED BY <2>1, <2>2
<1>15. Due(r, Append(q, b), w)
  BY <1>5, <1>11, <1>12, <1>13, <1>14, DueAppend
<1> QED BY <1>3, <1>6, <1>7, <1>8, <1>15 DEF Sound, b

LEMMA CollectSettled ==
  ASSUME mem \in Memory, NEW s \in Memory, Generations(s), Sound(s, {}, {}), Due(s, queue, worker),
         queue \in Seq(Task), NEW t \in Tracks, t \in s.visible,
         NEW handoff \in SUBSET Nat, NEW from \in SUBSET Tracks,
         t \notin DOMAIN s.intake =>
           /\ handoff \cap s.rejected[t] = {}
           /\ t \in DOMAIN s.shadow => /\ handoff = s.shadow[t].id /\ from = {s.shadow[t].canon}
                                       /\ s.shadow[t].id # {} /\ ~s.shadow[t].verified,
         CollectIntake(s, t, handoff, from), worker' = worker
  PROVE  Settled'
<1> DEFINE r == IF t \in DOMAIN s.intake THEN s ELSE NewIntake(s, t, handoff, from)
<1>1. r \in Memory /\ Generations(r) /\ Sound(r, {}, {}) /\ Due(r, queue, worker) /\ t \in DOMAIN r.intake
  <2>1. CASE t \in DOMAIN s.intake
    BY <2>1
  <2>2. CASE t \notin DOMAIN s.intake
    <3> DEFINE n == NewIntake(s, t, handoff, from)
    <3>1. /\ n \in Memory /\ Sound(n, {}, {}) /\ Onward(s, n, {}, {}) /\ t \in DOMAIN n.intake
          /\ Generations(n)
      BY <2>2, NewIntakeSound
    <3> HIDE DEF n
    <3>2. Due(n, queue, worker)
      BY <3>1, DueOn
    <3> QED BY <2>2, <3>1, <3>2 DEF n
  <2> QED BY <2>1, <2>2
<1>2. \/ mem' = r /\ queue' = queue
      \/ /\ ~r.intake[t].submitted
         /\ mem' = [r EXCEPT !.intake[t].submitted = TRUE] /\ queue' = Append(queue, Burst(r, t))
  BY DEF CollectIntake
<1> HIDE DEF r
<1>3. CASE mem' = r /\ queue' = queue
  BY <1>1, <1>3 DEF Settled
<1>4. CASE /\ ~r.intake[t].submitted
           /\ mem' = [r EXCEPT !.intake[t].submitted = TRUE] /\ queue' = Append(queue, Burst(r, t))
  <2> DEFINE n == [r EXCEPT !.intake[t].submitted = TRUE]
             q == Append(queue, Burst(r, t))
  <2>1. Sound(n, {}, {}) /\ Due(n, q, worker)
    BY <1>1, <1>4, SubmitSettled
  <2>2. mem' = n /\ queue' = q
    BY <1>4
  <2> HIDE DEF n, q
  <2> QED BY <2>1, <2>2 DEF Settled
<1> QED BY <1>2, <1>3, <1>4

\* A candidate in view is ready; the verdict is asked for once both are.
LEMMA SampleSettled ==
  ASSUME NEW s \in Memory, Sound(s, {}, {}), Due(s, queue, worker), queue \in Seq(Task),
         NEW m, NEW t \in s.visible, CollectSample(s, m, t), worker' = worker
  PROVE  Settled'
<1>1. CASE mem' = s /\ queue' = queue
  BY <1>1 DEF Settled
<1>2. CASE /\ m \in DOMAIN s.conflict
           /\ t \in s.conflict[m].cands
           /\ ~s.conflict[m].submitted
           /\ LET ready == s.conflict[m].ready \cup {t}
                  full == ready = s.conflict[m].cands /\ HasRoom
              IN /\ mem' = [s EXCEPT !.conflict[m].ready = ready, !.conflict[m].submitted = full]
                 /\ queue' = IF full
                               THEN Append(queue, [type |-> "physical_conflict", master |-> m,
                                                   token |-> s.conflict[m].token])
                               ELSE queue
  <2> DEFINE ready == s.conflict[m].ready \cup {t}
             full == ready = s.conflict[m].cands /\ HasRoom
             c == [s.conflict[m] EXCEPT !.ready = ready, !.submitted = full]
             h == [s.conflict EXCEPT ![m] = c]
             r == [s EXCEPT !.conflict = h]
             b == [type |-> "physical_conflict", master |-> m, token |-> s.conflict[m].token]
  <2>1. s.conflict[m] \in Conflict /\ m \in Nat /\ m \in DOMAIN s.conflict
    BY <1>2, MemoryFacts
  <2>2. full \in BOOLEAN /\ (full => ready = s.conflict[m].cands)
    OBVIOUS
  <2>3. queue' = IF full THEN Append(queue, b) ELSE queue
    BY <1>2
  <2>4. mem' = r
    <3>1. mem' = [s EXCEPT !.conflict[m].ready = ready, !.conflict[m].submitted = full]
      BY <1>2
    <3> HIDE DEF ready, full
    <3> QED BY <2>1, <3>1 DEF Memory, Conflict
  <2>5. b \in Task
    BY <2>1 DEF Task, ConflictTask, Conflict
  <2>6. b.type # "intake" /\ b.type = "physical_conflict" /\ b.master = m /\ b.token = s.conflict[m].token
    OBVIOUS
  <2>7. /\ c \in Conflict
        /\ c.token = s.conflict[m].token /\ c.cands = s.conflict[m].cands /\ c.challenger = s.conflict[m].challenger
        /\ c.gen = s.conflict[m].gen /\ c.ready = ready /\ c.submitted = full
    <3>1. ready \in SUBSET Tracks
      BY <2>1, MemoryFacts DEF Conflict
    <3> HIDE DEF ready, full
    <3> QED BY <2>1, <2>2, <3>1 DEF Conflict
  <2>8. h[m] = c /\ DOMAIN h = DOMAIN s.conflict /\ \A n \in DOMAIN s.conflict \ {m} : h[n] = s.conflict[n]
    BY <2>1
  <2>9. Sound(s, {}, {}) => s.conflict[m].ready \subseteq s.visible /\ ready \subseteq s.visible
                              /\ s.conflict[m].ready \subseteq s.conflict[m].cands /\ ready \subseteq s.conflict[m].cands
    BY <1>2, <2>1 DEF Sound, Bouts
  <2>10. /\ r.masters = s.masters /\ r.visible = s.visible /\ r.bound = s.bound /\ r.shadow = s.shadow
         /\ r.conflict = h /\ r.intake = s.intake /\ r.gen = s.gen /\ r.holds = s.holds
         /\ r.rejected = s.rejected /\ r.recovery = s.recovery /\ r.token = s.token
    <3> HIDE DEF h
    <3> QED BY DEF Memory
  <2>11. s.conflict[m].ready \subseteq ready
    OBVIOUS
  <2> HIDE DEF h, r, b, c, ready, full
  <2>12. Bouts(r)
    <3> SUFFICES ASSUME NEW n \in DOMAIN r.conflict
                 PROVE  LET k == r.conflict[n]
                        IN /\ n <= r.masters /\ k.token <= r.token
                           /\ \E u, v \in Tracks : u # v /\ k.cands = {u, v}
                           /\ k.challenger \subseteq k.ready /\ k.ready \subseteq k.cands
                           /\ k.ready \subseteq r.visible
                           /\ k.submitted => k.ready = k.cands
                           /\ \A u \in k.cands \ k.challenger : u \in DOMAIN r.bound /\ r.bound[u] = n
      BY DEF Bouts
    <3>1. CASE n = m
      BY <2>1, <2>2, <2>7, <2>8, <2>9, <2>10, <2>11, <3>1 DEF Sound, Bouts
    <3>2. CASE n # m
      BY <2>8, <2>10, <3>2 DEF Sound, Bouts
    <3> QED BY <3>1, <3>2
  <2>13. /\ DOMAIN r.conflict = DOMAIN s.conflict
         /\ \A n \in DOMAIN s.conflict : /\ r.conflict[n].challenger = s.conflict[n].challenger
                                         /\ r.conflict[n].gen = s.conflict[n].gen
                                         /\ r.conflict[n].token = s.conflict[n].token
    BY <2>7, <2>8, <2>10
  <2>14. Challengers(r) /\ Waits(r, {}) /\ Losses(r) /\ Links(r, {})
    BY <2>10, <2>13 DEF Sound, Challengers, Waits, Losses, Links, Excused
  <2>15. r \in Memory
    <3>1. h \in Dict(Nat, Conflict)
      <4>1. h = [n \in DOMAIN h |-> h[n]]
        BY DEF h
      <4>2. DOMAIN h \subseteq Nat /\ \A n \in DOMAIN h : h[n] \in Conflict
        BY <2>7, <2>8, MemoryFacts
      <4> QED BY <4>1, <4>2, DictFacts
    <3> QED BY <3>1 DEF Memory, r
  <2>16. Onward(s, r, {}, {})
    <3>1. s.token \in Nat /\ s.gen \in [Tracks -> Nat]
      BY MemoryFacts
    <3>2. \A n \in DOMAIN s.conflict : s.conflict[n].submitted => r.conflict[n].submitted
      BY <1>2, <2>8, <2>10
    <3> QED BY <2>10, <2>13, <3>1, <3>2 DEF Onward
  <2>17. Due(r, queue, worker)
    BY <2>15, <2>16, DueOn
  <2>18. CASE ~full
    BY <2>3, <2>4, <2>12, <2>14, <2>17, <2>18 DEF Settled, Sound
  <2>19. CASE full
    <3>1. \A x \in Under(queue, worker) : Live(s, x) => ~Same(x, b)
      BY <1>2, <2>6 DEF Due, Fitting, Live, Same
    <3>2. \A x \in Under(queue, worker) : x \in Task /\ Fitting(r, x) /\ ~(Live(r, x) /\ Same(x, b))
      BY <2>15, <2>16, <2>17, <3>1, LiveBefore DEF Due
    <3>3. Fitting(r, b)
      <4>1. b.token <= r.token
        BY <2>1, <2>6, <2>10 DEF Sound, Bouts
      <4>2. r.conflict[b.master].submitted
        BY <2>6, <2>7, <2>8, <2>10, <2>19
      <4> QED BY <2>6, <4>1, <4>2 DEF Fitting
    <3>4. Apart(r, queue, worker) /\ Owed(r, Under(queue, worker) \cup {b})
      BY <2>17 DEF Due, Owed
    <3>5. Due(r, Append(queue, b), worker)
      BY <2>5, <3>2, <3>3, <3>4, DueAppend
    <3> QED BY <2>3, <2>4, <2>12, <2>14, <2>19, <3>5 DEF Settled, Sound
  <2> QED BY <2>18, <2>19
<1> QED BY <1>1, <1>2 DEF CollectSample

\* The position of a track contradicts that of another owner of its master.
LEMMA LocationSound ==
  ASSUME NEW s \in Memory, Existing(s), Sound(s, {}, {}), NEW t \in DOMAIN s.bound, NEW other \in DOMAIN s.bound \ {t},
         s.bound[other] = s.bound[t], s.bound[t] \notin DOMAIN s.conflict
  PROVE  LET r == StartLocationConflict(s, s.bound[t], t, other)
         IN r \in Memory /\ Sound(r, {}, {}) /\ Onward(s, r, {}, {}) /\ r.visible = s.visible
<1> DEFINE m == s.bound[t]
           T == {t, other}
           c == [token |-> s.token + 1, cands |-> T, ready |-> {}, submitted |-> FALSE,
                 challenger |-> {}, gen |-> 0]
           h == Set(s.conflict, m, c)
           token == s.token + 1
           q == [s EXCEPT !.token = token, !.conflict = h]
           r == StartLocationConflict(s, m, t, other)
           f == [k \in DOMAIN s.recovery |->
                   IF k \notin T /\ \E u \in T : CameraOf[u] = CameraOf[k]
                     THEN s.recovery[k] \cup {m} ELSE s.recovery[k]]
<1>0. m \in 1..s.masters /\ m \in Nat /\ s.token \in Nat /\ t \in Tracks /\ other \in Tracks /\ s.masters \in Nat
  BY MemoryFacts DEF Existing
<1>1. c \in Conflict
  BY <1>0 DEF Conflict
<1>2. c.token = token /\ c.cands = {t, other} /\ c.ready = {} /\ ~c.submitted /\ c.challenger = {} /\ token > s.token /\ token \in Nat
  BY <1>0
<1>3. r = [q EXCEPT !.recovery = f]
  <2>1. q = [s EXCEPT !.token = @ + 1, !.conflict = Set(@, m, c)]
    BY DEF Memory
  <2>2. q.recovery = s.recovery
    BY DEF Memory
  <2>3. r = LinkHolds(q, m, T)
    BY <2>1 DEF StartLocationConflict
  <2> HIDE DEF q, r, m, T
  <2> QED BY <2>2, <2>3 DEF LinkHolds
<1>4. DOMAIN f = DOMAIN s.recovery /\ \A k \in DOMAIN f : f[k] \subseteq s.recovery[k] \cup {m}
  OBVIOUS
<1>5. f = [k \in DOMAIN f |-> f[k]]
  OBVIOUS
<1> HIDE DEF c, h, f, token
<1>6. /\ h \in Dict(Nat, Conflict) /\ DOMAIN h = DOMAIN s.conflict \cup {m} /\ h[m] = c
      /\ \A n \in DOMAIN s.conflict : h[n] = s.conflict[n]
  <2> HIDE DEF m
  <2>1. s.conflict \in Dict(Nat, Conflict)
    BY DEF Memory
  <2>2. h \in Dict(Nat, Conflict)
    BY <1>0, <1>1, <2>1, SetDict DEF h
  <2>3. DOMAIN h = DOMAIN s.conflict \cup {m}
    BY SetDomain DEF h
  <2>4. h[m] = c
    BY SetHere DEF h
  <2>5. \A n \in DOMAIN s.conflict \ {m} : h[n] = s.conflict[n]
    BY SetElsewhere DEF h
  <2> QED BY <2>2, <2>3, <2>4, <2>5 DEF m
<1>7. f \in Dict(Tracks, SUBSET Nat)
  <2>1. DOMAIN f \subseteq Tracks /\ \A k \in DOMAIN f : f[k] \in SUBSET Nat
    BY <1>0, <1>4, RecoveryFacts
  <2> QED BY <1>5, <2>1, DictFacts
<1> HIDE DEF r, m
<1>8. /\ r \in Memory /\ r.masters = s.masters /\ r.visible = s.visible /\ r.bound = s.bound /\ r.shadow = s.shadow
      /\ r.conflict = h /\ r.intake = s.intake /\ r.gen = s.gen /\ r.holds = s.holds
      /\ r.rejected = s.rejected /\ r.recovery = f /\ r.token = token
  <2>1. q \in Memory
    BY <1>2, <1>6 DEF Memory
  <2>2. /\ q.masters = s.masters /\ q.visible = s.visible /\ q.bound = s.bound /\ q.shadow = s.shadow
        /\ q.conflict = h /\ q.intake = s.intake /\ q.gen = s.gen /\ q.holds = s.holds
        /\ q.rejected = s.rejected /\ q.token = token
    BY DEF Memory
  <2> HIDE DEF q
  <2> QED BY <1>3, <1>7, <2>1, <2>2 DEF Memory
<1>9. Bouts(r)
  <2> SUFFICES ASSUME NEW n \in DOMAIN r.conflict
               PROVE  LET k == r.conflict[n]
                      IN /\ n <= r.masters /\ k.token <= r.token
                         /\ \E u, v \in Tracks : u # v /\ k.cands = {u, v}
                         /\ k.challenger \subseteq k.ready /\ k.ready \subseteq k.cands
                         /\ k.ready \subseteq r.visible
                         /\ k.submitted => k.ready = k.cands
                         /\ \A u \in k.cands \ k.challenger : u \in DOMAIN r.bound /\ r.bound[u] = n
    BY DEF Bouts
  <2>1. CASE n = m
    BY <1>0, <1>2, <1>6, <1>8, <2>1 DEF m
  <2>2. CASE n # m
    <3>1. n \in DOMAIN s.conflict /\ r.conflict[n] = s.conflict[n] /\ s.conflict[n].token \in Nat
      BY <1>6, <1>8, <2>2, MemoryFacts DEF Conflict
    <3>2. s.conflict[n].token <= token
      BY <1>0, <1>2, <3>1 DEF Sound, Bouts
    <3> QED BY <1>8, <3>1, <3>2 DEF Sound, Bouts
  <2> QED BY <2>1, <2>2
<1>10. m \notin DOMAIN s.conflict
  BY DEF m
<1>11. Challengers(r)
  BY <1>2, <1>6, <1>8 DEF Sound, Challengers
<1>12. Waits(r, {})
  BY <1>4, <1>6, <1>8 DEF Sound, Waits, Excused
<1>13. Losses(r) /\ Links(r, {})
  BY <1>4, <1>6, <1>8 DEF Sound, Losses, Links
<1>14. Onward(s, r, {}, {})
  <2>1. s.gen \in [Tracks -> Nat]
    BY MemoryFacts
  <2> QED BY <1>0, <1>2, <1>6, <1>8, <2>1 DEF Onward
<1> QED BY <1>8, <1>9, <1>11, <1>12, <1>13, <1>14 DEF Sound, r, m

\* A track t is given the master n: what the step takes from it and leaves.
Gives(s, r, t, n) ==
  /\ r.visible = s.visible /\ r.masters = s.masters /\ r.gen = s.gen /\ r.holds = s.holds
  /\ r.conflict = s.conflict /\ r.token = s.token
  /\ r.bound = Set(s.bound, t, n) /\ r.intake = Without(s.intake, {t}) /\ r.shadow = Without(s.shadow, {t})
  /\ \A u \in Tracks \ {t} : r.rejected[u] = s.rejected[u]
  /\ r.rejected[t] \subseteq s.rejected[t]
  /\ r.recovery = s.recovery \/ r.recovery = Without(s.recovery, {t})

LEMMA GivesFacts ==
  ASSUME NEW s, NEW r, NEW t, NEW n, Gives(s, r, t, n)
  PROVE  /\ DOMAIN r.bound = DOMAIN s.bound \cup {t} /\ \A u \in DOMAIN s.bound \ {t} : r.bound[u] = s.bound[u]
         /\ DOMAIN r.intake = DOMAIN s.intake \ {t} /\ \A u \in DOMAIN r.intake : r.intake[u] = s.intake[u]
         /\ DOMAIN r.shadow = DOMAIN s.shadow \ {t} /\ \A u \in DOMAIN r.shadow : r.shadow[u] = s.shadow[u]
         /\ DOMAIN r.recovery \subseteq DOMAIN s.recovery /\ DOMAIN s.recovery \ {t} \subseteq DOMAIN r.recovery
         /\ \A u \in DOMAIN r.recovery : r.recovery[u] = s.recovery[u]
<1>1. /\ DOMAIN Without(s.intake, {t}) = DOMAIN s.intake \ {t}
      /\ \A u \in DOMAIN Without(s.intake, {t}) : Without(s.intake, {t})[u] = s.intake[u]
  BY WithoutFacts, Zenon
<1>2. /\ DOMAIN Without(s.shadow, {t}) = DOMAIN s.shadow \ {t}
      /\ \A u \in DOMAIN Without(s.shadow, {t}) : Without(s.shadow, {t})[u] = s.shadow[u]
  BY WithoutFacts, Zenon
<1>3. /\ DOMAIN Without(s.recovery, {t}) = DOMAIN s.recovery \ {t}
      /\ \A u \in DOMAIN Without(s.recovery, {t}) : Without(s.recovery, {t})[u] = s.recovery[u]
  BY WithoutFacts, Zenon
<1>4. DOMAIN Set(s.bound, t, n) = DOMAIN s.bound \cup {t}
  BY SetDomain
<1>5. \A u \in DOMAIN s.bound \ {t} : Set(s.bound, t, n)[u] = s.bound[u]
  BY SetElsewhere
<1>6. r.bound = Set(s.bound, t, n) /\ r.intake = Without(s.intake, {t}) /\ r.shadow = Without(s.shadow, {t})
  BY DEF Gives
<1>7. r.recovery = s.recovery \/ r.recovery = Without(s.recovery, {t})
  BY DEF Gives
<1>8. DOMAIN r.bound = DOMAIN s.bound \cup {t} /\ \A u \in DOMAIN s.bound \ {t} : r.bound[u] = s.bound[u]
  BY <1>4, <1>5, <1>6
<1>9. /\ DOMAIN r.intake = DOMAIN s.intake \ {t} /\ \A u \in DOMAIN r.intake : r.intake[u] = s.intake[u]
      /\ DOMAIN r.shadow = DOMAIN s.shadow \ {t} /\ \A u \in DOMAIN r.shadow : r.shadow[u] = s.shadow[u]
  BY <1>1, <1>2, <1>6
<1>10. /\ DOMAIN r.recovery \subseteq DOMAIN s.recovery /\ DOMAIN s.recovery \ {t} \subseteq DOMAIN r.recovery
       /\ \A u \in DOMAIN r.recovery : r.recovery[u] = s.recovery[u]
  BY <1>3, <1>7
<1> QED BY <1>8, <1>9, <1>10

\* A track that has no master and challenges for none is given one, and loses
\* its intake and its shadow entry.
LEMMA GivenSound ==
  ASSUME NEW s \in Memory, NEW X, NEW t \in Tracks, Sound(s, X, {}), X \subseteq {t}, t \notin DOMAIN s.bound,
         \A m \in DOMAIN s.conflict : t \notin s.conflict[m].challenger,
         NEW n \in Nat, NEW r \in Memory,
         Gives(s, r, t, n)
  PROVE  Sound(r, {}, {}) /\ Onward(s, r, {}, {})
<1>0. /\ r.visible = s.visible /\ r.masters = s.masters /\ r.gen = s.gen /\ r.holds = s.holds
      /\ r.conflict = s.conflict /\ r.token = s.token
      /\ \A u \in Tracks \ {t} : r.rejected[u] = s.rejected[u]
      /\ r.rejected[t] \subseteq s.rejected[t]
  BY DEF Gives
<1>1. DOMAIN r.bound = DOMAIN s.bound \cup {t} /\ \A u \in DOMAIN s.bound : r.bound[u] = s.bound[u]
  BY GivesFacts
<1>2. DOMAIN r.intake = DOMAIN s.intake \ {t} /\ \A u \in DOMAIN r.intake : r.intake[u] = s.intake[u]
  BY GivesFacts
<1>3. DOMAIN r.shadow = DOMAIN s.shadow \ {t} /\ \A u \in DOMAIN r.shadow : r.shadow[u] = s.shadow[u]
  BY GivesFacts
<1>4. /\ DOMAIN r.recovery \subseteq DOMAIN s.recovery /\ DOMAIN s.recovery \ {t} \subseteq DOMAIN r.recovery
      /\ \A u \in DOMAIN r.recovery : r.recovery[u] = s.recovery[u]
  BY GivesFacts
<1>5. Bouts(r)
  BY <1>0, <1>1 DEF Sound, Bouts
<1>6. \A u \in DOMAIN r.intake : /\ u \in Tracks /\ u # t /\ u \in DOMAIN s.intake /\ u \notin X
                                 /\ r.intake[u] = s.intake[u]
                                 /\ r.rejected[u] = s.rejected[u]
  BY <1>0, <1>2, MemoryFacts
<1>7. Challengers(r)
  <2> SUFFICES ASSUME NEW m \in DOMAIN r.conflict, NEW u \in r.conflict[m].challenger
               PROVE  /\ u \in DOMAIN r.intake /\ r.intake[u].gen = r.conflict[m].gen
                      /\ "contest" \in r.intake[u].deferred
                      /\ m \notin r.rejected[u] /\ m \notin r.intake[u].handoff
                      /\ u \notin DOMAIN r.shadow
                      /\ \A k \in DOMAIN r.conflict : u \in r.conflict[k].challenger => k = m
    BY DEF Challengers
  <2>1. u # t /\ u \in DOMAIN s.intake
    BY <1>0 DEF Sound, Challengers
  <2>2. u \in DOMAIN r.intake
    BY <1>2, <2>1
  <2>3. r.intake[u] = s.intake[u] /\ r.rejected[u] = s.rejected[u] /\ DOMAIN r.shadow \subseteq DOMAIN s.shadow
    BY <1>3, <1>6, <2>2
  <2> QED BY <1>0, <2>2, <2>3 DEF Sound, Challengers
<1>8. Waits(r, {})
  <2> SUFFICES ASSUME NEW u \in DOMAIN r.intake
               PROVE  /\ u \in r.visible
                      /\ r.intake[u].deferred # {} => r.intake[u].submitted
                      /\ \A f, g \in r.intake[u].deferred : f = g
                      /\ \A f \in r.intake[u].deferred : Excused(r, u, f)
                      /\ r.intake[u].handoff \cap r.rejected[u] = {}
                      /\ u \in DOMAIN r.shadow =>
                           /\ r.intake[u].handoff = r.shadow[u].id /\ r.intake[u].from = {r.shadow[u].canon}
                           /\ r.shadow[u].id # {} /\ ~r.shadow[u].verified
    BY DEF Waits
  <2>1. u # t /\ u \in DOMAIN s.intake /\ u \notin X /\ r.intake[u] = s.intake[u] /\ r.rejected[u] = s.rejected[u]
    BY <1>6
  <2>2. \A f \in s.intake[u].deferred : Excused(s, u, f)
    BY <2>1 DEF Sound, Waits
  <2>3. \A f : Excused(s, u, f) => Excused(r, u, f)
    BY <1>0, <1>4, <2>1 DEF Excused
  <2>4. u \in DOMAIN r.shadow => u \in DOMAIN s.shadow /\ r.shadow[u] = s.shadow[u]
    BY <1>3
  <2> QED BY <1>0, <2>1, <2>2, <2>3, <2>4 DEF Sound, Waits
<1>9. Losses(r) /\ Links(r, {})
  BY <1>0, <1>3, <1>4 DEF Sound, Losses, Links
<1>10. Onward(s, r, {}, {})
  <2>1. s.token \in Nat /\ s.gen \in [Tracks -> Nat]
    BY MemoryFacts
  <2>2. DOMAIN r.shadow \subseteq DOMAIN s.shadow
    BY <1>3
  <2> QED BY <1>0, <1>6, <2>1, <2>2 DEF Onward
<1> QED BY <1>5, <1>7, <1>8, <1>9, <1>10 DEF Sound

\* What is due stays due.
Carries(s, r) == \A q, w : Due(s, q, w) => Due(r, q, w)

LEMMA OnwardCarries ==
  ASSUME NEW s \in Memory, NEW r \in Memory, Onward(s, r, {}, {})
  PROVE  Carries(s, r)
BY DueOn DEF Carries

LEMMA CalmCarries ==
  ASSUME NEW s \in Memory, NEW r, Calm(s, r)
  PROVE  r \in Memory /\ Carries(s, r) /\ r.visible = s.visible
<1>1. r \in Memory /\ Onward(s, r, {}, {}) /\ r.visible = s.visible
  BY CalmOnward DEF Calm, Keeps
<1> QED BY <1>1, OnwardCarries

\* Earlier aliases of a master are retired, not the track that gets it.
LEMMA RetireSound ==
  ASSUME NEW s \in Memory, NEW X, NEW Y, Sound(s, X, Y), NEW m, NEW t \in Tracks
  PROVE  LET r == ClearNonvisibleOwners(s, m, t)
         IN /\ Sound(r, X, Y) /\ Calm(s, r)
            /\ t \in DOMAIN s.shadow => t \in DOMAIN r.shadow /\ r.shadow[t] = s.shadow[t]
<1> DEFINE T == {u \in Peers(t) \cap DOMAIN s.bound : s.bound[u] = m /\ u \notin s.visible}
<1>1. ClearNonvisibleOwners(s, m, t) = ClearBindings(s, T)
  BY DEF ClearNonvisibleOwners
<1>2. t \notin T
  BY DEF Peers
<1> HIDE DEF T
<1> QED BY <1>1, <1>2, ClearBindingsSound

LEMMA PromoteSound ==
  ASSUME NEW s \in Memory, Roles(s), Sound(s, {}, {}), NEW t \in DOMAIN s.shadow, s.shadow[t].verified, NEW m \in Nat
  PROVE  LET r == Promote(s, t, m)
         IN /\ r \in Memory /\ Sound(r, {}, {}) /\ Carries(s, r)
            /\ r.rejected[t] = {} /\ t \notin DOMAIN r.shadow
<1> DEFINE s1 == ClearNonvisibleOwners(s, m, t)
           r == Promote(s, t, m)
<1>0. t \in Tracks
  BY MemoryFacts
<1>1. Sound(s1, {}, {}) /\ Calm(s, s1)
  BY <1>0, RetireSound
<1>2. r = [s1 EXCEPT !.bound = Set(@, t, m), !.tentative = Without(@, {t}),
                !.intake = Without(@, {t}), !.shadow = Without(@, {t})]
  BY DEF Promote
<1> HIDE DEF s1
<1>3. s1 \in Memory /\ Carries(s, s1)
  BY <1>1, CalmCarries
<1>4. t \notin DOMAIN s1.bound /\ t \notin DOMAIN s1.intake /\ s1.rejected[t] = {}
  <2>1. t \notin DOMAIN s.bound /\ t \notin DOMAIN s.intake /\ s.rejected[t] = {}
    BY <1>0 DEF Roles, Sound, Waits, Losses
  <2> QED BY <1>0, <1>1, <2>1 DEF Calm, Keeps
<1>5. \A n \in DOMAIN s1.conflict : t \notin s1.conflict[n].challenger
  BY <1>1, <1>4 DEF Sound, Challengers
<1>6. /\ Set(s1.bound, t, m) \in Dict(Tracks, Nat)
      /\ Without(s1.tentative, {t}) \in Dict(Tracks, Nat)
      /\ Without(s1.intake, {t}) \in Dict(Tracks, Intake)
      /\ Without(s1.shadow, {t}) \in Dict(Tracks, Shadow)
  BY <1>0, <1>3, SetMemory, PopFacts
<1>7. r \in Memory /\ r.rejected = s1.rejected
  BY <1>2, <1>3, <1>6 DEF Memory
<1>8. Gives(s1, r, t, m)
  BY <1>2, <1>3 DEF Memory, Gives
<1> HIDE DEF r
<1>9. Sound(r, {}, {}) /\ Onward(s1, r, {}, {})
  BY <1>0, <1>1, <1>3, <1>4, <1>5, <1>7, <1>8, GivenSound
<1>10. t \notin DOMAIN r.shadow
  BY <1>8, GivesFacts
<1>11. Carries(s, r)
  BY <1>3, <1>7, <1>9, OnwardCarries DEF Carries
<1> QED BY <1>4, <1>7, <1>9, <1>10, <1>11 DEF r

\* The position of an owner agrees, contradicts that of another, or takes its master.
LEMMA ServiceSettled ==
  ASSUME mem \in Memory, NEW s, NEW W, Proper(s, W), Sound(s, {}, {}), Due(s, queue, worker),
         queue \in Seq(Task), NEW t \in DOMAIN s.bound, t \in s.visible,
         NEW handoff \in SUBSET Nat, NEW from \in SUBSET Tracks, handoff \cap s.rejected[t] = {},
         ServiceBound(s, t, handoff, from), worker' = worker
  PROVE  Settled'
<1> DEFINE m == s.bound[t]
<1>0. s \in Memory /\ Existing(s) /\ t \in Tracks
  BY MemoryFacts DEF Proper
<1>1. CASE CollectSample(s, m, t)
  BY <1>0, <1>1, SampleSettled
<1>2. CASE CollectSample(PositionAgrees(s, m, t), m, t)
  <2> DEFINE r == PositionAgrees(s, m, t)
  <2>1. Sound(r, {}, {}) /\ Calm(s, r)
    <3>1. r = s \/ r = CancelConflicts(s, {m})
      BY DEF PositionAgrees
    <3> HIDE DEF r, m
    <3> QED BY <1>0, <3>1, CalmSelf, CancelSound
  <2>2. CollectSample(r, m, t)
    BY <1>2
  <2> HIDE DEF r, m
  <2>3. r \in Memory /\ Due(r, queue, worker) /\ t \in r.visible
    BY <1>0, <2>1, CalmCarries DEF Carries
  <2> QED BY <2>1, <2>2, <2>3, SampleSettled
<1>3. ASSUME NEW other \in OwnersElsewhere(s, m, t), m \notin DOMAIN s.conflict,
             CollectSample(StartLocationConflict(s, m, t, other), m, t)
      PROVE  Settled'
  <2> DEFINE r == StartLocationConflict(s, m, t, other)
  <2>1. other \in DOMAIN s.bound \ {t} /\ s.bound[other] = s.bound[t]
    BY DEF OwnersElsewhere
  <2>2. r \in Memory /\ Sound(r, {}, {}) /\ Onward(s, r, {}, {}) /\ r.visible = s.visible
    BY <1>0, <1>3, <2>1, LocationSound
  <2>3. CollectSample(r, m, t)
    BY <1>3
  <2> HIDE DEF r, m
  <2>4. Due(r, queue, worker) /\ t \in r.visible
    BY <1>0, <2>2, DueOn
  <2> QED BY <2>2, <2>3, <2>4, SampleSettled
<1>4. CASE CollectIntake(ClearBindings(s, {t}), t, handoff, from)
  <2> DEFINE r == ClearBindings(s, {t})
  <2>1. Sound(r, {}, {}) /\ Calm(s, r)
    BY <1>0, ClearBindingsSound
  <2>2. Generations(r)
    BY <1>0, <2>1, KeepsProper DEF Calm, Proper
  <2>3. CollectIntake(r, t, handoff, from)
    BY <1>4
  <2> HIDE DEF r
  <2>4. r \in Memory /\ Due(r, queue, worker) /\ t \in r.visible
    BY <1>0, <2>1, CalmCarries DEF Carries
  <2>5. t \notin DOMAIN r.shadow /\ handoff \cap r.rejected[t] = {}
    <3>1. t \notin DOMAIN s.shadow
      BY DEF Proper, Roles
    <3> QED BY <1>0, <2>1, <3>1 DEF Calm, Keeps
  <2> QED BY <1>0, <2>1, <2>2, <2>3, <2>4, <2>5, CollectSettled
<1>5. \/ CollectSample(s, m, t)
      \/ CollectSample(PositionAgrees(s, m, t), m, t)
      \/ \E other \in OwnersElsewhere(s, m, t) :
           IF m \notin DOMAIN s.conflict
             THEN CollectSample(StartLocationConflict(s, m, t, other), m, t)
             ELSE CollectIntake(ClearBindings(s, {t}), t, handoff, from)
  BY DEF ServiceBound
<1> HIDE DEF m
<1> QED BY <1>1, <1>2, <1>3, <1>4, <1>5

LEMMA ServeSettled ==
  ASSUME mem \in Memory, NEW s, NEW W, Proper(s, W), Sound(s, {}, {}), Due(s, queue, worker),
         queue \in Seq(Task), NEW t \in s.visible,
         NEW handoff \in SUBSET Nat, NEW from \in SUBSET Tracks, handoff \cap s.rejected[t] = {},
         t \in DOMAIN s.shadow => /\ handoff = s.shadow[t].id /\ from = {s.shadow[t].canon}
                                  /\ s.shadow[t].id # {} /\ ~s.shadow[t].verified,
         Serve(s, t, handoff, from), worker' = worker
  PROVE  Settled'
<1>0. s \in Memory /\ Generations(s) /\ t \in Tracks
  BY MemoryFacts DEF Proper
<1>1. CASE t \in DOMAIN s.bound
  <2>1. ServiceBound(s, t, handoff, from)
    BY <1>1 DEF Serve
  <2> QED BY <1>1, <2>1, ServiceSettled
<1>2. CASE t \notin DOMAIN s.bound
  <2>1. CollectIntake(s, t, handoff, from)
    BY <1>2 DEF Serve
  <2> QED BY <1>0, <2>1, CollectSettled
<1> QED BY <1>1, <1>2

LEMMA AssignSettled ==
  ASSUME NEW W, Proper(mem, W), Tasks, Settled, NEW t \in Tracks, Assign(t)
  PROVE  Settled'
<1>0. /\ mem \in Memory /\ Roles(mem) /\ Sound(mem, {}, {}) /\ Due(mem, queue, worker)
      /\ queue \in Seq(Task) /\ t \in mem.visible /\ worker' = worker
  BY DEF Proper, Settled, Tasks, Assign
<1>1. PICK reset \in BOOLEAN, keep \in BOOLEAN :
        LET s == Arrive(mem, t, reset, keep)
        IN AssignHidden(t, s) \/ AssignServed(t, s) \/ AssignPromoted(t, s)
  BY DEF Assign
<1> DEFINE s == Arrive(mem, t, reset, keep)
<1>2. Sound(s, {}, {}) /\ Calm(mem, s)
  BY <1>0, ArriveSound
<1>3. AssignHidden(t, s) \/ AssignServed(t, s) \/ AssignPromoted(t, s)
  BY <1>1
<1> HIDE DEF s
<1>4. s \in Memory /\ Due(s, queue, worker) /\ t \in s.visible
  BY <1>0, <1>2, CalmCarries DEF Carries
<1>5. Proper(s, W)
  BY <1>2, KeepsProper DEF Calm
<1>6. CASE AssignHidden(t, s)
  <2>1. mem' = s /\ queue' = queue
    BY <1>6 DEF AssignHidden
  <2> QED BY <1>0, <1>2, <1>4, <2>1 DEF Settled
<1>7. CASE AssignServed(t, s)
  <2> DEFINE handoff == Target(s, t)
             from == CanonicalOf(s, t)
  <2>1. handoff \in SUBSET Nat /\ from \in SUBSET Tracks
    BY <1>4, MemoryFacts DEF Target, CanonicalOf, Shadow
  <2>2. handoff \cap s.rejected[t] = {}
    BY <1>2 DEF Sound, Losses, Target
  <2>3. t \in DOMAIN s.shadow => /\ handoff = s.shadow[t].id /\ from = {s.shadow[t].canon}
                                 /\ s.shadow[t].id # {} /\ ~s.shadow[t].verified
    BY <1>7 DEF AssignServed, MayProceed, Target, CanonicalOf
  <2>4. Serve(s, t, handoff, from)
    BY <1>7 DEF AssignServed
  <2> HIDE DEF handoff, from
  <2> QED BY <1>0, <1>2, <1>4, <1>5, <2>1, <2>2, <2>3, <2>4, ServeSettled
<1>8. CASE AssignPromoted(t, s)
  <2>1. PICK m \in s.shadow[t].id : /\ VisibleOwners(s, m, t) = {}
                                    /\ Serve(Promote(s, t, m), t, {m}, CanonicalOf(s, t))
    BY <1>8 DEF AssignPromoted
  <2> DEFINE r == Promote(s, t, m)
             from == CanonicalOf(s, t)
  <2>2. t \in DOMAIN s.shadow /\ s.shadow[t].verified
    BY <1>8 DEF AssignPromoted, IsVerified
  <2>3. m \in 1..s.masters /\ m \in Nat
    BY <1>4, <1>5, <2>2, MemoryFacts DEF Proper, Existing
  <2>4. Proper(r, W) /\ r.visible = s.visible
    BY <1>5, <2>1, <2>3, PromoteGives
  <2>5. Sound(r, {}, {}) /\ Carries(s, r) /\ r.rejected[t] = {} /\ t \notin DOMAIN r.shadow
    BY <1>2, <1>4, <1>5, <2>2, <2>3, PromoteSound DEF Proper
  <2>6. from \in SUBSET Tracks /\ {m} \in SUBSET Nat
    BY <1>4, <2>3, MemoryFacts DEF CanonicalOf, Shadow
  <2>7. Serve(r, t, {m}, from)
    BY <2>1
  <2> HIDE DEF r, from
  <2>8. Due(r, queue, worker) /\ t \in r.visible
    BY <1>4, <2>4, <2>5 DEF Carries
  <2>9. {m} \cap r.rejected[t] = {}
    BY <2>5
  <2> QED BY <1>0, <2>4, <2>5, <2>6, <2>7, <2>8, <2>9, ServeSettled
<1> QED BY <1>3, <1>6, <1>7, <1>8

-----------------------------------------------------------------------------
(* The holds of the coordinator, and the analyst's next task.               *)

\* A wider set of excuses that nobody needs.
LEMMA SoundFewer ==
  ASSUME NEW s, NEW X, NEW Y, Sound(s, X, Y), \A t \in DOMAIN s.intake \cap X : s.intake[t].deferred = {}
  PROVE  Sound(s, {}, Y)
<1>1. Waits(s, {})
  BY DEF Sound, Waits
<1> QED BY <1>1 DEF Sound

LEMMA HoldsSettled ==
  ASSUME mem \in Memory, Settled, NEW pair \in Pairs, HoldPair(pair) \/ ReleasePair(pair)
  PROVE  Settled'
<1>0. /\ mem.holds \in [Tracks -> SUBSET Pairs] /\ Sound(mem, {}, {}) /\ Due(mem, queue, worker)
      /\ queue' = queue /\ worker' = worker
  BY DEF Memory, Settled, HoldPair, ReleasePair
<1>1. ASSUME NEW h \in [Tracks -> SUBSET Pairs]
      PROVE  LET s == [mem EXCEPT !.holds = h]
             IN /\ s \in Memory /\ Carries(mem, s)
                /\ s.visible = mem.visible /\ s.masters = mem.masters /\ s.bound = mem.bound /\ s.shadow = mem.shadow
                /\ s.conflict = mem.conflict /\ s.intake = mem.intake /\ s.holds = h
                /\ s.rejected = mem.rejected /\ s.recovery = mem.recovery /\ s.token = mem.token /\ s.gen = mem.gen
  <2> DEFINE s == [mem EXCEPT !.holds = h]
  <2>1. /\ s \in Memory
        /\ s.visible = mem.visible /\ s.masters = mem.masters /\ s.bound = mem.bound /\ s.shadow = mem.shadow
        /\ s.conflict = mem.conflict /\ s.intake = mem.intake /\ s.holds = h
        /\ s.rejected = mem.rejected /\ s.recovery = mem.recovery /\ s.token = mem.token /\ s.gen = mem.gen
    BY DEF Memory
  <2> HIDE DEF s
  <2>2. Onward(mem, s, {}, {})
    BY <2>1, SteadyOnward
  <2> QED BY <2>1, <2>2, OnwardCarries DEF s
<1>2. CASE HoldPair(pair)
  <2> DEFINE h == [t \in Tracks |-> IF t \in pair \ DOMAIN mem.bound
                                     THEN mem.holds[t] \cup {pair} ELSE mem.holds[t]]
             s == [mem EXCEPT !.holds = h]
  <2>1. h \in [Tracks -> SUBSET Pairs]
    BY <1>0
  <2>2. mem' = s
    BY <1>0, <1>2 DEF HoldPair
  <2>3. \A t \in Tracks : mem.holds[t] \subseteq h[t]
    BY <1>0
  <2> HIDE DEF h
  <2>4. /\ s \in Memory /\ Carries(mem, s)
        /\ s.visible = mem.visible /\ s.masters = mem.masters /\ s.bound = mem.bound /\ s.shadow = mem.shadow
        /\ s.conflict = mem.conflict /\ s.intake = mem.intake /\ s.holds = h
        /\ s.rejected = mem.rejected /\ s.recovery = mem.recovery /\ s.token = mem.token
    BY <1>1, <2>1
  <2> HIDE DEF s
  <2>5. \A t \in DOMAIN mem.intake : \A f : Excused(mem, t, f) => Excused(s, t, f)
    <3>1. \A t \in DOMAIN mem.intake : mem.holds[t] # {} => h[t] # {}
      BY <2>3, MemoryFacts
    <3> QED BY <2>4, <3>1 DEF Excused
  <2>6. Waits(s, {})
    BY <1>0, <2>4, <2>5 DEF Sound, Waits
  <2>7. Bouts(s) /\ Challengers(s) /\ Losses(s) /\ Links(s, {})
    BY <1>0, <2>4 DEF Sound, Bouts, Challengers, Losses, Links
  <2>8. Due(s, queue, worker)
    BY <1>0, <2>4 DEF Carries
  <2> QED BY <1>0, <2>2, <2>6, <2>7, <2>8 DEF Settled, Sound
<1>3. CASE ReleasePair(pair)
  <2> DEFINE h == [t \in Tracks |-> mem.holds[t] \ (IF t \in pair THEN {pair} ELSE {})]
             s == [mem EXCEPT !.holds = h]
             A == {t \in pair \cap Deferred(s, "hold") : s.holds[t] = {}}
             r == Rearm(s, A, "hold")
  <2>1. h \in [Tracks -> SUBSET Pairs]
    BY <1>0
  <2>2. mem' = r
    BY <1>0, <1>3 DEF ReleasePair
  <2>3. \A t \in Tracks \ pair : h[t] = mem.holds[t]
    BY <1>0
  <2> HIDE DEF h
  <2>4. /\ s \in Memory /\ Carries(mem, s)
        /\ s.visible = mem.visible /\ s.masters = mem.masters /\ s.bound = mem.bound /\ s.shadow = mem.shadow
        /\ s.conflict = mem.conflict /\ s.intake = mem.intake /\ s.holds = h
        /\ s.rejected = mem.rejected /\ s.recovery = mem.recovery /\ s.token = mem.token
    BY <1>1, <2>1
  <2> HIDE DEF s
  <2>5. A \subseteq DOMAIN s.intake /\ \A t \in A : "hold" \in s.intake[t].deferred
    BY DEF Deferred
  <2>6. \A t \in DOMAIN s.intake \ A : "hold" \in s.intake[t].deferred /\ mem.holds[t] # {} => h[t] # {}
    <3>1. \A t \in DOMAIN s.intake \ A : "hold" \in s.intake[t].deferred /\ t \in pair => h[t] # {}
      BY <2>4 DEF Deferred
    <3>2. \A t \in DOMAIN s.intake : t \notin pair => h[t] = mem.holds[t]
      BY <2>3, <2>4, MemoryFacts
    <3> QED BY <3>1, <3>2
  <2> HIDE DEF A
  <2>7. Sound(s, A, {})
    <3>1. \A t \in DOMAIN s.intake \ A : \A f \in s.intake[t].deferred : Excused(mem, t, f) => Excused(s, t, f)
      BY <2>4, <2>6 DEF Excused
    <3>2. Waits(s, A)
      <4>1. \A t \in DOMAIN s.intake \ A : \A f \in s.intake[t].deferred : Excused(s, t, f)
        BY <1>0, <2>4, <3>1 DEF Sound, Waits
      <4> QED BY <1>0, <2>4, <4>1 DEF Sound, Waits
    <3>3. Bouts(s) /\ Challengers(s) /\ Losses(s) /\ Links(s, {})
      BY <1>0, <2>4 DEF Sound, Bouts, Challengers, Losses, Links
    <3> QED BY <3>2, <3>3 DEF Sound
  <2>8. /\ r \in Memory /\ Rest(s, r) /\ r.conflict = s.conflict /\ r.recovery = s.recovery
        /\ DOMAIN r.intake = DOMAIN s.intake
        /\ \A t \in DOMAIN s.intake \ A : r.intake[t] = s.intake[t]
        /\ \A t \in DOMAIN s.intake \cap A :
             Armed(s.intake[t], r.intake[t]) /\ r.intake[t].deferred = s.intake[t].deferred \ {"hold"}
    BY <2>4, RearmEffect
  <2>9. Keeps(s, r)
    BY <2>4, RearmKeeps
  <2> HIDE DEF r
  <2>10. \A t \in A : s.intake[t].deferred # {} /\ r.intake[t].deferred = {} /\ Armed(s.intake[t], r.intake[t])
    BY <2>5, <2>7, <2>8 DEF Sound, Waits
  <2>11. \A t \in DOMAIN s.intake : \/ r.intake[t] = s.intake[t]
                                     \/ /\ s.intake[t].deferred # {} /\ r.intake[t].deferred = {}
                                        /\ Armed(s.intake[t], r.intake[t])
    BY <2>8, <2>10
  <2>12. \A t \in DOMAIN s.intake \ A : \A f \in r.intake[t].deferred : Excused(r, t, f)
    BY <2>7, <2>8 DEF Sound, Waits, Excused, Rest
  <2>13. \A m \in DOMAIN r.conflict : \A t \in s.conflict[m].challenger : r.intake[t] = s.intake[t]
    <3> SUFFICES ASSUME NEW m \in DOMAIN r.conflict, NEW t \in s.conflict[m].challenger PROVE t \notin A
      BY <2>7, <2>8 DEF Sound, Challengers
    <3>1. t \in DOMAIN s.intake /\ "contest" \in s.intake[t].deferred
      BY <2>7, <2>8 DEF Sound, Challengers
    <3>2. "hold" \notin s.intake[t].deferred
      <4>1. "hold" # "contest"
        OBVIOUS
      <4> QED BY <2>7, <3>1, <4>1 DEF Sound, Waits
    <3> QED BY <2>5, <3>2
  <2>14. Links(r, {})
    BY <2>7, <2>8 DEF Sound, Links
  <2>15. Sound(r, A, {}) /\ Calm(s, r)
    BY <2>4, <2>7, <2>8, <2>9, <2>11, <2>12, <2>13, <2>14, Lighten
  <2>16. Sound(r, {}, {})
    BY <2>8, <2>10, <2>15, SoundFewer
  <2>17. Due(r, queue, worker)
    BY <1>0, <2>4, <2>15, CalmCarries DEF Carries
  <2> QED BY <1>0, <2>2, <2>16, <2>17 DEF Settled
<1> QED BY <1>2, <1>3

\* The analyst takes a task, or drops one that no intake waits for.
LEMMA TakeSettled ==
  ASSUME mem \in Memory, Tasks, Settled, Take
  PROVE  Settled'
<1> DEFINE h == Head(queue)
           q == Tail(queue)
<1>0. /\ queue \in Seq(Task) /\ queue # << >> /\ worker = << >> /\ mem' = mem /\ queue' = q
      /\ Sound(mem, {}, {}) /\ Due(mem, queue, << >>)
  BY DEF Tasks, Take, Settled
<1>1. /\ q \in Seq(Task) /\ Len(q) = Len(queue) - 1 /\ Len(queue) \in Nat /\ Len(queue) > 0
      /\ \A k \in 1 .. Len(q) : q[k] = queue[k + 1]
      /\ DOMAIN q = 1 .. Len(q) /\ DOMAIN queue = 1 .. Len(queue) /\ h = queue[1]
  BY <1>0, HeadTailProperties, LenProperties, EmptySeq
<1>2. (worker' = << >> /\ h.type = "intake" /\ ~IsCurrent(mem, h.track, h.gen)) \/ worker' = << h >>
  BY DEF Take
<1> HIDE DEF h, q
<1>3. 1 \in DOMAIN queue /\ \A i \in DOMAIN q : i + 1 \in DOMAIN queue /\ i + 1 # 1 /\ q[i] = queue[i + 1]
  BY <1>1
<1>4. \A i \in DOMAIN queue : i = 1 \/ \E j \in DOMAIN q : i = j + 1 /\ q[j] = queue[i]
  <2> SUFFICES ASSUME NEW i \in DOMAIN queue, i # 1 PROVE i - 1 \in DOMAIN q /\ i = (i - 1) + 1
    BY <1>3
  <2> QED BY <1>1
<1>5. \A i, j \in DOMAIN q : i # j => i + 1 # j + 1
  BY <1>1
<1> DEFINE Q == {queue[i] : i \in DOMAIN queue}
<1>6. Q = {q[i] : i \in DOMAIN q} \cup {h}
  BY <1>1, <1>3, <1>4
<1>7. DOMAIN << >> = {} /\ DOMAIN << h >> = {1} /\ << h >>[1] = h
  OBVIOUS
<1>8. Under(queue, << >>) = Q /\ Under(q, << h >>) = Q /\ Under(q, << >>) \cup {h} = Q
  BY <1>6, <1>7 DEF Under
<1> HIDE DEF Q
<1>9. Apart(mem, q, << >>) /\ Apart(mem, q, << h >>)
  <2>1. \A i, j \in DOMAIN q : i # j /\ Live(mem, q[i]) /\ Live(mem, q[j]) => ~Same(q[i], q[j])
    BY <1>0, <1>3, <1>5 DEF Due, Apart
  <2>2. \A i \in DOMAIN q : Live(mem, q[i]) /\ Live(mem, h) => ~Same(q[i], h)
    BY <1>0, <1>1, <1>3 DEF Due, Apart
  <2> QED BY <1>7, <2>1, <2>2 DEF Apart
<1>10. CASE worker' = << h >>
  <2>1. Due(mem, q, << h >>)
    BY <1>0, <1>8, <1>9 DEF Due
  <2> QED BY <1>0, <1>10, <2>1 DEF Settled
<1>11. CASE worker' = << >> /\ h.type = "intake" /\ ~IsCurrent(mem, h.track, h.gen)
  <2>1. Owed(mem, Under(q, << >>))
    <3> SUFFICES ASSUME NEW t \in DOMAIN mem.intake, Waiting(mem, t)
                 PROVE  \E x \in Under(q, << >>) : x.type = "intake" /\ x.track = t /\ x.gen = mem.intake[t].gen
      BY DEF Owed
    <3>1. PICK x \in Q : x.type = "intake" /\ x.track = t /\ x.gen = mem.intake[t].gen
      BY <1>0, <1>8 DEF Due, Owed
    <3>2. t \in mem.visible /\ mem.intake[t].submitted
      BY <1>0 DEF Sound, Waits, Waiting
    <3>3. x # h
      BY <1>11, <3>1, <3>2 DEF IsCurrent
    <3> QED BY <1>8, <3>1, <3>3
  <2>2. Due(mem, q, << >>)
    BY <1>0, <1>8, <1>9, <2>1 DEF Due
  <2> QED BY <1>0, <1>11, <2>2 DEF Settled
<1> QED BY <1>2, <1>10, <1>11

\* A burst that failed or needs a second one is collected again.
LEMMA RepeatSound ==
  ASSUME NEW s \in Memory, Sound(s, {}, {}), NEW t \in DOMAIN s.intake, s.intake[t].deferred = {},
         NEW r \in Memory,
         r.visible = s.visible, r.masters = s.masters, r.bound = s.bound, r.shadow = s.shadow,
         r.conflict = s.conflict, r.holds = s.holds, r.rejected = s.rejected, r.recovery = s.recovery,
         r.token = s.token, r.gen = NextGen(s, t), r.intake = NextIntake(s, t)
  PROVE  Sound(r, {}, {}) /\ Onward(s, r, {}, {}) /\ t \in DOMAIN r.intake /\ ~r.intake[t].submitted
<1> DEFINE f == NextIntake(s, t)
           k == s.gen[t] + 1
<1>0. /\ s.gen \in [Tracks -> Nat] /\ t \in Tracks /\ s.intake[t] \in Intake
      /\ DOMAIN s.intake \subseteq Tracks
  BY MemoryFacts
<1>1. k \in Nat /\ k > s.gen[t]
  BY <1>0
<1> HIDE DEF k
<1>2. f[t] = [s.intake[t] EXCEPT !.submitted = FALSE, !.gen = k]
  BY DEF k, NextIntake
<1>3. DOMAIN f = DOMAIN s.intake /\ \A u \in DOMAIN s.intake \ {t} : f[u] = s.intake[u]
  BY DEF NextIntake
<1> HIDE DEF f
<1>4. ~f[t].submitted /\ f[t].gen = k /\ f[t].deferred = {} /\ f[t].handoff = s.intake[t].handoff /\ f[t].from = s.intake[t].from
  BY <1>0, <1>1, <1>2 DEF Intake
<1>5. \A u \in Tracks : s.gen[u] <= r.gen[u]
  <2>1. \A u \in Tracks : NextGen(s, t)[u] = IF u = t THEN s.gen[u] + 1 ELSE s.gen[u]
    BY <1>0 DEF NextGen
  <2> HIDE DEF NextGen
  <2> QED BY <1>0, <2>1
<1>6. r.intake = f
  BY DEF f
<1>7. Bouts(r) /\ Losses(r) /\ Links(r, {})
  BY DEF Sound, Bouts, Losses, Links
<1>8. \A m \in DOMAIN s.conflict : t \notin s.conflict[m].challenger
  BY DEF Sound, Challengers
<1>9. Challengers(r)
  BY <1>3, <1>6, <1>8 DEF Sound, Challengers
<1>10. Waits(r, {})
  <2> SUFFICES ASSUME NEW u \in DOMAIN r.intake
               PROVE  /\ u \in r.visible
                      /\ r.intake[u].deferred # {} => r.intake[u].submitted
                      /\ \A g, h \in r.intake[u].deferred : g = h
                      /\ \A g \in r.intake[u].deferred : Excused(r, u, g)
                      /\ r.intake[u].handoff \cap r.rejected[u] = {}
                      /\ u \in DOMAIN r.shadow =>
                           /\ r.intake[u].handoff = r.shadow[u].id /\ r.intake[u].from = {r.shadow[u].canon}
                           /\ r.shadow[u].id # {} /\ ~r.shadow[u].verified
    BY DEF Waits
  <2>1. u \in DOMAIN s.intake
    BY <1>3, <1>6
  <2>2. CASE u = t
    BY <1>4, <1>6, <2>1, <2>2 DEF Sound, Waits
  <2>3. CASE u # t
    <3>1. r.intake[u] = s.intake[u] /\ \A g : Excused(s, u, g) => Excused(r, u, g)
      BY <1>3, <1>6, <2>1, <2>3 DEF Excused
    <3> QED BY <2>1, <3>1 DEF Sound, Waits
  <2> QED BY <2>2, <2>3
<1>11. Onward(s, r, {}, {})
  <2>1. s.token \in Nat
    BY MemoryFacts
  <2> QED BY <1>1, <1>3, <1>4, <1>5, <1>6, <2>1 DEF Onward
<1> QED BY <1>3, <1>4, <1>6, <1>7, <1>9, <1>10, <1>11 DEF Sound

\* The verdict of a contest has to be asked for again.
LEMMA ResubmitSound ==
  ASSUME NEW s \in Memory, Sound(s, {}, {}), NEW m \in DOMAIN s.conflict
  PROVE  LET r == Resubmittable(s, m)
         IN r \in Memory /\ Sound(r, {}, {}) /\ Onward(s, r, {}, {m})
<1> DEFINE c == [s.conflict[m] EXCEPT !.submitted = FALSE, !.ready = s.conflict[m].challenger]
           h == [s.conflict EXCEPT ![m] = c]
           r == Resubmittable(s, m)
<1>1. s.conflict[m] \in Conflict /\ m \in Nat
  BY MemoryFacts
<1>2. /\ ~c.submitted /\ c.token = s.conflict[m].token /\ c.cands = s.conflict[m].cands
      /\ c.challenger = s.conflict[m].challenger /\ c.ready = c.challenger /\ c.gen = s.conflict[m].gen
  BY <1>1 DEF Conflict
<1>3. r = [s EXCEPT !.conflict = h]
  BY <1>1 DEF Resubmittable, Memory, Conflict
<1>4. r \in Memory
  BY ResubmitKeeps DEF Keeps
<1>5. h[m] = c /\ DOMAIN h = DOMAIN s.conflict /\ \A n \in DOMAIN s.conflict \ {m} : h[n] = s.conflict[n]
  OBVIOUS
<1> HIDE DEF c, h
<1>6. /\ r.masters = s.masters /\ r.visible = s.visible /\ r.bound = s.bound /\ r.shadow = s.shadow
      /\ r.conflict = h /\ r.intake = s.intake /\ r.gen = s.gen /\ r.holds = s.holds
      /\ r.rejected = s.rejected /\ r.recovery = s.recovery /\ r.token = s.token
  BY <1>3 DEF Memory
<1> HIDE DEF r
<1>7. Bouts(r)
  <2> SUFFICES ASSUME NEW n \in DOMAIN r.conflict
               PROVE  LET k == r.conflict[n]
                      IN /\ n <= r.masters /\ k.token <= r.token
                         /\ \E u, v \in Tracks : u # v /\ k.cands = {u, v}
                         /\ k.challenger \subseteq k.ready /\ k.ready \subseteq k.cands
                         /\ k.ready \subseteq r.visible
                         /\ k.submitted => k.ready = k.cands
                         /\ \A u \in k.cands \ k.challenger : u \in DOMAIN r.bound /\ r.bound[u] = n
    BY DEF Bouts
  <2>1. CASE n = m
    <3>1. s.conflict[m].challenger \subseteq s.conflict[m].ready
      BY DEF Sound, Bouts
    <3> QED BY <1>2, <1>5, <1>6, <2>1, <3>1 DEF Sound, Bouts
  <2>2. CASE n # m
    BY <1>5, <1>6, <2>2 DEF Sound, Bouts
  <2> QED BY <2>1, <2>2
<1>8. /\ DOMAIN r.conflict = DOMAIN s.conflict
      /\ \A n \in DOMAIN s.conflict : /\ r.conflict[n].challenger = s.conflict[n].challenger
                                      /\ r.conflict[n].gen = s.conflict[n].gen
                                      /\ r.conflict[n].token = s.conflict[n].token
  BY <1>2, <1>5, <1>6
<1>9. Challengers(r) /\ Waits(r, {}) /\ Losses(r) /\ Links(r, {})
  BY <1>6, <1>8 DEF Sound, Challengers, Waits, Losses, Links, Excused
<1>10. Onward(s, r, {}, {m})
  <2>1. s.token \in Nat /\ s.gen \in [Tracks -> Nat] /\ \A n \in DOMAIN s.conflict \ {m} : r.conflict[n] = s.conflict[n]
    BY <1>5, <1>6, MemoryFacts
  <2> QED BY <1>6, <1>8, <2>1 DEF Onward
<1> QED BY <1>4, <1>7, <1>9, <1>10 DEF Sound, r

\* The analyst has one task at most.
Alone == worker = << >> \/ worker = << worker[1] >>

\* The task in hand, and what is due with it.
LEMMA HandFacts ==
  ASSUME mem \in Memory, Settled, Alone, worker # << >>
  PROVE  /\ worker[1] \in Task /\ Fitting(mem, worker[1]) /\ Due(mem, queue, << worker[1] >>)
         /\ worker[1].type = "intake" =>
              /\ worker[1] \in IntakeTask /\ worker[1].track \in Tracks /\ worker[1].gen \in Nat
              /\ worker[1].gen <= mem.gen[worker[1].track] /\ mem.gen[worker[1].track] \in Nat
<1> DEFINE x == worker[1]
<1>1. Due(mem, queue, << x >>)
  BY DEF Settled, Alone
<1>2. x \in Under(queue, << x >>)
  BY DEF Under
<1> HIDE DEF x
<1>3. x \in Task /\ Fitting(mem, x)
  BY <1>1, <1>2 DEF Due
<1>4. ASSUME x.type = "intake"
      PROVE  x \in IntakeTask /\ x.track \in Tracks /\ x.gen \in Nat /\ x.gen <= mem.gen[x.track] /\ mem.gen[x.track] \in Nat
  <2>1. x \in IntakeTask
    BY <1>3, <1>4 DEF Task, ConflictTask
  <2> QED BY <1>3, <1>4, <2>1, MemoryFacts DEF IntakeTask, Fitting
<1> QED BY <1>1, <1>3, <1>4 DEF x

\* Nothing happens: the task was for something that has gone.
LEMMA IdleSettled ==
  ASSUME mem \in Memory, Settled, Alone, worker # << >>,
         mem' = mem, queue' = queue, worker' = << >>,
         worker[1].type = "intake" /\ Live(mem, worker[1]) => ~Waiting(mem, worker[1].track)
  PROVE  Settled'
<1>1. Due(mem, queue, << worker[1] >>)
  BY HandFacts
<1>2. Onward(mem, mem, {}, {})
  BY CalmSelf, CalmOnward
<1>3. Due(mem, queue, << >>)
  BY <1>1, <1>2, DueDone
<1> QED BY <1>3 DEF Settled

LEMMA FailSettled ==
  ASSUME mem \in Memory, Settled, Alone, Fail
  PROVE  Settled'
<1> DEFINE x == worker[1]
<1>0. /\ x \in Task /\ Fitting(mem, x) /\ Due(mem, queue, << x >>) /\ Sound(mem, {}, {})
      /\ worker # << >> /\ queue' = queue /\ worker' = << >>
  BY HandFacts DEF Fail, Settled
<1>1. \/ /\ x.type = "intake"
         /\ mem' = IF x.track \in DOMAIN mem.intake /\ mem.intake[x.track].gen = x.gen
                     THEN [mem EXCEPT !.gen[x.track] = @ + 1,
                                      !.intake[x.track].submitted = FALSE,
                                      !.intake[x.track].gen = mem.gen[x.track] + 1]
                     ELSE mem
      \/ /\ x.type = "physical_conflict"
         /\ mem' = IF x.master \in DOMAIN mem.conflict /\ mem.conflict[x.master].token = x.token
                     THEN Resubmittable(mem, x.master)
                     ELSE mem
  BY DEF Fail
<1>2. CASE mem' = mem /\ ~Live(mem, x)
  BY <1>0, <1>2, IdleSettled
<1>3. CASE /\ x.type = "intake" /\ Live(mem, x)
           /\ mem' = [mem EXCEPT !.gen[x.track] = @ + 1,
                                 !.intake[x.track].submitted = FALSE,
                                 !.intake[x.track].gen = mem.gen[x.track] + 1]
  <2> DEFINE t == x.track
             g == NextGen(mem, t)
             f == NextIntake(mem, t)
             r == [mem EXCEPT !.gen = g, !.intake = f]
  <2>1. t \in DOMAIN mem.intake /\ mem.intake[t].deferred = {}
    BY <1>0, <1>3 DEF Live, Fitting
  <2>2. mem' = r
    BY <1>3 DEF Memory, NextGen, NextIntake
  <2>3. g \in [Tracks -> Nat] /\ f \in Dict(Tracks, Intake)
    BY <2>1, RepeatMemory
  <2> HIDE DEF t, g, f
  <2>4. /\ r \in Memory /\ r.visible = mem.visible /\ r.masters = mem.masters /\ r.bound = mem.bound
        /\ r.shadow = mem.shadow /\ r.conflict = mem.conflict /\ r.holds = mem.holds
        /\ r.rejected = mem.rejected /\ r.recovery = mem.recovery /\ r.token = mem.token
        /\ r.gen = g /\ r.intake = f
    BY <2>3 DEF Memory
  <2> HIDE DEF r
  <2>5. Sound(r, {}, {}) /\ Onward(mem, r, {}, {}) /\ t \in DOMAIN r.intake /\ ~r.intake[t].submitted
    BY <1>0, <2>1, <2>4, RepeatSound DEF g, f
  <2>6. Due(r, queue, << >>)
    <3>1. ~Waiting(r, x.track)
      BY <2>5 DEF Waiting, t
    <3> HIDE DEF x
    <3> QED BY <1>0, <2>4, <2>5, <3>1, DueDone
  <2> QED BY <1>0, <2>2, <2>5, <2>6 DEF Settled
<1>4. CASE x.type = "physical_conflict" /\ Live(mem, x) /\ mem' = Resubmittable(mem, x.master)
  <2> DEFINE m == x.master
             r == Resubmittable(mem, m)
  <2>1. m \in DOMAIN mem.conflict /\ x.type # "intake"
    BY <1>4 DEF Live
  <2>2. r \in Memory /\ Sound(r, {}, {}) /\ Onward(mem, r, {}, {m})
    BY <1>0, <2>1, ResubmitSound
  <2>3. mem' = r
    BY <1>4
  <2> HIDE DEF r
  <2>4. Due(r, queue, << >>)
    <3>1. x.master = m /\ Live(mem, x)
      BY <1>4
    <3> HIDE DEF x, m
    <3> QED BY <1>0, <2>1, <2>2, <3>1, DueDone
  <2> QED BY <1>0, <2>2, <2>3, <2>4 DEF Settled
<1>5. x.type = "physical_conflict" => x.type # "intake"
  OBVIOUS
<1> QED BY <1>1, <1>2, <1>3, <1>4, <1>5 DEF Live

-----------------------------------------------------------------------------
(* What the analyst makes of a burst.                                       *)

\* The task in hand is the live burst of t, whose intake waits for nothing else.
InHand(s, x, t) ==
  /\ x.type = "intake" /\ x.track = t /\ t \in DOMAIN s.intake
  /\ s.intake[t].gen = x.gen /\ s.intake[t].submitted /\ s.intake[t].deferred = {}
  /\ s.intake[t].handoff = x.handoff /\ s.rejected[t] \subseteq x.excluded
  /\ t \in s.visible

LEMMA InHandOn ==
  ASSUME NEW s \in Memory, NEW r, Calm(s, r), NEW x, NEW t \in Tracks, InHand(s, x, t), t \in DOMAIN r.intake
  PROVE  InHand(r, x, t)
<1>1. r.intake[t] = s.intake[t] /\ r.rejected[t] \subseteq s.rejected[t] /\ r.visible = s.visible
  BY DEF Calm, Keeps, InHand
<1> QED BY <1>1 DEF InHand

\* A burst nobody waits for is discarded.
LEMMA DiscardSettled ==
  ASSUME mem \in Memory, Settled, Alone, worker # << >>, worker[1].type = "intake",
         Discard(worker[1]), queue' = queue, worker' = << >>
  PROVE  Settled'
<1> DEFINE x == worker[1]
           t == x.track
<1>0. x.type = "intake" /\ Fitting(mem, x) /\ Sound(mem, {}, {}) /\ mem' = mem
      /\ (~IsCurrent(mem, t, x.gen) \/ HandoffGone(mem, x))
  BY HandFacts DEF Settled, Discard
<1>1. ASSUME Live(mem, x)
      PROVE  ~Waiting(mem, t)
  <2>1. /\ t \in DOMAIN mem.intake /\ mem.intake[t].gen = x.gen /\ mem.intake[t].submitted
        /\ mem.intake[t].handoff = x.handoff /\ mem.intake[t].from = x.from
    BY <1>0, <1>1 DEF Fitting, Live
  <2>2. t \in mem.visible
    BY <1>0, <2>1 DEF Sound, Waits
  <2>3. HandoffGone(mem, x)
    BY <1>0, <2>1, <2>2 DEF IsCurrent
  <2>4. t \notin DOMAIN mem.shadow
    BY <1>0, <2>1, <2>3 DEF Sound, Waits, HandoffGone
  <2> QED BY <2>1, <2>3, <2>4 DEF Waiting, HandoffGone
<1> QED BY <1>0, <1>1, IdleSettled

\* The shadow entry of the track goes once its master is ruled out.
LEMMA VetoSound ==
  ASSUME mem \in Memory, Sound(mem, {}, {}), NEW task
  PROVE  /\ Sound(AfterVeto(task), {}, {}) /\ Calm(mem, AfterVeto(task))
         /\ task.handoff # {} => task.track \notin DOMAIN AfterVeto(task).shadow
         /\ AfterVeto(task).bound = mem.bound /\ AfterVeto(task).intake = mem.intake
         /\ AfterVeto(task).conflict = mem.conflict /\ AfterVeto(task).rejected = mem.rejected
         /\ AfterVeto(task).holds = mem.holds /\ AfterVeto(task).recovery = mem.recovery
         /\ DOMAIN AfterVeto(task).shadow \subseteq DOMAIN mem.shadow
<1> DEFINE r == AfterVeto(task)
           f == Without(mem.shadow, {task.track})
<1>1. Keeps(mem, r) /\ r.bound = mem.bound /\ r.intake = mem.intake
  BY VetoKeeps
<1>2. /\ r.token = mem.token /\ r.conflict = mem.conflict /\ r.recovery = mem.recovery
      /\ r.rejected = mem.rejected /\ r.holds = mem.holds
      /\ r.shadow = IF task.handoff = {} THEN mem.shadow ELSE f
  BY DEF AfterVeto, Memory
<1>3. DOMAIN f = DOMAIN mem.shadow \ {task.track} /\ \A u \in DOMAIN f : f[u] = mem.shadow[u]
  BY WithoutFacts, Zenon
<1> HIDE DEF r, f
<1>4. Sound(mem, {} \cup {}, {})
  BY SoundMore
<1>5. DOMAIN r.shadow \subseteq DOMAIN mem.shadow /\ \A u \in DOMAIN r.shadow : r.shadow[u] = mem.shadow[u]
  BY <1>2, <1>3
<1>6. Sound(r, {}, {}) /\ Calm(mem, r)
  <2> DEFINE T == {}
  <2>1. /\ Sound(mem, {} \cup T, {})
        /\ DOMAIN r.intake = DOMAIN mem.intake \ T
        /\ \A t \in DOMAIN r.intake : r.intake[t] = mem.intake[t]
        /\ \A t \in DOMAIN r.intake : r.holds[t] = mem.holds[t]
        /\ \A t \in DOMAIN r.intake \cap DOMAIN r.shadow : r.shadow[t] = mem.shadow[t]
        /\ \A m \in DOMAIN mem.conflict : mem.conflict[m].challenger \cap T = {}
        /\ \A m \in DOMAIN mem.conflict : \A t \in mem.conflict[m].cands : t \in DOMAIN mem.bound => t \in DOMAIN r.bound
    BY <1>1, <1>2, <1>4, <1>5
  <2>2. /\ mem \in Memory /\ Keeps(mem, r) /\ r.token = mem.token /\ r.conflict = mem.conflict
        /\ r.recovery = mem.recovery /\ r.rejected = mem.rejected
    BY <1>1, <1>2
  <2> HIDE DEF T
  <2> QED BY <2>1, <2>2, Forget
<1> QED BY <1>1, <1>2, <1>3, <1>5, <1>6 DEF r

\* The duplicate's own burst is over.
LEMMA VerifySettled ==
  ASSUME NEW W, Proper(mem, W), Settled, Alone, worker # << >>, NEW t \in Tracks, InHand(mem, worker[1], t),
         t \in DOMAIN mem.shadow, worker[1].handoff \subseteq 1..mem.masters,
         NEW look, VerifyDuplicate(worker[1], look), queue' = queue, worker' = << >>
  PROVE  Settled'
<1> DEFINE x == worker[1]
<1>0. /\ mem \in Memory /\ Sound(mem, {}, {}) /\ Due(mem, queue, << x >>)
      /\ x.track = t /\ VerifyDuplicate(x, look)
  BY HandFacts DEF Proper, Settled, InHand
<1> HIDE DEF x
<1>1. PICK e : mem' = DropIntakes([mem EXCEPT !.shadow[t] = e], {t})
  BY <1>0 DEF VerifyDuplicate
<1> DEFINE f == [mem.shadow EXCEPT ![t] = e]
           s == [mem EXCEPT !.shadow = f]
           T0 == {t} \cap DOMAIN mem.intake
           g == Without(mem.intake, T0)
<1>2. \A u \in DOMAIN f \ {t} : f[u] = mem.shadow[u]
  OBVIOUS
<1>3. mem' = DropIntakes(s, {t})
  BY <1>0, <1>1 DEF Memory
<1>4. DOMAIN g = DOMAIN mem.intake \ {t} /\ \A u \in DOMAIN g : g[u] = mem.intake[u]
  <2> HIDE DEF T0
  <2>1. DOMAIN g = DOMAIN mem.intake \ T0 /\ \A u \in DOMAIN g : g[u] = mem.intake[u]
    BY WithoutFacts, Zenon
  <2>2. DOMAIN mem.intake \ T0 = DOMAIN mem.intake \ {t}
    BY DEF T0
  <2> QED BY <2>1, <2>2
<1> HIDE DEF f
<1>5. s.intake = mem.intake
  BY <1>0 DEF Memory
<1>6. /\ mem'.token = mem.token /\ mem'.conflict = mem.conflict /\ mem'.recovery = mem.recovery
      /\ mem'.rejected = mem.rejected /\ mem'.holds = mem.holds /\ mem'.bound = mem.bound
      /\ mem'.shadow = f /\ mem'.intake = g
  BY <1>0, <1>3, <1>5 DEF Memory, DropIntakes
<1>7. Keeps(mem, mem')
  BY <1>0, VerifyKeeps DEF x
<1> HIDE DEF g
<1>8. Sound(mem, {} \cup {t}, {})
  BY <1>0, SoundMore
<1>9. \A m \in DOMAIN mem.conflict : mem.conflict[m].challenger \cap {t} = {}
  BY <1>0 DEF Sound, Challengers, InHand
<1>10. \A u \in DOMAIN mem'.intake \cap DOMAIN mem'.shadow : mem'.shadow[u] = mem.shadow[u]
  BY <1>2, <1>4, <1>6
<1> DEFINE r == mem'
<1>11. /\ r.token = mem.token /\ r.conflict = mem.conflict /\ r.recovery = mem.recovery /\ r.rejected = mem.rejected
       /\ DOMAIN r.intake = DOMAIN mem.intake \ {t} /\ (\A u \in DOMAIN r.intake : r.intake[u] = mem.intake[u])
       /\ (\A u \in DOMAIN r.intake : r.holds[u] = mem.holds[u])
       /\ (\A u \in DOMAIN r.intake \cap DOMAIN r.shadow : r.shadow[u] = mem.shadow[u])
       /\ (\A m \in DOMAIN mem.conflict : \A u \in mem.conflict[m].cands : u \in DOMAIN mem.bound => u \in DOMAIN r.bound)
       /\ Keeps(mem, r) /\ r = mem'
  BY <1>4, <1>6, <1>7, <1>10
<1> HIDE DEF r
<1>12. Sound(r, {}, {}) /\ Calm(mem, r)
  <2> DEFINE T == {t}
  <2>1. /\ Sound(mem, {} \cup T, {})
        /\ DOMAIN r.intake = DOMAIN mem.intake \ T
        /\ \A u \in DOMAIN r.intake : r.intake[u] = mem.intake[u]
        /\ \A u \in DOMAIN r.intake : r.holds[u] = mem.holds[u]
        /\ \A u \in DOMAIN r.intake \cap DOMAIN r.shadow : r.shadow[u] = mem.shadow[u]
        /\ \A m \in DOMAIN mem.conflict : mem.conflict[m].challenger \cap T = {}
        /\ \A m \in DOMAIN mem.conflict : \A u \in mem.conflict[m].cands : u \in DOMAIN mem.bound => u \in DOMAIN r.bound
    BY <1>8, <1>9, <1>11
  <2> HIDE DEF T
  <2> QED BY <1>0, <1>11, <2>1, Forget
<1>13. Due(r, queue, << >>)
  <2>1. ~Live(r, x)
    BY <1>0, <1>11 DEF Live, InHand, x
  <2>2. r \in Memory /\ Onward(mem, r, {}, {})
    BY <1>0, <1>12, CalmOnward DEF Calm, Keeps
  <2> QED BY <1>0, <2>1, <2>2, DueDone
<1> QED BY <1>11, <1>12, <1>13 DEF Settled

\* The burst ends with the track bound.
LEMMA BindSound ==
  ASSUME NEW s \in Memory, Sound(s, {}, {}), NEW t \in DOMAIN s.intake, s.intake[t].deferred = {},
         t \notin DOMAIN s.bound, NEW m \in Nat
  PROVE  LET r == Bind(s, t, m)
         IN r \in Memory /\ Sound(r, {}, {}) /\ Onward(s, r, {}, {}) /\ t \notin DOMAIN r.intake
<1> DEFINE s1 == DropRecovery(s, {t})
           f == [s.rejected EXCEPT ![t] = {}]
           r == Bind(s, t, m)
<1>0. t \in Tracks /\ s.rejected \in [Tracks -> SUBSET Nat]
  BY MemoryFacts
<1>1. s1 \in Memory
  BY DropRecoveryKeeps DEF Keeps
<1>2. /\ s1.masters = s.masters /\ s1.gen = s.gen /\ s1.conflict = s.conflict /\ s1.bound = s.bound
      /\ s1.intake = s.intake /\ s1.shadow = s.shadow /\ s1.tentative = s.tentative /\ s1.visible = s.visible
      /\ s1.holds = s.holds /\ s1.token = s.token /\ s1.rejected = s.rejected
      /\ s1.recovery = Without(s.recovery, {t})
  BY DEF DropRecovery, Memory
<1>3. /\ Set(s.bound, t, m) \in Dict(Tracks, Nat)
      /\ Without(s.tentative, {t}) \in Dict(Tracks, Nat)
      /\ Without(s.intake, {t}) \in Dict(Tracks, Intake)
      /\ Without(s.shadow, {t}) \in Dict(Tracks, Shadow)
  BY <1>0, SetMemory, PopFacts
<1>4. f \in [Tracks -> SUBSET Nat] /\ f[t] = {} /\ \A u \in Tracks \ {t} : f[u] = s.rejected[u]
  BY <1>0
<1>5. r = [s1 EXCEPT !.bound = Set(@, t, m), !.rejected[t] = {}, !.tentative = Without(@, {t}),
                     !.intake = Without(@, {t}), !.shadow = Without(@, {t})]
  BY DEF Bind
<1> HIDE DEF s1
<1>6. r = [s1 EXCEPT !.bound = Set(@, t, m), !.rejected = f, !.tentative = Without(@, {t}),
                     !.intake = Without(@, {t}), !.shadow = Without(@, {t})]
  BY <1>1, <1>2, <1>5 DEF Memory
<1> HIDE DEF f, r
<1>7. r \in Memory
  BY <1>1, <1>2, <1>3, <1>4, <1>6 DEF Memory
<1>8. /\ r.visible = s.visible /\ r.masters = s.masters /\ r.gen = s.gen /\ r.holds = s.holds
      /\ r.conflict = s.conflict /\ r.token = s.token
      /\ r.bound = Set(s.bound, t, m) /\ r.intake = Without(s.intake, {t}) /\ r.shadow = Without(s.shadow, {t})
      /\ r.rejected = f /\ r.recovery = Without(s.recovery, {t})
  BY <1>1, <1>2, <1>6 DEF Memory
<1>9. Gives(s, r, t, m)
  BY <1>4, <1>8 DEF Gives
<1>10. \A n \in DOMAIN s.conflict : t \notin s.conflict[n].challenger
  BY DEF Sound, Challengers
<1>11. Sound(r, {}, {}) /\ Onward(s, r, {}, {})
  BY <1>0, <1>7, <1>9, <1>10, GivenSound
<1>12. t \notin DOMAIN r.intake
  BY <1>9, GivesFacts
<1> QED BY <1>7, <1>11, <1>12 DEF r

LEMMA BindSettled ==
  ASSUME NEW s \in Memory, Sound(s, {}, {}), NEW x, Due(s, queue, << x >>), NEW t \in Tracks, InHand(s, x, t),
         t \notin DOMAIN s.bound, NEW m \in Nat, mem' = Bind(s, t, m), queue' = queue, worker' = << >>
  PROVE  Settled'
<1> DEFINE r == Bind(s, t, m)
<1>1. r \in Memory /\ Sound(r, {}, {}) /\ Onward(s, r, {}, {}) /\ t \notin DOMAIN r.intake
  BY BindSound DEF InHand
<1> HIDE DEF r
<1>2. ~Live(r, x)
  BY <1>1 DEF Live, InHand
<1>3. Due(r, queue, << >>)
  BY <1>1, <1>2, DueDone
<1>4. mem' = r
  BY DEF r
<1> QED BY <1>1, <1>3, <1>4 DEF Settled

LEMMA RetrySettled ==
  ASSUME NEW s \in Memory, Sound(s, {}, {}), NEW x, Due(s, queue, << x >>), NEW t \in Tracks, InHand(s, x, t),
         NEW m \in Nat, mem' = Retry(s, t, m), queue' = queue, worker' = << >>
  PROVE  Settled'
<1> DEFINE g == NextGen(s, t)
           f == NextIntake(s, t)
           h == Set(s.tentative, t, m)
           r == Retry(s, t, m)
<1>0. t \in DOMAIN s.intake /\ s.intake[t].deferred = {} /\ x.type = "intake" /\ x.track = t
  BY DEF InHand
<1>1. g \in [Tracks -> Nat] /\ f \in Dict(Tracks, Intake)
  BY <1>0, RepeatMemory
<1>2. h \in Dict(Tracks, Nat)
  BY SetMemory
<1>3. r = [s EXCEPT !.tentative = h, !.gen = g, !.intake = f]
  BY DEF Memory, NextGen, NextIntake, Retry
<1> HIDE DEF g, f, h, r
<1>4. /\ r \in Memory /\ r.visible = s.visible /\ r.masters = s.masters /\ r.bound = s.bound
      /\ r.shadow = s.shadow /\ r.conflict = s.conflict /\ r.holds = s.holds
      /\ r.rejected = s.rejected /\ r.recovery = s.recovery /\ r.token = s.token
      /\ r.gen = g /\ r.intake = f
  BY <1>1, <1>2, <1>3 DEF Memory
<1>5. Sound(r, {}, {}) /\ Onward(s, r, {}, {}) /\ t \in DOMAIN r.intake /\ ~r.intake[t].submitted
  BY <1>0, <1>4, RepeatSound DEF g, f
<1>6. ~Waiting(r, x.track)
  BY <1>0, <1>5 DEF Waiting
<1>7. Due(r, queue, << >>)
  BY <1>4, <1>5, <1>6, DueDone
<1>8. mem' = r
  BY DEF r
<1> QED BY <1>5, <1>7, <1>8 DEF Settled

LEMMA MatchSettled ==
  ASSUME NEW s \in Memory, Roles(s), Sound(s, {}, {}), NEW x, Due(s, queue, << x >>), NEW t \in Tracks, InHand(s, x, t),
         NEW m \in Nat, NEW look, Match(s, t, m, look), queue' = queue, worker' = << >>
  PROVE  Settled'
<1> DEFINE s1 == ClearNonvisibleOwners(s, m, t)
<1>1. Sound(s1, {}, {}) /\ Calm(s, s1)
  BY RetireSound
<1>2. t \in DOMAIN s1.intake
  BY ClearNonvisibleKeeps DEF InHand
<1>3. mem' = Bind(s1, t, m) \/ mem' = Retry(s1, t, m)
  BY DEF Match
<1> HIDE DEF s1
<1>4. s1 \in Memory /\ Due(s1, queue, << x >>)
  BY <1>1, CalmCarries DEF Carries
<1>5. InHand(s1, x, t)
  BY <1>1, <1>2, InHandOn
<1>6. t \notin DOMAIN s1.bound
  BY <1>1 DEF Calm, Keeps, Roles, InHand
<1> QED BY <1>1, <1>3, <1>4, <1>5, <1>6, BindSettled, RetrySettled

\* An intake is put off.
LEMMA DeferEffect ==
  ASSUME NEW s \in Memory, NEW t \in DOMAIN s.intake, NEW flag \in {"hold", "recovery", "contest"}
  PROVE  LET r == Defer(s, t, flag)
         IN /\ r \in Memory /\ Rest(s, r) /\ r.conflict = s.conflict /\ r.recovery = s.recovery
            /\ DOMAIN r.intake = DOMAIN s.intake
            /\ \A u \in DOMAIN s.intake \ {t} : r.intake[u] = s.intake[u]
            /\ r.intake[t].gen = s.intake[t].gen /\ r.intake[t].submitted = s.intake[t].submitted
            /\ r.intake[t].handoff = s.intake[t].handoff /\ r.intake[t].from = s.intake[t].from
            /\ r.intake[t].deferred = s.intake[t].deferred \cup {flag}
<1> DEFINE f == [s.intake EXCEPT ![t].deferred = @ \cup {flag}]
           x == s.intake[t]
           D == x.deferred \cup {flag}
           r == Defer(s, t, flag)
<1>1. r \in Memory
  BY DeferKeeps DEF Keeps
<1>2. DOMAIN f = DOMAIN s.intake /\ \A u \in DOMAIN s.intake \ {t} : f[u] = s.intake[u]
  OBVIOUS
<1>3. f[t] = [x EXCEPT !.deferred = D] /\ x \in Intake
  BY MemoryFacts
<1> HIDE DEF x, D
<1>4. /\ f[t].gen = x.gen /\ f[t].submitted = x.submitted /\ f[t].handoff = x.handoff
      /\ f[t].from = x.from /\ f[t].deferred = D
  BY <1>3 DEF Intake
<1>5. r = [s EXCEPT !.intake = f]
  BY DEF Defer, Memory
<1> HIDE DEF f
<1>6. Rest(s, r) /\ r.conflict = s.conflict /\ r.recovery = s.recovery /\ r.intake = f
  BY <1>5 DEF Memory, Rest
<1> HIDE DEF r
<1> QED BY <1>1, <1>2, <1>4, <1>6 DEF r, x, D

\* A track may challenge for a master that another has.
Contestable(s, t, m, incumbent) ==
  /\ t \in DOMAIN s.intake /\ s.intake[t].submitted /\ s.intake[t].deferred = {}
  /\ t \notin DOMAIN s.shadow
  /\ m \in 1..s.masters /\ m \notin s.rejected[t] /\ m \notin s.intake[t].handoff
  /\ incumbent \in DOMAIN s.bound \ {t} /\ s.bound[incumbent] = m

LEMMA ClaimSound ==
  ASSUME NEW s \in Memory, Sound(s, {}, {}), NEW t, NEW m, NEW incumbent, Contestable(s, t, m, incumbent)
  PROVE  LET s1 == CancelConflicts(s, {m})
             r == StartClaim(s, t, m, incumbent)
         IN /\ s1 \in Memory /\ Calm(s, s1) /\ s1.intake[t] = s.intake[t] /\ t \in DOMAIN s1.intake
            /\ r \in Memory /\ Sound(r, {}, {}) /\ Onward(s1, r, {t}, {}) /\ r.intake[t].deferred # {}
<1> DEFINE s1 == CancelConflicts(s, {m})
           token == s.token + 1
           c == [token |-> token, cands |-> {t, incumbent}, ready |-> {t}, submitted |-> FALSE,
                 challenger |-> {t}, gen |-> s.intake[t].gen]
           h == Set(s1.conflict, m, c)
           q == [s1 EXCEPT !.token = token, !.conflict = h]
           r == StartClaim(s, t, m, incumbent)
<1>20. /\ t \in DOMAIN s.intake /\ s.intake[t].submitted /\ s.intake[t].deferred = {}
       /\ t \notin DOMAIN s.shadow
       /\ m \in 1..s.masters /\ m \notin s.rejected[t] /\ m \notin s.intake[t].handoff
       /\ incumbent \in DOMAIN s.bound \ {t} /\ s.bound[incumbent] = m
  BY DEF Contestable
<1>0. /\ m \in Nat /\ t \in Tracks /\ s.intake[t].gen \in Nat /\ token \in Nat /\ s.token \in Nat
      /\ token > s.token /\ incumbent \in Tracks /\ s.masters \in Nat /\ m <= s.masters
  BY <1>20, MemoryFacts DEF Intake
<1>1. Sound(s1, {}, {}) /\ Calm(s, s1) /\ s1 \in Memory
  <2>1. Sound(s1, {}, {}) /\ Calm(s, s1)
    BY CancelSound
  <2> HIDE DEF s1
  <2> QED BY <2>1 DEF Calm, Keeps
<1>2. Rest(s, s1) /\ DOMAIN s1.conflict = DOMAIN s.conflict \ {m} /\ DOMAIN s1.intake = DOMAIN s.intake
  BY CancelRest, CancelFacts
<1>3. s1.intake[t] = s.intake[t] /\ t \in DOMAIN s1.intake
  BY <1>1, <1>2, <1>20 DEF Calm
<1>4. c \in Conflict
  <2> HIDE DEF token
  <2> QED BY <1>0 DEF Conflict
<1>5. r = Defer(q, t, "contest")
  <2> HIDE DEF s1
  <2> SUFFICES [s1 EXCEPT !.token = @ + 1, !.conflict = Set(@, m, c),
                          !.intake[t].deferred = @ \cup {"contest"}]
               = [q EXCEPT !.intake[t].deferred = @ \cup {"contest"}]
    BY <1>2 DEF StartClaim, Defer, s1, Rest
  <2> HIDE DEF c
  <2> QED BY <1>1, <1>2 DEF Memory, Rest
<1>6. /\ c.token = token /\ c.cands = {t, incumbent} /\ c.ready = {t} /\ ~c.submitted
      /\ c.challenger = {t} /\ c.gen = s.intake[t].gen
  OBVIOUS
<1> HIDE DEF s1, c, r, token
<1>7. /\ h \in Dict(Nat, Conflict) /\ DOMAIN h = DOMAIN s1.conflict \cup {m} /\ h[m] = c
      /\ \A n \in DOMAIN s1.conflict : n # m /\ h[n] = s1.conflict[n]
  <2>1. h \in Dict(Nat, Conflict)
    BY <1>0, <1>1, <1>4, SetMemory
  <2>2. DOMAIN h = DOMAIN s1.conflict \cup {m}
    BY SetDomain
  <2>3. h[m] = c
    BY SetHere
  <2>4. \A n \in DOMAIN s1.conflict \ {m} : h[n] = s1.conflict[n]
    BY SetElsewhere
  <2> HIDE DEF h
  <2> QED BY <1>2, <2>1, <2>2, <2>3, <2>4
<1> HIDE DEF h
<1>8. /\ q \in Memory /\ q.masters = s1.masters /\ q.gen = s1.gen /\ q.bound = s1.bound
      /\ q.shadow = s1.shadow /\ q.conflict = h /\ q.intake = s1.intake /\ q.visible = s1.visible
      /\ q.holds = s1.holds /\ q.rejected = s1.rejected /\ q.recovery = s1.recovery /\ q.token = token
  BY <1>0, <1>1, <1>7 DEF Memory
<1> HIDE DEF q
<1>9. /\ r \in Memory /\ Rest(q, r) /\ r.conflict = q.conflict /\ r.recovery = q.recovery
      /\ DOMAIN r.intake = DOMAIN q.intake
      /\ \A u \in DOMAIN q.intake \ {t} : r.intake[u] = q.intake[u]
      /\ r.intake[t].gen = q.intake[t].gen /\ r.intake[t].submitted = q.intake[t].submitted
      /\ r.intake[t].handoff = q.intake[t].handoff /\ r.intake[t].from = q.intake[t].from
      /\ r.intake[t].deferred = q.intake[t].deferred \cup {"contest"}
  BY <1>3, <1>5, <1>8, DeferEffect
<1>10. /\ r.masters = s1.masters /\ r.gen = s1.gen /\ r.bound = s1.bound /\ r.shadow = s1.shadow
       /\ r.conflict = h /\ r.visible = s1.visible /\ r.holds = s1.holds /\ r.rejected = s1.rejected
       /\ r.recovery = s1.recovery /\ r.token = token /\ DOMAIN r.intake = DOMAIN s1.intake
       /\ \A u \in DOMAIN s1.intake \ {t} : r.intake[u] = s1.intake[u]
       /\ r.intake[t].gen = s.intake[t].gen /\ r.intake[t].submitted
       /\ r.intake[t].handoff = s.intake[t].handoff /\ r.intake[t].from = s.intake[t].from
       /\ r.intake[t].deferred = {"contest"}
  BY <1>3, <1>8, <1>9, <1>20 DEF Rest
<1>11. /\ s1.masters = s.masters /\ s1.bound = s.bound /\ s1.shadow = s.shadow
       /\ s1.rejected = s.rejected /\ s1.token = s.token /\ s1.visible = s.visible
  BY <1>2 DEF Rest
<1>12. t \in s.visible
  BY <1>20 DEF Sound, Waits
<1>13. Bouts(r)
  <2> SUFFICES ASSUME NEW n \in DOMAIN r.conflict
               PROVE  LET k == r.conflict[n]
                      IN /\ n <= r.masters /\ k.token <= r.token
                         /\ \E u, v \in Tracks : u # v /\ k.cands = {u, v}
                         /\ k.challenger \subseteq k.ready /\ k.ready \subseteq k.cands
                         /\ k.ready \subseteq r.visible
                         /\ k.submitted => k.ready = k.cands
                         /\ \A u \in k.cands \ k.challenger : u \in DOMAIN r.bound /\ r.bound[u] = n
    BY DEF Bouts
  <2>1. CASE n = m
    <3>1. r.conflict[n] = c /\ token <= token
      BY <1>0, <1>7, <1>10, <2>1
    <3> QED BY <1>0, <1>6, <1>10, <1>11, <1>12, <1>20, <2>1, <3>1
  <2>2. CASE n # m
    <3>1. n \in DOMAIN s1.conflict /\ r.conflict[n] = s1.conflict[n] /\ s1.conflict[n].token \in Nat
      BY <1>1, <1>7, <1>10, <2>2, MemoryFacts DEF Conflict
    <3>2. s1.conflict[n].token <= token
      BY <1>0, <1>1, <1>11, <3>1 DEF Sound, Bouts
    <3> QED BY <1>1, <1>10, <3>1, <3>2 DEF Sound, Bouts
  <2> QED BY <2>1, <2>2
<1>14. \A n \in DOMAIN s1.conflict : t \notin s1.conflict[n].challenger
  BY <1>1, <1>3, <1>20 DEF Sound, Challengers
<1>15. Challengers(r)
  <2> SUFFICES ASSUME NEW n \in DOMAIN r.conflict, NEW u \in r.conflict[n].challenger
               PROVE  /\ u \in DOMAIN r.intake /\ r.intake[u].gen = r.conflict[n].gen
                      /\ "contest" \in r.intake[u].deferred
                      /\ n \notin r.rejected[u] /\ n \notin r.intake[u].handoff
                      /\ u \notin DOMAIN r.shadow
                      /\ \A k \in DOMAIN r.conflict : u \in r.conflict[k].challenger => k = n
    BY DEF Challengers
  <2>1. CASE n = m
    <3>1. u = t /\ r.conflict[n] = c
      BY <1>6, <1>7, <1>10, <2>1
    <3>2. \A k \in DOMAIN r.conflict : t \in r.conflict[k].challenger => k = m
      BY <1>7, <1>10, <1>14
    <3> QED BY <1>3, <1>6, <1>10, <1>11, <1>20, <2>1, <3>1, <3>2
  <2>2. CASE n # m
    <3>1. n \in DOMAIN s1.conflict /\ r.conflict[n] = s1.conflict[n] /\ u # t
      BY <1>7, <1>10, <1>14, <2>2
    <3>2. /\ u \in DOMAIN s1.intake /\ s1.intake[u].gen = s1.conflict[n].gen
          /\ "contest" \in s1.intake[u].deferred
          /\ n \notin s1.rejected[u] /\ n \notin s1.intake[u].handoff
          /\ u \notin DOMAIN s1.shadow
          /\ \A k \in DOMAIN s1.conflict : u \in s1.conflict[k].challenger => k = n
      BY <1>1, <3>1 DEF Sound, Challengers
    <3>3. \A k \in DOMAIN r.conflict : u \in r.conflict[k].challenger => k \in DOMAIN s1.conflict /\ u \in s1.conflict[k].challenger
      BY <1>6, <1>7, <1>10, <3>1
    <3>4. r.intake[u] = s1.intake[u]
      BY <1>10, <3>1, <3>2
    <3> QED BY <1>10, <3>1, <3>2, <3>3, <3>4
  <2> QED BY <2>1, <2>2
<1>16. Waits(r, {})
  <2> SUFFICES ASSUME NEW u \in DOMAIN r.intake
               PROVE  /\ u \in r.visible
                      /\ r.intake[u].deferred # {} => r.intake[u].submitted
                      /\ \A f, g \in r.intake[u].deferred : f = g
                      /\ \A f \in r.intake[u].deferred : Excused(r, u, f)
                      /\ r.intake[u].handoff \cap r.rejected[u] = {}
                      /\ u \in DOMAIN r.shadow =>
                           /\ r.intake[u].handoff = r.shadow[u].id /\ r.intake[u].from = {r.shadow[u].canon}
                           /\ r.shadow[u].id # {} /\ ~r.shadow[u].verified
    BY DEF Waits
  <2>1. CASE u = t
    <3>1. Excused(r, t, "contest")
      BY <1>6, <1>7, <1>10 DEF Excused
    <3>2. s.intake[t].handoff \cap s.rejected[t] = {}
      BY <1>20 DEF Sound, Waits
    <3> QED BY <1>10, <1>11, <1>12, <1>20, <2>1, <3>1, <3>2
  <2>2. CASE u # t
    <3>1. u \in DOMAIN s1.intake /\ r.intake[u] = s1.intake[u]
      BY <1>10, <2>2
    <3>2. \A f : Excused(s1, u, f) => Excused(r, u, f)
      BY <1>7, <1>10 DEF Excused
    <3> QED BY <1>1, <1>10, <3>1, <3>2 DEF Sound, Waits
  <2> QED BY <2>1, <2>2
<1>17. Losses(r) /\ Links(r, {})
  BY <1>1, <1>7, <1>10 DEF Sound, Losses, Links
<1>18. Onward(s1, r, {t}, {})
  <2>1. \A k \in Tracks : s1.gen[k] <= r.gen[k]
    BY <1>1, <1>10, MemoryFacts
  <2>2. s1.token <= r.token /\ r.token > s1.token
    BY <1>0, <1>10, <1>11
  <2>3. ASSUME NEW n \in DOMAIN r.conflict
        PROVE  \/ r.conflict[n].token > s1.token
               \/ n \in DOMAIN s1.conflict /\ r.conflict[n] = s1.conflict[n]
    BY <1>6, <1>7, <1>10, <2>2
  <2>4. ASSUME NEW u \in DOMAIN r.intake
        PROVE  /\ u \in DOMAIN s1.intake /\ r.intake[u].gen = s1.intake[u].gen
               /\ u = t \/ (r.intake[u] = s1.intake[u] /\ r.rejected[u] = s1.rejected[u])
    BY <1>3, <1>10
  <2> QED BY <1>10, <2>1, <2>2, <2>3, <2>4 DEF Onward
<1>19. r.intake[t].deferred # {}
  BY <1>10
<1> QED BY <1>1, <1>3, <1>9, <1>13, <1>15, <1>16, <1>17, <1>18, <1>19 DEF Sound, s1, r

LEMMA ClaimSettled ==
  ASSUME NEW s \in Memory, Sound(s, {}, {}), NEW x, Due(s, queue, << x >>), NEW t \in Tracks, InHand(s, x, t),
         NEW m, NEW incumbent, Contestable(s, t, m, incumbent),
         mem' = StartClaim(s, t, m, incumbent), queue' = queue, worker' = << >>
  PROVE  Settled'
<1> DEFINE s1 == CancelConflicts(s, {m})
           r == StartClaim(s, t, m, incumbent)
<1>2. mem' = r /\ r = StartClaim(s, t, m, incumbent) /\ s1 = CancelConflicts(s, {m})
  OBVIOUS
<1> HIDE DEF s1, r
<1>1. /\ s1 \in Memory /\ Calm(s, s1) /\ s1.intake[t] = s.intake[t] /\ t \in DOMAIN s1.intake
      /\ r \in Memory /\ Sound(r, {}, {}) /\ Onward(s1, r, {t}, {}) /\ r.intake[t].deferred # {}
  BY <1>2, ClaimSound
<1>3. Due(s1, queue, << x >>)
  BY <1>1, CalmCarries DEF Carries
<1>4. x.type = "intake" /\ x.track = t /\ Live(s1, x) /\ ~Waiting(r, x.track)
  BY <1>1 DEF InHand, Live, Waiting
<1>5. Due(r, queue, << >>)
  BY <1>1, <1>3, <1>4, DueDone
<1> QED BY <1>1, <1>2, <1>5 DEF Settled

\* What the end of a recovery hold leaves alone.
LEMMA RefreshRest ==
  ASSUME NEW s \in Memory, NEW t \in Tracks, NEW keep \in BOOLEAN
  PROVE  LET r == Refresh(s, t, keep)
         IN /\ DOMAIN r.intake = DOMAIN s.intake /\ r.holds = s.holds
            /\ keep /\ t \in DOMAIN s.recovery /\ t \notin DOMAIN s.bound => t \in DOMAIN r.recovery
BY DEF Refresh, DropRecovery, ReleaseRecovery, Rearm, Memory

\* An intake waits for the hold on its track to end.
LEMMA DeferSettled ==
  ASSUME NEW s \in Memory, Sound(s, {}, {}), NEW x, Due(s, queue, << x >>), NEW t \in Tracks, InHand(s, x, t),
         NEW flag \in {"hold", "recovery"}, Excused(s, t, flag),
         mem' = Defer(s, t, flag), queue' = queue, worker' = << >>
  PROVE  Settled'
<1> DEFINE r == Defer(s, t, flag)
<1>0. t \in DOMAIN s.intake /\ s.intake[t].submitted /\ s.intake[t].deferred = {}
  BY DEF InHand
<1>10. t \in DOMAIN s.intake /\ flag \in {"hold", "recovery", "contest"}
  BY DEF InHand
<1>2. mem' = r /\ r = Defer(s, t, flag)
  OBVIOUS
<1> HIDE DEF r
<1>1. /\ r \in Memory /\ Rest(s, r) /\ r.conflict = s.conflict /\ r.recovery = s.recovery
      /\ DOMAIN r.intake = DOMAIN s.intake
      /\ \A u \in DOMAIN s.intake \ {t} : r.intake[u] = s.intake[u]
      /\ r.intake[t].gen = s.intake[t].gen /\ r.intake[t].submitted = s.intake[t].submitted
      /\ r.intake[t].handoff = s.intake[t].handoff /\ r.intake[t].from = s.intake[t].from
      /\ r.intake[t].deferred = s.intake[t].deferred \cup {flag}
  BY <1>2, <1>10, DeferEffect
<1>3. Bouts(r) /\ Losses(r) /\ Links(r, {})
  BY <1>1 DEF Sound, Bouts, Losses, Links, Rest
<1>4. \A n \in DOMAIN s.conflict : t \notin s.conflict[n].challenger
  BY <1>0 DEF Sound, Challengers
<1>5. Challengers(r)
  BY <1>1, <1>4 DEF Sound, Challengers, Rest
<1>6. Waits(r, {})
  <2> SUFFICES ASSUME NEW u \in DOMAIN r.intake
               PROVE  /\ u \in r.visible
                      /\ r.intake[u].deferred # {} => r.intake[u].submitted
                      /\ \A f, g \in r.intake[u].deferred : f = g
                      /\ \A f \in r.intake[u].deferred : Excused(r, u, f)
                      /\ r.intake[u].handoff \cap r.rejected[u] = {}
                      /\ u \in DOMAIN r.shadow =>
                           /\ r.intake[u].handoff = r.shadow[u].id /\ r.intake[u].from = {r.shadow[u].canon}
                           /\ r.shadow[u].id # {} /\ ~r.shadow[u].verified
    BY DEF Waits
  <2>1. \A f : Excused(s, u, f) => Excused(r, u, f)
    BY <1>1 DEF Excused, Rest
  <2>2. CASE u = t
    <3>1. r.intake[t].deferred = {flag} /\ Excused(r, t, flag)
      BY <1>0, <1>1, <2>1, <2>2
    <3>2. /\ t \in s.visible /\ s.intake[t].handoff \cap s.rejected[t] = {}
          /\ t \in DOMAIN s.shadow =>
               /\ s.intake[t].handoff = s.shadow[t].id /\ s.intake[t].from = {s.shadow[t].canon}
               /\ s.shadow[t].id # {} /\ ~s.shadow[t].verified
      BY <1>0 DEF Sound, Waits
    <3>3. r.visible = s.visible /\ r.rejected = s.rejected /\ r.shadow = s.shadow
      BY <1>1 DEF Rest
    <3> QED BY <1>0, <1>1, <2>2, <3>1, <3>2, <3>3
  <2>3. CASE u # t
    <3>1. u \in DOMAIN s.intake /\ r.intake[u] = s.intake[u]
      BY <1>1, <2>3
    <3> QED BY <1>1, <2>1, <3>1 DEF Sound, Waits, Rest
  <2> QED BY <2>2, <2>3
<1>7. Onward(s, r, {t}, {})
  <2>1. s.token \in Nat /\ s.gen \in [Tracks -> Nat]
    BY MemoryFacts
  <2> QED BY <1>0, <1>1, <2>1 DEF Onward, Rest
<1>8. x.type = "intake" /\ x.track = t /\ Live(s, x) /\ ~Waiting(r, x.track)
  BY <1>1 DEF InHand, Live, Waiting
<1>9. Due(r, queue, << >>)
  BY <1>1, <1>7, <1>8, DueDone
<1> QED BY <1>2, <1>3, <1>5, <1>6, <1>9 DEF Sound, Settled

\* A track no known master fits waits, or is given a new one.
LEMMA WaitSettled ==
  ASSUME mem \in Memory, NEW x, NEW t \in Tracks, x.track = t,
         Roles(AfterVeto(x)), Sound(AfterVeto(x), {}, {}), AfterVeto(x) \in Memory,
         Due(AfterVeto(x), queue, << x >>), InHand(AfterVeto(x), x, t),
         WaitOrCreate(x), queue' = queue, worker' = << >>
  PROVE  Settled'
<1> DEFINE s == AfterVeto(x)
<1>0. /\ s \in Memory /\ Roles(s) /\ Sound(s, {}, {}) /\ Due(s, queue, << x >>) /\ InHand(s, x, t)
      /\ t \notin DOMAIN s.bound
  BY DEF InHand, Roles
<1>1. \/ t \in DOMAIN s.recovery /\ mem' = Defer(Refresh(s, t, TRUE), t, "recovery")
      \/ s.holds[t] # {} /\ mem' = Defer(Refresh(s, t, FALSE), t, "hold")
      \/ mem' = Bind([Refresh(s, t, FALSE) EXCEPT !.masters = s.masters + 1], t, s.masters + 1)
  BY DEF WaitOrCreate
<1> HIDE DEF s
<1>2. ASSUME NEW keep \in BOOLEAN
      PROVE  LET q == Refresh(s, t, keep)
             IN /\ q \in Memory /\ Sound(q, {}, {}) /\ Due(q, queue, << x >>) /\ InHand(q, x, t)
                /\ q.holds = s.holds /\ q.bound = s.bound
                /\ keep /\ t \in DOMAIN s.recovery => t \in DOMAIN q.recovery
  <2> DEFINE q == Refresh(s, t, keep)
  <2>1. Sound(q, {}, {}) /\ Calm(s, q)
    BY <1>0, RefreshSound
  <2>2. /\ DOMAIN q.intake = DOMAIN s.intake /\ q.holds = s.holds
        /\ keep /\ t \in DOMAIN s.recovery => t \in DOMAIN q.recovery
    BY <1>0, RefreshRest
  <2>3. q.bound = s.bound
    BY <1>0, RefreshKeeps
  <2> HIDE DEF q
  <2>4. q \in Memory /\ Due(q, queue, << x >>)
    BY <1>0, <2>1, CalmCarries DEF Carries
  <2>5. t \in DOMAIN q.intake
    BY <1>0, <2>2 DEF InHand
  <2>6. InHand(q, x, t)
    BY <1>0, <2>1, <2>5, InHandOn
  <2> QED BY <2>1, <2>2, <2>3, <2>4, <2>6 DEF q
<1>3. ASSUME NEW keep \in BOOLEAN, NEW flag \in {"hold", "recovery"},
             mem' = Defer(Refresh(s, t, keep), t, flag),
             flag = "hold" => s.holds[t] # {},
             flag = "recovery" => keep /\ t \in DOMAIN s.recovery
      PROVE  Settled'
  <2> DEFINE q == Refresh(s, t, keep)
  <2>1. /\ q \in Memory /\ Sound(q, {}, {}) /\ Due(q, queue, << x >>) /\ InHand(q, x, t)
        /\ q.holds = s.holds
        /\ keep /\ t \in DOMAIN s.recovery => t \in DOMAIN q.recovery
    BY <1>2
  <2>2. mem' = Defer(q, t, flag)
    BY <1>3
  <2> HIDE DEF q
  <2>3. Excused(q, t, flag)
    BY <1>3, <2>1 DEF Excused
  <2> QED BY <2>1, <2>2, <2>3, DeferSettled
<1>4. CASE mem' = Bind([Refresh(s, t, FALSE) EXCEPT !.masters = s.masters + 1], t, s.masters + 1)
  <2> DEFINE q == Refresh(s, t, FALSE)
             next == s.masters + 1
             p == [q EXCEPT !.masters = next]
  <2>1. q \in Memory /\ Sound(q, {}, {}) /\ Due(q, queue, << x >>) /\ InHand(q, x, t) /\ q.bound = s.bound
    BY <1>2
  <2>2. q.masters = s.masters
    BY <1>0, RefreshKeeps DEF Keeps
  <2>3. mem' = Bind(p, t, next)
    BY <1>4
  <2> HIDE DEF q
  <2>4. next \in Nat /\ next >= q.masters /\ q.masters \in Nat
    <3>1. s.masters \in Nat
      BY <1>0, MemoryFacts
    <3> QED BY <2>2, <3>1
  <2> HIDE DEF next
  <2>5. /\ p \in Memory /\ p.masters = next /\ p.visible = q.visible /\ p.bound = q.bound
        /\ p.shadow = q.shadow /\ p.conflict = q.conflict /\ p.intake = q.intake /\ p.gen = q.gen
        /\ p.holds = q.holds /\ p.rejected = q.rejected /\ p.recovery = q.recovery /\ p.token = q.token
    BY <2>1, <2>4 DEF Memory
  <2> HIDE DEF p
  <2>6. Sound(p, {}, {})
    <3>1. Bouts(p)
      <4>1. \A m \in DOMAIN q.conflict : m <= next
        <5> SUFFICES ASSUME NEW m \in DOMAIN q.conflict PROVE m <= next
          OBVIOUS
        <5>1. m \in Nat /\ m <= q.masters
          BY <2>1, MemoryFacts DEF Sound, Bouts
        <5> QED BY <2>4, <5>1
      <4> QED BY <2>1, <2>5, <4>1 DEF Sound, Bouts
    <3>2. Challengers(p) /\ Waits(p, {}) /\ Links(p, {})
      BY <2>1, <2>5 DEF Sound, Challengers, Waits, Links, Excused
    <3>3. Losses(p)
      <4>1. 1..q.masters \subseteq 1..next
        BY <2>4
      <4> QED BY <2>1, <2>5, <4>1 DEF Sound, Losses
    <3> QED BY <3>1, <3>2, <3>3 DEF Sound
  <2>7. Onward(q, p, {}, {})
    <3>1. q.token \in Nat /\ q.gen \in [Tracks -> Nat]
      BY <2>1, MemoryFacts
    <3> QED BY <2>5, <3>1 DEF Onward
  <2>8. Due(p, queue, << x >>)
    BY <2>1, <2>5, <2>7, DueOn
  <2>9. InHand(p, x, t) /\ t \notin DOMAIN p.bound
    BY <1>0, <2>1, <2>5 DEF InHand
  <2> QED BY <2>3, <2>4, <2>5, <2>6, <2>8, <2>9, BindSettled
<1> QED BY <1>1, <1>3, <1>4

\* The analyst acts on the burst in hand.
LEMMA AnalyseSettled ==
  ASSUME NEW W, Proper(mem, W), Tasks, Settled, Alone, Analyse
  PROVE  Settled'
<1> DEFINE x == worker[1]
           t == x.track
           s == AfterVeto(x)
<1>0. /\ mem \in Memory /\ Roles(mem) /\ worker # << >> /\ x.type = "intake" /\ worker' = << >> /\ queue' = queue
      /\ Sound(mem, {}, {})
  BY DEF Proper, Analyse, Settled
<1>1. Fitting(mem, x) /\ Due(mem, queue, << x >>) /\ t \in Tracks
  BY <1>0, HandFacts
<1>2. x.handoff \subseteq 1..mem.masters
  <2>1. x \in Task /\ TaskFits(mem, x)
    BY <1>0, WorkerFacts
  <2>2. x \in IntakeTask
    BY <1>0, HandFacts
  <2> QED BY <2>1, <2>2 DEF TaskFits, BurstFits
<1>3. mem.masters \in Nat
  BY <1>0, MemoryFacts
<1>4. CASE Discard(x)
  BY <1>0, <1>4, DiscardSettled
<1>5. ASSUME IsCurrent(mem, t, x.gen), ~HandoffGone(mem, x), NEW look,
             \/ VerifyDuplicate(x, look)
             \/ FollowHandoff(x, look)
             \/ /\ Vetoed(x, look)
                /\ \E away \in SUBSET {m \in 1..mem.masters :
                          OwnersElsewhere(mem, m, t) # {} /\ look[m] # "far"} :
                     MatchOrdinary(x, look, away) \/ Unmatched(x, look, away)
      PROVE  Settled'
  <2>1. InHand(mem, x, t)
    <3>1. Live(mem, x)
      BY <1>0, <1>5 DEF Live, IsCurrent
    <3> QED BY <1>0, <1>1, <1>5, <3>1 DEF Fitting, InHand, IsCurrent
  <2>2. CASE VerifyDuplicate(x, look)
    <3>1. t \in DOMAIN mem.shadow
      BY <1>5, <2>2 DEF VerifyDuplicate, HandoffGone
    <3> QED BY <1>0, <1>1, <1>2, <2>1, <2>2, <3>1, VerifySettled
  <2>3. CASE FollowHandoff(x, look)
    <3>1. PICK m \in x.handoff : Match(mem, t, m, look)
      BY <2>3 DEF FollowHandoff
    <3>2. m \in Nat
      BY <1>2, <1>3
    <3> HIDE DEF t, x
    <3> QED BY <1>0, <1>1, <2>1, <3>1, <3>2, MatchSettled
  <2>4. /\ Sound(s, {}, {}) /\ Calm(mem, s) /\ (x.handoff # {} => t \notin DOMAIN s.shadow)
        /\ s.bound = mem.bound /\ s.intake = mem.intake /\ s.rejected = mem.rejected
        /\ DOMAIN s.shadow \subseteq DOMAIN mem.shadow
    BY <1>0, VetoSound
  <2> HIDE DEF s
  <2>5. s \in Memory /\ Due(s, queue, << x >>) /\ Roles(s)
    <3>1. Roles(s)
      BY <1>0, <2>4 DEF Roles
    <3> QED BY <1>0, <1>1, <2>4, <3>1, CalmCarries DEF Carries
  <2>6. InHand(s, x, t)
    <3>1. t \in DOMAIN s.intake
      BY <2>1, <2>4 DEF InHand
    <3> QED BY <1>0, <1>1, <2>1, <2>4, <3>1, InHandOn
  <2>7. ASSUME NEW away, MatchOrdinary(x, look, away)
        PROVE  Settled'
    <3>1. PICK m \in Best(look, Eligible(x, look, away)) : Match(s, t, m, look)
      BY <2>7 DEF MatchOrdinary, s
    <3>2. m \in Nat
      BY <1>0, <1>3, EligibleFacts
    <3> HIDE DEF t, x
    <3> QED BY <1>0, <1>1, <2>4, <2>5, <2>6, <3>1, <3>2, MatchSettled
  <2>8. t \notin DOMAIN s.shadow
    <3>1. CASE x.handoff # {}
      BY <2>4, <3>1
    <3>2. CASE x.handoff = {}
      <4>1. mem.intake[t].handoff = {} /\ t \in DOMAIN mem.intake
        BY <2>1, <3>2 DEF InHand
      <4>2. t \notin DOMAIN mem.shadow
        BY <1>0, <4>1 DEF Sound, Waits
      <4> QED BY <2>4, <4>2
    <3> QED BY <3>1, <3>2
  <2>9. ASSUME NEW m \in 1..mem.masters, m \notin mem.rejected[t], m \notin x.handoff,
               NEW incumbent, Claimable(mem, t, m, incumbent, look), mem' = StartClaim(s, t, m, incumbent)
        PROVE  Settled'
    <3>1. incumbent \in DOMAIN mem.bound \ {t} /\ mem.bound[incumbent] = m
      BY <2>9 DEF Claimable
    <3>2. s.masters = mem.masters
      BY <2>4 DEF Calm, Keeps
    <3>3. Contestable(s, t, m, incumbent)
      BY <2>4, <2>6, <2>8, <2>9, <3>1, <3>2 DEF Contestable, InHand
    <3> HIDE DEF t, x
    <3> QED BY <1>0, <1>1, <2>4, <2>5, <2>6, <2>9, <3>3, ClaimSettled
  <2>10. ASSUME NEW away \in SUBSET (1..mem.masters), Unmatched(x, look, away), Vetoed(x, look)
         PROVE  Settled'
    <3>1. CASE ClaimFarMaster(x, look, away)
      <4>1. PICK m \in Best(look, away \ Excluded(mem, x)) :
              \E incumbent \in OwnersElsewhere(mem, m, t) :
                Claimable(mem, t, m, incumbent, look) /\ mem' = StartClaim(s, t, m, incumbent)
        BY <3>1 DEF ClaimFarMaster, s
      <4>2. PICK incumbent \in OwnersElsewhere(mem, m, t) :
              Claimable(mem, t, m, incumbent, look) /\ mem' = StartClaim(s, t, m, incumbent)
        BY <4>1
      <4>3. m \in 1..mem.masters /\ m \notin Excluded(mem, x)
        BY <2>10 DEF Best
      <4>4. m \notin mem.rejected[t] /\ m \notin x.handoff
        BY <2>1, <4>3 DEF Excluded, InHand
      <4> QED BY <2>9, <4>2, <4>3, <4>4
    <3>2. CASE ClaimBlockedMaster(x, look)
      <4>1. PICK m \in (Excluded(mem, x) \cap 1..mem.masters) \ mem.rejected[t] :
              \E incumbent \in VisibleOwners(mem, m, t) :
                Claimable(mem, t, m, incumbent, look) /\ mem' = StartClaim(s, t, m, incumbent)
        BY <3>2 DEF ClaimBlockedMaster, s
      <4>2. PICK incumbent \in VisibleOwners(mem, m, t) :
              Claimable(mem, t, m, incumbent, look) /\ mem' = StartClaim(s, t, m, incumbent)
        BY <4>1
      <4>3. m \notin x.handoff
        BY <2>10, <4>2 DEF Vetoed, Claimable
      <4> QED BY <2>9, <4>1, <4>2, <4>3
    <3>3. CASE WaitOrCreate(x)
      <4>1. /\ Roles(AfterVeto(x)) /\ Sound(AfterVeto(x), {}, {}) /\ AfterVeto(x) \in Memory
            /\ Due(AfterVeto(x), queue, << x >>) /\ InHand(AfterVeto(x), x, t)
        BY <2>4, <2>5, <2>6 DEF s
      <4> QED BY <1>0, <1>1, <3>3, <4>1, WaitSettled
    <3> QED BY <2>10, <3>1, <3>2, <3>3 DEF Unmatched
  <2>11. ASSUME Vetoed(x, look),
                NEW away \in SUBSET {m \in 1..mem.masters : OwnersElsewhere(mem, m, t) # {} /\ look[m] # "far"},
                MatchOrdinary(x, look, away) \/ Unmatched(x, look, away)
         PROVE  Settled'
    <3>1. away \in SUBSET (1..mem.masters)
      OBVIOUS
    <3> QED BY <2>7, <2>10, <2>11, <3>1
  <2> QED BY <1>5, <2>2, <2>3, <2>11
<1> QED BY <1>4, <1>5 DEF Analyse

-----------------------------------------------------------------------------
(* What it makes of a contest.                                              *)

\* A contest is over, and its challenger and the holds linked to it are not
\* answered yet.
LEMMA EndSound ==
  ASSUME NEW s \in Memory, Sound(s, {}, {}), NEW m \in DOMAIN s.conflict
  PROVE  LET r == [s EXCEPT !.conflict = Without(@, {m})]
         IN /\ Sound(r, s.conflict[m].challenger, {m}) /\ Calm(s, r) /\ r \in Memory
            /\ Rest(s, r) /\ r.intake = s.intake /\ DOMAIN r.conflict = DOMAIN s.conflict \ {m}
            /\ \A n \in DOMAIN r.conflict : r.conflict[n].challenger \cap s.conflict[m].challenger = {}
<1> DEFINE f == Without(s.conflict, {m})
           r == [s EXCEPT !.conflict = Without(@, {m})]
           X == s.conflict[m].challenger
<1>1. f \in Dict(Nat, Conflict)
  BY PopFacts
<1>2. DOMAIN f = DOMAIN s.conflict \ {m} /\ \A n \in DOMAIN f : f[n] = s.conflict[n]
  BY WithoutFacts, Zenon
<1>3. r = [s EXCEPT !.conflict = f]
  OBVIOUS
<1> HIDE DEF f, r
<1>4. r \in Memory /\ Rest(s, r) /\ r.intake = s.intake /\ r.conflict = f /\ r.recovery = s.recovery
  BY <1>1, <1>3 DEF Memory, Rest
<1>5. Keeps(s, r)
  BY <1>2, <1>4 DEF Keeps, Rest, Memory
<1>6. Links(r, {m})
  BY <1>2, <1>4 DEF Sound, Links
<1>7. Sound(s, X, {})
  BY SoundMore
<1>8. \A t \in DOMAIN s.intake \ X : \A g \in r.intake[t].deferred : Excused(r, t, g)
  <2> SUFFICES ASSUME NEW t \in DOMAIN s.intake \ X, NEW g \in s.intake[t].deferred PROVE Excused(r, t, g)
    BY <1>4
  <2>1. Excused(s, t, g)
    BY DEF Sound, Waits
  <2>2. \A n \in DOMAIN s.conflict : t \in s.conflict[n].challenger => n \in DOMAIN r.conflict /\ r.conflict[n] = s.conflict[n]
    BY <1>2, <1>4
  <2> QED BY <1>4, <2>1, <2>2 DEF Excused, Rest
<1>9. /\ DOMAIN r.conflict \subseteq DOMAIN s.conflict /\ DOMAIN r.conflict = DOMAIN s.conflict \ {m}
      /\ \A n \in DOMAIN r.conflict : r.conflict[n] = s.conflict[n]
  BY <1>2, <1>4
<1>10. \A n \in DOMAIN r.conflict : r.conflict[n].challenger \cap X = {}
  BY <1>9 DEF Sound, Challengers
<1> HIDE DEF X
<1>11. Sound(r, X, {m}) /\ Calm(s, r)
  BY <1>4, <1>5, <1>6, <1>7, <1>8, <1>9, Lighten
<1> QED BY <1>4, <1>9, <1>10, <1>11 DEF X, r

\* A challenger that has lost collects a burst again, but not for this master.
LEMMA ChallengerLeaves ==
  ASSUME NEW s \in Memory, NEW loser \in DOMAIN s.intake, NEW m \in 1..s.masters, Sound(s, {loser}, {m}),
         NEW c, loser \in c.challenger, s.intake[loser].gen = c.gen, "contest" \in s.intake[loser].deferred,
         m \notin s.intake[loser].handoff, loser \notin DOMAIN s.shadow,
         \A n \in DOMAIN s.conflict : loser \notin s.conflict[n].challenger,
         NEW stillMatches \in BOOLEAN
  PROVE  LET r == LoserLeaves(s, m, loser, c, stillMatches)
         IN r \in Memory /\ Sound(r, {}, {m}) /\ Onward(s, r, {}, {})
<1> DEFINE T == {t \in {loser} \cap DOMAIN s.intake : s.intake[t].gen = c.gen}
           s1 == Rearm(s, T, "contest")
           f == [s1.rejected EXCEPT ![loser] = @ \cup {m}]
           r == LoserLeaves(s, m, loser, c, stillMatches)
<1>0. loser \in Tracks /\ s.token \in Nat /\ s.gen \in [Tracks -> Nat] /\ s.masters \in Nat /\ loser \in s.visible
  BY MemoryFacts DEF Sound, Waits
<1>1. T = {loser}
  OBVIOUS
<1>2. r = [s1 EXCEPT !.rejected[loser] = @ \cup {m}]
  BY DEF LoserLeaves
<1> HIDE DEF T, r
<1>3. /\ s1 \in Memory /\ Rest(s, s1) /\ s1.conflict = s.conflict /\ s1.recovery = s.recovery
      /\ DOMAIN s1.intake = DOMAIN s.intake
      /\ \A t \in DOMAIN s.intake \ T : s1.intake[t] = s.intake[t]
      /\ \A t \in DOMAIN s.intake \cap T :
           Armed(s.intake[t], s1.intake[t]) /\ s1.intake[t].deferred = s.intake[t].deferred \ {"contest"}
  BY RearmEffect
<1> HIDE DEF s1
<1>4. s1.rejected \in [Tracks -> SUBSET Nat] /\ m \in Nat
  BY <1>0, <1>3, MemoryFacts
<1>5. f \in [Tracks -> SUBSET Nat] /\ f[loser] = s1.rejected[loser] \cup {m} /\ \A t \in Tracks \ {loser} : f[t] = s1.rejected[t]
  BY <1>0, <1>4
<1>6. r = [s1 EXCEPT !.rejected = f]
  BY <1>2, <1>3 DEF Memory
<1> HIDE DEF f
<1>7. /\ r \in Memory /\ r.visible = s.visible /\ r.masters = s.masters /\ r.bound = s.bound
      /\ r.shadow = s.shadow /\ r.conflict = s.conflict /\ r.holds = s.holds /\ r.gen = s.gen
      /\ r.recovery = s.recovery /\ r.token = s.token /\ r.rejected = f /\ r.intake = s1.intake
  BY <1>3, <1>5, <1>6 DEF Memory, Rest
<1>8. /\ DOMAIN r.intake = DOMAIN s.intake
      /\ \A t \in DOMAIN s.intake \ {loser} : r.intake[t] = s.intake[t] /\ r.rejected[t] = s.rejected[t]
      /\ Armed(s.intake[loser], r.intake[loser]) /\ r.intake[loser].deferred = {}
      /\ r.rejected[loser] = s.rejected[loser] \cup {m}
  <2>1. s.intake[loser].deferred \ {"contest"} = {}
    BY DEF Sound, Waits
  <2>2. DOMAIN s.intake \subseteq Tracks
    BY MemoryFacts
  <2>3. s1.rejected = s.rejected
    BY <1>3 DEF Rest
  <2> QED BY <1>1, <1>3, <1>5, <1>7, <2>1, <2>2, <2>3
<1>9. Bouts(r) /\ Links(r, {m})
  BY <1>7 DEF Sound, Bouts, Links
<1>10. Challengers(r)
  BY <1>7, <1>8 DEF Sound, Challengers
<1>11. Waits(r, {})
  <2> SUFFICES ASSUME NEW u \in DOMAIN r.intake
               PROVE  /\ u \in r.visible
                      /\ r.intake[u].deferred # {} => r.intake[u].submitted
                      /\ \A g, h \in r.intake[u].deferred : g = h
                      /\ \A g \in r.intake[u].deferred : Excused(r, u, g)
                      /\ r.intake[u].handoff \cap r.rejected[u] = {}
                      /\ u \in DOMAIN r.shadow =>
                           /\ r.intake[u].handoff = r.shadow[u].id /\ r.intake[u].from = {r.shadow[u].canon}
                           /\ r.shadow[u].id # {} /\ ~r.shadow[u].verified
    BY DEF Waits
  <2>1. CASE u = loser
    <3>1. s.intake[loser].handoff \cap s.rejected[loser] = {}
      BY DEF Sound, Waits
    <3>2. r.intake[loser].handoff = s.intake[loser].handoff
      BY <1>8 DEF Armed
    <3> QED BY <1>0, <1>7, <1>8, <2>1, <3>1, <3>2
  <2>2. CASE u # loser
    <3>1. u \in DOMAIN s.intake /\ r.intake[u] = s.intake[u] /\ r.rejected[u] = s.rejected[u]
      BY <1>8, <2>2
    <3>2. \A g : Excused(s, u, g) => Excused(r, u, g)
      BY <1>7 DEF Excused
    <3> QED BY <1>7, <2>2, <3>1, <3>2 DEF Sound, Waits
  <2> QED BY <2>1, <2>2
<1>12. Losses(r)
  <2> SUFFICES ASSUME NEW t \in Tracks
               PROVE  /\ r.rejected[t] \subseteq 1..r.masters
                      /\ r.rejected[t] # {} => t \in r.visible /\ t \notin DOMAIN r.shadow
    BY DEF Losses
  <2>1. r.rejected[t] = IF t = loser THEN s.rejected[t] \cup {m} ELSE s.rejected[t]
    <3>1. s1.rejected = s.rejected
      BY <1>3 DEF Rest
    <3> QED BY <1>5, <1>7, <3>1
  <2>2. /\ s.rejected[t] \subseteq 1..s.masters
        /\ s.rejected[t] # {} => t \in s.visible /\ t \notin DOMAIN s.shadow
    BY DEF Sound, Losses
  <2> QED BY <1>0, <1>7, <2>1, <2>2
<1>13. Onward(s, r, {}, {})
  <2>1. r.intake[loser].gen = s.intake[loser].gen /\ ~r.intake[loser].submitted /\ s.intake[loser].deferred # {}
    BY <1>8 DEF Armed
  <2>2. \A t \in DOMAIN s.intake \ {loser} : r.intake[t] = s.intake[t] /\ r.rejected[t] \subseteq s.rejected[t]
    BY <1>8
  <2>3. DOMAIN r.intake = DOMAIN s.intake
    BY <1>8
  <2> QED BY <1>0, <1>7, <2>1, <2>2, <2>3 DEF Onward
<1> QED BY <1>7, <1>9, <1>10, <1>11, <1>12, <1>13 DEF Sound, r

\* Bindings and contests only go.
Fewer(s, r) ==
  /\ DOMAIN r.bound \subseteq DOMAIN s.bound /\ DOMAIN r.conflict \subseteq DOMAIN s.conflict
  /\ \A n \in DOMAIN r.conflict : r.conflict[n] = s.conflict[n]

\* An owner that has lost is unbound and held back from a new master.
LEMMA OwnerLeaves ==
  ASSUME NEW s \in Memory, NEW X, NEW m \in 1..s.masters, Sound(s, X, {m}), NEW loser \in s.visible,
         NEW c, loser \notin c.challenger, NEW stillMatches \in BOOLEAN
  PROVE  LET r == LoserLeaves(s, m, loser, c, stillMatches)
         IN r \in Memory /\ Sound(r, X, {m}) /\ Onward(s, r, {}, {}) /\ Fewer(s, r)
<1> DEFINE s1 == ClearBindings(s, {loser})
           f == [s1.rejected EXCEPT ![loser] = IF ~stillMatches THEN @ \cup {m} ELSE @]
           s2 == [s1 EXCEPT !.rejected[loser] = IF ~stillMatches THEN @ \cup {m} ELSE @]
           g == Set(s2.recovery, loser, Related(s2, loser))
           r == LoserLeaves(s, m, loser, c, stillMatches)
<1>0. loser \in Tracks /\ s.masters \in Nat /\ m \in Nat
  BY MemoryFacts
<1>1. r = [s2 EXCEPT !.recovery = g]
  BY DEF LoserLeaves
<1> HIDE DEF r
<1>2. Sound(s1, X, {m}) /\ Calm(s, s1)
  BY ClearBindingsSound
<1>3. /\ DOMAIN s1.bound = DOMAIN s.bound \ {loser} /\ loser \notin DOMAIN s1.intake /\ loser \notin DOMAIN s1.shadow
  BY ClearBindingsKeeps
<1> HIDE DEF s1
<1>4. /\ s1 \in Memory /\ s1.visible = s.visible /\ s1.masters = s.masters
      /\ DOMAIN s1.conflict \subseteq DOMAIN s.conflict /\ \A n \in DOMAIN s1.conflict : s1.conflict[n] = s.conflict[n]
  BY <1>2 DEF Calm, Keeps
<1>5. s1.rejected \in [Tracks -> SUBSET Nat]
  BY <1>4, MemoryFacts
<1>6. f \in [Tracks -> SUBSET Nat] /\ f[loser] \subseteq s1.rejected[loser] \cup {m} /\ \A t \in Tracks \ {loser} : f[t] = s1.rejected[t]
  BY <1>0, <1>5
<1>7. s2 = [s1 EXCEPT !.rejected = f]
  BY <1>4 DEF Memory
<1> HIDE DEF f, s2
<1>8. /\ s2 \in Memory /\ s2.visible = s1.visible /\ s2.masters = s1.masters /\ s2.bound = s1.bound
      /\ s2.shadow = s1.shadow /\ s2.conflict = s1.conflict /\ s2.holds = s1.holds /\ s2.gen = s1.gen
      /\ s2.recovery = s1.recovery /\ s2.token = s1.token /\ s2.rejected = f /\ s2.intake = s1.intake
  BY <1>4, <1>6, <1>7 DEF Memory
<1>9. /\ g \in Dict(Tracks, SUBSET Nat) /\ DOMAIN g = DOMAIN s1.recovery \cup {loser}
      /\ g[loser] \subseteq DOMAIN s1.conflict
      /\ \A t \in DOMAIN s1.recovery \ {loser} : g[t] = s1.recovery[t]
  <2> DEFINE R == Related(s2, loser)
  <2>1. R \subseteq DOMAIN s2.conflict /\ R \in SUBSET Nat
    BY <1>8, MemoryFacts DEF Related
  <2> HIDE DEF R
  <2>2. g = Set(s2.recovery, loser, R)
    BY DEF R
  <2>3. Set(s2.recovery, loser, R) \in Dict(Tracks, SUBSET Nat)
    BY <1>0, <1>8, <2>1, SetMemory
  <2>4. DOMAIN Set(s2.recovery, loser, R) = DOMAIN s2.recovery \cup {loser}
    BY SetDomain
  <2>5. Set(s2.recovery, loser, R)[loser] = R
    BY SetHere
  <2>6. \A t \in DOMAIN s2.recovery \ {loser} : Set(s2.recovery, loser, R)[t] = s2.recovery[t]
    BY SetElsewhere
  <2> HIDE DEF g
  <2> QED BY <1>8, <2>1, <2>2, <2>3, <2>4, <2>5, <2>6
<1> HIDE DEF g
<1>10. /\ r \in Memory /\ r.visible = s1.visible /\ r.masters = s1.masters /\ r.bound = s1.bound
       /\ r.shadow = s1.shadow /\ r.conflict = s1.conflict /\ r.holds = s1.holds /\ r.gen = s1.gen
       /\ r.recovery = g /\ r.token = s1.token /\ r.rejected = f /\ r.intake = s1.intake
  <2>1. /\ r \in Memory /\ r.visible = s2.visible /\ r.masters = s2.masters /\ r.bound = s2.bound
        /\ r.shadow = s2.shadow /\ r.conflict = s2.conflict /\ r.holds = s2.holds /\ r.gen = s2.gen
        /\ r.recovery = g /\ r.token = s2.token /\ r.rejected = s2.rejected /\ r.intake = s2.intake
    BY <1>1, <1>8, <1>9 DEF Memory
  <2> QED BY <1>8, <2>1
<1>11. \A t \in DOMAIN s1.intake : t # loser /\ t \in Tracks /\ r.rejected[t] = s1.rejected[t]
  BY <1>3, <1>4, <1>6, <1>10, MemoryFacts
<1>12. Bouts(r)
  BY <1>2, <1>10 DEF Sound, Bouts
<1>13. Challengers(r)
  <2>1. \A n \in DOMAIN s1.conflict : \A t \in s1.conflict[n].challenger : t \in DOMAIN s1.intake
    BY <1>2 DEF Sound, Challengers
  <2> QED BY <1>2, <1>10, <1>11, <2>1 DEF Sound, Challengers
<1>14. Waits(r, X)
  <2>1. \A t, h : Excused(s1, t, h) => Excused(r, t, h)
    BY <1>9, <1>10 DEF Excused
  <2> QED BY <1>2, <1>10, <1>11, <2>1 DEF Sound, Waits
<1>15. Losses(r)
  <2> SUFFICES ASSUME NEW t \in Tracks
               PROVE  /\ r.rejected[t] \subseteq 1..r.masters
                      /\ r.rejected[t] # {} => t \in r.visible /\ t \notin DOMAIN r.shadow
    BY DEF Losses
  <2>1. /\ s1.rejected[t] \subseteq 1..s1.masters
        /\ s1.rejected[t] # {} => t \in s1.visible /\ t \notin DOMAIN s1.shadow
    BY <1>2 DEF Sound, Losses
  <2>2. CASE t = loser
    BY <1>3, <1>4, <1>6, <1>10, <2>1, <2>2
  <2>3. CASE t # loser
    BY <1>6, <1>10, <2>1, <2>3
  <2> QED BY <2>2, <2>3
<1>16. Links(r, {m})
  <2> SUFFICES ASSUME NEW t \in DOMAIN r.recovery PROVE r.recovery[t] \subseteq DOMAIN r.conflict \cup {m}
    BY DEF Links
  <2>1. CASE t = loser
    BY <1>9, <1>10, <2>1
  <2>2. CASE t # loser
    BY <1>2, <1>9, <1>10, <2>2 DEF Sound, Links
  <2> QED BY <2>1, <2>2
<1>17. Onward(s, r, {}, {})
  <2>1. Onward(s, s1, {}, {})
    BY <1>2, CalmOnward
  <2> QED BY <1>10, <1>11, <2>1 DEF Onward
<1>18. Fewer(s, r)
  BY <1>3, <1>4, <1>10 DEF Fewer
<1> QED BY <1>10, <1>12, <1>13, <1>14, <1>15, <1>16, <1>17, <1>18 DEF Sound, r

\* A challenger that has won takes the master.
LEMMA WinnerSound ==
  ASSUME NEW s \in Memory, NEW m \in Nat, NEW winner \in Tracks, Sound(s, {winner}, {}),
         NEW c, winner \in c.challenger, winner \notin DOMAIN s.bound,
         \A n \in DOMAIN s.conflict : winner \notin s.conflict[n].challenger
  PROVE  LET r == WinnerTakes(s, m, winner, c)
         IN r \in Memory /\ Sound(r, {}, {}) /\ Carries(s, r)
<1> DEFINE s1 == ClearNonvisibleOwners(s, m, winner)
           f == [s1.rejected EXCEPT ![winner] = {}]
           b == Set(s1.bound, winner, m)
           r == WinnerTakes(s, m, winner, c)
<1>1. r = [s1 EXCEPT !.bound = Set(@, winner, m), !.rejected[winner] = {},
                     !.intake = Without(@, {winner}), !.shadow = Without(@, {winner})]
  BY DEF WinnerTakes
<1>2. Sound(s1, {winner}, {}) /\ Calm(s, s1)
  BY RetireSound
<1> HIDE DEF s1, r
<1>3. s1 \in Memory /\ Carries(s, s1)
  BY <1>2, CalmCarries
<1>4. winner \notin DOMAIN s1.bound /\ \A n \in DOMAIN s1.conflict : winner \notin s1.conflict[n].challenger
  BY <1>2 DEF Calm, Keeps
<1>5. s1.rejected \in [Tracks -> SUBSET Nat]
  BY <1>3, MemoryFacts
<1>6. f \in [Tracks -> SUBSET Nat] /\ f[winner] = {} /\ \A t \in Tracks \ {winner} : f[t] = s1.rejected[t]
  BY <1>5
<1>7. r = [s1 EXCEPT !.bound = b, !.rejected = f,
                     !.intake = Without(@, {winner}), !.shadow = Without(@, {winner})]
  BY <1>1, <1>3 DEF Memory
<1>8. /\ b \in Dict(Tracks, Nat)
      /\ Without(s1.intake, {winner}) \in Dict(Tracks, Intake)
      /\ Without(s1.shadow, {winner}) \in Dict(Tracks, Shadow)
  BY <1>3, SetMemory, PopFacts
<1> HIDE DEF f, b
<1>9. /\ r \in Memory /\ r.masters = s1.masters /\ r.gen = s1.gen /\ r.conflict = s1.conflict
      /\ r.bound = b /\ r.visible = s1.visible /\ r.holds = s1.holds /\ r.token = s1.token
      /\ r.intake = Without(s1.intake, {winner}) /\ r.shadow = Without(s1.shadow, {winner})
      /\ r.rejected = f /\ r.recovery = s1.recovery
  BY <1>3, <1>6, <1>7, <1>8 DEF Memory
<1>10. Gives(s1, r, winner, m)
  BY <1>6, <1>9 DEF Gives, b
<1>11. Sound(r, {}, {}) /\ Onward(s1, r, {}, {})
  BY <1>2, <1>3, <1>4, <1>9, <1>10, GivenSound
<1>12. Carries(s1, r)
  BY <1>3, <1>9, <1>11, OnwardCarries
<1>13. Carries(s, r)
  BY <1>3, <1>12 DEF Carries
<1> QED BY <1>9, <1>11, <1>13 DEF r

\* No loser is held for the contest that has ended.
LEMMA UnlinkSound ==
  ASSUME NEW s \in Memory, NEW X, NEW m, Sound(s, X, {m})
  PROVE  LET r == ReleaseRecovery(s, Linked(s, {m})) IN Sound(r, X, {}) /\ Calm(s, r)
<1> DEFINE T == Linked(s, {m})
<1>1. \A t \in DOMAIN s.recovery \ T : s.recovery[t] \subseteq DOMAIN s.conflict \cup {}
  <2>1. \A t \in DOMAIN s.recovery \ T : m \notin s.recovery[t]
    BY DEF Linked
  <2> QED BY <2>1 DEF Sound, Links
<1> HIDE DEF T
<1>2. Sound(ReleaseRecovery(s, T), X, {}) /\ Calm(s, ReleaseRecovery(s, T))
  BY <1>1, ReleaseRecoverySound
<1> QED BY <1>2 DEF T

LEMMA ResolveSound ==
  ASSUME NEW s \in Memory, Existing(s), OneChallenger(s), Sound(s, {}, {}),
         NEW m \in DOMAIN s.conflict, StillContested(s, m), s.conflict[m].submitted,
         NEW winner \in s.conflict[m].cands, NEW loser \in s.conflict[m].cands, winner # loser,
         NEW stillMatches \in BOOLEAN
  PROVE  LET r == Resolve(s, m, winner, loser, stillMatches)
         IN r \in Memory /\ Sound(r, {}, {}) /\ Carries(s, r)
<1> DEFINE c == s.conflict[m]
           s0 == [s EXCEPT !.conflict = Without(@, {m})]
           s1 == LoserLeaves(s0, m, loser, c, stillMatches)
           s2 == ReleaseRecovery(s1, Linked(s1, {m}))
           r == Resolve(s, m, winner, loser, stillMatches)
           X == c.challenger
           Y == IF loser \in X THEN {} ELSE X
<1>1. r = WinnerTakes(s2, m, winner, c)
  BY DEF Resolve
<1>2. /\ m \in Nat /\ m \in 1..s.masters /\ winner \in Tracks /\ loser \in Tracks
      /\ loser \in s.visible /\ X \subseteq {winner, loser}
      /\ \A t, u \in X : t = u
      /\ \A t \in X : t \notin DOMAIN s.bound
  <2>1. m \in Nat /\ c \in Conflict /\ m \in 1..s.masters
    BY MemoryFacts DEF Existing
  <2>2. c.ready = c.cands /\ c.ready \subseteq s.visible /\ X \subseteq c.ready /\ \E t, u \in Tracks : t # u /\ c.cands = {t, u}
    BY DEF Sound, Bouts
  <2>3. \A t, u \in X : t = u
    BY DEF OneChallenger
  <2>4. \A t \in X : t \notin DOMAIN s.bound
    BY DEF StillContested
  <2> HIDE DEF c
  <2>5. X \subseteq {winner, loser} /\ winner \in Tracks /\ loser \in Tracks /\ loser \in s.visible
    BY <2>2 DEF c
  <2> QED BY <2>1, <2>3, <2>4, <2>5
<1>3. /\ Sound(s0, X, {m}) /\ Calm(s, s0) /\ s0 \in Memory
      /\ Rest(s, s0) /\ s0.intake = s.intake /\ DOMAIN s0.conflict = DOMAIN s.conflict \ {m}
      /\ \A n \in DOMAIN s0.conflict : s0.conflict[n].challenger \cap X = {}
  BY EndSound
<1>4. loser \in X =>
        /\ loser \in DOMAIN s.intake /\ s.intake[loser].gen = c.gen
        /\ "contest" \in s.intake[loser].deferred
        /\ m \notin s.intake[loser].handoff /\ loser \notin DOMAIN s.shadow
  BY DEF Sound, Challengers
<1> HIDE DEF s0, c
<1>5. Carries(s, s0) /\ m \in 1..s0.masters /\ loser \in s0.visible
  BY <1>2, <1>3, CalmCarries DEF Rest
<1>6. /\ s1 \in Memory /\ Sound(s1, Y, {m}) /\ Onward(s0, s1, {}, {})
      /\ loser \notin X => Fewer(s0, s1)
  <2>1. CASE loser \in X
    <3>1. X = {loser} /\ Y = {}
      BY <1>2, <2>1
    <3>2. /\ loser \in DOMAIN s0.intake /\ s0.intake[loser].gen = c.gen
          /\ "contest" \in s0.intake[loser].deferred
          /\ m \notin s0.intake[loser].handoff /\ loser \notin DOMAIN s0.shadow
          /\ loser \in c.challenger
      BY <1>3, <1>4, <2>1 DEF Rest
    <3>3. \A n \in DOMAIN s0.conflict : loser \notin s0.conflict[n].challenger
      BY <1>3, <2>1
    <3>4. Sound(s0, {loser}, {m})
      BY <1>3, <3>1
    <3> HIDE DEF X, Y
    <3>5. s1 \in Memory /\ Sound(s1, {}, {m}) /\ Onward(s0, s1, {}, {})
      BY <1>3, <1>5, <3>2, <3>3, <3>4, ChallengerLeaves
    <3> QED BY <2>1, <3>1, <3>5
  <2>2. CASE loser \notin X
    <3>1. Y = X /\ loser \notin c.challenger
      BY <2>2
    <3> HIDE DEF X, Y
    <3>2. s0 \in Memory /\ Sound(s0, X, {m}) /\ m \in 1..s0.masters /\ loser \in s0.visible
      BY <1>3, <1>5
    <3>3. s1 \in Memory /\ Sound(s1, X, {m}) /\ Onward(s0, s1, {}, {}) /\ Fewer(s0, s1)
      BY <3>1, <3>2, OwnerLeaves, Zenon
    <3> QED BY <3>1, <3>3
  <2> QED BY <2>1, <2>2
<1> HIDE DEF s1
<1>7. Carries(s0, s1)
  BY <1>3, <1>6, OnwardCarries
<1>8. Sound(s2, Y, {}) /\ Calm(s1, s2)
  BY <1>6, UnlinkSound
<1> HIDE DEF s2
<1>9. s2 \in Memory /\ Carries(s1, s2)
  BY <1>6, <1>8, CalmCarries
<1>10. CASE winner \notin X
  <2>1. Y = {}
    BY <1>2, <1>10
  <2>2. r = s2
    BY <1>1, <1>10 DEF WinnerTakes
  <2> QED BY <1>5, <1>7, <1>8, <1>9, <2>1, <2>2 DEF Carries
<1>11. CASE winner \in X
  <2>1. Y = {winner} /\ loser \notin X /\ winner \in c.challenger
    BY <1>2, <1>11
  <2>2. winner \notin DOMAIN s2.bound
    BY <1>2, <1>3, <1>6, <1>8, <1>11, <2>1 DEF Rest, Calm, Keeps, Fewer
  <2>3. \A n \in DOMAIN s2.conflict : winner \notin s2.conflict[n].challenger
    <3>1. \A n \in DOMAIN s2.conflict : n \in DOMAIN s1.conflict /\ s2.conflict[n] = s1.conflict[n]
      BY <1>8 DEF Calm, Keeps
    <3> QED BY <1>3, <1>6, <1>11, <2>1, <3>1 DEF Fewer
  <2> HIDE DEF r, X, Y
  <2>4. Sound(s2, {winner}, {})
    BY <1>8, <2>1
  <2>5. r \in Memory /\ Sound(r, {}, {}) /\ Carries(s2, r)
    BY <1>1, <1>2, <1>9, <2>1, <2>2, <2>3, <2>4, WinnerSound
  <2> QED BY <1>5, <1>7, <1>9, <2>5 DEF Carries, r
<1> QED BY <1>10, <1>11

LEMMA ArbitrateSettled ==
  ASSUME NEW W, Proper(mem, W), Settled, Alone, Arbitrate
  PROVE  Settled'
<1> DEFINE x == worker[1]
           m == x.master
<1>0. /\ mem \in Memory /\ Existing(mem) /\ OneChallenger(mem) /\ Sound(mem, {}, {})
      /\ worker # << >> /\ x.type # "intake" /\ queue' = queue /\ worker' = << >>
  BY DEF Proper, Settled, Arbitrate
<1>1. x \in Task /\ Fitting(mem, x) /\ Due(mem, queue, << x >>)
  BY <1>0, HandFacts
<1>2. \/ ~Live(mem, x) /\ mem' = mem
      \/ Live(mem, x) /\ ~StillContested(mem, m) /\ mem' = CancelConflicts(mem, {m})
      \/ Live(mem, x) /\ mem' = Resubmittable(mem, m)
      \/ /\ Live(mem, x) /\ StillContested(mem, m)
         /\ \E winner, loser \in mem.conflict[m].cands, stillMatches \in BOOLEAN :
              winner # loser /\ mem' = Resolve(mem, m, winner, loser, stillMatches)
  BY <1>0 DEF Arbitrate, Live
<1>3. CASE mem' = mem
  BY <1>0, <1>3, IdleSettled
<1>4. ASSUME NEW r \in Memory, mem' = r, Sound(r, {}, {}), NEW F, Onward(mem, r, {}, F),
             \A n \in F : n = m /\ Live(mem, x)
      PROVE  Settled'
  <2>1. Due(r, queue, << >>)
    BY <1>0, <1>1, <1>4, DueDone
  <2> QED BY <1>0, <1>4, <2>1 DEF Settled
<1>5. ASSUME NEW r \in Memory, mem' = r, Sound(r, {}, {}), Carries(mem, r)
      PROVE  Settled'
  <2>1. Due(r, queue, << x >>)
    BY <1>1, <1>5 DEF Carries
  <2>2. Onward(r, r, {}, {})
    BY CalmSelf, CalmOnward
  <2>3. Due(r, queue, << >>)
    BY <1>0, <2>1, <2>2, DueDone
  <2> QED BY <1>0, <1>5, <2>3 DEF Settled
<1>6. CASE mem' = CancelConflicts(mem, {m})
  <2> DEFINE r == CancelConflicts(mem, {m})
  <2>1. Sound(r, {}, {}) /\ Calm(mem, r)
    BY <1>0, CancelSound
  <2> HIDE DEF r
  <2>2. r \in Memory /\ Carries(mem, r)
    BY <1>0, <2>1, CalmCarries
  <2>3. mem' = r
    BY <1>6 DEF r
  <2> QED BY <1>5, <2>1, <2>2, <2>3
<1>7. CASE Live(mem, x) /\ mem' = Resubmittable(mem, m)
  <2> DEFINE r == Resubmittable(mem, m)
  <2>1. m \in DOMAIN mem.conflict
    BY <1>0, <1>7 DEF Live
  <2> HIDE DEF m
  <2>2. r \in Memory /\ Sound(r, {}, {}) /\ Onward(mem, r, {}, {m})
    BY <1>0, <2>1, ResubmitSound
  <2>3. mem' = r
    BY <1>7
  <2> HIDE DEF r
  <2> QED BY <1>4, <1>7, <2>2, <2>3
<1>8. ASSUME Live(mem, x), StillContested(mem, m), NEW winner \in mem.conflict[m].cands,
             NEW loser \in mem.conflict[m].cands, NEW stillMatches \in BOOLEAN,
             winner # loser, mem' = Resolve(mem, m, winner, loser, stillMatches)
      PROVE  Settled'
  <2> DEFINE r == Resolve(mem, m, winner, loser, stillMatches)
  <2>1. m \in DOMAIN mem.conflict /\ mem.conflict[m].submitted
    BY <1>0, <1>1, <1>8 DEF Live, Fitting
  <2> HIDE DEF m
  <2>2. r \in Memory /\ Sound(r, {}, {}) /\ Carries(mem, r)
    BY <1>0, <1>8, <2>1, ResolveSound
  <2>3. mem' = r
    BY <1>8
  <2> HIDE DEF r
  <2> QED BY <1>5, <2>2, <2>3
<1> QED BY <1>2, <1>3, <1>6, <1>7, <1>8

-----------------------------------------------------------------------------
(* The invariant of the whole, with what an intake waits for.               *)

Answering == Safe /\ Settled /\ Alone

LEMMA AloneStep ==
  ASSUME Alone, Next
  PROVE  Alone'
<1>1. CASE worker' = << >>
  BY <1>1 DEF Alone
<1>2. CASE worker' = worker
  BY <1>2 DEF Alone
<1>3. ASSUME NEW c \in Cameras, Observe(c)
      PROVE  Alone'
  <2>1. PICK gone : worker' = Left(worker, gone)
    BY <1>3 DEF Observe
  <2> DEFINE e(y) == IF y.type = "intake" /\ y.track \in gone THEN [y EXCEPT !.left = TRUE] ELSE y
             x == worker[1]
             y == e(x)
  <2>2. worker' = [i \in DOMAIN worker |-> e(worker[i])]
    BY <2>1 DEF Left
  <2> HIDE DEF e
  <2>3. CASE worker = << >>
    BY <2>2, <2>3 DEF Alone
  <2>4. CASE worker = << x >>
    <3>1. DOMAIN << x >> = {1} /\ << x >>[1] = x
      OBVIOUS
    <3>2. worker' = [i \in {1} |-> y]
      BY <2>2, <2>4, <3>1
    <3> HIDE DEF x, y
    <3>3. [i \in {1} |-> y] = << y >>
      OBVIOUS
    <3>4. worker' = << y >> /\ worker'[1] = y
      BY <3>2, <3>3
    <3> QED BY <3>4 DEF Alone
  <2> QED BY <2>3, <2>4 DEF Alone
<1>4. CASE Take
  <2> DEFINE h == Head(queue)
  <2>1. worker' = << >> \/ worker' = << h >>
    BY <1>4 DEF Take
  <2> HIDE DEF h
  <2>2. worker' = << h >> => worker'[1] = h
    OBVIOUS
  <2> QED BY <2>1, <2>2 DEF Alone
<1>5. ASSUME NEW t \in Tracks, Assign(t) PROVE Alone'
  BY <1>2, <1>5 DEF Assign
<1>6. ASSUME NEW pair \in Pairs, HoldPair(pair) \/ ReleasePair(pair) PROVE Alone'
  BY <1>2, <1>6 DEF HoldPair, ReleasePair
<1>7. CASE Fail \/ Analyse \/ Arbitrate
  BY <1>1, <1>7 DEF Fail, Analyse, Arbitrate
<1> QED BY <1>3, <1>4, <1>5, <1>6, <1>7 DEF Next

LEMMA SettledStep ==
  ASSUME Answering, Next
  PROVE  Settled'
<1>0. Proper(mem, crossWon) /\ Tasks /\ mem \in Memory /\ Settled /\ Alone
  BY DEF Answering, Safe, Proper
<1>1. ASSUME NEW c \in Cameras, Observe(c) PROVE Settled'
  BY <1>0, <1>1, ObserveSettled
<1>2. ASSUME NEW t \in Tracks, Assign(t) PROVE Settled'
  BY <1>0, <1>2, AssignSettled
<1>3. ASSUME NEW pair \in Pairs, HoldPair(pair) \/ ReleasePair(pair) PROVE Settled'
  BY <1>0, <1>3, HoldsSettled
<1>4. CASE Take
  BY <1>0, <1>4, TakeSettled
<1>5. CASE Fail
  BY <1>0, <1>5, FailSettled
<1>6. CASE Analyse
  BY <1>0, <1>6, AnalyseSettled
<1>7. CASE Arbitrate
  BY <1>0, <1>7, ArbitrateSettled
<1> QED BY <1>1, <1>2, <1>3, <1>4, <1>5, <1>6, <1>7 DEF Next

LEMMA SettledStart ==
  ASSUME Init
  PROVE  Settled /\ Alone
<1>1. DOMAIN << >> = {}
  OBVIOUS
<1>2. /\ DOMAIN mem.conflict = {} /\ DOMAIN mem.intake = {} /\ DOMAIN mem.recovery = {}
      /\ \A t \in Tracks : mem.rejected[t] = {}
  BY <1>1 DEF Init
<1>3. Sound(mem, {}, {})
  BY <1>2 DEF Sound, Bouts, Challengers, Waits, Losses, Links
<1>4. Under(queue, worker) = {} /\ DOMAIN queue = {}
  BY <1>1 DEF Under, Init
<1>5. Due(mem, queue, worker)
  BY <1>2, <1>4 DEF Due, Owed, Apart
<1> QED BY <1>3, <1>5 DEF Settled, Alone, Init

LEMMA AnsweringStep == Answering /\ [Next]_vars => Answering'
<1>1. CASE Next
  BY <1>1, Step, SettledStep, AloneStep DEF Answering
<1>2. CASE UNCHANGED vars
  <2>1. Safe => Safe'
    BY <1>2, SafeStep
  <2>2. mem' = mem /\ queue' = queue /\ worker' = worker
    BY <1>2 DEF vars
  <2>3. Settled => Settled'
    BY <2>2 DEF Settled
  <2>4. Alone => Alone'
    BY <2>2 DEF Alone
  <2> QED BY <2>1, <2>3, <2>4 DEF Answering
<1> QED BY <1>1, <1>2

\* The contests of a sound memory are of two candidates, live.
LEMMA LiveContests ==
  ASSUME mem \in Memory, Sound(mem, {}, {})
  PROVE  ContestIsLive
<1>1. \A t \in DOMAIN mem.recovery : mem.recovery[t] \subseteq DOMAIN mem.conflict
  BY DEF Sound, Links
<1>2. ASSUME NEW m \in DOMAIN mem.conflict
      PROVE  LET c == mem.conflict[m]
             IN /\ Cardinality(c.cands) = 2
                /\ c.challenger \subseteq c.ready /\ c.ready \subseteq c.cands
                /\ \A t \in c.cands \ c.challenger : t \in DOMAIN mem.bound /\ mem.bound[t] = m
                /\ \A t \in c.challenger :
                     /\ t \in DOMAIN mem.intake /\ mem.intake[t].gen = c.gen
                     /\ mem.intake[t].submitted /\ "contest" \in mem.intake[t].deferred
  <2> DEFINE c == mem.conflict[m]
  <2>1. PICK t \in Tracks, u \in Tracks : t # u /\ c.cands = {t, u}
    BY DEF Sound, Bouts
  <2>2. Cardinality({t, u}) = 2
    <3>1. IsFiniteSet({t}) /\ Cardinality({t}) = 1
      BY FS_Singleton
    <3>2. Cardinality({t} \cup {u}) = Cardinality({t}) + 1
      BY <2>1, <3>1, FS_AddElement
    <3>3. {t} \cup {u} = {t, u}
      OBVIOUS
    <3> QED BY <3>1, <3>2, <3>3
  <2>3. c.challenger \subseteq c.ready /\ c.ready \subseteq c.cands
    BY DEF Sound, Bouts
  <2>4. \A x \in c.cands \ c.challenger : x \in DOMAIN mem.bound /\ mem.bound[x] = m
    BY DEF Sound, Bouts
  <2>5. ASSUME NEW x \in c.challenger
        PROVE  /\ x \in DOMAIN mem.intake /\ mem.intake[x].gen = c.gen
               /\ mem.intake[x].submitted /\ "contest" \in mem.intake[x].deferred
    <3>1. x \in DOMAIN mem.intake /\ mem.intake[x].gen = c.gen /\ "contest" \in mem.intake[x].deferred
      BY DEF Sound, Challengers
    <3>2. mem.intake[x].submitted
      BY <3>1 DEF Sound, Waits
    <3> QED BY <3>1, <3>2
  <2> HIDE DEF c
  <2>6. Cardinality(c.cands) = 2
    BY <2>1, <2>2
  <2> QED BY <2>3, <2>4, <2>5, <2>6 DEF c
<1> QED BY <1>1, <1>2 DEF ContestIsLive

\* An intake waits for its task, or for what has put it off.
LEMMA IntakesAnswered ==
  ASSUME mem \in Memory, Settled
  PROVE  OrdinaryIntakeAnswered
<1> SUFFICES ASSUME NEW t \in DOMAIN mem.intake, mem.intake[t].submitted,
                    mem.intake[t].handoff = {} \/ t \in DOMAIN mem.shadow
             PROVE  Answered(t)
  BY DEF OrdinaryIntakeAnswered
<1>1. CASE mem.intake[t].deferred = {}
  <2>1. Waiting(mem, t)
    BY <1>1 DEF Waiting
  <2>2. PICK x \in Under(queue, worker) : x.type = "intake" /\ x.track = t /\ x.gen = mem.intake[t].gen
    BY <2>1 DEF Settled, Due, Owed
  <2>3. x \in TaskOf(t)
    BY <2>2 DEF TaskOf, Under
  <2> QED BY <2>3 DEF Answered
<1>2. ASSUME NEW f \in mem.intake[t].deferred
      PROVE  Answered(t)
  <2>1. Excused(mem, t, f)
    BY DEF Settled, Sound, Waits
  <2>2. CASE f = "hold" /\ mem.holds[t] # {}
    BY <2>2 DEF Answered
  <2>3. CASE f = "recovery" /\ t \in DOMAIN mem.recovery
    BY <2>3 DEF Answered
  <2>4. CASE \E m \in DOMAIN mem.conflict : t \in mem.conflict[m].challenger
    <3>1. PICK m \in DOMAIN mem.conflict : t \in mem.conflict[m].challenger
      BY <2>4
    <3>2. mem.conflict[m].gen = mem.intake[t].gen
      BY <3>1 DEF Settled, Sound, Challengers
    <3> QED BY <3>1, <3>2 DEF Answered
  <2> QED BY <2>1, <2>2, <2>3, <2>4 DEF Excused
<1> QED BY <1>1, <1>2

-----------------------------------------------------------------------------
(* A track does not get back a master it was barred from.                   *)

Permitted(s, r) ==
  \A t \in DOMAIN r.bound : \/ t \in DOMAIN s.bound /\ r.bound[t] = s.bound[t]
                            \/ t \in Tracks /\ r.bound[t] \notin s.rejected[t]

LEMMA PermittedGain ==
  ASSUME Permitted(mem, mem'), NEW t \in Tracks, Gained(t)
  PROVE  mem'.bound[t] \notin mem.rejected[t]
BY DEF Permitted, Gained

\* A step in which nobody gains, or only a track that nothing is barred to.
LEMMA NobodyGains ==
  ASSUME NEW s \in Memory, NEW r \in Memory, NEW G, Moves(s, r, G),
         \A t \in G : t \in Tracks /\ s.rejected[t] = {}
  PROVE  Permitted(s, r)
BY DEF Moves, Permitted

LEMMA KeepsPermitted ==
  ASSUME NEW s, NEW r, Keeps(s, r)
  PROVE  Permitted(s, r)
BY DEF Keeps, Permitted

\* A shadow is barred from nothing; no other track gains in the camera loop.
LEMMA AssignPermitted ==
  ASSUME NEW W, Proper(mem, W), Settled, NEW t \in Tracks, Assign(t)
  PROVE  Permitted(mem, mem')
<1>0. mem \in Memory /\ Sound(mem, {}, {})
  BY DEF Proper, Settled
<1>1. Moves(mem, mem', {t}) /\ mem' \in Memory
  BY AssignStep DEF Proper
<1>2. CASE t \in DOMAIN mem.shadow
  <2>1. mem.rejected[t] = {}
    BY <1>0, <1>2 DEF Sound, Losses
  <2> QED BY <1>0, <1>1, <2>1, NobodyGains
<1>3. CASE t \notin DOMAIN mem.shadow
  <2>1. PICK reset \in BOOLEAN, keep \in BOOLEAN :
          LET s == Arrive(mem, t, reset, keep)
          IN AssignHidden(t, s) \/ AssignServed(t, s) \/ AssignPromoted(t, s)
    BY DEF Assign
  <2> DEFINE s == Arrive(mem, t, reset, keep)
  <2>2. AssignHidden(t, s) \/ AssignServed(t, s) \/ AssignPromoted(t, s)
    BY <2>1
  <2>3. Keeps(mem, s)
    BY <1>0, ArriveKeeps
  <2> HIDE DEF s
  <2>4. Proper(s, W) /\ Moves(mem, s, {}) /\ s \in Memory /\ t \notin DOMAIN s.shadow
    BY <1>3, <2>3, KeepsProper DEF Keeps
  <2>5. CASE AssignHidden(t, s)
    BY <2>3, <2>5, KeepsPermitted DEF AssignHidden
  <2>6. CASE AssignServed(t, s)
    <3>1. Serve(s, t, {}, {})
      BY <2>4, <2>6 DEF AssignServed, Target, CanonicalOf
    <3>2. {} \in SUBSET (1..s.masters) /\ {} \in SUBSET Tracks
      OBVIOUS
    <3>3. Moves(s, mem', {})
      BY <1>0, <2>4, <3>1, <3>2, ServeGives
    <3>4. Moves(mem, mem', {} \cup {})
      BY <1>0, <1>1, <2>4, <3>3, MovesOn
    <3> QED BY <1>0, <1>1, <3>4, NobodyGains
  <2>7. CASE AssignPromoted(t, s)
    BY <2>4, <2>7 DEF AssignPromoted, IsVerified
  <2> QED BY <2>2, <2>5, <2>6, <2>7
<1> QED BY <1>2, <1>3

LEMMA BindPermitted ==
  ASSUME NEW s \in Memory, NEW r, Keeps(s, r), NEW t \in Tracks, NEW m, m \notin s.rejected[t],
         NEW q, q.bound = r.bound
  PROVE  Permitted(s, Bind(q, t, m))
<1> DEFINE f == Bind(q, t, m).bound
<1>1. f = Set(q.bound, t, m)
  BY DEF Bind, DropRecovery
<1>2. DOMAIN Set(q.bound, t, m) = DOMAIN q.bound \cup {t}
  BY SetDomain
<1>3. Set(q.bound, t, m)[t] = m
  BY SetHere
<1>4. \A u \in DOMAIN q.bound \ {t} : Set(q.bound, t, m)[u] = q.bound[u]
  BY SetElsewhere
<1> HIDE DEF f
<1>5. \A u \in DOMAIN f : \/ u \in DOMAIN s.bound /\ f[u] = s.bound[u]
                          \/ u \in Tracks /\ f[u] \notin s.rejected[u]
  BY <1>1, <1>2, <1>3, <1>4 DEF Keeps
<1> QED BY <1>5 DEF Permitted, f

LEMMA MatchPermitted ==
  ASSUME mem \in Memory, NEW s, Keeps(mem, s), NEW t \in Tracks, NEW m, m \notin mem.rejected[t],
         NEW look, Match(s, t, m, look)
  PROVE  Permitted(mem, mem')
<1> DEFINE s1 == ClearNonvisibleOwners(s, m, t)
<1>1. mem' = Bind(s1, t, m) \/ mem' = Retry(s1, t, m)
  BY DEF Match
<1>2. Keeps(mem, s1)
  <2>1. Keeps(s, s1)
    BY ClearNonvisibleKeeps DEF Keeps
  <2> HIDE DEF s1
  <2> QED BY <2>1, KeepsOn
<1> HIDE DEF s1
<1>3. CASE mem' = Bind(s1, t, m)
  BY <1>2, <1>3, BindPermitted
<1>4. CASE mem' = Retry(s1, t, m)
  <2>1. mem'.bound = s1.bound
    BY <1>2, <1>4 DEF Retry, Keeps, Memory
  <2> QED BY <1>2, <2>1 DEF Keeps, Permitted
<1> QED BY <1>1, <1>3, <1>4

\* A master that is created is new to every track.
LEMMA WaitPermitted ==
  ASSUME mem \in Memory, Sound(mem, {}, {}), NEW task, task.track \in Tracks, WaitOrCreate(task)
  PROVE  Permitted(mem, mem')
<1> DEFINE t == task.track
           s == AfterVeto(task)
           next == s.masters + 1
           released == Refresh(s, t, FALSE)
<1>1. Keeps(mem, s) /\ s \in Memory
  BY VetoKeeps DEF Keeps
<1>2. \/ mem' = Defer(Refresh(s, t, TRUE), t, "recovery")
      \/ mem' = Defer(released, t, "hold")
      \/ mem' = Bind([released EXCEPT !.masters = next], t, next)
  BY DEF WaitOrCreate
<1>3. ASSUME NEW keep \in BOOLEAN, NEW flag \in {"hold", "recovery", "contest"},
             mem' = Defer(Refresh(s, t, keep), t, flag)
      PROVE  Permitted(mem, mem')
  <2> DEFINE r == Refresh(s, t, keep)
  <2>1. Keeps(s, r) /\ r \in Memory
    BY <1>1, RefreshKeeps DEF Keeps
  <2>2. mem' = Defer(r, t, flag)
    BY <1>3
  <2> HIDE DEF r, s
  <2>3. Keeps(mem, r) /\ Keeps(r, mem')
    BY <1>1, <2>1, <2>2, KeepsOn, DeferKeeps
  <2> QED BY <2>3, KeepsOn, KeepsPermitted
<1>4. CASE mem' = Bind([released EXCEPT !.masters = next], t, next)
  <2> DEFINE q == [released EXCEPT !.masters = next]
  <2>1. Keeps(s, released)
    BY <1>1, RefreshKeeps
  <2>2. next \notin mem.rejected[t]
    <3>1. mem.rejected[t] \subseteq 1..mem.masters /\ mem.masters \in Nat
      BY MemoryFacts DEF Sound, Losses
    <3>2. s.masters = mem.masters
      BY <1>1 DEF Keeps
    <3> HIDE DEF s
    <3> QED BY <3>1, <3>2
  <2> HIDE DEF released, s
  <2>3. Keeps(mem, released)
    BY <1>1, <2>1, KeepsOn
  <2> HIDE DEF next
  <2>4. q.bound = released.bound
    BY <2>3 DEF Keeps, Memory
  <2> HIDE DEF q
  <2>5. mem' = Bind(q, t, next)
    BY <1>4 DEF q
  <2> QED BY <2>2, <2>3, <2>4, <2>5, BindPermitted
<1> QED BY <1>2, <1>3, <1>4

LEMMA AnalysePermitted ==
  ASSUME NEW W, Proper(mem, W), Tasks, Settled, Alone, Analyse
  PROVE  Permitted(mem, mem')
<1> DEFINE x == worker[1]
           t == x.track
           s == AfterVeto(x)
<1>0. /\ mem \in Memory /\ worker # << >> /\ x.type = "intake" /\ Sound(mem, {}, {})
  BY DEF Proper, Analyse, Settled
<1>1. Fitting(mem, x) /\ t \in Tracks
  BY <1>0, HandFacts
<1>2. x.handoff \subseteq 1..mem.masters
  <2>1. x \in Task /\ TaskFits(mem, x)
    BY <1>0, WorkerFacts
  <2>2. x \in IntakeTask
    BY <1>0, HandFacts DEF Settled
  <2> QED BY <2>1, <2>2 DEF TaskFits, BurstFits
<1>3. CASE Discard(x)
  BY <1>0, <1>3, KeepsSelf, KeepsPermitted DEF Discard
<1>4. ASSUME IsCurrent(mem, t, x.gen), ~HandoffGone(mem, x), NEW look,
             \/ VerifyDuplicate(x, look)
             \/ FollowHandoff(x, look)
             \/ \E away \in SUBSET {m \in 1..mem.masters :
                         OwnersElsewhere(mem, m, t) # {} /\ look[m] # "far"} :
                  MatchOrdinary(x, look, away) \/ Unmatched(x, look, away)
      PROVE  Permitted(mem, mem')
  <2>1. /\ t \in DOMAIN mem.intake /\ mem.intake[t].handoff = x.handoff
        /\ mem.rejected[t] \subseteq x.excluded
    <3>1. Live(mem, x)
      BY <1>0, <1>4 DEF Live, IsCurrent
    <3> QED BY <1>0, <1>1, <1>4, <3>1 DEF Fitting, IsCurrent
  <2>2. Keeps(mem, s)
    BY <1>0, VetoKeeps
  <2> HIDE DEF s
  <2>3. CASE VerifyDuplicate(x, look)
    <3>1. t \in DOMAIN mem.shadow
      BY <1>4, <2>3 DEF VerifyDuplicate, HandoffGone
    <3> QED BY <1>0, <1>2, <2>3, <3>1, VerifyKeeps, KeepsPermitted
  <2>4. CASE FollowHandoff(x, look)
    <3>1. PICK m \in x.handoff : Match(mem, t, m, look)
      BY <2>4 DEF FollowHandoff
    <3>2. m \notin mem.rejected[t]
      BY <1>0, <2>1 DEF Sound, Waits
    <3> HIDE DEF t, x
    <3> QED BY <1>0, <1>1, <3>1, <3>2, KeepsSelf, MatchPermitted
  <2>5. ASSUME NEW away, MatchOrdinary(x, look, away)
        PROVE  Permitted(mem, mem')
    <3>1. PICK m \in Best(look, Eligible(x, look, away)) : Match(s, t, m, look)
      BY <2>5 DEF MatchOrdinary, s
    <3>2. m \notin mem.rejected[t]
      BY <2>1 DEF Best, Eligible, Excluded
    <3> HIDE DEF t, x
    <3> QED BY <1>0, <1>1, <2>2, <3>1, <3>2, MatchPermitted
  <2>6. ASSUME NEW m, NEW incumbent, mem' = StartClaim(s, t, m, incumbent)
        PROVE  Permitted(mem, mem')
    <3> DEFINE s1 == CancelConflicts(s, {m})
    <3>1. Keeps(s, s1)
      BY <2>2, CancelConflictsKeeps DEF Keeps
    <3>2. mem'.bound = s1.bound
      <4>1. s1 \in Memory
        BY <3>1 DEF Keeps
      <4> HIDE DEF t
      <4> QED BY <2>6, <4>1 DEF StartClaim, Memory
    <3> HIDE DEF s1
    <3>3. Keeps(mem, s1)
      BY <1>0, <2>2, <3>1, KeepsOn
    <3> QED BY <3>2, <3>3 DEF Keeps, Permitted
  <2>7. ASSUME NEW away, Unmatched(x, look, away)
        PROVE  Permitted(mem, mem')
    <3>1. CASE ClaimFarMaster(x, look, away)
      <4>1. \E m, incumbent : mem' = StartClaim(s, t, m, incumbent)
        BY <3>1 DEF ClaimFarMaster, s
      <4> QED BY <2>6, <4>1
    <3>2. CASE ClaimBlockedMaster(x, look)
      <4>1. \E m, incumbent : mem' = StartClaim(s, t, m, incumbent)
        BY <3>2 DEF ClaimBlockedMaster, s
      <4> QED BY <2>6, <4>1
    <3>3. CASE WaitOrCreate(x)
      BY <1>0, <1>1, <3>3, WaitPermitted
    <3> QED BY <2>7, <3>1, <3>2, <3>3 DEF Unmatched
  <2> QED BY <1>4, <2>3, <2>4, <2>5, <2>7
<1> QED BY <1>3, <1>4 DEF Analyse

\* A contest is won by an owner, or by a challenger the master is not barred to.
LEMMA ResolvePermitted ==
  ASSUME NEW s \in Memory, Sound(s, {}, {}), NEW m \in DOMAIN s.conflict,
         NEW winner \in s.conflict[m].cands, NEW loser \in s.conflict[m].cands, NEW stillMatches \in BOOLEAN
  PROVE  Permitted(s, Resolve(s, m, winner, loser, stillMatches))
<1> DEFINE c == s.conflict[m]
           f == Without(s.conflict, {m})
           s0 == [s EXCEPT !.conflict = Without(@, {m})]
           s1 == LoserLeaves(s0, m, loser, c, stillMatches)
           s2 == ReleaseRecovery(s1, Linked(s1, {m}))
           s3 == ClearNonvisibleOwners(s2, m, winner)
           r == Resolve(s, m, winner, loser, stillMatches)
<1>1. m \in Nat /\ winner \in Tracks /\ loser \in Tracks
  <2>1. m \in Nat /\ s.conflict[m] \in Conflict
    BY MemoryFacts
  <2> QED BY <2>1 DEF Conflict
<1>2. Keeps(s, s0)
  <2>1. Calm(s, s0)
    BY EndSound
  <2> QED BY <2>1 DEF Calm
<1>3. r = WinnerTakes(s2, m, winner, c)
  BY DEF Resolve
<1>4. winner \in c.challenger => m \notin s.rejected[winner]
  BY DEF Sound, Challengers
<1> HIDE DEF s0, c, r
<1>5. Keeps(s0, s1) /\ s1 \in Memory
  BY <1>1, <1>2, LoserKeeps DEF Keeps
<1> HIDE DEF s1
<1>6. Keeps(s1, s2) /\ s2 \in Memory
  <2>1. Keeps(s1, s2)
    BY <1>5, ReleaseRecoveryKeeps
  <2> QED BY <2>1 DEF Keeps
<1> HIDE DEF s2
<1>7. Keeps(s2, s3)
  BY <1>1, <1>6, ClearNonvisibleKeeps
<1>8. Keeps(s, s2)
  BY <1>2, <1>5, <1>6, KeepsOn
<1>9. CASE winner \notin c.challenger
  <2>1. r = s2
    BY <1>3, <1>9 DEF WinnerTakes
  <2> QED BY <1>8, <2>1, KeepsPermitted DEF r
<1>10. CASE winner \in c.challenger
  <2>1. r = [s3 EXCEPT !.bound = Set(@, winner, m), !.rejected[winner] = {},
                     !.intake = Without(@, {winner}), !.shadow = Without(@, {winner})]
    BY <1>3, <1>10 DEF WinnerTakes
  <2> HIDE DEF s3
  <2>2. Keeps(s, s3)
    BY <1>7, <1>8, KeepsOn
  <2> DEFINE b == Set(s3.bound, winner, m)
  <2>3. r.bound = b
    BY <2>1, <2>2 DEF Keeps, Memory
  <2>4. DOMAIN b = DOMAIN s3.bound \cup {winner}
    BY SetDomain
  <2>5. b[winner] = m
    BY SetHere
  <2>6. \A u \in DOMAIN s3.bound \ {winner} : b[u] = s3.bound[u]
    BY SetElsewhere
  <2> HIDE DEF b
  <2> QED BY <1>1, <1>4, <1>10, <2>2, <2>3, <2>4, <2>5, <2>6 DEF Keeps, Permitted, r
<1> QED BY <1>9, <1>10 DEF r

LEMMA PermittedStep ==
  ASSUME Answering, Next
  PROVE  \A t \in Tracks : Gained(t) => mem'.bound[t] \notin mem.rejected[t]
<1> SUFFICES Permitted(mem, mem')
  BY PermittedGain
<1>0. Proper(mem, crossWon) /\ Tasks /\ mem \in Memory /\ Settled /\ Alone /\ Sound(mem, {}, {})
  BY DEF Answering, Safe, Proper, Settled
<1>1. ASSUME Keeps(mem, mem') \/ mem' = mem
      PROVE  Permitted(mem, mem')
  BY <1>0, <1>1, KeepsSelf, KeepsPermitted
<1>2. ASSUME NEW c \in Cameras, Observe(c) PROVE Permitted(mem, mem')
  <2>1. Proper(mem', crossWon) /\ Moves(mem, mem', {})
    BY <1>0, <1>2, ObserveStep
  <2> QED BY <1>0, <2>1, NobodyGains DEF Proper
<1>3. ASSUME NEW t \in Tracks, Assign(t) PROVE Permitted(mem, mem')
  BY <1>0, <1>3, AssignPermitted
<1>4. ASSUME NEW pair \in Pairs, HoldPair(pair) \/ ReleasePair(pair) PROVE Permitted(mem, mem')
  <2>1. Proper(mem', crossWon) /\ Moves(mem, mem', {})
    BY <1>0, <1>4, HoldsStep
  <2> QED BY <1>0, <2>1, NobodyGains DEF Proper
<1>5. CASE Take
  BY <1>1, <1>5 DEF Take
<1>6. CASE Fail
  <2>1. Proper(mem', crossWon) /\ Moves(mem, mem', {})
    BY <1>0, <1>6, FailStep
  <2> QED BY <1>0, <2>1, NobodyGains DEF Proper
<1>7. CASE Analyse
  BY <1>0, <1>7, AnalysePermitted
<1>8. CASE Arbitrate
  <2> DEFINE m == worker[1].master
  <2>1. ASSUME m \in DOMAIN mem.conflict, mem' = Resubmittable(mem, m) PROVE Permitted(mem, mem')
    BY <1>0, <1>1, <2>1, ResubmitKeeps
  <2>2. ASSUME mem' = CancelConflicts(mem, {m}) PROVE Permitted(mem, mem')
    BY <1>0, <1>1, <2>2, CancelConflictsKeeps
  <2>3. ASSUME m \in DOMAIN mem.conflict, NEW winner \in mem.conflict[m].cands,
               NEW loser \in mem.conflict[m].cands, NEW stillMatches \in BOOLEAN,
               mem' = Resolve(mem, m, winner, loser, stillMatches)
        PROVE  Permitted(mem, mem')
    <3> HIDE DEF m
    <3> QED BY <1>0, <2>3, ResolvePermitted
  <2> QED BY <1>1, <1>8, <2>1, <2>2, <2>3 DEF Arbitrate
<1> QED BY <1>2, <1>3, <1>4, <1>5, <1>6, <1>7, <1>8 DEF Next

-----------------------------------------------------------------------------
(* The types.                                                               *)

Typed == Answering /\ crossWon \subseteq Nat

LEMMA TypedStep == Typed /\ [Next]_vars => Typed'
<1> SUFFICES ASSUME Typed, [Next]_vars PROVE Typed'
  OBVIOUS
<1>1. DOMAIN mem.conflict \subseteq Nat
  BY MemoryFacts DEF Typed, Answering, Safe, Proper
<1>2. CASE crossWon' = crossWon
  BY <1>2, AnsweringStep DEF Typed
<1>3. CASE Arbitrate
  <2>1. crossWon' \subseteq Nat
    BY <1>1, <1>3 DEF Arbitrate, Typed
  <2> QED BY <2>1, AnsweringStep DEF Typed
<1>4. crossWon' = crossWon \/ Arbitrate
  BY DEF Next, vars, Observe, Assign, HoldPair, ReleasePair, Take, Fail, Analyse
<1> QED BY <1>2, <1>3, <1>4

LEMMA TypesOf ==
  ASSUME Typed
  PROVE  TypeOK
<1>0. mem \in Memory /\ queue \in Seq(Task) /\ worker \in Seq(Task) /\ crossWon \subseteq Nat
  BY DEF Typed, Answering, Safe, Proper, Tasks
<1>1. \A D, R, f : f \in Dict(D, R) => IsDict(f, D, R)
  BY DictFacts DEF IsDict
<1>2. /\ mem.visible \subseteq Tracks /\ mem.masters \in Nat /\ mem.gen \in [Tracks -> Nat]
      /\ mem.holds \in [Tracks -> SUBSET Pairs] /\ mem.rejected \in [Tracks -> SUBSET Nat]
      /\ mem.token \in Nat
  BY <1>0 DEF Memory
<1>3. /\ mem.bound \in Dict(Tracks, Nat) /\ mem.tentative \in Dict(Tracks, Nat)
      /\ mem.intake \in Dict(Tracks, Intake) /\ mem.shadow \in Dict(Tracks, Shadow)
      /\ mem.recovery \in Dict(Tracks, SUBSET Nat) /\ mem.conflict \in Dict(Nat, Conflict)
  BY <1>0 DEF Memory
<1>4. Len(worker) <= 1
  <2> DEFINE x == worker[1]
  <2>1. worker = << >> \/ worker = << x >>
    BY DEF Typed, Answering, Alone
  <2> HIDE DEF x
  <2>2. Len(<< >>) = 0 /\ Len(<< x >>) = 1
    OBVIOUS
  <2>3. CASE worker = << >>
    BY <2>2, <2>3
  <2>4. CASE worker = << x >>
    BY <2>2, <2>4
  <2> QED BY <2>1, <2>3, <2>4
<1> QED BY <1>0, <1>1, <1>2, <1>3, <1>4 DEF TypeOK

-----------------------------------------------------------------------------
(* The theorems.                                                            *)

\* The memory, the queue and the worker keep their types, and the analyst has
\* one task at most.
THEOREM TypeCorrect == Spec => []TypeOK
<1>1. Init => Typed
  <2>1. Init => Answering
    BY Start, SettledStart DEF Answering
  <2>2. Init => crossWon \subseteq Nat
    BY DEF Init
  <2> QED BY <2>1, <2>2 DEF Typed
<1>2. Typed /\ [Next]_vars => Typed'
  BY TypedStep
<1>3. Typed => TypeOK
  BY TypesOf
<1> QED BY <1>1, <1>2, <1>3, PTL DEF Spec

\* Whatever the interleaving of the cameras with the analyst, a master has one
\* local owner per camera unless a challenger won it across cameras, and an
\* owner neither collects crops nor shadows another track.
THEOREM SingleOwner == Spec => []OneOwner
<1>1. Init => Safe
  BY Start
<1>2. Safe /\ [Next]_vars => Safe'
  BY SafeStep
<1>3. Safe => OneOwner
  <2> SUFFICES ASSUME Safe PROVE OneOwner
    OBVIOUS
  <2>1. OneRole
    BY DEF Safe, Proper, Roles, OneRole
  <2> QED BY <2>1 DEF Safe, Proper, Owners, OneOwner
<1> QED BY <1>1, <1>2, <1>3, PTL DEF Spec

\* However long a burst waits for the analyst, only a track in view gains a
\* master, and never by crops from before it last left the picture.
THEOREM BindsTheSeen == Spec => BindsWhatIsSeen
<1>1. Init => Safe
  BY Start
<1>2. Safe /\ [Next]_vars => Safe'
  BY SafeStep
<1>3. Safe /\ [Next]_vars => [\A t \in Tracks : Gained(t) =>
         /\ t \in mem'.visible
         /\ worker # << >> /\ worker' = << >> /\ worker[1].type = "intake" => ~worker[1].left]_vars
  BY SafeStep DEF Seen
<1> QED BY <1>1, <1>2, <1>3, PTL DEF Spec, BindsWhatIsSeen

\* A contest is between live candidates, and no loser is held for a contest
\* that has ended.
THEOREM ContestLive == Spec => []ContestIsLive
<1>1. Init => Answering
  BY Start, SettledStart DEF Answering
<1>2. Answering /\ [Next]_vars => Answering'
  BY AnsweringStep
<1>3. Answering => ContestIsLive
  BY LiveContests DEF Answering, Safe, Proper, Settled
<1> QED BY <1>1, <1>2, <1>3, PTL DEF Spec

\* No submitted intake is forgotten.
THEOREM IntakeAnswered == Spec => []OrdinaryIntakeAnswered
<1>1. Init => Answering
  BY Start, SettledStart DEF Answering
<1>2. Answering /\ [Next]_vars => Answering'
  BY AnsweringStep
<1>3. Answering => OrdinaryIntakeAnswered
  BY IntakesAnswered DEF Answering, Safe, Proper
<1> QED BY <1>1, <1>2, <1>3, PTL DEF Spec

\* Whatever the analyst finds, and however a contest ends, no track gains a
\* master that was barred to it before the step.
THEOREM BarredStayOut == Spec => LosersStayOut
<1>1. Init => Answering
  BY Start, SettledStart DEF Answering
<1>2. Answering /\ [Next]_vars => Answering'
  BY AnsweringStep
<1>3. Answering /\ [Next]_vars => [\A t \in Tracks : Gained(t) => mem'.bound[t] \notin mem.rejected[t]]_vars
  BY PermittedStep
<1> QED BY <1>1, <1>2, <1>3, PTL DEF Spec, LosersStayOut
=============================================================================
