------------------- MODULE CrossCameraProvisional_proofs -------------------
(***************************************************************************)
(* Groups and members: what an identity's record says agrees with what the *)
(* tracks are bound to, a group ends for all its tracks at once, and every *)
(* submitted intake is answered; nobody gains an identity an owner in view *)
(* has or it lost a contest for, and a member its appearance argued        *)
(* against is confirmed by its appearance alone; for any tracks, cameras,  *)
(* pairs, holds and settings.                                              *)
(*                                                                         *)
(* The methods of the memory come first: each keeps the memory in order    *)
(* (Sane) and forgets no intake (Keeps).  The steps follow.  What is       *)
(* gained and what is confirmed (Frame, Lawful) is gone through in a       *)
(* second pass, on top of the first.                                       *)
(***************************************************************************)
EXTENDS CrossCameraProvisional, FiniteSetTheorems, TLAPS

-----------------------------------------------------------------------------
(* The types of the memory.                                                 *)

Id == Groups \cup Masters
Rival == [id : Masters, rounds : 1..Rounds]
Dict(D, R) == UNION {[S -> R] : S \in SUBSET D}

Memory ==
  [visible : SUBSET Tracks, ids : Dict(Id, Record), masters : 0..MaxMasters, bound : Dict(Tracks, Id),
   done : SUBSET Tracks, gen : [Tracks -> Nat], intake : Dict(Tracks, Intake), staged : SUBSET Tracks,
   rivals : Dict(Tracks, Rival), holds : [Tracks -> SUBSET Pairs], barred : [Tracks -> SUBSET Masters],
   contest : Dict(Masters, Contest)]

LEMMA DictFacts ==
  ASSUME NEW D, NEW R, NEW f
  PROVE  f \in Dict(D, R) <=>
           f = [x \in DOMAIN f |-> f[x]] /\ DOMAIN f \subseteq D /\ \A x \in DOMAIN f : f[x] \in R
<1>1. ASSUME f \in Dict(D, R)
      PROVE  f = [x \in DOMAIN f |-> f[x]] /\ DOMAIN f \subseteq D /\ \A x \in DOMAIN f : f[x] \in R
  <2>1. PICK S \in SUBSET D : f \in [S -> R]
    BY <1>1 DEF Dict
  <2> QED BY <2>1
<1>2. ASSUME f = [x \in DOMAIN f |-> f[x]], DOMAIN f \subseteq D, \A x \in DOMAIN f : f[x] \in R
      PROVE  f \in Dict(D, R)
  <2>1. f \in [DOMAIN f -> R] /\ DOMAIN f \in SUBSET D
    BY <1>2
  <2> QED BY <2>1 DEF Dict
<1> QED BY <1>1, <1>2

LEMMA EmptyFacts ==
  ASSUME NEW D, NEW R
  PROVE  << >> \in Dict(D, R) /\ DOMAIN << >> = {}
<1>1. << >> \in [{} -> R] /\ DOMAIN << >> = {}
  OBVIOUS
<1> QED BY <1>1 DEF Dict

\* dict.pop leaves the rest, and an assignment to a key, too.
LEMMA WithoutFacts ==
  ASSUME NEW D, NEW R, NEW f \in Dict(D, R), NEW S
  PROVE  /\ Without(f, S) \in Dict(D, R)
         /\ DOMAIN Without(f, S) = DOMAIN f \ S
         /\ \A x \in DOMAIN Without(f, S) : Without(f, S)[x] = f[x]
<1>1. f = [x \in DOMAIN f |-> f[x]] /\ DOMAIN f \subseteq D /\ \A x \in DOMAIN f : f[x] \in R
  BY DictFacts
<1> DEFINE g == [x \in DOMAIN f \ S |-> f[x]]
<1>2. g \in Dict(D, R)
  <2>1. g = [x \in DOMAIN g |-> g[x]] /\ DOMAIN g \subseteq D /\ \A x \in DOMAIN g : g[x] \in R
    BY <1>1
  <2> HIDE DEF g
  <2> QED BY <2>1, DictFacts
<1>3. DOMAIN Without(f, S) = DOMAIN f \ S /\ \A x \in DOMAIN Without(f, S) : Without(f, S)[x] = f[x]
  BY DEF Without
<1> QED BY <1>2, <1>3 DEF Without

LEMMA WithoutDomain ==
  ASSUME NEW f, NEW S
  PROVE  /\ DOMAIN Without(f, S) = DOMAIN f \ S
         /\ \A x \in DOMAIN Without(f, S) : Without(f, S)[x] = f[x]
BY DEF Without

LEMMA SetFacts ==
  ASSUME NEW D, NEW R, NEW f \in Dict(D, R), NEW x \in D, NEW v \in R
  PROVE  /\ Set(f, x, v) \in Dict(D, R)
         /\ DOMAIN Set(f, x, v) = DOMAIN f \cup {x}
         /\ Set(f, x, v)[x] = v
         /\ \A y \in DOMAIN f \ {x} : Set(f, x, v)[y] = f[y]
<1>1. DOMAIN f \subseteq D /\ \A y \in DOMAIN f : f[y] \in R
  BY DictFacts
<1> DEFINE g == [y \in DOMAIN f \cup {x} |-> IF y = x THEN v ELSE f[y]]
<1>2. g = [y \in DOMAIN g |-> g[y]] /\ DOMAIN g \subseteq D /\ \A y \in DOMAIN g : g[y] \in R
  BY <1>1
<1>3. DOMAIN g = DOMAIN f \cup {x} /\ g[x] = v /\ \A y \in DOMAIN f \ {x} : g[y] = f[y]
  OBVIOUS
<1>4. Set(f, x, v) = g
  BY DEF Set
<1> HIDE DEF g
<1> QED BY <1>2, <1>3, <1>4, DictFacts

LEMMA MemoryFacts ==
  ASSUME NEW s \in Memory
  PROVE  /\ s.visible \subseteq Tracks /\ s.masters \in 0..MaxMasters /\ s.gen \in [Tracks -> Nat]
         /\ s.done \subseteq Tracks /\ s.staged \subseteq Tracks
         /\ s.holds \in [Tracks -> SUBSET Pairs] /\ s.barred \in [Tracks -> SUBSET Masters]
         /\ s.ids \in Dict(Id, Record) /\ s.bound \in Dict(Tracks, Id) /\ s.intake \in Dict(Tracks, Intake)
         /\ s.rivals \in Dict(Tracks, Rival) /\ s.contest \in Dict(Masters, Contest)
         /\ DOMAIN s.ids \subseteq Id /\ \A i \in DOMAIN s.ids : s.ids[i] \in Record
         /\ DOMAIN s.bound \subseteq Tracks /\ \A t \in DOMAIN s.bound : s.bound[t] \in Id
         /\ DOMAIN s.intake \subseteq Tracks /\ \A t \in DOMAIN s.intake : s.intake[t] \in Intake
         /\ DOMAIN s.rivals \subseteq Tracks /\ \A t \in DOMAIN s.rivals : s.rivals[t] \in Rival
         /\ DOMAIN s.contest \subseteq Masters /\ \A m \in DOMAIN s.contest : s.contest[m] \in Contest
<1>1. /\ s.visible \subseteq Tracks /\ s.masters \in 0..MaxMasters /\ s.gen \in [Tracks -> Nat]
      /\ s.done \subseteq Tracks /\ s.staged \subseteq Tracks
      /\ s.holds \in [Tracks -> SUBSET Pairs] /\ s.barred \in [Tracks -> SUBSET Masters]
      /\ s.ids \in Dict(Id, Record) /\ s.bound \in Dict(Tracks, Id) /\ s.intake \in Dict(Tracks, Intake)
      /\ s.rivals \in Dict(Tracks, Rival) /\ s.contest \in Dict(Masters, Contest)
  BY DEF Memory
<1> QED BY <1>1, DictFacts

\* Groups have negative numbers and masters positive ones.
LEMMA NumberFacts == Groups \cap Masters = {} /\ MaxMasters \in Nat /\ MaxGroups \in Nat
BY ProvisionalAssumption DEF Groups, Masters

-----------------------------------------------------------------------------
(* The order of the memory.                                                 *)

\* The members a record says something about.
Marks(record) == record.pending \cup record.doubted \cup record.refused

Exist(s) ==
  /\ DOMAIN s.ids \subseteq Groups \cup 1..s.masters
  /\ \A t \in DOMAIN s.bound : s.bound[t] \in DOMAIN s.ids
  /\ DOMAIN s.contest \subseteq DOMAIN s.ids
States(s) == \A i \in DOMAIN s.ids : s.ids[i].state = "confirmed" <=> i \in Masters
Listed(s) == \A t \in DOMAIN s.bound : s.bound[t] \in Groups => t \in s.ids[s.bound[t]].members
Marked(s, E) ==
  \A i \in DOMAIN s.ids : \A t \in Marks(s.ids[i]) \ E :
    t \in s.ids[i].members /\ t \in DOMAIN s.bound /\ s.bound[t] = i
InView(s) == DOMAIN s.intake \subseteq s.visible
OwnHolds(s) == \A t \in Tracks : \A p \in s.holds[t] : t \in p

\* E: the tracks that were numbered although they were bound.
Sane(s, E) ==
  s \in Memory /\ Exist(s) /\ States(s) /\ Listed(s) /\ Marked(s, E) /\ InView(s) /\ OwnHolds(s)

\* What a submitted intake waits for that is not a task.
Waits(s, t) ==
  \/ "hold" \in s.intake[t].why /\ s.holds[t] # {}
  \/ \E m \in DOMAIN s.contest : s.contest[m].chal = t /\ s.contest[m].gen = s.intake[t].gen

\* No intake but those of T is new or submitted anew, and one that waits goes on
\* waiting or is to be submitted again; masters stay.
Keeps(s, r, T) ==
  /\ r.visible = s.visible /\ s.masters <= r.masters
  /\ DOMAIN s.ids \ Groups \subseteq DOMAIN r.ids
  /\ \A t \in Tracks : r.holds[t] \subseteq s.holds[t]
  /\ DOMAIN r.intake \ T \subseteq DOMAIN s.intake
  /\ \A t \in DOMAIN r.intake \ T : r.intake[t].submitted =>
       s.intake[t].submitted /\ r.intake[t].gen = s.intake[t].gen /\ (Waits(s, t) => Waits(r, t))

LEMMA KeepsSelf == ASSUME NEW s \in Memory, NEW T PROVE Keeps(s, s, T)
BY DEF Keeps, Memory

LEMMA KeepsOn ==
  ASSUME NEW s \in Memory, NEW r \in Memory, NEW q \in Memory, NEW T, Keeps(s, r, T), Keeps(r, q, T)
  PROVE  Keeps(s, q, T)
<1>1. q.visible = s.visible /\ s.masters <= q.masters
  BY NumberFacts, MemoryFacts DEF Keeps
<1>2. DOMAIN s.ids \ Groups \subseteq DOMAIN q.ids /\ \A t \in Tracks : q.holds[t] \subseteq s.holds[t]
  BY DEF Keeps
<1>3. ASSUME NEW t \in DOMAIN q.intake \ T
      PROVE  t \in DOMAIN r.intake \ T /\ t \in DOMAIN s.intake
  BY DEF Keeps
<1>4. ASSUME NEW t \in DOMAIN q.intake \ T, q.intake[t].submitted
      PROVE  s.intake[t].submitted /\ q.intake[t].gen = s.intake[t].gen /\ (Waits(s, t) => Waits(q, t))
  <2>1. r.intake[t].submitted /\ q.intake[t].gen = r.intake[t].gen /\ (Waits(r, t) => Waits(q, t))
    BY <1>4 DEF Keeps
  <2>2. s.intake[t].submitted /\ r.intake[t].gen = s.intake[t].gen /\ (Waits(s, t) => Waits(r, t))
    BY <1>3, <2>1 DEF Keeps
  <2> QED BY <2>1, <2>2
<1> QED BY <1>1, <1>2, <1>3, <1>4 DEF Keeps

LEMMA KeepsMore ==
  ASSUME NEW s, NEW r, NEW S, NEW T, S \subseteq T, Keeps(s, r, S)
  PROVE  Keeps(s, r, T)
BY DEF Keeps

\* A change after which the memory is in order and no intake but those of T is forgotten.
Orderly(E, s, r, T) == Sane(s, E) /\ Sane(r, E) /\ Keeps(s, r, T)

LEMMA OrderlySelf == ASSUME NEW E, NEW s, Sane(s, E), NEW T PROVE Orderly(E, s, s, T)
BY KeepsSelf DEF Orderly, Sane

LEMMA OrderlyMore ==
  ASSUME NEW E, NEW s, NEW r, NEW S, NEW T, S \subseteq T, Orderly(E, s, r, S)
  PROVE  Orderly(E, s, r, T)
BY KeepsMore DEF Orderly

LEMMA OrderlyOn ==
  ASSUME NEW E, NEW s, NEW r, NEW q, NEW T, Orderly(E, s, r, {}), Orderly(E, r, q, T)
  PROVE  Orderly(E, s, q, T)
<1>1. Keeps(s, r, T)
  BY KeepsMore DEF Orderly
<1> QED BY <1>1, KeepsOn DEF Orderly, Sane

\* A change of what neither an identity nor an intake depends on.
Beside(s, r) ==
  /\ r.visible = s.visible /\ r.ids = s.ids /\ r.masters = s.masters /\ r.bound = s.bound
  /\ r.intake = s.intake /\ r.holds = s.holds /\ r.contest = s.contest

LEMMA SideFacts ==
  ASSUME NEW E, NEW s, Sane(s, E), NEW r \in Memory, Beside(s, r)
  PROVE  Orderly(E, s, r, {})
<1>1. Sane(r, E)
  BY DEF Beside, Sane, Exist, States, Listed, Marked, InView, OwnHolds
<1>2. s.masters \in Int
  BY MemoryFacts, NumberFacts DEF Sane
<1>3. Keeps(s, r, {})
  BY <1>2 DEF Beside, Keeps, Waits
<1> QED BY <1>1, <1>3 DEF Orderly

-----------------------------------------------------------------------------
(* Helpers of the memory.                                                   *)

LEMMA RearmFacts ==
  ASSUME NEW s \in Memory, NEW T, NEW flag
  PROVE  LET r == Rearm(s, T, flag)
         IN /\ r \in Memory /\ DOMAIN r.intake = DOMAIN s.intake
            /\ r.visible = s.visible /\ r.ids = s.ids /\ r.masters = s.masters /\ r.bound = s.bound
            /\ r.holds = s.holds /\ r.contest = s.contest /\ r.gen = s.gen
            /\ r.barred = s.barred /\ r.done = s.done /\ r.staged = s.staged /\ r.rivals = s.rivals
            /\ \A t \in DOMAIN s.intake \ T : r.intake[t] = s.intake[t]
            /\ \A t \in DOMAIN s.intake \cap T : ~ r.intake[t].submitted
<1> DEFINE f == [t \in DOMAIN s.intake |->
                   IF t \in T THEN [s.intake[t] EXCEPT !.submitted = FALSE, !.why = @ \ {flag}]
                              ELSE s.intake[t]]
<1>1. DOMAIN s.intake \subseteq Tracks /\ \A t \in DOMAIN s.intake : s.intake[t] \in Intake
  BY MemoryFacts
<1>2. \A t \in DOMAIN f : f[t] \in Intake
  BY <1>1 DEF Intake
<1>3. /\ DOMAIN f = DOMAIN s.intake /\ f = [t \in DOMAIN f |-> f[t]]
      /\ \A t \in DOMAIN s.intake \ T : f[t] = s.intake[t]
      /\ \A t \in DOMAIN s.intake \cap T : ~ f[t].submitted
  BY <1>1 DEF Intake
<1>4. Rearm(s, T, flag) = IF T = {} THEN s ELSE [s EXCEPT !.intake = f]
  BY DEF Rearm
<1> HIDE DEF f
<1>5. f \in Dict(Tracks, Intake)
  BY <1>1, <1>2, <1>3, DictFacts
<1> QED BY <1>3, <1>4, <1>5 DEF Memory

\* What waits for a contest that is cancelled is to be submitted again.
LEMMA CancelFacts ==
  ASSUME NEW E, NEW s, Sane(s, E), NEW M
  PROVE  LET r == CancelContests(s, M)
         IN /\ Orderly(E, s, r, {}) /\ DOMAIN r.intake = DOMAIN s.intake
            /\ r.ids = s.ids /\ r.masters = s.masters /\ r.bound = s.bound
            /\ r.holds = s.holds /\ r.gen = s.gen /\ r.barred = s.barred /\ r.done = s.done
            /\ r.staged = s.staged /\ r.rivals = s.rivals
            /\ DOMAIN r.contest = DOMAIN s.contest \ M
            /\ \A m \in DOMAIN r.contest : r.contest[m] = s.contest[m]
<1> DEFINE ended == M \cap DOMAIN s.contest
           waiting == {t \in DOMAIN s.intake : \E m \in ended :
                         t = s.contest[m].chal /\ s.intake[t].gen = s.contest[m].gen}
           s1 == [s EXCEPT !.contest = Without(@, ended)]
           r == Rearm(s1, waiting, "contest")
<1>1. s \in Memory
  BY DEF Sane
<1>2. /\ Without(s.contest, ended) \in Dict(Masters, Contest)
      /\ DOMAIN Without(s.contest, ended) = DOMAIN s.contest \ M
      /\ \A m \in DOMAIN Without(s.contest, ended) : Without(s.contest, ended)[m] = s.contest[m]
  <2>1. DOMAIN s.contest \ ended = DOMAIN s.contest \ M
    OBVIOUS
  <2>2. s.contest \in Dict(Masters, Contest)
    BY <1>1, MemoryFacts
  <2> HIDE DEF ended
  <2>3. Without(s.contest, ended) \in Dict(Masters, Contest)
    BY <2>2, WithoutFacts
  <2> QED BY <2>1, <2>3, WithoutDomain
<1>3. /\ s1 \in Memory /\ s1.contest = Without(s.contest, ended)
      /\ s1.visible = s.visible /\ s1.ids = s.ids /\ s1.masters = s.masters /\ s1.bound = s.bound
      /\ s1.holds = s.holds /\ s1.gen = s.gen /\ s1.barred = s.barred /\ s1.done = s.done
      /\ s1.staged = s.staged /\ s1.rivals = s.rivals /\ s1.intake = s.intake
  BY <1>1, <1>2 DEF Memory
<1> HIDE DEF s1
<1>4. /\ r \in Memory /\ DOMAIN r.intake = DOMAIN s.intake
      /\ r.visible = s.visible /\ r.ids = s.ids /\ r.masters = s.masters /\ r.bound = s.bound
      /\ r.holds = s.holds /\ r.contest = Without(s.contest, ended) /\ r.gen = s.gen
      /\ r.barred = s.barred /\ r.done = s.done /\ r.staged = s.staged /\ r.rivals = s.rivals
      /\ \A t \in DOMAIN s.intake \ waiting : r.intake[t] = s.intake[t]
      /\ \A t \in DOMAIN s.intake \cap waiting : ~ r.intake[t].submitted
  <2> HIDE DEF waiting
  <2> QED BY <1>3, RearmFacts
<1> HIDE DEF r
<1>5. Sane(r, E)
  BY <1>2, <1>4 DEF Sane, Exist, States, Listed, Marked, InView, OwnHolds
<1>6. Keeps(s, r, {})
  <2>1. ASSUME NEW t \in DOMAIN r.intake, r.intake[t].submitted
        PROVE  s.intake[t].submitted /\ r.intake[t].gen = s.intake[t].gen /\ (Waits(s, t) => Waits(r, t))
    <3>1. t \notin waiting /\ r.intake[t] = s.intake[t]
      BY <1>4, <2>1
    <3>2. ASSUME NEW m \in DOMAIN s.contest, s.contest[m].chal = t, s.contest[m].gen = s.intake[t].gen
          PROVE  m \in DOMAIN r.contest /\ r.contest[m] = s.contest[m]
      BY <1>2, <1>4, <3>1, <3>2
    <3> QED BY <1>4, <2>1, <3>1, <3>2 DEF Waits
  <2>2. s.masters \in Int
    BY <1>1, MemoryFacts, NumberFacts
  <2> QED BY <1>4, <2>1, <2>2 DEF Keeps
<1>7. CancelContests(s, M) = r
  BY DEF CancelContests, r, s1
<1> QED BY <1>2, <1>4, <1>5, <1>6, <1>7 DEF Orderly

LEMMA GenerationFacts ==
  ASSUME NEW s \in Memory, NEW T
  PROVE  NextGeneration(s, T) \in [Tracks -> Nat]
BY DEF NextGeneration, Memory

\* A cleared track is bound to nothing, a member of nothing it was bound to, and
\* what waited for its contests is to be submitted again.
LEMMA ClearFacts ==
  ASSUME NEW E, NEW s, Sane(s, E), NEW T \in SUBSET Tracks
  PROVE  LET r == ClearBindings(s, T)
         IN /\ Orderly(E, s, r, {})
            /\ DOMAIN r.ids = DOMAIN s.ids /\ r.masters = s.masters /\ r.barred = s.barred
            /\ \A i \in DOMAIN s.ids : r.ids[i].state = s.ids[i].state
            /\ DOMAIN r.bound = DOMAIN s.bound \ T /\ DOMAIN r.intake = DOMAIN s.intake \ T
            /\ \A t \in DOMAIN r.bound : r.bound[t] = s.bound[t]
            /\ DOMAIN r.contest \subseteq DOMAIN s.contest
<1>1. CASE T = {}
  <2>1. s \in Memory /\ ClearBindings(s, T) = s
    BY <1>1 DEF ClearBindings, Sane
  <2> QED BY <1>1, <2>1, OrderlySelf
<1>2. CASE T # {}
  <2>1. PICK c : c = CancelContests(s, ContestsOf(s, T))
    OBVIOUS
  <2>2. /\ Sane(c, E) /\ Keeps(s, c, {}) /\ DOMAIN c.intake = DOMAIN s.intake
        /\ c.ids = s.ids /\ c.masters = s.masters /\ c.bound = s.bound
        /\ c.holds = s.holds /\ c.gen = s.gen /\ c.barred = s.barred /\ c.done = s.done
        /\ c.staged = s.staged /\ c.rivals = s.rivals
        /\ DOMAIN c.contest = DOMAIN s.contest \ ContestsOf(s, T)
    BY <2>1, CancelFacts DEF Orderly
  <2>3. s \in Memory /\ c \in Memory
    BY <2>2 DEF Sane
  <2> DEFINE leaving(i) == T \cap BoundTo(c, i)
             less(i) == Less(c.ids[i], leaving(i))
             ids == [i \in DOMAIN c.ids |-> less(i)]
             bound == Without(c.bound, T)
             intake == Without(c.intake, T)
             rivals == Without(c.rivals, T)
             holds == [t \in Tracks |-> IF t \in T THEN {} ELSE c.holds[t]]
             r == [c EXCEPT !.bound = bound, !.done = @ \ T, !.staged = @ \ T, !.rivals = rivals,
                            !.intake = intake, !.holds = holds, !.gen = NextGeneration(c, T), !.ids = ids]
  <2>4. ClearBindings(s, T) = r
    <3>1. ClearBindings(s, T) = Forget(c, T)
      BY <1>2, <2>1 DEF ClearBindings
    <3>2. Forget(c, T) = r
      BY DEF Forget
    <3> QED BY <3>1, <3>2
  <2>5. /\ bound \in Dict(Tracks, Id) /\ DOMAIN bound = DOMAIN s.bound \ T
        /\ \A t \in DOMAIN bound : bound[t] = s.bound[t]
    <3>1. c.bound \in Dict(Tracks, Id)
      BY <2>3, MemoryFacts
    <3>2. bound \in Dict(Tracks, Id)
      BY <3>1, WithoutFacts
    <3>3. DOMAIN bound = DOMAIN c.bound \ T /\ \A t \in DOMAIN bound : bound[t] = c.bound[t]
      BY WithoutDomain
    <3> QED BY <2>2, <3>2, <3>3
  <2>6. /\ intake \in Dict(Tracks, Intake) /\ DOMAIN intake = DOMAIN s.intake \ T
        /\ \A t \in DOMAIN intake : intake[t] = c.intake[t]
    <3>1. c.intake \in Dict(Tracks, Intake)
      BY <2>3, MemoryFacts
    <3>2. intake \in Dict(Tracks, Intake)
      BY <3>1, WithoutFacts
    <3>3. DOMAIN intake = DOMAIN c.intake \ T /\ \A t \in DOMAIN intake : intake[t] = c.intake[t]
      BY WithoutDomain
    <3> QED BY <2>2, <3>2, <3>3
  <2>7. rivals \in Dict(Tracks, Rival)
    BY <2>3, MemoryFacts, WithoutFacts
  <2>8. holds \in [Tracks -> SUBSET Pairs]
    BY <2>3, MemoryFacts
  <2>9. ASSUME NEW i \in DOMAIN s.ids
        PROVE  /\ less(i) \in Record /\ less(i).state = s.ids[i].state
               /\ less(i).members = s.ids[i].members \ leaving(i)
               /\ Marks(less(i)) = Marks(s.ids[i]) \ leaving(i)
    <3>1. s.ids[i] \in Record /\ c.ids[i] = s.ids[i]
      BY <2>2, <2>3, MemoryFacts
    <3> HIDE DEF leaving
    <3> QED BY <3>1 DEF Less, Record, Marks
  <2>10. /\ DOMAIN ids = DOMAIN s.ids /\ \A i \in DOMAIN s.ids : ids[i] = less(i)
         /\ ids \in Dict(Id, Record)
    <3>1. DOMAIN ids = DOMAIN s.ids /\ (\A i \in DOMAIN s.ids : ids[i] = less(i)) /\ ids = [i \in DOMAIN ids |-> ids[i]]
      BY <2>2
    <3>2. DOMAIN s.ids \subseteq Id
      BY <2>3, MemoryFacts
    <3> HIDE DEF ids, less
    <3> QED BY <2>9, <3>1, <3>2, DictFacts
  <2>11. /\ r \in Memory /\ r.visible = c.visible /\ r.masters = s.masters /\ r.barred = s.barred
         /\ r.bound = bound /\ r.intake = intake /\ r.ids = ids /\ r.holds = holds /\ r.contest = c.contest
    <3>1. NextGeneration(c, T) \in [Tracks -> Nat]
      BY <2>3, GenerationFacts
    <3> HIDE DEF bound, intake, rivals, holds, ids
    <3> QED BY <2>2, <2>3, <2>5, <2>6, <2>7, <2>8, <2>10, <3>1 DEF Memory
  <2> HIDE DEF r, ids, bound, intake, rivals, less
  <2>12. Exist(r) /\ States(r) /\ InView(r)
    BY <2>2, <2>5, <2>6, <2>9, <2>10, <2>11 DEF Sane, Exist, States, InView
  <2>13. Listed(r)
    <3>1. ASSUME NEW t, t \notin T PROVE \A i : t \notin leaving(i)
      BY <3>1
    <3> HIDE DEF leaving
    <3> QED BY <2>2, <2>5, <2>9, <2>10, <2>11, <3>1 DEF Sane, Listed, Exist
  <2>14. Marked(r, E)
    <3> SUFFICES ASSUME NEW i \in DOMAIN r.ids, NEW t \in Marks(r.ids[i]) \ E
                 PROVE  t \in r.ids[i].members /\ t \in DOMAIN r.bound /\ r.bound[t] = i
      BY DEF Marked
    <3>1. i \in DOMAIN s.ids /\ t \in Marks(s.ids[i]) \ E /\ t \notin leaving(i)
      BY <2>9, <2>10, <2>11
    <3>2. t \in s.ids[i].members /\ t \in DOMAIN s.bound /\ s.bound[t] = i
      BY <3>1 DEF Sane, Marked
    <3>3. t \notin T
      BY <2>2, <3>1, <3>2 DEF BoundTo
    <3> HIDE DEF leaving
    <3> QED BY <2>5, <2>9, <2>10, <2>11, <3>1, <3>2, <3>3
  <2>15. OwnHolds(r)
    BY <2>2, <2>11 DEF Sane, OwnHolds
  <2>16. Keeps(c, r, {})
    <3>1. ASSUME NEW t \in DOMAIN r.intake
          PROVE  /\ t \in DOMAIN c.intake /\ r.intake[t] = c.intake[t] /\ r.holds[t] = c.holds[t]
                 /\ (Waits(c, t) => Waits(r, t))
      <4>1. t \in DOMAIN c.intake /\ t \notin T /\ t \in Tracks /\ r.intake[t] = c.intake[t]
        BY <2>2, <2>3, <2>6, <2>11, MemoryFacts
      <4> QED BY <2>2, <2>11, <4>1 DEF Waits
    <3>2. c.masters \in Int
      BY <2>3, MemoryFacts, NumberFacts
    <3>3. \A t \in Tracks : r.holds[t] \subseteq c.holds[t]
      BY <2>2, <2>11
    <3> QED BY <2>2, <2>10, <2>11, <3>1, <3>2, <3>3 DEF Keeps
  <2>17. Keeps(s, r, {})
    BY <2>2, <2>3, <2>11, <2>16, KeepsOn
  <2>18. DOMAIN r.contest \subseteq DOMAIN s.contest
    BY <2>2, <2>11
  <2> QED BY <2>4, <2>5, <2>6, <2>9, <2>10, <2>11, <2>12, <2>13, <2>14, <2>15, <2>17, <2>18 DEF Sane, Orderly
<1> QED BY <1>1, <1>2

\* One record changes, and tracks that were bound to nothing are bound to it.
Adopted(E, s, i, T, r) ==
  /\ Sane(s, E) /\ r \in Memory /\ i \in Groups \cup 1..s.masters
  /\ T \subseteq Tracks /\ T \cap DOMAIN s.bound = {}
  /\ r.visible = s.visible /\ r.masters = s.masters /\ r.intake = s.intake /\ r.holds = s.holds
  /\ r.contest = s.contest
  /\ DOMAIN r.ids = DOMAIN s.ids \cup {i} /\ \A j \in DOMAIN s.ids \ {i} : r.ids[j] = s.ids[j]
  /\ r.ids[i].state = "confirmed" <=> i \in Masters
  /\ i \in Groups => BoundTo(s, i) \cup T \subseteq r.ids[i].members
  /\ Marks(r.ids[i]) \ E \subseteq r.ids[i].members \cap (BoundTo(s, i) \cup T)
  /\ DOMAIN r.bound = DOMAIN s.bound \cup T
  /\ (\A t \in T : r.bound[t] = i) /\ \A t \in DOMAIN s.bound : r.bound[t] = s.bound[t]

LEMMA AdoptFacts ==
  ASSUME NEW E, NEW s, NEW i, NEW T, NEW r, Adopted(E, s, i, T, r)
  PROVE  Sane(r, E) /\ Keeps(s, r, {})
<1> USE DEF Adopted
<1>1. Exist(r) /\ States(r) /\ InView(r) /\ OwnHolds(r)
  BY DEF Sane, Exist, States, InView, OwnHolds
<1>2. Listed(r)
  <2> SUFFICES ASSUME NEW t \in DOMAIN r.bound, r.bound[t] \in Groups
               PROVE  t \in r.ids[r.bound[t]].members
    BY DEF Listed
  <2>1. CASE r.bound[t] = i
    <3>1. t \in T \/ (t \in DOMAIN s.bound /\ s.bound[t] = i)
      BY <2>1
    <3> QED BY <2>1, <3>1 DEF BoundTo
  <2>2. CASE r.bound[t] # i
    <3>1. t \in DOMAIN s.bound /\ r.bound[t] = s.bound[t] /\ s.bound[t] \in DOMAIN s.ids \ {i}
      BY <2>2 DEF Sane, Exist
    <3> QED BY <3>1 DEF Sane, Listed
  <2> QED BY <2>1, <2>2
<1>3. Marked(r, E)
  <2> SUFFICES ASSUME NEW j \in DOMAIN r.ids, NEW t \in Marks(r.ids[j]) \ E
               PROVE  t \in r.ids[j].members /\ t \in DOMAIN r.bound /\ r.bound[t] = j
    BY DEF Marked
  <2>1. CASE j = i
    <3>1. t \in r.ids[i].members /\ t \in BoundTo(s, i) \cup T
      BY <2>1
    <3> QED BY <2>1, <3>1 DEF BoundTo
  <2>2. CASE j # i
    <3>1. j \in DOMAIN s.ids \ {i} /\ r.ids[j] = s.ids[j]
      BY <2>2
    <3>2. t \in s.ids[j].members /\ t \in DOMAIN s.bound /\ s.bound[t] = j
      BY <3>1 DEF Sane, Marked
    <3> QED BY <3>1, <3>2
  <2> QED BY <2>1, <2>2
<1>4. Keeps(s, r, {})
  <2>1. s.masters \in Int
    BY MemoryFacts, NumberFacts DEF Sane
  <2> QED BY <2>1 DEF Keeps, Waits
<1> QED BY <1>1, <1>2, <1>3, <1>4 DEF Sane

\* What a method leaves alone that neither the identities nor the bindings are.
Alike(s, r) ==
  /\ r.visible = s.visible /\ r.masters = s.masters /\ r.intake = s.intake /\ r.holds = s.holds
  /\ r.contest = s.contest /\ r.gen = s.gen /\ r.barred = s.barred

\* What a record of identity i may say when the tracks T are bound to it.
Right(E, s, i, T, record) ==
  /\ Sane(s, E) /\ i \in Groups \cup 1..s.masters /\ record \in Record
  /\ T \subseteq Tracks /\ T \cap DOMAIN s.bound = {}
  /\ record.state = "confirmed" <=> i \in Masters
  /\ i \in Groups => BoundTo(s, i) \cup T \subseteq record.members
  /\ Marks(record) \ E \subseteq record.members \cap (BoundTo(s, i) \cup T)

LEMMA ReviseFacts ==
  ASSUME NEW E, NEW s, NEW i, NEW record, Right(E, s, i, {}, record)
  PROVE  LET r == Revise(s, i, record)
         IN /\ Orderly(E, s, r, {}) /\ Alike(s, r)
            /\ r.bound = s.bound /\ r.done = s.done /\ r.staged = s.staged /\ r.rivals = s.rivals
            /\ r.ids[i] = record /\ DOMAIN r.ids = DOMAIN s.ids \cup {i}
            /\ \A j \in DOMAIN s.ids \ {i} : r.ids[j] = s.ids[j]
<1> USE DEF Right
<1>1. s \in Memory /\ i \in Id /\ s.ids \in Dict(Id, Record)
  <2>1. s \in Memory
    BY DEF Sane
  <2>2. s.masters \in 0..MaxMasters /\ s.ids \in Dict(Id, Record)
    BY <2>1, MemoryFacts
  <2>3. i \in Id
    BY <2>2, NumberFacts DEF Id, Masters
  <2> QED BY <2>1, <2>2, <2>3
<1> DEFINE ids == Set(s.ids, i, record)
           r == Revise(s, i, record)
<1>2. /\ ids \in Dict(Id, Record) /\ DOMAIN ids = DOMAIN s.ids \cup {i} /\ ids[i] = record
      /\ \A j \in DOMAIN s.ids \ {i} : ids[j] = s.ids[j]
  <2>1. ids \in Dict(Id, Record)
    BY <1>1, SetFacts
  <2>2. /\ DOMAIN ids = DOMAIN s.ids \cup {i} /\ ids[i] = record
        /\ \A j \in DOMAIN s.ids \ {i} : ids[j] = s.ids[j]
    BY DEF Set
  <2> QED BY <2>1, <2>2
<1>3. r = [s EXCEPT !.ids = ids]
  BY DEF Revise
<1> HIDE DEF ids, r
<1>4. /\ r \in Memory /\ Alike(s, r) /\ r.ids = ids
      /\ r.bound = s.bound /\ r.done = s.done /\ r.staged = s.staged /\ r.rivals = s.rivals
  BY <1>1, <1>2, <1>3 DEF Memory, Alike
<1>5. Sane(r, E) /\ Keeps(s, r, {})
  <2>1. \A t \in DOMAIN s.bound : r.bound[t] = s.bound[t]
    BY <1>4
  <2>2. {} \in SUBSET Tracks /\ {} \cap DOMAIN s.bound = {} /\ DOMAIN r.bound = DOMAIN s.bound \cup {}
    BY <1>4
  <2>3. /\ r.visible = s.visible /\ r.masters = s.masters /\ r.intake = s.intake /\ r.holds = s.holds
        /\ r.contest = s.contest
    BY <1>4 DEF Alike
  <2>4. (i \in Groups => BoundTo(s, i) \cup {} \subseteq r.ids[i].members) /\ Marks(r.ids[i]) \ E \subseteq r.ids[i].members \cap (BoundTo(s, i) \cup {})
    BY <1>2, <1>4
  <2>5. /\ DOMAIN r.ids = DOMAIN s.ids \cup {i} /\ \A j \in DOMAIN s.ids \ {i} : r.ids[j] = s.ids[j]
        /\ (r.ids[i].state = "confirmed" <=> i \in Masters)
    BY <1>2, <1>4
  <2>6. r \in Memory
    BY <1>4
  <2>7. Adopted(E, s, i, {}, r)
    BY <1>1, <2>1, <2>2, <2>3, <2>4, <2>5, <2>6 DEF Adopted
  <2> QED BY <2>7, AdoptFacts
<1> QED BY <1>2, <1>4, <1>5 DEF r, Orderly

LEMMA BindFacts ==
  ASSUME NEW E, NEW s, NEW i, NEW T, NEW record, Right(E, s, i, T, record)
  PROVE  LET r == BindTo(Revise(s, i, record), i, T)
         IN /\ Orderly(E, s, r, {}) /\ Alike(s, r)
            /\ r.ids[i] = record /\ DOMAIN r.ids = DOMAIN s.ids \cup {i}
            /\ \A j \in DOMAIN s.ids \ {i} : r.ids[j] = s.ids[j]
            /\ DOMAIN r.bound = DOMAIN s.bound \cup T
            /\ \A t \in T : r.bound[t] = i
            /\ \A t \in DOMAIN s.bound : r.bound[t] = s.bound[t]
<1> USE DEF Right
<1>1. s \in Memory /\ i \in Id /\ s.ids \in Dict(Id, Record)
  <2>1. s \in Memory
    BY DEF Sane
  <2>2. s.masters \in 0..MaxMasters /\ s.ids \in Dict(Id, Record)
    BY <2>1, MemoryFacts
  <2>3. i \in Id
    BY <2>2, NumberFacts DEF Id, Masters
  <2> QED BY <2>1, <2>2, <2>3
<1> DEFINE ids == Set(s.ids, i, record)
           bound == [t \in DOMAIN s.bound \cup T |-> IF t \in T THEN i ELSE s.bound[t]]
           v == Revise(s, i, record)
           r == BindTo(v, i, T)
<1>2. /\ ids \in Dict(Id, Record) /\ DOMAIN ids = DOMAIN s.ids \cup {i} /\ ids[i] = record
      /\ \A j \in DOMAIN s.ids \ {i} : ids[j] = s.ids[j]
  <2>1. ids \in Dict(Id, Record)
    BY <1>1, SetFacts
  <2>2. /\ DOMAIN ids = DOMAIN s.ids \cup {i} /\ ids[i] = record
        /\ \A j \in DOMAIN s.ids \ {i} : ids[j] = s.ids[j]
    BY DEF Set
  <2> QED BY <2>1, <2>2
<1>3. v = [s EXCEPT !.ids = ids]
  BY DEF Revise
<1>4. /\ bound \in Dict(Tracks, Id) /\ DOMAIN bound = DOMAIN s.bound \cup T
      /\ (\A t \in T : bound[t] = i) /\ \A t \in DOMAIN s.bound : bound[t] = s.bound[t]
  <2>1. DOMAIN s.bound \subseteq Tracks /\ \A t \in DOMAIN s.bound : s.bound[t] \in Id
    BY <1>1, MemoryFacts
  <2>2. /\ bound = [t \in DOMAIN bound |-> bound[t]] /\ DOMAIN bound \subseteq Tracks
        /\ \A t \in DOMAIN bound : bound[t] \in Id
    BY <1>1, <2>1
  <2>3. DOMAIN bound = DOMAIN s.bound \cup T /\ (\A t \in T : bound[t] = i) /\ \A t \in DOMAIN s.bound : bound[t] = s.bound[t]
    OBVIOUS
  <2> HIDE DEF bound
  <2> QED BY <2>2, <2>3, DictFacts
<1> HIDE DEF ids, v
<1>5. v \in Memory /\ Alike(s, v) /\ v.ids = ids /\ v.bound = s.bound
  BY <1>1, <1>2, <1>3 DEF Memory, Alike
<1>6. r = [v EXCEPT !.bound = bound, !.done = @ \ T]
  BY <1>5 DEF BindTo
<1> HIDE DEF r, bound
<1>7. r \in Memory /\ Alike(s, r) /\ r.ids = ids /\ r.bound = bound
  BY <1>4, <1>5, <1>6 DEF Memory, Alike
<1>8. Sane(r, E) /\ Keeps(s, r, {})
  <2>1. (\A t \in T : r.bound[t] = i) /\ \A t \in DOMAIN s.bound : r.bound[t] = s.bound[t]
    BY <1>4, <1>7
  <2>2. DOMAIN r.bound = DOMAIN s.bound \cup T
    BY <1>4, <1>7
  <2>3. /\ r.visible = s.visible /\ r.masters = s.masters /\ r.intake = s.intake /\ r.holds = s.holds
        /\ r.contest = s.contest
    BY <1>7 DEF Alike
  <2>4. /\ i \in Groups => BoundTo(s, i) \cup T \subseteq r.ids[i].members
        /\ Marks(r.ids[i]) \ E \subseteq r.ids[i].members \cap (BoundTo(s, i) \cup T)
    BY <1>2, <1>7
  <2>5. /\ DOMAIN r.ids = DOMAIN s.ids \cup {i} /\ \A j \in DOMAIN s.ids \ {i} : r.ids[j] = s.ids[j]
        /\ (r.ids[i].state = "confirmed" <=> i \in Masters)
    BY <1>2, <1>7
  <2>6. r \in Memory
    BY <1>7
  <2>7. Adopted(E, s, i, T, r)
    BY <1>1, <2>1, <2>2, <2>3, <2>4, <2>5, <2>6 DEF Adopted
  <2> QED BY <2>7, AdoptFacts
<1> QED BY <1>2, <1>4, <1>7, <1>8 DEF r, v, Orderly

\* A record's marks and members, when one of them grows.
LEMMA RecordFacts ==
  ASSUME NEW record \in Record, NEW T \in SUBSET Tracks
  PROVE  /\ [record EXCEPT !.members = @ \cup T, !.pending = @ \cup T] \in Record
         /\ [record EXCEPT !.members = @ \cup T, !.pending = @ \cup T].state = record.state
         /\ [record EXCEPT !.members = @ \cup T, !.pending = @ \cup T].members = record.members \cup T
         /\ Marks([record EXCEPT !.members = @ \cup T, !.pending = @ \cup T]) = Marks(record) \cup T
         /\ [record EXCEPT !.members = @ \cup T] \in Record
         /\ [record EXCEPT !.members = @ \cup T].state = record.state
         /\ [record EXCEPT !.members = @ \cup T].members = record.members \cup T
         /\ Marks([record EXCEPT !.members = @ \cup T]) = Marks(record)
BY DEF Record, Marks

\* Everything of a record of the memory that the lemmas about a change of it need.
LEMMA OwnFacts ==
  ASSUME NEW E, NEW s, Sane(s, E), NEW i \in DOMAIN s.ids
  PROVE  /\ s.ids[i] \in Record /\ i \in Groups \cup 1..s.masters
         /\ s.ids[i].state = "confirmed" <=> i \in Masters
         /\ i \in Groups => BoundTo(s, i) \subseteq s.ids[i].members
         /\ Marks(s.ids[i]) \ E \subseteq s.ids[i].members \cap BoundTo(s, i)
         /\ i \in Groups <=> i \notin Masters
<1>1. s \in Memory /\ s.ids[i] \in Record /\ i \in Id
  BY MemoryFacts DEF Sane
<1>2. i \in Groups \cup 1..s.masters /\ (s.ids[i].state = "confirmed" <=> i \in Masters)
  BY DEF Sane, Exist, States
<1>3. i \in Groups => BoundTo(s, i) \subseteq s.ids[i].members
  BY DEF Sane, Listed, BoundTo
<1>4. Marks(s.ids[i]) \ E \subseteq s.ids[i].members \cap BoundTo(s, i)
  BY DEF Sane, Marked, BoundTo
<1> QED BY <1>1, <1>2, <1>3, <1>4, NumberFacts DEF Id

\* The tracks T are bound to nothing.
Unbound(s, T) == T \subseteq Tracks /\ T \cap DOMAIN s.bound = {}

\* The tracks T, bound to nothing, come to be bound to identity i.
Joined(E, s, i, T, r) ==
  /\ Orderly(E, s, r, {}) /\ Alike(s, r) /\ DOMAIN r.ids = DOMAIN s.ids
  /\ DOMAIN r.bound = DOMAIN s.bound \cup T
  /\ \A t \in T : r.bound[t] = i
  /\ \A t \in DOMAIN s.bound : r.bound[t] = s.bound[t]

LEMMA AttachFacts ==
  ASSUME NEW E, NEW s, Sane(s, E), NEW m \in DOMAIN s.ids, NEW T, Unbound(s, T)
  PROVE  Joined(E, s, m, T, Attach(s, m, T))
<1> DEFINE record == [s.ids[m] EXCEPT !.members = @ \cup T, !.pending = @ \cup T]
<1>1. /\ s.ids[m] \in Record /\ m \in Groups \cup 1..s.masters
      /\ s.ids[m].state = "confirmed" <=> m \in Masters
      /\ m \in Groups => BoundTo(s, m) \subseteq s.ids[m].members
      /\ Marks(s.ids[m]) \ E \subseteq s.ids[m].members \cap BoundTo(s, m)
  BY OwnFacts
<1>2. /\ record \in Record /\ record.state = s.ids[m].state /\ record.members = s.ids[m].members \cup T
      /\ Marks(record) = Marks(s.ids[m]) \cup T
  BY <1>1, RecordFacts DEF Unbound
<1>3. Attach(s, m, T) = BindTo(Revise(s, m, record), m, T)
  BY DEF Attach
<1> HIDE DEF record
<1>4. Right(E, s, m, T, record)
  BY <1>1, <1>2 DEF Right, Unbound
<1>5. DOMAIN s.ids \cup {m} = DOMAIN s.ids
  OBVIOUS
<1>6. PICK r : r = Attach(s, m, T)
  OBVIOUS
<1>7. /\ Orderly(E, s, r, {}) /\ Alike(s, r)
      /\ r.ids[m] = record /\ DOMAIN r.ids = DOMAIN s.ids \cup {m}
      /\ \A j \in DOMAIN s.ids \ {m} : r.ids[j] = s.ids[j]
      /\ DOMAIN r.bound = DOMAIN s.bound \cup T
      /\ \A t \in T : r.bound[t] = m
      /\ \A t \in DOMAIN s.bound : r.bound[t] = s.bound[t]
  BY <1>3, <1>4, <1>6, BindFacts
<1> QED BY <1>5, <1>6, <1>7 DEF Joined

\* A record that grows, or says no more of its members than before.
Grows(E, s, i, record) ==
  /\ Sane(s, E) /\ i \in DOMAIN s.ids /\ record \in Record
  /\ record.state = "confirmed" <=> s.ids[i].state = "confirmed"
  /\ s.ids[i].members \subseteq record.members
  /\ Marks(record) \subseteq Marks(s.ids[i]) \cup (BoundTo(s, i) \cap record.members)

\* All that follows from it.
Revised(E, s, i, record, r) ==
  /\ Orderly(E, s, r, {}) /\ Alike(s, r)
  /\ r.bound = s.bound /\ r.done = s.done /\ r.staged = s.staged /\ r.rivals = s.rivals
  /\ r.ids[i] = record /\ DOMAIN r.ids = DOMAIN s.ids
  /\ \A j \in DOMAIN s.ids \ {i} : r.ids[j] = s.ids[j]

LEMMA GrowFacts ==
  ASSUME NEW E, NEW s, NEW i, NEW record, Grows(E, s, i, record)
  PROVE  Revised(E, s, i, record, Revise(s, i, record))
<1> USE DEF Grows
<1>1. /\ s.ids[i] \in Record /\ i \in Groups \cup 1..s.masters
      /\ s.ids[i].state = "confirmed" <=> i \in Masters
      /\ i \in Groups => BoundTo(s, i) \subseteq s.ids[i].members
      /\ Marks(s.ids[i]) \ E \subseteq s.ids[i].members \cap BoundTo(s, i)
  BY OwnFacts
<1>2. Right(E, s, i, {}, record)
  BY <1>1 DEF Right
<1>3. DOMAIN s.ids \cup {i} = DOMAIN s.ids
  OBVIOUS
<1> QED BY <1>2, <1>3, ReviseFacts DEF Revised

LEMMA JoinMasterFacts ==
  ASSUME NEW E, NEW s, Sane(s, E), NEW m \in DOMAIN s.ids, NEW p \in SUBSET Tracks
  PROVE  Joined(E, s, m, p \ DOMAIN s.bound, JoinMaster(s, m, p))
<1> DEFINE record == [s.ids[m] EXCEPT !.managed = TRUE, !.shots = @ \cup s.ids[m].home, !.members = @ \cup p]
           T == p \ DOMAIN s.bound
<1>1. s.ids[m] \in Record
  BY OwnFacts
<1>2. /\ record \in Record /\ record.state = s.ids[m].state /\ record.members = s.ids[m].members \cup p
      /\ Marks(record) = Marks(s.ids[m])
  BY <1>1 DEF Record, Marks
<1>3. PICK v : v = Revise(s, m, record)
  OBVIOUS
<1>4. Grows(E, s, m, record)
  BY <1>2 DEF Grows
<1>5. Revised(E, s, m, record, v)
  BY <1>3, <1>4, GrowFacts
<1>6. JoinMaster(s, m, p) = Attach(v, m, T)
  BY <1>3 DEF JoinMaster
<1> HIDE DEF record, T
<1>7. Sane(v, E) /\ Orderly(E, s, v, {}) /\ Alike(s, v) /\ v.bound = s.bound /\ DOMAIN v.ids = DOMAIN s.ids
  BY <1>5 DEF Revised, Orderly
<1>8. m \in DOMAIN v.ids /\ Unbound(v, T)
  BY <1>7 DEF T, Unbound
<1>9. PICK r : r = Attach(v, m, T)
  OBVIOUS
<1>10. Joined(E, v, m, T, r)
  BY <1>7, <1>8, <1>9, AttachFacts
<1>11. Orderly(E, s, r, {})
  BY <1>7, <1>10, OrderlyOn DEF Joined
<1>12. Alike(s, r)
  BY <1>7, <1>10 DEF Alike, Joined
<1>13. Joined(E, s, m, T, r)
  BY <1>7, <1>10, <1>11, <1>12 DEF Joined
<1> QED BY <1>6, <1>9, <1>13 DEF T

LEMMA JoinGroupFacts ==
  ASSUME NEW E, NEW s, Sane(s, E), NEW g \in DOMAIN s.ids, NEW p \in SUBSET Tracks
  PROVE  Joined(E, s, g, p \ DOMAIN s.bound, JoinGroup(s, g, p))
<1> DEFINE record == [s.ids[g] EXCEPT !.members = @ \cup p]
           T == p \ DOMAIN s.bound
<1>1. /\ s.ids[g] \in Record /\ g \in Groups \cup 1..s.masters
      /\ s.ids[g].state = "confirmed" <=> g \in Masters
      /\ g \in Groups => BoundTo(s, g) \subseteq s.ids[g].members
      /\ Marks(s.ids[g]) \ E \subseteq s.ids[g].members \cap BoundTo(s, g)
  BY OwnFacts
<1>2. /\ record \in Record /\ record.state = s.ids[g].state /\ record.members = s.ids[g].members \cup p
      /\ Marks(record) = Marks(s.ids[g])
  BY <1>1, RecordFacts
<1>3. JoinGroup(s, g, p) = BindTo(Revise(s, g, record), g, T)
  BY DEF JoinGroup
<1> HIDE DEF record
<1>4. Right(E, s, g, T, record)
  BY <1>1, <1>2 DEF Right
<1>5. DOMAIN s.ids \cup {g} = DOMAIN s.ids
  OBVIOUS
<1>6. PICK r : r = JoinGroup(s, g, p)
  OBVIOUS
<1> HIDE DEF T
<1>7. /\ Orderly(E, s, r, {}) /\ Alike(s, r)
      /\ r.ids[g] = record /\ DOMAIN r.ids = DOMAIN s.ids \cup {g}
      /\ \A j \in DOMAIN s.ids \ {g} : r.ids[j] = s.ids[j]
      /\ DOMAIN r.bound = DOMAIN s.bound \cup T
      /\ \A t \in T : r.bound[t] = g
      /\ \A t \in DOMAIN s.bound : r.bound[t] = s.bound[t]
  BY <1>3, <1>4, <1>6, BindFacts
<1>8. Joined(E, s, g, T, r)
  BY <1>5, <1>7 DEF Joined
<1> QED BY <1>6, <1>8 DEF T

\* A group begins under a number no track is bound to.
LEMMA StartGroupFacts ==
  ASSUME NEW E, NEW s, Sane(s, E), NEW g \in Groups, BoundTo(s, g) = {}, NEW p \in SUBSET Tracks,
         p \cap DOMAIN s.bound = {}
  PROVE  LET r == StartGroup(s, g, p)
         IN /\ Orderly(E, s, r, {}) /\ Alike(s, r) /\ DOMAIN r.ids = DOMAIN s.ids \cup {g}
            /\ DOMAIN r.bound = DOMAIN s.bound \cup p
            /\ \A t \in p : r.bound[t] = g
            /\ \A t \in DOMAIN s.bound : r.bound[t] = s.bound[t]
<1> DEFINE record == NewRecord("provisional", {})
<1>1. /\ record \in Record /\ record.state = "provisional" /\ Marks(record) = {}
  BY DEF NewRecord, Record, Marks
<1>2. PICK v : v = Revise(s, g, record)
  OBVIOUS
<1> HIDE DEF record
<1>3. Right(E, s, g, {}, record)
  BY <1>1, NumberFacts DEF Right
<1>4. /\ Orderly(E, s, v, {}) /\ Alike(s, v) /\ v.bound = s.bound /\ DOMAIN v.ids = DOMAIN s.ids \cup {g}
  BY <1>2, <1>3, ReviseFacts
<1>5. Sane(v, E) /\ g \in DOMAIN v.ids /\ p \ DOMAIN v.bound = p
  BY <1>4 DEF Orderly
<1>6. PICK r : r = JoinGroup(v, g, p)
  OBVIOUS
<1>7. Joined(E, v, g, p, r)
  BY <1>5, <1>6, JoinGroupFacts
<1>8. Orderly(E, s, r, {}) /\ Alike(s, r)
  BY <1>4, <1>7, OrderlyOn DEF Joined, Alike
<1>9. StartGroup(s, g, p) = r
  BY <1>2, <1>6 DEF StartGroup, record
<1> QED BY <1>4, <1>7, <1>8, <1>9 DEF Joined

\* A group without bindings may end.
LEMMA DropFacts ==
  ASSUME NEW E, NEW s, Sane(s, E), NEW g \in Groups, BoundTo(s, g) = {}
  PROVE  LET r == DropGroup(s, g)
         IN /\ Orderly(E, s, r, {}) /\ Alike(s, r) /\ r.bound = s.bound
            /\ DOMAIN r.ids = DOMAIN s.ids \ {g} /\ \A i \in DOMAIN r.ids : r.ids[i] = s.ids[i]
<1>1. s \in Memory /\ s.ids \in Dict(Id, Record)
  BY MemoryFacts DEF Sane
<1> DEFINE ids == Without(s.ids, {g})
           r == DropGroup(s, g)
<1>2. ids \in Dict(Id, Record) /\ DOMAIN ids = DOMAIN s.ids \ {g} /\ \A i \in DOMAIN ids : ids[i] = s.ids[i]
  <2>1. ids \in Dict(Id, Record)
    BY <1>1, WithoutFacts
  <2>2. DOMAIN ids = DOMAIN s.ids \ {g} /\ \A i \in DOMAIN ids : ids[i] = s.ids[i]
    BY WithoutDomain
  <2> QED BY <2>1, <2>2
<1>3. r = [s EXCEPT !.ids = ids]
  BY DEF DropGroup
<1> HIDE DEF ids, r
<1>4. r \in Memory /\ Alike(s, r) /\ r.ids = ids /\ r.bound = s.bound
  BY <1>1, <1>2, <1>3 DEF Memory, Alike
<1>5. \A t \in DOMAIN s.bound : s.bound[t] # g
  BY DEF BoundTo
<1>6. g \notin Masters
  BY NumberFacts
<1>7. Exist(r)
  <2>1. DOMAIN s.contest \subseteq DOMAIN s.ids /\ DOMAIN s.contest \subseteq Masters
    BY <1>1, MemoryFacts DEF Sane, Exist
  <2> QED BY <1>2, <1>4, <1>5, <1>6, <2>1 DEF Sane, Exist, Alike
<1>8. States(r) /\ Listed(r) /\ Marked(r, E) /\ InView(r) /\ OwnHolds(r)
  BY <1>2, <1>4, <1>5, <1>7 DEF Sane, States, Listed, Marked, InView, OwnHolds, Exist, Alike
<1>9. Keeps(s, r, {})
  <2>1. s.masters \in Int
    BY <1>1, MemoryFacts, NumberFacts
  <2> QED BY <1>2, <1>4, <2>1 DEF Keeps, Waits, Alike
<1> QED BY <1>2, <1>4, <1>7, <1>8, <1>9 DEF r, Orderly, Sane

\* A group that ends leaves its tracks, as far as they are bound, one identity.
Whole(s, r) ==
  \A g \in DOMAIN s.ids \cap Groups : g \notin DOMAIN r.ids =>
    \A t, u \in BoundTo(s, g) \cap DOMAIN r.bound : r.bound[t] = r.bound[u]

LEMMA ListedFacts ==
  ASSUME NEW E, NEW s, Sane(s, E), NEW g \in Groups \cap DOMAIN s.ids
  PROVE  LiveMembers(s, g) = BoundTo(s, g) /\ BoundTo(s, g) \subseteq Tracks
<1>1. BoundTo(s, g) \subseteq s.ids[g].members
  BY OwnFacts
<1>2. DOMAIN s.bound \subseteq Tracks
  BY MemoryFacts DEF Sane
<1> QED BY <1>1, <1>2 DEF LiveMembers, BoundTo

LEMMA StartSplitFacts ==
  ASSUME NEW E, NEW s, Sane(s, E), NEW i, NEW t \in Tracks
  PROVE  LET r == StartSplit(s, i, t)
         IN /\ Orderly(E, s, r, {}) /\ Alike(s, r) /\ r.bound = s.bound
            /\ DOMAIN r.ids \subseteq DOMAIN s.ids
            /\ \A j \in DOMAIN s.ids \ DOMAIN r.ids : BoundTo(s, j) = {}
<1>1. CASE i \notin Groups \/ ~ Unnumbered(s, i)
  BY <1>1, OrderlySelf DEF StartSplit, Alike
<1>2. CASE i \in Groups /\ Unnumbered(s, i)
  <2>1. i \in Groups \cap DOMAIN s.ids
    BY <1>2 DEF Unnumbered
  <2>2. LiveMembers(s, i) = BoundTo(s, i)
    BY <2>1, ListedFacts
  <2>3. CASE LiveMembers(s, i) = {}
    <3>1. PICK r : r = DropGroup(s, i)
      OBVIOUS
    <3>2. StartSplit(s, i, t) = r
      BY <1>2, <2>3, <3>1 DEF StartSplit
    <3>3. Orderly(E, s, r, {}) /\ Alike(s, r) /\ r.bound = s.bound /\ DOMAIN r.ids = DOMAIN s.ids \ {i}
      BY <2>1, <2>2, <2>3, <3>1, DropFacts
    <3> QED BY <2>2, <2>3, <3>2, <3>3
  <2>4. CASE LiveMembers(s, i) # {}
    <3> DEFINE record == [s.ids[i] EXCEPT !.revoked = @ \cup {t}]
    <3>1. \/ StartSplit(s, i, t) = s
          \/ StartSplit(s, i, t) = Revise(s, i, record)
      BY <1>2, <2>4 DEF StartSplit
    <3>2. s.ids[i] \in Record
      BY <2>1, OwnFacts
    <3>3. record \in Record /\ record.state = s.ids[i].state /\ record.members = s.ids[i].members /\ Marks(record) = Marks(s.ids[i])
      BY <3>2 DEF Record, Marks
    <3> HIDE DEF record
    <3>4. Grows(E, s, i, record)
      BY <2>1, <3>3 DEF Grows
    <3>5. Revised(E, s, i, record, Revise(s, i, record))
      BY <3>4, GrowFacts
    <3>6. Orderly(E, s, s, {}) /\ Alike(s, s)
      BY OrderlySelf DEF Alike
    <3> QED BY <3>1, <3>5, <3>6 DEF Revised
  <2> QED BY <2>3, <2>4
<1> QED BY <1>1, <1>2

LEMMA DissolveFacts ==
  ASSUME NEW E, NEW s, Sane(s, E), NEW g \in Groups \cap DOMAIN s.ids
  PROVE  LET r == Dissolve(s, g)
         IN /\ Orderly(E, s, r, {}) /\ DOMAIN r.ids = DOMAIN s.ids \ {g}
            /\ DOMAIN r.bound = DOMAIN s.bound \ BoundTo(s, g)
            /\ \A t \in DOMAIN r.bound : r.bound[t] = s.bound[t]
            /\ r.barred = s.barred /\ r.masters = s.masters
<1> DEFINE T == BoundTo(s, g)
<1>1. LiveMembers(s, g) = T /\ T \in SUBSET Tracks
  BY ListedFacts
<1>2. PICK c : c = ClearBindings(s, T)
  OBVIOUS
<1> HIDE DEF T
<1>3. /\ Orderly(E, s, c, {}) /\ DOMAIN c.ids = DOMAIN s.ids
      /\ DOMAIN c.bound = DOMAIN s.bound \ T /\ \A t \in DOMAIN c.bound : c.bound[t] = s.bound[t]
      /\ c.barred = s.barred /\ c.masters = s.masters
  BY <1>1, <1>2, ClearFacts
<1>4. Sane(c, E) /\ BoundTo(c, g) = {}
  BY <1>3 DEF Orderly, BoundTo, T
<1>5. PICK r : r = DropGroup(c, g)
  OBVIOUS
<1>6. /\ Orderly(E, c, r, {}) /\ Alike(c, r) /\ r.bound = c.bound /\ DOMAIN r.ids = DOMAIN c.ids \ {g}
  BY <1>4, <1>5, DropFacts
<1>7. Orderly(E, s, r, {})
  BY <1>3, <1>6, OrderlyOn
<1>8. Dissolve(s, g) = r
  BY <1>1, <1>2, <1>5 DEF Dissolve
<1> QED BY <1>3, <1>6, <1>7, <1>8 DEF T, Alike

LEMMA RecoverFacts ==
  ASSUME NEW E, NEW s, Sane(s, E), NEW t \in Tracks, NEW u \in Tracks, Recoverable(s, t, u)
  PROVE  LET r == Recover(s, t, u) IN Orderly(E, s, r, {}) /\ Whole(s, r)
<1>1. PICK g, m : g = s.bound[t] /\ m = s.bound[u]
  OBVIOUS
<1>2. /\ t \in DOMAIN s.bound /\ g \in Groups \cap DOMAIN s.ids
      /\ m \in DOMAIN s.ids /\ s.ids[m].state = "confirmed" /\ m # g
      /\ LiveMembers(s, g) = {t}
  <2>1. m \in Masters
    BY <1>1 DEF Recoverable
  <2> QED BY <1>1, <2>1, NumberFacts DEF Recoverable, Unnumbered
<1>3. BoundTo(s, g) = {t}
  BY <1>2, ListedFacts
<1>4. PICK c : c = ClearBindings(s, {t})
  OBVIOUS
<1>5. /\ Orderly(E, s, c, {}) /\ DOMAIN c.ids = DOMAIN s.ids
      /\ DOMAIN c.bound = DOMAIN s.bound \ {t} /\ \A v \in DOMAIN c.bound : c.bound[v] = s.bound[v]
  BY <1>4, ClearFacts
<1>6. Sane(c, E) /\ BoundTo(c, g) = {}
  BY <1>3, <1>5 DEF Orderly, BoundTo
<1>7. PICK d : d = DropGroup(c, g)
  OBVIOUS
<1>8. /\ Orderly(E, c, d, {}) /\ d.bound = c.bound /\ DOMAIN d.ids = DOMAIN c.ids \ {g}
  BY <1>2, <1>6, <1>7, DropFacts
<1>9. Sane(d, E) /\ m \in DOMAIN d.ids
  BY <1>2, <1>5, <1>8 DEF Orderly
<1> DEFINE record == [d.ids[m] EXCEPT !.doubted = @ \ {t}, !.refused = @ \ {t}, !.managed = TRUE]
<1>10. d.ids[m] \in Record
  BY <1>9, OwnFacts
<1>11. record \in Record /\ record.state = d.ids[m].state /\ record.members = d.ids[m].members /\ Marks(record) \subseteq Marks(d.ids[m])
  BY <1>10 DEF Record, Marks
<1>12. PICK v : v = Revise(d, m, record)
  OBVIOUS
<1>13. PICK r : r = Attach(v, m, {t})
  OBVIOUS
<1>14. Recover(s, t, u) = r
  BY <1>1, <1>4, <1>7, <1>12, <1>13 DEF Recover
<1> HIDE DEF record
<1>15. Grows(E, d, m, record)
  BY <1>9, <1>11 DEF Grows
<1>16. Revised(E, d, m, record, v)
  BY <1>12, <1>15, GrowFacts
<1>17. Sane(v, E) /\ Orderly(E, d, v, {}) /\ v.bound = d.bound /\ DOMAIN v.ids = DOMAIN d.ids
  BY <1>16 DEF Revised, Orderly
<1>18. Unbound(v, {t})
  BY <1>5, <1>8, <1>17 DEF Unbound
<1>19. Joined(E, v, m, {t}, r)
  BY <1>9, <1>13, <1>17, <1>18, AttachFacts
<1>20. Orderly(E, v, r, {}) /\ DOMAIN r.ids = DOMAIN v.ids /\ DOMAIN r.bound = DOMAIN v.bound \cup {t}
  BY <1>19 DEF Joined
<1>21. Orderly(E, s, r, {})
  <2>1. Orderly(E, s, d, {})
    BY <1>5, <1>8, OrderlyOn
  <2>2. Orderly(E, s, v, {})
    BY <1>17, <2>1, OrderlyOn
  <2> QED BY <1>20, <2>2, OrderlyOn
<1>22. Whole(s, r)
  <2>1. DOMAIN r.ids = DOMAIN s.ids \ {g}
    BY <1>5, <1>8, <1>17, <1>20
  <2> QED BY <1>3, <2>1 DEF Whole
<1> QED BY <1>14, <1>21, <1>22

LEMMA CreatePairFacts ==
  ASSUME NEW E, NEW s, Sane(s, E), NEW p \in SUBSET Tracks, NEW r \in CreatePair(s, p)
  PROVE  Orderly(E, s, r, {}) /\ Whole(s, r)
<1> DEFINE ids == UNION {IdOf(s, t) : t \in p}
<1>1. CASE r = s
  BY <1>1, OrderlySelf DEF Whole
<1>2. ASSUME NEW t \in p, NEW u \in p, Recoverable(s, t, u), r = Recover(s, t, u)
      PROVE  Orderly(E, s, r, {}) /\ Whole(s, r)
  BY <1>2, RecoverFacts
<1>3. ASSUME ids = {}, NEW g \in NewGroup(s), r = StartGroup(s, g, p)
      PROVE  Orderly(E, s, r, {}) /\ Whole(s, r)
  <2>1. g \in Groups /\ BoundTo(s, g) = {}
    BY DEF NewGroup
  <2>2. p \cap DOMAIN s.bound = {}
    BY <1>3 DEF IdOf
  <2>3. Orderly(E, s, r, {}) /\ DOMAIN r.ids = DOMAIN s.ids \cup {g}
    BY <1>3, <2>1, <2>2, StartGroupFacts
  <2> QED BY <2>3 DEF Whole
<1>4. ASSUME NEW i \in ids, r = JoinMaster(s, i, p) \/ r = JoinGroup(s, i, p)
      PROVE  Orderly(E, s, r, {}) /\ Whole(s, r)
  <2>1. i \in DOMAIN s.ids
    BY DEF IdOf, Sane, Exist
  <2>2. Joined(E, s, i, p \ DOMAIN s.bound, r)
    BY <1>4, <2>1, JoinMasterFacts, JoinGroupFacts
  <2> QED BY <2>2 DEF Joined, Whole
<1>5. \/ r = s
      \/ \E t, u \in p : Recoverable(s, t, u) /\ r = Recover(s, t, u)
      \/ ids = {} /\ \E g \in NewGroup(s) : r = StartGroup(s, g, p)
      \/ \E i \in ids : r = JoinMaster(s, i, p) \/ r = JoinGroup(s, i, p)
  <2> DEFINE groups == {i \in ids : Unnumbered(s, i)}
             recoveries == {q \in p \X p : Recoverable(s, q[1], q[2])}
             only == CHOOSE i \in ids : TRUE
             decided ==
               IF Cardinality(ids) > 1 THEN {s}
               ELSE IF ids = {} THEN {StartGroup(s, g, p) : g \in NewGroup(s)}
               ELSE IF LostBefore(s, only, p) \/ SecondOwner(s, only, p) THEN {s}
               ELSE {IF groups = {} THEN JoinMaster(s, only, p) ELSE JoinGroup(s, only, p)}
  <2>1. r \in {s} \/ r \in decided \/ r \in {Recover(s, q[1], q[2]) : q \in recoveries}
    <3>1. CreatePair(s, p) = IF p \subseteq DOMAIN s.bound /\ Cardinality(ids) = 1 THEN {s}
                             ELSE IF recoveries = {} THEN decided
                             ELSE decided \cup {Recover(s, q[1], q[2]) : q \in recoveries}
      BY DEF CreatePair
    <3> HIDE DEF decided, recoveries, ids
    <3> QED BY <3>1
  <2>2. ASSUME r \in {Recover(s, q[1], q[2]) : q \in recoveries}
        PROVE  \E t, u \in p : Recoverable(s, t, u) /\ r = Recover(s, t, u)
    BY <2>2
  <2>3. ASSUME r \in decided
        PROVE  \/ r = s
               \/ ids = {} /\ \E g \in NewGroup(s) : r = StartGroup(s, g, p)
               \/ \E i \in ids : r = JoinMaster(s, i, p) \/ r = JoinGroup(s, i, p)
    <3>1. ids # {} => only \in ids
      OBVIOUS
    <3> HIDE DEF ids, only, groups
    <3> QED BY <2>3, <3>1
  <2> QED BY <2>1, <2>2, <2>3
<1> QED BY <1>1, <1>2, <1>3, <1>4, <1>5

-----------------------------------------------------------------------------
(* Promotion and confirmation.                                              *)

LEMMA NumberedFacts ==
  ASSUME NEW E, NEW s, Sane(s, E), NEW g \in Groups \cap DOMAIN s.ids, s.masters < MaxMasters, NEW c \in Cameras
  PROVE  LET r == Numbered(s, g, c) IN Orderly(E, s, r, {}) /\ Whole(s, r)
<1> DEFINE m == s.masters + 1
           record == [s.ids[g] EXCEPT !.state = "confirmed", !.blocked = {}, !.home = {c}]
           rest == Without(s.ids, {g})
           ids == Set(rest, m, record)
           bound == [t \in DOMAIN s.bound |-> IF s.bound[t] = g THEN m ELSE s.bound[t]]
           r == Numbered(s, g, c)
<1>1. /\ s \in Memory /\ s.ids \in Dict(Id, Record) /\ s.ids[g] \in Record
      /\ s.masters \in 0..MaxMasters /\ g \notin Masters
      /\ DOMAIN s.bound \subseteq Tracks /\ \A t \in DOMAIN s.bound : s.bound[t] \in Id
  BY MemoryFacts, NumberFacts DEF Sane
<1>2. m \in 0..MaxMasters /\ m \in Masters /\ m \in Id /\ m \notin Groups /\ m \notin 1..s.masters /\ s.masters <= m /\ m \in Nat
  BY <1>1, NumberFacts DEF Masters, Id
<1>3. m \notin DOMAIN s.ids
  BY <1>2 DEF Sane, Exist
<1>4. /\ record \in Record /\ record.state = "confirmed" /\ record.members = s.ids[g].members
      /\ Marks(record) = Marks(s.ids[g])
  BY <1>1 DEF Record, Marks
<1>5. rest \in Dict(Id, Record) /\ DOMAIN rest = DOMAIN s.ids \ {g} /\ \A i \in DOMAIN rest : rest[i] = s.ids[i]
  <2>1. rest \in Dict(Id, Record)
    BY <1>1, WithoutFacts
  <2>2. DOMAIN rest = DOMAIN s.ids \ {g} /\ \A i \in DOMAIN rest : rest[i] = s.ids[i]
    BY WithoutDomain
  <2> QED BY <2>1, <2>2
<1> HIDE DEF record, rest, m
<1>6. /\ ids \in Dict(Id, Record) /\ DOMAIN ids = (DOMAIN s.ids \ {g}) \cup {m} /\ ids[m] = record
      /\ \A i \in DOMAIN s.ids \ {g} : ids[i] = s.ids[i]
  <2>1. ids \in Dict(Id, Record)
    BY <1>2, <1>4, <1>5, SetFacts
  <2>2. DOMAIN ids = DOMAIN rest \cup {m} /\ ids[m] = record /\ \A i \in DOMAIN rest \ {m} : ids[i] = rest[i]
    BY DEF Set
  <2> HIDE DEF ids
  <2> QED BY <1>3, <1>5, <2>1, <2>2
<1>7. /\ bound \in Dict(Tracks, Id) /\ DOMAIN bound = DOMAIN s.bound
      /\ \A t \in DOMAIN s.bound : IF s.bound[t] = g THEN bound[t] = m ELSE bound[t] = s.bound[t]
  <2>1. /\ bound = [t \in DOMAIN bound |-> bound[t]] /\ DOMAIN bound \subseteq Tracks
        /\ \A t \in DOMAIN bound : bound[t] \in Id
    BY <1>1, <1>2
  <2>2. /\ DOMAIN bound = DOMAIN s.bound
        /\ \A t \in DOMAIN s.bound : IF s.bound[t] = g THEN bound[t] = m ELSE bound[t] = s.bound[t]
    OBVIOUS
  <2> HIDE DEF bound
  <2> QED BY <2>1, <2>2, DictFacts
<1>8. r = [s EXCEPT !.masters = m, !.ids = ids, !.bound = bound]
  BY DEF Numbered, m, record, rest
<1> HIDE DEF r, ids, bound
<1>9. /\ r \in Memory /\ r.ids = ids /\ r.bound = bound /\ r.masters = m
      /\ r.visible = s.visible /\ r.intake = s.intake /\ r.holds = s.holds /\ r.contest = s.contest
  BY <1>1, <1>2, <1>6, <1>7, <1>8, NumberFacts DEF Memory
<1>10. Exist(r)
  <2>1. DOMAIN r.ids \subseteq Groups \cup 1..r.masters
    BY <1>1, <1>2, <1>6, <1>9 DEF Sane, Exist, m
  <2>2. \A t \in DOMAIN r.bound : r.bound[t] \in DOMAIN r.ids
    BY <1>6, <1>7, <1>9 DEF Sane, Exist
  <2>3. DOMAIN s.contest \subseteq DOMAIN s.ids /\ DOMAIN s.contest \subseteq Masters
    BY <1>1, MemoryFacts DEF Sane, Exist
  <2> QED BY <1>1, <1>6, <1>9, <2>1, <2>2, <2>3 DEF Exist
<1>11. States(r) /\ InView(r) /\ OwnHolds(r)
  BY <1>2, <1>4, <1>6, <1>9 DEF Sane, States, InView, OwnHolds
<1>12. Listed(r)
  <2> SUFFICES ASSUME NEW t \in DOMAIN r.bound, r.bound[t] \in Groups
               PROVE  t \in r.ids[r.bound[t]].members
    BY DEF Listed
  <2>1. t \in DOMAIN s.bound /\ s.bound[t] # g /\ r.bound[t] = s.bound[t]
    BY <1>2, <1>7, <1>9
  <2>2. s.bound[t] \in DOMAIN s.ids \ {g}
    BY <2>1 DEF Sane, Exist
  <2> QED BY <1>6, <1>9, <2>1, <2>2 DEF Sane, Listed
<1>13. Marked(r, E)
  <2> SUFFICES ASSUME NEW i \in DOMAIN r.ids, NEW t \in Marks(r.ids[i]) \ E
               PROVE  t \in r.ids[i].members /\ t \in DOMAIN r.bound /\ r.bound[t] = i
    BY DEF Marked
  <2>1. CASE i = m
    <3>1. t \in Marks(s.ids[g]) \ E
      BY <1>4, <1>6, <1>9, <2>1
    <3>2. t \in s.ids[g].members /\ t \in DOMAIN s.bound /\ s.bound[t] = g
      BY <3>1 DEF Sane, Marked
    <3> QED BY <1>4, <1>6, <1>7, <1>9, <2>1, <3>2
  <2>2. CASE i # m
    <3>1. i \in DOMAIN s.ids \ {g} /\ r.ids[i] = s.ids[i]
      BY <1>6, <1>9, <2>2
    <3>2. t \in s.ids[i].members /\ t \in DOMAIN s.bound /\ s.bound[t] = i
      BY <3>1 DEF Sane, Marked
    <3> QED BY <1>7, <1>9, <3>1, <3>2
  <2> QED BY <2>1, <2>2
<1>14. Keeps(s, r, {})
  BY <1>1, <1>2, <1>6, <1>9 DEF Keeps, Waits
<1>15. Whole(s, r)
  <2>1. DOMAIN s.ids \ {g} \subseteq DOMAIN r.ids
    BY <1>6, <1>9
  <2>2. \A t \in BoundTo(s, g) : r.bound[t] = m
    BY <1>7, <1>9 DEF BoundTo
  <2> QED BY <2>1, <2>2 DEF Whole
<1> QED BY <1>9, <1>10, <1>11, <1>12, <1>13, <1>14, <1>15 DEF r, Orderly, Sane

\* What happens after a change that ends no group and binds nothing.
LEMMA WholeAfter ==
  ASSUME NEW s, NEW v, NEW r, v.bound = s.bound, DOMAIN s.ids \subseteq DOMAIN v.ids, Whole(v, r)
  PROVE  Whole(s, r)
BY DEF Whole, BoundTo

LEMMA PromoteFacts ==
  ASSUME NEW E, NEW s, Sane(s, E), NEW g \in Groups \cap DOMAIN s.ids, NEW reason, NEW r \in Promote(s, g, reason)
  PROVE  Orderly(E, s, r, {}) /\ Whole(s, r)
<1> DEFINE record == [s.ids[g] EXCEPT !.blocked = {}]
<1>1. PICK v : v = Revise(s, g, record)
  OBVIOUS
<1>2. s.ids[g] \in Record
  BY OwnFacts
<1>3. record \in Record /\ record.state = s.ids[g].state /\ record.members = s.ids[g].members /\ Marks(record) = Marks(s.ids[g])
  BY <1>2 DEF Record, Marks
<1>4. \/ r = s \/ r = v
      \/ s.masters < MaxMasters /\ \E c \in s.ids[g].shots \cup s.ids[g].views : r = Numbered(v, g, c)
  BY <1>1 DEF Promote
<1> HIDE DEF record
<1>5. Grows(E, s, g, record)
  BY <1>3 DEF Grows
<1>6. Revised(E, s, g, record, v)
  BY <1>1, <1>5, GrowFacts
<1>7. Orderly(E, s, v, {}) /\ Sane(v, E) /\ v.bound = s.bound /\ DOMAIN v.ids = DOMAIN s.ids /\ v.masters = s.masters
  BY <1>6 DEF Revised, Orderly, Alike
<1>8. Orderly(E, s, s, {}) /\ Whole(s, s)
  BY OrderlySelf DEF Whole
<1>9. Whole(s, v)
  BY <1>7 DEF Whole
<1>10. ASSUME s.masters < MaxMasters, NEW c \in s.ids[g].shots \cup s.ids[g].views, r = Numbered(v, g, c)
       PROVE  Orderly(E, s, r, {}) /\ Whole(s, r)
  <2>1. c \in Cameras
    BY <1>2 DEF Record
  <2>2. Orderly(E, v, r, {}) /\ Whole(v, r)
    BY <1>7, <1>10, <2>1, NumberedFacts
  <2> QED BY <1>7, <2>2, OrderlyOn, WholeAfter
<1> QED BY <1>4, <1>7, <1>8, <1>9, <1>10

LEMMA EvaluateFacts ==
  ASSUME NEW E, NEW s, Sane(s, E), NEW i, NEW r \in Evaluate(s, i)
  PROVE  Orderly(E, s, r, {}) /\ Whole(s, r)
<1>1. CASE r = s
  BY <1>1, OrderlySelf DEF Whole
<1>2. CASE r # s
  <2> DEFINE record == [s.ids[i] EXCEPT !.state = "challenged"]
  <2>1. Unnumbered(s, i)
    BY <1>2 DEF Evaluate
  <2>2. r = Revise(s, i, record) \/ r \in Promote(s, i, "appearance")
    BY <1>2 DEF Evaluate
  <2>3. i \in Groups \cap DOMAIN s.ids
    BY <2>1, OwnFacts DEF Unnumbered
  <2>4. s.ids[i] \in Record
    BY <2>3, OwnFacts
  <2>5. record \in Record /\ record.state = "challenged" /\ record.members = s.ids[i].members /\ Marks(record) = Marks(s.ids[i])
    BY <2>4 DEF Record, Marks
  <2> HIDE DEF record
  <2>6. Grows(E, s, i, record)
    BY <2>1, <2>3, <2>5 DEF Grows, Unnumbered
  <2>7. Revised(E, s, i, record, Revise(s, i, record))
    BY <2>6, GrowFacts
  <2>8. CASE r = Revise(s, i, record)
    BY <2>7, <2>8 DEF Revised, Whole
  <2> QED BY <2>2, <2>3, <2>8, PromoteFacts
<1> QED BY <1>1, <1>2

\* A change that binds nothing and begins, ends and numbers no identity.
Steady(E, s, v) ==
  /\ Orderly(E, s, v, {}) /\ v.bound = s.bound /\ DOMAIN v.ids = DOMAIN s.ids /\ v.masters = s.masters
  /\ v.visible = s.visible /\ v.barred = s.barred /\ v.contest = s.contest /\ DOMAIN v.intake = DOMAIN s.intake

LEMMA SteadyFacts ==
  ASSUME NEW E, NEW s, NEW v, Steady(E, s, v)
  PROVE  /\ Orderly(E, s, v, {}) /\ Sane(v, E) /\ Whole(s, v)
         /\ v.bound = s.bound /\ DOMAIN v.ids = DOMAIN s.ids /\ v.masters = s.masters
         /\ v.visible = s.visible /\ v.barred = s.barred /\ v.contest = s.contest
         /\ DOMAIN v.intake = DOMAIN s.intake
BY DEF Steady, Orderly, Whole

LEMMA SteadyOn ==
  ASSUME NEW E, NEW s, NEW v, NEW r, Steady(E, s, v), Steady(E, v, r)
  PROVE  Steady(E, s, r)
BY OrderlyOn DEF Steady

LEMMA RevisedSteady ==
  ASSUME NEW E, NEW s, NEW i, NEW record, Grows(E, s, i, record)
  PROVE  /\ Steady(E, s, Revise(s, i, record))
         /\ Revise(s, i, record).ids[i] = record
<1>1. Revised(E, s, i, record, Revise(s, i, record))
  BY GrowFacts
<1> QED BY <1>1 DEF Revised, Steady, Alike

LEMMA ConfirmFacts ==
  ASSUME NEW E, NEW s, Sane(s, E), NEW i \in DOMAIN s.ids, NEW byLocation, NEW T
  PROVE  Steady(E, s, Confirm(s, i, byLocation, T))
<1> DEFINE ready == Confirmable(s, i, byLocation) \cap T
           record == [s.ids[i] EXCEPT !.pending = @ \ ready, !.doubted = @ \ ready]
           matched == ready \cap BoundTo(s, i)
<1>1. s.ids[i] \in Record
  BY OwnFacts
<1>2. PICK v : v = Revise(s, i, record)
  OBVIOUS
<1>3. PICK r : r = [v EXCEPT !.staged = @ \ ready, !.done = @ \cup matched]
  OBVIOUS
<1>4. Confirm(s, i, byLocation, T) = r
  BY <1>2, <1>3 DEF Confirm
<1>5. matched \subseteq Tracks
  BY MemoryFacts DEF BoundTo, Sane
<1> HIDE DEF ready
<1>6. record \in Record /\ record.state = s.ids[i].state /\ record.members = s.ids[i].members /\ Marks(record) \subseteq Marks(s.ids[i])
  BY <1>1 DEF Record, Marks
<1> HIDE DEF record, matched
<1>7. Grows(E, s, i, record)
  BY <1>6 DEF Grows
<1>8. Steady(E, s, v)
  BY <1>2, <1>7, RevisedSteady
<1>9. Sane(v, E) /\ v \in Memory
  BY <1>8, SteadyFacts DEF Sane
<1>10. r \in Memory /\ Beside(v, r) /\ r.barred = v.barred
  BY <1>3, <1>5, <1>9 DEF Memory, Beside
<1>11. Orderly(E, v, r, {})
  BY <1>9, <1>10, SideFacts
<1>12. Steady(E, v, r)
  BY <1>10, <1>11 DEF Beside, Steady
<1> QED BY <1>4, <1>8, <1>12, SteadyOn

LEMMA NoteMatchFacts ==
  ASSUME NEW E, NEW s, Sane(s, E), NEW i, NEW streak, NEW limit, NEW p \in SUBSET Tracks,
         NEW r \in NoteMatch(s, i, streak, limit, p)
  PROVE  Orderly(E, s, r, {}) /\ Whole(s, r)
<1>1. CASE i \notin DOMAIN s.ids
  BY <1>1, OrderlySelf DEF NoteMatch, Whole
<1>2. CASE i \in DOMAIN s.ids
  <2> DEFINE matched == p \cap BoundTo(s, i)
             record == [s.ids[i] EXCEPT !.managed = TRUE, !.members = @ \cup matched]
  <2>1. PICK v : v = Revise(s, i, record)
    OBVIOUS
  <2>2. \/ r = v
        \/ s.ids[i].state = "provisional" /\ r \in Promote(v, i, "location")
        \/ \E T : r = Confirm(v, i, TRUE, T)
    BY <1>2, <2>1 DEF NoteMatch
  <2>3. s.ids[i] \in Record /\ matched \subseteq Tracks /\ (s.ids[i].state = "confirmed" <=> i \in Masters) /\ (i \in Groups <=> i \notin Masters)
    BY <1>2, OwnFacts
  <2> HIDE DEF matched
  <2>4. record \in Record /\ record.state = s.ids[i].state /\ record.members = s.ids[i].members \cup matched /\ Marks(record) = Marks(s.ids[i])
    BY <2>3 DEF Record, Marks
  <2> HIDE DEF record
  <2>5. Grows(E, s, i, record)
    BY <1>2, <2>4 DEF Grows
  <2>6. Steady(E, s, v)
    BY <2>1, <2>5, RevisedSteady
  <2>7. Sane(v, E) /\ Orderly(E, s, v, {}) /\ Whole(s, v) /\ v.bound = s.bound /\ DOMAIN v.ids = DOMAIN s.ids
    BY <2>6, SteadyFacts
  <2>8. ASSUME s.ids[i].state = "provisional", r \in Promote(v, i, "location")
        PROVE  Orderly(E, s, r, {}) /\ Whole(s, r)
    <3>1. i \in Groups \cap DOMAIN v.ids
      BY <1>2, <2>3, <2>7, <2>8
    <3>2. Orderly(E, v, r, {}) /\ Whole(v, r)
      BY <2>7, <2>8, <3>1, PromoteFacts
    <3> QED BY <2>7, <3>2, OrderlyOn, WholeAfter
  <2>9. ASSUME NEW T, r = Confirm(v, i, TRUE, T)
        PROVE  Orderly(E, s, r, {}) /\ Whole(s, r)
    <3>1. Steady(E, v, r)
      BY <1>2, <2>7, <2>9, ConfirmFacts
    <3>2. Steady(E, s, r)
      BY <2>6, <3>1, SteadyOn
    <3> QED BY <3>2, SteadyFacts
  <2> QED BY <2>2, <2>7, <2>8, <2>9
<1> QED BY <1>1, <1>2

-----------------------------------------------------------------------------
(* The intake.                                                              *)

\* An intake that is still submitted waits for something that will submit it again.
Answered(s, t) == t \in DOMAIN s.intake /\ s.intake[t].submitted => Waits(s, t)

LEMMA AnsweredOn ==
  ASSUME NEW E, NEW s, NEW r, NEW t, Orderly(E, s, r, {}), Answered(s, t)
  PROVE  Answered(r, t)
BY DEF Orderly, Keeps, Answered

LEMMA FinishFacts ==
  ASSUME NEW E, NEW s, Sane(s, E), NEW t \in Tracks
  PROVE  LET r == Finish(s, t)
         IN /\ Orderly(E, s, r, {}) /\ r.bound = s.bound /\ r.ids = s.ids /\ r.masters = s.masters
            /\ Answered(r, t)
<1> DEFINE intake == Without(s.intake, {t})
           r == Finish(s, t)
<1>1. s \in Memory /\ s.intake \in Dict(Tracks, Intake)
  BY MemoryFacts DEF Sane
<1>2. intake \in Dict(Tracks, Intake) /\ DOMAIN intake = DOMAIN s.intake \ {t} /\ \A u \in DOMAIN intake : intake[u] = s.intake[u]
  <2>1. intake \in Dict(Tracks, Intake)
    BY <1>1, WithoutFacts
  <2>2. DOMAIN intake = DOMAIN s.intake \ {t} /\ \A u \in DOMAIN intake : intake[u] = s.intake[u]
    BY WithoutDomain
  <2> QED BY <2>1, <2>2
<1>3. r = [s EXCEPT !.done = @ \cup {t}, !.intake = intake]
  BY DEF Finish
<1> HIDE DEF r, intake
<1>4. /\ r \in Memory /\ r.intake = intake /\ r.bound = s.bound /\ r.ids = s.ids /\ r.masters = s.masters
      /\ r.visible = s.visible /\ r.holds = s.holds /\ r.contest = s.contest
  BY <1>1, <1>2, <1>3 DEF Memory
<1>5. Sane(r, E)
  BY <1>2, <1>4 DEF Sane, Exist, States, Listed, Marked, InView, OwnHolds
<1>6. Keeps(s, r, {})
  <2>1. s.masters \in Int
    BY <1>1, MemoryFacts, NumberFacts
  <2> QED BY <1>2, <1>4, <2>1 DEF Keeps, Waits
<1> QED BY <1>2, <1>4, <1>5, <1>6 DEF r, Orderly, Answered

\* One intake changes.
Reopened(E, s, t, entry, r) ==
  /\ Sane(s, E) /\ r \in Memory /\ t \in DOMAIN s.intake
  /\ DOMAIN r.intake = DOMAIN s.intake /\ r.intake[t] = entry
  /\ \A u \in DOMAIN s.intake \ {t} : r.intake[u] = s.intake[u]
  /\ r.bound = s.bound /\ r.ids = s.ids /\ r.masters = s.masters /\ r.visible = s.visible /\ r.holds = s.holds
  /\ DOMAIN s.contest \subseteq DOMAIN r.contest /\ \A m \in DOMAIN s.contest : r.contest[m] = s.contest[m]
  /\ DOMAIN r.contest \subseteq DOMAIN s.ids
  /\ entry.submitted => /\ s.intake[t].submitted /\ entry.gen = s.intake[t].gen /\ s.intake[t].why \subseteq entry.why

LEMMA ReopenFacts ==
  ASSUME NEW E, NEW s, NEW t, NEW entry, NEW r, Reopened(E, s, t, entry, r)
  PROVE  Orderly(E, s, r, {}) /\ Whole(s, r)
<1> USE DEF Reopened
<1>1. Sane(r, E)
  BY DEF Sane, Exist, States, Listed, Marked, InView, OwnHolds
<1>2. Keeps(s, r, {})
  <2>1. s.masters \in Int
    BY MemoryFacts, NumberFacts DEF Sane
  <2>2. ASSUME NEW u \in DOMAIN r.intake, r.intake[u].submitted
        PROVE  s.intake[u].submitted /\ r.intake[u].gen = s.intake[u].gen /\ (Waits(s, u) => Waits(r, u))
    BY <2>2 DEF Waits
  <2> QED BY <2>1, <2>2 DEF Keeps
<1> QED BY <1>1, <1>2 DEF Orderly, Whole

LEMMA RetryFacts ==
  ASSUME NEW E, NEW s, Sane(s, E), NEW t \in DOMAIN s.intake
  PROVE  LET r == Retry(s, t) IN Orderly(E, s, r, {}) /\ Whole(s, r) /\ Answered(r, t) /\ r.bound = s.bound
<1> DEFINE entry == [s.intake[t] EXCEPT !.gen = s.gen[t] + 1, !.submitted = FALSE]
           intake == Set(s.intake, t, entry)
           r == Retry(s, t)
<1>1. /\ s \in Memory /\ s.intake \in Dict(Tracks, Intake) /\ s.intake[t] \in Intake /\ t \in Tracks
      /\ s.gen \in [Tracks -> Nat]
  BY MemoryFacts DEF Sane
<1>2. entry \in Intake /\ ~ entry.submitted
  <2>1. s.gen[t] + 1 \in Nat
    BY <1>1
  <2> QED BY <1>1, <2>1 DEF Intake
<1> HIDE DEF entry
<1>3. /\ intake \in Dict(Tracks, Intake) /\ DOMAIN intake = DOMAIN s.intake /\ intake[t] = entry
      /\ \A u \in DOMAIN s.intake \ {t} : intake[u] = s.intake[u]
  <2>1. intake \in Dict(Tracks, Intake)
    BY <1>1, <1>2, SetFacts
  <2>2. /\ DOMAIN intake = DOMAIN s.intake \cup {t} /\ intake[t] = entry
        /\ \A u \in DOMAIN s.intake \ {t} : intake[u] = s.intake[u]
    BY DEF Set
  <2> HIDE DEF intake
  <2> QED BY <2>1, <2>2
<1>4. r = [s EXCEPT !.gen[t] = @ + 1, !.intake = intake]
  BY DEF Retry, entry
<1>5. [s.gen EXCEPT ![t] = @ + 1] \in [Tracks -> Nat]
  BY <1>1
<1> HIDE DEF r, intake
<1>6. /\ r \in Memory /\ r.intake = intake /\ r.bound = s.bound /\ r.ids = s.ids /\ r.masters = s.masters
      /\ r.visible = s.visible /\ r.holds = s.holds /\ r.contest = s.contest
  BY <1>1, <1>3, <1>4, <1>5 DEF Memory
<1>7. Reopened(E, s, t, entry, r)
  <2>1. DOMAIN s.contest \subseteq DOMAIN s.ids
    BY DEF Sane, Exist
  <2> QED BY <1>2, <1>3, <1>6, <2>1 DEF Reopened
<1> QED BY <1>2, <1>3, <1>6, <1>7, ReopenFacts DEF r, Answered

\* An owner of a master in view in the camera of t.
LEMMA OwnerFacts ==
  ASSUME NEW s \in Memory, NEW m, NEW t, Cardinality(VisibleOwners(s, m, t)) = 1
  PROVE  (CHOOSE u \in VisibleOwners(s, m, t) : TRUE) \in Tracks
<1>1. VisibleOwners(s, m, t) # {}
  BY FS_EmptySet
<1>2. VisibleOwners(s, m, t) \subseteq Tracks
  BY DEF VisibleOwners, Peers, Of
<1> QED BY <1>1, <1>2

LEMMA StartContestFacts ==
  ASSUME NEW E, NEW s, Sane(s, E), NEW t \in DOMAIN s.intake, NEW m \in Contestable(s, t)
  PROVE  LET r == StartContest(s, t, m) IN Orderly(E, s, r, {}) /\ Whole(s, r) /\ Answered(r, t) /\ r.bound = s.bound
<1> DEFINE owner == CHOOSE u \in VisibleOwners(s, m, t) : TRUE
           entry == [s.intake[t] EXCEPT !.why = @ \cup {"contest"}]
           intake == Set(s.intake, t, entry)
           claim == [chal |-> t, gen |-> s.intake[t].gen, inc |-> owner]
           contest == Set(s.contest, m, claim)
           r == StartContest(s, t, m)
<1>1. /\ s \in Memory /\ s.intake \in Dict(Tracks, Intake) /\ s.intake[t] \in Intake /\ t \in Tracks
      /\ s.contest \in Dict(Masters, Contest)
  BY MemoryFacts DEF Sane
<1>2. m \in DOMAIN s.ids /\ m \in Masters /\ m \notin DOMAIN s.contest /\ owner \in Tracks
  BY <1>1, OwnerFacts DEF Contestable
<1> HIDE DEF owner
<1>3. /\ entry \in Intake /\ entry.submitted = s.intake[t].submitted /\ entry.gen = s.intake[t].gen
      /\ s.intake[t].why \subseteq entry.why
  BY <1>1 DEF Intake
<1>4. claim \in Contest /\ claim.chal = t /\ claim.gen = s.intake[t].gen
  BY <1>1, <1>2 DEF Contest, Intake
<1> HIDE DEF entry, claim
<1>5. /\ intake \in Dict(Tracks, Intake) /\ DOMAIN intake = DOMAIN s.intake /\ intake[t] = entry
      /\ \A u \in DOMAIN s.intake \ {t} : intake[u] = s.intake[u]
  <2>1. intake \in Dict(Tracks, Intake)
    BY <1>1, <1>3, SetFacts
  <2>2. /\ DOMAIN intake = DOMAIN s.intake \cup {t} /\ intake[t] = entry
        /\ \A u \in DOMAIN s.intake \ {t} : intake[u] = s.intake[u]
    BY DEF Set
  <2> HIDE DEF intake
  <2> QED BY <2>1, <2>2
<1>6. /\ contest \in Dict(Masters, Contest) /\ DOMAIN contest = DOMAIN s.contest \cup {m} /\ contest[m] = claim
      /\ \A n \in DOMAIN s.contest : contest[n] = s.contest[n]
  <2>1. contest \in Dict(Masters, Contest)
    BY <1>1, <1>2, <1>4, SetFacts
  <2>2. /\ DOMAIN contest = DOMAIN s.contest \cup {m} /\ contest[m] = claim
        /\ \A n \in DOMAIN s.contest \ {m} : contest[n] = s.contest[n]
    BY DEF Set
  <2> HIDE DEF contest
  <2> QED BY <1>2, <2>1, <2>2
<1>7. r = [s EXCEPT !.contest = contest, !.intake = intake]
  BY DEF StartContest, entry, claim, owner
<1> HIDE DEF r, intake, contest
<1>8. /\ r \in Memory /\ r.intake = intake /\ r.bound = s.bound /\ r.ids = s.ids /\ r.masters = s.masters
      /\ r.visible = s.visible /\ r.holds = s.holds /\ r.contest = contest
  BY <1>1, <1>5, <1>6, <1>7 DEF Memory
<1>9. Reopened(E, s, t, entry, r)
  <2>1. DOMAIN s.contest \subseteq DOMAIN s.ids
    BY DEF Sane, Exist
  <2> QED BY <1>2, <1>3, <1>5, <1>6, <1>8, <2>1 DEF Reopened
<1>10. Answered(r, t)
  BY <1>3, <1>4, <1>5, <1>6, <1>8 DEF Answered, Waits
<1> QED BY <1>8, <1>9, <1>10, ReopenFacts DEF r

-----------------------------------------------------------------------------
(* An intake answered through a group or a member of a master.              *)

\* The members of a group join a master: all of them, but for the aliases retired.
LEMMA MergeFacts ==
  ASSUME NEW E, NEW s, Sane(s, E), NEW g \in Groups \cap DOMAIN s.ids, NEW m \in Masters \cap DOMAIN s.ids,
         NEW r \in Merge(s, g, m)
  PROVE  Orderly(E, s, r, {}) /\ Whole(s, r) /\ DOMAIN r.intake \cap BoundTo(s, g) = {}
<1> DEFINE K == LiveMembers(s, g)
<1>1. PICK last : r = MergeInto(s, g, m, K, last)
  BY DEF Merge
<1>2. K = BoundTo(s, g) /\ K \subseteq Tracks
  BY ListedFacts
<1> HIDE DEF K
<1> DEFINE record == [s.ids[m] EXCEPT !.managed = TRUE, !.members = @ \cup K,
                                      !.shots = @ \cup s.ids[g].shots, !.views = @ \cup s.ids[g].views]
           bound == [t \in DOMAIN s.bound |-> IF t \in K THEN m ELSE s.bound[t]]
           v == Revise(s, m, record)
           moved == [v EXCEPT !.bound = [t \in DOMAIN @ |-> IF t \in K THEN m ELSE @[t]],
                              !.done = @ \cup K, !.intake = Without(@, K), !.gen = NextGeneration(s, K)]
           retired == {t \in BoundTo(moved, m) \ s.visible :
                         CameraOf[t] \in DOMAIN last /\ last[CameraOf[t]] # t}
           d == DropGroup(moved, g)
<1>3. r = ClearBindings(d, retired)
  BY <1>1 DEF MergeInto
<1>4. /\ s \in Memory /\ s.ids \in Dict(Id, Record) /\ s.ids[m] \in Record /\ s.ids[g] \in Record
      /\ s.intake \in Dict(Tracks, Intake) /\ m \in Id /\ m # g /\ m \notin Groups
      /\ DOMAIN s.bound \subseteq Tracks /\ \A t \in DOMAIN s.bound : s.bound[t] \in Id
      /\ NextGeneration(s, K) \in [Tracks -> Nat]
  BY MemoryFacts, NumberFacts, GenerationFacts DEF Sane, Id
<1>5. record \in Record /\ record.state = s.ids[m].state /\ record.members = s.ids[m].members \cup K /\ Marks(record) = Marks(s.ids[m])
  BY <1>2, <1>4 DEF Record, Marks
<1> HIDE DEF record
<1>6. Grows(E, s, m, record)
  BY <1>5 DEF Grows
<1>7. Revised(E, s, m, record, v)
  BY <1>6, GrowFacts
<1> HIDE DEF v
<1>8. /\ v \in Memory /\ v.bound = s.bound /\ v.done = s.done /\ Alike(s, v) /\ DOMAIN v.ids = DOMAIN s.ids
      /\ v.ids[m] = record /\ \A j \in DOMAIN s.ids \ {m} : v.ids[j] = s.ids[j]
  BY <1>7 DEF Revised, Orderly, Sane
<1>9. /\ bound \in Dict(Tracks, Id) /\ DOMAIN bound = DOMAIN s.bound /\ \A t \in K : bound[t] = m
      /\ \A t \in DOMAIN s.bound \ K : bound[t] = s.bound[t]
  <2>1. /\ bound = [t \in DOMAIN bound |-> bound[t]] /\ DOMAIN bound \subseteq Tracks
        /\ \A t \in DOMAIN bound : bound[t] \in Id
    BY <1>4
  <2>2. /\ DOMAIN bound = DOMAIN s.bound /\ \A t \in K : bound[t] = m
        /\ \A t \in DOMAIN s.bound \ K : bound[t] = s.bound[t]
    BY <1>2 DEF BoundTo
  <2> HIDE DEF bound
  <2> QED BY <2>1, <2>2, DictFacts
<1> DEFINE intake == Without(s.intake, K)
<1>10. /\ intake \in Dict(Tracks, Intake) /\ DOMAIN intake = DOMAIN s.intake \ K
       /\ \A t \in DOMAIN intake : intake[t] = s.intake[t]
  <2>1. intake \in Dict(Tracks, Intake)
    BY <1>4, WithoutFacts
  <2>2. DOMAIN intake = DOMAIN s.intake \ K /\ \A t \in DOMAIN intake : intake[t] = s.intake[t]
    BY WithoutDomain
  <2> QED BY <2>1, <2>2
<1>11. moved = [v EXCEPT !.bound = bound, !.done = @ \cup K, !.intake = intake, !.gen = NextGeneration(s, K)]
  BY <1>8 DEF Alike
<1> HIDE DEF moved, bound, intake
<1>12. /\ moved \in Memory /\ moved.bound = bound /\ moved.intake = intake /\ moved.ids = v.ids
       /\ moved.visible = s.visible /\ moved.masters = s.masters /\ moved.holds = s.holds /\ moved.contest = s.contest
  BY <1>2, <1>4, <1>8, <1>9, <1>10, <1>11 DEF Memory, Alike
<1> DEFINE ids == Without(moved.ids, {g})
<1>13. ids \in Dict(Id, Record) /\ DOMAIN ids = DOMAIN s.ids \ {g} /\ ids[m] = record
       /\ \A i \in DOMAIN s.ids \ {g, m} : ids[i] = s.ids[i]
  <2>1. moved.ids \in Dict(Id, Record)
    BY <1>12, MemoryFacts
  <2>2. ids \in Dict(Id, Record)
    BY <2>1, WithoutFacts
  <2>3. DOMAIN ids = DOMAIN moved.ids \ {g} /\ \A i \in DOMAIN ids : ids[i] = moved.ids[i]
    BY WithoutDomain
  <2> HIDE DEF ids
  <2> QED BY <1>4, <1>8, <1>12, <2>2, <2>3
<1>14. d = [moved EXCEPT !.ids = ids]
  BY DEF DropGroup
<1> HIDE DEF d, ids
<1>15. /\ d \in Memory /\ d.bound = bound /\ d.intake = intake /\ d.ids = ids
       /\ d.visible = s.visible /\ d.masters = s.masters /\ d.holds = s.holds /\ d.contest = s.contest
  BY <1>12, <1>13, <1>14 DEF Memory
<1>16. \A t \in DOMAIN s.bound \ K : s.bound[t] # g
  BY <1>2 DEF BoundTo
<1>17. Exist(d)
  <2>1. DOMAIN d.ids \subseteq Groups \cup 1..d.masters
    BY <1>13, <1>15 DEF Sane, Exist
  <2>2. \A t \in DOMAIN d.bound : d.bound[t] \in DOMAIN d.ids
    BY <1>4, <1>9, <1>13, <1>15, <1>16 DEF Sane, Exist
  <2>3. DOMAIN s.contest \subseteq DOMAIN s.ids /\ DOMAIN s.contest \subseteq Masters /\ g \notin Masters
    BY <1>4, MemoryFacts, NumberFacts DEF Sane, Exist
  <2> QED BY <1>13, <1>15, <2>1, <2>2, <2>3 DEF Exist
<1>18. States(d) /\ InView(d) /\ OwnHolds(d)
  BY <1>5, <1>10, <1>13, <1>15 DEF Sane, States, InView, OwnHolds
<1>19. Listed(d)
  <2> SUFFICES ASSUME NEW t \in DOMAIN d.bound, d.bound[t] \in Groups
               PROVE  t \in d.ids[d.bound[t]].members
    BY DEF Listed
  <2>1. t \in DOMAIN s.bound \ K /\ d.bound[t] = s.bound[t]
    BY <1>4, <1>9, <1>15
  <2>2. s.bound[t] \in DOMAIN s.ids \ {g, m}
    BY <1>4, <1>16, <2>1 DEF Sane, Exist
  <2> QED BY <1>13, <1>15, <2>1, <2>2 DEF Sane, Listed
<1>20. Marked(d, E)
  <2> SUFFICES ASSUME NEW i \in DOMAIN d.ids, NEW t \in Marks(d.ids[i]) \ E
               PROVE  t \in d.ids[i].members /\ t \in DOMAIN d.bound /\ d.bound[t] = i
    BY DEF Marked
  <2>1. i \in DOMAIN s.ids \ {g} /\ Marks(d.ids[i]) = Marks(s.ids[i]) /\ s.ids[i].members \subseteq d.ids[i].members
    BY <1>5, <1>13, <1>15
  <2>2. t \in s.ids[i].members /\ t \in DOMAIN s.bound /\ s.bound[t] = i
    BY <2>1 DEF Sane, Marked
  <2>3. t \notin K
    BY <1>2, <2>1, <2>2 DEF BoundTo
  <2> QED BY <1>9, <1>15, <2>1, <2>2, <2>3
<1>21. Keeps(s, d, {})
  <2>1. s.masters \in Int
    BY <1>4, MemoryFacts, NumberFacts
  <2> QED BY <1>10, <1>13, <1>15, <2>1 DEF Keeps, Waits
<1>22. Orderly(E, s, d, {}) /\ Sane(d, E)
  BY <1>15, <1>17, <1>18, <1>19, <1>20, <1>21 DEF Orderly, Sane
<1>23. retired \in SUBSET Tracks
  BY <1>4, <1>9, <1>12 DEF BoundTo
<1> HIDE DEF retired
<1>24. /\ Orderly(E, d, r, {}) /\ DOMAIN r.ids = DOMAIN d.ids /\ DOMAIN r.bound = DOMAIN d.bound \ retired
       /\ \A t \in DOMAIN r.bound : r.bound[t] = d.bound[t]
       /\ DOMAIN r.intake = DOMAIN d.intake \ retired
  BY <1>3, <1>22, <1>23, ClearFacts
<1>25. Orderly(E, s, r, {})
  BY <1>22, <1>24, OrderlyOn
<1>26. Whole(s, r)
  <2>1. DOMAIN r.ids = DOMAIN s.ids \ {g}
    BY <1>13, <1>15, <1>24
  <2>2. \A t \in BoundTo(s, g) \cap DOMAIN r.bound : r.bound[t] = m
    BY <1>2, <1>9, <1>15, <1>24
  <2> QED BY <2>1, <2>2 DEF Whole
<1> QED BY <1>2, <1>10, <1>15, <1>24, <1>25, <1>26

\* What an answer does.
Answers(E, s, t, r) == Orderly(E, s, r, {}) /\ Whole(s, r) /\ Answered(r, t)

LEMMA AnswersAfter ==
  ASSUME NEW E, NEW s, NEW v, NEW t, NEW r, Orderly(E, s, v, {}), v.bound = s.bound,
         DOMAIN v.ids = DOMAIN s.ids, Answers(E, v, t, r)
  PROVE  Answers(E, s, t, r)
BY OrderlyOn, WholeAfter DEF Answers

LEMMA EvaluatedFacts ==
  ASSUME NEW E, NEW s, Sane(s, E), NEW t \in Tracks, NEW i, NEW r \in Evaluate(Finish(s, t), i)
  PROVE  Answers(E, s, t, r)
<1>1. PICK v : v = Finish(s, t)
  OBVIOUS
<1>2. Orderly(E, s, v, {}) /\ v.bound = s.bound /\ v.ids = s.ids /\ Answered(v, t) /\ Sane(v, E)
  BY <1>1, FinishFacts DEF Orderly
<1>3. Orderly(E, v, r, {}) /\ Whole(v, r)
  BY <1>1, <1>2, EvaluateFacts
<1>4. Answered(r, t)
  BY <1>2, <1>3, AnsweredOn
<1>5. Answers(E, v, t, r)
  BY <1>3, <1>4 DEF Answers
<1> QED BY <1>2, <1>5, AnswersAfter

LEMMA SearchFacts ==
  ASSUME NEW E, NEW s, Sane(s, E), NEW t \in DOMAIN s.intake, t \in DOMAIN s.bound,
         s.bound[t] \in Groups \cap DOMAIN s.ids, NEW r \in Search(s, t)
  PROVE  Answers(E, s, t, r)
<1> DEFINE g == s.bound[t]
           record == [s.ids[g] EXCEPT !.checked = @ \cup {t}]
<1>1. s \in Memory /\ t \in Tracks /\ g \in Groups \cap DOMAIN s.ids /\ t \in BoundTo(s, g) /\ s.ids[g] \in Record
  BY MemoryFacts DEF Sane, BoundTo
<1> DEFINE v == Revise(s, g, record)
           blocked(m) == [v.ids[g] EXCEPT !.blocked = {m}]
           free == {m \in DOMAIN s.ids \cap Masters : m \notin ActiveIds(s, t)}
           barred == {m \in free : SecondOwner(s, m, LiveMembers(s, g))}
<1>3. \/ r \in Evaluate(Finish(v, t), g)
      \/ \E m \in Contestable(s, t) : r = StartContest(s, t, m)
      \/ r = Retry(s, t)
      \/ \E m \in DOMAIN s.ids \cap Masters : r \in Evaluate(Finish(Revise(v, g, blocked(m)), t), g)
      \/ \E m \in DOMAIN s.ids \cap Masters : r \in Merge(v, g, m)
  <2>1. r \in Evaluate(Finish(v, t), g)
                \cup {StartContest(s, t, m) : m \in Contestable(s, t)}
                \cup {Retry(s, t) : m \in free}
                \cup (UNION {Evaluate(Finish(Revise(v, g, blocked(m)), t), g) : m \in barred})
                \cup (UNION {Merge(v, g, m) : m \in free \ barred})
    BY DEF Search
  <2>2. free \subseteq DOMAIN s.ids \cap Masters /\ barred \subseteq free
    OBVIOUS
  <2> HIDE DEF v, blocked, free, barred
  <2>3. ASSUME r \in {StartContest(s, t, m) : m \in Contestable(s, t)}
        PROVE  \E m \in Contestable(s, t) : r = StartContest(s, t, m)
    BY <2>3
  <2>4. ASSUME r \in UNION {Evaluate(Finish(Revise(v, g, blocked(m)), t), g) : m \in barred}
        PROVE  \E m \in DOMAIN s.ids \cap Masters : r \in Evaluate(Finish(Revise(v, g, blocked(m)), t), g)
    BY <2>2, <2>4
  <2>5. ASSUME r \in UNION {Merge(v, g, m) : m \in free \ barred}
        PROVE  \E m \in DOMAIN s.ids \cap Masters : r \in Merge(v, g, m)
    BY <2>2, <2>5
  <2>6. ASSUME r \in {Retry(s, t) : m \in free}
        PROVE  r = Retry(s, t)
    BY <2>6
  <2> QED BY <2>1, <2>3, <2>4, <2>5, <2>6
<1> HIDE DEF g, v, free, barred
<1>4. record \in Record /\ record.state = s.ids[g].state /\ record.members = s.ids[g].members /\ Marks(record) = Marks(s.ids[g])
  BY <1>1 DEF Record, Marks
<1> HIDE DEF record, blocked
<1>5. Grows(E, s, g, record)
  BY <1>1, <1>4 DEF Grows
<1>6. Steady(E, s, v)
  BY <1>5, RevisedSteady DEF v
<1>7. Orderly(E, s, v, {}) /\ Sane(v, E) /\ v.bound = s.bound /\ DOMAIN v.ids = DOMAIN s.ids
  BY <1>6, SteadyFacts
<1>8. ASSUME r \in Evaluate(Finish(v, t), g)
      PROVE  Answers(E, s, t, r)
  <2>1. Answers(E, v, t, r)
    BY <1>1, <1>7, <1>8, EvaluatedFacts
  <2> QED BY <1>7, <2>1, AnswersAfter
<1>9. ASSUME NEW m \in Contestable(s, t), r = StartContest(s, t, m)
      PROVE  Answers(E, s, t, r)
  BY <1>9, StartContestFacts DEF Answers
<1>10. ASSUME r = Retry(s, t)
       PROVE  Answers(E, s, t, r)
  BY <1>10, RetryFacts DEF Answers
<1>11. ASSUME NEW m \in DOMAIN s.ids \cap Masters, r \in Evaluate(Finish(Revise(v, g, blocked(m)), t), g)
       PROVE  Answers(E, s, t, r)
  <2>1. v.ids[g] \in Record
    BY <1>1, <1>7, OwnFacts
  <2>2. /\ blocked(m) \in Record /\ blocked(m).state = v.ids[g].state /\ blocked(m).members = v.ids[g].members
        /\ Marks(blocked(m)) = Marks(v.ids[g])
    BY <2>1 DEF Record, Marks, blocked
  <2>3. Grows(E, v, g, blocked(m))
    BY <1>1, <1>7, <2>2 DEF Grows
  <2>4. PICK b : b = Revise(v, g, blocked(m))
    OBVIOUS
  <2>5. Steady(E, v, b)
    BY <2>3, <2>4, RevisedSteady
  <2>6. Orderly(E, v, b, {}) /\ Sane(b, E) /\ b.bound = s.bound /\ DOMAIN b.ids = DOMAIN s.ids
    BY <1>7, <2>5, SteadyFacts
  <2>7. Answers(E, b, t, r)
    BY <1>1, <1>11, <2>4, <2>6, EvaluatedFacts
  <2>8. Orderly(E, s, b, {})
    BY <1>7, <2>6, OrderlyOn
  <2> QED BY <2>6, <2>7, <2>8, AnswersAfter
<1>12. ASSUME NEW m \in DOMAIN s.ids \cap Masters, r \in Merge(v, g, m)
       PROVE  Answers(E, s, t, r)
  <2>1. g \in Groups \cap DOMAIN v.ids /\ m \in Masters \cap DOMAIN v.ids /\ t \in BoundTo(v, g)
    BY <1>1, <1>7 DEF BoundTo
  <2>2. Orderly(E, v, r, {}) /\ Whole(v, r) /\ DOMAIN r.intake \cap BoundTo(v, g) = {}
    BY <1>7, <1>12, <2>1, MergeFacts
  <2>3. Answers(E, v, t, r)
    BY <2>1, <2>2 DEF Answers, Answered
  <2> QED BY <1>7, <2>3, AnswersAfter
<1> QED BY <1>3, <1>8, <1>9, <1>10, <1>11, <1>12

LEMMA StoreForGroupFacts ==
  ASSUME NEW E, NEW s, Sane(s, E), NEW t \in DOMAIN s.intake, t \in DOMAIN s.bound, Unnumbered(s, s.bound[t]),
         NEW r \in StoreForGroup(s, t)
  PROVE  Answers(E, s, t, r)
<1> DEFINE g == s.bound[t]
           c == CameraOf[t]
           keep(w) == [s.ids[g] EXCEPT !.shots = @ \cup {c}, !.views = @ \cup w, !.members = @ \cup {t}]
<1>1. t \in Tracks /\ c \in Cameras /\ g \in Groups \cap DOMAIN s.ids
  <2>1. t \in Tracks
    BY MemoryFacts DEF Sane
  <2>2. g \in DOMAIN s.ids /\ s.ids[g].state \in {"provisional", "challenged"}
    BY DEF Unnumbered
  <2>3. (s.ids[g].state = "confirmed" <=> g \in Masters) /\ (g \in Groups <=> g \notin Masters)
    BY <2>2, OwnFacts
  <2> QED BY <2>1, <2>2, <2>3, ProvisionalAssumption
<1>2. PICK v \in KeepCrops(s, t) : r \in Search(v, t)
  BY DEF StoreForGroup
<1>3. PICK w \in {{}, {c}} : v = Revise(s, g, keep(w))
  BY <1>2 DEF KeepCrops
<1> HIDE DEF c
<1>4. s.ids[g] \in Record
  BY <1>1, OwnFacts
<1>5. /\ keep(w) \in Record /\ keep(w).state = s.ids[g].state /\ keep(w).members = s.ids[g].members \cup {t}
      /\ Marks(keep(w)) = Marks(s.ids[g])
  BY <1>1, <1>3, <1>4 DEF Record, Marks
<1> HIDE DEF keep
<1>6. Grows(E, s, g, keep(w))
  BY <1>1, <1>5 DEF Grows
<1>7. Steady(E, s, v)
  BY <1>3, <1>6, RevisedSteady
<1>8. Orderly(E, s, v, {}) /\ Sane(v, E) /\ v.bound = s.bound /\ DOMAIN v.ids = DOMAIN s.ids /\ DOMAIN v.intake = DOMAIN s.intake
  BY <1>7, SteadyFacts
<1>9. Answers(E, v, t, r)
  BY <1>1, <1>2, <1>8, SearchFacts
<1> QED BY <1>8, <1>9, AnswersAfter

\* Crops that are staged, or no longer.
LEMMA StagedFacts ==
  ASSUME NEW E, NEW s, Sane(s, E), NEW S \in SUBSET Tracks
  PROVE  Steady(E, s, [s EXCEPT !.staged = S])
<1>1. PICK r : r = [s EXCEPT !.staged = S]
  OBVIOUS
<1>2. s \in Memory
  BY DEF Sane
<1>3. r \in Memory /\ Beside(s, r) /\ r.barred = s.barred
  BY <1>1, <1>2 DEF Memory, Beside
<1>4. Orderly(E, s, r, {})
  BY <1>3, SideFacts
<1>5. Steady(E, s, r)
  BY <1>3, <1>4 DEF Beside, Steady
<1> QED BY <1>1, <1>5

LEMMA FinishAnswers ==
  ASSUME NEW E, NEW s, NEW v, NEW t \in Tracks, Steady(E, s, v)
  PROVE  Answers(E, s, t, Finish(v, t))
<1>1. Orderly(E, s, v, {}) /\ Sane(v, E) /\ v.bound = s.bound /\ DOMAIN v.ids = DOMAIN s.ids
  BY SteadyFacts
<1>2. PICK r : r = Finish(v, t)
  OBVIOUS
<1>3. Orderly(E, v, r, {}) /\ r.ids = v.ids /\ Answered(r, t)
  BY <1>1, <1>2, FinishFacts
<1>4. Answers(E, v, t, r)
  BY <1>3 DEF Answers, Whole
<1> QED BY <1>1, <1>2, <1>4, AnswersAfter

LEMMA StoreForMemberFacts ==
  ASSUME NEW E, NEW s, Sane(s, E), NEW t \in DOMAIN s.intake, t \in DOMAIN s.bound,
         NEW r \in StoreForMember(s, t)
  PROVE  Answers(E, s, t, r)
<1> DEFINE m == s.bound[t]
           listed == [s.ids[m] EXCEPT !.members = @ \cup {t}]
           v == Revise(s, m, listed)
           s1 == [v EXCEPT !.staged = @ \cup {t}]
           checked == [s1.ids[m] EXCEPT !.checked = @ \cup {t}]
           s2 == Revise(s1, m, checked)
           confirmed == Confirm(s2, m, FALSE, {t})
           cleared == [confirmed.ids[m] EXCEPT !.pending = @ \ {t}, !.doubted = @ \ {t}, !.refused = @ \ {t}]
           accepted == Revise(confirmed, m, cleared)
           doubted == [s2.ids[m] EXCEPT !.pending = @ \ {t}, !.doubted = @ \cup {t}, !.refused = @ \cup {t}]
           w == Revise(s2, m, doubted)
           challenged == [w EXCEPT !.staged = @ \ {t}]
           refused == [s2.ids[m] EXCEPT !.refused = @ \cup {t}]
           unlike == Revise(s2, m, refused)
<1>1. r = Retry(s1, t) \/ r \in {Finish(s3, t) : s3 \in {accepted, challenged, unlike, s2}}
  BY DEF StoreForMember
<1>2. t \in Tracks /\ m \in DOMAIN s.ids /\ t \in BoundTo(s, m) /\ s.ids[m] \in Record
  <2>1. t \in Tracks /\ m \in DOMAIN s.ids /\ t \in BoundTo(s, m)
    BY MemoryFacts DEF Sane, Exist, BoundTo
  <2> QED BY <2>1, OwnFacts
<1> HIDE DEF m
<1>3. Steady(E, s, v) /\ v.ids[m] = listed
  <2>1. /\ listed \in Record /\ listed.state = s.ids[m].state /\ listed.members = s.ids[m].members \cup {t}
        /\ Marks(listed) = Marks(s.ids[m])
    BY <1>2 DEF Record, Marks
  <2> HIDE DEF listed
  <2>2. Grows(E, s, m, listed)
    BY <1>2, <2>1 DEF Grows
  <2> QED BY <2>2, RevisedSteady
<1>4. t \in v.ids[m].members
  BY <1>2, <1>3 DEF Record
<1> HIDE DEF listed, v
<1>5. Steady(E, v, s1) /\ s1.ids = v.ids
  <2>1. Sane(v, E)
    BY <1>3, SteadyFacts
  <2>2. v.staged \cup {t} \in SUBSET Tracks
    BY <1>2, <2>1, MemoryFacts DEF Sane
  <2>3. v \in Memory
    BY <2>1 DEF Sane
  <2> QED BY <2>1, <2>2, <2>3, StagedFacts DEF Memory
<1> HIDE DEF s1
<1>6. Steady(E, s, s1)
  BY <1>3, <1>5, SteadyOn
<1>7. Sane(s1, E) /\ m \in DOMAIN s1.ids /\ t \in BoundTo(s1, m) /\ t \in s1.ids[m].members /\ s1.ids[m] \in Record
  <2>1. Sane(s1, E) /\ m \in DOMAIN s1.ids /\ t \in BoundTo(s1, m)
    BY <1>2, <1>6, SteadyFacts DEF BoundTo
  <2> QED BY <1>4, <1>5, <2>1, OwnFacts
<1>8. Steady(E, s1, s2) /\ s2.ids[m] = checked /\ t \in checked.members
  <2>1. /\ checked \in Record /\ checked.state = s1.ids[m].state /\ checked.members = s1.ids[m].members
        /\ Marks(checked) = Marks(s1.ids[m])
    BY <1>2, <1>7 DEF Record, Marks
  <2> HIDE DEF checked
  <2>2. Grows(E, s1, m, checked)
    BY <1>7, <2>1 DEF Grows
  <2> QED BY <1>7, <2>1, <2>2, RevisedSteady
<1> HIDE DEF checked, s2
<1>9. Steady(E, s, s2)
  BY <1>6, <1>8, SteadyOn
<1>10. Sane(s2, E) /\ m \in DOMAIN s2.ids /\ t \in BoundTo(s2, m) /\ t \in s2.ids[m].members /\ s2.ids[m] \in Record
  <2>1. Sane(s2, E) /\ m \in DOMAIN s2.ids /\ t \in BoundTo(s2, m)
    BY <1>2, <1>9, SteadyFacts DEF BoundTo
  <2> QED BY <1>8, <2>1, OwnFacts
<1>11. Steady(E, s, accepted)
  <2>1. Steady(E, s2, confirmed)
    BY <1>10, ConfirmFacts
  <2> HIDE DEF confirmed
  <2>2. Sane(confirmed, E) /\ m \in DOMAIN confirmed.ids
    BY <1>10, <2>1, SteadyFacts
  <2>3. confirmed.ids[m] \in Record
    BY <2>2, OwnFacts
  <2>4. /\ cleared \in Record /\ cleared.state = confirmed.ids[m].state /\ cleared.members = confirmed.ids[m].members
        /\ Marks(cleared) \subseteq Marks(confirmed.ids[m])
    BY <2>3 DEF Record, Marks
  <2> HIDE DEF cleared
  <2>5. Grows(E, confirmed, m, cleared)
    BY <2>2, <2>4 DEF Grows
  <2>6. Steady(E, confirmed, accepted)
    BY <2>5, RevisedSteady
  <2>7. Steady(E, s, confirmed)
    BY <1>9, <2>1, SteadyOn
  <2> HIDE DEF accepted
  <2> QED BY <2>6, <2>7, SteadyOn
<1>12. Steady(E, s, challenged)
  <2>1. /\ doubted \in Record /\ doubted.state = s2.ids[m].state /\ doubted.members = s2.ids[m].members
        /\ Marks(doubted) = Marks(s2.ids[m]) \cup {t}
    BY <1>2, <1>10 DEF Record, Marks
  <2> HIDE DEF doubted
  <2>2. Grows(E, s2, m, doubted)
    BY <1>10, <2>1 DEF Grows
  <2>3. Steady(E, s2, w)
    BY <2>2, RevisedSteady
  <2> HIDE DEF w
  <2>4. Sane(w, E)
    BY <2>3, SteadyFacts
  <2>5. w.staged \ {t} \in SUBSET Tracks
    BY <2>4, MemoryFacts DEF Sane
  <2>6. Steady(E, w, challenged)
    BY <2>4, <2>5, StagedFacts
  <2>7. Steady(E, s, w)
    BY <1>9, <2>3, SteadyOn
  <2> HIDE DEF challenged
  <2> QED BY <2>6, <2>7, SteadyOn
<1>13. Steady(E, s, unlike)
  <2>1. /\ refused \in Record /\ refused.state = s2.ids[m].state /\ refused.members = s2.ids[m].members
        /\ Marks(refused) = Marks(s2.ids[m]) \cup {t}
    BY <1>2, <1>10 DEF Record, Marks
  <2> HIDE DEF refused
  <2>2. Grows(E, s2, m, refused)
    BY <1>10, <2>1 DEF Grows
  <2>3. Steady(E, s2, unlike)
    BY <2>2, RevisedSteady
  <2> HIDE DEF unlike
  <2> QED BY <1>9, <2>3, SteadyOn
<1> HIDE DEF accepted, challenged, unlike
<1>14. ASSUME r = Retry(s1, t)
       PROVE  Answers(E, s, t, r)
  <2>1. /\ Orderly(E, s, s1, {}) /\ Sane(s1, E) /\ s1.bound = s.bound /\ DOMAIN s1.ids = DOMAIN s.ids
        /\ t \in DOMAIN s1.intake
    BY <1>6, SteadyFacts
  <2>2. Answers(E, s1, t, r)
    BY <1>14, <2>1, RetryFacts DEF Answers
  <2> QED BY <2>1, <2>2, AnswersAfter
<1> QED BY <1>1, <1>2, <1>9, <1>11, <1>12, <1>13, <1>14, FinishAnswers

LEMMA StoreFacts ==
  ASSUME NEW E, NEW s, Sane(s, E), NEW t \in DOMAIN s.intake, Grouped(s, t), NEW r \in Store(s, t)
  PROVE  Answers(E, s, t, r)
BY StoreForGroupFacts, StoreForMemberFacts DEF Store, Grouped

-----------------------------------------------------------------------------
(* An intake answered the ordinary way.                                     *)

LEMMA SaneMore ==
  ASSUME NEW E, NEW F, E \subseteq F, NEW s, Sane(s, E)
  PROVE  Sane(s, F)
BY DEF Sane, Marked

\* Track t is bound to master m, whatever it was bound to.
Takes(s, t, m, r) ==
  /\ r \in Memory /\ t \in Tracks /\ m \in Masters \cap DOMAIN s.ids
  /\ DOMAIN r.bound = DOMAIN s.bound \cup {t} /\ r.bound[t] = m
  /\ \A u \in DOMAIN s.bound \ {t} : r.bound[u] = s.bound[u]
  /\ DOMAIN r.intake \subseteq DOMAIN s.intake /\ \A u \in DOMAIN r.intake : r.intake[u] = s.intake[u]
  /\ r.ids = s.ids /\ r.masters = s.masters /\ r.visible = s.visible /\ r.holds = s.holds /\ r.contest = s.contest

LEMMA TakesFacts ==
  ASSUME NEW E, NEW F, E \subseteq F, NEW s, Sane(s, E), NEW t, NEW m, NEW r, Takes(s, t, m, r),
         IdOf(s, t) \subseteq {m} \/ t \in F
  PROVE  Sane(r, F) /\ Keeps(s, r, {}) /\ Whole(s, r)
<1> USE DEF Takes
<1>1. Exist(r) /\ States(r) /\ InView(r) /\ OwnHolds(r)
  BY DEF Sane, Exist, States, InView, OwnHolds
<1>2. Listed(r)
  BY NumberFacts DEF Sane, Listed
<1>3. Marked(r, F)
  <2> SUFFICES ASSUME NEW i \in DOMAIN r.ids, NEW u \in Marks(r.ids[i]) \ F
               PROVE  u \in r.ids[i].members /\ u \in DOMAIN r.bound /\ r.bound[u] = i
    BY DEF Marked
  <2>1. u \in s.ids[i].members /\ u \in DOMAIN s.bound /\ s.bound[u] = i
    BY DEF Sane, Marked
  <2> QED BY <2>1 DEF IdOf
<1>4. Keeps(s, r, {})
  <2>1. s.masters \in Int
    BY MemoryFacts, NumberFacts DEF Sane
  <2> QED BY <2>1 DEF Keeps, Waits
<1> QED BY <1>1, <1>2, <1>3, <1>4 DEF Sane, Whole

LEMMA BindTakes ==
  ASSUME NEW s \in Memory, NEW t \in Tracks, NEW m \in Masters \cap DOMAIN s.ids
  PROVE  Takes(s, t, m, Bind(s, t, m)) /\ Answered(Bind(s, t, m), t)
<1> DEFINE bound == Set(s.bound, t, m)
           intake == Without(s.intake, {t})
           barred == [s.barred EXCEPT ![t] = {}]
           r == Bind(s, t, m)
<1>1. s.bound \in Dict(Tracks, Id) /\ s.intake \in Dict(Tracks, Intake) /\ m \in Id /\ s.barred \in [Tracks -> SUBSET Masters]
  BY MemoryFacts DEF Id
<1>2. /\ bound \in Dict(Tracks, Id) /\ DOMAIN bound = DOMAIN s.bound \cup {t} /\ bound[t] = m
      /\ \A u \in DOMAIN s.bound \ {t} : bound[u] = s.bound[u]
  <2>1. bound \in Dict(Tracks, Id)
    BY <1>1, SetFacts
  <2>2. /\ DOMAIN bound = DOMAIN s.bound \cup {t} /\ bound[t] = m
        /\ \A u \in DOMAIN s.bound \ {t} : bound[u] = s.bound[u]
    BY DEF Set
  <2> QED BY <2>1, <2>2
<1>3. intake \in Dict(Tracks, Intake) /\ DOMAIN intake = DOMAIN s.intake \ {t} /\ \A u \in DOMAIN intake : intake[u] = s.intake[u]
  <2>1. intake \in Dict(Tracks, Intake)
    BY <1>1, WithoutFacts
  <2>2. DOMAIN intake = DOMAIN s.intake \ {t} /\ \A u \in DOMAIN intake : intake[u] = s.intake[u]
    BY WithoutDomain
  <2> QED BY <2>1, <2>2
<1>4. barred \in [Tracks -> SUBSET Masters]
  BY <1>1
<1>5. r = [s EXCEPT !.bound = bound, !.intake = intake, !.done = @ \ {t}, !.barred = barred]
  BY DEF Bind
<1> HIDE DEF r, bound, intake, barred
<1>6. /\ r \in Memory /\ r.bound = bound /\ r.intake = intake
      /\ r.ids = s.ids /\ r.masters = s.masters /\ r.visible = s.visible /\ r.holds = s.holds /\ r.contest = s.contest
  BY <1>2, <1>3, <1>4, <1>5 DEF Memory
<1>7. Takes(s, t, m, r) /\ Answered(r, t)
  BY <1>2, <1>3, <1>6 DEF Takes, Answered
<1> QED BY <1>7 DEF r

\* What an ordinary answer does; the track may slip out of its group.
Ordains(E, F, s, t, r) == Sane(s, E) /\ Sane(r, F) /\ Keeps(s, r, {}) /\ Whole(s, r) /\ Answered(r, t)

LEMMA BoundFacts ==
  ASSUME NEW E, NEW F, E \subseteq F, NEW s, NEW v, Orderly(E, s, v, {}), DOMAIN s.ids \subseteq DOMAIN v.ids,
         NEW t \in Tracks, NEW m \in Masters \cap DOMAIN v.ids, IdOf(v, t) \subseteq {m} \/ t \in F
  PROVE  Ordains(E, F, s, t, Bind(v, t, m))
<1>1. Sane(s, E) /\ Sane(v, E) /\ s \in Memory /\ v \in Memory /\ Keeps(s, v, {})
  BY DEF Orderly, Sane
<1>2. PICK r : r = Bind(v, t, m)
  OBVIOUS
<1>3. Takes(v, t, m, r) /\ Answered(r, t)
  BY <1>1, <1>2, BindTakes
<1>4. Sane(r, F) /\ Keeps(v, r, {})
  BY <1>1, <1>3, TakesFacts
<1>5. r \in Memory /\ DOMAIN r.ids = DOMAIN v.ids
  BY <1>3 DEF Takes
<1>6. Keeps(s, r, {})
  BY <1>1, <1>4, <1>5, KeepsOn
<1> QED BY <1>1, <1>2, <1>3, <1>4, <1>5, <1>6 DEF Ordains, Whole

\* A new master.
LEMMA NewMasterFacts ==
  ASSUME NEW E, NEW s, Sane(s, E), s.masters + 1 <= MaxMasters, NEW c \in Cameras
  PROVE  LET m == s.masters + 1
             v == [s EXCEPT !.masters = m, !.ids = Set(s.ids, m, NewRecord("confirmed", {c}))]
         IN Orderly(E, s, v, {}) /\ v.bound = s.bound /\ DOMAIN v.ids = DOMAIN s.ids \cup {m} /\ m \in Masters
<1> DEFINE m == s.masters + 1
           record == NewRecord("confirmed", {c})
           ids == Set(s.ids, m, record)
           v == [s EXCEPT !.masters = m, !.ids = ids]
<1>1. s \in Memory /\ s.ids \in Dict(Id, Record) /\ s.masters \in 0..MaxMasters
  BY MemoryFacts DEF Sane
<1>2. m \in 0..MaxMasters /\ m \in Masters /\ m \in Id /\ m \notin Groups /\ m \notin 1..s.masters /\ s.masters <= m
  BY <1>1, NumberFacts DEF Masters, Id
<1>3. m \notin DOMAIN s.ids
  BY <1>2 DEF Sane, Exist
<1>4. record \in Record /\ record.state = "confirmed" /\ Marks(record) = {}
  BY DEF NewRecord, Record, Marks
<1>5. 1..s.masters \subseteq 1..m
  BY <1>1
<1> HIDE DEF record, m
<1>6. /\ ids \in Dict(Id, Record) /\ DOMAIN ids = DOMAIN s.ids \cup {m} /\ ids[m] = record
      /\ \A i \in DOMAIN s.ids : ids[i] = s.ids[i]
  <2>1. ids \in Dict(Id, Record)
    BY <1>1, <1>2, <1>4, SetFacts
  <2>2. DOMAIN ids = DOMAIN s.ids \cup {m} /\ ids[m] = record /\ \A i \in DOMAIN s.ids \ {m} : ids[i] = s.ids[i]
    BY DEF Set
  <2> HIDE DEF ids
  <2> QED BY <1>3, <2>1, <2>2
<1> HIDE DEF ids
<1>7. /\ v \in Memory /\ v.ids = ids /\ v.bound = s.bound /\ v.masters = m
      /\ v.visible = s.visible /\ v.intake = s.intake /\ v.holds = s.holds /\ v.contest = s.contest
  BY <1>1, <1>2, <1>6 DEF Memory
<1>8. m \in 1..m
  BY <1>2, NumberFacts DEF Masters
<1> HIDE DEF v
<1>9. Exist(v) /\ States(v) /\ InView(v) /\ OwnHolds(v)
  <2>1. Exist(v)
    BY <1>5, <1>6, <1>7, <1>8 DEF Sane, Exist
  <2>2. States(v)
    BY <1>2, <1>4, <1>6, <1>7 DEF Sane, States
  <2> QED BY <1>7, <2>1, <2>2 DEF Sane, InView, OwnHolds
<1>10. Listed(v) /\ Marked(v, E)
  BY <1>4, <1>6, <1>7 DEF Sane, Exist, Listed, Marked
<1>11. Keeps(s, v, {})
  BY <1>1, <1>2, <1>6, <1>7 DEF Keeps, Waits
<1>12. Orderly(E, s, v, {})
  BY <1>7, <1>9, <1>10, <1>11 DEF Orderly, Sane
<1> QED BY <1>2, <1>6, <1>7, <1>12 DEF v, ids, record, m

LEMMA CreateFacts ==
  ASSUME NEW E, NEW F, E \subseteq F, NEW s, Sane(s, E), NEW t \in DOMAIN s.intake, NEW r \in Create(s, t),
         (\E i \in IdOf(s, t) : i \notin IdOf(r, t)) => t \in F
  PROVE  Ordains(E, F, s, t, r)
<1>1. s \in Memory /\ t \in Tracks /\ CameraOf[t] \in Cameras
  BY MemoryFacts, ProvisionalAssumption DEF Sane
<1>2. CASE s.holds[t] # {}
  <2> DEFINE entry == [s.intake[t] EXCEPT !.why = @ \cup {"hold"}]
             intake == Set(s.intake, t, entry)
  <2>1. r = [s EXCEPT !.intake = intake]
    BY <1>2 DEF Create
  <2>2. s.intake \in Dict(Tracks, Intake) /\ s.intake[t] \in Intake
    BY <1>1, MemoryFacts
  <2>3. /\ entry \in Intake /\ entry.submitted = s.intake[t].submitted /\ entry.gen = s.intake[t].gen
        /\ s.intake[t].why \subseteq entry.why /\ "hold" \in entry.why
    BY <2>2 DEF Intake
  <2> HIDE DEF entry
  <2>4. /\ intake \in Dict(Tracks, Intake) /\ DOMAIN intake = DOMAIN s.intake /\ intake[t] = entry
        /\ \A u \in DOMAIN s.intake \ {t} : intake[u] = s.intake[u]
    <3>1. intake \in Dict(Tracks, Intake)
      BY <1>1, <2>2, <2>3, SetFacts
    <3>2. /\ DOMAIN intake = DOMAIN s.intake \cup {t} /\ intake[t] = entry
          /\ \A u \in DOMAIN s.intake \ {t} : intake[u] = s.intake[u]
      BY DEF Set
    <3> HIDE DEF intake
    <3> QED BY <3>1, <3>2
  <2> HIDE DEF intake
  <2>5. /\ r \in Memory /\ r.intake = intake /\ r.bound = s.bound /\ r.ids = s.ids /\ r.masters = s.masters
        /\ r.visible = s.visible /\ r.holds = s.holds /\ r.contest = s.contest
    BY <1>1, <2>1, <2>4 DEF Memory
  <2>6. DOMAIN s.contest \subseteq DOMAIN s.ids
    BY DEF Sane, Exist
  <2>7. Reopened(E, s, t, entry, r)
    BY <2>3, <2>4, <2>5, <2>6 DEF Reopened
  <2>8. Orderly(E, s, r, {}) /\ Whole(s, r)
    BY <2>7, ReopenFacts
  <2>9. Answered(r, t)
    BY <1>2, <2>3, <2>4, <2>5 DEF Answered, Waits
  <2> QED BY <2>8, <2>9, SaneMore DEF Ordains, Orderly
<1>3. CASE s.holds[t] = {}
  <2> DEFINE m == s.masters + 1
             v == [s EXCEPT !.masters = m, !.ids = Set(s.ids, m, NewRecord("confirmed", {CameraOf[t]}))]
  <2>1. s.masters + 1 <= MaxMasters /\ r = Bind(v, t, m)
    <3>1. s.masters \in Int /\ MaxMasters \in Int
      BY <1>1, MemoryFacts, NumberFacts
    <3>2. r \in (IF m > MaxMasters THEN {} ELSE {Bind(v, t, m)})
      BY <1>3 DEF Create
    <3> HIDE DEF v
    <3> QED BY <3>1, <3>2
  <2>2. Orderly(E, s, v, {}) /\ v.bound = s.bound /\ DOMAIN v.ids = DOMAIN s.ids \cup {m} /\ m \in Masters
    BY <1>1, <2>1, NewMasterFacts
  <2> HIDE DEF v, m
  <2>3. v \in Memory /\ m \in Masters \cap DOMAIN v.ids
    BY <2>2 DEF Orderly, Sane
  <2>4. r.bound[t] = m /\ t \in DOMAIN r.bound
    BY <1>1, <2>1, <2>3, BindTakes DEF Takes
  <2>5. IdOf(v, t) \subseteq {m} \/ t \in F
    BY <2>2, <2>4 DEF IdOf
  <2> QED BY <1>1, <2>1, <2>2, <2>3, <2>5, BoundFacts
<1> QED BY <1>2, <1>3

LEMMA OrdinaryFacts ==
  ASSUME NEW E, NEW F, E \subseteq F, NEW s, Sane(s, E), NEW t \in DOMAIN s.intake, NEW r \in Ordinary(s, t),
         (\E i \in IdOf(s, t) : i \notin IdOf(r, t)) => t \in F
  PROVE  Ordains(E, F, s, t, r)
<1>1. s \in Memory /\ t \in Tracks
  BY MemoryFacts DEF Sane
<1>2. \/ \E m \in DOMAIN s.ids \cap Masters : r = Bind(ClearNonvisibleOwners(s, m, t), t, m)
      \/ r = Retry(s, t)
      \/ \E m \in Contestable(s, t) : r = StartContest(s, t, m)
      \/ r \in Create(s, t)
  BY DEF Ordinary
<1>3. ASSUME NEW m \in DOMAIN s.ids \cap Masters, r = Bind(ClearNonvisibleOwners(s, m, t), t, m)
      PROVE  Ordains(E, F, s, t, r)
  <2> DEFINE T == (Peers(t) \cap BoundTo(s, m)) \ s.visible
  <2>1. PICK c : c = ClearBindings(s, T)
    OBVIOUS
  <2>2. r = Bind(c, t, m)
    BY <1>3, <2>1 DEF ClearNonvisibleOwners
  <2>3. T \in SUBSET Tracks /\ t \notin T
    BY DEF Peers, Of
  <2> HIDE DEF T
  <2>4. /\ Orderly(E, s, c, {}) /\ DOMAIN c.ids = DOMAIN s.ids
        /\ DOMAIN c.bound = DOMAIN s.bound \ T /\ \A u \in DOMAIN c.bound : c.bound[u] = s.bound[u]
    BY <2>1, <2>3, ClearFacts
  <2>5. IdOf(c, t) = IdOf(s, t)
    BY <2>3, <2>4 DEF IdOf
  <2>6. c \in Memory /\ m \in Masters \cap DOMAIN c.ids
    BY <2>4 DEF Orderly, Sane
  <2>7. r.bound[t] = m /\ t \in DOMAIN r.bound
    BY <1>1, <2>2, <2>6, BindTakes DEF Takes
  <2>8. IdOf(c, t) \subseteq {m} \/ t \in F
    BY <2>5, <2>7 DEF IdOf
  <2> QED BY <1>1, <2>2, <2>4, <2>6, <2>8, BoundFacts
<1>4. ASSUME r = Retry(s, t) \/ \E m \in Contestable(s, t) : r = StartContest(s, t, m)
      PROVE  Ordains(E, F, s, t, r)
  <2>1. Orderly(E, s, r, {}) /\ Whole(s, r) /\ Answered(r, t)
    BY <1>4, RetryFacts, StartContestFacts
  <2> QED BY <2>1, SaneMore DEF Ordains, Orderly
<1>5. ASSUME r \in Create(s, t)
      PROVE  Ordains(E, F, s, t, r)
  BY <1>5, CreateFacts
<1> QED BY <1>2, <1>3, <1>4, <1>5

-----------------------------------------------------------------------------
(* A step: what a method did, whatever became of the tracks in view and of   *)
(* the coordinator's holds.                                                 *)

\* What Keeps says of the intakes.
Heeds(s, r, T) ==
  \A t \in DOMAIN r.intake \ T : r.intake[t].submitted =>
    /\ t \in DOMAIN s.intake /\ s.intake[t].submitted /\ r.intake[t].gen = s.intake[t].gen
    /\ Waits(s, t) => Waits(r, t)

LEMMA HeedsKept ==
  ASSUME NEW s, NEW r, NEW T, Keeps(s, r, T)
  PROVE  Heeds(s, r, T)
BY DEF Keeps, Heeds

LEMMA HeedsOn ==
  ASSUME NEW s, NEW v, NEW r, NEW T, Heeds(s, v, T), Heeds(v, r, T)
  PROVE  Heeds(s, r, T)
BY DEF Heeds

\* A step of the memory: in order, no intake but those of T forgotten, no group torn,
\* no hold that is new.
Goes(E, s, r, T) ==
  /\ Sane(r, E) /\ Heeds(s, r, T) /\ Whole(s, r)
  /\ \A t \in Tracks : r.holds[t] \subseteq s.holds[t]

LEMMA OrderlyGoes ==
  ASSUME NEW E, NEW s, NEW r, NEW T, Orderly(E, s, r, T), Whole(s, r)
  PROVE  Goes(E, s, r, T)
BY HeedsKept DEF Goes, Orderly, Keeps

\* The intake of t is not submitted, or a task of it is among the tasks, or it waits.
Awaited(s, t, tasks) ==
  \/ t \notin DOMAIN s.intake \/ ~ s.intake[t].submitted \/ Waits(s, t)
  \/ \E task \in tasks : task.type = "intake" /\ task.track = t /\ task.gen = s.intake[t].gen

Due(s, tasks) == \A t \in DOMAIN s.intake : Awaited(s, t, tasks)

\* The intakes of T are awaited; those of the others are as they were.
LEMMA DueFacts ==
  ASSUME NEW s, NEW r, NEW T, NEW old, NEW new, Due(s, old), Heeds(s, r, T),
         \A task \in old \ new : task.type = "intake" => task.track \in T,
         \A t \in DOMAIN r.intake \cap T : Awaited(r, t, new)
  PROVE  Due(r, new)
<1> SUFFICES ASSUME NEW t \in DOMAIN r.intake \ T, r.intake[t].submitted
             PROVE  Awaited(r, t, new)
  BY DEF Due, Awaited
<1>1. /\ t \in DOMAIN s.intake /\ s.intake[t].submitted /\ r.intake[t].gen = s.intake[t].gen
      /\ Waits(s, t) => Waits(r, t)
  BY DEF Heeds
<1>2. CASE Waits(s, t)
  BY <1>1, <1>2 DEF Awaited
<1>3. ASSUME NEW task \in old, task.type = "intake", task.track = t, task.gen = s.intake[t].gen
      PROVE  Awaited(r, t, new)
  BY <1>1, <1>3 DEF Awaited
<1> QED BY <1>1, <1>2, <1>3 DEF Due, Awaited

-----------------------------------------------------------------------------
(* The camera loop.                                                         *)

\* The tracks that left the picture have no intake any more.
LEMMA VanishFacts ==
  ASSUME NEW E, NEW s, Sane(s, E), NEW gone \in SUBSET Tracks
  PROVE  LET r == Vanish(s, gone)
         IN /\ Orderly(E, s, r, {}) /\ r.ids = s.ids /\ r.bound = s.bound
            /\ DOMAIN r.intake = DOMAIN s.intake \ gone
<1>1. CASE gone = {}
  <2>1. Vanish(s, gone) = s
    BY <1>1 DEF Vanish
  <2> QED BY <1>1, <2>1, OrderlySelf
<1>2. CASE gone # {}
  <2> DEFINE a == [s EXCEPT !.barred = [t \in Tracks |-> IF t \in gone THEN {} ELSE s.barred[t]]]
  <2>1. a \in Memory /\ Beside(s, a) /\ ContestsOf(a, gone) = ContestsOf(s, gone)
    <3>1. [t \in Tracks |-> IF t \in gone THEN {} ELSE s.barred[t]] \in [Tracks -> SUBSET Masters]
      BY MemoryFacts DEF Sane
    <3> QED BY <3>1 DEF Sane, Memory, Beside, ContestsOf
  <2> HIDE DEF a
  <2>2. Orderly(E, s, a, {})
    BY <2>1, SideFacts
  <2>3. PICK c : c = CancelContests(a, ContestsOf(s, gone))
    OBVIOUS
  <2>4. Orderly(E, a, c, {}) /\ c.ids = a.ids /\ c.bound = a.bound /\ DOMAIN c.intake = DOMAIN a.intake
    BY <2>2, <2>3, CancelFacts DEF Orderly
  <2>5. Orderly(E, s, c, {}) /\ c.ids = s.ids /\ c.bound = s.bound /\ DOMAIN c.intake = DOMAIN s.intake
    BY <2>1, <2>2, <2>4, OrderlyOn DEF Beside
  <2> DEFINE T == gone \cap DOMAIN c.intake
             f == Without(c.intake, T)
             r == [c EXCEPT !.intake = f, !.done = @ \ T, !.gen = NextGeneration(c, T)]
  <2>6. /\ f \in Dict(Tracks, Intake) /\ DOMAIN f = DOMAIN s.intake \ gone
        /\ \A t \in DOMAIN f : f[t] = c.intake[t]
    <3>1. c.intake \in Dict(Tracks, Intake)
      BY <2>5, MemoryFacts DEF Orderly, Sane
    <3> HIDE DEF T
    <3>2. f \in Dict(Tracks, Intake)
      BY <3>1, WithoutFacts
    <3>3. DOMAIN f = DOMAIN c.intake \ T /\ \A t \in DOMAIN f : f[t] = c.intake[t]
      BY WithoutDomain
    <3> QED BY <2>5, <3>2, <3>3 DEF T
  <2>7. /\ r \in Memory /\ r.visible = c.visible /\ r.ids = c.ids /\ r.masters = c.masters /\ r.bound = c.bound
        /\ r.holds = c.holds /\ r.contest = c.contest /\ r.intake = f
    <3>1. NextGeneration(c, T) \in [Tracks -> Nat] /\ c \in Memory
      BY <2>5, GenerationFacts DEF Orderly, Sane
    <3> HIDE DEF f, T
    <3> QED BY <2>6, <3>1 DEF Memory
  <2>8. Vanish(s, gone) = r
    BY <1>2, <2>3 DEF Vanish, a
  <2> HIDE DEF r, f
  <2>9. Sane(c, E)
    BY <2>5 DEF Orderly
  <2>10. Sane(r, E)
    BY <2>5, <2>6, <2>7, <2>9 DEF Sane, Exist, States, Listed, Marked, InView, OwnHolds
  <2>11. Keeps(c, r, {})
    <3>1. c.masters \in Int
      BY <2>9, MemoryFacts, NumberFacts DEF Sane
    <3> QED BY <2>5, <2>6, <2>7, <3>1 DEF Keeps, Waits
  <2> QED BY <2>5, <2>6, <2>7, <2>8, <2>9, <2>10, <2>11, OrderlyOn DEF Orderly
<1> QED BY <1>1, <1>2

\* Only the tracks in view change, and the intakes are of tracks in view.
LEMMA SeenFacts ==
  ASSUME NEW E, NEW s, Sane(s, E), NEW V \in SUBSET Tracks, DOMAIN s.intake \subseteq V
  PROVE  LET r == [s EXCEPT !.visible = V]
         IN Goes(E, s, r, {}) /\ r.ids = s.ids /\ r.bound = s.bound /\ r.intake = s.intake /\ r.holds = s.holds
<1> DEFINE r == [s EXCEPT !.visible = V]
<1>1. /\ r \in Memory /\ r.visible = V /\ r.ids = s.ids /\ r.masters = s.masters /\ r.bound = s.bound
      /\ r.intake = s.intake /\ r.holds = s.holds /\ r.contest = s.contest
  BY DEF Sane, Memory
<1> HIDE DEF r
<1>2. Sane(r, E)
  BY <1>1 DEF Sane, Exist, States, Listed, Marked, InView, OwnHolds
<1>3. Heeds(s, r, {}) /\ Whole(s, r)
  BY <1>1 DEF Heeds, Whole, Waits
<1> QED BY <1>1, <1>2, <1>3 DEF Goes, r

LEMMA ObserveFacts ==
  ASSUME NEW E, Sane(mem, E), NEW c \in Cameras, Observe(c)
  PROVE  Goes(E, mem, mem', {})
<1>1. PICK keys \in SUBSET Of(c) :
        LET s1 == Vanish(mem, (mem.visible \cap Of(c)) \ keys)
            s2 == [s1 EXCEPT !.visible = (s1.visible \ Of(c)) \cup keys]
        IN \E abandoned \in IF Gaps THEN SUBSET ((Of(c) \ keys) \cap DOMAIN s2.bound) ELSE {{}} :
             mem' = ClearBindings(s2, abandoned)
  BY DEF Observe
<1> DEFINE gone == (mem.visible \cap Of(c)) \ keys
<1>2. mem.visible \subseteq Tracks /\ keys \subseteq Tracks /\ Of(c) \subseteq Tracks /\ gone \in SUBSET Tracks
  BY MemoryFacts DEF Sane, Of
<1>3. PICK s1 : s1 = Vanish(mem, gone)
  OBVIOUS
<1> DEFINE V == (s1.visible \ Of(c)) \cup keys
<1>4. PICK s2 : s2 = [s1 EXCEPT !.visible = V]
  OBVIOUS
<1>5. PICK abandoned \in SUBSET Tracks : mem' = ClearBindings(s2, abandoned)
  BY <1>1, <1>2, <1>3, <1>4
<1>6. Orderly(E, mem, s1, {}) /\ s1.ids = mem.ids /\ s1.bound = mem.bound /\ DOMAIN s1.intake = DOMAIN mem.intake \ gone
  BY <1>2, <1>3, VanishFacts
<1>7. Goes(E, s1, s2, {}) /\ s2.ids = s1.ids /\ s2.bound = s1.bound /\ s2.holds = s1.holds
  <2>1. s1.visible = mem.visible /\ DOMAIN mem.intake \subseteq mem.visible
    BY <1>6 DEF Orderly, Keeps, Sane, InView
  <2>2. V \in SUBSET Tracks /\ DOMAIN s1.intake \subseteq V
    BY <1>2, <1>6, <2>1
  <2> HIDE DEF V
  <2> QED BY <1>4, <1>6, <2>2, SeenFacts DEF Orderly
<1>8. /\ Orderly(E, s2, mem', {}) /\ DOMAIN mem'.ids = DOMAIN s2.ids
  BY <1>5, <1>7, ClearFacts DEF Goes
<1>9. Heeds(mem, mem', {})
  <2>1. Heeds(mem, s1, {}) /\ Heeds(s2, mem', {})
    BY <1>6, <1>8, HeedsKept DEF Orderly
  <2> QED BY <1>7, <2>1, HeedsOn DEF Goes
<1>10. Whole(mem, mem')
  BY <1>6, <1>7, <1>8 DEF Whole
<1> QED BY <1>6, <1>7, <1>8, <1>9, <1>10 DEF Goes, Orderly, Keeps

\* The types of the queue and of the worker; identities are audited when audits are on.
Working ==
  /\ queue \in Seq(Task)
  /\ worker = <<>> \/ worker \in Task \X {"extracted", "ordinary"}
  /\ \A task \in Tasks : task.type = "audit" => Rounds > 0

LEMMA QueueFacts ==
  ASSUME Working, NEW task \in Task, task.type = "audit" => Rounds > 0,
         queue' = Append(queue, task), worker' = worker
  PROVE  Working' /\ Tasks' = Tasks \cup {task}
<1>1. queue \in Seq(Task) /\ queue' \in Seq(Task)
  BY DEF Working
<1>2. Len(queue') = Len(queue) + 1 /\ Len(queue) \in Nat
  BY <1>1
<1>3. /\ DOMAIN queue = 1..Len(queue) /\ DOMAIN queue' = 1..(Len(queue) + 1)
      /\ queue'[Len(queue) + 1] = task /\ \A i \in 1..Len(queue) : queue'[i] = queue[i]
  BY <1>1, <1>2
<1>4. {queue'[i] : i \in DOMAIN queue'} = {queue[i] : i \in DOMAIN queue} \cup {task}
  <2>1. DOMAIN queue' = DOMAIN queue \cup {Len(queue) + 1}
    BY <1>2, <1>3
  <2> QED BY <1>3, <2>1
<1>5. Tasks' = Tasks \cup {task}
  BY <1>4 DEF Tasks
<1> QED BY <1>1, <1>5 DEF Working

LEMMA StillWorking ==
  ASSUME Working, UNCHANGED <<queue, worker>>
  PROVE  Working' /\ Tasks' = Tasks
BY DEF Working, Tasks

\* What the frame of a track does.
Serves(E, s, t) ==
  Goes(E, s, mem', {t}) /\ Working' /\ Tasks \subseteq Tasks' /\ Awaited(mem', t, Tasks')

\* A frame of track t may begin its intake and may submit it.
LEMMA CollectFacts ==
  ASSUME NEW E, NEW s, Sane(s, E), NEW t \in Tracks, t \in s.visible, Working, Awaited(s, t, Tasks),
         Collect(s, t), worker' = worker
  PROVE  Serves(E, s, t) /\ mem'.ids = s.ids /\ mem'.bound = s.bound
<1> DEFINE entry == [gen |-> s.gen[t] + 1, submitted |-> FALSE, why |-> {}]
<1>1. PICK v : v = IF t \in DOMAIN s.intake THEN s
                   ELSE [s EXCEPT !.gen[t] = s.gen[t] + 1, !.intake = Set(s.intake, t, entry)]
  OBVIOUS
<1>2. \/ mem' = v /\ UNCHANGED queue
      \/ /\ ~v.intake[t].submitted
         /\ mem' = [v EXCEPT !.intake = Set(v.intake, t, [v.intake[t] EXCEPT !.submitted = TRUE])]
         /\ queue' = Append(queue, [type |-> "intake", track |-> t, gen |-> v.intake[t].gen])
  BY <1>1 DEF Collect
<1>3. Goes(E, s, v, {t}) /\ t \in DOMAIN v.intake /\ Awaited(v, t, Tasks) /\ v.ids = s.ids /\ v.bound = s.bound
  <2>1. CASE t \in DOMAIN s.intake
    <3>1. v = s
      BY <1>1, <2>1
    <3>2. Goes(E, s, s, {t})
      BY OrderlySelf, OrderlyGoes DEF Whole, BoundTo, Sane
    <3> QED BY <2>1, <3>1, <3>2
  <2>2. CASE t \notin DOMAIN s.intake
    <3>1. v = [s EXCEPT !.gen[t] = s.gen[t] + 1, !.intake = Set(s.intake, t, entry)]
      BY <1>1, <2>2
    <3>2. s.gen \in [Tracks -> Nat] /\ s.intake \in Dict(Tracks, Intake) /\ s \in Memory
      BY MemoryFacts DEF Sane
    <3>3. entry \in Intake /\ ~ entry.submitted
      BY <3>2 DEF Intake
    <3> HIDE DEF entry
    <3>4. /\ Set(s.intake, t, entry) \in Dict(Tracks, Intake)
          /\ DOMAIN Set(s.intake, t, entry) = DOMAIN s.intake \cup {t}
          /\ Set(s.intake, t, entry)[t] = entry
          /\ \A u \in DOMAIN s.intake \ {t} : Set(s.intake, t, entry)[u] = s.intake[u]
      <4>1. Set(s.intake, t, entry) \in Dict(Tracks, Intake)
        BY <3>2, <3>3, SetFacts
      <4>2. /\ DOMAIN Set(s.intake, t, entry) = DOMAIN s.intake \cup {t} /\ Set(s.intake, t, entry)[t] = entry
            /\ \A u \in DOMAIN s.intake \ {t} : Set(s.intake, t, entry)[u] = s.intake[u]
        BY DEF Set
      <4> QED BY <4>1, <4>2
    <3>5. /\ v \in Memory /\ v.visible = s.visible /\ v.ids = s.ids /\ v.masters = s.masters
          /\ v.bound = s.bound /\ v.holds = s.holds /\ v.contest = s.contest
          /\ v.intake = Set(s.intake, t, entry)
      <4>1. [s.gen EXCEPT ![t] = s.gen[t] + 1] \in [Tracks -> Nat]
        BY <3>2
      <4> QED BY <3>1, <3>2, <3>4, <4>1 DEF Memory
    <3>6. Sane(v, E)
      BY <3>4, <3>5 DEF Sane, Exist, States, Listed, Marked, InView, OwnHolds
    <3>7. Heeds(s, v, {t}) /\ Whole(s, v)
      BY <3>4, <3>5 DEF Heeds, Whole, Waits
    <3> QED BY <3>3, <3>4, <3>5, <3>6, <3>7 DEF Goes, Awaited
  <2> QED BY <2>1, <2>2
<1>4. v \in Memory /\ v.intake \in Dict(Tracks, Intake) /\ v.intake[t] \in Intake
  BY <1>3, MemoryFacts DEF Goes, Sane
<1>5. CASE mem' = v /\ UNCHANGED queue
  BY <1>3, <1>5, StillWorking DEF Serves
<1>6. CASE /\ ~v.intake[t].submitted
           /\ mem' = [v EXCEPT !.intake = Set(v.intake, t, [v.intake[t] EXCEPT !.submitted = TRUE])]
           /\ queue' = Append(queue, [type |-> "intake", track |-> t, gen |-> v.intake[t].gen])
  <2> DEFINE sent == [v.intake[t] EXCEPT !.submitted = TRUE]
             task == [type |-> "intake", track |-> t, gen |-> v.intake[t].gen]
  <2>1. sent \in Intake /\ sent.gen = v.intake[t].gen
    BY <1>4 DEF Intake
  <2>2. task \in Task /\ task.type = "intake" /\ task.track = t /\ task.gen = sent.gen /\ queue' = Append(queue, task)
    BY <1>4, <1>6, <2>1 DEF Task, IntakeTask, Intake
  <2> HIDE DEF sent, task
  <2>3. /\ Set(v.intake, t, sent) \in Dict(Tracks, Intake)
        /\ DOMAIN Set(v.intake, t, sent) = DOMAIN v.intake \cup {t}
        /\ Set(v.intake, t, sent)[t] = sent
        /\ \A u \in DOMAIN v.intake \ {t} : Set(v.intake, t, sent)[u] = v.intake[u]
    <3>1. Set(v.intake, t, sent) \in Dict(Tracks, Intake)
      BY <1>4, <2>1, SetFacts
    <3>2. /\ DOMAIN Set(v.intake, t, sent) = DOMAIN v.intake \cup {t} /\ Set(v.intake, t, sent)[t] = sent
          /\ \A u \in DOMAIN v.intake \ {t} : Set(v.intake, t, sent)[u] = v.intake[u]
      BY DEF Set
    <3> QED BY <3>1, <3>2
  <2>4. PICK r : r = mem'
    OBVIOUS
  <2>5. /\ r \in Memory /\ r.visible = v.visible /\ r.ids = v.ids /\ r.masters = v.masters
        /\ r.bound = v.bound /\ r.holds = v.holds /\ r.contest = v.contest
        /\ r.intake = Set(v.intake, t, sent)
    BY <1>4, <1>6, <2>3, <2>4 DEF Memory, sent
  <2>6. Sane(r, E)
    BY <1>3, <2>3, <2>5 DEF Goes, Sane, Exist, States, Listed, Marked, InView, OwnHolds
  <2>7. Heeds(v, r, {t}) /\ Whole(s, r)
    BY <1>3, <2>3, <2>5 DEF Goes, Heeds, Whole, Waits
  <2>8. Goes(E, s, r, {t})
    BY <1>3, <2>5, <2>6, <2>7, HeedsOn DEF Goes
  <2>9. Working' /\ Tasks' = Tasks \cup {task}
    BY <2>2, QueueFacts
  <2>10. Awaited(r, t, Tasks')
    BY <2>2, <2>3, <2>5, <2>9 DEF Awaited
  <2> QED BY <1>3, <2>4, <2>5, <2>8, <2>9, <2>10 DEF Serves
<1> QED BY <1>2, <1>5, <1>6

\* The frame comes after the binding of its track was looked at.
LEMMA CollectAfter ==
  ASSUME NEW E, NEW s, NEW v, Orderly(E, s, v, {}), Whole(s, v), NEW t \in Tracks, t \in s.visible,
         Working, Awaited(v, t, Tasks), Collect(v, t), worker' = worker
  PROVE  Serves(E, s, t)
<1>1. Sane(v, E) /\ t \in v.visible /\ Heeds(s, v, {t}) /\ \A u \in Tracks : v.holds[u] \subseteq s.holds[u]
  <2>1. Heeds(s, v, {})
    BY HeedsKept DEF Orderly
  <2> QED BY <2>1 DEF Orderly, Keeps, Heeds
<1>2. Serves(E, v, t) /\ mem'.ids = v.ids /\ mem'.bound = v.bound
  BY <1>1, CollectFacts
<1>3. Whole(s, mem')
  BY <1>2 DEF Whole
<1> QED BY <1>1, <1>2, <1>3, HeedsOn DEF Serves, Goes

\* Or nothing is collected, and a task about the identity of the track may be queued.
LEMMA ScheduleAfter ==
  ASSUME NEW E, NEW s, NEW v, Orderly(E, s, v, {}), Whole(s, v), NEW t \in Tracks, t \in DOMAIN s.bound,
         Working, Awaited(v, t, Tasks), mem' = v, worker' = worker,
         ScheduleSemantic(s, t) \/ ScheduleAudit(s, t) \/ UNCHANGED queue
  PROVE  Serves(E, s, t)
<1>1. Goes(E, s, mem', {t})
  <2>1. Orderly(E, s, v, {t})
    BY OrderlyMore
  <2> QED BY <2>1, OrderlyGoes
<1>2. s.bound[t] \in Id
  BY MemoryFacts DEF Orderly, Sane
<1>3. ASSUME NEW type \in {"semantic", "audit"}, type = "audit" => Rounds > 0,
             queue' = Append(queue, [type |-> type, track |-> t, id |-> s.bound[t]])
      PROVE  Working' /\ Tasks \subseteq Tasks'
  <2>1. [type |-> type, track |-> t, id |-> s.bound[t]] \in Task
    BY <1>2 DEF Task, BoundTask, Id
  <2> QED BY <1>3, <2>1, QueueFacts
<1>4. Working' /\ Tasks \subseteq Tasks'
  <2>1. CASE UNCHANGED queue
    BY <2>1, StillWorking
  <2>2. CASE ScheduleSemantic(s, t)
    BY <1>3, <2>1, <2>2 DEF ScheduleSemantic
  <2>3. CASE ScheduleAudit(s, t)
    BY <1>3, <2>1, <2>3 DEF ScheduleAudit
  <2> QED BY <2>1, <2>2, <2>3
<1>5. Awaited(mem', t, Tasks')
  BY <1>4 DEF Awaited
<1> QED BY <1>1, <1>4, <1>5 DEF Serves

\* A clearing keeps every identity.
LEMMA ClearedWhole ==
  ASSUME NEW E, NEW s, Sane(s, E), NEW T \in SUBSET Tracks
  PROVE  LET r == ClearBindings(s, T)
         IN Orderly(E, s, r, {}) /\ Whole(s, r) /\ DOMAIN r.intake \cap T = {} /\ DOMAIN r.bound \cap T = {}
<1>1. PICK r : r = ClearBindings(s, T)
  OBVIOUS
<1>2. /\ Orderly(E, s, r, {}) /\ DOMAIN r.ids = DOMAIN s.ids /\ DOMAIN r.intake = DOMAIN s.intake \ T
      /\ DOMAIN r.bound = DOMAIN s.bound \ T
  BY <1>1, ClearFacts
<1> QED BY <1>1, <1>2 DEF Whole

LEMMA ServeBoundFacts ==
  ASSUME NEW E, NEW s, Sane(s, E), NEW t \in Tracks, t \in s.visible, t \in DOMAIN s.bound,
         Working, Awaited(s, t, Tasks), ServeBound(s, t), worker' = worker
  PROVE  Serves(E, s, t)
<1> DEFINE i == s.bound[t]
           pending == TrackState(s, i, t) # "confirmed"
           record == [s.ids[i] EXCEPT !.members = @ \cup {t}]
<1>1. PICK cleared : cleared = ClearBindings(s, {t})
  OBVIOUS
<1>2. PICK counted : counted = IF pending THEN Revise(s, i, record) ELSE s
  OBVIOUS
<1>3. PICK split : split = IF pending THEN StartSplit(cleared, i, t) ELSE cleared
  OBVIOUS
<1>4. \/ Collect(split, t)
      \/ Collect(counted, t)
      \/ mem' = counted /\ (ScheduleSemantic(s, t) \/ UNCHANGED queue)
      \/ mem' = s /\ ScheduleAudit(s, t)
  BY <1>1, <1>2, <1>3 DEF ServeBound
<1> HIDE DEF pending
<1>5. i \in DOMAIN s.ids
  BY DEF Sane, Exist
<1>6. /\ Orderly(E, s, cleared, {}) /\ Whole(s, cleared)
      /\ DOMAIN cleared.intake \cap {t} = {} /\ DOMAIN cleared.ids = DOMAIN s.ids
      /\ \A u \in DOMAIN cleared.bound : u \in DOMAIN s.bound /\ cleared.bound[u] = s.bound[u]
  BY <1>1, ClearFacts, ClearedWhole
<1>7. Orderly(E, s, split, {}) /\ Whole(s, split) /\ t \notin DOMAIN split.intake
  <2>1. CASE ~ pending
    BY <1>3, <1>6, <2>1
  <2>2. CASE pending
    <3>1. split = StartSplit(cleared, i, t)
      BY <1>3, <2>2
    <3>2. /\ Orderly(E, cleared, split, {}) /\ Alike(cleared, split) /\ split.bound = cleared.bound
          /\ \A j \in DOMAIN cleared.ids \ DOMAIN split.ids : BoundTo(cleared, j) = {}
      BY <1>6, <3>1, StartSplitFacts DEF Orderly
    <3>3. Whole(s, split)
      BY <1>6, <3>2 DEF Whole, BoundTo
    <3> QED BY <1>6, <3>2, <3>3, OrderlyOn DEF Alike
  <2> QED BY <2>1, <2>2
<1>8. Orderly(E, s, counted, {}) /\ Whole(s, counted) /\ Awaited(counted, t, Tasks)
  <2>1. CASE ~ pending
    BY <1>2, <2>1, OrderlySelf DEF Whole
  <2>2. CASE pending
    <3>1. Grows(E, s, i, record)
      <4>1. s.ids[i] \in Record
        BY <1>5, OwnFacts
      <4>2. /\ record \in Record /\ record.state = s.ids[i].state
            /\ record.members = s.ids[i].members \cup {t} /\ Marks(record) = Marks(s.ids[i])
        BY <4>1 DEF Record, Marks
      <4> HIDE DEF record, i
      <4> QED BY <1>5, <4>2 DEF Grows
    <3>2. Steady(E, s, counted) /\ Revised(E, s, i, record, counted)
      <4>1. counted = Revise(s, i, record)
        BY <1>2, <2>2
      <4> HIDE DEF i, record
      <4> QED BY <3>1, <4>1, RevisedSteady, GrowFacts
    <3>3. counted.intake = s.intake /\ counted.holds = s.holds /\ counted.contest = s.contest
      BY <3>2 DEF Revised, Alike
    <3> QED BY <3>2, <3>3, SteadyFacts DEF Awaited, Waits
  <2> QED BY <2>1, <2>2
<1>9. CASE Collect(split, t)
  BY <1>7, <1>9, CollectAfter DEF Awaited
<1>10. CASE Collect(counted, t)
  BY <1>8, <1>10, CollectAfter
<1>11. CASE mem' = counted /\ (ScheduleSemantic(s, t) \/ UNCHANGED queue)
  BY <1>8, <1>11, ScheduleAfter
<1>12. CASE mem' = s /\ ScheduleAudit(s, t)
  <2>1. Orderly(E, s, s, {}) /\ Whole(s, s)
    BY OrderlySelf DEF Whole
  <2> QED BY <1>12, <2>1, ScheduleAfter
<1> QED BY <1>4, <1>9, <1>10, <1>11, <1>12

\* assign: the track may have been away too long, or its group be split for good.
LEMMA AssignFacts ==
  ASSUME NEW t \in Tracks, NEW E, Sane(mem, E), Working, Awaited(mem, t, Tasks), Assign(t)
  PROVE  Serves(E, mem, t)
<1> DEFINE ended == {g \in IdOf(mem, t) \cap Groups : mem.ids[g].revoked # {}}
<1>1. t \in mem.visible /\ worker' = worker
  BY DEF Assign
<1>2. PICK s \in {mem} \cup (IF Gaps THEN {ClearBindings(mem, {t})} ELSE {}) \cup {Dissolve(mem, g) : g \in ended} :
        IF t \in DOMAIN s.bound THEN ServeBound(s, t) ELSE Collect(s, t)
  BY DEF Assign
<1>3. CASE s = mem
  <2>1. CASE t \in DOMAIN mem.bound
    BY <1>1, <1>2, <1>3, <2>1, ServeBoundFacts
  <2>2. CASE t \notin DOMAIN mem.bound
    BY <1>1, <1>2, <1>3, <2>2, CollectFacts
  <2> QED BY <2>1, <2>2
<1>4. CASE s = ClearBindings(mem, {t})
  <2>1. Orderly(E, mem, s, {}) /\ Whole(mem, s) /\ t \notin DOMAIN s.intake /\ t \notin DOMAIN s.bound
    BY <1>4, ClearedWhole
  <2> QED BY <1>1, <1>2, <2>1, CollectAfter DEF Awaited
<1>5. ASSUME NEW g \in ended, s = Dissolve(mem, g)
      PROVE  Serves(E, mem, t)
  <2>1. t \in DOMAIN mem.bound /\ mem.bound[t] = g /\ g \in Groups \cap DOMAIN mem.ids
    BY <1>5 DEF IdOf, Sane, Exist
  <2>2. /\ Orderly(E, mem, s, {}) /\ DOMAIN s.ids = DOMAIN mem.ids \ {g}
        /\ DOMAIN s.bound = DOMAIN mem.bound \ BoundTo(mem, g)
    BY <1>5, <2>1, DissolveFacts
  <2>3. Whole(mem, s) /\ t \notin DOMAIN s.bound
    BY <2>1, <2>2 DEF Whole, BoundTo
  <2>4. Awaited(s, t, Tasks)
    <3>1. Heeds(mem, s, {})
      BY <2>2, HeedsKept DEF Orderly
    <3> QED BY <3>1 DEF Heeds, Awaited
  <2> QED BY <1>1, <1>2, <2>2, <2>3, <2>4, CollectAfter
<1> QED BY <1>2, <1>3, <1>4, <1>5

-----------------------------------------------------------------------------
(* The invariant.                                                           *)

\* The coordinator knows the holds it has asked for ...
HoldsKnown == \A t \in Tracks : mem.holds[t] \subseteq DOMAIN co.hold

\* ... and between two updates none is overdue.
Young ==
  co.pc = "idle" => \A p \in DOMAIN co.hold : co.hold[p].age < HoldMax /\ co.hold[p].grace <= HoldGrace + 1

Ordered ==
  /\ Sane(mem, slipped) /\ slipped \subseteq Tracks
  /\ Working /\ Due(mem, Tasks)
  /\ co \in Coordinator /\ HoldsKnown /\ Young

\* A step of the camera loop or of the worker.
LEMMA MemoryStep ==
  ASSUME Ordered, UNCHANGED co, Working', slipped' \subseteq Tracks,
         NEW T, Goes(slipped', mem, mem', T),
         \A task \in Tasks \ Tasks' : task.type = "intake" => task.track \in T,
         \A t \in DOMAIN mem'.intake \cap T : Awaited(mem', t, Tasks')
  PROVE  Ordered' /\ Whole(mem, mem')
<1>1. Due(mem, Tasks) /\ Heeds(mem, mem', T) /\ Sane(mem', slipped') /\ Whole(mem, mem')
  BY DEF Ordered, Goes
<1>2. Due(mem', Tasks')
  BY <1>1, DueFacts
<1>3. HoldsKnown' /\ Young' /\ co' \in Coordinator
  BY DEF Ordered, HoldsKnown, Young, Goes
<1> QED BY <1>1, <1>2, <1>3 DEF Ordered

LEMMA CameraLoopKeeps ==
  ASSUME Ordered, CameraLoop
  PROVE  Ordered' /\ Whole(mem, mem')
<1>1. UNCHANGED co
  BY DEF CameraLoop
<1>2. ASSUME NEW c \in Cameras, Observe(c)
      PROVE  Ordered' /\ Whole(mem, mem')
  <2>1. UNCHANGED <<queue, worker, slipped>>
    BY <1>2 DEF Observe
  <2>2. Working' /\ Tasks' = Tasks
    BY <2>1, StillWorking DEF Ordered
  <2>3. Goes(slipped', mem, mem', {})
    BY <1>2, <2>1, ObserveFacts DEF Ordered
  <2> QED BY <1>1, <2>1, <2>2, <2>3, MemoryStep DEF Ordered
<1>3. ASSUME NEW t \in Tracks, Assign(t)
      PROVE  Ordered' /\ Whole(mem, mem')
  <2>1. slipped' = slipped
    BY <1>3 DEF Assign
  <2>2. Awaited(mem, t, Tasks)
    BY DEF Ordered, Due, Awaited
  <2>3. Serves(slipped, mem, t)
    BY <1>3, <2>2, AssignFacts DEF Ordered
  <2> QED BY <1>1, <2>1, <2>3, MemoryStep DEF Ordered, Serves
<1> QED BY <1>2, <1>3 DEF CameraLoop

-----------------------------------------------------------------------------
(* The worker.                                                              *)

\* The task in hand, once it is done with.
LEMMA DoneFacts ==
  ASSUME Working, worker # <<>>, worker' = <<>>, UNCHANGED queue
  PROVE  Working' /\ worker[1] \in Task /\ worker[1] \in Tasks /\ Tasks \subseteq Tasks' \cup {worker[1]}
BY DEF Working, Tasks

\* An intake task that is not current is not what an intake is waiting for.
LEMMA NotCurrentFacts ==
  ASSUME NEW E, NEW s, Sane(s, E), NEW task, task.type = "intake", ~ IsCurrent(s, task.track, task.gen),
         NEW old, NEW new, old \subseteq new \cup {task}, Due(s, old)
  PROVE  Due(s, new)
<1> SUFFICES ASSUME NEW t \in DOMAIN s.intake
             PROVE  Awaited(s, t, new)
  BY DEF Due
<1>1. Awaited(s, t, old) /\ t \in s.visible
  BY DEF Due, Sane, InView
<1>2. ASSUME NEW w \in old, w.type = "intake", w.track = t, w.gen = s.intake[t].gen
      PROVE  Awaited(s, t, new)
  <2>1. CASE w \in new
    BY <1>2, <2>1 DEF Awaited
  <2>2. CASE w = task
    BY <1>1, <1>2, <2>2 DEF IsCurrent, Awaited
  <2> QED BY <2>1, <2>2
<1> QED BY <1>1, <1>2 DEF Awaited

\* A step that changes the tasks alone.
LEMMA TaskStep ==
  ASSUME Ordered, UNCHANGED <<mem, slipped, co>>, Working', Due(mem, Tasks')
  PROVE  Ordered' /\ Whole(mem, mem')
<1>1. Due(mem, Tasks)' /\ Sane(mem, slipped)' /\ HoldsKnown' /\ Young' /\ co' \in Coordinator
  BY DEF Ordered, HoldsKnown, Young
<1> QED BY <1>1 DEF Ordered, Whole

LEMMA TakeKeeps ==
  ASSUME Ordered, Take, UNCHANGED co
  PROVE  Ordered' /\ Whole(mem, mem')
<1> DEFINE task == Head(queue)
<1>1. /\ worker = <<>> /\ queue # <<>> /\ queue' = Tail(queue) /\ UNCHANGED <<mem, slipped>>
      /\ worker' = IF task.type = "intake" /\ ~IsCurrent(mem, task.track, task.gen)
                     THEN <<>> ELSE <<task, "extracted">>
  BY DEF Take
<1>2. queue \in Seq(Task) /\ Len(queue) \in Nat \ {0} /\ queue' \in Seq(Task) /\ task \in Task /\ task = queue[1]
  BY <1>1 DEF Ordered, Working
<1>3. {queue[i] : i \in DOMAIN queue} = {queue'[i] : i \in DOMAIN queue'} \cup {task}
  <2>1. DOMAIN queue = 1..Len(queue) /\ DOMAIN queue' = 1..(Len(queue) - 1)
    BY <1>1, <1>2
  <2>2. \A i \in DOMAIN queue' : i + 1 \in DOMAIN queue /\ queue'[i] = queue[i + 1]
    BY <1>1, <1>2, <2>1
  <2>3. \A i \in DOMAIN queue : i = 1 \/ (i - 1 \in DOMAIN queue' /\ queue[i] = queue'[i - 1])
    BY <1>1, <1>2, <2>1
  <2> QED BY <1>2, <2>1, <2>2, <2>3
<1> HIDE DEF task
<1>4. Tasks = {queue'[i] : i \in DOMAIN queue'} \cup {task}
  BY <1>1, <1>3 DEF Tasks
<1>5. CASE task.type = "intake" /\ ~IsCurrent(mem, task.track, task.gen)
  <2>1. worker' = <<>>
    BY <1>1, <1>5
  <2>2. Tasks' \subseteq Tasks /\ Tasks \subseteq Tasks' \cup {task}
    BY <1>4, <2>1 DEF Tasks
  <2>3. Working'
    BY <1>2, <2>1, <2>2 DEF Ordered, Working
  <2>4. Due(mem, Tasks')
    BY <1>5, <2>2, NotCurrentFacts DEF Ordered
  <2> QED BY <1>1, <2>3, <2>4, TaskStep
<1>6. CASE ~ (task.type = "intake" /\ ~IsCurrent(mem, task.track, task.gen))
  <2>1. worker' = <<task, "extracted">>
    BY <1>1, <1>6
  <2>2. Tasks' = Tasks
    BY <1>4, <2>1 DEF Tasks
  <2>3. Working'
    BY <1>2, <2>1, <2>2 DEF Ordered, Working
  <2> QED BY <1>1, <2>2, <2>3, TaskStep DEF Ordered
<1> QED BY <1>5, <1>6

LEMMA AnswerGroupedKeeps ==
  ASSUME Ordered, AnswerGrouped, UNCHANGED co
  PROVE  Ordered' /\ Whole(mem, mem')
<1> DEFINE task == worker[1]
           t == task.track
<1>1. /\ worker # <<>> /\ task.type = "intake" /\ UNCHANGED <<queue, slipped>>
      /\ IF Grouped(mem, t) /\ IsCurrent(mem, t, task.gen)
           THEN mem' \in Store(mem, t) /\ worker' = <<>>
         ELSE mem' = mem /\ worker' = <<task, "ordinary">>
  BY DEF AnswerGrouped, Busy
<1>2. CASE Grouped(mem, t) /\ IsCurrent(mem, t, task.gen)
  <2>1. mem' \in Store(mem, t) /\ worker' = <<>> /\ t \in DOMAIN mem.intake
    BY <1>1, <1>2 DEF IsCurrent
  <2>2. Working' /\ Tasks \subseteq Tasks' \cup {task}
    BY <1>1, <2>1, DoneFacts DEF Ordered
  <2>3. PICK r : r = mem'
    OBVIOUS
  <2>4. Answers(slipped, mem, t, r)
    BY <1>2, <2>1, <2>3, StoreFacts DEF Ordered
  <2>5. Goes(slipped, mem, r, {t})
    <3>1. Orderly(slipped, mem, r, {t})
      BY <2>4, OrderlyMore DEF Answers
    <3> QED BY <2>4, <3>1, OrderlyGoes DEF Answers
  <2>6. Awaited(r, t, Tasks')
    BY <2>4 DEF Answers, Answered, Awaited
  <2> QED BY <1>1, <2>2, <2>3, <2>5, <2>6, MemoryStep DEF Ordered
<1>3. CASE ~ (Grouped(mem, t) /\ IsCurrent(mem, t, task.gen))
  <2>1. mem' = mem /\ worker' = <<task, "ordinary">>
    BY <1>1, <1>3
  <2>2. Tasks' = Tasks
    BY <1>1, <2>1 DEF Tasks
  <2>3. Working'
    BY <1>1, <2>1, <2>2 DEF Ordered, Working
  <2> QED BY <1>1, <2>1, <2>2, <2>3, TaskStep DEF Ordered
<1> QED BY <1>2, <1>3

LEMMA AnswerOrdinaryKeeps ==
  ASSUME Ordered, AnswerOrdinary, UNCHANGED co
  PROVE  Ordered' /\ Whole(mem, mem')
<1> DEFINE task == worker[1]
           t == task.track
<1>1. /\ worker # <<>> /\ task.type = "intake" /\ UNCHANGED queue /\ worker' = <<>>
      /\ IF ~IsCurrent(mem, t, task.gen) THEN UNCHANGED <<mem, slipped>>
         ELSE /\ mem' \in Ordinary(mem, t)
              /\ slipped' = IF IdOf(mem, t) \notin {{}, IdOf(mem, t) \cap IdOf(mem', t)}
                               THEN slipped \cup {t} ELSE slipped
  BY DEF AnswerOrdinary, Busy
<1>2. Working' /\ Tasks \subseteq Tasks' \cup {task} /\ task \in Task
  BY <1>1, DoneFacts DEF Ordered
<1>3. CASE ~IsCurrent(mem, t, task.gen)
  <2>1. Due(mem, Tasks')
    BY <1>1, <1>2, <1>3, NotCurrentFacts DEF Ordered
  <2> QED BY <1>1, <1>2, <1>3, <2>1, TaskStep
<1>4. CASE IsCurrent(mem, t, task.gen)
  <2>1. /\ mem' \in Ordinary(mem, t) /\ t \in DOMAIN mem.intake
        /\ slipped' = IF IdOf(mem, t) \notin {{}, IdOf(mem, t) \cap IdOf(mem', t)}
                        THEN slipped \cup {t} ELSE slipped
    BY <1>1, <1>4 DEF IsCurrent
  <2>2. t \in Tracks
    BY <2>1, MemoryFacts DEF Ordered, Sane
  <2>3. slipped \subseteq slipped' /\ slipped' \subseteq Tracks
    BY <2>1, <2>2 DEF Ordered
  <2>4. (\E i \in IdOf(mem, t) : i \notin IdOf(mem', t)) => t \in slipped'
    BY <2>1
  <2>5. PICK r : r = mem'
    OBVIOUS
  <2>6. Ordains(slipped, slipped', mem, t, r)
    BY <2>1, <2>3, <2>4, <2>5, OrdinaryFacts DEF Ordered
  <2>7. Goes(slipped', mem, r, {t})
    <3>1. Keeps(mem, r, {t})
      BY <2>6, KeepsMore DEF Ordains
    <3> QED BY <2>6, <3>1, HeedsKept DEF Ordains, Goes, Keeps
  <2>8. Awaited(r, t, Tasks')
    BY <2>6 DEF Ordains, Answered, Awaited
  <2> QED BY <1>1, <1>2, <2>3, <2>5, <2>7, <2>8, MemoryStep
<1> QED BY <1>3, <1>4

\* A task that is no intake changes the memory in order.
LEMMA OtherTask ==
  ASSUME Ordered, worker # <<>>, worker' = <<>>, worker[1].type # "intake", UNCHANGED <<queue, slipped, co>>,
         Orderly(slipped, mem, mem', {}), Whole(mem, mem')
  PROVE  Ordered' /\ Whole(mem, mem')
<1>1. Working' /\ Tasks \subseteq Tasks' \cup {worker[1]}
  BY DoneFacts DEF Ordered
<1>2. Goes(slipped', mem, mem', {})
  BY OrderlyGoes
<1> QED BY <1>1, <1>2, MemoryStep DEF Ordered

LEMMA AddViewKeeps ==
  ASSUME Ordered, AddView, UNCHANGED co
  PROVE  Ordered' /\ Whole(mem, mem')
<1> DEFINE t == worker[1].track
           g == worker[1].id
           record == [mem.ids[g] EXCEPT !.views = @ \cup {CameraOf[t]}]
<1>1. /\ worker # <<>> /\ worker' = <<>> /\ worker[1].type = "semantic" /\ UNCHANGED <<queue, slipped>>
      /\ \/ UNCHANGED mem
         \/ /\ Unnumbered(mem, g) /\ g \in IdOf(mem, t)
            /\ mem' \in Evaluate(Revise(mem, g, record), g)
  BY DEF AddView, Busy
<1>2. CASE UNCHANGED mem
  <2>1. Orderly(slipped, mem, mem', {}) /\ Whole(mem, mem')
    BY <1>2, OrderlySelf DEF Ordered, Whole
  <2> QED BY <1>1, <2>1, OtherTask
<1>3. CASE Unnumbered(mem, g) /\ g \in IdOf(mem, t) /\ mem' \in Evaluate(Revise(mem, g, record), g)
  <2>1. g \in DOMAIN mem.ids /\ t \in Tracks
    BY <1>3, MemoryFacts DEF Unnumbered, IdOf, Ordered, Sane
  <2>2. /\ record \in Record /\ record.state = mem.ids[g].state
        /\ record.members = mem.ids[g].members /\ Marks(record) = Marks(mem.ids[g])
    <3>1. mem.ids[g] \in Record /\ CameraOf[t] \in Cameras
      BY <2>1, OwnFacts, ProvisionalAssumption DEF Ordered
    <3> QED BY <3>1 DEF Record, Marks
  <2> HIDE DEF record, g
  <2>3. Grows(slipped, mem, g, record)
    BY <2>1, <2>2 DEF Grows, Ordered
  <2>4. PICK v : v = Revise(mem, g, record)
    OBVIOUS
  <2>5. Steady(slipped, mem, v)
    BY <2>3, <2>4, RevisedSteady
  <2>6. Orderly(slipped, v, mem', {}) /\ Whole(v, mem')
    BY <1>3, <2>4, <2>5, SteadyFacts, EvaluateFacts
  <2>7. Orderly(slipped, mem, mem', {}) /\ Whole(mem, mem')
    BY <2>5, <2>6, SteadyFacts, OrderlyOn, WholeAfter
  <2> QED BY <1>1, <2>7, OtherTask
<1> QED BY <1>1, <1>2, <1>3

\* A track bound to nothing becomes a member of an identity and is bound to it.
LEMMA JoinOneFacts ==
  ASSUME NEW E, NEW s, Sane(s, E), NEW m \in DOMAIN s.ids, NEW t \in Tracks, t \notin DOMAIN s.bound
  PROVE  LET r == [Revise(s, m, [s.ids[m] EXCEPT !.members = @ \cup {t}]) EXCEPT !.bound = Set(s.bound, t, m)]
         IN Orderly(E, s, r, {}) /\ DOMAIN r.ids = DOMAIN s.ids
<1> DEFINE record == [s.ids[m] EXCEPT !.members = @ \cup {t}]
           T == {t}
           v == Revise(s, m, record)
           b == BindTo(v, m, T)
           r == [v EXCEPT !.bound = Set(s.bound, t, m)]
<1>1. /\ s.ids[m] \in Record /\ m \in Groups \cup 1..s.masters
      /\ s.ids[m].state = "confirmed" <=> m \in Masters
      /\ m \in Groups => BoundTo(s, m) \subseteq s.ids[m].members
      /\ Marks(s.ids[m]) \ E \subseteq s.ids[m].members \cap BoundTo(s, m)
  BY OwnFacts
<1>2. /\ record \in Record /\ record.state = s.ids[m].state /\ record.members = s.ids[m].members \cup {t}
      /\ Marks(record) = Marks(s.ids[m])
  BY <1>1 DEF Record, Marks
<1>3. /\ v.bound = s.bound /\ v.done = s.done
      /\ r = [v EXCEPT !.bound = [u \in DOMAIN s.bound \cup T |-> IF u \in T THEN m ELSE s.bound[u]]]
  <2>1. Set(s.bound, t, m) = [u \in DOMAIN s.bound \cup T |-> IF u \in T THEN m ELSE s.bound[u]]
    BY DEF Set
  <2> QED BY <2>1 DEF Revise
<1> HIDE DEF record
<1>4. Right(E, s, m, T, record)
  BY <1>1, <1>2 DEF Right
<1>5. r \in Memory /\ b \in Memory /\ Beside(b, r) /\ Orderly(E, s, b, {}) /\ DOMAIN b.ids = DOMAIN s.ids
  <2>1. PICK c : c = b
    OBVIOUS
  <2>2. Orderly(E, s, c, {}) /\ DOMAIN c.ids = DOMAIN s.ids \cup {m}
    <3> HIDE DEF T, v
    <3> QED BY <1>4, <2>1, BindFacts DEF v
  <2>3. c \in Memory /\ s \in Memory
    BY <2>2 DEF Orderly, Sane
  <2>4. /\ c = [v EXCEPT !.bound = [u \in DOMAIN s.bound \cup T |-> IF u \in T THEN m ELSE s.bound[u]],
                         !.done = s.done \ T]
    BY <1>3, <2>1 DEF BindTo
  <2>5. v = [s EXCEPT !.ids = v.ids]
    BY <2>3 DEF Revise, Memory
  <2> HIDE DEF b, v, T
  <2>6. r = [c EXCEPT !.done = s.done]
    BY <1>3, <2>3, <2>4, <2>5 DEF Memory
  <2>7. r \in Memory /\ Beside(c, r)
    BY <2>3, <2>6 DEF Memory, Beside
  <2> QED BY <2>1, <2>2, <2>3, <2>7
<1> HIDE DEF b, r
<1>6. Orderly(E, b, r, {}) /\ DOMAIN r.ids = DOMAIN s.ids
  BY <1>5, SideFacts DEF Orderly, Beside
<1>7. Orderly(E, s, r, {})
  BY <1>5, <1>6, OrderlyOn
<1> QED BY <1>6, <1>7 DEF r, v, record

\* Another master looks more like track t.
LEMMA AuditedFacts ==
  ASSUME NEW E, NEW s, Sane(s, E), Rounds > 0, NEW t \in DOMAIN s.bound, NEW rival \in DOMAIN s.ids \cap Masters
  PROVE  Orderly(E, s, Audited(s, t, rival), {}) /\ Whole(s, Audited(s, t, rival))
<1> DEFINE won == 1 + IF t \in DOMAIN s.rivals /\ s.rivals[t].id = rival THEN s.rivals[t].rounds ELSE 0
           entry == [id |-> rival, rounds |-> IF won > Rounds THEN Rounds ELSE won]
           counted == [s EXCEPT !.rivals = Set(s.rivals, t, entry)]
<1>1. PICK moved : moved = ClearBindings(s, {t})
  OBVIOUS
<1>2. PICK r : r = Audited(s, t, rival)
  OBVIOUS
<1>3. \/ r = counted
      \/ r = [Revise(moved, rival, [moved.ids[rival] EXCEPT !.members = @ \cup {t}])
                EXCEPT !.bound = Set(moved.bound, t, rival)]
  <2>1. \A record : Revise(moved, rival, record).bound = moved.bound
    BY DEF Revise
  <2> QED BY <1>1, <1>2, <2>1 DEF Audited
<1>4. s \in Memory /\ t \in Tracks /\ s.rivals \in Dict(Tracks, Rival)
  BY MemoryFacts DEF Sane
<1>5. CASE r = counted
  <2>1. won \in Nat \ {0}
    <3>1. t \in DOMAIN s.rivals => s.rivals[t] \in Rival
      BY <1>4, MemoryFacts
    <3>2. t \in DOMAIN s.rivals => s.rivals[t].rounds \in Nat
      BY <3>1 DEF Rival
    <3> QED BY <3>2
  <2>2. entry \in Rival
    <3> HIDE DEF won
    <3>1. (IF won > Rounds THEN Rounds ELSE won) \in 1..Rounds
      BY <2>1, ProvisionalAssumption
    <3> QED BY <3>1 DEF Rival
  <2> HIDE DEF entry
  <2>3. Set(s.rivals, t, entry) \in Dict(Tracks, Rival)
    BY <1>4, <2>2, SetFacts
  <2>4. r \in Memory /\ Beside(s, r)
    BY <1>4, <1>5, <2>3 DEF Memory, Beside
  <2> QED BY <1>2, <2>4, SideFacts DEF Beside, Whole
<1>6. CASE r = [Revise(moved, rival, [moved.ids[rival] EXCEPT !.members = @ \cup {t}])
                  EXCEPT !.bound = Set(moved.bound, t, rival)]
  <2>1. /\ Orderly(E, s, moved, {}) /\ DOMAIN moved.ids = DOMAIN s.ids /\ t \notin DOMAIN moved.bound
    BY <1>1, <1>4, ClearFacts
  <2>2. Orderly(E, moved, r, {}) /\ DOMAIN r.ids = DOMAIN moved.ids
    BY <1>4, <1>6, <2>1, JoinOneFacts DEF Orderly
  <2> QED BY <1>2, <2>1, <2>2, OrderlyOn DEF Whole
<1> QED BY <1>2, <1>3, <1>5, <1>6

LEMMA AuditKeeps ==
  ASSUME Ordered, Audit, UNCHANGED co
  PROVE  Ordered' /\ Whole(mem, mem')
<1> DEFINE t == worker[1].track
<1>1. /\ worker # <<>> /\ worker' = <<>> /\ worker[1].type = "audit" /\ UNCHANGED <<queue, slipped>>
      /\ IF worker[1].id \notin IdOf(mem, t) THEN UNCHANGED mem
         ELSE \/ mem' = [mem EXCEPT !.rivals = Without(mem.rivals, {t})]
              \/ UNCHANGED mem
              \/ \E rival \in (DOMAIN mem.ids \cap Masters) \ {worker[1].id} :
                   mem' = Audited(mem, t, rival)
  BY DEF Audit, Busy
<1>2. CASE UNCHANGED mem
  <2>1. Orderly(slipped, mem, mem', {}) /\ Whole(mem, mem')
    BY <1>2, OrderlySelf DEF Ordered, Whole
  <2> QED BY <1>1, <2>1, OtherTask
<1>3. CASE mem' = [mem EXCEPT !.rivals = Without(mem.rivals, {t})]
  <2>1. mem \in Memory /\ mem.rivals \in Dict(Tracks, Rival) /\ Sane(mem, slipped)
    BY MemoryFacts DEF Ordered, Sane
  <2>2. Without(mem.rivals, {t}) \in Dict(Tracks, Rival)
    BY <2>1, WithoutFacts
  <2>3. PICK r : r = mem'
    OBVIOUS
  <2>4. r \in Memory /\ Beside(mem, r)
    BY <1>3, <2>1, <2>2, <2>3 DEF Memory, Beside
  <2>5. Orderly(slipped, mem, r, {}) /\ Whole(mem, r)
    BY <2>1, <2>4, SideFacts DEF Beside, Whole
  <2> QED BY <1>1, <2>3, <2>5, OtherTask
<1>4. ASSUME worker[1].id \in IdOf(mem, t), NEW rival \in DOMAIN mem.ids \cap Masters, mem' = Audited(mem, t, rival)
      PROVE  Ordered' /\ Whole(mem, mem')
  <2>1. Rounds > 0
    BY <1>1 DEF Ordered, Working, Tasks
  <2>2. t \in DOMAIN mem.bound
    BY <1>4 DEF IdOf
  <2>3. Orderly(slipped, mem, mem', {}) /\ Whole(mem, mem')
    BY <1>4, <2>1, <2>2, AuditedFacts DEF Ordered
  <2> QED BY <1>1, <2>3, OtherTask
<1> QED BY <1>1, <1>2, <1>3, <1>4

\* A winner takes its master and leaves its intake behind.
LEMMA WinnerFacts ==
  ASSUME NEW E, NEW s, Sane(s, E), NEW m \in DOMAIN s.ids, NEW t \in Tracks
  PROVE  LET r == WinnerTakes(s, m, t)
         IN Orderly(E, s, r, {}) /\ DOMAIN r.ids = DOMAIN s.ids /\ t \notin DOMAIN r.intake
<1> DEFINE aliases == (Peers(t) \cap BoundTo(s, m)) \ s.visible
<1>1. PICK s1 : s1 = ClearBindings(s, aliases)
  OBVIOUS
<1>2. PICK s2 : s2 = IF t \in DOMAIN s1.bound THEN ClearBindings(s1, {t}) ELSE s1
  OBVIOUS
<1>3. PICK v : v = [Revise(s2, m, [s2.ids[m] EXCEPT !.members = @ \cup {t}]) EXCEPT !.bound = Set(s2.bound, t, m)]
  OBVIOUS
<1>4. PICK f : f = Finish(v, t)
  OBVIOUS
<1>5. PICK r : r = WinnerTakes(s, m, t)
  OBVIOUS
<1>6. Orderly(E, s, s1, {}) /\ DOMAIN s1.ids = DOMAIN s.ids
  <2>1. aliases \in SUBSET Tracks
    BY DEF Peers, Of
  <2> HIDE DEF aliases
  <2> QED BY <1>1, <2>1, ClearFacts
<1>7. Orderly(E, s, s2, {}) /\ DOMAIN s2.ids = DOMAIN s.ids /\ t \notin DOMAIN s2.bound
  <2>1. CASE t \in DOMAIN s1.bound
    <3>1. /\ Orderly(E, s1, s2, {}) /\ DOMAIN s2.ids = DOMAIN s1.ids /\ DOMAIN s2.bound = DOMAIN s1.bound \ {t}
      BY <1>2, <1>6, <2>1, ClearFacts DEF Orderly
    <3> QED BY <1>6, <3>1, OrderlyOn
  <2>2. CASE t \notin DOMAIN s1.bound
    BY <1>2, <1>6, <2>2
  <2> QED BY <2>1, <2>2
<1>8. Orderly(E, s, v, {}) /\ DOMAIN v.ids = DOMAIN s.ids
  <2>1. Orderly(E, s2, v, {}) /\ DOMAIN v.ids = DOMAIN s2.ids
    BY <1>3, <1>7, JoinOneFacts DEF Orderly
  <2> QED BY <1>7, <2>1, OrderlyOn
<1>9. Orderly(E, s, f, {}) /\ f.ids = v.ids /\ t \notin DOMAIN f.intake
  <2>1. Orderly(E, v, f, {}) /\ f.ids = v.ids
    BY <1>4, <1>8, FinishFacts DEF Orderly
  <2>2. f.intake = Without(v.intake, {t})
    <3>1. v \in Memory
      BY <1>8 DEF Orderly, Sane
    <3> QED BY <1>4, <3>1 DEF Finish, Memory
  <2>3. DOMAIN Without(v.intake, {t}) = DOMAIN v.intake \ {t}
    BY WithoutDomain
  <2> QED BY <1>8, <2>1, <2>2, <2>3, OrderlyOn
<1>10. r \in Memory /\ Beside(f, r)
  <2>1. s2 \in Memory /\ v \in Memory /\ f \in Memory
    BY <1>7, <1>8, <1>9 DEF Orderly, Sane
  <2>2. PICK w : w = Revise(s2, m, [s2.ids[m] EXCEPT !.members = @ \cup {t}])
    OBVIOUS
  <2>3. w.bound = s2.bound /\ w.intake = s2.intake /\ w.barred = s2.barred /\ w.done = s2.done /\ w = [s2 EXCEPT !.ids = w.ids]
    BY <2>1, <2>2 DEF Revise, Memory
  <2>4. r = [w EXCEPT !.bound = Set(w.bound, t, m), !.intake = Without(w.intake, {t}), !.barred[t] = {}]
    BY <1>1, <1>2, <1>5, <2>2 DEF WinnerTakes, ClearNonvisibleOwners
  <2>5. v = [w EXCEPT !.bound = Set(w.bound, t, m)]
    BY <1>3, <2>2, <2>3
  <2>6. f = [v EXCEPT !.done = v.done \cup {t}, !.intake = Without(v.intake, {t})]
    BY <1>4 DEF Finish
  <2>7. /\ r = [f EXCEPT !.done = s2.done, !.barred = [s2.barred EXCEPT ![t] = {}]]
    BY <2>1, <2>3, <2>4, <2>5, <2>6 DEF Memory
  <2>8. [s2.barred EXCEPT ![t] = {}] \in [Tracks -> SUBSET Masters] /\ s2.done \in SUBSET Tracks
    BY <2>1, MemoryFacts
  <2> QED BY <2>1, <2>7, <2>8 DEF Memory, Beside
<1>11. Orderly(E, f, r, {})
  BY <1>9, <1>10, SideFacts DEF Orderly
<1> QED BY <1>5, <1>8, <1>9, <1>10, <1>11, OrderlyOn DEF Beside

\* The challenger of a contest that is over, or loses it, has its intake to submit again.
Barred(s, m, waiting) ==
  LET a == [s EXCEPT !.contest = Without(s.contest, {m})]
  IN Rearm([a EXCEPT !.barred[s.contest[m].chal] = @ \cup {m}], waiting, "contest")

LEMMA LostFacts ==
  ASSUME NEW E, NEW s, Sane(s, E), NEW m \in DOMAIN s.contest, NEW waiting,
         \A t : t \in waiting <=>
           t = s.contest[m].chal /\ t \in DOMAIN s.intake /\ s.intake[t].gen = s.contest[m].gen
  PROVE  Orderly(E, s, Barred(s, m, waiting), {}) /\ Whole(s, Barred(s, m, waiting))
<1> DEFINE c == s.contest[m]
           a == [s EXCEPT !.contest = Without(s.contest, {m})]
           b == [s EXCEPT !.barred = [s.barred EXCEPT ![c.chal] = @ \cup {m}]]
           marked == [a EXCEPT !.barred[c.chal] = @ \cup {m}]
           r == Rearm(marked, waiting, "contest")
<1>1. s \in Memory /\ c \in Contest /\ m \in Masters /\ c.chal \in Tracks
  <2>1. s \in Memory
    BY DEF Sane
  <2> QED BY <2>1, MemoryFacts DEF Contest
<1>2. b \in Memory /\ Beside(s, b) /\ b.contest = s.contest /\ b.intake = s.intake
  <2>1. [s.barred EXCEPT ![c.chal] = @ \cup {m}] \in [Tracks -> SUBSET Masters]
    BY <1>1, MemoryFacts
  <2> QED BY <1>1, <2>1 DEF Memory, Beside
<1>3. Orderly(E, s, b, {})
  BY <1>2, SideFacts
<1>4. CancelContests(b, {m}) = r
  <2> DEFINE ended == {m} \cap DOMAIN b.contest
             over == {t \in DOMAIN b.intake : \E n \in ended :
                        t = b.contest[n].chal /\ b.intake[t].gen = b.contest[n].gen}
  <2>1. ended = {m}
    BY <1>2
  <2>3. over = waiting
    BY <1>2, <2>1
  <2>4. [b EXCEPT !.contest = Without(b.contest, ended)] = marked
    <3>1. [b EXCEPT !.contest = Without(b.contest, {m})] = marked
      BY <1>1, <1>2 DEF Memory
    <3> HIDE DEF b, marked, ended
    <3> QED BY <2>1, <3>1
  <2>5. CancelContests(b, {m}) = Rearm([b EXCEPT !.contest = Without(b.contest, ended)], over, "contest")
    BY DEF CancelContests
  <2> HIDE DEF over, ended, b
  <2> QED BY <2>3, <2>4, <2>5
<1> HIDE DEF b
<1>5. PICK q : q = CancelContests(b, {m})
  OBVIOUS
<1>6. Orderly(E, b, q, {}) /\ q.ids = b.ids /\ q.bound = b.bound
  BY <1>3, <1>5, CancelFacts DEF Orderly
<1>7. Orderly(E, s, q, {}) /\ Whole(s, q)
  BY <1>2, <1>3, <1>6, OrderlyOn DEF Beside, Whole
<1> QED BY <1>4, <1>5, <1>7 DEF Barred

\* A challenger that wins clears the incumbent.
LEMMA WonFacts ==
  ASSUME NEW E, NEW s, Sane(s, E), NEW m \in DOMAIN s.contest, NEW barred \in {{}, {m}}
  PROVE  LET c == s.contest[m]
             a == [s EXCEPT !.contest = Without(s.contest, {m})]
             won == ClearBindings(a, {c.inc})
             r == WinnerTakes([won EXCEPT !.barred[c.inc] = @ \cup barred], m, c.chal)
         IN Goes(E, s, r, {c.chal}) /\ c.chal \notin DOMAIN r.intake
<1> DEFINE c == s.contest[m]
<1>1. PICK a : a = [s EXCEPT !.contest = Without(s.contest, {m})]
  OBVIOUS
<1>2. PICK won : won = ClearBindings(a, {c.inc})
  OBVIOUS
<1>3. PICK b : b = [won EXCEPT !.barred[c.inc] = @ \cup barred]
  OBVIOUS
<1>4. PICK r : r = WinnerTakes(b, m, c.chal)
  OBVIOUS
<1>5. s \in Memory /\ c \in Contest /\ m \in Masters /\ c.chal \in Tracks /\ c.inc \in Tracks /\ m \in DOMAIN s.ids
  <2>1. s \in Memory /\ m \in DOMAIN s.ids
    BY DEF Sane, Exist
  <2> QED BY <2>1, MemoryFacts DEF Contest
<1>6. /\ Sane(a, E) /\ Heeds(s, a, {c.chal}) /\ a.ids = s.ids /\ a.holds = s.holds
  <2>1. Without(s.contest, {m}) \in Dict(Masters, Contest)
    BY <1>5, MemoryFacts, WithoutFacts
  <2>2. /\ DOMAIN Without(s.contest, {m}) = DOMAIN s.contest \ {m}
        /\ \A n \in DOMAIN Without(s.contest, {m}) : Without(s.contest, {m})[n] = s.contest[n]
    BY WithoutDomain
  <2>3. /\ a \in Memory /\ a.visible = s.visible /\ a.ids = s.ids /\ a.masters = s.masters /\ a.bound = s.bound
        /\ a.intake = s.intake /\ a.holds = s.holds
        /\ DOMAIN a.contest = DOMAIN s.contest \ {m} /\ \A n \in DOMAIN a.contest : a.contest[n] = s.contest[n]
    <3>1. /\ a \in Memory /\ a.visible = s.visible /\ a.ids = s.ids /\ a.masters = s.masters /\ a.bound = s.bound
          /\ a.intake = s.intake /\ a.holds = s.holds /\ a.contest = Without(s.contest, {m})
      BY <1>1, <1>5, <2>1 DEF Memory
    <3> QED BY <2>2, <3>1
  <2> HIDE DEF c
  <2>4. Sane(a, E)
    BY <2>3 DEF Sane, Exist, States, Listed, Marked, InView, OwnHolds
  <2>5. Heeds(s, a, {c.chal})
    <3>1. ASSUME NEW t, t # c.chal, Waits(s, t)
          PROVE  Waits(a, t)
      BY <2>3, <3>1 DEF Waits, c
    <3> QED BY <2>3, <3>1 DEF Heeds
  <2> QED BY <2>3, <2>4, <2>5
<1>7. Orderly(E, a, won, {}) /\ DOMAIN won.ids = DOMAIN a.ids
  BY <1>2, <1>5, <1>6, ClearFacts
<1>8. Orderly(E, won, b, {}) /\ b.ids = won.ids
  <2>1. won \in Memory /\ Sane(won, E)
    BY <1>7 DEF Orderly, Sane
  <2>2. [won.barred EXCEPT ![c.inc] = @ \cup barred] \in [Tracks -> SUBSET Masters]
    BY <1>5, <2>1, MemoryFacts
  <2>3. b \in Memory /\ Beside(won, b)
    BY <1>3, <2>1, <2>2 DEF Memory, Beside
  <2> QED BY <2>1, <2>3, SideFacts DEF Beside
<1>9. Orderly(E, b, r, {}) /\ DOMAIN r.ids = DOMAIN b.ids /\ c.chal \notin DOMAIN r.intake
  BY <1>4, <1>5, <1>6, <1>7, <1>8, WinnerFacts DEF Orderly
<1>10. Orderly(E, a, r, {c.chal}) /\ DOMAIN r.ids = DOMAIN s.ids
  BY <1>6, <1>7, <1>8, <1>9, OrderlyOn, OrderlyMore
<1>11. Heeds(s, r, {c.chal}) /\ Whole(s, r) /\ Sane(r, E) /\ \A t \in Tracks : r.holds[t] \subseteq s.holds[t]
  BY <1>6, <1>10, HeedsKept, HeedsOn DEF Orderly, Keeps, Whole
<1> QED BY <1>1, <1>2, <1>3, <1>4, <1>9, <1>11 DEF Goes

LEMMA VerdictKeeps ==
  ASSUME Ordered, NEW m \in Masters, Verdict(m), UNCHANGED co
  PROVE  Ordered' /\ Whole(mem, mem')
<1> DEFINE c == mem.contest[m]
           s == [mem EXCEPT !.contest = Without(mem.contest, {m})]
           lost == Rearm([s EXCEPT !.barred[c.chal] = @ \cup {m}],
                         {t \in {c.chal} \cap DOMAIN s.intake : s.intake[t].gen = c.gen}, "contest")
           won == ClearBindings(s, {c.inc})
<1>1. /\ m \in DOMAIN mem.contest /\ UNCHANGED <<queue, worker, slipped>>
      /\ \/ mem' = CancelContests(mem, {m})
         \/ mem' = lost
         \/ \E barred \in {{}, {m}} : mem' = WinnerTakes([won EXCEPT !.barred[c.inc] = @ \cup barred], m, c.chal)
  BY DEF Verdict
<1>2. Working' /\ Tasks' = Tasks /\ Sane(mem, slipped) /\ slipped \subseteq Tracks /\ Due(mem, Tasks)
  BY <1>1, StillWorking DEF Ordered
<1>3. ASSUME Orderly(slipped, mem, mem', {}), Whole(mem, mem')
      PROVE  Ordered' /\ Whole(mem, mem')
  <2>1. Goes(slipped', mem, mem', {})
    BY <1>1, <1>3, OrderlyGoes
  <2> QED BY <1>1, <1>2, <2>1, MemoryStep
<1>4. CASE mem' = CancelContests(mem, {m})
  <2>1. PICK r : r = mem'
    OBVIOUS
  <2>2. Orderly(slipped, mem, r, {}) /\ r.ids = mem.ids
    BY <1>2, <1>4, <2>1, CancelFacts
  <2> QED BY <1>3, <2>1, <2>2 DEF Whole
<1>5. CASE mem' = lost
  <2>1. Orderly(slipped, mem, mem', {}) /\ Whole(mem, mem')
    <3>1. PICK waiting : waiting = {t \in {c.chal} \cap DOMAIN s.intake : s.intake[t].gen = c.gen}
      OBVIOUS
    <3>2. s.intake = mem.intake
      BY <1>2 DEF Sane, Memory
    <3>3. \A t : t \in waiting <=> t = c.chal /\ t \in DOMAIN mem.intake /\ mem.intake[t].gen = c.gen
      BY <3>1, <3>2
    <3>4. mem' = Barred(mem, m, waiting)
      BY <1>5, <3>1 DEF Barred
    <3>5. Orderly(slipped, mem, Barred(mem, m, waiting), {}) /\ Whole(mem, Barred(mem, m, waiting))
      BY <1>1, <1>2, <3>3, LostFacts
    <3> QED BY <3>4, <3>5
  <2> QED BY <1>3, <2>1
<1>6. ASSUME NEW barred \in {{}, {m}}, mem' = WinnerTakes([won EXCEPT !.barred[c.inc] = @ \cup barred], m, c.chal)
      PROVE  Ordered' /\ Whole(mem, mem')
  <2>1. Goes(slipped', mem, mem', {c.chal}) /\ c.chal \notin DOMAIN mem'.intake
    BY <1>1, <1>2, <1>6, WonFacts
  <2> QED BY <1>1, <1>2, <2>1, MemoryStep
<1> QED BY <1>1, <1>4, <1>5, <1>6

LEMMA WorkerKeeps ==
  ASSUME Ordered, WorkerStep, UNCHANGED co
  PROVE  Ordered' /\ Whole(mem, mem')
BY TakeKeeps, AnswerGroupedKeeps, AnswerOrdinaryKeeps, AddViewKeeps, AuditKeeps, VerdictKeeps DEF WorkerStep

-----------------------------------------------------------------------------
(* The coordinator.                                                         *)

\* A pair that is released re-arms what waited for it alone.
LEMMA ReleaseFacts ==
  ASSUME NEW E, NEW s, Sane(s, E), NEW P
  PROVE  LET r == ReleasePairs(s, P)
         IN Goes(E, s, r, {}) /\ \A t \in Tracks : r.holds[t] = s.holds[t] \ P
<1> DEFINE holds == [t \in Tracks |-> s.holds[t] \ P]
           s1 == [s EXCEPT !.holds = holds]
           T == {t \in (UNION P) \cap DOMAIN s.intake : s1.holds[t] = {} /\ "hold" \in s.intake[t].why}
           r == Rearm(s1, T, "hold")
<1>1. s \in Memory /\ s.holds \in [Tracks -> SUBSET Pairs] /\ DOMAIN s.intake \subseteq Tracks
  BY MemoryFacts DEF Sane
<1>2. holds \in [Tracks -> SUBSET Pairs] /\ \A t \in Tracks : holds[t] = s.holds[t] \ P
  BY <1>1
<1> HIDE DEF holds
<1>3. /\ s1 \in Memory /\ s1.visible = s.visible /\ s1.ids = s.ids /\ s1.masters = s.masters
      /\ s1.bound = s.bound /\ s1.intake = s.intake /\ s1.holds = holds /\ s1.contest = s.contest
  BY <1>1, <1>2 DEF Memory
<1>4. \A t : t \in T <=> t \in UNION P /\ t \in DOMAIN s.intake /\ holds[t] = {} /\ "hold" \in s.intake[t].why
  BY <1>3
<1>5. ReleasePairs(s, P) = r
  BY DEF ReleasePairs, holds
<1> HIDE DEF s1, T
<1>6. /\ r \in Memory /\ DOMAIN r.intake = DOMAIN s.intake
      /\ r.visible = s.visible /\ r.ids = s.ids /\ r.masters = s.masters /\ r.bound = s.bound
      /\ r.holds = holds /\ r.contest = s.contest
      /\ \A t \in DOMAIN s.intake \ T : r.intake[t] = s.intake[t]
      /\ \A t \in DOMAIN s.intake \cap T : ~ r.intake[t].submitted
  BY <1>3, RearmFacts
<1> HIDE DEF r
<1>7. Sane(r, E)
  BY <1>2, <1>6 DEF Sane, Exist, States, Listed, Marked, InView, OwnHolds
<1>8. Heeds(s, r, {})
  <2> SUFFICES ASSUME NEW t \in DOMAIN r.intake, r.intake[t].submitted
               PROVE  /\ t \in DOMAIN s.intake /\ s.intake[t].submitted /\ r.intake[t].gen = s.intake[t].gen
                      /\ Waits(s, t) => Waits(r, t)
    BY DEF Heeds
  <2>1. t \in DOMAIN s.intake /\ t \notin T /\ r.intake[t] = s.intake[t] /\ t \in Tracks
    BY <1>1, <1>6
  <2>2. ASSUME "hold" \in s.intake[t].why, s.holds[t] # {}
        PROVE  r.holds[t] # {}
    <3> SUFFICES ASSUME holds[t] = {} PROVE FALSE
      BY <1>6
    <3>1. PICK p \in s.holds[t] : p \in P
      BY <1>2, <2>1, <2>2
    <3>2. t \in p
      BY <2>1 DEF Sane, OwnHolds
    <3> QED BY <1>4, <2>1, <2>2, <3>1, <3>2
  <2> QED BY <1>6, <2>1, <2>2 DEF Waits
<1>9. Whole(s, r)
  BY <1>6 DEF Whole
<1> QED BY <1>2, <1>5, <1>6, <1>7, <1>8, <1>9 DEF Goes

\* hold_new_master_creation takes nothing away.
LEMMA HoldFacts ==
  ASSUME NEW E, NEW s, Sane(s, E), NEW p \in Pairs
  PROVE  LET r == HoldPair(s, p)
         IN /\ Sane(r, E) /\ Heeds(s, r, {}) /\ Whole(s, r)
            /\ \A t \in Tracks : r.holds[t] \subseteq s.holds[t] \cup {p}
<1> DEFINE holds == [t \in Tracks |-> IF t \in p \ DOMAIN s.bound THEN s.holds[t] \cup {p} ELSE s.holds[t]]
           r == [s EXCEPT !.holds = holds]
<1>1. s \in Memory /\ s.holds \in [Tracks -> SUBSET Pairs] /\ DOMAIN s.intake \subseteq Tracks
  BY MemoryFacts DEF Sane
<1>2. /\ holds \in [Tracks -> SUBSET Pairs]
      /\ \A t \in Tracks : s.holds[t] \subseteq holds[t] /\ holds[t] \subseteq s.holds[t] \cup {p}
      /\ \A t \in Tracks : p \in holds[t] => t \in p \/ p \in s.holds[t]
  BY <1>1
<1>3. HoldPair(s, p) = r
  BY DEF HoldPair
<1> HIDE DEF holds
<1>4. /\ r \in Memory /\ r.visible = s.visible /\ r.ids = s.ids /\ r.masters = s.masters
      /\ r.bound = s.bound /\ r.intake = s.intake /\ r.holds = holds /\ r.contest = s.contest
  BY <1>1, <1>2 DEF Memory
<1> HIDE DEF r
<1>5. OwnHolds(r)
  <2> SUFFICES ASSUME NEW t \in Tracks, NEW q \in r.holds[t] PROVE t \in q
    BY DEF OwnHolds
  <2>1. q \in s.holds[t] \/ t \in q
    BY <1>2, <1>4
  <2> QED BY <2>1 DEF Sane, OwnHolds
<1>6. Sane(r, E)
  BY <1>4, <1>5 DEF Sane, Exist, States, Listed, Marked, InView
<1>7. Heeds(s, r, {})
  <2>1. ASSUME NEW t \in DOMAIN s.intake, Waits(s, t)
        PROVE  Waits(r, t)
    <3>1. s.holds[t] \subseteq r.holds[t]
      BY <1>1, <1>2, <1>4
    <3> QED BY <1>4, <2>1, <3>1 DEF Waits
  <2> QED BY <1>4, <2>1 DEF Heeds
<1>8. Whole(s, r)
  BY <1>4 DEF Whole
<1> QED BY <1>2, <1>3, <1>4, <1>6, <1>7, <1>8

LEMMA OlderFacts ==
  ASSUME NEW hold \in Dict(Pairs, Hold),
         \A p \in DOMAIN hold : hold[p].age < HoldMax /\ hold[p].grace <= HoldGrace + 1
  PROVE  Older(hold) \in Dict(Pairs, Hold) /\ DOMAIN Older(hold) = DOMAIN hold
<1> DEFINE f == Older(hold)
<1>1. DOMAIN hold \subseteq Pairs /\ \A p \in DOMAIN hold : hold[p] \in Hold
  BY DictFacts
<1>2. DOMAIN f = DOMAIN hold /\ f = [p \in DOMAIN f |-> f[p]]
  BY DEF Older
<1>3. ASSUME NEW p \in DOMAIN f
      PROVE  f[p] \in Hold
  <2>1. /\ hold[p].age \in Nat /\ hold[p].grace \in Nat /\ hold[p].age < HoldMax
        /\ hold[p].grace <= HoldGrace + 1 /\ HoldMax \in Nat /\ HoldGrace \in Nat
    BY <1>1, <1>2, CoordinatorAssumption DEF Hold
  <2>2. f[p] = [age |-> hold[p].age + 1, grace |-> IF hold[p].grace = 0 THEN 0 ELSE hold[p].grace + 1]
    BY <1>2 DEF Older
  <2>3. hold[p].age + 1 \in 0..HoldMax
    BY <2>1
  <2>4. (IF hold[p].grace = 0 THEN 0 ELSE hold[p].grace + 1) \in 0..HoldGrace + 2
    BY <2>1
  <2> QED BY <2>2, <2>3, <2>4 DEF Hold
<1> HIDE DEF f
<1>4. f \in Dict(Pairs, Hold)
  BY <1>1, <1>2, <1>3, DictFacts
<1> QED BY <1>2, <1>4 DEF f

LEMMA GraceFacts ==
  ASSUME NEW hold \in Dict(Pairs, Hold), NEW P
  PROVE  /\ BeginGrace(hold, P) \in Dict(Pairs, Hold) /\ DOMAIN BeginGrace(hold, P) = DOMAIN hold
<1> DEFINE f == BeginGrace(hold, P)
<1>1. DOMAIN hold \subseteq Pairs /\ \A p \in DOMAIN hold : hold[p] \in Hold
  BY DictFacts
<1>2. DOMAIN f = DOMAIN hold /\ f = [p \in DOMAIN f |-> f[p]]
  BY DEF BeginGrace
<1>3. \A p \in DOMAIN f : f[p] \in Hold
  <2>1. 1 \in 0..HoldGrace + 2
    BY CoordinatorAssumption
  <2> QED BY <1>1, <2>1 DEF BeginGrace, Hold
<1> HIDE DEF f
<1>4. f \in Dict(Pairs, Hold)
  BY <1>1, <1>2, <1>3, DictFacts
<1> QED BY <1>2, <1>4 DEF f

\* A step of the update.
LEMMA UpdateStep ==
  ASSUME Ordered, UNCHANGED <<queue, worker, slipped>>, Sane(mem', slipped), Heeds(mem, mem', {}),
         Whole(mem, mem'), co' \in Coordinator, HoldsKnown', Young'
  PROVE  Ordered' /\ Whole(mem, mem')
<1>1. Working' /\ Tasks' = Tasks /\ Due(mem, Tasks) /\ slipped' \subseteq Tracks /\ Sane(mem, slipped)'
  BY StillWorking DEF Ordered
<1>2. Due(mem', Tasks)
  BY <1>1, DueFacts
<1> QED BY <1>1, <1>2 DEF Ordered

\* The coordinator's types, one field at a time.
LEMMA CoordinatorFacts ==
  ASSUME Ordered
  PROVE  /\ co.streak \in [Pairs -> 0..ConfirmAt] /\ co.hold \in Dict(Pairs, Hold) /\ DOMAIN co.hold \subseteq Pairs
         /\ co.seen \subseteq Pairs /\ co.todo \subseteq Pairs /\ co.pair \in {{}} \cup Pairs
         /\ co.shared \subseteq Groups \cup Masters
         /\ mem \in Memory /\ Sane(mem, slipped) /\ HoldsKnown /\ Young /\ co \in Coordinator
<1>1. co \in Coordinator /\ mem \in Memory /\ Sane(mem, slipped) /\ HoldsKnown /\ Young
  BY DEF Ordered, Sane
<1>2. /\ co.streak \in [Pairs -> 0..ConfirmAt] /\ co.hold \in Dict(Pairs, Hold)
      /\ co.seen \subseteq Pairs /\ co.todo \subseteq Pairs /\ co.pair \in {{}} \cup Pairs
      /\ co.shared \subseteq Groups \cup Masters
  BY <1>1 DEF Coordinator, Dict
<1> QED BY <1>1, <1>2, DictFacts

\* A pair is a set of tracks.
LEMMA PairFacts == ASSUME NEW p \in {{}} \cup Pairs PROVE p \in SUBSET Tracks
BY DEF Pairs

LEMMA SharedFacts ==
  ASSUME NEW s \in Memory, NEW p
  PROVE  Shared(s, p) \subseteq Groups \cup Masters
BY MemoryFacts DEF Shared, IdOf, Id

\* What the evaluation of the pairs comes to.
Evaluated(seen, different, near, kept) ==
  LET hold == Older(co.hold)
      dropped == different \cup (near \ kept)
  IN /\ mem' = ReleaseHolds(mem, hold, dropped)
     /\ co' = [co EXCEPT
          !.pc = "pairs", !.seen = seen, !.todo = kept,
          !.streak = [p \in Pairs |-> IF p \in kept THEN co.streak[p] ELSE 0],
          !.hold = BeginGrace(Without(hold, dropped), seen \ (near \cup different))]

LEMMA EvaluationKeeps ==
  ASSUME Ordered, Evaluation
  PROVE  Ordered' /\ Whole(mem, mem')
<1>1. /\ co.streak \in [Pairs -> 0..ConfirmAt] /\ co.hold \in Dict(Pairs, Hold) /\ Sane(mem, slipped) /\ HoldsKnown
      /\ co \in Coordinator /\ UNCHANGED <<queue, worker, slipped>>
      /\ \A p \in DOMAIN co.hold : co.hold[p].age < HoldMax /\ co.hold[p].grace <= HoldGrace + 1
  BY CoordinatorFacts DEF Evaluation, Young
<1>2. PICK seen \in SUBSET Pairs, different \in SUBSET Pairs, near \in SUBSET Pairs, kept \in SUBSET Pairs :
        Evaluated(seen, different, near, kept)
  <2>1. PICK points \in SUBSET mem.visible :
          LET seen == {p \in Pairs : p \subseteq points}
              different == {p \in seen : Different(p)}
          IN \E near \in SUBSET (seen \ different) :
               \E selected \in BestPairs(near) :
                 \E ambiguous \in SUBSET Contended(near, selected) :
                   Evaluated(seen, different, near, selected \ ambiguous)
    BY DEF Evaluation, Evaluated
  <2> DEFINE seen == {p \in Pairs : p \subseteq points}
             different == {p \in seen : Different(p)}
  <2>2. seen \in SUBSET Pairs /\ different \in SUBSET Pairs
    OBVIOUS
  <2>3. \E near \in SUBSET (seen \ different) :
          \E selected \in BestPairs(near) :
            \E ambiguous \in SUBSET Contended(near, selected) :
              Evaluated(seen, different, near, selected \ ambiguous)
    BY <2>1
  <2> HIDE DEF seen, different
  <2>4. PICK near \in SUBSET (seen \ different) :
          \E selected \in BestPairs(near) :
            \E ambiguous \in SUBSET Contended(near, selected) :
              Evaluated(seen, different, near, selected \ ambiguous)
    BY <2>3
  <2>5. PICK selected \in BestPairs(near) :
          \E ambiguous \in SUBSET Contended(near, selected) : Evaluated(seen, different, near, selected \ ambiguous)
    BY <2>4
  <2>6. PICK ambiguous : Evaluated(seen, different, near, selected \ ambiguous)
    BY <2>5
  <2>7. near \in SUBSET Pairs /\ selected \ ambiguous \in SUBSET Pairs
    BY <2>2 DEF BestPairs
  <2> QED BY <2>2, <2>6, <2>7
<1>3. PICK older : older = Older(co.hold)
  OBVIOUS
<1>4. older \in Dict(Pairs, Hold) /\ DOMAIN older = DOMAIN co.hold
  BY <1>1, <1>3, OlderFacts
<1> DEFINE dropped == different \cup (near \ kept)
           P == dropped \cap DOMAIN older
           waiting == Without(older, dropped)
           hold == BeginGrace(waiting, seen \ (near \cup different))
<1>5. Goes(slipped, mem, mem', {}) /\ \A t \in Tracks : mem'.holds[t] = mem.holds[t] \ P
  <2>1. PICK r : r = ReleasePairs(mem, P)
    OBVIOUS
  <2>2. mem' = r
    BY <1>2, <1>3, <2>1 DEF ReleaseHolds, Evaluated
  <2> HIDE DEF P
  <2> QED BY <1>1, <2>1, <2>2, ReleaseFacts
<1>6. hold \in Dict(Pairs, Hold) /\ DOMAIN hold = DOMAIN co.hold \ dropped
  <2> HIDE DEF dropped
  <2>1. waiting \in Dict(Pairs, Hold)
    BY <1>4, WithoutFacts
  <2>2. DOMAIN waiting = DOMAIN older \ dropped
    BY WithoutDomain
  <2> HIDE DEF waiting
  <2> QED BY <1>4, <2>1, <2>2, GraceFacts
<1>7. PICK streak : streak = [p \in Pairs |-> IF p \in kept THEN co.streak[p] ELSE 0]
  OBVIOUS
<1>8. co' = [co EXCEPT !.pc = "pairs", !.seen = seen, !.todo = kept, !.streak = streak, !.hold = hold]
  BY <1>2, <1>3, <1>7 DEF Evaluated
<1> HIDE DEF hold
<1>9. co' \in Coordinator /\ co'.hold = hold /\ co'.pc = "pairs"
  <2>1. streak \in [Pairs -> 0..ConfirmAt]
    BY <1>1, <1>7, CoordinatorAssumption
  <2>2. hold \in UNION {[S -> Hold] : S \in SUBSET Pairs}
    BY <1>6 DEF Dict
  <2> QED BY <1>1, <1>8, <2>1, <2>2 DEF Coordinator
<1>10. HoldsKnown' /\ Young'
  BY <1>1, <1>4, <1>5, <1>6, <1>9 DEF HoldsKnown, Young
<1> QED BY <1>1, <1>5, <1>9, <1>10, UpdateStep DEF Goes

LEMMA AdvanceKeeps ==
  ASSUME Ordered, NEW p \in Pairs, Advance(p)
  PROVE  Ordered' /\ Whole(mem, mem')
<1>1. PICK moved \in BOOLEAN :
        LET streak == NextStreak(p, moved)
            shared == Shared(mem, p)
            valid == ~moved /\ shared = {}
        IN /\ co' = [co EXCEPT
                !.todo = co.todo \ {p}, !.pair = p, !.shared = shared, !.streak = [co.streak EXCEPT ![p] = streak],
                !.hold = IF valid THEN Held(co.hold, p) ELSE Without(co.hold, {p}),
                !.pc = IF shared # {} THEN "note"
                       ELSE IF valid /\ streak >= Required THEN "request" ELSE "pairs"]
           /\ mem' = IF ~valid THEN ReleaseHolds(mem, co.hold, {p})
                     ELSE IF p \in DOMAIN co.hold THEN mem ELSE HoldPair(mem, p)
  BY DEF Advance
<1> DEFINE streak == NextStreak(p, moved)
           shared == Shared(mem, p)
           valid == ~moved /\ shared = {}
           hold == IF valid THEN Held(co.hold, p) ELSE Without(co.hold, {p})
           pc == IF shared # {} THEN "note" ELSE IF valid /\ streak >= Required THEN "request" ELSE "pairs"
<1>2. /\ co.streak \in [Pairs -> 0..ConfirmAt] /\ co.hold \in Dict(Pairs, Hold) /\ DOMAIN co.hold \subseteq Pairs
      /\ co.todo \subseteq Pairs /\ mem \in Memory /\ Sane(mem, slipped) /\ HoldsKnown
      /\ co \in Coordinator /\ UNCHANGED <<queue, worker, slipped>>
  BY CoordinatorFacts DEF Advance
<1>3. co' = [co EXCEPT !.todo = co.todo \ {p}, !.pair = p, !.shared = shared,
                       !.streak = [co.streak EXCEPT ![p] = streak], !.hold = hold, !.pc = pc]
  BY <1>1
<1>4. mem' = IF ~valid THEN ReleaseHolds(mem, co.hold, {p})
             ELSE IF p \in DOMAIN co.hold THEN mem ELSE HoldPair(mem, p)
  BY <1>1
<1>5. streak \in 0..ConfirmAt
  BY <1>2, CoordinatorAssumption DEF NextStreak
<1>6. shared \subseteq Groups \cup Masters
  BY <1>2, SharedFacts
<1>7. pc \in {"note", "request", "pairs"}
  OBVIOUS
<1>8. /\ hold \in Dict(Pairs, Hold)
      /\ DOMAIN hold = IF valid THEN DOMAIN co.hold \cup {p} ELSE DOMAIN co.hold \ {p}
  <2>1. CASE ~ valid
    <3>1. hold = Without(co.hold, {p})
      BY <2>1
    <3>2. DOMAIN Without(co.hold, {p}) = DOMAIN co.hold \ {p}
      BY WithoutDomain
    <3> QED BY <1>2, <2>1, <3>1, <3>2, WithoutFacts
  <2>2. CASE valid
    <3> DEFINE entry == [age |-> IF p \in DOMAIN co.hold THEN co.hold[p].age ELSE 0, grace |-> 0]
    <3>1. hold = Set(co.hold, p, entry)
      BY <2>2 DEF Held
    <3>2. entry \in Hold
      <4>1. p \in DOMAIN co.hold => co.hold[p] \in Hold
        BY <1>2, DictFacts
      <4>2. 0 \in 0..HoldMax /\ 0 \in 0..HoldGrace + 2
        BY CoordinatorAssumption
      <4> QED BY <4>1, <4>2 DEF Hold
    <3> HIDE DEF entry
    <3>3. Set(co.hold, p, entry) \in Dict(Pairs, Hold)
      BY <1>2, <3>2, SetFacts
    <3>4. DOMAIN Set(co.hold, p, entry) = DOMAIN co.hold \cup {p}
      BY DEF Set
    <3> HIDE DEF valid, hold
    <3> QED BY <2>2, <3>1, <3>3, <3>4
  <2> QED BY <2>1, <2>2
<1> HIDE DEF streak, shared, hold, pc, valid
<1>9. co' \in Coordinator /\ co'.hold = hold /\ co'.pc # "idle"
  <2>1. hold \in UNION {[S -> Hold] : S \in SUBSET Pairs}
    BY <1>8 DEF Dict
  <2>2. [co.streak EXCEPT ![p] = streak] \in [Pairs -> 0..ConfirmAt]
    BY <1>2, <1>5
  <2> QED BY <1>2, <1>3, <1>6, <1>7, <2>1, <2>2 DEF Coordinator
<1>10. /\ Sane(mem', slipped) /\ Heeds(mem, mem', {}) /\ Whole(mem, mem')
       /\ \A t \in Tracks : mem'.holds[t] \subseteq DOMAIN hold
  <2>1. CASE ~ valid
    <3>1. PICK r : r = ReleasePairs(mem, {p} \cap DOMAIN co.hold)
      OBVIOUS
    <3>2. mem' = r
      BY <1>4, <2>1, <3>1 DEF ReleaseHolds
    <3>3. Goes(slipped, mem, r, {}) /\ \A t \in Tracks : r.holds[t] = mem.holds[t] \ ({p} \cap DOMAIN co.hold)
      BY <1>2, <3>1, ReleaseFacts
    <3> QED BY <1>2, <1>8, <2>1, <3>2, <3>3 DEF Goes, HoldsKnown
  <2>2. CASE valid /\ p \in DOMAIN co.hold
    <3>1. mem' = mem
      BY <1>4, <2>2
    <3> QED BY <1>2, <1>8, <2>2, <3>1 DEF HoldsKnown, Heeds, Whole
  <2>3. CASE valid /\ p \notin DOMAIN co.hold
    <3>1. PICK r : r = HoldPair(mem, p)
      OBVIOUS
    <3>2. mem' = r
      BY <1>4, <2>3, <3>1
    <3>3. /\ Sane(r, slipped) /\ Heeds(mem, r, {}) /\ Whole(mem, r)
          /\ \A t \in Tracks : r.holds[t] \subseteq mem.holds[t] \cup {p}
      BY <1>2, <3>1, HoldFacts
    <3> QED BY <1>2, <1>8, <2>3, <3>2, <3>3 DEF HoldsKnown
  <2> QED BY <2>1, <2>2, <2>3
<1>11. HoldsKnown' /\ Young'
  BY <1>9, <1>10 DEF HoldsKnown, Young
<1> QED BY <1>2, <1>9, <1>10, <1>11, UpdateStep

LEMMA RequestKeeps ==
  ASSUME Ordered, Request
  PROVE  Ordered' /\ Whole(mem, mem')
<1>1. /\ mem' \in CreatePair(mem, co.pair) /\ co' = [co EXCEPT !.pc = "settle"]
      /\ UNCHANGED <<queue, worker, slipped>>
  BY DEF Request
<1>2. co.pair \in SUBSET Tracks /\ Sane(mem, slipped) /\ co \in Coordinator /\ HoldsKnown
  BY CoordinatorFacts, PairFacts
<1>3. Orderly(slipped, mem, mem', {}) /\ Whole(mem, mem')
  BY <1>1, <1>2, CreatePairFacts
<1>4. Goes(slipped, mem, mem', {})
  BY <1>3, OrderlyGoes
<1>5. co' \in Coordinator /\ co'.hold = co.hold /\ co'.pc # "idle"
  BY <1>1, <1>2 DEF Coordinator
<1>6. HoldsKnown' /\ Young'
  BY <1>2, <1>4, <1>5 DEF HoldsKnown, Young, Goes
<1> QED BY <1>1, <1>4, <1>5, <1>6, UpdateStep DEF Goes

LEMMA NoteKeeps ==
  ASSUME Ordered, Note
  PROVE  Ordered' /\ Whole(mem, mem')
<1>1. PICK i \in co.shared : mem' \in NoteMatch(mem, i, co.streak[co.pair], ConfirmAt, co.pair)
  BY DEF Note
<1>2. co' = [co EXCEPT !.pc = "pairs"] /\ UNCHANGED <<queue, worker, slipped>>
  BY DEF Note
<1>3. co.pair \in SUBSET Tracks /\ Sane(mem, slipped) /\ co \in Coordinator /\ HoldsKnown
  BY CoordinatorFacts, PairFacts
<1>4. Orderly(slipped, mem, mem', {}) /\ Whole(mem, mem')
  BY <1>1, <1>3, NoteMatchFacts
<1>5. Goes(slipped, mem, mem', {})
  BY <1>4, OrderlyGoes
<1>6. co' \in Coordinator /\ co'.hold = co.hold /\ co'.pc # "idle"
  BY <1>2, <1>3 DEF Coordinator
<1>7. HoldsKnown' /\ Young'
  BY <1>3, <1>5, <1>6 DEF HoldsKnown, Young, Goes
<1> QED BY <1>2, <1>5, <1>6, <1>7, UpdateStep DEF Goes

LEMMA SettleKeeps ==
  ASSUME Ordered, Settle
  PROVE  Ordered' /\ Whole(mem, mem')
<1> DEFINE P == {co.pair} \cap DOMAIN co.hold
           shared == Shared(mem, co.pair)
           hold == Without(co.hold, {co.pair})
           pc == IF shared = {} THEN "pairs" ELSE "note"
<1>1. /\ co' = [co EXCEPT !.shared = shared, !.hold = hold, !.pc = pc]
      /\ mem' = ReleasePairs(mem, P) /\ UNCHANGED <<queue, worker, slipped>>
  BY DEF Settle, ReleaseHolds
<1>2. co.hold \in Dict(Pairs, Hold) /\ mem \in Memory /\ Sane(mem, slipped) /\ co \in Coordinator /\ HoldsKnown
  BY CoordinatorFacts
<1>3. pc \in {"pairs", "note"} /\ shared \subseteq Groups \cup Masters
  BY <1>2, SharedFacts
<1>4. hold \in Dict(Pairs, Hold) /\ DOMAIN hold = DOMAIN co.hold \ {co.pair}
  BY <1>2, WithoutFacts, WithoutDomain
<1> HIDE DEF shared, hold, pc
<1>5. co' \in Coordinator /\ co'.hold = hold /\ co'.pc # "idle"
  <2>1. hold \in UNION {[S -> Hold] : S \in SUBSET Pairs}
    BY <1>4 DEF Dict
  <2> QED BY <1>1, <1>2, <1>3, <2>1 DEF Coordinator
<1>6. Goes(slipped, mem, mem', {}) /\ \A t \in Tracks : mem'.holds[t] = mem.holds[t] \ P
  <2> HIDE DEF P
  <2>1. PICK r : r = ReleasePairs(mem, P)
    OBVIOUS
  <2>2. Goes(slipped, mem, r, {}) /\ \A t \in Tracks : r.holds[t] = mem.holds[t] \ P
    BY <1>2, <2>1, ReleaseFacts
  <2> QED BY <1>1, <2>1, <2>2
<1>7. HoldsKnown' /\ Young'
  BY <1>2, <1>4, <1>5, <1>6 DEF HoldsKnown, Young
<1> QED BY <1>1, <1>5, <1>6, <1>7, UpdateStep DEF Goes

LEMMA ConcludeKeeps ==
  ASSUME Ordered, Conclude
  PROVE  Ordered' /\ Whole(mem, mem')
<1>1. PICK older : older = BeginGrace(co.hold, Pairs \ co.seen)
  OBVIOUS
<1> DEFINE over == Expired(older)
           P == over \cap DOMAIN older
           hold == Without(older, over)
<1>2. /\ mem' = ReleasePairs(mem, P)
      /\ co' = [co EXCEPT !.pc = "idle", !.hold = hold, !.seen = {}, !.pair = {}, !.shared = {}]
      /\ UNCHANGED <<queue, worker, slipped>>
  BY <1>1 DEF Conclude, ReleaseHolds
<1>3. co.hold \in Dict(Pairs, Hold) /\ mem \in Memory /\ Sane(mem, slipped) /\ co \in Coordinator /\ HoldsKnown
  BY CoordinatorFacts
<1>4. older \in Dict(Pairs, Hold) /\ DOMAIN older = DOMAIN co.hold /\ \A p \in DOMAIN older : older[p] \in Hold
  <2>1. older \in Dict(Pairs, Hold) /\ DOMAIN older = DOMAIN co.hold
    BY <1>1, <1>3, GraceFacts
  <2> QED BY <2>1, DictFacts
<1>5. \A p \in DOMAIN older \ over : older[p].age < HoldMax /\ older[p].grace <= HoldGrace + 1
  <2> SUFFICES ASSUME NEW p \in DOMAIN older \ over
               PROVE  older[p].age < HoldMax /\ older[p].grace <= HoldGrace + 1
    OBVIOUS
  <2>1. ~ (older[p].age >= HoldMax) /\ ~ (older[p].grace > HoldGrace + 1)
    BY DEF Expired
  <2>2. older[p].age \in Nat /\ older[p].grace \in Nat /\ HoldMax \in Nat /\ HoldGrace \in Nat
    BY <1>4, CoordinatorAssumption DEF Hold
  <2> QED BY <2>1, <2>2
<1> HIDE DEF over
<1>6. hold \in Dict(Pairs, Hold) /\ DOMAIN hold = DOMAIN older \ over /\ \A p \in DOMAIN hold : hold[p] = older[p]
  <2>1. hold \in Dict(Pairs, Hold)
    BY <1>4, WithoutFacts
  <2>2. DOMAIN hold = DOMAIN older \ over /\ \A p \in DOMAIN hold : hold[p] = older[p]
    BY WithoutDomain
  <2> QED BY <2>1, <2>2
<1> HIDE DEF hold
<1>7. co' \in Coordinator /\ co'.hold = hold
  <2>1. hold \in UNION {[S -> Hold] : S \in SUBSET Pairs}
    BY <1>6 DEF Dict
  <2> QED BY <1>2, <1>3, <2>1 DEF Coordinator
<1>8. Goes(slipped, mem, mem', {}) /\ \A t \in Tracks : mem'.holds[t] = mem.holds[t] \ P
  <2> HIDE DEF P
  <2>1. PICK r : r = ReleasePairs(mem, P)
    OBVIOUS
  <2>2. Goes(slipped, mem, r, {}) /\ \A t \in Tracks : r.holds[t] = mem.holds[t] \ P
    BY <1>3, <2>1, ReleaseFacts
  <2> QED BY <1>2, <2>1, <2>2
<1>9. HoldsKnown' /\ Young'
  BY <1>3, <1>4, <1>5, <1>6, <1>7, <1>8 DEF HoldsKnown, Young
<1> QED BY <1>2, <1>7, <1>8, <1>9, UpdateStep DEF Goes

-----------------------------------------------------------------------------
(* The theorems.                                                            *)

LEMMA InitOrdered == Init => Ordered
<1> SUFFICES ASSUME Init PROVE Ordered
  OBVIOUS
<1>1. PICK c \in Cameras :
        mem = [visible |-> {}, ids |-> [m \in 1..Known |-> NewRecord("confirmed", {c})], masters |-> Known,
               bound |-> << >>, done |-> {}, gen |-> [t \in Tracks |-> 0], intake |-> << >>, staged |-> {},
               rivals |-> << >>, holds |-> [t \in Tracks |-> {}], barred |-> [t \in Tracks |-> {}],
               contest |-> << >>]
  BY DEF Init, MemInit
<1>2. queue = << >> /\ worker = << >> /\ slipped = {} /\ co = Idle
  BY DEF Init, MemInit
<1> DEFINE new == NewRecord("confirmed", {c})
           ids == [m \in 1..Known |-> new]
<1>3. new \in Record /\ new.state = "confirmed" /\ Marks(new) = {}
  BY DEF NewRecord, Record, Marks
<1> HIDE DEF new
<1>4. 1..Known \subseteq Masters /\ Known \in 0..MaxMasters
  BY ProvisionalAssumption DEF Masters
<1>5. ids \in Dict(Id, Record) /\ DOMAIN ids = 1..Known /\ \A m \in 1..Known : ids[m] = new
  <2>1. ids \in [1..Known -> Record] /\ 1..Known \subseteq Id
    BY <1>3, <1>4 DEF Id
  <2> QED BY <2>1 DEF Dict
<1> HIDE DEF ids
<1>6. /\ mem.visible = {} /\ mem.ids = ids /\ mem.masters = Known /\ mem.bound = << >> /\ mem.intake = << >>
      /\ mem.contest = << >> /\ mem.holds = [t \in Tracks |-> {}]
  BY <1>1 DEF ids, new
<1>7. mem \in Memory
  <2>1. /\ << >> \in Dict(Tracks, Id) /\ << >> \in Dict(Tracks, Intake) /\ << >> \in Dict(Tracks, Rival)
        /\ << >> \in Dict(Masters, Contest)
    BY EmptyFacts
  <2> QED BY <1>1, <1>4, <1>5, <2>1 DEF Memory, ids, new
<1>8. DOMAIN mem.bound = {} /\ DOMAIN mem.intake = {} /\ DOMAIN mem.contest = {}
  BY <1>6, EmptyFacts
<1>9. Sane(mem, slipped)
  <2>1. Exist(mem) /\ Listed(mem) /\ InView(mem) /\ OwnHolds(mem)
    BY <1>5, <1>6, <1>8 DEF Exist, Listed, InView, OwnHolds
  <2>2. States(mem) /\ Marked(mem, slipped)
    BY <1>3, <1>4, <1>5, <1>6 DEF States, Marked
  <2> QED BY <1>7, <2>1, <2>2 DEF Sane
<1>10. Working
  <2>1. DOMAIN queue = {}
    BY <1>2
  <2> QED BY <1>2, <2>1 DEF Working, Tasks
<1>11. co \in Coordinator /\ co.hold = << >>
  <2>1. << >> \in UNION {[S -> Hold] : S \in SUBSET Pairs}
    BY EmptyFacts DEF Dict
  <2>2. [p \in Pairs |-> 0] \in [Pairs -> 0..ConfirmAt]
    BY CoordinatorAssumption
  <2> QED BY <1>2, <2>1, <2>2 DEF Idle, Coordinator
<1>12. HoldsKnown /\ Young
  BY <1>6, <1>11, EmptyFacts DEF HoldsKnown, Young
<1> QED BY <1>2, <1>8, <1>9, <1>10, <1>11, <1>12 DEF Ordered, Due

LEMMA NextOrdered ==
  ASSUME Ordered, [Next]_vars
  PROVE  Ordered' /\ Whole(mem, mem')
<1>1. CASE UNCHANGED vars
  <2>1. UNCHANGED <<mem, queue, worker, slipped, co>>
    BY <1>1 DEF vars
  <2>2. Working' /\ Tasks' = Tasks
    BY <2>1, StillWorking DEF Ordered
  <2> QED BY <2>1, <2>2, TaskStep DEF Ordered
<1>2. CASE Next
  BY <1>2, CameraLoopKeeps, WorkerKeeps, EvaluationKeeps, AdvanceKeeps, RequestKeeps, SettleKeeps, NoteKeeps,
     ConcludeKeeps DEF Next, Update
<1> QED BY <1>1, <1>2

THEOREM Invariant == Spec => []Ordered
<1>1. Ordered /\ [Next]_vars => Ordered'
  BY NextOrdered
<1> QED BY InitOrdered, <1>1, PTL DEF Spec

LEMMA OrderedTypes == Ordered => TypeOK
<1> SUFFICES ASSUME Ordered PROVE TypeOK
  OBVIOUS
<1>1. mem \in Memory /\ co \in Coordinator /\ queue \in Seq(Task) /\ slipped \subseteq Tracks
      /\ (worker = <<>> \/ worker \in Task \X {"extracted", "ordinary"})
  BY DEF Ordered, Sane, Working
<1> QED BY <1>1, MemoryFacts DEF TypeOK, IsDict, Id, Rival

\* The types of the memory, of the queue, of the worker and of the coordinator; in
\* particular no hold outlives its hold_max_frames or its grace.
THEOREM TypeCorrect == Spec => []TypeOK
BY Invariant, OrderedTypes, PTL

LEMMA OrderedMembers == Ordered => MembershipAgrees
<1> SUFFICES ASSUME Ordered PROVE MembershipAgrees
  OBVIOUS
<1>1. Listed(mem) /\ Marked(mem, slipped)
  BY DEF Ordered, Sane
<1>2. \A g \in DOMAIN mem.ids \cap Groups : BoundTo(mem, g) \subseteq mem.ids[g].members
  BY <1>1 DEF Listed, BoundTo
<1>3. \A i \in DOMAIN mem.ids :
        (mem.ids[i].pending \cup mem.ids[i].doubted \cup mem.ids[i].refused) \ slipped \subseteq LiveMembers(mem, i)
  BY <1>1 DEF Marked, Marks, LiveMembers, BoundTo
<1> QED BY <1>2, <1>3 DEF MembershipAgrees

\* What a record says of its members and what the tracks are bound to agree, however
\* pairs, answers, merges, promotions, contests and clearings follow each other.
THEOREM MembersAgree == Spec => []MembershipAgrees
BY Invariant, OrderedMembers, PTL

LEMMA OrderedIntakes == Ordered => IntakeAnswered
<1> SUFFICES ASSUME Ordered, NEW t \in DOMAIN mem.intake, mem.intake[t].submitted
             PROVE  \/ \E task \in Tasks :
                         task.type = "intake" /\ task.track = t /\ task.gen = mem.intake[t].gen
                    \/ "hold" \in mem.intake[t].why /\ mem.holds[t] # {} /\ mem.holds[t] \subseteq DOMAIN co.hold
                    \/ \E m \in DOMAIN mem.contest :
                         mem.contest[m].chal = t /\ mem.contest[m].gen = mem.intake[t].gen
  BY DEF IntakeAnswered
<1>1. Awaited(mem, t, Tasks) /\ HoldsKnown /\ t \in Tracks
  BY MemoryFacts DEF Ordered, Sane, Due
<1> QED BY <1>1 DEF Awaited, Waits, HoldsKnown

\* No submitted intake is forgotten by the coordinator, the worker or the camera loop.
THEOREM IntakesAnswered == Spec => []IntakeAnswered
BY Invariant, OrderedIntakes, PTL

LEMMA OrderedEnds ==
  ASSUME Ordered, [Next]_vars
  PROVE  \A g \in DOMAIN mem.ids \cap Groups : g \notin DOMAIN mem'.ids =>
           /\ BoundTo(mem', g) = {}
           /\ \A t, u \in BoundTo(mem, g) \cap DOMAIN mem'.bound : mem'.bound[t] = mem'.bound[u]
<1>1. Whole(mem, mem') /\ Exist(mem')
  BY NextOrdered DEF Ordered, Sane
<1> QED BY <1>1 DEF Whole, Exist, BoundTo

\* A group that ends, by promotion, merge, recovery, split or dissolution, takes its
\* tracks along.
THEOREM EndTogether == Spec => GroupsEndTogether
<1>1. Ordered /\ [Next]_vars =>
        [\A g \in DOMAIN mem.ids \cap Groups : g \notin DOMAIN mem'.ids =>
           /\ BoundTo(mem', g) = {}
           /\ \A t, u \in BoundTo(mem, g) \cap DOMAIN mem'.bound : mem'.bound[t] = mem'.bound[u]]_vars
  BY OrderedEnds
<1> QED BY Invariant, <1>1, PTL DEF Spec, GroupsEndTogether

-----------------------------------------------------------------------------
(* What a track gains and what is held against it: Frame says what one       *)
(* operator may change of both, Lawful what an outcome of a method may.      *)

(* What a record says against a member that is still to be confirmed.       *)
Sure(s, m) == s.ids[m].refused \cap (s.ids[m].pending \cup s.ids[m].doubted)

(* A track is barred from masters only, and contests none of them.          *)
Bars(s) ==
  /\ \A t \in Tracks : s.barred[t] \subseteq Masters \cap DOMAIN s.ids
  /\ \A m \in DOMAIN s.contest : m \notin s.barred[s.contest[m].chal]

(* The fields of a memory and of its records.                               *)
Shaped(s) ==
  /\ DOMAIN s = {"visible", "ids", "masters", "bound", "done", "gen", "intake", "staged",
                 "rivals", "holds", "barred", "contest"}
  /\ \A i \in DOMAIN s.ids :
       {"members", "pending", "doubted", "refused"} \subseteq DOMAIN s.ids[i]
  /\ DOMAIN s.barred = Tracks
  /\ \A m \in DOMAIN s.contest : s.contest[m].chal \in Tracks

(* From s to r a track gains no identity but those of K, a member that was   *)
(* doubted on good grounds stays so unless it is in X, and bars stay right.  *)
Frame(s, r, K, X) ==
  /\ Shaped(r)
  /\ \A t \in Tracks : \A i \in IdOf(r, t) : i \in IdOf(s, t) \/ <<t, i>> \in K
  /\ \A m \in Masters \cap DOMAIN s.ids : m \in DOMAIN r.ids /\ Sure(s, m) \ X \subseteq Sure(r, m)
  /\ Bars(s) => Bars(r)

LEMMA ShapedFacts == ASSUME NEW s \in Memory PROVE Shaped(s)
<1>1. DOMAIN s = {"visible", "ids", "masters", "bound", "done", "gen", "intake", "staged",
                 "rivals", "holds", "barred", "contest"}
  BY DEF Memory
<1>2. /\ DOMAIN s.barred = Tracks
      /\ \A i \in DOMAIN s.ids : s.ids[i] \in Record
      /\ \A m \in DOMAIN s.contest : s.contest[m] \in Contest
  BY MemoryFacts
<1> QED BY <1>1, <1>2 DEF Shaped, Record, Contest

LEMMA FrameSelf == ASSUME NEW s, Shaped(s), NEW K, NEW X PROVE Frame(s, s, K, X)
BY DEF Frame

LEMMA FrameMore ==
  ASSUME NEW s, NEW r, NEW J, NEW K, J \subseteq K, NEW W, NEW X, W \subseteq X, Frame(s, r, J, W)
  PROVE  Frame(s, r, K, X)
BY DEF Frame

LEMMA FrameOn ==
  ASSUME NEW s, NEW v, NEW r, NEW K, NEW X, Frame(s, v, K, X), Frame(v, r, K, X)
  PROVE  Frame(s, r, K, X)
BY DEF Frame

\* Fields that the frame does not look at.
LEMMA FrameBeside ==
  ASSUME NEW s, Shaped(s), NEW r, DOMAIN r = DOMAIN s, r.ids = s.ids, r.bound = s.bound, r.barred = s.barred, r.contest = s.contest
  PROVE  Frame(s, r, {}, {})
BY DEF Frame, Shaped, IdOf, Sure, Bars

LEMMA FrameRevise ==
  ASSUME NEW s, Shaped(s), NEW i, NEW record, NEW X,
         {"members", "pending", "doubted", "refused"} \subseteq DOMAIN record,
         i \in Masters \cap DOMAIN s.ids =>
           Sure(s, i) \ X \subseteq record.refused \cap (record.pending \cup record.doubted)
  PROVE  LET r == Revise(s, i, record)
         IN /\ Frame(s, r, {}, X) /\ DOMAIN r.ids = DOMAIN s.ids \cup {i} /\ r.ids[i] = record
            /\ \A j \in DOMAIN s.ids \ {i} : r.ids[j] = s.ids[j]
            /\ r = [s EXCEPT !.ids = r.ids]
<1> DEFINE r == Revise(s, i, record)
           ids == Set(s.ids, i, record)
<1>1. DOMAIN ids = DOMAIN s.ids \cup {i} /\ ids[i] = record /\ \A j \in DOMAIN s.ids \ {i} : ids[j] = s.ids[j]
  BY DEF Set
<1>2. r = [s EXCEPT !.ids = ids]
  BY DEF Revise
<1> HIDE DEF ids
<1>3. /\ DOMAIN r = DOMAIN s /\ r.ids = ids /\ r.visible = s.visible /\ r.bound = s.bound
      /\ r.barred = s.barred /\ r.contest = s.contest
  BY <1>2 DEF Shaped
<1> HIDE DEF r
<1>4. Shaped(r)
  BY <1>1, <1>3 DEF Shaped
<1>5. \A m \in Masters \cap DOMAIN s.ids : m \in DOMAIN r.ids /\ Sure(s, m) \ X \subseteq Sure(r, m)
  BY <1>1, <1>3 DEF Sure
<1>6. Bars(s) => Bars(r)
  BY <1>1, <1>3 DEF Bars
<1>7. Frame(s, r, {}, X)
  BY <1>3, <1>4, <1>5, <1>6 DEF Frame, IdOf
<1> QED BY <1>1, <1>2, <1>3, <1>7 DEF r

LEMMA FrameGrow ==
  ASSUME NEW s, Shaped(s), NEW i \in DOMAIN s.ids, NEW record, NEW X,
         {"members", "pending", "doubted", "refused"} \subseteq DOMAIN record,
         Sure(s, i) \ X \subseteq record.refused \cap (record.pending \cup record.doubted)
  PROVE  /\ Frame(s, Revise(s, i, record), {}, X) /\ Shaped(Revise(s, i, record))
         /\ DOMAIN Revise(s, i, record).ids = DOMAIN s.ids /\ Revise(s, i, record).ids[i] = record
         /\ \A j \in DOMAIN s.ids \ {i} : Revise(s, i, record).ids[j] = s.ids[j]
<1> DEFINE r == Revise(s, i, record)
<1>0. i \in Masters \cap DOMAIN s.ids =>
           Sure(s, i) \ X \subseteq record.refused \cap (record.pending \cup record.doubted)
  OBVIOUS
<1> HIDE DEF r
<1>1. /\ Frame(s, r, {}, X) /\ DOMAIN r.ids = DOMAIN s.ids \cup {i} /\ r.ids[i] = record
      /\ \A j \in DOMAIN s.ids \ {i} : r.ids[j] = s.ids[j]
  BY <1>0, FrameRevise DEF r
<1>2. Shaped(r)
  BY <1>1 DEF Frame
<1> QED BY <1>1, <1>2 DEF r

LEMMA FrameBind ==
  ASSUME NEW s, Shaped(s), NEW i, NEW T
  PROVE  LET r == BindTo(s, i, T)
         IN Frame(s, r, T \X {i}, {}) /\ r.ids = s.ids
<1> DEFINE r == BindTo(s, i, T)
           bound == [t \in DOMAIN s.bound \cup T |-> IF t \in T THEN i ELSE s.bound[t]]
<1>1. r = [s EXCEPT !.bound = bound, !.done = @ \ T]
  BY DEF BindTo
<1>2. DOMAIN bound = DOMAIN s.bound \cup T /\ \A t \in DOMAIN bound : bound[t] = IF t \in T THEN i ELSE s.bound[t]
  OBVIOUS
<1> HIDE DEF bound
<1>3. /\ DOMAIN r = DOMAIN s /\ r.ids = s.ids /\ r.visible = s.visible /\ r.bound = bound
      /\ r.barred = s.barred /\ r.contest = s.contest
  BY <1>1 DEF Shaped
<1> HIDE DEF r
<1>4. Shaped(r) /\ (Bars(s) => Bars(r))
  BY <1>3 DEF Shaped, Bars
<1>5. \A m \in Masters \cap DOMAIN s.ids : m \in DOMAIN r.ids /\ Sure(s, m) \ {} \subseteq Sure(r, m)
  BY <1>3 DEF Sure
<1>6. \A t \in Tracks : \A j \in IdOf(r, t) : j \in IdOf(s, t) \/ <<t, j>> \in T \X {i}
  <2> SUFFICES ASSUME NEW t \in Tracks, NEW j \in IdOf(r, t), t \in T => j # i
               PROVE  j \in IdOf(s, t)
    OBVIOUS
  <2> QED BY <1>2, <1>3 DEF IdOf
<1> QED BY <1>3, <1>4, <1>5, <1>6 DEF Frame, r

LEMMA FrameDrop ==
  ASSUME NEW s, Shaped(s), NEW g \in Groups
  PROVE  LET r == DropGroup(s, g)
         IN Frame(s, r, {}, {}) /\ DOMAIN r.ids = DOMAIN s.ids \ {g} /\ r.bound = s.bound
<1> DEFINE r == DropGroup(s, g)
           ids == Without(s.ids, {g})
<1>1. DOMAIN ids = DOMAIN s.ids \ {g} /\ \A i \in DOMAIN ids : ids[i] = s.ids[i]
  BY WithoutDomain
<1>2. r = [s EXCEPT !.ids = ids]
  BY DEF DropGroup
<1> HIDE DEF ids
<1>3. /\ DOMAIN r = DOMAIN s /\ r.ids = ids /\ r.visible = s.visible /\ r.bound = s.bound
      /\ r.barred = s.barred /\ r.contest = s.contest
  BY <1>2 DEF Shaped
<1> HIDE DEF r
<1>4. Shaped(r)
  BY <1>1, <1>3 DEF Shaped
<1>5. Bars(s) => Bars(r)
  BY <1>1, <1>3, NumberFacts DEF Bars
<1>6. \A m \in Masters \cap DOMAIN s.ids : m \in DOMAIN r.ids /\ Sure(s, m) \ {} \subseteq Sure(r, m)
  BY <1>1, <1>3, NumberFacts DEF Sure
<1> QED BY <1>1, <1>3, <1>4, <1>5, <1>6 DEF Frame, IdOf, r

LEMMA FrameRearm ==
  ASSUME NEW s, Shaped(s), NEW T, NEW flag
  PROVE  Frame(s, Rearm(s, T, flag), {}, {}) /\ Rearm(s, T, flag).bound = s.bound
                                             /\ Rearm(s, T, flag).ids = s.ids
<1> DEFINE r == Rearm(s, T, flag)
           intake == [t \in DOMAIN s.intake |->
                        IF t \in T THEN [s.intake[t] EXCEPT !.submitted = FALSE, !.why = @ \ {flag}]
                                   ELSE s.intake[t]]
<1>1. r = s \/ r = [s EXCEPT !.intake = intake]
  BY DEF Rearm
<1> HIDE DEF intake
<1>2. /\ DOMAIN r = DOMAIN s /\ r.ids = s.ids /\ r.visible = s.visible /\ r.bound = s.bound
      /\ r.barred = s.barred /\ r.contest = s.contest
  BY <1>1 DEF Shaped
<1> HIDE DEF r
<1> QED BY <1>2, FrameBeside DEF r

LEMMA FrameContests ==
  ASSUME NEW s, Shaped(s), NEW contest, DOMAIN contest \subseteq DOMAIN s.contest,
         \A m \in DOMAIN contest : contest[m] = s.contest[m]
  PROVE  LET r == [s EXCEPT !.contest = contest]
         IN Frame(s, r, {}, {}) /\ r.bound = s.bound /\ r.ids = s.ids
<1> DEFINE r == [s EXCEPT !.contest = contest]
<1>1. /\ DOMAIN r = DOMAIN s /\ r.ids = s.ids /\ r.visible = s.visible /\ r.bound = s.bound
      /\ r.barred = s.barred /\ r.contest = contest
  BY DEF Shaped
<1> HIDE DEF r
<1>2. Shaped(r)
  BY <1>1 DEF Shaped
<1>3. Bars(s) => Bars(r)
  BY <1>1 DEF Bars
<1> QED BY <1>1, <1>2, <1>3 DEF Frame, IdOf, Sure, r

LEMMA FrameCancel ==
  ASSUME NEW s, Shaped(s), NEW M
  PROVE  LET r == CancelContests(s, M)
         IN Frame(s, r, {}, {}) /\ r.bound = s.bound /\ r.ids = s.ids
<1> DEFINE ended == M \cap DOMAIN s.contest
           waiting == {t \in DOMAIN s.intake : \E m \in ended :
                         t = s.contest[m].chal /\ s.intake[t].gen = s.contest[m].gen}
           contest == Without(s.contest, ended)
           v == [s EXCEPT !.contest = contest]
<1>1. DOMAIN contest = DOMAIN s.contest \ ended /\ \A m \in DOMAIN contest : contest[m] = s.contest[m]
  BY WithoutDomain
<1>2. CancelContests(s, M) = Rearm(v, waiting, "contest")
  BY DEF CancelContests
<1> HIDE DEF contest, waiting
<1>3. Frame(s, v, {}, {}) /\ v.bound = s.bound /\ v.ids = s.ids
  BY <1>1, FrameContests
<1>4. Shaped(v)
  BY <1>3 DEF Frame
<1> HIDE DEF v
<1>5. /\ Frame(v, Rearm(v, waiting, "contest"), {}, {})
      /\ Rearm(v, waiting, "contest").bound = v.bound /\ Rearm(v, waiting, "contest").ids = v.ids
  BY <1>4, FrameRearm
<1>6. Frame(s, Rearm(v, waiting, "contest"), {}, {})
  BY <1>3, <1>5, FrameOn
<1> QED BY <1>2, <1>3, <1>5, <1>6

LEMMA FrameForget ==
  ASSUME NEW s, Shaped(s), NEW T, NEW X, \A t \in T \ X : IdOf(s, t) \cap Masters = {}
  PROVE  Frame(s, Forget(s, T), {}, X)
<1> DEFINE r == Forget(s, T)
           ids == [i \in DOMAIN s.ids |-> Less(s.ids[i], T \cap BoundTo(s, i))]
           bound == Without(s.bound, T)
<1>1. DOMAIN bound = DOMAIN s.bound \ T /\ \A t \in DOMAIN bound : bound[t] = s.bound[t]
  BY WithoutDomain DEF bound
<1>2. r.ids = ids /\ r.bound = bound /\ DOMAIN r = DOMAIN s /\ r.visible = s.visible
        /\ r.barred = s.barred /\ r.contest = s.contest
  BY DEF Forget, Shaped
<1>3. /\ DOMAIN ids = DOMAIN s.ids
      /\ \A i \in DOMAIN s.ids :
           /\ DOMAIN ids[i] = DOMAIN s.ids[i]
           /\ ids[i].pending = s.ids[i].pending \ (T \cap BoundTo(s, i))
           /\ ids[i].doubted = s.ids[i].doubted \ (T \cap BoundTo(s, i))
           /\ ids[i].refused = s.ids[i].refused \ (T \cap BoundTo(s, i))
  BY DEF Shaped, Less
<1> HIDE DEF r, ids, bound
<1>4. Shaped(r)
  BY <1>2, <1>3 DEF Shaped
<1>5. Bars(s) => Bars(r)
  BY <1>2, <1>3 DEF Bars
<1>6. ASSUME NEW m \in Masters \cap DOMAIN s.ids
      PROVE  m \in DOMAIN r.ids /\ Sure(s, m) \ X \subseteq Sure(r, m)
  <2>1. T \cap BoundTo(s, m) \subseteq X
    BY DEF IdOf, BoundTo
  <2> QED BY <2>1, <1>2, <1>3 DEF Sure
<1>7. \A t \in Tracks : IdOf(r, t) \subseteq IdOf(s, t)
  BY <1>1, <1>2 DEF IdOf
<1> QED BY <1>2, <1>4, <1>5, <1>6, <1>7 DEF Frame, r

LEMMA FrameClear ==
  ASSUME NEW s, Shaped(s), NEW T, NEW X, \A t \in T \ X : IdOf(s, t) \cap Masters = {}
  PROVE  Frame(s, ClearBindings(s, T), {}, X)
<1>1. CASE T = {}
  BY <1>1, FrameSelf DEF ClearBindings
<1>2. CASE T # {}
  <2> DEFINE v == CancelContests(s, ContestsOf(s, T))
  <2>1. Frame(s, v, {}, {}) /\ v.bound = s.bound
    BY FrameCancel
  <2>2. Shaped(v) /\ \A t \in T \ X : IdOf(v, t) \cap Masters = {}
    BY <2>1 DEF Frame, IdOf
  <2>3. ClearBindings(s, T) = Forget(v, T)
    BY <1>2 DEF ClearBindings
  <2> HIDE DEF v
  <2>4. Frame(v, Forget(v, T), {}, X)
    BY <2>2, FrameForget
  <2>5. Frame(s, v, {}, X)
    BY <2>1, FrameMore
  <2> QED BY <2>3, <2>4, <2>5, FrameOn
<1> QED BY <1>1, <1>2

LEMMA FrameAttach ==
  ASSUME NEW s, Shaped(s), NEW m \in DOMAIN s.ids, NEW T
  PROVE  LET r == Attach(s, m, T)
         IN Frame(s, r, T \X {m}, {}) /\ m \in DOMAIN r.ids /\ T \subseteq r.ids[m].pending
<1> DEFINE record == [s.ids[m] EXCEPT !.members = @ \cup T, !.pending = @ \cup T]
           v == Revise(s, m, record)
           r == BindTo(v, m, T)
<1>1. r = Attach(s, m, T)
  BY DEF Attach
<1>2. /\ DOMAIN record = DOMAIN s.ids[m] /\ record.pending = s.ids[m].pending \cup T
      /\ record.doubted = s.ids[m].doubted /\ record.refused = s.ids[m].refused
  BY DEF Shaped
<1>3. {"members", "pending", "doubted", "refused"} \subseteq DOMAIN record
  BY <1>2 DEF Shaped
<1> HIDE DEF record
<1>4. Frame(s, v, {}, {}) /\ v.ids[m] = record /\ m \in DOMAIN v.ids
  <2>1. Sure(s, m) \ {} \subseteq record.refused \cap (record.pending \cup record.doubted)
    BY <1>2 DEF Sure
  <2> QED BY <1>3, <2>1, FrameGrow
<1> HIDE DEF v
<1>5. Frame(v, r, T \X {m}, {}) /\ r.ids = v.ids
  BY <1>4, FrameBind DEF Frame
<1> HIDE DEF r
<1>6. Frame(s, v, T \X {m}, {})
  BY <1>4, FrameMore
<1> QED BY <1>1, <1>2, <1>4, <1>5, <1>6, FrameOn

LEMMA FrameJoinMaster ==
  ASSUME NEW s, Shaped(s), NEW m \in DOMAIN s.ids, NEW p
  PROVE  Frame(s, JoinMaster(s, m, p), (p \ DOMAIN s.bound) \X {m}, {})
<1> DEFINE T == p \ DOMAIN s.bound
           record == [s.ids[m] EXCEPT !.managed = TRUE, !.shots = @ \cup s.ids[m].home,
                                      !.members = @ \cup p]
           v == Revise(s, m, record)
<1>1. JoinMaster(s, m, p) = Attach(v, m, T)
  BY DEF JoinMaster
<1>2. /\ DOMAIN record = DOMAIN s.ids[m] /\ record.pending = s.ids[m].pending
      /\ record.doubted = s.ids[m].doubted /\ record.refused = s.ids[m].refused
  BY DEF Shaped
<1>3. {"members", "pending", "doubted", "refused"} \subseteq DOMAIN record
  BY <1>2 DEF Shaped
<1> HIDE DEF record, T
<1>4. Frame(s, v, {}, {}) /\ m \in DOMAIN v.ids
  <2>1. Sure(s, m) \ {} \subseteq record.refused \cap (record.pending \cup record.doubted)
    BY <1>2 DEF Sure
  <2> QED BY <1>3, <2>1, FrameGrow
<1> HIDE DEF v
<1>5. Frame(v, Attach(v, m, T), T \X {m}, {})
  BY <1>4, FrameAttach DEF Frame
<1>6. Frame(s, v, T \X {m}, {})
  BY <1>4, FrameMore
<1> QED BY <1>1, <1>5, <1>6, FrameOn DEF T

LEMMA FrameJoinGroup ==
  ASSUME NEW s, Shaped(s), NEW g \in DOMAIN s.ids, NEW p
  PROVE  Frame(s, JoinGroup(s, g, p), (p \ DOMAIN s.bound) \X {g}, {})
<1> DEFINE T == p \ DOMAIN s.bound
           record == [s.ids[g] EXCEPT !.members = @ \cup p]
           v == Revise(s, g, record)
<1>1. JoinGroup(s, g, p) = BindTo(v, g, T)
  BY DEF JoinGroup
<1>2. /\ DOMAIN record = DOMAIN s.ids[g] /\ record.pending = s.ids[g].pending
      /\ record.doubted = s.ids[g].doubted /\ record.refused = s.ids[g].refused
  BY DEF Shaped
<1>3. {"members", "pending", "doubted", "refused"} \subseteq DOMAIN record
  BY <1>2 DEF Shaped
<1> HIDE DEF record, T
<1>4. Frame(s, v, {}, {})
  <2>1. Sure(s, g) \ {} \subseteq record.refused \cap (record.pending \cup record.doubted)
    BY <1>2 DEF Sure
  <2> QED BY <1>3, <2>1, FrameGrow
<1> HIDE DEF v
<1>5. Frame(v, BindTo(v, g, T), T \X {g}, {})
  BY <1>4, FrameBind DEF Frame
<1>6. Frame(s, v, T \X {g}, {})
  BY <1>4, FrameMore
<1> QED BY <1>1, <1>5, <1>6, FrameOn DEF T

LEMMA FrameStartGroup ==
  ASSUME NEW s, Shaped(s), NEW g \in Groups, NEW p
  PROVE  Frame(s, StartGroup(s, g, p), (p \ DOMAIN s.bound) \X {g}, {})
<1> DEFINE record == NewRecord("provisional", {})
           v == Revise(s, g, record)
<1>1. StartGroup(s, g, p) = JoinGroup(v, g, p)
  BY DEF StartGroup
<1>2. {"members", "pending", "doubted", "refused"} \subseteq DOMAIN record
  BY DEF NewRecord
<1> HIDE DEF record
<1>3. Frame(s, v, {}, {}) /\ g \in DOMAIN v.ids /\ v = [s EXCEPT !.ids = v.ids]
  BY <1>2, FrameRevise, NumberFacts
<1>4. v.bound = s.bound
  BY <1>3 DEF Shaped
<1> HIDE DEF v
<1>5. Frame(v, JoinGroup(v, g, p), (p \ DOMAIN v.bound) \X {g}, {})
  BY <1>3, FrameJoinGroup DEF Frame
<1>6. Frame(s, v, (p \ DOMAIN s.bound) \X {g}, {})
  BY <1>3, FrameMore
<1> QED BY <1>1, <1>4, <1>5, <1>6, FrameOn

LEMMA FrameSplit ==
  ASSUME NEW s, Shaped(s), NEW i, NEW t
  PROVE  Frame(s, StartSplit(s, i, t), {}, {})
<1> DEFINE record == [s.ids[i] EXCEPT !.revoked = @ \cup {t}]
<1>1. CASE i \in Groups /\ Unnumbered(s, i)
  <2>1. \/ StartSplit(s, i, t) = DropGroup(s, i) \/ StartSplit(s, i, t) = s
        \/ StartSplit(s, i, t) = Revise(s, i, record)
    BY DEF StartSplit
  <2>2. i \in DOMAIN s.ids
    BY <1>1 DEF Unnumbered
  <2>3. DOMAIN record = DOMAIN s.ids[i]
    OBVIOUS
  <2>4. {"members", "pending", "doubted", "refused"} \subseteq DOMAIN record
    BY <2>2, <2>3 DEF Shaped
  <2> HIDE DEF record
  <2>5. Frame(s, Revise(s, i, record), {}, {})
    BY <1>1, <2>4, FrameRevise, NumberFacts
  <2> QED BY <1>1, <2>1, <2>5, FrameSelf, FrameDrop
<1>2. CASE ~(i \in Groups /\ Unnumbered(s, i))
  BY <1>2, FrameSelf DEF StartSplit
<1> QED BY <1>1, <1>2

LEMMA FrameDissolve ==
  ASSUME NEW s, Shaped(s), NEW g \in Groups
  PROVE  Frame(s, Dissolve(s, g), {}, {})
<1> DEFINE v == ClearBindings(s, LiveMembers(s, g))
<1>1. \A t \in LiveMembers(s, g) \ {} : IdOf(s, t) \cap Masters = {}
  BY NumberFacts DEF LiveMembers, BoundTo, IdOf
<1>2. Frame(s, v, {}, {})
  BY <1>1, FrameClear
<1>3. Dissolve(s, g) = DropGroup(v, g)
  BY DEF Dissolve
<1> HIDE DEF v
<1>4. Frame(v, DropGroup(v, g), {}, {})
  BY <1>2, FrameDrop DEF Frame
<1> QED BY <1>2, <1>3, <1>4, FrameOn

LEMMA FrameRecover ==
  ASSUME NEW s, Shaped(s), NEW t, NEW u, Recoverable(s, t, u)
  PROVE  LET r == Recover(s, t, u)
         IN Frame(s, r, {<<t, s.bound[u]>>}, {t}) /\ t \in r.ids[s.bound[u]].pending
<1> DEFINE g == s.bound[t]
           m == s.bound[u]
           c == ClearBindings(s, {t})
           d == DropGroup(c, g)
           record == [d.ids[m] EXCEPT !.doubted = @ \ {t}, !.refused = @ \ {t}, !.managed = TRUE]
           v == Revise(d, m, record)
           r == Attach(v, m, {t})
<1>1. Recover(s, t, u) = r
  BY DEF Recover
<1>2. g \in Groups /\ m \in Masters \cap DOMAIN s.ids
  BY DEF Recoverable
<1> HIDE DEF g, m
<1>3. Frame(s, c, {}, {t})
  BY FrameClear
<1> HIDE DEF c
<1>4. Frame(c, d, {}, {t})
  <2>1. Frame(c, d, {}, {})
    BY <1>2, <1>3, FrameDrop DEF Frame
  <2> QED BY <2>1, FrameMore
<1>5. Frame(s, d, {}, {t})
  BY <1>3, <1>4, FrameOn
<1> HIDE DEF d
<1>6. Shaped(d) /\ m \in DOMAIN d.ids
  BY <1>2, <1>5 DEF Frame
<1>7. /\ DOMAIN record = DOMAIN d.ids[m] /\ record.pending = d.ids[m].pending
      /\ record.doubted = d.ids[m].doubted \ {t} /\ record.refused = d.ids[m].refused \ {t}
  BY <1>6 DEF Shaped
<1>8. {"members", "pending", "doubted", "refused"} \subseteq DOMAIN record
  BY <1>6, <1>7 DEF Shaped
<1> HIDE DEF record
<1>9. Sure(d, m) \ {t} \subseteq record.refused \cap (record.pending \cup record.doubted)
  BY <1>7 DEF Sure
<1>10. Frame(d, v, {}, {t}) /\ Shaped(v) /\ m \in DOMAIN v.ids
  BY <1>6, <1>8, <1>9, FrameGrow
<1> HIDE DEF v
<1>11. Frame(v, r, {t} \X {m}, {}) /\ {t} \subseteq r.ids[m].pending
  BY <1>10, FrameAttach
<1> HIDE DEF r
<1>12. Frame(s, v, {}, {t})
  BY <1>5, <1>10, FrameOn
<1>13. Frame(s, v, {t} \X {m}, {t})
  BY <1>12, FrameMore
<1>14. Frame(v, r, {t} \X {m}, {t})
  BY <1>11, FrameMore
<1>15. Frame(s, r, {t} \X {m}, {t})
  BY <1>13, <1>14, FrameOn
<1>16. {t} \X {m} = {<<t, m>>}
  OBVIOUS
<1> QED BY <1>1, <1>11, <1>15, <1>16 DEF m

(* Who gains an identity of K meets no owner in view; it is barred from it   *)
(* only if its group ends and such an end is an excuse.                     *)
Proper(s, r, K, excused) ==
  \A t \in Tracks : \A i : <<t, i>> \in K =>
    /\ VisibleOwners(s, i, t) = {}
    /\ i \in s.barred[t] => excused /\ \E g \in IdOf(s, t) \cap Groups : g \notin DOMAIN r.ids

Lawful(s, r, excused) ==
  \E K, X : /\ Frame(s, r, K, X) /\ X \cap DOMAIN r.bound = {}
            /\ Bars(s) => Proper(s, r, K, excused)

LEMMA LawfulFrame ==
  ASSUME NEW s, NEW r, NEW K, NEW X, NEW excused, Frame(s, r, K, X), X \cap DOMAIN r.bound = {},
         Bars(s) => Proper(s, r, K, excused)
  PROVE  Lawful(s, r, excused)
BY DEF Lawful

LEMMA ApartFacts ==
  ASSUME NEW p \in Pairs, NEW t \in p
  PROVE  Peers(t) \cap p = {} /\ p \subseteq Tracks
<1>1. PICK a \in Tracks, b \in Tracks : p = {a, b}
  BY DEF Pairs
<1>2. Cardinality({CameraOf[x] : x \in p}) = 2
  BY DEF Pairs
<1>3. CameraOf[a] # CameraOf[b]
  <2> SUFFICES ASSUME CameraOf[a] = CameraOf[b] PROVE FALSE
    OBVIOUS
  <2>1. {CameraOf[x] : x \in p} = {CameraOf[a]}
    BY <1>1
  <2>2. Cardinality({CameraOf[a]}) = 1
    BY FS_Singleton
  <2> QED BY <1>2, <2>1, <2>2
<1> QED BY <1>1, <1>3 DEF Peers, Of

LEMMA FramePair ==
  ASSUME NEW E, NEW s, Sane(s, E), NEW p \in {{}} \cup Pairs, NEW r \in CreatePair(s, p)
  PROVE  \/ Lawful(s, r, FALSE)
         \/ \E t, u \in Tracks :
              /\ Recoverable(s, t, u) /\ Frame(s, r, {<<t, s.bound[u]>>}, {t})
              /\ t \in r.ids[s.bound[u]].pending
<1> DEFINE ids == UNION {IdOf(s, t) : t \in p}
           groups == {i \in ids : Unnumbered(s, i)}
           recoveries == {q \in p \X p : Recoverable(s, q[1], q[2])}
           i == CHOOSE i \in ids : TRUE
           T == p \ DOMAIN s.bound
<1>1. s \in Memory /\ Shaped(s)
  BY ShapedFacts DEF Sane
<1>2. \A t \in p : Peers(t) \cap p = {} /\ t \in Tracks
  BY ApartFacts
<1>3. \/ r = s
      \/ \E g \in NewGroup(s) : r = StartGroup(s, g, p)
      \/ /\ ids # {} /\ ~ LostBefore(s, i, p) /\ ~ SecondOwner(s, i, p)
         /\ r = JoinMaster(s, i, p) \/ r = JoinGroup(s, i, p)
      \/ \E q \in recoveries : r = Recover(s, q[1], q[2])
  BY DEF CreatePair
<1>4. CASE r = s
  <2>1. Frame(s, r, {}, {}) /\ Proper(s, r, {}, FALSE)
    BY <1>1, <1>4, FrameSelf DEF Proper
  <2> QED BY <2>1 DEF Lawful
<1>5. ASSUME NEW g \in NewGroup(s), r = StartGroup(s, g, p)
      PROVE  Lawful(s, r, FALSE)
  <2>1. g \in Groups /\ BoundTo(s, g) = {}
    BY DEF NewGroup
  <2>2. Frame(s, r, T \X {g}, {})
    BY <1>1, <1>5, <2>1, FrameStartGroup
  <2>3. \A t \in T : g \notin s.barred[t]
    BY <1>1, <1>2, <2>1, MemoryFacts, NumberFacts
  <2>4. Proper(s, r, T \X {g}, FALSE)
    BY <2>1, <2>3 DEF Proper, VisibleOwners
  <2>5. {} \cap DOMAIN r.bound = {}
    OBVIOUS
  <2> QED BY <2>2, <2>4, <2>5, LawfulFrame
<1>6. ASSUME ids # {}, ~ LostBefore(s, i, p), ~ SecondOwner(s, i, p),
             r = JoinMaster(s, i, p) \/ r = JoinGroup(s, i, p)
      PROVE  Lawful(s, r, FALSE)
  <2>1. i \in ids
    BY <1>6
  <2> HIDE DEF i
  <2>2. i \in DOMAIN s.ids
    BY <2>1 DEF Sane, Exist, IdOf
  <2>3. Frame(s, r, T \X {i}, {})
    BY <1>1, <1>6, <2>2, FrameJoinMaster, FrameJoinGroup
  <2>4. \A t \in T : i \notin s.barred[t]
    BY <1>6 DEF LostBefore
  <2>5. ASSUME NEW t \in T
        PROVE  VisibleOwners(s, i, t) = {}
    <3>1. i \notin IdOf(s, t) /\ t \in p
      BY DEF IdOf
    <3>2. VisibleOwners(s, i, t) \ p = {}
      BY <1>6, <2>2, <3>1 DEF SecondOwner
    <3> QED BY <1>2, <3>1, <3>2 DEF VisibleOwners
  <2>6. Proper(s, r, T \X {i}, FALSE)
    BY <2>4, <2>5 DEF Proper
  <2>7. {} \cap DOMAIN r.bound = {}
    OBVIOUS
  <2> QED BY <2>3, <2>6, <2>7, LawfulFrame
<1>7. ASSUME NEW q \in recoveries, r = Recover(s, q[1], q[2])
      PROVE  \E t, u \in Tracks :
               /\ Recoverable(s, t, u) /\ Frame(s, r, {<<t, s.bound[u]>>}, {t})
               /\ t \in r.ids[s.bound[u]].pending
  <2>1. PICK t \in p, u \in p : q = <<t, u>>
    OBVIOUS
  <2>2. Recoverable(s, t, u) /\ r = Recover(s, t, u) /\ t \in Tracks /\ u \in Tracks
    BY <1>2, <1>7, <2>1
  <2>3. Frame(s, r, {<<t, s.bound[u]>>}, {t}) /\ t \in r.ids[s.bound[u]].pending
    BY <1>1, <2>2, FrameRecover
  <2> QED BY <2>2, <2>3
<1> HIDE DEF ids, groups, recoveries, i, T
<1> QED BY <1>3, <1>4, <1>5, <1>6, <1>7

(* What numbering and merging find out by.                                  *)
Good(s) ==
  /\ Shaped(s) /\ s.masters \in Nat /\ DOMAIN s.ids \subseteq Groups \cup 1..s.masters
  /\ \A t \in DOMAIN s.bound : s.bound[t] \in DOMAIN s.ids

Quiet(s, v) ==
  /\ Frame(s, v, {}, {}) /\ v.visible = s.visible /\ v.bound = s.bound /\ v.barred = s.barred
  /\ v.masters = s.masters /\ DOMAIN v.ids = DOMAIN s.ids

LEMMA GoodFacts == ASSUME NEW E, NEW s, Sane(s, E) PROVE Good(s)
<1>1. s \in Memory /\ Exist(s)
  BY DEF Sane
<1>2. s.masters \in Nat
  BY <1>1, MemoryFacts, NumberFacts
<1> QED BY <1>1, <1>2, ShapedFacts DEF Good, Exist

LEMMA QuietGood == ASSUME NEW s, NEW v, Good(s), Quiet(s, v) PROVE Good(v)
BY DEF Good, Quiet, Frame

LEMMA QuietSelf == ASSUME NEW s, Shaped(s) PROVE Quiet(s, s)
BY FrameSelf DEF Quiet

LEMMA QuietOn == ASSUME NEW s, NEW v, NEW r, Quiet(s, v), Quiet(v, r) PROVE Quiet(s, r)
BY FrameOn DEF Quiet

LEMMA QuietLawful ==
  ASSUME NEW s, NEW r, NEW excused, Quiet(s, r)
  PROVE  Lawful(s, r, excused)
<1>1. Frame(s, r, {}, {}) /\ Proper(s, r, {}, excused)
  BY DEF Quiet, Proper
<1>2. {} \cap DOMAIN r.bound = {}
  OBVIOUS
<1> QED BY <1>1, <1>2, LawfulFrame

LEMMA LawfulAfter ==
  ASSUME NEW s, NEW v, NEW r, NEW excused, Quiet(s, v), Lawful(v, r, excused)
  PROVE  Lawful(s, r, excused)
<1>1. PICK K, X : /\ Frame(v, r, K, X) /\ X \cap DOMAIN r.bound = {}
                  /\ Bars(v) => Proper(v, r, K, excused)
  BY DEF Lawful
<1>2. Frame(s, v, {}, {}) /\ v.visible = s.visible /\ v.bound = s.bound /\ v.barred = s.barred
  BY DEF Quiet
<1>3. Frame(s, v, K, X)
  BY <1>2, FrameMore
<1>4. Frame(s, r, K, X)
  BY <1>1, <1>3, FrameOn
<1>5. Bars(s) => Bars(v)
  BY <1>2 DEF Frame
<1>6. Bars(s) => Proper(s, r, K, excused)
  BY <1>1, <1>2, <1>5 DEF Proper, VisibleOwners, BoundTo, IdOf
<1> QED BY <1>1, <1>4, <1>6, LawfulFrame

LEMMA LawfulMore ==
  ASSUME NEW s, NEW r, Lawful(s, r, FALSE)
  PROVE  Lawful(s, r, TRUE)
BY DEF Lawful, Proper

LEMMA QuietRevise ==
  ASSUME NEW s, Shaped(s), NEW i \in DOMAIN s.ids, NEW record,
         {"members", "pending", "doubted", "refused"} \subseteq DOMAIN record,
         Sure(s, i) \subseteq record.refused \cap (record.pending \cup record.doubted)
  PROVE  /\ Quiet(s, Revise(s, i, record)) /\ Revise(s, i, record).ids[i] = record
         /\ \A j \in DOMAIN s.ids \ {i} : Revise(s, i, record).ids[j] = s.ids[j]
<1> DEFINE r == Revise(s, i, record)
<1>1. Sure(s, i) \ {} \subseteq record.refused \cap (record.pending \cup record.doubted)
  OBVIOUS
<1>2. /\ Frame(s, r, {}, {}) /\ DOMAIN r.ids = DOMAIN s.ids /\ r.ids[i] = record
      /\ \A j \in DOMAIN s.ids \ {i} : r.ids[j] = s.ids[j]
  BY <1>1, FrameGrow
<1>3. r.visible = s.visible /\ r.bound = s.bound /\ r.barred = s.barred /\ r.masters = s.masters
  BY DEF Revise, Shaped
<1> HIDE DEF r
<1> QED BY <1>2, <1>3 DEF r, Quiet

LEMMA QuietBeside ==
  ASSUME NEW s, Shaped(s), NEW r, DOMAIN r = DOMAIN s, r.ids = s.ids, r.bound = s.bound,
         r.barred = s.barred, r.contest = s.contest, r.visible = s.visible, r.masters = s.masters
  PROVE  Quiet(s, r)
BY FrameBeside DEF Quiet

LEMMA FrameNumbered ==
  ASSUME NEW s, Good(s), NEW g \in Groups \cap DOMAIN s.ids, NEW c
  PROVE  Lawful(s, Numbered(s, g, c), FALSE)
<1> DEFINE m == s.masters + 1
           record == [s.ids[g] EXCEPT !.state = "confirmed", !.blocked = {}, !.home = {c}]
           rest == Without(s.ids, {g})
           ids == Set(rest, m, record)
           bound == [t \in DOMAIN s.bound |-> IF s.bound[t] = g THEN m ELSE s.bound[t]]
           r == Numbered(s, g, c)
           K == BoundTo(s, g) \X {m}
<1>1. m \notin Groups /\ m \notin DOMAIN s.ids
  BY NumberFacts DEF Good, Groups
<1>2. {"members", "pending", "doubted", "refused"} \subseteq DOMAIN record
  BY DEF Good, Shaped
<1>3. DOMAIN rest = DOMAIN s.ids \ {g} /\ \A i \in DOMAIN rest : rest[i] = s.ids[i]
  BY WithoutDomain
<1>4. r = [s EXCEPT !.masters = m, !.ids = ids, !.bound = bound]
  BY DEF Numbered
<1> HIDE DEF record, rest, m
<1>5. /\ DOMAIN ids = (DOMAIN s.ids \ {g}) \cup {m} /\ ids[m] = record
      /\ \A i \in DOMAIN s.ids \ {g} : ids[i] = s.ids[i]
  <2>1. DOMAIN ids = DOMAIN rest \cup {m} /\ ids[m] = record /\ \A i \in DOMAIN rest \ {m} : ids[i] = rest[i]
    BY DEF Set
  <2> HIDE DEF ids
  <2> QED BY <1>1, <1>3, <2>1
<1>6. /\ DOMAIN bound = DOMAIN s.bound
      /\ \A t \in DOMAIN s.bound : IF s.bound[t] = g THEN bound[t] = m ELSE bound[t] = s.bound[t]
  OBVIOUS
<1> HIDE DEF ids, bound
<1>7. /\ DOMAIN r = DOMAIN s /\ r.ids = ids /\ r.bound = bound
      /\ r.barred = s.barred /\ r.contest = s.contest
  BY <1>4 DEF Good, Shaped
<1> HIDE DEF r
<1>8. Shaped(r)
  BY <1>2, <1>5, <1>7 DEF Good, Shaped
<1>9. Bars(s) => Bars(r)
  BY <1>5, <1>7, NumberFacts DEF Bars
<1>10. \A i \in Masters \cap DOMAIN s.ids : i \in DOMAIN r.ids /\ Sure(s, i) \ {} \subseteq Sure(r, i)
  BY <1>5, <1>7, NumberFacts DEF Sure
<1>11. \A t \in Tracks : \A i \in IdOf(r, t) : i \in IdOf(s, t) \/ <<t, i>> \in K
  BY <1>6, <1>7 DEF IdOf, BoundTo
<1>12. Frame(s, r, K, {})
  BY <1>8, <1>9, <1>10, <1>11 DEF Frame
<1>13. Bars(s) => Proper(s, r, K, FALSE)
  <2>1. BoundTo(s, m) = {}
    BY <1>1 DEF Good, BoundTo
  <2>2. ASSUME Bars(s), NEW t \in BoundTo(s, g) \cap Tracks
        PROVE  m \notin s.barred[t]
    BY <1>1, <2>2 DEF Bars
  <2> QED BY <2>1, <2>2 DEF Proper, VisibleOwners
<1>14. {} \cap DOMAIN r.bound = {}
  OBVIOUS
<1> HIDE DEF K
<1> QED BY <1>12, <1>13, <1>14, LawfulFrame DEF r

LEMMA LawfulPromote ==
  ASSUME NEW s, Good(s), NEW g \in Groups \cap DOMAIN s.ids, NEW reason, NEW r \in Promote(s, g, reason)
  PROVE  Lawful(s, r, FALSE)
<1> DEFINE record == [s.ids[g] EXCEPT !.blocked = {}]
           v == Revise(s, g, record)
<1>1. r = s \/ r = v \/ \E c : r = Numbered(v, g, c)
  BY DEF Promote
<1>2. /\ DOMAIN record = DOMAIN s.ids[g] /\ record.pending = s.ids[g].pending
      /\ record.doubted = s.ids[g].doubted /\ record.refused = s.ids[g].refused
  BY DEF Good, Shaped
<1>3. {"members", "pending", "doubted", "refused"} \subseteq DOMAIN record
  BY <1>2 DEF Good, Shaped
<1> HIDE DEF record
<1>4. Sure(s, g) \subseteq record.refused \cap (record.pending \cup record.doubted)
  BY <1>2 DEF Sure
<1>5. Shaped(s)
  BY DEF Good
<1>6. Quiet(s, v)
  BY <1>3, <1>4, <1>5, QuietRevise
<1> HIDE DEF v
<1>7. Good(v) /\ g \in Groups \cap DOMAIN v.ids
  BY <1>6, QuietGood DEF Quiet
<1>8. ASSUME NEW c, r = Numbered(v, g, c)
      PROVE  Lawful(s, r, FALSE)
  <2>1. Lawful(v, r, FALSE)
    BY <1>7, <1>8, FrameNumbered
  <2> QED BY <1>6, <2>1, LawfulAfter
<1> QED BY <1>1, <1>5, <1>6, <1>8, QuietSelf, QuietLawful

LEMMA LawfulEvaluate ==
  ASSUME NEW s, Good(s), NEW i \in Groups, NEW r \in Evaluate(s, i)
  PROVE  Lawful(s, r, FALSE)
<1> DEFINE record == [s.ids[i] EXCEPT !.state = "challenged"]
<1>1. Shaped(s)
  BY DEF Good
<1>2. CASE r = s
  BY <1>1, <1>2, QuietSelf, QuietLawful
<1>3. CASE r # s
  <2>1. i \in DOMAIN s.ids /\ (r = Revise(s, i, record) \/ r \in Promote(s, i, "appearance"))
    BY <1>3 DEF Evaluate, Unnumbered
  <2>2. /\ DOMAIN record = DOMAIN s.ids[i] /\ record.pending = s.ids[i].pending
        /\ record.doubted = s.ids[i].doubted /\ record.refused = s.ids[i].refused
    BY <1>1, <2>1 DEF Shaped
  <2>3. {"members", "pending", "doubted", "refused"} \subseteq DOMAIN record
    BY <1>1, <2>1, <2>2 DEF Shaped
  <2> HIDE DEF record
  <2>4. Sure(s, i) \subseteq record.refused \cap (record.pending \cup record.doubted)
    BY <2>2 DEF Sure
  <2>5. Quiet(s, Revise(s, i, record))
    BY <1>1, <2>1, <2>3, <2>4, QuietRevise
  <2> QED BY <2>1, <2>5, QuietLawful, LawfulPromote
<1> QED BY <1>2, <1>3

\* A confirmation by location leaves those alone whom appearance refused.
LEMMA QuietConfirm ==
  ASSUME NEW s, Shaped(s), NEW i \in DOMAIN s.ids, NEW T
  PROVE  Quiet(s, Confirm(s, i, TRUE, T))
<1> DEFINE ready == Confirmable(s, i, TRUE) \cap T
           record == [s.ids[i] EXCEPT !.pending = @ \ ready, !.doubted = @ \ ready]
           matched == ready \cap BoundTo(s, i)
           v == Revise(s, i, record)
           r == [v EXCEPT !.staged = @ \ ready, !.done = @ \cup matched]
<1>1. Confirm(s, i, TRUE, T) = r
  BY DEF Confirm
<1>2. ready \cap s.ids[i].refused = {}
  BY DEF Confirmable
<1> HIDE DEF ready
<1>3. /\ DOMAIN record = DOMAIN s.ids[i] /\ record.pending = s.ids[i].pending \ ready
      /\ record.doubted = s.ids[i].doubted \ ready /\ record.refused = s.ids[i].refused
  BY DEF Shaped
<1>4. {"members", "pending", "doubted", "refused"} \subseteq DOMAIN record
  BY <1>3 DEF Shaped
<1> HIDE DEF record, matched
<1>5. Sure(s, i) \subseteq record.refused \cap (record.pending \cup record.doubted)
  BY <1>2, <1>3 DEF Sure
<1>6. Quiet(s, v)
  BY <1>4, <1>5, QuietRevise
<1> HIDE DEF v
<1>7. Shaped(v)
  BY <1>6 DEF Quiet, Frame
<1>8. /\ DOMAIN r = DOMAIN v /\ r.ids = v.ids /\ r.bound = v.bound /\ r.barred = v.barred
      /\ r.contest = v.contest /\ r.visible = v.visible /\ r.masters = v.masters
  BY <1>7 DEF Shaped
<1> HIDE DEF r
<1>9. Quiet(v, r)
  BY <1>7, <1>8, QuietBeside
<1> QED BY <1>1, <1>6, <1>9, QuietOn

LEMMA LawfulNote ==
  ASSUME NEW E, NEW s, Sane(s, E), NEW i, NEW streak, NEW limit, NEW p,
         NEW r \in NoteMatch(s, i, streak, limit, p)
  PROVE  Lawful(s, r, FALSE)
<1>1. Good(s) /\ Shaped(s)
  BY GoodFacts DEF Good
<1>2. CASE i \notin DOMAIN s.ids
  BY <1>1, <1>2, QuietSelf, QuietLawful DEF NoteMatch
<1>3. CASE i \in DOMAIN s.ids
  <2> DEFINE record == [s.ids[i] EXCEPT !.managed = TRUE, !.members = @ \cup (p \cap BoundTo(s, i))]
             v == Revise(s, i, record)
  <2>1. \/ r = v
        \/ s.ids[i].state = "provisional" /\ r \in Promote(v, i, "location")
        \/ \E T : r = Confirm(v, i, TRUE, T)
    BY <1>3 DEF NoteMatch
  <2>2. s.ids[i].state = "provisional" => i \in Groups
    BY <1>3, OwnFacts
  <2>3. /\ DOMAIN record = DOMAIN s.ids[i] /\ record.pending = s.ids[i].pending
        /\ record.doubted = s.ids[i].doubted /\ record.refused = s.ids[i].refused
    BY <1>1, <1>3 DEF Shaped
  <2>4. {"members", "pending", "doubted", "refused"} \subseteq DOMAIN record
    BY <1>1, <1>3, <2>3 DEF Shaped
  <2> HIDE DEF record
  <2>5. Sure(s, i) \subseteq record.refused \cap (record.pending \cup record.doubted)
    BY <2>3 DEF Sure
  <2>6. Quiet(s, v)
    BY <1>1, <1>3, <2>4, <2>5, QuietRevise
  <2> HIDE DEF v
  <2>7. Good(v) /\ Shaped(v) /\ i \in DOMAIN v.ids
    BY <1>1, <1>3, <2>6, QuietGood DEF Quiet, Frame
  <2>8. ASSUME s.ids[i].state = "provisional", r \in Promote(v, i, "location")
        PROVE  Lawful(s, r, FALSE)
    <3>1. Lawful(v, r, FALSE)
      BY <2>2, <2>7, <2>8, LawfulPromote
    <3> QED BY <2>6, <3>1, LawfulAfter
  <2>9. ASSUME NEW T, r = Confirm(v, i, TRUE, T)
        PROVE  Lawful(s, r, FALSE)
    <3>1. Quiet(v, r)
      BY <2>7, <2>9, QuietConfirm
    <3> QED BY <2>6, <3>1, QuietOn, QuietLawful
  <2> QED BY <2>1, <2>6, <2>8, <2>9, QuietLawful
<1> QED BY <1>2, <1>3

LEMMA QuietFinish ==
  ASSUME NEW s, Shaped(s), NEW t
  PROVE  Quiet(s, Finish(s, t))
<1> DEFINE intake == Without(s.intake, {t})
           r == [s EXCEPT !.done = @ \cup {t}, !.intake = intake]
<1>1. Finish(s, t) = r
  BY DEF Finish
<1> HIDE DEF intake
<1>2. /\ DOMAIN r = DOMAIN s /\ r.ids = s.ids /\ r.bound = s.bound /\ r.barred = s.barred
      /\ r.contest = s.contest /\ r.visible = s.visible /\ r.masters = s.masters
  BY DEF Shaped
<1> HIDE DEF r
<1> QED BY <1>1, <1>2, QuietBeside

LEMMA QuietRetry ==
  ASSUME NEW s, Shaped(s), NEW t
  PROVE  Quiet(s, Retry(s, t))
<1> DEFINE intake == Set(s.intake, t, [s.intake[t] EXCEPT !.gen = s.gen[t] + 1, !.submitted = FALSE])
           gen == [s.gen EXCEPT ![t] = @ + 1]
           r == [s EXCEPT !.gen = gen, !.intake = intake]
<1>1. Retry(s, t) = r
  BY DEF Retry
<1> HIDE DEF intake, gen
<1>2. /\ DOMAIN r = DOMAIN s /\ r.ids = s.ids /\ r.bound = s.bound /\ r.barred = s.barred
      /\ r.contest = s.contest /\ r.visible = s.visible /\ r.masters = s.masters
  BY DEF Shaped
<1> HIDE DEF r
<1> QED BY <1>1, <1>2, QuietBeside

\* A contest is for a master its challenger is not barred from.
LEMMA QuietContest ==
  ASSUME NEW s, Shaped(s), NEW t \in Tracks, NEW m \in Contestable(s, t)
  PROVE  Quiet(s, StartContest(s, t, m))
<1> DEFINE intake == Set(s.intake, t, [s.intake[t] EXCEPT !.why = @ \cup {"contest"}])
           claim == [chal |-> t, gen |-> s.intake[t].gen,
                     inc |-> CHOOSE u \in VisibleOwners(s, m, t) : TRUE]
           contest == Set(s.contest, m, claim)
           r == [s EXCEPT !.contest = contest, !.intake = intake]
<1>1. StartContest(s, t, m) = r
  BY DEF StartContest
<1>2. claim.chal = t
  OBVIOUS
<1> HIDE DEF intake, claim
<1>3. /\ DOMAIN contest = DOMAIN s.contest \cup {m} /\ contest[m] = claim
      /\ \A n \in DOMAIN s.contest \ {m} : contest[n] = s.contest[n]
  BY DEF Set
<1> HIDE DEF contest
<1>4. /\ DOMAIN r = DOMAIN s /\ r.ids = s.ids /\ r.bound = s.bound /\ r.barred = s.barred
      /\ r.contest = contest /\ r.visible = s.visible /\ r.masters = s.masters
  BY DEF Shaped
<1> HIDE DEF r
<1>5. Shaped(r)
  BY <1>2, <1>3, <1>4 DEF Shaped
<1>6. Bars(s) => Bars(r)
  BY <1>2, <1>3, <1>4 DEF Bars, Contestable
<1> QED BY <1>1, <1>4, <1>5, <1>6 DEF Quiet, Frame, IdOf, Sure

\* A step that binds tracks and lifts bars.
LEMMA FrameOwners ==
  ASSUME NEW s, Shaped(s), NEW K, NEW r, DOMAIN r = DOMAIN s, r.ids = s.ids, r.contest = s.contest,
         DOMAIN r.barred = Tracks, \A t \in Tracks : r.barred[t] \subseteq s.barred[t],
         \A t \in Tracks : \A i \in IdOf(r, t) : i \in IdOf(s, t) \/ <<t, i>> \in K
  PROVE  Frame(s, r, K, {})
<1>1. Shaped(r)
  BY DEF Shaped
<1>2. Bars(s) => Bars(r)
  BY DEF Bars, Shaped
<1> QED BY <1>1, <1>2 DEF Frame, Sure

\* Cleared tracks have no identity.
LEMMA ClearedTracks ==
  ASSUME NEW s, Shaped(s), NEW T
  PROVE  LET r == ClearBindings(s, T)
         IN /\ T \cap DOMAIN r.bound = {} \/ T = {}
            /\ DOMAIN r.bound = DOMAIN s.bound \ T /\ \A t \in DOMAIN r.bound : r.bound[t] = s.bound[t]
            /\ DOMAIN r.ids = DOMAIN s.ids
<1>1. CASE T = {}
  BY <1>1 DEF ClearBindings
<1>2. CASE T # {}
  <2> DEFINE v == CancelContests(s, ContestsOf(s, T))
             bound == Without(v.bound, T)
             ids == [i \in DOMAIN v.ids |-> Less(v.ids[i], T \cap BoundTo(v, i))]
             r == Forget(v, T)
  <2>1. Frame(s, v, {}, {}) /\ v.bound = s.bound /\ v.ids = s.ids
    BY FrameCancel
  <2>2. ClearBindings(s, T) = r
    BY <1>2 DEF ClearBindings
  <2> HIDE DEF v
  <2>3. DOMAIN bound = DOMAIN v.bound \ T /\ \A t \in DOMAIN bound : bound[t] = v.bound[t]
    BY WithoutDomain
  <2>4. r.ids = ids /\ r.bound = bound
    BY <2>1 DEF Frame, Shaped, Forget
  <2>5. DOMAIN ids = DOMAIN v.ids
    OBVIOUS
  <2> HIDE DEF bound, ids, r
  <2> QED BY <2>1, <2>2, <2>3, <2>4, <2>5
<1> QED BY <1>1, <1>2

LEMMA LawfulMerge ==
  ASSUME NEW s, Good(s), NEW g \in Groups \cap DOMAIN s.ids, NEW m \in Masters \cap DOMAIN s.ids,
         ~ SecondOwner(s, m, LiveMembers(s, g)), NEW r \in Merge(s, g, m)
  PROVE  Lawful(s, r, TRUE)
<1> DEFINE K == LiveMembers(s, g)
<1>1. PICK last : r = MergeInto(s, g, m, K, last)
  BY DEF Merge
<1> DEFINE record == [s.ids[m] EXCEPT !.managed = TRUE, !.members = @ \cup K,
                                      !.shots = @ \cup s.ids[g].shots, !.views = @ \cup s.ids[g].views]
           v == Revise(s, m, record)
           bound == [t \in DOMAIN s.bound |-> IF t \in K THEN m ELSE s.bound[t]]
           moved == [v EXCEPT !.bound = [t \in DOMAIN @ |-> IF t \in K THEN m ELSE @[t]],
                              !.done = @ \cup K, !.intake = Without(@, K), !.gen = NextGeneration(s, K)]
           retired == {t \in BoundTo(moved, m) \ s.visible :
                         CameraOf[t] \in DOMAIN last /\ last[CameraOf[t]] # t}
           d == DropGroup(moved, g)
<1>2. r = ClearBindings(d, retired)
  BY <1>1 DEF MergeInto
<1>3. Shaped(s) /\ m # g
  BY NumberFacts DEF Good
<1>4. /\ DOMAIN record = DOMAIN s.ids[m] /\ record.pending = s.ids[m].pending
      /\ record.doubted = s.ids[m].doubted /\ record.refused = s.ids[m].refused
  BY <1>3 DEF Shaped
<1>5. {"members", "pending", "doubted", "refused"} \subseteq DOMAIN record
  BY <1>3, <1>4 DEF Shaped
<1> HIDE DEF record, retired
<1>6. Quiet(s, v)
  <2>1. Sure(s, m) \subseteq record.refused \cap (record.pending \cup record.doubted)
    BY <1>4 DEF Sure
  <2> QED BY <1>3, <1>5, <2>1, QuietRevise
<1> HIDE DEF v
<1>7. Shaped(v) /\ v.bound = s.bound /\ DOMAIN v.ids = DOMAIN s.ids
  BY <1>6 DEF Quiet, Frame
<1>8. /\ DOMAIN moved = DOMAIN v /\ moved.ids = v.ids /\ moved.contest = v.contest /\ moved.barred = v.barred
      /\ moved.bound = bound
  BY <1>7 DEF Shaped
<1>9. /\ DOMAIN bound = DOMAIN s.bound
      /\ \A t \in DOMAIN bound : IF t \in K THEN bound[t] = m ELSE bound[t] = s.bound[t]
  OBVIOUS
<1> HIDE DEF moved, bound
<1>10. Frame(v, moved, K \X {m}, {})
  <2>1. \A t \in Tracks : \A i \in IdOf(moved, t) : i \in IdOf(v, t) \/ <<t, i>> \in K \X {m}
    BY <1>7, <1>8, <1>9 DEF IdOf
  <2>2. DOMAIN moved.barred = Tracks
    BY <1>7, <1>8 DEF Shaped
  <2> QED BY <1>7, <1>8, <2>1, <2>2, FrameOwners
<1>11. Frame(moved, d, {}, {}) /\ DOMAIN d.ids = DOMAIN s.ids \ {g}
  BY <1>7, <1>8, <1>10, FrameDrop DEF Frame
<1> HIDE DEF d
<1>12. Frame(d, r, {}, retired)
  BY <1>2, <1>11, FrameClear DEF Frame
<1>13. retired \cap DOMAIN r.bound = {} /\ DOMAIN r.ids = DOMAIN s.ids \ {g}
  BY <1>2, <1>11, ClearedTracks DEF Frame
<1>14. Frame(s, r, K \X {m}, retired)
  <2>1. Frame(s, v, K \X {m}, retired)
    BY <1>6, FrameMore DEF Quiet
  <2>2. Frame(v, moved, K \X {m}, retired)
    BY <1>10, FrameMore
  <2>3. Frame(moved, d, K \X {m}, retired)
    BY <1>11, FrameMore
  <2>4. Frame(d, r, K \X {m}, retired)
    BY <1>12, FrameMore
  <2> QED BY <2>1, <2>2, <2>3, <2>4, FrameOn
<1>15. Proper(s, r, K \X {m}, TRUE)
  <2>1. ASSUME NEW t \in K
        PROVE  VisibleOwners(s, m, t) = {} /\ g \in IdOf(s, t)
    <3>1. \A u \in K : u \in DOMAIN s.bound /\ s.bound[u] = g
      BY DEF LiveMembers, BoundTo
    <3>2. m \notin IdOf(s, t) /\ g \in IdOf(s, t)
      BY <1>3, <3>1 DEF IdOf
    <3>3. VisibleOwners(s, m, t) \ K = {}
      BY <3>2 DEF SecondOwner
    <3> QED BY <1>3, <3>1, <3>2, <3>3 DEF VisibleOwners, BoundTo
  <2> HIDE DEF K
  <2> QED BY <1>13, <2>1 DEF Proper
<1> HIDE DEF K
<1> QED BY <1>13, <1>14, <1>15, LawfulFrame

LEMMA LawfulSearch ==
  ASSUME NEW s, Good(s), NEW t \in Tracks, t \in DOMAIN s.bound, s.bound[t] \in Groups \cap DOMAIN s.ids,
         NEW r \in Search(s, t)
  PROVE  Lawful(s, r, TRUE)
<1> DEFINE g == s.bound[t]
           K == LiveMembers(s, g)
           record == [s.ids[g] EXCEPT !.checked = @ \cup {t}]
           checked == Revise(s, g, record)
           blocked(m) == [checked.ids[g] EXCEPT !.blocked = {m}]
           block(m) == Revise(checked, g, blocked(m))
           free == {m \in DOMAIN s.ids \cap Masters : m \notin ActiveIds(s, t)}
<1>1. \/ r \in Evaluate(Finish(checked, t), g)
      \/ \E m \in Contestable(s, t) : r = StartContest(s, t, m)
      \/ r = Retry(s, t)
      \/ \E m \in free : r \in Evaluate(Finish(block(m), t), g)
      \/ \E m \in free : ~ SecondOwner(s, m, K) /\ r \in Merge(checked, g, m)
  BY DEF Search
<1>2. Shaped(s) /\ g \in Groups \cap DOMAIN s.ids
  BY DEF Good
<1>3. /\ DOMAIN record = DOMAIN s.ids[g] /\ record.pending = s.ids[g].pending /\ record.members = s.ids[g].members
      /\ record.doubted = s.ids[g].doubted /\ record.refused = s.ids[g].refused
  BY <1>2 DEF Shaped
<1>4. {"members", "pending", "doubted", "refused"} \subseteq DOMAIN record
  BY <1>2, <1>3 DEF Shaped
<1> HIDE DEF g, record
<1>5. Quiet(s, checked) /\ checked.ids[g] = record
  <2>1. Sure(s, g) \subseteq record.refused \cap (record.pending \cup record.doubted)
    BY <1>3 DEF Sure
  <2> QED BY <1>2, <1>4, <2>1, QuietRevise
<1> HIDE DEF checked
<1>6. Good(checked) /\ Shaped(checked) /\ g \in Groups \cap DOMAIN checked.ids
  BY <1>2, <1>5, QuietGood DEF Quiet, Good
<1>7. ASSUME NEW v, Quiet(s, v), r \in Evaluate(Finish(v, t), g)
      PROVE  Lawful(s, r, TRUE)
  <2>1. Shaped(v)
    BY <1>7 DEF Quiet, Frame
  <2>2. Quiet(s, Finish(v, t))
    BY <1>7, <2>1, QuietFinish, QuietOn
  <2>3. Good(Finish(v, t))
    BY <2>2, QuietGood
  <2>4. Lawful(Finish(v, t), r, FALSE)
    BY <1>2, <1>7, <2>3, LawfulEvaluate
  <2> QED BY <2>2, <2>4, LawfulAfter, LawfulMore
<1>8. ASSUME NEW m \in Contestable(s, t), r = StartContest(s, t, m)
      PROVE  Lawful(s, r, TRUE)
  BY <1>2, <1>8, QuietContest, QuietLawful
<1>9. ASSUME r = Retry(s, t)
      PROVE  Lawful(s, r, TRUE)
  BY <1>2, <1>9, QuietRetry, QuietLawful
<1>10. ASSUME NEW m \in free
       PROVE  Quiet(s, block(m))
  <2>1. /\ DOMAIN blocked(m) = DOMAIN record /\ blocked(m).pending = record.pending
        /\ blocked(m).doubted = record.doubted /\ blocked(m).refused = record.refused
    BY <1>4, <1>5
  <2> HIDE DEF blocked
  <2>2. {"members", "pending", "doubted", "refused"} \subseteq DOMAIN blocked(m)
    BY <1>4, <2>1
  <2>3. Sure(checked, g) \subseteq blocked(m).refused \cap (blocked(m).pending \cup blocked(m).doubted)
    BY <1>5, <2>1 DEF Sure
  <2>4. Quiet(checked, block(m))
    BY <1>6, <2>2, <2>3, QuietRevise
  <2> QED BY <1>5, <2>4, QuietOn
<1>11. ASSUME NEW m \in free, ~ SecondOwner(s, m, K), r \in Merge(checked, g, m)
       PROVE  Lawful(s, r, TRUE)
  <2>1. m \in Masters \cap DOMAIN checked.ids
    BY <1>5 DEF Quiet
  <2>2. LiveMembers(checked, g) = K
    BY <1>3, <1>5 DEF LiveMembers, BoundTo, Quiet
  <2>3. SecondOwner(checked, m, K) <=> SecondOwner(s, m, K)
    BY <1>5 DEF SecondOwner, VisibleOwners, BoundTo, IdOf, Quiet
  <2> HIDE DEF K
  <2>4. Lawful(checked, r, TRUE)
    BY <1>6, <1>11, <2>1, <2>2, <2>3, LawfulMerge
  <2> QED BY <1>5, <2>4, LawfulAfter
<1> HIDE DEF block, K, free
<1> QED BY <1>1, <1>5, <1>7, <1>8, <1>9, <1>10, <1>11

LEMMA LawfulStoreForGroup ==
  ASSUME NEW s, Good(s), NEW t \in Tracks, t \in DOMAIN s.bound, s.bound[t] \in Groups \cap DOMAIN s.ids,
         NEW r \in StoreForGroup(s, t)
  PROVE  Lawful(s, r, TRUE)
<1> DEFINE g == s.bound[t]
           c == CameraOf[t]
<1>1. PICK kept \in KeepCrops(s, t) : r \in Search(kept, t)
  BY DEF StoreForGroup
<1>2. PICK V \in {{}, {c}} :
        kept = Revise(s, g, [s.ids[g] EXCEPT !.shots = @ \cup {c}, !.views = @ \cup V, !.members = @ \cup {t}])
  BY <1>1 DEF KeepCrops
<1> DEFINE record == [s.ids[g] EXCEPT !.shots = @ \cup {c}, !.views = @ \cup V, !.members = @ \cup {t}]
<1>3. Shaped(s) /\ g \in DOMAIN s.ids
  BY DEF Good
<1>4. /\ DOMAIN record = DOMAIN s.ids[g] /\ record.pending = s.ids[g].pending
      /\ record.doubted = s.ids[g].doubted /\ record.refused = s.ids[g].refused
  BY <1>3 DEF Shaped
<1>5. {"members", "pending", "doubted", "refused"} \subseteq DOMAIN record
  BY <1>3, <1>4 DEF Shaped
<1>6. kept = Revise(s, g, record)
  BY <1>2
<1> HIDE DEF record
<1>7. Quiet(s, kept)
  <2>1. Sure(s, g) \subseteq record.refused \cap (record.pending \cup record.doubted)
    BY <1>4 DEF Sure
  <2> HIDE DEF g
  <2> QED BY <1>3, <1>5, <1>6, <2>1, QuietRevise
<1>8. Good(kept) /\ t \in DOMAIN kept.bound /\ kept.bound[t] \in Groups \cap DOMAIN kept.ids
  BY <1>7, QuietGood DEF Quiet
<1>9. Lawful(kept, r, TRUE)
  BY <1>1, <1>8, LawfulSearch
<1> QED BY <1>7, <1>9, LawfulAfter

\* The answer about one member disturbs nobody else.
LEMMA FrameConfirm ==
  ASSUME NEW s, Shaped(s), NEW i \in DOMAIN s.ids, NEW byLocation, NEW t
  PROVE  LET r == Confirm(s, i, byLocation, {t})
         IN Frame(s, r, {}, {t}) /\ DOMAIN r.ids = DOMAIN s.ids
<1> DEFINE ready == Confirmable(s, i, byLocation) \cap {t}
           record == [s.ids[i] EXCEPT !.pending = @ \ ready, !.doubted = @ \ ready]
           matched == ready \cap BoundTo(s, i)
           v == Revise(s, i, record)
           r == [v EXCEPT !.staged = @ \ ready, !.done = @ \cup matched]
<1>1. Confirm(s, i, byLocation, {t}) = r
  BY DEF Confirm
<1>2. ready \subseteq {t}
  OBVIOUS
<1> HIDE DEF ready
<1>3. /\ DOMAIN record = DOMAIN s.ids[i] /\ record.pending = s.ids[i].pending \ ready
      /\ record.doubted = s.ids[i].doubted \ ready /\ record.refused = s.ids[i].refused
  BY DEF Shaped
<1>4. {"members", "pending", "doubted", "refused"} \subseteq DOMAIN record
  BY <1>3 DEF Shaped
<1> HIDE DEF record, matched
<1>5. Frame(s, v, {}, {t}) /\ DOMAIN v.ids = DOMAIN s.ids /\ Shaped(v)
  <2>1. Sure(s, i) \ {t} \subseteq record.refused \cap (record.pending \cup record.doubted)
    BY <1>2, <1>3 DEF Sure
  <2> QED BY <1>4, <2>1, FrameGrow
<1> HIDE DEF v
<1>6. /\ DOMAIN r = DOMAIN v /\ r.ids = v.ids /\ r.bound = v.bound /\ r.barred = v.barred
      /\ r.contest = v.contest
  BY <1>5 DEF Shaped
<1> HIDE DEF r
<1>7. Frame(v, r, {}, {t})
  <2>1. Frame(v, r, {}, {})
    BY <1>5, <1>6, FrameBeside
  <2> QED BY <2>1, FrameMore
<1> QED BY <1>1, <1>5, <1>6, <1>7, FrameOn

LEMMA FrameMember ==
  ASSUME NEW s, Shaped(s), NEW t \in Tracks, t \in DOMAIN s.bound, s.bound[t] \in DOMAIN s.ids,
         NEW r \in StoreForMember(s, t)
  PROVE  Frame(s, r, {}, {t})
<1> DEFINE m == s.bound[t]
           listed == [s.ids[m] EXCEPT !.members = @ \cup {t}]
           s0 == Revise(s, m, listed)
           s1 == [s0 EXCEPT !.staged = @ \cup {t}]
           seen == [s1.ids[m] EXCEPT !.checked = @ \cup {t}]
           s2 == Revise(s1, m, seen)
           confirmed == Confirm(s2, m, FALSE, {t})
           sure == [confirmed.ids[m] EXCEPT !.pending = @ \ {t}, !.doubted = @ \ {t}, !.refused = @ \ {t}]
           accepted == Revise(confirmed, m, sure)
           doubt == [s2.ids[m] EXCEPT !.pending = @ \ {t}, !.doubted = @ \cup {t}, !.refused = @ \cup {t}]
           argued == Revise(s2, m, doubt)
           challenged == [argued EXCEPT !.staged = @ \ {t}]
           other == [s2.ids[m] EXCEPT !.refused = @ \cup {t}]
           unlike == Revise(s2, m, other)
<1>1. \/ r = Retry(s1, t)
      \/ \E s3 \in {accepted, challenged, unlike, s2} : r = Finish(s3, t)
  BY DEF StoreForMember
<1>2. ASSUME NEW v, Shaped(v), NEW record, m \in DOMAIN v.ids,
             DOMAIN record = DOMAIN v.ids[m], v.ids[m].pending \ {t} \subseteq record.pending,
             v.ids[m].doubted \ {t} \subseteq record.doubted, v.ids[m].refused \ {t} \subseteq record.refused
      PROVE  /\ Frame(v, Revise(v, m, record), {}, {t}) /\ Shaped(Revise(v, m, record))
             /\ m \in DOMAIN Revise(v, m, record).ids
  <2>1. {"members", "pending", "doubted", "refused"} \subseteq DOMAIN record
    BY <1>2 DEF Shaped
  <2>2. Sure(v, m) \ {t} \subseteq record.refused \cap (record.pending \cup record.doubted)
    BY <1>2 DEF Sure
  <2> HIDE DEF m
  <2> QED BY <1>2, <2>1, <2>2, FrameGrow
<1>3. ASSUME NEW v, Shaped(v), NEW S
      PROVE  LET w == [v EXCEPT !.staged = S] IN Frame(v, w, {}, {t}) /\ Shaped(w) /\ w.ids = v.ids
  <2> DEFINE w == [v EXCEPT !.staged = S]
  <2>1. /\ DOMAIN w = DOMAIN v /\ w.ids = v.ids /\ w.bound = v.bound /\ w.barred = v.barred
        /\ w.contest = v.contest
    BY <1>3 DEF Shaped
  <2> HIDE DEF w
  <2>2. Frame(v, w, {}, {})
    BY <1>3, <2>1, FrameBeside
  <2>3. Frame(v, w, {}, {t})
    BY <2>2, FrameMore
  <2> QED BY <2>1, <2>2, <2>3 DEF Frame, w
<1>4. m \in DOMAIN s.ids
  OBVIOUS
<1> HIDE DEF m
<1>5. /\ DOMAIN listed = DOMAIN s.ids[m] /\ listed.pending = s.ids[m].pending
      /\ listed.doubted = s.ids[m].doubted /\ listed.refused = s.ids[m].refused
  BY <1>4 DEF Shaped
<1> HIDE DEF listed
<1>6. Frame(s, s0, {}, {t}) /\ Shaped(s0) /\ m \in DOMAIN s0.ids
  BY <1>2, <1>4, <1>5
<1> HIDE DEF s0
<1>7. Frame(s0, s1, {}, {t}) /\ Shaped(s1) /\ m \in DOMAIN s1.ids
  BY <1>3, <1>6
<1> HIDE DEF s1
<1>8. Frame(s, s1, {}, {t})
  BY <1>6, <1>7, FrameOn
<1>9. /\ DOMAIN seen = DOMAIN s1.ids[m] /\ seen.pending = s1.ids[m].pending
      /\ seen.doubted = s1.ids[m].doubted /\ seen.refused = s1.ids[m].refused
  BY <1>7 DEF Shaped
<1> HIDE DEF seen
<1>10. Frame(s1, s2, {}, {t}) /\ Shaped(s2) /\ m \in DOMAIN s2.ids
  BY <1>2, <1>7, <1>9
<1> HIDE DEF s2
<1>11. Frame(s2, confirmed, {}, {t}) /\ Shaped(confirmed) /\ m \in DOMAIN confirmed.ids
  BY <1>10, FrameConfirm DEF Frame
<1> HIDE DEF confirmed
<1>12. /\ DOMAIN sure = DOMAIN confirmed.ids[m] /\ sure.pending = confirmed.ids[m].pending \ {t}
       /\ sure.doubted = confirmed.ids[m].doubted \ {t} /\ sure.refused = confirmed.ids[m].refused \ {t}
  BY <1>11 DEF Shaped
<1> HIDE DEF sure
<1>13. Frame(confirmed, accepted, {}, {t})
  BY <1>2, <1>11, <1>12
<1>14. /\ DOMAIN doubt = DOMAIN s2.ids[m] /\ doubt.pending = s2.ids[m].pending \ {t}
       /\ doubt.doubted = s2.ids[m].doubted \cup {t} /\ doubt.refused = s2.ids[m].refused \cup {t}
  BY <1>10 DEF Shaped
<1> HIDE DEF doubt
<1>15. Frame(s2, argued, {}, {t}) /\ Shaped(argued)
  BY <1>2, <1>10, <1>14
<1> HIDE DEF argued
<1>16. Frame(argued, challenged, {}, {t})
  BY <1>3, <1>15
<1>17. /\ DOMAIN other = DOMAIN s2.ids[m] /\ other.pending = s2.ids[m].pending
       /\ other.doubted = s2.ids[m].doubted /\ other.refused = s2.ids[m].refused \cup {t}
  BY <1>10 DEF Shaped
<1> HIDE DEF other
<1>18. Frame(s2, unlike, {}, {t})
  BY <1>2, <1>10, <1>17
<1> HIDE DEF accepted, challenged, unlike
<1>19. ASSUME NEW s3 \in {accepted, challenged, unlike, s2}
       PROVE  Frame(s, s3, {}, {t})
  <2>1. Frame(s, s2, {}, {t})
    BY <1>8, <1>10, FrameOn
  <2>2. Frame(s2, accepted, {}, {t})
    BY <1>11, <1>13, FrameOn
  <2>3. Frame(s2, challenged, {}, {t})
    BY <1>15, <1>16, FrameOn
  <2> QED BY <1>18, <2>1, <2>2, <2>3, FrameOn
<1>20. ASSUME NEW v, Frame(s, v, {}, {t}), NEW w, Quiet(v, w)
       PROVE  Frame(s, w, {}, {t})
  <2>1. Frame(v, w, {}, {t})
    BY <1>20, FrameMore DEF Quiet
  <2> QED BY <1>20, <2>1, FrameOn
<1>21. CASE r = Retry(s1, t)
  BY <1>7, <1>8, <1>20, <1>21, QuietRetry
<1>22. ASSUME NEW s3 \in {accepted, challenged, unlike, s2}, r = Finish(s3, t)
       PROVE  Frame(s, r, {}, {t})
  <2>1. Frame(s, s3, {}, {t}) /\ Shaped(s3)
    BY <1>19 DEF Frame
  <2>2. Quiet(s3, r)
    BY <1>22, <2>1, QuietFinish
  <2> QED BY <1>20, <2>1, <2>2
<1> QED BY <1>1, <1>21, <1>22

LEMMA FrameTakes ==
  ASSUME NEW s, Shaped(s), NEW t \in Tracks, NEW m
  PROVE  LET r == Bind(s, t, m)
         IN Frame(s, r, {<<t, m>>}, {}) /\ DOMAIN r.bound = DOMAIN s.bound \cup {t}
<1> DEFINE bound == Set(s.bound, t, m)
           intake == Without(s.intake, {t})
           barred == [s.barred EXCEPT ![t] = {}]
           r == [s EXCEPT !.bound = bound, !.intake = intake, !.done = @ \ {t}, !.barred = barred]
<1>1. Bind(s, t, m) = r
  BY DEF Bind
<1>2. DOMAIN bound = DOMAIN s.bound \cup {t} /\ \A u \in DOMAIN bound : bound[u] = IF u = t THEN m ELSE s.bound[u]
  BY DEF Set
<1>3. DOMAIN barred = Tracks /\ \A u \in Tracks : barred[u] \subseteq s.barred[u]
  BY DEF Shaped
<1> HIDE DEF bound, intake, barred
<1>4. /\ DOMAIN r = DOMAIN s /\ r.ids = s.ids /\ r.contest = s.contest /\ r.bound = bound /\ r.barred = barred
  BY DEF Shaped
<1> HIDE DEF r
<1>5. \A u \in Tracks : \A i \in IdOf(r, u) : i \in IdOf(s, u) \/ <<u, i>> \in {<<t, m>>}
  BY <1>2, <1>4 DEF IdOf
<1>6. Frame(s, r, {<<t, m>>}, {})
  BY <1>3, <1>4, <1>5, FrameOwners
<1> QED BY <1>1, <1>2, <1>4, <1>6

LEMMA LawfulCreate ==
  ASSUME NEW s, Good(s), NEW t \in Tracks, NEW r \in Create(s, t)
  PROVE  Lawful(s, r, FALSE)
<1> DEFINE m == s.masters + 1
           entry == [s.intake[t] EXCEPT !.why = @ \cup {"hold"}]
           intake == Set(s.intake, t, entry)
           record == NewRecord("confirmed", {CameraOf[t]})
           ids == Set(s.ids, m, record)
           w == [s EXCEPT !.intake = intake]
           v == [s EXCEPT !.masters = m, !.ids = ids]
<1>1. r = w \/ (m <= MaxMasters /\ r = Bind(v, t, m))
  <2>1. \A a \in Nat : ~(a > MaxMasters) => a <= MaxMasters
    BY NumberFacts
  <2> QED BY <2>1 DEF Create, Good
<1>2. Shaped(s) /\ m \notin DOMAIN s.ids
  BY NumberFacts DEF Good, Groups
<1>3. CASE r = w
  <2> HIDE DEF intake
  <2>1. /\ DOMAIN r = DOMAIN s /\ r.ids = s.ids /\ r.bound = s.bound /\ r.barred = s.barred
        /\ r.contest = s.contest /\ r.visible = s.visible /\ r.masters = s.masters
    BY <1>2, <1>3 DEF Shaped
  <2> QED BY <1>2, <2>1, QuietBeside, QuietLawful
<1>4. CASE r = Bind(v, t, m)
  <2>1. {"members", "pending", "doubted", "refused"} \subseteq DOMAIN record
    BY DEF NewRecord
  <2>2. DOMAIN ids = DOMAIN s.ids \cup {m} /\ ids[m] = record /\ \A i \in DOMAIN s.ids \ {m} : ids[i] = s.ids[i]
    BY DEF Set
  <2> HIDE DEF record, ids, m
  <2>3. /\ DOMAIN v = DOMAIN s /\ v.ids = ids /\ v.bound = s.bound /\ v.barred = s.barred
        /\ v.contest = s.contest
    BY <1>2 DEF Shaped
  <2> HIDE DEF v
  <2>4. Shaped(v)
    BY <1>2, <2>1, <2>2, <2>3 DEF Shaped
  <2>5. Bars(s) => Bars(v)
    BY <2>2, <2>3 DEF Bars
  <2>6. \A i \in Masters \cap DOMAIN s.ids : i \in DOMAIN v.ids /\ Sure(s, i) \ {} \subseteq Sure(v, i)
    BY <1>2, <2>2, <2>3 DEF Sure
  <2>7. Frame(s, v, {}, {})
    BY <2>3, <2>4, <2>5, <2>6 DEF Frame, IdOf
  <2>8. Frame(s, v, {<<t, m>>}, {})
    BY <2>7, FrameMore
  <2>9. Frame(v, r, {<<t, m>>}, {})
    BY <1>4, <2>4, FrameTakes
  <2>10. Frame(s, r, {<<t, m>>}, {})
    BY <2>8, <2>9, FrameOn
  <2>11. BoundTo(s, m) = {}
    BY <1>2 DEF Good, BoundTo
  <2>12. Bars(s) => Proper(s, r, {<<t, m>>}, FALSE)
    BY <1>2, <2>11 DEF Proper, VisibleOwners, Bars
  <2>13. {} \cap DOMAIN r.bound = {}
    OBVIOUS
  <2> QED BY <2>10, <2>12, <2>13, LawfulFrame
<1> QED BY <1>1, <1>3, <1>4

LEMMA LawfulOrdinary ==
  ASSUME NEW s, Good(s), NEW t \in Tracks, NEW r \in Ordinary(s, t)
  PROVE  Lawful(s, r, FALSE)
<1> DEFINE free == {m \in DOMAIN s.ids \cap Masters : m \notin ActiveIds(s, t) \cup s.barred[t]}
<1>1. \/ \E m \in free : r = Bind(ClearNonvisibleOwners(s, m, t), t, m)
      \/ r = Retry(s, t)
      \/ \E m \in Contestable(s, t) : r = StartContest(s, t, m)
      \/ r \in Create(s, t)
  BY DEF Ordinary
<1>2. Shaped(s)
  BY DEF Good
<1>3. ASSUME NEW m \in free, r = Bind(ClearNonvisibleOwners(s, m, t), t, m)
      PROVE  Lawful(s, r, FALSE)
  <2> DEFINE hidden == (Peers(t) \cap BoundTo(s, m)) \ s.visible
             v == ClearBindings(s, hidden)
  <2>1. r = Bind(v, t, m)
    BY <1>3 DEF ClearNonvisibleOwners
  <2>2. t \notin hidden
    BY DEF Peers
  <2> HIDE DEF hidden
  <2>3. Frame(s, v, {}, hidden) /\ DOMAIN v.bound = DOMAIN s.bound \ hidden
    BY <1>2, FrameClear, ClearedTracks
  <2>4. Frame(v, r, {<<t, m>>}, {}) /\ DOMAIN r.bound = DOMAIN v.bound \cup {t}
    BY <2>1, <2>3, FrameTakes DEF Frame
  <2> HIDE DEF v
  <2>5. Frame(s, v, {<<t, m>>}, hidden)
    BY <2>3, FrameMore
  <2>6. Frame(v, r, {<<t, m>>}, hidden)
    BY <2>4, FrameMore
  <2>7. Frame(s, r, {<<t, m>>}, hidden)
    BY <2>5, <2>6, FrameOn
  <2>8. hidden \cap DOMAIN r.bound = {}
    BY <2>2, <2>3, <2>4
  <2>9. VisibleOwners(s, m, t) = {} /\ m \notin s.barred[t]
    BY DEF VisibleOwners, ActiveIds, BoundTo
  <2>10. Proper(s, r, {<<t, m>>}, FALSE)
    BY <2>9 DEF Proper
  <2> QED BY <2>7, <2>8, <2>10, LawfulFrame
<1>4. ASSUME NEW m \in Contestable(s, t), r = StartContest(s, t, m)
      PROVE  Lawful(s, r, FALSE)
  BY <1>2, <1>4, QuietContest, QuietLawful
<1>5. CASE r = Retry(s, t)
  BY <1>2, <1>5, QuietRetry, QuietLawful
<1>6. CASE r \in Create(s, t)
  BY <1>6, LawfulCreate
<1> QED BY <1>1, <1>3, <1>4, <1>5, <1>6

LEMMA FrameAudited ==
  ASSUME NEW s, Shaped(s), NEW t \in Tracks, t \in DOMAIN s.bound, NEW rival \in DOMAIN s.ids, rival # s.bound[t]
  PROVE  LET r == Audited(s, t, rival)
         IN \/ Frame(s, r, {}, {})
            \/ Frame(s, r, {<<t, rival>>}, {t}) /\ VisibleOwners(s, rival, t) = {}
<1> DEFINE won == 1 + IF t \in DOMAIN s.rivals /\ s.rivals[t].id = rival THEN s.rivals[t].rounds ELSE 0
           rivals == Set(s.rivals, t, [id |-> rival, rounds |-> IF won > Rounds THEN Rounds ELSE won])
           counted == [s EXCEPT !.rivals = rivals]
           moved == ClearBindings(s, {t})
           record == [moved.ids[rival] EXCEPT !.members = @ \cup {t}]
           v == Revise(moved, rival, record)
           bound == Set(v.bound, t, rival)
           r == [v EXCEPT !.bound = bound]
<1>1. \/ Audited(s, t, rival) = counted
      \/ Audited(s, t, rival) = r /\ ~ SecondOwner(s, rival, {t})
  BY DEF Audited
<1> HIDE DEF rivals
<1>2. Frame(s, counted, {}, {})
  <2>1. /\ DOMAIN counted = DOMAIN s /\ counted.ids = s.ids /\ counted.bound = s.bound
        /\ counted.barred = s.barred /\ counted.contest = s.contest
    BY DEF Shaped
  <2> QED BY <2>1, FrameBeside
<1>3. ASSUME ~ SecondOwner(s, rival, {t})
      PROVE  Frame(s, r, {<<t, rival>>}, {t}) /\ VisibleOwners(s, rival, t) = {}
  <2>1. Frame(s, moved, {}, {t}) /\ DOMAIN moved.ids = DOMAIN s.ids
    BY FrameClear, ClearedTracks
  <2> HIDE DEF moved
  <2>2. Shaped(moved) /\ rival \in DOMAIN moved.ids
    BY <2>1 DEF Frame
  <2>3. /\ DOMAIN record = DOMAIN moved.ids[rival] /\ record.pending = moved.ids[rival].pending
        /\ record.doubted = moved.ids[rival].doubted /\ record.refused = moved.ids[rival].refused
    BY <2>2 DEF Shaped
  <2>4. {"members", "pending", "doubted", "refused"} \subseteq DOMAIN record
    BY <2>2, <2>3 DEF Shaped
  <2> HIDE DEF record
  <2>5. Quiet(moved, v)
    <3>1. Sure(moved, rival) \subseteq record.refused \cap (record.pending \cup record.doubted)
      BY <2>3 DEF Sure
    <3> QED BY <2>2, <2>4, <3>1, QuietRevise
  <2> HIDE DEF v
  <2>6. DOMAIN bound = DOMAIN v.bound \cup {t} /\ \A u \in DOMAIN bound : bound[u] = IF u = t THEN rival ELSE v.bound[u]
    BY DEF Set
  <2> HIDE DEF bound
  <2>7. Shaped(v)
    BY <2>5 DEF Quiet, Frame
  <2>8. /\ DOMAIN r = DOMAIN v /\ r.ids = v.ids /\ r.contest = v.contest /\ r.barred = v.barred
        /\ r.bound = bound /\ DOMAIN r.barred = Tracks
    BY <2>7 DEF Shaped
  <2> HIDE DEF r
  <2>9. \A u \in Tracks : \A i \in IdOf(r, u) : i \in IdOf(v, u) \/ <<u, i>> \in {<<t, rival>>}
    BY <2>6, <2>8 DEF IdOf
  <2>10. Frame(v, r, {<<t, rival>>}, {})
    BY <2>7, <2>8, <2>9, FrameOwners
  <2>11. Frame(s, moved, {<<t, rival>>}, {t})
    BY <2>1, FrameMore
  <2>12. Frame(moved, v, {<<t, rival>>}, {t})
    BY <2>5, FrameMore DEF Quiet
  <2>13. Frame(v, r, {<<t, rival>>}, {t})
    BY <2>10, FrameMore
  <2>14. Frame(s, r, {<<t, rival>>}, {t})
    BY <2>11, <2>12, <2>13, FrameOn
  <2>15. VisibleOwners(s, rival, t) \ {t} = {}
    BY <1>3 DEF SecondOwner, IdOf
  <2>16. t \notin VisibleOwners(s, rival, t)
    BY DEF VisibleOwners, Peers
  <2> QED BY <2>14, <2>15, <2>16
<1> HIDE DEF counted, r
<1> QED BY <1>1, <1>2, <1>3

\* Contests only end when tracks are cleared.
LEMMA ClearedContests ==
  ASSUME NEW s, Shaped(s), NEW T
  PROVE  DOMAIN ClearBindings(s, T).contest \subseteq DOMAIN s.contest
<1>1. CASE T = {}
  BY <1>1 DEF ClearBindings
<1>2. CASE T # {}
  <2> DEFINE ended == ContestsOf(s, T) \cap DOMAIN s.contest
             waiting == {t \in DOMAIN s.intake : \E m \in ended :
                           t = s.contest[m].chal /\ s.intake[t].gen = s.contest[m].gen}
             contest == Without(s.contest, ended)
             v == [s EXCEPT !.contest = contest]
             w == CancelContests(s, ContestsOf(s, T))
  <2>1. DOMAIN contest = DOMAIN s.contest \ ended
    BY WithoutDomain
  <2>2. w = Rearm(v, waiting, "contest")
    BY DEF CancelContests
  <2>3. Frame(s, w, {}, {})
    BY FrameCancel
  <2> HIDE DEF contest, waiting, w
  <2>4. v.contest = contest /\ DOMAIN v = DOMAIN s
    BY DEF Shaped
  <2> HIDE DEF v
  <2> DEFINE intake == [t \in DOMAIN v.intake |->
                          IF t \in waiting THEN [v.intake[t] EXCEPT !.submitted = FALSE, !.why = @ \ {"contest"}]
                                           ELSE v.intake[t]]
  <2>5. Rearm(v, waiting, "contest") = v \/ Rearm(v, waiting, "contest") = [v EXCEPT !.intake = intake]
    BY DEF Rearm
  <2> HIDE DEF intake
  <2>6. w.contest = contest
    BY <2>2, <2>4, <2>5 DEF Shaped
  <2>7. Forget(w, T).contest = w.contest
    BY <2>3 DEF Frame, Shaped, Forget
  <2>8. ClearBindings(s, T) = Forget(w, T)
    BY <1>2 DEF ClearBindings, w
  <2> QED BY <2>1, <2>6, <2>7, <2>8
<1> QED BY <1>1, <1>2

LEMMA FrameWinner ==
  ASSUME NEW s, Shaped(s), NEW m \in DOMAIN s.ids, NEW t \in Tracks, IdOf(s, t) \cap Masters = {}
  PROVE  LET r == WinnerTakes(s, m, t)
         IN /\ DOMAIN r.contest \subseteq DOMAIN s.contest
            /\ \E X : /\ Frame(s, r, {<<t, m>>}, X) /\ X \cap DOMAIN r.bound = {}
                      /\ DOMAIN r.bound \subseteq DOMAIN s.bound \cup {t}
<1> DEFINE hidden == (Peers(t) \cap BoundTo(s, m)) \ s.visible
           s1 == ClearBindings(s, hidden)
           s2 == IF t \in DOMAIN s1.bound THEN ClearBindings(s1, {t}) ELSE s1
           record == [s2.ids[m] EXCEPT !.members = @ \cup {t}]
           v == Revise(s2, m, record)
           bound == Set(v.bound, t, m)
           intake == Without(v.intake, {t})
           barred == [v.barred EXCEPT ![t] = {}]
           r == [v EXCEPT !.bound = bound, !.intake = intake, !.barred = barred]
<1>1. WinnerTakes(s, m, t) = r
  BY DEF WinnerTakes, ClearNonvisibleOwners
<1>2. t \notin hidden
  BY DEF Peers
<1> HIDE DEF hidden
<1>3. /\ Frame(s, s1, {}, hidden) /\ DOMAIN s1.bound = DOMAIN s.bound \ hidden /\ DOMAIN s1.ids = DOMAIN s.ids
      /\ DOMAIN s1.contest \subseteq DOMAIN s.contest
  BY FrameClear, ClearedTracks, ClearedContests
<1> HIDE DEF s1
<1>4. Shaped(s1) /\ IdOf(s1, t) \cap Masters = {}
  BY <1>3 DEF Frame
<1>5. /\ Frame(s1, s2, {}, {}) /\ DOMAIN s2.bound \subseteq DOMAIN s1.bound /\ DOMAIN s2.ids = DOMAIN s1.ids
      /\ DOMAIN s2.contest \subseteq DOMAIN s1.contest
  <2>1. \A u \in {t} \ {} : IdOf(s1, u) \cap Masters = {}
    BY <1>4
  <2> QED BY <1>4, <2>1, FrameSelf, FrameClear, ClearedTracks, ClearedContests
<1> HIDE DEF s2
<1>6. Shaped(s2) /\ m \in DOMAIN s2.ids
  BY <1>3, <1>5 DEF Frame
<1>7. /\ DOMAIN record = DOMAIN s2.ids[m] /\ record.pending = s2.ids[m].pending
      /\ record.doubted = s2.ids[m].doubted /\ record.refused = s2.ids[m].refused
  BY <1>6 DEF Shaped
<1>8. {"members", "pending", "doubted", "refused"} \subseteq DOMAIN record
  BY <1>6, <1>7 DEF Shaped
<1> HIDE DEF record
<1>9. Quiet(s2, v) /\ v.contest = s2.contest
  <2>1. Sure(s2, m) \subseteq record.refused \cap (record.pending \cup record.doubted)
    BY <1>7 DEF Sure
  <2>2. v.contest = s2.contest
    BY <1>6 DEF Revise, Shaped
  <2> QED BY <1>6, <1>8, <2>1, <2>2, QuietRevise
<1> HIDE DEF v
<1>10. Shaped(v)
  BY <1>9 DEF Quiet, Frame
<1>11. DOMAIN bound = DOMAIN v.bound \cup {t} /\ \A u \in DOMAIN bound : bound[u] = IF u = t THEN m ELSE v.bound[u]
  BY DEF Set
<1>12. DOMAIN barred = Tracks /\ \A u \in Tracks : barred[u] \subseteq v.barred[u]
  BY <1>10 DEF Shaped
<1> HIDE DEF bound, intake, barred
<1>13. /\ DOMAIN r = DOMAIN v /\ r.ids = v.ids /\ r.contest = v.contest /\ r.bound = bound /\ r.barred = barred
  BY <1>10 DEF Shaped
<1> HIDE DEF r
<1>14. Frame(v, r, {<<t, m>>}, {})
  <2>1. \A u \in Tracks : \A i \in IdOf(r, u) : i \in IdOf(v, u) \/ <<u, i>> \in {<<t, m>>}
    BY <1>11, <1>13 DEF IdOf
  <2> QED BY <1>10, <1>12, <1>13, <2>1, FrameOwners
<1>15. Frame(s, r, {<<t, m>>}, hidden)
  <2>1. Frame(s, s1, {<<t, m>>}, hidden)
    BY <1>3, FrameMore
  <2>2. Frame(s1, s2, {<<t, m>>}, hidden)
    BY <1>5, FrameMore
  <2>3. Frame(s2, v, {<<t, m>>}, hidden)
    BY <1>9, FrameMore DEF Quiet
  <2>4. Frame(v, r, {<<t, m>>}, hidden)
    BY <1>14, FrameMore
  <2> QED BY <2>1, <2>2, <2>3, <2>4, FrameOn
<1>16. DOMAIN r.bound \subseteq (DOMAIN s.bound \ hidden) \cup {t}
  BY <1>3, <1>5, <1>9, <1>11, <1>13 DEF Quiet
<1>17. DOMAIN r.contest \subseteq DOMAIN s.contest
  BY <1>3, <1>5, <1>9, <1>13
<1>18. hidden \cap DOMAIN r.bound = {} /\ DOMAIN r.bound \subseteq DOMAIN s.bound \cup {t}
  BY <1>2, <1>16
<1> QED BY <1>1, <1>15, <1>17, <1>18

LEMMA FrameLost ==
  ASSUME NEW E, NEW s, Sane(s, E), NEW m \in DOMAIN s.contest, NEW waiting
  PROVE  Frame(s, Barred(s, m, waiting), {}, {})
<1> DEFINE t == s.contest[m].chal
           contest == Without(s.contest, {m})
           barred == [s.barred EXCEPT ![t] = @ \cup {m}]
           a == [s EXCEPT !.contest = contest]
           b == [a EXCEPT !.barred = barred]
<1>1. s \in Memory /\ Shaped(s) /\ m \in Masters \cap DOMAIN s.ids
  BY MemoryFacts, ShapedFacts DEF Sane, Exist
<1>2. Barred(s, m, waiting) = Rearm(b, waiting, "contest")
  BY <1>1 DEF Barred, Shaped
<1>3. DOMAIN contest = DOMAIN s.contest \ {m} /\ \A n \in DOMAIN contest : contest[n] = s.contest[n]
  BY WithoutDomain
<1>4. DOMAIN barred = Tracks /\ \A u \in Tracks : barred[u] = IF u = t THEN s.barred[u] \cup {m} ELSE s.barred[u]
  BY <1>1 DEF Shaped
<1> HIDE DEF contest, barred
<1>5. /\ DOMAIN b = DOMAIN s /\ b.ids = s.ids /\ b.bound = s.bound /\ b.contest = contest /\ b.barred = barred
  BY <1>1 DEF Shaped
<1> HIDE DEF b, t
<1>6. Shaped(b)
  BY <1>1, <1>3, <1>4, <1>5 DEF Shaped
<1>7. Bars(s) => Bars(b)
  BY <1>1, <1>3, <1>4, <1>5 DEF Bars, Shaped
<1>8. Frame(s, b, {}, {})
  BY <1>5, <1>6, <1>7 DEF Frame, IdOf, Sure
<1>9. Frame(b, Rearm(b, waiting, "contest"), {}, {})
  BY <1>6, FrameRearm
<1> QED BY <1>2, <1>8, <1>9, FrameOn

LEMMA FrameWon ==
  ASSUME NEW E, NEW s, Sane(s, E), NEW m \in DOMAIN s.contest, NEW barred \in {{}, {m}},
         IdOf(s, s.contest[m].chal) \cap Masters = {}, m \in IdOf(s, s.contest[m].inc)
  PROVE  LET c == s.contest[m]
             a == [s EXCEPT !.contest = Without(s.contest, {m})]
             won == ClearBindings(a, {c.inc})
             r == WinnerTakes([won EXCEPT !.barred[c.inc] = @ \cup barred], m, c.chal)
         IN /\ m \notin DOMAIN r.contest /\ c.inc \notin DOMAIN r.bound
            /\ \E X : Frame(s, r, {<<c.chal, m>>}, X) /\ X \cap DOMAIN r.bound = {}
<1> DEFINE t == s.contest[m].chal
           u == s.contest[m].inc
           contest == Without(s.contest, {m})
           a == [s EXCEPT !.contest = contest]
           won == ClearBindings(a, {u})
           bars == [won.barred EXCEPT ![u] = @ \cup barred]
           v == [won EXCEPT !.barred = bars]
           r == WinnerTakes(v, m, t)
<1>1. /\ s \in Memory /\ Shaped(s) /\ m \in Masters \cap DOMAIN s.ids /\ s.contest[m] \in Contest
  BY MemoryFacts, ShapedFacts DEF Sane, Exist
<1>2. t \in Tracks /\ u \in Tracks /\ t # u
  BY <1>1 DEF Contest, IdOf
<1>3. DOMAIN contest = DOMAIN s.contest \ {m} /\ \A n \in DOMAIN contest : contest[n] = s.contest[n]
  BY WithoutDomain
<1> HIDE DEF contest
<1>4. Frame(s, a, {}, {}) /\ a.bound = s.bound /\ a.ids = s.ids /\ a.contest = contest
  <2>1. Frame(s, a, {}, {}) /\ a.bound = s.bound /\ a.ids = s.ids
    BY <1>1, <1>3, FrameContests
  <2>2. a.contest = contest
    BY <1>1 DEF Shaped
  <2> QED BY <2>1, <2>2
<1> HIDE DEF t, u, a
<1>5. /\ Frame(a, won, {}, {u}) /\ DOMAIN won.bound = DOMAIN a.bound \ {u} /\ DOMAIN won.ids = DOMAIN a.ids
      /\ DOMAIN won.contest \subseteq DOMAIN a.contest
  BY <1>4, FrameClear, ClearedTracks, ClearedContests DEF Frame
<1> HIDE DEF won
<1>6. Shaped(won) /\ Frame(s, won, {}, {u}) /\ m \notin DOMAIN won.contest
  <2>1. Frame(s, a, {}, {u})
    BY <1>4, FrameMore
  <2> QED BY <1>3, <1>4, <1>5, <2>1, FrameOn DEF Frame
<1>7. DOMAIN bars = Tracks /\ \A x \in Tracks : bars[x] = won.barred[x] \/ bars[x] = won.barred[x] \cup {m}
  BY <1>6 DEF Shaped
<1> HIDE DEF bars
<1>8. /\ DOMAIN v = DOMAIN won /\ v.ids = won.ids /\ v.bound = won.bound /\ v.contest = won.contest /\ v.barred = bars
  BY <1>6 DEF Shaped
<1>9. v = [won EXCEPT !.barred[u] = @ \cup barred]
  BY <1>6 DEF Shaped, bars
<1> HIDE DEF v
<1>10. Frame(won, v, {}, {u})
  <2>1. Shaped(v)
    BY <1>6, <1>7, <1>8 DEF Shaped
  <2>2. \A x \in Tracks : v.barred[x] = won.barred[x] \/ v.barred[x] = won.barred[x] \cup {m}
    BY <1>7, <1>8
  <2>3. m \in Masters \cap DOMAIN won.ids
    BY <1>1, <1>4, <1>5
  <2>4. Bars(won) => Bars(v)
    BY <1>6, <1>8, <2>2, <2>3 DEF Bars, Shaped
  <2> QED BY <1>8, <2>1, <2>4 DEF Frame, IdOf, Sure
<1>11. Frame(s, v, {}, {u})
  BY <1>6, <1>10, FrameOn
<1>12. Shaped(v) /\ m \in DOMAIN v.ids /\ IdOf(v, t) \cap Masters = {}
  <2>1. IdOf(v, t) \subseteq IdOf(s, t)
    BY <1>2, <1>11 DEF Frame
  <2>2. IdOf(s, t) \cap Masters = {}
    BY DEF t
  <2> QED BY <1>1, <1>4, <1>5, <1>8, <1>11, <2>1, <2>2 DEF Frame
<1>13. PICK X : /\ Frame(v, r, {<<t, m>>}, X) /\ X \cap DOMAIN r.bound = {}
                /\ DOMAIN r.bound \subseteq DOMAIN v.bound \cup {t} /\ DOMAIN r.contest \subseteq DOMAIN v.contest
  BY <1>2, <1>12, FrameWinner
<1> HIDE DEF r
<1>14. m \notin DOMAIN r.contest /\ u \notin DOMAIN r.bound
  BY <1>2, <1>5, <1>6, <1>8, <1>13
<1>15. Frame(s, r, {<<t, m>>}, X \cup {u})
  <2>1. Frame(s, v, {<<t, m>>}, X \cup {u})
    BY <1>11, FrameMore
  <2>2. Frame(v, r, {<<t, m>>}, X \cup {u})
    BY <1>13, FrameMore
  <2> QED BY <2>1, <2>2, FrameOn
<1>16. (X \cup {u}) \cap DOMAIN r.bound = {}
  BY <1>13, <1>14
<1>17. r = WinnerTakes([won EXCEPT !.barred[u] = @ \cup barred], m, t)
  BY <1>9 DEF r
<1> QED BY <1>14, <1>15, <1>16, <1>17 DEF t, u, a, won, contest

-----------------------------------------------------------------------------
(* Who gains an identity and who is confirmed, step by step.               *)

(* A step keeps the bars, and what is gained and confirmed in it is lawful.  *)
Gained ==
  \A t \in Tracks : \A i \in IdOf(mem', t) :
    Gains(t, i) /\ ~Recovery(t) => Alone(t, i) /\ ~Reclaims(t, i)

Upheld ==
  \A m \in DOMAIN mem.ids \cap Masters : \A t \in mem.ids[m].refused \cap BoundTo(mem', m) :
    TrackState(mem, m, t) # "confirmed" /\ TrackState(mem', m, t) = "confirmed" =>
      worker # <<>> /\ worker[1].track = t

LawfulStep == Bars(mem') /\ Gained /\ Upheld

LEMMA StepFacts ==
  ASSUME Ordered, Bars(mem), NEW K, NEW X, Frame(mem, mem', K, X),
         \A t \in Tracks : \A i : <<t, i>> \in K =>
           (i \in IdOf(mem', t) /\ i \notin IdOf(mem, t) /\ ~Recovery(t) => Alone(t, i) /\ ~Reclaims(t, i)),
         \A t \in X \cap DOMAIN mem'.bound : mem'.bound[t] \in Masters =>
           (worker # <<>> /\ worker[1].track = t) \/ t \in mem'.ids[mem'.bound[t]].pending
  PROVE  LawfulStep
<1>1. Bars(mem')
  BY DEF Frame
<1>2. Gained
  <2> SUFFICES ASSUME NEW t \in Tracks, NEW i \in IdOf(mem', t), Gains(t, i), ~Recovery(t)
               PROVE  Alone(t, i) /\ ~Reclaims(t, i)
    BY DEF Gained
  <2>1. i \notin IdOf(mem, t)
    BY DEF Gains, BoundTo, IdOf
  <2>2. <<t, i>> \in K
    BY <2>1 DEF Frame
  <2> QED BY <2>1, <2>2
<1>3. Upheld
  <2> SUFFICES ASSUME NEW m \in DOMAIN mem.ids \cap Masters, NEW t \in mem.ids[m].refused \cap BoundTo(mem', m),
                      TrackState(mem, m, t) # "confirmed", TrackState(mem', m, t) = "confirmed"
               PROVE  worker # <<>> /\ worker[1].track = t
    BY DEF Upheld
  <2>1. mem.ids[m].state = "confirmed"
    BY DEF Ordered, Sane, States
  <2>2. t \in Sure(mem, m)
    BY <2>1 DEF TrackState, Sure
  <2>3. t \notin mem'.ids[m].doubted /\ t \notin mem'.ids[m].pending
    BY DEF TrackState
  <2>4. t \in X
    BY <2>2, <2>3 DEF Frame, Sure
  <2>5. t \in DOMAIN mem'.bound /\ mem'.bound[t] = m
    BY DEF BoundTo
  <2> QED BY <2>3, <2>4, <2>5
<1> QED BY <1>1, <1>2, <1>3 DEF LawfulStep

(* Nobody gains an identity, and who is no longer doubted is bound to none.  *)
Loses(s, r) == \E X \in SUBSET Tracks : Frame(s, r, {}, X) /\ X \cap DOMAIN r.bound = {}

LEMMA LosesFrame == ASSUME NEW s, NEW r, Frame(s, r, {}, {}) PROVE Loses(s, r)
<1>1. {} \in SUBSET Tracks /\ {} \cap DOMAIN r.bound = {}
  OBVIOUS
<1> QED BY <1>1 DEF Loses

LEMMA LosesOn ==
  ASSUME NEW s, NEW v, NEW r, Loses(s, v), Loses(v, r)
  PROVE  Loses(s, r)
<1>1. PICK X \in SUBSET Tracks : Frame(s, v, {}, X) /\ X \cap DOMAIN v.bound = {}
  BY DEF Loses
<1>2. PICK Y \in SUBSET Tracks : Frame(v, r, {}, Y) /\ Y \cap DOMAIN r.bound = {}
  BY DEF Loses
<1>3. X \cap DOMAIN r.bound = {}
  <2> SUFFICES ASSUME NEW t \in X, t \in DOMAIN r.bound PROVE FALSE
    OBVIOUS
  <2>1. r.bound[t] \in IdOf(r, t) /\ IdOf(v, t) = {} /\ t \in Tracks
    BY <1>1 DEF IdOf
  <2> QED BY <1>2, <2>1 DEF Frame
<1>4. Frame(s, r, {}, X \cup Y)
  <2>1. Frame(s, v, {}, X \cup Y)
    BY <1>1, FrameMore
  <2>2. Frame(v, r, {}, X \cup Y)
    BY <1>2, FrameMore
  <2> QED BY <2>1, <2>2, FrameOn
<1>5. (X \cup Y) \in SUBSET Tracks /\ (X \cup Y) \cap DOMAIN r.bound = {}
  BY <1>2, <1>3
<1> QED BY <1>4, <1>5 DEF Loses

LEMMA LosesShaped == ASSUME NEW s, NEW r, Loses(s, r) PROVE Shaped(r)
BY DEF Loses, Frame

LEMMA LosesClear ==
  ASSUME NEW s, Shaped(s), NEW T \in SUBSET Tracks
  PROVE  Loses(s, ClearBindings(s, T))
<1>1. Frame(s, ClearBindings(s, T), {}, T)
  BY FrameClear
<1>2. T \cap DOMAIN ClearBindings(s, T).bound = {}
  BY ClearedTracks
<1> QED BY <1>1, <1>2 DEF Loses

LEMMA StepLoses ==
  ASSUME Ordered, Bars(mem), Loses(mem, mem')
  PROVE  LawfulStep
<1>1. PICK X \in SUBSET Tracks : Frame(mem, mem', {}, X) /\ X \cap DOMAIN mem'.bound = {}
  BY DEF Loses
<1> QED BY <1>1, StepFacts

LEMMA StepLawful ==
  ASSUME Ordered, Bars(mem), NEW excused \in BOOLEAN, Lawful(mem, mem', excused), mem'.visible = mem.visible,
         excused => Busy("intake", "extracted")
  PROVE  LawfulStep
<1>1. PICK K, X : /\ Frame(mem, mem', K, X) /\ X \cap DOMAIN mem'.bound = {}
                  /\ Proper(mem, mem', K, excused)
  BY DEF Lawful
<1>2. ASSUME NEW t \in Tracks, NEW i, <<t, i>> \in K
      PROVE  Alone(t, i) /\ ~Reclaims(t, i)
  <2>1. VisibleOwners(mem, i, t) = {}
    BY <1>1, <1>2 DEF Proper
  <2>2. OthersKeep(t, i) = {}
    BY <2>1 DEF OthersKeep, VisibleOwners
  <2>3. Alone(t, i)
    BY <2>2 DEF Alone
  <2>4. ~Reclaims(t, i)
    BY <1>1, <1>2 DEF Proper, Reclaims
  <2> QED BY <2>3, <2>4
<1> QED BY <1>1, <1>2, StepFacts

LEMMA StepSelf ==
  ASSUME Ordered, Bars(mem), mem' = mem
  PROVE  LawfulStep
<1>1. Shaped(mem)
  BY ShapedFacts DEF Ordered, Sane
<1>2. Loses(mem, mem')
  BY <1>1, FrameSelf, LosesFrame
<1> QED BY <1>2, StepLoses

LEMMA LawfulAnswerGrouped ==
  ASSUME Ordered, Bars(mem), AnswerGrouped
  PROVE  LawfulStep
<1> DEFINE task == worker[1]
           t == task.track
<1>1. /\ Busy("intake", "extracted") /\ worker # <<>>
      /\ IF Grouped(mem, t) /\ IsCurrent(mem, t, task.gen)
           THEN mem' \in Store(mem, t) ELSE mem' = mem
  BY DEF AnswerGrouped, Busy
<1>2. CASE Grouped(mem, t) /\ IsCurrent(mem, t, task.gen)
  <2>1. mem' \in Store(mem, t) /\ t \in DOMAIN mem.intake /\ Sane(mem, slipped)
    BY <1>1, <1>2 DEF IsCurrent, Ordered
  <2>2. /\ Good(mem) /\ Shaped(mem) /\ t \in Tracks /\ t \in DOMAIN mem.bound /\ mem.bound[t] \in DOMAIN mem.ids
    BY <1>2, <2>1, GoodFacts, MemoryFacts DEF Good, Grouped, Sane
  <2>3. PICK r : r = mem'
    OBVIOUS
  <2>4. r.visible = mem.visible
    BY <1>2, <2>1, <2>3, StoreFacts DEF Answers, Orderly, Keeps
  <2>5. CASE Unnumbered(mem, mem.bound[t])
    <3>1. mem.bound[t] \in Groups /\ r \in StoreForGroup(mem, t)
      BY <2>1, <2>2, <2>3, <2>5, OwnFacts DEF Unnumbered, Store
    <3>2. Lawful(mem, r, TRUE)
      BY <2>2, <3>1, LawfulStoreForGroup
    <3> QED BY <1>1, <2>3, <2>4, <3>2, StepLawful
  <2>6. CASE ~Unnumbered(mem, mem.bound[t])
    <3>1. r \in StoreForMember(mem, t)
      BY <2>1, <2>3, <2>6 DEF Store
    <3>2. Frame(mem, r, {}, {t})
      BY <2>2, <3>1, FrameMember
    <3> QED BY <1>1, <2>3, <3>2, StepFacts
  <2> QED BY <2>5, <2>6
<1>3. CASE ~ (Grouped(mem, t) /\ IsCurrent(mem, t, task.gen))
  BY <1>1, <1>3, StepSelf
<1> QED BY <1>2, <1>3

LEMMA LawfulAnswerOrdinary ==
  ASSUME Ordered, Bars(mem), AnswerOrdinary
  PROVE  LawfulStep
<1> DEFINE task == worker[1]
           t == task.track
<1>1. \/ mem' = mem
      \/ IsCurrent(mem, t, task.gen) /\ mem' \in Ordinary(mem, t)
  BY DEF AnswerOrdinary
<1>2. CASE IsCurrent(mem, t, task.gen) /\ mem' \in Ordinary(mem, t)
  <2>1. /\ t \in DOMAIN mem.intake /\ Sane(mem, slipped) /\ mem \in Memory
    BY <1>2 DEF IsCurrent, Ordered, Sane
  <2>2. Good(mem) /\ t \in Tracks
    BY <2>1, GoodFacts, MemoryFacts
  <2>3. PICK r : r = mem'
    OBVIOUS
  <2>4. slipped \subseteq Tracks
    BY DEF Ordered
  <2>5. r.visible = mem.visible
    <3>1. r \in Ordinary(mem, t)
      BY <1>2, <2>3
    <3>2. (\E i \in IdOf(mem, t) : i \notin IdOf(r, t)) => t \in Tracks
      BY <2>2
    <3> HIDE DEF t
    <3>3. Ordains(slipped, Tracks, mem, t, r)
      BY <2>1, <2>4, <3>1, <3>2, OrdinaryFacts
    <3> QED BY <3>3 DEF Ordains, Keeps
  <2>6. Lawful(mem, r, FALSE)
    BY <1>2, <2>2, <2>3, LawfulOrdinary
  <2> QED BY <2>3, <2>5, <2>6, StepLawful
<1> QED BY <1>1, <1>2, StepSelf

LEMMA EvaluateSees ==
  ASSUME NEW s, Shaped(s), NEW i, NEW r \in Evaluate(s, i)
  PROVE  r.visible = s.visible
<1>1. \A v, a, b : DOMAIN v = DOMAIN s => Revise(v, a, b).visible = v.visible /\ DOMAIN Revise(v, a, b) = DOMAIN s
  BY DEF Revise, Shaped
<1>2. \A v, g, c : DOMAIN v = DOMAIN s => Numbered(v, g, c).visible = v.visible
  BY DEF Numbered, Shaped
<1>3. \/ r = s
      \/ \E b : r = Revise(s, i, b)
      \/ \E b, c : r = Numbered(Revise(s, i, b), i, c)
  BY DEF Evaluate, Promote
<1> QED BY <1>1, <1>2, <1>3

LEMMA LawfulAddView ==
  ASSUME Ordered, Bars(mem), AddView
  PROVE  LawfulStep
<1> DEFINE t == worker[1].track
           g == worker[1].id
           record == [mem.ids[g] EXCEPT !.views = @ \cup {CameraOf[t]}]
           v == Revise(mem, g, record)
<1>1. \/ mem' = mem
      \/ Unnumbered(mem, g) /\ mem' \in Evaluate(v, g)
  BY DEF AddView
<1>2. CASE Unnumbered(mem, g) /\ mem' \in Evaluate(v, g)
  <2>1. Good(mem) /\ Shaped(mem) /\ g \in DOMAIN mem.ids /\ Sane(mem, slipped)
    BY <1>2, GoodFacts DEF Good, Ordered, Unnumbered
  <2>2. g \in Groups
    BY <1>2, <2>1, OwnFacts DEF Unnumbered
  <2>3. /\ DOMAIN record = DOMAIN mem.ids[g] /\ record.pending = mem.ids[g].pending
        /\ record.doubted = mem.ids[g].doubted /\ record.refused = mem.ids[g].refused
    BY <2>1 DEF Shaped
  <2>4. {"members", "pending", "doubted", "refused"} \subseteq DOMAIN record
    BY <2>1, <2>3 DEF Shaped
  <2> HIDE DEF record, g
  <2>5. Quiet(mem, v)
    <3>1. Sure(mem, g) \subseteq record.refused \cap (record.pending \cup record.doubted)
      BY <2>3 DEF Sure
    <3> QED BY <2>1, <2>4, <3>1, QuietRevise
  <2>6. PICK r : r = mem'
    OBVIOUS
  <2> HIDE DEF v
  <2>7. Lawful(v, r, FALSE)
    BY <1>2, <2>1, <2>2, <2>5, <2>6, QuietGood, LawfulEvaluate
  <2>8. Lawful(mem, r, FALSE)
    BY <2>5, <2>7, LawfulAfter
  <2>9. r.visible = mem.visible
    BY <1>2, <2>5, <2>6, EvaluateSees DEF Quiet, Frame
  <2> QED BY <2>6, <2>8, <2>9, StepLawful
<1> QED BY <1>1, <1>2, StepSelf

LEMMA LawfulAudit ==
  ASSUME Ordered, Bars(mem), Audit
  PROVE  LawfulStep
<1> DEFINE t == worker[1].track
           i == worker[1].id
           rivals == Without(mem.rivals, {t})
<1>1. /\ Busy("audit", "extracted") /\ worker # <<>>
      /\ \/ mem' = mem
         \/ mem' = [mem EXCEPT !.rivals = rivals]
         \/ i \in IdOf(mem, t) /\ \E rival \in (DOMAIN mem.ids \cap Masters) \ {i} : mem' = Audited(mem, t, rival)
  BY DEF Audit, Busy
<1>2. Shaped(mem) /\ mem \in Memory
  BY ShapedFacts DEF Ordered, Sane
<1>3. CASE mem' = [mem EXCEPT !.rivals = rivals]
  <2> HIDE DEF rivals
  <2>1. PICK r : r = mem'
    OBVIOUS
  <2>2. /\ DOMAIN r = DOMAIN mem /\ r.ids = mem.ids /\ r.bound = mem.bound
        /\ r.barred = mem.barred /\ r.contest = mem.contest
    BY <1>2, <1>3, <2>1 DEF Shaped
  <2>3. Loses(mem, r)
    BY <1>2, <2>2, FrameBeside, LosesFrame
  <2> QED BY <2>1, <2>3, StepLoses
<1>4. ASSUME i \in IdOf(mem, t), NEW rival \in (DOMAIN mem.ids \cap Masters) \ {i}, mem' = Audited(mem, t, rival)
      PROVE  LawfulStep
  <2>1. t \in DOMAIN mem.bound /\ rival # mem.bound[t] /\ t \in Tracks
    BY <1>2, <1>4, MemoryFacts DEF IdOf
  <2>2. PICK r : r = mem'
    OBVIOUS
  <2>3. \/ Frame(mem, r, {}, {})
        \/ Frame(mem, r, {<<t, rival>>}, {t}) /\ VisibleOwners(mem, rival, t) = {}
    BY <1>2, <1>4, <2>1, <2>2, FrameAudited
  <2>4. CASE Frame(mem, r, {}, {})
    BY <2>2, <2>4, LosesFrame, StepLoses
  <2>5. CASE Frame(mem, r, {<<t, rival>>}, {t}) /\ VisibleOwners(mem, rival, t) = {}
    <3>1. r.visible = mem.visible
      <4>1. Rounds > 0
        BY <1>1 DEF Ordered, Working, Tasks, Busy
      <4> QED BY <1>4, <2>1, <2>2, <4>1, AuditedFacts DEF Ordered, Orderly, Keeps
    <3>2. OthersKeep(t, rival) = {}
      BY <2>2, <2>5, <3>1 DEF OthersKeep, VisibleOwners
    <3>3. Alone(t, rival) /\ ~Reclaims(t, rival)
      BY <1>1, <3>2 DEF Alone, Reclaims
    <3> HIDE DEF t
    <3>4. \A u \in Tracks : \A j : <<u, j>> \in {<<t, rival>>} => Alone(u, j) /\ ~Reclaims(u, j)
      BY <3>3
    <3>5. \A u \in {t} : worker # <<>> /\ worker[1].track = u
      BY <1>1 DEF t
    <3> QED BY <2>2, <2>5, <3>4, <3>5, StepFacts
  <2> QED BY <2>3, <2>4, <2>5
<1> QED BY <1>1, <1>3, <1>4, StepSelf

LEMMA LawfulVerdict ==
  ASSUME Ordered, Bars(mem), NEW m \in Masters, Verdict(m)
  PROVE  LawfulStep
<1> DEFINE c == mem.contest[m]
           s == [mem EXCEPT !.contest = Without(mem.contest, {m})]
           waiting == {t \in {c.chal} \cap DOMAIN s.intake : s.intake[t].gen = c.gen}
           lost == Rearm([s EXCEPT !.barred[c.chal] = @ \cup {m}], waiting, "contest")
           won == ClearBindings(s, {c.inc})
           taken(barred) == WinnerTakes([won EXCEPT !.barred[c.inc] = @ \cup barred], m, c.chal)
<1>1. /\ worker = <<>> /\ m \in DOMAIN mem.contest
      /\ \/ mem' = CancelContests(mem, {m})
         \/ mem' = lost
         \/ /\ IdOf(mem, c.chal) \cap Masters = {} /\ m \in IdOf(mem, c.inc)
            /\ \E barred \in {{}, {m}} : mem' = taken(barred)
  BY DEF Verdict
<1>2. Shaped(mem) /\ Sane(mem, slipped) /\ mem.contest[m] \in Contest
  BY <1>1, ShapedFacts, MemoryFacts DEF Ordered, Sane
<1>3. PICK r : r = mem'
  OBVIOUS
<1>4. CASE mem' = CancelContests(mem, {m})
  <2>1. Loses(mem, r)
    BY <1>2, <1>3, <1>4, FrameCancel, LosesFrame
  <2> QED BY <1>3, <2>1, StepLoses
<1>5. CASE mem' = lost
  <2>1. lost = Barred(mem, m, waiting)
    BY DEF Barred
  <2> HIDE DEF waiting, lost
  <2>2. Loses(mem, r)
    BY <1>1, <1>2, <1>3, <1>5, <2>1, FrameLost, LosesFrame
  <2> QED BY <1>3, <2>2, StepLoses
<1>6. ASSUME IdOf(mem, c.chal) \cap Masters = {}, m \in IdOf(mem, c.inc), NEW barred \in {{}, {m}},
             mem' = taken(barred)
      PROVE  LawfulStep
  <2>1. PICK X : /\ m \notin DOMAIN r.contest /\ c.inc \notin DOMAIN r.bound
                 /\ Frame(mem, r, {<<c.chal, m>>}, X) /\ X \cap DOMAIN r.bound = {}
    BY <1>1, <1>2, <1>3, <1>6, FrameWon
  <2>2. Wins(c.chal, m)
    BY <1>1, <1>3, <2>1 DEF Wins
  <2>3. c.inc \notin OthersKeep(c.chal, m)
    BY <1>3, <2>1 DEF OthersKeep, VisibleOwners, BoundTo
  <2>4. m \notin mem.barred[c.chal]
    BY <1>1 DEF Bars
  <2>5. Alone(c.chal, m) /\ ~Reclaims(c.chal, m)
    BY <2>2, <2>3, <2>4 DEF Alone, Reclaims
  <2> HIDE DEF c
  <2>6. \A u \in Tracks : \A j : <<u, j>> \in {<<c.chal, m>>} => Alone(u, j) /\ ~Reclaims(u, j)
    BY <2>5
  <2> QED BY <1>3, <2>1, <2>6, StepFacts
<1> HIDE DEF taken, lost
<1> QED BY <1>1, <1>4, <1>5, <1>6

LEMMA LawfulWorker ==
  ASSUME Ordered, Bars(mem), WorkerStep
  PROVE  LawfulStep
<1>1. CASE Take
  BY <1>1, StepSelf DEF Take
<1> QED BY <1>1, LawfulAnswerGrouped, LawfulAnswerOrdinary, LawfulAddView, LawfulAudit, LawfulVerdict DEF WorkerStep

LEMMA LosesBeside ==
  ASSUME NEW s, Shaped(s), NEW r, DOMAIN r = DOMAIN s, r.ids = s.ids, r.bound = s.bound,
         r.barred = s.barred, r.contest = s.contest
  PROVE  Loses(s, r)
BY FrameBeside, LosesFrame

LEMMA LosesVanish ==
  ASSUME NEW s, Shaped(s), NEW gone
  PROVE  Loses(s, Vanish(s, gone))
<1>1. CASE gone = {}
  BY <1>1, FrameSelf, LosesFrame DEF Vanish
<1>2. CASE gone # {}
  <2> DEFINE barred == [t \in Tracks |-> IF t \in gone THEN {} ELSE s.barred[t]]
             v == [s EXCEPT !.barred = barred]
             s1 == CancelContests(v, ContestsOf(s, gone))
             T == gone \cap DOMAIN s1.intake
             intake == Without(s1.intake, T)
             gen == NextGeneration(s1, T)
             r == [s1 EXCEPT !.intake = intake, !.done = @ \ T, !.gen = gen]
  <2>1. Vanish(s, gone) = r
    BY <1>2 DEF Vanish
  <2>2. DOMAIN barred = Tracks /\ \A t \in Tracks : barred[t] \subseteq s.barred[t]
    OBVIOUS
  <2> HIDE DEF barred
  <2>3. /\ DOMAIN v = DOMAIN s /\ v.ids = s.ids /\ v.bound = s.bound /\ v.contest = s.contest /\ v.barred = barred
    BY DEF Shaped
  <2> HIDE DEF v
  <2>4. Frame(s, v, {}, {})
    <3>1. \A t \in Tracks : \A i \in IdOf(v, t) : i \in IdOf(s, t) \/ <<t, i>> \in {}
      BY <2>3 DEF IdOf
    <3> QED BY <2>2, <2>3, <3>1, FrameOwners
  <2>5. Frame(v, s1, {}, {})
    BY <2>4, FrameCancel DEF Frame
  <2> HIDE DEF s1, T, intake, gen
  <2>6. Shaped(s1)
    BY <2>5 DEF Frame
  <2>7. /\ DOMAIN r = DOMAIN s1 /\ r.ids = s1.ids /\ r.bound = s1.bound
        /\ r.barred = s1.barred /\ r.contest = s1.contest
    BY <2>6 DEF Shaped
  <2> HIDE DEF r
  <2>8. Loses(s1, r)
    BY <2>6, <2>7, LosesBeside
  <2> QED BY <2>1, <2>4, <2>5, <2>8, LosesFrame, LosesOn
<1> QED BY <1>1, <1>2

LEMMA LosesRelease ==
  ASSUME NEW s, Shaped(s), NEW P
  PROVE  Loses(s, ReleasePairs(s, P))
<1> DEFINE holds == [t \in Tracks |-> s.holds[t] \ P]
           v == [s EXCEPT !.holds = holds]
           T == {t \in (UNION P) \cap DOMAIN s.intake : v.holds[t] = {} /\ "hold" \in s.intake[t].why}
<1>1. ReleasePairs(s, P) = Rearm(v, T, "hold")
  BY DEF ReleasePairs
<1> HIDE DEF holds, T
<1>2. /\ DOMAIN v = DOMAIN s /\ v.ids = s.ids /\ v.bound = s.bound
      /\ v.barred = s.barred /\ v.contest = s.contest
  BY DEF Shaped
<1> HIDE DEF v
<1>3. Loses(s, v)
  BY <1>2, LosesBeside
<1>4. Shaped(v)
  BY <1>3, LosesShaped
<1>5. Loses(v, Rearm(v, T, "hold"))
  BY <1>4, FrameRearm, LosesFrame
<1> QED BY <1>1, <1>3, <1>5, LosesOn

LEMMA LosesHold ==
  ASSUME NEW s, Shaped(s), NEW p
  PROVE  Loses(s, HoldPair(s, p))
<1> DEFINE holds == [t \in Tracks |-> IF t \in p \ DOMAIN s.bound THEN s.holds[t] \cup {p} ELSE s.holds[t]]
           v == [s EXCEPT !.holds = holds]
<1>1. HoldPair(s, p) = v
  BY DEF HoldPair
<1> HIDE DEF holds
<1>2. /\ DOMAIN v = DOMAIN s /\ v.ids = s.ids /\ v.bound = s.bound
      /\ v.barred = s.barred /\ v.contest = s.contest
  BY DEF Shaped
<1> HIDE DEF v
<1> QED BY <1>1, <1>2, LosesBeside

LEMMA LosesCollect ==
  ASSUME NEW s, Shaped(s), NEW t, Collect(s, t)
  PROVE  Loses(s, mem')
<1> DEFINE gen == [s.gen EXCEPT ![t] = @ + 1]
           intake == Set(s.intake, t, [gen |-> s.gen[t] + 1, submitted |-> FALSE, why |-> {}])
           s1 == IF t \in DOMAIN s.intake THEN s ELSE [s EXCEPT !.gen = gen, !.intake = intake]
           sent == Set(s1.intake, t, [s1.intake[t] EXCEPT !.submitted = TRUE])
           s2 == [s1 EXCEPT !.intake = sent]
<1>1. mem' = s1 \/ mem' = s2
  BY DEF Collect
<1> HIDE DEF gen, intake, sent
<1>2. /\ DOMAIN s1 = DOMAIN s /\ s1.ids = s.ids /\ s1.bound = s.bound
      /\ s1.barred = s.barred /\ s1.contest = s.contest
  BY DEF Shaped
<1> HIDE DEF s1
<1>3. /\ DOMAIN s2 = DOMAIN s /\ s2.ids = s.ids /\ s2.bound = s.bound
      /\ s2.barred = s.barred /\ s2.contest = s.contest
  BY <1>2 DEF Shaped
<1> HIDE DEF s2
<1> QED BY <1>1, <1>2, <1>3, LosesBeside

LEMMA LosesServe ==
  ASSUME NEW s, Shaped(s), NEW t \in Tracks, t \in DOMAIN s.bound, s.bound[t] \in DOMAIN s.ids, ServeBound(s, t)
  PROVE  Loses(s, mem')
<1> DEFINE i == s.bound[t]
           cleared == ClearBindings(s, {t})
           record == [s.ids[i] EXCEPT !.members = @ \cup {t}]
           v == Revise(s, i, record)
<1>1. \/ Collect(StartSplit(cleared, i, t), t)
      \/ Collect(cleared, t)
      \/ Collect(v, t) \/ Collect(s, t)
      \/ mem' = v \/ mem' = s
  BY DEF ServeBound
<1>2. /\ DOMAIN record = DOMAIN s.ids[i] /\ record.pending = s.ids[i].pending
      /\ record.doubted = s.ids[i].doubted /\ record.refused = s.ids[i].refused
  BY DEF Shaped
<1>3. {"members", "pending", "doubted", "refused"} \subseteq DOMAIN record
  BY <1>2 DEF Shaped
<1>4. i \in DOMAIN s.ids
  OBVIOUS
<1> HIDE DEF record, i
<1>5. Loses(s, v)
  <2>1. Sure(s, i) \subseteq record.refused \cap (record.pending \cup record.doubted)
    BY <1>2 DEF Sure
  <2> QED BY <1>3, <1>4, <2>1, QuietRevise, LosesFrame DEF Quiet
<1>6. Loses(s, cleared)
  BY LosesClear
<1> HIDE DEF v, cleared
<1>7. Loses(s, StartSplit(cleared, i, t))
  <2>1. Shaped(cleared)
    BY <1>6, LosesShaped
  <2>2. Loses(cleared, StartSplit(cleared, i, t))
    BY <2>1, FrameSplit, LosesFrame
  <2> QED BY <1>6, <2>2, LosesOn
<1>8. Loses(s, s)
  BY FrameSelf, LosesFrame
<1>9. ASSUME NEW w, Loses(s, w), Collect(w, t)
      PROVE  Loses(s, mem')
  BY <1>9, LosesShaped, LosesCollect, LosesOn
<1> QED BY <1>1, <1>5, <1>6, <1>7, <1>8, <1>9

LEMMA LawfulCamera ==
  ASSUME Ordered, Bars(mem), CameraLoop
  PROVE  LawfulStep
<1>1. Shaped(mem) /\ mem \in Memory /\ Sane(mem, slipped)
  BY ShapedFacts DEF Ordered, Sane
<1>2. ASSUME NEW c \in Cameras, Observe(c)
      PROVE  LawfulStep
  <2>1. PICK keys \in SUBSET Of(c) :
          LET s1 == Vanish(mem, (mem.visible \cap Of(c)) \ keys)
              s2 == [s1 EXCEPT !.visible = (@ \ Of(c)) \cup keys]
          IN \E abandoned \in IF Gaps THEN SUBSET ((Of(c) \ keys) \cap DOMAIN s2.bound) ELSE {{}} :
               mem' = ClearBindings(s2, abandoned)
    BY <1>2 DEF Observe
  <2> DEFINE s1 == Vanish(mem, (mem.visible \cap Of(c)) \ keys)
             seen == (s1.visible \ Of(c)) \cup keys
             s2 == [s1 EXCEPT !.visible = seen]
  <2>2. PICK abandoned \in IF Gaps THEN SUBSET ((Of(c) \ keys) \cap DOMAIN s2.bound) ELSE {{}} :
          mem' = ClearBindings(s2, abandoned)
    BY <2>1
  <2>3. abandoned \in SUBSET Tracks
    BY <2>2 DEF Of
  <2>4. Loses(mem, s1)
    BY <1>1, LosesVanish
  <2> HIDE DEF s1, seen
  <2>5. Shaped(s1)
    BY <2>4, LosesShaped
  <2>6. /\ DOMAIN s2 = DOMAIN s1 /\ s2.ids = s1.ids /\ s2.bound = s1.bound
        /\ s2.barred = s1.barred /\ s2.contest = s1.contest
    BY <2>5 DEF Shaped
  <2> HIDE DEF s2
  <2>7. Loses(s1, s2)
    BY <2>5, <2>6, LosesBeside
  <2>8. Loses(s2, ClearBindings(s2, abandoned))
    BY <2>3, <2>7, LosesShaped, LosesClear
  <2>9. Loses(mem, ClearBindings(s2, abandoned))
    BY <2>4, <2>7, <2>8, LosesOn
  <2> QED BY <2>2, <2>9, StepLoses
<1>3. ASSUME NEW t \in Tracks, Assign(t)
      PROVE  LawfulStep
  <2>1. PICK s \in {mem} \cup (IF Gaps THEN {ClearBindings(mem, {t})} ELSE {})
             \cup {Dissolve(mem, g) : g \in {g \in IdOf(mem, t) \cap Groups : mem.ids[g].revoked # {}}} :
          IF t \in DOMAIN s.bound THEN ServeBound(s, t) ELSE Collect(s, t)
    BY <1>3 DEF Assign
  <2>2. \/ s = mem \/ s = ClearBindings(mem, {t})
        \/ \E g \in IdOf(mem, t) \cap Groups : s = Dissolve(mem, g)
    BY <2>1
  <2>3. ASSUME NEW g \in IdOf(mem, t) \cap Groups
        PROVE  Loses(mem, Dissolve(mem, g)) /\ Sane(Dissolve(mem, g), slipped)
    <3>1. g \in Groups \cap DOMAIN mem.ids
      BY <1>1 DEF Sane, Exist, IdOf
    <3> QED BY <1>1, <3>1, FrameDissolve, LosesFrame, DissolveFacts DEF Orderly
  <2>4. Loses(mem, ClearBindings(mem, {t})) /\ Sane(ClearBindings(mem, {t}), slipped)
    BY <1>1, LosesClear, ClearFacts DEF Orderly
  <2>5. Loses(mem, s) /\ Sane(s, slipped)
    BY <1>1, <2>2, <2>3, <2>4, FrameSelf, LosesFrame
  <2>6. Shaped(s)
    BY <2>5, LosesShaped
  <2>7. Loses(s, mem')
    <3>1. CASE t \in DOMAIN s.bound
      <4>1. s.bound[t] \in DOMAIN s.ids
        BY <2>5, <3>1 DEF Sane, Exist
      <4> QED BY <2>1, <2>6, <3>1, <4>1, LosesServe
    <3>2. CASE t \notin DOMAIN s.bound
      BY <2>1, <2>6, <3>2, LosesCollect
    <3> QED BY <3>1, <3>2
  <2>8. Loses(mem, mem')
    BY <2>5, <2>7, LosesOn
  <2> QED BY <2>8, StepLoses
<1> QED BY <1>2, <1>3 DEF CameraLoop

LEMMA LawfulRequest ==
  ASSUME Ordered, Bars(mem), Request
  PROVE  LawfulStep
<1>1. mem' \in CreatePair(mem, co.pair) /\ co.pc = "request" /\ co' = [co EXCEPT !.pc = "settle"]
  BY DEF Request
<1>2. co.pair \in {{}} \cup Pairs /\ Sane(mem, slipped) /\ co'.pc = "settle"
  BY <1>1 DEF Ordered, Coordinator
<1>3. PICK r : r = mem'
  OBVIOUS
<1>4. \/ Lawful(mem, r, FALSE)
      \/ \E t, u \in Tracks :
           /\ Recoverable(mem, t, u) /\ Frame(mem, r, {<<t, mem.bound[u]>>}, {t})
           /\ t \in r.ids[mem.bound[u]].pending
  BY <1>1, <1>2, <1>3, FramePair
<1>5. CASE Lawful(mem, r, FALSE)
  <2>1. Orderly(slipped, mem, r, {})
    BY <1>1, <1>2, <1>3, CreatePairFacts, PairFacts
  <2>2. r.visible = mem.visible
    BY <2>1 DEF Orderly, Keeps
  <2> QED BY <1>3, <1>5, <2>2, StepLawful
<1>6. ASSUME NEW t \in Tracks, NEW u \in Tracks, Recoverable(mem, t, u),
             Frame(mem, r, {<<t, mem.bound[u]>>}, {t}), t \in r.ids[mem.bound[u]].pending
      PROVE  LawfulStep
  <2>1. Recovery(t)
    BY <1>1, <1>2, <1>6 DEF Recovery
  <2>2. ASSUME t \in DOMAIN r.bound, r.bound[t] \in Masters
        PROVE  r.bound[t] = mem.bound[u]
    <3>1. mem.bound[t] \in Groups
      BY <1>6 DEF Recoverable
    <3>2. r.bound[t] \notin IdOf(mem, t)
      BY <2>2, <3>1, NumberFacts DEF IdOf
    <3>3. r.bound[t] \in IdOf(r, t)
      BY <2>2 DEF IdOf
    <3> QED BY <1>6, <3>2, <3>3 DEF Frame
  <2>3. \A x \in Tracks : \A i : <<x, i>> \in {<<t, mem.bound[u]>>} => Recovery(x)
    BY <2>1
  <2>4. \A x \in {t} \cap DOMAIN r.bound : r.bound[x] \in Masters => x \in r.ids[r.bound[x]].pending
    BY <1>6, <2>2
  <2> QED BY <1>3, <1>6, <2>3, <2>4, StepFacts
<1> QED BY <1>4, <1>5, <1>6

LEMMA LawfulUpdate ==
  ASSUME Ordered, Bars(mem), Update
  PROVE  LawfulStep
<1>1. Shaped(mem) /\ Sane(mem, slipped)
  BY ShapedFacts DEF Ordered, Sane
<1>2. ASSUME NEW P, mem' = ReleasePairs(mem, P)
      PROVE  LawfulStep
  BY <1>1, <1>2, LosesRelease, StepLoses
<1>3. CASE Evaluation
  <2>1. \E hold, P : mem' = ReleaseHolds(mem, hold, P)
    BY <1>3 DEF Evaluation
  <2> QED BY <1>2, <2>1 DEF ReleaseHolds
<1>4. ASSUME NEW p \in Pairs, Advance(p)
      PROVE  LawfulStep
  <2>1. mem' = ReleaseHolds(mem, co.hold, {p}) \/ mem' = mem \/ mem' = HoldPair(mem, p)
    BY <1>4 DEF Advance
  <2>2. CASE mem' = HoldPair(mem, p)
    BY <1>1, <2>2, LosesHold, StepLoses
  <2> QED BY <1>2, <2>1, <2>2, StepSelf DEF ReleaseHolds
<1>5. CASE Settle
  BY <1>2, <1>5 DEF Settle, ReleaseHolds
<1>6. CASE Note
  <2>1. PICK i \in co.shared : mem' \in NoteMatch(mem, i, co.streak[co.pair], ConfirmAt, co.pair)
    BY <1>6 DEF Note
  <2>2. PICK r : r = mem'
    OBVIOUS
  <2>3. co.pair \in SUBSET Tracks
    BY CoordinatorFacts, PairFacts
  <2>4. Orderly(slipped, mem, r, {})
    BY <1>1, <2>1, <2>2, <2>3, NoteMatchFacts
  <2>5. Lawful(mem, r, FALSE)
    BY <1>1, <2>1, <2>2, LawfulNote
  <2>6. r.visible = mem.visible
    BY <2>4 DEF Orderly, Keeps
  <2> QED BY <2>2, <2>5, <2>6, StepLawful
<1>7. CASE Conclude
  <2>1. \E hold, P : mem' = ReleaseHolds(mem, hold, P)
    BY <1>7 DEF Conclude
  <2> QED BY <1>2, <2>1 DEF ReleaseHolds
<1> QED BY <1>3, <1>4, <1>5, <1>6, <1>7, LawfulRequest DEF Update

LEMMA NextLawful ==
  ASSUME Ordered, Bars(mem), Next
  PROVE  LawfulStep
BY LawfulCamera, LawfulUpdate, LawfulWorker DEF Next

LEMMA InitBars == Init => Bars(mem)
<1> SUFFICES ASSUME Init PROVE Bars(mem)
  OBVIOUS
<1>1. /\ mem.barred = [t \in Tracks |-> {}] /\ mem.contest = <<>>
  BY DEF Init, MemInit
<1> QED BY <1>1, EmptyFacts DEF Bars

\* Bars of the memory, as an invariant.
BarsStand == Bars(mem)

\* A track is barred from masters that exist only, and no challenger contests a master it
\* is barred from: a contest starts for an unbarred master and a track is barred from a
\* master when the contest for it ends.
THEOREM BarsHold == Spec => []BarsStand
<1>1. Ordered /\ BarsStand /\ [Next]_vars => BarsStand'
  <2>1. CASE Next
    BY <2>1, NextLawful DEF BarsStand, LawfulStep
  <2>2. CASE UNCHANGED vars
    BY <2>2 DEF vars, BarsStand, Bars, Shaped
  <2> QED BY <2>1, <2>2
<1>2. Init => BarsStand
  BY InitBars DEF BarsStand
<1> QED BY Invariant, <1>1, <1>2, PTL DEF Spec

\* However a track comes by an identity, it does not share it with another track in view
\* of its camera, and it is not one it lost a contest for; but for the exceptions that
\* Wins, Reclaims and Recovery name.
THEOREM LawfulGains == Spec => GainsAreLawful
<1>1. Ordered /\ BarsStand /\ [Next]_vars =>
        [\A t \in Tracks : \A i \in IdOf(mem', t) :
           Gains(t, i) /\ ~Recovery(t) => Alone(t, i) /\ ~Reclaims(t, i)]_vars
  BY NextLawful DEF BarsStand, LawfulStep, Gained
<1> QED BY Invariant, BarsHold, <1>1, PTL DEF Spec, GainsAreLawful

\* A member its appearance argued against is confirmed by its own appearance alone: what
\* else confirms members, moves or clears them leaves such a member in doubt, or without
\* the identity.
THEOREM AppearanceDecides == Spec => LocationNeverOverrules
<1>1. Ordered /\ BarsStand /\ [Next]_vars =>
        [\A m \in DOMAIN mem.ids \cap Masters : \A t \in mem.ids[m].refused \cap BoundTo(mem', m) :
           TrackState(mem, m, t) # "confirmed" /\ TrackState(mem', m, t) = "confirmed" =>
             worker # <<>> /\ worker[1].track = t]_vars
  BY NextLawful DEF BarsStand, LawfulStep, Upheld
<1> QED BY Invariant, BarsHold, <1>1, PTL DEF Spec, LocationNeverOverrules
=============================================================================
