----------------------- MODULE ReidPersistence_proofs -----------------------
(***************************************************************************)
(* The numbers of the masters, and what close() leaves in the backend, for *)
(* any number of slots, sessions, losses, timeouts and crashes.            *)
(***************************************************************************)
EXTENDS ReidPersistence, SequenceTheorems, WellFoundedInduction, TLAPS

-----------------------------------------------------------------------------
(* The operators.                                                           *)

\* A bounded set of numbers has a greatest one.
LEMMA MaxFacts ==
  ASSUME NEW S, S \subseteq Nat, S # {}, NEW bound \in Nat, \A x \in S : x <= bound
  PROVE  Max(S) \in S /\ \A x \in S : x <= Max(S)
<1> DEFINE Above == {n \in Nat : \A x \in S : x <= n}
           Less == OpToRel(<, Nat)
<1>1. Above \subseteq Nat /\ Above # {}
  OBVIOUS
<1>2. PICK least \in Above : \A n \in Above : ~ (<<n, least>> \in Less)
  BY <1>1, WFMin, NatLessThanWellFounded
<1>3. \A n \in Above : ~ (n < least)
  BY <1>1, <1>2 DEF OpToRel
<1>4. least \in S
  <2> SUFFICES ASSUME least \notin S PROVE FALSE
    OBVIOUS
  <2>0. least \in Nat /\ \A x \in S : x <= least
    BY <1>2
  <2>1. ASSUME NEW x \in S PROVE x \in Nat /\ x < least
    <3>1. x \in Nat /\ x <= least /\ x # least
      BY <2>0
    <3> QED BY <2>0, <3>1
  <2>2. least - 1 \in Above
    <3>1. PICK x \in S : TRUE
      OBVIOUS
    <3>2. least - 1 \in Nat
      BY <2>0, <2>1, <3>1
    <3>3. \A y \in S : y <= least - 1
      BY <2>0, <2>1
    <3> QED BY <3>2, <3>3
  <2> QED BY <1>3, <2>0, <2>2
<1>5. \E x \in S : \A y \in S : x >= y
  BY <1>2, <1>4
<1> QED BY <1>5 DEF Max

\* What the queues are made of.
LEMMA QueueFacts ==
  ASSUME NEW S, NEW s \in Seq(S)
  PROVE  /\ << >> \in Seq(S)
         /\ \A x \in S : Append(s, x) \in Seq(S)
         /\ \A x \in S : \A k \in DOMAIN Append(s, x) :
              Append(s, x)[k] = x \/ \E j \in DOMAIN s : Append(s, x)[k] = s[j]
         /\ s # << >> => /\ Head(s) \in S /\ Tail(s) \in Seq(S)
                         /\ Head(s) = s[1] /\ 1 \in DOMAIN s
                         /\ \A k \in DOMAIN Tail(s) : \E j \in DOMAIN s : Tail(s)[k] = s[j]
<1>1. \A x \in S : Append(s, x) \in Seq(S)
  BY AppendProperties
<1>2. \A x \in S : \A k \in DOMAIN Append(s, x) :
        Append(s, x)[k] = x \/ \E j \in DOMAIN s : Append(s, x)[k] = s[j]
  <2> TAKE x \in S
  <2>1. /\ Len(Append(s, x)) = Len(s) + 1 /\ Append(s, x)[Len(s) + 1] = x
        /\ \A k \in 1 .. Len(s) : Append(s, x)[k] = s[k]
        /\ DOMAIN Append(s, x) = 1 .. Len(s) + 1 /\ DOMAIN s = 1 .. Len(s) /\ Len(s) \in Nat
    BY AppendProperties, LenProperties
  <2> QED BY <2>1
<1>3. s # << >> => /\ Head(s) \in S /\ Tail(s) \in Seq(S)
                   /\ Head(s) = s[1] /\ 1 \in DOMAIN s
                   /\ \A k \in DOMAIN Tail(s) : \E j \in DOMAIN s : Tail(s)[k] = s[j]
  <2> SUFFICES ASSUME s # << >>
               PROVE  /\ Head(s) \in S /\ Tail(s) \in Seq(S)
                      /\ Head(s) = s[1] /\ 1 \in DOMAIN s
                      /\ \A k \in DOMAIN Tail(s) : \E j \in DOMAIN s : Tail(s)[k] = s[j]
    OBVIOUS
  <2>1. /\ Head(s) \in S /\ Tail(s) \in Seq(S) /\ Len(Tail(s)) = Len(s) - 1
        /\ \A i \in 1 .. Len(Tail(s)) : Tail(s)[i] = s[i + 1]
    BY HeadTailProperties
  <2>2. DOMAIN s = 1 .. Len(s) /\ Len(s) \in Nat /\ Len(s) # 0
    BY LenProperties, EmptySeq
  <2>3. DOMAIN Tail(s) = 1 .. Len(Tail(s))
    BY <2>1, LenProperties
  <2>4. Head(s) = s[1] /\ 1 \in DOMAIN s
    <3>1. 1 \in 1 .. Len(s)
      BY <2>2
    <3>2. Head(s) = s[1]
      OBVIOUS
    <3> QED BY <2>2, <3>1, <3>2
  <2>5. ASSUME NEW k \in DOMAIN Tail(s) PROVE k + 1 \in DOMAIN s /\ Tail(s)[k] = s[k + 1]
    BY <2>1, <2>2, <2>3
  <2> QED BY <2>1, <2>4, <2>5
<1> QED BY <1>1, <1>2, <1>3, EmptySeq

\* A snapshot takes its master's old place or a new one at the end.
LEMMA PutFacts ==
  ASSUME TypeOK, NEW i \in Ids, NEW copy \in Master
  PROVE  /\ Put(i, copy) \in Seq(Snapshot)
         /\ \A k \in DOMAIN Put(i, copy) :
              Put(i, copy)[k] = [id |-> i, copy |-> copy] \/ \E j \in DOMAIN pending : Put(i, copy)[k] = pending[j]
<1> DEFINE new == [id |-> i, copy |-> copy]
<1>1. new \in Snapshot /\ pending \in Seq(Snapshot)
  BY DEF Snapshot, TypeOK
<1>2. CASE \E k \in DOMAIN pending : pending[k].id = i
  <2> DEFINE put == [k \in DOMAIN pending |-> IF pending[k].id = i THEN new ELSE pending[k]]
  <2>1. Put(i, copy) = put
    BY <1>2 DEF Put
  <2>2. DOMAIN pending = 1 .. Len(pending) /\ Len(pending) \in Nat
        /\ \A k \in DOMAIN pending : pending[k] \in Snapshot
    BY <1>1, LenProperties, ElementOfSeq
  <2>3. put \in Seq(Snapshot)
    <3>1. \A k \in 1 .. Len(pending) : put[k] \in Snapshot
      BY <1>1, <2>2
    <3>2. put = [k \in 1 .. Len(pending) |-> put[k]]
      BY <2>2
    <3> HIDE DEF put
    <3> QED BY <2>2, <3>1, <3>2, IsASeq
  <2>4. \A k \in DOMAIN put : put[k] = new \/ \E j \in DOMAIN pending : put[k] = pending[j]
    OBVIOUS
  <2> QED BY <2>1, <2>3, <2>4
<1>3. CASE ~ \E k \in DOMAIN pending : pending[k].id = i
  <2>1. Put(i, copy) = Append(pending, new)
    BY <1>3 DEF Put
  <2> HIDE DEF new
  <2>2. /\ Append(pending, new) \in Seq(Snapshot)
        /\ \A k \in DOMAIN Append(pending, new) :
             Append(pending, new)[k] = new \/ \E j \in DOMAIN pending : Append(pending, new)[k] = pending[j]
    BY <1>1, QueueFacts
  <2> QED BY <2>1, <2>2 DEF new
<1> QED BY <1>2, <1>3

\* A gallery that is filled again keeps its master's session.
LEMMA RefilledFacts ==
  ASSUME NEW m \in Master, NEW gallery \in [Slots -> View]
  PROVE  Refilled(m, gallery) \in Master /\ Refilled(m, gallery).born = m.born
BY DEF Refilled, Master

\* No row is not a master; a master has views.
LEMMA MasterFacts ==
  /\ NoMaster \notin Master
  /\ \A m \in Master : m.born \in Nat /\ m.gallery \in [Slots -> View]
  /\ NoView \in View
  /\ \A v \in View : Stored(v) \in View /\ Answered(v) \in View /\ Digest(v) \in Nat
  /\ Free \notin Save /\ Free \notin Send
<1>1. NoMaster \notin Master
  BY DEF NoMaster, Master
<1>2. \A m \in Master : m.born \in Nat /\ m.gallery \in [Slots -> View]
  BY DEF Master
<1>3. NoView \in View
  BY DEF NoView, NoCrop, View
<1>4. \A v \in View : Stored(v) \in View /\ Answered(v) \in View /\ Digest(v) \in Nat
  BY DEF Stored, Answered, Digest, NoCrop, View
<1>5. Free \notin Save /\ Free \notin Send
  BY DEF Free, Save, Send
<1> QED BY <1>1, <1>2, <1>3, <1>4, <1>5

\* The numbers of the rows are below the first free one.
LEMMA FreeFacts ==
  ASSUME TypeOK
  PROVE  FirstFree \in Nat \ {0} /\ \A i \in Known : i < FirstFree
<1>1. MaxId \in Nat /\ Known \subseteq Ids
  BY PersistenceAssumption DEF Known
<1>2. Known \cup {0} \subseteq Nat /\ \A x \in Known \cup {0} : x <= MaxId
  BY <1>1 DEF Ids
<1>3. Max(Known \cup {0}) \in Known \cup {0} /\ \A x \in Known \cup {0} : x <= Max(Known \cup {0})
  BY <1>1, <1>2, MaxFacts
<1> HIDE DEF Known
<1> QED BY <1>2, <1>3 DEF FirstFree

\* A master that holds a view is one.
LEMMA HoldsFacts ==
  ASSUME TypeOK, NEW i \in Ids, NEW s \in Slots, Holds(memory[i], s)
  PROVE  memory[i] \in Master
BY DEF TypeOK, Holds

\* The row of a master and what a view adds to it.
LEMMA RowFacts ==
  ASSUME TypeOK, NEW i \in Ids, NEW copy \in Master
  PROVE  /\ Row(i, copy) \in Master
         /\ backend[i] \in Master => Row(i, copy).born = backend[i].born
         /\ backend[i] = NoMaster => Row(i, copy).born = copy.born
         /\ \A s \in Slots :
              /\ Arrived(i, s, copy) \in [Ids -> Master \cup {NoMaster}]
              /\ Arrived(i, s, copy)[i] \in Master /\ Arrived(i, s, copy)[i].born = Row(i, copy).born
              /\ \A j \in Ids \ {i} : Arrived(i, s, copy)[j] = backend[j]
<1>1. /\ Row(i, copy) \in Master
      /\ backend[i] \in Master => Row(i, copy).born = backend[i].born
      /\ backend[i] = NoMaster => Row(i, copy).born = copy.born
  <2>1. CASE backend[i] = NoMaster
    <3>1. Row(i, copy) = [born |-> copy.born, gallery |-> [s \in Slots |-> NoView]]
      BY <2>1 DEF Row
    <3>2. [s \in Slots |-> NoView] \in [Slots -> View] /\ copy.born \in Nat
      BY MasterFacts
    <3> QED BY <2>1, <3>1, <3>2, MasterFacts DEF Master
  <2>2. CASE backend[i] # NoMaster
    BY <2>2 DEF Row, TypeOK
  <2> QED BY <2>1, <2>2
<1>2. ASSUME NEW s \in Slots
      PROVE  /\ Arrived(i, s, copy) \in [Ids -> Master \cup {NoMaster}]
             /\ Arrived(i, s, copy)[i] \in Master /\ Arrived(i, s, copy)[i].born = Row(i, copy).born
             /\ \A j \in Ids \ {i} : Arrived(i, s, copy)[j] = backend[j]
  <2> DEFINE row == Row(i, copy)
             new == Refilled(row, [row.gallery EXCEPT ![s] = Stored(copy.gallery[s])])
  <2>1. row.gallery \in [Slots -> View] /\ Stored(copy.gallery[s]) \in View
    BY <1>1, MasterFacts
  <2>2. [row.gallery EXCEPT ![s] = Stored(copy.gallery[s])] \in [Slots -> View]
    BY <2>1
  <2>3. new \in Master /\ new.born = row.born
    BY <1>1, <2>2, RefilledFacts
  <2>4. Arrived(i, s, copy) = [backend EXCEPT ![i] = new]
    BY DEF Arrived
  <2> HIDE DEF row, new
  <2> QED BY <2>3, <2>4 DEF TypeOK, row
<1> QED BY <1>1, <1>2

-----------------------------------------------------------------------------
(* Types.                                                                   *)

\* The initial values have their types.
LEMMA TypeInit == Init => TypeOK
<1> SUFFICES ASSUME Init PROVE TypeOK
  OBVIOUS
<1>1. memory \in [Ids -> Master \cup {NoMaster}] /\ backend \in [Ids -> Master \cup {NoMaster}]
  BY DEF Init
<1>2. uploaded \in [Ids -> [Slots -> Nat]]
  BY DEF Init, NoCrop
<1>3. tasks \in Seq(Task \cup {Stop}) /\ pending \in Seq(Snapshot)
  BY EmptySeq DEF Init
<1>4. saving \in [Threads -> Save \cup {Free}] /\ writer = Free /\ sender = Free
  BY DEF Init
<1>5. stage \in Stages
  BY DEF Init, Stages
<1>6. session \in Nat /\ crops \in Nat /\ next \in Nat \ {0}
  BY DEF Init
<1>7. blind \in BOOLEAN
  BY DEF Init
<1>8. files = {} /\ left = {} /\ withdrawn = {}
  BY DEF Init
<1> QED BY <1>1, <1>2, <1>3, <1>4, <1>5, <1>6, <1>7, <1>8 DEF TypeOK

\* A session begins.
LEMMA BeginsTypes ==
  ASSUME TypeOK, Begins, blind' \in BOOLEAN, UNCHANGED <<crops, files, backend, withdrawn>>,
         memory' \in [Ids -> Master \cup {NoMaster}], next' \in Nat \ {0},
         uploaded' \in [Ids -> [Slots -> Nat]]
  PROVE  TypeOK'
BY EmptySeq DEF TypeOK, Begins, Stages

\* A crop is taken for a master.
LEMMA TakesTypes ==
  ASSUME TypeOK, NEW i \in Ids, NEW master \in Master, Takes(i, master), next' \in Nat \ {0}
  PROVE  TypeOK'
<1>1. crops' \in Nat \ {0} /\ [id |-> i, crop |-> crops'] \in Task
  BY DEF Takes, TypeOK, Task
<1>2. tasks' \in Seq(Task \cup {Stop})
  BY <1>1, QueueFacts DEF Takes, TypeOK
<1>3. saving' \in [Threads -> Save \cup {Free}]
  BY DEF Takes, Saves, TypeOK, Save, Threads
<1>4. memory' \in [Ids -> Master \cup {NoMaster}]
  BY DEF Takes, TypeOK
<1> QED BY <1>1, <1>2, <1>3, <1>4 DEF Takes, TypeOK

\* A view that is taken is one.
LEMMA TakenFacts == TypeOK => Taken \in View
BY DEF TypeOK, Taken, View

\* What an evidence task is about.
LEMMA TaskFacts ==
  ASSUME TypeOK, tasks # << >>
  PROVE  /\ Head(tasks) \in Task \cup {Stop} /\ Tail(tasks) \in Seq(Task \cup {Stop})
         /\ Head(tasks) # Stop => Head(tasks).id \in Ids
BY QueueFacts DEF TypeOK, Task

\* One step keeps every type.
LEMMA TypeStep ==
  ASSUME TypeOK, [Next]_vars
  PROVE  TypeOK'
<1>0. /\ stage \in Stages /\ session \in Nat /\ crops \in Nat /\ next \in Nat \ {0}
      /\ memory \in [Ids -> Master \cup {NoMaster}] /\ backend \in [Ids -> Master \cup {NoMaster}]
      /\ uploaded \in [Ids -> [Slots -> Nat]]
      /\ saving \in [Threads -> Save \cup {Free}] /\ sender \in Send \cup {Free}
      /\ Base \in Slots
  BY PersistenceAssumption DEF TypeOK
<1>1. CASE Loads
  <2>1. memory' \in [Ids -> Master \cup {NoMaster}] /\ next' \in Nat \ {0}
    BY <1>0, <1>1, FreeFacts DEF Loads, Complete, Known
  <2>2. uploaded' \in [Ids -> [Slots -> Nat]]
    <3>1. ASSUME NEW i \in Ids, NEW s \in Slots
          PROVE  (IF i \in Known /\ backend[i].gallery[s].digest THEN backend[i].gallery[s].crop ELSE NoCrop) \in Nat
      <4>1. CASE i \in Known
        <5>1. backend[i].gallery[s] \in View
          BY <1>0, <4>1, MasterFacts DEF Known
        <5> QED BY <5>1 DEF View, NoCrop
      <4>2. CASE i \notin Known
        BY <4>2 DEF NoCrop
      <4> QED BY <4>1, <4>2
    <3> QED BY <1>1, <3>1 DEF Loads
  <2> QED BY <1>1, <2>1, <2>2, BeginsTypes DEF Loads, TypeOK
<1>2. CASE LoadFails
  <2>1. memory' \in [Ids -> Master \cup {NoMaster}] /\ next' \in Nat \ {0} /\ uploaded' \in [Ids -> [Slots -> Nat]]
    BY <1>2 DEF LoadFails, NoCrop
  <2> QED BY <1>2, <2>1, BeginsTypes DEF LoadFails, TypeOK
<1>3. CASE Creates
  <2> DEFINE master == [born |-> session, gallery |-> [s \in Slots |-> IF s = Base THEN Taken ELSE NoView]]
  <2>1. master \in Master
    BY <1>0, TakenFacts, MasterFacts DEF Master
  <2>2. Takes(next, master) /\ next \in Ids /\ next' = next + 1
    BY <1>3 DEF Creates
  <2> HIDE DEF master
  <2> QED BY <1>0, <2>1, <2>2, TakesTypes
<1>4. ASSUME NEW i \in Ids, NEW s \in Slots, Fills(i, s) PROVE TypeOK'
  <2>1. memory[i] \in Master
    BY <1>0, <1>4, HoldsFacts DEF Fills
  <2>2. [memory[i].gallery EXCEPT ![s] = Taken] \in [Slots -> View]
    BY <2>1, TakenFacts, MasterFacts
  <2>3. Refilled(memory[i], [memory[i].gallery EXCEPT ![s] = Taken]) \in Master
    BY <2>1, <2>2, RefilledFacts
  <2> QED BY <1>0, <1>4, <2>3, TakesTypes DEF Fills
<1>5. ASSUME NEW i \in Ids, NEW views \in SUBSET Slots, NEW best \in Slots, Withdraws(i, views, best) PROVE TypeOK'
  <2>1. memory[i] \in Master /\ memory[i].gallery \in [Slots -> View]
    BY <1>5, HoldsFacts, MasterFacts DEF Withdraws
  <2> DEFINE kept == [s \in Slots |-> IF s \in views THEN NoView ELSE memory[i].gallery[s]]
             new == [kept EXCEPT ![Base] = kept[best]]
  <2>2. new \in [Slots -> View]
    BY <2>1, MasterFacts
  <2>3. Refilled(memory[i], new) \in Master
    BY <2>1, <2>2, RefilledFacts
  <2>4. memory' = [memory EXCEPT ![i] = Refilled(memory[i], new)]
    BY <1>0, <1>5 DEF Withdraws
  <2>5. {memory[i].gallery[s].crop : s \in views} \subseteq Nat
    BY <2>1 DEF View
  <2> HIDE DEF new
  <2>6. memory' \in [Ids -> Master \cup {NoMaster}]
    BY <1>0, <2>3, <2>4
  <2> QED BY <1>5, <2>5, <2>6 DEF Withdraws, TypeOK, threadVars
<1>6. ASSUME NEW t \in Threads, Copies(t) PROVE TypeOK'
  <2>1. saving[t] \in Save /\ saving[t].id \in Ids
    BY <1>0, <1>6 DEF Copies, Save
  <2> DEFINE i == saving[t].id
             new == IF Holds(memory[i], Base) THEN [at |-> "queue", id |-> i, copy |-> memory[i]] ELSE Free
  <2>2. new \in Save \cup {Free}
    BY <1>0, <2>1, HoldsFacts DEF Save
  <2>3. saving' = [saving EXCEPT ![t] = new]
    BY <1>6 DEF Copies
  <2> HIDE DEF new
  <2>4. saving' \in [Threads -> Save \cup {Free}]
    BY <1>0, <2>2, <2>3
  <2> QED BY <1>6, <2>4 DEF Copies, TypeOK
<1>7. ASSUME NEW t \in Threads, Queues(t) PROVE TypeOK'
  <2>1. saving[t].id \in Ids /\ saving[t].copy \in Master
    BY <1>0, <1>7 DEF Queues, Save
  <2>2. pending' \in Seq(Snapshot)
    BY <1>7, <2>1, PutFacts DEF Queues, TypeOK
  <2>3. saving' \in [Threads -> Save \cup {Free}]
    BY <1>0, <1>7 DEF Queues
  <2> QED BY <1>7, <2>2, <2>3 DEF Queues, TypeOK
<1>8. CASE Writes
  <2>1. Head(tasks) \in Task /\ Tail(tasks) \in Seq(Task \cup {Stop})
    BY <1>8, TaskFacts DEF Writes, WriterFree
  <2>2. Head(tasks).crop \in Nat
    BY <2>1 DEF Task
  <2> QED BY <1>8, <2>1, <2>2 DEF Writes, TypeOK
<1>9. CASE Completes
  <2>1. writer.task.id \in Ids
    BY <1>9 DEF Completes, TypeOK, Task
  <2> DEFINE i == writer.task.id
             crop == writer.task.crop
             gallery == [s \in Slots |->
                           IF memory[i].gallery[s].crop = crop THEN Answered(memory[i].gallery[s]) ELSE memory[i].gallery[s]]
  <2>2. memory' = IF memory[i] = NoMaster THEN memory ELSE [memory EXCEPT ![i] = Refilled(memory[i], gallery)]
    BY <1>0, <1>9, <2>1 DEF Completes
  <2>3. memory[i] # NoMaster => gallery \in [Slots -> View]
    BY <1>0, <2>1, MasterFacts
  <2>4. memory[i] # NoMaster => Refilled(memory[i], gallery) \in Master
    BY <1>0, <2>1, <2>3, RefilledFacts
  <2> HIDE DEF gallery
  <2>5. memory' \in [Ids -> Master \cup {NoMaster}]
    BY <1>0, <2>1, <2>2, <2>4
  <2>6. saving' \in [Threads -> Save \cup {Free}]
    BY <1>0, <1>9, <2>1 DEF Completes, Saves, Save, Threads
  <2> QED BY <1>9, <2>5, <2>6 DEF Completes, TypeOK
<1>10. CASE EvidenceFails
  <2>1. Head(tasks).id \in Ids /\ Tail(tasks) \in Seq(Task \cup {Stop})
    BY <1>10, TaskFacts DEF EvidenceFails, WriterFree
  <2> DEFINE i == Head(tasks).id
             crop == Head(tasks).crop
  <2>2. RolledBack(i, crop) \in Master \cup {NoMaster}
    <3>1. CASE memory[i] = NoMaster \/ memory[i].gallery[Base].crop = crop
      BY <3>1 DEF RolledBack
    <3>2. CASE ~ (memory[i] = NoMaster \/ memory[i].gallery[Base].crop = crop)
      <4>1. memory[i] \in Master /\ memory[i].gallery \in [Slots -> View]
        BY <1>0, <2>1, <3>2, MasterFacts
      <4>2. Unheld(i, crop) \in [Slots -> View]
        BY <4>1, MasterFacts DEF Unheld
      <4> QED BY <3>2, <4>1, <4>2, RefilledFacts DEF RolledBack
    <3> QED BY <3>1, <3>2
  <2>3. memory' \in [Ids -> Master \cup {NoMaster}]
    BY <1>0, <1>10, <2>1, <2>2 DEF EvidenceFails
  <2> QED BY <1>10, <2>1, <2>3 DEF EvidenceFails, TypeOK
<1>11. CASE WriterEnds
  <2>1. Tail(tasks) \in Seq(Task \cup {Stop})
    BY <1>11, TaskFacts DEF WriterEnds, WriterFree
  <2> QED BY <1>11, <2>1 DEF WriterEnds, TypeOK
<1>12. CASE SendsNext
  <2>1. Head(pending) \in Snapshot /\ Tail(pending) \in Seq(Snapshot)
    BY <1>12, QueueFacts DEF SendsNext, TypeOK
  <2>2. sender' \in Send
    BY <1>12, <2>1 DEF SendsNext, Snapshot, Send
  <2> QED BY <1>12, <2>1, <2>2 DEF SendsNext, TypeOK
<1>13. ASSUME sender \in Send PROVE sender.id \in Ids /\ sender.copy \in Master
  BY <1>13 DEF Send
<1>14. CASE SendsMaster
  <2>1. sender' \in Send
    BY <1>0, <1>13, <1>14 DEF SendsMaster, Send
  <2>2. backend' \in [Ids -> Master \cup {NoMaster}]
    BY <1>0, <1>13, <1>14, RowFacts DEF SendsMaster
  <2> QED BY <1>14, <2>1, <2>2 DEF SendsMaster, TypeOK
<1>15. ASSUME NEW s \in Slots, SendsView(s) PROVE TypeOK'
  <2>1. sender \in Send
    BY <1>0, <1>15 DEF SendsView
  <2>2. sender.id \in Ids /\ sender.copy \in Master /\ sender.copy.gallery[s] \in View
    BY <1>13, <2>1, MasterFacts
  <2>3. sender' \in Send
    <3>1. sender \in [at : {"views"}, id : Ids, copy : Master, todo : SUBSET Slots]
      BY <1>15, <2>1 DEF SendsView, Send
    <3>2. sender' \in [at : {"views"}, id : Ids, copy : Master, todo : SUBSET Slots]
      BY <1>15, <3>1 DEF SendsView
    <3> QED BY <3>2 DEF Send
  <2>4. backend' \in [Ids -> Master \cup {NoMaster}] /\ uploaded' \in [Ids -> [Slots -> Nat]]
    <3>1. CASE UNCHANGED <<backend, uploaded>>
      BY <1>0, <3>1
    <3>2. CASE ~ UNCHANGED <<backend, uploaded>>
      <4>1. /\ backend' = Arrived(sender.id, s, sender.copy)
            /\ uploaded' = [uploaded EXCEPT ![sender.id][s] = Digest(sender.copy.gallery[s])]
        BY <1>15, <3>2 DEF SendsView
      <4>2. Digest(sender.copy.gallery[s]) \in Nat
        BY <2>2, MasterFacts
      <4>3. uploaded' \in [Ids -> [Slots -> Nat]]
        BY <1>0, <2>2, <4>1, <4>2
      <4> QED BY <2>2, <4>1, <4>3, RowFacts
    <3> QED BY <3>1, <3>2
  <2> QED BY <1>15, <2>3, <2>4 DEF SendsView, TypeOK
<1>16. CASE SendsDone
  BY <1>16 DEF SendsDone, TypeOK
<1>17. CASE RequestFails
  <2>1. sender.id \in Ids /\ sender.copy \in Master
    BY <1>0, <1>13, <1>17 DEF RequestFails
  <2>2. Row(sender.id, sender.copy) \in Master
        /\ \A s \in Slots : Arrived(sender.id, s, sender.copy) \in [Ids -> Master \cup {NoMaster}]
    BY <2>1, RowFacts
  <2>3. sender = Free \/ sender.at = "master" \/ sender.todo \subseteq Slots
    BY <1>0 DEF Send
  <2>4. backend' \in [Ids -> Master \cup {NoMaster}]
    <3>1. CASE sender.at = "master"
      BY <1>0, <1>17, <2>1, <2>2, <3>1 DEF RequestFails
    <3>2. CASE sender.at # "master"
      <4>1. PICK s \in sender.todo, done \in BOOLEAN :
              backend' = IF done THEN Arrived(sender.id, s, sender.copy) ELSE backend
        BY <1>17, <3>2 DEF RequestFails
      <4> QED BY <1>0, <1>17, <2>2, <2>3, <3>2, <4>1 DEF RequestFails
    <3> QED BY <3>1, <3>2
  <2>5. uploaded' = uploaded
    BY <1>17 DEF RequestFails, LostUploads
  <2> QED BY <1>17, <2>4, <2>5 DEF RequestFails, AfterLoss, TypeOK
<1>18. CASE Cleared
  BY <1>0, <1>18 DEF Cleared, TypeOK, threadVars
<1>19. CASE CloseSteps
  <2>1. stage' \in Stages
    BY <1>19 DEF CloseSteps, Closes, Drained, EvidenceJoined, SavedAll, Flushed, Joined, Stages
  <2>2. left' \subseteq Ids
    BY <1>19 DEF CloseSteps, Closes, Drained, EvidenceJoined, SavedAll, Flushed, Joined, TypeOK
  <2>3. tasks' \in Seq(Task \cup {Stop})
    <3>1. tasks' = tasks \/ tasks' = Append(tasks, Stop)
      BY <1>19 DEF CloseSteps, Closes, Drained, EvidenceJoined, SavedAll, Flushed, Joined
    <3> QED BY <3>1, QueueFacts DEF TypeOK
  <2> QED BY <1>19, <2>1, <2>2, <2>3 DEF CloseSteps, TypeOK
<1>20. ASSUME NEW i \in Ids, SavesAgain(i) PROVE TypeOK'
  <2>1. saving' \in [Threads -> Save \cup {Free}]
    BY <1>0, <1>20 DEF SavesAgain, Saves, Save, Threads
  <2> QED BY <1>20, <2>1 DEF SavesAgain, TypeOK
<1>21. CASE Crash
  BY <1>21 DEF Crash, TypeOK, Stages, threadVars
<1>22. CASE UNCHANGED vars
  BY <1>22 DEF vars, memoryVars, threadVars, TypeOK
<1> QED BY <1>1, <1>2, <1>3, <1>4, <1>5, <1>6, <1>7, <1>8, <1>9, <1>10, <1>11, <1>12, <1>14, <1>15, <1>16,
           <1>17, <1>18, <1>19, <1>20, <1>21, <1>22
    DEF Next, Intake, Repairs, Saving, Evidence, Sending, Closing

\* Every record, queue and request keeps its type, for any number of slots and any
\* budget (reid_memory.py, reid_backend_store.py).
THEOREM TypeCorrect == Spec => []TypeOK
BY TypeInit, TypeStep, PTL DEF Spec

-----------------------------------------------------------------------------
(* The numbers.                                                             *)

\* A record of a master: in memory, in the backend, or on its way there.
RecordOf(i, m) ==
  \/ m = memory[i] \/ m = backend[i]
  \/ \E k \in DOMAIN pending : pending[k].id = i /\ pending[k].copy = m
  \/ sender # Free /\ sender.id = i /\ sender.copy = m
  \/ \E t \in Threads : /\ saving[t] # Free /\ saving[t].at = "queue"
                        /\ saving[t].id = i /\ saving[t].copy = m

Records(i) == {m \in Master : RecordOf(i, m)}

OneEach == \A i \in Ids : \A m, n \in Records(i) : m.born = n.born
Numbered == \A i \in Ids : Records(i) # {} => i < next

\* Every record of a number is of one master, and no number is given twice in a
\* session that knows the rows.
NumbersHold == blind \/ (OneEach /\ Numbered)

\* A record that is taken over from one of the same number.
Backed(i, m) == \E n \in Records(i) : n.born = m.born
GalleriesFrom(x) == \A i \in Ids : x[i] \in Master => Backed(i, x[i])
PendingFrom(x) == \A k \in DOMAIN x : Backed(x[k].id, x[k].copy)
SenderFrom(x) == x # Free => Backed(x.id, x.copy)
SavingFrom(x) == \A t \in Threads : x[t] # Free /\ x[t].at = "queue" => Backed(x[t].id, x[t].copy)

\* What stays is taken over.
LEMMA Kept ==
  ASSUME TypeOK
  PROVE  /\ GalleriesFrom(memory) /\ GalleriesFrom(backend) /\ PendingFrom(pending)
         /\ SenderFrom(sender) /\ SavingFrom(saving)
<1>1. GalleriesFrom(memory) /\ GalleriesFrom(backend)
  BY DEF GalleriesFrom, Backed, Records, RecordOf
<1>2. PendingFrom(pending)
  <2> SUFFICES ASSUME NEW k \in DOMAIN pending PROVE Backed(pending[k].id, pending[k].copy)
    BY DEF PendingFrom
  <2>1. pending[k] \in Snapshot
    BY ElementOfSeq, LenProperties DEF TypeOK
  <2>2. pending[k].copy \in Master
    BY <2>1 DEF Snapshot
  <2> QED BY <2>2 DEF Backed, Records, RecordOf
<1>3. SenderFrom(sender)
  <2>1. sender # Free => sender.copy \in Master
    BY DEF TypeOK, Send
  <2> QED BY <2>1 DEF SenderFrom, Backed, Records, RecordOf
<1>4. SavingFrom(saving)
  <2>1. \A t \in Threads : saving[t] # Free /\ saving[t].at = "queue" => saving[t].copy \in Master
    BY DEF TypeOK, Save
  <2> QED BY <2>1 DEF SavingFrom, Backed, Records, RecordOf
<1> QED BY <1>1, <1>2, <1>3, <1>4

\* A step that takes every record over keeps the numbers.
LEMMA Carried ==
  ASSUME TypeOK, OneEach, Numbered, next' = next,
         GalleriesFrom(memory'), GalleriesFrom(backend'), PendingFrom(pending'),
         SenderFrom(sender'), SavingFrom(saving')
  PROVE  OneEach' /\ Numbered'
<1>1. ASSUME NEW i \in Ids, NEW m \in Records(i)' PROVE \E n \in Records(i) : n.born = m.born
  <2>1. m \in Master /\ RecordOf(i, m)'
    BY <1>1 DEF Records
  <2> QED BY <2>1 DEF RecordOf, GalleriesFrom, PendingFrom, SenderFrom, SavingFrom, Backed
<1>2. OneEach'
  <2> SUFFICES ASSUME NEW i \in Ids, NEW m \in Records(i)', NEW n \in Records(i)'
               PROVE  m.born = n.born
    BY DEF OneEach
  <2> QED BY <1>1 DEF OneEach
<1>3. Numbered'
  BY <1>1 DEF Numbered
<1> QED BY <1>2, <1>3

\* A new master's number is nobody's.
LEMMA CreatesAnew ==
  ASSUME TypeOK, OneEach, Numbered, Creates
  PROVE  OneEach' /\ Numbered'
<1> DEFINE master == [born |-> session, gallery |-> [s \in Slots |-> IF s = Base THEN Taken ELSE NoView]]
<1>1. /\ next \in Ids /\ next' = next + 1 /\ next \in Nat
      /\ memory' = [memory EXCEPT ![next] = master]
      /\ saving' = [saving EXCEPT !["intake"] = [at |-> "copy", id |-> next]]
      /\ UNCHANGED <<pending, sender, backend>>
  BY DEF Creates, Takes, Saves, TypeOK
<1> HIDE DEF master
<1>2. memory \in [Ids -> Master \cup {NoMaster}] /\ saving \in [Threads -> Save \cup {Free}]
  BY DEF TypeOK
<1>3. Records(next) = {}
  BY <1>1 DEF Numbered
<1>4. ASSUME NEW i \in Ids, NEW m \in Records(i)'
      PROVE  m \in Records(i) \/ (i = next /\ m = memory'[next])
  <2>1. m \in Master /\ RecordOf(i, m)'
    BY <1>4 DEF Records
  <2>2. CASE m = memory'[i]
    BY <1>1, <1>2, <2>1, <2>2 DEF Records, RecordOf
  <2>3. CASE \E t \in Threads : /\ saving'[t] # Free /\ saving'[t].at = "queue"
                               /\ saving'[t].id = i /\ saving'[t].copy = m
    <3>1. PICK t \in Threads : /\ saving'[t] # Free /\ saving'[t].at = "queue"
                              /\ saving'[t].id = i /\ saving'[t].copy = m
      BY <2>3
    <3>2. t # "intake"
      BY <1>1, <1>2, <3>1
    <3>3. saving'[t] = saving[t]
      BY <1>1, <1>2, <3>2
    <3> QED BY <2>1, <3>1, <3>3 DEF Records, RecordOf
  <2>4. CASE m = backend[i] \/ (\E k \in DOMAIN pending : pending[k].id = i /\ pending[k].copy = m)
             \/ (sender # Free /\ sender.id = i /\ sender.copy = m)
    BY <2>1, <2>4 DEF Records, RecordOf
  <2> QED BY <1>1, <2>1, <2>2, <2>3, <2>4 DEF RecordOf
<1>5. OneEach'
  <2> SUFFICES ASSUME NEW i \in Ids, NEW m \in Records(i)', NEW n \in Records(i)'
               PROVE  m.born = n.born
    BY DEF OneEach
  <2> QED BY <1>3, <1>4 DEF OneEach
<1>6. Numbered'
  <2> SUFFICES ASSUME NEW i \in Ids, Records(i)' # {} PROVE i < next'
    BY DEF Numbered
  <2>1. Records(i) # {} \/ i = next
    BY <1>4
  <2>2. i \in Int
    BY PersistenceAssumption DEF Ids
  <2> QED BY <1>1, <2>1, <2>2 DEF Numbered
<1> QED BY <1>5, <1>6

\* A session that has loaded the rows knows their numbers.
LEMMA BeginsAnew ==
  ASSUME TypeOK, Begins, backend' = backend,
         \A i \in Ids : memory'[i] = backend[i] \/ memory'[i] = NoMaster,
         \A i \in Known : i < next'
  PROVE  OneEach' /\ Numbered'
<1>1. ASSUME NEW i \in Ids, NEW m \in Records(i)' PROVE m = backend[i] /\ i \in Known
  <2>1. m \in Master /\ RecordOf(i, m)' /\ m # NoMaster
    BY <1>1, MasterFacts DEF Records
  <2>2. pending' = << >> /\ sender' = Free /\ \A t \in Threads : saving'[t] = Free
    BY DEF Begins
  <2>3. DOMAIN pending' = {}
    BY <2>2
  <2> QED BY <2>1, <2>2, <2>3 DEF RecordOf, Known
<1>2. OneEach'
  BY <1>1 DEF OneEach
<1>3. Numbered'
  BY <1>1 DEF Numbered
<1> QED BY <1>2, <1>3

\* One step keeps the numbers, or the session does not know the rows.
LEMMA NumbersStep ==
  ASSUME TypeOK, NumbersHold, [Next]_vars
  PROVE  NumbersHold'
<1>0. /\ memory \in [Ids -> Master \cup {NoMaster}] /\ backend \in [Ids -> Master \cup {NoMaster}]
      /\ saving \in [Threads -> Save \cup {Free}] /\ sender \in Send \cup {Free}
      /\ Base \in Slots
  BY PersistenceAssumption DEF TypeOK
<1>1. CASE Loads
  <2>1. blind' = blind /\ (OneEach' /\ Numbered')
    BY <1>1, BeginsAnew, FreeFacts DEF Loads
  <2> QED BY <2>1 DEF NumbersHold
<1>2. CASE LoadFails
  <2>1. CASE Known = {}
    <3>1. OneEach' /\ Numbered'
      BY <1>2, <2>1, BeginsAnew DEF LoadFails
    <3> QED BY <3>1 DEF NumbersHold
  <2>2. CASE Known # {}
    BY <1>2, <2>2 DEF LoadFails, NumbersHold
  <2> QED BY <2>1, <2>2
<1>3. CASE blind /\ ~ Loads /\ ~ LoadFails
  <2>1. blind' = blind
    BY <1>3 DEF Next, vars, memoryVars, threadVars, Intake, Repairs, Saving, Evidence, Sending, Closing, Creates,
         Fills, Takes, Withdraws, Copies, Queues, Writes, Completes, EvidenceFails, WriterEnds, SendsNext,
         SendsMaster, SendsView, SendsDone, RequestFails, Cleared, CloseSteps, SavesAgain, Crash
  <2> QED BY <1>3, <2>1 DEF NumbersHold
<1>4. ASSUME OneEach, Numbered, ~ Loads, ~ LoadFails PROVE OneEach' /\ Numbered'
  <2> USE <1>0, <1>4
  <2>0. /\ GalleriesFrom(memory) /\ GalleriesFrom(backend) /\ PendingFrom(pending)
        /\ SenderFrom(sender) /\ SavingFrom(saving)
    BY Kept
  <2>1. CASE Creates
    BY <2>1, CreatesAnew
  <2>2. ASSUME NEW i \in Ids, NEW master \in Master, memory[i] \in Master, master.born = memory[i].born,
               memory' = [memory EXCEPT ![i] = master]
        PROVE  GalleriesFrom(memory')
    BY <2>0, <2>2 DEF GalleriesFrom, Backed
  <2>3. ASSUME NEW t \in Threads, NEW i \in Ids, Saves(t, i) PROVE SavingFrom(saving')
    BY <2>0, <2>3 DEF SavingFrom, Saves
  <2>4. ASSUME NEW i \in Ids, NEW s \in Slots, Fills(i, s) PROVE OneEach' /\ Numbered'
    <3>1. memory[i] \in Master
      BY <2>4, HoldsFacts DEF Fills
    <3> DEFINE gallery == [memory[i].gallery EXCEPT ![s] = Taken]
    <3>2. gallery \in [Slots -> View]
      BY <3>1, TakenFacts, MasterFacts
    <3>3. Refilled(memory[i], gallery) \in Master /\ Refilled(memory[i], gallery).born = memory[i].born
      BY <3>1, <3>2, RefilledFacts
    <3>4. memory' = [memory EXCEPT ![i] = Refilled(memory[i], gallery)] /\ Saves("intake", i)
          /\ UNCHANGED <<next, backend, pending, sender>>
      BY <2>4 DEF Fills, Takes
    <3> HIDE DEF gallery
    <3>5. GalleriesFrom(memory') /\ SavingFrom(saving')
      BY <2>2, <2>3, <3>1, <3>3, <3>4 DEF Threads
    <3> QED BY <2>0, <3>4, <3>5, Carried
  <2>5. ASSUME NEW i \in Ids, NEW views \in SUBSET Slots, NEW best \in Slots, Withdraws(i, views, best)
        PROVE  OneEach' /\ Numbered'
    <3>1. memory[i] \in Master /\ memory[i].gallery \in [Slots -> View]
      BY <2>5, HoldsFacts, MasterFacts DEF Withdraws
    <3> DEFINE kept == [s \in Slots |-> IF s \in views THEN NoView ELSE memory[i].gallery[s]]
               gallery == [kept EXCEPT ![Base] = kept[best]]
    <3>2. gallery \in [Slots -> View]
      BY <3>1, MasterFacts
    <3>3. Refilled(memory[i], gallery) \in Master /\ Refilled(memory[i], gallery).born = memory[i].born
      BY <3>1, <3>2, RefilledFacts
    <3>4. memory' = [memory EXCEPT ![i] = Refilled(memory[i], gallery)]
          /\ UNCHANGED <<next, backend, pending, sender, saving>>
      BY <2>5 DEF Withdraws, threadVars
    <3> HIDE DEF gallery
    <3>5. GalleriesFrom(memory')
      BY <2>2, <3>1, <3>3, <3>4
    <3> QED BY <2>0, <3>4, <3>5, Carried
  <2>6. ASSUME NEW t \in Threads, Copies(t) PROVE OneEach' /\ Numbered'
    <3>1. saving[t].id \in Ids
      BY <2>6 DEF Copies, Save
    <3> DEFINE i == saving[t].id
               new == IF Holds(memory[i], Base) THEN [at |-> "queue", id |-> i, copy |-> memory[i]] ELSE Free
    <3>2. new # Free => new.id = i /\ new.copy = memory[i] /\ memory[i] \in Master
      BY <3>1, HoldsFacts
    <3>3. saving' = [saving EXCEPT ![t] = new] /\ UNCHANGED <<next, memory, backend, pending, sender>>
      BY <2>6 DEF Copies
    <3> HIDE DEF new
    <3>4. SavingFrom(saving')
      <4> SUFFICES ASSUME NEW u \in Threads, saving'[u] # Free, saving'[u].at = "queue"
                   PROVE  Backed(saving'[u].id, saving'[u].copy)
        BY DEF SavingFrom
      <4>1. CASE u = t
        BY <2>0, <3>1, <3>2, <3>3, <4>1 DEF GalleriesFrom
      <4>2. CASE u # t
        BY <2>0, <3>3, <4>2 DEF SavingFrom
      <4> QED BY <4>1, <4>2
    <3> QED BY <2>0, <3>3, <3>4, Carried
  <2>7. ASSUME NEW t \in Threads, Queues(t) PROVE OneEach' /\ Numbered'
    <3>1. /\ saving[t] # Free /\ saving[t].at = "queue"
          /\ saving[t].id \in Ids /\ saving[t].copy \in Master
      BY <2>7 DEF Queues, Save
    <3>2. PendingFrom(pending')
      <4>1. CASE pending' = pending
        BY <2>0, <4>1
      <4>2. CASE pending' = Put(saving[t].id, saving[t].copy)
        <5>1. Backed(saving[t].id, saving[t].copy)
          BY <2>0, <3>1 DEF SavingFrom
        <5> SUFFICES ASSUME NEW k \in DOMAIN pending' PROVE Backed(pending'[k].id, pending'[k].copy)
          BY DEF PendingFrom
        <5>2. pending'[k] = [id |-> saving[t].id, copy |-> saving[t].copy]
              \/ \E j \in DOMAIN pending : pending'[k] = pending[j]
          BY <3>1, <4>2, PutFacts
        <5> QED BY <2>0, <5>1, <5>2 DEF PendingFrom
      <4> QED BY <2>7, <4>1, <4>2 DEF Queues
    <3>3. SavingFrom(saving')
      BY <2>0, <2>7 DEF Queues, SavingFrom
    <3>4. UNCHANGED <<next, memory, backend, sender>>
      BY <2>7 DEF Queues
    <3> QED BY <2>0, <3>2, <3>3, <3>4, Carried
  <2>8. CASE Writes \/ WriterEnds \/ CloseSteps \/ Crash
    <3>1. UNCHANGED <<next, memory, backend, pending, sender, saving>>
      BY <2>8 DEF Writes, WriterEnds, CloseSteps, Crash, threadVars
    <3> QED BY <2>0, <3>1, Carried
  <2>9. CASE Completes
    <3>1. writer.task.id \in Ids
      BY <2>9 DEF Completes, TypeOK, Task
    <3> DEFINE i == writer.task.id
               crop == writer.task.crop
               gallery == [s \in Slots |->
                             IF memory[i].gallery[s].crop = crop THEN Answered(memory[i].gallery[s]) ELSE memory[i].gallery[s]]
    <3>2. /\ memory' = IF memory[i] = NoMaster THEN memory ELSE [memory EXCEPT ![i] = Refilled(memory[i], gallery)]
          /\ Saves("evidence", i) /\ UNCHANGED <<next, backend, pending, sender>>
      BY <2>9, <3>1 DEF Completes
    <3>3. memory[i] # NoMaster => gallery \in [Slots -> View]
      BY <3>1, MasterFacts
    <3>4. memory[i] # NoMaster => /\ memory[i] \in Master /\ Refilled(memory[i], gallery) \in Master
                                 /\ Refilled(memory[i], gallery).born = memory[i].born
      BY <3>1, <3>3, RefilledFacts
    <3> HIDE DEF gallery
    <3>5. GalleriesFrom(memory') /\ SavingFrom(saving')
      BY <2>0, <2>2, <2>3, <3>1, <3>2, <3>4 DEF Threads
    <3> QED BY <2>0, <3>2, <3>5, Carried
  <2>10. CASE EvidenceFails
    <3>1. Head(tasks).id \in Ids
      BY <2>10, TaskFacts DEF EvidenceFails, WriterFree
    <3> DEFINE i == Head(tasks).id
               crop == Head(tasks).crop
    <3>2. memory' = [memory EXCEPT ![i] = RolledBack(i, crop)] /\ UNCHANGED <<next, backend, pending, sender, saving>>
      BY <2>10 DEF EvidenceFails
    <3>3. GalleriesFrom(memory')
      <4>1. CASE memory[i] = NoMaster \/ memory[i].gallery[Base].crop = crop
        <5>1. RolledBack(i, crop) = NoMaster
          BY <4>1 DEF RolledBack
        <5> QED BY <2>0, <3>1, <3>2, <5>1, MasterFacts DEF GalleriesFrom
      <4>2. CASE ~ (memory[i] = NoMaster \/ memory[i].gallery[Base].crop = crop)
        <5>1. memory[i] \in Master /\ memory[i].gallery \in [Slots -> View]
          BY <3>1, <4>2, MasterFacts
        <5>2. Unheld(i, crop) \in [Slots -> View]
          BY <5>1, MasterFacts DEF Unheld
        <5>3. RolledBack(i, crop) \in Master /\ RolledBack(i, crop).born = memory[i].born
          BY <4>2, <5>1, <5>2, RefilledFacts DEF RolledBack
        <5> QED BY <2>2, <3>1, <3>2, <5>1, <5>3
      <4> QED BY <4>1, <4>2
    <3> QED BY <2>0, <3>2, <3>3, Carried
  <2>11. CASE SendsNext
    <3>1. /\ Head(pending) = pending[1] /\ 1 \in DOMAIN pending
          /\ \A k \in DOMAIN Tail(pending) : \E j \in DOMAIN pending : Tail(pending)[k] = pending[j]
      BY <2>11, QueueFacts DEF SendsNext, TypeOK
    <3>2. PendingFrom(pending') /\ SenderFrom(sender')
      BY <2>0, <2>11, <3>1 DEF SendsNext, PendingFrom, SenderFrom
    <3>3. UNCHANGED <<next, memory, backend, saving>>
      BY <2>11 DEF SendsNext
    <3> QED BY <2>0, <3>2, <3>3, Carried
  <2>12. ASSUME sender \in Send
         PROVE  /\ sender.id \in Ids /\ sender.copy \in Master
                /\ Backed(sender.id, Row(sender.id, sender.copy))
    <3>1. sender.id \in Ids /\ sender.copy \in Master /\ sender # Free
      BY <2>12, MasterFacts DEF Send
    <3>2. CASE backend[sender.id] = NoMaster
      BY <2>0, <3>1, <3>2, RowFacts DEF SenderFrom, Backed
    <3>3. CASE backend[sender.id] \in Master
      BY <2>0, <3>1, <3>3, RowFacts DEF GalleriesFrom, Backed
    <3> QED BY <3>1, <3>2, <3>3
  <2>13. ASSUME sender \in Send, NEW s \in Slots, backend' = Arrived(sender.id, s, sender.copy)
         PROVE  GalleriesFrom(backend')
    BY <2>0, <2>12, <2>13, RowFacts DEF GalleriesFrom, Backed
  <2>14. ASSUME sender \in Send, backend' = [backend EXCEPT ![sender.id] = Row(sender.id, sender.copy)]
         PROVE  GalleriesFrom(backend')
    BY <2>0, <2>12, <2>14 DEF GalleriesFrom
  <2>15. CASE SendsMaster
    <3>1. sender \in Send /\ GalleriesFrom(backend')
      BY <2>14, <2>15 DEF SendsMaster
    <3>2. sender'.id = sender.id /\ sender'.copy = sender.copy /\ UNCHANGED <<next, memory, pending, saving>>
      BY <2>15 DEF SendsMaster
    <3>3. SenderFrom(sender')
      BY <2>0, <2>15, <3>2 DEF SenderFrom, SendsMaster
    <3> QED BY <2>0, <3>1, <3>2, <3>3, Carried
  <2>16. ASSUME NEW s \in Slots, SendsView(s) PROVE OneEach' /\ Numbered'
    <3>1. sender \in Send /\ sender # Free
      BY <2>16 DEF SendsView
    <3>2. GalleriesFrom(backend')
      BY <2>0, <2>13, <2>16, <3>1 DEF SendsView
    <3>3. sender \in [at : {"views"}, id : Ids, copy : Master, todo : SUBSET Slots]
      BY <2>16, <3>1 DEF SendsView, Send
    <3>4. sender'.id = sender.id /\ sender'.copy = sender.copy /\ UNCHANGED <<next, memory, pending, saving>>
      BY <2>16, <3>3 DEF SendsView
    <3>5. SenderFrom(sender')
      BY <2>0, <3>1, <3>4 DEF SenderFrom
    <3> QED BY <2>0, <3>2, <3>4, <3>5, Carried
  <2>17. CASE SendsDone
    <3>1. SenderFrom(sender') /\ UNCHANGED <<next, memory, backend, pending, saving>>
      BY <2>17 DEF SendsDone, SenderFrom
    <3> QED BY <2>0, <3>1, Carried
  <2>18. CASE RequestFails
    <3>1. sender \in Send /\ SenderFrom(sender') /\ UNCHANGED <<next, memory, pending, saving>>
      BY <2>18 DEF RequestFails, AfterLoss, SenderFrom
    <3>2. GalleriesFrom(backend')
      <4>1. CASE sender.at = "master"
        BY <2>0, <2>14, <2>18, <3>1, <4>1 DEF RequestFails
      <4>2. CASE sender.at # "master"
        <5>1. sender.todo \subseteq Slots
          BY <3>1, <4>2 DEF Send
        <5>2. PICK s \in sender.todo, done \in BOOLEAN :
                backend' = IF done THEN Arrived(sender.id, s, sender.copy) ELSE backend
          BY <2>18, <4>2 DEF RequestFails
        <5> QED BY <2>0, <2>13, <3>1, <5>1, <5>2
      <4> QED BY <4>1, <4>2
    <3> QED BY <2>0, <3>1, <3>2, Carried
  <2>19. CASE Cleared
    <3>1. GalleriesFrom(backend')
      BY <2>19, MasterFacts DEF Cleared, GalleriesFrom
    <3>2. UNCHANGED <<next, memory, pending, sender, saving>>
      BY <2>19 DEF Cleared, threadVars
    <3> QED BY <2>0, <3>1, <3>2, Carried
  <2>20. ASSUME NEW i \in Ids, SavesAgain(i) PROVE OneEach' /\ Numbered'
    <3>1. Saves("close", i) /\ UNCHANGED <<next, memory, backend, pending, sender>>
      BY <2>20 DEF SavesAgain
    <3>2. SavingFrom(saving')
      BY <2>3, <3>1 DEF Threads
    <3> QED BY <2>0, <3>1, <3>2, Carried
  <2>21. CASE UNCHANGED vars
    <3>1. UNCHANGED <<next, memory, backend, pending, sender, saving>>
      BY <2>21 DEF vars, memoryVars, threadVars
    <3> QED BY <2>0, <3>1, Carried
  <2> QED BY <2>1, <2>4, <2>5, <2>6, <2>7, <2>8, <2>9, <2>10, <2>11, <2>15, <2>16, <2>17, <2>18, <2>19, <2>20, <2>21
      DEF Next, Intake, Repairs, Saving, Evidence, Sending, Closing
<1> QED BY <1>1, <1>2, <1>3, <1>4 DEF NumbersHold

LEMMA NumbersAtStart == Init => NumbersHold
<1> SUFFICES ASSUME Init PROVE OneEach /\ Numbered
  BY DEF NumbersHold
<1>1. ASSUME NEW i \in Ids PROVE Records(i) = {}
  <2>1. memory[i] = NoMaster /\ backend[i] = NoMaster /\ pending = << >> /\ sender = Free
        /\ \A t \in Threads : saving[t] = Free
    BY DEF Init
  <2>2. DOMAIN pending = {}
    BY <2>1
  <2> QED BY <2>1, <2>2, MasterFacts DEF Records, RecordOf
<1> QED BY <1>1 DEF OneEach, Numbered

\* A number means one master for ever: a session that has loaded the run never gives
\* a new master the number of a row, of one it could not use or of one whose save
\* a crash cut short (reid_memory.py, load_database; reid_backend_store.py).
THEOREM OneMasterPerNumber == Spec => []RowOfOneMaster
<1>1. Init => NumbersHold
  BY NumbersAtStart
<1>2. TypeOK /\ NumbersHold /\ [Next]_vars => NumbersHold'
  BY NumbersStep
<1>3. TypeOK /\ NumbersHold => RowOfOneMaster
  BY DEF TypeOK, NumbersHold, OneEach, Records, RecordOf, RowOfOneMaster
<1> QED BY <1>1, <1>2, <1>3, TypeCorrect, PTL DEF Spec

-----------------------------------------------------------------------------
(* What close() leaves behind.                                              *)

\* A copy of a record on its way to the backend.
Copy(i, m) ==
  \/ \E k \in DOMAIN pending : pending[k].id = i /\ pending[k].copy = m
  \/ sender # Free /\ sender.id = i /\ sender.copy = m
  \/ \E t \in Threads : /\ saving[t] # Free /\ saving[t].at = "queue"
                        /\ saving[t].id = i /\ saving[t].copy = m

Written == writer # Free /\ writer.at = "written"
Queued(c) == \E k \in DOMAIN tasks : tasks[k].crop = c
Owned(i, c) == \E k \in DOMAIN tasks : tasks[k].id = i /\ tasks[k].crop = c
\* A crop that was never written and never will be.
Dead(c) == c \notin files /\ ~ Queued(c)

DistinctTasks ==
  \A j, k \in DOMAIN tasks : tasks[j].crop = tasks[k].crop /\ tasks[j].crop # NoCrop => j = k

\* A crop is named once, and written once.
CropsOnce ==
  /\ files \subseteq 1 .. crops
  /\ \A c \in Nat : Queued(c) => c <= crops /\ c \notin files
  /\ DistinctTasks
  /\ Written => writer.task.crop \in files

\* A view is of a crop that was taken, in the backend of one that was written.
ViewsOfCrops ==
  /\ \A i \in Ids, s \in Slots : Holds(memory[i], s) => memory[i].gallery[s].crop \in 1 .. crops
  /\ \A i \in Ids, s \in Slots :
       Holds(backend[i], s) => backend[i].gallery[s].crop \in files /\ ~ backend[i].gallery[s].path
  /\ \A i \in Ids, m \in Master : Copy(i, m) =>
       \A s \in Slots : m.gallery[s] # NoView => m.gallery[s].crop \in 1 .. crops

\* A gallery without a baseline is empty; a baseline of this session has only views of it beside.
Based ==
  \A i \in Ids, s \in Slots : Holds(memory[i], s) =>
    /\ Holds(memory[i], Base)
    /\ memory[i].gallery[Base].path => memory[i].gallery[s].path

\* A view of this session is written, or its task is queued or in hand.
TakenInHand ==
  \A i \in Ids, s \in Slots : Holds(memory[i], s) /\ memory[i].gallery[s].path =>
    \/ memory[i].gallery[s].digest /\ memory[i].gallery[s].crop \in files
    \/ Owned(i, memory[i].gallery[s].crop)
    \/ Written /\ writer.task = [id |-> i, crop |-> memory[i].gallery[s].crop]

\* A view that was loaded is no task's, and the backend holds it.
LoadedStays ==
  \A i \in Ids, s \in Slots : Holds(memory[i], s) /\ ~ memory[i].gallery[s].path =>
    /\ ~ Queued(memory[i].gallery[s].crop)
    /\ Written => writer.task.crop # memory[i].gallery[s].crop
    /\ ~ cut => backend[i] # NoMaster /\ backend[i].gallery[s] = memory[i].gallery[s]

\* What is noted as uploaded, the backend holds.
UploadsKept ==
  ~ cut => \A i \in Ids, s \in Slots : uploaded[i][s] # NoCrop =>
    /\ backend[i] # NoMaster
    /\ backend[i].gallery[s] = [crop |-> uploaded[i][s], digest |-> TRUE, path |-> FALSE]

\* Numbers are given in order.
InOrder ==
  /\ \A i \in Ids : memory[i] # NoMaster => i < next
  /\ \A i \in Ids, m \in Master : Copy(i, m) => i < next

\* A copy differs from the record by views that were taken back or never written.
CopiesOf ==
  \A i \in Ids, m \in Master : Copy(i, m) /\ memory[i] # NoMaster =>
    \A s \in Slots :
      /\ Holds(memory[i], s) /\ ~ memory[i].gallery[s].path => m.gallery[s] = memory[i].gallery[s]
      /\ ~ blind /\ m.gallery[s] # NoView =>
           \/ m.gallery[s].crop \in withdrawn
           \/ m.gallery[s].crop = memory[i].gallery[s].crop
           \/ Dead(m.gallery[s].crop)

\* So does the backend.
RowsOf ==
  ~ blind => \A i \in Ids, s \in Slots : memory[i] # NoMaster /\ Holds(backend[i], s) =>
    \/ backend[i].gallery[s].crop \in withdrawn
    \/ backend[i].gallery[s].crop = memory[i].gallery[s].crop

\* One snapshot of a master is pending.
OnePending == \A j, k \in DOMAIN pending : pending[j].id = pending[k].id => j = k

\* After its first wait, a close() that is not cut short has the memory to itself.
Quiet ==
  ~ cut =>
    /\ stage \in Stages \ {"off", "running", "drain"} =>
         /\ saving["intake"] = Free /\ saving["evidence"] = Free /\ ~ Written
         /\ \A c \in Nat : c # NoCrop => ~ Queued(c)
    /\ stage \in {"save", "flush", "stopping", "closed"} => writer # Free /\ writer.at = "ended"
    /\ stage \in {"running", "drain", "evidence"} => saving["close"] = Free
    /\ stage = "save" /\ saving["close"] # Free /\ saving["close"].at = "queue" =>
         saving["close"].copy = memory[saving["close"].id]
    /\ stage \in {"flush", "stopping", "closed"} => left = {} /\ saving["close"] = Free
    /\ stage \in {"stopping", "closed"} => PersistenceIdle

AtLast == ~ cut /\ stage \in {"save", "flush", "stopping", "closed"}
Settled(i, s) ==
  Holds(memory[i], s) => backend[i] # NoMaster /\ backend[i].gallery[s] = Stored(memory[i].gallery[s])
Owing(i) == i \in left \/ (saving["close"] # Free /\ saving["close"].id = i)
Pends(i) == \E k \in DOMAIN pending : pending[k].id = i /\ pending[k].copy = memory[i]
InHand(i) == sender # Free /\ sender.id = i
Sent(i) ==
  /\ \A k \in DOMAIN pending : pending[k].id # i
  /\ InHand(i) => /\ sender.copy = memory[i]
                  /\ sender.at = "views" => \A s \in Slots \ sender.todo : Settled(i, s)
  /\ ~ InHand(i) => \A s \in Slots : Settled(i, s)

\* The last copy of every master is still to be made, pending, in hand or stored.
LastCopies == AtLast => \A i \in Ids : Holds(memory[i], Base) => Owing(i) \/ Pends(i) \/ Sent(i)

CloseInv ==
  /\ CropsOnce /\ ViewsOfCrops /\ Based /\ TakenInHand /\ LoadedStays /\ UploadsKept
  /\ InOrder /\ CopiesOf /\ RowsOf /\ OnePending /\ Quiet /\ LastCopies

-----------------------------------------------------------------------------
(* What a step leaves alone.                                                *)

Starts == Loads \/ LoadFails
Crops == Creates \/ \E i \in Ids, s \in Slots : Fills(i, s)

\* What the steps leave alone.
LEMMA Frames ==
  ASSUME [Next]_vars, ~ Starts
  PROVE  /\ session' = session /\ blind' = blind
         /\ cut => cut'
         /\ ~ Crops => UNCHANGED <<crops, next>>
         /\ ~ (Crops \/ Repairs \/ Completes \/ EvidenceFails) => UNCHANGED <<memory, withdrawn>>
         /\ ~ (Crops \/ Writes \/ EvidenceFails \/ WriterEnds \/ Drained) => UNCHANGED tasks
         /\ ~ Writes => UNCHANGED files
         /\ ~ (Writes \/ Completes \/ WriterEnds) => UNCHANGED writer
         /\ ~ (SendsMaster \/ (\E s \in Slots : SendsView(s)) \/ RequestFails \/ Cleared) => UNCHANGED <<backend, uploaded>>
         /\ ~ (\E t \in Threads : Queues(t)) /\ ~ SendsNext => UNCHANGED pending
         /\ ~ (SendsNext \/ SendsMaster \/ (\E s \in Slots : SendsView(s)) \/ SendsDone \/ RequestFails) => UNCHANGED sender
         /\ ~ (Crops \/ (\E t \in Threads : Copies(t) \/ Queues(t)) \/ Completes \/ \E i \in Ids : SavesAgain(i)) => UNCHANGED saving
         /\ ~ (EvidenceJoined \/ \E i \in Ids : SavesAgain(i)) => UNCHANGED left
         /\ ~ (CloseSteps \/ Crash) => UNCHANGED stage
         /\ ~ (CloseSteps \/ Cleared \/ RequestFails) => UNCHANGED cut
<1>1. CASE UNCHANGED vars
  BY <1>1 DEF vars, memoryVars, threadVars
<1>2. CASE Crops
  <2>1. ASSUME NEW i, NEW master, Takes(i, master)
        PROVE  UNCHANGED <<stage, session, files, writer, pending, sender, left, uploaded, backend, blind, withdrawn, cut>>
    BY <2>1 DEF Takes
  <2>2. UNCHANGED <<stage, session, files, writer, pending, sender, left, uploaded, backend, blind, withdrawn, cut>>
    BY <1>2, <2>1 DEF Crops, Creates, Fills
  <2> QED BY <1>2, <2>2
<1>3. CASE Repairs
  <2>1. PICK i \in Ids, views \in SUBSET Slots, best \in Slots : Withdraws(i, views, best)
    BY <1>3 DEF Repairs
  <2> QED BY <1>3, <2>1 DEF Withdraws, threadVars
<1>4. CASE Saving
  BY <1>4 DEF Saving, Copies, Queues
<1>5. CASE Evidence
  BY <1>5 DEF Evidence, Writes, Completes, EvidenceFails, WriterEnds
<1>6. CASE Sending
  <2>1. CASE SendsNext
    BY <2>1 DEF SendsNext
  <2>2. CASE SendsMaster
    BY <2>2 DEF SendsMaster
  <2>3. ASSUME NEW s \in Slots, SendsView(s) PROVE UNCHANGED <<session, blind, cut, crops, next, memory, withdrawn, tasks,
                                                   files, writer, pending, saving, left, stage>>
    BY <2>3 DEF SendsView
  <2>4. CASE SendsDone
    BY <2>4 DEF SendsDone
  <2> QED BY <1>6, <2>1, <2>2, <2>3, <2>4 DEF Sending
<1>7. CASE RequestFails
  BY <1>7 DEF RequestFails
<1>8. CASE Cleared
  BY <1>8 DEF Cleared, threadVars
<1>9. CASE CloseSteps
  BY <1>9 DEF CloseSteps, Closes, Drained, EvidenceJoined, SavedAll, Flushed, Joined, Waits
<1>10. CASE \E i \in Ids : SavesAgain(i)
  BY <1>10 DEF SavesAgain
<1>11. CASE Crash
  BY <1>11 DEF Crash, threadVars
<1> QED BY <1>1, <1>2, <1>3, <1>4, <1>5, <1>6, <1>7, <1>8, <1>9, <1>10, <1>11 DEF Next, Starts, Intake, Crops, Closing

-----------------------------------------------------------------------------
(* The queues by position.                                                  *)

LEMMA AppendAt ==
  ASSUME NEW S, NEW s \in Seq(S), NEW x \in S
  PROVE  /\ DOMAIN s \subseteq DOMAIN Append(s, x)
         /\ \A k \in DOMAIN s : Append(s, x)[k] = s[k]
         /\ \E n \in DOMAIN Append(s, x) : /\ n \notin DOMAIN s /\ Append(s, x)[n] = x
                                           /\ \A k \in DOMAIN Append(s, x) : k = n \/ k \in DOMAIN s
<1>1. /\ Len(Append(s, x)) = Len(s) + 1 /\ Append(s, x)[Len(s) + 1] = x
      /\ \A k \in 1 .. Len(s) : Append(s, x)[k] = s[k]
      /\ DOMAIN Append(s, x) = 1 .. Len(s) + 1 /\ DOMAIN s = 1 .. Len(s) /\ Len(s) \in Nat
  BY AppendProperties, LenProperties
<1>2. Len(s) + 1 \in DOMAIN Append(s, x) /\ Len(s) + 1 \notin DOMAIN s
  BY <1>1
<1>3. \A k \in DOMAIN Append(s, x) : k = Len(s) + 1 \/ k \in DOMAIN s
  BY <1>1
<1>4. DOMAIN s \subseteq DOMAIN Append(s, x) /\ \A k \in DOMAIN s : Append(s, x)[k] = s[k]
  BY <1>1
<1> QED BY <1>1, <1>2, <1>3, <1>4

LEMMA TailAt ==
  ASSUME NEW S, NEW s \in Seq(S), s # << >>
  PROVE  /\ 1 \in DOMAIN s /\ s[1] = Head(s) /\ DOMAIN s \subseteq Int
         /\ \A k \in DOMAIN Tail(s) : k + 1 \in DOMAIN s /\ k + 1 # 1 /\ Tail(s)[k] = s[k + 1]
         /\ \A j \in DOMAIN s \ {1} : j - 1 \in DOMAIN Tail(s) /\ Tail(s)[j - 1] = s[j]
<1>1. /\ Tail(s) \in Seq(S) /\ Len(Tail(s)) = Len(s) - 1
      /\ \A i \in 1 .. Len(Tail(s)) : Tail(s)[i] = s[i + 1]
  BY HeadTailProperties
<1>2. DOMAIN s = 1 .. Len(s) /\ Len(s) \in Nat /\ Len(s) # 0
  BY LenProperties, EmptySeq
<1>3. DOMAIN Tail(s) = 1 .. Len(Tail(s))
  BY <1>1, LenProperties
<1>4. Head(s) = s[1]
  OBVIOUS
<1>5. ASSUME NEW j \in DOMAIN s \ {1} PROVE j - 1 \in DOMAIN Tail(s) /\ Tail(s)[j - 1] = s[j]
  <2>1. j - 1 \in 1 .. Len(Tail(s)) /\ (j - 1) + 1 = j
    BY <1>1, <1>2
  <2> QED BY <1>1, <1>3, <2>1
<1>6. ASSUME NEW k \in DOMAIN Tail(s) PROVE k + 1 \in DOMAIN s /\ k + 1 # 1 /\ Tail(s)[k] = s[k + 1]
  BY <1>1, <1>2, <1>3
<1>7. 1 \in DOMAIN s /\ DOMAIN s \subseteq Int
  BY <1>2
<1> QED BY <1>4, <1>5, <1>6, <1>7

\* The evidence queue: what a task is, and what appending and taking one leaves.
LEMMA TasksTyped ==
  ASSUME TypeOK
  PROVE  /\ \A k \in DOMAIN tasks : tasks[k].crop \in Nat /\ (tasks[k].crop = NoCrop <=> tasks[k] = Stop)
         /\ \A k \in DOMAIN tasks : tasks[k].crop # NoCrop => tasks[k] = [id |-> tasks[k].id, crop |-> tasks[k].crop]
<1>1. \A k \in DOMAIN tasks : tasks[k] \in Task \cup {Stop}
  BY ElementOfSeq, LenProperties DEF TypeOK
<1> QED BY <1>1 DEF Task, Stop, NoCrop

LEMMA TasksAppended ==
  ASSUME TypeOK, NEW x \in Task \cup {Stop}, tasks' = Append(tasks, x)
  PROVE  /\ \A c : Queued(c)' <=> Queued(c) \/ c = x.crop
         /\ \A i, c : Owned(i, c)' <=> Owned(i, c) \/ (i = x.id /\ c = x.crop)
         /\ DistinctTasks /\ (x.crop = NoCrop \/ ~ Queued(x.crop)) => DistinctTasks'
<1>1. /\ DOMAIN tasks \subseteq DOMAIN tasks' /\ \A k \in DOMAIN tasks : tasks'[k] = tasks[k]
      /\ \E n \in DOMAIN tasks' : /\ n \notin DOMAIN tasks /\ tasks'[n] = x
                                  /\ \A k \in DOMAIN tasks' : k = n \/ k \in DOMAIN tasks
  BY AppendAt DEF TypeOK
<1>2. \A c : Queued(c)' <=> Queued(c) \/ c = x.crop
  BY <1>1 DEF Queued
<1>3. \A i, c : Owned(i, c)' <=> Owned(i, c) \/ (i = x.id /\ c = x.crop)
  BY <1>1 DEF Owned
<1>4. DistinctTasks /\ (x.crop = NoCrop \/ ~ Queued(x.crop)) => DistinctTasks'
  BY <1>1 DEF DistinctTasks, Queued
<1> QED BY <1>2, <1>3, <1>4

LEMMA TaskTaken ==
  ASSUME TypeOK, CropsOnce, tasks # << >>, tasks' = Tail(tasks)
  PROVE  /\ \A c \in Nat \ {0} : Queued(c) <=> Queued(c)' \/ c = Head(tasks).crop
         /\ \A c : Queued(c)' => Queued(c)
         /\ Queued(Head(tasks).crop)
         /\ \A c : c = Head(tasks).crop /\ Head(tasks) # Stop => ~ Queued(c)'
         /\ \A i, c : Owned(i, c) => Owned(i, c)' \/ Head(tasks) = [id |-> i, crop |-> c] \/ c = NoCrop
         /\ DistinctTasks'
<1>1. /\ 1 \in DOMAIN tasks /\ tasks[1] = Head(tasks) /\ DOMAIN tasks \subseteq Int
      /\ \A k \in DOMAIN tasks' : k + 1 \in DOMAIN tasks /\ k + 1 # 1 /\ tasks'[k] = tasks[k + 1]
      /\ \A j \in DOMAIN tasks \ {1} : j - 1 \in DOMAIN tasks' /\ tasks'[j - 1] = tasks[j]
  BY TailAt DEF TypeOK
<1>2. \A c : Queued(c)' => Queued(c)
  BY <1>1 DEF Queued
<1>3. Queued(Head(tasks).crop)
  BY <1>1 DEF Queued
<1>4. \A c : Queued(c) => Queued(c)' \/ c = Head(tasks).crop
  <2> TAKE c
  <2> HAVE Queued(c)
  <2>1. PICK j \in DOMAIN tasks : tasks[j].crop = c
    BY DEF Queued
  <2>2. CASE j = 1
    BY <1>1, <2>1, <2>2
  <2>3. CASE j # 1
    BY <1>1, <2>1, <2>3 DEF Queued
  <2> QED BY <2>2, <2>3
<1>5. \A c : c = Head(tasks).crop /\ Head(tasks) # Stop => ~ Queued(c)'
  <2> SUFFICES ASSUME NEW c, c = Head(tasks).crop, Head(tasks) # Stop, NEW k \in DOMAIN tasks', tasks'[k].crop = c
               PROVE  FALSE
    BY DEF Queued
  <2>1. tasks[k + 1].crop = tasks[1].crop /\ tasks[1].crop # NoCrop /\ k + 1 \in DOMAIN tasks /\ k + 1 # 1
    BY <1>1, TasksTyped
  <2> QED BY <1>1, <2>1 DEF CropsOnce, DistinctTasks
<1>6. \A i, c : Owned(i, c) => Owned(i, c)' \/ Head(tasks) = [id |-> i, crop |-> c] \/ c = NoCrop
  <2> TAKE i, c
  <2> HAVE Owned(i, c)
  <2>1. PICK j \in DOMAIN tasks : tasks[j].id = i /\ tasks[j].crop = c
    BY DEF Owned
  <2>2. CASE j = 1
    BY <1>1, <2>1, <2>2, TasksTyped
  <2>3. CASE j # 1
    BY <1>1, <2>1, <2>3 DEF Owned
  <2> QED BY <2>2, <2>3
<1>7. DistinctTasks'
  <2> SUFFICES ASSUME NEW j \in DOMAIN tasks', NEW k \in DOMAIN tasks',
                      tasks'[j].crop = tasks'[k].crop, tasks'[j].crop # NoCrop
               PROVE  j = k
    BY DEF DistinctTasks
  <2>1. j + 1 = k + 1 /\ DOMAIN tasks' \subseteq Int
    <3>1. j + 1 = k + 1
      BY <1>1 DEF CropsOnce, DistinctTasks
    <3>2. tasks' \in Seq(Task \cup {Stop})
      BY TaskFacts
    <3>3. DOMAIN tasks' \subseteq Int
      BY <3>2, LenProperties
    <3> QED BY <3>1, <3>3
  <2> QED BY <2>1
<1> QED BY <1>2, <1>3, <1>4, <1>5, <1>6, <1>7

-----------------------------------------------------------------------------
(* Where copies come from.                                                  *)

LEMMA NoCopyAtStart == ASSUME Starts, NEW i, NEW m PROVE ~ Copy(i, m)'
<1>1. pending' = << >> /\ sender' = Free /\ saving' = [t \in Threads |-> Free]
  BY DEF Starts, Loads, LoadFails, Begins
<1>2. DOMAIN pending' = {}
  BY <1>1
<1> QED BY <1>1, <1>2 DEF Copy

\* What the persistence thread has in hand.
LEMMA InHandFacts ==
  ASSUME TypeOK, sender # Free
  PROVE  /\ sender.id \in Ids /\ sender.copy \in Master
         /\ sender.at \in {"master", "views"}
         /\ sender.at = "views" => sender.todo \in SUBSET Slots
BY DEF TypeOK, Send

LEMMA SendsViewFacts ==
  ASSUME TypeOK, NEW s \in Slots, SendsView(s)
  PROVE  /\ sender # Free /\ sender' # Free /\ sender'.id = sender.id /\ sender'.copy = sender.copy
         /\ sender.at = "views" /\ sender'.at = "views" /\ s \in sender.todo
         /\ sender'.todo = sender.todo \ {s}
<1>1. sender \in [at : {"views"}, id : Ids, copy : Master, todo : SUBSET Slots]
  BY DEF TypeOK, Send, SendsView
<1> QED BY <1>1 DEF SendsView, Free

\* A copy that a step makes is of the record as it stands.
LEMMA CopyOrigin ==
  ASSUME TypeOK, [Next]_vars, ~ Starts, NEW i \in Ids, NEW m \in Master, Copy(i, m)'
  PROVE  Copy(i, m) \/ (m = memory[i] /\ memory' = memory /\ Holds(memory[i], Base))
<1>0. saving \in [Threads -> Save \cup {Free}] /\ pending \in Seq(Snapshot)
  BY DEF TypeOK
<1>1. CASE \E k \in DOMAIN pending' : pending'[k].id = i /\ pending'[k].copy = m
  <2>0. PICK k \in DOMAIN pending' : pending'[k].id = i /\ pending'[k].copy = m
    BY <1>1
  <2>1. ASSUME NEW t \in Threads, Queues(t) PROVE Copy(i, m)
    <3>1. /\ saving[t] # Free /\ saving[t].at = "queue"
          /\ saving[t].id \in Ids /\ saving[t].copy \in Master
          /\ pending' = pending \/ pending' = Put(saving[t].id, saving[t].copy)
      BY <1>0, <2>1 DEF Queues, Save
    <3>2. pending'[k] = [id |-> saving[t].id, copy |-> saving[t].copy] \/ \E j \in DOMAIN pending : pending'[k] = pending[j]
      BY <2>0, <3>1, PutFacts
    <3> QED BY <2>0, <3>1, <3>2 DEF Copy
  <2>2. CASE SendsNext
    <3>1. \E j \in DOMAIN pending : pending'[k] = pending[j]
      BY <1>0, <2>0, <2>2, QueueFacts DEF SendsNext
    <3> QED BY <2>0, <3>1 DEF Copy
  <2>3. CASE UNCHANGED pending
    BY <2>0, <2>3 DEF Copy
  <2> QED BY <2>1, <2>2, <2>3, Frames
<1>2. CASE sender' # Free /\ sender'.id = i /\ sender'.copy = m
  <2>1. CASE SendsNext
    <3>1. Head(pending) = pending[1] /\ 1 \in DOMAIN pending
      BY <1>0, <2>1, QueueFacts DEF SendsNext
    <3>2. pending[1].id = i /\ pending[1].copy = m
      BY <1>2, <2>1, <3>1 DEF SendsNext
    <3> QED BY <3>1, <3>2 DEF Copy
  <2>2. CASE SendsMaster
    BY <1>2, <2>2 DEF SendsMaster, Copy
  <2>3. ASSUME NEW s \in Slots, SendsView(s) PROVE Copy(i, m)
    BY <1>2, <2>3, SendsViewFacts DEF Copy
  <2>4. CASE SendsDone \/ RequestFails
    BY <1>2, <2>4 DEF SendsDone, RequestFails, AfterLoss
  <2>5. CASE UNCHANGED sender
    BY <1>2, <2>5 DEF Copy
  <2> QED BY <2>1, <2>2, <2>3, <2>4, <2>5, Frames
<1>3. CASE \E t \in Threads : saving'[t] # Free /\ saving'[t].at = "queue" /\ saving'[t].id = i /\ saving'[t].copy = m
  <2>0. PICK t \in Threads : saving'[t] # Free /\ saving'[t].at = "queue" /\ saving'[t].id = i /\ saving'[t].copy = m
    BY <1>3
  <2>1. ASSUME saving'[t] = saving[t] PROVE Copy(i, m)
    BY <2>0, <2>1 DEF Copy
  <2>2. ASSUME NEW u \in Threads, NEW j, Saves(u, j) PROVE saving'[t] = saving[t]
    BY <1>0, <2>0, <2>2 DEF Saves
  <2>3. CASE Crops
    BY <2>1, <2>2, <2>3 DEF Crops, Creates, Fills, Takes, Threads
  <2>4. CASE Completes
    BY <2>1, <2>2, <2>4 DEF Completes, Threads
  <2>5. ASSUME NEW j \in Ids, SavesAgain(j) PROVE Copy(i, m)
    <3>1. Saves("close", j) /\ "close" \in Threads
      BY <2>5 DEF SavesAgain, Threads
    <3>2. saving'[t] = saving[t]
      BY <2>2, <3>1
    <3> QED BY <2>1, <3>2
  <2>6. ASSUME NEW u \in Threads, Queues(u) PROVE Copy(i, m)
    <3>1. saving' = [saving EXCEPT ![u] = Free]
      BY <2>6 DEF Queues
    <3>2. saving'[t] = saving[t]
      BY <1>0, <2>0, <3>1
    <3> QED BY <2>1, <3>2
  <2>7. ASSUME NEW u \in Threads, Copies(u), saving'[t] # saving[t]
        PROVE  m = memory[i] /\ memory' = memory /\ Holds(memory[i], Base)
    <3>1. u = t
      BY <1>0, <2>7 DEF Copies
    <3>2. saving'[t] = IF Holds(memory[saving[t].id], Base)
                         THEN [at |-> "queue", id |-> saving[t].id, copy |-> memory[saving[t].id]] ELSE Free
      BY <1>0, <2>7, <3>1 DEF Copies
    <3>3. Holds(memory[saving[t].id], Base) /\ saving[t].id = i /\ memory[saving[t].id] = m
      BY <2>0, <3>2
    <3> QED BY <2>7, <3>3 DEF Copies
  <2> QED BY <2>1, <2>3, <2>4, <2>5, <2>6, <2>7, Frames
<1> QED BY <1>1, <1>2, <1>3 DEF Copy

-----------------------------------------------------------------------------
(* What the steps of the memory do, view by view.                           *)

LEMMA CreatesFacts ==
  ASSUME TypeOK, Creates
  PROVE  /\ next \in Ids /\ next' = next + 1 /\ crops' = crops + 1 /\ Intakes /\ saving["intake"] = Free
         /\ tasks' = Append(tasks, [id |-> next, crop |-> crops + 1]) /\ [id |-> next, crop |-> crops + 1] \in Task
         /\ memory'[next] # NoMaster
         /\ \A s \in Slots : memory'[next].gallery[s] =
              IF s = Base THEN [crop |-> crops + 1, digest |-> FALSE, path |-> TRUE] ELSE NoView
         /\ \A j \in Ids \ {next} : memory'[j] = memory[j]
         /\ saving' = [saving EXCEPT !["intake"] = [at |-> "copy", id |-> next]]
         /\ UNCHANGED <<stage, files, writer, pending, sender, left, uploaded, backend, blind, withdrawn, cut>>
<1> DEFINE gallery == [s \in Slots |-> IF s = Base THEN Taken ELSE NoView]
           master == [born |-> session, gallery |-> gallery]
<1>1. next \in Ids /\ next' = next + 1 /\ Takes(next, master)
  BY DEF Creates
<1>2. master.gallery = gallery /\ master # NoMaster
  BY DEF NoMaster
<1>3. \A s \in Slots : gallery[s] = IF s = Base THEN [crop |-> crops + 1, digest |-> FALSE, path |-> TRUE] ELSE NoView
  BY DEF Taken
<1> HIDE DEF gallery, master
<1>4. memory' = [memory EXCEPT ![next] = master] /\ memory \in [Ids -> Master \cup {NoMaster}]
  BY <1>1 DEF Takes, TypeOK
<1>5. memory'[next] = master /\ \A j \in Ids \ {next} : memory'[j] = memory[j]
  BY <1>1, <1>4
<1>6. crops' = crops + 1 /\ Intakes /\ saving["intake"] = Free
      /\ tasks' = Append(tasks, [id |-> next, crop |-> crops + 1])
      /\ saving' = [saving EXCEPT !["intake"] = [at |-> "copy", id |-> next]]
      /\ UNCHANGED <<stage, files, writer, pending, sender, left, uploaded, backend, blind, withdrawn, cut>>
  BY <1>1 DEF Takes, IntakeFree, Saves
<1>7. [id |-> next, crop |-> crops + 1] \in Task
  BY <1>1 DEF Task, TypeOK
<1> QED BY <1>1, <1>2, <1>3, <1>5, <1>6, <1>7

LEMMA FillsFacts ==
  ASSUME TypeOK, NEW i \in Ids, NEW s \in Slots, Fills(i, s)
  PROVE  /\ s # Base /\ Holds(memory[i], Base) /\ ~ Holds(memory[i], s)
         /\ next' = next /\ crops' = crops + 1 /\ Intakes /\ saving["intake"] = Free
         /\ tasks' = Append(tasks, [id |-> i, crop |-> crops + 1]) /\ [id |-> i, crop |-> crops + 1] \in Task
         /\ memory[i] # NoMaster /\ memory'[i] # NoMaster
         /\ memory'[i].gallery[s] = [crop |-> crops + 1, digest |-> FALSE, path |-> TRUE]
         /\ \A r \in Slots \ {s} : memory'[i].gallery[r] = memory[i].gallery[r]
         /\ \A j \in Ids \ {i} : memory'[j] = memory[j]
         /\ saving' = [saving EXCEPT !["intake"] = [at |-> "copy", id |-> i]]
         /\ UNCHANGED <<stage, files, writer, pending, sender, left, uploaded, backend, blind, withdrawn, cut>>
<1> DEFINE gallery == [memory[i].gallery EXCEPT ![s] = Taken]
           master == Refilled(memory[i], gallery)
<1>1. next' = next /\ Takes(i, master) /\ s # Base /\ Holds(memory[i], Base) /\ ~ Holds(memory[i], s)
  BY DEF Fills
<1>2. memory[i] \in Master /\ memory[i].gallery \in [Slots -> View]
  BY <1>1, HoldsFacts, MasterFacts, PersistenceAssumption
<1>3. /\ gallery[s] = [crop |-> crops + 1, digest |-> FALSE, path |-> TRUE]
      /\ \A r \in Slots \ {s} : gallery[r] = memory[i].gallery[r]
  BY <1>2 DEF Taken
<1> HIDE DEF gallery
<1>4. master.gallery = gallery /\ master # NoMaster
  BY DEF NoMaster, Refilled
<1> HIDE DEF master
<1>5. memory' = [memory EXCEPT ![i] = master] /\ memory \in [Ids -> Master \cup {NoMaster}]
  BY <1>1 DEF Takes, TypeOK
<1>6. memory'[i] = master /\ \A j \in Ids \ {i} : memory'[j] = memory[j]
  BY <1>5
<1>7. crops' = crops + 1 /\ Intakes /\ saving["intake"] = Free
      /\ tasks' = Append(tasks, [id |-> i, crop |-> crops + 1])
      /\ saving' = [saving EXCEPT !["intake"] = [at |-> "copy", id |-> i]]
      /\ UNCHANGED <<stage, files, writer, pending, sender, left, uploaded, backend, blind, withdrawn, cut>>
  BY <1>1 DEF Takes, IntakeFree, Saves
<1>8. [id |-> i, crop |-> crops + 1] \in Task
  BY DEF Task, TypeOK
<1> QED BY <1>1, <1>2, <1>3, <1>4, <1>6, <1>7, <1>8, MasterFacts

LEMMA WithdrawsFacts ==
  ASSUME TypeOK, Based, NEW i \in Ids, NEW views \in SUBSET Slots, NEW best \in Slots, Withdraws(i, views, best)
  PROVE  /\ Intakes /\ memory[i] # NoMaster /\ memory'[i] # NoMaster
         /\ \A s \in views : Holds(memory[i], s) /\ memory[i].gallery[s].path /\ memory[i].gallery[s].crop \in withdrawn'
         /\ withdrawn \subseteq withdrawn'
         /\ \A s \in Slots \ {Base} : memory'[i].gallery[s] = IF s \in views THEN NoView ELSE memory[i].gallery[s]
         /\ \/ memory'[i].gallery[Base] = memory[i].gallery[Base]
            \/ /\ Base \in views
               /\ \/ memory'[i].gallery[Base] = NoView /\ \A s \in Slots : memory'[i].gallery[s] = NoView
                  \/ /\ best \in Slots \ views /\ Holds(memory[i], best)
                     /\ memory'[i].gallery[Base] = memory[i].gallery[best]
         /\ memory'[i].gallery[Base] = NoView => \A s \in Slots : memory'[i].gallery[s] = NoView
         /\ \A j \in Ids \ {i} : memory'[j] = memory[j]
         /\ UNCHANGED <<stage, crops, files, next, tasks, writer, saving, pending, sender, left, uploaded, backend, blind, cut>>
<1> DEFINE kept == [s \in Slots |-> IF s \in views THEN NoView ELSE memory[i].gallery[s]]
           gallery == [kept EXCEPT ![Base] = kept[best]]
           master == Refilled(memory[i], gallery)
<1>1. /\ Intakes /\ views # {} /\ \A s \in views : Holds(memory[i], s) /\ memory[i].gallery[s].path
      /\ kept[best] # NoView \/ (best = Base /\ \A s \in Slots : kept[s] = NoView)
      /\ kept[Base] # NoView => best = Base
      /\ withdrawn' = withdrawn \cup {memory[i].gallery[s].crop : s \in views}
      /\ UNCHANGED <<stage, crops, files, next, tasks, writer, saving, pending, sender, left, uploaded, backend, blind, cut>>
  BY DEF Withdraws, IntakeFree, threadVars
<1>2. memory[i] \in Master /\ memory[i].gallery \in [Slots -> View] /\ Base \in Slots /\ memory[i] # NoMaster
  BY <1>1, HoldsFacts, MasterFacts, PersistenceAssumption
<1>3. memory \in [Ids -> Master \cup {NoMaster}]
  BY DEF TypeOK
<1>4. memory' = [memory EXCEPT ![i] = master]
  BY <1>3 DEF Withdraws
<1>5. \A s \in Slots : kept[s] = IF s \in views THEN NoView ELSE memory[i].gallery[s]
  OBVIOUS
<1>6. \A s \in Slots : gallery[s] = IF s = Base THEN kept[best] ELSE kept[s]
  OBVIOUS
<1> HIDE DEF kept, gallery
<1>7. master.gallery = gallery /\ master # NoMaster
  BY DEF NoMaster, Refilled
<1> HIDE DEF master
<1>8. memory'[i] = master /\ \A j \in Ids \ {i} : memory'[j] = memory[j]
  BY <1>3, <1>4
<1>9. Holds(memory[i], Base)
  BY <1>1 DEF Based
<1>10. \/ gallery[Base] = memory[i].gallery[Base]
       \/ /\ Base \in views
          /\ \/ gallery[Base] = NoView /\ \A s \in Slots : gallery[s] = NoView
             \/ /\ best \in Slots \ views /\ Holds(memory[i], best)
                /\ gallery[Base] = memory[i].gallery[best]
  BY <1>1, <1>2, <1>5, <1>6, <1>9 DEF Holds
<1>11. gallery[Base] = NoView => \A s \in Slots : gallery[s] = NoView
  BY <1>1, <1>2, <1>5, <1>6
<1> QED BY <1>1, <1>2, <1>5, <1>6, <1>7, <1>8, <1>10, <1>11

LEMMA CompletesFacts ==
  ASSUME TypeOK, Completes
  PROVE  /\ Written /\ writer' = Free /\ writer.task.id \in Ids /\ writer.task.crop \in Nat \ {0}
         /\ \A j \in Ids \ {writer.task.id} : memory'[j] = memory[j]
         /\ \A j \in Ids : memory'[j] # NoMaster <=> memory[j] # NoMaster
         /\ memory[writer.task.id] # NoMaster => \A s \in Slots : memory'[writer.task.id].gallery[s] =
              IF memory[writer.task.id].gallery[s].crop = writer.task.crop
                THEN [memory[writer.task.id].gallery[s] EXCEPT !.digest = TRUE]
                ELSE memory[writer.task.id].gallery[s]
         /\ saving' = [saving EXCEPT !["evidence"] = [at |-> "copy", id |-> writer.task.id]]
         /\ UNCHANGED <<stage, crops, files, next, tasks, pending, sender, left, uploaded, backend, blind, withdrawn, cut>>
<1>1. writer.task \in Task /\ Written
  BY DEF Completes, TypeOK, Free, Written
<1> DEFINE i == writer.task.id
           crop == writer.task.crop
           gallery == [s \in Slots |->
                         IF memory[i].gallery[s].crop = crop THEN Answered(memory[i].gallery[s]) ELSE memory[i].gallery[s]]
           master == Refilled(memory[i], gallery)
<1>2. i \in Ids /\ crop \in Nat \ {0} /\ memory \in [Ids -> Master \cup {NoMaster}]
  BY <1>1 DEF Task, TypeOK
<1>3. memory' = IF memory[i] = NoMaster THEN memory ELSE [memory EXCEPT ![i] = master]
  BY <1>2 DEF Completes
<1>4. \A s \in Slots : gallery[s] = IF memory[i].gallery[s].crop = crop
                                     THEN [memory[i].gallery[s] EXCEPT !.digest = TRUE] ELSE memory[i].gallery[s]
  BY DEF Answered
<1> HIDE DEF gallery
<1>5. master.gallery = gallery /\ master # NoMaster
  BY DEF NoMaster, Refilled
<1> HIDE DEF master
<1>6. /\ \A j \in Ids \ {i} : memory'[j] = memory[j]
      /\ memory[i] # NoMaster => memory'[i] = master
      /\ memory[i] = NoMaster => memory'[i] = NoMaster
  BY <1>2, <1>3
<1>7. writer' = Free /\ saving' = [saving EXCEPT !["evidence"] = [at |-> "copy", id |-> writer.task.id]]
      /\ UNCHANGED <<stage, crops, files, next, tasks, pending, sender, left, uploaded, backend, blind, withdrawn, cut>>
  BY DEF Completes, Saves
<1> QED BY <1>1, <1>2, <1>4, <1>5, <1>6, <1>7

LEMMA EvidenceFailsFacts ==
  ASSUME TypeOK, EvidenceFails
  PROVE  /\ tasks # << >> /\ Head(tasks) # Stop /\ Head(tasks) \in Task /\ tasks' = Tail(tasks)
         /\ Head(tasks).id \in Ids /\ Head(tasks).crop \in Nat \ {0} /\ writer = Free /\ saving["evidence"] = Free
         /\ \A j \in Ids \ {Head(tasks).id} : memory'[j] = memory[j]
         /\ \A j \in Ids : memory'[j] # NoMaster => memory[j] # NoMaster
         /\ memory'[Head(tasks).id] # NoMaster =>
              /\ memory[Head(tasks).id].gallery[Base].crop # Head(tasks).crop
              /\ \A s \in Slots : memory'[Head(tasks).id].gallery[s] =
                   IF memory[Head(tasks).id].gallery[s].crop = Head(tasks).crop THEN NoView
                   ELSE memory[Head(tasks).id].gallery[s]
         /\ UNCHANGED <<stage, crops, files, next, writer, saving, pending, sender, left, uploaded, backend, blind, withdrawn, cut>>
<1>1. tasks # << >> /\ Head(tasks) # Stop /\ tasks' = Tail(tasks) /\ writer = Free /\ saving["evidence"] = Free
      /\ UNCHANGED <<stage, crops, files, next, writer, saving, pending, sender, left, uploaded, backend, blind, withdrawn, cut>>
  BY DEF EvidenceFails, WriterFree
<1>2. Head(tasks) \in Task /\ Head(tasks).id \in Ids /\ Head(tasks).crop \in Nat \ {0}
  BY <1>1, TaskFacts DEF Task
<1> DEFINE i == Head(tasks).id
           crop == Head(tasks).crop
           gallery == Unheld(i, crop)
           master == Refilled(memory[i], gallery)
<1>3. memory \in [Ids -> Master \cup {NoMaster}] /\ memory' = [memory EXCEPT ![i] = RolledBack(i, crop)]
  BY DEF EvidenceFails, TypeOK
<1>4. memory'[i] = RolledBack(i, crop) /\ \A j \in Ids \ {i} : memory'[j] = memory[j]
  BY <1>2, <1>3
<1>5. RolledBack(i, crop) = NoMaster \/ (memory[i] # NoMaster /\ memory[i].gallery[Base].crop # crop /\ RolledBack(i, crop) = master)
  BY DEF RolledBack
<1>6. \A s \in Slots : gallery[s] = IF memory[i].gallery[s].crop = crop THEN NoView ELSE memory[i].gallery[s]
  BY DEF Unheld
<1> HIDE DEF gallery
<1>7. master.gallery = gallery /\ master # NoMaster
  BY DEF NoMaster, Refilled
<1> HIDE DEF master
<1> QED BY <1>1, <1>2, <1>4, <1>5, <1>6, <1>7

-----------------------------------------------------------------------------
(* What the steps of the persistence thread do, view by view.               *)

\* The view is the next to arrive at the backend.
Lands(i, s) ==
  /\ InHand(i) /\ sender.at = "views" /\ s \in sender.todo
  /\ Due(i, s, sender.copy.gallery[s])

LEMMA RowAdded ==
  ASSUME TypeOK, NEW i \in Ids, NEW copy \in Master, backend' = [backend EXCEPT ![i] = Row(i, copy)]
  PROVE  /\ \A j \in Ids : backend[j] # NoMaster => backend'[j] = backend[j]
         /\ \A j \in Ids, s \in Slots : Holds(backend'[j], s) => backend'[j] = backend[j]
<1>1. backend \in [Ids -> Master \cup {NoMaster}]
  BY DEF TypeOK
<1>2. backend[i] # NoMaster => Row(i, copy) = backend[i]
  BY DEF Row
<1>3. \A s \in Slots : backend[i] = NoMaster => ~ Holds(Row(i, copy), s)
  BY DEF Row, Holds
<1> QED BY <1>1, <1>2, <1>3

LEMMA ViewArrived ==
  ASSUME TypeOK, NEW i \in Ids, NEW s \in Slots, NEW copy \in Master, backend' = Arrived(i, s, copy)
  PROVE  /\ \A j \in Ids \ {i} : backend'[j] = backend[j]
         /\ backend'[i] # NoMaster
         /\ backend'[i].gallery[s] = Stored(copy.gallery[s])
         /\ \A r \in Slots \ {s} : /\ backend[i] # NoMaster => backend'[i].gallery[r] = backend[i].gallery[r]
                                   /\ backend[i] = NoMaster => backend'[i].gallery[r] = NoView
<1> DEFINE row == Row(i, copy)
           gallery == [row.gallery EXCEPT ![s] = Stored(copy.gallery[s])]
           new == Refilled(row, gallery)
<1>1. backend \in [Ids -> Master \cup {NoMaster}] /\ row \in Master /\ row.gallery \in [Slots -> View]
  BY RowFacts, MasterFacts DEF TypeOK
<1>2. backend' = [backend EXCEPT ![i] = new]
  BY DEF Arrived
<1>3. gallery[s] = Stored(copy.gallery[s]) /\ \A r \in Slots \ {s} : gallery[r] = row.gallery[r]
  BY <1>1
<1>4. \A r \in Slots : /\ backend[i] # NoMaster => row.gallery[r] = backend[i].gallery[r]
                       /\ backend[i] = NoMaster => row.gallery[r] = NoView
  BY DEF Row
<1> HIDE DEF gallery
<1>5. new.gallery = gallery /\ new # NoMaster
  BY DEF NoMaster, Refilled
<1> HIDE DEF row, new
<1>6. backend'[i] = new /\ \A j \in Ids \ {i} : backend'[j] = backend[j]
  BY <1>1, <1>2
<1> QED BY <1>3, <1>4, <1>5, <1>6

\* The rows change by the view that lands, or are removed.
LEMMA BackendMoves ==
  ASSUME TypeOK, [Next]_vars, ~ Starts, NEW i \in Ids, NEW s \in Slots
  PROVE  /\ Holds(backend[i], s)' =>
              \/ Holds(backend[i], s) /\ backend'[i].gallery[s] = backend[i].gallery[s]
              \/ Lands(i, s) /\ backend'[i].gallery[s] = Stored(sender.copy.gallery[s])
         /\ ~ cut' /\ backend[i] # NoMaster =>
              /\ backend'[i] # NoMaster
              /\ ~ Lands(i, s) => backend'[i].gallery[s] = backend[i].gallery[s]
         /\ ~ cut' =>
              \/ /\ uploaded'[i][s] = uploaded[i][s]
                 /\ uploaded[i][s] # NoCrop /\ backend[i] # NoMaster => backend'[i].gallery[s] = backend[i].gallery[s]
              \/ /\ Lands(i, s) /\ backend'[i] # NoMaster
                 /\ uploaded'[i][s] = Digest(sender.copy.gallery[s])
                 /\ backend'[i].gallery[s] = Stored(sender.copy.gallery[s])
<1>0. uploaded \in [Ids -> [Slots -> Nat]]
  BY DEF TypeOK
<1>1. CASE UNCHANGED <<backend, uploaded>>
  BY <1>1
<1>2. CASE Cleared
  <2>1. backend'[i] = NoMaster /\ cut'
    BY <1>2 DEF Cleared
  <2> QED BY <2>1 DEF Holds
<1>3. ASSUME sender # Free, backend' = [backend EXCEPT ![sender.id] = Row(sender.id, sender.copy)], UNCHANGED uploaded
      PROVE  /\ Holds(backend[i], s)' => Holds(backend[i], s) /\ backend'[i].gallery[s] = backend[i].gallery[s]
             /\ backend[i] # NoMaster => backend'[i] = backend[i]
  BY <1>3, InHandFacts, RowAdded
<1>4. CASE SendsMaster
  BY <1>3, <1>4 DEF SendsMaster
<1>5. ASSUME sender # Free, sender.at = "views", NEW r \in sender.todo, Due(sender.id, r, sender.copy.gallery[r]),
             backend' = Arrived(sender.id, r, sender.copy)
      PROVE  /\ i = sender.id /\ r = s => Lands(i, s) /\ backend'[i] # NoMaster
                                          /\ backend'[i].gallery[s] = Stored(sender.copy.gallery[s])
             /\ ~ (i = sender.id /\ r = s) =>
                  /\ Holds(backend[i], s)' => Holds(backend[i], s) /\ backend'[i].gallery[s] = backend[i].gallery[s]
                  /\ backend[i] # NoMaster => backend'[i] # NoMaster /\ backend'[i].gallery[s] = backend[i].gallery[s]
  <2>1. /\ \A j \in Ids \ {sender.id} : backend'[j] = backend[j]
        /\ backend'[sender.id] # NoMaster
        /\ backend'[sender.id].gallery[r] = Stored(sender.copy.gallery[r])
        /\ \A q \in Slots \ {r} :
             /\ backend[sender.id] # NoMaster => backend'[sender.id].gallery[q] = backend[sender.id].gallery[q]
             /\ backend[sender.id] = NoMaster => backend'[sender.id].gallery[q] = NoView
    BY <1>5, InHandFacts, ViewArrived
  <2> QED BY <1>5, <2>1 DEF Lands, InHand, Holds
<1>6. ASSUME NEW r \in Slots, SendsView(r), ~ UNCHANGED <<backend, uploaded>>
      PROVE  /\ sender # Free /\ sender.at = "views" /\ r \in sender.todo /\ Due(sender.id, r, sender.copy.gallery[r])
             /\ backend' = Arrived(sender.id, r, sender.copy)
             /\ uploaded' = [uploaded EXCEPT ![sender.id][r] = Digest(sender.copy.gallery[r])]
  BY <1>6 DEF SendsView
<1>7. ASSUME NEW r \in Slots, SendsView(r)
      PROVE  /\ Holds(backend[i], s)' =>
              \/ Holds(backend[i], s) /\ backend'[i].gallery[s] = backend[i].gallery[s]
              \/ Lands(i, s) /\ backend'[i].gallery[s] = Stored(sender.copy.gallery[s])
             /\ ~ cut' /\ backend[i] # NoMaster =>
              /\ backend'[i] # NoMaster
              /\ ~ Lands(i, s) => backend'[i].gallery[s] = backend[i].gallery[s]
             /\ ~ cut' =>
              \/ /\ uploaded'[i][s] = uploaded[i][s]
                 /\ uploaded[i][s] # NoCrop /\ backend[i] # NoMaster => backend'[i].gallery[s] = backend[i].gallery[s]
              \/ /\ Lands(i, s) /\ backend'[i] # NoMaster
                 /\ uploaded'[i][s] = Digest(sender.copy.gallery[s])
                 /\ backend'[i].gallery[s] = Stored(sender.copy.gallery[s])
  <2>1. CASE UNCHANGED <<backend, uploaded>>
    BY <2>1
  <2>2. CASE ~ UNCHANGED <<backend, uploaded>>
    <3>1. sender.id \in Ids
      BY <1>6, <1>7, <2>2, InHandFacts
    <3>2. /\ i = sender.id /\ r = s => uploaded'[i][s] = Digest(sender.copy.gallery[s])
          /\ ~ (i = sender.id /\ r = s) => uploaded'[i][s] = uploaded[i][s]
      <4> DEFINE old == uploaded[sender.id]
                 new == [old EXCEPT ![r] = Digest(sender.copy.gallery[r])]
      <4>1. old \in [Slots -> Nat] /\ uploaded' = [uploaded EXCEPT ![sender.id] = new]
        BY <1>0, <1>6, <1>7, <2>2, <3>1
      <4>2. new[r] = Digest(sender.copy.gallery[r]) /\ \A q \in Slots \ {r} : new[q] = old[q]
        BY <4>1
      <4> HIDE DEF new
      <4> QED BY <1>0, <3>1, <4>1, <4>2
    <3> QED BY <1>5, <1>6, <1>7, <2>2, <3>2
  <2> QED BY <2>1, <2>2
<1>8. CASE RequestFails
  <2>1. CASE sender.at = "master"
    <3>1. UNCHANGED uploaded /\ sender # Free
          /\ backend' \in {backend, [backend EXCEPT ![sender.id] = Row(sender.id, sender.copy)]}
      BY <1>8, <2>1 DEF RequestFails
    <3> QED BY <1>1, <1>3, <3>1
  <2>2. CASE sender.at # "master"
    <3>1. sender # Free /\ sender.at = "views" /\ sender.todo \in SUBSET Slots /\ sender.id \in Ids
      BY <1>8, <2>2, InHandFacts DEF RequestFails
    <3>2. PICK r \in sender.todo, done \in BOOLEAN :
             /\ Due(sender.id, r, sender.copy.gallery[r])
             /\ backend' = IF done THEN Arrived(sender.id, r, sender.copy) ELSE backend
             /\ uploaded' = uploaded
             /\ cut' = (cut \/ LastSave \/ (done /\ uploaded[sender.id][r] # NoCrop))
      BY <1>8, <2>2 DEF RequestFails, LostUploads
    <3>3. CASE ~ done
      BY <1>1, <3>2, <3>3
    <3>4. CASE done
      BY <1>5, <3>1, <3>2, <3>4
    <3> QED BY <3>3, <3>4
  <2> QED BY <2>1, <2>2
<1> QED BY <1>1, <1>2, <1>4, <1>7, <1>8, Frames

\* Nothing that was taken is forgotten.
LEMMA CropsGrow ==
  ASSUME TypeOK, CropsOnce, [Next]_vars, ~ Starts
  PROVE  /\ crops \in Nat /\ crops' \in Nat /\ crops <= crops' /\ files \subseteq files' /\ withdrawn \subseteq withdrawn'
         /\ \A c \in 1 .. crops : Dead(c) => Dead(c)'
<1>1. crops \in Nat /\ (crops' = crops \/ crops' = crops + 1)
  <2>1. CASE Crops
    BY <2>1, CreatesFacts, FillsFacts DEF Crops, TypeOK
  <2> QED BY <2>1, Frames DEF TypeOK
<1>2. files \subseteq files'
  BY Frames DEF Writes
<1>3. withdrawn \subseteq withdrawn'
  <2>1. CASE Crops
    BY <2>1, CreatesFacts, FillsFacts DEF Crops
  <2>2. CASE Repairs
    BY <2>2 DEF Repairs, Withdraws
  <2>3. CASE Completes
    BY <2>3 DEF Completes
  <2>4. CASE EvidenceFails
    BY <2>4 DEF EvidenceFails
  <2> QED BY <2>1, <2>2, <2>3, <2>4, Frames
<1>4. ASSUME NEW c \in 1 .. crops, Dead(c) PROVE Dead(c)'
  <2>0. c \in Nat \ {0} /\ c <= crops /\ c \notin files /\ ~ Queued(c)
    BY <1>1, <1>4 DEF Dead
  <2>1. ASSUME NEW x \in Task \cup {Stop}, tasks' = Append(tasks, x), x.crop # c, files' = files PROVE Dead(c)'
    BY <2>0, <2>1, TasksAppended DEF Dead
  <2>2. CASE Creates
    <3>1. tasks' = Append(tasks, [id |-> next, crop |-> crops + 1]) /\ [id |-> next, crop |-> crops + 1] \in Task /\ files' = files
      BY <2>2, CreatesFacts
    <3> QED BY <1>1, <2>0, <2>1, <3>1
  <2>3. ASSUME NEW i \in Ids, NEW s \in Slots, Fills(i, s) PROVE Dead(c)'
    <3>1. tasks' = Append(tasks, [id |-> i, crop |-> crops + 1]) /\ [id |-> i, crop |-> crops + 1] \in Task /\ files' = files
      BY <2>3, FillsFacts
    <3> QED BY <1>1, <2>0, <2>1, <3>1
  <2>4. CASE Drained
    <3>1. tasks' = Append(tasks, Stop) /\ Stop.crop # c
      BY <2>0, <2>4 DEF Drained, Stop, NoCrop
    <3>2. files' = files
      BY <2>4, Frames DEF Drained, Writes, WriterFree, HelperRuns
    <3> QED BY <2>1, <3>1, <3>2
  <2>5. CASE Writes \/ EvidenceFails \/ WriterEnds
    <3>1. tasks # << >> /\ tasks' = Tail(tasks) /\ files' \subseteq files \cup {Head(tasks).crop}
      BY <2>5, Frames DEF Writes, EvidenceFails, WriterEnds, WriterFree
    <3>2. c # Head(tasks).crop /\ ~ Queued(c)'
      BY <2>0, <3>1, TaskTaken
    <3> QED BY <2>0, <3>1, <3>2 DEF Dead
  <2>6. CASE UNCHANGED <<tasks, files>>
    BY <2>0, <2>6 DEF Dead, Queued
  <2> QED BY <2>2, <2>3, <2>4, <2>5, <2>6, Frames DEF Crops
<1> QED BY <1>1, <1>2, <1>3, <1>4

-----------------------------------------------------------------------------
(* The parts of the invariant, step by step.                                *)

LEMMA NoViewFacts == NoView.crop = 0 /\ NoView.path = FALSE
BY DEF NoView, NoCrop

LEMMA StartsFacts ==
  ASSUME TypeOK, Starts
  PROVE  /\ stage' = "running" /\ ~ cut' /\ tasks' = << >> /\ pending' = << >> /\ left' = {}
         /\ writer' = Free /\ sender' = Free /\ saving' = [t \in Threads |-> Free]
         /\ \A i \in Ids : memory'[i] = NoMaster \/ (memory'[i] = backend[i] /\ Holds(backend[i], Base) /\ i < next')
         /\ next' \in Nat
         /\ \A c : ~ Queued(c)'
         /\ UNCHANGED <<crops, files, backend, withdrawn>>
<1>1. /\ stage' = "running" /\ ~ cut' /\ tasks' = << >> /\ pending' = << >> /\ left' = {}
      /\ writer' = Free /\ sender' = Free /\ saving' = [t \in Threads |-> Free]
      /\ UNCHANGED <<crops, files, backend, withdrawn>>
  BY DEF Starts, Loads, LoadFails, Begins
<1>2. \A i \in Ids : memory'[i] = NoMaster \/ (memory'[i] = backend[i] /\ Holds(backend[i], Base) /\ i < next')
  <2>1. CASE Loads
    <3>1. /\ memory' = [i \in Ids |-> IF i \in Complete THEN backend[i] ELSE NoMaster]
          /\ next' = FirstFree
      BY <2>1 DEF Loads
    <3> QED BY <3>1, FreeFacts DEF Complete
  <2>2. CASE LoadFails
    BY <2>2 DEF LoadFails
  <2> QED BY <2>1, <2>2 DEF Starts
<1>3. next' \in Nat
  BY FreeFacts DEF Starts, Loads, LoadFails
<1>4. \A c : ~ Queued(c)'
  <2>1. DOMAIN tasks' = {}
    BY <1>1
  <2> QED BY <2>1 DEF Queued
<1> QED BY <1>1, <1>2, <1>3, <1>4

\* Where a view of the memory comes from.
LEMMA ViewMoves ==
  ASSUME TypeOK, Based, [Next]_vars, ~ Starts, NEW i \in Ids, NEW s \in Slots, Holds(memory[i], s)'
  PROVE  \/ Holds(memory[i], s) /\ memory'[i].gallery[s] = memory[i].gallery[s]
         \/ /\ memory'[i].gallery[s] = [crop |-> crops + 1, digest |-> FALSE, path |-> TRUE]
            /\ crops' = crops + 1 /\ Owned(i, memory[i].gallery[s].crop)'
         \/ /\ s = Base /\ Holds(memory[i], Base) /\ memory[i].gallery[Base].path
            /\ \E best \in Slots : Holds(memory[i], best) /\ memory'[i].gallery[s] = memory[i].gallery[best]
            /\ UNCHANGED <<tasks, writer, files>>
         \/ /\ Completes /\ Holds(memory[i], s)
            /\ i = writer.task.id /\ memory[i].gallery[s].crop = writer.task.crop
            /\ memory'[i].gallery[s].crop = memory[i].gallery[s].crop
            /\ memory'[i].gallery[s].path = memory[i].gallery[s].path
            /\ memory'[i].gallery[s].digest
<1> DEFINE New == /\ memory'[i].gallery[s] = [crop |-> crops + 1, digest |-> FALSE, path |-> TRUE]
                  /\ crops' = crops + 1 /\ Owned(i, memory[i].gallery[s].crop)'
           Same == Holds(memory[i], s) /\ memory'[i].gallery[s] = memory[i].gallery[s]
<1>0. memory'[i] # NoMaster /\ memory'[i].gallery[s] # NoView
  BY DEF Holds
<1>1. CASE UNCHANGED memory
  BY <1>0, <1>1 DEF Holds
<1>2. ASSUME NEW j \in Ids, tasks' = Append(tasks, [id |-> j, crop |-> crops + 1]), [id |-> j, crop |-> crops + 1] \in Task,
             crops' = crops + 1
      PROVE  \A n : n = crops + 1 => Owned(j, n)'
  <2> DEFINE x == [id |-> j, crop |-> crops + 1]
  <2>1. x \in Task \cup {Stop} /\ tasks' = Append(tasks, x) /\ x.crop = crops + 1 /\ x.id = j
    BY <1>2
  <2> HIDE DEF x
  <2> QED BY <2>1, TasksAppended
<1>3. CASE Creates
  <2>1. /\ memory'[next].gallery[Base] = [crop |-> crops + 1, digest |-> FALSE, path |-> TRUE]
        /\ \A r \in Slots \ {Base} : memory'[next].gallery[r] = NoView
        /\ \A j \in Ids \ {next} : memory'[j] = memory[j]
        /\ tasks' = Append(tasks, [id |-> next, crop |-> crops + 1]) /\ [id |-> next, crop |-> crops + 1] \in Task
        /\ next \in Ids /\ crops' = crops + 1
    BY <1>3, CreatesFacts, PersistenceAssumption
  <2>2. CASE i = next
    BY <1>0, <1>2, <2>1, <2>2
  <2>3. CASE i # next
    BY <1>0, <2>1, <2>3 DEF Holds
  <2> QED BY <2>2, <2>3
<1>4. ASSUME NEW j \in Ids, NEW r \in Slots, Fills(j, r) PROVE New \/ Same
  <2>1. /\ memory[j] # NoMaster /\ crops' = crops + 1
        /\ memory'[j].gallery[r] = [crop |-> crops + 1, digest |-> FALSE, path |-> TRUE]
        /\ \A q \in Slots \ {r} : memory'[j].gallery[q] = memory[j].gallery[q]
        /\ \A k \in Ids \ {j} : memory'[k] = memory[k]
        /\ tasks' = Append(tasks, [id |-> j, crop |-> crops + 1]) /\ [id |-> j, crop |-> crops + 1] \in Task
    BY <1>4, FillsFacts
  <2>2. CASE i = j /\ r = s
    BY <1>2, <2>1, <2>2
  <2>3. CASE ~ (i = j /\ r = s)
    BY <1>0, <2>1, <2>3 DEF Holds
  <2> QED BY <2>2, <2>3
<1>5. ASSUME NEW j \in Ids, NEW views \in SUBSET Slots, NEW best \in Slots, Withdraws(j, views, best), ~ Same
      PROVE  /\ s = Base /\ Holds(memory[i], Base) /\ memory[i].gallery[Base].path
             /\ Holds(memory[i], best) /\ memory'[i].gallery[s] = memory[i].gallery[best]
             /\ UNCHANGED <<tasks, writer, files>>
  <2>1. /\ memory[j] # NoMaster
        /\ \A q \in views : Holds(memory[j], q) /\ memory[j].gallery[q].path
        /\ \A q \in Slots \ {Base} : memory'[j].gallery[q] = IF q \in views THEN NoView ELSE memory[j].gallery[q]
        /\ \/ memory'[j].gallery[Base] = memory[j].gallery[Base]
           \/ /\ Base \in views
              /\ \/ memory'[j].gallery[Base] = NoView
                 \/ Holds(memory[j], best) /\ memory'[j].gallery[Base] = memory[j].gallery[best]
        /\ \A k \in Ids \ {j} : memory'[k] = memory[k]
        /\ UNCHANGED <<tasks, writer, files>>
    BY <1>5, WithdrawsFacts
  <2> QED BY <1>0, <1>5, <2>1 DEF Holds
<1>6. CASE Completes
  <2>1. CASE i # writer.task.id
    BY <1>0, <1>6, <2>1, CompletesFacts DEF Holds
  <2>2. CASE i = writer.task.id
    <3>1. memory[i] \in Master /\ memory[i] # NoMaster /\ memory[i].gallery[s] \in View
          /\ writer.task.crop # 0
          /\ memory'[i].gallery[s] = IF memory[i].gallery[s].crop = writer.task.crop
                                       THEN [memory[i].gallery[s] EXCEPT !.digest = TRUE] ELSE memory[i].gallery[s]
      BY <1>0, <1>6, <2>2, CompletesFacts, MasterFacts DEF TypeOK
    <3>2. Holds(memory[i], s)
      BY <1>0, <3>1, NoViewFacts DEF Holds
    <3>3. CASE memory[i].gallery[s].crop = writer.task.crop
      BY <1>6, <2>2, <3>1, <3>2, <3>3 DEF View
    <3>4. CASE memory[i].gallery[s].crop # writer.task.crop
      BY <3>1, <3>2, <3>4
    <3> QED BY <3>3, <3>4
  <2> QED BY <2>1, <2>2
<1>7. CASE EvidenceFails
  BY <1>0, <1>7, EvidenceFailsFacts DEF Holds
<1> QED BY <1>1, <1>3, <1>4, <1>5, <1>6, <1>7, Frames DEF Crops, Repairs

\* Where the views of the memory go.
LEMMA ViewGoes ==
  ASSUME TypeOK, CropsOnce, Based, InOrder, [Next]_vars, ~ Starts, NEW i \in Ids, NEW s \in Slots,
         Holds(memory[i], s), memory'[i] # NoMaster, memory'[i].gallery[s].crop # memory[i].gallery[s].crop
  PROVE  \A c : c = memory[i].gallery[s].crop => c \in withdrawn' \/ Dead(c)'
<1>1. CASE UNCHANGED memory
  BY <1>1
<1>2. CASE Creates
  <2>1. i # next
    BY PersistenceAssumption DEF Holds, InOrder, Ids, TypeOK
  <2> QED BY <1>2, <2>1, CreatesFacts
<1>3. ASSUME NEW j \in Ids, NEW r \in Slots, Fills(j, r) PROVE FALSE
  <2>1. /\ ~ Holds(memory[j], r)
        /\ \A q \in Slots \ {r} : memory'[j].gallery[q] = memory[j].gallery[q]
        /\ \A k \in Ids \ {j} : memory'[k] = memory[k]
    BY <1>3, FillsFacts
  <2> QED BY <2>1
<1>4. ASSUME NEW j \in Ids, NEW views \in SUBSET Slots, NEW best \in Slots, Withdraws(j, views, best)
      PROVE  memory[i].gallery[s].crop \in withdrawn'
  <2>1. /\ \A q \in views : memory[j].gallery[q].crop \in withdrawn'
        /\ \A q \in Slots \ {Base} : memory'[j].gallery[q] = IF q \in views THEN NoView ELSE memory[j].gallery[q]
        /\ memory'[j].gallery[Base] = memory[j].gallery[Base] \/ Base \in views
        /\ \A k \in Ids \ {j} : memory'[k] = memory[k]
    BY <1>4, WithdrawsFacts
  <2> QED BY <2>1
<1>5. CASE Completes
  <2>1. memory[i].gallery[s] \in View
    BY MasterFacts DEF TypeOK, Holds
  <2>2. memory'[i].gallery[s] = memory[i].gallery[s] \/ memory'[i].gallery[s] = [memory[i].gallery[s] EXCEPT !.digest = TRUE]
    BY <1>5, CompletesFacts DEF Holds
  <2> QED BY <2>1, <2>2 DEF View
<1>6. CASE EvidenceFails
  <2>1. /\ tasks # << >> /\ Head(tasks) # Stop /\ tasks' = Tail(tasks) /\ files' = files
        /\ Head(tasks).crop \in Nat
        /\ memory[i].gallery[s].crop = Head(tasks).crop
    BY <1>6, EvidenceFailsFacts
  <2>2. Head(tasks).crop \notin files
    BY <2>1, TaskTaken DEF CropsOnce
  <2> QED BY <2>1, <2>2, TaskTaken DEF Dead
<1> QED BY <1>1, <1>2, <1>3, <1>4, <1>5, <1>6, Frames DEF Crops, Repairs

\* A master is new in one way.
LEMMA NewMaster ==
  ASSUME TypeOK, Based, [Next]_vars, ~ Starts, NEW i \in Ids, memory[i] = NoMaster, memory'[i] # NoMaster
  PROVE  Creates /\ i = next
<1>1. CASE Creates
  BY <1>1, CreatesFacts
<1>2. ASSUME NEW j \in Ids, NEW r \in Slots, Fills(j, r) PROVE FALSE
  BY <1>2, FillsFacts
<1>3. ASSUME NEW j \in Ids, NEW views \in SUBSET Slots, NEW best \in Slots, Withdraws(j, views, best) PROVE FALSE
  BY <1>3, WithdrawsFacts
<1>4. CASE Completes
  BY <1>4, CompletesFacts
<1>5. CASE EvidenceFails
  BY <1>5, EvidenceFailsFacts
<1> QED BY <1>1, <1>2, <1>3, <1>4, <1>5, Frames DEF Crops, Repairs

LEMMA CropsOnceStep ==
  ASSUME TypeOK, CropsOnce, [Next]_vars
  PROVE  CropsOnce'
<1>0. crops \in Nat /\ files \subseteq 1 .. crops
  BY DEF TypeOK, CropsOnce
<1>1. CASE Starts
  <2>1. DOMAIN tasks' = {} /\ writer' = Free /\ UNCHANGED <<crops, files>> /\ \A c : ~ Queued(c)'
    BY <1>1, StartsFacts
  <2> QED BY <1>0, <2>1 DEF CropsOnce, DistinctTasks, Written
<1>2. ASSUME NEW i \in Ids, tasks' = Append(tasks, [id |-> i, crop |-> crops + 1]),
             [id |-> i, crop |-> crops + 1] \in Task, crops' = crops + 1, UNCHANGED <<files, writer>>
      PROVE  CropsOnce'
  <2> DEFINE x == [id |-> i, crop |-> crops + 1]
  <2>1. x \in Task \cup {Stop} /\ tasks' = Append(tasks, x) /\ x.crop = crops + 1
    BY <1>2
  <2>2. ~ Queued(crops + 1)
    BY <1>0 DEF CropsOnce
  <2> HIDE DEF x
  <2>3. (\A c : Queued(c)' <=> Queued(c) \/ c = crops + 1) /\ DistinctTasks'
    BY <2>1, <2>2, TasksAppended DEF CropsOnce
  <2>4. files' \subseteq 1 .. crops' /\ \A c \in Nat : Queued(c)' => c <= crops' /\ c \notin files'
    BY <1>0, <1>2, <2>3 DEF CropsOnce
  <2> QED BY <1>2, <2>3, <2>4 DEF CropsOnce, Written
<1>3. CASE Crops
  BY <1>2, <1>3, CreatesFacts, FillsFacts DEF Crops
<1>4. CASE Drained
  <2>1. tasks' = Append(tasks, Stop) /\ Stop.crop = NoCrop /\ NoCrop = 0
    BY <1>4 DEF Drained, Stop, NoCrop
  <2>2. (\A c : Queued(c)' <=> Queued(c) \/ c = 0) /\ DistinctTasks'
    BY <2>1, TasksAppended DEF CropsOnce
  <2>3. CASE CloseSteps
    <3>1. UNCHANGED <<crops, files, writer>>
      BY <2>3 DEF CloseSteps
    <3> QED BY <1>0, <2>2, <3>1 DEF CropsOnce, Written
  <2>4. CASE UNCHANGED vars
    BY <1>0, <2>2, <2>4 DEF CropsOnce, Written, vars, memoryVars, threadVars
  <2>5. CASE ~ CloseSteps
    <3>1. stage' # stage
      BY <1>4 DEF Drained
    <3>2. Starts \/ Crash
      BY <2>5, <3>1, Frames
    <3> QED BY <1>1, <1>4, <3>2 DEF Crash, Drained
  <2> QED BY <2>3, <2>5
<1>5. CASE Writes \/ EvidenceFails \/ WriterEnds
  <2>1. /\ tasks # << >> /\ tasks' = Tail(tasks) /\ crops' = crops
        /\ \/ files' = files /\ ~ Written'
           \/ /\ Head(tasks) # Stop /\ files' = files \cup {Head(tasks).crop}
              /\ writer'.task = Head(tasks)
    BY <1>5 DEF Writes, EvidenceFails, WriterEnds, WriterFree, Written
  <2>2. Queued(Head(tasks).crop) /\ Head(tasks) \in Task \cup {Stop}
        /\ (\A c : Queued(c)' => Queued(c)) /\ DistinctTasks'
        /\ \A c : c = Head(tasks).crop /\ Head(tasks) # Stop => ~ Queued(c)'
    BY <2>1, TaskTaken, TaskFacts
  <2>3. Head(tasks) # Stop => Head(tasks).crop \in 1 .. crops
    BY <1>0, <2>2 DEF CropsOnce, Task
  <2> QED BY <1>0, <2>1, <2>2, <2>3 DEF CropsOnce, Written
<1>6. CASE UNCHANGED <<tasks, crops, files>> /\ (writer' = writer \/ writer' = Free)
  BY <1>6 DEF CropsOnce, DistinctTasks, Queued, Written
<1>7. CASE Completes
  BY <1>6, <1>7, CompletesFacts
<1> QED BY <1>1, <1>3, <1>4, <1>5, <1>6, <1>7, Frames

\* A view that lands is a copy's, of a written crop.
LEMMA LandsFacts ==
  ASSUME TypeOK, NEW i \in Ids, NEW s \in Slots, Lands(i, s)
  PROVE  /\ Copy(i, sender.copy) /\ sender.copy \in Master
         /\ sender.copy.gallery[s] \in View /\ sender.copy.gallery[s] # NoView
         /\ sender.copy.gallery[s].path /\ sender.copy.gallery[s].crop \in files
         /\ Stored(sender.copy.gallery[s]).crop = sender.copy.gallery[s].crop
         /\ Stored(sender.copy.gallery[s]).digest = sender.copy.gallery[s].digest
         /\ ~ Stored(sender.copy.gallery[s]).path
<1>1. Copy(i, sender.copy) /\ sender.copy \in Master
  BY InHandFacts DEF Lands, InHand, Copy
<1>2. sender.copy.gallery[s] \in View
  BY <1>1, MasterFacts
<1> QED BY <1>1, <1>2 DEF Lands, Due, Stored, View

LEMMA ViewsOfCropsStep ==
  ASSUME TypeOK, CropsOnce, ViewsOfCrops, Based, [Next]_vars
  PROVE  ViewsOfCrops'
<1>1. CASE Starts
  <2>1. ASSUME NEW i \in Ids, NEW s \in Slots, Holds(memory[i], s)' PROVE memory'[i].gallery[s].crop \in 1 .. crops'
    BY <1>1, <2>1, StartsFacts DEF ViewsOfCrops, Holds, CropsOnce
  <2>2. \A i \in Ids, m \in Master : ~ Copy(i, m)'
    BY <1>1, NoCopyAtStart
  <2> QED BY <1>1, <2>1, <2>2, StartsFacts DEF ViewsOfCrops, Holds
<1>2. CASE ~ Starts
  <2>0. crops \in Nat /\ crops' \in Nat /\ crops <= crops' /\ files \subseteq files'
    BY <1>2, CropsGrow
  <2>1. ASSUME NEW i \in Ids, NEW s \in Slots, Holds(memory[i], s)' PROVE memory'[i].gallery[s].crop \in 1 .. crops'
    BY <1>2, <2>0, <2>1, ViewMoves DEF ViewsOfCrops
  <2>2. ASSUME NEW i \in Ids, NEW s \in Slots, Holds(backend[i], s)'
        PROVE  backend'[i].gallery[s].crop \in files' /\ ~ backend'[i].gallery[s].path
    BY <1>2, <2>0, <2>2, BackendMoves, LandsFacts DEF ViewsOfCrops
  <2>3. ASSUME NEW i \in Ids, NEW m \in Master, Copy(i, m)', NEW s \in Slots, m.gallery[s] # NoView
        PROVE  m.gallery[s].crop \in 1 .. crops'
    <3>1. Copy(i, m) \/ (m = memory[i] /\ Holds(memory[i], s))
      BY <1>2, <2>3, CopyOrigin DEF Holds
    <3>2. m.gallery[s].crop \in 1 .. crops
      BY <2>3, <3>1 DEF ViewsOfCrops
    <3> QED BY <2>0, <3>2
  <2> QED BY <2>1, <2>2, <2>3 DEF ViewsOfCrops
<1> QED BY <1>1, <1>2

LEMMA BasedStep ==
  ASSUME TypeOK, ViewsOfCrops, Based, [Next]_vars
  PROVE  Based'
<1> SUFFICES ASSUME NEW i \in Ids, NEW s \in Slots, Holds(memory[i], s)'
             PROVE  Holds(memory[i], Base)' /\ (memory'[i].gallery[Base].path => memory'[i].gallery[s].path)
  BY DEF Based
<1>0. memory'[i] # NoMaster /\ memory'[i].gallery[s] # NoView /\ Base \in Slots
  BY PersistenceAssumption DEF Holds
<1>1. CASE Starts
  <2>1. memory'[i] = backend[i] /\ Holds(backend[i], Base)
    BY <1>0, <1>1, StartsFacts
  <2> QED BY <1>0, <2>1 DEF Holds, ViewsOfCrops
<1>2. CASE UNCHANGED memory
  BY <1>2 DEF Based, Holds
<1>3. CASE Creates
  <2>1. CASE i = next
    BY <1>0, <1>3, <2>1, CreatesFacts DEF Holds
  <2>2. CASE i # next
    <3>1. memory'[i] = memory[i]
      BY <1>3, <2>2, CreatesFacts
    <3> QED BY <3>1 DEF Based, Holds
  <2> QED BY <2>1, <2>2
<1>4. ASSUME NEW j \in Ids, NEW r \in Slots, Fills(j, r)
      PROVE  Holds(memory[i], Base)' /\ (memory'[i].gallery[Base].path => memory'[i].gallery[s].path)
  <2>1. /\ r # Base /\ Holds(memory[j], Base) /\ memory[j] # NoMaster
        /\ memory'[j].gallery[r] = [crop |-> crops + 1, digest |-> FALSE, path |-> TRUE]
        /\ \A q \in Slots \ {r} : memory'[j].gallery[q] = memory[j].gallery[q]
        /\ \A k \in Ids \ {j} : memory'[k] = memory[k]
    BY <1>4, FillsFacts
  <2> QED BY <1>0, <2>1 DEF Based, Holds
<1>5. ASSUME NEW j \in Ids, NEW views \in SUBSET Slots, NEW best \in Slots, Withdraws(j, views, best)
      PROVE  Holds(memory[i], Base)' /\ (memory'[i].gallery[Base].path => memory'[i].gallery[s].path)
  <2>1. /\ memory[j] # NoMaster /\ \A q \in views : Holds(memory[j], q) /\ memory[j].gallery[q].path
        /\ \A q \in Slots \ {Base} : memory'[j].gallery[q] = IF q \in views THEN NoView ELSE memory[j].gallery[q]
        /\ memory'[j].gallery[Base] = memory[j].gallery[Base] \/ Base \in views
        /\ memory'[j].gallery[Base] = NoView => \A q \in Slots : memory'[j].gallery[q] = NoView
        /\ \A k \in Ids \ {j} : memory'[k] = memory[k]
    BY <1>5, WithdrawsFacts
  <2>2. CASE i # j
    BY <2>1, <2>2 DEF Based, Holds
  <2>3. CASE i = j /\ s = Base
    BY <1>0, <2>3 DEF Holds
  <2>4. CASE i = j /\ s # Base
    <3>1. memory'[i].gallery[s] = memory[i].gallery[s] /\ Holds(memory[i], s)
      BY <1>0, <2>1, <2>4 DEF Holds
    <3>2. Holds(memory[i], Base)'
      BY <1>0, <2>1, <2>4 DEF Holds
    <3> QED BY <2>1, <2>4, <3>1, <3>2 DEF Based, Holds
  <2> QED BY <2>2, <2>3, <2>4
<1>6. CASE Completes
  <2>1. memory[i] # NoMaster /\ memory[i] \in Master
    BY <1>0, <1>6, CompletesFacts DEF TypeOK
  <2>2. ASSUME NEW q \in Slots
        PROVE  memory'[i].gallery[q].path = memory[i].gallery[q].path /\ (Holds(memory[i], q)' <=> Holds(memory[i], q))
    <3>1. memory[i].gallery[q] \in View
      BY <2>1, MasterFacts
    <3>2. \/ memory'[i].gallery[q] = memory[i].gallery[q]
          \/ /\ memory'[i].gallery[q] = [memory[i].gallery[q] EXCEPT !.digest = TRUE]
             /\ memory[i].gallery[q].crop # 0
      BY <1>6, <2>1, CompletesFacts
    <3>3. /\ memory'[i].gallery[q].path = memory[i].gallery[q].path
          /\ memory'[i].gallery[q].crop = memory[i].gallery[q].crop
          /\ memory'[i].gallery[q] = memory[i].gallery[q] \/ memory[i].gallery[q].crop # 0
      BY <3>1, <3>2 DEF View
    <3> QED BY <1>0, <2>1, <3>3, NoViewFacts DEF Holds
  <2> QED BY <1>0, <2>2 DEF Based
<1>7. CASE EvidenceFails
  <2>0. Head(tasks).crop # 0
    BY <1>7, EvidenceFailsFacts
  <2>1. CASE i # Head(tasks).id
    <3>1. memory'[i] = memory[i]
      BY <1>7, <2>1, EvidenceFailsFacts
    <3> QED BY <3>1 DEF Based, Holds
  <2>2. CASE i = Head(tasks).id
    <3>1. /\ memory[i] # NoMaster /\ memory'[i].gallery[Base] = memory[i].gallery[Base]
          /\ memory'[i].gallery[s] = memory[i].gallery[s]
      BY <1>0, <1>7, <2>2, EvidenceFailsFacts
    <3> QED BY <1>0, <3>1 DEF Based, Holds
  <2> QED BY <2>1, <2>2
<1> QED BY <1>1, <1>2, <1>3, <1>4, <1>5, <1>6, <1>7, Frames DEF Crops, Repairs

\* A view of this session stays one, written or in hand; a loaded one stays as it is.
LEMMA LoadedView ==
  ASSUME TypeOK, Based, LoadedStays, [Next]_vars, ~ Starts, NEW i \in Ids, NEW s \in Slots,
         Holds(memory[i], s)', ~ memory'[i].gallery[s].path
  PROVE  Holds(memory[i], s) /\ memory'[i].gallery[s] = memory[i].gallery[s]
BY ViewMoves, CompletesFacts DEF Based, LoadedStays

\* What is queued was queued or is new.
LEMMA QueuedStays ==
  ASSUME TypeOK, CropsOnce, [Next]_vars, ~ Starts, NEW c \in 1 .. crops, Queued(c)'
  PROVE  Queued(c)
<1>0. crops \in Nat /\ c # 0 /\ c # crops + 1
  BY DEF TypeOK
<1>1. ASSUME NEW x \in Task \cup {Stop}, tasks' = Append(tasks, x), x.crop # c PROVE Queued(c)
  BY <1>1, TasksAppended
<1>2. CASE Creates
  <2>1. tasks' = Append(tasks, [id |-> next, crop |-> crops + 1]) /\ [id |-> next, crop |-> crops + 1] \in Task
    BY <1>2, CreatesFacts
  <2> QED BY <1>0, <1>1, <2>1
<1>3. ASSUME NEW i \in Ids, NEW s \in Slots, Fills(i, s) PROVE Queued(c)
  <2>1. tasks' = Append(tasks, [id |-> i, crop |-> crops + 1]) /\ [id |-> i, crop |-> crops + 1] \in Task
    BY <1>3, FillsFacts
  <2> QED BY <1>0, <1>1, <2>1
<1>4. CASE Drained
  <2>1. tasks' = Append(tasks, Stop) /\ Stop.crop # c
    BY <1>0, <1>4 DEF Drained, Stop, NoCrop
  <2> QED BY <1>1, <2>1
<1>5. CASE Writes \/ EvidenceFails \/ WriterEnds
  <2>1. tasks # << >> /\ tasks' = Tail(tasks)
    BY <1>5 DEF Writes, EvidenceFails, WriterEnds, WriterFree
  <2> QED BY <2>1, TaskTaken
<1>6. CASE UNCHANGED tasks
  BY <1>6 DEF Queued
<1> QED BY <1>2, <1>3, <1>4, <1>5, <1>6, Frames DEF Crops

LEMMA LoadedStaysStep ==
  ASSUME TypeOK, CropsOnce, ViewsOfCrops, Based, LoadedStays, CopiesOf, [Next]_vars
  PROVE  LoadedStays'
<1>1. CASE Starts
  BY <1>1, StartsFacts DEF LoadedStays, Holds, Written
<1>2. CASE ~ Starts
  <2> SUFFICES ASSUME NEW i \in Ids, NEW s \in Slots, Holds(memory[i], s)', ~ memory'[i].gallery[s].path
               PROVE  /\ \A c : c = memory'[i].gallery[s].crop => ~ Queued(c)'
                      /\ Written' => writer'.task.crop # memory'[i].gallery[s].crop
                      /\ ~ cut' => backend'[i] # NoMaster /\ backend'[i].gallery[s] = memory'[i].gallery[s]
    BY DEF LoadedStays
  <2>1. Holds(memory[i], s) /\ memory'[i].gallery[s] = memory[i].gallery[s] /\ ~ memory[i].gallery[s].path
    BY <1>2, LoadedView
  <2>2. memory[i].gallery[s].crop \in 1 .. crops /\ ~ Queued(memory[i].gallery[s].crop)
    BY <2>1 DEF ViewsOfCrops, LoadedStays
  <2>3. \A c : c = memory'[i].gallery[s].crop => ~ Queued(c)'
    BY <1>2, <2>1, <2>2, QueuedStays
  <2>4. Written' => writer'.task.crop # memory'[i].gallery[s].crop
    <3>1. CASE Writes
      <4>1. tasks # << >> /\ tasks' = Tail(tasks) /\ writer'.task = Head(tasks)
        BY <3>1 DEF Writes, WriterFree
      <4> QED BY <2>1, <2>2, <4>1, TaskTaken
    <3>2. CASE ~ Writes
      <4>1. Written' => Written /\ writer' = writer
        BY <1>2, <3>2, Frames DEF Completes, WriterEnds, Written
      <4> QED BY <2>1, <4>1 DEF LoadedStays
    <3> QED BY <3>1, <3>2
  <2>5. ASSUME ~ cut' PROVE backend'[i] # NoMaster /\ backend'[i].gallery[s] = memory'[i].gallery[s]
    <3>1. ~ cut /\ backend[i] # NoMaster /\ backend[i].gallery[s] = memory[i].gallery[s] /\ memory[i] # NoMaster
      BY <1>2, <2>1, <2>5, Frames DEF LoadedStays, Holds
    <3>2. ~ Lands(i, s)
      <4> SUFFICES ASSUME Lands(i, s) PROVE FALSE
        OBVIOUS
      <4>1. Copy(i, sender.copy) /\ sender.copy \in Master /\ sender.copy.gallery[s].path
        BY LandsFacts
      <4>2. sender.copy.gallery[s] = memory[i].gallery[s]
        BY <2>1, <3>1, <4>1 DEF CopiesOf
      <4> QED BY <2>1, <4>1, <4>2
    <3> QED BY <1>2, <2>1, <2>5, <3>1, <3>2, BackendMoves
  <2> QED BY <2>3, <2>4, <2>5
<1> QED BY <1>1, <1>2

LEMMA TakenInHandStep ==
  ASSUME TypeOK, CropsOnce, ViewsOfCrops, Based, TakenInHand, [Next]_vars
  PROVE  TakenInHand'
<1>1. CASE Starts
  BY <1>1, StartsFacts DEF TakenInHand, Holds, ViewsOfCrops
<1>2. CASE ~ Starts
  <2> SUFFICES ASSUME NEW i \in Ids, NEW s \in Slots, Holds(memory[i], s)', memory'[i].gallery[s].path,
                      NEW c, c = memory'[i].gallery[s].crop
               PROVE  \/ memory'[i].gallery[s].digest /\ c \in files'
                      \/ Owned(i, c)' \/ (Written' /\ writer'.task = [id |-> i, crop |-> c])
    BY DEF TakenInHand
  <2>0. crops \in Nat /\ files \subseteq files'
    BY <1>2, CropsGrow
  \* A task in hand goes on to be written, completed or given up.
  <2>1. ASSUME c \in 1 .. crops, Owned(i, c) \/ (Written /\ writer.task = [id |-> i, crop |-> c])
        PROVE  \/ Owned(i, c)' \/ (Written' /\ writer'.task = [id |-> i, crop |-> c])
               \/ Completes /\ writer.task = [id |-> i, crop |-> c]
               \/ EvidenceFails /\ Head(tasks) = [id |-> i, crop |-> c]
    <3>0. c # NoCrop
      BY <2>0, <2>1 DEF NoCrop
    <3>1. CASE Owned(i, c)
      <4>1. CASE Writes \/ EvidenceFails \/ WriterEnds
        <5>1. tasks # << >> /\ tasks' = Tail(tasks)
          BY <4>1 DEF Writes, EvidenceFails, WriterEnds, WriterFree
        <5>2. Owned(i, c)' \/ Head(tasks) = [id |-> i, crop |-> c]
          BY <3>0, <3>1, <5>1, TaskTaken
        <5>3. WriterEnds => Head(tasks) # [id |-> i, crop |-> c]
          BY <3>0 DEF WriterEnds, Stop
        <5>4. Writes => writer' # Free /\ writer'.at = "written" /\ writer'.task = Head(tasks)
          BY DEF Writes, Free
        <5> QED BY <4>1, <5>2, <5>3, <5>4 DEF Written
      <4>2. ASSUME NEW x \in Task \cup {Stop}, tasks' = Append(tasks, x) PROVE Owned(i, c)'
        BY <3>1, <4>2, TasksAppended
      <4>3. CASE Crops \/ Drained
        BY <4>2, <4>3, CreatesFacts, FillsFacts DEF Crops, Drained
      <4>4. CASE UNCHANGED tasks
        BY <3>1, <4>4 DEF Owned
      <4> QED BY <1>2, <4>1, <4>3, <4>4, Frames
    <3>2. CASE Written /\ writer.task = [id |-> i, crop |-> c]
      <4>1. ~ Writes /\ ~ WriterEnds
        BY <3>2 DEF Writes, WriterEnds, WriterFree, Written
      <4> QED BY <1>2, <3>2, <4>1, Frames DEF Written
    <3> QED BY <2>1, <3>1, <3>2
  <2>2. ASSUME NEW r \in Slots, Holds(memory[i], r), memory[i].gallery[r].path, memory'[i].gallery[s] = memory[i].gallery[r]
        PROVE  /\ c \in 1 .. crops
               /\ \/ memory'[i].gallery[s].digest /\ c \in files
                  \/ Owned(i, c) \/ (Written /\ writer.task = [id |-> i, crop |-> c])
    BY <2>2 DEF TakenInHand, ViewsOfCrops
  <2>3. CASE Holds(memory[i], s) /\ memory'[i].gallery[s] = memory[i].gallery[s]
    <3>1. ~ (EvidenceFails /\ Head(tasks) = [id |-> i, crop |-> c])
      <4> SUFFICES ASSUME EvidenceFails, Head(tasks) = [id |-> i, crop |-> c] PROVE FALSE
        OBVIOUS
      <4>1. Head(tasks).id = i /\ Head(tasks).crop = c /\ memory'[i] # NoMaster /\ memory'[i].gallery[s] # NoView
        BY DEF Holds
      <4>2. memory'[i].gallery[s] = NoView
        BY <2>3, <4>1, EvidenceFailsFacts
      <4> QED BY <4>1, <4>2
    <3>2. ASSUME Completes, writer.task = [id |-> i, crop |-> c]
          PROVE  memory'[i].gallery[s].digest /\ c \in files
      <4>1. Written /\ memory[i] # NoMaster /\ writer.task.id = i /\ writer.task.crop = c
            /\ memory'[i].gallery[s] = [memory[i].gallery[s] EXCEPT !.digest = TRUE]
        BY <2>3, <3>2, CompletesFacts DEF Holds
      <4>2. memory[i].gallery[s] \in View
        BY <4>1, MasterFacts DEF TypeOK
      <4> QED BY <4>1, <4>2 DEF CropsOnce, View
    <3> QED BY <2>0, <2>1, <2>2, <2>3, <3>1, <3>2
  <2>4. CASE s = Base /\ Holds(memory[i], Base) /\ memory[i].gallery[Base].path /\ UNCHANGED <<tasks, writer, files>>
             /\ \E best \in Slots : Holds(memory[i], best) /\ memory'[i].gallery[s] = memory[i].gallery[best]
    BY <2>2, <2>4 DEF Based, Owned, Written
  <2>5. CASE Owned(i, memory[i].gallery[s].crop)'
    BY <2>5
  <2>6. CASE Completes /\ memory[i].gallery[s].crop = writer.task.crop /\ memory'[i].gallery[s].digest
             /\ memory'[i].gallery[s].crop = memory[i].gallery[s].crop
    BY <2>0, <2>6, CompletesFacts DEF CropsOnce
  <2> QED BY <1>2, <2>3, <2>4, <2>5, <2>6, ViewMoves
<1> QED BY <1>1, <1>2

LEMMA StoredFacts ==
  ASSUME NEW v \in View
  PROVE  /\ v.digest => Stored(v) = [crop |-> v.crop, digest |-> TRUE, path |-> FALSE]
         /\ ~ v.path => Stored(v) = v
<1>1. \A u, w \in View : u.crop = w.crop /\ u.digest = w.digest /\ u.path = w.path => u = w
  BY DEF View
<1>2. Stored(v) \in View /\ Stored(v).crop = v.crop /\ Stored(v).digest = v.digest /\ Stored(v).path = FALSE
  BY DEF View, Stored
<1>3. v.digest \in BOOLEAN /\ v.path \in BOOLEAN /\ v.crop \in Nat
  BY DEF View
<1>4. v.digest => Stored(v) = [crop |-> v.crop, digest |-> TRUE, path |-> FALSE]
  <2>1. [crop |-> v.crop, digest |-> TRUE, path |-> FALSE] \in View
    BY <1>3 DEF View
  <2> QED BY <1>1, <1>2, <1>3, <2>1
<1>5. ~ v.path => Stored(v) = v
  BY <1>1, <1>2, <1>3
<1> QED BY <1>4, <1>5

LEMMA UploadsKeptStep ==
  ASSUME TypeOK, ViewsOfCrops, UploadsKept, [Next]_vars
  PROVE  UploadsKept'
<1> SUFFICES ASSUME ~ cut', NEW i \in Ids, NEW s \in Slots, uploaded'[i][s] # NoCrop
             PROVE  /\ backend'[i] # NoMaster
                    /\ backend'[i].gallery[s] = [crop |-> uploaded'[i][s], digest |-> TRUE, path |-> FALSE]
  BY DEF UploadsKept
<1>0. NoMaster \notin Master /\ backend \in [Ids -> Master \cup {NoMaster}]
  BY MasterFacts DEF TypeOK
<1>1. CASE Loads
  <2>1. /\ backend' = backend /\ i \in Known /\ backend[i].gallery[s].digest
        /\ uploaded'[i][s] = backend[i].gallery[s].crop
    BY <1>1 DEF Loads
  <2>2. backend[i] # NoMaster /\ backend[i].gallery[s] \in View
    BY <1>0, <2>1, MasterFacts DEF Known
  <2>3. ~ backend[i].gallery[s].path
    BY <2>1, <2>2 DEF ViewsOfCrops, Holds, NoView
  <2> QED BY <2>1, <2>2, <2>3 DEF View
<1>2. CASE LoadFails
  BY <1>2 DEF LoadFails
<1>3. CASE ~ Starts
  <2>1. ~ cut
    BY <1>3, Frames
  <2>2. CASE /\ uploaded'[i][s] = uploaded[i][s]
             /\ uploaded[i][s] # NoCrop /\ backend[i] # NoMaster => backend'[i].gallery[s] = backend[i].gallery[s]
    BY <1>3, <2>1, <2>2, BackendMoves DEF UploadsKept
  <2>3. CASE /\ Lands(i, s) /\ backend'[i] # NoMaster
             /\ uploaded'[i][s] = Digest(sender.copy.gallery[s])
             /\ backend'[i].gallery[s] = Stored(sender.copy.gallery[s])
    <3> DEFINE v == sender.copy.gallery[s]
    <3>1. v \in View
      BY <2>3, LandsFacts
    <3> HIDE DEF v
    <3>2. Digest(v) # NoCrop => Stored(v) = [crop |-> Digest(v), digest |-> TRUE, path |-> FALSE]
      BY <3>1, StoredFacts DEF Digest
    <3> QED BY <2>3, <3>2 DEF v
  <2> QED BY <1>3, <2>2, <2>3, BackendMoves
<1> QED BY <1>1, <1>2, <1>3 DEF Starts

LEMMA InOrderStep ==
  ASSUME TypeOK, Based, InOrder, [Next]_vars
  PROVE  InOrder'
<1>1. CASE Starts
  <2>1. \A i \in Ids, m \in Master : ~ Copy(i, m)'
    BY <1>1, NoCopyAtStart
  <2>2. \A i \in Ids : memory'[i] # NoMaster => i < next'
    BY <1>1, StartsFacts
  <2> QED BY <2>1, <2>2 DEF InOrder
<1>2. CASE ~ Starts
  <2>0. next \in Nat /\ (next' = next \/ (next' = next + 1)) /\ Ids \subseteq Nat
    <3>1. next \in Nat /\ Ids \subseteq Nat
      BY DEF TypeOK, Ids
    <3>2. CASE Creates
      BY <3>1, <3>2, CreatesFacts
    <3>3. ASSUME NEW i \in Ids, NEW s \in Slots, Fills(i, s) PROVE next' = next
      BY <3>3 DEF Fills
    <3> QED BY <1>2, <3>1, <3>2, <3>3, Frames DEF Crops
  <2>1. ASSUME NEW i \in Ids, memory'[i] # NoMaster PROVE i < next'
    <3>1. memory[i] # NoMaster \/ (i = next /\ next' = next + 1)
      BY <1>2, <2>1, NewMaster, CreatesFacts
    <3>2. i \in Nat
      BY <2>0
    <3> QED BY <2>0, <3>1, <3>2 DEF InOrder
  <2>2. ASSUME NEW i \in Ids, NEW m \in Master, Copy(i, m)' PROVE i < next'
    <3>1. i < next
      BY <1>2, <2>2, CopyOrigin DEF InOrder, Holds
    <3>2. i \in Nat
      BY <2>0
    <3> QED BY <2>0, <3>1, <3>2
  <2> QED BY <2>1, <2>2 DEF InOrder
<1> QED BY <1>1, <1>2

\* What is said of the memory's view of a crop stays true of it, or the crop is
\* taken back or was never written.
LEMMA CropStays ==
  ASSUME TypeOK, CropsOnce, ViewsOfCrops, Based, InOrder, [Next]_vars, ~ Starts, NEW i \in Ids, NEW s \in Slots,
         memory[i] # NoMaster, memory'[i] # NoMaster, NEW c \in 1 .. crops,
         c \in withdrawn \/ c = memory[i].gallery[s].crop \/ Dead(c)
  PROVE  c \in withdrawn' \/ c = memory'[i].gallery[s].crop \/ Dead(c)'
<1>1. withdrawn \subseteq withdrawn' /\ (Dead(c) => Dead(c)') /\ c # 0
  BY CropsGrow
<1>2. CASE c = memory[i].gallery[s].crop
  <2>1. Holds(memory[i], s)
    BY <1>1, <1>2, NoViewFacts DEF Holds
  <2> QED BY <1>2, <2>1, ViewGoes
<1> QED BY <1>1, <1>2

LEMMA CopiesOfStep ==
  ASSUME TypeOK, CropsOnce, ViewsOfCrops, Based, LoadedStays, InOrder, CopiesOf, [Next]_vars
  PROVE  CopiesOf'
<1>1. CASE Starts
  BY <1>1, NoCopyAtStart DEF CopiesOf
<1>2. CASE ~ Starts
  <2> SUFFICES ASSUME NEW i \in Ids, NEW m \in Master, Copy(i, m)', memory'[i] # NoMaster, NEW s \in Slots
               PROVE  /\ Holds(memory[i], s)' /\ ~ memory'[i].gallery[s].path => m.gallery[s] = memory'[i].gallery[s]
                      /\ ~ blind' /\ m.gallery[s] # NoView =>
                           \/ m.gallery[s].crop \in withdrawn'
                           \/ m.gallery[s].crop = memory'[i].gallery[s].crop
                           \/ \E c : c = m.gallery[s].crop /\ Dead(c)'
    BY DEF CopiesOf
  <2>1. CASE m = memory[i] /\ memory' = memory
    BY <2>1
  <2>2. CASE Copy(i, m)
    <3>1. memory[i] # NoMaster
      <4> SUFFICES ASSUME memory[i] = NoMaster PROVE FALSE
        OBVIOUS
      <4>1. i = next
        BY <1>2, NewMaster
      <4> QED BY <2>2, <4>1 DEF InOrder, TypeOK
    <3>2. Holds(memory[i], s)' /\ ~ memory'[i].gallery[s].path => m.gallery[s] = memory'[i].gallery[s]
      BY <1>2, <2>2, <3>1, LoadedView DEF CopiesOf
    <3>3. ASSUME ~ blind', m.gallery[s] # NoView
          PROVE  \/ m.gallery[s].crop \in withdrawn'
                 \/ m.gallery[s].crop = memory'[i].gallery[s].crop
                 \/ \E c : c = m.gallery[s].crop /\ Dead(c)'
      <4>1. ~ blind /\ m.gallery[s].crop \in 1 .. crops
        BY <1>2, <2>2, <3>3, Frames DEF ViewsOfCrops
      <4>2. m.gallery[s].crop \in withdrawn \/ m.gallery[s].crop = memory[i].gallery[s].crop \/ Dead(m.gallery[s].crop)
        BY <2>2, <3>1, <3>3, <4>1 DEF CopiesOf
      <4>3. \E c \in 1 .. crops : c = m.gallery[s].crop
        BY <4>1
      <4>4. PICK c \in 1 .. crops : c = m.gallery[s].crop
        BY <4>3
      <4>5. c \in withdrawn' \/ c = memory'[i].gallery[s].crop \/ Dead(c)'
        BY <1>2, <3>1, <4>2, <4>4, CropStays
      <4> QED BY <4>4, <4>5
    <3> QED BY <3>2, <3>3
  <2> QED BY <1>2, <2>1, <2>2, CopyOrigin
<1> QED BY <1>1, <1>2

LEMMA RowsOfStep ==
  ASSUME TypeOK, NumbersHold, CropsOnce, ViewsOfCrops, Based, InOrder, CopiesOf, RowsOf, [Next]_vars
  PROVE  RowsOf'
<1> SUFFICES ASSUME ~ blind', NEW i \in Ids, NEW s \in Slots, memory'[i] # NoMaster, Holds(backend[i], s)'
             PROVE  backend'[i].gallery[s].crop \in withdrawn' \/ backend'[i].gallery[s].crop = memory'[i].gallery[s].crop
  BY DEF RowsOf
<1>1. CASE Starts
  BY <1>1, StartsFacts
<1>2. CASE ~ Starts
  <2>0. ~ blind /\ files \subseteq files' /\ files \subseteq 1 .. crops
    BY <1>2, Frames, CropsGrow DEF CropsOnce
  <2>1. CASE memory[i] = NoMaster
    <3>1. Creates /\ i = next
      BY <1>2, <2>1, NewMaster
    <3>2. backend[i] # NoMaster /\ backend[i] \in Master
      BY <3>1, CreatesFacts DEF Holds, TypeOK
    <3>3. Records(i) # {}
      BY <3>2 DEF Records, RecordOf
    <3>4. i < next
      BY <2>0, <3>3 DEF NumbersHold, Numbered
    <3> QED BY <3>1, <3>4 DEF TypeOK
  <2>2. CASE memory[i] # NoMaster
    <3>1. /\ backend'[i].gallery[s].crop \in files
          /\ \/ backend'[i].gallery[s].crop \in withdrawn
             \/ backend'[i].gallery[s].crop = memory[i].gallery[s].crop
      <4>1. CASE Holds(backend[i], s) /\ backend'[i].gallery[s] = backend[i].gallery[s]
        BY <2>0, <2>2, <4>1 DEF RowsOf, ViewsOfCrops
      <4>2. CASE Lands(i, s) /\ backend'[i].gallery[s] = Stored(sender.copy.gallery[s])
        <5>1. /\ Copy(i, sender.copy) /\ sender.copy \in Master /\ sender.copy.gallery[s] # NoView
              /\ sender.copy.gallery[s].crop \in files
              /\ backend'[i].gallery[s].crop = sender.copy.gallery[s].crop
          BY <4>2, LandsFacts
        <5>2. ~ Dead(sender.copy.gallery[s].crop)
          BY <5>1 DEF Dead
        <5> QED BY <2>0, <2>2, <5>1, <5>2 DEF CopiesOf
      <4> QED BY <1>2, <4>1, <4>2, BackendMoves
    <3>2. PICK c \in 1 .. crops : c = backend'[i].gallery[s].crop
      BY <2>0, <3>1
    <3>3. c \in withdrawn' \/ c = memory'[i].gallery[s].crop \/ Dead(c)'
      BY <1>2, <2>2, <3>1, <3>2, CropStays
    <3>4. ~ Dead(c)'
      BY <2>0, <3>1, <3>2 DEF Dead
    <3> QED BY <3>2, <3>3, <3>4
  <2> QED BY <2>1, <2>2
<1> QED BY <1>1, <1>2

LEMMA OnePendingStep ==
  ASSUME TypeOK, OnePending, [Next]_vars
  PROVE  OnePending'
<1>0. pending \in Seq(Snapshot)
  BY DEF TypeOK
<1>1. CASE Starts
  <2>1. DOMAIN pending' = {}
    BY <1>1, StartsFacts
  <2> QED BY <2>1 DEF OnePending
<1>2. CASE UNCHANGED pending
  BY <1>2 DEF OnePending
<1>3. CASE SendsNext
  <2>1. /\ DOMAIN pending' \subseteq Int
        /\ \A k \in DOMAIN pending' : k + 1 \in DOMAIN pending /\ pending'[k] = pending[k + 1]
    <3>1. pending # << >> /\ pending' = Tail(pending)
      BY <1>3 DEF SendsNext
    <3>2. pending' \in Seq(Snapshot)
      BY <1>0, <3>1, HeadTailProperties
    <3> QED BY <1>0, <3>1, <3>2, TailAt, LenProperties
  <2> SUFFICES ASSUME NEW j \in DOMAIN pending', NEW k \in DOMAIN pending', pending'[j].id = pending'[k].id PROVE j = k
    BY DEF OnePending
  <2>2. j + 1 = k + 1
    BY <2>1 DEF OnePending
  <2> QED BY <2>1, <2>2
<1>4. ASSUME NEW i \in Ids, NEW copy \in Master, pending' = Put(i, copy) PROVE OnePending'
  <2> DEFINE new == [id |-> i, copy |-> copy]
  <2>1. CASE \E k \in DOMAIN pending : pending[k].id = i
    <3> DEFINE put == [k \in DOMAIN pending |-> IF pending[k].id = i THEN new ELSE pending[k]]
    <3>1. pending' = put
      BY <1>4, <2>1 DEF Put
    <3>2. DOMAIN put = DOMAIN pending /\ \A k \in DOMAIN put : put[k].id = pending[k].id
      OBVIOUS
    <3> HIDE DEF put
    <3> QED BY <3>1, <3>2 DEF OnePending
  <2>2. CASE ~ \E k \in DOMAIN pending : pending[k].id = i
    <3>1. pending' = Append(pending, new) /\ new \in Snapshot /\ new.id = i
      BY <1>4, <2>2 DEF Put, Snapshot
    <3> HIDE DEF new
    <3> QED BY <1>0, <2>2, <3>1, AppendAt DEF OnePending
  <2> QED BY <2>1, <2>2
<1>5. ASSUME NEW t \in Threads, Queues(t) PROVE OnePending'
  <2>1. saving[t].id \in Ids /\ saving[t].copy \in Master
    BY <1>5 DEF Queues, Save, TypeOK
  <2> QED BY <1>2, <1>4, <1>5, <2>1 DEF Queues
<1> QED BY <1>1, <1>2, <1>3, <1>5, Frames

\* What the steps of close() do to a run that is not cut.
LEMMA CloseFacts ==
  ASSUME [Next]_vars, ~ Starts, ~ cut', stage' # stage, stage' # "off"
  PROVE  /\ UNCHANGED <<session, memory, next, crops, files, writer, saving, pending, sender, uploaded, backend>>
         /\ \/ stage = "running" /\ stage' = "drain" /\ UNCHANGED <<tasks, left>>
            \/ /\ stage = "drain" /\ stage' = "evidence" /\ IntakeIdle /\ EvidenceIdle
               /\ tasks' = Append(tasks, Stop)
            \/ /\ stage = "evidence" /\ stage' = "save" /\ writer # Free /\ writer.at = "ended"
               /\ left' = {i \in Ids : memory[i] # NoMaster} /\ UNCHANGED tasks
            \/ /\ stage = "save" /\ stage' = "flush" /\ left = {} /\ saving["close"] = Free
               /\ UNCHANGED <<tasks, left>>
            \/ stage = "flush" /\ stage' = "stopping" /\ PersistenceIdle /\ UNCHANGED <<tasks, left>>
            \/ stage = "stopping" /\ stage' = "closed" /\ UNCHANGED <<tasks, left>>
<1>1. CloseSteps
  BY Frames DEF Crash
<1>2. UNCHANGED <<session, memory, next, crops, files, writer, saving, pending, sender, uploaded, backend>>
  BY <1>1 DEF CloseSteps
<1>3. CASE Closes
  BY <1>2, <1>3 DEF Closes
<1>4. CASE Drained
  BY <1>2, <1>4 DEF Drained, Waits
<1>5. CASE EvidenceJoined
  BY <1>2, <1>5 DEF EvidenceJoined, Waits
<1>6. CASE SavedAll
  BY <1>2, <1>6 DEF SavedAll, AllSaved
<1>7. CASE Flushed \/ Joined
  BY <1>2, <1>7 DEF Flushed, Joined, Waits
<1> QED BY <1>1, <1>3, <1>4, <1>5, <1>6, <1>7 DEF CloseSteps

Late == {"evidence", "save", "flush", "stopping", "closed"}

\* Once close() has waited, nothing moves the memory.
LEMMA LateFacts ==
  ASSUME TypeOK, Quiet, [Next]_vars, ~ Starts, ~ cut, stage \in Late
  PROVE  /\ ~ Crops /\ ~ Repairs /\ ~ Completes /\ ~ EvidenceFails /\ ~ Writes
         /\ UNCHANGED memory
         /\ \A t \in Threads : saving[t] # Free => t = "close" /\ stage = "save"
<1>1. /\ saving["intake"] = Free /\ saving["evidence"] = Free /\ ~ Written
      /\ \A c \in Nat : c # NoCrop => ~ Queued(c)
  BY DEF Quiet, Late, Stages
<1>2. ~ Intakes
  BY DEF Intakes, Late
<1>3. ~ Crops
  BY <1>2, CreatesFacts, FillsFacts DEF Crops
<1>4. ~ Repairs
  BY <1>2 DEF Repairs, Withdraws, IntakeFree
<1>5. ~ Completes
  BY <1>1, CompletesFacts
<1>6. ASSUME tasks # << >>, Head(tasks) # Stop PROVE FALSE
  <2>1. Head(tasks) \in Task
    BY <1>6, TaskFacts
  <2>2. 1 \in DOMAIN tasks /\ tasks[1] = Head(tasks)
    BY <1>6, TailAt DEF TypeOK
  <2> QED BY <1>1, <2>1, <2>2 DEF Task, NoCrop, Queued
<1>7. ~ EvidenceFails /\ ~ Writes
  BY <1>6 DEF EvidenceFails, Writes, WriterFree
<1>8. \A t \in Threads : saving[t] # Free => t = "close" /\ stage = "save"
  BY <1>1 DEF Quiet, Threads, Late
<1> QED BY <1>3, <1>4, <1>5, <1>7, <1>8, Frames

\* The saves of the threads move one at a time.
LEMMA SavingMoves ==
  ASSUME TypeOK, [Next]_vars, ~ Starts, NEW t \in Threads, saving'[t] # saving[t]
  PROVE  \/ Crops /\ t = "intake"
         \/ Completes /\ t = "evidence"
         \/ Copies(t)
         \/ Queues(t)
         \/ \E i \in Ids : SavesAgain(i) /\ t = "close"
<1>0. saving \in [Threads -> Save \cup {Free}]
  BY DEF TypeOK
<1>1. ASSUME NEW u \in Threads, NEW x, saving' = [saving EXCEPT ![u] = x] PROVE t = u
  BY <1>0, <1>1
<1>2. CASE Crops
  BY <1>1, <1>2, CreatesFacts, FillsFacts DEF Crops, Threads
<1>3. CASE Completes
  BY <1>1, <1>3, CompletesFacts DEF Threads
<1>4. ASSUME NEW u \in Threads, Copies(u) PROVE t = u
  BY <1>1, <1>4 DEF Copies
<1>5. ASSUME NEW u \in Threads, Queues(u) PROVE t = u
  BY <1>1, <1>5 DEF Queues
<1>6. ASSUME NEW i \in Ids, SavesAgain(i) PROVE t = "close"
  BY <1>1, <1>6 DEF SavesAgain, Saves, Threads
<1> QED BY <1>2, <1>3, <1>4, <1>5, <1>6, Frames

LEMMA QuietStep ==
  ASSUME TypeOK, Quiet, [Next]_vars
  PROVE  Quiet'
<1>0. "intake" \in Threads /\ "evidence" \in Threads /\ "close" \in Threads
  BY DEF Threads
<1>1. CASE Starts
  BY <1>0, <1>1, StartsFacts DEF Quiet
<1>2. CASE ~ Starts /\ ~ cut'
  <2>0. ~ cut
    BY <1>2, Frames
  <2>1. CASE stage' = stage
    <3>1. ASSUME stage \in {"running", "drain", "evidence"}, saving["close"] = Free PROVE saving'["close"] = Free
      BY <1>0, <1>2, <3>1, SavingMoves DEF Copies, Queues, SavesAgain
    <3>2. ASSUME stage \in Late
          PROVE  /\ saving'["intake"] = Free /\ saving'["evidence"] = Free /\ ~ Written'
                 /\ \A c \in Nat : c # NoCrop => ~ Queued(c)'
      <4>1. saving'["intake"] = Free /\ saving'["evidence"] = Free
        BY <1>0, <1>2, <2>0, <3>2, LateFacts, SavingMoves DEF Copies, Queues, Quiet, Late, Stages
      <4>2. ~ Written'
        BY <1>2, <2>0, <3>2, LateFacts, Frames DEF Quiet, Late, Stages, Written, WriterEnds
      <4>3. \A c \in Nat : c # NoCrop => ~ Queued(c)'
        <5>1. CASE WriterEnds
          <6>1. \A k \in DOMAIN tasks' : \E j \in DOMAIN tasks : tasks'[k] = tasks[j]
            BY <5>1, TailAt DEF WriterEnds, WriterFree, TypeOK
          <6> QED BY <2>0, <3>2, <6>1 DEF Queued, Quiet, Late, Stages
        <5>2. CASE UNCHANGED tasks
          BY <2>0, <3>2, <5>2 DEF Queued, Quiet, Late, Stages
        <5> QED BY <1>2, <2>0, <2>1, <3>2, <5>1, <5>2, LateFacts, Frames DEF Drained
      <4> QED BY <4>1, <4>2, <4>3
    <3>3. ASSUME stage \in {"save", "flush", "stopping", "closed"} PROVE writer' # Free /\ writer'.at = "ended"
      BY <1>2, <2>0, <3>3, LateFacts, Frames DEF Quiet, Late, WriterEnds, WriterFree
    <3>4. ASSUME stage \in {"flush", "stopping", "closed"} PROVE left' = {} /\ saving'["close"] = Free
      <4>1. left = {} /\ saving["close"] = Free
        BY <2>0, <3>4 DEF Quiet
      <4>2. left' = left
        BY <1>2, <3>4, <4>1, Frames DEF EvidenceJoined, SavesAgain
      <4> QED BY <1>0, <1>2, <2>0, <3>4, <4>1, <4>2, LateFacts, SavingMoves DEF Copies, Queues, SavesAgain, Late
    <3>5. ASSUME stage \in {"stopping", "closed"} PROVE PersistenceIdle'
      <4>1. pending = << >> /\ sender = Free
        BY <2>0, <3>5 DEF Quiet, PersistenceIdle
      <4>2. \A t \in Threads : ~ Queues(t)
        BY <1>2, <2>0, <3>5, LateFacts DEF Queues, Late
      <4> QED BY <1>2, <4>1, <4>2, Frames DEF PersistenceIdle, SendsNext, SendsMaster, SendsView, SendsDone, RequestFails
    <3>6. ASSUME stage = "save", saving'["close"] # Free, saving'["close"].at = "queue"
          PROVE  saving'["close"].copy = memory'[saving'["close"].id]
      <4>1. stage \in Late /\ UNCHANGED memory /\ saving \in [Threads -> Save \cup {Free}]
        BY <1>2, <2>0, <3>6, LateFacts DEF Late, TypeOK
      <4>2. CASE saving'["close"] = saving["close"]
        BY <2>0, <3>6, <4>1, <4>2 DEF Quiet
      <4>3. ASSUME NEW i \in Ids, SavesAgain(i) PROVE FALSE
        BY <1>0, <3>6, <4>1, <4>3 DEF SavesAgain, Saves
      <4>4. CASE Queues("close")
        BY <1>0, <3>6, <4>1, <4>4 DEF Queues
      <4>5. CASE Copies("close")
        <5> DEFINE copied == [at |-> "queue", id |-> saving["close"].id, copy |-> memory[saving["close"].id]]
        <5>1. saving'["close"] = copied
          BY <1>0, <3>6, <4>1, <4>5 DEF Copies
        <5> QED BY <4>1, <5>1
      <4> QED BY <1>0, <1>2, <2>0, <4>1, <4>2, <4>3, <4>4, <4>5, LateFacts, SavingMoves
    <3> QED BY <2>0, <2>1, <3>1, <3>2, <3>3, <3>4, <3>5, <3>6 DEF Quiet, Late, Stages
  <2>2. CASE stage' # stage /\ stage' # "off"
    <3>1. ASSUME stage = "drain", tasks' = Append(tasks, Stop), tasks = << >> PROVE \A c \in Nat : c # NoCrop => ~ Queued(c)'
      <4>1. \A c : Queued(c)' <=> Queued(c) \/ c = Stop.crop
        BY <3>1, TasksAppended
      <4>2. \A c : ~ Queued(c)
        BY <3>1 DEF Queued
      <4> QED BY <4>1, <4>2 DEF Stop, NoCrop
    <3>2. ASSUME UNCHANGED tasks PROVE \A c : Queued(c)' <=> Queued(c)
      BY <3>2 DEF Queued
    <3>3. /\ UNCHANGED <<writer, saving, pending, sender>>
          /\ \/ stage = "running" /\ stage' = "drain"
             \/ /\ stage = "drain" /\ stage' = "evidence" /\ IntakeIdle /\ EvidenceIdle
                /\ \A c \in Nat : c # NoCrop => ~ Queued(c)'
             \/ /\ stage = "evidence" /\ stage' = "save" /\ writer # Free /\ writer.at = "ended"
                /\ \A c : Queued(c)' <=> Queued(c)
             \/ /\ stage = "save" /\ stage' = "flush" /\ left' = {} /\ saving["close"] = Free
                /\ \A c : Queued(c)' <=> Queued(c)
             \/ stage = "flush" /\ stage' = "stopping" /\ PersistenceIdle /\ left' = left
                /\ \A c : Queued(c)' <=> Queued(c)
             \/ stage = "stopping" /\ stage' = "closed" /\ left' = left
                /\ \A c : Queued(c)' <=> Queued(c)
      BY <1>2, <2>2, <3>1, <3>2, CloseFacts DEF EvidenceIdle
    <3> QED BY <2>0, <3>3 DEF Quiet, Stages, IntakeIdle, EvidenceIdle, PersistenceIdle, Written
  <2> QED BY <2>1, <2>2 DEF Quiet, Stages
<1> QED BY <1>1, <1>2 DEF Quiet

\* What the backend holds of a master stays, as long as no other view of it lands.
LEMMA SettledStays ==
  ASSUME TypeOK, [Next]_vars, ~ Starts, ~ cut', UNCHANGED memory, NEW i \in Ids, NEW s \in Slots,
         Settled(i, s), ~ Lands(i, s)
  PROVE  Settled(i, s)'
BY BackendMoves DEF Settled, Holds

\* A view of the last copy that is not sent is there already.
LEMMA NotDueSettled ==
  ASSUME TypeOK, ViewsOfCrops, Based, TakenInHand, LoadedStays, UploadsKept, Quiet, ~ cut, stage \in Late,
         NEW i \in Ids, NEW s \in Slots, ~ Due(i, s, memory[i].gallery[s])
  PROVE  Settled(i, s)
<1> DEFINE v == memory[i].gallery[s]
<1> SUFFICES ASSUME Holds(memory[i], s)
             PROVE  backend[i] # NoMaster /\ backend[i].gallery[s] = Stored(v)
  BY DEF Settled
<1>1. /\ v \in View /\ v # NoView /\ v.crop \in Nat \ {0}
      /\ ~ Written /\ \A c \in Nat : c # NoCrop => ~ Queued(c)
  <2>1. v \in View /\ v # NoView /\ v.crop \in 1 .. crops
    BY MasterFacts DEF TypeOK, Holds, ViewsOfCrops
  <2> QED BY <2>1 DEF Quiet, Late, Stages, View
<1>2. CASE v.path
  <2>1. v.digest /\ v.crop \in files
    <3>1. ~ Queued(v.crop)
      BY <1>1 DEF NoCrop
    <3>2. ~ Owned(i, v.crop)
      BY <3>1 DEF Owned, Queued
    <3> QED BY <1>1, <1>2, <3>2 DEF TakenInHand
  <2>2. uploaded[i][s] = v.crop /\ v.crop # NoCrop
    BY <1>1, <1>2, <2>1 DEF Due, Digest, NoCrop
  <2>3. backend[i] # NoMaster /\ backend[i].gallery[s] = [crop |-> v.crop, digest |-> TRUE, path |-> FALSE]
    BY <2>2 DEF UploadsKept
  <2>4. Stored(v) = [crop |-> v.crop, digest |-> TRUE, path |-> FALSE]
    BY <1>1, <2>1, StoredFacts
  <2> QED BY <2>3, <2>4
<1>3. CASE ~ v.path
  <2>1. backend[i] # NoMaster /\ backend[i].gallery[s] = v
    BY <1>3 DEF LoadedStays
  <2>2. Stored(v) = v
    BY <1>1, <1>3, StoredFacts
  <2> QED BY <2>1, <2>2
<1> QED BY <1>2, <1>3

\* The last copy in hand, view by view.
LEMMA SentStays ==
  ASSUME TypeOK, ViewsOfCrops, Based, TakenInHand, LoadedStays, UploadsKept, Quiet, [Next]_vars, ~ Starts, ~ cut', ~ cut,
         stage \in {"save", "flush", "stopping", "closed"}, UNCHANGED memory,
         NEW i \in Ids, Sent(i), \A k \in DOMAIN pending' : pending'[k].id # i
  PROVE  Sent(i)'
<1>0. stage \in Late
  BY DEF Late
<1>1. ASSUME NEW s \in Slots, ~ Lands(i, s), Settled(i, s) PROVE Settled(i, s)'
  BY <1>1, SettledStays
<1>2. ASSUME UNCHANGED sender, ~ (SendsMaster \/ (\E s \in Slots : SendsView(s)) \/ RequestFails \/ Cleared)
      PROVE  Sent(i)'
  <2>1. UNCHANGED <<backend, uploaded>>
    BY <1>2, Frames
  <2> QED BY <1>2, <2>1 DEF Sent, InHand, Settled
<1>3. CASE SendsNext
  <2>1. /\ sender = Free /\ UNCHANGED backend /\ sender'.id = pending[1].id /\ 1 \in DOMAIN pending
    BY <1>3, QueueFacts DEF SendsNext, TypeOK
  <2>2. ~ InHand(i) /\ ~ InHand(i)'
    BY <2>1 DEF InHand, Sent
  <2> QED BY <2>1, <2>2 DEF Sent, Settled
<1>4. CASE SendsMaster
  <2>1. /\ sender # Free /\ sender.at = "master" /\ sender' # Free /\ sender'.id = sender.id
        /\ sender'.copy = sender.copy /\ sender'.at = "views" /\ sender'.todo = Slots
    BY <1>4 DEF SendsMaster, Free
  <2>2. \A s \in Slots : ~ Lands(i, s)
    BY <2>1 DEF Lands
  <2> QED BY <1>1, <2>1, <2>2 DEF Sent, InHand
<1>5. ASSUME NEW s \in Slots, SendsView(s) PROVE Sent(i)'
  <2>1. /\ sender # Free /\ sender' # Free /\ sender'.id = sender.id /\ sender'.copy = sender.copy
        /\ sender.at = "views" /\ sender'.at = "views" /\ s \in sender.todo
        /\ sender'.todo = sender.todo \ {s} /\ sender.copy \in Master /\ sender.id \in Ids
    BY <1>5, SendsViewFacts, InHandFacts
  <2>2. CASE ~ InHand(i)
    <3>1. \A r \in Slots : ~ Lands(i, r)
      BY <2>2 DEF Lands
    <3> QED BY <1>1, <2>1, <2>2, <3>1 DEF Sent, InHand
  <2>3. CASE InHand(i)
    <3>1. sender.id = i /\ sender.copy = memory[i]
      BY <2>3 DEF InHand, Sent
    <3>2. ASSUME NEW r \in Slots \ sender'.todo PROVE Settled(i, r)'
      <4>1. CASE r # s
        <5>1. r \notin sender.todo /\ Settled(i, r) /\ ~ Lands(i, r)
          BY <2>1, <2>3, <3>2, <4>1 DEF Sent, Lands
        <5> QED BY <1>1, <5>1
      <4>2. CASE r = s /\ Due(i, s, memory[i].gallery[s])
        <5>1. backend' = Arrived(i, s, memory[i])
          BY <1>5, <3>1, <4>2 DEF SendsView
        <5>2. backend'[i] # NoMaster /\ backend'[i].gallery[s] = Stored(memory[i].gallery[s])
          BY <2>1, <3>1, <5>1, ViewArrived
        <5> QED BY <4>2, <5>2 DEF Settled
      <4>3. CASE r = s /\ ~ Due(i, s, memory[i].gallery[s])
        <5>1. Settled(i, s)
          BY <1>0, <4>3, NotDueSettled
        <5>2. ~ Lands(i, s)
          BY <3>1, <4>3 DEF Lands
        <5> QED BY <1>1, <4>3, <5>1, <5>2
      <4> QED BY <4>1, <4>2, <4>3
    <3> QED BY <2>1, <3>1, <3>2 DEF Sent, InHand
  <2> QED BY <2>2, <2>3
<1>6. CASE SendsDone
  <2>1. sender.at = "views" /\ sender.todo = {} /\ sender' = Free /\ UNCHANGED backend
    BY <1>6 DEF SendsDone
  <2> QED BY <2>1 DEF Sent, InHand, Settled
<1>7. ~ Cleared
  BY DEF Cleared
<1>8. ~ RequestFails
  <2>1. sender # Free => LastSave
    BY DEF Quiet, PersistenceIdle, LastSave
  <2>2. RequestFails => cut'
    BY <2>1 DEF RequestFails
  <2> QED BY <2>2
<1> QED BY <1>2, <1>3, <1>4, <1>5, <1>6, <1>7, <1>8, Frames

\* What is put in the queue is pending, and what was pending of others still is.
LEMMA PutPends ==
  ASSUME TypeOK, NEW j \in Ids, NEW copy \in Master, pending' = Put(j, copy)
  PROVE  /\ \E k \in DOMAIN pending' : pending'[k].id = j /\ pending'[k].copy = copy
         /\ \A k \in DOMAIN pending : pending[k].id # j => k \in DOMAIN pending' /\ pending'[k] = pending[k]
         /\ \A k \in DOMAIN pending' : pending'[k].id # j => k \in DOMAIN pending /\ pending'[k] = pending[k]
<1> DEFINE new == [id |-> j, copy |-> copy]
<1>1. CASE \E k \in DOMAIN pending : pending[k].id = j
  <2> DEFINE put == [k \in DOMAIN pending |-> IF pending[k].id = j THEN new ELSE pending[k]]
  <2>1. pending' = put
    BY <1>1 DEF Put
  <2>2. DOMAIN put = DOMAIN pending /\ \A k \in DOMAIN put : put[k] = IF pending[k].id = j THEN new ELSE pending[k]
    OBVIOUS
  <2> HIDE DEF put
  <2> QED BY <1>1, <2>1, <2>2
<1>2. CASE ~ \E k \in DOMAIN pending : pending[k].id = j
  <2>1. pending' = Append(pending, new) /\ new \in Snapshot /\ new.id = j /\ new.copy = copy /\ pending \in Seq(Snapshot)
    BY <1>2 DEF Put, Snapshot, TypeOK
  <2> HIDE DEF new
  <2>2. /\ DOMAIN pending \subseteq DOMAIN pending' /\ \A k \in DOMAIN pending : pending'[k] = pending[k]
        /\ \E n \in DOMAIN pending' : /\ n \notin DOMAIN pending /\ pending'[n] = new
                                      /\ \A k \in DOMAIN pending' : k = n \/ k \in DOMAIN pending
    BY <2>1, AppendAt
  <2> QED BY <2>1, <2>2
<1> QED BY <1>1, <1>2

LEMMA LastCopiesStep ==
  ASSUME TypeOK, ViewsOfCrops, Based, TakenInHand, LoadedStays, UploadsKept, OnePending, Quiet, LastCopies, [Next]_vars
  PROVE  LastCopies'
<1> SUFFICES ASSUME AtLast', NEW i \in Ids, Holds(memory[i], Base)'
             PROVE  Owing(i)' \/ Pends(i)' \/ Sent(i)'
  BY DEF LastCopies
<1>0. ~ cut' /\ stage' \in {"save", "flush", "stopping", "closed"}
  BY DEF AtLast
<1>1. ~ Starts /\ ~ cut
  <2>1. ~ Starts
    BY <1>0, StartsFacts
  <2> QED BY <1>0, <2>1, Frames
<1>2. CASE stage = "evidence"
  <2>1. left' = {j \in Ids : memory[j] # NoMaster} /\ memory' = memory
    BY <1>0, <1>1, <1>2, CloseFacts
  <2> QED BY <2>1 DEF Owing, Holds
<1>3. CASE stage # "evidence"
  <2>1. stage \in {"save", "flush", "stopping", "closed"} /\ stage \in Late /\ AtLast
    <3>1. stage' # stage => stage \in {"save", "flush", "stopping"}
      BY <1>0, <1>1, <1>3, CloseFacts
    <3> QED BY <1>0, <1>1, <3>1 DEF Late, AtLast
  <2>2. /\ UNCHANGED memory /\ ~ Crops /\ ~ Completes
        /\ \A t \in Threads : saving[t] # Free => t = "close" /\ stage = "save"
    BY <1>1, <2>1, LateFacts
  <2>3. Owing(i) \/ Pends(i) \/ Sent(i)
    BY <2>1, <2>2 DEF LastCopies
  <2>4. saving \in [Threads -> Save \cup {Free}] /\ "close" \in Threads /\ pending \in Seq(Snapshot)
    BY DEF TypeOK, Threads
  <2>5. UNCHANGED left \/ \E j \in Ids : SavesAgain(j)
    BY <1>1, <1>3, Frames DEF EvidenceJoined
  <2>6. CASE Owing(i)
    <3>1. CASE \E j \in Ids : SavesAgain(j)
      <4>1. PICK j \in Ids : SavesAgain(j)
        BY <3>1
      <4>2. saving["close"] = Free /\ i \in left /\ left' = left \ {j}
            /\ saving' = [saving EXCEPT !["close"] = [at |-> "copy", id |-> j]]
        BY <2>6, <4>1 DEF SavesAgain, Saves, Owing
      <4>3. saving'["close"] = [at |-> "copy", id |-> j]
        BY <2>4, <4>2
      <4> QED BY <4>2, <4>3 DEF Owing, Free
    <3>2. CASE Copies("close")
      <4>1. saving' = [saving EXCEPT !["close"] = IF Holds(memory[saving["close"].id], Base)
               THEN [at |-> "queue", id |-> saving["close"].id, copy |-> memory[saving["close"].id]] ELSE Free]
            /\ left' = left
        BY <3>2 DEF Copies
      <4>2. CASE i \in left
        BY <4>1, <4>2 DEF Owing
      <4>3. CASE saving["close"].id = i
        <5>1. saving'["close"] = [at |-> "queue", id |-> i, copy |-> memory[i]]
          BY <2>2, <2>4, <4>1, <4>3
        <5> QED BY <2>2, <5>1 DEF Owing, Free
      <4> QED BY <2>6, <4>2, <4>3 DEF Owing
    <3>3. CASE Queues("close")
      <4>1. saving["close"] # Free /\ saving["close"].at = "queue" /\ left' = left /\ stage = "save"
            /\ saving["close"].copy \in Master
            /\ pending' = Put(saving["close"].id, saving["close"].copy)
        BY <2>2, <2>4, <3>3 DEF Queues, Stopping, Save
      <4>2. CASE i \in left
        BY <4>1, <4>2 DEF Owing
      <4>3. CASE saving["close"].id = i
        <5>1. saving["close"].copy = memory[i]
          BY <1>1, <4>1, <4>3 DEF Quiet
        <5> QED BY <2>2, <4>1, <4>3, <5>1, PutPends DEF Pends
      <4> QED BY <2>6, <4>1, <4>2, <4>3 DEF Owing
    <3>4. CASE saving'["close"] = saving["close"] /\ left' = left
      BY <2>2, <2>6, <3>4 DEF Owing
    <3> QED BY <1>1, <2>2, <2>4, <2>5, <3>1, <3>2, <3>3, <3>4, SavingMoves
  <2>7. CASE ~ Owing(i) /\ \E t \in Threads : Queues(t)
    <3>1. Queues("close") /\ stage = "save"
      BY <2>2, <2>7 DEF Queues
    <3>2. /\ saving["close"].id \in Ids /\ saving["close"].copy \in Master /\ saving["close"].id # i
          /\ pending' = Put(saving["close"].id, saving["close"].copy)
          /\ \A k \in DOMAIN pending : pending[k].id = i => k \in DOMAIN pending' /\ pending'[k] = pending[k]
          /\ \A k \in DOMAIN pending' : pending'[k].id = i => k \in DOMAIN pending /\ pending'[k] = pending[k]
      <4>1. saving["close"] # Free /\ saving["close"].at = "queue"
            /\ pending' = Put(saving["close"].id, saving["close"].copy)
        BY <3>1 DEF Queues, Stopping
      <4>2. saving["close"].id \in Ids /\ saving["close"].copy \in Master
        BY <2>4, <4>1 DEF Save
      <4>3. saving["close"].id # i
        BY <2>7, <4>1 DEF Owing
      <4> QED BY <4>1, <4>2, <4>3, PutPends
    <3>3. CASE Pends(i)
      BY <2>2, <3>2, <3>3 DEF Pends
    <3>4. CASE Sent(i)
      <4>1. \A k \in DOMAIN pending' : pending'[k].id # i
        BY <3>2, <3>4 DEF Sent
      <4> QED BY <1>0, <1>1, <2>1, <2>2, <3>4, <4>1, SentStays
    <3> QED BY <2>3, <2>7, <3>3, <3>4
  <2>8. CASE ~ Owing(i) /\ ~ (\E t \in Threads : Queues(t)) /\ SendsNext
    <3>1. /\ 1 \in DOMAIN pending /\ pending[1] = Head(pending) /\ DOMAIN pending \subseteq Int
          /\ sender = Free /\ sender' # Free /\ sender'.at = "master"
          /\ sender'.id = pending[1].id /\ sender'.copy = pending[1].copy
          /\ \A k \in DOMAIN pending' : k + 1 \in DOMAIN pending /\ k + 1 # 1 /\ pending'[k] = pending[k + 1]
          /\ \A j \in DOMAIN pending \ {1} : j - 1 \in DOMAIN pending' /\ pending'[j - 1] = pending[j]
      <4>1. pending # << >> /\ pending' = Tail(pending) /\ sender = Free
            /\ sender' = [at |-> "master", id |-> Head(pending).id, copy |-> Head(pending).copy]
        BY <2>8 DEF SendsNext
      <4>2. /\ 1 \in DOMAIN pending /\ pending[1] = Head(pending) /\ DOMAIN pending \subseteq Int
            /\ \A k \in DOMAIN pending' : k + 1 \in DOMAIN pending /\ k + 1 # 1 /\ pending'[k] = pending[k + 1]
            /\ \A j \in DOMAIN pending \ {1} : j - 1 \in DOMAIN pending' /\ pending'[j - 1] = pending[j]
        BY <2>4, <4>1, TailAt
      <4> QED BY <4>1, <4>2 DEF Free
    <3>2. CASE Pends(i)
      <4>1. PICK k \in DOMAIN pending : pending[k].id = i /\ pending[k].copy = memory[i]
        BY <3>2 DEF Pends
      <4>2. CASE k = 1
        <5>1. \A j \in DOMAIN pending' : pending'[j].id # i
          BY <3>1, <4>1, <4>2 DEF OnePending
        <5> QED BY <2>2, <3>1, <4>1, <4>2, <5>1 DEF Sent, InHand
      <4>3. CASE k # 1
        BY <2>2, <3>1, <4>1, <4>3 DEF Pends
      <4> QED BY <4>2, <4>3
    <3>3. CASE Sent(i)
      <4>1. \A k \in DOMAIN pending' : pending'[k].id # i
        BY <3>1, <3>3 DEF Sent
      <4> QED BY <1>0, <1>1, <2>1, <2>2, <3>3, <4>1, SentStays
    <3> QED BY <2>3, <2>8, <3>2, <3>3
  <2>9. CASE ~ Owing(i) /\ UNCHANGED pending
    <3>1. CASE Pends(i)
      BY <2>2, <2>9, <3>1 DEF Pends
    <3>2. CASE Sent(i)
      <4>1. \A k \in DOMAIN pending' : pending'[k].id # i
        BY <2>9, <3>2 DEF Sent
      <4> QED BY <1>0, <1>1, <2>1, <2>2, <3>2, <4>1, SentStays
    <3> QED BY <2>3, <2>9, <3>1, <3>2
  <2> QED BY <1>1, <2>6, <2>7, <2>8, <2>9, Frames
<1> QED BY <1>2, <1>3

-----------------------------------------------------------------------------
(* What is left behind.                                                     *)

LEMMA CloseAtStart == Init => CloseInv
<1> SUFFICES ASSUME Init PROVE CloseInv
  OBVIOUS
<1>1. /\ stage = "off" /\ \A i \in Ids : memory[i] = NoMaster /\ backend[i] = NoMaster
      /\ files = {} /\ tasks = << >> /\ pending = << >> /\ writer = Free /\ sender = Free
      /\ \A t \in Threads : saving[t] = Free
      /\ \A i \in Ids, s \in Slots : uploaded[i][s] = NoCrop
  BY DEF Init
<1>2. DOMAIN tasks = {} /\ DOMAIN pending = {}
  BY <1>1
<1>3. \A i, m : ~ Copy(i, m)
  BY <1>1, <1>2 DEF Copy
<1>4. CropsOnce
  BY <1>1, <1>2 DEF CropsOnce, Queued, DistinctTasks, Written
<1>5. ViewsOfCrops /\ Based /\ TakenInHand /\ LoadedStays /\ RowsOf /\ LastCopies
  BY <1>1, <1>3 DEF ViewsOfCrops, Based, TakenInHand, LoadedStays, RowsOf, LastCopies, Holds
<1>6. UploadsKept /\ InOrder /\ CopiesOf
  BY <1>1, <1>3 DEF UploadsKept, InOrder, CopiesOf
<1>7. OnePending /\ Quiet
  BY <1>1, <1>2 DEF OnePending, Quiet
<1> QED BY <1>4, <1>5, <1>6, <1>7 DEF CloseInv

LEMMA CloseStep ==
  ASSUME TypeOK, NumbersHold, CloseInv, [Next]_vars
  PROVE  CloseInv'
<1>1. CropsOnce' /\ ViewsOfCrops' /\ Based'
  BY CropsOnceStep, ViewsOfCropsStep, BasedStep DEF CloseInv
<1>2. TakenInHand' /\ LoadedStays' /\ UploadsKept'
  BY TakenInHandStep, LoadedStaysStep, UploadsKeptStep DEF CloseInv
<1>3. InOrder' /\ CopiesOf' /\ RowsOf'
  BY InOrderStep, CopiesOfStep, RowsOfStep DEF CloseInv
<1>4. OnePending' /\ Quiet' /\ LastCopies'
  BY OnePendingStep, QuietStep, LastCopiesStep DEF CloseInv
<1> QED BY <1>1, <1>2, <1>3, <1>4 DEF CloseInv

LEMMA ClosedHolds ==
  ASSUME TypeOK, CloseInv
  PROVE  ClosedIsComplete
<1> SUFFICES ASSUME stage = "closed", ~ cut, NEW i \in Ids, NEW s \in Slots
             PROVE  IF Holds(memory[i], s)
                    THEN Holds(backend[i], s) /\ backend[i].gallery[s] = Stored(memory[i].gallery[s])
                    ELSE memory[i] # NoMaster /\ Holds(backend[i], s) =>
                           blind \/ backend[i].gallery[s].crop \in withdrawn
  BY DEF ClosedIsComplete
<1>1. CASE Holds(memory[i], s)
  <2>1. left = {} /\ saving["close"] = Free /\ pending = << >> /\ sender = Free /\ AtLast
    BY DEF CloseInv, Quiet, PersistenceIdle, AtLast
  <2>2. DOMAIN pending = {} /\ Holds(memory[i], Base)
    BY <1>1, <2>1 DEF CloseInv, Based
  <2>3. Sent(i)
    BY <2>1, <2>2 DEF CloseInv, LastCopies, Owing, Pends
  <2>4. backend[i] # NoMaster /\ backend[i].gallery[s] = Stored(memory[i].gallery[s])
    BY <1>1, <2>1, <2>3 DEF Sent, InHand, Settled
  <2>5. Stored(memory[i].gallery[s]).crop # 0
    <3>1. memory[i].gallery[s] \in View /\ memory[i].gallery[s].crop \in 1 .. crops
      BY <1>1, MasterFacts DEF TypeOK, Holds, CloseInv, ViewsOfCrops
    <3> QED BY <3>1 DEF View, Stored
  <2> QED BY <1>1, <2>4, <2>5, NoViewFacts DEF Holds
<1>2. CASE ~ Holds(memory[i], s)
  <2> SUFFICES ASSUME memory[i] # NoMaster, Holds(backend[i], s), ~ blind
               PROVE  backend[i].gallery[s].crop \in withdrawn
    BY <1>2
  <2>1. memory[i].gallery[s].crop = 0
    BY <1>2, NoViewFacts DEF Holds
  <2>2. backend[i].gallery[s].crop \in 1 .. crops
    BY DEF CloseInv, ViewsOfCrops, CropsOnce
  <2> QED BY <2>1, <2>2 DEF CloseInv, RowsOf
<1> QED BY <1>1, <1>2

\* A session that was closed in its time has left its galleries behind: every view
\* in memory is the backend's, and of what is not in memory the backend of a run
\* whose rows were known holds no view but those an audit has taken back
\* (reid_memory.py, save_database and close; reid_backend_store.py, save_identity).
THEOREM ClosedComplete == Spec => []ClosedIsComplete
<1>1. Init => NumbersHold /\ CloseInv
  BY NumbersAtStart, CloseAtStart
<1>2. TypeOK /\ NumbersHold /\ CloseInv /\ [Next]_vars => NumbersHold' /\ CloseInv'
  BY NumbersStep, CloseStep
<1>3. TypeOK /\ CloseInv => ClosedIsComplete
  BY ClosedHolds
<1> QED BY <1>1, <1>2, <1>3, TypeCorrect, PTL DEF Spec
=============================================================================
