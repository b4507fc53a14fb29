------------------------ MODULE TacticalFeed_proofs ------------------------
(***************************************************************************)
(* What a deletion leaves in memory, for any number of runs and cameras.   *)
(***************************************************************************)
EXTENDS TacticalFeed, TLAPS

-----------------------------------------------------------------------------
(* The steps of the registry and of the policy.                             *)

\* The runs of the other handlers keep their phases' type and stay deleted.
LEMMA RunsMoveFacts ==
  ASSUME phase \in [Runs -> Phases], RunsMove
  PROVE  /\ phase' \in [Runs -> Phases]
         /\ \A r \in Runs : phase[r] = "deleted" <=> phase'[r] = "deleted"
BY DEF RunsMove, Open, Close, Reopen, Observe, Import, Phases

\* An accepted payload belongs to a run that is not deleted, and deletes none.
LEMMA AcceptsFacts ==
  ASSUME phase \in [Runs -> Phases], NEW r \in Runs, Accepts(r)
  PROVE  /\ phase' \in [Runs -> Phases]
         /\ phase[r] # "deleted"
         /\ \A q \in Runs : phase[q] = "deleted" <=> phase'[q] = "deleted"
         /\ admitted' = admitted \cup {r}
BY DEF Accepts, Admits, Observe, Phases

-----------------------------------------------------------------------------
(* Types.                                                                   *)

\* A reading merged with a reading is a reading.
LEMMA ReadingFacts ==
  /\ Blank \in Reading
  /\ \A old, new \in Reading : Merged(old, new) \in Reading
BY DEF Blank, Reading, Merged

\* The initial values have their types.
LEMMA TypeInit == Init => TypeOK
BY ReadingFacts DEF Init, RInit, TypeOK, Phases, Messages, Free

\* One step keeps every type.
LEMMA TypeStep ==
  ASSUME TypeOK, [Next]_vars
  PROVE  TypeOK'
<1> USE DEF TypeOK
<1>1. ASSUME NEW r \in Runs, NEW counts \in Reading, MetricArrives(r, counts) PROVE TypeOK'
  <2>1. caches' \in [Runs -> Reading] /\ caches'[r] \in Reading
    BY <1>1, ReadingFacts DEF MetricArrives
  <2>2. newest' \in [Runs -> Reading]
    BY <1>1 DEF MetricArrives, Reading
  <2>3. bridge' \in Messages
    BY <1>1, <2>1 DEF MetricArrives, Messages, Metric
  <2> QED BY <1>1, <2>1, <2>2, <2>3 DEF MetricArrives
<1>2. CASE MetricThrottled
  <2>1. bridge.run \in Runs /\ bridge.counts \in Reading
    BY <1>2 DEF MetricThrottled, Messages, Free
  <2> QED BY <1>2, <2>1 DEF MetricThrottled, Messages, Metric
<1>3. CASE MetricWritten
  <2>1. bridge.run \in Runs /\ bridge.counts \in Reading
    BY <1>3 DEF MetricWritten, Messages, Free
  <2>2. phase' \in [Runs -> Phases] /\ admitted' \subseteq Runs
    BY <1>3, <2>1, AcceptsFacts DEF MetricWritten
  <2> QED BY <1>3, <2>1, <2>2 DEF MetricWritten, Messages
<1>4. CASE MetricRejected
  BY <1>4 DEF MetricRejected, Messages
<1>5. CASE IntervalPasses
  BY <1>5 DEF IntervalPasses
<1>6. ASSUME NEW c \in Cameras, NEW r \in Runs, TacticalAccepted(c, r) PROVE TypeOK'
  <2>1. phase' \in [Runs -> Phases] /\ admitted' \subseteq Runs
    BY <1>6, AcceptsFacts DEF TacticalAccepted
  <2> QED BY <1>6, <2>1 DEF TacticalAccepted, Messages, Position
<1>7. ASSUME NEW c \in Cameras, NEW r \in Runs, HttpUpdate(c, r) PROVE TypeOK'
  BY <1>7 DEF HttpUpdate
<1>8. CASE TacticalUpdate
  <2>1. bridge.run \in Runs /\ bridge.camera \in Cameras
    BY <1>8 DEF TacticalUpdate, Messages, Free
  <2> QED BY <1>8, <2>1 DEF TacticalUpdate, Messages
<1>9. ASSUME NEW r \in Runs, DeleteCommit(r) PROVE TypeOK'
  BY <1>9, ReadingFacts DEF DeleteCommit, Delete, Phases
<1>10. ASSUME NEW r \in Runs, ClearMap(r) \/ ClearCaches(r) \/ DeletionRaises(r) PROVE TypeOK'
  BY <1>10, ReadingFacts DEF ClearMap, ClearCaches, DeletionRaises
<1>11. CASE RunsElsewhere
  BY <1>11, RunsMoveFacts DEF RunsElsewhere, feedVars
<1>12. CASE UNCHANGED vars
  BY <1>12 DEF vars, feedVars
<1> QED
  BY <1>1, <1>2, <1>3, <1>4, <1>5, <1>6, <1>7, <1>8, <1>9, <1>10, <1>11, <1>12 DEF Next

\* Every variable keeps its type, for any cameras, zones and counts.
THEOREM TypeCorrect == Spec => []TypeOK
BY TypeInit, TypeStep, PTL DEF Spec

-----------------------------------------------------------------------------
(* The rows and the live map of a deleted run.                              *)

ClearingIsDeleted == \A r \in Runs : clearing[r] # "none" => phase[r] = "deleted"
FeedInv == TypeOK /\ ClearingIsDeleted /\ NoRowOfDeleted

\* One step writes no row of a deleted run, and clears the memory of no other run.
LEMMA FeedStep ==
  ASSUME FeedInv, [Next]_vars
  PROVE  FeedInv'
<1> USE DEF FeedInv, TypeOK, ClearingIsDeleted, NoRowOfDeleted
<1>0. TypeOK'
  BY TypeStep
<1>1. ASSUME NEW r \in Runs, NEW counts \in Reading, MetricArrives(r, counts) PROVE FeedInv'
  BY <1>0, <1>1 DEF MetricArrives
<1>2. CASE MetricThrottled \/ MetricRejected \/ IntervalPasses \/ TacticalUpdate
  BY <1>0, <1>2 DEF MetricThrottled, MetricRejected, IntervalPasses, TacticalUpdate
<1>3. CASE MetricWritten
  <2>1. bridge.run \in Runs
    BY <1>3 DEF MetricWritten, Messages, Free
  <2> QED BY <1>0, <1>3, <2>1, AcceptsFacts DEF MetricWritten
<1>4. ASSUME NEW c \in Cameras, NEW r \in Runs, TacticalAccepted(c, r) PROVE FeedInv'
  BY <1>0, <1>4, AcceptsFacts DEF TacticalAccepted
<1>5. ASSUME NEW c \in Cameras, NEW r \in Runs, HttpUpdate(c, r) PROVE FeedInv'
  BY <1>0, <1>5 DEF HttpUpdate
<1>6. ASSUME NEW r \in Runs, DeleteCommit(r) PROVE FeedInv'
  BY <1>0, <1>6 DEF DeleteCommit, Delete
<1>7. ASSUME NEW r \in Runs, ClearMap(r) \/ ClearCaches(r) \/ DeletionRaises(r) PROVE FeedInv'
  BY <1>0, <1>7 DEF ClearMap, ClearCaches, DeletionRaises
<1>8. CASE RunsElsewhere
  BY <1>0, <1>8, RunsMoveFacts DEF RunsElsewhere, feedVars
<1>9. CASE UNCHANGED vars
  BY <1>9 DEF vars, feedVars
<1> QED
  BY <1>1, <1>2, <1>3, <1>4, <1>5, <1>6, <1>7, <1>8, <1>9 DEF Next

\* The initial registry has no deleted run.
LEMMA FeedInit == Init => FeedInv
BY TypeInit DEF Init, RInit, FeedInv, ClearingIsDeleted, NoRowOfDeleted

\* A late payload never brings a deleted run's rows back.
THEOREM RowsStayDeleted == Spec => []NoRowOfDeleted
<1>1. FeedInv => NoRowOfDeleted
  BY DEF FeedInv
<1> QED BY <1>1, FeedInit, FeedStep, PTL DEF Spec

\* What leaves the map and the clearings alone, and takes no position in hand, leaves
\* nothing behind.
LEMMA MapUntouched ==
  ASSUME LateUpdateIsOne, map' = map, clearing' = clearing, bridge'.at # "update"
  PROVE  LateUpdateIsOne'
<1>1. \A r \in Runs : OnMap(r)' = OnMap(r) /\ Cleared(r)' = Cleared(r) /\ ~InHand(r)'
  BY DEF OnMap, Cleared, InHand
<1> QED BY <1>1 DEF LateUpdateIsOne

\* One step leaves at most the position in hand on a cleared map.
LEMMA LateStep ==
  ASSUME FeedInv, LateUpdateIsOne, [Next]_vars
  PROVE  LateUpdateIsOne'
<1>1. ASSUME NEW r \in Runs, NEW counts \in Reading, MetricArrives(r, counts) PROVE LateUpdateIsOne'
  BY <1>1, MapUntouched DEF MetricArrives, Metric
<1>2. CASE MetricThrottled
  BY <1>2, MapUntouched DEF MetricThrottled, Free, Metric
<1>3. CASE MetricWritten \/ MetricRejected
  BY <1>3, MapUntouched DEF MetricWritten, MetricRejected, Free
<1> USE DEF FeedInv, TypeOK, ClearingIsDeleted, LateUpdateIsOne, Cleared, InHand, OnMap
<1>4. CASE IntervalPasses
  BY <1>4 DEF IntervalPasses
<1>5. ASSUME NEW c \in Cameras, NEW r \in Runs, TacticalAccepted(c, r) PROVE LateUpdateIsOne'
  <2>1. phase[r] # "deleted"
    BY <1>5, AcceptsFacts DEF TacticalAccepted
  <2>2. ~Cleared(r)
    BY <2>1
  <2> QED BY <1>5, <2>2 DEF TacticalAccepted, Position, Free
<1>6. CASE TacticalUpdate
  <2>1. bridge.run \in Runs /\ bridge.camera \in Cameras
    BY <1>6 DEF TacticalUpdate, Messages, Free
  <2>2. ASSUME NEW r \in Runs, r # bridge.run PROVE OnMap(r)' = OnMap(r)
    BY <1>6, <2>1, <2>2 DEF TacticalUpdate
  <2>3. OnMap(bridge.run) = {} => \E c \in Cameras : {d \in Cameras : map'[<<d, bridge.run>>] = "mqtt"} = {c}
    BY <1>6, <2>1 DEF TacticalUpdate
  <2>4. ASSUME NEW r \in Runs PROVE ~InHand(r)'
    BY <1>6 DEF TacticalUpdate, Free
  <2>5. clearing' = clearing
    BY <1>6 DEF TacticalUpdate
  <2>6. ASSUME NEW r \in Runs, Cleared(r)'
        PROVE OnMap(r)' = {} \/ \E c \in Cameras : OnMap(r)' = {c}
    <3>1. Cleared(r)
      BY <2>5, <2>6
    <3>2. CASE r = bridge.run
      <4>1. InHand(r)
        BY <1>6, <3>2 DEF TacticalUpdate
      <4>2. OnMap(r) = {}
        BY <3>1, <4>1
      <4> QED BY <2>3, <3>2, <4>2
    <3>3. CASE r # bridge.run
      BY <2>2, <3>1, <3>3
    <3> QED BY <3>2, <3>3
  <2> QED BY <2>4, <2>6
<1>7. ASSUME NEW r \in Runs, DeleteCommit(r) PROVE LateUpdateIsOne'
  BY <1>7 DEF DeleteCommit
<1>8. ASSUME NEW r \in Runs, ClearMap(r) PROVE LateUpdateIsOne'
  <2>1. OnMap(r)' = {}
    BY <1>8 DEF ClearMap
  <2>2. ASSUME NEW q \in Runs, q # r PROVE OnMap(q)' = OnMap(q) /\ clearing'[q] = clearing[q]
    BY <1>8, <2>2 DEF ClearMap
  <2> QED BY <1>8, <2>1, <2>2 DEF ClearMap
<1>9. ASSUME NEW r \in Runs, ClearCaches(r) PROVE LateUpdateIsOne'
  BY <1>9 DEF ClearCaches
<1>10. CASE RunsElsewhere \/ UNCHANGED vars
  BY <1>10 DEF RunsElsewhere, vars, feedVars
<1>11. ASSUME NEW r \in Runs, DeletionRaises(r) PROVE LateUpdateIsOne'
  BY <1>11 DEF DeletionRaises
<1>12. ASSUME NEW d \in Cameras, NEW q \in Runs, HttpUpdate(d, q) PROVE LateUpdateIsOne'
  <2>1. ASSUME NEW r \in Runs, r # q PROVE OnMap(r)' = OnMap(r)
    BY <1>12, <2>1 DEF HttpUpdate
  <2>2. OnMap(q)' = OnMap(q) \ {d}
    BY <1>12 DEF HttpUpdate
  <2>3. ASSUME NEW c \in Cameras, OnMap(q) = {c} PROVE OnMap(q)' = {} \/ OnMap(q)' = {c}
    BY <2>2, <2>3
  <2> QED BY <1>12, <2>1, <2>2, <2>3 DEF HttpUpdate
<1> QED
  BY <1>1, <1>2, <1>3, <1>4, <1>5, <1>6, <1>7, <1>8, <1>9, <1>10, <1>11, <1>12 DEF Next

\* A deletion that clears the memory leaves at most one position of MQTT's on the live
\* map, for any number of cameras.
THEOREM OneLateUpdate == Spec => []LateUpdateIsOne
<1>1. Init => LateUpdateIsOne
  BY DEF Init, LateUpdateIsOne, Cleared
<1>2. FeedInv /\ LateUpdateIsOne /\ [Next]_vars => LateUpdateIsOne'
  BY LateStep
<1> QED BY <1>1, <1>2, FeedInit, FeedStep, PTL DEF Spec

-----------------------------------------------------------------------------
(* What the map and the rows are made of.                                   *)

HandAdmitted == bridge.at = "update" => bridge.run \in admitted
MapInv == TypeOK /\ MapFedByPolicy /\ HandAdmitted

\* One step of MQTT's puts on the map what the policy has admitted.
LEMMA MapStep ==
  ASSUME MapInv, [Next]_vars
  PROVE  MapInv'
<1> USE DEF MapInv, MapFedByPolicy, HandAdmitted
<1>0. TypeOK'
  BY TypeStep
<1>1. ASSUME NEW r \in Runs, NEW counts \in Reading, MetricArrives(r, counts) PROVE MapInv'
  BY <1>0, <1>1 DEF MetricArrives, Metric
<1>2. CASE MetricThrottled \/ MetricRejected \/ IntervalPasses
  BY <1>0, <1>2 DEF MetricThrottled, MetricRejected, IntervalPasses, Free, Metric
<1>3. CASE MetricWritten
  BY <1>0, <1>3 DEF MetricWritten, Accepts, Free
<1>4. ASSUME NEW c \in Cameras, NEW r \in Runs, TacticalAccepted(c, r) PROVE MapInv'
  BY <1>0, <1>4 DEF TacticalAccepted, Accepts, Position
<1>5. ASSUME NEW c \in Cameras, NEW r \in Runs, HttpUpdate(c, r) PROVE MapInv'
  BY <1>0, <1>5 DEF HttpUpdate, TypeOK
<1>6. CASE TacticalUpdate
  BY <1>0, <1>6 DEF TacticalUpdate, TypeOK, Free
<1>7. ASSUME NEW r \in Runs, DeleteCommit(r) \/ ClearCaches(r) \/ DeletionRaises(r) PROVE MapInv'
  BY <1>0, <1>7 DEF DeleteCommit, ClearCaches, DeletionRaises
<1>8. ASSUME NEW r \in Runs, ClearMap(r) PROVE MapInv'
  BY <1>0, <1>8 DEF ClearMap, TypeOK
<1>9. CASE RunsElsewhere \/ UNCHANGED vars
  BY <1>0, <1>9 DEF RunsElsewhere, vars, feedVars
<1> QED
  BY <1>1, <1>2, <1>3, <1>4, <1>5, <1>6, <1>7, <1>8, <1>9 DEF Next

\* MQTT shows on the live map only runs the policy has admitted.
THEOREM MapObeysPolicy == Spec => []MapFedByPolicy
<1>1. Init => MapInv
  BY TypeInit DEF Init, MapInv, MapFedByPolicy, HandAdmitted, Free
<1>2. MapInv => MapFedByPolicy
  BY DEF MapInv
<1> QED BY <1>1, <1>2, MapStep, PTL DEF Spec

\* While a run is not deleted, its cache and its message in hand are up to date.
CacheIsNewest == \A r \in Runs : phase[r] # "deleted" => caches[r] = newest[r]
HandIsNewest ==
  bridge.at \in {"metric", "write"} /\ phase[bridge.run] # "deleted" =>
    bridge.counts = newest[bridge.run]
RowInv == TypeOK /\ ClearingIsDeleted /\ CacheIsNewest /\ HandIsNewest

\* One step keeps the caches of the runs that are not deleted up to date.
LEMMA RowStep ==
  ASSUME RowInv, FeedInv, [Next]_vars
  PROVE  RowInv'
<1> USE DEF RowInv, CacheIsNewest, HandIsNewest
<1>0. TypeOK' /\ ClearingIsDeleted'
  BY FeedStep, TypeStep DEF FeedInv
<1>1. ASSUME NEW r \in Runs, NEW counts \in Reading, MetricArrives(r, counts) PROVE RowInv'
  <2>1. /\ caches' = [caches EXCEPT ![r] = Merged(caches[r], counts)]
        /\ newest' = [newest EXCEPT ![r] = Merged(newest[r], counts)]
    BY <1>1 DEF MetricArrives, Merged
  <2>2. bridge' = Metric("metric", r, caches'[r]) /\ phase' = phase
    BY <1>1 DEF MetricArrives
  <2>3. CacheIsNewest'
    BY <2>1, <2>2 DEF TypeOK
  <2>4. HandIsNewest'
    BY <2>2, <2>3 DEF Metric
  <2> QED BY <1>0, <2>3, <2>4
<1>2. CASE MetricThrottled \/ MetricRejected \/ IntervalPasses \/ TacticalUpdate
  BY <1>0, <1>2 DEF MetricThrottled, MetricRejected, IntervalPasses, TacticalUpdate, Free, Metric
<1>3. CASE MetricWritten
  <2>1. bridge.run \in Runs
    BY <1>3 DEF MetricWritten, Messages, Free, TypeOK
  <2>2. \A q \in Runs : phase[q] = "deleted" <=> phase'[q] = "deleted"
    BY <1>3, <2>1, AcceptsFacts DEF MetricWritten, TypeOK
  <2> QED BY <1>0, <1>3, <2>2 DEF MetricWritten, Free
<1>4. ASSUME NEW c \in Cameras, NEW r \in Runs, TacticalAccepted(c, r) PROVE RowInv'
  <2>1. \A q \in Runs : phase[q] = "deleted" <=> phase'[q] = "deleted"
    BY <1>4, AcceptsFacts DEF TacticalAccepted, TypeOK
  <2> QED BY <1>0, <1>4, <2>1 DEF TacticalAccepted, Position
<1>5. ASSUME NEW c \in Cameras, NEW r \in Runs, HttpUpdate(c, r) PROVE RowInv'
  BY <1>0, <1>5 DEF HttpUpdate
<1>6. ASSUME NEW r \in Runs, DeleteCommit(r) PROVE RowInv'
  <2>1. \A q \in Runs : phase'[q] = IF q = r THEN "deleted" ELSE phase[q]
    BY <1>6 DEF DeleteCommit, Delete, TypeOK
  <2>2. bridge.at \in {"metric", "write"} => bridge.run \in Runs
    BY DEF TypeOK, Messages, Free
  <2> QED BY <1>0, <1>6, <2>1, <2>2 DEF DeleteCommit
<1>7. ASSUME NEW r \in Runs, ClearMap(r) \/ DeletionRaises(r) PROVE RowInv'
  BY <1>0, <1>7 DEF ClearMap, DeletionRaises
<1>8. ASSUME NEW r \in Runs, ClearCaches(r) PROVE RowInv'
  BY <1>0, <1>8 DEF ClearCaches, ClearingIsDeleted, TypeOK
<1>9. CASE RunsElsewhere
  <2>1. \A q \in Runs : phase[q] = "deleted" <=> phase'[q] = "deleted"
    BY <1>9, RunsMoveFacts DEF RunsElsewhere, TypeOK
  <2>2. bridge.at \in {"metric", "write"} => bridge.run \in Runs
    BY DEF TypeOK, Messages, Free
  <2> QED BY <1>0, <1>9, <2>1, <2>2 DEF RunsElsewhere, feedVars
<1>10. CASE UNCHANGED vars
  BY <1>0, <1>10 DEF vars, feedVars
<1> QED
  BY <1>1, <1>2, <1>3, <1>4, <1>5, <1>6, <1>7, <1>8, <1>9, <1>10 DEF Next

\* A new row has the newest count of every zone, for any zones and counts.
THEOREM RowsComplete == Spec => RowIsComplete
<1>1. Init => RowInv
  BY TypeInit DEF Init, RowInv, ClearingIsDeleted, CacheIsNewest, HandIsNewest, Free
<1>2. ASSUME RowInv, [Next]_vars
      PROVE  [\A r \in Runs : last'[r] \notin {last[r], Blank} => last'[r] = newest[r]]_vars
  <2>1. CASE MetricWritten
    <3>1. bridge.run \in Runs
      BY <1>2, <2>1 DEF RowInv, MetricWritten, Messages, Free, TypeOK
    <3>2. phase[bridge.run] # "deleted"
      BY <1>2, <2>1, <3>1, AcceptsFacts DEF RowInv, MetricWritten, TypeOK
    <3>3. bridge.counts = newest[bridge.run]
      BY <1>2, <2>1, <3>2 DEF RowInv, HandIsNewest, MetricWritten
    <3>4. last' = [last EXCEPT ![bridge.run] = newest[bridge.run]]
      BY <2>1, <3>3 DEF MetricWritten
    <3> QED BY <1>2, <3>4 DEF RowInv, TypeOK
  <2>2. ASSUME NEW r \in Runs, DeleteCommit(r)
        PROVE  \A q \in Runs : last'[q] \in {last[q], Blank}
    BY <1>2, <2>2 DEF RowInv, DeleteCommit, TypeOK
  <2>3. CASE UNCHANGED last
    BY <2>3
  <2> QED
    BY <1>2, <2>1, <2>2, <2>3
       DEF Next, vars, feedVars, MetricArrives, MetricThrottled, MetricRejected, IntervalPasses,
           TacticalAccepted, HttpUpdate, TacticalUpdate, ClearMap, ClearCaches, DeletionRaises,
           RunsElsewhere
<1> QED BY <1>1, <1>2, RowStep, FeedInit, FeedStep, PTL DEF Spec, RowIsComplete
=============================================================================
