---------------------------- MODULE TacticalFeed ----------------------------
(***************************************************************************)
(* What a run leaves in the backend's memory: the live map                 *)
(* (backend/tactical_state.py) and the per-run caches of the MQTT bridge   *)
(* (backend/mqtt_bridge.py), beside the registry of runs in the database.  *)
(*                                                                         *)
(* One network thread handles one MQTT message after another.  It asks the *)
(* run policy inside a transaction, and touches the map and the caches     *)
(* under locks of their own, before or after that transaction; a deletion  *)
(* commits first and clears the memory afterwards.  The runs themselves    *)
(* change as RunPolicy allows.                                            *)
(***************************************************************************)
EXTENDS RunPolicy, Integers

CONSTANTS
  Cameras, Zones,   \* of the tracker's payloads
  Counts            \* passenger counts of a zone

NoCount == -1                                     \* the zone has never been reported
Reading == [Zones -> Counts \cup {NoCount}]
Blank == [z \in Zones |-> NoCount]

VARIABLES
  map,       \* TacticalStateStore._states: who last set the entry of a camera and a run
  caches,    \* _latest_zone_counts_by_run
  elapsed,   \* the metric log interval has passed since _last_metric_log_at
  bridge,    \* the message in hand: how far it has come, its run, camera, counts
  last,      \* the newest metric_logs row of a run, Blank when there is none
  clearing,  \* per run, how far a deletion has come after its commit
  admitted,  \* history: runs the policy has accepted a payload of
  newest     \* history: the newest count published for each run and zone

feedVars == <<map, caches, elapsed, bridge, last, clearing, admitted, newest>>
vars == <<phase, feedVars>>

Free == [at |-> "free", run |-> NoRun]
Metric(a, r, counts) == [at |-> a, run |-> r, counts |-> counts]
Position(r, c) == [at |-> "update", run |-> r, camera |-> c]

Messages ==
  {Free} \cup [at : {"metric", "write"}, run : Runs, counts : Reading]
         \cup [at : {"update"}, run : Runs, camera : Cameras]

TypeOK ==
  /\ phase \in [Runs -> Phases]
  /\ map \in [Cameras \X Runs -> {"none", "mqtt", "http"}]
  /\ caches \in [Runs -> Reading] /\ newest \in [Runs -> Reading]
  /\ elapsed \in BOOLEAN
  /\ bridge \in Messages
  /\ last \in [Runs -> Reading]
  /\ clearing \in [Runs -> {"none", "map", "caches", "done", "raised"}]
  /\ admitted \subseteq Runs

Init ==
  /\ RInit
  /\ map = [k \in Cameras \X Runs |-> "none"]
  /\ elapsed = TRUE /\ bridge = Free
  /\ caches = [r \in Runs |-> Blank] /\ newest = caches /\ last = caches
  /\ clearing = [r \in Runs |-> "none"]
  /\ admitted = {}

-----------------------------------------------------------------------------
(* The bridge's handlers.                                                   *)

\* resolve_ingestion_run accepts.
Accepts(r) == Admits(r) /\ admitted' = admitted \cup {r}

\* Seeded fault: a message replaces what was cached.
Replaced(old, new) == new

Merged(old, new) == [z \in Zones |-> IF new[z] # NoCount THEN new[z] ELSE old[z]]

\* _metric_from_payload: the counts are cached before anybody asks about the run.
MetricArrives(r, counts) ==
  /\ bridge = Free
  /\ caches' = [caches EXCEPT ![r] = Merged(caches[r], counts)]
  /\ bridge' = Metric("metric", r, caches'[r])
  /\ newest' = [newest EXCEPT ![r] =
                  [z \in Zones |-> IF counts[z] # NoCount THEN counts[z] ELSE newest[r][z]]]
  /\ UNCHANGED <<phase, map, elapsed, last, clearing, admitted>>

\* One interval for every run; it is used up whether or not the row is accepted.
MetricThrottled ==
  /\ bridge.at = "metric"
  /\ bridge' = IF elapsed THEN Metric("write", bridge.run, bridge.counts) ELSE Free
  /\ elapsed' = FALSE
  /\ UNCHANGED <<phase, map, caches, last, clearing, admitted, newest>>

MetricWritten ==
  /\ bridge.at = "write" /\ bridge' = Free
  /\ Accepts(bridge.run)
  /\ last' = [last EXCEPT ![bridge.run] = bridge.counts]
  /\ UNCHANGED <<map, caches, elapsed, clearing, newest>>

\* The policy refuses, or the database stayed locked.
MetricRejected ==
  /\ bridge.at = "write" /\ bridge' = Free
  /\ UNCHANGED <<phase, map, caches, elapsed, last, clearing, admitted, newest>>

\* _run_scoped_write_allowed: a transaction that writes no row of its own.
TacticalAccepted(c, r) ==
  /\ bridge = Free /\ bridge' = Position(r, c)
  /\ Accepts(r)
  /\ UNCHANGED <<map, caches, elapsed, last, clearing, newest>>

\* tactical_store.update, after that transaction.
TacticalUpdate ==
  /\ bridge.at = "update" /\ bridge' = Free
  /\ map' = [map EXCEPT ![<<bridge.camera, bridge.run>>] = "mqtt"]
  /\ UNCHANGED <<phase, caches, elapsed, last, clearing, admitted, newest>>

\* POST /api/tactical, which asks no policy.
HttpUpdate(c, r) ==
  /\ map' = [map EXCEPT ![<<c, r>>] = "http"]
  /\ UNCHANGED <<phase, caches, elapsed, bridge, last, clearing, admitted, newest>>

IntervalPasses ==
  /\ ~elapsed /\ elapsed' = TRUE
  /\ UNCHANGED <<phase, map, caches, bridge, last, clearing, admitted, newest>>

-----------------------------------------------------------------------------
(* Deletion, from its commit to the end of _clear_in_memory_state.          *)

DeleteCommit(r) ==
  /\ Delete(r)
  /\ last' = [last EXCEPT ![r] = Blank]
  /\ clearing' = [clearing EXCEPT ![r] = "map"]
  /\ UNCHANGED <<map, caches, elapsed, bridge, admitted, newest>>

\* Seeded fault: only one camera's entry is removed.
ClearMapOnce(r) ==
  /\ clearing[r] = "map"
  /\ clearing' = [clearing EXCEPT ![r] = "caches"]
  /\ \E c \in Cameras : map' = [map EXCEPT ![<<c, r>>] = "none"]
  /\ UNCHANGED <<phase, caches, elapsed, bridge, last, admitted, newest>>

\* TacticalStateStore.clear_run
ClearMap(r) ==
  /\ clearing[r] = "map"
  /\ clearing' = [clearing EXCEPT ![r] = "caches"]
  /\ map' = [k \in Cameras \X Runs |-> IF k[2] = r THEN "none" ELSE map[k]]
  /\ UNCHANGED <<phase, caches, elapsed, bridge, last, admitted, newest>>

\* MqttBridge.clear_run_cache
ClearCaches(r) ==
  /\ clearing[r] = "caches"
  /\ clearing' = [clearing EXCEPT ![r] = "done"]
  /\ caches' = [caches EXCEPT ![r] = Blank]
  /\ UNCHANGED <<phase, map, elapsed, bridge, last, admitted, newest>>

\* The transaction that records the files left behind raises, before the clearing.
DeletionRaises(r) ==
  /\ clearing[r] = "map"
  /\ clearing' = [clearing EXCEPT ![r] = "raised"]
  /\ UNCHANGED <<phase, map, caches, elapsed, bridge, last, admitted, newest>>

RunsElsewhere == RunsMove /\ UNCHANGED feedVars

-----------------------------------------------------------------------------
Next ==
  \/ \E r \in Runs, counts \in Reading : MetricArrives(r, counts)
  \/ MetricThrottled \/ MetricWritten \/ MetricRejected \/ IntervalPasses
  \/ \E c \in Cameras, r \in Runs : TacticalAccepted(c, r) \/ HttpUpdate(c, r)
  \/ TacticalUpdate
  \/ \E r \in Runs : DeleteCommit(r) \/ ClearMap(r) \/ ClearCaches(r) \/ DeletionRaises(r)
  \/ RunsElsewhere

Spec == Init /\ [][Next]_vars

-----------------------------------------------------------------------------
(* Correctness.                                                             *)

Cleared(r) == clearing[r] \in {"caches", "done"}
InHand(r) == bridge.at = "update" /\ bridge.run = r
OnMap(r) == {c \in Cameras : map[<<c, r>>] = "mqtt"}

\* What a deletion that clears the memory leaves behind of MQTT's positions is at most
\* the one that was in the network thread's hand when it committed, however many cameras
\* publish: every later one is refused by the policy.
LateUpdateIsOne ==
  \A r \in Runs : Cleared(r) =>
    \/ OnMap(r) = {}
    \/ ~InHand(r) /\ \E c \in Cameras : OnMap(r) = {c}

\* MQTT puts nothing on the live map whose run the policy has never accepted a payload of
\* (handle_tactical_payload: tactical state "must still respect run policy").
MapFedByPolicy == \A c \in Cameras, r \in Runs : map[<<c, r>>] = "mqtt" => r \in admitted

\* A deleted run has no metric row, whatever its late payloads have left in the caches.
NoRowOfDeleted == \A r \in Runs : phase[r] = "deleted" => last[r] = Blank

\* A row carries the newest count published for every zone of its own run, although
\* messages name some zones only, rows are throttled and the policy comes last.
RowIsComplete ==
  [][\A r \in Runs : last'[r] \notin {last[r], Blank} => last'[r] = newest[r]]_vars
=============================================================================
