--------------------------- MODULE TelemetryStore ---------------------------
(***************************************************************************)
(* The in-memory telemetry store (internal/store/store.go): one bounded    *)
(* ring per signal, the session clock that empties the store after a long  *)
(* silence, and removal of one connection's records.  Each operation below *)
(* is one critical section of Store.mu; the callbacks it owes its caller   *)
(* are returned by the operators Changes and Owned and are run later,      *)
(* outside the lock (module Validation).                                   *)
(*                                                                         *)
(* A record is the instant of its ingest, the connection that owns it and  *)
(* whether it is application telemetry or one of the observer's own logs.  *)
(* Instants are distinct and records are pushed in their order, so a ring  *)
(* is the set of its records; its slots are the subject of SpanRing.       *)
(***************************************************************************)
EXTENDS Naturals, FiniteSets

CONSTANTS
  Signals,   \* the rings: a subset of {"spans", "metrics", "logs"}
  Cap,       \* the capacity of each ring
  Conns      \* the connection IDs that can own a record

NoConn == "none"

ASSUME CapAssumption  == Cap \in Nat \ {0}
ASSUME ConnAssumption == NoConn \notin Conns

VARIABLES
  rings,      \* signal -> set of retained records
  lastIngest  \* time of the last application ingest; 0 when reset

tstore == <<rings, lastIngest>>

EmptyRings == [s \in Signals |-> {}]

TStoreInit == rings = EmptyRings /\ lastIngest = 0

\* The record a push into the ring overwrites, as a set of at most one.
Overwritten(ring) ==
  {rec \in ring : Cardinality(ring) = Cap /\ \A x \in ring : rec.at <= x.at}

\* ringBuffer.push: the oldest record makes room for the new one.
Push(ring, rec) == (ring \ Overwritten(ring)) \cup {rec}

\* Rings as ingest finds them: emptied first when the session has lapsed.
Before(lapsed) == IF lapsed THEN EmptyRings ELSE rings

\* A silence longer than sessionGap lies between lastIngest and this ingest.
\* Any two steps may be that far apart, so it is a free choice whenever the
\* session clock is set.
MayLapse(app) == app /\ lastIngest # 0

\* Whether an ingest must report a change of application telemetry: internal
\* logs do so only when they overwrite an application record.
Changes(sig, app, lapsed) ==
  app \/ \E rec \in Overwritten(Before(lapsed)[sig]) : rec.app

Ingest(sig, rec, lapsed) ==
  /\ rings' = [Before(lapsed) EXCEPT ![sig] = Push(@, rec)]
  /\ lastIngest' = IF rec.app THEN rec.at ELSE lastIngest

ClearTelemetry == rings' = EmptyRings /\ lastIngest' = 0

Retained == UNION {rings[s] : s \in Signals}

Owned(conn) == {rec \in Retained : rec.conn = conn}

EvictConnection(conn) ==
  /\ rings' = [s \in Signals |-> rings[s] \ Owned(conn)]
  /\ lastIngest' = IF rings' = EmptyRings THEN 0 ELSE lastIngest

\* SnapshotTelemetry: every retained application record, by its stamp.
AppStamps == {rec.at : rec \in {x \in Retained : x.app}}
=============================================================================
