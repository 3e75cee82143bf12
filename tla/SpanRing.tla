------------------------------ MODULE SpanRing ------------------------------
(***************************************************************************)
(* The span ring of the telemetry store and the index that makes a retried *)
(* agent span replace its earlier copy (internal/store: ringBuffer, and    *)
(* agent_spans.go).  A slot is a physical position of the items array; a   *)
(* cleared ring keeps its old items, as in Go.  A batch is stored one span *)
(* at a time under Store.mu: batch holds the spans still to be stored, and *)
(* every other operation waits until it is empty.                          *)
(***************************************************************************)
EXTENDS Integers, SequencesExt

CONSTANTS
  Keys,       \* agent span identities: (route, trace, span)
  Conns,      \* connection IDs
  Cap,        \* slots
  MaxRevision \* bound: ingestRevision

NoKey  == "nokey"   \* ordinary span, or an agent span with a malformed ID
NoConn == "none"

ASSUME RingAssumption ==
  /\ Cap \in Nat \ {0} /\ MaxRevision \in Nat
  /\ NoKey \notin Keys /\ NoConn \notin Conns

VARIABLES
  items,    \* slot -> span
  head,     \* next write position
  count,    \* spans retained
  index,    \* agentSpanIndex: key -> slot
  revision, \* spanIngestRevision
  batch,    \* the batch being stored: [agent, conn, keys]
  latest    \* history: key -> the newest agent receipt of it

rvars == <<items, head, count, index, revision, batch, latest>>

Slots  == 0..Cap-1
Owners == Conns \cup {NoConn}
Spans  == [agent : BOOLEAN, key : Keys \cup {NoKey}, conn : Owners,
           rev : 0..MaxRevision]
Blank  == [agent |-> FALSE, key |-> NoKey, conn |-> NoConn, rev |-> 0]

NoBatch == [agent |-> FALSE, conn |-> NoConn, keys |-> <<>>]

RingTypeOK ==
  /\ items \in [Slots -> Spans]
  /\ head \in Slots /\ count \in 0..Cap
  /\ DOMAIN index \subseteq Keys
  /\ \A k \in DOMAIN index : index[k] \in Slots
  /\ revision \in 0..MaxRevision
  /\ batch \in [agent : BOOLEAN, conn : Owners, keys : Seq(Keys \cup {NoKey})]
  /\ DOMAIN latest \subseteq Keys
  /\ \A k \in DOMAIN latest : latest[k] \in Spans

RingInit ==
  /\ items = [s \in Slots |-> Blank]
  /\ head = 0 /\ count = 0
  /\ index = <<>>
  /\ revision = 0
  /\ batch = NoBatch
  /\ latest = <<>>

\* Slot of the i-th oldest span, i \in 0..count-1.
Start == IF count = Cap THEN head ELSE 0
Slot(i) == (Start + i) % Cap
Live == {Slot(i) : i \in 0..count-1}

\* ringBuffer.snapshot: oldest first.
Snapshot == [i \in 1..count |-> items[Slot(i - 1)]]

Keyed(span) == span.agent /\ span.key # NoKey

Unset(f, k)  == [x \in DOMAIN f \ {k} |-> f[x]]
Set(f, k, v) == [x \in DOMAIN f \cup {k} |-> IF x = k THEN v ELSE f[x]]

\* Mutation: an overwritten span stays in the index.
NeverUnindexed == index

\* The index once the item at head is about to be overwritten.
Unindexed ==
  IF count = Cap /\ Keyed(items[head]) /\ items[head].key \in DOMAIN index
       /\ index[items[head].key] = head
    THEN Unset(index, items[head].key)
    ELSE index

PushSpan(span) ==
  /\ items' = [items EXCEPT ![head] = span]
  /\ head' = (head + 1) % Cap
  /\ count' = IF count < Cap THEN count + 1 ELSE count
  /\ index' = IF Keyed(span) THEN Set(Unindexed, span.key, head)
                             ELSE Unindexed

UpdateSpan(span) ==
  /\ items' = [items EXCEPT ![index[span.key]] = span]
  /\ UNCHANGED <<head, count, index>>

-----------------------------------------------------------------------------
\* The lock is free.
Unlocked == batch.keys = <<>>

\* AddSpansForConnection or AddAgentSpansForConnection takes the lock; after a
\* session gap it finds the ring emptied.  The identifiers of ordinary spans
\* play no part: they are never deduplicated.
AddBegin(agent, conn, keys, lapsed) ==
  /\ Unlocked
  /\ agent \/ ToSet(keys) = {NoKey}
  /\ keys # <<>> /\ revision + Len(keys) <= MaxRevision
  /\ batch' = [agent |-> agent, conn |-> conn, keys |-> keys]
  /\ IF lapsed THEN head' = 0 /\ count' = 0 /\ index' = <<>>
               ELSE UNCHANGED <<head, count, index>>
  /\ UNCHANGED <<items, revision, latest>>

Incoming == [agent |-> batch.agent, key |-> Head(batch.keys),
             conn |-> batch.conn, rev |-> revision + 1]

\* One span of the batch.
AddOne ==
  /\ ~Unlocked
  /\ revision < MaxRevision
  /\ IF Keyed(Incoming) /\ Incoming.key \in DOMAIN index
       THEN UpdateSpan(Incoming)
       ELSE PushSpan(Incoming)
  /\ revision' = revision + 1
  /\ latest' = IF Keyed(Incoming) THEN Set(latest, Incoming.key, Incoming)
                                  ELSE latest
  /\ batch' = IF Len(batch.keys) = 1 THEN NoBatch
              ELSE [batch EXCEPT !.keys = Tail(@)]

\* Mutation: only the count is reset.
ClearKeepingHead ==
  /\ Unlocked
  /\ count' = 0 /\ index' = <<>>
  /\ UNCHANGED <<items, head, revision, batch, latest>>

Clear ==
  /\ Unlocked
  /\ head' = 0 /\ count' = 0 /\ index' = <<>>
  /\ UNCHANGED <<items, revision, batch, latest>>

\* rebuildAgentSpanIndex over a ring just refilled from slot 0: the last
\* span of a key wins.
Reindexed(kept) ==
  LET last(k) == {i \in DOMAIN kept : Keyed(kept[i]) /\ kept[i].key = k}
      known   == {kept[i].key : i \in {j \in DOMAIN kept : Keyed(kept[j])}}
  IN  [k \in known |->
        (CHOOSE i \in last(k) : \A j \in last(k) : j <= i) - 1]

\* The places of the spans that an eviction leaves, and these spans in order:
\* the n-th is the one with n such places up to its own.
Staying(conn) == {i \in 1..count : Snapshot[i].conn # conn}
Nth(places, n) == CHOOSE i \in places : Cardinality({j \in places : j <= i}) = n
Kept(conn) == [n \in 1..Cardinality(Staying(conn)) |-> Snapshot[Nth(Staying(conn), n)]]

EvictConnection(conn) ==
  /\ Unlocked
  /\ LET kept == Kept(conn)
     IN  IF Staying(conn) = 1..count THEN UNCHANGED <<items, head, count, index>>
         ELSE /\ items' = [s \in Slots |-> IF s < Len(kept) THEN kept[s + 1]
                                                            ELSE items[s]]
              /\ count' = Len(kept)
              /\ head' = Len(kept) % Cap
              /\ index' = Reindexed(kept)
  /\ UNCHANGED <<revision, batch, latest>>

CONSTANT Batches  \* the key sequences a client may send
ASSUME BatchAssumption == Batches \subseteq Seq(Keys \cup {NoKey})

RingNext ==
  \/ \E agent \in BOOLEAN, conn \in Owners, keys \in Batches,
        lapsed \in BOOLEAN : AddBegin(agent, conn, keys, lapsed)
  \/ AddOne
  \/ Clear
  \/ \E conn \in Conns : EvictConnection(conn)

RingSpec == RingInit /\ [][RingNext]_rvars

-----------------------------------------------------------------------------
(* Properties *)

\* agent_spans.go:66, "keeps AO retry identity aligned with physical ring
\* overwrites": the index names exactly the live agent spans, each at the slot
\* that holds it, through wrap-around, compaction and reset.  A stale entry
\* would make a retry overwrite a stranger's span; a missing one would retain
\* the same agent span twice.
IndexMatchesRing ==
  /\ \A k \in DOMAIN index :
       index[k] \in Live /\ Keyed(items[index[k]]) /\ items[index[k]].key = k
  /\ \A s \in Live :
       Keyed(items[s]) => items[s].key \in DOMAIN index
                          /\ index[items[s].key] = s

\* agent_spans.go:20-23: the retained copy of an agent span is the one of its
\* latest receipt, owner included, so that closing an earlier connection
\* cannot remove a replay received by the current one.
RetainedCopyIsLatest ==
  \A s \in Live : Keyed(items[s]) => items[s] = latest[items[s].key]

SameAgentSpan(x, y) == Keyed(x) /\ Keyed(y) /\ x.key = y.key

Log == INSTANCE SpanLog WITH log <- Snapshot

\* The index names exactly the live agent spans, and each is the latest receipt
\* of its identity (pushSpanWithAgentIndex, rebuildAgentSpanIndex).
IndexIsExact == RingTypeOK /\ IndexMatchesRing /\ RetainedCopyIsLatest

\* Seen through snapshot(), the ring is the plain bounded log: slots, the
\* wrapped head and the index never lose, duplicate or reorder a span.
RingIsALog == Log!LogSpec
=============================================================================
