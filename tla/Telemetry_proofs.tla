-------------------------- MODULE Telemetry_proofs --------------------------
(***************************************************************************)
(* Theorems about the modules SpanRing and LivePush, for every capacity of *)
(* the ring and its identities, and for every set of signals, capacity of  *)
(* a subscriber's channel and number of timer callbacks.                   *)
(***************************************************************************)
EXTENDS SpanRing, LivePush, FiniteSetTheorems, SequenceTheorems, TLAPS

-----------------------------------------------------------------------------
(* The span ring.  While the ring is not full, the next write goes behind  *)
(* the retained spans; once it is, to the oldest of them.                  *)

RingShape == count < Cap => head = count

\* What is in the index has been received.
IndexedWereReceived == DOMAIN index \subseteq DOMAIN latest

RingInv ==
  /\ RingTypeOK /\ RingShape /\ IndexedWereReceived
  /\ IndexMatchesRing /\ RetainedCopyIsLatest

LEMMA Wrap ==
  ASSUME NEW n \in Nat, n < 2 * Cap
  PROVE  n % Cap = IF n < Cap THEN n ELSE n - Cap
<1>1. Cap \in Nat \ {0}
  BY RingAssumption
<1>2. CASE n < Cap
  BY <1>1, <1>2
<1>3. ASSUME NEW m \in Nat, m < Cap PROVE (m + Cap) % Cap = m
  BY <1>1, <1>3
<1>4. CASE n >= Cap
  <2>1. n - Cap \in Nat /\ n - Cap < Cap /\ (n - Cap) + Cap = n
    BY <1>1, <1>4
  <2>2. n % Cap = n - Cap
    BY <1>3, <2>1
  <2> QED
    BY <1>1, <1>4, <2>2
<1> QED
  BY <1>1, <1>2, <1>4

LEMMA WrapSum ==
  ASSUME NEW a \in Nat, NEW b \in Nat, a < Cap, b < Cap
  PROVE  (a + b) % Cap = IF a + b < Cap THEN a + b ELSE a + b - Cap
<1>1. a + b \in Nat /\ a + b < 2 * Cap /\ Cap \in Nat \ {0}
  BY RingAssumption
<1>2. \A n \in Nat : n < 2 * Cap => (n % Cap = IF n < Cap THEN n ELSE n - Cap)
  BY Wrap
<1>3. PICK n \in Nat : n = a + b
  BY <1>1
<1>4. n < 2 * Cap
  BY <1>1, <1>3
<1>5. n % Cap = IF n < Cap THEN n ELSE n - Cap
  BY <1>2, <1>4
<1> QED
  BY <1>1, <1>3, <1>5

LEMMA NextWrite ==
  ASSUME NEW h \in Slots
  PROVE  (h + 1) % Cap = IF h + 1 < Cap THEN h + 1 ELSE 0
<1>1. h \in Nat /\ h < Cap /\ h + 1 \in Nat /\ h + 1 < 2 * Cap /\ Cap \in Nat \ {0}
  BY RingAssumption DEF Slots
<1>2. PICK n \in Nat : n = h + 1
  BY <1>1
<1>3. n % Cap = IF n < Cap THEN n ELSE n - Cap
  BY <1>1, <1>2, Wrap
<1> QED
  BY <1>1, <1>2, <1>3

\* Where the i-th oldest span is, for a head h and a count c; so it can be said
\* of this state and of the next.
SlotOf(h, c, i) == ((IF c = Cap THEN h ELSE 0) + i) % Cap
LiveOf(h, c) == {SlotOf(h, c, i) : i \in 0..c-1}

LEMMA RingCounts ==
  ASSUME NEW h \in Slots, NEW c \in 0..Cap
  PROVE  /\ Cap \in Nat \ {0} /\ h \in Nat /\ h < Cap /\ c \in Nat /\ c <= Cap
         /\ Slots = 0..Cap-1
  BY RingAssumption DEF Slots

LEMMA SlotOfIs ==
  ASSUME NEW h \in Slots, NEW c \in 0..Cap, NEW i \in 0..c-1
  PROVE  /\ c < Cap => SlotOf(h, c, i) = i
         /\ c = Cap => SlotOf(h, c, i) = IF h + i < Cap THEN h + i ELSE h + i - Cap
<1>1. CASE c = Cap
  <2>1. h \in Nat /\ i \in Nat /\ h < Cap /\ i < Cap
    BY <1>1, RingCounts
  <2>2. SlotOf(h, c, i) = (h + i) % Cap
    BY <1>1 DEF SlotOf
  <2>3. SlotOf(h, c, i) = IF h + i < Cap THEN h + i ELSE h + i - Cap
    BY <2>1, <2>2, WrapSum
  <2>4. ~(c < Cap)
    BY <1>1, RingCounts
  <2> QED
    BY <2>3, <2>4
<1>2. CASE c < Cap
  <2>1. SlotOf(h, c, i) = (0 + i) % Cap
    BY <1>2 DEF SlotOf
  <2>2. i \in Nat /\ i < Cap /\ 0 + i = i /\ Cap \in Nat \ {0}
    BY <1>2, RingCounts
  <2>3. SlotOf(h, c, i) = i
    BY <2>1, <2>2, Wrap
  <2> QED
    BY <1>2, <2>3
<1> QED
  BY <1>1, <1>2, RingCounts

LEMMA SlotsAreDistinct ==
  ASSUME NEW h \in Slots, NEW c \in 0..Cap
  PROVE  /\ \A i \in 0..c-1 : SlotOf(h, c, i) \in Slots
         /\ \A i, j \in 0..c-1 : SlotOf(h, c, i) = SlotOf(h, c, j) => i = j
<1>1. CASE c < Cap
  <2>1. \A i \in 0..c-1 : SlotOf(h, c, i) = i
    BY <1>1, SlotOfIs
  <2> QED
    BY <1>1, <2>1, RingCounts
<1>2. CASE c = Cap
  <2>1. \A i \in 0..c-1 :
          SlotOf(h, c, i) = IF h + i < Cap THEN h + i ELSE h + i - Cap
    BY <1>2, SlotOfIs
  <2>2. Cap \in Nat \ {0} /\ h \in Nat /\ h < Cap /\ Slots = 0..Cap-1
    BY RingCounts
  <2>3. ASSUME NEW i \in 0..c-1 PROVE SlotOf(h, c, i) \in Slots
    BY <1>2, <2>1, <2>2
  <2>4. ASSUME NEW i \in 0..c-1, NEW j \in 0..c-1,
               SlotOf(h, c, i) = SlotOf(h, c, j)
        PROVE  i = j
    <3>1. /\ SlotOf(h, c, i) = IF h + i < Cap THEN h + i ELSE h + i - Cap
          /\ SlotOf(h, c, j) = IF h + j < Cap THEN h + j ELSE h + j - Cap
      BY <2>1
    <3>2. i \in Nat /\ j \in Nat /\ i < Cap /\ j < Cap
      BY <1>2, <2>2
    <3>3. PICK s : s = SlotOf(h, c, i)
      OBVIOUS
    <3>4. /\ s = IF h + i < Cap THEN h + i ELSE h + i - Cap
          /\ s = IF h + j < Cap THEN h + j ELSE h + j - Cap
      BY <2>4, <3>1, <3>3
    <3> QED
      BY <2>2, <3>2, <3>4
  <2> QED
    BY <2>3, <2>4
<1> QED
  BY <1>1, <1>2, RingCounts

\* Which slots are live.
LEMMA LiveOfIs ==
  ASSUME NEW h \in Slots, NEW c \in 0..Cap
  PROVE  LiveOf(h, c) = IF c = Cap THEN Slots ELSE 0..c-1
<1>1. CASE c < Cap
  <2>1. \A i \in 0..c-1 : SlotOf(h, c, i) = i
    BY <1>1, SlotOfIs
  <2> QED
    BY <1>1, <2>1 DEF LiveOf
<1>2. CASE c = Cap
  <2>1. LiveOf(h, c) \subseteq Slots
    BY SlotsAreDistinct DEF LiveOf
  <2>2. ASSUME NEW s \in Slots PROVE s \in LiveOf(h, c)
    <3> DEFINE i == IF s >= h THEN s - h ELSE s + Cap - h
    <3>1. i \in 0..c-1 /\ (h + i = s \/ h + i = s + Cap) /\ s < Cap /\ s \in Nat
      BY <1>2, RingCounts
    <3> HIDE DEF i
    <3>2. SlotOf(h, c, i) = IF h + i < Cap THEN h + i ELSE h + i - Cap
      BY <1>2, <3>1, SlotOfIs
    <3>3. SlotOf(h, c, i) = s
      <4>1. Cap \in Nat /\ h \in Nat /\ i \in Nat /\ i < Cap
        BY <1>2, <3>1, RingCounts
      <4> QED
        BY <3>1, <3>2, <4>1
    <3> QED
      BY <3>1, <3>3 DEF LiveOf
  <2> QED
    BY <1>2, <2>1, <2>2
<1> QED
  BY <1>1, <1>2, RingCounts

LEMMA LiveIs ==
  ASSUME RingTypeOK
  PROVE  Live = IF count = Cap THEN Slots ELSE 0..count-1
<1>1. Live = LiveOf(head, count)
  BY DEF Live, Slot, Start, LiveOf, SlotOf
<1> QED
  BY <1>1, LiveOfIs DEF RingTypeOK

\* A span that is added is well formed.
LEMMA IncomingIsSpan ==
  ASSUME RingTypeOK, ~Unlocked, revision < MaxRevision
  PROVE  /\ Incoming \in Spans
         /\ Keyed(Incoming) => Incoming.key \in Keys
         /\ revision + 1 \in 0..MaxRevision
<1>1. batch.keys \in Seq(Keys \cup {NoKey}) /\ batch.keys # <<>>
  BY DEF RingTypeOK, Unlocked
<1>2. Head(batch.keys) \in Keys \cup {NoKey}
  BY <1>1
<1>3. revision + 1 \in 0..MaxRevision
  BY RingAssumption DEF RingTypeOK
<1>4. batch.agent \in BOOLEAN /\ batch.conn \in Owners
  BY DEF RingTypeOK
<1> QED
  BY <1>2, <1>3, <1>4 DEF Incoming, Spans, Keyed

\* What overwriting leaves of the index: nothing that points to the head.
LEMMA UnindexedIs ==
  ASSUME RingInv
  PROVE  /\ DOMAIN Unindexed \subseteq DOMAIN index
         /\ \A k \in DOMAIN Unindexed : Unindexed[k] = index[k] /\ index[k] # head
         /\ \A k \in DOMAIN index : index[k] # head => k \in DOMAIN Unindexed
<1>1. /\ Cap \in Nat \ {0} /\ head \in 0..Cap-1 /\ count \in 0..Cap
  BY RingAssumption DEF RingInv, RingTypeOK, Slots
<1>2. ASSUME NEW k \in DOMAIN index, index[k] = head
      PROVE  count = Cap /\ Keyed(items[head]) /\ items[head].key = k
  <2>1. head \in Live /\ Keyed(items[head]) /\ items[head].key = k
    BY <1>2 DEF RingInv, IndexMatchesRing
  <2>2. count = Cap
    BY <1>1, <2>1, LiveIs DEF RingInv, RingShape
  <2> QED
    BY <2>1, <2>2
<1>3. CASE count = Cap /\ Keyed(items[head]) /\ items[head].key \in DOMAIN index
           /\ index[items[head].key] = head
  <2>1. Unindexed = [x \in DOMAIN index \ {items[head].key} |-> index[x]]
    BY <1>3 DEF Unindexed, Unset
  <2> QED
    BY <1>2, <1>3, <2>1
<1>4. CASE ~(count = Cap /\ Keyed(items[head]) /\ items[head].key \in DOMAIN index
             /\ index[items[head].key] = head)
  <2>1. Unindexed = index
    BY <1>4 DEF Unindexed
  <2> QED
    BY <1>2, <1>4, <2>1
<1> QED
  BY <1>3, <1>4

\* A span that is stored in a slot of its own.
LEMMA PushKeeps ==
  ASSUME RingInv, NEW span \in Spans, PushSpan(span),
         Keyed(span) => span.key \in Keys /\ span.key \notin DOMAIN index,
         latest' = IF Keyed(span) THEN Set(latest, span.key, span) ELSE latest
  PROVE  /\ items' \in [Slots -> Spans] /\ head' \in Slots /\ count' \in 0..Cap
         /\ DOMAIN index' \subseteq Keys /\ \A k \in DOMAIN index' : index'[k] \in Slots
         /\ RingShape' /\ IndexedWereReceived' /\ IndexMatchesRing' /\ RetainedCopyIsLatest'
<1>1. /\ Cap \in Nat \ {0} /\ head \in 0..Cap-1 /\ head \in Slots /\ count \in 0..Cap
      /\ items \in [Slots -> Spans] /\ DOMAIN index \subseteq Keys
      /\ \A k \in DOMAIN index : index[k] \in Slots
  BY RingAssumption DEF RingInv, RingTypeOK, Slots
<1>2. /\ items' = [items EXCEPT ![head] = span] /\ head' = (head + 1) % Cap
      /\ count' = IF count < Cap THEN count + 1 ELSE count
      /\ index' = IF Keyed(span) THEN Set(Unindexed, span.key, head) ELSE Unindexed
  BY DEF PushSpan
<1>3. head' = IF head + 1 < Cap THEN head + 1 ELSE 0
  BY <1>1, <1>2, NextWrite
<1>4. /\ items' \in [Slots -> Spans] /\ head' \in Slots /\ count' \in 0..Cap
      /\ items'[head] = span /\ \A s \in Slots : s # head => items'[s] = items[s]
  BY <1>1, <1>2, <1>3 DEF Slots
<1>5. RingShape'
  BY <1>1, <1>2, <1>3 DEF RingInv, RingShape
<1>6. Live' = Live \cup {head}
  <2>1. Live = IF count = Cap THEN Slots ELSE 0..count-1
    BY LiveIs DEF RingInv
  <2>2. Live' = LiveOf(head', count')
    BY DEF Live, Slot, Start, LiveOf, SlotOf
  <2>3. Live' = IF count' = Cap THEN Slots ELSE 0..count'-1
    BY <1>4, <2>2, LiveOfIs
  <2>4. count < Cap => head = count
    BY DEF RingInv, RingShape
  <2> QED
    BY <1>1, <1>2, <2>1, <2>3, <2>4 DEF Slots
<1>7. /\ DOMAIN Unindexed \subseteq DOMAIN index
      /\ \A k \in DOMAIN Unindexed : Unindexed[k] = index[k] /\ index[k] # head
      /\ \A k \in DOMAIN index : index[k] # head => k \in DOMAIN Unindexed
  BY UnindexedIs
<1> HIDE DEF Unindexed
<1>8. /\ \A k \in DOMAIN index' :
           \/ k \in DOMAIN Unindexed /\ index'[k] = index[k]
           \/ Keyed(span) /\ k = span.key /\ index'[k] = head
      /\ \A k \in DOMAIN Unindexed : k \in DOMAIN index' /\ index'[k] = index[k]
      /\ Keyed(span) => span.key \in DOMAIN index' /\ index'[span.key] = head
  <2>1. CASE Keyed(span)
    <3>1. index' = [x \in DOMAIN Unindexed \cup {span.key} |->
                      IF x = span.key THEN head ELSE Unindexed[x]]
      BY <1>2, <2>1 DEF Set
    <3>2. span.key \notin DOMAIN Unindexed
      BY <1>7, <2>1
    <3> QED
      BY <1>7, <2>1, <3>1, <3>2
  <2>2. CASE ~Keyed(span)
    BY <1>2, <1>7, <2>2
  <2> QED
    BY <2>1, <2>2
<1>9. DOMAIN index' \subseteq Keys /\ \A k \in DOMAIN index' : index'[k] \in Slots
  BY <1>1, <1>7, <1>8
<1>10. \A s \in Live : s \in Slots
  BY LiveIs, <1>1 DEF RingInv, Slots
<1>11. IndexMatchesRing'
  <2>1. ASSUME NEW k \in DOMAIN index'
        PROVE  index'[k] \in Live' /\ Keyed(items'[index'[k]])
               /\ items'[index'[k]].key = k
    <3>1. CASE Keyed(span) /\ k = span.key /\ index'[k] = head
      BY <1>4, <1>6, <3>1
    <3>2. CASE k \in DOMAIN Unindexed /\ index'[k] = index[k]
      <4>1. /\ index[k] \in Live /\ index[k] # head
            /\ Keyed(items[index[k]]) /\ items[index[k]].key = k
        BY <1>7, <3>2 DEF RingInv, IndexMatchesRing
      <4>2. items'[index[k]] = items[index[k]]
        BY <1>4, <1>10, <4>1
      <4> QED
        BY <1>6, <3>2, <4>1, <4>2
    <3> QED
      BY <1>8, <3>1, <3>2
  <2>2. ASSUME NEW s \in Live', Keyed(items'[s])
        PROVE  items'[s].key \in DOMAIN index' /\ index'[items'[s].key] = s
    <3>1. CASE s = head
      BY <1>4, <1>8, <2>2, <3>1
    <3>2. CASE s # head
      <4>1. s \in Live /\ items'[s] = items[s]
        BY <1>4, <1>6, <1>10, <3>2
      <4>2. items[s].key \in DOMAIN index /\ index[items[s].key] = s
        BY <2>2, <4>1 DEF RingInv, IndexMatchesRing
      <4> QED
        BY <1>7, <1>8, <3>2, <4>1, <4>2
    <3> QED
      BY <3>1, <3>2
  <2> QED
    BY <2>1, <2>2 DEF IndexMatchesRing
<1>12. RetainedCopyIsLatest'
  <2> SUFFICES ASSUME NEW s \in Live', Keyed(items'[s])
               PROVE  items'[s] = latest'[items'[s].key]
    BY DEF RetainedCopyIsLatest
  <2>1. CASE s = head
    BY <1>4, <2>1 DEF Set
  <2>2. CASE s # head
    <3>1. s \in Live /\ items'[s] = items[s]
      BY <1>4, <1>6, <1>10, <2>2
    <3>2. items[s] = latest[items[s].key] /\ items[s].key \in DOMAIN index
      BY <3>1 DEF RingInv, IndexMatchesRing, RetainedCopyIsLatest
    <3>3. items[s].key \in DOMAIN latest
      BY <3>2 DEF RingInv, IndexedWereReceived
    <3> QED
      BY <3>1, <3>2, <3>3 DEF Set
  <2> QED
    BY <2>1, <2>2
<1>13. IndexedWereReceived'
  BY <1>7, <1>8 DEF RingInv, IndexedWereReceived, Set
<1> QED
  BY <1>4, <1>5, <1>9, <1>11, <1>12, <1>13

\* A span that takes the place of an earlier receipt.
LEMMA UpdateKeeps ==
  ASSUME RingInv, NEW span \in Spans, UpdateSpan(span), Keyed(span),
         span.key \in DOMAIN index, latest' = Set(latest, span.key, span)
  PROVE  /\ items' \in [Slots -> Spans]
         /\ RingShape' /\ IndexedWereReceived' /\ IndexMatchesRing' /\ RetainedCopyIsLatest'
<1> DEFINE p == index[span.key]
<1>1. /\ items' = [items EXCEPT ![p] = span] /\ UNCHANGED <<head, count, index>>
      /\ items \in [Slots -> Spans] /\ p \in Slots
  BY DEF UpdateSpan, RingInv, RingTypeOK
<1>2. /\ items' \in [Slots -> Spans] /\ items'[p] = span
      /\ \A s \in Slots : s # p => items'[s] = items[s]
  BY <1>1
<1>3. Live' = Live /\ \A s \in Live : s \in Slots
  <2>1. Live' = Live
    BY <1>1 DEF Live, Slot, Start
  <2> QED
    BY <2>1, LiveIs, RingCounts DEF RingInv, RingTypeOK
<1>4. p \in Live /\ items[p].key = span.key /\ Keyed(items[p])
  BY DEF RingInv, IndexMatchesRing
<1>5. IndexMatchesRing'
  BY <1>1, <1>2, <1>3, <1>4 DEF RingInv, IndexMatchesRing
<1>6. RetainedCopyIsLatest'
  <2> SUFFICES ASSUME NEW s \in Live, Keyed(items'[s])
               PROVE  items'[s] = latest'[items'[s].key]
    BY <1>3 DEF RetainedCopyIsLatest
  <2>1. CASE s = p
    BY <1>2, <2>1 DEF Set
  <2>2. CASE s # p
    <3>1. items'[s] = items[s]
      BY <1>2, <1>3, <2>2
    <3>2. items[s] = latest[items[s].key] /\ items[s].key # span.key
          /\ items[s].key \in DOMAIN latest
      BY <1>4, <2>2, <3>1
         DEF RingInv, IndexMatchesRing, RetainedCopyIsLatest, IndexedWereReceived
    <3> QED
      BY <3>1, <3>2 DEF Set
  <2> QED
    BY <2>1, <2>2
<1>7. RingShape' /\ IndexedWereReceived'
  BY <1>1 DEF RingInv, RingShape, IndexedWereReceived, Set
<1> QED
  BY <1>2, <1>5, <1>6, <1>7

LEMMA AddOneKeeps ==
  ASSUME RingInv, AddOne
  PROVE  RingInv'
<1>1. /\ ~Unlocked /\ revision < MaxRevision /\ revision' = revision + 1
      /\ latest' = IF Keyed(Incoming) THEN Set(latest, Incoming.key, Incoming) ELSE latest
      /\ batch' = IF Len(batch.keys) = 1 THEN NoBatch ELSE [batch EXCEPT !.keys = Tail(@)]
  BY DEF AddOne
<1>2. /\ Incoming \in Spans /\ (Keyed(Incoming) => Incoming.key \in Keys)
      /\ revision' \in 0..MaxRevision
  BY <1>1, IncomingIsSpan DEF RingInv
<1>3. batch' \in [agent : BOOLEAN, conn : Owners, keys : Seq(Keys \cup {NoKey})]
  <2>1. batch.keys \in Seq(Keys \cup {NoKey}) /\ batch.keys # <<>>
    BY <1>1 DEF RingInv, RingTypeOK, Unlocked
  <2>2. Tail(batch.keys) \in Seq(Keys \cup {NoKey})
    BY <2>1
  <2>3. CASE batch' = NoBatch
    <3>1. <<>> \in Seq(Keys \cup {NoKey})
      OBVIOUS
    <3> QED
      BY <2>3, <3>1 DEF NoBatch, Owners
  <2>4. CASE batch' = [batch EXCEPT !.keys = Tail(batch.keys)]
    BY <2>2, <2>4 DEF RingInv, RingTypeOK
  <2> QED
    BY <1>1, <2>3, <2>4
<1>4. DOMAIN latest' \subseteq Keys /\ \A k \in DOMAIN latest' : latest'[k] \in Spans
  BY <1>1, <1>2 DEF RingInv, RingTypeOK, Set
<1> HIDE DEF Incoming
<1>5. CASE Keyed(Incoming) /\ Incoming.key \in DOMAIN index
  <2>1. UpdateSpan(Incoming)
    BY <1>5 DEF AddOne
  <2>2. /\ items' \in [Slots -> Spans]
        /\ RingShape' /\ IndexedWereReceived' /\ IndexMatchesRing' /\ RetainedCopyIsLatest'
    BY <1>1, <1>2, <1>5, <2>1, UpdateKeeps
  <2>3. UNCHANGED <<head, count, index>>
    BY <2>1 DEF UpdateSpan
  <2> QED
    BY <1>2, <1>3, <1>4, <2>2, <2>3 DEF RingInv, RingTypeOK
<1>6. CASE ~(Keyed(Incoming) /\ Incoming.key \in DOMAIN index)
  <2>1. PushSpan(Incoming)
    BY <1>6 DEF AddOne
  <2> QED
    BY <1>1, <1>2, <1>3, <1>4, <1>6, <2>1, PushKeeps DEF RingInv, RingTypeOK
<1> QED
  BY <1>5, <1>6

\* What an eviction leaves: the places that stay keep their order, and the
\* rank of a place among them counts from the oldest.
Rank(places, i) == Cardinality({j \in places : j <= i})

LEMMA Ranks ==
  ASSUME NEW n \in Nat, NEW places \in SUBSET (1..n)
  PROVE  /\ IsFiniteSet(places) /\ Cardinality(places) \in Nat
         /\ Cardinality(places) <= n
         /\ places # 1..n => Cardinality(places) < n
         /\ \A i \in places : Rank(places, i) \in 1..Cardinality(places)
         /\ \A i, j \in places : i < j => Rank(places, i) < Rank(places, j)
<1>1. IsFiniteSet(1..n) /\ Cardinality(1..n) = n
  BY FS_Interval
<1>2. /\ IsFiniteSet(places) /\ Cardinality(places) <= Cardinality(1..n)
      /\ Cardinality(1..n) = Cardinality(places) => 1..n = places
  BY <1>1, FS_Subset
<1>3. Cardinality(places) \in Nat
  BY <1>2, FS_CardinalityType
<1>4. ASSUME NEW i \in places
      PROVE  /\ IsFiniteSet({j \in places : j <= i})
             /\ Rank(places, i) \in Nat /\ Rank(places, i) >= 1
             /\ Rank(places, i) <= Cardinality(places)
  <2>1. {j \in places : j <= i} \in SUBSET places
    OBVIOUS
  <2>2. /\ IsFiniteSet({j \in places : j <= i})
        /\ Rank(places, i) <= Cardinality(places)
    BY <1>2, <2>1, FS_Subset DEF Rank
  <2>3. Rank(places, i) \in Nat
    BY <2>2, FS_CardinalityType DEF Rank
  <2>4. i \in {j \in places : j <= i}
    OBVIOUS
  <2>5. Rank(places, i) # 0
    BY <2>2, <2>4, FS_EmptySet DEF Rank
  <2> QED
    BY <2>2, <2>3, <2>5
<1>5. ASSUME NEW i \in places, NEW j \in places, i < j
      PROVE  Rank(places, i) < Rank(places, j)
  <2> DEFINE low == {m \in places : m <= i}
             upto == {m \in places : m <= j}
  <2>1. i \in Nat /\ j \in Nat /\ \A m \in places : m \in Nat
    OBVIOUS
  <2>2. low \in SUBSET upto
    <3>1. \A m \in places : m <= i => m <= j
      BY <1>5, <2>1
    <3> QED
      BY <3>1
  <2>3. j \in upto /\ j \notin low
    BY <1>5, <2>1
  <2>4. /\ Cardinality(low) <= Cardinality(upto)
        /\ Cardinality(upto) = Cardinality(low) => upto = low
    BY <1>4, <2>2, FS_Subset
  <2>5. /\ Rank(places, i) = Cardinality(low) /\ Rank(places, j) = Cardinality(upto)
        /\ Rank(places, i) \in Nat /\ Rank(places, j) \in Nat
    BY <1>4 DEF Rank
  <2> HIDE DEF low, upto
  <2> QED
    BY <2>3, <2>4, <2>5
<1>6. Cardinality(places) <= n
  BY <1>1, <1>2
<1>7. places # 1..n => Cardinality(places) < n
  <2>1. places # 1..n => Cardinality(places) # n
    BY <1>1, <1>2
  <2> QED
    BY <1>3, <1>6, <2>1
<1>8. ASSUME NEW i \in places PROVE Rank(places, i) \in 1..Cardinality(places)
  <2>1. /\ Rank(places, i) \in Nat /\ Rank(places, i) >= 1
        /\ Rank(places, i) <= Cardinality(places)
    BY <1>4
  <2> QED
    BY <1>3, <2>1
<1> QED
  BY <1>2, <1>3, <1>5, <1>6, <1>7, <1>8

LEMMA NthIs ==
  ASSUME NEW n \in Nat, NEW places \in SUBSET (1..n)
  PROVE  /\ \A m \in 1..Cardinality(places) : Nth(places, m) \in places
         /\ \A l, m \in 1..Cardinality(places) :
              l < m => Nth(places, l) < Nth(places, m)
         /\ \A i \in places : \E m \in 1..Cardinality(places) : Nth(places, m) = i
<1> DEFINE size == Cardinality(places)
           f == [i \in places |-> Rank(places, i)]
<1>1. /\ IsFiniteSet(places) /\ size \in Nat /\ \A i \in places : i \in Nat
      /\ \A i \in places : Rank(places, i) \in 1..size
      /\ \A i, j \in places : i < j => Rank(places, i) < Rank(places, j)
  <2>1. \A i \in places : i \in Nat
    OBVIOUS
  <2> QED
    BY <2>1, Ranks
<1>2. \A i, j \in places : Rank(places, i) = Rank(places, j) => i = j
  BY <1>1
<1>3. f \in Injection(places, 1..size)
  BY <1>1, <1>2 DEF Injection, IsInjective
<1>4. IsFiniteSet(1..size) /\ Cardinality(1..size) = size
  BY <1>1, FS_Interval
<1>5. f \in Surjection(places, 1..size)
  BY <1>3, <1>4, FS_Injection
<1>6. ASSUME NEW m \in 1..size
      PROVE  Nth(places, m) \in places /\ Rank(places, Nth(places, m)) = m
  <2>1. \E i \in places : Rank(places, i) = m
    BY <1>5 DEF Surjection
  <2> QED
    BY <2>1 DEF Nth, Rank
<1>7. ASSUME NEW l \in 1..size, NEW m \in 1..size, l < m
      PROVE  Nth(places, l) < Nth(places, m)
  <2>1. PICK i \in places : i = Nth(places, l) /\ Rank(places, i) = l
    BY <1>6
  <2>2. PICK j \in places : j = Nth(places, m) /\ Rank(places, j) = m
    BY <1>6
  <2>3. ~(j < i) /\ i # j
    BY <1>1, <1>7, <2>1, <2>2
  <2> QED
    BY <1>1, <2>1, <2>2, <2>3
<1>8. ASSUME NEW i \in places PROVE \E m \in 1..size : Nth(places, m) = i
  <2>1. Rank(places, i) \in 1..size
    BY <1>1
  <2>2. Nth(places, Rank(places, i)) = i
    BY <1>2, <1>6, <2>1
  <2> QED
    BY <2>1, <2>2
<1> QED
  BY <1>6, <1>7, <1>8

\* The index rebuilt over spans no two of which have the same key.
LEMMA ReindexedIs ==
  ASSUME NEW c \in Nat, NEW kept, DOMAIN kept = 1..c,
         \A i, j \in 1..c : Keyed(kept[i]) /\ Keyed(kept[j])
                            /\ kept[i].key = kept[j].key => i = j
  PROVE  /\ \A i \in 1..c : Keyed(kept[i]) =>
              kept[i].key \in DOMAIN Reindexed(kept)
              /\ Reindexed(kept)[kept[i].key] = i - 1
         /\ \A k \in DOMAIN Reindexed(kept) :
              \E i \in 1..c : Keyed(kept[i]) /\ kept[i].key = k
<1> DEFINE last(k) == {i \in DOMAIN kept : Keyed(kept[i]) /\ kept[i].key = k}
           known == {kept[i].key : i \in {j \in DOMAIN kept : Keyed(kept[j])}}
<1>1. Reindexed(kept) = [k \in known |->
                           (CHOOSE i \in last(k) : \A j \in last(k) : j <= i) - 1]
  BY DEF Reindexed
<1>2. ASSUME NEW i \in 1..c, Keyed(kept[i])
      PROVE  Reindexed(kept)[kept[i].key] = i - 1
  <2>1. last(kept[i].key) = {i}
    BY <1>2
  <2>2. kept[i].key \in known
    BY <1>2
  <2> HIDE DEF last, known
  <2>3. i \in {i} /\ \A j \in {i} : j <= i
    OBVIOUS
  <2>4. (CHOOSE m \in {i} : \A j \in {i} : j <= m) = i
    BY <2>3
  <2>5. \A k \in known : Reindexed(kept)[k] =
            (CHOOSE m \in last(k) : \A j \in last(k) : j <= m) - 1
    BY <1>1
  <2>6. Reindexed(kept)[kept[i].key] =
          (CHOOSE m \in last(kept[i].key) : \A j \in last(kept[i].key) : j <= m) - 1
    BY <2>2, <2>5
  <2> QED
    BY <2>1, <2>4, <2>6
<1>3. DOMAIN Reindexed(kept) = known
  BY <1>1
<1> QED
  BY <1>2, <1>3

\* Each place of the snapshot is a live slot, and two places are two slots.
LEMMA SnapshotIs ==
  ASSUME RingTypeOK
  PROVE  /\ DOMAIN Snapshot = 1..count
         /\ \A i \in 1..count : /\ Slot(i - 1) \in Live /\ Slot(i - 1) \in Slots
                                /\ Snapshot[i] = items[Slot(i - 1)]
         /\ \A i, j \in 1..count : Slot(i - 1) = Slot(j - 1) => i = j
<1>1. /\ head \in Slots /\ count \in 0..Cap /\ count \in Nat
  BY RingAssumption DEF RingTypeOK
<1>2. \A i : Slot(i) = SlotOf(head, count, i)
  BY DEF Slot, Start, SlotOf
<1>3. /\ \A i \in 0..count-1 : SlotOf(head, count, i) \in Slots
      /\ \A i, j \in 0..count-1 :
           SlotOf(head, count, i) = SlotOf(head, count, j) => i = j
  BY <1>1, SlotsAreDistinct
<1> HIDE DEF Slot
<1>4. \A i \in 1..count : i - 1 \in 0..count-1
  BY <1>1
<1>5. \A i \in 1..count : Slot(i - 1) \in Slots /\ Slot(i - 1) \in Live
  BY <1>2, <1>3, <1>4 DEF Live
<1>6. \A i, j \in 1..count : Slot(i - 1) = Slot(j - 1) => i = j
  <2> SUFFICES ASSUME NEW i \in 1..count, NEW j \in 1..count, Slot(i - 1) = Slot(j - 1)
               PROVE  i = j
    OBVIOUS
  <2>1. i - 1 = j - 1
    BY <1>2, <1>3, <1>4
  <2> QED
    BY <1>1, <2>1
<1> QED
  BY <1>1, <1>5, <1>6 DEF Snapshot

\* What an eviction keeps is fewer spans, each from a place of its own, in order.
LEMMA KeptIs ==
  ASSUME RingTypeOK, NEW gone
  PROVE  LET size == Cardinality(Staying(gone))
             place(m) == Nth(Staying(gone), m)
         IN  /\ size \in Nat /\ size <= count
             /\ Staying(gone) # 1..count => size < count
             /\ \A m \in 1..size : place(m) \in 1..count /\ place(m) \in Staying(gone)
             /\ \A l, m \in 1..size : l < m => place(l) < place(m)
             /\ \A i \in Staying(gone) : \E m \in 1..size : place(m) = i
             /\ DOMAIN Kept(gone) = 1..size
             /\ \A m \in 1..size : Kept(gone)[m] = Snapshot[place(m)]
             /\ \A m \in 1..size : Kept(gone)[m] \in Spans
             /\ Kept(gone) \in Seq(Spans) /\ Len(Kept(gone)) = size
<1> DEFINE size == Cardinality(Staying(gone))
           place(m) == Nth(Staying(gone), m)
<1>1. count \in Nat /\ Staying(gone) \in SUBSET (1..count)
  BY RingAssumption DEF RingTypeOK, Staying
<1>2. /\ size \in Nat /\ size <= count
      /\ Staying(gone) # 1..count => size < count
  BY <1>1, Ranks
<1>3. /\ \A m \in 1..size : place(m) \in 1..count /\ place(m) \in Staying(gone)
      /\ \A l, m \in 1..size : l < m => place(l) < place(m)
      /\ \A i \in Staying(gone) : \E m \in 1..size : place(m) = i
  BY <1>1, NthIs
<1>4. Kept(gone) = [m \in 1..size |-> Snapshot[place(m)]]
  BY DEF Kept
<1> HIDE DEF size, place
<1>5. ASSUME NEW i \in 1..count PROVE Snapshot[i] \in Spans
  BY <1>5, SnapshotIs DEF RingTypeOK
<1>6. \A m \in 1..size : Kept(gone)[m] = Snapshot[place(m)] /\ Kept(gone)[m] \in Spans
  BY <1>3, <1>4, <1>5
<1>7. Kept(gone) \in [1..size -> Spans]
  BY <1>4, <1>6
<1>8. Kept(gone) \in Seq(Spans) /\ Len(Kept(gone)) = size
  BY <1>2, <1>7
<1> QED
  BY <1>2, <1>3, <1>4, <1>6, <1>8 DEF size, place

\* Evicting the spans of a closed connection compacts the ring from slot 0.
LEMMA EvictKeeps ==
  ASSUME RingInv, NEW gone \in Conns, EvictConnection(gone)
  PROVE  RingInv'
<1>1. /\ Unlocked /\ UNCHANGED <<revision, batch, latest>> /\ RingTypeOK
      /\ Cap \in Nat \ {0} /\ count \in 0..Cap /\ Slots = 0..Cap-1
      /\ items \in [Slots -> Spans]
  BY RingAssumption DEF EvictConnection, RingInv, RingTypeOK, Slots
<1>2. CASE Staying(gone) = 1..count
  <2>1. UNCHANGED <<items, head, count, index>>
    BY <1>2 DEF EvictConnection
  <2> QED
    BY <1>1, <2>1 DEF RingInv, RingTypeOK, RingShape, IndexedWereReceived,
       IndexMatchesRing, RetainedCopyIsLatest, Live, Slot, Start
<1>3. CASE Staying(gone) # 1..count
  <2>1. PICK kept : kept = Kept(gone)
    OBVIOUS
  <2>2. PICK c : c = Cardinality(Staying(gone))
    OBVIOUS
  <2>3. /\ c \in Nat /\ c < Cap /\ DOMAIN kept = 1..c /\ Len(kept) = c
        /\ \A m \in 1..c : kept[m] \in Spans
    BY <1>1, <1>3, <2>1, <2>2, KeptIs
  <2>4. PICK from \in [1..c -> Slots] :
          /\ \A m \in 1..c : kept[m] = items[from[m]] /\ from[m] \in Live
          /\ \A l, m \in 1..c : from[l] = from[m] => l = m
    <3> DEFINE place(m) == Nth(Staying(gone), m)
               from == [m \in 1..c |-> Slot(place(m) - 1)]
    <3>1. /\ \A m \in 1..c : place(m) \in 1..count /\ kept[m] = Snapshot[place(m)]
          /\ \A l, m \in 1..c : l < m => place(l) < place(m)
      BY <1>1, <2>1, <2>2, KeptIs
    <3>2. /\ \A i \in 1..count : /\ Slot(i - 1) \in Live /\ Slot(i - 1) \in Slots
                                 /\ Snapshot[i] = items[Slot(i - 1)]
          /\ \A i, j \in 1..count : Slot(i - 1) = Slot(j - 1) => i = j
      BY <1>1, SnapshotIs
    <3> HIDE DEF place
    <3>3. \A l, m \in 1..c : place(l) = place(m) => l = m
      <4> SUFFICES ASSUME NEW l \in 1..c, NEW m \in 1..c, place(l) = place(m)
                   PROVE  l = m
        OBVIOUS
      <4>1. place(l) \in 1..count /\ ~(place(l) < place(l))
        BY <1>1, <3>1
      <4>2. ~(l < m) /\ ~(m < l)
        BY <3>1, <4>1
      <4> QED
        BY <2>3, <4>2
    <3>4. from \in [1..c -> Slots]
      BY <3>1, <3>2
    <3>5. \A m \in 1..c : kept[m] = items[from[m]] /\ from[m] \in Live
      BY <3>1, <3>2
    <3>6. \A l, m \in 1..c : from[l] = from[m] => l = m
      BY <3>1, <3>2, <3>3
    <3> QED
      BY <3>4, <3>5, <3>6
  <2>5. /\ items' = [s \in Slots |-> IF s < Len(kept) THEN kept[s + 1] ELSE items[s]]
        /\ count' = c /\ head' = c /\ index' = Reindexed(kept)
    <3>1. c % Cap = c
      BY <1>1, <2>3
    <3> QED
      BY <1>3, <2>1, <2>3, <3>1 DEF EvictConnection
  <2>6. /\ items' \in [Slots -> Spans]
        /\ \A m \in 1..c : m - 1 \in Slots /\ items'[m - 1] = kept[m]
    <3>1. \A s \in Slots : s < c => s + 1 \in 1..c
      BY <1>1, <2>3
    <3>2. items' \in [Slots -> Spans]
      BY <1>1, <2>3, <2>5, <3>1
    <3>3. ASSUME NEW m \in 1..c PROVE m - 1 \in Slots /\ items'[m - 1] = kept[m]
      <4>1. m - 1 \in Slots /\ m - 1 < c /\ (m - 1) + 1 = m
        BY <1>1, <2>3
      <4> QED
        BY <2>3, <2>5, <4>1
    <3> QED
      BY <3>2, <3>3
  <2>7. head' \in Slots /\ count' \in 0..Cap /\ count' < Cap /\ RingShape'
    BY <1>1, <2>3, <2>5 DEF RingShape
  <2>8. Live' = 0..c-1
    <3>1. Live' = LiveOf(head', count')
      BY DEF Live, Slot, Start, LiveOf, SlotOf
    <3>2. count' # Cap
      BY <1>1, <2>3, <2>7
    <3> QED
      BY <2>5, <2>7, <3>1, <3>2, LiveOfIs
  <2>9. \A i, j \in 1..c : Keyed(kept[i]) /\ Keyed(kept[j])
                           /\ kept[i].key = kept[j].key => i = j
    BY <2>4 DEF RingInv, IndexMatchesRing
  <2>10. /\ \A i \in 1..c : Keyed(kept[i]) =>
              kept[i].key \in DOMAIN index' /\ index'[kept[i].key] = i - 1
         /\ \A k \in DOMAIN index' : \E i \in 1..c : Keyed(kept[i]) /\ kept[i].key = k
    <3>1. c \in Nat /\ DOMAIN kept = 1..c
      BY <2>3
    <3>2. index' = Reindexed(kept)
      BY <2>5
    <3>3. /\ \A i \in 1..c : Keyed(kept[i]) =>
               kept[i].key \in DOMAIN Reindexed(kept)
               /\ Reindexed(kept)[kept[i].key] = i - 1
          /\ \A k \in DOMAIN Reindexed(kept) :
               \E i \in 1..c : Keyed(kept[i]) /\ kept[i].key = k
      BY <2>9, <3>1, ReindexedIs
    <3> QED
      BY <3>2, <3>3
  <2>11. IndexMatchesRing'
    <3>1. ASSUME NEW k \in DOMAIN index'
          PROVE  index'[k] \in Live' /\ Keyed(items'[index'[k]])
                 /\ items'[index'[k]].key = k
      <4>1. PICK i \in 1..c : Keyed(kept[i]) /\ kept[i].key = k
        BY <2>10
      <4>2. index'[k] = i - 1 /\ items'[i - 1] = kept[i]
        BY <2>6, <2>10, <4>1
      <4>3. i - 1 \in 0..c-1
        BY <2>3
      <4> QED
        BY <2>8, <4>1, <4>2, <4>3
    <3>2. ASSUME NEW s \in Live', Keyed(items'[s])
          PROVE  items'[s].key \in DOMAIN index' /\ index'[items'[s].key] = s
      <4>1. PICK i \in 1..c : i - 1 = s
        <5>1. s + 1 \in 1..c /\ (s + 1) - 1 = s
          BY <2>3, <2>8
        <5> QED
          BY <5>1
      <4>2. items'[s] = kept[i]
        BY <2>6, <4>1
      <4> QED
        BY <2>10, <3>2, <4>1, <4>2
    <3> QED
      BY <3>1, <3>2 DEF IndexMatchesRing
  <2>12. ASSUME NEW s \in Live', Keyed(items'[s])
         PROVE  items'[s] = latest'[items'[s].key]
    <3>1. PICK i \in 1..c : i - 1 = s
      <4>1. s + 1 \in 1..c /\ (s + 1) - 1 = s
        BY <2>3, <2>8
      <4> QED
        BY <4>1
    <3>2. items'[s] = items[from[i]] /\ from[i] \in Live
      BY <2>4, <2>6, <3>1
    <3> QED
      BY <1>1, <2>12, <3>2 DEF RingInv, RetainedCopyIsLatest
  <2>13. ASSUME NEW k \in DOMAIN index'
         PROVE  k \in DOMAIN latest' /\ k \in Keys /\ index'[k] \in Slots
    <3>1. PICK i \in 1..c : Keyed(kept[i]) /\ kept[i].key = k
      BY <2>10
    <3>2. kept[i] = items[from[i]] /\ from[i] \in Live
      BY <2>4
    <3>3. k \in DOMAIN index
      BY <3>1, <3>2 DEF RingInv, IndexMatchesRing
    <3>4. index'[k] = i - 1 /\ i - 1 \in Slots
      BY <2>6, <2>10, <3>1
    <3> QED
      BY <1>1, <3>3, <3>4 DEF RingInv, RingTypeOK, IndexedWereReceived
  <2> QED
    BY <1>1, <2>6, <2>7, <2>11, <2>12, <2>13
       DEF RingInv, RingTypeOK, IndexedWereReceived, RetainedCopyIsLatest
<1> QED
  BY <1>2, <1>3

\* An emptied ring has no live slot.
LEMMA EmptiedKeeps ==
  ASSUME RingInv, head' = 0, count' = 0, index' = <<>>,
         UNCHANGED <<items, revision, latest>>,
         batch' \in [agent : BOOLEAN, conn : Owners, keys : Seq(Keys \cup {NoKey})]
  PROVE  RingInv'
<1>1. Cap \in Nat \ {0} /\ 0 \in Slots /\ 0 \in 0..Cap
  BY RingAssumption DEF Slots
<1>2. Live' = {}
  <2>1. Live' = LiveOf(head', count')
    BY DEF Live, Slot, Start, LiveOf, SlotOf
  <2>2. LiveOf(0, 0) = {}
    BY DEF LiveOf
  <2> QED
    BY <2>1, <2>2
<1>3. DOMAIN index' = {}
  OBVIOUS
<1> QED
  BY <1>1, <1>2, <1>3 DEF RingInv, RingTypeOK, RingShape, IndexedWereReceived,
     IndexMatchesRing, RetainedCopyIsLatest

LEMMA RingInvInit ==
  ASSUME RingInit
  PROVE  RingInv
<1>1. Cap \in Nat \ {0} /\ MaxRevision \in Nat /\ 0 \in Slots /\ 0 \in 0..Cap
  BY RingAssumption DEF Slots
<1>2. Live = {}
  BY DEF RingInit, Live
<1>3. DOMAIN index = {} /\ DOMAIN latest = {}
  BY DEF RingInit
<1>4. batch \in [agent : BOOLEAN, conn : Owners, keys : Seq(Keys \cup {NoKey})]
  BY DEF RingInit, NoBatch, Owners
<1>5. items \in [Slots -> Spans]
  BY <1>1 DEF RingInit, Spans, Blank, Owners
<1> QED
  BY <1>1, <1>2, <1>3, <1>4, <1>5 DEF RingInit, RingInv, RingTypeOK, RingShape,
     IndexedWereReceived, IndexMatchesRing, RetainedCopyIsLatest

LEMMA RingStep ==
  ASSUME RingInv, [RingNext]_rvars
  PROVE  RingInv'
<1>1. ASSUME NEW agent \in BOOLEAN, NEW owner \in Owners, NEW keys \in Batches,
             NEW lapsed \in BOOLEAN, AddBegin(agent, owner, keys, lapsed)
      PROVE  RingInv'
  <2>1. /\ batch' = [agent |-> agent, conn |-> owner, keys |-> keys]
        /\ UNCHANGED <<items, revision, latest>>
    BY <1>1 DEF AddBegin
  <2>2. keys \in Seq(Keys \cup {NoKey})
    BY BatchAssumption
  <2>3. batch' \in [agent : BOOLEAN, conn : Owners, keys : Seq(Keys \cup {NoKey})]
    BY <2>1, <2>2
  <2>4. CASE lapsed
    <3>1. head' = 0 /\ count' = 0 /\ index' = <<>>
      BY <1>1, <2>4 DEF AddBegin
    <3> QED
      BY <2>1, <2>3, <3>1, EmptiedKeeps
  <2>5. CASE ~lapsed
    <3>1. UNCHANGED <<head, count, index>>
      BY <1>1, <2>5 DEF AddBegin
    <3> QED
      BY <2>1, <2>3, <3>1 DEF RingInv, RingTypeOK, RingShape, IndexedWereReceived,
         IndexMatchesRing, RetainedCopyIsLatest, Live, Slot, Start
  <2> QED
    BY <2>4, <2>5
<1>2. CASE Clear
  BY <1>2, EmptiedKeeps DEF Clear, RingInv, RingTypeOK
<1>3. CASE UNCHANGED rvars
  BY <1>3 DEF rvars, RingInv, RingTypeOK, RingShape, IndexedWereReceived,
     IndexMatchesRing, RetainedCopyIsLatest, Live, Slot, Start
<1> QED
  BY <1>1, <1>2, <1>3, AddOneKeeps, EvictKeeps DEF RingNext

\* The index names exactly the live agent spans, each at the slot that holds
\* it, and each of them is the latest receipt of its identity: through
\* wrap-around, replacement in place, compaction after a connection closed, a
\* session gap and a clear (pushSpanWithAgentIndex, rebuildAgentSpanIndex), for
\* every capacity.
THEOREM IndexAlwaysExact == RingSpec => []IndexIsExact
<1>1. RingInit => RingInv
  BY RingInvInit
<1>2. RingInv /\ [RingNext]_rvars => RingInv'
  BY RingStep
<1>3. RingInv => IndexIsExact
  BY DEF RingInv, IndexIsExact
<1> QED
  BY <1>1, <1>2, <1>3, PTL DEF RingSpec

-----------------------------------------------------------------------------
(* The ring seen through snapshot() is the log of SpanLog.                 *)

\* The snapshot, for this state and for the next.
LEMMA SnapshotNext ==
  ASSUME RingTypeOK'
  PROVE  /\ DOMAIN Snapshot' = 1..count'
         /\ \A i \in 1..count' : Snapshot'[i] = items'[SlotOf(head', count', i - 1)]
         /\ Snapshot' = [i \in 1..count' |-> items'[SlotOf(head', count', i - 1)]]
         /\ Snapshot' \in Seq(Spans) /\ Len(Snapshot') = count'
<1>1. Snapshot' = [i \in 1..count' |-> items'[SlotOf(head', count', i - 1)]]
  BY DEF Snapshot, Slot, Start, SlotOf
<1>2. /\ count' \in Nat /\ count' \in 0..Cap /\ head' \in Slots
      /\ items' \in [Slots -> Spans]
  BY RingAssumption DEF RingTypeOK
<1>3. ASSUME NEW i \in 1..count' PROVE SlotOf(head', count', i - 1) \in Slots
  <2>1. PICK n \in Nat : n = count'
    BY <1>2
  <2>2. \A j \in 1..n : j - 1 \in 0..n-1
    OBVIOUS
  <2>3. i - 1 \in 0..count'-1
    BY <2>1, <2>2
  <2> QED
    BY <1>2, <2>3, SlotsAreDistinct
<1>4. Snapshot' \in [1..count' -> Spans]
  BY <1>1, <1>2, <1>3
<1>5. Snapshot' \in Seq(Spans) /\ Len(Snapshot') = count'
  BY <1>2, <1>4
<1> QED
  BY <1>1, <1>5

LEMMA SnapshotNow ==
  ASSUME RingTypeOK
  PROVE  /\ Snapshot = [i \in 1..count |-> items[SlotOf(head, count, i - 1)]]
         /\ Snapshot \in Seq(Spans) /\ Len(Snapshot) = count
         /\ \A s \in Live : \E i \in 1..count : s = SlotOf(head, count, i - 1)
<1>1. Snapshot = [i \in 1..count |-> items[SlotOf(head, count, i - 1)]]
  BY DEF Snapshot, Slot, Start, SlotOf
<1>2. count \in Nat
  BY RingAssumption DEF RingTypeOK
<1>3. \A i \in 1..count : Snapshot[i] \in Spans
  BY SnapshotIs DEF RingTypeOK
<1>4. Snapshot \in [1..count -> Spans]
  BY <1>1, <1>3
<1>5. Snapshot \in Seq(Spans) /\ Len(Snapshot) = count
  BY <1>2, <1>4
<1>6. ASSUME NEW s \in Live PROVE \E i \in 1..count : s = SlotOf(head, count, i - 1)
  <2>1. PICK j \in 0..count-1 : s = SlotOf(head, count, j)
    BY DEF Live, Slot, Start, SlotOf
  <2>2. j + 1 \in 1..count /\ (j + 1) - 1 = j
    BY <1>2
  <2> QED
    BY <2>1, <2>2
<1> QED
  BY <1>1, <1>5, <1>6

\* A span stored in a slot of its own arrives at the end, and the oldest goes
\* when the ring is full.
LEMMA PushArrives ==
  ASSUME RingInv, RingInv', NEW span \in Spans, PushSpan(span),
         Keyed(span) => span.key \notin DOMAIN index
  PROVE  Log!Arrive(span)
<1>1. /\ Cap \in Nat \ {0} /\ head \in Nat /\ head < Cap /\ head \in Slots
      /\ count \in 0..Cap /\ count \in Nat /\ Slots = 0..Cap-1
      /\ items \in [Slots -> Spans] /\ RingTypeOK /\ RingTypeOK'
  BY RingAssumption DEF RingInv, RingTypeOK, Slots
<1>2. /\ items' = [items EXCEPT ![head] = span] /\ head' = (head + 1) % Cap
      /\ count' = IF count < Cap THEN count + 1 ELSE count
  BY DEF PushSpan
<1>3. head' = IF head + 1 < Cap THEN head + 1 ELSE 0
  BY <1>1, <1>2, NextWrite
<1>4. \A i \in DOMAIN Snapshot : ~SameAgentSpan(Snapshot[i], span)
  <2> SUFFICES ASSUME NEW i \in 1..count, SameAgentSpan(Snapshot[i], span)
               PROVE  FALSE
    BY <1>1, SnapshotIs
  <2>1. Slot(i - 1) \in Live /\ Snapshot[i] = items[Slot(i - 1)]
    BY <1>1, SnapshotIs
  <2> QED
    BY <2>1 DEF SameAgentSpan, RingInv, IndexMatchesRing
<1>5. /\ Snapshot \in Seq(Spans) /\ Len(Snapshot) = count /\ DOMAIN Snapshot = 1..count
      /\ \A i \in 1..count : Snapshot[i] = items[SlotOf(head, count, i - 1)]
  BY <1>1, SnapshotNow
<1>6. /\ DOMAIN Snapshot' = 1..count'
      /\ \A i \in 1..count' : Snapshot'[i] = items'[SlotOf(head', count', i - 1)]
      /\ Snapshot' \in Seq(Spans) /\ Len(Snapshot') = count'
  BY <1>1, SnapshotNext
<1>7. CASE count < Cap
  <2>1. /\ head = count /\ count' = count + 1 /\ count' \in 0..Cap /\ head' \in Slots
        /\ count' = Cap => head' = 0
    BY <1>1, <1>2, <1>3, <1>7 DEF RingInv, RingShape
  <2>2. \A i \in 1..count : SlotOf(head, count, i - 1) = i - 1
    <3>1. \A i \in 1..count : i - 1 \in 0..count-1
      BY <1>1
    <3> QED
      BY <1>1, <1>7, <3>1, SlotOfIs
  <2>3. ASSUME NEW i \in 1..count' PROVE SlotOf(head', count', i - 1) = i - 1
    <3>1. i - 1 \in 0..count'-1 /\ i - 1 \in Nat /\ i - 1 < Cap
      BY <1>1, <2>1
    <3>2. CASE count' < Cap
      BY <2>1, <3>1, <3>2, SlotOfIs
    <3>3. CASE count' = Cap
      <4>1. SlotOf(head', count', i - 1) = IF head' + (i - 1) < Cap THEN head' + (i - 1)
                                           ELSE head' + (i - 1) - Cap
        BY <2>1, <3>1, <3>3, SlotOfIs
      <4>2. /\ head' = 0 /\ i - 1 \in Nat /\ i - 1 < Cap /\ Cap \in Nat
            /\ 0 + (i - 1) = i - 1
        BY <1>1, <2>1, <3>1, <3>3
      <4> QED
        BY <4>1, <4>2
    <3> QED
      BY <1>1, <2>1, <3>2, <3>3
  <2>4. ASSUME NEW i \in 1..count'
        PROVE  Snapshot'[i] = IF i <= count THEN Snapshot[i] ELSE span
    <3>1. Snapshot'[i] = items'[i - 1]
      BY <1>6, <2>3
    <3>2. CASE i <= count
      <4>1. i \in 1..count /\ i - 1 # head /\ i - 1 \in Slots
        BY <1>1, <2>1, <3>2
      <4>2. items'[i - 1] = items[i - 1]
        BY <1>1, <1>2, <4>1
      <4> QED
        BY <1>5, <2>2, <3>1, <3>2, <4>1, <4>2
    <3>3. CASE ~(i <= count)
      <4>1. i - 1 = head
        BY <1>1, <2>1, <3>3
      <4> QED
        BY <1>1, <1>2, <3>1, <3>3, <4>1
    <3> QED
      BY <3>2, <3>3
  <2>5. Snapshot' = Append(Snapshot, span)
    <3>1. /\ Append(Snapshot, span) \in Seq(Spans) /\ Len(Append(Snapshot, span)) = count + 1
          /\ \A i \in 1..count+1 : Append(Snapshot, span)[i] =
                                     IF i <= count THEN Snapshot[i] ELSE span
      BY <1>1, <1>5
    <3> QED
      BY <1>6, <2>1, <2>4, <3>1, SeqEqual
  <2>6. Len(Snapshot) # Cap
    BY <1>1, <1>5, <1>7
  <2> QED
    BY <1>4, <2>5, <2>6 DEF Log!Arrive, Log!Drop
<1>8. CASE count = Cap
  <2>1. count' = count /\ count' = Cap /\ count' \in 0..Cap /\ head' \in Slots /\ head' \in Nat
    BY <1>1, <1>2, <1>3, <1>8
  <2>2. \A i \in 1..Cap :
          /\ SlotOf(head, count, i - 1) = IF head + (i - 1) < Cap THEN head + (i - 1)
                                          ELSE head + (i - 1) - Cap
          /\ SlotOf(head', count', i - 1) = IF head' + (i - 1) < Cap THEN head' + (i - 1)
                                            ELSE head' + (i - 1) - Cap
    <3>1. \A i \in 1..Cap : i - 1 \in 0..count-1 /\ i - 1 \in 0..count'-1
      BY <1>1, <1>8, <2>1
    <3> QED
      BY <1>1, <1>8, <2>1, <3>1, SlotOfIs
  <2>3. ASSUME NEW i \in 1..Cap
        PROVE  Snapshot'[i] = IF i < Cap THEN Snapshot[i + 1] ELSE span
    <3>1. Snapshot'[i] = items'[SlotOf(head', count', i - 1)]
      BY <1>6, <2>1
    <3>2. CASE i < Cap
      <4>1. i + 1 \in 1..Cap /\ (i + 1) - 1 = i
        BY <1>1, <3>2
      <4>2. SlotOf(head, count, i) = IF head + i < Cap THEN head + i ELSE head + i - Cap
        BY <2>2, <4>1
      <4>3. SlotOf(head', count', i - 1) = SlotOf(head, count, i)
            /\ SlotOf(head, count, i) # head /\ SlotOf(head, count, i) \in Slots
        <5>1. PICK s : s = SlotOf(head, count, i)
          OBVIOUS
        <5>2. PICK t : t = SlotOf(head', count', i - 1)
          OBVIOUS
        <5>3. /\ s = IF head + i < Cap THEN head + i ELSE head + i - Cap
              /\ t = IF head' + (i - 1) < Cap THEN head' + (i - 1) ELSE head' + (i - 1) - Cap
          BY <2>2, <4>2, <5>1, <5>2
        <5>4. s = t /\ s # head /\ s \in 0..Cap-1
          BY <1>1, <1>3, <3>2, <5>3
        <5> QED
          BY <1>1, <5>1, <5>2, <5>4
      <4>4. Snapshot[i + 1] = items[SlotOf(head, count, i)]
        BY <1>5, <1>8, <4>1
      <4>5. items'[SlotOf(head, count, i)] = items[SlotOf(head, count, i)]
        BY <1>1, <1>2, <4>3
      <4> QED
        BY <3>1, <3>2, <4>3, <4>4, <4>5
    <3>3. CASE ~(i < Cap)
      <4>1. i = Cap
        BY <1>1, <3>3
      <4>2. SlotOf(head', count', i - 1) = IF head' + (i - 1) < Cap THEN head' + (i - 1)
                                           ELSE head' + (i - 1) - Cap
        BY <2>2
      <4>3. SlotOf(head', count', i - 1) = head
        <5>1. PICK t : t = SlotOf(head', count', i - 1)
          OBVIOUS
        <5>2. t = IF head' + (i - 1) < Cap THEN head' + (i - 1) ELSE head' + (i - 1) - Cap
          BY <4>2, <5>1
        <5>3. t = head
          BY <1>1, <1>3, <4>1, <5>2
        <5> QED
          BY <5>1, <5>3
      <4> QED
        BY <1>1, <1>2, <3>1, <3>3, <4>3
    <3> QED
      BY <3>2, <3>3
  <2>4. Snapshot' = Append(Tail(Snapshot), span)
    <3>1. /\ Tail(Snapshot) \in Seq(Spans) /\ Len(Tail(Snapshot)) = Cap - 1
          /\ \A i \in 1..Cap-1 : Tail(Snapshot)[i] = Snapshot[i + 1]
      BY <1>1, <1>5, <1>8
    <3>2. PICK t \in Seq(Spans) : t = Tail(Snapshot)
      BY <3>1
    <3>3. /\ Append(t, span) \in Seq(Spans) /\ Len(Append(t, span)) = Cap
          /\ \A i \in 1..Cap : Append(t, span)[i] = IF i < Cap THEN t[i] ELSE span
      BY <1>1, <3>1, <3>2
    <3>4. \A i \in 1..Cap : Append(t, span)[i] =
                              IF i < Cap THEN Snapshot[i + 1] ELSE span
      <4>1. \A i \in 1..Cap : i < Cap => i \in 1..Cap-1
        BY <1>1
      <4> QED
        BY <3>1, <3>2, <3>3, <4>1
    <3>5. Snapshot' = Append(t, span)
      BY <1>6, <2>1, <2>3, <3>3, <3>4, SeqEqual
    <3> QED
      BY <3>2, <3>5
  <2>5. Len(Snapshot) = Cap
    BY <1>5, <1>8
  <2> QED
    BY <1>4, <2>4, <2>5 DEF Log!Arrive, Log!Drop
<1> QED
  BY <1>1, <1>7, <1>8

\* A retried span replaces the copy that stands in the log.
LEMMA UpdateReplaces ==
  ASSUME RingInv, RingInv', NEW span \in Spans, UpdateSpan(span), Keyed(span),
         span.key \in DOMAIN index
  PROVE  Log!Replace(span)
<1> DEFINE p == index[span.key]
<1>1. /\ items' = [items EXCEPT ![p] = span] /\ UNCHANGED <<head, count, index>>
      /\ items \in [Slots -> Spans] /\ p \in Slots /\ RingTypeOK /\ RingTypeOK'
  BY DEF UpdateSpan, RingInv, RingTypeOK
<1>2. p \in Live /\ Keyed(items[p]) /\ items[p].key = span.key
  BY DEF RingInv, IndexMatchesRing
<1> HIDE DEF p
<1>3. PICK i \in 1..count : p = SlotOf(head, count, i - 1)
  BY <1>1, <1>2, SnapshotNow
<1>4. /\ DOMAIN Snapshot = 1..count
      /\ Snapshot = [j \in 1..count |-> items[SlotOf(head, count, j - 1)]]
      /\ Snapshot[i] = items[p]
  BY <1>1, <1>3, SnapshotNow
<1>5. Snapshot' = [j \in 1..count |-> items'[SlotOf(head, count, j - 1)]]
  BY <1>1, SnapshotNext
<1>6. ASSUME NEW j \in 1..count
      PROVE  items'[SlotOf(head, count, j - 1)] =
               IF j = i THEN span ELSE items[SlotOf(head, count, j - 1)]
  <2>1. /\ SlotOf(head, count, j - 1) = Slot(j - 1)
        /\ SlotOf(head, count, i - 1) = Slot(i - 1)
    BY DEF Slot, Start, SlotOf
  <2>2. /\ SlotOf(head, count, j - 1) \in Slots
        /\ SlotOf(head, count, j - 1) = SlotOf(head, count, i - 1) => j = i
    BY <1>1, <2>1, SnapshotIs
  <2> QED
    BY <1>1, <1>3, <2>2
<1>7. Snapshot' = [Snapshot EXCEPT ![i] = span]
  BY <1>4, <1>5, <1>6
<1>8. SameAgentSpan(Snapshot[i], span)
  BY <1>2, <1>4 DEF SameAgentSpan
<1> QED
  BY <1>4, <1>7, <1>8 DEF Log!Replace

\* Closing a connection forgets its spans and keeps the others in order.
LEMMA EvictForgets ==
  ASSUME RingInv, RingInv', NEW gone \in Conns, EvictConnection(gone)
  PROVE  Log!Forget(gone) \/ Snapshot' = Snapshot
<1>1. /\ RingTypeOK /\ RingTypeOK' /\ Cap \in Nat \ {0} /\ Slots = 0..Cap-1
      /\ count \in 0..Cap /\ count \in Nat
  BY RingAssumption DEF RingInv, RingTypeOK, Slots
<1>2. CASE Staying(gone) = 1..count
  <2>1. UNCHANGED <<items, head, count, index>>
    BY <1>2 DEF EvictConnection
  <2> QED
    BY <2>1 DEF Snapshot, Slot, Start
<1>3. CASE Staying(gone) # 1..count
  <2>1. PICK c : c = Cardinality(Staying(gone))
    OBVIOUS
  <2>2. PICK place : place = [m \in 1..c |-> Nth(Staying(gone), m)]
    OBVIOUS
  <2>3. /\ c \in Nat /\ c < Cap /\ c < count /\ Len(Kept(gone)) = c
        /\ \A m \in 1..c : place[m] \in Staying(gone)
        /\ \A l, m \in 1..c : l < m => place[l] < place[m]
        /\ \A m \in 1..c : Kept(gone)[m] = Snapshot[place[m]]
    <3>1. /\ c \in Nat /\ c < count /\ Len(Kept(gone)) = c
          /\ \A m \in 1..c : Nth(Staying(gone), m) \in Staying(gone)
          /\ \A l, m \in 1..c : l < m => Nth(Staying(gone), l) < Nth(Staying(gone), m)
          /\ \A m \in 1..c : Kept(gone)[m] = Snapshot[Nth(Staying(gone), m)]
      BY <1>1, <1>3, <2>1, KeptIs
    <3>2. \A m \in 1..c : place[m] = Nth(Staying(gone), m)
      BY <2>2
    <3>3. c < Cap
      BY <1>1, <3>1
    <3> QED
      BY <3>1, <3>2, <3>3
  <2>4. /\ items' = [s \in Slots |-> IF s < Len(Kept(gone)) THEN Kept(gone)[s + 1]
                                                            ELSE items[s]]
        /\ count' = c /\ head' \in Slots
    BY <1>1, <1>3, <2>3 DEF EvictConnection, RingTypeOK
  <2>5. ASSUME NEW i \in 1..c PROVE Snapshot'[i] = Snapshot[place[i]]
    <3>1. i - 1 \in 0..c-1 /\ i - 1 \in Slots /\ i - 1 < c /\ (i - 1) + 1 = i
      BY <1>1, <2>3
    <3>2. SlotOf(head', count', i - 1) = i - 1
      BY <1>1, <2>3, <2>4, <3>1, SlotOfIs DEF RingTypeOK
    <3>3. Snapshot'[i] = items'[i - 1]
      BY <1>1, <2>4, <3>2, SnapshotNext
    <3>4. items'[i - 1] = Kept(gone)[i]
      BY <2>3, <2>4, <3>1
    <3> QED
      BY <2>3, <3>3, <3>4
  <2>6. Snapshot' = [n \in 1..c |-> Snapshot[place[n]]]
    <3>1. Snapshot' = [n \in 1..c |-> Snapshot'[n]]
      BY <1>1, <2>4, SnapshotNext
    <3> QED
      BY <2>2, <2>5, <3>1
  <2>7. Staying(gone) = {i \in DOMAIN Snapshot : Snapshot[i].conn # gone}
    BY <1>1, SnapshotIs DEF Staying
  <2>8. place \in [1..c -> Staying(gone)]
    BY <2>2, <2>3
  <2>9. \A l, m \in 1..c : l < m => place[l] < place[m]
    BY <2>3
  <2> DEFINE stays == {i \in DOMAIN Snapshot : Snapshot[i].conn # gone}
  <2> HIDE DEF stays
  <2>10. place \in [1..c -> stays] /\ \A i \in stays : \E m \in 1..c : place[m] = i
    <3>1. \A i \in Staying(gone) : \E m \in 1..c : Nth(Staying(gone), m) = i
      BY <1>1, <2>1, KeptIs
    <3> QED
      BY <2>2, <2>7, <2>8, <3>1 DEF stays
  <2>11. c \in 0..Len(Snapshot)
    BY <1>1, <2>3, SnapshotNow
  <2>12. \E n \in 0..Len(Snapshot) : \E p \in [1..n -> stays] :
           /\ \A l, m \in 1..n : l < m => p[l] < p[m]
           /\ \A i \in stays : \E m \in 1..n : p[m] = i
           /\ Snapshot' = [m \in 1..n |-> Snapshot[p[m]]]
    BY <2>6, <2>9, <2>10, <2>11, Zenon
  <2> QED
    BY <2>12 DEF Log!Forget, stays
<1> QED
  BY <1>2, <1>3

LEMMA RingStepsAreLogSteps ==
  ASSUME RingInv, RingInv', [RingNext]_rvars
  PROVE  [Log!LogNext]_Snapshot
<1>1. ASSUME head' = 0, count' = 0 PROVE Log!Empty
  <2>1. Snapshot' = [i \in 1..0 |-> items'[SlotOf(head', count', i - 1)]]
    BY <1>1, SnapshotNext DEF RingInv
  <2>2. Snapshot' = <<>>
    BY <2>1
  <2> QED
    BY <2>2 DEF Log!Empty
<1>2. ASSUME NEW agent \in BOOLEAN, NEW owner \in Owners, NEW keys \in Batches,
             NEW lapsed \in BOOLEAN, AddBegin(agent, owner, keys, lapsed)
      PROVE  [Log!LogNext]_Snapshot
  <2>1. CASE lapsed
    BY <1>1, <1>2, <2>1 DEF AddBegin, Log!LogNext
  <2>2. CASE ~lapsed
    BY <1>2, <2>2 DEF AddBegin, Snapshot, Slot, Start
  <2> QED
    BY <2>1, <2>2
<1>3. CASE AddOne
  <2>1. ~Unlocked /\ revision < MaxRevision /\ RingTypeOK
    BY <1>3 DEF AddOne, RingInv
  <2>2. Incoming \in Spans
    BY <2>1, IncomingIsSpan
  <2> HIDE DEF Incoming
  <2>3. CASE Keyed(Incoming) /\ Incoming.key \in DOMAIN index
    <3>1. UpdateSpan(Incoming)
      BY <1>3, <2>3 DEF AddOne
    <3>2. Log!Replace(Incoming)
      BY <2>2, <2>3, <3>1, UpdateReplaces
    <3> QED
      BY <2>2, <3>2 DEF Log!LogNext
  <2>4. CASE ~(Keyed(Incoming) /\ Incoming.key \in DOMAIN index)
    <3>1. PushSpan(Incoming)
      BY <1>3, <2>4 DEF AddOne
    <3>2. Log!Arrive(Incoming)
      BY <2>2, <2>4, <3>1, PushArrives
    <3> QED
      BY <2>2, <3>2 DEF Log!LogNext
  <2> QED
    BY <2>3, <2>4
<1>4. CASE Clear
  BY <1>1, <1>4 DEF Clear, Log!LogNext
<1>5. ASSUME NEW gone \in Conns, EvictConnection(gone)
      PROVE  [Log!LogNext]_Snapshot
  BY <1>5, EvictForgets DEF Log!LogNext
<1>6. CASE UNCHANGED rvars
  BY <1>6 DEF rvars, Snapshot, Slot, Start
<1> QED
  BY <1>2, <1>3, <1>4, <1>5, <1>6 DEF RingNext

\* Refinement: read through snapshot(), the ring is the bounded log.  Slots,
\* the wrapped head and the index never lose, duplicate or reorder a span
\* (ringBuffer.push, snapshot, rebuildSpansWithoutConnection, updateIndexedSpan).
THEOREM RingAlwaysALog == RingSpec => RingIsALog
<1>1. RingInit => Log!LogInit
  BY DEF RingInit, Snapshot, Log!LogInit
<1>2. RingInit => RingInv
  BY RingInvInit
<1>3. RingInv /\ [RingNext]_rvars => RingInv'
  BY RingStep
<1>4. RingInv /\ RingInv' /\ [RingNext]_rvars => [Log!LogNext]_Snapshot
  BY RingStepsAreLogSteps
<1> QED
  BY <1>1, <1>2, <1>3, <1>4, PTL DEF RingSpec, RingIsALog, Log!LogSpec

-----------------------------------------------------------------------------
(* Live push.                                                              *)

Jobs == [pc : Phases, todo : Seq(Signals), forced : BOOLEAN, data : Nat]

Works == {"signal", "push", "query", "send"}

LEMMA SignalsAre ==
  /\ Stats \in Signals /\ Validation \in Signals /\ Validation \in Stored
  /\ Stats \notin Stored /\ Stored \subseteq Signals
  /\ TelemetrySignals \subseteq Stored /\ Validation \notin TelemetrySignals
  /\ Reader \in Tasks /\ Feeds \subseteq Tasks /\ Cooldowns \subseteq Tasks
  /\ Reader \notin Feeds /\ Reader \notin Cooldowns
  /\ \A w \in Cooldowns : w \notin Feeds
BY PushAssumption DEF Stats, Validation, Reader, Signals, Stored, Feeds, Tasks

LEMMA DoingIs ==
  ASSUME NEW pc \in Phases, NEW todo \in Seq(Signals), NEW forced \in BOOLEAN
  PROVE  /\ Doing(pc, todo, forced) \in Jobs
         /\ Doing(pc, todo, forced).pc = pc /\ Doing(pc, todo, forced).todo = todo
         /\ Doing(pc, todo, forced).data = 0
BY DEF Doing, Jobs

LEMMA IdleIs ==
  Idle \in Jobs /\ Idle.pc = "idle" /\ Idle.pc \notin Works /\ Idle.todo = <<>>
<1>1. "idle" \in Phases /\ <<>> \in Seq(Signals) /\ FALSE \in BOOLEAN
  BY DEF Phases
<1> QED
  BY <1>1, DoingIs DEF Idle, Works

\* A goroutine that takes up a well-formed job.
LEMMA JobKept ==
  ASSUME PushTypeOK, NEW p \in Tasks, NEW job \in Jobs,
         job.pc \in Works => job.todo # <<>>,
         task' = [task EXCEPT ![p] = job]
  PROVE  /\ task' \in [Tasks -> Jobs]
         /\ \A q \in Tasks : task'[q].pc \in Works => task'[q].todo # <<>>
BY DEF PushTypeOK, Jobs, Works

LEMMA TaskIs ==
  ASSUME PushTypeOK, NEW p \in Tasks
  PROVE  /\ task[p] \in Jobs /\ task[p].pc \in Phases /\ task[p].todo \in Seq(Signals)
         /\ task[p].forced \in BOOLEAN /\ task[p].data \in Nat
         /\ task[p].pc \in Works =>
              /\ task[p].todo # <<>> /\ Head(task[p].todo) \in Signals
              /\ 1 \in DOMAIN task[p].todo /\ task[p].todo[1] = Head(task[p].todo)
              /\ Tail(task[p].todo) \in Seq(Signals)
<1>1. /\ task[p] \in Jobs /\ task[p].pc \in Phases /\ task[p].todo \in Seq(Signals)
      /\ task[p].forced \in BOOLEAN /\ task[p].data \in Nat
      /\ task[p].pc \in Works => task[p].todo # <<>>
  BY DEF PushTypeOK, Jobs, Works
<1>2. ASSUME NEW q \in Seq(Signals), q # <<>>
      PROVE  /\ Head(q) \in Signals /\ 1 \in DOMAIN q /\ q[1] = Head(q)
             /\ Tail(q) \in Seq(Signals)
  BY <1>2
<1> QED
  BY <1>1, <1>2

\* What follows the signal just dealt with keeps the rest of the list.
LEMMA FollowingIs ==
  ASSUME PushTypeOK, NEW p \in Tasks, task[p].pc \in Works
  PROVE  /\ Following(p) \in Jobs
         /\ Following(p).pc \in Works => Following(p).todo # <<>>
         /\ \A s, v : (\E i \in DOMAIN task[p].todo : i > 1 /\ task[p].todo[i] = s)
                      => Brings(p, Following(p), s, v)
<1>1. PICK q \in Seq(Signals) : q = task[p].todo /\ q # <<>>
  BY TaskIs
<1>2. CASE Len(q) = 1
  <2>1. Following(p) = Idle
    BY <1>1, <1>2 DEF Following
  <2>2. \A i \in DOMAIN q : ~(i > 1)
    BY <1>2
  <2> QED
    BY <1>1, <2>1, <2>2, IdleIs
<1>3. CASE Len(q) # 1
  <2> PICK pc : pc = IF p = Reader THEN "query" ELSE "push"
    OBVIOUS
  <2>1. /\ Tail(q) \in Seq(Signals) /\ Tail(q) # <<>>
        /\ \A i \in DOMAIN q : i > 1 => i - 1 \in DOMAIN Tail(q) /\ Tail(q)[i - 1] = q[i]
    <3>1. Len(q) \in Nat /\ Len(q) > 1 /\ DOMAIN q = 1..Len(q)
      <4>1. Len(q) \in Nat /\ DOMAIN q = 1..Len(q)
        BY LenProperties
      <4>2. Len(q) # 0
        BY <1>1
      <4> QED
        BY <1>3, <4>1, <4>2
    <3>2. /\ Tail(q) \in Seq(Signals) /\ Len(Tail(q)) = Len(q) - 1
          /\ \A j \in 1..Len(Tail(q)) : Tail(q)[j] = q[j + 1]
      BY <1>1, HeadTailProperties
    <3>3. DOMAIN Tail(q) = 1..Len(q) - 1 /\ Tail(q) # <<>>
      <4>1. DOMAIN Tail(q) = 1..Len(Tail(q))
        BY <3>2, LenProperties
      <4>2. PICK n \in Nat : n = Len(q) /\ n > 1
        BY <3>1
      <4>3. Len(Tail(q)) = n - 1
        BY <3>2, <4>2
      <4>4. Len(Tail(q)) # 0
        BY <4>2, <4>3
      <4> QED
        BY <3>2, <4>1, <4>4
    <3>4. ASSUME NEW i \in DOMAIN q, i > 1
          PROVE  i - 1 \in DOMAIN Tail(q) /\ Tail(q)[i - 1] = q[i]
      <4>1. i - 1 \in 1..Len(Tail(q)) /\ (i - 1) + 1 = i
        BY <3>1, <3>2, <3>4
      <4> QED
        BY <3>1, <3>2, <3>3, <4>1
    <3> QED
      BY <3>2, <3>3, <3>4
  <2>2. pc \in Phases /\ pc \in {"push", "query"}
    BY DEF Phases
  <2>3. Following(p) = Doing(pc, Tail(q), task[p].forced)
    BY <1>1, <1>3 DEF Following
  <2>4. task[p].forced \in BOOLEAN
    BY TaskIs
  <2>5. /\ Following(p) \in Jobs /\ Following(p).pc = pc /\ Following(p).todo = Tail(q)
    BY <2>1, <2>2, <2>3, <2>4 DEF Doing, Jobs
  <2>6. ASSUME NEW s, NEW v, NEW i \in DOMAIN q, i > 1, q[i] = s
        PROVE  Brings(p, Following(p), s, v)
    <3>1. i - 1 \in DOMAIN Following(p).todo /\ Following(p).todo[i - 1] = s
      BY <2>1, <2>5, <2>6
    <3> QED
      BY <2>2, <2>5, <3>1 DEF Brings
  <2> QED
    BY <1>1, <2>1, <2>5, <2>6
<1> QED
  BY <1>2, <1>3

\* A goroutine's step takes something off its way only if it brings it on.
LEMMA StillOnItsWay ==
  ASSUME PushTypeOK, NEW p \in Tasks, NEW job, task' = [task EXCEPT ![p] = job],
         UNCHANGED <<version, owed, channel>>, pending \subseteq pending',
         NEW s, OnItsWay(s),
         Brings(p, task[p], s, version[s]) =>
           Brings(p, job, s, version[s]) \/ s \in pending'
  PROVE  OnItsWay(s)'
<1>1. /\ task'[p] = job /\ \A q \in Tasks : q # p => task'[q] = task[q]
      /\ version' = version /\ owed' = owed /\ channel' = channel
  BY DEF PushTypeOK
<1>2. CASE \E q \in Tasks : Brings(q, task[q], s, version[s])
  <2>1. PICK q \in Tasks : Brings(q, task[q], s, version[s])
    BY <1>2
  <2>2. CASE q = p
    BY <1>1, <2>1, <2>2 DEF OnItsWay
  <2>3. CASE q # p
    <3>1. Brings(q, task'[q], s, version'[s])
      BY <1>1, <2>1, <2>3
    <3> QED
      BY <3>1 DEF OnItsWay
  <2> QED
    BY <2>2, <2>3
<1>3. CASE \E sig \in Stored : owed[sig] > 0 /\ Carries(sig, s)
  BY <1>1, <1>3 DEF OnItsWay
<1>4. CASE \E f \in Feeds : \E i \in DOMAIN channel[f] : Carries(channel[f][i], s)
  BY <1>1, <1>4 DEF OnItsWay
<1>5. CASE s \in pending
  BY <1>5 DEF OnItsWay
<1> QED
  BY <1>2, <1>3, <1>4, <1>5 DEF OnItsWay

\* While the way of everything is kept, so is the promise.
LEMMA PromiseKept ==
  ASSUME NothingIsForgotten, UNCHANGED <<version, newest>>, Watching' => Watching,
         missed \subseteq missed',
         \A s \in Signals : Watching /\ Watching' /\ OnItsWay(s) => OnItsWay(s)'
  PROVE  NothingIsForgotten'
<1> SUFFICES ASSUME Watching', NEW s \in Signals \ missed', newest'[s] < version'[s]
             PROVE  OnItsWay(s)'
  BY DEF NothingIsForgotten
<1>1. Watching /\ s \in Signals \ missed /\ newest[s] < version[s]
  OBVIOUS
<1> QED
  BY <1>1 DEF NothingIsForgotten

LEMMA ChangeTelemetryKeeps ==
  ASSUME PutOffIsOwed, NEW changed \in (SUBSET TelemetrySignals) \ {{}},
         ChangeTelemetry(changed)
  PROVE  PutOffIsOwed'
<1>1. /\ version' = [s \in Signals |->
           IF s \in changed \cup {Stats} THEN version[s] + 1 ELSE version[s]]
      /\ owed' = [s \in Stored |-> IF s \in changed THEN owed[s] + 1 ELSE owed[s]]
      /\ unseen' = (unseen \/ paused)
      /\ UNCHANGED <<channel, conn, task, browser, newest, missed>>
      /\ version \in [Signals -> Nat] /\ owed \in [Stored -> Nat]
  BY DEF ChangeTelemetry, PutOffIsOwed, PushTypeOK
<1>2. version' \in [Signals -> Nat] /\ owed' \in [Stored -> Nat]
  BY <1>1
<1>3. PushTypeOK' /\ PutOffHasACooldown'
  BY <1>1, <1>2 DEF PutOffIsOwed, PushTypeOK, PutOffHasACooldown, conn, browser
<1>4. NothingIsForgotten'
  <2> SUFFICES ASSUME Watching', NEW s \in Signals \ missed', newest'[s] < version'[s]
               PROVE  OnItsWay(s)'
    BY DEF NothingIsForgotten
  <2>1. PICK first \in changed : first \in Stored /\ first # Validation
    BY SignalsAre
  <2>2. \A x \in Stored : owed'[x] >= owed[x] /\ (x \in changed => owed'[x] > 0)
    BY <1>1
  <2>3. CASE s \in changed
    <3>1. s \in Stored /\ owed'[s] > 0 /\ Carries(s, s)
      BY <2>2, <2>3, SignalsAre DEF Carries
    <3> QED
      BY <3>1 DEF OnItsWay
  <2>4. CASE s = Stats
    <3>1. owed'[first] > 0 /\ Carries(first, s)
      BY <2>1, <2>2, <2>4 DEF Carries
    <3> QED
      BY <2>1, <3>1 DEF OnItsWay
  <2>5. CASE s \notin changed /\ s # Stats
    <3>1. version'[s] = version[s]
      BY <1>1, <2>5
    <3>2. Watching /\ s \in Signals \ missed /\ newest[s] < version[s]
      BY <1>1, <3>1 DEF Watching, conn
    <3>3. OnItsWay(s)
      BY <3>2 DEF PutOffIsOwed, NothingIsForgotten
    <3>4. CASE \E sig \in Stored : owed[sig] > 0 /\ Carries(sig, s)
      <4>1. PICK sig \in Stored : owed[sig] > 0 /\ Carries(sig, s)
        BY <3>4
      <4>2. owed'[sig] > 0
        BY <1>1, <1>2, <2>2, <4>1
      <4> QED
        BY <4>1, <4>2 DEF OnItsWay
    <3>5. CASE ~\E sig \in Stored : owed[sig] > 0 /\ Carries(sig, s)
      <4>1. channel' = channel /\ task' = task /\ pending' = pending
        BY <1>1 DEF conn
      <4> QED
        BY <3>1, <3>3, <3>5, <4>1 DEF OnItsWay
    <3> QED
      BY <3>4, <3>5
  <2> QED
    BY <2>3, <2>4, <2>5
<1> QED
  BY <1>3, <1>4 DEF PutOffIsOwed

LEMMA ChangeValidationKeeps ==
  ASSUME PutOffIsOwed, ChangeValidation
  PROVE  PutOffIsOwed'
<1>1. /\ version' = [version EXCEPT ![Validation] = version[Validation] + 1]
      /\ owed' = [owed EXCEPT ![Validation] = owed[Validation] + 1]
      /\ UNCHANGED <<channel, conn, task, browser, history>>
      /\ version \in [Signals -> Nat] /\ owed \in [Stored -> Nat]
  BY DEF ChangeValidation, PutOffIsOwed, PushTypeOK
<1>2. version' \in [Signals -> Nat] /\ owed' \in [Stored -> Nat]
  BY <1>1, SignalsAre
<1>3. PushTypeOK' /\ PutOffHasACooldown'
  BY <1>1, <1>2 DEF PutOffIsOwed, PushTypeOK, PutOffHasACooldown, conn, browser, history
<1>4. NothingIsForgotten'
  <2> SUFFICES ASSUME Watching', NEW s \in Signals \ missed', newest'[s] < version'[s]
               PROVE  OnItsWay(s)'
    BY DEF NothingIsForgotten
  <2>1. \A x \in Stored : owed'[x] >= owed[x]
    BY <1>1
  <2>2. CASE s = Validation
    <3>1. owed'[Validation] > 0 /\ Validation \in Stored /\ Carries(Validation, s)
      BY <1>1, <2>2, SignalsAre DEF Carries
    <3> QED
      BY <3>1 DEF OnItsWay
  <2>3. CASE s # Validation
    <3>1. version'[s] = version[s]
      BY <1>1, <2>3
    <3>2. Watching /\ s \in Signals \ missed /\ newest[s] < version[s]
      BY <1>1, <3>1 DEF Watching, conn, history
    <3>3. OnItsWay(s)
      BY <3>2 DEF PutOffIsOwed, NothingIsForgotten
    <3>4. CASE \E sig \in Stored : owed[sig] > 0 /\ Carries(sig, s)
      <4>1. PICK sig \in Stored : owed[sig] > 0 /\ Carries(sig, s)
        BY <3>4
      <4>2. owed'[sig] > 0
        BY <1>1, <1>2, <2>1, <4>1
      <4> QED
        BY <4>1, <4>2 DEF OnItsWay
    <3>5. CASE ~\E sig \in Stored : owed[sig] > 0 /\ Carries(sig, s)
      <4>1. channel' = channel /\ task' = task /\ pending' = pending
        BY <1>1 DEF conn
      <4> QED
        BY <3>1, <3>3, <3>5, <4>1 DEF OnItsWay
    <3> QED
      BY <3>4, <3>5
  <2> QED
    BY <2>2, <2>3
<1> QED
  BY <1>3, <1>4 DEF PutOffIsOwed

\* What a subscriber's channel holds.
LEMMA ChannelIs ==
  ASSUME PushTypeOK, NEW f \in Feeds
  PROVE  /\ channel[f] \in Seq(Stored) /\ Len(channel[f]) \in Nat
         /\ Len(channel[f]) <= ChannelSize /\ DOMAIN channel[f] = 1..Len(channel[f])
         /\ \A i \in DOMAIN channel[f] : channel[f][i] \in Stored /\ FeedOf(channel[f][i]) = f
<1>1. /\ channel[f] \in Seq(Stored) /\ Len(channel[f]) <= ChannelSize
      /\ \A i \in DOMAIN channel[f] : FeedOf(channel[f][i]) = f
  BY DEF PushTypeOK
<1>2. Len(channel[f]) \in Nat /\ DOMAIN channel[f] = 1..Len(channel[f])
  BY <1>1, LenProperties
<1> QED
  BY <1>1, <1>2, ElementOfSeq

LEMMA Appended ==
  ASSUME NEW q \in Seq(Stored), NEW s \in Stored
  PROVE  /\ Append(q, s) \in Seq(Stored) /\ Len(Append(q, s)) = Len(q) + 1
         /\ DOMAIN Append(q, s) = 1..Len(q) + 1 /\ Len(q) \in Nat
         /\ \A i \in DOMAIN q : i \in DOMAIN Append(q, s) /\ Append(q, s)[i] = q[i]
         /\ Len(q) + 1 \in DOMAIN Append(q, s) /\ Append(q, s)[Len(q) + 1] = s
         /\ \A i \in DOMAIN Append(q, s) : i \in DOMAIN q \/ Append(q, s)[i] = s
<1>1. Len(q) \in Nat /\ DOMAIN q = 1..Len(q)
  BY LenProperties
<1>2. /\ Append(q, s) \in Seq(Stored) /\ Len(Append(q, s)) = Len(q) + 1
      /\ \A i \in 1..Len(q) : Append(q, s)[i] = q[i]
      /\ Append(q, s)[Len(q) + 1] = s
  BY AppendProperties
<1>3. DOMAIN Append(q, s) = 1..Len(q) + 1
  BY <1>2, LenProperties
<1>4. \A i \in 1..Len(q) + 1 : i \in 1..Len(q) \/ i = Len(q) + 1
  BY <1>1
<1>5. Len(q) + 1 \in 1..Len(q) + 1 /\ \A i \in 1..Len(q) : i \in 1..Len(q) + 1
  BY <1>1
<1> QED
  BY <1>1, <1>2, <1>3, <1>4, <1>5

LEMMA NotifyKeeps ==
  ASSUME PutOffIsOwed, NEW sig \in Stored, Notify(sig)
  PROVE  PutOffIsOwed'
<1>1. PICK f \in Feeds : f = FeedOf(sig)
  BY DEF FeedOf, Feeds
<1>2. /\ owed[sig] > 0 /\ owed' = [owed EXCEPT ![sig] = owed[sig] - 1]
      /\ UNCHANGED <<version, conn, task, browser, newest, unseen>>
      /\ owed \in [Stored -> Nat] /\ channel \in [Feeds -> Seq(Stored)]
      /\ missed \subseteq TelemetrySignals /\ PushTypeOK
      /\ ChannelSize \in Nat \ {0}
  BY PushAssumption DEF Notify, PutOffIsOwed, PushTypeOK
<1>3. owed' \in [Stored -> Nat] /\ \A x \in Stored : x # sig => owed'[x] = owed[x]
  BY <1>2
<1>4. /\ channel[f] \in Seq(Stored) /\ Len(channel[f]) \in Nat
      /\ Len(channel[f]) <= ChannelSize /\ DOMAIN channel[f] = 1..Len(channel[f])
      /\ \A i \in DOMAIN channel[f] : channel[f][i] \in Stored /\ FeedOf(channel[f][i]) = f
  BY <1>2, ChannelIs
<1>5. CASE /\ Len(channel[f]) < ChannelSize
           /\ channel' = [channel EXCEPT ![f] = Append(channel[f], sig)]
           /\ missed' = missed
  <2>1. /\ Append(channel[f], sig) \in Seq(Stored)
        /\ Len(Append(channel[f], sig)) = Len(channel[f]) + 1
        /\ \A i \in DOMAIN channel[f] : i \in DOMAIN Append(channel[f], sig)
                                       /\ Append(channel[f], sig)[i] = channel[f][i]
        /\ \A i \in DOMAIN Append(channel[f], sig) :
             i \in DOMAIN channel[f] \/ Append(channel[f], sig)[i] = sig
        /\ \E i \in DOMAIN Append(channel[f], sig) : Append(channel[f], sig)[i] = sig
    BY <1>4, Appended
  <2>2. PICK q \in Seq(Stored) : q = Append(channel[f], sig)
    BY <2>1
  <2>3. /\ channel' \in [Feeds -> Seq(Stored)] /\ channel'[f] = q
        /\ \A g \in Feeds : g # f => channel'[g] = channel[g]
    BY <1>2, <1>5, <2>2
  <2>4. Len(q) <= ChannelSize /\ \A i \in DOMAIN q : FeedOf(q[i]) = f
    <3>1. Len(q) <= ChannelSize
      BY <1>2, <1>4, <1>5, <2>1, <2>2
    <3>2. \A i \in DOMAIN q : FeedOf(q[i]) = f
      BY <1>1, <1>4, <2>1, <2>2
    <3> QED
      BY <3>1, <3>2
  <2>5. PushTypeOK' /\ PutOffHasACooldown'
    BY <1>2, <1>3, <1>5, <2>3, <2>4
       DEF PutOffIsOwed, PushTypeOK, PutOffHasACooldown, conn, browser
  <2>6. NothingIsForgotten'
    <3>1. ASSUME NEW s \in Signals, OnItsWay(s) PROVE OnItsWay(s)'
      <4>1. CASE \E x \in Stored : owed[x] > 0 /\ Carries(x, s)
        <5>1. PICK x \in Stored : owed[x] > 0 /\ Carries(x, s)
          BY <4>1
        <5>2. CASE x = sig
          <6>1. \E i \in DOMAIN channel'[f] : Carries(channel'[f][i], s)
            BY <2>1, <2>2, <2>3, <5>1, <5>2
          <6> QED
            BY <6>1 DEF OnItsWay
        <5>3. CASE x # sig
          <6>1. owed'[x] > 0
            BY <1>3, <5>1, <5>3
          <6> QED
            BY <5>1, <6>1 DEF OnItsWay
        <5> QED
          BY <5>2, <5>3
      <4>2. CASE \E g \in Feeds : \E i \in DOMAIN channel[g] : Carries(channel[g][i], s)
        <5>1. \E g \in Feeds : \E i \in DOMAIN channel'[g] : Carries(channel'[g][i], s)
          BY <2>1, <2>2, <2>3, <4>2
        <5> QED
          BY <5>1 DEF OnItsWay
      <4>3. CASE (\E p \in Tasks : Brings(p, task[p], s, version[s])) \/ s \in pending
        <5>1. task' = task /\ version' = version /\ pending' = pending
          BY <1>2 DEF conn
        <5> QED
          BY <4>3, <5>1 DEF OnItsWay
      <4> QED
        BY <3>1, <4>1, <4>2, <4>3 DEF OnItsWay
    <3>2. Watching' => Watching
      BY <1>2 DEF Watching, conn
    <3> QED
      BY <1>2, <1>5, <3>1, <3>2, PromiseKept DEF PutOffIsOwed
  <2> QED
    BY <2>5, <2>6 DEF PutOffIsOwed
<1>6. CASE /\ Len(channel[f]) = ChannelSize /\ channel' = channel
           /\ missed' = IF \E i \in DOMAIN channel[f] : channel[f][i] = sig
                          THEN missed ELSE missed \cup {sig}
  <2>1. /\ 1 \in DOMAIN channel[f]
        /\ channel[f][1] \in Stored /\ FeedOf(channel[f][1]) = FeedOf(sig)
    BY <1>1, <1>2, <1>4, <1>6
  <2>2. sig = Validation => channel[f][1] = sig
    BY <2>1 DEF FeedOf
  <2>3. sig # Validation => sig \in TelemetrySignals /\ channel[f][1] # Validation
    BY <2>1 DEF FeedOf, Stored
  <2>4. missed' \subseteq TelemetrySignals
    BY <1>2, <1>6, <2>1, <2>2, <2>3
  <2>5. PushTypeOK' /\ PutOffHasACooldown'
    BY <1>2, <1>3, <1>6, <2>4
       DEF PutOffIsOwed, PushTypeOK, PutOffHasACooldown, conn, browser
  <2>6. NothingIsForgotten'
    <3> SUFFICES ASSUME Watching', NEW s \in Signals \ missed', newest'[s] < version'[s]
                 PROVE  OnItsWay(s)'
      BY DEF NothingIsForgotten
    <3>1. task' = task /\ version' = version /\ pending' = pending /\ newest' = newest
      BY <1>2 DEF conn
    <3>2. Watching /\ s \notin missed
      BY <1>2, <1>6 DEF Watching, conn
    <3>3. OnItsWay(s)
      BY <3>1, <3>2 DEF PutOffIsOwed, NothingIsForgotten
    <3>4. CASE \E x \in Stored : owed[x] > 0 /\ Carries(x, s)
      <4>1. PICK x \in Stored : owed[x] > 0 /\ Carries(x, s)
        BY <3>4
      <4>2. CASE x # sig
        <5>1. owed'[x] > 0
          BY <1>3, <4>1, <4>2
        <5> QED
          BY <4>1, <5>1 DEF OnItsWay
      <4>3. CASE x = sig
        <5>1. CASE s = sig
          <6>1. \E i \in DOMAIN channel[f] : channel[f][i] = sig
            BY <1>6, <5>1
          <6>2. \E i \in DOMAIN channel'[f] : Carries(channel'[f][i], s)
            BY <1>6, <5>1, <6>1 DEF Carries
          <6> QED
            BY <6>2 DEF OnItsWay
        <5>2. CASE s # sig
          <6>1. s = Stats /\ sig # Validation
            BY <4>1, <4>3, <5>2 DEF Carries
          <6>2. Carries(channel[f][1], s)
            BY <2>3, <6>1 DEF Carries
          <6>3. \E i \in DOMAIN channel'[f] : Carries(channel'[f][i], s)
            BY <1>6, <2>1, <6>2
          <6> QED
            BY <6>3 DEF OnItsWay
        <5> QED
          BY <5>1, <5>2
      <4> QED
        BY <4>2, <4>3
    <3>5. CASE ~\E x \in Stored : owed[x] > 0 /\ Carries(x, s)
      BY <1>6, <3>1, <3>3, <3>5 DEF OnItsWay
    <3> QED
      BY <3>4, <3>5
  <2> QED
    BY <2>5, <2>6 DEF PutOffIsOwed
<1> QED
  BY <1>1, <1>5, <1>6 DEF Notify

LEMMA ReceiveKeeps ==
  ASSUME PutOffIsOwed, NEW f \in Feeds, Receive(f)
  PROVE  PutOffIsOwed'
<1>1. /\ task[f].pc = "idle" /\ channel[f] # <<>>
      /\ channel' = [channel EXCEPT ![f] = Tail(channel[f])]
      /\ UNCHANGED <<version, owed, conn, browser, history>>
      /\ channel \in [Feeds -> Seq(Stored)] /\ PushTypeOK
  BY DEF Receive, PutOffIsOwed, PushTypeOK
<1>2. PICK q \in Seq(Stored) : q = channel[f] /\ q # <<>> /\ Len(q) <= ChannelSize
                               /\ \A i \in DOMAIN q : FeedOf(q[i]) = f
  BY <1>1, ChannelIs
<1>3. PICK rest \in Seq(Stored) :
        /\ rest = Tail(q) /\ Len(rest) <= ChannelSize
        /\ \A i \in DOMAIN rest : FeedOf(rest[i]) = f
        /\ \A i \in DOMAIN q : q[i] = Head(q) \/ (i - 1 \in DOMAIN rest /\ rest[i - 1] = q[i])
  <2>1. Len(q) \in Nat /\ DOMAIN q = 1..Len(q) /\ Len(q) # 0 /\ ChannelSize \in Nat
    <3>1. Len(q) \in Nat /\ DOMAIN q = 1..Len(q)
      BY LenProperties
    <3>2. Len(q) # 0
      BY <1>2
    <3> QED
      BY <3>1, <3>2, PushAssumption
  <2>2. /\ Head(q) = q[1] /\ Tail(q) \in Seq(Stored) /\ Len(Tail(q)) = Len(q) - 1
        /\ \A i \in 1..Len(Tail(q)) : Tail(q)[i] = q[i + 1]
    BY <1>2, HeadTailProperties
  <2>3. DOMAIN Tail(q) = 1..Len(Tail(q))
    BY <2>2, LenProperties
  <2>4. \A i \in 1..Len(q) : i = 1 \/ (i - 1 \in 1..Len(q) - 1 /\ (i - 1) + 1 = i)
    BY <2>1
  <2>5. Len(q) - 1 <= ChannelSize /\ \A i \in 1..Len(q) - 1 : i + 1 \in 1..Len(q)
    BY <1>2, <2>1
  <2>6. PICK rest \in Seq(Stored) : rest = Tail(q)
    BY <2>2
  <2>7. /\ Len(rest) <= ChannelSize /\ DOMAIN rest = 1..Len(q) - 1
        /\ \A i \in 1..Len(q) - 1 : rest[i] = q[i + 1]
    BY <2>2, <2>3, <2>5, <2>6
  <2>8. ASSUME NEW i \in DOMAIN rest PROVE FeedOf(rest[i]) = f
    <3>1. i + 1 \in DOMAIN q /\ rest[i] = q[i + 1]
      BY <2>1, <2>5, <2>7
    <3> QED
      BY <1>2, <3>1
  <2>9. ASSUME NEW i \in DOMAIN q
        PROVE  q[i] = Head(q) \/ (i - 1 \in DOMAIN rest /\ rest[i - 1] = q[i])
    <3>1. CASE i = 1
      BY <2>2, <3>1
    <3>2. CASE i # 1
      <4>1. i - 1 \in 1..Len(q) - 1 /\ (i - 1) + 1 = i
        BY <2>1, <2>4, <3>2
      <4> QED
        BY <2>7, <4>1
    <3> QED
      BY <3>1, <3>2
  <2> QED
    BY <2>6, <2>7, <2>8, <2>9
<1>4. /\ channel' \in [Feeds -> Seq(Stored)] /\ channel'[f] = rest
      /\ \A g \in Feeds : g # f => channel'[g] = channel[g]
  BY <1>1, <1>2, <1>3
<1>5. /\ Head(q) \in Stored /\ <<Head(q)>> \in Seq(Signals) /\ <<Head(q)>> # <<>>
      /\ <<Head(q)>>[1] = Head(q)
  BY <1>2, SignalsAre
<1>6. PICK job : job = Doing("signal", <<Head(q)>>, FALSE)
  OBVIOUS
<1>7. job \in Jobs /\ job.pc = "signal" /\ job.todo = <<Head(q)>>
  BY <1>5, <1>6 DEF Doing, Jobs, Phases
<1>8. f \in Tasks /\ task' = IF open THEN [task EXCEPT ![f] = job] ELSE task
  BY <1>2, <1>6, SignalsAre DEF Receive
<1>9. /\ task' \in [Tasks -> Jobs]
      /\ \A p \in Tasks : task'[p].pc \in Works => task'[p].todo # <<>>
  <2>1. CASE open
    BY <1>1, <1>5, <1>7, <1>8, <2>1, JobKept
  <2>2. CASE ~open
    BY <1>1, <1>8, <2>2 DEF PushTypeOK, Jobs, Works
  <2> QED
    BY <2>1, <2>2
<1>10. PushTypeOK' /\ PutOffHasACooldown'
  BY <1>1, <1>3, <1>4, <1>9
     DEF PutOffIsOwed, PushTypeOK, PutOffHasACooldown, conn, browser, history, Jobs, Works
<1>11. ASSUME NEW s \in Signals, Watching, OnItsWay(s) PROVE OnItsWay(s)'
  <2>1. task' = [task EXCEPT ![f] = job] /\ task \in [Tasks -> Jobs]
    BY <1>1, <1>8, <1>11 DEF Watching, PushTypeOK, Jobs
  <2>2. task'[f] = job /\ \A p \in Tasks : p # f => task'[p] = task[p]
    BY <1>8, <2>1
  <2>3. CASE \E g \in Feeds : \E i \in DOMAIN channel[g] : Carries(channel[g][i], s)
    <3>1. PICK g \in Feeds : \E i \in DOMAIN channel[g] : Carries(channel[g][i], s)
      BY <2>3
    <3>2. PICK i \in DOMAIN channel[g] : Carries(channel[g][i], s)
      BY <3>1
    <3>3. CASE g # f
      BY <1>4, <3>2, <3>3 DEF OnItsWay
    <3>4. CASE g = f /\ q[i] = Head(q)
      <4>1. Brings(f, task'[f], s, version'[s])
        BY <1>2, <1>5, <1>7, <2>2, <3>2, <3>4 DEF Brings
      <4> QED
        BY <1>8, <4>1 DEF OnItsWay
    <3>5. CASE g = f /\ q[i] # Head(q)
      <4>1. i - 1 \in DOMAIN channel'[f] /\ Carries(channel'[f][i - 1], s)
        BY <1>2, <1>3, <1>4, <3>2, <3>5
      <4> QED
        BY <4>1 DEF OnItsWay
    <3> QED
      BY <3>3, <3>4, <3>5
  <2>4. CASE \E p \in Tasks : Brings(p, task[p], s, version[s])
    <3>1. PICK p \in Tasks : Brings(p, task[p], s, version[s])
      BY <2>4
    <3>2. p # f
      BY <1>1, <3>1, SignalsAre DEF Brings
    <3>3. Brings(p, task'[p], s, version'[s])
      BY <1>1, <2>2, <3>1, <3>2
    <3> QED
      BY <3>3 DEF OnItsWay
  <2>5. CASE s \in pending \/ \E sig \in Stored : owed[sig] > 0 /\ Carries(sig, s)
    <3>1. pending' = pending /\ owed' = owed
      BY <1>1 DEF conn
    <3> QED
      BY <2>5, <3>1 DEF OnItsWay
  <2> QED
    BY <1>11, <2>3, <2>4, <2>5 DEF OnItsWay
<1>12. NothingIsForgotten'
  <2>1. (Watching' => Watching) /\ version' = version /\ newest' = newest /\ missed' = missed
    BY <1>1 DEF Watching, conn, history
  <2> QED
    BY <1>11, <2>1, PromiseKept DEF PutOffIsOwed
<1> QED
  BY <1>10, <1>12 DEF PutOffIsOwed

\* A goroutine that only takes up another job.
LEMMA JobKeeps ==
  ASSUME PutOffIsOwed, NEW p \in Tasks, NEW job \in Jobs,
         job.pc \in Works => job.todo # <<>>,
         task' = [task EXCEPT ![p] = job],
         UNCHANGED <<store, conn, view, newest, missed, unseen>>,
         told' \in BOOLEAN, commands' \in 0..MaxCommands,
         \A s \in Signals : Watching /\ Brings(p, task[p], s, version[s])
                              => Brings(p, job, s, version[s])
  PROVE  PutOffIsOwed'
<1>1. PushTypeOK
  BY DEF PutOffIsOwed
<1>2. /\ task' \in [Tasks -> Jobs]
      /\ \A q \in Tasks : task'[q].pc \in Works => task'[q].todo # <<>>
  BY <1>1, JobKept
<1>3. PushTypeOK' /\ PutOffHasACooldown'
  BY <1>2 DEF PutOffIsOwed, PushTypeOK, PutOffHasACooldown, store, conn, Jobs, Works
<1>4. ASSUME NEW s \in Signals, Watching, OnItsWay(s) PROVE OnItsWay(s)'
  BY <1>1, <1>4, StillOnItsWay DEF store, conn
<1>5. (Watching' => Watching) /\ version' = version
  BY DEF Watching, conn, store
<1> QED
  BY <1>3, <1>4, <1>5, PromiseKept DEF PutOffIsOwed

LEMMA OnSignalKeeps ==
  ASSUME PutOffIsOwed, NEW f \in Feeds, OnSignal(f)
  PROVE  PutOffIsOwed'
<1>1. PushTypeOK /\ task[f].pc = "signal" /\ f \in Tasks /\ "signal" \in Works
  BY SignalsAre DEF OnSignal, PutOffIsOwed, Works
<1>2. PICK sig \in Signals : sig = task[f].todo[1]
  BY <1>1, TaskIs
<1>3. PICK job : job = IF ~subscribed THEN Idle
                       ELSE IF sig = Validation THEN Doing("push", <<sig>>, paused)
                       ELSE IF ~paused THEN Doing("push", <<sig, Stats>>, FALSE)
                       ELSE IF pausedNotified THEN Idle
                       ELSE Doing("announce", <<>>, FALSE)
  OBVIOUS
<1>4. /\ task' = [task EXCEPT ![f] = job]
      /\ pausedNotified' = (pausedNotified \/ job.pc = "announce")
      /\ UNCHANGED <<store, open, subscribed, paused, timers, overPause, pending,
                     browser, history>>
  BY <1>2, <1>3 DEF OnSignal
<1>5. /\ job \in Jobs /\ (job.pc \in Works => job.todo # <<>>)
      /\ subscribed /\ ~paused => job.pc = "push" /\ job.todo[1] = sig /\ 1 \in DOMAIN job.todo
      /\ subscribed /\ ~paused /\ sig # Validation => job.todo[2] = Stats /\ 2 \in DOMAIN job.todo
  <2>1. paused \in BOOLEAN /\ FALSE \in BOOLEAN
    BY <1>1 DEF PushTypeOK
  <2>2. /\ <<sig>> \in Seq(Signals) /\ <<sig>> # <<>> /\ <<sig>>[1] = sig
        /\ 1 \in DOMAIN <<sig>>
        /\ <<sig, Stats>> \in Seq(Signals) /\ <<sig, Stats>> # <<>>
        /\ <<sig, Stats>>[1] = sig /\ <<sig, Stats>>[2] = Stats
        /\ 1 \in DOMAIN <<sig, Stats>> /\ 2 \in DOMAIN <<sig, Stats>>
        /\ <<>> \in Seq(Signals)
    BY SignalsAre
  <2>3. "push" \in Phases /\ "announce" \in Phases /\ "announce" \notin Works
    BY DEF Phases, Works
  <2>4. CASE job = Idle /\ ~(subscribed /\ ~paused)
    BY <2>4, IdleIs
  <2>5. CASE job = Doing("push", <<sig>>, paused) /\ sig = Validation
    <3>1. /\ job \in Jobs /\ job.pc = "push" /\ job.todo = <<sig>>
      BY <2>1, <2>2, <2>3, <2>5 DEF Doing, Jobs
    <3> QED
      BY <2>2, <2>5, <3>1
  <2>6. CASE job = Doing("push", <<sig, Stats>>, FALSE)
    <3>1. /\ job \in Jobs /\ job.pc = "push" /\ job.todo = <<sig, Stats>>
      BY <2>1, <2>2, <2>3, <2>6 DEF Doing, Jobs
    <3> QED
      BY <2>2, <3>1
  <2>7. CASE job = Doing("announce", <<>>, FALSE) /\ ~(subscribed /\ ~paused)
    <3>1. /\ job \in Jobs /\ job.pc = "announce"
      BY <2>1, <2>2, <2>3, <2>7 DEF Doing, Jobs
    <3> QED
      BY <2>3, <2>7, <3>1
  <2> QED
    BY <1>3, <2>4, <2>5, <2>6, <2>7
<1>6. ASSUME NEW s \in Signals, Watching, Brings(f, task[f], s, version[s])
      PROVE  Brings(f, job, s, version[s])
  <2>1. s = sig \/ (s = Stats /\ sig # Validation)
    BY <1>1, <1>2, <1>6, SignalsAre DEF Brings, Carries
  <2>2. subscribed /\ ~paused
    BY <1>6 DEF Watching
  <2> QED
    BY <1>5, <2>1, <2>2 DEF Brings
<1>7. /\ task' \in [Tasks -> Jobs]
      /\ \A q \in Tasks : task'[q].pc \in Works => task'[q].todo # <<>>
  BY <1>1, <1>4, <1>5, JobKept
<1>8. pausedNotified' \in BOOLEAN
  BY <1>4
<1>9. PushTypeOK' /\ PutOffHasACooldown'
  BY <1>4, <1>7, <1>8 DEF PutOffIsOwed, PushTypeOK, PutOffHasACooldown, store,
     browser, history, Jobs, Works
<1>10. ASSUME NEW s \in Signals, Watching, OnItsWay(s) PROVE OnItsWay(s)'
  BY <1>1, <1>4, <1>6, <1>10, StillOnItsWay DEF store
<1>11. (Watching' => Watching) /\ UNCHANGED <<version, newest, missed>>
  BY <1>4 DEF Watching, store, history
<1> QED
  BY <1>9, <1>10, <1>11, PromiseKept DEF PutOffIsOwed

LEMMA AnnounceKeeps ==
  ASSUME PutOffIsOwed, NEW f \in Feeds, Announce(f)
  PROVE  PutOffIsOwed'
<1>1. /\ task[f].pc = "announce" /\ f \in Tasks /\ f # Reader
      /\ task' = [task EXCEPT ![f] = Idle]
      /\ UNCHANGED <<store, conn, view, commands, newest, missed, unseen>>
      /\ told' \in BOOLEAN /\ commands' \in 0..MaxCommands
  BY SignalsAre DEF Announce, history, PutOffIsOwed, PushTypeOK
<1>2. \A s : ~Brings(f, task[f], s, version[s])
  BY <1>1 DEF Brings
<1> QED
  BY <1>1, <1>2, IdleIs, JobKeeps

LEMMA PushKeepsPromise ==
  ASSUME PutOffIsOwed, NEW p \in Tasks, Push(p)
  PROVE  PutOffIsOwed'
<1>1. /\ task[p].pc = "push" /\ "push" \in Works /\ PushTypeOK
      /\ UNCHANGED <<store, open, subscribed, paused, pausedNotified, browser, history>>
  BY DEF Push, Works, PutOffIsOwed
<1>2. PICK s0 \in Signals : /\ s0 = Head(task[p].todo) /\ s0 = task[p].todo[1]
                            /\ 1 \in DOMAIN task[p].todo
  BY <1>1, TaskIs
<1>3. PICK refused \in BOOLEAN : refused = (~subscribed \/ (paused /\ ~task[p].forced))
  OBVIOUS
<1>4. /\ Following(p) \in Jobs /\ (Following(p).pc \in Works => Following(p).todo # <<>>)
      /\ \A s, v : (\E i \in DOMAIN task[p].todo : i > 1 /\ task[p].todo[i] = s)
                   => Brings(p, Following(p), s, v)
  BY <1>1, FollowingIs
<1>5. \A s : Brings(p, task[p], s, version[s]) =>
               s = s0 \/ \E i \in DOMAIN task[p].todo : i > 1 /\ task[p].todo[i] = s
  <2> SUFFICES ASSUME NEW s, NEW i \in DOMAIN task[p].todo, task[p].todo[i] = s
               PROVE  s = s0 \/ \E j \in DOMAIN task[p].todo : j > 1 /\ task[p].todo[j] = s
    BY <1>1 DEF Brings
  <2>1. i \in Nat /\ i >= 1
    <3>1. task[p].todo \in Seq(Signals)
      BY <1>1, TaskIs
    <3>2. DOMAIN task[p].todo = 1..Len(task[p].todo) /\ Len(task[p].todo) \in Nat
      BY <3>1, LenProperties
    <3> QED
      BY <3>2
  <2>2. i = 1 \/ i > 1
    BY <2>1
  <2> QED
    BY <1>2, <2>2
<1>6. UNCHANGED <<version, owed, channel, newest, missed>> /\ (Watching' => Watching)
  BY <1>1 DEF store, history, Watching
<1>7. CASE refused /\ task' = [task EXCEPT ![p] = Following(p)]
           /\ UNCHANGED <<timers, overPause, pending>>
  <2>1. /\ task' \in [Tasks -> Jobs]
        /\ \A q \in Tasks : task'[q].pc \in Works => task'[q].todo # <<>>
    BY <1>1, <1>4, <1>7, JobKept
  <2>2. PushTypeOK' /\ PutOffHasACooldown'
    BY <1>1, <1>7, <2>1 DEF PutOffIsOwed, PushTypeOK, PutOffHasACooldown, store,
       browser, history, Jobs, Works
  <2>3. ~Watching
    BY <1>3, <1>7 DEF Watching
  <2>4. NothingIsForgotten'
    BY <1>6, <2>3 DEF NothingIsForgotten
  <2> QED
    BY <2>2, <2>4 DEF PutOffIsOwed
<1>8. CASE ~refused /\ s0 \in timers /\ pending' = pending \cup {s0}
           /\ task' = [task EXCEPT ![p] = Following(p)]
           /\ UNCHANGED <<timers, overPause>>
  <2>1. /\ task' \in [Tasks -> Jobs]
        /\ \A q \in Tasks : task'[q].pc \in Works => task'[q].todo # <<>>
    BY <1>1, <1>4, <1>8, JobKept
  <2>2. PushTypeOK' /\ PutOffHasACooldown'
    BY <1>1, <1>8, <2>1 DEF PutOffIsOwed, PushTypeOK, PutOffHasACooldown, store,
       browser, history, Jobs, Works
  <2>3. ASSUME NEW s \in Signals, OnItsWay(s) PROVE OnItsWay(s)'
    <3>1. Brings(p, task[p], s, version[s]) =>
            Brings(p, Following(p), s, version[s]) \/ s \in pending'
      BY <1>4, <1>5, <1>8
    <3> QED
      BY <1>1, <1>6, <1>8, <2>3, <3>1, StillOnItsWay
  <2> QED
    BY <1>6, <2>2, <2>3, PromiseKept DEF PutOffIsOwed
<1>9. CASE ~refused /\ s0 \notin timers /\ timers' = timers \cup {s0}
           /\ overPause' = (IF task[p].forced THEN overPause \cup {s0} ELSE overPause)
           /\ task' = [task EXCEPT ![p] = Doing("query", task[p].todo, task[p].forced)]
           /\ pending' = pending
  <2>1. PICK job : job = Doing("query", task[p].todo, task[p].forced)
    OBVIOUS
  <2>2. /\ job \in Jobs /\ job.pc = "query" /\ job.todo = task[p].todo
        /\ job.todo # <<>>
    <3>1. /\ task[p].todo \in Seq(Signals) /\ task[p].forced \in BOOLEAN
          /\ task[p].todo # <<>>
      BY <1>1, TaskIs
    <3> QED
      BY <2>1, <3>1 DEF Doing, Jobs, Phases
  <2>3. /\ task' \in [Tasks -> Jobs]
        /\ \A q \in Tasks : task'[q].pc \in Works => task'[q].todo # <<>>
    BY <1>1, <1>9, <2>1, <2>2, JobKept
  <2>4. PushTypeOK' /\ PutOffHasACooldown'
    BY <1>1, <1>9, <2>3 DEF PutOffIsOwed, PushTypeOK, PutOffHasACooldown, store,
       browser, history, Jobs, Works
  <2>5. \A s : Brings(p, task[p], s, version[s]) => Brings(p, job, s, version[s])
    BY <1>1, <2>2 DEF Brings
  <2>6. ASSUME NEW s \in Signals, OnItsWay(s) PROVE OnItsWay(s)'
    BY <1>1, <1>6, <1>9, <2>1, <2>5, <2>6, StillOnItsWay
  <2> QED
    BY <1>6, <2>4, <2>6, PromiseKept DEF PutOffIsOwed
<1> QED
  BY <1>2, <1>3, <1>7, <1>8, <1>9 DEF Push

LEMMA QueryKeeps ==
  ASSUME PutOffIsOwed, NEW p \in Tasks, Query(p)
  PROVE  PutOffIsOwed'
<1>1. /\ task[p].pc = "query" /\ "query" \in Works /\ PushTypeOK
      /\ UNCHANGED <<store, conn, browser, newest, unseen>>
  BY DEF Query, Works, PutOffIsOwed
<1>2. PICK s0 \in Signals : /\ s0 = Head(task[p].todo) /\ s0 = task[p].todo[1]
                            /\ 1 \in DOMAIN task[p].todo
  BY <1>1, TaskIs
<1>3. PICK job : job = [pc |-> "send", todo |-> task[p].todo,
                        forced |-> task[p].forced, data |-> version[s0]]
  OBVIOUS
<1>4. /\ job \in Jobs /\ job.pc = "send" /\ job.todo = task[p].todo
      /\ job.data = version[s0] /\ job.todo # <<>>
  <2>1. /\ task[p].todo \in Seq(Signals) /\ task[p].forced \in BOOLEAN
        /\ task[p].todo # <<>>
    BY <1>1, TaskIs
  <2>2. version[s0] \in Nat
    BY <1>1 DEF PushTypeOK
  <2> QED
    BY <1>3, <2>1, <2>2 DEF Jobs, Phases
<1>5. task' = [task EXCEPT ![p] = job] /\ missed' = missed \ {s0}
  BY <1>2, <1>3 DEF Query
<1>6. /\ task' \in [Tasks -> Jobs] /\ task'[p] = job
      /\ \A q \in Tasks : task'[q].pc \in Works => task'[q].todo # <<>>
  <2>1. task \in [Tasks -> Jobs]
    BY <1>1 DEF PushTypeOK, Jobs
  <2> QED
    BY <1>1, <1>4, <1>5, <2>1, JobKept
<1>7. PushTypeOK' /\ PutOffHasACooldown'
  BY <1>1, <1>5, <1>6 DEF PutOffIsOwed, PushTypeOK, PutOffHasACooldown, store, conn,
     browser, Jobs, Works
<1>8. NothingIsForgotten'
  <2> SUFFICES ASSUME Watching', NEW s \in Signals \ missed', newest'[s] < version'[s]
               PROVE  OnItsWay(s)'
    BY DEF NothingIsForgotten
  <2>1. CASE s = s0
    <3>1. Brings(p, task'[p], s, version'[s])
      BY <1>1, <1>2, <1>4, <1>6, <2>1 DEF Brings, store
    <3> QED
      BY <3>1 DEF OnItsWay
  <2>2. CASE s # s0
    <3>1. Watching /\ s \in Signals \ missed /\ newest[s] < version[s]
      BY <1>1, <1>5, <2>2 DEF Watching, conn, store
    <3>2. OnItsWay(s)
      BY <3>1 DEF PutOffIsOwed, NothingIsForgotten
    <3>3. ASSUME Brings(p, task[p], s, version[s])
          PROVE  Brings(p, job, s, version[s])
      <4>1. PICK i \in DOMAIN task[p].todo : task[p].todo[i] = s
        BY <1>1, <3>3 DEF Brings
      <4>2. i > 1
        <5>1. task[p].todo \in Seq(Signals)
          BY <1>1, TaskIs
        <5>2. i \in Nat /\ i >= 1
          BY <5>1, LenProperties
        <5>3. i # 1
          BY <1>2, <2>2, <4>1
        <5> QED
          BY <5>2, <5>3
      <4> QED
        BY <1>4, <4>1, <4>2 DEF Brings
    <3> QED
      BY <1>1, <1>5, <3>2, <3>3, StillOnItsWay DEF store, conn
  <2> QED
    BY <2>1, <2>2
<1> QED
  BY <1>7, <1>8 DEF PutOffIsOwed

LEMMA SendKeeps ==
  ASSUME PutOffIsOwed, NEW p \in Tasks, Send(p)
  PROVE  PutOffIsOwed'
<1>1. /\ task[p].pc = "send" /\ "send" \in Works /\ PushTypeOK
      /\ task' = [task EXCEPT ![p] = Following(p)]
      /\ UNCHANGED <<store, conn, told, commands, missed, unseen>>
  BY DEF Send, Works, PutOffIsOwed
<1>2. PICK s0 \in Signals : /\ s0 = Head(task[p].todo) /\ s0 = task[p].todo[1]
                            /\ 1 \in DOMAIN task[p].todo
  BY <1>1, TaskIs
<1>3. PICK d \in Nat : d = task[p].data
  BY <1>1, TaskIs
<1>4. /\ view' = (IF open THEN [view EXCEPT ![s0] = d] ELSE view)
      /\ newest' = (IF open /\ d > newest[s0] THEN [newest EXCEPT ![s0] = d] ELSE newest)
  BY <1>2, <1>3 DEF Send
<1>5. /\ view \in [Signals -> Nat] /\ newest \in [Signals -> Nat]
      /\ version \in [Signals -> Nat]
  BY <1>1 DEF PushTypeOK
<1>6. /\ view' \in [Signals -> Nat] /\ newest' \in [Signals -> Nat]
      /\ \A s \in Signals : newest'[s] >= newest[s]
      /\ open => newest'[s0] >= d
  BY <1>4, <1>5
<1>7. /\ Following(p) \in Jobs /\ (Following(p).pc \in Works => Following(p).todo # <<>>)
      /\ \A s, v : (\E i \in DOMAIN task[p].todo : i > 1 /\ task[p].todo[i] = s)
                   => Brings(p, Following(p), s, v)
  BY <1>1, FollowingIs
<1>8. /\ task' \in [Tasks -> Jobs]
      /\ \A q \in Tasks : task'[q].pc \in Works => task'[q].todo # <<>>
  BY <1>1, <1>7, JobKept
<1>9. PushTypeOK' /\ PutOffHasACooldown'
  BY <1>1, <1>6, <1>8 DEF PutOffIsOwed, PushTypeOK, PutOffHasACooldown, store, conn,
     Jobs, Works
<1>10. NothingIsForgotten'
  <2> SUFFICES ASSUME Watching', NEW s \in Signals \ missed', newest'[s] < version'[s]
               PROVE  OnItsWay(s)'
    BY DEF NothingIsForgotten
  <2>1. Watching /\ s \in Signals \ missed /\ version' = version /\ open
    BY <1>1 DEF Watching, conn, store
  <2>2. newest[s] < version[s]
    <3>1. newest[s] \in Nat /\ newest'[s] \in Nat /\ version[s] \in Nat
      BY <1>5, <1>6
    <3>2. newest'[s] >= newest[s] /\ newest'[s] < version[s]
      BY <1>6, <2>1
    <3> QED
      BY <3>1, <3>2
  <2>3. OnItsWay(s)
    BY <2>1, <2>2 DEF PutOffIsOwed, NothingIsForgotten
  <2>4. ASSUME Brings(p, task[p], s, version[s])
        PROVE  Brings(p, Following(p), s, version[s])
    <3>1. PICK i \in DOMAIN task[p].todo :
            task[p].todo[i] = s /\ (i > 1 \/ task[p].data = version[s])
      BY <1>1, <2>4 DEF Brings
    <3>2. CASE i > 1
      BY <1>7, <3>1, <3>2
    <3>3. CASE ~(i > 1)
      <4>1. i = 1
        <5>1. task[p].todo \in Seq(Signals)
          BY <1>1, TaskIs
        <5>2. i \in Nat /\ i >= 1
          BY <5>1, LenProperties
        <5> QED
          BY <3>3, <5>2
      <4>2. s = s0 /\ d = version[s]
        BY <1>2, <1>3, <3>1, <3>3, <4>1
      <4>3. newest'[s] >= d /\ newest'[s] < d /\ newest'[s] \in Nat
        BY <1>6, <2>1, <4>2
      <4> QED
        BY <4>3
    <3> QED
      BY <3>2, <3>3
  <2> QED
    BY <1>1, <2>3, <2>4, StillOnItsWay DEF store, conn
<1> QED
  BY <1>9, <1>10 DEF PutOffIsOwed

LEMMA CooldownKeeps ==
  ASSUME PutOffIsOwed, NEW s0 \in Signals, NEW w \in Cooldowns, Cooldown(s0, w)
  PROVE  PutOffIsOwed'
<1>1. /\ task[w].pc = "idle" /\ w \in Tasks /\ w \notin Feeds /\ w # Reader /\ PushTypeOK
      /\ timers' = timers \ {s0} /\ overPause' = overPause \ {s0}
      /\ pending' = pending \ {s0}
      /\ UNCHANGED <<store, open, subscribed, paused, pausedNotified, browser, history>>
  BY SignalsAre DEF Cooldown, PutOffIsOwed
<1>2. PICK job : job = Doing("push", <<s0>>, s0 \in overPause)
  OBVIOUS
<1>3. /\ job \in Jobs /\ job.pc = "push" /\ job.todo = <<s0>> /\ job.todo # <<>>
      /\ job.todo[1] = s0 /\ 1 \in DOMAIN job.todo
  <2>1. <<s0>> \in Seq(Signals) /\ <<s0>> # <<>> /\ <<s0>>[1] = s0 /\ 1 \in DOMAIN <<s0>>
    OBVIOUS
  <2>2. job \in Jobs /\ job.pc = "push" /\ job.todo = <<s0>>
    <3>1. job = Doing("push", <<s0>>, TRUE) \/ job = Doing("push", <<s0>>, FALSE)
      <4>1. CASE s0 \in overPause
        <5>1. (s0 \in overPause) = TRUE
          BY <4>1
        <5> QED
          BY <1>2, <5>1
      <4>2. CASE s0 \notin overPause
        <5>1. (s0 \in overPause) = FALSE
          BY <4>2
        <5> QED
          BY <1>2, <5>1
      <4> QED
        BY <4>1, <4>2
    <3>2. CASE job = Doing("push", <<s0>>, TRUE)
      BY <2>1, <3>2 DEF Doing, Jobs, Phases
    <3>3. CASE job = Doing("push", <<s0>>, FALSE)
      BY <2>1, <3>3 DEF Doing, Jobs, Phases
    <3> QED
      BY <3>1, <3>2, <3>3
  <2> QED
    BY <2>1, <2>2
<1>4. task' = IF s0 \notin pending THEN task ELSE [task EXCEPT ![w] = job]
  BY <1>2 DEF Cooldown
<1>5. /\ task' \in [Tasks -> Jobs] /\ (s0 \in pending => task'[w] = job)
      /\ \A q \in Tasks : q # w => task'[q] = task[q]
      /\ \A q \in Tasks : task'[q].pc \in Works => task'[q].todo # <<>>
  <2>1. /\ task \in [Tasks -> Jobs]
        /\ \A q \in Tasks : task[q].pc \in Works => task[q].todo # <<>>
    BY <1>1 DEF PushTypeOK, Jobs, Works
  <2>2. CASE s0 \notin pending
    BY <1>4, <2>1, <2>2
  <2>3. CASE s0 \in pending
    BY <1>1, <1>3, <1>4, <2>1, <2>3, JobKept
  <2> QED
    BY <2>2, <2>3
<1>6. PushTypeOK' /\ PutOffHasACooldown'
  BY <1>1, <1>5 DEF PutOffIsOwed, PushTypeOK, PutOffHasACooldown, store, browser,
     history, Jobs, Works
<1>7. UNCHANGED <<version, owed, channel, newest, missed>> /\ (Watching' => Watching)
  BY <1>1 DEF store, history, Watching
<1>8. ASSUME NEW s \in Signals, OnItsWay(s) PROVE OnItsWay(s)'
  <2>1. CASE s = s0 /\ s \in pending
    <3>1. Brings(w, task'[w], s, version'[s])
      BY <1>3, <1>5, <2>1 DEF Brings
    <3> QED
      BY <1>1, <3>1 DEF OnItsWay
  <2>2. CASE s \in pending /\ s # s0
    BY <1>1, <2>2 DEF OnItsWay
  <2>3. CASE \E p \in Tasks : Brings(p, task[p], s, version[s])
    <3>1. PICK p \in Tasks : Brings(p, task[p], s, version[s])
      BY <2>3
    <3>2. p # w
      BY <1>1, <3>1 DEF Brings
    <3>3. Brings(p, task'[p], s, version'[s])
      BY <1>5, <1>7, <3>1, <3>2
    <3> QED
      BY <3>3 DEF OnItsWay
  <2>4. CASE \/ \E sig \in Stored : owed[sig] > 0 /\ Carries(sig, s)
             \/ \E f \in Feeds : \E i \in DOMAIN channel[f] : Carries(channel[f][i], s)
    BY <1>7, <2>4 DEF OnItsWay
  <2> QED
    BY <1>8, <2>1, <2>2, <2>3, <2>4 DEF OnItsWay
<1> QED
  BY <1>6, <1>7, <1>8, PromiseKept DEF PutOffIsOwed

LEMMA CommandKeeps ==
  ASSUME PutOffIsOwed, NEW m \in Commands, Command(m)
  PROVE  PutOffIsOwed'
<1>1. PICK job : job = Doing(m, <<>>, FALSE)
  OBVIOUS
<1>2. /\ task[Reader].pc = "idle" /\ task' = [task EXCEPT ![Reader] = job]
      /\ commands < MaxCommands /\ commands' = commands + 1
      /\ UNCHANGED <<store, conn, view, told, history>>
  BY <1>1 DEF Command
<1>3. /\ Reader \in Tasks /\ Reader \notin Feeds /\ commands' \in 0..MaxCommands
      /\ told' \in BOOLEAN
  BY <1>2, SignalsAre, PushAssumption DEF PutOffIsOwed, PushTypeOK
<1>4. job \in Jobs /\ job.pc \notin Works
  <2>1. m \in Phases /\ m \notin Works
    BY DEF Commands, Phases, Works
  <2>2. job \in Jobs /\ job.pc = m
    BY <1>1, <2>1 DEF Doing, Jobs
  <2> QED
    BY <2>1, <2>2
<1>5. \A s : ~Brings(Reader, task[Reader], s, version[s])
  BY <1>2, <1>3 DEF Brings
<1> QED
  BY <1>2, <1>3, <1>4, <1>5, JobKeeps DEF history

LEMMA ObeyKeeps ==
  ASSUME PutOffIsOwed, NEW m \in Commands, Obey(m)
  PROVE  PutOffIsOwed'
<1>1. PICK job : job = IF m = "pause" THEN Idle ELSE Doing("all", <<>>, FALSE)
  OBVIOUS
<1>2. /\ task' = [task EXCEPT ![Reader] = job]
      /\ subscribed' = (subscribed \/ m = "subscribe")
      /\ paused' = (m = "pause" \/ (paused /\ m # "resume"))
      /\ pausedNotified' = (pausedNotified /\ m = "subscribe")
      /\ told' = FALSE /\ unseen' = FALSE /\ Reader \in Tasks /\ PushTypeOK
      /\ UNCHANGED <<store, open, timers, overPause, pending, view, commands,
                     newest, missed>>
  BY <1>1, SignalsAre DEF Obey, PutOffIsOwed
<1>3. job \in Jobs /\ job.pc \notin Works /\ (m # "pause" => job.pc = "all")
  <2>1. CASE m = "pause"
    BY <1>1, <2>1, IdleIs
  <2>2. CASE m # "pause"
    BY <1>1, <2>2 DEF Doing, Jobs, Phases, Works
  <2> QED
    BY <2>1, <2>2
<1>4. /\ task' \in [Tasks -> Jobs] /\ task'[Reader] = job
      /\ \A q \in Tasks : task'[q].pc \in Works => task'[q].todo # <<>>
  <2>1. task \in [Tasks -> Jobs]
    BY <1>2 DEF PushTypeOK, Jobs
  <2> QED
    BY <1>2, <1>3, <2>1, JobKept
<1>5. subscribed' \in BOOLEAN /\ paused' \in BOOLEAN /\ pausedNotified' \in BOOLEAN
  BY <1>2
<1>6. PushTypeOK' /\ PutOffHasACooldown'
  BY <1>2, <1>4, <1>5 DEF PutOffIsOwed, PushTypeOK, PutOffHasACooldown, store, Jobs, Works
<1>7. ASSUME Watching', NEW s PROVE OnItsWay(s)'
  <2>1. task'[Reader].pc = "all"
    BY <1>2, <1>3, <1>4, <1>7 DEF Watching
  <2>2. Brings(Reader, task'[Reader], s, version'[s])
    BY <2>1 DEF Brings
  <2> QED
    BY <1>2, <2>2 DEF OnItsWay
<1>8. NothingIsForgotten'
  BY <1>7 DEF NothingIsForgotten
<1> QED
  BY <1>6, <1>8 DEF PutOffIsOwed

LEMMA PushAllKeeps ==
  ASSUME PutOffIsOwed, PushAll
  PROVE  PutOffIsOwed'
<1>1. PICK all : all = Telemetry \o <<Stats, Validation>>
  OBVIOUS
<1>2. /\ all \in Seq(Signals) /\ all # <<>>
      /\ \A s \in Signals : \E i \in DOMAIN all : all[i] = s
  <2>1. Telemetry \in Seq(Signals) /\ <<Stats, Validation>> \in Seq(Signals)
    <3>1. TelemetrySignals \subseteq Signals
      BY SignalsAre
    <3> QED
      BY <3>1, PushAssumption, SignalsAre
  <2>2. PICK n \in Nat : n = Len(Telemetry) /\ DOMAIN Telemetry = 1..n
    BY <2>1, LenProperties
  <2>3. /\ all \in Seq(Signals) /\ Len(all) = n + 2
        /\ \A i \in 1..n+2 : all[i] = IF i <= n THEN Telemetry[i]
                                      ELSE <<Stats, Validation>>[i - n]
    BY <1>1, <2>1, <2>2, ConcatProperties
  <2>4. DOMAIN all = 1..n+2
    BY <2>3, LenProperties
  <2>5. all # <<>>
    BY <2>2, <2>3
  <2>6. n + 1 \in 1..n+2 /\ all[n + 1] = Stats
    BY <2>2, <2>3
  <2>7. n + 2 \in 1..n+2 /\ all[n + 2] = Validation
    BY <2>2, <2>3
  <2>8. ASSUME NEW s \in TelemetrySignals PROVE \E i \in DOMAIN all : all[i] = s
    <3>1. PICK i \in 1..n : Telemetry[i] = s
      BY <2>2 DEF TelemetrySignals
    <3>2. i \in 1..n+2 /\ i <= n
      BY <2>2
    <3> QED
      BY <2>3, <2>4, <3>1, <3>2
  <2> QED
    BY <2>3, <2>4, <2>5, <2>6, <2>7, <2>8 DEF Signals, Stored
<1>3. PICK job : job = IF subscribed THEN Doing("query", all, FALSE) ELSE Idle
  OBVIOUS
<1>4. /\ task' = [task EXCEPT ![Reader] = job] /\ Reader \in Tasks
      /\ UNCHANGED <<store, conn, browser, history>>
      /\ told' \in BOOLEAN /\ commands' \in 0..MaxCommands
  BY <1>1, <1>3, SignalsAre DEF PushAll, PutOffIsOwed, PushTypeOK, browser
<1>5. /\ job \in Jobs /\ (job.pc \in Works => job.todo # <<>>)
      /\ subscribed => job.pc = "query" /\ job.todo = all
  <2>1. CASE subscribed
    <3>1. job \in Jobs /\ job.pc = "query" /\ job.todo = all
      BY <1>2, <1>3, <2>1 DEF Doing, Jobs, Phases
    <3> QED
      BY <1>2, <3>1
  <2>2. CASE ~subscribed
    BY <1>3, <2>2, IdleIs
  <2> QED
    BY <2>1, <2>2
<1>6. ASSUME NEW s \in Signals, Watching PROVE Brings(Reader, job, s, version[s])
  BY <1>2, <1>5, <1>6 DEF Brings, Watching
<1> QED
  BY <1>4, <1>5, <1>6, JobKeeps DEF browser, history

LEMMA CleanupKeeps ==
  ASSUME PutOffIsOwed, Cleanup
  PROVE  PutOffIsOwed'
<1>1. PushTypeOK' /\ PutOffHasACooldown'
  BY DEF Cleanup, PutOffIsOwed, PushTypeOK, PutOffHasACooldown, store, browser, history
<1>2. ~Watching'
  BY DEF Cleanup, Watching
<1> QED
  BY <1>1, <1>2 DEF PutOffIsOwed, NothingIsForgotten

LEMMA PushInitHolds ==
  ASSUME PushInit
  PROVE  PutOffIsOwed
<1>1. PushTypeOK
  <2>1. task \in [Tasks -> Jobs] /\ \A p \in Tasks : task[p].pc \notin Works
    BY IdleIs DEF PushInit
  <2>2. <<>> \in Seq(Stored) /\ Len(<<>>) = 0 /\ DOMAIN <<>> = {}
    OBVIOUS
  <2>3. /\ channel \in [Feeds -> Seq(Stored)]
        /\ \A f \in Feeds : Len(channel[f]) <= ChannelSize /\ DOMAIN channel[f] = {}
    BY <2>2, PushAssumption DEF PushInit
  <2>4. version \in [Signals -> Nat] /\ owed \in [Stored -> Nat]
        /\ view \in [Signals -> Nat] /\ newest \in [Signals -> Nat]
        /\ commands \in 0..MaxCommands
    BY PushAssumption DEF PushInit
  <2> QED
    BY <2>1, <2>3, <2>4 DEF PushInit, PushTypeOK, Jobs, Works
<1>2. PutOffHasACooldown /\ ~Watching
  BY DEF PushInit, PutOffHasACooldown, Watching
<1> QED
  BY <1>1, <1>2 DEF PutOffIsOwed, NothingIsForgotten

LEMMA PushStep ==
  ASSUME PutOffIsOwed, [PushNext]_pvars
  PROVE  PutOffIsOwed'
<1>1. CASE UNCHANGED pvars
  <2>1. /\ UNCHANGED <<version, owed, channel, open, subscribed, paused>>
        /\ UNCHANGED <<pausedNotified, timers, overPause, pending, task>>
        /\ UNCHANGED <<view, told, commands, newest, missed, unseen>>
    BY <1>1 DEF pvars, store, conn, browser, history
  <2>2. PushTypeOK' /\ PutOffHasACooldown'
    BY <2>1 DEF PutOffIsOwed, PushTypeOK, PutOffHasACooldown
  <2>3. NothingIsForgotten'
    BY <2>1 DEF PutOffIsOwed, NothingIsForgotten, Watching, OnItsWay
  <2> QED
    BY <2>2, <2>3 DEF PutOffIsOwed
<1>2. CASE Progress
  <2>1. ASSUME NEW s \in Stored, Notify(s) PROVE PutOffIsOwed'
    BY <2>1, NotifyKeeps
  <2>2. ASSUME NEW p \in Tasks, TaskStep(p) PROVE PutOffIsOwed'
    BY <2>2, ReceiveKeeps, OnSignalKeeps, AnnounceKeeps, PushAllKeeps, ObeyKeeps,
       PushKeepsPromise, QueryKeeps, SendKeeps DEF TaskStep
  <2>3. ASSUME NEW s \in Signals, CooldownEnds(s) PROVE PutOffIsOwed'
    BY <2>3, CooldownKeeps DEF CooldownEnds
  <2> QED
    BY <1>2, <2>1, <2>2, <2>3 DEF Progress
<1> QED
  BY <1>1, <1>2, ChangeTelemetryKeeps, ChangeValidationKeeps, CommandKeeps,
     CleanupKeeps DEF PushNext

\* However notifications, the throttle, pauses and resumes interleave, a change
\* that no full channel dropped is shown to a browser that watches or is on its
\* way to it: a notification under way, a signal in a channel, a goroutine that
\* will read it or sends its latest data, or a mark whose cooldown still runs
\* (onSignal, throttledPush, queryAndSend, pushAll, notify).
THEOREM PutOffAlwaysOwed == PushSpec => []PutOffIsOwed
<1>1. PushInit => PutOffIsOwed
  BY PushInitHolds
<1>2. PutOffIsOwed /\ [PushNext]_pvars => PutOffIsOwed'
  BY PushStep
<1> QED
  BY <1>1, <1>2, PTL DEF PushSpec
=============================================================================
