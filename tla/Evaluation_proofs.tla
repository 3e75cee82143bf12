------------------------- MODULE Evaluation_proofs --------------------------
(***************************************************************************)
(* Theorems about module EvalSession, for every set of evaluations and     *)
(* workers and every number of edits, crashes and failures; about module   *)
(* RuntimeCheck, for every set of checks and every plan and service; and   *)
(* about modules EvalGrades and EvalReport, for every trace, usage, answer *)
(* of a judge and every results that evaluations leave.                    *)
(***************************************************************************)
EXTENDS EvalSession, RuntimeCheck, EvalReport, FiniteSetTheorems, WellFoundedInduction, TLAPS

-----------------------------------------------------------------------------
(* The inductive invariant *)

Subjects == Files \cup {"consumers", "semantics", "definitions", "report"}
WorldTypeOK ==
  /\ source \in [Files -> Contents] /\ edits \in [Subjects -> Nat] /\ consumed \in BOOLEAN
  /\ defined \subseteq Items /\ written \subseteq Workers

\* An evaluation that is under way, or over, has its digests; what was staged of
\* it is told by where it is.
ItemSound(e, i) ==
  /\ e = [at |-> e.at, by |-> e.by, digest |-> e.digest, staged |-> e.staged]
  /\ e.at \in {"queued", "refused", "done", "raised", "lost"} \cup Sides
  /\ e.at \in {"queued", "refused", "lost"} => e.digest = <<>> /\ e.staged = <<>>
  /\ e.at \notin {"queued", "refused", "lost"} =>
       /\ e.by \in Workers
       /\ DOMAIN e.digest = Inputs(i) /\ \A f \in Inputs(i) : e.digest[f] \in Contents
       /\ \A s \in DOMAIN e.staged : \A f \in StagedFor(i, s) : e.staged[s][f] \in Contents
  /\ e.at = "with_skill" => DOMAIN e.staged = {}
  /\ e.at = "baseline" => DOMAIN e.staged = {"with_skill"}
  /\ e.at = "done" => DOMAIN e.staged = Sides
ItemsSound == (DOMAIN item = Items) /\ \A i \in Items : ItemSound(item[i], i)

\* The run on disk is about the evaluations as they ended.
RawSound ==
  /\ raw = {} => published = {}
  /\ \A run \in raw :
       /\ written = Workers
       /\ run.validated = Begun
       /\ run.live = {i \in Items : item[i].at = "done"}

\* As long as a file was edited at most once its content only grows.
Edited01 == \A f \in Files : edits[f] < 2 => source[f] = edits[f]

\* What was staged was staged between the digest and now.
StagedBetween ==
  \A i \in Items : \A s \in DOMAIN item[i].staged : \A f \in StagedFor(i, s) : edits[f] < 2 =>
    /\ item[i].digest[f] <= item[i].staged[s][f]
    /\ item[i].staged[s][f] <= source[f]
DigestBefore ==
  \A i \in Items : \A f \in DOMAIN item[i].digest : edits[f] < 2 => item[i].digest[f] <= source[f]

\* What the digest of a published report was made of is the run, whatever has
\* become of the rest of the report.
StampSound(r) ==
  /\ r = [kind |-> r.kind, evals |-> r.evals, semantics |-> r.semantics, consumed |-> r.consumed,
          files |-> r.files, scope |-> r.scope, stamp |-> r.stamp]
  /\ \E run \in raw :
       /\ r.stamp[4] = run.validated
       /\ r.kind = "live" => run.live = run.validated
       /\ DOMAIN r.stamp[1] = UNION {Inputs(i) : i \in run.validated}
       /\ \A i \in run.validated : \A f \in Inputs(i) : r.stamp[1][f] = item[i].digest[f]
StampsSound == \A r \in published : StampSound(r)

SessionInv ==
  /\ WorldTypeOK /\ ItemsSound /\ RawSound
  /\ Edited01 /\ DigestBefore /\ StagedBetween /\ StampsSound

-----------------------------------------------------------------------------
(* What the invariant is for *)

LEMMA InvPublishedComplete == SessionInv => PublishedIsComplete
<1> SUFFICES ASSUME SessionInv, NEW r \in published, r.kind = "live", r.stamp = Stamp(r)
             PROVE  /\ \A i \in r.evals : DOMAIN item[i].staged = Sides
                    /\ \A i \in Items \ r.evals : item[i].at \in {"queued", "refused", "lost"}
  BY DEF PublishedIsComplete
<1>1. PICK run \in raw : r.stamp[4] = run.validated /\ run.live = run.validated
  BY DEF SessionInv, StampsSound, StampSound
<1>2. r.evals = run.validated
  BY <1>1 DEF Stamp
<1>3. run.validated = Begun /\ run.live = {i \in Items : item[i].at = "done"}
  BY DEF SessionInv, RawSound
<1>4. \A i \in r.evals : DOMAIN item[i].staged = Sides
  BY <1>1, <1>2, <1>3 DEF SessionInv, ItemsSound, ItemSound
<1>5. \A i \in Items \ r.evals : item[i].at \in {"queued", "refused", "lost"}
  BY <1>2, <1>3 DEF SessionInv, ItemsSound, ItemSound, Begun
<1> QED
  BY <1>4, <1>5

LEMMA InvVerifiedCurrent == SessionInv => VerifiedIsCurrent
<1> SUFFICES ASSUME SessionInv, NEW r \in published, VerifyAccepts(r)
             PROVE  /\ r.scope = "full" => defined = r.evals
                    /\ \A i \in r.evals :
                         /\ \A f \in Inputs(i) : (f = "reference" => consumed) => item[i].digest[f] = source[f]
                         /\ r.kind = "live" =>
                              \A s \in Sides : \A f \in StagedFor(i, s) :
                                edits[f] < 2 /\ (f = "reference" => consumed) => item[i].staged[s][f] = source[f]
  BY DEF VerifiedIsCurrent
<1>1. /\ r.consumed = consumed /\ r.stamp = Stamp(r) /\ InputsUnchanged(r)
      /\ r.scope = "full" => r.evals = defined
  BY DEF VerifyAccepts, SelectionsHold
<1>2. PICK run \in raw :
        /\ r.stamp[4] = run.validated
        /\ r.kind = "live" => run.live = run.validated
        /\ DOMAIN r.stamp[1] = UNION {Inputs(i) : i \in run.validated}
        /\ \A i \in run.validated : \A f \in Inputs(i) : r.stamp[1][f] = item[i].digest[f]
  BY DEF SessionInv, StampsSound, StampSound
<1>3. r.stamp[1] = r.files /\ r.evals = run.validated
  BY <1>1, <1>2 DEF Stamp
<1>4. r.evals \subseteq Items
  BY <1>3 DEF SessionInv, RawSound, Begun
<1>5. ASSUME NEW i \in r.evals, NEW f \in Inputs(i), f = "reference" => consumed
      PROVE  item[i].digest[f] = source[f]
  <2>1. f \in DOMAIN r.files /\ r.files[f] = item[i].digest[f]
    BY <1>2, <1>3
  <2>2. Relevant(r, f)
    BY <1>5 DEF Relevant
  <2> QED
    BY <1>1, <2>1, <2>2 DEF InputsUnchanged
<1>6. ASSUME NEW i \in r.evals, r.kind = "live", NEW s \in Sides, NEW f \in StagedFor(i, s),
             edits[f] < 2, f = "reference" => consumed
      PROVE  item[i].staged[s][f] = source[f]
  <2>1. f \in Inputs(i) /\ f \in Files /\ i \in Items
    BY <1>4 DEF StagedFor, Inputs, Files
  <2>2. item[i].at = "done"
    BY <1>2, <1>3, <1>6 DEF SessionInv, RawSound
  <2>3. s \in DOMAIN item[i].staged /\ item[i].staged[s][f] \in Contents
    BY <2>1, <2>2, <1>6 DEF SessionInv, ItemsSound, ItemSound
  <2>4. item[i].digest[f] <= item[i].staged[s][f] /\ item[i].staged[s][f] <= source[f]
    BY <1>6, <2>1, <2>3 DEF SessionInv, StagedBetween
  <2>5. item[i].digest[f] = source[f] /\ source[f] \in Contents
    BY <1>5, <1>6, <2>1 DEF SessionInv, WorldTypeOK
  <2> QED
    BY <2>3, <2>4, <2>5 DEF Contents
<1> QED
  BY <1>1, <1>5, <1>6

-----------------------------------------------------------------------------
(* The invariant is kept *)

LEMMA SessionStarts == SessionInit => SessionInv
<1> SUFFICES ASSUME SessionInit PROVE SessionInv
  OBVIOUS
<1> USE DEF SessionInit
<1>1. WorldTypeOK
  <2>1. source \in [Files -> Contents]
    BY DEF Contents
  <2>2. edits \in [Subjects -> Nat]
    BY DEF Subjects
  <2> QED
    BY <2>1, <2>2 DEF WorldTypeOK
<1>2. ItemsSound
  BY DEF ItemsSound, ItemSound, Queued, Sides, Nothing
<1>3. RawSound /\ StampsSound
  BY DEF RawSound, StampsSound
<1>4. Edited01
  BY DEF Edited01
<1>5. DOMAIN <<>> = {}
  OBVIOUS
<1>6. DigestBefore /\ StagedBetween
  BY <1>5 DEF DigestBefore, StagedBetween, Queued
<1> QED
  BY <1>1, <1>2, <1>3, <1>4, <1>6 DEF SessionInv

\* A worker that is at work has not left its results, so no run is on disk.
LEMMA NoRunYet ==
  ASSUME SessionInv, NEW w \in Workers, w \notin written
  PROVE  raw = {} /\ published = {}
BY DEF SessionInv, RawSound

LEMMA EndsKept ==
  ASSUME SessionInv, NEW w \in Workers, WorkerEnds(w)
  PROVE  SessionInv'
<1> USE DEF SessionInv, WorkerEnds, world
<1>1. raw = {} /\ published = {}
  BY NoRunYet
<1>2. WorldTypeOK' /\ ItemsSound' /\ Edited01' /\ DigestBefore' /\ StagedBetween'
  BY DEF WorldTypeOK, ItemsSound, Edited01, DigestBefore, StagedBetween, Sides, Contents, Files, Subjects, StagedFor
<1>3. RawSound' /\ StampsSound'
  BY <1>1 DEF RawSound, StampsSound
<1> QED
  BY <1>2, <1>3

\* Where an evaluation is, is all that the properties of the workers need.
LEMMA ItemFields ==
  ASSUME SessionInv, NEW i \in Items
  PROVE  ItemSound(item[i], i)
BY DEF SessionInv, ItemsSound

LEMMA QueuedBecomes ==
  ASSUME NEW at, NEW by, NEW digest
  PROVE  [Queued EXCEPT !.at = at, !.by = by, !.digest = digest]
           = [at |-> at, by |-> by, digest |-> digest, staged |-> <<>>]
<1>1. [Queued EXCEPT !.at = at] = [at |-> at, by |-> Nothing, digest |-> <<>>, staged |-> <<>>]
  BY DEF Queued
<1>2. [[at |-> at, by |-> Nothing, digest |-> <<>>, staged |-> <<>>] EXCEPT !.by = by]
        = [at |-> at, by |-> by, digest |-> <<>>, staged |-> <<>>]
  OBVIOUS
<1>3. [[at |-> at, by |-> by, digest |-> <<>>, staged |-> <<>>] EXCEPT !.digest = digest]
        = [at |-> at, by |-> by, digest |-> digest, staged |-> <<>>]
  OBVIOUS
<1> QED
  BY <1>1, <1>2, <1>3

LEMMA ValidateKept ==
  ASSUME SessionInv, NEW w \in Workers, NEW i \in Items, Validate(w, i)
  PROVE  SessionInv'
<1> DEFINE e == [at |-> "with_skill", by |-> w, digest |-> SourcesOf(Inputs(i)), staged |-> <<>>]
<1>0. e = [Queued EXCEPT !.at = "with_skill", !.by = w, !.digest = SourcesOf(Inputs(i))]
  BY QueuedBecomes
<1>1. /\ item[i].at = "queued" /\ w \notin written /\ UNCHANGED <<world, written, raw, published>>
      /\ item' = [item EXCEPT ![i] = e]
  BY <1>0 DEF Validate, Idle
<1>2. raw = {} /\ published = {}
  BY <1>1, NoRunYet
<1>3. DOMAIN <<>> = {} /\ DOMAIN item = Items /\ Inputs(i) \subseteq Files /\ SourcesOf(Inputs(i)) = [f \in Inputs(i) |-> source[f]]
  BY DEF SessionInv, ItemsSound, SourcesOf, Inputs, Files
<1>4. item'[i] = e /\ \A j \in Items : j # i => item'[j] = item[j]
  BY <1>1, <1>3
<1>5. WorldTypeOK' /\ Edited01'
  BY <1>1 DEF SessionInv, WorldTypeOK, Edited01, world
<1>6. ItemSound(e, i)
  BY <1>3 DEF ItemSound, Sides, SessionInv, WorldTypeOK
<1>7. ItemsSound'
  BY <1>1, <1>3, <1>4, <1>6 DEF SessionInv, ItemsSound
<1>8. RawSound' /\ StampsSound'
  BY <1>1, <1>2 DEF SessionInv, RawSound, StampsSound
<1>9. DigestBefore'
  <2>1. \A f \in Inputs(i) : e.digest[f] = source[f] /\ source[f] \in Contents
    BY <1>3 DEF SessionInv, WorldTypeOK
  <2>2. DOMAIN e.digest = Inputs(i)
    BY <1>3
  <2> QED
    BY <1>1, <1>4, <2>1, <2>2 DEF SessionInv, DigestBefore, world, Contents
<1>10. StagedBetween'
  <2>1. DOMAIN e.staged = {}
    BY <1>3
  <2> QED
    BY <1>1, <1>4, <2>1 DEF SessionInv, StagedBetween, world
<1> QED
  BY <1>5, <1>7, <1>8, <1>9, <1>10 DEF SessionInv

LEMMA RunSideKept ==
  ASSUME SessionInv, NEW w \in Workers, NEW i \in Items, NEW s \in Sides, RunSide(w, i, s)
  PROVE  SessionInv'
<1> DEFINE next == IF s = "with_skill" THEN "baseline" ELSE "done"
           st   == [t \in (DOMAIN item[i].staged) \cup {s} |->
                      IF t = s THEN SourcesOf(StagedFor(i, s)) ELSE item[i].staged[t]]
           e    == [at |-> next, by |-> w, digest |-> item[i].digest, staged |-> st]
<1>1. /\ item[i].at = s /\ item[i].by = w /\ UNCHANGED <<world, written, raw, published>>
      /\ item' = [item EXCEPT ![i].staged = st, ![i].at = next]
  BY DEF RunSide, Busy
<1>2. raw = {} /\ published = {}
  BY NoRunYet DEF RunSide, Busy
<1>3. DOMAIN item = Items /\ ItemSound(item[i], i)
  BY DEF SessionInv, ItemsSound
<1>4. item'[i] = e /\ \A j \in Items : j # i => item'[j] = item[j]
  BY <1>1, <1>3 DEF ItemSound
<1>5. WorldTypeOK' /\ Edited01'
  BY <1>1 DEF SessionInv, WorldTypeOK, Edited01, world
<1>6. StagedFor(i, s) \subseteq Inputs(i) /\ Inputs(i) \subseteq Files
  BY DEF StagedFor, Inputs, Files
<1>7. \A f \in StagedFor(i, s) : st[s][f] = source[f] /\ source[f] \in Contents
  BY <1>6 DEF SourcesOf, SessionInv, WorldTypeOK
<1>8. \A t \in DOMAIN st : t # s => t \in DOMAIN item[i].staged /\ st[t] = item[i].staged[t]
  OBVIOUS
<1>9. ItemSound(e, i)
  BY <1>1, <1>3, <1>7, <1>8 DEF ItemSound, Sides
<1>10. DOMAIN item' = Items /\ e.at \notin {"queued", "refused", "lost"} /\ e.by = w /\ e.digest = item[i].digest
       /\ (e.at = "with_skill" => FALSE)
  BY <1>1, <1>3 DEF ItemSound, Sides
<1>11. StagedBetween'
  <2>1. \A f \in StagedFor(i, s) : edits[f] < 2 => e.digest[f] <= source[f]
    BY <1>1, <1>3, <1>6 DEF SessionInv, DigestBefore, ItemSound, Sides
  <2>2. \A t \in DOMAIN e.staged : \A f \in StagedFor(i, t) : edits[f] < 2 =>
          e.digest[f] <= e.staged[t][f] /\ e.staged[t][f] <= source[f]
    BY <1>7, <1>8, <2>1 DEF SessionInv, StagedBetween, Contents
  <2> HIDE DEF e
  <2>3. source' = source /\ edits' = edits
    BY <1>1 DEF world
  <2>4. ASSUME NEW j \in Items, NEW t \in DOMAIN item'[j].staged, NEW f \in StagedFor(j, t), edits[f] < 2
        PROVE  item'[j].digest[f] <= item'[j].staged[t][f] /\ item'[j].staged[t][f] <= source[f]
    <3>1. CASE j = i
      BY <1>4, <2>2, <2>4, <3>1
    <3>2. CASE j # i
      BY <1>4, <2>4, <3>2 DEF SessionInv, StagedBetween
    <3> QED
      BY <3>1, <3>2
  <2> QED
    BY <2>3, <2>4 DEF StagedBetween, StagedFor, Inputs
<1> HIDE DEF e
<1>12. ItemsSound'
  BY <1>4, <1>9, <1>10 DEF SessionInv, ItemsSound
<1>15. RawSound' /\ StampsSound'
  BY <1>1, <1>2 DEF SessionInv, RawSound, StampsSound
<1>16. DigestBefore'
  BY <1>1, <1>4, <1>10 DEF SessionInv, DigestBefore, world
<1> QED
  BY <1>5, <1>11, <1>12, <1>15, <1>16 DEF SessionInv

\* An evaluation that raises keeps what it has; one that is refused or whose
\* worker dies has no result.
Raised(e, d) == e.at \in Sides /\ d = [e EXCEPT !.at = "raised"]
NoResult(e, at) ==
  e = [at |-> at, by |-> e.by, digest |-> <<>>, staged |-> <<>>]

LEMMA FaultKept ==
  ASSUME SessionInv, UNCHANGED <<world, written, raw, published>>, raw = {}, DOMAIN item' = Items,
         \A i \in Items : \/ item'[i] = item[i]
                          \/ Raised(item[i], item'[i])
                          \/ NoResult(item'[i], "lost")
                          \/ NoResult(item'[i], "refused")
  PROVE  SessionInv'
<1>1. WorldTypeOK' /\ Edited01'
  BY DEF SessionInv, WorldTypeOK, Edited01, world
<1>2. DOMAIN <<>> = {}
  OBVIOUS
<1>3. ASSUME NEW i \in Items, Raised(item[i], item'[i])
      PROVE  item[i].at \in Sides /\ item'[i] = [at |-> "raised", by |-> item[i].by, digest |-> item[i].digest, staged |-> item[i].staged]
  BY <1>3, ItemFields DEF ItemSound, Raised
<1>4. ItemsSound'
  <2> SUFFICES ASSUME NEW i \in Items PROVE ItemSound(item'[i], i)
    BY DEF ItemsSound
  <2>1. ItemSound(item[i], i)
    BY ItemFields
  <2>2. CASE Raised(item[i], item'[i])
    BY <2>1, <2>2, <1>3 DEF ItemSound, Sides
  <2>3. CASE NoResult(item'[i], "lost")
    BY <2>3 DEF ItemSound, NoResult, Sides
  <2>4. CASE NoResult(item'[i], "refused")
    BY <2>4 DEF ItemSound, NoResult, Sides
  <2> QED
    BY <2>1, <2>2, <2>3, <2>4
<1>5. RawSound' /\ StampsSound'
  BY DEF SessionInv, RawSound, StampsSound
<1>6. ASSUME NEW i \in Items
      PROVE  \/ item'[i].digest = item[i].digest /\ item'[i].staged = item[i].staged
             \/ item'[i].digest = <<>> /\ item'[i].staged = <<>>
  <2>1. \A at : NoResult(item'[i], at) => item'[i].digest = <<>> /\ item'[i].staged = <<>>
    BY DEF NoResult
  <2> QED
    BY <1>3, <2>1
<1>7. DigestBefore' /\ StagedBetween'
  <2>1. source' = source /\ edits' = edits
    BY DEF world
  <2>2. DigestBefore'
    BY <1>2, <1>6, <2>1 DEF SessionInv, DigestBefore
  <2>3. StagedBetween'
    BY <1>2, <1>6, <2>1 DEF SessionInv, StagedBetween, StagedFor, Inputs
  <2> QED
    BY <2>2, <2>3
<1> QED
  BY <1>1, <1>4, <1>5, <1>7 DEF SessionInv

LEMMA SideRaisesKept ==
  ASSUME SessionInv, NEW w \in Workers, NEW i \in Items, SideRaises(w, i)
  PROVE  SessionInv'
<1>1. /\ item[i].at \in Sides /\ item' = [item EXCEPT ![i].at = "raised"]
      /\ UNCHANGED <<world, written, raw, published>>
  BY DEF SideRaises
<1>2. raw = {}
  BY NoRunYet DEF SideRaises, Busy
<1>3. DOMAIN item = Items
  BY DEF SessionInv, ItemsSound, WorldTypeOK
<1>4. DOMAIN item' = Items /\ Raised(item[i], item'[i]) /\ \A j \in Items : j # i => item'[j] = item[j]
  BY <1>1, <1>3 DEF Raised
<1> QED
  BY <1>1, <1>2, <1>3, <1>4, FaultKept

LEMMA QueuedRefused ==
  ASSUME NEW at, NEW by
  PROVE  [Queued EXCEPT !.at = at, !.by = by] = [at |-> at, by |-> by, digest |-> <<>>, staged |-> <<>>]
<1>1. [Queued EXCEPT !.at = at] = [at |-> at, by |-> Nothing, digest |-> <<>>, staged |-> <<>>]
  BY DEF Queued
<1>2. [[at |-> at, by |-> Nothing, digest |-> <<>>, staged |-> <<>>] EXCEPT !.by = by]
        = [at |-> at, by |-> by, digest |-> <<>>, staged |-> <<>>]
  OBVIOUS
<1> QED
  BY <1>1, <1>2

LEMMA RefuseKept ==
  ASSUME SessionInv, NEW w \in Workers, NEW i \in Items, Refuse(w, i)
  PROVE  SessionInv'
<1>1. /\ item' = [item EXCEPT ![i] = [Queued EXCEPT !.at = "refused", !.by = w]]
      /\ UNCHANGED <<world, written, raw, published>>
  BY DEF Refuse
<1>2. raw = {}
  BY NoRunYet DEF Refuse, Idle
<1>3. DOMAIN item = Items
  BY DEF SessionInv, ItemsSound
<1>4. NoResult(item'[i], "refused")
  <2>1. item'[i] = [Queued EXCEPT !.at = "refused", !.by = w]
    BY <1>1, <1>3
  <2> QED
    BY <2>1, QueuedRefused DEF NoResult
<1>5. DOMAIN item' = Items /\ \A j \in Items : j # i => item'[j] = item[j]
  BY <1>1, <1>3
<1> QED
  BY <1>1, <1>2, <1>4, <1>5, FaultKept

LEMMA WorkerDiesKept ==
  ASSUME SessionInv, NEW w \in Workers, WorkerDies(w)
  PROVE  SessionInv'
<1>1. /\ raw = {} /\ UNCHANGED <<world, written, raw, published>>
      /\ item' = [i \in Items |-> IF item[i].by = w THEN [Queued EXCEPT !.at = "lost"] ELSE item[i]]
  BY DEF WorkerDies
<1>2. DOMAIN item' = Items
  BY <1>1
<1>3. \A i \in Items : item'[i] = item[i] \/ NoResult(item'[i], "lost")
  BY <1>1 DEF Queued, NoResult
<1> QED
  BY <1>1, <1>2, <1>3, FaultKept

LEMMA SessionEndsKept ==
  ASSUME SessionInv, SessionEnds
  PROVE  SessionInv'
<1> DEFINE run == [validated |-> Begun, live |-> {i \in Items : item[i].at = "done"}, scope |-> ScopeOf(Begun)]
<1>1. /\ written = Workers /\ raw = {} /\ raw' = {run} /\ UNCHANGED <<world, item, written, published>>
  BY DEF SessionEnds
<1>2. run.validated = Begun /\ run.live = {i \in Items : item[i].at = "done"} /\ Begun' = Begun
  BY <1>1 DEF Begun
<1> HIDE DEF run
<1>3. WorldTypeOK' /\ ItemsSound' /\ Edited01' /\ DigestBefore' /\ StagedBetween'
  BY <1>1 DEF SessionInv, WorldTypeOK, ItemsSound, Edited01, DigestBefore, StagedBetween, world
<1>4. RawSound' /\ StampsSound'
  BY <1>1, <1>2 DEF SessionInv, RawSound, StampsSound
<1> QED
  BY <1>3, <1>4 DEF SessionInv

\* The report that is published, whichever kind it is.
LEMMA StampedSound ==
  ASSUME SessionInv, NEW run \in raw, NEW kind \in {"live", "validation"}, NEW sc, NEW se, NEW co,
         Consistent(run.validated), kind = "live" => run.live = run.validated
  PROVE  LET fs == [f \in UNION {Inputs(i) : i \in run.validated} |->
                      item[CHOOSE i \in run.validated : f \in Inputs(i)].digest[f]]
             r  == [kind |-> kind, evals |-> run.validated, semantics |-> se, consumed |-> co,
                    files |-> fs, scope |-> sc, stamp |-> <<>>]
         IN StampSound(Stamped(r)) /\ Stamped(r).kind = kind
<1> DEFINE owner(f) == CHOOSE i \in run.validated : f \in Inputs(i)
           fs == [f \in UNION {Inputs(i) : i \in run.validated} |-> item[owner(f)].digest[f]]
           r  == [kind |-> kind, evals |-> run.validated, semantics |-> se, consumed |-> co,
                  files |-> fs, scope |-> sc, stamp |-> <<>>]
           st == <<fs, se, co, run.validated, sc>>
           q  == [kind |-> kind, evals |-> run.validated, semantics |-> se, consumed |-> co,
                  files |-> fs, scope |-> sc, stamp |-> st]
<1>1. DOMAIN fs = UNION {Inputs(i) : i \in run.validated}
  OBVIOUS
<1>2. ASSUME NEW i \in run.validated, NEW f \in Inputs(i) PROVE fs[f] = item[i].digest[f]
  <2>1. owner(f) \in run.validated /\ f \in Inputs(owner(f))
    OBVIOUS
  <2>2. item[owner(f)].digest[f] = item[i].digest[f]
    BY <2>1 DEF Consistent
  <2> QED
    BY <2>2
<1> HIDE DEF fs
<1>3. Stamp(r) = st
  BY DEF Stamp
<1>4. [r EXCEPT !.stamp = st] = q
  OBVIOUS
<1>5. Stamped(r) = q
  BY <1>3, <1>4 DEF Stamped
<1>6. q.kind = kind /\ q.stamp = st /\ st[4] = run.validated /\ st[1] = fs
      /\ q = [kind |-> q.kind, evals |-> q.evals, semantics |-> q.semantics, consumed |-> q.consumed,
              files |-> q.files, scope |-> q.scope, stamp |-> q.stamp]
  OBVIOUS
<1> HIDE DEF q, st
<1>7. StampSound(q)
  BY <1>1, <1>2, <1>6 DEF StampSound
<1> QED
  BY <1>5, <1>6, <1>7 DEF fs

LEMMA PublishKept ==
  ASSUME SessionInv, NEW kind \in {"live", "validation"}, PublishReport(kind)
  PROVE  SessionInv'
<1>1. UNCHANGED <<world, item, written, raw>>
  BY DEF PublishReport
<1>2. PICK run \in raw :
        /\ IF kind = "live" THEN Publishable(run) ELSE Validated(run)
        /\ published' = published \cup
             {Stamped([kind |-> kind, evals |-> run.validated, semantics |-> semantics, consumed |-> consumed,
                       files |-> [f \in UNION {Inputs(i) : i \in run.validated} |->
                                    item[CHOOSE i \in run.validated : f \in Inputs(i)].digest[f]],
                       scope |-> IF kind = "live" THEN "none" ELSE run.scope, stamp |-> <<>>])}
  BY DEF PublishReport
<1>3. Consistent(run.validated) /\ (kind = "live" => run.live = run.validated)
  BY <1>2 DEF Publishable, Validated
<1>4. \A r \in published' : r \in published \/ StampSound(r)
  BY <1>2, <1>3, StampedSound
<1>5. StampsSound'
  BY <1>1, <1>4 DEF SessionInv, StampsSound, StampSound, Inputs
<1>6. WorldTypeOK' /\ ItemsSound' /\ Edited01' /\ DigestBefore' /\ StagedBetween'
  BY <1>1 DEF SessionInv, WorldTypeOK, ItemsSound, Edited01, DigestBefore, StagedBetween, world
<1>7. RawSound'
  BY <1>1, <1>2 DEF SessionInv, RawSound, Begun
<1> QED
  BY <1>5, <1>6, <1>7 DEF SessionInv

\* The files among which evaluations are digested and staged.
LEMMA DigestedFiles ==
  ASSUME SessionInv, NEW i \in Items
  PROVE  /\ DOMAIN item[i].digest \subseteq Files
         /\ \A f \in DOMAIN item[i].digest : item[i].digest[f] \in Contents
         /\ \A s \in DOMAIN item[i].staged : \A f \in StagedFor(i, s) :
              f \in Files /\ item[i].staged[s][f] \in Contents
<1>1. ItemSound(item[i], i) /\ DOMAIN <<>> = {}
  BY ItemFields
<1>2. Inputs(i) \subseteq Files /\ \A s : StagedFor(i, s) \subseteq Files
  BY DEF Inputs, Files, StagedFor
<1>3. CASE item[i].at \in {"queued", "refused", "lost"}
  BY <1>1, <1>3 DEF ItemSound
<1>4. CASE item[i].at \notin {"queued", "refused", "lost"}
  BY <1>1, <1>2, <1>4 DEF ItemSound
<1> QED
  BY <1>3, <1>4

LEMMA EditKept ==
  ASSUME SessionInv, Edit
  PROVE  SessionInv'
<1>1. UNCHANGED <<item, written, raw, published>>
  BY DEF Edit
<1>2. ItemsSound' /\ RawSound' /\ StampsSound'
  BY <1>1 DEF SessionInv, ItemsSound, RawSound, Begun, StampsSound, StampSound
<1> SUFFICES WorldTypeOK' /\ Edited01' /\ DigestBefore' /\ StagedBetween'
  BY <1>2 DEF SessionInv
<1>3. WorldTypeOK /\ Edited01 /\ DigestBefore /\ StagedBetween
  BY DEF SessionInv
<1>4. ASSUME NEW f \in Files, Edited(f), source' = [source EXCEPT ![f] = 1 - @], UNCHANGED <<consumed, semantics, defined>>
      PROVE  WorldTypeOK' /\ Edited01' /\ DigestBefore' /\ StagedBetween'
  <2>1. /\ source' \in [Files -> Contents] /\ edits' \in [Subjects -> Nat]
        /\ \A g \in Files : g # f => source'[g] = source[g] /\ edits'[g] = edits[g]
        /\ source'[f] = 1 - source[f] /\ edits'[f] = edits[f] + 1
        /\ edits[f] \in Nat /\ source[f] \in Contents
    BY <1>3, <1>4 DEF WorldTypeOK, Edited, Contents, Subjects
  <2>2. WorldTypeOK'
    BY <1>1, <1>3, <1>4, <2>1 DEF WorldTypeOK
  <2>3. edits'[f] < 2 => source[f] = 0 /\ source'[f] = 1 /\ edits'[f] = 1
    BY <1>3, <2>1 DEF Edited01
  <2>4. Edited01'
    BY <1>3, <2>1, <2>3 DEF Edited01
  <2>5. DigestBefore'
    BY <1>1, <1>3, <2>1, <2>3, DigestedFiles DEF DigestBefore, Contents
  <2>6. StagedBetween'
    <3>1. ASSUME NEW i \in Items, NEW s \in DOMAIN item[i].staged, NEW g \in StagedFor(i, s), edits'[g] < 2
          PROVE  item[i].digest[g] <= item[i].staged[s][g] /\ item[i].staged[s][g] <= source'[g]
      <4>1. g \in Files /\ item[i].staged[s][g] \in Contents
        BY DigestedFiles
      <4>2. edits[g] < 2
        BY <2>1, <3>1, <4>1
      <4>3. item[i].digest[g] <= item[i].staged[s][g] /\ item[i].staged[s][g] <= source[g]
        BY <1>3, <4>2 DEF StagedBetween
      <4> QED
        BY <2>1, <2>3, <3>1, <4>1, <4>3 DEF Contents
    <3> QED
      BY <1>1, <3>1 DEF StagedBetween, StagedFor, Inputs
  <2> QED
    BY <2>2, <2>4, <2>5, <2>6
<1>5. ASSUME NEW k \in {"consumers", "semantics", "definitions"}, Edited(k), source' = source,
             consumed' \in BOOLEAN, defined' \subseteq Items
      PROVE  WorldTypeOK' /\ Edited01' /\ DigestBefore' /\ StagedBetween'
  <2>1. edits' \in [Subjects -> Nat] /\ \A g \in Files : edits'[g] = edits[g]
    BY <1>3, <1>5, SessionAssumption DEF WorldTypeOK, Edited, Subjects, Files
  <2>2. WorldTypeOK'
    BY <1>1, <1>3, <1>5, <2>1 DEF WorldTypeOK
  <2>3. Edited01'
    BY <1>3, <1>5, <2>1 DEF Edited01
  <2>4. DigestBefore'
    BY <1>1, <1>3, <1>5, <2>1, DigestedFiles DEF DigestBefore
  <2>5. StagedBetween'
    <3>1. ASSUME NEW i \in Items, NEW s \in DOMAIN item[i].staged, NEW g \in StagedFor(i, s), edits'[g] < 2
          PROVE  item[i].digest[g] <= item[i].staged[s][g] /\ item[i].staged[s][g] <= source[g]
      <4>1. g \in Files
        BY DigestedFiles
      <4>2. edits[g] < 2
        BY <2>1, <3>1, <4>1
      <4> QED
        BY <1>3, <4>2 DEF StagedBetween
    <3> QED
      BY <1>1, <1>5, <3>1 DEF StagedBetween, StagedFor, Inputs
  <2> QED
    BY <2>2, <2>3, <2>4, <2>5
<1>6. CASE Edited("consumers") /\ consumed' = ~consumed /\ UNCHANGED <<source, semantics, defined>>
  BY <1>3, <1>5, <1>6 DEF WorldTypeOK
<1>7. CASE Edited("semantics") /\ semantics' = semantics + 1 /\ UNCHANGED <<source, consumed, defined>>
  BY <1>3, <1>5, <1>7 DEF WorldTypeOK
<1>8. ASSUME NEW i \in Items, Edited("definitions"), UNCHANGED <<source, consumed, semantics>>,
             defined' = IF i \in defined THEN defined \ {i} ELSE defined \cup {i}
      PROVE  WorldTypeOK' /\ Edited01' /\ DigestBefore' /\ StagedBetween'
  BY <1>3, <1>5, <1>8 DEF WorldTypeOK
<1> QED
  BY <1>4, <1>6, <1>7, <1>8 DEF Edit

\* Whatever is edited in a report, its kind and its digest stay as they were.
LEMMA EditReportKept ==
  ASSUME SessionInv, EditReport
  PROVE  SessionInv'
<1>1. Edited("report") /\ UNCHANGED <<source, consumed, semantics, defined, item, written, raw>>
  BY DEF EditReport
<1>2. WorldTypeOK /\ Edited01 /\ DigestBefore /\ StagedBetween
  BY DEF SessionInv
<1>3. edits' \in [Subjects -> Nat] /\ \A g \in Files : edits'[g] = edits[g]
  BY <1>1, <1>2, SessionAssumption DEF WorldTypeOK, Edited, Subjects, Files
<1>4. WorldTypeOK' /\ Edited01' /\ DigestBefore' /\ StagedBetween'
  <2>1. WorldTypeOK'
    BY <1>1, <1>2, <1>3 DEF WorldTypeOK
  <2>2. Edited01'
    BY <1>1, <1>2, <1>3 DEF Edited01
  <2>3. DigestBefore'
    BY <1>1, <1>2, <1>3, DigestedFiles DEF DigestBefore
  <2>4. StagedBetween'
    BY <1>1, <1>2, <1>3, DigestedFiles DEF StagedBetween, StagedFor, Inputs
  <2> QED
    BY <2>1, <2>2, <2>3, <2>4
<1>5. ItemsSound'
  BY <1>1 DEF SessionInv, ItemsSound
<1>6. ASSUME NEW r \in published,
             NEW q, q \in {[r EXCEPT !.semantics = semantics], [r EXCEPT !.consumed = consumed]}
                      \cup {[r EXCEPT !.files[f] = source[f]] : f \in DOMAIN r.files}
                      \cup {[r EXCEPT !.evals = @ \ {i}] : i \in Items}
      PROVE  StampSound(q)
  <2>1. StampSound(r)
    BY DEF SessionInv, StampsSound
  <2>2. \E ev, se, co, fs : q = [kind |-> r.kind, evals |-> ev, semantics |-> se, consumed |-> co,
                                 files |-> fs, scope |-> r.scope, stamp |-> r.stamp]
    <3>1. CASE q = [r EXCEPT !.semantics = semantics]
      BY <2>1, <3>1 DEF StampSound
    <3>2. CASE q = [r EXCEPT !.consumed = consumed]
      BY <2>1, <3>2 DEF StampSound
    <3>3. ASSUME NEW f \in DOMAIN r.files, q = [r EXCEPT !.files[f] = source[f]]
          PROVE  q = [kind |-> r.kind, evals |-> r.evals, semantics |-> r.semantics, consumed |-> r.consumed,
                      files |-> [r.files EXCEPT ![f] = source[f]], scope |-> r.scope, stamp |-> r.stamp]
      BY <2>1, <3>3 DEF StampSound
    <3>4. ASSUME NEW i \in Items, q = [r EXCEPT !.evals = @ \ {i}]
          PROVE  q = [kind |-> r.kind, evals |-> r.evals \ {i}, semantics |-> r.semantics, consumed |-> r.consumed,
                      files |-> r.files, scope |-> r.scope, stamp |-> r.stamp]
      BY <2>1, <3>4 DEF StampSound
    <3> QED
      BY <1>6, <3>1, <3>2, <3>3, <3>4
  <2>3. q.kind = r.kind /\ q.stamp = r.stamp
        /\ q = [kind |-> q.kind, evals |-> q.evals, semantics |-> q.semantics, consumed |-> q.consumed,
                files |-> q.files, scope |-> q.scope, stamp |-> q.stamp]
    BY <2>2
  <2> QED
    BY <2>1, <2>3 DEF StampSound
<1>7. PICK r \in published :
        \E q \in {[r EXCEPT !.semantics = semantics], [r EXCEPT !.consumed = consumed]}
                   \cup {[r EXCEPT !.files[f] = source[f]] : f \in DOMAIN r.files}
                   \cup {[r EXCEPT !.evals = @ \ {i}] : i \in Items} :
          published' = (published \ {r}) \cup {q}
  BY DEF EditReport
<1>8. \A q \in published' : StampSound(q)
  BY <1>6, <1>7 DEF SessionInv, StampsSound
<1>9. StampsSound'
  BY <1>1, <1>8 DEF StampsSound, StampSound, Inputs
<1>10. RawSound'
  BY <1>1, <1>7 DEF SessionInv, RawSound, Begun
<1> QED
  BY <1>4, <1>5, <1>9, <1>10 DEF SessionInv

LEMMA SessionKept == SessionInv /\ [SessionNext]_sessionVars => SessionInv'
<1> SUFFICES ASSUME SessionInv, [SessionNext]_sessionVars PROVE SessionInv'
  OBVIOUS
<1>1. ASSUME NEW w \in Workers, WorkerDies(w) PROVE SessionInv'
  BY <1>1, WorkerDiesKept
<1>2. ASSUME NEW w \in Workers, WorkerEnds(w) PROVE SessionInv'
  BY <1>2, EndsKept
<1>3. ASSUME NEW w \in Workers, NEW i \in Items, Validate(w, i) PROVE SessionInv'
  BY <1>3, ValidateKept
<1>4. ASSUME NEW w \in Workers, NEW i \in Items, SideRaises(w, i) PROVE SessionInv'
  BY <1>4, SideRaisesKept
<1>5. ASSUME NEW w \in Workers, NEW i \in Items, NEW s \in Sides, RunSide(w, i, s) PROVE SessionInv'
  BY <1>5, RunSideKept
<1>11. ASSUME NEW w \in Workers, NEW i \in Items, Refuse(w, i) PROVE SessionInv'
  BY <1>11, RefuseKept
<1>6. CASE SessionEnds
  BY <1>6, SessionEndsKept
<1>7. ASSUME NEW k \in {"live", "validation"}, PublishReport(k) PROVE SessionInv'
  BY <1>7, PublishKept
<1>8. CASE Edit
  BY <1>8, EditKept
<1>9. CASE EditReport
  BY <1>9, EditReportKept
<1>10. CASE UNCHANGED sessionVars
  <2>1. UNCHANGED <<source, consumed, semantics, defined, item, written, raw, published, edits>>
    BY <1>10 DEF sessionVars
  <2>2. WorldTypeOK' /\ ItemsSound' /\ RawSound'
    BY <2>1 DEF SessionInv, WorldTypeOK, ItemsSound, RawSound, Begun
  <2>3. Edited01' /\ DigestBefore' /\ StagedBetween'
    BY <2>1 DEF SessionInv, Edited01, DigestBefore, StagedBetween
  <2>4. StampsSound'
    BY <2>1 DEF SessionInv, StampsSound, StampSound
  <2> QED
    BY <2>2, <2>3, <2>4 DEF SessionInv
<1> QED
  BY <1>1, <1>2, <1>3, <1>4, <1>5, <1>6, <1>7, <1>8, <1>9, <1>10, <1>11 DEF SessionNext

\* Whatever is edited meanwhile, whoever crashes and whatever becomes of a report
\* after it was published: as published it has every evaluation, and one that
\* verify-reports accepts is about today's sources (validation_result,
\* build_kind_benchmark, verify_published_report_sources).
THEOREM PublishedAreSound == SessionSpec => []PublicationsAreSound
<1>1. SessionInv => PublicationsAreSound
  BY InvPublishedComplete, InvVerifiedCurrent DEF PublicationsAreSound
<1> QED
  BY SessionStarts, SessionKept, <1>1, PTL DEF SessionSpec

-----------------------------------------------------------------------------
(* Runtime checks: what is known of one check and of its project *)

Everything(plan) == Handled(plan.app) \cup Greeting(plan.app)
PCs == {"idle", "resolve", "up", "port", "wait", "clear", "traffic", "stop", "stopped", "list", "correlate",
        "detail", "logs", "down", "ended"}
Before == {"idle", "resolve", "up", "port", "wait", "clear", "traffic"}
After  == {"stopped", "list", "correlate", "detail", "logs"}
Judging == {"correlate", "detail", "logs"}

CheckTyped(e) ==
  /\ e = [pc |-> e.pc, plan |-> e.plan, failures |-> e.failures, seen |-> e.seen, ask |-> e.ask,
          detail |-> e.detail, summaries |-> e.summaries, verdict |-> e.verdict]
  /\ e.pc \in PCs /\ e.plan \in Plans /\ e.failures \in BOOLEAN /\ e.verdict \in Verdicts
  /\ e.pc \notin {"correlate", "down", "ended"} => e.detail = <<>>
  /\ e.ask \subseteq Traces /\ e.summaries \subseteq Traces /\ e.seen \subseteq Logs(Everything(e.plan))
ProjectTyped(e, p) ==
  /\ p = [up |-> p.up, app |-> p.app, buffer |-> p.buffer, store |-> p.store, lines |-> p.lines]
  /\ p.up \in BOOLEAN /\ p.app \in {"absent", "starting", "serving", "exited", "killed"} /\ p.lines \in Nat
  /\ p.buffer \subseteq Everything(e.plan) /\ p.store \subseteq Everything(e.plan)

\* What the application has done by then: nothing of the traffic is lost before
\* it is stopped, and one that exports at its end has exported everything.
WorkSound(e, p) ==
  LET app == e.plan.app
  IN /\ e.pc \in Before => p.lines = 0
     /\ e.pc = "stop" \/ e.pc \in After => p.lines = app.lines
     /\ e.pc = "stop" => p.app = "serving" /\ Handled(app) \subseteq p.buffer \cup p.store
     /\ e.pc \in {"stop", "stopped"} => e.plan.stop
     /\ e.pc \in After /\ e.plan.stop =>
          /\ p.app = IF app.stops = "killed" THEN "killed" ELSE "exited"
          /\ app.stops = "flushes" => Handled(app) \subseteq p.store
          /\ e.pc # "stopped" => app.stops # "killed"
     /\ e.pc \in {"port", "wait", "clear", "traffic", "stop"} \/ e.pc \in After => p.up

\* What was counted, and what has been found out about it.
FieldsHold(e) ==
  /\ \A r \in e.seen : r.trace # 0 /\ r.span # 0 /\ \E s \in TraceOf(Everything(e.plan), r.trace) : s.span = r.span
  /\ \A r, s \in e.seen : r.trace = s.trace /\ r.span = s.span => r = s
SeenSound(e) ==
  e.pc \in Judging =>
    /\ e.plan.stop /\ e.plan.app.stops = "flushes" => Logs(Handled(e.plan.app)) \subseteq e.seen
    /\ ~e.failures => TextPasses(e.plan, e.seen) /\ CountPasses(e.plan, e.seen)
    /\ e.pc = "correlate" => e.summaries \subseteq {r.trace : r \in e.seen}
    /\ e.pc = "detail" => e.ask \subseteq {r.trace : r \in e.seen}
    /\ e.pc = "correlate" =>
         /\ \A t \in DOMAIN e.detail : e.detail[t] \subseteq TraceOf(Everything(e.plan), t)
         /\ CountPasses(e.plan, e.seen) => {r.trace : r \in e.seen} \ {0} \subseteq e.ask \cup DOMAIN e.detail
    /\ e.pc # "correlate" /\ ~e.failures => FieldsHold(e)

Clean(e) == \A r \in e.seen : r.trace # 2
Deserved(e) ==
  LET sent == Logs(Handled(e.plan.app))
  IN /\ Behaves(e.plan)
     /\ \/ Tells(e.plan.app)
        \/ ~e.plan.words /\ e.seen \cap sent = {} /\ ~Clean(e)
        \/ /\ e.plan.app.logs > 1 /\ e.plan.app.link = "own" /\ sent \ e.seen # {}
           /\ ~(e.plan.stop /\ e.plan.app.stops = "flushes")
PassSound(e) ==
  /\ e.verdict = "passed" => e.pc \in {"down", "ended"} /\ Deserved(e)
  /\ e.pc \notin {"down", "ended"} => e.verdict = "none"

\* A check that a sound service is about to pass.
Earns(plan) == Sound_(plan) /\ plan.stop /\ plan.app.stops = "flushes" /\ plan.exact <= 1
EarnSound(e) ==
  /\ e.pc \in Judging /\ Clean(e) => ~e.failures
  /\ e.pc = "correlate" /\ Clean(e) =>
       /\ 1 \in e.ask \/ (1 \in DOMAIN e.detail /\ Span(1, 1) \in e.detail[1])
       /\ e.plan.words => 1 \in e.summaries
  /\ e.pc = "detail" /\ Clean(e) /\ e.plan.words => 1 \in e.summaries
  /\ e.pc \in {"down", "ended"} => e.verdict = "passed" \/ ~Clean(e)

CheckSound(c) ==
  /\ CheckTyped(check[c]) /\ ProjectTyped(check[c], project[c])
  /\ WorkSound(check[c], project[c]) /\ SeenSound(check[c]) /\ PassSound(check[c])
  /\ c \notin troubles => /\ Earns(check[c].plan) => EarnSound(check[c])
                          /\ check[c].pc = "ended" => ~project[c].up

RuntimeInv ==
  /\ check = [c \in Checks |-> check[c]] /\ project = [c \in Checks |-> project[c]] /\ troubles \subseteq Checks
  /\ \A c \in Checks : CheckSound(c)

LEMMA RuntimeImplies == RuntimeInv => ChecksAreEarned
<1> SUFFICES ASSUME RuntimeInv PROVE ChecksAreEarned
  OBVIOUS
<1>1. RuntimeTypeOK
  BY DEF RuntimeInv, CheckSound, CheckTyped, ProjectTyped, RuntimeTypeOK, PCs
<1>2. PassIsDeserved
  BY DEF RuntimeInv, CheckSound, PassSound, Deserved, Clean, PassIsDeserved
<1>3. SoundServicePasses
  BY DEF RuntimeInv, CheckSound, Earns, EarnSound, Clean, SoundServicePasses
<1>4. ProjectIsItsOwn
  BY DEF RuntimeInv, CheckSound, WorkSound, After, ProjectIsItsOwn, Here, ProjectOf
<1> QED
  BY <1>1, <1>2, <1>3, <1>4 DEF ChecksAreEarned

\* A step of one check, or of its project, leaves the others alone.
LEMMA OthersStay ==
  ASSUME RuntimeInv, NEW c \in Checks, NEW e, NEW p,
         check' = [check EXCEPT ![c] = e], project' = [project EXCEPT ![c] = p],
         troubles' \in {troubles, troubles \cup {c}},
         CheckSound(c)'
  PROVE  RuntimeInv'
<1>1. ASSUME NEW d \in Checks, d # c PROVE CheckSound(d)'
  <2>1. check'[d] = check[d] /\ project'[d] = project[d] /\ (d \in troubles' <=> d \in troubles)
    BY <1>1 DEF RuntimeInv
  <2>2. CheckSound(d)
    BY DEF RuntimeInv
  <2> QED
    BY <2>1, <2>2 DEF CheckSound
<1>2. /\ check' = [d \in Checks |-> check'[d]] /\ project' = [d \in Checks |-> project'[d]]
      /\ troubles' \subseteq Checks
  BY DEF RuntimeInv
<1> QED
  BY <1>1, <1>2 DEF RuntimeInv

LEMMA StepSound ==
  ASSUME RuntimeInv, NEW c \in Checks, NEW e, NEW p,
         check' = [check EXCEPT ![c] = e], project' = [project EXCEPT ![c] = p],
         troubles' \in {troubles, troubles \cup {c}},
         CheckTyped(e), ProjectTyped(e, p), WorkSound(e, p), SeenSound(e), PassSound(e),
         c \notin troubles' => /\ Earns(e.plan) => EarnSound(e)
                               /\ e.pc = "ended" => ~p.up
  PROVE  RuntimeInv'
<1>1. check'[c] = e /\ project'[c] = p
  BY DEF RuntimeInv
<1>2. CheckSound(c)'
  BY <1>1 DEF CheckSound
<1> QED
  BY <1>2, OthersStay

\* What is known of check c before its step, of which e and p are the values.
LEMMA Now ==
  ASSUME RuntimeInv, NEW c \in Checks
  PROVE  /\ CheckTyped(check[c]) /\ ProjectTyped(check[c], project[c])
         /\ WorkSound(check[c], project[c]) /\ SeenSound(check[c]) /\ PassSound(check[c])
         /\ c \notin troubles => /\ Earns(check[c].plan) => EarnSound(check[c])
                                 /\ check[c].pc = "ended" => ~project[c].up
         /\ project = [project EXCEPT ![c] = project[c]] /\ check = [check EXCEPT ![c] = check[c]]
  BY DEF RuntimeInv, CheckSound

LEMMA PlanFacts ==
  ASSUME NEW plan \in Plans
  PROVE  /\ plan.app.logs \in Nat /\ plan.app.lines \in Nat /\ plan.exact \in Nat
         /\ plan.app.link \in {"own", "none", "foreign"} /\ plan.app.stops \in {"flushes", "drops", "killed"}
         /\ plan.stop \in BOOLEAN /\ plan.words \in BOOLEAN /\ plan.clear \in BOOLEAN /\ plan.app.greets \in BOOLEAN
<1>1. plan \in [app : Applications, clear : BOOLEAN, stop : BOOLEAN, words : BOOLEAN, exact : Nat]
  BY RuntimeAssumption
<1>2. plan.app \in Applications
  BY <1>1
<1> QED
  BY <1>1, <1>2 DEF Applications

-----------------------------------------------------------------------------
(* Runtime checks: one lemma for each step *)

\* Steps by which a check only goes on.
LEMMA QuietMoves ==
  ASSUME RuntimeInv, NEW c \in Checks, Resolve(c) \/ Port(c) \/ Wait(c) \/ Stopped(c)
  PROVE  RuntimeInv'
<1> PICK e : e = check[c]
  OBVIOUS
<1> PICK p : p = project[c]
  OBVIOUS
<1>1. /\ CheckTyped(e) /\ ProjectTyped(e, p) /\ WorkSound(e, p) /\ SeenSound(e) /\ PassSound(e)
      /\ c \notin troubles => (Earns(e.plan) => EarnSound(e)) /\ (e.pc = "ended" => ~p.up)
      /\ project = [project EXCEPT ![c] = p]
  BY Now
<1>2. ASSUME NEW to, check' = [check EXCEPT ![c] = [e EXCEPT !.pc = to]], UNCHANGED <<project, troubles>>,
             \/ e.pc = "resolve" /\ to = "up"
             \/ e.pc = "port" /\ to = "wait" /\ p.up
             \/ e.pc = "wait" /\ to = "clear" /\ p.up
             \/ e.pc = "stopped" /\ to = "list" /\ p.app = "exited"
             \/ e.pc = "stopped" /\ to = "down" /\ p.app # "exited"
      PROVE  RuntimeInv'
  <2> PICK f : f = [e EXCEPT !.pc = to]
    OBVIOUS
  <2>1. /\ f.pc = to /\ f.plan = e.plan /\ f.verdict = e.verdict /\ f.failures = e.failures /\ f.seen = e.seen
        /\ f.detail = e.detail /\ f.summaries = e.summaries /\ f.ask = e.ask
    BY <1>1 DEF CheckTyped
  <2>2. CheckTyped(f) /\ ProjectTyped(f, p)
    BY <1>1, <1>2, <2>1 DEF CheckTyped, ProjectTyped, PCs
  <2>3. WorkSound(f, p)
    BY <1>1, <1>2, <2>1 DEF WorkSound, Before, After
  <2>4. SeenSound(f)
    BY <1>2, <2>1 DEF SeenSound, Judging
  <2>5. PassSound(f)
    BY <1>1, <1>2, <2>1 DEF PassSound
  <2>7. c \notin troubles => (Earns(f.plan) => EarnSound(f)) /\ f.pc # "ended"
    BY <1>1, <1>2, <2>1 DEF EarnSound, Earns, Sound_, Behaves, Judging, WorkSound, After
  <2> QED
    BY <1>1, <1>2, <2>1, <2>2, <2>3, <2>4, <2>5, <2>7, StepSound
<1>3. CASE Resolve(c)
  BY <1>2, <1>3 DEF Resolve, Advance
<1>4. CASE Port(c)
  BY <1>2, <1>4 DEF Port, Advance, Here, ProjectOf
<1>5. CASE Wait(c)
  BY <1>2, <1>5 DEF Wait, Advance, Here, ProjectOf
<1>6. CASE Stopped(c)
  BY <1>2, <1>6 DEF Stopped, Advance, Here, ProjectOf, Graceful
<1> QED
  BY <1>3, <1>4, <1>5, <1>6

LEMMA UpStep ==
  ASSUME RuntimeInv, NEW c \in Checks, Up(c)
  PROVE  RuntimeInv'
<1> PICK e : e = check[c]
  OBVIOUS
<1> PICK p : p = project[c]
  OBVIOUS
<1>1. /\ CheckTyped(e) /\ ProjectTyped(e, p) /\ WorkSound(e, p) /\ PassSound(e) /\ e.pc = "up"
  BY Now DEF Up, Advance
<1> PICK f : f = [e EXCEPT !.pc = "port"]
  OBVIOUS
<1> PICK q : q = [p EXCEPT !.up = TRUE, !.app = IF @ = "absent" THEN "starting" ELSE @]
  OBVIOUS
<1>2. check' = [check EXCEPT ![c] = f] /\ project' = [project EXCEPT ![c] = q] /\ troubles' = troubles
  BY DEF Up, Advance, World, Here, ProjectOf
<1>3. /\ f.pc = "port" /\ f.plan = e.plan /\ f.verdict = e.verdict /\ f.failures = e.failures /\ f.seen = e.seen
      /\ f.detail = e.detail /\ f.summaries = e.summaries /\ f.ask = e.ask
      /\ q.up /\ q.lines = p.lines /\ q.buffer = p.buffer /\ q.store = p.store
      /\ q.app = IF p.app = "absent" THEN "starting" ELSE p.app
  BY <1>1 DEF CheckTyped, ProjectTyped
<1>4. CheckTyped(f) /\ ProjectTyped(f, q)
  BY <1>1, <1>3 DEF CheckTyped, ProjectTyped, PCs
<1>5. WorkSound(f, q) /\ SeenSound(f) /\ PassSound(f) /\ EarnSound(f)
  BY <1>1, <1>3 DEF WorkSound, Before, After, SeenSound, PassSound, EarnSound, Judging
<1> QED
  BY <1>2, <1>3, <1>4, <1>5, StepSound

LEMMA ClearStep ==
  ASSUME RuntimeInv, NEW c \in Checks, Clear(c)
  PROVE  RuntimeInv'
<1> PICK e : e = check[c]
  OBVIOUS
<1> PICK p : p = project[c]
  OBVIOUS
<1>1. /\ CheckTyped(e) /\ ProjectTyped(e, p) /\ WorkSound(e, p) /\ PassSound(e) /\ e.pc = "clear" /\ p.up
  BY Now DEF Clear, Advance, Here, ProjectOf
<1> PICK f : f = [e EXCEPT !.pc = "traffic"]
  OBVIOUS
<1> PICK q : q = IF e.plan.clear THEN [p EXCEPT !.store = {}] ELSE p
  OBVIOUS
<1>2. check' = [check EXCEPT ![c] = f] /\ project' = [project EXCEPT ![c] = q] /\ troubles' = troubles
  BY DEF Clear, Advance, World, Here, ProjectOf
<1>3. /\ f.pc = "traffic" /\ f.plan = e.plan /\ f.verdict = e.verdict /\ f.failures = e.failures /\ f.seen = e.seen
      /\ f.detail = e.detail /\ f.summaries = e.summaries /\ f.ask = e.ask
      /\ q.up /\ q.lines = p.lines /\ q.buffer = p.buffer /\ q.store \subseteq p.store /\ q.app = p.app
      /\ q = [up |-> q.up, app |-> q.app, buffer |-> q.buffer, store |-> q.store, lines |-> q.lines]
  BY <1>1 DEF CheckTyped, ProjectTyped
<1>4. CheckTyped(f) /\ ProjectTyped(f, q)
  BY <1>1, <1>3 DEF CheckTyped, ProjectTyped, PCs
<1>5. WorkSound(f, q) /\ SeenSound(f) /\ PassSound(f) /\ EarnSound(f)
  BY <1>1, <1>3 DEF WorkSound, Before, After, SeenSound, PassSound, EarnSound, Judging
<1> QED
  BY <1>2, <1>3, <1>4, <1>5, StepSound

LEMMA TrafficStep ==
  ASSUME RuntimeInv, NEW c \in Checks, Traffic(c)
  PROVE  RuntimeInv'
<1> PICK e : e = check[c]
  OBVIOUS
<1> PICK p : p = project[c]
  OBVIOUS
<1>1. /\ CheckTyped(e) /\ ProjectTyped(e, p) /\ WorkSound(e, p) /\ PassSound(e) /\ e.pc = "traffic"
      /\ p.app = "serving"
  BY Now DEF Traffic, Advance, Here, ProjectOf
<1> PICK f : f = [e EXCEPT !.pc = IF e.plan.stop THEN "stop" ELSE "list"]
  OBVIOUS
<1> PICK q : q = [p EXCEPT !.buffer = @ \cup Handled(e.plan.app), !.lines = @ + e.plan.app.lines]
  OBVIOUS
<1>2. check' = [check EXCEPT ![c] = f] /\ project' = [project EXCEPT ![c] = q] /\ troubles' = troubles
  BY DEF Traffic, Advance, World, Here, ProjectOf
<1>3. /\ f.pc = (IF e.plan.stop THEN "stop" ELSE "list") /\ f.plan = e.plan /\ f.verdict = e.verdict
      /\ f.failures = e.failures /\ f.seen = e.seen
      /\ f.detail = e.detail /\ f.summaries = e.summaries /\ f.ask = e.ask
      /\ q.up = p.up /\ q.lines = p.lines + e.plan.app.lines /\ q.buffer = p.buffer \cup Handled(e.plan.app)
      /\ q.store = p.store /\ q.app = p.app
      /\ q = [up |-> q.up, app |-> q.app, buffer |-> q.buffer, store |-> q.store, lines |-> q.lines]
  BY <1>1 DEF CheckTyped, ProjectTyped
<1>4. e.plan.app.lines \in Nat /\ e.plan.stop \in BOOLEAN
  BY <1>1, PlanFacts DEF CheckTyped
<1>5. p.lines = 0 /\ p.up
  BY <1>1 DEF WorkSound, Before
<1>6. CheckTyped(f)
  BY <1>1, <1>3 DEF CheckTyped, PCs
<1>7. ProjectTyped(f, q)
  <2>1. q.lines \in Nat
    BY <1>3, <1>4, <1>5
  <2> QED
    BY <1>1, <1>3, <2>1 DEF ProjectTyped, Everything
<1>8. WorkSound(f, q)
  <2>1. q.lines = e.plan.app.lines
    BY <1>3, <1>4, <1>5
  <2> QED
    BY <1>1, <1>3, <1>4, <1>5, <2>1 DEF WorkSound, Before, After
<1>9. SeenSound(f) /\ PassSound(f) /\ EarnSound(f)
  BY <1>1, <1>3 DEF SeenSound, PassSound, EarnSound, Judging
<1>10. f.pc # "ended"
  BY <1>3
<1> QED
  BY <1>2, <1>6, <1>7, <1>8, <1>9, <1>10, StepSound

LEMMA StopStep ==
  ASSUME RuntimeInv, NEW c \in Checks, Stop(c)
  PROVE  RuntimeInv'
<1> PICK e : e = check[c]
  OBVIOUS
<1> PICK p : p = project[c]
  OBVIOUS
<1>1. /\ CheckTyped(e) /\ ProjectTyped(e, p) /\ WorkSound(e, p) /\ PassSound(e) /\ e.pc = "stop"
  BY Now DEF Stop, Advance
<1> PICK f : f = [e EXCEPT !.pc = "stopped"]
  OBVIOUS
<1> PICK q : q = [p EXCEPT !.app = IF e.plan.app.stops = "killed" THEN "killed" ELSE "exited",
                           !.buffer = {},
                           !.store = IF e.plan.app.stops = "flushes" THEN @ \cup p.buffer ELSE @]
  OBVIOUS
<1>2. check' = [check EXCEPT ![c] = f] /\ project' = [project EXCEPT ![c] = q] /\ troubles' = troubles
  BY DEF Stop, Advance, World, Here, ProjectOf
<1>3. /\ f.pc = "stopped" /\ f.plan = e.plan /\ f.verdict = e.verdict
      /\ f.failures = e.failures /\ f.seen = e.seen
      /\ f.detail = e.detail /\ f.summaries = e.summaries /\ f.ask = e.ask
      /\ q.up = p.up /\ q.lines = p.lines /\ q.buffer = {}
      /\ q.store = (IF e.plan.app.stops = "flushes" THEN p.store \cup p.buffer ELSE p.store)
      /\ q.app = (IF e.plan.app.stops = "killed" THEN "killed" ELSE "exited")
      /\ q = [up |-> q.up, app |-> q.app, buffer |-> q.buffer, store |-> q.store, lines |-> q.lines]
  BY <1>1 DEF CheckTyped, ProjectTyped
<1>4. CheckTyped(f)
  BY <1>1, <1>3 DEF CheckTyped, PCs
<1>5. ProjectTyped(f, q)
  BY <1>1, <1>3 DEF ProjectTyped
<1>6. WorkSound(f, q)
  <2>1. /\ p.lines = e.plan.app.lines /\ p.up /\ e.plan.stop
        /\ Handled(e.plan.app) \subseteq p.buffer \cup p.store
    BY <1>1 DEF WorkSound
  <2> QED
    BY <1>3, <2>1 DEF WorkSound, Before, After
<1>7. SeenSound(f) /\ PassSound(f) /\ EarnSound(f)
  BY <1>1, <1>3 DEF SeenSound, PassSound, EarnSound, Judging
<1> QED
  BY <1>2, <1>3, <1>4, <1>5, <1>6, <1>7, StepSound

\* Facts about what applications record.
LEMMA RecordFacts ==
  ASSUME NEW plan \in Plans, NEW r \in Everything(plan)
  PROVE  /\ r = [kind |-> r.kind, trace |-> r.trace, span |-> r.span, copy |-> r.copy]
         /\ r.kind \in {"log", "span"} /\ r.trace \in Traces
         /\ r.trace # 2 => r \in Handled(plan.app)
<1>1. /\ plan.app.link \in {"own", "none", "foreign"}
  BY PlanFacts
<1>2. CASE r \in Greeting(plan.app)
  BY <1>2 DEF Greeting, Log, Span, Traces
<1>3. CASE r \in Handled(plan.app)
  <2>1. r.trace \in 0 .. 2
    BY <1>3 DEF Handled, Log, Span
  <2> QED
    BY <1>3, <2>1 DEF Handled, Log, Span, Traces
<1> QED
  BY <1>2, <1>3 DEF Everything

LEMMA TrafficLogs ==
  ASSUME NEW plan \in Plans, NEW r \in Logs(Everything(plan)), r.trace # 2
  PROVE  /\ r \in Logs(Handled(plan.app))
         /\ \E n \in 1 .. plan.app.logs :
              r = Log(IF plan.app.link = "none" THEN 0 ELSE 1, SpanNamed(plan.app), n)
<1>1. r \in Handled(plan.app) /\ r.kind = "log"
  BY RecordFacts DEF Logs
<1> QED
  BY <1>1 DEF Logs, Handled, Span

\* The spans of the traffic's trace.
LEMMA TrafficSpans ==
  ASSUME NEW plan \in Plans
  PROVE  TraceOf(Everything(plan), 0) = {} /\ TraceOf(Everything(plan), 1) = {Span(1, 1)}
<1>1. ASSUME NEW r \in Everything(plan), r.kind = "span", r.trace # 2 PROVE r = Span(1, 1)
  BY <1>1, RecordFacts DEF Handled, Log
<1>2. Span(1, 1) \in Everything(plan) /\ Span(1, 1).kind = "span" /\ Span(1, 1).trace = 1
  BY DEF Everything, Handled, Span
<1> QED
  BY <1>1, <1>2 DEF TraceOf

LEMMA ExactCounted ==
  ASSUME NEW plan \in Plans, NEW seen, CountPasses(plan, seen)
  PROVE  seen # {}
<1>1. plan.exact \in Nat
  BY PlanFacts
<1>2. Cardinality({}) = 0
  BY FS_EmptySet
<1> QED
  BY <1>1, <1>2 DEF CountPasses

\* A check that has found nothing wrong with what it counted and with the lines
\* printed passes a service that deserves it.
LEMMA PassingDeserves ==
  ASSUME NEW e, NEW p, CheckTyped(e), ProjectTyped(e, p), WorkSound(e, p), SeenSound(e),
         e.pc = "logs", ~e.failures, p.lines = 1
  PROVE  Deserved(e)
<1> DEFINE plan == e.plan
<1> DEFINE app == e.plan.app
<1>0. plan \in Plans /\ e.seen \subseteq Logs(Everything(plan))
  BY DEF CheckTyped
<1>1. /\ app.logs \in Nat /\ app.link \in {"own", "none", "foreign"} /\ plan.words \in BOOLEAN /\ plan.stop \in BOOLEAN
  BY <1>0, PlanFacts
<1>2. app.lines = 1 /\ (plan.stop => app.stops # "killed")
  BY DEF WorkSound, After
<1>3. /\ TextPasses(plan, e.seen) /\ CountPasses(plan, e.seen) /\ FieldsHold(e)
      /\ plan.stop /\ app.stops = "flushes" => Logs(Handled(app)) \subseteq e.seen
  BY DEF SeenSound, Judging
<1>4. ASSUME NEW r \in e.seen, r.trace # 2
      PROVE  app.link = "own" /\ \E n \in 1 .. app.logs : r = Log(1, 1, n)
  <2>1. \E n \in 1 .. app.logs : r = Log(IF app.link = "none" THEN 0 ELSE 1, SpanNamed(app), n)
    BY <1>0, <1>4, TrafficLogs
  <2>2. r.trace = (IF app.link = "none" THEN 0 ELSE 1) /\ r.span = SpanNamed(app)
    BY <2>1 DEF Log
  <2>3. r.trace # 0 /\ \E s \in TraceOf(Everything(plan), r.trace) : s.span = r.span
    BY <1>3 DEF FieldsHold
  <2>4. r.trace = 1 /\ r.span = 1
    BY <1>0, <2>2, <2>3, TrafficSpans DEF Span
  <2>5. app.link = "own"
    BY <1>1, <2>2, <2>4 DEF SpanNamed
  <2> QED
    BY <2>1, <2>5 DEF SpanNamed
<1>5. CASE \A r \in e.seen : r.trace = 2
  <2>1. e.seen # {}
    BY <1>0, <1>3, ExactCounted
  <2>2. ~plan.words
    BY <1>3, <1>5 DEF TextPasses
  <2>3. e.seen \cap Logs(Handled(app)) = {}
    BY <1>5 DEF Logs, Handled, Log, Span
  <2>4. ~Clean(e)
    BY <1>5, <2>1 DEF Clean
  <2> QED
    BY <1>2, <2>2, <2>3, <2>4 DEF Deserved, Behaves
<1>6. ASSUME NEW r \in e.seen, r.trace # 2 PROVE Deserved(e)
  <2>1. app.link = "own" /\ app.logs >= 1
    BY <1>1, <1>4, <1>6
  <2>2. CASE app.logs = 1
    BY <1>2, <2>1, <2>2 DEF Deserved, Behaves, Tells
  <2>5. SpanNamed(app) = 1
    BY <2>1 DEF SpanNamed
  <2>6. app.logs > 1 => Log(1, 1, 1) \in Logs(Handled(app)) /\ Log(1, 1, 2) \in Logs(Handled(app))
    BY <1>1, <2>1, <2>5 DEF Handled, Logs, Log
  <2>7. ~(Log(1, 1, 1) \in e.seen /\ Log(1, 1, 2) \in e.seen)
    BY <1>3 DEF FieldsHold, Log
  <2>3. CASE app.logs > 1 /\ plan.stop /\ app.stops = "flushes"
    <3>1. Log(1, 1, 1) \in e.seen /\ Log(1, 1, 2) \in e.seen
      BY <1>3, <2>3, <2>6 DEF Logs, Log
    <3> QED
      BY <2>7, <3>1
  <2>4. CASE app.logs > 1 /\ ~(plan.stop /\ app.stops = "flushes")
    <3>1. Logs(Handled(app)) \ e.seen # {}
      BY <2>4, <2>6, <2>7
    <3> QED
      BY <1>2, <2>1, <2>4, <3>1 DEF Deserved, Behaves
  <2> QED
    BY <1>1, <2>1, <2>2, <2>3, <2>4
<1> QED
  BY <1>5, <1>6

\* What is counted of a sound service that has exported everything, if nothing
\* of its start is among it.
LEMMA CleanSeen ==
  ASSUME NEW plan \in Plans, Earns(plan), NEW seen \in SUBSET Logs(Everything(plan)),
         Logs(Handled(plan.app)) \subseteq seen, \A r \in seen : r.trace # 2
  PROVE  seen = {Log(1, 1, 1)} /\ TextPasses(plan, seen) /\ CountPasses(plan, seen)
<1>1. plan.app.logs = 1 /\ plan.app.link = "own" /\ plan.exact \in 0 .. 1
  BY PlanFacts DEF Earns, Sound_, Tells
<1>2. Log(1, 1, 1) \in Logs(Handled(plan.app))
  BY <1>1 DEF Logs, Handled, Log, SpanNamed
<1>3. ASSUME NEW r \in seen PROVE r = Log(1, 1, 1)
  <2>1. \E n \in 1 .. plan.app.logs :
          r = Log(IF plan.app.link = "none" THEN 0 ELSE 1, SpanNamed(plan.app), n)
    BY TrafficLogs
  <2> QED
    BY <1>1, <2>1 DEF SpanNamed
<1>4. seen = {Log(1, 1, 1)}
  BY <1>2, <1>3
<1>5. Cardinality(seen) = 1
  BY <1>4, FS_Singleton
<1>6. TextPasses(plan, seen)
  BY <1>4 DEF TextPasses, Log
<1> QED
  BY <1>1, <1>4, <1>5, <1>6 DEF CountPasses

LEMMA ReadListStep ==
  ASSUME RuntimeInv, NEW c \in Checks, ReadList(c)
  PROVE  RuntimeInv'
<1> PICK e : e = check[c]
  OBVIOUS
<1> PICK p : p = project[c]
  OBVIOUS
<1>1. /\ CheckTyped(e) /\ ProjectTyped(e, p) /\ WorkSound(e, p) /\ PassSound(e) /\ e.pc = "list"
      /\ project = [project EXCEPT ![c] = p] /\ e.plan \in Plans
  BY Now DEF ReadList, CheckTyped
<1> PICK matched : matched = Logs(p.store)
  OBVIOUS
<1>a. PICK first \in SUBSET {r.trace : r \in matched} :
           /\ Cardinality(first) = IF Cardinality({r.trace : r \in matched}) > MaxSummaries THEN MaxSummaries
                                   ELSE Cardinality({r.trace : r \in matched})
           /\ check' = [check EXCEPT ![c].pc = "correlate", ![c].seen = matched,
                               ![c].failures = ~(TextPasses(e.plan, matched) /\ CountPasses(e.plan, matched)),
                               ![c].ask = IF CountPasses(e.plan, matched) THEN {r.trace : r \in matched} \ {0} ELSE {},
                               ![c].summaries = IF e.plan.words THEN first ELSE {}]
  BY DEF ReadList, Here, ProjectOf
<1>b. PICK f : f = [e EXCEPT !.pc = "correlate", !.seen = matched,
                    !.failures = ~(TextPasses(e.plan, matched) /\ CountPasses(e.plan, matched)),
                    !.ask = IF CountPasses(e.plan, matched) THEN {r.trace : r \in matched} \ {0} ELSE {},
                    !.summaries = IF e.plan.words THEN first ELSE {}]
  OBVIOUS
<1>2. check' = [check EXCEPT ![c] = f] /\ project' = [project EXCEPT ![c] = p] /\ troubles' = troubles
  <2>1. /\ project' = project /\ troubles' = troubles
    BY DEF ReadList
  <2>2. check = [d \in Checks |-> check[d]]
    BY DEF RuntimeInv
  <2>3. check' = [check EXCEPT ![c] = f]
    BY <1>a, <1>b, <2>2
  <2> QED
    BY <1>1, <2>1, <2>3
<1>3. /\ f.pc = "correlate" /\ f.plan = e.plan /\ f.verdict = e.verdict /\ f.seen = matched /\ f.detail = e.detail
      /\ f.failures <=> ~(TextPasses(e.plan, matched) /\ CountPasses(e.plan, matched))
      /\ f.ask = (IF CountPasses(e.plan, matched) THEN {r.trace : r \in matched} \ {0} ELSE {})
      /\ f.summaries = (IF e.plan.words THEN first ELSE {})
      /\ f = [pc |-> f.pc, plan |-> f.plan, failures |-> f.failures, seen |-> f.seen, ask |-> f.ask,
              detail |-> f.detail, summaries |-> f.summaries, verdict |-> f.verdict]
      /\ f.failures \in BOOLEAN
  BY <1>1, <1>b DEF CheckTyped
<1>4. matched \subseteq Logs(Everything(e.plan))
  BY <1>1 DEF ProjectTyped, Logs
<1>5. {r.trace : r \in matched} \subseteq Traces /\ first \subseteq {r.trace : r \in matched}
  <2>1. ASSUME NEW r \in matched PROVE r.trace \in Traces
    <3>1. r \in Everything(e.plan) /\ e.plan \in Plans
      BY <1>1, <1>4, <2>1 DEF Logs
    <3> QED
      BY <3>1, RecordFacts
  <2>2. {r.trace : r \in matched} \subseteq Traces
    BY <2>1
  <2>3. first \subseteq {r.trace : r \in matched}
    BY <1>a
  <2> QED
    BY <2>2, <2>3
<1>6. CheckTyped(f)
  <2>1. f.ask \subseteq Traces /\ f.summaries \subseteq Traces
    BY <1>3, <1>5
  <2> QED
    BY <1>1, <1>3, <1>4, <2>1 DEF CheckTyped, PCs
<1>7. ProjectTyped(f, p) /\ WorkSound(f, p) /\ PassSound(f)
  BY <1>1, <1>3 DEF ProjectTyped, WorkSound, Before, After, PassSound
<1>8. SeenSound(f)
  <2>1. e.plan.stop /\ e.plan.app.stops = "flushes" => Logs(Handled(e.plan.app)) \subseteq matched
    BY <1>1 DEF WorkSound, After, Logs
  <2>2. DOMAIN f.detail = {}
    BY <1>1, <1>3 DEF CheckTyped
  <2> QED
    BY <1>3, <1>5, <2>1, <2>2 DEF SeenSound
<1>9. Earns(f.plan) => EarnSound(f)
  <2> SUFFICES ASSUME Earns(e.plan), \A r \in matched : r.trace # 2
               PROVE  ~f.failures /\ 1 \in f.ask /\ (e.plan.words => 1 \in f.summaries)
    BY <1>3 DEF EarnSound, Clean
  <2>1. matched = {Log(1, 1, 1)} /\ TextPasses(e.plan, matched) /\ CountPasses(e.plan, matched)
    <3>1. Logs(Handled(e.plan.app)) \subseteq matched
      BY <1>1 DEF WorkSound, After, Logs, Earns
    <3> QED
      BY <1>1, <1>4, <3>1, CleanSeen
  <2>2. {r.trace : r \in matched} = {1}
    BY <2>1 DEF Log
  <2>3. Cardinality({1}) = 1 /\ Cardinality({}) = 0 /\ MaxSummaries \in Nat \ {0}
    BY FS_Singleton, FS_EmptySet, RuntimeAssumption
  <2>4. first # {} /\ first \subseteq {1}
    BY <1>a, <2>2, <2>3
  <2> QED
    BY <1>3, <2>1, <2>2, <2>4
<1>10. f.pc # "ended"
  BY <1>3
<1> QED
  BY <1>2, <1>6, <1>7, <1>8, <1>9, <1>10, StepSound

LEMMA LoadDetailStep ==
  ASSUME RuntimeInv, NEW c \in Checks, NEW t, LoadDetail(c, t)
  PROVE  RuntimeInv'
<1> PICK e : e = check[c]
  OBVIOUS
<1> PICK p : p = project[c]
  OBVIOUS
<1>1. /\ CheckTyped(e) /\ ProjectTyped(e, p) /\ WorkSound(e, p) /\ SeenSound(e) /\ PassSound(e)
      /\ c \notin troubles => (Earns(e.plan) => EarnSound(e))
      /\ e.pc = "correlate" /\ t \in e.ask /\ project = [project EXCEPT ![c] = p] /\ e.plan \in Plans
  BY Now DEF LoadDetail, CheckTyped
<1> PICK more : more = [u \in (DOMAIN e.detail) \cup {t} |-> IF u = t THEN TraceOf(p.store, t) ELSE e.detail[u]]
  OBVIOUS
<1> PICK f : f = [e EXCEPT !.ask = @ \ {t}, !.detail = more]
  OBVIOUS
<1>2. check' = [check EXCEPT ![c] = f] /\ project' = [project EXCEPT ![c] = p] /\ troubles' = troubles
  BY <1>1 DEF LoadDetail, Here, ProjectOf
<1>3. /\ f.pc = "correlate" /\ f.plan = e.plan /\ f.verdict = e.verdict /\ f.failures = e.failures /\ f.seen = e.seen
      /\ f.detail = more /\ f.summaries = e.summaries /\ f.ask = e.ask \ {t}
  BY <1>1 DEF CheckTyped
<1>4. CheckTyped(f)
  BY <1>1, <1>3 DEF CheckTyped, PCs
<1>5. ProjectTyped(f, p) /\ WorkSound(f, p) /\ PassSound(f)
  BY <1>1, <1>3 DEF ProjectTyped, WorkSound, Before, After, PassSound
<1>6. DOMAIN more = (DOMAIN e.detail) \cup {t} /\ more[t] = TraceOf(p.store, t)
      /\ \A u \in DOMAIN e.detail : u # t => more[u] = e.detail[u]
  OBVIOUS
<1>7. TraceOf(p.store, t) \subseteq TraceOf(Everything(e.plan), t)
  BY <1>1 DEF ProjectTyped, TraceOf
<1>8. SeenSound(f)
  <2>1. \A u \in DOMAIN more : more[u] \subseteq TraceOf(Everything(e.plan), u)
    BY <1>1, <1>6, <1>7 DEF SeenSound, Judging
  <2>2. CountPasses(e.plan, e.seen) => {r.trace : r \in e.seen} \ {0} \subseteq (e.ask \ {t}) \cup DOMAIN more
    BY <1>1, <1>6 DEF SeenSound, Judging
  <2> QED
    BY <1>1, <1>3, <2>1, <2>2 DEF SeenSound, Judging
<1>9. c \notin troubles => (Earns(f.plan) => EarnSound(f))
  <2> SUFFICES ASSUME EarnSound(e), Earns(e.plan) PROVE EarnSound(f)
    BY <1>1, <1>3
  <2>1. Span(1, 1) \in TraceOf(p.store, 1)
    <3>1. Span(1, 1) \in p.store
      BY <1>1 DEF WorkSound, After, Earns, Handled
    <3> QED
      BY <3>1 DEF TraceOf, Span
  <2>2. Clean(e) => 1 \in e.ask \ {t} \/ (1 \in DOMAIN more /\ Span(1, 1) \in more[1])
    BY <1>1, <1>6, <2>1 DEF EarnSound
  <2> QED
    BY <1>1, <1>3, <2>2 DEF EarnSound, Clean, Judging
<1> QED
  BY <1>2, <1>3, <1>4, <1>5, <1>8, <1>9, StepSound

LEMMA CorrelateStep ==
  ASSUME RuntimeInv, NEW c \in Checks, Correlate(c)
  PROVE  RuntimeInv'
<1> PICK e : e = check[c]
  OBVIOUS
<1> PICK p : p = project[c]
  OBVIOUS
<1>1. /\ CheckTyped(e) /\ ProjectTyped(e, p) /\ WorkSound(e, p) /\ SeenSound(e) /\ PassSound(e)
      /\ c \notin troubles => (Earns(e.plan) => EarnSound(e))
      /\ e.pc = "correlate" /\ e.ask = {} /\ project = [project EXCEPT ![c] = p] /\ e.plan \in Plans
      /\ e.seen \subseteq Logs(Everything(e.plan))
  BY Now DEF Correlate, CheckTyped
<1>a. PICK wrong \in BOOLEAN : wrong <=> e.failures \/ (CountPasses(e.plan, e.seen) /\ ~FieldsPass(e.seen, e.detail))
  OBVIOUS
<1>b. PICK f : f = [e EXCEPT !.pc = "detail", !.failures = wrong, !.detail = <<>>, !.ask = e.summaries]
  OBVIOUS
<1>2. check' = [check EXCEPT ![c] = f] /\ project' = [project EXCEPT ![c] = p] /\ troubles' = troubles
  <2>1. /\ project' = project /\ troubles' = troubles
    BY DEF Correlate
  <2>2. check = [d \in Checks |-> check[d]]
    BY DEF RuntimeInv
  <2>3. wrong = (e.failures \/ (CountPasses(e.plan, e.seen) /\ ~FieldsPass(e.seen, e.detail)))
    BY <1>a
  <2>4. check' = [check EXCEPT ![c] = f]
    BY <1>b, <2>2, <2>3 DEF Correlate
  <2> QED
    BY <1>1, <2>1, <2>4
<1>3. /\ f.pc = "detail" /\ f.plan = e.plan /\ f.verdict = e.verdict /\ f.seen = e.seen /\ f.detail = <<>>
      /\ f.failures = wrong /\ f.ask = e.summaries /\ f.summaries = e.summaries
      /\ f = [pc |-> f.pc, plan |-> f.plan, failures |-> f.failures, seen |-> f.seen, ask |-> f.ask,
              detail |-> f.detail, summaries |-> f.summaries, verdict |-> f.verdict]
  BY <1>1, <1>b DEF CheckTyped
<1>4. CheckTyped(f)
  BY <1>1, <1>3 DEF CheckTyped, PCs
<1>5. ProjectTyped(f, p) /\ WorkSound(f, p) /\ PassSound(f)
  BY <1>1, <1>3 DEF ProjectTyped, WorkSound, Before, After, PassSound
<1>6. SeenSound(f)
  <2>1. ASSUME ~wrong PROVE TextPasses(e.plan, e.seen) /\ CountPasses(e.plan, e.seen) /\ FieldsPass(e.seen, e.detail)
    BY <1>1, <1>a, <2>1 DEF SeenSound, Judging
  <2>2. ASSUME ~wrong, NEW r \in e.seen
        PROVE  r.trace # 0 /\ r.span # 0 /\ \E s \in TraceOf(Everything(e.plan), r.trace) : s.span = r.span
    <3>1. r.trace # 0 /\ r.span # 0 /\ \E s \in e.detail[r.trace] : s.span = r.span
      BY <2>1, <2>2 DEF FieldsPass, Correlated
    <3>2. r.trace \in DOMAIN e.detail
      BY <1>1, <2>1, <2>2, <3>1 DEF SeenSound, Judging
    <3> QED
      BY <1>1, <3>1, <3>2 DEF SeenSound, Judging
  <2>3. ~wrong => FieldsHold(f)
    BY <1>3, <2>1, <2>2 DEF FieldsHold, FieldsPass
  <2> QED
    BY <1>1, <1>3, <2>1, <2>3 DEF SeenSound, Judging
<1>7. c \notin troubles => (Earns(f.plan) => EarnSound(f))
  <2> SUFFICES ASSUME EarnSound(e), Earns(e.plan), \A r \in e.seen : r.trace # 2
               PROVE  ~wrong /\ (e.plan.words => 1 \in e.summaries)
    BY <1>1, <1>3 DEF EarnSound, Clean, Judging
  <2>1. e.seen = {Log(1, 1, 1)}
    <3>1. Logs(Handled(e.plan.app)) \subseteq e.seen
      BY <1>1 DEF SeenSound, Judging, Earns
    <3> QED
      BY <1>1, <3>1, CleanSeen
  <2>2. ~e.failures /\ Span(1, 1) \in e.detail[1] /\ (e.plan.words => 1 \in e.summaries)
    BY <1>1 DEF EarnSound, Clean, Judging
  <2>3. FieldsPass(e.seen, e.detail)
    <3>1. Correlated(Log(1, 1, 1), e.detail)
      BY <2>2 DEF Correlated, Log, Span
    <3> QED
      BY <2>1, <3>1 DEF FieldsPass
  <2> QED
    BY <1>a, <2>2, <2>3
<1>8. f.pc # "ended"
  BY <1>3
<1> QED
  BY <1>2, <1>4, <1>5, <1>6, <1>7, <1>8, StepSound

LEMMA ReadDetailStep ==
  ASSUME RuntimeInv, NEW c \in Checks, NEW t, ReadDetail(c, t)
  PROVE  RuntimeInv'
<1> PICK e : e = check[c]
  OBVIOUS
<1> PICK p : p = project[c]
  OBVIOUS
<1>1. /\ CheckTyped(e) /\ ProjectTyped(e, p) /\ WorkSound(e, p) /\ SeenSound(e) /\ PassSound(e)
      /\ c \notin troubles => (Earns(e.plan) => EarnSound(e))
      /\ e.pc = "detail" /\ project = [project EXCEPT ![c] = p]
  BY Now DEF ReadDetail
<1>a. PICK tell : tell = IF t = 1 THEN e.summaries ELSE e.summaries \ {t}
  OBVIOUS
<1>b. PICK f : f = [e EXCEPT !.ask = @ \ {t}, !.summaries = tell]
  OBVIOUS
<1>2. check' = [check EXCEPT ![c] = f] /\ project' = [project EXCEPT ![c] = p] /\ troubles' = troubles
  <2>1. /\ project' = project /\ troubles' = troubles
    BY DEF ReadDetail
  <2>2. check = [d \in Checks |-> check[d]]
    BY DEF RuntimeInv
  <2>3. check' = [check EXCEPT ![c] = f]
    BY <1>a, <1>b, <2>2 DEF ReadDetail, Here, ProjectOf
  <2> QED
    BY <1>1, <2>1, <2>3
<1>3. /\ f.pc = "detail" /\ f.plan = e.plan /\ f.verdict = e.verdict /\ f.seen = e.seen /\ f.detail = e.detail
      /\ f.failures = e.failures /\ f.ask = e.ask \ {t} /\ f.summaries = tell
      /\ f = [pc |-> f.pc, plan |-> f.plan, failures |-> f.failures, seen |-> f.seen, ask |-> f.ask,
              detail |-> f.detail, summaries |-> f.summaries, verdict |-> f.verdict]
  BY <1>1, <1>b DEF CheckTyped
<1>4. CheckTyped(f)
  BY <1>1, <1>3, <1>a DEF CheckTyped
<1>5. ProjectTyped(f, p) /\ WorkSound(f, p) /\ PassSound(f)
  BY <1>1, <1>3 DEF ProjectTyped, WorkSound, Before, After, PassSound
<1>6. SeenSound(f)
  BY <1>1, <1>3 DEF SeenSound, Judging, FieldsHold
<1>7. c \notin troubles => (Earns(f.plan) => EarnSound(f))
  <2>1. 1 \in e.summaries => 1 \in tell
    BY <1>a
  <2> QED
    BY <1>1, <1>3, <2>1 DEF EarnSound, Clean, Judging
<1>8. f.pc # "ended"
  BY <1>3
<1> QED
  BY <1>2, <1>4, <1>5, <1>6, <1>7, <1>8, StepSound

\* A sound service that exported everything has a detail for every entry, unless
\* one is about its start.
LEMMA DetailMissingStep ==
  ASSUME RuntimeInv, NEW c \in Checks, NEW t, DetailMissing(c, t)
  PROVE  RuntimeInv'
<1> PICK e : e = check[c]
  OBVIOUS
<1> PICK p : p = project[c]
  OBVIOUS
<1>1. /\ CheckTyped(e) /\ ProjectTyped(e, p) /\ WorkSound(e, p) /\ SeenSound(e) /\ PassSound(e)
      /\ c \notin troubles => (Earns(e.plan) => EarnSound(e))
      /\ e.pc = "detail" /\ t \in e.ask /\ t # 0 /\ TraceOf(p.store, t) = {}
      /\ e.plan \in Plans /\ e.seen \subseteq Logs(Everything(e.plan))
      /\ project = [project EXCEPT ![c] = p]
  BY Now DEF DetailMissing, HasDetail, Here, ProjectOf, CheckTyped
<1> PICK f : f = [e EXCEPT !.pc = "down", !.verdict = "failed"]
  OBVIOUS
<1>2. check' = [check EXCEPT ![c] = f] /\ project' = [project EXCEPT ![c] = p] /\ troubles' = troubles
  <2>1. check = [d \in Checks |-> check[d]]
    BY DEF RuntimeInv
  <2>2. check' = [check EXCEPT ![c] = f]
    BY <2>1 DEF DetailMissing
  <2> QED
    BY <1>1, <2>2 DEF DetailMissing
<1>3. /\ f.pc = "down" /\ f.plan = e.plan /\ f.verdict = "failed" /\ f.seen = e.seen /\ f.detail = e.detail
      /\ f.failures = e.failures /\ f.ask = e.ask /\ f.summaries = e.summaries
      /\ f = [pc |-> f.pc, plan |-> f.plan, failures |-> f.failures, seen |-> f.seen, ask |-> f.ask,
              detail |-> f.detail, summaries |-> f.summaries, verdict |-> f.verdict]
  BY <1>1 DEF CheckTyped
<1>4. CheckTyped(f)
  BY <1>1, <1>3 DEF CheckTyped, PCs, Verdicts
<1>5. ProjectTyped(f, p) /\ WorkSound(f, p) /\ SeenSound(f) /\ PassSound(f)
  BY <1>1, <1>3 DEF ProjectTyped, WorkSound, Before, After, SeenSound, Judging, PassSound
<1>6. Earns(e.plan) => ~Clean(e)
  <2> SUFFICES ASSUME Earns(e.plan), \A r \in e.seen : r.trace # 2 PROVE FALSE
    BY DEF Clean
  <2>1. Logs(Handled(e.plan.app)) \subseteq e.seen /\ e.ask \subseteq {r.trace : r \in e.seen}
    BY <1>1 DEF SeenSound, Judging, Earns
  <2>2. e.seen = {Log(1, 1, 1)}
    BY <1>1, <2>1, CleanSeen
  <2>3. t = 1
    BY <1>1, <2>1, <2>2 DEF Log
  <2>4. Span(1, 1) \in p.store
    BY <1>1 DEF WorkSound, After, Earns, Handled
  <2>5. Span(1, 1) \in TraceOf(p.store, 1)
    BY <2>4 DEF TraceOf, Span
  <2> QED
    BY <1>1, <2>3, <2>5
<1>7. c \notin troubles => (Earns(f.plan) => EarnSound(f))
  BY <1>3, <1>6 DEF EarnSound, Judging, Clean
<1>8. f.pc # "ended"
  BY <1>3
<1> QED
  BY <1>2, <1>4, <1>5, <1>7, <1>8, StepSound

LEMMA DetailStep ==
  ASSUME RuntimeInv, NEW c \in Checks, Detail(c)
  PROVE  RuntimeInv'
<1> PICK e : e = check[c]
  OBVIOUS
<1> PICK p : p = project[c]
  OBVIOUS
<1>1. /\ CheckTyped(e) /\ ProjectTyped(e, p) /\ WorkSound(e, p) /\ SeenSound(e) /\ PassSound(e)
      /\ c \notin troubles => (Earns(e.plan) => EarnSound(e))
      /\ e.pc = "detail" /\ project = [project EXCEPT ![c] = p]
  BY Now DEF Detail
<1>a. PICK wrong \in BOOLEAN : wrong <=> e.failures \/ (e.plan.words /\ e.summaries = {})
  OBVIOUS
<1>b. PICK f : f = [e EXCEPT !.pc = "logs", !.failures = wrong]
  OBVIOUS
<1>2. check' = [check EXCEPT ![c] = f] /\ project' = [project EXCEPT ![c] = p] /\ troubles' = troubles
  <2>1. /\ project' = project /\ troubles' = troubles
    BY DEF Detail
  <2>2. check = [d \in Checks |-> check[d]]
    BY DEF RuntimeInv
  <2>3. wrong = (e.failures \/ (e.plan.words /\ e.summaries = {}))
    BY <1>a
  <2>4. check' = [check EXCEPT ![c] = f]
    BY <1>b, <2>2, <2>3 DEF Detail
  <2> QED
    BY <1>1, <2>1, <2>4
<1>3. /\ f.pc = "logs" /\ f.plan = e.plan /\ f.verdict = e.verdict /\ f.seen = e.seen /\ f.detail = e.detail
      /\ f.failures = wrong /\ f.ask = e.ask /\ f.summaries = e.summaries
      /\ f = [pc |-> f.pc, plan |-> f.plan, failures |-> f.failures, seen |-> f.seen, ask |-> f.ask,
              detail |-> f.detail, summaries |-> f.summaries, verdict |-> f.verdict]
  BY <1>1, <1>b DEF CheckTyped
<1>4. CheckTyped(f)
  BY <1>1, <1>3 DEF CheckTyped, PCs
<1>5. ProjectTyped(f, p) /\ WorkSound(f, p) /\ PassSound(f)
  BY <1>1, <1>3 DEF ProjectTyped, WorkSound, Before, After, PassSound
<1>6. SeenSound(f)
  BY <1>1, <1>3, <1>a DEF SeenSound, Judging, FieldsHold
<1>7. c \notin troubles => (Earns(f.plan) => EarnSound(f))
  BY <1>1, <1>3, <1>a DEF EarnSound, Clean, Judging
<1>8. f.pc # "ended"
  BY <1>3
<1> QED
  BY <1>2, <1>4, <1>5, <1>6, <1>7, <1>8, StepSound

LEMMA ServiceLogsStep ==
  ASSUME RuntimeInv, NEW c \in Checks, ServiceLogs(c)
  PROVE  RuntimeInv'
<1> PICK e : e = check[c]
  OBVIOUS
<1> PICK p : p = project[c]
  OBVIOUS
<1>1. /\ CheckTyped(e) /\ ProjectTyped(e, p) /\ WorkSound(e, p) /\ SeenSound(e)
      /\ c \notin troubles => (Earns(e.plan) => EarnSound(e))
      /\ e.pc = "logs" /\ project = [project EXCEPT ![c] = p]
  BY Now DEF ServiceLogs
<1>a. PICK said : said = IF ~e.failures /\ p.lines = 1 THEN "passed" ELSE "failed"
  OBVIOUS
<1>b. PICK f : f = [e EXCEPT !.pc = "down", !.verdict = said]
  OBVIOUS
<1>2. check' = [check EXCEPT ![c] = f] /\ project' = [project EXCEPT ![c] = p] /\ troubles' = troubles
  <2>1. /\ project' = project /\ troubles' = troubles
    BY DEF ServiceLogs
  <2>2. check = [d \in Checks |-> check[d]]
    BY DEF RuntimeInv
  <2>3. check' = [check EXCEPT ![c] = f]
    BY <1>a, <1>b, <2>2 DEF ServiceLogs, Here, ProjectOf
  <2> QED
    BY <1>1, <2>1, <2>3
<1>3. /\ f.pc = "down" /\ f.plan = e.plan /\ f.verdict = said /\ f.seen = e.seen /\ f.detail = e.detail
      /\ f.failures = e.failures /\ f.ask = e.ask /\ f.summaries = e.summaries
      /\ f = [pc |-> f.pc, plan |-> f.plan, failures |-> f.failures, seen |-> f.seen, ask |-> f.ask,
              detail |-> f.detail, summaries |-> f.summaries, verdict |-> f.verdict]
  BY <1>1, <1>b DEF CheckTyped
<1>4. CheckTyped(f)
  BY <1>1, <1>3, <1>a DEF CheckTyped, PCs, Verdicts
<1>5. ProjectTyped(f, p) /\ WorkSound(f, p) /\ SeenSound(f)
  BY <1>1, <1>3 DEF ProjectTyped, WorkSound, Before, After, SeenSound, Judging
<1>6. PassSound(f)
  <2>1. said = "passed" => Deserved(e)
    BY <1>1, <1>a, PassingDeserves
  <2> QED
    BY <1>3, <2>1 DEF PassSound, Deserved, Clean
<1>7. c \notin troubles => (Earns(f.plan) => EarnSound(f))
  <2> SUFFICES ASSUME EarnSound(e), Earns(e.plan), Clean(e) PROVE said = "passed"
    BY <1>1, <1>3 DEF EarnSound, Clean, Judging
  <2>1. p.lines = 1
    BY <1>1 DEF WorkSound, After, Earns, Sound_, Behaves
  <2> QED
    BY <1>1, <1>a, <2>1 DEF EarnSound, Judging
<1>8. f.pc # "ended"
  BY <1>3
<1> QED
  BY <1>2, <1>4, <1>5, <1>6, <1>7, <1>8, StepSound

LEMMA FailsStep ==
  ASSUME RuntimeInv, NEW c \in Checks, Fails(c)
  PROVE  RuntimeInv'
<1> PICK e : e = check[c]
  OBVIOUS
<1> PICK p : p = project[c]
  OBVIOUS
<1>1. /\ CheckTyped(e) /\ ProjectTyped(e, p) /\ e.pc \notin {"idle", "down", "ended"}
      /\ project = [project EXCEPT ![c] = p]
  BY Now DEF Fails
<1>a. PICK to : to = IF e.pc = "resolve" THEN "ended" ELSE "down"
  OBVIOUS
<1>b. PICK f : f = [e EXCEPT !.pc = to, !.verdict = "failed"]
  OBVIOUS
<1>c. PICK q : q = [p EXCEPT !.up = TRUE, !.app = "starting"]
  OBVIOUS
<1>2. check' = [check EXCEPT ![c] = f] /\ troubles' = troubles \cup {c}
  <2>1. check = [d \in Checks |-> check[d]]
    BY DEF RuntimeInv
  <2> QED
    BY <1>a, <1>b, <2>1 DEF Fails
<1>3. project' = [project EXCEPT ![c] = p] \/ project' = [project EXCEPT ![c] = q]
  BY <1>1, <1>c DEF Fails, World, Here, ProjectOf
<1>4. /\ f.pc = to /\ f.plan = e.plan /\ f.verdict = "failed" /\ f.seen = e.seen /\ f.detail = e.detail
      /\ f.failures = e.failures /\ f.ask = e.ask /\ f.summaries = e.summaries
      /\ f = [pc |-> f.pc, plan |-> f.plan, failures |-> f.failures, seen |-> f.seen, ask |-> f.ask,
              detail |-> f.detail, summaries |-> f.summaries, verdict |-> f.verdict]
      /\ to \in {"down", "ended"}
  BY <1>1, <1>a, <1>b DEF CheckTyped
<1>5. CheckTyped(f) /\ SeenSound(f) /\ PassSound(f)
  BY <1>1, <1>4 DEF CheckTyped, PCs, Verdicts, SeenSound, Judging, PassSound
<1>6. ProjectTyped(f, p) /\ WorkSound(f, p)
  BY <1>1, <1>4 DEF ProjectTyped, WorkSound, Before, After
<1>7. ProjectTyped(f, q) /\ WorkSound(f, q)
  BY <1>1, <1>4, <1>c DEF ProjectTyped, WorkSound, Before, After
<1> QED
  BY <1>2, <1>3, <1>5, <1>6, <1>7, StepSound

LEMMA EndStep ==
  ASSUME RuntimeInv, NEW c \in Checks, Down(c) \/ DownFails(c)
  PROVE  RuntimeInv'
<1> PICK e : e = check[c]
  OBVIOUS
<1> PICK p : p = project[c]
  OBVIOUS
<1>1. /\ CheckTyped(e) /\ ProjectTyped(e, p) /\ PassSound(e) /\ e.pc = "down"
      /\ c \notin troubles => (Earns(e.plan) => EarnSound(e))
      /\ project = [project EXCEPT ![c] = p]
  BY Now DEF Down, DownFails
<1>a. PICK said : said = IF e.verdict = "none" THEN "failed" ELSE e.verdict
  OBVIOUS
<1>b. PICK f : f = [e EXCEPT !.pc = "ended", !.verdict = said]
  OBVIOUS
<1>2. check' = [check EXCEPT ![c] = f]
  <2>1. check = [d \in Checks |-> check[d]]
    BY DEF RuntimeInv
  <2> QED
    BY <1>a, <1>b, <2>1 DEF Down, DownFails, FinalVerdict
<1>3. /\ f.pc = "ended" /\ f.plan = e.plan /\ f.verdict = said /\ f.seen = e.seen /\ f.detail = e.detail
      /\ f.failures = e.failures /\ f.ask = e.ask /\ f.summaries = e.summaries
      /\ f = [pc |-> f.pc, plan |-> f.plan, failures |-> f.failures, seen |-> f.seen, ask |-> f.ask,
              detail |-> f.detail, summaries |-> f.summaries, verdict |-> f.verdict]
  BY <1>1, <1>b DEF CheckTyped
<1>4. CheckTyped(f) /\ SeenSound(f) /\ PassSound(f)
  BY <1>1, <1>3, <1>a DEF CheckTyped, PCs, Verdicts, SeenSound, Judging, PassSound, Deserved, Clean
<1>5. EarnSound(e) => EarnSound(f)
  BY <1>1, <1>3, <1>a DEF EarnSound, Clean, Judging
<1>6. ProjectTyped(f, p) /\ WorkSound(f, p)
  BY <1>1, <1>3 DEF ProjectTyped, WorkSound, Before, After
<1>7. ProjectTyped(f, Gone) /\ WorkSound(f, Gone) /\ ~Gone.up
  BY <1>3 DEF ProjectTyped, WorkSound, Before, After, Gone
<1>8. CASE Down(c)
  <2>1. project' = [project EXCEPT ![c] = Gone] /\ troubles' = troubles
    BY <1>8 DEF Down, World, ProjectOf
  <2> QED
    BY <1>1, <1>2, <1>3, <1>4, <1>5, <1>7, <2>1, StepSound
<1>9. CASE DownFails(c)
  <2>1. project' = [project EXCEPT ![c] = p] /\ troubles' = troubles \cup {c}
    BY <1>1, <1>9 DEF DownFails
  <2> QED
    BY <1>2, <1>4, <1>6, <2>1, StepSound
<1> QED
  BY <1>8, <1>9

\* The application works on meanwhile.
LEMMA AppStep ==
  ASSUME RuntimeInv, NEW c \in Checks, AppStarts(c) \/ (\E k \in {"log", "span"} : Export(c, k))
  PROVE  RuntimeInv'
<1> PICK e : e = check[c]
  OBVIOUS
<1> PICK p : p = project[c]
  OBVIOUS
<1>1. /\ CheckTyped(e) /\ ProjectTyped(e, p) /\ WorkSound(e, p) /\ SeenSound(e) /\ PassSound(e)
      /\ c \notin troubles => (Earns(e.plan) => EarnSound(e)) /\ (e.pc = "ended" => ~p.up)
      /\ check = [check EXCEPT ![c] = e]
  BY Now
<1>2. check' = [check EXCEPT ![c] = e] /\ troubles' = troubles
  BY <1>1 DEF AppStarts, Export
<1>3. ASSUME NEW q, project' = [project EXCEPT ![c] = q], ProjectTyped(e, q), WorkSound(e, q), q.up = p.up
      PROVE  RuntimeInv'
  BY <1>1, <1>2, <1>3, StepSound
<1>4. CASE AppStarts(c)
  <2>1. PICK q : q = [p EXCEPT !.app = "serving", !.buffer = Greeting(e.plan.app)]
    OBVIOUS
  <2>2. project' = [project EXCEPT ![c] = q] /\ p.app = "starting"
    BY <1>4, <2>1 DEF AppStarts, World, Here, ProjectOf
  <2>3. /\ q.up = p.up /\ q.lines = p.lines /\ q.store = p.store /\ q.buffer = Greeting(e.plan.app) /\ q.app = "serving"
        /\ q = [up |-> q.up, app |-> q.app, buffer |-> q.buffer, store |-> q.store, lines |-> q.lines]
    BY <1>1, <2>1 DEF ProjectTyped
  <2>4. ProjectTyped(e, q)
    BY <1>1, <2>3 DEF ProjectTyped, Everything
  <2>5. WorkSound(e, q)
    BY <1>1, <2>2, <2>3 DEF WorkSound, Before, After
  <2> QED
    BY <1>3, <2>2, <2>3, <2>4, <2>5
<1>5. ASSUME NEW k \in {"log", "span"}, Export(c, k) PROVE RuntimeInv'
  <2>1. PICK batch \in SUBSET p.buffer :
          project' = [project EXCEPT ![c] = [p EXCEPT !.buffer = @ \ batch, !.store = @ \cup batch]]
    BY <1>5 DEF Export, World, Here, ProjectOf
  <2>2. PICK q : q = [p EXCEPT !.buffer = @ \ batch, !.store = @ \cup batch]
    OBVIOUS
  <2>3. /\ q.up = p.up /\ q.lines = p.lines /\ q.store = p.store \cup batch /\ q.buffer = p.buffer \ batch /\ q.app = p.app
        /\ q = [up |-> q.up, app |-> q.app, buffer |-> q.buffer, store |-> q.store, lines |-> q.lines]
    BY <1>1, <2>2 DEF ProjectTyped
  <2>4. ProjectTyped(e, q)
    BY <1>1, <2>1, <2>3 DEF ProjectTyped
  <2>5. WorkSound(e, q)
    BY <1>1, <2>3 DEF WorkSound, Before, After
  <2> QED
    BY <1>3, <2>1, <2>2, <2>3, <2>4, <2>5
<1> QED
  BY <1>4, <1>5

-----------------------------------------------------------------------------
(* Runtime checks: the theorem *)

LEMMA RuntimeStarts == RuntimeInit => RuntimeInv
<1> SUFFICES ASSUME RuntimeInit PROVE RuntimeInv
  OBVIOUS
<1>1. PICK plan \in Plans, busy \in SUBSET Checks :
        check = [c \in Checks |-> IF c \in busy THEN NewCheck(plan) ELSE [NewCheck(plan) EXCEPT !.pc = "idle"]]
  BY DEF RuntimeInit
<1>2. project = [p \in Checks |-> Gone] /\ troubles = {}
  BY DEF RuntimeInit
<1>3. ASSUME NEW c \in Checks PROVE CheckSound(c)
  <2>1. PICK e : e = check[c]
    OBVIOUS
  <2>2. /\ e.pc \in {"idle", "resolve"} /\ e.plan = plan /\ e.failures = FALSE /\ e.seen = {} /\ e.ask = {}
        /\ e.detail = <<>> /\ e.summaries = {} /\ e.verdict = "none"
        /\ e = [pc |-> e.pc, plan |-> e.plan, failures |-> e.failures, seen |-> e.seen, ask |-> e.ask,
                detail |-> e.detail, summaries |-> e.summaries, verdict |-> e.verdict]
    BY <1>1, <2>1 DEF NewCheck
  <2>3. CheckTyped(e)
    BY <2>2 DEF CheckTyped, PCs, Verdicts
  <2>4. project[c] = Gone
    BY <1>2
  <2>5. ProjectTyped(e, Gone) /\ WorkSound(e, Gone)
    BY <2>2 DEF ProjectTyped, WorkSound, Gone, After, Before
  <2>6. SeenSound(e) /\ PassSound(e) /\ EarnSound(e) /\ e.pc # "ended"
    BY <2>2 DEF SeenSound, PassSound, EarnSound, Judging
  <2> QED
    BY <2>1, <2>3, <2>4, <2>5, <2>6 DEF CheckSound
<1>4. check = [c \in Checks |-> check[c]] /\ project = [c \in Checks |-> project[c]]
  BY <1>1, <1>2
<1> QED
  BY <1>2, <1>3, <1>4 DEF RuntimeInv

LEMMA RuntimeKept == RuntimeInv /\ [RuntimeNext]_runtimeVars => RuntimeInv'
<1> SUFFICES ASSUME RuntimeInv, [RuntimeNext]_runtimeVars PROVE RuntimeInv'
  OBVIOUS
<1>1. ASSUME NEW c \in Checks,
             \/ Resolve(c) \/ Up(c) \/ Port(c) \/ Wait(c) \/ Clear(c) \/ Traffic(c) \/ Stop(c) \/ Stopped(c)
             \/ ReadList(c) \/ Correlate(c) \/ Detail(c) \/ ServiceLogs(c)
             \/ \E t \in Traces : LoadDetail(c, t) \/ ReadDetail(c, t) \/ DetailMissing(c, t)
             \/ Fails(c) \/ Down(c) \/ DownFails(c)
             \/ AppStarts(c) \/ \E k \in {"log", "span"} : Export(c, k)
      PROVE  RuntimeInv'
  BY <1>1, QuietMoves, UpStep, ClearStep, TrafficStep, StopStep, ReadListStep, CorrelateStep, DetailStep,
     ServiceLogsStep, LoadDetailStep, ReadDetailStep, DetailMissingStep, FailsStep, EndStep, AppStep
<1>2. CASE UNCHANGED runtimeVars
  BY <1>2 DEF runtimeVars, RuntimeInv, CheckSound
<1> QED
  BY <1>1, <1>2 DEF RuntimeNext

\* For every set of checks, whatever the plans ask for and whatever the service
\* is like, however its exports fall between the commands of the checks and
\* whichever of these fail: a check that passes is deserved, or excepted; a
\* sound service that is stopped first passes; and projects do not meet
\* (run_runtime_check, validate_endpoint_expectations, stop_compose_services).
THEOREM ChecksStayEarned == RuntimeSpec => []ChecksAreEarned
<1> QED
  BY RuntimeStarts, RuntimeKept, RuntimeImplies, PTL DEF RuntimeSpec

-----------------------------------------------------------------------------
(* Sums and sizes.  The members of a family of sets, each with its set. *)

Tagged(S) == UNION {{n} \X S[n] : n \in DOMAIN S}
Places(f) == [n \in DOMAIN f |-> 1 .. f[n]]

LEMMA TaggedMembers ==
  ASSUME NEW S
  PROVE  /\ \A n, i : <<n, i>> \in Tagged(S) <=> n \in DOMAIN S /\ i \in S[n]
         /\ \A p \in Tagged(S) : p = <<p[1], p[2]>> /\ p[1] \in DOMAIN S /\ p[2] \in S[p[1]]
<1>1. ASSUME NEW n, NEW i, n \in DOMAIN S, i \in S[n] PROVE <<n, i>> \in Tagged(S)
  <2>1. <<n, i>> \in {n} \X S[n] BY <1>1
  <2> QED BY <1>1, <2>1, Zenon DEF Tagged
<1>2. ASSUME NEW p \in Tagged(S) PROVE p = <<p[1], p[2]>> /\ p[1] \in DOMAIN S /\ p[2] \in S[p[1]]
  <2>1. PICK n \in DOMAIN S : p \in {n} \X S[n] BY <1>2, Zenon DEF Tagged
  <2>2. p = <<p[1], p[2]>> /\ p[1] = n /\ p[2] \in S[n] BY <2>1
  <2> QED BY <2>2
<1>3. ASSUME NEW n, NEW i, <<n, i>> \in Tagged(S) PROVE n \in DOMAIN S /\ i \in S[n]
  BY <1>2, <1>3
<1> QED BY <1>1, <1>2, <1>3

\* A finite family of finite sets has finitely many of them.
LEMMA TaggedFinite ==
  ASSUME NEW S, IsFiniteSet(DOMAIN S), \A n \in DOMAIN S : IsFiniteSet(S[n])
  PROVE  IsFiniteSet(Tagged(S))
<1> DEFINE Slices == {{n} \X S[n] : n \in DOMAIN S}
           slice == [n \in DOMAIN S |-> {n} \X S[n]]
<1>1. IsFiniteSet(Slices)
  <2>1. slice \in Surjection(DOMAIN S, Slices)
    <3>1. \A n \in DOMAIN S : slice[n] = {n} \X S[n] /\ slice[n] \in Slices OBVIOUS
    <3>2. \A T \in Slices : \E n \in DOMAIN S : slice[n] = T BY <3>1, Zenon
    <3> QED BY <3>1, <3>2 DEF Surjection
  <2> HIDE DEF slice, Slices
  <2> QED BY <2>1, FS_Surjection
<1>2. ASSUME NEW T \in Slices PROVE IsFiniteSet(T)
  <2>1. PICK n \in DOMAIN S : T = {n} \X S[n] BY <1>2
  <2>2. IsFiniteSet({n}) BY FS_Singleton
  <2> QED BY <2>1, <2>2, FS_Product
<1> HIDE DEF Slices
<1>3. IsFiniteSet(UNION Slices) BY <1>1, <1>2, FS_UNION
<1> QED BY <1>3 DEF Slices, Tagged

\* The sum of a list is the size of its members laid end to end.
LEMMA TotalLaid ==
  ASSUME NEW f
  PROVE  Total(f) = Cardinality(Tagged(Places(f)))
<1>1. DOMAIN Places(f) = DOMAIN f /\ \A n \in DOMAIN f : Places(f)[n] = 1 .. f[n] BY DEF Places
<1>2. {{n} \X (1 .. f[n]) : n \in DOMAIN f} = {{n} \X Places(f)[n] : n \in DOMAIN Places(f)} BY <1>1
<1> QED BY <1>2, Zenon DEF Total, Tagged

LEMMA LaidMembers ==
  ASSUME NEW f
  PROVE  /\ \A n, i : <<n, i>> \in Tagged(Places(f)) <=> n \in DOMAIN f /\ i \in 1 .. f[n]
         /\ \A p \in Tagged(Places(f)) : p = <<p[1], p[2]>> /\ p[1] \in DOMAIN f /\ p[2] \in 1 .. f[p[1]]
<1>1. DOMAIN Places(f) = DOMAIN f /\ \A n \in DOMAIN f : Places(f)[n] = 1 .. f[n] BY DEF Places
<1> QED BY <1>1, TaggedMembers

LEMMA LaidFinite ==
  ASSUME NEW f, IsFiniteSet(DOMAIN f), \A n \in DOMAIN f : f[n] \in Nat
  PROVE  IsFiniteSet(Tagged(Places(f))) /\ Total(f) \in Nat
<1>1. DOMAIN Places(f) = DOMAIN f /\ \A n \in DOMAIN f : Places(f)[n] = 1 .. f[n] BY DEF Places
<1>2. \A n \in DOMAIN f : IsFiniteSet(1 .. f[n]) BY FS_Interval
<1>3. IsFiniteSet(Tagged(Places(f))) BY <1>1, <1>2, TaggedFinite
<1> QED BY <1>3, FS_CardinalityType, TotalLaid

\* The sizes of a family add up to the size of the family laid end to end: a
\* member of it is numbered, in its set, from one.
LEMMA TaggedCount ==
  ASSUME NEW S, IsFiniteSet(DOMAIN S), \A n \in DOMAIN S : IsFiniteSet(S[n])
  PROVE  Total([n \in DOMAIN S |-> Cardinality(S[n])]) = Cardinality(Tagged(S))
<1> DEFINE sizes == [n \in DOMAIN S |-> Cardinality(S[n])]
           order == [n \in DOMAIN S |-> CHOOSE b : b \in Bijection(1 .. Cardinality(S[n]), S[n])]
<1>1. DOMAIN sizes = DOMAIN S /\ \A n \in DOMAIN S : sizes[n] = Cardinality(S[n]) OBVIOUS
<1>2. ASSUME NEW n \in DOMAIN S PROVE sizes[n] \in Nat /\ order[n] \in Bijection(1 .. sizes[n], S[n])
  <2>1. Cardinality(S[n]) \in Nat /\ \E b : b \in Bijection(1 .. Cardinality(S[n]), S[n])
    BY FS_CardinalityType DEF ExistsBijection
  <2>2. (CHOOSE b : b \in Bijection(1 .. Cardinality(S[n]), S[n])) \in Bijection(1 .. Cardinality(S[n]), S[n]) BY <2>1, Zenon
  <2>3. order[n] = CHOOSE b : b \in Bijection(1 .. Cardinality(S[n]), S[n]) BY Zenon
  <2> QED BY <1>1, <2>1, <2>2, <2>3
<1> HIDE DEF order, sizes
<1> DEFINE Laid == Tagged(Places(sizes))
           put == [p \in Laid |-> <<p[1], order[p[1]][p[2]]>>]
<1>3. \A p \in Laid : p = <<p[1], p[2]>> /\ p[1] \in DOMAIN S /\ p[2] \in 1 .. sizes[p[1]] BY <1>1, LaidMembers
<1>4. \A n \in DOMAIN S : \A i \in 1 .. sizes[n] : <<n, i>> \in Laid BY <1>1, LaidMembers
<1>5. IsFiniteSet(Laid) BY <1>1, <1>2, LaidFinite
<1> HIDE DEF Laid
<1>6. \A p \in Laid : put[p] = <<p[1], order[p[1]][p[2]]>> OBVIOUS
<1>7. DOMAIN put = Laid OBVIOUS
<1>f. put = [p \in Laid |-> put[p]] OBVIOUS
<1> HIDE DEF put
<1>8. \A p \in Laid : put[p] \in Tagged(S)
  <2> SUFFICES ASSUME NEW p \in Laid PROVE put[p] \in Tagged(S) OBVIOUS
  <2>1. p[1] \in DOMAIN S /\ p[2] \in 1 .. sizes[p[1]] BY <1>3
  <2>2. order[p[1]][p[2]] \in S[p[1]] BY <1>2, <2>1 DEF Bijection, Injection, Surjection
  <2>3. <<p[1], order[p[1]][p[2]]>> \in Tagged(S) BY <2>1, <2>2, TaggedMembers
  <2> QED BY <1>6, <2>3
<1>9. put \in [Laid -> Tagged(S)] BY <1>f, <1>8, Zenon
<1>10. \A p, q \in Laid : put[p] = put[q] => p = q
  <2> SUFFICES ASSUME NEW p \in Laid, NEW q \in Laid, put[p] = put[q] PROVE p = q OBVIOUS
  <2>1. p[1] = q[1] /\ order[p[1]][p[2]] = order[q[1]][q[2]] BY <1>6
  <2>2. p[1] \in DOMAIN S /\ p[2] \in 1 .. sizes[p[1]] /\ q[2] \in 1 .. sizes[p[1]] BY <1>3, <2>1
  <2>3. p[2] = q[2] BY <1>2, <2>1, <2>2 DEF Bijection, Injection, IsInjective
  <2> QED BY <1>3, <2>1, <2>3
<1>11. \A t \in Tagged(S) : \E p \in Laid : put[p] = t
  <2> SUFFICES ASSUME NEW t \in Tagged(S) PROVE \E p \in Laid : put[p] = t OBVIOUS
  <2>1. t = <<t[1], t[2]>> /\ t[1] \in DOMAIN S /\ t[2] \in S[t[1]] BY TaggedMembers
  <2>2. PICK i \in 1 .. sizes[t[1]] : order[t[1]][i] = t[2] BY <1>2, <2>1 DEF Bijection, Surjection
  <2>3. <<t[1], i>> \in Laid BY <1>4, <2>1
  <2>4. put[<<t[1], i>>] = <<t[1], order[t[1]][i]>> BY <1>6, <2>3
  <2> QED BY <2>1, <2>2, <2>3, <2>4
<1>12. put \in Bijection(Laid, Tagged(S))
  BY <1>9, <1>10, <1>11 DEF Bijection, Injection, Surjection, IsInjective
<1>13. Cardinality(Tagged(S)) = Cardinality(Laid) BY <1>5, <1>12, FS_Bijection DEF ExistsBijection
<1>14. Total(sizes) = Cardinality(Laid) BY TotalLaid DEF Laid
<1>15. Total(sizes) = Cardinality(Tagged(S)) BY <1>13, <1>14
<1> QED BY <1>15 DEF sizes

\* The sizes of disjoint parts add up to that of the whole.
LEMMA PartsAddUp ==
  ASSUME NEW S, IsFiniteSet(DOMAIN S), \A n \in DOMAIN S : IsFiniteSet(S[n]),
         \A m, n \in DOMAIN S : m /= n => S[m] \cap S[n] = {}
  PROVE  Total([n \in DOMAIN S |-> Cardinality(S[n])]) = Cardinality(UNION {S[n] : n \in DOMAIN S})
<1> DEFINE U == UNION {S[n] : n \in DOMAIN S}
           drop == [p \in Tagged(S) |-> p[2]]
<1>1. \A x \in U : \E n \in DOMAIN S : x \in S[n] OBVIOUS
<1>2. \A n \in DOMAIN S : \A x \in S[n] : x \in U OBVIOUS
<1> HIDE DEF U
<1>3. \A p \in Tagged(S) : drop[p] = p[2] /\ drop[p] \in U BY <1>2, TaggedMembers
<1>f. drop = [p \in Tagged(S) |-> drop[p]] OBVIOUS
<1> HIDE DEF drop
<1>4. drop \in [Tagged(S) -> U] BY <1>f, <1>3, Zenon
<1>5. \A p, q \in Tagged(S) : drop[p] = drop[q] => p = q
  <2> SUFFICES ASSUME NEW p \in Tagged(S), NEW q \in Tagged(S), drop[p] = drop[q] PROVE p = q OBVIOUS
  <2>1. /\ p = <<p[1], p[2]>> /\ p[1] \in DOMAIN S /\ p[2] \in S[p[1]]
        /\ q = <<q[1], q[2]>> /\ q[1] \in DOMAIN S /\ q[2] \in S[q[1]]
    BY TaggedMembers
  <2>2. p[2] = q[2] BY <1>3
  <2>3. p[1] = q[1] BY <2>1, <2>2
  <2> QED BY <2>1, <2>2, <2>3
<1>6. \A x \in U : \E p \in Tagged(S) : drop[p] = x
  <2> SUFFICES ASSUME NEW x \in U PROVE \E p \in Tagged(S) : drop[p] = x OBVIOUS
  <2>1. PICK n \in DOMAIN S : x \in S[n] BY <1>1
  <2>2. <<n, x>> \in Tagged(S) BY <2>1, TaggedMembers
  <2>3. drop[<<n, x>>] = x BY <1>3, <2>2
  <2> QED BY <2>2, <2>3
<1>7. drop \in Bijection(Tagged(S), U) BY <1>4, <1>5, <1>6 DEF Bijection, Injection, Surjection, IsInjective
<1>8. Cardinality(U) = Cardinality(Tagged(S)) BY <1>7, TaggedFinite, FS_Bijection DEF ExistsBijection
<1> QED BY <1>8, TaggedCount DEF U

\* A sum over the whole is the sum, over the parts, of the sums over each.
LEMMA Nested ==
  ASSUME NEW E, NEW K, IsFiniteSet(E), DOMAIN K = E, NEW f, \A e \in E : IsFiniteSet(K[e]),
         \A d, e \in E : d /= e => K[d] \cap K[e] = {}, \A e \in E : \A n \in K[e] : f[n] \in Nat
  PROVE  Total([e \in E |-> Total([n \in K[e] |-> f[n]])]) = Total([n \in UNION {K[e] : e \in E} |-> f[n]])
<1> DEFINE part(e) == [n \in K[e] |-> f[n]]
           all == [n \in UNION {K[e] : e \in E} |-> f[n]]
           S == [e \in E |-> Tagged(Places(part(e)))]
<1>1. DOMAIN S = E /\ \A e \in E : S[e] = Tagged(Places(part(e))) OBVIOUS
<1>2. \A e \in E : DOMAIN part(e) = K[e] /\ \A n \in K[e] : part(e)[n] = f[n] OBVIOUS
<1>3. DOMAIN all = UNION {K[e] : e \in E} /\ \A n \in DOMAIN all : all[n] = f[n] OBVIOUS
<1>4. ASSUME NEW e \in E PROVE IsFiniteSet(S[e]) /\ Total(part(e)) = Cardinality(S[e])
  <2>1. \A n \in DOMAIN part(e) : part(e)[n] \in Nat BY <1>2
  <2>2. IsFiniteSet(DOMAIN part(e)) BY <1>2
  <2> HIDE DEF part
  <2> QED BY <1>1, <2>1, <2>2, LaidFinite, TotalLaid
<1>5. \A e \in E : \A n, i : <<n, i>> \in S[e] <=> n \in K[e] /\ i \in 1 .. f[n]
  <2> HIDE DEF S, part
  <2> SUFFICES ASSUME NEW e \in E, NEW n, NEW i PROVE <<n, i>> \in S[e] <=> n \in K[e] /\ i \in 1 .. f[n] OBVIOUS
  <2>1. <<n, i>> \in Tagged(Places(part(e))) <=> n \in DOMAIN part(e) /\ i \in 1 .. part(e)[n] BY LaidMembers
  <2> QED BY <1>1, <1>2, <2>1
<1>6. \A e \in E : \A p \in S[e] : p = <<p[1], p[2]>> /\ p[1] \in K[e]
  <2> HIDE DEF S, part
  <2> SUFFICES ASSUME NEW e \in E, NEW p \in S[e] PROVE p = <<p[1], p[2]>> /\ p[1] \in K[e] OBVIOUS
  <2>1. p \in Tagged(Places(part(e))) BY <1>1
  <2>2. p = <<p[1], p[2]>> /\ p[1] \in DOMAIN part(e) BY <2>1, LaidMembers
  <2> QED BY <1>2, <2>2
<1> HIDE DEF S, part
<1>7. ASSUME NEW d \in E, NEW e \in E, d /= e PROVE S[d] \cap S[e] = {}
  <2> SUFFICES ASSUME NEW p \in S[d], p \in S[e] PROVE FALSE OBVIOUS
  <2>1. p[1] \in K[d] /\ p[1] \in K[e] BY <1>6
  <2> QED BY <1>7, <2>1
<1>8. UNION {S[e] : e \in E} = Tagged(Places(all))
  <2>1. ASSUME NEW p, p \in UNION {S[e] : e \in E} PROVE p \in Tagged(Places(all))
    <3>1. PICK e \in E : p \in S[e] BY <2>1
    <3>2. p = <<p[1], p[2]>> /\ p[1] \in K[e] BY <1>6, <3>1
    <3>3. p[2] \in 1 .. f[p[1]] BY <1>5, <3>1, <3>2
    <3>4. p[1] \in DOMAIN all BY <1>3, <3>2
    <3> HIDE DEF all
    <3>5. p[2] \in 1 .. all[p[1]] BY <1>3, <3>3, <3>4
    <3>6. <<p[1], p[2]>> \in Tagged(Places(all)) BY <3>4, <3>5, LaidMembers
    <3> QED BY <3>2, <3>6
  <2>2. ASSUME NEW p \in Tagged(Places(all)) PROVE p \in UNION {S[e] : e \in E}
    <3> HIDE DEF all
    <3>1. p = <<p[1], p[2]>> /\ p[1] \in DOMAIN all /\ p[2] \in 1 .. all[p[1]] BY LaidMembers
    <3>2. PICK e \in E : p[1] \in K[e] BY <1>3, <3>1
    <3>3. p[2] \in 1 .. f[p[1]] BY <1>3, <3>1
    <3>4. <<p[1], p[2]>> \in S[e] BY <1>5, <3>2, <3>3
    <3> QED BY <3>1, <3>4
  <2> QED BY <2>1, <2>2
<1>9. Total([e \in DOMAIN S |-> Cardinality(S[e])]) = Cardinality(UNION {S[e] : e \in DOMAIN S})
  BY <1>1, <1>4, <1>7, PartsAddUp
<1>10. [e \in DOMAIN S |-> Cardinality(S[e])] = [e \in E |-> Total(part(e))] BY <1>1, <1>4
<1>11. Cardinality(UNION {S[e] : e \in DOMAIN S}) = Cardinality(UNION {S[e] : e \in E}) BY <1>1
<1>12. Total(all) = Cardinality(Tagged(Places(all)))
  <2> HIDE DEF all
  <2> QED BY TotalLaid
<1>13. Total([e \in E |-> Total(part(e))]) = Total(all) BY <1>8, <1>9, <1>10, <1>11, <1>12
<1> QED BY <1>13 DEF part

\* A sum depends on what is added up alone.
LEMMA TotalSame ==
  ASSUME NEW f, NEW g, DOMAIN f = DOMAIN g, \A n \in DOMAIN f : f[n] = g[n]
  PROVE  Total(f) = Total(g)
<1>1. {{n} \X (1 .. f[n]) : n \in DOMAIN f} = {{n} \X (1 .. g[n]) : n \in DOMAIN g} OBVIOUS
<1> QED BY <1>1, Zenon DEF Total

\* "inner" sums each part K[e] of "all".
Spread(inner, K, all) ==
  /\ IsFiniteSet(DOMAIN inner) /\ DOMAIN K = DOMAIN inner
  /\ DOMAIN all = UNION {K[e] : e \in DOMAIN K} /\ \A n \in DOMAIN all : all[n] \in Nat
  /\ \A e \in DOMAIN K : IsFiniteSet(K[e])
  /\ \A d, e \in DOMAIN K : d /= e => K[d] \cap K[e] = {}
  /\ \A e \in DOMAIN K : inner[e] = Total([n \in K[e] |-> all[n]])

LEMMA SumOfSums ==
  ASSUME NEW inner, NEW K, NEW all, Spread(inner, K, all)
  PROVE  Total(inner) = Total(all)
<1> USE DEF Spread
<1> DEFINE E == DOMAIN inner
           sums == [e \in E |-> Total([n \in K[e] |-> all[n]])]
           laid == [n \in UNION {K[e] : e \in E} |-> all[n]]
<1>1. \A e \in E : \A n \in K[e] : all[n] \in Nat OBVIOUS
<1>2. Total(sums) = Total(laid)
  <2> HIDE DEF E
  <2>1. IsFiniteSet(E) /\ DOMAIN K = E BY DEF E
  <2>2. \A e \in E : IsFiniteSet(K[e]) BY DEF E
  <2>3. \A d, e \in E : d /= e => K[d] \cap K[e] = {} BY DEF E
  <2> QED BY <1>1, <2>1, <2>2, <2>3, Nested
<1>3. DOMAIN sums = E /\ \A e \in E : sums[e] = Total([n \in K[e] |-> all[n]]) OBVIOUS
<1>4. DOMAIN laid = DOMAIN all /\ \A n \in DOMAIN all : laid[n] = all[n] OBVIOUS
<1> HIDE DEF sums, laid
<1>5. Total(inner) = Total(sums)
  <2>1. DOMAIN inner = DOMAIN sums /\ \A e \in DOMAIN inner : inner[e] = sums[e] BY <1>3, Zenon
  <2> QED BY <2>1, TotalSame
<1>6. Total(all) = Total(laid) BY <1>4, TotalSame
<1> QED BY <1>2, <1>5, <1>6

\* A smaller list has a smaller sum, and the same sum only if nothing is lost.
LEMMA TotalLe ==
  ASSUME NEW f, NEW g, IsFiniteSet(DOMAIN g), \A n \in DOMAIN g : g[n] \in Nat, DOMAIN f \subseteq DOMAIN g,
         \A n \in DOMAIN f : f[n] \in Nat /\ f[n] <= g[n]
  PROVE  /\ Total(f) \in Nat /\ Total(g) \in Nat /\ Total(f) <= Total(g)
         /\ Total(f) = Total(g) => /\ \A n \in DOMAIN f : f[n] = g[n]
                                   /\ \A n \in DOMAIN g : n \notin DOMAIN f => g[n] = 0
<1> DEFINE F == Tagged(Places(f))
           G == Tagged(Places(g))
<1>1. IsFiniteSet(G) /\ Total(g) \in Nat BY LaidFinite
<1>2. F \subseteq G
  <2> SUFFICES ASSUME NEW p \in F PROVE p \in G OBVIOUS
  <2>1. p = <<p[1], p[2]>> /\ p[1] \in DOMAIN f /\ p[2] \in 1 .. f[p[1]] BY LaidMembers
  <2>2. p[1] \in DOMAIN g /\ p[2] \in 1 .. g[p[1]] BY <2>1
  <2>3. <<p[1], p[2]>> \in G BY <2>2, LaidMembers
  <2> QED BY <2>1, <2>3
<1>3. Total(f) = Cardinality(F) /\ Total(g) = Cardinality(G) BY TotalLaid
<1>4. Total(f) \in Nat
  <2>1. IsFiniteSet(DOMAIN f) BY FS_Subset
  <2> QED BY <2>1, LaidFinite
<1>m. /\ \A n, i : <<n, i>> \in F <=> n \in DOMAIN f /\ i \in 1 .. f[n]
      /\ \A n, i : <<n, i>> \in G <=> n \in DOMAIN g /\ i \in 1 .. g[n]
  BY LaidMembers
<1> HIDE DEF F, G
<1>5. Cardinality(F) <= Cardinality(G) /\ (Cardinality(G) = Cardinality(F) => G = F) BY <1>1, <1>2, FS_Subset
<1>6. ASSUME F = G PROVE /\ \A n \in DOMAIN f : f[n] = g[n]
                         /\ \A n \in DOMAIN g : n \notin DOMAIN f => g[n] = 0
  <2>1. ASSUME NEW n \in DOMAIN f, f[n] /= g[n] PROVE FALSE
    <3>1. g[n] \in 1 .. g[n] /\ g[n] \notin 1 .. f[n] BY <2>1
    <3>2. <<n, g[n]>> \in G BY <1>m, <3>1
    <3> QED BY <1>6, <1>m, <3>1, <3>2
  <2>2. ASSUME NEW n \in DOMAIN g, n \notin DOMAIN f, g[n] /= 0 PROVE FALSE
    <3>1. g[n] \in 1 .. g[n] BY <2>2
    <3>2. <<n, g[n]>> \in G BY <1>m, <3>1
    <3> QED BY <1>6, <1>m, <2>2, <3>2
  <2> QED BY <2>1, <2>2
<1> QED BY <1>1, <1>3, <1>4, <1>5, <1>6

\* A sum of naturals is zero if all of them are.
LEMMA TotalZero ==
  ASSUME NEW f, IsFiniteSet(DOMAIN f), \A n \in DOMAIN f : f[n] \in Nat
  PROVE  Total(f) = 0 <=> \A n \in DOMAIN f : f[n] = 0
<1> DEFINE F == Tagged(Places(f))
<1>1. IsFiniteSet(F) /\ Total(f) = Cardinality(F) BY LaidFinite, TotalLaid
<1>2. /\ \A n, i : <<n, i>> \in F <=> n \in DOMAIN f /\ i \in 1 .. f[n]
      /\ \A p \in F : p = <<p[1], p[2]>> /\ p[1] \in DOMAIN f /\ p[2] \in 1 .. f[p[1]]
  BY LaidMembers
<1> HIDE DEF F
<1>3. Total(f) = 0 <=> F = {} BY <1>1, FS_EmptySet
<1>4. ASSUME NEW n \in DOMAIN f, f[n] /= 0 PROVE F /= {}
  <2>1. 1 \in 1 .. f[n] BY <1>4
  <2> QED BY <1>2, <2>1
<1>5. ASSUME NEW p \in F PROVE \E n \in DOMAIN f : f[n] /= 0
  <2>1. p[1] \in DOMAIN f /\ p[2] \in 1 .. f[p[1]] BY <1>2
  <2>2. f[p[1]] /= 0 BY <2>1
  <2> QED BY <2>1, <2>2
<1> QED BY <1>3, <1>4, <1>5

LEMMA TotalOnes ==
  ASSUME NEW D, IsFiniteSet(D)
  PROVE  Total([n \in D |-> 1]) = Cardinality(D)
<1> DEFINE S == [n \in D |-> {n}]
<1>1. DOMAIN S = D /\ \A n \in D : S[n] = {n} OBVIOUS
<1>2. \A n \in D : IsFiniteSet(S[n]) /\ Cardinality(S[n]) = 1 BY FS_Singleton
<1>3. UNION {S[n] : n \in DOMAIN S} = D BY <1>1
<1>4. [n \in DOMAIN S |-> Cardinality(S[n])] = [n \in D |-> 1] BY <1>1, <1>2
<1> HIDE DEF S
<1>5. \A m, n \in DOMAIN S : m /= n => S[m] \cap S[n] = {} BY <1>1
<1>6. Total([n \in DOMAIN S |-> Cardinality(S[n])]) = Cardinality(UNION {S[n] : n \in DOMAIN S}) BY <1>1, <1>2, <1>5, PartsAddUp
<1> QED BY <1>3, <1>4, <1>6

LEMMA LeastNumber ==
  ASSUME NEW T, T \subseteq Nat, T /= {}
  PROVE  \E m \in T : \A k \in T : m <= k
<1> DEFINE less == OpToRel(<, Nat)
<1>1. IsWellFoundedOn(less, Nat) BY NatLessThanWellFounded
<1>2. \A j, k \in Nat : j < k => <<j, k>> \in less BY DEF OpToRel
<1> HIDE DEF less
<1>3. PICK m \in T : \A k \in T : <<k, m>> \notin less BY <1>1, WFMin
<1>4. \A k \in T : ~(k < m) BY <1>2, <1>3
<1>5. \A k \in T : m <= k BY <1>4
<1> QED BY <1>3, <1>5

\* A finite set of naturals has a last one.
LEMMA LatestOne ==
  ASSUME NEW T, T \subseteq Nat, T /= {}, IsFiniteSet(T)
  PROVE  Latest(T) \in T /\ \A k \in T : k <= Latest(T)
<1> DEFINE above(n) == {m \in T : n < m}
           sizes == {Cardinality(above(n)) : n \in T}
<1>1. \A n \in T : IsFiniteSet(above(n)) /\ Cardinality(above(n)) \in Nat
  <2> SUFFICES ASSUME NEW n \in T PROVE IsFiniteSet(above(n)) /\ Cardinality(above(n)) \in Nat OBVIOUS
  <2>1. above(n) \in SUBSET T OBVIOUS
  <2> HIDE DEF above
  <2> QED BY <2>1, FS_Subset, FS_CardinalityType
<1>2. sizes \subseteq Nat /\ sizes /= {} BY <1>1
<1>3. PICK least \in sizes : \A k \in sizes : least <= k
  <2> HIDE DEF sizes
  <2> QED BY <1>2, LeastNumber
<1>4. PICK n \in T : least = Cardinality(above(n)) OBVIOUS
<1>5. ASSUME NEW k \in T, ~(k <= n) PROVE FALSE
  <2>0. k \in Nat /\ n \in Nat /\ n < k BY <1>5
  <2>a. \A m \in T : k < m => n < m BY <2>0
  <2>b. ~(k < k) BY <2>0
  <2>c. above(k) \subseteq above(n) BY <2>a, Zenon
  <2>d. k \in above(n) BY <2>0, Zenon
  <2>e. k \notin above(k) BY <2>b, Zenon
  <2>1. above(k) \in SUBSET above(n) /\ k \in above(n) /\ k \notin above(k) BY <2>c, <2>d, <2>e, Zenon
  <2>2. Cardinality(above(n)) <= Cardinality(above(k)) BY <1>3, <1>4
  <2>3. IsFiniteSet(above(n)) /\ Cardinality(above(n)) \in Nat /\ Cardinality(above(k)) \in Nat BY <1>1
  <2> HIDE DEF above
  <2>4. Cardinality(above(k)) <= Cardinality(above(n)) /\ (Cardinality(above(n)) = Cardinality(above(k)) => above(n) = above(k))
    BY <2>1, <2>3, FS_Subset
  <2> QED BY <2>1, <2>2, <2>3, <2>4
<1>6. \E m \in T : \A k \in T : k <= m BY <1>5
<1>7. (CHOOSE m \in T : \A k \in T : k <= m) \in T /\ \A k \in T : k <= (CHOOSE m \in T : \A j \in T : j <= m) BY <1>6, Zenon
<1> QED BY <1>7 DEF Latest

-----------------------------------------------------------------------------
(* What a trace shows *)
LEMMA SegmentShape ==
  ASSUME NEW s, Segment(s), s /= <<>>
  PROVE  s[1] \in Nat /\ s[2] \in Nat
BY DEF Segment

\* The reads up to an action that reach a line: the first of them starts no later.
LEMMA ReadFirst ==
  ASSUME NEW actions, DOMAIN actions \subseteq Nat, IsFiniteSet(DOMAIN actions), NEW reads, NEW lines \in Nat,
         \A k \in DOMAIN actions : Segment(reads[actions[k].id]), ReadsSkillFirst(actions, reads, lines),
         NEW line \in 1 .. lines
  PROVE  \E k \in DOMAIN actions :
           /\ reads[actions[k].id] /= <<>>
           /\ reads[actions[k].id][1] <= line /\ line <= reads[actions[k].id][2]
           /\ actions[k].stop /= Unknown
           /\ \A o \in DOMAIN actions : reads[actions[o].id] = <<>> => actions[k].stop < o
<1> DEFINE D == DOMAIN actions
           seg(j) == reads[actions[j].id]
           ends(js) == {0} \cup {seg(j)[2] : j \in js}
           before(j) == {i \in D : i < j}
<1>1. PICK k \in D :
        /\ \A j \in before(k) \cup {k} :
             /\ seg(j) /= <<>> /\ actions[j].stop /= Unknown
             /\ \A i \in D : j < i => CompletesBefore(actions[j], i)
             /\ seg(j)[1] <= Latest(ends(before(j))) + 1
        /\ Latest(ends(before(k) \cup {k})) >= lines
  BY DEF ReadsSkillFirst
<1>2. D \subseteq Nat /\ IsFiniteSet(D) OBVIOUS
<1>3. \A j \in before(k) \cup {k} : j \in D /\ j <= k /\ seg(j)[1] \in Nat /\ seg(j)[2] \in Nat
  <2> SUFFICES ASSUME NEW j \in before(k) \cup {k} PROVE j \in D /\ j <= k /\ seg(j)[1] \in Nat /\ seg(j)[2] \in Nat OBVIOUS
  <2>1. j \in D /\ j <= k BY <1>2
  <2>2. seg(j) /= <<>> BY <1>1
  <2>3. Segment(seg(j)) BY <2>1
  <2> HIDE DEF seg
  <2> QED BY <2>1, <2>2, <2>3, SegmentShape
<1> HIDE DEF D, seg
<1>4. ASSUME NEW js, js \subseteq before(k) \cup {k} PROVE Latest(ends(js)) \in ends(js) /\ \A n \in ends(js) : n <= Latest(ends(js))
  <2> DEFINE last == [j \in js |-> seg(j)[2]]
             T == {seg(j)[2] : j \in js}
  <2>1. IsFiniteSet(js)
    <3>1. before(k) \cup {k} \subseteq D OBVIOUS
    <3> QED BY <1>2, <1>4, <3>1, FS_Subset
  <2>2. last \in Surjection(js, T)
    <3>1. \A j \in js : last[j] = seg(j)[2] /\ last[j] \in T OBVIOUS
    <3>2. \A t \in T : \E j \in js : last[j] = t BY <3>1, Zenon
    <3> QED BY <3>1, <3>2 DEF Surjection
  <2>3. IsFiniteSet(T)
    <3> HIDE DEF last, T
    <3> QED BY <2>1, <2>2, FS_Surjection
  <2>4. IsFiniteSet({0} \cup T) BY <2>3, FS_Singleton, FS_Union
  <2>5. ends(js) = {0} \cup T OBVIOUS
  <2>6. ends(js) \subseteq Nat BY <1>3, <1>4
  <2> HIDE DEF ends, T
  <2> QED BY <2>4, <2>5, <2>6, LatestOne
<1> DEFINE reach == {j \in before(k) \cup {k} : line <= seg(j)[2]}
<1>5. reach /= {}
  <2>1. Latest(ends(before(k) \cup {k})) \in ends(before(k) \cup {k}) BY <1>4
  <2>2. \A n \in ends(before(k) \cup {k}) : n \in Nat BY <1>3
  <2>a. PICK top : top = Latest(ends(before(k) \cup {k})) OBVIOUS
  <2>b. top \in Nat /\ top >= lines BY <1>1, <2>1, <2>2, <2>a, Zenon
  <2>c. top /= 0 /\ line <= top BY <2>b
  <2>3. Latest(ends(before(k) \cup {k})) /= 0 /\ line <= Latest(ends(before(k) \cup {k})) BY <2>a, <2>c, Zenon
  <2>4. PICK j \in before(k) \cup {k} : Latest(ends(before(k) \cup {k})) = seg(j)[2] BY <2>1, <2>3
  <2> QED BY <2>3, <2>4
<1>6. reach \subseteq Nat BY <1>2, <1>3
<1>7. PICK j \in reach : \A i \in reach : j <= i
  <2> HIDE DEF reach
  <2> QED BY <1>5, <1>6, LeastNumber
<1>8. j \in before(k) \cup {k} /\ line <= seg(j)[2] /\ j \in D /\ j <= k BY <1>3
<1>9. seg(j)[1] <= line
  <2>a. j \in Nat /\ k \in Nat /\ j <= k BY <1>2, <1>8
  <2>b. \A i \in D : i < j => i < k BY <1>2, <2>a
  <2>1. before(j) \subseteq before(k) \cup {k} BY <2>b, Zenon
  <2>2. Latest(ends(before(j))) \in ends(before(j)) BY <1>4, <2>1
  <2>3. ASSUME NEW i \in before(j) PROVE seg(i)[2] < line
    <3>1. i \in before(k) \cup {k} BY <2>1
    <3>2. i \in Nat /\ j \in Nat /\ i < j BY <1>2, <1>8
    <3>3. i \notin reach BY <1>7, <3>2
    <3>4. ~(line <= seg(i)[2]) BY <3>1, <3>3
    <3> QED BY <1>3, <3>1, <3>4
  <2>4. Latest(ends(before(j))) < line BY <2>2, <2>3
  <2>5. seg(j)[1] <= Latest(ends(before(j))) + 1 BY <1>1, <1>8
  <2>6. Latest(ends(before(j))) \in Nat BY <1>3, <2>1, <2>2
  <2>7. PICK last : last = Latest(ends(before(j))) OBVIOUS
  <2>8. PICK first : first = seg(j)[1] OBVIOUS
  <2>9. line \in Nat /\ last \in Nat /\ first \in Nat BY <1>3, <1>8, <2>6, <2>7, <2>8
  <2>10. last < line /\ first <= last + 1 BY <2>4, <2>5, <2>7, <2>8
  <2>11. first <= line BY <2>9, <2>10
  <2> QED BY <2>8, <2>11
<1>10. ASSUME NEW o \in D, seg(o) = <<>> PROVE actions[j].stop < o
  <2>1. o \notin before(k) \cup {k} BY <1>1, <1>10
  <2>2. j < o
    <3>1. o \notin before(k) /\ o /= k BY <2>1, Zenon
    <3>2. ~(o < k) BY <3>1, <1>10
    <3>3. j \in Nat /\ k \in Nat /\ o \in Nat /\ j <= k BY <1>2, <1>8
    <3> HIDE DEF D, before, reach
    <3> QED BY <3>1, <3>2, <3>3
  <2> QED BY <1>1, <1>8, <2>2 DEF CompletesBefore
<1>11. seg(j) /= <<>> /\ actions[j].stop /= Unknown BY <1>1, <1>8
<1> QED BY <1>8, <1>9, <1>10, <1>11 DEF D, seg

\* If the actions up to one leave no gap, each line of the skill is in one of
\* them: of the reads that reach a line or go beyond, the first starts no later,
\* as all before it end before the line.  Whatever starts later finds it over.
LEMMA SkillRead ==
  ASSUME NEW events, NEW reads, NEW lines \in Nat, Events(events), \A n \in DOMAIN events : Segment(reads[events[n].id])
  PROVE  SkillReadFirst(events, reads, lines)
<1> SUFFICES ASSUME NEW actions \in {Actions(events), ClaudeActions(events)},
                    ReadsSkillFirst(actions, reads, lines), NEW line \in 1 .. lines
             PROVE  \E k \in {i \in DOMAIN actions : reads[actions[i].id] /= <<>>} :
                      /\ reads[actions[k].id][1] <= line /\ line <= reads[actions[k].id][2]
                      /\ actions[k].stop /= Unknown
                      /\ \A o \in (DOMAIN actions) \ {i \in DOMAIN actions : reads[actions[i].id] /= <<>>} : actions[k].stop < o
  BY DEF SkillReadFirst, LiveSidePasses
<1>1. DOMAIN actions \subseteq DOMAIN events /\ \A n \in DOMAIN actions : actions[n].id = events[n].id
  <2>0. \A id, ends : Action(id, ends).id = id BY DEF Action
  <2>1. CASE actions = Actions(events)
    <3> HIDE DEF Action
    <3>1. DOMAIN actions = {m \in DOMAIN events : \A k \in 1 .. m - 1 : events[k].id /= events[m].id} BY <2>1 DEF Actions
    <3>2. \A n \in DOMAIN actions : actions[n] = Action(events[n].id, Ended(events, events[n].id)) BY <2>1 DEF Actions
    <3> QED BY <2>0, <3>1, <3>2
  <2>2. CASE actions = ClaudeActions(events)
    <3> HIDE DEF Action
    <3> DEFINE kept(n) == {k \in Ended(events, events[n].id) :
                      n < k /\ \A m \in n + 1 .. k : events[m].id = events[n].id => events[m].stage = "end"}
    <3>0. actions = [n \in {m \in DOMAIN events : events[m].stage = "start"} |-> Action(events[n].id, kept(n))]
      BY <2>2, Zenon DEF ClaudeActions
    <3> HIDE DEF kept
    <3>1. DOMAIN actions = {m \in DOMAIN events : events[m].stage = "start"} BY <3>0
    <3>2. \A n \in DOMAIN actions : actions[n] = Action(events[n].id, kept(n)) BY <3>0
    <3> QED BY <2>0, <3>1, <3>2
  <2> QED BY <2>1, <2>2
<1>2. IsFiniteSet(1 .. Len(events)) BY FS_Interval DEF Events
<1>3. DOMAIN actions \subseteq Nat /\ IsFiniteSet(DOMAIN actions)
  <2>1. DOMAIN events = 1 .. Len(events) /\ Len(events) \in Nat BY DEF Events
  <2> QED BY <1>1, <1>2, <2>1, FS_Subset
<1>4. \A n \in DOMAIN actions : Segment(reads[actions[n].id]) BY <1>1
<1> HIDE DEF Events
<1>5. \E k \in DOMAIN actions :
           /\ reads[actions[k].id] /= <<>>
           /\ reads[actions[k].id][1] <= line /\ line <= reads[actions[k].id][2]
           /\ actions[k].stop /= Unknown
           /\ \A o \in DOMAIN actions : reads[actions[o].id] = <<>> => actions[k].stop < o
  BY <1>3, <1>4, ReadFirst
<1> QED BY <1>5, Zenon

FirstOf2(p, a, b) == IF a \in DOMAIN p THEN p[a] ELSE IF b \in DOMAIN p THEN p[b] ELSE Unknown

-----------------------------------------------------------------------------
(* What a payload of usage tells, and what a judge says *)

\* A payload of naturals tells the first of two names that it has, or nothing.
LEMMA FirstTwo ==
  ASSUME NEW p, \A f \in DOMAIN p : p[f] \in Nat, NEW a, NEW b
  PROVE  FirstInt(p, <<a, b>>) = FirstOf2(p, a, b)
<1> DEFINE names == <<a, b>>
           given == {n \in DOMAIN names : names[n] \in DOMAIN p /\ p[names[n]] >= 0}
<1>1. DOMAIN names = {1, 2} /\ names[1] = a /\ names[2] = b OBVIOUS
<1>2. \A n : n \in given <=> (n = 1 /\ a \in DOMAIN p) \/ (n = 2 /\ b \in DOMAIN p) BY <1>1
<1>3. FirstInt(p, names) = IF given = {} THEN Unknown ELSE p[names[CHOOSE n \in given : \A m \in given : n <= m]] BY DEF FirstInt
<1> HIDE DEF given, names
<1>4. CASE given = {} BY <1>2, <1>3, <1>4 DEF FirstOf2, names
<1>5. CASE given /= {}
  <2> DEFINE least == CHOOSE n \in given : \A m \in given : n <= m
  <2>1. \E n \in given : \A m \in given : n <= m BY <1>2, <1>5
  <2>2. least \in given /\ \A m \in given : least <= m BY <2>1, Zenon
  <2> HIDE DEF least
  <2>3. FirstInt(p, names) = p[names[least]] BY <1>3, <1>5 DEF least
  <2>4. CASE a \in DOMAIN p
    <3>1. 1 \in given BY <1>2, <2>4
    <3>2. least = 1 BY <1>2, <2>2, <3>1
    <3> QED BY <1>1, <2>3, <2>4, <3>2 DEF FirstOf2, names
  <2>5. CASE a \notin DOMAIN p
    <3>1. least = 2 /\ b \in DOMAIN p BY <1>2, <2>2, <2>5
    <3> QED BY <1>1, <2>3, <2>5, <3>1 DEF FirstOf2, names
  <2> QED BY <2>4, <2>5
<1> QED BY <1>4, <1>5

LEMMA FirstOne ==
  ASSUME NEW p, \A f \in DOMAIN p : p[f] \in Nat, NEW a
  PROVE  FirstInt(p, <<a>>) = IF a \in DOMAIN p THEN p[a] ELSE Unknown
<1> DEFINE names == <<a>>
           given == {n \in DOMAIN names : names[n] \in DOMAIN p /\ p[names[n]] >= 0}
<1>1. DOMAIN names = {1} /\ names[1] = a OBVIOUS
<1>2. \A n : n \in given <=> n = 1 /\ a \in DOMAIN p BY <1>1
<1>3. FirstInt(p, names) = IF given = {} THEN Unknown ELSE p[names[CHOOSE n \in given : \A m \in given : n <= m]] BY DEF FirstInt
<1> HIDE DEF given, names
<1>4. CASE a \notin DOMAIN p
  <2>1. given = {} BY <1>2, <1>4
  <2> QED BY <1>3, <1>4, <2>1 DEF names
<1>5. CASE a \in DOMAIN p
  <2>1. given = {1} BY <1>2, <1>5
  <2>2. (CHOOSE n \in given : \A m \in given : n <= m) = 1 BY <2>1
  <2> QED BY <1>1, <1>3, <1>5, <2>1, <2>2 DEF names
<1> QED BY <1>4, <1>5

\* What is left of a payload says the same as before.
LEMMA PartOf ==
  ASSUME NEW P, \A f \in DOMAIN P : P[f] \in Nat, NEW p \in Parts(P)
  PROVE  DOMAIN p \subseteq DOMAIN P /\ \A f \in DOMAIN p : p[f] = P[f] /\ p[f] \in Nat
<1>1. PICK fs \in SUBSET (DOMAIN P) : p = [f \in fs |-> P[f]] BY DEF Parts
<1> QED BY <1>1

\* A total is told or unknown: each part that it is added up from is told in full
\* by the one name or by the other, or the sum is unknown.
LEMMA UseWhole ==
  ASSUME NEW use, \A f \in {"fresh", "cached", "written", "output"} : use[f] \in Nat
  PROVE  TotalsAreWhole(use)
<1>1. use.fresh \in Nat /\ use.cached \in Nat /\ use.written \in Nat /\ use.output \in Nat OBVIOUS
<1>2. ASSUME NEW p \in Parts(CodexPayload(use)) PROVE CodexTotal(p) \in {Unknown, UseTotal(use)}
  <2>1. \A f \in DOMAIN CodexPayload(use) : CodexPayload(use)[f] \in Nat BY <1>1 DEF CodexPayload, UseTotal
  <2>2. /\ DOMAIN p \subseteq DOMAIN CodexPayload(use)
        /\ \A f \in DOMAIN p : p[f] = CodexPayload(use)[f] /\ p[f] \in Nat
    BY <2>1, PartOf
  <2>3. DOMAIN CodexPayload(use) = {"input_tokens", "cached_input_tokens", "output_tokens", "total_tokens"} BY DEF CodexPayload
  <2>4. FirstInt(p, <<"input_tokens", "prompt_tokens">>) \in {Unknown, use.fresh + use.cached + use.written}
    BY <2>2, <2>3, FirstTwo DEF FirstOf2, CodexPayload
  <2>5. FirstInt(p, <<"uncached_input_tokens">>) = Unknown BY <2>2, <2>3, FirstOne
  <2>6. FirstInt(p, <<"output_tokens", "completion_tokens">>) \in {Unknown, use.output}
    BY <2>2, <2>3, FirstTwo DEF FirstOf2, CodexPayload
  <2>7. FirstInt(p, <<"total_tokens">>) \in {Unknown, UseTotal(use)} BY <2>2, <2>3, FirstOne DEF CodexPayload
  <2> QED BY <1>1, <2>4, <2>5, <2>6, <2>7 DEF CodexTotal, NormalizedTotal, Additive, UseTotal, Unknown
<1>3. ASSUME NEW p \in Parts(CodexParts(use)) PROVE CodexTotal(p) \in {Unknown, UseTotal(use)}
  <2>1. \A f \in DOMAIN CodexParts(use) : CodexParts(use)[f] \in Nat BY <1>1 DEF CodexParts
  <2>2. /\ DOMAIN p \subseteq DOMAIN CodexParts(use)
        /\ \A f \in DOMAIN p : p[f] = CodexParts(use)[f] /\ p[f] \in Nat
    BY <2>1, PartOf
  <2>3. DOMAIN CodexParts(use) = {"uncached_input_tokens", "cached_tokens", "cache_write_input_tokens", "completion_tokens"} BY DEF CodexParts
  <2>4. FirstInt(p, <<"input_tokens", "prompt_tokens">>) = Unknown BY <2>2, <2>3, FirstTwo DEF FirstOf2
  <2>5. FirstInt(p, <<"uncached_input_tokens">>) \in {Unknown, use.fresh} BY <2>2, <2>3, FirstOne DEF CodexParts
  <2>6. FirstInt(p, <<"output_tokens", "completion_tokens">>) \in {Unknown, use.output}
    BY <2>2, <2>3, FirstTwo DEF FirstOf2, CodexParts
  <2>7. FirstInt(p, <<"total_tokens">>) = Unknown BY <2>2, <2>3, FirstOne
  <2>8. FirstInt(p, <<"cached_input_tokens", "cached_tokens">>) \in {Unknown, use.cached}
    BY <2>2, <2>3, FirstTwo DEF FirstOf2, CodexParts
  <2>9. FirstInt(p, <<"cache_write_input_tokens", "cache_creation_input_tokens">>) \in {Unknown, use.written}
    BY <2>2, <2>3, FirstTwo DEF FirstOf2, CodexParts
  <2> QED BY <1>1, <2>4, <2>5, <2>6, <2>7, <2>8, <2>9 DEF CodexTotal, NormalizedTotal, Additive, UseTotal, Unknown
<1>4. ASSUME NEW p \in Parts(ClaudePayload(use)) PROVE ClaudeTotal(p) \in {Unknown, UseTotal(use)}
  <2>1. \A f \in DOMAIN ClaudePayload(use) : ClaudePayload(use)[f] \in Nat BY <1>1 DEF ClaudePayload
  <2>2. /\ DOMAIN p \subseteq DOMAIN ClaudePayload(use)
        /\ \A f \in DOMAIN p : p[f] = ClaudePayload(use)[f] /\ p[f] \in Nat
    BY <2>1, PartOf
  <2>3. DOMAIN ClaudePayload(use) = {"input_tokens", "cache_read_input_tokens", "ephemeral_1h_input_tokens",
                                     "ephemeral_5m_input_tokens", "output_tokens"} BY DEF ClaudePayload
  <2>4. FirstInt(p, <<"cache_creation_input_tokens">>) = Unknown BY <2>2, <2>3, FirstOne
  <2>5. FirstInt(p, <<"ephemeral_1h_input_tokens">>) \in {Unknown, use.written} BY <2>2, <2>3, FirstOne DEF ClaudePayload
  <2>6. FirstInt(p, <<"ephemeral_5m_input_tokens">>) \in {Unknown, 0} BY <2>2, <2>3, FirstOne DEF ClaudePayload
  <2>7. FirstInt(p, <<"cache_read_input_tokens">>) \in {Unknown, use.cached} BY <2>2, <2>3, FirstOne DEF ClaudePayload
  <2>8. FirstInt(p, <<"input_tokens">>) \in {Unknown, use.fresh} BY <2>2, <2>3, FirstOne DEF ClaudePayload
  <2>9. FirstInt(p, <<"output_tokens">>) \in {Unknown, use.output} BY <2>2, <2>3, FirstOne DEF ClaudePayload
  <2>10. FirstInt(p, <<"total_tokens">>) = Unknown BY <2>2, <2>3, FirstOne
  <2> QED BY <1>1, <2>4, <2>5, <2>6, <2>7, <2>8, <2>9, <2>10 DEF ClaudeTotal, NormalizedTotal, Additive, UseTotal, Unknown
<1> QED BY <1>2, <1>3, <1>4 DEF TotalsAreWhole

\* The grade of a judge that failed is listed.
LEMMA FailsShown ==
  \A errors, results : FailedItems([exit |-> 0, results |-> results, grade |-> RunFailed.grade, errors |-> errors]) /= {}
<1> DEFINE g == [checks |-> <<FALSE>>, overall |-> FALSE]
<1> SUFFICES ASSUME NEW errors, NEW results
             PROVE  FailedItems([exit |-> 0, results |-> results, grade |-> RunFailed.grade, errors |-> errors]) /= {}
  OBVIOUS
<1> DEFINE side == [exit |-> 0, results |-> results, grade |-> RunFailed.grade, errors |-> errors]
<1>1. RunFailed.grade = {g} /\ side.grade = {g} BY DEF RunFailed
<1>2. g.checks = <<FALSE>> /\ DOMAIN g.checks = {1} /\ ~g.checks[1]
  <2>1. g.checks = <<FALSE>> OBVIOUS
  <2>2. DOMAIN <<FALSE>> = {1} OBVIOUS
  <2>3. ~(<<FALSE>>[1]) OBVIOUS
  <2> HIDE DEF g
  <2> QED BY <2>1, <2>2, <2>3, Zenon
<1>3. 1 \in {i \in DOMAIN g.checks : ~g.checks[i]} BY <1>2
<1> HIDE DEF g, side
<1>4. FailedItems(side) = LET failed == {i \in DOMAIN g.checks : ~g.checks[i]}
                          IN IF failed = {} /\ ~g.overall THEN {0} ELSE failed BY <1>1 DEF FailedItems
<1>5. 1 \in FailedItems(side) BY <1>3, <1>4
<1> QED BY <1>5 DEF side

\* By cases on the judge: late, silent, or with a last message.
LEMMA JudgeHeard ==
  ASSUME NEW backend \in {"codex", "claude"}, NEW judge, NEW left
  PROVE  JudgeIsHeard(backend, judge, left)
<1> DEFINE said  == judge.said
           grade == RubricGradeOf(backend, judge, left)
           side  == Sided(0, <<>>, TRUE, grade)
           told  == side.errors > 0 \/ FailedItems(side) /= {}
           last  == IF backend = "codex" THEN CodexMessage(said) ELSE ClaudeMessage(said)
           out   == IF backend = "codex" THEN CodexJudge(judge, left) ELSE ClaudeJudge(judge)
<1>1. side = [exit |-> 0, results |-> <<>>, grade |-> grade, errors |-> IF grade = {} THEN 1 ELSE 0]
  BY DEF Sided
<1>2. side.errors = (IF grade = {} THEN 1 ELSE 0)
  <2> HIDE DEF grade, side
  <2> QED BY <1>1
<1>3. grade = {} => told
  <2> HIDE DEF grade, side
  <2> QED BY <1>2
<1>4. grade = IF judge.late \/ out = <<>> THEN {} ELSE out[1].grade BY DEF RubricGradeOf
<1>5. Blank.grade = {} BY DEF Blank
<1>6. grade = RunFailed.grade => told BY <1>1, FailsShown
<1>7. CASE backend = "claude"
  <2>1. last = LastText(said) /\ out = <<last>> /\ out /= <<>> /\ out[1] = last BY <1>7 DEF ClaudeJudge, ClaudeMessage
  <2>2. grade = IF judge.late THEN {} ELSE last.grade BY <1>4, <2>1
  <2> HIDE DEF grade, side, told, last, out
  <2>3. /\ last.grade = {} /\ left = <<>> => told
        /\ judge.late => told
        /\ ~judge.late /\ last.grade /= {} => grade = last.grade /\ side.errors = 0
        /\ \A g \in grade : g \in last.grade
    BY <1>2, <1>3, <2>2
  <2> QED BY <2>3 DEF JudgeIsHeard, grade, side, told, last
<1>8. CASE backend = "codex"
  <2>1. CASE said /= <<>>
    <3>1. FileOf(said) = <<said[Len(said)]>> BY <2>1 DEF FileOf
    <3>2. last = said[Len(said)] BY <1>8, <3>1 DEF CodexMessage
    <3>3. out = <<last>> /\ out /= <<>> /\ out[1] = last BY <1>8, <3>1, <3>2 DEF CodexJudge
    <3>4. grade = IF judge.late THEN {} ELSE last.grade BY <1>4, <3>3
    <3> HIDE DEF grade, side, told, last, out
    <3>5. /\ last.grade = {} /\ left = <<>> => told
          /\ judge.late => told
          /\ ~judge.late /\ last.grade /= {} => grade = last.grade /\ side.errors = 0
          /\ \A g \in grade : g \in last.grade
      BY <1>2, <1>3, <3>4
    <3> QED BY <3>5 DEF JudgeIsHeard, grade, side, told, last
  <2>2. CASE said = <<>>
    <3>1. FileOf(said) = <<>> BY <2>2 DEF FileOf
    <3>2. last = Blank BY <1>8, <3>1 DEF CodexMessage
    <3>3. out = IF judge.exit /= 0 /\ left = <<>> THEN <<RunFailed>> ELSE left BY <1>8, <3>1 DEF CodexJudge
    <3>4. <<RunFailed>> /= <<>> /\ <<RunFailed>>[1] = RunFailed OBVIOUS
    <3>5. last.grade = {} BY <1>5, <3>2
    <3> HIDE DEF grade, side, told, last, out
    <3>6. /\ last.grade = {} /\ left = <<>> => told
          /\ judge.late => told
          /\ ~judge.late /\ last.grade /= {} => grade = last.grade /\ side.errors = 0
          /\ \A g \in grade : g \in RunFailed.grade \/ (left /= <<>> /\ g \in left[1].grade)
      BY <1>2, <1>3, <1>4, <1>6, <3>3, <3>4, <3>5, Zenon
    <3> QED BY <2>2, <3>6 DEF JudgeIsHeard, grade, side, told, last
  <2> QED BY <2>1, <2>2
<1> QED BY <1>7, <1>8

-----------------------------------------------------------------------------
(* Usage, evaluation by evaluation or all at once *)

\* What is kept of one side.
LeafOK(c) ==
  \/ c = Absent
  \/ /\ c = Counts(1, 1, c.observed, c.recognized, c.preferred, c.total)
     /\ c.observed \in {0, 1} /\ c.recognized \in {0, 1} /\ c.preferred \in {0, 1}
     /\ c.recognized <= c.observed /\ c.preferred <= c.recognized
     /\ c.preferred = 1 => c.total \in Nat

KeptOf(L)     == {n \in DOMAIN L : L[n] /= Absent}
SumOver(L, f) == Total([n \in KeptOf(L) |-> L[n][f]])
ValueOf(c)    == IF c.preferred > 0 THEN c.total ELSE 0
WorthOf(L)    == Total([n \in KeptOf(L) |-> ValueOf(L[n])])
PreferredOf(L) == IF SumOver(L, "preferred") = 0 THEN Unknown ELSE WorthOf(L)
Whole(L) ==
  IF KeptOf(L) = {} THEN Absent
  ELSE Counts(Cardinality(DOMAIN L), SumOver(L, "modeled"), SumOver(L, "observed"), SumOver(L, "recognized"),
              SumOver(L, "preferred"), PreferredOf(L))
SomeFields == {"modeled", "observed", "recognized", "preferred"}

LEMMA LeafFields ==
  ASSUME NEW c, LeafOK(c), c /= Absent
  PROVE  /\ c.records = 1 /\ c.modeled = 1 /\ \A f \in SomeFields : c[f] \in Nat
         /\ ValueOf(c) \in Nat /\ (c.preferred = 0 => ValueOf(c) = 0)
         /\ c.recognized <= c.observed /\ c.preferred <= c.recognized /\ c.observed <= 1
BY DEF LeafOK, SomeFields, Counts, ValueOf

\* An aggregate in the sums of what is kept.
LEMMA AggregateIs ==
  ASSUME NEW L, NEW expected
  PROVE  Aggregated(L, expected) =
           IF KeptOf(L) = {} THEN Absent
           ELSE Counts(Longer(SumOver(L, "records"), expected), SumOver(L, "modeled"), SumOver(L, "observed"),
                       SumOver(L, "recognized"), SumOver(L, "preferred"), PreferredOf(L))
BY DEF Aggregated, KeptOf, SumOver, WorthOf, ValueOf, PreferredOf

LEMMA WholeFields ==
  ASSUME NEW L, KeptOf(L) /= {}
  PROVE  /\ Whole(L).records = Cardinality(DOMAIN L) /\ \A f \in SomeFields : Whole(L)[f] = SumOver(L, f)
         /\ Whole(L).preferred = SumOver(L, "preferred") /\ Whole(L).total = PreferredOf(L)
BY DEF Whole, Counts, SomeFields

LEMMA KeptSums ==
  ASSUME NEW L, IsFiniteSet(DOMAIN L), \A n \in DOMAIN L : LeafOK(L[n])
  PROVE  /\ IsFiniteSet(KeptOf(L)) /\ KeptOf(L) \subseteq DOMAIN L
         /\ \A f \in SomeFields : SumOver(L, f) \in Nat
         /\ WorthOf(L) \in Nat
         /\ SumOver(L, "preferred") = 0 => WorthOf(L) = 0
<1>1. IsFiniteSet(KeptOf(L)) /\ KeptOf(L) \subseteq DOMAIN L
  <2>1. KeptOf(L) \subseteq DOMAIN L BY DEF KeptOf
  <2> QED BY <2>1, FS_Subset
<1>2. \A n \in KeptOf(L) : LeafOK(L[n]) /\ L[n] /= Absent BY DEF KeptOf
<1>3. ASSUME NEW f \in SomeFields PROVE SumOver(L, f) \in Nat
  <2> DEFINE g == [n \in KeptOf(L) |-> L[n][f]]
  <2>1. DOMAIN g = KeptOf(L) /\ \A n \in DOMAIN g : g[n] \in Nat BY <1>2, LeafFields
  <2> HIDE DEF g
  <2>2. Total(g) \in Nat BY <1>1, <2>1, LaidFinite
  <2> QED BY <2>2 DEF SumOver, g
<1> DEFINE worth == [n \in KeptOf(L) |-> ValueOf(L[n])]
           pref == [n \in KeptOf(L) |-> L[n]["preferred"]]
<1>4. DOMAIN worth = KeptOf(L) /\ \A n \in DOMAIN worth : worth[n] \in Nat /\ worth[n] = ValueOf(L[n]) BY <1>2, LeafFields
<1>5. DOMAIN pref = KeptOf(L) /\ \A n \in DOMAIN pref : pref[n] \in Nat /\ pref[n] = L[n].preferred
  BY <1>2, LeafFields DEF SomeFields
<1> HIDE DEF worth, pref
<1>6. Total(worth) \in Nat /\ (Total(worth) = 0 <=> \A n \in DOMAIN worth : worth[n] = 0) BY <1>1, <1>4, LaidFinite, TotalZero
<1>7. Total(pref) = 0 <=> \A n \in DOMAIN pref : pref[n] = 0 BY <1>1, <1>5, TotalZero
<1>8. Total(pref) = 0 => Total(worth) = 0 BY <1>2, <1>4, <1>5, <1>6, <1>7, LeafFields
<1>9. WorthOf(L) = Total(worth) /\ SumOver(L, "preferred") = Total(pref) BY DEF WorthOf, SumOver, worth, pref
<1> QED BY <1>1, <1>3, <1>6, <1>8, <1>9

\* The aggregate of all sides tells how many they are, and sums what each has.
LEMMA LeavesTold ==
  ASSUME NEW L, IsFiniteSet(DOMAIN L), \A n \in DOMAIN L : LeafOK(L[n])
  PROVE  Aggregated(L, Cardinality(DOMAIN L)) = Whole(L)
<1>1. IsFiniteSet(KeptOf(L)) /\ KeptOf(L) \subseteq DOMAIN L BY KeptSums
<1>2. \A n \in KeptOf(L) : L[n]["records"] = 1
  <2>1. \A n \in KeptOf(L) : LeafOK(L[n]) /\ L[n] /= Absent BY DEF KeptOf
  <2> QED BY <2>1, LeafFields
<1>3. [n \in KeptOf(L) |-> L[n]["records"]] = [n \in KeptOf(L) |-> 1] BY <1>2
<1>4. SumOver(L, "records") = Cardinality(KeptOf(L)) BY <1>1, <1>3, TotalOnes DEF SumOver
<1>5. Cardinality(KeptOf(L)) \in Nat /\ Cardinality(DOMAIN L) \in Nat /\ Cardinality(KeptOf(L)) <= Cardinality(DOMAIN L)
  BY <1>1, FS_Subset, FS_CardinalityType
<1>6. Longer(SumOver(L, "records"), Cardinality(DOMAIN L)) = Cardinality(DOMAIN L) BY <1>4, <1>5 DEF Longer
<1> QED BY <1>6, AggregateIs, Zenon DEF Whole

\* The leaves of L in groups: "part" has those of each, "counts" what they are
\* aggregated to, "sizes" how many they are.
Levels(L, E, G, part, counts, sizes) ==
  /\ IsFiniteSet(DOMAIN L) /\ \A n \in DOMAIN L : LeafOK(L[n])
  /\ IsFiniteSet(E) /\ DOMAIN G = E /\ \A e \in E : G[e] \subseteq DOMAIN L /\ G[e] /= {}
  /\ \A d, e \in E : d /= e => G[d] \cap G[e] = {}
  /\ UNION {G[e] : e \in E} = DOMAIN L
  /\ \A e \in E : DOMAIN part[e] = G[e] /\ \A n \in G[e] : part[e][n] = L[n]
  /\ DOMAIN counts = E /\ \A e \in E : counts[e] = Aggregated(part[e], Cardinality(DOMAIN part[e]))
  /\ DOMAIN sizes = E /\ \A e \in E : sizes[e] = Cardinality(G[e])

\* An aggregate of aggregates is that of all sides: every field is a sum of sums,
\* and a total is known if any part of it is.
LEMMA TwoLevels ==
  ASSUME NEW L, NEW E, NEW G, NEW part, NEW counts, NEW sizes, Levels(L, E, G, part, counts, sizes)
  PROVE  Aggregated(counts, Total(sizes)) = Whole(L)
<1> USE DEF Levels
<1>1. \A e \in E : DOMAIN part[e] = G[e] /\ \A n \in G[e] : part[e][n] = L[n] OBVIOUS
<1>2. \A e \in E : IsFiniteSet(G[e]) /\ Cardinality(G[e]) \in Nat /\ Cardinality(G[e]) /= 0
  BY FS_Subset, FS_CardinalityType, FS_EmptySet
<1>3. DOMAIN counts = E /\ \A e \in E : counts[e] = Aggregated(part[e], Cardinality(DOMAIN part[e])) OBVIOUS
<1>4. ASSUME NEW e \in E PROVE /\ IsFiniteSet(DOMAIN part[e]) /\ \A n \in DOMAIN part[e] : LeafOK(part[e][n])
  BY <1>1, <1>2
<1>5. \A e \in E : counts[e] = Whole(part[e]) BY <1>3, <1>4, LeavesTold
<1>6. \A e \in E : /\ KeptOf(part[e]) = KeptOf(L) \cap G[e]
                   /\ \A n \in KeptOf(part[e]) : part[e][n] = L[n] /\ n \in KeptOf(L)
  BY <1>1 DEF KeptOf
<1>7. \A e \in E : counts[e] /= Absent <=> KeptOf(part[e]) /= {}
  <2> SUFFICES ASSUME NEW e \in E PROVE counts[e] /= Absent <=> KeptOf(part[e]) /= {} OBVIOUS
  <2>1. KeptOf(part[e]) = {} => counts[e] = Absent BY <1>5 DEF Whole
  <2>2. KeptOf(part[e]) /= {} => counts[e].records = Cardinality(G[e]) BY <1>1, <1>5, WholeFields
  <2>3. Absent.records = 0 BY DEF Absent, Counts
  <2> QED BY <1>2, <2>1, <2>2, <2>3
<1> DEFINE KE == KeptOf(counts)
           K == [e \in KE |-> KeptOf(part[e])]
<1>8. KE = {e \in E : KeptOf(part[e]) /= {}} BY <1>3, <1>7 DEF KeptOf
<1>9. KE \subseteq E /\ IsFiniteSet(KE) BY <1>8, FS_Subset
<1>10. UNION {K[e] : e \in KE} = KeptOf(L)
  <2>1. ASSUME NEW n \in KeptOf(L) PROVE \E e \in KE : n \in K[e]
    <3>1. n \in DOMAIN L BY DEF KeptOf
    <3>2. PICK e \in E : n \in G[e] BY <3>1
    <3>3. n \in KeptOf(part[e]) BY <1>6, <3>2
    <3>4. e \in KE BY <1>8, <3>3
    <3> QED BY <3>3, <3>4
  <2>2. ASSUME NEW e \in KE, NEW n \in K[e] PROVE n \in KeptOf(L) BY <1>6, <1>9, <2>2
  <2> HIDE DEF K, KE
  <2> QED BY <2>1, <2>2
<1>11. \A e \in KE : K[e] = KeptOf(part[e]) /\ IsFiniteSet(K[e])
  <2>1. \A e \in KE : K[e] = KeptOf(part[e]) OBVIOUS
  <2>2. \A e \in KE : IsFiniteSet(KeptOf(part[e])) BY <1>4, <1>9, KeptSums
  <2> QED BY <2>1, <2>2
<1>12. DOMAIN K = KE /\ \A d, e \in KE : d /= e => K[d] \cap K[e] = {}
  <2>1. \A e \in KE : K[e] \subseteq G[e] BY <1>6, <1>9, <1>11
  <2> QED BY <1>9, <2>1
<1>13. KE = {} <=> KeptOf(L) = {}
  <2>1. KE = {} => KeptOf(L) = {}
    <3> HIDE DEF K, KE
    <3> QED BY <1>10
  <2>2. \A e \in KE : K[e] /= {} BY <1>8, <1>11
  <2> HIDE DEF K, KE
  <2> QED BY <1>10, <2>1, <2>2
<1> HIDE DEF K, KE
<1>14. ASSUME NEW f \in SomeFields PROVE SumOver(counts, f) = SumOver(L, f)
  <2> DEFINE field == [n \in KeptOf(L) |-> L[n][f]]
  <2>1. \A n \in KeptOf(L) : field[n] = L[n][f] /\ field[n] \in Nat
    <3>1. \A n \in KeptOf(L) : LeafOK(L[n]) /\ L[n] /= Absent BY DEF KeptOf
    <3> QED BY <3>1, LeafFields
  <2>2. DOMAIN field = KeptOf(L) OBVIOUS
  <2>f. field = [n \in KeptOf(L) |-> field[n]] OBVIOUS
  <2>g. SumOver(L, f) = Total(field) BY DEF SumOver
  <2> HIDE DEF field
  <2>5. \A e \in KE : counts[e][f] = Total([n \in K[e] |-> field[n]])
    <3> SUFFICES ASSUME NEW e \in KE PROVE counts[e][f] = Total([n \in K[e] |-> field[n]]) OBVIOUS
    <3>1. KeptOf(part[e]) /= {} /\ e \in E BY <1>8, <1>9
    <3>2. counts[e][f] = SumOver(part[e], f) BY <1>5, <3>1, WholeFields
    <3>3. \A n \in K[e] : part[e][n][f] = field[n] BY <1>6, <1>11, <2>1, <3>1
    <3>4. [n \in K[e] |-> part[e][n][f]] = [n \in K[e] |-> field[n]] BY <3>3
    <3>5. SumOver(part[e], f) = Total([n \in K[e] |-> part[e][n][f]]) BY <1>11 DEF SumOver
    <3> QED BY <3>2, <3>4, <3>5
  <2> DEFINE inner == [e \in KE |-> counts[e][f]]
  <2>6. DOMAIN inner = KE /\ \A e \in KE : inner[e] = Total([n \in K[e] |-> field[n]]) BY <2>5
  <2>7. SumOver(counts, f) = Total(inner) BY DEF SumOver, KE
  <2> HIDE DEF inner
  <2>8. Spread(inner, K, field) BY <1>9, <1>10, <1>11, <1>12, <2>1, <2>2, <2>6 DEF Spread
  <2>9. Total(inner) = Total(field) BY <2>8, SumOfSums
  <2> QED BY <2>7, <2>9, <2>g
<1>15. WorthOf(counts) = WorthOf(L)
  <2> DEFINE field == [n \in KeptOf(L) |-> ValueOf(L[n])]
  <2>1. \A n \in KeptOf(L) : field[n] = ValueOf(L[n]) /\ field[n] \in Nat
    <3>1. \A n \in KeptOf(L) : LeafOK(L[n]) /\ L[n] /= Absent BY DEF KeptOf
    <3> QED BY <3>1, LeafFields
  <2>2. DOMAIN field = KeptOf(L) OBVIOUS
  <2>f. field = [n \in KeptOf(L) |-> field[n]] OBVIOUS
  <2>g. WorthOf(L) = Total(field) BY DEF WorthOf
  <2> HIDE DEF field
  <2>5. \A e \in KE : ValueOf(counts[e]) = Total([n \in K[e] |-> field[n]])
    <3> SUFFICES ASSUME NEW e \in KE PROVE ValueOf(counts[e]) = Total([n \in K[e] |-> field[n]]) OBVIOUS
    <3>1. KeptOf(part[e]) /= {} /\ e \in E BY <1>8, <1>9
    <3>2. /\ counts[e].preferred = SumOver(part[e], "preferred")
          /\ counts[e].total = PreferredOf(part[e])
      BY <1>5, <3>1, WholeFields
    <3>3. /\ SumOver(part[e], "preferred") \in Nat
          /\ SumOver(part[e], "preferred") = 0 => WorthOf(part[e]) = 0
      BY <1>4, <3>1, KeptSums DEF SomeFields
    <3>4. ValueOf(counts[e]) = WorthOf(part[e]) BY <3>2, <3>3 DEF ValueOf, PreferredOf
    <3>5. \A n \in K[e] : ValueOf(part[e][n]) = field[n] BY <1>6, <1>11, <2>1, <3>1
    <3>6. [n \in K[e] |-> ValueOf(part[e][n])] = [n \in K[e] |-> field[n]] BY <3>5
    <3>7. WorthOf(part[e]) = Total([n \in K[e] |-> ValueOf(part[e][n])]) BY <1>11 DEF WorthOf
    <3> QED BY <3>4, <3>6, <3>7
  <2> DEFINE inner == [e \in KE |-> ValueOf(counts[e])]
  <2>6. DOMAIN inner = KE /\ \A e \in KE : inner[e] = Total([n \in K[e] |-> field[n]]) BY <2>5
  <2>7. WorthOf(counts) = Total(inner) BY DEF WorthOf, KE
  <2> HIDE DEF inner
  <2>8. Spread(inner, K, field) BY <1>9, <1>10, <1>11, <1>12, <2>1, <2>2, <2>6 DEF Spread
  <2>9. Total(inner) = Total(field) BY <2>8, SumOfSums
  <2> QED BY <2>7, <2>9, <2>g
<1> DEFINE few == [e \in KE |-> counts[e]["records"]]
<1>16. Total(sizes) = Cardinality(DOMAIN L)
  <2> DEFINE cards == [e \in DOMAIN G |-> Cardinality(G[e])]
  <2>1. Total(cards) = Cardinality(UNION {G[e] : e \in DOMAIN G}) BY <1>2, PartsAddUp
  <2>2. DOMAIN cards = DOMAIN sizes /\ \A e \in DOMAIN sizes : cards[e] = sizes[e] OBVIOUS
  <2> HIDE DEF cards
  <2>3. Total(cards) = Total(sizes) BY <2>2, TotalSame
  <2> QED BY <2>1, <2>3
<1>17. DOMAIN few = KE /\ \A e \in KE : few[e] = Cardinality(G[e])
  <2>1. \A e \in KE : counts[e]["records"] = Cardinality(G[e]) BY <1>1, <1>5, <1>8, WholeFields
  <2> QED BY <2>1
<1>18. DOMAIN sizes = E /\ \A e \in E : sizes[e] = Cardinality(G[e]) OBVIOUS
<1>19. SumOver(counts, "records") = Total(few) BY DEF SumOver, KE
<1> HIDE DEF few
<1>20. Total(few) \in Nat /\ Total(sizes) \in Nat /\ Total(few) <= Total(sizes) BY <1>2, <1>9, <1>17, <1>18, TotalLe
<1>21. Longer(SumOver(counts, "records"), Total(sizes)) = Cardinality(DOMAIN L) BY <1>16, <1>19, <1>20 DEF Longer
<1>22. Aggregated(counts, Total(sizes)) =
         IF KeptOf(counts) = {} THEN Absent
         ELSE Counts(Longer(SumOver(counts, "records"), Total(sizes)), SumOver(counts, "modeled"), SumOver(counts, "observed"),
                     SumOver(counts, "recognized"), SumOver(counts, "preferred"),
                     PreferredOf(counts))
  BY AggregateIs
<1>23. /\ SumOver(counts, "modeled") = SumOver(L, "modeled") /\ SumOver(counts, "observed") = SumOver(L, "observed")
       /\ SumOver(counts, "recognized") = SumOver(L, "recognized") /\ SumOver(counts, "preferred") = SumOver(L, "preferred")
  BY <1>14 DEF SomeFields
<1>24. KeptOf(counts) = {} <=> KeptOf(L) = {} BY <1>13 DEF KE
<1>26. PreferredOf(counts) = PreferredOf(L) BY <1>15, <1>23 DEF PreferredOf
<1>25. Aggregated(counts, Total(sizes)) = Whole(L) BY <1>21, <1>22, <1>23, <1>24, <1>26, Zenon DEF Whole
<1> QED BY <1>25

UsageOK(u) == /\ u.total \in Nat \cup {Unknown}
              /\ u = NoUsage \/ (u.observed \in BOOLEAN /\ (Recognized(u) => u.observed))

LEMMA UsageIs ==
  ASSUME NEW observed \in BOOLEAN, NEW fields, NEW total \in Nat \cup {Unknown},
         observed \/ (fields = {} /\ total = Unknown)
  PROVE  UsageOK(Usage(observed, fields, total))
BY DEF UsageOK, Usage, Recognized

LEMMA IncrementalOK ==
  ASSUME NEW records, IsFiniteSet(DOMAIN records), \A n \in DOMAIN records : records[n].total \in Nat \cup {Unknown}
  PROVE  UsageOK(Incremental(records))
<1> DEFINE known == {n \in DOMAIN records : Recognized(records[n])}
           totals == [n \in known |-> records[n].total]
           fields == {f \in {"input", "output"} : \A n \in known : f \in records[n].fields}
           total == IF known = DOMAIN records /\ \A n \in known : records[n].total /= Unknown THEN Total(totals) ELSE Unknown
<1>1. ASSUME known = DOMAIN records, \A n \in known : records[n].total /= Unknown PROVE Total(totals) \in Nat
  <2>1. DOMAIN totals = known /\ \A n \in known : totals[n] = records[n].total /\ totals[n] \in Nat BY <1>1
  <2>2. IsFiniteSet(DOMAIN totals) BY <1>1, <2>1
  <2> HIDE DEF totals
  <2> QED BY <2>1, <2>2, LaidFinite
<1> HIDE DEF totals
<1>2. total \in Nat \cup {Unknown} BY <1>1
<1>3. Incremental(records) = Usage(TRUE, fields, total) BY Zenon DEF Incremental, totals
<1> HIDE DEF fields, total
<1> QED BY <1>2, <1>3, UsageIs

\* Of records that rank highest there is a last one.
LEMMA HighestIs ==
  ASSUME NEW records, IsFiniteSet(DOMAIN records), DOMAIN records \subseteq Nat,
         \A n \in DOMAIN records : records[n].rank \in Nat, NEW some, some \subseteq DOMAIN records, some /= {}
  PROVE  Latest({n \in some : \A m \in some : records[m].rank <= records[n].rank}) \in some
<1> DEFINE rank == [n \in some |-> records[n].rank]
           ranks == {records[n].rank : n \in some}
           highest == {n \in some : \A m \in some : records[m].rank <= records[n].rank}
<1>1. rank \in Surjection(some, ranks)
  <2>1. \A n \in some : rank[n] = records[n].rank /\ rank[n] \in ranks OBVIOUS
  <2>2. \A r \in ranks : \E n \in some : rank[n] = r BY <2>1, Zenon
  <2> QED BY <2>1, <2>2 DEF Surjection
<1>2. IsFiniteSet(some) BY FS_Subset
<1>3. IsFiniteSet(ranks)
  <2> HIDE DEF rank, ranks
  <2> QED BY <1>1, <1>2, FS_Surjection
<1>4. ranks \subseteq Nat /\ ranks /= {} OBVIOUS
<1>5. Latest(ranks) \in ranks /\ \A r \in ranks : r <= Latest(ranks)
  <2> HIDE DEF ranks
  <2> QED BY <1>3, <1>4, LatestOne
<1>6. highest /= {}
  <2>1. PICK n \in some : Latest(ranks) = records[n].rank BY <1>5
  <2>2. \A m \in some : records[m].rank <= records[n].rank BY <1>5, <2>1
  <2>3. n \in highest BY <2>2
  <2> QED BY <2>3
<1>7. highest \subseteq some /\ highest \subseteq Nat OBVIOUS
<1> HIDE DEF highest
<1>8. IsFiniteSet(highest) BY <1>2, <1>7, FS_Subset
<1>9. Latest(highest) \in some BY <1>6, <1>7, <1>8, LatestOne
<1> QED BY <1>9 DEF highest

LEMMA ExtractOK ==
  ASSUME NEW records, UsageRecords(records)
  PROVE  UsageOK(Extract(records))
<1> DEFINE cumulative == {n \in DOMAIN records : records[n].source = "cumulative" /\ Recognized(records[n])}
           highest    == {n \in cumulative : \A m \in cumulative : records[m].rank <= records[n].rank}
           increments == {n \in DOMAIN records : records[n].source = "incremental"}
           some       == [n \in increments |-> records[n]]
           c          == records[Latest(highest)]
<1>1. /\ DOMAIN records = 1 .. Len(records) /\ Len(records) \in Nat
      /\ \A n \in DOMAIN records : records[n].total \in Nat \cup {Unknown} /\ records[n].rank \in Nat
  BY DEF UsageRecords
<1>2. IsFiniteSet(DOMAIN records) /\ DOMAIN records \subseteq Nat BY <1>1, FS_Interval
<1>3. ASSUME cumulative /= {} PROVE UsageOK(Usage(TRUE, c.fields, c.total))
  <2>1. cumulative \subseteq DOMAIN records OBVIOUS
  <2> HIDE DEF cumulative
  <2>2. Latest(highest) \in cumulative BY <1>1, <1>2, <1>3, <2>1, HighestIs
  <2>3. c.total \in Nat \cup {Unknown} BY <1>1, <2>1, <2>2
  <2> HIDE DEF c
  <2> QED BY <2>3, UsageIs
<1>4. UsageOK(Incremental(some))
  <2>1. DOMAIN some = increments /\ \A n \in increments : some[n] = records[n] OBVIOUS
  <2>2. increments \subseteq DOMAIN records OBVIOUS
  <2>3. IsFiniteSet(increments)
    <3> HIDE DEF increments
    <3> QED BY <1>2, <2>2, FS_Subset
  <2>4. \A n \in DOMAIN some : some[n].total \in Nat \cup {Unknown} BY <1>1, <2>1, <2>2
  <2> HIDE DEF some
  <2> QED BY <2>1, <2>3, <2>4, IncrementalOK
<1>5. UsageOK(Usage(FALSE, {}, Unknown)) /\ UsageOK(Usage(TRUE, {}, Unknown)) BY UsageIs
<1>6. \/ Extract(records) = Usage(FALSE, {}, Unknown)
      \/ cumulative /= {} /\ Extract(records) = Usage(TRUE, c.fields, c.total)
      \/ Extract(records) = Incremental(some)
      \/ Extract(records) = Usage(TRUE, {}, Unknown)
  BY Zenon DEF Extract
<1> QED BY <1>3, <1>4, <1>5, <1>6, Zenon

LEMMA PromptOK ==
  ASSUME NEW prompt, UsageRecords(prompt.records)
  PROVE  UsageOK(UsageOf(prompt))
<1>1. UsageOK(NoUsage) BY DEF UsageOK, NoUsage
<1> QED BY <1>1, ExtractOK DEF UsageOf

LEMMA LeafIs ==
  ASSUME NEW u, UsageOK(u)
  PROVE  /\ LeafOK(Leaf(u))
         /\ u.total = Unknown => Leaf(u) = Absent \/ Leaf(u).preferred = 0
         /\ u.total /= Unknown => Leaf(u) /= Absent /\ Leaf(u).preferred = 1 /\ ValueOf(Leaf(u)) = u.total
<1>1. CASE u = NoUsage
  <2>1. Leaf(u) = Absent BY <1>1 DEF Leaf
  <2>2. u.total = Unknown BY <1>1 DEF NoUsage
  <2> QED BY <2>1, <2>2 DEF LeafOK
<1>2. CASE u /= NoUsage
  <2> DEFINE o == One(u.observed)  r == One(Recognized(u))  p == One(u.total /= Unknown)
  <2>1. Leaf(u) = Counts(1, 1, o, r, p, u.total) BY <1>2 DEF Leaf
  <2>2. o \in {0, 1} /\ r \in {0, 1} /\ p \in {0, 1} /\ r <= o /\ p <= r /\ (p = 1 <=> u.total /= Unknown)
    <3>1. u.observed \in BOOLEAN /\ (Recognized(u) => u.observed) BY <1>2 DEF UsageOK
    <3>2. u.total /= Unknown => Recognized(u) BY DEF Recognized
    <3>3. \A b \in BOOLEAN : One(b) = IF b THEN 1 ELSE 0 BY DEF One
    <3>4. Recognized(u) \in BOOLEAN BY DEF Recognized
    <3> QED BY <3>1, <3>2, <3>4 DEF One
  <2> HIDE DEF o, r, p
  <2>3. /\ Leaf(u).records = 1 /\ Leaf(u).modeled = 1 /\ Leaf(u).observed = o /\ Leaf(u).recognized = r
        /\ Leaf(u).preferred = p /\ Leaf(u).total = u.total
    BY <2>1 DEF Counts
  <2>4. Leaf(u) /= Absent
    <3>1. Absent.records = 0 BY DEF Absent, Counts
    <3> QED BY <2>3, <3>1
  <2>5. LeafOK(Leaf(u)) BY <2>1, <2>2, <2>3 DEF LeafOK, UsageOK
  <2> QED BY <2>2, <2>3, <2>4, <2>5 DEF ValueOf
<1> QED BY <1>1, <1>2

StatusOK(c) == /\ c.records \in Nat /\ c.observed \in Nat /\ c.recognized \in Nat /\ c.preferred \in Nat
               /\ c.recognized <= c.observed /\ c.preferred <= c.recognized /\ c.observed <= c.records

\* "measured" says that every record has a total.
LEMMA StatusTells ==
  ASSUME NEW c, StatusOK(c), c = Absent => c.records = 0, c.records = 0 => c = Absent
  PROVE  UsageStatus(c) = "measured" <=> c.records > 0 /\ c.preferred = c.records
<1>1. CASE c = Absent
  <2>1. UsageStatus(c) = "legacy" BY <1>1 DEF UsageStatus, StatusOK, Absent, Counts
  <2> QED BY <1>1, <2>1
<1>2. CASE c /= Absent /\ c.observed = 0
  <2>1. UsageStatus(c) = "absent" BY <1>2 DEF UsageStatus, StatusOK
  <2> QED BY <1>2, <2>1 DEF StatusOK
<1>3. CASE c /= Absent /\ c.observed > 0 /\ c.recognized = 0
  <2>1. UsageStatus(c) = "unrecognized" BY <1>3 DEF UsageStatus, StatusOK
  <2> QED BY <1>3, <2>1 DEF StatusOK
<1>4. CASE c /= Absent /\ c.recognized > 0 /\ (c.recognized < c.records \/ c.preferred < c.records)
  <2>1. UsageStatus(c) = "partial" BY <1>4 DEF UsageStatus, StatusOK
  <2> QED BY <1>4, <2>1 DEF StatusOK
<1>5. CASE c /= Absent /\ c.recognized > 0 /\ ~(c.recognized < c.records \/ c.preferred < c.records)
  <2>1. UsageStatus(c) = "measured" BY <1>5 DEF UsageStatus, StatusOK
  <2> QED BY <1>5, <2>1 DEF StatusOK
<1> QED BY <1>1, <1>2, <1>3, <1>4, <1>5 DEF StatusOK

\* The evaluations share out the prompts: every prompt is in the group of its own.
LEMMA GroupsOf ==
  ASSUME NEW prompts, IsFiniteSet(DOMAIN prompts)
  PROVE  /\ IsFiniteSet(EvalsOf(prompts))
         /\ \A e \in EvalsOf(prompts) : /\ DOMAIN Group(prompts, e) \subseteq DOMAIN prompts /\ DOMAIN Group(prompts, e) /= {}
                                        /\ \A n \in DOMAIN Group(prompts, e) : Group(prompts, e)[n] = prompts[n]
         /\ \A d, e \in EvalsOf(prompts) : d /= e => DOMAIN Group(prompts, d) \cap DOMAIN Group(prompts, e) = {}
         /\ \A n \in DOMAIN prompts : prompts[n].eval \in EvalsOf(prompts) /\ n \in DOMAIN Group(prompts, prompts[n].eval)
<1> DEFINE D == DOMAIN prompts
           E == EvalsOf(prompts)
           evals == [n \in D |-> prompts[n].eval]
<1>1. evals \in Surjection(D, E)
  <2>1. \A n \in D : evals[n] = prompts[n].eval /\ evals[n] \in E BY DEF EvalsOf
  <2>2. \A e \in E : \E n \in D : evals[n] = e BY <2>1 DEF EvalsOf
  <2> QED BY <2>1, <2>2 DEF Surjection
<1>2. IsFiniteSet(E)
  <2> HIDE DEF evals, E
  <2> QED BY <1>1, FS_Surjection
<1>3. \A e : /\ DOMAIN Group(prompts, e) = {m \in D : prompts[m].eval = e}
             /\ \A n \in DOMAIN Group(prompts, e) : Group(prompts, e)[n] = prompts[n]
  BY DEF Group
<1>4. \A e \in E : \E n \in D : prompts[n].eval = e BY DEF EvalsOf
<1>5. \A n \in D : prompts[n].eval \in E BY DEF EvalsOf
<1>6. ASSUME NEW e \in E PROVE /\ DOMAIN Group(prompts, e) \subseteq D /\ DOMAIN Group(prompts, e) /= {}
                               /\ \A n \in DOMAIN Group(prompts, e) : Group(prompts, e)[n] = prompts[n]
  BY <1>3, <1>4
<1>7. ASSUME NEW d \in E, NEW e \in E, d /= e PROVE DOMAIN Group(prompts, d) \cap DOMAIN Group(prompts, e) = {}
  <2> SUFFICES ASSUME NEW n \in DOMAIN Group(prompts, d), n \in DOMAIN Group(prompts, e) PROVE FALSE OBVIOUS
  <2>1. n \in {m \in D : prompts[m].eval = d} /\ n \in {m \in D : prompts[m].eval = e} BY <1>3, Zenon
  <2>2. prompts[n].eval = d /\ prompts[n].eval = e BY <2>1, Zenon
  <2> QED BY <1>7, <2>2
<1>8. \A n \in D : n \in DOMAIN Group(prompts, prompts[n].eval) BY <1>3
<1> QED BY <1>2, <1>5, <1>6, <1>7, <1>8

LeavesOf(prompts) == [n \in DOMAIN prompts |-> Leaf(UsageOf(prompts[n]))]

LEMMA PromptLeaves ==
  ASSUME NEW prompts, \A n \in DOMAIN prompts : UsageRecords(prompts[n].records)
  PROVE  /\ DOMAIN LeavesOf(prompts) = DOMAIN prompts
         /\ \A n \in DOMAIN prompts :
              LET c == LeavesOf(prompts)[n]  total == UsageOf(prompts[n]).total
              IN /\ LeafOK(c)
                 /\ total \in Nat \cup {Unknown}
                 /\ total = Unknown => c = Absent \/ c.preferred = 0
                 /\ total /= Unknown => c /= Absent /\ c.preferred = 1 /\ ValueOf(c) = total
<1>1. DOMAIN LeavesOf(prompts) = DOMAIN prompts /\ \A n \in DOMAIN prompts : LeavesOf(prompts)[n] = Leaf(UsageOf(prompts[n]))
  BY DEF LeavesOf
<1>2. \A n \in DOMAIN prompts : UsageOK(UsageOf(prompts[n])) BY PromptOK
<1>3. \A n \in DOMAIN prompts : UsageOf(prompts[n]).total \in Nat \cup {Unknown} BY <1>2 DEF UsageOK
<1> QED BY <1>1, <1>2, <1>3, LeafIs

\* The usage of an evaluation and that of a report are both the whole.
LEMMA EitherWay ==
  ASSUME NEW prompts, IsFiniteSet(DOMAIN prompts), \A n \in DOMAIN prompts : UsageRecords(prompts[n].records)
  PROVE  OfEval(prompts) = Whole(LeavesOf(prompts)) /\ OfReport(prompts) = Whole(LeavesOf(prompts))
<1> DEFINE D == DOMAIN prompts
           L == LeavesOf(prompts)
           E == EvalsOf(prompts)
           G == [e \in E |-> DOMAIN Group(prompts, e)]
<1>1. DOMAIN L = D /\ \A n \in D : LeafOK(L[n]) BY PromptLeaves
<1>2. OfEval(prompts) = Aggregated(L, Cardinality(D)) BY DEF OfEval, LeavesOf
<1>3. OfEval(prompts) = Whole(L)
  <2> HIDE DEF L
  <2> QED BY <1>1, <1>2, LeavesTold
<1>4. DOMAIN G = E /\ \A e \in E : G[e] = DOMAIN Group(prompts, e) OBVIOUS
<1>5. IsFiniteSet(E) /\ \A e \in E : G[e] \subseteq D /\ G[e] /= {} BY <1>4, GroupsOf
<1>6. \A d, e \in E : d /= e => G[d] \cap G[e] = {} BY <1>4, GroupsOf
<1>7. \A n \in D : \E e \in E : n \in G[e] BY <1>4, GroupsOf
<1>8. UNION {G[e] : e \in E} = D
  <2> HIDE DEF G, E
  <2> QED BY <1>5, <1>7
<1> DEFINE part == [e \in E |-> LeavesOf(Group(prompts, e))]
           sums == [e \in E |-> OfEval(Group(prompts, e))]
           sizes == [e \in E |-> Cardinality(DOMAIN Group(prompts, e))]
<1>9. ASSUME NEW e \in E PROVE /\ DOMAIN part[e] = G[e] /\ \A n \in G[e] : part[e][n] = L[n]
                               /\ sums[e] = Aggregated(part[e], Cardinality(DOMAIN part[e]))
  <2>1. \A n \in G[e] : n \in D /\ Group(prompts, e)[n] = prompts[n] BY <1>4, GroupsOf
  <2>2. part[e] = LeavesOf(Group(prompts, e)) OBVIOUS
  <2>3. DOMAIN part[e] = G[e] BY <1>4, <2>2 DEF LeavesOf
  <2>4. \A n \in G[e] : part[e][n] = Leaf(UsageOf(Group(prompts, e)[n])) BY <1>4, <2>2 DEF LeavesOf
  <2>5. \A n \in D : L[n] = Leaf(UsageOf(prompts[n])) BY DEF LeavesOf
  <2>6. sums[e] = OfEval(Group(prompts, e)) OBVIOUS
  <2>7. OfEval(Group(prompts, e)) = Aggregated(part[e], Cardinality(DOMAIN Group(prompts, e))) BY <2>2 DEF OfEval, LeavesOf
  <2> HIDE DEF L, part, sums
  <2> QED BY <1>4, <2>1, <2>3, <2>4, <2>5, <2>6, <2>7
<1>10. DOMAIN sums = E OBVIOUS
<1>11. DOMAIN sizes = E /\ \A e \in E : sizes[e] = Cardinality(G[e]) BY <1>4
<1>12. OfReport(prompts) = Aggregated(sums, Total(sizes)) BY DEF OfReport
<1>13. Aggregated(sums, Total(sizes)) = Whole(L)
  <2> HIDE DEF L, G, E, part, sums, sizes
  <2>1. IsFiniteSet(DOMAIN L) /\ \A n \in DOMAIN L : LeafOK(L[n]) BY <1>1
  <2>2. IsFiniteSet(E) /\ DOMAIN G = E BY <1>4, <1>5
  <2>3. \A e \in E : G[e] \subseteq DOMAIN L /\ G[e] /= {} BY <1>1, <1>5
  <2>4. UNION {G[e] : e \in E} = DOMAIN L BY <1>1, <1>8
  <2>5. Levels(L, E, G, part, sums, sizes) BY <1>6, <1>9, <1>10, <1>11, <2>1, <2>2, <2>3, <2>4 DEF Levels
  <2> QED BY <2>5, TwoLevels
<1> QED BY <1>3, <1>12, <1>13

LEMMA WholeStatus ==
  ASSUME NEW L, IsFiniteSet(DOMAIN L), \A n \in DOMAIN L : LeafOK(L[n])
  PROVE  /\ StatusOK(Whole(L)) /\ (Whole(L) = Absent => Whole(L).records = 0) /\ (Whole(L).records = 0 => Whole(L) = Absent)
<1>1. Absent = Counts(0, 0, 0, 0, 0, Unknown) BY DEF Absent
<1>2. CASE KeptOf(L) = {}
  <2>1. Whole(L) = Absent BY <1>2 DEF Whole
  <2> QED BY <1>1, <2>1 DEF StatusOK, Counts
<1>3. CASE KeptOf(L) /= {}
  <2>1. IsFiniteSet(KeptOf(L)) /\ KeptOf(L) \subseteq DOMAIN L BY KeptSums
  <2>2. Cardinality(DOMAIN L) \in Nat /\ Cardinality(DOMAIN L) /= 0 BY <1>3, <2>1, FS_CardinalityType, FS_EmptySet
  <2>3. /\ Whole(L).records = Cardinality(DOMAIN L) /\ Whole(L).observed = SumOver(L, "observed")
        /\ Whole(L).recognized = SumOver(L, "recognized") /\ Whole(L).preferred = SumOver(L, "preferred")
    BY <1>3, WholeFields DEF SomeFields
  <2> DEFINE ones == [n \in DOMAIN L |-> 1]
             fo == [n \in KeptOf(L) |-> L[n]["observed"]]
             fr == [n \in KeptOf(L) |-> L[n]["recognized"]]
             fp == [n \in KeptOf(L) |-> L[n]["preferred"]]
  <2>4. \A n \in KeptOf(L) : LeafOK(L[n]) /\ L[n] /= Absent BY DEF KeptOf
  <2>5. \A n \in KeptOf(L) : /\ fo[n] \in Nat /\ fr[n] \in Nat /\ fp[n] \in Nat
                             /\ fr[n] <= fo[n] /\ fp[n] <= fr[n] /\ fo[n] <= ones[n]
    BY <2>1, <2>4, LeafFields DEF SomeFields
  <2>6. DOMAIN fo = KeptOf(L) /\ DOMAIN fr = KeptOf(L) /\ DOMAIN fp = KeptOf(L) /\ DOMAIN ones = DOMAIN L
        /\ \A n \in DOMAIN ones : ones[n] \in Nat
    OBVIOUS
  <2>7. Total(ones) = Cardinality(DOMAIN L) BY TotalOnes
  <2>8. SumOver(L, "observed") = Total(fo) /\ SumOver(L, "recognized") = Total(fr) /\ SumOver(L, "preferred") = Total(fp)
    BY DEF SumOver
  <2> HIDE DEF ones, fo, fr, fp
  <2>9. Total(fo) \in Nat /\ Total(fo) <= Total(ones) BY <2>1, <2>5, <2>6, TotalLe
  <2>10. Total(fr) \in Nat /\ Total(fr) <= Total(fo) BY <2>1, <2>5, <2>6, TotalLe
  <2>11. Total(fp) \in Nat /\ Total(fp) <= Total(fr) BY <2>1, <2>5, <2>6, TotalLe
  <2>12. Absent.records = 0 BY <1>1 DEF Counts
  <2> QED BY <2>2, <2>3, <2>7, <2>8, <2>9, <2>10, <2>11, <2>12 DEF StatusOK
<1> QED BY <1>2, <1>3

\* Every side is known if and only if all count as such: the sums are then equal
\* although none of what is added up is greater.
LEMMA AllPreferred ==
  ASSUME NEW L, IsFiniteSet(DOMAIN L), DOMAIN L /= {}, \A n \in DOMAIN L : LeafOK(L[n])
  PROVE  /\ Whole(L).records > 0 /\ Whole(L).preferred = Whole(L).records
              => \A n \in DOMAIN L : L[n] /= Absent /\ L[n].preferred = 1
         /\ (\A n \in DOMAIN L : L[n] /= Absent /\ L[n].preferred = 1)
              => /\ Whole(L).records > 0 /\ Whole(L).preferred = Whole(L).records
                 /\ Whole(L).total = Total([n \in DOMAIN L |-> ValueOf(L[n])])
<1>1. Absent = Counts(0, 0, 0, 0, 0, Unknown) BY DEF Absent
<1> DEFINE ones == [n \in DOMAIN L |-> 1]
           fp == [n \in KeptOf(L) |-> L[n]["preferred"]]
<1>2. IsFiniteSet(KeptOf(L)) /\ KeptOf(L) \subseteq DOMAIN L BY KeptSums
<1>3. Cardinality(DOMAIN L) \in Nat /\ Cardinality(DOMAIN L) /= 0 BY FS_CardinalityType, FS_EmptySet
<1>4. \A n \in KeptOf(L) : LeafOK(L[n]) /\ L[n] /= Absent BY DEF KeptOf
<1>5. \A n \in KeptOf(L) : fp[n] = L[n].preferred /\ fp[n] \in Nat /\ fp[n] <= ones[n]
  BY <1>2, <1>4, LeafFields DEF SomeFields
<1>6. DOMAIN fp = KeptOf(L) /\ DOMAIN ones = DOMAIN L /\ \A n \in DOMAIN ones : ones[n] = 1 /\ ones[n] \in Nat OBVIOUS
<1>7. Total(ones) = Cardinality(DOMAIN L) BY TotalOnes
<1>8. SumOver(L, "preferred") = Total(fp) BY DEF SumOver
<1> HIDE DEF ones, fp
<1>9. KeptOf(L) /= {} => Whole(L).records = Total(ones) /\ Whole(L).preferred = Total(fp) /\ Whole(L).total = PreferredOf(L)
  BY <1>7, <1>8, WholeFields
<1>10. ASSUME Whole(L).records > 0, Whole(L).preferred = Whole(L).records, NEW n \in DOMAIN L
       PROVE  L[n] /= Absent /\ L[n].preferred = 1
  <2>1. KeptOf(L) /= {}
    <3>1. KeptOf(L) = {} => Whole(L).records = 0 BY <1>1 DEF Whole, Counts
    <3> QED BY <1>10, <3>1
  <2>2. Total(fp) = Total(ones) BY <1>9, <1>10, <2>1
  <2>3. /\ \A m \in DOMAIN fp : fp[m] = ones[m]
        /\ \A m \in DOMAIN ones : m \notin DOMAIN fp => ones[m] = 0
    BY <1>2, <1>5, <1>6, <2>2, TotalLe
  <2>4. n \in KeptOf(L) BY <1>6, <2>3
  <2> QED BY <1>4, <1>5, <1>6, <2>3, <2>4
<1>11. ASSUME \A n \in DOMAIN L : L[n] /= Absent /\ L[n].preferred = 1
       PROVE  /\ Whole(L).records > 0 /\ Whole(L).preferred = Whole(L).records
              /\ Whole(L).total = Total([n \in DOMAIN L |-> ValueOf(L[n])])
  <2>1. KeptOf(L) = DOMAIN L BY <1>11 DEF KeptOf
  <2>2. \A n \in DOMAIN fp : fp[n] = ones[n] BY <1>5, <1>6, <1>11, <2>1
  <2>3. Total(fp) = Total(ones) BY <1>6, <2>1, <2>2, TotalSame
  <2>4. PreferredOf(L) = WorthOf(L) BY <1>3, <1>7, <1>8, <2>3 DEF PreferredOf
  <2>5. WorthOf(L) = Total([n \in DOMAIN L |-> ValueOf(L[n])]) BY <2>1 DEF WorthOf
  <2> QED BY <1>3, <1>7, <1>9, <2>1, <2>3, <2>4, <2>5
<1> QED BY <1>10, <1>11

\* A usage that was observed says so.
LEMMA UsageShape == ASSUME NEW fields, NEW total PROVE Usage(TRUE, fields, total).observed = TRUE
BY DEF Usage

\* What a prompt's records give (extract_usage) is observed, or has no fields.
LEMMA ExtractedUsage ==
  ASSUME NEW records
  PROVE  Extract(records).observed = TRUE \/ Extract(records).fields = {}
<1> DEFINE cumulative == {n \in DOMAIN records : records[n].source = "cumulative" /\ Recognized(records[n])}
           c == records[Latest({n \in cumulative : \A m \in cumulative : records[m].rank <= records[n].rank})]
           increments == {n \in DOMAIN records : records[n].source = "incremental"}
           adds == Incremental([n \in increments |-> records[n]])
<1>1. \/ Extract(records) = Usage(FALSE, {}, Unknown)
      \/ Extract(records) = Usage(TRUE, c.fields, c.total)
      \/ Extract(records) = adds
      \/ Extract(records) = Usage(TRUE, {}, Unknown)
  BY DEF Extract
<1>2. adds.observed = TRUE
  BY UsageShape DEF Incremental
<1> HIDE DEF cumulative, c, increments, adds
<1>3. Usage(FALSE, {}, Unknown).fields = {}
  BY DEF Usage
<1> QED
  BY <1>1, <1>2, <1>3, UsageShape

\* Only a report without any recorded usage has none.
LEMMA LegacyLeaf ==
  ASSUME NEW prompt, PromptUsage(prompt)
  PROVE  Leaf(UsageOf(prompt)) = Absent <=> prompt.legacy
<1> DEFINE u == UsageOf(prompt)
<1>1. u = NoUsage <=> prompt.legacy
  <2>1. CASE prompt.legacy BY <2>1 DEF UsageOf
  <2>2. CASE ~prompt.legacy
    <3>1. u = Extract(prompt.records) BY <2>2 DEF UsageOf
    <3>2. u.observed = TRUE \/ u.fields = {} BY <3>1, ExtractedUsage
    <3>3. NoUsage.observed = FALSE /\ NoUsage.fields = {"legacy"} BY DEF NoUsage
    <3> QED BY <2>2, <3>2, <3>3
  <2> QED BY <2>1, <2>2 DEF PromptUsage
<1> HIDE DEF u
<1>2. u /= NoUsage => Leaf(u).records = 1 BY DEF Leaf, Counts
<1>3. u = NoUsage => Leaf(u) = Absent BY DEF Leaf
<1>4. Absent.records = 0 BY DEF Absent, Counts
<1> QED BY <1>1, <1>2, <1>3, <1>4 DEF u

LEMMA WholeAbsent ==
  ASSUME NEW L, IsFiniteSet(DOMAIN L), DOMAIN L /= {}
  PROVE  Whole(L) = Absent <=> \A n \in DOMAIN L : L[n] = Absent
<1>1. KeptOf(L) = {} <=> \A n \in DOMAIN L : L[n] = Absent BY DEF KeptOf
<1>2. KeptOf(L) /= {} => Whole(L).records = Cardinality(DOMAIN L) BY DEF Whole, Counts
<1>3. Cardinality(DOMAIN L) /= 0 BY FS_EmptySet
<1>4. Absent.records = 0 BY DEF Absent, Counts
<1> QED BY <1>1, <1>2, <1>3, <1>4 DEF Whole

\* Leaving out what is zero does not change a sum.
LEMMA TotalOfSome ==
  ASSUME NEW f, NEW S, IsFiniteSet(DOMAIN f), S \subseteq DOMAIN f,
         \A n \in DOMAIN f : f[n] \in Nat /\ (n \notin S => f[n] = 0)
  PROVE  Total([n \in S |-> f[n]]) = Total(f)
<1> DEFINE g == [n \in S |-> f[n]]
           A == {{n} \X (1 .. f[n]) : n \in DOMAIN f}
           B == {{n} \X (1 .. g[n]) : n \in DOMAIN g}
<1>1. UNION B \subseteq UNION A OBVIOUS
<1>2. ASSUME NEW p \in UNION A PROVE p \in UNION B
  <2>1. PICK n \in DOMAIN f : p \in {n} \X (1 .. f[n]) BY <1>2
  <2>2. 1 .. f[n] /= {} BY <2>1
  <2>3. n \in S BY <2>2
  <2> QED BY <2>1, <2>3
<1>3. UNION A = UNION B BY <1>1, <1>2
<1> QED BY <1>3, Zenon DEF Total

\* What the counts of sides without recorded usage come to.
LEMMA PlainShown ==
  ASSUME NEW prompts, IsFiniteSet(DOMAIN prompts), DOMAIN prompts /= {},
         \A n \in DOMAIN prompts : PromptUsage(prompts[n])
  PROVE  LET apart == {n \in DOMAIN prompts : prompts[n].plain.agent > 0 \/ prompts[n].plain.judge > 0}
         IN /\ apart /= {} => ShownTokens(Absent, prompts) = Total([n \in apart |-> prompts[n].plain.agent])
            /\ apart = {} => ShownTokens(Absent, prompts) = Total([n \in DOMAIN prompts |-> prompts[n].plain.combined])
<1> DEFINE apart == {n \in DOMAIN prompts : prompts[n].plain.agent > 0 \/ prompts[n].plain.judge > 0}
           own(field) == [n \in DOMAIN prompts |-> prompts[n].plain[field]]
           agents == own("agent")
           judges == own("judge")
           both == own("combined")
<1>1. /\ Plain(prompts, "agent") = Total(agents) /\ Plain(prompts, "judge") = Total(judges)
      /\ Plain(prompts, "combined") = Total(both)
  BY DEF Plain
<1>2. \A n \in DOMAIN prompts : /\ agents[n] = prompts[n].plain.agent /\ agents[n] \in Nat
                                /\ judges[n] = prompts[n].plain.judge /\ judges[n] \in Nat
  BY DEF PromptUsage
<1>3. DOMAIN agents = DOMAIN prompts /\ DOMAIN judges = DOMAIN prompts OBVIOUS
<1>4. [n \in apart |-> agents[n]] = [n \in apart |-> prompts[n].plain.agent] OBVIOUS
<1>5. both = [n \in DOMAIN prompts |-> prompts[n].plain.combined] OBVIOUS
<1>6. apart \subseteq DOMAIN prompts OBVIOUS
<1>7. \A n \in DOMAIN prompts : n \in apart <=> agents[n] > 0 \/ judges[n] > 0 BY <1>2
<1>8. apart /= {} => \E n \in DOMAIN prompts : n \in apart BY <1>6
<1> HIDE DEF apart, agents, judges, both
<1>9. Total(agents) = 0 <=> \A n \in DOMAIN agents : agents[n] = 0 BY <1>2, <1>3, TotalZero
<1>10. Total(judges) = 0 <=> \A n \in DOMAIN judges : judges[n] = 0 BY <1>2, <1>3, TotalZero
<1>11. apart = {} <=> Total(agents) = 0 /\ Total(judges) = 0
  <2>1. apart = {} <=> \A n \in DOMAIN prompts : ~(agents[n] > 0 \/ judges[n] > 0) BY <1>6, <1>7
  <2>2. \A n \in DOMAIN prompts : ~(agents[n] > 0 \/ judges[n] > 0) <=> agents[n] = 0 /\ judges[n] = 0 BY <1>2
  <2> QED BY <1>3, <1>9, <1>10, <2>1, <2>2
<1>12. Total([n \in apart |-> agents[n]]) = Total(agents)
  <2>1. \A n \in DOMAIN agents : agents[n] \in Nat /\ (n \notin apart => agents[n] = 0) BY <1>2, <1>3, <1>7
  <2> QED BY <1>3, <1>6, <2>1, TotalOfSome
<1>13. ShownTokens(Absent, prompts) =
         IF Total(agents) /= 0 \/ Total(judges) /= 0 \/ Total(both) = 0 THEN Total(agents) ELSE Total(both)
  BY <1>1 DEF ShownTokens
<1>14. apart /= {} => ShownTokens(Absent, prompts) = Total([n \in apart |-> agents[n]]) BY <1>11, <1>12, <1>13
<1>15. apart = {} => ShownTokens(Absent, prompts) = Total(both) BY <1>11, <1>13
<1> QED BY <1>4, <1>5, <1>14, <1>15 DEF apart

LEMMA UsageHonest ==
  ASSUME NEW prompts, IsFiniteSet(DOMAIN prompts), DOMAIN prompts /= {},
         \A n \in DOMAIN prompts : PromptUsage(prompts[n])
  PROVE  UsageIsHonest(prompts)
<1>0. \A n \in DOMAIN prompts : UsageRecords(prompts[n].records) BY DEF PromptUsage
<1> DEFINE L == LeavesOf(prompts)
           legacy == \A n \in DOMAIN prompts : prompts[n].legacy
           apart == {n \in DOMAIN prompts : prompts[n].plain.agent > 0 \/ prompts[n].plain.judge > 0}
           shown == ShownTokens(OfReport(prompts), prompts)
           total == OfReport(prompts)
           known == \A n \in DOMAIN prompts : UsageOf(prompts[n]).total /= Unknown
           totals == [n \in DOMAIN prompts |-> UsageOf(prompts[n]).total]
<1>1. total = Whole(L) /\ OfEval(prompts) = Whole(L) BY <1>0, EitherWay
<1>2. /\ DOMAIN L = DOMAIN prompts
      /\ \A n \in DOMAIN prompts : /\ LeafOK(L[n])
                                   /\ UsageOf(prompts[n]).total = Unknown => L[n] = Absent \/ L[n].preferred = 0
                                   /\ UsageOf(prompts[n]).total /= Unknown =>
                                        L[n] /= Absent /\ L[n].preferred = 1 /\ ValueOf(L[n]) = UsageOf(prompts[n]).total
  BY <1>0, PromptLeaves
<1>2a. \A n \in DOMAIN prompts : L[n] = Absent <=> prompts[n].legacy BY LegacyLeaf DEF LeavesOf
<1>2b. Whole(L) = Absent <=> legacy BY <1>2, <1>2a, WholeAbsent
<1>3. known <=> \A n \in DOMAIN L : L[n] /= Absent /\ L[n].preferred = 1 BY <1>2
<1> DEFINE worths == [n \in DOMAIN L |-> ValueOf(L[n])]
<1>4. known => Total(worths) = Total(totals)
  <2> SUFFICES ASSUME known PROVE Total(worths) = Total(totals) OBVIOUS
  <2>1. DOMAIN worths = DOMAIN totals /\ \A n \in DOMAIN worths : worths[n] = totals[n] BY <1>2
  <2> HIDE DEF worths, totals
  <2> QED BY <2>1, TotalSame
<1> HIDE DEF L, total, known, totals
<1>5. /\ Whole(L).records > 0 /\ Whole(L).preferred = Whole(L).records <=> known
      /\ known => Whole(L).total = Total(worths)
  BY <1>2, <1>3, AllPreferred
<1>6. UsageStatus(Whole(L)) = "measured" <=> Whole(L).records > 0 /\ Whole(L).preferred = Whole(L).records
  BY <1>2, WholeStatus, StatusTells
<1> HIDE DEF worths
<1>7. ~legacy => ShownTokens(Whole(L), prompts) = IF known THEN Total(totals) ELSE Unknown
  BY <1>2b, <1>4, <1>5 DEF ShownTokens
<1>8. (UsageStatus(total) = "measured") = known BY <1>1, <1>5, <1>6 DEF known
<1>9. legacy => shown = ShownTokens(Absent, prompts) BY <1>1, <1>2b DEF total
<1>10. ~legacy => shown = IF known THEN Total(totals) ELSE Unknown BY <1>1, <1>7 DEF total
<1>11. /\ legacy /\ apart /= {} => shown = Total([n \in apart |-> prompts[n].plain.agent])
       /\ legacy /\ apart = {} => shown = Total([n \in DOMAIN prompts |-> prompts[n].plain.combined])
  BY <1>9, PlainShown
<1> QED BY <1>1, <1>8, <1>10, <1>11 DEF UsageIsHonest, total, known, totals

\* What a side is, whatever ran on it.
GradeOK(g) == /\ IsFiniteSet(DOMAIN g.checks) /\ g.overall \in BOOLEAN
              /\ \A n \in DOMAIN g.checks : g.checks[n] \in BOOLEAN
SideOK(s) ==
  /\ IsFiniteSet(DOMAIN s.results) /\ 0 \in DOMAIN s.results
  /\ \A c \in DOMAIN s.results : /\ s.results[c].passed \in BOOLEAN /\ s.results[c].skipped \in BOOLEAN
                                 /\ s.results[c].skipped => s.results[c].passed
  /\ s.results[0].category = "sanity" /\ ~s.results[0].skipped
  /\ s.grade = {} \/ \E g \in s.grade : s.grade = {g} /\ GradeOK(g)
  /\ s.errors \in Nat /\ (s.errors = 0 => s.exit = 0)

\* Whatever ran on a side, its guards are a check at 0, and only what passed is
\* skipped.
LEMMA SideSound ==
  ASSUME NEW kind, NEW key, NEW run, Run(run)
  PROVE  SideOK(SideOf(kind, key, run))
<1> DEFINE rs == Graded(kind, key, run.guard, run.checks, run.enabled)
           D == {0} \cup {m \in DOMAIN run.checks : run.checks[m].applies \in {"both", key}}
           s == SideOf(kind, key, run)
<1>1. s = [exit |-> run.exit, results |-> rs, grade |-> IF run.judged THEN run.grade ELSE {},
           errors |-> (IF run.exit = 0 THEN 0 ELSE 1) + (IF run.judged /\ run.grade = {} THEN 1 ELSE 0)]
  BY DEF SideOf, Sided
<1>2. rs = [n \in D |-> IF n = 0 THEN Result("sanity", run.guard, FALSE)
                        ELSE IF kind = "runtime" /\ ~run.enabled THEN Result("runtime", TRUE, TRUE)
                        ELSE Result(kind, run.checks[n].passes, FALSE)]
  BY DEF Graded
<1>3. IsFiniteSet(D)
  <2>1. {m \in DOMAIN run.checks : run.checks[m].applies \in {"both", key}} \subseteq DOMAIN run.checks OBVIOUS
  <2>2. IsFiniteSet({m \in DOMAIN run.checks : run.checks[m].applies \in {"both", key}}) BY <2>1, FS_Subset DEF Run
  <2> QED BY <2>2, FS_Singleton, FS_Union
<1>4. run.guard \in BOOLEAN /\ \A n \in DOMAIN run.checks : run.checks[n].passes \in BOOLEAN BY DEF Run
<1>5. \A c \in D : \/ c = 0 /\ rs[c] = Result("sanity", run.guard, FALSE)
                   \/ rs[c] = Result("runtime", TRUE, TRUE)
                   \/ c \in DOMAIN run.checks /\ rs[c] = Result(kind, run.checks[c].passes, FALSE)
  <2> HIDE DEF rs
  <2> QED BY <1>2
<1>6. 0 \in D /\ rs[0] = Result("sanity", run.guard, FALSE)
  <2> HIDE DEF rs
  <2> QED BY <1>2
<1>7. DOMAIN rs = D
  <2> HIDE DEF rs
  <2> QED BY <1>2
<1>8. /\ \A c \in D : rs[c].passed \in BOOLEAN /\ rs[c].skipped \in BOOLEAN /\ (rs[c].skipped => rs[c].passed)
      /\ rs[0].category = "sanity" /\ ~rs[0].skipped
  <2> HIDE DEF rs
  <2>1. \A c \in D : rs[c].passed \in BOOLEAN /\ rs[c].skipped \in BOOLEAN /\ (rs[c].skipped => rs[c].passed)
    <3> SUFFICES ASSUME NEW c \in D
                 PROVE  rs[c].passed \in BOOLEAN /\ rs[c].skipped \in BOOLEAN /\ (rs[c].skipped => rs[c].passed)
      OBVIOUS
    <3>1. \A category, passed, skipped :
            rs[c] = Result(category, passed, skipped) => rs[c].passed = passed /\ rs[c].skipped = skipped
      BY DEF Result
    <3>2. \/ rs[c].passed = run.guard /\ rs[c].skipped = FALSE
          \/ rs[c].passed = TRUE /\ rs[c].skipped = TRUE
          \/ c \in DOMAIN run.checks /\ rs[c].passed = run.checks[c].passes /\ rs[c].skipped = FALSE
      BY <1>5, <3>1, Zenon
    <3>3. \A n \in DOMAIN run.checks : run.checks[n].passes \in BOOLEAN BY <1>4
    <3> QED BY <1>4, <3>2, <3>3, Zenon
  <2>2. rs[0].category = "sanity" /\ rs[0].skipped = FALSE
    <3>1. \A category, passed, skipped :
            rs[0] = Result(category, passed, skipped) => rs[0].category = category /\ rs[0].skipped = skipped
      BY DEF Result
    <3> QED BY <1>6, <3>1, Zenon
  <2> QED BY <2>1, <2>2
<1>9. /\ s.results = rs /\ s.exit = run.exit
      /\ s.grade = (IF run.judged THEN run.grade ELSE {})
      /\ s.errors = (IF run.exit = 0 THEN 0 ELSE 1) + (IF run.judged /\ run.grade = {} THEN 1 ELSE 0)
  <2> HIDE DEF rs, s
  <2> QED BY <1>1
<1>10. s.grade = {} \/ \E g \in s.grade : s.grade = {g} /\ GradeOK(g)
  <2> HIDE DEF s
  <2>1. run.grade = {} \/ \E g \in run.grade : run.grade = {g} /\ GradeOK(g) BY DEF Run, GradeOK
  <2> QED BY <1>9, <2>1
<1>11. s.errors \in Nat /\ (s.errors = 0 => s.exit = 0)
  <2> HIDE DEF s
  <2> QED BY <1>9
<1> HIDE DEF s, rs, D
<1>12. SideOK(s) BY <1>3, <1>6, <1>7, <1>8, <1>9, <1>10, <1>11 DEF SideOK
<1> QED BY <1>12 DEF s

LEMMA SidesSound ==
  ASSUME NEW kind, NEW key \in SideKeys, NEW results, KindResults(results)
  PROVE  /\ DOMAIN SidesOf(kind, results, key) = {m \in DOMAIN results : results[m][key] /= <<>>}
         /\ IsFiniteSet(DOMAIN SidesOf(kind, results, key))
         /\ \A n \in DOMAIN SidesOf(kind, results, key) :
              /\ SidesOf(kind, results, key)[n] = SideOf(kind, key, results[n][key][1])
              /\ SideOK(SidesOf(kind, results, key)[n])
<1> DEFINE N == {m \in DOMAIN results : results[m][key] /= <<>>}
           all == SidesOf(kind, results, key)
<1>1. DOMAIN all = N /\ \A n \in N : all[n] = SideOf(kind, key, results[n][key][1]) BY DEF SidesOf
<1>2. IsFiniteSet(N)
  <2>1. N \subseteq DOMAIN results OBVIOUS
  <2> HIDE DEF N
  <2> QED BY <2>1, FS_Subset DEF KindResults
<1>3. \A n \in N : Run(results[n][key][1]) BY DEF KindResults
<1>4. \A n \in N : SideOK(all[n])
  <2> HIDE DEF all, N
  <2> QED BY <1>1, <1>3, SideSound
<1> QED BY <1>1, <1>2, <1>4

-----------------------------------------------------------------------------
(* What is counted: the checks of a category that count as passed, and so on. *)
Which == {"passed", "total", "skipped"}
Chosen(r, w) == \/ w = "passed" /\ r.passed /\ ~r.skipped
                \/ w = "total" /\ ~r.skipped
                \/ w = "skipped" /\ r.skipped
ChosenOf(side, category, w) == {c \in ChecksFor(side, category) : Chosen(side.results[c], w)}
ChosenAll(sides, category, w) == Tagged([n \in DOMAIN sides |-> ChosenOf(sides[n], category, w)])

IsCounted(c) == c = Counted(c.passed, c.total, c.skipped)

LEMMA CountedSame ==
  ASSUME NEW a, NEW b, IsCounted(a), IsCounted(b), \A w \in Which : a[w] = b[w]
  PROVE  a = b
<1>1. a.passed = b.passed /\ a.total = b.total /\ a.skipped = b.skipped BY DEF Which
<1> QED BY <1>1 DEF IsCounted

LEMMA CountedIs ==
  ASSUME NEW c, NEW p, NEW t, NEW s, c = Counted(p, t, s)
  PROVE  IsCounted(c) /\ c["passed"] = p /\ c["total"] = t /\ c["skipped"] = s
BY DEF Counted, IsCounted

LEMMA AddUpIs ==
  ASSUME NEW f
  PROVE  /\ IsCounted(AddUp(f))
         /\ \A w \in Which : AddUp(f)[w] = Total([n \in DOMAIN f |-> f[n][w]])
<1>1. /\ AddUp(f).passed = Total([n \in DOMAIN f |-> f[n].passed]) /\ AddUp(f).total = Total([n \in DOMAIN f |-> f[n].total])
      /\ AddUp(f).skipped = Total([n \in DOMAIN f |-> f[n].skipped])
      /\ AddUp(f) = Counted(AddUp(f).passed, AddUp(f).total, AddUp(f).skipped)
  BY DEF AddUp, Counted
<1> QED BY <1>1 DEF Which, IsCounted

\* Only what is added up counts.
LEMMA AddUpSame ==
  ASSUME NEW f, NEW g, DOMAIN f = DOMAIN g, \A n \in DOMAIN f : f[n] = g[n]
  PROVE  AddUp(f) = AddUp(g)
<1>1. ASSUME NEW w \in Which PROVE AddUp(f)[w] = AddUp(g)[w]
  <2> DEFINE fw == [n \in DOMAIN f |-> f[n][w]]
             gw == [n \in DOMAIN g |-> g[n][w]]
  <2>1. DOMAIN fw = DOMAIN gw /\ \A n \in DOMAIN fw : fw[n] = gw[n] OBVIOUS
  <2>2. AddUp(f)[w] = Total(fw) /\ AddUp(g)[w] = Total(gw) BY AddUpIs
  <2> HIDE DEF fw, gw
  <2> QED BY <2>1, <2>2, TotalSame
<1> QED BY <1>1, AddUpIs, CountedSame

\* "inner" adds up each part H[e] of t.
PartSums(inner, H, t) ==
  /\ IsFiniteSet(DOMAIN inner) /\ DOMAIN H = DOMAIN inner
  /\ DOMAIN t = UNION {H[e] : e \in DOMAIN H} /\ \A n \in DOMAIN t : \A w \in Which : t[n][w] \in Nat
  /\ \A e \in DOMAIN H : IsFiniteSet(H[e])
  /\ \A d, e \in DOMAIN H : d /= e => H[d] \cap H[e] = {}
  /\ \A e \in DOMAIN H : \E s : inner[e] = AddUp(s) /\ DOMAIN s = H[e] /\ \A n \in H[e] : s[n] = t[n]

\* What is added up twice, part by part, is added up once.
LEMMA AddUpTwice ==
  ASSUME NEW inner, NEW H, NEW t, PartSums(inner, H, t)
  PROVE  AddUp(inner) = AddUp(t)
<1>1. ASSUME NEW w \in Which PROVE AddUp(inner)[w] = AddUp(t)[w]
  <2> DEFINE all == [n \in DOMAIN t |-> t[n][w]]
             sums == [e \in DOMAIN inner |-> inner[e][w]]
  <2>1. DOMAIN all = DOMAIN t /\ \A n \in DOMAIN t : all[n] = t[n][w] OBVIOUS
  <2>2. DOMAIN sums = DOMAIN inner /\ \A e \in DOMAIN inner : sums[e] = inner[e][w] OBVIOUS
  <2>3. AddUp(inner)[w] = Total(sums) /\ AddUp(t)[w] = Total(all) BY AddUpIs
  <2> HIDE DEF all, sums
  <2>4. \A e \in DOMAIN H : sums[e] = Total([n \in H[e] |-> all[n]])
    <3> SUFFICES ASSUME NEW e \in DOMAIN H PROVE sums[e] = Total([n \in H[e] |-> all[n]]) OBVIOUS
    <3>1. PICK s : inner[e] = AddUp(s) /\ DOMAIN s = H[e] /\ \A n \in H[e] : s[n] = t[n] BY DEF PartSums
    <3> DEFINE sw == [n \in DOMAIN s |-> s[n][w]]
               aw == [n \in H[e] |-> all[n]]
    <3>2. H[e] \subseteq DOMAIN t BY DEF PartSums
    <3>3. DOMAIN sw = DOMAIN aw /\ \A n \in DOMAIN sw : sw[n] = aw[n] BY <2>1, <3>1, <3>2
    <3>4. inner[e][w] = Total(sw) BY <3>1, AddUpIs
    <3>5. sums[e] = inner[e][w] BY <2>2 DEF PartSums
    <3> HIDE DEF sw, aw
    <3>6. Total(sw) = Total(aw) BY <3>3, TotalSame
    <3> QED BY <3>4, <3>5, <3>6 DEF aw
  <2>5. \A n \in DOMAIN all : all[n] \in Nat BY <2>1 DEF PartSums
  <2>6. IsFiniteSet(DOMAIN sums) /\ DOMAIN H = DOMAIN sums /\ DOMAIN all = UNION {H[e] : e \in DOMAIN H} BY <2>1, <2>2 DEF PartSums
  <2>7. (\A e \in DOMAIN H : IsFiniteSet(H[e])) /\ \A d, e \in DOMAIN H : d /= e => H[d] \cap H[e] = {} BY DEF PartSums
  <2>8. Spread(sums, H, all) BY <2>4, <2>5, <2>6, <2>7 DEF Spread
  <2>9. Total(sums) = Total(all) BY <2>8, SumOfSums
  <2> QED BY <2>3, <2>9
<1> QED BY <1>1, AddUpIs, CountedSame

LEMMA SummaryIs ==
  ASSUME NEW side, NEW category
  PROVE  /\ IsCounted(CheckSummary(side, category))
         /\ \A w \in Which : CheckSummary(side, category)[w] = Cardinality(ChosenOf(side, category, w))
<1> DEFINE rs == [c \in ChecksFor(side, category) |-> side.results[c]]
<1>1. DOMAIN rs = ChecksFor(side, category) /\ \A c \in DOMAIN rs : rs[c] = side.results[c] OBVIOUS
<1>2. CheckSummary(side, category) = Tally(rs) BY DEF CheckSummary
<1> HIDE DEF rs
<1>3. Tally(rs) = Counted(Cardinality({n \in DOMAIN rs : rs[n].passed /\ ~rs[n].skipped}),
                          Cardinality({n \in DOMAIN rs : ~rs[n].skipped}), Cardinality({n \in DOMAIN rs : rs[n].skipped}))
  BY DEF Tally, HowMany
<1>4. /\ {n \in DOMAIN rs : rs[n].passed /\ ~rs[n].skipped} = ChosenOf(side, category, "passed")
      /\ {n \in DOMAIN rs : ~rs[n].skipped} = ChosenOf(side, category, "total")
      /\ {n \in DOMAIN rs : rs[n].skipped} = ChosenOf(side, category, "skipped")
  BY <1>1 DEF ChosenOf, Chosen
<1>5. CheckSummary(side, category) = Counted(Cardinality(ChosenOf(side, category, "passed")),
        Cardinality(ChosenOf(side, category, "total")), Cardinality(ChosenOf(side, category, "skipped")))
  BY <1>2, <1>3, <1>4
<1> QED BY <1>5, CountedIs DEF Which

LEMMA CategoryIs ==
  ASSUME NEW sides, NEW category
  PROVE  /\ IsCounted(CategoryOf(sides, category))
         /\ \A w \in Which : CategoryOf(sides, category)[w] = Cardinality(ChosenAll(sides, category, w))
<1> DEFINE P == ChecksOf(sides, category)
           rs == [p \in P |-> sides[p[1]].results[p[2]]]
           checks == [n \in DOMAIN sides |-> ChecksFor(sides[n], category)]
<1>1. DOMAIN rs = P /\ \A p \in P : rs[p] = sides[p[1]].results[p[2]] OBVIOUS
<1>2. CategoryOf(sides, category) = Tally(rs) BY DEF CategoryOf
<1>3. P = Tagged(checks)
  <2>1. DOMAIN checks = DOMAIN sides /\ \A n \in DOMAIN sides : checks[n] = ChecksFor(sides[n], category) OBVIOUS
  <2> HIDE DEF checks
  <2>2. {{n} \X ChecksFor(sides[n], category) : n \in DOMAIN sides} = {{n} \X checks[n] : n \in DOMAIN checks} BY <2>1
  <2> QED BY <2>2, Zenon DEF ChecksOf, Tagged
<1>4. /\ \A p \in P : p = <<p[1], p[2]>> /\ p[1] \in DOMAIN sides /\ p[2] \in ChecksFor(sides[p[1]], category)
      /\ \A n, c : <<n, c>> \in P <=> n \in DOMAIN sides /\ c \in ChecksFor(sides[n], category)
  <2>1. DOMAIN checks = DOMAIN sides /\ \A n \in DOMAIN sides : checks[n] = ChecksFor(sides[n], category) OBVIOUS
  <2> HIDE DEF checks, P
  <2> QED BY <1>3, <2>1, TaggedMembers
<1> HIDE DEF rs, P, checks
<1>5. Tally(rs) = Counted(Cardinality({n \in DOMAIN rs : rs[n].passed /\ ~rs[n].skipped}),
                          Cardinality({n \in DOMAIN rs : ~rs[n].skipped}), Cardinality({n \in DOMAIN rs : rs[n].skipped}))
  BY DEF Tally, HowMany
<1>6. ASSUME NEW w \in Which PROVE {p \in DOMAIN rs : Chosen(rs[p], w)} = ChosenAll(sides, category, w)
  <2> DEFINE picked == [n \in DOMAIN sides |-> ChosenOf(sides[n], category, w)]
  <2>1. DOMAIN picked = DOMAIN sides /\ \A n \in DOMAIN sides : picked[n] = ChosenOf(sides[n], category, w) OBVIOUS
  <2>2. ChosenAll(sides, category, w) = Tagged(picked) BY DEF ChosenAll
  <2> HIDE DEF picked
  <2>3. ASSUME NEW p \in DOMAIN rs, Chosen(rs[p], w) PROVE p \in Tagged(picked)
    <3>1. p = <<p[1], p[2]>> /\ p[1] \in DOMAIN sides /\ p[2] \in ChecksFor(sides[p[1]], category) BY <1>1, <1>4
    <3>2. p[2] \in ChosenOf(sides[p[1]], category, w) BY <1>1, <2>3, <3>1 DEF ChosenOf
    <3>3. <<p[1], p[2]>> \in Tagged(picked) BY <2>1, <3>1, <3>2, TaggedMembers
    <3> QED BY <3>1, <3>3
  <2>4. ASSUME NEW p \in Tagged(picked) PROVE p \in DOMAIN rs /\ Chosen(rs[p], w)
    <3>1. p = <<p[1], p[2]>> /\ p[1] \in DOMAIN sides /\ p[2] \in ChosenOf(sides[p[1]], category, w) BY <2>1, TaggedMembers
    <3>2. p[2] \in ChecksFor(sides[p[1]], category) /\ Chosen(sides[p[1]].results[p[2]], w) BY <3>1 DEF ChosenOf
    <3>3. p \in P BY <1>4, <3>1, <3>2
    <3> QED BY <1>1, <3>2, <3>3
  <2> QED BY <2>2, <2>3, <2>4
<1>7. /\ {n \in DOMAIN rs : rs[n].passed /\ ~rs[n].skipped} = {p \in DOMAIN rs : Chosen(rs[p], "passed")}
      /\ {n \in DOMAIN rs : ~rs[n].skipped} = {p \in DOMAIN rs : Chosen(rs[p], "total")}
      /\ {n \in DOMAIN rs : rs[n].skipped} = {p \in DOMAIN rs : Chosen(rs[p], "skipped")}
  BY DEF Chosen
<1>8. CategoryOf(sides, category) = Counted(Cardinality(ChosenAll(sides, category, "passed")),
        Cardinality(ChosenAll(sides, category, "total")), Cardinality(ChosenAll(sides, category, "skipped")))
  <2>1. \A w \in Which : Cardinality({p \in DOMAIN rs : Chosen(rs[p], w)}) = Cardinality(ChosenAll(sides, category, w)) BY <1>6
  <2> QED BY <1>2, <1>5, <1>7, <2>1 DEF Which
<1> QED BY <1>8, CountedIs DEF Which

\* The checks of all sides at once are those of each side, added up.
LEMMA CategoryAdds ==
  ASSUME NEW sides, NEW category, IsFiniteSet(DOMAIN sides), \A n \in DOMAIN sides : IsFiniteSet(DOMAIN sides[n].results),
         NEW f, DOMAIN f = DOMAIN sides, \A n \in DOMAIN sides : f[n] = CheckSummary(sides[n], category)
  PROVE  /\ AddUp(f) = CategoryOf(sides, category)
         /\ \A n \in DOMAIN f : \A w \in Which : f[n][w] \in Nat
<1>1. \A n \in DOMAIN sides : \A w \in Which : IsFiniteSet(ChosenOf(sides[n], category, w))
  <2> SUFFICES ASSUME NEW n \in DOMAIN sides, NEW w \in Which PROVE IsFiniteSet(ChosenOf(sides[n], category, w)) OBVIOUS
  <2>1. ChosenOf(sides[n], category, w) \subseteq DOMAIN sides[n].results BY DEF ChosenOf, ChecksFor
  <2> QED BY <2>1, FS_Subset
<1>2. \A n \in DOMAIN f : \A w \in Which : f[n][w] \in Nat BY <1>1, SummaryIs, FS_CardinalityType
<1>3. ASSUME NEW w \in Which PROVE AddUp(f)[w] = CategoryOf(sides, category)[w]
  <2> DEFINE picked == [n \in DOMAIN sides |-> ChosenOf(sides[n], category, w)]
             sizes == [n \in DOMAIN picked |-> Cardinality(picked[n])]
             fw == [n \in DOMAIN f |-> f[n][w]]
  <2>1. DOMAIN picked = DOMAIN sides /\ \A n \in DOMAIN sides : picked[n] = ChosenOf(sides[n], category, w) OBVIOUS
  <2>2. CategoryOf(sides, category)[w] = Cardinality(Tagged(picked)) BY CategoryIs DEF ChosenAll
  <2> HIDE DEF picked
  <2>3. Total(sizes) = Cardinality(Tagged(picked)) BY <1>1, <2>1, TaggedCount
  <2>4. \A n \in DOMAIN sides : f[n][w] = Cardinality(ChosenOf(sides[n], category, w)) BY SummaryIs
  <2>5. DOMAIN fw = DOMAIN sizes /\ \A n \in DOMAIN fw : fw[n] = sizes[n] BY <2>1, <2>4
  <2>6. AddUp(f)[w] = Total(fw) BY AddUpIs
  <2> HIDE DEF fw, sizes
  <2>7. Total(fw) = Total(sizes) BY <2>5, TotalSame
  <2> QED BY <2>2, <2>3, <2>6, <2>7
<1>4. AddUp(f) = CategoryOf(sides, category) BY <1>3, AddUpIs, CategoryIs, CountedSame
<1> QED BY <1>2, <1>4

-----------------------------------------------------------------------------
(* The report of a kind *)
\* The sides "all", each in one of the "parts".
Grouped(parts, all) ==
  /\ IsFiniteSet(DOMAIN parts) /\ IsFiniteSet(DOMAIN all)
  /\ \A n \in DOMAIN all : SideOK(all[n])
  /\ DOMAIN all = UNION {DOMAIN parts[e] : e \in DOMAIN parts}
  /\ \A e \in DOMAIN parts : \A n \in DOMAIN parts[e] : parts[e][n] = all[n]
  /\ \A d, e \in DOMAIN parts : d /= e => DOMAIN parts[d] \cap DOMAIN parts[e] = {}

\* The sides that tell something of a kind, and what they tell.
Heard(kind, sides) == {n \in DOMAIN sides : kind = "rubric" => sides[n].grade /= {}}
Tell(kind, side) == IF kind = "rubric" THEN CHOOSE c \in GradeCounts(side) : TRUE ELSE CheckSummary(side, kind)

LEMMA GradeTells ==
  ASSUME NEW side, SideOK(side), side.grade /= {}
  PROVE  \E g \in side.grade :
           /\ side.grade = {g} /\ GradeOK(g)
           /\ Tell("rubric", side) = Counted(Cardinality({n \in DOMAIN g.checks : g.checks[n]}), Cardinality(DOMAIN g.checks), 0)
           /\ GradeCounts(side) = {Tell("rubric", side)}
           /\ Cardinality({n \in DOMAIN g.checks : g.checks[n]}) \in Nat /\ Cardinality(DOMAIN g.checks) \in Nat
<1>1. PICK g \in side.grade : side.grade = {g} /\ GradeOK(g) BY DEF SideOK
<1> DEFINE c == Counted(Cardinality({n \in DOMAIN g.checks : g.checks[n]}), Cardinality(DOMAIN g.checks), 0)
<1>2. GradeCounts(side) = {Counted(HowMany(h.checks, LAMBDA x : x), Cardinality(DOMAIN h.checks), 0) : h \in {g}}
  BY <1>1 DEF GradeCounts
<1>3. HowMany(g.checks, LAMBDA x : x) = Cardinality({n \in DOMAIN g.checks : g.checks[n]}) BY DEF HowMany
<1>4. GradeCounts(side) = {c} BY <1>2, <1>3
<1>5. {n \in DOMAIN g.checks : g.checks[n]} \subseteq DOMAIN g.checks OBVIOUS
<1>6. IsFiniteSet(DOMAIN g.checks) BY <1>1 DEF GradeOK
<1>7. /\ Cardinality({n \in DOMAIN g.checks : g.checks[n]}) \in Nat /\ Cardinality(DOMAIN g.checks) \in Nat
  BY <1>5, <1>6, FS_Subset, FS_CardinalityType
<1> HIDE DEF c
<1>8. Tell("rubric", side) = c BY <1>4 DEF Tell
<1> QED BY <1>1, <1>4, <1>7, <1>8 DEF c

LEMMA TellIs ==
  ASSUME NEW kind, NEW sides, \A n \in DOMAIN sides : SideOK(sides[n])
  PROVE  \A n \in Heard(kind, sides) : \A w \in Which : Tell(kind, sides[n])[w] \in Nat
<1> SUFFICES ASSUME NEW n \in Heard(kind, sides), NEW w \in Which PROVE Tell(kind, sides[n])[w] \in Nat OBVIOUS
<1>1. n \in DOMAIN sides /\ SideOK(sides[n]) BY DEF Heard
<1>2. CASE kind = "rubric"
  <2>1. sides[n].grade /= {} BY <1>2 DEF Heard
  <2>2. PICK g : /\ Tell("rubric", sides[n]) = Counted(Cardinality({i \in DOMAIN g.checks : g.checks[i]}), Cardinality(DOMAIN g.checks), 0)
                 /\ Cardinality({i \in DOMAIN g.checks : g.checks[i]}) \in Nat /\ Cardinality(DOMAIN g.checks) \in Nat
    BY <1>1, <2>1, GradeTells
  <2> QED BY <1>2, <2>2, CountedIs DEF Which
<1>3. CASE kind /= "rubric"
  <2>1. Tell(kind, sides[n])[w] = Cardinality(ChosenOf(sides[n], kind, w)) BY <1>3, SummaryIs DEF Tell
  <2>2. ChosenOf(sides[n], kind, w) \subseteq DOMAIN sides[n].results BY DEF ChosenOf, ChecksFor
  <2> QED BY <1>1, <2>1, <2>2, FS_Subset, FS_CardinalityType DEF SideOK
<1> QED BY <1>2, <1>3

LEMMA ChecksAre ==
  ASSUME NEW kind, NEW sides, IsFiniteSet(DOMAIN sides), \A n \in DOMAIN sides : SideOK(sides[n]),
         NEW t, DOMAIN t = Heard(kind, sides), \A n \in DOMAIN t : t[n] = Tell(kind, sides[n])
  PROVE  KindSide(kind, sides).checks = IF kind = "rubric" /\ Heard(kind, sides) = {} THEN {} ELSE {AddUp(t)}
<1>1. KindSide(kind, sides).checks = IF kind = "rubric" THEN RubricOf(sides) ELSE {CategoryOf(sides, kind)} BY DEF KindSide
<1>2. CASE kind = "rubric"
  <2> DEFINE graded == {n \in DOMAIN sides : sides[n].grade /= {}}
             f == [n \in graded |-> CHOOSE c \in GradeCounts(sides[n]) : TRUE]
  <2>1. graded = Heard(kind, sides) BY <1>2 DEF Heard
  <2>2. RubricOf(sides) = IF graded = {} THEN {} ELSE {AddUp(f)} BY DEF RubricOf
  <2>3. DOMAIN f = DOMAIN t /\ \A n \in DOMAIN f : f[n] = t[n] BY <1>2, <2>1 DEF Tell
  <2> HIDE DEF f
  <2>4. AddUp(f) = AddUp(t) BY <2>3, AddUpSame
  <2> QED BY <1>1, <1>2, <2>1, <2>2, <2>4
<1>3. CASE kind /= "rubric"
  <2>1. DOMAIN t = DOMAIN sides /\ \A n \in DOMAIN sides : t[n] = CheckSummary(sides[n], kind) BY <1>3 DEF Heard, Tell
  <2>2. \A n \in DOMAIN sides : IsFiniteSet(DOMAIN sides[n].results) BY DEF SideOK
  <2>3. AddUp(t) = CategoryOf(sides, kind) BY <2>1, <2>2, CategoryAdds
  <2> QED BY <1>1, <1>3, <2>3
<1> QED BY <1>2, <1>3

KeptParts(parts) == {e \in DOMAIN parts : DOMAIN parts[e] /= {}}
SidesIn(parts) == [e \in KeptParts(parts) |-> DOMAIN parts[e]]

\* The evaluations that have a side share out the sides.
LEMMA KeptCover ==
  ASSUME NEW parts, NEW all, Grouped(parts, all)
  PROVE  /\ IsFiniteSet(DOMAIN SidesIn(parts)) /\ DOMAIN SidesIn(parts) = KeptParts(parts)
         /\ \A e \in DOMAIN SidesIn(parts) :
              e \in DOMAIN parts /\ SidesIn(parts)[e] = DOMAIN parts[e] /\ IsFiniteSet(SidesIn(parts)[e])
         /\ UNION {SidesIn(parts)[e] : e \in DOMAIN SidesIn(parts)} = DOMAIN all
         /\ \A d, e \in DOMAIN SidesIn(parts) : d /= e => SidesIn(parts)[d] \cap SidesIn(parts)[e] = {}
<1>1. KeptParts(parts) \subseteq DOMAIN parts BY DEF KeptParts
<1>2. IsFiniteSet(KeptParts(parts)) BY <1>1, FS_Subset DEF Grouped
<1>3. DOMAIN SidesIn(parts) = KeptParts(parts) /\ \A e \in KeptParts(parts) : SidesIn(parts)[e] = DOMAIN parts[e] BY DEF SidesIn
<1>4. \A e \in DOMAIN parts : DOMAIN parts[e] \subseteq DOMAIN all BY DEF Grouped
<1>5. \A e \in DOMAIN parts : IsFiniteSet(DOMAIN parts[e]) BY <1>4, FS_Subset DEF Grouped
<1>6. \A n \in DOMAIN all : \E e \in KeptParts(parts) : n \in DOMAIN parts[e] BY DEF Grouped, KeptParts
<1>7. UNION {SidesIn(parts)[e] : e \in KeptParts(parts)} = DOMAIN all
  <2>1. ASSUME NEW n \in UNION {SidesIn(parts)[e] : e \in KeptParts(parts)} PROVE n \in DOMAIN all
    <3>1. PICK e \in KeptParts(parts) : n \in SidesIn(parts)[e] OBVIOUS
    <3> QED BY <1>1, <1>3, <1>4, <3>1
  <2>2. ASSUME NEW n \in DOMAIN all PROVE n \in UNION {SidesIn(parts)[e] : e \in KeptParts(parts)}
    <3>1. PICK e \in KeptParts(parts) : n \in DOMAIN parts[e] BY <1>6
    <3> QED BY <1>3, <3>1
  <2> QED BY <2>1, <2>2
<1>8. \A d, e \in KeptParts(parts) : d /= e => SidesIn(parts)[d] \cap SidesIn(parts)[e] = {} BY <1>1, <1>3, Zenon DEF Grouped
<1> QED BY <1>1, <1>2, <1>3, <1>5, <1>7, <1>8

LEMMA PromptsAdd ==
  ASSUME NEW parts, NEW all, Grouped(parts, all),
         NEW f, DOMAIN f = KeptParts(parts), \A e \in DOMAIN f : f[e] = Cardinality(DOMAIN parts[e])
  PROVE  Total(f) = Cardinality(DOMAIN all)
<1> DEFINE S == SidesIn(parts)
           g == [e \in DOMAIN S |-> Cardinality(S[e])]
<1>1. DOMAIN g = DOMAIN f /\ \A e \in DOMAIN f : f[e] = g[e]
  <2>1. DOMAIN S = DOMAIN f /\ \A e \in DOMAIN S : S[e] = DOMAIN parts[e] BY KeptCover
  <2> HIDE DEF S
  <2> QED BY <2>1
<1>2. Total(g) = Cardinality(UNION {S[e] : e \in DOMAIN S})
  <2>1. IsFiniteSet(DOMAIN S) /\ \A e \in DOMAIN S : IsFiniteSet(S[e]) BY KeptCover
  <2>2. \A d, e \in DOMAIN S : d /= e => S[d] \cap S[e] = {} BY KeptCover, Zenon
  <2> HIDE DEF S
  <2> QED BY <2>1, <2>2, PartsAddUp
<1>3. UNION {S[e] : e \in DOMAIN S} = DOMAIN all BY KeptCover, Zenon
<1> HIDE DEF g, S
<1>4. Total(f) = Total(g) BY <1>1, TotalSame
<1> QED BY <1>2, <1>3, <1>4

LEMMA ErrorsAdd ==
  ASSUME NEW parts, NEW all, Grouped(parts, all),
         NEW f, DOMAIN f = KeptParts(parts), \A e \in DOMAIN f : f[e] = ErrorsOf(parts[e])
  PROVE  Total(f) = ErrorsOf(all)
<1> DEFINE K == SidesIn(parts)
           errs == [n \in DOMAIN all |-> all[n].errors]
<1>1. DOMAIN errs = DOMAIN all /\ \A n \in DOMAIN all : errs[n] = all[n].errors OBVIOUS
<1>2. ErrorsOf(all) = Total(errs) BY DEF ErrorsOf
<1>3. \A n \in DOMAIN errs : errs[n] \in Nat BY <1>1 DEF Grouped, SideOK
<1>4. \A e \in DOMAIN K : f[e] = Total([n \in K[e] |-> errs[n]])
  <2> SUFFICES ASSUME NEW e \in DOMAIN K PROVE f[e] = Total([n \in K[e] |-> errs[n]]) OBVIOUS
  <2>1. e \in KeptParts(parts) /\ e \in DOMAIN parts /\ K[e] = DOMAIN parts[e] BY KeptCover DEF KeptParts
  <2>2. DOMAIN parts[e] \subseteq DOMAIN all /\ \A n \in DOMAIN parts[e] : parts[e][n] = all[n] BY <2>1 DEF Grouped
  <2> DEFINE own == [n \in DOMAIN parts[e] |-> parts[e][n].errors]
             at == [n \in K[e] |-> errs[n]]
  <2>3. f[e] = Total(own) BY <2>1 DEF ErrorsOf
  <2>4. DOMAIN own = DOMAIN at /\ \A n \in DOMAIN own : own[n] = at[n]
    <3> HIDE DEF errs, K
    <3> QED BY <1>1, <2>1, <2>2
  <2> HIDE DEF own, at
  <2>5. Total(own) = Total(at) BY <2>4, TotalSame
  <2> QED BY <2>3, <2>5 DEF at
<1>5. IsFiniteSet(DOMAIN f) /\ DOMAIN K = DOMAIN f BY KeptCover
<1>6. DOMAIN errs = UNION {K[e] : e \in DOMAIN K} BY <1>1, KeptCover, Zenon
<1>7. (\A e \in DOMAIN K : IsFiniteSet(K[e])) /\ \A d, e \in DOMAIN K : d /= e => K[d] \cap K[e] = {} BY KeptCover
<1> HIDE DEF K, errs
<1>8. Spread(f, K, errs) BY <1>3, <1>4, <1>5, <1>6, <1>7 DEF Spread
<1>9. Total(f) = Total(errs) BY <1>8, SumOfSums
<1> QED BY <1>2, <1>9

\* Evaluations that tell something, and the sides that tell it.
Telling(kind, parts) == {e \in DOMAIN parts : Heard(kind, parts[e]) /= {}}
HeardOf(kind, parts) == [e \in Telling(kind, parts) |-> Heard(kind, parts[e])]

\* "f" adds up what each evaluation tells, "t" what each side does.
TellsEach(kind, parts, all, f, t) ==
  /\ DOMAIN f = Telling(kind, parts)
  /\ \A e \in DOMAIN f : \E s : /\ f[e] = AddUp(s) /\ DOMAIN s = Heard(kind, parts[e])
                               /\ \A n \in DOMAIN s : s[n] = Tell(kind, parts[e][n])
  /\ DOMAIN t = Heard(kind, all) /\ \A n \in DOMAIN t : t[n] = Tell(kind, all[n])

LEMMA ChecksAdd ==
  ASSUME NEW kind, NEW parts, NEW all, Grouped(parts, all), NEW f, NEW t, TellsEach(kind, parts, all, f, t)
  PROVE  AddUp(f) = AddUp(t) /\ (DOMAIN f = {} <=> DOMAIN t = {})
<1> USE DEF TellsEach
<1> DEFINE H == HeardOf(kind, parts)
<1>1. DOMAIN H = DOMAIN f /\ \A e \in DOMAIN H : H[e] = Heard(kind, parts[e]) BY DEF HeardOf
<1> HIDE DEF H
<1>2. DOMAIN f \subseteq DOMAIN parts BY DEF Telling
<1>3. IsFiniteSet(DOMAIN f) BY <1>2, FS_Subset DEF Grouped
<1>4. \A e \in DOMAIN parts : Heard(kind, parts[e]) \subseteq DOMAIN parts[e] /\ DOMAIN parts[e] \subseteq DOMAIN all BY DEF Heard, Grouped
<1>5. \A e \in DOMAIN parts : \A n \in DOMAIN parts[e] : parts[e][n] = all[n] BY DEF Grouped
<1>6. \A e \in DOMAIN parts : \A n \in DOMAIN parts[e] : n \in Heard(kind, parts[e]) <=> n \in Heard(kind, all)
  <2> SUFFICES ASSUME NEW e \in DOMAIN parts, NEW n \in DOMAIN parts[e]
               PROVE  n \in Heard(kind, parts[e]) <=> n \in Heard(kind, all) OBVIOUS
  <2>1. parts[e][n] = all[n] /\ n \in DOMAIN all BY <1>4, <1>5
  <2> QED BY <2>1 DEF Heard
<1>7. \A e \in DOMAIN H : IsFiniteSet(H[e])
  <2> SUFFICES ASSUME NEW e \in DOMAIN H PROVE IsFiniteSet(H[e]) OBVIOUS
  <2>1. H[e] \subseteq DOMAIN all BY <1>1, <1>2, <1>4
  <2> QED BY <2>1, FS_Subset DEF Grouped
<1>8. \A d, e \in DOMAIN H : d /= e => H[d] \cap H[e] = {}
  <2> SUFFICES ASSUME NEW d \in DOMAIN H, NEW e \in DOMAIN H, d /= e, NEW n \in H[d], n \in H[e] PROVE FALSE OBVIOUS
  <2>1. d \in DOMAIN parts /\ e \in DOMAIN parts BY <1>1, <1>2
  <2>2. n \in DOMAIN parts[d] /\ n \in DOMAIN parts[e] BY <1>1, <1>4, <2>1
  <2>3. DOMAIN parts[d] \cap DOMAIN parts[e] = {} BY <2>1 DEF Grouped
  <2> QED BY <2>2, <2>3
<1>9. DOMAIN t = UNION {H[e] : e \in DOMAIN H}
  <2>1. ASSUME NEW n \in DOMAIN t PROVE n \in UNION {H[e] : e \in DOMAIN H}
    <3>1. n \in DOMAIN all BY DEF Heard
    <3>2. PICK e \in DOMAIN parts : n \in DOMAIN parts[e] BY <3>1 DEF Grouped
    <3>3. n \in Heard(kind, parts[e]) BY <1>6, <3>2
    <3>4. e \in DOMAIN H BY <1>1, <3>2, <3>3 DEF Telling
    <3> QED BY <1>1, <3>3, <3>4
  <2>2. ASSUME NEW n \in UNION {H[e] : e \in DOMAIN H} PROVE n \in DOMAIN t
    <3>1. PICK e \in DOMAIN H : n \in H[e] OBVIOUS
    <3>2. e \in DOMAIN parts /\ n \in Heard(kind, parts[e]) /\ n \in DOMAIN parts[e] BY <1>1, <1>2, <1>4, <3>1
    <3> QED BY <1>6, <3>2
  <2> QED BY <2>1, <2>2
<1>10. \A e \in DOMAIN H : \E s : f[e] = AddUp(s) /\ DOMAIN s = H[e] /\ \A n \in H[e] : s[n] = t[n]
  <2> SUFFICES ASSUME NEW e \in DOMAIN H PROVE \E s : f[e] = AddUp(s) /\ DOMAIN s = H[e] /\ \A n \in H[e] : s[n] = t[n] OBVIOUS
  <2>1. PICK s : f[e] = AddUp(s) /\ DOMAIN s = Heard(kind, parts[e]) /\ \A n \in DOMAIN s : s[n] = Tell(kind, parts[e][n])
    BY <1>1
  <2>2. e \in DOMAIN parts /\ H[e] = Heard(kind, parts[e]) BY <1>1, <1>2
  <2>3. ASSUME NEW n \in H[e] PROVE s[n] = t[n]
    <3>1. n \in DOMAIN parts[e] /\ n \in Heard(kind, parts[e]) BY <1>4, <2>2
    <3>2. n \in DOMAIN t /\ parts[e][n] = all[n] BY <1>5, <1>6, <2>2, <3>1
    <3> QED BY <2>1, <2>2, <3>2
  <2> QED BY <2>1, <2>2, <2>3
<1>11. \A n \in DOMAIN t : \A w \in Which : t[n][w] \in Nat BY TellIs DEF Grouped
<1>12. PartSums(f, H, t) BY <1>1, <1>3, <1>7, <1>8, <1>9, <1>10, <1>11 DEF PartSums
<1>13. AddUp(f) = AddUp(t) BY <1>12, AddUpTwice
<1>14. \A e \in DOMAIN H : H[e] /= {} BY <1>1 DEF Telling
<1>15. DOMAIN f = {} <=> DOMAIN t = {} BY <1>1, <1>9, <1>14
<1> QED BY <1>13, <1>15

\* What a report says of a kind is what its sides say, evaluation by evaluation
\* or all at once.
LEMMA SaysTheSame ==
  ASSUME NEW kind, NEW parts, NEW all, Grouped(parts, all), DOMAIN all /= {},
         NEW evals, DOMAIN evals = DOMAIN parts, \A e \in DOMAIN evals : evals[e] = KindSide(kind, parts[e])
  PROVE  KindEvals(kind, evals) = KindSide(kind, all)
<1> DEFINE kept == {e \in DOMAIN evals : evals[e].prompts > 0}
           told == {e \in kept : evals[e].checks /= {}}
           prompts == [e \in kept |-> evals[e].prompts]
           errors == [e \in kept |-> evals[e].errors]
           checks == [e \in told |-> CHOOSE c \in evals[e].checks : TRUE]
           t == [n \in Heard(kind, all) |-> Tell(kind, all[n])]
<1>1. KindEvals(kind, evals) =
        [prompts |-> Total(prompts), errors |-> Total(errors),
         checks |-> IF told = {} /\ (kind = "rubric" \/ kept = {}) THEN {} ELSE {AddUp(checks)}]
  BY DEF KindEvals
<1>2. \A sides : /\ KindSide(kind, sides).prompts = Cardinality(DOMAIN sides) /\ KindSide(kind, sides).errors = ErrorsOf(sides)
                 /\ KindSide(kind, sides) = [prompts |-> KindSide(kind, sides).prompts, errors |-> KindSide(kind, sides).errors,
                                             checks |-> KindSide(kind, sides).checks]
  BY DEF KindSide
<1>3. \A e \in DOMAIN parts : evals[e].prompts = Cardinality(DOMAIN parts[e]) /\ evals[e].errors = ErrorsOf(parts[e])
  BY <1>2
<1>4. \A e \in DOMAIN parts : DOMAIN parts[e] \subseteq DOMAIN all BY DEF Grouped
<1>5. \A e \in DOMAIN parts : IsFiniteSet(DOMAIN parts[e]) BY <1>4, FS_Subset DEF Grouped
<1>6. kept = KeptParts(parts)
  <2>1. \A e \in DOMAIN parts : evals[e].prompts > 0 <=> DOMAIN parts[e] /= {}
    BY <1>3, <1>5, FS_CardinalityType, FS_EmptySet
  <2> QED BY <2>1 DEF KeptParts
<1>7. /\ DOMAIN prompts = kept /\ \A e \in kept : prompts[e] = evals[e].prompts
      /\ DOMAIN errors = kept /\ \A e \in kept : errors[e] = evals[e].errors
      /\ DOMAIN checks = told /\ \A e \in told : checks[e] = CHOOSE c \in evals[e].checks : TRUE
      /\ DOMAIN t = Heard(kind, all) /\ \A n \in DOMAIN t : t[n] = Tell(kind, all[n])
      /\ kept \subseteq DOMAIN parts /\ told \subseteq kept
  OBVIOUS
<1>8. told = {e \in kept : evals[e].checks /= {}} OBVIOUS
<1> HIDE DEF prompts, errors, checks, t, told, kept
<1>9. Total(prompts) = Cardinality(DOMAIN all)
  <2>1. DOMAIN prompts = KeptParts(parts) /\ \A e \in DOMAIN prompts : prompts[e] = Cardinality(DOMAIN parts[e])
    BY <1>3, <1>6, <1>7
  <2> QED BY <2>1, PromptsAdd
<1>10. Total(errors) = ErrorsOf(all)
  <2>1. DOMAIN errors = KeptParts(parts) /\ \A e \in DOMAIN errors : errors[e] = ErrorsOf(parts[e])
    BY <1>3, <1>6, <1>7
  <2> QED BY <2>1, ErrorsAdd
<1>11. \A e \in DOMAIN parts : \A n \in DOMAIN parts[e] : SideOK(parts[e][n]) BY <1>4 DEF Grouped
<1>12. \A e \in DOMAIN parts :
         \E s : /\ DOMAIN s = Heard(kind, parts[e]) /\ \A n \in DOMAIN s : s[n] = Tell(kind, parts[e][n])
                /\ evals[e].checks = IF kind = "rubric" /\ Heard(kind, parts[e]) = {} THEN {} ELSE {AddUp(s)}
  <2> SUFFICES ASSUME NEW e \in DOMAIN parts
               PROVE  \E s : /\ DOMAIN s = Heard(kind, parts[e]) /\ \A n \in DOMAIN s : s[n] = Tell(kind, parts[e][n])
                             /\ evals[e].checks = IF kind = "rubric" /\ Heard(kind, parts[e]) = {} THEN {} ELSE {AddUp(s)}
    OBVIOUS
  <2> DEFINE s == [n \in Heard(kind, parts[e]) |-> Tell(kind, parts[e][n])]
  <2>1. DOMAIN s = Heard(kind, parts[e]) /\ \A n \in DOMAIN s : s[n] = Tell(kind, parts[e][n]) OBVIOUS
  <2> HIDE DEF s
  <2>2. KindSide(kind, parts[e]).checks = IF kind = "rubric" /\ Heard(kind, parts[e]) = {} THEN {} ELSE {AddUp(s)}
    BY <1>5, <1>11, <2>1, ChecksAre
  <2> QED BY <2>1, <2>2
<1>13. \A e \in DOMAIN parts : kind /= "rubric" => Heard(kind, parts[e]) = DOMAIN parts[e] BY DEF Heard
<1>14. \A e \in DOMAIN parts : Heard(kind, parts[e]) \subseteq DOMAIN parts[e] BY DEF Heard
<1>15. told = Telling(kind, parts)
  <2>1. ASSUME NEW e \in DOMAIN parts PROVE e \in told <=> Heard(kind, parts[e]) /= {}
    <3>1. e \in kept <=> DOMAIN parts[e] /= {} BY <1>6 DEF KeptParts
    <3>2. evals[e].checks /= {} <=> ~(kind = "rubric" /\ Heard(kind, parts[e]) = {}) BY <1>12
    <3>3. e \in told <=> e \in kept /\ evals[e].checks /= {} BY <1>8
    <3> QED BY <1>13, <1>14, <3>1, <3>2, <3>3
  <2> QED BY <1>7, <2>1 DEF Telling
<1>16. \A e \in told : \E s : /\ checks[e] = AddUp(s) /\ DOMAIN s = Heard(kind, parts[e])
                              /\ \A n \in DOMAIN s : s[n] = Tell(kind, parts[e][n])
  <2> SUFFICES ASSUME NEW e \in told
               PROVE  \E s : /\ checks[e] = AddUp(s) /\ DOMAIN s = Heard(kind, parts[e])
                             /\ \A n \in DOMAIN s : s[n] = Tell(kind, parts[e][n])
    OBVIOUS
  <2>1. e \in DOMAIN parts /\ Heard(kind, parts[e]) /= {} BY <1>15 DEF Telling
  <2>2. PICK s : /\ DOMAIN s = Heard(kind, parts[e]) /\ \A n \in DOMAIN s : s[n] = Tell(kind, parts[e][n])
                 /\ evals[e].checks = IF kind = "rubric" /\ Heard(kind, parts[e]) = {} THEN {} ELSE {AddUp(s)}
    BY <1>12, <2>1
  <2>3. evals[e].checks = {AddUp(s)} BY <2>1, <2>2
  <2>4. checks[e] = AddUp(s) BY <1>7, <2>3
  <2> QED BY <2>2, <2>4
<1>17. AddUp(checks) = AddUp(t) /\ (told = {} <=> Heard(kind, all) = {})
  <2>1. DOMAIN checks = Telling(kind, parts) /\ DOMAIN t = Heard(kind, all) /\ \A n \in DOMAIN t : t[n] = Tell(kind, all[n])
    BY <1>7, <1>15
  <2>2. \A e \in DOMAIN checks : \E s : /\ checks[e] = AddUp(s) /\ DOMAIN s = Heard(kind, parts[e])
                                        /\ \A n \in DOMAIN s : s[n] = Tell(kind, parts[e][n])
    BY <1>7, <1>16
  <2>3. AddUp(checks) = AddUp(t) /\ (DOMAIN checks = {} <=> DOMAIN t = {}) 
    <3>1. TellsEach(kind, parts, all, checks, t) BY <2>1, <2>2 DEF TellsEach
    <3> QED BY <3>1, ChecksAdd
  <2> QED BY <1>7, <2>3
<1>18. KindSide(kind, all).checks = IF kind = "rubric" /\ Heard(kind, all) = {} THEN {} ELSE {AddUp(t)}
  <2>1. IsFiniteSet(DOMAIN all) /\ \A n \in DOMAIN all : SideOK(all[n]) BY DEF Grouped
  <2> QED BY <1>7, <2>1, ChecksAre
<1>19. kind /= "rubric" => told /= {} /\ Heard(kind, all) /= {} BY <1>17 DEF Heard
<1>20. (IF told = {} /\ (kind = "rubric" \/ kept = {}) THEN {} ELSE {AddUp(checks)}) = KindSide(kind, all).checks
  BY <1>17, <1>18, <1>19
<1> QED BY <1>1, <1>2, <1>9, <1>10, <1>20

\* The failures that a report lists, each with its side.
ListedChecks(kind, sides) == Tagged([n \in DOMAIN sides |-> FailedChecks(sides[n]) \cap ChecksFor(sides[n], kind)])
ListedItems(sides) == Tagged([n \in DOMAIN sides |-> FailedItems(sides[n])])

LEMMA FailuresAre ==
  ASSUME NEW kind, NEW sides
  PROVE  KindFailures(kind, sides) = Cardinality(ListedChecks(kind, sides))
                                       + (IF kind = "rubric" THEN Cardinality(ListedItems(sides)) ELSE 0)
<1> DEFINE c == [n \in DOMAIN sides |-> FailedChecks(sides[n]) \cap ChecksFor(sides[n], kind)]
           i == [n \in DOMAIN sides |-> FailedItems(sides[n])]
<1>1. /\ DOMAIN c = DOMAIN sides /\ \A n \in DOMAIN sides : c[n] = FailedChecks(sides[n]) \cap ChecksFor(sides[n], kind)
      /\ DOMAIN i = DOMAIN sides /\ \A n \in DOMAIN sides : i[n] = FailedItems(sides[n])
  OBVIOUS
<1>2. ListedChecks(kind, sides) = Tagged(c) /\ ListedItems(sides) = Tagged(i) BY DEF ListedChecks, ListedItems
<1> HIDE DEF c, i
<1>3. {{n} \X (FailedChecks(sides[n]) \cap ChecksFor(sides[n], kind)) : n \in DOMAIN sides} = {{n} \X c[n] : n \in DOMAIN c} BY <1>1
<1>4. {{n} \X FailedItems(sides[n]) : n \in DOMAIN sides} = {{n} \X i[n] : n \in DOMAIN i} BY <1>1
<1>5. UNION {{n} \X (FailedChecks(sides[n]) \cap ChecksFor(sides[n], kind)) : n \in DOMAIN sides} = ListedChecks(kind, sides)
  BY <1>2, <1>3, Zenon DEF Tagged
<1>6. UNION {{n} \X FailedItems(sides[n]) : n \in DOMAIN sides} = ListedItems(sides) BY <1>2, <1>4, Zenon DEF Tagged
<1> QED BY <1>5, <1>6 DEF KindFailures

LEMMA ItemsAre ==
  ASSUME NEW side, SideOK(side)
  PROVE  /\ side.grade = {} => FailedItems(side) = {}
         /\ \A g \in side.grade : /\ FailedItems(side) = IF {i \in DOMAIN g.checks : ~g.checks[i]} = {} /\ ~g.overall THEN {0}
                                                         ELSE {i \in DOMAIN g.checks : ~g.checks[i]}
                                  /\ GradeOK(g)
         /\ IsFiniteSet(FailedItems(side))
<1>1. ASSUME side.grade = {} PROVE FailedItems(side) = {} BY <1>1 DEF FailedItems
<1>2. ASSUME NEW g \in side.grade
      PROVE  /\ FailedItems(side) = IF {i \in DOMAIN g.checks : ~g.checks[i]} = {} /\ ~g.overall THEN {0}
                                    ELSE {i \in DOMAIN g.checks : ~g.checks[i]}
             /\ GradeOK(g)
  <2>1. side.grade = {g} /\ GradeOK(g) BY DEF SideOK
  <2> DEFINE items(h) == LET failed == {i \in DOMAIN h.checks : ~h.checks[i]} IN IF failed = {} /\ ~h.overall THEN {0} ELSE failed
  <2>2. FailedItems(side) = UNION {items(h) : h \in side.grade} BY DEF FailedItems
  <2>3. items(g) = IF {i \in DOMAIN g.checks : ~g.checks[i]} = {} /\ ~g.overall THEN {0} ELSE {i \in DOMAIN g.checks : ~g.checks[i]}
    OBVIOUS
  <2> HIDE DEF items
  <2>4. FailedItems(side) = items(g) BY <2>1, <2>2
  <2> QED BY <2>1, <2>3, <2>4
<1>3. IsFiniteSet(FailedItems(side))
  <2>1. CASE side.grade = {} BY <1>1, <2>1, FS_EmptySet
  <2>2. CASE side.grade /= {}
    <3>1. PICK g : g \in side.grade BY <2>2
    <3>2. IsFiniteSet(DOMAIN g.checks) BY <1>2, <3>1 DEF GradeOK
    <3>3. {i \in DOMAIN g.checks : ~g.checks[i]} \subseteq DOMAIN g.checks OBVIOUS
    <3>4. IsFiniteSet({i \in DOMAIN g.checks : ~g.checks[i]}) BY <3>2, <3>3, FS_Subset
    <3>5. IsFiniteSet({0}) BY FS_Singleton
    <3>6. FailedItems(side) = {0} \/ FailedItems(side) = {i \in DOMAIN g.checks : ~g.checks[i]} BY <1>2, <3>1
    <3> QED BY <3>4, <3>5, <3>6
  <2> QED BY <2>1, <2>2
<1> QED BY <1>1, <1>2, <1>3

\* Finitely many sides, each as run_side leaves it.
Sound(sides) == IsFiniteSet(DOMAIN sides) /\ \A n \in DOMAIN sides : SideOK(sides[n])

LEMMA ListedFinite ==
  ASSUME NEW kind, NEW sides, Sound(sides)
  PROVE  IsFiniteSet(ListedChecks(kind, sides)) /\ IsFiniteSet(ListedItems(sides))
<1> DEFINE c == [n \in DOMAIN sides |-> FailedChecks(sides[n]) \cap ChecksFor(sides[n], kind)]
           i == [n \in DOMAIN sides |-> FailedItems(sides[n])]
<1>1. DOMAIN c = DOMAIN sides /\ DOMAIN i = DOMAIN sides OBVIOUS
<1>2. \A n \in DOMAIN c : IsFiniteSet(c[n])
  <2>1. \A n \in DOMAIN sides : FailedChecks(sides[n]) \cap ChecksFor(sides[n], kind) \subseteq DOMAIN sides[n].results
    BY DEF ChecksFor
  <2> QED BY <2>1, FS_Subset DEF Sound, SideOK
<1>3. \A n \in DOMAIN i : IsFiniteSet(i[n]) BY ItemsAre DEF Sound
<1> HIDE DEF c, i
<1>4. IsFiniteSet(Tagged(c)) /\ IsFiniteSet(Tagged(i)) BY <1>1, <1>2, <1>3, TaggedFinite DEF Sound
<1> QED BY <1>4 DEF ListedChecks, ListedItems, c, i

\* What is listed is what is counted and did not pass.
LEMMA ChecksListed ==
  ASSUME NEW kind, NEW sides, Sound(sides)
  PROVE  /\ CategoryOf(sides, kind).passed \in Nat /\ CategoryOf(sides, kind).total \in Nat
         /\ Cardinality(ListedChecks(kind, sides)) = CategoryOf(sides, kind).total - CategoryOf(sides, kind).passed
<1> DEFINE All == ChosenAll(sides, kind, "total")
           Pass == ChosenAll(sides, kind, "passed")
           Fail == ListedChecks(kind, sides)
           a == [n \in DOMAIN sides |-> ChosenOf(sides[n], kind, "total")]
           p == [n \in DOMAIN sides |-> ChosenOf(sides[n], kind, "passed")]
           f == [n \in DOMAIN sides |-> FailedChecks(sides[n]) \cap ChecksFor(sides[n], kind)]
<1>1. /\ DOMAIN a = DOMAIN sides /\ \A n \in DOMAIN sides : a[n] = ChosenOf(sides[n], kind, "total")
      /\ DOMAIN p = DOMAIN sides /\ \A n \in DOMAIN sides : p[n] = ChosenOf(sides[n], kind, "passed")
      /\ DOMAIN f = DOMAIN sides /\ \A n \in DOMAIN sides : f[n] = FailedChecks(sides[n]) \cap ChecksFor(sides[n], kind)
  OBVIOUS
<1>2. All = Tagged(a) /\ Pass = Tagged(p) /\ Fail = Tagged(f) BY DEF ChosenAll, ListedChecks
<1> HIDE DEF a, p, f
<1>3. \A n \in DOMAIN sides : a[n] = p[n] \cup f[n] /\ p[n] \cap f[n] = {}
  <2> SUFFICES ASSUME NEW n \in DOMAIN sides PROVE a[n] = p[n] \cup f[n] /\ p[n] \cap f[n] = {} OBVIOUS
  <2>1. \A c \in ChecksFor(sides[n], kind) : c \in DOMAIN sides[n].results BY DEF ChecksFor
  <2>2. a[n] = {c \in ChecksFor(sides[n], kind) : ~sides[n].results[c].skipped} BY <1>1 DEF ChosenOf, Chosen
  <2>3. p[n] = {c \in ChecksFor(sides[n], kind) : sides[n].results[c].passed /\ ~sides[n].results[c].skipped}
    BY <1>1 DEF ChosenOf, Chosen
  <2>4. f[n] = {c \in ChecksFor(sides[n], kind) : ~sides[n].results[c].passed /\ ~sides[n].results[c].skipped}
    BY <1>1, <2>1 DEF FailedChecks
  <2> QED BY <2>2, <2>3, <2>4
<1>4. Tagged(a) = Tagged(p) \cup Tagged(f)
  <2>1. ASSUME NEW q \in Tagged(a) PROVE q \in Tagged(p) \cup Tagged(f)
    <3>1. q = <<q[1], q[2]>> /\ q[1] \in DOMAIN sides /\ q[2] \in a[q[1]] BY <1>1, TaggedMembers
    <3>2. q[2] \in p[q[1]] \/ q[2] \in f[q[1]] BY <1>3, <3>1
    <3>3. <<q[1], q[2]>> \in Tagged(p) \/ <<q[1], q[2]>> \in Tagged(f) BY <1>1, <3>1, <3>2, TaggedMembers
    <3> QED BY <3>1, <3>3
  <2>2. ASSUME NEW q \in Tagged(p) \cup Tagged(f) PROVE q \in Tagged(a)
    <3>1. q = <<q[1], q[2]>> /\ q[1] \in DOMAIN sides /\ (q[2] \in p[q[1]] \/ q[2] \in f[q[1]]) BY <1>1, <2>2, TaggedMembers
    <3>2. q[2] \in a[q[1]] BY <1>3, <3>1
    <3>3. <<q[1], q[2]>> \in Tagged(a) BY <1>1, <3>1, <3>2, TaggedMembers
    <3> QED BY <3>1, <3>3
  <2> QED BY <2>1, <2>2
<1>5. Tagged(p) \cap Tagged(f) = {}
  <2> SUFFICES ASSUME NEW q \in Tagged(p), q \in Tagged(f) PROVE FALSE OBVIOUS
  <2>1. q[1] \in DOMAIN sides /\ q[2] \in p[q[1]] /\ q[2] \in f[q[1]] BY <1>1, TaggedMembers
  <2> QED BY <1>3, <2>1
<1>6. IsFiniteSet(Tagged(p)) /\ IsFiniteSet(Tagged(f))
  <2>1. \A n \in DOMAIN sides : IsFiniteSet(DOMAIN sides[n].results) BY DEF Sound, SideOK
  <2>2. \A n \in DOMAIN p : p[n] \subseteq DOMAIN sides[n].results BY <1>1 DEF ChosenOf, ChecksFor
  <2>3. \A n \in DOMAIN p : IsFiniteSet(p[n]) BY <1>1, <2>1, <2>2, FS_Subset
  <2>4. IsFiniteSet(Tagged(p)) BY <1>1, <2>3, TaggedFinite DEF Sound
  <2> QED BY <1>2, <2>4, ListedFinite
<1>7. /\ Cardinality(Tagged(p)) \in Nat /\ Cardinality(Tagged(f)) \in Nat
      /\ Cardinality(Tagged(a)) = Cardinality(Tagged(p)) + Cardinality(Tagged(f))
  <2>1. Cardinality(Tagged(p)) \in Nat /\ Cardinality(Tagged(f)) \in Nat BY <1>6, FS_CardinalityType
  <2>2. Cardinality(Tagged(p) \cup Tagged(f))
          = Cardinality(Tagged(p)) + Cardinality(Tagged(f)) - Cardinality(Tagged(p) \cap Tagged(f))
    BY <1>6, FS_Union
  <2>3. Cardinality(Tagged(p) \cap Tagged(f)) = 0 BY <1>5, FS_EmptySet
  <2> QED BY <1>4, <2>1, <2>2, <2>3
<1>8. CategoryOf(sides, kind)["passed"] = Cardinality(Pass) /\ CategoryOf(sides, kind)["total"] = Cardinality(All)
  BY CategoryIs DEF Which
<1> HIDE DEF All, Pass, Fail
<1>9. Cardinality(Fail) = Cardinality(All) - Cardinality(Pass) /\ Cardinality(All) \in Nat /\ Cardinality(Pass) \in Nat
  BY <1>2, <1>7
<1> QED BY <1>8, <1>9 DEF Fail

\* Of the items that are told, those that did not pass are listed.
LEMMA ItemsListed ==
  ASSUME NEW sides, Sound(sides),
         NEW t, DOMAIN t = Heard("rubric", sides), \A n \in DOMAIN t : t[n] = Tell("rubric", sides[n])
  PROVE  /\ AddUp(t).total \in Nat /\ AddUp(t).passed \in Nat
         /\ Cardinality(ListedItems(sides)) >= AddUp(t).total - AddUp(t).passed
<1> DEFINE G(n) == CHOOSE g \in sides[n].grade : TRUE
           D == Heard("rubric", sides)
           a == [n \in D |-> DOMAIN G(n).checks]
           p == [n \in D |-> {i \in DOMAIN G(n).checks : G(n).checks[i]}]
           f == [n \in DOMAIN sides |-> FailedItems(sides[n])]
           sizeA == [n \in DOMAIN a |-> Cardinality(a[n])]
           sizeP == [n \in DOMAIN p |-> Cardinality(p[n])]
           totals == [n \in DOMAIN t |-> t[n]["total"]]
           passes == [n \in DOMAIN t |-> t[n]["passed"]]
<1>1. /\ DOMAIN a = D /\ \A n \in D : a[n] = DOMAIN G(n).checks
      /\ DOMAIN p = D /\ \A n \in D : p[n] = {i \in DOMAIN G(n).checks : G(n).checks[i]}
      /\ DOMAIN f = DOMAIN sides /\ \A n \in DOMAIN sides : f[n] = FailedItems(sides[n])
      /\ DOMAIN sizeA = DOMAIN a /\ \A n \in DOMAIN a : sizeA[n] = Cardinality(a[n])
      /\ DOMAIN sizeP = DOMAIN p /\ \A n \in DOMAIN p : sizeP[n] = Cardinality(p[n])
      /\ DOMAIN totals = DOMAIN t /\ \A n \in DOMAIN t : totals[n] = t[n]["total"]
      /\ DOMAIN passes = DOMAIN t /\ \A n \in DOMAIN t : passes[n] = t[n]["passed"]
  OBVIOUS
<1>2. /\ AddUp(t)["total"] = Total(totals) /\ AddUp(t)["passed"] = Total(passes) BY AddUpIs DEF Which
<1>3. D \subseteq DOMAIN sides /\ \A n \in D : SideOK(sides[n]) /\ sides[n].grade /= {} BY DEF Heard, Sound
<1>4. ListedItems(sides) = Tagged(f) BY DEF ListedItems
<1>5. ASSUME NEW n \in D
      PROVE  /\ G(n) \in sides[n].grade /\ IsFiniteSet(DOMAIN G(n).checks)
             /\ t[n] = Counted(Cardinality({i \in DOMAIN G(n).checks : G(n).checks[i]}), Cardinality(DOMAIN G(n).checks), 0)
             /\ {i \in DOMAIN G(n).checks : ~G(n).checks[i]} \subseteq FailedItems(sides[n])
  <2>1. PICK g \in sides[n].grade :
          /\ sides[n].grade = {g} /\ GradeOK(g)
          /\ Tell("rubric", sides[n]) = Counted(Cardinality({i \in DOMAIN g.checks : g.checks[i]}), Cardinality(DOMAIN g.checks), 0)
    BY <1>3, GradeTells
  <2>2. G(n) = g BY <2>1
  <2>3. FailedItems(sides[n]) = IF {i \in DOMAIN g.checks : ~g.checks[i]} = {} /\ ~g.overall THEN {0}
                                ELSE {i \in DOMAIN g.checks : ~g.checks[i]}
    BY <1>3, <2>1, ItemsAre
  <2>4. t[n] = Tell("rubric", sides[n]) OBVIOUS
  <2> HIDE DEF G
  <2>5. IsFiniteSet(DOMAIN g.checks) BY <2>1 DEF GradeOK
  <2>6. {i \in DOMAIN g.checks : ~g.checks[i]} \subseteq FailedItems(sides[n]) BY <2>3
  <2> QED BY <2>1, <2>2, <2>4, <2>5, <2>6
<1> HIDE DEF G, D, a, p, f, sizeA, sizeP, totals, passes
<1>6. \A n \in D : IsFiniteSet(a[n]) /\ p[n] \subseteq a[n] /\ IsFiniteSet(p[n])
  <2>1. \A n \in D : IsFiniteSet(a[n]) /\ p[n] \subseteq a[n] BY <1>1, <1>5
  <2> QED BY <2>1, FS_Subset
<1>7. IsFiniteSet(D) BY <1>3, FS_Subset DEF Sound
<1>8. IsFiniteSet(Tagged(a)) /\ IsFiniteSet(Tagged(p)) BY <1>1, <1>6, <1>7, TaggedFinite
<1>9. Total(sizeA) = Cardinality(Tagged(a))
  <2>1. Total([n \in DOMAIN a |-> Cardinality(a[n])]) = Cardinality(Tagged(a)) BY <1>1, <1>6, <1>7, TaggedCount
  <2> QED BY <2>1 DEF sizeA
<1>10. Total(sizeP) = Cardinality(Tagged(p))
  <2>1. Total([n \in DOMAIN p |-> Cardinality(p[n])]) = Cardinality(Tagged(p)) BY <1>1, <1>6, <1>7, TaggedCount
  <2> QED BY <2>1 DEF sizeP
<1>11. DOMAIN t = D BY DEF D
<1>12. \A n \in D : t[n]["total"] = Cardinality(a[n]) /\ t[n]["passed"] = Cardinality(p[n])
  BY <1>1, <1>5, CountedIs
<1>13. Total(totals) = Total(sizeA)
  <2>1. DOMAIN totals = DOMAIN sizeA /\ \A n \in DOMAIN totals : totals[n] = sizeA[n] BY <1>1, <1>11, <1>12
  <2> QED BY <2>1, TotalSame
<1>14. Total(passes) = Total(sizeP)
  <2>1. DOMAIN passes = DOMAIN sizeP /\ \A n \in DOMAIN passes : passes[n] = sizeP[n] BY <1>1, <1>11, <1>12
  <2> QED BY <2>1, TotalSame
<1>15. Tagged(a) \ Tagged(p) \subseteq Tagged(f) /\ Tagged(p) \subseteq Tagged(a)
  <2>1. ASSUME NEW q \in Tagged(a), q \notin Tagged(p) PROVE q \in Tagged(f)
    <3>1. q = <<q[1], q[2]>> /\ q[1] \in D /\ q[2] \in a[q[1]] BY <1>1, TaggedMembers
    <3>2. q[2] \notin p[q[1]]
      <4> SUFFICES ASSUME q[2] \in p[q[1]] PROVE FALSE OBVIOUS
      <4>1. <<q[1], q[2]>> \in Tagged(p) BY <1>1, <3>1, TaggedMembers
      <4> QED BY <2>1, <3>1, <4>1
    <3>3. q[2] \in FailedItems(sides[q[1]]) BY <1>1, <1>5, <3>1, <3>2
    <3>4. <<q[1], q[2]>> \in Tagged(f) BY <1>1, <1>3, <3>1, <3>3, TaggedMembers
    <3> QED BY <3>1, <3>4
  <2>2. ASSUME NEW q \in Tagged(p) PROVE q \in Tagged(a)
    <3>1. q = <<q[1], q[2]>> /\ q[1] \in D /\ q[2] \in p[q[1]] BY <1>1, TaggedMembers
    <3>2. <<q[1], q[2]>> \in Tagged(a) BY <1>1, <1>6, <3>1, TaggedMembers
    <3> QED BY <3>1, <3>2
  <2> QED BY <2>1, <2>2
<1>16. IsFiniteSet(Tagged(f)) BY <1>4, ListedFinite
<1>17. Cardinality(Tagged(a)) \in Nat /\ Cardinality(Tagged(p)) \in Nat /\ Cardinality(Tagged(f)) \in Nat
  BY <1>8, <1>16, FS_CardinalityType
<1>18. Cardinality(Tagged(a) \ Tagged(p)) = Cardinality(Tagged(a)) - Cardinality(Tagged(p))
  <2>1. Cardinality(Tagged(a) \ Tagged(p)) = Cardinality(Tagged(a)) - Cardinality(Tagged(a) \cap Tagged(p)) BY <1>8, FS_Difference
  <2>2. Tagged(a) \cap Tagged(p) = Tagged(p) BY <1>15
  <2> QED BY <2>1, <2>2
<1>19. Cardinality(Tagged(a) \ Tagged(p)) <= Cardinality(Tagged(f)) BY <1>15, <1>16, FS_Subset
<1> QED BY <1>2, <1>4, <1>9, <1>10, <1>13, <1>14, <1>17, <1>18, <1>19

\* The counts of a report; none are zeros.
CountsOf(whole) == IF whole.checks = {} THEN Counted(0, 0, 0) ELSE CHOOSE c \in whole.checks : TRUE

\* If nothing is listed nothing failed: a check that is skipped has passed.
LEMMA NothingListed ==
  ASSUME NEW kind \in EvalKinds, NEW sides, Sound(sides), KindFailures(kind, sides) = 0
  PROVE  \A n \in DOMAIN sides :
           /\ \A c \in DOMAIN sides[n].results : sides[n].results[c].category = kind => sides[n].results[c].passed
           /\ \A g \in sides[n].grade : kind = "rubric" => g.overall /\ \A c \in DOMAIN g.checks : g.checks[c]
<1> DEFINE c == [n \in DOMAIN sides |-> FailedChecks(sides[n]) \cap ChecksFor(sides[n], kind)]
           i == [n \in DOMAIN sides |-> FailedItems(sides[n])]
<1>1. /\ DOMAIN c = DOMAIN sides /\ \A n \in DOMAIN sides : c[n] = FailedChecks(sides[n]) \cap ChecksFor(sides[n], kind)
      /\ DOMAIN i = DOMAIN sides /\ \A n \in DOMAIN sides : i[n] = FailedItems(sides[n])
  OBVIOUS
<1>2. ListedChecks(kind, sides) = Tagged(c) /\ ListedItems(sides) = Tagged(i) BY DEF ListedChecks, ListedItems
<1> HIDE DEF c, i
<1>3. IsFiniteSet(ListedChecks(kind, sides)) /\ IsFiniteSet(ListedItems(sides)) BY ListedFinite
<1>4. Cardinality(ListedChecks(kind, sides)) \in Nat /\ Cardinality(ListedItems(sides)) \in Nat BY <1>3, FS_CardinalityType
<1>5. Cardinality(ListedChecks(kind, sides)) = 0 /\ (kind = "rubric" => Cardinality(ListedItems(sides)) = 0)
  BY <1>4, FailuresAre
<1>6. Tagged(c) = {} /\ (kind = "rubric" => Tagged(i) = {}) BY <1>2, <1>3, <1>5, FS_EmptySet
<1>7. ASSUME NEW n \in DOMAIN sides, NEW x \in DOMAIN sides[n].results, sides[n].results[x].category = kind
      PROVE  sides[n].results[x].passed
  <2>1. x \notin c[n]
    <3> SUFFICES ASSUME x \in c[n] PROVE FALSE OBVIOUS
    <3>1. <<n, x>> \in Tagged(c) BY <1>1, TaggedMembers
    <3> QED BY <1>6, <3>1
  <2>2. x \in ChecksFor(sides[n], kind) BY <1>7 DEF ChecksFor
  <2>3. x \notin FailedChecks(sides[n]) BY <1>1, <2>1, <2>2
  <2>4. sides[n].results[x].passed \/ sides[n].results[x].skipped BY <2>3 DEF FailedChecks
  <2> QED BY <2>4 DEF Sound, SideOK
<1>8. ASSUME NEW n \in DOMAIN sides, NEW g \in sides[n].grade, kind = "rubric"
      PROVE  g.overall /\ \A x \in DOMAIN g.checks : g.checks[x]
  <2>1. i[n] = {}
    <3> SUFFICES ASSUME NEW x \in i[n] PROVE FALSE OBVIOUS
    <3>1. <<n, x>> \in Tagged(i) BY <1>1, TaggedMembers
    <3> QED BY <1>6, <1>8, <3>1
  <2>2. FailedItems(sides[n]) = {} BY <1>1, <2>1
  <2>3. FailedItems(sides[n]) = IF {x \in DOMAIN g.checks : ~g.checks[x]} = {} /\ ~g.overall THEN {0}
                                ELSE {x \in DOMAIN g.checks : ~g.checks[x]}
    BY ItemsAre DEF Sound
  <2>4. {x \in DOMAIN g.checks : ~g.checks[x]} = {} /\ g.overall BY <2>2, <2>3
  <2> QED BY <2>4
<1> QED BY <1>7, <1>8

\* Without an error every agent ended well.
LEMMA NoErrors ==
  ASSUME NEW sides, Sound(sides), ErrorsOf(sides) = 0
  PROVE  \A n \in DOMAIN sides : sides[n].exit = 0
<1> DEFINE errs == [n \in DOMAIN sides |-> sides[n].errors]
<1>1. DOMAIN errs = DOMAIN sides /\ \A n \in DOMAIN sides : errs[n] = sides[n].errors OBVIOUS
<1>2. Total(errs) = 0 BY DEF ErrorsOf
<1>3. \A n \in DOMAIN errs : errs[n] \in Nat BY <1>1 DEF Sound, SideOK
<1> HIDE DEF errs
<1>4. \A n \in DOMAIN errs : errs[n] = 0 BY <1>1, <1>2, <1>3, TotalZero DEF Sound
<1> QED BY <1>1, <1>4 DEF Sound, SideOK

\* What the report of all sides at once says, next to the files and the entries.
LEMMA WholeTells ==
  ASSUME NEW kind \in EvalKinds, NEW all, Sound(all)
  PROVE  LET whole == KindSide(kind, all)
             rows == KindFailures(kind, all)
             counts == CountsOf(whole)
             inFile == ResultFile(all)
             entries == [n \in DOMAIN all |-> PromptEntry(all[n])]
         IN /\ whole.errors = inFile.errors
            /\ (IF kind = "rubric" THEN inFile.rubric ELSE {inFile[kind]}) = whole.checks
            /\ kind /= "rubric" => AddUp([n \in DOMAIN entries |-> entries[n][kind]]) = counts
            /\ rows >= counts.total - counts.passed /\ (kind /= "rubric" => rows = counts.total - counts.passed)
            /\ rows = 0 /\ whole.errors = 0 => \A n \in DOMAIN all : SideIsValid(all[n]) \/ kind /= "sanity"
<1> DEFINE whole == KindSide(kind, all)
           rows == KindFailures(kind, all)
           counts == CountsOf(whole)
           inFile == ResultFile(all)
           entries == [n \in DOMAIN all |-> PromptEntry(all[n])]
           own == [n \in DOMAIN entries |-> entries[n][kind]]
           t == [n \in Heard(kind, all) |-> Tell(kind, all[n])]
<1>1. whole.errors = ErrorsOf(all) /\ inFile.errors = ErrorsOf(all) BY DEF KindSide, ResultFile
<1>2. whole.checks = IF kind = "rubric" THEN RubricOf(all) ELSE {CategoryOf(all, kind)} BY DEF KindSide
<1>3. inFile.rubric = RubricOf(all) /\ (kind /= "rubric" => inFile[kind] = CategoryOf(all, kind)) BY DEF ResultFile, EvalKinds
<1>4. kind /= "rubric" => counts = CategoryOf(all, kind) BY <1>2 DEF CountsOf
<1>5. ASSUME kind /= "rubric" PROVE AddUp(own) = CategoryOf(all, kind)
  <2>1. kind \in {"sanity", "runtime"} BY <1>5 DEF EvalKinds
  <2>2. \A n \in DOMAIN all : PromptEntry(all[n])[kind] = CheckSummary(all[n], kind) BY <2>1 DEF PromptEntry
  <2>3. DOMAIN own = DOMAIN all /\ \A n \in DOMAIN all : own[n] = PromptEntry(all[n])[kind] OBVIOUS
  <2>4. IsFiniteSet(DOMAIN all) /\ \A n \in DOMAIN all : IsFiniteSet(DOMAIN all[n].results) BY DEF Sound, SideOK
  <2> HIDE DEF own
  <2>5. DOMAIN own = DOMAIN all /\ \A n \in DOMAIN all : own[n] = CheckSummary(all[n], kind) BY <2>2, <2>3
  <2> QED BY <2>4, <2>5, CategoryAdds
<1>6. DOMAIN t = Heard(kind, all) /\ \A n \in DOMAIN t : t[n] = Tell(kind, all[n]) OBVIOUS
<1> HIDE DEF t
<1>7. IsFiniteSet(ListedChecks(kind, all)) /\ IsFiniteSet(ListedItems(all)) BY ListedFinite
<1>8. Cardinality(ListedChecks(kind, all)) \in Nat /\ Cardinality(ListedItems(all)) \in Nat BY <1>7, FS_CardinalityType
<1>9. rows = Cardinality(ListedChecks(kind, all)) + (IF kind = "rubric" THEN Cardinality(ListedItems(all)) ELSE 0)
  BY FailuresAre
<1>10. ASSUME kind /= "rubric" PROVE rows = counts.total - counts.passed /\ rows \in Nat
  <2>1. rows = Cardinality(ListedChecks(kind, all)) BY <1>8, <1>9, <1>10
  <2> HIDE DEF rows, counts
  <2> QED BY <1>4, <1>8, <1>10, <2>1, ChecksListed
<1>11. ASSUME kind = "rubric" PROVE rows >= counts.total - counts.passed
  <2>1. whole.checks = IF Heard(kind, all) = {} THEN {} ELSE {AddUp(t)} BY <1>6, <1>11, ChecksAre DEF Sound
  <2>2. CASE Heard(kind, all) = {}
    <3>1. counts = Counted(0, 0, 0) BY <2>1, <2>2 DEF CountsOf
    <3>2. counts.total = 0 /\ counts.passed = 0 BY <3>1, CountedIs
    <3> HIDE DEF counts, rows
    <3> QED BY <1>8, <1>9, <1>11, <3>2
  <2>3. CASE Heard(kind, all) /= {}
    <3>1. counts = AddUp(t) BY <2>1, <2>3 DEF CountsOf
    <3> HIDE DEF counts, rows
    <3>2. /\ counts.total \in Nat /\ counts.passed \in Nat
          /\ Cardinality(ListedItems(all)) >= counts.total - counts.passed
      BY <1>6, <1>11, <3>1, ItemsListed
    <3> QED BY <1>8, <1>9, <1>11, <3>2
  <2> QED BY <2>2, <2>3
<1>12. ASSUME rows = 0, whole.errors = 0, NEW n \in DOMAIN all PROVE SideIsValid(all[n]) \/ kind /= "sanity"
  <2> SUFFICES ASSUME kind = "sanity" PROVE SideIsValid(all[n]) OBVIOUS
  <2>1. all[n].exit = 0 BY <1>1, <1>12, NoErrors
  <2>2. 0 \in DOMAIN all[n].results /\ all[n].results[0].category = kind BY DEF Sound, SideOK
  <2>3. all[n].results[0].passed BY <1>12, <2>2, NothingListed
  <2> QED BY <2>1, <2>3 DEF SideIsValid
<1> HIDE DEF whole, rows, counts, inFile, own
<1>13. (IF kind = "rubric" THEN inFile.rubric ELSE {inFile[kind]}) = whole.checks BY <1>2, <1>3
<1>14. /\ whole.errors = inFile.errors
       /\ (IF kind = "rubric" THEN inFile.rubric ELSE {inFile[kind]}) = whole.checks
       /\ kind /= "rubric" => AddUp(own) = counts
       /\ rows >= counts.total - counts.passed /\ (kind /= "rubric" => rows = counts.total - counts.passed)
       /\ rows = 0 /\ whole.errors = 0 => \A n \in DOMAIN all : SideIsValid(all[n]) \/ kind /= "sanity"
  <2>1. rows >= counts.total - counts.passed BY <1>10, <1>11
  <2> QED BY <1>1, <1>4, <1>5, <1>10, <1>12, <1>13, <2>1
<1> QED BY <1>14 DEF whole, rows, counts, inFile, own

\* A cell about checks says 100% only if no check failed.
LEMMA CellTells ==
  ASSUME NEW kind \in EvalKinds, NEW all, Sound(all), SaysAllPassed(kind, KindSide(kind, all))
  PROVE  KindFailures(kind, all) = 0 \/ kind = "rubric"
<1> SUFFICES ASSUME kind /= "rubric" PROVE KindFailures(kind, all) = 0 OBVIOUS
<1> DEFINE whole == KindSide(kind, all)
           c == CategoryOf(all, kind)
<1>1. whole.checks = {c} BY DEF KindSide
<1>2. CountsOf(whole) = c BY <1>1 DEF CountsOf
<1>3. KindFailures(kind, all) = CountsOf(whole).total - CountsOf(whole).passed BY WholeTells
<1>4. c.passed = c.total BY <1>1 DEF SaysAllPassed
<1>5. c.total \in Nat BY ChecksListed
<1> HIDE DEF c
<1> QED BY <1>2, <1>3, <1>4, <1>5

LEMMA ReportTells ==
  ASSUME NEW kind \in EvalKinds, NEW results, KindResults(results)
  PROVE  ReportTellsFailures(kind, results)
<1> DEFINE All(key) == SidesOf(kind, results, key)
           part(key, e) == SidesOf(kind, Group(results, e), key)
           evals(key) == [e \in EvalsOf(results) |-> KindSide(kind, part(key, e))]
           parts(key) == [e \in EvalsOf(results) |-> part(key, e)]
<1>1. ASSUME NEW key \in SideKeys PROVE Grouped(parts(key), All(key))
  <2>1. /\ DOMAIN All(key) = {m \in DOMAIN results : results[m][key] /= <<>>}
        /\ IsFiniteSet(DOMAIN All(key))
        /\ \A n \in DOMAIN All(key) : All(key)[n] = SideOf(kind, key, results[n][key][1]) /\ SideOK(All(key)[n])
    BY <1>1, SidesSound
  <2>2. IsFiniteSet(DOMAIN results) BY DEF KindResults
  <2>3. ASSUME NEW e \in EvalsOf(results)
        PROVE  /\ DOMAIN part(key, e) = {m \in DOMAIN Group(results, e) : results[m][key] /= <<>>}
               /\ \A n \in DOMAIN part(key, e) : n \in DOMAIN All(key) /\ part(key, e)[n] = All(key)[n]
    <3>1. DOMAIN Group(results, e) \subseteq DOMAIN results /\ \A n \in DOMAIN Group(results, e) : Group(results, e)[n] = results[n]
      BY <2>2, <2>3, GroupsOf
    <3>2. /\ DOMAIN part(key, e) = {m \in DOMAIN Group(results, e) : Group(results, e)[m][key] /= <<>>}
          /\ \A n \in DOMAIN part(key, e) : part(key, e)[n] = SideOf(kind, key, Group(results, e)[n][key][1])
      BY DEF SidesOf
    <3> HIDE DEF part, All
    <3>3. DOMAIN part(key, e) = {m \in DOMAIN Group(results, e) : results[m][key] /= <<>>} BY <3>1, <3>2
    <3>4. \A n \in DOMAIN part(key, e) : n \in DOMAIN All(key) /\ part(key, e)[n] = All(key)[n] BY <2>1, <3>1, <3>2, <3>3
    <3> QED BY <3>3, <3>4
  <2>4. DOMAIN parts(key) = EvalsOf(results) /\ \A e \in EvalsOf(results) : parts(key)[e] = part(key, e) OBVIOUS
  <2> HIDE DEF parts, part, All
  <2>5. DOMAIN All(key) = UNION {DOMAIN parts(key)[e] : e \in DOMAIN parts(key)}
    <3>1. ASSUME NEW n \in DOMAIN All(key) PROVE \E e \in DOMAIN parts(key) : n \in DOMAIN parts(key)[e]
      <4>1. n \in DOMAIN results /\ results[n][key] /= <<>> BY <2>1, <3>1
      <4>2. results[n].eval \in EvalsOf(results) /\ n \in DOMAIN Group(results, results[n].eval) BY <2>2, <4>1, GroupsOf
      <4>3. n \in DOMAIN part(key, results[n].eval) BY <2>3, <4>1, <4>2
      <4> QED BY <2>4, <4>2, <4>3
    <3>2. \A e \in DOMAIN parts(key) : DOMAIN parts(key)[e] \subseteq DOMAIN All(key) BY <2>3, <2>4
    <3> QED BY <3>1, <3>2
  <2>6. ASSUME NEW d \in DOMAIN parts(key), NEW e \in DOMAIN parts(key), d /= e
        PROVE  DOMAIN parts(key)[d] \cap DOMAIN parts(key)[e] = {}
    <3>1. DOMAIN Group(results, d) \cap DOMAIN Group(results, e) = {} BY <2>2, <2>4, <2>6, GroupsOf
    <3>2. DOMAIN parts(key)[d] \subseteq DOMAIN Group(results, d) /\ DOMAIN parts(key)[e] \subseteq DOMAIN Group(results, e)
      BY <2>3, <2>4
    <3> QED BY <3>1, <3>2
  <2>7. IsFiniteSet(DOMAIN parts(key)) BY <2>2, <2>4, GroupsOf
  <2>8. \A e \in DOMAIN parts(key) : \A n \in DOMAIN parts(key)[e] : parts(key)[e][n] = All(key)[n]
    <3> SUFFICES ASSUME NEW e \in DOMAIN parts(key), NEW n \in DOMAIN parts(key)[e] PROVE parts(key)[e][n] = All(key)[n]
      OBVIOUS
    <3>1. e \in EvalsOf(results) /\ parts(key)[e] = part(key, e) BY <2>4
    <3> QED BY <2>3, <3>1
  <2>9. \A n \in DOMAIN All(key) : SideOK(All(key)[n]) BY <2>1
  <2> QED BY <2>1, <2>5, <2>6, <2>7, <2>8, <2>9 DEF Grouped
<1>2. ASSUME NEW key \in SideKeys, DOMAIN All(key) /= {} PROVE KindEvals(kind, evals(key)) = KindSide(kind, All(key))
  <2>1. DOMAIN evals(key) = DOMAIN parts(key) /\ \A e \in DOMAIN evals(key) : evals(key)[e] = KindSide(kind, parts(key)[e])
    OBVIOUS
  <2>2. Grouped(parts(key), All(key)) BY <1>1, <1>2
  <2> HIDE DEF evals, parts, All
  <2> QED BY <1>2, <2>1, <2>2, SaysTheSame
<1>3. ASSUME NEW key \in SideKeys PROVE Sound(All(key)) BY <1>3, SidesSound DEF Sound
<1>4. ASSUME NEW key \in SideKeys, DOMAIN All(key) /= {}
      PROVE  LET whole  == KindEvals(kind, evals(key))
                 rows   == KindFailures(kind, All(key))
                 counts == IF whole.checks = {} THEN Counted(0, 0, 0) ELSE CHOOSE c \in whole.checks : TRUE
                 inFile == ResultFile(All(key))
                 entries == [n \in DOMAIN All(key) |-> PromptEntry(All(key)[n])]
             IN /\ whole = KindSide(kind, All(key)) /\ whole.errors = inFile.errors
                /\ (IF kind = "rubric" THEN inFile.rubric ELSE {inFile[kind]}) = whole.checks
                /\ kind /= "rubric" => AddUp([n \in DOMAIN entries |-> entries[n][kind]]) = counts
                /\ rows >= counts.total - counts.passed /\ (kind /= "rubric" => rows = counts.total - counts.passed)
                /\ SaysAllPassed(kind, whole) => rows = 0 \/ kind = "rubric"
                /\ rows = 0 =>
                     \A n \in DOMAIN All(key) :
                       /\ \A c \in DOMAIN All(key)[n].results :
                            All(key)[n].results[c].category = kind => All(key)[n].results[c].passed
                       /\ \A g \in All(key)[n].grade : kind = "rubric" => g.overall /\ \A c \in DOMAIN g.checks : g.checks[c]
                /\ rows = 0 /\ whole.errors = 0 => \A n \in DOMAIN All(key) : SideIsValid(All(key)[n]) \/ kind /= "sanity"
  <2>1. KindEvals(kind, evals(key)) = KindSide(kind, All(key)) /\ Sound(All(key)) BY <1>2, <1>3, <1>4
  <2> HIDE DEF evals, All
  <2> DEFINE whole == KindSide(kind, All(key))
             all == All(key)
  <2>2. KindFailures(kind, all) = 0 =>
          \A n \in DOMAIN all :
            /\ \A c \in DOMAIN all[n].results : all[n].results[c].category = kind => all[n].results[c].passed
            /\ \A g \in all[n].grade : kind = "rubric" => g.overall /\ \A c \in DOMAIN g.checks : g.checks[c]
    BY <2>1, NothingListed
  <2>3. LET rows == KindFailures(kind, all)
            counts == CountsOf(whole)
            inFile == ResultFile(all)
            entries == [n \in DOMAIN all |-> PromptEntry(all[n])]
        IN /\ whole.errors = inFile.errors
           /\ (IF kind = "rubric" THEN inFile.rubric ELSE {inFile[kind]}) = whole.checks
           /\ kind /= "rubric" => AddUp([n \in DOMAIN entries |-> entries[n][kind]]) = counts
           /\ rows >= counts.total - counts.passed /\ (kind /= "rubric" => rows = counts.total - counts.passed)
           /\ rows = 0 /\ whole.errors = 0 => \A n \in DOMAIN all : SideIsValid(all[n]) \/ kind /= "sanity"
    BY <2>1, WholeTells
  <2>4. SaysAllPassed(kind, whole) => KindFailures(kind, all) = 0 \/ kind = "rubric" BY <2>1, CellTells
  <2> QED BY <2>1, <2>2, <2>3, <2>4 DEF CountsOf
<1> QED BY <1>4 DEF ReportTellsFailures

-----------------------------------------------------------------------------
(* The invariant: what a reader looks at is something that evaluations leave. *)
Honest(v) == v = NoVerdict \/ Legible(v)

LEMMA HonestRead ==
  ASSUME Honest(verdict)
  PROVE  EvaluationsAreHonest
<1>1. CASE verdict = NoVerdict BY <1>1 DEF NoVerdict, EvaluationsAreHonest
<1>2. CASE Legible(verdict)
  <2>1. ASSUME verdict.kind = "trace" PROVE SkillReadFirst(verdict.events, verdict.reads, verdict.lines)
    <3>1. /\ Events(verdict.events) /\ verdict.lines \in Nat
          /\ \A n \in DOMAIN verdict.events : Segment(verdict.reads[verdict.events[n].id])
      BY <1>2, <2>1 DEF Legible
    <3> QED BY <3>1, SkillRead
  <2>2. ASSUME verdict.kind = "usage" PROVE UsageIsHonest(verdict.prompts)
    <3>1. /\ IsFiniteSet(DOMAIN verdict.prompts) /\ DOMAIN verdict.prompts /= {}
          /\ \A n \in DOMAIN verdict.prompts : PromptUsage(verdict.prompts[n])
      BY <1>2, <2>2 DEF Legible
    <3> QED BY <3>1, UsageHonest
  <2>3. ASSUME verdict.kind = "use" PROVE TotalsAreWhole(verdict.use)
    <3>1. \A f \in {"fresh", "cached", "written", "output"} : verdict.use[f] \in Nat BY <1>2, <2>3 DEF Legible
    <3> QED BY <3>1, UseWhole
  <2>4. ASSUME verdict.kind = "results" PROVE ReportTellsFailures(verdict.of, verdict.results)
    <3>1. verdict.of \in EvalKinds /\ KindResults(verdict.results) BY <1>2, <2>4 DEF Legible
    <3> QED BY <3>1, ReportTells
  <2>5. ASSUME verdict.kind = "judge" PROVE JudgeIsHeard(verdict.backend, verdict.judge, verdict.left)
    <3>1. verdict.backend \in {"codex", "claude"} BY <1>2, <2>5 DEF Legible
    <3> QED BY <3>1, JudgeHeard
  <2> QED BY <2>1, <2>2, <2>3, <2>4, <2>5 DEF EvaluationsAreHonest
<1> QED BY <1>1, <1>2 DEF Honest

\* For every trace, usage, answer of a judge and every results that evaluations
\* may leave, with any number of events, records, prompts and checks: only a skill
\* that was read first counts, a total hides nothing, a report says the same of
\* its sides however they are added up and lists what failed, and a judge is heard
\* (reads_complete_skill_before_other_actions, aggregate_usage, normalized_usage,
\* aggregate_kind_evals, collect_kind_failures, run_rubric_grade).
THEOREM HonestEvaluations == VerdictSpec => []EvaluationsAreHonest
<1>1. verdict = NoVerdict => Honest(verdict) BY DEF Honest
<1>2. Honest(verdict) /\ [ReadVerdict]_verdict => Honest(verdict)'
  <2> SUFFICES ASSUME Honest(verdict), [ReadVerdict]_verdict PROVE Honest(verdict)' OBVIOUS
  <2>1. CASE ReadVerdict BY <2>1 DEF ReadVerdict, Honest
  <2>2. CASE UNCHANGED verdict BY <2>2 DEF Honest
  <2> QED BY <2>1, <2>2
<1>3. Honest(verdict) => EvaluationsAreHonest BY HonestRead
<1> QED BY <1>1, <1>2, <1>3, PTL DEF VerdictSpec
=============================================================================
