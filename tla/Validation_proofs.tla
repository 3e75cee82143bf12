-------------------------- MODULE Validation_proofs -------------------------
(***************************************************************************)
(* Theorems about modules Validation and ValidationService, for every set  *)
(* of writers and runners and every bound.                                 *)
(***************************************************************************)
EXTENDS ValidationService, TLAPS

-----------------------------------------------------------------------------
(* The inductive invariant.  Each property needs to know which run a step   *)
(* can touch: a run belongs to one runner from the moment it is numbered    *)
(* until its worker starts, and to that worker from then on.                *)

Carries(r) == runner[r].pc \in {"start", "take", "register"}

\* A run in a runner's hands was numbered and has no worker yet.
CarriesUnstarted(r) ==
  Carries(r) =>
    /\ runner[r].run \in RunIds /\ runner[r].run <= runSeq
    /\ worker[runner[r].run] = "none"
    /\ runner[r].pc # "register" => taken[runner[r].run] = {}
    /\ runner[r].pc = "start" => runner[r].run # activeRun

RunnersCarry == \A r \in Runners : CarriesUnstarted(r)

CarriedOnce ==
  \A r, q \in Runners :
    Carries(r) /\ Carries(q) /\ runner[r].run = runner[q].run => r = q

\* A run without a worker was neither registered nor cancelled nor shown.
Unstarted ==
  \A n \in RunIds :
    worker[n] = "none" => n \notin cancelled /\ n # registered /\ n # resultRun

\* A number that was not given out yet is nowhere.
Unissued ==
  \A n \in RunIds : n > runSeq => worker[n] = "none" /\ taken[n] = {}
                                 /\ n # activeRun

\* A disabled validator has nothing to show.
DisabledIsEmpty ==
  /\ hasResult <=> resultRun # NoRun
  /\ status = "disabled" => activeRun = NoRun /\ resultRun = NoRun

\* Whoever cancelled the active run has yet to wipe the result store.
CancelledWillBeWiped == activeRun \in cancelled => WipePending

\* A record is known by its stamp, and no stamp comes back once invalidated.
StampsAreFresh ==
  /\ \A x \in Retained : x.at <= clock /\ x.at \notin invalidated
  /\ \A x, y \in Retained : x.at = y.at => x = y
  /\ \A t \in invalidated : t <= clock

\* A reset is on its way to the result store.
ResetOwed == \E w \in Writers : writer[w].pc \in {"cancel", "wipe"}

\* Otherwise neither the result nor the snapshot that may become the next one
\* holds invalidated telemetry.
NothingInvalidated ==
  ResetOwed \/ /\ hasResult => entities \cap invalidated = {}
               /\ activeRun # NoRun => taken[activeRun] \cap invalidated = {}

RunsInv ==
  /\ RunnersCarry /\ CarriedOnce /\ Unstarted /\ Unissued
  /\ DisabledIsEmpty /\ CancelledWillBeWiped

ResultsInv == CancelledNeverKept /\ RunningHasAWorker

Core == TypeOK /\ RunsInv /\ ResultsInv

IInv == Core /\ StampsAreFresh /\ NothingInvalidated

-----------------------------------------------------------------------------
(* Type correctness: first what the two stores' operations keep. *)

LEMMA StampsOfRecords ==
  ASSUME rings \in [Signals -> SUBSET Records]
  PROVE  /\ Retained \subseteq Records
         /\ AppStamps \subseteq Stamps
         /\ AllStamps \subseteq Stamps
         /\ AppStamps \subseteq AllStamps
BY DEF Retained, AppStamps, AllStamps, Records

LEMMA SetRuntimeStatusType ==
  ASSUME ResultTypeOK, NEW st \in Statuses, SetRuntimeStatus(st)
  PROVE  ResultTypeOK'
<1> USE DEF SetRuntimeStatus, ForgetEverything, ResultTypeOK, NoRun, NoTime
<1>1. status' \in Statuses
  OBVIOUS
<1>2. hasResult' \in BOOLEAN /\ stale' \in BOOLEAN
  OBVIOUS
<1>3. activeRun' \in RunIds \cup {NoRun} /\ resultRun' \in RunIds \cup {NoRun}
  OBVIOUS
<1>4. runStartedAt' \in 0..MaxClock /\ telemetryAt' \in 0..MaxClock
  BY BoundAssumption
<1>5. entities' \subseteq Stamps
  OBVIOUS
<1> QED
  BY <1>1, <1>2, <1>3, <1>4, <1>5

LEMMA ClearResultType ==
  ASSUME ResultTypeOK, ClearResult
  PROVE  ResultTypeOK'
<1> USE DEF ClearResult, ForgetEverything, ResultTypeOK, NoRun, NoTime
<1>1. status' \in Statuses
  BY DEF Statuses
<1>2. hasResult' \in BOOLEAN /\ stale' \in BOOLEAN
  OBVIOUS
<1>3. activeRun' \in RunIds \cup {NoRun} /\ resultRun' \in RunIds \cup {NoRun}
  OBVIOUS
<1>4. runStartedAt' \in 0..MaxClock /\ telemetryAt' \in 0..MaxClock
  BY BoundAssumption
<1>5. entities' \subseteq Stamps
  OBVIOUS
<1> QED
  BY <1>1, <1>2, <1>3, <1>4, <1>5

LEMMA StartRunType ==
  ASSUME ResultTypeOK, NEW r \in RunIds, NEW at \in 0..MaxClock, StartRun(r, at)
  PROVE  ResultTypeOK'
BY DEF StartRun, ResultTypeOK, Statuses

LEMMA CompleteRunType ==
  ASSUME ResultTypeOK, NEW r \in RunIds, NEW found \in SUBSET Stamps,
         CompleteRun(r, found)
  PROVE  ResultTypeOK'
<1> USE DEF ResultTypeOK, vstore
<1>1. CASE UNCHANGED vstore
  BY <1>1
<1>2. CASE activeRun = r /\ ~UNCHANGED vstore
  <2> USE <1>2 DEF CompleteRun, Publish
  <2>1. status' \in Statuses
    BY DEF Statuses
  <2>2. hasResult' \in BOOLEAN
    OBVIOUS
  <2>3. stale' \in BOOLEAN
    OBVIOUS
  <2>4. activeRun' \in RunIds \cup {NoRun} /\ resultRun' \in RunIds \cup {NoRun}
    OBVIOUS
  <2>5. /\ runStartedAt' \in 0..MaxClock /\ telemetryAt' \in 0..MaxClock
        /\ entities' \subseteq Stamps
    OBVIOUS
  <2> QED
    BY <2>1, <2>2, <2>3, <2>4, <2>5
<1> QED
  BY <1>1, <1>2 DEF CompleteRun, Publish

LEMMA FailRunType ==
  ASSUME ResultTypeOK, NEW r \in RunIds, FailRun(r)
  PROVE  ResultTypeOK'
BY DEF FailRun, ResultTypeOK, vstore, Statuses

LEMMA MarkTelemetryChangedType ==
  ASSUME ResultTypeOK, NEW at \in 0..MaxClock, MarkTelemetryChanged(at)
  PROVE  ResultTypeOK'
BY DEF MarkTelemetryChanged, ResultTypeOK

LEMMA IngestType ==
  ASSUME TelemetryTypeOK, NEW sig \in Signals, NEW rec \in Records,
         NEW lapsed \in BOOLEAN, Ingest(sig, rec, lapsed)
  PROVE  rings' \in [Signals -> SUBSET Records] /\ lastIngest' \in 0..MaxClock
<1>1. Before(lapsed) \in [Signals -> SUBSET Records]
  BY DEF TelemetryTypeOK, Before, EmptyRings
<1>2. Push(Before(lapsed)[sig], rec) \in SUBSET Records
  BY <1>1 DEF Push
<1>3. rings' \in [Signals -> SUBSET Records]
  BY <1>1, <1>2 DEF Ingest
<1>4. lastIngest' \in 0..MaxClock
  BY BoundAssumption DEF Ingest, TelemetryTypeOK, Records, Stamps
<1> QED
  BY <1>3, <1>4

LEMMA OwesType ==
  ASSUME WriterTypeOK, NEW w \in Writers, NEW reset \in BOOLEAN,
         NEW at \in 0..MaxClock, Owes(w, reset, at)
  PROVE  WriterTypeOK'
<1>1. PICK pc \in WriterPCs : writer' = [writer EXCEPT ![w] = [pc |-> pc, at |-> at]]
  BY Zenon DEF Owes, WriterPCs
<1> QED
  BY <1>1 DEF WriterTypeOK

LEMMA GotoType ==
  ASSUME RunnerTypeOK, NEW r \in Runners, NEW pc \in RunnerPCs, Goto(r, pc)
  PROVE  RunnerTypeOK'
BY DEF Goto, RunnerTypeOK

LEMMA WriterTypeStep ==
  ASSUME TypeOK, NEW w \in Writers, WriterStep(w)
  PROVE  TypeOK'
<1> USE DEF TypeOK
<1>1. ASSUME NEW sig \in Signals, NEW conn \in Conns \cup {NoConn},
             NEW app \in BOOLEAN, NEW lapsed \in BOOLEAN,
             AddTelemetry(w, sig, conn, app, lapsed)
      PROVE  TypeOK'
  <2> DEFINE at  == clock + 1
             rec == [at |-> at, conn |-> conn, app |-> app]
  <2>1. at \in Stamps /\ at \in 0..MaxClock
    BY <1>1, BoundAssumption
       DEF AddTelemetry, InstantsLeft, TelemetryTypeOK, RunTypeOK, Stamps
  <2>2. Ingest(sig, rec, lapsed) /\ clock' = at
    BY <1>1 DEF AddTelemetry
  <2> HIDE DEF at
  <2>3. rec \in Records
    BY <2>1 DEF Records
  <2> HIDE DEF rec
  <2>4. rings' \in [Signals -> SUBSET Records] /\ lastIngest' \in 0..MaxClock
    BY <2>2, <2>3, IngestType
  <2>5. invalidated' \subseteq Stamps
    BY <1>1, StampsOfRecords DEF AddTelemetry, TelemetryTypeOK
  <2>6. TelemetryTypeOK'
    BY <2>1, <2>2, <2>4, <2>5 DEF TelemetryTypeOK
  <2>7. WriterTypeOK'
    <3>1. PICK x \in {0, at} : Owes(w, lapsed, x)
      BY <1>1 DEF AddTelemetry, at
    <3> QED
      BY <2>1, <3>1, OwesType, BoundAssumption
  <2>8. UNCHANGED <<vstore, mvars>>
    BY <1>1 DEF AddTelemetry
  <2> QED
    BY <2>6, <2>7, <2>8
       DEF vstore, mvars, ResultTypeOK, RunnerTypeOK, RunTypeOK
<1>2. CASE ClearAll(w)
  <2>1. TelemetryTypeOK'
    BY <1>2, StampsOfRecords, BoundAssumption
       DEF ClearAll, ClearTelemetry, EmptyRings, TelemetryTypeOK
  <2>2. WriterTypeOK'
    BY <1>2, BoundAssumption DEF ClearAll, Owes, WriterTypeOK, WriterPCs
  <2> QED
    BY <1>2, <2>1, <2>2
       DEF ClearAll, vstore, mvars, ResultTypeOK, RunnerTypeOK, RunTypeOK
<1>3. ASSUME NEW conn \in Conns, Evict(w, conn) PROVE TypeOK'
  <2>1. rings' \in [Signals -> SUBSET Records] /\ lastIngest' \in 0..MaxClock
    BY <1>3, BoundAssumption DEF Evict, EvictConnection, TelemetryTypeOK
  <2>2. invalidated' \subseteq Stamps
    BY <1>3, StampsOfRecords DEF Evict, Owned, TelemetryTypeOK, Records
  <2>3. WriterTypeOK'
    BY <1>3, BoundAssumption DEF Evict, Owes, WriterTypeOK, WriterPCs
  <2> QED
    BY <1>3, <2>1, <2>2, <2>3
       DEF Evict, vstore, mvars, ResultTypeOK, TelemetryTypeOK, RunnerTypeOK,
           RunTypeOK
<1>4. CASE ResetCancel(w)
  BY <1>4 DEF ResetCancel, CancelActiveRun, vstore, tstore, ResultTypeOK,
              TelemetryTypeOK, WriterTypeOK, WriterPCs, RunnerTypeOK, RunTypeOK,
              NoRun
<1>5. CASE ResetWipe(w)
  <2>1. ResultTypeOK'
    BY <1>5, ClearResultType DEF ResetWipe
  <2> QED
    BY <1>5, <2>1 DEF ResetWipe, tstore, mvars, TelemetryTypeOK, WriterTypeOK,
                      WriterPCs, RunnerTypeOK, RunTypeOK
<1>6. CASE Mark(w)
  <2>1. ResultTypeOK'
    BY <1>6, MarkTelemetryChangedType DEF Mark, WriterTypeOK
  <2> QED
    BY <1>6, <2>1, BoundAssumption
       DEF Mark, IdleWriter, tstore, mvars, TelemetryTypeOK, WriterTypeOK,
           WriterPCs, RunnerTypeOK, RunTypeOK
<1> QED
  BY <1>1, <1>2, <1>3, <1>4, <1>5, <1>6 DEF WriterStep

LEMMA RunnerTypeStep ==
  ASSUME TypeOK, RunnersCarry, NEW r \in Runners, RunnerStep(r)
  PROVE  TypeOK'
<1> USE DEF TypeOK, Goto, vstore, tstore, RunnerPCs
<1>1. CASE RunBegin(r)
  <2>1. PICK pc \in RunnerPCs : Goto(r, pc)
    BY <1>1, Zenon DEF RunBegin
  <2>2. RunnerTypeOK'
    BY <2>1, GotoType
  <2> QED
    BY <1>1, <2>2 DEF RunBegin, ResultTypeOK, TelemetryTypeOK, WriterTypeOK,
                      RunTypeOK
<1>2. CASE RunMissingCancel(r)
  BY <1>2 DEF RunMissingCancel, CancelActiveRun, ResultTypeOK, TelemetryTypeOK,
              WriterTypeOK, RunnerTypeOK, RunTypeOK, NoRun
<1>3. CASE RunMissingDisable(r)
  <2>1. ResultTypeOK'
    BY <1>3, SetRuntimeStatusType DEF RunMissingDisable, Statuses
  <2> QED
    BY <1>3, <2>1 DEF RunMissingDisable, TelemetryTypeOK, WriterTypeOK,
                      RunnerTypeOK, RunTypeOK
<1>4. CASE RunEnable(r)
  <2>1. ResultTypeOK'
    BY <1>4, SetRuntimeStatusType DEF RunEnable, Statuses
  <2> QED
    BY <1>4, <2>1 DEF RunEnable, TelemetryTypeOK, WriterTypeOK, RunnerTypeOK,
                      RunTypeOK
<1>5. CASE RunStamp(r)
  BY <1>5, BoundAssumption
     DEF RunStamp, ResultTypeOK, TelemetryTypeOK, WriterTypeOK, RunnerTypeOK,
         RunTypeOK, RunIds
<1>6. CASE RunStart(r)
  <2>1. CASE StartRun(runner[r].run, runner[r].at) /\ Goto(r, "take")
    <3>1. runner[r].run \in RunIds
      BY <1>6 DEF RunStart, RunnersCarry, CarriesUnstarted, Carries
    <3>2. ResultTypeOK'
      BY <2>1, <3>1, StartRunType DEF RunnerTypeOK
    <3>3. RunnerTypeOK'
      BY <2>1, GotoType
    <3> QED
      BY <1>6, <3>2, <3>3 DEF RunStart, TelemetryTypeOK, WriterTypeOK, RunTypeOK
  <2>2. CASE runner' = [runner EXCEPT ![r] = IdleRunner] /\ UNCHANGED vstore
    BY <1>6, <2>2, BoundAssumption
       DEF RunStart, IdleRunner, ResultTypeOK, TelemetryTypeOK, WriterTypeOK,
           RunnerTypeOK, RunTypeOK, NoRun
  <2> QED
    BY <1>6, <2>1, <2>2 DEF RunStart
<1>7. CASE RunTake(r)
  <2>1. taken' \in [RunIds -> SUBSET Stamps]
    BY <1>7, StampsOfRecords DEF RunTake, RunTypeOK, TelemetryTypeOK
  <2> QED
    BY <1>7, <2>1, GotoType
       DEF RunTake, ResultTypeOK, TelemetryTypeOK, WriterTypeOK, RunTypeOK
<1>8. CASE RunRegister(r)
  <2>1. registered' \in RunIds \cup {NoRun}
    BY <1>8 DEF RunRegister, RunnerTypeOK
  <2>2. worker' \in [RunIds -> {"none", "checking", "leaving", "gone"}]
    BY <1>8 DEF RunRegister, RunTypeOK
  <2> QED
    BY <1>8, <2>1, <2>2, GotoType
       DEF RunRegister, ResultTypeOK, TelemetryTypeOK, WriterTypeOK, RunTypeOK
<1>9. CASE RunReturn(r)
  BY <1>9, BoundAssumption
     DEF RunReturn, IdleRunner, ResultTypeOK, TelemetryTypeOK, WriterTypeOK,
         RunnerTypeOK, RunTypeOK, NoRun
<1> QED
  BY <1>1, <1>2, <1>3, <1>4, <1>5, <1>6, <1>7, <1>8, <1>9 DEF RunnerStep

LEMMA MayHaveFoundType ==
  ASSUME RunTypeOK, NEW n \in RunIds
  PROVE  MayHaveFound(n) \subseteq SUBSET Stamps
BY DEF RunTypeOK, MayHaveFound

LEMMA WorkerTypeStep ==
  ASSUME TypeOK, NEW n \in RunIds, WorkerEnd(n) \/ WorkerUnregister(n)
  PROVE  TypeOK'
<1> USE DEF TypeOK
<1>1. CASE WorkerEnd(n)
  <2>1. ResultTypeOK'
    <3>1. CASE WorkerComplete(n)
      BY <3>1, MayHaveFoundType, CompleteRunType DEF WorkerComplete
    <3>2. CASE WorkerFail(n)
      BY <3>2, FailRunType DEF WorkerFail
    <3>3. CASE WorkerAbandon(n)
      BY <3>3 DEF WorkerAbandon, vstore, ResultTypeOK
    <3> QED
      BY <1>1, <3>1, <3>2, <3>3 DEF WorkerEnd
  <2>2. Leave(n)
    BY <1>1 DEF WorkerEnd, WorkerComplete, WorkerFail, WorkerAbandon
  <2> QED
    BY <2>1, <2>2 DEF Leave, tstore, TelemetryTypeOK, WriterTypeOK,
                      RunnerTypeOK, RunTypeOK
<1>2. CASE WorkerUnregister(n)
  BY <1>2 DEF WorkerUnregister, vstore, tstore, ResultTypeOK, TelemetryTypeOK,
              WriterTypeOK, RunnerTypeOK, RunTypeOK, NoRun
<1> QED
  BY <1>1, <1>2

LEMMA TypeStep ==
  ASSUME TypeOK, RunnersCarry, [Next]_vars
  PROVE  TypeOK'
<1>1. CASE UNCHANGED vars
  BY <1>1 DEF vars, vstore, tstore, mvars, TypeOK, ResultTypeOK,
              TelemetryTypeOK, WriterTypeOK, RunnerTypeOK, RunTypeOK
<1> QED
  BY <1>1, WriterTypeStep, RunnerTypeStep, WorkerTypeStep DEF Next

-----------------------------------------------------------------------------
(* Runs: who holds which number. *)

LEMMA UntouchedRuns ==
  ASSUME RunsInv, UNCHANGED <<status, hasResult, activeRun, resultRun, mvars>>,
         WipePending => WipePending'
  PROVE  RunsInv'
BY DEF RunsInv, mvars, RunnersCarry, CarriesUnstarted, Carries, CarriedOnce, Unstarted, Unissued,
       DisabledIsEmpty, CancelledWillBeWiped

LEMMA WipeStaysPending ==
  ASSUME NEW w \in Writers, writer[w].pc # "wipe", UNCHANGED runner,
         \A v \in Writers \ {w} : writer'[v] = writer[v]
  PROVE  WipePending => WipePending'
BY DEF WipePending

LEMMA WriterLeavesOthers ==
  ASSUME TypeOK, NEW w \in Writers, WriterStep(w)
  PROVE  \A v \in Writers \ {w} : writer'[v] = writer[v]
BY DEF WriterStep, AddTelemetry, ClearAll, Evict, ResetCancel, ResetWipe, Mark,
       Owes, TypeOK, WriterTypeOK

LEMMA WriterRunsStep ==
  ASSUME TypeOK, RunsInv, NEW w \in Writers, WriterStep(w)
  PROVE  RunsInv'
<1>1. CASE /\ UNCHANGED <<status, hasResult, activeRun, resultRun, mvars>>
           /\ writer[w].pc # "wipe"
  BY <1>1, WriterLeavesOthers, WipeStaysPending, UntouchedRuns DEF mvars
<1>2. CASE ResetCancel(w)
  <2> USE <1>2 DEF ResetCancel, CancelActiveRun, vstore, RunsInv
  <2>1. WipePending'
    BY DEF WipePending, TypeOK, WriterTypeOK
  <2>2. RunnersCarry' /\ CarriedOnce'
    BY DEF RunnersCarry, CarriesUnstarted, CarriedOnce, Carries
  <2>3. Unstarted' /\ Unissued'
    BY DEF Unstarted, Unissued, RunIds, NoRun
  <2>4. DisabledIsEmpty' /\ CancelledWillBeWiped'
    BY <2>1 DEF DisabledIsEmpty, CancelledWillBeWiped
  <2> QED
    BY <2>2, <2>3, <2>4
<1>3. CASE ResetWipe(w)
  <2> USE <1>3 DEF ResetWipe, ClearResult, ForgetEverything, mvars, RunsInv
  <2>1. RunnersCarry' /\ CarriedOnce'
    BY DEF RunnersCarry, CarriesUnstarted, CarriedOnce, Carries, RunIds, NoRun
  <2>2. Unstarted' /\ Unissued'
    BY DEF Unstarted, Unissued, RunIds, NoRun
  <2>3. DisabledIsEmpty'
    BY DEF DisabledIsEmpty
  <2>4. CancelledWillBeWiped'
    BY DEF CancelledWillBeWiped, TypeOK, RunTypeOK, RunIds, NoRun
  <2> QED
    BY <2>1, <2>2, <2>3, <2>4
<1> QED
  BY <1>1, <1>2, <1>3
     DEF WriterStep, AddTelemetry, ClearAll, Evict, Mark, MarkTelemetryChanged,
         vstore, mvars

\* What one step of a runner leaves of the others, and of itself.
LEMMA GotoEffect ==
  ASSUME RunnerTypeOK, NEW r \in Runners, NEW pc, Goto(r, pc)
  PROVE  /\ runner'[r].pc = pc /\ runner'[r].run = runner[r].run
         /\ runner'[r].at = runner[r].at
         /\ \A q \in Runners \ {r} : runner'[q] = runner[q]
BY DEF Goto, RunnerTypeOK

LEMMA TakeEffect ==
  ASSUME RunTypeOK, NEW r \in Runners, RunTake(r)
  PROVE  /\ UNCHANGED <<status, hasResult, activeRun, resultRun, writer, runSeq,
                        registered, cancelled, worker>>
         /\ \A n \in RunIds \ {runner[r].run} : taken'[n] = taken[n]
BY DEF RunTake, RunTypeOK, vstore

LEMMA RegisterEffect ==
  ASSUME RunTypeOK, NEW r \in Runners, runner[r].run \in RunIds, RunRegister(r)
  PROVE  /\ UNCHANGED <<status, hasResult, activeRun, resultRun, writer, runSeq,
                        cancelled, taken>>
         /\ registered' = runner[r].run
         /\ worker'[runner[r].run] = "checking"
         /\ \A n \in RunIds \ {runner[r].run} : worker'[n] = worker[n]
BY DEF RunRegister, RunTypeOK, vstore

LEMMA RunnerRunsStep ==
  ASSUME TypeOK, RunsInv, NEW r \in Runners, RunnerStep(r)
  PROVE  RunsInv'
<1> DEFINE Others == \A q \in Runners \ {r} : runner'[q] = runner[q]
<1> USE DEF RunsInv, Carries, CarriesUnstarted, vstore
<1>0. /\ RunnerTypeOK /\ RunTypeOK
      /\ runSeq \in Nat /\ RunIds \subseteq Nat \ {NoRun} /\ MaxRuns \in Nat
  BY BoundAssumption DEF TypeOK, RunTypeOK, RunIds, NoRun
<1>1. CASE RunBegin(r)
  <2>1. /\ Others /\ runner[r].pc = "idle"
        /\ runner'[r].pc \in {"cancel", "enable", "stamp"}
    BY <1>0, <1>1, GotoEffect DEF RunBegin
  <2>2. UNCHANGED <<status, hasResult, activeRun, resultRun, writer, runSeq, registered,
                    cancelled, taken, worker>>
    BY <1>1 DEF RunBegin
  <2>3. RunnersCarry'
    BY <1>0, <2>1, <2>2 DEF RunnersCarry
  <2>4. CarriedOnce'
    BY <1>0, <2>1, <2>2 DEF RunnersCarry, CarriedOnce
  <2>5. Unstarted'
    BY <1>0, <2>1, <2>2 DEF RunnersCarry, Unstarted
  <2>6. Unissued'
    BY <1>0, <2>1, <2>2 DEF RunnersCarry, Unissued
  <2>7. DisabledIsEmpty'
    BY <1>0, <2>1, <2>2 DEF DisabledIsEmpty
  <2>8. CancelledWillBeWiped'
    BY <1>0, <2>1, <2>2 DEF RunnersCarry, Unstarted, CancelledWillBeWiped, WipePending
  <2> QED
    BY <2>3, <2>4, <2>5, <2>6, <2>7, <2>8
<1>2. CASE RunMissingCancel(r)
  <2>1. /\ Others /\ runner[r].pc = "cancel" /\ runner'[r].pc = "disable"
    BY <1>0, <1>2, GotoEffect DEF RunMissingCancel
  <2>2. /\ UNCHANGED <<status, hasResult, activeRun, resultRun, writer, runSeq, taken,
                       worker>>
        /\ registered' = NoRun
        /\ cancelled' = cancelled \cup ({registered} \ {NoRun})
    BY <1>2 DEF RunMissingCancel, CancelActiveRun
  <2>3. RunnersCarry'
    BY <1>0, <2>1, <2>2 DEF RunnersCarry
  <2>4. CarriedOnce'
    BY <1>0, <2>1, <2>2 DEF RunnersCarry, CarriedOnce
  <2>5. Unstarted'
    BY <1>0, <2>1, <2>2 DEF RunnersCarry, Unstarted
  <2>6. Unissued'
    BY <1>0, <2>1, <2>2 DEF RunnersCarry, Unissued
  <2>7. DisabledIsEmpty'
    BY <1>0, <2>1, <2>2 DEF DisabledIsEmpty
  <2>8. CancelledWillBeWiped'
    BY <1>0, <2>1, <2>2 DEF RunnersCarry, Unstarted, CancelledWillBeWiped, WipePending
  <2> QED
    BY <2>3, <2>4, <2>5, <2>6, <2>7, <2>8
<1>3. CASE RunMissingDisable(r)
  <2>1. /\ Others /\ runner[r].pc = "disable" /\ runner'[r].pc = "return"
    BY <1>0, <1>3, GotoEffect DEF RunMissingDisable
  <2>2. /\ UNCHANGED <<writer, runSeq, registered, cancelled, taken, worker>>
        /\ cancelled \subseteq RunIds
        /\ hasResult' = FALSE /\ activeRun' = NoRun /\ resultRun' = NoRun
    BY <1>3 DEF RunMissingDisable, SetRuntimeStatus, ForgetEverything, TypeOK,
                  RunTypeOK
  <2>3. RunnersCarry'
    BY <1>0, <2>1, <2>2 DEF RunnersCarry
  <2>4. CarriedOnce'
    BY <1>0, <2>1, <2>2 DEF RunnersCarry, CarriedOnce
  <2>5. Unstarted'
    BY <1>0, <2>1, <2>2 DEF RunnersCarry, Unstarted
  <2>6. Unissued'
    BY <1>0, <2>1, <2>2 DEF RunnersCarry, Unissued
  <2>7. DisabledIsEmpty'
    BY <1>0, <2>1, <2>2 DEF DisabledIsEmpty
  <2>8. CancelledWillBeWiped'
    BY <1>0, <2>1, <2>2 DEF RunnersCarry, Unstarted, CancelledWillBeWiped, WipePending
  <2> QED
    BY <2>3, <2>4, <2>5, <2>6, <2>7, <2>8
<1>4. CASE RunEnable(r)
  <2>1. /\ Others /\ runner[r].pc = "enable" /\ runner'[r].pc = "stamp"
    BY <1>0, <1>4, GotoEffect DEF RunEnable
  <2>2. /\ UNCHANGED <<hasResult, activeRun, resultRun, writer, runSeq,
                       registered, cancelled, taken, worker>>
        /\ status' = "idle"
    BY <1>4 DEF RunEnable, SetRuntimeStatus
  <2>3. RunnersCarry'
    BY <1>0, <2>1, <2>2 DEF RunnersCarry
  <2>4. CarriedOnce'
    BY <1>0, <2>1, <2>2 DEF RunnersCarry, CarriedOnce
  <2>5. Unstarted'
    BY <1>0, <2>1, <2>2 DEF RunnersCarry, Unstarted
  <2>6. Unissued'
    BY <1>0, <2>1, <2>2 DEF RunnersCarry, Unissued
  <2>7. DisabledIsEmpty'
    BY <1>0, <2>1, <2>2 DEF DisabledIsEmpty
  <2>8. CancelledWillBeWiped'
    BY <1>0, <2>1, <2>2 DEF RunnersCarry, Unstarted, CancelledWillBeWiped, WipePending
  <2> QED
    BY <2>3, <2>4, <2>5, <2>6, <2>7, <2>8
<1>5. CASE RunStamp(r)
  <2>1. /\ Others /\ runner[r].pc = "stamp" /\ runner'[r].pc = "start"
        /\ runner'[r].run = runSeq + 1 /\ runSeq' = runSeq + 1
        /\ runSeq + 1 \in RunIds
    BY <1>0, <1>5 DEF RunStamp, RunnerTypeOK, RunIds
  <2>2. /\ UNCHANGED <<status, hasResult, activeRun, resultRun, writer, registered,
                       cancelled, taken, worker>>
        /\ resultRun \in RunIds \cup {NoRun}
        /\ activeRun \in RunIds \cup {NoRun}
    BY <1>5 DEF RunStamp, TypeOK, ResultTypeOK
  <2>3. RunnersCarry'
    <3>1. ASSUME NEW q \in Runners \ {r} PROVE CarriesUnstarted(q)'
      <4>1. CarriesUnstarted(q) /\ runner'[q] = runner[q]
        BY <2>1 DEF RunnersCarry
      <4> HIDE DEF RunsInv
      <4>2. Carries(q) => runner[q].run <= runSeq'
        <5>1. Carries(q) => runner[q].run \in RunIds /\ runner[q].run <= runSeq
          BY <4>1
        <5> HIDE DEF Carries, CarriesUnstarted
        <5>2. runSeq' = runSeq + 1 /\ runSeq \in Nat
          BY <1>0, <2>1
        <5> QED
          BY <5>1, <5>2 DEF RunIds
      <4> QED
        BY <2>2, <4>1, <4>2
    <3>2. CarriesUnstarted(r)'
      BY <1>0, <2>1, <2>2 DEF Unissued
    <3> QED
      BY <3>1, <3>2 DEF RunnersCarry
  <2>4. CarriedOnce'
    BY <1>0, <2>1, <2>2 DEF RunnersCarry, CarriedOnce
  <2>5. Unstarted'
    BY <1>0, <2>1, <2>2 DEF RunnersCarry, Unstarted
  <2>6. Unissued'
    BY <1>0, <2>1, <2>2 DEF RunnersCarry, Unissued
  <2>7. DisabledIsEmpty'
    BY <1>0, <2>1, <2>2 DEF DisabledIsEmpty
  <2>8. CancelledWillBeWiped'
    BY <1>0, <2>1, <2>2 DEF RunnersCarry, Unstarted, CancelledWillBeWiped, WipePending
  <2> QED
    BY <2>3, <2>4, <2>5, <2>6, <2>7, <2>8
<1>6. CASE RunStart(r)
  <2>0. runner[r].pc = "start"
        /\ UNCHANGED <<writer, runSeq, registered, cancelled, taken, worker>>
    BY <1>6 DEF RunStart
  <2>1. CASE StartRun(runner[r].run, runner[r].at) /\ Goto(r, "take")
    <3>1. /\ Others /\ runner'[r].pc = "take" /\ runner'[r].run = runner[r].run
      BY <1>0, <2>1, GotoEffect
    <3>2. /\ activeRun' = runner[r].run /\ status' = "running"
          /\ status # "disabled" /\ UNCHANGED <<hasResult, resultRun>>
      BY <2>1 DEF StartRun, MayStart
    <3>3. RunnersCarry'
      BY <1>0, <2>0, <3>1, <3>2 DEF RunnersCarry, CarriedOnce
    <3>4. CarriedOnce'
      BY <1>0, <2>0, <3>1, <3>2 DEF RunnersCarry, CarriedOnce
    <3>5. Unstarted' /\ Unissued'
      BY <1>0, <2>0, <3>1, <3>2 DEF RunnersCarry, Unstarted, Unissued
    <3>6. DisabledIsEmpty'
      BY <3>2 DEF DisabledIsEmpty
    <3>7. CancelledWillBeWiped'
      BY <1>0, <2>0, <3>1, <3>2
         DEF RunnersCarry, Unstarted, CancelledWillBeWiped
    <3> QED
      BY <3>3, <3>4, <3>5, <3>6, <3>7
  <2>2. CASE runner' = [runner EXCEPT ![r] = IdleRunner] /\ UNCHANGED vstore
    <3>1. /\ Others /\ runner'[r].pc = "idle"
      BY <1>0, <2>2 DEF IdleRunner, RunnerTypeOK
    <3>2. RunnersCarry' /\ CarriedOnce'
      BY <1>0, <2>0, <2>2, <3>1 DEF RunnersCarry, CarriedOnce
    <3>3. Unstarted' /\ Unissued' /\ DisabledIsEmpty'
      BY <1>0, <2>0, <2>2, <3>1 DEF Unstarted, Unissued, DisabledIsEmpty
    <3>4. CancelledWillBeWiped'
      BY <1>0, <2>0, <2>2, <3>1 DEF CancelledWillBeWiped, WipePending
    <3> QED
      BY <3>2, <3>3, <3>4
  <2> QED
    BY <1>6, <2>1, <2>2 DEF RunStart
<1>7. CASE RunTake(r)
  <2>1. /\ Others /\ runner[r].pc = "take" /\ runner'[r].pc = "register"
        /\ runner'[r].run = runner[r].run
    BY <1>0, <1>7, GotoEffect DEF RunTake
  <2>2. /\ UNCHANGED <<status, hasResult, activeRun, resultRun, writer, runSeq, registered,
                       cancelled, worker>>
        /\ \A n \in RunIds \ {runner[r].run} : taken'[n] = taken[n]
    BY <1>0, <1>7, TakeEffect, Zenon
  <2>3. RunnersCarry'
    <3>1. ASSUME NEW q \in Runners \ {r} PROVE CarriesUnstarted(q)'
      <4>1. CarriesUnstarted(q) /\ (Carries(q) => runner[q].run # runner[r].run)
        BY <2>1 DEF RunnersCarry, CarriedOnce
      <4> HIDE DEF RunsInv
      <4> QED
        BY <2>1, <2>2, <4>1
    <3>2. CarriesUnstarted(r)'
      <4>1. CarriesUnstarted(r)
        BY DEF RunnersCarry
      <4> HIDE DEF RunsInv
      <4> QED
        BY <2>1, <2>2, <4>1
    <3> QED
      BY <3>1, <3>2 DEF RunnersCarry
  <2>4. CarriedOnce'
    BY <1>0, <2>1, <2>2 DEF RunnersCarry, CarriedOnce
  <2>5. Unstarted'
    BY <1>0, <2>1, <2>2 DEF RunnersCarry, Unstarted
  <2>6. Unissued'
    BY <1>0, <2>1, <2>2 DEF RunnersCarry, Unissued
  <2>7. DisabledIsEmpty'
    BY <1>0, <2>1, <2>2 DEF DisabledIsEmpty
  <2>8. CancelledWillBeWiped'
    BY <1>0, <2>1, <2>2 DEF RunnersCarry, Unstarted, CancelledWillBeWiped, WipePending
  <2> QED
    BY <2>3, <2>4, <2>5, <2>6, <2>7, <2>8
<1>8. CASE RunRegister(r)
  <2>1. /\ Others /\ runner[r].pc = "register" /\ runner'[r].pc = "return"
    BY <1>0, <1>8, GotoEffect DEF RunRegister
  <2>2. /\ UNCHANGED <<status, hasResult, activeRun, resultRun, writer, runSeq, cancelled, taken>>
        /\ registered' = runner[r].run
        /\ worker'[runner[r].run] = "checking"
        /\ \A n \in RunIds \ {runner[r].run} : worker'[n] = worker[n]
    <3>1. runner[r].run \in RunIds
      BY <2>1 DEF RunnersCarry
    <3> QED
      BY <1>0, <1>8, <3>1, RegisterEffect, Zenon
  <2>3. RunnersCarry'
    <3>1. ASSUME NEW q \in Runners \ {r} PROVE CarriesUnstarted(q)'
      <4>1. CarriesUnstarted(q) /\ (Carries(q) => runner[q].run # runner[r].run)
        BY <2>1 DEF RunnersCarry, CarriedOnce
      <4> HIDE DEF RunsInv
      <4> QED
        BY <2>1, <2>2, <4>1
    <3>2. CarriesUnstarted(r)'
      BY <2>1
    <3> QED
      BY <3>1, <3>2 DEF RunnersCarry
  <2>4. CarriedOnce'
    BY <1>0, <2>1, <2>2 DEF RunnersCarry, CarriedOnce
  <2>5. Unstarted'
    BY <1>0, <2>1, <2>2 DEF RunnersCarry, Unstarted
  <2>6. Unissued'
    BY <1>0, <2>1, <2>2 DEF RunnersCarry, Unissued
  <2>7. DisabledIsEmpty'
    BY <1>0, <2>1, <2>2 DEF DisabledIsEmpty
  <2>8. CancelledWillBeWiped'
    BY <1>0, <2>1, <2>2 DEF RunnersCarry, Unstarted, CancelledWillBeWiped, WipePending
  <2> QED
    BY <2>3, <2>4, <2>5, <2>6, <2>7, <2>8
<1>9. CASE RunReturn(r)
  <2>1. /\ Others /\ runner[r].pc = "return" /\ runner'[r].pc = "idle"
    BY <1>0, <1>9 DEF RunReturn, RunnerTypeOK, IdleRunner
  <2>2. UNCHANGED <<status, hasResult, activeRun, resultRun, writer, runSeq, registered,
                    cancelled, taken, worker>>
    BY <1>9 DEF RunReturn
  <2>3. RunnersCarry'
    BY <1>0, <2>1, <2>2 DEF RunnersCarry
  <2>4. CarriedOnce'
    BY <1>0, <2>1, <2>2 DEF RunnersCarry, CarriedOnce
  <2>5. Unstarted'
    BY <1>0, <2>1, <2>2 DEF RunnersCarry, Unstarted
  <2>6. Unissued'
    BY <1>0, <2>1, <2>2 DEF RunnersCarry, Unissued
  <2>7. DisabledIsEmpty'
    BY <1>0, <2>1, <2>2 DEF DisabledIsEmpty
  <2>8. CancelledWillBeWiped'
    BY <1>0, <2>1, <2>2 DEF RunnersCarry, Unstarted, CancelledWillBeWiped, WipePending
  <2> QED
    BY <2>3, <2>4, <2>5, <2>6, <2>7, <2>8
<1> QED
  BY <1>1, <1>2, <1>3, <1>4, <1>5, <1>6, <1>7, <1>8, <1>9 DEF RunnerStep

LEMMA WorkerRunsStep ==
  ASSUME TypeOK, RunsInv, NEW n \in RunIds, WorkerEnd(n) \/ WorkerUnregister(n)
  PROVE  RunsInv'
<1> USE DEF RunsInv, Carries, CarriesUnstarted
<1>0. /\ RunIds \subseteq Nat \ {NoRun} /\ registered \in RunIds \cup {NoRun}
      /\ RunTypeOK /\ ResultTypeOK
  BY BoundAssumption DEF TypeOK, RunTypeOK, RunIds, NoRun
<1>1. CASE WorkerEnd(n)
  <2>1. /\ UNCHANGED <<writer, runner, runSeq, registered, cancelled, taken>>
        /\ worker[n] = "checking" /\ worker'[n] = "leaving"
        /\ \A m \in RunIds \ {n} : worker'[m] = worker[m]
    BY <1>0, <1>1 DEF WorkerEnd, WorkerComplete, WorkerFail, WorkerAbandon, Leave,
                      RunTypeOK
  <2>2. /\ activeRun' \in {activeRun, NoRun}
        /\ status' # "disabled" \/ UNCHANGED <<status, activeRun, resultRun>>
        /\ resultRun' \in {resultRun, n}
        /\ hasResult' <=> resultRun' # NoRun
    <3> USE DEF DisabledIsEmpty
    <3>1. CASE UNCHANGED vstore
      BY <3>1 DEF vstore
    <3>2. CASE activeRun = n /\ \E found \in MayHaveFound(n) : CompleteRun(n, found)
      BY <1>0, <3>2 DEF CompleteRun, Publish
    <3>3. CASE activeRun = n /\ FailRun(n)
      BY <1>0, <3>3 DEF FailRun
    <3> QED
      BY <1>1, <3>1, <3>2, <3>3
         DEF WorkerEnd, WorkerComplete, WorkerFail, WorkerAbandon, CompleteRun,
             Publish, FailRun
  <2>3. RunnersCarry'
    BY <1>0, <2>1, <2>2 DEF RunnersCarry
  <2>4. CarriedOnce'
    BY <2>1 DEF CarriedOnce
  <2>5. Unstarted'
    BY <1>0, <2>1, <2>2 DEF Unstarted
  <2>6. Unissued'
    BY <1>0, <2>1, <2>2 DEF Unissued
  <2>7. DisabledIsEmpty'
    BY <2>2 DEF DisabledIsEmpty
  <2>8. CancelledWillBeWiped'
    BY <1>0, <2>1, <2>2 DEF CancelledWillBeWiped, WipePending, RunTypeOK
  <2> QED
    BY <2>3, <2>4, <2>5, <2>6, <2>7, <2>8
<1>2. CASE WorkerUnregister(n)
  <2>1. /\ UNCHANGED <<vstore, writer, runner, runSeq, cancelled, taken>>
        /\ worker[n] = "leaving" /\ worker'[n] = "gone"
        /\ \A m \in RunIds \ {n} : worker'[m] = worker[m]
        /\ registered' \in {registered, NoRun}
    BY <1>0, <1>2 DEF WorkerUnregister, RunTypeOK
  <2> USE DEF vstore
  <2>2. RunnersCarry' /\ CarriedOnce'
    BY <1>0, <2>1 DEF RunnersCarry, CarriedOnce
  <2>3. Unstarted' /\ Unissued'
    BY <1>0, <2>1 DEF Unstarted, Unissued
  <2>4. DisabledIsEmpty' /\ CancelledWillBeWiped'
    BY <1>0, <2>1 DEF DisabledIsEmpty, CancelledWillBeWiped, WipePending
  <2> QED
    BY <2>2, <2>3, <2>4
<1> QED
  BY <1>1, <1>2

-----------------------------------------------------------------------------
(* Results: what a published result is, and who will end a running one. *)

LEMMA UntouchedResults ==
  ASSUME ResultsInv, UNCHANGED <<status, hasResult, activeRun, resultRun, entities>>,
         UNCHANGED <<runner, taken, worker>>,
         cancelled' = cancelled \/ WipePending', WipePending => WipePending'
  PROVE  ResultsInv'
BY DEF ResultsInv, CancelledNeverKept, RunningHasAWorker

LEMMA WriterResultsStep ==
  ASSUME TypeOK, ResultsInv, NEW w \in Writers, WriterStep(w)
  PROVE  ResultsInv'
<1>1. CASE /\ UNCHANGED <<status, hasResult, activeRun, resultRun, entities>>
           /\ UNCHANGED <<runner, taken, worker>>
           /\ cancelled' = cancelled \/ WipePending'
           /\ writer[w].pc # "wipe"
  BY <1>1, WriterLeavesOthers, WipeStaysPending, UntouchedResults
<1>2. CASE ResetWipe(w)
  BY <1>2 DEF ResetWipe, ClearResult, ForgetEverything, ResultsInv,
              CancelledNeverKept, RunningHasAWorker
<1>3. ResetCancel(w) => WipePending'
  BY DEF ResetCancel, TypeOK, WriterTypeOK, WipePending
<1> QED
  BY <1>1, <1>2, <1>3
     DEF WriterStep, AddTelemetry, ClearAll, Evict, ResetCancel, Mark,
         MarkTelemetryChanged, vstore, mvars

LEMMA RunnerResultsStep ==
  ASSUME TypeOK, RunsInv, ResultsInv, NEW r \in Runners, RunnerStep(r)
  PROVE  ResultsInv'
<1> DEFINE Others == \A q \in Runners \ {r} : runner'[q] = runner[q]
<1>0. RunnerTypeOK /\ CancelledNeverKept /\ RunningHasAWorker
  BY DEF TypeOK, ResultsInv
<1>1. CASE /\ UNCHANGED <<status, hasResult, activeRun, resultRun, entities,
                          taken, worker, writer>>
           /\ cancelled' = cancelled \/ WipePending'
           /\ Others /\ runner[r].pc \notin {"take", "register", "disable"}
  BY <1>0, <1>1
     DEF ResultsInv, CancelledNeverKept, RunningHasAWorker, WipePending
<1>2. CASE RunMissingDisable(r)
  BY <1>2 DEF RunMissingDisable, SetRuntimeStatus, ForgetEverything, ResultsInv,
              CancelledNeverKept, RunningHasAWorker
<1>3. CASE RunEnable(r)
  <2>1. /\ Others /\ runner[r].pc = "enable"
        /\ UNCHANGED <<hasResult, resultRun, entities, taken, writer, cancelled>>
        /\ status' = "idle"
    BY <1>0, <1>3, GotoEffect DEF RunEnable, SetRuntimeStatus
  <2> QED
    BY <1>0, <2>1
       DEF ResultsInv, CancelledNeverKept, RunningHasAWorker, WipePending
<1>4. CASE RunStart(r) /\ StartRun(runner[r].run, runner[r].at)
           /\ Goto(r, "take")
  <2>1. /\ Others /\ runner'[r].pc = "take" /\ runner'[r].run = runner[r].run
        /\ runner[r].pc = "start"
    BY <1>0, <1>4, GotoEffect DEF RunStart
  <2>2. /\ activeRun' = runner[r].run
        /\ UNCHANGED <<hasResult, resultRun, entities, taken, writer, cancelled>>
    BY <1>4 DEF StartRun, RunStart
  <2>3. activeRun' # NoRun
    BY <2>1, <2>2, BoundAssumption
       DEF RunsInv, RunnersCarry, CarriesUnstarted, Carries, RunIds, NoRun
  <2>4. RunningHasAWorker'
    BY <2>1, <2>2, <2>3 DEF RunningHasAWorker
  <2>5. CancelledNeverKept'
    BY <1>0, <2>1, <2>2 DEF CancelledNeverKept, WipePending
  <2> QED
    BY <2>4, <2>5 DEF ResultsInv
<1>5. CASE RunTake(r)
  <2>1. /\ Others /\ runner[r].pc = "take" /\ runner'[r].pc = "register"
        /\ runner'[r].run = runner[r].run
        /\ UNCHANGED <<vstore, writer, worker, cancelled>>
        /\ \A n \in RunIds \ {runner[r].run} : taken'[n] = taken[n]
    BY <1>0, <1>5, GotoEffect DEF RunTake, TypeOK, RunTypeOK
  <2>2. WipePending => WipePending'
    BY <2>1 DEF WipePending
  <2>3. hasResult => taken'[resultRun] = taken[resultRun]
    BY <2>1 DEF RunsInv, RunnersCarry, CarriesUnstarted, Carries, Unstarted,
                DisabledIsEmpty, TypeOK, ResultTypeOK
  <2>4. CancelledNeverKept'
    BY <1>0, <2>1, <2>2, <2>3 DEF CancelledNeverKept, vstore
  <2>5. RunningHasAWorker'
    BY <1>0, <2>1, <2>2 DEF RunningHasAWorker, vstore
  <2> QED
    BY <2>4, <2>5 DEF ResultsInv
<1>6. CASE RunRegister(r)
  <2>1. /\ Others /\ runner[r].pc = "register"
        /\ UNCHANGED <<vstore, writer, taken, cancelled>>
        /\ runner[r].run \in RunIds
        /\ worker'[runner[r].run] = "checking"
        /\ worker[runner[r].run] = "none"
        /\ \A n \in RunIds \ {runner[r].run} : worker'[n] = worker[n]
    BY <1>0, <1>6, GotoEffect
       DEF RunRegister, RunsInv, RunnersCarry, CarriesUnstarted, Carries, TypeOK,
           RunTypeOK
  <2>2. WipePending => WipePending'
    BY <2>1 DEF WipePending
  <2>3. CancelledNeverKept'
    BY <1>0, <2>1, <2>2 DEF CancelledNeverKept, vstore
  <2>4. RunningHasAWorker'
    BY <1>0, <2>1, <2>2 DEF RunningHasAWorker, vstore, TypeOK, ResultTypeOK
  <2> QED
    BY <2>3, <2>4 DEF ResultsInv
<1>7. RunMissingCancel(r) => WipePending'
  BY <1>0, GotoEffect DEF RunMissingCancel, WipePending
<1> QED
  <2>1. CASE RunBegin(r) \/ RunMissingCancel(r) \/ RunStamp(r) \/ RunReturn(r)
    BY <1>0, <1>1, <1>7, <2>1, GotoEffect
       DEF RunBegin, RunMissingCancel, RunStamp, RunReturn, RunnerTypeOK, vstore
  <2>2. CASE RunStart(r) /\ UNCHANGED vstore
             /\ runner' = [runner EXCEPT ![r] = IdleRunner]
    BY <1>0, <1>1, <2>2 DEF RunStart, RunnerTypeOK, vstore
  <2> QED
    BY <1>2, <1>3, <1>4, <1>5, <1>6, <2>1, <2>2 DEF RunnerStep, RunStart

LEMMA WorkerResultsStep ==
  ASSUME TypeOK, RunsInv, ResultsInv, NEW n \in RunIds,
         WorkerEnd(n) \/ WorkerUnregister(n)
  PROVE  ResultsInv'
<1>0. /\ CancelledNeverKept /\ RunningHasAWorker
      /\ UNCHANGED <<writer, runner, taken, cancelled>>
      /\ \A m \in RunIds \ {n} : worker'[m] = worker[m]
      /\ WipePending' <=> WipePending
  BY DEF WorkerEnd, WorkerComplete, WorkerFail, WorkerAbandon, WorkerUnregister,
         Leave, TypeOK, RunTypeOK, ResultsInv, WipePending
<1>1. CASE UNCHANGED vstore
  <2>1. activeRun = n /\ worker[n] = "checking" => WipePending
    <3>1. n # NoRun
      BY BoundAssumption DEF RunIds, NoRun
    <3> QED
      BY <1>1, <3>1
         DEF WorkerEnd, WorkerComplete, WorkerFail, WorkerAbandon, CompleteRun,
             Publish, FailRun, WorkerUnregister, vstore, RunsInv, CancelledWillBeWiped
  <2> QED
    BY <1>0, <1>1, <2>1
       DEF ResultsInv, CancelledNeverKept, RunningHasAWorker, vstore, TypeOK,
           ResultTypeOK
<1>2. CASE WorkerComplete(n) /\ activeRun = n /\ ~UNCHANGED vstore
  <2>1. PICK found \in MayHaveFound(n) : CompleteRun(n, found)
    BY <1>2 DEF WorkerComplete
  <2>2. entities' = found /\ resultRun' = n /\ status' = "ready"
    BY <1>2, <2>1 DEF CompleteRun, Publish
  <2>3. found \subseteq taken[n] /\ (n \in cancelled => WipePending)
    BY <1>2, <2>1 DEF MayHaveFound, RunsInv, CancelledWillBeWiped
  <2> QED
    BY <1>0, <2>2, <2>3 DEF ResultsInv, CancelledNeverKept, RunningHasAWorker
<1>3. CASE WorkerFail(n) /\ activeRun = n /\ ~UNCHANGED vstore
  <2>1. status' = "error" /\ UNCHANGED <<hasResult, resultRun, entities>>
    BY <1>3 DEF WorkerFail, FailRun
  <2> QED
    BY <1>0, <2>1 DEF ResultsInv, CancelledNeverKept, RunningHasAWorker
<1> QED
  BY <1>1, <1>2, <1>3
     DEF WorkerEnd, WorkerComplete, WorkerFail, WorkerAbandon, WorkerUnregister,
         CompleteRun, FailRun

-----------------------------------------------------------------------------
(* The first theorems. *)

LEMMA InitCore ==
  ASSUME Init
  PROVE  Core
<1> USE DEF Init
<1>1. PICK st \in {"idle", "disabled"} : VStoreInit(st)
  OBVIOUS
<1> USE DEF VStoreInit, NoRun, NoTime
<1>2. ResultTypeOK
  <2>1. status \in Statuses
    BY <1>1 DEF Statuses
  <2>2. hasResult \in BOOLEAN /\ stale \in BOOLEAN
    BY <1>1
  <2>3. activeRun \in RunIds \cup {NoRun} /\ resultRun \in RunIds \cup {NoRun}
    BY <1>1
  <2>4. runStartedAt \in 0..MaxClock /\ telemetryAt \in 0..MaxClock
    BY <1>1, BoundAssumption
  <2>5. entities \subseteq Stamps
    BY <1>1
  <2> QED
    BY <2>1, <2>2, <2>3, <2>4, <2>5 DEF ResultTypeOK
<1>3. TelemetryTypeOK
  BY BoundAssumption DEF TelemetryTypeOK, TStoreInit, EmptyRings
<1>4. WriterTypeOK /\ RunnerTypeOK
  BY BoundAssumption DEF WriterTypeOK, WriterPCs, IdleWriter, RunnerTypeOK,
                         RunnerPCs, IdleRunner
<1>5. RunTypeOK
  BY BoundAssumption DEF RunTypeOK
<1>6. RunsInv
  BY <1>1 DEF RunsInv, RunnersCarry, CarriesUnstarted, Carries, CarriedOnce,
              IdleRunner, Unstarted, Unissued, DisabledIsEmpty, RunIds,
              CancelledWillBeWiped
<1>7. ResultsInv
  BY <1>1 DEF ResultsInv, CancelledNeverKept, RunningHasAWorker
<1> QED
  BY <1>2, <1>3, <1>4, <1>5, <1>6, <1>7 DEF Core, TypeOK

LEMMA CoreStep ==
  ASSUME Core, [Next]_vars
  PROVE  Core'
<1>1. CASE UNCHANGED vars
  <2> USE <1>1 DEF Core, vars, vstore, mvars
  <2>1. TypeOK'
    BY TypeStep DEF RunsInv
  <2>2. WipePending => WipePending'
    BY DEF WipePending
  <2>3. RunsInv'
    BY <2>2, UntouchedRuns
  <2>4. ResultsInv'
    BY <2>2, UntouchedResults
  <2> QED
    BY <2>1, <2>3, <2>4
<1>2. CASE Next
  <2> USE DEF Core
  <2>1. TypeOK'
    BY TypeStep DEF RunsInv
  <2>2. RunsInv'
    BY <1>2, WriterRunsStep, RunnerRunsStep, WorkerRunsStep DEF Next
  <2>3. ResultsInv'
    BY <1>2, WriterResultsStep, RunnerResultsStep, WorkerResultsStep DEF Next
  <2> QED
    BY <2>1, <2>2, <2>3
<1> QED
  BY <1>1, <1>2

LEMMA CoreHolds == Spec => []Core
<1>1. Init => Core
  BY InitCore
<1>2. Core /\ [Next]_vars => Core'
  BY CoreStep
<1> QED
  BY <1>1, <1>2, PTL DEF Spec

\* Every state the observer reaches is one its types allow: in particular no
\* run is started, snapshotted or registered that Manager.Run did not number.
THEOREM TypeCorrect == Spec => []TypeOK
<1>1. Core => TypeOK
  BY DEF Core
<1> QED
  BY <1>1, CoreHolds, PTL

\* A retained result names nothing outside the snapshot of its run, and that of
\* a run somebody cancelled is about to be wiped: a weaver killed by a reset, or
\* by a run that found weaver gone, leaves no result behind (cancelActiveRun,
\* executeRun, Store.Clear).
THEOREM CancelledIsWiped == Spec => []CancelledNeverKept
<1>1. Core => CancelledNeverKept
  BY DEF Core, ResultsInv
<1> QED
  BY <1>1, CoreHolds, PTL

\* A validation reported as running has a goroutine that will end it.
THEOREM RunningIsEnded == Spec => []RunningHasAWorker
<1>1. Core => RunningHasAWorker
  BY DEF Core, ResultsInv
<1> QED
  BY <1>1, CoreHolds, PTL

-----------------------------------------------------------------------------
(* Refinement: the run life cycle implements the ledger. *)

LEMMA SameUndecided ==
  ASSUME NEW r \in Runners, runner[r].pc # "start", runner'[r].pc # "start",
         \A q \in Runners \ {r} : runner'[q] = runner[q]
  PROVE  Undecided' = Undecided
BY DEF Undecided

LEMMA OneMoreUndecided ==
  ASSUME NEW r \in Runners, runner[r].pc # "start", runner'[r].pc = "start",
         \A q \in Runners \ {r} : runner'[q] = runner[q]
  PROVE  Undecided' = Undecided \cup {runner'[r].run}
BY DEF Undecided

LEMMA OneLessUndecided ==
  ASSUME CarriedOnce, NEW r \in Runners, runner[r].pc = "start",
         runner'[r].pc # "start",
         \A q \in Runners \ {r} : runner'[q] = runner[q]
  PROVE  Undecided' = Undecided \ {runner[r].run}
BY DEF Undecided, CarriedOnce, Carries

LEMMA WriterFollowsLedger ==
  ASSUME NEW w \in Writers, WriterStep(w)
  PROVE  [Ledger!LNext]_<<runSeq, Undecided, activeRun, resultRun>>
<1>1. CASE ResetWipe(w)
  BY <1>1 DEF ResetWipe, ClearResult, ForgetEverything, mvars, Undecided,
              Ledger!LNext, Ledger!Wipe, Ledger!None, NoRun
<1>2. CASE UNCHANGED <<runSeq, runner, activeRun, resultRun>>
  BY <1>2 DEF Undecided
<1> QED
  BY <1>1, <1>2 DEF WriterStep, AddTelemetry, ClearAll, Evict, ResetCancel, Mark,
                    MarkTelemetryChanged, vstore, mvars

LEMMA RunnerFollowsLedger ==
  ASSUME Core, NEW r \in Runners, RunnerStep(r)
  PROVE  [Ledger!LNext]_<<runSeq, Undecided, activeRun, resultRun>>
<1>0. RunnerTypeOK /\ runSeq \in Nat
  BY BoundAssumption DEF Core, TypeOK, RunTypeOK
<1>1. CASE UNCHANGED <<runSeq, activeRun, resultRun>> /\ runner[r].pc # "start"
           /\ \E pc \in RunnerPCs \ {"start"} : Goto(r, pc)
  BY <1>0, <1>1, GotoEffect, SameUndecided
<1>2. CASE RunMissingDisable(r)
  <2>1. Undecided' = Undecided
    BY <1>0, <1>2, GotoEffect, SameUndecided DEF RunMissingDisable
  <2> QED
    BY <1>2, <2>1 DEF RunMissingDisable, SetRuntimeStatus, ForgetEverything,
                      Ledger!LNext, Ledger!Wipe, Ledger!None, NoRun
<1>3. CASE RunStamp(r)
  <2>1. /\ runner'[r].pc = "start" /\ runner'[r].run = runSeq + 1
        /\ \A q \in Runners \ {r} : runner'[q] = runner[q]
    BY <1>0, <1>3 DEF RunStamp, RunnerTypeOK
  <2>2. Undecided' = Undecided \cup {runSeq + 1}
    BY <1>3, <2>1, OneMoreUndecided DEF RunStamp
  <2> QED
    BY <1>3, <2>2 DEF RunStamp, vstore, Ledger!LNext, Ledger!Issue
<1>4. CASE RunStart(r)
  <2> DEFINE n == runner[r].run
  <2>1. n \in 1..MaxRuns /\ n \in Undecided
    BY <1>4 DEF RunStart, Core, RunsInv, RunnersCarry, CarriesUnstarted, Carries,
                RunIds, Undecided
  <2>2. Undecided' = Undecided \ {n}
    <3>1. /\ runner[r].pc = "start" /\ runner'[r].pc # "start"
          /\ \A q \in Runners \ {r} : runner'[q] = runner[q]
      BY <1>0, <1>4 DEF RunStart, Goto, IdleRunner, RunnerTypeOK
    <3> QED
      BY <3>1, OneLessUndecided DEF Core, RunsInv
  <2>3. CASE StartRun(n, runner[r].at)
    <3>1. Ledger!Open(n)
      BY <1>4, <2>1, <2>2, <2>3 DEF StartRun, RunStart, Ledger!Open
    <3> QED
      BY <2>1, <3>1 DEF Ledger!LNext
  <2>4. CASE ~MayStart /\ UNCHANGED vstore
    <3>1. activeRun # NoRun \/ (activeRun = NoRun /\ resultRun = NoRun)
      BY <2>4 DEF MayStart, Core, RunsInv, DisabledIsEmpty
    <3>2. Ledger!Refuse(n) \/ Ledger!RefuseDisabled(n)
      BY <1>4, <2>1, <2>2, <2>4, <3>1
         DEF RunStart, vstore, Ledger!Refuse, Ledger!RefuseDisabled, Ledger!None,
             NoRun
    <3> QED
      BY <2>1, <3>2 DEF Ledger!LNext
  <2> QED
    BY <1>4, <2>3, <2>4 DEF RunStart
<1>5. CASE RunReturn(r)
  <2>1. Undecided' = Undecided
    BY <1>0, <1>5, SameUndecided DEF RunReturn, IdleRunner, RunnerTypeOK
  <2> QED
    BY <1>5, <2>1 DEF RunReturn, vstore
<1>6. CASE RunBegin(r) \/ RunMissingCancel(r) \/ RunEnable(r) \/ RunTake(r)
           \/ RunRegister(r)
  BY <1>1, <1>6 DEF RunBegin, RunMissingCancel, RunEnable, RunTake, RunRegister,
                    SetRuntimeStatus, vstore, RunnerPCs
<1> QED
  BY <1>2, <1>3, <1>4, <1>5, <1>6 DEF RunnerStep

LEMMA WorkerFollowsLedger ==
  ASSUME NEW n \in RunIds, WorkerEnd(n) \/ WorkerUnregister(n)
  PROVE  [Ledger!LNext]_<<runSeq, Undecided, activeRun, resultRun>>
<1>1. UNCHANGED <<runSeq, Undecided>> /\ n # NoRun
  BY BoundAssumption DEF WorkerEnd, WorkerComplete, WorkerFail, WorkerAbandon,
        WorkerUnregister, Leave, Undecided, RunIds, NoRun
<1>2. CASE UNCHANGED vstore
  BY <1>1, <1>2 DEF vstore
<1>3. CASE activeRun = n /\ \E found \in MayHaveFound(n) : CompleteRun(n, found)
  BY <1>1, <1>3 DEF CompleteRun, Publish, vstore, Ledger!LNext, Ledger!Publish,
                    Ledger!None, NoRun
<1>4. CASE activeRun = n /\ FailRun(n)
  BY <1>1, <1>4 DEF FailRun, vstore, Ledger!LNext, Ledger!Fail, Ledger!None, NoRun
<1> QED
  BY <1>2, <1>3, <1>4 DEF WorkerEnd, WorkerComplete, WorkerFail, WorkerAbandon,
                          WorkerUnregister, CompleteRun, FailRun

LEMMA StepFollowsLedger ==
  ASSUME Core, [Next]_vars
  PROVE  [Ledger!LNext]_<<runSeq, Undecided, activeRun, resultRun>>
<1>1. CASE UNCHANGED vars
  BY <1>1 DEF vars, vstore, mvars, Undecided
<1> QED
  BY <1>1, WriterFollowsLedger, RunnerFollowsLedger, WorkerFollowsLedger DEF Next

LEMMA InitFollowsLedger ==
  ASSUME Init
  PROVE  Ledger!LInit
BY DEF Init, VStoreInit, Ledger!LInit, Ledger!None, NoRun, Undecided, IdleRunner

\* Manager and result store together implement the ledger: whatever callers,
\* resets, late workers and disabled runtimes do, only the admitted run
\* publishes, it publishes once, and what a reset wiped stays wiped.
THEOREM FollowsLedger == Spec => RunsFollowLedger
<1>1. Init => Ledger!LInit
  BY InitFollowsLedger
<1>2. Core /\ [Next]_vars => [Ledger!LNext]_<<runSeq, Undecided, activeRun, resultRun>>
  BY StepFollowsLedger
<1> QED
  BY <1>1, <1>2, CoreHolds, PTL DEF Spec, RunsFollowLedger, Ledger!LSpec, Ledger!lvars

-----------------------------------------------------------------------------
(* Invalidated telemetry. *)

LEMMA RetainedAfterIngest ==
  ASSUME TelemetryTypeOK, NEW sig \in Signals, NEW rec, NEW lapsed \in BOOLEAN,
         Ingest(sig, rec, lapsed)
  PROVE  Retained' \subseteq (IF lapsed THEN {} ELSE Retained) \cup {rec}
<1>1. /\ rings' = [Before(lapsed) EXCEPT ![sig] = Push(@, rec)]
      /\ Before(lapsed) \in [Signals -> SUBSET Records]
      /\ \A s \in Signals : Before(lapsed)[s] = IF lapsed THEN {} ELSE rings[s]
  BY DEF Ingest, Before, EmptyRings, TelemetryTypeOK
<1>2. Push(Before(lapsed)[sig], rec) \subseteq Before(lapsed)[sig] \cup {rec}
  BY DEF Push
<1>3. \A s \in Signals : rings'[s] \subseteq Before(lapsed)[s] \cup {rec}
  BY <1>1, <1>2
<1> QED
  BY <1>1, <1>3 DEF Retained

LEMMA RetainedAfterEvict ==
  ASSUME NEW conn, EvictConnection(conn)
  PROVE  Retained' = Retained \ Owned(conn)
BY DEF EvictConnection, Retained

LEMMA RetainedAfterClear ==
  ASSUME ClearTelemetry
  PROVE  Retained' = {}
BY DEF ClearTelemetry, EmptyRings, Retained

LEMMA SameStamps ==
  ASSUME StampsAreFresh, UNCHANGED <<rings, invalidated>>,
         clock \in Nat, clock' \in Nat, clock <= clock', TelemetryTypeOK
  PROVE  StampsAreFresh'
<1>1. /\ \A x \in Retained : x.at \in Nat
      /\ \A t \in invalidated : t \in Nat
  BY StampsOfRecords DEF TelemetryTypeOK, Records, Stamps
<1>2. Retained' = Retained
  BY DEF Retained
<1> QED
  BY <1>1, <1>2 DEF StampsAreFresh

LEMMA WriterStampsStep ==
  ASSUME TypeOK, StampsAreFresh, NEW w \in Writers, WriterStep(w)
  PROVE  StampsAreFresh'
<1>0. /\ TelemetryTypeOK /\ clock \in Nat
      /\ \A x \in Retained : x.at \in Nat
      /\ invalidated \subseteq Nat
  BY StampsOfRecords, BoundAssumption DEF TypeOK, TelemetryTypeOK, Records, Stamps
<1>1. ASSUME NEW sig \in Signals, NEW conn \in Conns \cup {NoConn},
             NEW app \in BOOLEAN, NEW lapsed \in BOOLEAN,
             AddTelemetry(w, sig, conn, app, lapsed)
      PROVE  StampsAreFresh'
  <2> DEFINE rec == [at |-> clock + 1, conn |-> conn, app |-> app]
  <2>1. /\ clock' = clock + 1
        /\ invalidated' = invalidated \cup (IF lapsed THEN AllStamps ELSE {})
        /\ Ingest(sig, rec, lapsed)
    BY <1>1 DEF AddTelemetry
  <2>2. rec.at = clock + 1
    OBVIOUS
  <2> HIDE DEF rec
  <2>3. Retained' \subseteq (IF lapsed THEN {} ELSE Retained) \cup {rec}
    BY <1>0, <2>1, RetainedAfterIngest
  <2>4. \A t \in invalidated' : t \in Nat /\ t <= clock
    BY <1>0, <2>1 DEF StampsAreFresh, AllStamps
  <2>5. \A x \in Retained' : x = rec \/ (~lapsed /\ x \in Retained)
    BY <2>3
  <2>6. \A x \in Retained' : x.at <= clock' /\ x.at \notin invalidated'
    BY <1>0, <2>1, <2>2, <2>4, <2>5 DEF StampsAreFresh
  <2>7. \A x, y \in Retained' : x.at = y.at => x = y
    BY <1>0, <2>2, <2>5 DEF StampsAreFresh
  <2>8. \A t \in invalidated' : t <= clock'
    BY <1>0, <2>1, <2>4
  <2> QED
    BY <2>6, <2>7, <2>8 DEF StampsAreFresh
<1>2. CASE ClearAll(w)
  BY <1>0, <1>2, RetainedAfterClear DEF ClearAll, StampsAreFresh, AllStamps
<1>3. ASSUME NEW conn \in Conns, Evict(w, conn) PROVE StampsAreFresh'
  <2>1. /\ clock' = clock /\ Retained' = Retained \ Owned(conn)
        /\ invalidated' = invalidated \cup {rec.at : rec \in Owned(conn)}
        /\ Owned(conn) \subseteq Retained
    BY <1>3, RetainedAfterEvict DEF Evict, Owned
  <2> QED
    BY <2>1 DEF StampsAreFresh
<1>4. CASE ResetCancel(w) \/ ResetWipe(w) \/ Mark(w)
  BY <1>0, <1>4, SameStamps DEF ResetCancel, ResetWipe, Mark, tstore
<1> QED
  BY <1>1, <1>2, <1>3, <1>4 DEF WriterStep

LEMMA StampsStep ==
  ASSUME TypeOK, StampsAreFresh, [Next]_vars
  PROVE  StampsAreFresh'
<1>0. clock \in Nat /\ TelemetryTypeOK
  BY BoundAssumption DEF TypeOK, TelemetryTypeOK
<1>1. CASE UNCHANGED <<tstore, invalidated>> /\ clock' \in {clock, clock + 1}
  BY <1>0, <1>1, SameStamps DEF tstore
<1>2. ASSUME NEW r \in Runners, RunnerStep(r) PROVE StampsAreFresh'
  BY <1>1, <1>2
     DEF RunnerStep, RunBegin, RunMissingCancel, RunMissingDisable, RunEnable,
         RunStamp, RunStart, RunTake, RunRegister, RunReturn
<1>3. ASSUME NEW n \in RunIds, WorkerEnd(n) \/ WorkerUnregister(n)
      PROVE  StampsAreFresh'
  BY <1>1, <1>3 DEF WorkerEnd, WorkerComplete, WorkerFail, WorkerAbandon, Leave,
                    WorkerUnregister
<1> QED
  BY <1>1, <1>2, <1>3, WriterStampsStep DEF Next, vars

LEMMA ResetStaysOwed ==
  ASSUME NEW w \in Writers, writer[w].pc \notin {"cancel", "wipe"},
         \A v \in Writers \ {w} : writer'[v] = writer[v]
  PROVE  ResetOwed => ResetOwed'
BY DEF ResetOwed

LEMMA NothingNewInvalidated ==
  ASSUME NothingInvalidated, ResetOwed => ResetOwed',
         UNCHANGED <<hasResult, activeRun, entities, taken, invalidated>>
  PROVE  NothingInvalidated'
BY DEF NothingInvalidated

LEMMA WriterInvalidatedStep ==
  ASSUME TypeOK, NothingInvalidated, NEW w \in Writers, WriterStep(w)
  PROVE  NothingInvalidated'
<1>0. WriterTypeOK
  BY DEF TypeOK
<1>1. CASE ResetOwed'
  BY <1>1 DEF NothingInvalidated
<1>2. CASE /\ writer[w].pc \notin {"cancel", "wipe"}
           /\ UNCHANGED <<hasResult, activeRun, entities, taken, invalidated>>
  BY <1>2, WriterLeavesOthers, ResetStaysOwed, NothingNewInvalidated
<1>3. ASSUME NEW sig \in Signals, NEW conn \in Conns \cup {NoConn},
             NEW app \in BOOLEAN, NEW lapsed \in BOOLEAN,
             AddTelemetry(w, sig, conn, app, lapsed)
      PROVE  NothingInvalidated'
  <2>1. CASE lapsed
    BY <1>0, <1>1, <1>3, <2>1 DEF AddTelemetry, Owes, WriterTypeOK, ResetOwed
  <2>2. CASE ~lapsed
    BY <1>2, <1>3, <2>2 DEF AddTelemetry, vstore, mvars
  <2> QED
    BY <2>1, <2>2
<1>4. CASE ClearAll(w)
  BY <1>0, <1>1, <1>4 DEF ClearAll, Owes, WriterTypeOK, ResetOwed
<1>5. ASSUME NEW conn \in Conns, Evict(w, conn) PROVE NothingInvalidated'
  <2>1. CASE Owned(conn) # {}
    BY <1>0, <1>1, <1>5, <2>1 DEF Evict, Owes, WriterTypeOK, ResetOwed
  <2>2. CASE Owned(conn) = {}
    BY <1>2, <1>5, <2>2 DEF Evict, vstore, mvars
  <2> QED
    BY <2>1, <2>2
<1>6. CASE ResetCancel(w)
  BY <1>0, <1>1, <1>6 DEF ResetCancel, WriterTypeOK, ResetOwed
<1>7. CASE ResetWipe(w)
  BY <1>7 DEF ResetWipe, ClearResult, ForgetEverything, NothingInvalidated
<1>8. CASE Mark(w)
  BY <1>2, <1>8 DEF Mark, MarkTelemetryChanged, mvars
<1> QED
  BY <1>3, <1>4, <1>5, <1>6, <1>7, <1>8 DEF WriterStep

LEMMA AppStampsAreValid ==
  ASSUME StampsAreFresh
  PROVE  AppStamps \cap invalidated = {}
BY DEF StampsAreFresh, AppStamps

LEMMA RunnerInvalidatedStep ==
  ASSUME Core, StampsAreFresh, NothingInvalidated, NEW r \in Runners, RunnerStep(r)
  PROVE  NothingInvalidated'
<1>0. /\ UNCHANGED <<writer, invalidated>>
      /\ ResetOwed' <=> ResetOwed
  BY DEF RunnerStep, RunBegin, RunMissingCancel, RunMissingDisable, RunEnable,
         RunStamp, RunStart, RunTake, RunRegister, RunReturn, ResetOwed
<1>1. CASE UNCHANGED <<hasResult, activeRun, entities, taken>>
  BY <1>0, <1>1, NothingNewInvalidated
<1>2. CASE RunMissingDisable(r)
  BY <1>2 DEF RunMissingDisable, SetRuntimeStatus, ForgetEverything,
              NothingInvalidated
<1>3. CASE RunStart(r) /\ StartRun(runner[r].run, runner[r].at)
  <2>1. taken[runner[r].run] = {}
    BY <1>3 DEF RunStart, Core, RunsInv, RunnersCarry, CarriesUnstarted, Carries
  <2> QED
    BY <1>0, <1>3, <2>1 DEF RunStart, StartRun, NothingInvalidated
<1>4. CASE RunTake(r)
  <2>1. /\ UNCHANGED vstore
        /\ \A n \in RunIds : taken'[n] \in {taken[n], AppStamps}
    BY <1>4 DEF RunTake, Core, TypeOK, RunTypeOK
  <2>2. activeRun \in RunIds \cup {NoRun}
    BY DEF Core, TypeOK, ResultTypeOK
  <2> QED
    BY <1>0, <2>1, <2>2, AppStampsAreValid DEF vstore, NothingInvalidated
<1> QED
  BY <1>1, <1>2, <1>3, <1>4
     DEF RunnerStep, RunBegin, RunMissingCancel, RunEnable, RunStamp, RunStart,
         RunRegister, RunReturn, SetRuntimeStatus, vstore

LEMMA WorkerInvalidatedStep ==
  ASSUME Core, NothingInvalidated, NEW n \in RunIds,
         WorkerEnd(n) \/ WorkerUnregister(n)
  PROVE  NothingInvalidated'
<1>0. /\ UNCHANGED <<writer, invalidated, taken>>
      /\ ResetOwed' <=> ResetOwed
  BY DEF WorkerEnd, WorkerComplete, WorkerFail, WorkerAbandon, Leave,
         WorkerUnregister, ResetOwed
<1>1. CASE UNCHANGED vstore
  BY <1>0, <1>1, NothingNewInvalidated DEF vstore
<1>2. ASSUME activeRun = n, NEW found \in MayHaveFound(n), CompleteRun(n, found),
             ~UNCHANGED vstore
      PROVE  NothingInvalidated'
  <2>1. found \subseteq taken[n] /\ n # NoRun
    BY BoundAssumption DEF MayHaveFound, RunIds, NoRun
  <2>2. entities' = found /\ activeRun' = NoRun
    BY <1>2 DEF CompleteRun, Publish
  <2> QED
    BY <1>0, <1>2, <2>1, <2>2 DEF NothingInvalidated
<1>3. CASE activeRun = n /\ FailRun(n) /\ ~UNCHANGED vstore
  BY <1>0, <1>3 DEF FailRun, NothingInvalidated
<1> QED
  BY <1>1, <1>2, <1>3 DEF WorkerEnd, WorkerComplete, WorkerFail, WorkerAbandon,
                          WorkerUnregister, CompleteRun, FailRun

LEMMA InvalidatedStep ==
  ASSUME Core, StampsAreFresh, NothingInvalidated, [Next]_vars
  PROVE  NothingInvalidated'
<1>1. CASE UNCHANGED vars
  BY <1>1, NothingNewInvalidated DEF vars, vstore, mvars, ResetOwed
<1> QED
  BY <1>1, WriterInvalidatedStep, RunnerInvalidatedStep, WorkerInvalidatedStep
     DEF Next, Core

LEMMA InitInvalidated ==
  ASSUME Init
  PROVE  StampsAreFresh /\ NothingInvalidated
BY DEF Init, VStoreInit, TStoreInit, EmptyRings, Retained, StampsAreFresh,
       NothingInvalidated

\* A result is never about telemetry the user cleared, a lapsed session or a
\* closed connection, once the reset those mutations owe has run, however many
\* runs, resets and writers overlap.
THEOREM InvalidatedIsNeverShown == Spec => []InvalidatedNeverShown
<1>1. Init => IInv
  BY InitCore, InitInvalidated DEF IInv
<1>2. IInv /\ [Next]_vars => IInv'
  BY CoreStep, StampsStep, InvalidatedStep DEF IInv, Core
<1>3. IInv => InvalidatedNeverShown
  BY DEF IInv, NothingInvalidated, InvalidatedNeverShown, Settled, IdleWriter, ResetOwed
<1> QED
  BY <1>1, <1>2, <1>3, PTL DEF Spec

-----------------------------------------------------------------------------
(* A result shown as current.  A change of the telemetry after the snapshot  *)
(* of a run leaves behind a retained record younger than the run, and a      *)
(* report of the change that is either still owed or has been made.  What    *)
(* that report does depends on whether the run has published meanwhile.      *)

TimesAreOrdered ==
  /\ runStartedAt <= clock
  /\ \A r \in Runners : runner[r].at <= clock
  /\ \A w \in Writers : writer[w].pc = "mark" => writer[w].at # 0

\* A retained record is younger than the latest run that was admitted.
Younger == \E t \in AllStamps : t > runStartedAt

ReportOwed == \E w \in Writers : writer[w].pc = "mark"

\* The active run has its snapshot.
HasTaken(n) ==
  worker[n] = "checking" \/ \E r \in Runners : runner[r].run = n /\ runner[r].pc = "register"

\* Before the active run publishes.
ChangeIsNoticed ==
  activeRun # NoRun /\ HasTaken(activeRun) =>
    \/ taken[activeRun] = AppStamps \/ ResetOwed
    \/ Younger /\ (ReportOwed \/ telemetryAt # NoTime)

\* After it has published without being marked stale.
ChangeWillBeNoticed ==
  ShownFresh =>
    \/ taken[resultRun] = AppStamps \/ ResetOwed
    \/ Younger /\ (ReportOwed \/ (telemetryAt # NoTime /\ telemetryAt <= runStartedAt))

FreshInv == TimesAreOrdered /\ ChangeIsNoticed /\ ChangeWillBeNoticed


LEMMA NotShownFresh ==
  ASSUME TimesAreOrdered', activeRun' = NoRun, ~hasResult'
  PROVE  FreshInv'
BY DEF FreshInv, ChangeIsNoticed, ChangeWillBeNoticed, ShownFresh

\* What an ingest does to the stamps.
LEMMA StampsAfterIngest ==
  ASSUME TypeOK, NEW sig \in Signals, NEW rec, NEW lapsed \in BOOLEAN, Ingest(sig, rec, lapsed)
  PROVE  /\ rec.at \in AllStamps'
         /\ ~lapsed /\ ~rec.app /\ ~Changes(sig, rec.app, lapsed) => AppStamps' = AppStamps
<1> DEFINE old == Overwritten(Before(lapsed)[sig])
<1>1. /\ rings' = [Before(lapsed) EXCEPT ![sig] = (@ \ old) \cup {rec}]
      /\ Before(lapsed) \in [Signals -> SUBSET Records]
      /\ lapsed \/ Before(lapsed) = rings
  BY DEF Ingest, Push, Before, EmptyRings, TypeOK, TelemetryTypeOK
<1> HIDE DEF old
<1>2. rec.at \in AllStamps'
  BY <1>1 DEF AllStamps, Retained
<1>3. ASSUME ~lapsed, ~rec.app, \A x \in old : ~x.app PROVE AppStamps' = AppStamps
  <2>1. \A s \in Signals : rings'[s] = IF s = sig THEN (rings[s] \ old) \cup {rec} ELSE rings[s]
    BY <1>1, <1>3
  <2>2. {x \in Retained' : x.app} = {x \in Retained : x.app}
    BY <1>3, <2>1 DEF Retained
  <2> QED
    BY <2>2 DEF AppStamps
<1> QED
  BY <1>2, <1>3 DEF Changes, old

LEMMA TimesStay ==
  ASSUME TypeOK, TimesAreOrdered, UNCHANGED <<runner, runStartedAt>>, clock' \in {clock, clock + 1},
         \A w \in Writers : writer'[w].pc = "mark" => writer'[w].at # 0
  PROVE  TimesAreOrdered'
<1>1. clock \in Nat /\ runStartedAt \in Nat /\ \A r \in Runners : runner[r].at \in Nat
  BY BoundAssumption DEF TypeOK, TelemetryTypeOK, ResultTypeOK, RunnerTypeOK
<1> QED
  BY <1>1 DEF TimesAreOrdered

\* A writer's step that is neither a change nor a reset.
LEMMA QuietWriter ==
  ASSUME FreshInv, TimesAreOrdered', NEW w \in Writers, writer[w].pc = "idle",
         \A v \in Writers \ {w} : writer'[v] = writer[v],
         UNCHANGED <<vstore, mvars>>, AppStamps' = AppStamps, Younger => Younger'
  PROVE  FreshInv'
<1>1. /\ ResetOwed => ResetOwed'
      /\ ReportOwed => ReportOwed'
  BY DEF ResetOwed, ReportOwed, mvars
<1>2. \A n : HasTaken(n)' <=> HasTaken(n)
  BY DEF HasTaken, mvars
<1> QED
  BY <1>1, <1>2 DEF FreshInv, ChangeIsNoticed, ChangeWillBeNoticed, ShownFresh, vstore, mvars

LEMMA WriterFreshStep ==
  ASSUME TypeOK, FreshInv, NEW w \in Writers, WriterStep(w)
  PROVE  FreshInv'
<1>0. /\ WriterTypeOK /\ clock \in Nat /\ runStartedAt \in Nat /\ runStartedAt <= clock
  BY BoundAssumption DEF TypeOK, TelemetryTypeOK, ResultTypeOK, FreshInv, TimesAreOrdered
<1>1. TimesAreOrdered' /\ ResetOwed' => FreshInv'
  BY DEF FreshInv, ChangeIsNoticed, ChangeWillBeNoticed
<1>2. ASSUME NEW sig \in Signals, NEW conn \in Conns \cup {NoConn},
             NEW app \in BOOLEAN, NEW lapsed \in BOOLEAN,
             AddTelemetry(w, sig, conn, app, lapsed)
      PROVE  FreshInv'
  <2> DEFINE rec == [at |-> clock + 1, conn |-> conn, app |-> app]
             change == Changes(sig, app, lapsed)
  <2>1. /\ rec.at = clock + 1 /\ rec.app = app
        /\ Ingest(sig, rec, lapsed) /\ clock' = clock + 1
        /\ Owes(w, lapsed, IF change THEN clock + 1 ELSE 0)
        /\ writer[w].pc = "idle" /\ UNCHANGED <<vstore, mvars>>
    BY <1>2 DEF AddTelemetry
  <2> HIDE DEF rec, change
  <2>2. /\ writer'[w].pc = IF lapsed THEN "cancel" ELSE IF change THEN "mark" ELSE "idle"
        /\ change => writer'[w].at # 0
        /\ \A v \in Writers \ {w} : writer'[v] = writer[v]
    BY <1>0, <2>1 DEF Owes, WriterTypeOK
  <2>3. TimesAreOrdered'
    <3>1. \A v \in Writers : writer'[v].pc = "mark" => writer'[v].at # 0
      BY <2>2 DEF FreshInv, TimesAreOrdered
    <3> QED
      BY <2>1, <3>1, TimesStay DEF vstore, mvars, FreshInv
  <2>4. Younger'
    <3>1. clock + 1 \in AllStamps'
      BY <2>1, StampsAfterIngest
    <3> QED
      BY <1>0, <2>1, <3>1 DEF Younger, vstore
  <2>5. CASE lapsed
    BY <1>1, <2>2, <2>3, <2>5 DEF ResetOwed
  <2>6. CASE ~lapsed /\ change
    <3>1. ReportOwed'
      BY <2>2, <2>6 DEF ReportOwed
    <3> QED
      BY <2>3, <2>4, <3>1 DEF FreshInv, ChangeIsNoticed, ChangeWillBeNoticed
  <2>7. CASE ~lapsed /\ ~change
    <3>1. ~rec.app
      BY <2>1, <2>7 DEF Changes, change
    <3>2. AppStamps' = AppStamps
      BY <2>1, <2>7, <3>1, StampsAfterIngest DEF change
    <3> QED
      BY <2>1, <2>2, <2>3, <2>4, <3>2, QuietWriter
  <2> QED
    BY <2>5, <2>6, <2>7
<1>3. CASE ClearAll(w)
  <2>1. /\ writer'[w].pc = "cancel" /\ UNCHANGED <<vstore, mvars, clock>>
        /\ \A v \in Writers \ {w} : writer'[v] = writer[v]
    BY <1>0, <1>3 DEF ClearAll, Owes, WriterTypeOK
  <2>2. TimesAreOrdered'
    BY <2>1, TimesStay DEF vstore, mvars, FreshInv, TimesAreOrdered
  <2> QED
    BY <1>1, <2>1, <2>2 DEF ResetOwed
<1>4. ASSUME NEW conn \in Conns, Evict(w, conn) PROVE FreshInv'
  <2>1. /\ writer'[w].pc = (IF Owned(conn) # {} THEN "cancel" ELSE "idle")
        /\ UNCHANGED <<vstore, mvars, clock>> /\ writer[w].pc = "idle"
        /\ \A v \in Writers \ {w} : writer'[v] = writer[v]
    BY <1>0, <1>4 DEF Evict, Owes, WriterTypeOK
  <2>2. TimesAreOrdered'
    BY <2>1, TimesStay DEF vstore, mvars, FreshInv, TimesAreOrdered
  <2>3. CASE Owned(conn) # {}
    BY <1>1, <2>1, <2>2, <2>3 DEF ResetOwed
  <2>4. CASE Owned(conn) = {}
    <3>1. Retained' = Retained
      BY <1>4, <2>4, RetainedAfterEvict DEF Evict
    <3>2. AppStamps' = AppStamps /\ (Younger => Younger')
      BY <2>1, <3>1 DEF AppStamps, AllStamps, Younger, vstore
    <3> QED
      BY <2>1, <2>2, <3>2, QuietWriter
  <2> QED
    BY <2>3, <2>4
<1>5. CASE ResetCancel(w)
  <2>1. writer'[w].pc = "wipe" /\ \A v \in Writers \ {w} : writer'[v] = writer[v]
    BY <1>0, <1>5 DEF ResetCancel, WriterTypeOK
  <2>2. TimesAreOrdered'
    BY <1>5, <2>1, TimesStay DEF ResetCancel, vstore, FreshInv, TimesAreOrdered
  <2> QED
    BY <1>1, <2>1, <2>2 DEF ResetOwed
<1>6. CASE ResetWipe(w)
  <2>1. /\ \A v \in Writers : writer'[v].pc = "mark" => writer'[v].at # 0
        /\ UNCHANGED <<clock, runner>> /\ runStartedAt' = 0
    BY <1>0, <1>6 DEF ResetWipe, ClearResult, ForgetEverything, NoTime, mvars, WriterTypeOK, FreshInv, TimesAreOrdered
  <2>2. TimesAreOrdered'
    BY <1>0, <2>1 DEF FreshInv, TimesAreOrdered
  <2> QED
    BY <1>6, <2>2, NotShownFresh DEF ResetWipe, ClearResult, ForgetEverything
<1>7. CASE Mark(w)
  <2>1. /\ writer[w].pc = "mark" /\ writer[w].at # 0 /\ telemetryAt' = writer[w].at
        /\ writer'[w].pc = "idle" /\ \A v \in Writers \ {w} : writer'[v] = writer[v]
    BY <1>0, <1>7 DEF Mark, MarkTelemetryChanged, WriterTypeOK, IdleWriter, FreshInv, TimesAreOrdered
  <2>2. /\ UNCHANGED <<status, hasResult, activeRun, runStartedAt, entities, rings, clock, mvars>>
        /\ stale' = (stale \/ hasResult)
    BY <1>7 DEF Mark, MarkTelemetryChanged, tstore
  <2>3. TimesAreOrdered'
    BY <2>1, <2>2, TimesStay DEF mvars, FreshInv, TimesAreOrdered
  <2>4. /\ AppStamps' = AppStamps /\ (Younger => Younger') /\ (ResetOwed => ResetOwed')
        /\ \A n : HasTaken(n)' <=> HasTaken(n)
    BY <2>1, <2>2 DEF AppStamps, AllStamps, Retained, Younger, ResetOwed, HasTaken, mvars
  <2>5. ~ShownFresh'
    BY <2>2 DEF ShownFresh
  <2>6. ChangeIsNoticed'
    BY <2>1, <2>2, <2>4 DEF FreshInv, ChangeIsNoticed, NoTime, mvars
  <2> QED
    BY <2>3, <2>5, <2>6 DEF FreshInv, ChangeWillBeNoticed
<1> QED
  BY <1>2, <1>3, <1>4, <1>5, <1>6, <1>7 DEF WriterStep

LEMMA RunnerFreshStep ==
  ASSUME Core, FreshInv, NEW r \in Runners, RunnerStep(r)
  PROVE  FreshInv'
<1>0. /\ RunnerTypeOK /\ UNCHANGED <<writer, rings>> /\ clock \in Nat /\ clock' \in {clock, clock + 1}
      /\ \A q \in Runners \ {r} : runner'[q] = runner[q]
  BY BoundAssumption
     DEF RunnerStep, RunBegin, RunMissingCancel, RunMissingDisable, RunEnable, RunStamp, RunStart, RunTake,
         RunRegister, RunReturn, Goto, Core, TypeOK, RunnerTypeOK, TelemetryTypeOK, tstore
<1>1. /\ AppStamps' = AppStamps /\ AllStamps' = AllStamps /\ (ResetOwed' <=> ResetOwed)
      /\ (ReportOwed' <=> ReportOwed)
  BY <1>0 DEF AppStamps, AllStamps, Retained, ResetOwed, ReportOwed
<1>2. TimesAreOrdered'
  <2>0. \A q \in Runners : runner[q].at \in Nat
    BY <1>0, BoundAssumption DEF RunnerTypeOK
  <2>1. runner'[r].at \in {0, runner[r].at} \/ (runner'[r].at = clock + 1 /\ clock' = clock + 1)
    BY <1>0 DEF RunnerStep, RunBegin, RunMissingCancel, RunMissingDisable, RunEnable, RunStamp, RunStart, RunTake,
                RunRegister, RunReturn, Goto, RunnerTypeOK, IdleRunner
  <2>2. runStartedAt' \in {0, runStartedAt, runner[r].at} /\ runStartedAt \in Nat
    BY BoundAssumption
       DEF RunnerStep, RunBegin, RunMissingCancel, RunMissingDisable, RunEnable, RunStamp, RunStart, RunTake,
           RunRegister, RunReturn, StartRun, SetRuntimeStatus, ForgetEverything, vstore, NoTime, Core, TypeOK, ResultTypeOK
  <2> QED
    BY <1>0, <2>0, <2>1, <2>2 DEF FreshInv, TimesAreOrdered
<1>3. CASE RunMissingDisable(r)
  BY <1>2, <1>3, NotShownFresh DEF RunMissingDisable, SetRuntimeStatus, ForgetEverything
<1>5. CASE RunStart(r) /\ StartRun(runner[r].run, runner[r].at)
  <2>1. activeRun' = runner[r].run /\ status' = "running" /\ UNCHANGED worker /\ runner'[r].pc = "take"
    BY <1>0, <1>5 DEF RunStart, StartRun, Goto, RunnerTypeOK, MayStart, IdleRunner
  <2>2. Carries(r) /\ worker[runner[r].run] = "none"
    BY <1>5 DEF RunStart, Core, RunsInv, RunnersCarry, CarriesUnstarted, Carries
  <2>3. ~HasTaken(activeRun)'
    <3>1. \A q \in Runners : runner'[q].pc = "register" => q # r /\ runner[q].pc = "register" /\ runner'[q].run = runner[q].run
      BY <1>0, <2>1
    <3>2. \A q \in Runners : runner[q].pc = "register" /\ q # r => runner[q].run # runner[r].run
      BY <2>2 DEF Core, RunsInv, CarriedOnce, Carries
    <3> QED
      BY <2>1, <2>2, <3>1, <3>2 DEF HasTaken
  <2> QED
    BY <1>2, <2>1, <2>3 DEF FreshInv, ChangeIsNoticed, ChangeWillBeNoticed, ShownFresh
<1>6. CASE RunTake(r)
  <2>1. /\ UNCHANGED <<vstore, worker>> /\ taken' = [taken EXCEPT ![runner[r].run] = AppStamps]
        /\ runner'[r].run = runner[r].run
    BY <1>0, <1>6 DEF RunTake, Goto, RunnerTypeOK
  <2>2. HasTaken(activeRun)' => HasTaken(activeRun) \/ activeRun = runner[r].run
    BY <1>0, <2>1 DEF HasTaken, vstore
  <2>3. activeRun # NoRun => activeRun \in RunIds
    BY DEF Core, TypeOK, ResultTypeOK
  <2>4. activeRun # NoRun => taken'[activeRun] = IF activeRun = runner[r].run THEN AppStamps ELSE taken[activeRun]
    BY <2>1, <2>3 DEF Core, TypeOK, RunTypeOK
  <2>5. hasResult => taken'[resultRun] = taken[resultRun]
    BY <1>6, <2>1 DEF RunTake, Core, RunsInv, RunnersCarry, CarriesUnstarted, Carries, Unstarted, DisabledIsEmpty,
                      TypeOK, ResultTypeOK, RunTypeOK
  <2> QED
    BY <1>1, <1>2, <2>1, <2>2, <2>4, <2>5
       DEF FreshInv, ChangeIsNoticed, ChangeWillBeNoticed, ShownFresh, Younger, vstore
<1>7. CASE RunRegister(r)
  <2>1. /\ UNCHANGED <<vstore, taken>> /\ worker' = [worker EXCEPT ![runner[r].run] = "checking"]
        /\ runner'[r].pc = "return" /\ runner[r].pc = "register"
    BY <1>0, <1>7 DEF RunRegister, Goto, RunnerTypeOK
  <2>2. HasTaken(activeRun)' => HasTaken(activeRun)
    <3>1. ASSUME worker'[activeRun] = "checking", activeRun # runner[r].run PROVE worker[activeRun] = "checking"
      BY <2>1, <3>1
    <3> QED
      BY <1>0, <2>1, <3>1 DEF HasTaken, vstore
  <2> QED
    BY <1>1, <1>2, <2>1, <2>2
       DEF FreshInv, ChangeIsNoticed, ChangeWillBeNoticed, ShownFresh, Younger, vstore
<1>8. CASE RunEnable(r)
  <2>1. /\ status' = "idle" /\ UNCHANGED <<activeRun, runStartedAt, telemetryAt, worker, taken>>
        /\ runner'[r].pc = "stamp"
    BY <1>0, <1>8 DEF RunEnable, SetRuntimeStatus, Goto, RunnerTypeOK
  <2>2. HasTaken(activeRun)' => HasTaken(activeRun)
    BY <1>0, <2>1 DEF HasTaken
  <2> QED
    BY <1>1, <1>2, <2>1, <2>2 DEF FreshInv, ChangeIsNoticed, ChangeWillBeNoticed, ShownFresh, Younger
<1>9. CASE UNCHANGED <<vstore, worker, taken>> /\ runner'[r].pc # "register"
  <2>1. HasTaken(activeRun)' => HasTaken(activeRun)
    BY <1>0, <1>9 DEF HasTaken, vstore
  <2> QED
    BY <1>1, <1>2, <1>9, <2>1
       DEF FreshInv, ChangeIsNoticed, ChangeWillBeNoticed, ShownFresh, Younger, vstore
<1>10. RunBegin(r) \/ RunMissingCancel(r) \/ RunStamp(r) \/ RunReturn(r) => runner'[r].pc # "register"
  BY <1>0 DEF RunBegin, RunMissingCancel, RunStamp, RunReturn, Goto, RunnerTypeOK, IdleRunner
<1>11. RunStart(r) /\ ~StartRun(runner[r].run, runner[r].at) => runner'[r].pc # "register" /\ UNCHANGED vstore
  BY <1>0 DEF RunStart, RunnerTypeOK, IdleRunner
<1>12. CASE RunBegin(r) \/ RunMissingCancel(r) \/ RunStamp(r) \/ RunReturn(r)
  BY <1>9, <1>10, <1>12 DEF RunBegin, RunMissingCancel, RunStamp, RunReturn
<1>13. CASE RunStart(r) /\ ~StartRun(runner[r].run, runner[r].at)
  BY <1>9, <1>11, <1>13 DEF RunStart
<1> QED
  BY <1>3, <1>5, <1>6, <1>7, <1>8, <1>12, <1>13 DEF RunnerStep

LEMMA WorkerFreshStep ==
  ASSUME Core, FreshInv, NEW n \in RunIds, WorkerEnd(n) \/ WorkerUnregister(n)
  PROVE  FreshInv'
<1>0. /\ UNCHANGED <<writer, rings, runner, clock, taken>> /\ runStartedAt' = runStartedAt
      /\ telemetryAt' = telemetryAt
      /\ \A m \in RunIds : worker'[m] = "checking" => worker[m] = "checking"
  BY DEF WorkerEnd, WorkerComplete, WorkerFail, WorkerAbandon, Leave, WorkerUnregister, CompleteRun, Publish, FailRun,
         vstore, tstore, Core, TypeOK, RunTypeOK
<1>1. /\ AppStamps' = AppStamps /\ (Younger' <=> Younger) /\ (ResetOwed' <=> ResetOwed) /\ (ReportOwed' <=> ReportOwed)
      /\ (\A m \in RunIds : HasTaken(m)' => HasTaken(m)) /\ TimesAreOrdered'
  BY <1>0 DEF AppStamps, AllStamps, Retained, ResetOwed, ReportOwed, HasTaken, Younger, FreshInv,
              TimesAreOrdered
<1>2. activeRun \in RunIds \cup {NoRun} /\ n # NoRun
  BY BoundAssumption DEF Core, TypeOK, ResultTypeOK, RunIds, NoRun
<1>3. CASE UNCHANGED vstore
  BY <1>0, <1>1, <1>2, <1>3 DEF FreshInv, ChangeIsNoticed, ChangeWillBeNoticed, ShownFresh, vstore
<1>4. ASSUME activeRun = n, WorkerComplete(n), ~UNCHANGED vstore PROVE FreshInv'
  <2>1. PICK found \in MayHaveFound(n) : Publish(n, found) /\ activeRun' = NoRun
    BY <1>4 DEF WorkerComplete, CompleteRun
  <2>3. HasTaken(n)
    BY <1>4 DEF WorkerComplete, HasTaken
  <2>4. \/ taken[n] = AppStamps \/ ResetOwed
        \/ Younger /\ (ReportOwed \/ telemetryAt # NoTime)
    BY <1>2, <1>4, <2>3 DEF FreshInv, ChangeIsNoticed
  <2>5. resultRun' = n /\ (~stale' => telemetryAt = NoTime \/ telemetryAt <= runStartedAt)
    <3>1. telemetryAt \in Nat /\ runStartedAt \in Nat
      BY BoundAssumption DEF Core, TypeOK, ResultTypeOK
    <3>2. resultRun' = n /\ stale' = (telemetryAt # NoTime /\ telemetryAt > runStartedAt)
      BY <2>1 DEF Publish
    <3>3. ~stale' => ~(telemetryAt # NoTime /\ telemetryAt > runStartedAt)
      BY <3>2, Zenon
    <3> QED
      BY <3>1, <3>2, <3>3
  <2> QED
    BY <1>0, <1>1, <2>1, <2>4, <2>5 DEF FreshInv, ChangeIsNoticed, ChangeWillBeNoticed, ShownFresh
<1>5. ASSUME FailRun(n), ~UNCHANGED vstore PROVE FreshInv'
  BY <1>1, <1>5 DEF FailRun, FreshInv, ChangeIsNoticed, ChangeWillBeNoticed, ShownFresh
<1> QED
  BY <1>3, <1>4, <1>5 DEF WorkerEnd, WorkerComplete, WorkerFail, WorkerAbandon, WorkerUnregister, CompleteRun, vstore

\* A result shown as current is that of a run whose snapshot is exactly the
\* retained telemetry and names nothing else, unless a writer or a reset still
\* owes its report or an older change was reported last: for any number of
\* writers, runners, connections and records, and whatever part of its snapshot
\* weaver was heard about (MarkTelemetryChanged, CompleteRun and the callbacks
\* outside the lock).
THEOREM FreshIsCurrent == Spec => []FreshUnlessReordered
<1>1. Init => FreshInv
  BY DEF Init, VStoreInit, IdleRunner, IdleWriter, FreshInv, TimesAreOrdered, ChangeIsNoticed, ChangeWillBeNoticed,
         ShownFresh, NoTime
<1>2. Core /\ FreshInv /\ [Next]_vars => FreshInv'
  <2> SUFFICES ASSUME Core, FreshInv, [Next]_vars PROVE FreshInv'
    OBVIOUS
  <2>1. CASE UNCHANGED vars
    <3>1. UNCHANGED <<writer, rings, runner, clock, taken, worker, vstore>>
      BY <2>1 DEF vars, tstore, mvars
    <3> QED
      BY <3>1 DEF AppStamps, AllStamps, Retained, ResetOwed, ReportOwed, HasTaken, Younger, FreshInv,
                  TimesAreOrdered, ChangeIsNoticed, ChangeWillBeNoticed, ShownFresh, vstore
  <2> QED
    BY <2>1, WriterFreshStep, RunnerFreshStep, WorkerFreshStep DEF Next, Core
<1>3. Core /\ FreshInv => FreshUnlessReordered
  <2> SUFFICES ASSUME Core, FreshInv, ShownFresh, Settled,
                      telemetryAt = NoTime \/ \A t \in AllStamps : t <= telemetryAt
               PROVE  taken[resultRun] = AppStamps /\ entities \subseteq AppStamps
    BY DEF FreshUnlessReordered
  <2>1. ~ResetOwed /\ ~ReportOwed
    BY DEF Settled, IdleWriter, ResetOwed, ReportOwed
  <2>2. telemetryAt \in Nat /\ runStartedAt \in Nat /\ AllStamps \subseteq Nat
    BY BoundAssumption, StampsOfRecords DEF Core, TypeOK, TelemetryTypeOK, ResultTypeOK, Stamps
  <2>3. taken[resultRun] = AppStamps
    BY <2>1, <2>2 DEF FreshInv, ChangeWillBeNoticed, Younger
  <2> QED
    BY <2>3 DEF Core, ResultsInv, CancelledNeverKept, ShownFresh
<1> QED
  BY CoreHolds, <1>1, <1>2, <1>3, PTL DEF Spec

-----------------------------------------------------------------------------
(* The validation service.  A call knows the run whose result was retained *)
(* when it began; that run is spent, so a later result is another's.       *)

\* The run n cannot be the next one to publish.
Spent(n) == n \in RunIds /\ worker[n] # "none" /\ n # activeRun

ActiveIsNotShown == activeRun = resultRun => activeRun = NoRun

PriorIsSpent(c) ==
  call[c].pc \in {"enable", "running"} =>
    call[c].prior = NoRun \/ Spent(call[c].prior)

\* Once the call's run was admitted, an unchanged result means that some run is
\* in progress, that one failed, or that its failure was overwritten.
UnchangedIsUndecided(c) ==
  (call[c].pc = "running" /\ runner[c].pc \in {"take", "register", "return"}
     /\ hasResult /\ resultRun = call[c].prior)
    => \/ activeRun # NoRun
       \/ status = "error"
       \/ status = "idle" /\ late

AwaitsAnother(c) ==
  call[c].pc = "waiting" => call[c].run # NoRun /\ call[c].run # call[c].prior

RepeatsWithReason(c) ==
  (call[c].pc \in {"findings", "answered"} /\ call[c].basis = "fresh_run"
     /\ call[c].head.result = call[c].prior)
    => \/ call[c].head.status = "error"
       \/ call[c].head.status = "idle" /\ late

\* Manager.Run is entered through a call.
RunsWhenCalled(c) == call[c].pc # "running" => runner[c].pc = "idle"

CallSound(c) ==
  /\ RunsWhenCalled(c) /\ PriorIsSpent(c) /\ UnchangedIsUndecided(c)
  /\ AwaitsAnother(c) /\ RepeatsWithReason(c)

Call == [pc : ClientPCs, prior : RunIds \cup {NoRun}, run : RunIds \cup {NoRun},
         basis : Bases, head : [status : Statuses, result : RunIds \cup {NoRun}]]

CallsTyped ==
  call \in [Runners -> Call] /\ calls \in 0..MaxCalls /\ late \in BOOLEAN

ServiceInv ==
  Core /\ CallsTyped /\ ActiveIsNotShown /\ \A c \in Runners : CallSound(c)

\* What a step may do to the validation system while it leaves the calls alone.
Keeps ==
  /\ \A n : Spent(n) => Spent(n)'
  /\ ActiveIsNotShown'
  /\ resultRun' \in {resultRun, NoRun, activeRun}
  /\ (resultRun' = resultRun /\ hasResult') =>
       \/ activeRun' # NoRun
       \/ status' = "error"
       \/ status' = "idle" /\ late'
       \/ activeRun = NoRun /\ hasResult /\ status' = status

LEMMA CoreFacts ==
  ASSUME Core
  PROVE  /\ status \in Statuses /\ activeRun \in RunIds \cup {NoRun}
         /\ resultRun \in RunIds \cup {NoRun} /\ hasResult \in BOOLEAN
         /\ hasResult <=> resultRun # NoRun
         /\ status = "disabled" => activeRun = NoRun /\ resultRun = NoRun
         /\ \A n \in RunIds : worker[n] = "none" => n # resultRun
         /\ NoRun \notin RunIds
  BY BoundAssumption
     DEF Core, TypeOK, ResultTypeOK, RunsInv, DisabledIsEmpty, Unstarted, RunIds,
         NoRun

\* The result store forgets everything.
LEMMA ForgettingKeeps ==
  ASSUME Core, ActiveIsNotShown, ForgetEverything, UNCHANGED worker
  PROVE  Keeps
<1>1. hasResult' = FALSE /\ activeRun' = NoRun /\ resultRun' = NoRun
  BY DEF ForgetEverything
<1>2. NoRun \notin RunIds
  BY CoreFacts
<1> QED
  BY <1>1, <1>2, Zenon DEF Keeps, Spent, ActiveIsNotShown

\* The result store is left alone, but perhaps for its staleness.
LEMMA QuietKeeps ==
  ASSUME Core, ActiveIsNotShown,
         UNCHANGED <<status, hasResult, activeRun, resultRun>>,
         \A n \in RunIds : worker[n] # "none" => worker'[n] # "none"
  PROVE  Keeps
  BY DEF Keeps, Spent, ActiveIsNotShown

\* The validator is enabled again, perhaps late.
LEMMA EnablingKeeps ==
  ASSUME Core, ActiveIsNotShown, SetRuntimeStatus("idle"), UNCHANGED worker,
         status # "disabled" => late'
  PROVE  Keeps
<1>1. status' = "idle" /\ UNCHANGED <<hasResult, activeRun, resultRun>>
  BY DEF SetRuntimeStatus
<1>2. status = "disabled" => ~hasResult
  BY CoreFacts
<1> QED
  BY <1>1, <1>2 DEF Keeps, Spent, ActiveIsNotShown

LEMMA WriterKeeps ==
  ASSUME Core, ActiveIsNotShown, NEW w \in Writers, WriterStep(w)
  PROVE  Keeps
<1>1. CASE ResetWipe(w)
  BY <1>1, ForgettingKeeps DEF ResetWipe, ClearResult, mvars
<1>2. CASE ~ResetWipe(w)
  <2>1. UNCHANGED <<status, hasResult, activeRun, resultRun, worker>>
    BY <1>2 DEF WriterStep, AddTelemetry, ClearAll, Evict, ResetCancel, Mark,
                MarkTelemetryChanged, vstore, mvars
  <2> QED
    BY <2>1, QuietKeeps
<1> QED
  BY <1>1, <1>2

LEMMA WorkerKeeps ==
  ASSUME Core, ActiveIsNotShown, NEW n \in RunIds,
         WorkerEnd(n) \/ WorkerUnregister(n)
  PROVE  Keeps
<1>1. \A m \in RunIds : worker[m] # "none" => worker'[m] # "none"
  BY DEF WorkerEnd, WorkerComplete, WorkerFail, WorkerAbandon, WorkerUnregister,
         Leave, Core, TypeOK, RunTypeOK
<1>2. CASE UNCHANGED vstore
  BY <1>1, <1>2, QuietKeeps DEF vstore
<1>3. ASSUME NEW found, activeRun = n, Publish(n, found), activeRun' = NoRun
      PROVE  Keeps
  <2>1. resultRun' = n /\ n # NoRun /\ hasResult'
    BY <1>3, CoreFacts DEF Publish
  <2>2. resultRun # n
    BY <1>3, <2>1 DEF ActiveIsNotShown
  <2> QED
    BY <1>1, <1>3, <2>1, <2>2, CoreFacts, Zenon DEF Keeps, Spent, ActiveIsNotShown
<1>4. CASE activeRun = n /\ activeRun' = NoRun /\ status' = "error"
           /\ UNCHANGED <<hasResult, resultRun>>
  BY <1>1, <1>4, CoreFacts, Zenon DEF Keeps, Spent, ActiveIsNotShown
<1> QED
  BY <1>2, <1>3, <1>4
     DEF WorkerEnd, WorkerComplete, WorkerFail, WorkerAbandon, WorkerUnregister,
         CompleteRun, FailRun

LEMMA RunnerKeeps ==
  ASSUME Core, ActiveIsNotShown, NEW r \in Runners, RunnerStep(r),
         late' = (late \/ (runner[r].pc = "enable" /\ status # "disabled"))
  PROVE  Keeps
<1>1. CASE RunMissingDisable(r)
  <2>1. ForgetEverything /\ UNCHANGED worker
    BY <1>1 DEF RunMissingDisable, SetRuntimeStatus
  <2> QED
    BY <2>1, ForgettingKeeps
<1>2. CASE RunStart(r) /\ StartRun(runner[r].run, runner[r].at)
  <2> DEFINE n == runner[r].run
  <2>1. n \in RunIds /\ worker[n] = "none"
    BY <1>2 DEF RunStart, Core, RunsInv, RunnersCarry, CarriesUnstarted, Carries
  <2>2. activeRun' = n /\ UNCHANGED <<hasResult, resultRun, worker>>
    BY <1>2 DEF RunStart, StartRun
  <2> HIDE DEF n
  <2>3. n # resultRun /\ n # NoRun
    BY <2>1, CoreFacts
  <2> QED
    BY <2>1, <2>2, <2>3, Zenon DEF Keeps, Spent, ActiveIsNotShown
<1>3. CASE /\ UNCHANGED <<status, hasResult, activeRun, resultRun>>
           /\ \A n \in RunIds : worker[n] # "none" => worker'[n] # "none"
  BY <1>3, QuietKeeps
<1>4. CASE RunRegister(r)
  <2>1. \A n \in RunIds : worker[n] # "none" => worker'[n] # "none"
    BY <1>4 DEF RunRegister, Core, TypeOK, RunTypeOK
  <2> QED
    BY <1>3, <1>4, <2>1 DEF RunRegister, vstore
<1>5. CASE RunEnable(r)
  <2>1. SetRuntimeStatus("idle") /\ UNCHANGED worker /\ runner[r].pc = "enable"
    BY <1>5 DEF RunEnable
  <2> QED
    BY <2>1, EnablingKeeps
<1> QED
  BY <1>1, <1>2, <1>3, <1>4, <1>5
     DEF RunnerStep, RunBegin, RunMissingCancel, RunStamp, RunStart, RunTake,
         RunReturn, vstore

\* A call that does not move stays sound.
LEMMA UnmovedIsSound ==
  ASSUME Core', Keeps, late => late', NEW c \in Runners, CallSound(c),
         call'[c] = call[c],
         call[c].pc # "running" => UNCHANGED runner[c].pc,
         runner'[c].pc \in {"take", "register", "return"} =>
           \/ runner[c].pc \in {"take", "register", "return"}
           \/ activeRun' # NoRun
           \/ ~hasResult'
  PROVE  CallSound(c)'
<1>1. PriorIsSpent(c)'
  BY DEF CallSound, PriorIsSpent, Keeps
<1>2. UnchangedIsUndecided(c)'
  <2> SUFFICES ASSUME call[c].pc = "running",
                      runner[c].pc \in {"take", "register", "return"},
                      hasResult', resultRun' = call[c].prior, activeRun' = NoRun
               PROVE  status' = "error" \/ (status' = "idle" /\ late')
    BY DEF UnchangedIsUndecided
  <2>1. resultRun' # NoRun
    <3>1. hasResult' <=> resultRun' # NoRun
      BY DEF Core, RunsInv, DisabledIsEmpty
    <3> QED
      BY <3>1
  <2>2. Spent(resultRun')
    BY <2>1 DEF CallSound, PriorIsSpent
  <2>3. resultRun' = resultRun
    BY <2>1, <2>2 DEF Keeps, Spent
  <2> QED
    BY <2>3 DEF Keeps, CallSound, UnchangedIsUndecided
<1>3. AwaitsAnother(c)'
  BY DEF CallSound, AwaitsAnother
<1>4. RepeatsWithReason(c)'
  BY DEF CallSound, RepeatsWithReason
<1>5. RunsWhenCalled(c)'
  BY DEF CallSound, RunsWhenCalled
<1> QED
  BY <1>1, <1>2, <1>3, <1>4, <1>5 DEF CallSound

\* What Manager.Run answers with makes a sound call.
LEMMA StartedIsSound ==
  ASSUME ServiceInv, NEW c \in Runners, call[c].pc = "running", RunnerStep(c),
         runner'[c].pc = "idle", Started(c), late' = late
  PROVE  CallSound(c)' /\ call' \in [Runners -> Call]
<1>1. /\ call[c] \in Call /\ call \in [Runners -> Call]
      /\ CallSound(c)
  BY DEF ServiceInv, CallsTyped
<1>2. call[c].prior = NoRun \/ call[c].prior # activeRun
  BY <1>1 DEF CallSound, PriorIsSpent, Spent
<1>3. runner[c].pc = "return" \/ ~MayStart
  <2>1. runner \in [Runners -> [pc : RunnerPCs, run : RunIds \cup {NoRun},
                               at : 0..MaxClock]]
    BY DEF ServiceInv, Core, TypeOK, RunnerTypeOK
  <2>2. ASSUME NEW pc, Goto(c, pc) PROVE runner'[c].pc = pc
    BY <2>1, <2>2 DEF Goto
  <2>3. ~RunBegin(c)
    BY <2>2 DEF RunBegin
  <2>4. /\ ~RunMissingCancel(c) /\ ~RunMissingDisable(c) /\ ~RunEnable(c)
        /\ ~RunTake(c) /\ ~RunRegister(c)
    BY <2>2 DEF RunMissingCancel, RunMissingDisable, RunEnable, RunTake,
                RunRegister
  <2>5. ~RunStamp(c)
    BY <2>1 DEF RunStamp
  <2>6. RunStart(c) => ~MayStart
    BY <2>2 DEF RunStart
  <2> QED
    BY <2>3, <2>4, <2>5, <2>6 DEF RunnerStep, RunReturn
<1>4. CASE activeRun # NoRun
  <2>1. call' = [call EXCEPT ![c] = [call[c] EXCEPT !.pc = "waiting", !.run = activeRun]]
    BY <1>4 DEF Started
  <2>2. activeRun \in RunIds
    BY <1>4, CoreFacts DEF ServiceInv
  <2>3. call'[c].pc = "waiting" /\ call'[c].run = activeRun /\ call'[c].prior = call[c].prior
    BY <1>1, <2>1 DEF Call
  <2>4. call' \in [Runners -> Call]
    BY <1>1, <2>1, <2>2 DEF Call, ClientPCs
  <2> QED
    BY <1>2, <1>4, <2>3, <2>4 DEF CallSound, PriorIsSpent, UnchangedIsUndecided,
                          RunsWhenCalled, AwaitsAnother, RepeatsWithReason
<1>5. CASE activeRun = NoRun /\ hasResult
  <2>1. call' = [call EXCEPT ![c] = [call[c] EXCEPT !.pc = "findings", !.basis = "fresh_run",
                                                   !.head = Summary]]
    BY <1>5 DEF Started
  <2>2. /\ call'[c].pc = "findings" /\ call'[c].prior = call[c].prior
        /\ call'[c].head.status = status /\ call'[c].head.result = resultRun
    BY <1>1, <2>1 DEF Call, Summary
  <2>3. call' \in [Runners -> Call]
    BY <1>1, <2>1, CoreFacts DEF Call, ClientPCs, Decided, Bases, Summary, ServiceInv
  <2>4. runner[c].pc = "return"
    BY <1>3, <1>5, CoreFacts DEF MayStart, ServiceInv
  <2>5. resultRun = call[c].prior => status = "error" \/ (status = "idle" /\ late)
    BY <1>1, <1>5, <2>4 DEF CallSound, UnchangedIsUndecided
  <2> QED
    BY <2>2, <2>3, <2>5 DEF CallSound, PriorIsSpent, UnchangedIsUndecided,
                          RunsWhenCalled, AwaitsAnother, RepeatsWithReason
<1>6. CASE activeRun = NoRun /\ ~hasResult
  <2>1. call' = [call EXCEPT ![c] = [call[c] EXCEPT !.pc = "refused"]]
    BY <1>6 DEF Started
  <2>2. call' \in [Runners -> Call] /\ call'[c].pc = "refused"
    BY <1>1, <2>1 DEF Call, ClientPCs, Decided
  <2> QED
    BY <2>2 DEF CallSound, RunsWhenCalled, PriorIsSpent, UnchangedIsUndecided,
                AwaitsAnother, RepeatsWithReason
<1> QED
  BY <1>4, <1>5, <1>6

\* A new call.
LEMMA BegunIsSound ==
  ASSUME ServiceInv, NEW c \in Runners, Refresh(c) \/ AnalyzeLatest(c)
  PROVE  CallSound(c)' /\ CallsTyped'
<1>1. call \in [Runners -> Call] /\ calls \in 0..MaxCalls /\ late \in BOOLEAN
  BY DEF ServiceInv, CallsTyped
<1>2. calls < MaxCalls /\ calls' = calls + 1 /\ UNCHANGED <<vars, late>>
  BY DEF Refresh, AnalyzeLatest, Begin, MayCall
<1>3. calls' \in 0..MaxCalls
  BY <1>1, <1>2, CallAssumption
<1>4. /\ status \in Statuses /\ resultRun \in RunIds \cup {NoRun}
      /\ resultRun = NoRun \/ Spent(resultRun)
  BY CoreFacts DEF ServiceInv, ActiveIsNotShown, Spent
<1>5. CASE Refresh(c)
  <2>1. PICK pc \in {"enable", "running"} :
          call' = [call EXCEPT ![c] = [NoCall EXCEPT !.pc = pc, !.prior = resultRun]]
    BY <1>5, Zenon DEF Refresh, Begin
  <2>2. call'[c] = [pc |-> pc, prior |-> resultRun, run |-> NoRun, basis |-> "none",
                    head |-> NoSummary]
    BY <1>1, <2>1 DEF NoCall
  <2>3. call' \in [Runners -> Call]
    BY <1>1, <1>4, <2>1 DEF Call, NoCall, ClientPCs, Bases, NoSummary, Statuses
  <2>4. runner'[c].pc = "idle"
    BY <1>2, <1>5 DEF ServiceInv, CallSound, RunsWhenCalled, Refresh, Begin, MayCall,
                      Decided, vars, mvars
  <2>5. UNCHANGED <<worker, activeRun>>
    BY <1>2 DEF vars, vstore, mvars
  <2>6. PriorIsSpent(c)'
    BY <1>4, <2>2, <2>5 DEF PriorIsSpent, Spent
  <2>7. CallsTyped'
    BY <1>1, <1>2, <1>3, <2>3 DEF CallsTyped
  <2> QED
    BY <2>2, <2>4, <2>6, <2>7
       DEF CallSound, RunsWhenCalled, UnchangedIsUndecided, AwaitsAnother,
           RepeatsWithReason
<1>6. CASE AnalyzeLatest(c)
  <2>1. PICK basis \in {"stale_result", "latest_fresh_result"} :
          call' = [call EXCEPT ![c] =
            [NoCall EXCEPT !.pc = "findings", !.prior = resultRun, !.head = Summary,
                           !.basis = basis]]
    BY <1>6, Zenon DEF AnalyzeLatest
  <2>2. call'[c] = [pc |-> "findings", prior |-> resultRun, run |-> NoRun,
                    basis |-> basis, head |-> Summary]
    BY <1>1, <2>1 DEF NoCall
  <2>3. call' \in [Runners -> Call]
    BY <1>1, <1>4, <2>1 DEF Call, NoCall, ClientPCs, Decided, Bases, Summary
  <2> QED
    BY <1>1, <1>2, <1>3, <2>2, <2>3, <1>6
       DEF CallSound, RunsWhenCalled, PriorIsSpent, UnchangedIsUndecided,
           AwaitsAnother, RepeatsWithReason, CallsTyped, vars, mvars,
           ServiceInv, MayCall, Decided, AnalyzeLatest
<1> QED
  BY <1>5, <1>6

\* A call that awaits its run, or reads what it answers with.
LEMMA AwaitedIsSound ==
  ASSUME ServiceInv, NEW c \in Runners, Poll(c) \/ Timeout(c) \/ Answer(c)
  PROVE  CallSound(c)' /\ CallsTyped'
<1>1. /\ call \in [Runners -> Call] /\ calls \in 0..MaxCalls /\ late \in BOOLEAN
      /\ call[c] \in Call /\ CallSound(c)
  BY DEF ServiceInv, CallsTyped
<1>2. UNCHANGED <<vars, calls, late>>
  BY DEF Poll, Timeout, Answer
<1>3. /\ status \in Statuses /\ resultRun \in RunIds \cup {NoRun}
      /\ runner[c].pc = "idle"
  BY <1>1, CoreFacts DEF ServiceInv, CallSound, RunsWhenCalled, Poll, Timeout, Answer
<1>4. ASSUME NEW pc \in {"replaced", "failed", "timeout", "answered", "waiting"},
             call' = [call EXCEPT ![c] = [call[c] EXCEPT !.pc = pc]],
             pc = "waiting" => call[c].pc = "waiting",
             pc = "answered" => call[c].pc = "findings"
      PROVE  CallSound(c)' /\ CallsTyped'
  <2>1. /\ call'[c].pc = pc /\ call'[c].run = call[c].run
        /\ call'[c].prior = call[c].prior /\ call'[c].basis = call[c].basis
        /\ call'[c].head = call[c].head
    BY <1>1, <1>4 DEF Call
  <2>2. call' \in [Runners -> Call]
    BY <1>1, <1>4 DEF Call, ClientPCs, Decided
  <2> QED
    BY <1>1, <1>2, <1>3, <1>4, <2>1, <2>2
       DEF CallSound, RunsWhenCalled, PriorIsSpent, UnchangedIsUndecided,
           AwaitsAnother, RepeatsWithReason, CallsTyped, vars, mvars
<1>5. CASE Poll(c) /\ resultRun = call[c].run /\ hasResult
  <2>1. call' = [call EXCEPT ![c] = [call[c] EXCEPT !.pc = "findings",
                                        !.basis = "fresh_run", !.head = Summary]]
    BY <1>5 DEF Poll
  <2>2. /\ call'[c].pc = "findings" /\ call'[c].prior = call[c].prior
        /\ call'[c].head.result = resultRun
    BY <1>1, <2>1 DEF Call, Summary
  <2>3. call' \in [Runners -> Call]
    BY <1>1, <1>3, <2>1 DEF Call, ClientPCs, Decided, Bases, Summary
  <2>4. resultRun # call[c].prior
    BY <1>1, <1>5 DEF CallSound, AwaitsAnother, Poll
  <2> QED
    BY <1>1, <1>2, <1>3, <2>2, <2>3, <2>4
       DEF CallSound, RunsWhenCalled, PriorIsSpent, UnchangedIsUndecided,
           AwaitsAnother, RepeatsWithReason, CallsTyped, vars, mvars
<1>6. CASE Poll(c) /\ ~(resultRun = call[c].run /\ hasResult)
  <2>1. \E pc \in {"replaced", "failed", "waiting"} :
          call' = [call EXCEPT ![c] = [call[c] EXCEPT !.pc = pc]]
    <3>1. call[c] = [call[c] EXCEPT !.pc = "waiting"]
      BY <1>1, <1>6 DEF Call, Poll
    <3> QED
      BY <1>6, <3>1 DEF Poll
  <2> QED
    BY <1>4, <1>6, <2>1 DEF Poll
<1>7. CASE Timeout(c)
  BY <1>4, <1>7 DEF Timeout
<1>8. CASE Answer(c)
  BY <1>4, <1>8 DEF Answer
<1> QED
  BY <1>5, <1>6, <1>7, <1>8

\* A client's step inside Manager.Run.
LEMMA InRunIsSound ==
  ASSUME ServiceInv, Core', Keeps, NEW c \in Runners, InRun(c)
  PROVE  CallSound(c)' /\ CallsTyped'
<1>1. /\ call \in [Runners -> Call] /\ calls \in 0..MaxCalls /\ late \in BOOLEAN
      /\ CallSound(c) /\ call[c].pc = "running" /\ RunnerStep(c)
  BY DEF ServiceInv, CallsTyped, InRun
<1>2. late' = (late \/ (runner[c].pc = "enable" /\ status # "disabled")) /\ calls' = calls
  BY DEF InRun
<1>3. late' \in BOOLEAN /\ (late => late')
  BY <1>1, <1>2
<1>4. CASE UNCHANGED call
  <2>1. runner'[c].pc \in {"take", "register", "return"} =>
           \/ runner[c].pc \in {"take", "register", "return"}
           \/ activeRun' # NoRun
           \/ ~hasResult'
    <3>1. runner \in [Runners -> [pc : RunnerPCs, run : RunIds \cup {NoRun},
                                 at : 0..MaxClock]]
      BY DEF ServiceInv, Core, TypeOK, RunnerTypeOK
    <3>2. ASSUME NEW pc, Goto(c, pc) PROVE runner'[c].pc = pc
      BY <3>1, <3>2 DEF Goto
    <3>3. ~RunBegin(c) \/ runner'[c].pc \in {"cancel", "enable", "stamp"}
      BY <3>2 DEF RunBegin
    <3>4. /\ ~RunMissingCancel(c) \/ runner'[c].pc = "disable"
          /\ ~RunEnable(c) \/ runner'[c].pc = "stamp"
      BY <3>2 DEF RunMissingCancel, RunEnable
    <3>5. ~RunMissingDisable(c) \/ ~hasResult'
      BY DEF RunMissingDisable, SetRuntimeStatus, ForgetEverything
    <3>6. ~RunStamp(c) \/ runner'[c].pc = "start"
      BY <3>1 DEF RunStamp
    <3>7. ~RunStart(c) \/ activeRun' # NoRun \/ runner'[c].pc = "idle"
      <4>1. CASE runner' = [runner EXCEPT ![c] = IdleRunner]
        BY <3>1, <4>1 DEF IdleRunner
      <4>2. CASE RunStart(c) /\ StartRun(runner[c].run, runner[c].at)
        <5>1. runner[c].run \in RunIds
          BY <4>2 DEF RunStart, ServiceInv, Core, RunsInv, RunnersCarry, CarriesUnstarted,
                      Carries
        <5>2. NoRun \notin RunIds
          BY CoreFacts DEF ServiceInv
        <5> QED
          BY <4>2, <5>1, <5>2 DEF StartRun
      <4> QED
        BY <4>1, <4>2 DEF RunStart
    <3>8. (RunTake(c) \/ RunRegister(c) \/ RunReturn(c)) =>
            runner[c].pc \in {"take", "register", "return"}
      BY DEF RunTake, RunRegister, RunReturn
    <3> QED
      BY <1>1, <3>3, <3>4, <3>5, <3>6, <3>7, <3>8 DEF RunnerStep
  <2>2. CallSound(c)'
    BY <1>1, <1>3, <1>4, <2>1, UnmovedIsSound
  <2> QED
    BY <1>1, <1>2, <1>3, <1>4, <2>2 DEF CallsTyped
<1>5. CASE runner'[c].pc = "idle" /\ Started(c)
  <2>1. runner[c].pc # "enable"
    <3>1. SUFFICES ASSUME runner[c].pc = "enable" PROVE FALSE
      OBVIOUS
    <3>2. RunEnable(c)
      BY <1>1, <3>1 DEF RunnerStep, RunBegin, RunMissingCancel, RunMissingDisable,
                        RunStamp, RunStart, RunTake, RunRegister, RunReturn
    <3> QED
      BY <1>5, <3>2 DEF RunEnable, Goto, ServiceInv, Core, TypeOK, RunnerTypeOK
  <2>2. late' = late
    BY <1>1, <1>2, <2>1
  <2> QED
    BY <1>1, <1>2, <1>5, <2>2, StartedIsSound DEF CallsTyped
<1> QED
  BY <1>4, <1>5 DEF InRun

\* A client that re-enables the validator.
LEMMA ReenabledIsSound ==
  ASSUME ServiceInv, Core', Keeps, NEW c \in Runners, Reenable(c)
  PROVE  CallSound(c)' /\ CallsTyped'
<1>1. /\ call \in [Runners -> Call] /\ calls \in 0..MaxCalls /\ late \in BOOLEAN
      /\ CallSound(c) /\ call[c] \in Call /\ runner[c].pc = "idle"
  BY DEF ServiceInv, CallsTyped, CallSound, RunsWhenCalled, Reenable
<1>2. /\ call' = [call EXCEPT ![c] = [call[c] EXCEPT !.pc = "running"]]
      /\ UNCHANGED <<runner, calls>>
      /\ late' = (late \/ status # "disabled")
  BY DEF Reenable, mvars
<1>3. call'[c].pc = "running" /\ call'[c].prior = call[c].prior
  BY <1>1, <1>2 DEF Call
<1>4. call' \in [Runners -> Call]
  BY <1>1, <1>2 DEF Call, ClientPCs
<1>5. PriorIsSpent(c)'
  BY <1>1, <1>3 DEF CallSound, PriorIsSpent, Keeps, Reenable
<1> QED
  BY <1>1, <1>2, <1>3, <1>4, <1>5
     DEF CallSound, RunsWhenCalled, UnchangedIsUndecided, AwaitsAnother,
         RepeatsWithReason, CallsTyped

\* Re-enabling is no step of Manager.Run, but it does what RunEnable does.
LEMMA ReenablingKeepsCore ==
  ASSUME Core, NEW c \in Runners, Reenable(c)
  PROVE  Core'
<1>1. /\ status' = "idle"
      /\ UNCHANGED <<hasResult, stale, activeRun, resultRun, runStartedAt, telemetryAt,
                     entities, tstore, clock, writer, mvars, invalidated>>
  BY DEF Reenable, SetRuntimeStatus
<1>2. TypeOK'
  BY <1>1 DEF Core, TypeOK, ResultTypeOK, TelemetryTypeOK, WriterTypeOK, RunnerTypeOK,
              RunTypeOK, tstore, mvars, Statuses
<1>3. WipePending' <=> WipePending
  BY <1>1 DEF WipePending, mvars
<1>4. RunsInv'
  BY <1>1, <1>3 DEF Core, RunsInv, RunnersCarry, CarriesUnstarted, Carries, CarriedOnce,
                   Unstarted, Unissued, DisabledIsEmpty, CancelledWillBeWiped, mvars
<1>5. ResultsInv'
  BY <1>1, <1>3 DEF Core, ResultsInv, CancelledNeverKept, RunningHasAWorker, mvars
<1> QED
  BY <1>2, <1>4, <1>5 DEF Core

\* One service step.
LEMMA ServiceStep ==
  ASSUME ServiceInv, ServiceNext
  PROVE  ServiceInv'
<1>1. /\ Core /\ ActiveIsNotShown /\ CallsTyped /\ \A c \in Runners : CallSound(c)
      /\ call \in [Runners -> Call]
  BY DEF ServiceInv, CallsTyped
<1>2. ASSUME Core', Keeps, NEW c \in Runners, CallSound(c)' /\ CallsTyped',
             late => late',
             \A d \in Runners \ {c} : call'[d] = call[d] /\ runner'[d].pc = runner[d].pc
      PROVE  ServiceInv'
  <2>1. ASSUME NEW d \in Runners \ {c} PROVE CallSound(d)'
    BY <1>1, <1>2, UnmovedIsSound
  <2> QED
    BY <1>2, <2>1 DEF ServiceInv, Keeps
<1>3. CASE Environment
  <2>1. Core'
    BY <1>1, <1>3, CoreStep DEF Environment, Next
  <2>2. Keeps
    BY <1>1, <1>3, WriterKeeps, WorkerKeeps DEF Environment
  <2>3. UNCHANGED <<call, calls, late, runner>>
    BY <1>3 DEF Environment, svars, WriterStep, AddTelemetry, ClearAll, Evict, ResetCancel,
                ResetWipe, Mark, WorkerEnd, WorkerComplete, WorkerFail, WorkerAbandon,
                WorkerUnregister, Leave, mvars
  <2>4. \A d \in Runners : CallSound(d)'
    BY <1>1, <2>1, <2>2, <2>3, UnmovedIsSound
  <2> QED
    BY <1>1, <2>1, <2>2, <2>3, <2>4 DEF ServiceInv, CallsTyped, Keeps
<1>4. ASSUME NEW c \in Runners,
             Refresh(c) \/ AnalyzeLatest(c) \/ Poll(c) \/ Timeout(c) \/ Answer(c)
      PROVE  ServiceInv'
  <2>1. UNCHANGED <<vars, late>> /\ \A d \in Runners \ {c} : call'[d] = call[d]
    BY <1>1, <1>4 DEF Refresh, AnalyzeLatest, Begin, Poll, Timeout, Answer
  <2>2. Core'
    BY <1>1, <2>1, CoreStep
  <2>3. Keeps
    BY <1>1, <2>1, QuietKeeps DEF vars, vstore, mvars
  <2>4. CallSound(c)' /\ CallsTyped'
    BY <1>4, BegunIsSound, AwaitedIsSound
  <2>5. \A d \in Runners \ {c} : runner'[d].pc = runner[d].pc
    BY <2>1 DEF vars, mvars
  <2> QED
    BY <1>2, <2>1, <2>2, <2>3, <2>4, <2>5
<1>5. ASSUME NEW c \in Runners, Reenable(c) PROVE ServiceInv'
  <2>1. Core'
    BY <1>1, <1>5, ReenablingKeepsCore
  <2>2. /\ SetRuntimeStatus("idle") /\ late' = (late \/ status # "disabled")
        /\ UNCHANGED <<worker, runner>>
        /\ \A d \in Runners \ {c} : call'[d] = call[d]
    BY <1>1, <1>5 DEF Reenable, mvars
  <2>3. Keeps
    BY <1>1, <2>2, EnablingKeeps
  <2>4. CallSound(c)' /\ CallsTyped'
    BY <1>5, <2>1, <2>3, ReenabledIsSound
  <2> QED
    BY <1>2, <2>1, <2>2, <2>3, <2>4
<1>6. ASSUME NEW c \in Runners, InRun(c) PROVE ServiceInv'
  <2>1. RunnerStep(c) /\ (late => late')
        /\ late' = (late \/ (runner[c].pc = "enable" /\ status # "disabled"))
    BY <1>6 DEF InRun
  <2>2. Core'
    BY <1>1, <2>1, CoreStep DEF Next
  <2>3. Keeps
    BY <1>1, <2>1, RunnerKeeps
  <2>4. CallSound(c)' /\ CallsTyped'
    BY <1>6, <2>2, <2>3, InRunIsSound
  <2>5. \A d \in Runners \ {c} : call'[d] = call[d]
    BY <1>1, <1>6 DEF InRun, Started
  <2>6. \A d \in Runners \ {c} : runner'[d].pc = runner[d].pc
    BY <1>1, <2>1 DEF RunnerStep, RunBegin, RunMissingCancel, RunMissingDisable, RunEnable,
                      RunStamp, RunStart, RunTake, RunRegister, RunReturn, Goto, Core,
                      TypeOK, RunnerTypeOK
  <2> QED
    BY <1>2, <2>1, <2>2, <2>3, <2>4, <2>5, <2>6
<1> QED
  BY <1>3, <1>4, <1>5, <1>6 DEF ServiceNext, ClientStep

LEMMA ServiceAlways == ServiceSpec => []ServiceInv
<1>1. ServiceInit => ServiceInv
  <2> SUFFICES ASSUME ServiceInit PROVE ServiceInv
    OBVIOUS
  <2>1. Core
    BY InitCore DEF ServiceInit
  <2>2. CallsTyped
    <3>1. NoCall \in Call
      BY DEF Call, NoCall, NoSummary, ClientPCs, Decided, Bases, Statuses
    <3>2. call \in [Runners -> Call]
      BY <3>1 DEF ServiceInit
    <3>3. calls \in 0..MaxCalls
      BY CallAssumption DEF ServiceInit
    <3>4. late \in BOOLEAN
      BY DEF ServiceInit
    <3> QED
      BY <3>2, <3>3, <3>4 DEF CallsTyped
  <2>3. ActiveIsNotShown
    BY DEF ServiceInit, Init, VStoreInit, ActiveIsNotShown
  <2>4. ASSUME NEW c \in Runners PROVE CallSound(c)
    BY DEF ServiceInit, Init, IdleRunner, NoCall, CallSound, RunsWhenCalled, PriorIsSpent,
           UnchangedIsUndecided, AwaitsAnother, RepeatsWithReason
  <2> QED
    BY <2>1, <2>2, <2>3, <2>4 DEF ServiceInv
<1>2. ServiceInv /\ UNCHANGED <<vars, svars>> => ServiceInv'
  <2> SUFFICES ASSUME ServiceInv, UNCHANGED <<vars, svars>> PROVE ServiceInv'
    OBVIOUS
  <2>1. Core'
    BY CoreStep DEF ServiceInv
  <2>2. CallsTyped' /\ ActiveIsNotShown'
    BY DEF ServiceInv, CallsTyped, ActiveIsNotShown, vars, vstore, svars
  <2>3. \A c \in Runners : CallSound(c)'
    BY DEF ServiceInv, CallSound, RunsWhenCalled, PriorIsSpent, Spent,
           UnchangedIsUndecided, AwaitsAnother, RepeatsWithReason, vars, vstore, mvars,
           svars
  <2> QED
    BY <2>1, <2>2, <2>3 DEF ServiceInv
<1> QED
  BY <1>1, <1>2, ServiceStep, PTL DEF ServiceSpec

\* docs/architecture-proposal.md:207, "Force a fresh validation run": for any
\* clients, writers and calls, an answer labelled fresh repeats an earlier result
\* only after a failure, or after a re-enabling that came late (runAnalysis).
THEOREM AnswersAlwaysSound == ServiceSpec => []AnswersAreSound
<1>1. ServiceInv => AnswersAreSound
  BY DEF ServiceInv, AnswersAreSound, ServiceTypeOK, RepeatedOnlyAfterFailure, Core,
         CallsTyped, Call, CallSound, RepeatsWithReason
<1> QED
  BY <1>1, ServiceAlways, PTL
=============================================================================
