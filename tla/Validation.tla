----------------------------- MODULE Validation -----------------------------
(***************************************************************************)
(* Validation of live telemetry: the telemetry store, the validator's      *)
(* result store, the Manager that owns the one registered weaver run       *)
(* (internal/validator/manager.go), and the goroutines that share them:    *)
(*                                                                         *)
(*   writers  ingest, clear or evict telemetry under Store.mu and then run *)
(*            the callbacks main.go:124-125 installs, outside the lock:    *)
(*            Manager.Reset (cancelActiveRun, then Store.Clear) and        *)
(*            Manager.MarkTelemetryChanged;                                *)
(*   runners  execute Manager.Run, one step per lock acquisition;          *)
(*   workers  executeRun, one goroutine per started run.                   *)
(*                                                                         *)
(* Every call of time.Now() that is stored reads a fresh tick of clock.    *)
(***************************************************************************)
EXTENDS ValidatorStore, TelemetryStore

CONSTANTS
  Writers, Runners,
  MaxClock,           \* bound: instants at which something is stamped
  MaxRuns,            \* bound: runs the Manager may number
  WeaverMayBeMissing  \* resolveWeaverPath may fail

ASSUME BoundAssumption ==
  /\ MaxClock \in Nat /\ MaxRuns \in Nat
  /\ WeaverMayBeMissing \in BOOLEAN

RunIds == 1..MaxRuns
Stamps == 1..MaxClock

VARIABLES
  clock,
  writer,     \* writer -> [pc, at]: the callbacks it still owes
  runner,     \* runner -> [pc, run, at]: where it is inside Manager.Run
  runSeq,     \* Manager.runSeq
  registered, \* Manager.activeRunID / activeCancel
  cancelled,  \* the runs whose context was cancelled
  taken,      \* run -> the telemetry snapshot it validates
  worker,     \* run -> stage of its executeRun goroutine
  invalidated \* history: stamps of records cleared, lapsed or evicted

mvars == <<runner, runSeq, registered, cancelled, taken, worker>>
vars  == <<vstore, tstore, clock, writer, mvars, invalidated>>

Records   == [at : Stamps, conn : Conns \cup {NoConn}, app : BOOLEAN]
WriterPCs == {"idle", "cancel", "wipe", "mark"}
RunnerPCs == {"idle", "cancel", "disable", "enable", "stamp", "start",
              "take", "register", "return"}

ResultTypeOK ==
  /\ status \in Statuses
  /\ hasResult \in BOOLEAN /\ stale \in BOOLEAN
  /\ activeRun \in RunIds \cup {NoRun}
  /\ resultRun \in RunIds \cup {NoRun}
  /\ runStartedAt \in 0..MaxClock /\ telemetryAt \in 0..MaxClock
  /\ entities \subseteq Stamps

TelemetryTypeOK ==
  /\ rings \in [Signals -> SUBSET Records]
  /\ lastIngest \in 0..MaxClock
  /\ clock \in 0..MaxClock
  /\ invalidated \subseteq Stamps

WriterTypeOK == writer \in [Writers -> [pc : WriterPCs, at : 0..MaxClock]]

RunnerTypeOK ==
  runner \in [Runners -> [pc : RunnerPCs, run : RunIds \cup {NoRun},
                          at : 0..MaxClock]]

RunTypeOK ==
  /\ runSeq \in 0..MaxRuns
  /\ registered \in RunIds \cup {NoRun}
  /\ cancelled \subseteq RunIds
  /\ taken \in [RunIds -> SUBSET Stamps]
  /\ worker \in [RunIds -> {"none", "checking", "leaving", "gone"}]

TypeOK ==
  ResultTypeOK /\ TelemetryTypeOK /\ WriterTypeOK /\ RunnerTypeOK /\ RunTypeOK

IdleWriter == [pc |-> "idle", at |-> 0]
IdleRunner == [pc |-> "idle", run |-> NoRun, at |-> 0]

\* Manager.Start has run before anything is served: weaver was found or not.
Init ==
  /\ \E st \in {"idle", "disabled"} : VStoreInit(st)
  /\ TStoreInit
  /\ clock = 0
  /\ writer = [w \in Writers |-> IdleWriter]
  /\ runner = [r \in Runners |-> IdleRunner]
  /\ runSeq = 0
  /\ registered = NoRun
  /\ cancelled = {}
  /\ taken = [r \in RunIds |-> {}]
  /\ worker = [r \in RunIds |-> "none"]
  /\ invalidated = {}

-----------------------------------------------------------------------------
(* Manager helpers *)

\* cancelActiveRun: forget the registered run and cancel its context.
CancelActiveRun ==
  /\ registered' = NoRun
  /\ cancelled' = cancelled \cup ({registered} \ {NoRun})

-----------------------------------------------------------------------------
(* Writers: the store's mutation, then its callbacks *)

\* Where a writer goes after the critical section.
Owes(w, reset, at) ==
  writer' = [writer EXCEPT ![w] =
    [pc |-> IF reset THEN "cancel" ELSE IF at # 0 THEN "mark" ELSE "idle",
     at |-> at]]

AllStamps == {rec.at : rec \in Retained}

\* Bound: instants are kept back for the runs still to be numbered.
InstantsLeft == clock + (MaxRuns - runSeq) < MaxClock

AddTelemetry(w, sig, conn, app, lapsed) ==
  /\ writer[w].pc = "idle"
  /\ InstantsLeft
  /\ lapsed => MayLapse(app)
  /\ clock' = clock + 1
  /\ Ingest(sig, [at |-> clock + 1, conn |-> conn, app |-> app], lapsed)
  /\ Owes(w, lapsed, IF Changes(sig, app, lapsed) THEN clock + 1 ELSE 0)
  /\ invalidated' = invalidated \cup (IF lapsed THEN AllStamps ELSE {})
  /\ UNCHANGED <<vstore, mvars>>

ClearAll(w) ==
  /\ writer[w].pc = "idle"
  /\ ClearTelemetry
  /\ Owes(w, TRUE, 0)
  /\ invalidated' = invalidated \cup AllStamps
  /\ UNCHANGED <<vstore, clock, mvars>>

Evict(w, conn) ==
  /\ writer[w].pc = "idle"
  /\ EvictConnection(conn)
  /\ Owes(w, Owned(conn) # {}, 0)
  /\ invalidated' = invalidated \cup {rec.at : rec \in Owned(conn)}
  /\ UNCHANGED <<vstore, clock, mvars>>

\* Manager.Reset, first half.
ResetCancel(w) ==
  /\ writer[w].pc = "cancel"
  /\ CancelActiveRun
  /\ writer' = [writer EXCEPT ![w].pc = "wipe"]
  /\ UNCHANGED <<vstore, tstore, clock, runner, runSeq, taken, worker,
                 invalidated>>

\* Manager.Reset, second half; an ingest still has its change to report.
ResetWipe(w) ==
  /\ writer[w].pc = "wipe"
  /\ ClearResult
  /\ writer' = [writer EXCEPT ![w].pc =
                  IF writer[w].at # 0 THEN "mark" ELSE "idle"]
  /\ UNCHANGED <<tstore, clock, mvars, invalidated>>

Mark(w) ==
  /\ writer[w].pc = "mark"
  /\ MarkTelemetryChanged(writer[w].at)
  /\ writer' = [writer EXCEPT ![w] = IdleWriter]
  /\ UNCHANGED <<tstore, clock, mvars, invalidated>>

WriterStep(w) ==
  \/ \E sig \in Signals, conn \in Conns \cup {NoConn}, lapsed \in BOOLEAN :
       AddTelemetry(w, sig, conn, TRUE, lapsed)
  \/ "logs" \in Signals /\ AddTelemetry(w, "logs", NoConn, FALSE, FALSE)
  \/ ClearAll(w)
  \/ \E conn \in Conns : Evict(w, conn)
  \/ ResetCancel(w) \/ ResetWipe(w) \/ Mark(w)

-----------------------------------------------------------------------------
(* Runners: Manager.Run *)

Goto(r, pc) == runner' = [runner EXCEPT ![r].pc = pc]

\* Bound: every runner already inside will find a number.
RunsLeft ==
  runSeq + Cardinality({q \in Runners : runner[q].pc \in {"enable", "stamp"}})
    < MaxRuns

\* resolveWeaverPath, then the Summary() that decides whether to re-enable.
RunBegin(r) ==
  /\ runner[r].pc = "idle"
  /\ \/ WeaverMayBeMissing /\ Goto(r, "cancel")
     \/ RunsLeft /\ Goto(r, IF status = "disabled" THEN "enable" ELSE "stamp")
  /\ UNCHANGED <<vstore, tstore, clock, writer, runSeq, registered, cancelled,
                 taken, worker, invalidated>>

RunMissingCancel(r) ==
  /\ runner[r].pc = "cancel"
  /\ CancelActiveRun
  /\ Goto(r, "disable")
  /\ UNCHANGED <<vstore, tstore, clock, writer, runSeq, taken, worker,
                 invalidated>>

RunMissingDisable(r) ==
  /\ runner[r].pc = "disable"
  /\ SetRuntimeStatus("disabled")
  /\ Goto(r, "return")
  /\ UNCHANGED <<tstore, clock, writer, runSeq, registered, cancelled, taken,
                 worker, invalidated>>

RunEnable(r) ==
  /\ runner[r].pc = "enable"
  /\ SetRuntimeStatus("idle")
  /\ Goto(r, "stamp")
  /\ UNCHANGED <<tstore, clock, writer, runSeq, registered, cancelled, taken,
                 worker, invalidated>>

\* runSeq.Add(1) and startedAt.
RunStamp(r) ==
  /\ runner[r].pc = "stamp"
  /\ runSeq < MaxRuns /\ clock < MaxClock
  /\ runSeq' = runSeq + 1
  /\ clock' = clock + 1
  /\ runner' = [runner EXCEPT ![r] =
                  [pc |-> "start", run |-> runSeq + 1, at |-> clock + 1]]
  /\ UNCHANGED <<vstore, tstore, writer, registered, cancelled, taken, worker,
                 invalidated>>

\* StartRun admits the run, or answers with the summary of what it refused
\* the run for: then Run returns at once.
RunStart(r) ==
  /\ runner[r].pc = "start"
  /\ \/ StartRun(runner[r].run, runner[r].at) /\ Goto(r, "take")
     \/ /\ ~MayStart
        /\ runner' = [runner EXCEPT ![r] = IdleRunner]
        /\ UNCHANGED vstore
  /\ UNCHANGED <<tstore, clock, writer, runSeq, registered, cancelled, taken,
                 worker, invalidated>>

RunTake(r) ==
  /\ runner[r].pc = "take"
  /\ taken' = [taken EXCEPT ![runner[r].run] = AppStamps]
  /\ Goto(r, "register")
  /\ UNCHANGED <<vstore, tstore, clock, writer, runSeq, registered, cancelled,
                 worker, invalidated>>

\* setActiveRun and `go m.executeRun`.
RunRegister(r) ==
  /\ runner[r].pc = "register"
  /\ registered' = runner[r].run
  /\ worker' = [worker EXCEPT ![runner[r].run] = "checking"]
  /\ Goto(r, "return")
  /\ UNCHANGED <<vstore, tstore, clock, writer, runSeq, cancelled, taken,
                 invalidated>>

\* The last Summary(): Run's answer (module ValidationService reads it).
RunReturn(r) ==
  /\ runner[r].pc = "return"
  /\ runner' = [runner EXCEPT ![r] = IdleRunner]
  /\ UNCHANGED <<vstore, tstore, clock, writer, runSeq, registered, cancelled,
                 taken, worker, invalidated>>

RunnerStep(r) ==
  \/ RunBegin(r) \/ RunMissingCancel(r) \/ RunMissingDisable(r)
  \/ RunEnable(r) \/ RunStamp(r) \/ RunStart(r) \/ RunTake(r)
  \/ RunRegister(r) \/ RunReturn(r)

-----------------------------------------------------------------------------
(* Workers: executeRun *)

Leave(n) ==
  /\ worker' = [worker EXCEPT ![n] = "leaving"]
  /\ UNCHANGED <<tstore, clock, writer, runner, runSeq, registered, cancelled,
                 taken, invalidated>>

\* What weaver has been heard to report when its run ends without an error.
\* Not always all of the snapshot: stopProcess kills a weaver that outlives
\* /stop by two seconds, isExpectedExit accepts the signal, cmd.Wait may close
\* the pipe before it is read to its end, and lines that do not parse are
\* skipped; a cancelled context kills it at any time.
MayHaveFound(n) == SUBSET taken[n]

WorkerComplete(n) ==
  /\ worker[n] = "checking"
  /\ \E found \in MayHaveFound(n) : CompleteRun(n, found)
  /\ Leave(n)

\* An empty snapshot is complete without weaver; any other run can fail.
WorkerFail(n) ==
  /\ worker[n] = "checking" /\ taken[n] # {}
  /\ FailRun(n)
  /\ Leave(n)

\* errors.Is(err, context.Canceled): nothing is published.
WorkerAbandon(n) ==
  /\ worker[n] = "checking" /\ taken[n] # {} /\ n \in cancelled
  /\ UNCHANGED vstore
  /\ Leave(n)

\* The deferred clearActiveRun.
WorkerUnregister(n) ==
  /\ worker[n] = "leaving"
  /\ worker' = [worker EXCEPT ![n] = "gone"]
  /\ registered' = IF registered = n THEN NoRun ELSE registered
  /\ UNCHANGED <<vstore, tstore, clock, writer, runner, runSeq, cancelled,
                 taken, invalidated>>

WorkerEnd(n) == WorkerComplete(n) \/ WorkerFail(n) \/ WorkerAbandon(n)

-----------------------------------------------------------------------------
Next ==
  \/ \E w \in Writers : WriterStep(w)
  \/ \E r \in Runners : RunnerStep(r)
  \/ \E n \in RunIds : WorkerEnd(n) \/ WorkerUnregister(n)

\* A goroutine that has begun is scheduled until it ends; weaver is bounded
\* by its health and export timeouts.  Nobody owes the observer new work.
Fairness ==
  /\ \A w \in Writers : WF_vars(ResetCancel(w) \/ ResetWipe(w) \/ Mark(w))
  /\ \A r \in Runners :
       WF_vars(runner[r].pc # "idle" /\ RunnerStep(r))
  /\ \A n \in RunIds : WF_vars(WorkerEnd(n)) /\ WF_vars(WorkerUnregister(n))

Spec == Init /\ [][Next]_vars /\ Fairness

-----------------------------------------------------------------------------
(* Properties *)

\* Whoever cancelled a run is still about to wipe the result store.
WipePending ==
  \/ \E w \in Writers : writer[w].pc = "wipe"
  \/ \E r \in Runners : runner[r].pc = "disable"

\* No writer owes a callback and no cancellation its wipe: derived state has
\* heard of every mutation.
Settled == (\A w \in Writers : writer[w] = IdleWriter) /\ ~WipePending

\* A result shown as current: validator.Fresh.
ShownFresh == status = "ready" /\ hasResult /\ ~stale

\* README.md:79, "New telemetry marks that result stale until validation is
\* refreshed", as far as the code keeps it: the callbacks run outside the
\* store's lock, so an older change may be reported after a newer one and turn
\* lastTelemetryAt back.  While it is not behind a retained record, a result
\* shown as current is that of a run over exactly the retained telemetry, and
\* names nothing else; it need not speak of every record (MayHaveFound).
FreshUnlessReordered ==
  (ShownFresh /\ Settled /\ (telemetryAt = NoTime \/
                            \A t \in AllStamps : t <= telemetryAt))
    => taken[resultRun] = AppStamps /\ entities \subseteq AppStamps

\* A result, current or stale, is never about telemetry the user cleared, a
\* lapsed session or a closed connection, once the reset those mutations owe
\* has run: runs that took their snapshot before the reset cannot publish
\* after it.
InvalidatedNeverShown ==
  (hasResult /\ Settled) => entities \cap invalidated = {}

\* A run whose context is cancelled may end like any other and publish what
\* weaver had printed so far; a run may be cancelled after it published, too,
\* while it is still registered.  Either way the result is visible only until
\* the wipe that the canceller owes, and what is shown comes from the snapshot
\* of the run it is labelled with.
CancelledNeverKept ==
  hasResult => /\ entities \subseteq taken[resultRun]
               /\ resultRun \in cancelled => WipePending

\* "running" always names a run that some goroutine will end: its worker, the
\* caller between admission by StartRun and setActiveRun, or the reset that is
\* about to wipe it.  The UI never shows a validation nothing will finish.
RunningHasAWorker ==
  status = "running" =>
    /\ activeRun # NoRun
    /\ \/ worker[activeRun] = "checking"
       \/ \E r \in Runners : runner[r].run = activeRun
                             /\ runner[r].pc \in {"take", "register"}
       \/ WipePending

\* Runs numbered by Manager.Run and not yet decided by StartRun.
Undecided == {runner[r].run : r \in {q \in Runners : runner[q].pc = "start"}}

Ledger == INSTANCE RunLedger WITH
  issued <- runSeq, waiting <- Undecided, open <- activeRun, shown <- resultRun

\* Whatever callers, resets and weaver do, results appear as the ledger says:
\* only the admitted run publishes, once, and a wiped result stays wiped until
\* a run admitted after the wipe publishes.
RunsFollowLedger == Ledger!LSpec

\* Every validation in progress ends: with a result, an error or a reset.
RunsSettle == status = "running" ~> status # "running"
=============================================================================
