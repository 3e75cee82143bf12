--------------------------- MODULE ValidatorStore ---------------------------
(***************************************************************************)
(* The validator's result store (internal/validator/store.go): what the    *)
(* UI, the HTTP API and the MCP tools read as "the validation result".     *)
(* Every operation runs under one mutex, so each one is one step.          *)
(*                                                                         *)
(* Run identifiers "run-1", "run-2", ... are the naturals 1, 2, ...; 0 is  *)
(* the empty string.  Times are naturals; 0 is the zero time.Time.  The    *)
(* entities of a result are abstracted to the set of telemetry records     *)
(* (named by the instant they were stored) that the run has examined.      *)
(***************************************************************************)
EXTENDS Naturals

NoRun  == 0
NoTime == 0

Statuses == {"disabled", "idle", "running", "ready", "error"}

VARIABLES
  status,        \* RuntimeStatus
  hasResult,     \* a finished run's result is retained
  stale,         \* telemetry changed since that result was computed
  activeRun,     \* the run allowed to publish
  resultRun,     \* the run whose result is retained
  runStartedAt,  \* lastRunStartedAt
  telemetryAt,   \* lastTelemetryAt
  entities       \* the records the retained result is about

vstore == <<status, hasResult, stale, activeRun, resultRun, runStartedAt,
            telemetryAt, entities>>

\* NewStore (disabled), then the status Manager.Start gives it.
VStoreInit(st) ==
  /\ status = st
  /\ hasResult = FALSE /\ stale = FALSE
  /\ activeRun = NoRun /\ resultRun = NoRun
  /\ runStartedAt = NoTime /\ telemetryAt = NoTime
  /\ entities = {}

\* Mutation: the run in progress survives a wipe.
ForgetAllButTheRun ==
  /\ hasResult' = FALSE /\ stale' = FALSE
  /\ resultRun' = NoRun
  /\ runStartedAt' = NoTime /\ telemetryAt' = NoTime
  /\ entities' = {}
  /\ UNCHANGED activeRun

ForgetEverything ==
  /\ hasResult' = FALSE /\ stale' = FALSE
  /\ activeRun' = NoRun /\ resultRun' = NoRun
  /\ runStartedAt' = NoTime /\ telemetryAt' = NoTime
  /\ entities' = {}

SetRuntimeStatus(st) ==
  /\ status' = st
  /\ \/ st = "disabled" /\ ForgetEverything
     \/ /\ st # "disabled"
        /\ UNCHANGED <<hasResult, stale, activeRun, resultRun, runStartedAt,
                       telemetryAt, entities>>

MayStart == status # "disabled" /\ ~(status = "running" /\ activeRun # NoRun)

StartRun(r, at) ==
  /\ MayStart
  /\ status' = "running"
  /\ activeRun' = r
  /\ runStartedAt' = at
  /\ UNCHANGED <<hasResult, stale, resultRun, telemetryAt, entities>>

Publish(r, found) ==
  /\ entities' = found
  /\ hasResult' = TRUE
  /\ stale' = (telemetryAt # NoTime /\ telemetryAt > runStartedAt)
  /\ status' = "ready"
  /\ resultRun' = r
  /\ UNCHANGED <<runStartedAt, telemetryAt>>

\* Mutation: a run publishes although it is not the active one any more.
CompleteAnyRun(r, found) == Publish(r, found) /\ activeRun' = NoRun

\* Mutation: the run that has published stays active.
CompleteStayingActive(r, found) ==
  \/ activeRun # r /\ UNCHANGED vstore
  \/ activeRun = r /\ Publish(r, found) /\ UNCHANGED activeRun

CompleteRun(r, found) ==
  \/ activeRun # r /\ UNCHANGED vstore
  \/ activeRun = r /\ Publish(r, found) /\ activeRun' = NoRun

\* Mutation: a failure over an earlier result is not shown.
FailSilently(r) ==
  \/ activeRun # r /\ UNCHANGED vstore
  \/ /\ activeRun = r
     /\ activeRun' = NoRun
     /\ status' = IF hasResult THEN status ELSE "error"
     /\ stale' = (stale \/ hasResult)
     /\ UNCHANGED <<hasResult, resultRun, runStartedAt, telemetryAt, entities>>

FailRun(r) ==
  \/ activeRun # r /\ UNCHANGED vstore
  \/ /\ activeRun = r
     /\ activeRun' = NoRun
     /\ status' = "error"
     /\ stale' = (stale \/ hasResult)
     /\ UNCHANGED <<hasResult, resultRun, runStartedAt, telemetryAt, entities>>

\* Mutation: only the time of the change is noted.
MarkTimeOnly(at) ==
  /\ telemetryAt' = at
  /\ UNCHANGED <<status, hasResult, stale, activeRun, resultRun, runStartedAt,
                 entities>>

MarkTelemetryChanged(at) ==
  /\ telemetryAt' = at
  /\ stale' = (stale \/ hasResult)
  /\ UNCHANGED <<status, hasResult, activeRun, resultRun, runStartedAt,
                 entities>>

ClearResult ==
  /\ ForgetEverything
  /\ status' = IF status = "disabled" THEN "disabled" ELSE "idle"

\* Of the Summary a reader is given, what its answer is labelled by.
Summary == [status |-> status, result |-> resultRun]
=============================================================================
