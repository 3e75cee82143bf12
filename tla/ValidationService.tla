-------------------------- MODULE ValidationService -------------------------
(***************************************************************************)
(* The synchronous face of validation (internal/validator/service.go):     *)
(* Service.Analyze and Service.Refresh as the HTTP API and the MCP tools   *)
(* call them.  A client runs Manager.Run itself (it is one of the Runners) *)
(* and then polls the result store until its run is decided.  Summary(),   *)
(* QueryFindings() and QueryIssues() are three acquisitions of the store's *)
(* lock; of an answer the run that its summary names is kept.              *)
(***************************************************************************)
EXTENDS Validation

CONSTANT MaxCalls  \* bound: calls all clients make together

ASSUME CallAssumption == MaxCalls \in Nat

VARIABLES
  call,   \* client -> the call in progress or the last answer
  calls,  \* number of calls made
  late    \* history: a re-enabling found the validator enabled by then

svars == <<call, calls, late>>

Decided   == {"idle", "answered", "refused", "replaced", "failed", "timeout"}
ClientPCs == Decided \cup {"enable", "running", "waiting", "findings"}
Bases == {"none", "fresh_run", "latest_fresh_result", "stale_result"}

NoSummary == [status |-> "idle", result |-> NoRun]

\* prior: the run whose result was retained when the call was made.
NoCall == [pc |-> "idle", prior |-> NoRun, run |-> NoRun, basis |-> "none",
           head |-> NoSummary]

ServiceTypeOK ==
  /\ TypeOK
  /\ call \in [Runners ->
       [pc : ClientPCs, prior : RunIds \cup {NoRun}, run : RunIds \cup {NoRun},
        basis : Bases,
        head : [status : Statuses, result : RunIds \cup {NoRun}]]]
  /\ calls \in 0..MaxCalls
  /\ late \in BOOLEAN

ServiceInit ==
  /\ Init
  /\ call = [c \in Runners |-> NoCall]
  /\ calls = 0
  /\ late = FALSE

MayCall(c) == call[c].pc \in Decided /\ calls < MaxCalls

Begin(c, pc) ==
  /\ MayCall(c)
  /\ calls' = calls + 1
  /\ call' = [call EXCEPT ![c] =
                [NoCall EXCEPT !.pc = pc, !.prior = resultRun]]
  /\ UNCHANGED <<vars, late>>

\* runAnalysis reads the summary it decides by.
Refresh(c) == Begin(c, IF status = "disabled" THEN "enable" ELSE "running")

\* It re-enables a validator it saw disabled, whatever happened since, and so
\* does Manager.Run (RunEnable): whatever the status has become is overwritten.
Reenable(c) ==
  /\ call[c].pc = "enable"
  /\ SetRuntimeStatus("idle")
  /\ call' = [call EXCEPT ![c].pc = "running"]
  /\ late' = (late \/ status # "disabled")
  /\ UNCHANGED <<tstore, clock, writer, mvars, invalidated, calls>>

\* Analyze with a retained result, labelled by the summary just read.
AnalyzeLatest(c) ==
  /\ MayCall(c) /\ hasResult
  /\ calls' = calls + 1
  /\ call' = [call EXCEPT ![c] =
       [NoCall EXCEPT !.pc = "findings", !.prior = resultRun, !.head = Summary,
          !.basis = IF stale THEN "stale_result" ELSE "latest_fresh_result"]]
  /\ UNCHANGED <<vars, late>>

\* What runAnalysis makes of the summary Manager.Run answers with.
Started(c) ==
  call' = [call EXCEPT ![c] =
    IF activeRun # NoRun
      THEN [@ EXCEPT !.pc = "waiting", !.run = activeRun]
    ELSE IF hasResult
      THEN [@ EXCEPT !.pc = "findings", !.basis = "fresh_run",
                     !.head = Summary]
    ELSE [@ EXCEPT !.pc = "refused"]]

\* The client's steps inside Manager.Run.
InRun(c) ==
  /\ call[c].pc = "running"
  /\ RunnerStep(c)
  /\ \/ runner'[c].pc # "idle" /\ UNCHANGED call
     \/ runner'[c].pc = "idle" /\ Started(c)
  /\ late' = (late \/ (runner[c].pc = "enable" /\ status # "disabled"))
  /\ UNCHANGED calls

\* Mutation: any retained result will do.
PollAnyResult(c) ==
  /\ call[c].pc = "waiting"
  /\ call' = [call EXCEPT ![c] =
       IF hasResult
         THEN [@ EXCEPT !.pc = "findings", !.basis = "fresh_run",
                        !.head = Summary]
       ELSE IF activeRun = NoRun /\ status = "error"
         THEN [@ EXCEPT !.pc = "failed"]
       ELSE @]
  /\ UNCHANGED <<vars, calls, late>>

\* One poll of WaitForRun.
Poll(c) ==
  /\ call[c].pc = "waiting"
  /\ call' = [call EXCEPT ![c] =
       IF resultRun = @.run /\ hasResult
         THEN [@ EXCEPT !.pc = "findings", !.basis = "fresh_run",
                        !.head = Summary]
       ELSE IF activeRun # NoRun /\ activeRun # @.run
         THEN [@ EXCEPT !.pc = "replaced"]
       ELSE IF activeRun = NoRun /\ status = "error"
         THEN [@ EXCEPT !.pc = "failed"]
       ELSE @]
  /\ UNCHANGED <<vars, calls, late>>

Timeout(c) ==
  /\ call[c].pc = "waiting"
  /\ call' = [call EXCEPT ![c].pc = "timeout"]
  /\ UNCHANGED <<vars, calls, late>>

\* The findings and the issues are read under locks of their own; of the answer
\* only the run it names is kept here.
Answer(c) ==
  /\ call[c].pc = "findings"
  /\ call' = [call EXCEPT ![c].pc = "answered"]
  /\ UNCHANGED <<vars, calls, late>>

ClientStep(c) ==
  \/ Refresh(c) \/ Reenable(c) \/ AnalyzeLatest(c) \/ InRun(c)
  \/ Poll(c) \/ Timeout(c) \/ Answer(c)

Environment ==
  /\ \/ \E w \in Writers : WriterStep(w)
     \/ \E n \in RunIds : WorkerEnd(n) \/ WorkerUnregister(n)
  /\ UNCHANGED svars

ServiceNext == Environment \/ \E c \in Runners : ClientStep(c)

ServiceSpec == ServiceInit /\ [][ServiceNext]_<<vars, svars>>

-----------------------------------------------------------------------------
(* Properties *)

\* docs/architecture-proposal.md:207, observer_validation_refresh: "Force a
\* fresh validation run against current telemetry".  As far as the code keeps
\* it (service.go:171-175): an answer labelled fresh repeats the result that was
\* there before the call only with the status of a run that failed before
\* Manager.Run read its closing summary - unless some call, which had seen the
\* validator disabled, re-enabled it too late and so wiped out that status.
RepeatedOnlyAfterFailure ==
  \A c \in Runners :
    (call[c].pc = "answered" /\ call[c].basis = "fresh_run"
       /\ call[c].head.result = call[c].prior)
      => \/ call[c].head.status = "error"
         \/ call[c].head.status = "idle" /\ late

\* What a client is told of its run is about that run or shows that there is
\* none (runAnalysis, WaitForRun), in states that are well typed.
AnswersAreSound == ServiceTypeOK /\ RepeatedOnlyAfterFailure
=============================================================================
