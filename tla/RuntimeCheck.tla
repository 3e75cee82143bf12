---------------------------- MODULE RuntimeCheck ----------------------------
(***************************************************************************)
(* How a runtime evaluation grades the service that an agent instrumented  *)
(* (pytest_codex_evals, graders/runtime.py): every check brings up a       *)
(* Compose project of its own, sends it traffic, reads what arrived at the *)
(* observer and takes the project down again.  The project works on        *)
(* meanwhile: the application starts when it does and exports what it has  *)
(* recorded in batches.                                                    *)
(***************************************************************************)
EXTENDS Naturals, FiniteSets

CONSTANTS
  Checks,        \* runtime checks under way, one per pytest worker
  Plans,         \* what a check expects of its project, and what the service is like
  MaxSummaries,  \* the number of list entries whose detail is read (20 in the code)
  MaxTroubles    \* bound: commands and requests that fail

\* What an application records of the traffic, and how it ends when it is
\* stopped.  "link" says which span a log names: its own, none, or one that is
\* never exported.
Applications ==
  [logs : Nat, link : {"own", "none", "foreign"}, lines : Nat, greets : BOOLEAN,
   stops : {"flushes", "drops", "killed"}]

ASSUME RuntimeAssumption ==
  /\ MaxSummaries \in Nat \ {0} /\ MaxTroubles \in Nat
  /\ Plans \subseteq [app : Applications, clear : BOOLEAN, stop : BOOLEAN, words : BOOLEAN, exact : Nat]

VARIABLES
  check,     \* the checks
  project,   \* the Compose projects, by name
  troubles   \* history: the checks of which a command or a request failed

runtimeVars == <<check, project, troubles>>

\* Telemetry.  Trace 1 is about the traffic, trace 2 about the startup of the
\* application; 0 stands for an identifier that is none.
Traces == 0 .. 2
Log(trace, span, copy)  == [kind |-> "log", trace |-> trace, span |-> span, copy |-> copy]
Span(trace, span) == [kind |-> "span", trace |-> trace, span |-> span, copy |-> 1]
Logs(records) == {r \in records : r.kind = "log"}

\* What the application records when it starts, and of the traffic.
Greeting(app) == IF app.greets THEN {Log(2, 1, 1), Span(2, 1)} ELSE {}
SpanNamed(app) == CASE app.link = "own" -> 1 [] app.link = "none" -> 0 [] app.link = "foreign" -> 2
Handled(app) ==
  {Span(1, 1)} \cup
  {Log(IF app.link = "none" THEN 0 ELSE 1, SpanNamed(app), n) : n \in 1 .. app.logs}

Gone == [up |-> FALSE, app |-> "absent", buffer |-> {}, store |-> {}, lines |-> 0]
Verdicts == {"none", "passed", "failed"}
NewCheck(plan) ==
  [pc |-> "resolve", plan |-> plan, failures |-> FALSE, seen |-> {}, ask |-> {}, detail |-> <<>>,
   summaries |-> {}, verdict |-> "none"]

\* Mutation: the name of the project is the evaluation's.
OneProjectOf(c) == CHOOSE one \in Checks : TRUE

\* The name of a check's project is drawn for it.
ProjectOf(c) == c

RuntimeInit ==
  /\ \E plan \in Plans, busy \in SUBSET Checks :
       check = [c \in Checks |-> IF c \in busy THEN NewCheck(plan) ELSE [NewCheck(plan) EXCEPT !.pc = "idle"]]
  /\ project = [p \in Checks |-> Gone] /\ troubles = {}

Here(c) == project[ProjectOf(c)]
Advance(c, from, to) == check[c].pc = from /\ check' = [check EXCEPT ![c].pc = to]
World(c, p) == project' = [project EXCEPT ![ProjectOf(c)] = p]

----------------------------------------------------------------------------
\* resolve_compose_file
Resolve(c) == Advance(c, "resolve", "up") /\ UNCHANGED <<project, troubles>>

\* "up -d --build": the containers are started, the application is not ready yet.
Up(c) ==
  /\ Advance(c, "up", "port")
  /\ World(c, [Here(c) EXCEPT !.up = TRUE, !.app = IF @ = "absent" THEN "starting" ELSE @])
  /\ UNCHANGED troubles

\* discover_service_base_url, then wait_for_service: both are about the observer
\* and say nothing of the application.
Port(c) == Here(c).up /\ Advance(c, "port", "wait") /\ UNCHANGED <<project, troubles>>
Wait(c) == Here(c).up /\ Advance(c, "wait", "clear") /\ UNCHANGED <<project, troubles>>

\* clear_service, if there is something to clear.
Clear(c) ==
  /\ Here(c).up /\ Advance(c, "clear", "traffic")
  /\ World(c, IF check[c].plan.clear THEN [Here(c) EXCEPT !.store = {}] ELSE Here(c))
  /\ UNCHANGED troubles

\* "run --rm traffic" to its end: the application answered every request.
Traffic(c) ==
  /\ Here(c).app = "serving"
  /\ Advance(c, "traffic", IF check[c].plan.stop THEN "stop" ELSE "list")
  /\ LET app == check[c].plan.app
     IN World(c, [Here(c) EXCEPT !.buffer = @ \cup Handled(app), !.lines = @ + app.lines])
  /\ UNCHANGED troubles

\* stop_compose_services: the application exports what it still has, ends
\* without that, or has to be killed.
Stop(c) ==
  /\ Here(c).app = "serving" /\ Advance(c, "stop", "stopped")
  /\ LET app == check[c].plan.app
     IN World(c, [Here(c) EXCEPT !.app = IF app.stops = "killed" THEN "killed" ELSE "exited",
                                 !.buffer = {},
                                 !.store = IF app.stops = "flushes" THEN @ \cup Here(c).buffer ELSE @])
  /\ UNCHANGED troubles

\* What "ps" must say of a service that was stopped (compose_ps_records).
Graceful(state) == state = "exited"

Stopped(c) ==
  /\ Advance(c, "stopped", IF Graceful(Here(c).app) THEN "list" ELSE "down")
  /\ UNCHANGED <<project, troubles>>

----------------------------------------------------------------------------
\* check_text_expectations: the list of an endpoint tells of the traffic, where
\* the plan names a word of it.
TextPasses(plan, records) == plan.words => \E r \in records : r.trace = 1 \/ r.trace = 0

\* record_matches, check_json_record_expectations: either the exact number of
\* records match, or at least one does.
CountPasses(plan, matched) == IF plan.exact > 0 THEN Cardinality(matched) = plan.exact ELSE matched /= {}

\* The list of an endpoint is read once.
ReadList(c) ==
  /\ Here(c).up /\ check[c].pc = "list"
  /\ LET plan == check[c].plan
         matched == Logs(Here(c).store)
         counted == CountPasses(plan, matched)
     IN \E first \in SUBSET {r.trace : r \in matched} :
          /\ Cardinality(first) = IF Cardinality({r.trace : r \in matched}) > MaxSummaries THEN MaxSummaries
                                  ELSE Cardinality({r.trace : r \in matched})
          /\ check' = [check EXCEPT ![c].pc = "correlate", ![c].seen = matched,
                                    ![c].failures = ~(TextPasses(plan, matched) /\ counted),
                                    ![c].ask = IF counted THEN {r.trace : r \in matched} \ {0} ELSE {},
                                    ![c].summaries = IF plan.words THEN first ELSE {}]
  /\ UNCHANGED <<project, troubles>>

\* load_trace_detail, once for every trace; {} if there is no such trace yet.
TraceOf(records, trace) == {r \in records : r.kind = "span" /\ r.trace = trace}
LoadDetail(c, trace) ==
  /\ Here(c).up /\ check[c].pc = "correlate" /\ trace \in check[c].ask
  /\ check' = [check EXCEPT ![c].ask = @ \ {trace},
                 ![c].detail = [t \in (DOMAIN @) \cup {trace} |->
                                  IF t = trace THEN TraceOf(Here(c).store, trace) ELSE @[t]]]
  /\ UNCHANGED <<project, troubles>>

\* check_otel_trace_correlation: valid identifiers, and the span is in the
\* detail of its trace.
Correlated(r, detail) ==
  /\ r.trace /= 0 /\ r.span /= 0
  /\ \E s \in detail[r.trace] : s.span = r.span

\* check_record_fields: every record correlates, and no two are the same.
FieldsPass(seen, detail) ==
  /\ \A r \in seen : Correlated(r, detail)
  /\ \A r, s \in seen : r.trace = s.trace /\ r.span = s.span => r = s

Correlate(c) ==
  /\ check[c].pc = "correlate" /\ check[c].ask = {}
  /\ LET me == check[c]
     IN check' = [check EXCEPT ![c].pc = "detail",
                    ![c].failures = @ \/ (CountPasses(me.plan, me.seen) /\ ~FieldsPass(me.seen, me.detail)),
                    ![c].detail = <<>>, ![c].ask = me.summaries]
  /\ UNCHANGED <<project, troubles>>

\* check_detail_expectations: the details of the first entries of the list are
\* read anew, and together have to tell of the traffic.  An entry without an
\* identifier has no detail and is passed over.
HasDetail(c, trace) == TraceOf(Here(c).store, trace) /= {}
ReadDetail(c, trace) ==
  /\ Here(c).up /\ check[c].pc = "detail" /\ trace \in check[c].ask
  /\ trace = 0 \/ HasDetail(c, trace)
  /\ check' = [check EXCEPT ![c].ask = @ \ {trace},
                            ![c].summaries = IF trace = 1 THEN @ ELSE @ \ {trace}]
  /\ UNCHANGED <<project, troubles>>
\* The observer answers 404 for a trace of which it has no span yet, which ends
\* the check (request_json_text).
DetailMissing(c, trace) ==
  /\ Here(c).up /\ check[c].pc = "detail" /\ trace \in check[c].ask
  /\ trace /= 0 /\ ~HasDetail(c, trace)
  /\ check' = [check EXCEPT ![c].pc = "down", ![c].verdict = "failed"]
  /\ UNCHANGED <<project, troubles>>
Detail(c) ==
  /\ check[c].pc = "detail" /\ check[c].ask = {}
  /\ check' = [check EXCEPT ![c].pc = "logs",
                 ![c].failures = @ \/ (check[c].plan.words /\ check[c].summaries = {})]
  /\ UNCHANGED <<project, troubles>>

\* validate_service_log_expectations: the service still prints each line once.
ServiceLogs(c) ==
  /\ Here(c).up /\ check[c].pc = "logs"
  /\ check' = [check EXCEPT ![c].pc = "down",
                 ![c].verdict = IF ~check[c].failures /\ Here(c).lines = 1 THEN "passed" ELSE "failed"]
  /\ UNCHANGED <<project, troubles>>

\* A command or a request fails or takes too long: the check has failed.  What
\* it asked for may have happened all the same.
Fails(c) ==
  /\ check[c].pc \notin {"idle", "down", "ended"} /\ Cardinality(troubles) < MaxTroubles
  /\ check' = [check EXCEPT ![c].pc = IF @ = "resolve" THEN "ended" ELSE "down",
                            ![c].verdict = "failed"]
  /\ \/ UNCHANGED project
     \/ check[c].pc = "up" /\ World(c, [Here(c) EXCEPT !.up = TRUE, !.app = "starting"])
  /\ troubles' = troubles \cup {c}

\* The end of run_runtime_check: the project is taken down whatever happened.
FinalVerdict(c) == IF check[c].verdict = "none" THEN "failed" ELSE check[c].verdict
Down(c) ==
  /\ check[c].pc = "down"
  /\ check' = [check EXCEPT ![c].pc = "ended", ![c].verdict = FinalVerdict(c)]
  /\ World(c, Gone) /\ UNCHANGED troubles
\* ... and if that fails, nobody hears of it.
DownFails(c) ==
  /\ check[c].pc = "down" /\ Cardinality(troubles) < MaxTroubles
  /\ check' = [check EXCEPT ![c].pc = "ended", ![c].verdict = FinalVerdict(c)]
  /\ troubles' = troubles \cup {c} /\ UNCHANGED project

----------------------------------------------------------------------------
\* The application becomes ready, and its exporters send some of the logs or of
\* the spans.
AppStarts(c) ==
  /\ Here(c).app = "starting"
  /\ World(c, [Here(c) EXCEPT !.app = "serving", !.buffer = Greeting(check[c].plan.app)])
  /\ UNCHANGED <<check, troubles>>
Export(c, kind) ==
  /\ Here(c).app = "serving"
  /\ \E batch \in SUBSET {r \in Here(c).buffer : r.kind = kind} :
       /\ batch /= {}
       /\ World(c, [Here(c) EXCEPT !.buffer = @ \ batch, !.store = @ \cup batch])
  /\ UNCHANGED <<check, troubles>>

RuntimeNext ==
  \E c \in Checks :
    \/ Resolve(c) \/ Up(c) \/ Port(c) \/ Wait(c) \/ Clear(c) \/ Traffic(c) \/ Stop(c) \/ Stopped(c)
    \/ ReadList(c) \/ Correlate(c) \/ Detail(c) \/ ServiceLogs(c)
    \/ \E t \in Traces : LoadDetail(c, t) \/ ReadDetail(c, t) \/ DetailMissing(c, t)
    \/ Fails(c) \/ Down(c) \/ DownFails(c)
    \/ AppStarts(c) \/ \E k \in {"log", "span"} : Export(c, k)
RuntimeSpec == RuntimeInit /\ [][RuntimeNext]_runtimeVars

----------------------------------------------------------------------------
RuntimeTypeOK ==
  /\ \A c \in Checks :
       /\ check[c].pc \in {"idle", "resolve", "up", "port", "wait", "clear", "traffic", "stop", "stopped", "list", "correlate",
                           "detail", "logs", "down", "ended"}
       /\ check[c].verdict \in Verdicts /\ check[c].ask \subseteq Traces
       /\ project[c].app \in {"absent", "starting", "serving", "exited", "killed"}
  /\ troubles \subseteq Checks

\* A service whose telemetry is what the plan asks for, one that prints its line
\* once and was not killed, and one that is both.
Tells(app) == app.logs = 1 /\ app.link = "own"
Behaves(plan) == plan.app.lines = 1 /\ (plan.stop => plan.app.stops /= "killed")
Sound_(plan) == Tells(plan.app) /\ Behaves(plan)

\* A check passes only if the service behaves, and tells of the traffic what the
\* plan asks for (run_runtime_check, validate_endpoint_expectations), with two
\* exceptions.  What the application records at its start stands in for the
\* telemetry of the traffic where no text of the traffic is asked for and nothing
\* of the traffic was counted; and a record too many is missed if it had not been
\* exported when the list was read, which cannot be where the service was stopped
\* and exported everything.
PassIsDeserved ==
  \A c \in Checks :
    LET plan == check[c].plan
        seen == check[c].seen
        sent == Logs(Handled(plan.app))
    IN check[c].verdict = "passed" =>
         /\ Behaves(plan)
         /\ \/ Tells(plan.app)
            \/ ~plan.words /\ seen \cap sent = {} /\ \E r \in seen : r.trace = 2
            \/ /\ plan.app.logs > 1 /\ plan.app.link = "own" /\ sent \ seen /= {}
               /\ ~(plan.stop /\ plan.app.stops = "flushes")

\* A sound service that is stopped before it is validated, and then exports what
\* it still has, passes where no more than its one log is asked for, unless a
\* command failed or telemetry of its start was among what was counted: nothing
\* is lost between two reads of the observer
\* (stop_compose_services before validate_endpoint_expectations).
SoundServicePasses ==
  \A c \in Checks :
    LET plan == check[c].plan
    IN check[c].pc = "ended" /\ Sound_(plan) /\ plan.stop /\ plan.app.stops = "flushes"
         /\ plan.exact <= 1 /\ c \notin troubles
         => check[c].verdict = "passed" \/ \E r \in check[c].seen : r.trace = 2

\* While a check is at work its project is up, whatever other checks take down;
\* when it has ended the project is gone, unless a command of the check failed.
ProjectIsItsOwn ==
  \A c \in Checks :
    /\ check[c].pc \in {"port", "wait", "clear", "traffic", "list", "correlate", "detail", "logs"} => Here(c).up
    /\ check[c].pc = "ended" /\ c \notin troubles => ~Here(c).up

\* A runtime check passes for a service that deserves it, and for every sound one
\* that it can see all of; it keeps to its own project and leaves none behind
\* (run_runtime_check).
ChecksAreEarned == RuntimeTypeOK /\ PassIsDeserved /\ SoundServicePasses /\ ProjectIsItsOwn
=============================================================================
