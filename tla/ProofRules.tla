----------------------------- MODULE ProofRules -----------------------------
(***************************************************************************)
(* What observe_report_core.py accepts as an audit, an instrumentation and *)
(* a verification, and what observe_report_html.py tells the reader about  *)
(* them.  Texts are present or not; a scenario or a telemetry item is the  *)
(* record of what was run, seen and stored for it.                         *)
(***************************************************************************)
EXTENDS Integers, FiniteSets, Sequences

Results == {"Pass", "Partial", "Blocked", "Fail", "Not run"}

\* PROOF_MODES, VISIBILITY_STATES, SCENARIO_STATUSES, CLOSURE_STATUSES: static
\* stands for contract_only too, focused for app_test, unit and unit+otlp.
Modes      == {"not_run", "static", "focused", "runtime"}
Visibility == {"not_proven", "not_applicable", "not_explorer_visible", "otlp_accepted", "explorer_visible"}
Statuses   == {"working", "not_working", "not_proven", "not_configured", "blocked"}
Closures   == {"working", "not_working", "not_proven", "not_configured", "deferred"}

\* Of a proof: the commands, the evidence, what was observed with the product's
\* side of it, and the reason and outcome that a blocked scenario must name.
Scenarios ==
  [status: Statuses, mode: Modes, vis: Visibility,
   commands: BOOLEAN, evidence: BOOLEAN, seen: BOOLEAN, reasons: BOOLEAN]
\* An item maps to scenarios; it may remove a signal, for which a replacement is
\* proved; its product view may say that nothing is exported.
TelemetryItems ==
  [status: Statuses, mode: Modes, vis: Visibility, passed: BOOLEAN, mapped: BOOLEAN,
   evidence: BOOLEAN, seen: BOOLEAN, removes: BOOLEAN,
   removal: {"none", "half", "proved"}, offline: BOOLEAN]

Ran(p)       == p.mode /= "not_run"
Delivered(p) == p.vis \in {"otlp_accepted", "explorer_visible"}
Shown(p)     == p.evidence /\ p.seen /\ Ran(p)

\* The rows of verify.findings[].scenarios
ScenarioAccepted(s) ==
  /\ (s.status = "blocked") = s.reasons
  /\ s.status = "blocked" => s.commands /\ s.evidence /\ ~Ran(s) /\ s.vis = "not_proven"
  /\ s.status = "working" => Shown(s) /\ s.vis /= "not_proven"
  /\ s.status = "not_working" \/ Delivered(s) => Shown(s)

\* Mutation: a test that only reads the source proves an item.
ItemAcceptedByReading(i) ==
  /\ i.passed = (i.status = "working")
  /\ i.removes /\ i.status = "working" => i.removal = "proved"
  /\ i.status = "working" => i.mapped /\ Shown(i) /\ i.vis /= "not_proven"
  /\ i.status = "not_working" \/ Delivered(i) => i.mapped /\ Shown(i)
  /\ Delivered(i) => ~i.offline

\* The rows of item_results, and item_source_denies_delivery
ItemAccepted(i) ==
  /\ i.passed = (i.status = "working")
  /\ i.removes /\ i.status = "working" => i.removal = "proved"
  /\ i.status = "working" => i.mapped /\ Shown(i) /\ i.mode /= "static" /\ i.vis /= "not_proven"
  /\ i.status = "not_working" \/ Delivered(i) => i.mapped /\ Shown(i)
  /\ Delivered(i) => ~i.offline

Proofs(row)     == row.scenarios \cup row.items
All(ps, status) == \A p \in ps : p.status = status
Some(ps, status) == \E p \in ps : p.status = status

\* One finding of a verification: its status, its scenarios and items, and
\* whether work remains.
RowAccepted(row) ==
  /\ \A s \in row.scenarios : ScenarioAccepted(s)
  /\ \A i \in row.items : ItemAccepted(i)
  /\ row.status = "working" => Proofs(row) /= {} /\ All(Proofs(row), "working") /\ ~row.remaining
  /\ (row.status = "not_working") = Some(Proofs(row), "not_working")
  /\ All(Proofs(row), "working") /\ ~row.remaining => row.status = "working"
  /\ row.status /= "working" => row.remaining

Values(f) == {f[x] : x \in DOMAIN f}

\* Such a row with all its fields, and what they may contain.
ResultRow(row) ==
  /\ RowAccepted(row) /\ row.status \in Closures
  /\ row.scenarios \subseteq Scenarios /\ IsFiniteSet(row.scenarios)
  /\ \A i \in row.items : i.status \in Statuses /\ i.mode \in Modes /\ i.vis \in Visibility
  /\ \A i, j \in row.items : i.id = j.id => i = j

\* The last part of normalize_verify: the one result that the rows allow.
ExpectedResult(rows) ==
  IF \E r \in rows : r.status = "not_working" THEN "Fail"
  ELSE IF rows /= {} /\ All(rows, "working") THEN "Pass"
  ELSE IF \E r \in rows : \E p \in Proofs(r) : Ran(p) THEN "Partial"
  ELSE IF \E r \in rows : Some(r.scenarios, "blocked") THEN "Blocked"
  ELSE "Not run"

\* normalize_verify, for rows each of which is accepted.
VerifyAccepted(rows, result) ==
  /\ (\E r \in rows : r.status = "not_working") = (result = "Fail")
  /\ result = "Pass" => All(rows, "working")
  /\ rows /= {} /\ All(rows, "working") => result = "Pass"
  /\ result = ExpectedResult(rows)

\* normalize_instrumentation: the statuses of the approved findings.
InstrumentationAccepted(statuses, result) ==
  /\ result \in Results \ {"Not run"}
  /\ ("not_working" \in statuses) = (result = "Fail")
  /\ result = "Pass" => statuses = {"working"}
  /\ statuses = {"working"} => result = "Pass"

----------------------------------------------------------------------------
\* The readiness rules of normalize_audit_report.  An audit has a status, may
\* name what blocked the scan, and has readiness rows and findings by area; a
\* finding is resolved or not and has scenarios or not; the flow map marks gaps.
Readiness == {"covered", "partial", "missing", "owner-mapped"}

\* Rows of incident readiness against the unresolved findings of their areas.
ReadinessAccepted(a) ==
  \A area \in DOMAIN a.incident :
    LET unresolved == {f \in a.findings : f.open /\ f.area = area}
    IN IF a.incident[area] = "covered" THEN unresolved = {}
       ELSE unresolved /= {} /\ \A f \in unresolved : f.scenarios

\* Rows of GenAI readiness: here an external owner may stand in for the finding.
GenaiAccepted(a) ==
  /\ a.genai = (DOMAIN a.surfaces /= {})
  /\ \A area \in DOMAIN a.surfaces :
       LET unresolved == {f \in a.findings : f.open /\ f.area = area}
       IN IF a.surfaces[area] \in {"covered", "owner-mapped"}
          THEN unresolved = {} /\ (a.surfaces[area] = "owner-mapped" => a.owner)
          ELSE unresolved /= {} /\ \A f \in unresolved : f.scenarios

AuditStatusAccepted(a) ==
  /\ (a.status = "Blocked") = a.scanBlocked
  /\ a.status = "Pass" => a.findings = {} /\ \A s \in DOMAIN a.surfaces : a.surfaces[s] \in {"covered", "owner-mapped"}
  /\ a.status = "Partial" => a.findings /= {}

\* Every finding has its own area, and the flow map marks exactly these areas.
FlowAccepted(a) ==
  /\ \A f, g \in a.findings : f.area = g.area => f = g
  /\ a.gaps = {f.area : f \in a.findings}

AuditReady(a) ==
  AuditStatusAccepted(a) /\ GenaiAccepted(a) /\ ReadinessAccepted(a) /\ FlowAccepted(a)

----------------------------------------------------------------------------
\* What the reader is told.

\* scenario_has_positive_observation
Positive(s) ==
  \/ s.status = "working"
  \/ s.status = "not_proven" /\ s.vis /= "not_proven" /\ Shown(s)

\* render_coverage_details: the first group that fits.
CoverageGroup(s) ==
  CASE s.status = "working" /\ Positive(s) -> IF s.mode = "runtime" THEN "runtime" ELSE "focused"
    [] s.status = "not_proven" /\ Positive(s) -> "incomplete"
    [] s.status = "not_working" -> "failed"
    [] s.status \in {"blocked", "not_configured"} -> s.status
    [] s.status = "not_proven" /\ ~Positive(s) -> IF Ran(s) THEN "unresolved" ELSE "not_run"

\* finding_verification_summary: every sentence that names the scenario.
SummarySentences(s) ==
  {k \in {"runtime", "focused", "incomplete", "not_run", "unresolved", "failed", "not_configured"} :
     CASE k = "runtime"    -> s.status = "working" /\ Positive(s) /\ s.mode = "runtime"
       [] k = "focused"    -> s.status = "working" /\ Positive(s) /\ s.mode /= "runtime"
       [] k = "incomplete" -> s.status = "not_proven" /\ Positive(s)
       [] k = "not_run"    -> s.status = "not_proven" /\ ~Ran(s)
       [] k = "unresolved" -> s.status = "not_proven" /\ Ran(s) /\ ~Positive(s)
       [] k = "failed"     -> s.status = "not_working"
       [] k = "not_configured" -> s.status = "not_configured"}

\* finding_verification_heading
FindingHeading(row) ==
  IF Some(Proofs(row), "not_working") \/ row.status = "not_working" THEN "failed"
  ELSE IF row.status = "working" THEN "complete" ELSE "incomplete"

\* aggregate_instrumentation_result, has_completed_instrumentation_scope
Aggregate(instrumented, statuses, verified) ==
  CASE verified = "none" -> instrumented
    [] verified = "Blocked" -> IF "working" \in statuses THEN "Partial" ELSE "Blocked"
    [] verified = "Not run" -> "Partial"
    [] verified \in {"Pass", "Partial", "Fail"} -> verified

\* render_instrumentation_summary: the heading.
Heading(instrumented, statuses, verified, failures) ==
  LET total == Aggregate(instrumented, statuses, verified)
  IN CASE verified = "none" -> "instrumentation " \o total \o ", verification not run"
       [] verified /= "none" /\ total = "Pass" -> "all complete"
       [] total = "Fail" -> "verification failed"
       [] verified = "Partial" /\ failures = 0 -> "verification incomplete"
       [] verified = "Blocked" -> "verification blocked"
       [] verified = "Not run" -> "verification not run"
       [] OTHER -> total

----------------------------------------------------------------------------
(* Properties of one verification, of one scenario and of one audit *)

\* Whatever was proved and whatever was not, a verification has exactly one
\* result that normalize_verify takes, and the result says what ran: nothing
\* for Blocked and Not run, something without a failure for Partial, a proof
\* that ran and failed for Fail, proofs that all ran and worked for Pass.
ResultTells(rows) ==
  LET proofs   == UNION {Proofs(r) : r \in rows}
      ran      == {p \in proofs : Ran(p)}
      accepted == {res \in Results : VerifyAccepted(rows, res)}
  IN \E res \in accepted :
       /\ accepted = {res}
       /\ res \in {"Blocked", "Not run"} => ran = {}
       /\ res = "Partial" => ran /= {} /\ ~Some(proofs, "not_working")
       /\ res = "Fail" => Some(ran, "not_working")
       /\ res = "Pass" => proofs /= {} /\ ran = proofs /\ All(proofs, "working")

\* The page sorts every scenario once, and the sentences of its summary say of
\* it what its details say (render_coverage_details and
\* finding_verification_summary, which classify independently).
SaysWhatItSorts(s) == s.status /= "blocked" => SummarySentences(s) = {CoverageGroup(s)}

\* The rules of an audit, each about its own list, leave one story together: an
\* incident area or GenAI surface that is not covered (nor owned elsewhere) has
\* exactly one finding, which is open, says how to verify it and is marked in the
\* flow map, the other areas have no open finding, and a Pass has no gap at all
\* (the rules at the end of normalize_audit_report).
NamesEveryGap(a) ==
  LET uncovered == {x \in DOMAIN a.incident : a.incident[x] /= "covered"}
                     \cup {x \in DOMAIN a.surfaces : a.surfaces[x] \notin {"covered", "owner-mapped"}}
  IN /\ \A area \in uncovered : \E f \in a.findings :
          {g \in a.findings : g.area = area} = {f} /\ f.open /\ f.scenarios /\ area \in a.gaps
     /\ \A f \in a.findings : f.open /\ f.area \in DOMAIN a.incident \cup DOMAIN a.surfaces => f.area \in uncovered
     /\ a.status = "Pass" => uncovered = {}
=============================================================================
