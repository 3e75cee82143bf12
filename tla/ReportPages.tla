---------------------------- MODULE ReportPages ----------------------------
(***************************************************************************)
(* What otel.html shows of a bound flow (observe_report_html.py): the      *)
(* counts at its top, a card and a row for every approved finding, a line  *)
(* for every telemetry change, and what to do next.  Each of these is      *)
(* computed by a function of its own from the same files.                  *)
(***************************************************************************)
EXTENDS ReportMarkdown

\* What was proved of the flow, with the finding that it is about.
ProofsOf(flow, field) ==
  UNION {{<<f, p>> : p \in flow.verify.rows[f][field]} : f \in DOMAIN flow.verify.rows}
HowManyHave(ps, Test(_)) == Cardinality({p \in ps : Test(p[2])})

\* instrumentation_proof_counts
ProofCounts(flow) ==
  LET scenarios == ProofsOf(flow, "scenarios")
      items     == ProofsOf(flow, "items")
      status(s) == HowManyHave(scenarios, LAMBDA p : p.status = s)
      unproven(ran) == HowManyHave(scenarios, LAMBDA p : p.status = "not_proven" /\ Ran(p) = ran)
  IN [items     |-> Len(flow.planned),
      exercised |-> HowManyHave(items, LAMBDA p : Ran(p)),
      working   |-> HowManyHave(items, LAMBDA p : p.status = "working"),
      visible   |-> HowManyHave(items, LAMBDA p : p.vis = "explorer_visible"),
      accepted  |-> HowManyHave(items, LAMBDA p : p.vis = "otlp_accepted"),
      reached   |-> HowManyHave(scenarios, LAMBDA p : Delivered(p)),
      failed    |-> Cardinality({f \in DOMAIN flow.verify.rows : flow.verify.rows[f].status = "not_working"}),
      scenarios |-> Cardinality(scenarios),
      by        |-> <<status("working"), status("blocked"), unproven(TRUE), unproven(FALSE),
                      status("not_configured"), status("not_working")>>]

----------------------------------------------------------------------------
\* telemetry_item_status_label (the card) and human_item_proof_status (the
\* table of all items and the details of the verification).
CardLabel(i) ==
  CASE i.status = "working" -> "proven"
    [] i.status = "not_proven" -> IF Ran(i) THEN "unproven" ELSE "unchecked"
    [] OTHER -> i.status
TableLabel(i) ==
  CASE i.status = "not_proven" /\ Ran(i) -> "unproven"
    [] i.status = "not_proven" /\ ~Ran(i) -> "unchecked"
    [] i.status = "working" -> "proven"
    [] OTHER -> i.status

\* telemetry_item_observation: what the page says was observed.
Observation(i) ==
  CASE i.status = "not_proven" /\ ~Ran(i) -> "unchecked"
    [] i.status = "not_proven" /\ Ran(i) /\ i.vis \in {"not_explorer_visible", "not_proven"} -> "nothing"
    [] OTHER -> IF i.seen THEN "observed" ELSE "nothing"

\* render_overlay_impact: what the result means, and what was delivered.
Interpretation(flow) ==
  CASE flow.verify.result = "Pass" -> "every item was observed"
    [] flow.verify.result = "Partial" -> "nothing failed"
    [] flow.verify.result = "Fail" -> "something failed"
    [] flow.verify.result = "Blocked" -> "a prerequisite is missing"
    [] flow.verify.result \in {"Not run", "none"} -> "nothing ran"
DeliveryStat(counts) ==
  IF counts.accepted > 0 /\ counts.visible = 0 THEN counts.accepted ELSE counts.visible

\* render_finding_verification_follow_up, verification_failure_observations
FollowUp(row) ==
  CASE row.status \in {"working", "not_proven"} -> "none"
    [] row.status = "not_working" -> "repair"
    [] OTHER -> IF row.remaining THEN "still to do" ELSE "none"

\* blocked_proof_context: why scenarios of the finding could not run.
Reasons(row) == {s \in row.scenarios : s.status = "blocked" /\ s.reasons}

\* render_selected_issue_changes
Card(flow, f) ==
  [made   |-> IF flow.statuses[f] = "not_working" THEN "check failed"
              ELSE IF PlannedFor(flow, f) = {} THEN "proof only" ELSE "change recorded",
   proof  |-> IF Verified(flow) THEN flow.verify.rows[f].status ELSE "verification not run",
   head   |-> IF Verified(flow) THEN FindingHeading(flow.verify.rows[f]) ELSE "incomplete",
   then   |-> IF Verified(flow) THEN FollowUp(flow.verify.rows[f]) ELSE "none"]

\* render_gap_closure, for a finding whose instrumentation leaves something to
\* do or nothing.
ClosureRow(flow, f, todo) ==
  [status    |-> IF Verified(flow) THEN flow.verify.rows[f].status ELSE flow.statuses[f],
   remaining |-> IF Verified(flow) THEN flow.verify.rows[f].remaining ELSE todo]

\* instrumentation_report_next_steps, with steps written by the skill or none
\* (or only stale ones).
NextSteps(flow, written) ==
  IF written THEN "as written"
  ELSE CASE flow.verify.result = "Pass" -> "nothing"
         [] flow.verify.result = "Fail" -> "repair"
         [] flow.verify.result = "Partial" -> "complete the proof"
         [] flow.verify.result \in {"Blocked", "Not run", "none"} -> "resolve the prerequisite"

----------------------------------------------------------------------------
(* Properties of one flow and of one report *)

\* The Markdown reports of a bound flow say what the page says: otel.md has the
\* page's result, except where the verification never ran, and the rows of the
\* page; it passes only over a reader report that passes without a gap, and no
\* item of a finding that works in it is a gap there.  The reader report can
\* always be written of a verified flow; otel.md can only if tests and evidence
\* were recorded for every finding, which the JSON files ask for of working
\* ones alone (validate_gap_closure.py, validate_reader_report.py,
\* normalize_instrumentation, aggregate_instrumentation_result,
\* render_gap_closure).
MarkdownAgrees(flow, audit) ==
  LET shown  == Aggregate(flow.result, Values(flow.statuses), flow.verify.result)
      unrun  == flow.verify.result = "Not run" /\ flow.result \in {"Fail", "Blocked"}
      mds    == AcceptedMarkdown(flow, audit)
      rds    == AcceptedReaders(flow)
  IN /\ (mds /= {}) = (flow.told = Values(flow.approved))
     /\ Verified(flow) => rds /= {}
     /\ \A md \in mds :
          /\ unrun \/ md.result = shown
          /\ \A n \in DOMAIN md.rows : md.rows[n].status = ClosureRow(flow, md.rows[n].finding, FALSE).status
          /\ \A rd \in rds :
               /\ md.result = "Pass" => rd.result = "Pass" /\ rd.gaps = <<>>
               /\ \A n \in DOMAIN md.rows : md.rows[n].status = "working" =>
                    \A g \in DOMAIN rd.gaps : rd.gaps[g].id \notin PlannedFor(flow, md.rows[n].finding)

\* The page tells one story of a flow, in whatever part of it one reads: the
\* scenarios are counted in one group each; as many changes are proved as there
\* are only if the result says so; a finding that failed, a repair and a failed
\* heading come together and are counted; an item is called unchecked everywhere
\* or nowhere, and nothing is reported as observed that was not; and the page
\* says that nothing is left to do only if no row has something left
\* (instrumentation_proof_counts, render_overlay_impact,
\* render_selected_issue_changes, render_gap_closure,
\* instrumentation_report_next_steps).
PageShowsTheProof(flow) ==
  LET counts == ProofCounts(flow)
      chosen == {flow.approved[n] : n \in DOMAIN flow.approved}
      items  == {p[2] : p \in ProofsOf(flow, "items")}
      row(f) == ClosureRow(flow, f, FALSE)
      by     == counts.by
  IN /\ by[1] + by[2] + by[3] + by[4] + by[5] + by[6] = counts.scenarios
     /\ counts.working <= counts.exercised /\ counts.exercised <= counts.items
     /\ DeliveryStat(counts) <= counts.items
     /\ Interpretation(flow) = "every item was observed" =>
          counts.working = counts.items /\ \A i \in items : Observation(i) = "observed"
     /\ Interpretation(flow) = "nothing ran" => counts.exercised + DeliveryStat(counts) + counts.reached = 0
     /\ Interpretation(flow) = "a prerequisite is missing" => \E f \in chosen : Reasons(flow.verify.rows[f]) /= {}
     /\ (Interpretation(flow) = "something failed") = (counts.failed > 0)
     /\ counts.failed = Cardinality({f \in chosen : Card(flow, f).then = "repair"})
     /\ \A f \in chosen :
          /\ (Card(flow, f).head = "failed") = (Card(flow, f).then = "repair")
          /\ Card(flow, f).then = "still to do" => row(f).remaining
          /\ Verified(flow) => Card(flow, f).proof = row(f).status
          /\ NextSteps(flow, FALSE) = "nothing" => ~row(f).remaining /\ Card(flow, f).then = "none"
     /\ \A i \in items :
          /\ CardLabel(i) = TableLabel(i)
          /\ (CardLabel(i) = "unchecked") = (Observation(i) = "unchecked")
          /\ Observation(i) = "observed" => i.seen

\* Without JSON files, a passing otel.md has a row for each gap of the audit
\* and for nothing else, and none of them is left open; and a row for each GenAI
\* surface (validate of validate_gap_closure.py).
PlainPassClosesAll(md, audit) ==
  LET closed == {md.rows[n].finding : n \in {m \in DOMAIN md.rows : md.rows[m].status \notin Open}}
  IN PlainAccepted(md, audit) /\ md.result = "Pass" =>
       /\ closed = Values(audit.gaps) /\ Len(md.rows) = Len(audit.gaps)
       /\ Len(md.genai) = Len(audit.order)

----------------------------------------------------------------------------
\* A reader opens a report that its script has accepted, or the page of a flow.

CONSTANT Reports   \* what the skills may write

VARIABLE doc

NoReport == [kind |-> "none"]
\* What the scripts accept piece by piece; of a plain otel.md, its tables.
Readable(d) ==
  CASE d.kind = "verify" -> \A r \in d.rows : RowAccepted(r)
    [] d.kind = "scenario" -> d.scenario \in Scenarios /\ ScenarioAccepted(d.scenario)
    [] d.kind = "audit" -> AuditReady(d.audit)
    [] d.kind = "flow" -> FlowBound(d.flow)
    [] d.kind = "plain" -> IsSeq(d.md.rows) /\ IsSeq(d.md.genai) /\ IsSeq(d.audit.gaps) /\ IsSeq(d.audit.order)
    [] OTHER -> FALSE

ReadReport == doc = NoReport /\ \E d \in Reports : Readable(d) /\ doc' = d
ReportsSpec == doc = NoReport /\ [][ReadReport]_doc

\* The report files, the page and the Markdown reports tell one story of what
\* was verified, and name every gap (normalize_verify, normalize_audit_report,
\* the page of observe_report_html.py and both Markdown validators).
ReportsAreConsistent ==
  /\ doc.kind = "verify"   => ResultTells(doc.rows)
  /\ doc.kind = "scenario" => SaysWhatItSorts(doc.scenario)
  /\ doc.kind = "audit"    => NamesEveryGap(doc.audit)
  /\ doc.kind = "flow"     => MarkdownAgrees(doc.flow, doc.audit) /\ PageShowsTheProof(doc.flow)
  /\ doc.kind = "plain"    => PlainPassClosesAll(doc.md, doc.audit)
=============================================================================
