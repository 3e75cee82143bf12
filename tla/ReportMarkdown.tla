---------------------------- MODULE ReportMarkdown ----------------------------
(***************************************************************************)
(* The Markdown reports that the skills write beside the JSON files, as    *)
(* otel-instrument/scripts/validate_gap_closure.py (otel.md) and           *)
(* otel-verify/scripts/validate_reader_report.py (otel-verify.md) accept   *)
(* them.  A table is the sequence of its rows; of a text it only matters   *)
(* whether it is there and whether it is the one in the JSON files.        *)
(***************************************************************************)
EXTENDS ProofRules, Functions

\* A bound flow (load_bound_flow, load_canonical_flow): the approved findings in
\* order, the area of each, what was instrumented (with the telemetry items that
\* it planned, in order) and what was verified.  Without a verification its
\* result is "none" and it has no rows.  "told" are the findings whose lists of
\* tests and of evidence both have something in them.
Verified(flow)  == flow.verify.result /= "none"
Overlay(flow)   == IF Verified(flow) THEN [f \in DOMAIN flow.verify.rows |-> flow.verify.rows[f].status]
                   ELSE flow.statuses
Worked(flow)    == \E f \in DOMAIN flow.statuses : flow.statuses[f] = "working"

\* expected_report_result
ReportResult(flow) ==
  CASE ~Verified(flow) -> flow.result
    [] flow.verify.result = "Blocked" -> IF Worked(flow) THEN "Partial" ELSE "Blocked"
    [] flow.verify.result = "Not run" -> IF flow.result \in {"Fail", "Blocked"} THEN flow.result ELSE "Partial"
    [] flow.verify.result \in {"Pass", "Partial", "Fail"} -> flow.verify.result

Open  == {"not_working", "not_proven", "not_configured"}

\* The identifiers of the items that the instrumentation planned for a finding.
PlannedFor(flow, f) == {flow.planned[n].id : n \in {m \in DOMAIN flow.planned : flow.planned[m].finding = f}}

IsSeq(s) == s \in Seq({s[n] : n \in DOMAIN s})

\* load_flow: the selection, the instrumentation and the verification that were
\* accepted one after the other.
FlowBound(flow) ==
  LET chosen == {flow.approved[n] : n \in DOMAIN flow.approved}
      rows   == flow.verify.rows
  IN /\ IsSeq(flow.approved) /\ IsInjective(flow.approved)
     /\ DOMAIN flow.area = chosen /\ IsInjective(flow.area)
     /\ DOMAIN flow.statuses = chosen /\ Values(flow.statuses) \subseteq Closures
     /\ InstrumentationAccepted(Values(flow.statuses), flow.result)
     /\ flow.told \subseteq chosen /\ \A f \in chosen : flow.statuses[f] = "working" => f \in flow.told
     /\ IsSeq(flow.planned) /\ IsInjective([n \in DOMAIN flow.planned |-> flow.planned[n].id])
     /\ \A n \in DOMAIN flow.planned : flow.planned[n].finding \in chosen
     /\ IF ~Verified(flow) THEN rows = <<>>
        ELSE /\ DOMAIN rows = chosen /\ VerifyAccepted(Values(rows), flow.verify.result)
             /\ \A f \in chosen : ResultRow(rows[f]) /\ {i.id : i \in rows[f].items} = PlannedFor(flow, f)

----------------------------------------------------------------------------
\* otel.md: the declared result (none or several: "unclear"), the rows of the
\* closure, the GenAI closure (absent: <<>>), and whether the signal roles and
\* the order of the sections are as they have to be.

\* validate: what holds of the closure rows in any mode; of what was changed,
\* tested and found as evidence, no cell is empty.
RowsWellFormed(md) == \A n \in DOMAIN md.rows : md.rows[n].status \in Closures /\ md.rows[n].text

\* Against the Markdown audit alone, the rows are its gaps in some order.
ClosesEveryGap(md, gaps) ==
  /\ Len(md.rows) = Len(gaps)
  /\ \A key \in {gaps[n] : n \in DOMAIN gaps} \cup {md.rows[n].finding : n \in DOMAIN md.rows} :
       Cardinality({n \in DOMAIN gaps : gaps[n] = key}) = Cardinality({n \in DOMAIN md.rows : md.rows[n].finding = key})

\* The cells of a row are the lists of the JSON file, joined: they say something
\* only if the lists do.
Joined(row, flow) == row.json /\ (row.text = (row.finding \in flow.told))

\* Mutation: the statuses of the rows are not compared with the overlay.
ProjectsLabels(md, flow) ==
  /\ md.result = ReportResult(flow)
  /\ [n \in DOMAIN md.rows |-> md.rows[n].finding] = flow.approved
  /\ \A n \in DOMAIN md.rows : md.rows[n].finding \in DOMAIN flow.statuses => Joined(md.rows[n], flow)

\* validate_json_projection
Projects(md, flow) ==
  /\ md.result = ReportResult(flow)
  /\ [n \in DOMAIN md.rows |-> md.rows[n].finding] = flow.approved
  /\ \A n \in DOMAIN md.rows :
       LET f == md.rows[n].finding
       IN /\ md.rows[n].status = (IF f \in DOMAIN Overlay(flow) THEN Overlay(flow)[f] ELSE "deferred")
          /\ f \in DOMAIN flow.statuses => Joined(md.rows[n], flow)

\* The places in I, one after the other.
InOrder(I) == CHOOSE p \in [1 .. Cardinality(I) -> I] : \A m, n \in DOMAIN p : m < n => p[m] < p[n]

\* selected_genai_expectations: the approved findings about GenAI surfaces.
SelectedSurfaces(audit, flow) ==
  LET about(n) == flow.area[flow.approved[n]]
      at == InOrder({n \in DOMAIN flow.approved : about(n) \in audit.surfaces})
  IN [k \in DOMAIN at |-> about(at[k])]

\* A row of the GenAI closure: proof is what it names as implemented and tested.
GenaiRow(row) ==
  /\ row.status \in Closures \cup {"partial", "owner_mapped"}
  /\ IF row.status = "working" THEN ~row.remaining /\ row.proof ELSE row.remaining

\* Rows for exactly the surfaces expected, with the results expected of them; a
\* report on Markdown alone has its surfaces in the order of the audit.
GenaiCloses(md, surfaces, expected) ==
  /\ \A n \in DOMAIN md.genai : GenaiRow(md.genai[n]) /\ md.genai[n].required
  /\ \A m, n \in DOMAIN md.genai : md.genai[m].surface = md.genai[n].surface => m = n
  /\ [n \in DOMAIN md.genai |-> md.genai[n].surface] = surfaces
  /\ \A n \in DOMAIN md.genai : md.genai[n].surface \in DOMAIN expected => md.genai[n].status = expected[md.genai[n].surface]

Finding(flow, area) == CHOOSE f \in DOMAIN flow.area : flow.area[f] = area

GenaiAgrees(md, audit, flow) ==
  LET chosen == SelectedSurfaces(audit, flow)
  IN /\ \A f \in DOMAIN flow.area : flow.area[f] \in audit.surfaces => f \in DOMAIN Overlay(flow)
     /\ GenaiCloses(md, chosen,
          [s \in {chosen[n] : n \in DOMAIN chosen} |-> Overlay(flow)[Finding(flow, s)]])

NoPassWithGaps(md) ==
  md.result = "Pass" =>
    /\ \A n \in DOMAIN md.rows : md.rows[n].status \notin Open
    /\ \A n \in DOMAIN md.genai : md.genai[n].status \notin Open \cup {"partial"}

\* validate of validate_gap_closure.py, for a report with its JSON files.
MarkdownAccepted(md, audit, flow) ==
  /\ md.result \in Results \ {"Not run"}
  /\ RowsWellFormed(md)
  /\ audit.incident => md.roles
  /\ GenaiAgrees(md, audit, flow)
  /\ NoPassWithGaps(md)
  /\ Projects(md, flow)

\* The same without them.
PlainAccepted(md, audit) ==
  /\ md.result \in Results \ {"Not run"}
  /\ RowsWellFormed(md) /\ ClosesEveryGap(md, audit.gaps)
  /\ audit.incident => md.roles
  /\ GenaiCloses(md, audit.order, <<>>)
  /\ NoPassWithGaps(md)

----------------------------------------------------------------------------
\* otel-verify.md: the result, one row for every telemetry item, the count that
\* sums them up, and the table of what does not work or was not proved.

\* parse_signal_table, and the checks of one row: every cell says something.
\* No rows are an inventory only if the instrumentation has none and the report
\* says so.
TableAccepted(rd, items) ==
  /\ rd.rows = <<>> => items = <<>> /\ rd.marker
  /\ \A n \in DOMAIN rd.rows : rd.rows[n].text /\ (rd.rows[n].status = "working" => rd.rows[n].evidence)
  /\ \A m, n \in DOMAIN rd.rows : rd.rows[m].id = rd.rows[n].id => m = n

WorkingRows(rd) == {n \in DOMAIN rd.rows : rd.rows[n].status = "working"}
CountAccepted(rd) == rd.count = [working |-> Cardinality(WorkingRows(rd)), total |-> Len(rd.rows)]

\* The gap section lists every item that does not work once, and no other.
GapsAccepted(rd) ==
  /\ {rd.gaps[g] : g \in DOMAIN rd.gaps}
       = {[id |-> rd.rows[n].id, state |-> rd.rows[n].status] : n \in DOMAIN rd.rows \ WorkingRows(rd)}
  /\ \A g, h \in DOMAIN rd.gaps : rd.gaps[g].id = rd.gaps[h].id => g = h
  /\ rd.gaps = <<>> => rd.none

Shown_(status) == IF status = "blocked" THEN "not_proven" ELSE status

\* verify_items: the results of the items, in the order of the instrumentation.
ItemsOf(flow) ==
  [n \in DOMAIN flow.planned |->
     LET id   == flow.planned[n].id
         item == CHOOSE i \in flow.verify.rows[flow.planned[n].finding].items : i.id = id
     IN [id |-> id, status |-> item.status, evidence |-> item.evidence]]

ItemsAgree(rd, items) ==
  /\ [n \in DOMAIN rd.rows |-> rd.rows[n].id] = [n \in DOMAIN items |-> items[n].id]
  /\ \A n \in DOMAIN rd.rows :
       /\ rd.rows[n].status = Shown_(items[n].status)
       /\ rd.rows[n].json /\ (rd.rows[n].evidence = items[n].evidence)

\* validate of validate_reader_report.py, with the JSON files.
ReaderAccepted(rd, flow, items) ==
  /\ TableAccepted(rd, items) /\ CountAccepted(rd) /\ GapsAccepted(rd)
  /\ ItemsAgree(rd, items)
  /\ Verified(flow) /\ rd.result = flow.verify.result
----------------------------------------------------------------------------
\* The reports that could be written of a flow: any result, any status in each
\* row, any items in the gap section.  The cells of a row are those of the JSON
\* file: only what was told of a finding can be there; other texts are there.

JoinedRow(f, st, told) == [finding |-> f, status |-> st, text |-> f \in told, json |-> TRUE]
FullGenai(surface, st) ==
  [surface |-> surface, status |-> st, required |-> TRUE, remaining |-> st /= "working", proof |-> st = "working"]
MarkdownOf(result, findings, states, genai, told) ==
  [result |-> result, rows |-> [n \in DOMAIN findings |-> JoinedRow(findings[n], states[n], told)], genai |-> genai,
   roles |-> TRUE]
GenaiTables(surfaces) ==
  {<<>>} \cup {[n \in DOMAIN surfaces |-> FullGenai(surfaces[n], states[n])] : states \in [DOMAIN surfaces -> Closures]}
Markdowns(findings, surfaces, told) ==
  {MarkdownOf(result, findings, states, genai, told) :
     result \in Results, states \in [DOMAIN findings -> Closures], genai \in GenaiTables(surfaces)}

GapsListed(items, gaps) ==
  LET at == InOrder(DOMAIN gaps)
  IN [k \in DOMAIN at |-> [id |-> items[at[k]].id, state |-> gaps[at[k]]]]
ReaderOf(result, items, states, gaps) ==
  [result |-> result, marker |-> items = <<>>, none |-> TRUE, gaps |-> GapsListed(items, gaps),
   rows |-> [n \in DOMAIN items |->
     [id |-> items[n].id, status |-> states[n], text |-> TRUE, json |-> TRUE, evidence |-> items[n].evidence]],
   count |-> [working |-> Cardinality({n \in DOMAIN items : states[n] = "working"}), total |-> Len(items)]]
Readers(items) ==
  {ReaderOf(result, items, states, gaps) :
     result \in Results, states \in [DOMAIN items -> Open \cup {"working"}],
     gaps \in UNION {[I -> Open] : I \in SUBSET DOMAIN items}}

AcceptedMarkdown(flow, audit) ==
  {md \in Markdowns(flow.approved, SelectedSurfaces(audit, flow), flow.told) : MarkdownAccepted(md, audit, flow)}
AcceptedReaders(flow) ==
  IF Verified(flow) THEN {rd \in Readers(ItemsOf(flow)) : ReaderAccepted(rd, flow, ItemsOf(flow))} ELSE {}
=============================================================================
