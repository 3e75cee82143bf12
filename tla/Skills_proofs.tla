---------------------------- MODULE Skills_proofs ----------------------------
(***************************************************************************)
(* Theorems about the tools of the skills: module ProofRules, for every    *)
(* verification, scenario and audit; modules ReportMarkdown and            *)
(* ReportPages, for every bound flow; module ReportChain, for every        *)
(* set of sessions, audits and findings; module FindingSelection, for every*)
(* set of findings and options; module AtomicWrite, for every set          *)
(* of writers and directories and any number of moves; module ReportServer,*)
(* for every set of commands and any number of servers, directories, polls *)
(* and kills; module ResourceResolver, for every set of runs and any       *)
(* number of resources, pages, lookups and faulty answers; module          *)
(* AgentPolicy, for every set of skills, references and evaluations.       *)
(***************************************************************************)
EXTENDS ReportChain, ReportPages, FindingSelection, AtomicWrite, ReportServer, ResourceResolver, AgentPolicy,
        FiniteSetTheorems, TLAPS

-----------------------------------------------------------------------------
(* The chain of report files *)

AuditFiles     == [kind: {"audit"}, audit: Audits]
SelectionFiles == [kind: {"selection"}, audit: AuditFiles, approved: SUBSET Work]
WorkStatuses   == UNION {[ids -> {"working", "not_working"}] : ids \in SUBSET Work}
Rows           == UNION {[ids -> RowKinds] : ids \in SUBSET Work}
InstrumentationFiles ==
  [kind: {"instrumentation"}, audit: AuditFiles, selection: SelectionFiles, statuses: WorkStatuses,
   result: {"Pass", "Partial", "Fail"}]
VerificationFiles ==
  [kind: {"verify"}, audit: AuditFiles, instrumentation: InstrumentationFiles, rows: Rows,
   result: {"Pass", "Partial", "Fail", "Not run"}]
AllFiles == AuditFiles \cup SelectionFiles \cup InstrumentationFiles \cup VerificationFiles \cup {Missing}

\* What has been read fits together as far as it goes.
Fits(got) ==
  /\ got \in Seq(AllFiles) /\ Len(got) \in 1 .. 4
  /\ got[1] \in AuditFiles
  /\ Len(got) \in {2, 3, 4} => got[2] \in SelectionFiles /\ got[2].audit = got[1]
  /\ Len(got) \in {3, 4} => /\ got[3] \in InstrumentationFiles
                            /\ got[3].audit = got[1] /\ got[3].selection = got[2]
  /\ Len(got) = 4 => got[4] = Missing \/ VerifyBound(got[4], got)

ChainInv ==
  /\ file \in [audit: AuditFiles, selection: AllFiles, instrumentation: AllFiles, verify: AllFiles]
  /\ job \in [Reporters -> [kind: Kinds \cup {"none"}, got: Seq(AllFiles)]]
  /\ \A s \in Reporters : job[s].kind # "none" => Fits(job[s].got)
  /\ page # Missing => Fits(page.got) /\ Len(page.got) = 4

LEMMA KindTells ==
  ASSUME NEW c \in AllFiles
  PROVE  /\ c.kind = "selection" => c \in SelectionFiles
         /\ c.kind = "instrumentation" => c \in InstrumentationFiles
         /\ c.kind = "verify" => c \in VerificationFiles
<1>1. c \in AuditFiles => c.kind = "audit"
  BY DEF AuditFiles
<1>2. c \in SelectionFiles => c.kind = "selection"
  BY DEF SelectionFiles
<1>3. c \in InstrumentationFiles => c.kind = "instrumentation"
  BY DEF InstrumentationFiles
<1>4. c \in VerificationFiles => c.kind = "verify"
  BY DEF VerificationFiles
<1>5. c = Missing => c.kind = "missing"
  BY DEF Missing
<1> QED
  BY <1>1, <1>2, <1>3, <1>4, <1>5 DEF AllFiles

LEMMA ReadFits ==
  ASSUME NEW got, Fits(got), Len(got) < 4, NEW c \in AllFiles,
         Bound(c, got) \/ (Len(got) = 3 /\ c = Missing)
  PROVE  Fits(Append(got, c))
<1> DEFINE more == Append(got, c)
<1>1. /\ more \in Seq(AllFiles) /\ Len(more) = Len(got) + 1 /\ Len(got) \in 1 .. 3
      /\ more[Len(got) + 1] = c /\ \A k \in 1 .. Len(got) : more[k] = got[k]
  BY DEF Fits
<1> SUFFICES Fits(more)
  OBVIOUS
<1> HIDE DEF more
<1>2. CASE Len(got) = 1
  <2>1. SelectionBound(c, got)
    BY <1>2 DEF Bound
  <2>2. c \in SelectionFiles /\ c.audit = got[1]
    BY <2>1, KindTells DEF SelectionBound
  <2> QED
    BY <1>1, <1>2, <2>2 DEF Fits
<1>3. CASE Len(got) = 2
  <2>1. InstrumentationBound(c, got)
    BY <1>3 DEF Bound
  <2>2. c \in InstrumentationFiles /\ c.audit = got[1] /\ c.selection = got[2]
    BY <2>1, KindTells DEF InstrumentationBound
  <2> QED
    BY <1>1, <1>3, <2>2 DEF Fits
<1>4. CASE Len(got) = 3
  BY <1>1, <1>4 DEF Fits, Bound, VerifyBound
<1> QED
  BY <1>1, <1>2, <1>3, <1>4

LEMMA ChainStarts == ChainInit => ChainInv
<1> SUFFICES ASSUME ChainInit PROVE ChainInv
  OBVIOUS
<1>0. PICK a \in Audits : \E s \in {Missing} \cup {Selection(Audit(a), ids) : ids \in SUBSET Work} :
        file = [audit |-> Audit(a), selection |-> s, instrumentation |-> Missing, verify |-> Missing]
  BY DEF ChainInit
<1>1. PICK s \in {Missing} \cup {Selection(Audit(a), ids) : ids \in SUBSET Work} :
        file = [audit |-> Audit(a), selection |-> s, instrumentation |-> Missing, verify |-> Missing]
  BY <1>0
<1>2. Audit(a) \in AuditFiles /\ s \in AllFiles /\ Missing \in AllFiles
  BY DEF Audit, AuditFiles, AllFiles, Selection, SelectionFiles
<1>3. file \in [audit: AuditFiles, selection: AllFiles, instrumentation: AllFiles, verify: AllFiles]
  BY <1>1, <1>2
<1>4. Resting \in [kind: Kinds \cup {"none"}, got: Seq(AllFiles)]
  BY DEF Resting
<1> QED
  BY <1>3, <1>4 DEF ChainInit, ChainInv, Resting

LEMMA JobFields ==
  ASSUME ChainInv, NEW s \in Reporters
  PROVE  /\ job[s] = [kind |-> job[s].kind, got |-> job[s].got]
         /\ job[s].kind \in Kinds \cup {"none"} /\ job[s].got \in Seq(AllFiles)
         /\ Resting \in [kind: Kinds \cup {"none"}, got: Seq(AllFiles)] /\ Resting.kind = "none"
BY DEF ChainInv, Resting

LEMMA WithGot ==
  ASSUME NEW j, j = [kind |-> j.kind, got |-> j.got], NEW g
  PROVE  [j EXCEPT !.got = g] = [kind |-> j.kind, got |-> g]
<1>1. [[kind |-> j.kind, got |-> j.got] EXCEPT !.got = g] = [kind |-> j.kind, got |-> g]
  OBVIOUS
<1> QED
  BY <1>1

LEMMA BeginKept ==
  ASSUME ChainInv, NEW s \in Reporters, Begin(s)
  PROVE  ChainInv'
<1>1. PICK k \in Kinds : job' = [job EXCEPT ![s] = [kind |-> k, got |-> <<file.audit>>]]
  BY DEF Begin
<1>2. UNCHANGED <<file, page>>
  BY DEF Begin
<1>3. file.audit \in AuditFiles
  BY DEF ChainInv
<1>4. Fits(<<file.audit>>)
  BY <1>3 DEF Fits, AllFiles
<1> QED
  BY <1>1, <1>2, <1>4 DEF ChainInv, Fits

LEMMA ReadKept ==
  ASSUME ChainInv, NEW s \in Reporters, Read(s)
  PROVE  ChainInv'
<1> DEFINE got == job[s].got
           content == file[Order[Len(got) + 1]]
           ok == Bound(content, got) \/ (Len(got) = 3 /\ content = Missing)
<1>1. /\ job[s].kind # "none" /\ Len(got) < Needed(job[s].kind) /\ UNCHANGED <<file, page>>
      /\ job' = [job EXCEPT ![s] = IF ok THEN [@ EXCEPT !.got = Append(got, content)] ELSE Resting]
  BY DEF Read
<1>2. Fits(got) /\ Len(got) < 4
  BY <1>1, JobFields DEF ChainInv, Fits, Needed, Kinds
<1>3. content \in AllFiles
  BY <1>2 DEF ChainInv, Fits, Order, AllFiles
<1>4. CASE ok
  <2> DEFINE more == Append(got, content)
             next == [kind |-> job[s].kind, got |-> more]
  <2>1. Fits(more)
    BY <1>2, <1>3, <1>4, ReadFits
  <2>2. job' = [job EXCEPT ![s] = [@ EXCEPT !.got = more]]
    BY <1>1, <1>4
  <2> HIDE DEF more, ok, content
  <2>3. [job[s] EXCEPT !.got = more] = next
    BY JobFields, WithGot
  <2>4. job' = [job EXCEPT ![s] = next]
    BY <2>2, <2>3
  <2>5. next \in [kind: Kinds \cup {"none"}, got: Seq(AllFiles)] /\ next.got = more
    BY <2>1, JobFields DEF Fits
  <2> HIDE DEF next
  <2> QED
    BY <1>1, <2>1, <2>4, <2>5 DEF ChainInv
<1>5. CASE ~ok
  <2>1. job' = [job EXCEPT ![s] = Resting]
    BY <1>1, <1>5
  <2> QED
    BY <1>1, <2>1, JobFields DEF ChainInv
<1> QED
  BY <1>4, <1>5

\* A command that writes has read what it needs, and is done.
LEMMA WriterFits ==
  ASSUME ChainInv, NEW s \in Reporters, NEW kind \in Kinds, Ready(s, kind)
  PROVE  Fits(job[s].got) /\ Len(job[s].got) = Needed(kind)
BY DEF Ready, ChainInv, Kinds

LEMMA WroteKept ==
  ASSUME ChainInv, NEW s \in Reporters, Wrote(s), page' = page \/ (Fits(page'.got) /\ Len(page'.got) = 4),
         file' \in [audit: AuditFiles, selection: AllFiles, instrumentation: AllFiles, verify: AllFiles]
  PROVE  ChainInv'
BY JobFields DEF Wrote, ChainInv

LEMMA WritesKept ==
  ASSUME ChainInv, NEW s \in Reporters,
         WriteSelection(s) \/ WriteInstrumentation(s) \/ WriteVerify(s) \/ Render(s)
  PROVE  ChainInv'
<1> DEFINE got == job[s].got
<1>0. file \in [audit: AuditFiles, selection: AllFiles, instrumentation: AllFiles, verify: AllFiles]
  BY DEF ChainInv
<1>1. CASE WriteSelection(s)
  <2>1. Fits(got) /\ UNCHANGED page /\ Wrote(s)
    BY <1>1, WriterFits DEF WriteSelection, Kinds
  <2>2. PICK ids \in SUBSET Work : file' = [file EXCEPT !.selection = Selection(got[1], ids)]
    BY <1>1 DEF WriteSelection
  <2>3. Selection(got[1], ids) \in AllFiles
    BY <2>1 DEF Fits, Selection, SelectionFiles, AllFiles
  <2>4. file' \in [audit: AuditFiles, selection: AllFiles, instrumentation: AllFiles, verify: AllFiles]
    BY <1>0, <2>2, <2>3
  <2> QED
    BY <2>1, <2>4, WroteKept
<1>2. CASE WriteInstrumentation(s)
  <2>1. Fits(got) /\ Len(got) = 2 /\ UNCHANGED page /\ Wrote(s)
    BY <1>2, WriterFits DEF WriteInstrumentation, Kinds, Needed
  <2>2. PICK statuses \in [got[2].approved -> {"working", "not_working"}], r \in {"Pass", "Partial", "Fail"} :
          file' = [file EXCEPT !.instrumentation = Instrumentation(got[1], got[2], statuses, r)]
    BY <1>2 DEF WriteInstrumentation
  <2>3. got[1] \in AuditFiles /\ got[2] \in SelectionFiles /\ got[2].approved \in SUBSET Work
    BY <2>1 DEF Fits, SelectionFiles
  <2>4. statuses \in WorkStatuses
    BY <2>3 DEF WorkStatuses
  <2>5. Instrumentation(got[1], got[2], statuses, r) \in AllFiles
    BY <2>3, <2>4 DEF Instrumentation, InstrumentationFiles, AllFiles
  <2>6. file' \in [audit: AuditFiles, selection: AllFiles, instrumentation: AllFiles, verify: AllFiles]
    BY <1>0, <2>2, <2>5
  <2> QED
    BY <2>1, <2>6, WroteKept
<1>3. CASE WriteVerify(s)
  <2>1. Fits(got) /\ Len(got) = 3 /\ UNCHANGED page /\ Wrote(s)
    BY <1>3, WriterFits DEF WriteVerify, Kinds, Needed
  <2>2. PICK rows \in [got[2].approved -> RowKinds], r \in {"Pass", "Partial", "Fail", "Not run"} :
          file' = [file EXCEPT !.verify = Verification(got[1], got[3], rows, r)]
    BY <1>3 DEF WriteVerify
  <2>3. /\ got[1] \in AuditFiles /\ got[2] \in SelectionFiles /\ got[2].approved \in SUBSET Work
        /\ got[3] \in InstrumentationFiles
    <3> HIDE DEF got
    <3>1. got[1] \in AuditFiles
      BY <2>1 DEF Fits
    <3>2. got[2] \in SelectionFiles
      BY <2>1 DEF Fits
    <3>3. got[3] \in InstrumentationFiles
      BY <2>1 DEF Fits
    <3> QED
      BY <3>1, <3>2, <3>3 DEF SelectionFiles
  <2>4. rows \in Rows
    BY <2>3 DEF Rows
  <2>5. Verification(got[1], got[3], rows, r) \in AllFiles
    BY <2>3, <2>4 DEF Verification, VerificationFiles, AllFiles
  <2>6. file' \in [audit: AuditFiles, selection: AllFiles, instrumentation: AllFiles, verify: AllFiles]
    BY <1>0, <2>2, <2>5
  <2> QED
    BY <2>1, <2>6, WroteKept
<1>4. CASE Render(s)
  <2>1. Fits(got) /\ Len(got) = 4 /\ UNCHANGED file /\ Wrote(s) /\ page'.got = got
    BY <1>4, WriterFits DEF Render, Kinds, Needed
  <2> QED
    BY <1>0, <2>1, WroteKept
<1> QED
  BY <1>1, <1>2, <1>3, <1>4

LEMMA ChainKept == ChainInv /\ [ChainNext]_chainVars => ChainInv'
<1> SUFFICES ASSUME ChainInv, [ChainNext]_chainVars PROVE ChainInv'
  OBVIOUS
<1>1. ASSUME NEW s \in Reporters, ReporterStep(s) PROVE ChainInv'
  BY <1>1, BeginKept, ReadKept, WritesKept DEF ReporterStep
<1>2. CASE ReAudit
  <2>1. PICK a \in Audits : file' = [file EXCEPT !.audit = Audit(a)]
    BY <1>2 DEF ReAudit
  <2>2. Audit(a) \in AuditFiles
    BY DEF Audit, AuditFiles
  <2> QED
    BY <1>2, <2>1, <2>2 DEF ReAudit, ChainInv
<1>3. CASE UNCHANGED chainVars
  BY <1>3 DEF chainVars, ChainInv
<1> QED
  BY <1>1, <1>2, <1>3 DEF ChainNext

\* However the sessions of select, instrument, verify and render interleave, and
\* however often the audit is written again meanwhile, a page is rendered from
\* files that were made for one another (load_flow and the normalize functions).
THEOREM PagesAreOneStory == ChainSpec => []PageIsOneStory
<1>1. ChainInv => PageIsOneStory
  BY DEF ChainInv, Fits, PageIsOneStory, VerifyBound
<1> QED
  BY ChainStarts, ChainKept, <1>1, PTL DEF ChainSpec

\* A row of status working was taken by normalize_verify for what it claims.
LEMMA WorkingRow ==
  ASSUME NEW row, RowAccepted(row), row.status = "working"
  PROVE  /\ Proofs(row) # {} /\ FindingHeading(row) = "complete"
         /\ \A p \in Proofs(row) : p.status = "working" /\ Ran(p) /\ p.evidence
         /\ \A i \in row.items : i.mode # "static" /\ (i.removes => i.removal = "proved")
<1>1. Proofs(row) # {} /\ All(Proofs(row), "working")
  BY DEF RowAccepted
<1>2. FindingHeading(row) = "complete"
  BY <1>1 DEF FindingHeading, Some, All
<1>3. ASSUME NEW s \in row.scenarios PROVE s.status = "working" /\ Ran(s) /\ s.evidence
  <2>1. s.status = "working" /\ ScenarioAccepted(s)
    BY <1>1 DEF All, Proofs, RowAccepted
  <2> QED
    BY <2>1 DEF ScenarioAccepted, Shown
<1>4. ASSUME NEW i \in row.items
      PROVE  /\ i.status = "working" /\ Ran(i) /\ i.evidence /\ i.mode # "static"
             /\ i.removes => i.removal = "proved"
  <2>1. i.status = "working" /\ ItemAccepted(i)
    BY <1>1 DEF All, Proofs, RowAccepted
  <2> QED
    BY <2>1 DEF ItemAccepted, Shown
<1> QED
  BY <1>1, <1>2, <1>3, <1>4 DEF Proofs

\* The result Pass is taken only for rows that all work, and for at least one.
LEMMA PassingRows ==
  ASSUME NEW rows, VerifyAccepted(rows, "Pass")
  PROVE  rows # {} /\ All(rows, "working")
<1>1. rows # {}
  BY DEF VerifyAccepted, ExpectedResult
<1> QED
  BY <1>1 DEF VerifyAccepted

\* Whatever sessions write into the instrumentation and the verification, and
\* whenever they write it, a page whose overall result is Pass after a
\* verification has for every approved finding at least one proof, and all of
\* them ran, worked and have their evidence (load_flow, normalize_verify,
\* render_instrumentation_summary).
THEOREM CompletePagesAreProven == ChainSpec => []CompleteMeansProven
<1>1. ChainInv => CompleteMeansProven
  <2> SUFFICES ASSUME ChainInv, page # Missing, Verdict(page) # Missing, PageTotal(page) = "Pass"
               PROVE  /\ page.got[2].approved # {}
                      /\ \A f \in page.got[2].approved :
                           LET row == Verdict(page).rows[f]
                           IN /\ Proofs(row) # {} /\ FindingHeading(row) = "complete"
                              /\ \A p \in Proofs(row) : p.status = "working" /\ Ran(p) /\ p.evidence
                              /\ \A i \in row.items : i.mode # "static" /\ (i.removes => i.removal = "proved")
    BY DEF CompleteMeansProven
  <2> DEFINE v == Verdict(page)
  <2>1. VerifyBound(v, page.got)
    BY DEF ChainInv, Fits, Verdict
  <2>2. v.result = "Pass"
    <3>1. v \in AllFiles /\ v.kind = "verify"
      BY <2>1 DEF ChainInv, Fits, Verdict, VerifyBound
    <3>2. v.result \in {"Pass", "Partial", "Fail", "Not run"}
      BY <3>1, KindTells DEF VerificationFiles
    <3> QED
      BY <3>2 DEF PageTotal, Aggregate, Verdict
  <2>3. Values(v.rows) # {} /\ All(Values(v.rows), "working")
    BY <2>1, <2>2, PassingRows DEF VerifyBound
  <2>4. DOMAIN v.rows = page.got[2].approved
    BY <2>1 DEF VerifyBound
  <2>5. page.got[2].approved # {}
    BY <2>3, <2>4 DEF Values
  <2>6. ASSUME NEW f \in page.got[2].approved
        PROVE  RowAccepted(v.rows[f]) /\ v.rows[f].status = "working"
    BY <2>1, <2>3, <2>4 DEF VerifyBound, Values, All
  <2> QED
    BY <2>5, <2>6, WorkingRow
<1> QED
  BY ChainStarts, ChainKept, <1>1, PTL DEF ChainSpec

-----------------------------------------------------------------------------
(* The rules about one verification, one scenario and one audit *)

\* For every set of rows that normalize_verify takes one by one there is exactly
\* one result that it takes with them, and this result says what ran
\* (normalize_verify; a part of ReportsAreConsistent).
THEOREM EveryVerificationHasItsResult ==
  ASSUME NEW rows, \A r \in rows : RowAccepted(r)
  PROVE  ResultTells(rows)
<1> DEFINE proofs   == UNION {Proofs(r) : r \in rows}
           ran      == {p \in proofs : Ran(p)}
           accepted == {res \in Results : VerifyAccepted(rows, res)}
           failed   == \E r \in rows : r.status = "not_working"
           any      == \E r \in rows : \E p \in Proofs(r) : Ran(p)
           blocked  == \E r \in rows : Some(r.scenarios, "blocked")
           passed   == rows /= {} /\ All(rows, "working")
           result   == ExpectedResult(rows)
<1>5. failed => Some(ran, "not_working")
  <2> SUFFICES ASSUME NEW r \in rows, r.status = "not_working" PROVE Some(ran, "not_working")
    OBVIOUS
  <2>1. PICK p \in Proofs(r) : p.status = "not_working"
    BY DEF RowAccepted, Some
  <2>2. p \in r.scenarios => ScenarioAccepted(p)
    BY DEF RowAccepted
  <2>3. p \in r.items => ItemAccepted(p)
    BY DEF RowAccepted
  <2>4. Ran(p)
    BY <2>1, <2>2, <2>3 DEF Proofs, ScenarioAccepted, ItemAccepted, Shown
  <2> QED
    BY <2>1, <2>4 DEF Some
<1>6. ~failed => ~Some(proofs, "not_working")
  BY DEF RowAccepted, Some
<1>7. passed => proofs /= {} /\ ran = proofs /\ All(proofs, "working")
  <2> SUFFICES ASSUME passed PROVE proofs /= {} /\ ran = proofs /\ All(proofs, "working")
    OBVIOUS
  <2>1. ASSUME NEW r \in rows PROVE Proofs(r) # {} /\ \A p \in Proofs(r) : p.status = "working" /\ Ran(p)
    <3>1. RowAccepted(r) /\ r.status = "working"
      BY DEF All
    <3> QED
      BY <3>1, WorkingRow
  <2> QED
    BY <2>1 DEF All
<1>1. /\ failed => result = "Fail" /\ ~passed
      /\ passed => result = "Pass" /\ ~failed
      /\ ~failed /\ ~passed /\ any => result = "Partial"
      /\ ~failed /\ ~passed /\ ~any /\ blocked => result = "Blocked"
      /\ ~failed /\ ~passed /\ ~any /\ ~blocked => result = "Not run"
  <2>1. failed => ~passed
    BY DEF All
  <2>2. result = IF failed THEN "Fail" ELSE IF passed THEN "Pass" ELSE IF any THEN "Partial"
                 ELSE IF blocked THEN "Blocked" ELSE "Not run"
    BY DEF ExpectedResult
  <2> HIDE DEF failed, passed, any, blocked, result
  <2> QED
    BY <2>1, <2>2
<1>2. VerifyAccepted(rows, result) /\ result \in Results
  BY <1>1 DEF VerifyAccepted, Results
<1>3. accepted = {result}
  BY <1>2 DEF VerifyAccepted
<1>4. ran = {} <=> ~any
  OBVIOUS
<1> HIDE DEF proofs, ran, accepted, failed, any, blocked, passed, result
<1>8. /\ result \in {"Blocked", "Not run"} => ran = {}
      /\ result = "Partial" => ran /= {} /\ ~Some(proofs, "not_working")
      /\ result = "Fail" => Some(ran, "not_working")
      /\ result = "Pass" => proofs /= {} /\ ran = proofs /\ All(proofs, "working")
  BY <1>1, <1>4, <1>5, <1>6, <1>7
<1> QED
  BY <1>3, <1>8 DEF ResultTells, proofs, ran, accepted

\* Every scenario that the rules accept has exactly one sentence in the summary
\* of its finding, the one of the group that the details sort it into.
THEOREM EveryScenarioIsSortedOnce ==
  ASSUME NEW s \in Scenarios, ScenarioAccepted(s)
  PROVE  SaysWhatItSorts(s)
<1>1. /\ s.status \in Statuses /\ s.mode \in Modes
      /\ s.status = "working" => Shown(s)
  BY DEF Scenarios, ScenarioAccepted
<1>2. Shown(s) => Ran(s)
  BY DEF Shown
<1>3. CASE s.status = "working"
  BY <1>1, <1>3 DEF SaysWhatItSorts, SummarySentences, CoverageGroup, Positive
<1>4. CASE s.status = "not_proven" /\ Positive(s)
  BY <1>2, <1>4 DEF SaysWhatItSorts, SummarySentences, CoverageGroup, Positive
<1>5. CASE s.status = "not_proven" /\ ~Positive(s)
  BY <1>5 DEF SaysWhatItSorts, SummarySentences, CoverageGroup
<1>6. CASE s.status \in {"not_working", "not_configured"}
  BY <1>6 DEF SaysWhatItSorts, SummarySentences, CoverageGroup
<1> QED
  BY <1>1, <1>3, <1>4, <1>5, <1>6 DEF Statuses, SaysWhatItSorts

\* The rules of an audit that is ready for review leave one story about its gaps.
LEMMA RulesNameEveryGap ==
  ASSUME NEW a, AuditReady(a)
  PROVE  NamesEveryGap(a)
<1> DEFINE unresolved(area) == {f \in a.findings : f.open /\ f.area = area}
           uncovered == {x \in DOMAIN a.incident : a.incident[x] # "covered"}
                          \cup {x \in DOMAIN a.surfaces : a.surfaces[x] \notin {"covered", "owner-mapped"}}
<1>1. \A area \in uncovered : unresolved(area) # {} /\ \A f \in unresolved(area) : f.scenarios
  BY DEF AuditReady, ReadinessAccepted, GenaiAccepted
<1>2. \A area \in (DOMAIN a.incident \cup DOMAIN a.surfaces) \ uncovered : unresolved(area) = {}
  BY DEF AuditReady, ReadinessAccepted, GenaiAccepted
<1>3. \A area \in uncovered : \E f \in a.findings :
        {g \in a.findings : g.area = area} = {f} /\ f.open /\ f.scenarios /\ area \in a.gaps
  <2>1. \A f, g \in a.findings : f.area = g.area => f = g
    BY DEF AuditReady, FlowAccepted
  <2>2. \A f \in a.findings : f.area \in a.gaps
    BY DEF AuditReady, FlowAccepted
  <2>3. ASSUME NEW area \in uncovered, NEW f \in unresolved(area)
        PROVE  {g \in a.findings : g.area = area} = {f} /\ f.open /\ f.scenarios /\ area \in a.gaps
    BY <1>1, <2>1, <2>2, <2>3
  <2> QED
    BY <1>1, <2>3
<1>4. \A f \in a.findings : f.open /\ f.area \in DOMAIN a.incident \cup DOMAIN a.surfaces => f.area \in uncovered
  BY <1>2
<1>5. a.status = "Pass" => uncovered = {}
  <2>1. a.status = "Pass" => a.findings = {}
    BY DEF AuditReady, AuditStatusAccepted
  <2> QED
    BY <1>1, <2>1
<1> QED
  BY <1>3, <1>4, <1>5 DEF NamesEveryGap

-----------------------------------------------------------------------------
(* The page of a flow and the Markdown reports *)

\* The places of a finite set of numbers can be listed in order, each of them once.
LEMMA OrderExists ==
  ASSUME NEW I \in SUBSET Nat, IsFiniteSet(I)
  PROVE  \E p \in [1 .. Cardinality(I) -> I] : \A m, n \in DOMAIN p : m < n => p[m] < p[n]
<1> DEFINE n == Cardinality(I)
           upTo(i) == {j \in I : j <= i}
           rank == [i \in I |-> Cardinality(upTo(i))]
<1>1. n \in Nat
  BY FS_CardinalityType
<1>2. ASSUME NEW i \in I
      PROVE  IsFiniteSet(upTo(i)) /\ rank[i] \in 1 .. n
  <2>1. IsFiniteSet(upTo(i)) /\ Cardinality(upTo(i)) <= n
    BY upTo(i) \in SUBSET I, FS_Subset
  <2>2. Cardinality(upTo(i)) \in Nat /\ Cardinality(upTo(i)) # 0
    BY <2>1, i \in upTo(i), FS_CardinalityType, FS_EmptySet
  <2> QED
    BY <2>1, <2>2, <1>1
<1>3. ASSUME NEW i \in I, NEW j \in I, i < j
      PROVE  rank[i] < rank[j]
  <2>0. i \in Int /\ j \in Int
    OBVIOUS
  <2>6. ASSUME NEW x \in upTo(i) PROVE x \in upTo(j)
    <3>1. x \in I /\ x <= i
      OBVIOUS
    <3>2. x \in Int
      BY <3>1
    <3>3. x <= j
      BY <2>0, <3>1, <3>2, <1>3
    <3> QED
      BY <3>1, <3>3
  <2>7. j <= j /\ ~(j <= i)
    BY <2>0, <1>3
  <2>1. upTo(i) \subseteq upTo(j) /\ j \in upTo(j) /\ j \notin upTo(i)
    BY <2>6, <2>7
  <2> HIDE DEF upTo
  <2>2. IsFiniteSet(upTo(i)) /\ IsFiniteSet(upTo(j))
    BY <1>2
  <2>3. Cardinality(upTo(i)) <= Cardinality(upTo(j)) /\ Cardinality(upTo(i)) # Cardinality(upTo(j))
    BY <2>1, <2>2, FS_Subset
  <2>4. Cardinality(upTo(i)) \in Nat /\ Cardinality(upTo(j)) \in Nat
    BY <2>2, FS_CardinalityType
  <2> QED
    BY <2>3, <2>4
<1>4. rank \in [I -> 1 .. n] /\ \A i, j \in I : i < j => rank[i] < rank[j]
  BY <1>2, <1>3
<1> HIDE DEF n, rank
<1>5. rank \in Injection(I, 1 .. n)
  <2>1. ASSUME NEW i \in I, NEW j \in I, rank[i] = rank[j]
        PROVE  i = j
    <3>1. i \in Nat /\ j \in Nat /\ rank[i] \in Nat /\ rank[j] \in Nat
      BY <1>4
    <3> QED
      BY <1>4, <2>1, <3>1
  <2> QED
    BY <1>4, <2>1 DEF Injection, IsInjective
<1>6. IsFiniteSet(1 .. n) /\ Cardinality(1 .. n) = n
  BY <1>1, FS_Interval
<1>7. rank \in Surjection(I, 1 .. n)
  BY <1>5, <1>6, FS_Injection DEF n
<1>8. \A k \in 1 .. n : \E i \in I : rank[i] = k
  BY <1>7 DEF Surjection
<1> DEFINE p == [k \in 1 .. n |-> CHOOSE i \in I : rank[i] = k]
<1>9. p \in [1 .. n -> I] /\ \A k \in 1 .. n : rank[p[k]] = k
  BY <1>8
<1> HIDE DEF p
<1>10. ASSUME NEW k \in DOMAIN p, NEW l \in DOMAIN p, k < l
       PROVE  p[k] < p[l]
  <2>1. k \in 1 .. n /\ l \in 1 .. n /\ p[k] \in I /\ p[l] \in I
    BY <1>9
  <2>2. rank[p[k]] = k /\ rank[p[l]] = l
    BY <2>1, <1>9
  <2>3. p[l] < p[k] => l < k
    BY <2>1, <2>2, <1>4
  <2>4. p[k] \in Nat /\ p[l] \in Nat /\ k \in Nat /\ l \in Nat
    BY <2>1, I \subseteq Nat, 1 .. n \subseteq Nat
  <2> QED
    BY <2>2, <2>3, <2>4, <1>10
<1> QED
  BY <1>9, <1>10 DEF n

LEMMA InOrderLists ==
  ASSUME NEW I \in SUBSET Nat, IsFiniteSet(I)
  PROVE  /\ InOrder(I) \in [1 .. Cardinality(I) -> I]
         /\ IsInjective(InOrder(I))
         /\ \A i \in I : \E k \in DOMAIN InOrder(I) : InOrder(I)[k] = i
<1> DEFINE p == InOrder(I)
           n == Cardinality(I)
<1>1. p \in [1 .. n -> I] /\ \A k, l \in DOMAIN p : k < l => p[k] < p[l]
  BY OrderExists DEF InOrder
<1>2. n \in Nat
  BY FS_CardinalityType
<1> HIDE DEF p
<1>3. p \in Injection(1 .. n, I)
  <2>1. ASSUME NEW k \in 1 .. n, NEW l \in 1 .. n, p[k] = p[l]
        PROVE  k = l
    <3>0. p[k] \in I /\ p[l] \in I
      BY <1>1
    <3>1. p[k] \in Nat /\ p[l] \in Nat /\ k \in Nat /\ l \in Nat
      BY <3>0, I \subseteq Nat, 1 .. n \subseteq Nat
    <3> QED
      BY <1>1, <2>1, <3>1
  <2> QED
    BY <1>1, <2>1 DEF Injection, IsInjective
<1>4. Cardinality(1 .. n) = n
  BY <1>2, FS_Interval
<1>5. p \in Surjection(1 .. n, I)
  <2> HIDE DEF n
  <2>1. Cardinality(1 .. n) = Cardinality(I)
    BY <1>4 DEF n
  <2> QED
    BY <1>3, <2>1, FS_Injection
<1> QED
  BY <1>1, <1>3, <1>5 DEF p, Injection, Surjection

\* Of a bound flow: the approved findings are finitely many, and what was
\* verified is about them.
ApprovedIn(flow) == {flow.approved[n] : n \in DOMAIN flow.approved}
VerifiedRows(flow) == DOMAIN flow.verify.rows

LEMMA BoundRows ==
  ASSUME NEW flow, FlowBound(flow)
  PROVE  /\ IsFiniteSet(ApprovedIn(flow))
         /\ ~Verified(flow) => VerifiedRows(flow) = {}
         /\ Verified(flow) => VerifiedRows(flow) = ApprovedIn(flow)
         /\ IsFiniteSet(VerifiedRows(flow))
         /\ \A f \in VerifiedRows(flow) :
              /\ f \in ApprovedIn(flow) /\ ResultRow(flow.verify.rows[f])
              /\ {i.id : i \in flow.verify.rows[f].items} = PlannedFor(flow, f)
         /\ Verified(flow) => VerifyAccepted(Values(flow.verify.rows), flow.verify.result)
<1> DEFINE chosen == ApprovedIn(flow)
           n == Len(flow.approved)
<1>1. flow.approved \in Seq(chosen)
  BY DEF FlowBound, IsSeq, ApprovedIn
<1>2. flow.approved \in Surjection(1 .. n, chosen) /\ n \in Nat
  BY <1>1 DEF Surjection, ApprovedIn
<1>3. IsFiniteSet(1 .. n)
  BY <1>2, FS_Interval
<1>4. IsFiniteSet(chosen)
  <2> HIDE DEF chosen, n
  <2> QED
    BY <1>2, <1>3, FS_Surjection
<1>5. ~Verified(flow) => flow.verify.rows = <<>>
  BY DEF FlowBound
<1>6. ~Verified(flow) => VerifiedRows(flow) = {}
  BY <1>5 DEF VerifiedRows
<1>7. Verified(flow) =>
        /\ VerifiedRows(flow) = chosen /\ VerifyAccepted(Values(flow.verify.rows), flow.verify.result)
        /\ \A f \in chosen : ResultRow(flow.verify.rows[f]) /\ {i.id : i \in flow.verify.rows[f].items} = PlannedFor(flow, f)
  BY DEF FlowBound, VerifiedRows, ApprovedIn
<1>8. IsFiniteSet({})
  BY FS_EmptySet
<1> QED
  BY <1>4, <1>6, <1>7, <1>8

LEMMA ItemsProved ==
  ASSUME NEW flow, FlowBound(flow), NEW p \in ProofsOf(flow, "items")
  PROVE  \E f \in VerifiedRows(flow) :
           /\ p[1] = f /\ p[2] \in flow.verify.rows[f].items
           /\ p[2].id \in PlannedFor(flow, f)
           /\ ItemAccepted(p[2]) /\ p = <<f, p[2]>>
           /\ p[2].status \in Statuses /\ p[2].mode \in Modes /\ p[2].vis \in Visibility
<1>0. PICK f \in VerifiedRows(flow) : \E i \in flow.verify.rows[f].items : p = <<f, i>>
  BY DEF ProofsOf, VerifiedRows
<1>1. PICK i \in flow.verify.rows[f].items : p = <<f, i>>
  BY <1>0
<1>2. ResultRow(flow.verify.rows[f]) /\ i.id \in PlannedFor(flow, f)
  BY <1>1, BoundRows
<1>3. ItemAccepted(i) /\ i.status \in Statuses /\ i.mode \in Modes /\ i.vis \in Visibility
  BY <1>2 DEF ResultRow, RowAccepted
<1> QED
  BY <1>1, <1>2, <1>3

LEMMA ScenariosProved ==
  ASSUME NEW flow, FlowBound(flow), NEW p \in ProofsOf(flow, "scenarios")
  PROVE  \E f \in VerifiedRows(flow) :
           /\ p[1] = f /\ p[2] \in flow.verify.rows[f].scenarios
           /\ ScenarioAccepted(p[2]) /\ p = <<f, p[2]>> /\ p[2] \in Scenarios
<1>0. PICK f \in VerifiedRows(flow) : \E s \in flow.verify.rows[f].scenarios : p = <<f, s>>
  BY DEF ProofsOf, VerifiedRows
<1>1. PICK s \in flow.verify.rows[f].scenarios : p = <<f, s>>
  BY <1>0
<1>2. ResultRow(flow.verify.rows[f])
  BY <1>1, BoundRows
<1>3. ScenarioAccepted(s) /\ s \in Scenarios
  BY <1>2 DEF ResultRow, RowAccepted
<1> QED
  BY <1>1, <1>3

\* As many telemetry items have a result as were planned, in a verified flow.
LEMMA ItemsCounted ==
  ASSUME NEW flow, FlowBound(flow)
  PROVE  /\ Len(flow.planned) \in Nat
         /\ IsFiniteSet(ProofsOf(flow, "items"))
         /\ Verified(flow) => Cardinality(ProofsOf(flow, "items")) = Len(flow.planned)
         /\ Cardinality(ProofsOf(flow, "items")) <= Len(flow.planned)
<1> DEFINE items == ProofsOf(flow, "items")
           n == Len(flow.planned)
           for(p) == {k \in 1 .. n : flow.planned[k].finding = p[1] /\ flow.planned[k].id = p[2].id}
           place == [p \in items |-> CHOOSE k \in 1 .. n : k \in for(p)]
<1>1. n \in Nat /\ DOMAIN flow.planned = 1 .. n
  BY DEF FlowBound, IsSeq
<1>2. CASE ~Verified(flow)
  <2>1. items = {}
    BY <1>2, BoundRows DEF ProofsOf, VerifiedRows
  <2>2. IsFiniteSet({}) /\ Cardinality({}) = 0
    BY FS_EmptySet
  <2>3. IsFiniteSet(items) /\ Cardinality(items) = 0
    BY <2>1, <2>2
  <2> HIDE DEF items, n
  <2>4. Cardinality(items) <= n
    BY <1>1, <2>3
  <2> QED
    BY <1>1, <1>2, <2>3, <2>4 DEF items, n
<1>3. CASE Verified(flow)
  <2>1. ASSUME NEW p \in items PROVE \E k \in 1 .. n : k \in for(p)
    BY <1>1, ItemsProved DEF PlannedFor
  <2>2. place \in [items -> 1 .. n] /\ \A p \in items : place[p] \in for(p)
    BY <2>1
  <2> HIDE DEF place
  <2>3. ASSUME NEW p \in items, NEW q \in items, place[p] = place[q] PROVE p = q
    <3>1. p[1] = q[1] /\ p[2].id = q[2].id
      BY <2>2, <2>3
    <3>2. PICK f \in VerifiedRows(flow) : p[1] = f /\ p[2] \in flow.verify.rows[f].items /\ p = <<f, p[2]>>
      BY ItemsProved
    <3>5. PICK g \in VerifiedRows(flow) : q[1] = g /\ q[2] \in flow.verify.rows[g].items /\ q = <<g, q[2]>>
      BY ItemsProved
    <3>3. q[2] \in flow.verify.rows[f].items /\ q = <<f, q[2]>>
      BY <3>1, <3>2, <3>5
    <3>4. p[2] = q[2]
      BY <3>1, <3>2, <3>3, BoundRows DEF ResultRow
    <3> QED
      BY <3>2, <3>3, <3>4
  <2>4. ASSUME NEW k \in 1 .. n PROVE \E p \in items : place[p] = k
    <3> DEFINE f == flow.planned[k].finding
    <3>1. f \in ApprovedIn(flow) /\ flow.planned[k].id \in PlannedFor(flow, f)
      BY <1>1 DEF FlowBound, ApprovedIn, PlannedFor
    <3>2. f \in VerifiedRows(flow)
      BY <3>1, <1>3, BoundRows
    <3>3. PICK i \in flow.verify.rows[f].items : i.id = flow.planned[k].id
      BY <3>1, <3>2, BoundRows
    <3> HIDE DEF f
    <3>4. <<f, i>> \in items
      BY <3>2, <3>3 DEF ProofsOf, VerifiedRows
    <3>5. place[<<f, i>>] \in 1 .. n /\ flow.planned[place[<<f, i>>]].id = i.id
      BY <2>2, <3>4
    <3>6. \A a, b \in DOMAIN flow.planned : flow.planned[a].id = flow.planned[b].id => a = b
      BY DEF FlowBound, IsInjective
    <3>7. place[<<f, i>>] = k
      BY <3>3, <3>5, <3>6, <1>1
    <3> QED
      BY <3>4, <3>7
  <2>5. place \in Injection(items, 1 .. n) /\ place \in Surjection(items, 1 .. n)
    BY <2>2, <2>3, <2>4 DEF Injection, IsInjective, Surjection
  <2>6. IsFiniteSet(1 .. n) /\ Cardinality(1 .. n) = n
    BY <1>1, FS_Interval
  <2> HIDE DEF items, n
  <2>7. IsFiniteSet(items) /\ Cardinality(items) = Cardinality(1 .. n)
    BY <2>5, <2>6, FS_Injection
  <2> QED
    BY <1>1, <2>6, <2>7 DEF items, n
<1> QED
  BY <1>2, <1>3

LEMMA ScenariosCounted ==
  ASSUME NEW flow, FlowBound(flow)
  PROVE  IsFiniteSet(ProofsOf(flow, "scenarios"))
<1> DEFINE of(f) == {<<f, s>> : s \in flow.verify.rows[f].scenarios}
           all == {of(f) : f \in VerifiedRows(flow)}
           tag == [f \in VerifiedRows(flow) |-> of(f)]
<1>1. ASSUME NEW f \in VerifiedRows(flow) PROVE IsFiniteSet(of(f))
  <2> DEFINE S == flow.verify.rows[f].scenarios
             m == [s \in S |-> <<f, s>>]
  <2>1. IsFiniteSet(S)
    BY BoundRows DEF ResultRow
  <2>2. m \in Surjection(S, of(f))
    BY DEF Surjection
  <2> HIDE DEF S, m, of
  <2> QED
    BY <2>1, <2>2, FS_Surjection
<1>2. tag \in Surjection(VerifiedRows(flow), all)
  BY DEF Surjection
<1>3. IsFiniteSet(all)
  <2> HIDE DEF tag, all
  <2> QED
    BY <1>2, BoundRows, FS_Surjection
<1>4. IsFiniteSet(UNION all)
  <2>1. \A T \in all : IsFiniteSet(T)
    BY <1>1
  <2> HIDE DEF all
  <2> QED
    BY <1>3, <2>1, FS_UNION
<1>5. ProofsOf(flow, "scenarios") = UNION all
  BY DEF ProofsOf, VerifiedRows
<1> QED
  BY <1>4, <1>5

\* The counts at the top of the page, as sizes of sets of what was proved.
ScenariosWith(flow, status) == {p \in ProofsOf(flow, "scenarios") : p[2].status = status}
UnprovenScenarios(flow, ran) ==
  {p \in ProofsOf(flow, "scenarios") : p[2].status = "not_proven" /\ Ran(p[2]) = ran}
ItemsSeen(flow, vis) == {p \in ProofsOf(flow, "items") : p[2].vis = vis}
ItemsRan(flow)    == {p \in ProofsOf(flow, "items") : Ran(p[2])}
ItemsWorking(flow) == {p \in ProofsOf(flow, "items") : p[2].status = "working"}
ScenariosReached(flow) == {p \in ProofsOf(flow, "scenarios") : Delivered(p[2])}
RowsFailed(flow) == {f \in VerifiedRows(flow) : flow.verify.rows[f].status = "not_working"}

LEMMA CountsAreSizes ==
  ASSUME NEW flow
  PROVE  LET counts == ProofCounts(flow)
         IN /\ counts.items = Len(flow.planned)
            /\ counts.exercised = Cardinality(ItemsRan(flow))
            /\ counts.working = Cardinality(ItemsWorking(flow))
            /\ counts.visible = Cardinality(ItemsSeen(flow, "explorer_visible"))
            /\ counts.accepted = Cardinality(ItemsSeen(flow, "otlp_accepted"))
            /\ counts.reached = Cardinality(ScenariosReached(flow))
            /\ counts.failed = Cardinality(RowsFailed(flow))
            /\ counts.scenarios = Cardinality(ProofsOf(flow, "scenarios"))
            /\ counts.by[1] = Cardinality(ScenariosWith(flow, "working"))
            /\ counts.by[2] = Cardinality(ScenariosWith(flow, "blocked"))
            /\ counts.by[3] = Cardinality(UnprovenScenarios(flow, TRUE))
            /\ counts.by[4] = Cardinality(UnprovenScenarios(flow, FALSE))
            /\ counts.by[5] = Cardinality(ScenariosWith(flow, "not_configured"))
            /\ counts.by[6] = Cardinality(ScenariosWith(flow, "not_working"))
BY DEF ProofCounts, HowManyHave, ScenariosWith, UnprovenScenarios, ItemsSeen, ItemsRan, ItemsWorking, ScenariosReached,
       RowsFailed, VerifiedRows

\* The number of elements of sets that have none in common.
LEMMA SizesAddUp ==
  ASSUME NEW S, NEW T, IsFiniteSet(S), IsFiniteSet(T), S \cap T = {}
  PROVE  IsFiniteSet(S \cup T) /\ Cardinality(S \cup T) = Cardinality(S) + Cardinality(T)
<1>1. Cardinality(S) \in Nat /\ Cardinality(T) \in Nat
  BY FS_CardinalityType
<1>2. Cardinality(S \cap T) = 0
  BY FS_EmptySet
<1>3. IsFiniteSet(S \cup T) /\ Cardinality(S \cup T) = Cardinality(S) + Cardinality(T) - Cardinality(S \cap T)
  BY FS_Union
<1> QED
  BY <1>1, <1>2, <1>3

\* Every scenario is counted in one of the six groups.
LEMMA GroupsAddUp ==
  ASSUME NEW flow, FlowBound(flow)
  PROVE  LET size(status) == Cardinality(ScenariosWith(flow, status))
         IN size("working") + size("blocked") + Cardinality(UnprovenScenarios(flow, TRUE))
              + Cardinality(UnprovenScenarios(flow, FALSE)) + size("not_configured") + size("not_working")
            = Cardinality(ProofsOf(flow, "scenarios"))
<1> DEFINE all == ProofsOf(flow, "scenarios")
           a == ScenariosWith(flow, "working")
           b == ScenariosWith(flow, "blocked")
           c == UnprovenScenarios(flow, TRUE)
           d == UnprovenScenarios(flow, FALSE)
           e == ScenariosWith(flow, "not_configured")
           g == ScenariosWith(flow, "not_working")
<1>1. /\ a \in SUBSET all /\ b \in SUBSET all /\ c \in SUBSET all
      /\ d \in SUBSET all /\ e \in SUBSET all /\ g \in SUBSET all
  BY DEF ScenariosWith, UnprovenScenarios
<1>2. a \cup b \cup c \cup d \cup e \cup g = all
  <2>1. ASSUME NEW p \in all PROVE p \in a \cup b \cup c \cup d \cup e \cup g
    <3>1. p[2] \in Scenarios
      BY ScenariosProved
    <3>2. p[2].status \in Statuses
      BY <3>1 DEF Scenarios
    <3>3. Ran(p[2]) \in BOOLEAN
      BY DEF Ran
    <3> QED
      BY <3>2, <3>3 DEF Statuses, ScenariosWith, UnprovenScenarios
  <2> QED
    BY <1>1, <2>1
<1>3. /\ a \cap b = {} /\ (a \cup b) \cap c = {} /\ (a \cup b \cup c) \cap d = {}
      /\ (a \cup b \cup c \cup d) \cap e = {} /\ (a \cup b \cup c \cup d \cup e) \cap g = {}
  BY DEF ScenariosWith, UnprovenScenarios
<1>4. IsFiniteSet(all)
  BY ScenariosCounted
<1> HIDE DEF all, a, b, c, d, e, g
<1>5. IsFiniteSet(a) /\ IsFiniteSet(b) /\ IsFiniteSet(c) /\ IsFiniteSet(d) /\ IsFiniteSet(e) /\ IsFiniteSet(g)
  BY <1>1, <1>4, FS_Subset
<1>6. IsFiniteSet(a \cup b) /\ Cardinality(a \cup b) = Cardinality(a) + Cardinality(b)
  BY <1>3, <1>5, SizesAddUp
<1>7. IsFiniteSet(a \cup b \cup c) /\ Cardinality(a \cup b \cup c) = Cardinality(a \cup b) + Cardinality(c)
  BY <1>3, <1>5, <1>6, SizesAddUp
<1>8. /\ IsFiniteSet(a \cup b \cup c \cup d)
      /\ Cardinality(a \cup b \cup c \cup d) = Cardinality(a \cup b \cup c) + Cardinality(d)
  BY <1>3, <1>5, <1>7, SizesAddUp
<1>9. /\ IsFiniteSet(a \cup b \cup c \cup d \cup e)
      /\ Cardinality(a \cup b \cup c \cup d \cup e) = Cardinality(a \cup b \cup c \cup d) + Cardinality(e)
  BY <1>3, <1>5, <1>8, SizesAddUp
<1>10. Cardinality(a \cup b \cup c \cup d \cup e \cup g) = Cardinality(a \cup b \cup c \cup d \cup e) + Cardinality(g)
  BY <1>3, <1>5, <1>9, SizesAddUp
<1>11. Cardinality(a) + Cardinality(b) + Cardinality(c) + Cardinality(d) + Cardinality(e) + Cardinality(g) = Cardinality(all)
  BY <1>2, <1>6, <1>7, <1>8, <1>9, <1>10
<1> QED
  BY <1>11 DEF all, a, b, c, d, e, g

\* What a result that was accepted says of the rows.
LEMMA ResultOfRows ==
  ASSUME NEW flow, FlowBound(flow), Verified(flow)
  PROVE  LET result == flow.verify.result
             row(f) == flow.verify.rows[f]
         IN /\ result \in Results
            /\ (result = "Fail") <=> \E f \in VerifiedRows(flow) : row(f).status = "not_working"
            /\ result = "Pass" => VerifiedRows(flow) # {} /\ \A f \in VerifiedRows(flow) : row(f).status = "working"
            /\ result \in {"Blocked", "Not run"} =>
                 \A f \in VerifiedRows(flow) : \A p \in Proofs(row(f)) : ~Ran(p)
            /\ result = "Blocked" => \E f \in VerifiedRows(flow) : Some(row(f).scenarios, "blocked")
<1> DEFINE rows == Values(flow.verify.rows)
           result == flow.verify.result
<1>1. VerifyAccepted(rows, result)
  BY BoundRows
<1>2. \A r : r \in rows <=> \E f \in VerifiedRows(flow) : r = flow.verify.rows[f]
  BY DEF Values, VerifiedRows
<1> HIDE DEF rows
<1>3. result = ExpectedResult(rows)
  BY <1>1 DEF VerifyAccepted
<1>4. result \in Results
  BY <1>3 DEF ExpectedResult, Results
<1>5. (result = "Fail") <=> \E r \in rows : r.status = "not_working"
  BY <1>1 DEF VerifyAccepted
<1>6. result = "Pass" => rows # {} /\ \A r \in rows : r.status = "working"
  BY <1>3 DEF ExpectedResult, All
<1>7. result \in {"Blocked", "Not run"} => \A r \in rows : \A p \in Proofs(r) : ~Ran(p)
  BY <1>3 DEF ExpectedResult
<1>8. result = "Blocked" => \E r \in rows : Some(r.scenarios, "blocked")
  BY <1>3 DEF ExpectedResult
<1> QED
  BY <1>2, <1>4, <1>5, <1>6, <1>7, <1>8

LEMMA SizeOfPart ==
  ASSUME NEW S, IsFiniteSet(S), NEW T \in SUBSET S
  PROVE  /\ IsFiniteSet(T) /\ Cardinality(T) \in Nat /\ Cardinality(S) \in Nat
         /\ Cardinality(T) <= Cardinality(S) /\ (Cardinality(T) > 0 <=> T # {})
<1>1. IsFiniteSet(T) /\ Cardinality(T) <= Cardinality(S)
  BY FS_Subset
<1>2. Cardinality(T) \in Nat /\ Cardinality(S) \in Nat
  BY <1>1, FS_CardinalityType
<1>3. Cardinality(T) = 0 <=> T = {}
  BY <1>1, FS_EmptySet
<1> QED
  BY <1>1, <1>2, <1>3

\* The counts of changes, against each other and against the result.
LEMMA CountsAgree ==
  ASSUME NEW flow, FlowBound(flow)
  PROVE  LET counts == ProofCounts(flow)
         IN /\ counts.working <= counts.exercised /\ counts.exercised <= counts.items
            /\ DeliveryStat(counts) <= counts.items
            /\ Interpretation(flow) = "every item was observed" => counts.working = counts.items
            /\ Interpretation(flow) = "nothing ran" => counts.exercised + DeliveryStat(counts) + counts.reached = 0
            /\ (Interpretation(flow) = "something failed") <=> (counts.failed > 0)
<1> DEFINE items == ProofsOf(flow, "items")
           scenarios == ProofsOf(flow, "scenarios")
           n == Len(flow.planned)
           working == ItemsWorking(flow)
           ran == ItemsRan(flow)
           visible == ItemsSeen(flow, "explorer_visible")
           taken == ItemsSeen(flow, "otlp_accepted")
           reached == ScenariosReached(flow)
           failed == RowsFailed(flow)
           c == ProofCounts(flow)
<1>1. \A p \in items : /\ p[2].status = "working" => Ran(p[2])
                       /\ Delivered(p[2]) => Ran(p[2])
  <2>1. ASSUME NEW p \in items
        PROVE  (p[2].status = "working" => Ran(p[2])) /\ (Delivered(p[2]) => Ran(p[2]))
    <3>1. ItemAccepted(p[2])
      BY ItemsProved
    <3> QED
      BY <3>1 DEF ItemAccepted, Shown
  <2> QED
    BY <2>1
<1>2. \A p \in scenarios : Delivered(p[2]) => Ran(p[2])
  <2>1. ASSUME NEW p \in scenarios
        PROVE  Delivered(p[2]) => Ran(p[2])
    <3>1. ScenarioAccepted(p[2])
      BY ScenariosProved
    <3> QED
      BY <3>1 DEF ScenarioAccepted, Shown
  <2> QED
    BY <2>1
<1>3. /\ working \subseteq ran /\ visible \subseteq ran /\ taken \subseteq ran /\ ran \subseteq items
      /\ reached \subseteq scenarios /\ failed \subseteq VerifiedRows(flow)
  BY <1>1 DEF ItemsWorking, ItemsRan, ItemsSeen, ScenariosReached, RowsFailed, Delivered
<1>4. /\ IsFiniteSet(items) /\ IsFiniteSet(scenarios) /\ IsFiniteSet(VerifiedRows(flow))
      /\ Cardinality(items) <= n /\ n \in Nat
      /\ Verified(flow) => Cardinality(items) = n
  BY ItemsCounted, ScenariosCounted, BoundRows
<1>5. /\ c.items = n /\ c.exercised = Cardinality(ran) /\ c.working = Cardinality(working)
      /\ c.visible = Cardinality(visible) /\ c.accepted = Cardinality(taken)
      /\ c.reached = Cardinality(reached) /\ c.failed = Cardinality(failed)
  BY CountsAreSizes
<1> HIDE DEF items, scenarios, n, working, ran, visible, taken, reached, failed, c
<1>6. /\ Cardinality(ran) \in Nat /\ Cardinality(items) \in Nat /\ Cardinality(ran) <= Cardinality(items)
      /\ IsFiniteSet(ran) /\ (Cardinality(ran) > 0 <=> ran # {})
  BY <1>3, <1>4, SizeOfPart
<1>7. /\ Cardinality(working) \in Nat /\ Cardinality(working) <= Cardinality(ran)
      /\ Cardinality(visible) \in Nat /\ Cardinality(visible) <= Cardinality(ran)
      /\ Cardinality(taken) \in Nat /\ Cardinality(taken) <= Cardinality(ran)
  BY <1>3, <1>6, SizeOfPart
<1>8. /\ Cardinality(reached) \in Nat /\ (Cardinality(reached) > 0 <=> reached # {})
      /\ Cardinality(failed) \in Nat /\ (Cardinality(failed) > 0 <=> failed # {})
  BY <1>3, <1>4, SizeOfPart
<1>9. DeliveryStat(c) \in {Cardinality(visible), Cardinality(taken)}
  BY <1>5 DEF DeliveryStat
<1>10. /\ c.working <= c.exercised /\ c.exercised <= c.items /\ DeliveryStat(c) <= c.items
  BY <1>4, <1>5, <1>6, <1>7, <1>9
<1>11. Verified(flow) => flow.verify.result \in Results
  BY ResultOfRows
<1>12. ASSUME Interpretation(flow) = "every item was observed"
       PROVE  c.working = c.items
  <2>1. flow.verify.result = "Pass" /\ Verified(flow)
    BY <1>11, <1>12 DEF Interpretation, Verified, Results
  <2>2. ASSUME NEW p \in items PROVE p \in working
    <3>1. PICK f \in VerifiedRows(flow) : p[2] \in flow.verify.rows[f].items
      BY ItemsProved DEF items
    <3>2. flow.verify.rows[f].status = "working"
      BY <2>1, ResultOfRows
    <3>3. RowAccepted(flow.verify.rows[f])
      BY BoundRows DEF ResultRow
    <3>4. p[2].status = "working"
      BY <3>1, <3>2, <3>3 DEF RowAccepted, All, Proofs
    <3> QED
      BY <3>4 DEF working, ItemsWorking, items
  <2>3. working = items
    BY <2>2, <1>3
  <2> QED
    BY <2>1, <2>3, <1>4, <1>5
<1>13. ASSUME Interpretation(flow) = "nothing ran"
       PROVE  c.exercised + DeliveryStat(c) + c.reached = 0
  <2>1. ~Verified(flow) \/ (Verified(flow) /\ flow.verify.result = "Not run")
    BY <1>11, <1>13 DEF Interpretation, Verified, Results
  <2>2. ran = {}
    <3>1. ASSUME NEW p \in ran PROVE FALSE
      <4>1. p \in items /\ Ran(p[2])
        BY DEF ran, ItemsRan, items
      <4>2. PICK f \in VerifiedRows(flow) : p[2] \in flow.verify.rows[f].items
        BY <4>1, ItemsProved DEF items
      <4>3. Verified(flow)
        BY <4>2, BoundRows
      <4> QED
        BY <4>1, <4>2, <4>3, <2>1, ResultOfRows DEF Proofs
    <3> QED
      BY <3>1
  <2>3. reached = {}
    <3>1. ASSUME NEW p \in reached PROVE FALSE
      <4>1. p \in scenarios /\ Ran(p[2])
        BY <1>2 DEF reached, ScenariosReached, scenarios
      <4>2. PICK f \in VerifiedRows(flow) : p[2] \in flow.verify.rows[f].scenarios
        BY <4>1, ScenariosProved DEF scenarios
      <4>3. Verified(flow)
        BY <4>2, BoundRows
      <4> QED
        BY <4>1, <4>2, <4>3, <2>1, ResultOfRows DEF Proofs
    <3> QED
      BY <3>1
  <2>4. Cardinality(ran) = 0 /\ Cardinality(reached) = 0
    BY <2>2, <2>3, FS_EmptySet
  <2> QED
    BY <2>4, <1>5, <1>7, <1>9
<1>14. (Interpretation(flow) = "something failed") <=> (c.failed > 0)
  <2>1. failed # {} <=> \E f \in VerifiedRows(flow) : flow.verify.rows[f].status = "not_working"
    BY DEF failed, RowsFailed
  <2>2. CASE Verified(flow)
    <3>1. (Interpretation(flow) = "something failed") <=> flow.verify.result = "Fail"
      BY <1>11, <2>2 DEF Interpretation, Results
    <3>2. flow.verify.result = "Fail" <=> failed # {}
      BY <2>1, <2>2, ResultOfRows
    <3> QED
      BY <3>1, <3>2, <1>5, <1>8
  <2>3. CASE ~Verified(flow)
    <3>1. Interpretation(flow) = "nothing ran"
      BY <2>3 DEF Interpretation, Verified
    <3>2. failed = {}
      BY <2>1, <2>3, BoundRows
    <3> QED
      BY <3>1, <3>2, <1>5, <1>8
  <2> QED
    BY <2>2, <2>3
<1> QED
  BY <1>10, <1>12, <1>13, <1>14 DEF c

\* One row, in its card, in the closure and in the heading.
LEMMA CardTells ==
  ASSUME NEW flow, FlowBound(flow), NEW f \in ApprovedIn(flow)
  PROVE  /\ (Card(flow, f).head = "failed") <=> (Card(flow, f).then = "repair")
         /\ Card(flow, f).then = "still to do" => ClosureRow(flow, f, FALSE).remaining
         /\ Verified(flow) => Card(flow, f).proof = ClosureRow(flow, f, FALSE).status
         /\ NextSteps(flow, FALSE) = "nothing" =>
              ~ClosureRow(flow, f, FALSE).remaining /\ Card(flow, f).then = "none"
         /\ Card(flow, f).then = "repair" <=> f \in RowsFailed(flow)
<1>1. CASE ~Verified(flow)
  <2>1. /\ Card(flow, f).head = "incomplete" /\ Card(flow, f).then = "none"
        /\ ~ClosureRow(flow, f, FALSE).remaining
    BY <1>1 DEF Card, ClosureRow
  <2>2. f \notin RowsFailed(flow)
    BY <1>1, BoundRows DEF RowsFailed
  <2> QED
    BY <1>1, <2>1, <2>2
<1>2. CASE Verified(flow)
  <2> DEFINE row == flow.verify.rows[f]
  <2>1. f \in VerifiedRows(flow) /\ RowAccepted(row) /\ row.status \in Closures
    BY <1>2, BoundRows DEF ResultRow
  <2>2. /\ Card(flow, f).head = FindingHeading(row) /\ Card(flow, f).then = FollowUp(row)
        /\ Card(flow, f).proof = row.status
        /\ ClosureRow(flow, f, FALSE).status = row.status /\ ClosureRow(flow, f, FALSE).remaining = row.remaining
    BY <1>2 DEF Card, ClosureRow
  <2>3. NextSteps(flow, FALSE) = "nothing" => flow.verify.result = "Pass"
    <3>1. flow.verify.result \in Results
      BY <1>2, ResultOfRows
    <3> QED
      BY <3>1 DEF NextSteps, Results
  <2>4. flow.verify.result = "Pass" => row.status = "working"
    BY <1>2, <2>1, ResultOfRows
  <2>5. f \in RowsFailed(flow) <=> row.status = "not_working"
    BY <2>1 DEF RowsFailed
  <2> HIDE DEF row
  <2>6. FindingHeading(row) = "failed" <=> row.status = "not_working"
    BY <2>1 DEF FindingHeading, RowAccepted
  <2>7. /\ FollowUp(row) = "repair" <=> row.status = "not_working"
        /\ FollowUp(row) = "still to do" => row.remaining
        /\ row.status = "working" => FollowUp(row) = "none" /\ ~row.remaining
    BY <2>1 DEF FollowUp, Closures, RowAccepted
  <2> QED
    BY <2>2, <2>3, <2>4, <2>5, <2>6, <2>7
<1> QED
  BY <1>1, <1>2

\* One telemetry item, in its card, in the table and in what was observed.
LEMMA ItemTells ==
  ASSUME NEW i, i.status \in Statuses, i.mode \in Modes, i.vis \in Visibility
  PROVE  /\ CardLabel(i) = TableLabel(i)
         /\ (CardLabel(i) = "unchecked") <=> (Observation(i) = "unchecked")
         /\ Observation(i) = "observed" => i.seen
<1>1. Ran(i) \in BOOLEAN
  BY DEF Ran
<1>2. CASE i.status = "not_proven" /\ Ran(i)
  BY <1>2 DEF CardLabel, TableLabel, Observation
<1>3. CASE i.status = "not_proven" /\ ~Ran(i)
  BY <1>3 DEF CardLabel, TableLabel, Observation
<1>4. CASE i.status \in Statuses \ {"not_proven"}
  BY <1>4 DEF CardLabel, TableLabel, Observation, Statuses
<1> QED
  BY <1>1, <1>2, <1>3, <1>4

\* The counts, the headings, the cards, the table and what the page says is to
\* be done next agree for every bound flow, of any number of findings and items.
THEOREM PagesShowTheProof ==
  ASSUME NEW flow, FlowBound(flow)
  PROVE  PageShowsTheProof(flow)
<1> DEFINE counts == ProofCounts(flow)
           chosen == ApprovedIn(flow)
           items  == {p[2] : p \in ProofsOf(flow, "items")}
           by     == counts.by
<1>1. by[1] + by[2] + by[3] + by[4] + by[5] + by[6] = counts.scenarios
  BY CountsAreSizes, GroupsAddUp
<1>2. \A i \in items : /\ CardLabel(i) = TableLabel(i)
                       /\ (CardLabel(i) = "unchecked") <=> (Observation(i) = "unchecked")
                       /\ Observation(i) = "observed" => i.seen
  BY ItemsProved, ItemTells
<1>3. Interpretation(flow) = "every item was observed" => \A i \in items : Observation(i) = "observed"
  <2> SUFFICES ASSUME Interpretation(flow) = "every item was observed", NEW p \in ProofsOf(flow, "items")
               PROVE  Observation(p[2]) = "observed"
    OBVIOUS
  <2>1. PICK f \in VerifiedRows(flow) : p[2] \in flow.verify.rows[f].items /\ ItemAccepted(p[2])
    BY ItemsProved
  <2>2. Verified(flow)
    BY <2>1, BoundRows
  <2>3. flow.verify.result = "Pass"
    BY <2>2, ResultOfRows DEF Interpretation, Results
  <2>4. flow.verify.rows[f].status = "working" /\ RowAccepted(flow.verify.rows[f])
    BY <2>1, <2>2, <2>3, ResultOfRows, BoundRows DEF ResultRow
  <2>5. p[2].status = "working" /\ p[2].seen
    BY <2>1, <2>4 DEF RowAccepted, All, Proofs, ItemAccepted, Shown
  <2> QED
    BY <2>5 DEF Observation
<1>4. Interpretation(flow) = "a prerequisite is missing" => \E f \in chosen : Reasons(flow.verify.rows[f]) # {}
  <2> SUFFICES ASSUME Interpretation(flow) = "a prerequisite is missing"
               PROVE  \E f \in chosen : Reasons(flow.verify.rows[f]) # {}
    OBVIOUS
  <2>1. Verified(flow) /\ flow.verify.result = "Blocked"
    BY ResultOfRows DEF Interpretation, Results, Verified
  <2>2. PICK f \in VerifiedRows(flow) : Some(flow.verify.rows[f].scenarios, "blocked")
    BY <2>1, ResultOfRows
  <2>3. PICK s \in flow.verify.rows[f].scenarios : s.status = "blocked"
    BY <2>2 DEF Some
  <2>4. ScenarioAccepted(s) /\ s \in Scenarios /\ f \in chosen
    BY <2>2, <2>3, BoundRows DEF ResultRow, RowAccepted
  <2>5. s \in Reasons(flow.verify.rows[f])
    BY <2>3, <2>4 DEF Reasons, ScenarioAccepted, Scenarios
  <2> QED
    BY <2>4, <2>5
<1>5. counts.failed = Cardinality({f \in chosen : Card(flow, f).then = "repair"})
  <2>1. {f \in chosen : Card(flow, f).then = "repair"} = RowsFailed(flow)
    <3>1. RowsFailed(flow) \subseteq chosen
      BY BoundRows DEF RowsFailed
    <3> QED
      BY <3>1, CardTells
  <2> QED
    BY <2>1, CountsAreSizes
<1>6. /\ counts.working <= counts.exercised /\ counts.exercised <= counts.items
      /\ DeliveryStat(counts) <= counts.items
      /\ Interpretation(flow) = "every item was observed" => counts.working = counts.items
      /\ Interpretation(flow) = "nothing ran" => counts.exercised + DeliveryStat(counts) + counts.reached = 0
      /\ (Interpretation(flow) = "something failed") = (counts.failed > 0)
  <2> DEFINE says == Interpretation(flow) = "something failed"
             has == counts.failed > 0
  <2>1. says <=> has
    BY CountsAgree
  <2>2. says \in BOOLEAN /\ has \in BOOLEAN
    OBVIOUS
  <2>3. says = has
    <3> HIDE DEF says, has
    <3> QED
      BY <2>1, <2>2
  <2> QED
    BY <2>3, CountsAgree
<1>7. \A f \in chosen :
        /\ (Card(flow, f).head = "failed") = (Card(flow, f).then = "repair")
        /\ Card(flow, f).then = "still to do" => ClosureRow(flow, f, FALSE).remaining
        /\ Verified(flow) => Card(flow, f).proof = ClosureRow(flow, f, FALSE).status
        /\ NextSteps(flow, FALSE) = "nothing" => ~ClosureRow(flow, f, FALSE).remaining /\ Card(flow, f).then = "none"
  BY CardTells
<1>8. chosen = {flow.approved[n] : n \in DOMAIN flow.approved}
  BY DEF ApprovedIn
<1> HIDE DEF chosen
<1> QED
  BY <1>1, <1>2, <1>3, <1>4, <1>5, <1>6, <1>7, <1>8 DEF PageShowsTheProof

\* The status of every approved finding that the reports show, and the result
\* that otel.md has to declare.
LEMMA OverlayTells ==
  ASSUME NEW flow, FlowBound(flow)
  PROVE  /\ DOMAIN Overlay(flow) = ApprovedIn(flow)
         /\ \A f \in ApprovedIn(flow) :
              /\ Overlay(flow)[f] \in Closures
              /\ ReportResult(flow) = "Pass" => Overlay(flow)[f] = "working"
              /\ Overlay(flow)[f] = ClosureRow(flow, f, FALSE).status
              /\ Verified(flow) => Overlay(flow)[f] = flow.verify.rows[f].status
         /\ ReportResult(flow) \in Results \ {"Not run"}
         /\ Verified(flow) /\ ReportResult(flow) = "Pass" => flow.verify.result = "Pass"
         /\ \/ flow.verify.result = "Not run" /\ flow.result \in {"Fail", "Blocked"}
            \/ ReportResult(flow) = Aggregate(flow.result, Values(flow.statuses), flow.verify.result)
<1> DEFINE chosen == ApprovedIn(flow)
           result == flow.verify.result
<1>1. /\ DOMAIN flow.statuses = chosen
      /\ \A f \in chosen : flow.statuses[f] \in Values(flow.statuses) /\ flow.statuses[f] \in Closures
      /\ InstrumentationAccepted(Values(flow.statuses), flow.result)
  BY DEF FlowBound, Values, ApprovedIn
<1>2. flow.result \in Results \ {"Not run"} /\ (flow.result = "Pass" => Values(flow.statuses) = {"working"})
  BY <1>1 DEF InstrumentationAccepted
<1>3. CASE ~Verified(flow)
  <2>1. Overlay(flow) = flow.statuses /\ ReportResult(flow) = flow.result /\ result = "none"
    BY <1>3 DEF Overlay, ReportResult, Verified
  <2>2. Aggregate(flow.result, Values(flow.statuses), result) = flow.result
    BY <2>1 DEF Aggregate
  <2>3. \A f \in chosen : ClosureRow(flow, f, FALSE).status = flow.statuses[f]
    BY <1>3 DEF ClosureRow
  <2> QED
    BY <1>1, <1>2, <1>3, <2>1, <2>2, <2>3
<1>4. CASE Verified(flow)
  <2>1. Overlay(flow) = [f \in VerifiedRows(flow) |-> flow.verify.rows[f].status]
    BY <1>4 DEF Overlay, VerifiedRows
  <2>2. VerifiedRows(flow) = chosen /\ \A f \in chosen : flow.verify.rows[f].status \in Closures
    BY <1>4, BoundRows DEF ResultRow
  <2>3. result \in Results /\ (result = "Pass" => \A f \in chosen : flow.verify.rows[f].status = "working")
    BY <1>4, <2>2, ResultOfRows
  <2>4. \A f \in chosen : ClosureRow(flow, f, FALSE).status = flow.verify.rows[f].status
    BY <1>4 DEF ClosureRow
  <2>5. "working" \in Values(flow.statuses) <=> Worked(flow)
    BY DEF Worked, Values
  <2>6. /\ ReportResult(flow) \in Results \ {"Not run"}
        /\ ReportResult(flow) = "Pass" => result = "Pass"
    BY <1>2, <1>4, <2>3 DEF ReportResult, Results
  <2>7. \/ result = "Not run" /\ flow.result \in {"Fail", "Blocked"}
        \/ ReportResult(flow) = Aggregate(flow.result, Values(flow.statuses), result)
    BY <1>4, <2>3, <2>5 DEF ReportResult, Aggregate, Results
  <2> QED
    BY <1>4, <2>1, <2>2, <2>3, <2>4, <2>6, <2>7
<1> QED
  BY <1>3, <1>4

\* The GenAI surfaces that were approved, in the order of the findings.
LEMMA SurfacesSelected ==
  ASSUME NEW flow, FlowBound(flow), NEW audit
  PROVE  LET S == SelectedSurfaces(audit, flow)
         IN /\ S = [k \in DOMAIN S |-> S[k]] /\ IsInjective(S)
            /\ \A k \in DOMAIN S : Finding(flow, S[k]) \in ApprovedIn(flow)
<1> DEFINE n == Len(flow.approved)
           about(k) == flow.area[flow.approved[k]]
           I == {k \in DOMAIN flow.approved : about(k) \in audit.surfaces}
           at == InOrder(I)
           S == SelectedSurfaces(audit, flow)
<1>1. flow.approved \in Seq(ApprovedIn(flow))
  BY DEF FlowBound, IsSeq, ApprovedIn
<1>2. DOMAIN flow.approved = 1 .. n /\ n \in Nat
  BY <1>1
<1>3. I \in SUBSET Nat /\ I \in SUBSET (1 .. n)
  BY <1>2
<1>4. IsFiniteSet(I)
  <2>1. IsFiniteSet(1 .. n)
    BY <1>2, FS_Interval
  <2> HIDE DEF I
  <2> QED
    BY <1>3, <2>1, FS_Subset
<1>5. at \in [1 .. Cardinality(I) -> I] /\ IsInjective(at)
  <2> HIDE DEF I
  <2> QED
    BY <1>3, <1>4, InOrderLists
<1>6. S = [k \in DOMAIN at |-> about(at[k])]
  BY DEF SelectedSurfaces
<1> HIDE DEF at, S
<1>7. \A k \in DOMAIN S : S[k] = about(at[k]) /\ at[k] \in I /\ k \in DOMAIN at
  BY <1>5, <1>6
<1>8. \A k \in I : k \in DOMAIN flow.approved /\ flow.approved[k] \in ApprovedIn(flow)
  BY DEF ApprovedIn
<1>9. DOMAIN flow.area = ApprovedIn(flow) /\ IsInjective(flow.area) /\ IsInjective(flow.approved)
  BY DEF FlowBound, ApprovedIn
<1>10. ASSUME NEW k \in DOMAIN S, NEW l \in DOMAIN S, S[k] = S[l]
       PROVE  k = l
  <2>1. flow.approved[at[k]] = flow.approved[at[l]]
    BY <1>7, <1>8, <1>9, <1>10 DEF IsInjective
  <2>2. at[k] = at[l]
    BY <2>1, <1>7, <1>8, <1>9 DEF IsInjective
  <2> QED
    BY <2>2, <1>5, <1>7 DEF IsInjective
<1>11. ASSUME NEW k \in DOMAIN S
       PROVE  Finding(flow, S[k]) \in ApprovedIn(flow)
  <2>1. flow.approved[at[k]] \in DOMAIN flow.area /\ flow.area[flow.approved[at[k]]] = S[k]
    BY <1>7, <1>8, <1>9
  <2>2. Finding(flow, S[k]) \in DOMAIN flow.area
    BY <2>1 DEF Finding
  <2> QED
    BY <2>2, <1>9
<1>12. IsInjective(S)
  BY <1>10 DEF IsInjective
<1>13. S = [k \in DOMAIN S |-> S[k]]
  BY <1>6
<1> QED
  BY <1>11, <1>12, <1>13 DEF S

\* Whatever otel.md is accepted for a bound flow says what the flow says.
LEMMA AcceptedMarkdownAgrees ==
  ASSUME NEW flow, FlowBound(flow), NEW audit, NEW md, MarkdownAccepted(md, audit, flow)
  PROVE  /\ md.result = ReportResult(flow)
         /\ \A n \in DOMAIN md.rows : md.rows[n].finding \in ApprovedIn(flow)
                                      /\ md.rows[n].status = Overlay(flow)[md.rows[n].finding]
<1>1. Projects(md, flow)
  BY DEF MarkdownAccepted
<1>2. ASSUME NEW n \in DOMAIN md.rows
      PROVE  md.rows[n].finding \in ApprovedIn(flow)
  <2> DEFINE shown == [k \in DOMAIN md.rows |-> md.rows[k].finding]
  <2>1. shown = flow.approved
    BY <1>1 DEF Projects
  <2>2. n \in DOMAIN shown /\ shown[n] = md.rows[n].finding
    OBVIOUS
  <2> HIDE DEF shown
  <2> QED
    BY <2>1, <2>2 DEF ApprovedIn
<1> QED
  BY <1>1, <1>2, OverlayTells DEF Projects

\* No otel.md is accepted if there is a finding of which too little was recorded.
LEMMA AcceptedMarkdownIsTold ==
  ASSUME NEW flow, FlowBound(flow), NEW audit, NEW md, MarkdownAccepted(md, audit, flow)
  PROVE  flow.told = ApprovedIn(flow)
<1>1. Projects(md, flow) /\ RowsWellFormed(md)
  BY DEF MarkdownAccepted
<1>2. flow.told \subseteq ApprovedIn(flow) /\ DOMAIN flow.statuses = ApprovedIn(flow)
  BY DEF FlowBound, ApprovedIn
<1> DEFINE shown == [k \in DOMAIN md.rows |-> md.rows[k].finding]
<1>3. ASSUME NEW f \in ApprovedIn(flow) PROVE f \in flow.told
  <2>1. shown = flow.approved
    BY <1>1 DEF Projects
  <2>2. PICK n \in DOMAIN flow.approved : flow.approved[n] = f
    BY <1>3 DEF ApprovedIn
  <2>3. DOMAIN shown = DOMAIN md.rows /\ \A k \in DOMAIN md.rows : shown[k] = md.rows[k].finding
    OBVIOUS
  <2> HIDE DEF shown
  <2>4. n \in DOMAIN md.rows /\ md.rows[n].finding = f
    BY <2>1, <2>2, <2>3
  <2>5. Joined(md.rows[n], flow) /\ md.rows[n].text
    BY <1>1, <1>2, <1>3, <2>4 DEF Projects, RowsWellFormed
  <2> QED
    BY <2>4, <2>5 DEF Joined
<1> QED
  BY <1>2, <1>3

\* For every bound flow of whose findings enough was recorded, some otel.md is
\* accepted.
LEMMA SomeMarkdownAccepted ==
  ASSUME NEW flow, FlowBound(flow), NEW audit, flow.told = ApprovedIn(flow)
  PROVE  AcceptedMarkdown(flow, audit) # {}
<1> DEFINE S   == SelectedSurfaces(audit, flow)
           A   == flow.approved
           o   == Overlay(flow)
           sts == [n \in DOMAIN A |-> o[A[n]]]
           gs  == [n \in DOMAIN S |-> o[Finding(flow, S[n])]]
           rows == [n \in DOMAIN A |-> JoinedRow(A[n], sts[n], flow.told)]
           genai == [n \in DOMAIN S |-> FullGenai(S[n], gs[n])]
           md  == [result |-> ReportResult(flow), rows |-> rows, genai |-> genai, roles |-> TRUE]
<1>1. \A n \in DOMAIN A : A[n] \in ApprovedIn(flow)
  BY DEF ApprovedIn
<1>2. A \in Seq(ApprovedIn(flow))
  BY DEF FlowBound, IsSeq, ApprovedIn
<1>3. A = [n \in DOMAIN A |-> A[n]]
  BY <1>2
<1>4. /\ S = [k \in DOMAIN S |-> S[k]] /\ IsInjective(S)
      /\ \A k \in DOMAIN S : Finding(flow, S[k]) \in ApprovedIn(flow)
  BY SurfacesSelected
<1>5. /\ DOMAIN o = ApprovedIn(flow)
      /\ \A f \in ApprovedIn(flow) : o[f] \in Closures /\ (ReportResult(flow) = "Pass" => o[f] = "working")
      /\ ReportResult(flow) \in Results \ {"Not run"}
  BY OverlayTells
<1>16. DOMAIN flow.area = ApprovedIn(flow)
  BY DEF FlowBound, ApprovedIn
<1>17. S = SelectedSurfaces(audit, flow) /\ A = flow.approved /\ o = Overlay(flow)
  OBVIOUS
<1> HIDE DEF S, A, o
<1>6. sts \in [DOMAIN A -> Closures] /\ gs \in [DOMAIN S -> Closures]
  BY <1>1, <1>4, <1>5
<1>7. md \in Markdowns(A, S, flow.told)
  <2>1. ReportResult(flow) \in Results
    BY <1>5
  <2>2. genai \in GenaiTables(S)
    <3> HIDE DEF gs
    <3> QED
      BY <1>6 DEF GenaiTables
  <2>3. md = MarkdownOf(ReportResult(flow), A, sts, genai, flow.told)
    BY DEF MarkdownOf
  <2> HIDE DEF genai, md, sts
  <2> QED
    BY <1>6, <2>1, <2>2, <2>3 DEF Markdowns
<1>8. RowsWellFormed(md)
  <2>1. \A n \in DOMAIN rows : rows[n].status \in Closures /\ rows[n].text
    BY <1>1, <1>6 DEF JoinedRow
  <2> QED
    BY <2>1 DEF RowsWellFormed
<1>9. [n \in DOMAIN rows |-> rows[n].finding] = A
  <2>1. \A n \in DOMAIN A : rows[n].finding = A[n]
    BY DEF JoinedRow
  <2> QED
    BY <2>1, <1>3
<1>10. Projects(md, flow)
  <2>1. \A n \in DOMAIN A : rows[n].finding = A[n] /\ rows[n].status = o[A[n]] /\ Joined(rows[n], flow)
    BY DEF JoinedRow, Joined
  <2>2. DOMAIN md.rows = DOMAIN A /\ md.rows = rows /\ md.result = ReportResult(flow)
    OBVIOUS
  <2>3. \A n \in DOMAIN A : A[n] \in DOMAIN o
    BY <1>1, <1>5
  <2>4. [n \in DOMAIN md.rows |-> md.rows[n].finding] = A
    BY <1>9
  <2> HIDE DEF rows, md
  <2> QED
    BY <2>1, <2>2, <2>3, <2>4, <1>17 DEF Projects
<1>11. NoPassWithGaps(md)
  <2>1. ASSUME md.result = "Pass"
        PROVE  /\ \A n \in DOMAIN A : rows[n].status = "working"
               /\ \A n \in DOMAIN S : genai[n].status = "working"
    BY <2>1, <1>1, <1>4, <1>5 DEF JoinedRow, FullGenai
  <2> QED
    BY <2>1 DEF NoPassWithGaps, Open
<1>12. \A n \in DOMAIN genai : GenaiRow(genai[n]) /\ genai[n].required /\ genai[n].surface = S[n] /\ genai[n].status = gs[n]
  <2>1. \A n \in DOMAIN S : gs[n] \in Closures
    BY <1>6
  <2> HIDE DEF gs
  <2> QED
    BY <2>1 DEF FullGenai, GenaiRow
<1>13. [n \in DOMAIN genai |-> genai[n].surface] = S
  <2>1. \A n \in DOMAIN S : genai[n].surface = S[n]
    BY <1>12
  <2> QED
    BY <2>1, <1>4
<1>14. GenaiAgrees(md, audit, flow)
  <2> DEFINE expected == [s \in {S[n] : n \in DOMAIN S} |-> o[Finding(flow, s)]]
  <2>1. \A n \in DOMAIN S : S[n] \in DOMAIN expected /\ expected[S[n]] = gs[n]
    OBVIOUS
  <2>2. \A m, n \in DOMAIN S : S[m] = S[n] => m = n
    BY <1>4 DEF IsInjective
  <2>3. md.genai = genai /\ DOMAIN genai = DOMAIN S
    OBVIOUS
  <2>4. GenaiCloses(md, S, expected)
    <3> HIDE DEF genai, gs, md, expected
    <3> QED
      BY <2>1, <2>2, <2>3, <1>12, <1>13 DEF GenaiCloses
  <2>5. \A f \in DOMAIN flow.area : f \in DOMAIN o
    BY <1>5, <1>16
  <2> QED
    BY <2>4, <2>5, <1>17 DEF GenaiAgrees
<1>15. MarkdownAccepted(md, audit, flow)
  BY <1>5, <1>8, <1>10, <1>11, <1>14 DEF MarkdownAccepted
<1> QED
  BY <1>7, <1>15, <1>17 DEF AcceptedMarkdown

\* The result of every item that was planned, in a verified flow.
LEMMA ItemsHaveResults ==
  ASSUME NEW flow, FlowBound(flow), Verified(flow)
  PROVE  LET items == ItemsOf(flow)
         IN /\ DOMAIN items = 1 .. Len(flow.planned) /\ DOMAIN flow.planned = 1 .. Len(flow.planned)
            /\ Len(flow.planned) \in Nat
            /\ items = [n \in DOMAIN items |-> items[n]]
            /\ \A n \in DOMAIN items :
                 /\ items[n].id = flow.planned[n].id /\ items[n].status \in Statuses
                 /\ items[n].status = "working" => items[n].evidence
                 /\ flow.planned[n].finding \in ApprovedIn(flow)
                 /\ flow.verify.rows[flow.planned[n].finding].status = "working" => items[n].status = "working"
            /\ \A m, n \in DOMAIN items : items[m].id = items[n].id => m = n
<1> DEFINE N == Len(flow.planned)
           items == ItemsOf(flow)
           of(n) == flow.verify.rows[flow.planned[n].finding]
           item(n) == CHOOSE i \in of(n).items : i.id = flow.planned[n].id
<1>1. N \in Nat /\ DOMAIN flow.planned = 1 .. N
  BY DEF FlowBound, IsSeq
<1>2. items = [n \in 1 .. N |-> [id |-> flow.planned[n].id, status |-> item(n).status, evidence |-> item(n).evidence]]
  BY <1>1 DEF ItemsOf
<1>3. ASSUME NEW n \in 1 .. N
      PROVE  /\ flow.planned[n].finding \in ApprovedIn(flow)
             /\ item(n) \in of(n).items /\ item(n).status \in Statuses /\ ItemAccepted(item(n))
             /\ of(n).status = "working" => item(n).status = "working"
  <2>1. flow.planned[n].finding \in ApprovedIn(flow)
    BY <1>1 DEF FlowBound, ApprovedIn
  <2>2. flow.planned[n].id \in PlannedFor(flow, flow.planned[n].finding)
    BY <1>1 DEF PlannedFor
  <2>3. ResultRow(of(n)) /\ {i.id : i \in of(n).items} = PlannedFor(flow, flow.planned[n].finding)
    BY <2>1, BoundRows
  <2>4. item(n) \in of(n).items
    BY <2>2, <2>3
  <2> HIDE DEF item, of
  <2>5. item(n).status \in Statuses /\ RowAccepted(of(n))
    BY <2>3, <2>4 DEF ResultRow
  <2>6. ItemAccepted(item(n)) /\ (of(n).status = "working" => item(n).status = "working")
    BY <2>4, <2>5 DEF RowAccepted, All, Proofs
  <2> QED
    BY <2>1, <2>4, <2>5, <2>6
<1>4. \A a, b \in 1 .. N : flow.planned[a].id = flow.planned[b].id => a = b
  BY <1>1 DEF FlowBound, IsInjective
<1> HIDE DEF item, of, items, N
<1>5. DOMAIN items = 1 .. N /\ items = [n \in DOMAIN items |-> items[n]]
  BY <1>2
<1>6. \A n \in 1 .. N : /\ items[n].id = flow.planned[n].id /\ items[n].status = item(n).status
                        /\ items[n].evidence = item(n).evidence
  BY <1>2
<1>7. \A n \in 1 .. N : item(n).status = "working" => item(n).evidence
  BY <1>3 DEF ItemAccepted, Shown
<1>8. \A n \in 1 .. N : flow.verify.rows[flow.planned[n].finding] = of(n)
  BY DEF of
<1> QED
  BY <1>1, <1>3, <1>4, <1>5, <1>6, <1>7, <1>8 DEF items, N

\* The length of a sequence that is given place by place.
LEMMA LengthOf ==
  ASSUME NEW s, NEW n \in Nat, DOMAIN s = 1 .. n, s = [k \in DOMAIN s |-> s[k]]
  PROVE  s \in Seq({s[k] : k \in DOMAIN s}) /\ Len(s) = n
<1> DEFINE T == {s[k] : k \in DOMAIN s}
<1>1. s \in [1 .. n -> T]
  OBVIOUS
<1> HIDE DEF T
<1>2. s \in Seq(T) /\ Len(s) = n
  BY <1>1
<1> QED
  BY <1>2 DEF T

\* The told gaps are the chosen ones, each of them once.
LEMMA GapsAreListed ==
  ASSUME NEW items, NEW n \in Nat, DOMAIN items = 1 .. n,
         NEW I \in SUBSET DOMAIN items, NEW gaps, DOMAIN gaps = I
  PROVE  LET told == GapsListed(items, gaps)
         IN /\ {told[g] : g \in DOMAIN told} = {[id |-> items[k].id, state |-> gaps[k]] : k \in I}
            /\ (\A k, l \in DOMAIN items : items[k].id = items[l].id => k = l) =>
                 \A g, h \in DOMAIN told : told[g].id = told[h].id => g = h
            /\ DOMAIN told = {} => told = <<>>
<1> DEFINE at == InOrder(I)
           m == Cardinality(I)
           told == GapsListed(items, gaps)
<1>1. I \in SUBSET Nat /\ IsFiniteSet(I)
  <2>1. IsFiniteSet(1 .. n)
    BY FS_Interval
  <2> QED
    BY <2>1, FS_Subset
<1>2. m \in Nat
  BY <1>1, FS_CardinalityType
<1>3. /\ at \in [1 .. m -> I] /\ IsInjective(at)
      /\ \A k \in I : \E g \in DOMAIN at : at[g] = k
  BY <1>1, InOrderLists
<1>4. told = [g \in DOMAIN at |-> [id |-> items[at[g]].id, state |-> gaps[at[g]]]]
  BY DEF GapsListed
<1> HIDE DEF at, m, told
<1>5. DOMAIN told = 1 .. m /\ \A g \in 1 .. m : told[g] = [id |-> items[at[g]].id, state |-> gaps[at[g]]] /\ at[g] \in I
  BY <1>3, <1>4
<1>6. {told[g] : g \in DOMAIN told} = {[id |-> items[k].id, state |-> gaps[k]] : k \in I}
  <2>1. ASSUME NEW g \in DOMAIN told PROVE \E k \in I : told[g] = [id |-> items[k].id, state |-> gaps[k]]
    BY <1>5
  <2>2. ASSUME NEW k \in I PROVE \E g \in DOMAIN told : told[g] = [id |-> items[k].id, state |-> gaps[k]]
    <3>1. PICK g \in DOMAIN at : at[g] = k
      BY <1>3
    <3>2. g \in 1 .. m
      BY <1>3, <3>1
    <3> QED
      BY <1>5, <3>1, <3>2
  <2> QED
    BY <2>1, <2>2
<1>7. ASSUME \A k, l \in DOMAIN items : items[k].id = items[l].id => k = l,
             NEW g \in DOMAIN told, NEW h \in DOMAIN told, told[g].id = told[h].id
      PROVE  g = h
  <2>1. at[g] \in I /\ at[h] \in I /\ items[at[g]].id = items[at[h]].id /\ g \in DOMAIN at /\ h \in DOMAIN at
    BY <1>3, <1>5, <1>7
  <2>2. at[g] = at[h]
    BY <1>7, <2>1
  <2> QED
    BY <1>3, <2>1, <2>2 DEF IsInjective
<1>8. ASSUME DOMAIN told = {} PROVE told = <<>>
  <2>1. m = 0
    BY <1>2, <1>5, <1>8
  <2>2. told = [g \in DOMAIN told |-> told[g]]
    BY <1>4
  <2>3. told \in Seq({told[g] : g \in DOMAIN told}) /\ Len(told) = 0
    BY <1>5, <2>1, <2>2, LengthOf
  <2> QED
    BY <2>3
<1> QED
  BY <1>6, <1>7, <1>8 DEF told

\* For every verified flow some otel-verify.md is accepted.
LEMMA SomeReaderAccepted ==
  ASSUME NEW flow, FlowBound(flow), Verified(flow)
  PROVE  AcceptedReaders(flow) # {}
<1> DEFINE items  == ItemsOf(flow)
           N      == Len(flow.planned)
           states == [n \in DOMAIN items |-> Shown_(items[n].status)]
           I      == {n \in DOMAIN items : states[n] # "working"}
           gaps   == [n \in I |-> states[n]]
           rd     == ReaderOf(flow.verify.result, items, states, gaps)
           rows   == [n \in DOMAIN items |->
                        [id |-> items[n].id, status |-> states[n], text |-> TRUE, json |-> TRUE, evidence |-> items[n].evidence]]
<1>1. /\ DOMAIN items = 1 .. N /\ N \in Nat /\ items = [n \in DOMAIN items |-> items[n]]
      /\ \A n \in DOMAIN items : /\ items[n].status \in Statuses
                                 /\ items[n].status = "working" => items[n].evidence
      /\ \A m, n \in DOMAIN items : items[m].id = items[n].id => m = n
  BY ItemsHaveResults
<1>2. Len(items) = N /\ items \in Seq({items[n] : n \in DOMAIN items})
  <2> HIDE DEF items, N
  <2> QED
    BY <1>1, LengthOf
<1>17. items = ItemsOf(flow)
  OBVIOUS
<1> HIDE DEF items, N
<1>3. \A n \in DOMAIN items : /\ states[n] \in Open \cup {"working"}
                              /\ states[n] = "working" => items[n].status = "working"
                              /\ states[n] = Shown_(items[n].status)
  BY <1>1 DEF Shown_, Open, Statuses
<1>4. states \in [DOMAIN items -> Open \cup {"working"}] /\ DOMAIN states = DOMAIN items
  BY <1>3
<1> HIDE DEF states
<1>5. I \in SUBSET DOMAIN items /\ gaps \in [I -> Open] /\ DOMAIN gaps = I /\ \A n \in I : gaps[n] = states[n]
  BY <1>3
<1> HIDE DEF gaps
<1>6. flow.verify.result \in Results
  BY ResultOfRows
<1>7. rd \in Readers(items)
  <2>1. gaps \in UNION {[J -> Open] : J \in SUBSET DOMAIN items}
    BY <1>5
  <2> HIDE DEF I
  <2> QED
    BY <1>4, <1>6, <2>1 DEF Readers
<1>8. /\ rd.rows = rows /\ rd.result = flow.verify.result /\ rd.none /\ rd.gaps = GapsListed(items, gaps)
      /\ rd.marker = (items = <<>>)
      /\ rd.count = [working |-> Cardinality({n \in DOMAIN items : states[n] = "working"}), total |-> Len(items)]
  BY DEF ReaderOf
<1> HIDE DEF rd
<1>9. /\ DOMAIN rows = 1 .. N
      /\ \A n \in DOMAIN items : /\ rows[n].id = items[n].id /\ rows[n].status = states[n] /\ rows[n].text /\ rows[n].json
                                 /\ rows[n].evidence = items[n].evidence
  BY <1>1
<1>10. rows = [n \in DOMAIN rows |-> rows[n]]
  OBVIOUS
<1> HIDE DEF rows
<1>11. Len(rows) = N
  BY <1>1, <1>9, <1>10, LengthOf
<1>12. TableAccepted(rd, items)
  <2>1. rows = <<>> => N = 0
    BY <1>11
  <2>2. N = 0 => items = <<>>
    BY <1>2
  <2>3. \A n \in DOMAIN rows : rows[n].text /\ (rows[n].status = "working" => rows[n].evidence)
    BY <1>1, <1>3, <1>9
  <2>4. \A m, n \in DOMAIN rows : rows[m].id = rows[n].id => m = n
    BY <1>1, <1>9
  <2> QED
    BY <1>8, <2>1, <2>2, <2>3, <2>4 DEF TableAccepted
<1>13. WorkingRows(rd) = {n \in DOMAIN items : states[n] = "working"}
  BY <1>1, <1>8, <1>9 DEF WorkingRows
<1>14. CountAccepted(rd)
  BY <1>2, <1>8, <1>11, <1>13 DEF CountAccepted
<1>15. GapsAccepted(rd)
  <2> DEFINE told == GapsListed(items, gaps)
             notWorking == DOMAIN rd.rows \ WorkingRows(rd)
  <2>1. notWorking = I
    BY <1>1, <1>8, <1>9, <1>13 DEF I
  <2>0. N \in Nat /\ DOMAIN items = 1 .. N /\ I \in SUBSET DOMAIN items /\ DOMAIN gaps = I
    BY <1>1, <1>5
  <2> HIDE DEF I
  <2>2. /\ {told[g] : g \in DOMAIN told} = {[id |-> items[k].id, state |-> gaps[k]] : k \in I}
        /\ (\A k, l \in DOMAIN items : items[k].id = items[l].id => k = l) =>
             \A g, h \in DOMAIN told : told[g].id = told[h].id => g = h
    <3> HIDE DEF told
    <3>1. told = GapsListed(items, gaps)
      BY DEF told
    <3>2. LET l == GapsListed(items, gaps)
          IN /\ {l[g] : g \in DOMAIN l} = {[id |-> items[k].id, state |-> gaps[k]] : k \in I}
             /\ (\A k, j \in DOMAIN items : items[k].id = items[j].id => k = j) =>
                  \A g, h \in DOMAIN l : l[g].id = l[h].id => g = h
             /\ DOMAIN l = {} => l = <<>>
      BY <2>0, GapsAreListed, Zenon
    <3> QED
      BY <3>1, <3>2, Zenon
  <2>3. \A k \in I : items[k].id = rd.rows[k].id /\ gaps[k] = rd.rows[k].status
    BY <1>5, <1>8, <1>9
  <2> HIDE DEF told, notWorking
  <2>4. {[id |-> items[k].id, state |-> gaps[k]] : k \in I} = {[id |-> rd.rows[k].id, state |-> rd.rows[k].status] : k \in I}
    BY <2>3
  <2>5. rd.gaps = told
    BY <1>8 DEF told
  <2> QED
    BY <1>1, <1>8, <2>1, <2>2, <2>4, <2>5 DEF GapsAccepted, notWorking
<1>16. ItemsAgree(rd, items)
  <2>1. [n \in DOMAIN rd.rows |-> rd.rows[n].id] = [n \in DOMAIN items |-> items[n].id]
    BY <1>1, <1>8, <1>9
  <2>2. \A n \in DOMAIN rd.rows : rd.rows[n].status = Shown_(items[n].status) /\ rd.rows[n].json
                                  /\ (rd.rows[n].evidence = items[n].evidence)
    BY <1>1, <1>3, <1>8, <1>9
  <2> QED
    BY <2>1, <2>2 DEF ItemsAgree
<1>18. ReaderAccepted(rd, flow, items)
  BY <1>8, <1>12, <1>14, <1>15, <1>16 DEF ReaderAccepted
<1> QED
  BY <1>7, <1>17, <1>18 DEF AcceptedReaders

\* Whatever otel-verify.md is accepted for a bound flow has no gap for a finding
\* that works, and none at all under Pass.
LEMMA AcceptedReaderAgrees ==
  ASSUME NEW flow, FlowBound(flow), Verified(flow), NEW rd \in AcceptedReaders(flow)
  PROVE  /\ \A f \in ApprovedIn(flow) : flow.verify.rows[f].status = "working" =>
              \A g \in DOMAIN rd.gaps : rd.gaps[g].id \notin PlannedFor(flow, f)
         /\ flow.verify.result = "Pass" => rd.result = "Pass" /\ rd.gaps = <<>>
<1> DEFINE items == ItemsOf(flow)
           N     == Len(flow.planned)
<1>1. /\ DOMAIN items = 1 .. N /\ N \in Nat /\ DOMAIN flow.planned = 1 .. N
      /\ \A n \in DOMAIN items :
           /\ items[n].id = flow.planned[n].id /\ flow.planned[n].finding \in ApprovedIn(flow)
           /\ flow.verify.rows[flow.planned[n].finding].status = "working" => items[n].status = "working"
      /\ \A m, n \in DOMAIN items : items[m].id = items[n].id => m = n
  BY ItemsHaveResults
<1>2. rd \in Readers(items) /\ ReaderAccepted(rd, flow, items)
  BY DEF AcceptedReaders
<1> HIDE DEF items, N
<1>3. /\ {rd.gaps[g] : g \in DOMAIN rd.gaps}
           = {[id |-> rd.rows[n].id, state |-> rd.rows[n].status] : n \in DOMAIN rd.rows \ WorkingRows(rd)}
      /\ [n \in DOMAIN rd.rows |-> rd.rows[n].id] = [n \in DOMAIN items |-> items[n].id]
      /\ \A n \in DOMAIN rd.rows : rd.rows[n].status = Shown_(items[n].status)
      /\ rd.result = flow.verify.result
  BY <1>2 DEF ReaderAccepted, GapsAccepted, ItemsAgree
<1>4. DOMAIN rd.rows = DOMAIN items /\ \A n \in DOMAIN items : rd.rows[n].id = items[n].id
  <2> DEFINE a == [n \in DOMAIN rd.rows |-> rd.rows[n].id]
             b == [n \in DOMAIN items |-> items[n].id]
  <2>1. a = b
    BY <1>3
  <2>2. DOMAIN a = DOMAIN rd.rows /\ DOMAIN b = DOMAIN items
    OBVIOUS
  <2>3. (\A n \in DOMAIN rd.rows : a[n] = rd.rows[n].id) /\ (\A n \in DOMAIN items : b[n] = items[n].id)
    OBVIOUS
  <2> HIDE DEF a, b
  <2> QED
    BY <2>1, <2>2, <2>3
<1>5. ASSUME NEW g \in DOMAIN rd.gaps
      PROVE  \E n \in DOMAIN items : rd.gaps[g].id = flow.planned[n].id /\ items[n].status # "working"
  <2>0. rd.gaps[g] \in {[id |-> rd.rows[n].id, state |-> rd.rows[n].status] : n \in DOMAIN rd.rows \ WorkingRows(rd)}
    <3>1. rd.gaps[g] \in {rd.gaps[h] : h \in DOMAIN rd.gaps}
      OBVIOUS
    <3> QED
      BY <1>3, <3>1, Zenon
  <2>1. PICK n \in DOMAIN rd.rows \ WorkingRows(rd) : rd.gaps[g] = [id |-> rd.rows[n].id, state |-> rd.rows[n].status]
    BY <2>0
  <2>2. n \in DOMAIN items /\ rd.gaps[g].id = items[n].id /\ Shown_(items[n].status) # "working"
    BY <1>3, <1>4, <2>1 DEF WorkingRows
  <2> QED
    BY <1>1, <2>2 DEF Shown_
<1>6. ASSUME NEW f \in ApprovedIn(flow), flow.verify.rows[f].status = "working", NEW g \in DOMAIN rd.gaps,
             rd.gaps[g].id \in PlannedFor(flow, f)
      PROVE  FALSE
  <2>1. PICK n \in DOMAIN items : rd.gaps[g].id = flow.planned[n].id /\ items[n].status # "working"
    BY <1>5
  <2>2. PICK k \in DOMAIN flow.planned : flow.planned[k].finding = f /\ flow.planned[k].id = rd.gaps[g].id
    BY <1>6 DEF PlannedFor
  <2>3. k = n
    BY <1>1, <2>1, <2>2
  <2> QED
    BY <1>1, <1>6, <2>1, <2>2, <2>3
<1>7. ASSUME flow.verify.result = "Pass"
      PROVE  rd.result = "Pass" /\ rd.gaps = <<>>
  <2>1. ASSUME NEW g \in DOMAIN rd.gaps PROVE FALSE
    <3>1. PICK n \in DOMAIN items : items[n].status # "working"
      BY <2>1, <1>5
    <3>2. flow.planned[n].finding \in VerifiedRows(flow)
      BY <1>1, BoundRows
    <3>3. flow.verify.rows[flow.planned[n].finding].status = "working"
      BY <1>7, <3>2, ResultOfRows
    <3> QED
      BY <1>1, <3>1, <3>3
  <2>2. PICK gaps \in UNION {[J -> Open] : J \in SUBSET DOMAIN items} : rd.gaps = GapsListed(items, gaps)
    <3>1. PICK result \in Results, states \in [DOMAIN items -> Open \cup {"working"}],
               gaps \in UNION {[I -> Open] : I \in SUBSET DOMAIN items} : rd = ReaderOf(result, items, states, gaps)
      BY <1>2 DEF Readers
    <3>2. rd.gaps = GapsListed(items, gaps)
      BY <3>1 DEF ReaderOf
    <3> QED
      BY <3>2
  <2>3. PICK J \in SUBSET DOMAIN items : gaps \in [J -> Open]
    OBVIOUS
  <2>4. DOMAIN gaps = J
    BY <2>3
  <2>5. DOMAIN rd.gaps = {} => rd.gaps = <<>>
    BY <1>1, <2>2, <2>4, GapsAreListed
  <2> QED
    BY <1>3, <1>7, <2>1, <2>5
<1> QED
  BY <1>6, <1>7

\* Of every bound flow, of any number of findings and items, whatever is accepted
\* of the Markdown reports says what the page says; the reader report can always
\* be written of a verified one, and otel.md exactly if tests and evidence were
\* recorded for every finding (validate_gap_closure.py,
\* validate_reader_report.py, normalize_instrumentation).
THEOREM MarkdownReportsAgree ==
  ASSUME NEW flow, FlowBound(flow), NEW audit
  PROVE  MarkdownAgrees(flow, audit)
<1> DEFINE shown == Aggregate(flow.result, Values(flow.statuses), flow.verify.result)
           unrun == flow.verify.result = "Not run" /\ flow.result \in {"Fail", "Blocked"}
<1>1. (AcceptedMarkdown(flow, audit) /= {}) = (flow.told = Values(flow.approved))
  <2>1. Values(flow.approved) = ApprovedIn(flow)
    BY DEF Values, ApprovedIn
  <2>2. AcceptedMarkdown(flow, audit) /= {} => flow.told = ApprovedIn(flow)
    BY AcceptedMarkdownIsTold DEF AcceptedMarkdown
  <2> QED
    BY <2>1, <2>2, SomeMarkdownAccepted
<1>2. Verified(flow) => AcceptedReaders(flow) # {}
  BY SomeReaderAccepted
<1>3. ASSUME NEW md \in AcceptedMarkdown(flow, audit)
      PROVE  /\ unrun \/ md.result = shown
             /\ \A n \in DOMAIN md.rows : md.rows[n].status = ClosureRow(flow, md.rows[n].finding, FALSE).status
             /\ \A rd \in AcceptedReaders(flow) :
                  /\ md.result = "Pass" => rd.result = "Pass" /\ rd.gaps = <<>>
                  /\ \A n \in DOMAIN md.rows : md.rows[n].status = "working" =>
                       \A g \in DOMAIN rd.gaps : rd.gaps[g].id \notin PlannedFor(flow, md.rows[n].finding)
  <2>1. MarkdownAccepted(md, audit, flow)
    BY DEF AcceptedMarkdown
  <2>2. /\ md.result = ReportResult(flow)
        /\ \A n \in DOMAIN md.rows : md.rows[n].finding \in ApprovedIn(flow)
                                     /\ md.rows[n].status = Overlay(flow)[md.rows[n].finding]
    BY <2>1, AcceptedMarkdownAgrees
  <2>3. unrun \/ md.result = shown
    BY <2>2, OverlayTells
  <2>4. \A n \in DOMAIN md.rows : md.rows[n].status = ClosureRow(flow, md.rows[n].finding, FALSE).status
    BY <2>2, OverlayTells
  <2>5. ASSUME NEW rd \in AcceptedReaders(flow)
        PROVE  /\ md.result = "Pass" => rd.result = "Pass" /\ rd.gaps = <<>>
               /\ \A n \in DOMAIN md.rows : md.rows[n].status = "working" =>
                    \A g \in DOMAIN rd.gaps : rd.gaps[g].id \notin PlannedFor(flow, md.rows[n].finding)
    <3>1. Verified(flow)
      BY DEF AcceptedReaders
    <3>2. md.result = "Pass" => flow.verify.result = "Pass"
      BY <2>2, <3>1, OverlayTells
    <3>3. \A n \in DOMAIN md.rows : md.rows[n].status = flow.verify.rows[md.rows[n].finding].status
      BY <2>2, <3>1, OverlayTells
    <3> QED
      BY <2>2, <3>1, <3>2, <3>3, AcceptedReaderAgrees
  <2> QED
    BY <2>3, <2>4, <2>5
<1> QED
  BY <1>1, <1>2, <1>3 DEF MarkdownAgrees

\* For every Markdown audit, a plain otel.md that passes closes all its gaps.
THEOREM PassingReportsCloseAll ==
  ASSUME NEW md, NEW audit, IsSeq(md.rows), IsSeq(md.genai), IsSeq(audit.gaps), IsSeq(audit.order)
  PROVE  PlainPassClosesAll(md, audit)
<1> DEFINE gaps == audit.gaps
           rows == md.rows
           closed == {rows[n].finding : n \in {m \in DOMAIN rows : rows[m].status \notin Open}}
<1> SUFFICES ASSUME PlainAccepted(md, audit), md.result = "Pass"
             PROVE  closed = Values(gaps) /\ Len(rows) = Len(gaps) /\ Len(md.genai) = Len(audit.order)
  BY DEF PlainPassClosesAll
<1>1. /\ DOMAIN gaps = 1 .. Len(gaps) /\ Len(gaps) \in Nat
      /\ DOMAIN rows = 1 .. Len(rows) /\ Len(rows) \in Nat
  BY DEF IsSeq
<1>2. ClosesEveryGap(md, gaps)
  BY DEF PlainAccepted
<1>3. closed = {rows[n].finding : n \in DOMAIN rows}
  BY DEF PlainAccepted, NoPassWithGaps
<1> DEFINE of(key) == {n \in DOMAIN gaps : gaps[n] = key}
           by(key) == {n \in DOMAIN rows : rows[n].finding = key}
<1>4. ASSUME NEW key PROVE IsFiniteSet(of(key)) /\ IsFiniteSet(by(key))
  <2>1. IsFiniteSet(DOMAIN gaps) /\ IsFiniteSet(DOMAIN rows)
    BY <1>1, FS_Interval
  <2>2. of(key) \in SUBSET DOMAIN gaps /\ by(key) \in SUBSET DOMAIN rows
    OBVIOUS
  <2> HIDE DEF of, by, gaps, rows
  <2> QED
    BY <2>1, <2>2, FS_Subset
<1>5. ASSUME NEW key \in Values(gaps) \cup {rows[n].finding : n \in DOMAIN rows}
      PROVE  of(key) = {} <=> by(key) = {}
  <2>1. Cardinality(of(key)) = Cardinality(by(key))
    BY <1>2 DEF ClosesEveryGap, Values
  <2> HIDE DEF of, by
  <2> QED
    BY <2>1, <1>4, FS_EmptySet
<1>6. ASSUME NEW key \in Values(gaps) PROVE key \in {rows[n].finding : n \in DOMAIN rows}
  <2>1. of(key) # {}
    BY DEF Values
  <2> QED
    BY <2>1, <1>5
<1>7. ASSUME NEW key \in {rows[n].finding : n \in DOMAIN rows} PROVE key \in Values(gaps)
  <2>1. by(key) # {}
    OBVIOUS
  <2>2. of(key) # {}
    BY <2>1, <1>5
  <2> QED
    BY <2>2 DEF Values
<1>8. closed = Values(gaps)
  BY <1>3, <1>6, <1>7
<1>9. Len(rows) = Len(gaps)
  BY <1>2 DEF ClosesEveryGap
<1>10. Len(md.genai) = Len(audit.order)
  <2> DEFINE a == [n \in DOMAIN md.genai |-> md.genai[n].surface]
  <2>1. a = audit.order
    BY DEF PlainAccepted, GenaiCloses
  <2>2. DOMAIN a = DOMAIN md.genai
    OBVIOUS
  <2>3. DOMAIN md.genai = 1 .. Len(md.genai) /\ DOMAIN audit.order = 1 .. Len(audit.order)
        /\ Len(md.genai) \in Nat /\ Len(audit.order) \in Nat
    BY DEF IsSeq
  <2> HIDE DEF a
  <2>4. 1 .. Len(md.genai) = 1 .. Len(audit.order)
    BY <2>1, <2>2, <2>3
  <2> QED
    BY <2>3, <2>4
<1> QED
  BY <1>8, <1>9, <1>10

\* A reader opens only reports that were accepted.
LEMMA OnlyReadable == ReportsSpec => [](doc = NoReport \/ Readable(doc))
<1> DEFINE Inv == doc = NoReport \/ Readable(doc)
<1>1. doc = NoReport => Inv
  OBVIOUS
<1>2. Inv /\ [ReadReport]_doc => Inv'
  <2> SUFFICES ASSUME Inv, [ReadReport]_doc PROVE Inv'
    OBVIOUS
  <2>1. CASE ReadReport
    BY <2>1, Zenon DEF ReadReport, Readable
  <2>2. CASE UNCHANGED doc
    BY <2>2, Zenon DEF Readable
  <2> QED
    BY <2>1, <2>2
<1> QED
  BY <1>1, <1>2, PTL DEF ReportsSpec

\* Whatever the scripts accept tells one story: the result of a verification is
\* the one that its rows allow, a scenario is sorted as its sentence says, an
\* audit names every gap, the page of a flow and both of its Markdown reports
\* agree, and a plain report that passes closes everything (normalize_verify,
\* normalize_audit_report, the page of observe_report_html.py and both Markdown
\* validators).
THEOREM ReportsConsistent == ReportsSpec => []ReportsAreConsistent
<1>1. ASSUME doc = NoReport \/ Readable(doc)
      PROVE  ReportsAreConsistent
  <2>1. CASE doc = NoReport
    BY <2>1 DEF NoReport, ReportsAreConsistent
  <2>2. CASE Readable(doc)
    <3>1. ASSUME doc.kind = "verify" PROVE ResultTells(doc.rows)
      <4>1. \A r \in doc.rows : RowAccepted(r)
        BY <2>2, <3>1 DEF Readable
      <4> QED
        BY <4>1, EveryVerificationHasItsResult
    <3>2. ASSUME doc.kind = "scenario" PROVE SaysWhatItSorts(doc.scenario)
      <4>1. doc.scenario \in Scenarios /\ ScenarioAccepted(doc.scenario)
        BY <2>2, <3>2 DEF Readable
      <4> QED
        BY <4>1, EveryScenarioIsSortedOnce
    <3>3. ASSUME doc.kind = "audit" PROVE NamesEveryGap(doc.audit)
      <4>1. AuditReady(doc.audit)
        BY <2>2, <3>3 DEF Readable
      <4> QED
        BY <4>1, RulesNameEveryGap
    <3>4. ASSUME doc.kind = "flow" PROVE MarkdownAgrees(doc.flow, doc.audit) /\ PageShowsTheProof(doc.flow)
      <4>1. FlowBound(doc.flow)
        BY <2>2, <3>4 DEF Readable
      <4> QED
        BY <4>1, MarkdownReportsAgree, PagesShowTheProof
    <3>5. ASSUME doc.kind = "plain" PROVE PlainPassClosesAll(doc.md, doc.audit)
      <4>1. IsSeq(doc.md.rows) /\ IsSeq(doc.md.genai) /\ IsSeq(doc.audit.gaps) /\ IsSeq(doc.audit.order)
        BY <2>2, <3>5 DEF Readable
      <4> QED
        BY <4>1, PassingReportsCloseAll
    <3> QED
      BY <3>1, <3>2, <3>3, <3>4, <3>5 DEF ReportsAreConsistent
  <2> QED
    BY <1>1, <2>1, <2>2
<1>2. [](doc = NoReport \/ Readable(doc)) => []ReportsAreConsistent
  BY <1>1, PTL
<1> QED
  BY <1>2, OnlyReadable, PTL

-----------------------------------------------------------------------------
(* Writing one file *)

FileValues == [by: Writers \cup {None}, kind: {"whole", "part", "absent", "link"}]
WriterType ==
  [pc: {"start", "parent", "look", "create", "fill", "match", "rename", "matchagain", "written", "failed", "over"},
   boundary: Boundaries \cup {None}, parent: Parents \cup {None}, landed: Parents \cup {None},
   named: Parents \cup {None}, portable: BOOLEAN]
Filling == {"fill", "match", "rename", "matchagain", "written"}

\* What a writer still has to rename is whole by then, and is in the directory
\* that a writer with descriptors holds.
WriteInv ==
  /\ top \in Boundaries /\ sub \in [Boundaries -> Parents \cup {None}]
  /\ target \in [Parents -> FileValues] /\ temp \in [Parents -> [Writers -> FileValues]]
  /\ wr \in [Writers -> WriterType]
  /\ \A d \in Parents : target[d].kind # "part"
  /\ \A w \in Writers :
       /\ wr[w].pc \in {"fill", "match", "rename"} => wr[w].landed \in Parents
       /\ wr[w].pc \in {"match", "rename"} => temp[wr[w].landed][w].kind = "whole"
       /\ wr[w].pc \in Filling /\ ~wr[w].portable => wr[w].landed = wr[w].parent
       /\ wr[w].pc = "written" => wr[w].named = wr[w].parent

\* A writer that keeps its directory open has written where it says, however
\* many moves there are: the window is that of the fallback.
HeldDirectoriesHold ==
  \A w \in Writers : wr[w].pc = "written" /\ ~wr[w].portable =>
    wr[w].landed = wr[w].parent /\ wr[w].landed = wr[w].named

LEMMA FileKinds ==
  /\ NoFile \in FileValues /\ NoFile.kind = "absent" /\ OldFile \in FileValues /\ OldFile.kind = "whole"
  /\ Link \in FileValues /\ Link.kind = "link"
  /\ \A w \in Writers : /\ Whole(w) \in FileValues /\ Whole(w).kind = "whole"
                        /\ Part(w) \in FileValues /\ Part(w).kind = "part"
BY DEF FileValues, NoFile, OldFile, Link, Whole, Part

LEMMA WriteStarts == WriteInit => WriteInv
<1> SUFFICES ASSUME WriteInit PROVE WriteInv
  OBVIOUS
<1>1. /\ Fresh \in WriterType /\ [Fresh EXCEPT !.portable = TRUE] \in WriterType
      /\ Fresh.pc = "start" /\ [Fresh EXCEPT !.portable = TRUE].pc = "start"
  BY DEF Fresh, WriterType
<1>2. wr \in [Writers -> WriterType] /\ \A w \in Writers : wr[w].pc = "start"
  BY <1>1 DEF WriteInit
<1>3. temp \in [Parents -> [Writers -> FileValues]] /\ target \in [Parents -> FileValues]
      /\ \A d \in Parents : target[d].kind # "part"
  BY FileKinds DEF WriteInit
<1> QED
  BY <1>2, <1>3 DEF WriteInit, WriteInv, Filling

\* Everything but one writer stays as it was.
LEMMA WriterKept ==
  ASSUME WriteInv, NEW w \in Writers, NEW e \in WriterType, UNCHANGED <<top, target, temp>>,
         sub' \in [Boundaries -> Parents \cup {None}], wr' = [wr EXCEPT ![w] = e],
         e.pc \in {"fill", "match", "rename"} => e.landed \in Parents,
         e.pc \in {"match", "rename"} => temp[e.landed][w].kind = "whole",
         e.pc \in Filling /\ ~e.portable => e.landed = e.parent,
         e.pc = "written" => e.named = e.parent
  PROVE  WriteInv'
BY DEF WriteInv

\* The step of a writer from one place to another.
LEMMA GoesTo ==
  ASSUME WriteInv, NEW w \in Writers, NEW pc, NEW e, e = [wr[w] EXCEPT !.pc = pc],
         pc \in {"start", "parent", "look", "create", "fill", "match", "rename", "matchagain", "written", "failed",
                 "over"}
  PROVE  /\ e \in WriterType /\ e.pc = pc /\ e.landed = wr[w].landed /\ e.parent = wr[w].parent
         /\ e.portable = wr[w].portable /\ e.named = wr[w].named
<1>1. wr[w] \in WriterType
  BY DEF WriteInv
<1> QED
  BY <1>1 DEF WriterType

LEMMA PlaceIsParent ==
  ASSUME WriteInv, NEW w \in Writers
  PROVE  ByPath \in Parents \cup {None} /\ Place(w) \in Parents \cup {None}
<1>1. wr[w] \in WriterType
  BY DEF WriteInv
<1> QED
  BY <1>1 DEF WriteInv, WriterType, Place, ByPath

LEMMA OpeningKept ==
  ASSUME WriteInv, NEW w \in Writers, OpenBoundary(w) \/ OpenParent(w) \/ Look(w)
  PROVE  WriteInv'
<1>0. wr[w] \in WriterType /\ top \in Boundaries /\ sub \in [Boundaries -> Parents \cup {None}]
  BY DEF WriteInv
<1>1. CASE OpenBoundary(w)
  <2> DEFINE e == [wr[w] EXCEPT !.pc = "parent", !.boundary = top]
  <2>1. e \in WriterType /\ e.pc = "parent"
    BY <1>0 DEF WriterType
  <2>2. wr' = [wr EXCEPT ![w] = e]
    BY <1>1 DEF OpenBoundary, WriteInv
  <2> HIDE DEF e
  <2> QED
    BY <1>0, <1>1, <2>1, <2>2, WriterKept DEF OpenBoundary, Filling
<1>2. CASE OpenParent(w)
  <2>1. CASE wr[w].portable /\ top /= wr[w].boundary
    <3> DEFINE e == [wr[w] EXCEPT !.pc = "failed"]
    <3>1. wr' = [wr EXCEPT ![w] = e] /\ UNCHANGED <<top, target, temp, sub>>
      BY <1>2, <2>1 DEF OpenParent, Failed, To, WriteInv
    <3>2. e \in WriterType /\ e.pc = "failed"
      BY GoesTo
    <3> HIDE DEF e
    <3> QED
      BY <1>0, <3>1, <3>2, WriterKept DEF Filling
  <2>2. CASE ~(wr[w].portable /\ top /= wr[w].boundary)
    <3> DEFINE b == IF wr[w].portable THEN top ELSE wr[w].boundary
    <3>1. PICK d \in Parents :
            /\ sub' = [sub EXCEPT ![b] = d] \/ sub' = sub
            /\ wr' = [wr EXCEPT ![w].pc = "look", ![w].parent = d]
      BY <1>2, <2>2 DEF OpenParent
    <3> DEFINE e == [wr[w] EXCEPT !.pc = "look", !.parent = d]
    <3>2. e \in WriterType /\ e.pc = "look"
      BY <1>0 DEF WriterType
    <3>3. wr' = [wr EXCEPT ![w] = e]
      BY <3>1 DEF WriteInv
    <3>4. sub' \in [Boundaries -> Parents \cup {None}] /\ UNCHANGED <<top, target, temp>>
      BY <1>0, <1>2, <3>1 DEF OpenParent
    <3> HIDE DEF e
    <3> QED
      BY <3>2, <3>3, <3>4, WriterKept DEF Filling
  <2> QED
    BY <2>1, <2>2
<1>3. CASE Look(w)
  <2>1. PICK pc \in {"create", "failed"} : wr' = [wr EXCEPT ![w].pc = pc]
    BY <1>3 DEF Look, Failed, To
  <2> DEFINE e == [wr[w] EXCEPT !.pc = pc]
  <2>2. e \in WriterType /\ e.pc = pc
    BY GoesTo
  <2>3. wr' = [wr EXCEPT ![w] = e]
    BY <2>1 DEF WriteInv
  <2> HIDE DEF e
  <2> QED
    BY <1>0, <1>3, <2>2, <2>3, WriterKept DEF Filling, Look
<1> QED
  BY <1>1, <1>2, <1>3

LEMMA FillingKept ==
  ASSUME WriteInv, NEW w \in Writers, Create(w) \/ Fill(w)
  PROVE  WriteInv'
<1>0. wr[w] \in WriterType /\ temp \in [Parents -> [Writers -> FileValues]]
  BY DEF WriteInv
<1>1. CASE Create(w) /\ Place(w) = None
  <2> DEFINE e == [wr[w] EXCEPT !.pc = "failed"]
  <2>1. wr' = [wr EXCEPT ![w] = e] /\ UNCHANGED <<top, sub, target, temp>>
    BY <1>1 DEF Create, Failed, To, WriteInv
  <2>2. e \in WriterType /\ e.pc = "failed"
    BY GoesTo
  <2> HIDE DEF e
  <2> QED
    BY <2>1, <2>2, WriterKept DEF Filling, WriteInv
<1>2. CASE Create(w) /\ Place(w) # None
  <2> DEFINE d == Place(w)
             e == [wr[w] EXCEPT !.pc = "fill", !.landed = d]
  <2>1. d \in Parents
    BY <1>2, PlaceIsParent
  <2>2. /\ temp' = [temp EXCEPT ![d][w] = Part(w)] /\ wr' = [wr EXCEPT ![w] = e]
        /\ UNCHANGED <<top, sub, target>>
    BY <1>2 DEF Create, WriteInv
  <2>3. /\ e \in WriterType /\ e.pc = "fill" /\ e.landed = d /\ e.parent = wr[w].parent
        /\ e.portable = wr[w].portable
    BY <1>0, <2>1 DEF WriterType
  <2>4. ~e.portable => e.landed = e.parent
    BY <2>3 DEF Place
  <2> HIDE DEF e, d
  <2>5. temp' \in [Parents -> [Writers -> FileValues]]
    BY <1>0, <2>1, <2>2, FileKinds
  <2>6. \A v \in Writers, c \in Parents : v # w => temp'[c][v] = temp[c][v]
    BY <1>0, <2>1, <2>2
  <2> QED
    BY <2>1, <2>2, <2>3, <2>4, <2>5, <2>6 DEF WriteInv, Filling
<1>3. CASE Fill(w)
  <2> DEFINE d == wr[w].landed
             pc == IF wr[w].portable THEN "match" ELSE "rename"
             e == [wr[w] EXCEPT !.pc = pc]
  <2>1. wr[w].pc = "fill" /\ d \in Parents /\ (~wr[w].portable => d = wr[w].parent)
    BY <1>3 DEF Fill, At, WriteInv, Filling
  <2>2. /\ temp' = [temp EXCEPT ![d][w] = Whole(w)] /\ wr' = [wr EXCEPT ![w] = e]
        /\ UNCHANGED <<top, sub, target>>
    BY <1>3 DEF Fill, To, WriteInv
  <2>3. /\ e \in WriterType /\ e.pc \in {"match", "rename"} /\ e.landed = d /\ e.parent = wr[w].parent
        /\ e.portable = wr[w].portable
    BY <1>0 DEF WriterType
  <2> HIDE DEF e, d
  <2>4. temp' \in [Parents -> [Writers -> FileValues]] /\ temp'[d][w].kind = "whole"
    BY <1>0, <2>1, <2>2, FileKinds
  <2>5. \A v \in Writers, c \in Parents : v # w => temp'[c][v] = temp[c][v]
    BY <1>0, <2>1, <2>2
  <2> QED
    BY <2>1, <2>2, <2>3, <2>4, <2>5 DEF WriteInv, Filling
<1> QED
  BY <1>1, <1>2, <1>3

LEMMA LandingKept ==
  ASSUME WriteInv, NEW w \in Writers, Match(w) \/ Rename(w) \/ MatchAgain(w) \/ WriteDone(w)
  PROVE  WriteInv'
<1>0. /\ wr[w] \in WriterType /\ temp \in [Parents -> [Writers -> FileValues]]
      /\ target \in [Parents -> FileValues] /\ sub \in [Boundaries -> Parents \cup {None}]
  BY DEF WriteInv
<1> DEFINE to(pc) == [wr[w] EXCEPT !.pc = pc]
<1>1. CASE Match(w)
  <2>1. PICK pc \in {"rename", "failed"} : wr' = [wr EXCEPT ![w].pc = pc]
    BY <1>1 DEF Match, Failed, To
  <2>2. to(pc) \in WriterType /\ to(pc).pc = pc /\ to(pc).landed = wr[w].landed /\ to(pc).parent = wr[w].parent
        /\ to(pc).portable = wr[w].portable
    BY GoesTo
  <2>3. wr' = [wr EXCEPT ![w] = to(pc)] /\ wr[w].pc = "match"
    BY <1>1, <2>1 DEF WriteInv, Match, At
  <2> HIDE DEF to
  <2> QED
    BY <1>0, <1>1, <2>2, <2>3, WriterKept DEF Match, WriteInv, Filling
<1>2. CASE Rename(w) /\ (Place(w) = None \/ Place(w) /= wr[w].landed)
  <2>1. wr' = [wr EXCEPT ![w] = to("failed")] /\ UNCHANGED <<top, sub, target, temp>>
    BY <1>2 DEF Rename, Failed, To, WriteInv
  <2>2. to("failed") \in WriterType /\ to("failed").pc = "failed"
    BY GoesTo
  <2> HIDE DEF to
  <2> QED
    BY <1>0, <2>1, <2>2, WriterKept DEF Filling
<1>3. CASE Rename(w) /\ Place(w) # None /\ Place(w) = wr[w].landed
  <2> DEFINE d == Place(w)
             e == to("matchagain")
  <2>1. d \in Parents /\ wr[w].pc = "rename" /\ temp[d][w].kind = "whole"
    BY <1>3, PlaceIsParent DEF Rename, At, WriteInv
  <2>2. /\ target' = [target EXCEPT ![d] = temp[d][w]] /\ temp' = [temp EXCEPT ![d][w] = NoFile]
        /\ wr' = [wr EXCEPT ![w] = e] /\ UNCHANGED <<top, sub>>
    BY <1>3 DEF Rename, To, WriteInv
  <2>3. /\ e \in WriterType /\ e.pc = "matchagain" /\ e.landed = wr[w].landed /\ e.parent = wr[w].parent
        /\ e.portable = wr[w].portable
    BY GoesTo
  <2>4. ~wr[w].portable => wr[w].landed = wr[w].parent
    BY <2>1 DEF WriteInv, Filling
  <2> HIDE DEF e, d
  <2>5. temp' \in [Parents -> [Writers -> FileValues]] /\ target' \in [Parents -> FileValues]
    BY <1>0, <2>1, <2>2, FileKinds
  <2>6. \A c \in Parents : target'[c].kind # "part"
    BY <1>0, <2>1, <2>2 DEF WriteInv
  <2>7. \A v \in Writers, c \in Parents : v # w => temp'[c][v] = temp[c][v]
    BY <1>0, <2>1, <2>2
  <2> QED
    BY <2>1, <2>2, <2>3, <2>4, <2>5, <2>6, <2>7 DEF WriteInv, Filling
<1>4. CASE MatchAgain(w)
  <2> DEFINE pc == IF Matches(w) THEN "written" ELSE "failed"
             e  == [wr[w] EXCEPT !.pc = pc, !.named = ByPath]
  <2>1. wr' = [wr EXCEPT ![w] = e] /\ UNCHANGED <<top, sub, target, temp>> /\ wr[w].pc = "matchagain"
    BY <1>4 DEF MatchAgain, At, WriteInv
  <2>2. ByPath \in Parents \cup {None}
    BY PlaceIsParent
  <2>3. /\ e \in WriterType /\ e.pc = pc /\ e.landed = wr[w].landed /\ e.parent = wr[w].parent
        /\ e.portable = wr[w].portable /\ e.named = ByPath
    BY <1>0, <2>2 DEF WriterType
  <2>4. pc = "written" => e.named = e.parent
    BY <2>3 DEF Matches, ByPath
  <2>5. ~wr[w].portable => wr[w].landed = wr[w].parent
    BY <2>1 DEF WriteInv, Filling
  <2>6. pc \in {"written", "failed"}
    OBVIOUS
  <2> HIDE DEF e, pc
  <2> QED
    BY <1>0, <2>1, <2>3, <2>4, <2>5, <2>6, WriterKept DEF Filling
<1>5. CASE WriteDone(w)
  <2> DEFINE e == [Fresh EXCEPT !.pc = "over", !.portable = wr[w].portable]
  <2>1. e \in WriterType /\ e.pc = "over"
    BY <1>0 DEF WriterType, Fresh
  <2>2. wr' = [wr EXCEPT ![w] = e] /\ UNCHANGED <<top, sub, target, temp>>
    BY <1>5 DEF WriteDone
  <2> HIDE DEF e
  <2> QED
    BY <1>0, <2>1, <2>2, WriterKept DEF Filling
<1> QED
  BY <1>1, <1>2, <1>3, <1>4, <1>5

LEMMA MovedKept ==
  ASSUME WriteInv, Moved
  PROVE  WriteInv'
<1>0. UNCHANGED temp /\ sub \in [Boundaries -> Parents \cup {None}]
  BY DEF Moved, WriteInv
<1>1. CASE top' \in Boundaries \ {top} /\ UNCHANGED <<sub, target, wr>>
  BY <1>0, <1>1 DEF WriteInv
<1>2. ASSUME NEW b \in Boundaries, NEW d \in Parents \cup {None}, sub' = [sub EXCEPT ![b] = d],
             UNCHANGED <<top, target, wr>>
      PROVE  WriteInv'
  BY <1>0, <1>2 DEF WriteInv
<1>3. ASSUME NEW d \in Parents, target' = [target EXCEPT ![d] = Link], UNCHANGED <<top, sub, wr>> PROVE WriteInv'
  <2>1. target' \in [Parents -> FileValues] /\ \A c \in Parents : target'[c].kind # "part"
    BY <1>3, FileKinds DEF WriteInv
  <2> QED
    BY <1>0, <1>3, <2>1 DEF WriteInv
<1>4. ASSUME NEW w \in Writers, To(w, "over"), UNCHANGED <<top, sub, target>> PROVE WriteInv'
  <2> DEFINE e == [wr[w] EXCEPT !.pc = "over"]
  <2>1. wr' = [wr EXCEPT ![w] = e]
    BY <1>4 DEF To, WriteInv
  <2>2. e \in WriterType /\ e.pc = "over"
    BY GoesTo
  <2> HIDE DEF e
  <2> QED
    BY <1>0, <1>4, <2>1, <2>2, WriterKept DEF Filling
<1> QED
  BY <1>1, <1>2, <1>3, <1>4 DEF Moved

LEMMA WriteKept == WriteInv /\ [WriteNext]_writeVars => WriteInv'
<1> SUFFICES ASSUME WriteInv, [WriteNext]_writeVars PROVE WriteInv'
  OBVIOUS
<1>1. ASSUME NEW w \in Writers, WriteStep(w) PROVE WriteInv'
  BY <1>1, OpeningKept, FillingKept, LandingKept DEF WriteStep
<1>2. CASE UNCHANGED writeVars
  BY <1>2 DEF writeVars, WriteInv
<1> QED
  BY <1>1, <1>2, MovedKept DEF WriteNext

\* Whoever else writes, is killed or renames directories, any number of times,
\* no reader finds a part of a file (write_text_descriptor, write_text_portable).
THEOREM ReadersFindWholeFiles == WriteSpec => []NeverTorn
<1>1. WriteInv => NeverTorn
  BY DEF WriteInv, NeverTorn
<1> QED
  BY WriteStarts, WriteKept, <1>1, PTL DEF WriteSpec

\* Where the platform has descriptor-relative calls, a write that reports success
\* is in the directory that the path named when it began and when it ended, for
\* any number of moves: the bound of SuccessIsInPlace is that of the fallback
\* alone (write_text_descriptor, output_directory_matches).
THEOREM HeldDirectoriesAreRight == WriteSpec => []HeldDirectoriesHold
<1>1. WriteInv => HeldDirectoriesHold
  BY DEF WriteInv, HeldDirectoriesHold, Filling
<1> QED
  BY WriteStarts, WriteKept, <1>1, PTL DEF WriteSpec

\* The fallback of a write goes by the path.  To land elsewhere than in the
\* directory that it compares with, the path must have led away when the
\* temporary file was made and back at the first comparison, away again at the
\* rename and back at the second; every one of these takes a move, because the
\* other writers only make directories that are missing.
LedAstray(w) ==
  LET p == wr[w].parent
      l == wr[w].landed
      Took(path, least) == moves >= least /\ (ByPath # path => moves > least)
  IN wr[w].portable =>
       /\ wr[w].pc \in {"look", "create"} => p \in Parents /\ Took(p, 0)
       /\ wr[w].pc \in {"fill", "match", "rename", "matchagain"} => p \in Parents /\ l \in Parents
       /\ l # p => /\ wr[w].pc \in {"fill", "match"} => Took(l, 1)
                   /\ wr[w].pc = "rename" => Took(p, 2)
                   /\ wr[w].pc = "matchagain" => Took(l, 3)
                   /\ wr[w].pc = "written" => moves >= 4

DriftInv == moves \in 0 .. MaxMoves /\ \A w \in Writers : LedAstray(w)

\* A directory that the path names is not made again.
LEMMA QuietDrift ==
  ASSUME NEW v \in Writers, LedAstray(v), wr'[v] = wr[v], moves' = moves, moves \in Nat,
         ByPath' = ByPath \/ ByPath = None
  PROVE  LedAstray(v)'
<1>1. None \notin Parents
  BY WriterAssumption
<1> QED
  BY <1>1 DEF LedAstray

\* A move may lead anywhere, and is counted.
LEMMA MovedDrift ==
  ASSUME NEW v \in Writers, LedAstray(v), wr'[v] = wr[v], moves' = moves + 1, moves \in Nat
  PROVE  LedAstray(v)'
BY DEF LedAstray

LEMMA PathStays ==
  ASSUME WriteInv, NEW w \in Writers, WriteStep(w)
  PROVE  moves' = moves /\ (ByPath' = ByPath \/ ByPath = None) /\ \A v \in Writers \ {w} : wr'[v] = wr[v]
<1>0. top \in Boundaries /\ sub \in [Boundaries -> Parents \cup {None}] /\ wr \in [Writers -> WriterType]
  BY DEF WriteInv
<1>1. CASE OpenParent(w)
  <2>1. sub' = sub \/ \E d \in Parents, b \in {top, wr[w].boundary} : sub[b] = None /\ sub' = [sub EXCEPT ![b] = d]
    BY <1>1 DEF OpenParent
  <2>2. UNCHANGED <<top, moves>>
    BY <1>1 DEF OpenParent
  <2>3. \A v \in Writers \ {w} : wr'[v] = wr[v]
    BY <1>0, <1>1 DEF OpenParent, Failed, To
  <2> QED
    BY <1>0, <2>1, <2>2, <2>3 DEF ByPath
<1>2. CASE ~OpenParent(w)
  <2>1. UNCHANGED <<top, sub, moves>>
    BY <1>2 DEF WriteStep, OpenBoundary, Look, Create, Fill, Match, Rename, MatchAgain, WriteDone
  <2>2. \A v \in Writers \ {w} : wr'[v] = wr[v]
    BY <1>0, <1>2 DEF WriteStep, OpenBoundary, Look, Create, Fill, Match, Rename, MatchAgain, WriteDone, Failed, To
  <2> QED
    BY <2>1, <2>2 DEF ByPath
<1> QED
  BY <1>1, <1>2

\* What the writer that takes a step may rely on afterwards.
LEMMA OwnDrift ==
  ASSUME WriteInv, DriftInv, NEW w \in Writers, WriteStep(w)
  PROVE  LedAstray(w)'
<1>0. /\ wr[w] \in WriterType /\ wr \in [Writers -> WriterType] /\ LedAstray(w) /\ moves \in Nat
      /\ sub \in [Boundaries -> Parents \cup {None}] /\ top \in Boundaries
  BY DEF WriteInv, DriftInv
<1>1. moves' = moves
  BY PathStays
<1> DEFINE to(pc) == [wr[w] EXCEPT !.pc = pc]
<1>2. \A pc \in {"create", "failed", "match", "rename", "matchagain"} :
        /\ to(pc).pc = pc /\ to(pc).landed = wr[w].landed /\ to(pc).parent = wr[w].parent
        /\ to(pc).portable = wr[w].portable
  BY <1>0 DEF WriterType
<1>3. \A pc : To(w, pc) => wr'[w] = to(pc)
  BY <1>0 DEF To
<1> HIDE DEF to
<1>4. To(w, "failed") => LedAstray(w)'
  BY <1>2, <1>3 DEF LedAstray
<1>5. CASE OpenBoundary(w)
  <2>1. wr'[w].pc = "parent"
    BY <1>0, <1>5 DEF OpenBoundary, WriterType
  <2> QED
    BY <2>1 DEF LedAstray
<1>6. CASE OpenParent(w) /\ ~Failed(w)
  <2>1. PICK d \in Parents :
          /\ IF sub[IF wr[w].portable THEN top ELSE wr[w].boundary] = None
             THEN sub' = [sub EXCEPT ![IF wr[w].portable THEN top ELSE wr[w].boundary] = d]
             ELSE d = sub[IF wr[w].portable THEN top ELSE wr[w].boundary] /\ UNCHANGED sub
          /\ wr' = [wr EXCEPT ![w].pc = "look", ![w].parent = d]
    BY <1>6 DEF OpenParent
  <2>2. wr'[w].pc = "look" /\ wr'[w].parent = d /\ wr'[w].portable = wr[w].portable
    BY <1>0, <2>1 DEF WriterType
  <2>3. wr[w].portable => ByPath' = d
    BY <1>0, <1>6, <2>1 DEF OpenParent, ByPath
  <2> QED
    BY <1>0, <1>1, <2>2, <2>3 DEF LedAstray
<1>7. CASE Look(w) /\ ~Failed(w)
  <2>1. wr[w].pc = "look" /\ wr'[w] = to("create") /\ ByPath' = ByPath
    BY <1>3, <1>7 DEF Look, At, Failed, ByPath
  <2> QED
    BY <1>0, <1>1, <1>2, <2>1 DEF LedAstray
<1>8. CASE Create(w) /\ ~Failed(w)
  <2>1. wr[w].pc = "create" /\ ByPath' = ByPath
    BY <1>8 DEF Create, At, ByPath
  <2>2. wr' = [wr EXCEPT ![w].pc = "fill", ![w].landed = Place(w)] /\ Place(w) # None
    BY <1>8 DEF Create, Failed
  <2>3. /\ wr'[w].pc = "fill" /\ wr'[w].landed = Place(w) /\ wr'[w].parent = wr[w].parent
        /\ wr'[w].portable = wr[w].portable
    BY <1>0, <2>2 DEF WriterType
  <2>4. Place(w) \in Parents /\ (wr[w].portable => Place(w) = ByPath)
    BY <2>2, PlaceIsParent DEF Place
  <2> QED
    BY <1>0, <1>1, <2>1, <2>3, <2>4 DEF LedAstray
<1>9. CASE Fill(w)
  <2>1. wr[w].pc = "fill" /\ ByPath' = ByPath /\ wr'[w] = to(IF wr[w].portable THEN "match" ELSE "rename")
    BY <1>3, <1>9 DEF Fill, At, ByPath
  <2>2. wr[w].portable => wr'[w] = to("match")
    BY <2>1
  <2>3. wr'[w].portable = wr[w].portable
    BY <1>2, <2>1
  <2> QED
    BY <1>0, <1>1, <1>2, <2>1, <2>2, <2>3 DEF LedAstray
<1>10. CASE Match(w) /\ ~Failed(w)
  <2>1. wr[w].pc = "match" /\ wr'[w] = to("rename") /\ ByPath' = ByPath
    BY <1>3, <1>10 DEF Match, At, Failed, ByPath
  <2>2. ByPath = wr[w].parent
    BY <1>10 DEF Match, Matches, ByPath, Failed
  <2> QED
    BY <1>0, <1>1, <1>2, <2>1, <2>2 DEF LedAstray
<1>11. CASE Rename(w) /\ ~Failed(w)
  <2>1. wr[w].pc = "rename" /\ wr'[w] = to("matchagain") /\ ByPath' = ByPath
    BY <1>3, <1>11 DEF Rename, At, Failed, ByPath
  <2>2. wr[w].portable => ByPath = wr[w].landed
    BY <1>11 DEF Rename, Failed, Place
  <2> QED
    BY <1>0, <1>1, <1>2, <2>1, <2>2 DEF LedAstray
<1>12. CASE MatchAgain(w)
  <2>1. wr[w].pc = "matchagain" /\ ByPath' = ByPath
    BY <1>12 DEF MatchAgain, At, ByPath
  <2>2. /\ wr'[w].pc = IF Matches(w) THEN "written" ELSE "failed"
        /\ wr'[w].landed = wr[w].landed /\ wr'[w].parent = wr[w].parent /\ wr'[w].portable = wr[w].portable
    BY <1>0, <1>12 DEF MatchAgain, WriterType
  <2>3. Matches(w) => ByPath = wr[w].parent
    BY DEF Matches, ByPath
  <2> QED
    BY <1>0, <1>1, <2>1, <2>2, <2>3 DEF LedAstray
<1>13. CASE WriteDone(w)
  <2>1. wr'[w].pc = "over"
    BY <1>0, <1>13 DEF WriteDone, Fresh
  <2> QED
    BY <2>1 DEF LedAstray
<1> QED
  BY <1>4, <1>5, <1>6, <1>7, <1>8, <1>9, <1>10, <1>11, <1>12, <1>13 DEF WriteStep, Failed

LEMMA DriftKept == WriteInv /\ DriftInv /\ [WriteNext]_writeVars => DriftInv'
<1> SUFFICES ASSUME WriteInv, DriftInv, [WriteNext]_writeVars PROVE DriftInv'
  OBVIOUS
<1>0. moves \in Nat /\ MaxMoves \in Nat
  BY WriterAssumption DEF DriftInv
<1>1. ASSUME NEW w \in Writers, WriteStep(w) PROVE DriftInv'
  <2>1. ASSUME NEW v \in Writers PROVE LedAstray(v)'
    BY <1>0, <1>1, PathStays, QuietDrift, OwnDrift DEF DriftInv
  <2> QED
    BY <1>1, <2>1, PathStays DEF DriftInv
<1>2. CASE Moved
  <2>1. moves' = moves + 1 /\ moves < MaxMoves
    BY <1>2 DEF Moved
  <2>2. ASSUME NEW v \in Writers PROVE LedAstray(v)'
    <3>1. CASE wr' = wr
      BY <1>0, <2>1, <3>1, MovedDrift DEF DriftInv
    <3>2. ASSUME NEW w \in Writers, To(w, "over") PROVE LedAstray(v)'
      <4>1. v # w => wr'[v] = wr[v]
        BY <3>2 DEF To, WriteInv
      <4>2. v = w => wr'[v].pc = "over"
        BY <3>2 DEF To, WriteInv, WriterType
      <4>3. CASE v = w
        BY <4>2, <4>3 DEF LedAstray
      <4> QED
        BY <1>0, <2>1, <4>1, <4>3, MovedDrift DEF DriftInv
    <3> QED
      BY <1>2, <3>1, <3>2 DEF Moved
  <2> QED
    BY <1>0, <2>1, <2>2 DEF DriftInv
<1>3. CASE UNCHANGED writeVars
  BY <1>3 DEF writeVars, DriftInv, LedAstray, ByPath
<1> QED
  BY <1>1, <1>2, <1>3 DEF WriteNext

\* Whoever reads a report finds a whole version of it, and a write that says it
\* succeeded is in place, as long as directories are renamed at most three times
\* meanwhile: only four renames lead the fallback elsewhere and back between its
\* comparisons (write_text_portable, portable_parent_chain_matches).
THEOREM WritesStayWhole ==
  ASSUME MaxMoves <= 3
  PROVE  WriteSpec => []WritesAreWhole
<1>1. WriteInit => DriftInv
  <2> SUFFICES ASSUME WriteInit PROVE DriftInv
    OBVIOUS
  <2>1. \A w \in Writers : wr[w].pc = "start"
    BY DEF WriteInit, Fresh
  <2> QED
    BY <2>1, WriterAssumption DEF WriteInit, DriftInv, LedAstray
<1>2. WriteInv /\ DriftInv => WritesAreWhole
  <2> SUFFICES ASSUME WriteInv, DriftInv PROVE WritesAreWhole
    OBVIOUS
  <2>1. ASSUME NEW w \in Writers, wr[w].pc = "written"
        PROVE  wr[w].landed = wr[w].parent /\ wr[w].named = wr[w].parent
    <3>1. wr[w].portable \in BOOLEAN /\ wr[w].named = wr[w].parent /\ (~wr[w].portable => wr[w].landed = wr[w].parent)
      BY <2>1 DEF WriteInv, WriterType, Filling
    <3>2. wr[w].portable => wr[w].landed = wr[w].parent
      BY <2>1, WriterAssumption DEF DriftInv, LedAstray
    <3> QED
      BY <3>1, <3>2
  <2> QED
    BY <2>1 DEF WriteInv, WritesAreWhole, NeverTorn, SuccessIsInPlace
<1> QED
  BY WriteStarts, WriteKept, DriftKept, <1>1, <1>2, PTL DEF WriteSpec

-----------------------------------------------------------------------------
(* The report server: who is told a URL is told that of a server that      *)
(* serves, and who serves is on record                                     *)

\* A server that is starting, one that has taken a token, and one that has bound
\* its port and published itself.
Starting(n)  == srv[n].pc \in {"boot", "open", "publish"}
HasToken(n)  == srv[n].pc \in {"open", "publish", "serving", "closed", "compare", "unlink"}
Published(n) == srv[n].pc \in {"serving", "closed", "compare", "unlink"}
\* One that every command should find.
Findable(n)  == srv[n].pc = "serving" /\ n \notin missed /\ srv[n].dir = dir

\* A command whose server takes the next token.
Settled(c)   == call[c].pc = "popen" \/ (call[c].stage = "wait" /\ srv[call[c].child].pc = "boot")

\* The stages of a command and the order of the servers.
StageSound(c) ==
  /\ call[c].pc = "idle" => call[c].stage = "first"
  /\ call[c].pc = "lock" => call[c].stage \in {"first", "poll"}
  /\ call[c].pc \in {"launch", "popen"} => call[c].stage = "locked"
  /\ call[c].pc = "child" => call[c].stage = "wait"
  /\ call[c].stage = "wait" => call[c].child \in Servers /\ srv[call[c].child].pc # "never"
OrderInv ==
  /\ \A c \in Callers : StageSound(c)
  /\ \E k \in 0 .. MaxServers : \A n \in Servers : srv[n].pc # "never" <=> n <= k

\* A live record, old or new, is that of a server that was there.
Names(r) ==
  /\ r.server \in Servers
  /\ \/ srv[r.server].pc = "dead"
     \/ Published(r.server) /\ srv[r.server].token = r.token /\ srv[r.server].dir = r.dir

\* What a command has read is answered by the server it names.
ReadSound(c) ==
  LET s == srv[call[c].read.server]
  IN /\ call[c].pc \in {"ask", "asked", "done"} => Names(call[c].read)
     /\ call[c].pc \in {"asked", "done"} => s.pc \in {"dead", "serving"} \/ s.late
     /\ call[c].pc = "done" /\ s.pc = "serving" => s.touched

RecordInv ==
  /\ record.kind = "live" => Names(record)
  /\ record.token <= tokens
  /\ \A n \in Servers : srv[n].token <= tokens /\ srv[n].dir <= dir
  /\ \A c \in Callers : ReadSound(c)

\* As long as no command was killed while its server was starting: a starting
\* server has a command that waits for it under the lock, so nobody else
\* writes the record meanwhile and every server gets a token of its own.
Waits(c, n)  == call[c].stage = "wait" /\ call[c].child = n
Launching(c) == call[c].pc = "popen" \/ (call[c].stage = "wait" /\ Starting(call[c].child))
LaunchInv ==
  /\ \A n \in Servers : Starting(n) => \E c \in Callers : Waits(c, n)
  /\ \A c \in Callers :
       Launching(c) => /\ record.kind = "launch" /\ record.token = call[c].token
                       /\ call[c].pc \in {"popen", "read", "child"}
  /\ \A c \in Callers :
       Settled(c) => call[c].token = tokens /\ \A n \in Servers : HasToken(n) => srv[n].token < tokens
  /\ \A m, n \in Servers : m # n /\ HasToken(m) /\ HasToken(n) => srv[m].token # srv[n].token

\* What a command or a server concluded under the lock still holds.
Clear(c)    == call[c].pc = "launch" => \A n \in Servers : ~Findable(n)
Asks(c)     == call[c].stage = "locked" /\ call[c].pc \in {"ask", "asked"}
OnRecord(n) == record = LiveRecord(n, srv[n].token, srv[n].dir)
LockInv ==
  /\ \A n \in Servers : Findable(n) => OnRecord(n)
  /\ \A c \in Callers : Clear(c)
  /\ \A c \in Callers : Asks(c) => \A n \in Servers : Findable(n) => n = call[c].read.server
  /\ \A n \in Servers : srv[n].pc = "unlink" => record.token = srv[n].token

ServerInv == ServerTypeOK /\ OrderInv /\ RecordInv /\ (~cut => LaunchInv /\ LockInv)

\* The bounds are numbers, and no command is one.
LEMMA Bounds ==
  /\ MaxServers \in Nat /\ MaxDirs \in Nat /\ MaxPolls \in Nat /\ MaxFaults \in Nat
  /\ \A c \in Callers : c \notin Nat
BY ServerAssumption

\* The server to be launched is the first that never was.
LEMMA NextServer ==
  ASSUME OrderInv
  PROVE  LET n == Cardinality(Launched) + 1
         IN n \in Servers => /\ srv[n].pc = "never"
                             /\ \A m \in Servers : srv[m].pc # "never" <=> m < n
<1>1. PICK k \in 0 .. MaxServers : \A n \in Servers : srv[n].pc # "never" <=> n <= k
  BY DEF OrderInv
<1>2. Launched = 1 .. k
  BY <1>1, Bounds DEF Launched, Servers
<1>3. Cardinality(Launched) = k
  BY <1>1, <1>2, FS_Interval, Bounds
<1> QED
  BY <1>1, <1>3, Bounds DEF Servers

\* The types of a command and of a server, as ServerTypeOK writes them.
CallType == [pc: {"idle", "read", "ask", "asked", "lock", "launch", "popen", "child", "done"},
             stage: {"first", "poll", "locked", "wait"}, polls: 0 .. MaxPolls,
             read: RecordType, token: 0 .. MaxServers, child: 0 .. MaxServers]
SrvType  == [pc: {"never", "boot", "open", "publish", "serving", "closed", "compare", "unlink", "dead"},
             token: 0 .. MaxServers, dir: 0 .. MaxDirs, touched: BOOLEAN, late: BOOLEAN]

\* The types without the lock.
Types ==
  /\ record \in RecordType /\ call \in [Callers -> CallType] /\ srv \in [Servers -> SrvType]
  /\ dir \in 1 .. MaxDirs /\ tokens \in 0 .. MaxServers /\ mishaps \in 0 .. MaxFaults
  /\ missed \subseteq Servers /\ cut \in BOOLEAN

\* The first values have their types.
LEMMA FirstTypes ==
  /\ NoRecord \in RecordType /\ NoCall \in CallType /\ NoSrv \in SrvType /\ Dead \in SrvType
<1>1. NoRecord \in RecordType
  BY Bounds DEF NoRecord, RecordType
<1>2. NoCall \in CallType
  BY <1>1, Bounds DEF NoCall, CallType
<1>3. NoSrv \in SrvType
  BY Bounds DEF NoSrv, SrvType
<1>4. Dead \in SrvType
  BY Bounds DEF Dead, SrvType
<1> QED
  BY <1>1, <1>2, <1>3, <1>4

\* Every step keeps the types.
LEMMA TypesKept ==
  ASSUME Types, OrderInv, ServerNext,
         \A c \in Callers : call[c].pc \in {"ask", "asked", "done"} => call[c].read.server \in Servers
  PROVE  Types'
<1> USE Bounds, FirstTypes DEF Types, Unexceptional
<1>1. ASSUME NEW c \in Callers, CallBegins(c) PROVE Types'
  BY <1>1 DEF CallBegins, CallType, Step, AfterNoServer, SrvType, ServerStep, ServerEnds
<1>2. ASSUME NEW c \in Callers, ReadState(c) PROVE Types'
  BY <1>2 DEF ReadState, CallType, Step, AfterNoServer, SrvType, ServerStep, ServerEnds
<1>3. ASSUME NEW c \in Callers, Ask(c) PROVE Types'
  BY <1>3 DEF Ask, CallType, Step, AfterNoServer, SrvType, ServerStep, ServerEnds
<1>4. ASSUME NEW c \in Callers, Answer(c) PROVE Types'
  <2>1. call' \in [Callers -> CallType]
    BY <1>4 DEF Answer, Step, AfterNoServer, CallType
  <2>2. srv' \in [Servers -> SrvType]
    <3>1. CASE Running(call[c].read.server)
      <4>1. call[c].read.server \in Servers
        BY <1>4 DEF Answer
      <4>2. srv' = [srv EXCEPT ![call[c].read.server].touched = TRUE]
        BY <1>4, <3>1 DEF Answer
      <4> QED
        BY <4>1, <4>2 DEF SrvType
    <3>2. CASE ~Running(call[c].read.server)
      BY <1>4, <3>2 DEF Answer
    <3> QED
      BY <3>1, <3>2
  <2> QED
    BY <1>4, <2>1, <2>2 DEF Answer
<1>5. ASSUME NEW c \in Callers, NoAnswer(c) PROVE Types'
  BY <1>5 DEF NoAnswer, CallType, Step, AfterNoServer, SrvType, ServerStep, ServerEnds
<1>6. ASSUME NEW c \in Callers, TryLock(c) PROVE Types'
  <2>1. call' \in [Callers -> CallType]
    <3>1. CASE holder = Nobody
      BY <1>6, <3>1 DEF TryLock, CallType
    <3>2. CASE holder # Nobody
      BY <1>6, <3>2 DEF TryLock, CallType
    <3> QED
      BY <3>1, <3>2
  <2> QED
    BY <1>6, <2>1 DEF TryLock
<1>7. ASSUME NEW c \in Callers, LockDeadline(c) PROVE Types'
  BY <1>7 DEF LockDeadline, CallType, Step, AfterNoServer, SrvType, ServerStep, ServerEnds
<1>8. ASSUME NEW c \in Callers, WriteLaunch(c) PROVE Types'
  <2>1. tokens' \in 0 .. MaxServers
    BY <1>8 DEF WriteLaunch
  <2>2. record' \in RecordType
    BY <1>8, <2>1 DEF WriteLaunch, LaunchRecord, RecordType
  <2>3. call' \in [Callers -> CallType]
    BY <1>8, <2>1 DEF WriteLaunch, CallType
  <2> QED
    BY <1>8, <2>1, <2>2, <2>3 DEF WriteLaunch
<1>9. ASSUME NEW c \in Callers, LaunchServer(c) PROVE Types'
  <2> DEFINE k == Cardinality(Launched) + 1
  <2>1. k \in Servers /\ k \in 0 .. MaxServers
    BY <1>9 DEF LaunchServer, Servers
  <2>2. srv' = [srv EXCEPT ![k].pc = "boot"]
        /\ call' = [call EXCEPT ![c].pc = "read", ![c].stage = "wait", ![c].child = k]
    BY <1>9 DEF LaunchServer
  <2> HIDE DEF k
  <2>3. srv' \in [Servers -> SrvType]
    BY <2>1, <2>2 DEF SrvType
  <2>4. call' \in [Callers -> CallType]
    BY <2>1, <2>2 DEF CallType
  <2> QED
    BY <1>9, <2>3, <2>4 DEF LaunchServer
<1>10. ASSUME NEW c \in Callers, LookAtChild(c) PROVE Types'
  <2>1. call[c].child \in Servers
    BY <1>10 DEF LookAtChild, OrderInv, StageSound
  <2>2. call' \in [Callers -> CallType]
    BY <1>10 DEF LookAtChild, Step, CallType
  <2>3. srv' \in [Servers -> SrvType]
    BY <1>10, <2>1 DEF LookAtChild
  <2> QED
    BY <1>10, <2>2, <2>3 DEF LookAtChild
<1>11. ASSUME NEW c \in Callers, CallEnds(c) PROVE Types'
  BY <1>11 DEF CallEnds, CallType, Step, AfterNoServer, SrvType, ServerStep, ServerEnds
<1>12. ASSUME NEW c \in Callers, KillCall(c) PROVE Types'
  BY <1>12 DEF KillCall, CallType, Step, AfterNoServer, SrvType, ServerStep, ServerEnds
<1>13. ASSUME NEW n \in Servers, Boot(n) PROVE Types'
  <2>1. srv' \in [Servers -> SrvType]
    <3>1. CASE record.kind # "none" /\ record.dir = dir
      <4>1. record.token \in 0 .. MaxServers /\ dir \in 0 .. MaxDirs
        BY DEF RecordType
      <4>2. [srv[n] EXCEPT !.pc = "open", !.token = record.token, !.dir = dir] \in SrvType
        BY <4>1 DEF SrvType
      <4>3. srv' = [srv EXCEPT ![n] = [srv[n] EXCEPT !.pc = "open", !.token = record.token, !.dir = dir]]
        BY <1>13, <3>1 DEF Boot
      <4> QED
        BY <4>2, <4>3
    <3>2. CASE ~(record.kind # "none" /\ record.dir = dir)
      BY <1>13, <3>2 DEF Boot, ServerEnds
    <3> QED
      BY <3>1, <3>2
  <2> QED
    BY <1>13, <2>1 DEF Boot
<1>14. ASSUME NEW n \in Servers, OpenDirectory(n) PROVE Types'
  <2>1. srv' \in [Servers -> SrvType]
    <3>1. CASE srv[n].dir = dir
      BY <1>14, <3>1 DEF OpenDirectory, ServerStep, SrvType
    <3>2. CASE ~(srv[n].dir = dir)
      BY <1>14, <3>2 DEF OpenDirectory, ServerEnds
    <3> QED
      BY <3>1, <3>2
  <2> QED
    BY <1>14, <2>1 DEF OpenDirectory
<1>15. ASSUME NEW n \in Servers, Publish(n) PROVE Types'
  <2>1. srv[n].token \in 0 .. MaxServers /\ srv[n].dir \in 0 .. MaxDirs /\ n \in 0 .. MaxServers
    BY DEF SrvType, Servers
  <2>2. record' \in RecordType
    BY <1>15, <2>1 DEF Publish, LiveRecord, RecordType
  <2>3. srv' \in [Servers -> SrvType]
    BY <1>15 DEF Publish, SrvType
  <2> QED
    BY <1>15, <2>2, <2>3 DEF Publish
<1>16. ASSUME NEW n \in Servers, IdleLimit(n) PROVE Types'
  BY <1>16 DEF IdleLimit, SrvType
<1>17. ASSUME NEW n \in Servers, CleanupLock(n) PROVE Types'
  BY <1>17 DEF CleanupLock, ServerEnds, ServerStep, SrvType
<1>18. ASSUME NEW n \in Servers, Compare(n) PROVE Types'
  <2>1. srv' \in [Servers -> SrvType]
    <3>1. CASE record.token = srv[n].token
      BY <1>18, <3>1 DEF Compare, ServerStep, SrvType
    <3>2. CASE ~(record.token = srv[n].token)
      BY <1>18, <3>2 DEF Compare, ServerEnds
    <3> QED
      BY <3>1, <3>2
  <2> QED
    BY <1>18, <2>1 DEF Compare
<1>19. ASSUME NEW n \in Servers, Unlink(n) PROVE Types'
  BY <1>19 DEF Unlink, ServerEnds
<1>20. ASSUME NEW n \in Servers, KillServer(n) PROVE Types'
  BY <1>20 DEF KillServer, ServerEnds
<1>21. CASE Hours
  BY <1>21 DEF Hours, CallType, Step, AfterNoServer, SrvType, ServerStep, ServerEnds
<1>22. CASE NewDirectory
  BY <1>22 DEF NewDirectory, CallType, Step, AfterNoServer, SrvType, ServerStep, ServerEnds
<1> QED
  BY <1>1, <1>2, <1>3, <1>4, <1>5, <1>6, <1>7, <1>8, <1>9, <1>10, <1>11, <1>12, <1>13, <1>14, <1>15, <1>16,
     <1>17, <1>18, <1>19, <1>20, <1>21, <1>22
     DEF ServerNext, CallStep, ServeStep

-----------------------------------------------------------------------------
(* What a step may do to a server and to a command *)

Goes(n) ==
  LET s == srv[n]
      t == srv'[n]
  IN /\ t.pc = "never" => s.pc = "never"
     /\ s.pc = "never" => t.pc \in {"never", "boot"}
     /\ s.pc = "dead" => t.pc = "dead"
     /\ t.token <= tokens' /\ t.dir <= dir'
     /\ Published(n) /\ t.pc # "dead" =>
          /\ t.pc \in {"serving", "closed", "compare", "unlink"} /\ (t.pc = "serving" => s.pc = "serving")
          /\ t.token = s.token /\ t.dir = s.dir /\ (s.late /\ s.pc # "serving" => t.late)
     /\ s.pc = "serving" /\ t.pc \notin {"serving", "dead"} =>
          /\ ~s.touched
          /\ \A c \in Callers : call[c].pc = "asked" /\ call[c].read.server = n => t.late
     /\ s.pc = "serving" /\ t.pc = "serving" /\ s.touched =>
          t.touched \/ \A c \in Callers : call[c].pc = "idle"

\* A server that is left alone goes nowhere.
LEMMA GoesSame ==
  ASSUME Types, RecordInv, NEW n \in Servers, srv'[n] = srv[n], tokens' >= tokens, dir' >= dir,
         tokens' \in Nat, dir' \in Nat
  PROVE  Goes(n)
BY Bounds DEF Goes, RecordInv, Types, SrvType, Published

\* One that is ended goes to its end.
LEMMA GoesDead ==
  ASSUME Types, NEW n \in Servers, srv'[n] = Dead, srv[n].pc # "never", tokens' \in Nat, dir' \in Nat
  PROVE  Goes(n)
BY Bounds DEF Goes, Dead, Published

\* Every step takes every server that way.
LEMMA ServersGo ==
  ASSUME Types, OrderInv, RecordInv, ServerNext
  PROVE  \A n \in Servers : Goes(n)
<1> USE Bounds
<1>0. tokens \in Nat /\ dir \in Nat /\ \A n \in Servers : srv[n] \in SrvType
  BY DEF Types
<1>1. ASSUME NEW c \in Callers, CallBegins(c) PROVE \A n \in Servers : Goes(n)
  BY <1>0, <1>1, GoesSame DEF CallBegins, Unexceptional
<1>2. ASSUME NEW c \in Callers, ReadState(c) PROVE \A n \in Servers : Goes(n)
  BY <1>0, <1>2, GoesSame DEF ReadState, Unexceptional
<1>3. ASSUME NEW c \in Callers, Ask(c) PROVE \A n \in Servers : Goes(n)
  BY <1>0, <1>3, GoesSame DEF Ask, Unexceptional
<1>4. ASSUME NEW c \in Callers, NoAnswer(c) PROVE \A n \in Servers : Goes(n)
  BY <1>0, <1>4, GoesSame DEF NoAnswer, Unexceptional
<1>5. ASSUME NEW c \in Callers, TryLock(c) PROVE \A n \in Servers : Goes(n)
  BY <1>0, <1>5, GoesSame DEF TryLock, Unexceptional
<1>6. ASSUME NEW c \in Callers, LockDeadline(c) PROVE \A n \in Servers : Goes(n)
  BY <1>0, <1>6, GoesSame DEF LockDeadline, Unexceptional
<1>7. ASSUME NEW c \in Callers, CallEnds(c) PROVE \A n \in Servers : Goes(n)
  BY <1>0, <1>7, GoesSame DEF CallEnds, Unexceptional
<1>8. ASSUME NEW c \in Callers, KillCall(c) PROVE \A n \in Servers : Goes(n)
  BY <1>0, <1>8, GoesSame DEF KillCall, Unexceptional
<1>9. ASSUME NEW c \in Callers, Answer(c) PROVE \A n \in Servers : Goes(n)
  <2> DEFINE m == call[c].read.server
  <2>1. tokens' = tokens /\ dir' = dir
    BY <1>9 DEF Answer
  <2>2. CASE Running(m)
    <3>1. call[c].pc = "asked" /\ srv' = [srv EXCEPT ![m].touched = TRUE]
      BY <1>9, <2>2 DEF Answer
    <3>2. m \in Servers /\ srv'[m] = [srv[m] EXCEPT !.touched = TRUE]
      BY <3>1 DEF RecordInv, ReadSound, Names, Types
    <3>3. Goes(m)
      BY <1>0, <2>1, <3>2 DEF Goes, Published, SrvType, RecordInv
    <3>4. \A n \in Servers : n # m => srv'[n] = srv[n]
      BY <3>1 DEF Types
    <3> QED
      BY <1>0, <2>1, <3>3, <3>4, GoesSame
  <2>3. CASE ~Running(m)
    BY <1>0, <1>9, <2>1, <2>3, GoesSame DEF Answer
  <2> QED
    BY <2>2, <2>3
<1>10. ASSUME NEW c \in Callers, WriteLaunch(c) PROVE \A n \in Servers : Goes(n)
  BY <1>0, <1>10, GoesSame DEF WriteLaunch
<1>11. ASSUME NEW c \in Callers, LaunchServer(c) PROVE \A n \in Servers : Goes(n)
  <2> DEFINE m == Cardinality(Launched) + 1
  <2>1. m \in Servers /\ tokens' = tokens /\ dir' = dir /\ srv' = [srv EXCEPT ![m].pc = "boot"]
    BY <1>11 DEF LaunchServer
  <2>2. srv[m].pc = "never"
    BY <2>1, NextServer
  <2> HIDE DEF m
  <2>3. srv'[m] = [srv[m] EXCEPT !.pc = "boot"] /\ \A n \in Servers : n # m => srv'[n] = srv[n]
    BY <2>1 DEF Types
  <2>4. Goes(m)
    BY <1>0, <2>1, <2>2, <2>3 DEF Goes, Published, SrvType, RecordInv
  <2> QED
    BY <1>0, <2>1, <2>3, <2>4, GoesSame
<1>12. ASSUME NEW c \in Callers, LookAtChild(c) PROVE \A n \in Servers : Goes(n)
  <2> DEFINE m == call[c].child
  <2>1. m \in Servers /\ srv[m].pc # "never" /\ tokens' = tokens /\ dir' = dir
    BY <1>12 DEF LookAtChild, OrderInv, StageSound
  <2>2. CASE srv' = srv
    BY <1>0, <2>1, <2>2, GoesSame
  <2>3. CASE srv' = [srv EXCEPT ![m] = Dead]
    <3>1. srv'[m] = Dead /\ \A n \in Servers : n # m => srv'[n] = srv[n]
      BY <2>1, <2>3 DEF Types
    <3> QED
      BY <1>0, <2>1, <3>1, GoesSame, GoesDead
  <2> QED
    BY <1>12, <2>2, <2>3 DEF LookAtChild
<1>13. ASSUME NEW m \in Servers, Boot(m) PROVE \A n \in Servers : Goes(n)
  <2>1. tokens' = tokens /\ dir' = dir /\ srv[m].pc \notin {"never", "dead", "serving"}
    BY <1>13 DEF Boot
  <2>2. /\ srv'[m] = [srv[m] EXCEPT !.pc = "open", !.token = record.token, !.dir = dir] \/ srv'[m] = Dead
        /\ \A n \in Servers : n # m => srv'[n] = srv[n]
    BY <1>13 DEF Boot, Types, ServerStep, ServerEnds
  <2>3. ASSUME srv'[m] = [srv[m] EXCEPT !.pc = "open", !.token = record.token, !.dir = dir] PROVE Goes(m)
    BY <1>0, <1>13, <2>1, <2>3 DEF Goes, Published, SrvType, RecordInv, Boot
  <2> QED
    BY <1>0, <2>1, <2>2, <2>3, GoesSame, GoesDead
<1>14. ASSUME NEW m \in Servers, OpenDirectory(m) PROVE \A n \in Servers : Goes(n)
  <2>1. tokens' = tokens /\ dir' = dir /\ srv[m].pc = "open"
    BY <1>14 DEF OpenDirectory
  <2>2. /\ srv'[m] = [srv[m] EXCEPT !.pc = "publish"] \/ srv'[m] = Dead
        /\ \A n \in Servers : n # m => srv'[n] = srv[n]
    BY <1>14 DEF OpenDirectory, Types, ServerStep, ServerEnds
  <2>3. ASSUME srv'[m] = [srv[m] EXCEPT !.pc = "publish"] PROVE Goes(m)
    BY <1>0, <2>1, <2>3 DEF Goes, Published, SrvType, RecordInv
  <2> QED
    BY <1>0, <2>1, <2>2, <2>3, GoesSame, GoesDead
<1>15. ASSUME NEW m \in Servers, Publish(m) PROVE \A n \in Servers : Goes(n)
  <2>1. tokens' = tokens /\ dir' = dir /\ srv[m].pc = "publish"
    BY <1>15 DEF Publish
  <2>2. /\ srv'[m] = [srv[m] EXCEPT !.pc = "serving", !.touched = TRUE]
        /\ \A n \in Servers : n # m => srv'[n] = srv[n]
    BY <1>15 DEF Publish, Types, ServerStep, ServerEnds
  <2>3. ASSUME srv'[m] = [srv[m] EXCEPT !.pc = "serving", !.touched = TRUE] PROVE Goes(m)
    BY <1>0, <2>1, <2>3 DEF Goes, Published, SrvType, RecordInv
  <2> QED
    BY <1>0, <2>1, <2>2, <2>3, GoesSame, GoesDead
<1>16. ASSUME NEW m \in Servers, CleanupLock(m) PROVE \A n \in Servers : Goes(n)
  <2>1. tokens' = tokens /\ dir' = dir /\ srv[m].pc = "closed"
    BY <1>16 DEF CleanupLock
  <2>2. /\ srv'[m] = [srv[m] EXCEPT !.pc = "compare"] \/ srv'[m] = Dead
        /\ \A n \in Servers : n # m => srv'[n] = srv[n]
    BY <1>16 DEF CleanupLock, Types, ServerStep, ServerEnds
  <2>3. ASSUME srv'[m] = [srv[m] EXCEPT !.pc = "compare"] PROVE Goes(m)
    BY <1>0, <2>1, <2>3 DEF Goes, Published, SrvType, RecordInv
  <2> QED
    BY <1>0, <2>1, <2>2, <2>3, GoesSame, GoesDead
<1>17. ASSUME NEW m \in Servers, Compare(m) PROVE \A n \in Servers : Goes(n)
  <2>1. tokens' = tokens /\ dir' = dir /\ srv[m].pc = "compare"
    BY <1>17 DEF Compare
  <2>2. /\ srv'[m] = [srv[m] EXCEPT !.pc = "unlink"] \/ srv'[m] = Dead
        /\ \A n \in Servers : n # m => srv'[n] = srv[n]
    BY <1>17 DEF Compare, Types, ServerStep, ServerEnds
  <2>3. ASSUME srv'[m] = [srv[m] EXCEPT !.pc = "unlink"] PROVE Goes(m)
    BY <1>0, <2>1, <2>3 DEF Goes, Published, SrvType, RecordInv
  <2> QED
    BY <1>0, <2>1, <2>2, <2>3, GoesSame, GoesDead
<1>18. ASSUME NEW m \in Servers, IdleLimit(m) PROVE \A n \in Servers : Goes(n)
  <2> DEFINE l == \E c \in Callers : call[c].pc = "asked" /\ call[c].read.server = m
  <2>1. tokens' = tokens /\ dir' = dir /\ srv[m].pc = "serving" /\ ~srv[m].touched
    BY <1>18 DEF IdleLimit
  <2>2. srv' = [srv EXCEPT ![m].pc = "closed", ![m].late = l]
    BY <1>18 DEF IdleLimit
  <2>3. \A n \in Servers : n # m => srv'[n] = srv[n]
    BY <2>2 DEF Types
  <2>4. /\ srv'[m].pc = "closed" /\ srv'[m].token = srv[m].token /\ srv'[m].dir = srv[m].dir
        /\ srv'[m].late = l
    BY <1>0, <2>2 DEF Types, SrvType
  <2>5. Goes(m)
    BY <1>0, <2>1, <2>4 DEF Goes, Published, SrvType, RecordInv
  <2> QED
    BY <1>0, <2>1, <2>3, <2>5, GoesSame
<1>19. ASSUME NEW m \in Servers, Unlink(m) PROVE \A n \in Servers : Goes(n)
  <2>1. /\ tokens' = tokens /\ dir' = dir /\ srv[m].pc # "never"
        /\ srv'[m] = Dead /\ \A n \in Servers : n # m => srv'[n] = srv[n]
    BY <1>19 DEF Unlink, Types, ServerEnds, Running
  <2> QED
    BY <1>0, <2>1, GoesSame, GoesDead
<1>20. ASSUME NEW m \in Servers, KillServer(m) PROVE \A n \in Servers : Goes(n)
  <2>1. /\ tokens' = tokens /\ dir' = dir /\ srv[m].pc # "never"
        /\ srv'[m] = Dead /\ \A n \in Servers : n # m => srv'[n] = srv[n]
    BY <1>20 DEF KillServer, Types, ServerEnds, Running
  <2> QED
    BY <1>0, <2>1, GoesSame, GoesDead
<1>21. CASE Hours
  <2>1. \A n \in Servers : srv'[n] = [srv[n] EXCEPT !.touched = FALSE]
    BY <1>21 DEF Hours
  <2> QED
    BY <1>0, <1>21, <2>1 DEF Hours, Goes, Published, SrvType, RecordInv
<1>22. CASE NewDirectory
  BY <1>0, <1>22, GoesSame DEF NewDirectory
<1> QED
  BY <1>1, <1>2, <1>3, <1>4, <1>5, <1>6, <1>7, <1>8, <1>9, <1>10, <1>11, <1>12, <1>13, <1>14, <1>15, <1>16,
     <1>17, <1>18, <1>19, <1>20, <1>21, <1>22
     DEF ServerNext, CallStep, ServeStep

\* A command moves as a step of its own, or not at all.
MovesOn(c) ==
  \/ call'[c].pc \notin {"ask", "asked", "done"}
  \/ call[c].pc = "read" /\ call'[c].pc = "ask" /\ call'[c].read = record /\ record.kind = "live" /\ srv' = srv
  \/ /\ call[c].pc = "ask" /\ call'[c].pc = "asked" /\ call'[c].read = call[c].read /\ srv' = srv
     /\ srv[call[c].read.server].pc = "serving"
  \/ /\ call[c].pc = "asked" /\ call'[c].pc = "done" /\ call'[c].read = call[c].read
     /\ srv'[call[c].read.server].touched

CallGoes(c) ==
  call'[c] = call[c] \/ MovesOn(c) \/ call'[c] = NoCall

\* Every step takes every command that way.
LEMMA CallsGo ==
  ASSUME Types, RecordInv, ServerNext
  PROVE  \A d \in Callers : CallGoes(d)
<1> USE DEF CallGoes, MovesOn
<1>0. \A c \in Callers : call[c] \in CallType
  BY DEF Types
<1>1. ASSUME NEW c \in Callers, CallBegins(c) PROVE \A d \in Callers : CallGoes(d)
  BY <1>1, <1>0 DEF CallBegins, Types, NoCall
<1>2. ASSUME NEW c \in Callers, ReadState(c) PROVE \A d \in Callers : CallGoes(d)
  <2>1. call[c].pc = "read" /\ \A d \in Callers : d # c => call'[d] = call[d]
    BY <1>2 DEF ReadState, Step, Types
  <2>2. CallGoes(c)
    BY <1>2, <1>0 DEF ReadState, Step, Types, CallType, AfterNoServer
  <2> QED
    BY <2>1, <2>2
<1>3. ASSUME NEW c \in Callers, Ask(c) PROVE \A d \in Callers : CallGoes(d)
  <2>1. call[c].pc = "ask" /\ \A d \in Callers : d # c => call'[d] = call[d]
    BY <1>3 DEF Ask, Step, Types
  <2>2. CallGoes(c)
    BY <1>3, <1>0 DEF Ask, Step, Types, CallType, AfterNoServer
  <2> QED
    BY <2>1, <2>2
<1>4. ASSUME NEW c \in Callers, Answer(c) PROVE \A d \in Callers : CallGoes(d)
  <2>1. /\ call[c].pc = "asked" /\ call'[c].read = call[c].read
        /\ \A d \in Callers : d # c => call'[d] = call[d]
    BY <1>4 DEF Answer, Step, Types, CallType
  <2>2. CASE Running(call[c].read.server)
    <3>1. call'[c].pc = "done"
      BY <1>4, <2>2 DEF Answer, Step, Types, CallType
    <3>2. srv' = [srv EXCEPT ![call[c].read.server].touched = TRUE]
      BY <1>4, <2>2 DEF Answer
    <3>3. call[c].read.server \in Servers
      BY <2>1 DEF RecordInv, ReadSound, Names
    <3>4. srv'[call[c].read.server].touched
      BY <3>2, <3>3 DEF Types, SrvType
    <3> QED
      BY <2>1, <3>1, <3>4
  <2>3. CASE ~Running(call[c].read.server)
    <3>1. call'[c].pc = AfterNoServer(call[c].stage)
      BY <1>4, <2>3 DEF Answer, Step, Types, CallType
    <3> QED
      BY <2>1, <3>1, <1>0 DEF AfterNoServer, CallType
  <2> QED
    BY <2>2, <2>3
<1>5. ASSUME NEW c \in Callers, NoAnswer(c) PROVE \A d \in Callers : CallGoes(d)
  <2>1. call[c].pc = "asked" /\ \A d \in Callers : d # c => call'[d] = call[d]
    BY <1>5 DEF NoAnswer, Step, Types
  <2>2. CallGoes(c)
    BY <1>5, <1>0 DEF NoAnswer, Step, Types, CallType, AfterNoServer
  <2> QED
    BY <2>1, <2>2
<1>6. ASSUME NEW c \in Callers, TryLock(c) PROVE \A d \in Callers : CallGoes(d)
  <2>1. call[c].pc = "lock" /\ \A d \in Callers : d # c => call'[d] = call[d]
    BY <1>6 DEF TryLock, Step, Types
  <2>2. CallGoes(c)
    BY <1>6, <1>0 DEF TryLock, Step, Types, CallType, AfterNoServer
  <2> QED
    BY <2>1, <2>2
<1>7. ASSUME NEW c \in Callers, LockDeadline(c) PROVE \A d \in Callers : CallGoes(d)
  BY <1>7, <1>0 DEF LockDeadline, Types
<1>8. ASSUME NEW c \in Callers, WriteLaunch(c) PROVE \A d \in Callers : CallGoes(d)
  <2>1. call[c].pc = "launch" /\ \A d \in Callers : d # c => call'[d] = call[d]
    BY <1>8 DEF WriteLaunch, Step, Types
  <2>2. CallGoes(c)
    BY <1>8, <1>0 DEF WriteLaunch, Step, Types, CallType, AfterNoServer
  <2> QED
    BY <2>1, <2>2
<1>9. ASSUME NEW c \in Callers, LaunchServer(c) PROVE \A d \in Callers : CallGoes(d)
  <2>1. call[c].pc = "popen" /\ \A d \in Callers : d # c => call'[d] = call[d]
    BY <1>9 DEF LaunchServer, Step, Types
  <2>2. CallGoes(c)
    BY <1>9, <1>0 DEF LaunchServer, Step, Types, CallType, AfterNoServer
  <2> QED
    BY <2>1, <2>2
<1>10. ASSUME NEW c \in Callers, LookAtChild(c) PROVE \A d \in Callers : CallGoes(d)
  <2>1. call[c].pc = "child" /\ \A d \in Callers : d # c => call'[d] = call[d]
    BY <1>10 DEF LookAtChild, Step, Types
  <2>2. CallGoes(c)
    BY <1>10, <1>0 DEF LookAtChild, Step, Types, CallType, AfterNoServer
  <2> QED
    BY <2>1, <2>2
<1>11. ASSUME NEW c \in Callers, CallEnds(c) PROVE \A d \in Callers : CallGoes(d)
  BY <1>11, <1>0 DEF CallEnds, Types
<1>12. ASSUME NEW c \in Callers, KillCall(c) PROVE \A d \in Callers : CallGoes(d)
  BY <1>12, <1>0 DEF KillCall, Types
<1>13. ASSUME NEW n \in Servers, Boot(n) PROVE \A d \in Callers : CallGoes(d)
  BY <1>13 DEF Boot
<1>14. ASSUME NEW n \in Servers, OpenDirectory(n) PROVE \A d \in Callers : CallGoes(d)
  BY <1>14 DEF OpenDirectory
<1>15. ASSUME NEW n \in Servers, Publish(n) PROVE \A d \in Callers : CallGoes(d)
  BY <1>15 DEF Publish
<1>16. ASSUME NEW n \in Servers, IdleLimit(n) PROVE \A d \in Callers : CallGoes(d)
  BY <1>16 DEF IdleLimit
<1>17. ASSUME NEW n \in Servers, CleanupLock(n) PROVE \A d \in Callers : CallGoes(d)
  BY <1>17 DEF CleanupLock
<1>18. ASSUME NEW n \in Servers, Compare(n) PROVE \A d \in Callers : CallGoes(d)
  BY <1>18 DEF Compare
<1>19. ASSUME NEW n \in Servers, Unlink(n) PROVE \A d \in Callers : CallGoes(d)
  BY <1>19 DEF Unlink
<1>20. ASSUME NEW n \in Servers, KillServer(n) PROVE \A d \in Callers : CallGoes(d)
  BY <1>20 DEF KillServer
<1>21. CASE Hours \/ NewDirectory
  BY <1>21 DEF Hours, NewDirectory
<1> QED
  BY <1>1, <1>2, <1>3, <1>4, <1>5, <1>6, <1>7, <1>8, <1>9, <1>10, <1>11, <1>12, <1>13, <1>14, <1>15, <1>16,
     <1>17, <1>18, <1>19, <1>20, <1>21
     DEF ServerNext, CallStep, ServeStep

\* A record that names a server goes on naming it.
LEMMA RecordsFollow ==
  ASSUME Types, OrderInv, RecordInv, ServerNext
  PROVE  /\ record'.kind = "live" => Names(record)'
         /\ record'.token <= tokens'
<1> USE Bounds
<1>0. /\ record \in RecordType /\ record.token <= tokens /\ (record.kind = "live" => Names(record))
      /\ tokens \in Nat
  BY DEF Types, RecordInv
<1>1. CASE record' = record /\ tokens' = tokens
  <2>1. ASSUME record.kind = "live" PROVE Names(record)'
    <3>1. Names(record) /\ Goes(record.server)
      BY <1>0, <2>1, ServersGo DEF Names
    <3> QED
      BY <1>1, <3>1 DEF Names, Goes, Published
  <2> QED
    BY <1>0, <1>1, <2>1
<1>2. ASSUME NEW c \in Callers, WriteLaunch(c)
      PROVE  record'.kind # "live" /\ record'.token <= tokens'
  BY <1>0, <1>2 DEF WriteLaunch, LaunchRecord
<1>3. ASSUME NEW n \in Servers, Publish(n)
      PROVE  Names(record)' /\ record'.token <= tokens'
  <2>1. /\ record' = LiveRecord(n, srv[n].token, srv[n].dir) /\ tokens' = tokens
        /\ srv' = [srv EXCEPT ![n].pc = "serving", ![n].touched = TRUE]
    BY <1>3 DEF Publish
  <2>2. srv'[n].pc = "serving" /\ srv'[n].token = srv[n].token /\ srv'[n].dir = srv[n].dir
    BY <2>1 DEF Types, SrvType
  <2>3. srv[n].token <= tokens
    BY DEF RecordInv
  <2> QED
    BY <2>1, <2>2, <2>3 DEF LiveRecord, Names, Published
<1>4. ASSUME NEW n \in Servers, Unlink(n)
      PROVE  record'.kind # "live" /\ record'.token <= tokens'
  BY <1>0, <1>4 DEF Unlink, NoRecord
<1> QED
  BY <1>1, <1>2, <1>3, <1>4
     DEF ServerNext, CallStep, ServeStep, CallBegins, ReadState, Ask, Answer, NoAnswer, TryLock, LockDeadline,
         LaunchServer, LookAtChild, CallEnds, KillCall, Boot, OpenDirectory, IdleLimit, CleanupLock, Compare,
         KillServer, Hours, NewDirectory

\* Every step keeps what records and answers say.
LEMMA RecordKept ==
  ASSUME Types, OrderInv, RecordInv, ServerNext
  PROVE  RecordInv'
<1>1. ASSUME NEW n \in Servers PROVE (srv[n].token <= tokens /\ srv[n].dir <= dir)'
  BY ServersGo DEF Goes
<1>2. ASSUME NEW c \in Callers PROVE ReadSound(c)'
  <2>1. ReadSound(c) /\ CallGoes(c)
    BY CallsGo DEF RecordInv
  <2>2. call'[c].pc \in {"ask", "asked", "done"} /\ call'[c] = call[c] =>
          Names(call[c].read) /\ Goes(call[c].read.server)
    BY <2>1, ServersGo DEF ReadSound, Names
  <2>3. CASE call'[c] = call[c]
    <3> DEFINE m == call[c].read.server
    <3>1. CASE call[c].pc \notin {"ask", "asked", "done"}
      BY <2>3, <3>1 DEF ReadSound
    <3>2. CASE call[c].pc \in {"ask", "asked", "done"}
      <4>1. Names(call[c].read) /\ Goes(m)
        BY <2>2, <2>3, <3>2
      <4>2. Names(call[c].read)'
        BY <2>3, <4>1 DEF Names, Goes, Published
      <4>3. call[c].pc \in {"asked", "done"} => srv'[m].pc \in {"dead", "serving"} \/ srv'[m].late
        BY <2>1, <4>1 DEF ReadSound, Names, Goes, Published
      <4>4. call[c].pc = "done" /\ srv'[m].pc = "serving" => srv'[m].touched
        BY <2>1, <4>1 DEF ReadSound, Names, Goes, Published
      <4> QED
        BY <2>3, <4>2, <4>3, <4>4 DEF ReadSound
    <3> QED
      BY <3>1, <3>2
  <2>4. CASE call'[c] = NoCall
    BY <2>4 DEF NoCall, ReadSound
  <2>5. CASE MovesOn(c)
    <3>1. CASE call'[c].pc \notin {"ask", "asked", "done"}
      BY <3>1 DEF ReadSound
    <3>2. CASE call'[c].pc = "ask" /\ call'[c].read = record /\ record.kind = "live" /\ srv' = srv
      BY <3>2 DEF ReadSound, RecordInv, Names, Published
    <3>3. CASE /\ call[c].pc = "ask" /\ call'[c].pc = "asked" /\ call'[c].read = call[c].read /\ srv' = srv
               /\ srv[call[c].read.server].pc = "serving"
      BY <2>1, <3>3 DEF ReadSound, Names, Published
    <3>4. CASE /\ call[c].pc = "asked" /\ call'[c].pc = "done" /\ call'[c].read = call[c].read
               /\ srv'[call[c].read.server].touched
      <4>1. Names(call[c].read) /\ Goes(call[c].read.server)
        BY <2>1, <3>4, ServersGo DEF ReadSound, Names
      <4> QED
        BY <2>1, <3>4, <4>1 DEF ReadSound, Names, Goes, Published
    <3> QED
      BY <2>5, <3>1, <3>2, <3>3, <3>4 DEF MovesOn
  <2> QED
    BY <2>1, <2>3, <2>4, <2>5 DEF CallGoes
<1> QED
  BY <1>1, <1>2, RecordsFollow DEF RecordInv

-----------------------------------------------------------------------------
(* Stages and the order of the servers *)

\* Every step keeps the stages of the commands.
LEMMA StagesKept ==
  ASSUME Types, OrderInv, RecordInv, ServerNext
  PROVE  \A c \in Callers : StageSound(c)'
<1>1. \A c \in Callers : call[c] \in CallType /\ StageSound(c)
  BY DEF Types, OrderInv
<1>2. \A n \in Servers : srv'[n].pc = "never" => srv[n].pc = "never"
  BY ServersGo DEF Goes
<1>3. ASSUME NEW d \in Callers, call'[d] = call[d] PROVE StageSound(d)'
  BY <1>1, <1>2, <1>3 DEF StageSound
<1>4. ASSUME NEW d \in Callers, call'[d] = NoCall PROVE StageSound(d)'
  BY <1>4 DEF StageSound, NoCall
<1>5. ASSUME NEW c \in Callers, CallBegins(c) PROVE \A d \in Callers : StageSound(d)'
  <2>1. \A d \in Callers : d # c => call'[d] = call[d]
    BY <1>5 DEF CallBegins, Types
  <2>2. StageSound(c)'
    BY <1>1, <1>5 DEF CallBegins, Types, CallType, StageSound, NoCall
  <2> QED
    BY <1>3, <2>1, <2>2
<1>6. ASSUME NEW c \in Callers, ReadState(c) PROVE \A d \in Callers : StageSound(d)'
  <2>1. \A d \in Callers : d # c => call'[d] = call[d]
    BY <1>6 DEF ReadState, Types
  <2>2. StageSound(c)'
    BY <1>1, <1>6 DEF ReadState, Types, CallType, StageSound, AfterNoServer
  <2> QED
    BY <1>3, <2>1, <2>2
<1>7. ASSUME NEW c \in Callers, Ask(c) PROVE \A d \in Callers : StageSound(d)'
  <2>1. \A d \in Callers : d # c => call'[d] = call[d]
    BY <1>7 DEF Ask, Types, Step
  <2>2. StageSound(c)'
    BY <1>1, <1>7 DEF Ask, Types, CallType, StageSound, AfterNoServer, Step
  <2> QED
    BY <1>3, <2>1, <2>2
<1>8. ASSUME NEW c \in Callers, Answer(c) PROVE \A d \in Callers : StageSound(d)'
  <2>1. /\ call[c].pc = "asked" /\ \A d \in Callers : d # c => call'[d] = call[d]
        /\ \E pc \in {"done", AfterNoServer(call[c].stage)} : call' = [call EXCEPT ![c].pc = pc]
    BY <1>8 DEF Answer, Step, Types
  <2>2. StageSound(c)'
    BY <1>1, <1>2, <2>1 DEF Types, CallType, StageSound, AfterNoServer
  <2> QED
    BY <1>3, <2>1, <2>2
<1>9. ASSUME NEW c \in Callers, NoAnswer(c) PROVE \A d \in Callers : StageSound(d)'
  <2>1. \A d \in Callers : d # c => call'[d] = call[d]
    BY <1>9 DEF NoAnswer, Types, Step
  <2>2. StageSound(c)'
    BY <1>1, <1>9 DEF NoAnswer, Types, CallType, StageSound, AfterNoServer, Step
  <2> QED
    BY <1>3, <2>1, <2>2
<1>10. ASSUME NEW c \in Callers, TryLock(c) PROVE \A d \in Callers : StageSound(d)'
  <2>1. \A d \in Callers : d # c => call'[d] = call[d]
    BY <1>10 DEF TryLock, Types
  <2>2. StageSound(c)'
    BY <1>1, <1>10 DEF TryLock, Types, CallType, StageSound
  <2> QED
    BY <1>3, <2>1, <2>2
<1>11. ASSUME NEW c \in Callers, LockDeadline(c) PROVE \A d \in Callers : StageSound(d)'
  BY <1>11, <1>3, <1>4 DEF LockDeadline, Types
<1>12. ASSUME NEW c \in Callers, WriteLaunch(c) PROVE \A d \in Callers : StageSound(d)'
  <2>1. \A d \in Callers : d # c => call'[d] = call[d]
    BY <1>12 DEF WriteLaunch, Types
  <2>2. StageSound(c)'
    BY <1>1, <1>12 DEF WriteLaunch, Types, CallType, StageSound
  <2> QED
    BY <1>3, <2>1, <2>2
<1>13. ASSUME NEW c \in Callers, LaunchServer(c) PROVE \A d \in Callers : StageSound(d)'
  <2> DEFINE m == Cardinality(Launched) + 1
  <2>1. /\ m \in Servers /\ srv' = [srv EXCEPT ![m].pc = "boot"]
        /\ call' = [call EXCEPT ![c].pc = "read", ![c].stage = "wait", ![c].child = m]
    BY <1>13 DEF LaunchServer
  <2> HIDE DEF m
  <2>2. /\ call'[c].pc = "read" /\ call'[c].child = m /\ srv'[m].pc = "boot"
        /\ \A d \in Callers : d # c => call'[d] = call[d]
    BY <2>1 DEF Types, CallType, SrvType
  <2>3. StageSound(c)'
    BY <2>1, <2>2 DEF StageSound
  <2> QED
    BY <1>3, <2>2, <2>3
<1>14. ASSUME NEW c \in Callers, LookAtChild(c) PROVE \A d \in Callers : StageSound(d)'
  <2>1. \A d \in Callers : d # c => call'[d] = call[d]
    BY <1>14 DEF LookAtChild, Step, Types
  <2>2. CASE call' = [call EXCEPT ![c].pc = "read"] /\ srv' = srv
    BY <1>1, <1>14, <2>2 DEF LookAtChild, Types, CallType, StageSound
  <2>3. CASE call' = [call EXCEPT ![c] = NoCall]
    BY <1>3, <1>4, <2>1, <2>3 DEF Types
  <2> QED
    BY <1>3, <1>14, <2>1, <2>2, <2>3 DEF LookAtChild, Step
<1>15. ASSUME NEW c \in Callers, CallEnds(c) PROVE \A d \in Callers : StageSound(d)'
  BY <1>15, <1>3, <1>4 DEF CallEnds, Types
<1>16. ASSUME NEW c \in Callers, KillCall(c) PROVE \A d \in Callers : StageSound(d)'
  BY <1>16, <1>3, <1>4 DEF KillCall, Types
<1>17. ASSUME NEW n \in Servers, Boot(n) PROVE \A d \in Callers : StageSound(d)'
  BY <1>3, <1>17 DEF Boot
<1>18. ASSUME NEW n \in Servers, OpenDirectory(n) PROVE \A d \in Callers : StageSound(d)'
  BY <1>3, <1>18 DEF OpenDirectory
<1>19. ASSUME NEW n \in Servers, Publish(n) PROVE \A d \in Callers : StageSound(d)'
  BY <1>3, <1>19 DEF Publish
<1>20. ASSUME NEW n \in Servers, IdleLimit(n) PROVE \A d \in Callers : StageSound(d)'
  BY <1>3, <1>20 DEF IdleLimit
<1>21. ASSUME NEW n \in Servers, CleanupLock(n) PROVE \A d \in Callers : StageSound(d)'
  BY <1>3, <1>21 DEF CleanupLock
<1>22. ASSUME NEW n \in Servers, Compare(n) PROVE \A d \in Callers : StageSound(d)'
  BY <1>3, <1>22 DEF Compare
<1>23. ASSUME NEW n \in Servers, Unlink(n) PROVE \A d \in Callers : StageSound(d)'
  BY <1>3, <1>23 DEF Unlink
<1>24. ASSUME NEW n \in Servers, KillServer(n) PROVE \A d \in Callers : StageSound(d)'
  BY <1>3, <1>24 DEF KillServer
<1>25. CASE Hours \/ NewDirectory
  BY <1>3, <1>25 DEF Hours, NewDirectory
<1> QED
  BY <1>5, <1>6, <1>7, <1>8, <1>9, <1>10, <1>11, <1>12, <1>13, <1>14, <1>15, <1>16, <1>17, <1>18, <1>19,
     <1>20, <1>21, <1>22, <1>23, <1>24, <1>25
     DEF ServerNext, CallStep, ServeStep

\* Every step keeps the order of the servers.
LEMMA OrderKept ==
  ASSUME Types, OrderInv, RecordInv, ServerNext
  PROVE  OrderInv'
<1>1. PICK k \in 0 .. MaxServers : \A n \in Servers : srv[n].pc # "never" <=> n <= k
  BY DEF OrderInv
<1>2. CASE \A n \in Servers : srv[n].pc = "never" <=> srv'[n].pc = "never"
  BY <1>1, <1>2, StagesKept DEF OrderInv
<1>3. ASSUME NEW c \in Callers, LaunchServer(c)
      PROVE  \E j \in 0 .. MaxServers : \A n \in Servers : srv'[n].pc # "never" <=> n <= j
  <2> DEFINE m == Cardinality(Launched) + 1
  <2>1. m \in Servers /\ srv' = [srv EXCEPT ![m].pc = "boot"]
    BY <1>3 DEF LaunchServer
  <2>2. \A n \in Servers : srv[n].pc # "never" <=> n < m
    BY <2>1, NextServer
  <2> HIDE DEF m
  <2>3. \A n \in Servers : srv'[n].pc # "never" <=> n <= m
    BY <2>1, <2>2 DEF Types, SrvType, Servers
  <2>4. m \in 0 .. MaxServers
    BY <2>1 DEF Servers
  <2> QED
    BY <2>3, <2>4
<1>4. ASSUME NEW c \in Callers, Answer(c) PROVE \A n \in Servers : srv[n].pc = "never" <=> srv'[n].pc = "never"
  BY <1>4 DEF Answer, Types, SrvType
<1>5. ASSUME NEW c \in Callers, LookAtChild(c)
      PROVE  \A n \in Servers : srv[n].pc = "never" <=> srv'[n].pc = "never"
  BY <1>5 DEF LookAtChild, Types, OrderInv, StageSound, Dead
<1>6. ASSUME NEW m \in Servers, ServeStep(m)
      PROVE  \A n \in Servers : srv[n].pc = "never" <=> srv'[n].pc = "never"
  <2>1. srv[m].pc # "never" /\ \A n \in Servers : n # m => srv'[n] = srv[n]
    BY <1>6 DEF ServeStep, Boot, OpenDirectory, Publish, IdleLimit, CleanupLock, Compare, Unlink, KillServer,
                ServerStep, ServerEnds, Running, Types
  <2>2. srv'[m].pc = "never" => srv[m].pc = "never"
    BY ServersGo DEF Goes
  <2> QED
    BY <2>1, <2>2
<1>7. ASSUME Hours PROVE \A n \in Servers : srv[n].pc = "never" <=> srv'[n].pc = "never"
  BY <1>7 DEF Hours, Types, SrvType
<1>8. \/ \A n \in Servers : srv[n].pc = "never" <=> srv'[n].pc = "never"
      \/ \E j \in 0 .. MaxServers : \A n \in Servers : srv'[n].pc # "never" <=> n <= j
  <2>1. CASE srv' = srv
    BY <2>1
  <2> QED
    BY <2>1, <1>3, <1>4, <1>5, <1>6, <1>7
       DEF ServerNext, CallStep, CallBegins, ReadState, Ask, NoAnswer, TryLock, LockDeadline, WriteLaunch, CallEnds,
           KillCall, NewDirectory
<1> QED
  BY <1>2, <1>8, StagesKept DEF OrderInv

-----------------------------------------------------------------------------
(* The launch lock *)

\* The lock as ServerTypeOK has it.
CallHolds(c)   == (call[c].pc \in UnderLock \/ call[c].stage \in {"locked", "wait"}) => holder = c
ServerHolds(n) == srv[n].pc \in {"compare", "unlink"} => holder = n
HoldInv ==
  /\ holder \in Callers \cup Servers \cup {Nobody}
  /\ \A c \in Callers : CallHolds(c)
  /\ \A n \in Servers : ServerHolds(n)

\* The two parts of ServerTypeOK.
LEMMA TypesAndHolds == ServerTypeOK <=> Types /\ HoldInv
BY DEF ServerTypeOK, Types, HoldInv, CallHolds, ServerHolds, CallType, SrvType

\* A holder is nobody, a command or a server.
LEMMA Apart == Nobody \notin Callers /\ Nobody \notin Servers /\ \A c \in Callers : c \notin Servers
BY Bounds DEF Nobody, Servers

\* Every step keeps the lock with who needs it.
LEMMA HoldKept ==
  ASSUME Types, OrderInv, RecordInv, HoldInv, ServerNext
  PROVE  HoldInv'
<1> USE Apart
<1>1. /\ \A c \in Callers : call[c] \in CallType /\ CallHolds(c) /\ StageSound(c)
      /\ \A n \in Servers : ServerHolds(n)
      /\ holder \in Callers \cup Servers \cup {Nobody}
  BY DEF Types, HoldInv, OrderInv
<1>2. ASSUME NEW d \in Callers, call'[d] = call[d], holder' = holder \/ (holder # d /\ holder' # d)
      PROVE  CallHolds(d)'
  BY <1>1, <1>2 DEF CallHolds
<1>3. ASSUME NEW n \in Servers, srv'[n].pc \in {"compare", "unlink"} => srv[n].pc = srv'[n].pc,
             holder' = holder \/ holder # n
      PROVE  ServerHolds(n)'
  BY <1>1, <1>3 DEF ServerHolds
<1>4. ASSUME NEW d \in Callers, call'[d] = NoCall PROVE CallHolds(d)'
  BY <1>4 DEF CallHolds, NoCall, UnderLock
<1>5. ASSUME NEW c \in Callers, CallBegins(c) PROVE HoldInv'
  <2>1. \A d \in Callers : d # c => call'[d] = call[d]
    BY <1>5 DEF CallBegins, Types
  <2>2. CallHolds(c)'
    BY <1>1, <1>5 DEF CallBegins, Types, CallType, CallHolds, UnderLock, StageSound, NoCall
  <2>3. srv' = srv /\ holder' = holder
    BY <1>5 DEF CallBegins
  <2> QED
    BY <1>1, <1>2, <1>3, <2>1, <2>2, <2>3 DEF HoldInv
<1>6. ASSUME NEW c \in Callers, ReadState(c) PROVE HoldInv'
  <2>1. \A d \in Callers : d # c => call'[d] = call[d]
    BY <1>6 DEF ReadState, Types
  <2>2. CallHolds(c)'
    BY <1>1, <1>6 DEF ReadState, Types, CallType, CallHolds, UnderLock, StageSound, AfterNoServer
  <2>3. srv' = srv /\ holder' = holder
    BY <1>6 DEF ReadState
  <2> QED
    BY <1>1, <1>2, <1>3, <2>1, <2>2, <2>3 DEF HoldInv
<1>7. ASSUME NEW c \in Callers, Ask(c) PROVE HoldInv'
  <2>1. \A d \in Callers : d # c => call'[d] = call[d]
    BY <1>7 DEF Ask, Types, Step
  <2>2. CallHolds(c)'
    BY <1>1, <1>7 DEF Ask, Types, CallType, CallHolds, UnderLock, StageSound, AfterNoServer, Step
  <2>3. srv' = srv /\ holder' = holder
    BY <1>7 DEF Ask
  <2> QED
    BY <1>1, <1>2, <1>3, <2>1, <2>2, <2>3 DEF HoldInv
<1>8. ASSUME NEW c \in Callers, NoAnswer(c) PROVE HoldInv'
  <2>1. \A d \in Callers : d # c => call'[d] = call[d]
    BY <1>8 DEF NoAnswer, Types, Step
  <2>2. CallHolds(c)'
    BY <1>1, <1>8 DEF NoAnswer, Types, CallType, CallHolds, UnderLock, StageSound, AfterNoServer, Step
  <2>3. srv' = srv /\ holder' = holder
    BY <1>8 DEF NoAnswer
  <2> QED
    BY <1>1, <1>2, <1>3, <2>1, <2>2, <2>3 DEF HoldInv
<1>9. ASSUME NEW c \in Callers, Answer(c) PROVE HoldInv'
  <2>1. /\ call[c].pc = "asked" /\ \A d \in Callers : d # c => call'[d] = call[d]
        /\ \E pc \in {"done", AfterNoServer(call[c].stage)} : call' = [call EXCEPT ![c].pc = pc]
        /\ holder' = holder
    BY <1>9 DEF Answer, Step, Types
  <2>2. CallHolds(c)'
    BY <1>1, <2>1 DEF Types, CallType, CallHolds, UnderLock, AfterNoServer
  <2>3. \A n \in Servers : srv'[n].pc = srv[n].pc
    BY <1>9 DEF Answer, Types, SrvType
  <2> QED
    BY <1>1, <1>2, <1>3, <2>1, <2>2, <2>3 DEF HoldInv
<1>10. ASSUME NEW c \in Callers, TryLock(c) PROVE HoldInv'
  <2>1. call[c].pc = "lock" /\ srv' = srv /\ \A d \in Callers : d # c => call'[d] = call[d]
    BY <1>10 DEF TryLock, Types
  <2>2. CASE holder = Nobody
    <3>1. holder' = c /\ call'[c].pc = "read"
      BY <1>10, <2>2 DEF TryLock, Types, CallType
    <3>2. CallHolds(c)' /\ \A d \in Callers : d # c => CallHolds(d)'
      BY <1>1, <2>1, <2>2, <3>1 DEF CallHolds
    <3>3. \A n \in Servers : ServerHolds(n)'
      BY <1>1, <1>3, <2>1, <2>2
    <3> QED
      BY <3>1, <3>2, <3>3 DEF HoldInv
  <2>3. CASE holder # Nobody
    <3>1. holder' = holder /\ call'[c].pc = "read" /\ call'[c].stage = "poll"
      BY <1>10, <2>3 DEF TryLock, Types, CallType
    <3> QED
      BY <1>1, <1>2, <1>3, <2>1, <3>1 DEF HoldInv, CallHolds, UnderLock
  <2> QED
    BY <2>2, <2>3
<1>11. ASSUME NEW c \in Callers, LockDeadline(c) PROVE HoldInv'
  <2>1. call' = [call EXCEPT ![c] = NoCall] /\ srv' = srv /\ holder' = holder
    BY <1>11 DEF LockDeadline
  <2> QED
    BY <1>1, <1>2, <1>3, <1>4, <2>1 DEF HoldInv, Types
<1>12. ASSUME NEW c \in Callers, CallEnds(c) PROVE HoldInv'
  <2>1. call' = [call EXCEPT ![c] = NoCall] /\ srv' = srv /\ holder' = ReleasedBy(c)
    BY <1>12 DEF CallEnds
  <2>2. holder' \in Callers \cup Servers \cup {Nobody}
    BY <1>1, <2>1 DEF ReleasedBy
  <2>3. \A d \in Callers : CallHolds(d)'
    BY <1>2, <1>4, <2>1 DEF ReleasedBy, Types
  <2>4. \A n \in Servers : ServerHolds(n)'
    BY <1>3, <2>1 DEF ReleasedBy
  <2> QED
    BY <2>2, <2>3, <2>4 DEF HoldInv
<1>13. ASSUME NEW c \in Callers, KillCall(c) PROVE HoldInv'
  <2>1. call' = [call EXCEPT ![c] = NoCall] /\ srv' = srv /\ holder' = ReleasedBy(c)
    BY <1>13 DEF KillCall
  <2>2. holder' \in Callers \cup Servers \cup {Nobody}
    BY <1>1, <2>1 DEF ReleasedBy
  <2>3. \A d \in Callers : CallHolds(d)'
    BY <1>2, <1>4, <2>1 DEF ReleasedBy, Types
  <2>4. \A n \in Servers : ServerHolds(n)'
    BY <1>3, <2>1 DEF ReleasedBy
  <2> QED
    BY <2>2, <2>3, <2>4 DEF HoldInv
<1>14. ASSUME NEW c \in Callers, WriteLaunch(c) PROVE HoldInv'
  <2>1. /\ call[c].pc = "launch" /\ srv' = srv /\ holder' = holder
        /\ \A d \in Callers : d # c => call'[d] = call[d]
    BY <1>14 DEF WriteLaunch, Types
  <2> QED
    BY <1>1, <1>2, <1>3, <2>1 DEF HoldInv, CallHolds, UnderLock
<1>15. ASSUME NEW c \in Callers, LaunchServer(c) PROVE HoldInv'
  <2> DEFINE m == Cardinality(Launched) + 1
  <2>1. /\ call[c].pc = "popen" /\ holder' = holder
        /\ m \in Servers /\ srv' = [srv EXCEPT ![m].pc = "boot"]
        /\ call' = [call EXCEPT ![c].pc = "read", ![c].stage = "wait", ![c].child = m]
    BY <1>15 DEF LaunchServer
  <2> HIDE DEF m
  <2>2. \A d \in Callers : d # c => call'[d] = call[d]
    BY <2>1 DEF Types
  <2>3. holder = c
    BY <1>1, <2>1 DEF StageSound, CallHolds
  <2>4. \A n \in Servers : srv'[n].pc \in {"compare", "unlink"} => srv[n].pc = srv'[n].pc
    BY <2>1 DEF Types, SrvType
  <2> QED
    BY <1>1, <1>2, <1>3, <2>1, <2>2, <2>3, <2>4 DEF HoldInv, CallHolds
<1>16. ASSUME NEW c \in Callers, LookAtChild(c) PROVE HoldInv'
  <2>1. call[c].pc = "child" /\ holder = c
    BY <1>1, <1>16 DEF LookAtChild, CallHolds, UnderLock
  <2>2. CASE call' = [call EXCEPT ![c].pc = "read"] /\ srv' = srv /\ holder' = holder
    BY <1>1, <1>2, <1>3, <2>1, <2>2 DEF HoldInv, CallHolds, Types
  <2>3. CASE /\ call' = [call EXCEPT ![c] = NoCall] /\ holder' = ReleasedBy(c)
             /\ srv' = [srv EXCEPT ![call[c].child] = Dead]
    <3>1. \A d \in Callers : CallHolds(d)'
      BY <1>2, <1>4, <2>1, <2>3 DEF ReleasedBy, Types
    <3>2. \A n \in Servers : srv'[n].pc \in {"compare", "unlink"} => srv[n].pc = srv'[n].pc
      BY <2>3 DEF Types, Dead
    <3>3. \A n \in Servers : ServerHolds(n)'
      BY <1>3, <2>1, <3>2
    <3> QED
      BY <2>1, <2>3, <3>1, <3>3 DEF ReleasedBy, HoldInv
  <2> QED
    BY <1>16, <2>2, <2>3 DEF LookAtChild, Step
<1>17. ASSUME NEW m \in Servers, Boot(m) PROVE HoldInv'
  <2>1. call' = call /\ holder' = holder
    BY <1>17 DEF Boot
  <2>2. \A n \in Servers : srv'[n].pc \in {"compare", "unlink"} => srv[n].pc = srv'[n].pc
    BY <1>17 DEF Boot, Types, SrvType, ServerStep, ServerEnds, Dead
  <2> QED
    BY <1>1, <1>2, <1>3, <2>1, <2>2 DEF HoldInv
<1>18. ASSUME NEW m \in Servers, OpenDirectory(m) PROVE HoldInv'
  <2>1. call' = call /\ holder' = holder
    BY <1>18 DEF OpenDirectory
  <2>2. \A n \in Servers : srv'[n].pc \in {"compare", "unlink"} => srv[n].pc = srv'[n].pc
    BY <1>18 DEF OpenDirectory, Types, SrvType, ServerStep, ServerEnds, Dead
  <2> QED
    BY <1>1, <1>2, <1>3, <2>1, <2>2 DEF HoldInv
<1>19. ASSUME NEW m \in Servers, Publish(m) PROVE HoldInv'
  <2>1. call' = call /\ holder' = holder
    BY <1>19 DEF Publish
  <2>2. \A n \in Servers : srv'[n].pc \in {"compare", "unlink"} => srv[n].pc = srv'[n].pc
    BY <1>19 DEF Publish, Types, SrvType, ServerStep, ServerEnds, Dead
  <2> QED
    BY <1>1, <1>2, <1>3, <2>1, <2>2 DEF HoldInv
<1>20. ASSUME NEW m \in Servers, IdleLimit(m) PROVE HoldInv'
  <2>1. call' = call /\ holder' = holder
    BY <1>20 DEF IdleLimit
  <2>2. \A n \in Servers : srv'[n].pc \in {"compare", "unlink"} => srv[n].pc = srv'[n].pc
    BY <1>20 DEF IdleLimit, Types, SrvType, ServerStep, ServerEnds, Dead
  <2> QED
    BY <1>1, <1>2, <1>3, <2>1, <2>2 DEF HoldInv
<1>21. ASSUME NEW m \in Servers, CleanupLock(m) PROVE HoldInv'
  <2>1. call' = call /\ \A n \in Servers : n # m => srv'[n] = srv[n]
    BY <1>21 DEF CleanupLock, Types, ServerStep, ServerEnds
  <2>2. CASE holder = Nobody
    <3>1. holder' = m
      BY <1>21, <2>2 DEF CleanupLock
    <3>2. \A d \in Callers : CallHolds(d)'
      BY <1>2, <2>1, <2>2, <3>1
    <3>3. \A n \in Servers : ServerHolds(n)'
      BY <1>1, <2>1, <2>2, <3>1 DEF ServerHolds
    <3> QED
      BY <3>1, <3>2, <3>3 DEF HoldInv
  <2>3. CASE holder # Nobody
    <3>1. holder' = holder /\ srv'[m] = Dead
      BY <1>21, <2>3 DEF CleanupLock, ServerEnds, Types
    <3>2. \A n \in Servers : ServerHolds(n)'
      BY <1>1, <2>1, <3>1 DEF ServerHolds, Dead
    <3> QED
      BY <1>1, <1>2, <2>1, <3>1, <3>2 DEF HoldInv
  <2> QED
    BY <2>2, <2>3
<1>22. ASSUME NEW m \in Servers, Compare(m) PROVE HoldInv'
  <2>1. call' = call /\ holder = m /\ \A n \in Servers : n # m => srv'[n] = srv[n]
    BY <1>1, <1>22 DEF Compare, ServerHolds, Types, ServerStep, ServerEnds
  <2>2. holder' = holder \/ (holder' = Nobody /\ srv'[m] = Dead)
    BY <2>1, <1>22 DEF Compare, ReleasedBy, ServerEnds, Types
  <2>3. \A n \in Servers : ServerHolds(n)'
    BY <1>1, <2>1, <2>2 DEF ServerHolds, Dead
  <2> QED
    BY <1>1, <1>2, <2>1, <2>2, <2>3 DEF HoldInv
<1>23. ASSUME NEW m \in Servers, Unlink(m) PROVE HoldInv'
  <2>1. /\ call' = call /\ holder' = ReleasedBy(m)
        /\ srv'[m] = Dead /\ \A n \in Servers : n # m => srv'[n] = srv[n]
    BY <1>23 DEF Unlink, ServerEnds, Types
  <2>2. holder' \in Callers \cup Servers \cup {Nobody} /\ (holder' = holder \/ (holder = m /\ holder' = Nobody))
    BY <1>1, <2>1 DEF ReleasedBy
  <2>3. \A n \in Servers : ServerHolds(n)'
    BY <1>1, <2>1, <2>2 DEF ServerHolds, Dead
  <2> QED
    BY <1>2, <2>1, <2>2, <2>3 DEF HoldInv
<1>24. ASSUME NEW m \in Servers, KillServer(m) PROVE HoldInv'
  <2>1. /\ call' = call /\ holder' = ReleasedBy(m)
        /\ srv'[m] = Dead /\ \A n \in Servers : n # m => srv'[n] = srv[n]
    BY <1>24 DEF KillServer, ServerEnds, Types
  <2>2. holder' \in Callers \cup Servers \cup {Nobody} /\ (holder' = holder \/ (holder = m /\ holder' = Nobody))
    BY <1>1, <2>1 DEF ReleasedBy
  <2>3. \A n \in Servers : ServerHolds(n)'
    BY <1>1, <2>1, <2>2 DEF ServerHolds, Dead
  <2> QED
    BY <1>2, <2>1, <2>2, <2>3 DEF HoldInv
<1>25. CASE Hours
  <2>1. call' = call /\ holder' = holder /\ \A n \in Servers : srv'[n].pc = srv[n].pc
    BY <1>25 DEF Hours, Types, SrvType
  <2> QED
    BY <1>1, <1>2, <1>3, <2>1 DEF HoldInv
<1>26. CASE NewDirectory
  BY <1>1, <1>2, <1>3, <1>26 DEF NewDirectory, HoldInv
<1> QED
  BY <1>5, <1>6, <1>7, <1>8, <1>9, <1>10, <1>11, <1>12, <1>13, <1>14, <1>15, <1>16, <1>17, <1>18, <1>19,
     <1>20, <1>21, <1>22, <1>23, <1>24, <1>25, <1>26
     DEF ServerNext, CallStep, ServeStep

-----------------------------------------------------------------------------
(* Launches *)

\* A step that leaves the launches as they are: no server starts or takes a token.
QuietServer(n) ==
  /\ Starting(n)' <=> Starting(n)
  /\ HasToken(n)' <=> HasToken(n)
  /\ srv'[n].pc = "boot" <=> srv[n].pc = "boot"
  /\ Findable(n)' => Findable(n)
  /\ srv'[n].pc = "unlink" => record.token = srv[n].token
  /\ srv'[n].token = srv[n].token /\ srv'[n].dir = srv[n].dir
Quiet == record' = record /\ tokens' = tokens /\ \A n \in Servers : QuietServer(n)

\* What such a step may do to a command.
QuietCall(c) ==
  /\ call[c].stage = "wait" /\ Starting(call[c].child) =>
       call'[c].stage = "wait" /\ call'[c].child = call[c].child
  /\ call'[c].pc = "popen" => call[c].pc = "popen" /\ call'[c].token = call[c].token
  /\ call'[c].stage = "wait" =>
       /\ call[c].stage = "wait" /\ call'[c].child = call[c].child /\ call'[c].token = call[c].token
       /\ Starting(call[c].child) => call'[c].pc \in {"read", "child"}
  /\ Clear(c)'
  /\ Asks(c)' => \A n \in Servers : Findable(n)' => n = call'[c].read.server

\* A command that is left alone is quiet.
LEMMA QuietSame ==
  ASSUME OrderInv, LaunchInv, LockInv, Quiet, NEW c \in Callers, call'[c] = call[c]
  PROVE  QuietCall(c)
<1>1. \A n \in Servers : Findable(n)' => Findable(n)
  BY DEF Quiet, QuietServer
<1>2. Clear(c)' /\ (Asks(c)' => \A n \in Servers : Findable(n)' => n = call'[c].read.server)
  BY <1>1 DEF LockInv, Clear, Asks
<1>3. call[c].stage = "wait" /\ Starting(call[c].child) => call[c].pc \in {"read", "child"}
  BY DEF LaunchInv, Launching, OrderInv, StageSound
<1> QED
  BY <1>2, <1>3 DEF QuietCall

\* A quiet step keeps the launches and what was concluded under the lock.
LEMMA QuietStep ==
  ASSUME OrderInv, OrderInv', LaunchInv, LockInv, Quiet, \A c \in Callers : QuietCall(c)
  PROVE  LaunchInv' /\ LockInv'
<1>1. \A n \in Servers : /\ Findable(n)' => Findable(n)
                         /\ Starting(n)' <=> Starting(n)
                         /\ HasToken(n)' <=> HasToken(n)
                         /\ srv'[n].pc = "boot" <=> srv[n].pc = "boot"
                         /\ srv'[n].pc = "unlink" => record.token = srv[n].token
                         /\ srv'[n].token = srv[n].token /\ srv'[n].dir = srv[n].dir
  BY DEF Quiet, QuietServer
<1>2. \A c \in Callers : call'[c].stage = "wait" => call'[c].child \in Servers
  BY DEF OrderInv, StageSound
<1>3. \A n \in Servers : Starting(n)' => \E c \in Callers : Waits(c, n)'
  BY <1>1 DEF LaunchInv, QuietCall, Waits
<1>4. ASSUME NEW c \in Callers, Launching(c)'
      PROVE  Launching(c) /\ call'[c].token = call[c].token /\ call'[c].pc \in {"popen", "read", "child"}
  BY <1>1, <1>2, <1>4 DEF Launching, QuietCall
<1>5. ASSUME NEW c \in Callers, Settled(c)' PROVE Settled(c) /\ call'[c].token = call[c].token
  BY <1>1, <1>2, <1>5 DEF Settled, QuietCall
<1>6. LaunchInv'
  <2>1. \A c \in Callers : Launching(c)' => (/\ record.kind = "launch" /\ record.token = call[c].token
                                            /\ call[c].pc \in {"popen", "read", "child"})'
    BY <1>4 DEF LaunchInv, Quiet
  <2>2. \A c \in Callers :
          Settled(c)' => (call[c].token = tokens /\ \A n \in Servers : HasToken(n) => srv[n].token < tokens)'
    BY <1>1, <1>5 DEF LaunchInv, Quiet
  <2>3. (\A m, n \in Servers : m # n /\ HasToken(m) /\ HasToken(n) => srv[m].token # srv[n].token)'
    BY <1>1 DEF LaunchInv
  <2> QED
    BY <1>3, <2>1, <2>2, <2>3 DEF LaunchInv
<1>7. LockInv'
  <2>1. \A n \in Servers : Findable(n)' => OnRecord(n)'
    BY <1>1 DEF LockInv, OnRecord, Quiet
  <2>2. \A c \in Callers : Clear(c)' /\ (Asks(c)' => \A n \in Servers : Findable(n)' => n = call'[c].read.server)
    BY DEF QuietCall
  <2> QED
    BY <1>1, <2>1, <2>2 DEF LockInv, Quiet
<1> QED
  BY <1>6, <1>7

\* One command takes a quiet step.
LEMMA OneQuiet ==
  ASSUME OrderInv, OrderInv', LaunchInv, LockInv, Quiet, NEW c \in Callers, QuietCall(c),
         \A d \in Callers : d # c => call'[d] = call[d]
  PROVE  LaunchInv' /\ LockInv'
BY QuietSame, QuietStep

\* The servers and the record stay.
LEMMA StillServers ==
  ASSUME LockInv, record' = record, tokens' = tokens, dir' = dir, missed \subseteq missed',
         \A n \in Servers : srv'[n].pc = srv[n].pc /\ srv'[n].token = srv[n].token /\ srv'[n].dir = srv[n].dir
  PROVE  Quiet /\ \A n \in Servers : Findable(n)' => Findable(n)
BY DEF Quiet, QuietServer, Starting, HasToken, Findable, LockInv

\* A server ends, and with it the command that waited for it, if any.
LEMMA EndStep ==
  ASSUME OrderInv', LaunchInv, LockInv, NEW m \in Servers, srv'[m] = Dead,
         \A n \in Servers : n # m => srv'[n] = srv[n],
         record' = record, tokens' = tokens, dir' = dir, missed' = missed,
         \A d \in Callers : \/ call'[d] = call[d]
                            \/ call'[d] = NoCall /\ (call[d].stage = "wait" => call[d].child = m)
  PROVE  LaunchInv' /\ LockInv'
<1>1. \A n \in Servers : /\ Starting(n)' => n # m /\ Starting(n)
                         /\ HasToken(n)' => n # m /\ HasToken(n)
                         /\ srv'[n].pc = "boot" => n # m /\ srv[n].pc = "boot"
                         /\ Findable(n)' => n # m /\ Findable(n)
                         /\ srv'[n].pc = "unlink" => n # m /\ srv[n].pc = "unlink"
                         /\ n # m => srv'[n] = srv[n]
  BY DEF Starting, HasToken, Findable, Dead
<1>2. \A c \in Callers : call'[c].stage = "wait" => call'[c].child \in Servers
  BY DEF OrderInv, StageSound
<1>3. \A n \in Servers : Starting(n)' => \E c \in Callers : Waits(c, n)'
  BY <1>1 DEF LaunchInv, Waits
<1>4. \A c \in Callers : Launching(c)' => Launching(c) /\ call'[c] = call[c]
  BY <1>1, <1>2 DEF Launching, NoCall
<1>5. \A c \in Callers : Settled(c)' => Settled(c) /\ call'[c] = call[c]
  BY <1>1, <1>2 DEF Settled, NoCall
<1>6. LaunchInv'
  <2>1. \A c \in Callers : Launching(c)' => (/\ record.kind = "launch" /\ record.token = call[c].token
                                            /\ call[c].pc \in {"popen", "read", "child"})'
    BY <1>4 DEF LaunchInv
  <2>2. \A c \in Callers :
          Settled(c)' => (call[c].token = tokens /\ \A n \in Servers : HasToken(n) => srv[n].token < tokens)'
    BY <1>1, <1>5 DEF LaunchInv
  <2>3. (\A p, n \in Servers : p # n /\ HasToken(p) /\ HasToken(n) => srv[p].token # srv[n].token)'
    BY <1>1 DEF LaunchInv
  <2> QED
    BY <1>3, <2>1, <2>2, <2>3 DEF LaunchInv
<1>7. LockInv'
  <2>1. \A n \in Servers : Findable(n)' => OnRecord(n)'
    BY <1>1 DEF LockInv, OnRecord
  <2>2. \A c \in Callers : Clear(c)' /\ (Asks(c)' => \A n \in Servers : Findable(n)' => n = call'[c].read.server)
    BY <1>1 DEF LockInv, Clear, Asks, NoCall
  <2>3. \A n \in Servers : srv'[n].pc = "unlink" => record'.token = srv'[n].token
    BY <1>1 DEF LockInv
  <2> QED
    BY <2>1, <2>2, <2>3 DEF LockInv
<1> QED
  BY <1>6, <1>7

\* Who launches, waits or asks under the lock is alone with it.
LEMMA OneLaunch ==
  ASSUME OrderInv, HoldInv, LaunchInv
  PROVE  /\ \A c \in Callers : Launching(c) \/ Asks(c) \/ call[c].pc = "launch" => holder = c
         /\ \A n \in Servers : Starting(n) => \E c \in Callers : holder = c /\ Waits(c, n)
         /\ \A n \in Servers : srv[n].pc \in {"compare", "unlink"} => holder = n
BY DEF OrderInv, StageSound, HoldInv, CallHolds, ServerHolds, UnderLock, LaunchInv, Launching, Waits, Asks

\* The steps of a command keep both.
LEMMA CallsLaunch ==
  ASSUME Types, OrderInv, RecordInv, HoldInv, LaunchInv, LockInv, OrderInv', ~cut',
         NEW c \in Callers, CallStep(c)
  PROVE  LaunchInv' /\ LockInv'
<1> USE DEF Unexceptional
<1>1. /\ call[c] \in CallType /\ StageSound(c) /\ ReadSound(c)
      /\ record \in RecordType /\ missed \subseteq Servers
      /\ Launching(c) => record.kind = "launch" /\ call[c].pc \in {"popen", "read", "child"}
      /\ Clear(c) /\ (Asks(c) => \A n \in Servers : Findable(n) => n = call[c].read.server)
      /\ \A n \in Servers : Findable(n) => OnRecord(n)
  BY DEF Types, OrderInv, RecordInv, LaunchInv, LockInv
<1>2. CASE CallBegins(c)
  <2>1. call'[c] = [NoCall EXCEPT !.pc = "read"] /\ \A d \in Callers : d # c => call'[d] = call[d]
    BY <1>2 DEF CallBegins, Types
  <2>2. Quiet
    BY <1>2, StillServers DEF CallBegins
  <2>3. QuietCall(c)
    BY <1>1, <1>2, <2>1 DEF CallBegins, QuietCall, StageSound, NoCall, Clear, Asks
  <2> QED
    BY <2>1, <2>2, <2>3, OneQuiet
<1>3. CASE ReadState(c)
  <2> DEFINE usable == /\ record.kind = "live" /\ record.dir = dir
                       /\ call[c].stage = "wait" => record.token = call[c].token
  <2>1. /\ \A d \in Callers : d # c => call'[d] = call[d]
        /\ call'[c].stage = call[c].stage /\ call'[c].child = call[c].child /\ call'[c].token = call[c].token
        /\ call'[c].read = record
        /\ call'[c].pc = IF usable THEN "ask" ELSE AfterNoServer(call[c].stage)
    BY <1>1, <1>3 DEF ReadState, Types, CallType
  <2>2. Quiet /\ \A n \in Servers : Findable(n)' => Findable(n)
    BY <1>3, StillServers DEF ReadState
  <2>3. \A n \in Servers : Findable(n)' => record.kind = "live" /\ record.dir = dir /\ record.server = n
    BY <1>1, <2>2 DEF Findable, OnRecord, LiveRecord
  <2>4. Clear(c)'
    BY <1>1, <2>1, <2>3 DEF Clear, AfterNoServer, CallType
  <2>5. Asks(c)' => \A n \in Servers : Findable(n)' => n = call'[c].read.server
    BY <2>1, <2>3
  <2>6. call[c].stage = "wait" /\ Starting(call[c].child) => call'[c].pc = "child"
    BY <1>1, <2>1 DEF Launching, AfterNoServer
  <2>7. call'[c].pc # "popen"
    BY <1>1, <2>1 DEF AfterNoServer, CallType
  <2>8. QuietCall(c)
    BY <2>1, <2>4, <2>5, <2>6, <2>7 DEF QuietCall
  <2> QED
    BY <2>1, <2>2, <2>8, OneQuiet
<1>4. CASE Ask(c)
  <2>1. /\ \A d \in Callers : d # c => call'[d] = call[d]
        /\ call'[c].stage = call[c].stage /\ call'[c].child = call[c].child /\ call'[c].token = call[c].token
        /\ call'[c].read = call[c].read
        /\ call'[c].pc = IF srv[call[c].read.server].pc = "serving" THEN "asked" ELSE AfterNoServer(call[c].stage)
    BY <1>1, <1>4 DEF Ask, Step, Types, CallType
  <2>2. Quiet /\ \A n \in Servers : Findable(n)' => Findable(n)
    BY <1>4, StillServers DEF Ask
  <2>3. ~(call[c].stage = "wait" /\ Starting(call[c].child))
    BY <1>1, <1>4 DEF Ask, Launching
  <2>4. Clear(c)'
    BY <1>1, <1>4, <2>1, <2>2 DEF Ask, Clear, Asks, AfterNoServer, CallType, Findable
  <2>5. Asks(c)' => \A n \in Servers : Findable(n)' => n = call'[c].read.server
    BY <1>1, <1>4, <2>1, <2>2 DEF Ask, Asks
  <2>6. call'[c].pc # "popen"
    BY <1>1, <2>1 DEF AfterNoServer, CallType
  <2>7. QuietCall(c)
    BY <2>1, <2>3, <2>4, <2>5, <2>6 DEF QuietCall
  <2> QED
    BY <2>1, <2>2, <2>7, OneQuiet
<1>5. CASE Answer(c)
  <2> DEFINE k == call[c].read.server
  <2>1. /\ \A d \in Callers : d # c => call'[d] = call[d]
        /\ call'[c].stage = call[c].stage /\ call'[c].child = call[c].child /\ call'[c].token = call[c].token
        /\ call'[c].read = call[c].read
        /\ call'[c].pc = IF Running(k) THEN "done" ELSE AfterNoServer(call[c].stage)
    BY <1>1, <1>5 DEF Answer, Step, Types, CallType
  <2>2. \A n \in Servers : srv'[n].pc = srv[n].pc /\ srv'[n].token = srv[n].token /\ srv'[n].dir = srv[n].dir
    BY <1>5 DEF Answer, Types, SrvType
  <2>3. Quiet /\ \A n \in Servers : Findable(n)' => Findable(n)
    BY <1>5, <2>2, StillServers DEF Answer
  <2>4. ~(call[c].stage = "wait" /\ Starting(call[c].child))
    BY <1>1, <1>5 DEF Answer, Launching
  <2>5. Clear(c)'
    BY <1>1, <1>5, <2>1, <2>3 DEF Answer, Clear, Asks, AfterNoServer, CallType, Findable, Running
  <2>6. ~Asks(c)' /\ call'[c].pc # "popen"
    BY <1>1, <2>1 DEF AfterNoServer, CallType, Asks
  <2>7. QuietCall(c)
    BY <2>1, <2>4, <2>5, <2>6 DEF QuietCall
  <2> QED
    BY <2>1, <2>3, <2>7, OneQuiet
<1>6. CASE NoAnswer(c)
  <2> DEFINE k == call[c].read.server
  <2>1. /\ \A d \in Callers : d # c => call'[d] = call[d]
        /\ call'[c].stage = call[c].stage /\ call'[c].child = call[c].child /\ call'[c].token = call[c].token
        /\ call'[c].pc = AfterNoServer(call[c].stage)
    BY <1>1, <1>6 DEF NoAnswer, Step, Types, CallType
  <2>2. Quiet /\ \A n \in Servers : Findable(n)' => Findable(n)
    BY <1>6, StillServers DEF NoAnswer
  <2>3. ~(call[c].stage = "wait" /\ Starting(call[c].child))
    BY <1>1, <1>6 DEF NoAnswer, Launching
  <2>4. call[c].pc = "asked" /\ k \in missed'
    BY <1>6 DEF NoAnswer
  <2>5. Clear(c)'
    <3>1. CASE call[c].stage = "locked"
      <4>1. \A n \in Servers : Findable(n)' => n = k
        BY <1>1, <2>2, <2>4, <3>1 DEF Asks
      <4>2. \A n \in Servers : n = k => ~Findable(n)'
        BY <2>4 DEF Findable
      <4> QED
        BY <4>1, <4>2 DEF Clear
    <3>2. CASE call[c].stage # "locked"
      BY <1>1, <2>1, <3>2 DEF Clear, AfterNoServer, CallType
    <3> QED
      BY <3>1, <3>2
  <2>6. ~Asks(c)' /\ call'[c].pc # "popen"
    BY <1>1, <2>1 DEF AfterNoServer, CallType, Asks
  <2>7. QuietCall(c)
    BY <2>1, <2>3, <2>5, <2>6 DEF QuietCall
  <2> QED
    BY <2>1, <2>2, <2>7, OneQuiet
<1>7. CASE TryLock(c)
  <2>1. /\ \A d \in Callers : d # c => call'[d] = call[d]
        /\ call'[c].stage \in {"poll", "locked"} /\ call'[c].pc = "read"
    BY <1>1, <1>7 DEF TryLock, Types, CallType
  <2>2. Quiet
    BY <1>7, StillServers DEF TryLock
  <2>3. QuietCall(c)
    BY <1>1, <1>7, <2>1 DEF TryLock, QuietCall, StageSound, Clear, Asks
  <2> QED
    BY <2>1, <2>2, <2>3, OneQuiet
<1>8. ASSUME call' = [call EXCEPT ![c] = NoCall], ~(call[c].stage = "wait" /\ Starting(call[c].child)),
             UNCHANGED <<record, srv, dir, tokens, missed>>
      PROVE  LaunchInv' /\ LockInv'
  <2>1. call'[c] = NoCall /\ \A d \in Callers : d # c => call'[d] = call[d]
    BY <1>8 DEF Types
  <2>2. Quiet
    BY <1>8, StillServers
  <2>3. QuietCall(c)
    BY <1>8, <2>1 DEF QuietCall, NoCall, Clear, Asks
  <2> QED
    BY <2>1, <2>2, <2>3, OneQuiet
<1>9. CASE LockDeadline(c)
  BY <1>1, <1>8, <1>9 DEF LockDeadline, StageSound
<1>10. CASE CallEnds(c)
  BY <1>1, <1>8, <1>10 DEF CallEnds, Launching
<1>11. CASE KillCall(c)
  BY <1>1, <1>8, <1>11 DEF KillCall, Launching
<1>12. CASE WriteLaunch(c)
  <2>1. /\ holder = c /\ call[c].stage = "locked"
        /\ \A n \in Servers : ~Starting(n) /\ srv[n].pc # "unlink" /\ ~Findable(n)
        /\ \A d \in Callers : d # c => ~Launching(d)
    BY <1>1, <1>12, OneLaunch, Apart DEF WriteLaunch, StageSound, Waits, Clear
  <2>2. /\ \A d \in Callers : d # c => call'[d] = call[d]
        /\ call'[c].pc = "popen" /\ call'[c].stage = "locked" /\ call'[c].token = tokens + 1
        /\ tokens' = tokens + 1 /\ record'.kind = "launch" /\ record'.token = tokens + 1
        /\ srv' = srv /\ dir' = dir /\ missed' = missed
    BY <1>1, <1>12, <2>1 DEF WriteLaunch, LaunchRecord, Types, CallType
  <2>3. \A n \in Servers : srv[n].token < tokens + 1
    BY Bounds DEF RecordInv, Types, SrvType
  <2>4. \A n \in Servers : /\ ~Starting(n)' /\ ~Findable(n)' /\ srv'[n].pc # "unlink" /\ srv'[n] = srv[n]
                           /\ HasToken(n)' <=> HasToken(n)
    BY <2>1, <2>2 DEF Starting, Findable, HasToken
  <2>5. \A d \in Callers : Launching(d)' => d = c
    BY <2>1, <2>2 DEF Launching, Starting
  <2>6. \A d \in Callers : Settled(d)' => d = c
    BY <2>1, <2>2 DEF Launching, Settled, Starting
  <2>7. LaunchInv'
    BY <2>2, <2>3, <2>4, <2>5, <2>6 DEF LaunchInv
  <2>8. LockInv'
    BY <2>4 DEF LockInv, Clear
  <2> QED
    BY <2>7, <2>8
<1>13. CASE LaunchServer(c)
  <2> DEFINE k == Cardinality(Launched) + 1
  <2>1. /\ holder = c /\ call[c].stage = "locked"
        /\ \A n \in Servers : ~Starting(n) /\ srv[n].pc # "unlink"
        /\ \A d \in Callers : d # c => ~Launching(d) /\ ~Asks(d) /\ call[d].pc # "launch"
    BY <1>1, <1>13, OneLaunch, Apart DEF LaunchServer, StageSound, Waits, Launching
  <2>2. k \in Servers /\ srv[k].pc = "never"
    BY <1>13, NextServer DEF LaunchServer
  <2>3. /\ \A d \in Callers : d # c => call'[d] = call[d]
        /\ call'[c].pc = "read" /\ call'[c].stage = "wait" /\ call'[c].child = k /\ call'[c].token = call[c].token
        /\ srv'[k].pc = "boot" /\ srv'[k].token = srv[k].token /\ \A n \in Servers : n # k => srv'[n] = srv[n]
        /\ record' = record /\ tokens' = tokens /\ dir' = dir /\ missed' = missed
    BY <1>1, <1>13, <2>2 DEF LaunchServer, Types, CallType, SrvType
  <2>4. \A n \in Servers : /\ Starting(n)' => n = k
                           /\ Findable(n)' => Findable(n) /\ n # k
                           /\ HasToken(n)' => HasToken(n) /\ n # k
                           /\ srv'[n].pc # "unlink"
    BY <2>1, <2>3 DEF Starting, Findable, HasToken
  <2>5. Launching(c) /\ Settled(c)
    BY <1>13 DEF LaunchServer, Launching, Settled
  <2>6. /\ record.kind = "launch" /\ record.token = call[c].token /\ call[c].token = tokens
        /\ \A n \in Servers : HasToken(n) => srv[n].token < tokens
    BY <2>5 DEF LaunchInv
  <2>7. \A d \in Callers : d # c => call[d].stage # "wait"
    BY <2>1 DEF HoldInv, CallHolds
  <2>8. \A d \in Callers : Launching(d)' \/ Settled(d)' => d = c
    BY <2>1, <2>3, <2>7 DEF Launching, Settled
  <2>9. \A n \in Servers : Starting(n)' => \E d \in Callers : Waits(d, n)'
    BY <2>3, <2>4 DEF Waits
  <2>10. (\A m, n \in Servers : m # n /\ HasToken(m) /\ HasToken(n) => srv[m].token # srv[n].token)'
    BY <2>3, <2>4 DEF LaunchInv
  <2>11. LaunchInv'
    <3>1. \A d \in Callers : Launching(d)' => (/\ record.kind = "launch" /\ record.token = call[d].token
                                              /\ call[d].pc \in {"popen", "read", "child"})'
      BY <2>3, <2>6, <2>8
    <3>2. \A d \in Callers :
            Settled(d)' => (call[d].token = tokens /\ \A n \in Servers : HasToken(n) => srv[n].token < tokens)'
      BY <2>3, <2>4, <2>6, <2>8
    <3> QED
      BY <2>9, <2>10, <3>1, <3>2 DEF LaunchInv
  <2>12. LockInv'
    <3>1. \A n \in Servers : ~Findable(n)
      BY <1>1, <2>6 DEF OnRecord, LiveRecord
    <3> QED
      BY <2>4, <3>1 DEF LockInv, Clear
  <2> QED
    BY <2>11, <2>12
<1>14. CASE LookAtChild(c)
  <2> DEFINE k == call[c].child
  <2>1. call[c].stage = "wait" /\ k \in Servers /\ srv[k].pc # "never"
    BY <1>1, <1>14 DEF LookAtChild, StageSound
  <2>2. CASE Running(k) /\ Step(c, "read") /\ UNCHANGED <<srv, holder>>
    <3>1. /\ \A d \in Callers : d # c => call'[d] = call[d]
          /\ call'[c].stage = call[c].stage /\ call'[c].child = call[c].child /\ call'[c].token = call[c].token
          /\ call'[c].pc = "read"
      BY <1>1, <2>2 DEF Step, Types, CallType
    <3>2. Quiet
      BY <1>14, <2>2, StillServers DEF LookAtChild
    <3>3. QuietCall(c)
      BY <2>1, <3>1 DEF QuietCall, Clear, Asks
    <3> QED
      BY <3>1, <3>2, <3>3, OneQuiet
  <2>3. CASE /\ srv' = [srv EXCEPT ![k] = Dead] /\ call' = [call EXCEPT ![c] = NoCall]
             /\ holder' = ReleasedBy(c)
    <3>1. /\ srv'[k] = Dead /\ \A n \in Servers : n # k => srv'[n] = srv[n]
          /\ \A d \in Callers : \/ call'[d] = call[d]
                                \/ call'[d] = NoCall /\ (call[d].stage = "wait" => call[d].child = k)
      BY <2>1, <2>3 DEF Types
    <3>2. record' = record /\ tokens' = tokens /\ dir' = dir /\ missed' = missed
      BY <1>14 DEF LookAtChild
    <3> QED
      BY <2>1, <3>1, <3>2, EndStep
  <2> QED
    BY <1>14, <2>2, <2>3 DEF LookAtChild
<1> QED
  BY <1>2, <1>3, <1>4, <1>5, <1>6, <1>7, <1>9, <1>10, <1>11, <1>12, <1>13, <1>14 DEF CallStep

\* The servers step quietly, the commands stay.
LEMMA ServersQuiet ==
  ASSUME OrderInv, OrderInv', LaunchInv, LockInv, Quiet, call' = call
  PROVE  LaunchInv' /\ LockInv'
BY QuietSame, QuietStep

\* The steps of a server keep both.
LEMMA ServersLaunch ==
  ASSUME Types, OrderInv, RecordInv, HoldInv, LaunchInv, LockInv, OrderInv', ~cut',
         NEW m \in Servers, ServeStep(m)
  PROVE  LaunchInv' /\ LockInv'
<1> USE DEF Unexceptional
<1>1. /\ srv[m] \in SrvType /\ record \in RecordType /\ \A d \in Callers : StageSound(d)
      /\ \A n \in Servers : Findable(n) => OnRecord(n)
      /\ \A n \in Servers : srv[n].pc = "unlink" => record.token = srv[n].token
  BY DEF Types, OrderInv, LockInv
<1>2. \A d \in Callers : call[d].pc = "popen" => call[d].stage # "wait"
  BY <1>1 DEF StageSound
<1>3. ASSUME ServerEnds(m), UNCHANGED <<record, call, dir, tokens, missed>> PROVE LaunchInv' /\ LockInv'
  <2>1. srv'[m] = Dead /\ \A n \in Servers : n # m => srv'[n] = srv[n]
    BY <1>3 DEF ServerEnds, Types
  <2> QED
    BY <1>3, <2>1, EndStep
<1>4. ASSUME srv'[m].token = srv[m].token, srv'[m].dir = srv[m].dir, \A n \in Servers : n # m => srv'[n] = srv[n],
             UNCHANGED <<record, call, dir, tokens, missed>>,
             Starting(m)' <=> Starting(m), HasToken(m)' <=> HasToken(m),
             srv[m].pc # "boot", srv'[m].pc \notin {"boot", "serving"},
             srv'[m].pc = "unlink" => record.token = srv[m].token
      PROVE  LaunchInv' /\ LockInv'
  <2>1. QuietServer(m)
    BY <1>4 DEF QuietServer, Findable
  <2>2. ASSUME NEW n \in Servers, n # m PROVE QuietServer(n)
    BY <1>1, <1>4, <2>2 DEF QuietServer, Findable, Starting, HasToken
  <2> QED
    BY <1>4, <2>1, <2>2, ServersQuiet DEF Quiet
<1>5. CASE Boot(m)
  <2>1. CASE record.kind /= "none" /\ record.dir = dir
    <3>1. /\ srv'[m].pc = "open" /\ srv'[m].token = record.token /\ srv'[m].dir = dir
          /\ \A n \in Servers : n # m => srv'[n] = srv[n]
      BY <1>5, <2>1 DEF Boot, Types, SrvType
    <3>2. UNCHANGED <<record, call, dir, tokens, missed>> /\ srv[m].pc = "boot"
      BY <1>5 DEF Boot
    <3>3. PICK c \in Callers : holder = c /\ Waits(c, m)
      BY <3>2, OneLaunch DEF Starting
    <3>4. Launching(c) /\ Settled(c)
      BY <3>2, <3>3 DEF Launching, Settled, Waits, Starting
    <3>5. /\ record.kind = "launch" /\ record.token = tokens
          /\ \A n \in Servers : HasToken(n) => srv[n].token < tokens
      BY <3>4 DEF LaunchInv
    <3>6. \A n \in Servers : /\ Starting(n)' <=> Starting(n)
                             /\ HasToken(n)' => HasToken(n) \/ n = m
                             /\ Findable(n)' => n # m /\ Findable(n)
                             /\ srv'[n].pc = "unlink" => n # m /\ srv[n].pc = "unlink"
      BY <3>1, <3>2 DEF Starting, HasToken, Findable
    <3>7. \A d \in Callers : call[d].stage = "wait" => call[d].child \in Servers
      BY <1>1 DEF StageSound
    <3>8. \A d \in Callers : ~Settled(d)'
      <4>1. \A d \in Callers : Launching(d) => d = c
        BY <3>3, OneLaunch
      <4>2. \A d \in Callers : Settled(d)' => Launching(d)
        BY <3>2, <3>6, <3>7 DEF Settled, Launching, Starting
      <4>3. ~Settled(c)'
        BY <1>2, <3>1, <3>2, <3>3 DEF Settled, Waits
      <4> QED
        BY <4>1, <4>2, <4>3
    <3>9. \A n \in Servers : Starting(n)' => \E d \in Callers : Waits(d, n)'
      BY <3>2, <3>6 DEF LaunchInv, Waits
    <3>10. \A d \in Callers : Launching(d)' => Launching(d)
      BY <3>2, <3>6, <3>7 DEF Launching
    <3>11. \A d \in Callers : Launching(d)' => (/\ record.kind = "launch" /\ record.token = call[d].token
                                               /\ call[d].pc \in {"popen", "read", "child"})'
      BY <3>2, <3>10 DEF LaunchInv
    <3>12. (\A p, n \in Servers : p # n /\ HasToken(p) /\ HasToken(n) => srv[p].token # srv[n].token)'
      <4>1. \A n \in Servers : n # m /\ HasToken(n)' => srv'[n].token # tokens
        BY <3>1, <3>5, <3>6, Bounds DEF Types, SrvType
      <4> QED
        BY <3>1, <3>5, <3>6, <4>1 DEF LaunchInv
    <3>13. LaunchInv'
      BY <3>8, <3>9, <3>11, <3>12 DEF LaunchInv
    <3>14. LockInv'
      <4>1. \A n \in Servers : Findable(n)' => OnRecord(n)'
        BY <1>1, <3>1, <3>2, <3>6 DEF OnRecord
      <4>2. \A d \in Callers : Clear(d)' /\ (Asks(d)' => \A n \in Servers : Findable(n)' => n = call'[d].read.server)
        BY <3>2, <3>6 DEF LockInv, Clear, Asks
      <4>3. \A n \in Servers : srv'[n].pc = "unlink" => record'.token = srv'[n].token
        BY <1>1, <3>1, <3>2, <3>6
      <4> QED
        BY <4>1, <4>2, <4>3 DEF LockInv
    <3> QED
      BY <3>13, <3>14
  <2> QED
    BY <1>3, <1>5, <2>1 DEF Boot
<1>6. CASE OpenDirectory(m)
  <2>1. CASE ServerStep(m, "publish")
    <3>1. /\ srv[m].pc = "open" /\ srv'[m] = [srv[m] EXCEPT !.pc = "publish"]
          /\ \A n \in Servers : n # m => srv'[n] = srv[n]
      BY <1>6, <2>1 DEF OpenDirectory, ServerStep, Types
    <3> QED
      BY <1>1, <1>4, <1>6, <3>1 DEF OpenDirectory, SrvType, Starting, HasToken
  <2> QED
    BY <1>3, <1>6, <2>1 DEF OpenDirectory
<1>7. CASE Publish(m)
  <2>1. /\ record' = LiveRecord(m, srv[m].token, srv[m].dir)
        /\ srv'[m].pc = "serving" /\ srv'[m].token = srv[m].token /\ srv'[m].dir = srv[m].dir
        /\ \A n \in Servers : n # m => srv'[n] = srv[n]
        /\ UNCHANGED <<call, dir, tokens, missed>> /\ srv[m].pc = "publish"
    BY <1>1, <1>7 DEF Publish, Types, SrvType
  <2>2. PICK c \in Callers : holder = c /\ Waits(c, m)
    BY <2>1, OneLaunch DEF Starting
  <2>3. record.kind = "launch"
    BY <2>1, <2>2 DEF LaunchInv, Launching, Waits, Starting
  <2>4. \A n \in Servers : /\ Starting(n)' => n # m /\ Starting(n)
                           /\ HasToken(n)' <=> HasToken(n)
                           /\ srv'[n].pc = "unlink" => srv[n].pc = "unlink"
                           /\ srv'[n].token = srv[n].token
    BY <2>1 DEF Starting, HasToken
  <2>5. \A n \in Servers : Findable(n)' => n = m
    BY <1>1, <2>1, <2>3 DEF Findable, OnRecord, LiveRecord
  <2>6. \A d \in Callers : ~Launching(d)' /\ ~Settled(d)'
    <3>1. \A d \in Callers : call[d].stage = "wait" => call[d].child \in Servers
      BY <1>1 DEF StageSound
    <3>2. \A d \in Callers : Launching(d)' \/ Settled(d)' => Launching(d)
      BY <2>1, <2>4, <3>1 DEF Launching, Settled, Starting
    <3>3. ~Launching(c)' /\ ~Settled(c)'
      BY <1>2, <2>1, <2>2 DEF Launching, Settled, Waits, Starting
    <3> QED
      BY <2>2, <3>2, <3>3, OneLaunch
  <2>7. LaunchInv'
    <3>1. \A n \in Servers : Starting(n)' => \E d \in Callers : Waits(d, n)'
      BY <2>1, <2>4 DEF LaunchInv, Waits
    <3>2. (\A p, n \in Servers : p # n /\ HasToken(p) /\ HasToken(n) => srv[p].token # srv[n].token)'
      BY <2>4 DEF LaunchInv
    <3> QED
      BY <2>6, <3>1, <3>2 DEF LaunchInv
  <2>8. LockInv'
    <3>1. \A n \in Servers : Findable(n)' => OnRecord(n)'
      BY <2>1, <2>5 DEF OnRecord
    <3>2. \A d \in Callers : ~Asks(d) /\ call[d].pc # "launch"
      <4>1. call[c].stage = "wait"
        BY <2>2 DEF Waits
      <4>2. \A d \in Callers : Asks(d) \/ call[d].pc = "launch" => d = c /\ call[d].stage = "locked"
        BY <1>1, <2>2, OneLaunch DEF Asks, StageSound
      <4> QED
        BY <4>1, <4>2
    <3>3. \A n \in Servers : srv'[n].pc # "unlink"
      BY <2>2, <2>4, OneLaunch, Apart
    <3> QED
      BY <2>1, <3>1, <3>2, <3>3 DEF LockInv, Clear, Asks
  <2> QED
    BY <2>7, <2>8
<1>8. CASE IdleLimit(m)
  <2>1. /\ srv[m].pc = "serving" /\ srv'[m].pc = "closed"
        /\ srv'[m].token = srv[m].token /\ srv'[m].dir = srv[m].dir
        /\ \A n \in Servers : n # m => srv'[n] = srv[n]
    BY <1>1, <1>8 DEF IdleLimit, Types, SrvType
  <2> QED
    BY <1>4, <1>8, <2>1 DEF IdleLimit, Starting, HasToken
<1>9. CASE CleanupLock(m)
  <2>1. CASE ServerStep(m, "compare")
    <3>1. /\ srv[m].pc = "closed" /\ srv'[m] = [srv[m] EXCEPT !.pc = "compare"]
          /\ \A n \in Servers : n # m => srv'[n] = srv[n]
      BY <1>9, <2>1 DEF CleanupLock, ServerStep, Types
    <3> QED
      BY <1>1, <1>4, <1>9, <3>1 DEF CleanupLock, SrvType, Starting, HasToken
  <2> QED
    BY <1>3, <1>9, <2>1 DEF CleanupLock
<1>10. CASE Compare(m)
  <2>1. CASE record.token = srv[m].token /\ ServerStep(m, "unlink")
    <3>1. /\ srv[m].pc = "compare" /\ srv'[m] = [srv[m] EXCEPT !.pc = "unlink"]
          /\ \A n \in Servers : n # m => srv'[n] = srv[n]
      BY <1>10, <2>1 DEF Compare, ServerStep, Types
    <3> QED
      BY <1>1, <1>4, <1>10, <2>1, <3>1 DEF Compare, SrvType, Starting, HasToken
  <2> QED
    BY <1>3, <1>10, <2>1 DEF Compare
<1>11. CASE Unlink(m)
  <2>1. /\ record' = NoRecord /\ srv[m].pc = "unlink" /\ srv'[m] = Dead
        /\ \A n \in Servers : n # m => srv'[n] = srv[n]
        /\ UNCHANGED <<call, dir, tokens, missed>>
    BY <1>11 DEF Unlink, ServerEnds, Types
  <2>2. holder = m /\ (\A n \in Servers : ~Starting(n)) /\ \A d \in Callers : ~Launching(d)
    BY <2>1, OneLaunch, Apart
  <2>3. \A n \in Servers : /\ ~Starting(n)'
                           /\ HasToken(n)' => n # m /\ HasToken(n)
                           /\ srv'[n].pc = "unlink" => n # m /\ srv[n].pc = "unlink"
                           /\ n # m => srv'[n] = srv[n]
    BY <2>1, <2>2 DEF Starting, HasToken, Dead
  <2>4. \A n \in Servers : ~Findable(n)'
    <3>1. ASSUME NEW n \in Servers, Findable(n)' PROVE n # m /\ Findable(n)
      BY <2>1, <3>1 DEF Findable, Dead
    <3>2. ASSUME NEW n \in Servers, n # m, Findable(n) PROVE FALSE
      <4>1. record.token = srv[n].token /\ record.token = srv[m].token
        BY <1>1, <2>1, <3>2 DEF OnRecord, LiveRecord
      <4>2. HasToken(n) /\ HasToken(m)
        BY <2>1, <3>2 DEF HasToken, Findable
      <4> QED
        BY <3>2, <4>1, <4>2 DEF LaunchInv
    <3> QED
      BY <3>1, <3>2
  <2>5. \A d \in Callers : ~Launching(d)' /\ ~Settled(d)'
    <3>1. \A d \in Callers : call[d].stage = "wait" => call[d].child \in Servers
      BY <1>1 DEF StageSound
    <3> QED
      BY <2>1, <2>2, <2>3, <3>1 DEF Launching, Settled, Starting
  <2>6. LaunchInv'
    <3>1. (\A p, n \in Servers : p # n /\ HasToken(p) /\ HasToken(n) => srv[p].token # srv[n].token)'
      BY <2>3 DEF LaunchInv
    <3> QED
      BY <2>3, <2>5, <3>1 DEF LaunchInv
  <2>7. LockInv'
    <3>1. \A n \in Servers : srv'[n].pc # "unlink"
      BY <2>2, <2>3, OneLaunch
    <3> QED
      BY <2>4, <3>1 DEF LockInv, Clear
  <2> QED
    BY <2>6, <2>7
<1>12. CASE KillServer(m)
  BY <1>3, <1>12 DEF KillServer
<1> QED
  BY <1>5, <1>6, <1>7, <1>8, <1>9, <1>10, <1>11, <1>12 DEF ServeStep

\* Every step keeps both.
LEMMA LaunchKept ==
  ASSUME Types, OrderInv, RecordInv, HoldInv, LaunchInv, LockInv, OrderInv', ~cut', ServerNext
  PROVE  LaunchInv' /\ LockInv'
<1>1. ASSUME NEW c \in Callers, CallStep(c) PROVE LaunchInv' /\ LockInv'
  BY <1>1, CallsLaunch
<1>2. ASSUME NEW n \in Servers, ServeStep(n) PROVE LaunchInv' /\ LockInv'
  BY <1>2, ServersLaunch
<1>3. CASE Hours
  <2>1. \A n \in Servers : srv'[n].pc = srv[n].pc /\ srv'[n].token = srv[n].token /\ srv'[n].dir = srv[n].dir
    BY <1>3 DEF Hours, Types, SrvType
  <2> QED
    BY <1>3, <2>1, StillServers, ServersQuiet DEF Hours, Unexceptional
<1>4. CASE NewDirectory
  <2>1. \A n \in Servers : ~Findable(n)'
    BY <1>4, Bounds DEF NewDirectory, Findable, RecordInv, Types, SrvType
  <2>2. Quiet
    BY <1>4, <2>1 DEF NewDirectory, Unexceptional, Quiet, QuietServer, Starting, HasToken, LockInv
  <2> QED
    BY <1>4, <2>2, ServersQuiet DEF NewDirectory
<1> QED
  BY <1>1, <1>2, <1>3, <1>4 DEF ServerNext

-----------------------------------------------------------------------------
(* The theorem *)

\* The invariant holds at first,
LEMMA InvInit == ServerInit => ServerInv
<1> SUFFICES ASSUME ServerInit PROVE ServerInv
  OBVIOUS
<1> USE DEF ServerInit
<1>1. /\ \A c \in Callers : call[c] = NoCall
      /\ \A n \in Servers : srv[n] = NoSrv
      /\ record = NoRecord /\ tokens = 0 /\ dir = 1
  OBVIOUS
<1>2. Types
  <2>1. call \in [Callers -> CallType] /\ srv \in [Servers -> SrvType] /\ record \in RecordType
    BY FirstTypes
  <2>2. dir \in 1 .. MaxDirs /\ tokens \in 0 .. MaxServers /\ mishaps \in 0 .. MaxFaults
    BY <1>1, ServerAssumption
  <2>3. missed \subseteq Servers /\ cut \in BOOLEAN
    OBVIOUS
  <2> QED
    BY <2>1, <2>2, <2>3 DEF Types
<1>3. HoldInv
  BY <1>1 DEF HoldInv, CallHolds, ServerHolds, NoCall, NoSrv, UnderLock
<1>4. OrderInv
  <2>1. \A c \in Callers : StageSound(c)
    BY <1>1 DEF StageSound, NoCall
  <2>2. 0 \in 0 .. MaxServers /\ \A n \in Servers : srv[n].pc # "never" <=> n <= 0
    BY <1>1, Bounds DEF NoSrv, Servers
  <2> QED
    BY <2>1, <2>2 DEF OrderInv
<1>5. RecordInv
  <2>1. \A c \in Callers : ReadSound(c)
    BY <1>1 DEF ReadSound, NoCall
  <2>2. /\ record.kind # "live" /\ record.token <= tokens
        /\ \A n \in Servers : srv[n].token <= tokens /\ srv[n].dir <= dir
    BY <1>1 DEF NoRecord, NoSrv
  <2> QED
    BY <2>1, <2>2 DEF RecordInv
<1>6. LaunchInv
  BY <1>1 DEF LaunchInv, Starting, HasToken, Launching, Settled, NoCall, NoSrv
<1>7. LockInv
  BY <1>1 DEF LockInv, Findable, Clear, Asks, NoCall, NoSrv
<1> QED
  BY <1>2, <1>3, <1>4, <1>5, <1>6, <1>7, TypesAndHolds DEF ServerInv

\* every step keeps it,
LEMMA InvKept == ServerInv /\ [ServerNext]_serverVars => ServerInv'
<1>1. CASE ServerInv /\ ServerNext
  <2>1. Types /\ HoldInv /\ OrderInv /\ RecordInv
    BY <1>1, TypesAndHolds DEF ServerInv
  <2>2. \A c \in Callers : call[c].pc \in {"ask", "asked", "done"} => call[c].read.server \in Servers
    BY <2>1 DEF RecordInv, ReadSound, Names
  <2>3. Types'
    BY <1>1, <2>1, <2>2, TypesKept
  <2>4. OrderInv'
    BY <1>1, <2>1, <2>2, OrderKept
  <2>5. RecordInv'
    BY <1>1, <2>1, <2>3, <2>4, RecordKept
  <2>6. HoldInv'
    BY <1>1, <2>1, HoldKept
  <2>7. ~cut' => ~cut
    BY <1>1 DEF ServerNext, CallStep, ServeStep, CallBegins, ReadState, Ask, Answer, NoAnswer, TryLock, LockDeadline,
                WriteLaunch, LaunchServer, LookAtChild, CallEnds, KillCall, Boot, OpenDirectory, Publish, IdleLimit,
                CleanupLock, Compare, Unlink, KillServer, Hours, NewDirectory, Unexceptional
  <2>8. ~cut' => LaunchInv' /\ LockInv'
    BY <1>1, <2>1, <2>4, <2>7, LaunchKept DEF ServerInv
  <2>9. ServerTypeOK'
    BY <2>3, <2>6, TypesAndHolds, PTL
  <2> QED
    BY <2>4, <2>5, <2>8, <2>9 DEF ServerInv
<1>2. CASE ServerInv /\ UNCHANGED serverVars
  <2>1. /\ record' = record /\ holder' = holder /\ call' = call /\ srv' = srv /\ dir' = dir /\ tokens' = tokens
        /\ mishaps' = mishaps /\ missed' = missed /\ cut' = cut
    BY <1>2 DEF serverVars
  <2>2. ServerTypeOK'
    BY <1>2, <2>1 DEF ServerInv, ServerTypeOK
  <2>3. OrderInv' /\ RecordInv'
    BY <1>2, <2>1 DEF ServerInv, OrderInv, StageSound, RecordInv, ReadSound, Names, Published
  <2>4. ~cut' => LaunchInv' /\ LockInv'
    BY <1>2, <2>1 DEF ServerInv, LaunchInv, LockInv, Starting, HasToken, Findable, Settled, Launching, Waits, Clear,
                      Asks, OnRecord
  <2> QED
    BY <2>2, <2>3, <2>4 DEF ServerInv
<1> QED
  BY <1>1, <1>2

\* and it implies the property.
LEMMA InvSuffices == ServerInv => ReportsAreServed
<1> SUFFICES ASSUME ServerInv PROVE ReportsAreServed
  OBVIOUS
<1>1. ReturnedUrlServes
  BY DEF ServerInv, RecordInv, ReadSound, Names, ReturnedUrlServes
<1>2. ServingIsOnRecord
  BY DEF ServerInv, LockInv, Findable, OnRecord, ServingIsOnRecord
<1> QED
  BY <1>1, <1>2 DEF ServerInv, ReportsAreServed

\* A report that was asked for is served where the caller is told, and a server
\* that serves is on record, for any number of commands, servers and directories
\* (start_or_reuse_report_server, cmd_serve_report, cleanup_report_server_state).
THEOREM ReportsStayServed == ServerSpec => []ReportsAreServed
<1> QED
  BY InvInit, InvKept, InvSuffices, PTL DEF ServerSpec

-----------------------------------------------------------------------------
(* Resolving resources *)

\* The resources of the service: numbered as they were made, and of one name at
\* most one in a project, where the service sees to that.
Thing == [kind: ResourceKinds, id: Nat, wanted: BOOLEAN, project: Nat]
StockInv ==
  /\ IsFiniteSet(service) /\ service \subseteq Thing /\ listed \subseteq service
  /\ \A x \in service : 1 <= x.id /\ x.id <= Cardinality(service)
  /\ \A x, y \in service : x.id = y.id => x = y
  /\ \A x \in service : x.kind = "project" => x.project = None_
  /\ unique => \A x, y \in service :
                 x.wanted /\ y.wanted /\ x.kind = y.kind /\ x.project = y.project => x = y

\* The resource a run has settled for: the one that was selected, or one with
\* the name, and a stream of the project it settled for.
SettledFor(e, k) ==
  \E x \in service :
    /\ x.kind = k /\ x.id = e.id[k]
    /\ k = "stream" => x.project = e.id["project"]
    /\ IF e.sel[k] = None_ THEN x.wanted ELSE e.outcome[k] = "reused" /\ x.id = e.sel[k]

\* What a run knows while it looks up and creates: what it has seen is listed,
\* and what was listed when it began is among that or on pages yet to come.
ScopeOf(e) == IF e.kind = "project" THEN None_ ELSE e.id["project"]
Collects(e) ==
  /\ 0 \in e.seen /\ e.got \subseteq listed /\ \A x \in e.got : x.kind = e.kind
  /\ e.as = "created" => e.created # None_
  /\ e.tries > 0 \/ e.pc = "create" => e.sel[e.kind] = None_
Awaits(e) ==
  \A x \in e.before :
    /\ x \in listed /\ x.wanted /\ x.kind = e.kind /\ x.project = ScopeOf(e)
    /\ x \in e.got \/ e.kind = "project" \/ PageOf(x) >= e.token
Outcomes == {"none", "reused", "created", "reused-after-conflict", "reused-after-uncertain-create"}
Codes == {"none", "invalid_selectors", "id_not_found", "name_not_found_reuse_only", "create_failed",
          "create_unresolved", "create_identity_mismatch", "lookup_failed", "ambiguous_name", "wrong_project"}
RunType ==
  [pc: {"start", "lookup", "create", "resolved", "failed"}, sel: [ResourceKinds -> Nat], reuseOnly: BOOLEAN,
   kind: ResourceKinds, token: Nat, seen: SUBSET Int, got: SUBSET Thing, before: SUBSET Thing,
   tries: Nat, created: Nat, raised: BOOLEAN, outcome: [ResourceKinds -> Outcomes], as: Outcomes,
   id: [ResourceKinds -> Nat], error: Codes]
RunSound(e) ==
  /\ e.pc \in {"lookup", "create"} => Collects(e) /\ (e.kind = "stream" => SettledFor(e, "project"))
  /\ e.pc = "resolved" => SettledFor(e, "project") /\ SettledFor(e, "stream")
  /\ e.pc = "lookup" /\ e.tries = 0 => Awaits(e)
  /\ e.pc = "create" => e.before = {}

\* What a run says, or is about to say, that it created.
Claims(e) ==
  {e.id[k] : k \in {l \in ResourceKinds : e.outcome[l] = "created"}}
    \cup (IF e.as = "created" THEN {e.created} ELSE {})
ClaimsInv ==
  /\ \A r \in Resolvers : \A n \in Claims(resolver[r]) : n <= Cardinality(service)
  /\ \A r, s \in Resolvers : r # s => Claims(resolver[r]) \cap Claims(resolver[s]) = {}

ResolveInv ==
  /\ StockInv /\ resolver \in [Resolvers -> RunType] /\ ClaimsInv
  /\ \A r \in Resolvers : RunSound(resolver[r])

\* The constants, as the proofs use them.
LEMMA ResolveBasics ==
  /\ PageSize \in Nat /\ PageSize > 0 /\ MaxIds \in Nat
  /\ \A k : k \in ResourceKinds <=> k \in {"project", "stream"}
  /\ None_ = 0 /\ EndOfList = -1
BY ResolverAssumption DEF ResourceKinds, None_, EndOfList

\* Pages are numbered from zero.
LEMMA Paged == ASSUME NEW x, x.id \in Nat, 1 <= x.id PROVE PageOf(x) \in Nat
<1>1. ASSUME NEW n \in Nat, NEW d \in Nat, d > 0 PROVE n \div d \in Nat
  BY <1>1
<1> QED
  BY <1>1, ResolveBasics DEF PageOf

\* A run at its start.
LEMMA NewRunTyped ==
  /\ NewRun \in RunType /\ NewRun.before = {} /\ NewRun.as = "none" /\ NewRun.kind = "project"
  /\ NewRun.tries = 0 /\ NewRun.created = 0 /\ \A k \in ResourceKinds : NewRun.outcome[k] = "none"
<1>1. /\ [k \in ResourceKinds |-> None_] \in [ResourceKinds -> Nat]
      /\ [k \in ResourceKinds |-> "none"] \in [ResourceKinds -> Outcomes]
  BY DEF None_, Outcomes
<1>2. /\ "project" \in ResourceKinds /\ 0 \in Nat /\ None_ \in Nat /\ {0} \in SUBSET Int /\ {} \in SUBSET Thing
      /\ "none" \in Codes /\ "none" \in Outcomes
  BY ResolveBasics DEF None_, Outcomes, Codes
<1> DEFINE sel == [k \in ResourceKinds |-> None_]
           outcome == [k \in ResourceKinds |-> "none"]
<1>3. NewRun = [pc |-> "start", sel |-> sel, reuseOnly |-> FALSE, kind |-> "project", token |-> 0,
                seen |-> {0}, got |-> {}, before |-> {}, tries |-> 0, created |-> None_, raised |-> FALSE,
                outcome |-> outcome, as |-> "none", id |-> sel, error |-> "none"]
  BY DEF NewRun
<1>4. \A k \in ResourceKinds : outcome[k] = "none"
  OBVIOUS
<1> HIDE DEF sel, outcome
<1> QED
  BY <1>1, <1>2, <1>3, <1>4 DEF RunType, sel, outcome, None_

\* Values that fields are set back to.
LEMMA Bounded == 0 \in Nat /\ 1 \in Nat /\ {0} \in SUBSET Int /\ {} \in SUBSET Thing
OBVIOUS

\* What a run knows is not disturbed by what others create.
LEMMA RunStays ==
  ASSUME NEW e \in RunType, RunSound(e), service \subseteq service', listed \subseteq listed'
  PROVE  RunSound(e)'
<1>1. \A k : SettledFor(e, k) => SettledFor(e, k)'
  BY DEF SettledFor
<1>2. (Collects(e) => Collects(e)') /\ (Awaits(e) => Awaits(e)')
  BY DEF Collects, Awaits, ScopeOf, PageOf
<1> QED
  BY <1>1, <1>2 DEF RunSound

\* A step of one run that changes nothing of the service.
LEMMA RunMoves ==
  ASSUME ResolveInv, NEW r \in Resolvers, NEW e \in RunType, Becomes(r, e),
         UNCHANGED <<service, listed, unique>>, RunSound(e), Claims(e) \subseteq Claims(resolver[r])
  PROVE  ResolveInv'
<1>1. resolver' = [resolver EXCEPT ![r] = e] /\ resolver \in [Resolvers -> RunType]
  BY DEF Becomes, ResolveInv
<1>2. /\ resolver' \in [Resolvers -> RunType] /\ resolver'[r] = e
      /\ \A s \in Resolvers : s # r => resolver'[s] = resolver[s]
  BY <1>1
<1>3. \A s \in Resolvers : Claims(resolver'[s]) \subseteq Claims(resolver[s])
  BY <1>2
<1>4. StockInv'
  BY DEF ResolveInv, StockInv
<1>5. ASSUME NEW s \in Resolvers PROVE RunSound(resolver[s])'
  <2>1. PICK x \in RunType : x = resolver'[s]
    BY <1>2
  <2>2. RunSound(x)
    BY <1>2, <2>1 DEF ResolveInv
  <2>3. RunSound(x)'
    BY <2>2, RunStays
  <2> QED
    BY <2>1, <2>3
<1>6. ClaimsInv'
  <2>1. \A s \in Resolvers : Claims(resolver[s])' = Claims(resolver'[s])
    BY DEF Claims
  <2> QED
    BY <1>3, <2>1 DEF ResolveInv, ClaimsInv
<1> QED
  BY <1>2, <1>4, <1>5, <1>6 DEF ResolveInv

\* How a run ends.
LEMMA Ended ==
  ASSUME NEW e \in RunType, NEW pc \in {"resolved", "failed"}
  PROVE  /\ EndedRun(e, pc) \in RunType /\ EndedRun(e, pc).pc = pc
         /\ EndedRun(e, pc).sel = e.sel /\ EndedRun(e, pc).id = e.id /\ EndedRun(e, pc).outcome = e.outcome
         /\ EndedRun(e, pc).as = "none"
BY NewRunTyped DEF EndedRun, RunType

\* A run that fails.
LEMMA FailMoves ==
  ASSUME ResolveInv, NEW r \in Resolvers, NEW code \in Codes, Fail(r, code),
         UNCHANGED <<service, listed, unique>>
  PROVE  ResolveInv'
<1> DEFINE e == EndedRun(resolver[r], "failed")
           x == [e EXCEPT !.error = code]
<1>1. resolver[r] \in RunType
  BY DEF ResolveInv
<1>2. /\ e \in RunType /\ e.pc = "failed" /\ e.id = resolver[r].id /\ e.outcome = resolver[r].outcome
      /\ e.as = "none"
  BY <1>1, Ended
<1> HIDE DEF e
<1>3. /\ x \in RunType /\ x.pc = "failed" /\ x.id = resolver[r].id /\ x.outcome = resolver[r].outcome
      /\ x.as = "none"
  BY <1>2 DEF RunType
<1>4. Becomes(r, x)
  BY DEF Fail, x, e
<1> HIDE DEF x
<1>5. RunSound(x)
  BY <1>3 DEF RunSound
<1>6. Claims(x) \subseteq Claims(resolver[r])
  BY <1>3 DEF Claims
<1> QED
  BY <1>3, <1>4, <1>5, <1>6, RunMoves

\* A lookup that fails.
LEMMA LookupFailedMoves ==
  ASSUME ResolveInv, NEW r \in Resolvers, NEW code \in Codes, LookupFailed(r, code),
         UNCHANGED <<service, listed, unique>>
  PROVE  ResolveInv'
<1>1. PICK c \in Codes : Fail(r, c)
  BY DEF LookupFailed, Codes
<1> QED
  BY <1>1, FailMoves

\* A run that is about to look up.
LEMMA Looks ==
  ASSUME NEW e \in RunType, NEW tries \in Nat, NEW before \in SUBSET Thing
  PROVE  LET x == Looking(e, tries, before)
         IN /\ x \in RunType /\ x.pc = "lookup" /\ x.token = 0 /\ x.seen = {0} /\ x.got = {}
            /\ x.tries = tries /\ x.before = before /\ x.sel = e.sel /\ x.kind = e.kind /\ x.as = e.as
            /\ x.created = e.created /\ x.outcome = e.outcome /\ x.id = e.id
BY Bounded DEF Looking, RunType

\* A step that leads to a lookup.
LEMMA LookMoves ==
  ASSUME ResolveInv, NEW r \in Resolvers, NEW e \in RunType, NEW tries \in Nat, NEW before \in SUBSET Thing,
         Becomes(r, Looking(e, tries, before)), UNCHANGED <<service, listed, unique>>,
         e.kind = "stream" => SettledFor(e, "project"), e.as = "created" => e.created # None_,
         tries > 0 => e.sel[e.kind] = None_,
         tries = 0 => \A x \in before : x \in listed /\ x.wanted /\ x.kind = e.kind /\ x.project = ScopeOf(e),
         Claims(e) \subseteq Claims(resolver[r])
  PROVE  ResolveInv'
<1> DEFINE x == Looking(e, tries, before)
<1>1. /\ x \in RunType /\ x.pc = "lookup" /\ x.token = 0 /\ x.seen = {0} /\ x.got = {}
      /\ x.tries = tries /\ x.before = before /\ x.sel = e.sel /\ x.kind = e.kind /\ x.as = e.as
      /\ x.created = e.created /\ x.outcome = e.outcome /\ x.id = e.id
  BY Looks
<1>2. Becomes(r, x)
  OBVIOUS
<1> HIDE DEF x
<1>3. Collects(x)
  BY <1>1 DEF Collects
<1>4. SettledFor(e, "project") => SettledFor(x, "project")
  BY <1>1 DEF SettledFor
<1>5. tries = 0 => Awaits(x)
  <2>1. ASSUME tries = 0, NEW y \in before PROVE PageOf(y) \in Nat
    <3>1. y.id \in Nat /\ 1 <= y.id
      BY <2>1 DEF ResolveInv, StockInv, Thing
    <3> QED
      BY <3>1, Paged
  <2> QED
    BY <1>1, <2>1 DEF Awaits, ScopeOf
<1>6. RunSound(x)
  BY <1>1, <1>3, <1>4, <1>5 DEF RunSound
<1>7. Claims(x) = Claims(e)
  BY <1>1 DEF Claims
<1> QED
  BY <1>1, <1>2, <1>6, <1>7, RunMoves

\* A run that found nothing.
LEMMA NotFoundMoves ==
  ASSUME ResolveInv, NEW r \in Resolvers, resolver[r].pc = "lookup", NotFound(r),
         UNCHANGED <<service, listed, unique>>,
         resolver[r].tries = 0 /\ ~ById(r) => resolver[r].before = {}
  PROVE  ResolveInv'
<1> DEFINE e == resolver[r]
<1>1. e \in RunType /\ RunSound(e) /\ Collects(e) /\ (e.kind = "stream" => SettledFor(e, "project"))
  BY DEF ResolveInv, RunSound
<1>2. CASE e.tries = 0 /\ (ById(r) \/ e.reuseOnly)
  <2>1. PICK c \in Codes : Fail(r, c)
    BY <1>2 DEF NotFound, Codes
  <2> QED
    BY <2>1, FailMoves
<1>3. CASE e.tries = 0 /\ ~ById(r) /\ ~e.reuseOnly
  <2> DEFINE x == [e EXCEPT !.pc = "create", !.token = 0, !.seen = {0}, !.got = {}]
  <2>1. Becomes(r, x)
    BY <1>3 DEF NotFound
  <2>2. /\ x \in RunType /\ x.pc = "create" /\ x.seen = {0} /\ x.got = {} /\ x.as = e.as /\ x.created = e.created
        /\ x.sel = e.sel /\ x.kind = e.kind /\ x.before = {} /\ x.outcome = e.outcome /\ x.id = e.id
    BY <1>1, <1>3, Bounded DEF RunType
  <2> HIDE DEF x
  <2>3. RunSound(x)
    BY <1>1, <1>3, <2>2 DEF RunSound, Collects, SettledFor, ById
  <2>4. Claims(x) = Claims(e)
    BY <2>2 DEF Claims
  <2> QED
    BY <2>1, <2>2, <2>3, <2>4, RunMoves
<1>4. CASE e.tries # 0 /\ e.tries < Attempts
  <2>1. Becomes(r, Looking(e, e.tries + 1, {}))
    BY <1>4 DEF NotFound
  <2>2. e.tries + 1 \in Nat /\ e.tries > 0 /\ e.tries + 1 > 0 /\ e.tries + 1 # 0
    BY <1>1, <1>4 DEF RunType
  <2> QED
    BY <1>1, <2>1, <2>2, LookMoves DEF Collects
<1>5. CASE e.tries # 0 /\ ~(e.tries < Attempts)
  <2>1. PICK c \in Codes : Fail(r, c)
    BY <1>5 DEF NotFound, Codes
  <2> QED
    BY <2>1, FailMoves
<1> QED
  BY <1>2, <1>3, <1>4, <1>5

\* A run that found the resource: on to the stream, or done.
LEMMA FoundMoves ==
  ASSUME ResolveInv, NEW r \in Resolvers, resolver[r].pc = "lookup", NEW x \in listed, Found(r, x),
         UNCHANGED <<service, listed, unique>>,
         x.kind = resolver[r].kind, x.kind = "stream" => x.project = Scope(r),
         IF ById(r) THEN x.id = resolver[r].sel[x.kind] ELSE x.wanted
  PROVE  ResolveInv'
<1> DEFINE e == resolver[r]
<1>1. /\ e \in RunType /\ RunSound(e) /\ Collects(e) /\ (e.kind = "stream" => SettledFor(e, "project"))
      /\ x \in service /\ x \in Thing /\ x.kind \in ResourceKinds
  BY DEF ResolveInv, RunSound, StockInv, Thing
<1>2. CASE e.tries # 0 /\ e.created \notin {None_, x.id}
  <2>1. PICK c \in Codes : Fail(r, c)
    BY <1>2 DEF Found, Codes
  <2> QED
    BY <2>1, FailMoves
<1>3. ASSUME NEW how \in Outcomes, Settled_(r, x, how), e.sel[x.kind] # None_ => how = "reused",
             how = "created" => e.as = "created" /\ e.created = x.id
      PROVE  ResolveInv'
  <2> DEFINE y == [e EXCEPT !.id[x.kind] = x.id, !.outcome[x.kind] = how]
  <2>1. /\ y \in RunType /\ y.id = [e.id EXCEPT ![x.kind] = x.id]
        /\ y.outcome = [e.outcome EXCEPT ![x.kind] = how] /\ y.sel = e.sel /\ y.kind = e.kind
        /\ y.as = e.as /\ y.created = e.created
    BY <1>1 DEF RunType, Thing
  <2>2. e.id \in [ResourceKinds -> Nat] /\ e.outcome \in [ResourceKinds -> Outcomes]
    BY <1>1 DEF RunType
  <2> HIDE DEF y
  <2>3. SettledFor(y, x.kind)
    <3>1. x.kind = "stream" => y.id["project"] = e.id["project"] /\ Scope(r) = e.id["project"]
      BY <2>1, <2>2, ResolveBasics DEF Scope
    <3>2. y.id[x.kind] = x.id /\ y.outcome[x.kind] = how /\ y.sel[x.kind] = e.sel[x.kind]
      BY <1>1, <2>1, <2>2
    <3> QED
      BY <1>1, <1>3, <3>1, <3>2 DEF SettledFor, ById
  <2>4. x.kind = "stream" => SettledFor(y, "project")
    <3>1. x.kind = "stream" => y.id["project"] = e.id["project"] /\ y.outcome["project"] = e.outcome["project"]
      BY <2>1, <2>2, ResolveBasics
    <3> QED
      BY <1>1, <2>1, <3>1 DEF SettledFor
  <2>5. Claims(y) \subseteq Claims(e)
    <3>1. \A k \in ResourceKinds : y.outcome[k] = "created" => y.id[k] \in Claims(e)
      BY <1>1, <1>3, <2>1, <2>2 DEF Claims
    <3>2. y.as = "created" => y.created \in Claims(e)
      BY <2>1 DEF Claims
    <3> QED
      BY <3>1, <3>2 DEF Claims
  <2>6. CASE x.kind = "stream"
    <3> DEFINE z == EndedRun(y, "resolved")
    <3>1. /\ z \in RunType /\ z.pc = "resolved" /\ z.sel = y.sel /\ z.id = y.id /\ z.outcome = y.outcome
          /\ z.as = "none"
      BY <2>1, Ended
    <3>2. Becomes(r, z)
      BY <1>3, <2>6 DEF Settled_, y
    <3> HIDE DEF z
    <3>3. RunSound(z)
      BY <2>3, <2>4, <2>6, <3>1 DEF RunSound, SettledFor
    <3>4. Claims(z) \subseteq Claims(y)
      BY <3>1 DEF Claims
    <3> QED
      BY <2>5, <3>1, <3>2, <3>3, <3>4, RunMoves
  <2>7. CASE x.kind # "stream"
    <3> DEFINE z == [y EXCEPT !.kind = "stream", !.created = None_, !.raised = FALSE, !.as = "none"]
               before == Wanted({s \in listed : s.kind = "stream" /\ s.project = x.id})
    <3>1. /\ z \in RunType /\ z.kind = "stream" /\ z.as = "none" /\ z.sel = y.sel /\ z.id = y.id
          /\ z.outcome = y.outcome
      <4>1. None_ \in Nat /\ "stream" \in ResourceKinds /\ "none" \in Outcomes
        BY ResolveBasics DEF Outcomes
      <4> QED
        BY <2>1, <4>1 DEF RunType
    <3>2. Becomes(r, Looking(z, 0, before))
      BY <1>3, <2>7 DEF Settled_, y
    <3>3. /\ before \in SUBSET Thing
          /\ \A s \in before : s \in listed /\ s.wanted /\ s.kind = "stream" /\ s.project = x.id
      BY DEF Wanted, ResolveInv, StockInv
    <3> HIDE DEF z, before
    <3>4. SettledFor(z, "project") /\ ScopeOf(z) = x.id
      BY <1>1, <2>1, <2>2, <2>3, <2>7, <3>1, ResolveBasics DEF SettledFor, ScopeOf
    <3>5. Claims(z) \subseteq Claims(y)
      BY <3>1 DEF Claims
    <3> QED
      BY <2>5, <3>1, <3>2, <3>3, <3>4, <3>5, LookMoves
  <2> QED
    BY <2>6, <2>7
<1>4. CASE e.tries = 0
  <2>1. Settled_(r, x, "reused") /\ "reused" \in Outcomes
    BY <1>4 DEF Found, Outcomes
  <2> QED
    BY <1>3, <2>1
<1>5. CASE e.tries # 0 /\ e.created \in {None_, x.id}
  <2>1. Settled_(r, x, e.as)
    BY <1>5 DEF Found
  <2>2. e.as \in Outcomes /\ e.tries > 0
    BY <1>1, <1>5 DEF RunType
  <2>3. e.sel[x.kind] = None_ /\ (e.as = "created" => e.created = x.id)
    BY <1>1, <1>5, <2>2 DEF Collects
  <2> QED
    BY <1>3, <2>1, <2>2, <2>3
<1> QED
  BY <1>2, <1>4, <1>5

\* The end of a listing.
LEMMA ConcludeMoves ==
  ASSUME ResolveInv, NEW r \in Resolvers, resolver[r].pc = "lookup", ~ById(r), NEW all \in SUBSET listed,
         \A x \in all : x.kind = resolver[r].kind,
         resolver[r].tries = 0 => resolver[r].before \subseteq all,
         Conclude(r, all), UNCHANGED <<service, listed, unique>>
  PROVE  ResolveInv'
<1> DEFINE hits == Wanted(all)
<1>1. CASE \E x \in all : x.project # Scope(r)
  <2>1. LookupFailed(r, "wrong_project") /\ "wrong_project" \in Codes
    BY <1>1 DEF Conclude, Codes
  <2> QED
    BY <2>1, LookupFailedMoves
<1>2. CASE ~(\E x \in all : x.project # Scope(r)) /\ Cardinality(hits) > 1
  <2>1. LookupFailed(r, "ambiguous_name") /\ "ambiguous_name" \in Codes
    BY <1>2 DEF Conclude, Codes
  <2> QED
    BY <2>1, LookupFailedMoves
<1>3. CASE ~(\E x \in all : x.project # Scope(r)) /\ ~(Cardinality(hits) > 1) /\ hits = {}
  <2>1. NotFound(r)
    BY <1>3 DEF Conclude
  <2>2. resolver[r].tries = 0 => resolver[r].before = {}
    <3>1. ASSUME resolver[r].tries = 0, NEW x \in resolver[r].before PROVE FALSE
      <4>1. x.wanted /\ x \in all
        BY <3>1 DEF ResolveInv, RunSound, Awaits
      <4> QED
        BY <1>3, <4>1 DEF Wanted
    <3> QED
      BY <3>1
  <2> QED
    BY <2>1, <2>2, NotFoundMoves
<1>4. CASE ~(\E x \in all : x.project # Scope(r)) /\ ~(Cardinality(hits) > 1) /\ hits # {}
  <2>1. PICK x \in hits : Found(r, x)
    BY <1>4 DEF Conclude
  <2>2. x \in all /\ x.wanted /\ x \in listed
    BY DEF Wanted
  <2> QED
    BY <1>4, <2>1, <2>2, FoundMoves
<1> QED
  BY <1>1, <1>2, <1>3, <1>4

\* A page ends the listing, or leads on to the next one.
LEMMA PageMoves ==
  ASSUME ResolveInv, NEW r \in Resolvers, resolver[r].pc = "lookup", ~ById(r), NEW items \in SUBSET listed,
         \A x \in items : x.kind = resolver[r].kind, NEW next \in {EndOfList} \cup Nat,
         next = EndOfList /\ resolver[r].tries = 0 => resolver[r].before \subseteq resolver[r].got \cup items,
         next # EndOfList /\ next \notin resolver[r].seen /\ resolver[r].tries = 0 =>
           \A x \in resolver[r].before :
             x \in resolver[r].got \cup items \/ resolver[r].kind = "project" \/ PageOf(x) >= next,
         Page(r, items, next), UNCHANGED <<service, listed, unique>>
  PROVE  ResolveInv'
<1> DEFINE e == resolver[r]
<1>1. /\ e \in RunType /\ RunSound(e) /\ Collects(e) /\ (e.kind = "stream" => SettledFor(e, "project"))
      /\ items \in SUBSET Thing
  BY DEF ResolveInv, RunSound, StockInv
<1>2. CASE next = EndOfList
  <2>1. Conclude(r, e.got \cup items)
    BY <1>2 DEF Page
  <2>2. e.got \cup items \in SUBSET listed /\ \A x \in e.got \cup items : x.kind = e.kind
    BY <1>1 DEF Collects
  <2> QED
    BY <1>2, <2>1, <2>2, ConcludeMoves
<1>3. CASE next # EndOfList /\ (next \in e.seen \/ Cardinality(e.seen) = MaxPages)
  <2>1. LookupFailed(r, "lookup_failed") /\ "lookup_failed" \in Codes
    BY <1>3 DEF Page, Codes
  <2> QED
    BY <2>1, LookupFailedMoves
<1>4. CASE next # EndOfList /\ next \notin e.seen /\ Cardinality(e.seen) # MaxPages
  <2> DEFINE x == [e EXCEPT !.got = e.got \cup items, !.token = next, !.seen = e.seen \cup {next}]
  <2>1. Becomes(r, x)
    BY <1>4 DEF Page
  <2>2. next \in Nat /\ e.seen \cup {next} \in SUBSET Int /\ e.got \cup items \in SUBSET Thing
    BY <1>1, <1>4 DEF RunType
  <2>3. /\ x \in RunType /\ x.got = e.got \cup items /\ x.token = next /\ x.seen = e.seen \cup {next}
        /\ x.pc = e.pc /\ x.sel = e.sel /\ x.kind = e.kind /\ x.before = e.before /\ x.tries = e.tries
        /\ x.created = e.created /\ x.outcome = e.outcome /\ x.as = e.as /\ x.id = e.id
    BY <1>1, <2>2 DEF RunType
  <2> HIDE DEF x
  <2>4. Collects(x)
    BY <1>1, <2>3 DEF Collects
  <2>5. SettledFor(e, "project") => SettledFor(x, "project")
    BY <2>3 DEF SettledFor
  <2>6. e.tries = 0 => Awaits(x)
    BY <1>1, <1>4, <2>3 DEF RunSound, Awaits, ScopeOf
  <2>7. RunSound(x)
    BY <1>1, <2>3, <2>4, <2>5, <2>6 DEF RunSound
  <2>8. Claims(x) = Claims(e)
    BY <2>3 DEF Claims
  <2> QED
    BY <2>1, <2>3, <2>7, <2>8, RunMoves
<1> QED
  BY <1>2, <1>3, <1>4

\* What is listed of the resources that the run looks for.
LEMMA PageHas ==
  ASSUME ResolveInv, NEW r \in Resolvers, resolver[r].pc = "lookup"
  PROVE  /\ OnPage(r) \in SUBSET listed /\ \A x \in OnPage(r) : x.kind = resolver[r].kind
         /\ resolver[r].tries = 0 =>
              \A x \in resolver[r].before :
                \/ x \in resolver[r].got \cup OnPage(r)
                \/ resolver[r].kind = "stream" /\ x \in InScope(listed, r) /\ PageOf(x) > resolver[r].token
         /\ resolver[r].token \in Nat /\ \A x \in listed : PageOf(x) \in Nat /\ x.kind \in ResourceKinds
         /\ resolver[r].kind \in ResourceKinds
<1>1. resolver[r] \in RunType /\ resolver[r].token \in Nat /\ resolver[r].kind \in ResourceKinds
  BY DEF ResolveInv, RunType
<1>2. \A x \in listed : PageOf(x) \in Nat /\ x.kind \in ResourceKinds
  <2>1. ASSUME NEW x \in listed PROVE x.id \in Nat /\ 1 <= x.id /\ x.kind \in ResourceKinds
    BY DEF ResolveInv, StockInv, Thing
  <2> QED
    BY <2>1, Paged
<1>3. ASSUME resolver[r].tries = 0, NEW x \in resolver[r].before
      PROVE  \/ x \in resolver[r].got \cup OnPage(r)
             \/ resolver[r].kind = "stream" /\ x \in InScope(listed, r) /\ PageOf(x) > resolver[r].token
  <2>1. /\ x \in listed /\ x.kind = resolver[r].kind /\ x.project = ScopeOf(resolver[r])
        /\ x \in resolver[r].got \/ resolver[r].kind = "project" \/ PageOf(x) >= resolver[r].token
    BY <1>3 DEF ResolveInv, RunSound, Awaits
  <2>2. x \in InScope(listed, r)
    BY <2>1 DEF InScope, Scope, ScopeOf
  <2>3. PageOf(x) \in Nat
    BY <1>2, <2>1
  <2>4. resolver[r].kind = "project" \/ PageOf(x) = resolver[r].token => x \in OnPage(r)
    BY <2>2 DEF OnPage
  <2>5. resolver[r].kind \in {"project", "stream"}
    BY <1>1 DEF ResourceKinds
  <2>6. PageOf(x) >= resolver[r].token => PageOf(x) = resolver[r].token \/ PageOf(x) > resolver[r].token
    BY <1>1, <2>3
  <2> QED
    BY <2>1, <2>2, <2>4, <2>5, <2>6
<1>4. OnPage(r) \in SUBSET listed /\ \A x \in OnPage(r) : x.kind = resolver[r].kind
  BY DEF OnPage, InScope
<1> QED
  BY <1>1, <1>2, <1>3, <1>4

\* A lookup by ID, the page of a listing, or a faulty answer to either.
LEMMA LooksUpKept ==
  ASSUME ResolveInv, NEW r \in Resolvers, Get(r) \/ List(r) \/ LookupMishap(r)
  PROVE  ResolveInv'
<1>1. resolver[r].pc = "lookup" /\ UNCHANGED <<service, listed, unique>>
  BY DEF Get, List, LookupMishap
<1>2. CASE Get(r)
  <2> DEFINE hits == {x \in InScope(listed, r) : x.id = resolver[r].sel[resolver[r].kind]}
  <2>1. CASE hits = {}
    <3>1. NotFound(r) /\ ById(r)
      BY <1>2, <2>1 DEF Get
    <3> QED
      BY <1>1, <3>1, NotFoundMoves
  <2>2. CASE hits # {}
    <3>1. ById(r) /\ \E x \in hits : Found(r, x)
      BY <1>2, <2>2 DEF Get
    <3>2. PICK x \in hits : Found(r, x)
      BY <3>1
    <3>3. x \in listed /\ x.kind = resolver[r].kind /\ x.project = Scope(r) /\ x.id = resolver[r].sel[x.kind]
      BY DEF InScope
    <3> QED
      BY <1>1, <3>1, <3>2, <3>3, FoundMoves
  <2> QED
    BY <2>1, <2>2
<1>3. CASE List(r)
  <2>1. ~ById(r)
    BY <1>3 DEF List
  <2>2. CASE MoreAfter(r)
    <3>1. Page(r, OnPage(r), resolver[r].token + 1)
      BY <1>3, <2>2 DEF List
    <3>2. /\ resolver[r].token + 1 \in {EndOfList} \cup Nat /\ resolver[r].token + 1 # EndOfList
          /\ resolver[r].tries = 0 => \A x \in resolver[r].before :
               x \in resolver[r].got \cup OnPage(r) \/ PageOf(x) >= resolver[r].token + 1
      BY <1>1, PageHas, ResolveBasics DEF InScope
    <3> QED
      BY <1>1, <2>1, <3>1, <3>2, PageHas, PageMoves
  <2>3. CASE ~MoreAfter(r)
    <3>1. Page(r, OnPage(r), EndOfList)
      BY <1>3, <2>3 DEF List
    <3>2. resolver[r].tries = 0 => resolver[r].before \subseteq resolver[r].got \cup OnPage(r)
      BY <1>1, <2>3, PageHas DEF MoreAfter
    <3> QED
      BY <1>1, <2>1, <3>1, <3>2, PageHas, PageMoves
  <2> QED
    BY <2>2, <2>3
<1>4. CASE LookupFailed(r, "lookup_failed")
  <2>1. "lookup_failed" \in Codes
    BY DEF Codes
  <2> QED
    BY <1>1, <1>4, <2>1, LookupFailedMoves
<1>5. CASE ~ById(r) /\ Page(r, OnPage(r), 0)
  <2>1. 0 \in resolver[r].seen /\ 0 # EndOfList /\ 0 \in {EndOfList} \cup Nat
    BY <1>1, ResolveBasics DEF ResolveInv, RunSound, Collects
  <2> QED
    BY <1>1, <1>5, <2>1, PageHas, PageMoves
<1>6. CASE /\ ~ById(r) /\ resolver[r].kind = "stream"
           /\ Page(r, OnPage(r) \cup {x \in listed : x.kind = "stream"}, EndOfList)
  <2> DEFINE items == OnPage(r) \cup {x \in listed : x.kind = "stream"}
  <2>1. items \in SUBSET listed /\ \A x \in items : x.kind = resolver[r].kind
    BY <1>1, <1>6, PageHas
  <2>2. resolver[r].tries = 0 => resolver[r].before \subseteq resolver[r].got \cup items
    BY <1>1, <1>6, PageHas DEF InScope
  <2>3. Page(r, items, EndOfList) /\ ~ById(r)
    BY <1>6
  <2> HIDE DEF items
  <2> QED
    BY <1>1, <2>1, <2>2, <2>3, PageMoves
<1> QED
  BY <1>2, <1>3, <1>4, <1>5, <1>6 DEF LookupMishap

LEMMA ClaimsAreNumbers == ASSUME NEW e \in RunType PROVE Claims(e) \in SUBSET Nat
BY DEF Claims, RunType

\* A step of one run that may add to the service.
LEMMA GrowMoves ==
  ASSUME ResolveInv, NEW r \in Resolvers, NEW e \in RunType, Becomes(r, e), StockInv',
         service \subseteq service', listed \subseteq listed', NEW m \in Nat, NEW n \in Nat,
         m = Cardinality(service), n = Cardinality(service'), m <= n,
         RunSound(e), \A c \in Claims(e) : c \in Claims(resolver[r]) \/ (c > m /\ c <= n)
  PROVE  ResolveInv'
<1>1. resolver' = [resolver EXCEPT ![r] = e] /\ resolver \in [Resolvers -> RunType]
  BY DEF Becomes, ResolveInv
<1>2. /\ resolver' \in [Resolvers -> RunType] /\ resolver'[r] = e
      /\ \A s \in Resolvers : s # r => resolver'[s] = resolver[s]
  BY <1>1
<1>3. ASSUME NEW s \in Resolvers PROVE RunSound(resolver[s])'
  <2>1. PICK x \in RunType : x = resolver'[s]
    BY <1>2
  <2>2. RunSound(x)
    BY <1>2, <2>1 DEF ResolveInv
  <2>3. RunSound(x)'
    BY <2>2, RunStays
  <2> QED
    BY <2>1, <2>3
<1>4. ClaimsInv'
  <2>1. \A s \in Resolvers : Claims(resolver[s])' = Claims(resolver'[s])
    BY DEF Claims
  <2>2. \A s \in Resolvers : Claims(resolver[s]) \in SUBSET Nat
    BY <1>1, ClaimsAreNumbers
  <2>3. \A s \in Resolvers : \A c \in Claims(resolver[s]) : c <= m
    BY DEF ResolveInv, ClaimsInv
  <2>4. \A s \in Resolvers : \A c \in Claims(resolver'[s]) : c <= n
    BY <1>2, <2>2, <2>3
  <2>5. \A s \in Resolvers : s # r => Claims(e) \cap Claims(resolver[s]) = {}
    <3>1. ASSUME NEW s \in Resolvers, s # r, NEW c \in Claims(e), c \in Claims(resolver[s]) PROVE FALSE
      <4>1. c \notin Claims(resolver[r])
        BY <3>1 DEF ResolveInv, ClaimsInv
      <4>2. c \in Nat /\ c <= m /\ c > m
        BY <2>2, <2>3, <3>1, <4>1
      <4> QED
        BY <4>2
    <3> QED
      BY <3>1
  <2>6. \A s, t \in Resolvers : s # t => Claims(resolver'[s]) \cap Claims(resolver'[t]) = {}
    BY <1>2, <2>5 DEF ResolveInv, ClaimsInv
  <2> QED
    BY <2>1, <2>4, <2>6 DEF ClaimsInv
<1> QED
  BY <1>2, <1>3, <1>4 DEF ResolveInv

\* What a creation does to the service, whether its answer arrives or not.
LEMMA Commits ==
  ASSUME ResolveInv, NEW r \in Resolvers, Committed(r) \/ Uncommitted, UNCHANGED unique
  PROVE  /\ StockInv' /\ service \subseteq service' /\ listed \subseteq listed'
         /\ Cardinality(service) \in Nat /\ Cardinality(service') \in Nat
         /\ Cardinality(service) <= Cardinality(service')
         /\ Committed(r) => Cardinality(service') = Cardinality(service) + 1
<1>1. Cardinality(service) \in Nat /\ IsFiniteSet(service) /\ StockInv
  BY FS_CardinalityType DEF ResolveInv, StockInv
<1>2. CASE Uncommitted
  <2>1. Cardinality(service') = Cardinality(service)
    BY <1>2 DEF Uncommitted
  <2>2. ~Committed(r)
    <3>1. SUFFICES ASSUME Committed(r) PROVE FALSE
      OBVIOUS
    <3> DEFINE x == [kind |-> resolver[r].kind, id |-> Cardinality(service) + 1, wanted |-> TRUE, project |-> Scope(r)]
    <3>2. x \in service /\ x.id = Cardinality(service) + 1
      BY <1>2, <3>1 DEF Committed, Uncommitted
    <3> QED
      BY <1>1, <3>2 DEF StockInv
  <2>3. StockInv'
    BY <1>1, <1>2 DEF StockInv, Uncommitted
  <2> QED
    BY <1>1, <1>2, <2>1, <2>2, <2>3 DEF Uncommitted
<1>3. CASE Committed(r)
  <2> DEFINE m == Cardinality(service)
             x == [kind |-> resolver[r].kind, id |-> m + 1, wanted |-> TRUE, project |-> Scope(r)]
  <2>1. /\ service' = service \cup {x} /\ listed' \subseteq listed \cup {x} /\ listed \subseteq listed'
        /\ unique => Wanted(InScope(service, r)) = {}
    BY <1>3 DEF Committed
  <2>2. resolver[r] \in RunType /\ resolver[r].kind \in ResourceKinds /\ Scope(r) \in Nat
    <3>1. resolver[r] \in RunType
      BY DEF ResolveInv
    <3> QED
      BY <3>1, ResolveBasics DEF RunType, Scope
  <2>3. /\ x.kind = resolver[r].kind /\ x.id = m + 1 /\ x.wanted /\ x.project = Scope(r) /\ x \in Thing
        /\ x.kind = "project" => x.project = None_
    BY <1>1, <2>2 DEF Thing, Scope
  <2> HIDE DEF x
  <2>4. x \notin service
    BY <1>1, <2>3 DEF StockInv
  <2>5. Cardinality(service') = m + 1 /\ IsFiniteSet(service')
    BY <1>1, <2>1, <2>4, FS_AddElement
  <2>6. \A y \in service : 1 <= y.id /\ y.id <= m /\ y.id \in Nat /\ y \in Thing
    BY <1>1 DEF StockInv, Thing
  <2> HIDE DEF m
  <2>7. m \in Nat
    BY <1>1 DEF m
  <2>8. \A y \in service' : 1 <= y.id /\ y.id <= m + 1
    BY <2>1, <2>3, <2>6, <2>7
  <2>9. \A y, z \in service' : y.id = z.id => y = z
    <3>1. \A y \in service : y.id # x.id
      BY <2>3, <2>6, <2>7
    <3> QED
      BY <1>1, <2>1, <3>1 DEF StockInv
  <2>10. unique => \A y, z \in service' :
                     y.wanted /\ z.wanted /\ y.kind = z.kind /\ y.project = z.project => y = z
    <3>1. unique => \A y \in service : ~(y.wanted /\ y.kind = x.kind /\ y.project = x.project)
      BY <2>1, <2>3 DEF Wanted, InScope
    <3> QED
      BY <1>1, <2>1, <3>1 DEF StockInv
  <2>11. StockInv'
    BY <1>1, <2>1, <2>3, <2>5, <2>6, <2>8, <2>9, <2>10 DEF StockInv
  <2> QED
    BY <2>1, <2>5, <2>7, <2>11 DEF m
<1> QED
  BY <1>2, <1>3

\* A creation that is followed by a lookup: a run claims only what it has just created.
LEMMA ReconcileMoves ==
  ASSUME ResolveInv, NEW r \in Resolvers, resolver[r].pc = "create", Committed(r) \/ Uncommitted, UNCHANGED unique,
         NEW id \in Nat, NEW raised \in BOOLEAN, NEW as \in Outcomes, Reconcile(r, id, raised, as),
         as = "created" => Committed(r) /\ id = Cardinality(service) + 1
  PROVE  ResolveInv'
<1> DEFINE e == resolver[r]
           c == [e EXCEPT !.created = id, !.raised = raised, !.as = as]
           x == Looking(c, 1, {})
<1>1. /\ e \in RunType /\ RunSound(e) /\ Collects(e) /\ (e.kind = "stream" => SettledFor(e, "project"))
      /\ e.sel[e.kind] = None_
  BY DEF ResolveInv, RunSound, Collects
<1>2. /\ c \in RunType /\ c.sel = e.sel /\ c.kind = e.kind /\ c.as = as /\ c.created = id
      /\ c.outcome = e.outcome /\ c.id = e.id
  BY <1>1 DEF RunType
<1> HIDE DEF c
<1>3. /\ x \in RunType /\ x.pc = "lookup" /\ x.seen = {0} /\ x.got = {} /\ x.tries = 1
      /\ x.sel = e.sel /\ x.kind = e.kind /\ x.as = as /\ x.created = id /\ x.outcome = e.outcome /\ x.id = e.id
  <2>1. c \in RunType
    BY <1>2
  <2>2. /\ x \in RunType /\ x.pc = "lookup" /\ x.token = 0 /\ x.seen = {0} /\ x.got = {}
        /\ x.tries = 1 /\ x.before = {} /\ x.sel = c.sel /\ x.kind = c.kind /\ x.as = c.as
        /\ x.created = c.created /\ x.outcome = c.outcome /\ x.id = c.id
    BY <2>1, Looks, Bounded
  <2> HIDE DEF x
  <2> QED
    BY <1>2, <2>2
<1>4. Becomes(r, x)
  BY DEF Reconcile, c
<1> HIDE DEF x
<1>5. /\ StockInv' /\ service \subseteq service' /\ listed \subseteq listed'
      /\ Cardinality(service) \in Nat /\ Cardinality(service') \in Nat
      /\ Cardinality(service) <= Cardinality(service')
      /\ Committed(r) => Cardinality(service') = Cardinality(service) + 1
  BY Commits
<1>6. as = "created" => id # None_
  BY <1>5, ResolveBasics
<1>7. RunSound(x)
  <2>1. SettledFor(e, "project") => SettledFor(x, "project")
    BY <1>3 DEF SettledFor
  <2>2. Collects(x)
    BY <1>1, <1>3, <1>6 DEF Collects
  <2> QED
    BY <1>1, <1>3, <2>1, <2>2 DEF RunSound
<1>8. \A n \in Claims(x) : n \in Claims(e) \/ (n > Cardinality(service) /\ n <= Cardinality(service'))
  <2>1. as = "created" => id > Cardinality(service) /\ id <= Cardinality(service')
    BY <1>5
  <2>2. \A n \in Claims(x) : n \in Claims(e) \/ (as = "created" /\ n = id)
    BY <1>3 DEF Claims
  <2> QED
    BY <2>1, <2>2
<1> QED
  BY <1>3, <1>4, <1>5, <1>7, <1>8, GrowMoves

\* The one creation of a run.
LEMMA CreateKept == ASSUME ResolveInv, NEW r \in Resolvers, CreateOne(r) PROVE ResolveInv'
<1>1. resolver[r].pc = "create" /\ UNCHANGED unique
  BY DEF CreateOne
<1>2. /\ StockInv' /\ service \subseteq service' /\ listed \subseteq listed'
      /\ Cardinality(service) \in Nat /\ Cardinality(service') \in Nat
      /\ Cardinality(service) <= Cardinality(service')
  <2>1. Committed(r) \/ Uncommitted
    BY DEF CreateOne
  <2> QED
    BY <1>1, <2>1, Commits
<1>3. \A as \in {"created", "reused-after-conflict", "reused-after-uncertain-create"} : as \in Outcomes
  BY DEF Outcomes
<1>4. CASE Fail(r, "create_failed")
  <2> DEFINE e == EndedRun(resolver[r], "failed")
             x == [e EXCEPT !.error = "create_failed"]
  <2>1. resolver[r] \in RunType
    BY DEF ResolveInv
  <2>2. e \in RunType /\ e.pc = "failed" /\ e.id = resolver[r].id /\ e.outcome = resolver[r].outcome /\ e.as = "none"
    BY <2>1, Ended
  <2> HIDE DEF e
  <2>3. x \in RunType /\ x.pc = "failed" /\ x.id = resolver[r].id /\ x.outcome = resolver[r].outcome /\ x.as = "none"
    BY <2>2 DEF RunType, Codes
  <2>4. Becomes(r, x)
    BY <1>4 DEF Fail, x, e
  <2> HIDE DEF x
  <2>5. RunSound(x) /\ Claims(x) \subseteq Claims(resolver[r])
    BY <2>3 DEF RunSound, Claims
  <2> QED
    BY <1>2, <2>3, <2>4, <2>5, GrowMoves
<1>5. CASE Committed(r) /\ Reconcile(r, Cardinality(service) + 1, FALSE, "created")
  <2>1. Cardinality(service) + 1 \in Nat
    BY <1>2
  <2> QED
    BY <1>1, <1>3, <1>5, <2>1, ReconcileMoves
<1>6. CASE Uncommitted /\ Reconcile(r, None_, TRUE, "reused-after-conflict")
  BY <1>1, <1>3, <1>6, ReconcileMoves, ResolveBasics
<1>7. ASSUME Committed(r) \/ Uncommitted, NEW raised \in BOOLEAN, Uncertain(r, raised) PROVE ResolveInv'
  <2>1. Reconcile(r, None_, raised, "reused-after-uncertain-create") /\ None_ \in Nat
    BY <1>7, ResolveBasics DEF Uncertain
  <2> QED
    BY <1>1, <1>3, <1>7, <2>1, ReconcileMoves
<1> QED
  BY <1>4, <1>5, <1>6, <1>7 DEF CreateOne

\* A run starts with what was selected.
LEMMA StartKept == ASSUME ResolveInv, NEW r \in Resolvers, Start(r) PROVE ResolveInv'
<1>1. UNCHANGED <<service, listed, unique>>
  BY DEF Start
<1>2. CASE Fail(r, "invalid_selectors")
  <2>1. "invalid_selectors" \in Codes
    BY DEF Codes
  <2> QED
    BY <1>1, <1>2, <2>1, FailMoves
<1>3. ASSUME NEW reuse \in BOOLEAN, NEW p \in {0, 1}, NEW q \in {0, 1, 2},
             Becomes(r, Looking([NewRun EXCEPT !.reuseOnly = reuse, !.sel = [project |-> p, stream |-> q]],
                                0, Wanted({x \in listed : x.kind = "project"})))
      PROVE  ResolveInv'
  <2> DEFINE sel == [project |-> p, stream |-> q]
             e   == [NewRun EXCEPT !.reuseOnly = reuse, !.sel = sel]
             before == Wanted({x \in listed : x.kind = "project"})
  <2>1. sel \in [ResourceKinds -> Nat]
    <3>1. sel \in [{"project", "stream"} -> Nat]
      OBVIOUS
    <3> QED
      BY <3>1 DEF ResourceKinds
  <2> HIDE DEF sel
  <2>2. /\ e \in RunType /\ e.kind = "project" /\ e.as = "none" /\ \A k \in ResourceKinds : e.outcome[k] = "none"
    BY <2>1, NewRunTyped DEF RunType
  <2>3. Becomes(r, Looking(e, 0, before))
    BY <1>3 DEF sel
  <2>4. /\ before \in SUBSET Thing
        /\ \A x \in before : x \in listed /\ x.wanted /\ x.kind = "project" /\ x.project = None_
    BY DEF Wanted, ResolveInv, StockInv
  <2> HIDE DEF e, before
  <2>5. Claims(e) = {}
    BY <2>2 DEF Claims
  <2> QED
    BY <1>1, <2>2, <2>3, <2>4, <2>5, LookMoves DEF ScopeOf
<1>4. CASE \E reuse \in BOOLEAN, p \in {0, 1}, q \in {0, 1, 2} :
             Becomes(r, Looking([NewRun EXCEPT !.reuseOnly = reuse, !.sel = [project |-> p, stream |-> q]],
                                0, Wanted({x \in listed : x.kind = "project"})))
  BY <1>3, <1>4
<1> QED
  BY <1>2, <1>4 DEF Start, None_

\* Listings may catch up.
LEMMA AppearKept ==
  ASSUME ResolveInv, listed \subseteq listed', listed' \subseteq service, UNCHANGED <<service, unique, resolver>>
  PROVE  ResolveInv'
<1>1. StockInv'
  BY DEF ResolveInv, StockInv
<1>2. ASSUME NEW s \in Resolvers PROVE RunSound(resolver[s])'
  <2>1. PICK x \in RunType : x = resolver[s]
    BY DEF ResolveInv
  <2>2. RunSound(x)
    BY <2>1 DEF ResolveInv
  <2>3. RunSound(x)'
    BY <2>2, RunStays
  <2> QED
    BY <2>1, <2>3
<1>3. ClaimsInv'
  <2>1. \A s \in Resolvers : Claims(resolver[s])' = Claims(resolver[s])
    BY DEF Claims
  <2> QED
    BY <2>1 DEF ResolveInv, ClaimsInv
<1> QED
  BY <1>1, <1>2, <1>3 DEF ResolveInv

\* The invariant holds at first, is kept by every step, and so holds always.
LEMMA ResolveStarts == ResolverInit => ResolveInv
<1> SUFFICES ASSUME ResolverInit PROVE ResolveInv
  OBVIOUS
<1>1. StockInv
  <2> DEFINE p == [kind |-> "project", id |-> 1, wanted |-> TRUE, project |-> None_]
             q == [kind |-> "project", id |-> 1, wanted |-> FALSE, project |-> None_]
             s2 == [kind |-> "stream", id |-> 2, wanted |-> TRUE, project |-> 1]
             t2 == [kind |-> "stream", id |-> 2, wanted |-> FALSE, project |-> 1]
             s3 == [kind |-> "stream", id |-> 3, wanted |-> TRUE, project |-> 1]
  <2>1. service \in {{}, {q, s2}, {p}, {p, t2}, {p, t2, s3}} /\ listed = service
    BY DEF ResolverInit, Existing
  <2>2. /\ p \in Thing /\ p.kind = "project" /\ p.id = 1 /\ p.project = None_
        /\ q \in Thing /\ q.kind = "project" /\ q.id = 1 /\ q.project = None_
        /\ s2 \in Thing /\ s2.kind = "stream" /\ s2.id = 2
        /\ t2 \in Thing /\ t2.kind = "stream" /\ t2.id = 2 /\ ~t2.wanted
        /\ s3 \in Thing /\ s3.kind = "stream" /\ s3.id = 3
    BY ResolveBasics DEF Thing
  <2> HIDE DEF p, q, s2, t2, s3
  <2>3. p # t2 /\ q # s2 /\ p # s3 /\ t2 # s3
    BY <2>2
  <2>4. /\ IsFiniteSet({}) /\ Cardinality({}) = 0
        /\ IsFiniteSet({p}) /\ Cardinality({p}) = 1
        /\ IsFiniteSet({q, s2}) /\ Cardinality({q, s2}) = 2
        /\ IsFiniteSet({p, t2}) /\ Cardinality({p, t2}) = 2
        /\ IsFiniteSet({p, t2, s3}) /\ Cardinality({p, t2, s3}) = 3
    <3>1. IsFiniteSet({}) /\ Cardinality({}) = 0
      BY FS_EmptySet
    <3>2. IsFiniteSet({p}) /\ Cardinality({p}) = 1 /\ IsFiniteSet({q}) /\ Cardinality({q}) = 1
      BY FS_Singleton
    <3>3. {q, s2} = {q} \cup {s2} /\ {p, t2} = {p} \cup {t2} /\ {p, t2, s3} = {p, t2} \cup {s3}
      OBVIOUS
    <3>4. IsFiniteSet({q, s2}) /\ Cardinality({q, s2}) = 2
      BY <2>3, <3>2, <3>3, FS_AddElement
    <3>5. IsFiniteSet({p, t2}) /\ Cardinality({p, t2}) = 2
      BY <2>3, <3>2, <3>3, FS_AddElement
    <3>6. s3 \notin {p, t2}
      BY <2>3
    <3>7. IsFiniteSet({p, t2, s3}) /\ Cardinality({p, t2, s3}) = 3
      BY <3>3, <3>5, <3>6, FS_AddElement
    <3> QED
      BY <3>1, <3>2, <3>4, <3>5, <3>7
  <2> QED
    BY <2>1, <2>2, <2>4 DEF StockInv
<1>2. resolver \in [Resolvers -> RunType] /\ \A r \in Resolvers : resolver[r] = NewRun /\ RunSound(resolver[r])
  BY NewRunTyped DEF ResolverInit, RunSound, NewRun
<1>3. Claims(NewRun) = {}
  BY NewRunTyped DEF Claims
<1>4. ClaimsInv
  BY <1>2, <1>3 DEF ClaimsInv
<1> QED
  BY <1>1, <1>2, <1>4 DEF ResolveInv

LEMMA ResolveKept == ResolveInv /\ [ResolverNext]_resolveVars => ResolveInv'
<1> SUFFICES ASSUME ResolveInv, [ResolverNext]_resolveVars PROVE ResolveInv'
  OBVIOUS
<1>1. CASE UNCHANGED resolveVars
  BY <1>1, AppearKept DEF resolveVars, ResolveInv, StockInv
<1>2. ASSUME NEW r \in Resolvers, Start(r) PROVE ResolveInv'
  BY <1>2, StartKept
<1>3. ASSUME NEW r \in Resolvers, Get(r) \/ List(r) \/ LookupMishap(r) PROVE ResolveInv'
  BY <1>3, LooksUpKept
<1>4. ASSUME NEW r \in Resolvers, CreateOne(r) PROVE ResolveInv'
  BY <1>4, CreateKept
<1>5. CASE Appear
  BY <1>5, AppearKept DEF Appear, ResolveInv, StockInv
<1> QED
  BY <1>1, <1>2, <1>3, <1>4, <1>5 DEF ResolverNext

LEMMA ResolveAlways == ResolverSpec => []ResolveInv
BY ResolveStarts, ResolveKept, PTL DEF ResolverSpec

\* Whatever the runs create at the same time, and whatever answers are lost, late
\* or wrong: what resolve_resources returns exists and belongs together, and runs
\* for the same names agree where the service keeps names unique.
THEOREM ResolutionsAreSound == ResolverSpec => []ResolutionIsSound
<1>1. ResolveInv => ResolvedIsBound
  <2> SUFFICES ASSUME ResolveInv, NEW r \in Resolvers, resolver[r].pc = "resolved"
               PROVE  /\ Cardinality(Binding(r)) = 1
                      /\ \A k \in ResourceKinds :
                           /\ \E x \in service :
                                x.kind = k /\ x.id = resolver[r].id[k] /\ (resolver[r].sel[k] = None_ => x.wanted)
                           /\ resolver[r].sel[k] # None_ =>
                                resolver[r].outcome[k] = "reused" /\ resolver[r].id[k] = resolver[r].sel[k]
    BY DEF ResolvedIsBound
  <2>1. SettledFor(resolver[r], "project") /\ SettledFor(resolver[r], "stream")
    BY DEF ResolveInv, RunSound
  <2>2. PICK s \in service : s.id = resolver[r].id["stream"] /\ s.kind = "stream" /\ s.project = resolver[r].id["project"]
    BY <2>1 DEF SettledFor
  <2>3. \A x \in service : x.id = s.id => x = s
    BY DEF ResolveInv, StockInv
  <2>4. Binding(r) = {[project |-> resolver[r].id["project"], stream |-> s.id]}
    BY <2>2, <2>3 DEF Binding
  <2>5. Cardinality(Binding(r)) = 1
    BY <2>4, FS_Singleton
  <2> QED
    BY <2>1, <2>5 DEF SettledFor, ResourceKinds
<1>2. ResolveInv => ResolversAgree
  <2> SUFFICES ASSUME ResolveInv, unique, NEW r \in Resolvers, NEW s \in Resolvers, r # s,
                      resolver[r].pc = "resolved", resolver[s].pc = "resolved", resolver[r].sel = resolver[s].sel
               PROVE  /\ resolver[r].id = resolver[s].id
                      /\ \A k \in ResourceKinds :
                           ~(resolver[r].outcome[k] = "created" /\ resolver[s].outcome[k] = "created")
    BY DEF ResolversAgree
  <2>1. /\ SettledFor(resolver[r], "project") /\ SettledFor(resolver[r], "stream")
        /\ SettledFor(resolver[s], "project") /\ SettledFor(resolver[s], "stream")
    BY DEF ResolveInv, RunSound
  <2>2. resolver[r].id["project"] = resolver[s].id["project"]
    BY <2>1 DEF SettledFor, ResolveInv, StockInv
  <2>3. resolver[r].id["stream"] = resolver[s].id["stream"]
    BY <2>1, <2>2 DEF SettledFor, ResolveInv, StockInv
  <2>4. resolver[r].id \in [ResourceKinds -> Nat] /\ resolver[s].id \in [ResourceKinds -> Nat]
    BY DEF ResolveInv, RunType
  <2>5. resolver[r].id = resolver[s].id
    BY <2>2, <2>3, <2>4 DEF ResourceKinds
  <2>6. ASSUME NEW k \in ResourceKinds, resolver[r].outcome[k] = "created", resolver[s].outcome[k] = "created"
        PROVE  FALSE
    <3>1. resolver[r].id[k] \in Claims(resolver[r]) /\ resolver[s].id[k] \in Claims(resolver[s])
      BY <2>6 DEF Claims
    <3> QED
      BY <2>5, <3>1 DEF ResolveInv, ClaimsInv
  <2> QED
    BY <2>5, <2>6
<1> QED
  BY <1>1, <1>2, ResolveAlways, PTL DEF ResolutionIsSound

\* A run creates a resource only if none of that name was listed when it began to
\* look: a lookup that fails, or a page that leads back, never leads to create.
THEOREM OnlyAbsentAreCreated == ResolverSpec => []CreatesOnlyAbsent
<1>1. ResolveInv => CreatesOnlyAbsent
  BY DEF ResolveInv, RunSound, CreatesOnlyAbsent
<1> QED
  BY <1>1, ResolveAlways, PTL

-----------------------------------------------------------------------------
(* Changes to the skills *)

LEMMA ReachedIsClosed == ASSUME NEW t, NEW s PROVE Closed(t, s, Reached(t, s))
BY DEF Closed, Reached, Named_

LEMMA ReachedIsLeast ==
  ASSUME NEW t, NEW s, NEW refs \in SUBSET Shared(t), Closed(t, s, refs)
  PROVE  Reached(t, s) \subseteq refs
BY DEF Reached

\* What a skill reads changes only if its text changes or that of a reference
\* which it reads before or afterwards.
LEMMA ReachedStays ==
  ASSUME NEW t, NEW u, NEW s, t.skill[s] = u.skill[s],
         \A q \in Reached(t, s) \cup Reached(u, s) : t.ref[q] = u.ref[q]
  PROVE  Reached(t, s) \subseteq Reached(u, s)
<1> DEFINE both == Reached(t, s) \cap Reached(u, s)
<1>1. Closed(t, s, Reached(t, s)) /\ Closed(u, s, Reached(u, s))
  BY ReachedIsClosed
<1>2. \A q \in Reached(t, s) : q \in Shared(t) /\ q \in Shared(u)
  BY DEF Reached, Shared
<1>3. Named_(t, t.skill[s].names) \subseteq both
  BY <1>1, <1>2 DEF Closed, Named_
<1>4. ASSUME NEW q \in both PROVE Named_(t, t.ref[q].names) \subseteq both
  <2>1. t.ref[q] = u.ref[q]
    OBVIOUS
  <2> QED
    BY <1>1, <1>2, <2>1 DEF Closed, Named_
<1>5. Closed(t, s, both) /\ both \in SUBSET Shared(t)
  BY <1>2, <1>3, <1>4 DEF Closed
<1> QED
  BY <1>5, ReachedIsLeast

\* For every set of skills, references and evaluations and any number of edits:
\* a change is accepted only if every skill that then ships something else, in
\* its own text or in a reference that it leads to, has an evaluation of which
\* the meaning is new (_check_skill_eval_diff,
\* _check_shared_reference_consumers, _effective_rubric_definition).
THEOREM ChangesAreNoticed == PolicySpec => []ChangedSkillsAreEvaluated
<1>1. PolicyInit => MapIsTrue(base)
  BY DEF PolicyInit, FirstTree
<1>2. MapIsTrue(base) /\ [PolicyNext]_policyVars => MapIsTrue(base)'
  <2> SUFFICES ASSUME MapIsTrue(base), [PolicyNext]_policyVars PROVE MapIsTrue(base')
    BY DEF MapIsTrue, Shared, Leads, Canonical_, Reached, Closed, Named_
  <2>1. CASE MergeTree
    BY <2>1 DEF MergeTree, PolicyAccepts
  <2>2. CASE ~MergeTree
    <3>1. ASSUME NEW t, Edit_(t) PROVE base' = base
      BY <3>1 DEF Edit_
    <3>2. EditSkill \/ EditReference \/ EditMap \/ EditRubric \/ EditRest => base' = base
      BY <3>1, Zenon DEF EditSkill, EditReference, EditMap, EditRubric, EditRest
    <3>3. LeaveIndex \/ UNCHANGED policyVars => base' = base
      BY DEF LeaveIndex, policyVars
    <3> QED
      BY <2>2, <3>2, <3>3 DEF PolicyNext
  <2> QED
    BY <2>1, <2>2
<1>3. MapIsTrue(base) => ChangedSkillsAreEvaluated
  <2> SUFFICES ASSUME MapIsTrue(base), PolicyAccepts, NEW s \in Canonical_(tree), s \notin ChangedRubrics
               PROVE  Ships(tree, s) = Ships(base, s)
    BY DEF ChangedSkillsAreEvaluated, ChangedRubrics
  <2>1. s \in Skills /\ tree.skill[s].there /\ s \notin Removed
    BY DEF Canonical_, Removed
  <2>2. s \notin ChangedSkills
    BY <2>1 DEF PolicyAccepts
  <2>3. tree.skill[s] = base.skill[s] /\ (s \in tree.rest <=> s \in base.rest) /\ s \in Canonical_(base)
    BY <2>1, <2>2 DEF ChangedSkills, Canonical_
  <2>4. ASSUME NEW q \in Reached(tree, s) \cup Reached(base, s) PROVE tree.ref[q] = base.ref[q]
    <3>1. q \in SharedFiles
      BY DEF Reached, Shared
    <3>2. q \in Reached(tree, s) => s \in tree.consumers[q]
      <4>1. q \in Reached(tree, s) => q \in Shared(tree) /\ s \in Leads(tree)[q]
        BY <3>1 DEF Leads, Reached
      <4> QED
        BY <4>1 DEF PolicyAccepts, MapIsTrue
    <3>3. q \in Reached(base, s) => s \in base.consumers[q]
      <4>1. q \in Reached(base, s) => q \in Shared(base) /\ s \in Leads(base)[q]
        BY <2>3, <3>1 DEF Leads, Reached
      <4> QED
        BY <4>1 DEF MapIsTrue
    <3>4. s \in Affected(q)
      BY <3>2, <3>3 DEF Affected
    <3> QED
      BY <2>1, <3>1, <3>4 DEF PolicyAccepts, ChangedReferences
  <2>5. Reached(tree, s) = Reached(base, s)
    BY <2>3, <2>4, ReachedStays
  <2>6. \A q \in SharedFiles : /\ q \in Shared(tree) /\ s \in Leads(tree)[q] <=> q \in Reached(tree, s)
                               /\ q \in Shared(base) /\ s \in Leads(base)[q] <=> q \in Reached(base, s)
    BY <2>3 DEF Leads, Reached
  <2>7. Ships(tree, s).refs = Ships(base, s).refs
    <3> DEFINE F(t) == {q \in Shared(t) : s \in Leads(t)[q]}
    <3>1. F(tree) = Reached(tree, s) /\ F(base) = Reached(tree, s)
      BY <2>5, <2>6 DEF Reached, Shared
    <3>2. {<<r, tree.ref[r]>> : r \in F(tree)} = {<<r, base.ref[r]>> : r \in F(base)}
      BY <2>4, <3>1
    <3> QED
      BY <3>2 DEF Ships
  <2>8. tree.rest \cap {s} = base.rest \cap {s}
    BY <2>3
  <2> QED
    BY <2>3, <2>7, <2>8 DEF Ships
<1> QED
  BY <1>1, <1>2, <1>3, PTL DEF PolicySpec

-----------------------------------------------------------------------------
(* The selection of findings and the review page *)

\* What a visit comes to holds what it started from and what its members lead
\* to, and is within any set that does.
LEMMA VisitedLeast ==
  ASSUME NEW leads, NEW from, from \subseteq DOMAIN leads
  PROVE  /\ from \subseteq Visited(leads, from)
         /\ Visited(leads, from) \subseteq DOMAIN leads
         /\ \A S : S \subseteq DOMAIN leads /\ from \subseteq S /\ (\A c \in S : leads[c] \subseteq S)
                     => Visited(leads, from) \subseteq S
<1> DEFINE ends == UNION {leads[c] : c \in DOMAIN leads}
<1>1. ASSUME NEW S, S \subseteq DOMAIN leads, from \subseteq S, \A c \in S : leads[c] \subseteq S,
             NEW d \in Visited(leads, from)
      PROVE  d \in S
  <2> DEFINE T == from \cup (S \cap ends)
  <2>1. S \cap ends \in SUBSET ends OBVIOUS
  <2>2. T \in {from \cup U : U \in SUBSET ends} BY <2>1
  <2>3. T \subseteq S BY <1>1
  <2>4. \A c \in T : leads[c] \subseteq T BY <1>1, <2>3
  <2>5. d \in T
    <3> HIDE DEF T
    <3> QED BY <1>1, <2>2, <2>4 DEF Visited
  <2> QED BY <2>3, <2>5
<1>2. from \subseteq Visited(leads, from) BY DEF Visited
<1>3. Visited(leads, from) \subseteq DOMAIN leads BY DEF Visited
<1> QED BY <1>1, <1>2, <1>3

LEMMA VisitedClosed ==
  ASSUME NEW leads, NEW from, \A c \in DOMAIN leads : leads[c] \subseteq DOMAIN leads,
         NEW c \in Visited(leads, from)
  PROVE  leads[c] \subseteq Visited(leads, from)
BY DEF Visited

\* Who visits from where a visit comes to, comes no further.
LEMMA VisitedFrom ==
  ASSUME NEW leads, NEW from, from \subseteq DOMAIN leads,
         \A c \in DOMAIN leads : leads[c] \subseteq DOMAIN leads,
         NEW d \in Visited(leads, from)
  PROVE  Visited(leads, {d}) \subseteq Visited(leads, from)
<1>1. Visited(leads, from) \subseteq DOMAIN leads BY VisitedLeast
<1>2. \A c \in Visited(leads, from) : leads[c] \subseteq Visited(leads, from) BY VisitedClosed
<1>3. {d} \subseteq Visited(leads, from) OBVIOUS
<1>4. {d} \subseteq DOMAIN leads BY <1>1, <1>3
<1> QED BY <1>1, <1>2, <1>3, <1>4, VisitedLeast

\* What the proofs need of an audit that is accepted.
PageReport(r) ==
  /\ \A f \in DOMAIN r : /\ r[f].deps \subseteq DOMAIN r
                         /\ r[f].mode \in {"fix", "manual", "external"}
                         /\ r[f].status \in {"open", "done", "closed"}
  /\ \A d \in Decisions(r) : OptionsAccepted(r, d)

LEMMA AcceptedReport == ASSUME NEW r \in AcceptedReports PROVE PageReport(r)
<1>1. PICK fs \in SUBSET Findings : r \in [fs -> FindingRecords] BY DEF AcceptedReports
<1>2. DOMAIN r = fs BY <1>1
<1>3. \A f \in fs : r[f] \in FindingRecords BY <1>1
<1>4. \A e \in FindingRecords : e.mode \in {"fix", "manual", "external"} /\ e.status \in {"open", "done", "closed"}
  BY DEF FindingRecords
<1>5. AuditAccepted(r) BY DEF AcceptedReports
<1> QED BY <1>2, <1>3, <1>4, <1>5 DEF AuditAccepted, PageReport

LEMMA PassesFacts ==
  ASSUME NEW r, NEW ans, PageReport(r)
  PROVE  /\ DOMAIN Passes(r, ans) = DOMAIN r
         /\ \A c \in DOMAIN r : Passes(r, ans)[c] = {d \in r[c].deps : ~Done(r, d) /\ ~Blocks(r, ans, d, c)}
         /\ \A c \in DOMAIN Passes(r, ans) : Passes(r, ans)[c] \subseteq DOMAIN Passes(r, ans)
BY DEF Passes, PageReport

LEMMA IncludesFacts ==
  ASSUME NEW r, PageReport(r)
  PROVE  /\ DOMAIN Includes(r) = DOMAIN r
         /\ \A c \in DOMAIN r : Includes(r)[c] = {d \in r[c].deps : d \in Fixes(r) \cup Decisions(r) /\ ~Done(r, d)}
         /\ \A c \in DOMAIN Includes(r) : Includes(r)[c] \subseteq DOMAIN Includes(r)
BY DEF Includes, PageReport

\* The page and the command find the same in the way of a finding.
LEMMA PageBlocksAlike ==
  ASSUME NEW r, NEW ans, NEW d, NEW c, r[d].mode \in {"fix", "manual", "external"}, d \in DOMAIN r
  PROVE  ~Done(r, d) => (PageBlocks(r, ans, d, c) <=> Blocks(r, ans, d, c))
<1>1. CASE r[d].mode = "manual"
  <2>1. c \in Unlocked(r, ans, d) <=> \E o \in Chosen(r, ans, d) : c \in r[d].unlocks[o] BY DEF Unlocked
  <2> QED BY <1>1, <2>1 DEF PageBlocks, Blocks
<1>2. CASE r[d].mode /= "manual" BY <1>2 DEF PageBlocks, Blocks, Done
<1> QED BY <1>1, <1>2

LEMMA DoneBlocksNothing ==
  ASSUME NEW r, NEW ans, NEW d, NEW c, Done(r, d)
  PROVE  ~PageBlocks(r, ans, d, c) /\ ~Blocks(r, ans, d, c)
BY DEF PageBlocks, Blocks, Done

LEMMA PageBlockersAlike ==
  ASSUME NEW r, NEW ans, PageReport(r), NEW f \in DOMAIN r
  PROVE  PageBlockers(r, ans, f) = Blockers(r, ans, f)
<1>1. \A c \in DOMAIN r : \A d \in r[c].deps : PageBlocks(r, ans, d, c) <=> Blocks(r, ans, d, c)
  BY PageBlocksAlike, DoneBlocksNothing DEF PageReport
<1>2. PagePasses(r, ans) = Passes(r, ans) BY <1>1 DEF PagePasses, Passes
<1>3. Visited(Passes(r, ans), {f}) \subseteq DOMAIN r BY PassesFacts, VisitedLeast
<1>4. \A c \in Visited(Passes(r, ans), {f}) :
        {d \in r[c].deps : PageBlocks(r, ans, d, c)} = {d \in r[c].deps : Blocks(r, ans, d, c)}
  BY <1>1, <1>3
<1> QED BY <1>2, <1>4 DEF PageBlockers, Blockers

\* What the page offers is what the command would take.
LEMMA PageOffersSelectable ==
  ASSUME NEW r, NEW ans, PageReport(r), NEW f \in DOMAIN r
  PROVE  IsSelectable(r, ans, f) <=> Selectable(r, ans, f)
<1>1. f \in OpenFixes(r) <=> r[f].mode = "fix" /\ r[f].status = "open" BY DEF OpenFixes, Fixes, OfMode
<1>2. r[f].mode \notin {"manual", "external"} /\ r[f].status \notin {"done", "closed"} <=> f \in OpenFixes(r)
  BY <1>1 DEF PageReport
<1> QED BY <1>2, PageBlockersAlike DEF IsSelectable, Selectable

\* Findings on the way of a selection that have nothing in their own way.
Unhindered(r, ans) == {f \in OpenFixes(r) \cup Decisions(r) : Blockers(r, ans, f) = {}}

LEMMA SelectableIsClear ==
  ASSUME NEW r, NEW ans, NEW f
  PROVE  Selectable(r, ans, f) <=> f \in Unhindered(r, ans) /\ f \in Fixes(r)
BY DEF Selectable, Unhindered, OpenFixes, Fixes, Decisions, OfMode

\* What is in the way of a finding is in the way of all that depend on it and
\* are let through to it.
LEMMA BlockersBelow ==
  ASSUME NEW r, NEW ans, PageReport(r), NEW f \in DOMAIN r, NEW d \in Passes(r, ans)[f]
  PROVE  Blockers(r, ans, d) \subseteq Blockers(r, ans, f)
<1> DEFINE leads == Passes(r, ans)
<1>1. f \in Visited(leads, {f}) BY VisitedLeast, PassesFacts
<1>2. d \in Visited(leads, {f}) BY <1>1, VisitedClosed, PassesFacts
<1>3. Visited(leads, {d}) \subseteq Visited(leads, {f}) BY <1>2, VisitedFrom, PassesFacts
<1> QED BY <1>3 DEF Blockers

\* Nothing in the way of a finding: what it includes is clear as well.
LEMMA ClearStep ==
  ASSUME NEW r, NEW ans, PageReport(r), NEW c \in Unhindered(r, ans), NEW d \in r[c].deps
  PROVE  /\ ~Blocks(r, ans, d, c)
         /\ d \in DOMAIN r
         /\ Done(r, d) \/ d \in Unhindered(r, ans)
         /\ d \in Includes(r)[c] => d \in Unhindered(r, ans)
         /\ d \in Includes(r)[c] \/ Done(r, d)
<1>1. c \in DOMAIN r BY DEF Unhindered, OpenFixes, Fixes, Decisions, OfMode
<1>2. d \in DOMAIN r BY <1>1 DEF PageReport
<1>3. c \in Visited(Passes(r, ans), {c}) BY <1>1, VisitedLeast, PassesFacts
<1>4. ~Blocks(r, ans, d, c) BY <1>3 DEF Unhindered, Blockers
<1>5. CASE Done(r, d) BY <1>1, <1>2, <1>4, <1>5, IncludesFacts
<1>6. CASE ~Done(r, d)
  <2>1. d \in Passes(r, ans)[c] BY <1>1, <1>4, <1>6, PassesFacts
  <2>2. Blockers(r, ans, d) = {} BY <1>1, <2>1, BlockersBelow DEF Unhindered
  <2>3. d \in OpenFixes(r) \cup Decisions(r)
    BY <1>2, <1>4, <1>6 DEF Blocks, Done, OpenFixes, Fixes, Decisions, OfMode, PageReport
  <2>4. d \in Fixes(r) \cup Decisions(r) BY <2>3 DEF OpenFixes
  <2>5. d \in Includes(r)[c] BY <1>1, <2>4, <1>6, IncludesFacts
  <2> QED BY <1>2, <1>4, <2>2, <2>3, <2>5 DEF Unhindered
<1> QED BY <1>5, <1>6

\* All that is required of selectable findings is clear.
LEMMA IncludedIsClear ==
  ASSUME NEW r, NEW ans, PageReport(r), NEW ids, ids \subseteq DOMAIN r, \A f \in ids : Selectable(r, ans, f)
  PROVE  Visited(Includes(r), ids) \subseteq Unhindered(r, ans)
<1>1. ids \subseteq Unhindered(r, ans) BY SelectableIsClear
<1>2. Unhindered(r, ans) \subseteq DOMAIN r BY DEF Unhindered, OpenFixes, Fixes, Decisions, OfMode
<1>3. ASSUME NEW c \in Unhindered(r, ans) PROVE Includes(r)[c] \subseteq Unhindered(r, ans)
  <2>1. Includes(r)[c] \subseteq r[c].deps BY <1>2, IncludesFacts
  <2> QED BY <2>1, ClearStep
<1> QED BY <1>1, <1>2, <1>3, VisitedLeast, IncludesFacts

LEMMA ClosureFacts ==
  ASSUME NEW r, PageReport(r), NEW ids, ids \subseteq DOMAIN r
  PROVE  ids \subseteq Closure(r, ids) /\ Closure(r, ids) \subseteq DOMAIN r
BY DEF Closure, Fixes, OfMode

\* What is selected with selectable findings is selectable itself.
LEMMA ClosureSelectable ==
  ASSUME NEW r, NEW ans, PageReport(r), NEW ids, ids \subseteq DOMAIN r, \A f \in ids : Selectable(r, ans, f)
  PROVE  \A f \in Closure(r, ids) : Selectable(r, ans, f)
BY IncludedIsClear, SelectableIsClear DEF Closure

LEMMA ClosureOfNone == ASSUME NEW r, PageReport(r) PROVE Closure(r, {}) = {}
<1>1. Visited(Includes(r), {}) \subseteq {} BY VisitedLeast
<1> QED BY <1>1 DEF Closure

\* The page selects what the command selects.
LEMMA PageClosureAlike ==
  ASSUME NEW r, NEW ans, PageReport(r), NEW ids, ids \subseteq DOMAIN r, \A f \in ids : IsSelectable(r, ans, f)
  PROVE  PageClosure(r, ans, ids) = Closure(r, ids)
<1> DEFINE able  == {f \in DOMAIN r : IsSelectable(r, ans, f)}
           leads == [c \in DOMAIN r |-> {d \in r[c].deps : ~Done(r, d) /\ d \in able \cup Decisions(r)}]
           full  == Visited(Includes(r), ids)
           shown == Visited(leads, ids)
<1>1. \A f \in DOMAIN r : IsSelectable(r, ans, f) <=> Selectable(r, ans, f) BY PageOffersSelectable
<1>2. able = Unhindered(r, ans) \cap Fixes(r)
  <2>1. Unhindered(r, ans) \subseteq DOMAIN r BY DEF Unhindered, OpenFixes, Fixes, Decisions, OfMode
  <2> QED BY <1>1, <2>1, SelectableIsClear
<1>3. ids \cap able = ids OBVIOUS
<1>4. PageClosure(r, ans, ids) = shown \cap able BY <1>3 DEF PageClosure
<1>5. full \subseteq Unhindered(r, ans) BY <1>1, IncludedIsClear
<1>6. ids \subseteq full /\ full \subseteq DOMAIN r BY VisitedLeast, IncludesFacts
<1>7. ids \subseteq shown /\ shown \subseteq DOMAIN r BY VisitedLeast
<1>8. \A c \in DOMAIN leads : leads[c] \subseteq DOMAIN leads BY DEF PageReport
<1>9. shown \subseteq full
  <2>1. ASSUME NEW c \in full PROVE leads[c] \subseteq full
    <3>1. Includes(r)[c] \subseteq full BY VisitedClosed, IncludesFacts
    <3>2. c \in DOMAIN r BY <1>6
    <3>3. leads[c] \subseteq Includes(r)[c] BY <1>2, <3>2, IncludesFacts
    <3> QED BY <3>1, <3>3
  <2>2. DOMAIN leads = DOMAIN r OBVIOUS
  <2> HIDE DEF full, leads
  <2> QED BY <2>1, <2>2, <1>6, VisitedLeast DEF shown
<1>10. full \subseteq shown
  <2> DEFINE both == shown \cap full
  <2>1. ASSUME NEW c \in both, NEW d \in Includes(r)[c] PROVE d \in both
    <3>1. c \in DOMAIN r /\ c \in Unhindered(r, ans) BY <1>5, <1>6
    <3>2. d \in r[c].deps /\ ~Done(r, d) /\ d \in Fixes(r) \cup Decisions(r) BY <3>1, IncludesFacts
    <3>3. d \in Unhindered(r, ans) BY <3>1, <3>2, ClearStep
    <3>4. d \in able \cup Decisions(r) BY <1>2, <3>2, <3>3
    <3>5. d \in leads[c] BY <3>1, <3>2, <3>4
    <3>6. d \in shown
      <4> HIDE DEF leads
      <4> QED BY <1>8, <3>5, VisitedClosed
    <3>7. d \in full
      <4> HIDE DEF leads
      <4> QED BY VisitedClosed, IncludesFacts
    <3> QED BY <3>6, <3>7
  <2>2. ids \subseteq both /\ both \subseteq DOMAIN r BY <1>6, <1>7
  <2> HIDE DEF both
  <2>3. full \subseteq both BY <2>1, <2>2, VisitedLeast, IncludesFacts
  <2> QED BY <2>3 DEF both
<1>11. shown \cap able = full \cap Fixes(r)
  <2>1. shown = full BY <1>9, <1>10
  <2>2. able \subseteq Fixes(r) BY <1>2
  <2>3. full \cap Fixes(r) \subseteq able BY <1>2, <1>5
  <2> HIDE DEF shown, full, able
  <2> QED BY <2>1, <2>2, <2>3
<1>12. ids \subseteq full \cap Fixes(r) BY <1>2, <1>3, <1>6
<1> QED BY <1>4, <1>11, <1>12 DEF Closure

\* An answer to a decision unlocks fixes only, so nothing passes a decision that
\* another one depends on.
LEMMA UnlocksFixes ==
  ASSUME NEW r, NEW ans, PageReport(r), NEW d \in Decisions(r)
  PROVE  Unlocked(r, ans, d) \subseteq Fixes(r)
<1>1. ASSUME NEW o \in Chosen(r, ans, d) PROVE r[d].unlocks[o] \subseteq Fixes(r)
  <2>1. o \in DOMAIN r[d].unlocks BY DEF Chosen
  <2>2. OptionsAccepted(r, d) /\ HasOptions(r, d) BY <2>1 DEF PageReport, HasOptions
  <2>3. UNION {r[d].unlocks[p] : p \in DOMAIN r[d].unlocks} = {f \in Fixes(r) : d \in r[f].deps}
    BY <2>2 DEF OptionsAccepted
  <2> QED BY <2>1, <2>3
<1> QED BY <1>1 DEF Unlocked

\* Whatever is selected comes with all that it needs.
LEMMA SelectionIsComplete ==
  ASSUME NEW r, NEW ans, PageReport(r), NEW ids, ids \subseteq DOMAIN r, \A f \in ids : Selectable(r, ans, f),
         NEW f \in Closure(r, ids), NEW d \in r[f].deps
  PROVE  \/ d \in Closure(r, ids)
         \/ Done(r, d)
         \/ /\ d \in Decisions(r) /\ f \in Unlocked(r, ans, d)
            /\ \A n \in r[d].deps : n \in Closure(r, ids) \/ Done(r, n)
<1> DEFINE full == Visited(Includes(r), ids)
<1>1. full \subseteq Unhindered(r, ans) BY IncludedIsClear
<1>2. f \in full BY VisitedLeast, IncludesFacts DEF Closure
<1>3. \A c \in full : Includes(r)[c] \subseteq full BY VisitedClosed, IncludesFacts
<1>4. full \cap Fixes(r) \subseteq Closure(r, ids) BY DEF Closure
<1>5. full \subseteq DOMAIN r BY VisitedLeast, IncludesFacts
<1> HIDE DEF full
<1>6. d \in full \/ Done(r, d) BY <1>1, <1>2, <1>3, ClearStep
<1>7. ~Blocks(r, ans, d, f) BY <1>1, <1>2, ClearStep
<1>8. CASE d \in full /\ d \in Decisions(r)
  <2>1. f \in Unlocked(r, ans, d) BY <1>7, <1>8 DEF Blocks, Decisions, OfMode
  <2>2. ASSUME NEW n \in r[d].deps, ~Done(r, n) PROVE n \in Closure(r, ids)
    <3>1. n \in full BY <1>1, <1>3, <1>8, <2>2, ClearStep
    <3>2. ~Blocks(r, ans, n, d) BY <1>1, <1>8, ClearStep
    <3>3. d \notin Fixes(r) BY <1>8 DEF Fixes, Decisions, OfMode
    <3>4. n \notin Decisions(r) BY <3>2, <3>3, UnlocksFixes DEF Blocks, Decisions, OfMode
    <3>5. n \in Fixes(r) BY <1>1, <3>1, <3>4 DEF Unhindered, OpenFixes
    <3> QED BY <1>4, <3>1, <3>5
  <2> QED BY <1>8, <2>1, <2>2
<1>9. CASE d \in full /\ d \notin Decisions(r)
  <2>1. d \in Fixes(r) BY <1>1, <1>9 DEF Unhindered, OpenFixes
  <2> QED BY <1>4, <1>9, <2>1
<1> QED BY <1>6, <1>8, <1>9

\* What keeps an open fix out of "select --all" is no question that could be
\* asked, but for a decision behind a decision.
LEMMA NoQuestionLeft ==
  ASSUME NEW r, NEW ans, PageReport(r), PendingDecisions(r, ans) = {},
         NEW f \in OpenFixes(r), NEW d \in Blockers(r, ans, f) \cap Decisions(r), HasOptions(r, d),
         Chosen(r, ans, d) = {}
  PROVE  \E m \in Decisions(r) : d \in r[m].deps
<1> DEFINE come == Visited(Passes(r, ans), {f})
<1>1. PICK c \in come : d \in r[c].deps BY DEF Blockers
<1>2. f \in DOMAIN r BY DEF OpenFixes, Fixes, OfMode
<1>3. OpenFixes(r) \cup Decisions(r) \subseteq DOMAIN r BY DEF OpenFixes, Fixes, Decisions, OfMode
<1>4. ASSUME NEW e \in OpenFixes(r) \cup Decisions(r) PROVE Passes(r, ans)[e] \subseteq OpenFixes(r) \cup Decisions(r)
  <2>1. e \in DOMAIN r BY <1>3
  <2>2. \A g \in Passes(r, ans)[e] : g \in DOMAIN r /\ ~Done(r, g) /\ ~Blocks(r, ans, g, e)
    BY <2>1, PassesFacts DEF PageReport
  <2> QED BY <2>2 DEF Blocks, Done, OpenFixes, Fixes, Decisions, OfMode, PageReport
<1>5. come \subseteq OpenFixes(r) \cup Decisions(r)
  <2> DEFINE through == OpenFixes(r) \cup Decisions(r)
  <2>1. through \subseteq DOMAIN Passes(r, ans) /\ {f} \subseteq through /\ {f} \subseteq DOMAIN Passes(r, ans)
    BY <1>2, <1>3, PassesFacts
  <2>2. \A e \in through : Passes(r, ans)[e] \subseteq through BY <1>4
  <2> HIDE DEF through
  <2>3. come \subseteq through BY <2>1, <2>2, VisitedLeast
  <2> QED BY <2>3 DEF through
<1>6. ~UnlocksWork(r, d) BY DEF PendingDecisions
<1>7. c \notin OpenFixes(r)
  <2> SUFFICES ASSUME c \in OpenFixes(r) PROVE FALSE OBVIOUS
  <2>1. OptionsAccepted(r, d) BY DEF PageReport
  <2>2. UNION {r[d].unlocks[o] : o \in DOMAIN r[d].unlocks} = {g \in Fixes(r) : d \in r[g].deps}
    BY <2>1 DEF OptionsAccepted
  <2>3. c \in UNION {r[d].unlocks[o] : o \in DOMAIN r[d].unlocks} BY <1>1, <2>2 DEF OpenFixes
  <2>4. PICK o \in DOMAIN r[d].unlocks : c \in r[d].unlocks[o] BY <2>3
  <2> QED BY <1>6, <2>4 DEF UnlocksWork
<1> QED BY <1>1, <1>5, <1>7

\* What is approved was accepted under the answers that are kept with it.
ApprovalHolds(r, a) ==
  /\ AnswersAccepted(r, a.answers)
  /\ a.requested \subseteq DOMAIN r
  /\ \A f \in a.requested : Selectable(r, a.answers, f)
  /\ a.approved = Closure(r, a.requested)

\* The page shows what the command would select for the findings ticked, all of
\* which can be selected under answers that are accepted.
PageHolds(r, ans, ticked, shown) ==
  /\ AnswersAccepted(r, ans)
  /\ ticked \subseteq DOMAIN r
  /\ \A f \in ticked : IsSelectable(r, ans, f)
  /\ shown = Closure(r, ticked)

PageInv == PageReport(report) /\ PageHolds(report, answers, requested, selected) /\ ApprovalHolds(report, approval)

LEMMA NothingApproved == ASSUME NEW r, PageReport(r) PROVE ApprovalHolds(r, NoApproval)
<1>1. DOMAIN NoApproval.answers = {} BY DEF NoApproval
<1> QED BY <1>1, ClosureOfNone DEF ApprovalHolds, NoApproval, AnswersAccepted

\* An approval is what the page may show.
LEMMA ApprovalShown ==
  ASSUME NEW r, NEW a, PageReport(r), ApprovalHolds(r, a)
  PROVE  PageHolds(r, a.answers, a.requested, a.approved)
BY PageOffersSelectable DEF ApprovalHolds, PageHolds

LEMMA PageInitHolds == PageInit(AcceptedReports) => PageInv
<1> SUFFICES ASSUME PageInit(AcceptedReports) PROVE PageInv OBVIOUS
<1>1. PageReport(report) BY AcceptedReport DEF PageInit
<1>2. ApprovalHolds(report, NoApproval) BY <1>1, NothingApproved
<1>3. PageHolds(report, NoApproval.answers, NoApproval.requested, NoApproval.approved) BY <1>1, <1>2, ApprovalShown
<1> QED BY <1>1, <1>2, <1>3 DEF PageInit, PageInv, NoApproval

LEMMA AnswerGiven ==
  ASSUME NEW r, NEW ans, AnswersAccepted(r, ans), NEW d \in Decisions(r), NEW o \in DOMAIN r[d].unlocks
  PROVE  AnswersAccepted(r, [e \in (DOMAIN ans) \cup {d} |-> IF e = d THEN o ELSE ans[e]])
<1> DEFINE new == [e \in (DOMAIN ans) \cup {d} |-> IF e = d THEN o ELSE ans[e]]
<1>a. DOMAIN new = (DOMAIN ans) \cup {d} /\ new[d] = o /\ \A e \in DOMAIN ans : e /= d => new[e] = ans[e]
  OBVIOUS
<1>b. DOMAIN ans \subseteq Decisions(r) /\ \A e \in DOMAIN ans : HasOptions(r, e) /\ ans[e] \in DOMAIN r[e].unlocks
  BY DEF AnswersAccepted, Chosen
<1> HIDE DEF new
<1>1. ASSUME NEW e \in DOMAIN new PROVE HasOptions(r, e) /\ Chosen(r, new, e) /= {}
  <2>1. CASE e = d BY <1>a, <2>1 DEF HasOptions, Chosen
  <2>2. CASE e /= d BY <1>a, <1>b, <1>1, <2>2 DEF Chosen
  <2> QED BY <2>1, <2>2
<1>2. DOMAIN new \subseteq Decisions(r) BY <1>a, <1>b
<1>3. AnswersAccepted(r, new) BY <1>1, <1>2 DEF AnswersAccepted
<1> QED BY <1>3 DEF new

LEMMA AnswerCleared ==
  ASSUME NEW r, NEW ans, AnswersAccepted(r, ans), NEW d \in Decisions(r)
  PROVE  AnswersAccepted(r, [e \in (DOMAIN ans) \ {d} |-> ans[e]])
BY DEF AnswersAccepted, HasOptions, Chosen

\* Showing what was ticked keeps what the page holds.
LEMMA ShownHolds ==
  ASSUME NEW r, NEW ans, NEW ticked, PageReport(r), AnswersAccepted(r, ans), ticked \subseteq DOMAIN r,
         \A f \in ticked : IsSelectable(r, ans, f)
  PROVE  PageHolds(r, ans, ticked, PageClosure(r, ans, ticked))
BY PageClosureAlike DEF PageHolds

LEMMA SelectedApproval ==
  ASSUME NEW r, NEW ans, NEW ids, NEW ao, PageReport(r), SelectionAccepted(r, ans, ids, ao)
  PROVE  ApprovalHolds(r, [requested |-> ids, approved |-> Closure(r, ids), answers |-> ans])
BY ClosureFacts DEF ApprovalHolds, SelectionAccepted

LEMMA PageStep == PageInv /\ [PageNext]_pageVars => PageInv'
<1> SUFFICES ASSUME PageInv, [PageNext]_pageVars PROVE PageInv' OBVIOUS
<1> USE DEF PageInv
<1>1. ASSUME NEW d \in Decisions(report), GiveAnswer(d) \/ ClearAnswer(d) PROVE PageInv'
  <2>1. PICK ans : AnswersAccepted(report, ans) /\ Answered(ans)
    <3>1. AnswersAccepted(report, answers) BY DEF PageHolds
    <3>2. CASE GiveAnswer(d)
      <4>1. PICK o \in DOMAIN report[d].unlocks :
              Answered([e \in (DOMAIN answers) \cup {d} |-> IF e = d THEN o ELSE answers[e]])
        BY <3>2 DEF GiveAnswer
      <4>2. AnswersAccepted(report, [e \in (DOMAIN answers) \cup {d} |-> IF e = d THEN o ELSE answers[e]])
        BY <3>1, AnswerGiven
      <4> QED BY <4>1, <4>2
    <3>3. CASE ClearAnswer(d)
      <4>1. Answered([e \in (DOMAIN answers) \ {d} |-> answers[e]]) BY <3>3 DEF ClearAnswer
      <4>2. AnswersAccepted(report, [e \in (DOMAIN answers) \ {d} |-> answers[e]]) BY <3>1, AnswerCleared
      <4> QED BY <4>1, <4>2
    <3> QED BY <1>1, <3>2, <3>3
  <2> DEFINE kept == {f \in requested : IsSelectable(report, ans, f)}
  <2>2. kept \subseteq DOMAIN report BY DEF PageHolds
  <2>3. PageHolds(report, ans, kept, PageClosure(report, ans, kept)) BY <2>1, <2>2, ShownHolds
  <2>4. report' = report /\ approval' = approval /\ answers' = ans /\ requested' = kept
          /\ selected' = PageClosure(report, ans, kept)
    BY <2>1 DEF Answered, Sync
  <2> HIDE DEF kept
  <2> QED BY <2>3, <2>4
<1>2. ASSUME NEW f \in DOMAIN report, Tick(f) PROVE PageInv'
  <2> DEFINE ticked == IF f \in requested THEN requested \ {f} ELSE requested \cup {f}
  <2>1. ticked \subseteq DOMAIN report /\ \A g \in ticked : IsSelectable(report, answers, g)
    BY <1>2 DEF PageHolds, Tick
  <2>2. PageHolds(report, answers, ticked, PageClosure(report, answers, ticked)) BY <2>1, ShownHolds DEF PageHolds
  <2>3. report' = report /\ approval' = approval /\ answers' = answers /\ requested' = ticked
          /\ selected' = PageClosure(report, answers, ticked)
    BY <1>2 DEF Tick, Sync
  <2> HIDE DEF ticked
  <2> QED BY <2>2, <2>3
<1>3. ASSUME NEW ids, NEW ao, SelectionAccepted(report, answers, ids, ao), Select(ids, answers),
             UNCHANGED <<report, answers, requested, selected>>
      PROVE  PageInv'
  BY <1>3, SelectedApproval DEF Select
<1>4. ASSUME RunCommand PROVE PageInv' BY <1>3, <1>4 DEF RunCommand
<1>5. ASSUME RunAll PROVE PageInv' BY <1>3, <1>5 DEF RunAll
<1>6. ASSUME Reopen PROVE PageInv'
  <2>1. ApprovalHolds(report, approval') BY <1>6, NothingApproved DEF Reopen
  <2>2. PageHolds(report, approval'.answers, approval'.requested, approval'.approved) BY <2>1, ApprovalShown
  <2> QED BY <1>6, <2>1, <2>2 DEF Reopen
<1>7. ASSUME UNCHANGED pageVars PROVE PageInv' BY <1>7 DEF pageVars
<1> QED BY <1>1, <1>2, <1>4, <1>5, <1>6, <1>7 DEF PageNext

LEMMA PageInvariant == PageSpec => []PageInv
BY PageInitHolds, PageStep, PTL DEF PageSpec

LEMMA CommandAccepted == PageInv => PageCommandIsAccepted
<1> SUFFICES ASSUME PageInv, CommandIds /= {}
             PROVE  /\ SelectionAccepted(report, answers, CommandIds, CommandTarget)
                    /\ Closure(report, CommandIds) = selected
  BY DEF PageCommandIsAccepted
<1>1. CommandIds = requested BY ClosureFacts DEF CommandIds, PageInv, PageHolds
<1>2. \A f \in requested : Selectable(report, answers, f) BY PageOffersSelectable DEF PageInv, PageHolds
<1>3. \A f \in Closure(report, requested) : Selectable(report, answers, f)
  BY <1>2, ClosureSelectable DEF PageInv, PageHolds
<1> QED BY <1>1, <1>3 DEF SelectionAccepted, CommandTarget, PageInv, PageHolds

LEMMA OfferedAccepted == PageInv => OfferedIsSelectable
<1> SUFFICES ASSUME PageInv, NEW f \in DOMAIN report
             PROVE  IsSelectable(report, answers, f) <=> SelectionAccepted(report, answers, {f}, FALSE)
  BY DEF OfferedIsSelectable
<1>1. IsSelectable(report, answers, f) <=> Selectable(report, answers, f) BY PageOffersSelectable DEF PageInv
<1>2. f \in Closure(report, {f}) BY ClosureFacts DEF PageInv
<1>3. Selectable(report, answers, f) => \A g \in Closure(report, {f}) : Selectable(report, answers, g)
  BY ClosureSelectable DEF PageInv
<1> QED BY <1>1, <1>2, <1>3 DEF SelectionAccepted, PageInv, PageHolds

\* The command that the page prints is accepted and selects what the page shows,
\* and a finding is offered exactly if the command would take it alone, whatever
\* the audit, the answers and the ticks (syncDependencyClosure, eligibilityFor
\* against normalize_selection, dependency_closure).
THEOREM PageAgreement == PageSpec => []PageAgreesWithSelect
BY PageInvariant, CommandAccepted, OfferedAccepted, PTL DEF PageAgreesWithSelect

LEMMA ApprovedComplete == PageInv => ApprovalIsComplete
<1> SUFFICES ASSUME PageInv, NEW f \in approval.approved, NEW d \in report[f].deps
             PROVE  \/ d \in approval.approved
                    \/ Done(report, d)
                    \/ /\ d \in Decisions(report) /\ f \in Unlocked(report, approval.answers, d)
                       /\ \A n \in report[d].deps : n \in approval.approved \/ Done(report, n)
  BY DEF ApprovalIsComplete
<1> QED BY SelectionIsComplete DEF PageInv, ApprovalHolds

LEMMA NoQuestions == PageInv => AllLeavesNoQuestion
BY NoQuestionLeft DEF PageInv, AllLeavesNoQuestion

\* What is approved comes with all that it needs, decisions on the way answered
\* in its favour, and "select --all" leaves no fix out for want of an answer that
\* could be asked for (selection_blockers, dependency_closure,
\* unresolved_select_all_decisions).
THEOREM ApprovalsComplete == PageSpec => []ApprovalsAreComplete
BY PageInvariant, ApprovedComplete, NoQuestions, PTL DEF ApprovalsAreComplete
=============================================================================
