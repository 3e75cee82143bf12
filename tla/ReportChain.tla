---------------------------- MODULE ReportChain ----------------------------
(***************************************************************************)
(* From an audit to the page about what was instrumented: four files, each *)
(* bound to the ones it was made from by digests, written by sessions that *)
(* read the files one after the other while others write them              *)
(* (observe_report.py: select, instrumentation-digest, validate-flow,      *)
(* render-instrumentation-html).  A digest is equal when what it was taken *)
(* from is equal, so a file here simply contains what it was made from.    *)
(* The sessions of the skills write the instrumentation and the            *)
(* verification themselves, and may get them wrong.                        *)
(***************************************************************************)
EXTENDS ProofRules

CONSTANTS
  Reporters,   \* sessions
  Audits,      \* contents of the audit
  Work,        \* findings that may be approved
  RowKinds,    \* verification rows that a session may write
  MaxWrites    \* bound: files written in a behaviour

ASSUME ChainAssumption == MaxWrites \in Nat

VARIABLES
  file,     \* the four files
  job,      \* what each session is doing, and what it has read so far
  page,     \* otel-instrumentation.html: the files it was made from
  writes

chainVars == <<file, job, page, writes>>

Order   == <<"audit", "selection", "instrumentation", "verify">>
Missing == [kind |-> "missing"]
Kinds   == {"select", "instrument", "verify", "render"}

Audit(a)                  == [kind |-> "audit", audit |-> a]
Selection(a, ids)         == [kind |-> "selection", audit |-> a, approved |-> ids]
Instrumentation(a, s, st, r) ==
  [kind |-> "instrumentation", audit |-> a, selection |-> s, statuses |-> st, result |-> r]
Verification(a, i, rows, r) ==
  [kind |-> "verify", audit |-> a, instrumentation |-> i, rows |-> rows, result |-> r]

Resting == [kind |-> "none", got |-> <<>>]

\* The audit is written, and findings may have been approved before.
ChainInit ==
  /\ \E a \in Audits : \E s \in {Missing} \cup {Selection(Audit(a), ids) : ids \in SUBSET Work} :
       file = [audit |-> Audit(a), selection |-> s, instrumentation |-> Missing, verify |-> Missing]
  /\ job = [s \in Reporters |-> Resting] /\ page = Missing /\ writes = 0

\* Mutation: a selection is taken for whatever audit there is by now.
SelectionOfAnyAudit(s, got) == s.kind = "selection"

\* normalize_selection, for the digest of the audit.
SelectionBound(s, got) == s.kind = "selection" /\ s.audit = got[1]

\* normalize_instrumentation: the digests of the audit and of the selection.
InstrumentationBound(i, got) ==
  /\ i.kind = "instrumentation" /\ i.audit = got[1] /\ i.selection = got[2]
  /\ DOMAIN i.statuses = got[2].approved
  /\ InstrumentationAccepted(Values(i.statuses), i.result)

\* normalize_verify: the digests of the audit and of the instrumentation.
VerifyBound(v, got) ==
  /\ v.kind = "verify" /\ v.audit = got[1] /\ v.instrumentation = got[3]
  /\ DOMAIN v.rows = got[2].approved
  /\ \A f \in DOMAIN v.rows : RowAccepted(v.rows[f])
  /\ VerifyAccepted(Values(v.rows), v.result)

Bound(content, got) ==
  CASE Len(got) = 1 -> SelectionBound(content, got)
    [] Len(got) = 2 -> InstrumentationBound(content, got)
    [] Len(got) = 3 -> VerifyBound(content, got)

Needed(kind) == CASE kind = "select" -> 1 [] kind = "instrument" -> 2
                  [] kind = "verify" -> 3 [] kind = "render" -> 4

\* Every command reads the audit first.
Begin(s) ==
  /\ job[s].kind = "none" /\ writes < MaxWrites
  /\ \E k \in Kinds : job' = [job EXCEPT ![s] = [kind |-> k, got |-> <<file.audit>>]]
  /\ UNCHANGED <<file, page, writes>>

\* load_flow: the next file, against those already read.  The command fails on
\* a file that does not fit; only the verification may be left out.
Read(s) ==
  LET got == job[s].got
  IN /\ job[s].kind /= "none" /\ Len(got) < Needed(job[s].kind)
     /\ LET content == file[Order[Len(got) + 1]]
        IN job' = [job EXCEPT ![s] =
                     IF Bound(content, got) \/ (Len(got) = 3 /\ content = Missing)
                     THEN [@ EXCEPT !.got = Append(got, content)] ELSE Resting]
     /\ UNCHANGED <<file, page, writes>>

Ready(s, kind) == job[s].kind = kind /\ Len(job[s].got) = Needed(kind)

Wrote(s) ==
  /\ writes' = writes + 1
  /\ job' = [job EXCEPT ![s] = Resting]

\* cmd_select, cmd_adopt_selection
WriteSelection(s) ==
  /\ Ready(s, "select") /\ Wrote(s)
  /\ \E ids \in SUBSET Work :
       file' = [file EXCEPT !.selection = Selection(job[s].got[1], ids)]
  /\ UNCHANGED page

\* The session instruments the approved findings and records how each ended.
WriteInstrumentation(s) ==
  LET got == job[s].got
  IN /\ Ready(s, "instrument") /\ Wrote(s)
     /\ \E statuses \in [got[2].approved -> {"working", "not_working"}], r \in {"Pass", "Partial", "Fail"} :
          file' = [file EXCEPT !.instrumentation = Instrumentation(got[1], got[2], statuses, r)]
     /\ UNCHANGED page

\* The session verifies them, with the digest that instrumentation-digest printed.
WriteVerify(s) ==
  LET got == job[s].got
  IN /\ Ready(s, "verify") /\ Wrote(s)
     /\ \E rows \in [got[2].approved -> RowKinds], r \in {"Pass", "Partial", "Fail", "Not run"} :
          file' = [file EXCEPT !.verify = Verification(got[1], got[3], rows, r)]
     /\ UNCHANGED page

\* cmd_render_instrumentation_html
Render(s) ==
  /\ Ready(s, "render") /\ Wrote(s)
  /\ page' = [kind |-> "page", got |-> job[s].got]
  /\ UNCHANGED file

\* The audit skill writes the audit again.
ReAudit ==
  /\ writes < MaxWrites /\ writes' = writes + 1
  /\ \E a \in Audits : file' = [file EXCEPT !.audit = Audit(a)]
  /\ UNCHANGED <<job, page>>

ReporterStep(s) ==
  Begin(s) \/ Read(s) \/ WriteSelection(s) \/ WriteInstrumentation(s) \/ WriteVerify(s) \/ Render(s)

ChainNext == ReAudit \/ \E s \in Reporters : ReporterStep(s)
ChainSpec == ChainInit /\ [][ChainNext]_chainVars

----------------------------------------------------------------------------
Verdict(p) == p.got[4]
PageTotal(p) ==
  Aggregate(p.got[3].result, Values(p.got[3].statuses),
            IF p.got[4] = Missing THEN "none" ELSE p.got[4].result)

\* A page tells one story: its verification was made for the very instrumentation
\* it shows, that for the very selection, that for the very audit, although each
\* was read at another moment (load_flow and the digests of the normalize
\* functions).
PageIsOneStory ==
  page /= Missing =>
    LET got == page.got
    IN /\ got[2].audit = got[1] /\ got[3].selection = got[2] /\ got[3].audit = got[1]
       /\ got[4] /= Missing => got[4].instrumentation = got[3] /\ got[4].audit = got[1]

\* A page whose overall result is Pass after a verification has a proof for
\* everything approved: every scenario and telemetry item worked, was run,
\* and by something better than reading the source; a removed signal has
\* its replacement (render_instrumentation_summary, normalize_verify).
CompleteMeansProven ==
  page /= Missing /\ Verdict(page) /= Missing /\ PageTotal(page) = "Pass" =>
    /\ page.got[2].approved /= {}
    /\ \A f \in page.got[2].approved :
         LET row == Verdict(page).rows[f]
         IN /\ Proofs(row) /= {} /\ FindingHeading(row) = "complete"
            /\ \A p \in Proofs(row) : p.status = "working" /\ Ran(p) /\ p.evidence
            /\ \A i \in row.items : i.mode /= "static" /\ (i.removes => i.removal = "proved")
=============================================================================
