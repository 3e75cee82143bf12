-------------------------- MODULE FindingSelection --------------------------
(***************************************************************************)
(* Which findings of an audit a reviewer may approve together              *)
(* (observe_report_core.py, the select command), and the review page that  *)
(* computes the same in the reviewer's browser (the script of              *)
(* observe_report_html.py) and prints the command to run.  A report is a   *)
(* function from its findings; audit order only orders what is printed.    *)
(***************************************************************************)
EXTENDS Integers, FiniteSets

CONSTANTS
  Findings,  \* identities of findings
  Options    \* identities of the options of a decision

VARIABLES
  report,     \* the accepted audit report
  answers,    \* page: decisions answered, with the option chosen
  requested,  \* page: findings the reviewer ticked
  selected,   \* page: what those require
  approval    \* the selection file

pageVars == <<report, answers, requested, selected, approval>>

\* A finding: fix ("default" and "fix all"), a manual decision, or an external
\* follow-up; open, done, or closed (rejected, deferred); what it depends on;
\* the options of a decision, each with the findings it unlocks; whether it is
\* about Agent Observability.
FindingRecords ==
  [mode: {"fix", "manual", "external"}, status: {"open", "done", "closed"},
   deps: SUBSET Findings, unlocks: UNION {[O -> SUBSET Findings] : O \in SUBSET Options},
   ao: BOOLEAN]

OfMode(r, mode)  == {f \in DOMAIN r : r[f].mode = mode}
Fixes(r)        == OfMode(r, "fix")
Decisions(r)    == OfMode(r, "manual")
OpenFixes(r)    == {f \in Fixes(r) : r[f].status = "open"}
Done(r, f)       == r[f].mode = "fix" /\ r[f].status = "done"
HasOptions(r, d) == DOMAIN r[d].unlocks /= {}

\* Where a visit of the findings comes to: what it starts from and whatever its
\* members lead to, the least set closed under "leads".
Visited(leads, from) ==
  LET ends   == UNION {leads[c] : c \in DOMAIN leads}
      closed == {S \in {from \cup T : T \in SUBSET ends} : \A c \in S : leads[c] \subseteq S}
  IN {d \in DOMAIN leads : \A S \in closed : d \in S}

----------------------------------------------------------------------------
\* normalize_audit_report.

\* What a finding requires, directly or through others.
Requires(r, f) == Visited([c \in DOMAIN r |-> r[c].deps], r[f].deps)
Acyclic(r)    == \A f \in DOMAIN r : f \notin Requires(r, f)

\* The options of a decision share out the fixes that depend on it directly.
OptionsAccepted(r, d) ==
  HasOptions(r, d) =>
    LET unlocks == r[d].unlocks
    IN /\ Cardinality(DOMAIN unlocks) \in {2, 3}
       /\ UNION {unlocks[o] : o \in DOMAIN unlocks} = {f \in Fixes(r) : d \in r[f].deps}
       /\ \A o, p \in DOMAIN unlocks : o /= p => unlocks[o] \cap unlocks[p] = {}

\* Schema 2: a decision or follow-up is there because a fix requires it.
NoOrphans(r) ==
  (DOMAIN r) \ Fixes(r) \subseteq UNION {Requires(r, f) : f \in Fixes(r)}

AuditAccepted(r) ==
  /\ \A f \in DOMAIN r : r[f].deps \subseteq DOMAIN r
  /\ Acyclic(r) /\ NoOrphans(r)
  /\ \A f \in DOMAIN r : HasOptions(r, f) => r[f].mode = "manual"
  /\ \A d \in Decisions(r) : OptionsAccepted(r, d)

----------------------------------------------------------------------------
\* The select command.  Answers are a function from decisions to options.

Chosen(r, ans, d) ==
  IF d \in DOMAIN ans /\ ans[d] \in DOMAIN r[d].unlocks THEN {ans[d]} ELSE {}
Unlocked(r, ans, d) == UNION {r[d].unlocks[o] : o \in Chosen(r, ans, d)}

\* normalize_decision_answers
AnswersAccepted(r, ans) ==
  /\ DOMAIN ans \subseteq Decisions(r)
  /\ \A d \in DOMAIN ans : HasOptions(r, d) /\ Chosen(r, ans, d) /= {}

\* selection_blockers: the visit of what a finding depends on turns back at a fix
\* that is done and is blocked by whatever does not let it through, as seen from
\* the finding that it came from.
Blocks(r, ans, d, from) ==
  \/ r[d].mode = "fix" /\ r[d].status = "closed"
  \/ r[d].mode = "manual" /\ from \notin Unlocked(r, ans, d)
  \/ r[d].mode = "external"

Passes(r, ans) ==
  [c \in DOMAIN r |-> {d \in r[c].deps : ~Done(r, d) /\ ~Blocks(r, ans, d, c)}]

Blockers(r, ans, f) ==
  UNION {{d \in r[c].deps : Blocks(r, ans, d, c)} : c \in Visited(Passes(r, ans), {f})}

\* finding_selection_eligibility
Selectable(r, ans, f) == f \in OpenFixes(r) /\ Blockers(r, ans, f) = {}

\* dependency_closure: the fixes required, through decisions, up to done ones.
\* Mutation: a fix behind a decision is forgotten.
ClosureStopsAtDecisions(r, ids) ==
  ids \cup Visited([c \in DOMAIN r |-> {d \in r[c].deps : d \in Fixes(r) /\ ~Done(r, d)}], ids)

Includes(r) ==
  [c \in DOMAIN r |-> {d \in r[c].deps : d \in Fixes(r) \cup Decisions(r) /\ ~Done(r, d)}]
Closure(r, ids) == ids \cup (Visited(Includes(r), ids) \cap Fixes(r))

\* normalize_selection, with has_selected_agent_instrumentation for a target.
SelectionAccepted(r, ans, ids, target) ==
  /\ AnswersAccepted(r, ans)
  /\ ids /= {} \/ DOMAIN ans /= {}
  /\ ids \subseteq DOMAIN r
  /\ \A f \in Closure(r, ids) : Selectable(r, ans, f)
  /\ target => \E f \in Closure(r, ids) : r[f].ao

\* decision_unlocks_executable_work
UnlocksWork(r, d) ==
  \E o \in DOMAIN r[d].unlocks : r[d].unlocks[o] \cap OpenFixes(r) /= {}

\* unresolved_select_all_decisions, select_all_requested_ids
PendingDecisions(r, ans) ==
  {d \in Decisions(r) : Chosen(r, ans, d) = {} /\ UnlocksWork(r, d)}
AllRequested(r, ans) == {f \in Fixes(r) : Selectable(r, ans, f)}

----------------------------------------------------------------------------
\* The script of the review page.

\* selectionBlockersFor
PageBlocks(r, ans, d, from) ==
  IF r[d].mode = "manual" THEN ~\E o \in Chosen(r, ans, d) : from \in r[d].unlocks[o]
  ELSE ~Done(r, d) /\ (r[d].status = "closed" \/ r[d].mode /= "fix")

PagePasses(r, ans) ==
  [c \in DOMAIN r |-> {d \in r[c].deps : ~Done(r, d) /\ ~PageBlocks(r, ans, d, c)}]

PageBlockers(r, ans, f) ==
  UNION {{d \in r[c].deps : PageBlocks(r, ans, d, c)} : c \in Visited(PagePasses(r, ans), {f})}

\* eligibilityFor
IsSelectable(r, ans, f) ==
  /\ r[f].mode \notin {"manual", "external"}
  /\ r[f].status \notin {"done", "closed"}
  /\ PageBlockers(r, ans, f) = {}

\* Mutation: the page does not look behind decisions.
PageClosureAtDecisions(r, ans, ticked) ==
  LET able == {f \in DOMAIN r : IsSelectable(r, ans, f)}
  IN Visited([c \in DOMAIN r |-> r[c].deps \cap able], ticked \cap able)

\* syncDependencyClosure
PageClosure(r, ans, ticked) ==
  LET able  == {f \in DOMAIN r : IsSelectable(r, ans, f)}
      leads == [c \in DOMAIN r |-> {d \in r[c].deps : ~Done(r, d) /\ d \in able \cup Decisions(r)}]
  IN Visited(leads, ticked \cap able) \cap able

NoApproval == [requested |-> {}, approved |-> {}, answers |-> <<>>]

PageInit(reports) ==
  /\ report \in reports
  /\ answers = <<>> /\ requested = {} /\ selected = {} /\ approval = NoApproval

Sync(ans, ticked) ==
  /\ answers' = ans /\ requested' = ticked
  /\ selected' = PageClosure(report, ans, ticked)

\* applyDecisionAnswer, pruneIncompatibleSelections
Answered(ans) ==
  /\ Sync(ans, {f \in requested : IsSelectable(report, ans, f)})
  /\ UNCHANGED <<report, approval>>

GiveAnswer(d) ==
  \E o \in DOMAIN report[d].unlocks :
    Answered([e \in (DOMAIN answers) \cup {d} |-> IF e = d THEN o ELSE answers[e]])

ClearAnswer(d) ==
  /\ d \in DOMAIN answers
  /\ Answered([e \in (DOMAIN answers) \ {d} |-> answers[e]])

\* applySelectionInput
Tick(f) ==
  /\ IsSelectable(report, answers, f)
  /\ Sync(answers, IF f \in requested THEN requested \ {f} ELSE requested \cup {f})
  /\ UNCHANGED <<report, approval>>

\* orderedRequested, terminalInstrumentCommand, hasSelectedAoConfiguration
CommandIds    == {f \in requested \cap selected : IsSelectable(report, answers, f)}
CommandTarget == \E f \in selected : report[f].ao

\* cmd_select
Select(ids, ans) ==
  approval' = [requested |-> ids, approved |-> Closure(report, ids), answers |-> ans]

RunCommand ==
  /\ CommandIds /= {}
  /\ SelectionAccepted(report, answers, CommandIds, CommandTarget)
  /\ Select(CommandIds, answers)
  /\ UNCHANGED <<report, answers, requested, selected>>

\* select --all refuses while a decision is pending or nothing can be selected.
RunAll ==
  LET ids == AllRequested(report, answers)
  IN /\ PendingDecisions(report, answers) = {} /\ ids /= {}
     /\ SelectionAccepted(report, answers, ids, FALSE)
     /\ Select(ids, answers)
     /\ UNCHANGED <<report, answers, requested, selected>>

\* The page is rendered again, with the selection on file or without one.
Reopen ==
  /\ \/ approval /= NoApproval /\ approval' = approval
     \/ approval' = NoApproval
  /\ answers' = approval'.answers
  /\ requested' = approval'.requested /\ selected' = approval'.approved
  /\ UNCHANGED report

PageNext ==
  \/ \E d \in Decisions(report) : GiveAnswer(d) \/ ClearAnswer(d)
  \/ \E f \in DOMAIN report : Tick(f)
  \/ RunCommand \/ RunAll \/ Reopen

\* Any audit that is accepted may be on the page.
AcceptedReports ==
  {r \in UNION {[fs -> FindingRecords] : fs \in SUBSET Findings} : AuditAccepted(r)}
PageSpec == PageInit(AcceptedReports) /\ [][PageNext]_pageVars

----------------------------------------------------------------------------
\* The command that the page prints is one that select accepts, for exactly the
\* findings that the page shows as selected (terminalInstrumentCommand and
\* syncDependencyClosure against normalize_selection and dependency_closure).
PageCommandIsAccepted ==
  CommandIds /= {} =>
    /\ SelectionAccepted(report, answers, CommandIds, CommandTarget)
    /\ Closure(report, CommandIds) = selected

\* What the page offers as selectable is what select would take alone, whatever
\* the answers (eligibilityFor, finding_selection_eligibility and the failures
\* inside dependency_closure).
OfferedIsSelectable ==
  \A f \in DOMAIN report :
    IsSelectable(report, answers, f) <=> SelectionAccepted(report, answers, {f}, FALSE)

\* An approval holds together: everything an approved fix requires is approved
\* too or done already, every decision on the way has been answered in favour
\* of what depends on it, and no rejected, deferred or external finding is on
\* the way (dependency_closure, selection_blockers).
ApprovalIsComplete ==
  \A f \in approval.approved : \A d \in report[f].deps :
    \/ d \in approval.approved
    \/ Done(report, d)
    \/ /\ d \in Decisions(report) /\ f \in Unlocked(report, approval.answers, d)
       /\ \A n \in report[d].deps : n \in approval.approved \/ Done(report, n)

\* After select --all no open fix is left out for want of an answer that could
\* be given, except behind a decision on which another decision depends: no
\* option can unlock a decision (unresolved_select_all_decisions).
AllLeavesNoQuestion ==
  PendingDecisions(report, answers) = {} =>
    \A f \in OpenFixes(report) \ AllRequested(report, answers) :
      \A d \in Blockers(report, answers, f) \cap Decisions(report) :
        HasOptions(report, d) /\ Chosen(report, answers, d) = {} =>
          \E m \in Decisions(report) : d \in report[m].deps

\* What the page selects and what the command accepts are the same.
PageAgreesWithSelect == PageCommandIsAccepted /\ OfferedIsSelectable

\* What is approved is all of what it needs, and nothing is forgotten.
ApprovalsAreComplete == ApprovalIsComplete /\ AllLeavesNoQuestion
=============================================================================
