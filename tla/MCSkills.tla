------------------------------ MODULE MCSkills ------------------------------
(***************************************************************************)
(* One run for the tools that the skills bring and the evaluations of      *)
(* them.  "part" says what a behaviour is about: the report server, the    *)
(* writing of a file, the review page, the chain of files behind the       *)
(* instrumentation page, the resolver of resources, a session of           *)
(* evaluations, the runtime checks of an evaluation, a change to the       *)
(* skills, or a document that rules look at;                               *)
(* the variables of the other parts keep their first values.               *)
(***************************************************************************)
EXTENDS ReportServer, AtomicWrite, FindingSelection, ReportChain, EvalSession, EvalReport, RuntimeCheck, ReportPages, ResourceResolver, ConfigureOutput, AgentPolicy, TLC

VARIABLE part
mcVars == <<part, doc, verdict, serverVars, writeVars, pageVars, chainVars, sessionVars, resolveVars, policyVars, runtimeVars>>

\* The same processes play every role, so that one symmetry serves all parts.
Sym == Permutations(Callers)

\* Every rubric is about a case of its own.
EachCase == [p \in Rubrics |-> p]

----------------------------------------------------------------------------
\* Audits of four findings, in the order of their dependencies; the last one is
\* an open fix, the third open, the first may be about Agent Observability.
Below(i) == SUBSET (1 .. (i - 1))
Unlockings(i) ==
  {<<>>} \cup {[o \in Options |-> IF o = "x" THEN some ELSE other] : some \in SUBSET ((i + 1) .. 4), other \in {{}, {4}}}
FindingsAt(i) ==
  [mode: {"fix"}, status: IF i = 3 THEN {"open"} ELSE {"open", "done", "closed"}, deps: Below(i), unlocks: {<<>>}, ao: {i = 1}]
    \cup [mode: {"external"}, status: {"open"}, deps: Below(i), unlocks: {<<>>}, ao: {FALSE}]
    \cup [mode: {"manual"}, status: {"open"}, deps: Below(i), unlocks: Unlockings(i), ao: {FALSE}]
OpenFix == [mode |-> "fix", status |-> "open", deps |-> {}, unlocks |-> <<>>, ao |-> FALSE]
----------------------------------------------------------------------------
\* Rows of a verification.
Scenario(st, mode, vis, shown) ==
  [status |-> st, mode |-> mode, vis |-> vis, commands |-> TRUE, evidence |-> shown \/ st = "blocked",
   seen |-> shown, reasons |-> st = "blocked"]
Item(st, mode, vis, shown, removal) ==
  [status |-> st, mode |-> mode, vis |-> vis, passed |-> st = "working", mapped |-> shown,
   evidence |-> shown, seen |-> shown, removes |-> removal /= "none", removal |-> removal, offline |-> FALSE]
Row(st, scenarios, items, remaining) ==
  [status |-> st, scenarios |-> scenarios, items |-> items, remaining |-> remaining]

Works == Item("working", "focused", "not_explorer_visible", TRUE, "proved")
ChainRows ==
  {Row("working", {Scenario("working", "runtime", "explorer_visible", TRUE)}, {Works}, FALSE),
   Row("working", {}, {Item("working", "static", "not_explorer_visible", TRUE, "none")}, FALSE),
   Row("not_working", {Scenario("not_working", "runtime", "not_explorer_visible", TRUE)}, {Works}, TRUE),
   Row("not_proven", {Scenario("blocked", "not_run", "not_proven", FALSE)}, {Works}, TRUE)}

SomeScenarios ==
  {Scenario("working", "runtime", "explorer_visible", TRUE),
   Scenario("not_working", "focused", "not_explorer_visible", TRUE),
   Scenario("not_proven", "runtime", "not_proven", FALSE),
   Scenario("not_proven", "not_run", "not_proven", FALSE),
   Scenario("blocked", "not_run", "not_proven", FALSE),
   Scenario("not_configured", "not_run", "not_proven", FALSE)}
SomeItems ==
  {Works, Item("working", "static", "otlp_accepted", TRUE, "none"),
   Item("working", "focused", "otlp_accepted", TRUE, "half"),
   Item("not_working", "runtime", "not_explorer_visible", TRUE, "none"),
   Item("not_proven", "runtime", "otlp_accepted", TRUE, "half"),
   Item("not_proven", "not_run", "not_proven", FALSE, "none")}
UpToTwo(S) == {{}} \cup {{x, y} : x, y \in S}
SomeRows ==
  {r \in [status: Closures, scenarios: UpToTwo(SomeScenarios), items: {{}} \cup {{i} : i \in SomeItems}, remaining: BOOLEAN] :
     RowAccepted(r)}

\* Audits that are ready for review, with one area of incident readiness and
\* one GenAI surface.
Areas == {"errors", "tools"}
SomeAudits ==
  {a \in [status: {"Pass", "Partial", "Blocked"}, scanBlocked: BOOLEAN, genai: BOOLEAN, owner: BOOLEAN,
          incident: [{"errors"} -> Readiness], surfaces: {<<>>} \cup [{"tools"} -> Readiness],
          findings: UpToTwo([area: Areas, open: BOOLEAN, scenarios: BOOLEAN]), gaps: SUBSET Areas] :
     AuditReady(a)}

\* AgentTraces of up to three items, of which the first two may read SKILL.md.
Ids    == 1 .. 3
AgentTraces == UNION {[1 .. n -> [id: Ids, stage: {"start", "end"}]] : n \in 1 .. 4}
Segments == {<<>>, <<1, 1>>, <<2, 2>>, <<1, 2>>}

\* Prompts whose usage differs: totals so far of two ranks, and increments.
UsageRecord(s, k, f, t) == [source |-> s, rank |-> k, fields |-> f, total |-> t]
SomeRecords ==
  {UsageRecord("cumulative", 30, {"input"}, Unknown), UsageRecord("cumulative", 20, {"input", "output"}, 3),
   UsageRecord("incremental", 10, {}, Unknown), UsageRecord("incremental", 10, {"input", "output"}, 2),
   UsageRecord("incremental", 10, {"output"}, Unknown)}
Prompt(eval, legacy, records, plain) == [eval |-> eval, legacy |-> legacy, records |-> records, plain |-> plain]
PlainCounts(a, j, c) == [agent |-> a, judge |-> j, combined |-> c]
Recorded(eval) == {Prompt(eval, FALSE, rs, PlainCounts(1, 0, 1)) : rs \in UNION {[1 .. n -> SomeRecords] : n \in 0 .. 2}}
PromptsOf(eval) ==
  {Prompt(eval, TRUE, <<>>, p) : p \in {PlainCounts(2, 1, 3), PlainCounts(0, 0, 4)}}
    \cup {CHOOSE p \in Recorded(eval) : UsageOf(p) = u : u \in {UsageOf(q) : q \in Recorded(eval)}}
SomePrompts == LET one == PromptsOf(1)  two == PromptsOf(2)
               IN {<<a, b, c>> : a \in one, b \in two, c \in two}
                    \cup {<<a, b, c, d>> : a \in one, b \in one, c \in two, d \in two}

\* What an agent used.
Uses == [fresh: 1 .. 2, cached: 0 .. 1, written: {0, 2}, output: 1 .. 2]

\* Flows of two approved findings and what was instrumented and verified of
\* them, as the rules accept them; the first may be about the GenAI surface.
Unseen(st) == Item(st, "not_run", "not_proven", FALSE, "none")
FlowRows ==
  {Row("working", {Scenario("working", "runtime", "explorer_visible", TRUE)}, {Works}, FALSE),
   Row("not_working", {Scenario("not_working", "runtime", "not_explorer_visible", TRUE)}, {Works}, TRUE),
   Row("not_proven", {Scenario("not_proven", "runtime", "not_proven", FALSE)}, {Works, Unseen("not_proven")}, TRUE),
   Row("not_proven", {Scenario("blocked", "not_run", "not_proven", FALSE)}, {Unseen("blocked")}, TRUE),
   Row("not_configured", {Scenario("not_configured", "not_run", "not_proven", FALSE)}, {Unseen("not_configured")}, TRUE),
   Row("not_proven", {Scenario("not_proven", "runtime", "not_proven", FALSE)}, {}, TRUE)}
\* The items of a finding have identifiers of their own.
IdOf(f, i) == IF i.status = "working" THEN 2 * f ELSE 2 * f + 1
Identified(f, row) == [row EXCEPT !.items = {[id |-> IdOf(f, i)] @@ i : i \in row.items}]
Unverified == [result |-> "none", rows |-> <<>>]
ChosenPairs == {<<1>>, <<2, 1>>}
Over(chosen, S) == [{chosen[n] : n \in DOMAIN chosen} -> S]
\* Bound: two items in a flow.
MaxTelemetryItems == 2
RowsOver(chosen) ==
  {[f \in DOMAIN rows |-> Identified(f, rows[f])] :
     rows \in {r \in Over(chosen, FlowRows) : Total([n \in DOMAIN chosen |-> Cardinality(r[chosen[n]].items)]) <= MaxTelemetryItems}}
Verifications(chosen) ==
  {Unverified} \cup {[result |-> ExpectedResult(Values(rows)), rows |-> rows] : rows \in RowsOver(chosen)}
Instrumented(chosen) ==
  {i \in [result: {"Pass", "Partial", "Fail", "Blocked"}, statuses: Over(chosen, {"working", "not_working", "deferred"})] :
     InstrumentationAccepted(Values(i.statuses), i.result)}
\* The items that are planned for the findings, in their order.
PlannedOver(chosen, ids) ==
  FoldLeft(LAMBDA all, f : all \o SetToSeq([finding: {f}, id: ids[f]]), <<>>, chosen)
PlannedOf(v, chosen) ==
  IF v.result = "none" THEN {PlannedOver(chosen, [f \in 1 .. 2 |-> IF f \in fs THEN {2 * f} ELSE {}]) : fs \in SUBSET {1, 2}}
  ELSE {PlannedOver(chosen, [f \in DOMAIN v.rows |-> {i.id : i \in v.rows[f].items}])}
BoundFlows ==
  UNION {{[approved |-> chosen, area |-> [f \in {chosen[n] : n \in DOMAIN chosen} |-> IF f = 1 THEN "tools" ELSE "errors"],
           planned |-> planned, statuses |-> i.statuses, result |-> i.result, verify |-> v, told |-> told] :
             i \in Instrumented(chosen), planned \in PlannedOf(v, chosen), told \in {Values(chosen), {1}}} :
    <<chosen, v>> \in UNION {{<<c, w>> : w \in Verifications(c)} : c \in ChosenPairs}}
GenaiAudit(incident) == [surfaces |-> {"tools"}, order |-> <<"tools">>, gaps |-> <<1, 2>>, incident |-> incident]

SmallReports ==
  [kind: {"verify"}, rows: {{}} \cup {{x} : x \in SomeRows} \cup {{x, y} : x \in SomeRows, y \in ChainRows}]
    \cup [kind: {"scenario"}, scenario: Scenarios]
    \cup [kind: {"audit"}, audit: SomeAudits]
    \cup [kind: {"flow"}, flow: BoundFlows, audit: {GenaiAudit(TRUE)}]
    \cup [kind: {"plain"}, md: UNION {Markdowns(rows, <<"tools">>, 1 .. 2) : rows \in {<<>>, <<1>>, <<1, 2>>, <<2, 1>>, <<1, 1>>}},
          audit: {GenaiAudit(incident) : incident \in BOOLEAN}]

\* Filters of two operands, bare or in brackets, of three names in all.
Names3 == 6 .. 8
Atoms  == {<<Tok(6)>>, <<Tok(7)>>, <<Tok(8)>>, <<Tok(NotOp), Tok(6)>>}
Pairs  == {a \o <<Tok(op)>> \o b : a, b \in Atoms, op \in {AndOp, OrOp}}
Expressions ==
  Pairs \cup {a \o <<Tok(op)>> \o <<Grp(q)>> : a \in Atoms, q \in Pairs, op \in {AndOp, OrOp}}
        \cup {q \o <<Tok(op)>> \o a : a \in Atoms, q \in Pairs, op \in {AndOp, OrOp}}

\* What an expression selects: "not" before "and" before "or".
RECURSIVE Holds(_, _)
Holds(seq, v) ==
  LET unary(x) == IF Head(x) = Tok(NotOp) THEN ~Holds(Tail(x), v)
                  ELSE IF Head(x).group THEN Holds(Head(x).inner, v) ELSE Head(x).t \in v
  IN IF Len(seq) <= 2 THEN unary(seq)
     ELSE LET terms == SplitAt(seq, OrOp)
          IN IF Len(terms) > 1 THEN \E n \in DOMAIN terms : Holds(terms[n], v)
             ELSE LET factors == SplitAt(seq, AndOp) IN \A n \in DOMAIN factors : Holds(factors[n], v)
AtomsOf(e) == FoldLeft(LAMBDA acc, x : IF x \in {AndOp, OrOp} THEN Append(acc, <<>>) ELSE [acc EXCEPT ![Len(acc)] = Append(@, Tok(x))],
                       <<<<>>>>, SelectSeq(Text(e), LAMBDA x : x \notin {1, 2}))
OpsOf(e) == {x \in {AndOp, OrOp} : \E n \in DOMAIN Text(e) : Text(e)[n] = x}
Selects(seq) == {v \in SUBSET Names3 : Holds(seq, v)}

\* Services and what a runtime check asks of them; two checks at a time are run
\* for one plan only.
App(logs, link, lines, stops, greets) == [logs |-> logs, link |-> link, lines |-> lines, stops |-> stops, greets |-> greets]
Plan(app, clear, stop, words, exact) == [app |-> app, clear |-> clear, stop |-> stop, words |-> words, exact |-> exact]
SharedPlans == {Plan(App(1, "own", 1, "flushes", FALSE), TRUE, TRUE, FALSE, 1)}
SomeApps ==
  {App(logs, link, 1, "flushes", greets) : logs \in 0 .. 2, link \in {"own", "none", "foreign"}, greets \in BOOLEAN}
    \cup {App(1, "own", lines, stops, TRUE) : lines \in 1 .. 2, stops \in {"flushes", "drops", "killed"}}
SomePlans == SharedPlans \cup {Plan(app, TRUE, stop, words, exact) : app \in SomeApps, stop \in BOOLEAN, words \in BOOLEAN, exact \in 0 .. 1}
                         \cup {Plan(app, FALSE, TRUE, words, 1) : app \in SomeApps, words \in BOOLEAN}

\* Results of one evaluation or of two, by what the sides did.
Space(text) == [final |-> {"done"}, files |-> [f \in {"app"} |-> text], command |-> [ran |-> TRUE, code |-> 0, out |-> text]]
SanityCheck(what, side, values) == [what |-> what, applies |-> side, path |-> "app", values |-> values]
SanityCases == <<SanityCheck("file_contains_all", "both", {"otel", "log"}), SanityCheck("command_stdout_contains_none", "with_skill", {"log"})>>
Passing(cases, space) ==
  [n \in DOMAIN cases |-> [applies |-> cases[n].applies, passes |-> SanityPasses(cases[n], space)]]
RubricGrade(checks, overall) == [checks |-> checks, overall |-> overall]
SomeGrades == {RubricGrade(checks, overall) : checks \in [1 .. 2 -> BOOLEAN], overall \in BOOLEAN}
SideRan(exit, guard, checks, enabled, judged, grade) ==
  [exit |-> exit, guard |-> guard, checks |-> checks, enabled |-> enabled, judged |-> judged, grade |-> grade]
SomeRuns(of) ==
  CASE of = "sanity" ->
         {SideRan(exit, guard, Passing(SanityCases, Space(text)), FALSE, FALSE, {}) :
            exit \in 0 .. 1, guard \in BOOLEAN, text \in {{}, {"otel"}, {"otel", "log"}}}
    [] of = "runtime" ->
         {SideRan(0, guard, <<[applies |-> "with_skill", passes |-> passes]>>, enabled, FALSE, {}) :
            guard \in BOOLEAN, passes \in BOOLEAN, enabled \in BOOLEAN}
    [] OTHER ->
         {SideRan(0, guard, <<>>, FALSE, FALSE, {}) : guard \in BOOLEAN}
           \cup {SideRan(0, guard, <<>>, FALSE, TRUE, grade) : guard \in BOOLEAN, grade \in {{}} \cup {{g} : g \in SomeGrades}}
Message(text, grade) == [text |-> text, grade |-> grade]
Messages == {Blank, Message(TRUE, {})} \cup {Message(TRUE, {g}) : g \in SomeGrades}
Sayings  == {<<>>} \cup {<<m>> : m \in Messages} \cup {<<m, n>> : m, n \in Messages}
Judges   == [exit: 0 .. 1, late: BOOLEAN, said: Sayings]
OneOf(S) == {CHOOSE x \in S : TRUE}
PromptResults(of) ==
  [with_skill: {<<>>} \cup {<<x>> : x \in SomeRuns(of)},
   baseline: {<<>>} \cup {<<x>> : x \in OneOf(SomeRuns(of))}, eval: 1 .. 2]
GradedResults(of) == {<<a>> : a \in PromptResults(of)} \cup {<<a, b>> : a \in {r \in PromptResults(of) : r.eval = 1}, b \in PromptResults(of)}

SmallEvaluated ==
  [kind: {"trace"}, events: AgentTraces, reads: {<<a, b, <<>>>> : a \in Segments, b \in Segments}, lines: {2}]
    \cup [kind: {"usage"}, prompts: SomePrompts]
    \cup [kind: {"use"}, use: Uses]
    \cup UNION {[kind: {"results"}, of: {of}, results: GradedResults(of)] : of \in EvalKinds}
    \cup [kind: {"judge"}, backend: {"codex", "claude"}, judge: Judges, left: {<<>>, <<Message(TRUE, {RubricGrade(<<TRUE, TRUE>>, TRUE)})>>}]

\* Detectors that differ in what they read, and files around them.
FilterArg(e) == [key |-> "filter", list |-> FALSE, members |-> <<e>>]
NumberArg(key, n) == [key |-> key, list |-> FALSE, members |-> <<<<Tok(n)>>>>]
Required == [data |-> "latency", filter |-> "service.name", publish |-> "slow", detect_label |-> "slow"]
Given(lex, missing) == IF lex = missing THEN <<>> ELSE <<Lex(lex, Required[lex])>>
\* A description, a program with something in it, a rule with something before it.
BlockText(note, inProgram, inRule, missing) ==
  note \o <<Lex("<<", "program_text")>> \o inProgram \o <<Mark("eol")>>
    \o Given("data", missing) \o Given("filter", missing) \o Given("publish", missing)
    \o <<Mark("eol"), Mark(">>")>> \o inRule \o <<Mark("eol")>> \o Given("detect_label", missing) \o <<Mark("end")>>
Sound == BlockText(<<>>, <<>>, <<>>, "none")
Detector(id, text, args, calls) == [id |-> id, text |-> text, args |-> args, calls |-> calls]
Terraform == [working |-> Working({[section |-> "Tested And Working", status |-> "Working", type |-> "metric", item |-> "latency"]}),
          exceptions |-> {}, reported |-> {"latency"}, declared |-> {"api_token", "realm"}, sensitive |-> {"api_token"},
          results |-> [detectors |-> <<"Pass">>, verify |-> <<"Pass">>], headings |-> TRUE, providers |-> 1,
          wired |-> TRUE, tokenEmpty |-> TRUE, ignored |-> TRUE]
Shapes(e) ==
  {[args |-> <<FilterArg(e), NumberArg("rollup", 9)>>, calls |-> <<[method |-> "between", args |-> <<NumberArg("", 6), NumberArg("", 7)>>]>>],
   [args |-> <<NumberArg("rollup", 9), FilterArg(e)>>, calls |-> <<[method |-> "between", args |-> <<NumberArg("", 6), NumberArg("", 7)>>]>>],
   [args |-> <<FilterArg(e), NumberArg("rollup", 9)>>, calls |-> <<[method |-> "between", args |-> <<NumberArg("", 7), NumberArg("", 6)>>]>>]}
\* Prose of a description, in a heredoc or a string; a construct where it is none.
Prose    == UNION {[1 .. n -> {Mark("'"), Mark("#"), Mark("/*"), Lex("detect_label", "slow")}] : n \in 0 .. 2}
Note(prose, heredoc) ==
  IF heredoc THEN <<Lex("<<", "description")>> \o prose \o <<Mark("eol"), Mark(">>")>>
  ELSE <<Lex("\"", "description")>> \o prose \o <<Mark("\"")>>
Decoys   == {Lex(lex, Required[lex]) : lex \in DOMAIN Required} \cup {Lex("var", "other"), Lex("unsafe", "user_id")}
Hide(decoy, as) == CASE as = "line"   -> <<Mark("#"), decoy, Mark("eol")>>
                     [] as = "block"  -> <<Mark("/*"), decoy, Mark("*/")>>
                     [] as = "string" -> <<Mark("'"), decoy, Mark("'")>>
Strings  == {<<>>} \cup {<<Mark("'"), Mark("${"), Lex("var", v), Mark("}"), Mark("'")>> : v \in {"realm", "other"}}

Docs ==
  [kind: {"filters"}, filter: Expressions]
    \cup [kind: {"block"}, prose: Prose, heredoc: BOOLEAN, decoy: Decoys, as: {"line", "block", "string"},
          inRule: BOOLEAN, lacks: BOOLEAN, real: Strings]

----------------------------------------------------------------------------
MCInit ==
  /\ part \in {"server", "write", "page", "chain", "resolve", "session", "runtime", "policy", "rules"}
  /\ ServerInit /\ doc = NoReport /\ verdict = NoVerdict
  /\ IF part = "chain" THEN ChainInit
     ELSE ChainInit /\ file.audit = Audit(1) /\ file.selection = Missing
  /\ IF part = "session" THEN SessionInit ELSE SessionInit /\ consumed
  /\ IF part = "resolve" THEN ResolverInit ELSE ResolverInit /\ unique /\ api = "sdk" /\ service = {}
  /\ IF part = "policy" THEN PolicyInit
     ELSE LET first == CHOOSE r \in SharedFiles : TRUE
          IN /\ PolicyInit
             /\ \A s \in Skills : tree.skill[s].names = {first}
             /\ \A r \in SharedFiles : tree.ref[r].names = IF r = first THEN SharedFiles \ {first} ELSE {}
  /\ IF part = "runtime"
     THEN RuntimeInit /\ (\A c \in Checks : check[c].pc /= "idle") = (\A c \in Checks : check[c].plan \in SharedPlans)
     ELSE /\ check = [c \in Checks |-> [NewCheck(CHOOSE plan \in SharedPlans : TRUE) EXCEPT !.pc = "idle"]]
          /\ project = [p \in Checks |-> Gone] /\ troubles = {}
  /\ top = CHOOSE b \in Boundaries : TRUE
  /\ IF part = "write" THEN WriteInit
     ELSE /\ sub = [b \in Boundaries |-> None]
          /\ target = [d \in Parents |-> NoFile] /\ temp = [d \in Parents |-> [w \in Writers |-> NoFile]]
          /\ wr = [w \in Writers |-> Fresh] /\ moves = 0
  /\ IF part = "page"
     THEN \E a \in FindingsAt(1), b \in FindingsAt(2), c \in FindingsAt(3), ds \in {{3}, {1, 3}, {2, 3}} :
            LET r == <<a, b, c, [OpenFix EXCEPT !.deps = ds]>> IN AuditAccepted(r) /\ PageInit({r})
     ELSE PageInit({<<>>})

Frozen(part_) == part = part_ /\ UNCHANGED part
ServerPart  == Frozen("server") /\ ServerNext /\ UNCHANGED <<doc, verdict, writeVars, pageVars, chainVars, sessionVars, resolveVars, policyVars, runtimeVars>>
WritePart   == Frozen("write") /\ WriteNext /\ UNCHANGED <<doc, verdict, serverVars, pageVars, chainVars, sessionVars, resolveVars, policyVars, runtimeVars>>
PagePart    == Frozen("page") /\ PageNext /\ UNCHANGED <<doc, verdict, serverVars, writeVars, chainVars, sessionVars, resolveVars, policyVars, runtimeVars>>
ChainPart   == Frozen("chain") /\ ChainNext /\ UNCHANGED <<doc, verdict, serverVars, writeVars, pageVars, sessionVars, resolveVars, policyVars, runtimeVars>>
SessionPart == Frozen("session") /\ SessionNext /\ UNCHANGED <<doc, verdict, serverVars, writeVars, pageVars, chainVars, resolveVars, policyVars, runtimeVars>>
ResolvePart == Frozen("resolve") /\ ResolverNext /\ UNCHANGED <<doc, verdict, serverVars, writeVars, pageVars, chainVars, sessionVars, policyVars, runtimeVars>>
PolicyPart  == Frozen("policy") /\ PolicyNext /\ UNCHANGED <<doc, verdict, serverVars, writeVars, pageVars, chainVars, sessionVars, resolveVars, runtimeVars>>
RulesPart   == /\ Frozen("rules")
               /\ \/ doc = NoReport /\ ReadVerdict /\ UNCHANGED doc
                  \/ verdict = NoVerdict /\ (ReadReport \/ (doc = NoReport /\ doc' \in Docs)) /\ UNCHANGED verdict
               /\ UNCHANGED <<serverVars, writeVars, pageVars, chainVars, sessionVars, resolveVars, policyVars, runtimeVars>>
RuntimePart == Frozen("runtime") /\ RuntimeNext /\ UNCHANGED <<doc, verdict, serverVars, writeVars, pageVars, chainVars, sessionVars, resolveVars, policyVars>>

MCNext == \/ ServerPart \/ WritePart \/ PagePart \/ ChainPart \/ ResolvePart \/ SessionPart \/ RuntimePart \/ PolicyPart
          \/ RulesPart
MCSpec == MCInit /\ [][MCNext]_mcVars

----------------------------------------------------------------------------
\* Detectors count as the same exactly if they read the same stream: the
\* canonical text of a filter selects what the filter selects, and a filter of
\* one kind of operator is the sorted chain of its names, however it is
\* bracketed and ordered; arguments with a name may change places, positional
\* ones may not (canonical_boolean, canonical_group).
DuplicatesAreFound ==
  doc.kind = "filters" =>
    LET e == doc.filter
        pair(x, y) == <<Detector("a", Sound, x.args, x.calls), Detector("b", Sound, y.args, y.calls)>>
    IN /\ Selects(Canonical(e).text) = Selects(e)
       /\ \A op \in {AndOp, OrOp} :
            OpsOf(e) = {op} => Canonical(e).text = Join(SortSeq(AtomsOf(e), Before), op)
       /\ \A x, y \in Shapes(e) : ConfigureAccepted(pair(x, y), Terraform) = (x.calls /= y.calls)

\* Comments, strings and descriptions decide nothing: a block with a construct in
\* a comment or in a string of its program is accepted exactly if it is accepted
\* without it, whether or not a construct of that kind is missing, and an
\* interpolated variable counts.  The exception is a heredoc whose prose has an
\* odd apostrophe or opens a comment, which _blank_comment_lines takes for one.
DecoysDecideNothing ==
  doc.kind = "block" /\ (doc.as = "string" => ~doc.inRule /\ doc.decoy.lex /= "unsafe") =>
    LET stray   == doc.heredoc /\ \/ Mark("/*") \in Range(doc.prose)
                                  \/ Cardinality({n \in DOMAIN doc.prose : doc.prose[n] = Mark("'")}) % 2 = 1
        decoy   == Hide(doc.decoy, doc.as)
        missing == IF doc.lacks THEN doc.decoy.lex ELSE "none"
        verdict_(note, inProgram, inRule) ==
          DetectorAccepted(Detector("a", BlockText(note, inProgram \o doc.real, inRule, missing), <<>>, <<>>), "latency", Terraform)
    IN ~stray =>
         verdict_(Note(doc.prose, doc.heredoc), IF doc.inRule THEN <<>> ELSE decoy, IF doc.inRule THEN decoy ELSE <<>>)
           = (missing \notin DOMAIN Required /\ Lex("var", "other") \notin Range(doc.real))

----------------------------------------------------------------------------
\* What the cfg checks, beside properties of the modules.  Each is about the
\* variables of one part, which no other part changes; it is evaluated only there.

\* The generated configuration has no two detectors for one stream, and nothing
\* in it is taken from prose.
ConfigurationIsSound == part = "rules" => DuplicatesAreFound /\ DecoysDecideNothing
=============================================================================
