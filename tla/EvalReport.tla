----------------------------- MODULE EvalReport -----------------------------
(***************************************************************************)
(* What a report of evaluations says of the checks and of the rubric       *)
(* (pytest_codex_evals: graders, runner.run_side, report.py).  The numbers *)
(* of an evaluation, those of the whole report, the list of failures and   *)
(* the result files are computed separately, from the same sides.  A       *)
(* reader opens a result, a verdict of a judge or what a trace says.       *)
(***************************************************************************)
EXTENDS EvalGrades

EvalKinds == {"sanity", "runtime", "rubric"}
SideKeys  == {"with_skill", "baseline"}

----------------------------------------------------------------------------
\* Grading.  A workspace holds files with words in them, the final message and
\* the outcome of a command: whether it ran to its end, its code, its output.

CommandPasses(c, run) ==
  /\ run.ran /\ run.code = 0
  /\ c.what = "command_stdout_contains_all" => c.values \subseteq run.out
  /\ c.what = "command_stdout_contains_any" => c.values \cap run.out /= {}
  /\ c.what = "command_stdout_contains_none" => c.values \cap run.out = {}

InFile(c, files, P(_)) == c.path \in DOMAIN files /\ P(files[c.path])

\* run_check of graders/sanity.py
SanityPasses(c, space) ==
  \/ c.what = "final_contains_all" /\ c.values \subseteq space.final
  \/ c.what = "final_contains_any" /\ c.values \cap space.final /= {}
  \/ c.what = "file_exists" /\ c.path \in DOMAIN space.files
  \/ c.what = "no_file_exists" /\ c.path \notin DOMAIN space.files
  \/ c.what = "file_contains_all" /\ InFile(c, space.files, LAMBDA text : c.values \subseteq text)
  \/ c.what = "file_contains_any" /\ InFile(c, space.files, LAMBDA text : c.values \cap text /= {})
  \/ c.what \in {"command_succeeds", "command_stdout_contains_all", "command_stdout_contains_any",
                 "command_stdout_contains_none"} /\ CommandPasses(c, space.command)

Result(category, passed, skipped) == [category |-> category, passed |-> passed, skipped |-> skipped]

\* grade_sanity, grade_runtime, grade_side: the guards, which count as sanity, at
\* 0; then the checks of the case that apply to the side, each at its place; a
\* runtime check that is not enabled is skipped.
Graded(kind, side, guard, checks, enabled) ==
  [n \in {0} \cup {m \in DOMAIN checks : checks[m].applies \in {"both", side}} |->
     IF n = 0 THEN Result("sanity", guard, FALSE)
     ELSE IF kind = "runtime" /\ ~enabled THEN Result("runtime", TRUE, TRUE)
     ELSE Result(kind, checks[n].passes, FALSE)]

\* A message of an agent or a judge may be empty, and may be a grade that fits
\* the schema.  A file is a sequence of one message, or is not there.
Blank      == [text |-> FALSE, grade |-> {}]
FileOf(said) == IF said = <<>> THEN <<>> ELSE <<said[Len(said)]>>

\* _extract_claude_final_message: the last message with a text.
LastText(said) ==
  LET texts == {n \in DOMAIN said : said[n].text} IN IF texts = {} THEN Blank ELSE said[Latest(texts)]

\* run_agent: the final message; codex writes it itself, if there is one.
CodexMessage(said)  == IF FileOf(said) = <<>> THEN Blank ELSE FileOf(said)[1]
ClaudeMessage(said) == LastText(said)

\* run_judge: codex that fails leaves a grade that fails, unless there is a file
\* of that name; for claude there always is one.
RunFailed == [text |-> TRUE, grade |-> {[checks |-> <<FALSE>>, overall |-> FALSE]}]
CodexJudge(judge, left) ==
  LET out == IF FileOf(judge.said) = <<>> THEN left ELSE FileOf(judge.said)
  IN IF judge.exit /= 0 /\ out = <<>> THEN <<RunFailed>> ELSE out
ClaudeJudge(judge) == <<LastText(judge.said)>>

\* run_rubric_grade, validate_rubric_output
RubricGradeOf(backend, judge, left) ==
  LET out == IF backend = "codex" THEN CodexJudge(judge, left) ELSE ClaudeJudge(judge)
  IN IF judge.late \/ out = <<>> THEN {} ELSE out[1].grade

\* run_side: what a judge said, if it said something that fits the schema;
\* otherwise an error is kept and no grade (run_rubric_grade).
Sided(exit, results, judged, grade) ==
  [exit |-> exit, results |-> results,
   grade |-> IF judged THEN grade ELSE {},
   errors |-> (IF exit = 0 THEN 0 ELSE 1) + (IF judged /\ grade = {} THEN 1 ELSE 0)]
SideOf(kind, key, run) ==
  Sided(run.exit, Graded(kind, key, run.guard, run.checks, run.enabled), run.judged, run.grade)

----------------------------------------------------------------------------
\* Counting.

HowMany(s, P(_)) == Cardinality({n \in DOMAIN s : P(s[n])})
Counted(passed, total, skipped) == [passed |-> passed, total |-> total, skipped |-> skipped]

\* checks_for_category: their places.
ChecksFor(side, category) == {c \in DOMAIN side.results : side.results[c].category = category}

Tally(rs) ==
  Counted(HowMany(rs, LAMBDA r : r.passed /\ ~r.skipped), HowMany(rs, LAMBDA r : ~r.skipped),
          HowMany(rs, LAMBDA r : r.skipped))

\* check_summary
CheckSummary(side, category) == Tally([c \in ChecksFor(side, category) |-> side.results[c]])

\* load_rubric_grade
GradeCounts(side) ==
  {Counted(HowMany(g.checks, LAMBDA c : c), Cardinality(DOMAIN g.checks), 0) : g \in side.grade}

AddUp(counts) ==
  Counted(Total([n \in DOMAIN counts |-> counts[n].passed]), Total([n \in DOMAIN counts |-> counts[n].total]),
          Total([n \in DOMAIN counts |-> counts[n].skipped]))

\* side_for_key: the sides of one key among results of a kind, each at its
\* prompt; a run of one side has none of the other.
SidesOf(kind, results, key) ==
  [n \in {m \in DOMAIN results : results[m][key] /= <<>>} |-> SideOf(kind, key, results[n][key][1])]

\* aggregate_check_category, over the checks of all sides at once.
ChecksOf(sides, category) == UNION {{n} \X ChecksFor(sides[n], category) : n \in DOMAIN sides}
CategoryOf(sides, category) == Tally([p \in ChecksOf(sides, category) |-> sides[p[1]].results[p[2]]])
RubricOf(sides) ==
  LET graded == {n \in DOMAIN sides : sides[n].grade /= {}}
  IN IF graded = {} THEN {} ELSE {AddUp([n \in graded |-> CHOOSE c \in GradeCounts(sides[n]) : TRUE])}
ErrorsOf(sides) == Total([n \in DOMAIN sides |-> sides[n].errors])

\* aggregate_kind_side: what the report of a kind keeps of the prompts of an
\* evaluation; for a rubric, nothing where there is no grade.
KindSide(kind, sides) ==
  [prompts |-> Cardinality(DOMAIN sides), errors |-> ErrorsOf(sides),
   checks |-> IF kind = "rubric" THEN RubricOf(sides) ELSE {CategoryOf(sides, kind)}]

\* aggregate_kind_evals
KindEvals(kind, evals) ==
  LET kept == {e \in DOMAIN evals : evals[e].prompts > 0}
      told == {e \in kept : evals[e].checks /= {}}
  IN [prompts |-> Total([e \in kept |-> evals[e].prompts]),
      errors |-> Total([e \in kept |-> evals[e].errors]),
      checks |-> IF told = {} /\ (kind = "rubric" \/ kept = {}) THEN {}
                 ELSE {AddUp([e \in told |-> CHOOSE c \in evals[e].checks : TRUE])}]

\* aggregate_side, write_live_result_jsons: the result file of a side counts
\* the checks of every category.
ResultFile(sides) ==
  [sanity |-> CategoryOf(sides, "sanity"), runtime |-> CategoryOf(sides, "runtime"), rubric |-> RubricOf(sides),
   errors |-> ErrorsOf(sides)]

\* side_summary: the entry of one prompt in a result file.
PromptEntry(side) ==
  [sanity |-> CheckSummary(side, "sanity"), runtime |-> CheckSummary(side, "runtime"), rubric |-> GradeCounts(side),
   errors |-> side.errors]

\* collect_failures, for one side: every check that failed, and every failed
\* item of the rubric, or the rubric as a whole, at 0.
FailedChecks(side) == {c \in DOMAIN side.results : ~side.results[c].passed /\ ~side.results[c].skipped}
FailedItems(side) ==
  UNION {LET failed == {i \in DOMAIN g.checks : ~g.checks[i]}
         IN IF failed = {} /\ ~g.overall THEN {0} ELSE failed : g \in side.grade}

\* collect_kind_failures: how many a report of the kind lists.
KindFailures(kind, sides) ==
  Cardinality(UNION {{n} \X (FailedChecks(sides[n]) \cap ChecksFor(sides[n], kind)) : n \in DOMAIN sides})
    + (IF kind = "rubric" THEN Cardinality(UNION {{n} \X FailedItems(sides[n]) : n \in DOMAIN sides}) ELSE 0)

\* format_kind_side, format_rubric, format_count: whether the cell of an
\* evaluation says 100%; a dash and "skipped" do not, but a grade without any
\* item does ("100% (0/0)").
SaysAllPassed(kind, side) == \E c \in side.checks : c.passed = c.total /\ (kind = "rubric" \/ c.total > 0)

\* validate_live_result: a test passes if the agent ended well and the guards
\* of its side passed.
SideIsValid(side) == side.exit = 0 /\ side.results[0].passed

----------------------------------------------------------------------------
(* Properties of the results of a kind and of one judge *)

\* The report of a kind counts every check of every side once, whichever way it
\* is added up, lists as many failures as the counts show, says the same as the
\* result files and the entries of the prompts, and lists nothing only if every
\* check and every grade passed; a cell says 100% only if nothing is listed
\* (aggregate_kind_side, aggregate_kind_evals, collect_kind_failures,
\* format_kind_side, write_live_result_jsons) - except for the rubric, whose
\* cell counts items: a grade may fail as a whole, or have no items at all.
\* What went wrong on a side is told by some failure or error of its report -
\* except for a guard in a report about something other than sanity.
ReportTellsFailures(kind, results) ==
  \A key \in SideKeys :
    LET all    == SidesOf(kind, results, key)
        evals  == [e \in EvalsOf(results) |-> KindSide(kind, SidesOf(kind, Group(results, e), key))]
        whole  == KindEvals(kind, evals)
        rows   == KindFailures(kind, all)
        counts == IF whole.checks = {} THEN Counted(0, 0, 0) ELSE CHOOSE c \in whole.checks : TRUE
        inFile == ResultFile(all)
        entries == [n \in DOMAIN all |-> PromptEntry(all[n])]
    IN DOMAIN all /= {} =>
         /\ whole = KindSide(kind, all) /\ whole.errors = inFile.errors
         /\ (IF kind = "rubric" THEN inFile.rubric ELSE {inFile[kind]}) = whole.checks
         /\ kind /= "rubric" => AddUp([n \in DOMAIN entries |-> entries[n][kind]]) = counts
         /\ rows >= counts.total - counts.passed /\ (kind /= "rubric" => rows = counts.total - counts.passed)
         /\ SaysAllPassed(kind, whole) => rows = 0 \/ kind = "rubric"
         /\ rows = 0 =>
              \A n \in DOMAIN all :
                /\ \A c \in DOMAIN all[n].results :
                     all[n].results[c].category = kind => all[n].results[c].passed
                /\ \A g \in all[n].grade : kind = "rubric" => g.overall /\ \A c \in DOMAIN g.checks : g.checks[c]
         /\ rows = 0 /\ whole.errors = 0 => \A n \in DOMAIN all : SideIsValid(all[n]) \/ kind /= "sanity"

\* A judge is heard: a grade is what it said last, nothing that it said before;
\* a judge that says nothing, too late or no grade is told as an error or as a
\* failure of the rubric, and one that answers in time is not (run_judge,
\* _extract_claude_final_message, run_rubric_grade) - except that codex that
\* says nothing leaves the file of that name that was there before, and that
\* claude may say nothing after its grade.
JudgeIsHeard(backend, judge, left) ==
  LET said  == judge.said
      grade == RubricGradeOf(backend, judge, left)
      side  == Sided(0, <<>>, TRUE, grade)
      told  == side.errors > 0 \/ FailedItems(side) /= {}
      last  == IF backend = "codex" THEN CodexMessage(said) ELSE ClaudeMessage(said)
  IN /\ last.grade = {} /\ left = <<>> => told
     /\ judge.late => told
     /\ ~judge.late /\ last.grade /= {} => grade = last.grade /\ side.errors = 0
     /\ \A g \in grade : \/ g \in last.grade
                         \/ said = <<>> /\ (g \in RunFailed.grade \/ (left /= <<>> /\ g \in left[1].grade))

----------------------------------------------------------------------------
\* A reader looks at what an evaluation says of itself.

CONSTANT Evaluated   \* what evaluations may leave

VARIABLE verdict

NoVerdict == [kind |-> "none"]

Events(events) == /\ DOMAIN events = 1 .. Len(events) /\ Len(events) \in Nat
                  /\ \A n \in DOMAIN events : events[n].stage \in {"start", "end"}
Segment(s) == s = <<>> \/ (s = <<s[1], s[2]>> /\ s[1] \in Nat /\ s[2] \in Nat)

\* The records of a usage, as usage_records reads them.
UsageRecords(records) ==
  /\ DOMAIN records = 1 .. Len(records) /\ Len(records) \in Nat
  /\ \A n \in DOMAIN records : /\ records[n].total \in Nat \cup {Unknown} /\ records[n].rank \in Nat

PromptUsage(p) ==
  /\ UsageRecords(p.records) /\ p.legacy \in BOOLEAN
  /\ p.plain.agent \in Nat /\ p.plain.judge \in Nat /\ p.plain.combined \in Nat

\* What ran on a side, of one prompt; a grade comes from a judge.
Run(run) ==
  /\ run.guard \in BOOLEAN /\ run.enabled \in BOOLEAN /\ run.judged \in BOOLEAN
  /\ IsFiniteSet(DOMAIN run.checks) /\ 0 \notin DOMAIN run.checks
  /\ \A n \in DOMAIN run.checks : run.checks[n].passes \in BOOLEAN
  /\ run.grade = {} \/ \E g \in run.grade : /\ run.grade = {g} /\ IsFiniteSet(DOMAIN g.checks) /\ g.overall \in BOOLEAN
                                            /\ \A n \in DOMAIN g.checks : g.checks[n] \in BOOLEAN
KindResults(results) ==
  /\ IsFiniteSet(DOMAIN results)
  /\ \A n \in DOMAIN results, key \in SideKeys : results[n][key] = <<>> \/ Run(results[n][key][1])

\* What the evaluations leave behind: traces, usages, results, a judge's answer.
Legible(v) ==
  CASE v.kind = "trace"   -> /\ Events(v.events) /\ v.lines \in Nat
                             /\ \A n \in DOMAIN v.events : Segment(v.reads[v.events[n].id])
    [] v.kind = "usage"   -> /\ IsFiniteSet(DOMAIN v.prompts) /\ DOMAIN v.prompts /= {}
                             /\ \A n \in DOMAIN v.prompts : PromptUsage(v.prompts[n])
    [] v.kind = "use"     -> \A f \in {"fresh", "cached", "written", "output"} : v.use[f] \in Nat
    [] v.kind = "results" -> v.of \in EvalKinds /\ KindResults(v.results)
    [] v.kind = "judge"   -> v.backend \in {"codex", "claude"}
    [] OTHER -> FALSE

ReadVerdict == verdict = NoVerdict /\ verdict' \in {v \in Evaluated : Legible(v)}
VerdictSpec == verdict = NoVerdict /\ [][ReadVerdict]_verdict

\* An evaluation counts only if the skill was read first, its token counts hide
\* nothing that is unknown, its judge is heard and its report tells what failed
\* (reads_complete_skill_before_other_actions, aggregate_usage,
\* normalized_usage, aggregate_kind_evals, run_rubric_grade).
EvaluationsAreHonest ==
  /\ verdict.kind = "trace"   => SkillReadFirst(verdict.events, verdict.reads, verdict.lines)
  /\ verdict.kind = "usage"   => UsageIsHonest(verdict.prompts)
  /\ verdict.kind = "use"     => TotalsAreWhole(verdict.use)
  /\ verdict.kind = "results" => ReportTellsFailures(verdict.of, verdict.results)
  /\ verdict.kind = "judge"   => JudgeIsHeard(verdict.backend, verdict.judge, verdict.left)
=============================================================================
