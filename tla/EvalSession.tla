---------------------------- MODULE EvalSession ----------------------------
(***************************************************************************)
(* One session of the evaluations of a skill (pytest_codex_evals): workers *)
(* take the evaluations, record which sources each was made from, stage a  *)
(* workspace for either side, run the agent and keep the results until the *)
(* session ends; the controller collects them, reports are rendered and    *)
(* published, and verify-reports later compares the published reports with *)
(* the repository, in which people go on working - on the sources, on the  *)
(* list of evaluations, and sometimes on a published report.  Contents are *)
(* versions: equal contents have equal digests.                            *)
(***************************************************************************)
EXTENDS Integers, FiniteSets

CONSTANTS
  Items,      \* evaluations of one kind, each with its own fixture
  Workers,    \* pytest workers
  MaxEdits,   \* bound: edits of the repository
  MaxLost     \* bound: workers that crash and agents that raise

ASSUME SessionAssumption ==
  /\ {MaxEdits, MaxLost} \subseteq Nat
  /\ {"skill", "reference", "consumers", "semantics", "definitions", "report"} \cap Items = {}
  /\ Workers /= {} /\ "nothing" \notin Workers

\* The skill, one shared reference, and the definition and fixture of each item.
Files == Items \cup {"skill", "reference"}
Sides == {"with_skill", "baseline"}
Contents == 0 .. 1

VARIABLES
  source,      \* contents of the files
  consumed,    \* whether consumers.json names the skill for the reference
  semantics,   \* version of the evaluator's semantics
  defined,     \* evaluations of the skill in the repository
  item,        \* what became of each evaluation
  written,     \* workers that have left their results
  raw,         \* run.json and its files: evaluations validated, and run; or none
  published,   \* the benchmarks among the reports of the repository
  edits        \* history: edits of each file, of consumers.json, of the version, ...

sessionVars == <<source, consumed, semantics, defined, item, written, raw, published, edits>>
world == <<source, consumed, semantics, defined, edits>>

Nothing == "nothing"
Queued  == [at |-> "queued", by |-> Nothing, digest |-> <<>>, staged |-> <<>>]

SessionInit ==
  /\ source = [f \in Files |-> 0] /\ consumed \in BOOLEAN /\ semantics = 1 /\ defined = Items
  /\ item = [i \in Items |-> Queued]
  /\ written = {} /\ raw = {} /\ published = {}
  /\ edits = [f \in Files \cup {"consumers", "semantics", "definitions", "report"} |-> 0]

Edits  == Cardinality({p \in (DOMAIN edits) \X (1 .. MaxEdits) : p[2] <= edits[p[1]]})
Edited(k) == Edits < MaxEdits /\ edits' = [edits EXCEPT ![k] = @ + 1]
Faults == Cardinality({i \in Items : item[i].at \in {"raised", "lost"}})

\* source_input_digests for one selection: the skill, every shared reference,
\* and the definition, fixture and inputs of the prompt.
Inputs(i) == {"skill", "reference", i}
\* prepare_side_workspace: only one side gets the skill and the references.
StagedFor(i, side) == IF side = "with_skill" THEN Inputs(i) ELSE {i}
SourcesOf(fs) == [f \in fs |-> source[f]]

Idle(w) == w \notin written /\ \A i \in Items : item[i].by = w => item[i].at \in {"done", "raised", "refused"}
Busy(w, i, at) == w \notin written /\ item[i].by = w /\ item[i].at = at

\* CodexEvalItem.runtest: the sources are on record before the agent starts.
Validate(w, i) ==
  /\ Idle(w) /\ item[i].at = "queued" /\ i \in defined
  /\ item' = [item EXCEPT ![i] = [Queued EXCEPT !.at = "with_skill", !.by = w, !.digest = SourcesOf(Inputs(i))]]
  /\ UNCHANGED <<world, written, raw, published>>

\* selected_eval_source_files raises: the definition or the prompt that was
\* collected is gone, or its inputs are others by now.  No result is kept.
Refuse(w, i) ==
  /\ Idle(w) /\ item[i].at = "queued" /\ (i \notin defined \/ edits[i] > 0)
  /\ item' = [item EXCEPT ![i] = [Queued EXCEPT !.at = "refused", !.by = w]]
  /\ UNCHANGED <<world, written, raw, published>>

\* run_side: the workspace of a side is staged when its turn comes, the second
\* after the first agent has finished; then the agent and the graders run.
RunSide(w, i, side) ==
  /\ Busy(w, i, side)
  /\ item' = [item EXCEPT ![i].staged = [s \in (DOMAIN @) \cup {side} |->
                                           IF s = side THEN SourcesOf(StagedFor(i, side)) ELSE @[s]],
                          ![i].at = IF side = "with_skill" THEN "baseline" ELSE "done"]
  /\ UNCHANGED <<world, written, raw, published>>

\* An agent runs out of time, or cannot be started: no result is kept.
SideRaises(w, i) ==
  /\ item[i].at \in Sides /\ Busy(w, i, item[i].at) /\ Faults < MaxLost
  /\ item' = [item EXCEPT ![i].at = "raised"]
  /\ UNCHANGED <<world, written, raw, published>>

\* A worker dies: its results were only in its memory.  Another one takes its
\* place and its queue, and the item it was at is not run again.
WorkerDies(w) ==
  /\ w \notin written /\ Faults < MaxLost /\ raw = {}
  /\ \E i \in Items : item[i].by = w
  /\ item' = [i \in Items |-> IF item[i].by = w THEN [Queued EXCEPT !.at = "lost"] ELSE item[i]]
  /\ UNCHANGED <<world, written, raw, published>>

\* pytest_sessionfinish, write_worker_results: also after an interrupt, -x or
\* --maxfail, when evaluations are queued or under way.
WorkerEnds(w) ==
  /\ w \notin written
  /\ written' = written \cup {w}
  /\ UNCHANGED <<world, item, raw, published>>

\* validation_selection_scope: what was validated is all that there is now.
ScopeOf(validated) == IF validated = defined THEN "full" ELSE "filtered"

\* Evaluations that have left a validation result.
Begun == {i \in Items : item[i].at \in {"done", "raised"} \cup Sides}

\* collect_worker_results, write_session_results, write_run_manifest
SessionEnds ==
  /\ written = Workers /\ raw = {}
  /\ raw' = {[validated |-> Begun, live |-> {i \in Items : item[i].at = "done"}, scope |-> ScopeOf(Begun)]}
  /\ UNCHANGED <<world, item, written, published>>

\* source_provenance: one content for each file, whoever recorded it.
Consistent(items) ==
  \A i, j \in items : \A f \in Inputs(i) \cap Inputs(j) : item[i].digest[f] = item[j].digest[f]

\* Mutation: a report is made of whatever results there are.
PublishableAnyway(run) == run.live /= {} /\ Consistent(run.validated)
\* kind_benchmark_from_payloads, build_kind_benchmark
Publishable(run) == run.live /= {} /\ run.live = run.validated /\ Consistent(run.validated)

\* build_validation_benchmark: a report of the validation needs no agent.
Validated(run) == run.validated /= {} /\ Consistent(run.validated)

\* source_manifest_digest: what the digest of a benchmark's source is made of.
Stamp(r) == <<r.files, r.semantics, r.consumed, r.evals, r.scope>>
Stamped(r) == [r EXCEPT !.stamp = Stamp(r)]

\* render_reports_for_run_root, write_report_outputs: the version and the
\* consumers are those of the moment at which a report is rendered.
PublishReport(kind) ==
  /\ \A report \in published : report.kind /= kind
  /\ \E run \in raw :
       /\ IF kind = "live" THEN Publishable(run) ELSE Validated(run)
       /\ published' = published \cup
            {Stamped([kind |-> kind, evals |-> run.validated, semantics |-> semantics, consumed |-> consumed,
                      files |-> [f \in UNION {Inputs(i) : i \in run.validated} |->
                                   item[CHOOSE i \in run.validated : f \in Inputs(i)].digest[f]],
                      scope |-> IF kind = "live" THEN "none" ELSE run.scope, stamp |-> <<>>])}
  /\ UNCHANGED <<world, item, written, raw>>

\* Somebody edits a file, the list of consumers or the evaluator, removes an
\* evaluation or puts it back.
Edit ==
  /\ \/ \E f \in Files : /\ Edited(f) /\ source' = [source EXCEPT ![f] = 1 - @]
                         /\ UNCHANGED <<consumed, semantics, defined>>
     \/ Edited("consumers") /\ consumed' = ~consumed /\ UNCHANGED <<source, semantics, defined>>
     \/ Edited("semantics") /\ semantics' = semantics + 1 /\ UNCHANGED <<source, consumed, defined>>
     \/ \E i \in Items : /\ Edited("definitions")
                         /\ defined' = IF i \in defined THEN defined \ {i} ELSE defined \cup {i}
                         /\ UNCHANGED <<source, consumed, semantics>>
  /\ UNCHANGED <<item, written, raw, published>>

\* Somebody edits a published benchmark, or merges two of them, and leaves the
\* digest as it is.
EditReport ==
  /\ Edited("report")
  /\ \E report \in published :
       \E other \in {[report EXCEPT !.semantics = semantics], [report EXCEPT !.consumed = consumed]}
                     \cup {[report EXCEPT !.files[f] = source[f]] : f \in DOMAIN report.files}
                     \cup {[report EXCEPT !.evals = @ \ {i}] : i \in Items} :
         published' = (published \ {report}) \cup {other}
  /\ UNCHANGED <<source, consumed, semantics, defined, item, written, raw>>

SessionNext ==
  \/ \E w \in Workers : \/ WorkerDies(w) \/ WorkerEnds(w)
                        \/ \E i \in Items : \/ Validate(w, i) \/ Refuse(w, i) \/ SideRaises(w, i)
                                            \/ \E s \in Sides : RunSide(w, i, s)
  \/ SessionEnds \/ (\E k \in {"live", "validation"} : PublishReport(k)) \/ Edit \/ EditReport
SessionSpec == SessionInit /\ [][SessionNext]_sessionVars

----------------------------------------------------------------------------
\* A shared reference matters to its consumers, those of the report and those of
\* today.
Relevant(report, f) == f = "reference" => consumed \/ report.consumed

\* full_validation_source_selections: a full validation is one of all the
\* evaluations that there are.
SelectionsHold(report) ==
  /\ report.evals /= {} /\ report.evals \subseteq defined
  /\ report.scope = "full" => report.evals = defined

\* source_inputs_match_for_skill: each file that matters is as it was digested.
InputsUnchanged(report) ==
  \A f \in DOMAIN report.files : Relevant(report, f) => report.files[f] = source[f]

\* verify_published_report_sources
VerifyAccepts(report) ==
  /\ report.semantics = semantics /\ report.consumed = consumed /\ SelectionsHold(report)
  /\ report.stamp = Stamp(report) /\ InputsUnchanged(report)

\* The types of the variables.
SessionTypeOK ==
  /\ source \in [Files -> Contents] /\ consumed \in BOOLEAN /\ semantics \in 1 .. MaxEdits + 1
  /\ defined \subseteq Items
  /\ \A i \in Items :
       /\ item[i].at \in {"queued", "refused", "done", "raised", "lost"} \cup Sides
       /\ item[i].by \in Workers \cup {Nothing}
       /\ (DOMAIN item[i].digest) \subseteq Files /\ (DOMAIN item[i].staged) \subseteq Sides
  /\ written \subseteq Workers

\* A report of live runs, as it was published, has every evaluation of the
\* session that was begun, both sides of each, whenever the session was stopped:
\* one whose agent raised or was interrupted is not left out
\* (build_kind_benchmark refuses).  What it may lack is what left no result at
\* all: evaluations that never had their turn, whose definition was gone when
\* they had it, or that were lost with their worker.
PublishedIsComplete ==
  \A report \in published : report.kind = "live" /\ report.stamp = Stamp(report) =>
    /\ \A i \in report.evals : DOMAIN item[i].staged = Sides
    /\ \A i \in Items \ report.evals : item[i].at \in {"queued", "refused", "lost"}

\* When verify-reports accepts a report, however somebody has edited it, it is
\* about what the repository holds now: the files that were validated and the
\* sources that each side of a live run was given are today's, even if they
\* were edited between the digest and the staging of a side, and a validation
\* that calls itself full has every evaluation of today (validation_result,
\* prepare_side_workspace, source_manifest_digest).  An edit that was undone,
\* which no digest shows, and a reference the skill does not consume are
\* excepted.
VerifiedIsCurrent ==
  \A report \in published : VerifyAccepts(report) =>
    /\ report.scope = "full" => defined = report.evals
    /\ \A i \in report.evals :
         /\ \A f \in Inputs(i) : (f = "reference" => consumed) => item[i].digest[f] = source[f]
         /\ report.kind = "live" =>
              \A s \in Sides : \A f \in StagedFor(i, s) :
                edits[f] < 2 /\ (f = "reference" => consumed) => item[i].staged[s][f] = source[f]

\* A published report has every evaluation that was begun, and one that
\* verify-reports accepts is about the sources as they are (render_reports_for_run_root,
\* verify_published_report_sources).
PublicationsAreSound == PublishedIsComplete /\ VerifiedIsCurrent
=============================================================================
