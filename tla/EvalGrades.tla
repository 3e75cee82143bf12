----------------------------- MODULE EvalGrades -----------------------------
(***************************************************************************)
(* How an evaluation is graded from the trace that the agent left          *)
(* (pytest_codex_evals: trace.py, graders, plugin.py), and how a report    *)
(* adds up what its sides used (report.py).  A list of which only the      *)
(* members matter is a function from any places, for instance from some of *)
(* the places of another list.                                             *)
(***************************************************************************)
EXTENDS Integers, Sequences, FiniteSets

Unknown == -1
Latest(ns) == CHOOSE n \in ns : \A m \in ns : m <= n

\* The sum of a list of naturals: its members laid end to end.
Total(f) == Cardinality(UNION {{n} \X (1 .. f[n]) : n \in DOMAIN f})

\* The evaluations that prompts belong to, and the prompts of one.
EvalsOf(prompts)  == {prompts[n].eval : n \in DOMAIN prompts}
Group(prompts, e) == [n \in {m \in DOMAIN prompts : prompts[m].eval = e} |-> prompts[n]]

----------------------------------------------------------------------------
\* The actions of a trace, each at its first event.  An event names its item,
\* and tells that it started or ended; "reads" gives the lines of SKILL.md that
\* an item read, in full and successfully, and <<>> for anything else that an
\* agent does.

Ended(events, id) == {n \in DOMAIN events : events[n].id = id /\ events[n].stage = "end"}
\* The last end counts.
Action(id, ends) == [id |-> id, stop |-> IF ends = {} THEN Unknown ELSE Latest(ends)]

\* extract_actions
Actions(events) ==
  [n \in {m \in DOMAIN events : \A k \in 1 .. m - 1 : events[k].id /= events[m].id} |->
     Action(events[n].id, Ended(events, events[n].id))]

\* _append_claude_tool_use, _complete_claude_tool_results: every use of a tool is
\* an action; a result is that of the last use with its id.
ClaudeActions(events) ==
  [n \in {m \in DOMAIN events : events[m].stage = "start"} |->
     LET id == events[n].id
     IN Action(id, {k \in Ended(events, id) :
                      n < k /\ \A m \in n + 1 .. k : events[m].id = id => events[m].stage = "end"})]

\* completes_before_action, for an action and the start of another.
CompletesBefore(a, start) == a.stop /= Unknown /\ a.stop < start

\* reads_complete_skill_before_other_actions: the actions up to some action are
\* reads that leave no gap and reach the last line, each over before the next
\* action starts.
ReadsSkillFirst(actions, reads, lines) ==
  \E k \in DOMAIN actions :
    LET seg(j) == reads[actions[j].id]
        covered(js) == Latest({0} \cup {seg(j)[2] : j \in js})
        before(j) == {i \in DOMAIN actions : i < j}
    IN /\ \A j \in before(k) \cup {k} :
            /\ seg(j) /= <<>> /\ actions[j].stop /= Unknown
            /\ \A i \in DOMAIN actions : j < i => CompletesBefore(actions[j], i)
            /\ seg(j)[1] <= covered(before(j)) + 1
       /\ covered(before(k) \cup {k}) >= lines

\* guard_checks and validate_live_result, for a side: its own guards, at least
\* one check, and an agent that ended well.
LiveSidePasses(side, run) ==
  /\ run.exit = 0 /\ run.message
  /\ side = "with_skill" => run.loaded /\ ReadsSkillFirst(run.actions, run.reads, run.lines)
  /\ side = "baseline" => ~run.loaded /\ ~run.mentions

----------------------------------------------------------------------------
\* Token usage.  A record of a trace tells totals so far or an increment; which
\* fields it has, and a total or Unknown.

\* int_field, first_int: the first of the names that a payload has a valid
\* number for.
FirstInt(payload, names) ==
  LET given == {n \in DOMAIN names : names[n] \in DOMAIN payload /\ payload[names[n]] >= 0}
  IN IF given = {} THEN Unknown ELSE payload[names[CHOOSE n \in given : \A m \in given : n <= m]]

\* additive_input_total, of two
Additive(a, b) == IF a = Unknown \/ b = Unknown THEN Unknown ELSE a + b

\* normalized_usage: the total of the provider, or what input and output add up to.
NormalizedTotal(input, output, given) == IF given /= Unknown THEN given ELSE Additive(input, output)

\* normalize_codex_usage: the input includes what was cached or written to the
\* cache, or is added up from its parts.
CodexTotal(p) ==
  LET cached == FirstInt(p, <<"cached_input_tokens", "cached_tokens">>)
      writes == FirstInt(p, <<"cache_write_input_tokens", "cache_creation_input_tokens">>)
      whole  == FirstInt(p, <<"input_tokens", "prompt_tokens">>)
      input  == IF whole /= Unknown THEN whole
                ELSE Additive(FirstInt(p, <<"uncached_input_tokens">>), Additive(cached, writes))
  IN NormalizedTotal(input, FirstInt(p, <<"output_tokens", "completion_tokens">>), FirstInt(p, <<"total_tokens">>))

\* normalize_claude_usage: the input is what was not cached, and the writes may
\* come in two parts, both of which are needed.
ClaudeTotal(p) ==
  LET whole  == FirstInt(p, <<"cache_creation_input_tokens">>)
      writes == IF whole /= Unknown THEN whole
                ELSE Additive(FirstInt(p, <<"ephemeral_1h_input_tokens">>), FirstInt(p, <<"ephemeral_5m_input_tokens">>))
      cached == FirstInt(p, <<"cache_read_input_tokens">>)
  IN NormalizedTotal(Additive(FirstInt(p, <<"input_tokens">>), Additive(cached, writes)),
                     FirstInt(p, <<"output_tokens">>), FirstInt(p, <<"total_tokens">>))

Recognized(u) == u.fields /= {} \/ u.total /= Unknown
Usage(observed, fields, total) == [observed |-> observed, fields |-> fields, total |-> total]
NoUsage == [observed |-> FALSE, fields |-> {"legacy"}, total |-> Unknown]

\* combine_incremental_usage: a field, or a total, only if nothing is missing.
Incremental(records) ==
  LET known == {n \in DOMAIN records : Recognized(records[n])}
  IN Usage(TRUE,
           {f \in {"input", "output"} : \A n \in known : f \in records[n].fields},
           IF known = DOMAIN records /\ \A n \in known : records[n].total /= Unknown
           THEN Total([n \in known |-> records[n].total]) ELSE Unknown)

\* extract_usage: the last of the cumulative records that rank highest, else
\* what the increments add up to.
Extract(records) ==
  LET cumulative == {n \in DOMAIN records : records[n].source = "cumulative" /\ Recognized(records[n])}
      highest    == {n \in cumulative : \A m \in cumulative : records[m].rank <= records[n].rank}
      increments == {n \in DOMAIN records : records[n].source = "incremental"}
  IN IF records = <<>> THEN Usage(FALSE, {}, Unknown)
     ELSE IF cumulative /= {} THEN LET c == records[Latest(highest)] IN Usage(TRUE, c.fields, c.total)
     ELSE IF \E n \in increments : Recognized(records[n]) THEN Incremental([n \in increments |-> records[n]])
     ELSE Usage(TRUE, {}, Unknown)

\* token_usage_from_trace_usage, of a prompt; results written before usage was
\* recorded have none, but plain counts: what agent and judge used together, and
\* each on its own, or 0 if they were not kept apart.
UsageOf(prompt) == IF prompt.legacy THEN NoUsage ELSE Extract(prompt.records)

\* The coverage that a report keeps with a usage.
Counts(n, modeled, observed, recognized, preferred, total) ==
  [records |-> n, modeled |-> modeled, observed |-> observed, recognized |-> recognized,
   preferred |-> preferred, total |-> total]
Absent == Counts(0, 0, 0, 0, 0, Unknown)

One(b) == IF b THEN 1 ELSE 0
\* usage_payload, for the usage of one side.
Leaf(u) ==
  IF u = NoUsage THEN Absent
  ELSE Counts(1, 1, One(u.observed), One(Recognized(u)), One(u.total /= Unknown), u.total)

Longer(m, n) == IF m > n THEN m ELSE n

\* Mutation: sides whose usage is missing altogether do not count.
AggregateModeled(counts, expected) ==
  LET kept == {n \in DOMAIN counts : counts[n] /= Absent}
      sum(field) == Total([n \in kept |-> counts[n][field]])
  IN IF kept = {} THEN Absent
     ELSE Counts(sum("records"), sum("modeled"), sum("observed"), sum("recognized"), sum("preferred"),
                 IF sum("preferred") = 0 THEN Unknown
                 ELSE Total([n \in kept |-> IF counts[n].preferred > 0 THEN counts[n].total ELSE 0]))

\* aggregate_usage
Aggregated(counts, expected) ==
  LET kept == {n \in DOMAIN counts : counts[n] /= Absent}
      sum(field) == Total([n \in kept |-> counts[n][field]])
  IN IF kept = {} THEN Absent
     ELSE Counts(Longer(sum("records"), expected),
                 sum("modeled"), sum("observed"), sum("recognized"), sum("preferred"),
                 IF sum("preferred") = 0 THEN Unknown
                 ELSE Total([n \in kept |-> IF counts[n].preferred > 0 THEN counts[n].total ELSE 0]))

\* aggregate_kind_side over the prompts of an eval, aggregate_kind_evals over these.
OfEval(prompts) == Aggregated([n \in DOMAIN prompts |-> Leaf(UsageOf(prompts[n]))], Cardinality(DOMAIN prompts))
OfReport(prompts) ==
  Aggregated([e \in EvalsOf(prompts) |-> OfEval(Group(prompts, e))],
             Total([e \in EvalsOf(prompts) |-> Cardinality(DOMAIN Group(prompts, e))]))

\* usage_status
UsageStatus(c) ==
  CASE c = Absent -> "legacy"
    [] c /= Absent /\ c.observed = 0 -> "absent"
    [] c /= Absent /\ c.observed > 0 /\ c.recognized = 0 -> "unrecognized"
    [] c.recognized > 0 /\ (c.recognized < c.records \/ c.preferred < c.records) -> "partial"
    [] OTHER -> "measured"

\* aggregate_kind_side, aggregate_kind_evals: the plain counts of all sides.
Plain(prompts, field) == Total([n \in DOMAIN prompts |-> prompts[n].plain[field]])

\* format_tokens, complete_usage_total: without any recorded usage, the plain
\* counts of the agent, or those of both if none was kept apart.
ShownTokens(c, prompts) ==
  IF c = Absent
  THEN IF Plain(prompts, "agent") /= 0 \/ Plain(prompts, "judge") /= 0 \/ Plain(prompts, "combined") = 0
       THEN Plain(prompts, "agent") ELSE Plain(prompts, "combined")
  ELSE IF c.records > 0 /\ c.preferred = c.records THEN c.total ELSE Unknown

----------------------------------------------------------------------------
(* Properties of one trace, of the prompts of a report and of what was used *)

\* A live evaluation with the skill passes only if every line of SKILL.md was
\* read, by an action that had ended before the agent started anything else
\* (extract_actions, _parse_claude_trace,
\* reads_complete_skill_before_other_actions).
SkillReadFirst(events, reads, lines) ==
  \A actions \in {Actions(events), ClaudeActions(events)} :
    LET run == [exit |-> 0, message |-> TRUE, loaded |-> TRUE, mentions |-> FALSE,
                actions |-> actions, reads |-> reads, lines |-> lines]
        seg(k) == reads[actions[k].id]
        readers == {k \in DOMAIN actions : seg(k) /= <<>>}
    IN LiveSidePasses("with_skill", run) =>
         \A line \in 1 .. lines : \E k \in readers :
           /\ seg(k)[1] <= line /\ line <= seg(k)[2]
           /\ actions[k].stop /= Unknown /\ \A o \in (DOMAIN actions) \ readers : actions[k].stop < o

\* The tokens that a report shows are those of all its sides, or it says that it
\* does not know, if usage was recorded for any side; adding up prompts first and
\* evaluations then loses no missing record (extract_usage, aggregate_usage,
\* usage_status, complete_usage_total).  A report without any recorded usage
\* always shows a number (format_tokens): what the agents used on the sides
\* that kept agent and judge apart, leaving out the others, or what every side
\* used in all if none did.
UsageIsHonest(prompts) ==
  LET total == OfReport(prompts)
      known == \A n \in DOMAIN prompts : UsageOf(prompts[n]).total /= Unknown
      legacy == \A n \in DOMAIN prompts : prompts[n].legacy
      apart == {n \in DOMAIN prompts : prompts[n].plain.agent > 0 \/ prompts[n].plain.judge > 0}
      shown == ShownTokens(total, prompts)
  IN /\ total = OfEval(prompts)
     /\ (UsageStatus(total) = "measured") = known
     /\ ~legacy => shown = IF known THEN Total([n \in DOMAIN prompts |-> UsageOf(prompts[n]).total]) ELSE Unknown
     /\ legacy /\ apart /= {} => shown = Total([n \in apart |-> prompts[n].plain.agent])
     /\ legacy /\ apart = {} => shown = Total([n \in DOMAIN prompts |-> prompts[n].plain.combined])

\* What an agent used, as the providers tell it.
UseTotal(u) == u.fresh + u.cached + u.written + u.output
CodexPayload(u) ==
  [input_tokens |-> u.fresh + u.cached + u.written, cached_input_tokens |-> u.cached, output_tokens |-> u.output,
   total_tokens |-> UseTotal(u)]
CodexParts(u) ==
  [uncached_input_tokens |-> u.fresh, cached_tokens |-> u.cached, cache_write_input_tokens |-> u.written,
   completion_tokens |-> u.output]
ClaudePayload(u) ==
  [input_tokens |-> u.fresh, cache_read_input_tokens |-> u.cached, ephemeral_1h_input_tokens |-> u.written,
   ephemeral_5m_input_tokens |-> 0, output_tokens |-> u.output]
Parts(p) == {[f \in fs |-> p[f]] : fs \in SUBSET (DOMAIN p)}

\* The total that is read from a trace is what the agent used or is not known,
\* whatever fields the provider left out: what was cached is counted once,
\* whether the input includes it or not (normalize_codex_usage,
\* normalize_claude_usage).
TotalsAreWhole(use) ==
  /\ \A p \in Parts(CodexPayload(use)) \cup Parts(CodexParts(use)) : CodexTotal(p) \in {Unknown, UseTotal(use)}
  /\ \A p \in Parts(ClaudePayload(use)) : ClaudeTotal(p) \in {Unknown, UseTotal(use)}
=============================================================================
