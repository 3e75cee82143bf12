------------------------------ MODULE AgentPolicy ------------------------------
(***************************************************************************)
(* What scripts/check_agent_policy.py asks of a change to the skills: who  *)
(* changes a skill, or a shared reference that skills read, changes an     *)
(* evaluation of each of them.  The working tree is edited step by step;   *)
(* a tree that is accepted may become the base of further changes.         *)
(***************************************************************************)
EXTENDS Integers, FiniteSets

CONSTANTS
  Skills,       \* names of skills
  SharedFiles,   \* paths under skills/references
  Rubrics,      \* paths of rubric definitions
  CaseOf,       \* the language and service in each of these paths
  MaxChanges    \* bound: edits

ASSUME PolicyAssumption == DOMAIN CaseOf = Rubrics /\ MaxChanges \in Nat

VARIABLES
  base,        \* the tree of the merge base with the base ref
  tree,        \* the working tree
  unindexed,   \* skills whose SKILL.md is in the working tree but not in the index
  changes      \* edits so far
policyVars == <<base, tree, unindexed, changes>>

\* A file: whether it is there, its text, and the references that it names.
Text_ == [there: BOOLEAN, version: 1 .. 2, names: SUBSET SharedFiles]
\* A definition: what it asks, and its identity and default metadata.
Definition == [there: BOOLEAN, skill: Skills, asks: 1 .. 2, dressed: BOOLEAN]
Tree == [skill: [Skills -> Text_], ref: [SharedFiles -> Text_], consumers: [SharedFiles -> SUBSET Skills],
         rubric: [Rubrics -> Definition], rest: SUBSET Skills]   \* rest: other files of a skill

\* _canonical_skills
Canonical_(t) == {s \in Skills : t.skill[s].there}
Shared(t)     == {r \in SharedFiles : t.ref[r].there}

\* _check_shared_reference_consumers: the skills that name a reference, or name
\* one that leads to it, as the loop ends up: the least set of references that
\* has what the skill names and what its members name.
Named_(t, names) == names \cap Shared(t)
Closed(t, s, refs) ==
  /\ Named_(t, t.skill[s].names) \subseteq refs
  /\ \A q \in refs : Named_(t, t.ref[q].names) \subseteq refs
Reached(t, s) == {r \in Shared(t) : \A refs \in SUBSET Shared(t) : Closed(t, s, refs) => r \in refs}
Leads(t) == [r \in SharedFiles |-> {s \in Canonical_(t) : r \in Reached(t, s)}]

\* The map lists exactly the references there are, each with its consumers.
MapIsTrue(t) ==
  /\ {r \in SharedFiles : t.consumers[r] /= {}} = Shared(t)
  /\ \A r \in Shared(t) : t.consumers[r] = Leads(t)[r]

\* _git_changed_files: against the base; a file that left the index is deleted
\* there, and added as an untracked one if it is still in the tree.
ChangedSkills == {s \in Skills : tree.skill[s] /= base.skill[s] \/ (base.skill[s].there /\ s \in unindexed)
                                  \/ (s \in tree.rest) /= (s \in base.rest)}
DeletedManifests == {s \in Skills : base.skill[s].there /\ (~tree.skill[s].there \/ s \in unindexed)}
ChangedReferences == {r \in SharedFiles : tree.ref[r] /= base.ref[r]}

\* Only complete removals count as removed.
Removed == {s \in DeletedManifests : ~tree.skill[s].there}

\* _effective_rubric_definition: identity and defaults do not count, the case is
\* that of the path.
Effective(t, p) == [case |-> CaseOf[p], skill |-> t.rubric[p].skill, asks |-> t.rubric[p].asks]
InBase == {Effective(base, p) : p \in {q \in Rubrics : base.rubric[q].there}}

\* Mutation: any edit of a rubric is a change of it.
ChangedRubricsByText == {tree.rubric[p].skill : p \in {q \in Rubrics : tree.rubric[q].there /\ tree.rubric[q] /= base.rubric[q]}}

\* _changed_rubric_evals: the skills with a definition whose meaning is new.
ChangedRubrics ==
  {tree.rubric[p].skill :
     p \in {q \in Rubrics : tree.rubric[q].there /\ tree.rubric[q] /= base.rubric[q] /\ Effective(tree, q) \notin InBase}}

\* _check_skill_eval_diff, for removed skills: nothing may be left of them.
LeavesNothing(s) ==
  /\ s \notin tree.rest
  /\ \A p \in Rubrics : tree.rubric[p].there => tree.rubric[p].skill /= s

\* For shared references: the consumers now and those of the base.
Affected(r) == tree.consumers[r] \cup base.consumers[r]

\* check_repository, as far as skills and evaluations go.
PolicyAccepts ==
  /\ MapIsTrue(tree)
  /\ \A s \in Removed : LeavesNothing(s)
  /\ ChangedSkills \subseteq Removed \cup ChangedRubrics
  /\ \A r \in ChangedReferences : Affected(r) /= {} /\ Affected(r) \subseteq Removed \cup ChangedRubrics

----------------------------------------------------------------------------
Edit_(t) == /\ changes < MaxChanges /\ t /= tree /\ tree' = t /\ changes' = changes + 1
             /\ UNCHANGED <<base, unindexed>>

\* A file is rewritten, names one reference more or less, goes away or comes back.
Other(x) ==
  {[x EXCEPT !.version = 3 - @], [x EXCEPT !.there = ~@]}
    \cup {[x EXCEPT !.names = (@ \ {r}) \cup ({r} \ @)] : r \in SharedFiles}

EditSkill     == \E s \in Skills : \E x \in Other(tree.skill[s]) : Edit_([tree EXCEPT !.skill[s] = x])
EditReference == \E r \in SharedFiles : \E x \in Other(tree.ref[r]) : Edit_([tree EXCEPT !.ref[r] = x])
EditRubric    == \E p \in Rubrics, s \in Skills, dressed \in BOOLEAN :
  \E x \in {[there |-> TRUE, skill |-> s, asks |-> n, dressed |-> dressed] : n \in 1 .. 2} \cup {[tree.rubric[p] EXCEPT !.there = FALSE]} :
     Edit_([tree EXCEPT !.rubric[p] = x])
EditRest      == \E s \in Skills : Edit_([tree EXCEPT !.rest = (@ \ {s}) \cup ({s} \ @)])

\* The map is brought in step with what is found.
EditMap == Edit_([tree EXCEPT !.consumers = [r \in SharedFiles |-> IF r \in Shared(tree) THEN Leads(tree)[r] ELSE {}]])

LeaveIndex == /\ \E s \in Skills : tree.skill[s].there /\ s \notin unindexed /\ unindexed' = unindexed \cup {s}
              /\ changes < MaxChanges /\ changes' = changes + 1 /\ UNCHANGED <<base, tree>>

\* What was accepted is committed and becomes the base.
MergeTree == /\ PolicyAccepts /\ unindexed = {} /\ base /= tree /\ base' = tree
             /\ UNCHANGED <<tree, unindexed, changes>>

\* One skill names references that may lead to others; the other skill may too.
FirstTree ==
  {t \in [skill: [Skills -> [there: {TRUE}, version: {1}, names: {{}} \cup {{r} : r \in SharedFiles}]],
          ref: [SharedFiles -> [there: {TRUE}, version: {1}, names: {{}} \cup {{r} : r \in SharedFiles}]],
          consumers: [SharedFiles -> SUBSET Skills],
          rubric: {[p \in Rubrics |-> [there |-> TRUE, skill |-> CHOOSE s \in Skills : TRUE, asks |-> 1, dressed |-> FALSE]]},
          rest: {{}}] : MapIsTrue(t)}

PolicyInit == base \in FirstTree /\ tree = base /\ unindexed = {} /\ changes = 0
PolicyNext == EditSkill \/ EditReference \/ EditMap \/ EditRubric \/ EditRest \/ LeaveIndex \/ MergeTree
PolicySpec == PolicyInit /\ [][PolicyNext]_policyVars

----------------------------------------------------------------------------
(* Properties *)

\* What an agent that uses the skill gets to read: its text, and the references
\* that it leads to.
Ships(t, s) == [own |-> <<t.skill[s], t.rest \cap {s}>>,
                refs |-> {<<r, t.ref[r]>> : r \in {q \in Shared(t) : s \in Leads(t)[q]}}]

\* If a change is accepted, every skill that ships something else than before
\* has an evaluation that asks something which none of its case asked before.
ChangedSkillsAreEvaluated ==
  tree /= base /\ PolicyAccepts =>
    \A s \in Canonical_(tree) :
      Ships(tree, s) /= Ships(base, s) =>
        \E p \in Rubrics : tree.rubric[p].there /\ tree.rubric[p].skill = s /\ Effective(tree, p) \notin InBase
=============================================================================
