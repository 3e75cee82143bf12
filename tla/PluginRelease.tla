---------------------------- MODULE PluginRelease ----------------------------
(***************************************************************************)
(* How a version of the plugin gets to its users: the scripts that set and *)
(* check versions, pin the runtime's hashes and point the marketplaces     *)
(* (stage_obstudio_plugin.py, runtime_manifest.py), in the order in which  *)
(* the release workflows call them, while the sources go on changing and   *)
(* pull requests wait.  A hash stands for the sources it was built from:   *)
(* the build is deterministic.                                             *)
(***************************************************************************)
EXTENDS Integers, FiniteSets

CONSTANTS
  MaxRelease, \* bound: versions are 1 .. MaxRelease, from main's 1
  MaxEdits,   \* bound: changes of the runtime's sources and of the skills
  MaxCrashes  \* bound: syncs of the skills that are cut off

ASSUME ReleaseAssumption == MaxRelease \in Nat \ {0} /\ MaxEdits \in Nat /\ MaxCrashes \in Nat

Releases == 1 .. MaxRelease

VARIABLES
  main,       \* the main branch
  prepared,   \* the open release preparation, or Nothing
  syncing,    \* the open marketplace pull request, or Nothing
  tags,       \* per version, the commit it was tagged at, or Nothing
  published,  \* per version, the hash of its published runtime, or Unpublished
  skills,     \* the working copy of the plugin's skills
  edits, crashes

releaseVars == <<main, prepared, syncing, tags, published, skills, edits, crashes>>

Nothing == [version |-> 0]
Unpublished == -1
Build(src) == src

----------------------------------------------------------------------------
\* The checks.

\* A manifest of the hashes of a build, and what each reader asks of one.
RuntimeManifest(v, hash) == [version |-> v, hash |-> hash]
RuntimePinned(tree, v) == tree.runtime.version = v
\* Mutation: the release compares versions and leaves the hashes alone.
RuntimeVersionOnly(tree, v, built) == RuntimePinned(tree, v)
RuntimeVerified(tree, v, built) == RuntimePinned(tree, v) /\ tree.runtime.hash = built

\* check_committed_manifest_versions: both hosts agree, the marketplaces may lag.
CodexRefOK(tree)      == tree.codexRef <= tree.codex
ClaudeArchiveOK(tree) == tree.claudeRef.version <= tree.claude
VersionsAgree(tree) == tree.claude = tree.codex /\ CodexRefOK(tree) /\ ClaudeArchiveOK(tree)
VersionsMatch(tree, v) == tree.claude = v /\ VersionsAgree(tree)

\* check_committed_runtime_manifest
RuntimeMatches(tree) == RuntimePinned(tree, tree.claude)

\* verify_staged_plugin, for a release of version v.
StagedOK(tree, v) == tree.claude = v /\ tree.codex = v /\ tree.runtime.version \in Releases

CommitGate(tree) == VersionsAgree(tree) /\ RuntimeMatches(tree)

----------------------------------------------------------------------------
ReleaseInit ==
  /\ main = [claude |-> 1, codex |-> 1, runtime |-> RuntimeManifest(1, 0), src |-> 0,
             codexRef |-> 0, claudeRef |-> [version |-> 0, hash |-> 0]]
  /\ prepared = Nothing /\ syncing = Nothing
  /\ tags = [v \in Releases |-> Nothing]
  /\ published = [v \in Releases |-> Unpublished]
  /\ skills = [canonical |-> 0, shared |-> 0, local |-> TRUE, temp |-> FALSE, lost |-> FALSE, pc |-> "idle"]
  /\ edits = 0 /\ crashes = 0

KeepSkills == UNCHANGED <<skills, crashes>>

\* The runtime's sources change on main.
Edit ==
  /\ edits < MaxEdits
  /\ edits' = edits + 1
  /\ main' = [main EXCEPT !.src = @ + 1]
  /\ UNCHANGED <<prepared, syncing, tags, published>> /\ KeepSkills

\* prepare-release.yml: bump_committed_manifest_versions writes both manifests,
\* then the manifest of the built archives is written and verified.
Prepare(v) ==
  LET bumped == [main EXCEPT !.claude = v, !.codex = v]
      built  == [bumped EXCEPT !.runtime = RuntimeManifest(v, Build(main.src))]
  IN /\ tags[v] = Nothing
     /\ VersionsMatch(bumped, v)
     /\ RuntimeVerified(built, v, Build(main.src))
     /\ prepared' = [version |-> v, runtime |-> built.runtime]
     /\ UNCHANGED <<main, syncing, tags, published, edits>> /\ KeepSkills

\* Merging it puts the files it changed on main as main is by then.
MergePrepared ==
  LET v == prepared.version
      merged == [main EXCEPT !.claude = v, !.codex = v, !.runtime = prepared.runtime]
  IN /\ prepared /= Nothing
     /\ CommitGate(merged)
     /\ main' = merged
     /\ prepared' = Nothing
     /\ UNCHANGED <<syncing, tags, published, edits>> /\ KeepSkills

\* tag-release.yml
Tag ==
  /\ VersionsAgree(main)
  /\ tags[main.claude] = Nothing
  /\ tags' = [tags EXCEPT ![main.claude] = [version |-> main.claude, tree |-> main]]
  /\ UNCHANGED <<main, prepared, syncing, published, edits>> /\ KeepSkills

\* release.yml at the tag: rebuilt, verified against the manifest, staged and
\* published, or nothing is.
Publish(v) ==
  /\ tags[v] /= Nothing /\ published[v] = Unpublished
  /\ LET tree == tags[v].tree
     IN /\ VersionsMatch(tree, v)
        /\ RuntimeVerified(tree, v, Build(tree.src))
        /\ StagedOK(tree, v)
        /\ published' = [published EXCEPT ![v] = Build(tree.src)]
  /\ UNCHANGED <<main, prepared, syncing, tags, edits>> /\ KeepSkills

\* sync-plugin-manifests.yml, for a published release.
Sync(v) ==
  /\ published[v] /= Unpublished
  /\ syncing' = [version |-> v, archive |-> [version |-> v, hash |-> published[v]],
                 was |-> main.codexRef]
  /\ UNCHANGED <<main, prepared, tags, published, edits>> /\ KeepSkills

\* Two pull requests that change the same line do not merge.
MergeSync ==
  LET merged == [main EXCEPT !.codexRef = syncing.version, !.claudeRef = syncing.archive]
  IN /\ syncing /= Nothing /\ main.codexRef = syncing.was
     /\ CommitGate(merged)
     /\ main' = merged
     /\ syncing' = Nothing
     /\ UNCHANGED <<prepared, tags, published, edits>> /\ KeepSkills

----------------------------------------------------------------------------
\* sync_plugin_skills: the plugin's copy of the canonical skills, made beside
\* the old one.  The skills that only the plugin has exist nowhere else.

SkillsRest == UNCHANGED <<main, prepared, syncing, tags, published>>

EditSkills ==
  /\ edits < MaxEdits
  /\ edits' = edits + 1
  /\ skills' = [skills EXCEPT !.canonical = @ + 1]
  /\ SkillsRest /\ UNCHANGED crashes

\* The copy needs the local skills of the present one.
CopySkills ==
  /\ skills.pc = "idle" /\ skills.local
  /\ skills' = [skills EXCEPT !.temp = TRUE, !.pc = "copied"]
  /\ SkillsRest /\ UNCHANGED <<edits, crashes>>

RemoveSkills ==
  /\ skills.pc = "copied"
  /\ skills' = [skills EXCEPT !.local = FALSE, !.pc = "removed"]
  /\ SkillsRest /\ UNCHANGED <<edits, crashes>>

RenameSkills ==
  /\ skills.pc = "removed"
  /\ skills' = [skills EXCEPT !.local = TRUE, !.temp = FALSE, !.shared = skills.canonical, !.pc = "idle"]
  /\ SkillsRest /\ UNCHANGED <<edits, crashes>>

\* An error on the way removes the new copy; a kill leaves it, and the next
\* sync removes it before anything else.
FailSync ==
  /\ skills.pc /= "idle" /\ crashes < MaxCrashes
  /\ crashes' = crashes + 1
  /\ skills' = [skills EXCEPT !.temp = FALSE, !.pc = "idle", !.lost = @ \/ ~skills.local]
  /\ SkillsRest /\ UNCHANGED edits

VersionNext ==
  \/ Edit \/ MergePrepared \/ Tag \/ MergeSync
  \/ \E v \in Releases : Prepare(v) \/ Publish(v) \/ Sync(v)

SkillsNext == EditSkills \/ CopySkills \/ RemoveSkills \/ RenameSkills \/ FailSync
ReleaseSpec == ReleaseInit /\ [][VersionNext \/ SkillsNext]_releaseVars

----------------------------------------------------------------------------
\* What the marketplaces on main offer is a published release whose plugin pins
\* exactly the published runtime, and never ahead of main's own version: an
\* installed hook finds the archive it wants (verify_runtime_manifest, sync_claude_marketplace,
\* sync_codex_marketplace).
OfferedIsPinned ==
  \A v \in {main.codexRef, main.claudeRef.version} \ {0} :
    /\ tags[v] /= Nothing /\ published[v] /= Unpublished
    /\ tags[v].tree.runtime.version = v
    /\ tags[v].tree.runtime.hash = published[v]
    /\ (v = main.claudeRef.version) => main.claudeRef.hash = published[v]
    /\ v <= main.claude

\* The plugin's own skills are in its directory or in the copy that is about to
\* replace it, unless a sync was cut off between removing the one and renaming
\* the other (sync_plugin_skills).
LocalSkillsKept == skills.local \/ skills.temp \/ skills.lost

\* What is offered is pinned, and a staged plugin still has its own skills
\* (sync_plugin_skills, sync_claude_marketplace, sync_codex_marketplace).
OfferedPluginIsWhole == OfferedIsPinned /\ LocalSkillsKept
=============================================================================
