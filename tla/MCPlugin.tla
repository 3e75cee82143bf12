------------------------------ MODULE MCPlugin ------------------------------
(***************************************************************************)
(* One run for the plugin: the hooks of concurrent sessions, the cache of  *)
(* the runtime, the release of a version and the rules for the documents   *)
(* the hook reads.  "part" says which of them a behaviour is about; the    *)
(* variables of the others keep their first values.                        *)
(***************************************************************************)
EXTENDS Bootstrap, RuntimeCache, PluginRelease, BootstrapRules

VARIABLE part
mcVars == <<part, consulted, vars, cacheVars, releaseVars>>

\* Small file systems: a repository with a worktree, one inside the other or
\* side by side.
Names == {<<>>, <<"a">>, <<"b">>, <<"a", "b">>, <<"a", "b", "c">>}
Entries == {[git |-> "no", target |-> NoTarget], [git |-> "dir", target |-> NoTarget],
            [git |-> "file", target |-> NoTarget], [git |-> "file", target |-> <<"a">>]}
SmallFileSystems == [Names -> Entries]

MCInit ==
  /\ part \in {"hooks", "cache", "release", "skills", "rules"}
  /\ Init /\ ReleaseInit
  /\ IF part = "cache" THEN CacheInit
     ELSE /\ archive = "none" /\ extracted = "none" /\ cpc = "idle" /\ attempt = 0
          /\ faults = 0 /\ result = "none"
  /\ consulted = NoDoc

Frozen(part_) == part = part_ /\ UNCHANGED part
HookPart    == Frozen("hooks") /\ Next /\ UNCHANGED <<consulted, cacheVars, releaseVars>>
CachePart   == Frozen("cache") /\ CacheNext /\ UNCHANGED <<consulted, vars, releaseVars>>
ReleasePart == Frozen("release") /\ VersionNext /\ UNCHANGED <<consulted, vars, cacheVars>>
SkillsPart  == Frozen("skills") /\ SkillsNext /\ UNCHANGED <<consulted, vars, cacheVars>>
RulesPart   == Frozen("rules") /\ ReadDoc /\ UNCHANGED <<vars, cacheVars, releaseVars>>

MCNext == HookPart \/ CachePart \/ ReleasePart \/ SkillsPart \/ RulesPart

MCSpec ==
  /\ MCInit /\ [][MCNext]_mcVars
  /\ \A s \in Sessions : WF_mcVars(Frozen("hooks") /\ Hook(s) /\ UNCHANGED <<consulted, cacheVars, releaseVars>>)
=============================================================================
