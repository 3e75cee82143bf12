---------------------------- MODULE Plugin_proofs ----------------------------
(***************************************************************************)
(* Theorems about modules RuntimeCache, PluginRelease, Bootstrap and       *)
(* BootstrapRules: what the hook of an installed plugin may start, what    *)
(* the marketplaces offer, whom the hooks signal and what their state      *)
(* files say, and how the hook reads what it finds, for every number of    *)
(* attempts, faults, releases, sessions, observers and changes, and for    *)
(* every document and file system.                                         *)
(***************************************************************************)
EXTENDS Bootstrap, RuntimeCache, PluginRelease, BootstrapRules, FiniteSetTheorems, SequenceTheorems,
        WellFoundedInduction, TLAPS

-----------------------------------------------------------------------------
(* The cache of the runtime *)

\* A call has no result before it ends, and what it extracts was verified.
CacheInv ==
  /\ cpc \notin {"idle"} => result = "none"
  /\ cpc = "extract" => archive = "pinned"
  /\ OnlyPinnedRuns

LEMMA CacheStarts == CacheInit => CacheInv
BY DEF CacheInit, CacheInv, OnlyPinnedRuns

LEMMA CacheKept == CacheInv /\ [CacheNext]_cacheVars => CacheInv'
<1> SUFFICES ASSUME CacheInv, [CacheNext]_cacheVars PROVE CacheInv'
  OBVIOUS
<1> USE DEF CacheInv, OnlyPinnedRuns
<1>1. CASE Call
  BY <1>1 DEF Call
<1>2. CASE Cached
  BY <1>2 DEF Cached, Leave, ArchiveIsValid
<1>3. CASE Clean
  BY <1>3 DEF Clean
<1>4. CASE Open
  BY <1>4 DEF Open
<1>5. ASSUME NEW b \in {"pinned", "other"}, Arrived(b) PROVE CacheInv'
  BY <1>5 DEF Arrived
<1>6. ASSUME NEW nf \in BOOLEAN, Refused(nf) PROVE CacheInv'
  BY <1>6 DEF Refused, Leave
<1>7. CASE VerifyArchive
  BY <1>7 DEF VerifyArchive, Leave, ArchiveIsValid
<1>8. CASE Extract
  BY <1>8 DEF Extract, Leave
<1>9. CASE Kill
  BY <1>9 DEF Kill
<1>10. CASE Alter
  BY <1>10 DEF Alter
<1>11. CASE UNCHANGED cacheVars
  BY <1>11 DEF cacheVars
<1> QED
  BY <1>1, <1>2, <1>3, <1>4, <1>5, <1>6, <1>7, <1>8, <1>9, <1>10, <1>11 DEF CacheNext, CacheStep

\* Whatever killed calls, wrong downloads and full disks leave in the cache, in
\* any number, download_obstudio returns a binary with the pinned bytes or none.
THEOREM OnlyPinnedIsRun == CacheSpec => []OnlyPinnedRuns
<1>1. CacheInv => OnlyPinnedRuns
  BY DEF CacheInv
<1> QED
  BY CacheStarts, CacheKept, <1>1, PTL DEF CacheSpec

-----------------------------------------------------------------------------
(* Releases *)

Hashes    == Nat
Manifests == [version: Releases, hash: Hashes]
Archives  == [version: Releases \cup {0}, hash: Hashes]
Trees     == [claude: Releases, codex: Releases, runtime: Manifests, src: Nat,
              codexRef: Releases \cup {0}, claudeRef: Archives]

ReleaseTypeOK ==
  /\ main \in Trees
  /\ prepared \in {Nothing} \cup [version: Releases, runtime: Manifests]
  /\ syncing \in {Nothing} \cup [version: Releases, archive: Archives, was: Releases \cup {0}]
  /\ tags \in [Releases -> {Nothing} \cup [version: Releases, tree: Trees]]
  /\ published \in [Releases -> Hashes \cup {Unpublished}]

\* What is published is what the tagged tree pins.
PublishedIsPinned ==
  \A v \in Releases : published[v] # Unpublished =>
    /\ tags[v] # Nothing
    /\ tags[v].tree.runtime = RuntimeManifest(v, published[v])

\* A reference names a published release, in an open pull request too.
RefersToPublished(v) == v \in Releases /\ published[v] # Unpublished
SyncingIsPublished ==
  syncing # Nothing =>
    /\ RefersToPublished(syncing.version)
    /\ syncing.archive = [version |-> syncing.version, hash |-> published[syncing.version]]
OfferedIsPublished ==
  /\ main.codexRef # 0 => RefersToPublished(main.codexRef)
  /\ main.claudeRef.version # 0 =>
       /\ RefersToPublished(main.claudeRef.version)
       /\ main.claudeRef.hash = published[main.claudeRef.version]
  /\ main.claude = main.codex /\ main.codexRef <= main.claude /\ main.claudeRef.version <= main.claude

\* A sync that has begun has its new copy.
SkillsInv ==
  /\ skills \in [canonical: Nat, shared: Nat, local: BOOLEAN, temp: BOOLEAN, lost: BOOLEAN,
                 pc: {"idle", "copied", "removed"}]
  /\ skills.pc # "idle" => skills.temp
  /\ LocalSkillsKept

ReleaseInv ==
  /\ ReleaseTypeOK /\ PublishedIsPinned /\ SyncingIsPublished /\ OfferedIsPublished
  /\ SkillsInv

LEMMA ReleaseStarts == ReleaseInit => ReleaseInv
BY ReleaseAssumption
   DEF ReleaseInit, ReleaseInv, ReleaseTypeOK, PublishedIsPinned, SyncingIsPublished, OfferedIsPublished,
       SkillsInv, LocalSkillsKept, Trees, Manifests, Archives, Hashes, Releases, RuntimeManifest, Nothing, Unpublished,
       RefersToPublished

LEMMA SkillsKept ==
  ASSUME SkillsInv, SkillsNext
  PROVE  SkillsInv' /\ UNCHANGED <<main, prepared, syncing, tags, published>>
<1> USE DEF SkillsInv, LocalSkillsKept, SkillsRest
<1>1. CASE EditSkills
  BY <1>1 DEF EditSkills
<1>2. CASE CopySkills
  BY <1>2 DEF CopySkills
<1>3. CASE RemoveSkills
  BY <1>3 DEF RemoveSkills
<1>4. CASE RenameSkills
  BY <1>4 DEF RenameSkills
<1>5. CASE FailSync
  BY <1>5 DEF FailSync
<1> QED
  BY <1>1, <1>2, <1>3, <1>4, <1>5 DEF SkillsNext

\* The properties of the releases are about these five variables only.
LEMMA ReleaseUnchanged ==
  ASSUME ReleaseInv, UNCHANGED <<main, prepared, syncing, tags, published>>, SkillsInv'
  PROVE  ReleaseInv'
BY DEF ReleaseInv, ReleaseTypeOK, PublishedIsPinned, SyncingIsPublished, OfferedIsPublished, RefersToPublished

\* Steps that touch neither tags nor published, and leave the references or put
\* in those of a published release.
LEMMA BranchKept ==
  ASSUME ReleaseInv, UNCHANGED <<tags, published, skills>>, ReleaseTypeOK',
         syncing' \in {Nothing, syncing},
         main'.claude = main'.codex, main'.codexRef <= main'.claude, main'.claudeRef.version <= main'.claude,
         \/ main'.codexRef = main.codexRef /\ main'.claudeRef = main.claudeRef
         \/ syncing # Nothing /\ main'.codexRef = syncing.version /\ main'.claudeRef = syncing.archive
  PROVE  ReleaseInv'
<1>1. PublishedIsPinned' /\ SkillsInv'
  BY DEF ReleaseInv, PublishedIsPinned, SkillsInv, LocalSkillsKept
<1>2. SyncingIsPublished'
  BY DEF ReleaseInv, SyncingIsPublished, RefersToPublished
<1>3. OfferedIsPublished'
  BY DEF ReleaseInv, OfferedIsPublished, SyncingIsPublished, RefersToPublished
<1> QED
  BY <1>1, <1>2, <1>3 DEF ReleaseInv

LEMMA ReleaseKept == ReleaseInv /\ [VersionNext \/ SkillsNext]_releaseVars => ReleaseInv'
<1> SUFFICES ASSUME ReleaseInv, [VersionNext \/ SkillsNext]_releaseVars PROVE ReleaseInv'
  OBVIOUS
<1> USE ReleaseAssumption DEF KeepSkills
<1>0. ReleaseTypeOK /\ OfferedIsPublished
  BY DEF ReleaseInv
<1>1. CASE Edit
  <2>1. ReleaseTypeOK'
    BY <1>0, <1>1 DEF Edit, ReleaseTypeOK, Trees
  <2>2. main'.claude = main.claude /\ main'.codex = main.codex /\ main'.codexRef = main.codexRef
        /\ main'.claudeRef = main.claudeRef
    BY <1>0, <1>1 DEF Edit, ReleaseTypeOK, Trees
  <2> QED
    BY <1>0, <1>1, <2>1, <2>2, BranchKept DEF Edit, OfferedIsPublished
<1>2. CASE MergePrepared
  <2>1. prepared \in [version: Releases, runtime: Manifests] /\ main \in Trees
    BY <1>0, <1>2 DEF MergePrepared, ReleaseTypeOK
  <2>2. /\ main' = [main EXCEPT !.claude = prepared.version, !.codex = prepared.version, !.runtime = prepared.runtime]
        /\ prepared' = Nothing /\ UNCHANGED <<syncing, tags, published, skills>>
        /\ main'.claude = main'.codex /\ main'.codexRef <= main'.codex /\ main'.claudeRef.version <= main'.claude
    BY <1>2 DEF MergePrepared, CommitGate, VersionsAgree, CodexRefOK, ClaudeArchiveOK
  <2>3. main' \in Trees /\ main'.codexRef = main.codexRef /\ main'.claudeRef = main.claudeRef
    BY <2>1, <2>2 DEF Trees
  <2>4. ReleaseTypeOK'
    BY <1>0, <2>2, <2>3 DEF ReleaseTypeOK
  <2> QED
    BY <2>2, <2>3, <2>4, BranchKept
<1>3. CASE Tag
  <2>1. /\ main.claude \in Releases /\ tags[main.claude] = Nothing
        /\ tags' = [tags EXCEPT ![main.claude] = [version |-> main.claude, tree |-> main]]
        /\ UNCHANGED <<main, prepared, syncing, published, skills>>
    BY <1>0, <1>3 DEF Tag, ReleaseTypeOK, Trees
  <2>2. ReleaseTypeOK'
    BY <1>0, <2>1 DEF ReleaseTypeOK
  <2>3. PublishedIsPinned'
    BY <1>0, <2>1 DEF ReleaseInv, ReleaseTypeOK, PublishedIsPinned
  <2> QED
    BY <2>1, <2>2, <2>3 DEF ReleaseInv, SyncingIsPublished, OfferedIsPublished, RefersToPublished, SkillsInv,
                            LocalSkillsKept
<1>4. CASE MergeSync
  <2>1. syncing \in [version: Releases, archive: Archives, was: Releases \cup {0}] /\ main \in Trees
    BY <1>0, <1>4 DEF MergeSync, ReleaseTypeOK
  <2>2. /\ main' = [main EXCEPT !.codexRef = syncing.version, !.claudeRef = syncing.archive]
        /\ syncing # Nothing /\ syncing' = Nothing /\ UNCHANGED <<prepared, tags, published, skills>>
        /\ main'.claude = main'.codex /\ main'.codexRef <= main'.codex /\ main'.claudeRef.version <= main'.claude
    BY <1>4 DEF MergeSync, CommitGate, VersionsAgree, CodexRefOK, ClaudeArchiveOK
  <2>3. main' \in Trees /\ main'.codexRef = syncing.version /\ main'.claudeRef = syncing.archive
    BY <2>1, <2>2 DEF Trees
  <2>4. ReleaseTypeOK'
    BY <1>0, <2>2, <2>3 DEF ReleaseTypeOK
  <2> QED
    BY <2>2, <2>3, <2>4, BranchKept
<1>5. ASSUME NEW v \in Releases, Prepare(v) PROVE ReleaseInv'
  <2>1. /\ prepared' = [version |-> v, runtime |-> RuntimeManifest(v, Build(main.src))]
        /\ UNCHANGED <<main, syncing, tags, published, skills>>
    BY <1>0, <1>5 DEF Prepare, ReleaseTypeOK, Trees
  <2>2. RuntimeManifest(v, Build(main.src)) \in Manifests
    BY <1>0 DEF ReleaseTypeOK, Trees, Manifests, RuntimeManifest, Build, Hashes
  <2>3. ReleaseTypeOK'
    BY <1>0, <2>1, <2>2 DEF ReleaseTypeOK
  <2> QED
    BY <1>0, <2>1, <2>3, BranchKept DEF OfferedIsPublished
<1>6. ASSUME NEW v \in Releases, Publish(v) PROVE ReleaseInv'
  <2> DEFINE tree == tags[v].tree
  <2>1. /\ tags[v] # Nothing /\ published[v] = Unpublished
        /\ tree.runtime.version = v /\ tree.runtime.hash = tree.src
        /\ published' = [published EXCEPT ![v] = tree.src]
        /\ UNCHANGED <<main, prepared, syncing, tags, skills>>
    BY <1>6 DEF Publish, RuntimeVerified, RuntimePinned, Build
  <2>2. tree \in Trees /\ tree.runtime \in Manifests /\ tree.src \in Hashes
    BY <1>0, <2>1 DEF ReleaseTypeOK, Trees, Hashes
  <2>3. ReleaseTypeOK'
    BY <1>0, <2>1, <2>2 DEF ReleaseTypeOK
  <2>4. tree.runtime = RuntimeManifest(v, tree.src)
    BY <2>1, <2>2 DEF Manifests, RuntimeManifest
  <2>5. PublishedIsPinned'
    BY <1>0, <2>1, <2>4 DEF ReleaseInv, ReleaseTypeOK, PublishedIsPinned
  <2>6. \A w \in Releases : RefersToPublished(w) => RefersToPublished(w)' /\ published'[w] = published[w]
    BY <1>0, <2>1, <2>2 DEF RefersToPublished, ReleaseTypeOK
  <2>7. SyncingIsPublished' /\ OfferedIsPublished'
    BY <2>1, <2>6 DEF ReleaseInv, SyncingIsPublished, OfferedIsPublished, RefersToPublished
  <2> QED
    BY <2>1, <2>3, <2>5, <2>7 DEF ReleaseInv, SkillsInv, LocalSkillsKept
<1>7. ASSUME NEW v \in Releases, Sync(v) PROVE ReleaseInv'
  <2>1. /\ published[v] # Unpublished
        /\ syncing' = [version |-> v, archive |-> [version |-> v, hash |-> published[v]], was |-> main.codexRef]
        /\ UNCHANGED <<main, prepared, tags, published, skills>>
    BY <1>7 DEF Sync
  <2>2. published[v] \in Hashes /\ main.codexRef \in Releases \cup {0}
    BY <1>0, <2>1 DEF ReleaseTypeOK, Trees
  <2>3. syncing' \in [version: Releases, archive: Archives, was: Releases \cup {0}]
    BY <2>1, <2>2 DEF Archives
  <2>4. ReleaseTypeOK'
    BY <1>0, <2>1, <2>3 DEF ReleaseTypeOK
  <2>5. SyncingIsPublished'
    BY <2>1 DEF SyncingIsPublished, RefersToPublished
  <2> QED
    BY <2>1, <2>4, <2>5 DEF ReleaseInv, PublishedIsPinned, OfferedIsPublished, RefersToPublished, SkillsInv,
                            LocalSkillsKept
<1>8. CASE SkillsNext
  BY <1>8, SkillsKept, ReleaseUnchanged DEF ReleaseInv
<1>9. CASE UNCHANGED releaseVars
  BY <1>9, ReleaseUnchanged DEF releaseVars, ReleaseInv, SkillsInv, LocalSkillsKept
<1> QED
  BY <1>1, <1>2, <1>3, <1>4, <1>5, <1>6, <1>7, <1>8, <1>9 DEF VersionNext

LEMMA InvOffersWhole == ReleaseInv => OfferedPluginIsWhole
<1> SUFFICES ASSUME ReleaseInv PROVE OfferedPluginIsWhole
  OBVIOUS
<1>1. ASSUME NEW v \in {main.codexRef, main.claudeRef.version} \ {0}
      PROVE  /\ v \in Releases /\ published[v] # Unpublished /\ v <= main.claude
             /\ v = main.claudeRef.version => main.claudeRef.hash = published[v]
  BY DEF ReleaseInv, OfferedIsPublished, RefersToPublished
<1>2. ASSUME NEW v \in Releases, published[v] # Unpublished
      PROVE  /\ tags[v] # Nothing /\ tags[v].tree.runtime.version = v
             /\ tags[v].tree.runtime.hash = published[v]
  <2>1. tags[v] # Nothing /\ tags[v].tree.runtime = [version |-> v, hash |-> published[v]]
    BY <1>2 DEF ReleaseInv, PublishedIsPinned, RuntimeManifest
  <2> QED
    BY <2>1
<1> QED
  BY <1>1, <1>2 DEF OfferedPluginIsWhole, OfferedIsPinned, ReleaseInv, SkillsInv

\* For any number of versions, changes and pull requests in any order, what the
\* marketplaces on main offer is a published release that pins its own runtime,
\* and no sync of the skills loses the plugin's own but the one that is cut off
\* between removing and renaming (sync_claude_marketplace, sync_plugin_skills).
THEOREM OfferedIsWhole == ReleaseSpec => []OfferedPluginIsWhole
BY ReleaseStarts, ReleaseKept, InvOffersWhole, PTL DEF ReleaseSpec

-----------------------------------------------------------------------------
(* The session hook *)

\* What the processes have been through: they are numbered in the order of their
\* starts, no two of them share a pid or listen, and what was signalled is there.
Known(n) == proc[n].st # "never"
ProcInv ==
  /\ \E k \in 0 .. MaxStarts : \A n \in Starts : Known(n) <=> n <= k
  /\ \A n \in Starts : Live(n) => proc[n].pid \in Pids
  /\ \A m, n \in Starts : Listening(m) /\ Listening(n) => m = n
  /\ \A m, n \in Starts : Live(m) /\ Live(n) /\ proc[m].pid = proc[n].pid => m = n
  /\ \A x \in hits : Known(x.target) /\ (proc[x.target].owner = x.host \/ x.excuse)

\* A process of the host that no hook has abandoned or signalled: one that is
\* listening, or the one that a hook is just starting.
Told(n)    == n \in orphaned \/ \E x \in hits : x.target = n
Good(h, n) == Live(n) /\ proc[n].owner = h /\ ~Told(n)
Mine(s)    == sess[s].pc \in {"verify", "ensure"}
GoodInv ==
  \A n \in Starts, h \in Hosts :
    Good(h, n) => Listening(n) \/ \E s \in Sessions : Mine(s) /\ sess[s].mine = n /\ sess[s].host = h

\* A managed record is right about a process that still answers, and a stopped
\* one is not about such a process.
RecordSound(h, r) ==
  r.mode = "managed" =>
    /\ r.start \in Starts /\ Known(r.start)
    /\ Live(r.start) => \/ Told(r.start)
                        \/ /\ ~r.stopped /\ proc[r.start].owner = h /\ proc[r.start].version = r.version
                           /\ r.pid \in {0, proc[r.start].pid}

\* What a hook knows at each of its steps.
Retires(s)  == sess[s].pc \in {"retire", "retirewait", "retirekill"}
Replaces(s) == sess[s].pc \in {"replace", "replacewait", "replacekill"}
SeenSound(s) ==
  sess[s].seen \in Starts /\ proc[sess[s].seen].st \in {"up", "ending", "dead"}
OwnsSeen(s) ==
  LET h == sess[s].host
      n == sess[s].seen
  IN /\ file[h].mode = "managed" /\ file[h].start = n /\ proc[n].owner = h
     /\ Live(n) /\ sess[s].pid # 0 => sess[s].pid = proc[n].pid
MineSound(s) ==
  /\ sess[s].mine \in Starts /\ Known(sess[s].mine)
  /\ proc[sess[s].mine].owner = sess[s].host /\ proc[sess[s].mine].version = sess[s].v
  /\ proc[sess[s].mine].pid = sess[s].pid
\* Processes of the host at the endpoint that the hook goes on to start one at.
Rivals(s) == {n \in Starts : Good(sess[s].host, n) /\ proc[n].url = UrlOf(sess[s].v)}
HookSound(s) ==
  LET pc == sess[s].pc
      h  == sess[s].host
  IN /\ pc # "idle" => h \in Hosts /\ sess[s].v # 0
     /\ pc \in {"prior", "priorpid", "live", "livepid"} \/ Retires(s) \/ Replaces(s) => sess[s].ours = ManagedPid(h)
     /\ pc \in {"priorpid", "livepid", "ensure"} \/ Retires(s) \/ Replaces(s) => SeenSound(s)
     /\ pc = "priorpid" => sess[s].prior = sess[s].seen
     /\ pc = "ensure" => proc[sess[s].seen].url = UrlOf(sess[s].v)
     /\ Retires(s) \/ Replaces(s) => OwnsSeen(s)
     /\ pc \in {"livepid", "replace"} => Rivals(s) \subseteq {sess[s].seen}
     /\ pc \in {"replacewait", "replacekill", "spawn"} => Rivals(s) = {}
     /\ Mine(s) => MineSound(s) /\ Rivals(s) \subseteq {sess[s].mine}
     /\ pc \in {"truncate", "write"} => RecordSound(h, sess[s].out)
     /\ pc \notin {"idle", "lock", "decide"} /\ wish[h] = "stop" =>
          excused[h] \/ (pc \in {"truncate", "write"} /\ sess[s].out.stopped)

BootInv ==
  /\ BootTypeOK /\ ProcInv /\ GoodInv
  /\ \A h \in Hosts : RecordSound(h, file[h])
  /\ \A s \in Sessions : HookSound(s)
  /\ StopIsOnRecord


LEMMA HookBasics ==
  /\ MaxStarts \in Nat /\ MaxVersion \in Nat /\ MaxVersion > 0 /\ MaxSessions \in Nat /\ MaxChanges \in Nat
  /\ \A p \in Pids : p \in Nat /\ p # 0
  /\ \A n : n \in Starts <=> n \in Nat /\ 1 <= n /\ n <= MaxStarts
  /\ "nobody" \notin Sessions /\ \A h \in Hosts : h \in {"claude", "codex"}
  /\ \A v : UrlOf(v) \in Urls
BY HostsAssumption, PidsAssumption, BoundsAssumption, SessionsAssumption DEF Starts, UrlOf, Urls

\* Two hooks of one host are not both past the lock.
LEMMA OneHook ==
  ASSUME BootTypeOK, NEW s \in Sessions, NEW t \in Sessions, sess[s].pc \notin {"idle", "lock"},
         sess[t].pc \notin {"idle", "lock"}, sess[s].host = sess[t].host
  PROVE  s = t
BY DEF BootTypeOK

\* The next start is the first free number.
LEMMA NextFree ==
  ASSUME BootTypeOK, ProcInv, NextStart \in Starts
  PROVE  /\ ~Known(NextStart)
         /\ \E k \in 0 .. MaxStarts : \A n \in Starts : (Known(n) \/ n = NextStart) <=> n <= k
<1>1. PICK k \in 0 .. MaxStarts : \A n \in Starts : Known(n) <=> n <= k
  BY DEF ProcInv
<1>2. Started = 1 .. k
  BY <1>1, HookBasics DEF Started, Known
<1>3. Cardinality(1 .. k) = k
  BY FS_Interval, HookBasics
<1>4. NextStart = k + 1
  BY <1>2, <1>3 DEF NextStart
<1>5. k + 1 \in 0 .. MaxStarts /\ \A n \in Starts : (Known(n) \/ n = NextStart) <=> n <= k + 1
  BY <1>1, <1>4, HookBasics
<1> QED
  BY <1>1, <1>4, <1>5, HookBasics

\* What may become of the processes in one step, but for one that is started.
Evolves ==
  /\ \A n \in Starts : Known(n) =>
       /\ proc'[n].owner = proc[n].owner /\ proc'[n].version = proc[n].version
       /\ proc'[n].url = proc[n].url /\ proc'[n].pid = proc[n].pid
       /\ Known(n)' /\ (Live(n)' => Live(n))
       /\ proc[n].st \in {"up", "ending", "dead"} => proc'[n].st \in {"up", "ending", "dead"}
  /\ orphaned \subseteq orphaned' /\ hits \subseteq hits'

LEMMA ToldStays == ASSUME Evolves, NEW n, Told(n) PROVE Told(n)'
BY DEF Evolves, Told

LEMMA RecordStays ==
  ASSUME Evolves, NEW h, NEW r, RecordSound(h, r)
  PROVE  RecordSound(h, r)'
BY ToldStays DEF Evolves, RecordSound

LEMMA GoodBefore ==
  ASSUME Evolves, NEW h, NEW n \in Starts, Known(n), Good(h, n)'
  PROVE  Good(h, n)
BY ToldStays DEF Evolves, Good

\* What a hook knows is not disturbed by others.
LEMMA HookStays ==
  ASSUME BootTypeOK, Evolves, NEW t \in Sessions, HookSound(t), sess'[t] = sess[t],
         sess[t].pc \notin {"idle", "lock"} =>
           LET h == sess[t].host
           IN /\ file'[h].mode = file[h].mode /\ file'[h].start = file[h].start /\ file'[h].pid = file[h].pid
              /\ \A n \in Starts : ~Known(n) => ~Good(h, n)'
              /\ wish'[h] = "stop" => excused'[h] \/ (wish[h] = "stop" /\ ~excused[h])
  PROVE  HookSound(t)'
<1> DEFINE h == sess[t].host
           pc == sess[t].pc
<1>1. pc = "idle" \/ pc = "lock" => HookSound(t)'
  BY DEF HookSound, Retires, Replaces, Mine
<1> SUFFICES ASSUME pc \notin {"idle", "lock"} PROVE HookSound(t)'
  BY <1>1
<1>2. /\ sess'[t].pc = pc /\ sess'[t].host = h /\ ManagedPid(h)' = ManagedPid(h)
      /\ Retires(t)' = Retires(t) /\ Replaces(t)' = Replaces(t) /\ Mine(t)' = Mine(t)
  BY DEF ManagedPid, Retires, Replaces, Mine
<1>3. SeenSound(t) => SeenSound(t)'
  BY DEF SeenSound, Evolves, Known
<1>4. SeenSound(t) /\ OwnsSeen(t) => OwnsSeen(t)'
  BY DEF SeenSound, OwnsSeen, Evolves, Known
<1>5. MineSound(t) => MineSound(t)'
  BY DEF MineSound, Evolves
<1>6. Rivals(t)' \subseteq Rivals(t)
  BY GoodBefore DEF Rivals, Evolves
<1>7. RecordSound(h, sess[t].out) => RecordSound(h, sess[t].out)'
  BY RecordStays
<1>8. wish'[h] = "stop" /\ ~excused'[h] => wish[h] = "stop" /\ ~excused[h]
  OBVIOUS
<1>9. SeenSound(t) => proc'[sess[t].seen].url = proc[sess[t].seen].url
  BY DEF SeenSound, Evolves, Known
<1> QED
  BY <1>2, <1>3, <1>4, <1>5, <1>6, <1>7, <1>8, <1>9 DEF HookSound

LEMMA IdleTyped == Absent \in RecordType /\ Idle \in SessType
<1>1. Absent \in RecordType
  BY HookBasics DEF Absent, RecordType
<1> QED
  BY <1>1, HookBasics DEF Idle, SessType, Steps

LEMMA SameProcesses ==
  ASSUME BootInv, UNCHANGED <<proc, orphaned, hits>>
  PROVE  /\ Evolves /\ ProcInv' /\ \A n \in Starts : \A h : Good(h, n)' => Known(n)
         /\ \A n \in Starts : \A h : Good(h, n)' <=> Good(h, n)
         /\ \A n \in Starts : (Listening(n)' <=> Listening(n)) /\ (Live(n)' <=> Live(n)) /\ (Known(n)' <=> Known(n))
<1>1. \A n \in Starts : (Listening(n)' <=> Listening(n)) /\ (Live(n)' <=> Live(n)) /\ (Known(n)' <=> Known(n))
  BY DEF Listening, Live, Known
<1>2. \A n \in Starts : \A h : Good(h, n)' <=> Good(h, n)
  BY DEF Good, Told, Live
<1>5. \A n \in Starts : \A h : Good(h, n)' => Known(n)
  BY DEF Good, Live, Known
<1>3. Evolves
  BY <1>1 DEF Evolves
<1>4. ProcInv'
  BY DEF BootInv, ProcInv, Listening, Live, Known
<1> QED
  BY <1>1, <1>2, <1>3, <1>4, <1>5

\* A step of one hook that only looks, and ends it.
LEMMA LookReturns ==
  ASSUME BootInv, NEW s \in Sessions, UNCHANGED <<proc, file, Rest>>, Return(s),
         sess[s].pc \notin {"idle", "lock", "verify", "ensure", "write"}
  PROVE  BootInv'
<1> USE DEF Rest, UserVars
<1>1. /\ sess'[s] = Idle /\ \A t \in Sessions : t # s => sess'[t] = sess[t]
      /\ lock' = [lock EXCEPT ![sess[s].host] = "nobody"]
  BY DEF BootInv, BootTypeOK, Return
<1>2. \A t \in Sessions : t # s /\ sess[t].pc \notin {"idle", "lock"} => sess[t].host # sess[s].host
  BY OneHook DEF BootInv
<1>3. BootTypeOK'
  <2>1. sess' \in [Sessions -> SessType]
    BY IdleTyped DEF BootInv, BootTypeOK, Return
  <2>2. \A t \in Sessions : sess'[t].pc \notin {"idle", "lock"} => lock'[sess'[t].host] = t
    BY <1>1, <1>2 DEF BootInv, BootTypeOK, Idle
  <2>3. lock' \in [Hosts -> Sessions \cup {"nobody"}]
    BY <1>1 DEF BootInv, BootTypeOK
  <2> QED
    BY <2>1, <2>2, <2>3 DEF BootInv, BootTypeOK
<1>4. \A h \in Hosts : RecordSound(h, file[h])'
  BY SameProcesses, RecordStays DEF BootInv
<1>5. GoodInv'
  <2> SUFFICES ASSUME NEW n \in Starts, NEW h \in Hosts, Good(h, n)'
               PROVE  Listening(n)' \/ \E t \in Sessions : Mine(t)' /\ sess'[t].mine = n /\ sess'[t].host = h
    BY DEF GoodInv
  <2>1. Listening(n) \/ \E t \in Sessions : Mine(t) /\ sess[t].mine = n /\ sess[t].host = h
    BY SameProcesses DEF BootInv, GoodInv
  <2> QED
    BY <1>1, <2>1, SameProcesses DEF Mine
<1>6. ASSUME NEW t \in Sessions PROVE HookSound(t)'
  <2>1. CASE t = s
    BY <1>1, <2>1 DEF HookSound, Idle, Retires, Replaces, Mine
  <2>2. CASE t # s
    <3>1. BootTypeOK /\ HookSound(t) /\ sess'[t] = sess[t] /\ Evolves /\ \A n \in Starts : \A h : Good(h, n)' => Known(n)
      BY <1>1, <2>2, SameProcesses DEF BootInv
    <3> QED
      BY <3>1, HookStays
  <2> QED
    BY <2>1, <2>2
<1>7. StopIsOnRecord'
  <2> SUFFICES ASSUME NEW h \in Hosts, wish[h] = "stop", ~file[h].stopped, ~excused[h]
               PROVE  \E t \in Sessions : sess'[t].host = h /\ sess'[t].pc = "write" /\ sess'[t].out.stopped
    BY DEF StopIsOnRecord
  <2>1. \E t \in Sessions : sess[t].host = h /\ sess[t].pc = "write" /\ sess[t].out.stopped
    BY DEF BootInv, StopIsOnRecord
  <2> QED
    BY <1>1, <2>1
<1> QED
  BY <1>3, <1>4, <1>5, <1>6, <1>7, SameProcesses DEF BootInv

\* A step of one hook that only looks, and goes on with what it has seen.
LEMMA LookGoes ==
  ASSUME BootInv, NEW s \in Sessions, UNCHANGED <<proc, file, lock, Rest>>,
         sess' \in [Sessions -> SessType], \A t \in Sessions : t # s => sess'[t] = sess[t],
         sess[s].pc \notin {"idle", "lock", "write"}, sess'[s].pc \notin {"idle", "lock"},
         sess'[s].host = sess[s].host, Mine(s) => sess'[s].pc = "ensure" /\ sess'[s].mine = sess[s].mine,
         HookSound(s)'
  PROVE  BootInv'
<1> USE DEF Rest, UserVars
<1>1. \A t \in Sessions : t # s => sess'[t] = sess[t]
  OBVIOUS
<1>3. BootTypeOK'
  BY DEF BootInv, BootTypeOK
<1>4. \A h \in Hosts : RecordSound(h, file[h])'
  BY SameProcesses, RecordStays DEF BootInv
<1>5. GoodInv'
  <2> SUFFICES ASSUME NEW n \in Starts, NEW h \in Hosts, Good(h, n)'
               PROVE  Listening(n)' \/ \E t \in Sessions : Mine(t)' /\ sess'[t].mine = n /\ sess'[t].host = h
    BY DEF GoodInv
  <2>1. Listening(n) \/ \E t \in Sessions : Mine(t) /\ sess[t].mine = n /\ sess[t].host = h
    BY SameProcesses DEF BootInv, GoodInv
  <2> QED
    BY <1>1, <2>1, SameProcesses DEF Mine
<1>6. ASSUME NEW t \in Sessions PROVE HookSound(t)'
  <2>1. CASE t # s
    <3>1. BootTypeOK /\ HookSound(t) /\ sess'[t] = sess[t] /\ Evolves /\ \A n \in Starts : \A h : Good(h, n)' => Known(n)
      BY <1>1, <2>1, SameProcesses DEF BootInv
    <3> QED
      BY <3>1, HookStays
  <2> QED
    BY <2>1
<1>7. StopIsOnRecord'
  <2> SUFFICES ASSUME NEW h \in Hosts, wish[h] = "stop", ~file[h].stopped, ~excused[h]
               PROVE  \E t \in Sessions : sess'[t].host = h /\ sess'[t].pc = "write" /\ sess'[t].out.stopped
    BY DEF StopIsOnRecord
  <2>1. \E t \in Sessions : sess[t].host = h /\ sess[t].pc = "write" /\ sess[t].out.stopped
    BY DEF BootInv, StopIsOnRecord
  <2> QED
    BY <1>1, <2>1
<1> QED
  BY <1>3, <1>4, <1>5, <1>6, <1>7, SameProcesses DEF BootInv

LEMMA Hooking ==
  ASSUME BootInv, NEW s \in Sessions, sess[s].pc # "idle"
  PROVE  /\ sess[s] \in SessType /\ sess[s].host \in Hosts /\ HookSound(s) /\ ManagedPid(sess[s].host) \in Pids \cup {0}
         /\ file[sess[s].host] \in RecordType /\ RecordSound(sess[s].host, file[sess[s].host])
BY HookBasics DEF BootInv, BootTypeOK, HookSound, ManagedPid, RecordType

\* A hook goes on, changing nothing of what it knows but its place.
LEMMA GotoTyped ==
  ASSUME BootInv, NEW s \in Sessions, NEW p \in Steps, Goto(s, p)
  PROVE  /\ sess' \in [Sessions -> SessType] /\ \A t \in Sessions : t # s => sess'[t] = sess[t]
         /\ sess'[s] = [sess[s] EXCEPT !.pc = p]
<1>1. sess[s] \in SessType /\ sess \in [Sessions -> SessType]
  BY DEF BootInv, BootTypeOK
<1> DEFINE x == [sess[s] EXCEPT !.pc = p]
<1>2. x \in SessType
  BY <1>1 DEF SessType
<1>3. sess' = [sess EXCEPT ![s] = x]
  BY DEF Goto
<1> HIDE DEF x
<1> QED
  BY <1>1, <1>2, <1>3 DEF x

\* Whoever answers or listens has come up, and is alone in that.
LEMMA AnswersAreListening ==
  ASSUME BootInv, NEW u, NEW n \in Health(u), n # 0
  PROVE  /\ n \in Starts /\ Listening(n) /\ proc[n].st \in {"up", "ending", "dead"} /\ proc[n].url = u
         /\ \A m \in Starts : Listening(m) => m = n
BY DEF Health, At, Listening, BootInv, ProcInv

LEMMA ListenersPid ==
  ASSUME BootInv, NEW u, NEW p \in ListenerPid(u)
  PROVE  /\ p \in Pids \cup {0}
         /\ p # 0 => \A m \in Starts : Listening(m) => proc[m].pid = p
BY DEF ListenerPid, At, Listening, Live, BootInv, ProcInv

\* A good process of the host of a hook past the lock listens, if it is not
\* the one that the hook starts.
LEMMA GoodListens ==
  ASSUME BootInv, NEW s \in Sessions, sess[s].pc \notin {"idle", "lock"}, NEW n \in Starts,
         Good(sess[s].host, n), ~(Mine(s) /\ sess[s].mine = n)
  PROVE  Listening(n)
<1>1. sess[s].host \in Hosts
  BY Hooking
<1>2. SUFFICES ASSUME NEW t \in Sessions, Mine(t), sess[t].mine = n, sess[t].host = sess[s].host PROVE FALSE
  BY <1>1 DEF BootInv, GoodInv
<1> QED
  BY <1>2, OneHook DEF BootInv, Mine

\* Places at which a hook knows nothing that could be wrong.
LEMMA LooksOn ==
  ASSUME BootInv, NEW s \in Sessions, UNCHANGED <<proc, file, lock, Rest>>,
         NEW p \in {"check", "resolve", "live", "vacant"}, Goto(s, p),
         sess[s].pc \notin {"idle", "lock", "write", "verify", "ensure", "truncate"},
         p = "live" => sess[s].ours = ManagedPid(sess[s].host),
         sess[s].pc = "decide" /\ wish[sess[s].host] = "stop" => excused[sess[s].host]
  PROVE  BootInv'
<1> DEFINE h == sess[s].host
<1>1. /\ sess' \in [Sessions -> SessType] /\ \A t \in Sessions : t # s => sess'[t] = sess[t]
      /\ sess'[s] = [sess[s] EXCEPT !.pc = p] /\ sess[s] \in SessType /\ h \in Hosts /\ HookSound(s)
  <2>1. p \in Steps
    BY DEF Steps
  <2> QED
    BY <2>1, GotoTyped, Hooking
<1>2. sess'[s].pc = p /\ sess'[s].host = h /\ sess'[s].v = sess[s].v /\ sess'[s].ours = sess[s].ours /\ sess'[s].seen = sess[s].seen
  BY <1>1 DEF SessType
<1>3. wish[h] = "stop" => excused[h]
  BY <1>1 DEF HookSound
<1>4. ManagedPid(h)' = ManagedPid(h)
  BY <1>2 DEF ManagedPid
<1>5. HookSound(s)'
  BY <1>1, <1>2, <1>3, <1>4 DEF HookSound, Retires, Replaces, Mine, Rest, UserVars
<1> QED
  BY <1>1, <1>2, <1>5, LookGoes DEF Mine

\* A hook writes the record that it has made.
LEMMA LooksAndWrites ==
  ASSUME BootInv, NEW s \in Sessions, UNCHANGED <<proc, file, lock, Rest>>,
         NEW r \in RecordType, WriteNext(s, r), RecordSound(sess[s].host, r),
         sess[s].pc \notin {"idle", "lock", "write", "verify", "ensure"},
         wish[sess[s].host] = "stop" => excused[sess[s].host] \/ r.stopped
  PROVE  BootInv'
<1> DEFINE h == sess[s].host
<1>1. /\ sess[s] \in SessType /\ h \in Hosts /\ sess' \in [Sessions -> SessType]
      /\ \A t \in Sessions : t # s => sess'[t] = sess[t]
      /\ sess'[s].pc = "truncate" /\ sess'[s].host = h /\ sess'[s].v = sess[s].v /\ sess'[s].out = r
  <2>1. sess[s] \in SessType /\ h \in Hosts /\ sess \in [Sessions -> SessType]
    BY Hooking DEF BootInv, BootTypeOK
  <2> DEFINE x == [sess[s] EXCEPT !.pc = "truncate", !.out = r]
  <2>2. x \in SessType /\ x.pc = "truncate" /\ x.host = h /\ x.v = sess[s].v /\ x.out = r
    BY <2>1 DEF SessType, Steps
  <2>3. sess' = [sess EXCEPT ![s] = x]
    BY <2>1 DEF WriteNext
  <2> HIDE DEF x
  <2> QED
    BY <2>1, <2>2, <2>3
<1>2. RecordSound(h, r)'
  <2>1. \A g : RecordSound(g, r) => RecordSound(g, r)'
    BY SameProcesses, RecordStays DEF Rest
  <2> QED
    BY <1>1, <2>1
<1>3. HookSound(s)'
  BY <1>1, <1>2, Hooking DEF HookSound, Retires, Replaces, Mine, Rest, UserVars
<1> QED
  BY <1>1, <1>3, LookGoes DEF Mine

\* A stop that is not on record is excused, for a hook past the lock that does
\* not write.
LEMMA StopExcused ==
  ASSUME BootInv, NEW s \in Sessions, sess[s].pc \notin {"idle", "lock", "write"},
         wish[sess[s].host] = "stop", ~file[sess[s].host].stopped
  PROVE  excused[sess[s].host]
<1>1. sess[s].host \in Hosts
  BY Hooking
<1>2. \A t \in Sessions : sess[t].pc = "write" /\ sess[t].host = sess[s].host => t = s
  BY OneHook DEF BootInv
<1> QED
  BY <1>1, <1>2 DEF BootInv, StopIsOnRecord

LEMMA DecideKept == ASSUME BootInv, NEW s \in Sessions, Decide(s) PROVE BootInv'
<1> DEFINE h == sess[s].host
           v == sess[s].v
<1>1. /\ sess[s].pc = "decide" /\ UNCHANGED <<proc, file, Rest>>
      /\ sess[s] \in SessType /\ h \in Hosts /\ file[h] \in RecordType /\ RecordSound(h, file[h])
  BY Hooking DEF Decide, At_
<1>2. CASE file[h].stopped /\ Return(s)
  BY <1>1, <1>2, LookReturns
<1>3. CASE file[h].stopped /\ WriteNext(s, StoppedState(file[h], v)) /\ UNCHANGED lock
  <2> DEFINE r == StoppedState(file[h], v)
  <2>1. r \in RecordType /\ r.stopped
    BY <1>1 DEF StoppedState, RecordType, SessType
  <2>2. RecordSound(h, r)
    BY <1>1, <1>3 DEF StoppedState, RecordType, RecordSound
  <2> HIDE DEF r
  <2> QED
    BY <1>1, <1>3, <2>1, <2>2, LooksAndWrites DEF r
<1>4. CASE ~file[h].stopped /\ UNCHANGED lock /\ \E mode \in {"disabled", "custom"} : WriteNext(s, PolicyState(v, mode))
  <2>1. PICK mode \in {"disabled", "custom"} : WriteNext(s, PolicyState(v, mode))
    BY <1>4
  <2>2. PolicyState(v, mode) \in RecordType /\ RecordSound(h, PolicyState(v, mode))
    BY <1>1, HookBasics DEF PolicyState, Record, RecordType, SessType, RecordSound
  <2> QED
    BY <1>1, <1>4, <2>1, <2>2, LooksAndWrites, StopExcused
<1>5. CASE ~file[h].stopped /\ UNCHANGED lock /\ \E p \in {"check", "resolve"} : Goto(s, p)
  BY <1>1, <1>5, LooksOn, StopExcused
<1> QED
  BY <1>1, <1>2, <1>3, <1>4, <1>5 DEF Decide

LEMMA ChecksKept ==
  ASSUME BootInv, NEW s \in Sessions, Check(s) \/ CheckPid(s) \/ Resolve(s) \/ Vacant(s) PROVE BootInv'
<1> DEFINE h == sess[s].host
<1>1. /\ sess[s].pc \in {"check", "checkpid", "resolve", "vacant"} /\ UNCHANGED <<proc, file, Rest>>
      /\ sess[s] \in SessType /\ h \in Hosts /\ HookSound(s) /\ sess \in [Sessions -> SessType]
      /\ ManagedPid(h) \in Pids \cup {0}
  BY Hooking DEF Check, CheckPid, Resolve, Vacant, At_, BootInv, BootTypeOK
<1>2. CASE Return(s)
  BY <1>1, <1>2, LookReturns
<1>3. CASE Goto(s, "resolve") /\ UNCHANGED lock
  BY <1>1, <1>3, LooksOn
<1>4. CASE Check(s) /\ ~Return(s) /\ ~Goto(s, "resolve")
  <2>1. PICK n \in Starts : sess' = [sess EXCEPT ![s].pc = "checkpid", ![s].seen = n] /\ UNCHANGED lock
    BY <1>4, AnswersAreListening DEF Check
  <2> DEFINE x == [sess[s] EXCEPT !.pc = "checkpid", !.seen = n]
  <2>2. x \in SessType /\ x.pc = "checkpid" /\ x.host = h /\ x.v = sess[s].v
    BY <1>1 DEF SessType, Steps
  <2>3. sess' = [sess EXCEPT ![s] = x]
    BY <1>1, <2>1
  <2> HIDE DEF x
  <2>4. sess'[s] = x /\ sess' \in [Sessions -> SessType] /\ \A t \in Sessions : t # s => sess'[t] = sess[t]
    BY <1>1, <2>2, <2>3
  <2>5. HookSound(s)'
    BY <1>1, <1>4, <2>2, <2>4 DEF HookSound, Retires, Replaces, Mine, Rest, UserVars, Check, At_
  <2> QED
    BY <1>1, <1>4, <2>1, <2>2, <2>4, <2>5, LookGoes DEF Mine
<1>5. CASE Resolve(s) /\ ~Return(s)
  <2> DEFINE x == [sess[s] EXCEPT !.pc = "prior", !.ours = ManagedPid(h)]
  <2>2. x \in SessType /\ x.pc = "prior" /\ x.host = h /\ x.v = sess[s].v /\ x.ours = ManagedPid(h)
    BY <1>1 DEF SessType, Steps
  <2>3. sess' = [sess EXCEPT ![s] = x] /\ UNCHANGED lock
    BY <1>1, <1>5 DEF Resolve
  <2> HIDE DEF x
  <2>4. sess'[s] = x /\ sess' \in [Sessions -> SessType] /\ \A t \in Sessions : t # s => sess'[t] = sess[t]
    BY <1>1, <2>2, <2>3
  <2>5. ManagedPid(h)' = ManagedPid(h)
    BY <1>1, <2>2, <2>4 DEF ManagedPid
  <2>6. HookSound(s)'
    BY <1>1, <1>5, <2>2, <2>4, <2>5 DEF HookSound, Retires, Replaces, Mine, Rest, UserVars, Resolve, At_
  <2> QED
    BY <1>1, <1>5, <2>2, <2>3, <2>4, <2>6, LookGoes DEF Mine
<1>6. CASE Vacant(s) /\ ~Return(s)
  <2>1. At(UrlOf(sess[s].v)) = {} /\ Goto(s, "spawn") /\ UNCHANGED lock /\ sess[s].pc = "vacant"
    BY <1>6 DEF Vacant, At_
  <2>2. /\ sess' \in [Sessions -> SessType] /\ \A t \in Sessions : t # s => sess'[t] = sess[t]
        /\ sess'[s] = [sess[s] EXCEPT !.pc = "spawn"]
    BY <2>1, GotoTyped DEF Steps
  <2>3. sess'[s].pc = "spawn" /\ sess'[s].host = h /\ sess'[s].v = sess[s].v
    BY <1>1, <2>2 DEF SessType
  <2>4. Rivals(s) = {}
    BY <2>1, GoodListens DEF Rivals, At, Mine
  <2>5. Rivals(s)' = {}
    BY <1>1, <2>3, <2>4, SameProcesses DEF Rivals, Rest
  <2>6. HookSound(s)'
    BY <1>1, <2>1, <2>3, <2>5 DEF HookSound, Retires, Replaces, Mine, Rest, UserVars
  <2> QED
    BY <1>1, <2>1, <2>2, <2>3, <2>6, LookGoes DEF Mine
<1> QED
  BY <1>2, <1>3, <1>4, <1>5, <1>6 DEF Check, CheckPid

LEMMA PriorKept == ASSUME BootInv, NEW s \in Sessions, Prior(s) PROVE BootInv'
<1> DEFINE h == sess[s].host
<1>1. /\ sess[s].pc = "prior" /\ UNCHANGED <<proc, file, lock, Rest>>
      /\ sess[s] \in SessType /\ h \in Hosts /\ HookSound(s) /\ sess \in [Sessions -> SessType]
  BY Hooking DEF Prior, At_, BootInv, BootTypeOK
<1>2. sess[s].ours = ManagedPid(h) /\ (wish[h] = "stop" => excused[h])
  BY <1>1 DEF HookSound
<1>3. CASE Goto(s, "live")
  BY <1>1, <1>2, <1>3, LooksOn
<1>4. CASE ~Goto(s, "live")
  <2>1. PICK n \in Health(file[h].url) :
          sess' = [sess EXCEPT ![s].prior = n, ![s].seen = n, ![s].pc = IF n = 0 THEN "live" ELSE "priorpid"]
    BY <1>4 DEF Prior
  <2>2. n \in Starts \cup {0} /\ (n # 0 => proc[n].st \in {"up", "ending", "dead"})
    BY AnswersAreListening
  <2> DEFINE p == IF n = 0 THEN "live" ELSE "priorpid"
             x == [sess[s] EXCEPT !.prior = n, !.seen = n, !.pc = p]
  <2>3. x \in SessType /\ x.pc = p /\ x.host = h /\ x.v = sess[s].v /\ x.seen = n /\ x.prior = n /\ x.ours = sess[s].ours
    BY <1>1, <2>2 DEF SessType, Steps
  <2>4. sess' = [sess EXCEPT ![s] = x]
    BY <1>1, <2>1
  <2> HIDE DEF x
  <2>5. sess'[s] = x /\ sess' \in [Sessions -> SessType] /\ \A t \in Sessions : t # s => sess'[t] = sess[t]
    BY <1>1, <2>3, <2>4
  <2>6. ManagedPid(h)' = ManagedPid(h)
    BY <1>1, <2>3, <2>5 DEF ManagedPid
  <2>7. n # 0 => SeenSound(s)'
    BY <1>1, <2>2, <2>3, <2>5 DEF SeenSound
  <2>8. HookSound(s)'
    BY <1>1, <1>2, <2>3, <2>5, <2>6, <2>7 DEF HookSound, Retires, Replaces, Mine, Rest, UserVars
  <2> QED
    BY <1>1, <2>3, <2>5, <2>8, LookGoes DEF Mine
<1> QED
  BY <1>3, <1>4

\* What ProvesManaged says of a process that was seen at the endpoint.
LEMMA ProofHolds ==
  ASSUME BootInv, NEW h \in Hosts, NEW u, NEW p \in ListenerPid(u), NEW n \in Starts,
         proc[n].st \in {"up", "ending", "dead"}, NEW v, ProvesManaged(h, p, n, v)
  PROVE  /\ file[h].mode = "managed" /\ file[h].start = n /\ proc[n].owner = h /\ (v # 0 => proc[n].version = v)
         /\ Live(n) /\ p # 0 => p = proc[n].pid
         /\ p \in Pids \cup {0}
<1>1. file[h].start # 0 /\ RecordSound(h, file[h])
  BY HookBasics DEF BootInv, ProvesManaged, RecordSound
<1>2. Live(n) => Listening(n)
  BY DEF Live, Listening
<1> QED
  BY <1>1, <1>2, ListenersPid DEF ProvesManaged, ReportsManaged

LEMMA PriorPidKept == ASSUME BootInv, NEW s \in Sessions, PriorPid(s) PROVE BootInv'
<1> DEFINE h == sess[s].host
           n == sess[s].seen
<1>1. /\ sess[s].pc = "priorpid" /\ UNCHANGED <<proc, file, lock, Rest>>
      /\ sess[s] \in SessType /\ h \in Hosts /\ HookSound(s) /\ sess \in [Sessions -> SessType]
  BY Hooking DEF PriorPid, At_, BootInv, BootTypeOK
<1>2. sess[s].ours = ManagedPid(h) /\ (wish[h] = "stop" => excused[h]) /\ sess[s].prior = n /\ SeenSound(s)
  BY <1>1 DEF HookSound
<1>3. CASE Goto(s, "live")
  BY <1>1, <1>2, <1>3, LooksOn
<1>4. CASE ~Goto(s, "live")
  <2>1. PICK p \in ListenerPid(file[h].url) :
          /\ ProvesManaged(h, p, n, 0)
          /\ sess' = [sess EXCEPT ![s].pc = "retire", ![s].pid = p, ![s].retired = TRUE]
    BY <1>2, <1>4 DEF PriorPid
  <2>2. /\ file[h].mode = "managed" /\ file[h].start = n /\ proc[n].owner = h
        /\ Live(n) /\ p # 0 => p = proc[n].pid
        /\ p \in Pids \cup {0}
    BY <1>1, <1>2, <2>1, ProofHolds DEF SeenSound
  <2> DEFINE x == [sess[s] EXCEPT !.pc = "retire", !.pid = p, !.retired = TRUE]
  <2>3. x \in SessType /\ x.pc = "retire" /\ x.host = h /\ x.v = sess[s].v /\ x.seen = n /\ x.pid = p /\ x.ours = sess[s].ours
    BY <1>1, <2>2 DEF SessType, Steps
  <2>4. sess' = [sess EXCEPT ![s] = x]
    BY <1>1, <2>1
  <2> HIDE DEF x
  <2>5. sess'[s] = x /\ sess' \in [Sessions -> SessType] /\ \A t \in Sessions : t # s => sess'[t] = sess[t]
    BY <1>1, <2>3, <2>4
  <2>6. ManagedPid(h)' = ManagedPid(h) /\ SeenSound(s)' /\ OwnsSeen(s)'
    BY <1>1, <1>2, <2>2, <2>3, <2>5 DEF ManagedPid, SeenSound, OwnsSeen, Live
  <2>7. HookSound(s)'
    BY <1>1, <1>2, <2>3, <2>5, <2>6 DEF HookSound, Retires, Replaces, Mine, Rest, UserVars
  <2> QED
    BY <1>1, <2>3, <2>5, <2>7, LookGoes DEF Mine
<1> QED
  BY <1>3, <1>4

LEMMA WaitsKept == ASSUME BootInv, NEW s \in Sessions, RetireWait(s) \/ ReplaceWait(s) PROVE BootInv'
<1> DEFINE h == sess[s].host
<1>1. /\ sess[s].pc \in {"retirewait", "replacewait"} /\ UNCHANGED <<proc, file, lock, Rest>>
      /\ sess[s] \in SessType /\ h \in Hosts /\ HookSound(s) /\ sess \in [Sessions -> SessType]
  BY Hooking DEF RetireWait, ReplaceWait, AwaitExit, At_, BootInv, BootTypeOK
<1>2. /\ sess[s].ours = ManagedPid(h) /\ (wish[h] = "stop" => excused[h]) /\ SeenSound(s) /\ OwnsSeen(s)
      /\ sess[s].pc = "replacewait" => Rivals(s) = {}
  BY <1>1 DEF HookSound, Retires, Replaces
<1>3. CASE Goto(s, "live")
  BY <1>1, <1>2, <1>3, LooksOn
<1>4. ASSUME NEW p \in {"retirekill", "spawn", "replacekill"}, Goto(s, p),
             sess[s].pc = IF p = "retirekill" THEN "retirewait" ELSE "replacewait"
      PROVE  BootInv'
  <2>1. /\ sess' \in [Sessions -> SessType] /\ \A t \in Sessions : t # s => sess'[t] = sess[t]
        /\ sess'[s] = [sess[s] EXCEPT !.pc = p]
    BY <1>4, GotoTyped DEF Steps
  <2>2. /\ sess'[s].pc = p /\ sess'[s].host = h /\ sess'[s].v = sess[s].v /\ sess'[s].seen = sess[s].seen
        /\ sess'[s].ours = sess[s].ours /\ sess'[s].pid = sess[s].pid
    BY <1>1, <2>1 DEF SessType
  <2>3. ManagedPid(h)' = ManagedPid(h) /\ SeenSound(s)' /\ OwnsSeen(s)' /\ Rivals(s)' = Rivals(s)
    <3>1. Rivals(s)' = Rivals(s)
      BY <1>1, <2>2, SameProcesses DEF Rivals, Rest
    <3> QED
      BY <1>1, <1>2, <2>2, <3>1 DEF ManagedPid, SeenSound, OwnsSeen, Live
  <2>4. HookSound(s)'
    BY <1>1, <1>2, <1>4, <2>2, <2>3 DEF HookSound, Retires, Replaces, Mine, Rest, UserVars
  <2> QED
    BY <1>1, <1>4, <2>1, <2>2, <2>4, LookGoes DEF Mine
<1> QED
  BY <1>3, <1>4 DEF RetireWait, ReplaceWait, AwaitExit, At_

LEMMA LiveHealthKept == ASSUME BootInv, NEW s \in Sessions, LiveHealth(s) PROVE BootInv'
<1> DEFINE h == sess[s].host
           v == sess[s].v
<1>1. /\ sess[s].pc = "live" /\ UNCHANGED <<proc, file, lock, Rest>>
      /\ sess[s] \in SessType /\ h \in Hosts /\ HookSound(s) /\ sess \in [Sessions -> SessType]
  BY Hooking DEF LiveHealth, At_, BootInv, BootTypeOK
<1>2. sess[s].ours = ManagedPid(h) /\ (wish[h] = "stop" => excused[h])
  BY <1>1 DEF HookSound
<1>3. PICK n \in Health(UrlOf(v)) :
        sess' = [sess EXCEPT ![s].seen = n, ![s].pid = 0, ![s].pc = IF n = 0 THEN "vacant" ELSE "livepid"]
  BY DEF LiveHealth
<1>4. n \in Starts \cup {0} /\ (n # 0 => proc[n].st \in {"up", "ending", "dead"})
  BY AnswersAreListening
<1> DEFINE p == IF n = 0 THEN "vacant" ELSE "livepid"
           x == [sess[s] EXCEPT !.seen = n, !.pid = 0, !.pc = p]
<1>5. x \in SessType /\ x.pc = p /\ x.host = h /\ x.v = sess[s].v /\ x.seen = n /\ x.ours = sess[s].ours
  BY <1>1, <1>4 DEF SessType, Steps
<1>6. sess' = [sess EXCEPT ![s] = x]
  BY <1>1, <1>3
<1> HIDE DEF x
<1>7. sess'[s] = x /\ sess' \in [Sessions -> SessType] /\ \A t \in Sessions : t # s => sess'[t] = sess[t]
  BY <1>1, <1>5, <1>6
<1>8. n # 0 => Rivals(s) \subseteq {n}
  BY <1>1, GoodListens, AnswersAreListening DEF Rivals, Mine
<1>9. n # 0 => Rivals(s)' \subseteq {n} /\ SeenSound(s)'
  <2>1. Rivals(s)' = Rivals(s)
    BY <1>1, <1>5, <1>7, SameProcesses DEF Rivals, Rest
  <2> QED
    BY <1>1, <1>4, <1>5, <1>7, <1>8, <2>1 DEF SeenSound
<1>10. ManagedPid(h)' = ManagedPid(h)
  BY <1>1, <1>5, <1>7 DEF ManagedPid
<1>11. HookSound(s)'
  BY <1>1, <1>2, <1>5, <1>7, <1>9, <1>10 DEF HookSound, Retires, Replaces, Mine, Rest, UserVars
<1> QED
  BY <1>1, <1>5, <1>7, <1>11, LookGoes DEF Mine

LEMMA LivePidKept == ASSUME BootInv, NEW s \in Sessions, LivePid(s) PROVE BootInv'
<1> DEFINE h == sess[s].host
           v == sess[s].v
           n == sess[s].seen
<1>1. /\ sess[s].pc = "livepid" /\ UNCHANGED <<proc, file, lock, Rest>>
      /\ sess[s] \in SessType /\ h \in Hosts /\ HookSound(s) /\ sess \in [Sessions -> SessType]
  BY Hooking DEF LivePid, At_, BootInv, BootTypeOK
<1>2. /\ sess[s].ours = ManagedPid(h) /\ (wish[h] = "stop" => excused[h])
      /\ Rivals(s) \subseteq {n} /\ n \in Starts /\ proc[n].st \in {"up", "ending", "dead"}
  BY <1>1 DEF HookSound, SeenSound
<1>3. PICK p \in ListenerPid(UrlOf(v)) :
        IF sess[s].ours # 0 /\ ProvesManaged(h, p, n, 0) /\ proc[n].version # v
        THEN sess' = [sess EXCEPT ![s].pc = "replace", ![s].pid = p]
        ELSE WriteNext(s, StateFields(h, v, 0, p, p, n))
  BY DEF LivePid
<1>4. CASE ProvesManaged(h, p, n, 0) /\ sess' = [sess EXCEPT ![s].pc = "replace", ![s].pid = p]
  <2>2. /\ file[h].mode = "managed" /\ file[h].start = n /\ proc[n].owner = h
        /\ Live(n) /\ p # 0 => p = proc[n].pid
        /\ p \in Pids \cup {0}
    BY <1>1, <1>2, <1>4, ProofHolds
  <2> DEFINE x == [sess[s] EXCEPT !.pc = "replace", !.pid = p]
  <2>3. x \in SessType /\ x.pc = "replace" /\ x.host = h /\ x.v = sess[s].v /\ x.seen = n /\ x.pid = p /\ x.ours = sess[s].ours
    BY <1>1, <2>2 DEF SessType, Steps
  <2>4. sess' = [sess EXCEPT ![s] = x]
    BY <1>1, <1>4
  <2> HIDE DEF x
  <2>5. sess'[s] = x /\ sess' \in [Sessions -> SessType] /\ \A t \in Sessions : t # s => sess'[t] = sess[t]
    BY <1>1, <2>3, <2>4
  <2>6. Rivals(s)' = Rivals(s)
    BY <1>1, <2>3, <2>5, SameProcesses DEF Rivals, Rest
  <2>7. ManagedPid(h)' = ManagedPid(h) /\ SeenSound(s)' /\ OwnsSeen(s)'
    BY <1>1, <1>2, <2>2, <2>3, <2>5 DEF ManagedPid, SeenSound, OwnsSeen, Live
  <2>8. HookSound(s)'
    BY <1>1, <1>2, <2>3, <2>5, <2>6, <2>7 DEF HookSound, Retires, Replaces, Mine, Rest, UserVars
  <2> QED
    BY <1>1, <2>3, <2>5, <2>8, LookGoes DEF Mine
<1>5. CASE WriteNext(s, StateFields(h, v, 0, p, p, n))
  <2> DEFINE r == StateFields(h, v, 0, p, p, n)
  <2>1. p \in Pids \cup {0}
    BY ListenersPid
  <2>2. r \in RecordType
    BY <1>1, <1>2, <2>1, HookBasics DEF StateFields, Record, RecordType, SessType
  <2>3. RecordSound(h, r)
    <3>1. r.mode = "managed" => ProvesManaged(h, p, n, v) /\ r.start = n /\ ~r.stopped /\ r.version = v /\ r.pid = p
      BY DEF StateFields, Record
    <3>2. Known(n)
      BY <1>2 DEF Known
    <3>3. ProvesManaged(h, p, n, v) =>
            proc[n].owner = h /\ proc[n].version = v /\ (Live(n) /\ p # 0 => p = proc[n].pid)
      <4>1. ProvesManaged(h, p, n, v) => v = 0 \/ proc[n].version = v
        BY DEF ProvesManaged
      <4> QED
        BY <1>1, <1>2, <4>1, ProofHolds DEF HookSound
    <3> QED
      BY <1>2, <3>1, <3>2, <3>3 DEF RecordSound
  <2> HIDE DEF r
  <2> QED
    BY <1>1, <1>2, <1>5, <2>2, <2>3, LooksAndWrites DEF r
<1> QED
  BY <1>3, <1>4, <1>5

\* The pid that a hook signals is that of the process it has seen, if that one
\* still runs and the record is not mixed.
LEMMA TargetIsSeen ==
  ASSUME BootInv, NEW s \in Sessions, Retires(s) \/ Replaces(s), Target(s) # 0, Live(sess[s].seen),
         ~Mixed(sess[s].host)
  PROVE  proc[sess[s].seen].pid = Target(s)
<1> DEFINE h == sess[s].host
<1>1. sess[s].pc # "idle"
  BY DEF Retires, Replaces
<1>2. SeenSound(s) /\ OwnsSeen(s) /\ sess[s].ours = ManagedPid(h)
  BY <1>1, Hooking DEF HookSound
<1> QED
  BY <1>2, HookBasics DEF SeenSound, OwnsSeen, ManagedPid, Mixed, Target

LEMMA GoodIsNotMixed ==
  ASSUME BootInv, NEW s \in Sessions, Retires(s) \/ Replaces(s), Good(sess[s].host, sess[s].seen)
  PROVE  ~Mixed(sess[s].host)
<1> DEFINE h == sess[s].host
<1>1. sess[s].pc # "idle"
  BY DEF Retires, Replaces
<1>2. SeenSound(s) /\ OwnsSeen(s) /\ RecordSound(h, file[h])
  BY <1>1, Hooking DEF HookSound
<1> QED
  BY <1>2 DEF OwnsSeen, RecordSound, Good, Mixed

\* A signal reaches a process that the host owns, or is excused.
LEMMA SignalKept ==
  ASSUME BootInv, NEW s \in Sessions, Retires(s) \/ Replaces(s), NEW n \in Starts, Live(n), proc[n].pid = Target(s),
         Target(s) # 0, NEW z \in {"ending", "dead"}, z = "ending" => proc[n].st # "starting",
         proc' = [proc EXCEPT ![n].st = z], Signalled(s, n), UNCHANGED <<lock, file, begun, excused, orphaned, UserVars>>,
         NEW p \in {"retirewait", "live", "replacewait", "spawn"}, Goto(s, p), Retires(s) <=> p \in {"retirewait", "live"}
  PROVE  BootInv'
<1> USE DEF UserVars
<1> DEFINE h == sess[s].host
           e == sess[s].seen
           hit == [target |-> n, host |-> h, excuse |-> ~Live(e) \/ Mixed(h)]
<1>1. /\ sess[s].pc \notin {"idle", "lock", "write", "verify", "ensure", "truncate", "decide"}
      /\ sess[s] \in SessType /\ h \in Hosts /\ HookSound(s) /\ sess[s].ours = ManagedPid(h)
      /\ SeenSound(s) /\ OwnsSeen(s) /\ (wish[h] = "stop" => excused[h])
  <2>1. sess[s].pc \notin {"idle", "lock", "write", "verify", "ensure", "truncate", "decide"}
    BY DEF Retires, Replaces
  <2> QED
    BY <2>1, Hooking DEF HookSound
<1>2. /\ sess' \in [Sessions -> SessType] /\ \A t \in Sessions : t # s => sess'[t] = sess[t]
      /\ sess'[s] = [sess[s] EXCEPT !.pc = p]
  BY GotoTyped DEF Steps
<1>3. /\ sess'[s].pc = p /\ sess'[s].host = h /\ sess'[s].v = sess[s].v /\ sess'[s].seen = e
      /\ sess'[s].ours = sess[s].ours /\ sess'[s].pid = sess[s].pid
  BY <1>1, <1>2 DEF SessType
<1>4. /\ proc' \in [Starts -> ProcType] /\ \A m \in Starts : m # n => proc'[m] = proc[m]
      /\ proc'[n].st = z /\ proc'[n].owner = proc[n].owner /\ proc'[n].version = proc[n].version
      /\ proc'[n].url = proc[n].url /\ proc'[n].pid = proc[n].pid /\ proc[n].st \in {"starting", "up", "ending"}
  BY DEF BootInv, BootTypeOK, ProcType, Live
<1>5. hits' = hits \cup {hit}
  BY DEF Signalled
<1>6. Evolves
  BY <1>4, <1>5 DEF Evolves, Live, Known
<1>7. \A m \in Starts : (Known(m)' <=> Known(m)) /\ (Live(m)' => Live(m)) /\ (Listening(m)' => Listening(m))
  BY <1>4 DEF Known, Live, Listening
<1>8. proc[n].owner = h \/ hit.excuse
  <2>1. Live(e) /\ ~Mixed(h) => proc[e].pid = Target(s) /\ e \in Starts
    BY <1>1, TargetIsSeen DEF SeenSound
  <2>2. Live(e) /\ ~Mixed(h) => n = e
    BY <2>1 DEF BootInv, ProcInv
  <2> QED
    BY <1>1, <2>2 DEF OwnsSeen
<1>9. ProcInv'
  <2>1. Known(n)
    BY <1>4 DEF Known
  <2>2. \A x \in hits' : Known(x.target)' /\ (proc'[x.target].owner = x.host \/ x.excuse)
    <3>1. ASSUME NEW x \in hits PROVE Known(x.target)' /\ (proc'[x.target].owner = x.host \/ x.excuse)
      <4>1. x.target \in Starts /\ Known(x.target) /\ (proc[x.target].owner = x.host \/ x.excuse)
        BY DEF BootInv, BootTypeOK, ProcInv
      <4> QED
        BY <1>6, <4>1 DEF Evolves
    <3>2. hit.target = n /\ hit.host = h
      OBVIOUS
    <3>3. Known(n)' /\ (proc'[n].owner = h \/ hit.excuse)
      BY <1>4, <1>7, <1>8, <2>1
    <3>4. \A x \in hits' : x \in hits \/ x = hit
      BY <1>5
    <3> HIDE DEF hit
    <3> QED
      BY <3>1, <3>2, <3>3, <3>4
  <2>3. \A m \in Starts : proc'[m].pid = proc[m].pid
    BY <1>4
  <2> QED
    BY <1>7, <2>2, <2>3 DEF BootInv, ProcInv
<1>10. \A m \in Starts : \A g : Good(g, m)' => Good(g, m) /\ Known(m) /\ m # n
  <2>1. Told(n)'
    <3>1. hit.target = n
      OBVIOUS
    <3> HIDE DEF hit
    <3> QED
      BY <1>5, <3>1 DEF Told
  <2>2. \A m \in Starts : Live(m)' => Known(m)
    BY <1>7 DEF Live, Known
  <2> QED
    BY <1>6, <2>1, <2>2, GoodBefore DEF Good
<1>11. BootTypeOK'
  <2>1. hits' \subseteq [target: Starts, host: Hosts, excuse: BOOLEAN]
    <3>1. hit \in [target: Starts, host: Hosts, excuse: BOOLEAN]
      BY <1>1 DEF Mixed, Live
    <3> HIDE DEF hit
    <3> QED
      BY <1>5, <3>1 DEF BootInv, BootTypeOK
  <2>2. ASSUME NEW t \in Sessions, sess'[t].pc \notin {"idle", "lock"} PROVE lock[sess'[t].host] = t
    <3>1. lock[h] = s
      BY <1>1 DEF BootInv, BootTypeOK
    <3> QED
      BY <1>2, <1>3, <2>2, <3>1 DEF BootInv, BootTypeOK
  <2> QED
    BY <1>2, <1>4, <2>1, <2>2 DEF BootInv, BootTypeOK
<1>12. \A g \in Hosts : RecordSound(g, file[g])'
  BY <1>6, RecordStays DEF BootInv
<1>13. GoodInv'
  <2> SUFFICES ASSUME NEW m \in Starts, NEW g \in Hosts, Good(g, m)'
               PROVE  Listening(m)' \/ \E t \in Sessions : Mine(t)' /\ sess'[t].mine = m /\ sess'[t].host = g
    BY DEF GoodInv
  <2>1. Listening(m) \/ \E t \in Sessions : Mine(t) /\ sess[t].mine = m /\ sess[t].host = g
    BY <1>10 DEF BootInv, GoodInv
  <2>2. Listening(m) => Listening(m)'
    BY <1>4, <1>10 DEF Listening
  <2> QED
    BY <1>1, <1>2, <2>1, <2>2 DEF Mine
<1>14. ASSUME NEW t \in Sessions, t # s PROVE HookSound(t)'
  <2>1. BootTypeOK /\ HookSound(t) /\ sess'[t] = sess[t] /\ Evolves /\ \A m \in Starts : \A g : Good(g, m)' => Known(m)
    BY <1>2, <1>6, <1>10, <1>14 DEF BootInv
  <2> QED
    BY <2>1, HookStays
<1>15. HookSound(s)'
  <2>1. ManagedPid(h)' = ManagedPid(h) /\ SeenSound(s)' /\ OwnsSeen(s)'
    BY <1>1, <1>3, <1>4, <1>7 DEF ManagedPid, SeenSound, OwnsSeen
  <2>2. p \in {"replacewait", "spawn"} => Rivals(s)' = {}
    <3> SUFFICES ASSUME Replaces(s), NEW m \in Rivals(s)' PROVE FALSE
      BY DEF Retires, Replaces
    <3>1. m \in Starts /\ Good(h, m)' /\ proc'[m].url = UrlOf(sess[s].v)
      BY <1>3 DEF Rivals
    <3>2. Good(h, m) /\ m # n /\ m \in Rivals(s)
      <4>1. Good(h, m) /\ m # n
        BY <1>3, <1>10, <3>1
      <4> QED
        BY <1>4, <3>1, <4>1 DEF Rivals
    <3>3. m = e
      BY <1>1, <3>2 DEF HookSound, Replaces
    <3>4. ~Mixed(h) /\ Live(e)
      BY <3>2, <3>3, GoodIsNotMixed DEF Good
    <3>5. proc[e].pid = Target(s)
      BY <3>4, TargetIsSeen
    <3> QED
      BY <3>1, <3>2, <3>3, <3>4, <3>5 DEF BootInv, ProcInv
  <2> QED
    BY <1>1, <1>3, <2>1, <2>2 DEF HookSound, Retires, Replaces, Mine
<1>16. StopIsOnRecord'
  <2> SUFFICES ASSUME NEW g \in Hosts, wish[g] = "stop", ~file[g].stopped, ~excused[g]
               PROVE  \E t \in Sessions : sess'[t].host = g /\ sess'[t].pc = "write" /\ sess'[t].out.stopped
    BY DEF StopIsOnRecord
  <2>1. \E t \in Sessions : sess[t].host = g /\ sess[t].pc = "write" /\ sess[t].out.stopped
    BY DEF BootInv, StopIsOnRecord
  <2> QED
    BY <1>1, <1>2, <2>1
<1> QED
  BY <1>9, <1>11, <1>12, <1>13, <1>14, <1>15, <1>16 DEF BootInv

LEMMA SignalsKept ==
  ASSUME BootInv, NEW s \in Sessions, Retire(s) \/ RetireKill(s) \/ Replace(s) \/ ReplaceKill(s) PROVE BootInv'
<1> DEFINE h == sess[s].host
           e == sess[s].seen
<1>1. /\ sess[s].pc \in {"retire", "retirekill", "replace", "replacekill"} /\ (Retires(s) \/ Replaces(s))
      /\ UNCHANGED <<file, begun, excused, orphaned, UserVars>>
  BY DEF Retire, RetireKill, Replace, ReplaceKill, Signal, At_, Retires, Replaces
<1>2. /\ sess[s] \in SessType /\ h \in Hosts /\ HookSound(s) /\ sess[s].ours = ManagedPid(h)
      /\ SeenSound(s) /\ OwnsSeen(s) /\ (wish[h] = "stop" => excused[h])
  BY <1>1, Hooking DEF HookSound
<1>3. CASE Fail(s)
  BY <1>1, <1>3, LookReturns DEF Fail, Rest, UserVars
<1>4. CASE Stay(s, "live")
  BY <1>1, <1>2, <1>4, LooksOn DEF Stay, Rest, UserVars
<1>5. CASE Stay(s, "spawn") /\ Replaces(s) /\ Target(s) # 0 /\ ~PidTaken(Target(s))
  <2>1. UNCHANGED <<proc, lock, hits>> /\ Goto(s, "spawn")
    BY <1>5 DEF Stay
  <2>2. /\ sess' \in [Sessions -> SessType] /\ \A t \in Sessions : t # s => sess'[t] = sess[t]
        /\ sess'[s] = [sess[s] EXCEPT !.pc = "spawn"]
    BY <2>1, GotoTyped DEF Steps
  <2>3. sess'[s].pc = "spawn" /\ sess'[s].host = h /\ sess'[s].v = sess[s].v
    BY <1>2, <2>2 DEF SessType
  <2>4. ~Good(h, e)
    <3> SUFFICES ASSUME Good(h, e) PROVE FALSE
      OBVIOUS
    <3>1. proc[e].pid = Target(s) /\ Live(e) /\ e \in Starts
      BY <1>1, <1>2, <1>5, GoodIsNotMixed, TargetIsSeen DEF Good, SeenSound
    <3> QED
      BY <1>5, <3>1 DEF PidTaken
  <2>5. Rivals(s) = {}
    BY <1>2, <2>4, <1>5 DEF HookSound, Rivals, Replaces
  <2>6. Rivals(s)' = {}
    BY <1>1, <2>1, <2>3, <2>5, SameProcesses DEF Rivals
  <2>7. HookSound(s)'
    BY <1>1, <1>2, <2>3, <2>6 DEF HookSound, Retires, Replaces, Mine, UserVars
  <2> QED
    BY <1>1, <2>1, <2>2, <2>3, <2>7, LookGoes DEF Mine, Rest, UserVars
<1>6. ASSUME NEW from, NEW failed, NEW gone, NEW next \in {"retirewait", "live", "replacewait", "spawn"},
             NEW st \in {"ending", "dead"}, Signal(s, Target(s), from, failed, gone, next, st),
             Target(s) # 0, PidTaken(Target(s)), Retires(s) <=> next \in {"retirewait", "live"}
      PROVE  BootInv'
  <2>1. PICK n \in Starts :
          /\ Live(n) /\ proc[n].pid = Target(s)
          /\ proc' = [proc EXCEPT ![n].st = IF st = "dead" \/ proc[n].st = "starting" THEN "dead" ELSE st]
          /\ Signalled(s, n) /\ Goto(s, next) /\ UNCHANGED lock
    BY <1>6 DEF Signal
  <2> DEFINE z == IF st = "dead" \/ proc[n].st = "starting" THEN "dead" ELSE st
  <2>2. z \in {"ending", "dead"} /\ (z = "ending" => proc[n].st # "starting") /\ proc' = [proc EXCEPT ![n].st = z]
    BY <2>1
  <2> HIDE DEF z
  <2> QED
    BY <1>1, <1>6, <2>1, <2>2, SignalKept
<1>7. CASE Target(s) = 0 \/ ~PidTaken(Target(s))
  <2>1. CASE Target(s) = 0
    BY <1>3, <2>1 DEF Retire, RetireKill, Replace, ReplaceKill, Signal
  <2>2. CASE Target(s) # 0
    BY <1>4, <1>5, <1>7, <2>2 DEF Retire, RetireKill, Replace, ReplaceKill, Signal, Replaces, At_
  <2> QED
    BY <2>1, <2>2
<1>8. CASE Target(s) # 0 /\ PidTaken(Target(s))
  <2>1. CASE Retire(s)
    BY <1>6, <1>8, <2>1 DEF Retire, Retires, Signal, At_
  <2>2. CASE RetireKill(s)
    BY <1>6, <1>8, <2>2 DEF RetireKill, Retires, Signal, At_
  <2>3. CASE Replace(s)
    BY <1>6, <1>8, <2>3 DEF Replace, Retires, Signal, At_
  <2>4. CASE ReplaceKill(s)
    BY <1>6, <1>8, <2>4 DEF ReplaceKill, Retires, Signal, At_
  <2> QED
    BY <2>1, <2>2, <2>3, <2>4
<1> QED
  BY <1>7, <1>8

\* A process is started: it has a number and a pid of its own.
LEMMA StartKept ==
  ASSUME BootInv, NextStart \in Starts, NEW o \in Hosts \cup {"cli", "other"}, NEW v \in 0 .. MaxVersion,
         NEW u \in Urls, NEW p \in Pids, ~PidTaken(p), UNCHANGED <<orphaned, hits>>,
         proc' = [proc EXCEPT ![NextStart] = Proc("starting", o, v, u, p)]
  PROVE  /\ proc' \in [Starts -> ProcType] /\ Evolves /\ ProcInv'
         /\ ~Known(NextStart) /\ \A m \in Starts : m # NextStart => proc'[m] = proc[m]
         /\ \A m \in Starts : \A g : Good(g, m)' => (Good(g, m) /\ Known(m)) \/ (m = NextStart /\ g = o)
<1> DEFINE n == NextStart
<1>1. ~Known(n) /\ \E k \in 0 .. MaxStarts : \A m \in Starts : (Known(m) \/ m = n) <=> m <= k
  BY NextFree DEF BootInv
<1>2. Proc("starting", o, v, u, p) \in ProcType
  BY DEF Proc, ProcType
<1> DEFINE q == Proc("starting", o, v, u, p)
<1>3. q.st = "starting" /\ q.owner = o /\ q.version = v /\ q.url = u /\ q.pid = p
  BY DEF Proc
<1> HIDE DEF q, n
<1>4. proc' = [proc EXCEPT ![n] = q] /\ n \in Starts /\ proc \in [Starts -> ProcType] /\ q \in ProcType
  BY <1>2 DEF q, n, BootInv, BootTypeOK
<1>5. proc' \in [Starts -> ProcType] /\ proc'[n] = q /\ \A m \in Starts : m # n => proc'[m] = proc[m]
  BY <1>4
<1>6. \A m \in Starts : /\ Known(m)' <=> Known(m) \/ m = n
                        /\ Live(m)' <=> Live(m) \/ m = n
                        /\ Listening(m)' <=> Listening(m)
  BY <1>1, <1>3, <1>5 DEF Known, Live, Listening
<1>7. Evolves
  BY <1>1, <1>5, <1>6 DEF Evolves
<1>8. ProcInv'
  <2>1. \E k \in 0 .. MaxStarts : \A m \in Starts : Known(m)' <=> m <= k
    BY <1>1, <1>6
  <2>2. \A m \in Starts : Live(m)' => proc'[m].pid \in Pids
    BY <1>3, <1>5, <1>6 DEF BootInv, ProcInv
  <2>3. \A m \in Starts : Live(m) => proc[m].pid # p
    BY DEF PidTaken
  <2>4. \A l, m \in Starts : Live(l)' /\ Live(m)' /\ proc'[l].pid = proc'[m].pid => l = m
    BY <1>3, <1>5, <1>6, <2>3 DEF BootInv, ProcInv
  <2>5. \A x \in hits : Known(x.target)' /\ (proc'[x.target].owner = x.host \/ x.excuse)
    <3>1. ASSUME NEW x \in hits PROVE Known(x.target)' /\ (proc'[x.target].owner = x.host \/ x.excuse)
      <4>1. x.target \in Starts /\ Known(x.target) /\ (proc[x.target].owner = x.host \/ x.excuse)
        BY DEF BootInv, BootTypeOK, ProcInv
      <4> QED
        BY <1>7, <4>1 DEF Evolves
    <3> QED
      BY <3>1
  <2> QED
    BY <1>6, <2>1, <2>2, <2>4, <2>5 DEF BootInv, ProcInv
<1>9. \A m \in Starts : \A g : Good(g, m)' => (Good(g, m) /\ Known(m)) \/ (m = n /\ g = o)
  <2>1. \A m \in Starts : m # n /\ Live(m)' => Known(m)
    BY <1>6 DEF Live, Known
  <2> QED
    BY <1>3, <1>5, <1>7, <2>1, GoodBefore DEF Good
<1> QED
  BY <1>1, <1>5, <1>7, <1>8, <1>9 DEF n

LEMMA SpawnKept == ASSUME BootInv, NEW s \in Sessions, Spawn(s) PROVE BootInv'
<1> DEFINE h == sess[s].host
           v == sess[s].v
           n == NextStart
<1>1. /\ sess[s].pc = "spawn" /\ UNCHANGED <<file, Rest>>
      /\ sess[s] \in SessType /\ h \in Hosts /\ HookSound(s) /\ sess \in [Sessions -> SessType]
  BY Hooking DEF Spawn, At_, BootInv, BootTypeOK
<1>2. CASE Return(s) /\ UNCHANGED proc
  BY <1>1, <1>2, LookReturns
<1>3. CASE /\ n \in Starts /\ UNCHANGED lock
           /\ \E p \in Pids :
                /\ ~PidTaken(p) /\ proc' = [proc EXCEPT ![n] = Proc("starting", h, v, UrlOf(v), p)]
                /\ sess' = [sess EXCEPT ![s].pc = "verify", ![s].mine = n, ![s].pid = p]
  <2> USE DEF Rest, UserVars
  <2>1. PICK p \in Pids :
          /\ ~PidTaken(p) /\ proc' = [proc EXCEPT ![n] = Proc("starting", h, v, UrlOf(v), p)] /\ UNCHANGED lock
          /\ sess' = [sess EXCEPT ![s].pc = "verify", ![s].mine = n, ![s].pid = p]
    BY <1>3
  <2>2. v \in 0 .. MaxVersion
    BY <1>1 DEF SessType
  <2>3. /\ proc' \in [Starts -> ProcType] /\ Evolves /\ ProcInv' /\ ~Known(n)
        /\ \A m \in Starts : m # n => proc'[m] = proc[m]
        /\ \A m \in Starts : \A g : Good(g, m)' => (Good(g, m) /\ Known(m)) \/ (m = n /\ g = h)
    BY <1>1, <1>3, <2>1, <2>2, HookBasics, StartKept
  <2> HIDE DEF n
  <2>4. proc'[n] = Proc("starting", h, v, UrlOf(v), p)
    BY <1>3, <2>1 DEF BootInv, BootTypeOK
  <2> DEFINE x == [sess[s] EXCEPT !.pc = "verify", !.mine = n, !.pid = p]
  <2>5. x \in SessType /\ x.pc = "verify" /\ x.host = h /\ x.v = v /\ x.mine = n /\ x.pid = p
    BY <1>1, <1>3 DEF SessType, Steps
  <2>6. sess' = [sess EXCEPT ![s] = x]
    BY <1>1, <2>1
  <2> HIDE DEF x
  <2>7. sess'[s] = x /\ sess' \in [Sessions -> SessType] /\ \A t \in Sessions : t # s => sess'[t] = sess[t]
    BY <1>1, <2>5, <2>6
  <2>8. BootTypeOK'
    <3>1. \A t \in Sessions : sess'[t].pc \notin {"idle", "lock"} => lock[sess'[t].host] = t
      BY <1>1, <2>5, <2>7 DEF BootInv, BootTypeOK
    <3> QED
      BY <1>1, <2>1, <2>3, <2>7, <3>1 DEF BootInv, BootTypeOK
  <2>9. \A g \in Hosts : RecordSound(g, file[g])'
    BY <1>1, <2>3, RecordStays DEF BootInv
  <2>10. GoodInv'
    <3> SUFFICES ASSUME NEW m \in Starts, NEW g \in Hosts, Good(g, m)'
                 PROVE  Listening(m)' \/ \E t \in Sessions : Mine(t)' /\ sess'[t].mine = m /\ sess'[t].host = g
      BY DEF GoodInv
    <3>1. CASE m = n /\ g = h
      BY <2>5, <2>7, <3>1 DEF Mine
    <3>2. CASE Good(g, m) /\ Known(m)
      <4>1. Listening(m) \/ \E t \in Sessions : Mine(t) /\ sess[t].mine = m /\ sess[t].host = g
        BY <3>2 DEF BootInv, GoodInv
      <4>2. Listening(m) => Listening(m)'
        BY <2>3, <3>2 DEF Listening
      <4>3. ~Mine(s)
        BY <1>1 DEF Mine
      <4> QED
        BY <2>7, <4>1, <4>2, <4>3 DEF Mine
    <3> QED
      BY <2>3, <3>1, <3>2
  <2>11. ASSUME NEW t \in Sessions, t # s PROVE HookSound(t)'
    <3>1. sess[t].pc \notin {"idle", "lock"} => sess[t].host # h
      BY <1>1, <2>11, OneHook DEF BootInv
    <3>2. BootTypeOK /\ HookSound(t) /\ sess'[t] = sess[t] /\ Evolves
      BY <2>3, <2>7, <2>11 DEF BootInv
    <3>3. \A m \in Starts : \A g : ~Known(m) /\ Good(g, m)' => g = h
      BY <2>3
    <3> QED
      BY <1>1, <3>1, <3>2, <3>3, HookStays
  <2>12. HookSound(s)'
    <3>1. Rivals(s) = {} /\ v # 0 /\ (wish[h] = "stop" => excused[h])
      BY <1>1 DEF HookSound
    <3>2. Rivals(s)' \subseteq {n}
      <4> SUFFICES ASSUME NEW m \in Starts, m # n, Good(h, m)', proc'[m].url = UrlOf(v) PROVE FALSE
        BY <2>5, <2>7 DEF Rivals
      <4>1. Good(h, m)
        BY <2>3, <2>5, <2>7
      <4> QED
        BY <2>3, <3>1, <4>1 DEF Rivals
    <3>3. MineSound(s)'
      <4>1. /\ proc'[n].st = "starting" /\ proc'[n].owner = h /\ proc'[n].version = v /\ proc'[n].pid = p
            /\ sess'[s].mine = n /\ sess'[s].host = h /\ sess'[s].v = v /\ sess'[s].pid = p /\ n \in Starts
        <5>1. /\ sess'[s].mine = n /\ sess'[s].host = h /\ sess'[s].v = v /\ sess'[s].pid = p
          BY <2>5, <2>7
        <5>2. n \in Starts
          BY <1>3
        <5>3. /\ proc'[n].st = "starting" /\ proc'[n].owner = h /\ proc'[n].version = v /\ proc'[n].pid = p
          BY <2>4 DEF Proc
        <5> QED
          BY <5>1, <5>2, <5>3
      <4> QED
        BY <4>1 DEF MineSound, Known
    <3> QED
      BY <1>1, <2>5, <2>7, <3>1, <3>2, <3>3 DEF HookSound, Retires, Replaces, Mine
  <2>13. StopIsOnRecord'
    <3> SUFFICES ASSUME NEW g \in Hosts, wish[g] = "stop", ~file[g].stopped, ~excused[g]
                 PROVE  \E t \in Sessions : sess'[t].host = g /\ sess'[t].pc = "write" /\ sess'[t].out.stopped
      BY <1>1 DEF StopIsOnRecord
    <3>1. \E t \in Sessions : sess[t].host = g /\ sess[t].pc = "write" /\ sess[t].out.stopped
      BY DEF BootInv, StopIsOnRecord
    <3> QED
      BY <1>1, <2>7, <3>1
  <2> QED
    BY <2>3, <2>8, <2>9, <2>10, <2>11, <2>12, <2>13 DEF BootInv
<1> HIDE DEF n
<1> QED
  BY <1>2, <1>3 DEF Spawn, n

\* The hook ends the process that it has started, and itself.
LEMMA GiveUpKept ==
  ASSUME BootInv, NEW s \in Sessions, Mine(s), GiveUp(s), UNCHANGED <<file, Rest>>
  PROVE  BootInv'
<1> USE DEF Rest, UserVars
<1> DEFINE n == sess[s].mine
<1>1. /\ sess[s] \in SessType /\ sess[s].host \in Hosts /\ HookSound(s) /\ sess[s].pc \in {"verify", "ensure"}
      /\ n \in Starts /\ Known(n)
  BY Hooking DEF HookSound, Mine, MineSound
<1>2. /\ sess'[s] = Idle /\ \A t \in Sessions : t # s => sess'[t] = sess[t]
      /\ lock' = [lock EXCEPT ![sess[s].host] = "nobody"]
  BY DEF BootInv, BootTypeOK, GiveUp, Return
<1>3. /\ proc' \in [Starts -> ProcType] /\ \A m \in Starts : m # n => proc'[m] = proc[m]
      /\ proc'[n].st = "dead" /\ proc'[n].owner = proc[n].owner /\ proc'[n].version = proc[n].version
      /\ proc'[n].url = proc[n].url /\ proc'[n].pid = proc[n].pid
  BY <1>1 DEF BootInv, BootTypeOK, ProcType, GiveUp
<1> HIDE DEF n
<1>4. Evolves /\ \A m \in Starts : (Known(m)' <=> Known(m)) /\ (Live(m)' => Live(m)) /\ (Listening(m)' => Listening(m))
  BY <1>1, <1>3 DEF Evolves, Live, Known, Listening
<1>5. ProcInv'
  <2>1. \A x \in hits : Known(x.target)' /\ (proc'[x.target].owner = x.host \/ x.excuse)
    <3>1. ASSUME NEW x \in hits PROVE Known(x.target)' /\ (proc'[x.target].owner = x.host \/ x.excuse)
      <4>1. x.target \in Starts /\ Known(x.target) /\ (proc[x.target].owner = x.host \/ x.excuse)
        BY DEF BootInv, BootTypeOK, ProcInv
      <4> QED
        BY <1>4, <4>1 DEF Evolves
    <3> QED
      BY <3>1
  <2>2. \A m \in Starts : proc'[m].pid = proc[m].pid
    BY <1>3
  <2> QED
    BY <1>4, <2>1, <2>2 DEF BootInv, ProcInv
<1>6. \A m \in Starts : \A g : Good(g, m)' => Good(g, m) /\ Known(m) /\ m # n
  <2>1. \A m \in Starts : Live(m)' => Known(m) /\ m # n
    BY <1>3, <1>4 DEF Live, Known
  <2> QED
    BY <1>4, <2>1, GoodBefore DEF Good
<1>7. \A t \in Sessions : t # s /\ sess[t].pc \notin {"idle", "lock"} => sess[t].host # sess[s].host
  BY <1>1, OneHook DEF BootInv
<1>8. BootTypeOK'
  <2>1. sess' \in [Sessions -> SessType]
    BY IdleTyped DEF BootInv, BootTypeOK, GiveUp, Return
  <2>2. \A t \in Sessions : sess'[t].pc \notin {"idle", "lock"} => lock'[sess'[t].host] = t
    BY <1>1, <1>2, <1>7 DEF BootInv, BootTypeOK, Idle
  <2>3. lock' \in [Hosts -> Sessions \cup {"nobody"}]
    BY <1>1, <1>2 DEF BootInv, BootTypeOK
  <2> QED
    BY <1>3, <2>1, <2>2, <2>3 DEF BootInv, BootTypeOK
<1>9. \A h \in Hosts : RecordSound(h, file[h])'
  BY <1>4, RecordStays DEF BootInv
<1>10. GoodInv'
  <2> SUFFICES ASSUME NEW m \in Starts, NEW h \in Hosts, Good(h, m)'
               PROVE  Listening(m)' \/ \E t \in Sessions : Mine(t)' /\ sess'[t].mine = m /\ sess'[t].host = h
    BY DEF GoodInv
  <2>1. Listening(m) \/ \E t \in Sessions : Mine(t) /\ sess[t].mine = m /\ sess[t].host = h
    BY <1>6 DEF BootInv, GoodInv
  <2>2. Listening(m) => Listening(m)'
    BY <1>3, <1>6 DEF Listening
  <2>3. sess[s].mine # m
    BY <1>6 DEF n
  <2> QED
    BY <1>2, <2>1, <2>2, <2>3 DEF Mine
<1>11. ASSUME NEW t \in Sessions PROVE HookSound(t)'
  <2>1. CASE t = s
    BY <1>2, <2>1 DEF HookSound, Idle, Retires, Replaces, Mine
  <2>2. CASE t # s
    <3>1. BootTypeOK /\ HookSound(t) /\ sess'[t] = sess[t] /\ Evolves /\ \A m \in Starts : \A g : Good(g, m)' => Known(m)
      BY <1>2, <1>4, <1>6, <2>2 DEF BootInv
    <3> QED
      BY <3>1, HookStays
  <2> QED
    BY <2>1, <2>2
<1>12. StopIsOnRecord'
  <2> SUFFICES ASSUME NEW h \in Hosts, wish[h] = "stop", ~file[h].stopped, ~excused[h]
               PROVE  \E t \in Sessions : sess'[t].host = h /\ sess'[t].pc = "write" /\ sess'[t].out.stopped
    BY DEF StopIsOnRecord
  <2>1. \E t \in Sessions : sess[t].host = h /\ sess[t].pc = "write" /\ sess[t].out.stopped
    BY DEF BootInv, StopIsOnRecord
  <2> QED
    BY <1>1, <1>2, <2>1
<1> QED
  BY <1>5, <1>8, <1>9, <1>10, <1>11, <1>12 DEF BootInv

LEMMA VerifyKept == ASSUME BootInv, NEW s \in Sessions, Verify(s) PROVE BootInv'
<1> DEFINE h == sess[s].host
           v == sess[s].v
<1>1. /\ sess[s].pc = "verify" /\ Mine(s) /\ UNCHANGED <<file, Rest>>
      /\ sess[s] \in SessType /\ h \in Hosts /\ HookSound(s) /\ sess \in [Sessions -> SessType]
  BY Hooking DEF Verify, At_, Mine, BootInv, BootTypeOK
<1>2. MineSound(s) /\ Rivals(s) \subseteq {sess[s].mine} /\ (wish[h] = "stop" => excused[h])
  BY <1>1 DEF HookSound
<1>3. CASE GiveUp(s)
  BY <1>1, <1>3, GiveUpKept
<1>4. ASSUME NEW n \in Health(UrlOf(v)) \ {0}, sess' = [sess EXCEPT ![s].pc = "ensure", ![s].seen = n],
             UNCHANGED <<proc, lock>>
      PROVE  BootInv'
  <2>1. n \in Starts /\ proc[n].st \in {"up", "ending", "dead"} /\ proc[n].url = UrlOf(v)
    BY AnswersAreListening
  <2> DEFINE x == [sess[s] EXCEPT !.pc = "ensure", !.seen = n]
  <2>2. /\ x \in SessType /\ x.pc = "ensure" /\ x.host = h /\ x.v = v /\ x.seen = n /\ x.mine = sess[s].mine
        /\ x.pid = sess[s].pid
    BY <1>1, <2>1 DEF SessType, Steps
  <2>3. sess' = [sess EXCEPT ![s] = x]
    BY <1>1, <1>4
  <2> HIDE DEF x
  <2>4. sess'[s] = x /\ sess' \in [Sessions -> SessType] /\ \A t \in Sessions : t # s => sess'[t] = sess[t]
    BY <1>1, <2>2, <2>3
  <2>5. SeenSound(s)' /\ MineSound(s)'
    BY <1>2, <1>4, <2>1, <2>2, <2>4 DEF SeenSound, MineSound, Known
  <2>6. Rivals(s)' = Rivals(s)
    BY <1>1, <1>4, <2>2, <2>4, SameProcesses DEF Rivals, Rest
  <2>7. HookSound(s)'
    BY <1>1, <1>2, <1>4, <2>1, <2>2, <2>4, <2>5, <2>6 DEF HookSound, Retires, Replaces, Mine, Rest, UserVars
  <2> QED
    BY <1>1, <1>4, <2>2, <2>4, <2>7, LookGoes
<1> QED
  BY <1>3, <1>4 DEF Verify

LEMMA EnsureKept == ASSUME BootInv, NEW s \in Sessions, Ensure(s) PROVE BootInv'
<1> USE DEF UserVars
<1>0. /\ sess[s].pc = "ensure" /\ Mine(s) /\ sess[s] \in SessType /\ HookSound(s) /\ sess \in [Sessions -> SessType]
      /\ MineSound(s) /\ SeenSound(s) /\ sess[s].host \in Hosts
  BY Hooking DEF Ensure, At_, Mine, BootInv, BootTypeOK, HookSound
<1>. PICK h \in Hosts, m \in Starts, e \in Starts, v \in 0 .. MaxVersion, p \in Pids \cup {0} :
       h = sess[s].host /\ m = sess[s].mine /\ e = sess[s].seen /\ v = sess[s].v /\ p = sess[s].pid
  BY <1>0 DEF MineSound, SeenSound, SessType
<1>. PICK r : r = StateFields(h, v, m, p, 0, e)
  OBVIOUS
<1>1. /\ UNCHANGED <<file, begun, excused, hits, UserVars>>
      /\ orphaned' = IF Live(m) /\ e # m THEN orphaned \cup {m} ELSE orphaned
  BY DEF Ensure
<1>2. /\ Rivals(s) \subseteq {m} /\ (wish[h] = "stop" => excused[h]) /\ proc[e].url = UrlOf(v) /\ v # 0
      /\ proc[e].st \in {"up", "ending", "dead"} /\ Known(m) /\ proc[m].owner = h /\ proc[m].version = v
      /\ proc[m].pid = p
  BY <1>0 DEF HookSound, SeenSound, MineSound
<1>3. CASE ~Live(m)
  BY <1>0, <1>1, <1>3, GiveUpKept DEF Ensure, Rest
<1>4. CASE Live(m)
  <2>1. WriteNext(s, r) /\ UNCHANGED <<proc, lock>>
    BY <1>4 DEF Ensure
  <2>2. r \in RecordType /\ ~r.stopped
    BY <1>0, HookBasics DEF StateFields, Record, RecordType, SessType
  <2>3. r.mode = "managed" => proc[e].owner = h /\ r.start = e /\ r.version = v /\ r.pid = p
    BY DEF StateFields, Record, ProvesManaged, ReportsManaged
  <2>4. /\ Evolves
        /\ \A n : (Known(n)' <=> Known(n)) /\ (Live(n)' <=> Live(n)) /\ (Listening(n)' <=> Listening(n))
        /\ \A g, n : Good(g, n)' => Good(g, n) /\ Known(n)
    <3>1. \A n : (Known(n)' <=> Known(n)) /\ (Live(n)' <=> Live(n)) /\ (Listening(n)' <=> Listening(n))
      BY <2>1 DEF Known, Live, Listening
    <3>2. orphaned \subseteq orphaned' /\ hits' = hits
      BY <1>1
    <3>3. \A g, n : Good(g, n)' => Good(g, n) /\ Known(n)
      <4>1. \A n : Told(n) => Told(n)'
        BY <3>2 DEF Told
      <4> QED
        BY <2>1, <3>1, <4>1 DEF Good, Live, Known
    <3> QED
      BY <2>1, <3>1, <3>2, <3>3 DEF Evolves
  <2>5. Good(h, e) => e = m
    BY <1>2 DEF Rivals
  <2>6. Live(e) /\ proc[e].owner = h /\ ~Told(e)' => e = m
    <3>1. ~Told(e)' => ~Told(e)
      BY <2>4, ToldStays
    <3> QED
      BY <2>5, <3>1 DEF Good
  <2>7. RecordSound(h, r)'
    <3>1. Known(e)
      BY <1>2 DEF Known
    <3>2. r.mode = "managed" /\ Live(e) /\ ~Told(e)' =>
            proc[e].owner = h /\ proc[e].version = r.version /\ r.pid = proc[e].pid
      BY <1>2, <2>3, <2>6
    <3> QED
      BY <2>1, <2>2, <2>3, <2>4, <3>1, <3>2 DEF RecordSound
  <2>8. /\ sess' \in [Sessions -> SessType] /\ \A t \in Sessions : t # s => sess'[t] = sess[t]
        /\ sess'[s].pc = "truncate" /\ sess'[s].host = h /\ sess'[s].v = v /\ sess'[s].out = r
    <3> DEFINE x == [sess[s] EXCEPT !.pc = "truncate", !.out = r]
    <3>1. x \in SessType /\ x.pc = "truncate" /\ x.host = h /\ x.v = v /\ x.out = r
      BY <1>0, <2>2 DEF SessType, Steps
    <3>2. sess' = [sess EXCEPT ![s] = x]
      BY <1>0, <2>1 DEF WriteNext
    <3> HIDE DEF x
    <3> QED
      BY <1>0, <3>1, <3>2
  <2>9. BootTypeOK'
    <3>1. \A t \in Sessions : sess'[t].pc \notin {"idle", "lock"} => lock[sess'[t].host] = t
      BY <1>0, <2>8 DEF BootInv, BootTypeOK
    <3> QED
      BY <1>1, <2>1, <2>8, <3>1 DEF BootInv, BootTypeOK
  <2>10. ProcInv'
    BY <1>1, <2>1 DEF BootInv, ProcInv, Known, Live, Listening
  <2>11. \A g \in Hosts : RecordSound(g, file[g])'
    BY <1>1, <2>4, RecordStays DEF BootInv
  <2>12. GoodInv'
    <3> SUFFICES ASSUME NEW n \in Starts, NEW g \in Hosts, Good(g, n)'
                 PROVE  Listening(n)' \/ \E t \in Sessions : Mine(t)' /\ sess'[t].mine = n /\ sess'[t].host = g
      BY DEF GoodInv
    <3>1. Listening(n) \/ \E t \in Sessions : Mine(t) /\ sess[t].mine = n /\ sess[t].host = g
      BY <2>4 DEF BootInv, GoodInv
    <3>2. m = n => Listening(n)
      <4>1. ~Told(n)' /\ Live(n)
        BY <2>4 DEF Good
      <4>2. m = n => e = m
        BY <1>1, <1>4, <4>1 DEF Told
      <4> QED
        BY <1>2, <4>1, <4>2 DEF Listening, Live
    <3> QED
      BY <2>4, <2>8, <3>1, <3>2 DEF Mine
  <2>13. ASSUME NEW t \in Sessions, t # s PROVE HookSound(t)'
    <3>1. BootTypeOK /\ HookSound(t) /\ sess'[t] = sess[t]
      BY <2>8, <2>13 DEF BootInv
    <3> QED
      BY <1>1, <2>4, <3>1, HookStays
  <2>14. HookSound(s)'
    BY <1>0, <1>1, <1>2, <2>7, <2>8 DEF HookSound, Retires, Replaces, Mine
  <2>15. StopIsOnRecord'
    <3> SUFFICES ASSUME NEW g \in Hosts, wish[g] = "stop", ~file[g].stopped, ~excused[g]
                 PROVE  \E t \in Sessions : sess'[t].host = g /\ sess'[t].pc = "write" /\ sess'[t].out.stopped
      BY <1>1 DEF StopIsOnRecord
    <3>1. \E t \in Sessions : sess[t].host = g /\ sess[t].pc = "write" /\ sess[t].out.stopped
      BY DEF BootInv, StopIsOnRecord
    <3> QED
      BY <1>0, <2>8, <3>1
  <2> QED
    BY <2>9, <2>10, <2>11, <2>12, <2>13, <2>14, <2>15 DEF BootInv
<1> QED
  BY <1>3, <1>4

\* A hook writes its file, in two steps.
LEMMA WritingKept == ASSUME BootInv, NEW s \in Sessions, Truncate(s) \/ Write(s) PROVE BootInv'
<1> USE DEF Rest, UserVars
<1> DEFINE h == sess[s].host
           new == IF Truncate(s) THEN Absent ELSE sess[s].out
<1>1. /\ sess[s].pc \in {"truncate", "write"} /\ UNCHANGED <<proc, Rest>> /\ file' = [file EXCEPT ![h] = new]
      /\ sess[s] \in SessType /\ h \in Hosts /\ HookSound(s) /\ sess \in [Sessions -> SessType]
  BY Hooking DEF Truncate, Write, At_, BootInv, BootTypeOK
<1>2. RecordSound(h, sess[s].out) /\ (wish[h] = "stop" => excused[h] \/ sess[s].out.stopped) /\ sess[s].v # 0
  BY <1>1 DEF HookSound
<1>3. new \in RecordType /\ RecordSound(h, new)
  BY <1>1, <1>2, IdleTyped DEF SessType, RecordSound, Absent
<1>4. \/ Truncate(s) /\ Goto(s, "write") /\ UNCHANGED lock
      \/ ~Truncate(s) /\ Write(s) /\ Return(s) /\ new = sess[s].out
  BY DEF Truncate, Write
<1> HIDE DEF new
<1>5. /\ sess' \in [Sessions -> SessType] /\ \A t \in Sessions : t # s => sess'[t] = sess[t]
      /\ Truncate(s) => /\ sess'[s].pc = "write" /\ sess'[s].host = h /\ sess'[s].v = sess[s].v
                        /\ sess'[s].out = sess[s].out
      /\ ~Truncate(s) => sess'[s] = Idle
  <2>1. CASE Truncate(s)
    <3>1. /\ sess' \in [Sessions -> SessType] /\ \A t \in Sessions : t # s => sess'[t] = sess[t]
          /\ sess'[s] = [sess[s] EXCEPT !.pc = "write"]
      BY <1>4, <2>1, GotoTyped DEF Steps
    <3> QED
      BY <1>1, <2>1, <3>1 DEF SessType
  <2>2. CASE ~Truncate(s)
    BY <1>1, <1>4, <2>2, IdleTyped DEF Return
  <2> QED
    BY <2>1, <2>2
<1>6. \A t \in Sessions : t # s /\ sess[t].pc \notin {"idle", "lock"} => sess[t].host # h
  BY <1>1, OneHook DEF BootInv
<1>7. /\ lock' \in [Hosts -> Sessions \cup {"nobody"}]
      /\ \A t \in Sessions : sess'[t].pc \notin {"idle", "lock"} => lock'[sess'[t].host] = t
  <2>1. CASE Truncate(s)
    BY <1>1, <1>4, <1>5, <2>1 DEF BootInv, BootTypeOK
  <2>2. CASE ~Truncate(s)
    <3>1. lock' = [lock EXCEPT ![h] = "nobody"] /\ sess'[s].pc = "idle"
      BY <1>4, <1>5, <2>2 DEF Return, Idle
    <3> QED
      BY <1>1, <1>5, <1>6, <3>1 DEF BootInv, BootTypeOK
  <2> QED
    BY <2>1, <2>2
<1>8. BootTypeOK'
  BY <1>1, <1>3, <1>5, <1>7 DEF BootInv, BootTypeOK
<1>9. /\ Evolves /\ ProcInv' /\ \A n \in Starts : \A g : Good(g, n)' => Known(n) /\ Good(g, n)
      /\ \A n \in Starts : Listening(n)' <=> Listening(n)
  BY <1>1, SameProcesses
<1>10. ASSUME NEW g \in Hosts PROVE RecordSound(g, file[g])'
  <2>1. CASE g = h
    <3>1. file'[g] = new
      BY <1>1, <2>1 DEF BootInv, BootTypeOK
    <3> QED
      BY <1>1, <1>3, <2>1, <3>1 DEF RecordSound, Known, Live, Told
  <2>2. CASE g # h
    <3>1. file'[g] = file[g] /\ RecordSound(g, file[g])
      BY <1>1, <2>2 DEF BootInv, BootTypeOK
    <3> QED
      BY <1>1, <3>1 DEF RecordSound, Known, Live, Told
  <2> QED
    BY <2>1, <2>2
<1>11. GoodInv'
  <2> SUFFICES ASSUME NEW n \in Starts, NEW g \in Hosts, Good(g, n)'
               PROVE  Listening(n)' \/ \E t \in Sessions : Mine(t)' /\ sess'[t].mine = n /\ sess'[t].host = g
    BY DEF GoodInv
  <2>1. Listening(n) \/ \E t \in Sessions : Mine(t) /\ sess[t].mine = n /\ sess[t].host = g
    BY <1>9 DEF BootInv, GoodInv
  <2> QED
    BY <1>1, <1>5, <1>9, <2>1 DEF Mine
<1>12. ASSUME NEW t \in Sessions, t # s PROVE HookSound(t)'
  <2>1. BootTypeOK /\ HookSound(t) /\ sess'[t] = sess[t]
    BY <1>5, <1>12 DEF BootInv
  <2>2. sess[t].pc \notin {"idle", "lock"} => file'[sess[t].host] = file[sess[t].host]
    BY <1>1, <1>6, <1>12 DEF BootInv, BootTypeOK
  <2> QED
    BY <1>1, <1>9, <2>1, <2>2, HookStays
<1>13. HookSound(s)'
  <2>1. CASE Truncate(s)
    <3>1. RecordSound(h, sess[s].out)'
      <4>1. \A g, x : RecordSound(g, x) => RecordSound(g, x)'
        BY <1>9, RecordStays
      <4> QED
        BY <1>2, <1>5, <2>1, <4>1
    <3> QED
      BY <1>1, <1>2, <1>5, <2>1, <3>1 DEF HookSound, Retires, Replaces, Mine
  <2>2. CASE ~Truncate(s)
    BY <1>5, <2>2 DEF HookSound, Idle, Retires, Replaces, Mine
  <2> QED
    BY <2>1, <2>2
<1>14. StopIsOnRecord'
  <2> SUFFICES ASSUME NEW g \in Hosts, wish[g] = "stop", ~file'[g].stopped, ~excused[g]
               PROVE  \E t \in Sessions : sess'[t].host = g /\ sess'[t].pc = "write" /\ sess'[t].out.stopped
    BY <1>1 DEF StopIsOnRecord
  <2>1. CASE g # h
    <3>1. \E t \in Sessions : sess[t].host = g /\ sess[t].pc = "write" /\ sess[t].out.stopped
      BY <1>1, <2>1 DEF BootInv, BootTypeOK, StopIsOnRecord
    <3> QED
      BY <1>5, <2>1, <3>1
  <2>2. CASE g = h
    <3>1. file'[g] = new
      BY <1>1, <2>2 DEF BootInv, BootTypeOK
    <3>2. Truncate(s)
      BY <1>2, <1>4, <2>2, <3>1
    <3> QED
      BY <1>2, <1>5, <2>2, <3>2
  <2> QED
    BY <2>1, <2>2
<1> QED
  BY <1>8, <1>9, <1>10, <1>11, <1>12, <1>13, <1>14 DEF BootInv

\* A hook is killed: what it has started is abandoned, what it writes is lost.
LEMMA KilledKept == ASSUME BootInv, NEW s \in Sessions, Killed(s) PROVE BootInv'
<1> USE DEF UserVars
<1>1. /\ sess[s].pc # "idle" /\ UNCHANGED <<proc, file, begun, hits, UserVars>>
      /\ sess[s] \in SessType /\ sess[s].host \in Hosts /\ HookSound(s) /\ sess \in [Sessions -> SessType]
  BY Hooking DEF Killed, At_, BootInv, BootTypeOK
<1>. PICK h \in Hosts, m \in Starts \cup {0} : h = sess[s].host /\ m = sess[s].mine
  BY <1>1 DEF SessType
<1>2. /\ sess'[s] = Idle /\ \A t \in Sessions : t # s => sess'[t] = sess[t]
      /\ lock' = [lock EXCEPT ![h] = IF lock[h] = s THEN "nobody" ELSE lock[h]]
      /\ orphaned' = IF m = 0 THEN orphaned ELSE orphaned \cup {m}
      /\ excused' = [excused EXCEPT ![h] = excused[h] \/ (sess[s].pc = "write" /\ wish[h] = "stop")]
  BY <1>1 DEF Killed, At_
<1>3. /\ Evolves
      /\ \A n : (Known(n)' <=> Known(n)) /\ (Live(n)' <=> Live(n)) /\ (Listening(n)' <=> Listening(n))
      /\ \A g, n : Good(g, n)' => Good(g, n) /\ Known(n)
  <2>1. \A n : (Known(n)' <=> Known(n)) /\ (Live(n)' <=> Live(n)) /\ (Listening(n)' <=> Listening(n))
    BY <1>1 DEF Known, Live, Listening
  <2>2. orphaned \subseteq orphaned' /\ hits' = hits
    BY <1>1, <1>2
  <2>3. \A g, n : Good(g, n)' => Good(g, n) /\ Known(n)
    <3>1. \A n : Told(n) => Told(n)'
      BY <2>2 DEF Told
    <3> QED
      BY <1>1, <2>1, <3>1 DEF Good, Live, Known
  <2> QED
    BY <1>1, <2>1, <2>2, <2>3 DEF Evolves
<1>4. excused' \in [Hosts -> BOOLEAN] /\ \A g \in Hosts : excused[g] => excused'[g]
  <2>1. excused \in [Hosts -> BOOLEAN]
    BY DEF BootInv, BootTypeOK
  <2> QED
    BY <1>2, <2>1
<1>5. BootTypeOK'
  <2>1. sess' \in [Sessions -> SessType]
    BY <1>1, IdleTyped DEF Killed
  <2>2. lock' \in [Hosts -> Sessions \cup {"nobody"}]
    BY <1>2 DEF BootInv, BootTypeOK
  <2>3. \A t \in Sessions : sess'[t].pc \notin {"idle", "lock"} => lock'[sess'[t].host] = t
    <3>1. ASSUME NEW t \in Sessions, sess'[t].pc \notin {"idle", "lock"} PROVE lock'[sess'[t].host] = t
      <4>1. t # s /\ sess'[t] = sess[t]
        BY <1>2, <3>1 DEF Idle
      <4>2. lock[sess[t].host] = t /\ sess[t].host \in Hosts
        BY <3>1, <4>1, Hooking DEF BootInv, BootTypeOK
      <4> QED
        BY <1>2, <4>1, <4>2 DEF BootInv, BootTypeOK
    <3> QED
      BY <3>1
  <2>4. orphaned' \subseteq Starts
    BY <1>1, <1>2 DEF SessType, BootInv, BootTypeOK
  <2> QED
    BY <1>1, <1>4, <2>1, <2>2, <2>3, <2>4 DEF BootInv, BootTypeOK
<1>6. ProcInv'
  BY <1>1 DEF BootInv, ProcInv, Known, Live, Listening
<1>7. \A g \in Hosts : RecordSound(g, file[g])'
  BY <1>1, <1>3, RecordStays DEF BootInv
<1>8. GoodInv'
  <2> SUFFICES ASSUME NEW n \in Starts, NEW g \in Hosts, Good(g, n)'
               PROVE  Listening(n)' \/ \E t \in Sessions : Mine(t)' /\ sess'[t].mine = n /\ sess'[t].host = g
    BY DEF GoodInv
  <2>1. Listening(n) \/ \E t \in Sessions : Mine(t) /\ sess[t].mine = n /\ sess[t].host = g
    BY <1>3 DEF BootInv, GoodInv
  <2>2. m # n
    BY <1>2, HookBasics DEF Good, Told
  <2> QED
    BY <1>2, <1>3, <2>1, <2>2 DEF Mine
<1>9. ASSUME NEW t \in Sessions PROVE HookSound(t)'
  <2>1. CASE t = s
    BY <1>2, <2>1 DEF HookSound, Idle, Retires, Replaces, Mine
  <2>2. CASE t # s
    <3>1. BootTypeOK /\ HookSound(t) /\ sess'[t] = sess[t]
      BY <1>2, <2>2 DEF BootInv
    <3>2. sess[t].pc # "idle" => sess[t].host \in Hosts
      BY <3>1 DEF HookSound
    <3> QED
      BY <1>1, <1>3, <1>4, <3>1, <3>2, HookStays
  <2> QED
    BY <2>1, <2>2
<1>10. StopIsOnRecord'
  <2> SUFFICES ASSUME NEW g \in Hosts, wish[g] = "stop", ~file[g].stopped, ~excused'[g]
               PROVE  \E t \in Sessions : sess'[t].host = g /\ sess'[t].pc = "write" /\ sess'[t].out.stopped
    BY <1>1 DEF StopIsOnRecord
  <2>1. PICK t \in Sessions : sess[t].host = g /\ sess[t].pc = "write" /\ sess[t].out.stopped
    BY <1>4 DEF BootInv, StopIsOnRecord
  <2>2. t # s
    BY <1>2, <2>1 DEF BootInv, BootTypeOK
  <2> QED
    BY <1>2, <2>1, <2>2
<1> QED
  BY <1>5, <1>6, <1>7, <1>8, <1>9, <1>10 DEF BootInv

\* A hook begins, or gets the lock.
LEMMA EntersKept ==
  ASSUME BootInv, NEW s \in Sessions, Acquire(s) \/ \E h \in Hosts : Begin(s, h) PROVE BootInv'
<1> USE DEF UserVars, Rest
<1>1. /\ UNCHANGED <<proc, file, excused, hits, orphaned, UserVars>> /\ sess[s].pc \in {"idle", "lock"}
      /\ sess \in [Sessions -> SessType]
  BY DEF Acquire, Begin, At_, BootInv, BootTypeOK
<1>2. /\ sess' \in [Sessions -> SessType] /\ \A t \in Sessions : t # s => sess'[t] = sess[t]
      /\ sess'[s].pc \in {"lock", "decide"} /\ sess'[s].host \in Hosts /\ sess'[s].v # 0
      /\ begun' \in 0 .. MaxSessions
  <2>1. CASE \E h \in Hosts : Begin(s, h)
    <3>. PICK h \in Hosts : Begin(s, h)
      BY <2>1
    <3> DEFINE x == [Idle EXCEPT !.pc = "lock", !.host = h, !.v = installed[h]]
    <3>0. begun < MaxSessions /\ begun' = begun + 1 /\ begun \in 0 .. MaxSessions
      BY DEF BootInv, BootTypeOK, Begin
    <3>1a. installed[h] \in Versions
      BY DEF BootInv, BootTypeOK
    <3>1b. begun' \in 0 .. MaxSessions
      BY <3>0, BoundsAssumption
    <3>1. installed[h] \in 0 .. MaxVersion /\ installed[h] # 0 /\ begun' \in 0 .. MaxSessions
      BY <3>1a, <3>1b, BoundsAssumption DEF Versions
    <3>2. x \in SessType /\ x.pc = "lock" /\ x.host = h /\ x.v = installed[h]
      BY <3>1, IdleTyped DEF SessType, Idle, Steps
    <3>3. sess' = [sess EXCEPT ![s] = x]
      BY DEF Begin
    <3> HIDE DEF x
    <3> QED
      BY <1>1, <3>1, <3>2, <3>3
  <2>2. CASE Acquire(s)
    <3>1. /\ sess' \in [Sessions -> SessType] /\ \A t \in Sessions : t # s => sess'[t] = sess[t]
          /\ sess'[s] = [sess[s] EXCEPT !.pc = "decide"]
      BY <2>2, GotoTyped DEF Steps, Acquire
    <3>2. sess[s].host \in Hosts /\ sess[s].v # 0 /\ sess[s] \in SessType
      BY <2>2, Hooking DEF Acquire, At_, HookSound
    <3>3. sess'[s].pc = "decide" /\ sess'[s].host = sess[s].host /\ sess'[s].v = sess[s].v
      BY <3>1, <3>2 DEF SessType
    <3>4. begun' = begun /\ begun \in 0 .. MaxSessions
      BY <2>2 DEF Acquire, BootInv, BootTypeOK
    <3> QED
      BY <3>1, <3>2, <3>3, <3>4
  <2> QED
    BY <2>1, <2>2
<1>3. /\ lock' \in [Hosts -> Sessions \cup {"nobody"}]
      /\ \A t \in Sessions : sess'[t].pc \notin {"idle", "lock"} => lock'[sess'[t].host] = t
  <2>1. CASE \E h \in Hosts : Begin(s, h)
    <3>1. lock' = lock /\ sess'[s].pc = "lock"
      <4>1. PICK h \in Hosts : Begin(s, h)
        BY <2>1
      <4>2. sess'[s] = [Idle EXCEPT !.pc = "lock", !.host = h, !.v = installed[h]] /\ lock' = lock
        BY <1>1, <4>1 DEF Begin
      <4> QED
        BY <4>2 DEF Idle
    <3> QED
      BY <1>2, <3>1 DEF BootInv, BootTypeOK
  <2>2. CASE Acquire(s)
    <3>1. /\ lock' = [lock EXCEPT ![sess[s].host] = s] /\ lock[sess[s].host] = "nobody"
          /\ sess'[s].host = sess[s].host /\ sess[s].host \in Hosts
      <4>1. sess'[s] = [sess[s] EXCEPT !.pc = "decide"] /\ sess[s] \in SessType /\ sess[s].host \in Hosts
        BY <2>2, GotoTyped, Hooking DEF Steps, Acquire, At_
      <4> QED
        BY <2>2, <4>1 DEF SessType, Acquire
    <3>2. \A t \in Sessions : t # s /\ sess[t].pc \notin {"idle", "lock"} => sess[t].host # sess[s].host
      BY <3>1, HookBasics DEF BootInv, BootTypeOK
    <3> QED
      BY <1>2, <3>1, <3>2 DEF BootInv, BootTypeOK
  <2> QED
    BY <2>1, <2>2
<1>4. BootTypeOK'
  BY <1>1, <1>2, <1>3 DEF BootInv, BootTypeOK
<1>5. /\ Evolves /\ ProcInv' /\ \A n \in Starts : \A g : Good(g, n)' => Known(n) /\ Good(g, n)
      /\ \A n \in Starts : Listening(n)' <=> Listening(n)
  BY <1>1, SameProcesses
<1>6. \A g \in Hosts : RecordSound(g, file[g])'
  BY <1>1, <1>5, RecordStays DEF BootInv
<1>7. GoodInv'
  <2> SUFFICES ASSUME NEW n \in Starts, NEW g \in Hosts, Good(g, n)'
               PROVE  Listening(n)' \/ \E t \in Sessions : Mine(t)' /\ sess'[t].mine = n /\ sess'[t].host = g
    BY DEF GoodInv
  <2>1. Listening(n) \/ \E t \in Sessions : Mine(t) /\ sess[t].mine = n /\ sess[t].host = g
    BY <1>5 DEF BootInv, GoodInv
  <2> QED
    BY <1>1, <1>2, <1>5, <2>1 DEF Mine
<1>8. ASSUME NEW t \in Sessions, t # s PROVE HookSound(t)'
  <2>1. BootTypeOK /\ HookSound(t) /\ sess'[t] = sess[t]
    BY <1>2, <1>8 DEF BootInv
  <2> QED
    BY <1>1, <1>5, <2>1, HookStays
<1>9. HookSound(s)'
  BY <1>2 DEF HookSound, Retires, Replaces, Mine
<1>10. StopIsOnRecord'
  <2> SUFFICES ASSUME NEW g \in Hosts, wish[g] = "stop", ~file[g].stopped, ~excused[g]
               PROVE  \E t \in Sessions : sess'[t].host = g /\ sess'[t].pc = "write" /\ sess'[t].out.stopped
    BY <1>1 DEF StopIsOnRecord
  <2>1. \E t \in Sessions : sess[t].host = g /\ sess[t].pc = "write" /\ sess[t].out.stopped
    BY DEF BootInv, StopIsOnRecord
  <2> QED
    BY <1>1, <1>2, <2>1
<1> QED
  BY <1>4, <1>5, <1>6, <1>7, <1>8, <1>9, <1>10 DEF BootInv

\* A step of the world around the hooks.
LEMMA WorldKept ==
  ASSUME BootInv, BootTypeOK', Evolves, ProcInv', StopIsOnRecord', UNCHANGED <<sess, lock>>,
         \A n \in Starts, g \in Hosts : Good(g, n)' => Good(g, n) /\ Known(n),
         \A n \in Starts : Listening(n) /\ Live(n)' => Listening(n)',
         \A g \in Hosts : /\ file'[g].mode = file[g].mode /\ file'[g].start = file[g].start
                          /\ file'[g].pid = file[g].pid /\ RecordSound(g, file[g])'
                          /\ lock[g] # "nobody" /\ wish'[g] = "stop" =>
                               excused'[g] \/ (wish[g] = "stop" /\ ~excused[g])
  PROVE  BootInv'
<1>1. GoodInv'
  <2> SUFFICES ASSUME NEW n \in Starts, NEW g \in Hosts, Good(g, n)'
               PROVE  Listening(n)' \/ \E t \in Sessions : Mine(t)' /\ sess'[t].mine = n /\ sess'[t].host = g
    BY DEF GoodInv
  <2>1. Listening(n) \/ \E t \in Sessions : Mine(t) /\ sess[t].mine = n /\ sess[t].host = g
    BY DEF BootInv, GoodInv
  <2>2. Live(n)'
    BY DEF Good
  <2> QED
    BY <2>1, <2>2 DEF Mine
<1>2. ASSUME NEW t \in Sessions PROVE HookSound(t)'
  <2>1. BootTypeOK /\ HookSound(t) /\ sess'[t] = sess[t]
    BY DEF BootInv
  <2>2. sess[t].pc \notin {"idle", "lock"} => sess[t].host \in Hosts /\ lock[sess[t].host] # "nobody"
    BY <2>1, HookBasics DEF BootTypeOK, HookSound
  <2> QED
    BY <2>1, <2>2, HookStays
<1> QED
  BY <1>1, <1>2 DEF BootInv

\* One process comes up or ends.
LEMMA OneProcess ==
  ASSUME BootInv, NEW n \in Starts, NEW x \in {"up", "dead"}, Live(n),
         proc' = [proc EXCEPT ![n].st = x], UNCHANGED <<orphaned, hits>>,
         x = "up" => ~\E m \in Starts : Listening(m)
  PROVE  /\ proc' \in [Starts -> ProcType] /\ Evolves /\ ProcInv'
         /\ \A m \in Starts : \A g : Good(g, m)' => Good(g, m) /\ Known(m)
         /\ \A m \in Starts : Listening(m) /\ Live(m)' => Listening(m)'
<1>1. /\ proc' \in [Starts -> ProcType] /\ \A m \in Starts : m # n => proc'[m] = proc[m]
      /\ proc'[n].st = x /\ proc'[n].owner = proc[n].owner /\ proc'[n].version = proc[n].version
      /\ proc'[n].url = proc[n].url /\ proc'[n].pid = proc[n].pid
  BY DEF BootInv, BootTypeOK, ProcType
<1>2. \A m \in Starts : /\ Known(m)' <=> Known(m)
                        /\ Live(m)' => Live(m)
                        /\ Listening(m)' => Listening(m) \/ (x = "up" /\ m = n)
                        /\ Listening(m) /\ Live(m)' => Listening(m)'
  BY <1>1 DEF Live, Known, Listening
<1>3. Evolves
  BY <1>1, <1>2 DEF Evolves, Live
<1>4. ProcInv'
  <2>1. \A y \in hits : Known(y.target)' /\ (proc'[y.target].owner = y.host \/ y.excuse)
    <3>1. ASSUME NEW y \in hits PROVE Known(y.target)' /\ (proc'[y.target].owner = y.host \/ y.excuse)
      <4>1. y.target \in Starts /\ Known(y.target) /\ (proc[y.target].owner = y.host \/ y.excuse)
        BY DEF BootInv, BootTypeOK, ProcInv
      <4> QED
        BY <1>3, <4>1 DEF Evolves
    <3> QED
      BY <3>1
  <2>2. \A m \in Starts : proc'[m].pid = proc[m].pid
    BY <1>1
  <2>3. \A l, m \in Starts : Listening(l)' /\ Listening(m)' => l = m
    BY <1>2 DEF BootInv, ProcInv
  <2>4. /\ \E k \in 0 .. MaxStarts : \A m \in Starts : Known(m)' <=> m <= k
        /\ \A m \in Starts : Live(m)' => proc'[m].pid \in Pids
        /\ \A l, m \in Starts : Live(l)' /\ Live(m)' /\ proc'[l].pid = proc'[m].pid => l = m
    BY <1>2, <2>2 DEF BootInv, ProcInv
  <2> QED
    BY <2>1, <2>3, <2>4 DEF ProcInv
<1>5. \A m \in Starts : \A g : Good(g, m)' => Good(g, m) /\ Known(m)
  <2>1. \A m \in Starts : Live(m)' => Known(m)
    BY <1>2 DEF Live, Known
  <2> QED
    BY <1>3, <2>1, GoodBefore DEF Good
<1> QED
  BY <1>1, <1>2, <1>3, <1>4, <1>5

\* Processes that come up, end or are started by others.
LEMMA ProcessesKept ==
  ASSUME BootInv,
         \/ \E n \in Starts : ComeUp(n) \/ Exit(n)
         \/ \E owner \in {"cli", "other"}, u \in Urls, p \in Pids : ForeignStart(owner, u, p)
  PROVE  BootInv'
<1> USE DEF UserVars, Rest
<1>1. /\ UNCHANGED <<file, lock, sess, wish, excused, hits, orphaned, config, installed, begun>>
      /\ changes' \in 0 .. MaxChanges
  <2>1. changes \in 0 .. MaxChanges /\ (changes' = changes \/ (changes < MaxChanges /\ changes' = changes + 1))
    BY DEF ComeUp, Exit, ForeignStart, BootInv, BootTypeOK
  <2>2. changes' \in 0 .. MaxChanges
    BY <2>1, HookBasics
  <2> QED
    BY <2>2 DEF ComeUp, Exit, ForeignStart
<1>2. /\ proc' \in [Starts -> ProcType] /\ Evolves /\ ProcInv'
      /\ \A m \in Starts, g \in Hosts : Good(g, m)' => Good(g, m) /\ Known(m)
      /\ \A m \in Starts : Listening(m) /\ Live(m)' => Listening(m)'
  <2>1. CASE \E n \in Starts : ComeUp(n) \/ Exit(n)
    <3>1. PICK n \in Starts, x \in {"up", "dead"} :
            /\ proc' = [proc EXCEPT ![n].st = x] /\ Live(n)
            /\ x = "up" => ~\E m \in Starts : Listening(m)
      BY <2>1 DEF ComeUp, Exit, Live
    <3> QED
      BY <1>1, <3>1, OneProcess
  <2>2. CASE \E owner \in {"cli", "other"}, u \in Urls, p \in Pids : ForeignStart(owner, u, p)
    <3>1. PICK o \in {"cli", "other"}, u \in Urls, p \in Pids :
            /\ NextStart \in Starts /\ ~PidTaken(p)
            /\ proc' = [proc EXCEPT ![NextStart] = Proc("starting", o, 1, u, p)]
      BY <2>2 DEF ForeignStart
    <3>2. 1 \in 0 .. MaxVersion /\ o \in Hosts \cup {"cli", "other"} /\ o \notin Hosts
      BY HookBasics
    <3>3. /\ proc' \in [Starts -> ProcType] /\ Evolves /\ ProcInv'
          /\ ~Known(NextStart) /\ \A m \in Starts : m # NextStart => proc'[m] = proc[m]
          /\ \A m \in Starts : \A g : Good(g, m)' => (Good(g, m) /\ Known(m)) \/ (m = NextStart /\ g = o)
      BY <1>1, <3>1, <3>2, StartKept
    <3>4. \A m \in Starts : Listening(m) => Listening(m)'
      BY <3>3 DEF Listening, Known
    <3> QED
      BY <3>2, <3>3, <3>4
  <2> QED
    BY <2>1, <2>2
<1>3. BootTypeOK'
  BY <1>1, <1>2 DEF BootInv, BootTypeOK
<1>4. StopIsOnRecord'
  BY <1>1 DEF BootInv, StopIsOnRecord
<1>5. \A g \in Hosts : RecordSound(g, file[g])'
  BY <1>1, <1>2, RecordStays DEF BootInv
<1> QED
  BY <1>1, <1>2, <1>3, <1>4, <1>5, WorldKept

\* The user updates or configures a plugin, or takes a stop off the record.
LEMMA SettingsKept ==
  ASSUME BootInv, NEW h \in Hosts,
         Update(h) \/ Restart(h) \/ \E policy \in {"plugin-local", "disabled", "custom"} : Configure(h, policy)
  PROVE  BootInv'
<1>1. /\ UNCHANGED <<proc, orphaned, hits, lock, sess, excused, begun>>
      /\ changes' \in 0 .. MaxChanges
  <2>1. changes \in 0 .. MaxChanges /\ changes < MaxChanges /\ changes' = changes + 1
    BY DEF Update, Restart, Configure, BootInv, BootTypeOK
  <2>2. changes' \in 0 .. MaxChanges
    BY <2>1, HookBasics
  <2> QED
    BY <2>2 DEF Update, Restart, Configure
<1>2. /\ Evolves /\ ProcInv' /\ \A n \in Starts : \A g : Good(g, n)' => Good(g, n) /\ Known(n)
      /\ \A n \in Starts : Listening(n)' <=> Listening(n)
  BY <1>1, SameProcesses
<1>3. /\ config' \in [Hosts -> {"plugin-local", "disabled", "custom"}]
      /\ wish' \in [Hosts -> {"run", "stop"}]
      /\ \A g \in Hosts : wish'[g] = "stop" => wish[g] = "stop" /\ file'[g] = file[g]
  <2>1. CASE Restart(h)
    BY <2>1 DEF Restart, BootInv, BootTypeOK
  <2>2. CASE Update(h)
    BY <2>2 DEF Update, BootInv, BootTypeOK
  <2>3. CASE \E policy \in {"plugin-local", "disabled", "custom"} : Configure(h, policy)
    BY <2>3 DEF Configure, BootInv, BootTypeOK
  <2> QED
    BY <2>1, <2>2, <2>3
<1>4. installed' \in [Hosts -> Versions]
  <2>1. CASE Update(h)
    <3>1. installed[h] \in Versions /\ installed[h] < MaxVersion /\ installed \in [Hosts -> Versions]
      BY <2>1 DEF Update, BootInv, BootTypeOK
    <3>2. installed[h] + 1 \in Versions
      BY <3>1, HookBasics DEF Versions
    <3> QED
      BY <2>1, <3>1, <3>2 DEF Update
  <2>2. CASE ~Update(h)
    BY <2>2 DEF Restart, Configure, BootInv, BootTypeOK
  <2> QED
    BY <2>1, <2>2
<1>5. /\ file' \in [Hosts -> RecordType]
      /\ \A g \in Hosts : /\ file'[g].mode = file[g].mode /\ file'[g].start = file[g].start
                          /\ file'[g].pid = file[g].pid /\ file'[g].version = file[g].version
                          /\ file'[g].stopped => file[g].stopped
  <2>1. CASE Restart(h)
    <3> DEFINE r == [file[h] EXCEPT !.stopped = FALSE]
    <3>1. file[h] \in RecordType /\ file \in [Hosts -> RecordType]
      BY DEF BootInv, BootTypeOK
    <3>2. /\ r \in RecordType /\ r.mode = file[h].mode /\ r.start = file[h].start /\ r.pid = file[h].pid
          /\ r.version = file[h].version /\ ~r.stopped
      BY <3>1 DEF RecordType
    <3>3. file' = [file EXCEPT ![h] = r]
      BY <2>1 DEF Restart
    <3> HIDE DEF r
    <3> QED
      BY <3>1, <3>2, <3>3
  <2>2. CASE file' = file
    BY <2>2 DEF BootInv, BootTypeOK
  <2> QED
    BY <2>1, <2>2 DEF Update, Configure
<1>6. BootTypeOK'
  BY <1>1, <1>3, <1>4, <1>5 DEF BootInv, BootTypeOK
<1>7. ASSUME NEW g \in Hosts PROVE RecordSound(g, file[g])'
  <2>1. PICK r : r = file'[g]
    OBVIOUS
  <2>2. RecordSound(g, r)
    <3>1. RecordSound(g, file[g])
      BY DEF BootInv
    <3> QED
      BY <1>5, <2>1, <3>1 DEF RecordSound
  <2>3. RecordSound(g, r)'
    BY <1>2, <2>2, RecordStays
  <2> QED
    BY <2>1, <2>3 DEF RecordSound
<1>8. StopIsOnRecord'
  BY <1>1, <1>3 DEF BootInv, StopIsOnRecord
<1>9. \A g \in Hosts : lock[g] # "nobody" /\ wish'[g] = "stop" => excused'[g] \/ (wish[g] = "stop" /\ ~excused[g])
  BY <1>1, <1>3
<1> QED
  BY <1>1, <1>2, <1>5, <1>6, <1>7, <1>8, <1>9, WorldKept

\* The user stops the managed observer: it ends, and the record says so.
LEMMA StopKept == ASSUME BootInv, NEW h \in Hosts, Stop(h) PROVE BootInv'
<1>1. /\ UNCHANGED <<orphaned, hits, lock, sess, config, installed, begun>> /\ changes' \in 0 .. MaxChanges
      /\ wish' = [wish EXCEPT ![h] = "stop"] /\ file[h].mode = "managed"
  <2>1. changes \in 0 .. MaxChanges /\ changes < MaxChanges /\ changes' = changes + 1
    BY DEF Stop, BootInv, BootTypeOK
  <2>2. changes' \in 0 .. MaxChanges
    BY <2>1, HookBasics
  <2> QED
    BY <2>2 DEF Stop
<1>. PICK e : e = file[h].start
  OBVIOUS
<1>2. /\ proc' \in [Starts -> ProcType]
      /\ \A m \in Starts : m # e \/ ~Live(m) \/ proc[m].owner # h => proc'[m] = proc[m]
      /\ \A m \in Starts : /\ proc'[m].owner = proc[m].owner /\ proc'[m].version = proc[m].version
                          /\ proc'[m].url = proc[m].url /\ proc'[m].pid = proc[m].pid
      /\ \A m \in Starts : m = e /\ Live(m) /\ proc[m].owner = h => proc'[m].st = "dead"
  <2>1. proc' = [n \in Starts |-> IF n = e /\ Live(n) /\ proc[n].owner = h
                                  THEN [proc[n] EXCEPT !.st = "dead"] ELSE proc[n]]
    BY DEF Stop
  <2>2. proc \in [Starts -> ProcType]
    BY DEF BootInv, BootTypeOK
  <2>3. \A m \in Starts : /\ [proc[m] EXCEPT !.st = "dead"] \in ProcType
                          /\ [proc[m] EXCEPT !.st = "dead"].st = "dead"
                          /\ [proc[m] EXCEPT !.st = "dead"].owner = proc[m].owner
                          /\ [proc[m] EXCEPT !.st = "dead"].version = proc[m].version
                          /\ [proc[m] EXCEPT !.st = "dead"].url = proc[m].url
                          /\ [proc[m] EXCEPT !.st = "dead"].pid = proc[m].pid
    BY <2>2 DEF ProcType
  <2> QED
    BY <2>1, <2>2, <2>3
<1>3. \A m \in Starts : /\ Known(m)' <=> Known(m)
                        /\ Live(m)' => Live(m) /\ ~(m = e /\ proc[m].owner = h) /\ proc'[m] = proc[m]
                        /\ Listening(m)' => Listening(m)
                        /\ Listening(m) /\ Live(m)' => Listening(m)'
  BY <1>2 DEF Live, Known, Listening
<1>4. Evolves
  <2>1. \A m \in Starts : proc[m].st \in {"up", "ending", "dead"} => proc'[m].st \in {"up", "ending", "dead"}
    BY <1>2
  <2> QED
    BY <1>1, <1>2, <1>3, <2>1 DEF Evolves
<1>5. ProcInv'
  <2>1. \A y \in hits : Known(y.target)' /\ (proc'[y.target].owner = y.host \/ y.excuse)
    <3>1. ASSUME NEW y \in hits PROVE Known(y.target)' /\ (proc'[y.target].owner = y.host \/ y.excuse)
      <4>1. y.target \in Starts /\ Known(y.target) /\ (proc[y.target].owner = y.host \/ y.excuse)
        BY DEF BootInv, BootTypeOK, ProcInv
      <4> QED
        BY <1>4, <4>1 DEF Evolves
    <3> QED
      BY <3>1
  <2>2. /\ \E k \in 0 .. MaxStarts : \A m \in Starts : Known(m)' <=> m <= k
        /\ \A m \in Starts : Live(m)' => proc'[m].pid \in Pids
        /\ \A l, m \in Starts : Listening(l)' /\ Listening(m)' => l = m
        /\ \A l, m \in Starts : Live(l)' /\ Live(m)' /\ proc'[l].pid = proc'[m].pid => l = m
    BY <1>2, <1>3 DEF BootInv, ProcInv
  <2> QED
    BY <1>1, <2>1, <2>2 DEF ProcInv
<1>6. \A m \in Starts : \A g : Good(g, m)' => Good(g, m) /\ Known(m)
  <2>1. \A m \in Starts : Live(m)' => Known(m)
    BY <1>3 DEF Live, Known
  <2> QED
    BY <1>4, <2>1, GoodBefore DEF Good
<1>7. /\ file' \in [Hosts -> RecordType]
      /\ \A g \in Hosts : /\ file'[g].mode = file[g].mode /\ file'[g].start = file[g].start
                          /\ file'[g].pid = file[g].pid /\ file'[g].version = file[g].version
      /\ \A g \in Hosts : g # h => file'[g] = file[g]
      /\ file'[h].stopped
  <2> DEFINE r == [file[h] EXCEPT !.stopped = TRUE]
  <2>1. file[h] \in RecordType /\ file \in [Hosts -> RecordType]
    BY DEF BootInv, BootTypeOK
  <2>2. /\ r \in RecordType /\ r.mode = file[h].mode /\ r.start = file[h].start /\ r.pid = file[h].pid
        /\ r.version = file[h].version /\ r.stopped
    BY <2>1 DEF RecordType
  <2>3. file' = [file EXCEPT ![h] = r]
    BY DEF Stop
  <2> HIDE DEF r
  <2> QED
    BY <2>1, <2>2, <2>3
<1>8. /\ excused' \in [Hosts -> BOOLEAN] /\ \A g \in Hosts : g # h => excused'[g] = excused[g]
      /\ lock[h] # "nobody" => excused'[h]
  <2>1. excused' = [excused EXCEPT ![h] = lock[h] # "nobody"]
    BY DEF Stop
  <2> QED
    BY <2>1 DEF BootInv, BootTypeOK
<1>9. BootTypeOK'
  BY <1>1, <1>2, <1>7, <1>8 DEF BootInv, BootTypeOK
<1>10. ASSUME NEW g \in Hosts PROVE RecordSound(g, file[g])'
  <2>1. CASE g # h
    BY <1>4, <1>7, <2>1, RecordStays DEF BootInv, RecordSound
  <2>2. CASE g = h
    <3>1. e \in Starts /\ Known(e) /\ (Live(e) => Told(e) \/ proc[e].owner = h)
      BY <1>1 DEF BootInv, RecordSound
    <3>2. Live(e)' => Told(e)'
      BY <1>3, <1>4, <3>1, ToldStays
    <3> QED
      BY <1>3, <1>7, <2>2, <3>1, <3>2 DEF RecordSound
  <2> QED
    BY <2>1, <2>2
<1>11. StopIsOnRecord'
  BY <1>1, <1>7, <1>8 DEF BootInv, StopIsOnRecord, BootTypeOK
<1>12. \A g \in Hosts : lock[g] # "nobody" /\ wish'[g] = "stop" => excused'[g] \/ (wish[g] = "stop" /\ ~excused[g])
  <2>1. \A g \in Hosts : g # h => wish'[g] = wish[g]
    BY <1>1
  <2> QED
    BY <1>8, <2>1
<1> QED
  BY <1>1, <1>3, <1>4, <1>5, <1>6, <1>7, <1>9, <1>10, <1>11, <1>12, WorldKept

LEMMA BootInit == Init => BootInv
<1> SUFFICES ASSUME Init PROVE BootInv
  OBVIOUS
<1>1. /\ \A n \in Starts : proc[n] = NoProc /\ proc[n].st = "never"
      /\ \A h \in Hosts : file[h] = Absent /\ wish[h] = "run"
      /\ \A s \in Sessions : sess[s] = Idle /\ sess[s].pc = "idle"
      /\ hits = {} /\ orphaned = {} /\ begun = 0 /\ changes = 0
  BY DEF Init, NoProc, Idle
<1>2. BootTypeOK
  <2>1. NoProc \in ProcType /\ 1 \in Versions /\ 0 \in 0 .. MaxSessions /\ 0 \in 0 .. MaxChanges
    BY HookBasics DEF NoProc, ProcType, Urls, Versions
  <2> QED
    BY <1>1, <2>1, IdleTyped DEF Init, BootTypeOK
<1>3. ProcInv /\ GoodInv
  <2>1. \A n \in Starts : ~Known(n) /\ ~Live(n) /\ ~Listening(n)
    BY <1>1 DEF Known, Live, Listening
  <2>2. 0 \in 0 .. MaxStarts /\ \A n \in Starts : ~(n <= 0)
    BY HookBasics
  <2> QED
    BY <1>1, <2>1, <2>2 DEF ProcInv, GoodInv, Good
<1>4. \A h \in Hosts : RecordSound(h, file[h])
  <2>1. Absent.mode # "managed"
    BY DEF Absent
  <2> QED
    BY <1>1, <2>1 DEF RecordSound
<1>5. \A s \in Sessions : HookSound(s)
  BY <1>1 DEF HookSound, Retires, Replaces, Mine
<1>6. StopIsOnRecord
  BY <1>1 DEF StopIsOnRecord
<1> QED
  BY <1>2, <1>3, <1>4, <1>5, <1>6 DEF BootInv

LEMMA BootKept == BootInv /\ [Next]_vars => BootInv'
<1> SUFFICES ASSUME BootInv, [Next]_vars PROVE BootInv'
  OBVIOUS
<1>1. CASE UNCHANGED vars
  <2>1. Evolves /\ ProcInv' /\ \A n \in Starts : \A g : Good(g, n)' => Good(g, n) /\ Known(n)
    BY <1>1, SameProcesses DEF vars
  <2>2. BootTypeOK' /\ StopIsOnRecord' /\ \A n \in Starts : Listening(n) => Listening(n)'
    BY <1>1 DEF vars, BootInv, BootTypeOK, StopIsOnRecord, Listening
  <2>3. \A g \in Hosts : RecordSound(g, file[g])'
    BY <1>1, <2>1, RecordStays DEF vars, BootInv
  <2> QED
    BY <1>1, <2>1, <2>2, <2>3, WorldKept DEF vars
<1>2. ASSUME NEW s \in Sessions, NEW h \in Hosts, Begin(s, h) PROVE BootInv'
  BY <1>2, EntersKept
<1>3. ASSUME NEW s \in Sessions, Hook(s) PROVE BootInv'
  <2>1. CASE Acquire(s)
    BY <2>1, EntersKept
  <2>2. CASE Decide(s)
    BY <2>2, DecideKept
  <2>3. CASE Check(s) \/ CheckPid(s) \/ Resolve(s) \/ Vacant(s)
    BY <2>3, ChecksKept
  <2>4. CASE Prior(s) \/ PriorPid(s)
    BY <2>4, PriorKept, PriorPidKept
  <2>5. CASE Retire(s) \/ RetireKill(s) \/ Replace(s) \/ ReplaceKill(s)
    BY <2>5, SignalsKept
  <2>6. CASE RetireWait(s) \/ ReplaceWait(s)
    BY <2>6, WaitsKept
  <2>7. CASE LiveHealth(s) \/ LivePid(s)
    BY <2>7, LiveHealthKept, LivePidKept
  <2>8. CASE Spawn(s) \/ Verify(s) \/ Ensure(s)
    BY <2>8, SpawnKept, VerifyKept, EnsureKept
  <2>9. CASE Truncate(s) \/ Write(s)
    BY <2>9, WritingKept
  <2> QED
    BY <1>3, <2>1, <2>2, <2>3, <2>4, <2>5, <2>6, <2>7, <2>8, <2>9 DEF Hook
<1>4. ASSUME NEW s \in Sessions, Killed(s) PROVE BootInv'
  BY <1>4, KilledKept
<1>5. CASE World
  BY <1>5, ProcessesKept, SettingsKept, StopKept DEF World
<1> QED
  BY <1>1, <1>2, <1>3, <1>4, <1>5 DEF Next

LEMMA BootAlways == Spec => []BootInv
<1>1. Init /\ [][Next]_vars => []BootInv
  BY BootInit, BootKept, PTL
<1> QED
  BY <1>1, PTL DEF Spec

\* No hook signals a process that is not its host's: terminate_managed_process
\* gets the pid of an observer that bootstrap_state_proves_managed_owner has just
\* recognised, and while that one lives nobody else has its pid.
THEOREM SignalsAreOwn == Spec => []SignalsOnlyOwn
<1>1. BootInv => SignalsOnlyOwn
  BY DEF BootInv, ProcInv, SignalsOnlyOwn
<1> QED
  BY <1>1, BootAlways, PTL

\* The state file is right about the observer it names, and says that it is
\* stopped when the user has stopped it, whatever hooks of both hosts, other
\* programs and the user do between the reads and the writes of bootstrap_locked.
THEOREM RecordsStayTrue == Spec => []RecordsAreTrue
<1>1. BootInv => RecordsAreTrue
  <2> SUFFICES ASSUME BootInv PROVE ManagedRecordIsTrue
    BY DEF BootInv, RecordsAreTrue
  <2>1. \A h \in Hosts : RecordSound(h, file[h])
    BY DEF BootInv
  <2> QED
    BY <2>1 DEF RecordSound, ManagedRecordIsTrue, Told, Mixed
<1> QED
  BY <1>1, BootAlways, PTL

-----------------------------------------------------------------------------
(* What the hook reads *)

\* Every set of numbers has a least one.
LEMMA LeastNumber ==
  ASSUME NEW T, T \subseteq Nat, T /= {}
  PROVE  \E m \in T : \A k \in T : m <= k
<1> DEFINE less == OpToRel(<, Nat)
<1>1. IsWellFoundedOn(less, Nat) BY NatLessThanWellFounded
<1>2. \A j, k \in Nat : j < k => <<j, k>> \in less BY DEF OpToRel
<1> HIDE DEF less
<1>3. PICK m \in T : \A k \in T : <<k, m>> \notin less BY <1>1, WFMin
<1>4. \A k \in T : ~(k < m) BY <1>2, <1>3
<1>5. \A k \in T : m <= k BY <1>4
<1> QED BY <1>3, <1>5

\* A table written the plain way is read alike by both readers.
LEMMA PlainTablesReadAlike ==
  ASSUME NEW toml \in ConfigDocs
  PROVE  IgnoresBrokenLines(toml)
<1> SUFFICES ASSUME toml.table = "header", toml.plain
             PROVE  McpPolicy("codex", toml) = McpPolicy("codex", [toml EXCEPT !.parses = ~@])
  BY DEF IgnoresBrokenLines
<1> DEFINE other == [toml EXCEPT !.parses = ~@]
<1>1. /\ other.table = toml.table /\ other.plain = toml.plain /\ other.enabled = toml.enabled
      /\ other.url = toml.url /\ other.command = toml.command /\ other.readable = toml.readable
      /\ other.managedBlock = toml.managedBlock
  BY DEF ConfigDocs
<1> HIDE DEF other
<1>2. CodexServer(toml) = Server(toml) BY DEF CodexServer, FallbackServer
<1>3. CodexServer(other) = Server(other) BY <1>1 DEF CodexServer, FallbackServer
<1>4. Server(other) = Server(toml) BY <1>1 DEF Server
<1>5. McpPolicy("codex", toml) = McpPolicy("codex", other) BY <1>1, <1>2, <1>3, <1>4 DEF McpPolicy
<1> QED BY <1>5 DEF other

\* The release checks look at every entry that the hook may look at.
LEMMA ReleasedManifestsAreUsable ==
  ASSUME NEW manifest \in ManifestDocs, NEW version \in {"1.0.0", "2.0.0"}
  PROVE  ReleasedIsUsable(manifest, version)
<1> SUFFICES ASSUME ReleaseAccepts(manifest, version), NEW pl \in Platforms,
                    ReleaseArtifact(pl[1], pl[2]) /= "unsupported"
             PROVE  HookAccepts(manifest, ReleaseArtifact(pl[1], pl[2]), version)
  BY DEF ReleasedIsUsable
<1>1. ReleaseArtifact(pl[1], pl[2]) \in Suffixes \cup {"unsupported"} BY DEF ReleaseArtifact, Suffixes
<1> QED BY <1>1 DEF ReleaseAccepts, ManifestAccepts, HookAccepts, WellFormedVersion

\* A prefix of a path is no longer than the path, and the path if it is as long.
LEMMA PrefixLength ==
  ASSUME NEW path \in Seq(STRING)
  PROVE  /\ path \in Prefixes(path)
         /\ \A p \in Prefixes(path) : /\ Len(p) \in Nat /\ Len(p) <= Len(path)
                                      /\ Len(p) = Len(path) => p = path
<1>1. SubSeq(path, 1, Len(path)) = path BY SubSeqFull
<1>2. Len(path) \in Nat BY LenProperties
<1>3. ASSUME NEW n \in 0 .. Len(path) PROVE Len(SubSeq(path, 1, n)) = n
  <2>1. \A k \in 1 .. n : path[k] \in STRING BY <1>2, ElementOfSeq
  <2>2. Len(SubSeq(path, 1, n)) = IF 1 <= n THEN n - 1 + 1 ELSE 0 BY <1>2, <2>1, SubSeqProperties
  <2> QED BY <1>2, <2>2
<1>4. \A p \in Prefixes(path) : \E n \in 0 .. Len(path) : p = SubSeq(path, 1, n) BY DEF Prefixes
<1>5. path \in Prefixes(path)
  <2>1. Len(path) \in 0 .. Len(path) BY <1>2
  <2>2. SubSeq(path, 1, Len(path)) \in Prefixes(path) BY <2>1 DEF Prefixes
  <2> QED BY <1>1, <2>2
<1> QED BY <1>1, <1>2, <1>3, <1>4, <1>5

\* The directory with a .git entry that is nearest to one with such an entry is
\* that directory itself.
LEMMA NearestToItself ==
  ASSUME NEW fs, FileSystem(fs), NEW r \in DOMAIN fs, fs[r].git /= "no"
  PROVE  Nearest(fs, r) = {r}
<1> DEFINE marked == {p \in Prefixes(r) : fs[p].git /= "no"}
           chosen == CHOOSE p \in marked : \A q \in marked : Len(q) <= Len(p)
<1>1. r \in Seq(STRING) BY DEF FileSystem
<1>2. r \in marked /\ \A q \in marked : Len(q) \in Nat /\ Len(q) <= Len(r) /\ (Len(q) = Len(r) => q = r)
  BY <1>1, PrefixLength
<1>3. chosen \in marked /\ \A q \in marked : Len(q) <= Len(chosen) BY <1>2
<1>4. chosen = r
  <2> HIDE DEF chosen, marked
  <2> QED BY <1>2, <1>3
<1>5. Nearest(fs, r) = {chosen} BY <1>2 DEF Nearest
<1> QED BY <1>4, <1>5

\* Of the directories with a .git entry on the way to a path, one is nearest.
LEMMA NearestIsOnTheWay ==
  ASSUME NEW fs, NEW path \in Seq(STRING), NEW p \in Nearest(fs, path)
  PROVE  p \in Prefixes(path)
<1> DEFINE marked == {q \in Prefixes(path) : fs[q].git /= "no"}
           above  == {Len(path) - Len(q) : q \in marked}
<1>1. \A q \in marked : Len(q) \in Nat /\ Len(q) <= Len(path) BY PrefixLength
<1>2. Len(path) \in Nat BY LenProperties
<1>3. marked /= {} BY DEF Nearest
<1>4. above \subseteq Nat /\ above /= {}
  <2> HIDE DEF marked
  <2> QED BY <1>1, <1>2, <1>3
<1>5. PICK m \in above : \A k \in above : m <= k BY <1>4, LeastNumber
<1>6. PICK c \in marked : m = Len(path) - Len(c) BY <1>5
<1>7. \A q \in marked : Len(path) - Len(c) <= Len(path) - Len(q) BY <1>5, <1>6
<1>8. \A q \in marked : Len(q) <= Len(c)
  <2> HIDE DEF marked, above
  <2> QED BY <1>1, <1>2, <1>7
<1>9. p = CHOOSE q \in marked : \A o \in marked : Len(o) <= Len(q) BY DEF Nearest
<1>10. p \in marked
  <2> HIDE DEF marked, above
  <2> QED BY <1>8, <1>9
<1> QED BY <1>10

LEMMA NearestIsOne ==
  ASSUME NEW fs, NEW path, NEW p \in Nearest(fs, path)
  PROVE  Nearest(fs, path) = {p}
BY DEF Nearest

LEMMA WorktreesShareTheirRepository ==
  ASSUME NEW fs, FileSystem(fs), NEW cwd \in DOMAIN fs
  PROVE  SameRepository(fs, cwd)
<1> SUFFICES ASSUME NEW p \in Nearest(fs, cwd), fs[p].git = "file", fs[p].target /= NoTarget,
                    fs[fs[p].target].git = "dir"
             PROVE  Identity(fs, cwd).repository = Identity(fs, fs[p].target).repository
  BY DEF SameRepository
<1> DEFINE r == fs[p].target
<1>1. Nearest(fs, cwd) = {p} BY NearestIsOne
<1>2. Identity(fs, cwd).repository = CanonicalRepository(fs, p) BY <1>1 DEF Identity
<1>3. p \in DOMAIN fs
  <2>1. cwd \in Seq(STRING) BY DEF FileSystem
  <2>2. p \in Prefixes(cwd) BY <2>1, NearestIsOnTheWay
  <2> QED BY <2>2 DEF FileSystem
<1>4. r \in DOMAIN fs BY <1>3 DEF FileSystem
<1>5. Nearest(fs, r) = {r} BY <1>4, NearestToItself
<1>6. Identity(fs, r).repository = CanonicalRepository(fs, r) BY <1>5 DEF Identity
<1> QED BY <1>2, <1>6 DEF CanonicalRepository

RulesInv == consulted \in HookDocs \cup {NoDoc}

LEMMA RulesKept == RulesInv /\ [ReadDoc]_consulted => RulesInv'
BY DEF RulesInv, ReadDoc

LEMMA RulesFollow == RulesInv => HookRules
<1> SUFFICES ASSUME RulesInv PROVE HookRules OBVIOUS
<1>1. CASE consulted = NoDoc BY <1>1 DEF NoDoc, HookRules
<1>2. CASE consulted \in [kind: {"policy"}, config: ConfigDocs] BY <1>2, PlainTablesReadAlike DEF HookRules
<1>3. CASE consulted \in [kind: {"manifest"}, manifest: ManifestDocs, version: {"1.0.0", "2.0.0"}]
  BY <1>3, ReleasedManifestsAreUsable DEF HookRules
<1>4. ASSUME NEW fs \in FileSystems, consulted \in [kind: {"identity"}, fs: {fs}, cwd: DOMAIN fs] PROVE HookRules
  <2>1. FileSystem(fs) BY FileSystemsAssumption
  <2>2. consulted.kind = "identity" /\ consulted.fs = fs /\ consulted.cwd \in DOMAIN fs BY <1>4
  <2> QED BY <2>1, <2>2, WorktreesShareTheirRepository DEF HookRules
<1> QED BY <1>1, <1>2, <1>3, <1>4 DEF RulesInv, HookDocs

\* Whatever the hook reads decides as its author meant it: a line that TOML
\* cannot read changes nothing about a table written the plain way, a manifest
\* that a release accepts gives a runtime on every platform that has one, and a
\* session in a worktree belongs to the repository of the worktree, in every
\* file system (read_codex_obstudio_server_fallback, load_runtime_manifest,
\* canonical_repository_path).
THEOREM ReadAsMeant == RulesSpec => []HookRules
<1>1. consulted = NoDoc => RulesInv BY DEF RulesInv
<1> QED BY <1>1, RulesKept, RulesFollow, PTL DEF RulesSpec
=============================================================================
