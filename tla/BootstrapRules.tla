--------------------------- MODULE BootstrapRules ---------------------------
(***************************************************************************)
(* What the SessionStart hook makes of the documents and directories it    *)
(* reads: the Codex configuration, the runtime manifest of the plugin, the *)
(* archive of a release, the repository of a session and the configuration *)
(* of its correlation event.  Texts are records of what the hook tells     *)
(* apart in them; a path is the sequence of its names.                     *)
(***************************************************************************)
EXTENDS Integers, Sequences, FiniteSets

CONSTANT FileSystems  \* the file systems that a session may be started in

VARIABLE consulted  \* what the hook looks at

----------------------------------------------------------------------------
\* The MCP server in config.toml.  A value may be followed by a comment or be
\* written in the other quotes, which only the TOML parser understands.

Unset == "unset"
ConfigDocs ==
  [readable: BOOLEAN, parses: BOOLEAN, table: {"none", "header", "inline"}, plain: BOOLEAN,
   enabled: {"unset", "true", "false"}, url: {"unset", "blank", "plugin", "pluginroot", "elsewhere"},
   command: BOOLEAN, managedBlock: BOOLEAN]

NoServer == [found |-> FALSE, enabled |-> Unset, url |-> Unset, command |-> FALSE]
Server(doc) == [found |-> TRUE, enabled |-> doc.enabled, url |-> doc.url, command |-> doc.command]

\* Mutation: the line patterns miss the switch.
FallbackForgetsSwitch(doc) ==
  IF doc.table /= "header" THEN NoServer ELSE [Server(doc) EXCEPT !.enabled = Unset]

\* read_codex_obstudio_server_fallback: line patterns on the table's own text.
FallbackServer(doc) ==
  IF doc.table /= "header" THEN NoServer
  ELSE IF doc.plain THEN Server(doc)
  ELSE [Server(doc) EXCEPT !.enabled = Unset, !.url = Unset, !.command = FALSE]

CodexServer(doc) ==
  IF ~doc.parses THEN FallbackServer(doc)
  ELSE IF doc.table = "none" THEN NoServer ELSE Server(doc)

\* normalize_mcp_url: an endpoint without a path has the path /mcp.
SameEndpoint(url) == url \in {"plugin", "pluginroot"}

McpPolicy(host, doc) ==
  IF host /= "codex" \/ ~doc.readable THEN "plugin-local"
  ELSE LET server == CodexServer(doc)
       IN IF ~server.found THEN "plugin-local"
          ELSE IF server.enabled = "false" THEN "disabled"
          ELSE IF server.url \notin {Unset, "blank"}
               THEN IF SameEndpoint(server.url) THEN "plugin-local" ELSE "custom"
          ELSE IF server.command /\ ~doc.managedBlock THEN "custom" ELSE "plugin-local"

\* A line elsewhere in config.toml that TOML cannot read does not change what
\* the hook does about the MCP server (read_codex_obstudio_server_fallback), if
\* its table is written the plain way.
IgnoresBrokenLines(config) ==
  config.table = "header" /\ config.plain =>
    McpPolicy("codex", config) = McpPolicy("codex", [config EXCEPT !.parses = ~@])

----------------------------------------------------------------------------
\* The runtime manifest, as the hook reads it and as the release checks do.

Suffixes == {"darwin_amd64.zip", "darwin_arm64.zip", "linux_amd64.zip", "windows_amd64.zip"}

\* resolve_release_artifact; machine names come in two spellings.
ReleaseArtifact(system, machine) ==
  LET arm == machine \in {"arm64", "aarch64"}
      x86 == machine \in {"x86_64", "amd64"}
  IN IF system = "Darwin" /\ arm THEN "darwin_arm64.zip"
     ELSE IF system = "Darwin" /\ x86 THEN "darwin_amd64.zip"
     ELSE IF system = "Linux" /\ x86 THEN "linux_amd64.zip"
     ELSE IF system = "Windows" /\ x86 THEN "windows_amd64.zip"
     ELSE "unsupported"

Platforms == {"Darwin", "Linux", "Windows", "FreeBSD"} \X {"arm64", "aarch64", "x86_64", "amd64", "i386"}

\* An entry is good, names another artifact, has a malformed hash, or is absent.
ManifestDocs ==
  [schema: {1, 2}, version: {"", "1.0.0", "2.0.0", "v1"},
   artifacts: [Suffixes -> {"good", "othername", "badhash", "absent"}]]

WellFormedVersion(v) == v \in {"1.0.0", "2.0.0"}

\* load_runtime_manifest: only the entry of this platform is looked at; a plugin
\* without a version has its root path as its version.
HookAccepts(doc, suffix, pluginVersion) ==
  /\ doc.schema = 1
  /\ WellFormedVersion(doc.version)
  /\ pluginVersion = "/plugin/root" \/ pluginVersion = doc.version
  /\ suffix \in Suffixes /\ doc.artifacts[suffix] = "good"

\* read_runtime_manifest and check_runtime_manifest: every entry.
ManifestAccepts(doc) ==
  /\ doc.schema = 1 /\ doc.version /= ""
  /\ \A s \in Suffixes : doc.artifacts[s] = "good"
ReleaseAccepts(doc, version) == ManifestAccepts(doc) /\ doc.version = version

\* A runtime manifest that the release checks accept for a version is one from
\* which the hook of that version's plugin gets a runtime on every platform
\* that has one (check_runtime_manifest, load_runtime_manifest).
ReleasedIsUsable(manifest, version) ==
  ReleaseAccepts(manifest, version) =>
    \A pl \in Platforms :
      LET suffix == ReleaseArtifact(pl[1], pl[2])
      IN suffix /= "unsupported" => HookAccepts(manifest, suffix, version)

----------------------------------------------------------------------------
\* repository_identity.  A file system says of each path whether it has a .git
\* entry; a .git file names the repository whose common directory it leads to,
\* or none (a submodule, a file that cannot be read).

Prefixes(path) == {SubSeq(path, 1, i) : i \in 0 .. Len(path)}
NoTarget == <<"none">>

Nearest(fs, path) ==
  LET marked == {p \in Prefixes(path) : fs[p].git /= "no"}
  IN IF marked = {} THEN {} ELSE {CHOOSE p \in marked : \A q \in marked : Len(q) <= Len(p)}

CanonicalRepository(fs, p) ==
  IF fs[p].git = "file" /\ fs[p].target /= NoTarget THEN fs[p].target ELSE p

NoIdentity == [repository |-> NoTarget, workspace |-> NoTarget]
Identity(fs, path) ==
  IF Nearest(fs, path) /= {}
  THEN LET p == CHOOSE p \in Nearest(fs, path) : TRUE
       IN [repository |-> CanonicalRepository(fs, p), workspace |-> p]
  ELSE IF path = <<>> THEN NoIdentity
  ELSE [repository |-> path, workspace |-> path]

\* A path that exists is in a directory that exists, and so is what a .git file
\* leads to.
FileSystem(fs) ==
  /\ DOMAIN fs \subseteq Seq(STRING) /\ NoTarget \notin DOMAIN fs
  /\ \A p \in DOMAIN fs : /\ Prefixes(p) \subseteq DOMAIN fs
                          /\ fs[p].git \in {"no", "dir", "file"} /\ fs[p].target \in DOMAIN fs \cup {NoTarget}
ASSUME FileSystemsAssumption == \A fs \in FileSystems : FileSystem(fs)

\* A session in a worktree is attributed to the repository that a session in
\* the repository itself is attributed to (repository_identity,
\* canonical_repository_path).
SameRepository(fs, cwd) ==
  \A p \in Nearest(fs, cwd) :
    LET r == fs[p].target
    IN (fs[p].git = "file" /\ r /= NoTarget /\ fs[r].git = "dir") =>
         Identity(fs, cwd).repository = Identity(fs, r).repository

----------------------------------------------------------------------------
\* The repository correlation event of a session.

CorrelationDocs == [version: {1, 2}, configured: BOOLEAN, mode: {"name", "path", "other"},
                    endpoint: {"loopback", "remote", "otherpath", "none"}]
SessionDocs == [conversation: BOOLEAN, task: BOOLEAN, cwd: BOOLEAN]

\* read_repository_correlation_config
CorrelationConfigured(doc) ==
  /\ doc.version = 1 /\ doc.configured
  /\ doc.mode \in {"name", "path"} /\ doc.endpoint = "loopback"

NoEvent == {}
\* build_repository_correlation_event and emit_repository_correlation: the set
\* of attributes sent, none if nothing is.
CorrelationEvent(doc, session, fs, path) ==
  IF /\ CorrelationConfigured(doc)
     /\ session.conversation \/ session.task
     /\ session.cwd /\ Identity(fs, path) /= NoIdentity
  THEN {"repository.name"} \cup (IF session.conversation THEN {"conversation.id", "session.id"} ELSE {})
       \cup (IF session.task THEN {"task.id"} ELSE {})
       \cup (IF doc.mode = "path" THEN {"repository.path", "workspace.path"} ELSE {})
  ELSE NoEvent

----------------------------------------------------------------------------
\* The hook of a session reads a document, or finds where it is.

NoDoc == [kind |-> "none"]
HookDocs ==
  [kind: {"policy"}, config: ConfigDocs]
    \cup [kind: {"manifest"}, manifest: ManifestDocs, version: {"1.0.0", "2.0.0"}]
    \cup UNION {[kind: {"identity"}, fs: {fs}, cwd: DOMAIN fs] : fs \in FileSystems}

ReadDoc == consulted = NoDoc /\ consulted' \in HookDocs
RulesSpec == consulted = NoDoc /\ [][ReadDoc]_consulted

\* What the hook reads decides as its author meant it: a broken line elsewhere,
\* a manifest for another platform, a session in a worktree (main of the hook).
HookRules ==
  /\ consulted.kind = "policy" => IgnoresBrokenLines(consulted.config)
  /\ consulted.kind = "manifest" => ReleasedIsUsable(consulted.manifest, consulted.version)
  /\ consulted.kind = "identity" => SameRepository(consulted.fs, consulted.cwd)
=============================================================================
