# Obstudio: a TLA+ model with machine-checked proofs

Obstudio has two halves. The *observer* (`src/observer`) is one Go process on a
developer's machine. It receives OpenTelemetry data over OTLP, keeps the newest
part of it in memory, validates it with the external program *weaver*, shows it
to a browser, an editor extension and AI agents (HTTP API, websocket, MCP), and
may forward it to Splunk. The *plugin* (`src/plugins/obstudio`, `src/skills`) is
what an AI agent loads: a hook that gets the observer running when a session
starts, and skills that audit, instrument and verify a project with the help of
Python scripts. `src/pytest-codex-evals` evaluates the skills, and scripts under
`src/scripts` check changes to them. This directory models the parts of both
halves where goroutines, callbacks, processes, files and deadlines meet, and the
rules that several programs have to agree on; checks them with TLC on small
instances; and proves the core for every instance with TLAPS.

Paths of the observer are relative to `src/observer/internal` unless they start
with `src/`. `src/plugins/obstudio/skills` holds copies of `src/skills`; a model
of an original describes its copy.

## 1. The system

### Components of the observer
| Component | State | Operations | Hard behaviour | What makes it correct |
|---|---|---|---|---|
| Telemetry store, `store/store.go` | one bounded ring per signal, the session clock, subscribers, projections | ingest per connection, clear, evict a connection, snapshot, subscribe | callbacks run after the lock is released; a long silence empties the store; rings overwrite | derived state is told of every mutation; an eviction removes one connection's records only |
| Agent span retention, `store/agent_spans.go` | identity index over the slots of the span ring | receipt (update in place or push), rebuild after an eviction | the index against physical overwrites, compaction and a ring whose old items stay in place | index = live agent spans; the copy kept is the latest receipt |
| Validation manager, `validator/manager.go` | run counter, registered run and its cancel function | `Run`, `executeRun`, `Reset`, `MarkTelemetryChanged`, `Start`, `Shutdown` | every call takes three or four locks in turn; weaver can be killed midway | a cancelled run never publishes after its wipe; a running status always ends |
| Validator result store, `validator/store.go` | status, retained result, staleness, active run, two time stamps | `StartRun`, `CompleteRun`, `FailRun`, `Clear`, `MarkTelemetryChanged`, `SetRuntimeStatus` | staleness is decided by comparing time stamps that arrive unordered | a result shown as current is about the retained telemetry |
| Validation service, `validator/service.go` | none, a call in progress | `Analyze`, `Refresh`, `WaitForRun` | reads the store at several moments, polls, re-enables | an answer is about one run, and a fresh run is new |
| HTTP connection tracker, `otlp/conntrack.go`, `otlp/httphandler.go` | address, connection, PID and watcher tables | resolve a request, watch a PID, evict it | PID lookup outside the lock; exits under requests; addresses used again | everything a dead process sent goes, nothing of a living one |
| Metrics export, `otlp/splunk_exporter.go` | current exporter and config, last attempt, counters, two locks | configure, keep activity, shut down, export, test | replacement against requests in flight; waiting writers | no request through a stopped exporter; status of one destination |
| Logs export, `otlp/splunk_hec_logs_controller.go`, `..._exporter.go` | settings, installed component, totals; each component's queue | apply, enable, disable, shut down, capture, send, retry | a component is captured before the batch is stored and used later; draining under the lock | a batch goes where it was meant to, sends are counted once, the lock is let go |
| Traces export, `otlp/splunk_traces_exporter.go` | as metrics, plus agent routes and a bounded forward queue | as metrics | queue at its limit | *later module* |
| Live push, `web/websocket.go`, `web/server.go` | subscription, pause state, throttle timers of each browser connection; one signal channel per store | signal, throttle, pause, resume, close | signals dropped when a channel is full; a query sent after a newer one; a pause during a push | the browser catches up in the end; what arrives while it is paused is announced |
| User configuration, `userconfig/` | effective settings, the file's last seen content, watcher | read, write, watch event, debounce | the file is also edited by people | no older content over a newer one: *later module* |
| Connection settings and secrets, `src/observer/cmd/obstudio/connection_secrets.go`, `credentials/` | settings file, credential store, journal | save, load, recover, refresh | crash between two writes; another observer's save | *later module* |
| Token telemetry, `src/observer/cmd/obstudio/token_telemetry*.go` | pending-transaction file, lock | configure, recover | crash between two renames | *later module* |
| Managed lifecycle, `src/observer/cmd/obstudio/lifecycle.go` | lock file, health endpoint | start, stop, restart | two starters | *later module* |
| Everything else (HTTP API, MCP server, OTLP conversion, sign-in, dashboards, audit pages, installer, browser client, extension) | none, or none that the components above do not hold | | | not modelled; `PROJECT.json` gives the reason for each |

### Components of the plugin, the skills and the evaluations

| Component | State | Operations | Hard behaviour | What makes it correct |
|---|---|---|---|---|
| Session hook, `src/plugins/obstudio/hooks/bootstrap_obstudio.py` | a state file and a lock for each agent host; the processes, ports and pids that all share | look at policy, health and listener; retire, replace, start, verify, record | every read is old when it is used; a host kills its hook; pids are taken again; the state file is emptied before it is written | nobody else's process is signalled; the record of the managed observer is true; the user's stop holds |
| Runtime download (same file) | archive and extracted directory in the cache | download, verify, extract, retry | killed calls, wrong bytes, altered files | only the pinned binary runs |
| Plugin staging and release, `src/plugins/obstudio/scripts`, `src/scripts` | main, open pull requests, tags, published runtimes, the plugin's working copy of the skills | prepare, tag, publish, point the marketplaces, synchronise skills | overlapping pull requests; a copy cut off | the version offered is whole and published |
| Finding selection and review page, `src/skills/references/scripts/observe_report_core.py`, `..._html.py` | an audit; answers, ticks and the selection in the browser | tick, answer, select all, `select` | the same rules written twice, in Python and in the page's script | the page's command is accepted; an approval is complete |
| Report rules (same files) | none | `normalize_*` | results, rows, scenarios and items restrict each other | a result says what ran |
| Report files and pages | four files bound by digests, the page | audit, select, instrument, verify, render | several sessions, each reading file by file | a page tells one story |
| Report writing, `.../observe_report.py` | the target, temporary files, two directories | write by descriptor or by path | directories renamed under the writer | whole files, in the right place |
| Report server (same file) | a state file, a launch lock, servers, the commands that want one | start or reuse, serve, clean up | stale record, missed probe, idle limit, replaced directory | a URL that is returned serves |
| Markdown validators, `validate_gap_closure.py`, `validate_reader_report.py` | none | accept or refuse | a second description of what the page shows | they agree with the page |
| Resource resolver, `src/skills/otel-instrument/scripts/resolve_ao_resources.py` | resources of a service, runs in progress | look up, list, create, look up again | lost answers, lagging and broken listings, two runs at once | the resolved pair is bound; nothing is created twice |
| Configuration validator, `src/skills/splunk-configure/scripts/validate_configure_output.py` | none | canonical text, views, rules | text in comments and strings | duplicates are found, decoys decide nothing |
| Evaluation sessions, `src/pytest-codex-evals` (`plugin.py`, `runner.py`, `report.py`) | evaluations, workers' results, published reports, the repository | digest, stage, run, collect, publish, verify | the repository changes underneath; workers die, sessions are interrupted | a published report has whatever was begun, a verified one is current |
| Grading (`trace.py`, `graders/`, `backends.py`, `report.py`) | none | actions, usage, judges, sums | what is unknown; judges that say nothing | nothing that failed is hidden |
| Runtime checks, `graders/runtime.py` | a Compose project for each check | up, clear, traffic, stop, read, down | telemetry arrives whenever the service exports it | a pass is deserved; a sound service passes |
| Agent policy, `src/scripts/check_agent_policy.py` | a working tree and its base | follow references, compare evaluations | references that lead to references | who changes a skill evaluates it |
| Everything else (evaluation command line, repository checks and scanners, demonstrations, prompts) | none | | | not modelled; the reasons are in `PROJECT.json` |

### How they interact

A receiver attributes a request to a connection (tracker), captures a logs
component (logs export), puts the batch in the store, and starts the forwarding
goroutines (exporters). The store runs the two callbacks that
`src/observer/cmd/obstudio/main.go:124-125` installs, `Manager.Reset` for
invalidated and `Manager.MarkTelemetryChanged` for changed telemetry, *after*
it has released its lock. `Manager.Run` is called by the API and the MCP tools
through the validation service; it snapshots the store and starts one goroutine
per run, which publishes into the result store if its run is still the active
one there. The tracker's watchers call `EvictConnection`, which is one more
writer of the store. Both stores tell their subscribers which signal changed;
two goroutines broadcast the signals to the browser connections, which query the
stores and send. The settings API, the settings refresher and shutdown call
the exporter controllers.

The hook and the observer meet at the health endpoint and the listening port:
the hook learns from them who serves and in which version, signals by pid, and
records what it started. The download gives it the binary, and the release
decides which binary that is. The skills' commands meet in the report directory.
An audit, a selection, an instrumentation and a verification each carry the
digests of what they were made from; the page reads all four; the report server
serves whatever the directory holds. Every one of these files goes through the
same `write_text`. The review page prints a command that the agent gives to
`select`. The evaluations run the skills in staged copies of the repository,
check the instrumented project with Compose and the observer, and publish
reports whose digests `verify-reports` later compares with the repository.

## 2. Modules

| Module | Models | Composes |
|---|---|---|
| `TelemetryStore` | rings, session clock, eviction | |
| `ValidatorStore` | the result store; one operator per method | |
| `Validation` | manager, workers, writers and their callbacks | extends both stores |
| `RunLedger` | abstract: what the run life cycle promises | instantiated by `Validation` |
| `ValidationService` | `Analyze`, `Refresh`, `WaitForRun` | extends `Validation` |
| `SpanRing` | the ring's slots, head and count, and the identity index | |
| `SpanLog` | abstract: a bounded log with replacement | instantiated by `SpanRing` |
| `ConnTracker` | tracker tables, watchers, requests, the operating system | |
| `MetricsExport` | the metrics controller and its two locks | |
| `LogsExport` | the logs controller, its components and the batches | |
| `LivePush` | the stores' signal channels, the broadcasting goroutines and one browser connection | |
| `Bootstrap` | the session hooks, the observers, pids and ports, the user | |
| `RuntimeCache` | download and extraction of the runtime | |
| `PluginRelease` | versions on their way to the marketplaces; the copy of the skills | |
| `BootstrapRules` | what the hook makes of `config.toml`, the manifest, the session's directory | |
| `FindingSelection` | `select` and the review page | |
| `ProofRules` | what the `normalize_*` functions accept | |
| `ReportChain` | the four files, the sessions that write them, the page | extends `ProofRules` |
| `ReportPages` | what the page shows of a flow, function by function; a reader of any report | extends `ReportMarkdown` |
| `ReportMarkdown` | the two Markdown validators | extends `ProofRules` |
| `AtomicWrite` | `write_text`, both ways | |
| `ReportServer` | commands, servers, state file and launch lock | |
| `ResourceResolver` | runs of the resolver against a faulty service | |
| `SignalFlow`, `ConfigureOutput` | canonical text of filters; rules of a detector and of the directory | the second extends the first |
| `EvalSession` | workers, controller, published reports, the repository | |
| `EvalGrades`, `EvalReport` | traces, usage, judges, checks and the sums of reports; a reader of any of these | the second extends the first |
| `RuntimeCheck` | checks, Compose projects, the instrumented service | |
| `AgentPolicy` | a tree that is edited, and what the policy accepts of it | |
| `Validation_proofs`, `ConnTracker_proofs`, `MetricsExport_proofs`, `LogsExport_proofs` | theorems and proofs | extend the module of their name, `Validation_proofs` also `ValidationService` |
| `Plugin_proofs` | theorems and proofs | `Bootstrap`, `RuntimeCache`, `PluginRelease`, `BootstrapRules` |
| `Skills_proofs` | theorems and proofs | `ReportChain`, `ReportPages` (with `ProofRules` and `ReportMarkdown`), `FindingSelection`, `AtomicWrite`, `ReportServer`, `ResourceResolver`, `AgentPolicy` |
| `Telemetry_proofs` | theorems and proofs | `SpanRing`, `LivePush` |
| `Evaluation_proofs` | theorems and proofs | `EvalSession`, `RuntimeCheck`, `EvalReport` (with `EvalGrades`) |
| `MCPlugin`, `MCSkills` | one instance each for the plugin and for the skills | extend all modules of their half |
| other `MC*` | small instances | extend the module of their name; `LogsExport` and `MetricsExport` need none, their constants are in the `.cfg` |

`PROJECT.json` maps each definition to the lines it models.
Definitions whose comment begins with *Mutation:* are not part of any
specification. Each is a plausible bug; put in place of the definition that
follows it, it makes TLC find the property it is paired with in `PROJECT.json`
violated.

### Validation (`TelemetryStore`, `ValidatorStore`, `Validation`)

One action per lock acquisition, in program order; a goroutine's position is its
`pc`.

* *Writers* are the goroutines that change telemetry. `AddTelemetry`,
  `ClearAll` and `Evict` are the critical sections of `Store.mu`. What they owe
  afterwards is in `writer`: `ResetCancel` and `ResetWipe` are the two halves of
  `Manager.Reset` (two locks), `Mark` is `MarkTelemetryChanged`. The stamp that
  `Mark` reports is the one taken inside the critical section, as in the code.
* *Runners* are callers of `Manager.Run`: `RunBegin` (weaver path, summary),
  `RunMissingCancel`/`RunMissingDisable` (no weaver), `RunEnable`, `RunStamp`
  (number and start time), `RunStart` (admission), `RunTake` (snapshot),
  `RunRegister` (`setActiveRun` and the `go` statement), `RunReturn`.
* *Workers* are `executeRun`: `WorkerComplete`, `WorkerFail`, `WorkerAbandon`,
  then the deferred `WorkerUnregister`.

Data: a record is its instant, its owner and whether it is application
telemetry. Entities of a result are the instants that weaver was heard to report.
The weaver process is how it can end: with any part of its snapshot reported, with
an error, or with nothing. The part may be a proper one without any cancellation:
`stopProcess` kills a weaver that outlives `/stop` by two seconds, `isExpectedExit`
accepts the signal, `cmd.Wait` may close the pipe before it is read to its end, and
lines that do not parse are skipped (`MayHaveFound`). A batch of several records is one record,
since it is one critical section that owes the same callbacks. `invalidated` is
a history variable.

### Validation service

A client is also a runner and performs `Manager.Run` itself (`InRun`). Its own
steps are the reads between the store's critical sections: the summary
`runAnalysis` decides by (`Refresh`, `AnalyzeLatest`), the re-enabling
(`Reenable`), each poll (`Poll`), the deadline (`Timeout`) and the reads that
complete the answer (`Answer`). An answer records the run its summary names.
`late` is a history variable: a re-enabling has found the validator enabled by
then.

### Span ring

`items` keeps old values after a clear, as Go's slice does, so a wrong `Start` or
a stale index entry has something wrong to point at. A batch takes the lock
(`AddBegin`, with or without a lapsed session) and is stored span by span
(`AddOne`), so repeats inside one batch go through the index. An eviction
compacts the ring: the spans of other connections (`Staying`) move up to the
places that their rank gives them (`Kept`). `latest` is a history variable.

### Connection tracker

The operating system is part of the model: processes start and exit, also under
a request; sockets close and their addresses are taken by others. A request
takes the tracker's lock twice (`Lookup`, `Register`) and resolves its PID in
between (`Resolve`); `StoreTelemetry` comes later. A watcher finds its process
gone (`SeeExit`), removes it from the tables under the lock (`Untrack`) and
evicts connection by connection outside (`EvictStored`). Of the store only the
connections and senders of its records are kept. A client may close a socket under
its own request (`CloseSocket`), and so does its exit; the request goes on and is
marked `left`, and so is what it stores. That field and `takenOver` are history. A
process stands for its PID.

### Metrics export

`exportMu` is a Go `RWMutex`: `NoReader` is what a writer waits for,
`NoWriterWaits` is the rule that a waiting writer keeps new readers out.
`Build` happens before the locks, `Swap` under them, `Retire` after them.
`TakeForShutdown` is the polling of `lockRWMutexForShutdown`, which never waits
in line, and `GiveUpShutdown` its deadline. `Accept` is the check of
`exportMetricsAsync` or `TestConnection` and `ExportBegin` the later send.

### Logs export

`mu` is held from `Lock...` to `Install`, across `Stop` (cancel), `Collect`
(wait for the senders, then take the totals) and `Settle` (between the two
retirements of `apply`). A batch is captured at receipt, enqueued, taken from
the queue, put on the wire, accepted by the service and recorded; it may fail,
be retried or be dropped. `meant`, `receipt` and `answered` are history
variables.

### Live push

`Notify` is the send into a subscriber's channel that a change owes, and drops
the signal if the channel is full. A broadcasting goroutine takes a signal
(`Receive`), decides under the connection's mutex what to do with it
(`OnSignal`), asks the throttle for each signal (`Push`), reads the store
(`Query`) and sends (`Send`); a cooldown's callback (`Cooldown`) does the same on
a goroutine of its own, and so does the connection's reader, without the
throttle, after `subscribe` and `resume` (`Obey`, `PushAll`). What a signal shows
is a version number, so that older and newer data can be told apart. One
connection is followed: connections share only the broadcasting goroutines, and
the time these spend on others is the time between two steps. `newest`,
`missed` and `unseen` are history variables.

### The session hook (`Bootstrap`, `RuntimeCache`, `BootstrapRules`)

A process is its index in the order of starts; that index is also the
`startedAt` that its health reports. Pids are a separate, small set and are
taken again. Each step of a hook is one look at the world or one change of it,
in program order: `Acquire` (lock), `Decide` (policy), `Check` and `CheckPid`
(health and listener of the configured endpoint), `Resolve`, `Prior` and
`PriorPid` (the recorded observer), `RetireKill` and `ReplaceKill` (signals),
`ReplaceWait` (until health is gone), `LiveHealth`, `LivePid`, `Vacant` (a last
look before starting), `Spawn`, `Verify` (the first healthy answer), `Ensure`,
`Truncate` and `Write` (the two halves of `write_state`), `GiveUp`. `Killed` is
the host's time limit at any of them. Around the hooks, processes come up and
exit, strangers start observers, and the user updates the plugin, edits the
configuration, stops and restarts. `wish`, `excused`, `hits` and `orphaned` are
history variables.

`RuntimeCache` has the archive and the extracted directory as the only state that
survives a call; `Kill` and `Alter` are what happens to them from outside.
`BootstrapRules` is functions of documents: what a document says in TOML, and
what the fallback's line patterns find in it; what a manifest offers, and which
repository a directory belongs to. The code keeps no state about them, so the
specification has one step, `ReadDoc`: a session consults some document, and the
properties are about the one `consulted`. Directories are those of any file system in
the constant `FileSystems`.

### Release (`PluginRelease`)

A commit is the versions and hashes of its manifests; building is the identity
on sources, so equal hashes mean equal sources. `Prepare`, `MergePrepared`, `Tag`,
`Publish`, `Sync`, `MergeSync` are the workflow steps, `Edit` a commit of
anybody's in between. The copy of the skills (`CopySkills`, `RemoveSkills`,
`RenameSkills`) may fail or be cut off between any two.

### Selection and pages (`FindingSelection`, `ProofRules`, `ReportPages`, `ReportMarkdown`)

A report is a function from its findings to mode, status, dependencies and, for
a decision, what each option unlocks. The Python side (`Selectable`, `Closure`,
`SelectionAccepted`, `AllRequested`) and the script's side (`IsSelectable`,
`PageClosure`, `Sync`) are translated separately, each from its own source. A
recursive visit with a set of what was visited is the least closed set (`Visited`).
The actions are what a reviewer does on the page; `RunCommand` runs what the page
prints.

`ProofRules` keeps of a row what the rules tell apart: statuses, modes of proof,
visibility, and whether texts and evidence are there. `ReportPages` has one
operator for each renderer that classifies a flow, with its own conditions,
since the hazard is that they classify differently. `told` are the findings for
which the JSON files have both tests and evidence: the cells of a Markdown row are
those lists joined (`Joined`), so they are empty for the others. `FlowBound` is what `load_flow`
has accepted of four files, one after the other; `ReadReport` opens any document of the
constant `Reports` that the scripts accept.

### Files and servers (`ReportChain`, `AtomicWrite`, `ReportServer`)

A file is its content and *contains* what it was made from, which is what a
digest of it says. A session takes one file after another (`Read`) and then
writes (`WriteSelection`, `WriteInstrumentation`, `WriteVerify`, `Render`); the
others go on in between.

`AtomicWrite` has a path of two directories, either of which may be renamed and
replaced (`Moved`). `OpenBoundary` and `OpenParent` open them (or, in the fallback,
note their identities), `Create`, `Fill`, `Match`, `Rename` and `MatchAgain` follow.

`ReportServer`'s commands go through `ReadState`, `Ask` and `Answer` in three
stages (`first`, `locked`, `wait`) as `start_or_reuse_report_server` does; `WriteLaunch`
and `LaunchServer` are under the launch lock. A server boots from the record,
opens the directory, publishes itself, serves until its idle limit and cleans
up under the same lock. `NoAnswer` is a missed probe, `Hours` a time without any
request.

### Resolver and configuration (`ResourceResolver`, `SignalFlow`, `ConfigureOutput`)

`Appear` is the lag of a listing. `Committed` and `Uncommitted` are the two truths
behind one lost answer. `PageStopsOnRepeat` and `LookupMishap` are the listings
that break off. A filter of `SignalFlow` is a sequence of tokens with brackets. A
detector block of `ConfigureOutput` is a text of lexemes: quotes, comment marks, the
beginnings and ends of heredocs, interpolations, line ends, and the constructs that
the rules count. What of it is comment or string is not given but found, by the
scanners of the code one by one, each with what it knows and does not know:
`BlankComments` knows quotes and no heredocs, `BlankQuoted` and `BlankProse` differ in
interpolations, `BlankValues` knows heredocs and the strings that are values. The
views that the rules read are their compositions, which `DetectorAccepted` binds as
`validate` does.

### Evaluations (`EvalSession`, `EvalGrades`, `EvalReport`, `RuntimeCheck`, `AgentPolicy`)

Contents are version numbers. `Validate` takes the digests of an evaluation and
`Refuse` is the one that raises instead, because its definition or prompt has gone or
changed since collection; `RunSide` stages one side, `WorkerEnds` leaves the results
(at any time, as `pytest_sessionfinish` also follows an interrupt, `-x` and
`--maxfail`), `SessionEnds` collects them, `PublishReport` renders and publishes, `VerifyAccepts` is `verify-reports`;
`Edit` changes the repository at any moment and `EditReport` a published report.

`EvalGrades` and `EvalReport` are functions of traces, usage records and graded
sides. Sums that the code computes along two ways are two operators. A list of which
only the members matter is a function over places, which may be some of the places of
another list, and a sum of naturals (`Total`) is the size of its members laid end to
end. `ReadVerdict` opens any trace, usage, result or answer of a judge in the constant
`Evaluated`.

`RuntimeCheck` follows one check per worker through its commands; the application
starts, handles traffic and exports when it likes (`AppStarts`, `Export`). A detail
that the observer does not have is a 404, which fails the check (`DetailMissing`).
`AgentPolicy` edits a tree of skills, references and rubrics, and `MergeTree`
makes an accepted tree the base of further edits.

## 3. Runs

All bounds are constants of the modules; a bound occurs only in a guard and is
commented there. `CHECK_DEADLOCK FALSE` is set everywhere because the programs
may really stop: with no more requests, and with the bounded supply of instants,
runs, components, processes or edits used up, nothing is left to do.

| Run | Result | What it shows |
|---|---|---|
| `freshness` | passes | two writers (ingest, clear, evict) against one validating caller: `FreshUnlessReordered`, `InvalidatedNeverShown` |
| `runs` | passes | two callers, resets, weaver missing at any call: `CancelledNeverKept`, refinement of the ledger `RunsFollowLedger`, liveness `RunsSettle` |
| `answers` | passes | two clients of the service: `AnswersAreSound` |
| `ring` | passes | `IndexIsExact`, refinement of the log `RingIsALog` |
| `tracking` | passes | `EvictionIsOwed`, `SparedUnlessTakenOver` |
| `spares` | `EvictionSparesTheLiving` violated | a living process loses telemetry to the exit of another |
| `replace` | passes | `NeverThroughAStopped`, `NoneLeftRunning`, liveness `ConfigureCompletes` |
| `forwarding` | passes | `ForwardedAsReceived`, `NothingInFlightAfterReturn`, `SendsAreAccounted`, liveness `LockIsReleased` |
| `live` | passes | `PutOffIsOwed`, liveness `BrowserCatchesUp` and `PausedIsAnnounced` |
| `validation` | `ValidationStaysLive` violated | a pause drops a validation update that was let through before it |
| `bootstrap` | passes | the hook, its cache, its rules and the release: `SignalsOnlyOwn`, `RecordsAreTrue`, `OnlyPinnedRuns`, `OfferedPluginIsWhole`, `HookRules`, liveness `HooksEnd` |
| `skills` | passes | the skills' tools and evaluations: the fourteen properties below |

`skills` checks `ReportsAreServed`, `WritesAreWhole`, `PageAgreesWithSelect`,
`ApprovalsAreComplete`, `PageIsOneStory`, `CompleteMeansProven`,
`PublicationsAreSound`, `ReportsAreConsistent`, `EvaluationsAreHonest`,
`ConfigurationIsSound`, `ResolutionIsSound`, `CreatesOnlyAbsent`,
`ChangedSkillsAreEvaluated` and `ChecksAreEarned`.

Several properties are conjunctions of parts that are stated and commented one by
one in the modules:

| Property | Parts |
|---|---|
| `AnswersAreSound` | `ServiceTypeOK`, `RepeatedOnlyAfterFailure` |
| `IndexIsExact` | `RingTypeOK`, `IndexMatchesRing`, `RetainedCopyIsLatest` |
| `SendsAreAccounted` | `LogsTypeOK`, `EverySendCountedOnce`, `NoneLeftBehind` |
| `PutOffIsOwed` | `PushTypeOK`, `PutOffHasACooldown`, `NothingIsForgotten` |
| `RecordsAreTrue` | `BootTypeOK`, `ManagedRecordIsTrue`, `StopIsOnRecord` |
| `OfferedPluginIsWhole` | `OfferedIsPinned`, `LocalSkillsKept` |
| `HookRules` | `IgnoresBrokenLines`, `ReleasedIsUsable`, `SameRepository` |
| `ReportsAreServed` | `ServerTypeOK`, `ReturnedUrlServes`, `ServingIsOnRecord` |
| `WritesAreWhole` | `NeverTorn`, `SuccessIsInPlace` |
| `PublicationsAreSound` | `PublishedIsComplete`, `VerifiedIsCurrent` |
| `ResolutionIsSound` | `ResolvedIsBound`, `ResolversAgree` |
| `ReportsAreConsistent` | `ResultTells`, `SaysWhatItSorts`, `NamesEveryGap`, `MarkdownAgrees`, `PageShowsTheProof`, `PlainPassClosesAll` |
| `EvaluationsAreHonest` | `SkillReadFirst`, `UsageIsHonest`, `TotalsAreWhole`, `ReportTellsFailures`, `JudgeIsHeard` |
| `ConfigurationIsSound` | `DuplicatesAreFound`, `DecoysDecideNothing` |
| `PageAgreesWithSelect` | `PageCommandIsAccepted`, `OfferedIsSelectable` |
| `ApprovalsAreComplete` | `ApprovalIsComplete`, `AllLeavesNoQuestion` |
| `ChecksAreEarned` | `RuntimeTypeOK`, `PassIsDeserved`, `SoundServicePasses`, `ProjectIsItsOwn` |

The two large instances have a variable `part`, chosen in the initial state: a
behaviour is about one part, whose module's next-state relation it follows, while
the variables of the others keep their first values. In `MCPlugin` the parts are
`hooks`, `cache`, `release`, `skills` and `rules`; in `MCSkills` they are `server`,
`write`, `page`, `chain`, `resolve`, `session`, `runtime`, `policy` and `rules`. The
parts do not share state in the code either, save the files between them, whose
writing has a part of its own. In `rules` one step opens a document (`consulted`,
`doc`, `verdict`), out of all the small ones of a kind, and the invariants apply the
rules to it: this is how the pure functions are checked against a second definition
or against each other. The same step over any set of documents is what the theorems
are about.

### Bounds, and why they are enough

* `freshness`: one ring of two slots, two writers, one run, four instants. Two
  records fill the ring, a third overwrites, the run's start is the fourth. Two
  writers are the fewest whose reports can be swapped. One connection and the
  unowned telemetry tell eviction from clearing. Rings do not interact, save
  through the session clock that one ring has too.
* `runs`: two callers and two runs, so one run can be refused, can be opened over
  another, and can publish into the other's place; one writer for resets. One
  slot and three instants are enough, since what is retained matters only as the
  snapshot a run took.
* `answers`: two clients with three calls between them and two runs. The second
  call meets the result of the first; the third is there to have seen the
  validator disabled before both and to re-enable it after them.
* `ring`: three slots, five receipts, two identities and spans without one, batches
  of one or two with repeats: the head wraps, an indexed slot is overwritten,
  an eviction compacts from the middle.
* `tracking`, `spares`: two processes, two requests and two connections, two
  addresses (`spares`: one): two requests of one socket, two connections of one
  process, an address that changes hands. Two stored records (`MaxStored`): one of
  each process, or two of one.
* `replace`: two callers, two senders, two exporters with two destinations, so
  that an attempt made with the one can be reported beside the other; the
  counters saturate at one because only zero against nonzero is read.
* `forwarding`: two callers, two destinations, two components and one batch.
  Batches meet only in the totals, and a probe already counted when a component
  is built stands for another's contribution. The lock serialises callers; two
  are needed for a component built while the other holds it.

* `live`: two telemetry signals and a channel of one, so that one can crowd out the
  other; two notifications in all, so that one is put off by the other's
  cooldown or overtaken by its data; three messages (subscribe, pause, resume);
  one callback at a time, since two notifications can start no more than one
  push of a callback. `validation` needs no telemetry.
* `bootstrap`, hooks: one host with two sessions, two pids, two starts and two
  versions on either side of the change of endpoint, two steps of the user. Two
  starts are an old and a new observer; with two pids one may be taken again.
  Kills need no bound, since a killed hook is as good as ended and sessions are
  bounded. Two hosts share only endpoint and ports, where another host's observer
  is as foreign as a stranger's, which `ForeignStart` supplies.
* `bootstrap`, cache: three attempts, as in the code, and two faults, so that a
  second fault can meet what the first has left. Release: three versions and two
  edits, so that a preparation can be open over a merge and a marketplace pull
  request over a later publication.
* `skills`, server: two commands and two servers, two directories, one poll and
  one kill or missed probe. A third server and a second fault were checked
  apart (13.5 million states). Write: two writers, two directories at either
  level, one move. Three moves were checked apart; a fourth breaks
  `SuccessIsInPlace`, in the window that the fallback's own comment concedes.
* `skills`, page: every audit of four findings in the order of their dependencies
  of which the last is an open fix, with decisions of two options. Four are
  needed for a decision that unlocks a decision before a fix.
* `skills`, chain: two sessions, two audits, one finding and three writes: enough
  for every file to be replaced under a reader of the one before. Flows of two
  findings are in the rules.
* `skills`, resolve: two runs, three resources beyond those that exist, pages of
  one entry, two pages, two attempts, one faulty answer. Session: two evaluations,
  two workers, two edits and one loss. Runtime: two checks, lists cut after one
  entry, one trouble, and services that export more, less or other than they
  should. Policy: two skills, two references, two rubrics
  and two edits, each skill and reference naming at most one other at first.
* Rules (`FileSystems`, `Reports`, `Evaluated`): file systems of a few directories with
  every combination of entries, rows of up to two scenarios and one item, alone or
  beside one of four rows, flows of two findings with
  `MaxTelemetryItems` items in all, traces of four events over three items, two sides of
  two evaluations, filters of two operands of which one may be a bracket, blocks with
  each construct in a comment or string while the real one is there or missing, under
  descriptions of up to two marks in a string or a heredoc. A second
  finding is the least that can disagree with the first, and a second prompt or
  evaluation the least that a sum can lose.

### Fairness

* `Validation`: weak fairness of the callbacks a writer owes, of the remaining
  steps of a `Run` already begun, and of each worker. These are steps of
  goroutines that Go schedules; weaver itself is bounded by the health and
  export timeouts of `manager.go`. Nothing makes a writer or a caller begin.
* `MetricsExport`: weak fairness of each configuration call in progress (Go's
  `RWMutex` lets a waiting writer in once the readers before it have left, which
  `NoWriterWaits` models) and of the end of a request, which has a timeout.
  Sends are *not* required to start. The mutant that lets readers overtake a
  waiting writer makes `ConfigureCompletes` fail, so that rule is what carries
  the property.
* `LogsExport`: weak fairness of the lock holder and of the component's
  goroutines; a request ends within its timeout or when its context is
  cancelled. No fairness of lock acquisition is assumed: `LockIsReleased` speaks
  of the holder.
* `LivePush`: while a goroutine, a lock or a timer can go on, one of them does:
  one weak fairness condition for all of them together, the weakest that keeps
  the connection from standing still. Writes end within `writeWait`. Nothing
  makes a store change or the browser send.
* `Bootstrap`: weak fairness of each session's hook, which the host runs to its end or
  kills. The observers and the user are free. `bootstrap_lock` waits without a
  deadline of its own, and the lock is the operating system's: it goes with its
  holder.
* `ValidationService`, `SpanRing`, `ConnTracker` and the modules of the skills have
  only safety properties and assume none.

## 4. Where the code and its documents differ

Two of these are runs that TLC ends with a counterexample; a weaker promise that
the code keeps is checked in the neighbouring run.

1. **Eviction spares others** (`spares`). A socket that takes over the address of
   a tracked connection inherits its identity. `SparedUnlessTakenOver` holds.
2. **Validation stays live** (`validation`). The client relies on validation
   updates while telemetry is paused
   (`src/observer/client/src/telemetry/useTelemetry.ts:24`). `onSignal` lets
   validation pass only a pause that it sees. An update that was let through
   before, or put off to a cooldown that was started before, is refused by
   `throttledPush` once the pause is obeyed, and nothing is sent later.
   `BrowserCatchesUp` holds: an unpaused browser catches up, and resuming sends
   everything.

The others stand as named exceptions in properties that hold: cases that the code
lets happen, met while modelling.

* `FreshUnlessReordered`: `src/observer/README.md:79` promises that new telemetry
  marks a result stale. Reports run outside the store's lock and
  `MarkTelemetryChanged` assigns the time stamp unconditionally, so an older
  report can turn it back under a run in progress.
* `RepeatedOnlyAfterFailure`: a run that fails before `Manager.Run` reads its
  closing summary is answered with the earlier result labelled `fresh_run`. And
  `runAnalysis` re-enables the validator on the strength of a summary it read
  before (`service.go:166`): if another call has done so and its run has failed
  meanwhile, the late `RunEnable` turns that run's `error` into `idle`, and its
  caller is given the earlier result without even the failed status (`late`).
  The proof attempt showed this first; two calls are too few for TLC to meet it.
* `EvictionIsOwed`, `SparedUnlessTakenOver`: a request whose socket was closed under
  it may store its telemetry after the eviction of its connection, and nobody evicts
  it then; and if the socket was closed before the request was attributed, and its
  address taken by another process, it may be attributed to that one (`left`).
* `FreshUnlessReordered`: a result shown as current is that of a run over the retained
  telemetry, but may be silent about some of it, without any error
  (`MayHaveFound`).
* `BrowserCatchesUp`: a telemetry signal whose notification finds the channel full
  of others, or whose data is sent by one goroutine after another has sent newer,
  leaves the browser outdated until the next change of that signal (`missed`,
  `Overtaken`).
* `SignalsOnlyOwn`: between the look at a pid or a port and the signal, the process
  may end and another take its place; and a record may mix two processes.
* `ManagedRecordIsTrue`: `verify_local_obstudio_health` takes the first healthy
  answer for that of the process just started, whoever gives it; and a hook
  killed after its start leaves an observer that no record names.
* `StopIsOnRecord`: `write_state` empties the file before it writes it, so a hook
  killed in between forgets that the user stopped; and a hook that had passed its
  check when the user stopped writes over the stop.
* `LocalSkillsKept`: a synchronisation cut off between removing the plugin's skills
  and renaming the new tree into place loses the plugin's own.
* `ReturnedUrlServes`, `ServingIsOnRecord`: the idle limit of a server may fall into
  a probe that it has accepted; a server that misses one probe is replaced and
  goes on unrecorded; a launcher may give up a server it cannot verify although
  another call was given its address; and the server of a killed command may take the token of
  the next launch.
* `VerifiedIsCurrent`: an edit that was undone is in no digest, and a file staged
  in between was of another content.
* `PublishedIsComplete`: a worker that dies takes its results with it, an evaluation
  whose definition has gone raises before it leaves any, and an interrupted session
  publishes what it has: the report is about the evaluations that were begun.
* `UsageIsHonest`: where no usage was recorded at all, `format_tokens` falls through to
  plain counts and prints a number instead of "unknown": the agent's on the sides that
  kept agent and judge apart, leaving out the others.
* `ReportTellsFailures`: a failed guard is no failure in the report of another kind
  than sanity; and the rubric's cell counts items, so it says 100% of a grade that
  failed as a whole, or that has no items ("100% (0/0)").
* `JudgeIsHeard`: a silent codex judge leaves the message file of an earlier one
  in its place, and claude's last words may come after its grade.
* `MarkdownAgrees`: when a verification never ran, `aggregate_instrumentation_result`
  and `validate_gap_closure.py` give different results. And `otel.md` cannot always be
  written: `src/skills/otel-instrument/SKILL.md` asks for the exact projection of the
  JSON lists, which `validate_gap_closure.py:331-352` enforces, `normalize_instrumentation`
  lets the lists be empty for findings that do not work yet, and
  `validate_gap_closure.py:462-464` rejects empty cells.
* `DecoysDecideNothing`: the docstring of `_blank_comment_lines`
  (`validate_configure_output.py:137-144`) says that a decoy in a comment can never be
  matched instead of real syntax. The scan does not know heredocs: an odd apostrophe in the prose of one
  leaves comments in view up to the next apostrophe, and a `/*` in one hides code.
* `PassIsDeserved`: telemetry of an application's start can stand in for that of
  the traffic, where no text is asked for and nothing of the traffic was counted; and
  a record too many is missed if it had not been exported when the list was read.

## 5. Proofs

### Validation (`Validation_proofs`)

| Theorem | Says |
|---|---|
| `TypeCorrect` | `Spec => []TypeOK` |
| `CancelledIsWiped` | `Spec => []CancelledNeverKept` |
| `RunningIsEnded` | `Spec => []RunningHasAWorker` |
| `InvalidatedIsNeverShown` | `Spec => []InvalidatedNeverShown` |
| `FollowsLedger` | `Spec => RunsFollowLedger`, the refinement of `RunLedger` |
| `FreshIsCurrent` | `Spec => []FreshUnlessReordered` |
| `AnswersAlwaysSound` | `ServiceSpec => []AnswersAreSound` |

`TypeOK` and `RunningHasAWorker` are proved for every instance and are therefore in
no run. The theorems hold for any sets of writers, runners, rings and connections, any capacity
and any bounds, under the assumptions declared in the modules: `CapAssumption`,
`ConnAssumption` and `BoundAssumption`.

**Argument.** None of the properties is inductive. The invariant is

    Core == TypeOK /\ RunsInv /\ ResultsInv
    IInv == Core /\ StampsAreFresh /\ NothingInvalidated

* `RunsInv` says who holds a run's number at each stage. A number in the hands of
  a runner was issued, is in no other runner's hands and has no worker yet; a
  run without a worker is neither registered, cancelled nor shown; a number not
  yet given out is nowhere; a disabled validator shows nothing; and whoever
  cancelled the active run has yet to wipe the result store. Without these a
  second caller could publish under the first one's number.
* `ResultsInv` is `CancelledNeverKept` and `RunningHasAWorker`.
* `StampsAreFresh` says that stamps identify records, that none lies in the
  future, and that no retained record is among the invalidated ones.
* `NothingInvalidated` strengthens `InvalidatedNeverShown`: unless a writer still
  owes a reset, neither the retained result *nor the snapshot of the active
  run*, which may become the next one, holds an invalidated instant.

Each conjunct has one lemma per kind of actor (writer, runner, worker) that
splits on the actor's actions; small lemmas describe the effect of each store
operation and are cited by name. The refinement proof maps each action to a
ledger step or a stutter: `RunStamp` to `Issue`, `RunStart` to `Open`, `Refuse` or
`RefuseDisabled`, `WorkerComplete` to `Publish`, `WorkerFail` to `Fail`,
everything that clears the store to `Wipe`. Fairness plays no part.

For `FreshIsCurrent`, `FreshInv` says that a change of the telemetry after the
snapshot of a run leaves a trace: a retained record younger than the run, together
with a report that is still owed or has been made - or a reset that is owed.
Before the run publishes, that report makes the result stale at once
(`ChangeIsNoticed`); after it has been published as current, a report that was made
can only be one that was overwritten by an older one (`ChangeWillBeNoticed`),
which is the exception that the property names.

For `AnswersAlwaysSound`, every step of the service is a step of the validation
system or leaves it alone, so `Core` carries over. `ServiceInv` adds, for each
call: the run whose result was retained before it is *spent*, it has a worker and
is not the active one, so it can never publish again (`PriorIsSpent`); once the
call's own run was admitted, an unchanged result means that some run is in
progress, failed, or had its failure overwritten (`UnchangedIsUndecided`); and
what is awaited is another run than the one before (`AwaitsAnother`). `Keeps` says
once what the steps of the others leave of this.

### Connection tracker (`ConnTracker_proofs`)

| Theorem | Says |
|---|---|
| `TrackerTypeCorrect` | `TrackerSpec => []TrackerTypeOK` |
| `TablesAlwaysAgree` | `TrackerSpec => []TablesAgree` |
| `EvictionAlwaysOwed` | `TrackerSpec => []EvictionIsOwed` |
| `LivingAreSpared` | `TrackerSpec => SparedUnlessTakenOver` |

`TrackerTypeOK` and `TablesAgree` are in no run any more, for the same reason. The
theorems hold for any processes, addresses and requests and any number of
connections, under `TrackerAssumption`. The invariant is

    TrackerInv == TrackerTypeOK /\ WorldInv /\ TablesInv /\ OwnedInv

* `WorldInv` is what the operating system guarantees: only living processes hold
  sockets, and a request's sender holds its socket unless it left it.
* `TablesInv` is `TablesAgree` with what makes it inductive: a connection is listed
  under its own PID only, identifiers are not given out again, an exit that a
  watcher saw has happened, the PID `Resolve` found is the sender's unless the
  sender left its socket, and a tracked address in another's hands is marked taken over.
* `OwnedInv` says who will evict a record: its connection is listed under the PID
  of *its sender*, or under eviction with the sender dead, or excepted. It holds
  for requests that have been attributed and not stored as well, since they
  store later. From it both `EvictionIsOwed` and `SparedUnlessTakenOver` follow:
  what is evicted under a connection was sent by its dead owner.

### Metrics export (`MetricsExport_proofs`)

| Theorem | Says |
|---|---|
| `ExportTypeCorrect` | `ExportSpec => []ExportTypeOK` |
| `RequestsUseALiveExporter` | `ExportSpec => []NeverThroughAStopped` |
| `StatusMatchesSettings` | `ExportSpec => []StatusIsConsistent` |
| `ExportersAreOwned` | `ExportSpec => []NoneLeftRunning` |

`ExportTypeOK` and `StatusIsConsistent` are in no run. The theorems hold for any
callers, senders and destinations, under `ExportAssumption`. The
invariant `ExportInv` adds to the three properties: an exporter is in one place
only (`InOnePlace`: current, stopped, or in one call's hands), a call holds one
only between building and installing or between taking out and stopping
(`CallsHoldOne`), only built exporters are anywhere, a request that holds the
read lock goes through the *current* exporter (`ReadersUseTheCurrent`, by the
readers-writer lock), and an exporter was built for the settings it is current
under (`BuiltForSettings`), which is why a late answer names the destination of
the settings.

### Logs export (`LogsExport_proofs`)

| Theorem | Says |
|---|---|
| `ForwardedWhereMeant` | `LogsSpec => []ForwardedAsReceived` |
| `NothingComesLater` | `LogsSpec => []NothingInFlightAfterReturn` |
| `EverySendAccounted` | `LogsSpec => []SendsAreAccounted` |

For any callers, batches, destinations and number of components, under
`LogsAssumption`. The three properties say what holds while the lock is free; the
invariant says what holds at every step of the call that has it:

* `Phase` has one disjunct for each thing the holder may be doing (an unchanged
  save, retiring the active component, settling, retiring the one it brought,
  installing), each with the lives of both components and with what `activity` and
  the counters of components add up to there: the accepted sends move from a
  component's counter to the controller's exactly once.
* `OwnerInv`: a component that runs is installed or in one call's hands, no two calls
  bring the same one, and the installed one was built for the settings.
* `BatchInv`: a batch in hand goes through the installed component, or through one
  that has stopped and then is not in flight; and what its component was built for
  is where the batch was meant to go. The first theorem rests on this and not on
  the lock: a sender takes it for a moment only.

### Session hook (`Plugin_proofs`)

| Theorem | Says |
|---|---|
| `SignalsAreOwn` | `Spec => []SignalsOnlyOwn` |
| `RecordsStayTrue` | `Spec => []RecordsAreTrue` |

For any sessions, pids, versions and any number of observers, sessions and changes,
for the two hosts the plugin has. Neither property is inductive, since hooks act on
what they saw several steps ago. `BootInv` adds:

* `ProcInv`: observers are numbered as they start, at most one listens, and no two
  that live share a pid - so whoever answers and whoever listens is the same one.
* `GoodInv`: an observer of the host that no hook has signalled or abandoned
  (`Good`) listens, unless the hook that started it still waits for it.
* `RecordSound`: what a record, or what a hook is about to write, says of a living
  observer. It must be kept through a write that replaces the record of another
  observer, which is why the hook must know of no other `Good` one at the endpoint.
* `HookSound`: what a hook knows at each of its steps. The one at `livepid` has seen
  the only good observer at its endpoint, if there is one; the one that waits for its
  child has no rival; the pid that a hook will signal was that of the observer it
  saw, which is on record; and if the user stops the observer meanwhile, the hook is
  excused or writes the stop itself.

`LookGoes`, `LookReturns` and `WorldKept` say once what the steps keep that only look,
that end a hook, or that are none of the hooks'; `SignalKept` and `StartKept` what
happens to the processes.

### Runtime and release (`Plugin_proofs`)

| Theorem | Says |
|---|---|
| `OnlyPinnedIsRun` | `CacheSpec => []OnlyPinnedRuns` |
| `OfferedIsWhole` | `ReleaseSpec => []OfferedPluginIsWhole` |

For any number of attempts, faults, releases, edits and crashes. `CacheInv` adds that
a call extracts only an archive it has verified. `ReleaseInv` follows a version
from its build to the offer: a published version was tagged at a commit whose
manifest pins it (`PublishedIsPinned`), a marketplace pull request is about a
published one (`SyncingIsPublished`), and what main offers was such a request
(`OfferedIsPublished`) - although main's own version moves on meanwhile.

### Documents of the hook (`Plugin_proofs`)

| Theorem | Says |
|---|---|
| `ReadAsMeant` | `RulesSpec => []HookRules` |

For any file systems, of any depth and with any names, whose `.git` files lead anywhere
in them (`FileSystemsAssumption`); configurations and manifests are records of what the
hook tells apart, all of which are covered. The part that needs an argument is
`SameRepository`: the nearest marked directory exists and is one (among the marked
ones on the way to the root, one whose distance is least, by `LeastNumber`; two paths
to the root of one length are one), and the nearest one of a repository is the
repository itself.

### Report files (`Skills_proofs`)

| Theorem | Says |
|---|---|
| `PagesAreOneStory` | `ChainSpec => []PageIsOneStory` |
| `CompletePagesAreProven` | `ChainSpec => []CompleteMeansProven` |
| `ReadersFindWholeFiles` | `WriteSpec => []NeverTorn` |
| `HeldDirectoriesAreRight` | `WriteSpec => []HeldDirectoriesHold` |
| `WritesStayWhole` | `WriteSpec => []WritesAreWhole`, if `MaxMoves <= 3` |

For any audits, findings, sessions, writers and directories. `ChainInv` says that
what a session has read so far fits together (`Fits`: each file was made for the
ones before it), whatever has been written to the files since. A page counts a
verification only if it is bound to this instrumentation and `normalize_verify` takes
it, and the rules take the result *Pass* for proven rows alone.

`WriteInv` says that a target is never a part of a file, that
between filling and renaming a writer's temporary file is whole, and that a
writer that holds its directory open is in it. `SuccessIsInPlace` is about the
fallback, which goes by the path, and needs a count: `DriftInv` says how often
directories must have been renamed for a fallback to be where it is while its file
is elsewhere - away when the temporary file is made, back at the first comparison,
away at the rename, back at the second. It takes four moves, and TLC finds the
counterexample with four, so the hypothesis `MaxMoves <= 3` is exactly the window
that the fallback's own comment concedes.

### Report rules (`Skills_proofs`)

| Theorem | Says |
|---|---|
| `EveryVerificationHasItsResult` | of the results, `normalize_verify` takes exactly one for the rows it takes, and it says what ran (`ResultTells`) |
| `EveryScenarioIsSortedOnce` | the coverage details sort a scenario once, and the summary's sentence agrees (`SaysWhatItSorts`) |

These are facts about `ProofRules` for every value, and two of the parts of
`ReportsAreConsistent`. A third, `NamesEveryGap`, is a lemma only: the rules that
`normalize_audit_report` ends with, each about a list of its own, leave one finding for
each gap, which is open, tells how to verify it and is in the flow map.

### Report pages (`Skills_proofs`)

| Theorem | Says |
|---|---|
| `PagesShowTheProof` | of every bound flow, the counts, headings, cards, tables and next steps of its page tell one story |
| `MarkdownReportsAgree` | whatever is accepted of the two Markdown reports of a bound flow says what the page says; the reader's can be written of every verified one, `otel.md` exactly if every finding has its tests and evidence |
| `PassingReportsCloseAll` | a plain `otel.md` that passes has a row for each gap and for nothing else, and leaves none open |
| `ReportsConsistent` | `ReportsSpec => []ReportsAreConsistent` |

For any number of findings, scenarios and telemetry items and any set `Reports`. The
hypotheses are what the scripts have accepted (`FlowBound`, `PlainAccepted`, lists that
are lists). Three things carry them:

* *Counting.* The page counts proofs of all findings, the instrumentation counts what it
  planned. Identifiers are unique in a flow, so the proofs are mapped one to one to
  places of the plan (`ItemsCounted`), and groups that exclude each other
  add up (`GroupsAddUp`, `CountsAgree`).
* *Order.* The reader's report lists gaps in the order of the plan. That such a list
  exists and what its length is comes from ranks (`OrderExists`, `InOrderLists`).
* *Existence.* That validators and page agree would be empty if no report were accepted.
  `SomeMarkdownAccepted` and `SomeReaderAccepted` therefore name an accepted one: of a
  bound flow whose findings all have tests and evidence, and of every verified one.

### Finding selection (`Skills_proofs`)

| Theorem | Says |
|---|---|
| `PageAgreement` | `PageSpec => []PageAgreesWithSelect` |
| `ApprovalsComplete` | `PageSpec => []ApprovalsAreComplete` |

For any findings, options and any audit that `normalize_audit_report` accepts, in
whatever order the reviewer ticks, answers, clears and reopens. `PageInv` says that the
answers are ones that `select` accepts, that every ticked finding can be selected under
them, and that what the page shows as selected is `select`'s closure of what is ticked;
and the same of the approval on file. What makes it inductive is that the script and
the Python code agree on each finding (`PageOffersSelectable`) and on closures
(`PageClosureAlike`). The latter is where they differ as programs: `select` fails when a
blocked finding is on the way, the page leaves it out. They agree because what
is ticked is clear of blockers, and everything that a clear finding requires is clear
(`ClearStep`, `IncludedIsClear`). Facts about visits come from their being least closed
sets (`VisitedLeast`, `VisitedClosed`).

### Evaluation sessions (`Evaluation_proofs`)

| Theorem | Says |
|---|---|
| `PublishedAreSound` | `SessionSpec => []PublicationsAreSound` |

For any evaluations, workers, edits and losses. `SessionInv` puts the contents in
order: a file edited at most once only grows (`Edited01`), so its digest is at most
what was staged and that at most what is there now (`DigestBefore`,
`StagedBetween`); the run on disk is about the evaluations as they ended
(`RawSound`), none of which moves once all workers are done (`WorkersDone`); and
the digest of a published report is made of that run, however the rest of the
report was edited (`StampsSound`). If the digest then equals today's, so does what
was staged between.

### Runtime checks (`Evaluation_proofs`)

| Theorem | Says |
|---|---|
| `ChecksStayEarned` | `RuntimeSpec => []ChecksAreEarned` |

For any checks and for any plans of the shape that `RuntimeAssumption` gives them: any
number of logs and lines, any exact count. A check shares nothing with the others
but the bound on troubles, so the invariant is about one check and its project:
what the application has done by each stage (`WorkSound`: until the service is
stopped, everything it recorded of the traffic is in its buffer or at the
observer, and afterwards at the observer, if it exports at its end), what was
counted and what is known of its fields and details (`SeenSound`), that a pass is
deserved when it is given (`PassSound`), and that nothing keeps a sound service from
one (`EarnSound`; every entry of the list then has its detail, `DetailMissingStep`).
`CleanSeen` is the heart of the latter: if nothing of the start
is among what was counted, then it is the one log that the plan asks for. The proof
made two things exact that the small instance had left open: the exception for a
record too many is for *more than one* log, and a sound service can only be
promised a pass where no more than its one log is asked for (`plan.exact <= 1`).

### Evaluation reports (`Evaluation_proofs`)

| Theorem | Says |
|---|---|
| `HonestEvaluations` | `VerdictSpec => []EvaluationsAreHonest` |

For any set `Evaluated`: any number of events, lines, records, prompts, evaluations,
checks and items of a rubric. `Legible` gives them the shape that the code reads
(finite lists, naturals, at most one grade). The parts are proved one by one:

* `SkillReadFirst`: the reads up to some action leave no gap, so for each line there is
  a first one of them that reaches it, and that one has read it.
* `UsageIsHonest` and `ReportTellsFailures` compare what is added up over all sides with
  what is added up evaluation by evaluation. A sum is the size of a union of tagged
  disjoint intervals, so sums can be compared by maps between sets: a sum over disjoint
  groups of sums is the sum over all, a sum of numbers that are all at most others'
  is at most theirs, and if the two sums are equal so is each number. From the last it
  follows that where usage was recorded a total is shown only if no side's is unknown,
  and that nothing is listed as failed only if each side passed.
* `TotalsAreWhole` is arithmetic over the fields a provider may leave out, and
  `JudgeIsHeard` a case distinction over exit, lateness and what was said.

### Report server (`Skills_proofs`)

| Theorem | Says |
|---|---|
| `ReportsStayServed` | `ServerSpec => []ReportsAreServed` |

For any commands and any number of servers, directories, polls and mishaps. The
first half of `ServerInv` holds always: servers are launched in order
(`OrderInv`), and what a command has read names a server that answers as the
record said, is dead, or passed its idle limit during the probe (`RecordInv`).
The second half holds until a command is killed while its server is starting:

* a starting server has a command that waits for it under the launch lock, the
  record is the one that this command wrote, and no two servers have one token
  (`LaunchInv`) - so the token that `cmd_serve_report` finds is its own;
* whoever concluded under the lock that there is no server to be found, or that
  its own token is on record, is still right when it launches or unlinks
  (`LockInv`), because only the holder of the lock or the server it waits for
  writes the record.

Most steps move one command only; `QuietStep` says once what such a step keeps, and
`EndStep` what the end of a server keeps. `OneLaunch` turns the lock into what the
other steps need: that nobody else launches, asks under the lock or cleans up.

### Resource resolver (`Skills_proofs`)

| Theorem | Says |
|---|---|
| `ResolutionsAreSound` | `ResolverSpec => []ResolutionIsSound` |
| `OnlyAbsentAreCreated` | `ResolverSpec => []CreatesOnlyAbsent` |

For any number of runs, resources, pages, attempts and faulty answers. `ResolveInv`
consists of

* `StockInv`: identifiers are given out in order, what is listed exists, and where
  the service keeps names unique there is one of a name in a project;
* `RunSound`: what a run has settled for exists, has the name or was selected, and
  the stream is one of that project (`SettledFor`); what it has collected is listed
  (`Collects`); and what was listed with the name when the lookup began has been
  collected or is on a page to come (`Awaits`), so that at the end of an unbroken
  listing nothing of it remains - which is the second theorem;
* `ClaimsInv`: no two runs say that they created the same resource, whatever
  answers were lost.

### Agent policy (`Skills_proofs`)

| Theorem | Says |
|---|---|
| `ChangesAreNoticed` | `PolicySpec => []ChangedSkillsAreEvaluated` |

For any skills, references, rubrics and edits. The invariant is that the consumer
map of the base is true (`MapIsTrue`), which an accepted tree passes on when it is
merged. What a skill reads is a least closed set of references (`Reached`). If
neither the skill nor any reference that it reads before or after has changed,
then what it reads in both trees is closed in either, so nothing is read in only
one of them (`ReachedStays`); and every reference that did change has the skill
among its consumers in one of the two maps, and the policy asks for its
evaluation.

### Span ring (`Telemetry_proofs`)

| Theorem | Says |
|---|---|
| `IndexAlwaysExact` | `RingSpec => []IndexIsExact` |
| `RingAlwaysALog` | `RingSpec => RingIsALog`, the refinement of `SpanLog` |

For any capacity above zero, identities, connections and numbers of receipts. The
invariant is

    RingInv == /\ RingTypeOK /\ RingShape /\ IndexedWereReceived
               /\ IndexMatchesRing /\ RetainedCopyIsLatest

`RingShape` says that a ring that is not full writes behind what it retains;
from it, a few lemmas compute the live slots before and after a push, without and
with overwriting, once and for all the wraps of head and start. An eviction moves the
span at place *i* to its rank among those that stay; that ranks are increasing, onto
and reach exactly up to the new count are lemmas about finite sets of numbers,
proved over the cardinality of initial segments. They show both that the rebuilt
index is exact and that the retained spans keep their order.

The refinement maps `AddBegin` to `Empty` or a stutter, `AddOne` to `Replace` if its
identity is in the index and to `Arrive` (with or without dropping the oldest)
otherwise, `Evict` to `Forget` with the places that stay as witness, and the
clear to `Empty`. Items that a clear leaves behind in the slice are not read.

### Live push (`Telemetry_proofs`)

| Theorem | Says |
|---|---|
| `PutOffAlwaysOwed` | `PushSpec => []PutOffIsOwed` |

For any telemetry signals, capacity of the channels, timer callbacks and browser
messages. `PutOffHasACooldown` alone would be inductive and says little. With
`NothingIsForgotten` the property is the safety core of `BrowserCatchesUp`: a signal
that is newer in the store than at a watching browser, and whose notification
was not dropped, is in one of the places `OnItsWay` lists, each of which leads on to a
push. It is inductive as it stands. The proof has a lemma for each action,
and the delicate ones are those where the signal changes hands: a feed drops a
telemetry signal under a pause (the browser does not watch, and resuming sends
everything), the throttle turns a job into a mark (whose cooldown runs), a goroutine
has read the store before the change and sends after it (the notification is under
way).

### Only model-checked

* The liveness properties (`RunsSettle`, `ConfigureCompletes`, `LockIsReleased`,
  `BrowserCatchesUp`, `PausedIsAnnounced`, `HooksEnd`): liveness under fairness is out
  of the prover's reach.
* `ConfigurationIsSound`: what a filter selects and its canonical text are computed by
  recursion over brackets inside brackets, and the text by sorting. These stay
  `RECURSIVE` operators, and what they compute for every filter would be an induction
  over the filter.

Elsewhere the models say what a recursive function or a loop of the code arrives at
instead of repeating its steps (a least closed set, the size of a union, a least
number). Where an induction over numbers was needed, it is the existence of a least
number, which the library has for well-founded orders.

## 6. Not modelled

* `Manager.Shutdown` (cancels the active run as the process ends), `SetStats`
  and `UpsertEntity` (called by tests only), `Latest` and `Findings` (plain reads).
* Batches of several records in `Validation`; empty batches, which do nothing.
* Provider projections and their quotas, and queries of the store.
* The three reads behind the summary, the findings and the issues of one answer:
  they may be of different moments, and of the answer only the run is kept.
* Several browser connections, and the messages that carry no signal.
* The gRPC half of the tracker, its `Shutdown`, and the reuse of a PID before a
  poll has seen it free: the poll cannot tell the two processes apart.
* Partial acceptance, data point counts, failed counts and error texts of the
  exporters; the encoding of events; retry delays.
* A metrics batch goes through whatever exporter is current when it is sent;
  unlike for logs no document promises otherwise, so no property says so.
* The answer of a connection test: `TestConnection` may find the exporter gone
  between its check and its send and then succeeds without sending.
* Of the hook: the texts it emits, the delivery of its correlation event, and where
  each platform keeps its directories. Two hosts at a time.
* Of the release: which files make up the plugin, and the contents of manifests
  beyond versions and hashes.
* Of the report tools: Markdown and HTML as text, `adopt-selection`, the preflight of
  `finalize-audit`, and the parsing of arguments.
* Of the evaluations: collection of tests, the A/B command, layouts, the details of
  endpoint payloads.
* Of the agent policy: what it requires of the contents of policy files.
* Programs that keep no state between calls and restate no rule of another
  (repository checks, scanners, the evaluation command line), the user interface,
  demonstrations and prose.

The coverage of the map is that of Python and Go together; the Go controllers in
section 7 are the largest part of the core that no module covers yet.

`hazards` in `PROJECT.json` lists what can go wrong in all of this that a test
would hardly reach, with the properties that would catch it; three have none, with
the reason why.

## 7. Plan

Done, with proofs: the validation core and its service, the HTTP tracker, metrics
and logs export, the span ring, the live push, the session hook, the plugin's
release, the report files and rules, the report server, the resource resolver, the
agent policy, the evaluation sessions and the runtime checks, the selection page, the
Markdown validators and the page, the hook's documents, grading and evaluation
reports. Checked only: the configuration validator. Next, in this order:

1. `TokenTransaction` and `ConnectionSettings`: crash and recovery of the
   pending-transaction file and of the credential journal.
2. `UserConfig`: watcher, debounce, revalidating reads and atomic replacement
   against an editor of the same file.
3. The gRPC half of `ConnTracker`, traces export with its bounded queue, provider
   retention, the managed life cycle.
4. The parts of one answer of the validation service: what a client may assume
   about findings and issues read at other moments than the summary.
