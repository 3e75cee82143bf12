----------------------------- MODULE LogsExport -----------------------------
(***************************************************************************)
(* Live forwarding of logs to Splunk HEC: the controller that owns the     *)
(* connection state (internal/otlp/splunk_hec_logs_controller.go), the     *)
(* queued components it installs and retires, and the receivers that       *)
(* capture a component for each batch before storing the batch locally.    *)
(*                                                                         *)
(* Controller operations hold c.mu for writing, also while they wait for a *)
(* retired component to drain; the components' own senders do not take it. *)
(* A component is a number, 0 is nil.  A destination stands for endpoint,  *)
(* token, index and TLS choice; NoDest is a config without a token.        *)
(***************************************************************************)
EXTENDS Naturals, FiniteSets

CONSTANTS
  Callers,      \* concurrent settings calls and shutdown
  Batches,      \* batches of logs received
  Dests,
  MaxComponents \* bound: components built

NoComponent == 0
NoDest == "nodest"
Free   == "free"

ASSUME LogsAssumption ==
  MaxComponents \in Nat /\ NoDest \notin Dests /\ Free \notin Callers

Components == 1..MaxComponents

VARIABLES
  mu,        \* the caller that holds c.mu for writing, or Free
  config,    \* c.config: [enabled, dest]
  exporter,  \* c.exporter
  closed,
  activity,  \* c.activity.ExportedBatches
  built,     \* components built so far
  target,    \* component -> its destination
  life,      \* component -> "none", "live", "stopping" or "stopped"
  sent,      \* component -> its exportedBatches
  call,      \* caller -> [pc, op, config, keep, new, victim, then]
  batch,     \* batch -> [pc, via]
  meant,     \* history: batch -> destination forwarded to when it came in
  receipt,   \* history: batch -> destination that received it
  answered   \* history: accepted sends since the counters were last reset

state   == <<config, exporter, closed, activity>>
parts   == <<built, target, life, sent>>
history == <<meant, receipt, answered>>
lvars   == <<mu, state, parts, call, batch, history>>

Ops == {"apply", "enable", "disable", "shutdown"}
Configs == {cfg \in [enabled : BOOLEAN, dest : Dests \cup {NoDest}] :
              cfg.enabled => cfg.dest # NoDest}
NoConfig == [enabled |-> FALSE, dest |-> NoDest]

IdleCall == [pc |-> "idle", op |-> "apply", config |-> NoConfig,
             keep |-> FALSE, new |-> NoComponent, victim |-> NoComponent,
             then |-> "install"]

LogsTypeOK ==
  /\ mu \in Callers \cup {Free}
  /\ config \in Configs
  /\ exporter \in Components \cup {NoComponent}
  /\ closed \in BOOLEAN /\ activity \in Nat
  /\ built \in 0..MaxComponents
  /\ target \in [Components -> Dests \cup {NoDest}]
  /\ life \in [Components -> {"none", "live", "stopping", "stopped"}]
  /\ sent \in [Components -> Nat]
  /\ call \in [Callers ->
       [pc : {"idle", "lock", "stop", "collect", "settle", "install"},
        op : Ops, config : Configs, keep : BOOLEAN,
        new : Components \cup {NoComponent},
        victim : Components \cup {NoComponent}, then : {"settle", "install"}]]
  /\ batch \in [Batches ->
       [pc : {"new", "local", "captured", "queued", "wire", "accepted",
              "dropped", "done"},
        via : Components \cup {NoComponent}]]
  /\ meant \in [Batches -> Dests \cup {NoDest}]
  /\ receipt \in [Batches -> Dests \cup {NoDest}]
  /\ answered \in Nat

\* Started without saved settings; saved ones are as if applied first.
LogsInit ==
  /\ mu = Free
  /\ config = NoConfig /\ exporter = NoComponent
  /\ closed = FALSE /\ activity = 0
  /\ built = 0
  /\ target = [e \in Components |-> NoDest]
  /\ life = [e \in Components |-> "none"]
  /\ sent = [e \in Components |-> 0]
  /\ call = [c \in Callers |-> IdleCall]
  /\ batch = [b \in Batches |-> [pc |-> "new", via |-> NoComponent]]
  /\ meant = [b \in Batches |-> NoDest]
  /\ receipt = [b \in Batches |-> NoDest]
  /\ answered = 0

-----------------------------------------------------------------------------
(* Settings calls *)

\* Bound: a call that will have to build a component still can.
ComponentsLeft ==
  built + Cardinality({c \in Callers : call[c].pc = "lock"
                                        /\ call[c].op = "enable"})
    < MaxComponents

\* NewSplunkHECLogsExporter, started; a probe may have been accepted already.
BuildComponent(dest, probes) ==
  /\ built < MaxComponents
  /\ built' = built + 1
  /\ target' = [target EXCEPT ![built + 1] = dest]
  /\ life' = [life EXCEPT ![built + 1] = "live"]
  /\ sent' = [sent EXCEPT ![built + 1] = probes]

\* The API or the refresher asks for new settings; a config with a token
\* comes with a component, enabled or not.
BeginApply(c, cfg, keep, probes) ==
  /\ call[c].pc = "idle"
  /\ \/ cfg.dest # NoDest /\ ComponentsLeft /\ BuildComponent(cfg.dest, probes)
     \/ cfg.dest = NoDest /\ UNCHANGED parts
  /\ call' = [call EXCEPT ![c] =
       [IdleCall EXCEPT !.pc = "lock", !.config = cfg, !.keep = keep,
          !.new = IF cfg.dest = NoDest THEN NoComponent ELSE built + 1]]
  /\ UNCHANGED <<mu, state, batch, history>>

BeginOther(c, op) ==
  /\ call[c].pc = "idle"
  /\ op = "enable" => ComponentsLeft
  /\ call' = [call EXCEPT ![c] = [IdleCall EXCEPT !.pc = "lock", !.op = op]]
  /\ UNCHANGED <<mu, state, parts, batch, history>>

\* c.mu.Lock was granted to a call op of c that goes on to retire component e.
Retiring(c, e, then) ==
  call' = [call EXCEPT ![c].pc = IF e = NoComponent THEN then ELSE "stop",
                       ![c].victim = e, ![c].then = then]

Granted(c, op) == call[c].pc = "lock" /\ call[c].op = op /\ mu = Free

\* After Shutdown a settings call only disposes of its component.
RefusedClosed(c) ==
  /\ call[c].pc = "lock" /\ mu = Free /\ closed
  /\ life' = IF call[c].new = NoComponent THEN life
             ELSE [life EXCEPT ![call[c].new] = "stopped"]
  /\ call' = [call EXCEPT ![c] = IdleCall]
  /\ UNCHANGED <<mu, state, built, target, sent, batch, history>>

\* Whether apply leaves the active component and its pending sends alone.
UnchangedSave(c) ==
  /\ call[c].keep /\ exporter # NoComponent /\ call[c].new # NoComponent
  /\ call[c].config = config

LockApply(c) ==
  /\ Granted(c, "apply") /\ ~closed
  /\ mu' = c
  /\ IF UnchangedSave(c) THEN Retiring(c, call[c].new, "install")
                         ELSE Retiring(c, exporter, "settle")
  /\ UNCHANGED <<state, parts, batch, history>>

\* Mutation: a save always starts the counters anew.
SettleFromZero(c) ==
  /\ call[c].pc = "settle"
  /\ activity' = 0
  /\ answered' = (IF call[c].keep THEN answered ELSE 0)
                 + (IF call[c].new = NoComponent THEN 0 ELSE sent[call[c].new])
  /\ Retiring(c, IF call[c].config.enabled THEN NoComponent ELSE call[c].new,
              "install")
  /\ UNCHANGED <<mu, config, exporter, closed, parts, batch, meant, receipt>>

\* apply between its two retirements: the counters, then the new component if
\* the settings leave export off.
Settle(c) ==
  /\ call[c].pc = "settle"
  /\ activity' = IF call[c].keep THEN activity ELSE 0
  /\ answered' = (IF call[c].keep THEN answered ELSE 0)
                 + (IF call[c].new = NoComponent THEN 0 ELSE sent[call[c].new])
  /\ Retiring(c, IF call[c].config.enabled THEN NoComponent ELSE call[c].new,
              "install")
  /\ UNCHANGED <<mu, config, exporter, closed, parts, batch, meant, receipt>>

\* exp.Shutdown cancels the component's context ...
Stop(c) ==
  /\ call[c].pc = "stop"
  /\ life' = [life EXCEPT ![call[c].victim] = "stopping"]
  /\ call' = [call EXCEPT ![c].pc = "collect"]
  /\ UNCHANGED <<mu, state, built, target, sent, batch, history>>

\* Mutation: only requests on the wire are waited for.
OnTheWire(e) == {b \in Batches : batch[b].via = e /\ batch[b].pc = "wire"}

Pending(e) == {b \in Batches : batch[b].via = e
                               /\ batch[b].pc \in {"queued", "wire", "accepted"}}

\* ... and waits for its senders; only then are its counters collected.
Collect(c) ==
  /\ call[c].pc = "collect" /\ Pending(call[c].victim) = {}
  /\ life' = [life EXCEPT ![call[c].victim] = "stopped"]
  /\ activity' = activity + sent[call[c].victim]
  /\ answered' = IF call[c].op = "apply" /\ UnchangedSave(c)
                   THEN answered + sent[call[c].victim] ELSE answered
  /\ call' = [call EXCEPT ![c].pc = call[c].then]
  /\ UNCHANGED <<mu, config, exporter, closed, built, target, sent, batch,
                 meant, receipt>>

\* The last assignments of apply, SetEnabled(false) and Shutdown.
Install(c) ==
  /\ call[c].pc = "install"
  /\ LET op == call[c].op
     IN  /\ config' = CASE op = "apply"    -> call[c].config
                        [] op = "disable"  -> [config EXCEPT !.enabled = FALSE]
                        [] op = "shutdown" -> config
         /\ exporter' = IF op # "apply" THEN NoComponent
                        ELSE IF UnchangedSave(c) THEN exporter
                        ELSE IF call[c].config.enabled THEN call[c].new
                        ELSE NoComponent
  /\ mu' = Free
  /\ call' = [call EXCEPT ![c] = IdleCall]
  /\ UNCHANGED <<closed, activity, parts, batch, history>>

\* SetEnabled(true) builds a component if there is none, or fails.
LockEnable(c) ==
  /\ Granted(c, "enable") /\ ~closed
  /\ \/ /\ exporter = NoComponent /\ config.dest # NoDest
        /\ BuildComponent(config.dest, 0)
        /\ exporter' = built + 1
        /\ config' = [config EXCEPT !.enabled = TRUE]
     \/ /\ exporter = NoComponent /\ config.dest = NoDest
        /\ UNCHANGED <<parts, exporter, config>>
     \/ /\ exporter # NoComponent
        /\ config' = [config EXCEPT !.enabled = TRUE]
        /\ UNCHANGED <<parts, exporter>>
  /\ call' = [call EXCEPT ![c] = IdleCall]
  /\ UNCHANGED <<mu, closed, activity, batch, history>>

LockDisable(c) ==
  /\ Granted(c, "disable") /\ ~closed
  /\ mu' = c
  /\ Retiring(c, exporter, "install")
  /\ UNCHANGED <<state, parts, batch, history>>

LockShutdown(c) ==
  /\ Granted(c, "shutdown") /\ ~closed
  /\ mu' = c /\ closed' = TRUE
  /\ Retiring(c, exporter, "install")
  /\ UNCHANGED <<config, exporter, activity, parts, batch, history>>

-----------------------------------------------------------------------------
(* Batches: receivers and the component's queue and sender *)

\* logsExporterForIngest, before the batch is stored locally.
Capture(b) ==
  /\ batch[b].pc = "new" /\ mu = Free
  /\ LET via == IF closed \/ ~config.enabled THEN NoComponent ELSE exporter
     IN  /\ batch' = [batch EXCEPT ![b] =
              [pc |-> IF via = NoComponent THEN "local" ELSE "captured",
               via |-> via]]
         /\ meant' = [meant EXCEPT ![b] =
              IF closed \/ ~config.enabled THEN NoDest ELSE config.dest]
  /\ UNCHANGED <<mu, state, parts, call, receipt, answered>>

Move(b, pc) == batch' = [batch EXCEPT ![b].pc = pc]

\* Mutation: the batch goes to whatever component is installed by then.
EnqueueToCurrent(b) ==
  /\ batch[b].pc = "captured" /\ mu = Free
  /\ batch' = [batch EXCEPT ![b] =
       [pc |-> IF exporter = NoComponent THEN "dropped" ELSE "queued",
        via |-> exporter]]
  /\ UNCHANGED <<mu, state, parts, call, history>>

\* exportLogsAsync hands the batch to the captured component, however much
\* later; a component that was stopped meanwhile refuses it.
Enqueue(b) ==
  /\ batch[b].pc = "captured"
  /\ Move(b, IF life[batch[b].via] = "stopped" THEN "dropped" ELSE "queued")
  /\ UNCHANGED <<mu, state, parts, call, history>>

\* Mutation: a cancelled component leaves its queue alone.
SendWhileLive(b) ==
  /\ batch[b].pc = "queued" /\ life[batch[b].via] = "live"
  /\ Move(b, "wire")
  /\ UNCHANGED <<mu, state, parts, call, history>>

\* observeHECResponse: a cancelled component drops what it takes from its queue.
Send(b) ==
  /\ batch[b].pc = "queued"
  /\ Move(b, IF life[batch[b].via] = "live" THEN "wire" ELSE "dropped")
  /\ UNCHANGED <<mu, state, parts, call, history>>

\* The service takes the batch in and answers.
Accept(b) ==
  /\ batch[b].pc = "wire"
  /\ Move(b, "accepted")
  /\ receipt' = [receipt EXCEPT ![b] = target[batch[b].via]]
  /\ UNCHANGED <<mu, state, parts, call, meant, answered>>

\* The answer is read and recorded, even by a component being stopped.
Record(b) ==
  /\ batch[b].pc = "accepted"
  /\ Move(b, "done")
  /\ sent' = [sent EXCEPT ![batch[b].via] = @ + 1]
  /\ answered' = answered + 1
  /\ UNCHANGED <<mu, state, built, target, life, call, meant, receipt>>

\* The request fails or its answer is lost: the retry sender queues it again,
\* or gives it up; a cancelled component always gives up.
Fail(b) ==
  /\ batch[b].pc \in {"wire", "accepted"}
  /\ \/ Move(b, "dropped")
     \/ life[batch[b].via] = "live" /\ Move(b, "queued")
  /\ UNCHANGED <<mu, state, parts, call, history>>

-----------------------------------------------------------------------------
Begin(c) ==
  \/ \E cfg \in Configs, keep \in BOOLEAN, probes \in {0, 1} :
       BeginApply(c, cfg, keep, probes)
  \/ \E op \in Ops \ {"apply"} : BeginOther(c, op)

Lock(c) ==
  \/ RefusedClosed(c) \/ LockApply(c) \/ LockEnable(c) \/ LockDisable(c)
  \/ LockShutdown(c)

Locked(c) == Settle(c) \/ Stop(c) \/ Collect(c) \/ Install(c)

Sender(b) == Enqueue(b) \/ Send(b) \/ Accept(b) \/ Record(b) \/ Fail(b)

LogsNext ==
  \/ \E c \in Callers : Begin(c) \/ Lock(c) \/ Locked(c)
  \/ \E b \in Batches : Capture(b) \/ Sender(b)

\* The caller that holds the lock and the component's goroutines run, and a
\* request ends within its timeout or when it is cancelled.
LogsFairness ==
  /\ WF_lvars(\E c \in Callers : Locked(c))
  /\ \A b \in Batches : WF_lvars(Sender(b))

LogsSpec == LogsInit /\ [][LogsNext]_lvars /\ LogsFairness

-----------------------------------------------------------------------------
(* Properties *)

\* docs/USER.md:253-256, "Only logs received while export is enabled are
\* forwarded", "not replayed on resume", "destination changes stop pending
\* remote sends": a batch reaches the destination that was configured and
\* enabled when it was received, or none.
ForwardedAsReceived ==
  \A b \in Batches : receipt[b] # NoDest => receipt[b] = meant[b]

\* "Pause, Disconnect and destination changes stop pending remote sends": once
\* the call has returned, nothing is on its way through any component but the
\* one that is installed.
NothingInFlightAfterReturn ==
  mu = Free =>
    \A b \in Batches :
      batch[b].pc \in {"queued", "wire", "accepted"} => batch[b].via = exporter

\* What Status shows as ExportedBatches while no call is in progress.
Shown == activity + (IF exporter = NoComponent THEN 0 ELSE sent[exporter])

\* Across pauses, replacements and unchanged saves no accepted send is lost
\* from the counters or counted twice.
EverySendCountedOnce == mu = Free => Shown = answered

\* Between calls only the installed component and those a call has just built
\* are running, and after Shutdown not even the installed one: a component
\* nobody owns would keep its queue, goroutines and token for ever.
NoneLeftBehind ==
  mu = Free =>
    \A e \in Components :
      life[e] = "live" =>
        \/ e = exporter /\ ~closed
        \/ \E c \in Callers : call[c].new = e

\* Every accepted send is counted once, and no component is left running without
\* an owner (apply, Shutdown, retire).
SendsAreAccounted == LogsTypeOK /\ EverySendCountedOnce /\ NoneLeftBehind

\* Every settings call lets go of the controller's lock, also when it has to
\* wait for requests in flight and while new batches keep arriving: nobody
\* waits for a sender that waits for the lock.
LockIsReleased == (mu # Free) ~> (mu = Free)
=============================================================================
