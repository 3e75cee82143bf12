---------------------------- MODULE MetricsExport ---------------------------
(***************************************************************************)
(* The live metrics exporter (internal/otlp/splunk_exporter.go): receivers *)
(* hand batches to whatever exporter is current while the MCP tool, the    *)
(* settings refresher and shutdown replace it.  exportMu is a Go RWMutex:  *)
(* exports hold it for reading over the whole request, a replacement takes *)
(* it for writing, and a writer that waits keeps new readers out.          *)
(*                                                                         *)
(* An exporter is a number, 0 is nil.  Destinations stand for the triple   *)
(* realm, endpoint, access token.                                          *)
(***************************************************************************)
EXTENDS Naturals, FiniteSets

CONSTANTS
  Callers,      \* concurrent calls of Configure... and Shutdown
  Senders,      \* concurrent exports and connection tests
  Dests,
  MaxExporters, \* bound: exporters built
  MaxAttempts   \* bound: where the counters stop

NoExporter == 0
NoDest == "nodest"

ASSUME ExportAssumption ==
  MaxExporters \in Nat /\ MaxAttempts \in Nat \ {0} /\ NoDest \notin Dests

Exporters == 1..MaxExporters

VARIABLES
  exporter, \* c.exporter
  config,   \* c.config: [enabled, dest]
  last,     \* c.hasLastExport, c.lastExport: [has, ok, dest]
  exported, \* c.exportedBatches
  failed,   \* c.failedBatches
  built,    \* exporters built so far
  target,   \* exporter -> the destination it was built for
  stopped,  \* exporters that were shut down
  caller,   \* caller -> [pc, config, keep, new, old]
  sender    \* sender -> [pc, via]

controller == <<exporter, config, last, exported, failed>>
evars == <<controller, built, target, stopped, caller, sender>>

Configs == [enabled : BOOLEAN, dest : Dests \cup {NoDest}]
NoLast  == [has |-> FALSE, ok |-> FALSE, dest |-> NoDest]
Off     == [enabled |-> FALSE, dest |-> NoDest]

IdleCaller == [pc |-> "idle", config |-> Off, keep |-> FALSE,
               new |-> NoExporter, old |-> NoExporter]
IdleSender == [pc |-> "idle", via |-> NoExporter]

ExportTypeOK ==
  /\ exporter \in Exporters \cup {NoExporter}
  /\ config \in Configs
  /\ last \in [has : BOOLEAN, ok : BOOLEAN, dest : Dests \cup {NoDest}]
  /\ exported \in 0..MaxAttempts /\ failed \in 0..MaxAttempts
  /\ built \in 0..MaxExporters
  /\ target \in [Exporters -> Dests \cup {NoDest}]
  /\ stopped \subseteq Exporters
  /\ caller \in [Callers ->
       [pc : {"idle", "lock", "trylock", "retire"}, config : Configs,
        keep : BOOLEAN, new : Exporters \cup {NoExporter},
        old : Exporters \cup {NoExporter}]]
  /\ sender \in [Senders ->
       [pc : {"idle", "accepted", "sending"},
        via : Exporters \cup {NoExporter}]]

ExportInit ==
  /\ exporter = NoExporter /\ config = Off
  /\ last = NoLast /\ exported = 0 /\ failed = 0
  /\ built = 0 /\ target = [e \in Exporters |-> NoDest] /\ stopped = {}
  /\ caller = [c \in Callers |-> IdleCaller]
  /\ sender = [s \in Senders |-> IdleSender]

InFlight == {s \in Senders : sender[s].pc = "sending"}

\* Mutation: a replacement does not wait for the requests in flight.
ReadersIgnored == TRUE

NoReader == InFlight = {}

\* Mutation: a waiting replacement does not keep new exports out.
WritersMayStarve == TRUE

NoWriterWaits == \A c \in Callers : caller[c].pc # "lock"

-----------------------------------------------------------------------------
(* Configure, ConfigureKeepingActivity *)

\* The new exporter is built before the locks are asked for; a disabled
\* config builds none.
Build(c, cfg, keep) ==
  /\ caller[c].pc = "idle"
  /\ cfg.enabled => cfg.dest # NoDest /\ built < MaxExporters
  /\ built' = IF cfg.enabled THEN built + 1 ELSE built
  /\ target' = IF cfg.enabled THEN [target EXCEPT ![built + 1] = cfg.dest]
                              ELSE target
  /\ caller' = [caller EXCEPT ![c] =
       [pc |-> "lock", config |-> cfg, keep |-> keep, old |-> NoExporter,
        new |-> IF cfg.enabled THEN built + 1 ELSE NoExporter]]
  /\ UNCHANGED <<controller, stopped, sender>>

\* The last attempt is kept only if it succeeded with the same destination.
KeptLast(cfg, keep) ==
  IF keep /\ cfg.dest = config.dest /\ last.ok THEN last ELSE NoLast

\* Under both locks.
Swap(c) ==
  /\ caller[c].pc = "lock" /\ NoReader
  /\ LET cfg  == caller[c].config
         keep == caller[c].keep
     IN  /\ config' = cfg
         /\ exported' = IF keep THEN exported ELSE 0
         /\ failed' = IF keep THEN failed ELSE 0
         /\ last' = KeptLast(cfg, keep)
  /\ exporter' = caller[c].new
  /\ caller' = [caller EXCEPT ![c] =
                  [IdleCaller EXCEPT !.pc = "retire", !.old = exporter]]
  /\ UNCHANGED <<built, target, stopped, sender>>

\* Mutation: the old exporter is stopped only when export goes on.
RetireIfEnabled(c) ==
  /\ caller[c].pc = "retire"
  /\ stopped' = IF config.enabled
                  THEN stopped \cup ({caller[c].old} \ {NoExporter}) ELSE stopped
  /\ caller' = [caller EXCEPT ![c] = IdleCaller]
  /\ UNCHANGED <<controller, built, target, sender>>

\* old.Shutdown, after the locks were released.
Retire(c) ==
  /\ caller[c].pc = "retire"
  /\ stopped' = stopped \cup ({caller[c].old} \ {NoExporter})
  /\ caller' = [caller EXCEPT ![c] = IdleCaller]
  /\ UNCHANGED <<controller, built, target, sender>>

-----------------------------------------------------------------------------
(* Shutdown *)

BeginShutdown(c) ==
  /\ caller[c].pc = "idle"
  /\ caller' = [caller EXCEPT ![c].pc = "trylock"]
  /\ UNCHANGED <<controller, built, target, stopped, sender>>

\* lockRWMutexForShutdown tries without waiting in line.
TakeForShutdown(c) ==
  /\ caller[c].pc = "trylock" /\ NoReader /\ NoWriterWaits
  /\ exporter' = NoExporter
  /\ caller' = [caller EXCEPT ![c] =
                  [IdleCaller EXCEPT !.pc = "retire", !.old = exporter]]
  /\ UNCHANGED <<config, last, exported, failed, built, target, stopped,
                 sender>>

\* Its context ended first.
GiveUpShutdown(c) ==
  /\ caller[c].pc = "trylock"
  /\ caller' = [caller EXCEPT ![c] = IdleCaller]
  /\ UNCHANGED <<controller, built, target, stopped, sender>>

-----------------------------------------------------------------------------
(* Exports and connection tests *)

\* exportMetricsAsync and TestConnection look first whether an exporter is
\* configured; only the former asks whether it is enabled.
Accept(s, test) ==
  /\ sender[s].pc = "idle"
  /\ exporter # NoExporter
  /\ test \/ config.enabled
  /\ sender' = [sender EXCEPT ![s] =
                  [IdleSender EXCEPT !.pc = "accepted"]]
  /\ UNCHANGED <<controller, built, target, stopped, caller>>

\* Bound: the counters stop at MaxAttempts, the attempts do not.
Counted(n) == IF n < MaxAttempts THEN n + 1 ELSE n

\* ExportMetrics takes exportMu for reading and keeps it while it sends.  With
\* no exporter it returns nil: a test is answered with success, unsent.
ExportBegin(s) ==
  /\ sender[s].pc = "accepted" /\ NoWriterWaits
  /\ \/ /\ exporter # NoExporter
        /\ sender' = [sender EXCEPT ![s].pc = "sending", ![s].via = exporter]
     \/ /\ exporter = NoExporter
        /\ sender' = [sender EXCEPT ![s] = IdleSender]
  /\ UNCHANGED <<controller, built, target, stopped, caller>>

\* recordExport, then the read lock is released.
ExportEnd(s, ok) ==
  /\ sender[s].pc = "sending"
  /\ last' = [has |-> TRUE, ok |-> ok, dest |-> target[sender[s].via]]
  /\ exported' = IF ok THEN Counted(exported) ELSE exported
  /\ failed' = IF ok THEN failed ELSE Counted(failed)
  /\ sender' = [sender EXCEPT ![s] = IdleSender]
  /\ UNCHANGED <<exporter, config, built, target, stopped, caller>>

-----------------------------------------------------------------------------
CallerStep(c) == Swap(c) \/ Retire(c) \/ TakeForShutdown(c) \/ GiveUpShutdown(c)

SenderStep(s) == ExportBegin(s) \/ \E ok \in BOOLEAN : ExportEnd(s, ok)

ExportNext ==
  \/ \E c \in Callers :
       \/ \E cfg \in Configs, keep \in BOOLEAN : Build(c, cfg, keep)
       \/ BeginShutdown(c) \/ CallerStep(c)
  \/ \E s \in Senders :
       \/ \E test \in BOOLEAN : Accept(s, test)
       \/ SenderStep(s)

\* A waiting writer is let in once the readers before it have left (Go's
\* RWMutex), a request ends within its timeout, and goroutines are scheduled.
ExportFairness ==
  /\ \A c \in Callers : WF_evars(CallerStep(c))
  /\ \A s \in Senders : WF_evars(\E ok \in BOOLEAN : ExportEnd(s, ok))

ExportSpec == ExportInit /\ [][ExportNext]_evars /\ ExportFairness

-----------------------------------------------------------------------------
(* Properties *)

\* A request in flight never goes through an exporter that a replacement or
\* shutdown has already stopped, whose connections and context are gone.
NeverThroughAStopped ==
  \A s \in InFlight : sender[s].via \notin stopped

\* The last attempt shown beside the settings was made with the destination
\* they name, and the counters shown beside it include it: neither a late
\* answer nor a change that keeps the counters mixes two destinations.
StatusIsConsistent ==
  last.has => /\ last.dest = config.dest
              /\ IF last.ok THEN exported > 0 ELSE failed > 0

\* However configurations and shutdowns interleave, an exporter that was built
\* is current, or stopped, or in the hands of a call that will install or stop
\* it: none is left running with nobody to stop it.
NoneLeftRunning ==
  \A e \in 1..built :
    \/ e \in stopped \/ e = exporter
    \/ \E c \in Callers : e \in {caller[c].new, caller[c].old}

\* Settings are applied in the end however many batches keep arriving.
ConfigureCompletes ==
  \A c \in Callers : (caller[c].pc = "lock") ~> (caller[c].pc = "idle")
=============================================================================
