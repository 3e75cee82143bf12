------------------------ MODULE MetricsExport_proofs ------------------------
(***************************************************************************)
(* Theorems about module MetricsExport, for every set of callers, senders  *)
(* and destinations and every bound.                                       *)
(***************************************************************************)
EXTENDS MetricsExport, TLAPS

-----------------------------------------------------------------------------
(* The inductive invariant *)

\* The exporters a call is responsible for: the one it has built and not yet
\* installed, then the one it has taken out and not yet stopped.
CallsHoldOne ==
  \A c \in Callers :
    /\ caller[c].pc # "lock" => caller[c].new = NoExporter
    /\ caller[c].pc # "retire" => caller[c].old = NoExporter

\* An exporter is in one place only: current, stopped or in one call's hands.
InOnePlace ==
  /\ exporter \notin stopped
  /\ \A c \in Callers :
       /\ caller[c].new # NoExporter => caller[c].new \notin stopped \cup {exporter}
       /\ caller[c].old # NoExporter => caller[c].old # exporter
  /\ \A c, d \in Callers :
       /\ caller[c].new # NoExporter => caller[c].new # caller[d].old
       /\ c # d /\ caller[c].new # NoExporter => caller[c].new # caller[d].new

\* Only exporters that were built are anywhere.
OnlyTheBuilt ==
  /\ exporter <= built
  /\ \A e \in stopped : e <= built
  /\ \A c \in Callers : caller[c].new <= built /\ caller[c].old <= built

\* A request that holds the read lock goes through the current exporter.
ReadersUseTheCurrent ==
  \A s \in InFlight : sender[s].via = exporter /\ exporter # NoExporter

\* The current exporter was built for the current settings, and the one a call
\* will install for the settings it brings.
BuiltForSettings ==
  /\ exporter # NoExporter => target[exporter] = config.dest
  /\ \A c \in Callers :
       caller[c].new # NoExporter => target[caller[c].new] = caller[c].config.dest

ExportInv ==
  /\ ExportTypeOK /\ CallsHoldOne /\ InOnePlace /\ OnlyTheBuilt
  /\ ReadersUseTheCurrent /\ BuiltForSettings
  /\ StatusIsConsistent /\ NoneLeftRunning

-----------------------------------------------------------------------------
(* Calls and requests *)

LEMMA CallerFields ==
  ASSUME ExportTypeOK, NEW c \in Callers
  PROVE  /\ caller[c].pc \in {"idle", "lock", "trylock", "retire"}
         /\ caller[c].config \in Configs /\ caller[c].keep \in BOOLEAN
         /\ caller[c].new \in Exporters \cup {NoExporter}
         /\ caller[c].old \in Exporters \cup {NoExporter}
BY DEF ExportTypeOK

\* What a caller's step does to the call it belongs to.
Became(c, pc, cfg, new, old) ==
  /\ caller' \in [Callers ->
       [pc : {"idle", "lock", "trylock", "retire"}, config : Configs,
        keep : BOOLEAN, new : Exporters \cup {NoExporter},
        old : Exporters \cup {NoExporter}]]
  /\ caller'[c].pc = pc /\ caller'[c].config = cfg
  /\ caller'[c].new = new /\ caller'[c].old = old
  /\ \A d \in Callers \ {c} : caller'[d] = caller[d]

LEMMA OffIsAConfig == Off \in Configs
BY DEF Off, Configs

LEMMA BackToIdle ==
  ASSUME ExportTypeOK, NEW c \in Callers,
         caller' = [caller EXCEPT ![c] = IdleCaller]
  PROVE  Became(c, "idle", Off, NoExporter, NoExporter)
BY OffIsAConfig DEF ExportTypeOK, IdleCaller, Became

LEMMA TakesOut ==
  ASSUME ExportTypeOK, NEW c \in Callers,
         caller' = [caller EXCEPT ![c] =
                      [IdleCaller EXCEPT !.pc = "retire", !.old = exporter]]
  PROVE  Became(c, "retire", Off, NoExporter, exporter)
BY OffIsAConfig DEF ExportTypeOK, IdleCaller, Became

LEMMA BuildEffect ==
  ASSUME ExportTypeOK, NEW c \in Callers, NEW cfg \in Configs,
         NEW keep \in BOOLEAN, Build(c, cfg, keep)
  PROVE  /\ Became(c, "lock", cfg,
                   IF cfg.enabled THEN built + 1 ELSE NoExporter, NoExporter)
         /\ built' \in 0..MaxExporters
         /\ cfg.enabled => built + 1 \in Exporters
<1>1. cfg.enabled => built + 1 \in Exporters
  BY ExportAssumption DEF ExportTypeOK, Build, Exporters
<1>2. built' \in 0..MaxExporters
  BY ExportAssumption DEF ExportTypeOK, Build
<1>3. Became(c, "lock", cfg,
             IF cfg.enabled THEN built + 1 ELSE NoExporter, NoExporter)
  BY <1>1 DEF ExportTypeOK, Build, Became
<1> QED
  BY <1>1, <1>2, <1>3

LEMMA Numbers ==
  ASSUME ExportTypeOK
  PROVE  /\ built \in Nat /\ exporter \in Nat
         /\ \A d \in Callers : caller[d].new \in Nat /\ caller[d].old \in Nat
<1>1. Exporters \cup {NoExporter} \subseteq Nat
  BY ExportAssumption DEF Exporters, NoExporter
<1>2. built \in Nat
  BY ExportAssumption DEF ExportTypeOK
<1> QED
  BY <1>1, <1>2, CallerFields DEF ExportTypeOK

-----------------------------------------------------------------------------
(* Every step preserves the invariant *)

LEMMA BuildKeeps ==
  ASSUME ExportInv, NEW c \in Callers, NEW cfg \in Configs,
         NEW keep \in BOOLEAN, Build(c, cfg, keep)
  PROVE  ExportInv'
<1>1. /\ Became(c, "lock", cfg,
                IF cfg.enabled THEN built + 1 ELSE NoExporter, NoExporter)
      /\ built' \in 0..MaxExporters
      /\ cfg.enabled => built + 1 \in Exporters
  BY BuildEffect DEF ExportInv
<1>2. ExportTypeOK'
  BY <1>1
     DEF ExportInv, Build, controller, Became, NoExporter, Configs,
         ExportTypeOK
<1>3. CallsHoldOne'
  BY <1>1 DEF ExportInv, Build, controller, Became, NoExporter, CallsHoldOne
<1>4. InOnePlace'
  BY <1>1, Numbers
     DEF ExportInv, Build, controller, Became, NoExporter, OnlyTheBuilt,
         InOnePlace
<1>5. OnlyTheBuilt'
  BY <1>1, Numbers
     DEF ExportInv, Build, controller, Became, NoExporter, ExportTypeOK,
         Exporters, OnlyTheBuilt
<1>6. ReadersUseTheCurrent'
  BY <1>1
     DEF ExportInv, Build, controller, Became, NoExporter,
         ReadersUseTheCurrent, InFlight
<1>7. BuiltForSettings'
  BY <1>1
     DEF ExportInv, Build, controller, Became, NoExporter, OnlyTheBuilt,
         ExportTypeOK, Exporters, Configs, BuiltForSettings
<1>8. StatusIsConsistent'
  BY <1>1
     DEF ExportInv, Build, controller, Became, NoExporter, StatusIsConsistent
<1>9. NoneLeftRunning'
  <2> SUFFICES ASSUME NEW e \in 1..built'
               PROVE  \/ e \in stopped' \/ e = exporter'
                      \/ \E d \in Callers :
                           e \in {caller'[d].new, caller'[d].old}
    BY DEF NoneLeftRunning
  <2>1. CASE e \in 1..built
    <3>1. caller[c].new = NoExporter /\ caller[c].old = NoExporter
      BY DEF ExportInv, CallsHoldOne, Build
    <3> QED
      BY <1>1, <2>1, <3>1
         DEF ExportInv, Build, controller, Became, NoExporter, NoneLeftRunning
  <2>2. CASE e \notin 1..built
    <3>1. cfg.enabled /\ e = built + 1
      BY <2>2, Numbers DEF ExportInv, Build
    <3> QED
      BY <1>1, <3>1 DEF Became
  <2> QED
    BY <2>1, <2>2
<1> QED
  BY <1>2, <1>3, <1>4, <1>5, <1>6, <1>7, <1>8, <1>9 DEF ExportInv

LEMMA BeginShutdownKeeps ==
  ASSUME ExportInv, NEW c \in Callers, BeginShutdown(c)
  PROVE  ExportInv'
<1>1. /\ Became(c, "trylock", caller[c].config, NoExporter, NoExporter)
  <2>1. caller[c].new = NoExporter /\ caller[c].old = NoExporter
    BY DEF ExportInv, CallsHoldOne, BeginShutdown
  <2>2. Became(c, "trylock", caller[c].config, NoExporter, NoExporter)
    BY <2>1 DEF ExportInv, ExportTypeOK, BeginShutdown, Became
  <2> QED
    BY <2>2
<1>2. ExportTypeOK'
  BY <1>1
     DEF ExportInv, BeginShutdown, controller, Became, NoExporter,
         ExportTypeOK
<1>3. CallsHoldOne'
  BY <1>1
     DEF ExportInv, BeginShutdown, controller, Became, NoExporter,
         CallsHoldOne
<1>4. InOnePlace'
  BY <1>1, Numbers
     DEF ExportInv, BeginShutdown, controller, Became, NoExporter,
         ExportTypeOK, Exporters, InOnePlace
<1>5. OnlyTheBuilt'
  BY <1>1, Numbers
     DEF ExportInv, BeginShutdown, controller, Became, NoExporter,
         ExportTypeOK, Exporters, OnlyTheBuilt
<1>6. ReadersUseTheCurrent'
  BY <1>1
     DEF ExportInv, BeginShutdown, controller, Became, NoExporter,
         ReadersUseTheCurrent, InFlight
<1>7. BuiltForSettings'
  BY <1>1
     DEF ExportInv, BeginShutdown, controller, Became, NoExporter,
         BuiltForSettings
<1>8. StatusIsConsistent'
  BY <1>1
     DEF ExportInv, BeginShutdown, controller, Became, NoExporter,
         StatusIsConsistent
<1>9. NoneLeftRunning'
  BY <1>1, Numbers
     DEF ExportInv, BeginShutdown, controller, Became, NoExporter,
         CallsHoldOne, ExportTypeOK, Exporters, NoneLeftRunning
<1> QED
  BY <1>2, <1>3, <1>4, <1>5, <1>6, <1>7, <1>8, <1>9 DEF ExportInv

LEMMA SwapKeeps ==
  ASSUME ExportInv, NEW c \in Callers, Swap(c)
  PROVE  ExportInv'
<1>1. /\ Became(c, "retire", Off, NoExporter, exporter)
  BY TakesOut DEF ExportInv, Swap
<1>2. ExportTypeOK'
  BY <1>1, CallerFields, ExportAssumption
     DEF ExportInv, Swap, Became, NoExporter, KeptLast, NoLast, ExportTypeOK
<1>3. CallsHoldOne'
  BY <1>1 DEF ExportInv, Swap, Became, NoExporter, CallsHoldOne
<1>4. InOnePlace'
  BY <1>1, Numbers
     DEF ExportInv, Swap, Became, NoExporter, CallsHoldOne, ExportTypeOK,
    Exporters, InOnePlace
<1>5. OnlyTheBuilt'
  BY <1>1, Numbers
     DEF ExportInv, Swap, Became, NoExporter, ExportTypeOK, Exporters,
         OnlyTheBuilt
<1>6. ReadersUseTheCurrent'
  BY <1>1
     DEF ExportInv, Swap, Became, NoExporter, NoReader, ReadersUseTheCurrent,
         InFlight
<1>7. BuiltForSettings'
  BY <1>1
     DEF ExportInv, Swap, Became, NoExporter, CallsHoldOne, BuiltForSettings
<1>8. StatusIsConsistent'
  BY <1>1
     DEF ExportInv, Swap, Became, NoExporter, KeptLast, NoLast,
         StatusIsConsistent
<1>9. NoneLeftRunning'
  BY <1>1, Numbers
     DEF ExportInv, Swap, Became, NoExporter, CallsHoldOne, ExportTypeOK,
         Exporters, NoneLeftRunning
<1> QED
  BY <1>2, <1>3, <1>4, <1>5, <1>6, <1>7, <1>8, <1>9 DEF ExportInv

LEMMA TakeForShutdownKeeps ==
  ASSUME ExportInv, NEW c \in Callers, TakeForShutdown(c)
  PROVE  ExportInv'
<1>1. /\ Became(c, "retire", Off, NoExporter, exporter)
  BY TakesOut DEF ExportInv, TakeForShutdown
<1>2. ExportTypeOK'
  BY <1>1 DEF ExportInv, TakeForShutdown, Became, NoExporter, ExportTypeOK
<1>3. CallsHoldOne'
  BY <1>1 DEF ExportInv, TakeForShutdown, Became, NoExporter, CallsHoldOne
<1>4. InOnePlace'
  BY <1>1, Numbers
     DEF ExportInv, TakeForShutdown, Became, NoExporter, ExportTypeOK,
         Exporters, InOnePlace
<1>5. OnlyTheBuilt'
  BY <1>1, Numbers
     DEF ExportInv, TakeForShutdown, Became, NoExporter, ExportTypeOK,
         Exporters, OnlyTheBuilt
<1>6. ReadersUseTheCurrent'
  BY <1>1
     DEF ExportInv, TakeForShutdown, Became, NoExporter, NoReader,
         ReadersUseTheCurrent, InFlight
<1>7. BuiltForSettings'
  BY <1>1 DEF ExportInv, TakeForShutdown, Became, NoExporter, BuiltForSettings
<1>8. StatusIsConsistent'
  BY <1>1
     DEF ExportInv, TakeForShutdown, Became, NoExporter, StatusIsConsistent
<1>9. NoneLeftRunning'
  BY <1>1, Numbers
     DEF ExportInv, TakeForShutdown, Became, NoExporter, CallsHoldOne,
         ExportTypeOK, Exporters, NoneLeftRunning
<1> QED
  BY <1>2, <1>3, <1>4, <1>5, <1>6, <1>7, <1>8, <1>9 DEF ExportInv

LEMMA RetireKeeps ==
  ASSUME ExportInv, NEW c \in Callers, Retire(c)
  PROVE  ExportInv'
<1>1. /\ Became(c, "idle", Off, NoExporter, NoExporter)
  BY BackToIdle DEF ExportInv, Retire
<1>2. ExportTypeOK'
  BY <1>1, CallerFields
     DEF ExportInv, Retire, controller, Became, NoExporter, ExportTypeOK
<1>3. CallsHoldOne'
  BY <1>1 DEF ExportInv, Retire, controller, Became, NoExporter, CallsHoldOne
<1>4. InOnePlace'
  BY <1>1, Numbers
     DEF ExportInv, Retire, controller, Became, NoExporter, ExportTypeOK,
         Exporters, InOnePlace
<1>5. OnlyTheBuilt'
  BY <1>1, Numbers
     DEF ExportInv, Retire, controller, Became, NoExporter, ExportTypeOK,
         Exporters, OnlyTheBuilt
<1>6. ReadersUseTheCurrent'
  BY <1>1
     DEF ExportInv, Retire, controller, Became, NoExporter,
         ReadersUseTheCurrent, InFlight
<1>7. BuiltForSettings'
  BY <1>1
     DEF ExportInv, Retire, controller, Became, NoExporter, BuiltForSettings
<1>8. StatusIsConsistent'
  BY <1>1
     DEF ExportInv, Retire, controller, Became, NoExporter, StatusIsConsistent
<1>9. NoneLeftRunning'
  BY <1>1, Numbers
     DEF ExportInv, Retire, controller, Became, NoExporter, CallsHoldOne,
         ExportTypeOK, Exporters, NoneLeftRunning
<1> QED
  BY <1>2, <1>3, <1>4, <1>5, <1>6, <1>7, <1>8, <1>9 DEF ExportInv

LEMMA GiveUpShutdownKeeps ==
  ASSUME ExportInv, NEW c \in Callers, GiveUpShutdown(c)
  PROVE  ExportInv'
<1>1. /\ Became(c, "idle", Off, NoExporter, NoExporter)
  BY BackToIdle DEF ExportInv, GiveUpShutdown
<1>2. ExportTypeOK'
  BY <1>1
     DEF ExportInv, GiveUpShutdown, controller, Became, NoExporter,
         ExportTypeOK
<1>3. CallsHoldOne'
  BY <1>1
     DEF ExportInv, GiveUpShutdown, controller, Became, NoExporter,
         CallsHoldOne
<1>4. InOnePlace'
  BY <1>1, Numbers
     DEF ExportInv, GiveUpShutdown, controller, Became, NoExporter,
         ExportTypeOK, Exporters, InOnePlace
<1>5. OnlyTheBuilt'
  BY <1>1, Numbers
     DEF ExportInv, GiveUpShutdown, controller, Became, NoExporter,
         ExportTypeOK, Exporters, OnlyTheBuilt
<1>6. ReadersUseTheCurrent'
  BY <1>1
     DEF ExportInv, GiveUpShutdown, controller, Became, NoExporter,
         ReadersUseTheCurrent, InFlight
<1>7. BuiltForSettings'
  BY <1>1
     DEF ExportInv, GiveUpShutdown, controller, Became, NoExporter,
         BuiltForSettings
<1>8. StatusIsConsistent'
  BY <1>1
     DEF ExportInv, GiveUpShutdown, controller, Became, NoExporter,
         StatusIsConsistent
<1>9. NoneLeftRunning'
  BY <1>1, Numbers
     DEF ExportInv, GiveUpShutdown, controller, Became, NoExporter,
         CallsHoldOne, ExportTypeOK, Exporters, NoneLeftRunning
<1> QED
  BY <1>2, <1>3, <1>4, <1>5, <1>6, <1>7, <1>8, <1>9 DEF ExportInv

LEMMA AcceptKeeps ==
  ASSUME ExportInv, NEW s \in Senders, NEW test \in BOOLEAN,
         Accept(s, test)
  PROVE  ExportInv'
<1>1. /\ sender' \in [Senders ->
           [pc : {"idle", "accepted", "sending"},
            via : Exporters \cup {NoExporter}]]
      /\ sender'[s].pc = "sending" =>
           sender'[s].via = exporter /\ exporter # NoExporter
      /\ \A r \in Senders \ {s} : sender'[r] = sender[r]
  BY DEF ExportInv, ExportTypeOK, Accept, IdleSender
<1>2. ExportTypeOK'
  BY <1>1 DEF ExportInv, Accept, controller, ExportTypeOK
<1>3. CallsHoldOne'
  BY <1>1 DEF ExportInv, Accept, controller, CallsHoldOne
<1>4. InOnePlace'
  BY <1>1 DEF ExportInv, Accept, controller, InOnePlace
<1>5. OnlyTheBuilt'
  BY <1>1 DEF ExportInv, Accept, controller, OnlyTheBuilt
<1>6. ReadersUseTheCurrent'
  BY <1>1 DEF ExportInv, Accept, controller, ReadersUseTheCurrent, InFlight
<1>7. BuiltForSettings'
  BY <1>1 DEF ExportInv, Accept, controller, BuiltForSettings
<1>8. StatusIsConsistent'
  BY <1>1 DEF ExportInv, Accept, controller, StatusIsConsistent
<1>9. NoneLeftRunning'
  BY <1>1 DEF ExportInv, Accept, controller, NoneLeftRunning
<1> QED
  BY <1>2, <1>3, <1>4, <1>5, <1>6, <1>7, <1>8, <1>9 DEF ExportInv

LEMMA ExportBeginKeeps ==
  ASSUME ExportInv, NEW s \in Senders, ExportBegin(s)
  PROVE  ExportInv'
<1>1. /\ sender' \in [Senders ->
           [pc : {"idle", "accepted", "sending"},
            via : Exporters \cup {NoExporter}]]
      /\ sender'[s].pc = "sending" =>
           sender'[s].via = exporter /\ exporter # NoExporter
      /\ \A r \in Senders \ {s} : sender'[r] = sender[r]
  BY DEF ExportInv, ExportTypeOK, ExportBegin, IdleSender
<1>2. ExportTypeOK'
  BY <1>1 DEF ExportInv, ExportBegin, controller, ExportTypeOK
<1>3. CallsHoldOne'
  BY <1>1 DEF ExportInv, ExportBegin, controller, CallsHoldOne
<1>4. InOnePlace'
  BY <1>1 DEF ExportInv, ExportBegin, controller, InOnePlace
<1>5. OnlyTheBuilt'
  BY <1>1 DEF ExportInv, ExportBegin, controller, OnlyTheBuilt
<1>6. ReadersUseTheCurrent'
  BY <1>1
     DEF ExportInv, ExportBegin, controller, ReadersUseTheCurrent, InFlight
<1>7. BuiltForSettings'
  BY <1>1 DEF ExportInv, ExportBegin, controller, BuiltForSettings
<1>8. StatusIsConsistent'
  BY <1>1 DEF ExportInv, ExportBegin, controller, StatusIsConsistent
<1>9. NoneLeftRunning'
  BY <1>1 DEF ExportInv, ExportBegin, controller, NoneLeftRunning
<1> QED
  BY <1>2, <1>3, <1>4, <1>5, <1>6, <1>7, <1>8, <1>9 DEF ExportInv

LEMMA ExportEndKeeps ==
  ASSUME ExportInv, NEW s \in Senders, NEW ok \in BOOLEAN,
         ExportEnd(s, ok)
  PROVE  ExportInv'
<1>1. /\ sender' \in [Senders ->
           [pc : {"idle", "accepted", "sending"},
            via : Exporters \cup {NoExporter}]]
      /\ sender'[s].pc = "sending" =>
           sender'[s].via = exporter /\ exporter # NoExporter
      /\ \A r \in Senders \ {s} : sender'[r] = sender[r]
  BY DEF ExportInv, ExportTypeOK, ExportEnd, IdleSender
<1>2. ExportTypeOK'
  BY <1>1, ExportAssumption
     DEF ExportInv, ExportEnd, Counted, NoExporter, Exporters,
     ReadersUseTheCurrent, InFlight, ExportTypeOK
<1>3. CallsHoldOne'
  BY <1>1 DEF ExportInv, ExportEnd, CallsHoldOne
<1>4. InOnePlace'
  BY <1>1 DEF ExportInv, ExportEnd, InOnePlace
<1>5. OnlyTheBuilt'
  BY <1>1 DEF ExportInv, ExportEnd, OnlyTheBuilt
<1>6. ReadersUseTheCurrent'
  BY <1>1 DEF ExportInv, ExportEnd, ReadersUseTheCurrent, InFlight
<1>7. BuiltForSettings'
  BY <1>1 DEF ExportInv, ExportEnd, BuiltForSettings
<1>8. StatusIsConsistent'
  BY <1>1, ExportAssumption
     DEF ExportInv, ExportEnd, Counted, ReadersUseTheCurrent, InFlight,
         BuiltForSettings, ExportTypeOK, StatusIsConsistent
<1>9. NoneLeftRunning'
  BY <1>1 DEF ExportInv, ExportEnd, NoneLeftRunning
<1> QED
  BY <1>2, <1>3, <1>4, <1>5, <1>6, <1>7, <1>8, <1>9 DEF ExportInv

LEMMA UnchangedKeeps ==
  ASSUME ExportInv, UNCHANGED evars
  PROVE  ExportInv'
BY DEF ExportInv, evars, controller, ExportTypeOK, CallsHoldOne, InOnePlace,
       OnlyTheBuilt, ReadersUseTheCurrent, InFlight, BuiltForSettings,
       StatusIsConsistent, NoneLeftRunning

-----------------------------------------------------------------------------
(* The theorems *)

LEMMA InitHolds == ExportInit => ExportInv
<1> SUFFICES ASSUME ExportInit
             PROVE  ExportInv
  OBVIOUS
<1>1. ExportTypeOK
  BY ExportAssumption, OffIsAConfig
     DEF ExportInit, ExportTypeOK, NoLast, IdleCaller, IdleSender
<1>2. /\ CallsHoldOne /\ InOnePlace /\ OnlyTheBuilt
      /\ ReadersUseTheCurrent /\ BuiltForSettings
  BY DEF ExportInit, IdleCaller, IdleSender, NoExporter, CallsHoldOne,
         InOnePlace, OnlyTheBuilt, ReadersUseTheCurrent, InFlight,
         BuiltForSettings
<1>3. StatusIsConsistent /\ NoneLeftRunning
  BY DEF ExportInit, NoLast, StatusIsConsistent, NoneLeftRunning
<1> QED
  BY <1>1, <1>2, <1>3 DEF ExportInv

LEMMA StepKeeps ==
  ASSUME ExportInv, [ExportNext]_evars
  PROVE  ExportInv'
<1>1. ASSUME NEW c \in Callers, NEW cfg \in Configs, NEW keep \in BOOLEAN,
             Build(c, cfg, keep)
      PROVE  ExportInv'
  BY <1>1, BuildKeeps
<1>2. ASSUME NEW c \in Callers, BeginShutdown(c) \/ CallerStep(c)
      PROVE  ExportInv'
  BY <1>2, BeginShutdownKeeps, SwapKeeps, RetireKeeps, TakeForShutdownKeeps,
     GiveUpShutdownKeeps DEF CallerStep
<1>3. ASSUME NEW s \in Senders, NEW test \in BOOLEAN, Accept(s, test)
      PROVE  ExportInv'
  BY <1>3, AcceptKeeps
<1>4. ASSUME NEW s \in Senders, SenderStep(s)
      PROVE  ExportInv'
  BY <1>4, ExportBeginKeeps, ExportEndKeeps DEF SenderStep
<1>5. CASE UNCHANGED evars
  BY <1>5, UnchangedKeeps
<1> QED
  BY <1>1, <1>2, <1>3, <1>4, <1>5 DEF ExportNext

\* Whatever configuration calls, shutdowns and exports do, ExportInv holds:
\* the invariant the theorems below follow from.
THEOREM ExportInvariant == ExportSpec => []ExportInv
<1>1. ExportInv /\ [ExportNext]_evars => ExportInv'
  BY StepKeeps
<1> QED
  BY <1>1, InitHolds, PTL DEF ExportSpec

\* The controller of splunk_exporter.go keeps values of the types of the model.
THEOREM ExportTypeCorrect == ExportSpec => []ExportTypeOK
<1>1. ExportInv => ExportTypeOK
  BY DEF ExportInv
<1> QED
  BY <1>1, ExportInvariant, PTL

\* ExportMetrics never sends through an exporter that Configure or Shutdown
\* has stopped: the read lock keeps the current exporter in place, and what is
\* stopped was taken out under the write lock before.
THEOREM RequestsUseALiveExporter == ExportSpec => []NeverThroughAStopped
<1>1. ExportInv => NeverThroughAStopped
  BY DEF ExportInv, ReadersUseTheCurrent, InOnePlace, NeverThroughAStopped
<1> QED
  BY <1>1, ExportInvariant, PTL

\* What Status shows of the last attempt and of the counters belongs to the
\* destination the settings name: configure clears or keeps them in the same
\* critical section that swaps the exporter, and recordExport runs before the
\* read lock is released.
THEOREM StatusMatchesSettings == ExportSpec => []StatusIsConsistent
<1>1. ExportInv => StatusIsConsistent
  BY DEF ExportInv
<1> QED
  BY <1>1, ExportInvariant, PTL

\* Every exporter that configure built is current, stopped or in the hands of
\* a call that will install or stop it.
THEOREM ExportersAreOwned == ExportSpec => []NoneLeftRunning
<1>1. ExportInv => NoneLeftRunning
  BY DEF ExportInv
<1> QED
  BY <1>1, ExportInvariant, PTL
=============================================================================
