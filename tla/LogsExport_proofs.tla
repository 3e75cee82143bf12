-------------------------- MODULE LogsExport_proofs --------------------------
(***************************************************************************)
(* Theorems about module LogsExport, for any callers, batches,             *)
(* destinations and number of components.                                  *)
(***************************************************************************)
EXTENDS LogsExport, TLAPS

\* No component, or one that runs, or one that has drained; what it has sent.
Alive(e)   == e = NoComponent \/ life[e] = "live"
Retired(e) == e = NoComponent \/ life[e] = "stopped"
SentBy(e)  == IF e = NoComponent THEN 0 ELSE sent[e]

Holding(c) == call[c].pc \in {"stop", "collect", "settle", "install"}
Draining(c) ==
  /\ call[c].pc \in {"stop", "collect"} /\ call[c].victim \in Components
  /\ life[call[c].victim] = IF call[c].pc = "stop" THEN "live" ELSE "stopping"
Saves(c) == call[c].op = "apply" /\ UnchangedSave(c)

\* Where a call that holds the lock is, and what the counters then add up to.
KeepsActive(c) ==
  /\ Saves(c) /\ call[c].then = "install" /\ Alive(exporter)
  /\ \/ Draining(c) /\ call[c].victim = call[c].new
     \/ call[c].pc = "install" /\ Retired(call[c].new)
  /\ activity + SentBy(exporter) = answered
RetiresActive(c) ==
  /\ ~Saves(c) /\ Draining(c) /\ call[c].victim = exporter /\ Alive(call[c].new)
  /\ call[c].then = IF call[c].op = "apply" THEN "settle" ELSE "install"
  /\ activity + SentBy(exporter) = answered
Settles(c) ==
  /\ ~Saves(c) /\ call[c].op = "apply" /\ call[c].pc = "settle"
  /\ Retired(exporter) /\ Alive(call[c].new)
  /\ activity = answered
RetiresNew(c) ==
  /\ ~Saves(c) /\ call[c].op = "apply" /\ ~call[c].config.enabled /\ call[c].then = "install"
  /\ Draining(c) /\ call[c].victim = call[c].new /\ Retired(exporter)
  /\ activity + SentBy(call[c].new) = answered
Installs(c) ==
  /\ ~Saves(c) /\ call[c].pc = "install" /\ Retired(exporter)
  /\ IF call[c].op = "apply" /\ call[c].config.enabled
     THEN Alive(call[c].new) /\ activity + SentBy(call[c].new) = answered
     ELSE Retired(call[c].new) /\ activity = answered
Phase(c) ==
  /\ call[c].op # "enable" /\ (closed => call[c].op = "shutdown")
  /\ KeepsActive(c) \/ RetiresActive(c) \/ Settles(c) \/ RetiresNew(c) \/ Installs(c)

\* The component that a call brings is its own until the call installs it.
BringsOwn(c) ==
  call[c].new # NoComponent =>
    /\ call[c].new <= built /\ call[c].new # exporter /\ call[c].op = "apply"
    /\ target[call[c].new] = call[c].config.dest
CallInv(c) ==
  /\ BringsOwn(c)
  /\ call[c].pc = "lock" => Alive(call[c].new)
  /\ call[c].pc = "idle" => call[c].new = NoComponent
  /\ mu = c <=> Holding(c)
  /\ Holding(c) => Phase(c)

OwnerInv ==
  /\ exporter <= built
  /\ \A e \in Components : IF e <= built THEN target[e] \in Dests ELSE life[e] = "none"
  /\ exporter # NoComponent => target[exporter] = config.dest
  /\ \A e \in Components : life[e] = "live" => e = exporter \/ \E c \in Callers : call[c].new = e
  /\ \A c, d \in Callers : c # d /\ call[c].new # NoComponent => call[c].new # call[d].new
  /\ mu = Free => /\ Alive(exporter) /\ (closed => exporter = NoComponent)
                  /\ activity + SentBy(exporter) = answered

\* A batch goes through the installed component, or is too late for a stopped one.
InHand(b)    == batch[b].pc \in {"captured", "queued", "wire", "accepted"}
InFlight(b)  == batch[b].pc \in {"queued", "wire", "accepted"}
BatchInv(b) ==
  /\ InHand(b) => /\ batch[b].via \in Components /\ target[batch[b].via] = meant[b]
                  /\ batch[b].via = exporter \/ life[batch[b].via] = "stopped"
  /\ InFlight(b) => life[batch[b].via] # "stopped"
  /\ batch[b].pc = "new" => receipt[b] = NoDest
  /\ receipt[b] # NoDest => receipt[b] = meant[b]

\* The constants, as the proofs use them.
LEMMA Basics ==
  /\ MaxComponents \in Nat /\ NoDest \notin Dests /\ Free \notin Callers
  /\ NoComponent \notin Components
  /\ \A e : e \in Components <=> e \in Nat /\ 1 <= e /\ e <= MaxComponents
BY LogsAssumption DEF Components, NoComponent

\* The records of calls and batches.
CallType ==
  [pc : {"idle", "lock", "stop", "collect", "settle", "install"},
   op : Ops, config : Configs, keep : BOOLEAN, new : Components \cup {NoComponent},
   victim : Components \cup {NoComponent}, then : {"settle", "install"}]
BatchType ==
  [pc : {"new", "local", "captured", "queued", "wire", "accepted", "dropped", "done"},
   via : Components \cup {NoComponent}]
\* LogsTypeOK with its two record sets named.
Types ==
  /\ mu \in Callers \cup {Free} /\ config \in Configs /\ exporter \in Components \cup {NoComponent}
  /\ closed \in BOOLEAN /\ activity \in Nat /\ built \in 0 .. MaxComponents /\ answered \in Nat
  /\ target \in [Components -> Dests \cup {NoDest}]
  /\ life \in [Components -> {"none", "live", "stopping", "stopped"}]
  /\ sent \in [Components -> Nat] /\ call \in [Callers -> CallType] /\ batch \in [Batches -> BatchType]
  /\ meant \in [Batches -> Dests \cup {NoDest}] /\ receipt \in [Batches -> Dests \cup {NoDest}]

\* Types is the type invariant.
LEMMA SameTypes == LogsTypeOK <=> Types
BY DEF LogsTypeOK, Types, CallType, BatchType

\* A call that nothing is done to, and that holds no lock.
LEMMA CallSame ==
  ASSUME Types, Types', NEW d \in Callers, CallInv(d), call'[d] = call[d], mu # d, mu' # d, built <= built',
         call[d].new # NoComponent =>
           /\ exporter' # call[d].new /\ target'[call[d].new] = target[call[d].new]
           /\ life'[call[d].new] = life[call[d].new]
  PROVE  CallInv(d)'
BY Basics DEF CallInv, BringsOwn, Alive, Holding, Types, CallType, NoComponent

\* Nothing happens to the components built so far.
BuiltSame == \A e \in Components : e <= built => /\ target'[e] = target[e] /\ life'[e] = life[e]
                                                 /\ sent'[e] = sent[e]

\* A call stays where it is when others send, answer or build.
LEMMA PhaseSame ==
  ASSUME Types, Types', OwnerInv, NEW d \in Callers, CallInv(d), call'[d] = call[d], mu' = mu, UNCHANGED state,
         answered' = answered, built <= built', BuiltSame
  PROVE  CallInv(d)'
<1>1. /\ config' = config /\ exporter' = exporter /\ closed' = closed /\ activity' = activity
  BY DEF state
<1>2. /\ SentBy(exporter)' = SentBy(exporter) /\ Alive(exporter)' = Alive(exporter)
      /\ Retired(exporter)' = Retired(exporter)
  BY <1>1, Basics DEF OwnerInv, BuiltSame, SentBy, Alive, Retired, Types
<1>3. /\ SentBy(call[d].new)' = SentBy(call[d].new) /\ Alive(call[d].new)' = Alive(call[d].new)
      /\ Retired(call[d].new)' = Retired(call[d].new)
  BY Basics DEF CallInv, BringsOwn, BuiltSame, SentBy, Alive, Retired, Types, CallType
<1>4. Saves(d)' <=> Saves(d)
  BY <1>1 DEF Saves, UnchangedSave
<1>5. Draining(d) /\ (call[d].victim = exporter \/ call[d].victim = call[d].new) => Draining(d)'
  BY Basics DEF Draining, OwnerInv, CallInv, BringsOwn, BuiltSame, Types, CallType
<1>6. Phase(d) => Phase(d)'
  <2>1. KeepsActive(d) => KeepsActive(d)'
    BY <1>1, <1>2, <1>3, <1>4, <1>5 DEF KeepsActive
  <2>2. RetiresActive(d) => RetiresActive(d)'
    BY <1>1, <1>2, <1>3, <1>4, <1>5 DEF RetiresActive
  <2>3. Settles(d) => Settles(d)'
    BY <1>1, <1>2, <1>3, <1>4, <1>5 DEF Settles
  <2>4. RetiresNew(d) => RetiresNew(d)'
    BY <1>1, <1>2, <1>3, <1>4, <1>5 DEF RetiresNew
  <2>5. Installs(d) => Installs(d)'
    BY <1>1, <1>2, <1>3, <1>4, <1>5 DEF Installs
  <2> QED
    BY <1>1, <2>1, <2>2, <2>3, <2>4, <2>5 DEF Phase
<1>7. BringsOwn(d)'
  BY <1>1, Basics DEF CallInv, BringsOwn, BuiltSame, Types, CallType
<1> QED
  BY <1>3, <1>6, <1>7 DEF CallInv, Holding

\* A batch that nothing is done to.
LEMMA BatchSame ==
  ASSUME Types, OwnerInv, NEW b \in Batches, BatchInv(b),
         batch'[b] = batch[b], meant'[b] = meant[b], receipt'[b] = receipt[b], exporter' = exporter,
         \A e \in Components : e <= built =>
           target'[e] = target[e] /\ (life'[e] = "stopped" <=> life[e] = "stopped")
  PROVE  BatchInv(b)'
<1>1. InHand(b) => batch[b].via \in Components /\ batch[b].via <= built
  BY Basics DEF BatchInv, OwnerInv, Types
<1>2. InFlight(b) => InHand(b)
  BY DEF InFlight, InHand
<1> QED
  BY <1>1, <1>2 DEF BatchInv, InHand, InFlight

\* Nobody else holds the lock.
LEMMA OneHolder ==
  ASSUME NEW c \in Callers, \A d \in Callers : CallInv(d), mu = Free \/ mu = c
  PROVE  \A d \in Callers : d # c => mu # d /\ ~Holding(d)
BY Basics DEF CallInv

\* A component is built.
LEMMA Builds ==
  ASSUME Types, NEW dest \in Dests, NEW probes \in {0, 1}, BuildComponent(dest, probes)
  PROVE  /\ built < MaxComponents /\ built + 1 \in Components /\ built' = built + 1
         /\ built' \in 0 .. MaxComponents
         /\ target' \in [Components -> Dests \cup {NoDest}]
         /\ life' \in [Components -> {"none", "live", "stopping", "stopped"}] /\ sent' \in [Components -> Nat]
         /\ target'[built + 1] = dest /\ life'[built + 1] = "live" /\ sent'[built + 1] = probes
         /\ \A e \in Components : e # built + 1 => target'[e] = target[e] /\ life'[e] = life[e] /\ sent'[e] = sent[e]
BY Basics DEF BuildComponent, Types

LEMMA ConfigParts ==
  \A cfg \in Configs : /\ cfg.enabled \in BOOLEAN /\ cfg.dest \in Dests \cup {NoDest}
                       /\ cfg.enabled => cfg.dest # NoDest
BY DEF Configs

LEMMA IdleType == IdleCall \in CallType
<1>1. NoConfig \in Configs
  BY DEF NoConfig, Configs
<1> QED
  BY <1>1 DEF IdleCall, CallType, Ops

\* Every step keeps the types.
LEMMA TypesKept ==
  ASSUME Types, OwnerInv, \A c \in Callers : CallInv(c), \A b \in Batches : BatchInv(b), LogsNext
  PROVE  Types'
<1> USE Basics DEF Types, state, parts, history
<1>1. ASSUME NEW c \in Callers, NEW cfg \in Configs, NEW keep \in BOOLEAN, NEW probes \in {0, 1},
             BeginApply(c, cfg, keep, probes)
      PROVE  Types'
  <2>1. CASE cfg.dest # NoDest
    <3>1. BuildComponent(cfg.dest, probes) /\ cfg.dest \in Dests
      BY <1>1, <2>1, ConfigParts DEF BeginApply
    <3>2. call' = [call EXCEPT ![c] = [IdleCall EXCEPT !.pc = "lock", !.config = cfg, !.keep = keep,
                                                       !.new = built + 1]]
      BY <1>1, <2>1 DEF BeginApply
    <3>3. [IdleCall EXCEPT !.pc = "lock", !.config = cfg, !.keep = keep, !.new = built + 1] \in CallType
      <4> HIDE DEF Types
      <4>1. built + 1 \in Components
        BY <3>1, Builds
      <4> QED
        BY <4>1, IdleType DEF CallType
    <3>4. call' \in [Callers -> CallType]
      BY <3>2, <3>3
    <3> QED
      BY <1>1, <3>1, <3>4, Builds DEF BeginApply
  <2>2. CASE cfg.dest = NoDest
    <3>1. call' = [call EXCEPT ![c] = [IdleCall EXCEPT !.pc = "lock", !.config = cfg, !.keep = keep,
                                                       !.new = NoComponent]]
      BY <1>1, <2>2 DEF BeginApply
    <3>2. call' \in [Callers -> CallType]
      BY <3>1, IdleType DEF CallType
    <3> QED
      BY <1>1, <2>2, <3>2 DEF BeginApply
  <2> QED
    BY <2>1, <2>2
<1>2. ASSUME NEW c \in Callers, NEW op \in Ops \ {"apply"}, BeginOther(c, op) PROVE Types'
  <2>1. call' \in [Callers -> CallType]
    BY <1>2, IdleType DEF BeginOther, CallType
  <2> QED
    BY <1>2, <2>1 DEF BeginOther
<1>3. ASSUME NEW c \in Callers, RefusedClosed(c) PROVE Types'
  BY <1>3, IdleType DEF RefusedClosed, CallType
<1>4. ASSUME NEW c \in Callers, NEW e \in Components \cup {NoComponent}, NEW then \in {"settle", "install"},
             Retiring(c, e, then)
      PROVE  call' \in [Callers -> CallType]
  <2> DEFINE pc == IF e = NoComponent THEN then ELSE "stop"
  <2>0. call[c] \in CallType /\ pc \in {"stop", "settle", "install"} /\ call \in [Callers -> CallType]
    BY DEF Types
  <2> HIDE DEF pc
  <2>1. [call[c] EXCEPT !.pc = pc, !.victim = e, !.then = then] \in CallType
    BY <2>0 DEF CallType
  <2> USE DEF pc
  <2>2. call' = [call EXCEPT ![c] = [call[c] EXCEPT !.pc = pc, !.victim = e, !.then = then]]
    BY <1>4 DEF Retiring
  <2> HIDE DEF pc
  <2> QED
    BY <2>0, <2>1, <2>2
<1>5. ASSUME NEW c \in Callers, LockApply(c) PROVE Types'
  <2>1. call' \in [Callers -> CallType]
    BY <1>4, <1>5 DEF LockApply, CallType
  <2> QED
    BY <1>5, <2>1 DEF LockApply
<1>6. ASSUME NEW c \in Callers, LockEnable(c) PROVE Types'
  <2>1. call' \in [Callers -> CallType]
    BY <1>6, IdleType DEF LockEnable
  <2>2. CASE exporter = NoComponent /\ config.dest # NoDest
    <3>1. BuildComponent(config.dest, 0) /\ config.dest \in Dests
      BY <1>6, <2>2, ConfigParts DEF LockEnable
    <3>2. exporter' = built + 1 /\ config' = [config EXCEPT !.enabled = TRUE]
      BY <1>6, <2>2 DEF LockEnable
    <3>3. config' \in Configs
      BY <2>2, <3>2 DEF Configs
    <3> QED
      BY <1>6, <2>1, <3>1, <3>2, <3>3, Builds DEF LockEnable
  <2>3. CASE exporter = NoComponent /\ config.dest = NoDest
    BY <1>6, <2>1, <2>3 DEF LockEnable
  <2>4. CASE exporter # NoComponent
    <3>1. config.dest \in Dests
      BY <2>4 DEF OwnerInv
    <3>2. config' = [config EXCEPT !.enabled = TRUE] /\ UNCHANGED <<parts, exporter>>
      BY <1>6, <2>4 DEF LockEnable
    <3>3. config' \in Configs
      BY <3>1, <3>2 DEF Configs
    <3> QED
      BY <1>6, <2>1, <3>2, <3>3 DEF LockEnable
  <2> QED
    BY <2>2, <2>3, <2>4
<1>7. ASSUME NEW c \in Callers, LockDisable(c) PROVE Types'
  <2>1. call' \in [Callers -> CallType]
    BY <1>4, <1>7 DEF LockDisable
  <2> QED
    BY <1>7, <2>1 DEF LockDisable
<1>8. ASSUME NEW c \in Callers, LockShutdown(c) PROVE Types'
  <2>1. call' \in [Callers -> CallType]
    BY <1>4, <1>8 DEF LockShutdown
  <2> QED
    BY <1>8, <2>1 DEF LockShutdown
<1>9. ASSUME NEW c \in Callers, Settle(c) PROVE Types'
  <2>1. call' \in [Callers -> CallType]
    BY <1>4, <1>9 DEF Settle, CallType
  <2>2. call[c].new = NoComponent \/ sent[call[c].new] \in Nat
    BY DEF CallType
  <2>3. activity' \in Nat /\ answered' \in Nat
    BY <1>9, <2>2 DEF Settle
  <2> QED
    BY <1>9, <2>1, <2>3 DEF Settle
<1>10. ASSUME NEW c \in Callers, Stop(c) PROVE Types'
  <2>1. call' \in [Callers -> CallType]
    BY <1>10 DEF Stop, CallType
  <2>2. life' \in [Components -> {"none", "live", "stopping", "stopped"}]
    BY <1>10 DEF Stop
  <2> QED
    BY <1>10, <2>1, <2>2 DEF Stop
<1>11. ASSUME NEW c \in Callers, Collect(c) PROVE Types'
  <2>1. call[c].victim \in Components
    <3>1. Holding(c)
      BY <1>11 DEF Collect, Holding
    <3>2. Draining(c)
      BY <1>11, <3>1 DEF Collect, CallInv, Phase, KeepsActive, RetiresActive, Settles, RetiresNew, Installs
    <3> QED
      BY <3>2 DEF Draining
  <2>2. call' \in [Callers -> CallType]
    BY <1>11 DEF Collect, CallType
  <2>3. sent[call[c].victim] \in Nat
    BY <2>1
  <2>4. activity' \in Nat /\ answered' \in Nat
    BY <1>11, <2>3 DEF Collect
  <2>5. life' \in [Components -> {"none", "live", "stopping", "stopped"}]
    BY <1>11 DEF Collect
  <2> QED
    BY <1>11, <2>2, <2>4, <2>5 DEF Collect
<1>12. ASSUME NEW c \in Callers, Install(c) PROVE Types'
  <2>1. call' \in [Callers -> CallType]
    BY <1>12, IdleType DEF Install
  <2>2. call[c].op \in {"apply", "disable", "shutdown"}
    <3>1. Holding(c)
      BY <1>12 DEF Install, Holding
    <3> QED
      BY <3>1 DEF CallInv, Phase, CallType, Ops
  <2>3. config' \in Configs
    BY <1>12, <2>2 DEF Install, CallType, Configs
  <2>4. exporter' \in Components \cup {NoComponent}
    BY <1>12 DEF Install, CallType
  <2> QED
    BY <1>12, <2>1, <2>3, <2>4 DEF Install
<1>13. ASSUME NEW b \in Batches, Capture(b) PROVE Types'
  <2>1. batch' \in [Batches -> BatchType] /\ meant' \in [Batches -> Dests \cup {NoDest}]
    BY <1>13, ConfigParts DEF Capture, BatchType
  <2> QED
    BY <1>13, <2>1 DEF Capture
<1>14. ASSUME NEW b \in Batches, Enqueue(b) PROVE Types'
  BY <1>14 DEF Enqueue, Move, BatchType
<1>15. ASSUME NEW b \in Batches, Send(b) PROVE Types'
  BY <1>15 DEF Send, Move, BatchType
<1>16. ASSUME NEW b \in Batches, Accept(b), batch[b].via \in Components PROVE Types'
  <2>1. batch' \in [Batches -> BatchType] /\ receipt' \in [Batches -> Dests \cup {NoDest}]
    BY <1>16 DEF Accept, Move, BatchType
  <2> QED
    BY <1>16, <2>1 DEF Accept
<1>17. ASSUME NEW b \in Batches, Record(b) PROVE Types'
  <2>1. batch' \in [Batches -> BatchType]
    BY <1>17 DEF Record, Move, BatchType
  <2>2. sent' \in [Components -> Nat]
    <3>1. batch[b].via \in Components /\ sent' = [sent EXCEPT ![batch[b].via] = @ + 1]
      BY <1>17 DEF Record, BatchInv, InHand
    <3> QED
      BY <3>1
  <2> QED
    BY <1>17, <2>1, <2>2 DEF Record
<1>18. ASSUME NEW b \in Batches, Fail(b) PROVE Types'
  <2>1. batch' \in [Batches -> BatchType]
    BY <1>18 DEF Fail, Move, BatchType
  <2> QED
    BY <1>18, <2>1 DEF Fail
<1>19. ASSUME NEW b \in Batches, Accept(b) PROVE batch[b].via \in Components
  BY <1>19 DEF Accept, BatchInv, InHand
<1> QED
  BY <1>1, <1>2, <1>3, <1>5, <1>6, <1>7, <1>8, <1>9, <1>10, <1>11, <1>12, <1>13, <1>14, <1>15, <1>16, <1>17, <1>18,
     <1>19
     DEF LogsNext, Begin, Lock, Locked, Sender

Sound == OwnerInv /\ (\A c \in Callers : CallInv(c)) /\ \A b \in Batches : BatchInv(b)

\* A call asks for the lock, perhaps with a component that it has built.
LEMMA BeginsSound ==
  ASSUME Types, Types', Sound, NEW c \in Callers, Begin(c)
  PROVE  Sound'
<1> USE Basics DEF state, parts, history
<1>1. OwnerInv /\ (\A d \in Callers : CallInv(d)) /\ \A b \in Batches : BatchInv(b)
  BY DEF Sound
<1>2. \A d \in Callers : call[d].new # NoComponent => call[d].new <= built
  BY <1>1 DEF CallInv, BringsOwn
<1>3. ASSUME NEW new \in Components \cup {NoComponent}, call[c].pc = "idle",
             call'[c].pc = "lock", call'[c].new = new, \A d \in Callers : d # c => call'[d] = call[d],
             UNCHANGED <<mu, state, batch, history>>, built <= built', BuiltSame,
             IF new = NoComponent
             THEN UNCHANGED parts
             ELSE /\ new = built + 1 /\ built' = built + 1 /\ life'[new] = "live" /\ target'[new] \in Dests
                  /\ call'[c].op = "apply" /\ target'[new] = call'[c].config.dest
                  /\ \A e \in Components : e # new => target'[e] = target[e] /\ life'[e] = life[e]
      PROVE  Sound'
  <2>1. ASSUME NEW d \in Callers PROVE CallInv(d)'
    <3>1. CASE d # c
      BY <1>1, <1>3, <3>1, PhaseSame
    <3>2. CASE d = c
      <4>1. mu # c /\ ~Holding(c)'
        BY <1>1, <1>3 DEF CallInv, Holding
      <4>2. new # exporter \/ new = NoComponent
        BY <1>1, <1>3 DEF OwnerInv, Types
      <4>3. BringsOwn(c)'
        BY <1>3, <4>2 DEF BringsOwn, Types
      <4>4. Alive(call[c].new)'
        BY <1>3 DEF Alive
      <4> QED
        BY <1>3, <3>2, <4>1, <4>3, <4>4 DEF CallInv
    <3> QED
      BY <3>1, <3>2
  <2>2. ASSUME NEW b \in Batches PROVE BatchInv(b)'
    BY <1>1, <1>3, BatchSame DEF BuiltSame
  <2>3. OwnerInv'
    <3>1. call[c].new = NoComponent
      BY <1>1, <1>3 DEF CallInv
    <3>2. exporter' <= built' /\ \A e \in Components : (IF e <= built THEN target[e] \in Dests ELSE life[e] = "none")'
      <4>1. \A e \in Components : e # new => target'[e] = target[e] /\ life'[e] = life[e]
        BY <1>3
      <4>2. \A e \in Components : e # new => (e <= built' <=> e <= built)
        BY <1>3 DEF Types
      <4>3. new # NoComponent => new <= built' /\ target'[new] \in Dests
        BY <1>3 DEF Types
      <4>4. \A e \in Components : (IF e <= built THEN target[e] \in Dests ELSE life[e] = "none")'
        BY <1>1, <4>1, <4>2, <4>3 DEF OwnerInv
      <4>5. exporter' <= built'
        BY <1>1, <1>3 DEF OwnerInv, Types, NoComponent
      <4> QED
        BY <4>4, <4>5
    <3>3. exporter' # NoComponent => target'[exporter'] = config'.dest
      BY <1>1, <1>3 DEF OwnerInv, BuiltSame, Types
    <3>4. \A e \in Components : life'[e] = "live" => e = exporter' \/ \E d \in Callers : call'[d].new = e
      BY <1>1, <1>3, <3>1 DEF OwnerInv
    <3>5. \A d, x \in Callers : d # x /\ call'[d].new # NoComponent => call'[d].new # call'[x].new
      BY <1>1, <1>2, <1>3 DEF OwnerInv, Types
    <3>6. Alive(exporter)' = Alive(exporter) /\ SentBy(exporter)' = SentBy(exporter)
      BY <1>1, <1>3 DEF OwnerInv, BuiltSame, Alive, SentBy, Types
    <3> QED
      BY <1>1, <1>3, <3>2, <3>3, <3>4, <3>5, <3>6 DEF OwnerInv
  <2> QED
    BY <2>1, <2>2, <2>3 DEF Sound
<1>4. ASSUME NEW cfg \in Configs, NEW keep \in BOOLEAN, NEW probes \in {0, 1}, BeginApply(c, cfg, keep, probes)
      PROVE  Sound'
  <2>1. CASE cfg.dest # NoDest
    <3>1. BuildComponent(cfg.dest, probes) /\ cfg.dest \in Dests
      BY <1>4, <2>1, ConfigParts DEF BeginApply
    <3>2. call' = [call EXCEPT ![c] = [IdleCall EXCEPT !.pc = "lock", !.config = cfg, !.keep = keep,
                                                       !.new = built + 1]]
      BY <1>4, <2>1 DEF BeginApply
    <3>3. /\ call'[c].pc = "lock" /\ call'[c].new = built + 1 /\ call'[c].op = "apply" /\ call'[c].config = cfg
          /\ \A d \in Callers : d # c => call'[d] = call[d]
      BY <3>2 DEF Types, IdleCall
    <3>4. built + 1 # NoComponent /\ built <= built' /\ BuiltSame
      BY <3>1, Builds DEF Types, BuiltSame
    <3>5. call[c].pc = "idle" /\ UNCHANGED <<mu, state, batch, history>>
      BY <1>4 DEF BeginApply
    <3> HIDE DEF state, history
    <3> QED
      BY <1>3, <3>1, <3>3, <3>4, <3>5, Builds
  <2>2. CASE cfg.dest = NoDest
    <3>1. call' = [call EXCEPT ![c] = [IdleCall EXCEPT !.pc = "lock", !.config = cfg, !.keep = keep,
                                                       !.new = NoComponent]]
      BY <1>4, <2>2 DEF BeginApply
    <3>2. call'[c].pc = "lock" /\ call'[c].new = NoComponent /\ \A d \in Callers : d # c => call'[d] = call[d]
      BY <3>1 DEF Types, IdleCall
    <3>3. call[c].pc = "idle" /\ UNCHANGED <<mu, state, batch, history>> /\ UNCHANGED parts
      BY <1>4, <2>2 DEF BeginApply
    <3>4. built <= built' /\ BuiltSame
      BY <3>3 DEF Types, BuiltSame
    <3> QED
      BY <1>3, <3>2, <3>3, <3>4
  <2> QED
    BY <2>1, <2>2
<1>5. ASSUME NEW op \in Ops \ {"apply"}, BeginOther(c, op) PROVE Sound'
  <2>1. call'[c].pc = "lock" /\ call'[c].new = NoComponent /\ \A d \in Callers : d # c => call'[d] = call[d]
    BY <1>5 DEF BeginOther, Types, IdleCall
  <2>2. call[c].pc = "idle" /\ UNCHANGED <<mu, state, batch, history>> /\ UNCHANGED parts
    BY <1>5 DEF BeginOther
  <2>3. built <= built' /\ BuiltSame
    BY <2>2 DEF Types, BuiltSame
  <2> QED
    BY <1>3, <2>1, <2>2, <2>3
<1> QED
  BY <1>4, <1>5 DEF Begin

\* A call is granted the lock, or finds the controller closed.
LEMMA LocksSound ==
  ASSUME Types, Types', Sound, NEW c \in Callers, Lock(c)
  PROVE  Sound'
<1> USE Basics DEF state, parts, history
<1>1. OwnerInv /\ (\A d \in Callers : CallInv(d)) /\ \A b \in Batches : BatchInv(b)
  BY DEF Sound
<1>2. /\ mu = Free /\ call[c].pc = "lock" /\ \A d \in Callers : mu # d /\ ~Holding(d)
  BY <1>1 DEF Lock, RefusedClosed, LockApply, LockEnable, LockDisable, LockShutdown, Granted, CallInv
<1>3. /\ Alive(exporter) /\ (closed => exporter = NoComponent) /\ activity + SentBy(exporter) = answered
      /\ Alive(call[c].new) /\ BringsOwn(c)
  BY <1>1, <1>2 DEF OwnerInv, CallInv
<1>4. CASE RefusedClosed(c)
  <2> DEFINE n == call[c].new
  <2>1. /\ UNCHANGED <<mu, state, built, target, sent, batch, history>>
        /\ call'[c] = IdleCall /\ \A d \in Callers : d # c => call'[d] = call[d]
        /\ \A e \in Components : life'[e] = IF e = n THEN "stopped" ELSE life[e]
    BY <1>4 DEF RefusedClosed, Types
  <2>2. ASSUME NEW d \in Callers PROVE CallInv(d)'
    <3>1. CASE d # c
      <4>1. call[d].new # NoComponent => call[d].new # n /\ call[d].new \in Components
        BY <1>1, <3>1 DEF OwnerInv, Types, CallType
      <4>2. call[d].new # NoComponent => exporter # call[d].new
        BY <1>1 DEF CallInv, BringsOwn
      <4> QED
        BY <1>1, <1>2, <2>1, <3>1, <4>1, <4>2, CallSame DEF Types
    <3>2. CASE d = c
      BY <1>2, <2>1, <3>2 DEF CallInv, BringsOwn, Holding, IdleCall
    <3> QED
      BY <3>1, <3>2
  <2>3. n # NoComponent => n # exporter /\ n <= built /\ life[n] = "live"
    BY <1>3 DEF Alive, BringsOwn
  <2>4. OwnerInv'
    <3>1. Alive(exporter)' /\ SentBy(exporter)' = SentBy(exporter)
      BY <1>3, <2>1, <2>3 DEF Alive, SentBy, Types
    <3>2. \A e \in Components : life'[e] = "live" => e = exporter \/ \E d \in Callers : call'[d].new = e
      BY <1>1, <2>1 DEF OwnerInv
    <3>3. \A d, x \in Callers : d # x /\ call'[d].new # NoComponent => call'[d].new # call'[x].new
      BY <1>1, <2>1 DEF OwnerInv, IdleCall
    <3>4. \A e \in Components : (IF e <= built THEN target[e] \in Dests ELSE life[e] = "none")'
      BY <1>1, <2>1, <2>3 DEF OwnerInv
    <3> QED
      BY <1>1, <1>3, <2>1, <3>1, <3>2, <3>3, <3>4 DEF OwnerInv
  <2>5. ASSUME NEW b \in Batches PROVE BatchInv(b)'
    <3>1. InHand(b) => batch[b].via # n
      BY <1>1, <2>3 DEF BatchInv
    <3>2. InFlight(b) => InHand(b)
      BY DEF InFlight, InHand
    <3> QED
      BY <1>1, <2>1, <3>1, <3>2 DEF BatchInv, InHand, InFlight
  <2> QED
    BY <2>2, <2>4, <2>5 DEF Sound
\* What is left when the lock goes to c, which retires a component first.
<1>5. ASSUME mu' = c, UNCHANGED <<config, exporter, activity>>, UNCHANGED <<parts, batch, history>>,
             call'[c].new = call[c].new, call'[c].op = call[c].op, call'[c].config = call[c].config,
             call'[c].pc \in {"stop", "settle", "install"}, Phase(c)',
             \A d \in Callers : d # c => call'[d] = call[d]
      PROVE  Sound'
  <2>1. ASSUME NEW d \in Callers PROVE CallInv(d)'
    <3>1. CASE d # c
      BY <1>1, <1>2, <1>5, <3>1, CallSame DEF CallInv, BringsOwn, Types
    <3>2. CASE d = c
      BY <1>3, <1>5, <3>2 DEF CallInv, BringsOwn, Holding
    <3> QED
      BY <3>1, <3>2
  <2>2. OwnerInv'
    BY <1>1, <1>5 DEF OwnerInv
  <2>3. \A b \in Batches : BatchInv(b)'
    BY <1>1, <1>5 DEF BatchInv, InHand, InFlight
  <2> QED
    BY <2>1, <2>2, <2>3 DEF Sound
<1>6. ASSUME NEW e \in {exporter, call[c].new}, NEW then \in {"settle", "install"}, Retiring(c, e, then),
             UNCHANGED <<config, exporter, parts>>
      PROVE  /\ call'[c].pc = (IF e = NoComponent THEN then ELSE "stop") /\ call'[c].victim = e
             /\ call'[c].then = then /\ call'[c].new = call[c].new /\ call'[c].op = call[c].op
             /\ call'[c].config = call[c].config /\ call'[c].keep = call[c].keep
             /\ \A d \in Callers : d # c => call'[d] = call[d]
             /\ e # NoComponent => Draining(c)'
             /\ Saves(c)' <=> Saves(c)
  <2>1. /\ call'[c].pc = (IF e = NoComponent THEN then ELSE "stop") /\ call'[c].victim = e
        /\ call'[c].then = then /\ call'[c].new = call[c].new /\ call'[c].op = call[c].op
        /\ call'[c].config = call[c].config /\ call'[c].keep = call[c].keep
        /\ \A d \in Callers : d # c => call'[d] = call[d]
    BY <1>6 DEF Retiring, Types, CallType
  <2>2. e \in Components \cup {NoComponent}
    BY DEF Types, CallType
  <2>3. e # NoComponent => Draining(c)'
    BY <1>3, <1>6, <2>1, <2>2 DEF Draining, Alive
  <2> QED
    BY <1>6, <2>1, <2>3 DEF Saves, UnchangedSave
<1>7. CASE LockApply(c)
  <2>1. mu' = c /\ UNCHANGED state /\ UNCHANGED <<parts, batch, history>> /\ call[c].op = "apply" /\ ~closed
    BY <1>7 DEF LockApply, Granted
  <2>2. Alive(exporter)' /\ Alive(call[c].new) /\ SentBy(exporter)' = SentBy(exporter)
    BY <1>3, <2>1 DEF Alive, SentBy
  <2>3. CASE UnchangedSave(c)
    <3>1. Retiring(c, call[c].new, "install") /\ call[c].new # NoComponent
      BY <1>7, <2>3 DEF LockApply, UnchangedSave
    <3>2. KeepsActive(c)'
      BY <1>3, <1>6, <2>1, <2>2, <2>3, <3>1 DEF KeepsActive, Saves
    <3> QED
      BY <1>5, <1>6, <2>1, <3>1, <3>2 DEF Phase
  <2>4. CASE ~UnchangedSave(c)
    <3>1. Retiring(c, exporter, "settle")
      BY <1>7, <2>4 DEF LockApply
    <3>2. exporter # NoComponent => RetiresActive(c)'
      BY <1>3, <1>6, <2>1, <2>2, <2>4, <3>1 DEF RetiresActive, Saves, Alive
    <3>3. exporter = NoComponent => Settles(c)'
      BY <1>3, <1>6, <2>1, <2>2, <2>4, <3>1 DEF Settles, Saves, Alive, Retired, SentBy, Types
    <3> QED
      BY <1>5, <1>6, <2>1, <3>1, <3>2, <3>3 DEF Phase
  <2> QED
    BY <2>3, <2>4
<1>8. ASSUME Retiring(c, exporter, "install"), call[c].op \in {"disable", "shutdown"}, mu' = c,
             closed' => call[c].op = "shutdown",
             UNCHANGED <<config, exporter, activity>>, UNCHANGED <<parts, batch, history>>
      PROVE  Sound'
  <2>1. Alive(exporter)' /\ SentBy(exporter)' = SentBy(exporter)
    BY <1>3, <1>8 DEF Alive, SentBy
  <2>2. call[c].new = NoComponent /\ ~Saves(c)
    BY <1>3, <1>8 DEF BringsOwn, Saves
  <2>3. exporter # NoComponent => RetiresActive(c)'
    BY <1>3, <1>6, <1>8, <2>1, <2>2 DEF RetiresActive, Alive
  <2>4. exporter = NoComponent => Installs(c)'
    BY <1>3, <1>6, <1>8, <2>1, <2>2 DEF Installs, Retired, SentBy, Types
  <2> QED
    BY <1>5, <1>6, <1>8, <2>3, <2>4 DEF Phase
<1>9. CASE LockDisable(c)
  BY <1>8, <1>9 DEF LockDisable, Granted
<1>10. CASE LockShutdown(c)
  BY <1>8, <1>10 DEF LockShutdown, Granted

<1>11. CASE LockEnable(c)
  <2>1. /\ call'[c] = IdleCall /\ \A d \in Callers : d # c => call'[d] = call[d]
        /\ UNCHANGED <<mu, closed, activity, batch, history>> /\ call[c].new = NoComponent /\ ~closed
    BY <1>3, <1>11 DEF LockEnable, Granted, BringsOwn, Types
  <2>2. CallInv(c)'
    BY <1>2, <2>1 DEF CallInv, BringsOwn, Holding, IdleCall
  <2>3. \A d, x \in Callers : d # x /\ call'[d].new # NoComponent => call'[d].new # call'[x].new
    BY <1>1, <2>1 DEF OwnerInv, IdleCall
  <2>4. \A d \in Callers : call[d].new # NoComponent => call[d].new <= built /\ call[d].new # exporter
    BY <1>1 DEF CallInv, BringsOwn
  <2>5. CASE exporter = NoComponent /\ config.dest # NoDest
    <3>1. BuildComponent(config.dest, 0) /\ config.dest \in Dests
      BY <1>11, <2>5, ConfigParts DEF LockEnable, Types
    <3>2. exporter' = built + 1 /\ config' = [config EXCEPT !.enabled = TRUE]
      BY <1>11, <2>5 DEF LockEnable
    <3>3. config'.dest = config.dest
      BY <3>2, ConfigParts DEF Types, Configs
    <3>4. ASSUME NEW d \in Callers, d # c PROVE CallInv(d)'
      <4>1. built <= built' /\ (call[d].new # NoComponent => call[d].new # built + 1 /\ call[d].new \in Components)
        BY <2>4, <3>1, Builds DEF Types, CallType
      <4>2. mu # d /\ mu' # d
        BY <1>2, <2>1
      <4> QED
        BY <1>1, <2>1, <3>1, <3>2, <3>4, <4>1, <4>2, Builds, CallSame
    <3>5. OwnerInv'
      <4>1. \A e \in Components : (IF e <= built THEN target[e] \in Dests ELSE life[e] = "none")'
        <5>1. \A e \in Components : e # built + 1 => (e <= built' <=> e <= built)
          BY <3>1, Builds DEF Types
        <5>2. built + 1 <= built'
          BY <3>1, Builds DEF Types
        <5> QED
          BY <1>1, <3>1, <5>1, <5>2, Builds DEF OwnerInv
      <4>2. exporter' <= built' /\ target'[exporter'] = config'.dest /\ life'[exporter'] = "live" /\ sent'[exporter'] = 0
        BY <3>1, <3>2, <3>3, Builds DEF Types
      <4>3. activity + 0 = answered
        BY <1>3, <2>5 DEF SentBy
      <4>4. (Alive(exporter) /\ activity + SentBy(exporter) = answered)'
        BY <2>1, <4>2, <4>3 DEF Alive, SentBy
      <4>5. \A e \in Components : life'[e] = "live" => e = exporter' \/ \E d \in Callers : call'[d].new = e
        <5>1. \A e \in Components : e # built + 1 /\ life'[e] = "live" => \E d \in Callers : d # c /\ call[d].new = e
          BY <1>1, <2>1, <2>5, <3>1, Builds DEF OwnerInv
        <5> QED
          BY <2>1, <3>2, <5>1
      <4> QED
        BY <2>1, <2>3, <4>1, <4>2, <4>4, <4>5 DEF OwnerInv
    <3>6. ASSUME NEW b \in Batches PROVE BatchInv(b)'
      <4>1. InHand(b) => batch[b].via <= built /\ life[batch[b].via] = "stopped" /\ batch[b].via \in Components
        BY <1>1, <2>5 DEF BatchInv, OwnerInv
      <4>2. InHand(b) => batch[b].via # built + 1
        BY <4>1 DEF Types
      <4>3. ~InFlight(b)
        BY <1>1, <4>1 DEF BatchInv, InFlight, InHand
      <4> QED
        BY <1>1, <2>1, <3>1, <4>1, <4>2, <4>3, Builds DEF BatchInv, InHand, InFlight
    <3> QED
      BY <2>2, <3>4, <3>5, <3>6 DEF Sound
  <2>6. CASE exporter # NoComponent \/ config.dest = NoDest
    <3>1. UNCHANGED <<parts, exporter>> /\ (config' = config \/ config' = [config EXCEPT !.enabled = TRUE])
      BY <1>11, <2>6 DEF LockEnable
    <3>2. config'.dest = config.dest
      BY <3>1, ConfigParts DEF Types, Configs
    <3>3. ASSUME NEW d \in Callers, d # c PROVE CallInv(d)'
      <4>1. built <= built' /\ mu # d /\ mu' # d
        BY <1>2, <2>1, <3>1 DEF Types
      <4> QED
        BY <1>1, <2>1, <2>4, <3>1, <3>3, <4>1, CallSame
    <3>4. OwnerInv'
      <4>1. \A e \in Components : life'[e] = "live" => e = exporter' \/ \E d \in Callers : call'[d].new = e
        BY <1>1, <2>1, <3>1 DEF OwnerInv
      <4> QED
        BY <1>1, <1>3, <2>1, <2>3, <3>1, <3>2, <4>1 DEF OwnerInv, Alive, SentBy
    <3>5. \A b \in Batches : BatchInv(b)'
      BY <1>1, <2>1, <3>1 DEF BatchInv, InHand, InFlight
    <3> QED
      BY <2>2, <3>3, <3>4, <3>5 DEF Sound
  <2> QED
    BY <2>5, <2>6
<1> QED
  BY <1>4, <1>7, <1>9, <1>10, <1>11 DEF Lock

\* The holder of the lock retires, settles and installs.
LEMMA LockedSound ==
  ASSUME Types, Types', Sound, NEW c \in Callers, Locked(c)
  PROVE  Sound'
<1> USE Basics DEF state, parts, history
<1>1. OwnerInv /\ (\A d \in Callers : CallInv(d)) /\ \A b \in Batches : BatchInv(b)
  BY DEF Sound
<1>2. /\ mu = c /\ Holding(c) /\ Phase(c) /\ BringsOwn(c)
      /\ \A d \in Callers : d # c => mu # d /\ ~Holding(d)
      /\ c # Free
  BY <1>1 DEF Locked, Settle, Stop, Collect, Install, CallInv, Holding
<1>3. \A d \in Callers : call[d].new # NoComponent => call[d].new <= built /\ call[d].new # exporter /\ call[d].new \in Components
  BY <1>1 DEF CallInv, BringsOwn, Types, CallType
<1>4. \A d \in Callers : d # c /\ call[d].new # NoComponent => call[d].new # call[c].new
  BY <1>1 DEF OwnerInv
\* What is left of a step that keeps the lock.
<1>5. ASSUME mu' = mu, UNCHANGED <<config, exporter, closed, built, target, sent, batch, meant, receipt>>,
             call'[c].new = call[c].new, call'[c].op = call[c].op, call'[c].config = call[c].config,
             Holding(c)', Phase(c)', \A d \in Callers : d # c => call'[d] = call[d],
             NEW v \in {exporter, call[c].new},
             \A e \in Components : e # v => life'[e] = life[e],
             v # NoComponent => life[v] # "none" /\ life'[v] # "live",
             v # NoComponent => (life'[v] = "stopped" <=> life[v] = "stopped") \/ (Pending(v) = {} /\ life'[v] = "stopped")
      PROVE  Sound'
  <2>1. ASSUME NEW d \in Callers PROVE CallInv(d)'
    <3>1. CASE d # c
      BY <1>1, <1>2, <1>3, <1>4, <1>5, <3>1, CallSame DEF Types
    <3>2. CASE d = c
      BY <1>2, <1>5, <3>2 DEF CallInv, BringsOwn, Holding
    <3> QED
      BY <3>1, <3>2
  <2>2. OwnerInv'
    <3>1. \A e \in Components : (IF e <= built THEN target[e] \in Dests ELSE life[e] = "none")'
      BY <1>1, <1>5 DEF OwnerInv
    <3>2. \A e \in Components : life'[e] = "live" => life[e] = "live"
      BY <1>5
    <3>3. \A e \in Components : life'[e] = "live" => e = exporter \/ \E d \in Callers : call'[d].new = e
      BY <1>1, <1>5, <3>2 DEF OwnerInv
    <3>4. \A d, x \in Callers : d # x /\ call'[d].new # NoComponent => call'[d].new # call'[x].new
      BY <1>1, <1>5 DEF OwnerInv
    <3> QED
      BY <1>1, <1>2, <1>5, <3>1, <3>3, <3>4 DEF OwnerInv
  <2>3. ASSUME NEW b \in Batches PROVE BatchInv(b)'
    <3>1. InFlight(b) => batch[b].via # NoComponent /\ batch[b] = batch'[b] /\ (Pending(batch[b].via) = {} => FALSE)
      BY <1>1, <1>5 DEF InFlight, Pending, BatchInv, InHand
    <3>2. InHand(b) => batch[b].via \in Components
      BY <1>1 DEF BatchInv
    <3>3. InFlight(b) => (life'[batch[b].via] # "stopped") /\ InHand(b)
      BY <1>1, <1>5, <3>1, <3>2 DEF BatchInv, InFlight, InHand
    <3>4. InHand(b) => (batch[b].via = exporter \/ life'[batch[b].via] = "stopped")
      BY <1>1, <1>5, <3>2 DEF BatchInv
    <3> QED
      BY <1>1, <1>5, <3>2, <3>3, <3>4 DEF BatchInv, InHand, InFlight
  <2> QED
    BY <2>1, <2>2, <2>3 DEF Sound
<1>6. CASE Settle(c)
  <2> DEFINE new == call[c].new
             e   == IF call[c].config.enabled THEN NoComponent ELSE new
  <2>1. /\ UNCHANGED <<mu, config, exporter, closed, parts, batch, meant, receipt>>
        /\ call'[c].pc = (IF e = NoComponent THEN "install" ELSE "stop") /\ call'[c].victim = e
        /\ call'[c].then = "install" /\ call'[c].new = new /\ call'[c].op = call[c].op
        /\ call'[c].config = call[c].config /\ call'[c].keep = call[c].keep
        /\ \A d \in Callers : d # c => call'[d] = call[d]
    <3>1. call' = [call EXCEPT ![c].pc = IF e = NoComponent THEN "install" ELSE "stop", ![c].victim = e,
                               ![c].then = "install"]
      BY <1>6 DEF Settle, Retiring
    <3>2. UNCHANGED <<mu, config, exporter, closed, parts, batch, meant, receipt>>
      BY <1>6 DEF Settle
    <3> HIDE DEF e
    <3>3. /\ call'[c].pc = (IF e = NoComponent THEN "install" ELSE "stop") /\ call'[c].victim = e
          /\ call'[c].then = "install" /\ call'[c].new = new /\ call'[c].op = call[c].op
          /\ call'[c].config = call[c].config /\ call'[c].keep = call[c].keep
          /\ \A d \in Callers : d # c => call'[d] = call[d]
      BY <3>1 DEF Types, CallType
    <3> QED
      BY <3>2, <3>3
  <2>2. Settles(c)
    BY <1>2, <1>6 DEF Settle, Phase, KeepsActive, RetiresActive, Settles, RetiresNew, Installs, Draining
  <2>3. activity' + SentBy(new) = answered'
    BY <1>6, <2>2 DEF Settle, Settles, SentBy, Types, CallType
  <2>4. (Saves(c)' <=> Saves(c)) /\ SentBy(new)' = SentBy(new) /\ Alive(new)' /\ Retired(exporter)'
    BY <2>1, <2>2 DEF Saves, UnchangedSave, SentBy, Settles, Alive, Retired
  <2>5. Phase(c)'
    <3>1. CASE call[c].config.enabled
      <4>1. Installs(c)'
        BY <2>1, <2>2, <2>3, <2>4, <3>1 DEF Installs, Settles
      <4> QED
        BY <1>2, <2>1, <4>1 DEF Phase
    <3>2. CASE ~call[c].config.enabled /\ new = NoComponent
      <4>1. Retired(call[c].new)' /\ activity' = answered'
        <5>1. SentBy(new) = 0 /\ activity' \in Nat
          BY <3>2 DEF SentBy, Types
        <5> QED
          BY <2>1, <2>3, <3>2, <5>1 DEF Retired
      <4>2. Installs(c)'
        BY <2>1, <2>2, <2>4, <3>2, <4>1 DEF Installs, Settles
      <4> QED
        BY <1>2, <2>1, <4>2 DEF Phase
    <3>3. CASE ~call[c].config.enabled /\ new # NoComponent
      <4>1. Draining(c)'
        BY <2>1, <2>4, <3>3 DEF Draining, Types, CallType, Alive
      <4>2. RetiresNew(c)'
        BY <2>1, <2>2, <2>3, <2>4, <3>3, <4>1 DEF RetiresNew, Settles
      <4> QED
        BY <1>2, <2>1, <4>2 DEF Phase
    <3> QED
      BY <3>1, <3>2, <3>3
  <2>6. Holding(c)'
    BY <2>1 DEF Holding
  <2>7. exporter # NoComponent => life[exporter] = "stopped"
    BY <2>2 DEF Settles, Retired
  <2> QED
    BY <1>5, <2>1, <2>5, <2>6, <2>7
<1>7. CASE Stop(c)
  <2> DEFINE v == call[c].victim
  <2>1. /\ UNCHANGED <<mu, config, exporter, closed, activity, answered, built, target, sent, batch, meant, receipt>>
        /\ call[c].pc = "stop" /\ call'[c] = [call[c] EXCEPT !.pc = "collect"]
        /\ \A d \in Callers : d # c => call'[d] = call[d]
        /\ life' = [life EXCEPT ![v] = "stopping"]
    BY <1>7 DEF Stop, Types
  <2>2. /\ call'[c].pc = "collect" /\ call'[c].victim = v /\ call'[c].then = call[c].then
        /\ call'[c].new = call[c].new /\ call'[c].op = call[c].op
        /\ call'[c].config = call[c].config /\ call'[c].keep = call[c].keep
    BY <2>1 DEF Types, CallType
  <2>3. Draining(c) /\ v \in {exporter, call[c].new}
    BY <1>2, <2>1 DEF Phase, KeepsActive, RetiresActive, Settles, RetiresNew, Installs
  <2>4. /\ v \in Components /\ life[v] = "live" /\ life'[v] = "stopping"
        /\ \A e \in Components : e # v => life'[e] = life[e]
    BY <2>1, <2>3 DEF Draining, Types
  <2>5. Draining(c)'
    BY <2>2, <2>4 DEF Draining
  <2>6. /\ Saves(c)' <=> Saves(c)
        /\ SentBy(exporter)' = SentBy(exporter) /\ SentBy(call[c].new)' = SentBy(call[c].new)
    BY <2>1, <2>2 DEF Saves, UnchangedSave, SentBy
  <2>7. \A e \in {exporter, call[c].new} : e # v => Alive(e)' = Alive(e) /\ Retired(e)' = Retired(e)
    BY <2>4 DEF Alive, Retired, Types, CallType
  <2>8. Phase(c)'
    <3>1. KeepsActive(c) => KeepsActive(c)'
      BY <1>3, <2>1, <2>2, <2>3, <2>4, <2>5, <2>6, <2>7 DEF KeepsActive
    <3>2. RetiresActive(c) => RetiresActive(c)'
      BY <1>3, <2>1, <2>2, <2>3, <2>4, <2>5, <2>6, <2>7 DEF RetiresActive, Alive
    <3>3. RetiresNew(c) => RetiresNew(c)'
      BY <1>3, <2>1, <2>2, <2>3, <2>4, <2>5, <2>6, <2>7 DEF RetiresNew, Retired
    <3> QED
      BY <1>2, <2>1, <2>2, <3>1, <3>2, <3>3 DEF Phase, Settles, Installs
  <2>9. Holding(c)'
    BY <2>2 DEF Holding
  <2> QED
    BY <1>5, <2>1, <2>2, <2>3, <2>4, <2>8, <2>9
<1>8. CASE Collect(c)
  <2> DEFINE v == call[c].victim
  <2>1. /\ UNCHANGED <<mu, config, exporter, closed, built, target, sent, batch, meant, receipt>>
        /\ call[c].pc = "collect" /\ call'[c] = [call[c] EXCEPT !.pc = call[c].then]
        /\ \A d \in Callers : d # c => call'[d] = call[d]
        /\ life' = [life EXCEPT ![v] = "stopped"] /\ Pending(v) = {}
        /\ activity' = activity + sent[v] /\ answered' = IF Saves(c) THEN answered + sent[v] ELSE answered
    BY <1>8 DEF Collect, Types, Saves
  <2>2. /\ call'[c].pc = call[c].then /\ call'[c].victim = v /\ call'[c].then = call[c].then
        /\ call'[c].new = call[c].new /\ call'[c].op = call[c].op
        /\ call'[c].config = call[c].config /\ call'[c].keep = call[c].keep
    BY <2>1 DEF Types, CallType
  <2>3. Draining(c) /\ v \in {exporter, call[c].new}
    BY <1>2, <2>1 DEF Phase, KeepsActive, RetiresActive, Settles, RetiresNew, Installs
  <2>4. /\ v \in Components /\ life[v] = "stopping" /\ life'[v] = "stopped"
        /\ \A e \in Components : e # v => life'[e] = life[e]
        /\ sent[v] \in Nat /\ v # NoComponent
    BY <2>1, <2>3 DEF Draining, Types
  <2>5. /\ Saves(c)' <=> Saves(c)
        /\ SentBy(exporter)' = SentBy(exporter) /\ SentBy(call[c].new)' = SentBy(call[c].new) /\ SentBy(v) = sent[v]
    BY <2>1, <2>2, <2>4 DEF Saves, UnchangedSave, SentBy
  <2>6. /\ (v = exporter => Retired(exporter)') /\ (v = call[c].new => Retired(call[c].new)')
        /\ \A e \in {exporter, call[c].new} : e # v => Alive(e)' = Alive(e) /\ Retired(e)' = Retired(e)
    <3>1. \A e \in {exporter, call[c].new} : e # v => Alive(e)' = Alive(e) /\ Retired(e)' = Retired(e)
      BY <2>4 DEF Alive, Retired, Types, CallType
    <3>2. (v = exporter => Retired(exporter)') /\ (v = call[c].new => Retired(call[c].new)')
      BY <2>1, <2>2, <2>4 DEF Retired
    <3> QED
      BY <3>1, <3>2
  <2>7. SentBy(exporter) \in Nat /\ SentBy(call[c].new) \in Nat
    BY DEF SentBy, Types, CallType
  <2>8. Phase(c)'
    <3>1. KeepsActive(c) => KeepsActive(c)'
      <4>1. KeepsActive(c) => activity' + SentBy(exporter) = answered'
        BY <2>1, <2>4, <2>7 DEF KeepsActive, Types
      <4>2. KeepsActive(c) => v = call[c].new /\ exporter # v
        BY <1>2, <2>1, <2>4 DEF KeepsActive, BringsOwn, Draining
      <4>3. KeepsActive(c) => Alive(exporter)' /\ Retired(call[c].new)' /\ call'[c].pc = "install"
        <5>1. KeepsActive(c) => Alive(exporter)'
          BY <2>1, <2>6, <4>2 DEF KeepsActive, Alive
        <5> QED
          BY <2>2, <2>6, <4>2, <5>1 DEF KeepsActive
      <4> QED
        BY <2>1, <2>2, <2>5, <4>1, <4>3 DEF KeepsActive
    <3>2. RetiresActive(c) /\ call[c].op = "apply" => Settles(c)'
      BY <1>3, <2>1, <2>2, <2>4, <2>5, <2>6 DEF RetiresActive, Settles, Alive
    <3>3. RetiresActive(c) /\ call[c].op # "apply" => Installs(c)'
      <4>1. call[c].op # "apply" => call[c].new = NoComponent
        BY <1>2 DEF BringsOwn
      <4> QED
        BY <1>3, <2>1, <2>2, <2>4, <2>5, <2>6, <4>1 DEF RetiresActive, Installs, Retired
    <3>4. RetiresNew(c) => Installs(c)'
      BY <1>3, <2>1, <2>2, <2>4, <2>5, <2>6 DEF RetiresNew, Installs, Retired
    <3> QED
      BY <1>2, <2>1, <2>2, <3>1, <3>2, <3>3, <3>4 DEF Phase, Settles, Installs
  <2>9. Holding(c)'
    BY <2>2 DEF Holding, Types, CallType
  <2> QED
    BY <1>5, <2>1, <2>2, <2>3, <2>4, <2>8, <2>9
<1>9. CASE Install(c)
  <2> DEFINE saved == /\ call[c].op = "apply" /\ call[c].config.enabled /\ ~Saves(c)
  <2>1. /\ UNCHANGED <<closed, activity, parts, batch, history>> /\ mu' = Free
        /\ call[c].pc = "install" /\ call'[c] = IdleCall
        /\ \A d \in Callers : d # c => call'[d] = call[d]
        /\ exporter' = IF Saves(c) THEN exporter ELSE IF saved THEN call[c].new ELSE NoComponent
    BY <1>9 DEF Install, Types, Saves
  <2>2. call[c].op = "apply" => config' = call[c].config
    BY <1>9 DEF Install
  <2>3. KeepsActive(c) \/ Installs(c)
    BY <1>2, <2>1 DEF Phase, RetiresActive, Settles, RetiresNew, Draining
  <2>4. ASSUME NEW d \in Callers PROVE CallInv(d)'
    <3>1. CASE d # c
      <4>1. mu' # d /\ built <= built'
        BY <1>2, <2>1 DEF Types
      <4> QED
        BY <1>1, <1>2, <1>3, <1>4, <2>1, <3>1, <4>1, CallSame
    <3>2. CASE d = c
      BY <1>2, <2>1, <3>2 DEF CallInv, BringsOwn, Holding, IdleCall
    <3> QED
      BY <3>1, <3>2
  <2>5. /\ Alive(exporter)' /\ (closed' => exporter' = NoComponent) /\ activity' + SentBy(exporter)' = answered'
        /\ exporter' # NoComponent => exporter' <= built /\ target[exporter'] = config'.dest
        /\ \A e \in {exporter, call[c].new} : e # NoComponent /\ e # exporter' => life[e] # "live"
        /\ exporter' = exporter \/ Retired(exporter)
    <3>1. CASE KeepsActive(c)
      <4>1. exporter' = exporter /\ config' = config /\ ~closed /\ Retired(call[c].new)
        BY <1>2, <2>1, <2>2, <3>1 DEF KeepsActive, Saves, UnchangedSave, Phase, Draining
      <4> QED
        BY <1>1, <2>1, <3>1, <4>1 DEF KeepsActive, OwnerInv, Alive, SentBy, Retired
    <3>2. CASE Installs(c) /\ saved
      <4>1. exporter' = call[c].new /\ config' = call[c].config /\ ~closed
        BY <1>2, <2>1, <2>2, <3>2 DEF Phase
      <4> QED
        BY <1>2, <2>1, <3>2, <4>1 DEF Installs, Alive, SentBy, Retired, BringsOwn
    <3>3. CASE Installs(c) /\ ~saved
      <4>1. exporter' = NoComponent /\ activity = answered /\ Retired(call[c].new)
        BY <2>1, <3>3 DEF Installs
      <4> QED
        BY <2>1, <3>3, <4>1 DEF Installs, Alive, SentBy, Retired, Types
    <3> QED
      BY <2>3, <3>1, <3>2, <3>3
  <2>6. OwnerInv'
    <3>1. \A e \in Components : life'[e] = "live" => e = exporter' \/ \E d \in Callers : call'[d].new = e
      <4>1. \A e \in Components : life[e] = "live" => e = exporter \/ \E d \in Callers : call[d].new = e
        BY <1>1 DEF OwnerInv
      <4>2. \A e \in Components : life[e] = "live" /\ e \in {exporter, call[c].new} => e = exporter'
        BY <2>5
      <4> QED
        BY <2>1, <4>1, <4>2
    <3>2. \A d, x \in Callers : d # x /\ call'[d].new # NoComponent => call'[d].new # call'[x].new
      BY <1>1, <2>1 DEF OwnerInv, IdleCall
    <3>3. exporter' <= built'
      BY <2>1, <2>5 DEF NoComponent, Types
    <3> QED
      BY <1>1, <2>1, <2>5, <3>1, <3>2, <3>3 DEF OwnerInv
  <2>7. ASSUME NEW b \in Batches PROVE BatchInv(b)'
    <3>1. InHand(b) => batch[b].via = exporter' \/ life[batch[b].via] = "stopped"
      BY <1>1, <2>5 DEF BatchInv, Retired
    <3> QED
      BY <1>1, <2>1, <3>1 DEF BatchInv, InHand, InFlight
  <2> QED
    BY <2>4, <2>6, <2>7 DEF Sound
<1> QED
  BY <1>6, <1>7, <1>8, <1>9 DEF Locked

\* A batch is captured, or goes on with the component that it has.
LEMMA BatchesSound ==
  ASSUME Types, Types', Sound, NEW b \in Batches, Capture(b) \/ Sender(b)
  PROVE  Sound'
<1> USE Basics DEF state, parts, history
<1>1. OwnerInv /\ (\A d \in Callers : CallInv(d)) /\ \A x \in Batches : BatchInv(x)
  BY DEF Sound
<1>2. InFlight(b) => /\ InHand(b) /\ batch[b].via = exporter /\ exporter \in Components
                     /\ life[exporter] # "stopped"
  BY <1>1 DEF BatchInv, InFlight, InHand
\* What is left of a step that counts nothing.
<1>3. ASSUME UNCHANGED <<mu, config, exporter, closed, activity, built, target, life, sent, call, answered>>,
             \A x \in Batches : x # b => batch'[x] = batch[x] /\ meant'[x] = meant[x] /\ receipt'[x] = receipt[x],
             BatchInv(b)'
      PROVE  Sound'
  <2>1. OwnerInv'
    BY <1>1, <1>3 DEF OwnerInv, Alive, SentBy
  <2>2. built <= built' /\ BuiltSame
    BY <1>3 DEF BuiltSame, Types
  <2>3. \A d \in Callers : CallInv(d)'
    BY <1>1, <1>3, <2>2, PhaseSame
  <2>4. \A x \in Batches : x # b => BatchInv(x)'
    BY <1>1, <1>3, BatchSame
  <2> QED
    BY <1>3, <2>1, <2>3, <2>4 DEF Sound
<1>4. CASE Capture(b)
  <2> DEFINE via == IF closed \/ ~config.enabled THEN NoComponent ELSE exporter
  <2>1. /\ UNCHANGED <<mu, config, exporter, closed, activity, built, target, life, sent, call, answered, receipt>>
        /\ \A x \in Batches : x # b => batch'[x] = batch[x] /\ meant'[x] = meant[x]
        /\ batch'[b] = [pc |-> IF via = NoComponent THEN "local" ELSE "captured", via |-> via]
        /\ meant'[b] = IF closed \/ ~config.enabled THEN NoDest ELSE config.dest
        /\ batch[b].pc = "new"
    BY <1>4 DEF Capture, Types
  <2>2. receipt'[b] = NoDest
    BY <1>1, <2>1 DEF BatchInv
  <2>3. via # NoComponent => via = exporter /\ via \in Components /\ meant'[b] = target[via]
    BY <1>1, <2>1 DEF OwnerInv, Types
  <2>4. BatchInv(b)'
    BY <2>1, <2>2, <2>3 DEF BatchInv, InHand, InFlight
  <2> QED
    BY <1>3, <2>1, <2>4
<1>5. ASSUME NEW pc, Move(b, pc)
      PROVE  /\ batch'[b].pc = pc /\ batch'[b].via = batch[b].via
             /\ \A x \in Batches : x # b => batch'[x] = batch[x]
  BY <1>5 DEF Move, Types, BatchType
<1>6. ASSUME InHand(b), NEW pc, Move(b, pc), pc # "captured", pc # "new",
             pc \in {"queued", "wire", "accepted"} => life[batch[b].via] # "stopped",
             UNCHANGED <<mu, config, exporter, closed, activity, built, target, life, sent, call, answered, meant>>,
             \A x \in Batches : x # b => receipt'[x] = receipt[x],
             receipt'[b] = receipt[b] \/ receipt'[b] = target[batch[b].via]
      PROVE  Sound'
  <2>1. BatchInv(b)'
    BY <1>1, <1>5, <1>6 DEF BatchInv, InHand, InFlight
  <2> QED
    BY <1>3, <1>5, <1>6, <2>1
<1>7. CASE Enqueue(b)
  <2>1. CASE life[batch[b].via] = "stopped"
    BY <1>6, <1>7, <2>1 DEF Enqueue, InHand
  <2>2. CASE life[batch[b].via] # "stopped"
    BY <1>6, <1>7, <2>2 DEF Enqueue, InHand
  <2> QED
    BY <2>1, <2>2
<1>8. CASE Send(b)
  <2>1. InFlight(b)
    BY <1>8 DEF Send, InFlight
  <2>2. CASE life[batch[b].via] = "live"
    BY <1>2, <1>6, <1>8, <2>1, <2>2 DEF Send
  <2>3. CASE life[batch[b].via] # "live"
    BY <1>2, <1>6, <1>8, <2>1, <2>3 DEF Send
  <2> QED
    BY <2>2, <2>3
<1>9. CASE Accept(b)
  <2>1. InFlight(b)
    BY <1>9 DEF Accept, InFlight
  <2>2. receipt'[b] = target[batch[b].via] /\ \A x \in Batches : x # b => receipt'[x] = receipt[x]
    BY <1>9 DEF Accept, Types
  <2> QED
    BY <1>2, <1>6, <1>9, <2>1, <2>2 DEF Accept
<1>10. CASE Fail(b)
  <2>1. InFlight(b)
    BY <1>10 DEF Fail, InFlight
  <2>2. CASE Move(b, "dropped")
    BY <1>2, <1>6, <1>10, <2>1, <2>2 DEF Fail
  <2>3. CASE life[batch[b].via] = "live" /\ Move(b, "queued")
    BY <1>2, <1>6, <1>10, <2>1, <2>3 DEF Fail
  <2> QED
    BY <1>10, <2>2, <2>3 DEF Fail
<1>11. CASE Record(b)
  <2>1. InFlight(b)
    BY <1>11 DEF Record, InFlight
  <2>2. /\ UNCHANGED <<mu, config, exporter, closed, activity, built, target, life, call, meant, receipt>>
        /\ batch'[b].pc = "done" /\ \A x \in Batches : x # b => batch'[x] = batch[x]
        /\ answered' = answered + 1 /\ sent'[exporter] = sent[exporter] + 1
        /\ \A e \in Components : e # exporter => sent'[e] = sent[e]
    BY <1>2, <1>5, <1>11, <2>1 DEF Record, Types
  <2>3. /\ exporter # NoComponent /\ ~Retired(exporter) /\ SentBy(exporter)' = SentBy(exporter) + 1
        /\ sent[exporter] \in Nat
    BY <1>2, <2>1, <2>2 DEF Retired, SentBy, Types
  <2>4. activity + SentBy(exporter) = answered => activity' + SentBy(exporter)' = answered'
    BY <2>2, <2>3 DEF Types, SentBy
  <2>5. OwnerInv'
    BY <1>1, <2>2, <2>4 DEF OwnerInv, Alive
  <2>6. ASSUME NEW d \in Callers PROVE CallInv(d)'
    <3>1. Phase(d) => KeepsActive(d) \/ RetiresActive(d)
      BY <2>3 DEF Phase, Settles, RetiresNew, Installs
    <3>2. /\ Saves(d)' <=> Saves(d)
          /\ Draining(d)' <=> Draining(d)
      BY <2>2 DEF Saves, UnchangedSave, Draining
    <3>3. KeepsActive(d) => KeepsActive(d)'
      BY <2>2, <2>4, <3>2 DEF KeepsActive, Alive, Retired
    <3>4. RetiresActive(d) => RetiresActive(d)'
      BY <2>2, <2>4, <3>2 DEF RetiresActive, Alive
    <3> QED
      BY <1>1, <2>2, <3>1, <3>3, <3>4 DEF CallInv, BringsOwn, Holding, Alive, Phase
  <2>7. \A x \in Batches : BatchInv(x)'
    BY <1>1, <2>2 DEF BatchInv, InHand, InFlight
  <2> QED
    BY <2>5, <2>6, <2>7 DEF Sound
<1> QED
  BY <1>4, <1>7, <1>8, <1>9, <1>10, <1>11 DEF Sender

-----------------------------------------------------------------------------
(* The theorems *)

LEMMA InvInit == LogsInit => Types /\ Sound
<1> SUFFICES ASSUME LogsInit PROVE Types /\ Sound
  OBVIOUS
<1> USE Basics DEF LogsInit
<1>1. Types
  <2>1. NoConfig \in Configs
    BY DEF NoConfig, Configs
  <2>2. call \in [Callers -> CallType] /\ batch \in [Batches -> BatchType]
    BY IdleType DEF BatchType
  <2>3. target \in [Components -> Dests \cup {NoDest}] /\ sent \in [Components -> Nat]
    OBVIOUS
  <2>4. life \in [Components -> {"none", "live", "stopping", "stopped"}]
    OBVIOUS
  <2>5. meant \in [Batches -> Dests \cup {NoDest}] /\ receipt \in [Batches -> Dests \cup {NoDest}]
    OBVIOUS
  <2>6. built \in 0 .. MaxComponents /\ activity \in Nat /\ answered \in Nat
    BY DEF NoComponent
  <2>7. mu \in Callers \cup {Free} /\ exporter \in Components \cup {NoComponent} /\ closed \in BOOLEAN
    BY Zenon
  <2> HIDE DEF LogsInit
  <2> QED
    BY <2>1, <2>2, <2>3, <2>4, <2>5, <2>6, <2>7 DEF Types, LogsInit
<1>2. OwnerInv
  <2>1. \A c \in Callers : call[c].new = NoComponent
    BY DEF IdleCall
  <2> QED
    BY <2>1 DEF OwnerInv, Alive, SentBy, NoComponent
<1>3. \A c \in Callers : CallInv(c)
  BY DEF CallInv, BringsOwn, Holding, IdleCall
<1>4. \A b \in Batches : BatchInv(b)
  BY DEF BatchInv, InHand, InFlight
<1> QED
  BY <1>1, <1>2, <1>3, <1>4 DEF Sound

LEMMA InvKept == Types /\ Sound /\ [LogsNext]_lvars => (Types /\ Sound)'
<1>1. CASE Types /\ Sound /\ LogsNext
  <2>1. Types'
    BY <1>1, TypesKept DEF Sound
  <2>2. ASSUME NEW c \in Callers, Begin(c) \/ Lock(c) \/ Locked(c) PROVE Sound'
    BY <1>1, <2>1, <2>2, BeginsSound, LocksSound, LockedSound
  <2>3. ASSUME NEW b \in Batches, Capture(b) \/ Sender(b) PROVE Sound'
    BY <1>1, <2>1, <2>3, BatchesSound
  <2> QED
    BY <1>1, <2>1, <2>2, <2>3 DEF LogsNext
<1>2. CASE Types /\ Sound /\ UNCHANGED lvars
  <2>1. UNCHANGED <<mu, config, exporter, closed, activity, built, target, life, sent, call, batch, meant, receipt, answered>>
    BY <1>2 DEF lvars, state, parts, history
  <2>2. Types'
    BY <1>2, <2>1 DEF Types
  <2>3. OwnerInv' /\ \A b \in Batches : BatchInv(b)'
    BY <1>2, <2>1 DEF Sound, OwnerInv, BatchInv, InHand, InFlight, Alive, SentBy
  <2>4. built <= built' /\ BuiltSame
    BY <1>2, <2>1 DEF BuiltSame, Types
  <2>5. \A d \in Callers : CallInv(d)'
    BY <1>2, <2>1, <2>2, <2>4, PhaseSame DEF Sound, state
  <2> QED
    BY <2>2, <2>3, <2>5 DEF Sound
<1> QED
  BY <1>1, <1>2

\* Everything that the theorems say is a part of the invariant.
LEMMA InvSuffices ==
  ASSUME Types, Sound
  PROVE  ForwardedAsReceived /\ NothingInFlightAfterReturn /\ SendsAreAccounted
<1>1. OwnerInv /\ (\A c \in Callers : CallInv(c)) /\ \A b \in Batches : BatchInv(b)
  BY DEF Sound
<1>2. ForwardedAsReceived
  BY <1>1 DEF BatchInv, ForwardedAsReceived
<1>3. NothingInFlightAfterReturn
  BY <1>1 DEF BatchInv, InFlight, InHand, NothingInFlightAfterReturn
<1>4. EverySendCountedOnce
  BY <1>1 DEF OwnerInv, SentBy, Shown, EverySendCountedOnce
<1>5. NoneLeftBehind
  BY <1>1, Basics DEF OwnerInv, NoneLeftBehind
<1> QED
  BY <1>2, <1>3, <1>4, <1>5, SameTypes DEF SendsAreAccounted

LEMMA AlwaysSound == LogsInit /\ [][LogsNext]_lvars => [](Types /\ Sound)
BY InvInit, InvKept, PTL

\* A batch reaches the destination that was configured and enabled when it came
\* in, or none, however the settings change meanwhile (logsExporterForIngest).
THEOREM ForwardedWhereMeant == LogsSpec => []ForwardedAsReceived
<1>1. Types /\ Sound => ForwardedAsReceived
  BY InvSuffices
<1> QED
  BY <1>1, AlwaysSound, PTL DEF LogsSpec

\* Once a settings call has returned nothing is on its way through a component
\* that it has retired (retire, Shutdown of the component).
THEOREM NothingComesLater == LogsSpec => []NothingInFlightAfterReturn
<1>1. Types /\ Sound => NothingInFlightAfterReturn
  BY InvSuffices
<1> QED
  BY <1>1, AlwaysSound, PTL DEF LogsSpec

\* Every accepted send is counted exactly once across replacements, pauses and
\* unchanged saves, and every running component has an owner (apply, retire).
THEOREM EverySendAccounted == LogsSpec => []SendsAreAccounted
<1>1. Types /\ Sound => SendsAreAccounted
  BY InvSuffices
<1> QED
  BY <1>1, AlwaysSound, PTL DEF LogsSpec
=============================================================================
