------------------------------ MODULE LivePush ------------------------------
(***************************************************************************)
(* Live updates (internal/web/websocket.go, server.go): a store tells its  *)
(* subscribers which signal changed; one goroutine per store broadcasts    *)
(* the signals it finds in its channel; every browser connection throttles *)
(* them per signal, queries the store and sends what it read.  Connections *)
(* share only the broadcasting goroutines, so one connection is followed:  *)
(* the time the others take is the time between two steps.                 *)
(*                                                                         *)
(* What a signal shows is a number, raised by each change.  One step is    *)
(* one critical section of the connection's mutex, of a store or of its    *)
(* subscribers.  The messages that carry no signal (connected,             *)
(* config-changed, reload, pings) leave this state alone.                  *)
(***************************************************************************)
EXTENDS Naturals, SequencesExt

CONSTANTS
  Telemetry,   \* the telemetry signals, in the order pushAll sends them
  ChannelSize, \* capacity of a subscriber's channel
  Cooldowns,   \* bound: timer callbacks running at once
  MaxNotices,  \* bound: signals raised by changes of the stores
  MaxCommands  \* bound: messages of the browser

Stats      == "stats"
Validation == "validation"
Reader     == "reader"
Feeds      == {"telemetry", "validation"}

TelemetrySignals == {Telemetry[i] : i \in DOMAIN Telemetry}
Stored  == TelemetrySignals \cup {Validation}
Signals == Stored \cup {Stats}
Tasks   == Feeds \cup {Reader} \cup Cooldowns

ASSUME PushAssumption ==
  /\ Telemetry \in Seq(TelemetrySignals)
  /\ TelemetrySignals \cap {Stats, Validation} = {}
  /\ ChannelSize \in Nat \ {0}
  /\ MaxNotices \in Nat /\ MaxCommands \in Nat
  /\ Cooldowns \cap ({Reader} \cup Feeds) = {}

VARIABLES
  version,    \* signal -> what a query of the stores returns for it
  owed,       \* signal -> notify calls under way
  channel,    \* feed -> signals waiting for its goroutine
  open,       \* the connection is registered, cleanup has not run
  subscribed, paused, pausedNotified,
  timers,     \* signals in their cooldown
  overPause,  \* those whose callback may push while paused
  pending,    \* signals that came during their cooldown
  task,       \* goroutine -> [pc, todo, forced, data]
  view,       \* signal -> the last data the browser received
  told,       \* the browser got paused-update since the last command
  commands,   \* messages the browser has sent
  newest,     \* history: signal -> the newest data the browser received
  missed,     \* history: signals whose notification found the channel full
  unseen      \* history: telemetry changed since the pause

store == <<version, owed, channel>>
conn  == <<open, subscribed, paused, pausedNotified, timers, overPause, pending>>
browser == <<view, told, commands>>
history == <<newest, missed, unseen>>
pvars == <<store, conn, task, browser, history>>

Doing(pc, todo, forced) == [pc |-> pc, todo |-> todo, forced |-> forced, data |-> 0]
Idle == Doing("idle", <<>>, FALSE)

FeedOf(s) == IF s = Validation THEN "validation" ELSE "telemetry"

Phases == {"idle", "signal", "announce", "push", "query", "send",
           "subscribe", "pause", "resume", "all"}

PushTypeOK ==
  /\ version \in [Signals -> Nat] /\ owed \in [Stored -> Nat]
  /\ channel \in [Feeds -> Seq(Stored)]
  /\ \A f \in Feeds : /\ Len(channel[f]) <= ChannelSize
                      /\ \A i \in DOMAIN channel[f] : FeedOf(channel[f][i]) = f
  /\ open \in BOOLEAN /\ subscribed \in BOOLEAN /\ paused \in BOOLEAN
  /\ pausedNotified \in BOOLEAN
  /\ overPause \subseteq timers /\ timers \subseteq Signals
  /\ pending \subseteq Signals
  /\ task \in [Tasks -> [pc : Phases, todo : Seq(Signals), forced : BOOLEAN,
                         data : Nat]]
  /\ \A p \in Tasks :
       task[p].pc \in {"signal", "push", "query", "send"} => task[p].todo # <<>>
  /\ view \in [Signals -> Nat]
  /\ told \in BOOLEAN /\ commands \in 0..MaxCommands
  /\ newest \in [Signals -> Nat]
  /\ missed \subseteq TelemetrySignals /\ unseen \in BOOLEAN

PushInit ==
  /\ version = [s \in Signals |-> 1] /\ owed = [s \in Stored |-> 0]
  /\ channel = [f \in Feeds |-> <<>>]
  /\ open = TRUE /\ subscribed = FALSE
  /\ paused = FALSE /\ pausedNotified = FALSE
  /\ timers = {} /\ overPause = {} /\ pending = {}
  /\ task = [p \in Tasks |-> Idle]
  /\ view = [s \in Signals |-> 0] /\ told = FALSE /\ commands = 0
  /\ newest = view /\ missed = {} /\ unseen = FALSE

-----------------------------------------------------------------------------
(* The stores *)

Raised == MapThenSumSet(LAMBDA s : version[s] - 1, Stored)

\* An ingest changes one signal; a clear, a lapse or an eviction several.  The
\* statistics are computed from the telemetry.  Bound: nothing changes once the
\* connection has ended.
ChangeTelemetry(changed) ==
  /\ open /\ Raised + Cardinality(changed) <= MaxNotices
  /\ version' = [s \in Signals |->
       IF s \in changed \cup {Stats} THEN version[s] + 1 ELSE version[s]]
  /\ owed' = [s \in Stored |-> IF s \in changed THEN owed[s] + 1 ELSE owed[s]]
  /\ unseen' = (unseen \/ paused)
  /\ UNCHANGED <<channel, conn, task, browser, newest, missed>>

ChangeValidation ==
  /\ open /\ Raised < MaxNotices
  /\ version' = [version EXCEPT ![Validation] = @ + 1]
  /\ owed' = [owed EXCEPT ![Validation] = @ + 1]
  /\ UNCHANGED <<channel, conn, task, browser, history>>

\* notify, after the store's lock is released: a full channel drops the signal.
Notify(s) ==
  /\ owed[s] > 0
  /\ owed' = [owed EXCEPT ![s] = @ - 1]
  /\ LET f == FeedOf(s)
     IN  \/ /\ Len(channel[f]) < ChannelSize
            /\ channel' = [channel EXCEPT ![f] = Append(@, s)]
            /\ UNCHANGED missed
         \/ /\ Len(channel[f]) = ChannelSize
            /\ missed' = IF \E i \in DOMAIN channel[f] : channel[f][i] = s
                           THEN missed ELSE missed \cup {s}
            /\ UNCHANGED channel
  /\ UNCHANGED <<version, conn, task, browser, newest, unseen>>

-----------------------------------------------------------------------------
(* Broadcasting *)

\* The goroutine of Register takes a signal; the connection is in the snapshot
\* of the registry until cleanup removes it.
Receive(f) ==
  /\ task[f].pc = "idle" /\ channel[f] # <<>>
  /\ channel' = [channel EXCEPT ![f] = Tail(@)]
  /\ task' = IF open
               THEN [task EXCEPT ![f] = Doing("signal", <<Head(channel[f])>>, FALSE)]
               ELSE task
  /\ UNCHANGED <<version, owed, conn, browser, history>>

\* Mutation: the announcement is marked before validation is told apart.
OnSignalMarksFirst(f) ==
  /\ task[f].pc = "signal"
  /\ LET sig == task[f].todo[1]
         job == IF ~subscribed THEN Idle
                ELSE IF sig = Validation THEN Doing("push", <<sig>>, paused)
                ELSE IF ~paused THEN Doing("push", <<sig, Stats>>, FALSE)
                ELSE IF pausedNotified THEN Idle
                ELSE Doing("announce", <<>>, FALSE)
     IN  /\ task' = [task EXCEPT ![f] = job]
         /\ pausedNotified' = (pausedNotified \/ (subscribed /\ paused))
  /\ UNCHANGED <<store, open, subscribed, paused, timers, overPause, pending,
                 browser, history>>

\* onSignal: telemetry is pushed with the statistics, or announced once while
\* the connection is paused; validation is pushed in either case.
OnSignal(f) ==
  /\ task[f].pc = "signal"
  /\ LET sig == task[f].todo[1]
         job == IF ~subscribed THEN Idle
                ELSE IF sig = Validation THEN Doing("push", <<sig>>, paused)
                ELSE IF ~paused THEN Doing("push", <<sig, Stats>>, FALSE)
                ELSE IF pausedNotified THEN Idle
                ELSE Doing("announce", <<>>, FALSE)
     IN  /\ task' = [task EXCEPT ![f] = job]
         /\ pausedNotified' = (pausedNotified \/ job.pc = "announce")
  /\ UNCHANGED <<store, open, subscribed, paused, timers, overPause, pending,
                 browser, history>>

Announce(f) ==
  /\ task[f].pc = "announce"
  /\ told' = (told \/ open)
  /\ task' = [task EXCEPT ![f] = Idle]
  /\ UNCHANGED <<store, conn, view, commands, history>>

-----------------------------------------------------------------------------
(* Throttled pushes *)

\* The signals after the one just dealt with: pushAll queries each, the others
\* go through throttledPush.
Following(p) ==
  IF Len(task[p].todo) = 1 THEN Idle
  ELSE Doing(IF p = Reader THEN "query" ELSE "push", Tail(task[p].todo),
             task[p].forced)

\* throttledPush: refused, put off to the end of the cooldown, or let through.
Push(p) ==
  /\ task[p].pc = "push"
  /\ LET s == Head(task[p].todo)
         refused == ~subscribed \/ (paused /\ ~task[p].forced)
     IN  \/ /\ refused
            /\ task' = [task EXCEPT ![p] = Following(p)]
            /\ UNCHANGED <<timers, overPause, pending>>
         \/ /\ ~refused /\ s \in timers
            /\ pending' = pending \cup {s}
            /\ task' = [task EXCEPT ![p] = Following(p)]
            /\ UNCHANGED <<timers, overPause>>
         \/ /\ ~refused /\ s \notin timers
            /\ timers' = timers \cup {s}
            /\ overPause' = IF task[p].forced THEN overPause \cup {s} ELSE overPause
            /\ task' = [task EXCEPT ![p] = Doing("query", task[p].todo, task[p].forced)]
            /\ UNCHANGED pending
  /\ UNCHANGED <<store, open, subscribed, paused, pausedNotified, browser, history>>

\* queryAndSend reads the store, then waits for the connection.
Query(p) ==
  /\ task[p].pc = "query"
  /\ LET s == Head(task[p].todo)
     IN  /\ task' = [task EXCEPT ![p] = [pc |-> "send", todo |-> task[p].todo,
                                           forced |-> task[p].forced,
                                           data |-> version[s]]]
         /\ missed' = missed \ {s}
  /\ UNCHANGED <<store, conn, browser, newest, unseen>>

\* sendMsg; after cleanup the write fails and changes nothing.
Send(p) ==
  /\ task[p].pc = "send"
  /\ LET s == Head(task[p].todo)
         d == task[p].data
     IN  /\ view' = IF open THEN [view EXCEPT ![s] = d] ELSE view
         /\ newest' = IF open /\ d > newest[s] THEN [newest EXCEPT ![s] = d]
                                               ELSE newest
  /\ task' = [task EXCEPT ![p] = Following(p)]
  /\ UNCHANGED <<store, conn, told, commands, missed, unseen>>

\* Mutation: what came during the cooldown is forgotten with it.
CooldownForgets(s, w) ==
  /\ s \in timers /\ task[w].pc = "idle"
  /\ timers' = timers \ {s} /\ overPause' = overPause \ {s}
  /\ pending' = pending \ {s}
  /\ UNCHANGED <<store, open, subscribed, paused, pausedNotified, task, browser,
                 history>>

\* Mutation: the mark of a signal put off outlives the cooldown.
CooldownLeavesMark(s, w) ==
  /\ s \in timers /\ task[w].pc = "idle"
  /\ timers' = timers \ {s} /\ overPause' = overPause \ {s}
  /\ task' = IF s \notin pending THEN task
             ELSE [task EXCEPT ![w] = Doing("push", <<s>>, s \in overPause)]
  /\ UNCHANGED <<store, open, subscribed, paused, pausedNotified, pending,
                 browser, history>>

\* The callback of time.AfterFunc, on a goroutine of its own: it pushes again
\* what came meanwhile, with the permission of the push that started it.
Cooldown(s, w) ==
  /\ s \in timers /\ task[w].pc = "idle"
  /\ timers' = timers \ {s} /\ overPause' = overPause \ {s}
  /\ pending' = pending \ {s}
  /\ task' = IF s \notin pending THEN task
             ELSE [task EXCEPT ![w] = Doing("push", <<s>>, s \in overPause)]
  /\ UNCHANGED <<store, open, subscribed, paused, pausedNotified, browser, history>>

-----------------------------------------------------------------------------
(* The browser's messages, and the end of the connection *)

\* The browser subscribes when the connection opens and pauses or resumes
\* later.  readLoop has the message before it asks for the lock.
Command(m) ==
  /\ open /\ task[Reader].pc = "idle" /\ commands < MaxCommands
  /\ m = "subscribe" <=> commands = 0
  /\ commands' = commands + 1
  /\ task' = [task EXCEPT ![Reader] = Doing(m, <<>>, FALSE)]
  /\ UNCHANGED <<store, conn, view, told, history>>

Obey(m) ==
  /\ task[Reader].pc = m
  /\ subscribed' = (subscribed \/ m = "subscribe")
  /\ paused' = (m = "pause" \/ (paused /\ m # "resume"))
  /\ pausedNotified' = (pausedNotified /\ m = "subscribe")
  /\ told' = FALSE /\ unseen' = FALSE
  /\ task' = [task EXCEPT ![Reader] =
                IF m = "pause" THEN Idle ELSE Doing("all", <<>>, FALSE)]
  /\ UNCHANGED <<store, open, timers, overPause, pending, view, commands,
                 newest, missed>>

\* pushAll asks again whether the connection is subscribed, and not whether it
\* is paused or in a cooldown.
PushAll ==
  /\ task[Reader].pc = "all"
  /\ task' = [task EXCEPT ![Reader] =
                IF subscribed
                  THEN Doing("query", Telemetry \o <<Stats, Validation>>, FALSE)
                  ELSE Idle]
  /\ UNCHANGED <<store, conn, browser, history>>

\* cleanup: the browser went away, or a write or a ping failed.  A message read
\* before is still obeyed; what its push or a callback that had fired already
\* would send finds the socket closed.
Cleanup ==
  /\ open
  /\ open' = FALSE /\ subscribed' = FALSE /\ timers' = {} /\ overPause' = {}
  /\ UNCHANGED <<store, paused, pausedNotified, pending, task, browser, history>>

-----------------------------------------------------------------------------
Commands == {"subscribe", "pause", "resume"}

TaskStep(p) ==
  \/ p \in Feeds /\ (Receive(p) \/ OnSignal(p) \/ Announce(p))
  \/ p = Reader /\ (PushAll \/ \E m \in Commands : Obey(m))
  \/ Push(p) \/ Query(p) \/ Send(p)

CooldownEnds(s) == \E w \in Cooldowns : Cooldown(s, w)

\* What the goroutines, the locks and the timers do on their own.
Progress ==
  \/ \E s \in Stored : Notify(s)
  \/ \E p \in Tasks : TaskStep(p)
  \/ \E s \in Signals : CooldownEnds(s)

PushNext ==
  \/ \E changed \in (SUBSET TelemetrySignals) \ {{}} : ChangeTelemetry(changed)
  \/ ChangeValidation
  \/ Progress
  \/ \E m \in Commands : Command(m)
  \/ Cleanup

\* Goroutines are scheduled, locks are granted, writes end within writeWait
\* and timers fire: while any of them can go on, one does.  Nobody has to
\* change a store, send or leave.
PushFairness == WF_pvars(Progress)

PushSpec == PushInit /\ [][PushNext]_pvars /\ PushFairness

-----------------------------------------------------------------------------
(* Properties *)

\* A signal put off by the throttle has a cooldown that will push it, as long
\* as the connection lives.
PutOffHasACooldown == open => pending \subseteq timers

Watching == open /\ subscribed /\ ~paused

\* A telemetry signal is pushed with the statistics.
Carries(sig, s) == s = sig \/ (s = Stats /\ sig # Validation)

\* Goroutine p, with this job, will still read s or will send its latest data.
Brings(p, job, s, latest) ==
  \/ p \in Feeds /\ job.pc = "signal" /\ Carries(job.todo[1], s)
  \/ p = Reader /\ job.pc = "all"
  \/ \E i \in DOMAIN job.todo :
       /\ job.todo[i] = s
       /\ \/ job.pc \in {"push", "query"}
          \/ job.pc = "send" /\ (i > 1 \/ job.data = latest)

OnItsWay(s) ==
  \/ \E sig \in Stored : owed[sig] > 0 /\ Carries(sig, s)
  \/ \E f \in Feeds : \E i \in DOMAIN channel[f] : Carries(channel[f][i], s)
  \/ \E p \in Tasks : Brings(p, task[p], s, version[s])
  \/ s \in pending

\* A change that no notification lost is shown to a browser that watches, or is
\* on its way to it: no throttle, pause or resume forgets it.
NothingIsForgotten ==
  Watching => \A s \in Signals \ missed : newest[s] < version[s] => OnItsWay(s)

\* What was put off by throttledPush is pushed when its cooldown ends, and with
\* it every change reaches the browser.
PutOffIsOwed == PushTypeOK /\ PutOffHasACooldown /\ NothingIsForgotten

Overtaken(s) == view[s] < newest[s]

\* The signals whose latest change neither was shown nor is excused: its
\* notification found the channel full of others, or data read earlier was
\* sent later.
Behind ==
  {s \in Signals : view[s] < version[s] /\ s \notin missed /\ ~Overtaken(s)}

\* While nobody pauses, the browser is shown the latest state of every signal
\* once the stores are quiet, however notifications, cooldowns, and earlier
\* pauses and resumes interleave.
BrowserCatchesUp ==
  (Watching /\ Behind # {}) ~> (~Watching \/ Behind = {})

\* Telemetry that arrives after a pause is announced, also when its
\* notification was dropped.
PausedIsAnnounced ==
  (subscribed /\ paused /\ unseen) ~> (told \/ ~paused \/ ~open)

\* What the client relies on: validation stays live while telemetry is paused.
ValidationStaysLive ==
  (open /\ subscribed /\ view[Validation] < version[Validation])
    ~> (~open \/ view[Validation] = version[Validation] \/ Overtaken(Validation))
=============================================================================
