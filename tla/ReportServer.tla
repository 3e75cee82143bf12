---------------------------- MODULE ReportServer ----------------------------
(***************************************************************************)
(* The loopback server of a report directory (observe_report.py).  Every   *)
(* command that renders a report calls start_or_reuse_report_server, which *)
(* probes the server on record and else launches a detached one; a server  *)
(* publishes itself in the state file, serves until nobody has asked for   *)
(* hours and takes its record away.  The state file is written by          *)
(* AtomicWrite, so it is always one whole record; the launch lock belongs  *)
(* to the process that holds it.                                           *)
(***************************************************************************)
EXTENDS Integers, FiniteSets

CONSTANTS
  Callers,      \* commands that may run at the same time
  MaxServers,   \* bound: servers launched in a behaviour
  MaxDirs,      \* bound: times the report directory is made, 1 for once
  MaxPolls,     \* bound: tries for the lock before the deadline
  MaxFaults     \* bound: kills and unanswered probes in a behaviour

ASSUME ServerAssumption ==
  /\ \A c \in Callers : c \notin Nat
  /\ {MaxServers, MaxDirs, MaxPolls, MaxFaults} \subseteq Nat \ {0}

Servers == 1 .. MaxServers
Nobody  == 0

VARIABLES
  record,   \* the state file
  holder,   \* who holds the launch lock
  call,     \* the commands
  srv,      \* the servers, in the order of their launch
  dir,      \* the identity (device and inode) of the report directory
  tokens,   \* tokens given out so far
  mishaps,  \* kills and unanswered probes so far
  missed,   \* history: servers that did not answer a probe in time
  cut       \* history: a command was killed while its server was starting

serverVars == <<record, holder, call, srv, dir, tokens, mishaps, missed, cut>>

NoRecord == [kind |-> "none", token |-> 0, server |-> 0, dir |-> 0]
LaunchRecord(t, d)  == [kind |-> "launch", token |-> t, server |-> 0, dir |-> d]
LiveRecord(n, t, d) == [kind |-> "live", token |-> t, server |-> n, dir |-> d]

NoCall == [pc |-> "idle", stage |-> "first", polls |-> 0, read |-> NoRecord, token |-> 0, child |-> 0]
NoSrv  == [pc |-> "never", token |-> 0, dir |-> 0, touched |-> FALSE, late |-> FALSE]
Dead   == [pc |-> "dead", token |-> 0, dir |-> 0, touched |-> FALSE, late |-> FALSE]

ServerInit ==
  /\ record = NoRecord /\ holder = Nobody
  /\ call = [c \in Callers |-> NoCall] /\ srv = [n \in Servers |-> NoSrv]
  /\ dir = 1 /\ tokens = 0 /\ mishaps = 0 /\ missed = {} /\ cut = FALSE

Running(n) == srv[n].pc \notin {"never", "dead"}
Launched   == {n \in Servers : srv[n].pc /= "never"}
Step(c, pc) == call' = [call EXCEPT ![c].pc = pc]
Unexceptional == UNCHANGED <<mishaps, missed, cut>>

----------------------------------------------------------------------------
\* start_or_reuse_report_server.

CallBegins(c) ==
  /\ call[c].pc = "idle"
  /\ call' = [call EXCEPT ![c] = [NoCall EXCEPT !.pc = "read"]]
  /\ UNCHANGED <<record, holder, srv, dir, tokens>> /\ Unexceptional

\* What a call does after a probe without a server: ask for the lock, launch
\* one under the lock, or look at the one it has launched.
AfterNoServer(stage) ==
  CASE stage \in {"first", "poll"} -> "lock"
    [] stage = "locked" -> "launch"
    [] stage = "wait" -> "child"

\* load_report_server_state: a live record for this very directory and, once a
\* server was launched, with its token.
ReadState(c) ==
  /\ call[c].pc = "read"
  /\ LET usable == /\ record.kind = "live" /\ record.dir = dir
                   /\ call[c].stage = "wait" => record.token = call[c].token
     IN call' = [call EXCEPT ![c].read = record,
                             ![c].pc = IF usable THEN "ask" ELSE AfterNoServer(call[c].stage)]
  /\ UNCHANGED <<record, holder, srv, dir, tokens>> /\ Unexceptional

\* The probe connects to the recorded port...
Ask(c) ==
  /\ call[c].pc = "ask"
  /\ Step(c, IF srv[call[c].read.server].pc = "serving" THEN "asked" ELSE AfterNoServer(call[c].stage))
  /\ UNCHANGED <<record, holder, srv, dir, tokens>> /\ Unexceptional

\* ... and do_GET, on a thread of its own, notes the access and answers; the
\* thread lives until the process ends.
Answer(c) ==
  LET n == call[c].read.server
  IN /\ call[c].pc = "asked"
     /\ IF Running(n)
        THEN Step(c, "done") /\ srv' = [srv EXCEPT ![n].touched = TRUE]
        ELSE Step(c, AfterNoServer(call[c].stage)) /\ UNCHANGED srv
     /\ UNCHANGED <<record, holder, dir, tokens>> /\ Unexceptional

\* No answer within half a second.
NoAnswer(c) ==
  /\ call[c].pc = "asked" /\ mishaps < MaxFaults
  /\ Step(c, AfterNoServer(call[c].stage))
  /\ mishaps' = mishaps + 1 /\ missed' = missed \cup {call[c].read.server}
  /\ UNCHANGED <<record, holder, srv, dir, tokens, cut>>

\* The lock is tried until a deadline; between two tries the state is read.
TryLock(c) ==
  /\ call[c].pc = "lock" /\ call[c].polls < MaxPolls
  /\ IF holder = Nobody
     THEN holder' = c /\ call' = [call EXCEPT ![c].pc = "read", ![c].stage = "locked"]
     ELSE /\ call' = [call EXCEPT ![c].pc = "read", ![c].stage = "poll", ![c].polls = @ + 1]
          /\ UNCHANGED holder
  /\ UNCHANGED <<record, srv, dir, tokens>> /\ Unexceptional

LockDeadline(c) ==
  /\ call[c].pc = "lock" /\ call[c].polls > 0
  /\ call' = [call EXCEPT ![c] = NoCall]
  /\ UNCHANGED <<record, holder, srv, dir, tokens>> /\ Unexceptional

\* A new token, in a record that no probe takes for a live server.
WriteLaunch(c) ==
  /\ call[c].pc = "launch"
  /\ Cardinality(Launched) < MaxServers /\ tokens < MaxServers
  /\ tokens' = tokens + 1
  /\ record' = LaunchRecord(tokens', dir)
  /\ call' = [call EXCEPT ![c].pc = "popen", ![c].token = tokens']
  /\ UNCHANGED <<holder, srv, dir>> /\ Unexceptional

LaunchServer(c) ==
  LET n == Cardinality(Launched) + 1
  IN /\ call[c].pc = "popen" /\ n \in Servers
     /\ srv' = [srv EXCEPT ![n].pc = "boot"]
     /\ call' = [call EXCEPT ![c].pc = "read", ![c].stage = "wait", ![c].child = n]
     /\ UNCHANGED <<record, holder, dir, tokens>> /\ Unexceptional

ReleasedBy(p) == IF holder = p THEN Nobody ELSE holder

\* The launched server has exited, has more time, or has run out of it and is
\* terminated; the lock goes back.
LookAtChild(c) ==
  LET n == call[c].child
  IN /\ call[c].pc = "child"
     /\ \/ Running(n) /\ Step(c, "read") /\ UNCHANGED <<srv, holder>>
        \/ /\ srv' = [srv EXCEPT ![n] = Dead]
           /\ call' = [call EXCEPT ![c] = NoCall]
           /\ holder' = ReleasedBy(c)
     /\ UNCHANGED <<record, dir, tokens>> /\ Unexceptional

CallEnds(c) ==
  /\ call[c].pc = "done"
  /\ call' = [call EXCEPT ![c] = NoCall]
  /\ holder' = ReleasedBy(c)
  /\ UNCHANGED <<record, srv, dir, tokens>> /\ Unexceptional

----------------------------------------------------------------------------
\* cmd_serve_report.

ServerStep(n, pc) == srv' = [srv EXCEPT ![n].pc = pc]
ServerEnds(n)     == srv' = [srv EXCEPT ![n] = Dead]

\* The token is that of the record, whoever wrote it last; the directory must
\* be the recorded one.
Boot(n) ==
  /\ srv[n].pc = "boot"
  /\ IF record.kind /= "none" /\ record.dir = dir
     THEN srv' = [srv EXCEPT ![n].pc = "open", ![n].token = record.token, ![n].dir = dir]
     ELSE ServerEnds(n)
  /\ UNCHANGED <<record, holder, call, dir, tokens>> /\ Unexceptional

\* From here on the server has the directory itself, not its name.
OpenDirectory(n) ==
  /\ srv[n].pc = "open"
  /\ IF srv[n].dir = dir THEN ServerStep(n, "publish") ELSE ServerEnds(n)
  /\ UNCHANGED <<record, holder, call, dir, tokens>> /\ Unexceptional

\* The record is written after the port is bound.
Publish(n) ==
  /\ srv[n].pc = "publish"
  /\ record' = LiveRecord(n, srv[n].token, srv[n].dir)
  /\ srv' = [srv EXCEPT ![n].pc = "serving", ![n].touched = TRUE]
  /\ UNCHANGED <<holder, call, dir, tokens>> /\ Unexceptional

\* Mutation: the limit counts from the launch, whoever asked since.
IdleLimitFromLaunch(n) ==
  /\ srv[n].pc = "serving"
  /\ srv' = [srv EXCEPT ![n].pc = "closed",
                        ![n].late = \E c \in Callers : call[c].pc = "asked" /\ call[c].read.server = n]
  /\ UNCHANGED <<record, holder, call, dir, tokens>> /\ Unexceptional

\* serve_report_until_idle: a request accepted at the limit does not yet count.
IdleLimit(n) ==
  /\ srv[n].pc = "serving" /\ ~srv[n].touched
  /\ srv' = [srv EXCEPT ![n].pc = "closed",
                        ![n].late = \E c \in Callers : call[c].pc = "asked" /\ call[c].read.server = n]
  /\ UNCHANGED <<record, holder, call, dir, tokens>> /\ Unexceptional

\* cleanup_report_server_state: only under the lock, and never waiting for it.
CleanupLock(n) ==
  /\ srv[n].pc = "closed"
  /\ IF holder = Nobody THEN holder' = n /\ ServerStep(n, "compare")
     ELSE UNCHANGED holder /\ ServerEnds(n)
  /\ UNCHANGED <<record, call, dir, tokens>> /\ Unexceptional

Compare(n) ==
  /\ srv[n].pc = "compare"
  /\ IF record.token = srv[n].token THEN ServerStep(n, "unlink") /\ UNCHANGED holder
     ELSE ServerEnds(n) /\ holder' = ReleasedBy(n)
  /\ UNCHANGED <<record, call, dir, tokens>> /\ Unexceptional

Unlink(n) ==
  /\ srv[n].pc = "unlink"
  /\ record' = NoRecord /\ ServerEnds(n) /\ holder' = ReleasedBy(n)
  /\ UNCHANGED <<call, dir, tokens>> /\ Unexceptional

----------------------------------------------------------------------------
\* Around them.

\* Hours without a request: longer than any call, launch or cleanup takes.
Hours ==
  /\ \A c \in Callers : call[c].pc = "idle"
  /\ \A n \in Servers : srv[n].pc \in {"never", "serving", "dead"}
  /\ srv' = [n \in Servers |-> [srv[n] EXCEPT !.touched = FALSE]]
  /\ UNCHANGED <<record, holder, call, dir, tokens>> /\ Unexceptional

\* The report directory is removed and made again.
NewDirectory ==
  /\ dir < MaxDirs
  /\ dir' = dir + 1
  /\ UNCHANGED <<record, holder, call, srv, tokens>> /\ Unexceptional

KillCall(c) ==
  /\ call[c].pc /= "idle" /\ mishaps < MaxFaults
  /\ mishaps' = mishaps + 1
  /\ cut' = (cut \/ (call[c].stage = "wait" /\ call[c].pc /= "done"))
  /\ call' = [call EXCEPT ![c] = NoCall]
  /\ holder' = ReleasedBy(c)
  /\ UNCHANGED <<record, srv, dir, tokens, missed>>

KillServer(n) ==
  /\ Running(n) /\ mishaps < MaxFaults
  /\ mishaps' = mishaps + 1
  /\ ServerEnds(n) /\ holder' = ReleasedBy(n)
  /\ UNCHANGED <<record, call, dir, tokens, missed, cut>>

CallStep(c) ==
  \/ CallBegins(c) \/ ReadState(c) \/ Ask(c) \/ Answer(c) \/ NoAnswer(c) \/ TryLock(c)
  \/ LockDeadline(c) \/ WriteLaunch(c) \/ LaunchServer(c) \/ LookAtChild(c) \/ CallEnds(c)
  \/ KillCall(c)

ServeStep(n) ==
  \/ Boot(n) \/ OpenDirectory(n) \/ Publish(n) \/ IdleLimit(n) \/ CleanupLock(n) \/ Compare(n)
  \/ Unlink(n) \/ KillServer(n)

ServerNext ==
  \/ \E c \in Callers : CallStep(c)
  \/ \E n \in Servers : ServeStep(n)
  \/ Hours \/ NewDirectory

ServerSpec == ServerInit /\ [][ServerNext]_serverVars

----------------------------------------------------------------------------
RecordType == [kind: {"none", "launch", "live"}, token: 0 .. MaxServers, server: 0 .. MaxServers,
               dir: 0 .. MaxDirs]
UnderLock == {"launch", "popen", "child"}

\* The types of the variables, and the launch lock: whoever launches, waits for
\* a launched server or removes a record holds it (try_acquire_report_server_lock).
ServerTypeOK ==
  /\ record \in RecordType
  /\ holder \in Callers \cup Servers \cup {Nobody}
  /\ call \in [Callers -> [pc: {"idle", "read", "ask", "asked", "lock", "launch", "popen", "child", "done"},
                           stage: {"first", "poll", "locked", "wait"}, polls: 0 .. MaxPolls,
                           read: RecordType, token: 0 .. MaxServers, child: 0 .. MaxServers]]
  /\ srv \in [Servers -> [pc: {"never", "boot", "open", "publish", "serving", "closed", "compare",
                               "unlink", "dead"},
                          token: 0 .. MaxServers, dir: 0 .. MaxDirs, touched: BOOLEAN, late: BOOLEAN]]
  /\ dir \in 1 .. MaxDirs /\ tokens \in 0 .. MaxServers /\ mishaps \in 0 .. MaxFaults
  /\ missed \subseteq Servers /\ cut \in BOOLEAN
  /\ \A c \in Callers :
       (call[c].pc \in UnderLock \/ call[c].stage \in {"locked", "wait"}) => holder = c
  /\ \A n \in Servers : srv[n].pc \in {"compare", "unlink"} => holder = n

\* The URL that a call returns (start_or_reuse_report_server) is that of a server
\* that goes on serving, for the directory the call looked at, unless the server
\* is killed - by whoever, or by the call that launched it and had given it up
\* when another call already found it - or reached its idle limit while the
\* call's own probe was waiting.
ReturnedUrlServes ==
  \A c \in Callers : call[c].pc = "done" =>
    LET s == srv[call[c].read.server]
    IN \/ s.pc = "dead"
       \/ /\ s.token = call[c].read.token /\ s.dir = call[c].read.dir
          /\ s.pc = "serving" \/ s.late

\* A server that serves is the one on record: there is one server of a
\* directory, every command finds it, and no other server's end takes its
\* record away (cleanup_report_server_state).  Not so once a probe of it was
\* missed, its directory was replaced, or a command was killed while a server
\* was starting: that server may take the token of the next launch.
ServingIsOnRecord ==
  \A n \in Servers :
    srv[n].pc = "serving" /\ n \notin missed /\ srv[n].dir = dir /\ ~cut =>
      record = LiveRecord(n, srv[n].token, srv[n].dir)

\* A report that was asked for is served where the caller is told, and a server
\* that serves is on record (start_or_reuse_report_server, cmd_serve_report).
ReportsAreServed == ServerTypeOK /\ ReturnedUrlServes /\ ServingIsOnRecord
=============================================================================
