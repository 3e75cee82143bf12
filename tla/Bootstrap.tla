----------------------------- MODULE Bootstrap -----------------------------
(***************************************************************************)
(* The SessionStart hook of the plugin (bootstrap_obstudio.py): every new  *)
(* session of an agent host runs it, to have one managed observer of the   *)
(* plugin's own version behind the endpoint the plugin is configured with. *)
(* Each host (Claude Code, Codex) has its own plugin data directory with a *)
(* state file and a lock; the endpoint, the OTLP ports and the processes   *)
(* are shared by both and by whoever else starts an observer.              *)
(*                                                                         *)
(* A process is named by the order in which it was started, which stands   *)
(* for the startedAt its health reports; process ids are taken again.      *)
(* Reads of the world (health, listener, TCP) are steps of their own, each *)
(* as old as the step that uses it.  RuntimeCache has the download and     *)
(* BootstrapRules what the hook makes of its configuration.                *)
(***************************************************************************)
EXTENDS Integers, FiniteSets

CONSTANTS
  Hosts,          \* plugin hosts
  Sessions,       \* hook processes that may run at the same time
  Pids,           \* process ids of the operating system
  MaxVersion,     \* plugin versions are 1 .. MaxVersion
  CutOver,        \* the version from which the endpoint is "new"
  MaxStarts,      \* bound: observers started in a behaviour
  MaxSessions,    \* bound: sessions begun in a behaviour
  MaxChanges      \* bound: steps of the user in a behaviour

ASSUME HostsAssumption == Hosts \subseteq {"claude", "codex"}
ASSUME SessionsAssumption == "nobody" \notin Sessions
ASSUME PidsAssumption  == Pids \subseteq Nat \ {0}
ASSUME BoundsAssumption ==
  /\ MaxVersion \in Nat \ {0} /\ CutOver \in Nat
  /\ MaxStarts \in Nat /\ MaxSessions \in Nat /\ MaxChanges \in Nat

Versions == 1 .. MaxVersion
Starts   == 1 .. MaxStarts
Urls     == {"old", "new"}
UrlOf(v) == IF v < CutOver THEN "old" ELSE "new"

VARIABLES
  proc,       \* the processes, by the order of their start
  file,       \* per host, bootstrap-state.json
  lock,       \* per host, the session holding bootstrap.lock, or "nobody"
  config,     \* per host, what the Codex configuration says of the MCP server
  installed,  \* per host, the version of the installed plugin
  sess,       \* the running hooks
  begun,      \* sessions begun so far
  changes,    \* steps of the user so far
  wish,       \* history: per host, whether the user last stopped or wants it
  excused,    \* history: per host, a hook was writing when the user stopped it
  hits,       \* history: signals sent to other processes
  orphaned    \* history: observers a hook started and then left unrecorded

vars == <<proc, file, lock, config, installed, sess, begun, changes, wish, excused, hits, orphaned>>

----------------------------------------------------------------------------
\* Processes.

NoProc == [st |-> "never", owner |-> "other", version |-> 0, url |-> "old", pid |-> 0]
Proc(st, owner, v, u, p) == [st |-> st, owner |-> owner, version |-> v, url |-> u, pid |-> p]

Live(n)      == proc[n].st \in {"starting", "up", "ending"}
Listening(n) == proc[n].st \in {"up", "ending"}
Started      == {n \in Starts : proc[n].st /= "never"}
NextStart    == Cardinality(Started) + 1
PidTaken(p)  == \E n \in Starts : Live(n) /\ proc[n].pid = p
At(u)        == {n \in Starts : Listening(n) /\ proc[n].url = u}

\* fetch_obstudio_health: the observer at the endpoint, or 0 for no answer; a
\* busy observer may miss the two seconds, and another program never answers.
Health(u) == {0} \cup {n \in At(u) : proc[n].owner /= "other"}
\* find_pid_listening_on_url: the listener's pid, or 0 where lsof fails.
ListenerPid(u) == {0} \cup {proc[n].pid : n \in At(u)}

----------------------------------------------------------------------------
\* The state file.

Absent == [mode |-> "none", version |-> 0, url |-> "", pid |-> 0, start |-> 0, stopped |-> FALSE]
Record(mode, v, u, p, n) ==
  [mode |-> mode, version |-> v, url |-> u, pid |-> p, start |-> n, stopped |-> FALSE]
PolicyState(v, mode) == Record(mode, v, "", 0, 0)

StoppedState(prior, v) == [prior EXCEPT !.version = v, !.stopped = TRUE]

ManagedPid(h) == IF file[h].mode = "managed" THEN file[h].pid ELSE 0

\* The pid on record is not that of the process whose start is on record.
Mixed(h) == file[h].start /= 0 /\ file[h].pid \notin {0, proc[file[h].start].pid}

ReportsManaged(h, n) == n /= 0 /\ proc[n].owner = h

\* bootstrap_state_proves_managed_owner: health n, listener p, wanted version v
\* or 0 for any.
\* Mutation: the state file alone says whose observer this is.
ProvesManagedByFile(h, p, n, v) == n /= 0 /\ file[h].mode = "managed"

ProvesManaged(h, p, n, v) ==
  /\ ReportsManaged(h, n)
  /\ v = 0 \/ proc[n].version = v
  /\ file[h].mode = "managed"
  /\ p = 0 \/ file[h].pid = 0 \/ file[h].pid = p
  /\ file[h].start = 0 \/ file[h].start = n

\* Mutation: having started a process is taken for owning what answers.
StateFieldsStarted(h, v, started, p, livePid, n) ==
  Record(IF started /= 0 \/ ProvesManaged(h, livePid, n, v) THEN "managed" ELSE "external",
         v, UrlOf(v), p, n)

StateFields(h, v, started, p, livePid, n) ==
  Record(IF (started /= 0 /\ ReportsManaged(h, n)) \/ ProvesManaged(h, livePid, n, v)
         THEN "managed" ELSE "external",
         v, UrlOf(v), p, n)

----------------------------------------------------------------------------
\* codex_obstudio_mcp_policy: only Codex has a configuration that can differ.
Policy(h) == IF h = "codex" THEN config[h] ELSE "plugin-local"

Idle == [pc |-> "idle", host |-> "other", v |-> 0, seen |-> 0, pid |-> 0, prior |-> 0,
         retired |-> FALSE, mine |-> 0, ours |-> 0, out |-> Absent]

Init ==
  /\ proc = [n \in Starts |-> NoProc]
  /\ file = [h \in Hosts |-> Absent]
  /\ lock = [h \in Hosts |-> "nobody"]
  /\ config = [h \in Hosts |-> "plugin-local"]
  /\ installed = [h \in Hosts |-> 1]
  /\ sess = [s \in Sessions |-> Idle]
  /\ begun = 0 /\ changes = 0
  /\ wish = [h \in Hosts |-> "run"]
  /\ excused = [h \in Hosts |-> FALSE]
  /\ hits = {} /\ orphaned = {}

At_(s, pc)   == sess[s].pc = pc
Goto(s, pc)  == sess' = [sess EXCEPT ![s].pc = pc]
\* Mutation: returning leaves the lock as it is.
ReturnKeepsLock(s) == sess' = [sess EXCEPT ![s] = Idle] /\ UNCHANGED lock

\* The hook returns: the lock is released with it.
Return(s) ==
  /\ sess' = [sess EXCEPT ![s] = Idle]
  /\ lock' = [lock EXCEPT ![sess[s].host] = "nobody"]
WriteNext(s, rec) == sess' = [sess EXCEPT ![s].pc = "truncate", ![s].out = rec]

UserVars == <<config, installed, changes, wish>>

Begin(s, h) ==
  /\ At_(s, "idle") /\ begun < MaxSessions
  /\ begun' = begun + 1
  /\ sess' = [sess EXCEPT ![s] = [Idle EXCEPT !.pc = "lock", !.host = h, !.v = installed[h]]]
  /\ UNCHANGED <<proc, file, lock, excused, hits, orphaned, UserVars>>

Rest == <<begun, excused, hits, orphaned, UserVars>>

Acquire(s) ==
  /\ At_(s, "lock") /\ lock[sess[s].host] = "nobody"
  /\ lock' = [lock EXCEPT ![sess[s].host] = s]
  /\ Goto(s, "decide")
  /\ UNCHANGED <<proc, file, Rest>>

\* The beginning of bootstrap_locked: a stop on record, then the MCP policy.
Decide(s) ==
  LET h == sess[s].host
      v == sess[s].v
  IN /\ At_(s, "decide")
     /\ UNCHANGED <<proc, file, Rest>>
     /\ \/ file[h].stopped /\ file[h].version = v /\ Return(s)
        \/ /\ file[h].stopped /\ file[h].version /= v
           /\ WriteNext(s, StoppedState(file[h], v)) /\ UNCHANGED lock
        \/ /\ ~file[h].stopped /\ Policy(h) \in {"disabled", "custom"}
           /\ WriteNext(s, PolicyState(v, Policy(h))) /\ UNCHANGED lock
        \/ /\ ~file[h].stopped /\ Policy(h) = "plugin-local"
           /\ Goto(s, IF file[h].version = v THEN "check" ELSE "resolve") /\ UNCHANGED lock

\* is_bootstrapped for a state of this version: the saved endpoint answers...
Check(s) ==
  LET h == sess[s].host
      u == IF file[h].url = "" THEN UrlOf(sess[s].v) ELSE file[h].url
  IN /\ At_(s, "check")
     /\ UNCHANGED <<proc, file, Rest>>
     /\ \E n \in Health(u) :
          \/ Policy(h) /= "plugin-local" /\ Return(s)
          \/ n = 0 /\ Goto(s, "resolve") /\ UNCHANGED lock
          \/ n /= 0 /\ file[h].mode /= "managed" /\ Return(s)
          \/ /\ n /= 0 /\ file[h].mode = "managed"
             /\ sess' = [sess EXCEPT ![s].pc = "checkpid", ![s].seen = n] /\ UNCHANGED lock

\* ... and a managed one must still be the recorded process.
CheckPid(s) ==
  LET h == sess[s].host
      u == IF file[h].url = "" THEN UrlOf(sess[s].v) ELSE file[h].url
  IN /\ At_(s, "checkpid")
     /\ UNCHANGED <<proc, file, Rest>>
     /\ \E p \in ListenerPid(u) :
          IF ProvesManaged(h, p, sess[s].seen, sess[s].v)
          THEN Return(s) ELSE Goto(s, "resolve") /\ UNCHANGED lock

\* resolve_runtime_release may fail; then the pid on record is read.
Resolve(s) ==
  /\ At_(s, "resolve")
  /\ UNCHANGED <<proc, file, Rest>>
  /\ \/ Return(s)
     \/ /\ sess' = [sess EXCEPT ![s].pc = "prior", ![s].ours = ManagedPid(sess[s].host)]
        /\ UNCHANGED lock

\* Port cut-over: who is at the endpoint on record, if that is another one?
Prior(s) ==
  LET h == sess[s].host
      u == file[h].url
  IN /\ At_(s, "prior")
     /\ UNCHANGED <<proc, file, lock, Rest>>
     /\ IF u \in {"", UrlOf(sess[s].v)} THEN Goto(s, "live")
        ELSE \E n \in Health(u) :
               sess' = [sess EXCEPT ![s].prior = n, ![s].seen = n,
                                    ![s].pc = IF n = 0 THEN "live" ELSE "priorpid"]

PriorPid(s) ==
  LET h == sess[s].host
  IN /\ At_(s, "priorpid")
     /\ UNCHANGED <<proc, file, lock, Rest>>
     /\ \E p \in ListenerPid(file[h].url) :
          IF ProvesManaged(h, p, sess[s].prior, 0)
          THEN sess' = [sess EXCEPT ![s].pc = "retire", ![s].pid = p, ![s].retired = TRUE]
          ELSE Goto(s, "live")

Signalled(s, n) ==
  hits' = hits \cup {[target |-> n, host |-> sess[s].host,
                       excuse |-> ~Live(sess[s].seen) \/ Mixed(sess[s].host)]}

\* os.kill of terminate_managed_process: whoever has that pid now.
Signal(s, p, from, failed, gone, next, st) ==
  /\ At_(s, from)
  /\ IF p = 0 THEN failed
     ELSE IF ~PidTaken(p) THEN gone
     ELSE \E n \in Starts :
            /\ Live(n) /\ proc[n].pid = p
            /\ proc' = [proc EXCEPT ![n].st = IF st = "dead" \/ proc[n].st = "starting" THEN "dead" ELSE st]
            /\ Signalled(s, n)
            /\ Goto(s, next) /\ UNCHANGED lock
  /\ UNCHANGED <<file, begun, excused, orphaned, UserVars>>

Target(s) == IF sess[s].pid /= 0 THEN sess[s].pid ELSE sess[s].ours

Stay(s, pc) == Goto(s, pc) /\ UNCHANGED <<proc, lock, hits>>
Fail(s)     == Return(s) /\ UNCHANGED <<proc, hits>>

Retire(s)     == Signal(s, Target(s), "retire", Fail(s), Stay(s, "live"), "retirewait", "ending")
RetireKill(s) == Signal(s, Target(s), "retirekill", Fail(s), Stay(s, "live"), "live", "dead")
Replace(s)    == Signal(s, Target(s), "replace", Fail(s), Stay(s, "spawn"), "replacewait", "ending")
ReplaceKill(s) == Signal(s, Target(s), "replacekill", Fail(s), Stay(s, "spawn"), "spawn", "dead")

\* wait_for_managed_process_exit: gone from the listeners, or five seconds up.
AwaitExit(s, from, u, gone, stays) ==
  /\ At_(s, from)
  /\ \E p \in ListenerPid(u) : Goto(s, IF p = Target(s) THEN stays ELSE gone)
  /\ UNCHANGED <<proc, file, lock, Rest>>

RetireWait(s)  == AwaitExit(s, "retirewait", file[sess[s].host].url, "live", "retirekill")
ReplaceWait(s) == AwaitExit(s, "replacewait", UrlOf(sess[s].v), "spawn", "replacekill")

\* Who is at the plugin's own endpoint?
LiveHealth(s) ==
  /\ At_(s, "live")
  /\ UNCHANGED <<proc, file, lock, Rest>>
  /\ \E n \in Health(UrlOf(sess[s].v)) :
       sess' = [sess EXCEPT ![s].seen = n, ![s].pid = 0, ![s].pc = IF n = 0 THEN "vacant" ELSE "livepid"]

\* A managed observer of another version is replaced, any other one is kept.
LivePid(s) ==
  LET h == sess[s].host
      n == sess[s].seen
  IN /\ At_(s, "livepid")
     /\ UNCHANGED <<proc, file, lock, Rest>>
     /\ \E p \in ListenerPid(UrlOf(sess[s].v)) :
          IF /\ sess[s].ours /= 0 /\ ProvesManaged(h, p, n, 0)
             /\ proc[n].version /= sess[s].v
          THEN sess' = [sess EXCEPT ![s].pc = "replace", ![s].pid = p]
          ELSE WriteNext(s, StateFields(h, sess[s].v, 0, p, p, n))

\* Nothing answers: a foreign observer at the old endpoint or another listener
\* on the port ends the attempt.
Vacant(s) ==
  /\ At_(s, "vacant")
  /\ UNCHANGED <<proc, file, Rest>>
  /\ IF (sess[s].prior /= 0 /\ ~sess[s].retired) \/ At(UrlOf(sess[s].v)) /= {}
     THEN Return(s)
     ELSE Goto(s, "spawn") /\ UNCHANGED lock

\* start_obstudio_background, which may fail.
Spawn(s) ==
  LET h == sess[s].host
      v == sess[s].v
  IN /\ At_(s, "spawn")
     /\ \/ Return(s) /\ UNCHANGED proc
        \/ /\ NextStart \in Starts /\ UNCHANGED lock
           /\ \E p \in Pids :
                /\ ~PidTaken(p)
                /\ proc' = [proc EXCEPT ![NextStart] = Proc("starting", h, v, UrlOf(v), p)]
                /\ sess' = [sess EXCEPT ![s].pc = "verify", ![s].mine = NextStart, ![s].pid = p]
     /\ UNCHANGED <<file, Rest>>

\* terminate_process of the hook's own child, then the error.
GiveUp(s) ==
  /\ proc' = [proc EXCEPT ![sess[s].mine].st = "dead"]
  /\ Return(s)

\* verify_local_obstudio_health: whoever answers first, or nobody in time.
Verify(s) ==
  /\ At_(s, "verify")
  /\ UNCHANGED <<file, Rest>>
  /\ \/ GiveUp(s)
     \/ \E n \in Health(UrlOf(sess[s].v)) \ {0} :
          /\ sess' = [sess EXCEPT ![s].pc = "ensure", ![s].seen = n]
          /\ UNCHANGED <<proc, lock>>

\* ensure_process_running, then the fields of the new state.
Ensure(s) ==
  /\ At_(s, "ensure")
  /\ orphaned' = IF Live(sess[s].mine) /\ sess[s].seen /= sess[s].mine
                 THEN orphaned \cup {sess[s].mine} ELSE orphaned
  /\ UNCHANGED <<file, begun, excused, hits, UserVars>>
  /\ IF ~Live(sess[s].mine) THEN GiveUp(s)
     ELSE /\ WriteNext(s, StateFields(sess[s].host, sess[s].v, sess[s].mine,
                                      sess[s].pid, 0, sess[s].seen))
          /\ UNCHANGED <<proc, lock>>

\* write_state opens the file for writing, which empties it, and writes it.
Truncate(s) ==
  /\ At_(s, "truncate")
  /\ file' = [file EXCEPT ![sess[s].host] = Absent]
  /\ Goto(s, "write")
  /\ UNCHANGED <<proc, lock, Rest>>

Write(s) ==
  /\ At_(s, "write")
  /\ file' = [file EXCEPT ![sess[s].host] = sess[s].out]
  /\ Return(s)
  /\ UNCHANGED <<proc, Rest>>

\* The host ends a hook that takes too long; its lock and nothing else goes.
Killed(s) ==
  LET h == sess[s].host
  IN /\ ~At_(s, "idle")
     /\ sess' = [sess EXCEPT ![s] = Idle]
     /\ lock' = [lock EXCEPT ![h] = IF lock[h] = s THEN "nobody" ELSE @]
     /\ orphaned' = IF sess[s].mine = 0 THEN orphaned ELSE orphaned \cup {sess[s].mine}
     /\ excused' = [excused EXCEPT ![h] = @ \/ (At_(s, "write") /\ wish[h] = "stop")]
     /\ UNCHANGED <<proc, file, begun, hits, UserVars>>

----------------------------------------------------------------------------
\* The world around the hooks.

\* An observer binds its port and the shared OTLP ports, or exits.
ComeUp(n) ==
  /\ proc[n].st = "starting"
  /\ ~\E m \in Starts : Listening(m)
  /\ proc' = [proc EXCEPT ![n].st = "up"]
  /\ UNCHANGED <<file, lock, sess, Rest>>

Exit(n) ==
  /\ Live(n)
  /\ proc' = [proc EXCEPT ![n].st = "dead"]
  /\ UNCHANGED <<file, lock, sess, Rest>>

\* The command line starts an observer, or another program takes the port.
ForeignStart(owner, u, p) ==
  /\ NextStart \in Starts /\ ~PidTaken(p) /\ changes < MaxChanges
  /\ changes' = changes + 1
  /\ proc' = [proc EXCEPT ![NextStart] = Proc("starting", owner, 1, u, p)]
  /\ UNCHANGED <<file, lock, config, installed, sess, begun, wish, excused, hits, orphaned>>

\* The plugin of a host is updated.
Update(h) ==
  /\ installed[h] < MaxVersion /\ changes < MaxChanges
  /\ changes' = changes + 1
  /\ installed' = [installed EXCEPT ![h] = @ + 1]
  /\ UNCHANGED <<proc, file, lock, config, sess, begun, wish, excused, hits, orphaned>>

\* The MCP server is disabled, or pointed elsewhere, in the host's settings.
Configure(h, policy) ==
  /\ changes < MaxChanges /\ policy /= config[h]
  /\ changes' = changes + 1
  /\ config' = [config EXCEPT ![h] = policy]
  /\ UNCHANGED <<proc, file, lock, installed, sess, begun, wish, excused, hits, orphaned>>

\* The observer-stop skill: the managed observer is stopped and the stop put on
\* record, without the hooks' lock; observer-restart takes it off again.
Stop(h) ==
  /\ changes < MaxChanges /\ wish[h] = "run" /\ file[h].mode = "managed"
  /\ changes' = changes + 1
  /\ wish' = [wish EXCEPT ![h] = "stop"]
  /\ proc' = [n \in Starts |-> IF n = file[h].start /\ Live(n) /\ proc[n].owner = h
                               THEN [proc[n] EXCEPT !.st = "dead"] ELSE proc[n]]
  /\ file' = [file EXCEPT ![h].stopped = TRUE]
  /\ excused' = [excused EXCEPT ![h] = lock[h] /= "nobody"]
  /\ UNCHANGED <<lock, config, installed, sess, begun, hits, orphaned>>

Restart(h) ==
  /\ changes < MaxChanges /\ wish[h] = "stop"
  /\ changes' = changes + 1
  /\ wish' = [wish EXCEPT ![h] = "run"]
  /\ file' = [file EXCEPT ![h].stopped = FALSE]
  /\ UNCHANGED <<proc, lock, config, installed, sess, begun, excused, hits, orphaned>>

----------------------------------------------------------------------------
Hook(s) ==
  \/ Acquire(s) \/ Decide(s) \/ Check(s) \/ CheckPid(s) \/ Resolve(s) \/ Prior(s) \/ PriorPid(s)
  \/ Retire(s) \/ RetireWait(s) \/ RetireKill(s) \/ LiveHealth(s) \/ LivePid(s) \/ Vacant(s)
  \/ Replace(s) \/ ReplaceWait(s) \/ ReplaceKill(s) \/ Spawn(s) \/ Verify(s) \/ Ensure(s)
  \/ Truncate(s) \/ Write(s)

World ==
  \/ \E n \in Starts : ComeUp(n) \/ Exit(n)
  \/ \E owner \in {"cli", "other"}, u \in Urls, p \in Pids : ForeignStart(owner, u, p)
  \/ \E h \in Hosts : Update(h) \/ Stop(h) \/ Restart(h)
  \/ \E h \in Hosts, policy \in {"plugin-local", "disabled", "custom"} : Configure(h, policy)

Next ==
  \/ \E s \in Sessions, h \in Hosts : Begin(s, h)
  \/ \E s \in Sessions : Hook(s) \/ Killed(s)
  \/ World

Spec == Init /\ [][Next]_vars /\ \A s \in Sessions : WF_vars(Hook(s))
----------------------------------------------------------------------------
ProcType == [st: {"never", "starting", "up", "ending", "dead"}, owner: Hosts \cup {"cli", "other"},
             version: 0 .. MaxVersion, url: Urls, pid: Pids \cup {0}]
RecordType == [mode: {"none", "managed", "external", "disabled", "custom"}, version: 0 .. MaxVersion,
               url: Urls \cup {""}, pid: Pids \cup {0}, start: Starts \cup {0}, stopped: BOOLEAN]
Steps == {"idle", "lock", "decide", "check", "checkpid", "resolve", "prior", "priorpid", "retire",
          "retirewait", "retirekill", "live", "livepid", "vacant", "replace", "replacewait",
          "replacekill", "spawn", "verify", "ensure", "truncate", "write"}
SessType == [pc: Steps, host: Hosts \cup {"other"}, v: 0 .. MaxVersion, seen: Starts \cup {0},
             pid: Pids \cup {0}, prior: Starts \cup {0}, retired: BOOLEAN, mine: Starts \cup {0},
             ours: Pids \cup {0}, out: RecordType]

\* The types of the variables, and that a hook past its lock (bootstrap_lock)
\* is the one holding it.
BootTypeOK ==
  /\ proc \in [Starts -> ProcType]
  /\ file \in [Hosts -> RecordType]
  /\ lock \in [Hosts -> Sessions \cup {"nobody"}]
  /\ config \in [Hosts -> {"plugin-local", "disabled", "custom"}]
  /\ installed \in [Hosts -> Versions]
  /\ sess \in [Sessions -> SessType]
  /\ begun \in 0 .. MaxSessions /\ changes \in 0 .. MaxChanges
  /\ wish \in [Hosts -> {"run", "stop"}] /\ excused \in [Hosts -> BOOLEAN]
  /\ orphaned \subseteq Starts
  /\ hits \subseteq [target: Starts, host: Hosts, excuse: BOOLEAN]
  /\ \A s \in Sessions : sess[s].pc \notin {"idle", "lock"} => lock[sess[s].host] = s

\* No hook signals an observer it does not own (terminate_managed_process is
\* reached only behind bootstrap_state_proves_managed_owner), unless the one it
\* looked at has ended since and another one has its pid or its port, or the
\* record itself names two processes (see ManagedRecordIsTrue).
SignalsOnlyOwn ==
  \A x \in hits : proc[x.target].owner = x.host \/ x.excuse

\* A state file that names a running observer as managed is right about it: the
\* owner, the version and, if there is one, the pid are those of the process
\* that reported the recorded start.  The exceptions are an earlier observer
\* of the host that still answers although a hook has signalled it, and one that
\* came up late after its hook was killed or had taken another's answer for its:
\* verify_local_obstudio_health takes the first answer, whoever gives it, for
\* that of the process just started.
ManagedRecordIsTrue ==
  \A h \in Hosts :
    LET n == file[h].start
    IN (file[h].mode = "managed" /\ n /= 0 /\ Live(n) /\ ~file[h].stopped) =>
         \/ proc[n].owner = h /\ proc[n].version = file[h].version /\ ~Mixed(h)
         \/ n \in orphaned \/ \E x \in hits : x.target = n

\* What the user stopped stays on record as stopped, through plugin updates
\* too, until the user wants it again; a hook that was already past its check
\* when the user stopped, or that is killed while the file is empty, loses it.
StopIsOnRecord ==
  \A h \in Hosts : wish[h] = "stop" =>
    \/ file[h].stopped \/ excused[h]
    \/ \E s \in Sessions : sess[s].host = h /\ sess[s].pc = "write" /\ sess[s].out.stopped

\* The record of the managed observer is about one that the plugin started and
\* a stop is on record (write_state, stop_managed).
RecordsAreTrue == BootTypeOK /\ ManagedRecordIsTrue /\ StopIsOnRecord

\* Every session's hook comes to an end, and the next one gets the lock.
HooksEnd == \A s \in Sessions : sess[s].pc /= "idle" ~> sess[s].pc = "idle"
=============================================================================
