----------------------------- MODULE ConnTracker ----------------------------
(***************************************************************************)
(* Disconnect detection for OTLP/HTTP (internal/otlp/conntrack.go).  A     *)
(* request is attributed to the process that owns its socket; a watcher    *)
(* per PID polls that process and, when it is gone, evicts the telemetry   *)
(* of all its connections.                                                 *)
(*                                                                         *)
(* The operating system is part of the model: processes start and exit,    *)
(* also under a request, and socket addresses are taken again.  A process  *)
(* stands for its PID: none is given out again before a poll has found it  *)
(* free.  A connection ID is a number.                                     *)
(***************************************************************************)
EXTENDS Naturals, FiniteSets, Functions

CONSTANTS
  Procs,    \* processes, each its own PID
  Addrs,    \* remote socket addresses
  Requests, \* concurrent request handlers
  MaxConns, \* bound: HTTP connection IDs
  MaxStored \* bound: records in the store

NoProc == "noproc"
NoAddr == "noaddr"
NoConn == 0
NoPid  == "nopid"

ASSUME TrackerAssumption ==
  MaxConns \in Nat /\ MaxStored \in Nat /\ NoProc \notin Procs /\ NoPid \notin Procs
                  /\ NoAddr \notin Addrs

Pids    == Procs
ConnIDs == 1..MaxConns

VARIABLES
  stage,    \* process instance -> "new", "alive" or "dead"
  socket,   \* address -> the instance that holds it, or NoProc
  connOf,   \* httpConnsByAddr: address -> conn ID
  conn,     \* httpConnsByID: conn ID -> [addr, pid]
  pidConns, \* PID -> set of conn IDs
  watcher,  \* PID -> its watcher: "none", "polling" or "sawExit"
  evicting, \* conn IDs an evictPID has yet to evict from the store
  nextConn,
  request,  \* handler -> where its request is
  stored,   \* the store's records: [conn, from, left]
  takenOver \* history: conn IDs whose address another socket has taken

tracker == <<connOf, conn, pidConns, watcher, nextConn>>
cvars == <<stage, socket, tracker, evicting, request, stored, takenOver>>

\* "left" is history, of a request and then of its telemetry: the sender closed
\* the socket, or exited, under it.
IdleRequest == [pc |-> "idle", from |-> NoProc, addr |-> NoAddr,
                pid |-> NoPid, conn |-> NoConn, left |-> FALSE]

RequestStates ==
  [pc : {"idle", "lookup", "resolve", "register", "store"},
   from : Procs \cup {NoProc}, addr : Addrs \cup {NoAddr},
   pid : Pids \cup {NoPid}, conn : ConnIDs \cup {NoConn}, left : BOOLEAN]

OsTypeOK ==
  /\ stage \in [Procs -> {"new", "alive", "dead"}]
  /\ socket \in [Addrs -> Procs \cup {NoProc}]

TablesTypeOK ==
  /\ DOMAIN connOf \subseteq Addrs /\ DOMAIN conn \subseteq ConnIDs
  /\ \A adr \in DOMAIN connOf : connOf[adr] \in ConnIDs
  /\ \A c \in DOMAIN conn : conn[c] \in [addr : Addrs, pid : Pids]
  /\ pidConns \in [Pids -> SUBSET ConnIDs]
  /\ watcher \in [Pids -> {"none", "polling", "sawExit"}]
  /\ evicting \subseteq ConnIDs
  /\ nextConn \in 0..MaxConns

RecordsTypeOK ==
  /\ stored \subseteq [conn : ConnIDs \cup {NoConn}, from : Procs, left : BOOLEAN]
  /\ takenOver \subseteq ConnIDs

RequestTypeOK == request \in [Requests -> RequestStates]

TrackerTypeOK == OsTypeOK /\ TablesTypeOK /\ RequestTypeOK /\ RecordsTypeOK

TrackerInit ==
  /\ stage = [p \in Procs |-> "new"]
  /\ socket = [adr \in Addrs |-> NoProc]
  /\ connOf = <<>> /\ conn = <<>>
  /\ pidConns = [pid \in Pids |-> {}]
  /\ watcher = [pid \in Pids |-> "none"]
  /\ evicting = {}
  /\ nextConn = 0
  /\ request = [q \in Requests |-> IdleRequest]
  /\ stored = {}
  /\ takenOver = {}

Alive(pid) == stage[pid] = "alive"

-----------------------------------------------------------------------------
(* The operating system *)

Launch(p) ==
  /\ stage[p] = "new"
  /\ stage' = [stage EXCEPT ![p] = "alive"]
  /\ UNCHANGED <<socket, tracker, evicting, request, stored, takenOver>>

OpenSocket(p, adr) ==
  /\ stage[p] = "alive" /\ socket[adr] = NoProc
  /\ socket' = [socket EXCEPT ![adr] = p]
  /\ takenOver' = takenOver \cup
       {c \in DOMAIN conn : conn[c].addr = adr /\ conn[c].pid # p}
  /\ UNCHANGED <<stage, tracker, evicting, request, stored>>

\* The requests of R go on without the socket they came over.
LeaveBehind(R) ==
  request' = [q \in Requests |-> IF q \in R THEN [request[q] EXCEPT !.left = TRUE]
                                            ELSE request[q]]

\* The holder may close a socket under a request of its own.
CloseSocket(adr) ==
  /\ socket[adr] # NoProc
  /\ socket' = [socket EXCEPT ![adr] = NoProc]
  /\ LeaveBehind({q \in Requests : request[q].addr = adr})
  /\ UNCHANGED <<stage, tracker, evicting, stored, takenOver>>

Exit(p) ==
  /\ stage[p] = "alive"
  /\ stage' = [stage EXCEPT ![p] = "dead"]
  /\ socket' = [adr \in Addrs |-> IF socket[adr] = p THEN NoProc
                                                      ELSE socket[adr]]
  /\ LeaveBehind({q \in Requests : request[q].from = p})
  /\ UNCHANGED <<tracker, evicting, stored, takenOver>>

-----------------------------------------------------------------------------
(* A request: ServeHTTP, resolveHTTPConnection *)

Arrive(q, adr) ==
  /\ request[q].pc = "idle" /\ socket[adr] # NoProc
  /\ request' = [request EXCEPT ![q] =
       [IdleRequest EXCEPT !.pc = "lookup", !.from = socket[adr],
                           !.addr = adr]]
  /\ UNCHANGED <<stage, socket, tracker, evicting, stored, takenOver>>

Attributed(q, c) ==
  request' = [request EXCEPT ![q].pc = "store", ![q].conn = c]

\* Under the lock: is this socket tracked already?
Lookup(q) ==
  /\ request[q].pc = "lookup"
  /\ \/ request[q].addr \in DOMAIN connOf /\ Attributed(q, connOf[request[q].addr])
     \/ /\ request[q].addr \notin DOMAIN connOf
        /\ request' = [request EXCEPT ![q].pc = "resolve"]
  /\ UNCHANGED <<stage, socket, tracker, evicting, stored, takenOver>>

\* The process whose end of the socket lsof lists, NoProc when no record matches.
Originating(adr) == socket[adr]

\* findOriginatingPID, outside the lock.  A socket nobody holds any more has
\* no PID: the request's telemetry stays unowned.
Resolve(q) ==
  /\ request[q].pc = "resolve"
  /\ LET p == Originating(request[q].addr)
     IN  \/ p = NoProc /\ Attributed(q, NoConn)
         \/ /\ p # NoProc
            /\ request' = [request EXCEPT ![q].pc = "register",
                                          ![q].pid = p]
  /\ UNCHANGED <<stage, socket, tracker, evicting, stored, takenOver>>

NewConn == nextConn + 1

\* Mutation: a process owns only its latest connection.
OwnLatest(pid, c) == [pidConns EXCEPT ![pid] = {c}]

Own(pid, c) == [pidConns EXCEPT ![pid] = @ \cup {c}]

\* The tables of a new connection c, and ensurePIDWatcherLocked.
Track(adr, pid, c) ==
  /\ nextConn < MaxConns
  /\ nextConn' = nextConn + 1
  /\ connOf' = [x \in DOMAIN connOf \cup {adr} |->
                  IF x = adr THEN c ELSE connOf[x]]
  /\ conn' = [x \in DOMAIN conn \cup {c} |->
                IF x = c THEN [addr |-> adr, pid |-> pid] ELSE conn[x]]
  /\ pidConns' = Own(pid, c)
  /\ watcher' = [watcher EXCEPT ![pid] = IF @ = "none" THEN "polling" ELSE @]
  /\ takenOver' = takenOver \cup {k \in {c} : socket[adr] \notin {pid, NoProc}}

\* Under the lock again: another request may have registered the socket.
Register(q) ==
  /\ request[q].pc = "register"
  /\ LET adr == request[q].addr
     IN  \/ /\ adr \in DOMAIN connOf
            /\ Attributed(q, connOf[adr])
            /\ UNCHANGED <<tracker, takenOver>>
         \/ /\ adr \notin DOMAIN connOf
            /\ Track(adr, request[q].pid, NewConn)
            /\ Attributed(q, NewConn)
  /\ UNCHANGED <<stage, socket, evicting, stored>>

\* The store's Add...ForConnection.
StoreTelemetry(q) ==
  /\ request[q].pc = "store" /\ Cardinality(stored) < MaxStored
  /\ stored' = stored \cup {[conn |-> request[q].conn, from |-> request[q].from,
                             left |-> request[q].left]}
  /\ request' = [request EXCEPT ![q] = IdleRequest]
  /\ UNCHANGED <<stage, socket, tracker, evicting, takenOver>>

-----------------------------------------------------------------------------
(* The watcher of a PID *)

\* Mutation: any failed poll counts as an exit.
SeeAnything(pid) ==
  /\ watcher[pid] = "polling"
  /\ watcher' = [watcher EXCEPT ![pid] = "sawExit"]
  /\ UNCHANGED <<stage, socket, connOf, conn, pidConns, nextConn,
                 evicting, request, stored, takenOver>>

\* A tick that finds the process gone.
SeeExit(pid) ==
  /\ watcher[pid] = "polling" /\ ~Alive(pid)
  /\ watcher' = [watcher EXCEPT ![pid] = "sawExit"]
  /\ UNCHANGED <<stage, socket, connOf, conn, pidConns, nextConn,
                 evicting, request, stored, takenOver>>

\* evictPID, under the lock.
Untrack(pid) ==
  /\ watcher[pid] = "sawExit"
  /\ LET gone == pidConns[pid]
     IN  /\ connOf' = Restrict(connOf, DOMAIN connOf
                                         \ {conn[c].addr : c \in gone})
         /\ conn' = Restrict(conn, DOMAIN conn \ gone)
         /\ evicting' = evicting \cup gone
  /\ pidConns' = [pidConns EXCEPT ![pid] = {}]
  /\ watcher' = [watcher EXCEPT ![pid] = "none"]
  /\ UNCHANGED <<stage, socket, nextConn, request, stored, takenOver>>

\* evictPID, outside the lock: one connection at a time.
EvictStored(c) ==
  /\ c \in evicting
  /\ stored' = {rec \in stored : rec.conn # c}
  /\ evicting' = evicting \ {c}
  /\ UNCHANGED <<stage, socket, tracker, request, takenOver>>

-----------------------------------------------------------------------------
OsNext ==
  \/ \E p \in Procs : Launch(p) \/ Exit(p)
  \/ \E p \in Procs, adr \in Addrs : OpenSocket(p, adr)
  \/ \E adr \in Addrs : CloseSocket(adr)

RequestStep(q) == Lookup(q) \/ Resolve(q) \/ Register(q) \/ StoreTelemetry(q)

TrackerNext ==
  \/ OsNext
  \/ \E q \in Requests : RequestStep(q) \/ \E adr \in Addrs : Arrive(q, adr)
  \/ \E pid \in Pids : SeeExit(pid) \/ Untrack(pid)
  \/ \E c \in ConnIDs : EvictStored(c)

TrackerSpec == TrackerInit /\ [][TrackerNext]_cvars

-----------------------------------------------------------------------------
(* Properties *)

\* The four tables agree: an address maps to a tracked connection of that
\* address, its PID lists it, and that PID has a watcher that will still come
\* for it.  A connection missing from any of them would never be evicted.
TablesAgree ==
  /\ \A adr \in DOMAIN connOf :
       connOf[adr] \in DOMAIN conn /\ conn[connOf[adr]].addr = adr
  /\ \A c \in DOMAIN conn :
       /\ connOf[conn[c].addr] = c
       /\ c \in pidConns[conn[c].pid]
       /\ watcher[conn[c].pid] # "none"
  /\ \A pid \in Pids : \A c \in pidConns[pid] : c \in DOMAIN conn

\* store.go:699-700, "Only data from that specific connection is removed; other
\* connections' data is preserved": telemetry of a process that still runs is
\* not evicted.
EvictionSparesTheLiving ==
  [][\A rec \in stored \ stored' : stage[rec.from] = "dead"]_cvars

\* As far as the code keeps it: only a socket that took over the address of a
\* tracked connection, or a client that closed its socket before its request was
\* attributed, can lose telemetry to the exit of another process, whatever
\* requests, polls and evictions interleave.
SparedUnlessTakenOver ==
  [][\A rec \in stored \ stored' :
       stage[rec.from] = "dead" \/ rec.conn \in takenOver \/ rec.left]_cvars

\* A watcher, or an eviction under way, will still come for connection c.
ToBeEvicted(c) ==
  c \in evicting \/ \E pid \in Pids : c \in pidConns[pid] /\ watcher[pid] # "none"

\* conntrack.go:36-37, "When the process exits, that connection's data is
\* evicted from the store", as far as the code keeps it: somebody will come for
\* every attributed record, unless its socket was closed under the request (whose
\* telemetry may be stored after the eviction) or its address was taken over.
EvictionIsOwed ==
  \A rec \in stored :
    rec.conn = NoConn \/ ToBeEvicted(rec.conn)
      \/ rec.left \/ rec.conn \in takenOver
=============================================================================
