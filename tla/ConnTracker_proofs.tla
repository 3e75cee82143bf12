------------------------- MODULE ConnTracker_proofs -------------------------
(***************************************************************************)
(* Theorems about module ConnTracker, for every set of processes,          *)
(* addresses and requests and every bound.                                 *)
(***************************************************************************)
EXTENDS ConnTracker, TLAPS

-----------------------------------------------------------------------------
(* The inductive invariant *)

Busy(q) == request[q].pc # "idle"

\* The operating system: only living processes hold sockets.
SocketsAreHeld ==
  \A adr \in Addrs : socket[adr] # NoProc => stage[socket[adr]] = "alive"

\* A request whose sender is dead was under way when it died.
DeadHaveLeft ==
  \A q \in Requests :
    Busy(q) /\ stage[request[q].from] = "dead" => request[q].left

\* A request in progress has a sender and an address, and until its sender has
\* left it the sender still holds that socket.
RequestsHaveSenders ==
  \A q \in Requests :
    Busy(q) => /\ request[q].from \in Procs /\ request[q].addr \in Addrs
               /\ \/ request[q].left
                  \/ socket[request[q].addr] = request[q].from

\* What Resolve found out was running, and is the sender unless the sender has
\* left.
ResolvedIsSender ==
  \A q \in Requests :
    request[q].pc = "register" =>
      /\ request[q].pid \in Pids /\ stage[request[q].pid] # "new"
      /\ request[q].left \/ request[q].pid = request[q].from

\* TablesAgree, with what makes it inductive: each connection is listed under
\* its own PID only, and identifiers are not given out again.
Tables ==
  /\ \A adr \in DOMAIN connOf :
       connOf[adr] \in DOMAIN conn /\ conn[connOf[adr]].addr = adr
  /\ \A c \in DOMAIN conn :
       /\ conn[c].addr \in DOMAIN connOf /\ connOf[conn[c].addr] = c
       /\ c \in pidConns[conn[c].pid]
       /\ watcher[conn[c].pid] # "none"
  /\ \A pid \in Pids : \A c \in pidConns[pid] :
       c \in DOMAIN conn /\ conn[c].pid = pid
  /\ \A c \in DOMAIN conn : c <= nextConn
  /\ \A c \in evicting : c <= nextConn /\ c \notin DOMAIN conn

\* A watched process was running once, and an exit that was seen has happened.
SeenIsDead ==
  \A pid \in Pids :
    /\ watcher[pid] # "none" => stage[pid] # "new"
    /\ watcher[pid] = "sawExit" => stage[pid] = "dead"

\* A tracked address in the hands of another process has been taken over.
OthersTookOver ==
  \A c \in DOMAIN conn :
    socket[conn[c].addr] \in {conn[c].pid, NoProc} \/ c \in takenOver

\* Telemetry of p under connection c will leave with p or is an exception.
OwnedBy(c, p, left) ==
  c = NoConn \/ left \/ c \in takenOver \/ c \in pidConns[p]

AttributedAreOwned ==
  \A q \in Requests :
    request[q].pc = "store" => OwnedBy(request[q].conn, request[q].from, request[q].left)

StoredAreOwned ==
  \A rec \in stored :
    \/ OwnedBy(rec.conn, rec.from, rec.left)
    \/ rec.conn \in evicting /\ stage[rec.from] = "dead"

WorldInv == SocketsAreHeld /\ DeadHaveLeft /\ RequestsHaveSenders
TablesInv == ResolvedIsSender /\ Tables /\ SeenIsDead /\ OthersTookOver
OwnedInv == AttributedAreOwned /\ StoredAreOwned

TrackerInv == TrackerTypeOK /\ WorldInv /\ TablesInv /\ OwnedInv

-----------------------------------------------------------------------------
(* Type correctness *)

LEMMA RequestFields ==
  ASSUME RequestTypeOK, NEW q \in Requests
  PROVE  /\ request[q].pc \in {"idle", "lookup", "resolve", "register", "store"}
         /\ request[q].from \in Procs \cup {NoProc}
         /\ request[q].addr \in Addrs \cup {NoAddr}
         /\ request[q].pid \in Pids \cup {NoPid}
         /\ request[q].conn \in ConnIDs \cup {NoConn}
         /\ request[q].left \in BOOLEAN
BY DEF RequestTypeOK, RequestStates

\* What Attributed changes of a request.
LEMMA AttributedEffect ==
  ASSUME RequestTypeOK, NEW q \in Requests, NEW c \in ConnIDs \cup {NoConn},
         Attributed(q, c)
  PROVE  /\ RequestTypeOK'
         /\ request'[q].pc = "store" /\ request'[q].conn = c
         /\ request'[q].from = request[q].from
         /\ request'[q].addr = request[q].addr
         /\ request'[q].left = request[q].left
         /\ \A r \in Requests \ {q} : request'[r] = request[r]
<1>1. request' = [request EXCEPT ![q] = [@ EXCEPT !.pc = "store", !.conn = c]]
  BY DEF Attributed
<1>2. request[q] \in RequestStates
  BY DEF RequestTypeOK
<1>3. [request[q] EXCEPT !.pc = "store", !.conn = c] \in RequestStates
  BY <1>2 DEF RequestStates
<1> QED
  BY <1>1, <1>2, <1>3 DEF RequestTypeOK, RequestStates

\* A request that was left is otherwise the same.
LEMMA LeftEffect ==
  ASSUME NEW r \in RequestStates, NEW s, s = [r EXCEPT !.left = TRUE]
  PROVE  /\ s \in RequestStates
         /\ s.pc = r.pc /\ s.from = r.from /\ s.addr = r.addr
         /\ s.pid = r.pid /\ s.conn = r.conn /\ s.left
BY DEF RequestStates

\* What LeaveBehind changes of the requests.
LEMMA LeaveEffect ==
  ASSUME RequestTypeOK, NEW R \in SUBSET Requests, LeaveBehind(R)
  PROVE  /\ RequestTypeOK'
         /\ \A q \in Requests :
              /\ request'[q].pc = request[q].pc /\ request'[q].from = request[q].from
              /\ request'[q].addr = request[q].addr /\ request'[q].pid = request[q].pid
              /\ request'[q].conn = request[q].conn
              /\ request[q].left \/ q \in R => request'[q].left
<1>1. ASSUME NEW q \in Requests
      PROVE  /\ request'[q] \in RequestStates
             /\ request'[q].pc = request[q].pc /\ request'[q].from = request[q].from
             /\ request'[q].addr = request[q].addr /\ request'[q].pid = request[q].pid
             /\ request'[q].conn = request[q].conn
             /\ request[q].left \/ q \in R => request'[q].left
  <2>1. request[q] \in RequestStates
    BY DEF RequestTypeOK
  <2>2. request'[q] = IF q \in R THEN [request[q] EXCEPT !.left = TRUE] ELSE request[q]
    BY DEF LeaveBehind
  <2>3. CASE q \in R
    BY <2>1, <2>2, <2>3, LeftEffect
  <2>4. CASE q \notin R
    BY <2>1, <2>2, <2>4
  <2> QED
    BY <2>3, <2>4
<1>2. request' \in [Requests -> RequestStates]
  BY <1>1 DEF LeaveBehind
<1> QED
  BY <1>1, <1>2 DEF RequestTypeOK

\* What Track does to the tables.
Tracked(adr, pid) ==
  /\ TablesTypeOK' /\ takenOver' \subseteq ConnIDs
  /\ NewConn \in ConnIDs /\ nextConn' = NewConn
  /\ DOMAIN connOf' = DOMAIN connOf \cup {adr} /\ connOf'[adr] = NewConn
  /\ \A x \in DOMAIN connOf \ {adr} : connOf'[x] = connOf[x]
  /\ DOMAIN conn' = DOMAIN conn \cup {NewConn}
  /\ conn'[NewConn] = [addr |-> adr, pid |-> pid]
  /\ \A x \in DOMAIN conn \ {NewConn} : conn'[x] = conn[x]
  /\ pidConns'[pid] = pidConns[pid] \cup {NewConn}
  /\ \A x \in Pids \ {pid} : pidConns'[x] = pidConns[x]
  /\ watcher'[pid] # "none"
  /\ watcher'[pid] = "sawExit" => watcher[pid] = "sawExit"
  /\ \A x \in Pids \ {pid} : watcher'[x] = watcher[x]
  /\ takenOver \subseteq takenOver'
  /\ socket[adr] \notin {pid, NoProc} => NewConn \in takenOver'

LEMMA TrackEffect ==
  ASSUME TablesTypeOK, takenOver \subseteq ConnIDs,
         NEW adr \in Addrs, NEW pid \in Pids, Track(adr, pid, NewConn),
         UNCHANGED evicting
  PROVE  Tracked(adr, pid)
<1>1. NewConn \in ConnIDs /\ nextConn' = NewConn /\ nextConn' \in 0..MaxConns
  BY TrackerAssumption DEF TablesTypeOK, Track, NewConn, ConnIDs
<1>2. /\ DOMAIN connOf' = DOMAIN connOf \cup {adr} /\ connOf'[adr] = NewConn
      /\ \A x \in DOMAIN connOf \ {adr} : connOf'[x] = connOf[x]
  BY DEF Track
<1>3. /\ DOMAIN conn' = DOMAIN conn \cup {NewConn}
      /\ conn'[NewConn] = [addr |-> adr, pid |-> pid]
      /\ \A x \in DOMAIN conn \ {NewConn} : conn'[x] = conn[x]
  BY DEF Track
<1>4. /\ pidConns' \in [Pids -> SUBSET ConnIDs]
      /\ pidConns'[pid] = pidConns[pid] \cup {NewConn}
      /\ \A x \in Pids \ {pid} : pidConns'[x] = pidConns[x]
  BY <1>1 DEF TablesTypeOK, Track, Own
<1>5. /\ watcher' \in [Pids -> {"none", "polling", "sawExit"}]
      /\ watcher'[pid] # "none"
      /\ watcher'[pid] = "sawExit" => watcher[pid] = "sawExit"
      /\ \A x \in Pids \ {pid} : watcher'[x] = watcher[x]
  BY DEF TablesTypeOK, Track
<1>6. /\ takenOver \subseteq takenOver'
      /\ takenOver' \subseteq takenOver \cup {NewConn}
      /\ socket[adr] \notin {pid, NoProc} => NewConn \in takenOver'
  BY DEF Track
<1>7. TablesTypeOK'
  BY <1>1, <1>2, <1>3, <1>4, <1>5 DEF TablesTypeOK
<1> QED
  BY <1>1, <1>2, <1>3, <1>4, <1>5, <1>6, <1>7 DEF Tracked

-----------------------------------------------------------------------------
(* Steps of the operating system *)

LEMMA OsTypeStep ==
  ASSUME TrackerTypeOK, OsNext
  PROVE  TrackerTypeOK'
<1> USE DEF TrackerTypeOK, tracker
<1>1. ASSUME NEW p \in Procs, Launch(p)
      PROVE  TrackerTypeOK'
  BY <1>1 DEF Launch, OsTypeOK, TablesTypeOK, RequestTypeOK, RecordsTypeOK
<1>2. ASSUME NEW p \in Procs, Exit(p)
      PROVE  TrackerTypeOK'
  <2>1. RequestTypeOK'
    BY <1>2, LeaveEffect DEF Exit
  <2> QED
    BY <1>2, <2>1 DEF Exit, OsTypeOK, TablesTypeOK, RecordsTypeOK
<1>3. ASSUME NEW p \in Procs, NEW adr \in Addrs, OpenSocket(p, adr)
      PROVE  TrackerTypeOK'
  BY <1>3 DEF OpenSocket, OsTypeOK, TablesTypeOK, RequestTypeOK, RecordsTypeOK
<1>4. ASSUME NEW adr \in Addrs, CloseSocket(adr)
      PROVE  TrackerTypeOK'
  <2>1. RequestTypeOK'
    BY <1>4, LeaveEffect DEF CloseSocket
  <2> QED
    BY <1>4, <2>1 DEF CloseSocket, OsTypeOK, TablesTypeOK, RecordsTypeOK
<1> QED
  BY <1>1, <1>2, <1>3, <1>4 DEF OsNext

LEMMA OsWorldStep ==
  ASSUME TrackerTypeOK, WorldInv, OsNext
  PROVE  WorldInv'
<1> USE TrackerAssumption DEF WorldInv, TrackerTypeOK, OsTypeOK, Busy
<1>1. ASSUME NEW p \in Procs, Launch(p)
      PROVE  WorldInv'
  <2>1. /\ stage[p] = "new" /\ stage'[p] = "alive"
        /\ \A x \in Procs \ {p} : stage'[x] = stage[x]
        /\ UNCHANGED <<socket, request>>
    BY <1>1 DEF Launch
  <2>2. SocketsAreHeld'
    BY <2>1 DEF SocketsAreHeld
  <2>3. DeadHaveLeft'
    BY <2>1 DEF DeadHaveLeft, RequestsHaveSenders, RecordsTypeOK
  <2>4. RequestsHaveSenders'
    BY <2>1 DEF RequestsHaveSenders
  <2> QED
    BY <2>2, <2>3, <2>4
<1>2. ASSUME NEW p \in Procs, Exit(p)
      PROVE  WorldInv'
  <2>1. /\ stage[p] = "alive" /\ stage'[p] = "dead"
        /\ \A x \in Procs \ {p} : stage'[x] = stage[x]
        /\ \A adr \in Addrs :
             socket'[adr] = IF socket[adr] = p THEN NoProc ELSE socket[adr]
    BY <1>2 DEF Exit
  <2>5. \A q \in Requests :
          /\ request'[q].pc = request[q].pc /\ request'[q].from = request[q].from
          /\ request'[q].addr = request[q].addr
          /\ request[q].left => request'[q].left
          /\ request[q].from = p => request'[q].left
    <3>1. LeaveBehind({q \in Requests : request[q].from = p})
      BY <1>2 DEF Exit
    <3> QED
      BY <3>1, LeaveEffect
  <2>2. SocketsAreHeld'
    BY <2>1 DEF SocketsAreHeld
  <2>3. DeadHaveLeft'
    BY <2>1, <2>5 DEF DeadHaveLeft, RequestsHaveSenders
  <2>4. RequestsHaveSenders'
    BY <2>1, <2>5 DEF RequestsHaveSenders
  <2> QED
    BY <2>2, <2>3, <2>4
<1>3. ASSUME NEW p \in Procs, NEW adr \in Addrs, OpenSocket(p, adr)
      PROVE  WorldInv'
  <2>1. /\ stage[p] = "alive" /\ socket[adr] = NoProc /\ socket'[adr] = p
        /\ \A x \in Addrs \ {adr} : socket'[x] = socket[x]
        /\ UNCHANGED <<stage, request>>
    BY <1>3 DEF OpenSocket
  <2>2. SocketsAreHeld'
    BY <2>1 DEF SocketsAreHeld
  <2>3. DeadHaveLeft'
    BY <2>1 DEF DeadHaveLeft
  <2>4. RequestsHaveSenders'
    BY <2>1 DEF RequestsHaveSenders
  <2> QED
    BY <2>2, <2>3, <2>4
<1>4. ASSUME NEW adr \in Addrs, CloseSocket(adr)
      PROVE  WorldInv'
  <2>1. /\ socket'[adr] = NoProc
        /\ \A x \in Addrs \ {adr} : socket'[x] = socket[x]
        /\ UNCHANGED stage
    BY <1>4 DEF CloseSocket
  <2>5. \A q \in Requests :
          /\ request'[q].pc = request[q].pc /\ request'[q].from = request[q].from
          /\ request'[q].addr = request[q].addr
          /\ request[q].left => request'[q].left
          /\ request[q].addr = adr => request'[q].left
    <3>1. LeaveBehind({q \in Requests : request[q].addr = adr})
      BY <1>4 DEF CloseSocket
    <3> QED
      BY <3>1, LeaveEffect
  <2>2. SocketsAreHeld'
    BY <2>1 DEF SocketsAreHeld
  <2>3. DeadHaveLeft'
    BY <2>1, <2>5 DEF DeadHaveLeft
  <2>4. RequestsHaveSenders'
    BY <2>1, <2>5 DEF RequestsHaveSenders
  <2> QED
    BY <2>2, <2>3, <2>4
<1> QED
  BY <1>1, <1>2, <1>3, <1>4 DEF OsNext

\* The operating system only marks requests as left.
LEMMA OsRequests ==
  ASSUME RequestTypeOK, OsNext
  PROVE  \A q \in Requests :
           /\ request'[q].pc = request[q].pc /\ request'[q].from = request[q].from
           /\ request'[q].pid = request[q].pid /\ request'[q].conn = request[q].conn
           /\ request[q].left => request'[q].left
<1>1. ASSUME NEW p \in Procs, Exit(p)
      PROVE  LeaveBehind({q \in Requests : request[q].from = p})
  BY <1>1 DEF Exit
<1>2. ASSUME NEW adr \in Addrs, CloseSocket(adr)
      PROVE  LeaveBehind({q \in Requests : request[q].addr = adr})
  BY <1>2 DEF CloseSocket
<1>3. (UNCHANGED request) \/ \E R \in SUBSET Requests : LeaveBehind(R)
  BY <1>1, <1>2 DEF OsNext, Launch, OpenSocket
<1> QED
  BY <1>3, LeaveEffect

\* The tables do not change, and the dead stay dead.
LEMMA OsTablesStep ==
  ASSUME TrackerTypeOK, WorldInv, TablesInv, OsNext
  PROVE  TablesInv'
<1> USE TrackerAssumption DEF TablesInv
<1>1. /\ UNCHANGED <<tracker, evicting>>
      /\ takenOver \subseteq takenOver'
      /\ \A p \in Procs : /\ stage[p] = "dead" => stage'[p] = "dead"
                          /\ stage[p] # "new" => stage'[p] # "new"
  BY DEF OsNext, Launch, OpenSocket, CloseSocket, Exit, TrackerTypeOK, OsTypeOK
<1>0. \A q \in Requests :
        /\ request'[q].pc = request[q].pc /\ request'[q].from = request[q].from
        /\ request'[q].pid = request[q].pid
        /\ request[q].left => request'[q].left
  BY OsRequests DEF TrackerTypeOK
<1>2. ResolvedIsSender'
  BY <1>0, <1>1 DEF ResolvedIsSender, Pids
<1>3. Tables'
  BY <1>1 DEF Tables, tracker
<1>4. SeenIsDead'
  BY <1>1 DEF SeenIsDead, tracker, Pids
<1>5. OthersTookOver'
  <2> SUFFICES ASSUME NEW c \in DOMAIN conn
               PROVE  \/ socket'[conn[c].addr] \in {conn[c].pid, NoProc}
                      \/ c \in takenOver'
    BY <1>1 DEF OthersTookOver, tracker
  <2>1. socket[conn[c].addr] \in {conn[c].pid, NoProc} \/ c \in takenOver
    BY DEF OthersTookOver
  <2>2. conn[c].addr \in Addrs
    BY DEF TrackerTypeOK, TablesTypeOK
  <2> USE DEF TrackerTypeOK, OsTypeOK
  <2>3. ASSUME NEW p \in Procs, Launch(p)
        PROVE  socket'[conn[c].addr] = socket[conn[c].addr]
    BY <2>3 DEF Launch
  <2>4. ASSUME NEW p \in Procs, Exit(p)
        PROVE  socket'[conn[c].addr] \in {socket[conn[c].addr], NoProc}
    BY <2>2, <2>4 DEF Exit
  <2>5. ASSUME NEW p \in Procs, NEW adr \in Addrs, OpenSocket(p, adr)
        PROVE  \/ socket'[conn[c].addr] \in {socket[conn[c].addr], conn[c].pid}
               \/ c \in takenOver'
    BY <2>2, <2>5 DEF OpenSocket
  <2>6. ASSUME NEW adr \in Addrs, CloseSocket(adr)
        PROVE  socket'[conn[c].addr] \in {socket[conn[c].addr], NoProc}
    BY <2>2, <2>6 DEF CloseSocket
  <2> QED
    BY <1>1, <2>1, <2>3, <2>4, <2>5, <2>6 DEF OsNext
<1> QED
  BY <1>2, <1>3, <1>4, <1>5

LEMMA OsOwnedStep ==
  ASSUME TrackerTypeOK, OwnedInv, OsNext
  PROVE  OwnedInv'
<1>1. /\ UNCHANGED <<tracker, evicting, stored>>
      /\ takenOver \subseteq takenOver'
      /\ \A p \in Procs : stage[p] = "dead" => stage'[p] = "dead"
  BY DEF OsNext, Launch, OpenSocket, CloseSocket, Exit, TrackerTypeOK, OsTypeOK
<1>2. \A c, p, left : OwnedBy(c, p, left) => OwnedBy(c, p, left)'
  BY <1>1 DEF OwnedBy, tracker
<1>3. \A q \in Requests :
        /\ request'[q].pc = request[q].pc /\ request'[q].from = request[q].from
        /\ request'[q].conn = request[q].conn
        /\ request[q].left => request'[q].left
  BY OsRequests DEF TrackerTypeOK
<1>4. \A c, p : OwnedBy(c, p, TRUE)'
  BY DEF OwnedBy
<1>5. AttributedAreOwned'
  <2> SUFFICES ASSUME NEW q \in Requests, request[q].pc = "store"
               PROVE  OwnedBy(request[q].conn, request[q].from, request[q].left)'
    BY <1>3 DEF AttributedAreOwned
  <2>1. OwnedBy(request[q].conn, request[q].from, request[q].left)
    BY DEF OwnedInv, AttributedAreOwned
  <2> QED
    BY <1>1, <1>3, <2>1 DEF OwnedBy, tracker
<1> QED
  BY <1>1, <1>2, <1>5 DEF OwnedInv, AttributedAreOwned, StoredAreOwned, TrackerTypeOK,
                    RecordsTypeOK

-----------------------------------------------------------------------------
(* Steps of a request *)

\* A request in progress stays with its sender and address until it ends.
LEMMA RequestMoves ==
  ASSUME TrackerTypeOK, TablesInv, NEW q \in Requests, RequestStep(q),
         RequestsHaveSenders
  PROVE  /\ UNCHANGED <<stage, socket, evicting>> /\ Busy(q)
         /\ RequestTypeOK'
         /\ \A r \in Requests \ {q} : request'[r] = request[r]
         /\ \/ request'[q] = IdleRequest
            \/ request'[q].from = request[q].from
               /\ request'[q].addr = request[q].addr
               /\ request'[q].left = request[q].left
<1> USE DEF TrackerTypeOK, Busy
<1>1. CASE Lookup(q)
  <2>1. CASE /\ request[q].addr \in DOMAIN connOf
             /\ Attributed(q, connOf[request[q].addr])
    <3>1. connOf[request[q].addr] \in ConnIDs \cup {NoConn}
      BY <2>1 DEF TablesTypeOK
    <3> HIDE DEF Busy
    <3> QED
      BY <1>1, <2>1, <3>1, AttributedEffect DEF Lookup, Busy
  <2>2. CASE request' = [request EXCEPT ![q].pc = "resolve"]
    BY <1>1, <2>2 DEF Lookup, RequestTypeOK, RequestStates
  <2> QED
    BY <1>1, <2>1, <2>2 DEF Lookup
<1>2. CASE Resolve(q)
  <2>1. CASE Attributed(q, NoConn)
    BY <1>2, <2>1, AttributedEffect DEF Resolve, Originating
  <2>2. CASE /\ socket[request[q].addr] # NoProc
             /\ request' = [request EXCEPT ![q].pc = "register",
                                           ![q].pid = socket[request[q].addr]]
    <3>1. socket[request[q].addr] \in Pids
      BY <1>2, <2>2 DEF RequestsHaveSenders, Resolve, Originating, OsTypeOK, Pids
    <3> QED
      BY <1>2, <2>2, <3>1 DEF Resolve, Originating, RequestTypeOK, RequestStates
  <2> QED
    BY <1>2, <2>1, <2>2 DEF Resolve, Originating
<1>3. CASE Register(q)
  <2>1. PICK c \in ConnIDs \cup {NoConn} : Attributed(q, c)
    <3>1. CASE request[q].addr \in DOMAIN connOf
      BY <1>3, <3>1 DEF Register, TablesTypeOK
    <3>2. CASE request[q].addr \notin DOMAIN connOf
      <4>1. NewConn \in ConnIDs
        BY <1>3, <3>2, TrackerAssumption
        DEF Register, Track, TablesTypeOK, NewConn, ConnIDs
      <4> QED
        BY <1>3, <3>2, <4>1 DEF Register
    <3> QED
      BY <3>1, <3>2
  <2> QED
    BY <1>3, <2>1, AttributedEffect DEF Register
<1>4. CASE StoreTelemetry(q)
  <2>1. IdleRequest \in RequestStates
    BY DEF IdleRequest, RequestStates
  <2>2. request' = [request EXCEPT ![q] = IdleRequest]
    BY <1>4 DEF StoreTelemetry
  <2>3. RequestTypeOK'
    BY <2>1, <2>2 DEF RequestTypeOK
  <2>4. request'[q] = IdleRequest /\ \A r \in Requests \ {q} : request'[r] = request[r]
    BY <2>2 DEF RequestTypeOK
  <2> QED
    BY <1>4, <2>3, <2>4 DEF StoreTelemetry
<1> QED
  BY <1>1, <1>2, <1>3, <1>4 DEF RequestStep

LEMMA RequestWorldStep ==
  ASSUME TrackerTypeOK, WorldInv, TablesInv, NEW q \in Requests, RequestStep(q)
  PROVE  WorldInv'
<1>1. /\ UNCHANGED <<stage, socket, evicting>> /\ Busy(q)
      /\ \A r \in Requests \ {q} : request'[r] = request[r]
      /\ \/ request'[q] = IdleRequest
         \/ request'[q].from = request[q].from
            /\ request'[q].addr = request[q].addr
            /\ request'[q].left = request[q].left
  BY RequestMoves DEF WorldInv
<1>2. SocketsAreHeld'
  BY <1>1 DEF WorldInv, SocketsAreHeld
<1>3. DeadHaveLeft'
  BY <1>1 DEF WorldInv, DeadHaveLeft, Busy, IdleRequest
<1>4. RequestsHaveSenders'
  BY <1>1 DEF WorldInv, RequestsHaveSenders, Busy, IdleRequest
<1> QED
  BY <1>2, <1>3, <1>4 DEF WorldInv

\* The identifier a tracked address answers with is the sender's, or the
\* sender is one of the exceptions.
LEMMA TrackedIsOwned ==
  ASSUME TrackerTypeOK, WorldInv, TablesInv, NEW q \in Requests, Busy(q),
         request[q].addr \in DOMAIN connOf
  PROVE  OwnedBy(connOf[request[q].addr], request[q].from, request[q].left)
<1> DEFINE adr == request[q].addr
           c == connOf[adr]
<1>1. c \in DOMAIN conn /\ conn[c].addr = adr
  BY DEF TablesInv, Tables
<1>2. c \in pidConns[conn[c].pid]
  BY <1>1 DEF TablesInv, Tables
<1>3. socket[adr] \in {conn[c].pid, NoProc} \/ c \in takenOver
  BY <1>1 DEF TablesInv, OthersTookOver
<1>4. /\ request[q].from \in Procs
      /\ request[q].left \/ socket[adr] = request[q].from
  BY DEF WorldInv, RequestsHaveSenders
<1> QED
  BY <1>2, <1>3, <1>4, TrackerAssumption DEF OwnedBy

\* The new connection that Register tracks fits into the tables.
LEMMA RegisterTablesStep ==
  ASSUME TrackerTypeOK, WorldInv, TablesInv, NEW q \in Requests, Register(q),
         request[q].addr \notin DOMAIN connOf
  PROVE  /\ TrackerTypeOK' /\ Tables' /\ SeenIsDead' /\ OthersTookOver'
         /\ request[q].pid \in Pids /\ NewConn \in pidConns'[request[q].pid]
         /\ \A p \in Pids : pidConns[p] \subseteq pidConns'[p]
         /\ takenOver \subseteq takenOver'
<1>0. PICK adr \in Addrs, pid \in Pids :
        request[q].addr = adr /\ request[q].pid = pid /\ stage[pid] # "new"
  BY DEF WorldInv, RequestsHaveSenders, TablesInv, ResolvedIsSender, Register, Busy
<1>1. /\ Track(adr, pid, NewConn) /\ Attributed(q, NewConn) /\ Busy(q)
      /\ UNCHANGED <<stage, socket, evicting, stored>>
  BY <1>0 DEF Register, Busy
<1>3. Tracked(adr, pid)
  <2>1. TablesTypeOK /\ takenOver \subseteq ConnIDs
    BY DEF TrackerTypeOK, RecordsTypeOK
  <2> QED
    BY <1>1, <2>1, TrackEffect
<1>4. NewConn = nextConn + 1 /\ nextConn \in Nat
  BY TrackerAssumption DEF NewConn, TrackerTypeOK, TablesTypeOK
<1>5. NewConn \notin DOMAIN conn /\ NewConn \notin evicting
  BY <1>4 DEF TablesInv, Tables, TrackerTypeOK, TablesTypeOK, ConnIDs
<1>6. adr \notin DOMAIN connOf
  BY <1>0
<1>7. Tables'
  <2>1. \A x \in DOMAIN connOf' :
          connOf'[x] \in DOMAIN conn' /\ conn'[connOf'[x]].addr = x
    BY <1>3, <1>5, <1>6 DEF Tracked, TablesInv, Tables
  <2>2. \A c \in DOMAIN conn' :
          conn'[c].addr \in DOMAIN connOf' /\ connOf'[conn'[c].addr] = c
    BY <1>3, <1>5, <1>6 DEF Tracked, TablesInv, Tables
  <2>3. \A c \in DOMAIN conn' :
          c \in pidConns'[conn'[c].pid] /\ watcher'[conn'[c].pid] # "none"
    <3> SUFFICES ASSUME NEW c \in DOMAIN conn, c # NewConn
                 PROVE  c \in pidConns'[conn[c].pid] /\ watcher'[conn[c].pid] # "none"
      BY <1>3, <1>5 DEF Tracked
    <3>1. conn[c].pid \in Pids /\ c \in pidConns[conn[c].pid]
          /\ watcher[conn[c].pid] # "none"
      BY DEF TablesInv, Tables, TrackerTypeOK, TablesTypeOK
    <3> QED
      BY <1>3, <3>1 DEF Tracked
  <2>4. \A x \in Pids : \A c \in pidConns'[x] : c \in DOMAIN conn' /\ conn'[c].pid = x
    BY <1>0, <1>3, <1>5 DEF Tracked, TablesInv, Tables
  <2>5. \A c \in DOMAIN conn' : c <= nextConn'
    BY <1>3, <1>4 DEF Tracked, TablesInv, Tables, TrackerTypeOK, TablesTypeOK, ConnIDs
  <2>6. \A c \in evicting' : c <= nextConn' /\ c \notin DOMAIN conn'
    BY <1>1, <1>3, <1>4, <1>5 DEF Tracked, TablesInv, Tables, TrackerTypeOK, TablesTypeOK, ConnIDs
  <2> QED
    BY <2>1, <2>2, <2>3, <2>4, <2>5, <2>6 DEF Tables
<1>8. SeenIsDead'
  BY <1>1, <1>0, <1>3 DEF Tracked, TablesInv, SeenIsDead
<1>9. OthersTookOver'
  BY <1>1, <1>3, <1>5 DEF Tracked, TablesInv, OthersTookOver
<1>10. RequestTypeOK'
  BY RequestMoves DEF RequestStep, WorldInv
<1>11. TrackerTypeOK'
  BY <1>1, <1>3, <1>10 DEF Tracked, TrackerTypeOK, OsTypeOK, RecordsTypeOK
<1> QED
  BY <1>0, <1>3, <1>7, <1>8, <1>9, <1>11 DEF Tracked

LEMMA RequestTablesStep ==
  ASSUME TrackerTypeOK, WorldInv, TablesInv, NEW q \in Requests, RequestStep(q)
  PROVE  TrackerTypeOK' /\ TablesInv'
<1>1. /\ UNCHANGED <<stage, socket, evicting>> /\ RequestTypeOK'
      /\ \A r \in Requests \ {q} : request'[r] = request[r]
  BY RequestMoves DEF WorldInv
<1>2. ResolvedIsSender'
  <2>1. CASE Resolve(q)
    <3>1. /\ request[q].from \in Procs
          /\ request[q].left \/ socket[request[q].addr] = request[q].from
      BY <2>1 DEF WorldInv, RequestsHaveSenders, Busy, Resolve, Originating
    <3>2. request[q].addr \in Addrs
      BY <2>1 DEF WorldInv, RequestsHaveSenders, Busy, Resolve, Originating
    <3>3. \/ request'[q].pc # "register"
          \/ /\ socket[request[q].addr] \in Pids
             /\ stage[socket[request[q].addr]] = "alive"
             /\ request'[q].pid = socket[request[q].addr]
             /\ request'[q].from = request[q].from
             /\ request'[q].left = request[q].left
      BY <2>1, <3>2 DEF Resolve, Originating, Attributed, TrackerTypeOK, OsTypeOK, WorldInv,
                        SocketsAreHeld, RequestTypeOK, RequestStates, Pids
    <3> QED
      BY <1>1, <3>1, <3>3 DEF TablesInv, ResolvedIsSender
  <2>2. CASE Lookup(q) \/ Register(q) \/ StoreTelemetry(q)
    <3>1. request'[q].pc # "register"
      BY <2>2 DEF Lookup, Register, StoreTelemetry, Attributed, IdleRequest,
                  TrackerTypeOK, RequestTypeOK, RequestStates
    <3> QED
      BY <1>1, <3>1 DEF TablesInv, ResolvedIsSender
  <2> QED
    BY <2>1, <2>2 DEF RequestStep
<1>3. CASE UNCHANGED <<tracker, takenOver>>
  <2>1. Tables' /\ SeenIsDead' /\ OthersTookOver'
    BY <1>1, <1>3 DEF TablesInv, Tables, SeenIsDead, OthersTookOver, tracker
  <2>2. RecordsTypeOK'
    <3>1. CASE UNCHANGED stored
      BY <1>1, <1>3, <3>1 DEF TrackerTypeOK, RecordsTypeOK
    <3>2. CASE StoreTelemetry(q)
      <4>1. /\ request[q].conn \in ConnIDs \cup {NoConn} /\ request[q].from \in Procs
            /\ request[q].left \in BOOLEAN
        BY <3>2, RequestFields
        DEF WorldInv, RequestsHaveSenders, Busy, StoreTelemetry, TrackerTypeOK
      <4> QED
        BY <1>1, <1>3, <3>2, <4>1 DEF TrackerTypeOK, RecordsTypeOK, StoreTelemetry
    <3> QED
      BY <3>1, <3>2 DEF RequestStep, Lookup, Resolve, Originating, Register
  <2>3. TrackerTypeOK'
    BY <1>1, <1>3, <2>2 DEF TrackerTypeOK, OsTypeOK, TablesTypeOK, tracker
  <2> QED
    BY <1>2, <2>1, <2>3 DEF TablesInv
<1>4. CASE Register(q) /\ request[q].addr \notin DOMAIN connOf
  BY <1>2, <1>4, RegisterTablesStep DEF TablesInv
<1> QED
  BY <1>3, <1>4 DEF RequestStep, Lookup, Resolve, Originating, Register, StoreTelemetry

LEMMA RequestOwnedStep ==
  ASSUME TrackerInv, NEW q \in Requests, RequestStep(q)
  PROVE  OwnedInv'
<1> USE DEF TrackerInv
<1> DEFINE OwnedNext(c, p, left) ==
             c = NoConn \/ left \/ c \in takenOver' \/ c \in pidConns'[p]
<1>1. /\ UNCHANGED <<stage, socket, evicting>> /\ Busy(q)
      /\ \A r \in Requests \ {q} : request'[r] = request[r]
      /\ \/ request'[q] = IdleRequest
         \/ request'[q].from = request[q].from
            /\ request'[q].addr = request[q].addr
            /\ request'[q].left = request[q].left
  BY RequestMoves DEF WorldInv
<1>2. request[q].from \in Procs
  BY <1>1 DEF WorldInv, RequestsHaveSenders
<1>3. /\ \A p \in Pids : pidConns[p] \subseteq pidConns'[p]
      /\ takenOver \subseteq takenOver'
  <2>1. CASE Register(q) /\ request[q].addr \notin DOMAIN connOf
    BY <2>1, RegisterTablesStep
  <2>2. CASE UNCHANGED <<tracker, takenOver>>
    BY <2>2 DEF tracker
  <2> QED
    BY <2>1, <2>2 DEF RequestStep, Lookup, Resolve, Originating, Register, StoreTelemetry
<1>4. \A c, left : \A p \in Procs : OwnedBy(c, p, left) => OwnedNext(c, p, left)
  BY <1>1, <1>3 DEF OwnedBy, Pids
<1>5. request'[q].pc = "store" => OwnedNext(request'[q].conn, request[q].from, request[q].left)
  <2> HAVE request'[q].pc = "store"
  <2>1. CASE /\ request[q].addr \in DOMAIN connOf
             /\ Attributed(q, connOf[request[q].addr])
    <3>1. request'[q].conn = connOf[request[q].addr]
      BY <2>1 DEF Attributed, TrackerTypeOK, RequestTypeOK, RequestStates
    <3> QED
      BY <1>1, <1>2, <1>4, <3>1, <2>1, TrackedIsOwned
  <2>2. CASE Attributed(q, NoConn)
    <3>1. request'[q].conn = NoConn
      BY <2>2 DEF Attributed, TrackerTypeOK, RequestTypeOK, RequestStates
    <3> QED
      BY <3>1
  <2>3. CASE Register(q) /\ request[q].addr \notin DOMAIN connOf
    <3>1. request'[q].conn = NewConn
      BY <2>3 DEF Register, Attributed, TrackerTypeOK, RequestTypeOK, RequestStates
    <3>2. NewConn \in pidConns'[request[q].pid]
      BY <2>3, RegisterTablesStep
    <3>3. request[q].left \/ request[q].pid = request[q].from
      BY <2>3 DEF TablesInv, ResolvedIsSender, Register
    <3> QED
      BY <1>1, <3>1, <3>2, <3>3
  <2>4. CASE request'[q].pc # "store"
    BY <2>4
  <2>5. Lookup(q) \/ Resolve(q) => \/ request'[q].pc # "store"
                                  \/ Attributed(q, NoConn)
                                  \/ /\ request[q].addr \in DOMAIN connOf
                                     /\ Attributed(q, connOf[request[q].addr])
    BY DEF Lookup, Resolve, Originating, TrackerTypeOK, RequestTypeOK, RequestStates
  <2>6. StoreTelemetry(q) => request'[q].pc # "store"
    BY DEF StoreTelemetry, IdleRequest, TrackerTypeOK, RequestTypeOK
  <2> QED
    BY <2>1, <2>2, <2>3, <2>4, <2>5, <2>6 DEF RequestStep, Register
<1>6. AttributedAreOwned'
  <2> SUFFICES ASSUME NEW r \in Requests, request'[r].pc = "store"
               PROVE  OwnedNext(request'[r].conn, request'[r].from, request'[r].left)
    BY DEF AttributedAreOwned, OwnedBy
  <2>1. CASE r = q
    BY <1>1, <1>5, <2>1 DEF IdleRequest
  <2>2. CASE r # q
    BY <1>1, <1>4, <2>2 DEF WorldInv, RequestsHaveSenders, Busy, OwnedInv,
                            AttributedAreOwned
  <2> QED
    BY <2>1, <2>2
<1>7. StoredAreOwned'
  <2> SUFFICES ASSUME NEW rec \in stored'
               PROVE  \/ OwnedNext(rec.conn, rec.from, rec.left)
                      \/ rec.conn \in evicting' /\ stage'[rec.from] = "dead"
    BY DEF StoredAreOwned, OwnedBy
  <2>1. CASE rec \in stored
    <3>1. rec.from \in Procs
      BY <2>1 DEF TrackerTypeOK, RecordsTypeOK
    <3> QED
      BY <1>1, <1>4, <2>1, <3>1 DEF OwnedInv, StoredAreOwned
  <2>2. CASE /\ StoreTelemetry(q)
             /\ rec = [conn |-> request[q].conn, from |-> request[q].from,
                       left |-> request[q].left]
    BY <1>2, <1>4, <2>2 DEF StoreTelemetry, OwnedInv, AttributedAreOwned
  <2> QED
    BY <2>1, <2>2 DEF RequestStep, Lookup, Resolve, Originating, Register, StoreTelemetry
<1> QED
  BY <1>6, <1>7 DEF OwnedInv

LEMMA ArriveStep ==
  ASSUME TrackerInv, NEW q \in Requests, NEW adr \in Addrs, Arrive(q, adr)
  PROVE  TrackerInv'
<1> USE DEF TrackerInv
<1>1. /\ UNCHANGED <<stage, socket, tracker, evicting, stored, takenOver>>
      /\ socket[adr] # NoProc /\ socket[adr] \in Procs
      /\ request' = [request EXCEPT ![q] =
           [IdleRequest EXCEPT !.pc = "lookup", !.from = socket[adr], !.addr = adr]]
  BY DEF Arrive, TrackerTypeOK, OsTypeOK
<1>2. /\ request'[q].pc = "lookup" /\ request'[q].from = socket[adr]
      /\ request'[q].addr = adr
      /\ \A r \in Requests \ {q} : request'[r] = request[r]
      /\ RequestTypeOK'
  BY <1>1 DEF TrackerTypeOK, RequestTypeOK, RequestStates, IdleRequest
<1>3. TrackerTypeOK'
  BY <1>1, <1>2 DEF TrackerTypeOK, OsTypeOK, TablesTypeOK, RecordsTypeOK, tracker
<1>4. WorldInv'
  <2>1. SocketsAreHeld'
    BY <1>1 DEF WorldInv, SocketsAreHeld
  <2>2. DeadHaveLeft'
    BY <1>1, <1>2 DEF WorldInv, DeadHaveLeft, SocketsAreHeld, Busy
  <2>3. RequestsHaveSenders'
    BY <1>1, <1>2 DEF WorldInv, RequestsHaveSenders, Busy
  <2> QED
    BY <2>1, <2>2, <2>3 DEF WorldInv
<1>5. TablesInv'
  BY <1>1, <1>2 DEF TablesInv, ResolvedIsSender, Tables, SeenIsDead,
                    OthersTookOver, tracker
<1>6. OwnedInv'
  BY <1>1, <1>2 DEF OwnedInv, AttributedAreOwned, StoredAreOwned, OwnedBy,
                    tracker
<1> QED
  BY <1>3, <1>4, <1>5, <1>6

-----------------------------------------------------------------------------
(* Steps of a watcher *)

LEMMA SeeExitStep ==
  ASSUME TrackerInv, NEW pid \in Pids, SeeExit(pid)
  PROVE  TrackerInv'
<1> USE DEF TrackerInv
<1>1. /\ UNCHANGED <<stage, socket, connOf, conn, pidConns, nextConn, evicting,
                     request, stored, takenOver>>
      /\ watcher[pid] = "polling" /\ ~Alive(pid)
      /\ watcher' = [watcher EXCEPT ![pid] = "sawExit"]
  BY DEF SeeExit
<1>2. TrackerTypeOK'
  BY <1>1 DEF TrackerTypeOK, OsTypeOK, TablesTypeOK, RecordsTypeOK, RequestTypeOK
<1>3. WorldInv'
  BY <1>1 DEF WorldInv, SocketsAreHeld, DeadHaveLeft, RequestsHaveSenders, Busy
<1>4. TablesInv'
  <2>1. \A p \in Pids : (watcher'[p] = "none") = (watcher[p] = "none")
    BY <1>1 DEF TrackerTypeOK, TablesTypeOK
  <2>2. ResolvedIsSender'
    BY <1>1 DEF TablesInv, ResolvedIsSender
  <2>3. Tables'
    BY <1>1, <2>1 DEF TablesInv, Tables, TrackerTypeOK, TablesTypeOK
  <2>4. SeenIsDead'
    BY <1>1 DEF TablesInv, SeenIsDead, TrackerTypeOK, TablesTypeOK,
                Alive, OsTypeOK, Pids
  <2>5. OthersTookOver'
    BY <1>1 DEF TablesInv, OthersTookOver
  <2> QED
    BY <2>2, <2>3, <2>4, <2>5 DEF TablesInv
<1>5. OwnedInv'
  BY <1>1 DEF OwnedInv, AttributedAreOwned, StoredAreOwned, OwnedBy
<1> QED
  BY <1>2, <1>3, <1>4, <1>5

LEMMA UntrackStep ==
  ASSUME TrackerInv, NEW pid \in Pids, Untrack(pid)
  PROVE  TrackerInv'
<1> USE DEF TrackerInv
<1> DEFINE gone == pidConns[pid]
<1>1. /\ UNCHANGED <<stage, socket, nextConn, request, stored, takenOver>>
      /\ watcher[pid] = "sawExit"
      /\ watcher' = [watcher EXCEPT ![pid] = "none"]
      /\ pidConns' = [pidConns EXCEPT ![pid] = {}]
      /\ evicting' = evicting \cup gone
  BY DEF Untrack
<1>2. /\ DOMAIN connOf' = DOMAIN connOf \ {conn[c].addr : c \in gone}
      /\ \A x \in DOMAIN connOf' : connOf'[x] = connOf[x]
      /\ DOMAIN conn' = DOMAIN conn \ gone
      /\ \A c \in DOMAIN conn' : conn'[c] = conn[c]
  BY DEF Untrack, Restrict
<1>3. /\ gone \subseteq ConnIDs /\ pidConns'[pid] = {} /\ watcher'[pid] = "none"
      /\ \A x \in Pids \ {pid} : pidConns'[x] = pidConns[x] /\ watcher'[x] = watcher[x]
      /\ \A c \in gone : c \in DOMAIN conn /\ conn[c].pid = pid
  BY <1>1 DEF TrackerTypeOK, TablesTypeOK, TablesInv, Tables
<1> HIDE DEF gone
<1>4. TrackerTypeOK'
  <2>1. TablesTypeOK'
    BY <1>1, <1>2, <1>3 DEF TrackerTypeOK, TablesTypeOK
  <2> QED
    BY <1>1, <2>1 DEF TrackerTypeOK, OsTypeOK, RequestTypeOK, RecordsTypeOK
<1>5. WorldInv'
  BY <1>1 DEF WorldInv, SocketsAreHeld, DeadHaveLeft, RequestsHaveSenders, Busy
<1>6. Tables'
  <2>1. \A adr \in DOMAIN connOf' :
          connOf'[adr] \in DOMAIN conn' /\ conn'[connOf'[adr]].addr = adr
    BY <1>2 DEF TablesInv, Tables
  <2>2. \A c \in DOMAIN conn' :
          conn'[c].addr \in DOMAIN connOf' /\ connOf'[conn'[c].addr] = c
    BY <1>2, <1>3 DEF TablesInv, Tables
  <2>3. \A c \in DOMAIN conn' :
          c \in pidConns'[conn'[c].pid] /\ watcher'[conn'[c].pid] # "none"
    <3> SUFFICES ASSUME NEW c \in DOMAIN conn, c \notin gone
                 PROVE  c \in pidConns'[conn[c].pid] /\ watcher'[conn[c].pid] # "none"
      BY <1>2
    <3>1. conn[c].pid \in Pids /\ c \in pidConns[conn[c].pid]
          /\ watcher[conn[c].pid] # "none"
      BY DEF TablesInv, Tables, TrackerTypeOK, TablesTypeOK
    <3>2. conn[c].pid # pid
      BY <3>1 DEF gone
    <3> QED
      BY <1>3, <3>1, <3>2
  <2>4. \A x \in Pids : \A c \in pidConns'[x] : c \in DOMAIN conn' /\ conn'[c].pid = x
    BY <1>2, <1>3 DEF TablesInv, Tables
  <2>5. /\ \A c \in DOMAIN conn' : c <= nextConn'
        /\ \A c \in evicting' : c <= nextConn' /\ c \notin DOMAIN conn'
    BY <1>1, <1>2, <1>3 DEF TablesInv, Tables
  <2> QED
    BY <2>1, <2>2, <2>3, <2>4, <2>5 DEF Tables
<1>7. TablesInv'
  <2>1. ResolvedIsSender'
    BY <1>1 DEF TablesInv, ResolvedIsSender
  <2>2. SeenIsDead'
    BY <1>1, <1>3 DEF TablesInv, SeenIsDead
  <2>3. OthersTookOver'
    BY <1>1, <1>2 DEF TablesInv, OthersTookOver
  <2> QED
    BY <1>6, <2>1, <2>2, <2>3 DEF TablesInv
<1>8. stage[pid] = "dead"
  BY <1>1 DEF TablesInv, SeenIsDead
<1>9. AttributedAreOwned'
  <2> SUFFICES ASSUME NEW q \in Requests, request[q].pc = "store"
               PROVE  OwnedBy(request[q].conn, request[q].from, request[q].left)'
    BY <1>1 DEF AttributedAreOwned
  <2>1. OwnedBy(request[q].conn, request[q].from, request[q].left) /\ request[q].from \in Procs
    BY DEF OwnedInv, AttributedAreOwned, WorldInv, RequestsHaveSenders, Busy
  <2>2. request[q].from = pid => request[q].left
    BY <1>8 DEF WorldInv, DeadHaveLeft, Busy
  <2> QED
    BY <1>1, <1>3, <2>1, <2>2 DEF OwnedBy, Pids
<1>10. StoredAreOwned'
  <2> SUFFICES ASSUME NEW rec \in stored
               PROVE  \/ OwnedBy(rec.conn, rec.from, rec.left)'
                      \/ rec.conn \in evicting' /\ stage'[rec.from] = "dead"
    BY <1>1 DEF StoredAreOwned
  <2>1. /\ \/ OwnedBy(rec.conn, rec.from, rec.left)
           \/ rec.conn \in evicting /\ stage[rec.from] = "dead"
        /\ rec.from \in Procs
    BY DEF OwnedInv, StoredAreOwned, TrackerTypeOK, RecordsTypeOK
  <2>2. CASE rec.from = pid
    BY <1>1, <1>8, <2>1, <2>2 DEF OwnedBy, gone
  <2>3. CASE rec.from # pid
    BY <1>1, <1>3, <2>1, <2>3 DEF OwnedBy, Pids
  <2> QED
    BY <2>2, <2>3
<1> QED
  BY <1>4, <1>5, <1>7, <1>9, <1>10 DEF OwnedInv

LEMMA EvictStoredStep ==
  ASSUME TrackerInv, NEW c \in ConnIDs, EvictStored(c)
  PROVE  TrackerInv'
<1> USE DEF TrackerInv
<1>1. /\ UNCHANGED <<stage, socket, tracker, request, takenOver>>
      /\ stored' = {rec \in stored : rec.conn # c}
      /\ evicting' = evicting \ {c}
  BY DEF EvictStored
<1>2. TrackerTypeOK'
  BY <1>1 DEF TrackerTypeOK, OsTypeOK, TablesTypeOK, RequestTypeOK, RecordsTypeOK,
              tracker
<1>3. WorldInv'
  BY <1>1 DEF WorldInv, SocketsAreHeld, DeadHaveLeft, RequestsHaveSenders, Busy
<1>4. TablesInv'
  BY <1>1 DEF TablesInv, ResolvedIsSender, Tables, SeenIsDead, OthersTookOver, tracker
<1>5. OwnedInv'
  BY <1>1 DEF OwnedInv, AttributedAreOwned, StoredAreOwned, OwnedBy, tracker
<1> QED
  BY <1>2, <1>3, <1>4, <1>5

-----------------------------------------------------------------------------
(* The theorems *)

LEMMA TrackerInitially ==
  ASSUME TrackerInit
  PROVE  TrackerInv
<1> USE TrackerAssumption DEF TrackerInit
<1>1. TrackerTypeOK
  BY DEF TrackerTypeOK, OsTypeOK, TablesTypeOK, RequestTypeOK, RecordsTypeOK,
         RequestStates, IdleRequest
<1>2. WorldInv
  BY DEF WorldInv, SocketsAreHeld, DeadHaveLeft, RequestsHaveSenders, Busy, IdleRequest
<1>3. TablesInv
  BY DEF TablesInv, ResolvedIsSender, Tables, SeenIsDead, OthersTookOver, IdleRequest
<1>4. OwnedInv
  BY DEF OwnedInv, AttributedAreOwned, StoredAreOwned, IdleRequest
<1> QED
  BY <1>1, <1>2, <1>3, <1>4 DEF TrackerInv

LEMMA TrackerStep ==
  ASSUME TrackerInv, [TrackerNext]_cvars
  PROVE  TrackerInv'
<1>1. CASE OsNext
  BY <1>1, OsTypeStep, OsWorldStep, OsTablesStep, OsOwnedStep DEF TrackerInv
<1>2. ASSUME NEW q \in Requests, RequestStep(q)
      PROVE  TrackerInv'
  BY <1>2, RequestWorldStep, RequestTablesStep, RequestOwnedStep DEF TrackerInv
<1>3. ASSUME NEW q \in Requests, NEW adr \in Addrs, Arrive(q, adr)
      PROVE  TrackerInv'
  BY <1>3, ArriveStep
<1>4. ASSUME NEW pid \in Pids, SeeExit(pid) \/ Untrack(pid)
      PROVE  TrackerInv'
  BY <1>4, SeeExitStep, UntrackStep
<1>5. ASSUME NEW c \in ConnIDs, EvictStored(c)
      PROVE  TrackerInv'
  BY <1>5, EvictStoredStep
<1>6. CASE UNCHANGED cvars
  <2> USE <1>6 DEF TrackerInv, cvars, tracker
  <2>1. TrackerTypeOK'
    BY DEF TrackerTypeOK, OsTypeOK, TablesTypeOK, RequestTypeOK, RecordsTypeOK
  <2>2. WorldInv'
    BY DEF WorldInv, SocketsAreHeld, DeadHaveLeft, RequestsHaveSenders, Busy
  <2>3. TablesInv'
    BY DEF TablesInv, ResolvedIsSender, Tables, SeenIsDead, OthersTookOver
  <2>4. OwnedInv'
    BY DEF OwnedInv, AttributedAreOwned, StoredAreOwned, OwnedBy
  <2> QED
    BY <2>1, <2>2, <2>3, <2>4
<1> QED
  BY <1>1, <1>2, <1>3, <1>4, <1>5, <1>6 DEF TrackerNext

\* Requests, watchers, evictions and the operating system keep the tables,
\* the requests in progress and the stored telemetry in step.
THEOREM TrackerInvariant == TrackerSpec => []TrackerInv
<1>1. TrackerInit => TrackerInv
  BY TrackerInitially
<1>2. TrackerInv /\ [TrackerNext]_cvars => TrackerInv'
  BY TrackerStep
<1> QED
  BY <1>1, <1>2, PTL DEF TrackerSpec

\* Every state of the tracker is well typed: identifiers come from the counter,
\* and a request is never attributed to a connection that was not created.
THEOREM TrackerTypeCorrect == TrackerSpec => []TrackerTypeOK
<1>1. TrackerInv => TrackerTypeOK
  BY DEF TrackerInv
<1> QED
  BY <1>1, TrackerInvariant, PTL

\* The tables of conntrack.go agree in every state, although resolving a request
\* lets go of the lock between looking an address up and registering it.
THEOREM TablesAlwaysAgree == TrackerSpec => []TablesAgree
<1>1. TrackerInv => TablesAgree
  BY DEF TrackerInv, TablesInv, Tables, TablesAgree
<1> QED
  BY <1>1, TrackerInvariant, PTL

\* Every attributed record has a watcher or an eviction that will come for it, but
\* for processes that exit under a request and addresses that change hands.
THEOREM EvictionAlwaysOwed == TrackerSpec => []EvictionIsOwed
<1>1. ASSUME TrackerInv
      PROVE  EvictionIsOwed
  <2> SUFFICES ASSUME NEW rec \in stored
               PROVE  \/ rec.conn = NoConn \/ ToBeEvicted(rec.conn)
                      \/ rec.left \/ rec.conn \in takenOver
    BY DEF EvictionIsOwed
  <2>1. rec.from \in Pids
    BY <1>1 DEF TrackerInv, TrackerTypeOK, RecordsTypeOK, Pids
  <2>2. OwnedBy(rec.conn, rec.from, rec.left) \/ rec.conn \in evicting
    BY <1>1 DEF TrackerInv, OwnedInv, StoredAreOwned
  <2>3. rec.conn \in pidConns[rec.from] => watcher[rec.from] # "none"
    BY <1>1, <2>1 DEF TrackerInv, TablesInv, Tables
  <2> QED
    BY <2>1, <2>2, <2>3 DEF OwnedBy, ToBeEvicted
<1> QED
  BY <1>1, TrackerInvariant, PTL

\* evictPID removes telemetry of dead processes only, unless a socket took over
\* the address of a connection that was still tracked.
THEOREM LivingAreSpared == TrackerSpec => SparedUnlessTakenOver
<1> DEFINE Spared ==
             \A rec \in stored \ stored' :
               stage[rec.from] = "dead" \/ rec.conn \in takenOver \/ rec.left
<1>1. ASSUME TrackerInv, [TrackerNext]_cvars
      PROVE  [Spared]_cvars
  <2> SUFFICES ASSUME NEW rec \in stored, rec \notin stored'
               PROVE  stage[rec.from] = "dead" \/ rec.conn \in takenOver \/ rec.left
    OBVIOUS
  <2>1. PICK c \in ConnIDs : EvictStored(c)
    BY <1>1 DEF TrackerNext, OsNext, Launch, Exit, OpenSocket, CloseSocket, Arrive,
                RequestStep, Lookup, Resolve, Originating, Register, StoreTelemetry, SeeExit,
                Untrack, cvars
  <2>2. rec.conn = c /\ c \in evicting
    BY <2>1 DEF EvictStored
  <2>3. rec.from \in Pids /\ rec.conn # NoConn
    BY <1>1, <2>2 DEF TrackerInv, TrackerTypeOK, RecordsTypeOK, Pids, ConnIDs, NoConn
  <2>4. rec.conn \notin pidConns[rec.from]
    BY <1>1, <2>2, <2>3 DEF TrackerInv, TablesInv, Tables
  <2> QED
    BY <1>1, <2>3, <2>4 DEF TrackerInv, OwnedInv, StoredAreOwned, OwnedBy
<1> QED
  BY <1>1, TrackerInvariant, PTL DEF TrackerSpec, SparedUnlessTakenOver
=============================================================================
