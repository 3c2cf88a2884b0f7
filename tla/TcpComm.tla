------------------------------ MODULE TcpComm ------------------------------
(***************************************************************************)
(* The life of connections: TCPComm (net/src/tcp_comm.cc) over its         *)
(* ConnectionPool (net/src/connection_pool.cc) and the socket event        *)
(* handlers of net/src/connection.cc, without SSL and without an event     *)
(* loop group.  User threads connect, disconnect and send, the send loop   *)
(* runs the tasks of asynchronous sends, the receive loop runs the         *)
(* handlers of sockets.                                                    *)
(*                                                                         *)
(* conn_mutex_ serialises Connect, Disconnect and the removal of a broken  *)
(* connection; the conn_owned_mutex_ of a connection covers the end of     *)
(* SocketEventHandler; its mutex_ covers reading and writing.  A step runs *)
(* from one lock to the next.  A thread whose next step uses a deleted     *)
(* connection is Undefined and takes no further step; where the use may do *)
(* no harm (an unlock), going on is the other outcome.                     *)
(***************************************************************************)
EXTENDS Integers, Sequences, FiniteSets

CONSTANTS
  Users,     \* threads that call TCPComm
  Urls,      \* addresses to connect to
  Peers,     \* addresses connections are accepted from
  Ports,     \* local addresses the system gives to connecting sockets
  Conns,     \* Connection objects that may be created
  MaxCalls,  \* bound on the users' calls
  MaxTasks   \* bound on the send loop's queue

ASSUME CommAssumption ==
  /\ {MaxCalls, MaxTasks} \subseteq Nat
  /\ Urls \cap Peers = {}

VARIABLES
  conns,       \* the Connection objects
  pool,        \* connections_
  conn_mutex,  \* holder of conn_mutex_
  pc,          \* what each thread is doing
  cur,         \* the connection it has in hand
  hup,         \* the event the receive loop handles reports a broken link
  target,      \* the address of the user's call
  tasks,       \* task_queue_ of the send loop: addresses to send to
  batch,       \* tasks QueueReadyCallback has taken from it
  calls        \* calls so far

vars == <<conns, pool, conn_mutex, pc, cur, hup, target, tasks, batch, calls>>

RecvLoop == <<"recv loop">>
SendLoop == <<"send loop">>
Threads  == Users \cup {RecvLoop, SendLoop}
Senders  == Users \cup {SendLoop}
Nobody   == <<"nobody">>
NoConn   == <<"no connection">>
NoUrl    == <<"no url">>
Dsts     == Urls \cup Peers
OwnUrl   == <<"url_">>
NoPort   == <<"no source">>

ASSUME NamesAssumption ==
  /\ Users \cap {RecvLoop, SendLoop, Nobody} = {}
  /\ NoConn \notin Conns
  /\ NoUrl \notin Dsts
  /\ Ports \cap {OwnUrl, NoPort} = {}

\* An object not yet allocated.
NoObject ==
  [life |-> "none", state |-> "kInit", source |-> NoPort, destination |-> NoUrl,
   handler |-> "none", link |-> "down", port |-> NoPort, info |-> FALSE,
   owned |-> Nobody, mutex |-> Nobody]

Fresh     == {c \in Conns : conns[c].life = "none"}
NewConn   == CHOOSE c \in Fresh : TRUE
Live(c)   == conns[c].life = "live"
Usable(t) == cur[t] # NoConn /\ Live(cur[t])

\* Thread t is done with what it did.
Idle(t) ==
  /\ pc' = [pc EXCEPT ![t] = "idle"]
  /\ cur' = [cur EXCEPT ![t] = NoConn]

At(t, place, c) ==
  /\ pc' = [pc EXCEPT ![t] = place]
  /\ cur' = [cur EXCEPT ![t] = c]

\* A lock_guard on the conn_owned_mutex_ of c ends after c was deleted: unlocking
\* memory that was freed may do no harm, or anything.
UnlockDeleted(t, c) == Idle(t) \/ At(t, "unlock", c)

\* A user begins a call.
Call(u, d) ==
  /\ pc[u] = "idle"
  /\ calls < MaxCalls
  /\ calls' = calls + 1
  /\ target' = [target EXCEPT ![u] = d]

-----------------------------------------------------------------------------
(* ConnectionPool.                                                         *)

\* The handler stays registered.
ClosedMutant(c) == [NoObject EXCEPT !.life = "deleted", !.handler = c.handler]

\* CloseConnection: forget the connection's infos, deregister its handler, close
\* the socket, delete the object.
Closed(c) == [NoObject EXCEPT !.life = "deleted"]

\* AddConnection of c, with the objects as in objs: the connection the pool has
\* for d is closed, and emplace leaves its entry as it is.
AddConnection(c, d, objs) ==
  IF pool[d] = NoConn
  THEN pool' = [pool EXCEPT ![d] = c] /\ conns' = objs
  ELSE conns' = [objs EXCEPT ![pool[d]] = Closed(@)] /\ UNCHANGED pool

\* DeleteConnection, with the objects as in objs: erase the entry, close what it
\* held.
DeleteConnection(d, objs) ==
  /\ pool' = [pool EXCEPT ![d] = NoConn]
  /\ conns' = IF pool[d] = NoConn THEN objs ELSE [objs EXCEPT ![pool[d]] = Closed(@)]

-----------------------------------------------------------------------------
(* Connect.                                                                *)

\* There is a connection already: AddConnInfo.
ConnectFound(u, d) ==
  /\ Call(u, d)
  /\ conn_mutex = Nobody
  /\ pool[d] # NoConn
  /\ conns' = [conns EXCEPT ![pool[d]].info = TRUE]
  /\ UNCHANGED <<pool, conn_mutex, pc, cur, tasks, batch, hup>>

\* The system refuses the socket or the connection: the object is deleted.
ConnectRefused(u, d) ==
  /\ Call(u, d)
  /\ conn_mutex = Nobody
  /\ pool[d] = NoConn
  /\ Fresh # {}
  /\ conns' = [conns EXCEPT ![NewConn].life = "deleted"]
  /\ UNCHANGED <<pool, conn_mutex, pc, cur, tasks, batch, hup>>

\* The local ports of open connections; that of a broken one may be given again.
PortsInUse == {conns[c].port : c \in {x \in Conns : Live(x) /\ conns[x].link # "down"}}

\* DoConnect up to SetConnectedHandler: the system picks the local port, and the
\* receive loop may see the socket now.
ConnectStarted(u, d) ==
  /\ Call(u, d)
  /\ conn_mutex = Nobody
  /\ pool[d] = NoConn
  /\ Fresh # {}
  /\ conn_mutex' = u
  /\ \E port \in Ports \ PortsInUse :
       conns' = [conns EXCEPT ![NewConn] =
                   [@ EXCEPT !.life = "live", !.handler = "connected",
                             !.link = "connecting", !.port = port]]
  /\ At(u, "connecting", NewConn)
  /\ UNCHANGED <<pool, tasks, batch, hup>>

\* The end of DoConnect writes the state, whatever the receive loop has made of
\* it meanwhile; then source and destination.
SetConnecting(u) ==
  /\ pc[u] = "connecting"
  /\ conns' = [conns EXCEPT ![cur[u]] =
                 [@ EXCEPT !.state = "kConnecting", !.source = conns[cur[u]].port,
                           !.destination = target[u]]]
  /\ At(u, "polling", cur[u])
  /\ UNCHANGED <<pool, conn_mutex, target, tasks, batch, calls, hup>>

\* The polling ends with the connection up: it goes to the pool.
ConnectDone(u) ==
  /\ pc[u] = "polling"
  /\ conns[cur[u]].state = "kConnected"
  /\ AddConnection(cur[u], target[u], [conns EXCEPT ![cur[u]].info = TRUE])
  /\ conn_mutex' = Nobody
  /\ Idle(u)
  /\ UNCHANGED <<target, tasks, batch, calls, hup>>

\* Three polls were not enough, or the connection broke: Connect returns false
\* and nothing refers to the object but the receive loop's handler.
ConnectGivesUp(u) ==
  /\ pc[u] = "polling"
  /\ conns[cur[u]].state # "kConnected"
  /\ conn_mutex' = Nobody
  /\ Idle(u)
  /\ UNCHANGED <<conns, pool, target, tasks, batch, calls, hup>>

-----------------------------------------------------------------------------
(* Disconnect.                                                             *)

\* Disconnect up to its lock.  It asks for both loops to have tasks before it
\* waits, and the receive loop never has any: with tasks queued it returns false
\* at once, and a batch already taken does not count.
DisconnectBegins(u, d) ==
  /\ Call(u, d)
  /\ tasks = <<>>
  /\ At(u, "disconnect", NoConn)
  /\ UNCHANGED <<conns, pool, conn_mutex, tasks, batch, hup>>

DisconnectFind(u) ==
  /\ pc[u] = "disconnect"
  /\ conn_mutex = Nobody
  /\ IF pool[target[u]] = NoConn
     THEN Idle(u) /\ UNCHANGED conn_mutex
     ELSE At(u, "delete", pool[target[u]]) /\ conn_mutex' = u
  /\ UNCHANGED <<conns, pool, target, tasks, batch, calls, hup>>

\* Does not wait for the end of a handler.
DisconnectDeleteMutant(u) ==
  /\ pc[u] = "delete"
  /\ Usable(u)
  /\ DeleteConnection(target[u], conns)
  /\ UnlockDeleted(u, cur[u])
  /\ conn_mutex' = IF pc'[u] = "idle" THEN Nobody ELSE u
  /\ UNCHANGED <<target, tasks, batch, calls, hup>>

\* Locked, it deletes the connection with the lock in it; then it unlocks that,
\* and conn_mutex_ last.
DisconnectDelete(u) ==
  /\ pc[u] = "delete"
  /\ Usable(u)
  /\ conns[cur[u]].owned = Nobody
  /\ DeleteConnection(target[u], conns)
  /\ UnlockDeleted(u, cur[u])
  /\ conn_mutex' = IF pc'[u] = "idle" THEN Nobody ELSE u
  /\ UNCHANGED <<target, tasks, batch, calls, hup>>

-----------------------------------------------------------------------------
(* Send.                                                                   *)

\* FindConnection, with no lock but the pool's own: the message is dropped when
\* there is no connection.
FindForSend(t, d) ==
  IF pool[d] = NoConn THEN Idle(t) ELSE At(t, "send", pool[d])

Send(u, d) ==
  /\ Call(u, d)
  /\ FindForSend(u, d)
  /\ UNCHANGED <<conns, pool, conn_mutex, tasks, batch, hup>>

SendAsync(u, d) ==
  /\ Call(u, d)
  /\ Len(tasks) < MaxTasks
  /\ tasks' = Append(tasks, d)
  /\ UNCHANGED <<conns, pool, conn_mutex, pc, cur, batch, hup>>

\* QueueReadyCallback takes the queue.
TakeTasks ==
  /\ pc[SendLoop] = "idle"
  /\ batch = <<>> /\ tasks # <<>>
  /\ batch' = tasks
  /\ tasks' = <<>>
  /\ UNCHANGED <<conns, pool, conn_mutex, pc, cur, target, calls, hup>>

RunTask ==
  /\ pc[SendLoop] = "idle"
  /\ batch # <<>>
  /\ FindForSend(SendLoop, Head(batch))
  /\ batch' = Tail(batch)
  /\ UNCHANGED <<conns, pool, conn_mutex, target, tasks, calls, hup>>

\* Locked: a connection that is not up drops the message.
SendLocks(t) ==
  /\ pc[t] = "send"
  /\ Usable(t)
  /\ conns[cur[t]].mutex = Nobody
  /\ IF conns[cur[t]].state # "kConnected"
     THEN Idle(t) /\ UNCHANGED conns
     ELSE /\ At(t, "flush", cur[t])
          /\ conns' = [conns EXCEPT ![cur[t]].mutex = t]
  /\ UNCHANGED <<pool, conn_mutex, target, tasks, batch, calls, hup>>

\* A failed flush returns with the lock held.
FlushEndsMutant(t) ==
  /\ pc[t] = "flush"
  /\ Usable(t)
  /\ \E ok \in BOOLEAN :
       /\ ok \/ conns[cur[t]].link = "down"
       /\ conns' = [conns EXCEPT ![cur[t]] =
                      IF ok THEN [@ EXCEPT !.mutex = Nobody] ELSE [@ EXCEPT !.state = "kDisconnecting"]]
  /\ Idle(t)
  /\ UNCHANGED <<pool, conn_mutex, target, tasks, batch, calls, hup>>

\* Flush: fails on a broken link, which marks the connection.
FlushEnds(t) ==
  /\ pc[t] = "flush"
  /\ Usable(t)
  /\ \E ok \in BOOLEAN :
       /\ ok \/ conns[cur[t]].link = "down"
       /\ conns' = [conns EXCEPT ![cur[t]].mutex = Nobody,
                                 ![cur[t]].state = IF ok THEN @ ELSE "kDisconnecting"]
  /\ Idle(t)
  /\ UNCHANGED <<pool, conn_mutex, target, tasks, batch, calls, hup>>

-----------------------------------------------------------------------------
(* The receive loop.                                                       *)

\* The handler is gone before the new one is set.
ConnectedHandlerMutant(c) ==
  /\ pc[RecvLoop] = "idle"
  /\ conns[c].handler = "connected" /\ conns[c].link # "connecting"
  /\ IF conns[c].link = "up"
     THEN /\ conns' = [conns EXCEPT ![c] = [@ EXCEPT !.handler = "none", !.state = "kConnected"]]
          /\ UNCHANGED <<pc, cur>>
     ELSE /\ conns' = [conns EXCEPT ![c] = [@ EXCEPT !.handler = "none", !.state = "kDisconnecting"]]
          /\ At(RecvLoop, "event", c)
  /\ UNCHANGED <<pool, conn_mutex, target, tasks, batch, calls, hup>>

\* ConnectedEventHandler and ReconnectSourceSocket: the other handler, and the
\* connection is up; on an error no handler, and EventCallBack.
ConnectedHandler(c) ==
  /\ pc[RecvLoop] = "idle"
  /\ conns[c].handler = "connected" /\ conns[c].link # "connecting"
  /\ IF conns[c].link = "up"
     THEN /\ conns' = [conns EXCEPT ![c] = [@ EXCEPT !.handler = "socket", !.state = "kConnected"]]
          /\ UNCHANGED <<pc, cur>>
     ELSE /\ conns' = [conns EXCEPT ![c] = [@ EXCEPT !.handler = "none", !.state = "kDisconnecting"]]
          /\ At(RecvLoop, "event", c)
  /\ UNCHANGED <<pool, conn_mutex, target, tasks, batch, calls, hup>>

\* OnAccept.  There is one open connection at a time from a peer's address, but
\* the pool may still have the last one, broken.  Where AddConnection has kept an
\* entry whose object it deleted, the next one closes that object once more.
OnAccept(p) ==
  LET objs == [conns EXCEPT ![NewConn] =
                 [@ EXCEPT !.life = "live", !.handler = "accepted", !.link = "up",
                           !.source = OwnUrl, !.destination = p]]
  IN  /\ pc[RecvLoop] = "idle"
      /\ Fresh # {}
      /\ \A c \in Conns : Live(c) /\ conns[c].destination = p => conns[c].link = "down"
      /\ IF pool[p] # NoConn /\ ~ Live(pool[p])
         THEN At(RecvLoop, "stale", pool[p]) /\ conns' = objs /\ UNCHANGED pool
         ELSE AddConnection(NewConn, p, objs) /\ UNCHANGED <<pc, cur>>
      /\ UNCHANGED <<conn_mutex, target, tasks, batch, calls, hup>>

\* NewConnectEventHandler: the first event of an accepted connection.
NewConnectHandler(c) ==
  /\ pc[RecvLoop] = "idle"
  /\ conns[c].handler = "accepted"
  /\ conns' = [conns EXCEPT ![c] = [@ EXCEPT !.handler = "socket", !.state = "kConnected"]]
  /\ hup' = (conns[c].link = "down")
  /\ At(RecvLoop, "callbacks", c)
  /\ UNCHANGED <<pool, conn_mutex, target, tasks, batch, calls>>

\* SocketEventHandler is called: data, or a broken link.
SocketHandler(c) ==
  /\ pc[RecvLoop] = "idle"
  /\ conns[c].handler = "socket"
  /\ hup' = (conns[c].link = "down")
  /\ At(RecvLoop, "callbacks", c)
  /\ UNCHANGED <<conns, pool, conn_mutex, target, tasks, batch, calls>>

\* Its write and read callbacks, under mutex_: a read fails on a broken link.
Callbacks ==
  /\ pc[RecvLoop] = "callbacks"
  /\ Usable(RecvLoop)
  /\ conns[cur[RecvLoop]].mutex = Nobody
  /\ \E ok \in BOOLEAN :
       /\ ok \/ conns[cur[RecvLoop]].link = "down"
       /\ conns' = [conns EXCEPT ![cur[RecvLoop]].state = IF ok THEN @ ELSE "kDisconnecting"]
  /\ At(RecvLoop, "tail", cur[RecvLoop])
  /\ UNCHANGED <<pool, conn_mutex, target, tasks, batch, calls, hup>>

\* Its end, under conn_owned_mutex_: a connection that broke goes to
\* EventCallBack, and so does one whose event says so.
HandlerTail ==
  LET c == cur[RecvLoop]
  IN  /\ pc[RecvLoop] = "tail"
      /\ Usable(RecvLoop)
      /\ conns[c].owned = Nobody
      /\ IF hup \/ conns[c].state = "kDisconnecting"
         THEN /\ conns' = [conns EXCEPT ![c] =
                             [@ EXCEPT !.state = "kDisconnecting", !.owned = RecvLoop]]
              /\ At(RecvLoop, "event", c)
         ELSE Idle(RecvLoop) /\ UNCHANGED conns
      /\ hup' = FALSE
      /\ UNCHANGED <<pool, conn_mutex, target, tasks, batch, calls>>

\* What the pool has for the destination of the receive loop's connection.
Found ==
  LET d == conns[cur[RecvLoop]].destination IN IF d = NoUrl THEN NoConn ELSE pool[d]

\* EventCallBack of a broken connection begins.
EventBegins ==
  /\ pc[RecvLoop] = "event"
  /\ Usable(RecvLoop)
  /\ conn_mutex = Nobody
  /\ UNCHANGED <<target, tasks, batch, calls, hup>>

\* It reads the source of an object that AddConnection deleted.
EventStale ==
  /\ EventBegins
  /\ Found # NoConn /\ ~ Live(Found)
  /\ At(RecvLoop, "stale", Found)
  /\ conn_mutex' = RecvLoop
  /\ UNCHANGED <<conns, pool>>

\* There is none, or it has another source: nothing is deleted.
EventKeeps ==
  LET c == cur[RecvLoop]
  IN  /\ EventBegins
      /\ Found # NoConn => Live(Found) /\ conns[Found].source # conns[c].source
      /\ conns' = [conns EXCEPT ![c].owned = Nobody]
      /\ Idle(RecvLoop)
      /\ UNCHANGED <<pool, conn_mutex>>

\* The sources are equal: the pool's connection is deleted, which is another one
\* when the system gave a broken connection's port to it.  SocketEventHandler
\* then unlocks the conn_owned_mutex_ of its own.
EventDeletes ==
  LET c == cur[RecvLoop]
  IN  /\ EventBegins
      /\ Found # NoConn /\ Live(Found) /\ conns[Found].source = conns[c].source
      /\ DeleteConnection(conns[c].destination, [conns EXCEPT ![c].owned = Nobody])
      /\ IF Found = c /\ conns[c].owned = RecvLoop
         THEN UnlockDeleted(RecvLoop, c)
         ELSE Idle(RecvLoop)
      /\ UNCHANGED conn_mutex

EventCallBack == EventStale \/ EventKeeps \/ EventDeletes

\* The network, external.
LinkUp(c) ==
  /\ conns[c].link = "connecting"
  /\ conns' = [conns EXCEPT ![c].link = "up"]
  /\ UNCHANGED <<pool, conn_mutex, pc, cur, target, tasks, batch, calls, hup>>

LinkDown(c) ==
  /\ Live(c) /\ conns[c].link # "down"
  /\ conns' = [conns EXCEPT ![c].link = "down"]
  /\ UNCHANGED <<pool, conn_mutex, pc, cur, target, tasks, batch, calls, hup>>

-----------------------------------------------------------------------------
Init ==
  /\ conns = [c \in Conns |-> NoObject]
  /\ pool = [d \in Dsts |-> NoConn]
  /\ conn_mutex = Nobody
  /\ pc = [t \in Threads |-> "idle"]
  /\ cur = [t \in Threads |-> NoConn]
  /\ hup = FALSE
  /\ target = [u \in Users |-> NoUrl]
  /\ tasks = <<>> /\ batch = <<>>
  /\ calls = 0

\* TCPClient calls all of these; TCPServer only accepts.
Calls(u) ==
  \E d \in Urls :
    \/ ConnectFound(u, d) \/ ConnectRefused(u, d) \/ ConnectStarted(u, d)
    \/ DisconnectBegins(u, d) \/ Send(u, d) \/ SendAsync(u, d)

UserStep(u) ==
  \/ SetConnecting(u) \/ ConnectDone(u) \/ ConnectGivesUp(u)
  \/ DisconnectFind(u) \/ DisconnectDelete(u)
  \/ SendLocks(u) \/ FlushEnds(u)

SendLoopStep == TakeTasks \/ RunTask \/ SendLocks(SendLoop) \/ FlushEnds(SendLoop)

RecvLoopStep == Callbacks \/ HandlerTail \/ EventCallBack

Dispatch(c) == ConnectedHandler(c) \/ NewConnectHandler(c) \/ SocketHandler(c)

Next ==
  \/ \E u \in Users : Calls(u) \/ UserStep(u)
  \/ SendLoopStep
  \/ RecvLoopStep
  \/ \E c \in Conns : Dispatch(c) \/ LinkUp(c) \/ LinkDown(c)
  \/ \E p \in Peers : OnAccept(p)

\* Threads that can go on do (calls are finite, so a mutex somebody waits for is
\* free in the end); epoll reports every ready socket in turn, and a broken one
\* stays ready (level triggered).
Fairness ==
  /\ \A u \in Users : WF_vars(UserStep(u))
  /\ WF_vars(SendLoopStep)
  /\ WF_vars(RecvLoopStep)
  /\ \A c \in Conns : SF_vars(Dispatch(c))

Spec == Init /\ [][Next]_vars /\ Fairness
-----------------------------------------------------------------------------
(* Correctness.                                                            *)

\* Every variable has its type.
TypeOK ==
  /\ conns \in [Conns -> [life : {"none", "live", "deleted"},
                          state : {"kInit", "kConnecting", "kConnected", "kDisconnecting"},
                          source : Ports \cup {OwnUrl, NoPort},
                          destination : Dsts \cup {NoUrl},
                          handler : {"none", "connected", "accepted", "socket"},
                          link : {"connecting", "up", "down"},
                          port : Ports \cup {NoPort},
                          info : BOOLEAN,
                          owned : {Nobody, RecvLoop},
                          mutex : Senders \cup {Nobody}]]
  /\ pool \in [Dsts -> Conns \cup {NoConn}]
  /\ conn_mutex \in Users \cup {RecvLoop, Nobody}
  /\ cur \in [Threads -> Conns \cup {NoConn}]
  /\ hup \in BOOLEAN
  /\ target \in [Users -> Dsts \cup {NoUrl}]
  /\ {tasks, batch} \subseteq Seq(Dsts)
  /\ calls \in 0 .. MaxCalls

\* Thread t would use a deleted connection.
Undefined(t) == cur[t] # NoConn /\ ~ Live(cur[t])

\* Disconnect holds conn_mutex_ and waits for the connection's owned mutex, the
\* handler holds that and waits for conn_mutex_.
LockCycle ==
  \E u \in Users : pc[u] = "delete" /\ conns[cur[u]].owned = RecvLoop /\ pc[RecvLoop] = "event"

Stuck == LockCycle \/ \E t \in Threads : Undefined(t)

Pooled(c) == \E d \in Dsts : pool[d] = c

\* conn_mutex_ and conn_owned_mutex_ do protect: nothing deletes a connection under
\* Connect, under Disconnect between finding and deleting it, or under
\* EventCallBack.  A deleted one is used by a send or by the callbacks of its
\* handler, which have neither lock; by the unlock of conn_owned_mutex_ in the
\* thread that deleted it; and by the receive loop, through the entry of a peer.
LocksProtect ==
  \A t \in Threads : Undefined(t) =>
    \/ pc[t] \in {"send", "flush", "callbacks", "tail"}
    \/ pc[t] = "unlock" /\ ~ Pooled(cur[t])
    \/ pc[t] = "stale" /\ t = RecvLoop /\ \E p \in Peers : pool[p] = cur[t]

\* What can hand out a connection refers to live objects: the entries of addresses
\* connected to, each under its own destination and watched by the receive loop,
\* the handlers in epoll and the infos.  So do the entries of peers, but for one:
\* after a peer's port was reused, when the connection that has it now is live
\* outside the pool.
ReferencesLive ==
  /\ \A d \in Dsts : pool[d] # NoConn =>
       \/ /\ Live(pool[d])
          /\ conns[pool[d]].destination = d
          /\ conns[pool[d]].handler \in {"accepted", "socket"}
       \/ /\ d \in Peers /\ ~ Live(pool[d])
          /\ \E c \in Conns : Live(c) /\ conns[c].destination = d /\ ~ Pooled(c)
  /\ \A c \in Conns : conns[c].handler # "none" \/ conns[c].info => Live(c)

\* An accepted connection is in the pool (tcp_comm.cc:107: "This new connection
\* will be added to connection pool.").
AcceptedArePooled ==
  \A c \in Conns : Live(c) /\ conns[c].source = OwnUrl => Pooled(c)

\* A pooled connection that breaks is deleted, unless threads are stuck.
BrokenIsRemoved ==
  \A c \in Conns :
    Pooled(c) /\ Live(c) /\ conns[c].link = "down" ~> ~ Live(c) \/ Stuck

\* Connect, Disconnect and Send return, unless threads are stuck.
CallsReturn ==
  \A u \in Users : pc[u] # "idle" ~> pc[u] = "idle" \/ Stuck
=============================================================================
