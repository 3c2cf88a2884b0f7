--------------------------- MODULE TcpCommProofs ----------------------------
(***************************************************************************)
(* Proofs about the TCP communicator and the client on top of it.          *)
(*                                                                         *)
(* TcpComm, for any threads, addresses and connections and any number of   *)
(* calls: type correctness, that conn_mutex_ and conn_owned_mutex_ protect *)
(* Connect, Disconnect and EventCallBack, and that the pool, the handlers  *)
(* and the infos refer to live connections only, but for the entry of a    *)
(* peer whose port was reused.                                             *)
(*                                                                         *)
(* TcpClient, for any number of requests and timeouts, when one thread at  *)
(* a time calls ReceiveSync: how late a reply may be, that no reply is     *)
(* returned twice, and that the two threads block each other only after a  *)
(* timeout.  (With two callers waiting together the calls do not own their *)
(* replies, and nothing in the code matches them.)                         *)
(***************************************************************************)
EXTENDS TcpComm, TcpClient, SequenceTheorems, TLAPS

-----------------------------------------------------------------------------
(* Type correctness.                                                       *)

UserPc == {"idle", "connecting", "polling", "disconnect", "delete", "unlock", "send",
           "flush"}
SendPc == {"idle", "send", "flush"}
RecvPc == {"idle", "callbacks", "tail", "event", "unlock", "stale"}

\* What each thread may be doing, and on what.
PcOK ==
  /\ pc \in [Threads -> UserPc \cup SendPc \cup RecvPc]
  /\ \A u \in Users : pc[u] \in UserPc
  /\ pc[SendLoop] \in SendPc
  /\ pc[RecvLoop] \in RecvPc

\* The fields of a Connection.
Object ==
  [life : {"none", "live", "deleted"},
   state : {"kInit", "kConnecting", "kConnected", "kDisconnecting"},
   source : Ports \cup {OwnUrl, NoPort},
   destination : Dsts \cup {NoUrl},
   handler : {"none", "connected", "accepted", "socket"},
   link : {"connecting", "up", "down"},
   port : Ports \cup {NoPort},
   info : BOOLEAN,
   owned : {Nobody, RecvLoop},
   mutex : Senders \cup {Nobody}]

LEMMA Names ==
  /\ RecvLoop \in Threads /\ SendLoop \in Threads /\ Users \subseteq Threads
  /\ RecvLoop # SendLoop /\ RecvLoop # Nobody /\ SendLoop # Nobody
  /\ \A u \in Users : u # RecvLoop /\ u # SendLoop /\ u # Nobody
  /\ NoConn \notin Conns /\ NoUrl \notin Dsts
  /\ Urls \subseteq Dsts /\ Peers \subseteq Dsts
  BY NamesAssumption DEF NamesAssumption, Threads, RecvLoop, SendLoop, Nobody, Dsts

LEMMA NewConnFresh == Fresh # {} => NewConn \in Fresh
  BY DEF NewConn

LEMMA ObjectTypes == NoObject \in Object /\ Closed(NoObject) \in Object
  BY DEF NoObject, Object, Closed

LEMMA ConnsType == TypeOK => conns \in [Conns -> Object]
  BY DEF TypeOK, Object

\* The updates of an object that the actions make.
LEMMA Updates ==
  ASSUME NEW o \in Object
  PROVE  /\ [o EXCEPT !.info = TRUE] \in Object
         /\ [o EXCEPT !.life = "deleted"] \in Object
         /\ \A p \in Ports :
              [o EXCEPT !.life = "live", !.handler = "connected", !.link = "connecting",
                        !.port = p] \in Object
         /\ \A d \in Dsts :
              [o EXCEPT !.state = "kConnecting", !.source = o.port, !.destination = d]
                \in Object
         /\ \A d \in Dsts :
              [o EXCEPT !.life = "live", !.handler = "accepted", !.link = "up",
                        !.source = OwnUrl, !.destination = d] \in Object
         /\ \A t \in Senders \cup {Nobody} : [o EXCEPT !.mutex = t] \in Object
         /\ [o EXCEPT !.mutex = Nobody, !.state = o.state] \in Object
         /\ [o EXCEPT !.mutex = Nobody, !.state = "kDisconnecting"] \in Object
         /\ [o EXCEPT !.handler = "socket", !.state = "kConnected"] \in Object
         /\ [o EXCEPT !.handler = "none", !.state = "kDisconnecting"] \in Object
         /\ [o EXCEPT !.state = "kDisconnecting"] \in Object
         /\ [o EXCEPT !.state = "kDisconnecting", !.owned = RecvLoop] \in Object
         /\ [o EXCEPT !.owned = Nobody] \in Object
         /\ [o EXCEPT !.link = "up"] \in Object
         /\ [o EXCEPT !.link = "down"] \in Object
         /\ Closed(o) \in Object
<1>1. [o EXCEPT !.info = TRUE] \in Object
  BY DEF Object
<1>2. [o EXCEPT !.life = "deleted"] \in Object
  BY DEF Object
<1>3. \A p \in Ports : [o EXCEPT !.life = "live", !.handler = "connected",
                                !.link = "connecting", !.port = p] \in Object
  BY DEF Object
<1>4. \A d \in Dsts : [o EXCEPT !.state = "kConnecting", !.source = o.port,
                               !.destination = d] \in Object
  BY DEF Object
<1>5. \A d \in Dsts : [o EXCEPT !.life = "live", !.handler = "accepted", !.link = "up",
                               !.source = OwnUrl, !.destination = d] \in Object
  BY DEF Object
<1>6. \A t \in Senders \cup {Nobody} : [o EXCEPT !.mutex = t] \in Object
  BY DEF Object
<1>7. [o EXCEPT !.mutex = Nobody, !.state = o.state] \in Object
  BY DEF Object
<1>8. [o EXCEPT !.mutex = Nobody, !.state = "kDisconnecting"] \in Object
  BY DEF Object
<1>9. [o EXCEPT !.handler = "socket", !.state = "kConnected"] \in Object
  BY DEF Object
<1>10. [o EXCEPT !.handler = "none", !.state = "kDisconnecting"] \in Object
  BY DEF Object
<1>11. [o EXCEPT !.state = "kDisconnecting"] \in Object
  BY DEF Object
<1>12. [o EXCEPT !.state = "kDisconnecting", !.owned = RecvLoop] \in Object
  BY DEF Object
<1>13. [o EXCEPT !.owned = Nobody] \in Object
  BY DEF Object
<1>14. [o EXCEPT !.link = "up"] \in Object
  BY DEF Object
<1>15. [o EXCEPT !.link = "down"] \in Object
  BY DEF Object
<1>16. Closed(o) \in Object
  BY DEF Object, Closed, NoObject
<1> QED
  BY <1>1, <1>2, <1>3, <1>4, <1>5, <1>6, <1>7, <1>8, <1>9, <1>10, <1>11, <1>12, <1>13, <1>14, <1>15, <1>16

LEMMA OneObject ==
  ASSUME NEW f \in [Conns -> Object], NEW k \in Conns, NEW o \in Object
  PROVE  [f EXCEPT ![k] = o] \in [Conns -> Object]
  OBVIOUS

LEMMA InitTypes == Init => TypeOK /\ PcOK
<1> SUFFICES ASSUME Init PROVE TypeOK /\ PcOK
  OBVIOUS
<1>1. conns \in [Conns -> Object]
  BY ObjectTypes DEF Init
<1>2. hup \in BOOLEAN
  BY Zenon DEF Init
<1>3. PcOK
  BY Names DEF Init, PcOK, UserPc, SendPc, RecvPc
<1>4. {tasks, batch} \subseteq Seq(Dsts) /\ calls \in 0 .. MaxCalls
  BY CommAssumption DEF Init, CommAssumption
<1>5. /\ pool \in [Dsts -> Conns \cup {NoConn}]
      /\ conn_mutex \in Users \cup {RecvLoop, Nobody}
      /\ cur \in [Threads -> Conns \cup {NoConn}]
      /\ target \in [Users -> Dsts \cup {NoUrl}]
  BY DEF Init
<1> QED
  BY <1>1, <1>2, <1>3, <1>4, <1>5 DEF TypeOK, Object

\* A user's call keeps the types.
LEMMA CallsTypes ==
  ASSUME TypeOK, PcOK, NEW u \in Users, Calls(u)
  PROVE  TypeOK' /\ PcOK'
<1> USE Names, NewConnFresh
<1>0. PICK d \in Urls :
        \/ ConnectFound(u, d) \/ ConnectRefused(u, d) \/ ConnectStarted(u, d)
        \/ DisconnectBegins(u, d) \/ Send(u, d) \/ SendAsync(u, d)
  BY DEF Calls
<1>a. Call(u, d) /\ hup' = hup /\ batch' = batch /\ pool' = pool
  BY <1>0 DEF ConnectFound, ConnectRefused, ConnectStarted, DisconnectBegins, Send,
              SendAsync
<1>1. calls' \in 0 .. MaxCalls /\ target' \in [Users -> Dsts \cup {NoUrl}]
  BY <1>a, CommAssumption DEF Call, TypeOK, CommAssumption
<1>2. conns' \in [Conns -> Object]
  <2>0. conns \in [Conns -> Object]
    BY ConnsType
  <2>1. CASE ConnectFound(u, d)
    BY <2>0, <2>1, Updates DEF ConnectFound, TypeOK
  <2>2. CASE ConnectRefused(u, d)
    BY <2>0, <2>2, Updates DEF ConnectRefused, Fresh
  <2>3. CASE ConnectStarted(u, d)
    <3>1. NewConn \in Conns
      BY <2>3 DEF ConnectStarted, Fresh
    <3>2. PICK port \in Ports :
            conns' = [conns EXCEPT ![NewConn] =
                        [@ EXCEPT !.life = "live", !.handler = "connected",
                                  !.link = "connecting", !.port = port]]
      BY <2>3 DEF ConnectStarted
    <3> QED
      BY <2>0, <3>1, <3>2, Updates
  <2> QED
    BY <1>0, <2>0, <2>1, <2>2, <2>3 DEF DisconnectBegins, Send, SendAsync
<1>3. cur' \in [Threads -> Conns \cup {NoConn}] /\ PcOK'
  <2>1. CASE ConnectStarted(u, d)
    BY <2>1 DEF ConnectStarted, At, TypeOK, PcOK, UserPc, Fresh
  <2>2. CASE DisconnectBegins(u, d)
    BY <2>2 DEF DisconnectBegins, At, TypeOK, PcOK, UserPc
  <2>3. CASE Send(u, d)
    BY <2>3 DEF Send, FindForSend, Idle, At, TypeOK, PcOK, UserPc
  <2> QED
    BY <1>0, <2>1, <2>2, <2>3 DEF ConnectFound, ConnectRefused, SendAsync, PcOK, TypeOK
<1>4. conn_mutex' \in Users \cup {RecvLoop, Nobody}
  BY <1>0 DEF TypeOK, ConnectFound, ConnectRefused, ConnectStarted,
              DisconnectBegins, Send, SendAsync
<1>5. tasks' \in Seq(Dsts)
  <2>1. tasks' = tasks \/ tasks' = Append(tasks, d)
    BY <1>0 DEF ConnectFound, ConnectRefused, ConnectStarted, DisconnectBegins,
                Send, SendAsync
  <2>2. tasks \in Seq(Dsts) /\ d \in Dsts
    BY DEF TypeOK
  <2> QED
    BY <2>1, <2>2, AppendProperties
<1> QED
  BY <1>a, <1>1, <1>2, <1>3, <1>4, <1>5 DEF TypeOK, Object

\* A later step of a user's call or of the send loop keeps the types.
LEMMA SenderTypes ==
  ASSUME TypeOK, PcOK, NEW t \in Senders, SendLocks(t) \/ FlushEnds(t)
  PROVE  TypeOK' /\ PcOK'
<1> USE Names
<1>0. t \in Threads /\ conns \in [Conns -> Object] /\ cur[t] \in Conns
  BY ConnsType DEF SendLocks, FlushEnds, Usable, TypeOK, Senders, Threads
<1>1. conns' \in [Conns -> Object]
  <2> DEFINE o == conns[cur[t]]
  <2>0. /\ o \in Object
        /\ [o EXCEPT !.mutex = t] \in Object
        /\ [o EXCEPT !.mutex = Nobody, !.state = o.state] \in Object
        /\ [o EXCEPT !.mutex = Nobody, !.state = "kDisconnecting"] \in Object
    BY <1>0, Updates
  <2>1. CASE SendLocks(t)
    <3>1. conns' = conns \/ conns' = [conns EXCEPT ![cur[t]] = [o EXCEPT !.mutex = t]]
      BY <2>1 DEF SendLocks
    <3> QED
      BY <1>0, <2>0, <3>1
  <2>2. CASE FlushEnds(t)
    <3>1. PICK ok \in BOOLEAN :
            conns' = [conns EXCEPT ![cur[t]].mutex = Nobody,
                                   ![cur[t]].state = IF ok THEN @ ELSE "kDisconnecting"]
      BY <2>2 DEF FlushEnds
    <3> QED
      BY <1>0, <2>0, <3>1 DEF Object
  <2> QED
    BY <2>1, <2>2
<1>2. cur' \in [Threads -> Conns \cup {NoConn}]
  BY <1>0 DEF SendLocks, FlushEnds, Idle, At, TypeOK
<1>3. PcOK'
  BY <1>0 DEF SendLocks, FlushEnds, Idle, At, PcOK, UserPc, SendPc, Senders
<1>4. UNCHANGED <<pool, conn_mutex, target, tasks, batch, calls, hup>>
  BY DEF SendLocks, FlushEnds
<1> QED
  BY <1>1, <1>2, <1>3, <1>4 DEF TypeOK, Object

LEMMA UserTypes ==
  ASSUME TypeOK, PcOK, NEW u \in Users,
         \/ SetConnecting(u) /\ cur[u] \in Conns /\ target[u] \in Dsts
         \/ ConnectDone(u) /\ cur[u] \in Conns /\ target[u] \in Dsts
         \/ ConnectGivesUp(u)
         \/ DisconnectFind(u) /\ target[u] \in Dsts
         \/ DisconnectDelete(u) /\ target[u] \in Dsts
  PROVE  TypeOK' /\ PcOK'
<1> USE Names
<1>0. conns \in [Conns -> Object] /\ u \in Threads
  BY ConnsType
<1>1. conns' \in [Conns -> Object] /\ pool' \in [Dsts -> Conns \cup {NoConn}]
  <2>1. CASE SetConnecting(u) /\ cur[u] \in Conns /\ target[u] \in Dsts
    <3>1. [conns[cur[u]] EXCEPT !.state = "kConnecting", !.source = conns[cur[u]].port,
                                !.destination = target[u]] \in Object
      BY <1>0, <2>1, Updates
    <3> QED
      BY <1>0, <2>1, <3>1 DEF SetConnecting, TypeOK
  <2>2. CASE ConnectDone(u) /\ cur[u] \in Conns /\ target[u] \in Dsts
    <3>1. [conns EXCEPT ![cur[u]].info = TRUE] \in [Conns -> Object]
      BY <1>0, <2>2, Updates
    <3>2. \A o : Closed(o) \in Object
      BY Updates, ObjectTypes DEF Closed
    <3>3. pool[target[u]] \in Conns \cup {NoConn} /\ pool \in [Dsts -> Conns \cup {NoConn}]
      BY <2>2 DEF TypeOK
    <3> QED
      BY <2>2, <3>1, <3>2, <3>3 DEF ConnectDone, AddConnection
  <2>3. CASE DisconnectDelete(u) /\ target[u] \in Dsts
    <3>1. DeleteConnection(target[u], conns)
      BY <2>3 DEF DisconnectDelete
    <3> QED
      BY <1>0, <2>3, <3>1, Updates DEF DeleteConnection, TypeOK
  <2>4. CASE ConnectGivesUp(u) \/ DisconnectFind(u)
    BY <1>0, <2>4 DEF ConnectGivesUp, DisconnectFind, TypeOK
  <2> QED
    BY <2>1, <2>2, <2>3, <2>4
<1>2. cur' \in [Threads -> Conns \cup {NoConn}]
  BY <1>0 DEF SetConnecting, ConnectDone, ConnectGivesUp, DisconnectFind,
              DisconnectDelete, UnlockDeleted, Idle, At, TypeOK
<1>3. PcOK'
  BY <1>0 DEF SetConnecting, ConnectDone, ConnectGivesUp, DisconnectFind,
              DisconnectDelete, UnlockDeleted, Idle, At, PcOK, UserPc
<1>4. conn_mutex' \in Users \cup {RecvLoop, Nobody}
  BY DEF SetConnecting, ConnectDone, ConnectGivesUp, DisconnectFind,
         DisconnectDelete, TypeOK
<1>5. UNCHANGED <<target, tasks, batch, calls, hup>>
  BY DEF SetConnecting, ConnectDone, ConnectGivesUp, DisconnectFind,
         DisconnectDelete
<1> QED
  BY <1>1, <1>2, <1>3, <1>4, <1>5 DEF TypeOK, Object

\* A step of the receive loop or of the network keeps the types.
LEMMA RecvTypes ==
  ASSUME TypeOK, PcOK, NEW c \in Conns,
         \/ Callbacks \/ HandlerTail \/ EventCallBack
         \/ Dispatch(c) \/ LinkUp(c) \/ LinkDown(c)
         \/ \E p \in Peers : OnAccept(p)
  PROVE  TypeOK' /\ PcOK'
<1> USE Names, NewConnFresh
<1>0. conns \in [Conns -> Object]
  BY ConnsType
<1>a. \A o : Closed(o) \in Object
  BY Updates, ObjectTypes DEF Closed
<1>b. ASSUME Usable(RecvLoop) PROVE cur[RecvLoop] \in Conns
  BY <1>b DEF Usable, TypeOK
<1>1. conns' \in [Conns -> Object] /\ pool' \in [Dsts -> Conns \cup {NoConn}]
  <2>1. CASE Callbacks
    <3>1. PICK ok \in BOOLEAN :
            conns' = [conns EXCEPT ![cur[RecvLoop]].state =
                         IF ok THEN @ ELSE "kDisconnecting"]
      BY <2>1 DEF Callbacks
    <3>2. conns' \in [Conns -> Object]
      BY <1>0, <1>b, <2>1, <3>1 DEF Object, Callbacks
    <3> QED
      BY <2>1, <3>2 DEF Callbacks, TypeOK
  <2>2. CASE HandlerTail
    <3>1. cur[RecvLoop] \in Conns
      BY <1>b, <2>2 DEF HandlerTail
    <3>2. \/ conns' = conns
          \/ conns' = [conns EXCEPT ![cur[RecvLoop]] =
                         [@ EXCEPT !.state = "kDisconnecting", !.owned = RecvLoop]]
      BY <2>2 DEF HandlerTail
    <3>3. [conns[cur[RecvLoop]] EXCEPT !.state = "kDisconnecting", !.owned = RecvLoop]
            \in Object
      BY <1>0, <3>1, Updates
    <3>4. conns' \in [Conns -> Object]
      BY <1>0, <3>1, <3>2, <3>3
    <3> QED
      BY <2>2, <3>4 DEF HandlerTail, TypeOK
  <2>3. CASE EventCallBack
    <3> DEFINE k == cur[RecvLoop]
    <3>1. k \in Conns /\ conns[k] \in Object /\ conns[k].destination \in Dsts \cup {NoUrl}
      BY <1>0, <1>b, <2>3 DEF EventCallBack, EventStale, EventKeeps, EventDeletes,
                              EventBegins, Object
    <3>2. [conns EXCEPT ![k].owned = Nobody] \in [Conns -> Object]
      BY <1>0, <3>1, Updates
    <3>3. CASE EventStale
      BY <1>0, <3>3 DEF EventStale, TypeOK
    <3>4. CASE EventKeeps
      BY <3>2, <3>4 DEF EventKeeps, TypeOK
    <3>5. CASE EventDeletes
      <4>1. /\ conns[k].destination \in Dsts
            /\ DeleteConnection(conns[k].destination, [conns EXCEPT ![k].owned = Nobody])
        BY <3>1, <3>5 DEF EventDeletes, Found
      <4> QED
        BY <1>a, <3>2, <4>1 DEF DeleteConnection, TypeOK
    <3> QED
      BY <2>3, <3>3, <3>4, <3>5 DEF EventCallBack
  <2>4. CASE Dispatch(c) \/ LinkUp(c) \/ LinkDown(c)
    <3>1. pool' \in [Dsts -> Conns \cup {NoConn}]
      BY <2>4 DEF Dispatch, ConnectedHandler, NewConnectHandler, SocketHandler,
                  LinkUp, LinkDown, TypeOK
    <3>2. \/ conns' = conns
          \/ conns' = [conns EXCEPT ![c] = [@ EXCEPT !.handler = "socket", !.state = "kConnected"]]
          \/ conns' = [conns EXCEPT ![c] = [@ EXCEPT !.handler = "none", !.state = "kDisconnecting"]]
          \/ conns' = [conns EXCEPT ![c].link = "up"]
          \/ conns' = [conns EXCEPT ![c].link = "down"]
      BY <2>4 DEF Dispatch, ConnectedHandler, NewConnectHandler, SocketHandler,
                  LinkUp, LinkDown
    <3>3. /\ [conns[c] EXCEPT !.handler = "socket", !.state = "kConnected"] \in Object
          /\ [conns[c] EXCEPT !.handler = "none", !.state = "kDisconnecting"] \in Object
          /\ [conns[c] EXCEPT !.link = "up"] \in Object
          /\ [conns[c] EXCEPT !.link = "down"] \in Object
      BY <1>0, Updates
    <3>4. conns' \in [Conns -> Object]
      BY <1>0, <3>2, <3>3
    <3> QED
      BY <3>1, <3>4
  <2>5. ASSUME NEW p \in Peers, OnAccept(p)
        PROVE conns' \in [Conns -> Object] /\ pool' \in [Dsts -> Conns \cup {NoConn}]
    <3> DEFINE objs == [conns EXCEPT ![NewConn] =
                          [@ EXCEPT !.life = "live", !.handler = "accepted", !.link = "up",
                                    !.source = OwnUrl, !.destination = p]]
    <3>1. /\ NewConn \in Conns /\ p \in Dsts
          /\ \/ conns' = objs /\ pool' = pool
             \/ AddConnection(NewConn, p, objs)
      BY <2>5 DEF OnAccept, Fresh
    <3>2. objs \in [Conns -> Object]
      BY <1>0, <3>1, Updates
    <3> HIDE DEF objs
    <3>3. pool[p] \in Conns \cup {NoConn} /\ pool \in [Dsts -> Conns \cup {NoConn}]
      BY <3>1 DEF TypeOK
    <3>4. \/ conns' = objs /\ pool' = pool
          \/ conns' = objs /\ pool' = [pool EXCEPT ![p] = NewConn]
          \/ /\ pool[p] \in Conns /\ pool' = pool
             /\ conns' = [objs EXCEPT ![pool[p]] = Closed(@)]
      BY <3>1, <3>3 DEF AddConnection
    <3>5. CASE /\ pool[p] \in Conns /\ pool' = pool
               /\ conns' = [objs EXCEPT ![pool[p]] = Closed(@)]
      <4>1. Closed(objs[pool[p]]) \in Object
        BY <1>a
      <4>2. conns' = [objs EXCEPT ![pool[p]] = Closed(objs[pool[p]])]
        BY <3>5
      <4> QED
        BY <3>2, <3>3, <3>5, <4>1, <4>2, OneObject
    <3> QED
      BY <3>1, <3>2, <3>3, <3>4, <3>5
  <2> QED
    BY <2>1, <2>2, <2>3, <2>4, <2>5
<1>2. cur' \in [Threads -> Conns \cup {NoConn}] /\ PcOK'
  <2>1. CASE EventCallBack
    <3>1. cur[RecvLoop] \in Conns
      BY <1>b, <2>1 DEF EventCallBack, EventStale, EventKeeps, EventDeletes, EventBegins
    <3>2. Found \in Conns \cup {NoConn}
      BY <1>0, <3>1 DEF Found, Object, TypeOK
    <3>3. \/ Idle(RecvLoop)
          \/ \E k \in Conns \cup {NoConn} :
               At(RecvLoop, "stale", k) \/ At(RecvLoop, "unlock", k)
      BY <2>1, <3>1, <3>2
         DEF EventCallBack, EventStale, EventKeeps, EventDeletes, UnlockDeleted
    <3> QED
      BY <3>3 DEF At, Idle, TypeOK, PcOK, RecvPc
  <2>2. ASSUME NEW p \in Peers, OnAccept(p)
        PROVE  cur' \in [Threads -> Conns \cup {NoConn}] /\ PcOK'
    BY <2>2 DEF OnAccept, At, TypeOK, PcOK, RecvPc
  <2>3. CASE Callbacks \/ HandlerTail \/ Dispatch(c) \/ LinkUp(c) \/ LinkDown(c)
    <3>1. \/ pc' = pc /\ cur' = cur
          \/ Idle(RecvLoop)
          \/ \E k \in Conns : \E place \in {"callbacks", "tail", "event"} :
               At(RecvLoop, place, k)
      <4>1. CASE Callbacks
        BY <1>b, <4>1 DEF Callbacks
      <4>2. CASE HandlerTail
        BY <1>b, <4>2 DEF HandlerTail
      <4> QED
        BY <2>3, <4>1, <4>2 DEF Dispatch, ConnectedHandler, NewConnectHandler,
                                SocketHandler, LinkUp, LinkDown
    <3>2. cur' \in [Threads -> Conns \cup {NoConn}]
      BY <3>1 DEF At, Idle, TypeOK
    <3>3. pc' = pc \/ \E place \in RecvPc : pc' = [pc EXCEPT ![RecvLoop] = place]
      BY <3>1 DEF At, Idle, RecvPc
    <3>4. PcOK'
      BY <3>3 DEF PcOK
    <3> QED
      BY <3>2, <3>4
  <2> QED
    BY <2>1, <2>2, <2>3
<1>4. /\ UNCHANGED <<target, tasks, batch, calls>>
      /\ conn_mutex' \in {conn_mutex, RecvLoop}
  BY DEF Dispatch, ConnectedHandler, NewConnectHandler, SocketHandler,
         LinkUp, LinkDown, OnAccept, Callbacks, HandlerTail, EventCallBack,
         EventStale, EventKeeps, EventDeletes, EventBegins
<1>5. hup' \in BOOLEAN
  BY Zenon DEF Dispatch, ConnectedHandler, NewConnectHandler, SocketHandler,
         LinkUp, LinkDown, OnAccept, Callbacks, HandlerTail, EventCallBack,
         EventStale, EventKeeps, EventDeletes, EventBegins, TypeOK
<1> QED
  BY <1>1, <1>2, <1>4, <1>5 DEF TypeOK, Object

LEMMA SendLoopTypes ==
  ASSUME TypeOK, PcOK, TakeTasks \/ RunTask
  PROVE  TypeOK' /\ PcOK'
<1> USE Names
<1>1. CASE TakeTasks
  BY <1>1 DEF TakeTasks, TypeOK, PcOK
<1>2. CASE RunTask
  <2>1. Head(batch) \in Dsts /\ Tail(batch) \in Seq(Dsts)
    BY <1>2, HeadTailProperties DEF RunTask, TypeOK
  <2>2. cur' \in [Threads -> Conns \cup {NoConn}] /\ PcOK'
    BY <1>2, <2>1 DEF RunTask, FindForSend, Idle, At, TypeOK, PcOK, SendPc
  <2> QED
    BY <1>2, <2>1, <2>2 DEF RunTask, TypeOK
<1> QED
  BY <1>1, <1>2

-----------------------------------------------------------------------------
(* The inductive invariant.                                                *)

\* conn_mutex_ is held from FindConnection to the end of Connect or Disconnect.
MutexExact ==
  \A u \in Users :
    conn_mutex = u <=> pc[u] \in {"connecting", "polling", "delete", "unlock"}

\* Only a thread that works on a connection has one in hand.
CurExact == \A t \in Threads : pc[t] \in {"idle", "disconnect"} => cur[t] = NoConn

\* An object not allocated is untouched; one that is up has its last handler.
ObjectsExact ==
  \A c \in Conns :
    /\ conns[c].life = "none" => conns[c] = NoObject
    /\ conns[c].state = "kConnected" => conns[c].handler = "socket"

\* Connect works on a live connection of its own, not in the pool yet: its
\* destination is that of the call as soon as it is set, and the pool has none.
ConnectExact ==
  \A u \in Users : pc[u] \in {"connecting", "polling"} =>
    /\ target[u] \in Urls
    /\ pool[target[u]] = NoConn
    /\ cur[u] \in Conns
    /\ Live(cur[u])
    /\ conns[cur[u]].destination = IF pc[u] = "connecting" THEN NoUrl ELSE target[u]

\* Disconnect works on the connection the pool still has for its address.
DisconnectExact ==
  \A u \in Users :
    /\ pc[u] = "disconnect" => target[u] \in Urls
    /\ pc[u] = "delete" => /\ target[u] \in Urls
                           /\ cur[u] = pool[target[u]]
                           /\ cur[u] \in Conns

\* EventCallBack works on a live connection that Disconnect cannot delete: its
\* conn_owned_mutex_ is held, or its handler is gone, so that it is not pooled.
EventExact ==
  pc[RecvLoop] = "event" =>
    /\ cur[RecvLoop] \in Conns
    /\ Live(cur[RecvLoop])
    /\ \/ conns[cur[RecvLoop]].owned = RecvLoop
       \/ conns[cur[RecvLoop]].handler = "none"

\* An entry of the pool is an object that was allocated, and no other entry is.
PoolExact ==
  /\ \A d \in Dsts : pool[d] # NoConn => conns[pool[d]].life # "none"
  /\ \A d, e \in Dsts : pool[d] # NoConn /\ pool[d] = pool[e] => d = e

\* What a thread does to a deleted object under no lock of Connect, Disconnect or
\* EventCallBack: it unlocks one it took out of the pool itself, or the receive
\* loop found it under the address of a peer.
DeletedExact ==
  \A t \in Threads :
    /\ pc[t] = "unlock" => /\ cur[t] \in Conns /\ conns[cur[t]].life = "deleted"
                           /\ ~ Pooled(cur[t])
    /\ pc[t] = "stale" => /\ cur[t] \in Conns /\ conns[cur[t]].life = "deleted"
                          /\ \E p \in Peers : pool[p] = cur[t]

Exact ==
  /\ MutexExact /\ CurExact /\ ObjectsExact
  /\ ConnectExact /\ DisconnectExact /\ EventExact
  /\ PoolExact /\ DeletedExact /\ ReferencesLive

CommInv == TypeOK /\ PcOK /\ Exact

\* A step that changes of an object at most its link, its mutex, the infos of a
\* live one and a state that is not kConnected afterwards.
SameObject(c) ==
  /\ conns'[c].life = conns[c].life
  /\ conns'[c].destination = conns[c].destination
  /\ conns'[c].handler = conns[c].handler
  /\ conns'[c].owned = conns[c].owned
  /\ conns'[c].info => conns[c].info \/ Live(c)
  /\ conns'[c].state = "kConnected" => conns[c].state = "kConnected"
  /\ conns[c] = NoObject => conns'[c] = NoObject

\* A step of thread t that is no part of Connect, Disconnect or EventCallBack
\* under their lock.
Unlocked(t) ==
  \/ pc'[t] = pc[t] /\ cur'[t] = cur[t]
  \/ /\ pc[t] \notin {"connecting", "polling", "delete", "event", "unlock", "stale"}
     /\ \/ pc'[t] \in {"idle", "disconnect"} /\ cur'[t] = NoConn
        \/ pc'[t] \in {"send", "flush", "callbacks", "tail"}

\* The pool stays, and so does what it refers to.
LEMMA SamePool ==
  ASSUME CommInv, pool' = pool,
         \A c \in Conns : conns[c].life # "none" =>
           /\ conns'[c].life = conns[c].life
           /\ conns[c].destination \in Dsts => conns'[c].destination = conns[c].destination
           /\ conns[c].handler \in {"accepted", "socket"} =>
                conns'[c].handler \in {"accepted", "socket"},
         \A c \in Conns : conns'[c].handler # "none" \/ conns'[c].info => conns'[c].life = "live"
  PROVE  PoolExact' /\ ReferencesLive'
<1> USE Names DEF CommInv, Exact
<1>1. PoolExact'
  BY DEF PoolExact, TypeOK
<1>2. ASSUME NEW d \in Dsts, pool[d] # NoConn
      PROVE  \/ /\ Live(pool[d])' /\ conns'[pool[d]].destination = d
                /\ conns'[pool[d]].handler \in {"accepted", "socket"}
             \/ /\ d \in Peers /\ ~ Live(pool[d])'
                /\ \E c \in Conns : Live(c)' /\ conns'[c].destination = d /\ ~ Pooled(c)'
  <2>1. pool[d] \in Conns /\ conns'[pool[d]].life = conns[pool[d]].life
        /\ conns[pool[d]].life # "none"
    BY <1>2 DEF PoolExact, TypeOK
  <2>2. CASE Live(pool[d])
    BY <1>2, <2>1, <2>2 DEF ReferencesLive, Live
  <2>3. CASE ~ Live(pool[d])
    <3>1. PICK c \in Conns : Live(c) /\ conns[c].destination = d /\ ~ Pooled(c)
      BY <1>2, <2>3 DEF ReferencesLive
    <3>2. Live(c)' /\ conns'[c].destination = d /\ ~ Pooled(c)'
      BY <3>1 DEF Live, Pooled
    <3> QED
      BY <1>2, <2>1, <2>3, <3>2 DEF ReferencesLive, Live
  <2> QED
    BY <2>2, <2>3
<1>3. ReferencesLive'
  BY <1>2 DEF ReferencesLive, Live
<1> QED
  BY <1>1, <1>3

LEMMA QuietStep ==
  ASSUME CommInv,
         \A c \in Conns : SameObject(c),
         \A t \in Threads : Unlocked(t),
         pool' = pool, conn_mutex' = conn_mutex,
         \A u \in Users : target'[u] = target[u] \/ (pc[u] = "idle" /\ target'[u] \in Urls),
         \A u \in Users : pc'[u] = "disconnect" /\ pc[u] # "disconnect" => target'[u] \in Urls
  PROVE  Exact'
<1> USE Names DEF CommInv, Exact
<1>1. MutexExact'
  BY DEF MutexExact, Unlocked
<1>2. CurExact'
  BY DEF CurExact, Unlocked
<1>3. ObjectsExact'
  BY DEF ObjectsExact, SameObject
<1>4. ConnectExact'
  BY DEF ConnectExact, SameObject, Unlocked, Live
<1>5. DisconnectExact'
  BY DEF DisconnectExact, Unlocked
<1>6. EventExact'
  BY DEF EventExact, SameObject, Unlocked, Live
<1>7. \A c \in Conns : conns'[c].handler # "none" \/ conns'[c].info => conns'[c].life = "live"
  BY DEF ReferencesLive, SameObject, Live
<1>8. ReferencesLive' /\ PoolExact'
  BY <1>7, SamePool DEF SameObject
<1>9. DeletedExact'
  BY DEF DeletedExact, Unlocked, SameObject, Pooled
<1> QED
  BY <1>1, <1>2, <1>3, <1>4, <1>5, <1>6, <1>7, <1>8, <1>9

\* Calls that find a connection, end at once or go to the send path.
LEMMA QuietCalls ==
  ASSUME CommInv, NEW u \in Users, NEW d \in Urls,
         \/ ConnectFound(u, d) \/ DisconnectBegins(u, d) \/ Send(u, d)
         \/ SendAsync(u, d)
  PROVE  Exact'
<1> USE Names DEF CommInv, Exact
<1>0. conns \in [Conns -> Object]
  BY ConnsType
<1>1. \A c \in Conns : SameObject(c)
  <2>1. CASE ConnectFound(u, d)
    <3>1. pool[d] \in Conns /\ Live(pool[d])
      BY <2>1, CommAssumption DEF ConnectFound, TypeOK, ReferencesLive, CommAssumption
    <3>2. \A c \in Conns \ {pool[d]} : conns'[c] = conns[c]
      BY <1>0, <2>1, <3>1 DEF ConnectFound
    <3>3. SameObject(pool[d])
      BY <1>0, <2>1, <3>1 DEF ConnectFound, SameObject, Live, NoObject, Object
    <3> QED
      BY <3>2, <3>3 DEF SameObject
  <2> QED
    BY <2>1 DEF DisconnectBegins, Send, SendAsync, SameObject
<1>2. \A t \in Threads : Unlocked(t)
  BY DEF ConnectFound, DisconnectBegins, Send, SendAsync, FindForSend, Call, At,
         Idle, Unlocked, TypeOK, PcOK
<1>3. pool' = pool /\ conn_mutex' = conn_mutex
  BY DEF ConnectFound, DisconnectBegins, Send, SendAsync
<1>4. Call(u, d)
  BY DEF ConnectFound, DisconnectBegins, Send, SendAsync
<1>5. \A v \in Users : target'[v] = target[v] \/ (pc[v] = "idle" /\ target'[v] \in Urls)
  BY <1>4 DEF Call, TypeOK
<1>6. \A v \in Users : pc'[v] = "disconnect" /\ pc[v] # "disconnect" => target'[v] \in Urls
  BY <1>4 DEF Call, TypeOK, PcOK, ConnectFound, DisconnectBegins, Send, SendAsync,
              FindForSend, At, Idle
<1> QED
  BY <1>1, <1>2, <1>3, <1>5, <1>6, QuietStep

\* Sending, and the handlers up to the lock of their end.
LEMMA QuietSends ==
  ASSUME CommInv,
         \/ \E t \in Senders : SendLocks(t) \/ FlushEnds(t)
         \/ TakeTasks \/ RunTask \/ Callbacks
         \/ \E c \in Conns : SocketHandler(c) \/ LinkUp(c) \/ LinkDown(c)
  PROVE  Exact'
<1> USE Names DEF CommInv, Exact
<1>0. conns \in [Conns -> Object]
  BY ConnsType
<1>1. \A c \in Conns : SameObject(c)
  <2>1. ASSUME NEW t \in Senders, SendLocks(t)
        PROVE  \A c \in Conns : SameObject(c)
    <3>1. cur[t] \in Conns /\ Live(cur[t])
      BY <2>1 DEF SendLocks, Usable, TypeOK, Senders, Threads
    <3>2. \A c \in Conns \ {cur[t]} : conns'[c] = conns[c]
      BY <1>0, <2>1, <3>1 DEF SendLocks
    <3>3. SameObject(cur[t])
      BY <1>0, <2>1, <3>1 DEF SendLocks, SameObject, Live, NoObject, Object
    <3> QED
      BY <3>2, <3>3 DEF SameObject
  <2>2. ASSUME NEW t \in Senders, FlushEnds(t)
        PROVE  \A c \in Conns : SameObject(c)
    <3>1. cur[t] \in Conns /\ Live(cur[t])
      BY <2>2 DEF FlushEnds, Usable, TypeOK, Senders, Threads
    <3>2. \A c \in Conns \ {cur[t]} : conns'[c] = conns[c]
      BY <1>0, <2>2, <3>1 DEF FlushEnds
    <3>3. SameObject(cur[t])
      BY <1>0, <2>2, <3>1 DEF FlushEnds, SameObject, Live, NoObject, Object
    <3> QED
      BY <3>2, <3>3 DEF SameObject
  <2>3. CASE Callbacks
    <3>1. cur[RecvLoop] \in Conns /\ Live(cur[RecvLoop])
      BY <2>3 DEF Callbacks, Usable, TypeOK
    <3>2. \A c \in Conns \ {cur[RecvLoop]} : conns'[c] = conns[c]
      BY <1>0, <2>3, <3>1 DEF Callbacks
    <3>3. SameObject(cur[RecvLoop])
      BY <1>0, <2>3, <3>1 DEF Callbacks, SameObject, Live, NoObject, Object
    <3> QED
      BY <3>2, <3>3 DEF SameObject
  <2>4. ASSUME NEW c \in Conns, LinkUp(c) \/ LinkDown(c)
        PROVE  \A k \in Conns : SameObject(k)
    <3>1. \A k \in Conns \ {c} : conns'[k] = conns[k]
      BY <1>0, <2>4 DEF LinkUp, LinkDown
    <3>2. SameObject(c)
      BY <1>0, <2>4 DEF LinkUp, LinkDown, SameObject, Live, NoObject, Object
    <3> QED
      BY <3>1, <3>2 DEF SameObject
  <2> QED
    BY <2>1, <2>2, <2>3, <2>4 DEF TakeTasks, RunTask, SocketHandler, SameObject
<1>2. \A t \in Threads : Unlocked(t)
  <2>1. ASSUME NEW t \in Senders, SendLocks(t) \/ FlushEnds(t)
        PROVE  \A k \in Threads : Unlocked(k)
    BY <2>1 DEF SendLocks, FlushEnds, At, Idle, Unlocked, TypeOK, PcOK, Senders,
                Threads
  <2> QED
    BY <2>1 DEF TakeTasks, RunTask, Callbacks, SocketHandler, LinkUp, LinkDown,
                FindForSend, At, Idle, Unlocked, TypeOK, PcOK
<1>3. pool' = pool /\ conn_mutex' = conn_mutex /\ target' = target
  BY DEF SendLocks, FlushEnds, TakeTasks, RunTask, Callbacks, SocketHandler,
         LinkUp, LinkDown
<1>4. \A u \in Users : pc'[u] = "disconnect" => pc[u] = "disconnect"
  BY DEF SendLocks, FlushEnds, TakeTasks, RunTask, Callbacks, SocketHandler,
         LinkUp, LinkDown, FindForSend, At, Idle, TypeOK, PcOK, Senders
<1> QED
  BY <1>1, <1>2, <1>3, <1>4, QuietStep

\* A connection of the pool is pooled once, and is not one Connect works on.
LEMMA PooledOnce ==
  ASSUME TypeOK, Exact
  PROVE  /\ \A d, e \in Dsts : pool[d] = pool[e] /\ pool[d] # NoConn => d = e
         /\ \A u \in Users, d \in Dsts :
              pc[u] \in {"connecting", "polling"} => cur[u] # pool[d]
  BY Names DEF TypeOK, Exact, PoolExact, ReferencesLive, ConnectExact

LEMMA RefusedExact ==
  ASSUME CommInv, NEW u \in Users, NEW d \in Urls, ConnectRefused(u, d)
  PROVE  Exact'
<1> USE Names, NewConnFresh DEF CommInv, Exact
<1>0. /\ conns \in [Conns -> Object]
      /\ NewConn \in Conns /\ conns[NewConn].life = "none"
      /\ conns[NewConn] = NoObject
  BY ConnsType DEF ConnectRefused, Fresh, ObjectsExact
<1>1. /\ conns' = [conns EXCEPT ![NewConn].life = "deleted"]
      /\ pool' = pool /\ conn_mutex' = conn_mutex /\ pc' = pc /\ cur' = cur
      /\ pc[u] = "idle" /\ target' = [target EXCEPT ![u] = d]
  BY DEF ConnectRefused, Call
<1>2. /\ conns'[NewConn].life = "deleted" /\ conns'[NewConn].state = "kInit"
      /\ conns'[NewConn].handler = "none" /\ ~ conns'[NewConn].info
  BY <1>0, <1>1 DEF NoObject, Object
<1>3. \A c \in Conns \ {NewConn} : conns'[c] = conns[c]
  BY <1>0, <1>1
<1>4. MutexExact' /\ CurExact'
  BY <1>1 DEF MutexExact, CurExact
<1>5. ObjectsExact'
  BY <1>2, <1>3 DEF ObjectsExact
<1>6. ConnectExact'
  BY <1>0, <1>1, <1>3 DEF ConnectExact, Live, TypeOK
<1>7. DisconnectExact'
  BY <1>1 DEF DisconnectExact, TypeOK
<1>8. EventExact'
  BY <1>0, <1>1, <1>3 DEF EventExact, Live
<1>a. \A e \in Dsts : pool[e] # NewConn
  BY <1>0 DEF PoolExact
<1>b. \A c \in Conns : conns'[c].handler # "none" \/ conns'[c].info => conns'[c].life = "live"
  BY <1>2, <1>3 DEF ReferencesLive, Live
<1>9. ReferencesLive' /\ PoolExact'
  BY <1>0, <1>1, <1>3, <1>b, SamePool
<1>10. DeletedExact'
  BY <1>0, <1>a, <1>1, <1>2, <1>3 DEF DeletedExact, Pooled, TypeOK
<1> QED
  BY <1>4, <1>5, <1>6, <1>7, <1>8, <1>9, <1>10

LEMMA StartedExact ==
  ASSUME CommInv, NEW u \in Users, NEW d \in Urls, ConnectStarted(u, d)
  PROVE  Exact'
<1> USE Names, NewConnFresh DEF CommInv, Exact
<1> DEFINE n == NewConn
<1>0. /\ conns \in [Conns -> Object]
      /\ n \in Conns /\ conns[n].life = "none" /\ conns[n] = NoObject
  BY ConnsType DEF ConnectStarted, Fresh, ObjectsExact
<1> HIDE DEF n
<1>1. PICK port \in Ports :
      /\ conns' = [conns EXCEPT ![n] =
            [@ EXCEPT !.life = "live", !.handler = "connected", !.link = "connecting",
                      !.port = port]]
      /\ pool' = pool /\ conn_mutex = Nobody /\ conn_mutex' = u
      /\ pc[u] = "idle" /\ pool[d] = NoConn
      /\ pc' = [pc EXCEPT ![u] = "connecting"]
      /\ cur' = [cur EXCEPT ![u] = n]
      /\ target' = [target EXCEPT ![u] = d]
  BY DEF ConnectStarted, Call, At, n
<1>2. /\ conns'[n].life = "live" /\ conns'[n].state = "kInit"
      /\ conns'[n].handler = "connected" /\ conns'[n].destination = NoUrl
  BY <1>0, <1>1 DEF NoObject, Object
<1>3. \A c \in Conns \ {n} : conns'[c] = conns[c]
  BY <1>0, <1>1
<1>4. MutexExact' /\ CurExact'
  BY <1>1 DEF MutexExact, CurExact, PcOK, TypeOK
<1>5. ObjectsExact'
  BY <1>2, <1>3 DEF ObjectsExact
<1>6. ConnectExact'
  BY <1>0, <1>1, <1>2, <1>3 DEF ConnectExact, Live, TypeOK, PcOK
<1>7. DisconnectExact'
  BY <1>1 DEF DisconnectExact, TypeOK, PcOK
<1>8. EventExact'
  BY <1>0, <1>1, <1>3 DEF EventExact, Live, PcOK, TypeOK
<1>a. \A e \in Dsts : pool[e] # n
  BY <1>0 DEF PoolExact
<1>b. \A c \in Conns : conns'[c].handler # "none" \/ conns'[c].info => conns'[c].life = "live"
  BY <1>2, <1>3 DEF ReferencesLive, Live
<1>9. ReferencesLive' /\ PoolExact'
  BY <1>0, <1>1, <1>3, <1>b, SamePool
<1>10. DeletedExact'
  BY <1>0, <1>a, <1>1, <1>2, <1>3 DEF DeletedExact, Pooled, TypeOK, PcOK
<1> QED
  BY <1>4, <1>5, <1>6, <1>7, <1>8, <1>9, <1>10

LEMMA ConnectingExact ==
  ASSUME CommInv, NEW u \in Users, SetConnecting(u)
  PROVE  Exact'
<1> USE Names DEF CommInv, Exact
<1> DEFINE k == cur[u]
<1>0. /\ conns \in [Conns -> Object] /\ pc[u] = "connecting" /\ k \in Conns
      /\ Live(k) /\ target[u] \in Urls /\ pool[target[u]] = NoConn
      /\ conns[k].destination = NoUrl
  BY ConnsType DEF SetConnecting, ConnectExact
<1>a. \A d \in Dsts : pool[d] # k
  BY <1>0, PooledOnce
<1>1. /\ conns' = [conns EXCEPT ![k] =
            [@ EXCEPT !.state = "kConnecting", !.source = conns[k].port,
                      !.destination = target[u]]]
      /\ pool' = pool /\ conn_mutex' = conn_mutex /\ target' = target
      /\ pc' = [pc EXCEPT ![u] = "polling"] /\ cur' = [cur EXCEPT ![u] = k]
  BY DEF SetConnecting, At
<1> HIDE DEF k
<1>2. /\ conns'[k].life = conns[k].life /\ conns'[k].state = "kConnecting"
      /\ conns'[k].handler = conns[k].handler /\ conns'[k].destination = target[u]
      /\ conns'[k].owned = conns[k].owned
  BY <1>0, <1>1 DEF Object
<1>3. \A c \in Conns \ {k} : conns'[c] = conns[c]
  BY <1>0, <1>1
<1>4. MutexExact' /\ CurExact'
  BY <1>0, <1>1 DEF MutexExact, CurExact, PcOK, TypeOK
<1>5. ObjectsExact'
  BY <1>0, <1>2, <1>3 DEF ObjectsExact, Live
<1>6. ConnectExact'
  <2>1. \A v \in Users \ {u} : pc[v] \notin {"connecting", "polling"}
    BY <1>0 DEF MutexExact
  <2> QED
    BY <1>0, <1>1, <1>2, <2>1 DEF ConnectExact, Live, TypeOK, PcOK
<1>7. DisconnectExact'
  BY <1>0, <1>1 DEF DisconnectExact, TypeOK, PcOK
<1>8. EventExact'
  BY <1>0, <1>1, <1>2, <1>3 DEF EventExact, Live, PcOK, TypeOK
<1>9. ReferencesLive' /\ PoolExact'
  <2>1. \A c \in Conns : conns'[c].handler # "none" \/ conns'[c].info => conns'[c].life = "live"
    BY <1>0, <1>2, <1>3 DEF ReferencesLive, Live
  <2> QED
    BY <1>0, <1>1, <1>2, <1>3, <2>1, SamePool
<1>10. DeletedExact'
  BY <1>0, <1>a, <1>1, <1>2, <1>3 DEF DeletedExact, Pooled, TypeOK, PcOK, Live
<1> QED
  BY <1>4, <1>5, <1>6, <1>7, <1>8, <1>9, <1>10

LEMMA DoneExact ==
  ASSUME CommInv, NEW u \in Users, ConnectDone(u)
  PROVE  Exact'
<1> USE Names DEF CommInv, Exact
<1> DEFINE k == cur[u]
<1>0. /\ conns \in [Conns -> Object] /\ pc[u] = "polling" /\ k \in Conns
      /\ Live(k) /\ target[u] \in Urls /\ pool[target[u]] = NoConn
      /\ conns[k].destination = target[u] /\ conns[k].handler = "socket"
  BY ConnsType DEF ConnectDone, ConnectExact, ObjectsExact
<1>1. /\ conns' = [conns EXCEPT ![k].info = TRUE]
      /\ pool' = [pool EXCEPT ![target[u]] = k]
      /\ conn_mutex' = Nobody /\ target' = target
      /\ pc' = [pc EXCEPT ![u] = "idle"] /\ cur' = [cur EXCEPT ![u] = NoConn]
  BY <1>0 DEF ConnectDone, AddConnection, Idle
<1> HIDE DEF k
<1>2. /\ conns'[k].life = conns[k].life /\ conns'[k].state = conns[k].state
      /\ conns'[k].handler = conns[k].handler
      /\ conns'[k].destination = conns[k].destination
      /\ conns'[k].owned = conns[k].owned
  BY <1>0, <1>1 DEF Object
<1>3. \A c \in Conns \ {k} : conns'[c] = conns[c]
  BY <1>0, <1>1
<1>b. /\ \A d \in Dsts : pool[d] # k
      /\ \A p \in Peers : p # target[u]
  BY <1>0, PooledOnce, CommAssumption DEF CommAssumption, k
<1>a. \A v \in Users \ {u} : pc[v] \notin {"connecting", "polling", "delete", "unlock"}
  BY <1>0 DEF MutexExact
<1>4. MutexExact' /\ CurExact'
  BY <1>0, <1>1, <1>a DEF MutexExact, CurExact, PcOK, TypeOK
<1>5. ObjectsExact'
  BY <1>0, <1>2, <1>3 DEF ObjectsExact, Live
<1>6. ConnectExact'
  BY <1>a, <1>1 DEF ConnectExact, PcOK
<1>7. DisconnectExact'
  BY <1>0, <1>a, <1>1 DEF DisconnectExact, TypeOK, PcOK
<1>8. EventExact'
  BY <1>0, <1>1, <1>2, <1>3 DEF EventExact, Live, PcOK, TypeOK
<1>9. ReferencesLive'
  <2>1. \A d \in Peers, c \in Conns :
          Live(c) /\ conns[c].destination = d /\ ~ Pooled(c) =>
            Live(c)' /\ conns'[c].destination = d /\ ~ Pooled(c)'
    BY <1>0, <1>b, <1>1, <1>2, <1>3 DEF Live, Pooled, TypeOK
  <2> QED
    BY <1>0, <1>b, <1>1, <1>2, <1>3, <2>1 DEF ReferencesLive, Live, TypeOK
<1>10. PoolExact' /\ DeletedExact'
  BY <1>0, <1>b, <1>1, <1>2, <1>3 DEF PoolExact, DeletedExact, Pooled, TypeOK, PcOK, Live
<1> QED
  BY <1>4, <1>5, <1>6, <1>7, <1>8, <1>9, <1>10

LEMMA GivesUpExact ==
  ASSUME CommInv, NEW u \in Users, ConnectGivesUp(u)
  PROVE  Exact'
<1> USE Names DEF CommInv, Exact
<1>1. /\ UNCHANGED <<conns, pool, target>> /\ pc[u] = "polling"
      /\ conn_mutex = u /\ conn_mutex' = Nobody
      /\ pc' = [pc EXCEPT ![u] = "idle"] /\ cur' = [cur EXCEPT ![u] = NoConn]
  BY DEF ConnectGivesUp, Idle, MutexExact
<1>2. MutexExact' /\ CurExact'
  BY <1>1 DEF MutexExact, CurExact, PcOK, TypeOK
<1>3. ObjectsExact' /\ ReferencesLive'
  BY <1>1 DEF ObjectsExact, ReferencesLive, Live, Pooled
<1>4. ConnectExact'
  BY <1>1 DEF ConnectExact, Live, PcOK, TypeOK
<1>5. DisconnectExact' /\ EventExact'
  BY <1>1 DEF DisconnectExact, EventExact, Live, PcOK, TypeOK
<1>6. PoolExact' /\ DeletedExact'
  BY <1>1 DEF PoolExact, DeletedExact, Pooled, PcOK, TypeOK
<1> QED
  BY <1>2, <1>3, <1>4, <1>5, <1>6

LEMMA FindExact ==
  ASSUME CommInv, NEW u \in Users, DisconnectFind(u)
  PROVE  Exact'
<1> USE Names DEF CommInv, Exact
<1>0. pc[u] = "disconnect" /\ target[u] \in Urls /\ conn_mutex = Nobody
  BY DEF DisconnectFind, DisconnectExact
<1>1. /\ UNCHANGED <<conns, pool, target>>
      /\ \/ /\ pc' = [pc EXCEPT ![u] = "idle"] /\ cur' = [cur EXCEPT ![u] = NoConn]
            /\ conn_mutex' = Nobody
         \/ /\ pc' = [pc EXCEPT ![u] = "delete"] /\ pool[target[u]] # NoConn
            /\ cur' = [cur EXCEPT ![u] = pool[target[u]]] /\ conn_mutex' = u
  BY <1>0 DEF DisconnectFind, Idle, At
<1>2. MutexExact' /\ CurExact'
  <2>1. /\ \A t \in Threads \ {u} : pc'[t] = pc[t] /\ cur'[t] = cur[t]
        /\ \/ pc'[u] = "idle" /\ cur'[u] = NoConn /\ conn_mutex' = Nobody
           \/ pc'[u] = "delete" /\ conn_mutex' = u
    BY <1>1 DEF PcOK, TypeOK
  <2> QED
    BY <1>0, <2>1 DEF MutexExact, CurExact
<1>3. ObjectsExact' /\ ReferencesLive'
  BY <1>1 DEF ObjectsExact, ReferencesLive, Live, Pooled
<1>4. ConnectExact'
  BY <1>1 DEF ConnectExact, Live, PcOK, TypeOK
<1>5. DisconnectExact'
  BY <1>0, <1>1 DEF DisconnectExact, PcOK, TypeOK
<1>6. EventExact'
  BY <1>1 DEF EventExact, Live, PcOK, TypeOK
<1>7. PoolExact' /\ DeletedExact'
  BY <1>1 DEF PoolExact, DeletedExact, Pooled, PcOK, TypeOK
<1> QED
  BY <1>2, <1>3, <1>4, <1>5, <1>6, <1>7

\* The pool's connection for d is closed, by a thread that then unlocks it
\* without harm or not, while no other thread works on it under a lock.
LEMMA DeleteExact ==
  ASSUME CommInv, NEW d \in Dsts, NEW t \in Threads, NEW k \in Conns, k = pool[d], Live(k),
         NEW objs, DeleteConnection(d, objs),
         objs = conns \/ (t = RecvLoop /\ objs = [conns EXCEPT ![cur[t]].owned = Nobody]),
         cur[t] \in Conns, Live(cur[t]), t # RecvLoop => pc[t] = "delete",
         Idle(t) \/ At(t, "unlock", k),
         target' = target, MutexExact',
         \A u \in Users : u # t => pc[u] \notin {"connecting", "polling", "delete"},
         pc[t] \notin {"unlock", "stale"}, t # RecvLoop => d \in Urls,
         t = RecvLoop \/ pc[RecvLoop] # "event" \/ cur[RecvLoop] # k
  PROVE  Exact'
<1> USE Names DEF CommInv, Exact
<1>0. conns \in [Conns -> Object] /\ k # NoConn
  BY ConnsType
<1>b. objs \in [Conns -> Object]
  <2>1. conns[cur[t]] \in Object /\ [conns[cur[t]] EXCEPT !.owned = Nobody] \in Object
    BY <1>0, Updates
  <2>2. CASE objs = [conns EXCEPT ![cur[t]].owned = Nobody]
    BY <1>0, <2>1, <2>2
  <2> QED
    BY <1>0, <2>2
<1>1. /\ conns' = [objs EXCEPT ![k] = Closed(@)]
      /\ pool' = [pool EXCEPT ![d] = NoConn]
      /\ \/ pc' = [pc EXCEPT ![t] = "idle"] /\ cur' = [cur EXCEPT ![t] = NoConn]
         \/ pc' = [pc EXCEPT ![t] = "unlock"] /\ cur' = [cur EXCEPT ![t] = k]
  BY <1>0 DEF DeleteConnection, Idle, At
<1>a. \A e \in Dsts : e # d => pool[e] # k
  BY <1>0, PooledOnce
<1>2. /\ conns'[k].life = "deleted" /\ conns'[k].state = "kInit"
      /\ conns'[k].handler = "none" /\ ~ conns'[k].info
  BY <1>b, <1>1 DEF Closed, NoObject
<1>3. \A c \in Conns \ {k} :
        /\ conns'[c].life = conns[c].life /\ conns'[c].state = conns[c].state
        /\ conns'[c].handler = conns[c].handler /\ conns'[c].info = conns[c].info
        /\ conns'[c].destination = conns[c].destination
        /\ t # RecvLoop => conns'[c] = conns[c]
        /\ conns[c] = NoObject => conns'[c] = NoObject
  <2>1. \A c \in Conns \ {k} :
          \/ conns'[c] = conns[c]
          \/ /\ t = RecvLoop /\ conns'[c] = [conns[c] EXCEPT !.owned = Nobody]
             /\ conns[c] # NoObject
    <3>1. conns[cur[t]] # NoObject
      BY DEF Live, NoObject
    <3> QED
      BY <1>0, <1>b, <1>1, <3>1
  <2>2. \A o \in Object : LET q == [o EXCEPT !.owned = Nobody] IN
          /\ q.life = o.life /\ q.state = o.state /\ q.handler = o.handler
          /\ q.info = o.info /\ q.destination = o.destination
    BY DEF Object
  <2> QED
    BY <1>0, <2>1, <2>2
<1>4. CurExact'
  BY <1>1 DEF CurExact, PcOK, TypeOK
<1>5. ObjectsExact'
  BY <1>2, <1>3 DEF ObjectsExact
<1>6. ConnectExact'
  BY <1>1 DEF ConnectExact, PcOK
<1>7. DisconnectExact'
  BY <1>1 DEF DisconnectExact, TypeOK, PcOK
<1>8. EventExact'
  BY <1>1, <1>3 DEF EventExact, Live, PcOK, TypeOK
<1>c. \A e \in Dsts : pool'[e] = IF e = d THEN NoConn ELSE pool[e]
  BY <1>1 DEF TypeOK
<1>9. ReferencesLive'
  <2>1. \A e \in Peers, c \in Conns :
          Live(c) /\ conns[c].destination = e /\ ~ Pooled(c) =>
            Live(c)' /\ conns'[c].destination = e /\ ~ Pooled(c)'
    BY <1>c, <1>3 DEF Live, Pooled
  <2>2. \A c \in Conns : conns'[c].handler # "none" \/ conns'[c].info => Live(c)'
    BY <1>2, <1>3 DEF ReferencesLive, Live
  <2>3. ASSUME NEW e \in Dsts, pool'[e] # NoConn
        PROVE  \/ /\ Live(pool[e])' /\ conns'[pool'[e]].destination = e
                  /\ conns'[pool'[e]].handler \in {"accepted", "socket"}
               \/ /\ e \in Peers /\ ~ Live(pool[e])'
                  /\ \E c \in Conns : Live(c)' /\ conns'[c].destination = e /\ ~ Pooled(c)'
    <3>1. /\ pool'[e] = pool[e] /\ pool[e] # NoConn /\ pool[e] \in Conns \ {k}
      BY <1>a, <1>c, <2>3 DEF TypeOK
    <3> QED
      BY <1>3, <2>1, <3>1 DEF ReferencesLive, Live
  <2> QED
    BY <2>2, <2>3 DEF ReferencesLive
<1>10. PoolExact'
  BY <1>a, <1>2, <1>3, <1>c DEF PoolExact, TypeOK
<1>11. DeletedExact'
  <2>1. ~ Pooled(k)'
    BY <1>a, <1>c DEF Pooled
  <2>2. \A c \in Conns : conns[c].life = "deleted" => c # k /\ conns'[c].life = "deleted"
    BY <1>3 DEF Live
  <2>3. \A c \in Conns : ~ Pooled(c) => ~ Pooled(c)'
    BY <1>c DEF Pooled
  <2>4. \A c \in Conns, p \in Peers : pool[p] = c /\ c # k => pool'[p] = c
    BY <1>c
  <2>5. \A x \in Threads : x # t => pc'[x] = pc[x] /\ cur'[x] = cur[x]
    BY <1>1 DEF PcOK, TypeOK
  <2>6. \/ pc'[t] = "idle"
        \/ pc'[t] = "unlock" /\ cur'[t] = k
    BY <1>1 DEF PcOK, TypeOK
  <2> QED
    BY <1>2, <2>1, <2>2, <2>3, <2>4, <2>5, <2>6 DEF DeletedExact
<1> QED
  BY <1>4, <1>5, <1>6, <1>7, <1>8, <1>9, <1>10, <1>11

LEMMA DisconnectDeleteExact ==
  ASSUME CommInv, NEW u \in Users, DisconnectDelete(u)
  PROVE  Exact'
<1> USE Names DEF CommInv, Exact
<1>1. /\ pc[u] = "delete" /\ target[u] \in Urls /\ target[u] \in Dsts
      /\ cur[u] = pool[target[u]]
      /\ cur[u] \in Conns /\ conn_mutex = u /\ Live(cur[u])
  BY DEF DisconnectDelete, DisconnectExact, MutexExact, Usable
<1>2. conns[cur[u]].owned = Nobody /\ conns[cur[u]].handler # "none"
  BY <1>1 DEF DisconnectDelete, ReferencesLive
<1>3. pc[RecvLoop] # "event" \/ cur[RecvLoop] # cur[u]
  BY <1>1, <1>2 DEF EventExact
<1>4. \A v \in Users : v # u => pc[v] \notin {"connecting", "polling", "delete", "unlock"}
  BY <1>1 DEF MutexExact
<1>5. /\ DeleteConnection(target[u], conns) /\ (Idle(u) \/ At(u, "unlock", cur[u]))
      /\ target' = target /\ conn_mutex' = IF pc'[u] = "idle" THEN Nobody ELSE u
  BY DEF DisconnectDelete, UnlockDeleted
<1>6. MutexExact'
  BY <1>1, <1>4, <1>5 DEF MutexExact, Idle, At, PcOK
<1> QED
  BY <1>1, <1>3, <1>4, <1>5, <1>6, DeleteExact

\* A handler replaces itself, or the end of SocketEventHandler takes
\* conn_owned_mutex_: conns[c] changes in handler, state and owned only.
LEMMA HandlersExact ==
  ASSUME CommInv, NEW c \in Conns,
         \/ ConnectedHandler(c) \/ NewConnectHandler(c)
         \/ HandlerTail /\ cur[RecvLoop] = c
  PROVE  Exact'
<1> USE Names DEF CommInv, Exact
<1>0. conns \in [Conns -> Object] /\ Live(c)
  BY ConnsType DEF ConnectedHandler, NewConnectHandler, HandlerTail, Usable,
                   ReferencesLive
<1>1. /\ pool' = pool /\ conn_mutex' = conn_mutex /\ target' = target
      /\ pc[RecvLoop] # "event"
      /\ \A t \in Threads \ {RecvLoop} : pc'[t] = pc[t] /\ cur'[t] = cur[t]
      /\ pc'[RecvLoop] \in {"idle", "disconnect"} => cur'[RecvLoop] = NoConn
      /\ pc'[RecvLoop] = "event" => cur'[RecvLoop] = c
      /\ pc'[RecvLoop] \notin {"unlock", "stale"}
  BY DEF ConnectedHandler, NewConnectHandler, HandlerTail, At, Idle, PcOK, TypeOK,
         CurExact
<1>2. \A k \in Conns \ {c} : conns'[k] = conns[k]
  BY <1>0 DEF ConnectedHandler, NewConnectHandler, HandlerTail
<1>a. conns[c] \in Object /\ conns[c].life = "live"
  BY <1>0 DEF Live
<1>b. \/ /\ ConnectedHandler(c) \/ NewConnectHandler(c)
         /\ conns'[c] = [conns[c] EXCEPT !.handler = "socket", !.state = "kConnected"]
         /\ pc'[RecvLoop] # "event"
      \/ /\ ConnectedHandler(c) /\ conns[c].handler = "connected"
         /\ conns'[c] = [conns[c] EXCEPT !.handler = "none", !.state = "kDisconnecting"]
      \/ conns'[c] = [conns[c] EXCEPT !.state = "kDisconnecting", !.owned = RecvLoop]
      \/ conns'[c] = conns[c] /\ pc'[RecvLoop] # "event"
  <2>1. CASE ConnectedHandler(c)
    BY <1>0, <2>1 DEF ConnectedHandler, At, PcOK
  <2>2. CASE NewConnectHandler(c)
    BY <1>0, <2>2 DEF NewConnectHandler, At, PcOK
  <2>3. CASE HandlerTail /\ cur[RecvLoop] = c
    BY <1>0, <2>3 DEF HandlerTail, At, Idle, PcOK
  <2> QED
    BY <2>1, <2>2, <2>3
<1>3. /\ conns'[c].life = "live"
      /\ conns'[c].destination = conns[c].destination
  BY <1>a, <1>b DEF Object
<1>4. /\ conns[c].handler \in {"accepted", "socket"} => conns'[c].handler \in {"accepted", "socket"}
      /\ conns'[c].state = "kConnected" => conns'[c].handler = "socket"
      /\ pc'[RecvLoop] = "event" => conns'[c].owned = RecvLoop \/ conns'[c].handler = "none"
  BY <1>a, <1>b DEF Object, ObjectsExact
<1>5. MutexExact' /\ CurExact'
  BY <1>1 DEF MutexExact, CurExact, PcOK, TypeOK
<1>6. ObjectsExact'
  BY <1>2, <1>3, <1>4 DEF ObjectsExact
<1>7. ConnectExact'
  BY <1>0, <1>1, <1>2, <1>3 DEF ConnectExact, Live
<1>8. DisconnectExact'
  BY <1>1 DEF DisconnectExact
<1>9. EventExact'
  BY <1>0, <1>1, <1>3, <1>4 DEF EventExact, Live
<1>10. ReferencesLive' /\ PoolExact'
  <2>1. \A k \in Conns : conns'[k].handler # "none" \/ conns'[k].info => conns'[k].life = "live"
    BY <1>2, <1>3 DEF ReferencesLive, Live
  <2> QED
    BY <1>0, <1>1, <1>2, <1>3, <1>4, <2>1, SamePool DEF Live
<1>11. DeletedExact'
  <2>1. \A k \in Conns : conns[k].life = "deleted" => conns'[k].life = "deleted"
    BY <1>0, <1>2 DEF Live
  <2>2. \A t \in Threads : pc'[t] \in {"unlock", "stale"} => pc'[t] = pc[t] /\ cur'[t] = cur[t]
    BY <1>1
  <2> QED
    BY <1>1, <2>1, <2>2 DEF DeletedExact, Pooled
<1> QED
  BY <1>5, <1>6, <1>7, <1>8, <1>9, <1>10, <1>11

\* An accepted connection is pooled, or takes the place of a broken one whose
\* entry stays, or finds such an entry.
LEMMA AcceptExact ==
  ASSUME CommInv, NEW p \in Peers, OnAccept(p)
  PROVE  Exact'
<1> USE Names, NewConnFresh DEF CommInv, Exact
<1>n. PICK n \in Conns : n = NewConn /\ n \in Fresh
  BY DEF OnAccept, Fresh
<1>k. PICK k \in Conns \cup {NoConn} : k = pool[p]
  BY DEF TypeOK
<1> DEFINE New == [NoObject EXCEPT !.life = "live", !.handler = "accepted", !.link = "up",
                                   !.source = OwnUrl, !.destination = p]
<1>0. /\ conns \in [Conns -> Object] /\ pc[RecvLoop] = "idle"
      /\ conns[n].life = "none" /\ conns[n] = NoObject
      /\ \A e \in Dsts : pool[e] # n
      /\ conn_mutex' = conn_mutex /\ target' = target
  BY <1>n, ConnsType DEF OnAccept, Fresh, ObjectsExact, PoolExact
<1>1. \/ /\ k = NoConn /\ pool' = [pool EXCEPT ![p] = n]
         /\ conns' = [conns EXCEPT ![n] = New] /\ pc' = pc /\ cur' = cur
      \/ /\ k # NoConn /\ Live(k) /\ pool' = pool
         /\ conns' = [[conns EXCEPT ![n] = New] EXCEPT ![k] = Closed(@)]
         /\ pc' = pc /\ cur' = cur
      \/ /\ k # NoConn /\ ~ Live(k) /\ pool' = pool /\ conns' = [conns EXCEPT ![n] = New]
         /\ pc' = [pc EXCEPT ![RecvLoop] = "stale"]
         /\ cur' = [cur EXCEPT ![RecvLoop] = k]
  BY <1>0, <1>n, <1>k DEF OnAccept, AddConnection, At
<1>2. /\ New.life = "live" /\ New.state = "kInit" /\ New.handler = "accepted"
      /\ New.destination = p
  BY DEF NoObject
<1>3. conns'[n] = New
  BY <1>0, <1>1
<1>4. /\ \A c \in Conns \ {n, k} : conns'[c] = conns[c]
      /\ k # NoConn => \/ conns'[k] = conns[k] /\ ~ Live(k)
                       \/ /\ Live(k) /\ conns'[k] = Closed(conns[k]) /\ pool' = pool
  BY <1>0, <1>k, <1>1
<1>5. \A o : /\ Closed(o).life = "deleted" /\ Closed(o).state = "kInit"
             /\ Closed(o).handler = "none" /\ ~ Closed(o).info
  BY DEF Closed, NoObject
<1>6. \A t \in Threads : \/ pc'[t] = pc[t] /\ cur'[t] = cur[t]
                         \/ t = RecvLoop /\ pc'[t] = "stale" /\ cur'[t] = k /\ k # NoConn
                            /\ ~ Live(k) /\ conns'[k] = conns[k]
  BY <1>0, <1>k, <1>1 DEF PcOK, TypeOK
<1>7. \A e \in Dsts : pool'[e] = IF e = p /\ k = NoConn THEN n ELSE pool[e]
  BY <1>k, <1>1 DEF TypeOK
<1>8. /\ \A e \in Dsts : e # p /\ pool[e] # NoConn => pool[e] # k
      /\ \A u \in Users : pc[u] \in {"connecting", "polling"} => cur[u] # k
      /\ \A u \in Users : target[u] \in Urls => target[u] # p
  BY <1>k, PooledOnce, CommAssumption DEF CommAssumption, PoolExact
<1> HIDE DEF New
<1>9. MutexExact' /\ CurExact'
  BY <1>0, <1>6 DEF MutexExact, CurExact
<1>10. ObjectsExact'
  BY <1>2, <1>3, <1>4, <1>5 DEF ObjectsExact
<1>11. ConnectExact'
  BY <1>0, <1>4, <1>6, <1>7, <1>8 DEF ConnectExact, Live, TypeOK
<1>12. DisconnectExact'
  BY <1>0, <1>6, <1>7, <1>8 DEF DisconnectExact, TypeOK
<1>13. EventExact'
  BY <1>0, <1>6 DEF EventExact
<1>14. k # NoConn => k \in Conns /\ k # n /\ conns[k].life # "none"
  BY <1>0, <1>k DEF PoolExact
<1>15. ReferencesLive'
  <2>1. \A c \in Conns : conns'[c].handler # "none" \/ conns'[c].info => Live(c)'
    BY <1>2, <1>3, <1>4, <1>5, <1>14 DEF ReferencesLive, Live
  <2>2. ASSUME NEW e \in Dsts, pool'[e] # NoConn, e # p
        PROVE  \/ Live(pool[e])' /\ conns'[pool'[e]].destination = e
                  /\ conns'[pool'[e]].handler \in {"accepted", "socket"}
               \/ e \in Peers /\ ~ Live(pool[e])' /\ \E c \in Conns :
                    Live(c)' /\ conns'[c].destination = e /\ ~ Pooled(c)'
    <3>1. /\ pool'[e] = pool[e] /\ pool[e] \in Conns /\ pool[e] # n /\ pool[e] # k
          /\ conns'[pool[e]] = conns[pool[e]]
      BY <1>0, <1>4, <1>7, <1>8, <2>2 DEF TypeOK
    <3>2. CASE Live(pool[e])
      BY <3>1, <3>2 DEF ReferencesLive, Live
    <3>3. CASE ~ Live(pool[e])
      <4>1. PICK c \in Conns : Live(c) /\ conns[c].destination = e /\ ~ Pooled(c)
        BY <3>1, <3>3 DEF ReferencesLive
      <4>2. c # n /\ c # k
        BY <1>0, <1>k, <4>1 DEF Live, Pooled
      <4>3. conns'[c] = conns[c] /\ ~ Pooled(c)'
        BY <1>4, <1>7, <4>1, <4>2 DEF Pooled
      <4> QED
        BY <2>2, <3>1, <3>3, <4>1, <4>3 DEF Live, ReferencesLive
    <3> QED
      BY <3>2, <3>3
  <2>3. ASSUME k # NoConn
        PROVE  /\ pool'[p] = k /\ ~ Live(pool[p])'
               /\ \E c \in Conns : Live(c)' /\ conns'[c].destination = p /\ ~ Pooled(c)'
    <3>1. pool'[p] = k /\ ~ Live(pool[p])'
      <4>1. pool'[p] = k
        BY <1>k, <1>7, <2>3
      <4>2. conns'[k].life # "live"
        BY <1>4, <1>5, <2>3 DEF Live
      <4> QED
        BY <4>1, <4>2 DEF Live
    <3>2. Live(n)' /\ conns'[n].destination = p /\ ~ Pooled(n)'
      BY <1>0, <1>2, <1>3, <1>7, <2>3 DEF Live, Pooled
    <3> QED
      BY <1>0, <3>1, <3>2
  <2>4. CASE k = NoConn
    BY <1>2, <1>3, <1>7, <2>1, <2>2, <2>4 DEF ReferencesLive, Live
  <2>5. CASE k # NoConn
    BY <2>1, <2>2, <2>3, <2>5 DEF ReferencesLive
  <2> QED
    BY <2>4, <2>5
<1>16. PoolExact'
  <2>1. \A e \in Dsts : pool'[e] # NoConn => conns'[pool'[e]].life # "none"
    <3> SUFFICES ASSUME NEW e \in Dsts, pool'[e] # NoConn
                 PROVE  conns'[pool'[e]].life # "none"
      OBVIOUS
    <3>1. CASE pool'[e] = n
      BY <1>2, <1>3, <3>1
    <3>2. CASE pool'[e] # n
      BY <1>4, <1>5, <1>7, <1>14, <3>2 DEF PoolExact, TypeOK
    <3> QED
      BY <3>1, <3>2
  <2>2. \A e, f \in Dsts : pool'[e] # NoConn /\ pool'[e] = pool'[f] => e = f
    BY <1>0, <1>7 DEF PoolExact
  <2> QED
    BY <2>1, <2>2 DEF PoolExact
<1>17. DeletedExact'
  <2>1. \A c \in Conns : conns[c].life = "deleted" => conns'[c].life = "deleted" /\ c # n
    BY <1>0, <1>4, <1>5 DEF Live
  <2>2. \A c \in Conns : c # n /\ ~ Pooled(c) => ~ Pooled(c)'
    BY <1>7 DEF Pooled
  <2>3. k # NoConn /\ ~ Live(k) => k \in Conns /\ conns[k].life = "deleted" /\ pool'[p] = k
    <3>1. k \in Conns => conns[k].life \in {"none", "live", "deleted"}
      BY <1>0 DEF Object
    <3> QED
      BY <1>k, <1>7, <1>14, <3>1 DEF Live
  <2>4. \A t \in Threads : pc'[t] = pc[t] /\ pc[t] = "stale" => t = RecvLoop
    BY DEF PcOK, UserPc, SendPc, Threads
  <2> QED
    BY <1>0, <1>6, <2>1, <2>2, <2>3, <2>4 DEF DeletedExact
<1> QED
  BY <1>9, <1>10, <1>11, <1>12, <1>13, <1>15, <1>16, <1>17

LEMMA EventCallBackExact ==
  ASSUME CommInv, EventCallBack
  PROVE  Exact'
<1> USE Names DEF CommInv, Exact
<1> DEFINE k == cur[RecvLoop]
           d == conns[k].destination
<1>0. /\ conns \in [Conns -> Object] /\ k \in Conns /\ Live(k)
      /\ pc[RecvLoop] = "event" /\ conn_mutex = Nobody /\ target' = target
  BY ConnsType DEF EventCallBack, EventStale, EventKeeps, EventDeletes, EventBegins,
                   Usable, TypeOK
<1>1. \A u \in Users : pc[u] \notin {"connecting", "polling", "delete", "unlock"}
  BY <1>0 DEF MutexExact
<1>2. d \in Dsts \cup {NoUrl}
  BY <1>0 DEF Object
<1>3. CASE EventDeletes
  <2>1. /\ d \in Dsts /\ pool[d] = Found /\ Found \in Conns /\ Live(Found)
        /\ DeleteConnection(d, [conns EXCEPT ![k].owned = Nobody])
        /\ Idle(RecvLoop) \/ At(RecvLoop, "unlock", Found)
        /\ conn_mutex' = conn_mutex
    BY <1>2, <1>3 DEF EventDeletes, Found, UnlockDeleted, TypeOK
  <2>2. MutexExact'
    BY <1>0, <2>1 DEF MutexExact, Idle, At, PcOK
  <2> HIDE DEF d, k, Found
  <2> QED
    BY <1>0, <1>1, <2>1, <2>2, DeleteExact DEF k
<1>4. CASE EventKeeps
  <2>1. conns' = [conns EXCEPT ![k].owned = Nobody] /\ pool' = pool
        /\ conn_mutex' = conn_mutex
    BY <1>4 DEF EventKeeps
  <2>2. /\ conns'[k].life = conns[k].life /\ conns'[k].state = conns[k].state
        /\ conns'[k].handler = conns[k].handler
        /\ conns'[k].destination = conns[k].destination
    BY <1>0, <2>1 DEF Object
  <2>3. \A c \in Conns \ {k} : conns'[c] = conns[c]
    BY <1>0, <2>1
  <2>4. pc' = [pc EXCEPT ![RecvLoop] = "idle"] /\ cur' = [cur EXCEPT ![RecvLoop] = NoConn]
    BY <1>4 DEF EventKeeps, Idle
  <2> HIDE DEF d, k
  <2>5. MutexExact' /\ CurExact'
    BY <1>0, <1>1, <2>1, <2>4 DEF MutexExact, CurExact, PcOK, TypeOK
  <2>6. ObjectsExact'
    BY <1>0, <2>2, <2>3 DEF ObjectsExact, Live
  <2>7. ConnectExact' /\ DisconnectExact' /\ EventExact'
    BY <1>0, <1>1, <2>1, <2>4 DEF ConnectExact, DisconnectExact, EventExact, PcOK, TypeOK
  <2>8. ReferencesLive' /\ PoolExact'
    <3>1. \A c \in Conns :
            conns'[c].handler # "none" \/ conns'[c].info => conns'[c].life = "live"
      BY <1>0, <2>2, <2>3 DEF ReferencesLive, Live
    <3> QED
      BY <1>0, <2>1, <2>2, <2>3, <3>1, SamePool
  <2>9. DeletedExact'
    BY <1>0, <2>1, <2>2, <2>3, <2>4 DEF DeletedExact, Pooled, PcOK, TypeOK, Live
  <2> QED
    BY <2>5, <2>6, <2>7, <2>8, <2>9
<1>5. CASE EventStale
  <2>1. /\ conns' = conns /\ pool' = pool /\ conn_mutex' = RecvLoop
        /\ pc' = [pc EXCEPT ![RecvLoop] = "stale"]
        /\ cur' = [cur EXCEPT ![RecvLoop] = Found]
    BY <1>5 DEF EventStale, At
  <2>2. /\ d \in Dsts /\ Found = pool[d] /\ Found \in Conns /\ ~ Live(Found)
    BY <1>2, <1>5 DEF EventStale, Found, TypeOK
  <2>3. d \in Peers /\ conns[Found].life = "deleted"
    BY <1>0, <2>2 DEF ReferencesLive, PoolExact, Object, Live
  <2> HIDE DEF d, k, Found
  <2>4. MutexExact' /\ CurExact' /\ ConnectExact' /\ DisconnectExact' /\ EventExact'
    BY <1>0, <1>1, <2>1 DEF MutexExact, CurExact, ConnectExact, DisconnectExact, EventExact,
                            PcOK, TypeOK
  <2>5. ObjectsExact' /\ PoolExact' /\ ReferencesLive'
    BY <2>1 DEF ObjectsExact, PoolExact, ReferencesLive, Live, Pooled
  <2>6. DeletedExact'
    BY <2>1, <2>2, <2>3 DEF DeletedExact, Pooled, PcOK, TypeOK
  <2> QED
    BY <2>4, <2>5, <2>6
<1> QED
  BY <1>3, <1>4, <1>5 DEF EventCallBack

-----------------------------------------------------------------------------
(* The theorems.                                                           *)

LEMMA InitInv == Init => CommInv
<1> SUFFICES ASSUME Init PROVE Exact
  BY InitTypes DEF CommInv
<1>1. MutexExact /\ CurExact /\ ConnectExact /\ DisconnectExact /\ EventExact
  BY Names DEF Init, MutexExact, CurExact, ConnectExact, DisconnectExact, EventExact
<1>2. ObjectsExact /\ ReferencesLive
  BY DEF Init, ObjectsExact, ReferencesLive, NoObject, Live
<1>3. PoolExact /\ DeletedExact
  BY DEF Init, PoolExact, DeletedExact
<1> QED
  BY <1>1, <1>2, <1>3 DEF Exact

LEMMA NextTypes == CommInv /\ Next => TypeOK' /\ PcOK'
<1> SUFFICES ASSUME CommInv, Next PROVE TypeOK' /\ PcOK'
  OBVIOUS
<1> USE Names DEF CommInv
<1>1. ASSUME NEW u \in Users, UserStep(u) PROVE TypeOK' /\ PcOK'
  <2>1. CASE SetConnecting(u)
    BY <2>1, UserTypes DEF Exact, ConnectExact, SetConnecting
  <2>2. CASE ConnectDone(u)
    BY <2>2, UserTypes DEF Exact, ConnectExact, ConnectDone
  <2>3. CASE ConnectGivesUp(u)
    BY <2>3, UserTypes
  <2>4. CASE DisconnectFind(u)
    BY <2>4, UserTypes DEF Exact, DisconnectExact, DisconnectFind
  <2>5. CASE DisconnectDelete(u)
    BY <2>5, UserTypes DEF Exact, DisconnectExact, DisconnectDelete
  <2>6. CASE SendLocks(u) \/ FlushEnds(u)
    BY <2>6, SenderTypes DEF Senders
  <2> QED
    BY <1>1, <2>1, <2>2, <2>3, <2>4, <2>5, <2>6 DEF UserStep
<1>2. CASE SendLoopStep
  BY <1>2, SendLoopTypes, SenderTypes DEF SendLoopStep, Senders
<1>3. CASE RecvLoopStep
  <2>1. cur[RecvLoop] \in Conns
    BY <1>3 DEF RecvLoopStep, Callbacks, HandlerTail, EventCallBack, EventStale,
                EventKeeps, EventDeletes, EventBegins, Usable, TypeOK
  <2> QED
    BY <1>3, <2>1, RecvTypes DEF RecvLoopStep
<1>4. ASSUME NEW p \in Peers, OnAccept(p) PROVE TypeOK' /\ PcOK'
  <2>1. NewConn \in Conns
    BY <1>4, NewConnFresh DEF OnAccept, Fresh
  <2> QED
    BY <1>4, <2>1, RecvTypes
<1> QED
  BY <1>1, <1>2, <1>3, <1>4, CallsTypes, RecvTypes DEF Next

LEMMA NextExact == CommInv /\ Next => Exact'
<1> SUFFICES ASSUME CommInv, Next PROVE Exact'
  OBVIOUS
<1>1. ASSUME NEW u \in Users, Calls(u) PROVE Exact'
  BY <1>1, QuietCalls, RefusedExact, StartedExact DEF Calls
<1>2. ASSUME NEW u \in Users, UserStep(u) PROVE Exact'
  BY <1>2, ConnectingExact, DoneExact, GivesUpExact, FindExact,
     DisconnectDeleteExact, QuietSends DEF UserStep, Senders
<1>3. CASE SendLoopStep
  BY <1>3, QuietSends DEF SendLoopStep, Senders
<1>4. CASE RecvLoopStep
  <2>1. cur[RecvLoop] \in Conns
    BY <1>4, Names DEF RecvLoopStep, Callbacks, HandlerTail, EventCallBack, EventStale,
                EventKeeps, EventDeletes, EventBegins, Usable, CommInv, TypeOK
  <2> QED
    BY <1>4, <2>1, QuietSends, HandlersExact, EventCallBackExact DEF RecvLoopStep
<1>5. ASSUME NEW c \in Conns, Dispatch(c) \/ LinkUp(c) \/ LinkDown(c) PROVE Exact'
  BY <1>5, QuietSends, HandlersExact DEF Dispatch
<1> QED
  BY <1>1, <1>2, <1>3, <1>4, <1>5, AcceptExact DEF Next

LEMMA CommInvariant == Spec => []CommInv
<1>1. CommInv /\ UNCHANGED vars => CommInv'
  BY DEF CommInv, TypeOK, PcOK, Exact, MutexExact, CurExact, ObjectsExact,
         ConnectExact, DisconnectExact, EventExact, PoolExact, DeletedExact,
         ReferencesLive, Live, Pooled, vars
<1>2. CommInv /\ [Next]_vars => CommInv'
  BY <1>1, NextTypes, NextExact DEF CommInv
<1> QED
  BY <1>2, InitInv, PTL DEF Spec

\* TypeOK: every variable of the communicator keeps its type.
THEOREM TypeCorrect == Spec => []TypeOK
  BY CommInvariant, PTL DEF CommInv

\* LocksProtect: whatever the interleaving of Connect, Disconnect, sends, handlers
\* and accepts, no connection is deleted under Connect, Disconnect or
\* EventCallBack; what is left are the named uses that no lock covers.
THEOREM LocksDoProtect == Spec => []LocksProtect
<1>1. CommInv => LocksProtect
  <2> SUFFICES ASSUME CommInv, NEW t \in Threads, Undefined(t)
               PROVE  \/ pc[t] \in {"send", "flush", "callbacks", "tail"}
                      \/ pc[t] = "unlock" /\ ~ Pooled(cur[t])
                      \/ /\ pc[t] = "stale" /\ t = RecvLoop
                         /\ \E p \in Peers : pool[p] = cur[t]
    BY DEF LocksProtect
  <2> USE Names DEF CommInv, Exact, Undefined
  <2>1. pc[t] \notin {"idle", "disconnect"}
    BY DEF CurExact
  <2>2. CASE t \in Users
    <3>1. pc[t] # "delete"
      BY <2>2, CommAssumption DEF DisconnectExact, ReferencesLive, CommAssumption
    <3> QED
      BY <2>1, <2>2, <3>1 DEF ConnectExact, DeletedExact, PcOK, UserPc
  <2>3. CASE t = RecvLoop
    BY <2>1, <2>3 DEF EventExact, DeletedExact, PcOK, RecvPc
  <2>4. CASE t = SendLoop
    BY <2>1, <2>4 DEF PcOK, SendPc
  <2> QED
    BY <2>2, <2>3, <2>4 DEF Threads
<1> QED
  BY <1>1, CommInvariant, PTL

\* ReferencesLive: the handlers in epoll, the infos and the pool refer to live
\* connections only, but for the entry of a peer whose port was reused.
THEOREM ReferencesStayLive == Spec => []ReferencesLive
  BY CommInvariant, PTL DEF CommInv, Exact

-----------------------------------------------------------------------------
(* TCPClient::ReceiveSync.                                                 *)

\* The number of the last reply stored: what is neither on its way nor parsed.
Stored ==
  sent - Len(requests) - Len(replies) - (IF reading = NoMessage THEN 0 ELSE 1)

\* Requests whose reply is not stored yet.
Outstanding ==
  Len(requests) + Len(replies) + (IF reading = NoMessage THEN 0 ELSE 1)

HistoryOK ==
  /\ requests \in Seq(CallNumbers)
  /\ replies \in Seq(CallNumbers)
  /\ answer \in [CallNumbers -> CallNumbers \cup {NoMessage}]

\* The loop thread holds the connection while it has a reply in hand, and finds
\* the slot still free when it comes to store it.
LoopExact ==
  /\ cpc[Loop] \in {"idle", "spin", "lock"}
  /\ cpc[Loop] = "idle" <=> reading = NoMessage
  /\ connection_mutex = Loop <=> reading # NoMessage
  /\ cpc[Loop] = "lock" => received_message_ = NoMessage

\* Requests, replies, the reply in hand and the one stored are consecutive.
OrderExact ==
  /\ \A i \in 1 .. Len(requests) : requests[i] = sent - Len(requests) + i
  /\ \A i \in 1 .. Len(replies) :
       replies[i] = sent - Len(requests) - Len(replies) + i
  /\ reading # NoMessage => reading = sent - Len(requests) - Len(replies)
  /\ received_message_ # NoMessage => received_message_ = Stored
  /\ Stored \in Nat

\* The caller: it holds mutex_ from Begin to its Send, with the slot empty, and
\* waits for the request sent last.
CallerExact ==
  \A c \in Callers :
    /\ cpc[c] \in {"idle", "send", "wait"}
    /\ cpc[c] = "send" <=> mutex = c
    /\ cpc[c] = "send" => received_message_ = NoMessage /\ sent < MaxRequests
    /\ cpc[c] = "wait" => call[c] = sent /\ sent \in CallNumbers

\* Replies can be late by the calls that gave up, and by the one under way.
LagExact ==
  \A c \in Callers :
    Outstanding <= IF cpc[c] = "wait" /\ received_message_ = NoMessage
                   THEN timeouts + 1 ELSE timeouts

\* A reply stored while a call waits was returned to no call before.
AnswersExact ==
  /\ \A i \in CallNumbers : answer[i] <= Stored
  /\ \A c \in Callers : cpc[c] = "wait" /\ received_message_ # NoMessage
       => \A i \in CallNumbers : answer[i] < received_message_

ClientInv ==
  /\ ClientTypeOK /\ HistoryOK
  /\ LoopExact /\ OrderExact /\ CallerExact /\ LagExact /\ AnswersExact
  /\ AnswerLag

LEMMA Bounds == MaxRequests \in Nat /\ MaxTimeouts \in Nat
  BY ClientAssumption DEF ClientAssumption

LEMMA ClientNames ==
  ASSUME NEW c, Callers = {c}
  PROVE  c # Loop /\ c # NoHolder /\ Loop # NoHolder
  BY ClientNamesAssumption DEF ClientNamesAssumption, Loop, NoHolder

LEMMA ClientInitInv == ClientInit => ClientInv
<1> SUFFICES ASSUME ClientInit PROVE ClientInv
  OBVIOUS
<1> USE ClientNamesAssumption, Bounds DEF ClientNamesAssumption
<1>1. ClientTypeOK /\ HistoryOK
  BY DEF ClientInit, ClientTypeOK, HistoryOK, NoMessage, CallNumbers
<1>2. LoopExact /\ CallerExact
  BY DEF ClientInit, LoopExact, CallerExact, Loop, NoHolder
<1>3. Len(requests) = 0 /\ Len(replies) = 0 /\ reading = 0 /\ sent = 0
      /\ received_message_ = 0 /\ timeouts = 0
  BY DEF ClientInit, NoMessage
<1>4. OrderExact /\ LagExact
  BY <1>3 DEF OrderExact, LagExact, Stored, Outstanding, NoMessage
<1>5. AnswersExact /\ AnswerLag
  BY <1>3 DEF ClientInit, AnswersExact, AnswerLag, Stored, NoMessage
<1> QED
  BY <1>1, <1>2, <1>4, <1>5 DEF ClientInv

\* The steps of the caller that leave the queues alone.
LEMMA BeginInv ==
  ASSUME NEW c, Callers = {c}, ClientInv, Begin(c) \/ SendFails(c)
  PROVE  ClientInv'
<1> USE ClientNames, Bounds DEF ClientInv
<1>1. /\ UNCHANGED <<connection_mutex, call, reading, requests, replies, sent, timeouts, answer>>
      /\ received_message_' \in {received_message_, NoMessage}
      /\ \/ cpc[c] = "idle" /\ cpc' = [cpc EXCEPT ![c] = "send"] /\ mutex' = c
              /\ received_message_' = NoMessage /\ sent < MaxRequests
         \/ cpc[c] = "send" /\ cpc' = [cpc EXCEPT ![c] = "idle"] /\ mutex' = NoHolder
  BY DEF Begin, SendFails
<1>2. cpc'[c] # "wait" /\ cpc'[Loop] = cpc[Loop] /\ cpc[c] # "wait"
  BY <1>1 DEF ClientTypeOK
<1>3. ClientTypeOK' /\ HistoryOK'
  BY <1>1 DEF ClientTypeOK, HistoryOK
<1>4. LoopExact' /\ CallerExact'
  BY <1>1, <1>2 DEF LoopExact, CallerExact, ClientTypeOK
<1>5. OrderExact' /\ LagExact'
  BY <1>1, <1>2 DEF OrderExact, LagExact, Stored, Outstanding
<1>6. AnswersExact' /\ AnswerLag'
  BY <1>1, <1>2 DEF AnswersExact, AnswerLag, Stored
<1> QED
  BY <1>3, <1>4, <1>5, <1>6

LEMMA SendInv ==
  ASSUME NEW c, Callers = {c}, ClientInv, SendRequest(c)
  PROVE  ClientInv'
<1> USE ClientNames, Bounds DEF ClientInv
<1>1. /\ UNCHANGED <<received_message_, connection_mutex, reading, replies, timeouts, answer>>
      /\ cpc[c] = "send" /\ cpc' = [cpc EXCEPT ![c] = "wait"]
      /\ sent' = sent + 1 /\ requests' = Append(requests, sent + 1)
      /\ call' = [call EXCEPT ![c] = sent + 1] /\ mutex' = NoHolder
      /\ connection_mutex = NoHolder
  BY DEF SendRequest
<1>2. received_message_ = NoMessage /\ sent + 1 \in CallNumbers /\ reading = NoMessage
  <2>1. received_message_ = NoMessage /\ sent < MaxRequests
    BY <1>1 DEF CallerExact
  <2>2. sent + 1 \in CallNumbers
    BY <2>1 DEF ClientTypeOK, CallNumbers
  <2>3. reading = NoMessage
    BY <1>1 DEF LoopExact
  <2> QED
    BY <2>1, <2>2, <2>3
<1>3. /\ Len(requests') = Len(requests) + 1 /\ requests' \in Seq(CallNumbers)
      /\ \A i \in 1 .. Len(requests) : requests'[i] = requests[i]
      /\ requests'[Len(requests) + 1] = sent + 1
  BY <1>1, <1>2, AppendProperties DEF HistoryOK
<1>4. Len(requests) \in Nat /\ Len(replies) \in Nat /\ sent \in Nat /\ timeouts \in Nat
  BY LenProperties DEF HistoryOK, ClientTypeOK
<1>5. cpc'[c] = "wait" /\ cpc'[Loop] = cpc[Loop]
  BY <1>1 DEF ClientTypeOK
<1>6. ClientTypeOK' /\ HistoryOK'
  BY <1>1, <1>2, <1>3, <1>4 DEF ClientTypeOK, HistoryOK, CallNumbers
<1>7. LoopExact' /\ CallerExact'
  BY <1>1, <1>2, <1>5 DEF LoopExact, CallerExact, ClientTypeOK
<1>8. Stored' = Stored /\ Outstanding' = Outstanding + 1
  BY <1>1, <1>3, <1>4 DEF Stored, Outstanding
<1>9. OrderExact'
  <2>1. \A i \in 1 .. Len(requests') : requests'[i] = sent' - Len(requests') + i
    <3> SUFFICES ASSUME NEW i \in 1 .. Len(requests')
                 PROVE  requests'[i] = sent' - Len(requests') + i
      OBVIOUS
    <3>1. CASE i \in 1 .. Len(requests)
      BY <1>1, <1>3, <1>4, <3>1 DEF OrderExact
    <3>2. CASE i = Len(requests) + 1
      BY <1>1, <1>3, <1>4, <3>2
    <3> QED
      BY <1>3, <1>4, <3>1, <3>2
  <2>2. \A i \in 1 .. Len(replies') :
          replies'[i] = sent' - Len(requests') - Len(replies') + i
    BY <1>1, <1>3, <1>4 DEF OrderExact
  <2> QED
    BY <1>1, <1>2, <1>8, <2>1, <2>2 DEF OrderExact
<1>10. LagExact'
  BY <1>1, <1>2, <1>4, <1>5, <1>8 DEF LagExact, Outstanding
<1>11. AnswersExact' /\ AnswerLag'
  BY <1>1, <1>2, <1>8 DEF AnswersExact, AnswerLag
<1> QED
  BY <1>6, <1>7, <1>9, <1>10, <1>11

LEMMA EndInv ==
  ASSUME NEW c, Callers = {c}, ClientInv, Return(c) \/ Timeout(c)
  PROVE  ClientInv'
<1> USE ClientNames, Bounds DEF ClientInv
<1>1. /\ UNCHANGED <<received_message_, mutex, connection_mutex, call, reading, requests,
                     replies, sent>>
      /\ cpc[c] = "wait" /\ cpc' = [cpc EXCEPT ![c] = "idle"] /\ mutex = NoHolder
      /\ call[c] = sent /\ sent \in CallNumbers
  BY DEF Return, Timeout, CallerExact
<1>2. cpc'[c] = "idle" /\ cpc'[Loop] = cpc[Loop]
  BY <1>1 DEF ClientTypeOK
<1>3. /\ Len(requests) \in Nat /\ Len(replies) \in Nat /\ sent \in Nat
      /\ timeouts \in Nat /\ Stored \in Nat /\ Outstanding \in Nat
      /\ Stored = sent - Outstanding
  BY LenProperties DEF HistoryOK, ClientTypeOK, OrderExact, Stored, Outstanding
<1>4. Stored' = Stored /\ Outstanding' = Outstanding
  BY <1>1 DEF Stored, Outstanding
<1>5. LoopExact' /\ CallerExact' /\ OrderExact'
  BY <1>1, <1>2, <1>4 DEF LoopExact, CallerExact, OrderExact, ClientTypeOK
<1>6. CASE Return(c)
  <2>1. /\ answer' = [answer EXCEPT ![sent] = Stored] /\ timeouts' = timeouts
        /\ received_message_ = Stored /\ Stored # 0 /\ Stored \in CallNumbers
    BY <1>1, <1>6 DEF Return, OrderExact, ClientTypeOK, NoMessage
  <2>2. Outstanding <= timeouts
    BY <1>1, <1>6 DEF LagExact, Return
  <2>3. \A i \in CallNumbers : answer[i] < Stored /\ answer[i] \in Nat
    BY <1>1, <1>6, <2>1 DEF AnswersExact, Return, HistoryOK, CallNumbers, NoMessage
  <2>4. \A i \in CallNumbers : answer'[i] = IF i = sent THEN Stored ELSE answer[i]
    BY <2>1 DEF HistoryOK
  <2>5. ClientTypeOK' /\ HistoryOK'
    BY <1>1, <2>1 DEF ClientTypeOK, HistoryOK
  <2>6. LagExact'
    BY <1>2, <1>4, <2>1, <2>2 DEF LagExact
  <2>7. AnswersExact'
    BY <1>2, <1>3, <1>4, <2>3, <2>4 DEF AnswersExact
  <2>8. AnswerLag'
    <3>1. \A i \in CallNumbers : answer'[i] # NoMessage
            => answer'[i] <= i /\ i - answer'[i] <= timeouts
      BY <1>3, <2>2, <2>4 DEF AnswerLag
    <3>2. \A i, j \in CallNumbers :
            answer'[i] = answer'[j] /\ answer'[i] # NoMessage => i = j
      BY <1>3, <2>3, <2>4 DEF AnswerLag
    <3> QED
      BY <2>1, <3>1, <3>2 DEF AnswerLag
  <2> QED
    BY <1>5, <2>5, <2>6, <2>7, <2>8
<1>7. CASE Timeout(c)
  <2>1. /\ answer' = answer /\ timeouts' = timeouts + 1 /\ timeouts < MaxTimeouts
        /\ received_message_ = NoMessage
    BY <1>7 DEF Timeout
  <2>2. ClientTypeOK' /\ HistoryOK'
    BY <1>1, <2>1 DEF ClientTypeOK, HistoryOK
  <2>3. LagExact'
    BY <1>1, <1>2, <1>3, <1>4, <2>1 DEF LagExact
  <2>4. AnswersExact'
    BY <1>2, <1>4, <2>1 DEF AnswersExact
  <2>5. AnswerLag'
    <3>1. \A i \in CallNumbers : i \in Nat /\ answer[i] \in Nat
      BY DEF HistoryOK, CallNumbers, NoMessage
    <3> QED
      BY <1>3, <2>1, <3>1 DEF AnswerLag
  <2> QED
    BY <1>5, <2>2, <2>3, <2>4, <2>5
<1> QED
  BY <1>6, <1>7

LEMMA ReadInv ==
  ASSUME NEW c, Callers = {c}, ClientInv, ReadReply
  PROVE  ClientInv'
<1> USE ClientNames, Bounds DEF ClientInv
<1>1. /\ UNCHANGED <<received_message_, mutex, call, requests, sent, timeouts, answer>>
      /\ cpc[Loop] = "idle" /\ replies # <<>>
      /\ connection_mutex' = Loop /\ reading' = Head(replies) /\ replies' = Tail(replies)
      /\ cpc' = [cpc EXCEPT ![Loop] = "spin"]
  BY DEF ReadReply
<1>2. /\ replies \in Seq(CallNumbers) /\ Len(replies) \in Nat \ {0}
      /\ Len(requests) \in Nat /\ sent \in Nat
  BY <1>1, LenProperties, EmptySeq DEF HistoryOK, ClientTypeOK
<1>3. /\ Head(replies) = replies[1] /\ Head(replies) \in CallNumbers
      /\ Tail(replies) \in Seq(CallNumbers) /\ Len(Tail(replies)) = Len(replies) - 1
      /\ \A i \in 1 .. Len(Tail(replies)) : Tail(replies)[i] = replies[i + 1]
  BY <1>1, <1>2, HeadTailProperties
<1>4. Head(replies) # NoMessage
  BY <1>3 DEF CallNumbers, NoMessage
<1>5. reading = NoMessage
  BY <1>1 DEF LoopExact
<1>6. Stored' = Stored /\ Outstanding' = Outstanding
  BY <1>1, <1>2, <1>3, <1>4, <1>5 DEF Stored, Outstanding
<1>7. cpc'[c] = cpc[c] /\ cpc'[Loop] = "spin"
  BY <1>1 DEF ClientTypeOK
<1>8. ClientTypeOK' /\ HistoryOK'
  BY <1>1, <1>3 DEF ClientTypeOK, HistoryOK
<1>9. LoopExact' /\ CallerExact'
  BY <1>1, <1>4, <1>7 DEF LoopExact, CallerExact
<1>10. OrderExact'
  <2>1. \A i \in 1 .. Len(replies') :
          replies'[i] = sent' - Len(requests') - Len(replies') + i
    BY <1>1, <1>2, <1>3 DEF OrderExact
  <2>2. reading' = sent' - Len(requests') - Len(replies')
    <3>1. 1 \in 1 .. Len(replies)
      BY <1>2
    <3>2. replies[1] = sent - Len(requests) - Len(replies) + 1
      BY <3>1 DEF OrderExact
    <3> QED
      BY <1>1, <1>2, <1>3, <3>2
  <2> QED
    BY <1>1, <1>6, <2>1, <2>2 DEF OrderExact
<1>11. LagExact' /\ AnswersExact' /\ AnswerLag'
  BY <1>1, <1>6, <1>7 DEF LagExact, AnswersExact, AnswerLag
<1> QED
  BY <1>8, <1>9, <1>10, <1>11

LEMMA StoreInv ==
  ASSUME NEW c, Callers = {c}, ClientInv, SlotFree \/ Store
  PROVE  ClientInv'
<1> USE ClientNames, Bounds DEF ClientInv
<1>0. Len(requests) \in Nat /\ Len(replies) \in Nat /\ sent \in Nat /\ timeouts \in Nat
  BY LenProperties DEF HistoryOK, ClientTypeOK
<1>1. CASE SlotFree
  <2>1. /\ UNCHANGED <<received_message_, mutex, connection_mutex, call, reading, requests,
                       replies, sent, timeouts, answer>>
        /\ cpc[Loop] = "spin" /\ received_message_ = NoMessage
        /\ cpc' = [cpc EXCEPT ![Loop] = "lock"]
    BY <1>1 DEF SlotFree
  <2>2. cpc'[c] = cpc[c] /\ cpc'[Loop] = "lock"
    BY <2>1 DEF ClientTypeOK
  <2>3. ClientTypeOK' /\ HistoryOK'
    BY <2>1 DEF ClientTypeOK, HistoryOK
  <2>4. LoopExact' /\ CallerExact' /\ OrderExact'
    BY <2>1, <2>2 DEF LoopExact, CallerExact, OrderExact, Stored
  <2>5. LagExact' /\ AnswersExact' /\ AnswerLag'
    BY <2>1, <2>2 DEF LagExact, AnswersExact, AnswerLag, Stored, Outstanding
  <2> QED
    BY <2>3, <2>4, <2>5
<1>2. CASE Store
  <2>1. /\ UNCHANGED <<mutex, call, requests, replies, sent, timeouts, answer>>
        /\ cpc[Loop] = "lock" /\ mutex = NoHolder
        /\ received_message_' = reading /\ reading' = NoMessage
        /\ connection_mutex' = NoHolder /\ cpc' = [cpc EXCEPT ![Loop] = "idle"]
    BY <1>2 DEF Store
  <2>2. cpc'[c] = cpc[c] /\ cpc'[Loop] = "idle" /\ cpc[c] # "send"
    BY <2>1 DEF ClientTypeOK, CallerExact
  <2>3. /\ reading # NoMessage /\ received_message_ = NoMessage
        /\ reading = sent - Len(requests) - Len(replies)
    BY <2>1 DEF LoopExact, OrderExact
  <2>4. Stored' = Stored + 1 /\ Outstanding' = Outstanding - 1 /\ reading = Stored + 1
        /\ Stored \in Nat /\ Outstanding \in Nat
    BY <1>0, <2>1, <2>3 DEF Stored, Outstanding, OrderExact
  <2>5. ClientTypeOK' /\ HistoryOK'
    BY <2>1 DEF ClientTypeOK, HistoryOK
  <2>6. LoopExact'
    BY <2>1, <2>2 DEF LoopExact
  <2>a. CallerExact'
    BY <2>1, <2>2 DEF CallerExact
  <2>b. OrderExact'
    BY <2>1, <2>4 DEF OrderExact
  <2>7. LagExact'
    BY <1>0, <2>1, <2>2, <2>3, <2>4 DEF LagExact
  <2>8. AnswersExact'
    <3>1. \A i \in CallNumbers : answer[i] \in Nat /\ answer[i] <= Stored
      BY DEF AnswersExact, HistoryOK, CallNumbers, NoMessage
    <3> QED
      BY <2>1, <2>4, <3>1 DEF AnswersExact
  <2>9. AnswerLag'
    BY <2>1 DEF AnswerLag
  <2> QED
    BY <2>5, <2>6, <2>7, <2>8, <2>9, <2>a, <2>b
<1> QED
  BY <1>1, <1>2

LEMMA ServerInv ==
  ASSUME NEW c, Callers = {c}, ClientInv, ServerReplies
  PROVE  ClientInv'
<1> USE ClientNames, Bounds DEF ClientInv
<1>1. /\ UNCHANGED <<received_message_, mutex, connection_mutex, cpc, call, reading, sent,
                     timeouts, answer>>
      /\ requests # <<>>
      /\ replies' = Append(replies, Head(requests)) /\ requests' = Tail(requests)
  BY DEF ServerReplies
<1>2. /\ requests \in Seq(CallNumbers) /\ Len(requests) \in Nat \ {0}
      /\ replies \in Seq(CallNumbers) /\ Len(replies) \in Nat /\ sent \in Nat
  BY <1>1, LenProperties, EmptySeq DEF HistoryOK, ClientTypeOK
<1>3. /\ Head(requests) = requests[1] /\ Head(requests) \in CallNumbers
      /\ Tail(requests) \in Seq(CallNumbers) /\ Len(Tail(requests)) = Len(requests) - 1
      /\ \A i \in 1 .. Len(Tail(requests)) : Tail(requests)[i] = requests[i + 1]
  BY <1>1, <1>2, HeadTailProperties
<1>4. /\ Len(replies') = Len(replies) + 1 /\ replies' \in Seq(CallNumbers)
      /\ \A i \in 1 .. Len(replies) : replies'[i] = replies[i]
      /\ replies'[Len(replies) + 1] = Head(requests)
  BY <1>1, <1>2, <1>3, AppendProperties
<1>5. Stored' = Stored /\ Outstanding' = Outstanding
  BY <1>1, <1>2, <1>3, <1>4 DEF Stored, Outstanding
<1>6. ClientTypeOK' /\ HistoryOK'
  BY <1>1, <1>3, <1>4 DEF ClientTypeOK, HistoryOK
<1>7. LoopExact' /\ CallerExact'
  BY <1>1 DEF LoopExact, CallerExact
<1>8. OrderExact'
  <2>1. \A i \in 1 .. Len(requests') : requests'[i] = sent' - Len(requests') + i
    BY <1>1, <1>2, <1>3 DEF OrderExact
  <2>2. \A i \in 1 .. Len(replies') :
          replies'[i] = sent' - Len(requests') - Len(replies') + i
    <3> SUFFICES ASSUME NEW i \in 1 .. Len(replies')
                 PROVE  replies'[i] = sent' - Len(requests') - Len(replies') + i
      OBVIOUS
    <3>1. CASE i \in 1 .. Len(replies)
      BY <1>1, <1>2, <1>3, <1>4, <3>1 DEF OrderExact
    <3>2. CASE i = Len(replies) + 1
      BY <1>1, <1>2, <1>3, <1>4, <3>2 DEF OrderExact
    <3> QED
      BY <1>2, <1>4, <3>1, <3>2
  <2> QED
    BY <1>1, <1>2, <1>3, <1>4, <1>5, <2>1, <2>2 DEF OrderExact
<1>9. LagExact' /\ AnswersExact' /\ AnswerLag'
  BY <1>1, <1>5 DEF LagExact, AnswersExact, AnswerLag
<1> QED
  BY <1>6, <1>7, <1>8, <1>9

LEMMA ClientInvariant ==
  ASSUME NEW c, Callers = {c}
  PROVE  ClientSpec => []ClientInv
<1>1. ClientInv /\ UNCHANGED clientVars => ClientInv'
  BY DEF ClientInv, ClientTypeOK, HistoryOK, LoopExact, OrderExact, CallerExact, LagExact,
         AnswersExact, AnswerLag, Stored, Outstanding, clientVars
<1>2. ClientInv /\ [ClientNext]_clientVars => ClientInv'
  BY <1>1, BeginInv, SendInv, EndInv, ReadInv, StoreInv, ServerInv
     DEF ClientNext, CallerStep, LoopStep
<1> QED
  BY <1>2, ClientInitInv, PTL DEF ClientSpec

\* AnswerLag: with one caller, ReceiveSync returns the reply to its own request or
\* to one at most as many calls earlier as calls have timed out, and never a reply
\* that an earlier call has returned.
THEOREM AnswersLagBehind ==
  ASSUME NEW c, Callers = {c}
  PROVE  ClientSpec => []AnswerLag
  BY ClientInvariant, PTL DEF ClientInv

\* NoDeadlockWithoutTimeout: with one caller, the opposite lock orders of
\* ReceiveSync and of the message handler cannot block before a call has timed out.
THEOREM DeadlockNeedsTimeout ==
  ASSUME NEW c, Callers = {c}
  PROVE  ClientSpec => []NoDeadlockWithoutTimeout
<1>1. ClientInv => NoDeadlockWithoutTimeout
  <2> SUFFICES ASSUME ClientInv, Deadlocked PROVE timeouts > 0
    BY DEF NoDeadlockWithoutTimeout
  <2>1. cpc[c] = "send" /\ connection_mutex = Loop
    BY DEF Deadlocked
  <2>2. reading # NoMessage
    BY <2>1 DEF ClientInv, LoopExact
  <2>3. Len(requests) \in Nat /\ Len(replies) \in Nat /\ timeouts \in Nat
    BY Bounds, LenProperties DEF ClientInv, HistoryOK, ClientTypeOK
  <2>4. Outstanding <= timeouts
    BY <2>1 DEF ClientInv, LagExact
  <2> QED
    BY <2>2, <2>3, <2>4 DEF Outstanding
<1> QED
  BY <1>1, ClientInvariant, PTL
=============================================================================
