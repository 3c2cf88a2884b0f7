----------------------------- MODULE Connection -----------------------------
(***************************************************************************)
(* The data path of a TCP connection: Connection (net/src/connection.cc)   *)
(* over TCPSocketOperation (net/src/tcp_socket_operation.cc), a client and *)
(* a server end.  Client threads call TCPComm::Send; the loop thread of    *)
(* each end reads, parses and hands messages to the message handler; the   *)
(* server's handler answers every request, the client's answers none.      *)
(*                                                                         *)
(* conn->mutex_ is held around everything but the kernel's buffers, so a   *)
(* step is one system call with the code up to the next one.  A byte is    *)
(* <<message, position>>: the first HeaderLen positions are the            *)
(* MessageHeader, the others name, to, from and body.  Closing a           *)
(* connection under a thread that uses it is the subject of TcpComm; here  *)
(* the threads of a closed end stop.                                       *)
(***************************************************************************)
EXTENDS Integers, Sequences, SequencesExt

CONSTANTS
  Requests,     \* the requests clients send
  Senders,      \* client threads that call Send
  HeaderLen,    \* sizeof(MessageHeader), in model bytes
  BodyLens,     \* lengths of what follows the header
  MaxBodyLen,   \* MAX_KMSG_BODY_LEN and its like
  QueueLen,     \* SENDMSG_QUEUELEN
  Capacity,     \* bytes the kernel buffers in one direction
  MaxRecvCount, \* max_recv_count of ReadCallBack
  MaxIntr       \* bound on reads that end early with another errno

ASSUME ConnectionAssumption ==
  /\ {HeaderLen, MaxBodyLen, QueueLen, Capacity, MaxRecvCount} \subseteq Nat \ {0}
  /\ BodyLens \subseteq Nat \ {0}
  /\ MaxIntr \in Nat

VARIABLES
  len,      \* length of what follows the header, per request and its reply
  todo,     \* requests not yet given to Send
  conn,     \* the Connection object of each end
  pc,       \* what each thread is doing
  wire,     \* bytes an end has written and its peer not yet read
  link,     \* is the TCP connection up?
  intr,     \* reads ended early so far
  filled,   \* history: messages each end began to send
  handled,  \* history: messages given to each end's handler
  freed     \* history: how often each message was deleted

vars == <<len, todo, conn, pc, wire, link, intr, filled, handled, freed>>

Ends == {"client", "server"}
Peer(e) == IF e = "client" THEN "server" ELSE "client"

Loop(e)   == <<"loop", e>>
Loops     == {Loop(e) : e \in Ends}
Threads   == Senders \cup Loops
EndOf(t)  == IF t = Loop("server") THEN "server" ELSE "client"

Request(r) == <<"request", r>>
Reply(r)   == <<"reply", r>>
Messages   == {Request(r) : r \in Requests} \cup {Reply(r) : r \in Requests}
Size(m)    == HeaderLen + len[m[2]]

Nobody == <<"nobody">>
NoMsg  == <<"none">>

\* The senders are neither loop threads nor the holder of a free mutex.
ASSUME NamesAssumption == Senders \cap (Loops \cup {Nobody}) = {}

\* Connection::Connection, after the handshake.
NewConnection ==
  [state |-> "kConnected", mutex |-> Nobody, closed |-> FALSE,
   queue |-> <<>>, send_message |-> NoMsg, total_send_len |-> 0,
   iov |-> 0,        \* bytes left in send_kernel_msg
   sendLen |-> 0, epollout |-> FALSE,
   recv_state |-> "kMsgHeader", recv_len |-> 0, total_recv_len |-> 0,
   recvLen |-> 0, header |-> <<>>, body |-> <<>>, count |-> 0, hup |-> FALSE]

-----------------------------------------------------------------------------
(* Sending.                                                                *)

\* Connection::FillSendMessage: m becomes the message being sent, whatever
\* was there before.
FillSendMessage(c, m) ==
  [c EXCEPT !.send_message = m, !.total_send_len = Size(m), !.iov = Size(m)]

\* Head of Flush's loop and entry of SendMessage: the next message of the
\* queue if none is under way.
EnterSendMessage(c) ==
  IF c.total_send_len = 0
  THEN [FillSendMessage(c, Head(c.queue)) EXCEPT !.queue = Tail(c.queue), !.sendLen = 0]
  ELSE [c EXCEPT !.sendLen = 0]

\* What Flush will have begun to send when it enters SendMessage.
Filled(e, c) == IF c.total_send_len = 0 THEN Append(filled[e], Head(c.queue)) ELSE filled[e]

\* Thread t gives up the mutex and what it was doing.
Release(t, c) ==
  /\ conn' = [conn EXCEPT ![EndOf(t)] = [c EXCEPT !.mutex = Nobody]]
  /\ pc' = [pc EXCEPT ![t] = "idle"]

\* ReadCallBack after a ReceiveMessage that returned 1: unlock, and read on
\* unless that was the third message.
NextMessage(t, c) ==
  /\ conn' = [conn EXCEPT ![EndOf(t)] = [c EXCEPT !.mutex = Nobody, !.count = @ + 1]]
  /\ pc' = [pc EXCEPT ![t] = IF c.count + 1 < MaxRecvCount THEN "lock" ELSE "tail"]

\* Flush returns: to Send and the write callback, or to Connection's
\* ReceiveMessage that sent a reply.
FlushReturns(t, c) ==
  IF pc[t] = "reply" THEN NextMessage(t, c) ELSE Release(t, c)

\* TCPComm::Send(r, sync): dropped when the queue is full or the connection not
\* up, queued behind a message under way.
Send(t, r) ==
  LET c == conn["client"]
      queued == IF c.total_send_len = 0 THEN FillSendMessage(c, Request(r))
                ELSE [c EXCEPT !.queue = Append(@, Request(r))]
  IN  /\ r \in todo
      /\ pc[t] = "idle"
      /\ c.mutex = Nobody /\ ~ c.closed
      /\ todo' = todo \ {r}
      /\ IF Len(c.queue) >= QueueLen \/ c.state # "kConnected"
         THEN /\ freed' = [freed EXCEPT ![Request(r)] = @ + 1]
              /\ UNCHANGED <<conn, pc, filled>>
         ELSE /\ conn' = [conn EXCEPT !["client"] = [EnterSendMessage(queued) EXCEPT !.mutex = t]]
              /\ pc' = [pc EXCEPT ![t] = "send"]
              /\ filled' = IF c.total_send_len = 0
                           THEN [filled EXCEPT !["client"] = Append(@, Request(r))]
                           ELSE filled
              /\ UNCHANGED freed
      /\ UNCHANGED <<len, wire, link, intr, handled>>

Sending(t) == pc[t] \in {"send", "write", "reply"} /\ ~ conn[EndOf(t)].closed

\* The next k bytes of the message under way.
NextBytes(c, k) ==
  [i \in 1 .. k |-> <<c.send_message, Size(c.send_message) - c.iov + i>>]

\* sendmsg takes k bytes.  With the last one the message is deleted and Flush
\* ends, leaving the queue alone.
SendmsgBytes(t, k) ==
  LET e == EndOf(t)
      c == conn[e]
      sent == [c EXCEPT !.iov = @ - k, !.sendLen = @ + k]
  IN  /\ Sending(t) /\ link
      /\ k \in 1 .. c.iov
      /\ Len(wire[e]) + k <= Capacity
      /\ wire' = [wire EXCEPT ![e] = @ \o NextBytes(c, k)]
      /\ IF sent.sendLen = c.total_send_len
         THEN /\ FlushReturns(t, [sent EXCEPT !.total_send_len = 0, !.send_message = NoMsg])
              /\ freed' = [freed EXCEPT ![c.send_message] = @ + 1]
         ELSE /\ conn' = [conn EXCEPT ![e] = sent]
              /\ UNCHANGED <<pc, freed>>
      /\ UNCHANGED <<len, todo, link, intr, filled, handled>>

\* sendmsg of empty vectors answers 0 and the loop of SendMessage goes round:
\* sendLen can no longer reach totalSendLen.
SendmsgNothing(t) ==
  /\ Sending(t) /\ link
  /\ conn[EndOf(t)].iov = 0
  /\ UNCHANGED vars

\* Flush returns on EAGAIN and leaves the message half sent.
SendmsgEagainMutant(t) ==
  LET e == EndOf(t)
      c == conn[e]
  IN  /\ Sending(t) /\ link
      /\ c.iov > 0
      /\ Len(wire[e]) = Capacity
      /\ FlushReturns(t, [c EXCEPT !.total_send_len = @ - c.sendLen, !.epollout = TRUE])
      /\ UNCHANGED <<len, todo, wire, link, intr, filled, handled, freed>>

\* The last of EAGAIN_RETRY answers EAGAIN (those before change nothing):
\* SendMessage forgets what it has sent, and Flush, having asked for EPOLLOUT,
\* calls it again.
SendmsgEagain(t) ==
  LET e == EndOf(t)
      c == conn[e]
  IN  /\ Sending(t) /\ link
      /\ c.iov > 0
      /\ Len(wire[e]) = Capacity
      /\ conn' = [conn EXCEPT ![e] = EnterSendMessage([c EXCEPT !.epollout = TRUE])]
      /\ UNCHANGED <<len, todo, pc, wire, link, intr, filled, handled, freed>>

\* Flush goes on after an error.
SendmsgErrorMutant(t) ==
  /\ Sending(t) /\ ~ link
  /\ conn' = [conn EXCEPT ![EndOf(t)].state = "kDisconnecting"]
  /\ UNCHANGED <<len, todo, pc, wire, link, intr, filled, handled, freed>>

\* Any other error ends Flush with the message half sent.
SendmsgError(t) ==
  /\ Sending(t) /\ ~ link
  /\ FlushReturns(t, [conn[EndOf(t)] EXCEPT !.state = "kDisconnecting"])
  /\ UNCHANGED <<len, todo, wire, link, intr, filled, handled, freed>>

-----------------------------------------------------------------------------
(* The loop thread: SocketEventHandler, its callbacks and ParseMessage.    *)

\* EPOLLOUT: no longer wait for it, and let WriteCallBack flush.
HandleWritable(e) ==
  LET t == Loop(e)
      c == conn[e]
      pending == c.total_send_len # 0 \/ c.queue # <<>>
  IN  /\ pc[t] = "idle" /\ ~ c.closed
      /\ c.epollout
      /\ Len(wire[e]) < Capacity
      /\ c.state = "kConnected" => c.mutex = Nobody
      /\ IF c.state = "kConnected" /\ pending
         THEN /\ conn' = [conn EXCEPT ![e] = [EnterSendMessage(c) EXCEPT !.epollout = FALSE, !.mutex = t]]
              /\ pc' = [pc EXCEPT ![t] = "write"]
              /\ filled' = [filled EXCEPT ![e] = Filled(e, c)]
         ELSE /\ conn' = [conn EXCEPT ![e].epollout = FALSE]
              /\ UNCHANGED <<pc, filled>>
      /\ UNCHANGED <<len, todo, wire, link, intr, handled, freed>>

\* EPOLLIN, with EPOLLHUP when the link is gone: ReadCallBack.
HandleReadable(e) ==
  /\ pc[Loop(e)] = "idle" /\ ~ conn[e].closed
  /\ wire[Peer(e)] # <<>> \/ ~ link
  /\ pc' = [pc EXCEPT ![Loop(e)] = "lock"]
  /\ conn' = [conn EXCEPT ![e].count = 0, ![e].hup = ~ link]
  /\ UNCHANGED <<len, todo, wire, link, intr, filled, handled, freed>>

\* TCPComm::ReceiveMessage: lock, and resume ParseMessage where it stopped.
LockReceive(e) ==
  /\ pc[Loop(e)] = "lock"
  /\ conn[e].mutex = Nobody
  /\ conn' = [conn EXCEPT ![e].mutex = Loop(e), ![e].recvLen = 0]
  /\ pc' = [pc EXCEPT ![Loop(e)] = conn[e].recv_state]
  /\ UNCHANGED <<len, todo, wire, link, intr, filled, handled, freed>>

\* ParseMessage returns false: unlock, on to the end of SocketEventHandler.
ParseFails(e, c) ==
  /\ conn' = [conn EXCEPT ![e] = [c EXCEPT !.mutex = Nobody]]
  /\ pc' = [pc EXCEPT ![Loop(e)] = "tail"]

\* The header is complete: check the magic number and the lengths it gives
\* and prepare the buffers (FillRecvMessage).
HeaderDone(e, c) ==
  LET first == c.header[1]
      valid == first[2] = 1 /\ len[first[1][2]] <= MaxBodyLen
      ready == [c EXCEPT !.recv_state = "kBody", !.recv_len = 0, !.recvLen = 0,
                         !.total_recv_len = len[first[1][2]], !.body = <<>>]
  IN  IF valid
      THEN /\ conn' = [conn EXCEPT ![e] = ready]
           /\ pc' = [pc EXCEPT ![Loop(e)] = "kBody"]
      ELSE ParseFails(e, [c EXCEPT !.recv_len = 0, !.state = "kDisconnecting"])

\* recv of k bytes of the header, behind those of earlier calls.
RecvHeader(e, k) ==
  LET c == conn[e]
      at == c.recv_len + c.recvLen
      got == [c EXCEPT !.header = SubSeq(@, 1, at) \o SubSeq(wire[Peer(e)], 1, k),
                       !.recvLen = @ + k]
  IN  /\ pc[Loop(e)] = "kMsgHeader"
      /\ k \in 1 .. Len(wire[Peer(e)])
      /\ at + k <= HeaderLen
      /\ wire' = [wire EXCEPT ![Peer(e)] = SubSeq(@, k + 1, Len(@))]
      /\ IF at + k = HeaderLen THEN HeaderDone(e, got)
         ELSE conn' = [conn EXCEPT ![e] = got] /\ UNCHANGED pc
      /\ UNCHANGED <<len, todo, link, intr, filled, handled, freed>>

\* recv answers EAGAIN: keep how much of the header is there and return.
RecvHeaderEagain(e) ==
  LET c == conn[e]
  IN  /\ pc[Loop(e)] = "kMsgHeader"
      /\ link /\ wire[Peer(e)] = <<>>
      /\ ParseFails(e, [c EXCEPT !.recv_len = @ + c.recvLen])
      /\ UNCHANGED <<len, todo, wire, link, intr, filled, handled, freed>>

\* The handler of the server answers a request, that of the client returns
\* NULL_MSG.  The answer replaces send_message without a look at
\* total_send_len.
HandleMessage(e, c) ==
  LET m == c.header[1][1]
      done == [c EXCEPT !.recv_state = "kMsgHeader", !.header = <<>>, !.body = <<>>,
                        !.recvLen = 0, !.total_recv_len = 0]
  IN  /\ handled' = [handled EXCEPT ![e] = Append(@, [msg |-> m, body |-> c.body])]
      /\ IF m[1] = "request"
         THEN /\ conn' = [conn EXCEPT ![e] = EnterSendMessage(FillSendMessage(done, Reply(m[2])))]
              /\ pc' = [pc EXCEPT ![Loop(e)] = "reply"]
              /\ filled' = [filled EXCEPT ![e] = Append(@, Reply(m[2]))]
         ELSE NextMessage(Loop(e), done) /\ UNCHANGED filled

\* recvmsg of k bytes of the body; on EAGAIN the loop of ReceiveMessage
\* sleeps and tries again, holding the mutex.
RecvBody(e, k) ==
  LET c == conn[e]
      got == [c EXCEPT !.body = @ \o SubSeq(wire[Peer(e)], 1, k), !.recvLen = @ + k]
  IN  /\ pc[Loop(e)] = "kBody"
      /\ k \in 1 .. Len(wire[Peer(e)])
      /\ got.recvLen <= c.total_recv_len
      /\ wire' = [wire EXCEPT ![Peer(e)] = SubSeq(@, k + 1, Len(@))]
      /\ IF got.recvLen = c.total_recv_len THEN HandleMessage(e, got)
         ELSE conn' = [conn EXCEPT ![e] = got] /\ UNCHANGED <<pc, filled, handled>>
      /\ UNCHANGED <<len, todo, link, intr, freed>>

\* Forgets to take off what was received.
RecvIntrMutant(e) ==
  LET c == conn[e]
  IN  /\ intr < MaxIntr
      /\ intr' = intr + 1
      /\ \/ /\ pc[Loop(e)] = "kMsgHeader"
            /\ ParseFails(e, [c EXCEPT !.recv_len = @ + c.recvLen])
         \/ /\ pc[Loop(e)] = "kBody"
            /\ ParseFails(e, c)
      /\ UNCHANGED <<len, todo, wire, link, filled, handled, freed>>

\* A read ends with an errno that is neither EAGAIN nor a broken connection:
\* both loops return what they have, and the next event resumes.
RecvIntr(e) ==
  LET c == conn[e]
  IN  /\ intr < MaxIntr
      /\ intr' = intr + 1
      /\ \/ /\ pc[Loop(e)] = "kMsgHeader"
            /\ ParseFails(e, [c EXCEPT !.recv_len = @ + c.recvLen])
         \/ /\ pc[Loop(e)] = "kBody"
            /\ ParseFails(e, [c EXCEPT !.total_recv_len = @ - c.recvLen])
      /\ UNCHANGED <<len, todo, wire, link, filled, handled, freed>>

\* The connection is broken or the peer has closed it.
RecvError(e) ==
  /\ pc[Loop(e)] \in {"kMsgHeader", "kBody"}
  /\ ~ link
  /\ ParseFails(e, [conn[e] EXCEPT !.state = "kDisconnecting"])
  /\ UNCHANGED <<len, todo, wire, link, intr, filled, handled, freed>>

\* Forgets the message under way.
CloseFreesMutant(c) == Range(c.queue)

\* Connection::Close: what was being sent and what was queued is deleted.
CloseFrees(c) ==
  Range(c.queue) \cup (IF c.total_send_len # 0 THEN {c.send_message} ELSE {})

\* End of SocketEventHandler: a connection that failed is closed, which
\* breaks the link for the peer.
HandlerTail(e) ==
  LET c == conn[e]
      broken == c.state = "kDisconnecting" \/ c.hup
      closed == [c EXCEPT !.state = "kDisconnecting", !.closed = TRUE, !.queue = <<>>,
                          !.send_message = IF c.total_send_len # 0 THEN NoMsg ELSE @]
  IN  /\ pc[Loop(e)] = "tail"
      /\ pc' = [pc EXCEPT ![Loop(e)] = "idle"]
      /\ IF broken
         THEN /\ conn' = [conn EXCEPT ![e] = closed]
              /\ link' = FALSE
              /\ freed' = [m \in Messages |-> freed[m] + IF m \in CloseFrees(c) THEN 1 ELSE 0]
         ELSE UNCHANGED <<conn, link, freed>>
      /\ UNCHANGED <<len, todo, wire, intr, filled, handled>>

-----------------------------------------------------------------------------

\* The network breaks the connection; bytes under way may still be read.
LinkFails ==
  /\ link
  /\ link' = FALSE
  /\ UNCHANGED <<len, todo, conn, pc, wire, intr, filled, handled, freed>>

Init ==
  /\ len \in [Requests -> BodyLens]
  /\ todo = Requests
  /\ conn = [e \in Ends |-> NewConnection]
  /\ pc = [t \in Threads |-> "idle"]
  /\ wire = [e \in Ends |-> <<>>]
  /\ link = TRUE
  /\ intr = 0
  /\ filled = [e \in Ends |-> <<>>]
  /\ handled = [e \in Ends |-> <<>>]
  /\ freed = [m \in Messages |-> 0]

Sendmsg(t) ==
  \/ \E k \in 1 .. Capacity : SendmsgBytes(t, k)
  \/ SendmsgNothing(t)
  \/ SendmsgEagain(t)
  \/ SendmsgError(t)

LoopStep(e) ==
  \/ HandleWritable(e)
  \/ HandleReadable(e)
  \/ LockReceive(e)
  \/ \E k \in 1 .. Capacity : RecvHeader(e, k) \/ RecvBody(e, k)
  \/ RecvHeaderEagain(e)
  \/ RecvError(e)
  \/ HandlerTail(e)

Next ==
  \/ \E t \in Senders, r \in Requests : Send(t, r)
  \/ \E t \in Threads : Sendmsg(t)
  \/ \E e \in Ends : LoopStep(e) \/ RecvIntr(e)
  \/ LinkFails

\* A thread that can go on does, and one that waits for the mutex gets it in
\* the end.
Fairness ==
  /\ \A t \in Threads : WF_vars(Sendmsg(t))
  /\ \A e \in Ends : WF_vars(LoopStep(e)) /\ SF_vars(LockReceive(e))

Spec == Init /\ [][Next]_vars /\ Fairness
-----------------------------------------------------------------------------
(* Correctness.                                                            *)

\* Every variable has its type.
TypeOK ==
  /\ todo \subseteq Requests
  /\ \A e \in Ends :
       /\ conn[e].mutex \in Threads \cup {Nobody}
       /\ conn[e].state \in {"kConnected", "kDisconnecting"}
       /\ conn[e].recv_state \in {"kMsgHeader", "kBody"}
       /\ conn[e].iov <= conn[e].total_send_len
       /\ Len(wire[e]) <= Capacity
  /\ pc \in [Threads -> {"idle", "send", "write", "reply", "lock", "kMsgHeader", "kBody", "tail"}]

\* Whatever the kernel does to the stream (bytes taken and delivered in pieces,
\* EAGAIN, reads that end early, a message of the peer sent in between), an
\* end's handler sees the messages the other end began to send, in that order,
\* none twice, none with bytes of another.
FramesExact ==
  \A e \in Ends :
    LET bodyOf(m) == [i \in 1 .. len[m[2]] |-> <<m, HeaderLen + i>>]
    IN  /\ Len(handled[e]) <= Len(filled[Peer(e)])
        /\ \A i \in 1 .. Len(handled[e]) :
             /\ handled[e][i].msg = filled[Peer(e)][i]
             /\ handled[e][i].body = bodyOf(filled[Peer(e)][i])

\* Between two critical sections a connection that is up has no message half
\* sent and none queued: Send, the write callback and the reply of the handler
\* may all call FillSendMessage without losing another's message.
NoHalfSent ==
  \A e \in Ends :
    conn[e].mutex = Nobody /\ conn[e].state = "kConnected"
      => conn[e].total_send_len = 0 /\ conn[e].queue = <<>>

\* Every request given to Send is deleted exactly once, and not while the
\* connection still refers to it.
RequestsFreedOnce ==
  \A r \in Requests \ todo :
    LET m == Request(r)
        held == conn["client"].send_message = m \/ m \in Range(conn["client"].queue)
    IN  freed[m] = IF held THEN 0 ELSE 1

\* Both ends wait for the other to read, each holding the mutex its own
\* reader needs.
BothFull ==
  /\ link
  /\ \A e \in Ends : \E t \in Threads :
       EndOf(t) = e /\ Sending(t) /\ conn[e].iov > 0 /\ Len(wire[e]) = Capacity

\* SendMessage waits for bytes it has already sent.
CountLost(t) == Sending(t) /\ conn[EndOf(t)].iov = 0

\* A Send that has begun returns, unless its connection is closed under it,
\* the two ends block each other, or EAGAIN_RETRY ran out half way through a
\* message.
SendReturns ==
  \A t \in Senders :
    pc[t] = "send" ~> \/ pc[t] = "idle"
                      \/ conn["client"].closed
                      \/ BothFull
                      \/ \E u \in Threads : CountLost(u)
=============================================================================
