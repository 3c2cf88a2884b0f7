-------------------------- MODULE ConnectionProofs --------------------------
(***************************************************************************)
(* Proofs about Connection, for any requests, senders, lengths and         *)
(* capacities.                                                             *)
(***************************************************************************)
EXTENDS Connection, SequenceTheorems, TLAPS

\* What an end sends, and the bytes of it.
SentBy(e) ==
  IF e = "client" THEN {Request(r) : r \in Requests} ELSE {Reply(r) : r \in Requests}
BytesOf(e) == SentBy(e) \X Int

ThreadsOf(e) == {t \in Threads : EndOf(t) = e}

\* The fields of a Connection.  The queue is in it for the code's sake: nothing
\* ever waits there.
ConnType(e) ==
  [state : {"kConnected", "kDisconnecting"}, mutex : ThreadsOf(e) \cup {Nobody},
   closed : BOOLEAN, queue : {<<>>}, send_message : SentBy(e) \cup {NoMsg},
   total_send_len : Nat, iov : Nat, sendLen : Nat, epollout : BOOLEAN,
   recv_state : {"kMsgHeader", "kBody"}, recv_len : Nat, total_recv_len : Int,
   recvLen : Nat, header : Seq(BytesOf(Peer(e))), body : Seq(BytesOf(Peer(e))),
   count : Nat, hup : BOOLEAN]

LoopPc == {"idle", "reply", "lock", "kMsgHeader", "kBody", "tail"}

\* Every variable has its type.
ConnTypeOK ==
  /\ len \in [Requests -> BodyLens]
  /\ todo \in SUBSET Requests
  /\ conn \in [Ends -> ConnType("client") \cup ConnType("server")]
  /\ \A e \in Ends : conn[e] \in ConnType(e)
  /\ pc \in [Threads -> LoopPc \cup {"send"}]
  /\ \A t \in Senders : pc[t] \in {"idle", "send"}
  /\ \A e \in Ends : pc[Loop(e)] \in LoopPc
  /\ DOMAIN wire = Ends
  /\ \A e \in Ends : wire[e] \in Seq(BytesOf(e))
  /\ intr \in Nat
  /\ freed \in [Messages -> Nat]

SendPc == {"send", "reply"}

\* What an end sends: a message under way in an end that is up is under the
\* mutex of a thread that sends it.
SendExact(e) ==
  LET c == conn[e]
  IN  /\ c.iov <= c.total_send_len
      /\ c.closed => /\ c.send_message = NoMsg /\ c.state = "kDisconnecting"
                     /\ pc[Loop(e)] = "idle"
                     /\ ~ link
      /\ ~ c.closed => c.total_send_len = IF c.send_message = NoMsg THEN 0
                                          ELSE Size(c.send_message)
      /\ c.total_send_len # 0 /\ c.state = "kConnected"
           => c.mutex # Nobody /\ pc[c.mutex] \in SendPc
      /\ \A t \in ThreadsOf(e) :
           /\ pc[t] \in SendPc \cup {"kMsgHeader", "kBody"} => c.mutex = t
           /\ pc[t] \in SendPc => c.sendLen + c.iov <= c.total_send_len

\* What an end reads: the header holds the bytes it is said to hold.
ReadExact(e) ==
  LET c == conn[e]
  IN  /\ c.recv_len <= Len(c.header)
      /\ pc[Loop(e)] = "kMsgHeader" => c.recv_len + c.recvLen <= Len(c.header)
      /\ pc[Loop(e)] \in {"kMsgHeader", "kBody"} => c.recv_state = pc[Loop(e)]
      /\ c.recv_state = "kBody" => Len(c.header) >= 1 /\ c.recv_len = 0

\* A request not yet sent is known to nobody.
TodoExact ==
  \A r \in todo : freed[Request(r)] = 0 /\ conn["client"].send_message # Request(r)

ConnInv ==
  /\ ConnTypeOK
  /\ \A e \in Ends : SendExact(e) /\ ReadExact(e)
  /\ TodoExact
  /\ RequestsFreedOnce

-----------------------------------------------------------------------------
(* Names and lengths.                                                      *)

LEMMA EndFacts ==
  /\ \A e \in Ends : /\ Peer(e) \in Ends /\ Peer(e) # e /\ Peer(Peer(e)) = e
                     /\ Loop(e) \in ThreadsOf(e) /\ Loop(e) \in Threads
                     /\ EndOf(Loop(e)) = e /\ Loop(e) \notin Senders
                     /\ Loop(e) # Nobody
                     /\ \A f \in Ends : f = e \/ f = Peer(e)
  /\ \A t \in Senders : /\ t \in ThreadsOf("client") /\ t \in Threads
                        /\ EndOf(t) = "client" /\ t # Nobody
  /\ \A t \in Threads : /\ t \in ThreadsOf(EndOf(t)) /\ EndOf(t) \in Ends
                        /\ t \in Senders \/ t = Loop(EndOf(t))
                        /\ t # Nobody
<1>1. Loop("client") # Loop("server") /\ Loop("client") # Nobody /\ Loop("server") # Nobody
  BY DEF Loop, Nobody
<1>2. \A t \in Senders : t # Loop("client") /\ t # Loop("server") /\ t # Nobody
  BY NamesAssumption DEF NamesAssumption, Loops, Ends
<1>3. \A t \in Threads : t \in Senders \/ t = Loop("client") \/ t = Loop("server")
  BY DEF Threads, Loops, Ends
<1>4. Loop("client") \in Threads /\ Loop("server") \in Threads /\ Senders \subseteq Threads
  BY DEF Threads, Loops, Ends
<1>5. EndOf(Loop("client")) = "client" /\ EndOf(Loop("server")) = "server"
  BY <1>1 DEF EndOf
<1>6. \A t \in Senders : EndOf(t) = "client"
  BY <1>2 DEF EndOf
<1> HIDE DEF EndOf, Loop, Nobody
<1> QED
  BY <1>1, <1>2, <1>3, <1>4, <1>5, <1>6 DEF ThreadsOf, Peer, Ends

LEMMA MessageFacts ==
  ASSUME len \in [Requests -> BodyLens]
  PROVE  /\ \A r \in Requests : /\ Request(r) \in Messages /\ Reply(r) \in Messages
                              /\ Request(r)[1] = "request" /\ Request(r)[2] = r
                              /\ Reply(r)[1] = "reply" /\ Reply(r)[2] = r
                              /\ Request(r) \in SentBy("client") /\ Reply(r) \in SentBy("server")
                              /\ Request(r) \notin SentBy("server") /\ Request(r) # NoMsg
         /\ \A e \in Ends : \A m \in SentBy(e) :
              /\ m \in Messages /\ m # NoMsg
              /\ m[2] \in Requests
              /\ m[1] = IF e = "client" THEN "request" ELSE "reply"
              /\ len[m[2]] \in Nat /\ len[m[2]] > 0
              /\ Size(m) \in Nat /\ Size(m) > HeaderLen /\ Size(m) > 0
              /\ Size(m) = HeaderLen + len[m[2]]
<1>1. \A r \in Requests : Request(r) # NoMsg /\ Reply(r) # NoMsg
  BY DEF Request, Reply, NoMsg
<1>2. \A q, r \in Requests : Request(q) # Reply(r)
  BY DEF Request, Reply
<1>3. \A r \in Requests : /\ Request(r)[1] = "request" /\ Request(r)[2] = r
                          /\ Reply(r)[1] = "reply" /\ Reply(r)[2] = r
  BY DEF Request, Reply
<1>4. \A r \in Requests : len[r] \in Nat /\ len[r] > 0
  <2>1. \A b \in BodyLens : b \in Nat /\ b > 0
    BY ConnectionAssumption DEF ConnectionAssumption
  <2>2. \A r \in Requests : len[r] \in BodyLens
    OBVIOUS
  <2> QED
    BY <2>1, <2>2
<1>5. HeaderLen \in Nat /\ HeaderLen > 0
  BY ConnectionAssumption DEF ConnectionAssumption
<1> HIDE DEF Request, Reply, NoMsg
<1> QED
  BY <1>1, <1>2, <1>3, <1>4, <1>5 DEF SentBy, Messages, Size, Ends

\* A step of one end leaves the other as it was.
LEMMA OtherEnd ==
  ASSUME NEW e \in Ends, SendExact(e), ReadExact(e), ConnTypeOK,
         conn'[e] = conn[e], len' = len, link' => link,
         \A t \in ThreadsOf(e) : pc'[t] = pc[t]
  PROVE  SendExact(e)' /\ ReadExact(e)'
<1>1. Loop(e) \in ThreadsOf(e)
  BY EndFacts
<1>2. \A m : Size(m)' = Size(m)
  BY DEF Size
<1>3. conn[e].mutex \in ThreadsOf(e) \cup {Nobody}
  BY DEF ConnTypeOK, ConnType
<1> QED
  BY <1>1, <1>2, <1>3 DEF SendExact, ReadExact

\* What a step does to the rest of the state.
EnvOK ==
  /\ len' = len /\ (link' => link)
  /\ todo' \in SUBSET Requests
  /\ intr' \in Nat
  /\ freed' \in [Messages -> Nat]
  /\ DOMAIN wire' = Ends /\ \A f \in Ends : wire'[f] \in Seq(BytesOf(f))

\* What a step of thread t of end e leaves alone.
LEMMA EndStep ==
  ASSUME ConnInv, NEW e \in Ends, NEW g \in Ends, g # e, NEW t \in ThreadsOf(e),
         NEW d \in ConnType(e), conn' = [conn EXCEPT ![e] = d],
         NEW x, pc' = [pc EXCEPT ![t] = x],
         x \in (IF t \in Senders THEN {"idle", "send"} ELSE LoopPc),
         EnvOK
  PROVE  /\ ConnTypeOK' /\ SendExact(g)' /\ ReadExact(g)'
<1>1. /\ DOMAIN conn = Ends /\ pc \in [Threads -> LoopPc \cup {"send"}]
      /\ \A f \in Ends : conn[f] \in ConnType(f)
      /\ \A u \in Senders : pc[u] \in {"idle", "send"}
      /\ \A f \in Ends : pc[Loop(f)] \in LoopPc
      /\ len \in [Requests -> BodyLens]
  BY DEF ConnInv, ConnTypeOK
<1>2. \A f \in Ends : f = e \/ f = g
  BY DEF Ends
<1>3. conn'[e] = d /\ conn'[g] = conn[g] /\ DOMAIN conn' = Ends
  BY <1>1, <1>2
<1>4. t \in Threads /\ EndOf(t) = e
  BY DEF ThreadsOf
<1>5. pc'[t] = x /\ \A u \in Threads : u # t => pc'[u] = pc[u]
  BY <1>1, <1>4
<1>6. x \in LoopPc \cup {"send"}
  BY DEF LoopPc
<1>7. pc' \in [Threads -> LoopPc \cup {"send"}]
  BY <1>1, <1>4, <1>6
<1>8. \A u \in Senders : pc'[u] \in {"idle", "send"}
  BY <1>1, <1>5, EndFacts
<1>9. \A f \in Ends : pc'[Loop(f)] \in LoopPc
  BY <1>1, <1>5, EndFacts
<1>10. \A f \in Ends : conn'[f] \in ConnType(f)
  BY <1>1, <1>2, <1>3
<1>11. ConnTypeOK'
  <2>1. d \in ConnType("client") \cup ConnType("server")
    BY DEF Ends
  <2>2. conn' \in [Ends -> ConnType("client") \cup ConnType("server")]
    BY <2>1 DEF ConnInv, ConnTypeOK
  <2> QED
    BY <2>2, <1>1, <1>3, <1>7, <1>8, <1>9, <1>10 DEF ConnTypeOK, EnvOK
<1>12. \A u \in ThreadsOf(g) : pc'[u] = pc[u]
  BY <1>2, <1>4, <1>5 DEF ThreadsOf
<1>13. SendExact(g)' /\ ReadExact(g)'
  BY <1>2, <1>3, <1>12, OtherEnd DEF ConnInv, EnvOK
<1> QED
  BY <1>11, <1>13

Critical == SendPc \cup {"kMsgHeader", "kBody"}

\* What holds of the connection when its mutex is given up or its holder goes
\* on with x.
ExactAt(d, x) ==
  /\ ~ d.closed
  /\ d.iov <= d.total_send_len
  /\ d.total_send_len = IF d.send_message = NoMsg THEN 0 ELSE Size(d.send_message)
  /\ d.total_send_len # 0 /\ d.state = "kConnected" => x \in SendPc
  /\ x \in SendPc => d.sendLen + d.iov <= d.total_send_len
  /\ d.recv_len <= Len(d.header)
  /\ x = "kMsgHeader" => d.recv_len + d.recvLen <= Len(d.header)
  /\ x \in {"kMsgHeader", "kBody"} => d.recv_state = x
  /\ d.recv_state = "kBody" => Len(d.header) >= 1 /\ d.recv_len = 0

\* A step of a critical section of thread t, which goes on with x.
LEMMA CriticalStep ==
  ASSUME ConnInv, NEW e \in Ends, NEW t \in ThreadsOf(e),
         NEW d \in ConnType(e), conn' = [conn EXCEPT ![e] = d],
         NEW x, pc' = [pc EXCEPT ![t] = x],
         x \in (IF t \in Senders THEN {"idle", "send"} ELSE LoopPc),
         conn[e].mutex \in {t, Nobody},
         d.mutex = IF x \in Critical THEN t ELSE Nobody,
         ExactAt(d, x), EnvOK
  PROVE  ConnTypeOK' /\ \A f \in Ends : SendExact(f)' /\ ReadExact(f)'
<1>1. PICK g \in Ends : g # e /\ \A f \in Ends : f = e \/ f = g
  BY DEF Ends
<1>2. ConnTypeOK' /\ SendExact(g)' /\ ReadExact(g)'
  BY <1>1, EndStep
<1>3. pc \in [Threads -> LoopPc \cup {"send"}] /\ DOMAIN conn = Ends
  BY DEF ConnInv, ConnTypeOK
<1>4. t \in Threads /\ EndOf(t) = e /\ t # Nobody /\ Loop(e) \in ThreadsOf(e)
  BY EndFacts DEF ThreadsOf
<1>5. \A u \in ThreadsOf(e) : u # t => pc[u] \notin Critical
  BY <1>4, EndFacts DEF ConnInv, SendExact, Critical, ThreadsOf
<1>6. conn'[e] = d
  BY <1>3
<1>7. pc'[t] = x /\ \A u \in ThreadsOf(e) : u # t => pc'[u] = pc[u]
  BY <1>3, <1>4 DEF ThreadsOf
<1>8. \A m : Size(m)' = Size(m)
  BY DEF Size, EnvOK
<1>9. SendExact(e)'
  BY <1>4, <1>5, <1>6, <1>7, <1>8 DEF SendExact, ExactAt, Critical, SendPc
<1>10. ReadExact(e)'
  BY <1>4, <1>5, <1>6, <1>7 DEF ReadExact, ExactAt, Critical, SendPc
<1> QED
  BY <1>1, <1>2, <1>9, <1>10

\* A step that neither deletes a request nor changes what the client sends.
LEMMA RequestsKept ==
  ASSUME ConnInv, ConnTypeOK', todo' = todo,
         \A r \in Requests : freed'[Request(r)] = freed[Request(r)],
         conn'["client"].send_message = conn["client"].send_message
  PROVE  TodoExact' /\ RequestsFreedOnce'
<1>1. conn["client"].queue = <<>> /\ conn'["client"].queue = <<>> /\ todo \in SUBSET Requests
  BY DEF ConnInv, ConnTypeOK, ConnType, Ends
<1> QED
  BY <1>1 DEF ConnInv, TodoExact, RequestsFreedOnce

\* A step that deletes the request the client was sending.
LEMMA RequestDeleted ==
  ASSUME ConnInv, ConnTypeOK', todo' = todo, NEW q \in Requests,
         conn["client"].send_message = Request(q),
         conn'["client"].send_message = NoMsg,
         \A r \in Requests :
           freed'[Request(r)] = IF r = q THEN freed[Request(r)] + 1 ELSE freed[Request(r)]
  PROVE  TodoExact' /\ RequestsFreedOnce'
<1>1. /\ len \in [Requests -> BodyLens] /\ todo \in SUBSET Requests
      /\ TodoExact /\ RequestsFreedOnce
      /\ conn["client"].queue = <<>> /\ conn'["client"].queue = <<>>
  BY DEF ConnInv, ConnTypeOK, ConnType, Ends
<1>2. /\ \A r \in Requests : Request(r) = Request(q) => r = q
      /\ \A r \in Requests : Request(r) # NoMsg
  BY <1>1, MessageFacts
<1>3. q \notin todo /\ freed[Request(q)] = 0
  BY <1>1 DEF TodoExact, RequestsFreedOnce
<1>4. TodoExact'
  BY <1>1, <1>2, <1>3 DEF TodoExact
<1>5. RequestsFreedOnce'
  BY <1>1, <1>2, <1>3 DEF RequestsFreedOnce, Range
<1> QED
  BY <1>4, <1>5

LEMMA InitInv == Init => ConnInv
<1> SUFFICES ASSUME Init PROVE ConnInv
  OBVIOUS
<1>1. \A e \in Ends : conn[e] = NewConnection /\ wire[e] = <<>>
  BY DEF Init
<1>2. \A t \in Threads : pc[t] = "idle"
  BY DEF Init
<1>3. \A e \in Ends : NewConnection \in ConnType(e)
  BY DEF NewConnection, ConnType
<1> HIDE DEF NewConnection
<1>4. ConnTypeOK
  <2>1. conn \in [Ends -> ConnType("client") \cup ConnType("server")]
    BY <1>3 DEF Init, Ends
  <2>2. DOMAIN wire = Ends /\ \A e \in Ends : wire[e] \in Seq(BytesOf(e))
    BY <1>1 DEF Init
  <2>3. pc \in [Threads -> LoopPc \cup {"send"}]
    BY DEF Init, LoopPc
  <2> QED
    BY <2>1, <2>2, <2>3, <1>1, <1>2, <1>3, EndFacts DEF Init, ConnTypeOK, LoopPc
<1>5. \A e \in Ends : SendExact(e) /\ ReadExact(e)
  BY <1>1, <1>2, EndFacts DEF SendExact, ReadExact, NewConnection, SendPc, ThreadsOf, Init
<1>6. len \in [Requests -> BodyLens]
  BY DEF Init
<1>7. TodoExact /\ RequestsFreedOnce
  BY <1>1, <1>6, MessageFacts DEF Init, TodoExact, RequestsFreedOnce, NewConnection, Ends
<1> QED
  BY <1>4, <1>5, <1>7 DEF ConnInv

-----------------------------------------------------------------------------
(* Sending.                                                                *)

LEMMA SendInv ==
  ASSUME ConnInv, NEW t \in Senders, NEW r \in Requests, Send(t, r)
  PROVE  ConnInv'
<1> DEFINE c == conn["client"]
           d == conn'["client"]
<1>1. /\ ConnTypeOK /\ SendExact("client") /\ ReadExact("client")
      /\ SendExact("server") /\ ReadExact("server")
      /\ TodoExact /\ RequestsFreedOnce
  BY DEF ConnInv, Ends
<1>2. c \in ConnType("client") /\ len \in [Requests -> BodyLens] /\ DOMAIN conn = Ends
  BY <1>1 DEF ConnTypeOK, Ends
<1>3. /\ r \in todo /\ pc[t] = "idle" /\ c.mutex = Nobody /\ ~ c.closed
      /\ todo' = todo \ {r} /\ len' = len /\ wire' = wire /\ link' = link /\ intr' = intr
  BY DEF Send
<1>4. \A m : Size(m)' = Size(m)
  BY <1>3 DEF Size
<1>5. CASE Len(c.queue) >= QueueLen \/ c.state # "kConnected"
  <2>1. conn' = conn /\ pc' = pc /\ freed' = [freed EXCEPT ![Request(r)] = @ + 1]
    BY <1>5 DEF Send
  <2>2. ConnTypeOK'
    BY <1>1, <1>3, <2>1, MessageFacts, <1>2 DEF ConnTypeOK
  <2>3. \A e \in Ends : SendExact(e)' /\ ReadExact(e)'
    BY <1>1, <1>3, <2>1, OtherEnd DEF Ends
  <2>4. c.queue = <<>> /\ freed \in [Messages -> Nat] /\ todo \in SUBSET Requests
    BY <1>1, <1>2 DEF ConnType, ConnTypeOK
  <2>5. \A q \in Requests : Request(q) \in Messages /\ (Request(q) = Request(r) => q = r)
    BY <1>2, MessageFacts
  <2>6. TodoExact' /\ RequestsFreedOnce'
    BY <1>1, <1>3, <2>1, <2>4, <2>5 DEF TodoExact, RequestsFreedOnce, Range
  <2> QED
    BY <2>2, <2>3, <2>6 DEF ConnInv
<1>6. CASE ~ (Len(c.queue) >= QueueLen \/ c.state # "kConnected")
  <2> DEFINE m == Request(r)
  <2>1. c.state = "kConnected" /\ c.total_send_len = 0 /\ c.queue = <<>>
    BY <1>1, <1>2, <1>3, <1>6 DEF SendExact, ConnType
  <2>2. m \in SentBy("client") /\ m # NoMsg /\ Size(m) \in Nat /\ Size(m) > 0
    BY <1>2, MessageFacts DEF Ends
  <2>3. FillSendMessage(c, m) \in ConnType("client")
    BY <1>2, <2>2 DEF FillSendMessage, ConnType
  <2> DEFINE f == [c EXCEPT !.send_message = m, !.total_send_len = Size(m), !.iov = Size(m),
                            !.sendLen = 0, !.mutex = t]
  <2>4. /\ conn' = [conn EXCEPT !["client"] =
                      [EnterSendMessage(FillSendMessage(c, m)) EXCEPT !.mutex = t]]
        /\ pc' = [pc EXCEPT ![t] = "send"]
        /\ freed' = freed
    BY <1>6, <2>1 DEF Send
  <2>5. [EnterSendMessage(FillSendMessage(c, m)) EXCEPT !.mutex = t] = f
    <3>1. FillSendMessage(c, m).total_send_len # 0
      BY <1>2, <2>2 DEF FillSendMessage, ConnType
    <3>2. EnterSendMessage(FillSendMessage(c, m)) = [FillSendMessage(c, m) EXCEPT !.sendLen = 0]
      BY <3>1 DEF EnterSendMessage
    <3> QED
      BY <1>2, <3>2 DEF FillSendMessage, ConnType
  <2>6. t \in ThreadsOf("client") /\ t \in Threads /\ t # Nobody
    BY EndFacts
  <2>7. f \in ConnType("client")
    BY <1>2, <2>2, <2>6 DEF ConnType
  <2>8. ConnTypeOK' /\ \A e \in Ends : SendExact(e)' /\ ReadExact(e)'
    <3>1. ExactAt(f, "send") /\ f.mutex = t
      BY <1>1, <1>2, <1>3, <2>1, <2>2 DEF ExactAt, ReadExact, ConnType, SendPc
    <3>2. conn' = [conn EXCEPT !["client"] = f]
      BY <2>4, <2>5
    <3>3. EnvOK
      BY <1>1, <1>3, <2>4 DEF ConnTypeOK, EnvOK
    <3> HIDE DEF f, m
    <3>4. "client" \in Ends /\ "send" \in Critical
      BY DEF Ends, Critical, SendPc
    <3> QED
      BY <1>3, <2>4, <2>6, <2>7, <3>1, <3>2, <3>3, <3>4, CriticalStep
  <2>9. d.send_message = m /\ d.queue = <<>>
    BY <1>2, <2>1, <2>4, <2>5 DEF ConnType, Ends
  <2> HIDE DEF f, m, d
  <2>19. TodoExact' /\ RequestsFreedOnce'
    <3>1. \A q \in Requests : Request(q) \in Messages /\ (Request(q) = Request(r) => q = r)
      BY <1>2, MessageFacts
    <3>2. c.send_message = NoMsg /\ \A q \in Requests : Request(q) # NoMsg
      BY <1>1, <1>2, <1>3, <2>1, MessageFacts DEF SendExact, Ends, ConnType
    <3> QED
      BY <1>1, <1>3, <2>1, <2>4, <2>9, <3>1, <3>2 DEF TodoExact, RequestsFreedOnce, Range, m, d, ConnTypeOK
  <2> QED
    BY <2>8, <2>19 DEF ConnInv
<1> QED
  BY <1>5, <1>6

\* A thread that calls sendmsg holds the mutex.
LEMMA SendingFacts ==
  ASSUME ConnInv, NEW t \in Threads, Sending(t), NEW c, c = conn[EndOf(t)]
  PROVE  /\ EndOf(t) \in Ends /\ t \in ThreadsOf(EndOf(t))
         /\ c \in ConnType(EndOf(t)) /\ c.mutex = t /\ ~ c.closed
         /\ pc[t] = IF t \in Senders THEN "send" ELSE "reply"
         /\ c.sendLen + c.iov <= c.total_send_len
         /\ c.iov > 0 => c.send_message \in SentBy(EndOf(t))
         /\ c.total_send_len = IF c.send_message = NoMsg THEN 0 ELSE Size(c.send_message)
         /\ c.recv_len <= Len(c.header)
         /\ c.recv_state = "kBody" => Len(c.header) >= 1 /\ c.recv_len = 0
<1>1. EndOf(t) \in Ends /\ t \in ThreadsOf(EndOf(t))
  BY EndFacts
<1>2. c \in ConnType(EndOf(t)) /\ SendExact(EndOf(t)) /\ ReadExact(EndOf(t))
  BY <1>1 DEF ConnInv, ConnTypeOK
<1>3. ~ c.closed
  BY DEF Sending
<1>4. pc[t] = IF t \in Senders THEN "send" ELSE "reply"
  <2>1. CASE t \in Senders
    BY <2>1 DEF ConnInv, ConnTypeOK, Sending
  <2>2. CASE t \notin Senders
    <3>1. PICK e \in Ends : t = Loop(e)
      BY <2>2, EndFacts
    <3> QED
      BY <2>2, <3>1 DEF ConnInv, ConnTypeOK, Sending, LoopPc
  <2> QED
    BY <2>1, <2>2
<1>5. c.mutex = t /\ c.sendLen + c.iov <= c.total_send_len
  BY <1>1, <1>2, <1>4 DEF SendExact, SendPc
<1>6. c.total_send_len = IF c.send_message = NoMsg THEN 0 ELSE Size(c.send_message)
  BY <1>2, <1>3 DEF SendExact
<1>7. c.iov > 0 => c.send_message \in SentBy(EndOf(t))
  BY <1>2, <1>5, <1>6 DEF ConnType
<1> QED
  BY <1>1, <1>2, <1>3, <1>4, <1>5, <1>6, <1>7 DEF ReadExact

\* Flush gives the mutex up.
LEMMA FlushEffect ==
  ASSUME ConnInv, NEW t \in Threads, Sending(t),
         NEW c \in ConnType(EndOf(t)), FlushReturns(t, c)
  PROVE  \E x \in {"idle", "lock", "tail"}, n \in Nat :
           /\ conn' = [conn EXCEPT ![EndOf(t)] = [c EXCEPT !.mutex = Nobody, !.count = n]]
           /\ pc' = [pc EXCEPT ![t] = x]
           /\ t \in Senders => x = "idle"
<1>0. pc[t] = IF t \in Senders THEN "send" ELSE "reply"
  BY SendingFacts
<1>1. c.count \in Nat /\ c.count + 1 \in Nat
  BY DEF ConnType
<1>2. CASE t \in Senders
  <2>1. Release(t, c)
    BY <1>0, <1>2 DEF FlushReturns
  <2>2. [c EXCEPT !.mutex = Nobody] = [c EXCEPT !.mutex = Nobody, !.count = c.count]
    BY DEF ConnType
  <2> QED
    BY <1>1, <2>1, <2>2 DEF Release
<1>3. CASE t \notin Senders
  <2>1. NextMessage(t, c)
    BY <1>0, <1>3 DEF FlushReturns
  <2>2. [c EXCEPT !.mutex = Nobody, !.count = @ + 1]
          = [c EXCEPT !.mutex = Nobody, !.count = c.count + 1]
    BY DEF ConnType
  <2>3. (IF c.count + 1 < MaxRecvCount THEN "lock" ELSE "tail") \in {"idle", "lock", "tail"}
    OBVIOUS
  <2> QED
    BY <1>1, <1>3, <2>1, <2>2, <2>3 DEF NextMessage
<1> QED
  BY <1>2, <1>3

LEMMA FlushInv ==
  ASSUME ConnInv, NEW t \in Threads, Sending(t),
         NEW c \in ConnType(EndOf(t)), FlushReturns(t, c),
         ExactAt(c, "idle"), EnvOK
  PROVE  /\ ConnTypeOK' /\ \A f \in Ends : SendExact(f)' /\ ReadExact(f)'
         /\ conn'[EndOf(t)].send_message = c.send_message
         /\ \A f \in Ends : f # EndOf(t) => conn'[f] = conn[f]
<1> DEFINE e == EndOf(t)
<1>1. /\ e \in Ends /\ t \in ThreadsOf(e) /\ conn[e].mutex = t
      /\ pc[t] = IF t \in Senders THEN "send" ELSE "reply"
  BY SendingFacts
<1>2. PICK x \in {"idle", "lock", "tail"}, n \in Nat :
        /\ conn' = [conn EXCEPT ![e] = [c EXCEPT !.mutex = Nobody, !.count = n]]
        /\ pc' = [pc EXCEPT ![t] = x]
        /\ t \in Senders => x = "idle"
  BY FlushEffect
<1> DEFINE d == [c EXCEPT !.mutex = Nobody, !.count = n]
<1>3. d \in ConnType(e)
  BY DEF ConnType
<1>4. ExactAt(d, x) /\ d.mutex = Nobody /\ d.send_message = c.send_message
  BY <1>3 DEF ExactAt, ConnType, SendPc
<1>5. x \notin Critical /\ x \in (IF t \in Senders THEN {"idle", "send"} ELSE LoopPc)
  BY <1>2 DEF Critical, SendPc, LoopPc
<1>6. DOMAIN conn = Ends
  BY DEF ConnInv, ConnTypeOK
<1> HIDE DEF d
<1>7. conn' = [conn EXCEPT ![e] = d] /\ pc' = [pc EXCEPT ![t] = x]
  BY <1>2 DEF d
<1> HIDE DEF e
<1>8. ConnTypeOK' /\ \A f \in Ends : SendExact(f)' /\ ReadExact(f)'
  BY <1>1, <1>3, <1>4, <1>5, <1>7, CriticalStep
<1>9. conn'[e] = d /\ \A f \in Ends : f # e => conn'[f] = conn[f]
  BY <1>1, <1>6, <1>7
<1> QED
  BY <1>4, <1>8, <1>9 DEF e

LEMMA SendmsgErrorInv ==
  ASSUME ConnInv, NEW t \in Threads, SendmsgError(t)
  PROVE  ConnInv'
<1> DEFINE c == conn[EndOf(t)]
           d == [c EXCEPT !.state = "kDisconnecting"]
<1>1. Sending(t) /\ FlushReturns(t, d)
  BY DEF SendmsgError
<1>2. d \in ConnType(EndOf(t)) /\ ExactAt(d, "idle") /\ d.send_message = c.send_message
  <2>1. /\ c \in ConnType(EndOf(t)) /\ ~ c.closed
        /\ c.sendLen + c.iov <= c.total_send_len
        /\ c.total_send_len = IF c.send_message = NoMsg THEN 0 ELSE Size(c.send_message)
        /\ c.recv_len <= Len(c.header)
        /\ c.recv_state = "kBody" => Len(c.header) >= 1 /\ c.recv_len = 0
    BY <1>1, SendingFacts
  <2>2. d \in ConnType(EndOf(t))
    BY <2>1 DEF ConnType
  <2>3. /\ d.state = "kDisconnecting" /\ d.closed = c.closed /\ d.iov = c.iov
        /\ d.total_send_len = c.total_send_len /\ d.send_message = c.send_message
        /\ d.sendLen = c.sendLen /\ d.recv_len = c.recv_len /\ d.header = c.header
        /\ d.recv_state = c.recv_state
    BY <2>1 DEF ConnType
  <2>4. c.iov \in Nat /\ c.sendLen \in Nat /\ c.total_send_len \in Nat
    BY <2>1 DEF ConnType
  <2> HIDE DEF c, d
  <2> QED
    BY <2>1, <2>2, <2>3, <2>4 DEF ExactAt, SendPc
<1>3. EnvOK /\ todo' = todo /\ freed' = freed
  BY DEF SendmsgError, EnvOK, ConnInv, ConnTypeOK
<1> HIDE DEF d
<1>4. /\ ConnTypeOK' /\ \A f \in Ends : SendExact(f)' /\ ReadExact(f)'
      /\ conn'["client"].send_message = conn["client"].send_message
  BY <1>1, <1>2, <1>3, FlushInv DEF Ends
<1> QED
  BY <1>3, <1>4, RequestsKept DEF ConnInv

LEMMA SendmsgEagainInv ==
  ASSUME ConnInv, NEW t \in Threads, SendmsgEagain(t)
  PROVE  ConnInv'
<1> DEFINE e == EndOf(t)
           c == conn[e]
           d == [c EXCEPT !.epollout = TRUE, !.sendLen = 0]
<1>1. Sending(t) /\ c.iov > 0
  BY DEF SendmsgEagain
<1>2. /\ e \in Ends /\ t \in ThreadsOf(e) /\ c \in ConnType(e) /\ c.mutex = t
      /\ c.total_send_len > 0 /\ pc[t] = IF t \in Senders THEN "send" ELSE "reply"
  BY <1>1, SendingFacts DEF ConnType
<1>3. EnterSendMessage([c EXCEPT !.epollout = TRUE]) = d
  BY <1>2 DEF EnterSendMessage, ConnType
<1>4. d \in ConnType(e)
  BY <1>2 DEF ConnType
<1>5. ExactAt(d, pc[t]) /\ d.mutex = t /\ d.send_message = c.send_message
  <2>1. /\ ~ c.closed
        /\ c.sendLen + c.iov <= c.total_send_len
        /\ c.total_send_len = IF c.send_message = NoMsg THEN 0 ELSE Size(c.send_message)
        /\ c.recv_len <= Len(c.header)
        /\ c.recv_state = "kBody" => Len(c.header) >= 1 /\ c.recv_len = 0
    BY <1>1, SendingFacts
  <2>2. /\ d.state = c.state /\ d.closed = c.closed /\ d.iov = c.iov
        /\ d.total_send_len = c.total_send_len /\ d.send_message = c.send_message
        /\ d.sendLen = 0 /\ d.recv_len = c.recv_len /\ d.header = c.header
        /\ d.recv_state = c.recv_state /\ d.mutex = c.mutex
    BY <1>2 DEF ConnType
  <2>3. c.iov \in Nat /\ c.sendLen \in Nat /\ c.total_send_len \in Nat
    BY <1>2 DEF ConnType
  <2>4. pc[t] \in SendPc /\ pc[t] \notin {"kMsgHeader", "kBody"}
    BY <1>2 DEF SendPc
  <2> HIDE DEF c, d, e
  <2> QED
    BY <1>2, <2>1, <2>2, <2>3, <2>4 DEF ExactAt
<1>6. EnvOK /\ todo' = todo /\ freed' = freed
  BY DEF SendmsgEagain, EnvOK, ConnInv, ConnTypeOK
<1>7. conn' = [conn EXCEPT ![e] = d] /\ pc' = pc
  BY <1>3 DEF SendmsgEagain
<1>8. pc' = [pc EXCEPT ![t] = pc[t]] /\ DOMAIN conn = Ends
  BY <1>7 DEF ConnInv, ConnTypeOK
<1>9. pc[t] \in Critical /\ pc[t] \in (IF t \in Senders THEN {"idle", "send"} ELSE LoopPc)
  BY <1>2 DEF Critical, SendPc, LoopPc
<1> HIDE DEF d, e
<1>10. ConnTypeOK' /\ \A f \in Ends : SendExact(f)' /\ ReadExact(f)'
  BY <1>2, <1>4, <1>5, <1>6, <1>7, <1>8, <1>9, CriticalStep
<1>11. conn'["client"].send_message = conn["client"].send_message
  BY <1>2, <1>5, <1>7, <1>8 DEF Ends
<1> QED
  BY <1>6, <1>10, <1>11, RequestsKept DEF ConnInv

LEMMA SendmsgBytesInv ==
  ASSUME ConnInv, NEW t \in Threads, NEW k \in 1 .. Capacity, SendmsgBytes(t, k)
  PROVE  ConnInv'
<1> DEFINE e == EndOf(t)
           c == conn[e]
           sent == [c EXCEPT !.iov = @ - k, !.sendLen = @ + k]
<1>1. /\ Sending(t) /\ k \in 1 .. c.iov
      /\ wire' = [wire EXCEPT ![e] = @ \o NextBytes(c, k)]
      /\ len' = len /\ todo' = todo /\ link' = link /\ intr' = intr
  BY DEF SendmsgBytes
<1>2. Capacity \in Nat /\ k \in Nat /\ k > 0
  BY ConnectionAssumption DEF ConnectionAssumption
<1>3. /\ e \in Ends /\ t \in ThreadsOf(e) /\ c \in ConnType(e) /\ c.mutex = t /\ ~ c.closed
      /\ pc[t] = IF t \in Senders THEN "send" ELSE "reply"
      /\ c.sendLen + c.iov <= c.total_send_len
      /\ c.total_send_len = IF c.send_message = NoMsg THEN 0 ELSE Size(c.send_message)
      /\ c.recv_len <= Len(c.header)
      /\ c.recv_state = "kBody" => Len(c.header) >= 1 /\ c.recv_len = 0
  BY <1>1, SendingFacts
<1>4. c.iov \in Nat /\ c.sendLen \in Nat /\ c.total_send_len \in Nat /\ k <= c.iov
  BY <1>1, <1>3 DEF ConnType
<1>5. c.send_message \in SentBy(e)
  BY <1>1, <1>2, <1>4, SendingFacts
<1>6. sent \in ConnType(e)
  <2>1. c.iov - k \in Nat /\ c.sendLen + k \in Nat
    BY <1>2, <1>4
  <2>2. sent = [c EXCEPT !.iov = c.iov - k, !.sendLen = c.sendLen + k]
    BY <1>3 DEF ConnType
  <2> QED
    BY <1>3, <2>1, <2>2 DEF ConnType
<1>7. /\ sent.state = c.state /\ sent.closed = c.closed /\ sent.iov = c.iov - k
      /\ sent.total_send_len = c.total_send_len /\ sent.send_message = c.send_message
      /\ sent.sendLen = c.sendLen + k /\ sent.recv_len = c.recv_len
      /\ sent.header = c.header /\ sent.recv_state = c.recv_state /\ sent.mutex = c.mutex
  BY <1>3 DEF ConnType
<1>8. /\ DOMAIN conn = Ends /\ DOMAIN wire = Ends
      /\ \A f \in Ends : wire[f] \in Seq(BytesOf(f))
      /\ freed \in [Messages -> Nat] /\ todo \in SUBSET Requests /\ intr \in Nat
      /\ len \in [Requests -> BodyLens]
  BY DEF ConnInv, ConnTypeOK
<1>9. Size(c.send_message) \in Nat
  BY <1>3, <1>5, <1>8, MessageFacts
<1>10. NextBytes(c, k) \in Seq(BytesOf(e))
  <2>1. \A i \in 1 .. k : <<c.send_message, Size(c.send_message) - c.iov + i>> \in BytesOf(e)
    BY <1>4, <1>5, <1>9 DEF BytesOf
  <2> HIDE DEF c
  <2> QED
    BY <1>2, <2>1 DEF NextBytes
<1>11. DOMAIN wire' = Ends /\ \A f \in Ends : wire'[f] \in Seq(BytesOf(f))
  <2>1. wire[e] \o NextBytes(c, k) \in Seq(BytesOf(e))
    BY <1>3, <1>8, <1>10, ConcatProperties
  <2> HIDE DEF c, e
  <2> QED
    BY <1>1, <1>3, <1>8, <2>1
<1>12. CASE sent.sendLen = c.total_send_len
  <2> DEFINE d == [sent EXCEPT !.total_send_len = 0, !.send_message = NoMsg]
  <2>1. FlushReturns(t, d) /\ freed' = [freed EXCEPT ![c.send_message] = @ + 1]
    BY <1>12 DEF SendmsgBytes
  <2>2. d \in ConnType(e)
    BY <1>6 DEF ConnType
  <2>3. /\ d.closed = sent.closed /\ d.iov = sent.iov
        /\ d.total_send_len = 0 /\ d.send_message = NoMsg
        /\ d.recv_len = sent.recv_len /\ d.header = sent.header /\ d.recv_state = sent.recv_state
    BY <1>6 DEF ConnType
  <2> HIDE DEF d, sent
  <2>4. ExactAt(d, "idle")
    BY <1>2, <1>3, <1>4, <1>7, <1>12, <2>3 DEF ExactAt, SendPc
  <2>5. EnvOK
    <3>1. c.send_message \in Messages
      BY <1>3, <1>5, <1>8, MessageFacts
    <3>2. freed' \in [Messages -> Nat]
      BY <1>8, <2>1, <3>1
    <3> QED
      BY <1>1, <1>8, <1>11, <3>2 DEF EnvOK
  <2>6. /\ ConnTypeOK' /\ \A f \in Ends : SendExact(f)' /\ ReadExact(f)'
        /\ conn'[e].send_message = NoMsg
        /\ \A f \in Ends : f # e => conn'[f] = conn[f]
    BY <1>1, <2>1, <2>2, <2>3, <2>4, <2>5, FlushInv
  <2>7. TodoExact' /\ RequestsFreedOnce'
    <3>1. CASE e = "client"
      <4>1. PICK q \in Requests : c.send_message = Request(q)
        BY <1>5, <3>1 DEF SentBy
      <4>2. \A r \in Requests : Request(r) \in Messages /\ (Request(r) = Request(q) => r = q)
        BY <1>8, MessageFacts
      <4>3. \A r \in Requests :
              freed'[Request(r)] = IF r = q THEN freed[Request(r)] + 1 ELSE freed[Request(r)]
        BY <1>8, <2>1, <4>1, <4>2
      <4> QED
        BY <1>1, <2>6, <3>1, <4>1, <4>3, RequestDeleted
    <3>2. CASE e = "server"
      <4>1. \A r \in Requests : Request(r) # c.send_message /\ Request(r) \in Messages
        BY <1>5, <1>8, <3>2, MessageFacts
      <4>2. \A r \in Requests : freed'[Request(r)] = freed[Request(r)]
        BY <1>8, <2>1, <4>1
      <4>3. conn'["client"] = conn["client"]
        BY <2>6, <3>2 DEF Ends
      <4> QED
        BY <1>1, <2>6, <4>2, <4>3, RequestsKept
    <3> QED
      BY <1>3, <3>1, <3>2 DEF Ends
  <2> QED
    BY <2>6, <2>7 DEF ConnInv
<1>13. CASE sent.sendLen # c.total_send_len
  <2>1. conn' = [conn EXCEPT ![e] = sent] /\ pc' = pc /\ freed' = freed
    BY <1>13 DEF SendmsgBytes
  <2>2. pc' = [pc EXCEPT ![t] = pc[t]]
    BY <2>1 DEF ConnInv, ConnTypeOK
  <2>3. /\ pc[t] \in Critical /\ pc[t] \in SendPc /\ pc[t] \notin {"kMsgHeader", "kBody"}
        /\ pc[t] \in (IF t \in Senders THEN {"idle", "send"} ELSE LoopPc)
    BY <1>3 DEF Critical, SendPc, LoopPc
  <2> HIDE DEF sent
  <2>4. ExactAt(sent, pc[t])
    BY <1>2, <1>3, <1>4, <1>7, <2>3 DEF ExactAt
  <2>5. EnvOK
    BY <1>1, <1>8, <1>11, <2>1 DEF EnvOK
  <2>6. ConnTypeOK' /\ \A f \in Ends : SendExact(f)' /\ ReadExact(f)'
    BY <1>3, <1>6, <1>7, <2>1, <2>2, <2>3, <2>4, <2>5, CriticalStep
  <2>7. conn'["client"].send_message = conn["client"].send_message
    BY <1>3, <1>7, <1>8, <2>1 DEF Ends
  <2> QED
    BY <1>1, <2>1, <2>6, <2>7, RequestsKept DEF ConnInv
<1> QED
  BY <1>12, <1>13

-----------------------------------------------------------------------------
(* The loop thread between critical sections, and the link.                *)

\* The loop thread of an end that is not closed, outside its critical section.
LEMMA QuietStep ==
  ASSUME ConnInv, NEW e \in Ends, ~ conn[e].closed,
         NEW d \in ConnType(e), conn' = [conn EXCEPT ![e] = d],
         NEW x \in LoopPc \ Critical, pc' = [pc EXCEPT ![Loop(e)] = x],
         pc[Loop(e)] \notin Critical, EnvOK,
         /\ d.state = conn[e].state /\ d.mutex = conn[e].mutex /\ d.closed = conn[e].closed
         /\ d.send_message = conn[e].send_message /\ d.total_send_len = conn[e].total_send_len
         /\ d.iov = conn[e].iov /\ d.sendLen = conn[e].sendLen
         /\ d.recv_state = conn[e].recv_state /\ d.recv_len = conn[e].recv_len
         /\ d.header = conn[e].header,
         todo' = todo, freed' = freed
  PROVE  ConnInv'
<1>1. PICK g \in Ends : g # e /\ \A f \in Ends : f = e \/ f = g
  BY DEF Ends
<1>2. /\ Loop(e) \in ThreadsOf(e) /\ Loop(e) \in Threads /\ Loop(e) \notin Senders
      /\ \A u \in ThreadsOf(e) : u \in Threads
  BY EndFacts DEF ThreadsOf
<1>3. ConnTypeOK' /\ SendExact(g)' /\ ReadExact(g)'
  BY <1>1, <1>2, EndStep
<1>4. pc \in [Threads -> LoopPc \cup {"send"}] /\ DOMAIN conn = Ends
  BY DEF ConnInv, ConnTypeOK
<1>5. conn'[e] = d /\ \A f \in Ends : f # e => conn'[f] = conn[f]
  BY <1>4
<1>6. pc'[Loop(e)] = x /\ \A u \in Threads : u # Loop(e) => pc'[u] = pc[u]
  BY <1>2, <1>4
<1>7. \A m : Size(m)' = Size(m)
  BY DEF Size, EnvOK
<1>8. SendExact(e) /\ ReadExact(e) /\ d.mutex \in ThreadsOf(e) \cup {Nobody}
  BY DEF ConnInv, ConnType
<1>9. SendExact(e)'
  BY <1>2, <1>5, <1>6, <1>7, <1>8 DEF SendExact, Critical
<1>10. ReadExact(e)'
  BY <1>2, <1>5, <1>6, <1>8 DEF ReadExact, Critical
<1>11. conn'["client"].send_message = conn["client"].send_message
  BY <1>5 DEF Ends
<1>12. TodoExact' /\ RequestsFreedOnce'
  BY <1>3, <1>11, RequestsKept
<1> QED
  BY <1>1, <1>3, <1>9, <1>10, <1>12 DEF ConnInv

LEMMA HandleWritableInv ==
  ASSUME ConnInv, NEW e \in Ends, HandleWritable(e)
  PROVE  ConnInv'
<1> DEFINE c == conn[e]
           d == [c EXCEPT !.epollout = FALSE]
<1>1. /\ c \in ConnType(e) /\ SendExact(e) /\ DOMAIN conn = Ends
      /\ pc \in [Threads -> LoopPc \cup {"send"}] /\ EnvOK
  BY DEF ConnInv, ConnTypeOK, HandleWritable, EnvOK
<1>2. c.state = "kConnected" => c.total_send_len = 0 /\ c.queue = <<>>
  BY <1>1 DEF HandleWritable, SendExact, ConnType
<1>3. conn' = [conn EXCEPT ![e].epollout = FALSE] /\ pc' = pc /\ todo' = todo /\ freed' = freed
  BY <1>2 DEF HandleWritable
<1>4. conn' = [conn EXCEPT ![e] = d]
  BY <1>1, <1>3
<1>5. pc[Loop(e)] = "idle" /\ ~ c.closed /\ pc' = [pc EXCEPT ![Loop(e)] = "idle"]
  BY <1>1, <1>3 DEF HandleWritable
<1>6. d \in ConnType(e)
  BY <1>1 DEF ConnType
<1>7. /\ d.state = c.state /\ d.mutex = c.mutex /\ d.closed = c.closed
      /\ d.send_message = c.send_message /\ d.total_send_len = c.total_send_len
      /\ d.iov = c.iov /\ d.sendLen = c.sendLen
      /\ d.recv_state = c.recv_state /\ d.recv_len = c.recv_len /\ d.header = c.header
  BY <1>1 DEF ConnType
<1>8. "idle" \in LoopPc \ Critical
  BY DEF LoopPc, Critical, SendPc
<1> HIDE DEF d
<1> QED
  BY <1>1, <1>3, <1>4, <1>5, <1>6, <1>7, <1>8, QuietStep

LEMMA HandleReadableInv ==
  ASSUME ConnInv, NEW e \in Ends, HandleReadable(e)
  PROVE  ConnInv'
<1> DEFINE c == conn[e]
           d == [c EXCEPT !.count = 0, !.hup = ~ link]
<1>1. /\ c \in ConnType(e) /\ DOMAIN conn = Ends /\ EnvOK
  BY DEF ConnInv, ConnTypeOK, HandleReadable, EnvOK
<1>2. /\ conn' = [conn EXCEPT ![e].count = 0, ![e].hup = ~ link] /\ todo' = todo /\ freed' = freed
      /\ pc[Loop(e)] = "idle" /\ ~ c.closed /\ pc' = [pc EXCEPT ![Loop(e)] = "lock"]
  BY DEF HandleReadable
<1>3. conn' = [conn EXCEPT ![e] = d]
  BY <1>1, <1>2
<1>4. d \in ConnType(e)
  <2>1. (~ link) \in BOOLEAN
    OBVIOUS
  <2> QED
    BY <1>1, <2>1 DEF ConnType
<1>5. /\ d.state = c.state /\ d.mutex = c.mutex /\ d.closed = c.closed
      /\ d.send_message = c.send_message /\ d.total_send_len = c.total_send_len
      /\ d.iov = c.iov /\ d.sendLen = c.sendLen
      /\ d.recv_state = c.recv_state /\ d.recv_len = c.recv_len /\ d.header = c.header
  BY <1>1 DEF ConnType
<1>6. "idle" \notin Critical /\ "lock" \in LoopPc \ Critical
  BY DEF LoopPc, Critical, SendPc
<1> HIDE DEF d
<1> QED
  BY <1>1, <1>2, <1>3, <1>4, <1>5, <1>6, QuietStep

LEMMA LinkFailsInv ==
  ASSUME ConnInv, LinkFails
  PROVE  ConnInv'
<1>1. /\ ~ link' /\ len' = len /\ todo' = todo /\ conn' = conn /\ pc' = pc /\ wire' = wire
      /\ intr' = intr /\ freed' = freed
  BY DEF LinkFails
<1>2. ConnTypeOK'
  BY <1>1 DEF ConnInv, ConnTypeOK
<1>3. \A e \in Ends : SendExact(e)' /\ ReadExact(e)'
  BY <1>1, OtherEnd DEF ConnInv
<1> QED
  BY <1>1, <1>2, <1>3, RequestsKept DEF ConnInv

LEMMA HandlerTailInv ==
  ASSUME ConnInv, NEW e \in Ends, HandlerTail(e)
  PROVE  ConnInv'
<1> DEFINE c == conn[e]
           broken == c.state = "kDisconnecting" \/ c.hup
           d == [c EXCEPT !.state = "kDisconnecting", !.closed = TRUE, !.queue = <<>>,
                          !.send_message = IF c.total_send_len # 0 THEN NoMsg ELSE @]
<1>1. /\ pc[Loop(e)] = "tail" /\ pc' = [pc EXCEPT ![Loop(e)] = "idle"]
      /\ len' = len /\ todo' = todo /\ wire' = wire /\ intr' = intr
  BY DEF HandlerTail
<1>2. /\ c \in ConnType(e) /\ SendExact(e) /\ ReadExact(e) /\ DOMAIN conn = Ends
      /\ pc \in [Threads -> LoopPc \cup {"send"}] /\ len \in [Requests -> BodyLens]
      /\ freed \in [Messages -> Nat]
  BY DEF ConnInv, ConnTypeOK
<1>3. ~ c.closed
  BY <1>1, <1>2 DEF SendExact
<1>4. "idle" \in LoopPc \ Critical /\ "tail" \notin Critical
  BY DEF LoopPc, Critical, SendPc
<1>5. CASE ~ broken
  <2>1. conn' = conn /\ link' = link /\ freed' = freed
    BY <1>5 DEF HandlerTail
  <2>2. conn' = [conn EXCEPT ![e] = c] /\ EnvOK
    <3>1. conn' = [conn EXCEPT ![e] = c]
      BY <2>1 DEF ConnInv, ConnTypeOK
    <3>2. EnvOK
      BY <1>1, <2>1 DEF EnvOK, ConnInv, ConnTypeOK
    <3> QED
      BY <3>1, <3>2
  <2> HIDE DEF c
  <2>3. c = conn[e]
    BY DEF c
  <2> QED
    BY <1>1, <1>2, <1>3, <1>4, <2>1, <2>2, <2>3, QuietStep
<1>6. CASE broken
  <2>1. /\ conn' = [conn EXCEPT ![e] = d] /\ link' = FALSE
        /\ freed' = [m \in Messages |-> freed[m] + IF m \in CloseFrees(c) THEN 1 ELSE 0]
    BY <1>6 DEF HandlerTail
  <2>2. c.queue = <<>> /\ c.total_send_len \in Nat /\ c.mutex \in ThreadsOf(e) \cup {Nobody}
    BY <1>2 DEF ConnType
  <2>3. c.total_send_len = 0 <=> c.send_message = NoMsg
    <3>1. c.send_message \in SentBy(e) \cup {NoMsg}
      BY <1>2 DEF ConnType
    <3>2. c.send_message \in SentBy(e) => Size(c.send_message) > 0 /\ c.send_message # NoMsg
      BY <1>2, MessageFacts
    <3> QED
      BY <1>2, <1>3, <3>1, <3>2 DEF SendExact
  <2>4. d = [c EXCEPT !.state = "kDisconnecting", !.closed = TRUE, !.queue = <<>>,
                      !.send_message = NoMsg]
    BY <1>2, <2>3 DEF ConnType
  <2>5. d \in ConnType(e)
    BY <1>2, <2>4 DEF ConnType
  <2>6. /\ d.closed /\ d.state = "kDisconnecting" /\ d.send_message = NoMsg
        /\ d.mutex = c.mutex /\ d.total_send_len = c.total_send_len
        /\ d.iov = c.iov /\ d.sendLen = c.sendLen
        /\ d.recv_state = c.recv_state /\ d.recv_len = c.recv_len /\ d.header = c.header
    BY <1>2, <2>4 DEF ConnType
  <2>7. Loop(e) \in ThreadsOf(e) /\ Loop(e) \in Threads /\ Loop(e) \notin Senders
    BY EndFacts
  <2>8. EnvOK
    <3>1. freed' \in [Messages -> Nat]
      BY <1>2, <2>1
    <3> QED
      BY <1>1, <2>1, <3>1 DEF EnvOK, ConnInv, ConnTypeOK
  <2> HIDE DEF d
  <2>9. PICK g \in Ends : g # e /\ \A f \in Ends : f = e \/ f = g
    BY DEF Ends
  <2>10. ConnTypeOK' /\ SendExact(g)' /\ ReadExact(g)'
    BY <1>1, <1>4, <2>1, <2>5, <2>7, <2>8, <2>9, EndStep
  <2>11. conn'[e] = d /\ \A f \in Ends : f # e => conn'[f] = conn[f]
    BY <1>2, <2>1
  <2>12. pc'[Loop(e)] = "idle" /\ \A u \in ThreadsOf(e) : u # Loop(e) => pc'[u] = pc[u]
    BY <1>1, <1>2, <2>7 DEF ThreadsOf
  <2>13. SendExact(e)'
    <3>1. \A u \in ThreadsOf(e) :
            /\ pc'[u] \in SendPc \cup {"kMsgHeader", "kBody"} => d.mutex = u
            /\ pc'[u] \in SendPc => d.sendLen + d.iov <= d.total_send_len
      BY <1>2, <1>4, <2>6, <2>12 DEF SendExact, Critical
    <3> QED
      BY <1>2, <2>1, <2>6, <2>11, <2>12, <3>1 DEF SendExact
  <2>14. ReadExact(e)'
    BY <1>2, <1>4, <2>6, <2>11, <2>12 DEF ReadExact
  <2>15. TodoExact' /\ RequestsFreedOnce'
    <3>1. CloseFrees(c) = IF c.total_send_len # 0 THEN {c.send_message} ELSE {}
      BY <2>2 DEF CloseFrees, Range
    <3>2. \A r \in Requests : Request(r) \in Messages
      BY <1>2, MessageFacts
    <3>3. CASE e = "client" /\ c.total_send_len # 0
      <4>1. PICK q \in Requests : c.send_message = Request(q)
        BY <1>2, <2>3, <3>3 DEF SentBy, ConnType
      <4>2. \A r \in Requests : Request(r) = Request(q) => r = q
        BY <1>2, MessageFacts
      <4>3. \A r \in Requests :
              freed'[Request(r)] = IF r = q THEN freed[Request(r)] + 1 ELSE freed[Request(r)]
        BY <1>2, <2>1, <3>1, <3>2, <3>3, <4>1, <4>2
      <4> QED
        BY <1>1, <2>6, <2>10, <2>11, <3>3, <4>1, <4>3, RequestDeleted
    <3>4. CASE ~ (e = "client" /\ c.total_send_len # 0)
      <4>1. \A r \in Requests : Request(r) \notin CloseFrees(c)
        <5>1. CASE c.total_send_len = 0
          BY <3>1, <5>1
        <5>2. CASE c.total_send_len # 0
          <6>1. e = "server" /\ c.send_message \in SentBy("server")
            BY <1>2, <2>3, <3>4, <5>2 DEF Ends, ConnType
          <6> QED
            BY <1>2, <3>1, <6>1, MessageFacts
        <5> QED
          BY <5>1, <5>2
      <4>2. \A r \in Requests : freed'[Request(r)] = freed[Request(r)]
        BY <1>2, <2>1, <3>2, <4>1
      <4>3. conn'["client"].send_message = conn["client"].send_message
        BY <2>3, <2>6, <2>11, <3>4 DEF Ends
      <4> QED
        BY <1>1, <2>10, <4>2, <4>3, RequestsKept
    <3> QED
      BY <3>3, <3>4
  <2> QED
    BY <2>9, <2>10, <2>13, <2>14, <2>15 DEF ConnInv
<1> QED
  BY <1>5, <1>6

-----------------------------------------------------------------------------
(* Receiving.                                                              *)

LEMMA LockReceiveInv ==
  ASSUME ConnInv, NEW e \in Ends, LockReceive(e)
  PROVE  ConnInv'
<1> DEFINE c == conn[e]
           d == [c EXCEPT !.mutex = Loop(e), !.recvLen = 0]
           x == c.recv_state
<1>1. /\ pc[Loop(e)] = "lock" /\ c.mutex = Nobody
      /\ conn' = [conn EXCEPT ![e].mutex = Loop(e), ![e].recvLen = 0]
      /\ pc' = [pc EXCEPT ![Loop(e)] = x]
      /\ todo' = todo /\ freed' = freed
  BY DEF LockReceive
<1>2. c \in ConnType(e) /\ SendExact(e) /\ ReadExact(e) /\ DOMAIN conn = Ends /\ EnvOK
  BY DEF ConnInv, ConnTypeOK, EnvOK, LockReceive
<1>3. conn' = [conn EXCEPT ![e] = d]
  BY <1>1, <1>2
<1>4. Loop(e) \in ThreadsOf(e) /\ Loop(e) \notin Senders
  BY EndFacts
<1>5. d \in ConnType(e)
  BY <1>2, <1>4 DEF ConnType
<1>6. x \in {"kMsgHeader", "kBody"} /\ x \in Critical /\ x \in LoopPc /\ x \notin SendPc
  BY <1>2 DEF ConnType, Critical, LoopPc, SendPc
<1>7. /\ d.state = c.state /\ d.mutex = Loop(e) /\ d.closed = c.closed
      /\ d.send_message = c.send_message /\ d.total_send_len = c.total_send_len
      /\ d.iov = c.iov /\ d.recvLen = 0
      /\ d.recv_state = c.recv_state /\ d.recv_len = c.recv_len /\ d.header = c.header
  BY <1>2 DEF ConnType
<1>8. c.recv_len \in Nat
  BY <1>2 DEF ConnType
<1> HIDE DEF d
<1>9. ExactAt(d, x)
  BY <1>1, <1>2, <1>6, <1>7, <1>8 DEF ExactAt, SendExact, ReadExact
<1> HIDE DEF x
<1>10. ConnTypeOK' /\ \A f \in Ends : SendExact(f)' /\ ReadExact(f)'
  BY <1>1, <1>2, <1>3, <1>4, <1>5, <1>6, <1>7, <1>9, CriticalStep
<1>11. conn'["client"].send_message = conn["client"].send_message
  BY <1>2, <1>3, <1>7 DEF Ends
<1> QED
  BY <1>1, <1>10, <1>11, RequestsKept DEF ConnInv

\* The loop thread while it reads.
LEMMA ReceivingFacts ==
  ASSUME ConnInv, NEW e \in Ends, pc[Loop(e)] \in {"kMsgHeader", "kBody"}
  PROVE  LET c == conn[e]
         IN  /\ c \in ConnType(e) /\ c.mutex = Loop(e) /\ ~ c.closed
             /\ c.iov <= c.total_send_len
             /\ c.total_send_len = IF c.send_message = NoMsg THEN 0 ELSE Size(c.send_message)
             /\ c.total_send_len # 0 => c.state = "kDisconnecting"
             /\ c.recv_state = pc[Loop(e)] /\ c.recv_len <= Len(c.header)
             /\ c.recv_state = "kBody" => Len(c.header) >= 1 /\ c.recv_len = 0
             /\ c.recv_state = "kMsgHeader" => c.recv_len + c.recvLen <= Len(c.header)
<1>1. conn[e] \in ConnType(e) /\ SendExact(e) /\ ReadExact(e)
  BY DEF ConnInv, ConnTypeOK
<1>2. Loop(e) \in ThreadsOf(e)
  BY EndFacts
<1>3. conn[e].state \in {"kConnected", "kDisconnecting"}
  BY <1>1 DEF ConnType
<1> QED
  BY <1>1, <1>2, <1>3 DEF SendExact, ReadExact, SendPc

\* A step of the reader, which goes on with x.
LEMMA ReceiveStep ==
  ASSUME ConnInv, NEW e \in Ends, pc[Loop(e)] \in {"kMsgHeader", "kBody"},
         NEW d \in ConnType(e), conn' = [conn EXCEPT ![e] = d],
         NEW x \in LoopPc, pc' = [pc EXCEPT ![Loop(e)] = x],
         d.mutex = IF x \in Critical THEN Loop(e) ELSE Nobody,
         ExactAt(d, x), EnvOK, todo' = todo, freed' = freed,
         e = "client" => d.send_message = conn[e].send_message
  PROVE  ConnInv'
<1>1. Loop(e) \in ThreadsOf(e) /\ Loop(e) \notin Senders
  BY EndFacts
<1>2. conn[e].mutex = Loop(e)
  BY ReceivingFacts
<1>3. ConnTypeOK' /\ \A f \in Ends : SendExact(f)' /\ ReadExact(f)'
  BY <1>1, <1>2, CriticalStep
<1>4. DOMAIN conn = Ends
  BY DEF ConnInv, ConnTypeOK
<1>5. conn'["client"].send_message = conn["client"].send_message
  BY <1>4 DEF Ends
<1> QED
  BY <1>3, <1>5, RequestsKept DEF ConnInv

LEMMA ParseFailsInv ==
  ASSUME ConnInv, NEW e \in Ends, pc[Loop(e)] \in {"kMsgHeader", "kBody"},
         NEW c \in ConnType(e), ParseFails(e, c), ExactAt(c, "tail"),
         EnvOK, todo' = todo, freed' = freed, c.send_message = conn[e].send_message
  PROVE  ConnInv'
<1> DEFINE d == [c EXCEPT !.mutex = Nobody]
<1>1. conn' = [conn EXCEPT ![e] = d] /\ pc' = [pc EXCEPT ![Loop(e)] = "tail"]
  BY DEF ParseFails
<1>2. d \in ConnType(e) /\ d.mutex = Nobody /\ d.send_message = c.send_message
  BY DEF ConnType
<1>3. ExactAt(d, "tail")
  BY DEF ConnType, ExactAt
<1>4. "tail" \in LoopPc /\ "tail" \notin Critical
  BY DEF LoopPc, Critical, SendPc
<1> HIDE DEF d
<1> QED
  BY <1>1, <1>2, <1>3, <1>4, ReceiveStep

\* ParseMessage keeps how much of the header is there.
LEMMA KeepHeader ==
  ASSUME ConnInv, NEW e \in Ends, pc[Loop(e)] = "kMsgHeader"
  PROVE  LET c == conn[e]
             d == [c EXCEPT !.recv_len = @ + c.recvLen]
         IN  d \in ConnType(e) /\ ExactAt(d, "tail") /\ d.send_message = c.send_message
<1> DEFINE c == conn[e]
           d == [c EXCEPT !.recv_len = @ + c.recvLen]
<1>1. /\ c \in ConnType(e) /\ ~ c.closed /\ c.iov <= c.total_send_len
      /\ c.total_send_len = IF c.send_message = NoMsg THEN 0 ELSE Size(c.send_message)
      /\ c.total_send_len # 0 => c.state = "kDisconnecting"
      /\ c.recv_state = "kMsgHeader" /\ c.recv_len + c.recvLen <= Len(c.header)
  BY ReceivingFacts
<1>2. d \in ConnType(e)
  <2>1. c.recv_len + c.recvLen \in Nat
    BY <1>1 DEF ConnType
  <2>2. d = [c EXCEPT !.recv_len = c.recv_len + c.recvLen]
    BY <1>1 DEF ConnType
  <2> QED
    BY <1>1, <2>1, <2>2 DEF ConnType
<1>3. /\ d.state = c.state /\ d.closed = c.closed /\ d.iov = c.iov
      /\ d.send_message = c.send_message /\ d.total_send_len = c.total_send_len
      /\ d.recv_state = c.recv_state /\ d.recv_len = c.recv_len + c.recvLen
      /\ d.header = c.header
  BY <1>1 DEF ConnType
<1> HIDE DEF d
<1>4. ExactAt(d, "tail")
  BY <1>1, <1>3 DEF ExactAt, SendPc
<1> QED
  BY <1>2, <1>3, <1>4 DEF d

LEMMA RecvHeaderEagainInv ==
  ASSUME ConnInv, NEW e \in Ends, RecvHeaderEagain(e)
  PROVE  ConnInv'
<1> DEFINE c == conn[e]
           d == [c EXCEPT !.recv_len = @ + c.recvLen]
<1>1. /\ pc[Loop(e)] = "kMsgHeader" /\ ParseFails(e, d) /\ todo' = todo /\ freed' = freed
      /\ EnvOK
  BY DEF RecvHeaderEagain, EnvOK, ConnInv, ConnTypeOK
<1>2. d \in ConnType(e) /\ ExactAt(d, "tail") /\ d.send_message = c.send_message
  BY <1>1, KeepHeader
<1> HIDE DEF d
<1> QED
  BY <1>1, <1>2, ParseFailsInv

LEMMA RecvIntrInv ==
  ASSUME ConnInv, NEW e \in Ends, RecvIntr(e)
  PROVE  ConnInv'
<1> DEFINE c == conn[e]
<1>1. todo' = todo /\ freed' = freed /\ EnvOK
  BY ConnectionAssumption DEF RecvIntr, EnvOK, ConnInv, ConnTypeOK, ConnectionAssumption
<1>2. CASE /\ pc[Loop(e)] = "kMsgHeader"
           /\ ParseFails(e, [c EXCEPT !.recv_len = @ + c.recvLen])
  <2> DEFINE d == [c EXCEPT !.recv_len = @ + c.recvLen]
  <2>1. d \in ConnType(e) /\ ExactAt(d, "tail") /\ d.send_message = c.send_message
    BY <1>2, KeepHeader
  <2>2. ParseFails(e, d)
    BY <1>2
  <2> HIDE DEF d
  <2> QED
    BY <1>1, <1>2, <2>1, <2>2, ParseFailsInv
<1>3. CASE /\ pc[Loop(e)] = "kBody"
           /\ ParseFails(e, [c EXCEPT !.total_recv_len = @ - c.recvLen])
  <2> DEFINE d == [c EXCEPT !.total_recv_len = @ - c.recvLen]
  <2>1. /\ c \in ConnType(e) /\ ~ c.closed /\ c.iov <= c.total_send_len
        /\ c.total_send_len = IF c.send_message = NoMsg THEN 0 ELSE Size(c.send_message)
        /\ c.total_send_len # 0 => c.state = "kDisconnecting"
        /\ c.recv_len <= Len(c.header)
        /\ c.recv_state = "kBody" => Len(c.header) >= 1 /\ c.recv_len = 0
    BY <1>3, ReceivingFacts
  <2>2. d \in ConnType(e)
    <3>1. c.total_recv_len - c.recvLen \in Int
      BY <2>1 DEF ConnType
    <3>2. d = [c EXCEPT !.total_recv_len = c.total_recv_len - c.recvLen]
      BY <2>1 DEF ConnType
    <3> QED
      BY <2>1, <3>1, <3>2 DEF ConnType
  <2>3. /\ d.state = c.state /\ d.closed = c.closed /\ d.iov = c.iov
        /\ d.send_message = c.send_message /\ d.total_send_len = c.total_send_len
        /\ d.recv_state = c.recv_state /\ d.recv_len = c.recv_len /\ d.header = c.header
    BY <2>1 DEF ConnType
  <2>4. ParseFails(e, d)
    BY <1>3
  <2> HIDE DEF d
  <2>5. ExactAt(d, "tail")
    BY <2>1, <2>3 DEF ExactAt, SendPc
  <2> QED
    BY <1>1, <1>3, <2>2, <2>3, <2>4, <2>5, ParseFailsInv
<1> QED
  BY <1>2, <1>3 DEF RecvIntr

LEMMA RecvErrorInv ==
  ASSUME ConnInv, NEW e \in Ends, RecvError(e)
  PROVE  ConnInv'
<1> DEFINE c == conn[e]
           d == [c EXCEPT !.state = "kDisconnecting"]
<1>1. /\ pc[Loop(e)] \in {"kMsgHeader", "kBody"} /\ ParseFails(e, d) /\ todo' = todo
      /\ freed' = freed /\ EnvOK
  BY DEF RecvError, EnvOK, ConnInv, ConnTypeOK
<1>2. /\ c \in ConnType(e) /\ ~ c.closed /\ c.iov <= c.total_send_len
      /\ c.total_send_len = IF c.send_message = NoMsg THEN 0 ELSE Size(c.send_message)
      /\ c.recv_len <= Len(c.header)
      /\ c.recv_state = "kBody" => Len(c.header) >= 1 /\ c.recv_len = 0
  BY <1>1, ReceivingFacts
<1>3. d \in ConnType(e)
  BY <1>2 DEF ConnType
<1>4. /\ d.state = "kDisconnecting" /\ d.closed = c.closed /\ d.iov = c.iov
      /\ d.send_message = c.send_message /\ d.total_send_len = c.total_send_len
      /\ d.recv_state = c.recv_state /\ d.recv_len = c.recv_len /\ d.header = c.header
  BY <1>2 DEF ConnType
<1> HIDE DEF d
<1>5. ExactAt(d, "tail")
  BY <1>2, <1>4 DEF ExactAt, SendPc
<1> QED
  BY <1>1, <1>3, <1>4, <1>5, ParseFailsInv

\* recv takes bytes off the peer's wire.
LEMMA RecvEnv ==
  ASSUME ConnInv, NEW e \in Ends, NEW k \in 1 .. Len(wire[Peer(e)]),
         wire' = [wire EXCEPT ![Peer(e)] = SubSeq(@, k + 1, Len(@))],
         len' = len, todo' = todo, link' = link, intr' = intr, freed' = freed
  PROVE  EnvOK /\ SubSeq(wire[Peer(e)], 1, k) \in Seq(BytesOf(Peer(e)))
               /\ Len(SubSeq(wire[Peer(e)], 1, k)) = k
<1> DEFINE g == Peer(e)
<1>1. /\ g \in Ends /\ DOMAIN wire = Ends /\ \A f \in Ends : wire[f] \in Seq(BytesOf(f))
      /\ todo \in SUBSET Requests /\ intr \in Nat /\ freed \in [Messages -> Nat]
  BY EndFacts DEF ConnInv, ConnTypeOK
<1>2. wire[g] \in Seq(BytesOf(g)) /\ Len(wire[g]) \in Nat /\ k \in Nat /\ k >= 1
      /\ k <= Len(wire[g])
  BY <1>1
<1>3. SubSeq(wire[g], 1, k) \in Seq(BytesOf(g)) /\ Len(SubSeq(wire[g], 1, k)) = k
  BY <1>2, SubSeqProperties
<1>4. SubSeq(wire[g], k + 1, Len(wire[g])) \in Seq(BytesOf(g))
  BY <1>2, SubSeqProperties
<1>5. DOMAIN wire' = Ends /\ \A f \in Ends : wire'[f] \in Seq(BytesOf(f))
  BY <1>1, <1>4
<1> QED
  BY <1>1, <1>3, <1>5 DEF EnvOK

LEMMA RecvHeaderInv ==
  ASSUME ConnInv, NEW e \in Ends, NEW k \in 1 .. Capacity, RecvHeader(e, k)
  PROVE  ConnInv'
<1> DEFINE c == conn[e]
           at == c.recv_len + c.recvLen
           h == SubSeq(c.header, 1, at) \o SubSeq(wire[Peer(e)], 1, k)
           got == [c EXCEPT !.header = SubSeq(@, 1, at) \o SubSeq(wire[Peer(e)], 1, k),
                            !.recvLen = @ + k]
<1>1. /\ pc[Loop(e)] = "kMsgHeader" /\ k \in 1 .. Len(wire[Peer(e)]) /\ at + k <= HeaderLen
      /\ wire' = [wire EXCEPT ![Peer(e)] = SubSeq(@, k + 1, Len(@))]
      /\ len' = len /\ todo' = todo /\ link' = link /\ intr' = intr /\ freed' = freed
  BY DEF RecvHeader
<1>2. /\ EnvOK /\ SubSeq(wire[Peer(e)], 1, k) \in Seq(BytesOf(Peer(e)))
      /\ Len(SubSeq(wire[Peer(e)], 1, k)) = k
  BY <1>1, RecvEnv
<1>3. /\ c \in ConnType(e) /\ c.mutex = Loop(e) /\ ~ c.closed /\ c.iov <= c.total_send_len
      /\ c.total_send_len = IF c.send_message = NoMsg THEN 0 ELSE Size(c.send_message)
      /\ c.total_send_len # 0 => c.state = "kDisconnecting"
      /\ c.recv_state = "kMsgHeader" /\ at <= Len(c.header)
  BY <1>1, ReceivingFacts
<1>4. c.header \in Seq(BytesOf(Peer(e))) /\ c.recv_len \in Nat /\ c.recvLen \in Nat /\ at \in Nat
  BY <1>3 DEF ConnType
<1>5. k \in Nat /\ k >= 1 /\ HeaderLen \in Nat
  BY ConnectionAssumption DEF ConnectionAssumption
<1>6. h \in Seq(BytesOf(Peer(e))) /\ Len(h) = at + k
  <2>1. SubSeq(c.header, 1, at) \in Seq(BytesOf(Peer(e))) /\ Len(SubSeq(c.header, 1, at)) = at
    BY <1>3, <1>4, SubSeqProperties
  <2> HIDE DEF at, c
  <2> QED
    BY <1>2, <2>1, ConcatProperties
<1>7. got = [c EXCEPT !.header = h, !.recvLen = c.recvLen + k]
  BY <1>3 DEF ConnType
<1>8. got \in ConnType(e)
  <2>1. c.recvLen + k \in Nat
    BY <1>4, <1>5
  <2> HIDE DEF h, got
  <2> QED
    BY <1>3, <1>6, <1>7, <2>1 DEF ConnType
<1>9. /\ got.state = c.state /\ got.closed = c.closed /\ got.iov = c.iov /\ got.mutex = Loop(e)
      /\ got.send_message = c.send_message /\ got.total_send_len = c.total_send_len
      /\ got.recv_state = c.recv_state /\ got.recv_len = c.recv_len
      /\ got.recvLen = c.recvLen + k /\ got.header = h
  <2> HIDE DEF h, got
  <2> QED
    BY <1>3, <1>7 DEF ConnType
<1>10. \/ at + k = HeaderLen /\ HeaderDone(e, got)
       \/ conn' = [conn EXCEPT ![e] = got] /\ pc' = pc
  BY DEF RecvHeader
<1>11. c.send_message = conn[e].send_message /\ at = c.recv_len + c.recvLen
  OBVIOUS
<1> HIDE DEF got, h, at
<1>12. CASE conn' = [conn EXCEPT ![e] = got] /\ pc' = pc
  <2>1. pc' = [pc EXCEPT ![Loop(e)] = "kMsgHeader"]
    BY <1>1, <1>12 DEF ConnInv, ConnTypeOK
  <2>2. ExactAt(got, "kMsgHeader")
    BY <1>3, <1>4, <1>5, <1>6, <1>9, <1>11 DEF ExactAt, SendPc
  <2>3. "kMsgHeader" \in LoopPc /\ "kMsgHeader" \in Critical
    BY DEF LoopPc, Critical
  <2> QED
    BY <1>1, <1>2, <1>8, <1>9, <1>12, <2>1, <2>2, <2>3, ReceiveStep
<1>13. CASE at + k = HeaderLen /\ HeaderDone(e, got)
  <2> DEFINE first == got.header[1]
             n == len[first[1][2]]
             ready == [got EXCEPT !.recv_state = "kBody", !.recv_len = 0, !.recvLen = 0,
                                  !.total_recv_len = n, !.body = <<>>]
             bad == [got EXCEPT !.recv_len = 0, !.state = "kDisconnecting"]
  <2>1. \/ /\ conn' = [conn EXCEPT ![e] = ready]
           /\ pc' = [pc EXCEPT ![Loop(e)] = "kBody"]
        \/ ParseFails(e, bad)
    BY <1>13 DEF HeaderDone
  <2>2. n \in Nat
    <3>1. first \in BytesOf(Peer(e))
      BY <1>4, <1>5, <1>6, <1>9
    <3>2. first[1] \in SentBy(Peer(e)) /\ Peer(e) \in Ends
      BY <3>1, EndFacts DEF BytesOf
    <3>3. len \in [Requests -> BodyLens]
      BY DEF ConnInv, ConnTypeOK
    <3> QED
      BY <3>2, <3>3, MessageFacts
  <2>3. ready \in ConnType(e) /\ bad \in ConnType(e)
    <3> HIDE DEF n
    <3>1. <<>> \in Seq(BytesOf(Peer(e))) /\ n \in Int
      BY <2>2
    <3>2. ready \in ConnType(e)
      BY <1>8, <3>1 DEF ConnType
    <3>3. bad \in ConnType(e)
      BY <1>8 DEF ConnType
    <3> QED
      BY <3>2, <3>3
  <2>4. /\ ready.state = got.state /\ ready.closed = got.closed /\ ready.iov = got.iov
        /\ ready.mutex = got.mutex
        /\ ready.send_message = got.send_message /\ ready.total_send_len = got.total_send_len
        /\ ready.recv_state = "kBody" /\ ready.recv_len = 0 /\ ready.header = got.header
    <3> HIDE DEF n
    <3> QED
      BY <1>8 DEF ConnType
  <2>5. /\ bad.state = "kDisconnecting" /\ bad.closed = got.closed /\ bad.iov = got.iov
        /\ bad.send_message = got.send_message /\ bad.total_send_len = got.total_send_len
        /\ bad.recv_state = got.recv_state /\ bad.recv_len = 0 /\ bad.header = got.header
    BY <1>8 DEF ConnType
  <2> HIDE DEF ready, bad, n
  <2>6. CASE /\ conn' = [conn EXCEPT ![e] = ready]
             /\ pc' = [pc EXCEPT ![Loop(e)] = "kBody"]
    <3>1. ExactAt(ready, "kBody")
      BY <1>3, <1>4, <1>5, <1>6, <1>9, <2>4 DEF ExactAt, SendPc
    <3>2. "kBody" \in LoopPc /\ "kBody" \in Critical
      BY DEF LoopPc, Critical
    <3> QED
      BY <1>1, <1>2, <1>9, <2>3, <2>4, <2>6, <3>1, <3>2, ReceiveStep
  <2>7. CASE ParseFails(e, bad)
    <3>1. ExactAt(bad, "tail")
      BY <1>3, <1>4, <1>5, <1>6, <1>9, <2>5 DEF ExactAt, SendPc
    <3> QED
      BY <1>1, <1>2, <1>9, <2>3, <2>5, <2>7, <3>1, ParseFailsInv
  <2> QED
    BY <2>1, <2>6, <2>7
<1> QED
  BY <1>10, <1>12, <1>13

LEMMA RecvBodyInv ==
  ASSUME ConnInv, NEW e \in Ends, NEW k \in 1 .. Capacity, RecvBody(e, k)
  PROVE  ConnInv'
<1> DEFINE c == conn[e]
           b == c.body \o SubSeq(wire[Peer(e)], 1, k)
           got == [c EXCEPT !.body = @ \o SubSeq(wire[Peer(e)], 1, k), !.recvLen = @ + k]
<1>1. /\ pc[Loop(e)] = "kBody" /\ k \in 1 .. Len(wire[Peer(e)])
      /\ wire' = [wire EXCEPT ![Peer(e)] = SubSeq(@, k + 1, Len(@))]
      /\ len' = len /\ todo' = todo /\ link' = link /\ intr' = intr /\ freed' = freed
  BY DEF RecvBody
<1>2. EnvOK /\ SubSeq(wire[Peer(e)], 1, k) \in Seq(BytesOf(Peer(e)))
  BY <1>1, RecvEnv
<1>3. /\ c \in ConnType(e) /\ c.mutex = Loop(e) /\ ~ c.closed /\ c.iov <= c.total_send_len
      /\ c.total_send_len = IF c.send_message = NoMsg THEN 0 ELSE Size(c.send_message)
      /\ c.total_send_len # 0 => c.state = "kDisconnecting"
      /\ c.recv_state = "kBody" /\ c.recv_len = 0 /\ Len(c.header) >= 1
  BY <1>1, ReceivingFacts
<1>4. /\ c.header \in Seq(BytesOf(Peer(e))) /\ c.body \in Seq(BytesOf(Peer(e)))
      /\ c.recvLen \in Nat /\ c.count \in Nat
  BY <1>3 DEF ConnType
<1>5. k \in Nat /\ MaxRecvCount \in Nat
  BY ConnectionAssumption DEF ConnectionAssumption
<1>6. b \in Seq(BytesOf(Peer(e)))
  BY <1>2, <1>4, ConcatProperties
<1>7. got = [c EXCEPT !.body = b, !.recvLen = c.recvLen + k]
  BY <1>3 DEF ConnType
<1>8. got \in ConnType(e)
  <2>1. c.recvLen + k \in Nat
    BY <1>4, <1>5
  <2> HIDE DEF b, got
  <2> QED
    BY <1>3, <1>6, <1>7, <2>1 DEF ConnType
<1>9. /\ got.state = c.state /\ got.closed = c.closed /\ got.iov = c.iov /\ got.mutex = Loop(e)
      /\ got.send_message = c.send_message /\ got.total_send_len = c.total_send_len
      /\ got.recv_state = c.recv_state /\ got.recv_len = c.recv_len
      /\ got.header = c.header /\ got.count = c.count
  <2> HIDE DEF b, got
  <2> QED
    BY <1>3, <1>7 DEF ConnType
<1>10. \/ HandleMessage(e, got)
       \/ conn' = [conn EXCEPT ![e] = got] /\ pc' = pc
  BY DEF RecvBody
<1> HIDE DEF got, b
<1>11. CASE conn' = [conn EXCEPT ![e] = got] /\ pc' = pc
  <2>1. pc' = [pc EXCEPT ![Loop(e)] = "kBody"]
    BY <1>1, <1>11 DEF ConnInv, ConnTypeOK
  <2>2. ExactAt(got, "kBody")
    BY <1>3, <1>9 DEF ExactAt, SendPc
  <2>3. "kBody" \in LoopPc /\ "kBody" \in Critical
    BY DEF LoopPc, Critical
  <2> QED
    BY <1>1, <1>2, <1>8, <1>9, <1>11, <2>1, <2>2, <2>3, ReceiveStep
<1>12. CASE HandleMessage(e, got)
  <2> DEFINE m == got.header[1][1]
             done == [got EXCEPT !.recv_state = "kMsgHeader", !.header = <<>>, !.body = <<>>,
                                 !.recvLen = 0, !.total_recv_len = 0]
  <2>1. m \in SentBy(Peer(e)) /\ Peer(e) \in Ends
    <3>1. got.header[1] \in BytesOf(Peer(e))
      BY <1>3, <1>4, <1>9
    <3> QED
      BY <3>1, EndFacts DEF BytesOf
  <2>2. len \in [Requests -> BodyLens]
    BY DEF ConnInv, ConnTypeOK
  <2>3. done \in ConnType(e)
    <3> DEFINE read == [got EXCEPT !.recv_state = "kMsgHeader", !.header = <<>>]
    <3>1. <<>> \in Seq(BytesOf(Peer(e)))
      OBVIOUS
    <3>2. read \in ConnType(e)
      BY <1>8, <3>1 DEF ConnType
    <3>3. done = [read EXCEPT !.body = <<>>, !.recvLen = 0, !.total_recv_len = 0]
      BY <1>8 DEF ConnType
    <3> HIDE DEF read, done
    <3>4. PICK z \in Int : z = 0
      OBVIOUS
    <3>5. done = [read EXCEPT !.body = <<>>, !.recvLen = 0, !.total_recv_len = z]
      BY <3>3, <3>4
    <3> QED
      BY <3>1, <3>2, <3>5 DEF ConnType
  <2>4. /\ done.state = got.state /\ done.closed = got.closed /\ done.iov = got.iov
        /\ done.mutex = got.mutex /\ done.count = got.count
        /\ done.send_message = got.send_message /\ done.total_send_len = got.total_send_len
        /\ done.recv_state = "kMsgHeader" /\ done.recv_len = got.recv_len /\ done.header = <<>>
    BY <1>8 DEF ConnType
  <2>5. CASE m[1] = "request"
    <3>1. e = "server" /\ m[2] \in Requests
      BY <2>1, <2>2, <2>5, MessageFacts DEF Peer, Ends
    <3> DEFINE q == Reply(m[2])
               d == [done EXCEPT !.send_message = q, !.total_send_len = Size(q),
                                 !.iov = Size(q), !.sendLen = 0]
    <3>2. /\ conn' = [conn EXCEPT ![e] = EnterSendMessage(FillSendMessage(done, q))]
          /\ pc' = [pc EXCEPT ![Loop(e)] = "reply"]
      BY <1>12, <2>5 DEF HandleMessage
    <3>3. q \in SentBy(e) /\ q # NoMsg /\ Size(q) \in Nat /\ Size(q) > 0
      BY <2>2, <3>1, MessageFacts
    <3> HIDE DEF done, m, q
    <3>4. EnterSendMessage(FillSendMessage(done, q)) = d
      <4>1. FillSendMessage(done, q).total_send_len # 0
        BY <2>3, <3>3 DEF FillSendMessage, ConnType
      <4>2. EnterSendMessage(FillSendMessage(done, q)) = [FillSendMessage(done, q) EXCEPT !.sendLen = 0]
        BY <4>1 DEF EnterSendMessage
      <4> QED
        BY <2>3, <4>2 DEF FillSendMessage, ConnType
    <3>5. d \in ConnType(e)
      BY <2>3, <3>3 DEF ConnType
    <3>6. /\ d.state = done.state /\ d.closed = done.closed /\ d.iov = Size(q)
          /\ d.mutex = done.mutex /\ d.sendLen = 0
          /\ d.send_message = q /\ d.total_send_len = Size(q)
          /\ d.recv_state = "kMsgHeader" /\ d.recv_len = done.recv_len /\ d.header = <<>>
      BY <2>3, <2>4 DEF ConnType
    <3> HIDE DEF d
    <3>7. ExactAt(d, "reply")
      BY <1>3, <1>9, <2>4, <3>3, <3>6 DEF ExactAt, SendPc
    <3>8. "reply" \in LoopPc /\ "reply" \in Critical /\ e # "client"
      BY <3>1 DEF LoopPc, Critical, SendPc
    <3> QED
      BY <1>1, <1>2, <1>9, <2>4, <3>2, <3>4, <3>5, <3>6, <3>7, <3>8, ReceiveStep
  <2>6. CASE m[1] # "request"
    <3> DEFINE d == [done EXCEPT !.mutex = Nobody, !.count = done.count + 1]
               x == IF done.count + 1 < MaxRecvCount THEN "lock" ELSE "tail"
    <3>1. NextMessage(Loop(e), done) /\ EndOf(Loop(e)) = e
      BY <1>12, <2>6, EndFacts DEF HandleMessage
    <3> HIDE DEF done, m
    <3>2. conn' = [conn EXCEPT ![e] = d] /\ pc' = [pc EXCEPT ![Loop(e)] = x]
      <4>1. [done EXCEPT !.mutex = Nobody, !.count = @ + 1] = d
        BY <2>3 DEF ConnType
      <4> QED
        BY <3>1, <4>1 DEF NextMessage
    <3>3. d \in ConnType(e)
      <4>1. done.count + 1 \in Nat
        BY <2>3 DEF ConnType
      <4> QED
        BY <2>3, <4>1 DEF ConnType
    <3>4. /\ d.state = done.state /\ d.closed = done.closed /\ d.iov = done.iov
          /\ d.mutex = Nobody
          /\ d.send_message = done.send_message /\ d.total_send_len = done.total_send_len
          /\ d.recv_state = "kMsgHeader" /\ d.recv_len = done.recv_len /\ d.header = <<>>
      BY <2>3, <2>4 DEF ConnType
    <3>5. x \in {"lock", "tail"} /\ x \in LoopPc /\ x \notin Critical
      BY DEF LoopPc, Critical, SendPc
    <3> HIDE DEF d, x
    <3>6. ExactAt(d, x)
      BY <1>3, <1>9, <2>4, <3>4, <3>5 DEF ExactAt, SendPc
    <3> QED
      BY <1>1, <1>2, <1>9, <2>4, <3>2, <3>3, <3>4, <3>5, <3>6, ReceiveStep
  <2> QED
    BY <2>5, <2>6
<1> QED
  BY <1>10, <1>11, <1>12

-----------------------------------------------------------------------------
(* The theorems.                                                           *)

LEMMA StutterInv ==
  ASSUME ConnInv, UNCHANGED vars
  PROVE  ConnInv'
<1>1. ConnTypeOK'
  BY DEF ConnInv, ConnTypeOK, vars
<1>2. \A e \in Ends : SendExact(e)' /\ ReadExact(e)'
  BY OtherEnd DEF ConnInv, vars
<1> QED
  BY <1>1, <1>2, RequestsKept DEF ConnInv, vars

LEMMA StepInv == ConnInv /\ [Next]_vars => ConnInv'
<1> SUFFICES ASSUME ConnInv, [Next]_vars PROVE ConnInv'
  OBVIOUS
<1>1. CASE UNCHANGED vars
  BY <1>1, StutterInv
<1>2. ASSUME NEW t \in Senders, NEW r \in Requests, Send(t, r) PROVE ConnInv'
  BY <1>2, SendInv
<1>3. ASSUME NEW t \in Threads, Sendmsg(t) PROVE ConnInv'
  BY <1>3, SendmsgBytesInv, SendmsgEagainInv, SendmsgErrorInv, StutterInv
  DEF Sendmsg, SendmsgNothing
<1>4. ASSUME NEW e \in Ends, LoopStep(e) PROVE ConnInv'
  BY <1>4, HandleWritableInv, HandleReadableInv, LockReceiveInv, RecvHeaderInv, RecvBodyInv,
     RecvHeaderEagainInv, RecvErrorInv, HandlerTailInv DEF LoopStep
<1>5. ASSUME NEW e \in Ends, RecvIntr(e) PROVE ConnInv'
  BY <1>5, RecvIntrInv
<1>6. CASE LinkFails
  BY <1>6, LinkFailsInv
<1> QED
  BY <1>1, <1>2, <1>3, <1>4, <1>5, <1>6 DEF Next

\* The inductive invariant: what the mutex protects, what has been read of a
\* header, and who deletes a request.
THEOREM ConnInvariant == Spec => []ConnInv
  BY InitInv, StepInv, PTL DEF Spec

LEMMA ConnInvImplies == ConnInv => NoHalfSent /\ RequestsFreedOnce
<1> SUFFICES ASSUME ConnInv PROVE NoHalfSent
  BY DEF ConnInv
<1>1. \A e \in Ends : conn[e].queue = <<>> /\ SendExact(e)
  BY DEF ConnInv, ConnTypeOK, ConnType
<1> QED
  BY <1>1 DEF NoHalfSent, SendExact

\* Between two critical sections a connection that is up has nothing half sent
\* and nothing queued, so FillSendMessage never overwrites a message: Flush
\* gives the mutex up only when all of the message is out or the connection
\* has failed.
THEOREM NeverHalfSent == Spec => []NoHalfSent
  BY ConnInvariant, ConnInvImplies, PTL

\* Connection::Flush, Close and a Send that is refused delete every request
\* exactly once between them, for any number of requests and senders.
THEOREM EachRequestFreedOnce == Spec => []RequestsFreedOnce
  BY ConnInvariant, ConnInvImplies, PTL

-----------------------------------------------------------------------------
(* The stream of bytes.                                                    *)

\* base places the messages F, of the lengths L, one after the other.
Placed(L, F, base) ==
  /\ \A i \in 1 .. Len(F) : base[i + 1] = base[i] + HeaderLen + L[F[i][2]]
  /\ \A i \in 1 .. Len(F), j \in 1 .. Len(F) + 1 :
       i < j => base[i] + HeaderLen + L[F[i][2]] <= base[j]

\* The bytes W are those of F from byte at of message n + 1 on, but for the
\* last left bytes.
Track(L, F, W, n, at, left) ==
  \E base \in [1 .. Len(F) + 1 -> Int] :
    /\ Placed(L, F, base)
    /\ base[n + 1] + at + Len(W) + left = base[Len(F) + 1]
    /\ \A i \in 1 .. Len(W), m \in 1 .. Len(F), p \in Nat \ {0} :
         base[m] + p = base[n + 1] + at + i /\ p <= HeaderLen + L[F[m][2]]
           => W[i] = <<F[m], p>>

\* How much of the message under way an end has read.
At(e) ==
  LET c == conn[e]
  IN  IF c.recv_state = "kBody" THEN HeaderLen + Len(c.body)
      ELSE c.recv_len + IF pc[Loop(e)] = "kMsgHeader" THEN c.recvLen ELSE 0

\* An end that will read no more.
Dead(e) ==
  conn[e].closed \/ (pc[Loop(e)] = "tail" /\ conn[e].state = "kDisconnecting")

\* What is on the wire continues what has been read, and while the link is up
\* only the rest of the message under way is missing.
Stream(e) ==
  \E left \in Nat :
    /\ Track(len, filled[Peer(e)], wire[Peer(e)], Len(handled[e]), At(e), left)
    /\ link => left = conn[Peer(e)].iov

\* What has been read of a message is the message's.
Parsed(e) ==
  LET c == conn[e]
      m == filled[Peer(e)][Len(handled[e]) + 1]
  IN  IF c.recv_state = "kMsgHeader"
      THEN \A i \in 1 .. At(e) : c.header[i] = <<m, i>>
      ELSE /\ c.header[1] = <<m, 1>>
           /\ \A i \in 1 .. Len(c.body) : c.body[i] = <<m, HeaderLen + i>>
           /\ c.total_recv_len + Len(c.body)
                = len[m[2]] + IF pc[Loop(e)] = "kBody" THEN c.recvLen ELSE 0

FrameEnd(e) == ~ Dead(e) => Stream(e) /\ Parsed(e)

\* While the link is up, the message under way is the last that was begun,
\* and an end that has failed is about to close.
SendEnd(e) ==
  /\ link /\ conn[e].total_send_len # 0
       => Len(filled[e]) >= 1 /\ conn[e].send_message = filled[e][Len(filled[e])]
  /\ link /\ conn[e].state = "kDisconnecting" => pc[Loop(e)] = "tail"

Handled(e) == [msg : SentBy(Peer(e)), body : Seq(BytesOf(Peer(e)))]

FrameType ==
  /\ DOMAIN filled = Ends /\ DOMAIN handled = Ends
  /\ \A e \in Ends : /\ filled[e] \in Seq(SentBy(e))
                     /\ handled[e] \in Seq(Handled(e))

FrameInv ==
  /\ FrameType
  /\ FramesExact
  /\ \A e \in Ends : FrameEnd(e) /\ SendEnd(e)

\* The sequences the lemmas below are about.
Trackable(L, F, S, n, at, left) ==
  /\ F \in Seq(S)
  /\ \A m \in S : L[m[2]] \in Nat
  /\ n \in 0 .. Len(F) /\ at \in Nat /\ left \in Nat

\* Who has begun to read a message, or has bytes to read, is at a message.
LEMMA TrackInside ==
  ASSUME NEW L, NEW S, NEW T, NEW F, NEW n, NEW at, NEW left, NEW W \in Seq(T),
         Trackable(L, F, S, n, at, left), Track(L, F, W, n, at, left),
         at > 0 \/ Len(W) > 0
  PROVE  n < Len(F)
<1>1. PICK base \in [1 .. Len(F) + 1 -> Int] :
        base[n + 1] + at + Len(W) + left = base[Len(F) + 1]
  BY DEF Track
<1>2. Len(F) \in Nat /\ Len(W) \in Nat /\ n \in 0 .. Len(F) /\ at \in Nat /\ left \in Nat
  BY DEF Trackable
<1>3. base[n + 1] \in Int /\ base[Len(F) + 1] \in Int
  BY <1>2
<1> QED
  BY <1>1, <1>2, <1>3

\* What recv delivers.
LEMMA TrackBytes ==
  ASSUME NEW L, NEW S, NEW T, NEW F, NEW n, NEW at, NEW left, NEW W \in Seq(T),
         Trackable(L, F, S, n, at, left), Track(L, F, W, n, at, left), n < Len(F),
         NEW k \in 1 .. Len(W), at + k <= HeaderLen + L[F[n + 1][2]]
  PROVE  \A i \in 1 .. k : W[i] = <<F[n + 1], at + i>>
<1> SUFFICES ASSUME NEW i \in 1 .. k PROVE W[i] = <<F[n + 1], at + i>>
  OBVIOUS
<1>1. PICK base \in [1 .. Len(F) + 1 -> Int] :
        \A j \in 1 .. Len(W), m \in 1 .. Len(F), p \in Nat \ {0} :
          base[m] + p = base[n + 1] + at + j /\ p <= HeaderLen + L[F[m][2]]
            => W[j] = <<F[m], p>>
  BY DEF Track
<1>2. Len(F) \in Nat /\ Len(W) \in Nat /\ n \in 0 .. Len(F) /\ at \in Nat
  BY DEF Trackable
<1>3. F[n + 1] \in S /\ L[F[n + 1][2]] \in Nat
  BY <1>2 DEF Trackable
<1>4. HeaderLen \in Nat
  BY ConnectionAssumption DEF ConnectionAssumption
<1>5. /\ i \in 1 .. Len(W) /\ n + 1 \in 1 .. Len(F) /\ at + i \in Nat \ {0}
      /\ base[n + 1] + (at + i) = base[n + 1] + at + i
      /\ at + i <= HeaderLen + L[F[n + 1][2]]
  <2>1. base[n + 1] \in Int
    BY <1>2
  <2>2. i \in Nat /\ k \in Nat /\ i <= k /\ i \in 1 .. Len(W) /\ at + i \in Nat \ {0}
    BY <1>2
  <2>3. n + 1 \in 1 .. Len(F)
    BY <1>2
  <2>4. base[n + 1] + (at + i) = base[n + 1] + at + i
    BY <1>2, <2>1, <2>2
  <2>5. at + i <= HeaderLen + L[F[n + 1][2]]
    BY <1>2, <1>3, <1>4, <2>2, SMTT(40)
  <2> QED
    BY <2>2, <2>3, <2>4, <2>5
<1> QED
  BY <1>1, <1>5

\* recv takes k bytes off.
LEMMA TrackRecv ==
  ASSUME NEW L, NEW S, NEW T, NEW F, NEW n, NEW at, NEW left, NEW W \in Seq(T),
         Trackable(L, F, S, n, at, left), Track(L, F, W, n, at, left),
         NEW k \in 1 .. Len(W)
  PROVE  Track(L, F, SubSeq(W, k + 1, Len(W)), n, at + k, left)
<1> DEFINE V == SubSeq(W, k + 1, Len(W))
<1>1. PICK base \in [1 .. Len(F) + 1 -> Int] :
        /\ Placed(L, F, base)
        /\ base[n + 1] + at + Len(W) + left = base[Len(F) + 1]
        /\ \A i \in 1 .. Len(W), m \in 1 .. Len(F), p \in Nat \ {0} :
             base[m] + p = base[n + 1] + at + i /\ p <= HeaderLen + L[F[m][2]]
               => W[i] = <<F[m], p>>
  BY DEF Track
<1>2. /\ Len(F) \in Nat /\ Len(W) \in Nat /\ n \in 0 .. Len(F) /\ at \in Nat /\ left \in Nat
      /\ k \in Nat /\ k >= 1 /\ k <= Len(W)
  BY DEF Trackable
<1>3. base[n + 1] \in Int /\ base[Len(F) + 1] \in Int /\ \A m \in 1 .. Len(F) : base[m] \in Int
  BY <1>2
<1>4. Len(V) = Len(W) - k /\ \A i \in 1 .. Len(V) : V[i] = W[k + i]
  BY <1>2, SubSeqProperties
<1> HIDE DEF V
<1>5. base[n + 1] + (at + k) + Len(V) + left = base[Len(F) + 1]
  BY <1>1, <1>2, <1>3, <1>4
<1>6. ASSUME NEW i \in 1 .. Len(V), NEW m \in 1 .. Len(F), NEW p \in Nat \ {0},
             base[m] + p = base[n + 1] + (at + k) + i, p <= HeaderLen + L[F[m][2]]
      PROVE  V[i] = <<F[m], p>>
  <2>1. k + i \in 1 .. Len(W) /\ base[m] + p = base[n + 1] + at + (k + i)
    BY <1>2, <1>3, <1>4, <1>6
  <2> QED
    BY <1>1, <1>4, <1>6, <2>1
<1>7. Track(L, F, V, n, at + k, left)
  <2>1. \A i \in 1 .. Len(V), m \in 1 .. Len(F), p \in Nat \ {0} :
          base[m] + p = base[n + 1] + (at + k) + i /\ p <= HeaderLen + L[F[m][2]]
            => V[i] = <<F[m], p>>
    BY <1>6
  <2> QED
    BY <1>1, <1>5, <2>1 DEF Track
<1> QED
  BY <1>7 DEF V

\* A message has been read to its end.
LEMMA TrackNext ==
  ASSUME NEW L, NEW S, NEW T, NEW F, NEW n, NEW at, NEW left, NEW W \in Seq(T),
         Trackable(L, F, S, n, at, left), Track(L, F, W, n, at, left), n < Len(F),
         at = HeaderLen + L[F[n + 1][2]]
  PROVE  Track(L, F, W, n + 1, 0, left)
<1>1. PICK base \in [1 .. Len(F) + 1 -> Int] :
        /\ Placed(L, F, base)
        /\ base[n + 1] + at + Len(W) + left = base[Len(F) + 1]
        /\ \A i \in 1 .. Len(W), m \in 1 .. Len(F), p \in Nat \ {0} :
             base[m] + p = base[n + 1] + at + i /\ p <= HeaderLen + L[F[m][2]]
               => W[i] = <<F[m], p>>
  BY DEF Track
<1>2. /\ Len(F) \in Nat /\ Len(W) \in Nat /\ n \in 0 .. Len(F) /\ at \in Nat /\ left \in Nat
      /\ n + 1 \in 1 .. Len(F)
  BY DEF Trackable
<1>3. /\ L[F[n + 1][2]] \in Nat /\ HeaderLen \in Nat
      /\ base[n + 1] \in Int /\ base[n + 1 + 1] \in Int
  <2>1. HeaderLen \in Nat
    BY ConnectionAssumption DEF ConnectionAssumption
  <2>2. F[n + 1] \in S
    BY <1>2 DEF Trackable
  <2>3. L[F[n + 1][2]] \in Nat
    BY <2>2 DEF Trackable
  <2>4. base[n + 1] \in Int /\ base[n + 1 + 1] \in Int
    BY <1>2, SMTT(40)
  <2> QED
    BY <2>1, <2>3, <2>4
<1>4. base[n + 1 + 1] = base[n + 1] + HeaderLen + L[F[n + 1][2]]
  BY <1>1, <1>2 DEF Placed
<1>5. base[n + 1 + 1] + 0 = base[n + 1] + at
  BY <1>3, <1>4
<1>6. /\ base[n + 1 + 1] + 0 + Len(W) + left = base[Len(F) + 1]
      /\ \A i \in 1 .. Len(W), m \in 1 .. Len(F), p \in Nat \ {0} :
           base[m] + p = base[n + 1 + 1] + 0 + i /\ p <= HeaderLen + L[F[m][2]]
             => W[i] = <<F[m], p>>
  BY <1>1, <1>5
<1> QED
  BY <1>1, <1>6 DEF Track

\* A message is begun.
LEMMA TrackFill ==
  ASSUME NEW L, NEW S, NEW T, NEW F, NEW n, NEW at, NEW left, NEW W \in Seq(T),
         Trackable(L, F, S, n, at, left), Track(L, F, W, n, at, left),
         NEW x \in S
  PROVE  Track(L, Append(F, x), W, n, at, left + (HeaderLen + L[x[2]]))
<1> DEFINE G == Append(F, x)
           size == HeaderLen + L[x[2]]
<1>1. PICK base \in [1 .. Len(F) + 1 -> Int] :
        /\ Placed(L, F, base)
        /\ base[n + 1] + at + Len(W) + left = base[Len(F) + 1]
        /\ \A i \in 1 .. Len(W), m \in 1 .. Len(F), p \in Nat \ {0} :
             base[m] + p = base[n + 1] + at + i /\ p <= HeaderLen + L[F[m][2]]
               => W[i] = <<F[m], p>>
  BY DEF Track
<1>2. /\ F \in Seq(S) /\ Len(F) \in Nat /\ Len(W) \in Nat /\ n \in 0 .. Len(F)
      /\ at \in Nat /\ left \in Nat
  BY DEF Trackable
<1>3. HeaderLen \in Nat /\ L[x[2]] \in Nat /\ size \in Nat
  BY ConnectionAssumption, SMTT(40) DEF ConnectionAssumption, Trackable
<1>4. Len(G) = Len(F) + 1 /\ G[Len(F) + 1] = x /\ \A i \in 1 .. Len(F) : G[i] = F[i]
  BY <1>2, AppendProperties
<1> DEFINE B == [i \in 1 .. Len(G) + 1 |-> IF i = Len(F) + 2 THEN base[Len(F) + 1] + size
                                           ELSE base[i]]
<1> HIDE DEF G
<1>5. B \in [1 .. Len(G) + 1 -> Int]
  <2>1. \A i \in 1 .. Len(F) + 1 : base[i] \in Int
    OBVIOUS
  <2> HIDE DEF size
  <2>2. base[Len(F) + 1] + size \in Int
    <3>1. Len(F) + 1 \in 1 .. Len(F) + 1
      BY <1>2
    <3>2. base[Len(F) + 1] \in Int
      BY <2>1, <3>1
    <3> QED
      BY <1>3, <3>2
  <2> QED
    BY <1>2, <1>4, <2>1, <2>2
<1>6. B[Len(G) + 1] = base[Len(F) + 1] + size /\ \A i \in 1 .. Len(F) + 1 : B[i] = base[i]
  BY <1>2, <1>4
<1> HIDE DEF B, size
<1>7. /\ \A i \in 1 .. Len(F) + 1 : base[i] \in Int
      /\ \A i \in 1 .. Len(F) : L[F[i][2]] \in Nat
  <2>1. \A i \in 1 .. Len(F) : F[i] \in S
    BY <1>2
  <2> QED
    BY <2>1 DEF Trackable
<1>8. Placed(L, G, B)
  <2>1. \A i \in 1 .. Len(G) : B[i + 1] = B[i] + HeaderLen + L[G[i][2]]
    <3> SUFFICES ASSUME NEW i \in 1 .. Len(G) PROVE B[i + 1] = B[i] + HeaderLen + L[G[i][2]]
      OBVIOUS
    <3>1. CASE i = Len(F) + 1
      <4>1. B[i] = base[Len(F) + 1] /\ B[i + 1] = base[Len(F) + 1] + size /\ G[i] = x
        BY <1>2, <1>4, <1>6, <3>1
      <4>2. base[Len(F) + 1] \in Int
        BY <1>2
      <4> QED
        BY <1>3, <4>1, <4>2 DEF size
    <3>2. CASE i \in 1 .. Len(F)
      <4>1. B[i] = base[i] /\ B[i + 1] = base[i + 1] /\ G[i] = F[i]
        BY <1>2, <1>4, <1>6, <3>2
      <4> QED
        BY <1>1, <3>2, <4>1 DEF Placed
    <3> QED
      BY <1>2, <1>4, <3>1, <3>2
  <2>2. \A i \in 1 .. Len(G), j \in 1 .. Len(G) + 1 :
          i < j => B[i] + HeaderLen + L[G[i][2]] <= B[j]
    <3> SUFFICES ASSUME NEW i \in 1 .. Len(G), NEW j \in 1 .. Len(G) + 1, i < j
                 PROVE  B[i] + HeaderLen + L[G[i][2]] <= B[j]
      OBVIOUS
    <3>1. CASE i = Len(F) + 1
      <4>1. j = i + 1
        BY <1>2, <1>4, <3>1
      <4>2. B[j] = B[i] + HeaderLen + L[G[i][2]]
        BY <2>1, <4>1
      <4>3. \A v \in Int : v <= v
        OBVIOUS
      <4>4. B[j] \in Int
        BY <1>5
      <4> QED
        BY <4>2, <4>3, <4>4
    <3>2. CASE i \in 1 .. Len(F) /\ j = Len(F) + 2
      <4>1. B[i] = base[i] /\ G[i] = F[i] /\ B[j] = base[Len(F) + 1] + size
        BY <1>2, <1>4, <1>6, <3>2
      <4>2. base[i] + HeaderLen + L[F[i][2]] <= base[Len(F) + 1]
        BY <1>1, <1>2, <3>2 DEF Placed
      <4>3. base[i] \in Int /\ base[Len(F) + 1] \in Int /\ L[F[i][2]] \in Nat
        BY <1>2, <1>7, <3>2
      <4> QED
        BY <1>3, <4>1, <4>2, <4>3, SMTT(40)
    <3>3. CASE i \in 1 .. Len(F) /\ j \in 1 .. Len(F) + 1
      <4>1. B[i] = base[i] /\ G[i] = F[i] /\ B[j] = base[j]
        BY <1>2, <1>4, <1>6, <3>3
      <4> QED
        BY <1>1, <3>3, <4>1 DEF Placed
    <3> QED
      BY <1>2, <1>4, <3>1, <3>2, <3>3
  <2> QED
    BY <2>1, <2>2 DEF Placed
<1>9. B[n + 1] = base[n + 1] /\ base[n + 1] \in Int /\ base[Len(F) + 1] \in Int
  <2>1. n + 1 \in 1 .. Len(F) + 1 /\ Len(F) + 1 \in 1 .. Len(F) + 1
    BY <1>2
  <2> QED
    BY <1>6, <1>7, <2>1
<1>10. B[n + 1] + at + Len(W) + (left + size) = B[Len(G) + 1]
  BY <1>1, <1>2, <1>3, <1>6, <1>9, SMTT(40)
<1>11. \A i \in 1 .. Len(W), m \in 1 .. Len(G), p \in Nat \ {0} :
         B[m] + p = B[n + 1] + at + i /\ p <= HeaderLen + L[G[m][2]]
           => W[i] = <<G[m], p>>
  <2> SUFFICES ASSUME NEW i \in 1 .. Len(W), NEW m \in 1 .. Len(G), NEW p \in Nat \ {0},
                      B[m] + p = B[n + 1] + at + i, p <= HeaderLen + L[G[m][2]]
               PROVE  W[i] = <<G[m], p>>
    OBVIOUS
  <2>1. m # Len(F) + 1
    <3> SUFFICES ASSUME m = Len(F) + 1 PROVE FALSE
      OBVIOUS
    <3>1. B[m] = base[Len(F) + 1]
      BY <1>2, <1>6
    <3> QED
      BY <1>1, <1>2, <1>9, <3>1, SMTT(40)
  <2>2. m \in 1 .. Len(F)
    BY <1>2, <1>4, <2>1
  <2>3. B[m] = base[m] /\ G[m] = F[m]
    BY <1>2, <1>4, <1>6, <2>2
  <2> QED
    BY <1>1, <1>9, <2>2, <2>3
<1>12. Track(L, G, W, n, at, left + size)
  BY <1>5, <1>8, <1>10, <1>11 DEF Track
<1> QED
  BY <1>12 DEF G, size

\* X are the next bytes of the last message of F, of which left are to be sent.
NextOf(L, F, X, left) ==
  /\ Len(F) >= 1
  /\ left <= HeaderLen + L[F[Len(F)][2]]
  /\ Len(X) <= left
  /\ \A i \in 1 .. Len(X) : X[i] = <<F[Len(F)], HeaderLen + L[F[Len(F)][2]] - left + i>>

\* sendmsg takes some bytes of the last message.
LEMMA TrackSend ==
  ASSUME NEW L, NEW S, NEW T, NEW F, NEW n, NEW at, NEW left, NEW W \in Seq(T),
         Trackable(L, F, S, n, at, left), Track(L, F, W, n, at, left),
         NEW X \in Seq(T), NextOf(L, F, X, left)
  PROVE  Track(L, F, W \o X, n, at, left - Len(X))
<1>1. PICK base \in [1 .. Len(F) + 1 -> Int] :
        /\ Placed(L, F, base)
        /\ base[n + 1] + at + Len(W) + left = base[Len(F) + 1]
        /\ \A i \in 1 .. Len(W), m \in 1 .. Len(F), p \in Nat \ {0} :
             base[m] + p = base[n + 1] + at + i /\ p <= HeaderLen + L[F[m][2]]
               => W[i] = <<F[m], p>>
  BY DEF Track
<1> DEFINE V == W \o X
<1>2. PICK last \in Nat : last = Len(F) /\ last >= 1 /\ last \in 1 .. last
  BY DEF Trackable, NextOf
<1>3. PICK w \in Nat, k \in Nat : w = Len(W) /\ k = Len(X)
  OBVIOUS
<1>4. n \in 0 .. last /\ n \in Nat /\ at \in Nat /\ left \in Nat
  BY <1>2 DEF Trackable
<1>5. HeaderLen \in Nat /\ \A i \in 1 .. last : L[F[i][2]] \in Nat
  <2>1. \A i \in 1 .. last : F[i] \in S
    BY <1>2 DEF Trackable
  <2>2. HeaderLen \in Nat
    BY ConnectionAssumption DEF ConnectionAssumption
  <2> QED
    BY <2>1, <2>2 DEF Trackable
<1>6. PICK y \in Nat, size \in Nat : y = L[F[last][2]] /\ size = HeaderLen + y
  <2>1. L[F[last][2]] \in Nat
    BY <1>2, <1>5
  <2> QED
    BY <1>5, <2>1
<1>7. left <= size /\ k <= left /\ \A i \in 1 .. k : X[i] = <<F[last], size - left + i>>
  <2>1. left <= HeaderLen + y /\ k <= left
    BY <1>2, <1>3, <1>6 DEF NextOf
  <2>2. \A i \in 1 .. k : X[i] = <<F[last], HeaderLen + y - left + i>>
    BY <1>2, <1>3, <1>6 DEF NextOf
  <2>3. left <= size
    BY <1>6, <2>1
  <2>4. ASSUME NEW i \in 1 .. k PROVE X[i] = <<F[last], size - left + i>>
    <3>1. i \in Int /\ left \in Int /\ HeaderLen \in Int
      BY <1>4, <1>5
    <3>2. \A a, b, c, d, f \in Int : f = a + b => a + b - c + d = f - c + d
      OBVIOUS
    <3>3. HeaderLen + y - left + i = size - left + i
      BY <1>6, <3>1, <3>2, SMTT(40)
    <3> QED
      BY <2>2, <3>3
  <2> QED
    BY <2>1, <2>3, <2>4
<1>8. /\ Len(V) = w + k
      /\ \A i \in 1 .. w : V[i] = W[i]
      /\ \A i \in 1 .. k : V[w + i] = X[i]
  BY <1>3
<1>9. PICK b0 \in Int, b1 \in Int, b2 \in Int :
        b0 = base[n + 1] /\ b1 = base[last] /\ b2 = base[last + 1]
  <2>1. \A m \in 1 .. last + 1 : base[m] \in Int
    BY <1>2
  <2>2. n + 1 \in 1 .. last + 1 /\ last \in 1 .. last + 1 /\ last + 1 \in 1 .. last + 1
    BY <1>2, <1>4
  <2> QED
    BY <2>1, <2>2
<1>10. b2 = b1 + size
  <2>1. base[last + 1] = base[last] + HeaderLen + L[F[last][2]]
    BY <1>1, <1>2 DEF Placed
  <2>2. b2 = b1 + HeaderLen + y
    BY <1>6, <1>9, <2>1
  <2> QED
    BY <1>5, <1>6, <2>2, SMTT(40)
<1>11. b0 + at + w + left = b2
  BY <1>1, <1>2, <1>3, <1>9
<1> HIDE DEF V
<1>12. base[n + 1] + at + Len(V) + (left - Len(X)) = base[Len(F) + 1]
  <2>1. b0 + at + (w + k) + (left - k) = b2
    BY <1>4, <1>11
  <2> QED
    BY <1>2, <1>3, <1>8, <1>9, <2>1
<1>13. \A i \in 1 .. Len(V), m \in 1 .. Len(F), p \in Nat \ {0} :
         base[m] + p = base[n + 1] + at + i /\ p <= HeaderLen + L[F[m][2]]
           => V[i] = <<F[m], p>>
  <2> SUFFICES ASSUME NEW i \in 1 .. Len(V), NEW m \in 1 .. Len(F), NEW p \in Nat \ {0},
                      base[m] + p = base[n + 1] + at + i, p <= HeaderLen + L[F[m][2]]
               PROVE  V[i] = <<F[m], p>>
    OBVIOUS
  <2>1. i \in 1 .. w + k /\ m \in 1 .. last
    BY <1>2, <1>8
  <2>2. CASE i \in 1 .. w
    BY <1>1, <1>3, <1>8, <2>2
  <2>3. CASE i \notin 1 .. w
    <3>1. PICK j \in 1 .. k : i = w + j
      <4>1. i - w \in 1 .. k /\ i = w + (i - w)
        BY <2>1, <2>3
      <4> QED
        BY <4>1
    <3>2. base[m] + p = b1 + (size - left + j)
      <4>1. b0 + at + i = b1 + (size - left + j)
        BY <1>4, <1>10, <1>11, <3>1
      <4> QED
        BY <1>9, <4>1
    <3>3. PICK u \in Int, z \in Nat : u = base[m] /\ z = L[F[m][2]]
      <4>1. m \in 1 .. last + 1
        BY <1>2, <2>1
      <4>2. base[m] \in Int
        BY <1>2, <4>1
      <4>3. L[F[m][2]] \in Nat
        BY <1>5, <2>1
      <4> QED
        BY <4>2, <4>3
    <3>4. m = last
      <4> SUFFICES ASSUME m < last PROVE FALSE
        BY <1>2, <2>1
      <4>1. u + HeaderLen + z <= b1
        <5>1. last \in 1 .. Len(F) + 1 /\ m \in 1 .. Len(F)
          BY <1>2
        <5> QED
          BY <1>1, <1>9, <3>3, <5>1 DEF Placed
      <4>2. p <= HeaderLen + z /\ u + p = b1 + (size - left + j)
        BY <3>2, <3>3
      <4> QED
        BY <1>4, <1>5, <1>7, <4>1, <4>2
    <3>5. p = size - left + j
      <4>1. u = b1 /\ u + p = b1 + (size - left + j)
        BY <1>9, <3>2, <3>3, <3>4
      <4> QED
        BY <1>4, <4>1
    <3>6. V[i] = X[j] /\ X[j] = <<F[last], size - left + j>>
      BY <1>7, <1>8, <3>1
    <3> QED
      BY <3>4, <3>5, <3>6
  <2> QED
    BY <2>2, <2>3
<1>14. Track(L, F, V, n, at, left - Len(X))
  BY <1>1, <1>12, <1>13 DEF Track
<1> QED
  BY <1>14 DEF V

-----------------------------------------------------------------------------
(* Steps that leave the stream alone.                                      *)

\* A step after which an end has read what it had read.
Calm(e) == ~ Dead(e)' => ~ Dead(e) /\ At(e)' = At(e) /\ Parsed(e)'

LEMMA CalmFrame ==
  ASSUME FrameInv, len' = len, wire' = wire, filled' = filled, handled' = handled,
         link' => link,
         \A e \in Ends : Calm(e) /\ SendEnd(e)' /\ (link' => conn'[e].iov = conn[e].iov)
  PROVE  FrameInv'
<1>1. FrameType' /\ FramesExact'
  BY DEF FrameInv, FrameType, FramesExact
<1>2. ASSUME NEW e \in Ends, ~ Dead(e)' PROVE Stream(e)' /\ Parsed(e)'
  <2>1. ~ Dead(e) /\ At(e)' = At(e) /\ Parsed(e)'
    BY <1>2 DEF Calm
  <2>2. Stream(e)
    BY <2>1 DEF FrameInv, FrameEnd
  <2>3. Peer(e) \in Ends
    BY EndFacts
  <2>4. Stream(e)'
    BY <2>1, <2>2, <2>3 DEF Stream
  <2> QED
    BY <2>1, <2>4
<1> QED
  BY <1>1, <1>2 DEF FrameInv, FrameEnd

LEMMA HistoryKept ==
  ASSUME FrameInv, len' = len, filled' = filled, handled' = handled
  PROVE  FrameType' /\ FramesExact'
  BY DEF FrameInv, FrameType, FramesExact

\* An end whose reading fields stay as they are.
ReadSame(e) ==
  /\ conn'[e].recv_state = conn[e].recv_state /\ conn'[e].recv_len = conn[e].recv_len
  /\ conn'[e].recvLen = conn[e].recvLen /\ conn'[e].header = conn[e].header
  /\ conn'[e].body = conn[e].body /\ conn'[e].total_recv_len = conn[e].total_recv_len
  /\ pc'[Loop(e)] = "kMsgHeader" <=> pc[Loop(e)] = "kMsgHeader"
  /\ pc'[Loop(e)] = "kBody" <=> pc[Loop(e)] = "kBody"

LEMMA SameReader ==
  ASSUME FrameInv, NEW e \in Ends, ReadSame(e), Dead(e) => Dead(e)', len' = len,
         filled'[Peer(e)] = filled[Peer(e)], handled'[e] = handled[e]
  PROVE  Calm(e)
<1> SUFFICES ASSUME ~ Dead(e)' PROVE ~ Dead(e) /\ At(e)' = At(e) /\ Parsed(e)'
  BY DEF Calm
<1>1. ~ Dead(e)
  OBVIOUS
<1>2. Parsed(e)
  BY <1>1 DEF FrameInv, FrameEnd
<1>3. At(e)' = At(e)
  BY DEF At, ReadSame
<1>4. Parsed(e)'
  BY <1>2, <1>3 DEF Parsed, ReadSame
<1> QED
  BY <1>1, <1>3, <1>4

\* The end that does not take the step.
LEMMA CalmOther ==
  ASSUME FrameInv, NEW e \in Ends, conn'[e] = conn[e], pc'[Loop(e)] = pc[Loop(e)],
         len' = len, filled'[Peer(e)] = filled[Peer(e)], handled'[e] = handled[e]
  PROVE  /\ Calm(e)
         /\ filled'[e] = filled[e] /\ (link' => link) => SendEnd(e)'
<1>1. Calm(e)
  BY SameReader DEF ReadSame, Dead
<1>2. ASSUME filled'[e] = filled[e], link' => link PROVE SendEnd(e)'
  BY <1>2 DEF FrameInv, SendEnd
<1> QED
  BY <1>1, <1>2

LEMMA LinkFailsFrame == FrameInv /\ LinkFails => FrameInv'
<1> SUFFICES ASSUME FrameInv, LinkFails PROVE FrameInv'
  OBVIOUS
<1>1. /\ len' = len /\ wire' = wire /\ filled' = filled /\ handled' = handled /\ conn' = conn
      /\ pc' = pc /\ ~ link'
  BY DEF LinkFails
<1>2. \A e \in Ends : Calm(e) /\ SendEnd(e)'
  BY <1>1, CalmOther
<1> QED
  BY <1>1, <1>2, CalmFrame

LEMMA StutterFrame == FrameInv /\ UNCHANGED vars => FrameInv'
<1> SUFFICES ASSUME FrameInv, UNCHANGED vars PROVE FrameInv'
  OBVIOUS
<1>1. /\ len' = len /\ wire' = wire /\ filled' = filled /\ handled' = handled /\ conn' = conn
      /\ pc' = pc /\ link' = link
  BY DEF vars
<1>2. \A e \in Ends : Calm(e) /\ SendEnd(e)'
  BY <1>1, CalmOther
<1> QED
  BY <1>1, <1>2, CalmFrame

\* A step of end e that touches neither wire nor what is sent.
LEMMA CalmStep ==
  ASSUME ConnInv, FrameInv, NEW e \in Ends, NEW t \in ThreadsOf(e),
         NEW d, conn' = [conn EXCEPT ![e] = d],
         NEW x, pc' = [pc EXCEPT ![t] = x],
         len' = len, wire' = wire, filled' = filled, handled' = handled, link' => link,
         Calm(e),
         link' => /\ d.iov = conn[e].iov /\ d.total_send_len = conn[e].total_send_len
                  /\ d.send_message = conn[e].send_message,
         link' /\ d.state = "kDisconnecting" => pc'[Loop(e)] = "tail"
  PROVE  FrameInv'
<1>1. PICK g \in Ends : g # e /\ \A f \in Ends : f = e \/ f = g
  BY DEF Ends
<1>2. conn \in [Ends -> ConnType("client") \cup ConnType("server")] /\ DOMAIN pc = Threads
  BY DEF ConnInv, ConnTypeOK
<1>3. conn'[e] = d /\ conn'[g] = conn[g]
  BY <1>1, <1>2
<1>4. Loop(g) \in Threads /\ t \in Threads /\ t # Loop(g)
  BY <1>1, EndFacts DEF ThreadsOf
<1>5. pc'[Loop(g)] = pc[Loop(g)]
  BY <1>2, <1>4
<1>6. Calm(g) /\ SendEnd(g)'
  BY <1>3, <1>5, CalmOther
<1>7. SendEnd(e)'
  BY <1>3 DEF FrameInv, SendEnd
<1> QED
  BY <1>1, <1>3, <1>6, <1>7, CalmFrame

\* What a step knows of the end it is taken at.
LEMMA EndNow ==
  ASSUME ConnInv, FrameInv, NEW e \in Ends
  PROVE  /\ conn[e] \in ConnType(e)
         /\ conn \in [Ends -> ConnType("client") \cup ConnType("server")]
         /\ pc \in [Threads -> LoopPc \cup {"send"}]
         /\ SendEnd(e) /\ Loop(e) \in ThreadsOf(e) /\ Loop(e) \in Threads
         /\ ~ Dead(e) => Stream(e) /\ Parsed(e)
         /\ link => ~ conn[e].closed
  BY EndFacts DEF ConnInv, ConnTypeOK, FrameInv, FrameEnd, SendExact

LEMMA HandleWritableFrame ==
  ASSUME ConnInv, FrameInv, NEW e \in Ends, HandleWritable(e)
  PROVE  FrameInv'
<1> DEFINE c == conn[e]
           d == [c EXCEPT !.epollout = FALSE]
<1>1. /\ c \in ConnType(e) /\ SendExact(e) /\ SendEnd(e)
      /\ conn \in [Ends -> ConnType("client") \cup ConnType("server")]
      /\ pc \in [Threads -> LoopPc \cup {"send"}]
      /\ Loop(e) \in ThreadsOf(e) /\ Loop(e) \in Threads
  BY EndNow DEF ConnInv
<1>2. c.state = "kConnected" => c.total_send_len = 0 /\ c.queue = <<>>
  BY <1>1 DEF HandleWritable, SendExact, ConnType
<1>3. /\ conn' = [conn EXCEPT ![e].epollout = FALSE] /\ pc' = pc /\ filled' = filled
      /\ len' = len /\ wire' = wire /\ handled' = handled /\ link' = link
  BY <1>2 DEF HandleWritable
<1>4. conn' = [conn EXCEPT ![e] = d] /\ pc' = [pc EXCEPT ![Loop(e)] = pc[Loop(e)]]
  BY <1>1, <1>3
<1>5. /\ d.state = c.state /\ d.closed = c.closed
      /\ d.send_message = c.send_message /\ d.total_send_len = c.total_send_len
      /\ d.iov = c.iov /\ d.recv_state = c.recv_state /\ d.recv_len = c.recv_len
      /\ d.recvLen = c.recvLen /\ d.header = c.header /\ d.body = c.body
      /\ d.total_recv_len = c.total_recv_len
  BY <1>1 DEF ConnType
<1> HIDE DEF d
<1>6. conn'[e] = d
  BY <1>1, <1>4
<1>7. ReadSame(e) /\ (Dead(e) => Dead(e)')
  BY <1>3, <1>5, <1>6 DEF ReadSame, Dead
<1>8. Calm(e)
  BY <1>3, <1>7, SameReader
<1>9. link' /\ d.state = "kDisconnecting" => pc'[Loop(e)] = "tail"
  BY <1>1, <1>3, <1>5 DEF SendEnd
<1>10. len' = len /\ wire' = wire /\ filled' = filled /\ handled' = handled /\ (link' => link)
  BY <1>3
<1> QED
  BY <1>1, <1>4, <1>5, <1>8, <1>9, <1>10, CalmStep

LEMMA HandleReadableFrame ==
  ASSUME ConnInv, FrameInv, NEW e \in Ends, HandleReadable(e)
  PROVE  FrameInv'
<1> DEFINE c == conn[e]
           d == [c EXCEPT !.count = 0, !.hup = ~ link]
<1>1. /\ c \in ConnType(e) /\ SendEnd(e)
      /\ conn \in [Ends -> ConnType("client") \cup ConnType("server")]
      /\ pc \in [Threads -> LoopPc \cup {"send"}]
      /\ Loop(e) \in ThreadsOf(e) /\ Loop(e) \in Threads
  BY EndNow
<1>2. /\ conn' = [conn EXCEPT ![e].count = 0, ![e].hup = ~ link] /\ filled' = filled
      /\ len' = len /\ wire' = wire /\ handled' = handled /\ link' = link
      /\ pc[Loop(e)] = "idle" /\ ~ c.closed /\ pc' = [pc EXCEPT ![Loop(e)] = "lock"]
  BY DEF HandleReadable
<1>3. conn' = [conn EXCEPT ![e] = d]
  BY <1>1, <1>2
<1>4. /\ d.state = c.state /\ d.closed = c.closed
      /\ d.send_message = c.send_message /\ d.total_send_len = c.total_send_len
      /\ d.iov = c.iov /\ d.recv_state = c.recv_state /\ d.recv_len = c.recv_len
      /\ d.recvLen = c.recvLen /\ d.header = c.header /\ d.body = c.body
      /\ d.total_recv_len = c.total_recv_len
  BY <1>1 DEF ConnType
<1> HIDE DEF d
<1>5. conn'[e] = d /\ pc'[Loop(e)] = "lock"
  BY <1>1, <1>2, <1>3
<1>6. ReadSame(e) /\ (Dead(e) => Dead(e)')
  BY <1>2, <1>4, <1>5 DEF ReadSame, Dead
<1>7. Calm(e)
  BY <1>2, <1>6, SameReader
<1>8. ~ (link' /\ d.state = "kDisconnecting")
  BY <1>1, <1>2, <1>4 DEF SendEnd
<1> QED
  BY <1>1, <1>2, <1>3, <1>4, <1>7, <1>8, CalmStep

LEMMA LockReceiveFrame ==
  ASSUME ConnInv, FrameInv, NEW e \in Ends, LockReceive(e)
  PROVE  FrameInv'
<1> DEFINE c == conn[e]
           d == [c EXCEPT !.mutex = Loop(e), !.recvLen = 0]
           x == c.recv_state
<1>1. /\ c \in ConnType(e) /\ SendEnd(e)
      /\ conn \in [Ends -> ConnType("client") \cup ConnType("server")]
      /\ pc \in [Threads -> LoopPc \cup {"send"}]
      /\ Loop(e) \in ThreadsOf(e) /\ Loop(e) \in Threads
      /\ ~ Dead(e) => Parsed(e)
  BY EndNow
<1>2. /\ conn' = [conn EXCEPT ![e].mutex = Loop(e), ![e].recvLen = 0] /\ filled' = filled
      /\ len' = len /\ wire' = wire /\ handled' = handled /\ link' = link
      /\ pc[Loop(e)] = "lock" /\ pc' = [pc EXCEPT ![Loop(e)] = x]
  BY DEF LockReceive
<1>3. conn' = [conn EXCEPT ![e] = d]
  BY <1>1, <1>2
<1>4. /\ d.state = c.state /\ d.closed = c.closed
      /\ d.send_message = c.send_message /\ d.total_send_len = c.total_send_len
      /\ d.iov = c.iov /\ d.recv_state = c.recv_state /\ d.recv_len = c.recv_len
      /\ d.recvLen = 0 /\ d.header = c.header /\ d.body = c.body
      /\ d.total_recv_len = c.total_recv_len
  BY <1>1 DEF ConnType
<1>5. x \in {"kMsgHeader", "kBody"} /\ c.recv_len \in Nat
  BY <1>1 DEF ConnType
<1> HIDE DEF d
<1>6. conn'[e] = d /\ pc'[Loop(e)] = x
  BY <1>1, <1>2, <1>3
<1>7. Dead(e) => Dead(e)'
  BY <1>2, <1>4, <1>6 DEF Dead
<1>8. At(e)' = At(e)
  BY <1>2, <1>4, <1>5, <1>6 DEF At
<1>9. Calm(e)
  <2> SUFFICES ASSUME ~ Dead(e)' PROVE Parsed(e)'
    BY <1>7, <1>8 DEF Calm
  <2>1. Parsed(e)
    BY <1>1, <1>7
  <2> QED
    BY <1>2, <1>4, <1>5, <1>6, <1>8, <2>1 DEF Parsed
<1>10. ~ (link' /\ d.state = "kDisconnecting")
  BY <1>1, <1>2, <1>4 DEF SendEnd
<1> HIDE DEF x
<1> QED
  BY <1>1, <1>2, <1>3, <1>4, <1>9, <1>10, CalmStep

LEMMA HandlerTailFrame ==
  ASSUME ConnInv, FrameInv, NEW e \in Ends, HandlerTail(e)
  PROVE  FrameInv'
<1> DEFINE c == conn[e]
           broken == c.state = "kDisconnecting" \/ c.hup
<1>1. /\ c \in ConnType(e) /\ SendEnd(e)
      /\ conn \in [Ends -> ConnType("client") \cup ConnType("server")]
      /\ pc \in [Threads -> LoopPc \cup {"send"}]
      /\ Loop(e) \in ThreadsOf(e) /\ Loop(e) \in Threads
  BY EndNow
<1>2. /\ pc[Loop(e)] = "tail" /\ pc' = [pc EXCEPT ![Loop(e)] = "idle"]
      /\ len' = len /\ wire' = wire /\ filled' = filled /\ handled' = handled
  BY DEF HandlerTail
<1>3. pc'[Loop(e)] = "idle"
  BY <1>1, <1>2
<1>4. CASE ~ broken
  <2>1. conn' = conn /\ link' = link
    BY <1>4 DEF HandlerTail
  <2>2. conn' = [conn EXCEPT ![e] = c]
    BY <1>1, <2>1
  <2>3. c.state # "kDisconnecting"
    BY <1>4
  <2>4. ReadSame(e) /\ (Dead(e) => Dead(e)')
    BY <1>2, <1>3, <2>1, <2>3 DEF ReadSame, Dead
  <2>5. Calm(e)
    BY <1>2, <2>4, SameReader
  <2> HIDE DEF c
  <2> QED
    BY <1>1, <1>2, <2>1, <2>2, <2>3, <2>5, CalmStep DEF c
<1>5. CASE broken
  <2> DEFINE d == [c EXCEPT !.state = "kDisconnecting", !.closed = TRUE, !.queue = <<>>,
                            !.send_message = IF c.total_send_len # 0 THEN NoMsg ELSE @]
  <2>1. conn' = [conn EXCEPT ![e] = d] /\ ~ link'
    BY <1>5 DEF HandlerTail
  <2>2. d.closed
    BY <1>1 DEF ConnType
  <2> HIDE DEF d
  <2>3. Dead(e)'
    BY <1>1, <2>1, <2>2 DEF Dead
  <2>4. Calm(e)
    BY <2>3 DEF Calm
  <2> QED
    BY <1>1, <1>2, <2>1, <2>4, CalmStep
<1> QED
  BY <1>4, <1>5

LEMMA SendmsgEagainFrame ==
  ASSUME ConnInv, FrameInv, NEW t \in Threads, SendmsgEagain(t)
  PROVE  FrameInv'
<1> DEFINE e == EndOf(t)
           c == conn[e]
           d == [c EXCEPT !.epollout = TRUE, !.sendLen = 0]
<1>1. /\ Sending(t) /\ c.iov > 0 /\ len' = len /\ wire' = wire /\ filled' = filled
      /\ handled' = handled /\ link' = link /\ pc' = pc
  BY DEF SendmsgEagain
<1>2. e \in Ends /\ t \in ThreadsOf(e) /\ c \in ConnType(e) /\ c.total_send_len > 0
  BY <1>1, SendingFacts DEF ConnType
<1>3. EnterSendMessage([c EXCEPT !.epollout = TRUE]) = d
  BY <1>2 DEF EnterSendMessage, ConnType
<1>4. /\ SendEnd(e) /\ conn \in [Ends -> ConnType("client") \cup ConnType("server")]
      /\ pc \in [Threads -> LoopPc \cup {"send"}]
  BY <1>2, EndNow
<1>5. conn' = [conn EXCEPT ![e] = d] /\ pc' = [pc EXCEPT ![t] = pc[t]]
  BY <1>1, <1>3, <1>4 DEF SendmsgEagain
<1>6. /\ d.state = c.state /\ d.closed = c.closed
      /\ d.send_message = c.send_message /\ d.total_send_len = c.total_send_len
      /\ d.iov = c.iov /\ d.recv_state = c.recv_state /\ d.recv_len = c.recv_len
      /\ d.recvLen = c.recvLen /\ d.header = c.header /\ d.body = c.body
      /\ d.total_recv_len = c.total_recv_len
  BY <1>2 DEF ConnType
<1> HIDE DEF d, e
<1>7. conn'[e] = d
  BY <1>2, <1>4, <1>5
<1>8. ReadSame(e) /\ (Dead(e) => Dead(e)')
  BY <1>1, <1>6, <1>7 DEF ReadSame, Dead
<1>9. Calm(e)
  BY <1>1, <1>2, <1>8, SameReader
<1>10. link' /\ d.state = "kDisconnecting" => pc'[Loop(e)] = "tail"
  BY <1>1, <1>4, <1>6 DEF SendEnd
<1>11. len' = len /\ wire' = wire /\ filled' = filled /\ handled' = handled /\ (link' => link)
  BY <1>1
<1> QED
  BY <1>2, <1>5, <1>6, <1>9, <1>10, <1>11, CalmStep

LEMMA SendmsgErrorFrame ==
  ASSUME ConnInv, FrameInv, NEW t \in Threads, SendmsgError(t)
  PROVE  FrameInv'
<1> DEFINE e == EndOf(t)
           c == conn[e]
           b == [c EXCEPT !.state = "kDisconnecting"]
<1>1. /\ Sending(t) /\ FlushReturns(t, b) /\ len' = len /\ wire' = wire /\ filled' = filled
      /\ handled' = handled /\ ~ link' /\ link' = link
  BY DEF SendmsgError
<1>2. /\ e \in Ends /\ t \in ThreadsOf(e) /\ c \in ConnType(e)
      /\ pc[t] = IF t \in Senders THEN "send" ELSE "reply"
  BY <1>1, SendingFacts
<1>3. b \in ConnType(EndOf(t))
  BY <1>2 DEF ConnType
<1> HIDE DEF b
<1>4. PICK x \in {"idle", "lock", "tail"}, n \in Nat :
        /\ conn' = [conn EXCEPT ![e] = [b EXCEPT !.mutex = Nobody, !.count = n]]
        /\ pc' = [pc EXCEPT ![t] = x]
        /\ t \in Senders => x = "idle"
  BY <1>1, <1>3, FlushEffect
<1> DEFINE d == [b EXCEPT !.mutex = Nobody, !.count = n]
<1>5. /\ d.state = "kDisconnecting" /\ d.closed = c.closed
      /\ d.recv_state = c.recv_state /\ d.recv_len = c.recv_len
      /\ d.recvLen = c.recvLen /\ d.header = c.header /\ d.body = c.body
      /\ d.total_recv_len = c.total_recv_len
  BY <1>2 DEF ConnType, b
<1>6. /\ conn \in [Ends -> ConnType("client") \cup ConnType("server")]
      /\ pc \in [Threads -> LoopPc \cup {"send"}] /\ Loop(e) \in Threads
  BY <1>2, EndNow
<1>7. conn' = [conn EXCEPT ![e] = d]
  BY <1>4
<1> HIDE DEF d, e, b
<1>8. conn'[e] = d /\ t \in Threads
  BY <1>2, <1>6, <1>7
<1>9. /\ Loop(e) # t => pc'[Loop(e)] = pc[Loop(e)]
      /\ Loop(e) = t => pc'[Loop(e)] = x /\ pc[Loop(e)] \in {"send", "reply"}
  BY <1>2, <1>4, <1>6
<1>10. ReadSame(e)
  BY <1>5, <1>8, <1>9 DEF ReadSame
<1>11. Dead(e) => Dead(e)'
  BY <1>5, <1>8, <1>9 DEF Dead
<1>12. Calm(e)
  BY <1>1, <1>2, <1>10, <1>11, SameReader
<1> QED
  BY <1>1, <1>2, <1>4, <1>7, <1>12, CalmStep

\* ParseMessage returns false.
LEMMA ParseFailsFrame ==
  ASSUME ConnInv, FrameInv, NEW e \in Ends, NEW c \in ConnType(e), ParseFails(e, c),
         len' = len, wire' = wire, filled' = filled, handled' = handled, link' = link,
         c.closed = conn[e].closed, pc[Loop(e)] \in {"kMsgHeader", "kBody"},
         c.iov = conn[e].iov, c.total_send_len = conn[e].total_send_len,
         c.send_message = conn[e].send_message,
         c.state = "kDisconnecting" \/ (At(e)' = At(e) /\ (Parsed(e) => Parsed(e)'))
  PROVE  FrameInv'
<1> DEFINE d == [c EXCEPT !.mutex = Nobody]
<1>1. conn' = [conn EXCEPT ![e] = d] /\ pc' = [pc EXCEPT ![Loop(e)] = "tail"]
  BY DEF ParseFails
<1>2. /\ d.iov = c.iov /\ d.total_send_len = c.total_send_len /\ d.send_message = c.send_message
      /\ d.closed = c.closed /\ d.state = c.state
  BY DEF ConnType
<1> HIDE DEF d
<1>3. /\ conn \in [Ends -> ConnType("client") \cup ConnType("server")]
      /\ pc \in [Threads -> LoopPc \cup {"send"}] /\ Loop(e) \in Threads
      /\ Loop(e) \in ThreadsOf(e) /\ (~ Dead(e) => Parsed(e))
  BY EndNow
<1>4. conn'[e] = d /\ pc'[Loop(e)] = "tail"
  BY <1>1, <1>3
<1>5. Dead(e) => Dead(e)'
  BY <1>2, <1>4 DEF Dead
<1>6. c.state = "kDisconnecting" => Dead(e)'
  BY <1>2, <1>4 DEF Dead
<1>7. Calm(e)
  BY <1>3, <1>5, <1>6 DEF Calm
<1> QED
  BY <1>1, <1>2, <1>3, <1>4, <1>7, CalmStep

\* The reader of an end is not dead, and what it has begun to read was sent.
LEMMA MessageNow ==
  ASSUME ConnInv, FrameInv, NEW e \in Ends, pc[Loop(e)] \in {"kMsgHeader", "kBody"}
  PROVE  /\ ~ Dead(e) /\ Stream(e) /\ Parsed(e)
         /\ At(e) \in Nat
         /\ \A left \in Nat : Trackable(len, filled[Peer(e)], SentBy(Peer(e)),
                                       Len(handled[e]), At(e), left)
         /\ wire[Peer(e)] \in Seq(BytesOf(Peer(e)))
         /\ At(e) > 0 \/ Len(wire[Peer(e)]) > 0 => Len(handled[e]) < Len(filled[Peer(e)])
         /\ Len(handled[e]) < Len(filled[Peer(e)]) =>
              LET m == filled[Peer(e)][Len(handled[e]) + 1]
              IN  m \in SentBy(Peer(e)) /\ len[m[2]] \in Nat /\ len[m[2]] > 0
         /\ pc[Loop(e)] = "kBody" =>
              LET m == filled[Peer(e)][Len(handled[e]) + 1]
              IN  len[m[2]] \in Int /\ Len(handled[e]) < Len(filled[Peer(e)])
<1> DEFINE g == Peer(e)
           n == Len(handled[e])
           F == filled[g]
<1>1. /\ g \in Ends /\ conn[e] \in ConnType(e) /\ ~ conn[e].closed
      /\ conn[e].recv_state = pc[Loop(e)]
  BY ReceivingFacts, EndFacts
<1>2. ~ Dead(e)
  BY <1>1 DEF Dead
<1>3. Stream(e) /\ Parsed(e)
  BY <1>2, EndNow
<1>4. HeaderLen \in Nat /\ HeaderLen > 0
  BY ConnectionAssumption DEF ConnectionAssumption
<1>5. At(e) \in Nat /\ (pc[Loop(e)] = "kBody" => At(e) > 0)
  <2>1. conn[e].recv_len \in Nat /\ conn[e].recvLen \in Nat /\ Len(conn[e].body) \in Nat
    BY <1>1 DEF ConnType
  <2> QED
    BY <1>1, <1>4, <2>1 DEF At
<1>6. /\ F \in Seq(SentBy(g)) /\ handled[e] \in Seq(Handled(e)) /\ n <= Len(F)
      /\ len \in [Requests -> BodyLens] /\ wire[g] \in Seq(BytesOf(g))
  BY <1>1 DEF FrameInv, FrameType, FramesExact, ConnInv, ConnTypeOK
<1>7. n \in Nat /\ Len(F) \in Nat /\ n \in 0 .. Len(F)
  BY <1>6
<1>8. \A m \in SentBy(g) : len[m[2]] \in Nat /\ len[m[2]] > 0
  BY <1>1, <1>6, MessageFacts
<1>9. \A left \in Nat : Trackable(len, F, SentBy(g), n, At(e), left)
  BY <1>5, <1>6, <1>7, <1>8 DEF Trackable
<1> HIDE DEF n, F, g
<1>10. At(e) > 0 \/ Len(wire[g]) > 0 => n < Len(F)
  <2>1. PICK left \in Nat : Track(len, F, wire[g], n, At(e), left)
    BY <1>3 DEF Stream, n, F, g
  <2> QED
    BY <1>6, <1>9, <2>1, TrackInside
<1>11. n < Len(F) => F[n + 1] \in SentBy(g)
  BY <1>6, <1>7
<1>12. n < Len(F) => /\ F[n + 1] \in SentBy(g)
                     /\ len[F[n + 1][2]] \in Nat /\ len[F[n + 1][2]] > 0
  BY <1>8, <1>11
<1>13. pc[Loop(e)] = "kBody" => len[F[n + 1][2]] \in Int /\ n < Len(F)
  BY <1>5, <1>10, <1>12
<1> QED
  BY <1>2, <1>3, <1>5, <1>6, <1>9, <1>10, <1>12, <1>13 DEF n, F, g

\* ParseMessage keeps how much of the header is there.
LEMMA HeaderKept ==
  ASSUME ConnInv, FrameInv, NEW e \in Ends, pc[Loop(e)] = "kMsgHeader",
         ParseFails(e, [conn[e] EXCEPT !.recv_len = @ + conn[e].recvLen]),
         len' = len, wire' = wire, filled' = filled, handled' = handled, link' = link
  PROVE  FrameInv'
<1> DEFINE c == conn[e]
           h == [c EXCEPT !.recv_len = @ + c.recvLen]
           d == [h EXCEPT !.mutex = Nobody]
<1>1. c \in ConnType(e) /\ c.recv_state = "kMsgHeader"
  BY ReceivingFacts
<1>2. c.recv_len \in Nat /\ c.recvLen \in Nat
  BY <1>1 DEF ConnType
<1>3. h \in ConnType(e)
  BY KeepHeader
<1>4. /\ h.closed = c.closed /\ h.iov = c.iov /\ h.total_send_len = c.total_send_len
      /\ h.send_message = c.send_message
  BY <1>1 DEF ConnType
<1>5. /\ d.recv_state = "kMsgHeader" /\ d.header = c.header
      /\ d.recv_len = c.recv_len + c.recvLen
  BY <1>1 DEF ConnType
<1>6. conn'[e] = d /\ pc'[Loop(e)] = "tail"
  BY EndNow DEF ParseFails
<1>7. ParseFails(e, h)
  OBVIOUS
<1> HIDE DEF h, d
<1>8. At(e)' = At(e)
  BY <1>1, <1>2, <1>5, <1>6 DEF At
<1>9. Parsed(e) => Parsed(e)'
  BY <1>1, <1>5, <1>6, <1>8 DEF Parsed
<1> QED
  BY <1>3, <1>4, <1>7, <1>8, <1>9, ParseFailsFrame

LEMMA RecvHeaderEagainFrame ==
  ASSUME ConnInv, FrameInv, NEW e \in Ends, RecvHeaderEagain(e)
  PROVE  FrameInv'
<1> DEFINE d == [conn[e] EXCEPT !.recv_len = @ + conn[e].recvLen]
<1>1. /\ len' = len /\ wire' = wire /\ filled' = filled /\ handled' = handled
      /\ link' = link /\ pc[Loop(e)] = "kMsgHeader" /\ ParseFails(e, d)
  BY DEF RecvHeaderEagain
<1> HIDE DEF d
<1> QED
  BY <1>1, HeaderKept DEF d

LEMMA RecvIntrFrame ==
  ASSUME ConnInv, FrameInv, NEW e \in Ends, RecvIntr(e)
  PROVE  FrameInv'
<1> DEFINE c == conn[e]
           h == [c EXCEPT !.recv_len = @ + c.recvLen]
           b == [c EXCEPT !.total_recv_len = @ - c.recvLen]
<1>1. len' = len /\ wire' = wire /\ filled' = filled /\ handled' = handled /\ link' = link
  BY DEF RecvIntr
<1>2. CASE pc[Loop(e)] = "kMsgHeader" /\ ParseFails(e, h)
  BY <1>1, <1>2, HeaderKept
<1>3. CASE pc[Loop(e)] = "kBody" /\ ParseFails(e, b)
  <2>1. c \in ConnType(e) /\ c.recv_state = "kBody"
    BY <1>3, ReceivingFacts
  <2>2. c.total_recv_len \in Int /\ c.recvLen \in Nat /\ c.total_recv_len - c.recvLen \in Int
        /\ Len(c.body) \in Nat
    BY <2>1 DEF ConnType
  <2>3. b = [c EXCEPT !.total_recv_len = c.total_recv_len - c.recvLen]
    BY <2>1 DEF ConnType
  <2>4. b \in ConnType(e)
    BY <2>1, <2>2, <2>3 DEF ConnType
  <2> DEFINE d == [b EXCEPT !.mutex = Nobody]
  <2>5. /\ b.closed = c.closed /\ b.iov = c.iov /\ b.total_send_len = c.total_send_len
        /\ b.send_message = c.send_message
    BY <2>1 DEF ConnType
  <2>6. /\ d.recv_state = c.recv_state /\ d.body = c.body /\ d.header = c.header
        /\ d.total_recv_len = c.total_recv_len - c.recvLen
    BY <2>1, <2>3 DEF ConnType
  <2>7. conn'[e] = d /\ pc'[Loop(e)] = "tail"
    BY <1>3, EndNow DEF ParseFails
  <2> HIDE DEF b, d
  <2>8. At(e)' = At(e)
    BY <2>1, <2>6, <2>7 DEF At
  <2>9. Parsed(e) => Parsed(e)'
    <3> SUFFICES ASSUME Parsed(e) PROVE Parsed(e)'
      OBVIOUS
    <3> DEFINE m == filled[Peer(e)][Len(handled[e]) + 1]
    <3>1. /\ c.header[1] = <<m, 1>>
          /\ \A i \in 1 .. Len(c.body) : c.body[i] = <<m, HeaderLen + i>>
          /\ c.total_recv_len + Len(c.body) = len[m[2]] + c.recvLen
      BY <1>3, <2>1 DEF Parsed
    <3>2. len[m[2]] = len[m[2]] + 0 /\ c.total_recv_len - c.recvLen + Len(c.body) = len[m[2]] + 0
      <4>1. len[m[2]] \in Int
        BY <1>3, MessageNow
      <4>2. \A a1, b1, c1, y \in Int : a1 + b1 = y + c1 => y = y + 0 /\ a1 - c1 + b1 = y + 0
        OBVIOUS
      <4> HIDE DEF m, c
      <4> QED
        BY <2>2, <3>1, <4>1, <4>2, SMTT(40)
    <3>3. m' = m
      BY <1>1
    <3> HIDE DEF m
    <3> QED
      BY <1>1, <2>1, <2>6, <2>7, <3>1, <3>2, <3>3 DEF Parsed, m
  <2> QED
    BY <1>1, <1>3, <2>4, <2>5, <2>8, <2>9, ParseFailsFrame
<1> QED
  BY <1>2, <1>3 DEF RecvIntr

LEMMA RecvErrorFrame ==
  ASSUME ConnInv, FrameInv, NEW e \in Ends, RecvError(e)
  PROVE  FrameInv'
<1> DEFINE c == conn[e]
           d == [c EXCEPT !.state = "kDisconnecting"]
<1>1. /\ len' = len /\ wire' = wire /\ filled' = filled /\ handled' = handled
      /\ link' = link /\ pc[Loop(e)] \in {"kMsgHeader", "kBody"} /\ ParseFails(e, d)
  BY DEF RecvError
<1>2. c \in ConnType(e)
  BY EndNow
<1>3. d \in ConnType(e)
  BY <1>2 DEF ConnType
<1>4. /\ d.closed = c.closed /\ d.iov = c.iov /\ d.total_send_len = c.total_send_len
      /\ d.send_message = c.send_message /\ d.state = "kDisconnecting"
  BY <1>2 DEF ConnType
<1> HIDE DEF d
<1> QED
  BY <1>1, <1>3, <1>4, ParseFailsFrame

-----------------------------------------------------------------------------
(* Steps that move the stream.                                             *)

\* What has been handled stays a prefix of what was sent.
LEMMA FilledGrows ==
  ASSUME FrameInv, len' = len, handled' = handled, DOMAIN filled' = Ends,
         \A e \in Ends : /\ filled'[e] \in Seq(SentBy(e))
                         /\ \/ filled'[e] = filled[e]
                            \/ \E x \in SentBy(e) : filled'[e] = Append(filled[e], x)
  PROVE  FrameType' /\ FramesExact'
<1>1. FrameType'
  BY DEF FrameInv, FrameType
<1>2. \A e \in Ends : /\ filled[e] \in Seq(SentBy(e)) /\ Len(filled[e]) \in Nat
                      /\ handled[e] \in Seq(Handled(e)) /\ Len(handled[e]) \in Nat
  BY DEF FrameInv, FrameType
<1>3. \A e \in Ends : /\ Len(filled[e]) <= Len(filled'[e])
                      /\ \A i \in 1 .. Len(filled[e]) : filled'[e][i] = filled[e][i]
  <2> SUFFICES ASSUME NEW e \in Ends
               PROVE  /\ Len(filled[e]) <= Len(filled'[e])
                      /\ \A i \in 1 .. Len(filled[e]) : filled'[e][i] = filled[e][i]
    OBVIOUS
  <2>1. CASE filled'[e] = filled[e]
    BY <1>2, <2>1
  <2>2. ASSUME NEW x \in SentBy(e), filled'[e] = Append(filled[e], x)
        PROVE  /\ Len(filled[e]) <= Len(filled'[e])
               /\ \A i \in 1 .. Len(filled[e]) : filled'[e][i] = filled[e][i]
    BY <1>2, <2>2, AppendProperties
  <2> QED
    BY <2>1, <2>2
<1>4. FramesExact'
  <2> SUFFICES ASSUME NEW e \in Ends
               PROVE  /\ Len(handled[e]) <= Len(filled'[Peer(e)])
                      /\ \A i \in 1 .. Len(handled[e]) :
                           filled'[Peer(e)][i] = filled[Peer(e)][i]
    BY DEF FrameInv, FramesExact
  <2>1. Peer(e) \in Ends /\ Len(handled[e]) <= Len(filled[Peer(e)])
    BY EndFacts DEF FrameInv, FramesExact
  <2>2. Len(filled'[Peer(e)]) \in Nat
    BY <2>1
  <2> QED
    BY <1>2, <1>3, <2>1, <2>2
<1> QED
  BY <1>1, <1>4

\* The stream into an end that is calm.
LEMMA CalmEnd ==
  ASSUME FrameInv, NEW e \in Ends, NEW g, g = Peer(e), Calm(e), len' = len,
         wire'[g] = wire[g], filled'[g] = filled[g], handled'[e] = handled[e], link' => link,
         link' => conn'[g].iov = conn[g].iov
  PROVE  FrameEnd(e)'
<1> SUFFICES ASSUME ~ Dead(e)' PROVE Stream(e)' /\ Parsed(e)'
  BY DEF FrameEnd
<1>1. ~ Dead(e) /\ At(e)' = At(e) /\ Parsed(e)'
  BY DEF Calm
<1>2. Stream(e)
  BY <1>1 DEF FrameInv, FrameEnd
<1>3. Stream(e)'
  BY <1>1, <1>2 DEF Stream
<1> QED
  BY <1>1, <1>3

\* A new message is begun when nothing is left of the one before.
LEMMA FillFrame ==
  ASSUME ConnInv, FrameInv, NEW e \in Ends, NEW g \in Ends, g = Peer(e),
         NEW x \in SentBy(g), filled'[g] = Append(filled[g], x),
         len' = len, wire'[g] = wire[g], handled'[e] = handled[e], link' => link,
         link => conn[g].iov = 0, conn'[g].iov = Size(x),
         ~ Dead(e), conn'[e] = conn[e], pc'[Loop(e)] = pc[Loop(e)]
  PROVE  Stream(e)' /\ Parsed(e)'
<1> DEFINE n == Len(handled[e])
           F == filled[g]
           G == Append(F, x)
<1>1. /\ conn[e] \in ConnType(e) /\ Stream(e) /\ Parsed(e)
  BY EndNow
<1>2. /\ F \in Seq(SentBy(g)) /\ handled[e] \in Seq(Handled(e)) /\ n <= Len(F)
      /\ len \in [Requests -> BodyLens] /\ wire[g] \in Seq(BytesOf(g))
  BY DEF FrameInv, FrameType, FramesExact, ConnInv, ConnTypeOK
<1>3. n \in Nat /\ Len(F) \in Nat /\ n \in 0 .. Len(F) /\ n + 1 \in Nat
  BY <1>2
<1>4. HeaderLen \in Nat /\ HeaderLen > 0
  BY ConnectionAssumption DEF ConnectionAssumption
<1>5. At(e) \in Nat /\ (conn[e].recv_state = "kBody" => At(e) > 0)
  <2>1. conn[e].recv_len \in Nat /\ conn[e].recvLen \in Nat /\ Len(conn[e].body) \in Nat
    BY <1>1 DEF ConnType
  <2> QED
    BY <1>4, <2>1 DEF At
<1>6. \A m \in SentBy(g) : len[m[2]] \in Nat
  BY <1>2, MessageFacts
<1>7. PICK left \in Nat : Track(len, F, wire[g], n, At(e), left) /\ (link => left = conn[g].iov)
  BY <1>1 DEF Stream
<1>8. Trackable(len, F, SentBy(g), n, At(e), left)
  BY <1>2, <1>3, <1>5, <1>6 DEF Trackable
<1> HIDE DEF n, F
<1>9. At(e)' = At(e)
  BY DEF At
<1>10. Stream(e)'
  <2>1. Track(len, G, wire[g], n, At(e), left + (HeaderLen + len[x[2]]))
    BY <1>2, <1>7, <1>8, TrackFill
  <2>2. Size(x) = HeaderLen + len[x[2]] /\ Size(x) \in Nat /\ len[x[2]] \in Nat
    BY <1>4, <1>6 DEF Size
  <2>3. left + (HeaderLen + len[x[2]]) \in Nat
    BY <1>4, <2>2
  <2>4. link' => left + (HeaderLen + len[x[2]]) = conn'[g].iov
    BY <1>7, <2>2
  <2>5. /\ filled'[Peer(e)] = G /\ wire'[Peer(e)] = wire[g] /\ Len(handled'[e]) = n
        /\ conn'[Peer(e)] = conn'[g]
    BY DEF n, F
  <2> HIDE DEF G
  <2> QED
    BY <1>9, <2>1, <2>3, <2>4, <2>5 DEF Stream
<1>11. Parsed(e)'
  <2>1. CASE n < Len(F)
    <3>1. G[n + 1] = F[n + 1]
      BY <1>2, <1>3, <2>1, AppendProperties
    <3> QED
      BY <1>1, <1>9, <3>1 DEF Parsed, n, F
  <2>2. CASE ~ (n < Len(F))
    <3>1. At(e) = 0
      <4>1. ~ (At(e) > 0)
        BY <1>2, <1>7, <1>8, <2>2, TrackInside
      <4> QED
        BY <1>5, <4>1
    <3>2. conn[e].recv_state = "kMsgHeader"
      BY <1>1, <1>5, <3>1 DEF ConnType
    <3> QED
      BY <1>9, <3>1, <3>2 DEF Parsed
  <2> QED
    BY <2>1, <2>2
<1> QED
  BY <1>10, <1>11

LEMMA SendFrame ==
  ASSUME ConnInv, FrameInv, NEW t \in Senders, NEW r \in Requests, Send(t, r), ConnInv'
  PROVE  FrameInv'
<1> DEFINE c == conn["client"]
           m == Request(r)
<1>1. /\ c \in ConnType("client") /\ SendExact("client") /\ SendEnd("client")
      /\ conn \in [Ends -> ConnType("client") \cup ConnType("server")]
      /\ pc \in [Threads -> LoopPc \cup {"send"}] /\ len \in [Requests -> BodyLens]
  BY EndNow DEF ConnInv, ConnTypeOK, Ends
<1>2. /\ c.mutex = Nobody /\ ~ c.closed
      /\ len' = len /\ wire' = wire /\ link' = link /\ handled' = handled
  BY DEF Send
<1>3. CASE Len(c.queue) >= QueueLen \/ c.state # "kConnected"
  <2>1. conn' = conn /\ pc' = pc /\ filled' = filled
    BY <1>3 DEF Send
  <2>2. \A e \in Ends : Calm(e) /\ SendEnd(e)'
    BY <1>2, <2>1, CalmOther
  <2> QED
    BY <1>2, <2>1, <2>2, CalmFrame
<1>4. CASE ~ (Len(c.queue) >= QueueLen \/ c.state # "kConnected")
  <2>1. c.state = "kConnected" /\ c.total_send_len = 0 /\ c.queue = <<>> /\ c.iov = 0
    BY <1>1, <1>2, <1>4 DEF SendExact, ConnType
  <2>2. m \in SentBy("client") /\ Size(m) \in Nat /\ Size(m) > 0
    BY <1>1, MessageFacts DEF Ends
  <2> DEFINE d == [c EXCEPT !.send_message = m, !.total_send_len = Size(m), !.iov = Size(m),
                            !.sendLen = 0, !.mutex = t]
  <2>3. /\ conn' = [conn EXCEPT !["client"] =
                      [EnterSendMessage(FillSendMessage(c, m)) EXCEPT !.mutex = t]]
        /\ pc' = [pc EXCEPT ![t] = "send"]
        /\ filled' = [filled EXCEPT !["client"] = Append(@, m)]
    BY <1>4, <2>1 DEF Send
  <2>4. [EnterSendMessage(FillSendMessage(c, m)) EXCEPT !.mutex = t] = d
    <3>1. FillSendMessage(c, m).total_send_len # 0
      BY <1>1, <2>2 DEF FillSendMessage, ConnType
    <3>2. EnterSendMessage(FillSendMessage(c, m)) = [FillSendMessage(c, m) EXCEPT !.sendLen = 0]
      BY <3>1 DEF EnterSendMessage
    <3> QED
      BY <1>1, <3>2 DEF FillSendMessage, ConnType
  <2>5. /\ d.state = c.state /\ d.closed = c.closed
        /\ d.send_message = m /\ d.total_send_len = Size(m)
        /\ d.iov = Size(m) /\ d.recv_state = c.recv_state /\ d.recv_len = c.recv_len
        /\ d.recvLen = c.recvLen /\ d.header = c.header /\ d.body = c.body
        /\ d.total_recv_len = c.total_recv_len
    BY <1>1 DEF ConnType
  <2>6. conn' = [conn EXCEPT !["client"] = d]
    BY <2>3, <2>4
  <2> HIDE DEF d, m
  <2>7. conn'["client"] = d /\ conn'["server"] = conn["server"]
    BY <1>1, <2>6 DEF Ends
  <2>8. \A e \in Ends : pc'[Loop(e)] = pc[Loop(e)]
    BY <1>1, <2>3, EndFacts
  <2>9. /\ DOMAIN filled = Ends /\ \A e \in Ends : filled[e] \in Seq(SentBy(e))
    BY DEF FrameInv, FrameType
  <2>10. filled'["client"] = Append(filled["client"], m) /\ filled'["server"] = filled["server"]
    BY <2>3, <2>9 DEF Ends
  <2>11. Append(filled["client"], m) \in Seq(SentBy("client"))
    BY <2>2, <2>9 DEF Ends
  <2>12. FrameType' /\ FramesExact'
    BY <1>2, <2>3, <2>9, <2>10, <2>11, FilledGrows
  <2>13. FrameEnd("server")'
    <3>1. Dead("server") => Dead("server")'
      BY <2>7, <2>8 DEF Dead, Ends
    <3>2. Peer("server") = "client" /\ "client" \in Ends /\ "server" \in Ends
      BY DEF Peer, Ends
    <3>3. ASSUME ~ Dead("server") PROVE Stream("server")' /\ Parsed("server")'
      BY <1>2, <2>1, <2>2, <2>5, <2>7, <2>8, <2>10, <3>2, <3>3, FillFrame
    <3> QED
      BY <3>1, <3>3 DEF FrameEnd
  <2>14. FrameEnd("client")'
    <3>1. Peer("client") = "server" /\ "client" \in Ends
      BY DEF Peer, Ends
    <3>2. ReadSame("client") /\ (Dead("client") => Dead("client")')
      BY <2>5, <2>7, <2>8, <3>1 DEF ReadSame, Dead
    <3>3. Calm("client")
      BY <1>2, <2>10, <3>1, <3>2, SameReader
    <3> QED
      BY <1>2, <2>7, <2>10, <3>1, <3>3, CalmEnd
  <2>15. SendEnd("server")'
    BY <1>2, <2>7, <2>8, <2>10 DEF SendEnd, FrameInv, Ends
  <2>16. SendEnd("client")'
    <3>1. /\ Len(Append(filled["client"], m)) = Len(filled["client"]) + 1
          /\ Append(filled["client"], m)[Len(filled["client"]) + 1] = m
          /\ Len(filled["client"]) \in Nat
      BY <2>2, <2>9, AppendProperties DEF Ends
    <3> QED
      BY <2>1, <2>5, <2>7, <2>10, <3>1 DEF SendEnd
  <2> QED
    BY <2>12, <2>13, <2>14, <2>15, <2>16 DEF FrameInv, Ends
<1> QED
  BY <1>3, <1>4

\* An end has sent the next bytes of its message.
LEMMA SentFrame ==
  ASSUME ConnInv, FrameInv, NEW e \in Ends, NEW g \in Ends, g = Peer(e), ~ Dead(e),
         NEW X \in Seq(BytesOf(g)), link, NextOf(len, filled[g], X, conn[g].iov),
         wire'[g] = wire[g] \o X, conn'[g].iov = conn[g].iov - Len(X),
         len' = len, filled'[g] = filled[g], handled'[e] = handled[e],
         conn'[e] = conn[e], pc'[Loop(e)] = pc[Loop(e)]
  PROVE  Stream(e)' /\ Parsed(e)'
<1> DEFINE n == Len(handled[e])
           F == filled[g]
<1>1. conn[e] \in ConnType(e) /\ Stream(e) /\ Parsed(e)
  BY EndNow
<1>2. /\ F \in Seq(SentBy(g)) /\ handled[e] \in Seq(Handled(e)) /\ n <= Len(F)
      /\ len \in [Requests -> BodyLens] /\ wire[g] \in Seq(BytesOf(g))
  BY DEF FrameInv, FrameType, FramesExact, ConnInv, ConnTypeOK
<1>3. n \in 0 .. Len(F)
  BY <1>2
<1>4. At(e) \in Nat
  <2>1. conn[e].recv_len \in Nat /\ conn[e].recvLen \in Nat /\ Len(conn[e].body) \in Nat
    BY <1>1 DEF ConnType
  <2>2. HeaderLen \in Nat
    BY ConnectionAssumption DEF ConnectionAssumption
  <2> QED
    BY <2>1, <2>2, SMTT(40) DEF At
<1>5. \A m \in SentBy(g) : len[m[2]] \in Nat
  BY <1>2, MessageFacts
<1>6. PICK left \in Nat : Track(len, F, wire[g], n, At(e), left) /\ left = conn[g].iov
  BY <1>1 DEF Stream
<1>7. Trackable(len, F, SentBy(g), n, At(e), left)
  BY <1>2, <1>3, <1>4, <1>5 DEF Trackable
<1> HIDE DEF n, F
<1>8. At(e)' = At(e) /\ Parsed(e)'
  BY <1>1 DEF At, Parsed
<1>9. Track(len, F, wire[g] \o X, n, At(e), left - Len(X))
  BY <1>2, <1>6, <1>7, TrackSend DEF F
<1>10. left - Len(X) \in Nat /\ left - Len(X) = conn'[g].iov
  BY <1>6 DEF NextOf
<1>11. /\ filled'[Peer(e)] = F /\ wire'[Peer(e)] = wire[g] \o X /\ Len(handled'[e]) = n
       /\ conn'[Peer(e)] = conn'[g]
  BY DEF n, F
<1>12. Stream(e)'
  BY <1>8, <1>9, <1>10, <1>11 DEF Stream
<1> QED
  BY <1>8, <1>12

\* The connection after sendmsg took k bytes.
LEMMA SentConn ==
  ASSUME ConnInv, FrameInv, NEW t \in Threads, NEW k \in 1 .. Capacity, SendmsgBytes(t, k)
  PROVE  LET e == EndOf(t)
             c == conn[e]
         IN  \E d \in ConnType(e), x \in LoopPc \cup {"send"} :
               /\ conn' = [conn EXCEPT ![e] = d] /\ pc' = [pc EXCEPT ![t] = x]
               /\ x = pc[t] \/ x \in {"idle", "lock", "tail"}
               /\ d.iov = c.iov - k /\ d.state = c.state /\ d.closed = c.closed
               /\ \/ d.total_send_len = 0
                  \/ /\ d.total_send_len = c.total_send_len /\ d.send_message = c.send_message
                     /\ x = pc[t]
               /\ d.recv_state = c.recv_state /\ d.recv_len = c.recv_len
               /\ d.recvLen = c.recvLen /\ d.header = c.header /\ d.body = c.body
               /\ d.total_recv_len = c.total_recv_len
<1> DEFINE e == EndOf(t)
           c == conn[e]
           sent == [c EXCEPT !.iov = @ - k, !.sendLen = @ + k]
<1>1. /\ Sending(t) /\ k \in 1 .. c.iov
  BY DEF SendmsgBytes
<1>2. Capacity \in Nat /\ k \in Nat /\ k > 0
  BY ConnectionAssumption DEF ConnectionAssumption
<1>3. /\ e \in Ends /\ c \in ConnType(e)
      /\ pc[t] = IF t \in Senders THEN "send" ELSE "reply"
  BY <1>1, SendingFacts
<1>4. c.iov \in Nat /\ c.sendLen \in Nat /\ k <= c.iov
  BY <1>1, <1>3 DEF ConnType
<1>5. sent \in ConnType(e)
  <2>1. c.iov - k \in Nat /\ c.sendLen + k \in Nat
    BY <1>2, <1>4
  <2>2. sent = [c EXCEPT !.iov = c.iov - k, !.sendLen = c.sendLen + k]
    BY <1>3 DEF ConnType
  <2> QED
    BY <1>3, <2>1, <2>2 DEF ConnType
<1>6. /\ sent.state = c.state /\ sent.closed = c.closed /\ sent.iov = c.iov - k
      /\ sent.total_send_len = c.total_send_len /\ sent.send_message = c.send_message
      /\ sent.recv_state = c.recv_state /\ sent.recv_len = c.recv_len
      /\ sent.recvLen = c.recvLen /\ sent.header = c.header /\ sent.body = c.body
      /\ sent.total_recv_len = c.total_recv_len
  BY <1>3 DEF ConnType
<1>7. CASE sent.sendLen = c.total_send_len
  <2> DEFINE b == [sent EXCEPT !.total_send_len = 0, !.send_message = NoMsg]
  <2>1. FlushReturns(t, b)
    BY <1>7 DEF SendmsgBytes
  <2>2. b \in ConnType(EndOf(t))
    BY <1>5 DEF ConnType
  <2>3. /\ b.state = sent.state /\ b.closed = sent.closed /\ b.iov = sent.iov
        /\ b.total_send_len = 0
        /\ b.recv_state = sent.recv_state /\ b.recv_len = sent.recv_len
        /\ b.recvLen = sent.recvLen /\ b.header = sent.header /\ b.body = sent.body
        /\ b.total_recv_len = sent.total_recv_len
    BY <1>5 DEF ConnType
  <2> HIDE DEF b, sent
  <2>4. PICK x \in {"idle", "lock", "tail"}, n \in Nat :
          /\ conn' = [conn EXCEPT ![EndOf(t)] = [b EXCEPT !.mutex = Nobody, !.count = n]]
          /\ pc' = [pc EXCEPT ![t] = x]
          /\ t \in Senders => x = "idle"
    BY <1>1, <2>1, <2>2, FlushEffect
  <2> DEFINE d == [b EXCEPT !.mutex = Nobody, !.count = n]
  <2>5. d \in ConnType(e)
    BY <2>2 DEF ConnType
  <2>6. /\ d.state = b.state /\ d.closed = b.closed /\ d.iov = b.iov
        /\ d.total_send_len = b.total_send_len
        /\ d.recv_state = b.recv_state /\ d.recv_len = b.recv_len
        /\ d.recvLen = b.recvLen /\ d.header = b.header /\ d.body = b.body
        /\ d.total_recv_len = b.total_recv_len
    BY <2>2 DEF ConnType
  <2>7. conn' = [conn EXCEPT ![e] = d] /\ pc' = [pc EXCEPT ![t] = x]
    BY <2>4
  <2> HIDE DEF d
  <2>8. x \in LoopPc \cup {"send"}
    BY DEF LoopPc
  <2> QED
    BY <1>6, <2>3, <2>5, <2>6, <2>7, <2>8
<1>8. CASE sent.sendLen # c.total_send_len
  <2>1. conn' = [conn EXCEPT ![e] = sent] /\ pc' = pc
    BY <1>8 DEF SendmsgBytes
  <2>2. pc' = [pc EXCEPT ![t] = pc[t]]
    BY <2>1 DEF ConnInv, ConnTypeOK
  <2> HIDE DEF sent
  <2>3. pc[t] \in LoopPc \cup {"send"}
    BY DEF ConnInv, ConnTypeOK
  <2> QED
    BY <1>5, <1>6, <2>1, <2>2, <2>3
<1> QED
  BY <1>7, <1>8

LEMMA SendmsgBytesFrame ==
  ASSUME ConnInv, FrameInv, NEW t \in Threads, NEW k \in 1 .. Capacity, SendmsgBytes(t, k)
  PROVE  FrameInv'
<1> DEFINE e == EndOf(t)
           c == conn[e]
           X == NextBytes(c, k)
<1>1. /\ Sending(t) /\ link /\ k \in 1 .. c.iov
      /\ wire' = [wire EXCEPT ![e] = @ \o X]
      /\ len' = len /\ link' = link /\ filled' = filled /\ handled' = handled
  BY DEF SendmsgBytes
<1>2. Capacity \in Nat /\ k \in Nat /\ k > 0
  BY ConnectionAssumption DEF ConnectionAssumption
<1>3. /\ e \in Ends /\ t \in ThreadsOf(e) /\ c \in ConnType(e) /\ ~ c.closed
      /\ pc[t] = IF t \in Senders THEN "send" ELSE "reply"
      /\ c.total_send_len = IF c.send_message = NoMsg THEN 0 ELSE Size(c.send_message)
      /\ c.sendLen + c.iov <= c.total_send_len
  BY <1>1, SendingFacts
<1>4. /\ c.iov \in Nat /\ k <= c.iov /\ c.total_send_len \in Nat /\ c.sendLen \in Nat
  BY <1>1, <1>3 DEF ConnType
<1>5. c.send_message \in SentBy(e) /\ c.iov <= c.total_send_len /\ c.total_send_len # 0
      /\ c.send_message # NoMsg
  <2>1. c.iov > 0
    BY <1>2, <1>4
  <2> QED
    BY <1>1, <1>3, <1>4, <2>1, SendingFacts
<1>6. PICK d \in ConnType(e), x \in LoopPc \cup {"send"} :
        /\ conn' = [conn EXCEPT ![e] = d] /\ pc' = [pc EXCEPT ![t] = x]
        /\ x = pc[t] \/ x \in {"idle", "lock", "tail"}
        /\ d.iov = c.iov - k /\ d.state = c.state /\ d.closed = c.closed
        /\ \/ d.total_send_len = 0
           \/ /\ d.total_send_len = c.total_send_len /\ d.send_message = c.send_message
              /\ x = pc[t]
        /\ d.recv_state = c.recv_state /\ d.recv_len = c.recv_len
        /\ d.recvLen = c.recvLen /\ d.header = c.header /\ d.body = c.body
        /\ d.total_recv_len = c.total_recv_len
  BY SentConn
<1>7. /\ SendEnd(e) /\ conn \in [Ends -> ConnType("client") \cup ConnType("server")]
      /\ pc \in [Threads -> LoopPc \cup {"send"}] /\ Loop(e) \in Threads
      /\ len \in [Requests -> BodyLens] /\ DOMAIN wire = Ends
  BY <1>3, EndNow DEF ConnInv, ConnTypeOK
<1>8. PICK g \in Ends : g = Peer(e) /\ e = Peer(g) /\ g # e /\ \A f \in Ends : f = e \/ f = g
  BY <1>3, EndFacts
<1> HIDE DEF e
<1>9. conn'[e] = d /\ conn'[g] = conn[g]
  BY <1>3, <1>6, <1>7, <1>8
<1>10. wire'[e] = wire[e] \o X /\ wire'[g] = wire[g]
  BY <1>1, <1>3, <1>7, <1>8
<1>11. /\ Loop(e) # t => pc'[Loop(e)] = pc[Loop(e)]
       /\ Loop(e) = t => pc'[Loop(e)] = x /\ pc[Loop(e)] \in {"send", "reply"}
  BY <1>3, <1>6, <1>7
<1>12. Loop(g) \in Threads /\ t # Loop(g)
  BY <1>3, <1>8, EndFacts DEF ThreadsOf
<1>13. pc'[Loop(g)] = pc[Loop(g)]
  BY <1>6, <1>7, <1>12
<1>14. c.state = "kDisconnecting" => pc[Loop(e)] = "tail" /\ Loop(e) # t
  BY <1>1, <1>7, <1>11 DEF SendEnd
<1>15. NextOf(len, filled[e], X, c.iov) /\ Len(X) = k /\ X \in Seq(BytesOf(e))
  <2>1. Len(filled[e]) >= 1 /\ filled[e][Len(filled[e])] = c.send_message
    BY <1>1, <1>5, <1>7 DEF SendEnd
  <2>2. PICK z \in Nat : z = Size(c.send_message) /\ z = HeaderLen + len[c.send_message[2]]
    BY <1>3, <1>5, <1>7, MessageFacts DEF Size
  <2>3. c.iov <= z
    BY <1>3, <1>4, <1>5, <2>2
  <2>4. X = [i \in 1 .. k |-> <<c.send_message, z - c.iov + i>>]
    BY <2>2 DEF NextBytes
  <2>5. \A i \in 1 .. k : <<c.send_message, z - c.iov + i>> \in BytesOf(e)
    BY <1>4, <1>5 DEF BytesOf
  <2> HIDE DEF X, c
  <2>6. X \in Seq(BytesOf(e)) /\ Len(X) = k /\ \A i \in 1 .. k : X[i] = <<c.send_message, z - c.iov + i>>
    BY <1>2, <2>4, <2>5
  <2>7. HeaderLen + len[filled[e][Len(filled[e])][2]] = z
    BY <2>1, <2>2
  <2>8. NextOf(len, filled[e], X, c.iov)
    <3>1. c.iov <= HeaderLen + len[filled[e][Len(filled[e])][2]]
      BY <2>3, <2>7
    <3>2. Len(X) <= c.iov
      BY <1>4, <2>6
    <3>3. \A i \in 1 .. Len(X) : X[i] = <<filled[e][Len(filled[e])],
                                         HeaderLen + len[filled[e][Len(filled[e])][2]] - c.iov + i>>
      <4> SUFFICES ASSUME NEW i \in 1 .. k
                   PROVE  X[i] = <<filled[e][Len(filled[e])],
                                   HeaderLen + len[filled[e][Len(filled[e])][2]] - c.iov + i>>
        BY <2>6
      <4>1. X[i] = <<c.send_message, z - c.iov + i>>
        BY <2>6
      <4>2. HeaderLen \in Nat /\ len[filled[e][Len(filled[e])][2]] \in Nat
        BY <1>3, <1>5, <1>7, <2>1, MessageFacts, ConnectionAssumption DEF ConnectionAssumption
      <4>3. HeaderLen + len[filled[e][Len(filled[e])][2]] - c.iov + i = z - c.iov + i
        BY <1>4, <2>7, <4>2, SMTT(40)
      <4> QED
        BY <2>1, <4>1, <4>3, Zenon
    <3> QED
      BY <2>1, <3>1, <3>2, <3>3, Zenon DEF NextOf
  <2> QED
    BY <2>6, <2>8
<1> HIDE DEF X
<1>16. FrameEnd(g)'
  <2>1. Dead(g) => Dead(g)'
    BY <1>9, <1>13 DEF Dead
  <2>2. d.iov = conn[e].iov - Len(X)
    BY <1>6, <1>15
  <2>3. ASSUME ~ Dead(g) PROVE Stream(g)' /\ Parsed(g)'
    BY <1>1, <1>3, <1>8, <1>9, <1>10, <1>13, <1>15, <2>2, <2>3, SentFrame
  <2> QED
    BY <2>1, <2>3 DEF FrameEnd
<1>17. FrameEnd(e)'
  <2>1. ReadSame(e)
    BY <1>6, <1>9, <1>11 DEF ReadSame
  <2>2. Dead(e) => Dead(e)'
    BY <1>3, <1>6, <1>9, <1>11 DEF Dead
  <2>3. Calm(e)
    BY <1>1, <1>3, <2>1, <2>2, SameReader
  <2> QED
    BY <1>1, <1>3, <1>8, <1>9, <1>10, <2>3, CalmEnd
<1>18. SendEnd(g)'
  BY <1>1, <1>8, <1>9, <1>13 DEF SendEnd, FrameInv
<1>19. SendEnd(e)'
  <2>1. d.state = "kDisconnecting" => pc'[Loop(e)] = "tail"
    BY <1>6, <1>11, <1>14
  <2>2. d.total_send_len # 0 => Len(filled[e]) >= 1 /\ d.send_message = filled[e][Len(filled[e])]
    BY <1>1, <1>5, <1>6, <1>7 DEF SendEnd
  <2> QED
    BY <1>1, <1>9, <2>1, <2>2 DEF SendEnd
<1>20. FrameType' /\ FramesExact'
  BY <1>1 DEF FrameInv, FrameType, FramesExact
<1> QED
  BY <1>8, <1>16, <1>17, <1>18, <1>19, <1>20 DEF FrameInv

\* What recv delivers are the next bytes of the message being read.
LEMMA RecvBytes ==
  ASSUME ConnInv, FrameInv, NEW e \in Ends, pc[Loop(e)] \in {"kMsgHeader", "kBody"},
         NEW k \in 1 .. Len(wire[Peer(e)])
  PROVE  LET m == filled[Peer(e)][Len(handled[e]) + 1]
         IN  At(e) + k <= HeaderLen + len[m[2]]
               => \A i \in 1 .. k : wire[Peer(e)][i] = <<m, At(e) + i>>
<1> DEFINE n == Len(handled[e])
           F == filled[Peer(e)]
           W == wire[Peer(e)]
<1>1. /\ Stream(e) /\ W \in Seq(BytesOf(Peer(e)))
      /\ \A left \in Nat : Trackable(len, F, SentBy(Peer(e)), n, At(e), left)
      /\ At(e) > 0 \/ Len(W) > 0 => n < Len(F)
  BY MessageNow
<1>2. PICK left \in Nat : Track(len, F, W, n, At(e), left)
  BY <1>1 DEF Stream
<1> HIDE DEF n, F, W
<1>3. Trackable(len, F, SentBy(Peer(e)), n, At(e), left)
  BY <1>1
<1>4. k \in 1 .. Len(W) /\ n < Len(F)
  BY <1>1 DEF W
<1>5. At(e) + k <= HeaderLen + len[F[n + 1][2]]
        => \A i \in 1 .. k : W[i] = <<F[n + 1], At(e) + i>>
  BY <1>1, <1>2, <1>3, <1>4, TrackBytes
<1> QED
  BY <1>5 DEF n, F, W

\* The stream into an end that has read k bytes more.
LEMMA RecvStream ==
  ASSUME ConnInv, FrameInv, NEW e \in Ends, pc[Loop(e)] \in {"kMsgHeader", "kBody"},
         NEW k \in 1 .. Len(wire[Peer(e)])
  PROVE  \E left \in Nat :
           /\ Track(len, filled[Peer(e)],
                    SubSeq(wire[Peer(e)], k + 1, Len(wire[Peer(e)])),
                    Len(handled[e]), At(e) + k, left)
           /\ link => left = conn[Peer(e)].iov
<1> DEFINE n == Len(handled[e])
           F == filled[Peer(e)]
           W == wire[Peer(e)]
<1>1. /\ Stream(e) /\ W \in Seq(BytesOf(Peer(e)))
      /\ \A left \in Nat : Trackable(len, F, SentBy(Peer(e)), n, At(e), left)
  BY MessageNow
<1>2. PICK left \in Nat : Track(len, F, W, n, At(e), left) /\ (link => left = conn[Peer(e)].iov)
  BY <1>1 DEF Stream
<1> HIDE DEF n, F, W
<1>3. Trackable(len, F, SentBy(Peer(e)), n, At(e), left) /\ k \in 1 .. Len(W)
  BY <1>1 DEF W
<1>4. Track(len, F, SubSeq(W, k + 1, Len(W)), n, At(e) + k, left)
  BY <1>1, <1>2, <1>3, TrackRecv
<1> QED
  BY <1>2, <1>4 DEF n, F, W

\* recv takes k bytes of a message off, which is not complete.
LEMMA ReadFrame ==
  ASSUME ConnInv, FrameInv, NEW e \in Ends, pc[Loop(e)] \in {"kMsgHeader", "kBody"},
         NEW k \in 1 .. Len(wire[Peer(e)]),
         wire' = [wire EXCEPT ![Peer(e)] = SubSeq(@, k + 1, Len(@))],
         NEW d, conn' = [conn EXCEPT ![e] = d],
         NEW x, pc' = [pc EXCEPT ![Loop(e)] = x],
         len' = len, filled' = filled, handled' = handled, link' = link,
         d.iov = conn[e].iov, d.total_send_len = conn[e].total_send_len,
         d.send_message = conn[e].send_message,
         d.state = conn[e].state \/ x = "tail",
         ~ Dead(e)' => At(e)' = At(e) + k /\ Parsed(e)'
  PROVE  FrameInv'
<1>1. PICK g \in Ends : g = Peer(e) /\ e = Peer(g) /\ g # e /\ \A f \in Ends : f = e \/ f = g
  BY EndFacts
<1>2. /\ SendEnd(e) /\ conn \in [Ends -> ConnType("client") \cup ConnType("server")]
      /\ pc \in [Threads -> LoopPc \cup {"send"}] /\ Loop(e) \in Threads /\ Loop(e) \in ThreadsOf(e)
      /\ DOMAIN wire = Ends
  BY EndNow DEF ConnInv, ConnTypeOK
<1>3. conn'[e] = d /\ conn'[g] = conn[g]
  BY <1>1, <1>2
<1>4. wire'[e] = wire[e] /\ wire'[g] = SubSeq(wire[g], k + 1, Len(wire[g]))
  BY <1>1, <1>2
<1>5. Loop(g) \in Threads /\ Loop(e) # Loop(g)
  BY <1>1, EndFacts DEF ThreadsOf
<1>6. pc'[Loop(e)] = x /\ pc'[Loop(g)] = pc[Loop(g)]
  BY <1>2, <1>5
<1>7. FrameEnd(g)' /\ SendEnd(g)'
  <2>1. Calm(g) /\ SendEnd(g)'
    BY <1>3, <1>6, CalmOther
  <2> QED
    BY <1>1, <1>3, <1>4, <2>1, CalmEnd
<1>8. FrameEnd(e)'
  <2> SUFFICES ASSUME ~ Dead(e)' PROVE Stream(e)' /\ Parsed(e)'
    BY DEF FrameEnd
  <2>1. PICK left \in Nat :
          /\ Track(len, filled[Peer(e)],
                   SubSeq(wire[Peer(e)], k + 1, Len(wire[Peer(e)])),
                   Len(handled[e]), At(e) + k, left)
          /\ link => left = conn[Peer(e)].iov
    BY RecvStream
  <2>2. Stream(e)'
    BY <1>1, <1>3, <1>4, <2>1 DEF Stream
  <2> QED
    BY <2>2
<1>9. SendEnd(e)'
  <2>1. link /\ d.state = "kDisconnecting" => x = "tail"
    BY <1>2 DEF SendEnd
  <2> QED
    BY <1>2, <1>3, <1>6, <2>1 DEF SendEnd
<1>10. FrameType' /\ FramesExact'
  BY HistoryKept
<1> QED
  BY <1>1, <1>7, <1>8, <1>9, <1>10 DEF FrameInv

\* The connection after recv delivered k bytes of the header.
LEMMA HeaderGot ==
  ASSUME ConnInv, NEW e \in Ends, NEW k \in 1 .. Capacity, RecvHeader(e, k)
  PROVE  LET c == conn[e]
             at == c.recv_len + c.recvLen
         IN  \E got \in ConnType(e) :
               /\ got.state = c.state /\ got.closed = c.closed /\ got.iov = c.iov
               /\ got.send_message = c.send_message /\ got.total_send_len = c.total_send_len
               /\ got.recv_state = "kMsgHeader" /\ got.recv_len = c.recv_len
               /\ got.recvLen = c.recvLen + k
               /\ \A i \in 1 .. at : got.header[i] = c.header[i]
               /\ \A i \in 1 .. k : got.header[at + i] = wire[Peer(e)][i]
               /\ \/ at + k = HeaderLen /\ HeaderDone(e, got)
                  \/ at + k # HeaderLen /\ conn' = [conn EXCEPT ![e] = got] /\ pc' = pc
<1> DEFINE c == conn[e]
           at == c.recv_len + c.recvLen
           W == wire[Peer(e)]
           h == SubSeq(c.header, 1, at) \o SubSeq(W, 1, k)
           got == [c EXCEPT !.header = SubSeq(@, 1, at) \o SubSeq(W, 1, k), !.recvLen = @ + k]
<1>1. pc[Loop(e)] = "kMsgHeader" /\ k \in 1 .. Len(W)
  BY DEF RecvHeader
<1>2. /\ c \in ConnType(e) /\ c.recv_state = "kMsgHeader" /\ at <= Len(c.header)
  BY <1>1, ReceivingFacts
<1>3. c.header \in Seq(BytesOf(Peer(e))) /\ c.recv_len \in Nat /\ c.recvLen \in Nat /\ at \in Nat
  BY <1>2 DEF ConnType
<1>4. k \in Nat /\ k >= 1 /\ W \in Seq(BytesOf(Peer(e))) /\ Len(W) \in Nat
  BY <1>1, EndFacts, ConnectionAssumption DEF ConnectionAssumption, ConnInv, ConnTypeOK
<1>5. \/ at + k = HeaderLen /\ HeaderDone(e, got)
      \/ at + k # HeaderLen /\ conn' = [conn EXCEPT ![e] = got] /\ pc' = pc
  BY DEF RecvHeader
<1>6. got = [c EXCEPT !.header = h, !.recvLen = c.recvLen + k]
  BY <1>2 DEF ConnType
<1>7. /\ h \in Seq(BytesOf(Peer(e))) /\ Len(h) = at + k
      /\ \A i \in 1 .. at : h[i] = c.header[i]
      /\ \A i \in 1 .. k : h[at + i] = W[i]
  <2> DEFINE old == SubSeq(c.header, 1, at)
             new == SubSeq(W, 1, k)
  <2>1. /\ old \in Seq(BytesOf(Peer(e))) /\ Len(old) = at
        /\ \A i \in 1 .. at : old[i] = c.header[i]
    BY <1>2, <1>3, SubSeqProperties
  <2> HIDE DEF at, c
  <2>2. /\ new \in Seq(BytesOf(Peer(e))) /\ Len(new) = k
        /\ \A i \in 1 .. k : new[i] = W[i]
    BY <1>1, <1>4, SubSeqProperties
  <2> HIDE DEF old, new, W
  <2>3. /\ old \o new \in Seq(BytesOf(Peer(e))) /\ Len(old \o new) = at + k
        /\ \A i \in 1 .. at + k : (old \o new)[i] = IF i <= at THEN old[i] ELSE new[i - at]
    BY <2>1, <2>2, ConcatProperties
  <2>4. h = old \o new
    BY DEF old, new
  <2> HIDE DEF h
  <2>5. ASSUME NEW i \in 1 .. at PROVE h[i] = c.header[i]
    <3>1. i \in 1 .. at + k /\ i <= at
      BY <1>3, <1>4
    <3> QED
      BY <2>1, <2>3, <2>4, <3>1
  <2>6. ASSUME NEW i \in 1 .. k PROVE h[at + i] = W[i]
    <3>1. at + i \in 1 .. at + k /\ ~ (at + i <= at) /\ (at + i) - at = i
      BY <1>3, <1>4
    <3> QED
      BY <2>2, <2>3, <2>4, <3>1
  <2> QED
    BY <2>3, <2>4, <2>5, <2>6
<1> HIDE DEF h, got
<1>8. got \in ConnType(e)
  <2>1. c.recvLen + k \in Nat
    BY <1>3, <1>4
  <2> QED
    BY <1>2, <1>6, <1>7, <2>1 DEF ConnType
<1>9. /\ got.state = c.state /\ got.closed = c.closed /\ got.iov = c.iov
      /\ got.send_message = c.send_message /\ got.total_send_len = c.total_send_len
      /\ got.recv_state = c.recv_state /\ got.recv_len = c.recv_len
      /\ got.recvLen = c.recvLen + k /\ got.header = h
  BY <1>2, <1>6 DEF ConnType
<1>10. /\ got.recv_state = "kMsgHeader"
       /\ \A i \in 1 .. at : got.header[i] = c.header[i]
       /\ \A i \in 1 .. k : got.header[at + i] = wire[Peer(e)][i]
  BY <1>2, <1>7, <1>9
<1> QED
  BY <1>5, <1>8, <1>9, <1>10

LEMMA RecvHeaderFrame ==
  ASSUME ConnInv, FrameInv, NEW e \in Ends, NEW k \in 1 .. Capacity, RecvHeader(e, k)
  PROVE  FrameInv'
<1> DEFINE c == conn[e]
           at == c.recv_len + c.recvLen
           n == Len(handled[e])
           m == filled[Peer(e)][n + 1]
<1>1. /\ pc[Loop(e)] = "kMsgHeader" /\ k \in 1 .. Len(wire[Peer(e)]) /\ at + k <= HeaderLen
      /\ wire' = [wire EXCEPT ![Peer(e)] = SubSeq(@, k + 1, Len(@))]
      /\ len' = len /\ link' = link /\ filled' = filled /\ handled' = handled
  BY DEF RecvHeader
<1>2. /\ c \in ConnType(e) /\ c.recv_state = "kMsgHeader" /\ ~ c.closed
  BY <1>1, ReceivingFacts
<1>3. c.recv_len \in Nat /\ c.recvLen \in Nat /\ at \in Nat
  BY <1>2 DEF ConnType
<1>4. k \in Nat /\ k >= 1 /\ HeaderLen \in Nat /\ HeaderLen >= 1
  BY ConnectionAssumption DEF ConnectionAssumption
<1>5. At(e) = at
  BY <1>1, <1>2 DEF At
<1>6. Parsed(e) /\ len[m[2]] \in Nat
  <2>1. Len(wire[Peer(e)]) > 0
    BY <1>1, <1>4, MessageNow
  <2> QED
    BY <1>1, <2>1, MessageNow
<1>7. \A i \in 1 .. k : wire[Peer(e)][i] = <<m, at + i>>
  <2>1. at + k <= HeaderLen + len[m[2]]
    <3> HIDE DEF at, m
    <3> QED
      BY <1>1, <1>3, <1>4, <1>6
  <2> QED
    BY <1>1, <1>5, <2>1, RecvBytes
<1>8. \A i \in 1 .. at : c.header[i] = <<m, i>>
  BY <1>2, <1>5, <1>6 DEF Parsed
<1>9. /\ conn \in [Ends -> ConnType("client") \cup ConnType("server")]
       /\ pc \in [Threads -> LoopPc \cup {"send"}] /\ Loop(e) \in Threads
  BY EndNow
<1>10. at = c.recv_len + c.recvLen /\ (m = filled[Peer(e)][n + 1]) /\ n = Len(handled[e])
  OBVIOUS
<1> HIDE DEF at, m, n
<1>11. PICK got \in ConnType(e) :
        /\ got.state = c.state /\ got.closed = c.closed /\ got.iov = c.iov
        /\ got.send_message = c.send_message /\ got.total_send_len = c.total_send_len
        /\ got.recv_state = "kMsgHeader" /\ got.recv_len = c.recv_len
        /\ got.recvLen = c.recvLen + k
        /\ \A i \in 1 .. at : got.header[i] = c.header[i]
        /\ \A i \in 1 .. k : got.header[at + i] = wire[Peer(e)][i]
        /\ \/ at + k = HeaderLen /\ HeaderDone(e, got)
           \/ at + k # HeaderLen /\ conn' = [conn EXCEPT ![e] = got] /\ pc' = pc
  BY HeaderGot DEF at
<1>12. /\ got.state = c.state /\ got.iov = c.iov
       /\ got.send_message = c.send_message /\ got.total_send_len = c.total_send_len
  BY <1>11
<1>13. \A i \in 1 .. at + k : got.header[i] = <<m, i>>
  <2> SUFFICES ASSUME NEW i \in 1 .. at + k PROVE got.header[i] = <<m, i>>
    OBVIOUS
  <2>1. CASE i <= at
    BY <1>11, <1>3, <1>8, <2>1
  <2>2. CASE ~ (i <= at)
    <3>1. PICK j \in 1 .. k : i = at + j
      <4>1. i - at \in 1 .. k /\ i = at + (i - at)
        BY <1>3, <1>4, <2>2
      <4> QED
        BY <4>1
    <3> QED
      BY <1>11, <1>7, <3>1
  <2> QED
    BY <2>1, <2>2
<1>14. CASE at + k # HeaderLen /\ conn' = [conn EXCEPT ![e] = got] /\ pc' = pc
  <2>1. conn'[e] = got /\ pc'[Loop(e)] = "kMsgHeader"
    BY <1>1, <1>9, <1>14
  <2>2. pc' = [pc EXCEPT ![Loop(e)] = "kMsgHeader"]
    BY <1>1, <1>9, <1>14
  <2>3. At(e)' = at + k
    <3>1. got.recv_len + got.recvLen = at + k
      BY <1>11, <1>3, <1>4, <1>10
    <3> QED
      BY <1>11, <2>1, <3>1 DEF At
  <2>4. Parsed(e)'
    BY <1>1, <1>11, <1>10, <1>13, <2>1, <2>3 DEF Parsed
  <2>5. conn' = [conn EXCEPT ![e] = got]
    BY <1>14
  <2> QED
    BY <1>1, <1>5, <1>12, <2>2, <2>3, <2>4, <2>5, ReadFrame
<1>15. CASE at + k = HeaderLen /\ HeaderDone(e, got)
  <2> DEFINE first == got.header[1]
             z == len[first[1][2]]
             ready == [got EXCEPT !.recv_state = "kBody", !.recv_len = 0, !.recvLen = 0,
                                  !.total_recv_len = z, !.body = <<>>]
             bad == [got EXCEPT !.recv_len = 0, !.state = "kDisconnecting"]
  <2>1. \/ /\ conn' = [conn EXCEPT ![e] = ready]
           /\ pc' = [pc EXCEPT ![Loop(e)] = "kBody"]
        \/ ParseFails(e, bad)
    BY <1>15 DEF HeaderDone
  <2>2. first = <<m, 1>> /\ z = len[m[2]]
    BY <1>4, <1>13, <1>15
  <2> HIDE DEF z
  <2>3. CASE /\ conn' = [conn EXCEPT ![e] = ready]
             /\ pc' = [pc EXCEPT ![Loop(e)] = "kBody"]
    <3>1. /\ ready.state = got.state /\ ready.iov = got.iov
          /\ ready.send_message = got.send_message /\ ready.total_send_len = got.total_send_len
          /\ ready.recv_state = "kBody" /\ ready.recvLen = 0 /\ ready.header = got.header
          /\ ready.total_recv_len = z /\ ready.body = <<>>
      BY DEF ConnType
    <3> HIDE DEF ready, first
    <3>2. conn'[e] = ready /\ pc'[Loop(e)] = "kBody"
      BY <1>9, <2>3
    <3>3. At(e)' = at + k
      BY <1>4, <1>15, <3>1, <3>2 DEF At
    <3>4. Parsed(e)'
      <4>1. got.header[1] = <<m, 1>>
        BY <2>2 DEF first
      <4>2. z + Len(<<>>) = len[m[2]] + 0
        BY <1>6, <2>2 DEF m, n
      <4> QED
        BY <1>1, <1>10, <3>1, <3>2, <4>1, <4>2 DEF Parsed
    <3> QED
      BY <1>1, <1>5, <1>12, <2>3, <3>1, <3>3, <3>4, ReadFrame
  <2>4. CASE ParseFails(e, bad)
    <3> DEFINE d == [bad EXCEPT !.mutex = Nobody]
    <3>1. conn' = [conn EXCEPT ![e] = d] /\ pc' = [pc EXCEPT ![Loop(e)] = "tail"]
      BY <2>4 DEF ParseFails
    <3>2. /\ d.state = "kDisconnecting" /\ d.iov = got.iov
          /\ d.send_message = got.send_message /\ d.total_send_len = got.total_send_len
      BY DEF ConnType
    <3> HIDE DEF d
    <3>3. Dead(e)'
      BY <1>9, <3>1, <3>2 DEF Dead
    <3> QED
      BY <1>1, <1>12, <3>1, <3>2, <3>3, ReadFrame
  <2> QED
    BY <2>1, <2>3, <2>4
<1> QED
  BY <1>11, <1>14, <1>15

\* The connection after recvmsg delivered k bytes of the body.
LEMMA BodyGot ==
  ASSUME ConnInv, NEW e \in Ends, NEW k \in 1 .. Capacity, RecvBody(e, k)
  PROVE  LET c == conn[e]
             b == Len(c.body)
         IN  \E got \in ConnType(e) :
               /\ got.state = c.state /\ got.closed = c.closed /\ got.iov = c.iov
               /\ got.send_message = c.send_message /\ got.total_send_len = c.total_send_len
               /\ got.recv_state = "kBody" /\ got.recv_len = 0 /\ got.header = c.header
               /\ got.total_recv_len = c.total_recv_len
               /\ got.recvLen = c.recvLen + k /\ got.recvLen <= c.total_recv_len
               /\ Len(got.body) = b + k
               /\ \A i \in 1 .. b : got.body[i] = c.body[i]
               /\ \A i \in 1 .. k : got.body[b + i] = wire[Peer(e)][i]
               /\ \/ got.recvLen = c.total_recv_len /\ HandleMessage(e, got)
                  \/ /\ got.recvLen # c.total_recv_len /\ conn' = [conn EXCEPT ![e] = got]
                     /\ pc' = pc /\ filled' = filled /\ handled' = handled
<1> DEFINE c == conn[e]
           W == wire[Peer(e)]
           h == c.body \o SubSeq(W, 1, k)
           got == [c EXCEPT !.body = @ \o SubSeq(W, 1, k), !.recvLen = @ + k]
<1>1. pc[Loop(e)] = "kBody" /\ k \in 1 .. Len(W) /\ got.recvLen <= c.total_recv_len
  BY DEF RecvBody
<1>2. c \in ConnType(e) /\ c.recv_state = "kBody" /\ c.recv_len = 0
  BY <1>1, ReceivingFacts
<1>3. c.body \in Seq(BytesOf(Peer(e))) /\ c.recvLen \in Nat /\ Len(c.body) \in Nat
  BY <1>2 DEF ConnType
<1>4. k \in Nat /\ k >= 1 /\ W \in Seq(BytesOf(Peer(e))) /\ Len(W) \in Nat
  BY <1>1, EndFacts, ConnectionAssumption DEF ConnectionAssumption, ConnInv, ConnTypeOK
<1>5. \/ got.recvLen = c.total_recv_len /\ HandleMessage(e, got)
      \/ /\ got.recvLen # c.total_recv_len /\ conn' = [conn EXCEPT ![e] = got]
         /\ pc' = pc /\ filled' = filled /\ handled' = handled
  BY DEF RecvBody
<1>6. got = [c EXCEPT !.body = h, !.recvLen = c.recvLen + k]
  BY <1>2 DEF ConnType
<1>7. /\ h \in Seq(BytesOf(Peer(e))) /\ Len(h) = Len(c.body) + k
      /\ \A i \in 1 .. Len(c.body) : h[i] = c.body[i]
      /\ \A i \in 1 .. k : h[Len(c.body) + i] = W[i]
  <2> DEFINE old == c.body
             new == SubSeq(W, 1, k)
  <2>1. /\ new \in Seq(BytesOf(Peer(e))) /\ Len(new) = k
        /\ \A i \in 1 .. k : new[i] = W[i]
    BY <1>1, <1>4, SubSeqProperties
  <2>2. old \in Seq(BytesOf(Peer(e))) /\ h = old \o new /\ old = c.body
    BY <1>3
  <2> HIDE DEF old, new, W, h
  <2>3. PICK b \in Nat : b = Len(old)
    BY <2>2
  <2>4. /\ old \o new \in Seq(BytesOf(Peer(e))) /\ Len(old \o new) = b + k
        /\ \A i \in 1 .. b + k : (old \o new)[i] = IF i <= b THEN old[i] ELSE new[i - b]
    <3>1. /\ old \o new \in Seq(BytesOf(Peer(e))) /\ Len(old \o new) = Len(old) + Len(new)
          /\ \A i \in 1 .. Len(old) + Len(new) :
               (old \o new)[i] = IF i <= Len(old) THEN old[i] ELSE new[i - Len(old)]
      <4>1. old \in Seq(BytesOf(Peer(e))) /\ new \in Seq(BytesOf(Peer(e)))
        BY <2>1, <2>2
      <4> QED
        BY <4>1, ConcatProperties
    <3> QED
      BY <2>1, <2>3, <3>1
  <2>5. ASSUME NEW i \in 1 .. b PROVE h[i] = old[i]
    <3>1. i \in 1 .. b + k /\ i <= b
      BY <1>4
    <3> QED
      BY <2>2, <2>4, <3>1
  <2>6. ASSUME NEW i \in 1 .. k PROVE h[b + i] = W[i]
    <3>1. b + i \in 1 .. b + k /\ ~ (b + i <= b) /\ (b + i) - b = i
      BY <1>4
    <3> QED
      BY <2>1, <2>2, <2>4, <3>1
  <2> QED
    BY <2>2, <2>3, <2>4, <2>5, <2>6
<1> HIDE DEF h, got
<1>8. got \in ConnType(e)
  <2>1. c.recvLen + k \in Nat
    BY <1>3, <1>4
  <2> QED
    BY <1>2, <1>6, <1>7, <2>1 DEF ConnType
<1>9. /\ got.state = c.state /\ got.closed = c.closed /\ got.iov = c.iov
      /\ got.send_message = c.send_message /\ got.total_send_len = c.total_send_len
      /\ got.recv_state = c.recv_state /\ got.recv_len = c.recv_len /\ got.header = c.header
      /\ got.total_recv_len = c.total_recv_len
      /\ got.recvLen = c.recvLen + k /\ got.body = h
  BY <1>2, <1>6 DEF ConnType
<1>10. /\ got.recv_state = "kBody" /\ got.recv_len = 0 /\ Len(got.body) = Len(c.body) + k
       /\ \A i \in 1 .. Len(c.body) : got.body[i] = c.body[i]
       /\ \A i \in 1 .. k : got.body[Len(c.body) + i] = wire[Peer(e)][i]
  BY <1>2, <1>7, <1>9
<1> QED
  BY <1>1, <1>5, <1>8, <1>9, <1>10

\* The messages H handled are the first of F.
Frames(L, F, H) ==
  /\ Len(H) <= Len(F)
  /\ \A i \in 1 .. Len(H) :
       /\ H[i].msg = F[i]
       /\ H[i].body = [j \in 1 .. L[F[i][2]] |-> <<F[i], HeaderLen + j>>]

LEMMA FramesSplit == FramesExact <=> \A e \in Ends : Frames(len, filled[Peer(e)], handled[e])
  BY DEF FramesExact, Frames

LEMMA FramesFill ==
  ASSUME NEW L, NEW S, NEW T, NEW F \in Seq(S), NEW H \in Seq(T), Frames(L, F, H), NEW x \in S
  PROVE  Frames(L, Append(F, x), H)
<1> DEFINE G == Append(F, x)
<1>1. Len(F) \in Nat /\ Len(H) \in Nat /\ Len(H) <= Len(F)
  BY DEF Frames
<1>2. Len(G) = Len(F) + 1 /\ \A i \in 1 .. Len(F) : G[i] = F[i]
  BY AppendProperties
<1> HIDE DEF G
<1>3. Len(H) <= Len(G) /\ \A i \in 1 .. Len(H) : G[i] = F[i]
  BY <1>1, <1>2
<1>4. Frames(L, G, H)
  BY <1>3 DEF Frames
<1> QED
  BY <1>4 DEF G

LEMMA FramesHandle ==
  ASSUME NEW L, NEW S, NEW T, NEW F \in Seq(S), NEW H \in Seq(T), Frames(L, F, H),
         Len(H) < Len(F), NEW r \in T, NEW m, m = F[Len(H) + 1], r.msg = m,
         r.body = [j \in 1 .. L[m[2]] |-> <<m, HeaderLen + j>>]
  PROVE  Frames(L, F, Append(H, r))
<1> DEFINE G == Append(H, r)
<1>1. Len(F) \in Nat /\ Len(H) \in Nat
  OBVIOUS
<1>2. /\ Len(G) = Len(H) + 1 /\ G[Len(H) + 1] = r
      /\ \A i \in 1 .. Len(H) : G[i] = H[i]
  BY AppendProperties
<1> HIDE DEF G
<1>3. Len(G) <= Len(F)
  BY <1>1, <1>2
<1>4. ASSUME NEW i \in 1 .. Len(G)
      PROVE  /\ G[i].msg = F[i]
             /\ G[i].body = [j \in 1 .. L[F[i][2]] |-> <<F[i], HeaderLen + j>>]
  <2>1. i \in 1 .. Len(H) \/ i = Len(H) + 1
    BY <1>1, <1>2
  <2>2. CASE i \in 1 .. Len(H)
    BY <1>2, <2>2 DEF Frames
  <2>3. CASE i = Len(H) + 1
    <3>1. G[i] = r /\ F[i] = m
      BY <1>2, <2>3
    <3> QED
      BY <3>1
  <2> QED
    BY <2>1, <2>2, <2>3
<1>5. Frames(L, F, G)
  BY <1>3, <1>4 DEF Frames
<1> QED
  BY <1>5 DEF G

\* The stream into an end that has read the last k bytes of a message.
LEMMA HandledStream ==
  ASSUME ConnInv, FrameInv, NEW e \in Ends, pc[Loop(e)] \in {"kMsgHeader", "kBody"},
         NEW k \in 1 .. Len(wire[Peer(e)]), NEW m, m = filled[Peer(e)][Len(handled[e]) + 1],
         At(e) + k = HeaderLen + len[m[2]]
  PROVE  \E left \in Nat :
           /\ Track(len, filled[Peer(e)],
                    SubSeq(wire[Peer(e)], k + 1, Len(wire[Peer(e)])),
                    Len(handled[e]) + 1, 0, left)
           /\ link => left = conn[Peer(e)].iov
<1> DEFINE n == Len(handled[e])
           F == filled[Peer(e)]
           W == wire[Peer(e)]
           V == SubSeq(W, k + 1, Len(W))
           S == SentBy(Peer(e))
<1>1. PICK left \in Nat : /\ Track(len, F, V, n, At(e) + k, left)
                          /\ link => left = conn[Peer(e)].iov
  BY RecvStream
<1>2. /\ W \in Seq(BytesOf(Peer(e))) /\ At(e) \in Nat
      /\ \A l \in Nat : Trackable(len, F, S, n, At(e), l)
      /\ At(e) > 0 \/ Len(W) > 0 => n < Len(F)
  BY MessageNow
<1>3. V \in Seq(BytesOf(Peer(e))) /\ n < Len(F) /\ k \in Nat
  <2> HIDE DEF W, n, F
  <2>1. k \in 1 .. Len(W)
    BY DEF W
  <2> QED
    BY <1>2, <2>1, SubSeqProperties
<1> HIDE DEF V, W, n, F, S
<1>4. Trackable(len, F, S, n, At(e) + k, left)
  <2>1. Trackable(len, F, S, n, At(e), left)
    BY <1>2
  <2>2. At(e) + k \in Nat
    BY <1>2, <1>3
  <2> QED
    BY <2>1, <2>2 DEF Trackable
<1>5. At(e) + k = HeaderLen + len[F[n + 1][2]]
  BY DEF F, n
<1>6. Track(len, F, V, n + 1, 0, left)
  BY <1>1, <1>3, <1>4, <1>5, TrackNext
<1> QED
  BY <1>1, <1>6 DEF V, W, n, F

\* What follows the header of a message.
WholeBody(m) == [j \in 1 .. len[m[2]] |-> <<m, HeaderLen + j>>]

\* A step of the handler of an end that sends no answer, or a new one.
Answers(e, d) ==
  \/ /\ filled' = filled
     /\ d.iov = conn[e].iov /\ d.total_send_len = conn[e].total_send_len
     /\ d.send_message = conn[e].send_message
  \/ \E q \in SentBy(e) : /\ filled' = [filled EXCEPT ![e] = Append(@, q)]
                          /\ d.iov = Size(q) /\ d.send_message = q

\* A message is complete and given to the handler, which may answer it.
LEMMA HandledFrame ==
  ASSUME ConnInv, FrameInv, NEW e \in Ends, pc[Loop(e)] \in {"kMsgHeader", "kBody"},
         NEW k \in 1 .. Len(wire[Peer(e)]),
         wire' = [wire EXCEPT ![Peer(e)] = SubSeq(@, k + 1, Len(@))],
         NEW d, conn' = [conn EXCEPT ![e] = d],
         NEW x, pc' = [pc EXCEPT ![Loop(e)] = x], x \in {"reply", "lock", "tail"},
         len' = len, link' = link,
         NEW m, m = filled[Peer(e)][Len(handled[e]) + 1], At(e) + k = HeaderLen + len[m[2]],
         NEW r \in Handled(e), handled' = [handled EXCEPT ![e] = Append(@, r)],
         r.msg = m, r.body = WholeBody(m), Answers(e, d),
         d.recv_state = "kMsgHeader", d.recv_len = 0, d.state = conn[e].state
  PROVE  FrameInv'
<1>1. PICK g \in Ends : g = Peer(e) /\ e = Peer(g) /\ g # e /\ \A f \in Ends : f = e \/ f = g
  BY EndFacts
<1>2. /\ SendEnd(e) /\ conn \in [Ends -> ConnType("client") \cup ConnType("server")]
      /\ pc \in [Threads -> LoopPc \cup {"send"}] /\ Loop(e) \in Threads /\ Loop(e) \in ThreadsOf(e)
      /\ DOMAIN wire = Ends
  BY EndNow DEF ConnInv, ConnTypeOK
<1>3. conn'[e] = d /\ conn'[g] = conn[g]
  BY <1>1, <1>2
<1>4. wire'[e] = wire[e] /\ wire'[g] = SubSeq(wire[g], k + 1, Len(wire[g]))
  BY <1>1, <1>2
<1>5. Loop(g) \in Threads /\ Loop(e) # Loop(g)
  BY <1>1, EndFacts DEF ThreadsOf
<1>6. pc'[Loop(e)] = x /\ pc'[Loop(g)] = pc[Loop(g)]
  BY <1>2, <1>5
<1>7. /\ DOMAIN filled = Ends /\ DOMAIN handled = Ends
      /\ filled[e] \in Seq(SentBy(e)) /\ filled[g] \in Seq(SentBy(g))
      /\ handled[e] \in Seq(Handled(e)) /\ handled[g] \in Seq(Handled(g))
  BY <1>1 DEF FrameInv, FrameType
<1>8. handled'[e] = Append(handled[e], r) /\ handled'[g] = handled[g] /\ DOMAIN handled' = Ends
  BY <1>1, <1>7
<1>9. /\ DOMAIN filled' = Ends /\ filled'[g] = filled[g]
      /\ \/ filled'[e] = filled[e] /\ d.iov = conn[e].iov
            /\ d.total_send_len = conn[e].total_send_len /\ d.send_message = conn[e].send_message
         \/ \E q \in SentBy(e) : /\ filled'[e] = Append(filled[e], q)
                                 /\ d.iov = Size(q) /\ d.send_message = q
  BY <1>1, <1>7 DEF Answers
<1>10. Len(handled[e]) < Len(filled[g])
  <2>1. Len(wire[g]) > 0
    BY <1>1, MessageNow
  <2> QED
    BY <1>1, <2>1, MessageNow
<1>11. FrameType'
  <2>1. filled'[e] \in Seq(SentBy(e))
    <3>1. \A q \in SentBy(e) : Append(filled[e], q) \in Seq(SentBy(e))
      BY <1>7
    <3> QED
      BY <1>7, <1>9, <3>1
  <2>2. handled'[e] \in Seq(Handled(e))
    BY <1>7, <1>8
  <2> QED
    BY <1>1, <1>7, <1>8, <1>9, <2>1, <2>2 DEF FrameType
<1>12. FramesExact'
  <2>1. Frames(len, filled[g], handled[e]) /\ Frames(len, filled[e], handled[g])
    BY <1>1, FramesSplit DEF FrameInv
  <2>2. Frames(len, filled[g], Append(handled[e], r))
    BY <1>1, <1>7, <1>10, <2>1, FramesHandle DEF WholeBody
  <2>3. Frames(len, filled'[e], handled[g])
    <3>1. \A q \in SentBy(e) : Frames(len, Append(filled[e], q), handled[g])
      BY <1>7, <2>1, FramesFill
    <3> QED
      BY <1>9, <2>1, <3>1
  <2>4. \A f \in Ends : Frames(len, filled'[Peer(f)], handled'[f])
    BY <1>1, <1>8, <1>9, <2>2, <2>3
  <2> QED
    BY <2>4 DEF Frames, FramesExact
<1>13. link => conn[e].state # "kDisconnecting" /\ conn[e].iov = 0
  <2>1. conn[e].iov \in Nat
    BY ReceivingFacts DEF ConnType
  <2> QED
    BY <1>2, <2>1, ReceivingFacts DEF SendEnd
<1>14. SendEnd(g)'
  BY <1>1, <1>3, <1>6, <1>9 DEF FrameInv, SendEnd
<1>15. SendEnd(e)'
  <2>1. link => d.state # "kDisconnecting"
    BY <1>13
  <2>2. CASE /\ filled'[e] = filled[e]
             /\ d.total_send_len = conn[e].total_send_len /\ d.send_message = conn[e].send_message
    BY <1>2, <1>3, <2>1, <2>2 DEF SendEnd
  <2>3. ASSUME NEW q \in SentBy(e), filled'[e] = Append(filled[e], q), d.send_message = q
        PROVE  SendEnd(e)'
    <3>1. /\ Len(Append(filled[e], q)) = Len(filled[e]) + 1
          /\ Append(filled[e], q)[Len(filled[e]) + 1] = q
          /\ Len(filled[e]) \in Nat
      BY <1>7, <2>3, AppendProperties
    <3> QED
      BY <1>3, <2>1, <2>3, <3>1 DEF SendEnd
  <2> QED
    BY <1>9, <2>2, <2>3
<1>16. FrameEnd(g)'
  <2>1. CASE filled'[e] = filled[e] /\ d.iov = conn[e].iov
    <3>1. Calm(g)
      BY <1>1, <1>3, <1>6, <1>8, <2>1, CalmOther
    <3> QED
      BY <1>1, <1>3, <1>4, <1>8, <2>1, <3>1, CalmEnd
  <2>2. ASSUME NEW q \in SentBy(e), filled'[e] = Append(filled[e], q), d.iov = Size(q)
        PROVE  FrameEnd(g)'
    <3>1. Dead(g) => Dead(g)'
      BY <1>3, <1>6 DEF Dead
    <3>2. ASSUME ~ Dead(g) PROVE Stream(g)' /\ Parsed(g)'
      BY <1>1, <1>3, <1>4, <1>6, <1>8, <1>13, <2>2, <3>2, FillFrame
    <3> QED
      BY <3>1, <3>2 DEF FrameEnd
  <2> QED
    BY <1>9, <2>1, <2>2
<1>17. FrameEnd(e)'
  <2>1. At(e)' = 0
    BY <1>3, <1>6 DEF At
  <2>2. Parsed(e)'
    BY <1>3, <2>1 DEF Parsed
  <2>3. Len(handled'[e]) = Len(handled[e]) + 1
    BY <1>7, <1>8
  <2>4. PICK left \in Nat :
          /\ Track(len, filled[Peer(e)],
                   SubSeq(wire[Peer(e)], k + 1, Len(wire[Peer(e)])),
                   Len(handled[e]) + 1, 0, left)
          /\ link => left = conn[Peer(e)].iov
    BY HandledStream
  <2>5. Stream(e)'
    BY <1>1, <1>3, <1>4, <1>9, <2>1, <2>3, <2>4 DEF Stream
  <2> QED
    BY <2>2, <2>5 DEF FrameEnd
<1> QED
  BY <1>1, <1>11, <1>12, <1>14, <1>15, <1>16, <1>17 DEF FrameInv

LEMMA SequenceAsFunction ==
  ASSUME NEW T, NEW s \in Seq(T)
  PROVE  s = [j \in DOMAIN s |-> s[j]]
  OBVIOUS

LEMMA RecvBodyFrame ==
  ASSUME ConnInv, FrameInv, NEW e \in Ends, NEW k \in 1 .. Capacity, RecvBody(e, k)
  PROVE  FrameInv'
<1> DEFINE c == conn[e]
           b == Len(c.body)
           n == Len(handled[e])
           m == filled[Peer(e)][n + 1]
           z == len[m[2]]
<1>1. /\ pc[Loop(e)] = "kBody" /\ k \in 1 .. Len(wire[Peer(e)])
      /\ wire' = [wire EXCEPT ![Peer(e)] = SubSeq(@, k + 1, Len(@))]
      /\ len' = len /\ link' = link
  BY DEF RecvBody
<1>2. c \in ConnType(e) /\ c.recv_state = "kBody" /\ Len(c.header) >= 1
  BY <1>1, ReceivingFacts
<1>3. /\ b \in Nat /\ c.recvLen \in Nat /\ c.total_recv_len \in Int
      /\ c.header \in Seq(BytesOf(Peer(e))) /\ c.body \in Seq(BytesOf(Peer(e)))
  BY <1>2 DEF ConnType
<1>4. k \in Nat /\ k >= 1 /\ HeaderLen \in Nat
  BY ConnectionAssumption DEF ConnectionAssumption
<1>5. At(e) = HeaderLen + b
  BY <1>2 DEF At
<1>6. Parsed(e) /\ z \in Nat /\ m \in SentBy(Peer(e))
  <2>1. Len(wire[Peer(e)]) > 0
    BY <1>1, <1>4, MessageNow
  <2> QED
    BY <1>1, <2>1, MessageNow
<1>7. /\ c.header[1] = <<m, 1>>
      /\ \A i \in 1 .. b : c.body[i] = <<m, HeaderLen + i>>
      /\ c.total_recv_len + b = z + c.recvLen
  BY <1>1, <1>2, <1>6 DEF Parsed
<1>8. /\ conn \in [Ends -> ConnType("client") \cup ConnType("server")]
      /\ pc \in [Threads -> LoopPc \cup {"send"}] /\ Loop(e) \in Threads
  BY EndNow
<1>9. m = filled[Peer(e)][Len(handled[e]) + 1] /\ z = len[m[2]] /\ b = Len(c.body)
  OBVIOUS
<1> HIDE DEF b, m, z, n
<1>10. PICK got \in ConnType(e) :
         /\ got.state = c.state /\ got.closed = c.closed /\ got.iov = c.iov
         /\ got.send_message = c.send_message /\ got.total_send_len = c.total_send_len
         /\ got.recv_state = "kBody" /\ got.recv_len = 0 /\ got.header = c.header
         /\ got.total_recv_len = c.total_recv_len
         /\ got.recvLen = c.recvLen + k /\ got.recvLen <= c.total_recv_len
         /\ Len(got.body) = b + k
         /\ \A i \in 1 .. b : got.body[i] = c.body[i]
         /\ \A i \in 1 .. k : got.body[b + i] = wire[Peer(e)][i]
         /\ \/ got.recvLen = c.total_recv_len /\ HandleMessage(e, got)
            \/ /\ got.recvLen # c.total_recv_len /\ conn' = [conn EXCEPT ![e] = got]
               /\ pc' = pc /\ filled' = filled /\ handled' = handled
  BY BodyGot DEF b
<1>11. /\ got.state = c.state /\ got.iov = c.iov
       /\ got.send_message = c.send_message /\ got.total_send_len = c.total_send_len
  BY <1>10
<1>12. b + k <= z /\ (got.recvLen = c.total_recv_len => b + k = z)
  BY <1>3, <1>4, <1>6, <1>7, <1>10, SMTT(40)
<1>13. \A i \in 1 .. k : wire[Peer(e)][i] = <<m, HeaderLen + (b + i)>>
  <2>1. At(e) + k <= HeaderLen + len[m[2]]
    <3>1. (HeaderLen + b) + k <= HeaderLen + z
      BY <1>3, <1>4, <1>6, <1>12
    <3> QED
      BY <1>5, <1>9, <3>1
  <2>2. \A i \in 1 .. k : wire[Peer(e)][i] = <<m, At(e) + i>>
    BY <1>1, <1>9, <2>1, RecvBytes
  <2>3. \A i \in 1 .. k : At(e) + i = HeaderLen + (b + i)
    BY <1>3, <1>4, <1>5
  <2> QED
    BY <2>2, <2>3
<1>14. \A i \in 1 .. b + k : got.body[i] = <<m, HeaderLen + i>>
  <2> SUFFICES ASSUME NEW i \in 1 .. b + k PROVE got.body[i] = <<m, HeaderLen + i>>
    OBVIOUS
  <2>1. CASE i <= b
    <3>1. i \in 1 .. b
      BY <1>3, <1>4, <2>1
    <3>2. got.body[i] = c.body[i]
      BY <1>10, <3>1
    <3> QED
      BY <1>7, <3>1, <3>2
  <2>2. CASE ~ (i <= b)
    <3>1. PICK j \in 1 .. k : i = b + j
      <4>1. i - b \in 1 .. k /\ i = b + (i - b)
        BY <1>3, <1>4, <2>2
      <4> QED
        BY <4>1
    <3> QED
      BY <1>10, <1>13, <3>1
  <2> QED
    BY <2>1, <2>2
<1>15. CASE /\ got.recvLen # c.total_recv_len /\ conn' = [conn EXCEPT ![e] = got]
            /\ pc' = pc /\ filled' = filled /\ handled' = handled
  <2>1. conn'[e] = got /\ pc'[Loop(e)] = "kBody"
    BY <1>1, <1>8, <1>15
  <2>2. pc' = [pc EXCEPT ![Loop(e)] = "kBody"]
    BY <1>1, <1>8, <1>15
  <2>3. At(e)' = At(e) + k
    <3>1. HeaderLen + Len(got.body) = At(e) + k
      BY <1>3, <1>4, <1>5, <1>10
    <3> QED
      BY <1>10, <2>1, <3>1 DEF At
  <2>4. Parsed(e)'
    <3>1. got.total_recv_len + Len(got.body) = z + got.recvLen
      <4>1. \A p \in Int, y, u \in Nat : p + b = y + u => p + (b + k) = y + (u + k)
        BY <1>3, <1>4
      <4>2. c.total_recv_len + (b + k) = z + (c.recvLen + k)
        BY <1>3, <1>6, <1>7, <4>1
      <4> QED
        BY <1>10, <4>2
    <3>2. got.header[1] = <<m, 1>> /\ \A i \in 1 .. Len(got.body) : got.body[i] = <<m, HeaderLen + i>>
      BY <1>7, <1>10, <1>14
    <3>3. got.recv_state = "kBody" /\ filled' = filled /\ handled' = handled
      BY <1>10, <1>15
    <3> QED
      BY <1>1, <1>9, <2>1, <3>1, <3>2, <3>3 DEF Parsed
  <2>5. conn' = [conn EXCEPT ![e] = got] /\ filled' = filled /\ handled' = handled
    BY <1>15
  <2> QED
    BY <1>1, <1>11, <2>2, <2>3, <2>4, <2>5, ReadFrame
<1>16. CASE got.recvLen = c.total_recv_len /\ HandleMessage(e, got)
  <2> DEFINE w == got.header[1][1]
             r == [msg |-> w, body |-> got.body]
             done == [got EXCEPT !.recv_state = "kMsgHeader", !.header = <<>>, !.body = <<>>,
                                 !.recvLen = 0, !.total_recv_len = 0]
  <2>1. w = m
    BY <1>7, <1>10
  <2>2. got.body \in Seq(BytesOf(Peer(e))) /\ got.count \in Nat
    BY DEF ConnType
  <2>3. /\ r \in Handled(e) /\ r.msg = m
        /\ r.body = WholeBody(m)
    <3>1. DOMAIN got.body = 1 .. z
      BY <1>10, <1>12, <1>16, <2>2
    <3>2. got.body = [j \in 1 .. z |-> <<m, HeaderLen + j>>]
      <4>1. got.body = [j \in 1 .. z |-> got.body[j]]
        BY <2>2, <3>1, SequenceAsFunction
      <4>2. \A j \in 1 .. z : got.body[j] = <<m, HeaderLen + j>>
        BY <1>12, <1>14, <1>16
      <4> HIDE DEF m, z
      <4> QED
        BY <4>1, <4>2
    <3> QED
      BY <1>6, <1>9, <2>1, <2>2, <3>2 DEF Handled, WholeBody
  <2>4. handled' = [handled EXCEPT ![e] = Append(@, r)]
    BY <1>16 DEF HandleMessage
  <2>5. At(e) + k = HeaderLen + len[m[2]]
    BY <1>3, <1>4, <1>5, <1>6, <1>9, <1>12, <1>16, SMTT(40)
  <2>6. done \in ConnType(e)
    <3> DEFINE read == [got EXCEPT !.recv_state = "kMsgHeader", !.header = <<>>]
    <3>1. <<>> \in Seq(BytesOf(Peer(e)))
      OBVIOUS
    <3>2. read \in ConnType(e)
      BY <3>1 DEF ConnType
    <3>3. done = [read EXCEPT !.body = <<>>, !.recvLen = 0, !.total_recv_len = 0]
      BY DEF ConnType
    <3> HIDE DEF read, done
    <3>4. PICK y \in Int : y = 0
      OBVIOUS
    <3>5. done = [read EXCEPT !.body = <<>>, !.recvLen = 0, !.total_recv_len = y]
      BY <3>3, <3>4
    <3> QED
      BY <3>1, <3>2, <3>5 DEF ConnType
  <2>7. /\ done.state = got.state /\ done.iov = got.iov
        /\ done.send_message = got.send_message /\ done.total_send_len = got.total_send_len
        /\ done.recv_state = "kMsgHeader" /\ done.recv_len = got.recv_len
    BY DEF ConnType
  <2>8. done.recv_len = 0
    BY <1>10, <2>7
  <2>9. CASE w[1] = "request"
    <3> DEFINE q == Reply(w[2])
               d == [done EXCEPT !.send_message = q, !.total_send_len = Size(q),
                                 !.iov = Size(q), !.sendLen = 0]
    <3>1. len \in [Requests -> BodyLens] /\ Peer(e) \in Ends
      BY EndFacts DEF ConnInv, ConnTypeOK
    <3>2. e = "server" /\ w[2] \in Requests
      BY <1>6, <2>1, <2>9, <3>1, MessageFacts DEF Peer, Ends
    <3>3. q \in SentBy(e) /\ Size(q) \in Nat /\ Size(q) > 0
      BY <3>1, <3>2, MessageFacts
    <3>4. /\ conn' = [conn EXCEPT ![e] = EnterSendMessage(FillSendMessage(done, q))]
          /\ pc' = [pc EXCEPT ![Loop(e)] = "reply"]
          /\ filled' = [filled EXCEPT ![e] = Append(@, q)]
      BY <1>16, <2>9 DEF HandleMessage
    <3> HIDE DEF done, w, q, r
    <3>5. EnterSendMessage(FillSendMessage(done, q)) = d
      <4>1. FillSendMessage(done, q).total_send_len # 0
        BY <2>6, <3>3 DEF FillSendMessage, ConnType
      <4>2. EnterSendMessage(FillSendMessage(done, q)) = [FillSendMessage(done, q) EXCEPT !.sendLen = 0]
        BY <4>1 DEF EnterSendMessage
      <4> QED
        BY <2>6, <4>2 DEF FillSendMessage, ConnType
    <3>6. /\ d.state = done.state /\ d.iov = Size(q) /\ d.send_message = q
          /\ d.recv_state = done.recv_state /\ d.recv_len = done.recv_len
      BY <2>6 DEF ConnType
    <3>7. conn' = [conn EXCEPT ![e] = d]
      BY <3>4, <3>5
    <3> HIDE DEF d
    <3>8. /\ d.recv_state = "kMsgHeader" /\ d.recv_len = 0 /\ d.state = conn[e].state
      BY <1>11, <2>7, <2>8, <3>6
    <3>9. Answers(e, d)
      BY <3>3, <3>4, <3>6 DEF Answers
    <3>10. pc' = [pc EXCEPT ![Loop(e)] = "reply"] /\ m = filled[Peer(e)][Len(handled[e]) + 1]
      BY <1>9, <3>4
    <3> QED
      BY <1>1, <2>3, <2>4, <2>5, <3>7, <3>8, <3>9, <3>10, HandledFrame
  <2>10. CASE w[1] # "request"
    <3> DEFINE d == [done EXCEPT !.mutex = Nobody, !.count = @ + 1]
               x == IF done.count + 1 < MaxRecvCount THEN "lock" ELSE "tail"
    <3>1. NextMessage(Loop(e), done) /\ EndOf(Loop(e)) = e /\ filled' = filled
      BY <1>16, <2>10, EndFacts DEF HandleMessage
    <3> HIDE DEF done, w, r
    <3>2. conn' = [conn EXCEPT ![e] = d] /\ pc' = [pc EXCEPT ![Loop(e)] = x]
      BY <3>1 DEF NextMessage
    <3>3. /\ d.state = done.state /\ d.iov = done.iov
          /\ d.send_message = done.send_message /\ d.total_send_len = done.total_send_len
          /\ d.recv_state = done.recv_state /\ d.recv_len = done.recv_len
      BY <2>6 DEF ConnType
    <3>4. x \in {"reply", "lock", "tail"}
      OBVIOUS
    <3> HIDE DEF d, x
    <3>5. /\ d.recv_state = "kMsgHeader" /\ d.recv_len = 0 /\ d.state = conn[e].state
          /\ d.iov = conn[e].iov /\ d.total_send_len = conn[e].total_send_len
          /\ d.send_message = conn[e].send_message
      BY <1>11, <2>7, <2>8, <3>3
    <3>6. Answers(e, d)
      BY <3>1, <3>5 DEF Answers
    <3>7. m = filled[Peer(e)][Len(handled[e]) + 1]
      BY <1>9
    <3> QED
      BY <1>1, <2>3, <2>4, <2>5, <3>2, <3>4, <3>5, <3>6, <3>7, HandledFrame
  <2> QED
    BY <2>9, <2>10
<1> QED
  BY <1>10, <1>15, <1>16

-----------------------------------------------------------------------------

LEMMA FrameInit == Init => FrameInv
<1> SUFFICES ASSUME Init PROVE FrameInv
  OBVIOUS
<1>1. /\ filled = [e \in Ends |-> <<>>] /\ handled = [e \in Ends |-> <<>>]
      /\ wire = [e \in Ends |-> <<>>] /\ conn = [e \in Ends |-> NewConnection] /\ link = TRUE
      /\ pc = [t \in Threads |-> "idle"]
  BY DEF Init
<1>2. FrameType
  BY <1>1 DEF FrameType
<1>3. FramesExact
  <2>1. \A e \in Ends : Peer(e) \in Ends
    BY EndFacts
  <2> QED
    BY <1>1, <2>1 DEF FramesExact
<1>4. ASSUME NEW e \in Ends PROVE Stream(e) /\ Parsed(e)
  <2>1. /\ filled[Peer(e)] = <<>> /\ handled[e] = <<>> /\ wire[Peer(e)] = <<>>
        /\ conn[Peer(e)] = NewConnection /\ conn[e] = NewConnection /\ pc[Loop(e)] = "idle"
    BY <1>1, EndFacts
  <2>2. At(e) = 0
    BY <2>1 DEF At, NewConnection
  <2>3. Track(len, <<>>, <<>>, 0, 0, 0)
    <3> DEFINE base == [i \in 1 .. 1 |-> 0]
    <3>1. base \in [1 .. Len(<<>>) + 1 -> Int] /\ base[1] = 0 /\ base[0 + 1] = 0
          /\ base[Len(<<>>) + 1] = 0
      OBVIOUS
    <3>2. Placed(len, <<>>, base)
      BY DEF Placed
    <3> HIDE DEF base
    <3>3. base[0 + 1] + 0 + Len(<<>>) + 0 = base[Len(<<>>) + 1]
      BY <3>1
    <3>4. \A i \in 1 .. Len(<<>>), m \in 1 .. Len(<<>>), p \in Nat \ {0} :
            base[m] + p = base[0 + 1] + 0 + i /\ p <= HeaderLen + len[<<>>[m][2]]
              => <<>>[i] = <<<<>>[m], p>>
      OBVIOUS
    <3> QED
      BY <3>1, <3>2, <3>3, <3>4 DEF Track
  <2>4. Stream(e)
    BY <2>1, <2>2, <2>3 DEF Stream, NewConnection
  <2>5. Parsed(e)
    BY <2>1, <2>2 DEF Parsed, NewConnection
  <2> QED
    BY <2>4, <2>5
<1>5. \A e \in Ends : SendEnd(e)
  BY <1>1 DEF SendEnd, NewConnection
<1> QED
  BY <1>2, <1>3, <1>4, <1>5 DEF FrameInv, FrameEnd

LEMMA FrameStep == ConnInv /\ FrameInv /\ [Next]_vars => FrameInv'
<1> SUFFICES ASSUME ConnInv, FrameInv, [Next]_vars PROVE FrameInv'
  OBVIOUS
<1>1. CASE UNCHANGED vars
  BY <1>1, StutterFrame
<1>2. ASSUME NEW t \in Senders, NEW r \in Requests, Send(t, r) PROVE FrameInv'
  BY <1>2, SendFrame, SendInv
<1>3. ASSUME NEW t \in Threads, Sendmsg(t) PROVE FrameInv'
  BY <1>3, SendmsgBytesFrame, SendmsgEagainFrame, SendmsgErrorFrame, StutterFrame
  DEF Sendmsg, SendmsgNothing
<1>4. ASSUME NEW e \in Ends, LoopStep(e) PROVE FrameInv'
  BY <1>4, HandleWritableFrame, HandleReadableFrame, LockReceiveFrame, RecvHeaderFrame,
     RecvBodyFrame, RecvHeaderEagainFrame, RecvErrorFrame, HandlerTailFrame DEF LoopStep
<1>5. ASSUME NEW e \in Ends, RecvIntr(e) PROVE FrameInv'
  BY <1>5, RecvIntrFrame
<1>6. CASE LinkFails
  BY <1>6, LinkFailsFrame
<1> QED
  BY <1>1, <1>2, <1>3, <1>4, <1>5, <1>6 DEF Next

\* However sendmsg and recv cut the stream into pieces, and whatever ends a
\* read or a write early, ParseMessage hands over the messages FillSendMessage
\* began, in that order, each once and with its own bytes: for any lengths,
\* capacities and number of messages.
THEOREM FramesStayExact == Spec => []FramesExact
<1>1. FrameInv => FramesExact
  BY DEF FrameInv
<1> QED
  BY <1>1, ConnInvariant, FrameInit, FrameStep, PTL DEF Spec
=============================================================================
