------------------------------ MODULE TcpClient ------------------------------
(***************************************************************************)
(* TCPClient::ReceiveSync (net/src/tcp_client.cc): a request and its reply *)
(* matched by nothing but the order of events.  The calling thread holds   *)
(* the client's mutex_ while it sends, which takes the connection's        *)
(* mutex_; the loop thread holds the connection's mutex_ while the message *)
(* handler waits for received_message_ to be free and for the client's     *)
(* mutex_.  The server answers every request it gets, in order and in its  *)
(* own time.  CallNumbers are numbered by the requests sent.                     *)
(***************************************************************************)
EXTENDS Integers, Sequences

CONSTANTS
  Callers,      \* threads that call ReceiveSync
  MaxRequests,  \* bound on the requests sent
  MaxTimeouts   \* bound on the calls that give up

ASSUME ClientAssumption == {MaxRequests, MaxTimeouts} \subseteq Nat

VARIABLES
  received_message_,  \* number of the reply stored, or NoMessage
  mutex,        \* holder of TCPClient::mutex_
  connection_mutex,   \* holder of the connection's mutex_
  cpc,          \* what each caller and the loop thread do
  call,         \* number of the request each caller sent last
  reading,      \* the reply the loop thread has parsed
  requests,     \* requests on their way to the server
  replies,      \* replies on their way to the client
  sent,         \* requests sent so far
  timeouts,     \* history: calls that gave up
  answer        \* history: reply returned by each call

clientVars == <<received_message_, mutex, connection_mutex, cpc, call, reading, requests, replies,
                sent, timeouts, answer>>

Loop        == <<"loop">>
NoHolder    == <<"nobody">>
NoMessage   == 0
CallNumbers == 1 .. MaxRequests

ASSUME ClientNamesAssumption == Callers \cap {Loop, NoHolder} = {}

\* The message of the previous call stays where it was.
BeginMutant(c) ==
  /\ cpc[c] = "idle"
  /\ mutex = NoHolder
  /\ sent < MaxRequests
  /\ mutex' = c
  /\ cpc' = [cpc EXCEPT ![c] = "send"]
  /\ UNCHANGED <<received_message_, connection_mutex, call, reading, requests, replies, sent,
                 timeouts, answer>>

\* ReceiveSync up to its Send: lock, forget any message received before.
Begin(c) ==
  /\ cpc[c] = "idle"
  /\ mutex = NoHolder
  /\ sent < MaxRequests
  /\ mutex' = c
  /\ received_message_' = NoMessage
  /\ cpc' = [cpc EXCEPT ![c] = "send"]
  /\ UNCHANGED <<connection_mutex, call, reading, requests, replies, sent, timeouts, answer>>

\* Waits without letting go of the client's mutex_.
SendRequestHoldsLock(c) ==
  /\ cpc[c] = "send"
  /\ connection_mutex = NoHolder
  /\ requests' = Append(requests, sent + 1)
  /\ sent' = sent + 1
  /\ call' = [call EXCEPT ![c] = sent + 1]
  /\ cpc' = [cpc EXCEPT ![c] = "wait"]
  /\ UNCHANGED <<received_message_, mutex, connection_mutex, reading, replies, timeouts, answer>>

\* Sends the request a second time.
SendRequestTwice(c) ==
  /\ cpc[c] = "send"
  /\ connection_mutex = NoHolder
  /\ requests' = requests \o <<sent + 1, sent + 1>>
  /\ sent' = sent + 1
  /\ call' = [call EXCEPT ![c] = sent + 1]
  /\ cpc' = [cpc EXCEPT ![c] = "wait"]
  /\ mutex' = NoHolder
  /\ UNCHANGED <<received_message_, connection_mutex, reading, replies, timeouts, answer>>

\* Send(sync) takes and leaves the connection's mutex_; the wait on the
\* condition variable lets go of the client's.
SendRequest(c) ==
  /\ cpc[c] = "send"
  /\ connection_mutex = NoHolder
  /\ requests' = Append(requests, sent + 1)
  /\ sent' = sent + 1
  /\ call' = [call EXCEPT ![c] = sent + 1]
  /\ cpc' = [cpc EXCEPT ![c] = "wait"]
  /\ mutex' = NoHolder
  /\ UNCHANGED <<received_message_, connection_mutex, reading, replies, timeouts, answer>>

\* The connection is gone: ReceiveSync returns NULL_MSG.
SendFails(c) ==
  /\ cpc[c] = "send"
  /\ connection_mutex = NoHolder
  /\ mutex' = NoHolder
  /\ cpc' = [cpc EXCEPT ![c] = "idle"]
  /\ UNCHANGED <<received_message_, connection_mutex, call, reading, requests, replies, sent,
                 timeouts, answer>>

\* The wait ends with a message, which is returned and stays stored.
Return(c) ==
  /\ cpc[c] = "wait"
  /\ mutex = NoHolder
  /\ received_message_ # NoMessage
  /\ answer' = [answer EXCEPT ![call[c]] = received_message_]
  /\ cpc' = [cpc EXCEPT ![c] = "idle"]
  /\ UNCHANGED <<received_message_, mutex, connection_mutex, call, reading, requests, replies,
                 sent, timeouts>>

\* wait_for runs out with no message there.
Timeout(c) ==
  /\ cpc[c] = "wait"
  /\ mutex = NoHolder
  /\ received_message_ = NoMessage
  /\ timeouts < MaxTimeouts
  /\ timeouts' = timeouts + 1
  /\ cpc' = [cpc EXCEPT ![c] = "idle"]
  /\ UNCHANGED <<received_message_, mutex, connection_mutex, call, reading, requests, replies,
                 sent, answer>>

\* TCPComm::ReceiveMessage: lock the connection and parse the next reply.
ReadReply ==
  /\ cpc[Loop] = "idle"
  /\ connection_mutex = NoHolder
  /\ replies # <<>>
  /\ connection_mutex' = Loop
  /\ reading' = Head(replies)
  /\ replies' = Tail(replies)
  /\ cpc' = [cpc EXCEPT ![Loop] = "spin"]
  /\ UNCHANGED <<received_message_, mutex, call, requests, sent, timeouts, answer>>

\* The handler's loop finds the previous message gone.
SlotFree ==
  /\ cpc[Loop] = "spin"
  /\ received_message_ = NoMessage
  /\ cpc' = [cpc EXCEPT ![Loop] = "lock"]
  /\ UNCHANGED <<received_message_, mutex, connection_mutex, call, reading, requests, replies,
                 sent, timeouts, answer>>

\* The handler stores the message, and the reader leaves the connection.
Store ==
  /\ cpc[Loop] = "lock"
  /\ mutex = NoHolder
  /\ received_message_' = reading
  /\ reading' = NoMessage
  /\ connection_mutex' = NoHolder
  /\ cpc' = [cpc EXCEPT ![Loop] = "idle"]
  /\ UNCHANGED <<mutex, call, requests, replies, sent, timeouts, answer>>

\* The server, external: answers the oldest request.
ServerReplies ==
  /\ requests # <<>>
  /\ replies' = Append(replies, Head(requests))
  /\ requests' = Tail(requests)
  /\ UNCHANGED <<received_message_, mutex, connection_mutex, cpc, call, reading, sent,
                 timeouts, answer>>

ClientInit ==
  /\ received_message_ = NoMessage
  /\ mutex = NoHolder /\ connection_mutex = NoHolder
  /\ cpc = [t \in Callers \cup {Loop} |-> "idle"]
  /\ call = [c \in Callers |-> 0]
  /\ reading = NoMessage
  /\ requests = <<>> /\ replies = <<>>
  /\ sent = 0 /\ timeouts = 0
  /\ answer = [i \in CallNumbers |-> NoMessage]

CallerStep(c) == SendRequest(c) \/ SendFails(c) \/ Return(c) \/ Timeout(c)
LoopStep == ReadReply \/ SlotFree \/ Store

ClientNext ==
  \/ \E c \in Callers : Begin(c) \/ CallerStep(c)
  \/ LoopStep
  \/ ServerReplies

\* Threads that can go on do, and the server answers; nobody has to call.
ClientFairness ==
  /\ \A c \in Callers : WF_clientVars(CallerStep(c))
  /\ WF_clientVars(LoopStep)
  /\ WF_clientVars(ServerReplies)

ClientSpec == ClientInit /\ [][ClientNext]_clientVars /\ ClientFairness
-----------------------------------------------------------------------------
(* Correctness.                                                            *)

\* Every variable has its type.
ClientTypeOK ==
  /\ received_message_ \in CallNumbers \cup {NoMessage}
  /\ reading \in CallNumbers \cup {NoMessage}
  /\ mutex \in Callers \cup {NoHolder}
  /\ connection_mutex \in {Loop, NoHolder}
  /\ cpc \in [Callers \cup {Loop} -> {"idle", "send", "wait", "spin", "lock"}]
  /\ call \in [Callers -> CallNumbers \cup {0}]
  /\ sent \in 0 .. MaxRequests
  /\ timeouts \in 0 .. MaxTimeouts

\* The caller holds the client's mutex_ and waits for the connection's, the
\* handler holds the connection's and waits for the client's.
Deadlocked ==
  /\ cpc[Loop] = "lock" /\ mutex # NoHolder
  /\ \E c \in Callers : cpc[c] = "send" /\ connection_mutex = Loop

\* A reply that is not the call's own is late by no more calls than have given
\* up before: with no timeout ReceiveSync returns the reply to its request.  And
\* no reply is returned to two calls (the caller deletes what it gets).
AnswerLag ==
  /\ \A i \in CallNumbers : answer[i] # NoMessage
       => answer[i] <= i /\ i - answer[i] <= timeouts
  /\ \A i, j \in CallNumbers : answer[i] = answer[j] /\ answer[i] # NoMessage => i = j

\* The lock order of ReceiveSync and of the handler is opposite, but they can
\* block each other only when replies outnumber the calls that waited for one.
NoDeadlockWithoutTimeout == Deadlocked => timeouts > 0

\* A call ends, by a reply, a failed send or its timeout, unless the two threads
\* have blocked each other.
CallReturns ==
  \A c \in Callers : cpc[c] # "idle" ~> cpc[c] = "idle" \/ Deadlocked
=============================================================================
