---------------------------- MODULE TaskExecutor ----------------------------
(***************************************************************************)
(* What EventLoop::AddTask promises ("These tasks are executed             *)
(* asynchronously", net/include/event_loop.h): tasks are accepted in some  *)
(* order, each is executed exactly once, in the order of acceptance, and   *)
(* none is dropped while the executor is open.                             *)
(***************************************************************************)
EXTENDS Sequences

CONSTANT Tasks

VARIABLES
  pending,  \* tasks accepted and not yet executed, oldest first
  ran,      \* tasks executed, oldest first
  open      \* FALSE once the executor is being shut down

execVars == <<pending, ran, open>>

Init ==
  /\ pending = <<>>
  /\ ran = <<>>
  /\ open = TRUE

Accept(t) ==
  /\ pending' = Append(pending, t)
  /\ UNCHANGED <<ran, open>>

Execute ==
  /\ pending # <<>>
  /\ ran' = Append(ran, Head(pending))
  /\ pending' = Tail(pending)
  /\ UNCHANGED open

Shutdown ==
  /\ open' = FALSE
  /\ UNCHANGED <<pending, ran>>

Next ==
  \/ \E t \in Tasks : Accept(t)
  \/ Execute
  \/ Shutdown

SafetySpec == Init /\ [][Next]_execVars

\* While the executor stays open it keeps executing what is pending.
Spec == SafetySpec /\ WF_execVars(open /\ Execute)
=============================================================================
