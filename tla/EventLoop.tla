----------------------------- MODULE EventLoop ------------------------------
(***************************************************************************)
(* The task queue of net/src/event_loop.cc and the life of the loop        *)
(* thread: AddTask called by any number of threads, the eventfd that wakes *)
(* epoll_wait, QueueReadyCallback draining the queue, Initialize, Stop and *)
(* Finalize.  Socket events and their deferred deletion are in module      *)
(* EventTable.                                                             *)
(*                                                                         *)
(* A step is one access to shared state.  Each critical section of         *)
(* task_queue_mutex_ is one access (a push or a swap) and so one step; the *)
(* write() that follows AddTask's unlock is a step of its own, and so is   *)
(* the read() that precedes QueueReadyCallback's lock.                     *)
(***************************************************************************)
EXTENDS Integers, Sequences

CONSTANTS
  Producers,   \* threads that call AddTask
  MaxTasks,    \* bound on the number of AddTask calls of one thread
  MayFail      \* pthread_create and the loop's malloc may fail

ASSUME LoopAssumption ==
  /\ MaxTasks \in Nat
  /\ MayFail \in BOOLEAN

VARIABLES
  task_queue,  \* task_queue_
  event_fd,    \* the counter of task_queue_event_fd_
  fd_open,     \* task_queue_event_fd_ # -1
  is_stop,     \* is_stop_
  sem,         \* sem_id_
  ppc,         \* where each producer is: "idle" or "write"
  nadded,      \* AddTask calls each producer has made
  lpc,         \* where the loop thread is
  q,           \* QueueReadyCallback's local queue
  opc,         \* where the owner (Initialize, Finalize) is
  ran          \* history: the tasks executed, in order

vars == <<task_queue, event_fd, fd_open, is_stop, sem, ppc, nadded, lpc, q,
          opc, ran>>

\* A task, identified by its AddTask call.
Task == Producers \X (1 .. MaxTasks)

LoopPc  == {"none", "start", "test", "wait", "read", "swap", "run", "exit",
            "done"}
OwnerPc == {"new", "create", "sem_wait", "up", "stop_set", "stop_write",
            "join", "release", "gone"}

\* Every variable has its type.
TypeOK ==
  /\ task_queue \in Seq(Task)
  /\ event_fd \in Nat
  /\ fd_open \in BOOLEAN
  /\ is_stop \in BOOLEAN
  /\ sem \in 0 .. 1
  /\ ppc \in [Producers -> {"idle", "write"}]
  /\ nadded \in [Producers -> 0 .. MaxTasks]
  /\ lpc \in LoopPc
  /\ q \in Seq(Task)
  /\ opc \in OwnerPc
  /\ ran \in Seq(Task)

Init ==
  /\ task_queue = <<>>
  /\ event_fd = 0
  /\ fd_open = FALSE
  /\ is_stop = FALSE
  /\ sem = 0
  /\ ppc = [p \in Producers |-> "idle"]
  /\ nadded = [p \in Producers |-> 0]
  /\ lpc = "none"
  /\ q = <<>>
  /\ opc = "new"
  /\ ran = <<>>

-----------------------------------------------------------------------------
(* AddTask, by thread p.                                                   *)

\* As if the second task woke the loop, not the first.
AddTaskPushMutant(p) ==
  /\ opc \in {"up", "stop_set", "stop_write", "join"}
  /\ ppc[p] = "idle"
  /\ nadded[p] < MaxTasks
  /\ nadded' = [nadded EXCEPT ![p] = @ + 1]
  /\ task_queue' = Append(task_queue, <<p, nadded[p] + 1>>)
  /\ ppc' = [ppc EXCEPT ![p] = IF Len(task_queue') = 2 THEN "write" ELSE "idle"]
  /\ UNCHANGED <<event_fd, fd_open, is_stop, sem, lpc, q, opc, ran>>

\* The critical section; the returned size decides whether p wakes the loop.
AddTaskPush(p) ==
  /\ opc \in {"up", "stop_set", "stop_write", "join"}
  /\ ppc[p] = "idle"
  /\ nadded[p] < MaxTasks
  /\ nadded' = [nadded EXCEPT ![p] = @ + 1]
  /\ task_queue' = Append(task_queue, <<p, nadded[p] + 1>>)
  /\ ppc' = [ppc EXCEPT ![p] = IF Len(task_queue') = 1 THEN "write" ELSE "idle"]
  /\ UNCHANGED <<event_fd, fd_open, is_stop, sem, lpc, q, opc, ran>>

\* write() to the eventfd; on a closed descriptor it only logs a warning.
AddTaskWrite(p) ==
  /\ ppc[p] = "write"
  /\ ppc' = [ppc EXCEPT ![p] = "idle"]
  /\ event_fd' = IF fd_open THEN event_fd + 1 ELSE event_fd
  /\ UNCHANGED <<task_queue, fd_open, is_stop, sem, nadded, lpc, q, opc, ran>>

-----------------------------------------------------------------------------
(* EventLoopRun on the loop thread.                                        *)

LoopStart ==
  /\ lpc = "start"
  /\ sem' = 1
  /\ lpc' = "test"
  /\ UNCHANGED <<task_queue, event_fd, fd_open, is_stop, ppc, nadded, q, opc,
                 ran>>

\* No memory for the epoll_event array: the thread returns at once.
LoopNoMemory ==
  /\ MayFail
  /\ lpc = "start"
  /\ sem' = 1
  /\ lpc' = "done"
  /\ UNCHANGED <<task_queue, event_fd, fd_open, is_stop, ppc, nadded, q, opc,
                 ran>>

\* while (!is_stop_)
LoopTest ==
  /\ lpc = "test"
  /\ lpc' = IF is_stop THEN "exit" ELSE "wait"
  /\ UNCHANGED <<task_queue, event_fd, fd_open, is_stop, sem, ppc, nadded, q,
                 opc, ran>>

\* epoll_wait(-1) reports the eventfd, level triggered, to QueueReadyCallback.
EpollWaitQueue ==
  /\ lpc = "wait"
  /\ event_fd > 0
  /\ lpc' = "read"
  /\ UNCHANGED <<task_queue, event_fd, fd_open, is_stop, sem, ppc, nadded, q,
                 opc, ran>>

\* epoll_wait returns with only socket events, or with EINTR.
EpollWaitOther ==
  /\ lpc = "wait"
  /\ event_fd = 0
  /\ lpc' = "test"
  /\ UNCHANGED <<task_queue, event_fd, fd_open, is_stop, sem, ppc, nadded, q,
                 opc, ran>>

\* QueueReadyCallback: read() takes the whole counter.
ReadEventFd ==
  /\ lpc = "read"
  /\ event_fd' = 0
  /\ lpc' = IF event_fd > 0 THEN "swap" ELSE "test"
  /\ UNCHANGED <<task_queue, fd_open, is_stop, sem, ppc, nadded, q, opc, ran>>

\* As if the queue were copied, not swapped.
SwapQueueMutant ==
  /\ lpc = "swap"
  /\ q' = task_queue
  /\ lpc' = "run"
  /\ UNCHANGED <<task_queue, event_fd, fd_open, is_stop, sem, ppc, nadded, opc,
                 ran>>

\* Take the whole queue under task_queue_mutex_.
SwapQueue ==
  /\ lpc = "swap"
  /\ q' = task_queue
  /\ task_queue' = <<>>
  /\ lpc' = "run"
  /\ UNCHANGED <<event_fd, fd_open, is_stop, sem, ppc, nadded, opc, ran>>

\* q.front()(); q.pop();
RunTask ==
  /\ lpc = "run"
  /\ q # <<>>
  /\ ran' = Append(ran, Head(q))
  /\ q' = Tail(q)
  /\ UNCHANGED <<task_queue, event_fd, fd_open, is_stop, sem, ppc, nadded, lpc,
                 opc>>

RunDone ==
  /\ lpc = "run"
  /\ q = <<>>
  /\ lpc' = "test"
  /\ UNCHANGED <<task_queue, event_fd, fd_open, is_stop, sem, ppc, nadded, q,
                 opc, ran>>

\* The loop's last act resets is_stop_.
LoopExit ==
  /\ lpc = "exit"
  /\ is_stop' = FALSE
  /\ lpc' = "done"
  /\ UNCHANGED <<task_queue, event_fd, fd_open, sem, ppc, nadded, q, opc, ran>>

-----------------------------------------------------------------------------
(* The owner: Initialize, then Finalize.                                   *)

\* InitResource: epoll and eventfd created, is_stop_ cleared.
InitResource ==
  /\ opc = "new"
  /\ is_stop' = FALSE
  /\ fd_open' = TRUE
  /\ event_fd' = 0
  /\ sem' = 0
  /\ opc' = "create"
  /\ UNCHANGED <<task_queue, ppc, nadded, lpc, q, ran>>

CreateThread ==
  /\ opc = "create"
  /\ lpc' = "start"
  /\ opc' = "sem_wait"
  /\ UNCHANGED <<task_queue, event_fd, fd_open, is_stop, sem, ppc, nadded, q,
                 ran>>

\* pthread_create failed: Finalize with no thread to join.
CreateThreadFails ==
  /\ MayFail
  /\ opc = "create"
  /\ opc' = "release"
  /\ UNCHANGED <<task_queue, event_fd, fd_open, is_stop, sem, ppc, nadded, lpc,
                 q, ran>>

\* As if Initialize did not wait for the loop thread.
SemWaitMutant ==
  /\ opc = "sem_wait"
  /\ sem' = sem - 1
  /\ opc' = "up"
  /\ UNCHANGED <<task_queue, event_fd, fd_open, is_stop, ppc, nadded, lpc, q,
                 ran>>

SemWait ==
  /\ opc = "sem_wait"
  /\ sem > 0
  /\ sem' = sem - 1
  /\ opc' = "up"
  /\ UNCHANGED <<task_queue, event_fd, fd_open, is_stop, ppc, nadded, lpc, q,
                 ran>>

\* Finalize calls Stop, which returns early when is_stop_ is already set.
FinalizeBegin ==
  /\ opc = "up"
  /\ opc' = IF is_stop THEN "join" ELSE "stop_set"
  /\ UNCHANGED <<task_queue, event_fd, fd_open, is_stop, sem, ppc, nadded, lpc,
                 q, ran>>

StopSet ==
  /\ opc = "stop_set"
  /\ is_stop' = TRUE
  /\ opc' = "stop_write"
  /\ UNCHANGED <<task_queue, event_fd, fd_open, sem, ppc, nadded, lpc, q, ran>>

\* As if Stop did not wake the loop.
StopWriteMutant ==
  /\ opc = "stop_write"
  /\ opc' = "join"
  /\ UNCHANGED <<task_queue, event_fd, fd_open, is_stop, sem, ppc, nadded, lpc,
                 q, ran>>

StopWrite ==
  /\ opc = "stop_write"
  /\ event_fd' = event_fd + 1
  /\ opc' = "join"
  /\ UNCHANGED <<task_queue, fd_open, is_stop, sem, ppc, nadded, lpc, q, ran>>

\* pthread_join
Join ==
  /\ opc = "join"
  /\ lpc = "done"
  /\ opc' = "release"
  /\ UNCHANGED <<task_queue, event_fd, fd_open, is_stop, sem, ppc, nadded, lpc,
                 q, ran>>

ReleaseResource ==
  /\ opc = "release"
  /\ fd_open' = FALSE
  /\ opc' = "gone"
  /\ UNCHANGED <<task_queue, event_fd, is_stop, sem, ppc, nadded, lpc, q, ran>>

-----------------------------------------------------------------------------
Loop ==
  \/ LoopStart \/ LoopNoMemory \/ LoopTest \/ EpollWaitQueue
  \/ ReadEventFd \/ SwapQueue \/ RunTask \/ RunDone \/ LoopExit

OwnerInit == InitResource \/ CreateThread \/ CreateThreadFails \/ SemWait

\* Finalize, once called, runs to its end; whether it is called is free.
OwnerFini == StopSet \/ StopWrite \/ Join \/ ReleaseResource

Next ==
  \/ \E p \in Producers : AddTaskPush(p) \/ AddTaskWrite(p)
  \/ Loop \/ EpollWaitOther
  \/ OwnerInit \/ FinalizeBegin \/ OwnerFini

\* The operating system schedules every runnable thread: the loop thread, a
\* producer inside AddTask, and the owner inside Initialize or Finalize.  No
\* socket event or signal is promised (EpollWaitOther has no fairness).
Fairness ==
  /\ WF_vars(Loop)
  /\ WF_vars(OwnerInit)
  /\ WF_vars(OwnerFini)
  /\ \A p \in Producers : WF_vars(AddTaskWrite(p))

Spec == Init /\ [][Next]_vars

FairSpec == Spec /\ Fairness

-----------------------------------------------------------------------------
(* Properties.                                                             *)

Writing == {p \in Producers : ppc[p] = "write"}

\* Only Stop adds a wake-up that no task asked for.
Stopping == opc \in {"join", "release", "gone"}

\* No lost wake-up.  AddTask writes the eventfd only when it found the queue
\* empty, after its unlock; still, whenever a task is queued and the loop
\* thread lives, the eventfd is readable, or a producer is about to write it,
\* or the loop is between the read() and the swap that will take the task.
NoLostWakeup ==
  (task_queue # <<>> /\ lpc # "done") =>
     event_fd > 0 \/ Writing # {} \/ lpc = "swap"

\* The wake-ups are exact until Stop writes its own: for one non-empty queue
\* there is one token, either the eventfd's count or one producer about to
\* write it, and there is none when the queue is empty or about to be taken.
\* So the counter can neither grow with the load nor wake the loop for nothing.
WakeupExact ==
  ~Stopping =>
    /\ event_fd \in 0 .. 1
    /\ \A p, r \in Writing : p = r
    /\ (event_fd = 1) => (Writing = {})
    /\ (event_fd = 1 \/ Writing # {}) <=> (task_queue # <<>> /\ lpc # "swap")
    /\ (lpc = "swap") => (task_queue # <<>>)

\* The loop implements the executor: its pending tasks are the ones taken by
\* the callback followed by the ones still queued.
Exec == INSTANCE TaskExecutor WITH
          Tasks <- Task, pending <- q \o task_queue, ran <- ran,
          open <- opc \in {"new", "create", "sem_wait", "up"} /\ lpc # "done"

\* Every step of the event loop is a step of TaskExecutor or invisible to it:
\* no interleaving of AddTask with the swap and the drain of the callback
\* loses a task, runs one twice or runs one ahead of an older one.
ExecutesInOrder == Exec!SafetySpec

\* EventLoop refines TaskExecutor, liveness included: while Finalize has not
\* been called, whatever AddTask accepted is executed.
ImplementsExecutor == Exec!Spec

\* Finalize returns: the loop thread sees is_stop_ even when it sleeps in
\* epoll_wait(-1), because Stop writes the eventfd.
FinalizeReturns == (opc = "stop_set") ~> (opc = "gone")
=============================================================================
