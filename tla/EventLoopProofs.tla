-------------------------- MODULE EventLoopProofs ---------------------------
(***************************************************************************)
(* Proofs about the two halves of class EventLoop.                         *)
(*                                                                         *)
(* EventLoop, for any set of producers and any number of tasks: type       *)
(* correctness, no lost wake-up, exact wake-ups, and that the loop         *)
(* implements the safety part of TaskExecutor.                             *)
(*                                                                         *)
(* EventTable, for any descriptors, any threads and any number of Event    *)
(* objects: every Event is accounted for, and, as long as only the loop    *)
(* thread calls DeleteEpollEvent, no pointer the kernel or the loop may    *)
(* follow is freed and no deleted Event's handler is called.  That         *)
(* hypothesis is the one EventTable_v_userdelete.cfg shows to be needed.   *)
(***************************************************************************)
EXTENDS EventLoop, EventTable, SequenceTheorems, TLAPS

-----------------------------------------------------------------------------
(* Type correctness.                                                       *)

LEMMA InitTypeOK == Init => TypeOK
<1> SUFFICES ASSUME Init PROVE TypeOK
  OBVIOUS
<1>1. fd_open \in BOOLEAN /\ is_stop \in BOOLEAN
  BY Zenon DEF Init
<1>2. /\ task_queue \in Seq(Task) /\ q \in Seq(Task) /\ ran \in Seq(Task)
      /\ event_fd \in Nat /\ sem \in 0 .. 1
      /\ ppc \in [Producers -> {"idle", "write"}]
      /\ nadded \in [Producers -> 0 .. MaxTasks]
  BY LoopAssumption DEF Init, LoopAssumption
<1>3. lpc \in LoopPc /\ opc \in OwnerPc
  BY DEF Init, LoopPc, OwnerPc
<1> QED
  BY <1>1, <1>2, <1>3 DEF TypeOK

\* A step of AddTask keeps the types.
LEMMA AddTaskTypeOK ==
  ASSUME TypeOK, NEW p \in Producers, AddTaskPush(p) \/ AddTaskWrite(p)
  PROVE  TypeOK'
<1>1. CASE AddTaskPush(p)
  <2>1. <<p, nadded[p] + 1>> \in Task
    BY <1>1, LoopAssumption DEF TypeOK, AddTaskPush, Task
  <2>2. task_queue' \in Seq(Task)
    BY <1>1, <2>1, AppendProperties DEF TypeOK, AddTaskPush
  <2>3. nadded' \in [Producers -> 0 .. MaxTasks]
    BY <1>1, LoopAssumption DEF TypeOK, AddTaskPush
  <2>4. ppc' \in [Producers -> {"idle", "write"}]
    BY <1>1 DEF TypeOK, AddTaskPush
  <2> QED
    BY <1>1, <2>2, <2>3, <2>4 DEF TypeOK, AddTaskPush
<1>2. CASE AddTaskWrite(p)
  BY <1>2 DEF TypeOK, AddTaskWrite
<1> QED
  BY <1>1, <1>2

\* A step of the loop thread keeps the types.
LEMMA LoopTypeOK ==
  ASSUME TypeOK, Loop \/ EpollWaitOther
  PROVE  TypeOK'
<1>1. CASE RunTask
  <2>1. Head(q) \in Task /\ Tail(q) \in Seq(Task)
    BY <1>1, HeadTailProperties DEF TypeOK, RunTask
  <2>2. ran' \in Seq(Task)
    BY <1>1, <2>1, AppendProperties DEF TypeOK, RunTask
  <2> QED
    BY <1>1, <2>1, <2>2 DEF TypeOK, RunTask
<1>2. CASE SwapQueue
  BY <1>2 DEF TypeOK, SwapQueue, LoopPc
<1>3. CASE ReadEventFd
  BY <1>3 DEF TypeOK, ReadEventFd, LoopPc
<1>4. CASE LoopStart \/ LoopNoMemory \/ LoopTest
  BY <1>4 DEF TypeOK, LoopStart, LoopNoMemory, LoopTest, LoopPc
<1>6. CASE LoopExit
  BY <1>6, Zenon DEF TypeOK, LoopExit, LoopPc
<1>5. CASE EpollWaitQueue \/ EpollWaitOther \/ RunDone
  BY <1>5 DEF TypeOK, EpollWaitQueue, EpollWaitOther, RunDone, LoopPc
<1> QED
  BY <1>1, <1>2, <1>3, <1>4, <1>5, <1>6 DEF Loop

\* A step of the owner keeps the types.
LEMMA OwnerTypeOK ==
  ASSUME TypeOK, OwnerInit \/ FinalizeBegin \/ OwnerFini
  PROVE  TypeOK'
<1>1. CASE InitResource
  <2>1. fd_open' \in BOOLEAN /\ is_stop' \in BOOLEAN
    BY <1>1, Zenon DEF InitResource
  <2>2. event_fd' \in Nat /\ sem' \in 0 .. 1 /\ opc' \in OwnerPc
    BY <1>1 DEF InitResource, OwnerPc
  <2> QED
    BY <1>1, <2>1, <2>2, Zenon DEF TypeOK, InitResource
<1>2. CASE CreateThread \/ CreateThreadFails
  BY <1>2 DEF TypeOK, CreateThread, CreateThreadFails, LoopPc, OwnerPc
<1>3. CASE SemWait
  BY <1>3 DEF TypeOK, SemWait, OwnerPc
<1>4. CASE FinalizeBegin \/ Join
  BY <1>4, Zenon DEF TypeOK, FinalizeBegin, Join, OwnerPc
<1>5. CASE StopSet \/ ReleaseResource
  BY <1>5, Zenon DEF TypeOK, StopSet, ReleaseResource, OwnerPc
<1>6. CASE StopWrite
  BY <1>6 DEF TypeOK, StopWrite, OwnerPc
<1> QED
  BY <1>1, <1>2, <1>3, <1>4, <1>5, <1>6 DEF OwnerInit, OwnerFini

LEMMA NextTypeOK == TypeOK /\ [Next]_vars => TypeOK'
<1> SUFFICES ASSUME TypeOK, [Next]_vars PROVE TypeOK'
  OBVIOUS
<1>1. CASE UNCHANGED vars
  BY <1>1 DEF TypeOK, vars
<1>2. CASE Next
  BY <1>2, AddTaskTypeOK, LoopTypeOK, OwnerTypeOK DEF Next
<1> QED
  BY <1>1, <1>2

\* Every reachable state of the event loop is well typed.
THEOREM TypeCorrect == Spec => []TypeOK
<1>1. Init => TypeOK
  BY InitTypeOK
<1>2. TypeOK /\ [Next]_vars => TypeOK'
  BY NextTypeOK
<1> QED
  BY <1>1, <1>2, PTL DEF Spec

-----------------------------------------------------------------------------
(* The life of the loop thread and of the descriptors.                     *)

Alive == {"sem_wait", "up", "stop_set", "stop_write", "join"}

\* The strengthening that makes the wake-up invariants inductive: the eventfd
\* is open as long as the thread may read it, nothing is queued before the
\* thread exists, the thread has ended before the descriptors are closed, and
\* the callback's local queue is only used while it runs tasks.
LifeCycle ==
  /\ (opc \in {"new", "create"}) => (lpc = "none")
  /\ (lpc = "none") => /\ task_queue = <<>>
                       /\ Writing = {}
                       /\ opc \notin Alive
  /\ (opc \in Alive \cup {"create"}) => (fd_open = TRUE)
  /\ (opc \in {"release", "gone"}) => (lpc \in {"none", "done"})
  /\ (lpc # "run") => (q = <<>>)

LEMMA InitLifeCycle == Init => LifeCycle
BY DEF Init, LifeCycle, Writing, Alive

LEMMA NextLifeCycle == TypeOK /\ LifeCycle /\ [Next]_vars => LifeCycle'
<1> SUFFICES ASSUME TypeOK, LifeCycle, [Next]_vars PROVE LifeCycle'
  OBVIOUS
<1> USE DEF LifeCycle, Writing, Alive
<1>1. ASSUME NEW p \in Producers, AddTaskPush(p) PROVE LifeCycle'
  BY <1>1 DEF AddTaskPush, TypeOK
<1>2. ASSUME NEW p \in Producers, AddTaskWrite(p) PROVE LifeCycle'
  BY <1>2 DEF AddTaskWrite, TypeOK
<1>3. CASE LoopStart \/ LoopNoMemory \/ LoopTest \/ LoopExit
  BY <1>3 DEF LoopStart, LoopNoMemory, LoopTest, LoopExit
<1>4. CASE EpollWaitQueue \/ EpollWaitOther \/ ReadEventFd
  BY <1>4 DEF EpollWaitQueue, EpollWaitOther, ReadEventFd
<1>5. CASE SwapQueue \/ RunTask \/ RunDone
  BY <1>5 DEF SwapQueue, RunTask, RunDone
<1>6. CASE OwnerInit
  BY <1>6 DEF OwnerInit, InitResource, CreateThread, CreateThreadFails,
              SemWait
<1>7. CASE FinalizeBegin \/ OwnerFini
  BY <1>7 DEF FinalizeBegin, OwnerFini, StopSet, StopWrite, Join,
              ReleaseResource
<1>8. CASE UNCHANGED vars
  BY <1>8 DEF vars
<1> QED
  BY <1>1, <1>2, <1>3, <1>4, <1>5, <1>6, <1>7, <1>8 DEF Next, Loop

-----------------------------------------------------------------------------
(* Wake-ups.                                                               *)

LEMMA NextNoLostWakeup ==
  TypeOK /\ LifeCycle /\ NoLostWakeup /\ [Next]_vars => NoLostWakeup'
<1> SUFFICES ASSUME TypeOK, LifeCycle, NoLostWakeup, [Next]_vars
             PROVE  NoLostWakeup'
  OBVIOUS
<1> USE DEF NoLostWakeup, Writing
<1>1. ASSUME NEW p \in Producers, AddTaskPush(p) PROVE NoLostWakeup'
  <2>1. CASE task_queue = <<>>
    <3>1. Len(task_queue') = 1
      BY <1>1, <2>1 DEF AddTaskPush
    <3>2. p \in Writing'
      BY <1>1, <3>1 DEF AddTaskPush, TypeOK
    <3> QED
      BY <3>2
  <2>2. CASE task_queue # <<>>
    <3>1. Writing \subseteq Writing'
      BY <1>1 DEF AddTaskPush, TypeOK
    <3> QED
      BY <1>1, <2>2, <3>1 DEF AddTaskPush
  <2> QED
    BY <2>1, <2>2
<1>2. ASSUME NEW p \in Producers, AddTaskWrite(p) PROVE NoLostWakeup'
  <2>1. CASE lpc = "done" \/ task_queue = <<>>
    BY <1>2, <2>1 DEF AddTaskWrite
  <2>2. CASE lpc # "done" /\ task_queue # <<>>
    <3>1. fd_open = TRUE
      BY <2>2 DEF LifeCycle, Alive, TypeOK, OwnerPc
    <3> QED
      BY <1>2, <3>1 DEF AddTaskWrite, TypeOK
  <2> QED
    BY <2>1, <2>2
<1>3. CASE LoopStart \/ LoopNoMemory \/ LoopTest \/ LoopExit
  BY <1>3 DEF LoopStart, LoopNoMemory, LoopTest, LoopExit
<1>4. CASE EpollWaitQueue \/ EpollWaitOther \/ ReadEventFd
  BY <1>4 DEF EpollWaitQueue, EpollWaitOther, ReadEventFd, TypeOK
<1>5. CASE SwapQueue \/ RunTask \/ RunDone
  BY <1>5 DEF SwapQueue, RunTask, RunDone
<1>6. CASE OwnerInit
  BY <1>6 DEF OwnerInit, InitResource, CreateThread, CreateThreadFails,
              SemWait, LifeCycle
<1>7. CASE FinalizeBegin \/ OwnerFini
  BY <1>7 DEF FinalizeBegin, OwnerFini, StopSet, StopWrite, Join,
              ReleaseResource, TypeOK
<1>8. CASE UNCHANGED vars
  BY <1>8 DEF vars
<1> QED
  BY <1>1, <1>2, <1>3, <1>4, <1>5, <1>6, <1>7, <1>8 DEF Next, Loop

\* A queued task always has a wake-up under way: a readable eventfd, a producer
\* that has unlocked task_queue_mutex_ and is about to write it, or a callback
\* about to swap the queue.  Holds for any number of threads and tasks.
THEOREM NoWakeupIsLost == Spec => []NoLostWakeup
<1>1. Init => TypeOK /\ LifeCycle /\ NoLostWakeup
  BY InitTypeOK, InitLifeCycle DEF Init, NoLostWakeup
<1>2. TypeOK /\ LifeCycle /\ NoLostWakeup /\ [Next]_vars
        => (TypeOK /\ LifeCycle /\ NoLostWakeup)'
  BY NextTypeOK, NextLifeCycle, NextNoLostWakeup
<1> QED
  BY <1>1, <1>2, PTL DEF Spec

LEMMA NextWakeupExact ==
  TypeOK /\ LifeCycle /\ WakeupExact /\ [Next]_vars => WakeupExact'
<1> SUFFICES ASSUME TypeOK, LifeCycle, WakeupExact, [Next]_vars, ~Stopping'
             PROVE  WakeupExact'
  BY DEF WakeupExact
<1> USE DEF WakeupExact, Writing, Stopping
<1>1. ASSUME NEW p \in Producers, AddTaskPush(p) PROVE WakeupExact'
  <2>0. ~Stopping
    BY <1>1 DEF AddTaskPush
  <2>1. <<p, nadded[p] + 1>> \in Task
    BY <1>1, LoopAssumption DEF TypeOK, AddTaskPush, Task, LoopAssumption
  <2>2. task_queue' # <<>> /\ Len(task_queue') = Len(task_queue) + 1
    BY <1>1, <2>1, AppendProperties DEF AddTaskPush, TypeOK
  <2>3. CASE task_queue = <<>>
    <3>1. event_fd = 0 /\ Writing = {} /\ lpc # "swap"
      BY <2>0, <2>3 DEF TypeOK
    <3>2. Writing' = {p}
      BY <1>1, <2>2, <2>3, <3>1 DEF AddTaskPush, TypeOK
    <3> QED
      BY <1>1, <2>2, <3>1, <3>2 DEF AddTaskPush
  <2>4. CASE task_queue # <<>>
    <3>1. Len(task_queue') # 1
      BY <2>2, <2>4, LenProperties, EmptySeq DEF TypeOK
    <3>2. Writing' = Writing
      BY <1>1, <3>1 DEF AddTaskPush, TypeOK
    <3> QED
      BY <1>1, <2>0, <2>2, <2>4, <3>2 DEF AddTaskPush
  <2> QED
    BY <2>3, <2>4
<1>2. ASSUME NEW p \in Producers, AddTaskWrite(p) PROVE WakeupExact'
  <2>1. ~Stopping /\ Writing = {p} /\ event_fd = 0
    BY <1>2 DEF AddTaskWrite, TypeOK
  <2>2. fd_open = TRUE
    BY <1>2, <2>1 DEF LifeCycle, Alive, TypeOK, OwnerPc, AddTaskWrite
  <2>3. Writing' = {} /\ event_fd' = 1
    BY <1>2, <2>1, <2>2 DEF AddTaskWrite, TypeOK
  <2> QED
    BY <1>2, <2>1, <2>3 DEF AddTaskWrite
<1>3. CASE LoopStart \/ LoopNoMemory \/ LoopTest \/ LoopExit
  BY <1>3 DEF LoopStart, LoopNoMemory, LoopTest, LoopExit
<1>4. CASE EpollWaitQueue \/ EpollWaitOther
  BY <1>4 DEF EpollWaitQueue, EpollWaitOther
<1>5. CASE ReadEventFd
  BY <1>5 DEF ReadEventFd, TypeOK
<1>6. CASE SwapQueue
  BY <1>6 DEF SwapQueue
<1>7. CASE RunTask \/ RunDone
  BY <1>7 DEF RunTask, RunDone
<1>8. CASE OwnerInit
  BY <1>8 DEF OwnerInit, InitResource, CreateThread, CreateThreadFails,
              SemWait, LifeCycle
<1>9. CASE FinalizeBegin \/ OwnerFini
  BY <1>9 DEF FinalizeBegin, OwnerFini, StopSet, StopWrite, Join,
              ReleaseResource
<1>10. CASE UNCHANGED vars
  BY <1>10 DEF vars
<1> QED
  BY <1>1, <1>2, <1>3, <1>4, <1>5, <1>6, <1>7, <1>8, <1>9, <1>10 DEF Next, Loop

\* Until Stop writes the eventfd, a non-empty queue that nobody is taking has
\* exactly one wake-up token and any other queue has none: the eventfd's
\* counter never exceeds 1, for any number of producers.
THEOREM WakeupsAreExact == Spec => []WakeupExact
<1>1. Init => TypeOK /\ LifeCycle /\ WakeupExact
  BY InitTypeOK, InitLifeCycle DEF Init, WakeupExact, Writing
<1>2. TypeOK /\ LifeCycle /\ WakeupExact /\ [Next]_vars
        => (TypeOK /\ LifeCycle /\ WakeupExact)'
  BY NextTypeOK, NextLifeCycle, NextWakeupExact
<1> QED
  BY <1>1, <1>2, PTL DEF Spec

-----------------------------------------------------------------------------
(* Refinement of TaskExecutor.                                             *)

\* Appending behind two concatenated sequences.
LEMMA ConcatAppend ==
  ASSUME NEW S, NEW s \in Seq(S), NEW t \in Seq(S), NEW e \in S
  PROVE  s \o Append(t, e) = Append(s \o t, e)
<1>1. /\ Append(t, e) = t \o <<e>>
      /\ s \o t \in Seq(S)
  BY AppendIsConcat, ConcatProperties
<1>2. Append(s \o t, e) = (s \o t) \o <<e>>
  BY <1>1, AppendIsConcat
<1>3. <<e>> \in Seq(S)
  OBVIOUS
<1> QED
  BY <1>1, <1>2, <1>3, ConcatAssociative

\* Taking the head of two concatenated sequences, the first one not empty.
LEMMA ConcatHeadTail ==
  ASSUME NEW S, NEW s \in Seq(S), NEW t \in Seq(S), s # <<>>
  PROVE  /\ s \o t # <<>>
         /\ Head(s \o t) = Head(s)
         /\ Tail(s \o t) = Tail(s) \o t
<1>1. /\ s \o t \in Seq(S)
      /\ Len(s \o t) = Len(s) + Len(t)
      /\ \A i \in 1 .. Len(s) + Len(t) :
            (s \o t)[i] = IF i <= Len(s) THEN s[i] ELSE t[i - Len(s)]
  BY ConcatProperties
<1>2. Len(s) \in Nat /\ Len(t) \in Nat /\ Len(s) > 0
  BY EmptySeq, LenProperties
<1>3. s \o t # <<>>
  BY <1>1, <1>2, EmptySeq
<1>4. Head(s \o t) = Head(s)
  BY <1>1, <1>2, <1>3
<1>5. /\ Tail(s) \in Seq(S)
      /\ Len(Tail(s)) = Len(s) - 1
      /\ \A i \in 1 .. Len(Tail(s)) : Tail(s)[i] = s[i + 1]
  BY HeadTailProperties
<1>6. /\ Tail(s \o t) \in Seq(S)
      /\ Len(Tail(s \o t)) = Len(s \o t) - 1
      /\ \A i \in 1 .. Len(Tail(s \o t)) : Tail(s \o t)[i] = (s \o t)[i + 1]
  BY <1>1, <1>3, HeadTailProperties
<1>7. /\ Tail(s) \o t \in Seq(S)
      /\ Len(Tail(s) \o t) = Len(Tail(s)) + Len(t)
      /\ \A i \in 1 .. Len(Tail(s)) + Len(t) :
            (Tail(s) \o t)[i] =
               IF i <= Len(Tail(s)) THEN Tail(s)[i] ELSE t[i - Len(Tail(s))]
  BY <1>5, ConcatProperties
<1>8. Len(Tail(s \o t)) = Len(Tail(s) \o t)
  BY <1>1, <1>2, <1>5, <1>6, <1>7
<1>9. ASSUME NEW i \in 1 .. Len(Tail(s \o t))
      PROVE  Tail(s \o t)[i] = (Tail(s) \o t)[i]
  <2>1. i \in 1 .. Len(s) + Len(t) - 1
    BY <1>1, <1>6
  <2>2. Tail(s \o t)[i] = IF i + 1 <= Len(s) THEN s[i + 1] ELSE t[i + 1 - Len(s)]
    BY <2>1, <1>1, <1>2, <1>6
  <2>3. CASE i + 1 <= Len(s)
    BY <2>1, <2>2, <2>3, <1>2, <1>5, <1>7
  <2>4. CASE ~(i + 1 <= Len(s))
    BY <2>1, <2>2, <2>4, <1>2, <1>5, <1>7
  <2> QED
    BY <2>3, <2>4
<1>10. Tail(s \o t) = Tail(s) \o t
  BY <1>6, <1>7, <1>8, <1>9, SeqEqual
<1> QED
  BY <1>3, <1>4, <1>10

\* The executor's "open", as the refinement mapping of EventLoop defines it.
ExecOpen == opc \in {"new", "create", "sem_wait", "up"} /\ lpc # "done"

\* A step that keeps the pending and the executed tasks is a stuttering step of
\* the executor or its Shutdown.
LEMMA QuietStep ==
  ASSUME q' \o task_queue' = q \o task_queue, ran' = ran,
         (ExecOpen' <=> ExecOpen) \/ ~ExecOpen'
  PROVE  [Exec!Next]_(Exec!execVars)
<1>1. CASE ExecOpen' <=> ExecOpen
  BY <1>1 DEF ExecOpen, Exec!execVars
<1>2. CASE ~ExecOpen'
  <2>1. Exec!Shutdown
    BY <1>2 DEF ExecOpen, Exec!Shutdown
  <2> QED
    BY <2>1 DEF Exec!Next
<1> QED
  BY <1>1, <1>2

LEMMA NextRefines ==
  TypeOK /\ LifeCycle /\ [Next]_vars => [Exec!Next]_(Exec!execVars)
<1> SUFFICES ASSUME TypeOK, LifeCycle, [Next]_vars
             PROVE  [Exec!Next]_(Exec!execVars)
  OBVIOUS
<1>1. ASSUME NEW p \in Producers, AddTaskPush(p)
      PROVE  [Exec!Next]_(Exec!execVars)
  <2> DEFINE t == <<p, nadded[p] + 1>>
  <2>1. t \in Task
    BY <1>1, LoopAssumption DEF TypeOK, AddTaskPush, Task, LoopAssumption
  <2>2. q \o Append(task_queue, t) = Append(q \o task_queue, t)
    BY <2>1, ConcatAppend DEF TypeOK
  <2>3. Exec!Accept(t)
    BY <1>1, <2>2 DEF AddTaskPush, Exec!Accept
  <2> QED
    BY <2>1, <2>3 DEF Exec!Next
<1>2. CASE RunTask
  <2>1. /\ q \o task_queue # <<>>
        /\ Head(q \o task_queue) = Head(q)
        /\ Tail(q \o task_queue) = Tail(q) \o task_queue
    BY <1>2, ConcatHeadTail DEF RunTask, TypeOK
  <2>2. Exec!Execute
    BY <1>2, <2>1 DEF RunTask, Exec!Execute
  <2> QED
    BY <2>2 DEF Exec!Next
<1>3. CASE SwapQueue
  <2>1. q = <<>>
    BY <1>3 DEF SwapQueue, LifeCycle
  <2>2. q' \o task_queue' = q \o task_queue
    BY <1>3, <2>1, ConcatEmptySeq DEF SwapQueue, TypeOK
  <2>3. ran' = ran /\ (ExecOpen' <=> ExecOpen)
    BY <1>3 DEF SwapQueue, ExecOpen
  <2> QED
    BY <2>2, <2>3, QuietStep
<1>4. ASSUME NEW p \in Producers, AddTaskWrite(p)
      PROVE  [Exec!Next]_(Exec!execVars)
  BY <1>4, QuietStep DEF AddTaskWrite, ExecOpen
<1>5. CASE LoopStart \/ LoopNoMemory \/ LoopTest \/ LoopExit
  BY <1>5, QuietStep DEF LoopStart, LoopNoMemory, LoopTest, LoopExit, ExecOpen
<1>6. CASE EpollWaitQueue \/ EpollWaitOther \/ ReadEventFd \/ RunDone
  BY <1>6, QuietStep DEF EpollWaitQueue, EpollWaitOther, ReadEventFd, RunDone,
                         ExecOpen
<1>7. CASE OwnerInit
  BY <1>7, QuietStep DEF OwnerInit, InitResource, CreateThread,
                         CreateThreadFails, SemWait, LifeCycle, ExecOpen
<1>8. CASE FinalizeBegin \/ OwnerFini
  BY <1>8, QuietStep DEF FinalizeBegin, OwnerFini, StopSet, StopWrite, Join,
                         ReleaseResource, ExecOpen
<1>9. CASE UNCHANGED vars
  BY <1>9, QuietStep DEF vars, ExecOpen
<1> QED
  BY <1>1, <1>2, <1>3, <1>4, <1>5, <1>6, <1>7, <1>8, <1>9 DEF Next, Loop

\* The event loop implements the executor's safety part: whatever the
\* interleaving of AddTask, QueueReadyCallback, Stop and Finalize, tasks leave
\* in the order they were queued, none twice and none skipped.
THEOREM RefinesExecutor == Spec => ExecutesInOrder
<1>1. Init => Exec!Init
  BY ConcatEmptySeq DEF Init, Exec!Init
<1>2. Init => TypeOK /\ LifeCycle
  BY InitTypeOK, InitLifeCycle
<1>3. TypeOK /\ LifeCycle /\ [Next]_vars => (TypeOK /\ LifeCycle)'
  BY NextTypeOK, NextLifeCycle
<1>4. TypeOK /\ LifeCycle /\ [Next]_vars => [Exec!Next]_(Exec!execVars)
  BY NextRefines
<1> QED
  BY <1>1, <1>2, <1>3, <1>4, PTL DEF Spec, ExecutesInOrder, Exec!SafetySpec

-----------------------------------------------------------------------------
(* EventTable: type correctness.                                           *)

LEMMA IdleNotCall == Idle \notin Calls /\ NoEvent \notin EventIds /\ Idle.op = "none"
<1>1. Idle.op = "none"
  BY DEF Idle
<1>2. \A k \in Calls : k.op # "none"
  BY DEF Calls
<1>3. NoEvent \notin EventIds
  BY TableAssumption DEF NoEvent, EventIds, TableAssumption
<1> QED
  BY <1>1, <1>2, <1>3

LEMMA InitTableTypeOK == TableInit => TableTypeOK
  BY DEF TableInit, TableTypeOK, Callers, Idle

LEMMA NextTableTypeOK == TableTypeOK /\ [TableNext]_tableVars => TableTypeOK'
<1> SUFFICES ASSUME TableTypeOK, [TableNext]_tableVars PROVE TableTypeOK'
  OBVIOUS
<1>1. ASSUME NEW fd \in Fds, OpenFd(fd) \/ CloseFd(fd) PROVE TableTypeOK'
  BY <1>1 DEF TableTypeOK, OpenFd, CloseFd
<1>2. ASSUME NEW c \in Callers, NEW fd \in Fds, SetEventHandler(c, fd)
      PROVE TableTypeOK'
  <2>1. PICK e \in EventIds \ live :
           /\ live' = (live \ {events[fd]}) \cup {e}
           /\ events' = [events EXCEPT ![fd] = e]
           /\ call' = [call EXCEPT ![c] = [op |-> "add", fd |-> fd, ev |-> e]]
    BY <1>2 DEF SetEventHandler
  <2>2. [op |-> "add", fd |-> fd, ev |-> e] \in Calls
    BY <2>1 DEF Calls
  <2> QED
    BY <1>2, <2>1, <2>2 DEF TableTypeOK, SetEventHandler
<1>3. ASSUME NEW c \in Callers, NEW fd \in Fds, DeleteEpollEvent(c, fd)
      PROVE TableTypeOK'
  <2>1. events[fd] \in EventIds
    BY <1>3 DEF DeleteEpollEvent, TableTypeOK
  <2>2. [op |-> "del", fd |-> fd, ev |-> events[fd]] \in Calls
    BY <2>1 DEF Calls
  <2> QED
    BY <1>3, <2>1, <2>2 DEF TableTypeOK, DeleteEpollEvent
<1>4. ASSUME NEW c \in Callers, NEW fd \in Fds, UpdateEpollEvent(c, fd)
      PROVE TableTypeOK'
  <2>1. [op |-> "mod", fd |-> fd, ev |-> events[fd]] \in Calls
    BY <1>4 DEF Calls, UpdateEpollEvent, TableTypeOK
  <2> QED
    BY <1>4, <2>1 DEF TableTypeOK, UpdateEpollEvent
<1>5. ASSUME NEW c \in Callers,
             \/ EpollCtlAdd(c) \/ EpollCtlAddFails(c)
             \/ EpollCtlDel(c) \/ EpollCtlMod(c)
      PROVE TableTypeOK'
  <2>1. call[c] \in Calls
    BY <1>5, IdleNotCall
       DEF TableTypeOK, EpollCtlAdd, EpollCtlAddFails, EpollCtlDel, EpollCtlMod
  <2>2. call[c].fd \in Fds /\ call[c].ev \in EventIds
    BY <2>1 DEF Calls
  <2>3. CASE EpollCtlAdd(c)
    BY <2>2, <2>3 DEF TableTypeOK, EpollCtlAdd
  <2>4. CASE EpollCtlAddFails(c)
    BY <2>4 DEF TableTypeOK, EpollCtlAddFails
  <2>5. CASE EpollCtlDel(c)
    BY <2>5 DEF TableTypeOK, EpollCtlDel
  <2>6. CASE EpollCtlMod(c)
    BY <2>2, <2>6 DEF TableTypeOK, EpollCtlMod
  <2> QED
    BY <1>5, <2>3, <2>4, <2>5, <2>6
<1>6. CASE RemoveDeletedEvents \/ ClearDeletedEvents
  <2>1. \A u \in Users : call[u].op = "del" => call[u].ev \in EventIds
    BY IdleNotCall DEF TableTypeOK, Calls, Callers
  <2>2. BeingDeleted \subseteq EventIds
    BY <2>1 DEF BeingDeleted
  <2> QED
    BY <1>6, <2>2 DEF TableTypeOK, RemoveDeletedEvents, ClearDeletedEvents
<1>7. CASE EpollWait
  <2>1. batch' \subseteq EventIds
    BY <1>7 DEF TableTypeOK, EpollWait
  <2> QED
    BY <1>7, <2>1 DEF TableTypeOK, EpollWait
<1>8. CASE HandleEvent
  BY <1>8 DEF TableTypeOK, HandleEvent
<1>9. CASE HandlerReturns \/ BatchDone
  BY <1>9 DEF TableTypeOK, HandlerReturns, BatchDone
<1>10. CASE UNCHANGED tableVars
  BY <1>10 DEF TableTypeOK, tableVars
<1> QED
  BY <1>1, <1>2, <1>3, <1>4, <1>5, <1>6, <1>7, <1>8, <1>9, <1>10 DEF TableNext

-----------------------------------------------------------------------------
(* Event objects are accounted for.                                        *)

LEMMA NextAccounted ==
  TableTypeOK /\ EventsAccounted /\ [TableNext]_tableVars => EventsAccounted'
<1> SUFFICES ASSUME TableTypeOK, EventsAccounted, [TableNext]_tableVars
             PROVE  EventsAccounted'
  OBVIOUS
<1> USE IdleNotCall
<1>a. \A e : e \in Registered <=> e # NoEvent /\ \E f \in Fds : events[f] = e
  BY DEF Registered
<1>b. \A e : e \in Registered' <=> e # NoEvent /\ \E f \in Fds : events'[f] = e
  BY DEF Registered
<1>1. ASSUME NEW c \in Callers, NEW fd \in Fds, SetEventHandler(c, fd)
      PROVE EventsAccounted'
  <2>1. PICK e \in EventIds \ live :
           /\ live' = (live \ {events[fd]}) \cup {e}
           /\ events' = [events EXCEPT ![fd] = e]
    BY <1>1 DEF SetEventHandler
  <2>2. /\ events[fd] = NoEvent /\ e # NoEvent
        /\ deleted' = deleted /\ lost' = lost
    BY <1>1, <2>1 DEF SetEventHandler
  <2>3. e \notin Registered /\ e \notin deleted /\ e \notin lost
    BY <2>1 DEF EventsAccounted
  <2>4. \A f \in Fds : events'[f] = IF f = fd THEN e ELSE events[f]
    BY <2>1 DEF TableTypeOK
  <2>5. live' = live \cup {e}
    BY <2>1, <2>2 DEF TableTypeOK
  <2>6. Registered' = Registered \cup {e}
    BY <1>a, <1>b, <2>2, <2>4
  <2>7. \A f, g \in Fds :
          events'[f] = events'[g] /\ events'[f] # NoEvent => f = g
    BY <1>a, <2>2, <2>3, <2>4 DEF EventsAccounted
  <2> QED
    BY <2>2, <2>3, <2>5, <2>6, <2>7 DEF EventsAccounted
<1>2. ASSUME NEW c \in Callers, NEW fd \in Fds, DeleteEpollEvent(c, fd)
      PROVE EventsAccounted'
  <2>1. /\ events[fd] # NoEvent
        /\ deleted' = deleted \cup {events[fd]}
        /\ live' = live /\ lost' = lost
    BY <1>2 DEF DeleteEpollEvent
  <2>2. \A f \in Fds : events'[f] = IF f = fd THEN NoEvent ELSE events[f]
    BY <1>2 DEF DeleteEpollEvent, TableTypeOK
  <2>3. Registered' = Registered \ {events[fd]} /\ events[fd] \in Registered
    BY <1>a, <1>b, <2>1, <2>2 DEF EventsAccounted
  <2>4. \A f, g \in Fds :
          events'[f] = events'[g] /\ events'[f] # NoEvent => f = g
    BY <2>2 DEF EventsAccounted
  <2> QED
    BY <2>1, <2>3, <2>4 DEF EventsAccounted
<1>3. CASE RemoveDeletedEvents \/ ClearDeletedEvents
  <2>1. events' = events /\ Registered' = Registered
    BY <1>3 DEF RemoveDeletedEvents, ClearDeletedEvents, Registered
  <2> QED
    BY <1>3, <2>1 DEF EventsAccounted, RemoveDeletedEvents, ClearDeletedEvents
<1>4. CASE UNCHANGED <<events, deleted, live, lost>>
  BY <1>4 DEF EventsAccounted, Registered
<1> QED
  BY <1>1, <1>2, <1>3, <1>4
     DEF TableNext, tableVars, OpenFd, CloseFd, UpdateEpollEvent, EpollCtlAdd,
         EpollCtlAddFails, EpollCtlDel, EpollCtlMod, EpollWait, HandleEvent,
         HandlerReturns, BatchDone

\* EventsAccounted, with deletions by handlers and by other threads:
\* SetEventHandler, DeleteEpollEvent and RemoveDeletedEvents never hold an Event
\* in two places, and only the final clear() of RemoveDeletedEvents leaks one.
THEOREM EventsNeverLost == TableSpec => []EventsAccounted
<1>1. TableInit => EventsAccounted
  BY DEF TableInit, EventsAccounted, Registered
<1> QED
  BY <1>1, InitTableTypeOK, NextTableTypeOK, NextAccounted, PTL DEF TableSpec

-----------------------------------------------------------------------------
(* Pointers stay live unless a deletion by another thread overlaps the      *)
(* loop's RemoveDeletedEvents.                                             *)

\* Calls under way are on different descriptors, the loop thread calls from a
\* handler only, an Event a thread registers or modifies is the one in the
\* table, and an Event it deletes waits to be freed, unless the thread is not
\* the loop and RemoveDeletedEvents has come in between.
CallsExact ==
  /\ \A c, d \in Callers :
       c # d /\ call[c] # Idle /\ call[d] # Idle => call[c].fd # call[d].fd
  /\ \A c \in Callers :
       call[c].op \in {"add", "mod"} => events[call[c].fd] = call[c].ev
  /\ \A c \in Callers :
       call[c].op = "del" => \/ call[c].ev \in deleted
                             \/ c # "loop" /\ call[c].ev \in raced
  /\ wpc # "handler" => call["loop"] = Idle

\* Some thread is between the two halves of DeleteEpollEvent(fd).
Deleting(fd) ==
  \E c \in Callers :
    call[c].op = "del" /\ call[c].fd = fd /\ call[c].ev = epoll[fd]

\* A pointer in the epoll set is the one in the table, or is about to be taken
\* out.
EpollExact ==
  \A fd \in Fds : epoll[fd] # NoEvent => epoll[fd] = events[fd] \/ Deleting(fd)

\* The array of epoll_wait is handled completely before Events are freed.
BatchExact ==
  /\ batch \subseteq deleted \cup Registered \cup raced
  /\ wpc \in {"test", "clear", "wait"} => batch = {}

\* The inductive invariant behind PointersLive and NoStaleHandler.
TableInv ==
  TableTypeOK /\ EventsAccounted /\ CallsExact /\ EpollExact /\ BatchExact

\* What epoll_wait may return is deleted, registered or raced.
LEMMA EpollKnown ==
  ASSUME TableTypeOK, CallsExact, EpollExact, NEW fd \in Fds, epoll[fd] # NoEvent
  PROVE  epoll[fd] \in deleted \cup Registered \cup raced
<1>1. CASE epoll[fd] = events[fd]
  BY <1>1 DEF Registered
<1>2. CASE Deleting(fd)
  BY <1>2 DEF Deleting, CallsExact
<1> QED
  BY <1>1, <1>2 DEF EpollExact

LEMMA InvPointersLive == TableInv => PointersLive
<1> SUFFICES ASSUME TableInv PROVE PointersLive
  OBVIOUS
<1>1. deleted \cup Registered \subseteq live
  BY DEF TableInv, EventsAccounted
<1>2. \A fd \in Fds : epoll[fd] # NoEvent
                       => epoll[fd] \in deleted \cup Registered \cup raced
  BY EpollKnown DEF TableInv
<1> QED
  BY <1>1, <1>2 DEF TableInv, BatchExact, PointersLive

LEMMA NextCallsExact ==
  ASSUME TableTypeOK, EventsAccounted, CallsExact, [TableNext]_tableVars
  PROVE  CallsExact'
<1> USE IdleNotCall
<1>0. "loop" \in Callers
  BY DEF Callers
<1>1. ASSUME NEW c \in Callers, NEW fd \in Fds,
             \/ SetEventHandler(c, fd) \/ DeleteEpollEvent(c, fd)
             \/ UpdateEpollEvent(c, fd)
      PROVE CallsExact'
  <2>1. /\ call[c] = Idle
        /\ c = "loop" => wpc = "handler"
        /\ \A d \in Callers : call[d] # Idle => call[d].fd # fd
        /\ wpc' = wpc /\ raced' = raced
    BY <1>1 DEF SetEventHandler, DeleteEpollEvent, UpdateEpollEvent, MayCall
  <2>2. PICK k \in {"add", "del", "mod"}, e \in EventIds \cup {NoEvent} :
           /\ call' = [call EXCEPT ![c] = [op |-> k, fd |-> fd, ev |-> e]]
           /\ k = "del" => e \in deleted'
           /\ k # "del" => events'[fd] = e
           /\ \A f \in Fds : f # fd => events'[f] = events[f]
           /\ deleted \subseteq deleted'
    <3>1. CASE SetEventHandler(c, fd)
      BY <3>1 DEF SetEventHandler, TableTypeOK
    <3>2. CASE DeleteEpollEvent(c, fd)
      BY <3>2 DEF DeleteEpollEvent, TableTypeOK
    <3>3. CASE UpdateEpollEvent(c, fd)
      BY <3>3 DEF UpdateEpollEvent, TableTypeOK
    <3> QED
      BY <1>1, <3>1, <3>2, <3>3
  <2>3. \A d \in Callers : call[d] # Idle => call[d] \in Calls /\ call[d].fd \in Fds
    BY DEF TableTypeOK, Calls
  <2>4. \A d \in Callers :
          call'[d] = IF d = c THEN [op |-> k, fd |-> fd, ev |-> e] ELSE call[d]
    BY <2>2 DEF TableTypeOK
  <2>5. \A d \in Callers : call'[d].op \in {"add", "mod"}
                             => events'[call'[d].fd] = call'[d].ev
    <3> SUFFICES ASSUME NEW d \in Callers, call'[d].op \in {"add", "mod"}
                 PROVE  events'[call'[d].fd] = call'[d].ev
      OBVIOUS
    <3>1. CASE d = c
      BY <2>2, <2>4, <3>1
    <3>2. CASE d # c
      BY <2>1, <2>2, <2>3, <2>4, <3>2 DEF CallsExact
    <3> QED
      BY <3>1, <3>2
  <2>6. \A a, b \in Callers :
          a # b /\ call'[a] # Idle /\ call'[b] # Idle => call'[a].fd # call'[b].fd
    BY <2>1, <2>4 DEF CallsExact
  <2>7. \A d \in Callers :
          call'[d].op = "del" => \/ call'[d].ev \in deleted'
                                 \/ d # "loop" /\ call'[d].ev \in raced'
    <3> SUFFICES ASSUME NEW d \in Callers, call'[d].op = "del"
                 PROVE  \/ call'[d].ev \in deleted'
                        \/ d # "loop" /\ call'[d].ev \in raced'
      OBVIOUS
    <3>1. CASE d = c
      BY <2>2, <2>4, <3>1
    <3>2. CASE d # c
      <4>1. call'[d] = call[d] /\ call[d].op = "del"
        BY <2>4, <3>2
      <4>2. call[d].ev \in deleted \/ (d # "loop" /\ call[d].ev \in raced)
        BY <4>1 DEF CallsExact
      <4> QED
        BY <2>1, <2>2, <4>1, <4>2
    <3> QED
      BY <3>1, <3>2
  <2>8. wpc' # "handler" => call'["loop"] = Idle
    BY <1>0, <2>1, <2>4 DEF CallsExact
  <2> QED
    BY <2>5, <2>6, <2>7, <2>8 DEF CallsExact
<1>2. ASSUME NEW c \in Callers,
             \/ EpollCtlAdd(c) \/ EpollCtlAddFails(c)
             \/ EpollCtlDel(c) \/ EpollCtlMod(c)
      PROVE CallsExact'
  <2>1. /\ call' = [call EXCEPT ![c] = Idle] /\ events' = events /\ wpc' = wpc
        /\ deleted' = deleted /\ raced' = raced
    BY <1>2 DEF EpollCtlAdd, EpollCtlAddFails, EpollCtlDel, EpollCtlMod
  <2>2. \A d \in Callers : call'[d] = IF d = c THEN Idle ELSE call[d]
    BY <2>1 DEF TableTypeOK
  <2>3. \A d \in Callers :
          call'[d].op = "del" => \/ call'[d].ev \in deleted'
                                 \/ d # "loop" /\ call'[d].ev \in raced'
    <3> SUFFICES ASSUME NEW d \in Callers, call'[d].op = "del"
                 PROVE  \/ call'[d].ev \in deleted'
                        \/ d # "loop" /\ call'[d].ev \in raced'
      OBVIOUS
    <3>1. call'[d] = call[d] /\ call[d].op = "del"
      BY <2>2
    <3>2. call[d].ev \in deleted \/ (d # "loop" /\ call[d].ev \in raced)
      BY <3>1 DEF CallsExact
    <3> QED
      BY <2>1, <3>1, <3>2
  <2>4. \A d \in Callers : call'[d].op \in {"add", "mod"}
                             => events'[call'[d].fd] = call'[d].ev
    BY <2>1, <2>2 DEF CallsExact
  <2> QED
    BY <1>0, <2>1, <2>2, <2>3, <2>4 DEF CallsExact
<1>3. CASE RemoveDeletedEvents \/ ClearDeletedEvents
  <2>1. call' = call /\ events' = events /\ wpc' # "handler" /\ wpc # "handler"
    BY <1>3 DEF RemoveDeletedEvents, ClearDeletedEvents
  <2>2. BeingDeleted \subseteq raced'
    BY <1>3 DEF RemoveDeletedEvents, ClearDeletedEvents
  <2>3. \A c \in Callers : call[c].op = "del"
                             => c # "loop" /\ call[c].ev \in BeingDeleted
    BY <2>1 DEF CallsExact, BeingDeleted, Callers
  <2> QED
    BY <2>1, <2>2, <2>3 DEF CallsExact
<1>4. CASE HandleEvent
  BY <1>4 DEF HandleEvent, CallsExact
<1>5. CASE UNCHANGED <<call, events, deleted, raced>>
             /\ wpc # "handler" /\ wpc' # "handler"
  BY <1>5 DEF CallsExact
<1>6. CASE HandlerReturns
  BY <1>6 DEF HandlerReturns, CallsExact
<1>7. CASE UNCHANGED <<call, events, deleted, raced, wpc>>
  BY <1>7 DEF CallsExact
<1> QED
  BY <1>1, <1>2, <1>3, <1>4, <1>5, <1>6, <1>7
     DEF TableNext, tableVars, OpenFd, CloseFd, EpollWait, BatchDone

LEMMA NextEpollExact ==
  ASSUME TableTypeOK, EventsAccounted, CallsExact, EpollExact,
         [TableNext]_tableVars
  PROVE  EpollExact'
<1> USE IdleNotCall
<1>1. ASSUME NEW c \in Callers, NEW fd \in Fds, SetEventHandler(c, fd)
      PROVE EpollExact'
  <2>1. epoll[fd] = NoEvent
    BY <1>1 DEF SetEventHandler, MayCall, EpollExact, Deleting, TableTypeOK
  <2>2. /\ epoll' = epoll
        /\ \A f \in Fds : f # fd => events'[f] = events[f]
        /\ \A d \in Callers : call[d].op = "del" => call'[d] = call[d]
    BY <1>1 DEF SetEventHandler, MayCall, TableTypeOK
  <2> QED
    BY <2>1, <2>2 DEF EpollExact, Deleting
<1>2. ASSUME NEW c \in Callers, NEW fd \in Fds, DeleteEpollEvent(c, fd)
      PROVE EpollExact'
  <2>1. /\ epoll' = epoll
        /\ \A f \in Fds : f # fd => events'[f] = events[f]
        /\ call'[c] = [op |-> "del", fd |-> fd, ev |-> events[fd]]
        /\ \A d \in Callers : call[d].op = "del" => call'[d] = call[d]
    BY <1>2 DEF DeleteEpollEvent, MayCall, TableTypeOK
  <2>2. ASSUME NEW f \in Fds, epoll[f] # NoEvent
        PROVE  epoll'[f] = events'[f] \/ Deleting(f)'
    <3>1. CASE Deleting(f)
      BY <2>1, <3>1 DEF Deleting
    <3>2. CASE epoll[f] = events[f] /\ f # fd
      BY <2>1, <3>2
    <3>3. CASE epoll[f] = events[f] /\ f = fd
      <4>1. call'[c].op = "del" /\ call'[c].fd = f /\ call'[c].ev = epoll'[f]
        BY <2>1, <3>3
      <4> QED
        BY <4>1 DEF Deleting
    <3> QED
      BY <2>2, <3>1, <3>2, <3>3 DEF EpollExact
  <2> QED
    BY <2>1, <2>2 DEF EpollExact
<1>3. ASSUME NEW c \in Callers, NEW fd \in Fds, UpdateEpollEvent(c, fd)
      PROVE EpollExact'
  <2>1. /\ epoll' = epoll /\ events' = events
        /\ \A d \in Callers : call[d].op = "del" => call'[d] = call[d]
    BY <1>3 DEF UpdateEpollEvent, MayCall, TableTypeOK
  <2> QED
    BY <2>1 DEF EpollExact, Deleting
<1>4. ASSUME NEW c \in Callers,
             \/ EpollCtlAdd(c) \/ EpollCtlAddFails(c)
             \/ EpollCtlDel(c) \/ EpollCtlMod(c)
      PROVE EpollExact'
  <2>1. call[c] \in Calls /\ call[c].fd \in Fds /\ call[c].ev \in EventIds
    BY <1>4 DEF TableTypeOK, Calls, EpollCtlAdd, EpollCtlAddFails, EpollCtlDel, EpollCtlMod
  <2>2. /\ call' = [call EXCEPT ![c] = Idle]
        /\ events' = events
    BY <1>4 DEF EpollCtlAdd, EpollCtlAddFails, EpollCtlDel, EpollCtlMod
  <2>3. ASSUME NEW fd \in Fds, epoll'[fd] = epoll[fd], epoll[fd] # NoEvent,
               call[c].op = "del" => call[c].fd # fd
        PROVE  epoll'[fd] = events'[fd] \/ Deleting(fd)'
    <3>1. CASE epoll[fd] = events[fd]
      BY <2>2, <2>3, <3>1
    <3>2. CASE Deleting(fd)
      <4>1. PICK d \in Callers :
               call[d].op = "del" /\ call[d].fd = fd /\ call[d].ev = epoll[fd]
        BY <3>2 DEF Deleting
      <4>2. call'[d] = call[d]
        BY <2>2, <2>3, <4>1 DEF TableTypeOK
      <4> QED
        BY <2>3, <4>1, <4>2 DEF Deleting
    <3> QED
      BY <2>3, <3>1, <3>2 DEF EpollExact
  <2>4. CASE EpollCtlAddFails(c)
    BY <2>3, <2>4 DEF EpollCtlAddFails, EpollExact
  <2>5. CASE EpollCtlDel(c)
    <3>1. \A fd \in Fds : epoll'[fd] = IF fd = call[c].fd THEN NoEvent ELSE epoll[fd]
      BY <2>5 DEF EpollCtlDel, TableTypeOK
    <3> QED
      BY <2>3, <3>1 DEF EpollExact
  <2>6. CASE EpollCtlAdd(c) \/ EpollCtlMod(c)
    <3>1. \A fd \in Fds : epoll'[fd] = epoll[fd]
                            \/ (fd = call[c].fd /\ epoll'[fd] = call[c].ev)
      BY <2>6 DEF EpollCtlAdd, EpollCtlMod, TableTypeOK
    <3>2. call[c].op # "del" /\ events[call[c].fd] = call[c].ev
      BY <2>6 DEF EpollCtlAdd, EpollCtlMod, CallsExact
    <3> QED
      BY <2>2, <2>3, <3>1, <3>2 DEF EpollExact
  <2> QED
    BY <1>4, <2>4, <2>5, <2>6
<1>5. ASSUME NEW fd \in Fds, CloseFd(fd) PROVE EpollExact'
  <2>1. \A f \in Fds : epoll'[f] = IF f = fd THEN NoEvent ELSE epoll[f]
    BY <1>5 DEF CloseFd, TableTypeOK
  <2> QED
    BY <1>5, <2>1 DEF CloseFd, EpollExact, Deleting
<1>6. CASE UNCHANGED <<events, epoll, call>>
  BY <1>6 DEF EpollExact, Deleting
<1> QED
  BY <1>1, <1>2, <1>3, <1>4, <1>5, <1>6
     DEF TableNext, tableVars, OpenFd, EpollWait, HandleEvent, HandlerReturns,
         BatchDone, RemoveDeletedEvents, ClearDeletedEvents

LEMMA NextBatchExact ==
  ASSUME TableInv, [TableNext]_tableVars
  PROVE  BatchExact'
<1> USE IdleNotCall DEF TableInv
<1>1. CASE EpollWait
  <2>1. \A fd \in Fds : epoll[fd] # NoEvent
                         => epoll[fd] \in deleted \cup Registered \cup raced
    BY EpollKnown
  <2>2. batch' \subseteq deleted \cup Registered \cup raced
    BY <1>1, <2>1 DEF EpollWait
  <2>3. Registered' = Registered
    BY <1>1 DEF EpollWait, Registered
  <2> QED
    BY <1>1, <2>2, <2>3 DEF EpollWait, BatchExact
<1>2. CASE RemoveDeletedEvents \/ ClearDeletedEvents
  BY <1>2 DEF RemoveDeletedEvents, ClearDeletedEvents, BatchExact
<1>3. CASE HandleEvent \/ HandlerReturns \/ BatchDone
  <2>1. Registered' = Registered
    BY <1>3 DEF HandleEvent, HandlerReturns, BatchDone, Registered
  <2> QED
    BY <1>3, <2>1 DEF HandleEvent, HandlerReturns, BatchDone, BatchExact
<1>4. CASE /\ UNCHANGED <<batch, wpc, raced>>
           /\ deleted \cup Registered \subseteq deleted' \cup Registered'
  BY <1>4 DEF BatchExact
<1>5. ASSUME NEW c \in Callers, NEW fd \in Fds, SetEventHandler(c, fd)
      PROVE  /\ UNCHANGED <<batch, wpc, raced>>
             /\ deleted \cup Registered \subseteq deleted' \cup Registered'
  <2>1. deleted' = deleted /\ UNCHANGED <<batch, wpc, raced>>
    BY <1>5 DEF SetEventHandler
  <2>2. events[fd] = NoEvent /\ \A f \in Fds : f # fd => events'[f] = events[f]
    BY <1>5 DEF SetEventHandler, TableTypeOK
  <2> QED
    BY <2>1, <2>2 DEF Registered
<1>6. ASSUME NEW c \in Callers, NEW fd \in Fds, DeleteEpollEvent(c, fd)
      PROVE  /\ UNCHANGED <<batch, wpc, raced>>
             /\ deleted \cup Registered \subseteq deleted' \cup Registered'
  <2>1. deleted' = deleted \cup {events[fd]} /\ UNCHANGED <<batch, wpc, raced>>
    BY <1>6 DEF DeleteEpollEvent
  <2>2. \A f \in Fds : f # fd => events'[f] = events[f]
    BY <1>6 DEF DeleteEpollEvent, TableTypeOK
  <2> QED
    BY <2>1, <2>2 DEF Registered
<1>7. CASE UNCHANGED <<batch, wpc, raced, deleted, events>>
  BY <1>7 DEF BatchExact, Registered
<1> QED
  BY <1>1, <1>2, <1>3, <1>4, <1>5, <1>6, <1>7
     DEF TableNext, tableVars, OpenFd, CloseFd, UpdateEpollEvent,
         EpollCtlAdd, EpollCtlAddFails, EpollCtlDel, EpollCtlMod

LEMMA TableInvariant == TableSpec => []TableInv
<1>1. TableInit => TableInv
  <2> SUFFICES ASSUME TableInit PROVE TableInv
    OBVIOUS
  <2>1. EventsAccounted /\ EpollExact /\ BatchExact
    BY DEF TableInit, EventsAccounted, EpollExact, BatchExact, Registered
  <2>2. CallsExact
    BY IdleNotCall DEF TableInit, CallsExact, Callers
  <2> QED
    BY <2>1, <2>2, InitTableTypeOK DEF TableInv
<1>2. TableInv /\ [TableNext]_tableVars => TableInv'
  <2> SUFFICES ASSUME TableInv, [TableNext]_tableVars PROVE TableInv'
    OBVIOUS
  <2> QED
    BY NextTableTypeOK, NextAccounted, NextCallsExact, NextEpollExact,
       NextBatchExact DEF TableInv
<1> QED
  BY <1>1, <1>2, PTL DEF TableSpec

\* PointersLive: the deferred deletion keeps every pointer of the epoll set and
\* of epoll_wait's array valid, whichever thread deletes, unless a deletion by
\* another thread overlaps the loop's RemoveDeletedEvents.
THEOREM PointersStayLive == TableSpec => []PointersLive
  BY TableInvariant, InvPointersLive, PTL

\* NoStaleHandler: HandleEvent calls a handler only for an Event that is still
\* in events_, with the same exception.
THEOREM NoHandlerAfterDelete == TableSpec => NoStaleHandler
<1> DEFINE Stale == wpc # "handler" /\ wpc' = "handler"
           Fresh == cur' \in Registered \cup raced
<1>1. TableInv /\ [TableNext]_tableVars => [Stale => Fresh]_tableVars
  <2> SUFFICES ASSUME TableInv, TableNext, Stale PROVE Fresh
    OBVIOUS
  <2>1. HandleEvent
    BY DEF TableNext, OpenFd, CloseFd, SetEventHandler, DeleteEpollEvent,
           UpdateEpollEvent, EpollCtlAdd, EpollCtlAddFails, EpollCtlDel,
           EpollCtlMod, RemoveDeletedEvents, ClearDeletedEvents, EpollWait,
           HandlerReturns, BatchDone
  <2>2. cur' \in batch /\ cur' \notin deleted
    BY <2>1 DEF HandleEvent, FindDeletedEvent
  <2> QED
    BY <2>2 DEF TableInv, BatchExact
<1> QED
  BY <1>1, TableInvariant, PTL DEF TableSpec, NoStaleHandler
=============================================================================
