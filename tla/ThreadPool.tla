----------------------------- MODULE ThreadPool -----------------------------
(***************************************************************************)
(* testing/thread_pool.cc: SyncRun hands the tasks of a batch to worker    *)
(* threads through one ThreadContext each (a task pointer, a mutex, a      *)
(* condition variable) and polls until all are done; ClearThreadPool ends  *)
(* the workers; ChildAfterFork forgets them in a forked child.             *)
(*                                                                         *)
(* pool_mtx_ serialises SyncRun and ClearThreadPool, so one calling thread *)
(* stands for all.  A batch of one task runs on the caller and touches no  *)
(* shared state.  context->task is a plain pointer that SyncRun polls      *)
(* without the context's mutex; a read returns the old or the new pointer. *)
(***************************************************************************)
EXTENDS Integers, FiniteSets

CONSTANTS
  MaxThreads,   \* max_thread_num_
  MaxTasks,     \* bound on the size of a batch
  MaxCalls      \* bound on the number of calls

\* std::thread::hardware_concurrency() may be 0 where it is not computable;
\* SyncRun then returns without running anything.
ASSUME PoolAssumption ==
  /\ MaxThreads \in Nat \ {0}
  /\ MaxTasks \in Nat
  /\ MaxCalls \in Nat

VARIABLES
  exit_run,      \* exit_run_
  threads,       \* sync_run_threads_.size()
  contexts,      \* contexts_.size()
  task,          \* context i -> index of the task it points to, 0 for nullptr
  locked,        \* the context mutexes held by their workers
  wpc,           \* where each worker is
  mpc,           \* where the caller is: "idle", "sweep", "notify" or "join"
  task_num,      \* size of the batch
  task_index,    \* next task to hand out (0-based, as in the code)
  at,            \* loop variable of the caller
  running,       \* SyncRun's flag
  ran,           \* history: how often each task of the batch was executed
  calls          \* calls made

vars == <<exit_run, threads, contexts, task, locked, wpc, mpc, task_num,
          task_index, at, running, ran, calls>>

Workers   == 1 .. MaxThreads
callerVars == <<exit_run, threads, contexts, mpc, task_num, task_index, at,
                running, calls>>

Init ==
  /\ exit_run = FALSE
  /\ threads = 0
  /\ contexts = 0
  /\ task = [w \in Workers |-> 0]
  /\ locked = {}
  /\ wpc = [w \in Workers |-> "none"]
  /\ mpc = "idle"
  /\ task_num = 0
  /\ task_index = 0
  /\ at = 1
  /\ running = FALSE
  /\ ran = [t \in 1 .. MaxTasks |-> 0]
  /\ calls = 0

-----------------------------------------------------------------------------
(* SyncRunLoop, worker w.                                                  *)

Goto(w, from, to) ==
  /\ wpc[w] = from
  /\ wpc' = [wpc EXCEPT ![w] = to]

\* The test of exit_run_ at the top of the loop, and the one before the task.
TestExit(w) ==
  /\ \/ Goto(w, "top", IF exit_run THEN "ended" ELSE "look")
     \/ Goto(w, "check", IF exit_run THEN "ended" ELSE "run")
  /\ UNCHANGED <<callerVars, task, locked, ran>>

\* No task: yield and try again, or, after kYieldThreshold rounds, wait.
LookYield(w) ==
  /\ task[w] = 0
  /\ Goto(w, "look", "top")
  /\ UNCHANGED <<callerVars, task, locked, ran>>

LookWait(w) ==
  /\ task[w] = 0
  /\ Goto(w, "look", "lock")
  /\ UNCHANGED <<callerVars, task, locked, ran>>

LookTask(w) ==
  /\ task[w] # 0
  /\ Goto(w, "look", "check")
  /\ UNCHANGED <<callerVars, task, locked, ran>>

\* lock(context->mutex), first or on the way out of cond_var->wait.
LockContext(w) ==
  /\ w \notin locked
  /\ Goto(w, "lock", "pred") \/ Goto(w, "relock", "pred")
  /\ locked' = locked \cup {w}
  /\ UNCHANGED <<callerVars, task, ran>>

\* The predicate of the wait, under the mutex.
PredTrue(w) ==
  /\ task[w] # 0 \/ exit_run
  /\ Goto(w, "pred", "check")
  /\ locked' = locked \ {w}
  /\ UNCHANGED <<callerVars, task, ran>>

PredFalse(w) ==
  /\ task[w] = 0 /\ ~exit_run
  /\ Goto(w, "pred", "block")
  /\ UNCHANGED <<callerVars, task, locked, ran>>

\* Release the mutex and sleep, in one step.
Block(w) ==
  /\ Goto(w, "block", "sleep")
  /\ locked' = locked \ {w}
  /\ UNCHANGED <<callerVars, task, ran>>

SpuriousWakeup(w) ==
  /\ Goto(w, "sleep", "relock")
  /\ UNCHANGED <<callerVars, task, locked, ran>>

\* task()
RunTask(w) ==
  /\ Goto(w, "run", "clear")
  /\ ran' = [ran EXCEPT ![task[w]] = @ + 1]
  /\ UNCHANGED <<callerVars, task, locked>>

\* context->task = nullptr, only after the task returned.
ClearTask(w) ==
  /\ Goto(w, "clear", "top")
  /\ task' = [task EXCEPT ![w] = 0]
  /\ UNCHANGED <<callerVars, locked, ran>>

-----------------------------------------------------------------------------
(* The caller.                                                             *)

workerVars == <<task, locked, wpc, ran>>

\* SyncRun of a batch of n > 1 tasks: create the missing workers, then sweep.
SyncRun(n) ==
  LET new  == IF n < MaxThreads THEN n ELSE MaxThreads
      grow == threads < MaxThreads /\ threads < n
      born == IF grow THEN threads + 1 .. new ELSE {}
  IN
  /\ mpc = "idle" /\ calls < MaxCalls
  /\ calls' = calls + 1
  /\ exit_run' = FALSE
  /\ threads' = IF grow THEN new ELSE threads
  /\ contexts' = IF grow THEN new ELSE contexts
  /\ task' = [w \in Workers |-> IF w \in born THEN 0 ELSE task[w]]
  /\ locked' = locked \ born
  /\ wpc' = [w \in Workers |-> IF w \in born THEN "top" ELSE wpc[w]]
  /\ mpc' = "sweep"
  /\ task_num' = n
  /\ task_index' = 0
  /\ at' = 1
  /\ running' = FALSE
  /\ ran' = [t \in 1 .. MaxTasks |-> 0]

UsedThreads == IF task_num < contexts THEN task_num ELSE contexts

\* notify_one on the condition variable of context i.
Notified(i) == IF wpc[i] = "sleep" THEN [wpc EXCEPT ![i] = "relock"] ELSE wpc

\* The sweep's flag not raised for busy contexts.
SweepBusyMutant ==
  /\ mpc = "sweep" /\ at <= UsedThreads
  /\ task[at] # 0
  /\ at' = at + 1
  /\ UNCHANGED <<exit_run, threads, contexts, mpc, task_num, task_index,
                 running, calls, workerVars>>

\* One context of the sweep: busy, or free and given the next task (task_lock
\* is taken around the assignment and the notify), or free with none left.
SweepBusy ==
  /\ mpc = "sweep" /\ at <= UsedThreads
  /\ task[at] # 0
  /\ running' = TRUE
  /\ at' = at + 1
  /\ UNCHANGED <<exit_run, threads, contexts, mpc, task_num, task_index, calls,
                 workerVars>>

\* The task assigned without the context's mutex.
SweepGiveMutant ==
  /\ mpc = "sweep" /\ at <= UsedThreads
  /\ task[at] = 0 /\ task_index < task_num
  /\ task' = [task EXCEPT ![at] = task_index + 1]
  /\ wpc' = Notified(at)
  /\ running' = TRUE
  /\ task_index' = task_index + 1
  /\ at' = at + 1
  /\ UNCHANGED <<exit_run, threads, contexts, mpc, task_num, calls, locked, ran>>

SweepGive ==
  /\ mpc = "sweep" /\ at <= UsedThreads
  /\ task[at] = 0 /\ task_index < task_num
  /\ at \notin locked
  /\ task' = [task EXCEPT ![at] = task_index + 1]
  /\ wpc' = Notified(at)
  /\ running' = TRUE
  /\ task_index' = task_index + 1
  /\ at' = at + 1
  /\ UNCHANGED <<exit_run, threads, contexts, mpc, task_num, calls, locked, ran>>

SweepSkip ==
  /\ mpc = "sweep" /\ at <= UsedThreads
  /\ task[at] = 0 /\ task_index = task_num
  /\ at' = at + 1
  /\ UNCHANGED <<exit_run, threads, contexts, mpc, task_num, task_index,
                 running, calls, workerVars>>

\* A sweep that found every context free and no task left ends SyncRun.
SweepEnd ==
  /\ mpc = "sweep" /\ at > UsedThreads
  /\ mpc' = IF running THEN "sweep" ELSE "idle"
  /\ at' = 1
  /\ running' = FALSE
  /\ UNCHANGED <<exit_run, threads, contexts, task_num, task_index, calls,
                 workerVars>>

\* ClearThreadPool: exit_run_ is set without the mutexes of the contexts.
ClearThreadPool ==
  /\ mpc = "idle" /\ calls < MaxCalls
  /\ ~exit_run
  /\ calls' = calls + 1
  /\ exit_run' = TRUE
  /\ mpc' = "notify"
  /\ at' = 1
  /\ UNCHANGED <<threads, contexts, task_num, task_index, running, workerVars>>

ClearNotify ==
  /\ mpc = "notify"
  /\ IF at <= contexts
       THEN wpc' = Notified(at) /\ at' = at + 1 /\ UNCHANGED mpc
       ELSE mpc' = "join" /\ at' = 1 /\ UNCHANGED wpc
  /\ UNCHANGED <<exit_run, threads, contexts, task_num, task_index, running,
                 calls, task, locked, ran>>

\* join every thread, then sync_run_threads_.clear().
ClearJoin ==
  /\ mpc = "join"
  /\ \A w \in 1 .. threads : wpc[w] = "ended"
  /\ wpc' = [w \in Workers |-> "none"]
  /\ threads' = 0
  /\ mpc' = "idle"
  /\ UNCHANGED <<exit_run, contexts, task_num, task_index, at, running, calls,
                 task, locked, ran>>

\* The forked child has none of the workers; it drops their contexts.
ChildAfterFork ==
  /\ mpc = "idle" /\ calls < MaxCalls
  /\ calls' = calls + 1
  /\ threads' = 0
  /\ contexts' = 0
  /\ task' = [w \in Workers |-> 0]
  /\ locked' = {}
  /\ wpc' = [w \in Workers |-> "none"]
  /\ UNCHANGED <<exit_run, mpc, task_num, task_index, at, running, ran>>

-----------------------------------------------------------------------------
WorkerStep(w) ==
  \/ TestExit(w) \/ LookYield(w) \/ LookWait(w) \/ LookTask(w)
  \/ LockContext(w) \/ PredTrue(w) \/ PredFalse(w) \/ Block(w)
  \/ RunTask(w) \/ ClearTask(w)

Sweep == SweepBusy \/ SweepGive \/ SweepSkip \/ SweepEnd

Clearing == ClearNotify \/ ClearJoin

Next ==
  \/ \E w \in Workers : WorkerStep(w) \/ SpuriousWakeup(w)
  \/ \E n \in 2 .. MaxTasks : SyncRun(n)
  \/ Sweep \/ ClearThreadPool \/ Clearing \/ ChildAfterFork

Spec == Init /\ [][Next]_vars

\* Every thread that can run does run, and a thread waiting for a mutex that is
\* released again and again gets it (SweepGive takes the context's mutex).  No
\* spurious wake-up is promised.
Fairness ==
  /\ \A w \in Workers : WF_vars(WorkerStep(w))
  /\ WF_vars(SweepBusy \/ SweepSkip \/ SweepEnd) /\ SF_vars(SweepGive)
  /\ WF_vars(Clearing)

FairSpec == Spec /\ Fairness

-----------------------------------------------------------------------------
(* Properties.                                                             *)

\* When SyncRun returns, every task of the batch has been executed and no
\* worker holds a pointer into the caller's vector of tasks any more.
ReturnMeansDone ==
  [][(mpc = "sweep" /\ mpc' = "idle") =>
       /\ \A t \in 1 .. task_num : ran[t] = 1
       /\ \A w \in Workers : task[w] = 0 /\ wpc[w] \notin {"run", "clear"}]_vars

\* SyncRun ends: a worker that is going to sleep cannot miss its task.
SyncRunReturns == (mpc = "sweep") ~> (mpc = "idle")

\* The wait of SyncRunLoop is meant to end when exit_run_ is set
\* ("return context->task != nullptr || exit_run_"), so that ClearThreadPool,
\* which joins the workers, returns.
ClearThreadPoolReturns == (mpc = "notify") ~> (mpc = "idle")
=============================================================================
