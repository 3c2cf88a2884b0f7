-------------------------- MODULE ThreadPoolProofs --------------------------
(***************************************************************************)
(* Proofs about ThreadPool, for any number of threads, tasks and calls:    *)
(* SyncRun returns only when every task of the batch has run exactly once  *)
(* and no worker refers to the batch any more.                             *)
(***************************************************************************)
EXTENDS ThreadPool, TLAPS

WorkerPc ==
  {"none", "top", "look", "lock", "relock", "pred", "block", "sleep", "check", "run",
   "clear", "ended"}

\* Every variable has its type.
PoolTypeOK ==
  /\ exit_run \in BOOLEAN
  /\ threads \in 0 .. MaxThreads
  /\ contexts \in 0 .. MaxThreads
  /\ task \in [Workers -> 0 .. MaxTasks]
  /\ locked \in SUBSET Workers
  /\ wpc \in [Workers -> WorkerPc]
  /\ mpc \in {"idle", "sweep", "notify", "join"}
  /\ task_num \in 0 .. MaxTasks
  /\ task_index \in 0 .. MaxTasks
  /\ at \in Nat \ {0}
  /\ running \in BOOLEAN
  /\ ran \in [1 .. MaxTasks -> Nat]
  /\ calls \in Nat

\* A task of the batch is given to one worker, which runs it once; what has been
\* handed out has run or is with a worker.
TasksExact ==
  /\ task_index <= task_num
  /\ \A w \in Workers : task[w] <= task_index
  /\ \A v, w \in Workers : task[v] = task[w] /\ task[v] # 0 => v = w
  /\ \A w \in Workers :
       task[w] # 0 => ran[task[w]] = IF wpc[w] = "clear" THEN 1 ELSE 0
  /\ \A t \in 1 .. task_num : t > task_index => ran[t] = 0
  /\ \A t \in 1 .. task_index : ran[t] = 1 \/ \E w \in Workers : task[w] = t

\* A worker past the tests of its loop has a task, or is about to see exit_run_.
WorkersExact ==
  \A w \in Workers :
    /\ wpc[w] \in {"run", "clear"} => task[w] # 0
    /\ wpc[w] = "check" => task[w] # 0 \/ exit_run

\* Only SyncRun gives tasks, to the contexts it sweeps.  A context it passed
\* without raising running is free, and then there was no task left to give.
SweepExact ==
  /\ mpc # "sweep" => \A w \in Workers : task[w] = 0
  /\ mpc = "sweep" =>
       /\ contexts > 0 /\ task_num > 0 /\ ~exit_run
       /\ \A w \in Workers : w > UsedThreads => task[w] = 0
       /\ ~running => /\ \A w \in Workers : w < at => task[w] = 0
                      /\ at > 1 => task_index = task_num

\* exit_run_ stays set until the next SyncRun, and no worker outlives it.
ExitExact ==
  /\ threads <= contexts
  /\ mpc \in {"notify", "join"} => exit_run
  /\ mpc = "idle" /\ exit_run => \A w \in Workers : wpc[w] = "none"

PoolInv == PoolTypeOK /\ TasksExact /\ WorkersExact /\ SweepExact /\ ExitExact

-----------------------------------------------------------------------------
(* The initial state and the workers.                                      *)

LEMMA InitInv == Init => PoolInv
<1> SUFFICES ASSUME Init PROVE PoolInv
  OBVIOUS
<1> USE PoolAssumption DEF PoolAssumption
<1>1. exit_run \in BOOLEAN /\ running \in BOOLEAN
  BY Zenon DEF Init
<1>2. PoolTypeOK
  BY <1>1 DEF Init, PoolTypeOK, WorkerPc
<1>3. TasksExact /\ WorkersExact
  BY DEF Init, TasksExact, WorkersExact
<1>4. SweepExact /\ ExitExact
  BY DEF Init, SweepExact, ExitExact
<1> QED
  BY <1>2, <1>3, <1>4 DEF PoolInv

\* A step of worker w that is neither the task nor the end of it: it touches
\* its place and its mutex only.
LEMMA MoveInv ==
  ASSUME PoolInv, NEW w \in Workers, NEW from \in WorkerPc, NEW to \in WorkerPc,
         from \notin {"none", "run", "clear"}, to # "clear",
         to = "run" => task[w] # 0,
         to = "check" => task[w] # 0 \/ exit_run,
         Goto(w, from, to), locked' \in SUBSET Workers,
         UNCHANGED <<callerVars, task, ran>>
  PROVE  PoolInv'
<1> USE DEF PoolInv
<1>1. /\ wpc[w] = from /\ wpc' = [wpc EXCEPT ![w] = to]
      /\ UNCHANGED <<exit_run, threads, contexts, mpc, task_num, task_index, at,
                     running, calls, task, ran>>
  BY DEF Goto, callerVars
<1>2. \A v \in Workers : wpc'[v] = IF v = w THEN to ELSE wpc[v]
  BY <1>1 DEF PoolTypeOK
<1>3. PoolTypeOK'
  BY <1>1 DEF PoolTypeOK
<1>4. TasksExact'
  BY <1>1, <1>2 DEF TasksExact
<1>5. WorkersExact'
  BY <1>1, <1>2 DEF WorkersExact
<1>6. SweepExact'
  BY <1>1 DEF SweepExact, UsedThreads
<1>7. ExitExact'
  BY <1>1, <1>2 DEF ExitExact
<1> QED
  BY <1>3, <1>4, <1>5, <1>6, <1>7

LEMMA RunInv ==
  ASSUME PoolInv, NEW w \in Workers, RunTask(w)
  PROVE  PoolInv'
<1> USE PoolAssumption DEF PoolInv, PoolAssumption
<1>1. /\ wpc[w] = "run" /\ wpc' = [wpc EXCEPT ![w] = "clear"]
      /\ ran' = [ran EXCEPT ![task[w]] = @ + 1]
      /\ UNCHANGED <<exit_run, threads, contexts, mpc, task_num, task_index, at,
                     running, calls, task, locked>>
  BY DEF RunTask, Goto, callerVars
<1>2. task[w] # 0 /\ task[w] \in 1 .. MaxTasks /\ ran[task[w]] = 0
      /\ task[w] <= task_index
  BY <1>1 DEF WorkersExact, TasksExact, PoolTypeOK
<1>3. \A v \in Workers : wpc'[v] = IF v = w THEN "clear" ELSE wpc[v]
  BY <1>1 DEF PoolTypeOK
<1>4. \A t \in 1 .. MaxTasks : ran'[t] = IF t = task[w] THEN 1 ELSE ran[t]
  BY <1>1, <1>2 DEF PoolTypeOK
<1>5. PoolTypeOK'
  <2>1. ran' \in [1 .. MaxTasks -> Nat] /\ wpc' \in [Workers -> WorkerPc]
    BY <1>1, <1>2 DEF PoolTypeOK, WorkerPc
  <2> QED
    BY <1>1, <2>1 DEF PoolTypeOK
<1>6. TasksExact'
  <2>1. \A v \in Workers : task[v] # 0 => task[v] \in 1 .. MaxTasks
    BY DEF PoolTypeOK
  <2>2. \A v \in Workers :
          task'[v] # 0 => ran'[task'[v]] = IF wpc'[v] = "clear" THEN 1 ELSE 0
    BY <1>1, <1>2, <1>3, <1>4, <2>1 DEF TasksExact
  <2>3. \A t \in 1 .. task_num' : t > task_index' => ran'[t] = 0
    BY <1>1, <1>2, <1>4 DEF TasksExact, PoolTypeOK
  <2>4. \A t \in 1 .. task_index' : ran'[t] = 1 \/ \E v \in Workers : task'[v] = t
    BY <1>1, <1>4 DEF TasksExact, PoolTypeOK
  <2> QED
    BY <1>1, <2>2, <2>3, <2>4 DEF TasksExact
<1>7. WorkersExact'
  BY <1>1, <1>2, <1>3 DEF WorkersExact
<1>8. SweepExact'
  BY <1>1 DEF SweepExact, UsedThreads
<1>9. ExitExact'
  BY <1>1, <1>3 DEF ExitExact
<1> QED
  BY <1>5, <1>6, <1>7, <1>8, <1>9

LEMMA ClearTaskInv ==
  ASSUME PoolInv, NEW w \in Workers, ClearTask(w)
  PROVE  PoolInv'
<1> USE PoolAssumption DEF PoolInv, PoolAssumption
<1>1. /\ wpc[w] = "clear" /\ wpc' = [wpc EXCEPT ![w] = "top"]
      /\ task' = [task EXCEPT ![w] = 0]
      /\ UNCHANGED <<exit_run, threads, contexts, mpc, task_num, task_index, at,
                     running, calls, ran, locked>>
  BY DEF ClearTask, Goto, callerVars
<1>2. task[w] # 0 /\ ran[task[w]] = 1
  BY <1>1 DEF WorkersExact, TasksExact
<1>3. \A v \in Workers : wpc'[v] = IF v = w THEN "top" ELSE wpc[v]
  BY <1>1 DEF PoolTypeOK
<1>4. \A v \in Workers : task'[v] = IF v = w THEN 0 ELSE task[v]
  BY <1>1 DEF PoolTypeOK
<1>5. PoolTypeOK'
  <2>1. task' \in [Workers -> 0 .. MaxTasks] /\ wpc' \in [Workers -> WorkerPc]
    BY <1>1 DEF PoolTypeOK, WorkerPc
  <2> QED
    BY <1>1, <2>1 DEF PoolTypeOK
<1>6. TasksExact'
  <2>1. \A t \in 1 .. task_index' : ran'[t] = 1 \/ \E v \in Workers : task'[v] = t
    BY <1>1, <1>2, <1>4 DEF TasksExact
  <2>2. \A v \in Workers : task'[v] <= task_index'
    BY <1>1, <1>4 DEF TasksExact, PoolTypeOK
  <2> QED
    BY <1>1, <1>3, <1>4, <2>1, <2>2 DEF TasksExact
<1>7. WorkersExact'
  BY <1>1, <1>3, <1>4 DEF WorkersExact
<1>8. SweepExact'
  BY <1>1, <1>4 DEF SweepExact, UsedThreads
<1>9. ExitExact'
  BY <1>1, <1>3 DEF ExitExact
<1> QED
  BY <1>5, <1>6, <1>7, <1>8, <1>9

LEMMA WorkerInv ==
  ASSUME PoolInv, NEW w \in Workers, WorkerStep(w) \/ SpuriousWakeup(w)
  PROVE  PoolInv'
<1> USE DEF PoolInv
<1>1. CASE TestExit(w)
  <2>1. UNCHANGED <<callerVars, task, ran>> /\ locked' \in SUBSET Workers
    BY <1>1 DEF TestExit, PoolTypeOK
  <2>2. \/ Goto(w, "top", "ended") \/ Goto(w, "top", "look") \/ Goto(w, "check", "ended")
        \/ Goto(w, "check", "run") /\ ~exit_run
    BY <1>1 DEF TestExit
  <2>3. Goto(w, "check", "run") /\ ~exit_run => task[w] # 0
    BY DEF Goto, WorkersExact
  <2> QED
    BY <2>1, <2>2, <2>3, MoveInv DEF WorkerPc
<1>2. CASE LookYield(w) \/ LookWait(w) \/ LookTask(w)
  <2>1. UNCHANGED <<callerVars, task, ran>> /\ locked' \in SUBSET Workers
    BY <1>2 DEF LookYield, LookWait, LookTask, PoolTypeOK
  <2>2. \/ Goto(w, "look", "top") \/ Goto(w, "look", "lock")
        \/ Goto(w, "look", "check") /\ task[w] # 0
    BY <1>2 DEF LookYield, LookWait, LookTask
  <2> QED
    BY <2>1, <2>2, MoveInv DEF WorkerPc
<1>3. CASE LockContext(w) \/ PredTrue(w) \/ PredFalse(w) \/ Block(w) \/ SpuriousWakeup(w)
  <2>1. UNCHANGED <<callerVars, task, ran>> /\ locked' \in SUBSET Workers
    BY <1>3 DEF LockContext, PredTrue, PredFalse, Block, SpuriousWakeup, PoolTypeOK
  <2>2. \/ Goto(w, "lock", "pred") \/ Goto(w, "relock", "pred") \/ Goto(w, "pred", "block")
        \/ Goto(w, "pred", "check") /\ (task[w] # 0 \/ exit_run)
        \/ Goto(w, "block", "sleep") \/ Goto(w, "sleep", "relock")
    BY <1>3 DEF LockContext, PredTrue, PredFalse, Block, SpuriousWakeup
  <2> QED
    BY <2>1, <2>2, MoveInv DEF WorkerPc
<1> QED
  BY <1>1, <1>2, <1>3, RunInv, ClearTaskInv DEF WorkerStep

-----------------------------------------------------------------------------
(* The caller.                                                             *)

LEMMA SyncRunInv ==
  ASSUME PoolInv, NEW n \in 2 .. MaxTasks, SyncRun(n)
  PROVE  PoolInv'
<1> USE PoolAssumption DEF PoolInv, PoolAssumption
<1> DEFINE new  == IF n < MaxThreads THEN n ELSE MaxThreads
           grow == threads < MaxThreads /\ threads < n
           born == IF grow THEN threads + 1 .. new ELSE {}
<1>1. /\ mpc = "idle" /\ mpc' = "sweep" /\ exit_run' = FALSE /\ running' = FALSE
      /\ calls' = calls + 1 /\ task_num' = n /\ task_index' = 0 /\ at' = 1
      /\ threads' = IF grow THEN new ELSE threads
      /\ contexts' = IF grow THEN new ELSE contexts
      /\ task' = [w \in Workers |-> IF w \in born THEN 0 ELSE task[w]]
      /\ locked' = locked \ born
      /\ wpc' = [w \in Workers |-> IF w \in born THEN "top" ELSE wpc[w]]
      /\ ran' = [t \in 1 .. MaxTasks |-> 0]
  BY DEF SyncRun
<1>2. /\ threads' \in 0 .. MaxThreads /\ contexts' \in 0 .. MaxThreads
      /\ threads' <= contexts' /\ contexts' > 0
  BY <1>1 DEF PoolTypeOK, ExitExact
<1> HIDE DEF new, grow, born
<1>3. \A w \in Workers : task'[w] = 0
  BY <1>1 DEF SweepExact
<1>4. \A w \in Workers : wpc'[w] \notin {"run", "clear", "check"}
  BY <1>1 DEF WorkersExact, SweepExact, ExitExact
<1>5. exit_run' \in BOOLEAN /\ running' \in BOOLEAN
  BY <1>1, Zenon
<1>6. PoolTypeOK'
  <2>1. /\ task' \in [Workers -> 0 .. MaxTasks] /\ wpc' \in [Workers -> WorkerPc]
        /\ ran' \in [1 .. MaxTasks -> Nat] /\ locked' \in SUBSET Workers
    BY <1>1 DEF PoolTypeOK, WorkerPc
  <2> QED
    BY <1>1, <1>2, <1>5, <2>1 DEF PoolTypeOK
<1>7. TasksExact'
  BY <1>1, <1>3 DEF TasksExact
<1>8. WorkersExact'
  BY <1>4 DEF WorkersExact
<1>9. SweepExact'
  BY <1>1, <1>2, <1>3 DEF SweepExact
<1>10. ExitExact'
  BY <1>1, <1>2 DEF ExitExact
<1> QED
  BY <1>6, <1>7, <1>8, <1>9, <1>10

LEMMA Used ==
  ASSUME PoolTypeOK, mpc = "sweep", at <= UsedThreads
  PROVE  at \in Workers /\ at \in Nat
  BY PoolAssumption DEF PoolTypeOK, UsedThreads, Workers, PoolAssumption

LEMMA SweepGiveInv ==
  ASSUME PoolInv, SweepGive
  PROVE  PoolInv'
<1> USE PoolAssumption DEF PoolInv, PoolAssumption
<1>1. /\ mpc = "sweep" /\ at <= UsedThreads /\ task[at] = 0 /\ task_index < task_num
      /\ task' = [task EXCEPT ![at] = task_index + 1]
      /\ wpc' = Notified(at)
      /\ running' = TRUE /\ task_index' = task_index + 1 /\ at' = at + 1
      /\ UNCHANGED <<exit_run, threads, contexts, mpc, task_num, calls, locked, ran>>
  BY DEF SweepGive
<1>2. at \in Workers /\ at \in Nat
  BY <1>1, Used
<1>3. \A w \in Workers : task'[w] = IF w = at THEN task_index + 1 ELSE task[w]
  BY <1>1, <1>2 DEF PoolTypeOK
<1>4. \A w \in Workers : wpc'[w] = wpc[w] \/ (w = at /\ wpc'[w] = "relock")
  BY <1>1, <1>2 DEF Notified, PoolTypeOK
<1>5. running' \in BOOLEAN
  BY <1>1, Zenon
<1>6. task_index \in Nat /\ task_num \in Nat /\ task_index + 1 \in 1 .. MaxTasks
  BY <1>1 DEF PoolTypeOK
<1>7. PoolTypeOK'
  <2>0. task_index + 1 \in 0 .. MaxTasks
    BY <1>6
  <2>1. task' \in [Workers -> 0 .. MaxTasks]
    BY <1>1, <2>0 DEF PoolTypeOK
  <2>2. wpc' \in [Workers -> WorkerPc]
    BY <1>1, <1>2 DEF PoolTypeOK, WorkerPc, Notified
  <2> QED
    BY <1>1, <1>2, <1>5, <1>6, <2>1, <2>2 DEF PoolTypeOK
<1>8. TasksExact'
  <2>0. \A w \in Workers : task[w] \in Nat /\ task[w] <= task_index
    BY DEF TasksExact, PoolTypeOK
  <2>1. \A w \in Workers : task'[w] <= task_index'
    BY <1>1, <1>3, <1>6, <2>0
  <2>2. \A v, w \in Workers : task'[v] = task'[w] /\ task'[v] # 0 => v = w
    BY <1>3, <1>6, <2>0 DEF TasksExact
  <2>3. \A w \in Workers :
          task'[w] # 0 => ran'[task'[w]] = IF wpc'[w] = "clear" THEN 1 ELSE 0
    <3>1. ran[task_index + 1] = 0 /\ wpc'[at] # "clear"
      BY <1>1, <1>2, <1>4, <1>6 DEF TasksExact, WorkersExact
    <3> QED
      BY <1>1, <1>3, <1>4, <3>1 DEF TasksExact
  <2>4. \A t \in 1 .. task_num' : t > task_index' => ran'[t] = 0
    BY <1>1, <1>6 DEF TasksExact
  <2>5. \A t \in 1 .. task_index' : ran'[t] = 1 \/ \E w \in Workers : task'[w] = t
    <3> SUFFICES ASSUME NEW t \in 1 .. task_index'
                 PROVE  ran'[t] = 1 \/ \E w \in Workers : task'[w] = t
      OBVIOUS
    <3>1. CASE t = task_index + 1
      BY <1>2, <1>3, <3>1
    <3>2. CASE t \in 1 .. task_index
      BY <1>1, <1>3, <1>6, <3>2 DEF TasksExact
    <3> QED
      BY <1>1, <1>6, <3>1, <3>2
  <2> QED
    BY <1>1, <1>6, <2>1, <2>2, <2>3, <2>4, <2>5 DEF TasksExact
<1>9. WorkersExact'
  BY <1>1, <1>3, <1>4, <1>6 DEF WorkersExact
<1>10. SweepExact'
  <2>1. UsedThreads' = UsedThreads /\ UsedThreads \in Nat
    BY <1>1 DEF UsedThreads, PoolTypeOK
  <2>2. \A w \in Workers : w > UsedThreads => w # at
    BY <1>1, <1>2, <2>1 DEF Workers
  <2>3. \A w \in Workers : w > UsedThreads' => task'[w] = 0
    BY <1>1, <1>3, <2>1, <2>2 DEF SweepExact
  <2> QED
    BY <1>1, <2>3 DEF SweepExact
<1>11. ExitExact'
  BY <1>1 DEF ExitExact
<1> QED
  BY <1>7, <1>8, <1>9, <1>10, <1>11

\* What the end of a sweep without a busy context shows.
LEMMA SweepFindsAllDone ==
  ASSUME PoolInv, SweepEnd, ~running
  PROVE  /\ \A t \in 1 .. task_num : ran[t] = 1
         /\ \A w \in Workers : task[w] = 0 /\ wpc[w] \notin {"run", "clear"}
<1> USE PoolAssumption DEF PoolInv, PoolAssumption
<1>1. mpc = "sweep" /\ at > UsedThreads
  BY DEF SweepEnd
<1>2. UsedThreads \in Nat /\ UsedThreads > 0 /\ at \in Nat
  BY <1>1 DEF SweepExact, PoolTypeOK, UsedThreads
<1>3. task_index = task_num
  BY <1>1, <1>2 DEF SweepExact
<1>4. \A w \in Workers : task[w] = 0
  <2> SUFFICES ASSUME NEW w \in Workers PROVE task[w] = 0
    OBVIOUS
  <2>1. w \in Nat
    BY DEF Workers
  <2>2. CASE w < at
    BY <1>1, <2>2 DEF SweepExact
  <2>3. CASE w > UsedThreads
    BY <1>1, <2>3 DEF SweepExact
  <2> QED
    BY <1>1, <1>2, <2>1, <2>2, <2>3
<1>5. \A t \in 1 .. task_num : ran[t] = 1
  BY <1>3, <1>4 DEF TasksExact, PoolTypeOK
<1> QED
  BY <1>4, <1>5 DEF WorkersExact

LEMMA SweepInv ==
  ASSUME PoolInv, SweepBusy \/ SweepSkip \/ SweepEnd
  PROVE  PoolInv'
<1> USE PoolAssumption DEF PoolInv, PoolAssumption
<1>1. /\ mpc = "sweep"
      /\ UNCHANGED <<exit_run, threads, contexts, task_num, task_index, calls,
                     task, locked, wpc, ran>>
  BY DEF SweepBusy, SweepSkip, SweepEnd, workerVars
<1>2. at' \in Nat \ {0} /\ mpc' \in {"idle", "sweep"}
  BY DEF SweepBusy, SweepSkip, SweepEnd, PoolTypeOK
<1>3. running' \in BOOLEAN
  BY Zenon DEF SweepBusy, SweepSkip, SweepEnd, PoolTypeOK
<1>4. PoolTypeOK'
  BY <1>1, <1>2, <1>3 DEF PoolTypeOK
<1>5. TasksExact' /\ WorkersExact'
  BY <1>1 DEF TasksExact, WorkersExact
<1>6. ExitExact'
  BY <1>1, <1>2 DEF ExitExact, SweepExact
<1>7. SweepExact'
  <2>1. CASE SweepBusy
    BY <1>1, <2>1 DEF SweepBusy, SweepExact, UsedThreads
  <2>2. CASE SweepSkip
    <3>1. /\ at \in Workers /\ at \in Nat /\ task[at] = 0 /\ task_index = task_num
          /\ at' = at + 1 /\ mpc' = mpc /\ (running' <=> running)
      BY <2>2, Used DEF SweepSkip
    <3>2. \A w \in Workers : w < at' => w < at \/ w = at
      BY <3>1 DEF Workers
    <3> QED
      BY <1>1, <3>1, <3>2 DEF SweepExact, UsedThreads
  <2>3. CASE SweepEnd /\ running
    <3>1. at' = 1 /\ mpc' = "sweep" /\ \A w \in Workers : ~ (w < 1)
      BY <2>3 DEF SweepEnd, Workers
    <3> QED
      BY <1>1, <3>1 DEF SweepExact, UsedThreads
  <2>4. CASE SweepEnd /\ ~running
    <3>1. mpc' = "idle" /\ \A w \in Workers : task[w] = 0
      BY <2>4, SweepFindsAllDone DEF SweepEnd
    <3> QED
      BY <1>1, <3>1 DEF SweepExact
  <2> QED
    BY <2>1, <2>2, <2>3, <2>4
<1> QED
  BY <1>4, <1>5, <1>6, <1>7

LEMMA ClearInv ==
  ASSUME PoolInv, ClearThreadPool \/ ClearNotify \/ ClearJoin
  PROVE  PoolInv'
<1> USE PoolAssumption DEF PoolInv, PoolAssumption
<1>1. CASE ClearThreadPool
  <2>1. /\ mpc = "idle" /\ mpc' = "notify" /\ exit_run' = TRUE /\ at' = 1
        /\ calls' = calls + 1
        /\ UNCHANGED <<threads, contexts, task_num, task_index, running, task, locked,
                       wpc, ran>>
    BY <1>1 DEF ClearThreadPool, workerVars
  <2>2. exit_run' \in BOOLEAN
    BY <2>1, Zenon
  <2>3. PoolTypeOK'
    BY <2>1, <2>2 DEF PoolTypeOK
  <2>4. TasksExact' /\ WorkersExact'
    BY <2>1 DEF TasksExact, WorkersExact
  <2>5. SweepExact' /\ ExitExact'
    BY <2>1 DEF SweepExact, ExitExact
  <2> QED
    BY <2>3, <2>4, <2>5
<1>2. CASE ClearNotify
  <2>1. /\ mpc = "notify" /\ mpc' \in {"notify", "join"} /\ at' \in Nat \ {0}
        /\ UNCHANGED <<exit_run, threads, contexts, task_num, task_index, running,
                       calls, task, locked, ran>>
    BY <1>2 DEF ClearNotify, PoolTypeOK
  <2>2. wpc' = wpc \/ (at <= contexts /\ wpc' = Notified(at))
    BY <1>2 DEF ClearNotify
  <2>3. at <= contexts => at \in Workers
    BY DEF PoolTypeOK, Workers
  <2>4. /\ wpc' \in [Workers -> WorkerPc]
        /\ \A w \in Workers : wpc'[w] = wpc[w] \/ (wpc[w] = "sleep" /\ wpc'[w] = "relock")
    BY <2>2, <2>3 DEF Notified, PoolTypeOK, WorkerPc
  <2>5. PoolTypeOK'
    BY <2>1, <2>4 DEF PoolTypeOK
  <2>6. TasksExact' /\ WorkersExact'
    BY <2>1, <2>4 DEF TasksExact, WorkersExact
  <2>7. SweepExact' /\ ExitExact'
    BY <2>1 DEF SweepExact, ExitExact
  <2> QED
    BY <2>5, <2>6, <2>7
<1>3. CASE ClearJoin
  <2>1. /\ mpc = "join" /\ mpc' = "idle" /\ threads' = 0
        /\ wpc' = [w \in Workers |-> "none"]
        /\ UNCHANGED <<exit_run, contexts, task_num, task_index, at, running, calls,
                       task, locked, ran>>
    BY <1>3 DEF ClearJoin
  <2>2. \A w \in Workers : wpc'[w] = "none" /\ task[w] = 0
    BY <2>1 DEF SweepExact
  <2>3. PoolTypeOK'
    BY <2>1 DEF PoolTypeOK, WorkerPc
  <2>4. TasksExact'
    BY <2>1, <2>2 DEF TasksExact
  <2>5. WorkersExact' /\ SweepExact' /\ ExitExact'
    BY <2>1, <2>2 DEF WorkersExact, SweepExact, ExitExact, PoolTypeOK
  <2> QED
    BY <2>3, <2>4, <2>5
<1> QED
  BY <1>1, <1>2, <1>3

LEMMA ForkInv ==
  ASSUME PoolInv, ChildAfterFork
  PROVE  PoolInv'
<1> USE PoolAssumption DEF PoolInv, PoolAssumption
<1>1. /\ mpc = "idle" /\ mpc' = "idle" /\ calls' = calls + 1
      /\ threads' = 0 /\ contexts' = 0 /\ locked' = {}
      /\ task' = [w \in Workers |-> 0] /\ wpc' = [w \in Workers |-> "none"]
      /\ UNCHANGED <<exit_run, task_num, task_index, at, running, ran>>
  BY DEF ChildAfterFork
<1>2. \A w \in Workers : wpc'[w] = "none" /\ task[w] = 0 /\ task'[w] = 0
  BY <1>1 DEF SweepExact
<1>3. PoolTypeOK'
  BY <1>1 DEF PoolTypeOK, WorkerPc
<1>4. TasksExact'
  BY <1>1, <1>2 DEF TasksExact
<1>5. WorkersExact' /\ SweepExact' /\ ExitExact'
  BY <1>1, <1>2 DEF WorkersExact, SweepExact, ExitExact
<1> QED
  BY <1>3, <1>4, <1>5

-----------------------------------------------------------------------------
(* The theorem.                                                            *)

LEMMA PoolInvariant == Spec => []PoolInv
<1>1. PoolInv /\ UNCHANGED vars => PoolInv'
  BY DEF PoolInv, PoolTypeOK, TasksExact, WorkersExact, SweepExact, ExitExact,
         UsedThreads, vars
<1>2. PoolInv /\ [Next]_vars => PoolInv'
  BY <1>1, WorkerInv, SyncRunInv, SweepGiveInv, SweepInv, ClearInv, ForkInv
     DEF Next, Sweep, Clearing
<1> QED
  BY <1>2, InitInv, PTL DEF Spec

\* ReturnMeansDone: although SyncRun polls the task pointers without the mutexes
\* of the contexts, it returns only when every task of the batch has been executed
\* exactly once and no worker is inside one.
THEOREM SyncRunCompletes == Spec => ReturnMeansDone
<1> DEFINE Done ==
      (mpc = "sweep" /\ mpc' = "idle") =>
         /\ \A t \in 1 .. task_num : ran[t] = 1
         /\ \A w \in Workers : task[w] = 0 /\ wpc[w] \notin {"run", "clear"}
<1>1. PoolInv /\ [Next]_vars => [Done]_vars
  <2> SUFFICES ASSUME PoolInv, Next, mpc = "sweep", mpc' = "idle" PROVE Done
    OBVIOUS
  <2>1. SweepEnd
    BY DEF Next, WorkerStep, TestExit, LookYield, LookWait, LookTask, LockContext,
           PredTrue, PredFalse, Block, SpuriousWakeup, RunTask, ClearTask, SyncRun,
           Sweep, SweepBusy, SweepGive, SweepSkip, ClearThreadPool, Clearing,
           ClearNotify, ClearJoin, ChildAfterFork, callerVars
  <2>2. ~running
    BY <2>1 DEF SweepEnd
  <2> QED
    BY <2>1, <2>2, SweepFindsAllDone
<1> QED
  BY <1>1, PoolInvariant, PTL DEF Spec, ReturnMeansDone
=============================================================================
