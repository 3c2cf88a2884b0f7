# ccbase in TLA+

This directory holds TLA+ models of the stateful parts of ccbase, TLC
configurations that check them on small instances, and proofs that the TLA+
proof system checks for every instance. Paths such as `net/src/event_loop.cc`
are relative to the repository's root.

## 1. The system

ccbase is a collection of C++ infrastructure components. The ones that carry
state and logic of their own are:

| Component | State | Operations | Hard part |
|---|---|---|---|
| **Dynamic memory pool** `memory/abstract_dynamic_memory_pool.{h,cc}`, `memory/dynamic_memory_pool.{h,cc}` | memory blocks, doubly linked `MemBuf`s, a free and an eager-free list per (persistence, stream), address index, events of device streams per buffer, stream pairs, statistics | allocate, allocate continuous, free, free part, record / wait / sync events, eager free, defragment, reset statistics, release | splitting and merging under long call sequences; memory freed by its owner and still used by a device task; exhaustion and failed mapping half way through an allocation |
| **VMM adapter** `memory/ascend_vmm_adapter.{h,cc}` | virtual pages and their physical handles, mapped ranges, cached handles | reserve, map, eager-free | undoing a mapping that fails half way; pages shared by buffers |
| **Event loop, task queue** `net/src/event_loop.cc` | `task_queue_`, an eventfd, `is_stop_`, a semaphore, the loop thread | `AddTask`, `QueueReadyCallback`, `Initialize`, `Stop`, `Finalize` | wake-ups written outside the lock; stopping a sleeping loop |
| **Event loop, socket events** same file | `events_`, `deleted_events_`, the kernel's epoll set | `SetEventHandler`, `UpdateEpollEvent`, `DeleteEpollEvent`, `HandleEvent` | Events deleted while their address is in the array of `epoll_wait`; descriptor numbers used again |
| **Event loop group** `net/src/event_loop_group.cc` | several loops | start, add task | start-up of several loops |
| **Connection** `net/src/connection.cc` | connection state, receive state, send queue and its totals | parse, fill send / receive, flush, close | resumable parsing, partial sends |
| **TCP communicator, pool, client, server** `net/src/tcp_comm.cc`, `connection_pool.cc`, `tcp_client.cc`, `tcp_server.cc` | connection table, callbacks, two event loops | connect, send, disconnect, receive synchronously | lock order, deletion of connections in use, late answers |
| **Concurrent queue** `libc/concurrent_queue.cc` | linked list with a dummy node, two mutexes, a condition variable | init, enqueue, dequeue, try_dequeue, destroy | producers and consumers hold different locks and meet on one node |
| **Allocation tracer** `libc/init.cc` and others | hooks, one consumer thread | hook malloc / free, print | shutdown order |
| **Robin Hood map** `libc/map.h` | open-addressing table with probe distances | insert, find, erase, resize | early exit of searches depends on the recorded distances |
| **Thread pool** `testing/thread_pool.cc` | one task pointer, mutex and condition variable per worker | `SyncRun`, the worker loop, `ClearThreadPool`, `ChildAfterFork` | task pointers polled without the lock, sleeping workers |
| **Lock-free queue** `nice/include/hqueue.h` | nodes with version counters | enqueue, dequeue | ABA |
| **Application allocators, skip list** `application/src` | earlier forms of the pool | allocate, free | as for the pool |

Interactions: the network stack calls `EventLoop::AddTask` to hand sends to the
loop thread and installs its sockets with `SetEventHandler`; handlers run on the
loop thread and call back into the event table. The allocation tracer's hooks
enqueue on the concurrent queue, its thread dequeues. The memory pool calls the
device (or the VMM adapter) through virtual functions. The thread pool, the hash
map and the lock-free queue stand alone. `PROJECT.json` lists every component,
the ones not modelled too, and the hazards of the code with the line where each
one bites.

## 2. Modules

    VmmAdapter <-- MemBufAllocator <-- MemPool <-- MCMemPool, MemPoolLemmas
    MemPoolLemmas    <-- MemPoolProofs
    TaskExecutor     <== EventLoop <-- MCEventLoop, EventLoopProofs
    EventTable       <-- MCEventTable, EventLoopProofs
    Connection       <-- MCConnection, ConnectionProofs
    TcpComm          <-- MCTcpComm, TcpCommProofs
    TcpClient        <-- MCTcpClient, TcpCommProofs
    ConcurrentQueue  <-- MCConcurrentQueue, ConcurrentQueueProofs
    HQueue           <-- MCHQueue, HQueueProofs
    ThreadPool       <-- MCThreadPool, ThreadPoolProofs
    RobinHoodMap     <-- MCRobinHoodMap          (<-- extended by, <== refined by)

The `MC` modules only hold sets and symmetries that a configuration cannot write
down; the `Proofs` modules and `MemPoolLemmas` hold invariants, lemmas and theorems
and no part of the model. Definitions whose name ends in `Mutant` (and the few
variants such as `WaitBufNoFree`, `DeleteEpollEventEager`, `SendRequestTwice`) stand
next to the definition they vary and are not used by any specification: each is a
plausible slip in the code, kept to show which property notices it.

### VmmAdapter, MemBufAllocator and MemPool

`VmmAdapter` translates `AscendVmmAdapter` over `VmmManager` as operators on an
adapter state: virtual pages reserved and never given back, handles taken from the
cache or made, `MmapDeviceMem` page by page with `MoveBackMappedHandle`,
`EagerFreeDeviceMem` of the pages wholly inside a range. The pool's state holds an
adapter state, so the two are checked together. `base_addr_` starts at 0 and
`FindVmmSegment` answers `nullptr` for the page at 0, so the first mapping always
fails and the pool reserves a second block; the model keeps this.

`MemBufAllocator` translates the class of that name and the lambdas of
`GenerateAllocator` as operators from a pool state to a pool state: best fit,
`MapAndSplitMemBuf`, `MallocExpandBlock`, `Free` with its two merges, eager free.
`MemPool` turns the public operations of `AbstractDynamicMemPool` into actions.
The pool's `lock_` is held for the whole of each, so each is one step, except
`AllocContinuousTensorMem`, which releases the lock between the allocation and
the split and is two.

Addresses are real: a buffer is an interval of a small address space, so that
overlap, adjacency and coverage are checked rather than assumed. Three fields of
the pool state are history. `inuse` has the bytes a device task uses whose event is
recorded: filled by `RecordEvent`, emptied by the waits. `SyncAllEvents` drops events
without waiting (`QueryEvent` and `SyncEvent` are commented out in the code), so it
moves what was in `inuse` to `given`: bytes a task may still touch and that no event
guards. `EventsProtect` is about the former, `EventSafety` about both.
`stat.eager_drift` counts what failed mappings have taken off `eager_free_size_`.
`ReleaseDeviceRes` ends all three with the memory itself.

Widths: `eager_free_size_` is computed modulo `SizeT`, the number of values of
`size_t`, since failed mappings take it below zero; the other statistics are sums or
upper bounds of sizes (`SizesExact`, `CountersDrift`) and never go below zero. `WaitEvent`
takes the 64-bit task id in a `uint32_t`, so `DropWaited` compares modulo `WaitIds`; the
task itself has ended whatever the parameter holds.

Abstractions: the tiny allocator behind `ENABLE_TINY_ALLOCATOR`, dumps and
tracing are left out; `RecordEvent` takes one address and `FreePartTensorMems`
one buffer and one kept range per call; a new `MemBuf` gets the lowest free
identity; the pair `eager_free_count_` / `last_eager_free_count_` is the Boolean
`defrag` (whether they differ); the device answers "no memory" by returning no
block, as the interface `DynamicMemPool` says (`MemoryPool`, the class used by
the tests, never looks at the result of `malloc`), and `free_mem_size` is
`SIZE_MAX` as in `MemoryPool`; `SyncAllStreams` may answer false; handles are
interchangeable, the smallest cached one is taken. Task ids on one user stream do not
decrease, as the streams number them. A client neither frees nor records events
on a buffer `AllocContinuousTensorMem` has not returned yet.

### TaskExecutor, EventLoop and EventLoopProofs

`TaskExecutor` is what `AddTask` promises: accepted tasks run once each, in
order, and while the executor is open they do run. `EventLoop` has one action
per access to shared state: the critical section of `AddTask` and its `write`,
the `read`, the swap and the drain of `QueueReadyCallback`, the test of
`is_stop_`, the return of `epoll_wait` (with the eventfd, or with something
else), `Initialize` with the failures of `pthread_create` and of the loop's
allocation, `Stop` and `Finalize`. It is shown to refine `TaskExecutor` with
`pending = q \o task_queue`, the callback's local queue followed by the shared
one.

Abstractions: a critical section of `task_queue_mutex_` is one step; `is_stop_`
is a plain `bool` whose reads return its latest value; the eventfd's overflow at
2^64 - 2 is out of reach (`WakeupExact` bounds the counter by 1); threads call
`AddTask` from the end of `Initialize` until the join in `Finalize`.

### EventTable

The table `events_`, the deferred deletion list and the kernel's epoll set, with
`SetEventHandler`, `DeleteEpollEvent` and `UpdateEpollEvent` in two steps each
(under or before the lock, and the `epoll_ctl` after it), the loop and the final
`clear()` of `RemoveDeletedEvents`, which takes no lock, `epoll_wait` returning
any non-empty set of registered pointers, and `HandleEvent` handling them in any
order while handlers and other threads call the operations above (`TCPComm::Disconnect`
deletes from user threads). Two history variables name what this race does: `raced`,
the Events another thread was inside `DeleteEpollEvent` with during the last
`RemoveDeletedEvents`, and `lost`, the Events its `clear()` dropped. What the race may do
to the nodes of the `std::map` is left out. Descriptors are opened and closed
around it (external: the kernel), so numbers are used again. Callers do not run
two calls on one descriptor at a time (they hold `conn_mutex_`), install a
handler only on a descriptor that has none, and close a descriptor after its
deletion. The eventfd's own entry is left out, it is in `EventLoop`.

### Connection

Two ends, each with its `Connection` object, joined by one byte sequence per
direction with a capacity. A byte is a message and a position, so that a byte of
the wrong message or at the wrong place is seen. `Send`, the write callback and the
reply of a message handler enter `Flush`; each `sendmsg` takes any number of bytes
that fit, or answers EAGAIN, or an error. The loop thread locks, resumes
`ParseMessage` in the state it left, reads any number of bytes, checks magic number
and lengths, calls the handler, and closes the connection at the end of
`SocketEventHandler` if it failed. Threads of an end that was closed stop here;
deletion under a thread is the subject of `TcpComm`. HTTP messages, metrics and SSL
are left out, and with HTTP the peek of `CheckMessageType` (`connection.cc:329-352`),
which consumes nothing: a stream too short for it, or at its end, shows as a header read
that gets no bytes or fails, and the magic number is checked again by that read. The
failure of `SetUrlForRecvMessage` (`connection.cc:607-610`, a message whose two addresses
both lack the '@') is left out, too: no message of the model is without it. The server
answers every request, the client none.

### TcpComm

The life of `Connection` objects under user threads, the send loop and the receive
loop: `Connect` from lookup through `DoConnect` and polling to `AddConnection`,
`Disconnect`, synchronous and asynchronous `Send`, `OnAccept`, the three event
handlers, `EventCallBack`. A step runs from one lock to the next, with
`conn_mutex_`, `conn_owned_mutex_` and the connection's `mutex_` as variables. A
thread whose next step would use a deleted object stops (`Undefined`), which is the
one thing one can say after it; where the use is only the unlock of a mutex in memory
just freed, going on is modelled as well (`UnlockDeleted`: the `lock_guard`s on
`conn_owned_mutex_` in `Disconnect` and `SocketEventHandler` outlive the connection). A
connection has the `source` that `EventCallBack` compares: the local address the system
gave to its socket, which may be that of a broken connection, or `url_` for every
accepted one. `OnAccept` demands only what TCP guarantees, that no other connection from
the same peer address is open; the pool may still hold a broken one, which
`AddConnection` closes while it keeps the entry. The byte stream is reduced to a link that comes up
and breaks. `TCPServer` only accepts, `TCPClient` uses the rest. Left out: SSL, the
double link, the event loop group, `Initialize` and `Finalize`.

### TcpClient

`ReceiveSync`: one slot `received_message_`, the client's `mutex_`, the
connection's `mutex_`, a handler that spins until the slot is free, and timeouts. A
request and its reply carry the number of the call, which the code does not have
and the properties use.

### ConcurrentQueue

Each thread's steps are separated where another thread can see or change what it
uses. `enq` and `deq` are histories of what was linked and taken. `destroy` runs
when all other operations have ended, as its interface demands. Spurious wake-ups
are included.

### HQueue

One step per atomic access of `Enqueue` and `Dequeue`: the scan for a free node,
the reads of `qtail`, `qhead` and `next`, the three compare-and-swaps. The `next`
of a reused node starts again at `{-1, 0}`. Memory is sequentially consistent, as
the default orderings of `std::atomic` give. `Clean` and `Empty` are left out.

### ThreadPool

The workers' loop with both tests of `exit_run_`, the yield or wait choice (the
count of yields is left open), the wait with its predicate, and the caller's
sweep over the contexts, `ClearThreadPool` and `ChildAfterFork`. `pool_mtx_`
serialises the callers, so one caller stands for all. A fork happens while no
call is in progress. Spurious wake-ups are included, and never relied on. CPU
affinity is left out. `PoolAssumption` has at least one worker: where
`hardware_concurrency()` answers 0 no context is made and `SyncRun` returns without
running anything (`thread_pool.cc:154-156`), which the model does not have.

### RobinHoodMap

The map's loops as recursive operators over a table, for an arbitrary hash
function and initial capacity chosen in `Init`, next to a reference function `expected`.
A table of 1, 2 or 3 slots may be full before it grows (the load is compared before the
insertion); searches in it end by the recorded distances alone. This module
is checked by TLC only, since it uses RECURSIVE operators.

## 3. What the runs check

| Run | Question | Bounds |
|---|---|---|
| `MemPool_core` | Are blocks always partitioned into correctly linked buffers (`BlockComposedOfBufs`), is merging complete (`NoAdjacentFree`), do indexes, borders and statistics match the buffers (`IndexesExact`, `SizesExact`), is a new block taken only if no idle buffer fits (`ExpandOnlyWhenNeeded`)? | 4 bytes of device memory in units of 2, sizes 1 and 2, persistent and common requests, continuous lists, partial frees, statistics resets: two blocks, the fall-back from persistent to common memory, exhaustion |
| `MemPool_events` | Is memory with a recorded event never idle (`EventsProtect`), and does memory in use have its pages (`Backed`); is what was freed under an event reachable for the wait (`DeferredFreeReachable`); is every handle in one place (`HandlesExact`); are the sizes exact through exhaustion and retry (`SizesExact`), and do the two counters that drift do so in one way (`CountersDrift`)? | pages of 2 bytes, 6 virtual and 2 physical ones, sizes 2 and 3 (so buffers share pages), one user stream with two task ids of which the second does not fit `WaitEvent`'s parameter, `size_t` of 16 values (failed mappings wrap it): mappings that fail half way, eager free, the sync-and-retry path |
| `MemPool_v_freepart` | finding of section 5 (`EventsProtect`) | 3 bytes, one task |
| `EventLoop` | Is no wake-up lost (`NoLostWakeup`) or doubled (`WakeupExact`), does the loop implement the executor (`ExecutesInOrder`, with liveness `ImplementsExecutor`), does `Finalize` return (`FinalizeReturns`)? | 3 producers, 2 tasks each, failures allowed |
| `EventTable` | Do the kernel and `HandleEvent` hold a freed Event only where another thread's deletion overlapped `RemoveDeletedEvents` (`PointersLive`), is each Event in exactly one place but for those its `clear()` drops (`EventsAccounted`), is a handler called for a removed registration only in the same case (`NoStaleHandler`)? | 3 descriptors, 4 Events, one other thread that registers and deletes, `epoll_ctl` may fail |
| `Connection` | Do handlers see whole messages in the order sent whatever the kernel does (`FramesExact`), is nothing half sent between critical sections (`NoHalfSent`), is each request deleted once (`RequestsFreedOnce`), does `Send` return (`SendReturns`)? | 2 requests of 2 or 3 bytes after a header of 2, buffers of 2 bytes, lengths over 2 refused, one early read, a link that may break |
| `TcpComm` | Where can a deleted connection still be used (`LocksProtect`), do pool, epoll and infos refer to live objects (`ReferencesLive`), is a broken connection removed (`BrokenIsRemoved`), do calls return (`CallsReturn`)? | 2 users with 3 calls, one address and one peer, 2 local ports, 2 connection objects, one queued task |
| `TcpClient` | How far can an answer lag (`AnswerLag`), when can caller and handler block each other (`NoDeadlockWithoutTimeout`), does a call end (`CallReturns`)? | one caller, 4 calls, 2 timeouts |
| `ConcurrentQueue` | FIFO without loss or duplication (`FifoExact`), no access to a freed node and no leak (`NodesExact`) | 2 producers with 2 items, 2 consumers, 4 nodes, so that addresses are used again; symmetry over nodes |
| `HQueue` | Is every accepted item taken once (`ExactlyOnce`), is no node of the list free (`NoFreeNodeInUse`), does `qtail` stay in the list (`TailInQueue`)? | 2 producers with 2 items, 2 consumers, 4 nodes of which 3 are reused; symmetry |
| `ThreadPool` | Does `SyncRun` return (`SyncRunReturns`), and only when each task ran once and no worker holds a pointer into the batch (`ReturnMeansDone`)? | 3 workers, batches of 2 or 3, 3 calls among run, clear and fork |
| `RobinHoodMap` | Does `find` agree with a reference map (`FindMatches`), is `size` right, and is a table of 4 or more slots never full (`TableExact`)? | all hash functions of 5 keys to 3 values, initial capacities 1 to 4 growing up to 12; erase on a single chain |

Why the bounds are enough: the properties of the pool concern a buffer and its
two neighbours, so a block cut into four exercises every combination of merging,
and two or three blocks every path of `AllocMemBuf`. Two physical pages against
buffers that cover one page, two, or parts of two give a mapping that succeeds,
one that fails on the first page and one that fails on the second. The races of
the event loop involve the loop, one producer that is about to write and others
that find a non-empty queue; a third producer adds the case of two of the latter.
In the event table an Event is freed, its object is used again and its descriptor
re-registered within one batch with three descriptors and four objects. A
connection's header, body and buffer of 2 or 3 bytes are cut at every place, and
with a buffer smaller than a message every send is resumed. In `TcpComm` two
objects are one that was given up or replaced and the one in its place; the two
invariants also hold with a third object, which meets the entry that the second left
in the pool (`TcpComm_safety.cfg`, 2.4 million states; the liveness properties take too
long there). In the
queues, one node in transit, one dummy and re-use of both need four. In the map,
displacement of an entry that displaced another needs three home slots.

`CHECK_DEADLOCK FALSE` appears where the modelled system may rest: a finalized
loop, a loop asleep in `epoll_wait` with nothing registered, consumers waiting on
an empty queue, a thread pool or a client after its last call, producers and
messages that are used up, and the deadlocks of section 5, which the liveness
properties name.

**Fairness.** `EventLoop`: weak fairness of the loop thread, of a producer inside
`AddTask`, and of the owner inside `Initialize` and `Finalize`, that is, the
operating system runs runnable threads. Nothing obliges a producer to call
`AddTask`, the owner to call `Finalize`, or sockets to become ready
(`EpollWaitOther` has no fairness), so the eventfd alone has to wake the loop.
`ThreadPool`: weak fairness of each worker and of the caller, strong fairness of
the step in which the caller takes a context's mutex, since the worker releases
it over and over; no spurious wake-up is promised.
`Connection`: weak fairness of every thread inside a system call and of each loop,
strong fairness of taking the mutex; nobody is obliged to send, the link need not
break, and early reads are not promised. `TcpComm`: weak fairness of a user inside
a call and of both loops, strong fairness of dispatching each connection's event,
since epoll reports ready sockets in turn and a broken one stays ready; calls,
accepts and the network are free. `TcpClient`: weak fairness of the caller inside
its call (its timeout included), of the loop thread and of the server's answer.

## 4. What is proved

`EventLoopProofs`, from `LoopAssumption` (the bound on tasks is a natural number,
`MayFail` is Boolean) and so for any set of producers and any number of tasks:

* `TypeCorrect`: `Spec => []TypeOK`.
* `NoWakeupIsLost`: `Spec => []NoLostWakeup`.
* `WakeupsAreExact`: `Spec => []WakeupExact`.
* `RefinesExecutor`: `Spec => ExecutesInOrder`, the safety part of the refinement.

`NoLostWakeup` and `WakeupExact` are not inductive by themselves: the step of a
producer's `write` only makes the counter positive if the descriptor is open, and
a queue filled before the thread exists, or after it has ended, would refute them.
`LifeCycle` supplies this: the descriptor is open while the owner is between
`InitResource` and the join, nothing is queued before the thread exists, the
thread has ended before the descriptors are closed, and the callback's local queue
is empty unless it is running tasks. `LifeCycle` is inductive with `TypeOK`; the
two wake-up invariants are inductive relative to both. For the refinement, an
`AddTaskPush` appends to `q \o task_queue` (`ConcatAppend`), a `RunTask` removes
its head (`ConcatHeadTail`), `SwapQueue` leaves it unchanged because `q` is empty
before it (`LifeCycle`), and every other step leaves pending and executed tasks
alone (`QuietStep`) or shuts the executor down.

The other proof modules have the same shape: an inductive invariant, a
conjunction of named parts of which each relates a few variables, one lemma per
action (or per group of actions that disturb the same parts), and theorems that
follow from the invariant. TLC checked every invariant on its component's run
before it was proved.

The second half of `EventLoopProofs` is about `EventTable` (the two modules are the
two halves of class `EventLoop`, so `EventTable` names its formulas `TableInit`,
`TableNext` and `TableSpec`), from `TableAssumption`, for any descriptors, threads and
number of Events:

* `EventsNeverLost`: `TableSpec => []EventsAccounted`, without further hypotheses.
* `PointersStayLive` and `NoHandlerAfterDelete`: `TableSpec => []PointersLive` and
  `TableSpec => NoStaleHandler`, also without hypotheses: deletions by user threads are
  in the model, and the two properties say that their overlap with
  `RemoveDeletedEvents` is the only way to a freed Event.
  `EventTable_v_userdelete.cfg` shows that this way exists.

`TableInv` adds what makes `PointersLive` inductive: which calls are between the
critical section and the `epoll_ctl`, whose descriptor that is, that what the kernel
knows is registered, or being deleted by a call of that descriptor, and that an Event
in the array of `epoll_wait` is registered, or waits in `deleted_events_`, which only
the end of the batch empties, or is in `raced`, which holds until the next round.

`TcpCommProofs`, from `NamesAssumption` (users are not the loops), for any users,
addresses, peers, ports, connections and number of calls: `TypeCorrect`,
`LocksDoProtect` and `ReferencesStayLive`. `CommInv` says for each place a thread can
be at which lock it holds and what is true of the connection it works on; the pool,
the handlers and the infos are then live because whoever deletes takes them out under
the same lock. `AddConnection` is the exception, and only on the receive loop: the
invariant keeps for each such entry the accepted connection that is live outside the
pool. An object that was deleted is used again by a thread that had it before, or by
the unlock that follows the deletion.

Of `TcpClient`, for any number of calls and timeouts and *one* caller at a time
(with two waiting together nothing matches replies to calls, so the properties do
not hold), `TcpCommProofs` also has `AnswersLagBehind` and `DeadlockNeedsTimeout`.
`ClientInv` counts: requests and replies under way, the reply in the handler's hand
and the one in the slot are consecutive numbers, and the requests whose reply is not
stored exceed the timeouts by at most the call that is waiting.

`ThreadPoolProofs`, from `PoolAssumption`, for any number of workers, tasks and
calls: `SyncRunCompletes`, the action property `ReturnMeansDone`. The caller polls task
pointers without the contexts' mutexes; `PoolInv` needs that a context passed in a
sweep that has not raised `running` is free, and that then no task was left to give.

`ConnectionProofs`, from the assumptions on lengths and names, for any requests,
senders, lengths, capacities and queue lengths:

* `ConnInvariant`: `Spec => []ConnInv`, types and what the mutex, the send and the
  receive fields of each end say of each other (`SendExact`, `ReadExact`,
  `TodoExact`). Its type gives `send_message_queue` the value `<<>>` only: the queue is
  dead code in the model, as section 5 says of the program.
* `NeverHalfSent`, `EachRequestFreedOnce`: the two invariants, from `ConnInv`.
* `FramesStayExact`: `Spec => []FramesExact`. Here the invariant has to say where in
  the stream every message is. `FrameInv` gives each message begun a base offset
  (`Placed`), says which byte of which message is at each place of the wire
  (`Track`, `Stream`) and what the parser has in its header and body (`Parsed`); an
  end that has closed, or failed and is about to, reads no more and is exempt
  (`Dead`). A send appends to the stream, a read takes from its front, and a message
  handled is the next one begun. No induction over the stream is needed, since
  `Placed` orders every two messages.

`ConcurrentQueueProofs`, from `QueueAssumption` (finitely many nodes), for any
producers, consumers and nodes: `FifoStaysExact` and `NodesStayExact`. `QueueInv`
says that there is a sequence of distinct nodes, from `head`, each the `next` of the
one before, whose items are what was linked and not taken, whose last is the tail
unless a producer is between its two writes, and which together with the
producers' and the consumers' own nodes makes up what is allocated. A link
extends this sequence by one node and a dequeue drops its first. The properties are
stated with `NodeAt`, a recursive function: `NodeAtUnfold` shows that it satisfies its
definition (some function does), and `NodeAtIsChain` that it walks the sequence, by
the least counterexample (`LeastNat`, from the well-foundedness of the natural
numbers), which is how induction is done here.

`HQueueProofs`, from `HQueueAssumption` (at least one node, producers are not
consumers), for any producers, consumers, nodes and calls: `QueueTypeCorrect`,
`QueueExactlyOnce`, `QueueNoFreeNodeInUse` and `QueueTailInQueue`. Versions make an old
view of `qhead` or `qtail` harmless, but the `next` of a node starts again at `{-1, 0}`,
so that a producer may succeed in linking its node to one that was given back and
filled by another in the meantime. `QueueInv` says that there are three functions on
the nodes: `home`, whether a node is in the list from `qhead`, in the chain that hangs
on an unlinked node, or in neither; `dep`, how far it is from the first node there; and
`ts`, an order in which the nodes were filled.

* `Chained`: `next` leads from a node to the one with the same home and the next
  depth, and no two nodes of a home have the same depth. `ChainIs` derives the sets
  `Chain(n)` of the properties from it, by the least counterexample.
* `HomesHeld`, `NodesHeld`: a node with a home is not free, and no two threads hold the
  same node.
* `Ordered`: no node was filled later than the unlinked node its chain hangs on, and if
  the tail a producer has read was filled again since, that was after the producer
  filled its own node. A link therefore never closes a cycle: it would take a node
  filled both before and after the producer's. `TailView` also says that the tail a
  producer has read has a home or a `next`, so that nothing is linked to a node given
  back and not taken again.
* `Views`: what a thread has read of `qhead` and `qtail` is theirs as long as the
  version is, and then what it has read of `next` is right, too. `qtail` is hence
  moved one node along the list and `qhead` never passes it.
* `Items`: the nodes with a home, but for the first of the list, have different items
  that nobody has taken; an accepted item is taken or in one of them.

`FillNode` gives a node its own home, `Link` moves a chain to the home of the tail,
`Take` takes the first node out of the list; all other steps keep the three functions.

`MemPoolProofs`, from `PoolAssumption`, `VmmAssumption` and `RequestAssumption`, for any
streams, sizes, device memory, growth unit and page size, with VMM and without:

* `MergingComplete`: `Spec => []NoAdjacentFree`.
* `IndexesStayExact`: `Spec => []IndexesExact`.
* `BlocksStayComposed`: `Spec => []BlockComposedOfBufs`.
* `DeferredStayReachable`: `Spec => []DeferredFreeReachable`.
* `EventsProtectMemory`: `Spec => []EventsProtect`, if also `~ FreePartWithEvents`;
  `MemPool_v_freepart` is the counterexample without it. The stronger `EventSafety`
  is not a theorem: `SyncAllEvents` breaks it (`MemPool_v_sync.cfg`).
* `MemoryStaysBacked`: `Spec => []Backed`.
* `HandlesStayExact`: `Spec => []HandlesExact`.
* `SizesStayExact`: `Spec => []SizesExact`.
* `CountersDriftSo`: `Spec => []CountersDrift`.
* `ExpandsOnlyWhenNeeded`: `Spec => ExpandOnlyWhenNeeded`.

All are under two hypotheses, each of which excludes a behaviour that really breaks
the properties (section 5). `OneUser`: at most one stream uses memory of others;
with two, `WaitEvent` on all pairs comes upon buffers the first pair has freed
(`MemPool_v_pairs.cfg`). `AlignedRequests`: the alignment is 1 if continuous
requests are made; otherwise `AllocContinuousTensorMem` loses the slack of the
alignment (`UnalignedLists`). Single requests may have any alignment. Continuous
requests whose sizes are all multiples of a larger alignment are covered by neither
the theorems nor a counterexample.

`PoolInv` is `Good(pool)` with `ContOK` and `Counted`. Of a pool state they say:

* `Shape`: every buffer lies in its block (`BufOK`), `prev_` and `next_` chain a
  block from its first byte to its last (`LinksExact`), and each byte of a block is in
  exactly one buffer (`BytesExact`). The chain alone is not inductive: that the
  bytes of two buffers are disjoint says that a merge takes the two it means to.
* `Merged`, `ListsExact`, `AddrsExact`: as in the properties. They need each other,
  as `Free` looks for a neighbour by its status and removes it from a list.
* `QuietFree`, `Deferred`, `PairsExact`: a free buffer has no events, one that only
  waits for its events has some, and `stream_pair_mem_bufs_` lists exactly the
  buffers with events. A buffer freed and merged is then in no pair.
* `InUseHeld`: what a task may still touch is in a buffer that has the event of
  that very task (`Held`), so that the wait which drops an event is one that ends the
  task's use: a truncated task id is not larger than the id itself.
* `Paged`: the adapter's handles are each on one page or in the cache (`AdapterOK`),
  a block is made of whole pages, and a page of a block has a handle just when one
  of its bytes is in a buffer that is not eager-free (`PagesExact`). Neither
  `Backed` nor `HandlesExact` is inductive without the other direction: `Free` of a
  neighbour unmaps whole pages only because the bytes of the page are then all
  eager-free, and mapping a buffer again takes new handles for just the pages that
  have none. Without VMM nothing is eager-free.
* `ContOK`: between the two halves of `AllocContinuousTensorMem` its buffer is in
  use, without events and as large as the pieces together. Other operations run in
  between; `Unhurt` is the frame condition each of them is shown to keep.
* `Counted`: the statistics, stated over bytes instead of buffers. `used_size_` is the
  number of bytes of the buffers in the address index, `alloc_size_` that of the
  blocks' bytes, `used_by_event_size_` bounds the bytes with events, and
  `eager_free_size_` is, modulo `SizeT`, the eager-free bytes less the drift
  (`EagerExact`; `WrapAdd` shows that wrapping at every step is wrapping once at the
  end, so that a step need only be followed in the integers; `CountedRest` is the rest of
  `Counted`). A split or a merge leaves these sets of bytes as they are, which no
  sum over buffers does. The sums of the properties are recovered at the end
  (`SumOfSpans`): the sizes of disjoint spans add up to their bytes. `Peaked` says that
  both peaks are no lower than what is in use, `Bordered` that the border of a block
  covers its buffers in use, and that a border once set is not 0, which
  `UpdateBorderAddr` takes for one not yet set; that no address in use is 0 comes from
  `Paged`. `AllocMemBuf` counts its buffer before the pool enters it in the index;
  `UsedMore` is the step in between.

There is one lemma per routine of `MemBufAllocator` and of the pool, from a pool state
to a pool state; those of the routines below the public operations are, with the
invariant, in `MemPoolLemmas`. Splits and merges are first shown to be a `Cut` or a
`Joined` of the buffers, and these two keep `Shape`. Inside a routine some buffer is not
yet in its list; the parameter `X` of `ListsExact`, `AddrsExact` and `Deferred` sets it
aside. Loops are folds: `IsFold` describes all of them at once, a tag naming the loop
and `Step` its body, and `FoldInduction` is proved by the least counterexample. A new
buffer always finds an identity (`NewIdOK`): disjoint buffers that are not empty are at
most as many as the bytes. `ExpandOnlyWhenNeeded` is about one step, but the step tries
the own list, the common list, eager free and synchronising before it takes a block:
`Sealed` and `GrownFor` follow the blocks and addresses through these attempts, and
`Thrifty` says of the whole that the idle buffers it started with were too small.

Model-checked only:

* the liveness properties (`ImplementsExecutor`, `FinalizeReturns`,
  `SyncRunReturns`, `SendReturns`, `CallReturns`, `BrokenIsRemoved`, `CallsReturn`),
  since fairness is out of the prover's reach;
* everything in `RobinHoodMap`, whose operators are RECURSIVE, which the prover does
  not take.

## 5. Findings and disagreements

`MemPool_v_freepart`: `DoFreePartTensorMems` creates buffers without events out of
one that has some, and its tail becomes idle while a device task uses it, against
"Change mem buf status to used by event, and wait for event to free."
(`abstract_dynamic_memory_pool.cc:113`).

Eight more configurations reproduce a disagreement. They are not among the runs of
`PROJECT.json`; `tlc -config X.cfg M` finds each violated:

* `MemPool_v_sync.cfg` (`MCMemPool`, `EventSafety`): `EventBase::SyncAllEvents`
  announces "Sync event if event is not arrived." (`dynamic_memory_pool.cc:129`) and
  does not: `QueryEvent` and `SyncEvent` are commented out. A buffer whose free was
  deferred becomes idle while its task may still run.
* `EventTable_v_userdelete.cfg` (`MCEventTable`, `BatchLive`): "Don't delete tev
  immediately, let's push it into deleted_events_, before next epoll_wait,we will free
  all events in deleted_events_." (`event_loop.cc:331`). A `DeleteEpollEvent` by a
  thread other than the loop, as `TCPComm::Disconnect` makes it, lets the loop free the
  Event before the kernel forgets its address.
* `EventTable_v_clear.cfg` (`MCEventTable`, `AllFreed`): the other half of the same
  comment. A deletion between the loop of `RemoveDeletedEvents` and its `clear()`
  leaves an Event that nobody frees.
* `TcpComm_v_accept.cfg` (`MCTcpComm`, `AcceptedArePooled`): "This new connection will
  be added to connection pool." (`tcp_comm.cc:107`). An accepted connection whose peer
  reuses the port of one that broke and is still in the pool is not: `AddConnection`
  deletes the old one and `emplace` keeps its entry.
* `ConcurrentQueue_v_wakeup.cfg` (`MCConcurrentQueue`, `WaiterIsSignalled`): the
  signal without `head_mutex` can fall between a consumer's test and its wait; the
  consumer sleeps over an item.
* `ThreadPool_v_clear.cfg` (`MCThreadPool`, `ClearThreadPoolReturns`): `exit_run_`
  set and notified without the context's mutex can be missed by a worker, and the
  join never returns.
* `RobinHoodMap_v_erase.cfg` (`MCRobinHoodMap`, `FindMatches`): after a displacement
  the recorded distance exceeds the real offset; an erase then moves an entry before
  its home slot.
* `MemPool_v_pairs.cfg` (`MCMemPool`, `PairsAreLive`): `WaitEvent` on a buffer that
  is still used takes it out of one stream pair only; with two user streams a buffer
  that is freed and merged later stays listed in the other pair, whose next wait
  dereferences it.

Some passing runs exclude a trigger by a constant that says so:
`FreePartWithEvents = FALSE` (partial frees of buffers with events), `EraseAnywhere =
FALSE` (erases on tables with displaced entries, which `map.h:107` allows) and one
user stream.

Situations the properties name as exceptions, each reachable in its run:

* `Connection`, `BothFull`: `SendMessage` holds the connection's mutex while the
  peer's buffer is full; when both ends send, neither loop can read.
* `Connection`, `CountLost`: when `EAGAIN_RETRY` runs out in the middle of a message,
  `*sendLen` restarts at 0 and never equals `totalSendLen`; `Flush` goes round for
  ever with `sendmsg` of nothing.
* `TcpClient`, `Deadlocked`: after one timeout a late reply fills the slot, and the
  handler, holding the connection, waits for the client's `mutex_`, which the next
  `ReceiveSync` holds while it waits for the connection. `AnswerLag` says that this
  next call can also be given the late reply. (`tcp_client.cc:135` announces
  "Clear the address of received message before returning"; the code does not.)
* `TcpComm`, `LockCycle`: `Disconnect` and the handler of the same connection take
  `conn_mutex_` and `conn_owned_mutex_` in opposite orders.
* `TcpComm`, `Undefined`: `Disconnect` deletes a connection that a `Send` has found
  or whose handler is in its callbacks; `Disconnect` and `SocketEventHandler` unlock a
  mutex of the connection they have just deleted; the receive loop follows an entry
  that `AddConnection` left behind. `LocksProtect` delimits these places. The loop
  that should wait for pending tasks (`tcp_comm.cc:526`) asks for tasks in both
  loops, and the receive loop never has any.

Further disagreements visible in the code and without a configuration:

* `DoSyncAllEvents` does not lower `used_by_event_size_`, described as "Memory size
  that referred by event.", and the mapper lowers `eager_free_size_` before
  `MmapDeviceMem` can fail, so that the unsigned counter ends up near 2^64. The models
  keep both; `CountersDrift` says how far they are off, and `MaxEventSize` and
  `MaxEagerDrift` bound the drift.
* `EventCallBack` compares `source` strings to tell whether the pool's connection is the
  one that broke. All accepted connections have `url_` there, and a client's new
  connection may have been given the port of the broken one: `EventDeletes` then deletes
  a connection that is up, and its own stays registered with nobody.
* `AllocContinuousTensorMem` with sizes whose sum is not a multiple of the
  alignment gives the alignment's slack to no buffer: `BlockComposedOfBufs` fails
  with `AlignSize = 2` and `SizeLists <- UnalignedLists`, against "Memory block is
  composed of memory buf".
* `ReleaseDeviceRes`, "Release the real device memory." (`dynamic_memory_pool.h:113`),
  returns no handle under VMM, and without VMM `MemoryPool` records `addr`, the
  address of the caller's pointer, where `FreeDeviceMem` looks for the block.
* `SetEventHandler` tests `ret > 0` where `epoll_ctl` fails with -1.
* A `Connect` that gives up leaves its connection registered with the loop and owned
  by nobody; `DoConnect` overwrites a state the loop has already advanced.
* `Connection::Close` deletes the message under way without its free callback; `Send`
  returns true when its flush failed; a handler's reply after a failed flush replaces
  `send_message` and leaks it. `send_message_queue` is empty between critical
  sections (`NoHalfSent`), so that `SENDMSG_QUEUELEN` never applies.
* `HQueue`: a producer with an old `qtail` can link its node behind one that another
  producer has filled and not linked. Its item is accepted and stays invisible until
  that producer goes on. Node 0 is not used again after the first dequeue.

## 6. Bounds and their names

`MaxTask`, `MaxEventSize`, `MaxEagerDrift`, `VirtualMem` (MemPool), `MaxTasks`
(EventLoop, ThreadPool, TcpComm), `MaxEvents` (EventTable), `MaxItems` and the set
`Nodes` (ConcurrentQueue), `MaxItems` (HQueue), `MaxCalls`, `MaxThreads`
(ThreadPool), `MaxCalls` and the set `Conns` (TcpComm), `MaxRequests`, `MaxTimeouts`
(TcpClient), `Requests`, `MaxIntr` (Connection), `MaxHash`, `MaxCapacity`
(RobinHoodMap). Each appears in a guard or in an index set and nowhere in the
modelled logic. `Capacity`, `QueueLen`, `MaxRecvCount` and `MaxBodyLen` of
`Connection`, `PageSize` and `PhysMem` of `VmmAdapter`, `SizeT` and `WaitIds` of the
pool, the set `Ports` of `TcpComm`, the set `Capacities` of
`RobinHoodMap` and `Size` of `HQueue` are
not bounds but parameters of the system, made small.

## 7. Not modelled

Left out, with the reason:

* the event loop group: loops started one after the other, no state of its own;
* SSL and HTTP messages: the same loops over other libraries and formats;
* the application allocators and the skip list: earlier, sequential forms of the
  pool, kept for a benchmark;
* the allocation tracer's hooks and printing: I/O around the concurrent queue. Its
  library destructor destroys the queue while the consumer may be inside `dequeue`,
  which the queue's interface forbids and `ConcurrentQueue` does not model;
* the tiny allocator, dumps, tracing, CPU affinity, logging;
* vendored code (`libs/catch/catch.hpp` alone is more than half of the repository's
  lines), profilers, unwinding and other stand-alone experiments.
