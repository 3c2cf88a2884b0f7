----------------------------- MODULE EventTable -----------------------------
(***************************************************************************)
(* The socket events of net/src/event_loop.cc: the table events_, the      *)
(* pointers the kernel keeps in the epoll set, and the deferred deletion   *)
(* of Event objects that lets a handler remove descriptors while           *)
(* HandleEvent walks the array epoll_wait filled.                          *)
(*                                                                         *)
(* SetEventHandler and DeleteEpollEvent are two steps each: the part under *)
(* event_lock_ and the epoll_ctl call after the unlock.  They are called   *)
(* from handlers on the loop thread (connection.cc) and from other threads *)
(* (TCPComm::Connect, StartServerSocket; Disconnect through                *)
(* Connection::Close).  Callers serialise their calls on one descriptor    *)
(* (TCPComm's conn_mutex_), and close a descriptor only after its deletion.*)
(*                                                                         *)
(* RemoveDeletedEvents takes no lock.  Its two parts, the loop that frees  *)
(* and the final clear(), are two steps, between which another thread may  *)
(* delete; what the race does to the nodes of the std::map itself is left  *)
(* out.                                                                    *)
(***************************************************************************)
EXTENDS Integers, FiniteSets

CONSTANTS
  Fds,          \* descriptors
  Users,        \* threads other than the loop that install and delete
  MaxEvents,    \* bound on the Event objects alive together
  CtlMayFail    \* epoll_ctl(ADD) may fail (ENOSPC, ENOMEM)

ASSUME TableAssumption ==
  /\ MaxEvents \in Nat
  /\ CtlMayFail \in BOOLEAN
  /\ "loop" \notin Users

VARIABLES
  opened,   \* descriptors the process has open
  events,   \* events_: descriptor to Event, NoEvent where absent
  deleted,  \* deleted_events_: Events waiting to be freed
  live,     \* Event objects allocated
  epoll,    \* kernel: data.ptr registered for each descriptor
  batch,    \* data.ptr values of epoll_wait's array not handled yet
  cur,      \* the Event whose handler runs
  wpc,      \* where the loop thread is between two calls of epoll_wait
  call,     \* the call each thread is inside: what, on which fd, which Event
  raced,    \* history: Events another thread was inside DeleteEpollEvent with
            \* during the last RemoveDeletedEvents
  lost      \* history: Events the final clear() dropped without freeing them

tableVars ==
  <<opened, events, deleted, live, epoll, batch, cur, wpc, call, raced, lost>>

EventIds == 1 .. MaxEvents
NoEvent  == 0
Callers  == Users \cup {"loop"}
Calls    == [op : {"add", "del", "mod"}, fd : Fds, ev : EventIds]
Idle     == [op |-> "none"]

\* The Events in events_.
Registered == {events[fd] : fd \in {f \in Fds : events[f] # NoEvent}}

\* Every variable has its type.
TableTypeOK ==
  /\ opened \in SUBSET Fds
  /\ events \in [Fds -> EventIds \cup {NoEvent}]
  /\ deleted \in SUBSET EventIds
  /\ live \in SUBSET EventIds
  /\ epoll \in [Fds -> EventIds \cup {NoEvent}]
  /\ batch \in SUBSET EventIds
  /\ cur \in EventIds \cup {NoEvent}
  /\ wpc \in {"test", "clear", "wait", "dispatch", "handler"}
  /\ call \in [Callers -> Calls \cup {Idle}]
  /\ raced \in SUBSET EventIds
  /\ lost \in SUBSET EventIds

TableInit ==
  /\ opened = {}
  /\ events = [f \in Fds |-> NoEvent]
  /\ deleted = {}
  /\ live = {}
  /\ epoll = [f \in Fds |-> NoEvent]
  /\ batch = {}
  /\ cur = NoEvent
  /\ wpc = "test"
  /\ call = [c \in Callers |-> Idle]
  /\ raced = {}
  /\ lost = {}

\* Thread c may start a call on fd: the loop thread only from a handler.
MayCall(c, fd) ==
  /\ call[c] = Idle
  /\ c = "loop" => wpc = "handler"
  /\ \A d \in Callers : call[d] # Idle => call[d].fd # fd
  /\ fd \in opened

-----------------------------------------------------------------------------
(* Descriptors: accept, connect and close, around the event loop.          *)

OpenFd(fd) ==
  /\ fd \notin opened
  /\ opened' = opened \cup {fd}
  /\ UNCHANGED <<events, deleted, live, epoll, batch, cur, wpc, call, raced, lost>>

\* close(): the kernel forgets the registration of the descriptor.
CloseFd(fd) ==
  /\ fd \in opened
  /\ events[fd] = NoEvent
  /\ \A c \in Callers : call[c] # Idle => call[c].fd # fd
  /\ opened' = opened \ {fd}
  /\ epoll' = [epoll EXCEPT ![fd] = NoEvent]
  /\ UNCHANGED <<events, deleted, live, batch, cur, wpc, call, raced, lost>>

-----------------------------------------------------------------------------
(* SetEventHandler.                                                        *)

\* new Event, then AddEvent under event_lock_: DeleteEvent frees the Event the
\* table held for fd, if any.
SetEventHandler(c, fd) ==
  /\ MayCall(c, fd)
  /\ events[fd] = NoEvent      \* callers delete before they install again
  /\ \E e \in EventIds \ live :
       /\ live' = (live \ {events[fd]}) \cup {e}
       /\ events' = [events EXCEPT ![fd] = e]
       /\ call' = [call EXCEPT ![c] = [op |-> "add", fd |-> fd, ev |-> e]]
  /\ UNCHANGED <<opened, deleted, epoll, batch, cur, wpc, raced, lost>>

\* epoll_ctl(EPOLL_CTL_ADD): EEXIST leaves a registered descriptor as it is.
EpollCtlAdd(c) ==
  /\ call[c].op = "add"
  /\ epoll' = [epoll EXCEPT ![call[c].fd] =
                 IF @ = NoEvent THEN call[c].ev ELSE @]
  /\ call' = [call EXCEPT ![c] = Idle]
  /\ UNCHANGED <<opened, events, deleted, live, batch, cur, wpc, raced, lost>>

\* A failure returns -1, which the test "ret > 0" does not see: the Event stays
\* in the table and the call returns RPC_OK.
EpollCtlAddFails(c) ==
  /\ CtlMayFail
  /\ call[c].op = "add"
  /\ call' = [call EXCEPT ![c] = Idle]
  /\ UNCHANGED <<opened, events, deleted, live, epoll, batch, cur, wpc, raced, lost>>

-----------------------------------------------------------------------------
(* DeleteEpollEvent.                                                       *)

\* As if the Event were freed at once.
DeleteEpollEventEager(c, fd) ==
  /\ MayCall(c, fd)
  /\ events[fd] # NoEvent
  /\ live' = live \ {events[fd]}
  /\ events' = [events EXCEPT ![fd] = NoEvent]
  /\ call' = [call EXCEPT ![c] = [op |-> "del", fd |-> fd, ev |-> events[fd]]]
  /\ UNCHANGED <<opened, deleted, epoll, batch, cur, wpc, raced, lost>>

\* As if the Event were left to nobody.
DeleteEpollEventLeaks(c, fd) ==
  /\ MayCall(c, fd)
  /\ events[fd] # NoEvent
  /\ events' = [events EXCEPT ![fd] = NoEvent]
  /\ call' = [call EXCEPT ![c] = [op |-> "del", fd |-> fd, ev |-> events[fd]]]
  /\ UNCHANGED <<opened, deleted, live, epoll, batch, cur, wpc, raced, lost>>

\* Under event_lock_: out of events_, into deleted_events_ (AddDeletedEvent).
DeleteEpollEvent(c, fd) ==
  /\ MayCall(c, fd)
  /\ events[fd] # NoEvent
  /\ deleted' = deleted \cup {events[fd]}
  /\ events' = [events EXCEPT ![fd] = NoEvent]
  /\ call' = [call EXCEPT ![c] = [op |-> "del", fd |-> fd, ev |-> events[fd]]]
  /\ UNCHANGED <<opened, live, epoll, batch, cur, wpc, raced, lost>>

\* epoll_ctl(EPOLL_CTL_DEL), after the unlock.
EpollCtlDel(c) ==
  /\ call[c].op = "del"
  /\ epoll' = [epoll EXCEPT ![call[c].fd] = NoEvent]
  /\ call' = [call EXCEPT ![c] = Idle]
  /\ UNCHANGED <<opened, events, deleted, live, batch, cur, wpc, raced, lost>>

-----------------------------------------------------------------------------
(* UpdateEpollEvent: FindEvent without the lock, then EPOLL_CTL_MOD.       *)

UpdateEpollEvent(c, fd) ==
  /\ c = "loop"
  /\ MayCall(c, fd)
  /\ events[fd] # NoEvent
  /\ call' = [call EXCEPT ![c] = [op |-> "mod", fd |-> fd, ev |-> events[fd]]]
  /\ UNCHANGED <<opened, events, deleted, live, epoll, batch, cur, wpc, raced, lost>>

EpollCtlMod(c) ==
  /\ call[c].op = "mod"
  /\ epoll' = [epoll EXCEPT ![call[c].fd] =
                 IF @ = NoEvent THEN NoEvent ELSE call[c].ev]
  /\ call' = [call EXCEPT ![c] = Idle]
  /\ UNCHANGED <<opened, events, deleted, live, batch, cur, wpc, raced, lost>>

-----------------------------------------------------------------------------
(* The loop thread: EventLoopRun and HandleEvent.                          *)

\* The Events other threads are about to take out of the epoll set.
BeingDeleted == {call[u].ev : u \in {v \in Users : call[v].op = "del"}}

\* The loop of RemoveDeletedEvents: frees what deleted_events_ holds, without
\* event_lock_.
RemoveDeletedEvents ==
  /\ wpc = "test"
  /\ live' = live \ deleted
  /\ deleted' = {}
  /\ raced' = BeingDeleted
  /\ wpc' = "clear"
  /\ UNCHANGED <<opened, events, epoll, batch, cur, call, lost>>

\* Its last statement, deleted_events_.clear(): what was put there since is
\* dropped.
ClearDeletedEvents ==
  /\ wpc = "clear"
  /\ lost' = lost \cup deleted
  /\ deleted' = {}
  /\ raced' = raced \cup BeingDeleted
  /\ wpc' = "wait"
  /\ UNCHANGED <<opened, events, live, epoll, batch, cur, call>>

\* epoll_wait fills the array with the pointers of some ready descriptors.
EpollWait ==
  /\ wpc = "wait"
  /\ \E R \in SUBSET {fd \in Fds : epoll[fd] # NoEvent} :
       /\ R # {}
       /\ batch' = {epoll[fd] : fd \in R}
  /\ wpc' = "dispatch"
  /\ UNCHANGED <<opened, events, deleted, live, epoll, cur, call, raced, lost>>

\* As if nothing were ever found deleted.
FindDeletedEventMutant(e) == FALSE

\* FindDeletedEvent
FindDeletedEvent(e) == e \in deleted

\* One round of HandleEvent: skip an Event deleted earlier in this batch, call
\* the handler of any other.
HandleEvent ==
  /\ wpc = "dispatch"
  /\ \E e \in batch :
       /\ batch' = batch \ {e}
       /\ IF FindDeletedEvent(e)
            THEN UNCHANGED <<cur, wpc>>
            ELSE cur' = e /\ wpc' = "handler"
  /\ UNCHANGED <<opened, events, deleted, live, epoll, call, raced, lost>>

HandlerReturns ==
  /\ wpc = "handler"
  /\ call["loop"] = Idle
  /\ wpc' = "dispatch"
  /\ cur' = NoEvent
  /\ UNCHANGED <<opened, events, deleted, live, epoll, batch, call, raced, lost>>

BatchDone ==
  /\ wpc = "dispatch"
  /\ batch = {}
  /\ wpc' = "test"
  /\ UNCHANGED <<opened, events, deleted, live, epoll, batch, cur, call, raced, lost>>

-----------------------------------------------------------------------------
TableNext ==
  \/ \E fd \in Fds : OpenFd(fd) \/ CloseFd(fd)
  \/ \E c \in Callers, fd \in Fds :
       SetEventHandler(c, fd) \/ DeleteEpollEvent(c, fd)
         \/ UpdateEpollEvent(c, fd)
  \/ \E c \in Callers :
       EpollCtlAdd(c) \/ EpollCtlAddFails(c) \/ EpollCtlDel(c) \/ EpollCtlMod(c)
  \/ RemoveDeletedEvents \/ ClearDeletedEvents
  \/ EpollWait \/ HandleEvent \/ HandlerReturns \/ BatchDone

TableSpec == TableInit /\ [][TableNext]_tableVars

-----------------------------------------------------------------------------
(* Properties.                                                             *)

\* No pointer the kernel or the loop may follow is freed: not those in the array
\* still to be handled, although earlier handlers of the same array may have
\* deleted their descriptor, closed it and registered it again, and not those
\* epoll_wait may return next.  The one exception is an Event that another
\* thread was inside DeleteEpollEvent with while the loop ran
\* RemoveDeletedEvents: a deletion by a handler, or one that RemoveDeletedEvents
\* did not overlap, never leaves a freed pointer.
PointersLive ==
  /\ batch \subseteq live \cup raced
  /\ \A fd \in Fds : epoll[fd] # NoEvent => epoll[fd] \in live \cup raced

\* No Event is in two places, and none is leaked but by the final clear() of
\* RemoveDeletedEvents: an Event alive is registered for exactly one descriptor,
\* or waits to be freed, or was put into deleted_events_ just before the clear().
EventsAccounted ==
  /\ live = deleted \cup Registered \cup lost
  /\ deleted \cap Registered = {} /\ lost \cap (deleted \cup Registered) = {}
  /\ \A f, g \in Fds : events[f] = events[g] /\ events[f] # NoEvent => f = g

\* HandleEvent calls a handler only for an Event that is still registered when
\* it looks it up: an event reported in the same array as the deletion of its
\* descriptor is dropped, also when the descriptor number is already in use
\* again.  The exception is that of PointersLive.
NoStaleHandler ==
  [][(wpc # "handler" /\ wpc' = "handler")
       => cur' \in Registered \cup raced]_tableVars

\* What the deferred deletion is for ("Don't delete tev immediately, let's push
\* it into deleted_events_, before next epoll_wait,we will free all events in
\* deleted_events_", event_loop.cc): whatever epoll_wait returned may be used.
BatchLive == batch \subseteq live

\* The second half of the same comment: every Event put into deleted_events_ is
\* freed.
AllFreed == lost = {}
=============================================================================
