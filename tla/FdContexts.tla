----------------------------- MODULE FdContexts -----------------------------
(***************************************************************************)
(* The socket events of IOManager (src/fiber/iomannager.cc): addEvent,     *)
(* delEvent, cancelEvent, cancelAll, contextResize, triggerEvent and the   *)
(* part of idle() that dispatches what epoll_wait returned; and close() of *)
(* src/hook/hook.cc, which calls cancelAll.                                *)
(*                                                                         *)
(* A step is one critical section: the lookup of the FdContext under       *)
(* IOManager::m_mutex, the resize under the second lock, the rest of the   *)
(* operation under FdContext::mutex, one system call.  The kernel's epoll  *)
(* instance is external: its interest list, edge-triggered readiness and   *)
(* the results of epoll_ctl are modelled as the code uses them.            *)
(***************************************************************************)
EXTENDS Integers, FiniteSets

CONSTANTS
    Thread,        \* threads that execute fibers and idle()
    Fd,            \* file descriptors (numbers)
    Event,         \* the events used: a subset of {"READ", "WRITE"}
    Closable,      \* the descriptors that the program closes while it runs
    InitialSize,   \* contextResize(32) of the constructor
    Waiter,        \* one element per call of addEvent
    MaxGen,        \* bound: FdContext objects per descriptor
    MaxEpoch,      \* bound: how often a descriptor is closed and opened again
    None

ASSUME FdAssumption == Fd \subseteq Nat /\ Fd # {} /\ Closable \subseteq Fd /\ InitialSize \in Nat \ {0}
ASSUME EventAssumption == Event \subseteq {"READ", "WRITE"} /\ Event # {}
ASSUME WaiterAssumption == None \notin Waiter /\ IsFiniteSet(Waiter)
ASSUME GenAssumption == MaxGen \in Nat /\ MaxEpoch \in Nat

\* An FdContext object; the vector holds <<fd, gen[fd]>> at index fd.
Obj == Fd \X (0..MaxGen)

VARIABLES
    size,                 \* m_fdContexts.size()
    gen,                  \* which object the vector holds for a descriptor
    events,               \* FdContext::events
    slot,                 \* FdContext::read and write: who waits, or None
    m_pendingEventCount,
    epoch,                \* how often the descriptor has been opened again
    open,                 \* the descriptor is open
    interest,             \* epoll: events registered, {} if not registered
    dataPtr,              \* epoll: the data.ptr of the registration
    ready,                \* epoll: readiness of the socket, with "HUP"
    fired,                \* epoll: the descriptor is on the ready list
    pc, argFd, argEv, ctx, who,   \* the call each thread executes
    got,                  \* the epoll_event array of idle(), not yet handled
    status,               \* of a waiter: "new", "registered", "scheduled", "deleted"
    reg,                  \* <<fd, event, epoch>> a waiter was registered for
    aborted               \* the PHASE0_ASSERT that failed, or "no"

ctxVars   == <<size, gen, events, slot, m_pendingEventCount>>
epollVars == <<interest, dataPtr, fired>>
fdVars    == <<epoch, open, ready>>
callVars  == <<pc, argFd, argEv, ctx, who>>
waitVars  == <<status, reg>>
vars == <<ctxVars, epollVars, fdVars, callVars, got, waitVars, aborted>>

AnyFd == CHOOSE f \in Fd : TRUE
AnyEv == CHOOSE e \in Event : TRUE
NoObj == <<AnyFd, 0>>

Init ==
    /\ size = InitialSize
    /\ gen = [f \in Fd |-> 0]
    /\ events = [c \in Obj |-> {}]
    /\ slot = [c \in Obj |-> [e \in Event |-> None]]
    /\ m_pendingEventCount = 0
    /\ epoch = [f \in Fd |-> 0]
    /\ open = [f \in Fd |-> TRUE]
    /\ interest = [f \in Fd |-> {}]
    /\ dataPtr = [f \in Fd |-> NoObj]
    /\ ready = [f \in Fd |-> {}]
    /\ fired = [f \in Fd |-> FALSE]
    /\ pc = [t \in Thread |-> "free"]
    /\ argFd = [t \in Thread |-> AnyFd]
    /\ argEv = [t \in Thread |-> AnyEv]
    /\ ctx = [t \in Thread |-> NoObj]
    /\ who = [t \in Thread |-> None]
    /\ got = [t \in Thread |-> {}]
    /\ status = [n \in Waiter |-> "new"]
    /\ reg = [n \in Waiter |-> <<AnyFd, AnyEv, 0>>]
    /\ aborted = "no"

\* Thread t stands at `where`; a failed assertion has ended the process.
At(t, where) == aborted = "no" /\ pc[t] = where

Goto(t, where) == pc' = [pc EXCEPT ![t] = where]

\* The call returns; its locals are dead.
Return(t) ==
    /\ Goto(t, "free")
    /\ argFd' = [argFd EXCEPT ![t] = AnyFd]
    /\ argEv' = [argEv EXCEPT ![t] = AnyEv]
    /\ ctx' = [ctx EXCEPT ![t] = NoObj]
    /\ who' = [who EXCEPT ![t] = None]

-----------------------------------------------------------------------------
(* The kernel: epoll_ctl, epoll_wait, readiness.                           *)

\* epoll_ctl(m_epfd, op, fd, ..) with op = ADD or MOD, chosen by `before`, the
\* events the FdContext had: ADD fails on a registered descriptor, MOD on an
\* unregistered one, both on a closed one.
CtlSetOK(f, before) == open[f] /\ (before = {} <=> interest[f] = {})

\* epoll_ctl with op = MOD, or DEL when no event is left.
CtlClearOK(f) == open[f] /\ interest[f] # {}

\* A successful epoll_ctl: the registration becomes `new` with data.ptr c, and
\* the kernel polls the socket again.
Register(f, c, new) ==
    /\ interest' = [interest EXCEPT ![f] = new]
    /\ dataPtr' = [dataPtr EXCEPT ![f] = IF new = {} THEN NoObj ELSE c]
    /\ fired' = [fired EXCEPT ![f] = new # {} /\ ready[f] \cap (new \cup {"HUP"}) # {}]

\* The socket becomes readable, writable or hung up: an edge.
BecomesReady(f, e) ==
    /\ open[f] /\ e \notin ready[f]
    /\ ready' = [ready EXCEPT ![f] = @ \cup {e}]
    /\ fired' = [fired EXCEPT ![f] = @ \/ (interest[f] # {} /\ e \in interest[f] \cup {"HUP"})]
    /\ UNCHANGED <<ctxVars, interest, dataPtr, epoch, open, callVars, got, waitVars, aborted>>

\* Some fiber has read or written until EAGAIN.
Drained(f, e) ==
    /\ open[f] /\ e \in ready[f]
    /\ ready' = [ready EXCEPT ![f] = @ \ {e}]
    /\ UNCHANGED <<ctxVars, epollVars, epoch, open, callVars, got, waitVars, aborted>>

\* What epoll_wait reports for a descriptor on the ready list.
Reported(f) == ready[f] \cap (interest[f] \cup {"HUP"})

\* epoll_wait of idle() returns a non-empty selection of the ready list.
EpollWait(t) ==
    /\ At(t, "free")
    /\ \E F \in (SUBSET {f \in Fd : fired[f] /\ Reported(f) # {}}) \ {{}} :
        /\ got' = [got EXCEPT ![t] = {[obj |-> dataPtr[f], evs |-> Reported(f)] : f \in F}]
        /\ fired' = [f \in Fd |-> fired[f] /\ f \notin F]
    /\ Goto(t, "dispatch")
    /\ UNCHANGED <<ctxVars, interest, dataPtr, fdVars, argFd, argEv, ctx, who,
                   waitVars, aborted>>

-----------------------------------------------------------------------------
(* FdContext::triggerEvent for all events of E, and the count of each.     *)

TriggerEvents(c, E) ==
    LET bad == E \ events[c]
        ok  == E \cap events[c]
    IN  /\ aborted' = IF bad = {} THEN aborted ELSE "iomannager.cc:86"
        /\ events' = [events EXCEPT ![c] = @ \ ok]
        /\ status' = [n \in Waiter |-> IF \E e \in ok : slot[c][e] = n
                                       THEN "scheduled" ELSE status[n]]
        /\ slot' = [slot EXCEPT ![c] = [e \in Event |-> IF e \in ok THEN None ELSE @[e]]]
        /\ m_pendingEventCount' = m_pendingEventCount - Cardinality(ok)

-----------------------------------------------------------------------------
(* addEvent                                                                *)

\* Some fiber already waits for this event of this open descriptor, or is
\* about to: the users of IOManager have one reader and one writer per socket.
Taken(f, e) ==
    \/ \E n \in Waiter : status[n] = "registered" /\ reg[n] = <<f, e, epoch[f]>>
    \/ \E t \in Thread : pc[t] \in {"resize", "add"} /\ argFd[t] = f /\ argEv[t] = e

\* The first locked look at the vector.
AddEvent(t, f, e, n) ==
    /\ At(t, "free")
    /\ open[f] /\ ~Taken(f, e)
    /\ status[n] = "new" /\ \A u \in Thread : who[u] # n
    /\ argFd' = [argFd EXCEPT ![t] = f]
    /\ argEv' = [argEv EXCEPT ![t] = e]
    /\ who' = [who EXCEPT ![t] = n]
    /\ IF size > f THEN Goto(t, "add") /\ ctx' = [ctx EXCEPT ![t] = <<f, gen[f]>>]
       ELSE Goto(t, "resize") /\ UNCHANGED ctx
    /\ UNCHANGED <<ctxVars, epollVars, fdVars, got, waitVars, aborted>>

\* Mutant of NewSize: the vector gets as many entries as the descriptor's number.
NewSizeOffByOne(f) == f

\* fd * 1.5, truncated
NewSize(f) == (f * 3) \div 2

\* The vector is resized under a second lock, without looking at its size
\* again; entries at and above the new size are dropped.
ContextResize(t) ==
    LET f == argFd[t]
        n == NewSize(f)
    IN  /\ At(t, "resize")
        /\ \A d \in Fd : n <= d /\ d < size => gen[d] < MaxGen
        /\ size' = n
        /\ gen' = [d \in Fd |-> IF n <= d /\ d < size THEN gen[d] + 1 ELSE gen[d]]
        /\ ctx' = [ctx EXCEPT ![t] = <<f, gen'[f]>>]
        /\ Goto(t, "add")
        /\ UNCHANGED <<events, slot, m_pendingEventCount, epollVars, fdVars,
                       argFd, argEv, who, got, waitVars, aborted>>

\* Mutant of AddEventLocked: epoll is given the old events only.
AddEventForgetsBit(t) ==
    LET f == argFd[t]
        e == argEv[t]
        c == ctx[t]
        n == who[t]
    IN  /\ At(t, "add")
        /\ aborted' = IF e \in events[c] THEN "iomannager.cc:180" ELSE aborted
        /\ IF e \notin events[c] /\ CtlSetOK(f, events[c])
           THEN /\ Register(f, c, events[c])
                /\ m_pendingEventCount' = m_pendingEventCount + 1
                /\ events' = [events EXCEPT ![c] = @ \cup {e}]
                /\ slot' = [slot EXCEPT ![c][e] = n]
                /\ status' = [status EXCEPT ![n] = "registered"]
                /\ reg' = [reg EXCEPT ![n] = <<f, e, epoch[f]>>]
           ELSE UNCHANGED <<events, slot, m_pendingEventCount, epollVars, waitVars>>
        /\ Return(t)
        /\ UNCHANGED <<size, gen, fdVars, got>>

\* The rest of addEvent, under FdContext::mutex.
AddEventLocked(t) ==
    LET f == argFd[t]
        e == argEv[t]
        c == ctx[t]
        n == who[t]
        new == events[c] \cup {e}
    IN  /\ At(t, "add")
        /\ aborted' = IF e \in events[c] THEN "iomannager.cc:180" ELSE aborted
        /\ IF e \notin events[c] /\ CtlSetOK(f, events[c])
           THEN /\ Register(f, c, new)
                /\ m_pendingEventCount' = m_pendingEventCount + 1
                /\ events' = [events EXCEPT ![c] = new]
                /\ slot' = [slot EXCEPT ![c][e] = n]
                /\ status' = [status EXCEPT ![n] = "registered"]
                /\ reg' = [reg EXCEPT ![n] = <<f, e, epoch[f]>>]
           ELSE UNCHANGED <<events, slot, m_pendingEventCount, epollVars, waitVars>>
        /\ Return(t)
        /\ UNCHANGED <<size, gen, fdVars, got>>

-----------------------------------------------------------------------------
(* delEvent, cancelEvent, cancelAll                                        *)

\* The locked lookup they all begin with; it fails beyond the vector's size.
Lookup(t, f, e, where) ==
    /\ At(t, "free")
    /\ size > f
    /\ argFd' = [argFd EXCEPT ![t] = f]
    /\ argEv' = [argEv EXCEPT ![t] = e]
    /\ ctx' = [ctx EXCEPT ![t] = <<f, gen[f]>>]
    /\ Goto(t, where)
    /\ UNCHANGED <<ctxVars, epollVars, fdVars, who, got, waitVars, aborted>>

\* The event is not there, or epoll_ctl fails: false is returned.
NothingToClear(t) ==
    /\ At(t, "del") \/ At(t, "cancel")
    /\ argEv[t] \notin events[ctx[t]] \/ ~CtlClearOK(argFd[t])
    /\ Return(t)
    /\ UNCHANGED <<ctxVars, epollVars, fdVars, got, waitVars, aborted>>

\* delEvent: the waiter is forgotten, not scheduled.
DelEvent(t) ==
    LET e == argEv[t]
        c == ctx[t]
    IN  /\ At(t, "del")
        /\ e \in events[c] /\ CtlClearOK(argFd[t])
        /\ Register(argFd[t], c, events[c] \ {e})
        /\ m_pendingEventCount' = m_pendingEventCount - 1
        /\ events' = [events EXCEPT ![c] = @ \ {e}]
        /\ status' = [status EXCEPT ![slot[c][e]] = "deleted"]
        /\ slot' = [slot EXCEPT ![c][e] = None]
        /\ Return(t)
        /\ UNCHANGED <<size, gen, fdVars, got, reg, aborted>>

\* Mutant of CancelEvent: it does not look whether the event is registered.
CancelEventUnchecked(t) ==
    LET e == argEv[t]
        c == ctx[t]
    IN  /\ At(t, "cancel")
        /\ CtlClearOK(argFd[t])
        /\ Register(argFd[t], c, events[c] \ {e})
        /\ TriggerEvents(c, {e})
        /\ Return(t)
        /\ UNCHANGED <<size, gen, fdVars, got, reg>>

\* cancelEvent: the waiter is scheduled.
CancelEvent(t) ==
    LET e == argEv[t]
        c == ctx[t]
    IN  /\ At(t, "cancel")
        /\ e \in events[c] /\ CtlClearOK(argFd[t])
        /\ Register(argFd[t], c, events[c] \ {e})
        /\ TriggerEvents(c, {e})
        /\ Return(t)
        /\ UNCHANGED <<size, gen, fdVars, got, reg>>

\* close() of hook.cc begins: cancelAll(fd) looks the FdContext up.
Close(t, f) ==
    /\ At(t, "free") /\ open[f]
    /\ \A u \in Thread : pc[u] \in {"cancelAll", "close"} => argFd[u] # f
    /\ argFd' = [argFd EXCEPT ![t] = f]
    /\ IF size > f THEN Goto(t, "cancelAll") /\ ctx' = [ctx EXCEPT ![t] = <<f, gen[f]>>]
       ELSE Goto(t, "close") /\ UNCHANGED ctx
    /\ UNCHANGED <<ctxVars, epollVars, fdVars, argEv, who, got, waitVars, aborted>>

\* cancelAll under FdContext::mutex.
CancelAll(t) ==
    LET f == argFd[t]
        c == ctx[t]
    IN  /\ At(t, "cancelAll")
        /\ IF events[c] # {} /\ CtlClearOK(f)
           THEN Register(f, c, {}) /\ TriggerEvents(c, events[c])
           ELSE UNCHANGED <<epollVars, events, slot, m_pendingEventCount, status, aborted>>
        /\ Goto(t, "close")
        /\ UNCHANGED <<size, gen, fdVars, argFd, argEv, ctx, who, got, reg>>

\* close_f(fd): the kernel drops the registration with the descriptor.
CloseFd(t) ==
    LET f == argFd[t]
    IN  /\ At(t, "close")
        /\ open' = [open EXCEPT ![f] = FALSE]
        /\ ready' = [ready EXCEPT ![f] = {}]
        /\ interest' = [interest EXCEPT ![f] = {}]
        /\ dataPtr' = [dataPtr EXCEPT ![f] = NoObj]
        /\ fired' = [fired EXCEPT ![f] = FALSE]
        /\ Return(t)
        /\ UNCHANGED <<ctxVars, epoch, got, waitVars, aborted>>

\* A new socket gets the descriptor's number.
Reopen(f) ==
    /\ ~open[f] /\ epoch[f] < MaxEpoch
    /\ open' = [open EXCEPT ![f] = TRUE]
    /\ epoch' = [epoch EXCEPT ![f] = @ + 1]
    /\ UNCHANGED <<ctxVars, epollVars, ready, callVars, got, waitVars, aborted>>

-----------------------------------------------------------------------------
(* The dispatch loop of idle().                                            *)

\* The events of an epoll_event the loop acts on; ERR and HUP stand for the
\* registered ones.
RealEvents(ev) ==
    (ev.evs \cap Event) \cup (IF "HUP" \in ev.evs THEN events[ev.obj] ELSE {})

\* Mutant of Dispatch: only one entry of the array is looked at.
DispatchFirstOnly(t) ==
    /\ At(t, "dispatch")
    /\ \E ev \in got[t] :
        LET c == ev.obj
            f == c[1]
            real == RealEvents(ev)
        IN  /\ IF events[c] \cap real # {} /\ CtlClearOK(f)
               THEN /\ Register(f, c, events[c] \ real)
                    /\ TriggerEvents(c, real)
               ELSE UNCHANGED <<epollVars, events, slot, m_pendingEventCount,
                                status, aborted>>
    /\ got' = [got EXCEPT ![t] = {}]
    /\ Goto(t, "free")
    /\ UNCHANGED <<size, gen, fdVars, argFd, argEv, ctx, who, reg>>

Dispatch(t) ==
    /\ At(t, "dispatch")
    /\ \E ev \in got[t] :
        LET c == ev.obj
            f == c[1]
            real == RealEvents(ev)
        IN  /\ IF events[c] \cap real # {} /\ CtlClearOK(f)
               THEN /\ Register(f, c, events[c] \ real)
                    /\ TriggerEvents(c, real)
               ELSE UNCHANGED <<epollVars, events, slot, m_pendingEventCount,
                                status, aborted>>
            /\ got' = [got EXCEPT ![t] = @ \ {ev}]
            /\ IF got[t] = {ev} THEN Goto(t, "free") ELSE UNCHANGED pc
    /\ UNCHANGED <<size, gen, fdVars, argFd, argEv, ctx, who, reg>>

-----------------------------------------------------------------------------
ThreadStep(t) ==
    \/ ContextResize(t) \/ AddEventLocked(t)
    \/ NothingToClear(t) \/ DelEvent(t) \/ CancelEvent(t)
    \/ CancelAll(t) \/ CloseFd(t) \/ EpollWait(t) \/ Dispatch(t)
    \/ \E f \in Closable : Close(t, f)
    \/ \E f \in Fd, e \in Event : \/ Lookup(t, f, e, "del") \/ Lookup(t, f, e, "cancel")
                                  \/ \E n \in Waiter : AddEvent(t, f, e, n)

Environment ==
    \E f \in Fd : \/ Reopen(f)
                  \/ \E e \in Event \cup {"HUP"} : BecomesReady(f, e)
                  \/ \E e \in Event : Drained(f, e)

Next == Environment \/ \E t \in Thread : ThreadStep(t)

Spec == Init /\ [][Next]_vars

-----------------------------------------------------------------------------
(* Properties.                                                             *)

\* Every variable keeps its type; m_pendingEventCount never goes below zero.
TypeOK ==
    /\ size \in Nat /\ gen \in [Fd -> 0..MaxGen]
    /\ events \in [Obj -> SUBSET Event]
    /\ slot \in [Obj -> [Event -> Waiter \cup {None}]]
    /\ m_pendingEventCount \in Nat
    /\ epoch \in [Fd -> 0..MaxEpoch] /\ open \in [Fd -> BOOLEAN]
    /\ interest \in [Fd -> SUBSET Event] /\ dataPtr \in [Fd -> Obj]
    /\ ready \in [Fd -> SUBSET (Event \cup {"HUP"})] /\ fired \in [Fd -> BOOLEAN]
    /\ argFd \in [Thread -> Fd] /\ argEv \in [Thread -> Event]
    /\ ctx \in [Thread -> Obj] /\ who \in [Thread -> Waiter \cup {None}]
    /\ got \in [Thread -> SUBSET [obj : Obj, evs : SUBSET (Event \cup {"HUP"})]]
    /\ status \in [Waiter -> {"new", "registered", "scheduled", "deleted"}]
    /\ reg \in [Waiter -> Fd \X Event \X (0..MaxEpoch)]

Registered == {n \in Waiter : status[n] = "registered"}

\* m_pendingEventCount, which stopping() reads, is the number of fibers and
\* callbacks that still wait for an event, however registrations, dispatches,
\* cancels and closes interleave.
PendingExact == m_pendingEventCount = Cardinality(Registered)

\* A waiter is remembered in exactly one slot, whose event bit is set, until it
\* is scheduled or deleted: nobody is lost and nobody is scheduled twice.
WaiterInOneSlot ==
    /\ \A n \in Registered : \E c \in Obj, e \in Event :
          slot[c][e] = n /\ \A d \in Obj, g \in Event : slot[d][g] = n => d = c /\ g = e
    /\ \A c \in Obj, e \in Event :
          /\ e \in events[c] <=> slot[c][e] # None
          /\ slot[c][e] # None => slot[c][e] \in Registered

\* No PHASE0_ASSERT of triggerEvent (:86) or addEvent (:180) fails.
NoAssertionFails == aborted = "no"

\* Whoever waits for an event of an open descriptor can be woken: epoll has the
\* event registered, with the FdContext that remembers the waiter.
WaiterIsArmed ==
    \A n \in Registered : LET f == reg[n][1] e == reg[n][2] IN
        /\ open[f] /\ reg[n][3] = epoch[f]
        /\ e \in interest[f] /\ slot[dataPtr[f]][e] = n

\* FdContexts, m_pendingEventCount, the waiters and epoll agree in every state,
\* however addEvent, delEvent, cancelEvent, cancelAll, dispatch and close
\* interleave: the four parts above.
EventsInv == TypeOK /\ PendingExact /\ WaiterInOneSlot /\ WaiterIsArmed

\* A registered event can be cancelled: cancelEvent, delEvent and cancelAll find
\* the FdContext that holds the waiter, so that a timeout or a close() wakes it.
WaiterIsReachable ==
    \A n \in Registered : LET f == reg[n][1] IN
        f < size /\ slot[<<f, gen[f]>>][reg[n][2]] = n

\* Readiness of a socket that someone waits for is never forgotten: it is on the
\* ready list or in the hands of a thread that is about to dispatch it.
NoLostEdge ==
    \A n \in Registered : LET f == reg[n][1] e == reg[n][2] IN
        ready[f] \cap {e, "HUP"} # {} =>
            \/ fired[f]
            \/ \E t \in Thread : \E ev \in got[t] :
                  ev.obj = dataPtr[f] /\ ev.evs \cap {e, "HUP"} # {}
=============================================================================
