-------------------------------- MODULE Hook --------------------------------
(***************************************************************************)
(* The hooked system calls (src/hook/hook.cc) and the FdManager behind     *)
(* them (src/hook/FdManager.cc), on threads with t_hookEnable set: do_io   *)
(* with its retry loop, timeout and event, connect_with_timeout, sleep,    *)
(* socket, accept, close, fcntl, ioctl and setsockopt.                     *)
(*                                                                         *)
(* There are enough threads for every fiber and every timer callback to be *)
(* under way at the same time.  A step ends where another thread can see a *)
(* difference: after a lock, a system call, or a call of IOManager.  What  *)
(* IOManager and TimerManager do inside is in FdContexts and TimerManager; *)
(* here addEvent, cancelEvent, addConditionTimer and Timer::cancel are     *)
(* atomic.  A fiber yields in the step of its addEvent.                    *)
(***************************************************************************)
EXTENDS Integers, FiniteSets

CONSTANTS
    Fiber, Fd,
    FionbioArgs,     \* the values programs pass to ioctl(fd, FIONBIO, ..)
    SharedClose,     \* a descriptor may be closed while another fiber uses it
    EarlyExpiry,     \* a timeout may pass between addConditionTimer and addEvent
    MaxCalls,        \* bound: calls per fiber
    MaxGen,          \* bound: sockets that get the same descriptor
    None

Event == {"READ", "WRITE"}
FdCtx == [sock : 1..MaxGen, userNonblock : BOOLEAN, timeouts : SUBSET Event]
Registration == Fiber \X (1..MaxGen)

ASSUME HookAssumption ==
    /\ None \notin Fiber \cup Fd \cup FdCtx \cup (Fiber \X Nat)
    /\ FionbioArgs \subseteq BOOLEAN /\ SharedClose \in BOOLEAN /\ EarlyExpiry \in BOOLEAN
    /\ MaxCalls \in Nat /\ MaxGen \in Nat

\* read, readv, recv.. and accept are "read"; write, send.. are "write".
Op == {"read", "write", "connect"}
EventOf(op) == IF op = "read" THEN "READ" ELSE "WRITE"

VARIABLES
    m_datas,      \* FdManager: the FdCtx of a descriptor, or None
    gen,          \* kernel: which socket has the descriptor
    alive,        \* kernel: the descriptor is open
    nonblock,     \* kernel: O_NONBLOCK
    avail,        \* kernel: the events for which the call would not block
    slot,         \* FdContext: <<fiber, socket>> that waits for an event, or None
    pc, op, fd,   \* the call each fiber executes
    to,           \* the call has a timeout
    cancelled,    \* TimerInfo::cancelled is ETIMEDOUT
    calls,        \* number of the fiber's current or last call
    timers,       \* timeouts that are armed ("set"), scheduled ("due") or at work
    expired,      \* a timer of the current call has expired
    result        \* of the fiber's last call

kernelVars == <<gen, alive, nonblock, avail>>
callVars == <<op, fd, to, cancelled, calls, expired>>
vars == <<m_datas, kernelVars, slot, pc, callVars, timers, result>>

InIO == {"try", "arm", "add", "wait", "woken"}
Timer == [fiber : Fiber, call : 1..MaxCalls, fd : Fd, event : Event,
          stage : {"set", "due", "cancel"}]

Init ==
    /\ m_datas = [d \in Fd |-> None]
    /\ gen = [d \in Fd |-> 0]
    /\ alive = [d \in Fd |-> FALSE]
    /\ nonblock = [d \in Fd |-> FALSE]
    /\ avail = [d \in Fd |-> {}]
    /\ slot = [d \in Fd |-> [e \in Event |-> None]]
    /\ pc = [f \in Fiber |-> "idle"]
    /\ op = [f \in Fiber |-> "read"]
    /\ fd = [f \in Fiber |-> None]
    /\ to = [f \in Fiber |-> FALSE]
    /\ cancelled = [f \in Fiber |-> FALSE]
    /\ calls = [f \in Fiber |-> 0]
    /\ timers = {}
    /\ expired = [f \in Fiber |-> FALSE]
    /\ result = [f \in Fiber |-> "none"]

Goto(f, where) == pc' = [pc EXCEPT ![f] = where]
Set(v, f, x) == [v EXCEPT ![f] = x]

\* A call begins on descriptor d.
Enter(f, d, where) ==
    /\ pc[f] = "idle" /\ calls[f] < MaxCalls
    /\ Goto(f, where)
    /\ fd' = Set(fd, f, d)
    /\ calls' = Set(calls, f, calls[f] + 1)
    /\ result' = Set(result, f, "none")

\* The call of f returns r; its locals, the TimerInfo among them, are gone.
Return(f, r) ==
    /\ Goto(f, "idle")
    /\ fd' = Set(fd, f, None)
    /\ op' = Set(op, f, "read")
    /\ to' = Set(to, f, FALSE)
    /\ cancelled' = Set(cancelled, f, FALSE)
    /\ expired' = Set(expired, f, FALSE)
    /\ result' = Set(result, f, r)
    /\ UNCHANGED calls

\* A fiber knows descriptor d: the socket() or accept() that made it is over.
Known(d) == alive[d] /\ \A f \in Fiber : pc[f] \in {"get", "create"} => fd[f] # d

\* A fiber is inside a call on descriptor d.
Uses(f, d) == pc[f] \in InIO /\ fd[f] = d

-----------------------------------------------------------------------------
(* socket() and accept(): a new descriptor and its FdCtx.                  *)

\* socket_f or accept_f returns d.
Socket(f, d) ==
    /\ ~alive[d] /\ gen[d] < MaxGen
    /\ Enter(f, d, "get")
    /\ alive' = [alive EXCEPT ![d] = TRUE]
    /\ gen' = [gen EXCEPT ![d] = @ + 1]
    /\ nonblock' = [nonblock EXCEPT ![d] = FALSE]
    /\ avail' = [avail EXCEPT ![d] = {}]
    /\ UNCHANGED <<m_datas, slot, op, to, cancelled, timers, expired>>

\* FdManager::get(fd, true), first lock: an existing FdCtx is returned as it is.
Get(f) ==
    /\ pc[f] = "get"
    /\ IF m_datas[fd[f]] # None THEN Return(f, "ok")
       ELSE Goto(f, "create") /\ UNCHANGED <<callVars, result>>
    /\ UNCHANGED <<m_datas, kernelVars, slot, timers>>

\* FdManager::get, second lock, and FdCtx::init.
Create(f) ==
    LET d == fd[f]
    IN  /\ pc[f] = "create"
        /\ nonblock' = [nonblock EXCEPT ![d] = TRUE]
        /\ m_datas' = [m_datas EXCEPT ![d] = [sock |-> gen[d], userNonblock |-> FALSE,
                                              timeouts |-> {}]]
        /\ Return(f, "ok")
        /\ UNCHANGED <<gen, alive, avail, slot, timers>>

-----------------------------------------------------------------------------
(* fcntl(F_SETFL), ioctl(FIONBIO), setsockopt(SO_RCVTIMEO, SO_SNDTIMEO).   *)

Fcntl(d, userNonblock) ==
    /\ Known(d)
    /\ IF m_datas[d] = None
       THEN nonblock' = [nonblock EXCEPT ![d] = userNonblock] /\ UNCHANGED m_datas
       ELSE /\ m_datas' = [m_datas EXCEPT ![d].userNonblock = userNonblock]
            /\ nonblock' = [nonblock EXCEPT ![d] = TRUE]
    /\ UNCHANGED <<gen, alive, avail, slot, pc, callVars, timers, result>>

Ioctl(d, userNonblock) ==
    /\ Known(d)
    /\ nonblock' = [nonblock EXCEPT ![d] = userNonblock]
    /\ m_datas' = IF m_datas[d] = None THEN m_datas
                  ELSE [m_datas EXCEPT ![d].userNonblock = userNonblock]
    /\ UNCHANGED <<gen, alive, avail, slot, pc, callVars, timers, result>>

\* SO_RCVTIMEO is the timeout of READ, SO_SNDTIMEO the one of WRITE.  The kernel's
\* own timeout has no effect on a non-blocking socket.
Setsockopt(d, e) ==
    /\ Known(d) /\ m_datas[d] # None
    /\ m_datas' = [m_datas EXCEPT ![d].timeouts = @ \cup {e}]
    /\ UNCHANGED <<kernelVars, slot, pc, callVars, timers, result>>

-----------------------------------------------------------------------------
(* do_io and connect_with_timeout                                          *)

\* The call on a managed socket that the user did not make non-blocking; every
\* other call goes straight to the kernel.  One fiber reads a socket and one
\* writes it.
Call(f, o, d) ==
    /\ Known(d)
    /\ m_datas[d] # None /\ ~m_datas[d].userNonblock
    /\ \A g \in Fiber : Uses(g, d) => EventOf(op[g]) # EventOf(o)
    /\ SharedClose \/ \A g \in Fiber : pc[g] \in {"cancelAll", "del", "close"} => fd[g] # d
    /\ Enter(f, d, "try")
    /\ op' = Set(op, f, o)
    /\ to' = Set(to, f, o = "connect" \/ EventOf(o) \in m_datas[d].timeouts)
    /\ UNCHANGED <<m_datas, kernelVars, slot, cancelled, timers, expired>>

\* fun(fd, ..) succeeds, fails on a closed descriptor, or would block.
Try(f) ==
    LET d == fd[f]
        e == EventOf(op[f])
    IN  /\ pc[f] = "try"
        /\ \/ alive[d] /\ e \in avail[d]
              /\ avail' \in {avail, [avail EXCEPT ![d] = @ \ {e}]}
              /\ Return(f, "ok")
           \/ ~alive[d] /\ Return(f, "EBADF") /\ UNCHANGED avail
           \/ alive[d] /\ e \notin avail[d] /\ nonblock[d]
              /\ Goto(f, IF to[f] THEN "arm" ELSE "add")
              /\ UNCHANGED <<callVars, result, avail>>
        /\ UNCHANGED <<m_datas, gen, alive, nonblock, slot, timers>>

TimerOf(f) == [fiber |-> f, call |-> calls[f], fd |-> fd[f], event |-> EventOf(op[f]),
               stage |-> "set"]

\* addConditionTimer(to, .., winfo)
Arm(f) ==
    /\ pc[f] = "arm"
    /\ timers' = timers \cup {TimerOf(f)}
    /\ Goto(f, "add")
    /\ UNCHANGED <<m_datas, kernelVars, slot, callVars, result>>

\* addEvent and the yield; if it fails, timer->cancel() and -1.
Add(f) ==
    LET d == fd[f]
        e == EventOf(op[f])
    IN  /\ pc[f] = "add"
        /\ IF alive[d]
           THEN /\ slot' = [slot EXCEPT ![d][e] = <<f, gen[d]>>]
                /\ Goto(f, "wait")
                /\ UNCHANGED <<callVars, timers, result>>
           ELSE /\ timers' = timers \ {TimerOf(f)}
                /\ Return(f, "EBADF")
                /\ UNCHANGED slot
        /\ UNCHANGED <<m_datas, kernelVars>>

\* Mutant of Woken: without timer->cancel().
WokenKeepsTimer(f) ==
    /\ pc[f] = "woken"
    /\ CASE cancelled[f] -> Return(f, "ETIMEDOUT")
         [] ~cancelled[f] /\ op[f] = "connect" ->
              Return(f, IF alive[fd[f]] THEN "ok" ELSE "EBADF")
         [] ~cancelled[f] /\ op[f] # "connect" ->
              Goto(f, "try") /\ UNCHANGED <<callVars, result>>
    /\ UNCHANGED <<m_datas, kernelVars, slot, timers>>

\* Mutant of Woken: the retry label is behind the system call.
WokenWaitsAgain(f) ==
    /\ pc[f] = "woken"
    /\ timers' = timers \ {TimerOf(f)}
    /\ CASE cancelled[f] -> Return(f, "ETIMEDOUT")
         [] ~cancelled[f] /\ op[f] = "connect" ->
              Return(f, IF alive[fd[f]] THEN "ok" ELSE "EBADF")
         [] ~cancelled[f] /\ op[f] # "connect" ->
              Goto(f, IF to[f] THEN "arm" ELSE "add") /\ UNCHANGED <<callVars, result>>
    /\ UNCHANGED <<m_datas, kernelVars, slot>>

\* The fiber runs again: timer->cancel(), then the timeout is looked at, then
\* the call is tried again, or connect asks for SO_ERROR.
Woken(f) ==
    /\ pc[f] = "woken"
    /\ timers' = timers \ {TimerOf(f)}
    /\ CASE cancelled[f] -> Return(f, "ETIMEDOUT")
         [] ~cancelled[f] /\ op[f] = "connect" ->
              Return(f, IF alive[fd[f]] THEN "ok" ELSE "EBADF")
         [] ~cancelled[f] /\ op[f] # "connect" ->
              Goto(f, "try") /\ UNCHANGED <<callVars, result>>
    /\ UNCHANGED <<m_datas, kernelVars, slot>>

-----------------------------------------------------------------------------
(* sleep, usleep, nanosleep                                                *)

\* addTimer(.., schedule(fiber)) and the yield.
Sleep(f) ==
    /\ Enter(f, None, "asleep")
    /\ UNCHANGED <<m_datas, kernelVars, slot, op, to, cancelled, timers, expired>>

\* The timer expires and its callback schedules the fiber.
Awake(f) ==
    /\ pc[f] = "asleep"
    /\ Return(f, "ok")
    /\ UNCHANGED <<m_datas, kernelVars, slot, timers>>

-----------------------------------------------------------------------------
(* Who wakes a waiting fiber.                                              *)

\* The fibers that wait for the events E of d with a registration epoll has.
Waiting(d, E) ==
    {f \in Fiber : \E e \in E : slot[d][e] = <<f, gen[d]>>}

\* Mutant of Wake: every waiter of the descriptor is dropped, the ones of E wake.
WakeDropsOther(d, E) ==
    /\ pc' = [f \in Fiber |-> IF f \in Waiting(d, E) THEN "woken" ELSE pc[f]]
    /\ slot' = [slot EXCEPT ![d] = [e \in Event |-> None]]

\* triggerEvent for the registered events of E.
Wake(d, E) ==
    /\ pc' = [f \in Fiber |-> IF f \in Waiting(d, E) THEN "woken" ELSE pc[f]]
    /\ slot' = [slot EXCEPT ![d] = [e \in Event |->
                  IF e \in E /\ @[e] # None /\ @[e][2] = gen[d] THEN None ELSE @[e]]]

\* idle() dispatches readiness.
Dispatch(d, e) ==
    /\ alive[d] /\ e \in avail[d]
    /\ Waiting(d, {e}) # {}
    /\ Wake(d, {e})
    /\ UNCHANGED <<m_datas, kernelVars, callVars, timers, result>>

\* The deadline passes and listExpiredCb takes the timer out of the set.
Expire(x) ==
    /\ x.stage = "set"
    /\ EarlyExpiry \/ pc[x.fiber] # "add"
    /\ timers' = (timers \ {x}) \cup {[x EXCEPT !.stage = "due"]}
    /\ expired' = Set(expired, x.fiber, TRUE)
    /\ UNCHANGED <<m_datas, kernelVars, slot, pc, op, fd, to, cancelled, calls, result>>

\* Mutant of Locks: the callback holds the TimerInfo by address.
LocksAny(x) == calls[x.fiber] >= x.call /\ pc[x.fiber] \in InIO

\* winfo.lock() succeeds while the call that made the TimerInfo is under way.
Locks(x) == calls[x.fiber] = x.call /\ pc[x.fiber] \in InIO

\* The callback up to t->cancelled = ETIMEDOUT.
Timeout(x) ==
    /\ x.stage = "due"
    /\ IF Locks(x) /\ ~cancelled[x.fiber]
       THEN /\ cancelled' = Set(cancelled, x.fiber, TRUE)
            /\ timers' = (timers \ {x}) \cup {[x EXCEPT !.stage = "cancel"]}
       ELSE timers' = timers \ {x} /\ UNCHANGED cancelled
    /\ UNCHANGED <<m_datas, kernelVars, slot, pc, op, fd, to, calls, expired, result>>

\* .. and iom->cancelEvent(fd, event), whoever waits for it now.
CancelEvent(x) ==
    /\ x.stage = "cancel"
    /\ timers' = timers \ {x}
    /\ IF alive[x.fd] THEN Wake(x.fd, {x.event}) ELSE UNCHANGED <<pc, slot>>
    /\ UNCHANGED <<m_datas, kernelVars, callVars, result>>

-----------------------------------------------------------------------------
(* close()                                                                 *)

Close(f, d) ==
    /\ Known(d)
    /\ \A g \in Fiber : pc[g] \in {"cancelAll", "del", "close"} => fd[g] # d
    /\ SharedClose \/ \A g \in Fiber : ~Uses(g, d)
    /\ Enter(f, d, IF m_datas[d] = None THEN "close" ELSE "cancelAll")
    /\ UNCHANGED <<m_datas, kernelVars, slot, op, to, cancelled, timers, expired>>

\* iom->cancelAll(fd)
CancelAll(f) ==
    /\ pc[f] = "cancelAll"
    /\ slot' = [slot EXCEPT ![fd[f]] = [e \in Event |->
                  IF @[e] # None /\ @[e][2] = gen[fd[f]] THEN None ELSE @[e]]]
    /\ pc' = [g \in Fiber |-> IF g = f THEN "del"
                              ELSE IF g \in Waiting(fd[f], Event) THEN "woken" ELSE pc[g]]
    /\ UNCHANGED <<m_datas, kernelVars, callVars, timers, result>>

\* Mutant of Del: the FdCtx is not removed.
DelForgotten(f) ==
    /\ pc[f] = "del"
    /\ Goto(f, "close")
    /\ UNCHANGED <<m_datas, kernelVars, slot, callVars, timers, result>>

\* FdManager::del(fd)
Del(f) ==
    /\ pc[f] = "del"
    /\ m_datas' = [m_datas EXCEPT ![fd[f]] = None]
    /\ Goto(f, "close")
    /\ UNCHANGED <<kernelVars, slot, callVars, timers, result>>

\* close_f(fd)
CloseF(f) ==
    LET d == fd[f]
    IN  /\ pc[f] = "close"
        /\ alive' = [alive EXCEPT ![d] = FALSE]
        /\ avail' = [avail EXCEPT ![d] = {}]
        /\ nonblock' = [nonblock EXCEPT ![d] = FALSE]
        /\ Return(f, "ok")
        /\ UNCHANGED <<m_datas, gen, slot, timers>>

-----------------------------------------------------------------------------
\* Data, buffer space or a connection arrives.
BecomesAvailable(d, e) ==
    /\ alive[d] /\ e \notin avail[d]
    /\ avail' = [avail EXCEPT ![d] = @ \cup {e}]
    /\ UNCHANGED <<m_datas, gen, alive, nonblock, slot, pc, callVars, timers, result>>

Step(f) ==
    \/ Get(f) \/ Create(f) \/ Try(f) \/ Arm(f) \/ Add(f) \/ Woken(f)
    \/ Awake(f) \/ CancelAll(f) \/ Del(f) \/ CloseF(f)

TimerStep(x) == Expire(x) \/ Timeout(x) \/ CancelEvent(x)

Next ==
    \/ \E f \in Fiber : Step(f)
    \/ \E f \in Fiber, d \in Fd : \/ Socket(f, d) \/ Close(f, d)
                                  \/ \E o \in Op : Call(f, o, d)
    \/ \E f \in Fiber : Sleep(f)
    \/ \E d \in Fd : \/ \E e \in Event : Setsockopt(d, e)
                     \/ \E b \in BOOLEAN : Fcntl(d, b)
                     \/ \E b \in FionbioArgs : Ioctl(d, b)
                     \/ \E e \in Event : Dispatch(d, e) \/ BecomesAvailable(d, e)
    \/ \E x \in timers : TimerStep(x)

Spec == Init /\ [][Next]_vars

\* Fairness: running fibers and callbacks go on, readiness is dispatched, and
\* time passes, so that every armed timeout expires.  Nothing is assumed of the
\* peer: a socket may stay silent for ever.
Fairness ==
    /\ \A f \in Fiber : WF_vars(Step(f))
    /\ \A d \in Fd, e \in Event : WF_vars(Dispatch(d, e))
    /\ \A x \in Timer : WF_vars(x \in timers /\ TimerStep(x))

FairSpec == Spec /\ Fairness

\* The same with peers that answer.
AnsweredSpec == FairSpec /\ \A d \in Fd, e \in Event : WF_vars(BecomesAvailable(d, e))

-----------------------------------------------------------------------------
(* Properties.                                                             *)

\* Every variable keeps its type, and a fiber has a descriptor exactly while it is
\* inside a call on one.
TypeOK ==
    /\ m_datas \in [Fd -> FdCtx \cup {None}]
    /\ gen \in [Fd -> 0..MaxGen] /\ alive \in [Fd -> BOOLEAN]
    /\ nonblock \in [Fd -> BOOLEAN] /\ avail \in [Fd -> SUBSET Event]
    /\ slot \in [Fd -> [Event -> Registration \cup {None}]]
    /\ fd \in [Fiber -> Fd \cup {None}] /\ op \in [Fiber -> Op]
    /\ \A f \in Fiber : pc[f] \in {"idle", "asleep"} <=> fd[f] = None
    /\ pc \in [Fiber -> InIO \cup {"idle", "asleep", "get", "create", "cancelAll", "del", "close"}]
    /\ timers \subseteq Timer
    /\ to \in [Fiber -> BOOLEAN] /\ cancelled \in [Fiber -> BOOLEAN]
    /\ result \in [Fiber -> {"none", "ok", "EBADF", "ETIMEDOUT"}]

\* An FdCtx belongs to the socket that has the descriptor now, with O_NONBLOCK
\* set in the kernel: neither close() nor get(fd, true) of two threads leaves the
\* one of an earlier socket, with its timeouts and flags, to a later one.
CtxMatchesSocket ==
    \A d \in Fd : m_datas[d] # None =>
        alive[d] /\ m_datas[d].sock = gen[d] /\ nonblock[d]

\* The calls, the FdManager and the kernel agree: the two parts above.
HookInv == TypeOK /\ CtxMatchesSocket

\* A fiber that has yielded in do_io or connect is the one its FdContext will
\* schedule, with a registration that epoll still has.
WaiterIsRegistered ==
    \A f \in Fiber : pc[f] = "wait" =>
        alive[fd[f]] /\ slot[fd[f]][EventOf(op[f])] = <<f, gen[fd[f]]>>

\* No call leaves an armed timeout behind.
NoTimerLeft ==
    \A x \in timers : x.stage = "set" =>
        Locks(x) /\ pc[x.fiber] \in {"add", "wait", "woken"}

\* A call reports ETIMEDOUT only if a timeout of this very call has passed: the
\* late callback of an earlier call, which may cancel the event that a later one
\* waits for, never makes it time out.
TimeoutIsOwn ==
    [][\A f \in Fiber : result'[f] = "ETIMEDOUT" /\ result[f] # "ETIMEDOUT" => expired[f]]_vars

\* When the peer answers, the call returns: no wake-up is lost between the event,
\* the timeouts of this and of earlier calls, and the retry loop.
AnsweredCallReturns == \A f \in Fiber : pc[f] # "idle" ~> pc[f] = "idle"

\* A call with a timeout returns even if its socket stays silent or is closed.
TimedCallReturns == \A f \in Fiber : pc[f] \in InIO /\ to[f] ~> pc[f] = "idle"
=============================================================================
