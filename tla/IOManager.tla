------------------------------ MODULE IOManager ------------------------------
(***************************************************************************)
(* IOManager as a scheduler (src/fiber/iomannager.cc): the run() loop of   *)
(* Scheduler with the overridden idle(), tickle(), stopping() and          *)
(* onTimerInsertedAtFront().                                               *)
(*                                                                         *)
(* Fibers may register for a socket event and yield, and may add one-shot  *)
(* timers.  The bookkeeping of the events themselves is in FdContexts, the *)
(* timer set in TimerManager; here an event is a fiber in evWait and a     *)
(* timer a callback in timers.  stopping(timeout) is three separate reads, *)
(* as in the code: the timer set, m_pendingEventCount, then the task list  *)
(* and m_activeThreadCount under the mutex.                                *)
(***************************************************************************)
EXTENDS Scheduler

CONSTANTS
    Pins,            \* threads that callers may pin a new task to
    MAX_EVNETS       \* what one epoll_wait returns at most

ASSUME PinAssumption == Pins \subseteq Worker
ASSUME EventsAssumption == MAX_EVNETS \in Nat \ {0}

VARIABLES
    evWait,              \* fibers registered with addEvent, not yet triggered
    m_pendingEventCount,
    timers, due,         \* callbacks in the timer set; those that have expired
    m_tickled,
    pipe,                \* the read end of m_tickleFds has a new edge
    noTimer,             \* idle(): nextTimeout == ~0ull
    cbs,                 \* idle(): expired callbacks, not yet scheduled
    got                  \* idle(): what epoll_wait returned, not yet handled

ioVars == <<evWait, m_pendingEventCount, timers, due, m_tickled, pipe, noTimer, cbs, got>>
allVars == <<vars, ioVars>>

IOInit ==
    /\ Init
    /\ evWait = {} /\ m_pendingEventCount = 0
    /\ timers = {} /\ due = {} /\ m_tickled = FALSE
    /\ pipe = FALSE
    /\ noTimer = [w \in Worker |-> FALSE]
    /\ cbs = [w \in Worker |-> {}]
    /\ got = [w \in Worker |-> {}]

\* m_tickleFds[0] among the sockets that the fibers wait for.
TickleFd == None

\* A callback that waits for its timer, or for idle() to schedule it.
Timed(g) == g \in timers \/ \E w \in Worker : g \in cbs[w]

\* IOManager::tickle(), if asked for: only a thread counted as idle is woken.
Tickle(asked) == pipe' = (pipe \/ (asked /\ m_idleThreadCount > 0))

-----------------------------------------------------------------------------
(* The inherited steps, with the tickle() they end with.                   *)

\* schedule(): tickle() if the list was empty.
IOSchedules ==
    /\ \E f \in Fiber, cb \in BOOLEAN, thread \in Pins \cup {AnyThread} :
        /\ ~Timed(f)
        /\ \/ OwnerSchedules(f, cb, thread)
           \/ \E w \in Worker : FiberSchedules(w, f, cb, thread)
    /\ Tickle(m_tasks = <<>>)
    /\ UNCHANGED <<evWait, m_pendingEventCount, timers, due, m_tickled, noTimer, cbs, got>>

\* run(): tickleMe is set when a task was skipped or is left behind.
IOTakeTask(w) ==
    /\ TakeTask(w)
    /\ Tickle(Len(m_tasks) > 1)
    /\ UNCHANGED <<evWait, m_pendingEventCount, timers, due, m_tickled, noTimer, cbs, got>>

IONoTask(w) ==
    /\ NoTask(w)
    /\ Tickle(m_tasks # <<>>)
    /\ UNCHANGED <<evWait, m_pendingEventCount, timers, due, m_tickled, noTimer, cbs, got>>

\* stop(): one tickle() per thread.
IOStop ==
    /\ Stop
    /\ Tickle(TRUE)
    /\ UNCHANGED <<evWait, m_pendingEventCount, timers, due, m_tickled, noTimer, cbs, got>>

\* Steps that do not touch the I/O part.
Inherited(w) ==
    /\ \/ SwapIn(w) \/ Back(w) \/ EnterIdle(w) \/ LeaveIdle(w)
       \/ YieldToReady(w) \/ SaveContext(w) \/ Finish(w)
    /\ UNCHANGED ioVars

-----------------------------------------------------------------------------
(* What a fiber does with the IOManager.                                   *)

\* addEvent(fd, event) for the running fiber, to be followed by YieldToReady.
WaitForEvent(w) ==
    LET f == t_fiber[w]
    IN  /\ At(w, "run")
        /\ yields[f] < MaxYields
        /\ yields' = [yields EXCEPT ![f] = @ + 1]
        /\ evWait' = evWait \cup {f}
        /\ m_pendingEventCount' = m_pendingEventCount + 1
        /\ Goto(w, "yield")
        /\ UNCHANGED <<m_tasks, m_state, saved, task, t_fiber, idleTerm, countVars,
                       m_stopping, owner, aborted, timers, due, m_tickled, pipe,
                       noTimer, cbs, got>>

\* addTimer(ms, cb) by the owner or by a fiber: g is the callback.  Only the
\* first timer is certain to be at the front of the set.
AddTimer(g) ==
    /\ OwnerAt("started") \/ \E w \in Worker : At(w, "run")
    /\ Unused(g) /\ ~Timed(g)
    /\ timers' = timers \cup {g}
    /\ \E atFront \in (IF timers = {} THEN {TRUE} ELSE BOOLEAN) :
        /\ m_tickled' = (m_tickled \/ atFront)
        /\ Tickle(atFront /\ ~m_tickled)
    /\ UNCHANGED <<vars, evWait, m_pendingEventCount, due, noTimer, cbs, got>>

\* Time passes: a deadline is reached.
Elapse(g) ==
    /\ g \in timers \ due
    /\ due' = due \cup {g}
    /\ UNCHANGED <<vars, evWait, m_pendingEventCount, timers, m_tickled, pipe, noTimer,
                   cbs, got>>

-----------------------------------------------------------------------------
(* IOManager::idle                                                         *)

\* stopping(timeout): timeout = getNextTimer().
IdleTimer(w) ==
    /\ At(w, "idle")
    /\ noTimer' = [noTimer EXCEPT ![w] = timers = {}]
    /\ m_tickled' = FALSE
    /\ Goto(w, "pend")
    /\ UNCHANGED <<m_tasks, fiberVars, task, t_fiber, idleTerm, countVars, m_stopping,
                   owner, aborted, evWait, m_pendingEventCount, timers, due, pipe, cbs, got>>

\* stopping(timeout): .. && m_pendingEventCount == 0 && ..
IdlePending(w) ==
    /\ At(w, "pend")
    /\ Goto(w, IF noTimer[w] /\ m_pendingEventCount = 0 THEN "sched" ELSE "wait")
    /\ noTimer' = [noTimer EXCEPT ![w] = FALSE]
    /\ UNCHANGED <<m_tasks, fiberVars, task, t_fiber, idleTerm, countVars, m_stopping,
                   owner, aborted, evWait, m_pendingEventCount, timers, due, m_tickled,
                   pipe, cbs, got>>

\* stopping(timeout): .. && Scheduler::stopping().  If so the idle fiber ends.
IdleStopping(w) ==
    /\ At(w, "sched")
    /\ IF Stopping
       THEN /\ idleTerm' = idleTerm \cup {w}
            /\ t_fiber' = [t_fiber EXCEPT ![w] = MainFiberOf(w)]
            /\ Goto(w, "leaveIdle")
       ELSE Goto(w, "wait") /\ UNCHANGED <<idleTerm, t_fiber>>
    /\ UNCHANGED <<m_tasks, fiberVars, task, countVars, m_stopping, owner, aborted, ioVars>>

\* epoll_wait returns the events in E.  They are edge-triggered, so an event goes
\* to one thread; the pipe is left out only when there is no room for it.
Wake(w, E) ==
    /\ At(w, "wait")
    /\ E # {} /\ Cardinality(E) <= MAX_EVNETS
    /\ \A f \in E \ {TickleFd} : f \in evWait /\ \A v \in Worker : f \notin got[v]
    /\ TickleFd \in E => pipe
    /\ pipe => TickleFd \in E \/ Cardinality(E) = MAX_EVNETS
    /\ got' = [got EXCEPT ![w] = E]
    /\ pipe' = (pipe /\ TickleFd \notin E)
    /\ Goto(w, "expire")
    /\ UNCHANGED <<m_tasks, fiberVars, task, t_fiber, idleTerm, countVars, m_stopping, owner,
                   aborted, evWait, m_pendingEventCount, timers, due, m_tickled, noTimer, cbs>>

\* Mutant of WakeByTimeout: epoll_wait has no time limit while no timer is set.
WakeByTimerOnly(w) ==
    /\ At(w, "wait")
    /\ ~pipe /\ timers # {}
    /\ Goto(w, "expire")
    /\ UNCHANGED <<m_tasks, fiberVars, task, t_fiber, idleTerm, countVars, m_stopping, owner,
                   aborted, ioVars>>

\* epoll_wait returns nothing after min(nextTimeout, MAX_TIMEOUT) milliseconds.
WakeByTimeout(w) ==
    /\ At(w, "wait")
    /\ ~pipe
    /\ Goto(w, "expire")
    /\ UNCHANGED <<m_tasks, fiberVars, task, t_fiber, idleTerm, countVars, m_stopping, owner,
                   aborted, ioVars>>

\* listExpiredCb(cbs): the callbacks are now in neither the timer set nor the queue.
ListExpired(w) ==
    /\ At(w, "expire")
    /\ cbs' = [cbs EXCEPT ![w] = due]
    /\ timers' = timers \ due
    /\ due' = {}
    /\ Goto(w, IF due = {} THEN "handle" ELSE "cbs")
    /\ UNCHANGED <<m_tasks, fiberVars, task, t_fiber, idleTerm, countVars, m_stopping, owner,
                   aborted, evWait, m_pendingEventCount, m_tickled, pipe, noTimer, got>>

\* schedule(cb) for one of them.
ScheduleCb(w, g) ==
    /\ At(w, "cbs") /\ g \in cbs[w]
    /\ m_tasks' = Append(m_tasks, [fiber |-> g, cb |-> TRUE, thread |-> AnyThread])
    /\ Tickle(m_tasks = <<>>)
    /\ cbs' = [cbs EXCEPT ![w] = @ \ {g}]
    /\ Goto(w, IF cbs[w] = {g} THEN "handle" ELSE "cbs")
    /\ UNCHANGED <<fiberVars, task, t_fiber, idleTerm, countVars, m_stopping, owner, aborted,
                   evWait, m_pendingEventCount, timers, due, m_tickled, noTimer, got>>

\* The event of the pipe: read() until it is empty.
Drain(w) ==
    /\ At(w, "handle") /\ TickleFd \in got[w]
    /\ got' = [got EXCEPT ![w] = @ \ {TickleFd}]
    /\ pipe' = FALSE
    /\ UNCHANGED <<vars, evWait, m_pendingEventCount, timers, due, m_tickled, noTimer, cbs>>

\* Mutant of Trigger: the registration of the event is not removed.
TriggerKeepsEvent(w, f) ==
    /\ At(w, "handle") /\ f \in got[w] \ {TickleFd}
    /\ m_tasks' = Append(m_tasks, [fiber |-> f, cb |-> FALSE, thread |-> AnyThread])
    /\ Tickle(m_tasks = <<>>)
    /\ got' = [got EXCEPT ![w] = @ \ {f}]
    /\ Goto(w, "count")
    /\ UNCHANGED <<fiberVars, task, t_fiber, idleTerm, countVars, m_stopping, owner, aborted,
                   evWait, m_pendingEventCount, timers, due, m_tickled, noTimer, cbs>>

\* The event of a socket: triggerEvent takes the registration away and schedules
\* the fiber.
Trigger(w, f) ==
    /\ At(w, "handle") /\ f \in got[w] \ {TickleFd}
    /\ evWait' = evWait \ {f}
    /\ m_tasks' = Append(m_tasks, [fiber |-> f, cb |-> FALSE, thread |-> AnyThread])
    /\ Tickle(m_tasks = <<>>)
    /\ got' = [got EXCEPT ![w] = @ \ {f}]
    /\ Goto(w, "count")
    /\ UNCHANGED <<fiberVars, task, t_fiber, idleTerm, countVars, m_stopping, owner, aborted,
                   m_pendingEventCount, timers, due, m_tickled, noTimer, cbs>>

\* Mutant of CountDown: the event is counted down twice.
CountDownTwice(w) ==
    /\ At(w, "count")
    /\ m_pendingEventCount' = m_pendingEventCount - 2
    /\ Goto(w, "handle")
    /\ UNCHANGED <<m_tasks, fiberVars, task, t_fiber, idleTerm, countVars, m_stopping, owner,
                   aborted, evWait, timers, due, m_tickled, pipe, noTimer, cbs, got>>

\* --m_pendingEventCount
CountDown(w) ==
    /\ At(w, "count")
    /\ m_pendingEventCount' = m_pendingEventCount - 1
    /\ Goto(w, "handle")
    /\ UNCHANGED <<m_tasks, fiberVars, task, t_fiber, idleTerm, countVars, m_stopping, owner,
                   aborted, evWait, timers, due, m_tickled, pipe, noTimer, cbs, got>>

\* Every event is handled: the idle fiber yields.
IdleYield(w) ==
    /\ At(w, "handle") /\ got[w] = {}
    /\ t_fiber' = [t_fiber EXCEPT ![w] = MainFiberOf(w)]
    /\ Goto(w, "leaveIdle")
    /\ UNCHANGED <<m_tasks, fiberVars, task, idleTerm, countVars, m_stopping, owner, aborted,
                   ioVars>>

-----------------------------------------------------------------------------
\* ~IOManager calls stop() once more: it returns at once if stopping() holds, else
\* after having found no thread to join.
IOStopAgain == OwnerAt("stopped") /\ UNCHANGED allVars

\* The constructor calls start(); Start and Join are inherited unchanged.
IOOwner == ((Start \/ Join) /\ UNCHANGED ioVars) \/ IOStopAgain

Events == SUBSET (Fiber \cup {TickleFd})

IdleStep(w) ==
    \/ IdleTimer(w) \/ IdlePending(w) \/ IdleStopping(w)
    \/ WakeByTimeout(w) \/ \E E \in Events : Wake(w, E)
    \/ ListExpired(w) \/ \E g \in Fiber : ScheduleCb(w, g)
    \/ Drain(w) \/ \E f \in Fiber : Trigger(w, f)
    \/ CountDown(w) \/ IdleYield(w)

WorkerStep(w) ==
    \/ IOTakeTask(w) \/ IONoTask(w) \/ Inherited(w) \/ IdleStep(w)

IONext ==
    \/ IOOwner \/ IOStop \/ IOSchedules
    \/ \E g \in Fiber : AddTimer(g) \/ Elapse(g)
    \/ \E w \in Worker : WorkerStep(w) \/ WaitForEvent(w)

IOSpec == IOInit /\ [][IONext]_allVars

\* Fairness: threads run, callbacks return, sockets that are waited for become
\* ready, deadlines are reached, epoll_wait returns after MAX_TIMEOUT at the
\* latest, and the owner destroys the manager.
IOFairness ==
    /\ WF_allVars(IOOwner) /\ WF_allVars(IOStop)
    /\ \A g \in Fiber : WF_allVars(Elapse(g))
    /\ \A f \in Fiber : SF_allVars(\E w \in Worker, E \in Events : f \in E /\ Wake(w, E))
    /\ \A w \in Worker :
        /\ WF_allVars(WorkerStep(w))
        /\ WF_allVars(Finish(w) /\ UNCHANGED ioVars)

IOFairSpec == IOSpec /\ IOFairness

-----------------------------------------------------------------------------
(* Properties.                                                             *)

\* The places of run(), with those of IOManager::idle.
IOPC == WorkerPC \cup {"pend", "sched", "wait", "expire", "cbs", "handle", "count"}
InIdlePC == {"idle", "pend", "sched", "wait", "expire", "cbs", "handle", "count", "leaveIdle"}

\* Every variable keeps its type; m_pendingEventCount never goes below zero and
\* what is due is in the timer set.
IOTypeOK ==
    /\ m_tasks \in Seq(Task)
    /\ m_state \in [Fiber -> FiberState]
    /\ pc \in [Worker -> IOPC]
    /\ m_activeThreadCount \in Nat /\ m_idleThreadCount \in Nat
    /\ m_pendingEventCount \in Nat
    /\ evWait \in SUBSET Fiber /\ timers \in SUBSET Fiber /\ due \in SUBSET timers
    /\ m_tickled \in BOOLEAN /\ pipe \in BOOLEAN
    /\ noTimer \in [Worker -> BOOLEAN]
    /\ cbs \in [Worker -> SUBSET Fiber] /\ got \in [Worker -> Events]

\* The counters that stopping(timeout), hasIdleThreads() and tickle() read are
\* exact: every step of idle(), from its first read to its yield, counts as idle,
\* and an event is pending from its addEvent until the thread that has scheduled
\* its fiber has counted it down.
IOCountersExact ==
    /\ m_activeThreadCount = Cardinality(Busy)
    /\ m_idleThreadCount = Cardinality({w \in Worker : pc[w] \in InIdlePC})
    /\ m_pendingEventCount = Cardinality(evWait) + Cardinality({w \in Worker : pc[w] = "count"})

\* Types and counters: the two parts above.
IOStateOK == IOTypeOK /\ IOCountersExact

\* The phase of a job in the abstract pool: waiting for an event or a timer is a
\* phase of its own.
IOPhaseOf(f) ==
    IF (f \in evWait \/ Timed(f)) /\ ~Queued(f) THEN "parked" ELSE PhaseOf(f)

IOPhases == [f \in Fiber |-> IOPhaseOf(f)]

IOPool == INSTANCE TaskPool WITH Job <- Fiber, phase <- IOPhases,
                                 stopped <- owner = "stopped"

\* Until stop() returns, IOManager moves the jobs as TaskPool says: what is queued
\* is begun once, what waits for an event or a timer is queued once when it fires
\* and is never lost, whichever threads wait, wake and execute meanwhile.  Only
\* the return of stop() may come too early (IOImplementsPool).
IOMovesJobs ==
    /\ IOPool!PoolInit
    /\ [][IOPool!PoolNext \/ (owner' = "stopped" /\ UNCHANGED IOPhases)]_(IOPool!poolVars)

\* IOManager keeps the promise of TaskPool: a fiber runs on one thread at a
\* time, and stop() returns only when nothing is queued, running, waiting for an
\* event or for a timer, although stopping(timeout) is not atomic.
IOImplementsPool == IOPool!PoolSpec

\* stop() returns: no thread stays in epoll_wait for ever, although tickle() is
\* skipped when no thread is counted as idle yet and m_tickled may be stale.  An
\* event that fires before its fiber has yielded may end the process instead, at
\* scheduler.cc:112.
IOStopReturns == <>(owner = "stopped" \/ aborted # "no")
=============================================================================
