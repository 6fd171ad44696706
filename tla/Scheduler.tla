------------------------------ MODULE Scheduler ------------------------------
(***************************************************************************)
(* Scheduler (src/fiber/scheduler.cc, src/fiber/include/scheduler.h) and   *)
(* the Fiber switches it relies on (src/fiber/fiber.cc).                   *)
(*                                                                         *)
(* Threads in Worker execute Scheduler::run.  With UseCaller the thread    *)
(* Root is the one that constructed the scheduler: it enters run() only    *)
(* inside stop(), on the root fiber.  Each critical section under m_mutex, *)
(* each atomic counter update, each change of a fiber's state and the      *)
(* saving of its context in swapcontext is one step.                       *)
(*                                                                         *)
(* What a fiber's callback does is a choice: schedule further callbacks or *)
(* fibers, put itself back into the queue and yield (as test_fiber1 of     *)
(* tests/testScheduler.cc does), or return.  A callback that throws, and   *)
(* YieldToHold, end in the failing assertion of swapOut (fiber.cc:131) and *)
(* are not among the choices.                                              *)
(***************************************************************************)
EXTENDS Integers, Sequences, FiniteSets

CONSTANTS
    Worker,         \* the threads that execute run()
    UseCaller,      \* m_useCaller
    Root,           \* m_rootThread, when UseCaller
    Fiber,          \* one element per scheduled callback or fiber
    AnyThread,      \* the thread argument -1
    MaxYields,      \* bound: yields per fiber
    None            \* no task

ASSUME WorkerAssumption ==
    /\ Worker # {} /\ IsFiniteSet(Worker) /\ AnyThread \notin Worker
    /\ UseCaller \in BOOLEAN /\ (UseCaller => Root \in Worker)
ASSUME FiberAssumption == None \notin Fiber
ASSUME BoundAssumption == MaxYields \in Nat

VARIABLES
    m_tasks,               \* std::list<ScheduleTask>
    m_state,               \* Fiber::m_state; "NONE" before construction
    saved,                 \* m_ctx is a point the fiber can be resumed from
    yields,                \* yields made so far (bounded)
    pc,                    \* where each worker is in run()
    task,                  \* the local `task` of run()
    t_fiber,               \* thread_local t_fiber, for the worker threads
    idleTerm,              \* workers whose idle fiber is in state TERM
    m_activeThreadCount, m_idleThreadCount,
    m_stopping,
    owner,                 \* the thread that owns the Scheduler: start(), stop()
    aborted                \* the PHASE0_ASSERT that failed, or "no"

fiberVars == <<m_state, saved, yields>>
countVars == <<m_activeThreadCount, m_idleThreadCount>>
vars == <<m_tasks, fiberVars, pc, task, t_fiber, idleTerm, countVars,
          m_stopping, owner, aborted>>

WorkerPC == {"off", "scan", "switch", "run", "yield", "save", "back",
             "toIdle", "idle", "leaveIdle", "exit"}
FiberState == {"NONE", "READY", "EXEC", "TERM"}
Target == Worker \cup {AnyThread}
Task == [fiber : Fiber, cb : BOOLEAN, thread : Target]

\* What swapOut leaves in t_fiber: Scheduler::GetMainFiber() of the thread.
MainFiberOf(w) == IF UseCaller /\ w = Root THEN "root" ELSE "main"

\* Worker w, or the owner, stands at `where`; a failed assertion has ended
\* the process.
At(w, where) == aborted = "no" /\ pc[w] = where
OwnerAt(where) == aborted = "no" /\ owner = where

Goto(w, where) == pc' = [pc EXCEPT ![w] = where]

-----------------------------------------------------------------------------
Init ==
    /\ m_tasks = <<>>
    /\ m_state = [f \in Fiber |-> "NONE"]
    /\ saved = [f \in Fiber |-> FALSE]
    /\ yields = [f \in Fiber |-> 0]
    /\ pc = [w \in Worker |-> "off"]
    /\ task = [w \in Worker |-> None]
    /\ t_fiber = [w \in Worker |-> "main"]
    /\ idleTerm = {}
    /\ m_activeThreadCount = 0
    /\ m_idleThreadCount = 0
    /\ m_stopping = FALSE
    /\ owner = "setup"
    /\ aborted = "no"

-----------------------------------------------------------------------------
(* schedule(), start() and stop(), called by the owner.                    *)

Queued(f) == \E i \in DOMAIN m_tasks : m_tasks[i].fiber = f

\* Not scheduled yet and not running.
Unused(f) ==
    /\ m_state[f] = "NONE"
    /\ ~Queued(f)
    /\ \A w \in Worker : task[w] # f

\* scheduleNoLock: a callback becomes a Fiber only when a worker takes it; a
\* Fiber object is READY, with a made context, from its constructor on.
Schedule(f, cb, thread) ==
    /\ Unused(f)
    /\ m_tasks' = Append(m_tasks, [fiber |-> f, cb |-> cb, thread |-> thread])
    /\ m_state' = [m_state EXCEPT ![f] = IF cb THEN "NONE" ELSE "READY"]
    /\ saved' = [saved EXCEPT ![f] = ~cb]
    /\ UNCHANGED yields

OwnerSchedules(f, cb, thread) ==
    /\ OwnerAt("setup") \/ OwnerAt("started")
    /\ Schedule(f, cb, thread)
    /\ UNCHANGED <<pc, task, t_fiber, idleTerm, countVars, m_stopping, owner, aborted>>

\* start(): the threads are created under the mutex.
Start ==
    /\ OwnerAt("setup")
    /\ pc' = [w \in Worker |-> IF UseCaller /\ w = Root THEN "off" ELSE "scan"]
    /\ owner' = "started"
    /\ UNCHANGED <<m_tasks, fiberVars, task, t_fiber, idleTerm, countVars,
                   m_stopping, aborted>>

\* Mutants of Stopping: one of its conditions is dropped.
StoppingIgnoresActive == m_stopping /\ m_tasks = <<>>
StoppingIgnoresTasks == m_stopping /\ m_activeThreadCount = 0

\* Scheduler::stopping()
Stopping == m_stopping /\ m_tasks = <<>> /\ m_activeThreadCount = 0

\* Mutant of Stop: m_stopping is not set.
StopUnannounced ==
    /\ OwnerAt("started")
    /\ ~Stopping
    /\ owner' = "joining"
    /\ IF UseCaller
       THEN /\ Goto(Root, "scan")
            /\ t_fiber' = [t_fiber EXCEPT ![Root] = "root"]
       ELSE UNCHANGED <<pc, t_fiber>>
    /\ UNCHANGED <<m_tasks, fiberVars, task, idleTerm, countVars, m_stopping, aborted>>

\* stop(): unless stopping() holds already, m_stopping is set without the mutex;
\* with UseCaller the caller then switches to the root fiber, which executes
\* run().  The two assertions on GetThis() are about the calling thread only: the
\* owner is the thread that constructed the scheduler, so they hold for it.
Stop ==
    /\ OwnerAt("started")
    /\ ~Stopping
    /\ m_stopping' = TRUE
    /\ owner' = "joining"
    /\ IF UseCaller
       THEN /\ Goto(Root, "scan")
            /\ t_fiber' = [t_fiber EXCEPT ![Root] = "root"]
       ELSE UNCHANGED <<pc, t_fiber>>
    /\ UNCHANGED <<m_tasks, fiberVars, task, idleTerm, countVars, aborted>>

\* stop(): the root fiber has returned and every thread is joined.
Join ==
    /\ OwnerAt("joining")
    /\ \A w \in Worker : pc[w] = "exit"
    /\ owner' = "stopped"
    /\ UNCHANGED <<m_tasks, fiberVars, pc, task, t_fiber, idleTerm, countVars,
                   m_stopping, aborted>>

\* stop() once more, as from ~IOManager: stopping() holds and it returns at once.
StopAgain == OwnerAt("stopped") /\ Stopping /\ UNCHANGED vars

-----------------------------------------------------------------------------
(* Scheduler::run                                                          *)

\* The tasks that worker w may execute.
Eligible(w) == {i \in DOMAIN m_tasks : m_tasks[i].thread \in {AnyThread, w}}

\* Mutant of Without: the task stays in the list.
KeepsTask(s, i) == s

Without(s, i) == SubSeq(s, 1, i - 1) \o SubSeq(s, i + 1, Len(s))

\* PHASE0_ASSERT(it->fiber->getState() == Fiber::READY)
TaskReady(t) == t.cb \/ m_state[t.fiber] = "READY"

\* The critical section of run() that takes the first eligible task.
TakeTask(w) ==
    /\ At(w, "scan")
    /\ \E i \in Eligible(w) :
        /\ \A j \in Eligible(w) : i <= j
        /\ task' = [task EXCEPT ![w] = m_tasks[i].fiber]
        /\ m_tasks' = Without(m_tasks, i)
        /\ aborted' = IF TaskReady(m_tasks[i]) THEN aborted ELSE "scheduler.cc:112"
    /\ m_activeThreadCount' = m_activeThreadCount + 1
    /\ Goto(w, "switch")
    /\ UNCHANGED <<fiberVars, t_fiber, idleTerm, m_idleThreadCount, m_stopping, owner>>

\* No eligible task: leave run() if the idle fiber has ended, else run it.
NoTask(w) ==
    /\ At(w, "scan")
    /\ Eligible(w) = {}
    /\ Goto(w, IF w \in idleTerm THEN "exit" ELSE "toIdle")
    /\ UNCHANGED <<m_tasks, fiberVars, task, t_fiber, idleTerm, countVars,
                   m_stopping, owner, aborted>>

\* swapIn of the task's fiber; for a callback the fiber is constructed first.
SwapIn(w) ==
    LET f == task[w]
    IN  /\ At(w, "switch")
        /\ aborted' = IF m_state[f] = "EXEC" THEN "fiber.cc:110" ELSE aborted
        /\ m_state' = [m_state EXCEPT ![f] = "EXEC"]
        /\ saved' = [saved EXCEPT ![f] = FALSE]
        /\ t_fiber' = [t_fiber EXCEPT ![w] = f]
        /\ Goto(w, "run")
        /\ UNCHANGED <<m_tasks, yields, task, idleTerm, countVars, m_stopping, owner>>

\* Mutant of Back: the active thread is not counted down.
BackStaysActive(w) ==
    /\ At(w, "back")
    /\ task' = [task EXCEPT ![w] = None]
    /\ Goto(w, "scan")
    /\ UNCHANGED <<m_tasks, fiberVars, t_fiber, idleTerm, countVars, m_stopping,
                   owner, aborted>>

\* The fiber has been swapped out: --m_activeThreadCount; task.reset().
Back(w) ==
    /\ At(w, "back")
    /\ m_activeThreadCount' = m_activeThreadCount - 1
    /\ task' = [task EXCEPT ![w] = None]
    /\ Goto(w, "scan")
    /\ UNCHANGED <<m_tasks, fiberVars, t_fiber, idleTerm, m_idleThreadCount,
                   m_stopping, owner, aborted>>

\* ++m_idleThreadCount; idleFiber->swapIn()
EnterIdle(w) ==
    /\ At(w, "toIdle")
    /\ m_idleThreadCount' = m_idleThreadCount + 1
    /\ t_fiber' = [t_fiber EXCEPT ![w] = "idle"]
    /\ Goto(w, "idle")
    /\ UNCHANGED <<m_tasks, fiberVars, task, idleTerm, m_activeThreadCount,
                   m_stopping, owner, aborted>>

\* Scheduler::idle: one evaluation of stopping(), then the idle fiber ends or
\* yields; in both cases it is swapped out.
Idle(w) ==
    /\ At(w, "idle")
    /\ idleTerm' = IF Stopping THEN idleTerm \cup {w} ELSE idleTerm
    /\ t_fiber' = [t_fiber EXCEPT ![w] = MainFiberOf(w)]
    /\ Goto(w, "leaveIdle")
    /\ UNCHANGED <<m_tasks, fiberVars, task, countVars, m_stopping, owner, aborted>>

\* --m_idleThreadCount
LeaveIdle(w) ==
    /\ At(w, "leaveIdle")
    /\ m_idleThreadCount' = m_idleThreadCount - 1
    /\ Goto(w, "scan")
    /\ UNCHANGED <<m_tasks, fiberVars, task, t_fiber, idleTerm,
                   m_activeThreadCount, m_stopping, owner, aborted>>

-----------------------------------------------------------------------------
(* What the callback of the running fiber does.                            *)

\* Scheduler::GetThis()->schedule(g, thread) for a new callback or fiber.
FiberSchedules(w, g, cb, thread) ==
    /\ At(w, "run")
    /\ Schedule(g, cb, thread)
    /\ UNCHANGED <<pc, task, t_fiber, idleTerm, countVars, m_stopping, owner, aborted>>

\* schedule(Fiber::GetThis(), thread), to be followed by YieldToReady.
RescheduleSelf(w, thread) ==
    LET f == t_fiber[w]
    IN  /\ At(w, "run")
        /\ yields[f] < MaxYields
        /\ m_tasks' = Append(m_tasks, [fiber |-> f, cb |-> FALSE, thread |-> thread])
        /\ yields' = [yields EXCEPT ![f] = @ + 1]
        /\ Goto(w, "yield")
        /\ UNCHANGED <<m_state, saved, task, t_fiber, idleTerm, countVars,
                       m_stopping, owner, aborted>>

\* Mutant of YieldToReady: swapOut leaves without storing the context.
YieldUnsaved(w) ==
    LET f == t_fiber[w]
    IN  /\ At(w, "yield")
        /\ m_state' = [m_state EXCEPT ![f] = "READY"]
        /\ t_fiber' = [t_fiber EXCEPT ![w] = MainFiberOf(w)]
        /\ Goto(w, "back")
        /\ UNCHANGED <<m_tasks, saved, yields, task, idleTerm, countVars,
                       m_stopping, owner, aborted>>

\* Mutant of YieldToReady: swapOut leaves the state EXEC.
YieldStaysExec(w) ==
    LET f == t_fiber[w]
    IN  /\ At(w, "yield")
        /\ t_fiber' = [t_fiber EXCEPT ![w] = MainFiberOf(w)]
        /\ Goto(w, "save")
        /\ UNCHANGED <<m_tasks, fiberVars, task, idleTerm, countVars, m_stopping, owner, aborted>>

\* YieldToReady and swapOut up to swapcontext: the state becomes READY while
\* the fiber's context has not been stored yet.
YieldToReady(w) ==
    LET f == t_fiber[w]
    IN  /\ At(w, "yield")
        /\ m_state' = [m_state EXCEPT ![f] = "READY"]
        /\ t_fiber' = [t_fiber EXCEPT ![w] = MainFiberOf(w)]
        /\ Goto(w, "save")
        /\ UNCHANGED <<m_tasks, saved, yields, task, idleTerm, countVars,
                       m_stopping, owner, aborted>>

\* swapcontext(&m_ctx, ..) has stored the context.
SaveContext(w) ==
    /\ At(w, "save")
    /\ saved' = [saved EXCEPT ![task[w]] = TRUE]
    /\ Goto(w, "back")
    /\ UNCHANGED <<m_tasks, m_state, yields, task, t_fiber, idleTerm, countVars,
                   m_stopping, owner, aborted>>

\* MainFunc: the callback returns, the state becomes TERM, swapOut.
Finish(w) ==
    /\ At(w, "run")
    /\ m_state' = [m_state EXCEPT ![t_fiber[w]] = "TERM"]
    /\ t_fiber' = [t_fiber EXCEPT ![w] = MainFiberOf(w)]
    /\ Goto(w, "back")
    /\ UNCHANGED <<m_tasks, saved, yields, task, idleTerm, countVars,
                   m_stopping, owner, aborted>>

-----------------------------------------------------------------------------
FiberStep(w) ==
    \/ YieldToReady(w) \/ SaveContext(w) \/ Finish(w)
    \/ \E thread \in Target : RescheduleSelf(w, thread)
    \/ \E g \in Fiber, cb \in BOOLEAN, thread \in Target : FiberSchedules(w, g, cb, thread)

RunStep(w) ==
    \/ TakeTask(w) \/ NoTask(w) \/ SwapIn(w) \/ Back(w)
    \/ EnterIdle(w) \/ Idle(w) \/ LeaveIdle(w)

OwnerStep ==
    \/ Start \/ Stop \/ Join \/ StopAgain
    \/ \E f \in Fiber, cb \in BOOLEAN, thread \in Target : OwnerSchedules(f, cb, thread)

Next ==
    \/ OwnerStep
    \/ \E w \in Worker : RunStep(w) \/ FiberStep(w)

Spec == Init /\ [][Next]_vars

\* Fairness: a thread that can run does, a callback returns eventually (it may
\* not run forever), and the owner calls start() and stop().
Fairness ==
    /\ WF_vars(Start \/ Stop \/ Join)
    /\ \A w \in Worker :
        /\ WF_vars(RunStep(w))
        /\ WF_vars(YieldToReady(w) \/ SaveContext(w))
        /\ WF_vars(Finish(w))

FairSpec == Spec /\ Fairness

-----------------------------------------------------------------------------
(* Properties.                                                             *)

\* The workers that hold a task.
Busy == {w \in Worker : pc[w] \in {"switch", "run", "yield", "save", "back"}}

\* Every variable keeps its type; the two thread counters of run() never go below
\* zero.
TypeOK ==
    /\ m_tasks \in Seq(Task)
    /\ m_state \in [Fiber -> FiberState] /\ saved \in [Fiber -> BOOLEAN]
    /\ yields \in [Fiber -> Nat]
    /\ pc \in [Worker -> WorkerPC] /\ task \in [Worker -> Fiber \cup {None}]
    /\ t_fiber \in [Worker -> Fiber \cup {"main", "root", "idle"}]
    /\ idleTerm \in SUBSET Worker
    /\ m_activeThreadCount \in Nat /\ m_idleThreadCount \in Nat
    /\ m_stopping \in BOOLEAN
    /\ owner \in {"setup", "started", "joining", "stopped"}
    /\ aborted \in {"no", "scheduler.cc:112", "fiber.cc:110"}

\* What run() takes from the list should be READY (scheduler.cc:112), and what is
\* entered should not execute already (fiber.cc:110).  An assertion fails for one
\* reason only: a fiber has been queued, by itself or by its event, and taken by
\* another worker before it could yield.  The fiber is then still about to call
\* YieldToReady on the first worker, and run() has stopped the second one; the
\* assertion of swapIn is never reached.
AssertionBlamed ==
    /\ aborted # "fiber.cc:110"
    /\ aborted = "scheduler.cc:112" =>
         \E v, w \in Worker : pc[v] = "yield" /\ pc[w] = "switch" /\ task[v] = task[w]

\* The only context that a fiber can be resumed from too early is one that some
\* other worker is just storing in swapOut, between m_state = READY (fiber.cc:135)
\* and the end of swapcontext (fiber.cc:139): no fiber is entered again after its
\* end, and no context is lost on another path.
UnsavedOnlyInSwapOut ==
    [][\A w \in Worker : pc[w] = "switch" /\ pc'[w] = "run" =>
          \/ m_state[task[w]] = "NONE"
          \/ /\ m_state[task[w]] = "READY"
             /\ saved[task[w]] \/ \E v \in Worker : pc[v] = "save" /\ task[v] = task[w]]_vars

\* The callback of a fiber executes on one thread at a time, and
\* Fiber::GetThis() names it there, although the fiber may be in the queue while
\* it still executes: a second worker can at most hold it without having
\* entered it, or be leaving it.  Its state is EXEC until it yields, as the
\* assertions of YieldToReady and swapOut demand (fiber.cc:131, 173).
OneThreadPerFiber ==
    LET Executes == {w \in Worker : pc[w] \in {"run", "yield"}}
    IN  /\ \A v, w \in Executes : task[v] = task[w] => v = w
        /\ \A w \in Executes : t_fiber[w] = task[w] /\ m_state[task[w]] = "EXEC"

\* The counters that stopping() and hasIdleThreads() read are exact: no worker
\* can see "no task and nobody active" while a fiber is being executed.
CountersExact ==
    /\ m_activeThreadCount = Cardinality(Busy)
    /\ m_idleThreadCount = Cardinality({w \in Worker : pc[w] \in {"idle", "leaveIdle"}})

\* When a worker's idle fiber has ended every scheduled callback has been
\* executed to its end, the tasks that a running fiber added while stop() was in
\* progress included: a worker that leaves run() is never needed again.
NothingLeftBehind ==
    idleTerm # {} =>
        /\ m_tasks = <<>>
        /\ \A f \in Fiber : m_state[f] \in {"NONE", "TERM"}

\* The counters, the task list and the fibers agree in every state of run(), up
\* to the end of the last worker: the three parts above.
SchedInv == TypeOK /\ CountersExact /\ NothingLeftBehind

\* The phase of a job in the abstract pool.
PhaseOf(f) ==
    CASE Queued(f) -> "queued"
      [] ~Queued(f) /\ m_state[f] = "TERM" -> "done"
      [] ~Queued(f) /\ m_state[f] # "TERM" /\ (\E w \in Worker : task[w] = f) -> "running"
      [] OTHER -> "new"

Pool == INSTANCE TaskPool WITH Job <- Fiber,
                               phase <- [f \in Fiber |-> PhaseOf(f)],
                               stopped <- owner = "stopped"

\* Scheduler keeps the promise of TaskPool: a task is taken once each time it is
\* queued, runs on one thread at a time, and stop() returns only when every task
\* has come to its end.
ImplementsPool == Pool!PoolSpec

\* stop() returns, in spite of tasks pinned to one thread and of fibers that are
\* taken before they have yielded, unless scheduler.cc:112 ends the process.
StopReturns == <>(owner = "stopped" \/ aborted # "no")

\* Every scheduled task is executed to its end, also when workers are leaving
\* run(), unless scheduler.cc:112 ends the process.
EveryTaskEnds == \A f \in Fiber : Queued(f) ~> (m_state[f] = "TERM" \/ aborted # "no")
=============================================================================
