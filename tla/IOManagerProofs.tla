-------------------------- MODULE IOManagerProofs --------------------------
(***************************************************************************)
(* Proofs about IOManager for any number of threads, fibers, timers and    *)
(* events, whenever the events fire: also when one fires while its fiber   *)
(* is still running, so that another thread takes the fiber before it has  *)
(* yielded.                                                                *)
(***************************************************************************)
EXTENDS IOManager, SchedulerProofs

-----------------------------------------------------------------------------
(* The inductive invariant.                                                *)

\* The types, those of IOTypeOK and of the other variables of run().
VarsOK ==
    /\ m_tasks \in Seq(Task)
    /\ m_state \in [Fiber -> FiberState] /\ saved \in [Fiber -> BOOLEAN]
    /\ yields \in [Fiber -> Nat]
    /\ pc \in [Worker -> IOPC] /\ task \in [Worker -> Fiber \cup {None}]
    /\ t_fiber \in [Worker -> Fiber \cup {"main", "root", "idle"}]
    /\ idleTerm \in SUBSET Worker
    /\ m_stopping \in BOOLEAN
    /\ owner \in {"setup", "started", "joining", "stopped"}
    /\ aborted \in {"no", "scheduler.cc:112", "fiber.cc:110"}
    /\ evWait \in SUBSET Fiber /\ timers \in SUBSET Fiber /\ due \in SUBSET timers
    /\ m_tickled \in BOOLEAN /\ pipe \in BOOLEAN
    /\ noTimer \in [Worker -> BOOLEAN]
    /\ cbs \in [Worker -> SUBSET Fiber] /\ got \in [Worker -> Events]

\* The two thread counters.
InIdle == {w \in Worker : pc[w] \in InIdlePC}

ThreadCounters ==
    m_activeThreadCount = Cardinality(Busy) /\ m_idleThreadCount = Cardinality(InIdle)

ThreadInv == ThreadCounters /\ CurrentInv /\ OwnerInv

\* The pending events.  What a thread has got from epoll_wait is still registered,
\* and no other thread has got it.
Counting == {w \in Worker : pc[w] = "count"}

EventInv ==
    /\ IsFiniteSet(evWait)
    /\ m_pendingEventCount = Cardinality(evWait) + Cardinality(Counting)
    /\ \A w \in Worker : \A f \in got[w] : f # TickleFd => f \in evWait
    /\ \A v, w \in Worker : \A f \in got[v] \cap got[w] : f # TickleFd => v = w

\* A fiber that waits for its event has begun and not ended, and is neither in the
\* queue nor carried.
EventPlaces ==
    \A f \in evWait : ~Queued(f) /\ ~Carried(f) /\ m_state[f] \in {"READY", "EXEC"}

\* A callback that waits for its timer is nowhere else; what idle() has taken out
\* of the timer set is in the hands of one thread, which is scheduling it.
TimerPlaces ==
    /\ \A f \in Fiber : Timed(f) => Unused(f)
    /\ \A w \in Worker : cbs[w] \cap timers = {} /\ (cbs[w] # {} => pc[w] = "cbs")
    /\ \A v, w \in Worker : \A g \in cbs[v] \cap cbs[w] : v = w

\* A fiber that has begun and not ended is in the queue, carried, or waits.
IOFreeInv ==
    \A f \in Fiber : m_state[f] \in {"READY", "EXEC"} => Queued(f) \/ Carried(f) \/ f \in evWait

IOPlaceInv == TaskInv /\ StateInv /\ EventPlaces /\ TimerPlaces /\ IOFreeInv

IOInv == VarsOK /\ ThreadInv /\ EventInv /\ IOPlaceInv

\* What the lemmas of SchedulerProofs need of it.
LEMMA IOBasics == VarsOK => Basics
BY DEF VarsOK, Basics, AllPC, IOPC

LEMMA IOParts ==
    IOInv => /\ VarsOK /\ Basics /\ ThreadInv /\ CurrentInv /\ OwnerInv /\ EventInv
             /\ TaskInv /\ StateInv /\ EventPlaces /\ TimerPlaces /\ IOFreeInv
BY IOBasics DEF IOInv, ThreadInv, IOPlaceInv

-----------------------------------------------------------------------------
(* Types.                                                                  *)

\* tickle() leaves pipe a truth value.
LEMMA TickleType == ASSUME NEW asked, Tickle(asked) PROVE pipe' \in BOOLEAN
BY DEF Tickle

\* GetThis() of a thread that executes a fiber is the fiber of its task.
LEMMA RunningFiber ==
    ASSUME VarsOK, CurrentInv, NEW w \in Worker, pc[w] \in {"run", "yield", "save", "back", "switch"}
    PROVE  /\ w \in Busy /\ task[w] \in Fiber
           /\ pc[w] \in {"run", "yield"} => t_fiber[w] = task[w]
BY DEF CurrentInv, Busy

\* schedule() keeps the types of the list and of the fibers.
LEMMA ScheduleTypes ==
    ASSUME VarsOK, NEW f \in Fiber, NEW cb \in BOOLEAN, NEW thread \in Target,
           Schedule(f, cb, thread)
    PROVE  /\ m_tasks' \in Seq(Task) /\ yields' = yields
           /\ m_state' \in [Fiber -> FiberState] /\ saved' \in [Fiber -> BOOLEAN]
<1>1. [fiber |-> f, cb |-> cb, thread |-> thread] \in Task
  BY DEF Task
<1>2. m_tasks' \in Seq(Task)
  BY <1>1, AppendTask DEF Schedule, VarsOK
<1> QED BY <1>2 DEF Schedule, VarsOK, FiberState

\* The steps of run() and of the fibers keep the types.
LEMMA RunTypes ==
    ASSUME IOInv, NEW w \in Worker, IOTakeTask(w) \/ IONoTask(w) \/ Inherited(w) \/ WaitForEvent(w)
    PROVE  VarsOK'
<1>0. VarsOK /\ CurrentInv
  BY IOParts
<1> USE DEF At, Goto, fiberVars, countVars, ioVars
<1>1. CASE IOTakeTask(w)
  <2>1. TakeTask(w) /\ UNCHANGED <<evWait, timers, due, m_tickled, noTimer, cbs, got>> /\ pipe' \in BOOLEAN
    BY <1>1, TickleType DEF IOTakeTask
  <2>2. PICK i \in Eligible(w) : task' = [task EXCEPT ![w] = m_tasks[i].fiber]
                               /\ m_tasks' = Without(m_tasks, i)
    BY <2>1 DEF TakeTask
  <2>3. i \in DOMAIN m_tasks /\ m_tasks \in Seq(Task)
    BY <1>0 DEF Eligible, VarsOK
  <2>4. m_tasks[i] \in Task /\ m_tasks' \in Seq(Task)
    BY <2>2, <2>3, LenProperties, ElementOfSeq, WithoutProperties
  <2>5. m_tasks[i].fiber \in Fiber
    BY <2>4 DEF Task
  <2> QED BY <1>0, <2>1, <2>2, <2>4, <2>5 DEF TakeTask, VarsOK, IOPC, WorkerPC
<1>2. CASE IONoTask(w)
  <2>1. NoTask(w) /\ UNCHANGED <<evWait, timers, due, m_tickled, noTimer, cbs, got>> /\ pipe' \in BOOLEAN
    BY <1>2, TickleType DEF IONoTask
  <2> QED BY <1>0, <2>1 DEF NoTask, VarsOK, IOPC, WorkerPC
<1>3. CASE Inherited(w)
  <2> USE <1>0 DEF VarsOK, IOPC, WorkerPC
  <2>0. UNCHANGED ioVars
    BY <1>3 DEF Inherited
  <2>1. CASE SwapIn(w)
    BY <2>0, <2>1, RunningFiber DEF SwapIn, FiberState
  <2>2. CASE Back(w) \/ EnterIdle(w) \/ LeaveIdle(w)
    BY <2>0, <2>2 DEF Back, EnterIdle, LeaveIdle
  <2>3. CASE YieldToReady(w)
    BY <2>0, <2>3, RunningFiber DEF YieldToReady, FiberState, MainFiberOf
  <2>4. CASE SaveContext(w)
    BY <2>0, <2>4, RunningFiber DEF SaveContext
  <2>5. CASE Finish(w)
    BY <2>0, <2>5, RunningFiber DEF Finish, FiberState, MainFiberOf
  <2> QED BY <1>3, <2>1, <2>2, <2>3, <2>4, <2>5 DEF Inherited
<1>4. CASE WaitForEvent(w)
  <2>1. t_fiber[w] = task[w] /\ task[w] \in Fiber
    BY <1>0, <1>4, RunningFiber DEF WaitForEvent
  <2> QED BY <1>0, <1>4, <2>1 DEF WaitForEvent, VarsOK, IOPC, WorkerPC
<1> QED BY <1>1, <1>2, <1>3, <1>4

\* The steps of idle() keep the types.
LEMMA IdleTypes ==
    ASSUME IOInv, NEW w \in Worker, IdleStep(w)
    PROVE  VarsOK'
<1>0. VarsOK
  BY IOParts
<1> USE <1>0 DEF At, Goto, fiberVars, countVars, ioVars
<1>1. CASE IdleTimer(w)
  <2>1. noTimer' \in [Worker -> BOOLEAN]
    BY <1>1 DEF IdleTimer, VarsOK
  <2> QED BY <1>1, <2>1 DEF IdleTimer, VarsOK, IOPC
<1>2. CASE IdlePending(w)
  BY <1>2 DEF IdlePending, VarsOK, IOPC
<1>3. CASE IdleStopping(w)
  <2>1. /\ pc' \in [Worker -> IOPC] /\ idleTerm' \in SUBSET Worker
        /\ t_fiber' \in [Worker -> Fiber \cup {"main", "root", "idle"}]
    <3>1. CASE Stopping
      <4>1. /\ idleTerm' = idleTerm \cup {w} /\ pc' = [pc EXCEPT ![w] = "leaveIdle"]
            /\ t_fiber' = [t_fiber EXCEPT ![w] = MainFiberOf(w)]
        BY <1>3, <3>1 DEF IdleStopping
      <4> QED BY <4>1 DEF VarsOK, IOPC, WorkerPC, MainFiberOf
    <3>2. CASE ~Stopping
      BY <1>3, <3>2 DEF IdleStopping, VarsOK, IOPC
    <3> QED BY <3>1, <3>2
  <2> QED BY <1>3, <2>1 DEF IdleStopping, VarsOK
<1>4. CASE WakeByTimeout(w)
  BY <1>4 DEF WakeByTimeout, VarsOK, IOPC
<1>5. ASSUME NEW E \in Events, Wake(w, E) PROVE VarsOK'
  <2>1. pipe' \in BOOLEAN
    BY <1>5 DEF Wake
  <2> QED BY <1>5, <2>1 DEF Wake, VarsOK, IOPC
<1>6. CASE ListExpired(w)
  BY <1>6 DEF ListExpired, VarsOK, IOPC
<1>7. ASSUME NEW g \in Fiber, ScheduleCb(w, g) PROVE VarsOK'
  <2>1. [fiber |-> g, cb |-> TRUE, thread |-> AnyThread] \in Task
    BY DEF Task, Target
  <2>2. m_tasks' \in Seq(Task) /\ pipe' \in BOOLEAN
    BY <1>7, <2>1, AppendTask, TickleType DEF ScheduleCb, VarsOK
  <2> QED BY <1>7, <2>2 DEF ScheduleCb, VarsOK, IOPC
<1>8. CASE Drain(w)
  BY <1>8 DEF Drain, vars, VarsOK, Events
<1>9. ASSUME NEW f \in Fiber, Trigger(w, f) PROVE VarsOK'
  <2>1. [fiber |-> f, cb |-> FALSE, thread |-> AnyThread] \in Task
    BY DEF Task, Target
  <2>2. m_tasks' \in Seq(Task) /\ pipe' \in BOOLEAN
    BY <1>9, <2>1, AppendTask, TickleType DEF Trigger, VarsOK
  <2> QED BY <1>9, <2>2 DEF Trigger, VarsOK, IOPC, Events
<1>10. CASE CountDown(w)
  BY <1>10 DEF CountDown, VarsOK, IOPC
<1>11. CASE IdleYield(w)
  BY <1>11 DEF IdleYield, VarsOK, IOPC, WorkerPC, MainFiberOf
<1> QED BY <1>1, <1>2, <1>3, <1>4, <1>5, <1>6, <1>7, <1>8, <1>9, <1>10, <1>11 DEF IdleStep

\* The steps of the owner, of schedule() and of the timers keep the types.
LEMMA OtherTypes ==
    ASSUME IOInv, \/ IOOwner \/ IOStop \/ IOSchedules
                  \/ \E g \in Fiber : AddTimer(g) \/ Elapse(g)
    PROVE  VarsOK'
<1>0. VarsOK
  BY IOParts
<1> USE <1>0, WorkerAssumption DEF OwnerAt, At, Goto, fiberVars, countVars, ioVars, vars
<1>1. CASE IOOwner
  <2>1. CASE Start
    BY <1>1, <2>1 DEF IOOwner, IOStopAgain, Start, VarsOK, IOPC, WorkerPC
  <2>2. CASE Join \/ IOStopAgain
    BY <1>1, <2>2 DEF IOOwner, Join, IOStopAgain, allVars, VarsOK
  <2> QED BY <1>1, <2>1, <2>2 DEF IOOwner
<1>2. CASE IOStop
  <2>1. pipe' \in BOOLEAN /\ Stop
    BY <1>2, TickleType DEF IOStop
  <2>2. pc' \in [Worker -> IOPC] /\ t_fiber' \in [Worker -> Fiber \cup {"main", "root", "idle"}]
    BY <2>1 DEF Stop, VarsOK, IOPC, WorkerPC
  <2> QED BY <1>2, <2>1, <2>2 DEF IOStop, Stop, VarsOK
<1>3. CASE IOSchedules
  <2>1. PICK f \in Fiber, cb \in BOOLEAN, thread \in Pins \cup {AnyThread} :
             /\ Schedule(f, cb, thread)
             /\ UNCHANGED <<pc, task, t_fiber, idleTerm, countVars, m_stopping, owner, aborted>>
    BY <1>3 DEF IOSchedules, OwnerSchedules, FiberSchedules
  <2>2. thread \in Target
    BY PinAssumption DEF Target
  <2>3. /\ m_tasks' \in Seq(Task) /\ yields' = yields
        /\ m_state' \in [Fiber -> FiberState] /\ saved' \in [Fiber -> BOOLEAN]
    BY <2>1, <2>2, ScheduleTypes
  <2>4. pipe' \in BOOLEAN
    BY <1>3, TickleType DEF IOSchedules
  <2> QED BY <1>3, <2>1, <2>3, <2>4 DEF IOSchedules, VarsOK
<1>4. ASSUME NEW g \in Fiber, AddTimer(g) PROVE VarsOK'
  <2>1. pipe' \in BOOLEAN /\ m_tickled' \in BOOLEAN
    BY <1>4, TickleType DEF AddTimer
  <2> QED BY <1>4, <2>1 DEF AddTimer, VarsOK
<1>5. ASSUME NEW g \in Fiber, Elapse(g) PROVE VarsOK'
  BY <1>5 DEF Elapse, VarsOK
<1> QED BY <1>1, <1>2, <1>3, <1>4, <1>5

-----------------------------------------------------------------------------
(* The counters, the tasks that threads hold and the phases of the owner.  *)

\* The threads inside a part of run() when one of them moves.
LEMMA MovePlaces ==
    ASSUME VarsOK, NEW w \in Worker, NEW x \in IOPC, Goto(w, x)
    PROVE  /\ IsFiniteSet(Busy) /\ IsFiniteSet(InIdle)
           /\ Busy' = IF x \in BusyPC THEN Busy \cup {w} ELSE Busy \ {w}
           /\ InIdle' = IF x \in InIdlePC THEN InIdle \cup {w} ELSE InIdle \ {w}
<1>1. IsFiniteSet(Busy) /\ IsFiniteSet(InIdle)
  BY WorkerAssumption, FS_Subset DEF Busy, InIdle
<1>2. pc \in [Worker -> IOPC] /\ pc' = [pc EXCEPT ![w] = x]
  BY DEF VarsOK, Goto
<1>3. Busy' = IF x \in BusyPC THEN Busy \cup {w} ELSE Busy \ {w}
  BY <1>2 DEF Busy, BusyPC
<1>4. InIdle' = IF x \in InIdlePC THEN InIdle \cup {w} ELSE InIdle \ {w}
  BY <1>2 DEF InIdle, InIdlePC
<1> QED BY <1>1, <1>3, <1>4

\* The two thread counters follow a thread that moves from one part to another.
LEMMA CountMove ==
    ASSUME VarsOK, ThreadCounters, NEW w \in Worker, NEW x \in IOPC, Goto(w, x),
           m_activeThreadCount' = m_activeThreadCount
              + (IF x \in BusyPC /\ pc[w] \notin BusyPC THEN 1 ELSE 0)
              - (IF x \notin BusyPC /\ pc[w] \in BusyPC THEN 1 ELSE 0),
           m_idleThreadCount' = m_idleThreadCount
              + (IF x \in InIdlePC /\ pc[w] \notin InIdlePC THEN 1 ELSE 0)
              - (IF x \notin InIdlePC /\ pc[w] \in InIdlePC THEN 1 ELSE 0)
    PROVE  ThreadCounters'
<1>1. /\ IsFiniteSet(Busy) /\ IsFiniteSet(InIdle)
      /\ Busy' = IF x \in BusyPC THEN Busy \cup {w} ELSE Busy \ {w}
      /\ InIdle' = IF x \in InIdlePC THEN InIdle \cup {w} ELSE InIdle \ {w}
  BY MovePlaces
<1>2. (w \in Busy <=> pc[w] \in BusyPC) /\ (w \in InIdle <=> pc[w] \in InIdlePC)
  BY DEF Busy, InIdle, BusyPC
<1>3. m_activeThreadCount' = Cardinality(Busy')
  <2>1. /\ Cardinality(Busy) \in Nat
        /\ w \notin Busy => Cardinality(Busy \cup {w}) = Cardinality(Busy) + 1
        /\ w \in Busy => Cardinality(Busy \ {w}) = Cardinality(Busy) - 1
    BY <1>1, CountOne
  <2>2. (w \in Busy => Busy \cup {w} = Busy) /\ (w \notin Busy => Busy \ {w} = Busy)
    OBVIOUS
  <2>3. CASE x \in BusyPC /\ w \in Busy
    <3>1. m_activeThreadCount' = m_activeThreadCount
      BY <1>2, <2>1, <2>3 DEF ThreadCounters
    <3>2. Busy' = Busy
      BY <1>1, <2>2, <2>3
    <3> QED BY <3>1, <3>2 DEF ThreadCounters
  <2>4. CASE x \in BusyPC /\ w \notin Busy
    BY <1>1, <1>2, <2>1, <2>2, <2>4 DEF ThreadCounters
  <2>5. CASE x \notin BusyPC /\ w \in Busy
    BY <1>1, <1>2, <2>1, <2>2, <2>5 DEF ThreadCounters
  <2>6. CASE x \notin BusyPC /\ w \notin Busy
    <3>1. m_activeThreadCount' = m_activeThreadCount
      BY <1>2, <2>1, <2>6 DEF ThreadCounters
    <3>2. Busy' = Busy
      BY <1>1, <2>2, <2>6
    <3> QED BY <3>1, <3>2 DEF ThreadCounters
  <2> QED BY <2>3, <2>4, <2>5, <2>6
<1>4. m_idleThreadCount' = Cardinality(InIdle')
  <2>1. /\ Cardinality(InIdle) \in Nat
        /\ w \notin InIdle => Cardinality(InIdle \cup {w}) = Cardinality(InIdle) + 1
        /\ w \in InIdle => Cardinality(InIdle \ {w}) = Cardinality(InIdle) - 1
    BY <1>1, CountOne
  <2>2. (w \in InIdle => InIdle \cup {w} = InIdle) /\ (w \notin InIdle => InIdle \ {w} = InIdle)
    OBVIOUS
  <2>3. CASE x \in InIdlePC /\ w \in InIdle
    <3>1. m_idleThreadCount' = m_idleThreadCount
      BY <1>2, <2>1, <2>3 DEF ThreadCounters
    <3>2. InIdle' = InIdle
      BY <1>1, <2>2, <2>3
    <3> QED BY <3>1, <3>2 DEF ThreadCounters
  <2>4. CASE x \in InIdlePC /\ w \notin InIdle
    BY <1>1, <1>2, <2>1, <2>2, <2>4 DEF ThreadCounters
  <2>5. CASE x \notin InIdlePC /\ w \in InIdle
    BY <1>1, <1>2, <2>1, <2>2, <2>5 DEF ThreadCounters
  <2>6. CASE x \notin InIdlePC /\ w \notin InIdle
    <3>1. m_idleThreadCount' = m_idleThreadCount
      BY <1>2, <2>1, <2>6 DEF ThreadCounters
    <3>2. InIdle' = InIdle
      BY <1>1, <2>2, <2>6
    <3> QED BY <3>1, <3>2 DEF ThreadCounters
  <2> QED BY <2>3, <2>4, <2>5, <2>6
<1> QED BY <1>3, <1>4 DEF ThreadCounters

\* The counters are natural numbers.
LEMMA CountersNat ==
    ASSUME VarsOK, ThreadCounters
    PROVE  m_activeThreadCount \in Nat /\ m_idleThreadCount \in Nat
<1>1. IsFiniteSet(Busy) /\ IsFiniteSet(InIdle)
  BY WorkerAssumption, FS_Subset DEF Busy, InIdle
<1> QED BY <1>1, FS_CardinalityType DEF ThreadCounters

\* A thread moves inside idle(), or between idle() and the loop of run().
LEMMA MoveIdle ==
    ASSUME VarsOK, ThreadInv, NEW w \in Worker, NEW x \in IOPC, Goto(w, x),
           x = "exit" => w \in idleTerm, \A v \in Worker : v # w => t_fiber'[v] = t_fiber[v],
           pc[w] \notin BusyPC \cup {"off"}, x \notin BusyPC,
           UNCHANGED <<task, m_activeThreadCount, m_stopping, owner>>, idleTerm \subseteq idleTerm',
           m_idleThreadCount' = m_idleThreadCount
              + (IF x \in InIdlePC /\ pc[w] \notin InIdlePC THEN 1 ELSE 0)
              - (IF x \notin InIdlePC /\ pc[w] \in InIdlePC THEN 1 ELSE 0),
           owner # "stopped"
    PROVE  ThreadInv'
<1>0. m_activeThreadCount \in Nat /\ m_idleThreadCount \in Nat
  BY CountersNat DEF ThreadInv
<1>1. ThreadCounters'
  BY <1>0, CountMove DEF ThreadInv
<1>2. /\ Busy' = Busy /\ pc' = [pc EXCEPT ![w] = x] /\ w \notin Busy
      /\ \A v \in Worker : v # w => pc'[v] = pc[v]
      /\ pc'[w] = x
  BY DEF Busy, BusyPC, Goto, VarsOK
<1>3. CurrentInv'
  <2>1. \A v \in Worker : v \notin Busy => task[v] = None
    BY DEF ThreadInv, CurrentInv
  <2>2. x \notin {"run", "yield"} /\ pc[w] \notin {"run", "yield"}
    BY DEF BusyPC
  <2> QED BY <1>2, <2>1, <2>2 DEF ThreadInv, CurrentInv
<1>4. OwnerInv'
  BY <1>2, WorkerAssumption DEF ThreadInv, OwnerInv
<1> QED BY <1>1, <1>3, <1>4 DEF ThreadInv

\* A thread moves while it holds a task.
LEMMA MoveBusy ==
    ASSUME VarsOK, ThreadInv, NEW w \in Worker, NEW x \in BusyPC, Goto(w, x),
           pc[w] \in BusyPC, UNCHANGED <<task, countVars, m_stopping, owner, idleTerm>>,
           \A v \in Worker : v # w => t_fiber'[v] = t_fiber[v],
           x \in {"run", "yield"} => t_fiber'[w] = task[w]
    PROVE  ThreadInv'
<1>0. m_activeThreadCount \in Nat /\ m_idleThreadCount \in Nat
  BY CountersNat DEF ThreadInv
<1>1. ThreadCounters'
  <2>1. x \in IOPC /\ x \notin InIdlePC /\ pc[w] \notin InIdlePC
    BY DEF BusyPC, InIdlePC, IOPC, WorkerPC
  <2> QED BY <1>0, <2>1, CountMove DEF ThreadInv, countVars
<1>2. /\ Busy' = Busy /\ pc'[w] = x /\ w \in Busy
      /\ \A v \in Worker : v # w => pc'[v] = pc[v]
  BY DEF Busy, BusyPC, Goto, VarsOK
<1>3. CurrentInv'
  BY <1>2 DEF ThreadInv, CurrentInv
<1>4. OwnerInv'
  BY <1>2, WorkerAssumption DEF ThreadInv, OwnerInv, BusyPC
<1> QED BY <1>1, <1>3, <1>4 DEF ThreadInv

\* The steps of run(), of the fibers and of idle() keep the thread counters, the
\* tasks that are held and the phases of the owner.
LEMMA WorkerThreads ==
    ASSUME VarsOK, ThreadInv, NEW w \in Worker, WorkerStep(w) \/ WaitForEvent(w)
    PROVE  ThreadInv'
<1>0. m_activeThreadCount \in Nat /\ m_idleThreadCount \in Nat
  BY CountersNat DEF ThreadInv
<1>s. ASSUME pc[w] # "exit" PROVE owner # "stopped"
  BY <1>s DEF ThreadInv, OwnerInv
<1> USE <1>0, <1>s DEF At, fiberVars, countVars, ioVars, BusyPC, InIdlePC
<1>t. pc \in [Worker -> IOPC] /\ t_fiber \in [Worker -> Fiber \cup {"main", "root", "idle"}]
  BY DEF VarsOK
<1>1. CASE IOTakeTask(w)
  <2>1. TakeTask(w)
    BY <1>1 DEF IOTakeTask
  <2>2. PICK i \in Eligible(w) : task' = [task EXCEPT ![w] = m_tasks[i].fiber]
    BY <2>1 DEF TakeTask
  <2>3. i \in DOMAIN m_tasks /\ m_tasks \in Seq(Task)
    BY DEF Eligible, VarsOK
  <2>4. m_tasks[i].fiber \in Fiber
    <3>1. m_tasks[i] \in Task
      BY <2>3, LenProperties, ElementOfSeq
    <3> QED BY <3>1 DEF Task
  <2>5. /\ pc[w] = "scan" /\ Goto(w, "switch") /\ m_activeThreadCount' = m_activeThreadCount + 1
        /\ UNCHANGED <<t_fiber, idleTerm, m_idleThreadCount, m_stopping, owner>>
    BY <2>1 DEF TakeTask
  <2>6. ThreadCounters'
    <3>1. "switch" \in IOPC
      BY DEF IOPC, WorkerPC
    <3> QED BY <2>5, <3>1, CountMove DEF ThreadInv
  <2>7. /\ Busy' = Busy \cup {w} /\ pc'[w] = "switch" /\ task'[w] = m_tasks[i].fiber
        /\ \A v \in Worker : v # w => pc'[v] = pc[v] /\ task'[v] = task[v]
    BY <2>2, <2>5 DEF Busy, Goto, VarsOK
  <2>8. CurrentInv'
    BY <2>4, <2>5, <2>7 DEF ThreadInv, CurrentInv
  <2>9. OwnerInv'
    BY <2>5, <2>7, WorkerAssumption DEF ThreadInv, OwnerInv
  <2> QED BY <2>6, <2>8, <2>9 DEF ThreadInv
<1>2. CASE IONoTask(w)
  <2>1. /\ pc[w] = "scan" /\ Goto(w, IF w \in idleTerm THEN "exit" ELSE "toIdle")
        /\ UNCHANGED <<task, t_fiber, idleTerm, countVars, m_stopping, owner>>
    BY <1>2 DEF IONoTask, NoTask
  <2>2. "exit" \in IOPC /\ "toIdle" \in IOPC
    BY DEF IOPC, WorkerPC
  <2>3. CASE w \in idleTerm
    BY <2>1, <2>2, <2>3, MoveIdle
  <2>4. CASE w \notin idleTerm
    BY <2>1, <2>2, <2>4, MoveIdle
  <2> QED BY <2>3, <2>4
<1>3. CASE SwapIn(w) \/ YieldToReady(w) \/ SaveContext(w) \/ Finish(w) \/ WaitForEvent(w)
  <2>1. CASE SwapIn(w)
    <3>1. /\ pc[w] = "switch" /\ Goto(w, "run") /\ t_fiber' = [t_fiber EXCEPT ![w] = task[w]]
          /\ UNCHANGED <<task, countVars, m_stopping, owner, idleTerm>>
      BY <2>1 DEF SwapIn
    <3> QED BY <1>t, <3>1, MoveBusy
  <2>2. CASE YieldToReady(w) \/ SaveContext(w) \/ Finish(w)
    <3>1. PICK x \in {"save", "back"} : Goto(w, x)
      BY <2>2 DEF YieldToReady, SaveContext, Finish
    <3>2. /\ pc[w] \in BusyPC /\ \A v \in Worker : v # w => t_fiber'[v] = t_fiber[v]
          /\ UNCHANGED <<task, countVars, m_stopping, owner, idleTerm>>
      BY <1>t, <2>2 DEF YieldToReady, SaveContext, Finish
    <3> QED BY <3>1, <3>2, MoveBusy
  <2>3. CASE WaitForEvent(w)
    <3>1. /\ pc[w] = "run" /\ Goto(w, "yield")
          /\ UNCHANGED <<task, t_fiber, countVars, m_stopping, owner, idleTerm>>
      BY <2>3 DEF WaitForEvent
    <3>2. t_fiber[w] = task[w]
      BY <3>1 DEF ThreadInv, CurrentInv
    <3> QED BY <3>1, <3>2, MoveBusy
  <2> QED BY <1>3, <2>1, <2>2, <2>3
<1>4. CASE Back(w)
  <2>1. /\ pc[w] = "back" /\ Goto(w, "scan") /\ m_activeThreadCount' = m_activeThreadCount - 1
        /\ task' = [task EXCEPT ![w] = None]
        /\ UNCHANGED <<t_fiber, idleTerm, m_idleThreadCount, m_stopping, owner>>
    BY <1>4 DEF Back
  <2>2. ThreadCounters'
    <3>1. "scan" \in IOPC
      BY DEF IOPC, WorkerPC
    <3> QED BY <2>1, <3>1, CountMove DEF ThreadInv
  <2>3. /\ Busy' = Busy \ {w} /\ pc'[w] = "scan" /\ task'[w] = None
        /\ \A v \in Worker : v # w => pc'[v] = pc[v] /\ task'[v] = task[v]
    BY <2>1 DEF Busy, Goto, VarsOK
  <2>4. CurrentInv'
    BY <2>1, <2>3 DEF ThreadInv, CurrentInv
  <2>5. OwnerInv'
    BY <2>1, <2>3, WorkerAssumption DEF ThreadInv, OwnerInv
  <2> QED BY <2>2, <2>4, <2>5 DEF ThreadInv
<1>5. CASE EnterIdle(w) \/ LeaveIdle(w)
  <2>1. "idle" \in IOPC /\ "scan" \in IOPC
    BY DEF IOPC, WorkerPC
  <2>2. CASE EnterIdle(w)
    <3>1. /\ pc[w] = "toIdle" /\ Goto(w, "idle") /\ m_idleThreadCount' = m_idleThreadCount + 1
          /\ t_fiber' = [t_fiber EXCEPT ![w] = "idle"]
          /\ UNCHANGED <<task, idleTerm, m_activeThreadCount, m_stopping, owner>>
      BY <2>2 DEF EnterIdle
    <3> QED BY <1>t, <2>1, <3>1, MoveIdle
  <2>3. CASE LeaveIdle(w)
    <3>1. /\ pc[w] = "leaveIdle" /\ Goto(w, "scan") /\ m_idleThreadCount' = m_idleThreadCount - 1
          /\ UNCHANGED <<task, t_fiber, idleTerm, m_activeThreadCount, m_stopping, owner>>
      BY <2>3 DEF LeaveIdle
    <3> QED BY <2>1, <3>1, MoveIdle
  <2> QED BY <1>5, <2>2, <2>3
<1>6. CASE IdleStep(w) /\ ~Drain(w)
  <2> USE DEF IdleTimer, IdlePending, IdleStopping, Wake, WakeByTimeout, ListExpired, ScheduleCb,
              Trigger, CountDown, IdleYield
  <2>1. PICK x \in InIdlePC : Goto(w, x)
    BY <1>6 DEF IdleStep
  <2>2. /\ pc[w] \in InIdlePC \ {"leaveIdle"} /\ idleTerm \subseteq idleTerm'
        /\ UNCHANGED <<task, countVars, m_stopping, owner>>
        /\ \A v \in Worker : v # w => t_fiber'[v] = t_fiber[v]
    BY <1>t, <1>6 DEF IdleStep
  <2>3. x \in IOPC
    BY <2>1 DEF IOPC, WorkerPC
  <2> QED BY <2>1, <2>2, <2>3, MoveIdle
<1>7. CASE Drain(w)
  <2>1. UNCHANGED <<pc, task, t_fiber, countVars, idleTerm, m_stopping, owner>>
    BY <1>7 DEF Drain, vars
  <2> QED BY <2>1 DEF ThreadInv, ThreadCounters, CurrentInv, OwnerInv, Busy, InIdle
<1> QED BY <1>1, <1>2, <1>3, <1>4, <1>5, <1>6, <1>7 DEF WorkerStep, Inherited

\* The steps of the owner, of schedule() and of the timers keep them too.
LEMMA OtherThreadsKeep ==
    ASSUME VarsOK, ThreadInv, \/ IOOwner \/ IOStop \/ IOSchedules
                              \/ \E g \in Fiber : AddTimer(g) \/ Elapse(g)
    PROVE  ThreadInv'
<1>0. m_activeThreadCount \in Nat /\ m_idleThreadCount \in Nat
  BY CountersNat DEF ThreadInv
<1> USE <1>0, WorkerAssumption DEF OwnerAt, fiberVars, countVars, ioVars, vars
<1>1. CASE Start
  <2>1. \A w \in Worker : pc[w] = "off" /\ pc'[w] \in {"off", "scan"}
    BY <1>1 DEF Start, ThreadInv, OwnerInv
  <2>2. Busy' = Busy /\ InIdle' = InIdle /\ Busy = {}
    BY <2>1 DEF Busy, InIdle, InIdlePC
  <2>3. ThreadCounters'
    BY <1>1, <2>2 DEF Start, ThreadInv, ThreadCounters
  <2>4. CurrentInv'
    BY <1>1, <2>1, <2>2 DEF Start, ThreadInv, CurrentInv
  <2>5. OwnerInv'
    BY <1>1, <2>1 DEF Start, ThreadInv, OwnerInv
  <2> QED BY <2>3, <2>4, <2>5 DEF ThreadInv
<1>2. CASE Stop
  <2>1. CASE UseCaller
    <3>1. /\ Goto(Root, "scan") /\ pc[Root] = "off" /\ t_fiber' = [t_fiber EXCEPT ![Root] = "root"]
          /\ Root \in Worker /\ UNCHANGED <<task, countVars, idleTerm>>
          /\ owner = "started" /\ owner' = "joining" /\ m_stopping'
      BY <1>2, <2>1 DEF Stop, ThreadInv, OwnerInv
    <3>2. ThreadCounters'
      <4>1. "scan" \in IOPC
        BY DEF IOPC, WorkerPC
      <4> QED BY <3>1, <4>1, CountMove DEF ThreadInv, BusyPC, InIdlePC
    <3>3. /\ Busy' = Busy /\ pc'[Root] = "scan"
          /\ \A v \in Worker : v # Root => pc'[v] = pc[v] /\ t_fiber'[v] = t_fiber[v]
      BY <3>1 DEF Busy, Goto, VarsOK
    <3>4. CurrentInv'
      BY <3>1, <3>3 DEF ThreadInv, CurrentInv
    <3>5. OwnerInv'
      BY <3>1, <3>3 DEF ThreadInv, OwnerInv
    <3> QED BY <3>2, <3>4, <3>5 DEF ThreadInv
  <2>2. CASE ~UseCaller
    <3>1. /\ UNCHANGED <<pc, task, t_fiber, countVars, idleTerm>>
          /\ owner = "started" /\ owner' = "joining" /\ m_stopping'
      BY <1>2, <2>2 DEF Stop
    <3>2. ThreadCounters' /\ CurrentInv'
      BY <3>1 DEF ThreadInv, ThreadCounters, CurrentInv, Busy, InIdle
    <3>3. OwnerInv'
      BY <2>2, <3>1 DEF ThreadInv, OwnerInv
    <3> QED BY <3>2, <3>3 DEF ThreadInv
  <2> QED BY <2>1, <2>2
<1>3. CASE Join
  <2>1. /\ UNCHANGED <<pc, task, t_fiber, countVars, idleTerm, m_stopping>>
        /\ owner = "joining" /\ owner' = "stopped" /\ \A w \in Worker : pc[w] = "exit"
    BY <1>3 DEF Join
  <2>2. ThreadCounters' /\ CurrentInv'
    BY <2>1 DEF ThreadInv, ThreadCounters, CurrentInv, Busy, InIdle
  <2>3. OwnerInv'
    BY <2>1 DEF ThreadInv, OwnerInv
  <2> QED BY <2>2, <2>3 DEF ThreadInv
<1>4. CASE IOStopAgain \/ IOSchedules \/ \E g \in Fiber : AddTimer(g) \/ Elapse(g)
  <2>1. UNCHANGED <<pc, task, t_fiber, countVars, idleTerm, m_stopping, owner>>
    BY <1>4 DEF IOStopAgain, allVars, IOSchedules, OwnerSchedules, FiberSchedules, AddTimer, Elapse
  <2>2. ThreadCounters' /\ CurrentInv' /\ OwnerInv'
    BY <2>1 DEF ThreadInv, ThreadCounters, CurrentInv, OwnerInv, Busy, InIdle
  <2> QED BY <2>2 DEF ThreadInv
<1> QED BY <1>1, <1>2, <1>3, <1>4 DEF IOOwner, IOStop

-----------------------------------------------------------------------------
(* Where the fibers are, one lemma per kind of step.                       *)

\* Timers and listed callbacks stay, and no timed callback is used elsewhere.
LEMMA TimersKeep ==
    ASSUME TimerPlaces, UNCHANGED <<timers, cbs>>,
           \A g \in Fiber : Timed(g) /\ Unused(g) => Unused(g)',
           \A v \in Worker : pc[v] = "cbs" => pc'[v] = "cbs"
    PROVE  TimerPlaces'
<1>1. \A g : Timed(g)' <=> Timed(g)
  BY DEF Timed
<1> QED BY <1>1 DEF TimerPlaces

\* A step that touches neither the list nor a fiber nor what waits.
LEMMA IOQuietPlace ==
    ASSUME IOInv, UNCHANGED <<m_tasks, m_state, saved, task, aborted, evWait, timers, cbs>>,
           Busy' = Busy, \A v \in Busy : pc'[v] = pc[v] /\ t_fiber'[v] = t_fiber[v],
           \A v \in Worker : pc[v] = "cbs" => pc'[v] = "cbs"
    PROVE  IOPlaceInv'
<1>0. Basics /\ TaskInv /\ StateInv /\ EventPlaces /\ TimerPlaces /\ IOFreeInv
  BY IOParts
<1>1. \A v \in Worker : Carries(v)' <=> Carries(v)
  BY DEF Carries, Busy
<1>2. \A g : (Queued(g)' <=> Queued(g)) /\ (Carried(g)' <=> Carried(g))
  BY <1>1 DEF Queued, Carried
<1>3. TaskInv'
  BY <1>0, <1>1, TaskInvStays
<1>4. TasksOK => TasksOK'
  BY DEF TasksOK, TaskOK
<1>5. StateInv'
  BY <1>0, <1>4, QuietStates
<1>6. EventPlaces' /\ IOFreeInv'
  BY <1>0, <1>2 DEF EventPlaces, IOFreeInv
<1>7. \A g \in Fiber : Unused(g) => Unused(g)'
  BY <1>2 DEF Unused
<1>8. TimerPlaces'
  BY <1>0, <1>7, TimersKeep
<1> QED BY <1>3, <1>5, <1>6, <1>8 DEF IOPlaceInv

\* A thread without a task moves, in run() or in idle().
LEMMA MovesPlace ==
    ASSUME IOInv, NEW w \in Worker,
           \/ IONoTask(w) \/ (EnterIdle(w) /\ UNCHANGED ioVars) \/ (LeaveIdle(w) /\ UNCHANGED ioVars)
           \/ IdleTimer(w) \/ IdlePending(w) \/ IdleStopping(w)
           \/ WakeByTimeout(w) \/ (\E E \in Events : Wake(w, E))
           \/ Drain(w) \/ CountDown(w) \/ IdleYield(w)
    PROVE  IOPlaceInv'
<1>0. VarsOK
  BY IOParts
<1> USE DEF IONoTask, NoTask, EnterIdle, LeaveIdle, IdleTimer, IdlePending, IdleStopping,
            WakeByTimeout, Wake, Drain, CountDown, IdleYield, fiberVars, ioVars, vars
<1>1. UNCHANGED <<m_tasks, m_state, saved, task, aborted, evWait, timers, cbs>>
  OBVIOUS
<1>2. pc[w] \notin BusyPC \cup {"cbs"} /\ \A v \in Worker : v # w => t_fiber'[v] = t_fiber[v]
  BY <1>0 DEF At, BusyPC, VarsOK
<1>3. pc' = pc \/ \E x \in IOPC \ BusyPC : pc' = [pc EXCEPT ![w] = x]
  BY DEF Goto, IOPC, WorkerPC, BusyPC
<1> HIDE DEF IONoTask, NoTask, EnterIdle, LeaveIdle, IdleTimer, IdlePending, IdleStopping,
             WakeByTimeout, Wake, Drain, CountDown, IdleYield, fiberVars, ioVars, vars
<1>4. /\ Busy' = Busy /\ \A v \in Busy : pc'[v] = pc[v] /\ t_fiber'[v] = t_fiber[v]
      /\ \A v \in Worker : pc[v] = "cbs" => pc'[v] = "cbs"
  BY <1>0, <1>2, <1>3 DEF Busy, BusyPC, VarsOK
<1> QED BY <1>1, <1>4, IOQuietPlace

\* start(), stop(), the joins, and the clock.
LEMMA OwnersPlace ==
    ASSUME IOInv, IOOwner \/ IOStop \/ (\E g \in Fiber : Elapse(g)) \/ UNCHANGED allVars
    PROVE  IOPlaceInv'
<1>0. VarsOK /\ OwnerInv
  BY IOParts
<1>1. CASE Start /\ UNCHANGED ioVars
  <2>1. \A v \in Worker : pc[v] = "off" /\ pc'[v] \in {"off", "scan"}
    BY <1>0, <1>1 DEF Start, OwnerAt, OwnerInv
  <2>2. UNCHANGED <<m_tasks, m_state, saved, task, aborted, evWait, timers, cbs, t_fiber>>
    BY <1>1 DEF Start, fiberVars, ioVars
  <2>3. Busy' = Busy /\ Busy = {}
    BY <2>1 DEF Busy
  <2> QED BY <2>1, <2>2, <2>3, IOQuietPlace
<1>2. CASE IOStop
  <2>1. /\ UNCHANGED <<m_tasks, m_state, saved, task, aborted, evWait, timers, cbs>>
        /\ UseCaller => pc[Root] = "off"
        /\ \/ UNCHANGED <<pc, t_fiber>>
           \/ /\ UseCaller /\ pc' = [pc EXCEPT ![Root] = "scan"]
              /\ t_fiber' = [t_fiber EXCEPT ![Root] = "root"]
    BY <1>0, <1>2 DEF IOStop, Stop, OwnerAt, OwnerInv, Goto, fiberVars
  <2>2. /\ Busy' = Busy /\ \A v \in Busy : pc'[v] = pc[v] /\ t_fiber'[v] = t_fiber[v]
        /\ \A v \in Worker : pc[v] = "cbs" => pc'[v] = "cbs"
    BY <1>0, <2>1, WorkerAssumption DEF Busy, VarsOK
  <2> QED BY <2>1, <2>2, IOQuietPlace
<1>3. CASE (Join /\ UNCHANGED ioVars) \/ IOStopAgain \/ (\E g \in Fiber : Elapse(g)) \/ UNCHANGED allVars
  <2>1. UNCHANGED <<m_tasks, m_state, saved, task, aborted, evWait, timers, cbs, pc, t_fiber>>
    BY <1>3 DEF Join, IOStopAgain, Elapse, allVars, vars, fiberVars, ioVars
  <2>2. Busy' = Busy
    BY <2>1 DEF Busy
  <2> QED BY <2>1, <2>2, IOQuietPlace
<1> QED BY <1>1, <1>2, <1>3 DEF IOOwner

\* schedule() of an unused fiber.
LEMMA SchedulesPlace ==
    ASSUME IOInv, IOSchedules
    PROVE  IOPlaceInv'
<1>0. Basics /\ CurrentInv /\ TaskInv /\ StateInv /\ EventPlaces /\ TimerPlaces /\ IOFreeInv
  BY IOParts
<1>1. PICK f \in Fiber, cb \in BOOLEAN, thread \in Pins \cup {AnyThread} :
           /\ ~Timed(f) /\ Schedule(f, cb, thread)
           /\ UNCHANGED <<pc, task, t_fiber, aborted, evWait, timers, cbs>>
  BY DEF IOSchedules, OwnerSchedules, FiberSchedules
<1>t. thread \in Target
  BY PinAssumption DEF Target
<1>2. PICK t \in Task : t = [fiber |-> f, cb |-> cb, thread |-> thread]
  BY <1>t DEF Task
<1>3. /\ m_tasks \in Seq(Task) /\ m_tasks' = Append(m_tasks, t) /\ t.fiber = f /\ ~Queued(f)
      /\ m_state[f] = "NONE" /\ \A w \in Worker : task[w] # f
      /\ \A g \in Fiber : g # f => m_state'[g] = m_state[g]
  BY <1>0, <1>1, <1>2 DEF Schedule, Unused, Basics
<1>4. /\ \A g : Carried(g)' <=> Carried(g)
      /\ ~Carried(f)' /\ \A v \in Worker : Carries(v)' => Carries(v) /\ task'[v] = task[v]
  BY <1>1, <1>3 DEF Carried, Carries
<1>5. TaskInv'
  BY <1>0, <1>3, <1>4, TaskInvAppend
<1>6. StateInv'
  BY <1>0, <1>1, <1>t, ScheduleStates
<1>7. \A g : Queued(g)' <=> Queued(g) \/ g = f
  BY <1>3, QueuedAfterAppend
<1>8. f \notin evWait
  BY <1>0, <1>3 DEF EventPlaces
<1>9. evWait' = evWait /\ \A g \in evWait : g \in Fiber
  BY <1>1 DEF IOInv, VarsOK
<1>10. EventPlaces'
  BY <1>0, <1>3, <1>4, <1>7, <1>8, <1>9 DEF EventPlaces
<1>11. IOFreeInv'
  BY <1>0, <1>3, <1>4, <1>7, <1>9 DEF IOFreeInv
<1>12. \A g \in Fiber : Timed(g) /\ Unused(g) => Unused(g)'
  BY <1>1, <1>3, <1>7 DEF Unused
<1>13. TimerPlaces'
  BY <1>0, <1>1, <1>12, TimersKeep
<1> QED BY <1>5, <1>6, <1>10, <1>11, <1>13 DEF IOPlaceInv

\* A thread takes a task.
LEMMA TakesPlace ==
    ASSUME IOInv, NEW w \in Worker, IOTakeTask(w)
    PROVE  IOPlaceInv'
<1>0. /\ Basics /\ CurrentInv /\ TaskInv /\ StateInv /\ EventPlaces /\ TimerPlaces /\ IOFreeInv
      /\ TakeTask(w) /\ UNCHANGED <<evWait, timers, cbs>> /\ pc[w] = "scan"
  BY IOParts DEF IOTakeTask, TakeTask, At
<1>1. PICK f \in Fiber :
              /\ Queued(f) /\ ~Carried(f) /\ task'[w] = f
              /\ \A v \in Worker : v # w => pc'[v] = pc[v] /\ task'[v] = task[v]
              /\ \A g : Queued(g)' <=> Queued(g) /\ g # f
              /\ \A g : Carried(g)' <=> Carried(g) \/ g = f
              /\ m_state' = m_state /\ TaskInv'
  BY <1>0, TakeTokens
<1>2. StateInv'
  BY <1>0, TakeStates
<1>3. EventPlaces' /\ IOFreeInv'
  BY <1>0, <1>1 DEF EventPlaces, IOFreeInv
<1>4. \A g \in Fiber : Unused(g) => Unused(g)'
  <2>1. \A g : Unused(g) => ~Queued(g)' /\ g # f /\ m_state'[g] = "NONE"
    BY <1>1 DEF Unused
  <2>2. \A g, v : Unused(g) /\ v \in Worker => task'[v] # g
    BY <1>1, <2>1 DEF Unused
  <2> QED BY <2>1, <2>2 DEF Unused
<1>5. \A v \in Worker : pc[v] = "cbs" => pc'[v] = "cbs"
  BY <1>0, <1>1
<1>6. TimerPlaces'
  BY <1>0, <1>4, <1>5, TimersKeep
<1> QED BY <1>1, <1>2, <1>3, <1>6 DEF IOPlaceInv

\* swapIn, YieldToReady, swapcontext and the end of a callback.
LEMMA SwitchesPlace ==
    ASSUME IOInv, NEW w \in Worker, UNCHANGED ioVars,
           SwapIn(w) \/ YieldToReady(w) \/ SaveContext(w) \/ Finish(w)
    PROVE  IOPlaceInv'
<1>0. /\ Basics /\ CurrentInv /\ TaskInv /\ StateInv /\ EventPlaces /\ TimerPlaces /\ IOFreeInv
      /\ UNCHANGED <<evWait, timers, cbs>> /\ pc[w] # "cbs"
  BY IOParts DEF ioVars, SwapIn, YieldToReady, SaveContext, Finish, At
<1>1. PICK f \in Fiber :
              /\ f = task[w] /\ task' = task
              /\ \A v \in Worker : v # w => pc'[v] = pc[v]
              /\ \A g \in Fiber : g # f => m_state'[g] = m_state[g]
              /\ \A g : Queued(g)' <=> Queued(g)
              /\ \A g : g # f => (Carried(g)' <=> Carried(g))
              /\ m_state'[f] # "TERM" /\ Carried(f) => Carried(f)'
              /\ m_state'[f] = m_state[f] \/ m_state[f] = "EXEC" \/ Carried(f)'
              /\ m_state'[f] = m_state[f] \/ m_state'[f] = "READY" \/ Carried(f)
              /\ Carried(f)' => Carried(f)
              /\ TaskInv'
  BY <1>0, SwitchTokens
<1>2. StateInv'
  BY <1>0, SwapInStates, YieldStates, SaveStates, FinishStates
<1>3. \A g \in evWait : g \in Fiber
  BY DEF IOInv, VarsOK
<1>4. EventPlaces'
  BY <1>0, <1>1, <1>3 DEF EventPlaces
<1>5. IOFreeInv'
  BY <1>0, <1>1 DEF IOFreeInv
<1>6. \A g \in Fiber : Unused(g) => Unused(g)'
  BY <1>1 DEF Unused
<1>7. \A v \in Worker : pc[v] = "cbs" => pc'[v] = "cbs"
  BY <1>0, <1>1
<1>8. TimerPlaces'
  BY <1>0, <1>6, <1>7, TimersKeep
<1> QED BY <1>1, <1>2, <1>4, <1>5, <1>8 DEF IOPlaceInv

\* run() lets go of its task.
LEMMA BacksPlace ==
    ASSUME IOInv, NEW w \in Worker, Back(w), UNCHANGED ioVars
    PROVE  IOPlaceInv'
<1>0. /\ Basics /\ TaskInv /\ StateInv /\ EventPlaces /\ TimerPlaces /\ IOFreeInv
      /\ UNCHANGED <<evWait, timers, cbs>>
  BY IOParts DEF ioVars
<1>1. /\ m_tasks' = m_tasks /\ m_state' = m_state /\ Goto(w, "scan") /\ pc[w] = "back"
      /\ task'[w] = None /\ \A v \in Worker : v # w => task'[v] = task[v]
  BY <1>0 DEF Back, At, fiberVars, Basics
<1>2. /\ ~Carries(w) /\ ~Carries(w)'
      /\ \A v \in Worker : v # w => pc'[v] = pc[v] /\ (Carries(v)' <=> Carries(v))
  BY <1>0, <1>1 DEF Carries, Goto, Basics
<1>3. TaskInv'
  BY <1>0, <1>1, <1>2, TaskInvStays
<1>4. \A g : (Queued(g)' <=> Queued(g)) /\ (Carried(g)' <=> Carried(g))
  BY <1>1, <1>2 DEF Queued, Carried
<1>5. EventPlaces' /\ IOFreeInv'
  BY <1>0, <1>1, <1>4 DEF EventPlaces, IOFreeInv
<1>6. StateInv'
  BY <1>0, BackStates
<1>7. \A g \in Fiber : Unused(g) => Unused(g)'
  BY <1>1, <1>4, FiberAssumption DEF Unused
<1>8. TimerPlaces'
  BY <1>0, <1>1, <1>2, <1>7, TimersKeep
<1> QED BY <1>3, <1>5, <1>6, <1>8 DEF IOPlaceInv

\* addEvent() by the running fiber, which will yield.
LEMMA WaitsPlace ==
    ASSUME IOInv, NEW w \in Worker, WaitForEvent(w)
    PROVE  IOPlaceInv' /\ task[w] \in Fiber \ evWait /\ evWait' = evWait \cup {task[w]}
<1>0. Basics /\ CurrentInv /\ TaskInv /\ StateInv /\ EventPlaces /\ TimerPlaces /\ IOFreeInv
  BY IOParts
<1>1. PICK f \in Fiber : f = task[w] /\ f = t_fiber[w]
  BY <1>0 DEF WaitForEvent, At, CurrentInv, Busy
<1>2. /\ UNCHANGED <<m_tasks, m_state, saved, task, t_fiber, aborted, timers, cbs>>
      /\ Goto(w, "yield") /\ pc[w] = "run" /\ aborted = "no" /\ evWait' = evWait \cup {f}
  BY <1>1 DEF WaitForEvent, At
<1>3. /\ pc'[w] = "yield"
      /\ \A v \in Worker : v # w => pc'[v] = pc[v] /\ (Carries(v)' <=> Carries(v))
  BY <1>0, <1>2, OthersStay DEF AllPC, WorkerPC
<1>4. Carries(w) /\ ~Carries(w)' /\ Carried(f)
  BY <1>1, <1>2, <1>3 DEF Carries, Carried
<1>5. ~Queued(f) /\ ~Carried(f)' /\ \A g : g # f => (Carried(g)' <=> Carried(g))
  BY <1>0, <1>1, <1>2, <1>3, <1>4 DEF TaskInv, Carried
<1>6. TaskInv'
  BY <1>0, <1>2, <1>3, <1>4, TaskInvStays
<1>7. m_state[f] = "EXEC" /\ f \notin evWait
  BY <1>0, <1>1, <1>2, <1>4 DEF StateInv, OneThreadPerFiber, EventPlaces
<1>8. TasksOK => TasksOK'
  BY <1>2 DEF TasksOK, TaskOK
<1>9. StateInv'
  BY <1>0, <1>2, <1>8, LeaveStates
<1>10. \A g : Queued(g)' <=> Queued(g)
  BY <1>2 DEF Queued
<1>11. EventPlaces' /\ IOFreeInv'
  BY <1>0, <1>2, <1>5, <1>7, <1>10 DEF EventPlaces, IOFreeInv
<1>12. \A g \in Fiber : Unused(g) => Unused(g)'
  BY <1>2, <1>10 DEF Unused
<1>13. TimerPlaces'
  BY <1>0, <1>2, <1>3, <1>12, TimersKeep
<1> QED BY <1>1, <1>2, <1>6, <1>7, <1>9, <1>11, <1>13 DEF IOPlaceInv

\* addTimer().
LEMMA AddTimerPlace ==
    ASSUME IOInv, NEW g \in Fiber, AddTimer(g)
    PROVE  IOPlaceInv'
<1>0. TaskInv /\ StateInv /\ EventPlaces /\ TimerPlaces /\ IOFreeInv
  BY IOParts
<1>1. /\ UNCHANGED <<m_tasks, m_state, saved, task, t_fiber, aborted, pc, evWait, cbs>>
      /\ timers' = timers \cup {g} /\ Unused(g) /\ ~Timed(g)
  BY DEF AddTimer, vars, fiberVars
<1>2. \A h : /\ Queued(h)' <=> Queued(h)
             /\ Carried(h)' <=> Carried(h)
             /\ Unused(h)' <=> Unused(h)
             /\ Timed(h)' <=> Timed(h) \/ h = g
  BY <1>1 DEF Queued, Carried, Carries, Unused, Timed
<1>3. TaskInv' /\ EventPlaces' /\ IOFreeInv'
  BY <1>0, <1>1, <1>2, TaskInvStays DEF EventPlaces, IOFreeInv, Carries
<1>4. StateInv'
  BY <1>0, <1>1, QuietStates DEF Busy, TasksOK, TaskOK
<1>5. TimerPlaces'
  <2>1. \A h \in Fiber : Timed(h)' => Unused(h)'
    BY <1>0, <1>1, <1>2 DEF TimerPlaces
  <2>2. \A w \in Worker : cbs'[w] \cap timers' = {}
    BY <1>0, <1>1 DEF TimerPlaces, Timed
  <2> QED BY <1>0, <1>1, <2>1, <2>2 DEF TimerPlaces
<1> QED BY <1>3, <1>4, <1>5 DEF IOPlaceInv

\* listExpiredCb(): the callbacks go from the timer set to the thread, which had
\* none.
LEMMA ListedPlace ==
    ASSUME IOInv, NEW w \in Worker, ListExpired(w)
    PROVE  IOPlaceInv' /\ \A g \in Fiber : Timed(g)' <=> Timed(g)
<1>0. VarsOK /\ TaskInv /\ StateInv /\ EventPlaces /\ TimerPlaces /\ IOFreeInv
  BY IOParts
<1>1. /\ UNCHANGED <<m_tasks, m_state, saved, task, t_fiber, aborted, evWait>>
      /\ cbs' = [cbs EXCEPT ![w] = due] /\ timers' = timers \ due /\ due \subseteq timers
      /\ pc' = [pc EXCEPT ![w] = IF due = {} THEN "handle" ELSE "cbs"] /\ pc[w] = "expire"
  BY <1>0 DEF ListExpired, At, Goto, fiberVars, VarsOK
<1>2. /\ cbs'[w] = due /\ cbs[w] = {} /\ (due # {} => pc'[w] = "cbs") /\ pc'[w] \in {"handle", "cbs"}
      /\ \A v \in Worker : v # w => cbs'[v] = cbs[v] /\ pc'[v] = pc[v]
  BY <1>0, <1>1 DEF VarsOK, TimerPlaces
<1>3. \A v \in Worker : Carries(v)' <=> Carries(v)
  BY <1>1, <1>2 DEF Carries
<1>4. \A h : (Queued(h)' <=> Queued(h)) /\ (Carried(h)' <=> Carried(h)) /\ (Unused(h)' <=> Unused(h))
  BY <1>1, <1>3 DEF Queued, Carried, Unused
<1>5. TaskInv' /\ EventPlaces' /\ IOFreeInv'
  BY <1>0, <1>1, <1>3, <1>4, TaskInvStays DEF EventPlaces, IOFreeInv
<1>6. Busy' = Busy /\ \A v \in Busy : pc'[v] = pc[v]
  BY <1>1, <1>2 DEF Busy
<1>7. StateInv'
  BY <1>0, <1>1, <1>6, QuietStates DEF TasksOK, TaskOK
<1>8. \A g \in Fiber : Timed(g)' <=> Timed(g)
  BY <1>1, <1>2 DEF Timed
<1>9. TimerPlaces'
  <2>1. \A h \in Fiber : Timed(h)' => Unused(h)'
    BY <1>0, <1>4, <1>8 DEF TimerPlaces
  <2>2. \A v \in Worker : cbs'[v] \cap timers' = {} /\ (cbs'[v] # {} => pc'[v] = "cbs")
    BY <1>0, <1>1, <1>2 DEF TimerPlaces
  <2>3. \A u, v \in Worker : \A g \in cbs'[u] \cap cbs'[v] : u = v
    BY <1>0, <1>1, <1>2 DEF TimerPlaces
  <2> QED BY <2>1, <2>2, <2>3 DEF TimerPlaces
<1> QED BY <1>5, <1>7, <1>8, <1>9 DEF IOPlaceInv

\* A thread in idle() puts a fiber into the queue that was in neither place.
LEMMA Queues ==
    ASSUME IOInv, NEW w \in Worker, NEW t \in Task, NEW x \in InIdlePC, Goto(w, x),
           m_tasks' = Append(m_tasks, t), ~Queued(t.fiber), ~Carried(t.fiber), TaskOK(t),
           UNCHANGED <<m_state, saved, task, t_fiber, aborted>>, pc[w] \in InIdlePC
    PROVE  /\ TaskInv' /\ StateInv'
           /\ \A g : Queued(g)' <=> Queued(g) \/ g = t.fiber
           /\ \A g : Carried(g)' <=> Carried(g)
           /\ pc'[w] = x /\ \A v \in Worker : v # w => pc'[v] = pc[v]
<1>0. VarsOK /\ Basics /\ CurrentInv /\ TaskInv /\ StateInv /\ m_tasks \in Seq(Task)
  BY IOParts DEF VarsOK
<1>1. pc'[w] = x /\ \A v \in Worker : v # w => pc'[v] = pc[v]
  BY <1>0 DEF Goto, VarsOK
<1>2. w \notin Busy /\ Busy' = Busy /\ \A v \in Busy : pc'[v] = pc[v]
  BY <1>1 DEF Busy, InIdlePC
<1>3. \A v \in Worker : Carries(v)' <=> Carries(v)
  BY <1>1 DEF Carries, InIdlePC
<1>4. \A g : Carried(g)' <=> Carried(g)
  BY <1>3 DEF Carried
<1>5. TaskInv'
  BY <1>0, <1>3, <1>4, TaskInvAppend
<1>6. TaskOK(t)'
  BY DEF TaskOK
<1>7. TasksOK => TasksOK'
  BY <1>0, <1>6, AppendTasksOK
<1>8. StateInv'
  BY <1>0, <1>2, <1>7, QuietStates
<1>9. \A g : Queued(g)' <=> Queued(g) \/ g = t.fiber
  BY <1>0, QueuedAfterAppend
<1> QED BY <1>1, <1>4, <1>5, <1>8, <1>9

\* schedule(cb) for an expired callback.
LEMMA CallbackPlace ==
    ASSUME IOInv, NEW w \in Worker, NEW g \in Fiber, ScheduleCb(w, g)
    PROVE  /\ IOPlaceInv' /\ Timed(g) /\ ~Timed(g)' /\ g \notin evWait
           /\ \A h : Queued(h)' <=> Queued(h) \/ h = g
           /\ \A h : h # g => (Timed(h)' <=> Timed(h))
           /\ \A h : Carried(h)' <=> Carried(h)
<1>0. VarsOK /\ TaskInv /\ StateInv /\ EventPlaces /\ TimerPlaces /\ IOFreeInv
  BY IOParts
<1>1. PICK t \in Task : t = [fiber |-> g, cb |-> TRUE, thread |-> AnyThread]
  BY DEF Task, Target
<1>2. PICK x \in {"handle", "cbs"} : x = IF cbs[w] = {g} THEN "handle" ELSE "cbs"
  OBVIOUS
<1>3. /\ pc[w] = "cbs" /\ g \in cbs[w] /\ Goto(w, x) /\ m_tasks' = Append(m_tasks, t)
      /\ t.fiber = g /\ t.cb = TRUE
      /\ UNCHANGED <<m_state, saved, task, t_fiber, aborted, evWait, timers>>
      /\ cbs'[w] = cbs[w] \ {g} /\ \A v \in Worker : v # w => cbs'[v] = cbs[v]
  BY <1>0, <1>1, <1>2 DEF ScheduleCb, At, fiberVars, VarsOK
<1>4. Timed(g) /\ Unused(g)
  BY <1>0, <1>3 DEF TimerPlaces, Timed
<1>5. ~Queued(g) /\ ~Carried(g) /\ m_state[g] = "NONE" /\ TaskOK(t) /\ g \notin evWait
  BY <1>0, <1>3, <1>4 DEF Unused, Carried, TaskOK, EventPlaces
<1>6. /\ TaskInv' /\ StateInv'
      /\ \A h : Queued(h)' <=> Queued(h) \/ h = g
      /\ \A h : Carried(h)' <=> Carried(h)
      /\ pc'[w] = x /\ \A v \in Worker : v # w => pc'[v] = pc[v]
  <2>1. x \in InIdlePC /\ pc[w] \in InIdlePC
    BY <1>3 DEF InIdlePC
  <2> QED BY <1>3, <1>5, <2>1, Queues
<1>7. EventPlaces' /\ IOFreeInv'
  BY <1>0, <1>3, <1>5, <1>6 DEF EventPlaces, IOFreeInv
<1>8. \A v \in Worker : v # w => g \notin cbs[v]
  BY <1>0, <1>3 DEF TimerPlaces
<1>9. ~Timed(g)' /\ \A h : h # g => (Timed(h)' <=> Timed(h))
  BY <1>0, <1>3, <1>8 DEF Timed, TimerPlaces
<1>10. TimerPlaces'
  <2>1. \A h \in Fiber : h # g /\ Unused(h) => Unused(h)'
    BY <1>3, <1>6 DEF Unused
  <2>2. \A h \in Fiber : Timed(h)' => Unused(h)'
    BY <1>0, <1>9, <2>1 DEF TimerPlaces
  <2>3. \A v \in Worker : cbs'[v] \cap timers' = {}
    BY <1>0, <1>3 DEF TimerPlaces
  <2>4. \A v \in Worker : cbs'[v] # {} => pc'[v] = "cbs"
    BY <1>0, <1>2, <1>3, <1>6 DEF TimerPlaces
  <2>5. \A u, v \in Worker : \A h \in cbs'[u] \cap cbs'[v] : u = v
    BY <1>0, <1>3 DEF TimerPlaces
  <2> QED BY <2>2, <2>3, <2>4, <2>5 DEF TimerPlaces
<1> QED BY <1>4, <1>5, <1>6, <1>7, <1>9, <1>10 DEF IOPlaceInv

\* triggerEvent() for a registered event.
LEMMA TriggerPlace ==
    ASSUME IOInv, NEW w \in Worker, NEW f \in Fiber, Trigger(w, f)
    PROVE  /\ IOPlaceInv' /\ f \in evWait /\ evWait' = evWait \ {f} /\ ~Timed(f)
           /\ \A h : Queued(h)' <=> Queued(h) \/ h = f
           /\ \A h : (Timed(h)' <=> Timed(h)) /\ (Carried(h)' <=> Carried(h))
<1>0. VarsOK /\ EventInv /\ TaskInv /\ StateInv /\ EventPlaces /\ TimerPlaces /\ IOFreeInv
  BY IOParts
<1>1. PICK t \in Task : t = [fiber |-> f, cb |-> FALSE, thread |-> AnyThread]
  BY DEF Task, Target
<1>3. /\ pc[w] = "handle" /\ f \in got[w] /\ f # TickleFd /\ Goto(w, "count")
      /\ m_tasks' = Append(m_tasks, t) /\ t.fiber = f /\ t.cb = FALSE
      /\ UNCHANGED <<m_state, saved, task, t_fiber, aborted, cbs, timers>>
      /\ evWait' = evWait \ {f}
  BY <1>1 DEF Trigger, At, fiberVars
<1>4. f \in evWait /\ ~Queued(f) /\ ~Carried(f) /\ m_state[f] \in {"READY", "EXEC"}
  BY <1>0, <1>3 DEF EventInv, EventPlaces
<1>5. TaskOK(t) /\ ~Timed(f)
  BY <1>0, <1>3, <1>4 DEF TaskOK, TimerPlaces, Unused
<1>6. /\ TaskInv' /\ StateInv'
      /\ \A h : Queued(h)' <=> Queued(h) \/ h = f
      /\ \A h : Carried(h)' <=> Carried(h)
      /\ pc'[w] = "count" /\ \A v \in Worker : v # w => pc'[v] = pc[v]
  <2>1. "count" \in InIdlePC /\ pc[w] \in InIdlePC
    BY <1>3 DEF InIdlePC
  <2> QED BY <1>3, <1>4, <1>5, <2>1, Queues
<1>7. EventPlaces' /\ IOFreeInv'
  BY <1>0, <1>3, <1>4, <1>6 DEF EventPlaces, IOFreeInv
<1>8. \A h : Timed(h)' <=> Timed(h)
  BY <1>3 DEF Timed
<1>9. \A h \in Fiber : Timed(h) /\ Unused(h) => Unused(h)'
  BY <1>3, <1>5, <1>6 DEF Unused
<1>10. TimerPlaces'
  BY <1>0, <1>3, <1>6, <1>9, TimersKeep
<1> QED BY <1>3, <1>4, <1>5, <1>6, <1>7, <1>8, <1>10 DEF IOPlaceInv

\* Every step keeps the fibers at their places.
LEMMA PlacesNext ==
    ASSUME IOInv, [IONext]_allVars
    PROVE  IOPlaceInv'
<1>1. CASE IOOwner \/ IOStop \/ (\E g \in Fiber : Elapse(g)) \/ UNCHANGED allVars
  BY <1>1, OwnersPlace
<1>2. CASE IOSchedules \/ \E g \in Fiber : AddTimer(g)
  BY <1>2, SchedulesPlace, AddTimerPlace
<1>3. ASSUME NEW w \in Worker, WaitForEvent(w) PROVE IOPlaceInv'
  BY <1>3, WaitsPlace
<1>4. ASSUME NEW w \in Worker, IOTakeTask(w) \/ IONoTask(w) \/ Inherited(w) PROVE IOPlaceInv'
  <2>1. CASE Inherited(w)
    BY <2>1, SwitchesPlace, BacksPlace, MovesPlace DEF Inherited
  <2> QED BY <1>4, <2>1, TakesPlace, MovesPlace
<1>5. ASSUME NEW w \in Worker, IdleStep(w) PROVE IOPlaceInv'
  <2>1. CASE \E g \in Fiber : ScheduleCb(w, g)
    BY <2>1, CallbackPlace
  <2>2. CASE \E f \in Fiber : Trigger(w, f)
    BY <2>2, TriggerPlace
  <2>3. CASE ListExpired(w)
    BY <2>3, ListedPlace
  <2> QED BY <1>5, <2>1, <2>2, <2>3, MovesPlace DEF IdleStep
<1> QED BY <1>1, <1>2, <1>3, <1>4, <1>5 DEF IONext, WorkerStep

-----------------------------------------------------------------------------
(* The pending events.                                                     *)

\* A thread enters or leaves the place between schedule() and the count-down only
\* in Trigger and CountDown.
LEMMA CountingMove ==
    ASSUME VarsOK, NEW w \in Worker, NEW x \in IOPC, Goto(w, x)
    PROVE  /\ IsFiniteSet(Counting) /\ Cardinality(Counting) \in Nat
           /\ Counting' = IF x = "count" THEN Counting \cup {w} ELSE Counting \ {w}
           /\ w \notin Counting => Cardinality(Counting \cup {w}) = Cardinality(Counting) + 1
           /\ w \in Counting => Cardinality(Counting \ {w}) = Cardinality(Counting) - 1
           /\ w \in Counting <=> pc[w] = "count"
<1>1. IsFiniteSet(Counting)
  BY WorkerAssumption, FS_Subset DEF Counting
<1>2. Counting' = IF x = "count" THEN Counting \cup {w} ELSE Counting \ {w}
  BY DEF Counting, Goto, VarsOK
<1>3. w \in Counting <=> pc[w] = "count"
  BY DEF Counting
<1> QED BY <1>1, <1>2, <1>3, CountOne

\* Nobody counts, and what the threads have got stays registered.
LEMMA EventsStay ==
    ASSUME EventInv, UNCHANGED <<evWait, m_pendingEventCount, got>>, Counting' = Counting
    PROVE  EventInv'
BY DEF EventInv

\* addEvent counts an event that was not counted.
LEMMA WaitEvents ==
    ASSUME IOInv, NEW w \in Worker, WaitForEvent(w)
    PROVE  EventInv'
<1>0. VarsOK /\ EventInv
  BY IOParts
<1>1. PICK f \in Fiber \ evWait : evWait' = evWait \cup {f}
  BY WaitsPlace
<1>2. Cardinality(evWait) \in Nat /\ Cardinality(evWait') = Cardinality(evWait) + 1 /\ IsFiniteSet(evWait')
  BY <1>0, <1>1, FS_AddElement, FS_CardinalityType DEF EventInv
<1>3. /\ pc[w] = "run" /\ Goto(w, "yield") /\ "yield" \in IOPC /\ got' = got
      /\ m_pendingEventCount' = m_pendingEventCount + 1
  BY DEF WaitForEvent, At, IOPC, WorkerPC
<1>4. Counting' = Counting /\ Cardinality(Counting) \in Nat
  BY <1>0, <1>3, CountingMove
<1>5. m_pendingEventCount' = Cardinality(evWait') + Cardinality(Counting')
  <2>1. m_pendingEventCount = Cardinality(evWait) + Cardinality(Counting)
    BY <1>0 DEF EventInv
  <2> QED BY <1>2, <1>3, <1>4, <2>1
<1>6. \A v \in Worker : \A g \in got'[v] : g # TickleFd => g \in evWait'
  BY <1>0, <1>1, <1>3 DEF EventInv
<1> QED BY <1>0, <1>2, <1>3, <1>5, <1>6 DEF EventInv

\* triggerEvent takes a registration away, which stays counted.
LEMMA TriggerEvents ==
    ASSUME IOInv, NEW w \in Worker, NEW f \in Fiber, Trigger(w, f)
    PROVE  EventInv'
<1>0. VarsOK /\ EventInv
  BY IOParts
<1>1. f \in evWait /\ evWait' = evWait \ {f}
  BY TriggerPlace
<1>2. Cardinality(evWait) \in Nat /\ Cardinality(evWait') = Cardinality(evWait) - 1 /\ IsFiniteSet(evWait')
  BY <1>0, <1>1, FS_RemoveElement, FS_CardinalityType DEF EventInv
<1>3. /\ pc[w] = "handle" /\ Goto(w, "count") /\ "count" \in IOPC
      /\ m_pendingEventCount' = m_pendingEventCount
      /\ f \in got[w] /\ f # TickleFd /\ got'[w] = got[w] \ {f}
      /\ \A v \in Worker : v # w => got'[v] = got[v]
  BY <1>0 DEF Trigger, At, IOPC, VarsOK
<1>4. Cardinality(Counting) \in Nat /\ Cardinality(Counting') = Cardinality(Counting) + 1
  BY <1>0, <1>3, CountingMove
<1>5. m_pendingEventCount' = Cardinality(evWait') + Cardinality(Counting')
  <2>1. m_pendingEventCount = Cardinality(evWait) + Cardinality(Counting)
    BY <1>0 DEF EventInv
  <2> QED BY <1>2, <1>3, <1>4, <2>1
<1>6. \A v \in Worker : v # w => f \notin got[v]
  BY <1>0, <1>3 DEF EventInv
<1>7. \A v \in Worker : \A g \in got'[v] : g # TickleFd => g \in evWait'
  BY <1>0, <1>1, <1>3, <1>6 DEF EventInv
<1>8. \A u, v \in Worker : \A g \in got'[u] \cap got'[v] : g # TickleFd => u = v
  BY <1>0, <1>3 DEF EventInv
<1> QED BY <1>2, <1>5, <1>7, <1>8 DEF EventInv

\* --m_pendingEventCount
LEMMA CountDownEvents ==
    ASSUME IOInv, NEW w \in Worker, CountDown(w)
    PROVE  EventInv'
<1>0. VarsOK /\ EventInv
  BY IOParts
<1>1. /\ pc[w] = "count" /\ Goto(w, "handle") /\ "handle" \in IOPC
      /\ m_pendingEventCount' = m_pendingEventCount - 1 /\ UNCHANGED <<evWait, got>>
  BY DEF CountDown, At, IOPC
<1>2. Cardinality(Counting) \in Nat /\ Cardinality(Counting') = Cardinality(Counting) - 1
  BY <1>0, <1>1, CountingMove
<1>3. m_pendingEventCount' = Cardinality(evWait') + Cardinality(Counting')
  <2>1. m_pendingEventCount = Cardinality(evWait) + Cardinality(Counting) /\ Cardinality(evWait) \in Nat
    BY <1>0, FS_CardinalityType DEF EventInv
  <2> QED BY <1>1, <1>2, <2>1
<1> QED BY <1>0, <1>1, <1>3 DEF EventInv

\* epoll_wait and the read of the pipe.
LEMMA GotEvents ==
    ASSUME IOInv, NEW w \in Worker, Drain(w) \/ \E E \in Events : Wake(w, E)
    PROVE  EventInv'
<1>0. VarsOK /\ EventInv
  BY IOParts
<1>1. Counting' = Counting /\ UNCHANGED <<evWait, m_pendingEventCount>>
  <2>1. CASE Drain(w)
    BY <2>1 DEF Drain, vars, Counting
  <2>2. ASSUME NEW E \in Events, Wake(w, E) PROVE Counting' = Counting /\ UNCHANGED <<evWait, m_pendingEventCount>>
    <3>1. Goto(w, "expire") /\ "expire" \in IOPC /\ pc[w] = "wait"
      BY <2>2 DEF Wake, At, IOPC
    <3> QED BY <1>0, <2>2, <3>1, CountingMove DEF Wake
  <2> QED BY <2>1, <2>2
<1>2. PICK E : /\ got' = [got EXCEPT ![w] = E]
               /\ \A f \in E : f # TickleFd => f \in evWait /\ \A v \in Worker : v # w => f \notin got[v]
  <2>1. CASE Drain(w)
    <3>1. got' = [got EXCEPT ![w] = got[w] \ {TickleFd}]
      BY <2>1 DEF Drain
    <3>2. ASSUME NEW f \in got[w] \ {TickleFd}, f # TickleFd
          PROVE  f \in evWait /\ \A v \in Worker : v # w => f \notin got[v]
      BY <1>0, <3>2 DEF EventInv
    <3> QED BY <3>1, <3>2
  <2>2. ASSUME NEW E \in Events, Wake(w, E)
        PROVE  /\ got' = [got EXCEPT ![w] = E]
               /\ \A f \in E : f # TickleFd => f \in evWait /\ \A v \in Worker : v # w => f \notin got[v]
    BY <2>2 DEF Wake
  <2> QED BY <2>1, <2>2
<1>3. got'[w] = E /\ \A v \in Worker : v # w => got'[v] = got[v]
  BY <1>0, <1>2 DEF VarsOK
<1>4. \A v \in Worker : \A g \in got'[v] : g # TickleFd => g \in evWait'
  BY <1>0, <1>1, <1>2, <1>3 DEF EventInv
<1>5. \A u, v \in Worker : \A g \in got'[u] \cap got'[v] : g # TickleFd => u = v
  BY <1>0, <1>2, <1>3 DEF EventInv
<1> QED BY <1>0, <1>1, <1>4, <1>5 DEF EventInv

\* Every step keeps the events.
LEMMA EventsNext ==
    ASSUME IOInv, [IONext]_allVars
    PROVE  EventInv'
<1>0. VarsOK /\ EventInv /\ OwnerInv
  BY IOParts
<1> USE DEF fiberVars, countVars, ioVars, vars, allVars
<1>1. ASSUME NEW w \in Worker, WorkerStep(w),
             ~(\E f \in Fiber : Trigger(w, f)), ~CountDown(w), ~Drain(w), ~(\E E \in Events : Wake(w, E))
      PROVE  EventInv'
  <2> USE <1>1 DEF WorkerStep, IdleStep, Inherited, IOTakeTask, IONoTask, TakeTask, NoTask, SwapIn,
            Back, EnterIdle, LeaveIdle, YieldToReady, SaveContext, Finish, IdleTimer, IdlePending,
            IdleStopping, WakeByTimeout, ListExpired, ScheduleCb, IdleYield
  <2>1. UNCHANGED <<evWait, m_pendingEventCount, got>>
    OBVIOUS
  <2>2. PICK x \in IOPC \ {"count"} : Goto(w, x)
    BY DEF IOPC, WorkerPC
  <2>3. pc[w] # "count"
    BY DEF At
  <2>4. Counting' = Counting
    BY <1>0, <2>2, <2>3 DEF Counting, Goto, VarsOK
  <2> QED BY <1>0, <2>1, <2>4, EventsStay
<1>2. ASSUME NEW w \in Worker, WorkerStep(w) \/ WaitForEvent(w) PROVE EventInv'
  BY <1>1, <1>2, WaitEvents, TriggerEvents, CountDownEvents, GotEvents
<1>3. CASE IOOwner \/ IOStop
  <2>1. UNCHANGED <<evWait, m_pendingEventCount, got>>
    BY <1>3 DEF IOOwner, IOStop, IOStopAgain
  <2>2. CASE Start
    <3>1. \A w \in Worker : pc[w] = "off" /\ pc'[w] \in {"off", "scan"}
      BY <1>0, <2>2 DEF Start, OwnerAt, OwnerInv
    <3> QED BY <1>0, <2>1, <3>1, EventsStay DEF Counting
  <2>3. CASE Stop
    <3>1. UseCaller => pc[Root] = "off"
      BY <1>0, <2>3 DEF Stop, OwnerAt, OwnerInv
    <3>2. Counting' = Counting
      BY <1>0, <2>3, <3>1, WorkerAssumption DEF Stop, Goto, VarsOK, Counting
    <3> QED BY <1>0, <2>1, <3>2, EventsStay
  <2>4. CASE Join \/ IOStopAgain
    BY <1>0, <2>1, <2>4, EventsStay DEF Join, IOStopAgain, Counting
  <2> QED BY <1>3, <2>2, <2>3, <2>4 DEF IOOwner, IOStop
<1>4. CASE IOSchedules \/ (\E g \in Fiber : AddTimer(g) \/ Elapse(g)) \/ UNCHANGED allVars
  <2>1. UNCHANGED <<evWait, m_pendingEventCount, got, pc>>
    BY <1>4 DEF IOSchedules, OwnerSchedules, FiberSchedules, AddTimer, Elapse
  <2> QED BY <1>0, <2>1, EventsStay DEF Counting
<1> QED BY <1>2, <1>3, <1>4 DEF IONext

-----------------------------------------------------------------------------
(* The theorems.                                                           *)

\* The invariant holds when the IOManager has been constructed.
LEMMA IOInitInv == IOInit => IOInv
<1> SUFFICES ASSUME IOInit PROVE IOInv
  OBVIOUS
<1> USE WorkerAssumption, FiberAssumption DEF IOInit, Init
<1>1. VarsOK
  <2>1. m_tasks \in Seq(Task)
    BY EmptySeq
  <2> QED BY <2>1 DEF VarsOK, FiberState, IOPC, WorkerPC, Events
<1>2. /\ Busy = {} /\ InIdle = {} /\ Counting = {}
      /\ Cardinality({}) = 0 /\ IsFiniteSet({})
  BY FS_EmptySet DEF Busy, InIdle, InIdlePC, Counting
<1>3. ThreadInv
  BY <1>2 DEF ThreadInv, ThreadCounters, CurrentInv, OwnerInv, Busy
<1>4. EventInv
  BY <1>2 DEF EventInv
<1>5. \A f : ~Queued(f) /\ ~Carried(f) /\ ~Timed(f)
  BY DEF Queued, Carried, Carries, Timed
<1>6. TaskInv
  BY <1>5 DEF TaskInv, QueuedOnce, Carries
<1>7. StateInv
  <2>1. HandsOK
    BY DEF HandsOK, HandOK, StateOK, TasksOK, Executes
  <2> QED BY <2>1 DEF StateInv, AssertionBlamed, OneThreadPerFiber
<1>8. EventPlaces /\ TimerPlaces /\ IOFreeInv
  BY <1>5 DEF EventPlaces, TimerPlaces, IOFreeInv
<1> QED BY <1>1, <1>3, <1>4, <1>6, <1>7, <1>8 DEF IOInv, IOPlaceInv

\* Every step keeps the invariant.
LEMMA IONextInv == IOInv /\ [IONext]_allVars => IOInv'
<1> SUFFICES ASSUME IOInv, [IONext]_allVars PROVE IOInv'
  OBVIOUS
<1>0. VarsOK /\ ThreadInv
  BY IOParts
<1>1. VarsOK' /\ ThreadInv'
  <2>1. CASE IONext
    <3>1. VarsOK'
      BY <2>1, RunTypes, IdleTypes, OtherTypes DEF IONext, WorkerStep
    <3>2. ThreadInv'
      BY <1>0, <2>1, WorkerThreads, OtherThreadsKeep DEF IONext
    <3> QED BY <3>1, <3>2
  <2>2. CASE UNCHANGED allVars
    <3> USE <2>2 DEF allVars, vars, ioVars, fiberVars, countVars
    <3>1. VarsOK'
      BY <1>0 DEF VarsOK
    <3>2. ThreadInv'
      BY <1>0 DEF ThreadInv, ThreadCounters, CurrentInv, OwnerInv, Busy, InIdle
    <3> QED BY <3>1, <3>2
  <2> QED BY <2>1, <2>2
<1> QED BY <1>1, PlacesNext, EventsNext DEF IOInv

\* The invariant holds in every state.
THEOREM IOInvHolds == IOSpec => []IOInv
BY IOInitInv, IONextInv, PTL DEF IOSpec

\* Every variable keeps its type, and m_activeThreadCount, m_idleThreadCount and
\* m_pendingEventCount are exact in every state: for any number of threads and
\* fibers, even if an event fires while its fiber is still running.
THEOREM IOStateOKHolds == IOSpec => []IOStateOK
<1>1. IOInv => IOStateOK
  <2> SUFFICES ASSUME IOInv PROVE IOStateOK
    OBVIOUS
  <2>1. VarsOK /\ ThreadInv /\ EventInv
    BY IOParts
  <2>2. m_activeThreadCount \in Nat /\ m_idleThreadCount \in Nat
    BY <2>1, CountersNat DEF ThreadInv
  <2>3. IsFiniteSet(Counting)
    BY WorkerAssumption, FS_Subset DEF Counting
  <2>4. m_pendingEventCount \in Nat
    BY <2>1, <2>3, FS_CardinalityType DEF EventInv
  <2>5. IOTypeOK
    BY <2>1, <2>2, <2>4 DEF IOTypeOK, VarsOK
  <2>6. IOCountersExact
    BY <2>1 DEF IOCountersExact, ThreadInv, ThreadCounters, InIdle, EventInv, Counting
  <2> QED BY <2>5, <2>6 DEF IOStateOK
<1> QED BY <1>1, IOInvHolds, PTL

\* In the threads of an IOManager only scheduler.cc:112 can fail, and only for a
\* fiber whose event fires after addEvent() and before its yield, and which
\* another thread takes in between; fiber.cc:110 never fails.
THEOREM IOAssertionBlamedHolds == IOSpec => []AssertionBlamed
<1>1. IOInv => AssertionBlamed
  BY DEF IOInv, IOPlaceInv, StateInv
<1> QED BY <1>1, IOInvHolds, PTL

\* No two threads of an IOManager execute the same fiber, and GetThis() names the
\* right one, although its event may queue a fiber while it executes.
THEOREM IOOneThreadPerFiberHolds == IOSpec => []OneThreadPerFiber
<1>1. IOInv => OneThreadPerFiber
  BY DEF IOInv, IOPlaceInv, StateInv
<1> QED BY <1>1, IOInvHolds, PTL

-----------------------------------------------------------------------------
(* The jobs move as TaskPool says.                                         *)

Waits(f) == f \in evWait \/ Timed(f)

\* The phase of a fiber by where it is.
IOPhaseByPlace ==
    \A f \in Fiber :
        /\ IOPhaseOf(f) = "queued" <=> Queued(f)
        /\ IOPhaseOf(f) = "parked" <=> ~Queued(f) /\ Waits(f)
        /\ IOPhaseOf(f) = "done" <=> ~Queued(f) /\ ~Waits(f) /\ m_state[f] = "TERM"
        /\ IOPhaseOf(f) = "running" <=> ~Queued(f) /\ ~Waits(f) /\ m_state[f] # "TERM" /\ Held(f)
        /\ IOPhaseOf(f) = "new" <=> ~Queued(f) /\ ~Waits(f) /\ m_state[f] # "TERM" /\ ~Held(f)
        /\ IOPhaseOf(f) \in {"queued", "parked", "done", "running", "new"}

\* The phases are exhaustive and exclude each other.
LEMMA IOPhaseValue == CurrentInv => IOPhaseByPlace
<1> SUFFICES ASSUME CurrentInv, NEW f \in Fiber PROVE IOPhaseByPlace!(f)
  BY DEF IOPhaseByPlace
<1>1. Held(f) <=> \E w \in Worker : task[w] = f
  BY FiberAssumption DEF Held, Busy, CurrentInv
<1>2. CASE Waits(f) /\ ~Queued(f)
  BY <1>2 DEF IOPhaseOf, Waits
<1>3. CASE ~(Waits(f) /\ ~Queued(f))
  <2>1. IOPhaseOf(f) = PhaseOf(f)
    BY <1>3 DEF IOPhaseOf, Waits
  <2> QED BY <1>1, <1>3, <2>1 DEF PhaseOf
<1> QED BY <1>2, <1>3

\* The same after a step.
LEMMA IOPhaseValueNext == CurrentInv' => IOPhaseByPlace'
BY IOPhaseValue, PTL

\* Whether fiber g stays where it is.
Stays(g) ==
    /\ Queued(g)' <=> Queued(g)
    /\ Waits(g)' <=> Waits(g)
    /\ m_state'[g] = "TERM" <=> m_state[g] = "TERM"
    /\ Queued(g) \/ Waits(g) \/ m_state[g] = "TERM" \/ (Held(g)' <=> Held(g))

\* A fiber that stays where it is keeps its phase.
LEMMA PhaseStays ==
    ASSUME CurrentInv, CurrentInv', NEW g \in Fiber, Stays(g)
    PROVE  IOPhaseOf(g)' = IOPhaseOf(g)
BY IOPhaseValue, IOPhaseValueNext DEF IOPhaseByPlace, Stays

\* A step in which one fiber goes from one phase to another and the others stay
\* where they are is a step of the pool.
LEMMA IOOneMoves ==
    ASSUME CurrentInv, CurrentInv', NEW f \in Fiber, NEW from, NEW to,
           IOPhaseOf(f) = from, IOPhaseOf(f)' = to,
           \A g \in Fiber : g # f => Stays(g),
           owner # "stopped", owner' = owner
    PROVE  IOPool!Move(f, from, to)
<1>1. \A g \in Fiber : g # f => IOPhaseOf(g)' = IOPhaseOf(g)
  BY PhaseStays
<1>2. /\ IOPhases' = [IOPhases EXCEPT ![f] = to]
      /\ IOPhases[f] = from
  BY <1>1 DEF IOPhases
<1> QED BY <1>2 DEF IOPool!Move

\* A step in which every fiber stays where it is does not show in the pool.
LEMMA IONoneMoves ==
    ASSUME CurrentInv, CurrentInv', \A g \in Fiber : Stays(g)
    PROVE  IOPhases' = IOPhases
<1>1. \A g \in Fiber : IOPhaseOf(g)' = IOPhaseOf(g)
  BY PhaseStays
<1> QED BY <1>1 DEF IOPhases

\* schedule() submits a job.
LEMMA IOSubmitStep ==
    ASSUME IOInv, CurrentInv', NEW f \in Fiber, NEW cb \in BOOLEAN, NEW thread \in Target, ~Timed(f),
           Schedule(f, cb, thread), UNCHANGED <<pc, task, evWait, timers, cbs, owner>>, owner # "stopped"
    PROVE  IOPool!Submit(f)
<1>0. VarsOK /\ EventPlaces /\ CurrentInv
  BY IOParts
<1> DEFINE t == [fiber |-> f, cb |-> cb, thread |-> thread]
<1>1. t \in Task /\ t.fiber = f /\ m_tasks \in Seq(Task) /\ m_tasks' = Append(m_tasks, t)
  BY <1>0 DEF Task, VarsOK, Schedule
<1>2. \A g : Queued(g)' <=> Queued(g) \/ g = f
  BY <1>1, QueuedAfterAppend
<1>3. /\ \A g : (Held(g)' <=> Held(g)) /\ (Waits(g)' <=> Waits(g))
      /\ ~Held(f) /\ ~Queued(f) /\ m_state[f] = "NONE"
      /\ \A g \in Fiber : g # f => m_state'[g] = m_state[g]
  BY <1>0 DEF Held, Busy, Waits, Timed, Schedule, Unused, VarsOK
<1>4. ~Waits(f)
  BY <1>0, <1>3 DEF Waits, EventPlaces
<1>5. \A g \in Fiber : g # f => Stays(g)
  BY <1>2, <1>3 DEF Stays
<1>6. IOPhaseOf(f) = "new" /\ IOPhaseOf(f)' = "queued"
  BY <1>0, <1>2, <1>3, <1>4, IOPhaseValue, IOPhaseValueNext DEF IOPhaseByPlace
<1> QED BY <1>0, <1>5, <1>6, IOOneMoves DEF IOPool!Submit

\* addTimer() hands over a job for later.
LEMMA IODelayStep ==
    ASSUME IOInv, CurrentInv', NEW f \in Fiber, AddTimer(f), owner # "stopped"
    PROVE  IOPool!Delay(f)
<1>0. EventPlaces /\ CurrentInv
  BY IOParts
<1>1. /\ UNCHANGED <<m_tasks, m_state, task, pc, evWait, cbs, owner>> /\ timers' = timers \cup {f}
      /\ ~Timed(f) /\ m_state[f] = "NONE" /\ ~Queued(f) /\ \A w \in Worker : task[w] # f
  BY DEF AddTimer, Unused, vars, fiberVars
<1>2. \A g : (Queued(g)' <=> Queued(g)) /\ (Held(g)' <=> Held(g)) /\ (Waits(g)' <=> Waits(g) \/ g = f)
  BY <1>1 DEF Queued, Held, Busy, Waits, Timed
<1>3. \A g \in Fiber : g # f => Stays(g)
  BY <1>1, <1>2 DEF Stays
<1>4. ~Held(f) /\ ~Waits(f)
  BY <1>0, <1>1 DEF Held, Busy, Waits, EventPlaces
<1>5. IOPhaseOf(f) = "new" /\ IOPhaseOf(f)' = "parked"
  BY <1>0, <1>1, <1>2, <1>4, IOPhaseValue, IOPhaseValueNext DEF IOPhaseByPlace
<1> QED BY <1>0, <1>1, <1>3, <1>5, IOOneMoves DEF IOPool!Delay

\* A thread that takes a task begins a job that was queued.
LEMMA IOBeginStep ==
    ASSUME IOInv, CurrentInv', NEW w \in Worker, IOTakeTask(w), owner # "stopped"
    PROVE  \E f \in Fiber : IOPool!Begin(f)
<1>0. /\ VarsOK /\ Basics /\ TaskInv /\ StateInv /\ EventPlaces /\ TimerPlaces /\ CurrentInv
      /\ TakeTask(w) /\ UNCHANGED <<evWait, timers, cbs, owner>> /\ pc[w] = "scan" /\ aborted = "no"
  BY IOParts DEF IOTakeTask, TakeTask, At
<1>1. PICK f \in Fiber :
              /\ Queued(f) /\ task'[w] = f
              /\ \A v \in Worker : v # w => pc'[v] = pc[v] /\ task'[v] = task[v]
              /\ \E i \in DOMAIN m_tasks : m_tasks[i].fiber = f
              /\ \A g : Queued(g)' <=> Queued(g) /\ g # f
              /\ m_state' = m_state
  BY <1>0, TakeTokens
<1>2. pc'[w] = "switch"
  BY <1>0 DEF TakeTask, Goto, VarsOK
<1>3. Busy' = Busy \cup {w} /\ w \notin Busy
  BY <1>0, <1>1, <1>2 DEF Busy
<1>4. \A g : Held(g)' <=> Held(g) \/ g = f
  BY <1>1, <1>3 DEF Held, Busy
<1>5. \A g : Waits(g)' <=> Waits(g)
  BY <1>0 DEF Waits, Timed
<1>6. m_state[f] # "TERM" /\ ~Waits(f)
  <2>1. HandsOK
    BY <1>0 DEF StateInv
  <2>2. m_state[f] # "TERM"
    BY <1>1, <2>1 DEF HandsOK, TasksOK, TaskOK
  <2>3. ~Waits(f)
    BY <1>0, <1>1 DEF Waits, EventPlaces, TimerPlaces, Unused
  <2> QED BY <2>2, <2>3
<1>7. \A g \in Fiber : g # f => Stays(g)
  BY <1>1, <1>4, <1>5 DEF Stays
<1>8. IOPhaseOf(f) = "queued" /\ IOPhaseOf(f)' = "running"
  BY <1>0, <1>1, <1>4, <1>5, <1>6, IOPhaseValue, IOPhaseValueNext DEF IOPhaseByPlace
<1>9. IOPool!Begin(f)
  BY <1>0, <1>7, <1>8, IOOneMoves DEF IOPool!Begin
<1> QED BY <1>9

\* addEvent() parks the job that runs, the callback's return ends it.
LEMMA IOLeaveStep ==
    ASSUME IOInv, CurrentInv', NEW w \in Worker,
           WaitForEvent(w) \/ (Finish(w) /\ UNCHANGED ioVars), owner # "stopped"
    PROVE  \E f \in Fiber : IOPool!Park(f) \/ IOPool!End(f)
<1>0. VarsOK /\ TaskInv /\ StateInv /\ EventPlaces /\ TimerPlaces /\ CurrentInv
  BY IOParts
<1>1. pc[w] = "run" /\ UNCHANGED <<m_tasks, task, owner, timers, cbs>>
  BY DEF WaitForEvent, Finish, At, ioVars
<1>2. PICK f \in Fiber : f = task[w] /\ t_fiber[w] = f
  BY <1>0, <1>1, RunningFiber
<1>3. PICK x \in {"yield", "back"} : pc' = [pc EXCEPT ![w] = x]
  BY DEF WaitForEvent, Finish, Goto
<1>4. Busy' = Busy /\ w \in Busy
  BY <1>0, <1>1, <1>3 DEF Busy, VarsOK
<1>5. \A g : (Held(g)' <=> Held(g)) /\ (Queued(g)' <=> Queued(g)) /\ (Timed(g)' <=> Timed(g))
  BY <1>1, <1>4 DEF Held, Queued, Timed
<1>6. Held(f) /\ Carried(f) /\ m_state[f] = "EXEC"
  BY <1>0, <1>1, <1>2, <1>4 DEF Held, Carried, Carries, StateInv, OneThreadPerFiber
<1>7. ~Queued(f) /\ ~Waits(f)
  BY <1>0, <1>6 DEF TaskInv, Waits, EventPlaces, TimerPlaces, Unused
<1>8. IOPhaseOf(f) = "running"
  BY <1>0, <1>6, <1>7, IOPhaseValue DEF IOPhaseByPlace
<1>9. CASE WaitForEvent(w)
  <2>1. evWait' = evWait \cup {f} /\ m_state' = m_state
    BY <1>2, <1>9 DEF WaitForEvent
  <2>2. \A g : Waits(g)' <=> Waits(g) \/ g = f
    BY <1>5, <2>1 DEF Waits
  <2>3. \A g \in Fiber : g # f => Stays(g)
    BY <1>5, <2>1, <2>2 DEF Stays
  <2>4. IOPhaseOf(f)' = "parked"
    BY <1>5, <1>7, <2>2, IOPhaseValueNext DEF IOPhaseByPlace
  <2>5. IOPool!Park(f)
    BY <1>0, <1>1, <1>8, <2>3, <2>4, IOOneMoves DEF IOPool!Park
  <2> QED BY <2>5
<1>10. CASE Finish(w) /\ UNCHANGED ioVars
  <2>1. evWait' = evWait /\ m_state' = [m_state EXCEPT ![f] = "TERM"]
    BY <1>2, <1>10 DEF Finish, ioVars
  <2>2. m_state'[f] = "TERM" /\ \A g \in Fiber : g # f => m_state'[g] = m_state[g]
    BY <1>0, <2>1 DEF VarsOK
  <2>3. \A g : Waits(g)' <=> Waits(g)
    BY <1>5, <2>1 DEF Waits
  <2>4. \A g \in Fiber : g # f => Stays(g)
    BY <1>5, <2>2, <2>3 DEF Stays
  <2>5. IOPhaseOf(f)' = "done"
    BY <1>5, <1>7, <2>2, <2>3, IOPhaseValueNext DEF IOPhaseByPlace
  <2>6. IOPool!End(f)
    BY <1>0, <1>1, <1>8, <2>4, <2>5, IOOneMoves DEF IOPool!End
  <2> QED BY <2>6
<1> QED BY <1>9, <1>10

\* schedule() of an expired callback, or of the fiber of an event, queues a job
\* that waited.
LEMMA IOUnparkStep ==
    ASSUME IOInv, CurrentInv', NEW w \in Worker, NEW f \in Fiber,
           ScheduleCb(w, f) \/ Trigger(w, f), owner # "stopped"
    PROVE  IOPool!Unpark(f)
<1>0. VarsOK /\ TaskInv /\ EventPlaces /\ TimerPlaces /\ CurrentInv
  BY IOParts
<1>1. UNCHANGED <<m_state, task, owner>> /\ pc[w] \in {"cbs", "handle"}
  BY DEF ScheduleCb, Trigger, At, fiberVars
<1>2. PICK x \in {"handle", "cbs", "count"} : pc' = [pc EXCEPT ![w] = x]
  BY DEF ScheduleCb, Trigger, Goto
<1>3. Busy' = Busy
  BY <1>0, <1>1, <1>2 DEF Busy, VarsOK
<1>4. \A g : Held(g)' <=> Held(g)
  BY <1>1, <1>3 DEF Held
<1>5. /\ \A h : Queued(h)' <=> Queued(h) \/ h = f
      /\ Waits(f) /\ \A h : h # f => (Waits(h)' <=> Waits(h))
  <2>1. CASE ScheduleCb(w, f)
    <3>1. evWait' = evWait
      BY <2>1 DEF ScheduleCb
    <3> QED BY <2>1, <3>1, CallbackPlace DEF Waits
  <2>2. CASE Trigger(w, f)
    BY <2>2, TriggerPlace DEF Waits
  <2> QED BY <2>1, <2>2
<1>6. ~Queued(f)
  BY <1>0, <1>5 DEF Waits, EventPlaces, TimerPlaces, Unused
<1>7. \A g \in Fiber : g # f => Stays(g)
  BY <1>1, <1>4, <1>5 DEF Stays
<1>8. IOPhaseOf(f) = "parked" /\ IOPhaseOf(f)' = "queued"
  BY <1>0, <1>5, <1>6, IOPhaseValue, IOPhaseValueNext DEF IOPhaseByPlace
<1> QED BY <1>0, <1>1, <1>7, <1>8, IOOneMoves DEF IOPool!Unpark

\* run() lets go of a fiber: if it has not ended, it is queued, waits, or another
\* thread carries it.
LEMMA IOBackStep ==
    ASSUME IOInv, CurrentInv', NEW w \in Worker, Back(w), UNCHANGED ioVars
    PROVE  owner' = owner /\ IOPhases' = IOPhases
<1>0. VarsOK /\ StateInv /\ IOFreeInv /\ CurrentInv
  BY IOParts
<1>1. /\ w \in Busy /\ UNCHANGED <<m_tasks, m_state, owner, evWait, timers, cbs>>
      /\ task' = [task EXCEPT ![w] = None] /\ Busy' = Busy \ {w} /\ pc[w] = "back" /\ aborted = "no"
  BY <1>0 DEF Back, At, Goto, Busy, VarsOK, fiberVars, ioVars
<1>2. PICK f \in Fiber : f = task[w]
  BY <1>0, <1>1 DEF CurrentInv
<1>3. m_state[f] # "NONE"
  BY <1>0, <1>1, <1>2 DEF StateInv, HandsOK, HandOK
<1>4. Queued(f) \/ Waits(f) \/ m_state[f] = "TERM" \/ Carried(f)
  BY <1>0, <1>3 DEF IOFreeInv, VarsOK, FiberState, Waits
<1>5. \A v \in Worker : v # w => task'[v] = task[v]
  BY <1>0, <1>1 DEF VarsOK
<1>6. Carried(f) => Held(f)' /\ Held(f)
  <2> SUFFICES ASSUME NEW v \in Worker, Carries(v), task[v] = f PROVE Held(f)' /\ Held(f)
    BY DEF Carried
  <2>1. v # w /\ v \in Busy /\ v \in Busy'
    BY <1>1 DEF Carries, Busy
  <2> QED BY <1>5, <2>1 DEF Held, Busy
<1>7. \A g : g # f => (Held(g)' <=> Held(g))
  BY <1>1, <1>2, <1>5 DEF Held, Busy
<1>8. \A g : (Queued(g)' <=> Queued(g)) /\ (Waits(g)' <=> Waits(g))
  BY <1>1 DEF Queued, Waits, Timed
<1>9. \A g \in Fiber : Stays(g)
  BY <1>1, <1>4, <1>6, <1>7, <1>8 DEF Stays
<1> QED BY <1>0, <1>1, <1>9, IONoneMoves

\* The other steps of a thread put no fiber at another place.
LEMMA IOInternalStep ==
    ASSUME IOInv, CurrentInv', NEW w \in Worker,
           \/ IONoTask(w)
           \/ UNCHANGED ioVars /\ (\/ SwapIn(w) \/ EnterIdle(w) \/ LeaveIdle(w)
                                   \/ YieldToReady(w) \/ SaveContext(w))
           \/ IdleTimer(w) \/ IdlePending(w) \/ IdleStopping(w)
           \/ WakeByTimeout(w) \/ (\E E \in Events : Wake(w, E))
           \/ ListExpired(w) \/ Drain(w) \/ CountDown(w) \/ IdleYield(w)
    PROVE  owner' = owner /\ IOPhases' = IOPhases
<1>0. VarsOK /\ StateInv /\ CurrentInv
  BY IOParts
<1> USE DEF fiberVars, countVars, ioVars, vars
<1>1. UNCHANGED <<m_tasks, task, evWait, owner>>
  BY DEF IONoTask, NoTask, SwapIn, EnterIdle, LeaveIdle, YieldToReady, SaveContext, IdleTimer,
         IdlePending, IdleStopping, WakeByTimeout, Wake, ListExpired, Drain, CountDown, IdleYield
<1>2. \A g \in Fiber : Waits(g)' <=> Waits(g)
  <2>1. CASE ListExpired(w)
    BY <1>1, <2>1, ListedPlace DEF Waits
  <2>2. CASE ~ListExpired(w)
    <3>1. UNCHANGED <<timers, cbs>>
      BY <2>2 DEF IONoTask, IdleTimer, IdlePending, IdleStopping, WakeByTimeout, Wake, Drain,
                  CountDown, IdleYield
    <3> QED BY <1>1, <3>1 DEF Waits, Timed
  <2> QED BY <2>1, <2>2
<1>3. Busy' = Busy
  <2>1. CASE Drain(w)
    BY <2>1 DEF Drain, Busy
  <2>2. CASE UNCHANGED ioVars /\ (SwapIn(w) \/ YieldToReady(w) \/ SaveContext(w))
    BY <1>0, <2>2 DEF SwapIn, YieldToReady, SaveContext, At, Goto, Busy, VarsOK
  <2>3. CASE ~Drain(w) /\ ~(UNCHANGED ioVars /\ (SwapIn(w) \/ YieldToReady(w) \/ SaveContext(w)))
    <3> USE <2>3 DEF IONoTask, NoTask, EnterIdle, LeaveIdle, IdleTimer, IdlePending, IdleStopping,
              WakeByTimeout, Wake, ListExpired, CountDown, IdleYield
    <3>1. PICK x \in IOPC \ BusyPC : pc' = [pc EXCEPT ![w] = x]
      BY DEF Goto, IOPC, WorkerPC, BusyPC
    <3>2. pc[w] \notin BusyPC
      BY DEF At, BusyPC
    <3> QED BY <1>0, <3>1, <3>2 DEF Busy, BusyPC, VarsOK
  <2> QED BY <2>1, <2>2, <2>3
<1>4. \A g : (Held(g)' <=> Held(g)) /\ (Queued(g)' <=> Queued(g))
  BY <1>1, <1>3 DEF Held, Queued
<1>5. \A g \in Fiber : m_state'[g] = "TERM" <=> m_state[g] = "TERM"
  <2>1. CASE SwapIn(w) \/ YieldToReady(w)
    <3>1. pc[w] \in {"switch", "yield"} /\ aborted = "no"
      BY <2>1 DEF SwapIn, YieldToReady, At
    <3>2. PICK f \in Fiber : f = task[w] /\ (pc[w] = "yield" => t_fiber[w] = f)
      BY <1>0, <3>1, RunningFiber
    <3>3. m_state[f] # "TERM"
      BY <1>0, <3>1, <3>2 DEF StateInv, HandsOK, HandOK, Executes
    <3>4. PICK x \in {"EXEC", "READY"} : m_state' = [m_state EXCEPT ![f] = x]
      BY <2>1, <3>2 DEF SwapIn, YieldToReady, At
    <3> QED BY <1>0, <3>3, <3>4 DEF VarsOK
  <2>2. CASE ~(SwapIn(w) \/ YieldToReady(w))
    <3>1. m_state' = m_state
      BY <2>2 DEF IONoTask, NoTask, EnterIdle, LeaveIdle, SaveContext, IdleTimer, IdlePending,
            IdleStopping, WakeByTimeout, Wake, ListExpired, Drain, CountDown, IdleYield
    <3> QED BY <3>1
  <2> QED BY <2>1, <2>2
<1>6. \A g \in Fiber : Stays(g)
  BY <1>2, <1>4, <1>5 DEF Stays
<1> QED BY <1>0, <1>1, <1>6, IONoneMoves

\* The steps of the owner and of the clock put no fiber at another place.
LEMMA IOOuterStep ==
    ASSUME IOInv, CurrentInv',
           IOOwner \/ IOStop \/ (\E g \in Fiber : Elapse(g)) \/ UNCHANGED allVars
    PROVE  IOPhases' = IOPhases /\ (owner' = "stopped" \/ (owner' # "stopped" /\ owner # "stopped"))
<1>0. VarsOK /\ OwnerInv /\ CurrentInv
  BY IOParts
<1> USE DEF fiberVars, countVars, ioVars, vars, allVars
<1>1. UNCHANGED <<m_tasks, m_state, task, evWait, timers, cbs>>
  BY DEF IOOwner, IOStop, Start, Stop, Join, IOStopAgain, Elapse
<1>2. Busy' = Busy
  <2>1. CASE Start
    BY <1>0, <2>1 DEF Start, OwnerAt, OwnerInv, Busy
  <2>2. CASE Stop
    <3>1. UseCaller => pc[Root] = "off"
      BY <1>0, <2>2 DEF Stop, OwnerAt, OwnerInv
    <3> QED BY <1>0, <2>2, <3>1, WorkerAssumption DEF Stop, Goto, VarsOK, Busy
  <2>3. CASE Join \/ IOStopAgain \/ (\E g \in Fiber : Elapse(g)) \/ UNCHANGED allVars
    BY <2>3 DEF Join, IOStopAgain, Elapse, Busy
  <2> QED BY <2>1, <2>2, <2>3 DEF IOOwner, IOStop
<1>3. \A g \in Fiber : Stays(g)
  BY <1>1, <1>2 DEF Stays, Queued, Held, Waits, Timed
<1>4. owner' = "stopped" \/ (owner' # "stopped" /\ owner # "stopped")
  BY DEF IOOwner, IOStop, Start, Stop, Join, IOStopAgain, Elapse, OwnerAt
<1> QED BY <1>0, <1>3, <1>4, IONoneMoves

\* Every step of the IOManager is a step of the pool, or shows only in stop().
LEMMA IOStepRefines ==
    ASSUME IOInv, CurrentInv', [IONext]_allVars
    PROVE  [IOPool!PoolNext \/ (owner' = "stopped" /\ UNCHANGED IOPhases)]_(IOPool!poolVars)
<1>0. OwnerInv
  BY IOParts
<1> DEFINE Goal == [IOPool!PoolNext \/ (owner' = "stopped" /\ UNCHANGED IOPhases)]_(IOPool!poolVars)
<1>1. IOPhases' = IOPhases /\ (owner' = owner \/ owner' = "stopped"
                               \/ (owner' # "stopped" /\ owner # "stopped")) => Goal
  BY DEF IOPool!poolVars
<1>2. IOPool!PoolNext => Goal
  OBVIOUS
<1> HIDE DEF Goal
<1> SUFFICES Goal
  BY DEF Goal
<1>3. CASE IOOwner \/ IOStop \/ (\E g \in Fiber : Elapse(g)) \/ UNCHANGED allVars
  BY <1>1, <1>3, IOOuterStep
<1>4. CASE IOSchedules
  <2>1. PICK f \in Fiber, cb \in BOOLEAN, thread \in Pins \cup {AnyThread} :
             /\ ~Timed(f) /\ Schedule(f, cb, thread) /\ UNCHANGED <<pc, task, owner>>
             /\ owner # "stopped"
    <3>1. \A w \in Worker : pc[w] = "run" => owner # "stopped"
      BY <1>0 DEF OwnerInv
    <3> QED BY <1>4, <3>1 DEF IOSchedules, OwnerSchedules, FiberSchedules, OwnerAt, At
  <2>2. thread \in Target /\ UNCHANGED <<evWait, timers, cbs>>
    BY <1>4, PinAssumption DEF Target, IOSchedules
  <2>3. IOPool!Submit(f)
    BY <2>1, <2>2, IOSubmitStep
  <2> QED BY <1>2, <2>3 DEF IOPool!PoolNext
<1>5. ASSUME NEW g \in Fiber, AddTimer(g) PROVE Goal
  <2>1. owner # "stopped"
    BY <1>0, <1>5 DEF AddTimer, OwnerAt, At, OwnerInv
  <2>2. IOPool!Delay(g)
    BY <1>5, <2>1, IODelayStep
  <2> QED BY <1>2, <2>2 DEF IOPool!PoolNext
<1>6. ASSUME NEW w \in Worker, WorkerStep(w) \/ WaitForEvent(w) PROVE Goal
  <2>1. CASE IOTakeTask(w)
    <3>1. owner # "stopped"
      BY <1>0, <2>1 DEF IOTakeTask, TakeTask, At, OwnerInv
    <3>2. \E f \in Fiber : IOPool!Begin(f)
      BY <2>1, <3>1, IOBeginStep
    <3> QED BY <1>2, <3>2 DEF IOPool!PoolNext
  <2>2. CASE WaitForEvent(w) \/ (Finish(w) /\ UNCHANGED ioVars)
    <3>1. owner # "stopped"
      BY <1>0, <2>2 DEF WaitForEvent, Finish, At, OwnerInv
    <3>2. \E f \in Fiber : IOPool!Park(f) \/ IOPool!End(f)
      BY <2>2, <3>1, IOLeaveStep
    <3> QED BY <1>2, <3>2 DEF IOPool!PoolNext
  <2>3. ASSUME NEW f \in Fiber, ScheduleCb(w, f) \/ Trigger(w, f) PROVE Goal
    <3>1. owner # "stopped"
      BY <1>0, <2>3 DEF ScheduleCb, Trigger, At, OwnerInv
    <3>2. IOPool!Unpark(f)
      BY <2>3, <3>1, IOUnparkStep
    <3> QED BY <1>2, <3>2 DEF IOPool!PoolNext
  <2>4. CASE Back(w) /\ UNCHANGED ioVars
    BY <1>1, <2>4, IOBackStep
  <2>5. CASE \/ IONoTask(w)
             \/ UNCHANGED ioVars /\ (\/ SwapIn(w) \/ EnterIdle(w) \/ LeaveIdle(w)
                                     \/ YieldToReady(w) \/ SaveContext(w))
             \/ IdleTimer(w) \/ IdlePending(w) \/ IdleStopping(w)
             \/ WakeByTimeout(w) \/ (\E E \in Events : Wake(w, E))
             \/ ListExpired(w) \/ Drain(w) \/ CountDown(w) \/ IdleYield(w)
    BY <1>1, <2>5, IOInternalStep
  <2> QED BY <1>6, <2>1, <2>2, <2>3, <2>4, <2>5 DEF WorkerStep, IdleStep, Inherited
<1> QED BY <1>3, <1>4, <1>5, <1>6 DEF IONext

\* Until stop() returns the jobs of an IOManager move as TaskPool says: what is
\* queued is begun once, what waits for an event or a timer is queued once when it
\* fires and is never lost, not even between the timer set and the queue.  For any
\* number of threads, fibers, events and timers, whenever the events fire.
THEOREM IOMovesJobsHolds == IOSpec => IOMovesJobs
<1>1. IOInit => IOPool!PoolInit
  <2> SUFFICES ASSUME IOInit PROVE IOPool!PoolInit
    OBVIOUS
  <2>1. /\ \A f \in Fiber : ~Queued(f) /\ m_state[f] = "NONE" /\ \A w \in Worker : task[w] # f
        /\ \A f : f \notin evWait /\ ~Timed(f)
        /\ owner = "setup"
    BY FiberAssumption DEF IOInit, Init, Queued, Timed
  <2>2. \A f \in Fiber : IOPhaseOf(f) = "new"
    BY <2>1 DEF IOPhaseOf, PhaseOf
  <2> QED BY <2>1, <2>2 DEF IOPhases, IOPool!PoolInit
<1>2. IOInv => CurrentInv
  BY IOParts
<1>3. IOInv /\ IOInv' /\ [IONext]_allVars =>
         [IOPool!PoolNext \/ (owner' = "stopped" /\ UNCHANGED IOPhases)]_(IOPool!poolVars)
  <2>1. IOInv' => CurrentInv'
    BY <1>2, PTL
  <2> QED BY <2>1, IOStepRefines
<1>4. IOSpec => [][IOPool!PoolNext \/ (owner' = "stopped" /\ UNCHANGED IOPhases)]_(IOPool!poolVars)
  BY <1>3, IOInvHolds, PTL DEF IOSpec
<1>5. IOSpec => IOPool!PoolInit
  BY <1>1 DEF IOSpec
<1> QED BY <1>4, <1>5 DEF IOMovesJobs
=============================================================================
