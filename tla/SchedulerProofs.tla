-------------------------- MODULE SchedulerProofs --------------------------
(***************************************************************************)
(* Proofs about Scheduler for any number of worker threads and fibers, and *)
(* for fibers that put themselves back for any thread: a fiber may then be *)
(* taken, and even resumed, while another worker is still leaving it.      *)
(* RunInv is about the workers, StateInv about the states of the fibers    *)
(* and TaskInv about their places; each of the last two holds up to the    *)
(* moment in which an assertion fails, and says which one can.             *)
(***************************************************************************)
EXTENDS Scheduler, FiniteSetTheorems, SequenceTheorems, TLAPS

-----------------------------------------------------------------------------
(* The inductive invariant.                                                *)

\* The task a worker holds, and that t_fiber names it while it executes.
CurrentInv ==
    /\ \A w \in Worker : IF w \in Busy THEN task[w] \in Fiber ELSE task[w] = None
    /\ \A w \in Worker : pc[w] \in {"run", "yield"} => t_fiber[w] = task[w]

\* Where the workers are in each phase of the owner.
OwnerInv ==
    /\ owner = "setup" => \A w \in Worker : pc[w] = "off"
    /\ UseCaller /\ owner \in {"setup", "started"} => pc[Root] = "off"
    /\ m_stopping <=> owner \in {"joining", "stopped"}
    /\ owner = "stopped" => \A w \in Worker : pc[w] = "exit"
    /\ \A w \in Worker : pc[w] = "exit" => w \in idleTerm

\* An idle fiber ends only when nobody is left who could add a task.
EndInv == idleTerm # {} => m_stopping /\ m_tasks = <<>> /\ Busy = {}

RunInv == TypeOK /\ CountersExact /\ CurrentInv /\ OwnerInv /\ EndInv

\* A fiber is at one place of the queue at most.
QueuedOnce ==
    \A i, j \in DOMAIN m_tasks : m_tasks[i].fiber = m_tasks[j].fiber => i = j

\* A worker that has taken a fiber and has not queued it again.
Carries(w) == pc[w] \in {"switch", "run"}
Carried(f) == \E w \in Worker : Carries(w) /\ task[w] = f

\* A fiber is in the queue or carried, once.  A worker at "yield", "save" or "back"
\* holds it as well, but has no claim to it any more.
TaskInv ==
    /\ QueuedOnce
    /\ \A v, w \in Worker : Carries(v) /\ Carries(w) /\ task[v] = task[w] => v = w
    /\ \A f \in Fiber : Queued(f) => ~Carried(f)

Executes(w) == pc[w] \in {"run", "yield"}

\* What a worker knows of the fiber it holds.
HandOK(w) ==
    LET f == task[w] IN
        /\ pc[w] = "switch" => m_state[f] \in {"NONE", "READY"}
        /\ Executes(w) => m_state[f] = "EXEC"
        /\ pc[w] = "yield" => ~Carried(f)
        /\ pc[w] \in {"save", "back"} => m_state[f] # "NONE"

\* A fiber in state EXEC is executed; one that is READY can be resumed, or a worker
\* is just storing its context.
StateOK(f) ==
    /\ m_state[f] = "EXEC" => \E w \in Worker : Executes(w) /\ task[w] = f
    /\ m_state[f] = "READY" /\ ~saved[f] => \E w \in Worker : pc[w] = "save" /\ task[w] = f

\* A queued fiber has not ended; it may still be executed.
TaskOK(t) == IF t.cb THEN m_state[t.fiber] = "NONE" ELSE m_state[t.fiber] \in {"READY", "EXEC"}
TasksOK == \A i \in DOMAIN m_tasks : TaskOK(m_tasks[i])

HandsOK == (\A w \in Worker : HandOK(w)) /\ (\A f \in Fiber : StateOK(f)) /\ TasksOK

StateInv ==
    /\ AssertionBlamed /\ OneThreadPerFiber
    /\ aborted = "no" => HandsOK

\* A fiber that has begun and not ended is in the queue or carried.
FreeInv == \A f \in Fiber : m_state[f] \in {"READY", "EXEC"} => Queued(f) \/ Carried(f)

PlaceInv == TaskInv /\ StateInv /\ FreeInv

SafeInv == RunInv /\ PlaceInv

-----------------------------------------------------------------------------
(* The task list.                                                          *)

\* Erasing element i of the list moves the later ones up.
LEMMA WithoutProperties ==
    ASSUME NEW S, NEW s \in Seq(S), NEW i \in DOMAIN s
    PROVE  /\ Without(s, i) \in Seq(S)
           /\ Len(Without(s, i)) = Len(s) - 1
           /\ \A j \in 1..(Len(s) - 1) :
                 Without(s, i)[j] = IF j < i THEN s[j] ELSE s[j + 1]
<1>1. i \in 1..Len(s) /\ Len(s) \in Nat
  BY LenProperties
<1> DEFINE a == SubSeq(s, 1, i - 1)
           b == SubSeq(s, i + 1, Len(s))
<1>2. \A j \in 1..Len(s) : s[j] \in S
  BY ElementOfSeq
<1>3. /\ a \in Seq(S) /\ Len(a) = i - 1
      /\ \A j \in 1..(i - 1) : a[j] = s[j]
  <2>1. \A j \in 1..(i - 1) : s[j] \in S
    BY <1>1, <1>2
  <2> QED BY <1>1, <2>1, SubSeqProperties
<1>4. /\ b \in Seq(S) /\ Len(b) = Len(s) - i
      /\ \A j \in 1..(Len(s) - i) : b[j] = s[i + j]
  <2>1. \A j \in (i + 1)..Len(s) : s[j] \in S
    BY <1>1, <1>2
  <2>2. /\ b \in Seq(S)
        /\ Len(b) = IF i + 1 <= Len(s) THEN Len(s) - (i + 1) + 1 ELSE 0
        /\ \A j \in 1..(Len(s) - (i + 1) + 1) : b[j] = s[(i + 1) + j - 1]
    BY <1>1, <2>1, SubSeqProperties
  <2>3. \A j \in 1..(Len(s) - i) : (i + 1) + j - 1 = i + j
    BY <1>1
  <2> QED BY <1>1, <2>2, <2>3
<1> HIDE DEF a, b
<1>5. /\ a \o b \in Seq(S) /\ Len(a \o b) = Len(s) - 1
      /\ \A j \in 1..(Len(s) - 1) :
            (a \o b)[j] = IF j <= i - 1 THEN a[j] ELSE b[j - (i - 1)]
  <2>1. /\ a \o b \in Seq(S) /\ Len(a \o b) = Len(a) + Len(b)
        /\ \A j \in 1..(Len(a) + Len(b)) :
              (a \o b)[j] = IF j <= Len(a) THEN a[j] ELSE b[j - Len(a)]
    BY <1>3, <1>4, ConcatProperties
  <2>2. Len(a) + Len(b) = Len(s) - 1
    BY <1>1, <1>3, <1>4
  <2> QED BY <1>3, <2>1, <2>2
<1>6. ASSUME NEW j \in 1..(Len(s) - 1)
      PROVE  (a \o b)[j] = IF j < i THEN s[j] ELSE s[j + 1]
  <2>1. CASE j < i
    BY <1>1, <1>3, <1>5, <2>1
  <2>2. CASE ~(j < i)
    <3>1. j - (i - 1) \in 1..(Len(s) - i) /\ i + (j - (i - 1)) = j + 1
      BY <1>1, <2>2
    <3>2. PICK k \in 1..(Len(s) - i) : k = j - (i - 1)
      BY <3>1
    <3>3. b[k] = s[j + 1]
      BY <1>4, <3>1, <3>2
    <3>4. (a \o b)[j] = b[k]
      <4>1. (a \o b)[j] = IF j <= i - 1 THEN a[j] ELSE b[j - (i - 1)]
        BY <1>5
      <4>2. ~(j <= i - 1)
        BY <1>1, <2>2
      <4> QED BY <3>2, <4>1, <4>2
    <3> QED BY <2>2, <3>3, <3>4
  <2> QED BY <2>1, <2>2
<1> QED BY <1>5, <1>6 DEF Without, a, b

\* The list after schedule().
LEMMA AppendTask ==
    ASSUME NEW s \in Seq(Task), NEW t \in Task
    PROVE  /\ Append(s, t) \in Seq(Task)
           /\ Append(s, t) # <<>>
           /\ DOMAIN Append(s, t) = DOMAIN s \cup {Len(s) + 1}
           /\ Len(s) + 1 \notin DOMAIN s
           /\ \A i \in DOMAIN s : Append(s, t)[i] = s[i]
           /\ Append(s, t)[Len(s) + 1] = t
<1>1. Len(s) \in Nat /\ DOMAIN s = 1..Len(s)
  BY LenProperties
<1>2. /\ Append(s, t) \in Seq(Task) /\ Len(Append(s, t)) = Len(s) + 1
      /\ Append(s, t) # <<>>
      /\ \A i \in 1..Len(s) : Append(s, t)[i] = s[i]
      /\ Append(s, t)[Len(s) + 1] = t
  BY AppendProperties
<1>3. DOMAIN Append(s, t) = 1..(Len(s) + 1)
  BY <1>2, LenProperties
<1> QED BY <1>1, <1>2, <1>3

-----------------------------------------------------------------------------
(* The thread counters.                                                    *)

BusyPC == {"switch", "run", "yield", "save", "back"}
IdlePC == {"idle", "leaveIdle"}
Idling == {w \in Worker : pc[w] \in IdlePC}

\* Counting one element more or less.
LEMMA CountOne ==
    ASSUME NEW S, IsFiniteSet(S), NEW x
    PROVE  /\ Cardinality(S) \in Nat
           /\ x \notin S => Cardinality(S \cup {x}) = Cardinality(S) + 1
           /\ x \in S => /\ Cardinality(S \ {x}) = Cardinality(S) - 1
                         /\ Cardinality(S) - 1 \in Nat
<1>1. Cardinality(S) \in Nat
  BY FS_CardinalityType
<1>2. x \notin S => Cardinality(S \cup {x}) = Cardinality(S) + 1
  BY FS_AddElement
<1>3. ASSUME x \in S
      PROVE  Cardinality(S \ {x}) = Cardinality(S) - 1 /\ Cardinality(S) - 1 \in Nat
  <2>1. Cardinality(S \ {x}) = Cardinality(S) - 1 /\ IsFiniteSet(S \ {x})
    BY <1>3, FS_RemoveElement
  <2> QED BY <2>1, FS_CardinalityType
<1> QED BY <1>1, <1>2, <1>3

\* The workers inside a part of run() when one of them moves.
LEMMA MoveSets ==
    ASSUME TypeOK, NEW w \in Worker, NEW x \in WorkerPC, Goto(w, x)
    PROVE  /\ IsFiniteSet(Busy) /\ IsFiniteSet(Idling)
           /\ Busy' = IF x \in BusyPC THEN Busy \cup {w} ELSE Busy \ {w}
           /\ Idling' = IF x \in IdlePC THEN Idling \cup {w} ELSE Idling \ {w}
<1>1. IsFiniteSet(Busy) /\ IsFiniteSet(Idling)
  BY WorkerAssumption, FS_Subset DEF Busy, Idling
<1>2. pc \in [Worker -> WorkerPC] /\ pc' = [pc EXCEPT ![w] = x]
  BY DEF TypeOK, Goto
<1>3. Busy' = IF x \in BusyPC THEN Busy \cup {w} ELSE Busy \ {w}
  BY <1>2 DEF Busy, BusyPC
<1>4. Idling' = IF x \in IdlePC THEN Idling \cup {w} ELSE Idling \ {w}
  BY <1>2 DEF Idling, IdlePC
<1> QED BY <1>1, <1>3, <1>4

-----------------------------------------------------------------------------
(* RunInv is preserved, one lemma per action.                              *)

\* OwnerSchedules keeps what run() and stop() rely on.
LEMMA OwnerSchedulesRun ==
    ASSUME RunInv, NEW f \in Fiber, NEW cb \in BOOLEAN, NEW thread \in Target, OwnerSchedules(f, cb, thread)
    PROVE  RunInv'
<1> USE DEF OwnerSchedules, At, OwnerAt, fiberVars, countVars
<1>0. TypeOK /\ CountersExact /\ CurrentInv /\ OwnerInv /\ EndInv
  BY DEF RunInv
<1>1. [fiber |-> f, cb |-> cb, thread |-> thread] \in Task /\ m_tasks \in Seq(Task)
  BY <1>0 DEF Task, TypeOK
<1>6. Busy' = Busy /\ Idling' = Idling
  BY <1>0, WorkerAssumption DEF TypeOK, OwnerInv, Busy, Idling, IdlePC, Goto
<1>7. /\ Cardinality(Busy') = m_activeThreadCount' /\ Cardinality(Idling') = m_idleThreadCount'
      /\ m_activeThreadCount' \in Nat /\ m_idleThreadCount' \in Nat
  BY <1>0, <1>6 DEF TypeOK, CountersExact, Idling, IdlePC
<1>10. TypeOK'
  BY <1>0, <1>1, AppendTask, <1>7, WorkerAssumption DEF Schedule, TypeOK, Goto, WorkerPC, FiberState, MainFiberOf
<1>11. CountersExact'
  BY <1>7 DEF CountersExact, Idling, IdlePC
<1>12. CurrentInv'
  BY <1>0, <1>1, AppendTask, <1>6 DEF CurrentInv, Goto, TypeOK, Busy
<1>13. OwnerInv'
  BY <1>0, <1>1, AppendTask, WorkerAssumption DEF OwnerInv, Goto, TypeOK
<1>14. EndInv'
  BY <1>0, <1>1, AppendTask, <1>6 DEF  Schedule, EndInv, OwnerInv, Busy
<1> QED BY <1>10, <1>11, <1>12, <1>13, <1>14 DEF RunInv

\* Start keeps what run() and stop() rely on.
LEMMA StartRun ==
    ASSUME RunInv, Start
    PROVE  RunInv'
<1> USE DEF Start, At, OwnerAt, fiberVars, countVars
<1>0. TypeOK /\ CountersExact /\ CurrentInv /\ OwnerInv /\ EndInv
  BY DEF RunInv
<1>6. Busy' = Busy /\ Idling' = Idling
  BY <1>0, WorkerAssumption DEF TypeOK, OwnerInv, Busy, Idling, IdlePC, Goto
<1>7. /\ Cardinality(Busy') = m_activeThreadCount' /\ Cardinality(Idling') = m_idleThreadCount'
      /\ m_activeThreadCount' \in Nat /\ m_idleThreadCount' \in Nat
  BY <1>0, <1>6 DEF TypeOK, CountersExact, Idling, IdlePC
<1>10. TypeOK'
  BY <1>0, <1>7, WorkerAssumption DEF TypeOK, Goto, WorkerPC, FiberState, MainFiberOf
<1>11. CountersExact'
  BY <1>7 DEF CountersExact, Idling, IdlePC
<1>12. CurrentInv'
  BY <1>0, <1>6 DEF CurrentInv, Goto, TypeOK, Busy
<1>13. OwnerInv'
  BY <1>0, WorkerAssumption DEF OwnerInv, Goto, TypeOK
<1>14. EndInv'
  BY <1>0, <1>6 DEF  EndInv, OwnerInv, Busy
<1> QED BY <1>10, <1>11, <1>12, <1>13, <1>14 DEF RunInv

\* Stop keeps what run() and stop() rely on.
LEMMA StopRun ==
    ASSUME RunInv, Stop
    PROVE  RunInv'
<1> USE DEF Stop, At, OwnerAt, fiberVars, countVars
<1>0. TypeOK /\ CountersExact /\ CurrentInv /\ OwnerInv /\ EndInv
  BY DEF RunInv
<1>6. Busy' = Busy /\ Idling' = Idling
  BY <1>0, WorkerAssumption DEF TypeOK, OwnerInv, Busy, Idling, IdlePC, Goto
<1>7. /\ Cardinality(Busy') = m_activeThreadCount' /\ Cardinality(Idling') = m_idleThreadCount'
      /\ m_activeThreadCount' \in Nat /\ m_idleThreadCount' \in Nat
  BY <1>0, <1>6 DEF TypeOK, CountersExact, Idling, IdlePC
<1>10. TypeOK'
  BY <1>0, <1>7, WorkerAssumption DEF TypeOK, Goto, WorkerPC, FiberState, MainFiberOf
<1>11. CountersExact'
  BY <1>7 DEF CountersExact, Idling, IdlePC
<1>12. CurrentInv'
  BY <1>0, <1>6 DEF CurrentInv, Goto, TypeOK, Busy
<1>13. OwnerInv'
  BY <1>0, WorkerAssumption DEF OwnerInv, Goto, TypeOK
<1>14. EndInv'
  BY <1>0, <1>6 DEF  EndInv, OwnerInv, Busy
<1> QED BY <1>10, <1>11, <1>12, <1>13, <1>14 DEF RunInv

\* Join keeps what run() and stop() rely on.
LEMMA JoinRun ==
    ASSUME RunInv, Join
    PROVE  RunInv'
<1> USE DEF Join, At, OwnerAt, fiberVars, countVars
<1>0. TypeOK /\ CountersExact /\ CurrentInv /\ OwnerInv /\ EndInv
  BY DEF RunInv
<1>6. Busy' = Busy /\ Idling' = Idling
  BY <1>0, WorkerAssumption DEF TypeOK, OwnerInv, Busy, Idling, IdlePC, Goto
<1>7. /\ Cardinality(Busy') = m_activeThreadCount' /\ Cardinality(Idling') = m_idleThreadCount'
      /\ m_activeThreadCount' \in Nat /\ m_idleThreadCount' \in Nat
  BY <1>0, <1>6 DEF TypeOK, CountersExact, Idling, IdlePC
<1>10. TypeOK'
  BY <1>0, <1>7, WorkerAssumption DEF TypeOK, Goto, WorkerPC, FiberState, MainFiberOf
<1>11. CountersExact'
  BY <1>7 DEF CountersExact, Idling, IdlePC
<1>12. CurrentInv'
  BY <1>0, <1>6 DEF CurrentInv, Goto, TypeOK, Busy
<1>13. OwnerInv'
  BY <1>0, WorkerAssumption DEF OwnerInv, Goto, TypeOK
<1>14. EndInv'
  BY <1>0, <1>6 DEF  EndInv, OwnerInv, Busy
<1> QED BY <1>10, <1>11, <1>12, <1>13, <1>14 DEF RunInv

\* TakeTask keeps what run() and stop() rely on.
LEMMA TakeTaskRun ==
    ASSUME RunInv, NEW w \in Worker, TakeTask(w)
    PROVE  RunInv'
<1> USE DEF TakeTask, At, OwnerAt, fiberVars, countVars
<1>0. TypeOK /\ CountersExact /\ CurrentInv /\ OwnerInv /\ EndInv
  BY DEF RunInv
<1>1. PICK i \in Eligible(w) : task' = [task EXCEPT ![w] = m_tasks[i].fiber]
                             /\ m_tasks' = Without(m_tasks, i)
  OBVIOUS
<1>2. i \in DOMAIN m_tasks /\ m_tasks \in Seq(Task) /\ m_tasks[i] \in Task
  <2>1. i \in DOMAIN m_tasks /\ m_tasks \in Seq(Task)
    BY <1>0 DEF Eligible, TypeOK
  <2> QED BY <2>1, LenProperties, ElementOfSeq
<1>3. m_tasks[i].fiber \in Fiber /\ Without(m_tasks, i) \in Seq(Task)
  BY <1>2, WithoutProperties DEF Task
<1>4. /\ m_activeThreadCount = Cardinality(Busy) /\ m_idleThreadCount = Cardinality(Idling)
      /\ w \notin Busy /\ w \notin Idling
  BY <1>0 DEF CountersExact, Busy, Idling, IdlePC
<1>5. "switch" \in WorkerPC /\ Goto(w, "switch")
  BY DEF WorkerPC
<1>6. /\ Busy' = Busy \cup {w} /\ Idling' = Idling
      /\ IsFiniteSet(Busy) /\ IsFiniteSet(Idling)
  <2> HIDE DEF TakeTask
  <2> QED BY <1>0, <1>4, <1>5, MoveSets DEF BusyPC, IdlePC
<1>8. /\ Cardinality(Busy) \in Nat /\ Cardinality(Idling) \in Nat
      /\ Cardinality(Busy \cup {w}) = Cardinality(Busy) + 1
  <2> HIDE DEF TakeTask
  <2> QED BY <1>4, <1>6, CountOne
<1>7. /\ Cardinality(Busy') = m_activeThreadCount' /\ Cardinality(Idling') = m_idleThreadCount'
      /\ m_activeThreadCount' \in Nat /\ m_idleThreadCount' \in Nat
  BY <1>4, <1>6, <1>8
<1>10. TypeOK'
  BY <1>0, <1>1, <1>3, <1>7, WorkerAssumption DEF TypeOK, Goto, WorkerPC, FiberState, MainFiberOf
<1>11. CountersExact'
  BY <1>7 DEF CountersExact, Idling, IdlePC
<1>12. CurrentInv'
  BY <1>0, <1>1, <1>3, <1>6 DEF CurrentInv, Goto, TypeOK, Busy
<1>13. OwnerInv'
  BY <1>0, <1>1, <1>3, WorkerAssumption DEF OwnerInv, Goto, TypeOK
<1>14. EndInv'
  BY <1>0, <1>1, <1>3, <1>2, <1>6 DEF  EndInv, OwnerInv, Busy
<1> QED BY <1>10, <1>11, <1>12, <1>13, <1>14 DEF RunInv

\* NoTask keeps what run() and stop() rely on.
LEMMA NoTaskRun ==
    ASSUME RunInv, NEW w \in Worker, NoTask(w)
    PROVE  RunInv'
<1> USE DEF NoTask, At, OwnerAt, fiberVars, countVars
<1>0. TypeOK /\ CountersExact /\ CurrentInv /\ OwnerInv /\ EndInv
  BY DEF RunInv
<1>4. /\ m_activeThreadCount = Cardinality(Busy) /\ m_idleThreadCount = Cardinality(Idling)
      /\ w \notin Busy /\ w \notin Idling
  BY <1>0 DEF CountersExact, Busy, Idling, IdlePC
<1>5. PICK x \in WorkerPC : Goto(w, x) /\ x \in {"exit", "toIdle"}
  BY DEF WorkerPC
<1>6. /\ Busy' = Busy /\ Idling' = Idling
      /\ IsFiniteSet(Busy) /\ IsFiniteSet(Idling)
  <2> HIDE DEF NoTask
  <2> QED BY <1>0, <1>4, <1>5, MoveSets DEF BusyPC, IdlePC
<1>7. /\ Cardinality(Busy') = m_activeThreadCount' /\ Cardinality(Idling') = m_idleThreadCount'
      /\ m_activeThreadCount' \in Nat /\ m_idleThreadCount' \in Nat
  BY <1>4, <1>6, CountOne
<1>10. TypeOK'
  BY <1>0, <1>7, WorkerAssumption DEF TypeOK, Goto, WorkerPC, FiberState, MainFiberOf
<1>11. CountersExact'
  BY <1>7 DEF CountersExact, Idling, IdlePC
<1>12. CurrentInv'
  BY <1>0, <1>6 DEF CurrentInv, Goto, TypeOK, Busy
<1>13. OwnerInv'
  BY <1>0, WorkerAssumption DEF OwnerInv, Goto, TypeOK
<1>14. EndInv'
  BY <1>0, <1>6 DEF  EndInv, OwnerInv, Busy
<1> QED BY <1>10, <1>11, <1>12, <1>13, <1>14 DEF RunInv

\* SwapIn keeps what run() and stop() rely on.
LEMMA SwapInRun ==
    ASSUME RunInv, NEW w \in Worker, SwapIn(w)
    PROVE  RunInv'
<1> USE DEF SwapIn, At, OwnerAt, fiberVars, countVars
<1>0. TypeOK /\ CountersExact /\ CurrentInv /\ OwnerInv /\ EndInv
  BY DEF RunInv
<1>1. task[w] \in Fiber
  BY <1>0 DEF CurrentInv, Busy
<1>4. /\ m_activeThreadCount = Cardinality(Busy) /\ m_idleThreadCount = Cardinality(Idling)
      /\ w \in Busy /\ w \notin Idling
  BY <1>0 DEF CountersExact, Busy, Idling, IdlePC
<1>5. "run" \in WorkerPC /\ Goto(w, "run")
  BY DEF WorkerPC
<1>6. /\ Busy' = Busy /\ Idling' = Idling
      /\ IsFiniteSet(Busy) /\ IsFiniteSet(Idling)
  <2> HIDE DEF SwapIn
  <2> QED BY <1>0, <1>4, <1>5, MoveSets DEF BusyPC, IdlePC
<1>7. /\ Cardinality(Busy') = m_activeThreadCount' /\ Cardinality(Idling') = m_idleThreadCount'
      /\ m_activeThreadCount' \in Nat /\ m_idleThreadCount' \in Nat
  BY <1>4, <1>6, CountOne
<1>10. TypeOK'
  BY <1>0, <1>1, <1>7, WorkerAssumption DEF TypeOK, Goto, WorkerPC, FiberState, MainFiberOf
<1>11. CountersExact'
  BY <1>7 DEF CountersExact, Idling, IdlePC
<1>12. CurrentInv'
  BY <1>0, <1>1, <1>6 DEF CurrentInv, Goto, TypeOK, Busy
<1>13. OwnerInv'
  BY <1>0, <1>1, WorkerAssumption DEF OwnerInv, Goto, TypeOK
<1>14. EndInv'
  BY <1>0, <1>1, <1>6 DEF  EndInv, OwnerInv, Busy
<1> QED BY <1>10, <1>11, <1>12, <1>13, <1>14 DEF RunInv

\* Back keeps what run() and stop() rely on.
LEMMA BackRun ==
    ASSUME RunInv, NEW w \in Worker, Back(w)
    PROVE  RunInv'
<1> USE DEF Back, At, OwnerAt, fiberVars, countVars
<1>0. TypeOK /\ CountersExact /\ CurrentInv /\ OwnerInv /\ EndInv
  BY DEF RunInv
<1>4. /\ m_activeThreadCount = Cardinality(Busy) /\ m_idleThreadCount = Cardinality(Idling)
      /\ w \in Busy /\ w \notin Idling
  BY <1>0 DEF CountersExact, Busy, Idling, IdlePC
<1>5. "scan" \in WorkerPC /\ Goto(w, "scan")
  BY DEF WorkerPC
<1>6. /\ Busy' = Busy \ {w} /\ Idling' = Idling
      /\ IsFiniteSet(Busy) /\ IsFiniteSet(Idling)
  <2> HIDE DEF Back
  <2> QED BY <1>0, <1>4, <1>5, MoveSets DEF BusyPC, IdlePC
<1>7. /\ Cardinality(Busy') = m_activeThreadCount' /\ Cardinality(Idling') = m_idleThreadCount'
      /\ m_activeThreadCount' \in Nat /\ m_idleThreadCount' \in Nat
  BY <1>4, <1>6, CountOne
<1>10. TypeOK'
  BY <1>0, <1>7, WorkerAssumption DEF TypeOK, Goto, WorkerPC, FiberState, MainFiberOf
<1>11. CountersExact'
  BY <1>7 DEF CountersExact, Idling, IdlePC
<1>12. CurrentInv'
  BY <1>0, <1>6 DEF CurrentInv, Goto, TypeOK, Busy
<1>13. OwnerInv'
  BY <1>0, WorkerAssumption DEF OwnerInv, Goto, TypeOK
<1>14. EndInv'
  BY <1>0, <1>6 DEF  EndInv, OwnerInv, Busy
<1> QED BY <1>10, <1>11, <1>12, <1>13, <1>14 DEF RunInv

\* EnterIdle keeps what run() and stop() rely on.
LEMMA EnterIdleRun ==
    ASSUME RunInv, NEW w \in Worker, EnterIdle(w)
    PROVE  RunInv'
<1> USE DEF EnterIdle, At, OwnerAt, fiberVars, countVars
<1>0. TypeOK /\ CountersExact /\ CurrentInv /\ OwnerInv /\ EndInv
  BY DEF RunInv
<1>4. /\ m_activeThreadCount = Cardinality(Busy) /\ m_idleThreadCount = Cardinality(Idling)
      /\ w \notin Busy /\ w \notin Idling
  BY <1>0 DEF CountersExact, Busy, Idling, IdlePC
<1>5. "idle" \in WorkerPC /\ Goto(w, "idle")
  BY DEF WorkerPC
<1>6. /\ Busy' = Busy /\ Idling' = Idling \cup {w}
      /\ IsFiniteSet(Busy) /\ IsFiniteSet(Idling)
  <2> HIDE DEF EnterIdle
  <2> QED BY <1>0, <1>4, <1>5, MoveSets DEF BusyPC, IdlePC
<1>8. /\ Cardinality(Busy) \in Nat /\ Cardinality(Idling) \in Nat
      /\ Cardinality(Idling \cup {w}) = Cardinality(Idling) + 1
  <2> HIDE DEF EnterIdle
  <2> QED BY <1>4, <1>6, CountOne
<1>7. /\ Cardinality(Busy') = m_activeThreadCount' /\ Cardinality(Idling') = m_idleThreadCount'
      /\ m_activeThreadCount' \in Nat /\ m_idleThreadCount' \in Nat
  BY <1>4, <1>6, <1>8
<1>10. TypeOK'
  BY <1>0, <1>7, WorkerAssumption DEF TypeOK, Goto, WorkerPC, FiberState, MainFiberOf
<1>11. CountersExact'
  BY <1>7 DEF CountersExact, Idling, IdlePC
<1>12. CurrentInv'
  BY <1>0, <1>6 DEF CurrentInv, Goto, TypeOK, Busy
<1>13. OwnerInv'
  BY <1>0, WorkerAssumption DEF OwnerInv, Goto, TypeOK
<1>14. EndInv'
  BY <1>0, <1>6 DEF  EndInv, OwnerInv, Busy
<1> QED BY <1>10, <1>11, <1>12, <1>13, <1>14 DEF RunInv

\* Idle keeps what run() and stop() rely on.
LEMMA IdleRun ==
    ASSUME RunInv, NEW w \in Worker, Idle(w)
    PROVE  RunInv'
<1> USE DEF Idle, At, OwnerAt, fiberVars, countVars
<1>0. TypeOK /\ CountersExact /\ CurrentInv /\ OwnerInv /\ EndInv
  BY DEF RunInv
<1>4. /\ m_activeThreadCount = Cardinality(Busy) /\ m_idleThreadCount = Cardinality(Idling)
      /\ w \notin Busy /\ w \in Idling
  BY <1>0 DEF CountersExact, Busy, Idling, IdlePC
<1>5. "leaveIdle" \in WorkerPC /\ Goto(w, "leaveIdle")
  BY DEF WorkerPC
<1>6. /\ Busy' = Busy /\ Idling' = Idling
      /\ IsFiniteSet(Busy) /\ IsFiniteSet(Idling)
  <2> HIDE DEF Idle
  <2> QED BY <1>0, <1>4, <1>5, MoveSets DEF BusyPC, IdlePC
<1>7. /\ Cardinality(Busy') = m_activeThreadCount' /\ Cardinality(Idling') = m_idleThreadCount'
      /\ m_activeThreadCount' \in Nat /\ m_idleThreadCount' \in Nat
  BY <1>4, <1>6, CountOne
<1>10. TypeOK'
  BY <1>0, <1>7, WorkerAssumption DEF TypeOK, Goto, WorkerPC, FiberState, MainFiberOf
<1>11. CountersExact'
  BY <1>7 DEF CountersExact, Idling, IdlePC
<1>12. CurrentInv'
  BY <1>0, <1>6 DEF CurrentInv, Goto, TypeOK, Busy
<1>13. OwnerInv'
  BY <1>0, WorkerAssumption DEF OwnerInv, Goto, TypeOK
<1>14. EndInv'
  BY <1>0, <1>4, FS_EmptySet, WorkerAssumption, FS_Subset, <1>6 DEF Stopping,  EndInv, OwnerInv, Busy
<1> QED BY <1>10, <1>11, <1>12, <1>13, <1>14 DEF RunInv

\* LeaveIdle keeps what run() and stop() rely on.
LEMMA LeaveIdleRun ==
    ASSUME RunInv, NEW w \in Worker, LeaveIdle(w)
    PROVE  RunInv'
<1> USE DEF LeaveIdle, At, OwnerAt, fiberVars, countVars
<1>0. TypeOK /\ CountersExact /\ CurrentInv /\ OwnerInv /\ EndInv
  BY DEF RunInv
<1>4. /\ m_activeThreadCount = Cardinality(Busy) /\ m_idleThreadCount = Cardinality(Idling)
      /\ w \notin Busy /\ w \in Idling
  BY <1>0 DEF CountersExact, Busy, Idling, IdlePC
<1>5. "scan" \in WorkerPC /\ Goto(w, "scan")
  BY DEF WorkerPC
<1>6. /\ Busy' = Busy /\ Idling' = Idling \ {w}
      /\ IsFiniteSet(Busy) /\ IsFiniteSet(Idling)
  <2> HIDE DEF LeaveIdle
  <2> QED BY <1>0, <1>4, <1>5, MoveSets DEF BusyPC, IdlePC
<1>7. /\ Cardinality(Busy') = m_activeThreadCount' /\ Cardinality(Idling') = m_idleThreadCount'
      /\ m_activeThreadCount' \in Nat /\ m_idleThreadCount' \in Nat
  BY <1>4, <1>6, CountOne
<1>10. TypeOK'
  BY <1>0, <1>7, WorkerAssumption DEF TypeOK, Goto, WorkerPC, FiberState, MainFiberOf
<1>11. CountersExact'
  BY <1>7 DEF CountersExact, Idling, IdlePC
<1>12. CurrentInv'
  BY <1>0, <1>6 DEF CurrentInv, Goto, TypeOK, Busy
<1>13. OwnerInv'
  BY <1>0, WorkerAssumption DEF OwnerInv, Goto, TypeOK
<1>14. EndInv'
  BY <1>0, <1>6 DEF  EndInv, OwnerInv, Busy
<1> QED BY <1>10, <1>11, <1>12, <1>13, <1>14 DEF RunInv

\* FiberSchedules keeps what run() and stop() rely on.
LEMMA FiberSchedulesRun ==
    ASSUME RunInv, NEW w \in Worker, NEW f \in Fiber, NEW cb \in BOOLEAN, NEW thread \in Target, FiberSchedules(w, f, cb, thread)
    PROVE  RunInv'
<1> USE DEF FiberSchedules, At, OwnerAt, fiberVars, countVars
<1>0. TypeOK /\ CountersExact /\ CurrentInv /\ OwnerInv /\ EndInv
  BY DEF RunInv
<1>1. [fiber |-> f, cb |-> cb, thread |-> thread] \in Task /\ m_tasks \in Seq(Task)
  BY <1>0 DEF Task, TypeOK
<1>6. Busy' = Busy /\ Idling' = Idling
  BY <1>0, WorkerAssumption DEF TypeOK, OwnerInv, Busy, Idling, IdlePC, Goto
<1>7. /\ Cardinality(Busy') = m_activeThreadCount' /\ Cardinality(Idling') = m_idleThreadCount'
      /\ m_activeThreadCount' \in Nat /\ m_idleThreadCount' \in Nat
  BY <1>0, <1>6 DEF TypeOK, CountersExact, Idling, IdlePC
<1>10. TypeOK'
  BY <1>0, <1>1, AppendTask, <1>7, WorkerAssumption DEF Schedule, TypeOK, Goto, WorkerPC, FiberState, MainFiberOf
<1>11. CountersExact'
  BY <1>7 DEF CountersExact, Idling, IdlePC
<1>12. CurrentInv'
  BY <1>0, <1>1, AppendTask, <1>6 DEF CurrentInv, Goto, TypeOK, Busy
<1>13. OwnerInv'
  BY <1>0, <1>1, AppendTask, WorkerAssumption DEF OwnerInv, Goto, TypeOK
<1>14. EndInv'
  BY <1>0, <1>1, AppendTask, <1>6 DEF  Schedule, EndInv, OwnerInv, Busy
<1> QED BY <1>10, <1>11, <1>12, <1>13, <1>14 DEF RunInv

\* RescheduleSelf keeps what run() and stop() rely on.
LEMMA RescheduleSelfRun ==
    ASSUME RunInv, NEW w \in Worker, NEW thread \in Target, RescheduleSelf(w, thread)
    PROVE  RunInv'
<1> USE DEF RescheduleSelf, At, OwnerAt, fiberVars, countVars
<1>0. TypeOK /\ CountersExact /\ CurrentInv /\ OwnerInv /\ EndInv
  BY DEF RunInv
<1>1. t_fiber[w] \in Fiber
  BY <1>0 DEF CurrentInv, Busy
<1>2. /\ m_tasks \in Seq(Task)
      /\ [fiber |-> t_fiber[w], cb |-> FALSE, thread |-> thread] \in Task
  BY <1>0, <1>1 DEF Task, TypeOK
<1>4. /\ m_activeThreadCount = Cardinality(Busy) /\ m_idleThreadCount = Cardinality(Idling)
      /\ w \in Busy /\ w \notin Idling
  BY <1>0 DEF CountersExact, Busy, Idling, IdlePC
<1>5. "yield" \in WorkerPC /\ Goto(w, "yield")
  BY DEF WorkerPC
<1>6. /\ Busy' = Busy /\ Idling' = Idling
      /\ IsFiniteSet(Busy) /\ IsFiniteSet(Idling)
  <2> HIDE DEF RescheduleSelf
  <2> QED BY <1>0, <1>4, <1>5, MoveSets DEF BusyPC, IdlePC
<1>7. /\ Cardinality(Busy') = m_activeThreadCount' /\ Cardinality(Idling') = m_idleThreadCount'
      /\ m_activeThreadCount' \in Nat /\ m_idleThreadCount' \in Nat
  BY <1>4, <1>6, CountOne
<1>10. TypeOK'
  BY <1>0, <1>1, <1>2, AppendTask, <1>7, WorkerAssumption DEF TypeOK, Goto, WorkerPC, FiberState, MainFiberOf
<1>11. CountersExact'
  BY <1>7 DEF CountersExact, Idling, IdlePC
<1>12. CurrentInv'
  BY <1>0, <1>1, <1>2, AppendTask, <1>6 DEF CurrentInv, Goto, TypeOK, Busy
<1>13. OwnerInv'
  BY <1>0, <1>1, <1>2, AppendTask, WorkerAssumption DEF OwnerInv, Goto, TypeOK
<1>14. EndInv'
  BY <1>0, <1>1, <1>2, AppendTask, <1>6 DEF  EndInv, OwnerInv, Busy
<1> QED BY <1>10, <1>11, <1>12, <1>13, <1>14 DEF RunInv

\* YieldToReady keeps what run() and stop() rely on.
LEMMA YieldToReadyRun ==
    ASSUME RunInv, NEW w \in Worker, YieldToReady(w)
    PROVE  RunInv'
<1> USE DEF YieldToReady, At, OwnerAt, fiberVars, countVars
<1>0. TypeOK /\ CountersExact /\ CurrentInv /\ OwnerInv /\ EndInv
  BY DEF RunInv
<1>1. t_fiber[w] \in Fiber
  BY <1>0 DEF CurrentInv, Busy
<1>4. /\ m_activeThreadCount = Cardinality(Busy) /\ m_idleThreadCount = Cardinality(Idling)
      /\ w \in Busy /\ w \notin Idling
  BY <1>0 DEF CountersExact, Busy, Idling, IdlePC
<1>5. "save" \in WorkerPC /\ Goto(w, "save")
  BY DEF WorkerPC
<1>6. /\ Busy' = Busy /\ Idling' = Idling
      /\ IsFiniteSet(Busy) /\ IsFiniteSet(Idling)
  <2> HIDE DEF YieldToReady
  <2> QED BY <1>0, <1>4, <1>5, MoveSets DEF BusyPC, IdlePC
<1>7. /\ Cardinality(Busy') = m_activeThreadCount' /\ Cardinality(Idling') = m_idleThreadCount'
      /\ m_activeThreadCount' \in Nat /\ m_idleThreadCount' \in Nat
  BY <1>4, <1>6, CountOne
<1>10. TypeOK'
  BY <1>0, <1>1, <1>7, WorkerAssumption DEF TypeOK, Goto, WorkerPC, FiberState, MainFiberOf
<1>11. CountersExact'
  BY <1>7 DEF CountersExact, Idling, IdlePC
<1>12. CurrentInv'
  BY <1>0, <1>1, <1>6 DEF CurrentInv, Goto, TypeOK, Busy
<1>13. OwnerInv'
  BY <1>0, <1>1, WorkerAssumption DEF OwnerInv, Goto, TypeOK
<1>14. EndInv'
  BY <1>0, <1>1, <1>6 DEF  EndInv, OwnerInv, Busy
<1> QED BY <1>10, <1>11, <1>12, <1>13, <1>14 DEF RunInv

\* SaveContext keeps what run() and stop() rely on.
LEMMA SaveContextRun ==
    ASSUME RunInv, NEW w \in Worker, SaveContext(w)
    PROVE  RunInv'
<1> USE DEF SaveContext, At, OwnerAt, fiberVars, countVars
<1>0. TypeOK /\ CountersExact /\ CurrentInv /\ OwnerInv /\ EndInv
  BY DEF RunInv
<1>1. task[w] \in Fiber
  BY <1>0 DEF CurrentInv, Busy
<1>4. /\ m_activeThreadCount = Cardinality(Busy) /\ m_idleThreadCount = Cardinality(Idling)
      /\ w \in Busy /\ w \notin Idling
  BY <1>0 DEF CountersExact, Busy, Idling, IdlePC
<1>5. "back" \in WorkerPC /\ Goto(w, "back")
  BY DEF WorkerPC
<1>6. /\ Busy' = Busy /\ Idling' = Idling
      /\ IsFiniteSet(Busy) /\ IsFiniteSet(Idling)
  <2> HIDE DEF SaveContext
  <2> QED BY <1>0, <1>4, <1>5, MoveSets DEF BusyPC, IdlePC
<1>7. /\ Cardinality(Busy') = m_activeThreadCount' /\ Cardinality(Idling') = m_idleThreadCount'
      /\ m_activeThreadCount' \in Nat /\ m_idleThreadCount' \in Nat
  BY <1>4, <1>6, CountOne
<1>10. TypeOK'
  BY <1>0, <1>1, <1>7, WorkerAssumption DEF TypeOK, Goto, WorkerPC, FiberState, MainFiberOf
<1>11. CountersExact'
  BY <1>7 DEF CountersExact, Idling, IdlePC
<1>12. CurrentInv'
  BY <1>0, <1>1, <1>6 DEF CurrentInv, Goto, TypeOK, Busy
<1>13. OwnerInv'
  BY <1>0, <1>1, WorkerAssumption DEF OwnerInv, Goto, TypeOK
<1>14. EndInv'
  BY <1>0, <1>1, <1>6 DEF  EndInv, OwnerInv, Busy
<1> QED BY <1>10, <1>11, <1>12, <1>13, <1>14 DEF RunInv

\* Finish keeps what run() and stop() rely on.
LEMMA FinishRun ==
    ASSUME RunInv, NEW w \in Worker, Finish(w)
    PROVE  RunInv'
<1> USE DEF Finish, At, OwnerAt, fiberVars, countVars
<1>0. TypeOK /\ CountersExact /\ CurrentInv /\ OwnerInv /\ EndInv
  BY DEF RunInv
<1>1. t_fiber[w] \in Fiber
  BY <1>0 DEF CurrentInv, Busy
<1>4. /\ m_activeThreadCount = Cardinality(Busy) /\ m_idleThreadCount = Cardinality(Idling)
      /\ w \in Busy /\ w \notin Idling
  BY <1>0 DEF CountersExact, Busy, Idling, IdlePC
<1>5. "back" \in WorkerPC /\ Goto(w, "back")
  BY DEF WorkerPC
<1>6. /\ Busy' = Busy /\ Idling' = Idling
      /\ IsFiniteSet(Busy) /\ IsFiniteSet(Idling)
  <2> HIDE DEF Finish
  <2> QED BY <1>0, <1>4, <1>5, MoveSets DEF BusyPC, IdlePC
<1>7. /\ Cardinality(Busy') = m_activeThreadCount' /\ Cardinality(Idling') = m_idleThreadCount'
      /\ m_activeThreadCount' \in Nat /\ m_idleThreadCount' \in Nat
  BY <1>4, <1>6, CountOne
<1>10. TypeOK'
  BY <1>0, <1>1, <1>7, WorkerAssumption DEF TypeOK, Goto, WorkerPC, FiberState, MainFiberOf
<1>11. CountersExact'
  BY <1>7 DEF CountersExact, Idling, IdlePC
<1>12. CurrentInv'
  BY <1>0, <1>1, <1>6 DEF CurrentInv, Goto, TypeOK, Busy
<1>13. OwnerInv'
  BY <1>0, <1>1, WorkerAssumption DEF OwnerInv, Goto, TypeOK
<1>14. EndInv'
  BY <1>0, <1>1, <1>6 DEF  EndInv, OwnerInv, Busy
<1> QED BY <1>10, <1>11, <1>12, <1>13, <1>14 DEF RunInv

-----------------------------------------------------------------------------
(* Who holds which fiber: StateInv and TaskInv, one lemma per kind of step.*)

\* A task is added to the list.
LEMMA QueuedAfterAppend ==
    ASSUME m_tasks \in Seq(Task), NEW t \in Task, m_tasks' = Append(m_tasks, t)
    PROVE  /\ \A f : Queued(f)' <=> Queued(f) \/ f = t.fiber
           /\ QueuedOnce /\ ~Queued(t.fiber) => QueuedOnce'
<1>1. /\ DOMAIN m_tasks' = DOMAIN m_tasks \cup {Len(m_tasks) + 1}
      /\ Len(m_tasks) + 1 \notin DOMAIN m_tasks
      /\ \A i \in DOMAIN m_tasks : m_tasks'[i] = m_tasks[i]
      /\ m_tasks'[Len(m_tasks) + 1] = t
  BY AppendTask
<1> QED BY <1>1 DEF Queued, QueuedOnce

\* A task is taken out of the list.
LEMMA QueuedAfterErase ==
    ASSUME m_tasks \in Seq(Task), QueuedOnce,
           NEW i \in DOMAIN m_tasks, m_tasks' = Without(m_tasks, i)
    PROVE  /\ \A f : Queued(f)' <=> Queued(f) /\ f # m_tasks[i].fiber
           /\ QueuedOnce'
           /\ \A j \in DOMAIN m_tasks' : \E k \in DOMAIN m_tasks \ {i} : m_tasks'[j] = m_tasks[k]
<1>1. /\ Len(m_tasks) \in Nat /\ DOMAIN m_tasks = 1..Len(m_tasks)
      /\ DOMAIN m_tasks' = 1..(Len(m_tasks) - 1)
  <2>1. m_tasks' \in Seq(Task) /\ Len(m_tasks') = Len(m_tasks) - 1
    BY WithoutProperties
  <2> QED BY <2>1, LenProperties
<1>2. \A j \in 1..(Len(m_tasks) - 1) : m_tasks'[j] = m_tasks[IF j < i THEN j ELSE j + 1]
  BY WithoutProperties
<1> DEFINE up(j) == IF j < i THEN j ELSE j + 1
           down(k) == IF k < i THEN k ELSE k - 1
<1>3. \A j \in DOMAIN m_tasks' : up(j) \in DOMAIN m_tasks \ {i} /\ m_tasks'[j] = m_tasks[up(j)]
  BY <1>1, <1>2
<1>4. \A k \in DOMAIN m_tasks \ {i} : down(k) \in DOMAIN m_tasks' /\ up(down(k)) = k
  BY <1>1
<1>5. \A j, k \in DOMAIN m_tasks' : up(j) = up(k) => j = k
  BY <1>1
<1>6. \A j \in DOMAIN m_tasks' : \E k \in DOMAIN m_tasks \ {i} : m_tasks'[j] = m_tasks[k]
  BY <1>3
<1>7. \A k \in DOMAIN m_tasks \ {i} : \E j \in DOMAIN m_tasks' : m_tasks'[j] = m_tasks[k]
  <2> TAKE k \in DOMAIN m_tasks \ {i}
  <2>1. down(k) \in DOMAIN m_tasks' /\ m_tasks'[down(k)] = m_tasks[k]
    BY <1>3, <1>4
  <2> HIDE DEF down
  <2> QED BY <2>1
<1>8. QueuedOnce'
  <2> SUFFICES ASSUME NEW j \in DOMAIN m_tasks', NEW k \in DOMAIN m_tasks',
                      m_tasks'[j].fiber = m_tasks'[k].fiber
               PROVE  j = k
    BY DEF QueuedOnce
  <2>1. up(j) = up(k)
    <3> HIDE DEF up
    <3> QED BY <1>3 DEF QueuedOnce
  <2> QED BY <1>5, <2>1
<1>9. ASSUME NEW f PROVE Queued(f)' <=> Queued(f) /\ f # m_tasks[i].fiber
  <2> HIDE DEF up, down
  <2>1. Queued(f)' => Queued(f) /\ f # m_tasks[i].fiber
    BY <1>6 DEF Queued, QueuedOnce
  <2>2. Queued(f) /\ f # m_tasks[i].fiber => Queued(f)'
    BY <1>7 DEF Queued
  <2> QED BY <2>1, <2>2
<1> QED BY <1>6, <1>8, <1>9

\* The places of run(), those of IOManager::idle included, and the types of the
\* variables that follow a fiber.
AllPC == WorkerPC \cup {"pend", "sched", "wait", "expire", "cbs", "handle", "count"}

Basics ==
    /\ m_tasks \in Seq(Task)
    /\ m_state \in [Fiber -> FiberState] /\ saved \in [Fiber -> BOOLEAN]
    /\ pc \in [Worker -> AllPC] /\ task \in [Worker -> Fiber \cup {None}]
    /\ t_fiber \in [Worker -> Fiber \cup {"main", "root", "idle"}]

LEMMA BasicTypes == TypeOK => Basics
BY DEF TypeOK, Basics, AllPC

\* A task is added whose fiber fits; the other queued fibers keep their state.
LEMMA AppendTasksOK ==
    ASSUME m_tasks \in Seq(Task), NEW t \in Task, m_tasks' = Append(m_tasks, t), TaskOK(t)',
           \A g \in Fiber : Queued(g) => m_state'[g] = m_state[g]
    PROVE  TasksOK => TasksOK'
<1>1. /\ DOMAIN m_tasks' = DOMAIN m_tasks \cup {Len(m_tasks) + 1}
      /\ \A i \in DOMAIN m_tasks : m_tasks'[i] = m_tasks[i]
      /\ m_tasks'[Len(m_tasks) + 1] = t
  BY AppendTask
<1>2. ASSUME TasksOK, NEW i \in DOMAIN m_tasks PROVE TaskOK(m_tasks[i])'
  <2>1. m_tasks[i] \in Task /\ Queued(m_tasks[i].fiber)
    BY LenProperties, ElementOfSeq DEF Queued
  <2> QED BY <1>1, <1>2, <2>1 DEF TasksOK, TaskOK, Task
<1> QED BY <1>1, <1>2 DEF TasksOK

\* A worker moves without a task, and touches no fiber.
LEMMA QuietStates ==
    ASSUME StateInv, UNCHANGED <<m_state, saved, task, aborted>>,
           Busy' = Busy, \A w \in Busy : pc'[w] = pc[w] /\ t_fiber'[w] = t_fiber[w],
           TasksOK => TasksOK'
    PROVE  StateInv'
<1>1. \A w \in Worker : \A x \in BusyPC : pc'[w] = x <=> pc[w] = x
  BY DEF Busy, BusyPC
<1>2. \A w \in Worker : (Executes(w)' <=> Executes(w)) /\ (Carries(w)' <=> Carries(w))
  BY <1>1 DEF Executes, Carries, BusyPC
<1>3. AssertionBlamed'
  BY <1>1 DEF StateInv, AssertionBlamed, BusyPC
<1>4. OneThreadPerFiber'
  BY <1>2 DEF StateInv, OneThreadPerFiber, Executes, Busy
<1>5. ASSUME HandsOK PROVE HandsOK'
  <2>1. \A f : Carried(f)' <=> Carried(f)
    BY <1>2 DEF Carried
  <2>2. \A w \in Worker : HandOK(w)'
    BY <1>1, <1>2, <1>5, <2>1 DEF HandsOK, HandOK, BusyPC
  <2>3. \A f \in Fiber : StateOK(f)'
    BY <1>1, <1>2, <1>5 DEF HandsOK, StateOK, BusyPC
  <2> QED BY <1>5, <2>2, <2>3 DEF HandsOK
<1> QED BY <1>3, <1>4, <1>5 DEF StateInv

\* schedule() of an unused fiber, by the owner or by a callback.
LEMMA ScheduleStates ==
    ASSUME Basics, CurrentInv, StateInv,
           NEW f \in Fiber, NEW cb \in BOOLEAN, NEW thread \in Target,
           Schedule(f, cb, thread), UNCHANGED <<pc, task, t_fiber, aborted>>
    PROVE  StateInv'
<1>1. PICK t \in Task : t = [fiber |-> f, cb |-> cb, thread |-> thread]
  BY DEF Task
<1>2. /\ m_tasks \in Seq(Task) /\ m_tasks' = Append(m_tasks, t)
      /\ t.fiber = f /\ t.cb = cb /\ ~Queued(f) /\ \A w \in Worker : task[w] # f
      /\ m_state'[f] = (IF cb THEN "NONE" ELSE "READY") /\ saved'[f] = ~cb
      /\ \A g \in Fiber : g # f => m_state'[g] = m_state[g] /\ saved'[g] = saved[g]
  BY <1>1 DEF Schedule, Unused, Basics
<1>3. \A w \in Worker : w \in Busy => m_state'[task[w]] = m_state[task[w]]
  BY <1>2 DEF CurrentInv
<1>4. \A w \in Worker : (Executes(w)' <=> Executes(w)) /\ (Carries(w)' <=> Carries(w))
  BY DEF Executes, Carries
<1>5. AssertionBlamed'
  BY DEF StateInv, AssertionBlamed
<1>6. OneThreadPerFiber'
  BY <1>3 DEF StateInv, OneThreadPerFiber, Busy
<1>7. ASSUME HandsOK PROVE HandsOK'
  <2>1. \A g : Carried(g)' <=> Carried(g)
    BY <1>4 DEF Carried
  <2>2. \A w \in Worker : HandOK(w)'
    BY <1>3, <1>4, <1>7, <2>1 DEF HandsOK, HandOK, Busy, Executes
  <2>3. \A g \in Fiber : StateOK(g)'
    BY <1>2, <1>4, <1>7 DEF HandsOK, StateOK
  <2>4. TaskOK(t)'
    BY <1>2 DEF TaskOK
  <2>5. \A g \in Fiber : Queued(g) => m_state'[g] = m_state[g]
    BY <1>2
  <2>6. TasksOK'
    BY <1>2, <1>7, <2>4, <2>5, AppendTasksOK DEF HandsOK
  <2> QED BY <2>2, <2>3, <2>6 DEF HandsOK
<1> QED BY <1>5, <1>6, <1>7 DEF StateInv

\* A worker takes a task.  If its fiber is not READY, it is one that another worker
\* still executes after queueing it.
LEMMA TakeStates ==
    ASSUME Basics, CurrentInv, StateInv, TaskInv, NEW w \in Worker, TakeTask(w)
    PROVE  StateInv'
<1>1. PICK i \in Eligible(w) :
        /\ task' = [task EXCEPT ![w] = m_tasks[i].fiber]
        /\ m_tasks' = Without(m_tasks, i)
        /\ aborted' = IF TaskReady(m_tasks[i]) THEN aborted ELSE "scheduler.cc:112"
  BY DEF TakeTask
<1>2. i \in DOMAIN m_tasks /\ m_tasks \in Seq(Task) /\ m_tasks[i] \in Task
  BY LenProperties, ElementOfSeq DEF Eligible, Basics
<1>3. PICK f \in Fiber : f = m_tasks[i].fiber
  BY <1>2 DEF Task
<1>4. /\ pc' = [pc EXCEPT ![w] = "switch"] /\ UNCHANGED <<m_state, saved, t_fiber>>
      /\ pc[w] = "scan" /\ aborted = "no" /\ HandsOK
  BY DEF TakeTask, At, Goto, fiberVars, StateInv
<1>5. /\ pc'[w] = "switch" /\ task'[w] = f
      /\ \A v \in Worker : v # w => pc'[v] = pc[v] /\ task'[v] = task[v]
  BY <1>1, <1>3, <1>4 DEF Basics
<1>6. Queued(f) /\ ~Carried(f)
  BY <1>2, <1>3 DEF Queued, TaskInv
<1>7. m_state[f] = "EXEC" => \E v \in Worker : pc[v] = "yield" /\ task[v] = f
  BY <1>4, <1>6 DEF HandsOK, StateOK, Carried, Carries, Executes
<1>8. AssertionBlamed'
  <2>1. TaskReady(m_tasks[i]) \/ m_state[f] = "EXEC"
    BY <1>2, <1>3, <1>4 DEF HandsOK, TasksOK, TaskOK, TaskReady
  <2>2. CASE TaskReady(m_tasks[i])
    BY <1>1, <1>4, <2>2 DEF AssertionBlamed
  <2>3. CASE ~TaskReady(m_tasks[i])
    <3>1. PICK v \in Worker : pc[v] = "yield" /\ task[v] = f
      BY <1>7, <2>1, <2>3
    <3>2. pc'[v] = "yield" /\ task'[v] = task'[w] /\ pc'[w] = "switch"
      BY <1>4, <1>5, <3>1
    <3> QED BY <1>1, <2>3, <3>2 DEF AssertionBlamed
  <2> QED BY <2>2, <2>3
<1>9. OneThreadPerFiber'
  BY <1>4, <1>5 DEF StateInv, OneThreadPerFiber
<1>10. ASSUME aborted' = "no" PROVE HandsOK'
  <2>1. TaskReady(m_tasks[i])
    BY <1>1, <1>10
  <2>2. m_state[f] \in {"NONE", "READY"}
    BY <1>2, <1>3, <1>4, <2>1 DEF TaskReady, HandsOK, TasksOK, TaskOK
  <2>3. \A v \in Worker : /\ v # w => (Executes(v)' <=> Executes(v)) /\ (Carries(v)' <=> Carries(v))
                          /\ ~Executes(w) /\ ~Executes(w)'
    BY <1>4, <1>5 DEF Executes, Carries
  <2>4. \A g : Carried(g)' => Carried(g) \/ g = f
    BY <1>5, <2>3 DEF Carried
  <2>5. HandOK(w)'
    BY <1>4, <1>5, <2>2 DEF HandOK, Executes
  <2>6. ASSUME NEW v \in Worker, v # w PROVE HandOK(v)'
    <3>1. HandOK(v) /\ (Executes(v) => task[v] # f)
      BY <1>4, <2>2 DEF HandsOK, HandOK
    <3> QED BY <1>4, <1>5, <2>3, <2>4, <2>6, <3>1 DEF HandOK, Executes
  <2>7. \A g \in Fiber : StateOK(g)'
    <3> SUFFICES ASSUME NEW g \in Fiber PROVE StateOK(g)'
      OBVIOUS
    <3>1. StateOK(g)
      BY <1>4 DEF HandsOK
    <3>2. \A v \in Worker : pc[v] = "save" => v # w
      BY <1>4
    <3> QED BY <1>4, <1>5, <2>3, <3>1, <3>2 DEF StateOK
  <2>8. TasksOK'
    <3> SUFFICES ASSUME NEW j \in DOMAIN m_tasks' PROVE TaskOK(m_tasks[j])'
      BY DEF TasksOK
    <3>1. PICK k \in DOMAIN m_tasks \ {i} : m_tasks'[j] = m_tasks[k]
      BY <1>1, <1>2, QueuedAfterErase DEF TaskInv
    <3> QED BY <1>4, <3>1 DEF HandsOK, TasksOK, TaskOK
  <2> QED BY <2>5, <2>6, <2>7, <2>8 DEF HandsOK
<1> QED BY <1>8, <1>9, <1>10 DEF StateInv

\* The other workers stay where they are when w moves on with its task.
LEMMA OthersStay ==
    ASSUME Basics, NEW w \in Worker, NEW x \in AllPC, Goto(w, x)
    PROVE  /\ pc'[w] = x
           /\ \A v \in Worker : v # w => /\ pc'[v] = pc[v]
                                         /\ Executes(v)' <=> Executes(v)
                                         /\ Carries(v)' <=> Carries(v)
BY DEF Goto, Basics, Executes, Carries

\* swapIn: the fiber is not executed by anybody, so its assertion holds.
LEMMA SwapInStates ==
    ASSUME Basics, CurrentInv, StateInv, TaskInv, NEW w \in Worker, SwapIn(w)
    PROVE  StateInv'
<1>1. PICK f \in Fiber : f = task[w]
  BY DEF SwapIn, At, CurrentInv, Busy
<1>2. /\ pc[w] = "switch" /\ aborted = "no" /\ HandsOK /\ HandOK(w)
      /\ m_state[f] \in {"NONE", "READY"}
  BY <1>1 DEF SwapIn, At, StateInv, HandsOK, HandOK
<1>3. /\ aborted' = "no" /\ UNCHANGED <<m_tasks, task>> /\ Goto(w, "run") /\ "run" \in AllPC
      /\ m_state'[f] = "EXEC" /\ saved'[f] = FALSE /\ t_fiber'[w] = f
      /\ \A g \in Fiber : g # f => m_state'[g] = m_state[g] /\ saved'[g] = saved[g]
      /\ \A v \in Worker : v # w => t_fiber'[v] = t_fiber[v]
  BY <1>1, <1>2 DEF SwapIn, Basics, AllPC, WorkerPC
<1>4. /\ pc'[w] = "run"
      /\ \A v \in Worker : v # w => /\ pc'[v] = pc[v]
                                    /\ Executes(v)' <=> Executes(v)
                                    /\ Carries(v)' <=> Carries(v)
  BY <1>3, OthersStay
<1>5. Carries(w) /\ Carries(w)' /\ Executes(w)' /\ ~Executes(w) /\ Carried(f)
  BY <1>1, <1>2, <1>4 DEF Carries, Executes, Carried
<1>6. \A v \in Worker : v # w /\ task[v] = f => ~Executes(v) /\ ~Carries(v)
  BY <1>1, <1>2, <1>5 DEF HandsOK, HandOK, TaskInv
<1>7. \A v \in Worker : Executes(v) => task[v] \in Fiber
  BY DEF CurrentInv, Busy, Executes
<1>8. OneThreadPerFiber'
  <2>1. \A v \in Worker : Executes(v)' => t_fiber'[v] = task'[v] /\ m_state'[task'[v]] = "EXEC"
    BY <1>1, <1>3, <1>4, <1>6, <1>7 DEF StateInv, OneThreadPerFiber, Executes
  <2>2. \A u, v \in Worker : Executes(u)' /\ Executes(v)' /\ task'[u] = task'[v] => u = v
    BY <1>1, <1>3, <1>4, <1>6 DEF StateInv, OneThreadPerFiber, Executes
  <2> QED BY <2>1, <2>2 DEF OneThreadPerFiber, Executes
<1>9. \A g : Carried(g)' => Carried(g)
  BY <1>3, <1>4, <1>5 DEF Carried
<1>10. \A v \in Worker : HandOK(v)'
  <2>1. HandOK(w)'
    BY <1>1, <1>3, <1>4 DEF HandOK, Executes
  <2>2. ASSUME NEW v \in Worker, v # w PROVE HandOK(v)'
    <3>1. HandOK(v) /\ (v \in Busy => task[v] \in Fiber)
      BY <1>2 DEF HandsOK, CurrentInv
    <3>2. CASE task[v] = f
      BY <1>3, <1>4, <1>6, <2>2, <3>2 DEF HandOK, Executes, Carries
    <3>3. CASE task[v] # f
      BY <1>3, <1>4, <1>9, <2>2, <3>1, <3>3 DEF HandOK, Busy, Executes
    <3> QED BY <3>2, <3>3
  <2> QED BY <2>1, <2>2
<1>11. \A g \in Fiber : StateOK(g)'
  BY <1>1, <1>2, <1>3, <1>4, <1>5 DEF HandsOK, StateOK
<1>12. TasksOK'
  <2> SUFFICES ASSUME NEW i \in DOMAIN m_tasks PROVE TaskOK(m_tasks[i])'
    BY <1>3 DEF TasksOK
  <2>1. m_tasks[i] \in Task /\ m_tasks[i].fiber # f
    BY <1>5, LenProperties, ElementOfSeq DEF TaskInv, Queued, Basics
  <2> QED BY <1>2, <1>3, <2>1 DEF HandsOK, TasksOK, TaskOK, Task
<1> QED BY <1>3, <1>8, <1>10, <1>11, <1>12 DEF StateInv, AssertionBlamed, HandsOK

\* YieldToReady: the fiber is READY from now on, and w is at its swapcontext.
LEMMA YieldStates ==
    ASSUME Basics, CurrentInv, StateInv, NEW w \in Worker, YieldToReady(w)
    PROVE  StateInv'
<1>1. PICK f \in Fiber : f = task[w] /\ f = t_fiber[w]
  BY DEF YieldToReady, At, CurrentInv, Busy
<1>2. /\ pc[w] = "yield" /\ aborted = "no" /\ HandsOK
      /\ m_state[f] = "EXEC" /\ ~Carried(f)
  BY <1>1 DEF YieldToReady, At, StateInv, HandsOK, HandOK, Executes
<1>3. /\ aborted' = "no" /\ UNCHANGED <<m_tasks, task, saved>> /\ Goto(w, "save") /\ "save" \in AllPC
      /\ m_state'[f] = "READY" /\ \A g \in Fiber : g # f => m_state'[g] = m_state[g]
      /\ \A v \in Worker : v # w => t_fiber'[v] = t_fiber[v]
  BY <1>1, <1>2 DEF YieldToReady, Basics, AllPC, WorkerPC
<1>4. /\ pc'[w] = "save"
      /\ \A v \in Worker : v # w => /\ pc'[v] = pc[v]
                                    /\ Executes(v)' <=> Executes(v)
                                    /\ Carries(v)' <=> Carries(v)
  BY <1>3, OthersStay
<1>5. ~Carries(w) /\ ~Carries(w)' /\ Executes(w) /\ ~Executes(w)'
  BY <1>2, <1>4 DEF Carries, Executes
<1>6. \A v \in Worker : v # w /\ task[v] = f => ~Executes(v) /\ ~Carries(v)
  BY <1>1, <1>2, <1>5 DEF StateInv, OneThreadPerFiber, Executes, Carried
<1>7. \A v \in Worker : Executes(v) => task[v] \in Fiber
  BY DEF CurrentInv, Busy, Executes
<1>8. OneThreadPerFiber'
  <2>1. \A v \in Worker : Executes(v)' => v # w /\ t_fiber'[v] = task'[v] /\ m_state'[task'[v]] = "EXEC"
    BY <1>3, <1>4, <1>5, <1>6, <1>7 DEF StateInv, OneThreadPerFiber, Executes
  <2>2. \A u, v \in Worker : Executes(u)' /\ Executes(v)' /\ task'[u] = task'[v] => u = v
    BY <1>3, <1>4, <1>5 DEF StateInv, OneThreadPerFiber, Executes
  <2> QED BY <2>1, <2>2 DEF OneThreadPerFiber, Executes
<1>9. \A g : Carried(g)' => Carried(g)
  BY <1>3, <1>4, <1>5 DEF Carried
<1>10. \A v \in Worker : HandOK(v)'
  <2>1. HandOK(w)'
    BY <1>1, <1>3, <1>4 DEF HandOK, Executes
  <2>2. ASSUME NEW v \in Worker, v # w PROVE HandOK(v)'
    <3>1. HandOK(v) /\ (v \in Busy => task[v] \in Fiber)
      BY <1>2 DEF HandsOK, CurrentInv
    <3>2. CASE task[v] = f
      BY <1>3, <1>4, <1>6, <2>2, <3>2 DEF HandOK, Executes, Carries
    <3>3. CASE task[v] # f
      BY <1>3, <1>4, <1>9, <2>2, <3>1, <3>3 DEF HandOK, Busy, Executes
    <3> QED BY <3>2, <3>3
  <2> QED BY <2>1, <2>2
<1>11. \A g \in Fiber : StateOK(g)'
  <2>1. StateOK(f)'
    BY <1>1, <1>3, <1>4 DEF StateOK
  <2>2. ASSUME NEW g \in Fiber, g # f PROVE StateOK(g)'
    <3>1. StateOK(g)
      BY <1>2 DEF HandsOK
    <3>2. \A v \in Worker : task[v] = g => v # w
      BY <1>1, <2>2
    <3> QED BY <1>3, <1>4, <2>2, <3>1, <3>2 DEF StateOK
  <2> QED BY <2>1, <2>2
<1>12. TasksOK'
  <2> SUFFICES ASSUME NEW i \in DOMAIN m_tasks PROVE TaskOK(m_tasks[i])'
    BY <1>3 DEF TasksOK
  <2>1. m_tasks[i] \in Task
    BY LenProperties, ElementOfSeq DEF Basics
  <2> QED BY <1>2, <1>3, <2>1 DEF HandsOK, TasksOK, TaskOK, Task
<1> QED BY <1>3, <1>8, <1>10, <1>11, <1>12 DEF StateInv, AssertionBlamed, HandsOK

\* swapcontext has stored the context.
LEMMA SaveStates ==
    ASSUME Basics, CurrentInv, StateInv, NEW w \in Worker, SaveContext(w)
    PROVE  StateInv'
<1>1. PICK f \in Fiber : f = task[w]
  BY DEF SaveContext, At, CurrentInv, Busy
<1>2. pc[w] = "save" /\ aborted = "no" /\ HandsOK
  BY DEF SaveContext, At, StateInv
<1>3. /\ aborted' = "no" /\ UNCHANGED <<m_tasks, task, m_state, t_fiber>>
      /\ Goto(w, "back") /\ "back" \in AllPC
      /\ saved'[f] = TRUE /\ \A g \in Fiber : g # f => saved'[g] = saved[g]
  BY <1>1, <1>2 DEF SaveContext, Basics, AllPC, WorkerPC
<1>4. /\ pc'[w] = "back"
      /\ \A v \in Worker : v # w => /\ pc'[v] = pc[v]
                                    /\ Executes(v)' <=> Executes(v)
                                    /\ Carries(v)' <=> Carries(v)
  BY <1>3, OthersStay
<1>5. ~Carries(w) /\ ~Carries(w)' /\ ~Executes(w) /\ ~Executes(w)'
  BY <1>2, <1>4 DEF Carries, Executes
<1>6. OneThreadPerFiber'
  BY <1>3, <1>4, <1>5 DEF StateInv, OneThreadPerFiber, Executes
<1>7. \A g : Carried(g)' <=> Carried(g)
  BY <1>3, <1>4, <1>5 DEF Carried
<1>8. \A v \in Worker : HandOK(v)'
  BY <1>2, <1>3, <1>4, <1>5, <1>7 DEF HandsOK, HandOK
<1>9. \A g \in Fiber : StateOK(g)'
  BY <1>1, <1>2, <1>3, <1>4, <1>5 DEF HandsOK, StateOK
<1>10. TasksOK'
  BY <1>2, <1>3 DEF HandsOK, TasksOK, TaskOK
<1> QED BY <1>3, <1>6, <1>8, <1>9, <1>10 DEF StateInv, AssertionBlamed, HandsOK

\* The callback returns: nobody else executes or carries its fiber.
LEMMA FinishStates ==
    ASSUME Basics, CurrentInv, StateInv, TaskInv, NEW w \in Worker, Finish(w)
    PROVE  StateInv'
<1>1. PICK f \in Fiber : f = task[w] /\ f = t_fiber[w]
  BY DEF Finish, At, CurrentInv, Busy
<1>2. pc[w] = "run" /\ aborted = "no" /\ HandsOK
  BY DEF Finish, At, StateInv
<1>3. /\ aborted' = "no" /\ UNCHANGED <<m_tasks, task, saved>> /\ Goto(w, "back") /\ "back" \in AllPC
      /\ m_state'[f] = "TERM" /\ \A g \in Fiber : g # f => m_state'[g] = m_state[g]
      /\ \A v \in Worker : v # w => t_fiber'[v] = t_fiber[v]
  BY <1>1, <1>2 DEF Finish, Basics, AllPC, WorkerPC
<1>4. /\ pc'[w] = "back"
      /\ \A v \in Worker : v # w => /\ pc'[v] = pc[v]
                                    /\ Executes(v)' <=> Executes(v)
                                    /\ Carries(v)' <=> Carries(v)
  BY <1>3, OthersStay
<1>5. Carries(w) /\ ~Carries(w)' /\ Executes(w) /\ ~Executes(w)' /\ Carried(f)
  BY <1>1, <1>2, <1>4 DEF Carries, Executes, Carried
<1>6. \A v \in Worker : v # w /\ task[v] = f => ~Executes(v) /\ ~Carries(v)
  BY <1>1, <1>5 DEF StateInv, OneThreadPerFiber, Executes, TaskInv
<1>7. \A v \in Worker : Executes(v) => task[v] \in Fiber
  BY DEF CurrentInv, Busy, Executes
<1>8. OneThreadPerFiber'
  <2>1. \A v \in Worker : Executes(v)' => v # w /\ t_fiber'[v] = task'[v] /\ m_state'[task'[v]] = "EXEC"
    BY <1>3, <1>4, <1>5, <1>6, <1>7 DEF StateInv, OneThreadPerFiber, Executes
  <2>2. \A u, v \in Worker : Executes(u)' /\ Executes(v)' /\ task'[u] = task'[v] => u = v
    BY <1>3, <1>4, <1>5 DEF StateInv, OneThreadPerFiber, Executes
  <2> QED BY <2>1, <2>2 DEF OneThreadPerFiber, Executes
<1>9. \A g : Carried(g)' => Carried(g)
  BY <1>3, <1>4, <1>5 DEF Carried
<1>10. \A v \in Worker : HandOK(v)'
  <2>1. HandOK(w)'
    BY <1>1, <1>3, <1>4 DEF HandOK, Executes
  <2>2. ASSUME NEW v \in Worker, v # w PROVE HandOK(v)'
    <3>1. HandOK(v) /\ (v \in Busy => task[v] \in Fiber)
      BY <1>2 DEF HandsOK, CurrentInv
    <3>2. CASE task[v] = f
      BY <1>3, <1>4, <1>6, <2>2, <3>2 DEF HandOK, Executes, Carries
    <3>3. CASE task[v] # f
      BY <1>3, <1>4, <1>9, <2>2, <3>1, <3>3 DEF HandOK, Busy, Executes
    <3> QED BY <3>2, <3>3
  <2> QED BY <2>1, <2>2
<1>11. \A g \in Fiber : StateOK(g)'
  <2>1. StateOK(f)'
    BY <1>1, <1>3, <1>4 DEF StateOK
  <2>2. ASSUME NEW g \in Fiber, g # f PROVE StateOK(g)'
    <3>1. StateOK(g)
      BY <1>2 DEF HandsOK
    <3>2. \A v \in Worker : task[v] = g => v # w
      BY <1>1, <2>2
    <3> QED BY <1>3, <1>4, <2>2, <3>1, <3>2 DEF StateOK
  <2> QED BY <2>1, <2>2
<1>12. TasksOK'
  <2> SUFFICES ASSUME NEW i \in DOMAIN m_tasks PROVE TaskOK(m_tasks[i])'
    BY <1>3 DEF TasksOK
  <2>1. m_tasks[i] \in Task /\ m_tasks[i].fiber # f
    BY <1>5, LenProperties, ElementOfSeq DEF TaskInv, Queued, Basics
  <2> QED BY <1>2, <1>3, <2>1 DEF HandsOK, TasksOK, TaskOK, Task
<1> QED BY <1>3, <1>8, <1>10, <1>11, <1>12 DEF StateInv, AssertionBlamed, HandsOK

\* The fiber has queued itself, or has registered for its event, and will yield.
LEMMA LeaveStates ==
    ASSUME Basics, CurrentInv, StateInv, TaskInv, NEW w \in Worker,
           pc[w] = "run", aborted = "no", Goto(w, "yield"),
           UNCHANGED <<m_state, saved, task, t_fiber, aborted>>, TasksOK => TasksOK'
    PROVE  StateInv'
<1>1. HandsOK /\ "yield" \in AllPC
  BY DEF StateInv, AllPC, WorkerPC
<1>2. /\ pc'[w] = "yield"
      /\ \A v \in Worker : v # w => /\ pc'[v] = pc[v]
                                    /\ Executes(v)' <=> Executes(v)
                                    /\ Carries(v)' <=> Carries(v)
  BY <1>1, OthersStay
<1>3. Carries(w) /\ ~Carries(w)' /\ Executes(w) /\ Executes(w)'
  BY <1>2 DEF Carries, Executes
<1>4. \A v \in Worker : Executes(v)' <=> Executes(v)
  BY <1>2, <1>3
<1>5. OneThreadPerFiber'
  BY <1>4 DEF StateInv, OneThreadPerFiber, Executes
<1>6. (\A g : Carried(g)' => Carried(g)) /\ ~Carried(task[w])'
  BY <1>2, <1>3 DEF Carried, TaskInv
<1>7. \A v \in Worker : HandOK(v)'
  BY <1>1, <1>2, <1>3, <1>6 DEF HandsOK, HandOK
<1>8. \A g \in Fiber : StateOK(g)'
  BY <1>1, <1>2, <1>4 DEF HandsOK, StateOK
<1> QED BY <1>1, <1>5, <1>7, <1>8 DEF StateInv, AssertionBlamed, HandsOK

\* run() lets go of its task.
LEMMA BackStates ==
    ASSUME Basics, StateInv, NEW w \in Worker, Back(w)
    PROVE  StateInv'
<1>1. /\ pc[w] = "back" /\ aborted = "no" /\ HandsOK /\ Goto(w, "scan") /\ "scan" \in AllPC
      /\ UNCHANGED <<m_tasks, m_state, saved, t_fiber, aborted>>
      /\ \A v \in Worker : v # w => task'[v] = task[v]
  BY DEF Back, At, StateInv, fiberVars, AllPC, WorkerPC, Basics
<1>2. /\ pc'[w] = "scan"
      /\ \A v \in Worker : v # w => /\ pc'[v] = pc[v]
                                    /\ Executes(v)' <=> Executes(v)
                                    /\ Carries(v)' <=> Carries(v)
  BY <1>1, OthersStay
<1>3. ~Carries(w) /\ ~Carries(w)' /\ ~Executes(w) /\ ~Executes(w)'
  BY <1>1, <1>2 DEF Carries, Executes
<1>4. OneThreadPerFiber'
  BY <1>1, <1>2, <1>3 DEF StateInv, OneThreadPerFiber, Executes
<1>5. \A g : Carried(g)' <=> Carried(g)
  BY <1>1, <1>2, <1>3 DEF Carried
<1>6. \A v \in Worker : HandOK(v)'
  BY <1>1, <1>2, <1>3, <1>5 DEF HandsOK, HandOK
<1>7. \A g \in Fiber : StateOK(g)'
  BY <1>1, <1>2, <1>3 DEF HandsOK, StateOK
<1>8. TasksOK'
  BY <1>1 DEF HandsOK, TasksOK, TaskOK
<1> QED BY <1>1, <1>4, <1>6, <1>7, <1>8 DEF StateInv, AssertionBlamed, HandsOK

-----------------------------------------------------------------------------
(* PlaceInv, one lemma per kind of step.                                   *)

\* No fiber enters or leaves the list, and nobody carries one more.
LEMMA TaskInvStays ==
    ASSUME TaskInv, m_tasks' = m_tasks,
           \A v \in Worker : Carries(v)' => Carries(v) /\ task'[v] = task[v]
    PROVE  TaskInv'
<1>1. \A g : (Queued(g)' <=> Queued(g)) /\ (Carried(g)' => Carried(g))
  BY DEF Queued, Carried
<1> QED BY <1>1 DEF TaskInv, QueuedOnce

\* A fiber enters the list that was not in it and that nobody carries.
LEMMA TaskInvAppend ==
    ASSUME TaskInv, m_tasks \in Seq(Task), NEW t \in Task, m_tasks' = Append(m_tasks, t),
           ~Queued(t.fiber), ~Carried(t.fiber)',
           \A v \in Worker : Carries(v)' => Carries(v) /\ task'[v] = task[v]
    PROVE  TaskInv'
<1>1. (\A g : Queued(g)' <=> Queued(g) \/ g = t.fiber) /\ QueuedOnce'
  BY QueuedAfterAppend DEF TaskInv
<1>2. \A g : Carried(g)' => Carried(g)
  BY DEF Carried
<1> QED BY <1>1, <1>2 DEF TaskInv

\* The parts of SafeInv that the lemmas on StateInv need.
LEMMA SafeParts == SafeInv => Basics /\ CurrentInv /\ TaskInv /\ StateInv /\ FreeInv
BY BasicTypes DEF SafeInv, RunInv, PlaceInv

\* schedule() of an unused fiber, by the owner or by a callback.
LEMMA SchedulePlace ==
    ASSUME SafeInv, NEW f \in Fiber, NEW cb \in BOOLEAN, NEW thread \in Target,
           Schedule(f, cb, thread), UNCHANGED <<pc, task, t_fiber, aborted>>
    PROVE  PlaceInv'
<1>0. Basics /\ CurrentInv /\ TaskInv /\ StateInv /\ FreeInv
  BY SafeParts
<1>1. PICK t \in Task : t = [fiber |-> f, cb |-> cb, thread |-> thread]
  BY DEF Task
<1>2. /\ m_tasks \in Seq(Task) /\ m_tasks' = Append(m_tasks, t) /\ t.fiber = f /\ ~Queued(f)
      /\ \A w \in Worker : task[w] # f
      /\ \A g \in Fiber : g # f => m_state'[g] = m_state[g]
  BY <1>0, <1>1 DEF Schedule, Unused, Basics
<1>3. \A g : Carried(g)' <=> Carried(g)
  BY DEF Carried, Carries
<1>4. ~Carried(f)' /\ \A v \in Worker : Carries(v)' => Carries(v) /\ task'[v] = task[v]
  BY <1>2, <1>3 DEF Carried, Carries
<1>5. TaskInv'
  BY <1>0, <1>2, <1>4, TaskInvAppend
<1>6. FreeInv'
  BY <1>0, <1>2, <1>3, QueuedAfterAppend DEF FreeInv
<1>7. StateInv'
  BY <1>0, ScheduleStates
<1> QED BY <1>5, <1>6, <1>7 DEF PlaceInv

\* A worker moves without a task, and touches neither the list nor a fiber.
LEMMA QuietPlace ==
    ASSUME SafeInv, UNCHANGED <<m_tasks, m_state, saved, task, aborted>>,
           Busy' = Busy, \A w \in Busy : pc'[w] = pc[w] /\ t_fiber'[w] = t_fiber[w]
    PROVE  PlaceInv'
<1>0. Basics /\ CurrentInv /\ TaskInv /\ StateInv /\ FreeInv
  BY SafeParts
<1>1. \A v \in Worker : Carries(v)' <=> Carries(v)
  BY DEF Carries, Busy
<1>2. TaskInv'
  BY <1>0, <1>1, TaskInvStays
<1>3. FreeInv'
  BY <1>0, <1>1 DEF FreeInv, Queued, Carried
<1>4. TasksOK => TasksOK'
  BY DEF TasksOK, TaskOK
<1>5. StateInv'
  BY <1>0, <1>4, QuietStates
<1> QED BY <1>2, <1>3, <1>5 DEF PlaceInv

\* A task is taken: its fiber goes from the list to the worker.
LEMMA TakeTokens ==
    ASSUME Basics, TaskInv, NEW w \in Worker, TakeTask(w)
    PROVE  \E f \in Fiber :
              /\ Queued(f) /\ ~Carried(f) /\ task'[w] = f
              /\ \A v \in Worker : v # w => pc'[v] = pc[v] /\ task'[v] = task[v]
              /\ \E i \in DOMAIN m_tasks : m_tasks[i].fiber = f
              /\ \A g : Queued(g)' <=> Queued(g) /\ g # f
              /\ \A g : Carried(g)' <=> Carried(g) \/ g = f
              /\ m_state' = m_state /\ TaskInv'
<1>1. PICK i \in Eligible(w) :
        task' = [task EXCEPT ![w] = m_tasks[i].fiber] /\ m_tasks' = Without(m_tasks, i)
  BY DEF TakeTask
<1>2. i \in DOMAIN m_tasks /\ m_tasks \in Seq(Task) /\ m_tasks[i] \in Task
  BY LenProperties, ElementOfSeq DEF Eligible, Basics
<1>3. PICK f \in Fiber : f = m_tasks[i].fiber
  BY <1>2 DEF Task
<1>4. /\ m_state' = m_state /\ pc'[w] = "switch" /\ task'[w] = f /\ ~Carries(w)
      /\ \A v \in Worker : v # w => /\ pc'[v] = pc[v] /\ task'[v] = task[v]
                                    /\ Carries(v)' <=> Carries(v)
  BY <1>1, <1>3 DEF TakeTask, At, Goto, fiberVars, Basics, Carries
<1>5. (\A g : Queued(g)' <=> Queued(g) /\ g # f) /\ QueuedOnce'
  BY <1>1, <1>2, <1>3, QueuedAfterErase DEF TaskInv
<1>6. Queued(f) /\ ~Carried(f)
  BY <1>2, <1>3 DEF Queued, TaskInv
<1>7. \A g : Carried(g)' <=> Carried(g) \/ g = f
  BY <1>4 DEF Carried, Carries
<1>8. TaskInv'
  <2>1. \A u, v \in Worker : Carries(u)' /\ Carries(v)' /\ task'[u] = task'[v] => u = v
    BY <1>4, <1>6 DEF TaskInv, Carried
  <2> QED BY <1>5, <1>7, <2>1 DEF TaskInv
<1> QED BY <1>2, <1>3, <1>4, <1>5, <1>6, <1>7, <1>8

\* A worker takes a task.
LEMMA TakeTaskPlace ==
    ASSUME SafeInv, NEW w \in Worker, TakeTask(w)
    PROVE  PlaceInv'
<1>0. Basics /\ CurrentInv /\ TaskInv /\ StateInv /\ FreeInv
  BY SafeParts
<1>1. PICK f \in Fiber : /\ \A g : Queued(g)' <=> Queued(g) /\ g # f
                         /\ \A g : Carried(g)' <=> Carried(g) \/ g = f
                         /\ m_state' = m_state /\ TaskInv'
  BY <1>0, TakeTokens
<1>2. FreeInv'
  BY <1>0, <1>1 DEF FreeInv
<1>3. StateInv'
  BY <1>0, TakeStates
<1> QED BY <1>1, <1>2, <1>3 DEF PlaceInv

\* A fiber puts itself into the queue, for any thread.
LEMMA RescheduleSelfPlace ==
    ASSUME SafeInv, NEW w \in Worker, NEW thread \in Target, RescheduleSelf(w, thread)
    PROVE  PlaceInv'
<1>0. Basics /\ CurrentInv /\ TaskInv /\ StateInv /\ FreeInv
  BY SafeParts
<1>1. PICK f \in Fiber : f = task[w] /\ f = t_fiber[w]
  BY <1>0 DEF RescheduleSelf, At, CurrentInv, Busy
<1>2. PICK t \in Task : t = [fiber |-> f, cb |-> FALSE, thread |-> thread]
  BY DEF Task
<1>3. /\ m_tasks \in Seq(Task) /\ m_tasks' = Append(m_tasks, t) /\ t.fiber = f /\ t.cb = FALSE
      /\ UNCHANGED <<m_state, saved, task, t_fiber, aborted>> /\ Goto(w, "yield")
      /\ pc[w] = "run" /\ aborted = "no"
  BY <1>0, <1>1, <1>2 DEF RescheduleSelf, At, Basics
<1>4. /\ pc'[w] = "yield"
      /\ \A v \in Worker : v # w => (Carries(v)' <=> Carries(v))
  BY <1>0, <1>3, OthersStay DEF AllPC, WorkerPC
<1>5. Carries(w) /\ ~Carries(w)' /\ Carried(f)
  BY <1>1, <1>3, <1>4 DEF Carries, Carried
<1>6. ~Queued(f) /\ ~Carried(f)' /\ \A g : g # f => (Carried(g)' <=> Carried(g))
  BY <1>0, <1>1, <1>3, <1>4, <1>5 DEF TaskInv, Carried
<1>7. TaskInv'
  BY <1>0, <1>3, <1>4, <1>5, <1>6, TaskInvAppend
<1>8. FreeInv'
  BY <1>0, <1>3, <1>6, QueuedAfterAppend DEF FreeInv
<1>9. m_state[f] = "EXEC"
  BY <1>0, <1>1, <1>3 DEF StateInv, OneThreadPerFiber
<1>10. TasksOK => TasksOK'
  BY <1>3, <1>9, AppendTasksOK DEF TaskOK
<1>11. StateInv'
  BY <1>0, <1>3, <1>10, LeaveStates
<1> QED BY <1>7, <1>8, <1>11 DEF PlaceInv

\* run() lets go of its task.
LEMMA BackPlace ==
    ASSUME SafeInv, NEW w \in Worker, Back(w)
    PROVE  PlaceInv'
<1>0. Basics /\ CurrentInv /\ TaskInv /\ StateInv /\ FreeInv
  BY SafeParts
<1>1. /\ m_tasks' = m_tasks /\ m_state' = m_state /\ Goto(w, "scan") /\ pc[w] = "back"
      /\ \A v \in Worker : v # w => task'[v] = task[v]
  BY <1>0 DEF Back, At, fiberVars, Basics
<1>2. /\ ~Carries(w) /\ ~Carries(w)'
      /\ \A v \in Worker : v # w => (Carries(v)' <=> Carries(v))
  BY <1>0, <1>1 DEF Carries, Goto, Basics
<1>3. TaskInv'
  BY <1>0, <1>1, <1>2, TaskInvStays
<1>4. FreeInv'
  BY <1>0, <1>1, <1>2 DEF FreeInv, Queued, Carried
<1>5. StateInv'
  BY <1>0, BackStates
<1> QED BY <1>3, <1>4, <1>5 DEF PlaceInv

\* The switches of a worker that holds a task: swapIn, YieldToReady up to
\* swapcontext, swapcontext itself, and the end of the callback.
LEMMA SwitchTokens ==
    ASSUME Basics, CurrentInv, StateInv, TaskInv, NEW w \in Worker,
           SwapIn(w) \/ YieldToReady(w) \/ SaveContext(w) \/ Finish(w)
    PROVE  \E f \in Fiber :
              /\ f = task[w] /\ m_tasks' = m_tasks /\ task' = task
              /\ \A v \in Worker : v # w => pc'[v] = pc[v]
              /\ \A g \in Fiber : g # f => m_state'[g] = m_state[g]
              /\ \A g : Queued(g)' <=> Queued(g)
              /\ \A g : g # f => (Carried(g)' <=> Carried(g))
              /\ m_state'[f] # "TERM" /\ Carried(f) => Carried(f)'
              /\ m_state'[f] = m_state[f] \/ m_state[f] = "EXEC" \/ Carried(f)'
              /\ m_state'[f] = m_state[f] \/ m_state'[f] = "READY" \/ Carried(f)
              /\ Carried(f)' => Carried(f)
              /\ TaskInv'
<1>2. PICK f \in Fiber : f = task[w]
  BY DEF SwapIn, YieldToReady, SaveContext, Finish, At, CurrentInv, Busy
<1>3. /\ m_tasks' = m_tasks /\ task' = task
      /\ \A v \in Worker : v # w => pc'[v] = pc[v]
      /\ \A g \in Fiber : g # f => m_state'[g] = m_state[g]
  BY <1>2 DEF SwapIn, YieldToReady, SaveContext, Finish, At, Goto, Basics, CurrentInv
<1>4. /\ Carries(w)' => Carries(w)
      /\ ~Carries(w)' /\ Carries(w) => m_state'[f] = "TERM"
      /\ m_state'[f] = m_state[f] \/ m_state[f] = "EXEC" \/ Carries(w)'
      /\ m_state'[f] = m_state[f] \/ m_state'[f] = "READY" \/ Carries(w)
  <2> USE <1>2 DEF At, Goto, Basics, Carries
  <2>1. CASE SwapIn(w)
    BY <2>1 DEF SwapIn
  <2>2. CASE YieldToReady(w)
    BY <2>2 DEF YieldToReady, CurrentInv, StateInv, OneThreadPerFiber
  <2>3. CASE SaveContext(w)
    BY <2>3 DEF SaveContext
  <2>4. CASE Finish(w)
    BY <2>4 DEF Finish, CurrentInv, StateInv, OneThreadPerFiber
  <2> QED BY <2>1, <2>2, <2>3, <2>4
<1>5. \A v \in Worker : Carries(v)' => Carries(v) /\ task'[v] = task[v]
  BY <1>3, <1>4 DEF Carries
<1>6. TaskInv'
  BY <1>3, <1>5, TaskInvStays
<1>7. \A g : Queued(g)' <=> Queued(g)
  BY <1>3 DEF Queued
<1>8. \A g : g # f => (Carried(g)' <=> Carried(g))
  BY <1>2, <1>3 DEF Carried, Carries
<1>9. m_state'[f] # "TERM" /\ Carried(f) => Carried(f)'
  BY <1>2, <1>3, <1>4 DEF Carried, Carries
<1>10. (Carries(w)' => Carried(f)') /\ (Carries(w) => Carried(f)) /\ (Carried(f)' => Carried(f))
  BY <1>2, <1>3, <1>5 DEF Carried
<1> QED BY <1>2, <1>3, <1>4, <1>6, <1>7, <1>8, <1>9, <1>10

\* These switches keep every fiber at its place, or end it.
\* These switches keep every fiber at its place, or end it.
LEMMA SwitchPlace ==
    ASSUME SafeInv, NEW w \in Worker,
           SwapIn(w) \/ YieldToReady(w) \/ SaveContext(w) \/ Finish(w)
    PROVE  PlaceInv'
<1>0. Basics /\ CurrentInv /\ TaskInv /\ StateInv /\ FreeInv
  BY SafeParts
<1>1. StateInv'
  BY <1>0, SwapInStates, YieldStates, SaveStates, FinishStates
<1>2. PICK f \in Fiber :
              /\ \A g \in Fiber : g # f => m_state'[g] = m_state[g]
              /\ \A g : Queued(g)' <=> Queued(g)
              /\ \A g : g # f => (Carried(g)' <=> Carried(g))
              /\ m_state'[f] # "TERM" /\ Carried(f) => Carried(f)'
              /\ m_state'[f] = m_state[f] \/ m_state[f] = "EXEC" \/ Carried(f)'
              /\ TaskInv'
  BY <1>0, SwitchTokens
<1>3. FreeInv'
  BY <1>0, <1>2 DEF FreeInv
<1> QED BY <1>1, <1>2, <1>3 DEF PlaceInv

\* The steps without a task.
LEMMA IdlePlace ==
    ASSUME SafeInv, NEW w \in Worker,
           NoTask(w) \/ EnterIdle(w) \/ Idle(w) \/ LeaveIdle(w)
    PROVE  PlaceInv'
<1>1. PICK x \in WorkerPC \ BusyPC : Goto(w, x)
  BY DEF NoTask, EnterIdle, Idle, LeaveIdle, WorkerPC, BusyPC
<1>2. /\ UNCHANGED <<m_tasks, m_state, saved, task, aborted>> /\ w \notin Busy
      /\ \A v \in Worker : v # w => t_fiber'[v] = t_fiber[v]
  BY DEF NoTask, EnterIdle, Idle, LeaveIdle, fiberVars, At, Busy, SafeInv, RunInv, TypeOK
<1>3. Busy' = Busy /\ \A v \in Busy : pc'[v] = pc[v]
  BY <1>1, <1>2 DEF Goto, Busy, BusyPC, SafeInv, RunInv, TypeOK
<1>4. \A v \in Busy : t_fiber'[v] = t_fiber[v]
  BY <1>2 DEF Busy
<1> QED BY <1>2, <1>3, <1>4, QuietPlace

\* start(), stop() and the joins.
LEMMA OwnerPlace ==
    ASSUME SafeInv, Start \/ Stop \/ Join
    PROVE  PlaceInv'
<1>0. TypeOK /\ OwnerInv
  BY DEF SafeInv, RunInv
<1>1. UNCHANGED <<m_tasks, m_state, saved, task, aborted>>
  BY DEF Start, Stop, Join, fiberVars
<1>2. Busy' = Busy /\ \A v \in Busy : pc'[v] = pc[v]
  <2> USE <1>0, WorkerAssumption DEF OwnerAt, OwnerInv, Goto, Busy, TypeOK, WorkerPC
  <2>1. CASE Start
    BY <2>1 DEF Start
  <2>2. CASE Stop
    BY <2>2 DEF Stop
  <2>3. CASE Join
    BY <2>3 DEF Join
  <2> QED BY <2>1, <2>2, <2>3
<1>3. \A v \in Busy : t_fiber'[v] = t_fiber[v]
  BY <1>0, WorkerAssumption DEF Start, Stop, Join, OwnerAt, OwnerInv, Busy, TypeOK
<1> QED BY <1>1, <1>2, <1>3, QuietPlace

-----------------------------------------------------------------------------
(* The theorems.                                                           *)

\* The scheduler starts with no task and no thread in run().
LEMMA InitRun == Init => RunInv
<1> SUFFICES ASSUME Init PROVE RunInv
  OBVIOUS
<1>1. Busy = {} /\ Idling = {}
  BY DEF Init, Busy, Idling, IdlePC
<1>2. CountersExact
  BY <1>1, FS_EmptySet DEF Init, CountersExact, Idling, IdlePC
<1>3. TypeOK
  BY EmptySeq DEF Init, TypeOK, FiberState, WorkerPC
<1>4. CurrentInv /\ OwnerInv /\ EndInv
  BY <1>1, WorkerAssumption DEF Init, CurrentInv, OwnerInv, EndInv
<1> QED BY <1>2, <1>3, <1>4 DEF RunInv

\* Every step of the owner, of run() and of a callback keeps RunInv.
LEMMA NextRun == RunInv /\ [Next]_vars => RunInv'
<1> SUFFICES ASSUME RunInv, [Next]_vars PROVE RunInv'
  OBVIOUS
<1>1. CASE OwnerStep /\ ~StopAgain
  BY <1>1, StartRun, StopRun, JoinRun, OwnerSchedulesRun DEF OwnerStep
<1>2. ASSUME NEW w \in Worker, RunStep(w) PROVE RunInv'
  BY <1>2, TakeTaskRun, NoTaskRun, SwapInRun, BackRun, EnterIdleRun, IdleRun, LeaveIdleRun
     DEF RunStep
<1>3. ASSUME NEW w \in Worker, FiberStep(w) PROVE RunInv'
  BY <1>3, RescheduleSelfRun, YieldToReadyRun, SaveContextRun, FinishRun, FiberSchedulesRun
     DEF FiberStep
<1>4. CASE StopAgain \/ UNCHANGED vars
  <2>1. UNCHANGED vars
    BY <1>4 DEF StopAgain
  <2> QED BY <2>1 DEF vars, fiberVars, countVars, RunInv, TypeOK, CountersExact, CurrentInv,
                  OwnerInv, EndInv, Busy
<1> QED BY <1>1, <1>2, <1>3, <1>4 DEF Next

\* The counters, the owner and the ends of the idle fibers are right whatever
\* the callbacks do.
THEOREM RunInvHolds == Spec => []RunInv
BY InitRun, NextRun, PTL DEF Spec

\* Every step keeps every fiber at its place.
LEMMA NextPlace == SafeInv /\ [Next]_vars => PlaceInv'
<1> SUFFICES ASSUME SafeInv, [Next]_vars PROVE PlaceInv'
  OBVIOUS
<1>1. CASE OwnerStep /\ ~StopAgain
  BY <1>1, OwnerPlace, SchedulePlace DEF OwnerStep, OwnerSchedules
<1>2. ASSUME NEW w \in Worker, RunStep(w) PROVE PlaceInv'
  BY <1>2, TakeTaskPlace, SwitchPlace, BackPlace, IdlePlace DEF RunStep
<1>3. ASSUME NEW w \in Worker, FiberStep(w) PROVE PlaceInv'
  BY <1>3, RescheduleSelfPlace, SwitchPlace, SchedulePlace DEF FiberStep, FiberSchedules
<1>4. CASE StopAgain \/ UNCHANGED vars
  <2>1. UNCHANGED <<m_tasks, m_state, saved, task, aborted, pc, t_fiber>>
    BY <1>4 DEF StopAgain, vars, fiberVars
  <2>2. Busy' = Busy
    BY <2>1 DEF Busy
  <2> QED BY <2>1, <2>2, QuietPlace
<1> QED BY <1>1, <1>2, <1>3, <1>4 DEF Next

\* The inductive invariant holds, wherever a fiber that puts itself back may be
\* taken.
THEOREM SafeInvHolds == Spec => []SafeInv
<1>1. Init => PlaceInv
  <2> SUFFICES ASSUME Init PROVE PlaceInv
    OBVIOUS
  <2>1. DOMAIN m_tasks = {} /\ aborted = "no" /\ \A w \in Worker : pc[w] = "off"
    BY DEF Init
  <2>2. \A w \in Worker : ~Carries(w) /\ ~Executes(w)
    BY <2>1 DEF Carries, Executes
  <2>3. TaskInv /\ FreeInv
    BY <2>1, <2>2 DEF Init, TaskInv, QueuedOnce, Queued, Carried, FreeInv
  <2>4. HandsOK
    BY <2>1, <2>2 DEF Init, HandsOK, HandOK, StateOK, TasksOK
  <2>5. AssertionBlamed /\ OneThreadPerFiber
    BY <2>1 DEF AssertionBlamed, OneThreadPerFiber
  <2> QED BY <2>3, <2>4, <2>5 DEF PlaceInv, StateInv
<1>2. SafeInv /\ [Next]_vars => SafeInv'
  BY NextRun, NextPlace DEF SafeInv
<1>3. Init => SafeInv
  BY <1>1, InitRun DEF SafeInv
<1> QED BY <1>2, <1>3, PTL DEF Spec

\* Nothing is left when an idle fiber has ended.
LEMMA NothingLeft == SafeInv => NothingLeftBehind
<1> SUFFICES ASSUME SafeInv, idleTerm # {} PROVE NothingLeftBehind
  BY DEF NothingLeftBehind
<1>1. m_tasks = <<>> /\ Busy = {}
  BY DEF SafeInv, RunInv, EndInv
<1>2. \A f \in Fiber : ~Queued(f) /\ ~Carried(f)
  BY <1>1 DEF Queued, Carried, Carries, Busy
<1>3. \A f \in Fiber : m_state[f] \in {"NONE", "TERM"}
  BY <1>2 DEF SafeInv, RunInv, TypeOK, FiberState, PlaceInv, FreeInv
<1> QED BY <1>1, <1>3 DEF NothingLeftBehind

\* The counters are exact, and a worker that leaves run() leaves no task and no
\* unfinished fiber behind, even when fibers are taken before they have yielded.
THEOREM SchedInvHolds == Spec => []SchedInv
<1>1. SafeInv => SchedInv
  BY NothingLeft DEF SafeInv, RunInv, SchedInv
<1> QED BY <1>1, SafeInvHolds, PTL

\* Only scheduler.cc:112 can fail, and only for a fiber that another worker still
\* executes after it has been queued; swapIn (fiber.cc:110) never fails.
THEOREM AssertionBlamedHolds == Spec => []AssertionBlamed
<1>1. SafeInv => AssertionBlamed
  BY DEF SafeInv, PlaceInv, StateInv
<1> QED BY <1>1, SafeInvHolds, PTL

\* No two threads execute the same fiber, and GetThis() names the right one,
\* although a fiber may be queued for any thread while it executes.
THEOREM OneThreadPerFiberHolds == Spec => []OneThreadPerFiber
<1>1. SafeInv => OneThreadPerFiber
  BY DEF SafeInv, PlaceInv, StateInv
<1> QED BY <1>1, SafeInvHolds, PTL

\* swapIn() enters a fiber for the first time, through a stored context, or inside
\* the window between READY and swapcontext of another worker.
THEOREM UnsavedOnlyInSwapOutHolds == Spec => UnsavedOnlyInSwapOut
<1> DEFINE Entered == \A w \in Worker : pc[w] = "switch" /\ pc'[w] = "run" =>
                 \/ m_state[task[w]] = "NONE"
                 \/ /\ m_state[task[w]] = "READY"
                    /\ saved[task[w]] \/ \E v \in Worker : pc[v] = "save" /\ task[v] = task[w]
<1>1. SafeInv /\ [Next]_vars => Entered
  <2> SUFFICES ASSUME SafeInv, [Next]_vars, NEW w \in Worker, pc[w] = "switch", pc'[w] = "run"
               PROVE  \/ m_state[task[w]] = "NONE"
                      \/ /\ m_state[task[w]] = "READY"
                         /\ saved[task[w]] \/ \E v \in Worker : pc[v] = "save" /\ task[v] = task[w]
    OBVIOUS
  <2>1. CurrentInv /\ StateInv
    BY SafeParts
  <2>2. aborted = "no"
    <3>1. pc' # pc
      OBVIOUS
    <3> QED BY <3>1 DEF Next, OwnerStep, RunStep, FiberStep, vars, OwnerSchedules, Start, Stop,
              Join, StopAgain, TakeTask, NoTask, SwapIn, Back, EnterIdle, Idle, LeaveIdle,
              RescheduleSelf, YieldToReady, SaveContext, Finish, FiberSchedules, At, OwnerAt
  <2>3. task[w] \in Fiber /\ m_state[task[w]] \in {"NONE", "READY"} /\ StateOK(task[w])
    BY <2>1, <2>2 DEF CurrentInv, Busy, StateInv, HandsOK, HandOK
  <2> QED BY <2>3 DEF StateOK
<1>2. Spec => [][Entered]_vars
  BY <1>1, SafeInvHolds, PTL DEF Spec
<1> QED BY <1>2 DEF UnsavedOnlyInSwapOut

-----------------------------------------------------------------------------
(* Scheduler implements TaskPool.                                          *)

Phases == [f \in Fiber |-> PhaseOf(f)]

Held(f) == \E w \in Busy : task[w] = f

\* The phase of a fiber by where it is.
PhaseByPlace ==
    \A f \in Fiber :
        /\ PhaseOf(f) = "queued" <=> Queued(f)
        /\ PhaseOf(f) = "done" <=> ~Queued(f) /\ m_state[f] = "TERM"
        /\ PhaseOf(f) = "running" <=> ~Queued(f) /\ m_state[f] # "TERM" /\ Held(f)
        /\ PhaseOf(f) = "new" <=> ~Queued(f) /\ m_state[f] # "TERM" /\ ~Held(f)
        /\ PhaseOf(f) \in {"queued", "done", "running", "new"}

\* The phases are exhaustive and exclude each other.
LEMMA PhaseValue == CurrentInv => PhaseByPlace
<1> SUFFICES ASSUME CurrentInv, NEW f \in Fiber PROVE PhaseByPlace!(f)
  BY DEF PhaseByPlace
<1>1. Held(f) <=> \E w \in Worker : task[w] = f
  BY FiberAssumption DEF Held, Busy, CurrentInv
<1> QED BY <1>1 DEF PhaseOf

\* The same after a step.
LEMMA PhaseValueNext == CurrentInv' => PhaseByPlace'
BY PhaseValue, PTL

\* A step in which one fiber goes from one phase to another and the others stay
\* where they are is a step of the pool.
LEMMA OneMoves ==
    ASSUME SafeInv, CurrentInv', NEW f \in Fiber, NEW from, NEW to,
           PhaseOf(f) = from, PhaseOf(f)' = to,
           \A g \in Fiber : g # f => /\ Queued(g)' <=> Queued(g)
                                     /\ Held(g)' <=> Held(g)
                                     /\ m_state'[g] = "TERM" <=> m_state[g] = "TERM",
           owner # "stopped", owner' # "stopped"
    PROVE  Pool!Move(f, from, to)
<1>1. PhaseByPlace /\ PhaseByPlace'
  BY PhaseValue, PhaseValueNext DEF SafeInv, RunInv
<1>2. \A g \in Fiber : g # f => PhaseOf(g)' = PhaseOf(g)
  BY <1>1 DEF PhaseByPlace
<1> QED BY <1>2 DEF Pool!Move

\* A step in which every fiber stays where it is does not show in the pool.
LEMMA NoneMoves ==
    ASSUME SafeInv, CurrentInv',
           \A g \in Fiber : /\ Queued(g)' <=> Queued(g)
                            /\ Queued(g) \/ m_state[g] = "TERM" \/ (Held(g)' <=> Held(g))
                            /\ m_state'[g] = "TERM" <=> m_state[g] = "TERM"
    PROVE  Phases' = Phases
<1>1. PhaseByPlace /\ PhaseByPlace'
  BY PhaseValue, PhaseValueNext DEF SafeInv, RunInv
<1>2. \A g \in Fiber : PhaseOf(g)' = PhaseOf(g)
  BY <1>1 DEF PhaseByPlace
<1> QED BY <1>2 DEF Phases

\* schedule() submits a job.
LEMMA SubmitStep ==
    ASSUME SafeInv, CurrentInv', NEW f \in Fiber, NEW cb \in BOOLEAN, NEW thread \in Target,
           Schedule(f, cb, thread), UNCHANGED <<pc, task, owner>>, owner # "stopped"
    PROVE  Pool!Submit(f)
<1> DEFINE t == [fiber |-> f, cb |-> cb, thread |-> thread]
<1>1. t \in Task /\ t.fiber = f /\ m_tasks \in Seq(Task) /\ m_tasks' = Append(m_tasks, t)
  BY DEF Task, SafeInv, RunInv, TypeOK, Schedule
<1>2. \A g : Queued(g)' <=> Queued(g) \/ g = f
  BY <1>1, QueuedAfterAppend
<1>3. /\ \A g : Held(g)' <=> Held(g)
      /\ ~Held(f) /\ ~Queued(f) /\ m_state[f] = "NONE"
      /\ \A g \in Fiber : g # f => m_state'[g] = m_state[g]
  BY DEF Held, Busy, Schedule, Unused, SafeInv, RunInv, TypeOK
<1>4. PhaseOf(f) = "new" /\ PhaseOf(f)' = "queued"
  BY <1>2, <1>3, PhaseValue, PhaseValueNext DEF PhaseByPlace, SafeInv, RunInv
<1> QED BY <1>2, <1>3, <1>4, OneMoves DEF Pool!Submit

\* A worker that takes a task begins a job.
LEMMA BeginStep ==
    ASSUME SafeInv, CurrentInv', NEW w \in Worker, TakeTask(w)
    PROVE  \E f \in Fiber : Pool!Begin(f)
<1>1. PICK i \in Eligible(w) :
        task' = [task EXCEPT ![w] = m_tasks[i].fiber] /\ m_tasks' = Without(m_tasks, i)
  BY DEF TakeTask
<1>2. i \in DOMAIN m_tasks /\ m_tasks \in Seq(Task) /\ m_tasks[i].fiber \in Fiber
  <2>1. i \in DOMAIN m_tasks /\ m_tasks \in Seq(Task)
    BY DEF Eligible, SafeInv, RunInv, TypeOK
  <2>2. m_tasks[i] \in Task
    BY <2>1, LenProperties, ElementOfSeq
  <2> QED BY <2>1, <2>2 DEF Task
<1> PICK f \in Fiber : f = m_tasks[i].fiber
  BY <1>2
<1>3. \A g : Queued(g)' <=> Queued(g) /\ g # f
  BY <1>1, <1>2, QueuedAfterErase DEF SafeInv, PlaceInv, TaskInv
<1>4. /\ w \notin Busy /\ Busy' = Busy \cup {w} /\ task'[w] = f
      /\ \A v \in Busy : task'[v] = task[v]
      /\ m_state' = m_state /\ owner' = owner /\ owner # "stopped"
  BY <1>1 DEF TakeTask, At, Goto, Busy, SafeInv, RunInv, TypeOK, OwnerInv, fiberVars
<1>5. \A g : Held(g)' <=> Held(g) \/ g = f
  BY <1>4 DEF Held
<1>6. Queued(f) /\ m_state[f] # "TERM"
  <2>1. HandsOK
    BY DEF SafeInv, PlaceInv, StateInv, TakeTask, At
  <2> QED BY <1>2, <2>1 DEF Queued, HandsOK, TasksOK, TaskOK
<1>7. PhaseOf(f) = "queued" /\ PhaseOf(f)' = "running"
  BY <1>2, <1>3, <1>4, <1>5, <1>6, PhaseValue, PhaseValueNext DEF PhaseByPlace, SafeInv, RunInv
<1> QED BY <1>2, <1>3, <1>4, <1>5, <1>7, OneMoves DEF Pool!Begin

\* schedule(GetThis()) puts a running job back.
LEMMA RequeueStep ==
    ASSUME SafeInv, CurrentInv', NEW w \in Worker, NEW thread \in Target, RescheduleSelf(w, thread)
    PROVE  Pool!Requeue(task[w])
<1> DEFINE f == task[w]
           t == [fiber |-> f, cb |-> FALSE, thread |-> thread]
<1>1. /\ w \in Busy /\ f \in Fiber /\ t_fiber[w] = f /\ pc[w] = "run"
      /\ m_tasks' = Append(m_tasks, t) /\ pc' = [pc EXCEPT ![w] = "yield"]
      /\ UNCHANGED <<m_state, task, owner>> /\ owner # "stopped"
  BY DEF RescheduleSelf, At, Goto, Busy, CurrentInv, SafeInv, RunInv, OwnerInv
<1>2. t \in Task /\ m_tasks \in Seq(Task) /\ t.fiber = f
  BY <1>1 DEF Task, SafeInv, RunInv, TypeOK
<1>3. \A g : Queued(g)' <=> Queued(g) \/ g = f
  BY <1>1, <1>2, QueuedAfterAppend
<1>4. Busy' = Busy /\ \A g : Held(g)' <=> Held(g)
  BY <1>1 DEF Busy, Held, SafeInv, RunInv, TypeOK
<1>5. ~Queued(f) /\ m_state[f] = "EXEC" /\ Held(f)
  BY <1>1 DEF SafeInv, PlaceInv, TaskInv, Carried, Carries, StateInv, OneThreadPerFiber, Held, Busy
<1>6. PhaseOf(f) = "running" /\ PhaseOf(f)' = "queued"
  BY <1>1, <1>3, <1>5, PhaseValue, PhaseValueNext DEF PhaseByPlace, SafeInv, RunInv
<1> QED BY <1>1, <1>3, <1>4, <1>6, OneMoves DEF Pool!Requeue

\* A callback that returns ends its job.
LEMMA EndStep ==
    ASSUME SafeInv, CurrentInv', NEW w \in Worker, Finish(w)
    PROVE  Pool!End(task[w])
<1> DEFINE f == task[w]
<1>1. /\ w \in Busy /\ f \in Fiber /\ pc[w] = "run" /\ pc' = [pc EXCEPT ![w] = "back"]
      /\ m_state' = [m_state EXCEPT ![f] = "TERM"]
      /\ UNCHANGED <<m_tasks, task, owner>> /\ owner # "stopped"
  BY DEF Finish, At, Goto, Busy, CurrentInv, SafeInv, RunInv, OwnerInv
<1>2. Busy' = Busy /\ \A g : (Held(g)' <=> Held(g)) /\ (Queued(g)' <=> Queued(g))
  BY <1>1 DEF Busy, Held, Queued, SafeInv, RunInv, TypeOK
<1>3. /\ m_state'[f] = "TERM"
      /\ \A g \in Fiber : g # f => m_state'[g] = m_state[g]
  BY <1>1 DEF SafeInv, RunInv, TypeOK
<1>4. ~Queued(f) /\ m_state[f] = "EXEC" /\ Held(f)
  BY <1>1 DEF SafeInv, PlaceInv, TaskInv, Carried, Carries, StateInv, OneThreadPerFiber, Held, Busy
<1>5. PhaseOf(f) = "running" /\ PhaseOf(f)' = "done"
  BY <1>1, <1>2, <1>3, <1>4, PhaseValue, PhaseValueNext DEF PhaseByPlace, SafeInv, RunInv
<1> QED BY <1>1, <1>2, <1>3, <1>5, OneMoves DEF Pool!End

\* The other steps of run() and of a callback leave every job in its phase.
LEMMA InternalStep ==
    ASSUME SafeInv, CurrentInv', NEW w \in Worker,
           \/ NoTask(w) \/ SwapIn(w) \/ Back(w) \/ EnterIdle(w) \/ Idle(w) \/ LeaveIdle(w)
           \/ YieldToReady(w) \/ SaveContext(w)
    PROVE  Phases' = Phases /\ owner' = owner
<1>0. TypeOK /\ CurrentInv /\ PlaceInv
  BY DEF SafeInv, RunInv
<1>1. m_tasks' = m_tasks /\ owner' = owner
  BY DEF NoTask, SwapIn, Back, EnterIdle, Idle, LeaveIdle, YieldToReady, SaveContext
<1>2. \A g : Queued(g)' <=> Queued(g)
  BY <1>1 DEF Queued
<1>3. CASE NoTask(w) \/ EnterIdle(w) \/ Idle(w) \/ LeaveIdle(w)
  <2>1. m_state' = m_state /\ task' = task
    BY <1>3 DEF NoTask, EnterIdle, Idle, LeaveIdle, fiberVars
  <2>2. Busy' = Busy
    BY <1>0, <1>3 DEF NoTask, EnterIdle, Idle, LeaveIdle, At, Goto, Busy, TypeOK
  <2>3. \A g : Held(g)' <=> Held(g)
    BY <2>1, <2>2 DEF Held
  <2> QED BY <1>1, <1>2, <2>1, <2>3, NoneMoves
<1>4. CASE SwapIn(w) \/ YieldToReady(w) \/ SaveContext(w)
  <2>1. w \in Busy /\ HandOK(w) /\ task[w] \in Fiber
    BY <1>0, <1>4 DEF SwapIn, YieldToReady, SaveContext, At, Busy, PlaceInv, StateInv, HandsOK, CurrentInv
  <2>2. task' = task /\ Busy' = Busy
    BY <1>0, <1>4 DEF SwapIn, YieldToReady, SaveContext, At, Goto, Busy, TypeOK
  <2>3. \A g : Held(g)' <=> Held(g)
    BY <2>2 DEF Held
  <2>4. \A g \in Fiber : m_state'[g] = "TERM" <=> m_state[g] = "TERM"
    BY <1>0, <1>4, <2>1 DEF SwapIn, YieldToReady, SaveContext, At, HandOK, Executes, TypeOK, CurrentInv
  <2> QED BY <1>1, <1>2, <2>3, <2>4, NoneMoves
<1>5. CASE Back(w)
  <2>1. /\ w \in Busy /\ m_state' = m_state /\ task' = [task EXCEPT ![w] = None]
        /\ Busy' = Busy \ {w} /\ pc[w] = "back"
    BY <1>0, <1>5 DEF Back, At, Goto, Busy, TypeOK, fiberVars
  <2>2. PICK f \in Fiber : f = task[w]
    BY <1>0, <2>1 DEF CurrentInv
  <2>3. m_state[f] # "NONE"
    BY <1>0, <1>5, <2>1, <2>2 DEF Back, At, PlaceInv, StateInv, HandsOK, HandOK
  <2>4. Queued(f) \/ m_state[f] = "TERM" \/ Carried(f)
    BY <1>0, <2>3 DEF PlaceInv, FreeInv, TypeOK, FiberState
  <2>5. \A v \in Worker : v # w => task'[v] = task[v]
    BY <1>0, <2>1 DEF TypeOK
  <2>6. Carried(f) => Held(f)' /\ Held(f)
    <3> SUFFICES ASSUME NEW v \in Worker, Carries(v), task[v] = f PROVE Held(f)' /\ Held(f)
      BY DEF Carried
    <3>1. v # w /\ v \in Busy /\ v \in Busy'
      BY <2>1 DEF Carries, Busy
    <3> QED BY <2>5, <3>1 DEF Held, Busy
  <2>7. \A g : g # f => (Held(g)' <=> Held(g))
    BY <2>1, <2>2, <2>5, FiberAssumption DEF Held, Busy
  <2> QED BY <1>1, <1>2, <2>1, <2>4, <2>6, <2>7, NoneMoves
<1> QED BY <1>3, <1>4, <1>5

\* start() and stop() leave every job in its phase; the joins of stop() shut the
\* pool down.
LEMMA OwnerPoolStep ==
    ASSUME SafeInv, CurrentInv', Start \/ Stop \/ Join
    PROVE  (Phases' = Phases /\ (owner' = "stopped" <=> owner = "stopped")) \/ Pool!Shutdown
<1>0. TypeOK /\ OwnerInv /\ CurrentInv
  BY DEF SafeInv, RunInv
<1>1. UNCHANGED <<m_tasks, m_state, task>>
  BY DEF Start, Stop, Join, fiberVars
<1>2. Busy' = Busy
  <2> USE <1>0, WorkerAssumption DEF OwnerAt, OwnerInv, Goto, Busy, TypeOK
  <2>1. CASE Start
    BY <2>1 DEF Start
  <2>2. CASE Stop
    BY <2>2 DEF Stop
  <2>3. CASE Join
    BY <2>3 DEF Join
  <2> QED BY <2>1, <2>2, <2>3
<1>3. \A g : (Queued(g)' <=> Queued(g)) /\ (Held(g)' <=> Held(g))
  BY <1>1, <1>2 DEF Queued, Held
<1>4. Phases' = Phases
  BY <1>1, <1>3, NoneMoves
<1>5. CASE Start \/ Stop
  BY <1>4, <1>5 DEF Start, Stop, OwnerAt
<1>6. CASE Join
  <2>1. PICK w \in Worker : pc[w] = "exit"
    BY <1>6, WorkerAssumption DEF Join
  <2>2. idleTerm # {}
    BY <1>0, <2>1 DEF OwnerInv
  <2>3. m_tasks = <<>> /\ \A f \in Fiber : m_state[f] \in {"NONE", "TERM"}
    BY <2>2, NothingLeft DEF NothingLeftBehind
  <2>4. Busy = {}
    BY <1>6 DEF Join, Busy
  <2>5. \A f \in Fiber : PhaseOf(f) \in {"new", "done"}
    BY <1>0, <2>3, <2>4, PhaseValue DEF PhaseByPlace, Queued, Held
  <2> QED BY <1>4, <1>6, <2>5 DEF Pool!Shutdown, Join, OwnerAt, Phases
<1> QED BY <1>5, <1>6

\* Every step of the scheduler is a step of the pool or does not show there.
LEMMA StepRefines ==
    SafeInv /\ CurrentInv' /\ [Next]_vars => [Pool!PoolNext]_(Pool!poolVars)
<1> SUFFICES ASSUME SafeInv, CurrentInv', [Next]_vars
             PROVE  [Pool!PoolNext]_(Pool!poolVars)
  OBVIOUS
<1> USE DEF Phases, Pool!poolVars, Pool!PoolNext
<1>1. ASSUME NEW f \in Fiber, NEW cb \in BOOLEAN, NEW thread \in Target, OwnerSchedules(f, cb, thread)
      PROVE  Pool!PoolNext
  <2>1. Pool!Submit(f)
    BY <1>1, SubmitStep DEF OwnerSchedules, OwnerAt
  <2> QED BY <2>1
<1>2. CASE Start \/ Stop \/ Join
  BY <1>2, OwnerPoolStep
<1>3. ASSUME NEW w \in Worker, RunStep(w) PROVE [Pool!PoolNext]_(Pool!poolVars)
  <2>1. CASE TakeTask(w)
    BY <2>1, BeginStep
  <2>2. CASE ~TakeTask(w)
    <3>1. Phases' = Phases /\ owner' = owner
      BY <1>3, <2>2, InternalStep DEF RunStep
    <3> QED BY <3>1
  <2> QED BY <2>1, <2>2
<1>4. ASSUME NEW w \in Worker, FiberStep(w) PROVE [Pool!PoolNext]_(Pool!poolVars)
  <2>0. At(w, "run") => task[w] \in Fiber
    BY DEF At, SafeInv, RunInv, CurrentInv, Busy
  <2>1. CASE Finish(w)
    <3>1. task[w] \in Fiber
      BY <2>0, <2>1 DEF Finish
    <3> QED BY <2>1, <3>1, EndStep
  <2>4. ASSUME NEW thread \in Target, RescheduleSelf(w, thread) PROVE Pool!PoolNext
    <3>1. task[w] \in Fiber
      BY <2>0, <2>4 DEF RescheduleSelf
    <3> QED BY <2>4, <3>1, RequeueStep
  <2>2. ASSUME NEW f \in Fiber, NEW cb \in BOOLEAN, NEW thread \in Target,
               FiberSchedules(w, f, cb, thread)
        PROVE  Pool!PoolNext
    <3>1. owner # "stopped"
      BY <2>2 DEF FiberSchedules, At, SafeInv, RunInv, OwnerInv
    <3>2. Pool!Submit(f)
      BY <2>2, <3>1, SubmitStep DEF FiberSchedules
    <3> QED BY <3>2
  <2>3. CASE YieldToReady(w) \/ SaveContext(w)
    <3>1. Phases' = Phases /\ owner' = owner
      BY <2>3, InternalStep
    <3> QED BY <3>1
  <2> QED BY <1>4, <2>1, <2>2, <2>3, <2>4 DEF FiberStep
<1>5. CASE StopAgain \/ UNCHANGED vars
  <2>1. UNCHANGED <<m_tasks, m_state, task, pc, owner>>
    BY <1>5 DEF StopAgain, vars, fiberVars
  <2>2. \A g : (Queued(g)' <=> Queued(g)) /\ (Held(g)' <=> Held(g))
    BY <2>1 DEF Queued, Held, Busy
  <2>3. Phases' = Phases
    BY <2>1, <2>2, NoneMoves
  <2> QED BY <2>1, <2>3
<1> QED BY <1>1, <1>2, <1>3, <1>4, <1>5 DEF Next, OwnerStep

\* The scheduler keeps the promise of TaskPool: a job is begun once each time it
\* is queued, ends once, and stop() returns only when all jobs have ended.
THEOREM ImplementsPoolHolds == Spec => ImplementsPool
<1>1. Init => Pool!PoolInit
  <2> SUFFICES ASSUME Init PROVE Pool!PoolInit
    OBVIOUS
  <2>1. \A f \in Fiber : ~Queued(f) /\ m_state[f] = "NONE" /\ \A w \in Worker : task[w] # f
    BY FiberAssumption DEF Init, Queued
  <2>2. \A f \in Fiber : PhaseOf(f) = "new"
    BY <2>1 DEF PhaseOf
  <2> QED BY <2>2 DEF Init, Pool!PoolInit
<1>2. SafeInv => CurrentInv
  BY DEF SafeInv, RunInv
<1>3. SafeInv /\ SafeInv' /\ [Next]_vars => [Pool!PoolNext]_(Pool!poolVars)
  BY <1>2, StepRefines, PTL
<1> QED BY <1>1, <1>3, SafeInvHolds, PTL DEF Spec, ImplementsPool, Pool!PoolSpec
=============================================================================
