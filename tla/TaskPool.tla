------------------------------ MODULE TaskPool ------------------------------
(***************************************************************************)
(* What the scheduler promises its users (README.md, "Fiber and Fiber      *)
(* scheduling modules"; tests/testScheduler.cc): a callback or fiber that  *)
(* is handed over is executed by one thread at a time, may put itself back *)
(* or wait for an event or a timer, and stop() returns only when every one *)
(* of them has come to its end.  How threads, queues, the idle loop and    *)
(* epoll bring this about is left to Scheduler and IOManager, which are    *)
(* measured against this specification.                                    *)
(***************************************************************************)
CONSTANT Job

VARIABLES
    phase,       \* of each job
    stopped      \* stop() has returned

poolVars == <<phase, stopped>>

Phase == {"new", "queued", "running", "parked", "done"}

\* A job's steps; a stopped pool makes none.
Move(j, from, to) ==
    /\ ~stopped
    /\ phase[j] = from
    /\ phase' = [phase EXCEPT ![j] = to]
    /\ UNCHANGED stopped

PoolInit == phase = [j \in Job |-> "new"] /\ stopped = FALSE

Submit(j)  == Move(j, "new", "queued")        \* schedule()
Delay(j)   == Move(j, "new", "parked")        \* addTimer(): a callback for later
Begin(j)   == Move(j, "queued", "running")    \* a worker takes it
Requeue(j) == Move(j, "running", "queued")    \* schedule(GetThis()) and yield
Park(j)    == Move(j, "running", "parked")    \* addEvent() and yield
Unpark(j)  == Move(j, "parked", "queued")     \* its event or its timer fires
End(j)     == Move(j, "running", "done")      \* the callback returns

\* stop() returns: nothing is queued, running or waiting any more.
Shutdown ==
    /\ ~stopped
    /\ \A j \in Job : phase[j] \in {"new", "done"}
    /\ stopped' = TRUE
    /\ UNCHANGED phase

PoolNext ==
    \/ Shutdown
    \/ \E j \in Job : \/ Submit(j) \/ Delay(j) \/ Begin(j)
                      \/ Requeue(j) \/ Park(j) \/ Unpark(j) \/ End(j)

PoolSpec == PoolInit /\ [][PoolNext]_poolVars
=============================================================================
