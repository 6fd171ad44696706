----------------------------- MODULE HookProofs -----------------------------
(***************************************************************************)
(* Proofs about Hook for any number of fibers, descriptors and calls.      *)
(***************************************************************************)
EXTENDS Hook, TLAPS

-----------------------------------------------------------------------------
(* The inductive invariant.                                                *)

Making == {"get", "create"}
Closing == {"cancelAll", "del", "close"}

\* TypeOK with the number of the call, which every call on a descriptor has.
CallsOK ==
    /\ calls \in [Fiber -> 0..MaxCalls] /\ expired \in [Fiber -> BOOLEAN]
    /\ \A f \in Fiber : pc[f] \in InIO => calls[f] # 0

\* socket(), accept() and close() are alone on their descriptor, which is open;
\* FdManager has no FdCtx for it before the first lock of get(fd, true) and
\* after del.
OpenInv ==
    /\ \A d \in Fd : alive[d] => gen[d] # 0
    /\ \A f \in Fiber : pc[f] \in Making \cup Closing => alive[fd[f]]
    /\ \A f, g \in Fiber : pc[f] \in Making \cup Closing /\ pc[g] \in Making \cup Closing
                              /\ fd[f] = fd[g] => f = g
    /\ \A f \in Fiber : pc[f] \in Making \cup {"close"} => m_datas[fd[f]] = None

\* An FdCtx is the one of the socket that has the descriptor.
CtxInv == \A d \in Fd : m_datas[d] # None => alive[d] /\ m_datas[d].sock = gen[d]

\* Who is in a slot of an FdContext waits for just this event.
SlotInv ==
    \A d \in Fd, e \in Event : slot[d][e] # None =>
        LET f == slot[d][e][1] IN pc[f] = "wait" /\ fd[f] = d /\ EventOf(op[f]) = e

\* An armed timer is the one of the round of do_io under way; one that is due
\* belongs to this or to an earlier call, and has left its mark if to this one.
TimerInv ==
    \A x \in timers :
        /\ x.call <= calls[x.fiber]
        /\ x.stage = "set" => x = TimerOf(x.fiber) /\ pc[x.fiber] \in {"add", "wait", "woken"}
        /\ x.stage = "due" /\ Locks(x) => expired[x.fiber]

\* TimerInfo::cancelled is set by a timeout of the same call.
CancelledInv == \A f \in Fiber : cancelled[f] => expired[f]

CallInv == TypeOK /\ CallsOK /\ OpenInv /\ CtxInv /\ SlotInv /\ TimerInv /\ CancelledInv

\* O_NONBLOCK is set on every socket that has an FdCtx.
NonblockInv == \A d \in Fd : m_datas[d] # None => nonblock[d]

\* One fiber reads a socket and one writes it, and nobody does while it is closed.
UserInv ==
    /\ \A f, g \in Fiber : pc[f] \in InIO /\ pc[g] \in InIO /\ fd[f] = fd[g]
                              /\ EventOf(op[f]) = EventOf(op[g]) => f = g
    /\ \A f, g \in Fiber : pc[f] \in Closing /\ pc[g] \in InIO => fd[f] # fd[g]

-----------------------------------------------------------------------------
(* Steps that several actions share.                                       *)

\* A call returns: its locals are reset, and nothing else of the calls changes.
LEMMA ReturnFacts ==
    ASSUME TypeOK, CallsOK, NEW f \in Fiber, NEW r \in {"none", "ok", "EBADF", "ETIMEDOUT"},
           Return(f, r)
    PROVE  /\ pc' \in [Fiber -> InIO \cup {"idle", "asleep"} \cup Making \cup Closing]
           /\ fd' \in [Fiber -> Fd \cup {None}] /\ op' \in [Fiber -> Op]
           /\ to' \in [Fiber -> BOOLEAN] /\ cancelled' \in [Fiber -> BOOLEAN]
           /\ expired' \in [Fiber -> BOOLEAN] /\ calls' = calls
           /\ result' \in [Fiber -> {"none", "ok", "EBADF", "ETIMEDOUT"}]
           /\ pc'[f] = "idle" /\ fd'[f] = None /\ ~cancelled'[f]
           /\ \A g \in Fiber : g # f =>
                /\ pc'[g] = pc[g] /\ fd'[g] = fd[g] /\ op'[g] = op[g]
                /\ cancelled'[g] = cancelled[g] /\ expired'[g] = expired[g]
<1> USE DEF Return, Goto, Set
<1>1. /\ pc' \in [Fiber -> InIO \cup {"idle", "asleep"} \cup Making \cup Closing]
      /\ fd' \in [Fiber -> Fd \cup {None}] /\ op' \in [Fiber -> Op]
  BY DEF TypeOK, Op, Making, Closing
<1>2. /\ to' \in [Fiber -> BOOLEAN] /\ cancelled' \in [Fiber -> BOOLEAN]
      /\ expired' \in [Fiber -> BOOLEAN] /\ calls' = calls
      /\ result' \in [Fiber -> {"none", "ok", "EBADF", "ETIMEDOUT"}]
  BY DEF TypeOK, CallsOK
<1>3. /\ pc'[f] = "idle" /\ fd'[f] = None /\ ~cancelled'[f]
      /\ \A g \in Fiber : g # f =>
            /\ pc'[g] = pc[g] /\ fd'[g] = fd[g] /\ op'[g] = op[g]
            /\ cancelled'[g] = cancelled[g] /\ expired'[g] = expired[g]
  BY DEF TypeOK, CallsOK
<1> QED BY <1>1, <1>2, <1>3

\* A fiber that is not in a slot returns and leaves no armed timer.
LEMMA ReturnKeeps ==
    ASSUME CallInv, NEW f \in Fiber, NEW r \in {"none", "ok", "EBADF", "ETIMEDOUT"}, Return(f, r),
           pc[f] # "wait", timers' \subseteq timers,
           \A x \in timers' : x.stage = "set" => x.fiber # f,
           UNCHANGED <<m_datas, gen, alive, nonblock, slot>>, avail' \in [Fd -> SUBSET Event]
    PROVE  CallInv'
<1> USE DEF CallInv
<1> USE ReturnFacts
<1>1. TypeOK'
  <2>1. \A g \in Fiber : pc'[g] \in {"idle", "asleep"} <=> fd'[g] = None
    BY DEF TypeOK
  <2> QED BY <2>1 DEF TypeOK, Making, Closing
<1>2. CallsOK'
  BY DEF CallsOK, InIO
<1>3. OpenInv'
  BY DEF OpenInv, Making, Closing
<1>4. CtxInv'
  BY DEF CtxInv
<1>5. SlotInv'
  <2> SUFFICES ASSUME NEW d \in Fd, NEW e \in Event, slot[d][e] # None
               PROVE  LET g == slot[d][e][1] IN pc'[g] = "wait" /\ fd'[g] = d /\ EventOf(op'[g]) = e
    BY DEF SlotInv
  <2>1. PICK g \in Fiber : g = slot[d][e][1]
    BY DEF TypeOK, Registration
  <2> QED BY <2>1 DEF SlotInv
<1>6. TimerInv'
  <2> SUFFICES ASSUME NEW x \in timers'
               PROVE  /\ x.call <= calls'[x.fiber]
                      /\ x.stage = "set" => x = TimerOf(x.fiber)' /\ pc'[x.fiber] \in {"add", "wait", "woken"}
                      /\ x.stage = "due" /\ Locks(x)' => expired'[x.fiber]
    BY DEF TimerInv
  <2>1. x \in timers /\ x.fiber \in Fiber
    BY DEF TypeOK, Timer
  <2>2. x.fiber # f => TimerOf(x.fiber)' = TimerOf(x.fiber)
    BY <2>1 DEF TimerOf
  <2>3. CASE x.fiber = f
    BY <2>1, <2>3 DEF TimerInv, Locks, InIO
  <2>4. CASE x.fiber # f
    BY <2>1, <2>2, <2>4 DEF TimerInv, Locks
  <2> QED BY <2>3, <2>4
<1>7. CancelledInv'
  BY DEF CancelledInv
<1> QED BY <1>1, <1>2, <1>3, <1>4, <1>5, <1>6, <1>7

\* The slots after triggerEvent for the events E of d.
SlotLeft(d, E) ==
    [slot EXCEPT ![d] = [e \in Event |->
        IF e \in E /\ @[e] # None /\ @[e][2] = gen[d] THEN None ELSE @[e]]]

\* Who triggerEvent wakes was in the slot and waited for the event.
LEMMA WakeFacts ==
    ASSUME CallInv, NEW d \in Fd, NEW E \in SUBSET Event
    PROVE  /\ SlotLeft(d, E) \in [Fd -> [Event -> Registration \cup {None}]]
           /\ \A g \in Waiting(d, E) : g \in Fiber /\ pc[g] = "wait" /\ fd[g] = d
           /\ \A b \in Fd, e \in Event : SlotLeft(d, E)[b][e] # None =>
                /\ SlotLeft(d, E)[b][e] = slot[b][e] /\ slot[b][e][1] \in Fiber
                /\ slot[b][e][1] \notin Waiting(d, E)
<1> USE DEF CallInv
<1>1. SlotLeft(d, E) \in [Fd -> [Event -> Registration \cup {None}]]
  BY DEF TypeOK, SlotLeft
<1>2. \A g \in Fiber, b \in Fd, e \in Event, k \in Nat : slot[b][e] = <<g, k>> =>
          slot[b][e] # None /\ slot[b][e][1] = g /\ slot[b][e][2] = k
  BY HookAssumption
<1>3. \A g \in Waiting(d, E) :
        g \in Fiber /\ pc[g] = "wait" /\ fd[g] = d /\ \E e \in E : EventOf(op[g]) = e /\ slot[d][e] = <<g, gen[d]>>
  <2>1. gen[d] \in Nat
    BY HookAssumption DEF TypeOK
  <2> QED BY <1>2, <2>1 DEF Waiting, SlotInv
<1>4. ASSUME NEW b \in Fd, NEW e \in Event, SlotLeft(d, E)[b][e] # None
      PROVE  /\ SlotLeft(d, E)[b][e] = slot[b][e] /\ slot[b][e][1] \in Fiber
             /\ slot[b][e][1] \notin Waiting(d, E)
  <2>1. SlotLeft(d, E)[b][e] = slot[b][e] /\ slot[b][e] # None
    BY <1>4 DEF TypeOK, SlotLeft
  <2>2. PICK g \in Fiber : g = slot[b][e][1]
    BY <2>1 DEF TypeOK, Registration
  <2>3. fd[g] = b /\ EventOf(op[g]) = e
    BY <2>1, <2>2 DEF SlotInv
  <2>4. g \notin Waiting(d, E)
    <3> SUFFICES ASSUME g \in Waiting(d, E) PROVE FALSE
      OBVIOUS
    <3>1. b = d /\ e \in E /\ slot[d][e] = <<g, gen[d]>>
      BY <1>3, <2>3
    <3>2. slot[d][e] # None /\ slot[d][e][2] = gen[d]
      BY <2>1, <3>1
    <3>3. SlotLeft(d, E)[d][e] = None
      BY <3>1, <3>2 DEF TypeOK, SlotLeft
    <3> QED BY <1>4, <3>1, <3>3
  <2> QED BY <2>1, <2>2, <2>4
<1> QED BY <1>1, <1>3, <1>4

\* Fibers are woken from their slots, by an event, a timeout or close().
LEMMA WakeKeeps ==
    ASSUME CallInv, NEW d \in Fd, NEW E \in SUBSET Event, Wake(d, E),
           timers' \subseteq timers, UNCHANGED <<m_datas, kernelVars, callVars, result>>
    PROVE  CallInv'
<1> USE DEF CallInv, kernelVars, callVars
<1>1. /\ slot' \in [Fd -> [Event -> Registration \cup {None}]]
      /\ \A g \in Waiting(d, E) : g \in Fiber /\ pc[g] = "wait"
      /\ \A b \in Fd, e \in Event : slot'[b][e] # None =>
            /\ slot'[b][e] = slot[b][e] /\ slot[b][e][1] \in Fiber
            /\ slot[b][e][1] \notin Waiting(d, E)
  <2>1. slot' = SlotLeft(d, E)
    BY DEF Wake, SlotLeft
  <2> HIDE DEF CallInv
  <2> QED BY <2>1, WakeFacts
<1>2. /\ \A g \in Fiber : pc'[g] = pc[g] \/ (pc[g] = "wait" /\ pc'[g] = "woken")
      /\ \A g \in Fiber : g \notin Waiting(d, E) => pc'[g] = pc[g]
  BY <1>1 DEF Wake
<1>3. pc' \in [Fiber -> InIO \cup {"idle", "asleep", "get", "create", "cancelAll", "del", "close"}]
  BY DEF Wake, TypeOK, InIO
<1>4. TypeOK'
  <2>1. \A g \in Fiber : pc'[g] \in {"idle", "asleep"} <=> fd[g] = None
    BY <1>2 DEF TypeOK
  <2> QED BY <1>1, <1>3, <2>1 DEF TypeOK
<1>5. CallsOK'
  BY <1>2 DEF CallsOK, InIO
<1>6. OpenInv'
  BY <1>2 DEF OpenInv, Making, Closing
<1>7. CtxInv' /\ CancelledInv'
  BY DEF CtxInv, CancelledInv
<1>8. SlotInv'
  BY <1>1, <1>2 DEF SlotInv
<1>9. TimerInv'
  BY <1>2 DEF TimerInv, TimerOf, Locks, InIO, TypeOK, Timer
<1> QED BY <1>4, <1>5, <1>6, <1>7, <1>8, <1>9

\* A fiber goes on inside do_io.
LEMMA GoOnKeeps ==
    ASSUME CallInv, NEW f \in Fiber, NEW where \in {"try", "arm", "add"}, Goto(f, where),
           pc[f] \in InIO, pc[f] # "wait", timers' \subseteq timers,
           \A x \in timers' : x.stage = "set" => x.fiber # f,
           UNCHANGED <<m_datas, kernelVars, slot, callVars, result>>
    PROVE  CallInv'
<1> USE DEF CallInv, kernelVars, callVars, Goto
<1>1. /\ pc'[f] = where /\ \A g \in Fiber : g # f => pc'[g] = pc[g]
      /\ pc' \in [Fiber -> InIO \cup {"idle", "asleep", "get", "create", "cancelAll", "del", "close"}]
  BY DEF TypeOK, InIO
<1>2. TypeOK'
  <2>1. \A g \in Fiber : pc'[g] \in {"idle", "asleep"} <=> fd[g] = None
    BY <1>1 DEF TypeOK, InIO
  <2> QED BY <1>1, <2>1 DEF TypeOK
<1>3. CallsOK'
  BY <1>1 DEF CallsOK, InIO
<1>4. OpenInv'
  BY <1>1 DEF OpenInv, Making, Closing
<1>5. CtxInv' /\ CancelledInv'
  BY DEF CtxInv, CancelledInv
<1>6. SlotInv'
  BY <1>1 DEF SlotInv
<1>7. TimerInv'
  BY <1>1 DEF TimerInv, TimerOf, Locks
<1> QED BY <1>2, <1>3, <1>4, <1>5, <1>6, <1>7

-----------------------------------------------------------------------------
(* Every action preserves the invariant.                                   *)

\* The first lock of get(fd, true) finds no FdCtx.
LEMMA GetInvariant == ASSUME CallInv, NEW f \in Fiber, Get(f) PROVE CallInv'
<1> USE DEF Get, kernelVars, callVars
<1>1. \A x \in timers : x.stage = "set" => x.fiber # f
  BY DEF CallInv, TimerInv
<1>2. CASE m_datas[fd[f]] # None
  BY <1>1, <1>2, ReturnKeeps DEF CallInv, TypeOK
<1>3. CASE m_datas[fd[f]] = None
  <2> USE <1>3 DEF CallInv, Goto
  <2>1. TypeOK'
    <3>1. pc' \in [Fiber -> InIO \cup {"idle", "asleep", "get", "create", "cancelAll", "del", "close"}]
      BY DEF TypeOK
    <3>2. \A g \in Fiber : pc'[g] \in {"idle", "asleep"} <=> fd[g] = None
      BY DEF TypeOK
    <3> QED BY <3>1, <3>2 DEF TypeOK
  <2>2. CallsOK' /\ OpenInv'
    BY DEF CallsOK, OpenInv, TypeOK, InIO, Making, Closing
  <2>3. CtxInv' /\ CancelledInv'
    BY DEF CtxInv, CancelledInv
  <2>4. SlotInv'
    BY DEF SlotInv, TypeOK, Registration
  <2>5. TimerInv'
    BY DEF TimerInv, TimerOf, Locks, InIO, TypeOK, Timer
  <2> QED BY <2>1, <2>2, <2>3, <2>4, <2>5
<1> QED BY <1>2, <1>3

\* The second lock makes the FdCtx of the socket that has the descriptor.
LEMMA CreateInvariant == ASSUME CallInv, NEW f \in Fiber, Create(f) PROVE CallInv'
<1> USE DEF CallInv, Create, Return, Goto, Set
<1>1. TypeOK'
  BY HookAssumption DEF TypeOK, Op, InIO, OpenInv, Making, FdCtx
<1>2. CallsOK'
  BY DEF CallsOK, InIO
<1>3. OpenInv'
  BY HookAssumption DEF TypeOK, OpenInv, Making, Closing
<1>4. CtxInv'
  BY HookAssumption DEF CtxInv, OpenInv, Making
<1>5. SlotInv'
  BY HookAssumption DEF SlotInv
<1>6. TimerInv'
  BY DEF TimerInv, Locks, InIO, TimerOf
<1>7. CancelledInv'
  BY DEF TypeOK, CancelledInv
<1> QED BY <1>1, <1>2, <1>3, <1>4, <1>5, <1>6, <1>7

\* The system call: no timer is armed before it.
LEMMA TryInvariant == ASSUME CallInv, NEW f \in Fiber, Try(f) PROVE CallInv'
<1> USE DEF Try, kernelVars, callVars
<1>1. \A x \in timers : x.stage = "set" => x.fiber # f
  BY DEF CallInv, TimerInv
<1>2. avail \in [Fd -> SUBSET Event] /\ pc[f] \in InIO /\ pc[f] # "wait"
  BY DEF CallInv, TypeOK
<1>3. CASE Return(f, "ok") /\ avail' \in {avail, [avail EXCEPT ![fd[f]] = @ \ {EventOf(op[f])}]}
  BY <1>1, <1>2, <1>3, ReturnKeeps
<1>4. CASE Return(f, "EBADF") /\ UNCHANGED avail
  BY <1>1, <1>2, <1>4, ReturnKeeps
<1>5. CASE Goto(f, IF to[f] THEN "arm" ELSE "add") /\ UNCHANGED <<callVars, result, avail>>
  <2>1. PICK where \in {"try", "arm", "add"} : Goto(f, where)
    BY <1>5
  <2> QED BY <1>1, <1>2, <1>5, <2>1, GoOnKeeps
<1> QED BY <1>3, <1>4, <1>5

\* The timer of this round is the only one of the fiber.
LEMMA ArmInvariant == ASSUME CallInv, NEW f \in Fiber, Arm(f) PROVE CallInv'
<1> USE DEF CallInv, Arm, Goto, kernelVars, callVars
<1>1. TypeOK'
  BY HookAssumption DEF TypeOK, CallsOK, Timer, TimerOf, EventOf, Event, InIO
<1>2. CallsOK'
  BY DEF TypeOK, CallsOK
<1>3. OpenInv'
  BY HookAssumption DEF OpenInv, Making, Closing
<1>4. CtxInv'
  BY HookAssumption DEF CtxInv
<1>5. SlotInv'
  BY HookAssumption DEF SlotInv
<1>6. TimerInv'
  BY HookAssumption DEF TypeOK, CallsOK, TimerInv, Locks, InIO, TimerOf
<1>7. CancelledInv'
  BY DEF TypeOK, CancelledInv
<1> QED BY <1>1, <1>2, <1>3, <1>4, <1>5, <1>6, <1>7

\* The fiber enters the slot of its event, or gives up with its timer.
LEMMA AddInvariant == ASSUME CallInv, NEW f \in Fiber, Add(f) PROVE CallInv'
<1> USE DEF Add, kernelVars
<1>1. CASE ~alive[fd[f]]
  <2>1. \A x \in timers' : x.stage = "set" => x.fiber # f
    BY <1>1 DEF CallInv, TimerInv
  <2>2. avail' \in [Fd -> SUBSET Event] /\ pc[f] # "wait" /\ timers' \subseteq timers
    BY <1>1 DEF CallInv, TypeOK
  <2> QED BY <1>1, <2>1, <2>2, ReturnKeeps
<1>2. CASE alive[fd[f]]
  <2> USE DEF CallInv, callVars
  <2>1. PICK d \in Fd : d = fd[f]
    BY DEF TypeOK
  <2>2. PICK e \in Event : e = EventOf(op[f])
    BY DEF EventOf, Event
  <2>3. /\ slot' = [slot EXCEPT ![d][e] = <<f, gen[d]>>] /\ pc' = [pc EXCEPT ![f] = "wait"]
        /\ UNCHANGED <<m_datas, kernelVars, callVars, timers, result>>
    BY <1>2, <2>1, <2>2 DEF Goto
  <2>4. <<f, gen[d]>> \in Registration
    BY <1>2, <2>1, HookAssumption DEF TypeOK, OpenInv, Registration
  <2>5. /\ slot' \in [Fd -> [Event -> Registration \cup {None}]] /\ slot'[d][e] = <<f, gen[d]>>
        /\ \A b \in Fd, g \in Event : b # d \/ g # e => slot'[b][g] = slot[b][g]
    BY <2>3, <2>4 DEF TypeOK
  <2>6. /\ pc'[f] = "wait" /\ \A g \in Fiber : g # f => pc'[g] = pc[g]
        /\ pc' \in [Fiber -> InIO \cup {"idle", "asleep", "get", "create", "cancelAll", "del", "close"}]
    BY <2>3 DEF TypeOK, InIO
  <2>7. TypeOK'
    <3>1. \A g \in Fiber : pc'[g] \in {"idle", "asleep"} <=> fd[g] = None
      BY <2>6 DEF TypeOK
    <3> QED BY <2>3, <2>5, <2>6, <3>1 DEF TypeOK
  <2>8. CallsOK'
    BY <2>3, <2>6 DEF CallsOK, InIO
  <2>9. OpenInv'
    BY <2>3, <2>6 DEF OpenInv, Making, Closing
  <2>10. CtxInv' /\ CancelledInv'
    BY <2>3 DEF CtxInv, CancelledInv
  <2>11. SlotInv'
    <3> SUFFICES ASSUME NEW b \in Fd, NEW g \in Event, slot'[b][g] # None
                 PROVE  LET h == slot'[b][g][1] IN pc'[h] = "wait" /\ fd[h] = b /\ EventOf(op[h]) = g
      BY <2>3 DEF SlotInv
    <3>1. CASE b = d /\ g = e
      BY <2>1, <2>2, <2>5, <2>6, <3>1
    <3>2. CASE b # d \/ g # e
      <4>1. slot'[b][g] = slot[b][g]
        BY <2>5, <3>2
      <4>2. PICK h \in Fiber : h = slot[b][g][1]
        BY <4>1 DEF TypeOK, Registration
      <4> QED BY <2>6, <4>1, <4>2 DEF SlotInv
    <3> QED BY <3>1, <3>2
  <2>12. TimerInv'
    BY <2>3, <2>6 DEF TimerInv, TimerOf, Locks, InIO
  <2> QED BY <2>7, <2>8, <2>9, <2>10, <2>11, <2>12
<1> QED BY <1>1, <1>2

\* The timer of the round is cancelled before anything else.
LEMMA WokenInvariant == ASSUME CallInv, NEW f \in Fiber, Woken(f) PROVE CallInv'
<1> USE DEF Woken, kernelVars
<1>1. \A x \in timers' : x.stage = "set" => x.fiber # f
  BY DEF CallInv, TimerInv
<1>2. /\ avail' \in [Fd -> SUBSET Event] /\ timers' \subseteq timers
      /\ pc[f] # "wait" /\ pc[f] \in InIO
  BY DEF CallInv, TypeOK
<1>3. CASE cancelled[f]
  BY <1>1, <1>2, <1>3, ReturnKeeps
<1>4. CASE ~cancelled[f] /\ op[f] = "connect"
  <2>1. PICK r \in {"ok", "EBADF"} : Return(f, r)
    BY <1>4
  <2> QED BY <1>1, <1>2, <2>1, ReturnKeeps
<1>5. CASE ~cancelled[f] /\ op[f] # "connect"
  <2>1. Goto(f, "try") /\ UNCHANGED <<callVars, result>>
    BY <1>5
  <2> QED BY <1>1, <1>2, <2>1, GoOnKeeps
<1> QED BY <1>3, <1>4, <1>5

\* sleep returns.
LEMMA AwakeInvariant == ASSUME CallInv, NEW f \in Fiber, Awake(f) PROVE CallInv'
<1> USE DEF CallInv, Awake, Return, Goto, Set, kernelVars
<1>1. TypeOK'
  BY HookAssumption DEF TypeOK, Op
<1>2. CallsOK'
  BY DEF CallsOK, InIO
<1>3. OpenInv'
  BY HookAssumption DEF OpenInv, Making, Closing
<1>4. CtxInv'
  BY HookAssumption DEF CtxInv
<1>5. SlotInv'
  BY HookAssumption DEF SlotInv
<1>6. TimerInv'
  BY DEF TimerInv, Locks, InIO, TimerOf
<1>7. CancelledInv'
  BY DEF TypeOK, CancelledInv
<1> QED BY <1>1, <1>2, <1>3, <1>4, <1>5, <1>6, <1>7

\* cancelAll wakes who is in the slots.
LEMMA CancelAllInvariant == ASSUME CallInv, NEW f \in Fiber, CancelAll(f) PROVE CallInv'
<1> USE DEF CallInv, kernelVars, callVars
<1>1. PICK d \in Fd : d = fd[f]
  BY DEF CancelAll, TypeOK
<1>2. /\ slot' \in [Fd -> [Event -> Registration \cup {None}]]
      /\ \A g \in Waiting(d, Event) : g \in Fiber /\ pc[g] = "wait"
      /\ \A b \in Fd, e \in Event : slot'[b][e] # None =>
            /\ slot'[b][e] = slot[b][e] /\ slot[b][e][1] \in Fiber
            /\ slot[b][e][1] \notin Waiting(d, Event)
  <2>1. slot' = SlotLeft(d, Event)
    BY <1>1 DEF CancelAll, SlotLeft
  <2> HIDE DEF CallInv
  <2> QED BY <2>1, WakeFacts
<1>3. /\ pc'[f] = "del" /\ pc[f] = "cancelAll"
      /\ \A g \in Fiber : g # f => pc'[g] = pc[g] \/ (pc[g] = "wait" /\ pc'[g] = "woken")
      /\ \A g \in Fiber : g # f /\ g \notin Waiting(d, Event) => pc'[g] = pc[g]
      /\ UNCHANGED <<m_datas, kernelVars, callVars, timers, result>>
  BY <1>1, <1>2 DEF CancelAll
<1>4. pc' \in [Fiber -> InIO \cup {"idle", "asleep", "get", "create", "cancelAll", "del", "close"}]
  BY DEF CancelAll, TypeOK, InIO
<1>5. TypeOK'
  <2>1. \A g \in Fiber : pc'[g] \in {"idle", "asleep"} <=> fd[g] = None
    BY <1>3 DEF TypeOK
  <2> QED BY <1>2, <1>3, <1>4, <2>1 DEF TypeOK
<1>6. CallsOK'
  BY <1>3 DEF CallsOK, InIO
<1>7. OpenInv'
  BY <1>3 DEF OpenInv, Making, Closing
<1>8. CtxInv' /\ CancelledInv'
  BY <1>3 DEF CtxInv, CancelledInv
<1>9. SlotInv'
  BY <1>2, <1>3 DEF SlotInv
<1>10. TimerInv'
  BY <1>3 DEF TimerInv, TimerOf, Locks, InIO, TypeOK, Timer
<1> QED BY <1>5, <1>6, <1>7, <1>8, <1>9, <1>10

\* FdManager::del.
LEMMA DelInvariant == ASSUME CallInv, NEW f \in Fiber, Del(f) PROVE CallInv'
<1> USE DEF CallInv, Del, Goto, kernelVars, callVars
<1>1. TypeOK'
  BY HookAssumption DEF TypeOK
<1>2. CallsOK'
  BY DEF CallsOK, InIO
<1>3. OpenInv'
  BY HookAssumption DEF TypeOK, OpenInv, Closing
<1>4. CtxInv'
  BY HookAssumption DEF CtxInv
<1>5. SlotInv'
  BY HookAssumption DEF SlotInv
<1>6. TimerInv'
  BY DEF TimerInv, Locks, InIO, TimerOf
<1>7. CancelledInv'
  BY DEF TypeOK, CancelledInv
<1> QED BY <1>1, <1>2, <1>3, <1>4, <1>5, <1>6, <1>7

\* The descriptor is closed after its FdCtx is gone.
LEMMA CloseFInvariant == ASSUME CallInv, NEW f \in Fiber, CloseF(f) PROVE CallInv'
<1> USE DEF CallInv, CloseF, Return, Goto, Set
<1>1. TypeOK'
  BY HookAssumption DEF TypeOK, Op
<1>2. CallsOK'
  BY DEF CallsOK, InIO
<1>3. OpenInv'
  BY HookAssumption DEF TypeOK, OpenInv, Making, Closing
<1>4. CtxInv'
  BY HookAssumption DEF CtxInv, OpenInv
<1>5. SlotInv'
  BY HookAssumption DEF SlotInv
<1>6. TimerInv'
  BY DEF TimerInv, Locks, InIO, TimerOf
<1>7. CancelledInv'
  BY DEF TypeOK, CancelledInv
<1> QED BY <1>1, <1>2, <1>3, <1>4, <1>5, <1>6, <1>7

\* sleep waits without a descriptor.
LEMMA SleepInvariant == ASSUME CallInv, NEW f \in Fiber, Sleep(f) PROVE CallInv'
<1> USE DEF CallInv, Sleep, Enter, Goto, Set, kernelVars
<1>1. TypeOK'
  BY HookAssumption DEF TypeOK
<1>2. CallsOK'
  BY HookAssumption DEF CallsOK
<1>3. OpenInv'
  BY HookAssumption DEF OpenInv, Making, Closing
<1>4. CtxInv'
  BY HookAssumption DEF CtxInv
<1>5. SlotInv'
  BY HookAssumption DEF SlotInv
<1>6. TimerInv'
  BY HookAssumption DEF TypeOK, TimerInv, Locks, TimerOf, Timer, CallsOK
<1>7. CancelledInv'
  BY DEF TypeOK, CancelledInv
<1> QED BY <1>1, <1>2, <1>3, <1>4, <1>5, <1>6, <1>7

\* A descriptor that is used again has no FdCtx.
LEMMA SocketInvariant == ASSUME CallInv, NEW f \in Fiber, NEW d \in Fd, Socket(f, d) PROVE CallInv'
<1> USE DEF CallInv, Socket, Enter, Goto, Set
<1>1. TypeOK'
  BY HookAssumption DEF TypeOK
<1>2. CallsOK'
  BY HookAssumption DEF CallsOK
<1>3. OpenInv'
  BY HookAssumption DEF TypeOK, OpenInv, CtxInv
<1>4. CtxInv'
  BY HookAssumption DEF CtxInv
<1>5. SlotInv'
  BY HookAssumption DEF SlotInv
<1>6. TimerInv'
  BY HookAssumption DEF TypeOK, TimerInv, Locks, TimerOf, Timer, CallsOK
<1>7. CancelledInv'
  BY DEF TypeOK, CancelledInv
<1> QED BY <1>1, <1>2, <1>3, <1>4, <1>5, <1>6, <1>7

\* close() begins alone.
LEMMA CloseInvariant == ASSUME CallInv, NEW f \in Fiber, NEW d \in Fd, Close(f, d) PROVE CallInv'
<1> USE DEF CallInv, Close, kernelVars
<1>1. /\ pc[f] = "idle" /\ pc'[f] \in {"cancelAll", "close"} /\ (pc'[f] = "close" => m_datas[d] = None)
      /\ fd'[f] = d /\ \A g \in Fiber : g # f => pc'[g] = pc[g] /\ fd'[g] = fd[g]
  BY DEF Enter, Goto, Set, TypeOK
<1>2. TypeOK'
  BY HookAssumption DEF Enter, Goto, Set, TypeOK
<1>3. CallsOK'
  BY HookAssumption DEF Enter, Goto, Set, CallsOK
<1>4. OpenInv'
  <2>1. alive[d] /\ \A g \in Fiber : pc[g] \in Making \cup Closing => fd[g] # d
    BY DEF Known, Making, Closing
  <2> QED BY <1>1, <2>1 DEF OpenInv, Making
<1>5. CtxInv' /\ CancelledInv'
  BY DEF CtxInv, CancelledInv
<1>6. SlotInv'
  BY <1>1 DEF SlotInv, TypeOK, Registration
<1>7. TimerInv'
  BY DEF Enter, Goto, Set, TimerInv, TimerOf, Locks, TypeOK, CallsOK, Timer
<1> QED BY <1>2, <1>3, <1>4, <1>5, <1>6, <1>7

\* A call of the hooked functions: all timers are of earlier calls.
LEMMA CallInvariant == ASSUME CallInv, NEW f \in Fiber, NEW o \in Op, NEW d \in Fd, Call(f, o, d) PROVE CallInv'
<1> USE DEF CallInv, Call, Enter, Goto, Set, kernelVars
<1>1. TypeOK'
  BY HookAssumption DEF TypeOK, InIO
<1>2. CallsOK'
  BY HookAssumption DEF CallsOK
<1>3. OpenInv'
  BY HookAssumption DEF OpenInv, Making, Closing
<1>4. CtxInv'
  BY HookAssumption DEF CtxInv
<1>5. SlotInv'
  BY HookAssumption DEF SlotInv
<1>6. TimerInv'
  BY HookAssumption DEF TypeOK, TimerInv, Locks, TimerOf, Timer, CallsOK
<1>7. CancelledInv'
  BY DEF TypeOK, CancelledInv
<1> QED BY <1>1, <1>2, <1>3, <1>4, <1>5, <1>6, <1>7

\* A timeout is set.
LEMMA SetsockoptInvariant == ASSUME CallInv, NEW d \in Fd, NEW e \in Event, Setsockopt(d, e) PROVE CallInv'
<1> USE DEF CallInv, Setsockopt, Known, kernelVars, callVars
<1>1. /\ m_datas' \in [Fd -> FdCtx \cup {None}] /\ nonblock' \in [Fd -> BOOLEAN]
      /\ \A k \in Fd : m_datas'[k] # None => m_datas[k] # None /\ m_datas'[k].sock = m_datas[k].sock
      /\ \A k \in Fd : m_datas[k] = None => m_datas'[k] = None
  <2>1. CASE m_datas[d] = None
    BY <2>1, HookAssumption DEF TypeOK
  <2>2. CASE m_datas[d] # None
    <3>1. m_datas[d] \in FdCtx /\ e \in Event
      BY <2>2, HookAssumption DEF TypeOK
    <3>2. PICK r : r = [m_datas[d] EXCEPT !.timeouts = @ \cup {e}]
      OBVIOUS
    <3>3. r \in FdCtx /\ r.sock = m_datas[d].sock /\ r # None
      BY <3>1, <3>2, HookAssumption DEF FdCtx
    <3>4. m_datas' = [m_datas EXCEPT ![d] = r]
      BY <2>2, <3>2
    <3> QED BY <2>2, <3>1, <3>3, <3>4 DEF TypeOK
  <2> QED BY <2>1, <2>2
<1>2. TypeOK'
  BY <1>1 DEF TypeOK
<1>3. CallsOK' /\ SlotInv' /\ CancelledInv'
  BY DEF CallsOK, SlotInv, CancelledInv
<1>4. OpenInv'
  BY <1>1 DEF OpenInv
<1>5. CtxInv'
  BY <1>1 DEF CtxInv
<1>6. TimerInv'
  BY DEF TimerInv, TimerOf, Locks
<1> QED BY <1>2, <1>3, <1>4, <1>5, <1>6

\* fcntl(F_SETFL).
LEMMA FcntlInvariant == ASSUME CallInv, NEW d \in Fd, NEW b \in BOOLEAN, Fcntl(d, b) PROVE CallInv'
<1> USE DEF CallInv, Fcntl, Known, kernelVars, callVars
<1>1. /\ m_datas' \in [Fd -> FdCtx \cup {None}] /\ nonblock' \in [Fd -> BOOLEAN]
      /\ \A k \in Fd : m_datas'[k] # None => m_datas[k] # None /\ m_datas'[k].sock = m_datas[k].sock
      /\ \A k \in Fd : m_datas[k] = None => m_datas'[k] = None
  <2>1. CASE m_datas[d] = None
    BY <2>1, HookAssumption DEF TypeOK
  <2>2. CASE m_datas[d] # None
    <3>1. m_datas[d] \in FdCtx /\ b \in BOOLEAN
      BY <2>2, HookAssumption DEF TypeOK
    <3>2. PICK r : r = [m_datas[d] EXCEPT !.userNonblock = b]
      OBVIOUS
    <3>3. r \in FdCtx /\ r.sock = m_datas[d].sock /\ r # None
      BY <3>1, <3>2, HookAssumption DEF FdCtx
    <3>4. m_datas' = [m_datas EXCEPT ![d] = r]
      BY <2>2, <3>2
    <3> QED BY <2>2, <3>1, <3>3, <3>4 DEF TypeOK
  <2> QED BY <2>1, <2>2
<1>2. TypeOK'
  BY <1>1 DEF TypeOK
<1>3. CallsOK' /\ SlotInv' /\ CancelledInv'
  BY DEF CallsOK, SlotInv, CancelledInv
<1>4. OpenInv'
  BY <1>1 DEF OpenInv, TypeOK, Making, Closing
<1>5. CtxInv'
  BY <1>1 DEF CtxInv
<1>6. TimerInv'
  BY DEF TimerInv, TimerOf, Locks
<1> QED BY <1>2, <1>3, <1>4, <1>5, <1>6

\* ioctl(FIONBIO).
LEMMA IoctlInvariant == ASSUME CallInv, NEW d \in Fd, NEW b \in FionbioArgs, Ioctl(d, b) PROVE CallInv'
<1> USE DEF CallInv, Ioctl, Known, kernelVars, callVars
<1>1. /\ m_datas' \in [Fd -> FdCtx \cup {None}] /\ nonblock' \in [Fd -> BOOLEAN]
      /\ \A k \in Fd : m_datas'[k] # None => m_datas[k] # None /\ m_datas'[k].sock = m_datas[k].sock
      /\ \A k \in Fd : m_datas[k] = None => m_datas'[k] = None
  <2>1. CASE m_datas[d] = None
    BY <2>1, HookAssumption DEF TypeOK
  <2>2. CASE m_datas[d] # None
    <3>1. m_datas[d] \in FdCtx /\ b \in BOOLEAN
      BY <2>2, HookAssumption DEF TypeOK
    <3>2. PICK r : r = [m_datas[d] EXCEPT !.userNonblock = b]
      OBVIOUS
    <3>3. r \in FdCtx /\ r.sock = m_datas[d].sock /\ r # None
      BY <3>1, <3>2, HookAssumption DEF FdCtx
    <3>4. m_datas' = [m_datas EXCEPT ![d] = r]
      BY <2>2, <3>2
    <3> QED BY <2>2, <3>1, <3>3, <3>4 DEF TypeOK
  <2> QED BY <2>1, <2>2
<1>2. TypeOK'
  BY <1>1 DEF TypeOK
<1>3. CallsOK' /\ SlotInv' /\ CancelledInv'
  BY DEF CallsOK, SlotInv, CancelledInv
<1>4. OpenInv'
  BY <1>1 DEF OpenInv
<1>5. CtxInv'
  BY <1>1 DEF CtxInv
<1>6. TimerInv'
  BY DEF TimerInv, TimerOf, Locks
<1> QED BY <1>2, <1>3, <1>4, <1>5, <1>6

\* idle() wakes the waiter of an event.
LEMMA DispatchInvariant == ASSUME CallInv, NEW d \in Fd, NEW e \in Event, Dispatch(d, e) PROVE CallInv'
BY WakeKeeps DEF Dispatch

\* The peer.
LEMMA AvailableInvariant == ASSUME CallInv, NEW d \in Fd, NEW e \in Event, BecomesAvailable(d, e) PROVE CallInv'
<1> USE DEF CallInv, BecomesAvailable, callVars
<1>1. TypeOK'
  BY DEF TypeOK
<1>2. CallsOK'
  BY DEF CallsOK
<1>3. OpenInv'
  BY DEF OpenInv
<1>4. CtxInv'
  BY DEF CtxInv
<1>5. SlotInv'
  BY DEF SlotInv
<1>6. TimerInv'
  BY DEF TimerInv, TimerOf, Locks
<1>7. CancelledInv'
  BY DEF CancelledInv
<1> QED BY <1>1, <1>2, <1>3, <1>4, <1>5, <1>6, <1>7

\* A timer that expires is of the call under way.
LEMMA ExpireInvariant == ASSUME CallInv, NEW x \in timers, Expire(x) PROVE CallInv'
<1> USE DEF CallInv, kernelVars
<1>1. PICK y : y = [x EXCEPT !.stage = "due"]
  OBVIOUS
<1>2. /\ x \in Timer /\ y \in Timer /\ y.fiber = x.fiber /\ y.call = x.call /\ y.stage = "due"
      /\ timers' = (timers \ {x}) \cup {y} /\ expired' = [expired EXCEPT ![x.fiber] = TRUE]
      /\ UNCHANGED <<m_datas, kernelVars, slot, pc, op, fd, to, cancelled, calls, result>>
  BY <1>1 DEF Expire, Set, TypeOK, Timer
<1>3. /\ expired' \in [Fiber -> BOOLEAN] /\ expired'[x.fiber]
      /\ \A g \in Fiber : expired[g] => expired'[g]
  BY <1>2 DEF CallsOK, Timer
<1>4. TypeOK'
  BY <1>2 DEF TypeOK
<1>5. CallsOK' /\ OpenInv' /\ CtxInv' /\ SlotInv'
  BY <1>2, <1>3 DEF CallsOK, OpenInv, CtxInv, SlotInv
<1>6. CancelledInv'
  BY <1>2, <1>3 DEF CancelledInv
<1>7. TimerInv'
  <2> SUFFICES ASSUME NEW z \in timers'
               PROVE  /\ z.call <= calls[z.fiber]
                      /\ z.stage = "set" => z = TimerOf(z.fiber) /\ pc[z.fiber] \in {"add", "wait", "woken"}
                      /\ z.stage = "due" /\ Locks(z) => expired'[z.fiber]
    BY <1>2 DEF TimerInv, TimerOf, Locks
  <2>1. CASE z = y
    BY <1>2, <1>3, <2>1 DEF TimerInv
  <2>2. CASE z # y
    <3>1. z \in timers /\ z.fiber \in Fiber
      BY <1>2, <2>2 DEF TypeOK, Timer
    <3> QED BY <1>3, <3>1 DEF TimerInv
  <2> QED BY <2>1, <2>2
<1> QED BY <1>4, <1>5, <1>6, <1>7

\* The callback marks its own call or none.
LEMMA TimeoutInvariant == ASSUME CallInv, NEW x \in timers, Timeout(x) PROVE CallInv'
<1> USE DEF CallInv, kernelVars
<1>1. x \in Timer /\ x.fiber \in Fiber
  BY DEF TypeOK, Timer
<1>2. timers' \subseteq timers \cup {[x EXCEPT !.stage = "cancel"]}
  BY DEF Timeout
<1>3. /\ cancelled' \in [Fiber -> BOOLEAN]
      /\ \A g \in Fiber : cancelled'[g] => cancelled[g] \/ (g = x.fiber /\ Locks(x) /\ x.stage = "due")
  BY <1>1 DEF Timeout, Set, TypeOK
<1>4. UNCHANGED <<m_datas, kernelVars, slot, pc, op, fd, to, calls, expired, result>>
  BY DEF Timeout
<1>5. TypeOK'
  <2>1. [x EXCEPT !.stage = "cancel"] \in Timer
    BY <1>1 DEF Timer
  <2> QED BY <1>2, <1>3, <1>4, <2>1 DEF TypeOK
<1>6. CallsOK' /\ OpenInv' /\ CtxInv' /\ SlotInv'
  BY <1>4 DEF CallsOK, OpenInv, CtxInv, SlotInv
<1>7. CancelledInv'
  BY <1>3, <1>4 DEF CancelledInv, TimerInv
<1>8. TimerInv'
  <2> SUFFICES ASSUME NEW z \in timers'
               PROVE  /\ z.call <= calls[z.fiber]
                      /\ z.stage = "set" => z = TimerOf(z.fiber) /\ pc[z.fiber] \in {"add", "wait", "woken"}
                      /\ z.stage = "due" /\ Locks(z) => expired[z.fiber]
    BY <1>4 DEF TimerInv, TimerOf, Locks
  <2>1. CASE z \in timers
    BY <2>1 DEF TimerInv
  <2>2. CASE z = [x EXCEPT !.stage = "cancel"]
    <3>1. z.call = x.call /\ z.fiber = x.fiber /\ z.stage = "cancel"
      BY <1>1, <2>2 DEF Timer
    <3> QED BY <3>1 DEF TimerInv
  <2> QED BY <1>2, <2>1, <2>2
<1> QED BY <1>5, <1>6, <1>7, <1>8

\* The callback wakes who is in the slot.
LEMMA CancelEventInvariant == ASSUME CallInv, NEW x \in timers, CancelEvent(x) PROVE CallInv'
<1>1. x.fd \in Fd /\ {x.event} \in SUBSET Event
  BY DEF CallInv, TypeOK, Timer
<1>2. CASE alive[x.fd]
  BY <1>1, <1>2, WakeKeeps DEF CancelEvent
<1>3. CASE ~alive[x.fd]
  <2> USE <1>3 DEF CancelEvent, CallInv, kernelVars, callVars
  <2>1. TypeOK'
    BY DEF TypeOK
  <2>2. CallsOK' /\ OpenInv' /\ CtxInv' /\ SlotInv' /\ CancelledInv'
    BY DEF CallsOK, OpenInv, CtxInv, SlotInv, CancelledInv
  <2>3. TimerInv'
    BY DEF TimerInv, TimerOf, Locks
  <2> QED BY <2>1, <2>2, <2>3
<1> QED BY <1>2, <1>3

-----------------------------------------------------------------------------
(* O_NONBLOCK, and the fibers that wait.                                   *)

\* Only the hooked calls change O_NONBLOCK of a socket that has an FdCtx, and
\* they set it, unless a program passes 0 to ioctl(FIONBIO).
LEMMA NonblockNext ==
    ASSUME FALSE \notin FionbioArgs, CallInv, NonblockInv, [Next]_vars
    PROVE  NonblockInv'
<1> USE DEF NonblockInv, CallInv
<1>1. CASE \E f \in Fiber : Create(f)
  BY <1>1, HookAssumption DEF Create, TypeOK
<1>2. CASE \E f \in Fiber : Del(f)
  BY <1>2, HookAssumption DEF Del, kernelVars
<1>3. CASE \E f \in Fiber : CloseF(f)
  BY <1>3, HookAssumption DEF CloseF, OpenInv
<1>4. CASE \E f \in Fiber, d \in Fd : Socket(f, d)
  BY <1>4, HookAssumption DEF Socket, CtxInv
<1>5. CASE \E d \in Fd, e \in Event : Setsockopt(d, e)
  BY <1>5, HookAssumption DEF Setsockopt, kernelVars
<1>6. CASE \E d \in Fd, b \in BOOLEAN : Fcntl(d, b)
  BY <1>6, HookAssumption DEF Fcntl, TypeOK, CtxInv, Known, FdCtx
<1>7. CASE \E d \in Fd, b \in FionbioArgs : Ioctl(d, b)
  <2>1. PICK d \in Fd : Ioctl(d, TRUE)
    BY <1>7, HookAssumption
  <2>2. nonblock' = [nonblock EXCEPT ![d] = TRUE] /\ \A k \in Fd : k # d => m_datas'[k] = m_datas[k]
    BY <2>1 DEF Ioctl, TypeOK
  <2> QED BY <2>2 DEF TypeOK
<1>8. CASE UNCHANGED <<m_datas, nonblock>>
  BY <1>8
<1>9. UNCHANGED <<m_datas, nonblock>> \/ (\E f \in Fiber : Create(f))
        \/ (\E f \in Fiber : Del(f))
        \/ (\E f \in Fiber : CloseF(f))
        \/ (\E f \in Fiber, d \in Fd : Socket(f, d))
        \/ (\E d \in Fd, e \in Event : Setsockopt(d, e))
        \/ (\E d \in Fd, b \in BOOLEAN : Fcntl(d, b))
        \/ (\E d \in Fd, b \in FionbioArgs : Ioctl(d, b))
  BY DEF Next, Step, TimerStep, vars, kernelVars, Get, Try, Arm, Add, Woken, Awake, CancelAll, Close,
         Call, Sleep, Dispatch, BecomesAvailable, Expire, Timeout, CancelEvent
<1> QED BY <1>1, <1>2, <1>3, <1>4, <1>5, <1>6, <1>7, <1>8, <1>9

\* The step of one fiber that neither begins a call nor goes to wait.
LEMMA OneFiberKeeps ==
    ASSUME UserInv, WaiterIsRegistered, NEW f \in Fiber, UNCHANGED <<gen, alive, slot>>,
           \A g \in Fiber : g # f => pc'[g] = pc[g] /\ fd'[g] = fd[g] /\ op'[g] = op[g],
           pc'[f] # "wait",
           pc'[f] \in InIO => pc[f] \in InIO /\ fd'[f] = fd[f] /\ op'[f] = op[f],
           pc'[f] \in Closing => pc[f] \in Closing /\ fd'[f] = fd[f]
    PROVE  UserInv' /\ WaiterIsRegistered'
<1>1. UserInv'
  BY DEF UserInv
<1>2. WaiterIsRegistered'
  BY DEF WaiterIsRegistered
<1> QED BY <1>1, <1>2

\* Who is not woken keeps its slot.
LEMMA WakeKeepsRegistered ==
    ASSUME CallInv, UserInv, WaiterIsRegistered, NEW d \in Fd, NEW E \in SUBSET Event,
           slot' = SlotLeft(d, E), UNCHANGED <<gen, alive, fd, op>>,
           \A g \in Fiber : pc'[g] = "wait" => pc[g] = "wait" /\ g \notin Waiting(d, E),
           \A g \in Fiber : pc'[g] \in InIO => pc[g] \in InIO,
           \A g \in Fiber : pc'[g] \in Closing => pc[g] \in Closing
    PROVE  UserInv' /\ WaiterIsRegistered'
<1>1. UserInv'
  BY DEF UserInv
<1>2. WaiterIsRegistered'
  <2> SUFFICES ASSUME NEW g \in Fiber, pc'[g] = "wait"
               PROVE  alive[fd[g]] /\ slot'[fd[g]][EventOf(op[g])] = <<g, gen[fd[g]]>>
    BY DEF WaiterIsRegistered
  <2>1. PICK b \in Fd : b = fd[g]
    BY DEF CallInv, TypeOK
  <2>2. PICK e \in Event : e = EventOf(op[g])
    BY DEF EventOf, Event
  <2>3. alive[b] /\ slot[b][e] = <<g, gen[b]>> /\ g \notin Waiting(d, E)
    BY <2>1, <2>2 DEF WaiterIsRegistered
  <2>4. ~(b = d /\ e \in E)
    BY <2>3 DEF Waiting
  <2>5. slot'[b][e] = slot[b][e]
    BY <2>4 DEF SlotLeft
  <2> QED BY <2>1, <2>2, <2>3, <2>5
<1> QED BY <1>1, <1>2

\* A waiting fiber stays in its slot, with its descriptor open, until it is woken.
LEMMA RegisteredNext ==
    ASSUME SharedClose = FALSE, CallInv, UserInv, WaiterIsRegistered, [Next]_vars
    PROVE  UserInv' /\ WaiterIsRegistered'
<1>1. CASE \E f \in Fiber : Step(f)
  <2> SUFFICES ASSUME NEW f \in Fiber, Step(f) PROVE UserInv' /\ WaiterIsRegistered'
    BY <1>1
  <2> USE DEF CallInv, kernelVars, callVars
  <2>1. CASE Get(f) \/ Create(f) \/ Awake(f)
    <3>1. CASE pc'[f] = "create" /\ Goto(f, "create") /\ UNCHANGED <<kernelVars, slot, fd, op>>
      <4>1. \A g \in Fiber : g # f => pc'[g] = pc[g]
        BY <3>1 DEF Goto, TypeOK
      <4> QED BY <3>1, <4>1, OneFiberKeeps DEF InIO, Closing
    <3>2. CASE Return(f, "ok") /\ UNCHANGED <<gen, alive, slot>>
      BY <3>2, ReturnFacts, OneFiberKeeps DEF InIO, Closing
    <3> QED BY <2>1, <3>1, <3>2 DEF Get, Create, Awake, Goto, TypeOK
  <2>2. CASE Try(f) \/ Woken(f) \/ Arm(f) \/ (Add(f) /\ ~alive[fd[f]])
    <3>1. UNCHANGED <<gen, alive, slot>> /\ pc[f] \in InIO
      BY <2>2 DEF Try, Woken, Arm, Add, InIO
    <3>2. \/ \E r \in {"none", "ok", "EBADF", "ETIMEDOUT"} : Return(f, r)
          \/ \E where \in {"try", "arm", "add"} : Goto(f, where) /\ UNCHANGED callVars
      BY <2>2 DEF Try, Woken, Arm, Add
    <3>3. CASE \E r \in {"none", "ok", "EBADF", "ETIMEDOUT"} : Return(f, r)
      BY <3>1, <3>3, ReturnFacts, OneFiberKeeps DEF InIO, Closing
    <3>4. CASE \E where \in {"try", "arm", "add"} : Goto(f, where) /\ UNCHANGED callVars
      <4>1. pc'[f] \in {"try", "arm", "add"} /\ \A g \in Fiber : g # f => pc'[g] = pc[g]
        BY <3>4 DEF Goto, TypeOK
      <4> QED BY <3>1, <3>4, <4>1, OneFiberKeeps DEF Closing
    <3> QED BY <3>2, <3>3, <3>4
  <2>3. CASE Add(f) /\ alive[fd[f]]
    <3>1. PICK d \in Fd : d = fd[f]
      BY <2>3 DEF Add, TypeOK
    <3>2. PICK e \in Event : e = EventOf(op[f])
      BY DEF EventOf, Event
    <3>3. /\ slot' = [slot EXCEPT ![d][e] = <<f, gen[d]>>] /\ pc[f] = "add" /\ pc'[f] = "wait"
          /\ \A g \in Fiber : g # f => pc'[g] = pc[g]
          /\ UNCHANGED <<kernelVars, fd, op>>
      BY <2>3, <3>1, <3>2 DEF Add, Goto, TypeOK
    <3>4. UserInv'
      BY <3>3 DEF UserInv, InIO, Closing
    <3>5. WaiterIsRegistered'
      <4> SUFFICES ASSUME NEW g \in Fiber, pc'[g] = "wait"
                   PROVE  alive[fd[g]] /\ slot'[fd[g]][EventOf(op[g])] = <<g, gen[fd[g]]>>
        BY <3>3 DEF WaiterIsRegistered
      <4>1. CASE g = f
        BY <2>3, <3>1, <3>2, <3>3, <4>1 DEF TypeOK
      <4>2. CASE g # f
        <5>1. alive[fd[g]] /\ slot[fd[g]][EventOf(op[g])] = <<g, gen[fd[g]]>>
          BY <3>3, <4>2 DEF WaiterIsRegistered
        <5>2. fd[g] # d \/ EventOf(op[g]) # e
          BY <3>1, <3>2, <3>3, <4>2 DEF UserInv, InIO
        <5> QED BY <3>3, <5>1, <5>2 DEF TypeOK
      <4> QED BY <4>1, <4>2
    <3> QED BY <3>4, <3>5
  <2>4. CASE CancelAll(f)
    <3>1. PICK d \in Fd : d = fd[f]
      BY <2>4 DEF CancelAll, TypeOK
    <3>2. slot' = SlotLeft(d, Event) /\ UNCHANGED <<gen, alive, fd, op>>
      BY <2>4, <3>1 DEF CancelAll, SlotLeft
    <3> HIDE DEF CallInv
    <3>3. \A g \in Waiting(d, Event) : g \in Fiber /\ pc[g] = "wait"
      BY WakeFacts
    <3>4. \A g \in Fiber : /\ pc'[g] = "wait" => pc[g] = "wait" /\ g \notin Waiting(d, Event)
                           /\ pc'[g] \in InIO => pc[g] \in InIO
                           /\ pc'[g] \in Closing => pc[g] \in Closing
      BY <2>4, <3>1, <3>3 DEF CancelAll, InIO, Closing
    <3> QED BY <3>2, <3>4, WakeKeepsRegistered
  <2>5. CASE Del(f)
    <3>1. pc[f] = "del" /\ pc'[f] = "close" /\ UNCHANGED <<gen, alive, slot, fd, op>>
          /\ \A g \in Fiber : g # f => pc'[g] = pc[g]
      BY <2>5 DEF Del, Goto, TypeOK
    <3> QED BY <3>1, OneFiberKeeps DEF InIO, Closing
  <2>6. CASE CloseF(f)
    <3>1. /\ pc[f] \in Closing /\ gen' = gen /\ slot' = slot /\ pc'[f] = "idle"
          /\ \A d \in Fd : d # fd[f] => alive'[d] = alive[d]
          /\ \A g \in Fiber : g # f => pc'[g] = pc[g] /\ fd'[g] = fd[g] /\ op'[g] = op[g]
      BY <2>6, ReturnFacts DEF CloseF, TypeOK, Closing
    <3>2. UserInv'
      BY <3>1 DEF UserInv, InIO, Closing
    <3>3. WaiterIsRegistered'
      <4>1. \A g \in Fiber : pc[g] = "wait" => fd[g] \in Fd /\ fd[g] # fd[f]
        BY <3>1 DEF UserInv, InIO, TypeOK
      <4> QED BY <3>1, <4>1 DEF WaiterIsRegistered
    <3> QED BY <3>2, <3>3
  <2> QED BY <2>1, <2>2, <2>3, <2>4, <2>5, <2>6 DEF Step
<1>2. CASE \E f \in Fiber : Sleep(f) \/ \E d \in Fd : Socket(f, d) \/ Close(f, d) \/ \E o \in Op : Call(f, o, d)
  <2> SUFFICES ASSUME NEW f \in Fiber,
                      Sleep(f) \/ \E d \in Fd : Socket(f, d) \/ Close(f, d) \/ \E o \in Op : Call(f, o, d)
               PROVE  UserInv' /\ WaiterIsRegistered'
    BY <1>2
  <2> USE DEF CallInv, kernelVars
  <2>1. /\ pc[f] = "idle" /\ pc'[f] \notin {"wait"} /\ slot' = slot
        /\ \A g \in Fiber : g # f => pc'[g] = pc[g] /\ fd'[g] = fd[g] /\ op'[g] = op[g]
    BY DEF Sleep, Socket, Close, Call, Enter, Goto, Set, TypeOK
  <2>2. \A g \in Fiber : pc[g] = "wait" => alive'[fd[g]] /\ gen'[fd[g]] = gen[fd[g]]
    <3>1. CASE UNCHANGED <<alive, gen>>
      BY <3>1 DEF WaiterIsRegistered
    <3>2. CASE \E d \in Fd : Socket(f, d)
      <4>1. PICK d \in Fd : Socket(f, d)
        BY <3>2
      <4>2. \A g \in Fiber : pc[g] = "wait" => alive[fd[g]] /\ fd[g] \in Fd /\ fd[g] # d
        BY <4>1 DEF Socket, WaiterIsRegistered, TypeOK
      <4> QED BY <4>1, <4>2 DEF Socket, TypeOK
    <3> QED BY <3>1, <3>2 DEF Sleep, Close, Call
  <2>3. WaiterIsRegistered'
    <3> SUFFICES ASSUME NEW g \in Fiber, pc'[g] = "wait"
                 PROVE  alive'[fd'[g]] /\ slot'[fd'[g]][EventOf(op'[g])] = <<g, gen'[fd'[g]]>>
      BY DEF WaiterIsRegistered
    <3>1. pc[g] = "wait" /\ fd'[g] = fd[g] /\ op'[g] = op[g] /\ slot' = slot
      BY <2>1
    <3>2. alive'[fd[g]] /\ gen'[fd[g]] = gen[fd[g]]
      BY <2>2, <3>1
    <3>3. slot[fd[g]][EventOf(op[g])] = <<g, gen[fd[g]]>>
      BY <3>1 DEF WaiterIsRegistered
    <3> QED BY <3>1, <3>2, <3>3
  <2>4. UserInv'
    <3>1. CASE Sleep(f) \/ \E d \in Fd : Socket(f, d)
      <4>1. pc'[f] \notin InIO \cup Closing
        BY <3>1 DEF Sleep, Socket, Enter, Goto, TypeOK, InIO, Closing
      <4> QED BY <2>1, <4>1 DEF UserInv
    <3>2. CASE \E d \in Fd : Close(f, d)
      <4>1. PICK d \in Fd : Close(f, d)
        BY <3>2
      <4>2. /\ fd'[f] = d /\ pc'[f] \notin InIO
            /\ \A g \in Fiber : pc[g] \in InIO => fd[g] # d
        BY <4>1 DEF Close, Uses, Enter, Goto, Set, TypeOK, InIO
      <4> QED BY <2>1, <4>2 DEF UserInv
    <3>3. CASE \E d \in Fd, o \in Op : Call(f, o, d)
      <4>1. PICK d \in Fd, o \in Op : Call(f, o, d)
        BY <3>3
      <4>2. /\ fd'[f] = d /\ op'[f] = o /\ pc'[f] = "try"
            /\ \A g \in Fiber : pc[g] \in InIO /\ fd[g] = d => EventOf(op[g]) # EventOf(o)
            /\ \A g \in Fiber : pc[g] \in Closing => fd[g] # d
        BY <4>1 DEF Call, Uses, Enter, Goto, Set, TypeOK, Closing
      <4> QED BY <2>1, <4>2 DEF UserInv, Closing
    <3> QED BY <3>1, <3>2, <3>3
  <2> QED BY <2>3, <2>4
<1>3. CASE \E d \in Fd, E \in SUBSET Event : Wake(d, E) /\ UNCHANGED <<kernelVars, callVars>>
  <2>1. PICK d \in Fd, E \in SUBSET Event : Wake(d, E) /\ UNCHANGED <<kernelVars, callVars>>
    BY <1>3
  <2>2. slot' = SlotLeft(d, E) /\ UNCHANGED <<gen, alive, fd, op>>
    BY <2>1 DEF Wake, SlotLeft, kernelVars, callVars
  <2>3. \A g \in Waiting(d, E) : g \in Fiber /\ pc[g] = "wait"
    BY WakeFacts
  <2>4. \A g \in Fiber : /\ pc'[g] = "wait" => pc[g] = "wait" /\ g \notin Waiting(d, E)
                         /\ pc'[g] \in InIO => pc[g] \in InIO
                         /\ pc'[g] \in Closing => pc[g] \in Closing
    BY <2>1, <2>3 DEF Wake, InIO, Closing
  <2> QED BY <2>2, <2>4, WakeKeepsRegistered
<1>4. CASE UNCHANGED <<gen, alive, slot, pc, fd, op>>
  BY <1>4 DEF UserInv, WaiterIsRegistered
<1>5. CASE \E d \in Fd, e \in Event : Dispatch(d, e)
  <2>1. PICK d \in Fd, e \in Event : Dispatch(d, e)
    BY <1>5
  <2>2. {e} \in SUBSET Event /\ Wake(d, {e}) /\ UNCHANGED <<kernelVars, callVars>>
    BY <2>1 DEF Dispatch
  <2> QED BY <1>3, <2>2
<1>6. CASE \E x \in timers : CancelEvent(x)
  <2>1. PICK x \in timers : CancelEvent(x)
    BY <1>6
  <2>2. x.fd \in Fd /\ {x.event} \in SUBSET Event
    BY DEF CallInv, TypeOK, Timer
  <2> QED BY <1>3, <1>4, <2>1, <2>2 DEF CancelEvent, kernelVars, callVars
<1>7. CASE \/ \E d \in Fd : \/ \E e \in Event : Setsockopt(d, e) \/ BecomesAvailable(d, e)
                            \/ \E b \in BOOLEAN : Fcntl(d, b)
                            \/ \E b \in FionbioArgs : Ioctl(d, b)
           \/ \E x \in timers : Expire(x) \/ Timeout(x)
           \/ UNCHANGED vars
  BY <1>4, <1>7 DEF Setsockopt, BecomesAvailable, Fcntl, Ioctl, Expire, Timeout, vars, kernelVars, callVars
<1> QED BY <1>1, <1>2, <1>5, <1>6, <1>7 DEF Next, TimerStep

-----------------------------------------------------------------------------
(* The theorems.                                                           *)

\* Every step of Hook preserves the inductive invariant.
LEMMA CallInvNext == ASSUME CallInv, [Next]_vars PROVE CallInv'
<1>1. CASE \E f \in Fiber : Step(f)
  BY <1>1, GetInvariant, CreateInvariant, TryInvariant, ArmInvariant, AddInvariant, WokenInvariant,
     AwakeInvariant, CancelAllInvariant, DelInvariant, CloseFInvariant DEF Step
<1>2. CASE \E f \in Fiber, d \in Fd : Socket(f, d) \/ Close(f, d) \/ \E o \in Op : Call(f, o, d)
  BY <1>2, SocketInvariant, CloseInvariant, CallInvariant
<1>3. CASE \E f \in Fiber : Sleep(f)
  BY <1>3, SleepInvariant
<1>4. CASE \E d \in Fd : \/ \E e \in Event : Setsockopt(d, e)
                         \/ \E b \in BOOLEAN : Fcntl(d, b)
                         \/ \E b \in FionbioArgs : Ioctl(d, b)
                         \/ \E e \in Event : Dispatch(d, e) \/ BecomesAvailable(d, e)
  BY <1>4, SetsockoptInvariant, FcntlInvariant, IoctlInvariant, DispatchInvariant, AvailableInvariant
<1>5. CASE \E x \in timers : TimerStep(x)
  BY <1>5, ExpireInvariant, TimeoutInvariant, CancelEventInvariant DEF TimerStep
<1>6. CASE UNCHANGED vars
  <2> USE <1>6 DEF CallInv, vars, kernelVars, callVars
  <2>1. TypeOK'
    BY DEF TypeOK
  <2>2. CallsOK' /\ OpenInv' /\ CtxInv' /\ SlotInv' /\ CancelledInv'
    BY DEF CallsOK, OpenInv, CtxInv, SlotInv, CancelledInv
  <2>3. TimerInv'
    BY DEF TimerInv, TimerOf, Locks
  <2> QED BY <2>1, <2>2, <2>3
<1> QED BY <1>1, <1>2, <1>3, <1>4, <1>5, <1>6 DEF Next

\* The calls, the FdManager, the slots and the timers agree in every state,
\* whatever programs close or pass to ioctl.
THEOREM CallInvHolds == Spec => []CallInv
<1>1. Init => CallInv
  <2> SUFFICES ASSUME Init PROVE CallInv
    OBVIOUS
  <2>1. TypeOK
    BY HookAssumption DEF Init, TypeOK, Op
  <2>2. CallsOK
    BY HookAssumption DEF Init, CallsOK, InIO
  <2>3. OpenInv /\ CtxInv
    BY DEF Init, OpenInv, CtxInv, Making, Closing
  <2>4. SlotInv /\ TimerInv /\ CancelledInv
    BY DEF Init, SlotInv, TimerInv, CancelledInv
  <2> QED BY <2>1, <2>2, <2>3, <2>4 DEF CallInv
<1> QED BY <1>1, CallInvNext, PTL DEF Spec

\* FdCtx and socket stay together and O_NONBLOCK stays set, although the number
\* of a descriptor is used again and get(fd, true) takes two locks; the only
\* call that breaks it is ioctl(FIONBIO) with 0.
THEOREM HookInvHolds == ASSUME FALSE \notin FionbioArgs PROVE Spec => []HookInv
<1>1. Init => NonblockInv
  BY DEF Init, NonblockInv
<1>2. CallInv /\ NonblockInv /\ [Next]_vars => NonblockInv'
  BY NonblockNext
<1>3. CallInv /\ NonblockInv => HookInv
  BY DEF CallInv, CtxInv, NonblockInv, HookInv, CtxMatchesSocket
<1> QED BY <1>1, <1>2, <1>3, CallInvHolds, PTL DEF Spec

\* Every fiber that has yielded is in the slot of its event on an open
\* descriptor, if nobody closes a descriptor that another fiber uses.
THEOREM WaiterIsRegisteredHolds == ASSUME SharedClose = FALSE PROVE Spec => []WaiterIsRegistered
<1>1. Init => UserInv /\ WaiterIsRegistered
  BY DEF Init, UserInv, WaiterIsRegistered, InIO
<1>2. CallInv /\ UserInv /\ WaiterIsRegistered /\ [Next]_vars => UserInv' /\ WaiterIsRegistered'
  BY RegisteredNext
<1> QED BY <1>1, <1>2, CallInvHolds, PTL DEF Spec

\* No call of do_io or connect leaves an armed timer behind, on any of its paths.
THEOREM NoTimerLeftHolds == Spec => []NoTimerLeft
<1>1. CallInv => NoTimerLeft
  <2> SUFFICES ASSUME CallInv, NEW x \in timers, x.stage = "set"
               PROVE  Locks(x) /\ pc[x.fiber] \in {"add", "wait", "woken"}
    BY DEF NoTimerLeft
  <2>1. x = TimerOf(x.fiber) /\ pc[x.fiber] \in {"add", "wait", "woken"}
    BY DEF CallInv, TimerInv
  <2>2. x.call = calls[x.fiber]
    BY <2>1 DEF TimerOf
  <2> QED BY <2>1, <2>2 DEF Locks, InIO
<1> QED BY <1>1, CallInvHolds, PTL

\* Only a timeout of the very call makes it return ETIMEDOUT, although callbacks
\* of earlier calls may run late and cancel its event.
THEOREM TimeoutIsOwnHolds == Spec => TimeoutIsOwn
<1>1. CallInv /\ [Next]_vars =>
        [\A f \in Fiber : result'[f] = "ETIMEDOUT" /\ result[f] # "ETIMEDOUT" => expired[f]]_vars
  <2> SUFFICES ASSUME CallInv, [Next]_vars, NEW f \in Fiber,
                      result'[f] = "ETIMEDOUT", result[f] # "ETIMEDOUT"
               PROVE  expired[f]
    OBVIOUS
  <2> USE DEF CallInv
  <2>1. \E g \in Fiber : Woken(g) /\ Return(g, "ETIMEDOUT") /\ cancelled[g]
    <3>1. ASSUME NEW g \in Fiber, NEW r \in {"none", "ok", "EBADF"}, result' = Set(result, g, r) PROVE FALSE
      BY <3>1 DEF Set, TypeOK
    <3>2. result' # result
      OBVIOUS
    <3>3. ASSUME NEW g \in Fiber, Step(g) PROVE Woken(g) /\ Return(g, "ETIMEDOUT") /\ cancelled[g]
      BY <3>1, <3>2, <3>3 DEF Step, Get, Create, Try, Arm, Add, Woken, Awake, CancelAll, Del, CloseF, Return
    <3>4. ASSUME NEW g \in Fiber, NEW d \in Fd, Socket(g, d) \/ Close(g, d) \/ \E o \in Op : Call(g, o, d)
          PROVE  FALSE
      BY <3>1, <3>4 DEF Socket, Close, Call, Enter
    <3>5. ASSUME NEW g \in Fiber, Sleep(g) PROVE FALSE
      BY <3>1, <3>5 DEF Sleep, Enter
    <3>6. CASE \E d \in Fd : \/ \E e \in Event : Setsockopt(d, e)
                             \/ \E b \in BOOLEAN : Fcntl(d, b)
                             \/ \E b \in FionbioArgs : Ioctl(d, b)
                             \/ \E e \in Event : Dispatch(d, e) \/ BecomesAvailable(d, e)
      BY <3>2, <3>6 DEF Setsockopt, Fcntl, Ioctl, Dispatch, BecomesAvailable
    <3>7. CASE \E x \in timers : TimerStep(x)
      BY <3>2, <3>7 DEF TimerStep, Expire, Timeout, CancelEvent
    <3>8. CASE UNCHANGED vars
      BY <3>2, <3>8 DEF vars
    <3> QED BY <3>3, <3>4, <3>5, <3>6, <3>7, <3>8 DEF Next
  <2>2. PICK g \in Fiber : Return(g, "ETIMEDOUT") /\ cancelled[g]
    BY <2>1
  <2>3. g = f
    BY <2>2 DEF Return, Set, TypeOK
  <2> QED BY <2>2, <2>3 DEF CancelledInv
<1> QED BY <1>1, CallInvHolds, PTL DEF Spec, TimeoutIsOwn
=============================================================================
