-------------------------- MODULE FdContextsProofs --------------------------
(***************************************************************************)
(* Proofs about FdContexts for any number of threads, descriptors, waiters *)
(* and FdContext objects.                                                  *)
(***************************************************************************)
EXTENDS FdContexts, FiniteSetTheorems, TLAPS

-----------------------------------------------------------------------------
(* The invariant that holds however threads interleave.                    *)

\* The slots are a one-to-one map of the registered events to the waiters.
SlotMap ==
    /\ \A c \in Obj, e \in Event : e \in events[c] <=> slot[c][e] # None
    /\ \A c \in Obj, e \in Event : slot[c][e] # None => slot[c][e] \in Registered
    /\ \A c, d \in Obj, e, g \in Event :
          slot[c][e] = slot[d][g] /\ slot[c][e] # None => c = d /\ e = g
    /\ \A n \in Registered : \E c \in Obj, e \in Event : slot[c][e] = n

\* Every call of addEvent brings a waiter of its own, which nobody knows yet.
NewInv ==
    /\ \A t \in Thread : pc[t] \in {"resize", "add"} => who[t] # None
    /\ \A t \in Thread : who[t] # None => status[who[t]] = "new"
    /\ \A t, u \in Thread : who[t] # None /\ who[t] = who[u] => t = u

\* Where a thread can be.
PcOK == pc \in [Thread -> {"free", "resize", "add", "del", "cancel", "cancelAll", "close", "dispatch"}]

SlotsInv == TypeOK /\ PcOK /\ PendingExact /\ SlotMap /\ NewInv

-----------------------------------------------------------------------------
(* The invariant of the instances in which epoll and the FdContexts stay   *)
(* together.                                                               *)

\* Nothing is closed while the program runs, and the vector is large enough.
Fixed == Closable = {} /\ \A f \in Fd : f < InitialSize

\* One thread.
Alone == (\A t, u \in Thread : t = u) /\ InitialSize >= 2

\* The FdContext that the constructor or contextResize made first.
First(f) == <<f, 0>>

\* The vector only grows, so the first FdContext of a descriptor stays the only one.
VectorInv ==
    /\ \A f \in Fd : gen[f] = 0
    /\ size >= InitialSize
    /\ \A c \in Obj : c[2] # 0 => events[c] = {}

\* epoll has the events of the FdContext.
EpollInv ==
    \A f \in Fd : /\ interest[f] = events[First(f)]
                  /\ interest[f] # {} => open[f] /\ dataPtr[f] = First(f) /\ f < size
                  /\ fired[f] => interest[f] # {}

\* Who is in a slot was registered for this event of the socket that is open now.
RegInv ==
    \A c \in Obj, e \in Event : slot[c][e] # None =>
        reg[slot[c][e]] = <<c[1], e, epoch[c[1]]>>

\* Readiness of a registered event is on the ready list or with a thread that is
\* about to dispatch it.
EdgeInv ==
    \A f \in Fd : \A e \in interest[f] : ready[f] \cap {e, "HUP"} # {} =>
        \/ fired[f]
        \/ \E t \in Thread : \E ev \in got[t] : ev.obj = First(f) /\ ev.evs \cap {e, "HUP"} # {}

\* What a call has found out still holds: the FdContext it works on, that the
\* event addEvent is about to register is not registered, and that a descriptor
\* which is closed has no events left.
CallOK(t) ==
    /\ pc[t] \in {"add", "del", "cancel", "cancelAll"} =>
          ctx[t] = First(argFd[t]) /\ argFd[t] < size
    /\ pc[t] \in {"resize", "add"} => argEv[t] \notin events[First(argFd[t])]
    /\ pc[t] = "resize" => Alone /\ size <= argFd[t]
    /\ pc[t] \in {"cancelAll", "close"} => Alone
    /\ pc[t] = "close" => events[First(argFd[t])] = {}
    /\ \A ev \in got[t] : ev.obj[2] = 0
    /\ got[t] # {} => pc[t] = "dispatch"

\* No two calls of addEvent are about to register the same event.
OneAdder ==
    \A t, u \in Thread : pc[t] \in {"resize", "add"} /\ pc[u] \in {"resize", "add"}
                            /\ argFd[t] = argFd[u] /\ argEv[t] = argEv[u] => t = u

CallInv == (\A t \in Thread : CallOK(t)) /\ OneAdder

SyncInv == VectorInv /\ EpollInv /\ RegInv /\ EdgeInv /\ CallInv

\* One thread handles what epoll_wait reported before anything else changes.
GotInv ==
    \A t \in Thread :
        /\ \A ev \in got[t] : ev.evs \cap Event \subseteq events[ev.obj]
        /\ \A ev, fv \in got[t] : ev.obj = fv.obj => ev = fv

-----------------------------------------------------------------------------
(* Operators.                                                              *)

\* Some descriptor, event and object, as Return resets the locals to.
LEMMA AnyFacts == AnyFd \in Fd /\ AnyEv \in Event /\ NoObj \in Obj
<1>1. AnyFd \in Fd /\ AnyEv \in Event
  BY FdAssumption, EventAssumption DEF AnyFd, AnyEv
<1> QED BY <1>1, GenAssumption DEF NoObj, Obj

\* Returning changes the locals of one thread only.
LEMMA ReturnFacts ==
    ASSUME TypeOK, PcOK, NEW t \in Thread, Return(t)
    PROVE  /\ argFd' \in [Thread -> Fd] /\ argEv' \in [Thread -> Event]
           /\ ctx' \in [Thread -> Obj] /\ who' \in [Thread -> Waiter \cup {None}] /\ PcOK'
           /\ pc'[t] = "free" /\ who'[t] = None
           /\ \A u \in Thread : u # t => /\ pc'[u] = pc[u] /\ argFd'[u] = argFd[u] /\ ctx'[u] = ctx[u]
                                         /\ argEv'[u] = argEv[u] /\ who'[u] = who[u]
BY AnyFacts DEF Return, Goto, TypeOK, PcOK

\* A successful epoll_ctl keeps the types of the kernel's table.
LEMMA RegisterType ==
    ASSUME TypeOK, NEW f \in Fd, NEW c \in Obj, NEW new \in SUBSET Event, Register(f, c, new)
    PROVE  /\ interest' \in [Fd -> SUBSET Event] /\ dataPtr' \in [Fd -> Obj] /\ fired' \in [Fd -> BOOLEAN]
BY AnyFacts DEF Register, TypeOK

\* The waiters of the events ok leave their FdContext with status x, as
\* triggerEvent and delEvent do it.
Clears(c, ok, x) ==
    /\ events' = [events EXCEPT ![c] = @ \ ok]
    /\ slot' = [slot EXCEPT ![c] = [e \in Event |-> IF e \in ok THEN None ELSE @[e]]]
    /\ status' = [n \in Waiter |-> IF \E e \in ok : slot[c][e] = n THEN x ELSE status[n]]
    /\ m_pendingEventCount' = m_pendingEventCount - Cardinality(ok)

\* Registrations are cleared one for one: the count and the map stay exact.
LEMMA ClearsKeeps ==
    ASSUME SlotsInv, NEW c \in Obj, NEW ok \in SUBSET Event, ok \subseteq events[c],
           NEW x \in {"scheduled", "deleted"}, Clears(c, ok, x)
    PROVE  /\ events' \in [Obj -> SUBSET Event] /\ slot' \in [Obj -> [Event -> Waiter \cup {None}]]
           /\ status' \in [Waiter -> {"new", "registered", "scheduled", "deleted"}]
           /\ m_pendingEventCount' \in Nat /\ PendingExact' /\ SlotMap'
           /\ \A n \in Waiter : status[n] = "new" => status'[n] = "new"
<1> USE DEF SlotsInv
<1>1. /\ events' \in [Obj -> SUBSET Event] /\ events'[c] = events[c] \ ok
      /\ \A d \in Obj : d # c => events'[d] = events[d]
  BY DEF Clears, TypeOK
<1>2. /\ slot' \in [Obj -> [Event -> Waiter \cup {None}]]
      /\ \A e \in Event : slot'[c][e] = IF e \in ok THEN None ELSE slot[c][e]
      /\ \A d \in Obj : d # c => slot'[d] = slot[d]
  BY DEF Clears, TypeOK
<1>3. /\ status' \in [Waiter -> {"new", "registered", "scheduled", "deleted"}]
      /\ \A n \in Waiter : status'[n] = IF \E e \in ok : slot[c][e] = n THEN x ELSE status[n]
  BY DEF Clears, TypeOK
<1> DEFINE Gone == {slot[c][e] : e \in ok}
<1>4. Gone \subseteq Registered /\ Registered' = Registered \ Gone
  <2>1. \A e \in ok : slot[c][e] \in Registered
    BY DEF SlotMap
  <2>2. Registered' = Registered \ Gone
    BY <1>3 DEF Registered
  <2> QED BY <2>1, <2>2
<1>5. IsFiniteSet(ok) /\ IsFiniteSet(Registered) /\ Cardinality(Gone) = Cardinality(ok)
  <2>1. IsFiniteSet({"READ", "WRITE"})
    <3>1. IsFiniteSet({"READ"}) /\ {"READ", "WRITE"} = {"READ"} \cup {"WRITE"}
      BY FS_Singleton
    <3> QED BY <3>1, FS_AddElement
  <2>2. IsFiniteSet(ok)
    BY <2>1, EventAssumption, FS_Subset
  <2>3. IsFiniteSet(Registered)
    BY WaiterAssumption, FS_Subset DEF Registered
  <2>4. [e \in ok |-> slot[c][e]] \in Bijection(ok, Gone)
    <3>1. \A e, g \in ok : slot[c][e] = slot[c][g] => e = g
      BY DEF SlotMap
    <3> DEFINE m == [e \in ok |-> slot[c][e]]
    <3>2. m \in [ok -> Gone] /\ \A e \in ok : m[e] = slot[c][e]
      OBVIOUS
    <3>3. \A n \in Gone : \E e \in ok : m[e] = n
      BY <3>2
    <3> HIDE DEF m, Gone
    <3>4. \A e, g \in ok : m[e] = m[g] => e = g
      BY <3>1, <3>2
    <3>5. m \in Bijection(ok, Gone)
      BY <3>2, <3>3, <3>4 DEF Bijection, Injection, Surjection, IsInjective
    <3> QED BY <3>5 DEF m
  <2> QED BY <2>2, <2>3, <2>4, FS_Bijection DEF ExistsBijection
<1>6. PendingExact' /\ m_pendingEventCount' \in Nat
  <2> HIDE DEF Gone
  <2>1. Registered \cap Gone = Gone
    BY <1>4
  <2>2. /\ Cardinality(Registered \ Gone) = Cardinality(Registered) - Cardinality(Registered \cap Gone)
        /\ IsFiniteSet(Registered \ Gone)
    BY <1>5, FS_Difference
  <2>3. Cardinality(Registered \ Gone) \in Nat
    BY <2>2, FS_CardinalityType
  <2> QED BY <1>4, <1>5, <2>1, <2>2, <2>3 DEF PendingExact, Clears
<1>7. SlotMap'
  <2>1. \A d \in Obj, e \in Event : slot'[d][e] # None =>
            slot'[d][e] = slot[d][e] /\ ~(d = c /\ e \in ok)
    BY <1>2
  <2>2. \A d \in Obj, e \in Event : ~(d = c /\ e \in ok) => slot'[d][e] = slot[d][e]
    BY <1>2
  <2>3. \A d \in Obj, e \in Event : e \in events'[d] <=> slot'[d][e] # None
    BY <1>1, <1>2, <2>1 DEF SlotMap
  <2>4. ASSUME NEW d \in Obj, NEW e \in Event, slot'[d][e] # None PROVE slot'[d][e] \in Registered'
    <3>1. slot[d][e] \in Registered
      BY <2>1, <2>4 DEF SlotMap
    <3>2. slot[d][e] \notin Gone
      <4>1. \A g \in ok : slot[c][g] # None /\ g \in Event
        BY DEF SlotMap
      <4> QED BY <2>1, <2>4, <4>1 DEF SlotMap
    <3> QED BY <1>4, <2>1, <2>4, <3>1, <3>2
  <2>5. \A b, d \in Obj, e, g \in Event :
            slot'[b][e] = slot'[d][g] /\ slot'[b][e] # None => b = d /\ e = g
    BY <2>1 DEF SlotMap
  <2>6. ASSUME NEW n \in Registered' PROVE \E d \in Obj, e \in Event : slot'[d][e] = n
    <3>1. n \in Registered /\ n \notin Gone
      BY <1>4, <2>6
    <3>2. PICK d \in Obj, e \in Event : slot[d][e] = n
      BY <3>1 DEF SlotMap
    <3> QED BY <2>2, <3>1, <3>2
  <2> QED BY <2>3, <2>4, <2>5, <2>6 DEF SlotMap
<1>8. \A n \in Waiter : status[n] = "new" => status'[n] = "new"
  <2>1. \A e \in ok : status[slot[c][e]] = "registered"
    BY <1>4 DEF Registered
  <2> QED BY <1>3, <2>1
<1> QED BY <1>1, <1>2, <1>3, <1>6, <1>7, <1>8

\* triggerEvent for the events that are registered.
LEMMA TriggerClears ==
    ASSUME TypeOK, NEW c \in Obj, NEW E \in SUBSET Event, TriggerEvents(c, E)
    PROVE  /\ Clears(c, E \cap events[c], "scheduled")
           /\ E \subseteq events[c] => aborted' = aborted
<1>1. E \subseteq events[c] => E \ events[c] = {}
  OBVIOUS
<1> QED BY <1>1 DEF TriggerEvents, Clears

-----------------------------------------------------------------------------
(* The steps that register and clear nothing keep SlotsInv.                *)

\* Nothing is registered or cleared.
SameSlots == UNCHANGED <<events, slot, m_pendingEventCount, status>>

\* The slots and the count stay exact while nothing is registered or cleared.
LEMMA SameSlotsKeeps ==
    ASSUME SlotsInv, SameSlots PROVE PendingExact' /\ SlotMap'
<1>1. Registered' = Registered
  BY DEF SameSlots, Registered
<1> QED BY <1>1 DEF SlotsInv, SameSlots, PendingExact, SlotMap

\* A waiter stays new while its call of addEvent runs.
LEMMA NewKeeps ==
    ASSUME SlotsInv,
           \A n \in Waiter : status[n] = "new" => status'[n] = "new",
           \A u \in Thread : who'[u] # None => who'[u] = who[u],
           \A u \in Thread : pc'[u] \in {"resize", "add"} =>
               pc[u] \in {"resize", "add"} /\ who'[u] = who[u]
    PROVE  NewInv'
<1>1. \A u \in Thread : who[u] # None => who[u] \in Waiter
  BY DEF SlotsInv, TypeOK
<1> QED BY <1>1 DEF SlotsInv, NewInv

\* Sockets become ready, are drained and are opened again.
LEMMA EnvironmentSlots ==
    ASSUME SlotsInv, Environment PROVE SlotsInv'
<1> USE DEF SlotsInv
<1>1. PICK f \in Fd : \/ Reopen(f) \/ \E e \in Event \cup {"HUP"} : BecomesReady(f, e)
                      \/ \E e \in Event : Drained(f, e)
  BY DEF Environment
<1>2. SameSlots /\ UNCHANGED <<callVars, got, waitVars>>
  BY <1>1 DEF Reopen, BecomesReady, Drained, ctxVars, SameSlots, waitVars
<1>3. TypeOK'
  <2>1. CASE Reopen(f)
    <3>1. epoch[f] + 1 \in 0..MaxEpoch
      BY <2>1, GenAssumption DEF TypeOK, Reopen
    <3> QED BY <2>1, <3>1 DEF Reopen, TypeOK, ctxVars, epollVars, callVars, waitVars
  <2>2. CASE \E e \in Event \cup {"HUP"} : BecomesReady(f, e)
    BY <2>2 DEF BecomesReady, TypeOK, ctxVars, callVars, waitVars
  <2>3. CASE \E e \in Event : Drained(f, e)
    BY <2>3 DEF Drained, TypeOK, ctxVars, epollVars, callVars, waitVars
  <2> QED BY <1>1, <2>1, <2>2, <2>3
<1>4. NewInv' /\ PcOK'
  BY <1>2 DEF NewInv, PcOK, callVars, waitVars
<1> QED BY <1>2, <1>3, <1>4, SameSlotsKeeps

\* addEvent looks at the vector with a waiter that is new to everyone.
LEMMA AddEventSlots ==
    ASSUME SlotsInv, NEW t \in Thread, NEW f \in Fd, NEW e \in Event, NEW n \in Waiter,
           AddEvent(t, f, e, n)
    PROVE  SlotsInv'
<1> USE DEF SlotsInv
<1>1. SameSlots
  BY DEF AddEvent, SameSlots, ctxVars, waitVars
<1>2. /\ who' = [who EXCEPT ![t] = n] /\ status' = status
      /\ status[n] = "new" /\ (\A u \in Thread : who[u] # n)
      /\ \A u \in Thread : u # t => pc'[u] = pc[u]
      /\ pc' \in [Thread -> {"free", "resize", "add", "del", "cancel", "cancelAll", "close", "dispatch"}]
  BY DEF AddEvent, Goto, PcOK, waitVars
<1>3. NewInv' /\ PcOK'
  <2>1. /\ who'[t] = n /\ n # None
        /\ \A u \in Thread : u # t => who'[u] = who[u]
    BY <1>2, WaiterAssumption DEF TypeOK
  <2> QED BY <1>2, <2>1 DEF NewInv, PcOK
<1>4. TypeOK'
  <2>1. <<f, gen[f]>> \in Obj
    BY DEF TypeOK, Obj
  <2>2. ctx' \in [Thread -> Obj]
    BY <2>1 DEF AddEvent, TypeOK
  <2>3. argFd' \in [Thread -> Fd] /\ argEv' \in [Thread -> Event] /\ who' \in [Thread -> Waiter \cup {None}]
    BY <1>2 DEF AddEvent, TypeOK
  <2>4. UNCHANGED <<ctxVars, epollVars, fdVars, got, waitVars, aborted>>
    BY DEF AddEvent
  <2> QED BY <2>2, <2>3, <2>4 DEF TypeOK, ctxVars, epollVars, fdVars, waitVars
<1> QED BY <1>1, <1>3, <1>4, SameSlotsKeeps

\* contextResize replaces FdContexts and forgets none.
LEMMA ContextResizeSlots ==
    ASSUME SlotsInv, NEW t \in Thread, ContextResize(t) PROVE SlotsInv'
<1> USE DEF SlotsInv
<1> DEFINE n == NewSize(argFd[t])
<1>1. SameSlots
  BY DEF ContextResize, SameSlots, waitVars
<1>2. n \in Nat
  <2>1. PICK f \in Nat : f = argFd[t]
    BY FdAssumption DEF TypeOK
  <2>2. (f * 3) \div 2 \in Nat
    OBVIOUS
  <2> QED BY <2>1, <2>2 DEF NewSize
<1>3. size' \in Nat /\ gen' \in [Fd -> 0..MaxGen]
  <2>1. /\ \A d \in Fd : n <= d /\ d < size => gen[d] < MaxGen
        /\ size' = n
        /\ gen' = [d \in Fd |-> IF n <= d /\ d < size THEN gen[d] + 1 ELSE gen[d]]
    BY DEF ContextResize
  <2>2. \A d \in Fd : gen[d] \in 0..MaxGen /\ (gen[d] < MaxGen => gen[d] + 1 \in 0..MaxGen)
    BY GenAssumption DEF TypeOK
  <2> HIDE DEF n
  <2> QED BY <1>2, <2>1, <2>2
<1>4. ctx' \in [Thread -> Obj]
  <2>1. <<argFd[t], gen'[argFd[t]]>> \in Obj
    BY <1>3 DEF TypeOK, Obj
  <2> QED BY <2>1 DEF ContextResize, TypeOK
<1>5. TypeOK'
  BY <1>3, <1>4 DEF ContextResize, TypeOK, epollVars, fdVars, waitVars
<1>6. /\ who' = who /\ status' = status /\ pc[t] = "resize"
      /\ pc' = [pc EXCEPT ![t] = "add"]
  BY DEF ContextResize, Goto, At, waitVars
<1>7. NewInv' /\ PcOK'
  BY <1>6, NewKeeps DEF PcOK
<1> QED BY <1>1, <1>5, <1>7, SameSlotsKeeps

\* delEvent, cancelEvent and close() begin, or have nothing to clear.
LEMMA LookupSlots ==
    ASSUME SlotsInv, NEW t \in Thread,
           \/ NothingToClear(t)
           \/ \E f \in Fd : Close(t, f)
           \/ \E f \in Fd, e \in Event : Lookup(t, f, e, "del") \/ Lookup(t, f, e, "cancel")
    PROVE  SlotsInv'
<1> USE DEF SlotsInv
<1>0. \A f \in Fd : <<f, gen[f]>> \in Obj
  BY DEF TypeOK, Obj
<1>1. CASE NothingToClear(t)
  <2>1. SameSlots
    BY <1>1 DEF NothingToClear, SameSlots, ctxVars, waitVars
  <2>2. TypeOK' /\ PcOK'
    BY <1>1, ReturnFacts DEF NothingToClear, TypeOK, ctxVars, epollVars, fdVars, waitVars
  <2>3. NewInv'
    BY <1>1, ReturnFacts, NewKeeps DEF NothingToClear, waitVars
  <2> QED BY <2>1, <2>2, <2>3, SameSlotsKeeps
<1>2. ASSUME NEW f \in Fd, Close(t, f) PROVE SlotsInv'
  <2>1. SameSlots
    BY <1>2 DEF Close, SameSlots, ctxVars, waitVars
  <2>2. TypeOK' /\ PcOK'
    BY <1>0, <1>2 DEF Close, Goto, PcOK, TypeOK, ctxVars, epollVars, fdVars, waitVars
  <2>3. NewInv'
    BY <1>2, NewKeeps DEF Close, Goto, PcOK, waitVars
  <2> QED BY <2>1, <2>2, <2>3, SameSlotsKeeps
<1>3. ASSUME NEW f \in Fd, NEW e \in Event, Lookup(t, f, e, "del") \/ Lookup(t, f, e, "cancel")
      PROVE  SlotsInv'
  <2>1. SameSlots
    BY <1>3 DEF Lookup, SameSlots, ctxVars, waitVars
  <2>2. TypeOK' /\ PcOK'
    <3>0. /\ argFd' = [argFd EXCEPT ![t] = f] /\ argEv' = [argEv EXCEPT ![t] = e]
          /\ ctx' = [ctx EXCEPT ![t] = <<f, gen[f]>>]
      BY <1>3 DEF Lookup
    <3>1. /\ argFd' \in [Thread -> Fd] /\ argEv' \in [Thread -> Event]
          /\ ctx' \in [Thread -> Obj]
      BY <1>0, <3>0 DEF TypeOK
    <3>2. UNCHANGED <<ctxVars, epollVars, fdVars, who, got, waitVars, aborted>>
      BY <1>3 DEF Lookup
    <3>3. PcOK'
      BY <1>3 DEF Lookup, Goto, PcOK
    <3> QED BY <3>1, <3>2, <3>3 DEF TypeOK, ctxVars, epollVars, fdVars, waitVars
  <2>3. NewInv'
    BY <1>3, NewKeeps DEF Lookup, Goto, PcOK, waitVars
  <2> QED BY <2>1, <2>2, <2>3, SameSlotsKeeps
<1> QED BY <1>1, <1>2, <1>3

\* The kernel closes the descriptor; the FdContext is left as it is.
LEMMA CloseFdSlots ==
    ASSUME SlotsInv, NEW t \in Thread, CloseFd(t) PROVE SlotsInv'
<1> USE DEF SlotsInv
<1>1. SameSlots
  BY DEF CloseFd, SameSlots, ctxVars, waitVars
<1>2. TypeOK' /\ PcOK'
  BY AnyFacts, ReturnFacts DEF CloseFd, TypeOK, ctxVars, waitVars
<1>3. NewInv'
  BY ReturnFacts, NewKeeps DEF CloseFd, waitVars
<1> QED BY <1>1, <1>2, <1>3, SameSlotsKeeps

\* epoll_wait hands out objects and events of the kernel's table.
LEMMA EpollWaitSlots ==
    ASSUME SlotsInv, NEW t \in Thread, EpollWait(t) PROVE SlotsInv'
<1> USE DEF SlotsInv
<1>1. SameSlots
  BY DEF EpollWait, SameSlots, ctxVars, waitVars
<1>2. PICK F \in SUBSET Fd :
          /\ got' = [got EXCEPT ![t] = {[obj |-> dataPtr[f], evs |-> Reported(f)] : f \in F}]
          /\ fired' = [f \in Fd |-> fired[f] /\ f \notin F]
  BY DEF EpollWait
<1>3. got' \in [Thread -> SUBSET [obj : Obj, evs : SUBSET (Event \cup {"HUP"})]]
  <2>1. \A f \in Fd : dataPtr[f] \in Obj /\ Reported(f) \in SUBSET (Event \cup {"HUP"})
    BY DEF TypeOK, Reported
  <2> QED BY <1>2, <2>1 DEF TypeOK
<1>4. fired' \in [Fd -> BOOLEAN]
  BY <1>2
<1>5. TypeOK' /\ PcOK'
  BY <1>3, <1>4 DEF EpollWait, Goto, PcOK, TypeOK, ctxVars, fdVars, waitVars
<1>6. NewInv'
  BY NewKeeps DEF EpollWait, Goto, waitVars
<1> QED BY <1>1, <1>5, <1>6, SameSlotsKeeps

-----------------------------------------------------------------------------
(* The steps that register and clear keep SlotsInv.                        *)

\* addEvent registers a waiter in an empty slot and counts it.
LEMMA AddEventLockedSlots ==
    ASSUME SlotsInv, NEW t \in Thread, AddEventLocked(t) PROVE SlotsInv'
<1> USE DEF SlotsInv
<1>1. PICK f \in Fd, e \in Event, c \in Obj, n \in Waiter :
          f = argFd[t] /\ e = argEv[t] /\ c = ctx[t] /\ n = who[t]
  BY DEF AddEventLocked, At, TypeOK, NewInv
<1>2. /\ Return(t) /\ UNCHANGED <<size, gen, fdVars, got>> /\ n # None /\ status[n] = "new"
      /\ \A u \in Thread : u # t => who[u] # n
  BY <1>1, WaiterAssumption DEF AddEventLocked, NewInv
<1>3. CASE e \notin events[c] /\ CtlSetOK(f, events[c])
  <2>1. /\ Register(f, c, events[c] \cup {e})
        /\ m_pendingEventCount' = m_pendingEventCount + 1
        /\ events' = [events EXCEPT ![c] = events[c] \cup {e}]
        /\ slot' = [slot EXCEPT ![c][e] = n]
        /\ status' = [status EXCEPT ![n] = "registered"]
        /\ reg' = [reg EXCEPT ![n] = <<f, e, epoch[f]>>]
    BY <1>1, <1>3 DEF AddEventLocked
  <2>2. /\ events' \in [Obj -> SUBSET Event] /\ events'[c] = events[c] \cup {e}
        /\ \A d \in Obj : d # c => events'[d] = events[d]
    BY <2>1 DEF TypeOK
  <2>3. /\ slot' \in [Obj -> [Event -> Waiter \cup {None}]] /\ slot'[c][e] = n
        /\ \A d \in Obj, g \in Event : d # c \/ g # e => slot'[d][g] = slot[d][g]
    BY <2>1 DEF TypeOK
  <2>4. /\ status' \in [Waiter -> {"new", "registered", "scheduled", "deleted"}]
        /\ status'[n] = "registered" /\ \A m \in Waiter : m # n => status'[m] = status[m]
    BY <2>1 DEF TypeOK
  <2>5. n \notin Registered /\ Registered' = Registered \cup {n}
    BY <1>2, <2>4 DEF Registered
  <2>6. PendingExact' /\ m_pendingEventCount' \in Nat
    <3>1. IsFiniteSet(Registered)
      BY WaiterAssumption, FS_Subset DEF Registered
    <3>2. Cardinality(Registered \cup {n}) = Cardinality(Registered) + 1
      BY <2>5, <3>1, FS_AddElement
    <3> QED BY <2>1, <2>5, <3>2 DEF PendingExact, TypeOK
  <2>7. SlotMap'
    <3>1. \A d \in Obj, g \in Event : slot[d][g] # n
      BY <1>2, <2>5 DEF SlotMap
    <3>2. slot[c][e] = None
      BY <1>3 DEF SlotMap
    <3>3. \A d \in Obj, g \in Event : g \in events'[d] <=> slot'[d][g] # None
      BY <1>2, <2>2, <2>3 DEF SlotMap
    <3>4. \A d \in Obj, g \in Event : slot'[d][g] # None => slot'[d][g] \in Registered'
      BY <2>3, <2>5 DEF SlotMap
    <3>5. \A b, d \in Obj, g, h \in Event :
              slot'[b][g] = slot'[d][h] /\ slot'[b][g] # None => b = d /\ g = h
      BY <2>3, <3>1 DEF SlotMap
    <3>6. ASSUME NEW m \in Registered' PROVE \E d \in Obj, g \in Event : slot'[d][g] = m
      <4>1. CASE m = n
        BY <2>3, <4>1
      <4>2. CASE m # n
        <5>1. PICK d \in Obj, g \in Event : slot[d][g] = m
          BY <2>5, <3>6, <4>2 DEF SlotMap
        <5>2. m # None
          BY <3>6, WaiterAssumption DEF Registered
        <5> QED BY <2>3, <3>2, <5>1, <5>2
      <4> QED BY <4>1, <4>2
    <3> QED BY <3>3, <3>4, <3>5, <3>6 DEF SlotMap
  <2>8. TypeOK' /\ PcOK'
    <3>1. /\ interest' \in [Fd -> SUBSET Event] /\ dataPtr' \in [Fd -> Obj] /\ fired' \in [Fd -> BOOLEAN]
      <4>1. events[c] \cup {e} \in SUBSET Event
        BY DEF TypeOK
      <4> QED BY <2>1, <4>1, RegisterType
    <3>2. reg' \in [Waiter -> Fd \X Event \X (0..MaxEpoch)]
      <4>1. <<f, e, epoch[f]>> \in Fd \X Event \X (0..MaxEpoch)
        BY DEF TypeOK
      <4> QED BY <2>1, <4>1 DEF TypeOK
    <3> QED BY <1>2, <2>2, <2>3, <2>4, <2>6, <3>1, <3>2, ReturnFacts DEF TypeOK, fdVars
  <2>9. NewInv'
    <3>1. \A u \in Thread : who[u] # None => who[u] \in Waiter
      BY DEF TypeOK
    <3> QED BY <1>2, <2>4, <3>1, ReturnFacts DEF NewInv
  <2> QED BY <2>6, <2>7, <2>8, <2>9
<1>4. CASE ~(e \notin events[c] /\ CtlSetOK(f, events[c]))
  <2>1. UNCHANGED <<events, slot, m_pendingEventCount, epollVars, waitVars>>
    BY <1>1, <1>4 DEF AddEventLocked
  <2>2. SameSlots
    BY <2>1 DEF SameSlots, waitVars
  <2>3. TypeOK' /\ PcOK'
    BY <1>2, <2>1, ReturnFacts DEF TypeOK, fdVars, epollVars, waitVars
  <2>4. NewInv'
    BY <1>2, <2>1, ReturnFacts, NewKeeps DEF waitVars
  <2> QED BY <2>2, <2>3, <2>4, SameSlotsKeeps
<1> QED BY <1>3, <1>4

\* A step that clears registrations, inside a call that goes on or returns.
LEMMA ClearStep ==
    ASSUME SlotsInv, NEW t \in Thread, NEW f \in Fd, NEW c \in Obj, NEW new \in SUBSET Event,
           NEW ok \in SUBSET Event, ok \subseteq events[c], NEW x \in {"scheduled", "deleted"},
           Clears(c, ok, x), Register(f, c, new), UNCHANGED <<size, gen, fdVars, reg>>,
           got' \in [Thread -> SUBSET [obj : Obj, evs : SUBSET (Event \cup {"HUP"})]],
           \/ Return(t)
           \/ /\ UNCHANGED <<argFd, argEv, ctx, who>> /\ PcOK'
              /\ \A u \in Thread : pc'[u] \in {"free", "close"} \/ pc'[u] = pc[u]
    PROVE  SlotsInv'
<1> USE DEF SlotsInv
<1>1. /\ events' \in [Obj -> SUBSET Event] /\ slot' \in [Obj -> [Event -> Waiter \cup {None}]]
      /\ status' \in [Waiter -> {"new", "registered", "scheduled", "deleted"}]
      /\ m_pendingEventCount' \in Nat /\ PendingExact' /\ SlotMap'
      /\ \A n \in Waiter : status[n] = "new" => status'[n] = "new"
  BY ClearsKeeps
<1>2. /\ interest' \in [Fd -> SUBSET Event] /\ dataPtr' \in [Fd -> Obj] /\ fired' \in [Fd -> BOOLEAN]
  BY RegisterType
<1>3. /\ argFd' \in [Thread -> Fd] /\ argEv' \in [Thread -> Event]
      /\ ctx' \in [Thread -> Obj] /\ who' \in [Thread -> Waiter \cup {None}] /\ PcOK'
  BY ReturnFacts DEF TypeOK
<1>4. TypeOK'
  BY <1>1, <1>2, <1>3 DEF TypeOK, fdVars
<1>5. NewInv'
  <2>1. \A u \in Thread : who'[u] # None => who'[u] = who[u]
    BY ReturnFacts
  <2>2. \A u \in Thread : pc'[u] \in {"resize", "add"} =>
            pc[u] \in {"resize", "add"} /\ who'[u] = who[u]
    BY ReturnFacts
  <2> QED BY <1>1, <2>1, <2>2, NewKeeps
<1> QED BY <1>1, <1>3, <1>4, <1>5

\* What delEvent clears.
LEMMA DelEventClears ==
    ASSUME SlotsInv, NEW t \in Thread, DelEvent(t), NEW c \in Obj, c = ctx[t],
           NEW e \in Event, e = argEv[t]
    PROVE  /\ Clears(c, {e}, "deleted") /\ e \in events[c]
           /\ Register(argFd[t], c, events[c] \ {e}) /\ CtlClearOK(argFd[t])
           /\ Return(t) /\ UNCHANGED <<size, gen, fdVars, got, reg, aborted>>
<1> USE DEF SlotsInv
<1>1. /\ At(t, "del") /\ e \in events[c] /\ CtlClearOK(argFd[t])
      /\ Register(argFd[t], c, events[c] \ {e})
      /\ m_pendingEventCount' = m_pendingEventCount - 1
      /\ events' = [events EXCEPT ![c] = @ \ {e}]
      /\ status' = [status EXCEPT ![slot[c][e]] = "deleted"]
      /\ slot' = [slot EXCEPT ![c][e] = None]
      /\ Return(t) /\ UNCHANGED <<size, gen, fdVars, got, reg, aborted>>
  BY DEF DelEvent
<1>2. Cardinality({e}) = 1
  BY FS_Singleton
<1>3. slot' = [slot EXCEPT ![c] = [g \in Event |-> IF g \in {e} THEN None ELSE @[g]]]
  BY <1>1 DEF TypeOK
<1>4. status' = [n \in Waiter |-> IF \E g \in {e} : slot[c][g] = n THEN "deleted" ELSE status[n]]
  BY <1>1 DEF TypeOK
<1> QED BY <1>1, <1>2, <1>3, <1>4 DEF Clears

\* delEvent forgets a waiter and counts it off.
LEMMA DelEventSlots ==
    ASSUME SlotsInv, NEW t \in Thread, DelEvent(t) PROVE SlotsInv'
<1> USE DEF SlotsInv
<1>1. PICK c \in Obj, e \in Event, f \in Fd : c = ctx[t] /\ e = argEv[t] /\ f = argFd[t]
  BY DEF TypeOK
<1>2. /\ Clears(c, {e}, "deleted") /\ e \in events[c] /\ Register(f, c, events[c] \ {e})
      /\ Return(t) /\ UNCHANGED <<size, gen, fdVars, got, reg>>
  BY <1>1, DelEventClears
<1>3. /\ events[c] \ {e} \in SUBSET Event /\ {e} \in SUBSET Event /\ {e} \subseteq events[c]
      /\ got' \in [Thread -> SUBSET [obj : Obj, evs : SUBSET (Event \cup {"HUP"})]]
  BY <1>2 DEF TypeOK
<1> QED BY <1>2, <1>3, ClearStep

\* cancelEvent schedules a waiter and counts it off.
LEMMA CancelEventSlots ==
    ASSUME SlotsInv, NEW t \in Thread, CancelEvent(t) PROVE SlotsInv'
<1> USE DEF SlotsInv
<1>1. PICK c \in Obj, e \in Event, f \in Fd : c = ctx[t] /\ e = argEv[t] /\ f = argFd[t]
  BY DEF TypeOK
<1>2. /\ TriggerEvents(c, {e}) /\ e \in events[c] /\ Register(f, c, events[c] \ {e})
      /\ Return(t) /\ UNCHANGED <<size, gen, fdVars, got, reg>>
  BY <1>1 DEF CancelEvent
<1>3. /\ events[c] \ {e} \in SUBSET Event /\ {e} \in SUBSET Event
      /\ {e} \cap events[c] \in SUBSET Event /\ {e} \cap events[c] \subseteq events[c]
      /\ got' \in [Thread -> SUBSET [obj : Obj, evs : SUBSET (Event \cup {"HUP"})]]
  BY <1>2 DEF TypeOK
<1>4. Clears(c, {e} \cap events[c], "scheduled")
  BY <1>2, <1>3, TriggerClears
<1> QED BY <1>2, <1>3, <1>4, ClearStep

\* cancelAll schedules every waiter of the descriptor.
LEMMA CancelAllSlots ==
    ASSUME SlotsInv, NEW t \in Thread, CancelAll(t) PROVE SlotsInv'
<1> USE DEF SlotsInv
<1>1. PICK c \in Obj, f \in Fd : c = ctx[t] /\ f = argFd[t]
  BY DEF TypeOK
<1>2. /\ pc' = [pc EXCEPT ![t] = "close"]
      /\ UNCHANGED <<size, gen, fdVars, argFd, argEv, ctx, who, got, reg>>
  BY DEF CancelAll, Goto
<1>3. PcOK' /\ \A u \in Thread : pc'[u] \in {"free", "close"} \/ pc'[u] = pc[u]
  BY <1>2 DEF PcOK
<1>4. CASE events[c] # {} /\ CtlClearOK(f)
  <2>1. Register(f, c, {}) /\ TriggerEvents(c, events[c])
    BY <1>1, <1>4 DEF CancelAll
  <2>2. /\ {} \in SUBSET Event /\ events[c] \in SUBSET Event
        /\ events[c] \cap events[c] \in SUBSET Event /\ events[c] \cap events[c] \subseteq events[c]
        /\ got' \in [Thread -> SUBSET [obj : Obj, evs : SUBSET (Event \cup {"HUP"})]]
    BY <1>2 DEF TypeOK
  <2>3. PICK E \in SUBSET Event : E = events[c]
    BY <2>2
  <2>4. Clears(c, E \cap events[c], "scheduled")
    BY <2>1, <2>3, TriggerClears
  <2>5. PICK ok \in SUBSET Event : ok = E \cap events[c]
    BY <2>2, <2>3
  <2> QED BY <1>2, <1>3, <2>1, <2>2, <2>4, <2>5, ClearStep
<1>5. CASE ~(events[c] # {} /\ CtlClearOK(f))
  <2>1. UNCHANGED <<epollVars, events, slot, m_pendingEventCount, status, aborted>>
    BY <1>1, <1>5 DEF CancelAll
  <2>2. SameSlots
    BY <2>1 DEF SameSlots
  <2>3. TypeOK'
    BY <1>2, <2>1 DEF TypeOK, fdVars, epollVars
  <2>4. NewInv'
    BY <1>2, <1>3, <2>1, NewKeeps
  <2> QED BY <1>3, <2>2, <2>3, <2>4, SameSlotsKeeps
<1> QED BY <1>4, <1>5

\* The dispatch loop schedules the waiters of the reported events that are
\* still registered.
LEMMA DispatchSlots ==
    ASSUME SlotsInv, NEW t \in Thread, Dispatch(t) PROVE SlotsInv'
<1> USE DEF SlotsInv
<1>1. PICK ev \in got[t] :
          /\ IF events[ev.obj] \cap RealEvents(ev) # {} /\ CtlClearOK(ev.obj[1])
             THEN /\ Register(ev.obj[1], ev.obj, events[ev.obj] \ RealEvents(ev))
                  /\ TriggerEvents(ev.obj, RealEvents(ev))
             ELSE UNCHANGED <<epollVars, events, slot, m_pendingEventCount, status, aborted>>
          /\ got' = [got EXCEPT ![t] = @ \ {ev}]
          /\ IF got[t] = {ev} THEN Goto(t, "free") ELSE UNCHANGED pc
  BY DEF Dispatch
<1>2. UNCHANGED <<size, gen, fdVars, argFd, argEv, ctx, who, reg>>
  BY DEF Dispatch
<1>3. ev \in [obj : Obj, evs : SUBSET (Event \cup {"HUP"})]
  BY DEF TypeOK
<1>4. PICK c \in Obj, f \in Fd : c = ev.obj /\ f = c[1]
  BY <1>3 DEF Obj
<1>5. PICK E \in SUBSET Event : E = RealEvents(ev)
  BY <1>3 DEF TypeOK, RealEvents
<1>6. got' \in [Thread -> SUBSET [obj : Obj, evs : SUBSET (Event \cup {"HUP"})]]
  BY <1>1 DEF TypeOK
<1>7. PcOK' /\ \A u \in Thread : pc'[u] \in {"free", "close"} \/ pc'[u] = pc[u]
  BY <1>1 DEF PcOK, Goto
<1>8. CASE events[c] \cap E # {} /\ CtlClearOK(f)
  <2>1. Register(f, c, events[c] \ E) /\ TriggerEvents(c, E)
    BY <1>1, <1>4, <1>5, <1>8
  <2>2. Clears(c, E \cap events[c], "scheduled")
    BY <2>1, TriggerClears
  <2>3. PICK ok \in SUBSET Event : ok = E \cap events[c]
    BY DEF TypeOK
  <2>4. PICK new \in SUBSET Event : new = events[c] \ E
    BY DEF TypeOK
  <2> QED BY <1>2, <1>6, <1>7, <2>1, <2>2, <2>3, <2>4, ClearStep
<1>9. CASE ~(events[c] \cap E # {} /\ CtlClearOK(f))
  <2>1. UNCHANGED <<epollVars, events, slot, m_pendingEventCount, status, aborted>>
    BY <1>1, <1>4, <1>5, <1>9
  <2>2. SameSlots
    BY <2>1 DEF SameSlots
  <2>3. TypeOK'
    BY <1>2, <1>6, <2>1 DEF TypeOK, fdVars, epollVars
  <2>4. NewInv'
    BY <1>2, <1>7, <2>1, NewKeeps
  <2> QED BY <1>7, <2>2, <2>3, <2>4, SameSlotsKeeps
<1> QED BY <1>8, <1>9

-----------------------------------------------------------------------------
(* What holds however threads interleave.                                  *)

\* Nobody is registered when the IOManager is made.
LEMMA InitSlots == ASSUME Init PROVE SlotsInv
<1>1. TypeOK
  BY AnyFacts, FdAssumption, GenAssumption DEF Init, TypeOK
<1>2. Registered = {}
  BY DEF Init, Registered
<1>3. PendingExact
  BY <1>2, FS_EmptySet DEF Init, PendingExact
<1>4. SlotMap
  BY <1>2 DEF Init, SlotMap
<1>5. NewInv /\ PcOK
  BY DEF Init, NewInv, PcOK
<1> QED BY <1>1, <1>3, <1>4, <1>5 DEF SlotsInv

\* Every step keeps the slots and the count exact.
LEMMA NextSlots == ASSUME SlotsInv, [Next]_vars PROVE SlotsInv'
<1>1. ASSUME NEW t \in Thread, ThreadStep(t) PROVE SlotsInv'
  <2>1. CASE \E f \in Closable : Close(t, f)
    BY <2>1, FdAssumption, LookupSlots
  <2>2. CASE \E f \in Fd, e \in Event : \/ Lookup(t, f, e, "del") \/ Lookup(t, f, e, "cancel")
                                        \/ \E n \in Waiter : AddEvent(t, f, e, n)
    BY <2>2, LookupSlots, AddEventSlots
  <2> QED BY <1>1, <2>1, <2>2, ContextResizeSlots, AddEventLockedSlots, LookupSlots, DelEventSlots,
             CancelEventSlots, CancelAllSlots, CloseFdSlots, EpollWaitSlots, DispatchSlots
          DEF ThreadStep
<1>2. CASE UNCHANGED vars
  <2>1. SameSlots /\ UNCHANGED callVars /\ UNCHANGED waitVars
    BY <1>2 DEF vars, ctxVars, waitVars, SameSlots
  <2>2. TypeOK'
    BY <1>2 DEF SlotsInv, TypeOK, vars, ctxVars, epollVars, fdVars, callVars, waitVars
  <2> QED BY <2>1, <2>2, SameSlotsKeeps DEF SlotsInv, NewInv, PcOK, callVars, waitVars
<1> QED BY <1>1, <1>2, EnvironmentSlots DEF Next

\* The slots are exact in every reachable state, whoever closes descriptors and
\* however the vector of FdContexts is resized meanwhile.
THEOREM SlotsInvHolds == Spec => []SlotsInv
<1>1. Init => SlotsInv
  BY InitSlots
<1>2. SlotsInv /\ [Next]_vars => SlotsInv'
  BY NextSlots
<1> QED BY <1>1, <1>2, PTL DEF Spec

\* The one-to-one map is what WaiterInOneSlot says of a waiter.
LEMMA SlotMapImplies == ASSUME SlotMap PROVE WaiterInOneSlot
<1>1. ASSUME NEW n \in Registered
      PROVE  \E c \in Obj, e \in Event :
                 slot[c][e] = n /\ \A d \in Obj, g \in Event : slot[d][g] = n => d = c /\ g = e
  <2>1. PICK c \in Obj, e \in Event : slot[c][e] = n
    BY DEF SlotMap
  <2>2. n # None
    BY WaiterAssumption DEF Registered
  <2> QED BY <2>1, <2>2 DEF SlotMap
<1> QED BY <1>1 DEF SlotMap, WaiterInOneSlot

\* m_pendingEventCount is exact, nobody is lost and nobody is scheduled twice,
\* also where the descriptor of a waiter is closed under it or its FdContext is
\* replaced.
THEOREM SlotsExactHolds == Spec => [](TypeOK /\ PendingExact /\ WaiterInOneSlot)
<1>1. SlotsInv => TypeOK /\ PendingExact /\ WaiterInOneSlot
  BY SlotMapImplies DEF SlotsInv
<1> QED BY <1>1, SlotsInvHolds, PTL

-----------------------------------------------------------------------------
(* epoll and the FdContexts stay together where nothing is closed and the  *)
(* vector is large enough, or where there is one thread.                   *)

\* The first FdContext of a descriptor.
LEMMA FirstFacts ==
    /\ \A f \in Fd : First(f) \in Obj /\ First(f)[1] = f /\ First(f)[2] = 0
    /\ \A f, g \in Fd : First(f) = First(g) => f = g
    /\ \A c \in Obj : c[1] \in Fd /\ (c[2] = 0 => c = First(c[1]))
BY GenAssumption DEF First, Obj

\* What epoll_ctl changes.
LEMMA RegisterFacts ==
    ASSUME TypeOK, NEW f \in Fd, NEW c \in Obj, NEW new \in SUBSET Event, Register(f, c, new)
    PROVE  /\ interest'[f] = new /\ (new # {} => dataPtr'[f] = c)
           /\ fired'[f] <=> new # {} /\ ready[f] \cap (new \cup {"HUP"}) # {}
           /\ \A g \in Fd : g # f => /\ interest'[g] = interest[g] /\ dataPtr'[g] = dataPtr[g]
                                     /\ fired'[g] = fired[g]
BY DEF Register, TypeOK

\* The registrations are what they were, also in epoll.
SameTable == UNCHANGED <<events, slot, gen, interest, dataPtr, epoch, open, reg>>

\* What the steps of a call that registers and clears nothing leave alone.
LEMMA SameTableSync ==
    ASSUME SyncInv, SlotsInv, SameTable, size' \in Nat, size' >= size,
           \A f \in Fd : fired'[f] => interest[f] # {}
    PROVE  VectorInv' /\ EpollInv' /\ RegInv'
<1>1. size \in Nat /\ InitialSize \in Nat /\ \A f \in Fd : f \in Nat
  BY FdAssumption DEF SlotsInv, TypeOK
<1>2. VectorInv'
  BY <1>1 DEF SyncInv, VectorInv, SameTable
<1>3. EpollInv'
  BY <1>1 DEF SyncInv, EpollInv, SameTable
<1>4. RegInv'
  BY DEF SyncInv, RegInv, SameTable
<1> QED BY <1>2, <1>3, <1>4

\* An edge stays where it is.
LEMMA SameEdge ==
    ASSUME SyncInv, UNCHANGED <<interest, ready, fired>>,
           \A t \in Thread : got[t] \subseteq got'[t]
    PROVE  EdgeInv'
BY DEF SyncInv, EdgeInv

\* epoll_ctl polls the socket again, so that an edge of this descriptor is on the
\* ready list afterwards.
LEMMA RegisterEdge ==
    ASSUME SyncInv, TypeOK, NEW f \in Fd, NEW new \in SUBSET Event, Register(f, First(f), new),
           ready' = ready,
           \A t \in Thread : \A ev \in got[t] : ev.obj # First(f) => ev \in got'[t]
    PROVE  EdgeInv'
<1>1. ASSUME NEW g \in Fd, NEW e \in interest'[g], ready[g] \cap {e, "HUP"} # {}
      PROVE  \/ fired'[g]
             \/ \E t \in Thread : \E ev \in got'[t] : ev.obj = First(g) /\ ev.evs \cap {e, "HUP"} # {}
  <2>1. CASE g = f
    BY <1>1, <2>1, FirstFacts, RegisterFacts
  <2>2. CASE g # f
    <3>1. e \in interest[g] /\ fired'[g] = fired[g] /\ First(g) # First(f)
      BY <1>1, <2>2, FirstFacts, RegisterFacts
    <3>2. CASE fired[g]
      BY <3>1, <3>2
    <3>3. CASE ~fired[g]
      <4>1. PICK t \in Thread : \E ev \in got[t] : ev.obj = First(g) /\ ev.evs \cap {e, "HUP"} # {}
        BY <1>1, <3>1, <3>3 DEF SyncInv, EdgeInv
      <4> QED BY <3>1, <4>1
    <3> QED BY <3>2, <3>3
  <2> QED BY <2>1, <2>2
<1> QED BY <1>1 DEF EdgeInv

\* The other threads' calls, when one thread takes a step that registers nothing.
LEMMA OthersKeep ==
    ASSUME CallInv, TypeOK, NEW t \in Thread, size' = size,
           \A c \in Obj : events'[c] \subseteq events[c],
           \A u \in Thread : u # t => /\ pc'[u] = pc[u] /\ argFd'[u] = argFd[u] /\ ctx'[u] = ctx[u]
                                      /\ argEv'[u] = argEv[u] /\ got'[u] = got[u],
           CallOK(t)', pc'[t] \notin {"resize", "add"}
    PROVE  CallInv'
<1>1. ASSUME NEW u \in Thread, u # t PROVE CallOK(u)'
  <2>1. /\ pc'[u] = pc[u] /\ argFd'[u] = argFd[u] /\ ctx'[u] = ctx[u]
        /\ argEv'[u] = argEv[u] /\ got'[u] = got[u]
        /\ events'[First(argFd[u])] \subseteq events[First(argFd[u])]
    BY <1>1, FirstFacts DEF TypeOK
  <2>2. CallOK(u)
    BY DEF CallInv
  <2> QED BY <2>1, <2>2 DEF CallOK
<1>2. OneAdder'
  BY DEF CallInv, OneAdder
<1> QED BY <1>1, <1>2 DEF CallInv

\* A thread whose call has returned.
LEMMA FreeCall ==
    ASSUME NEW t \in Thread, pc'[t] = "free", got'[t] = {} PROVE CallOK(t)'
BY DEF CallOK

\* Sockets become ready, are drained and are opened again.
LEMMA EnvironmentSync ==
    ASSUME SlotsInv, SyncInv, Environment PROVE SyncInv'
<1>1. PICK f \in Fd : \/ Reopen(f) \/ \E e \in Event \cup {"HUP"} : BecomesReady(f, e)
                      \/ \E e \in Event : Drained(f, e)
  BY DEF Environment
<1>2. UNCHANGED <<ctxVars, interest, dataPtr, callVars, got, reg>>
  BY <1>1 DEF Reopen, BecomesReady, Drained, epollVars, waitVars
<1>3. CallInv'
  BY <1>2 DEF SyncInv, CallInv, CallOK, OneAdder, callVars, ctxVars
<1>4. CASE Reopen(f)
  <2>1. /\ ~open[f] /\ open' = [open EXCEPT ![f] = TRUE] /\ UNCHANGED <<fired, ready>>
        /\ \A g \in Fd : g # f => epoch'[g] = epoch[g]
    BY <1>4 DEF Reopen, epollVars
  <2>2. VectorInv' /\ EpollInv'
    BY <1>2, <2>1 DEF SyncInv, VectorInv, EpollInv, ctxVars
  <2>3. RegInv'
    <3>1. ASSUME NEW c \in Obj, NEW e \in Event, slot[c][e] # None PROVE c[1] \in Fd /\ c[1] # f
      <4>1. e \in events[c]
        BY <3>1 DEF SlotsInv, SlotMap
      <4>2. c[1] \in Fd /\ c = First(c[1])
        BY <4>1, FirstFacts DEF SyncInv, VectorInv
      <4> QED BY <2>1, <4>1, <4>2 DEF SyncInv, EpollInv
    <3> QED BY <1>2, <2>1, <3>1 DEF SyncInv, RegInv, ctxVars
  <2>4. EdgeInv'
    BY <1>2, <2>1, SameEdge
  <2> QED BY <1>3, <2>2, <2>3, <2>4 DEF SyncInv
<1>5. CASE \/ \E e \in Event \cup {"HUP"} : BecomesReady(f, e)
           \/ \E e \in Event : Drained(f, e)
  <2>1. /\ SameTable /\ size' = size
        /\ \A g \in Fd : fired'[g] => fired[g] \/ interest[g] # {}
    BY <1>2, <1>5 DEF BecomesReady, Drained, SameTable, epollVars, ctxVars, SlotsInv, TypeOK
  <2>2. VectorInv' /\ EpollInv' /\ RegInv'
    <3>1. size' \in Nat /\ size' >= size
      BY <2>1 DEF SlotsInv, TypeOK
    <3>2. \A g \in Fd : fired'[g] => interest[g] # {}
      BY <2>1 DEF SyncInv, EpollInv
    <3> QED BY <2>1, <3>1, <3>2, SameTableSync
  <2>3. EdgeInv'
    <3>1. CASE \E e \in Event : Drained(f, e)
      <4>1. /\ UNCHANGED <<interest, fired, got>>
            /\ \A g \in Fd : ready'[g] \subseteq ready[g]
        BY <3>1 DEF Drained, epollVars
      <4> QED BY <4>1 DEF SyncInv, EdgeInv
    <3>2. ASSUME NEW e \in Event \cup {"HUP"}, BecomesReady(f, e) PROVE EdgeInv'
      <4>1. /\ UNCHANGED <<interest, got>> /\ ready'[f] = ready[f] \cup {e}
            /\ fired'[f] = (fired[f] \/ (interest[f] # {} /\ e \in interest[f] \cup {"HUP"}))
            /\ \A g \in Fd : g # f => ready'[g] = ready[g] /\ fired'[g] = fired[g]
        BY <3>2 DEF BecomesReady, SlotsInv, TypeOK
      <4>2. ASSUME NEW g \in interest[f], ready'[f] \cap {g, "HUP"} # {}
            PROVE  ready[f] \cap {g, "HUP"} # {} \/ fired'[f]
        BY <4>1, <4>2
      <4>3. fired[f] => fired'[f]
        BY <4>1
      <4> QED BY <4>1, <4>2, <4>3 DEF SyncInv, EdgeInv
    <3> QED BY <1>5, <3>1, <3>2
  <2> QED BY <1>3, <2>2, <2>3 DEF SyncInv
<1> QED BY <1>1, <1>4, <1>5

\* A descriptor's FdContext as the locked lookup finds it.
LEMMA LookedUp ==
    ASSUME SyncInv, NEW f \in Fd PROVE <<f, gen[f]>> = First(f)
BY DEF SyncInv, VectorInv, First

\* A step that only works on the locals of a call.
LocalStep ==
    UNCHANGED <<ctxVars, epollVars, fdVars, got, waitVars, aborted>>

\* What such a step leaves alone.
LEMMA LocalSync ==
    ASSUME SlotsInv, SyncInv, LocalStep
    PROVE  VectorInv' /\ EpollInv' /\ RegInv' /\ EdgeInv' /\ size' = size /\ events' = events /\ got' = got
<1>1. /\ SameTable /\ size' = size /\ events' = events /\ got' = got
      /\ UNCHANGED <<interest, ready, fired>>
  BY DEF LocalStep, SameTable, ctxVars, epollVars, fdVars, waitVars
<1>2. size' \in Nat /\ size' >= size
  BY <1>1 DEF SlotsInv, TypeOK
<1>3. \A g \in Fd : fired'[g] => interest[g] # {}
  BY <1>1 DEF SyncInv, EpollInv
<1>4. EdgeInv'
  BY <1>1, SameEdge
<1> QED BY <1>1, <1>2, <1>3, <1>4, SameTableSync

\* addEvent begins for an event that nobody waits for.
LEMMA AddEventSync ==
    ASSUME Fixed \/ Alone, SlotsInv, SyncInv, NEW t \in Thread, NEW f \in Fd, NEW e \in Event,
           NEW n \in Waiter, AddEvent(t, f, e, n)
    PROVE  SyncInv'
<1>1. LocalStep
  BY DEF AddEvent, LocalStep
<1>2. /\ VectorInv' /\ EpollInv' /\ RegInv' /\ EdgeInv'
      /\ size' = size /\ events' = events /\ got' = got
  BY <1>1, LocalSync
<1>3. e \notin events[First(f)]
  <2>1. SUFFICES ASSUME e \in events[First(f)] PROVE FALSE
    OBVIOUS
  <2>2. First(f) \in Obj /\ First(f)[1] = f
    BY FirstFacts
  <2>3. slot[First(f)][e] # None /\ slot[First(f)][e] \in Registered
    BY <2>1, <2>2 DEF SlotsInv, SlotMap
  <2>4. reg[slot[First(f)][e]] = <<f, e, epoch[f]>>
    BY <2>2, <2>3 DEF SyncInv, RegInv
  <2> QED BY <2>3, <2>4 DEF AddEvent, Taken, Registered
<1>4. /\ pc[t] = "free"
      /\ pc'[t] = (IF size > f THEN "add" ELSE "resize")
      /\ argFd'[t] = f /\ argEv'[t] = e /\ (size > f => ctx'[t] = First(f))
      /\ \A u \in Thread : u # t => /\ pc'[u] = pc[u] /\ argFd'[u] = argFd[u] /\ ctx'[u] = ctx[u]
                                    /\ argEv'[u] = argEv[u]
  BY LookedUp DEF AddEvent, At, Goto, SlotsInv, TypeOK, PcOK
<1>5. size <= f => Alone
  BY FdAssumption DEF Fixed, SyncInv, VectorInv, SlotsInv, TypeOK
<1>6. CallOK(t)'
  <2>1. size \in Nat /\ f \in Nat /\ got[t] = {}
    BY <1>4, FdAssumption DEF SlotsInv, TypeOK, SyncInv, CallInv, CallOK
  <2> QED BY <1>2, <1>3, <1>4, <1>5, <2>1 DEF CallOK
<1>7. \A u \in Thread : u # t => CallOK(u)'
  BY <1>2, <1>4 DEF SyncInv, CallInv, CallOK
<1>8. OneAdder'
  <2>1. \A u \in Thread : pc[u] \in {"resize", "add"} => ~(argFd[u] = f /\ argEv[u] = e)
    BY DEF AddEvent, Taken
  <2> QED BY <1>4, <2>1 DEF SyncInv, CallInv, OneAdder
<1> QED BY <1>2, <1>6, <1>7, <1>8 DEF SyncInv, CallInv

\* contextResize lets the vector grow.
LEMMA ContextResizeSync ==
    ASSUME SlotsInv, SlotsInv', SyncInv, NEW t \in Thread, ContextResize(t)
    PROVE  SyncInv'
<1>1. PICK f \in Fd : f = argFd[t]
  BY DEF SlotsInv, TypeOK
<1>2. pc[t] = "resize" /\ Alone /\ size <= f /\ argEv[t] \notin events[First(f)] /\ got[t] = {}
  BY <1>1 DEF ContextResize, At, SyncInv, CallInv, CallOK
<1>3. size \in Nat /\ size >= 2 /\ f \in Nat
  BY <1>2, FdAssumption DEF Alone, SyncInv, VectorInv, SlotsInv, TypeOK
<1>4. NewSize(f) \in Nat /\ NewSize(f) > f
  <2>1. (f * 3) \div 2 \in Nat /\ (f * 3) \div 2 > f
    BY <1>2, <1>3
  <2> QED BY <2>1 DEF NewSize
<1>5. /\ size' = NewSize(f)
      /\ gen' = [d \in Fd |-> IF NewSize(f) <= d /\ d < size THEN gen[d] + 1 ELSE gen[d]]
      /\ ctx' = [ctx EXCEPT ![t] = <<f, gen'[f]>>]
      /\ pc' = [pc EXCEPT ![t] = "add"]
      /\ UNCHANGED <<events, slot, m_pendingEventCount, epollVars, fdVars, argFd, argEv, who, got, waitVars>>
  BY <1>1 DEF ContextResize, Goto
<1>6. gen' = gen
  <2>1. \A d \in Fd : ~(NewSize(f) <= d /\ d < size)
    <3>1. PICK m \in Nat : m = NewSize(f) /\ m > f
      BY <1>4
    <3>2. \A d \in Nat : ~(m <= d /\ d < size)
      BY <1>2, <1>3, <3>1
    <3> QED BY <3>1, <3>2, FdAssumption
  <2> QED BY <1>5, <2>1 DEF SlotsInv, TypeOK
<1>7. VectorInv' /\ EpollInv' /\ RegInv'
  <2>1. SameTable
    BY <1>5, <1>6 DEF SameTable, epollVars, fdVars, waitVars
  <2>2. size' \in Nat /\ size' >= size
    BY <1>2, <1>3, <1>4, <1>5
  <2>3. \A g \in Fd : fired'[g] => interest[g] # {}
    BY <1>5 DEF epollVars, SyncInv, EpollInv
  <2> QED BY <2>1, <2>2, <2>3, SameTableSync
<1>8. EdgeInv'
  BY <1>5, SameEdge DEF epollVars, fdVars
<1>9. CallInv'
  <2>1. \A u \in Thread : u = t
    BY <1>2 DEF Alone
  <2>2. ctx'[t] = First(f) /\ pc'[t] = "add"
    BY <1>5, <1>6, LookedUp DEF SlotsInv, TypeOK, PcOK
  <2>3. CallOK(t)'
    <3>1. argFd'[t] = f /\ f < size' /\ argEv'[t] \notin events'[First(f)] /\ got'[t] = {}
      BY <1>1, <1>2, <1>3, <1>4, <1>5
    <3> QED BY <2>2, <3>1 DEF CallOK
  <2> QED BY <2>1, <2>3 DEF CallInv, OneAdder
<1> QED BY <1>7, <1>8, <1>9 DEF SyncInv

\* addEvent registers in epoll what it registers in the FdContext.
LEMMA AddEventLockedSync ==
    ASSUME SlotsInv, SlotsInv', SyncInv, NEW t \in Thread, AddEventLocked(t)
    PROVE  SyncInv' /\ aborted' = aborted
<1>1. PICK f \in Fd, e \in Event, n \in Waiter :
          f = argFd[t] /\ e = argEv[t] /\ First(f) = ctx[t] /\ n = who[t]
  BY DEF AddEventLocked, At, SlotsInv, TypeOK, NewInv, SyncInv, CallInv, CallOK
<1>2. /\ e \notin events[First(f)] /\ f < size /\ got[t] = {} /\ pc[t] = "add"
      /\ First(f) \in Obj /\ First(f)[1] = f /\ First(f)[2] = 0
  BY <1>1, FirstFacts DEF AddEventLocked, At, SyncInv, CallInv, CallOK
<1>3. aborted' = aborted /\ Return(t) /\ UNCHANGED <<size, gen, fdVars, got>>
  BY <1>1, <1>2 DEF AddEventLocked
<1>4. /\ pc'[t] = "free"
      /\ \A u \in Thread : u # t => /\ pc'[u] = pc[u] /\ argFd'[u] = argFd[u] /\ ctx'[u] = ctx[u]
                                    /\ argEv'[u] = argEv[u] /\ got'[u] = got[u]
  BY <1>3, ReturnFacts DEF SlotsInv
<1>5. CASE open[f]
  <2>1. CtlSetOK(f, events[First(f)])
    BY <1>5 DEF CtlSetOK, SyncInv, EpollInv
  <2>2. /\ Register(f, First(f), events[First(f)] \cup {e})
        /\ events' = [events EXCEPT ![First(f)] = events[First(f)] \cup {e}]
        /\ slot' = [slot EXCEPT ![First(f)][e] = n]
        /\ status' = [status EXCEPT ![n] = "registered"]
        /\ reg' = [reg EXCEPT ![n] = <<f, e, epoch[f]>>]
    BY <1>1, <1>2, <2>1 DEF AddEventLocked
  <2>3. PICK new \in SUBSET Event : new = events[First(f)] \cup {e}
    BY <1>2 DEF SlotsInv, TypeOK
  <2>4. /\ events'[First(f)] = new /\ \A d \in Obj : d # First(f) => events'[d] = events[d]
    BY <1>2, <2>2, <2>3 DEF SlotsInv, TypeOK
  <2>5. /\ interest'[f] = new /\ dataPtr'[f] = First(f)
        /\ \A g \in Fd : g # f => /\ interest'[g] = interest[g] /\ dataPtr'[g] = dataPtr[g]
                                  /\ fired'[g] = fired[g]
    BY <1>2, <2>2, <2>3, RegisterFacts DEF SlotsInv
  <2>6. VectorInv'
    BY <1>2, <1>3, <2>4 DEF SyncInv, VectorInv
  <2>7. EpollInv'
    <3>1. \A g \in Fd : g # f => First(g) # First(f) /\ First(g) \in Obj
      BY FirstFacts
    <3>2. new # {}
      BY <2>3
    <3> QED BY <1>2, <1>3, <1>5, <2>4, <2>5, <3>1, <3>2 DEF SyncInv, EpollInv, fdVars
  <2>8. RegInv'
    <3>1. \A d \in Obj, g \in Event : slot[d][g] # n
      BY <1>1, <1>2 DEF SlotsInv, SlotMap, NewInv, Registered
    <3>2. /\ slot'[First(f)][e] = n
          /\ \A d \in Obj, g \in Event : d # First(f) \/ g # e => slot'[d][g] = slot[d][g]
      BY <1>2, <2>2 DEF SlotsInv, TypeOK
    <3>3. reg'[n] = <<f, e, epoch[f]>> /\ \A m \in Waiter : m # n => reg'[m] = reg[m]
      BY <2>2 DEF SlotsInv, TypeOK
    <3>4. \A d \in Obj, g \in Event : slot[d][g] # None => slot[d][g] \in Waiter
      BY DEF SlotsInv, SlotMap, Registered
    <3>5. epoch' = epoch
      BY <1>3 DEF fdVars
    <3>6. ASSUME NEW d \in Obj, NEW g \in Event, slot'[d][g] # None
          PROVE  reg'[slot'[d][g]] = <<d[1], g, epoch[d[1]]>>
      <4>1. CASE d = First(f) /\ g = e
        BY <1>2, <3>2, <3>3, <4>1
      <4>2. CASE ~(d = First(f) /\ g = e)
        BY <3>1, <3>2, <3>3, <3>4, <3>6, <4>2 DEF SyncInv, RegInv
      <4> QED BY <4>1, <4>2
    <3> QED BY <3>5, <3>6 DEF RegInv
  <2>9. EdgeInv'
    <3>1. ready' = ready /\ got' = got
      BY <1>3 DEF fdVars
    <3> QED BY <2>2, <2>3, <3>1, RegisterEdge DEF SlotsInv
  <2>10. ASSUME NEW u \in Thread, u # t PROVE CallOK(u)'
    <3>1. CallOK(u) /\ First(argFd[u]) \in Obj /\ argFd[u] \in Fd
      BY FirstFacts DEF SlotsInv, TypeOK, SyncInv, CallInv
    <3>2. pc[u] \in {"resize", "add"} => ~(argFd[u] = f /\ argEv[u] = e)
      BY <1>1, <1>2, <2>10 DEF SyncInv, CallInv, OneAdder
    <3>3. pc[u] \in {"resize", "add"} => argEv[u] \notin events'[First(argFd[u])]
      BY <2>3, <2>4, <3>1, <3>2, FirstFacts DEF CallOK
    <3>4. pc[u] \notin {"resize", "cancelAll", "close"}
      BY <2>10, <3>1 DEF CallOK, Alone
    <3> QED BY <1>3, <1>4, <2>10, <3>1, <3>3, <3>4 DEF CallOK
  <2>11. CallInv'
    <3>1. CallOK(t)'
      BY <1>2, <1>3, <1>4, FreeCall
    <3>2. OneAdder'
      BY <1>4 DEF SyncInv, CallInv, OneAdder
    <3> QED BY <2>10, <3>1, <3>2 DEF CallInv
  <2> QED BY <1>3, <2>6, <2>7, <2>8, <2>9, <2>11 DEF SyncInv
<1>6. CASE ~open[f]
  <2>1. UNCHANGED <<events, slot, m_pendingEventCount, epollVars, waitVars>>
    BY <1>1, <1>6 DEF AddEventLocked, CtlSetOK
  <2>2. LocalStep
    BY <1>3, <2>1 DEF LocalStep, ctxVars
  <2>3. /\ VectorInv' /\ EpollInv' /\ RegInv' /\ EdgeInv'
        /\ size' = size /\ events' = events /\ got' = got
    BY <2>2, LocalSync
  <2>4. CallOK(t)'
    BY <1>2, <1>4, <2>3, FreeCall
  <2>5. CallInv'
    BY <1>4, <2>3, <2>4, OthersKeep DEF SlotsInv, SyncInv
  <2> QED BY <1>3, <2>3, <2>5 DEF SyncInv
<1> QED BY <1>5, <1>6

\* delEvent, cancelEvent and close() begin, or have nothing to clear.
LEMMA LookupSync ==
    ASSUME Fixed \/ Alone, SlotsInv, SyncInv, NEW t \in Thread,
           \/ NothingToClear(t)
           \/ \E f \in Closable : Close(t, f)
           \/ \E f \in Fd, e \in Event : Lookup(t, f, e, "del") \/ Lookup(t, f, e, "cancel")
    PROVE  SyncInv'
<1>1. LocalStep
  BY DEF NothingToClear, Close, Lookup, LocalStep
<1>2. /\ VectorInv' /\ EpollInv' /\ RegInv' /\ EdgeInv'
      /\ size' = size /\ events' = events /\ got' = got
  BY <1>1, LocalSync
<1>3. \A u \in Thread : u # t => /\ pc'[u] = pc[u] /\ argFd'[u] = argFd[u] /\ ctx'[u] = ctx[u]
                                 /\ argEv'[u] = argEv[u]
  BY ReturnFacts DEF NothingToClear, Close, Lookup, Goto, SlotsInv, TypeOK, PcOK
<1>4. got[t] = {}
  BY DEF NothingToClear, Close, Lookup, At, SyncInv, CallInv, CallOK
<1>5. CallOK(t)' /\ pc'[t] \notin {"resize", "add"}
  <2>1. CASE NothingToClear(t)
    BY <1>2, <1>4, <2>1, ReturnFacts, FreeCall DEF NothingToClear, SlotsInv
  <2>2. ASSUME NEW f \in Closable, Close(t, f) PROVE CallOK(t)' /\ pc'[t] \notin {"resize", "add"}
    <3>1. f \in Fd /\ Alone
      BY FdAssumption DEF Fixed
    <3>2. /\ argFd'[t] = f /\ pc'[t] = (IF size > f THEN "cancelAll" ELSE "close")
          /\ size > f => ctx'[t] = First(f)
      BY <2>2, <3>1, LookedUp DEF Close, Goto, SlotsInv, TypeOK, PcOK
    <3>3. ~(size > f) => events[First(f)] = {}
      BY <3>1, FdAssumption DEF SyncInv, EpollInv
    <3>4. size > f => f < size
      BY <3>1, FdAssumption DEF SlotsInv, TypeOK
    <3> QED BY <1>2, <1>4, <3>1, <3>2, <3>3, <3>4 DEF CallOK
  <2>3. ASSUME NEW f \in Fd, NEW e \in Event, Lookup(t, f, e, "del") \/ Lookup(t, f, e, "cancel")
        PROVE  CallOK(t)' /\ pc'[t] \notin {"resize", "add"}
    <3>1. pc'[t] \in {"del", "cancel"} /\ argFd'[t] = f /\ ctx'[t] = First(f) /\ size > f
      <4>1. /\ pc' = [pc EXCEPT ![t] = "del"] \/ pc' = [pc EXCEPT ![t] = "cancel"]
            /\ argFd' = [argFd EXCEPT ![t] = f] /\ ctx' = [ctx EXCEPT ![t] = <<f, gen[f]>>]
            /\ size > f
        BY <2>3 DEF Lookup, Goto
      <4> QED BY <4>1, LookedUp DEF SlotsInv, TypeOK, PcOK
    <3>2. f < size
      BY <3>1, FdAssumption DEF SlotsInv, TypeOK
    <3> QED BY <1>2, <1>4, <3>1, <3>2 DEF CallOK
  <2> QED BY <2>1, <2>2, <2>3
<1>6. CallInv'
  BY <1>2, <1>3, <1>5, OthersKeep DEF SlotsInv, SyncInv
<1> QED BY <1>2, <1>6 DEF SyncInv

\* epoll is told what is cleared in the FdContext.
LEMMA ClearSync ==
    ASSUME SlotsInv, SyncInv, NEW f \in Fd, NEW ok \in SUBSET Event, NEW new \in SUBSET Event,
           NEW x \in {"scheduled", "deleted"}, Clears(First(f), ok, x),
           new = events[First(f)] \ ok, Register(f, First(f), new), interest[f] # {},
           UNCHANGED <<size, gen, fdVars, reg>>
    PROVE  VectorInv' /\ EpollInv' /\ RegInv' /\ \A c \in Obj : events'[c] \subseteq events[c]
<1>1. First(f) \in Obj
  BY FirstFacts
<1>2. /\ events'[First(f)] = new /\ \A d \in Obj : d # First(f) => events'[d] = events[d]
  BY <1>1 DEF Clears, SlotsInv, TypeOK
<1>3. /\ interest'[f] = new /\ (new # {} => dataPtr'[f] = First(f)) /\ (fired'[f] => new # {})
      /\ \A g \in Fd : g # f => /\ interest'[g] = interest[g] /\ dataPtr'[g] = dataPtr[g]
                                /\ fired'[g] = fired[g]
  BY <1>1, RegisterFacts DEF SlotsInv
<1>4. \A d \in Obj, e \in Event : slot'[d][e] = slot[d][e] \/ slot'[d][e] = None
  BY <1>1 DEF Clears
<1>5. \A c \in Obj : events'[c] \subseteq events[c]
  BY <1>2
<1>6. VectorInv'
  BY <1>5 DEF SyncInv, VectorInv
<1>7. EpollInv'
  <2>1. \A g \in Fd : g # f => First(g) # First(f) /\ First(g) \in Obj
    BY FirstFacts
  <2>2. UNCHANGED <<size, open>>
    BY DEF fdVars
  <2> QED BY <1>2, <1>3, <2>1, <2>2 DEF SyncInv, EpollInv
<1>8. RegInv'
  <2>1. epoch' = epoch
    BY DEF fdVars
  <2> QED BY <1>4, <2>1 DEF SyncInv, RegInv
<1> QED BY <1>5, <1>6, <1>7, <1>8

\* delEvent and cancelEvent clear one event in both places.
LEMMA ClearOneSync ==
    ASSUME SlotsInv, SyncInv, NEW t \in Thread, DelEvent(t) \/ CancelEvent(t)
    PROVE  SyncInv' /\ aborted' = aborted
<1>1. PICK f \in Fd, e \in Event : f = argFd[t] /\ e = argEv[t] /\ ctx[t] = First(f)
  BY DEF DelEvent, CancelEvent, At, SlotsInv, TypeOK, SyncInv, CallInv, CallOK
<1>2. First(f) \in Obj /\ {e} \in SUBSET Event
  BY FirstFacts
<1>3. got[t] = {}
  BY DEF DelEvent, CancelEvent, At, SyncInv, CallInv, CallOK
<1>4. /\ e \in events[First(f)] /\ Register(f, First(f), events[First(f)] \ {e}) /\ interest[f] # {}
      /\ Return(t) /\ UNCHANGED <<size, gen, fdVars, got, reg>>
  BY <1>1 DEF DelEvent, CancelEvent, CtlClearOK
<1>5. /\ aborted' = aborted
      /\ Clears(First(f), {e}, "deleted") \/ Clears(First(f), {e}, "scheduled")
  <2>1. CASE DelEvent(t)
    BY <1>1, <1>2, <2>1, DelEventClears
  <2>2. CASE CancelEvent(t)
    <3>1. TriggerEvents(First(f), {e}) /\ {e} \cap events[First(f)] = {e}
      BY <1>1, <1>4, <2>2 DEF CancelEvent
    <3>2. /\ Clears(First(f), {e} \cap events[First(f)], "scheduled")
          /\ {e} \subseteq events[First(f)] => aborted' = aborted
      BY <1>2, <3>1, TriggerClears DEF SlotsInv
    <3> QED BY <1>4, <3>1, <3>2
  <2> QED BY <2>1, <2>2
<1>6. PICK new \in SUBSET Event : new = events[First(f)] \ {e}
  BY <1>2 DEF SlotsInv, TypeOK
<1>7. VectorInv' /\ EpollInv' /\ RegInv' /\ \A c \in Obj : events'[c] \subseteq events[c]
  BY <1>2, <1>4, <1>5, <1>6, ClearSync
<1>8. EdgeInv'
  BY <1>4, <1>6, RegisterEdge DEF SlotsInv, fdVars
<1>9. CallInv'
  <2>1. /\ pc'[t] = "free" /\ got' = got /\ size' = size
        /\ \A u \in Thread : u # t => /\ pc'[u] = pc[u] /\ argFd'[u] = argFd[u] /\ ctx'[u] = ctx[u]
                                      /\ argEv'[u] = argEv[u]
    BY <1>4, ReturnFacts DEF SlotsInv
  <2>2. CallOK(t)'
    BY <1>3, <2>1, FreeCall
  <2> QED BY <1>7, <2>1, <2>2, OthersKeep DEF SlotsInv, SyncInv
<1> QED BY <1>5, <1>7, <1>8, <1>9 DEF SyncInv

\* cancelAll clears every event in both places.
LEMMA CancelAllSync ==
    ASSUME SlotsInv, SyncInv, NEW t \in Thread, CancelAll(t)
    PROVE  SyncInv' /\ aborted' = aborted
<1>1. PICK f \in Fd : f = argFd[t] /\ ctx[t] = First(f)
  BY DEF CancelAll, At, SlotsInv, TypeOK, SyncInv, CallInv, CallOK
<1>2. First(f) \in Obj /\ got[t] = {} /\ Alone
  BY FirstFacts DEF CancelAll, At, SyncInv, CallInv, CallOK
<1>3. /\ pc' = [pc EXCEPT ![t] = "close"]
      /\ UNCHANGED <<size, gen, fdVars, argFd, argEv, ctx, who, got, reg>>
  BY DEF CancelAll, Goto
<1>4. /\ pc'[t] = "close" /\ argFd'[t] = f /\ got'[t] = {}
      /\ \A u \in Thread : u # t => pc'[u] = pc[u]
  BY <1>1, <1>2, <1>3 DEF SlotsInv, PcOK
<1>5. CASE events[First(f)] # {}
  <2>1. interest[f] # {} /\ CtlClearOK(f)
    BY <1>5 DEF SyncInv, EpollInv, CtlClearOK
  <2>2. Register(f, First(f), {}) /\ TriggerEvents(First(f), events[First(f)])
    BY <1>1, <1>5, <2>1 DEF CancelAll
  <2>3. PICK E \in SUBSET Event : E = events[First(f)]
    BY <1>2 DEF SlotsInv, TypeOK
  <2>4. Clears(First(f), E, "scheduled") /\ aborted' = aborted
    <3>1. E \cap events[First(f)] = E /\ E \subseteq events[First(f)]
      BY <2>3
    <3> QED BY <1>2, <2>2, <2>3, <3>1, TriggerClears DEF SlotsInv
  <2>5. {} \in SUBSET Event /\ {} = events[First(f)] \ E
    BY <2>3
  <2>6. VectorInv' /\ EpollInv' /\ RegInv' /\ \A c \in Obj : events'[c] \subseteq events[c]
    BY <1>3, <2>1, <2>2, <2>4, <2>5, ClearSync
  <2>7. EdgeInv'
    BY <1>3, <2>2, <2>5, RegisterEdge DEF SlotsInv, fdVars
  <2>8. events'[First(f)] = {}
    BY <1>2, <2>3, <2>4 DEF Clears, SlotsInv, TypeOK
  <2>9. CallOK(t)'
    BY <1>2, <1>4, <2>8 DEF CallOK
  <2>10. CallInv'
    BY <1>3, <1>4, <2>6, <2>9, OthersKeep DEF SlotsInv, SyncInv
  <2> QED BY <2>4, <2>6, <2>7, <2>10 DEF SyncInv
<1>6. CASE events[First(f)] = {}
  <2>1. UNCHANGED <<epollVars, events, slot, m_pendingEventCount, status, aborted>>
    BY <1>1, <1>6 DEF CancelAll
  <2>2. LocalStep
    BY <1>3, <2>1 DEF LocalStep, ctxVars, waitVars
  <2>3. /\ VectorInv' /\ EpollInv' /\ RegInv' /\ EdgeInv'
        /\ size' = size /\ events' = events /\ got' = got
    BY <2>2, LocalSync
  <2>4. CallOK(t)'
    BY <1>2, <1>4, <1>6, <2>3 DEF CallOK
  <2>5. CallInv'
    BY <1>3, <1>4, <2>3, <2>4, OthersKeep DEF SlotsInv, SyncInv
  <2> QED BY <2>1, <2>3, <2>5 DEF SyncInv
<1> QED BY <1>5, <1>6

\* The kernel forgets a descriptor that has no events.
LEMMA CloseFdSync ==
    ASSUME SlotsInv, SyncInv, NEW t \in Thread, CloseFd(t) PROVE SyncInv'
<1>1. PICK f \in Fd : f = argFd[t]
  BY DEF SlotsInv, TypeOK
<1>2. events[First(f)] = {} /\ interest[f] = {} /\ got[t] = {}
  BY <1>1 DEF CloseFd, At, SyncInv, CallInv, CallOK, EpollInv
<1>3. /\ UNCHANGED <<ctxVars, epoch, got, waitVars>> /\ Return(t)
      /\ open' = [open EXCEPT ![f] = FALSE] /\ ready' = [ready EXCEPT ![f] = {}]
      /\ interest' = [interest EXCEPT ![f] = {}]
      /\ dataPtr' = [dataPtr EXCEPT ![f] = NoObj] /\ fired' = [fired EXCEPT ![f] = FALSE]
  BY <1>1 DEF CloseFd
<1>4. /\ interest' = interest /\ ~fired'[f]
      /\ \A g \in Fd : g # f => /\ open'[g] = open[g] /\ ready'[g] = ready[g]
                                /\ dataPtr'[g] = dataPtr[g] /\ fired'[g] = fired[g]
  BY <1>2, <1>3 DEF SlotsInv, TypeOK
<1>5. VectorInv' /\ RegInv'
  BY <1>3 DEF SyncInv, VectorInv, RegInv, ctxVars, waitVars
<1>6. EpollInv'
  BY <1>2, <1>3, <1>4 DEF SyncInv, EpollInv, ctxVars
<1>7. EdgeInv'
  BY <1>2, <1>3, <1>4 DEF SyncInv, EdgeInv
<1>8. CallInv'
  <2>1. /\ pc'[t] = "free" /\ got' = got /\ size' = size /\ events' = events
        /\ \A u \in Thread : u # t => /\ pc'[u] = pc[u] /\ argFd'[u] = argFd[u] /\ ctx'[u] = ctx[u]
                                      /\ argEv'[u] = argEv[u]
    BY <1>3, ReturnFacts DEF SlotsInv, ctxVars
  <2>2. CallOK(t)'
    BY <1>2, <2>1, FreeCall
  <2> QED BY <2>1, <2>2, OthersKeep DEF SlotsInv, SyncInv
<1> QED BY <1>5, <1>6, <1>7, <1>8 DEF SyncInv

\* epoll_wait takes descriptors from the ready list into the thread's array.
LEMMA EpollWaitSync ==
    ASSUME SlotsInv, SyncInv, NEW t \in Thread, EpollWait(t) PROVE SyncInv'
<1>1. PICK F \in (SUBSET {f \in Fd : fired[f] /\ Reported(f) # {}}) \ {{}} :
          /\ got' = [got EXCEPT ![t] = {[obj |-> dataPtr[f], evs |-> Reported(f)] : f \in F}]
          /\ fired' = [f \in Fd |-> fired[f] /\ f \notin F]
  BY DEF EpollWait
<1>2. /\ pc' = [pc EXCEPT ![t] = "dispatch"] /\ pc[t] = "free"
      /\ UNCHANGED <<ctxVars, interest, dataPtr, fdVars, argFd, argEv, ctx, who, waitVars, aborted>>
  BY DEF EpollWait, Goto, At
<1>3. /\ got'[t] = {[obj |-> dataPtr[f], evs |-> Reported(f)] : f \in F} /\ got[t] = {}
      /\ \A u \in Thread : u # t => got'[u] = got[u] /\ pc'[u] = pc[u]
      /\ pc'[t] = "dispatch"
  BY <1>1, <1>2 DEF SlotsInv, TypeOK, PcOK, SyncInv, CallInv, CallOK
<1>4. \A f \in F : f \in Fd /\ interest[f] # {} /\ dataPtr[f] = First(f)
  BY <1>1 DEF SyncInv, EpollInv
<1>5. VectorInv' /\ EpollInv' /\ RegInv'
  <2>1. SameTable /\ size' = size
    BY <1>2 DEF SameTable, ctxVars, fdVars, waitVars
  <2>2. size' \in Nat /\ size' >= size
    BY <2>1 DEF SlotsInv, TypeOK
  <2>3. \A g \in Fd : fired'[g] => interest[g] # {}
    BY <1>1 DEF SyncInv, EpollInv
  <2> QED BY <2>1, <2>2, <2>3, SameTableSync
<1>6. EdgeInv'
  <2>1. UNCHANGED <<interest, ready>>
    BY <1>2 DEF fdVars
  <2>2. ASSUME NEW f \in Fd, NEW e \in interest[f], ready[f] \cap {e, "HUP"} # {}
        PROVE  \/ fired'[f]
               \/ \E u \in Thread : \E ev \in got'[u] : ev.obj = First(f) /\ ev.evs \cap {e, "HUP"} # {}
    <3>1. CASE f \in F
      <4> DEFINE ev == [obj |-> dataPtr[f], evs |-> Reported(f)]
      <4>1. ev \in got'[t] /\ ev.obj = First(f)
        BY <1>3, <1>4, <3>1
      <4>2. ev.evs \cap {e, "HUP"} # {}
        BY <2>2 DEF Reported
      <4> QED BY <4>1, <4>2
    <3>2. CASE f \notin F /\ fired[f]
      BY <1>1, <3>2
    <3>3. CASE ~fired[f]
      <4>1. PICK u \in Thread : \E ev \in got[u] : ev.obj = First(f) /\ ev.evs \cap {e, "HUP"} # {}
        BY <2>2, <3>3 DEF SyncInv, EdgeInv
      <4>2. got'[u] = got[u]
        BY <1>3, <4>1
      <4> QED BY <4>1, <4>2
    <3> QED BY <3>1, <3>2, <3>3
  <2> QED BY <2>1, <2>2 DEF EdgeInv
<1>7. CallInv'
  <2>1. size' = size /\ events' = events
    BY <1>2 DEF ctxVars
  <2>2. \A ev \in got'[t] : ev.obj[2] = 0
    BY <1>3, <1>4, FirstFacts
  <2>3. CallOK(t)'
    BY <1>3, <2>2 DEF CallOK
  <2> QED BY <1>2, <1>3, <2>1, <2>3, OthersKeep DEF SlotsInv, SyncInv
<1> QED BY <1>5, <1>6, <1>7 DEF SyncInv

\* What the dispatch loop does with one entry of its array.
LEMMA DispatchFacts ==
    ASSUME SlotsInv, SyncInv, NEW t \in Thread, Dispatch(t)
    PROVE  \E ev \in got[t], f \in Fd, E \in SUBSET Event :
             /\ ev.obj = First(f) /\ E = RealEvents(ev)
             /\ ev \in [obj : Obj, evs : SUBSET (Event \cup {"HUP"})]
             /\ got' = [got EXCEPT ![t] = got[t] \ {ev}]
             /\ IF got[t] = {ev} THEN Goto(t, "free") ELSE UNCHANGED pc
             /\ IF events[First(f)] \cap E # {}
                THEN /\ interest[f] # {} /\ Register(f, First(f), events[First(f)] \ E)
                     /\ TriggerEvents(First(f), E)
                ELSE UNCHANGED <<epollVars, events, slot, m_pendingEventCount, status, aborted>>
<1>1. PICK ev \in got[t] :
          /\ IF events[ev.obj] \cap RealEvents(ev) # {} /\ CtlClearOK(ev.obj[1])
             THEN /\ Register(ev.obj[1], ev.obj, events[ev.obj] \ RealEvents(ev))
                  /\ TriggerEvents(ev.obj, RealEvents(ev))
             ELSE UNCHANGED <<epollVars, events, slot, m_pendingEventCount, status, aborted>>
          /\ got' = [got EXCEPT ![t] = got[t] \ {ev}]
          /\ IF got[t] = {ev} THEN Goto(t, "free") ELSE UNCHANGED pc
  BY DEF Dispatch
<1>2. ev \in [obj : Obj, evs : SUBSET (Event \cup {"HUP"})] /\ ev.obj[2] = 0
  BY DEF SlotsInv, TypeOK, SyncInv, CallInv, CallOK
<1>3. PICK f \in Fd : ev.obj = First(f) /\ ev.obj[1] = f
  BY <1>2, FirstFacts
<1>4. PICK E \in SUBSET Event : E = RealEvents(ev)
  BY <1>2 DEF SlotsInv, TypeOK, RealEvents
<1>5. events[First(f)] \cap E # {} => interest[f] # {} /\ CtlClearOK(f)
  BY DEF SyncInv, EpollInv, CtlClearOK
<1>6. IF events[First(f)] \cap E # {}
      THEN /\ interest[f] # {} /\ Register(f, First(f), events[First(f)] \ E)
           /\ TriggerEvents(First(f), E)
      ELSE UNCHANGED <<epollVars, events, slot, m_pendingEventCount, status, aborted>>
  BY <1>1, <1>3, <1>4, <1>5
<1> WITNESS ev \in got[t], f \in Fd, E \in SUBSET Event
<1> QED BY <1>1, <1>2, <1>3, <1>4, <1>6

\* The dispatch loop clears in both places what it schedules, and drops an entry
\* only when nobody waits for what it reports.
LEMMA DispatchSync ==
    ASSUME SlotsInv, SyncInv, NEW t \in Thread, Dispatch(t) PROVE SyncInv'
<1>1. PICK ev \in got[t], f \in Fd, E \in SUBSET Event :
          /\ ev.obj = First(f) /\ E = RealEvents(ev)
          /\ ev \in [obj : Obj, evs : SUBSET (Event \cup {"HUP"})]
          /\ got' = [got EXCEPT ![t] = got[t] \ {ev}]
          /\ IF got[t] = {ev} THEN Goto(t, "free") ELSE UNCHANGED pc
          /\ IF events[First(f)] \cap E # {}
             THEN /\ interest[f] # {} /\ Register(f, First(f), events[First(f)] \ E)
                  /\ TriggerEvents(First(f), E)
             ELSE UNCHANGED <<epollVars, events, slot, m_pendingEventCount, status, aborted>>
  BY DispatchFacts
<1>2. UNCHANGED <<size, gen, fdVars, argFd, argEv, ctx, who, reg>> /\ pc[t] = "dispatch"
  BY DEF Dispatch, At
<1>3. First(f) \in Obj
  BY FirstFacts
<1>4. /\ got'[t] = got[t] \ {ev} /\ \A u \in Thread : u # t => got'[u] = got[u] /\ pc'[u] = pc[u]
      /\ (got'[t] = {} /\ pc'[t] = "free") \/ pc'[t] = "dispatch"
  BY <1>1, <1>2 DEF Goto, SlotsInv, TypeOK, PcOK
<1>5. (\A c \in Obj : events'[c] \subseteq events[c]) => CallInv'
  <2>1. CallOK(t)'
    <3>1. \A fv \in got'[t] : fv.obj[2] = 0
      BY <1>4 DEF SyncInv, CallInv, CallOK
    <3> QED BY <1>4, <3>1 DEF CallOK
  <2> QED BY <1>2, <1>4, <2>1, OthersKeep DEF SlotsInv, SyncInv
<1>6. CASE events[First(f)] \cap E # {}
  <2>1. interest[f] # {} /\ Register(f, First(f), events[First(f)] \ E) /\ TriggerEvents(First(f), E)
    BY <1>1, <1>6
  <2>2. PICK new \in SUBSET Event : new = events[First(f)] \ E
    BY <1>3 DEF SlotsInv, TypeOK
  <2>3. PICK ok \in SUBSET Event : ok = E \cap events[First(f)]
    OBVIOUS
  <2>4. Clears(First(f), ok, "scheduled") /\ new = events[First(f)] \ ok
    BY <1>3, <2>1, <2>2, <2>3, TriggerClears DEF SlotsInv
  <2>5. VectorInv' /\ EpollInv' /\ RegInv' /\ \A c \in Obj : events'[c] \subseteq events[c]
    BY <1>2, <2>1, <2>2, <2>4, ClearSync
  <2>6. EdgeInv'
    <3>1. \A u \in Thread : \A fv \in got[u] : fv.obj # First(f) => fv \in got'[u]
      BY <1>1, <1>4
    <3>2. ready' = ready
      BY <1>2 DEF fdVars
    <3> QED BY <2>1, <2>2, <3>1, <3>2, RegisterEdge DEF SlotsInv
  <2> QED BY <1>5, <2>5, <2>6 DEF SyncInv
<1>7. CASE events[First(f)] \cap E = {}
  <2>1. UNCHANGED <<epollVars, events, slot, m_pendingEventCount, status, aborted>>
    BY <1>1, <1>7
  <2>2. VectorInv' /\ EpollInv' /\ RegInv'
    <3>1. SameTable /\ size' = size
      BY <1>2, <2>1 DEF SameTable, epollVars, fdVars
    <3>2. size' \in Nat /\ size' >= size
      BY <3>1 DEF SlotsInv, TypeOK
    <3>3. \A g \in Fd : fired'[g] => interest[g] # {}
      BY <2>1 DEF epollVars, SyncInv, EpollInv
    <3> QED BY <3>1, <3>2, <3>3, SameTableSync
  <2>3. EdgeInv'
    <3>1. UNCHANGED <<interest, ready, fired>>
      BY <1>2, <2>1 DEF epollVars, fdVars
    <3>2. \A e \in interest[f] : ev.evs \cap {e, "HUP"} = {}
      <4>1. ASSUME NEW e \in interest[f] PROVE e \notin ev.evs /\ "HUP" \notin ev.evs
        <5>1. e \in events[First(f)] /\ e \in Event
          BY DEF SyncInv, EpollInv, SlotsInv, TypeOK
        <5>2. e \notin E
          BY <1>7, <5>1
        <5> QED BY <1>1, <5>1, <5>2 DEF RealEvents
      <4> QED BY <4>1
    <3>3. ASSUME NEW g \in Fd, NEW e \in interest[g], NEW u \in Thread, NEW fv \in got[u],
                 fv.obj = First(g), fv.evs \cap {e, "HUP"} # {}
          PROVE  fv \in got'[u]
      <4>1. fv # ev
        BY <1>1, <3>2, <3>3, FirstFacts
      <4> QED BY <1>4, <4>1
    <3> QED BY <3>1, <3>3 DEF SyncInv, EdgeInv
  <2> QED BY <1>5, <2>1, <2>2, <2>3 DEF SyncInv
<1> QED BY <1>6, <1>7

\* epoll has nothing registered when the IOManager is made.
LEMMA InitSync == ASSUME Init PROVE SyncInv
<1>1. VectorInv /\ EpollInv /\ RegInv /\ EdgeInv
  BY FirstFacts, FdAssumption DEF Init, VectorInv, EpollInv, RegInv, EdgeInv
<1>2. CallInv
  BY DEF Init, CallInv, CallOK, OneAdder
<1> QED BY <1>1, <1>2 DEF SyncInv

\* Every step keeps epoll and the FdContexts together.
LEMMA NextSync ==
    ASSUME Fixed \/ Alone, SlotsInv, SlotsInv', SyncInv, [Next]_vars PROVE SyncInv'
<1>1. ASSUME NEW t \in Thread, ThreadStep(t) PROVE SyncInv'
  <2>1. CASE \E f \in Fd, e \in Event : \/ Lookup(t, f, e, "del") \/ Lookup(t, f, e, "cancel")
                                        \/ \E n \in Waiter : AddEvent(t, f, e, n)
    BY <2>1, LookupSync, AddEventSync
  <2> QED BY <1>1, <2>1, ContextResizeSync, AddEventLockedSync, LookupSync, ClearOneSync,
             CancelAllSync, CloseFdSync, EpollWaitSync, DispatchSync
          DEF ThreadStep
<1>2. CASE UNCHANGED vars
  <2>1. LocalStep /\ UNCHANGED callVars
    BY <1>2 DEF vars, LocalStep
  <2>2. /\ VectorInv' /\ EpollInv' /\ RegInv' /\ EdgeInv'
        /\ size' = size /\ events' = events /\ got' = got
    BY <2>1, LocalSync
  <2>3. CallInv'
    BY <2>1, <2>2 DEF SyncInv, CallInv, CallOK, OneAdder, callVars
  <2> QED BY <2>2, <2>3 DEF SyncInv
<1> QED BY <1>1, <1>2, EnvironmentSync DEF Next

\* epoll, the FdContexts and the waiters agree in every reachable state.
THEOREM SyncInvHolds ==
    ASSUME Fixed \/ Alone PROVE Spec => [](SlotsInv /\ SyncInv)
<1>1. Init => SlotsInv /\ SyncInv
  BY InitSlots, InitSync
<1>2. SlotsInv /\ SyncInv /\ [Next]_vars => SlotsInv' /\ SyncInv'
  BY NextSlots, NextSync
<1> QED BY <1>1, <1>2, PTL DEF Spec

\* Where a registered waiter is.
LEMMA WaiterPlace ==
    ASSUME SlotsInv, SyncInv, NEW n \in Registered
    PROVE  \E f \in Fd, e \in Event :
              /\ reg[n] = <<f, e, epoch[f]>> /\ slot[First(f)][e] = n /\ e \in interest[f]
              /\ open[f] /\ dataPtr[f] = First(f) /\ f < size /\ gen[f] = 0
<1>1. PICK c \in Obj, e \in Event : slot[c][e] = n
  BY DEF SlotsInv, SlotMap
<1>2. n # None
  BY WaiterAssumption DEF Registered
<1>3. e \in events[c] /\ reg[n] = <<c[1], e, epoch[c[1]]>>
  BY <1>1, <1>2 DEF SlotsInv, SlotMap, SyncInv, RegInv
<1>4. c[1] \in Fd /\ c = First(c[1])
  BY <1>3, FirstFacts DEF SyncInv, VectorInv
<1>5. e \in interest[c[1]]
  BY <1>3, <1>4 DEF SyncInv, EpollInv
<1> QED BY <1>1, <1>3, <1>4, <1>5 DEF SyncInv, EpollInv, VectorInv

\* The count, the slots and the waiters are exact and every waiter is armed in
\* epoll with the FdContext that remembers it, for any number of threads while
\* nothing is closed, and for one thread with close() and contextResize.
THEOREM EventsInvHolds ==
    ASSUME Fixed \/ Alone PROVE Spec => []EventsInv
<1>1. SlotsInv /\ SyncInv => EventsInv
  <2>1. SUFFICES ASSUME SlotsInv, SyncInv PROVE EventsInv
    OBVIOUS
  <2>2. WaiterIsArmed
    BY <2>1, WaiterPlace DEF WaiterIsArmed
  <2> QED BY <2>1, <2>2, SlotMapImplies DEF SlotsInv, EventsInv
<1> QED BY <1>1, SyncInvHolds, PTL

\* cancelEvent, delEvent and cancelAll find whoever waits.
THEOREM WaiterIsReachableHolds ==
    ASSUME Fixed \/ Alone PROVE Spec => []WaiterIsReachable
<1>1. SlotsInv /\ SyncInv => WaiterIsReachable
  <2>1. SUFFICES ASSUME SlotsInv, SyncInv, NEW n \in Registered, NEW f, NEW e, f = reg[n][1], e = reg[n][2]
                 PROVE  f < size /\ slot[<<f, gen[f]>>][e] = n
    BY DEF WaiterIsReachable
  <2>2. f \in Fd /\ f < size /\ slot[First(f)][e] = n
    BY <2>1, WaiterPlace
  <2> QED BY <2>1, <2>2, LookedUp
<1> QED BY <1>1, SyncInvHolds, PTL

\* Edge-triggered readiness that somebody waits for is never forgotten.
THEOREM NoLostEdgeHolds ==
    ASSUME Fixed \/ Alone PROVE Spec => []NoLostEdge
<1>1. SlotsInv /\ SyncInv => NoLostEdge
  <2>1. SUFFICES ASSUME SlotsInv, SyncInv, NEW n \in Registered, NEW f, NEW e,
                        f = reg[n][1], e = reg[n][2], ready[f] \cap {e, "HUP"} # {}
                 PROVE  \/ fired[f]
                        \/ \E t \in Thread : \E ev \in got[t] :
                              ev.obj = dataPtr[f] /\ ev.evs \cap {e, "HUP"} # {}
    BY DEF NoLostEdge
  <2>2. f \in Fd /\ e \in interest[f] /\ dataPtr[f] = First(f)
    BY <2>1, WaiterPlace
  <2> QED BY <2>1, <2>2 DEF SyncInv, EdgeInv
<1> QED BY <1>1, SyncInvHolds, PTL

-----------------------------------------------------------------------------
(* The assertions.                                                         *)

\* One thread handles the whole array that epoll_wait filled before anything is
\* registered or cleared, and no descriptor is in it twice.
LEMMA GotKeeps ==
    ASSUME Alone, SlotsInv, SyncInv, GotInv, [Next]_vars PROVE GotInv'
<1>1. CASE got' = got /\ events' = events
  BY <1>1 DEF GotInv
<1>2. CASE Environment
  BY <1>1, <1>2 DEF Environment, Reopen, BecomesReady, Drained, ctxVars
<1>3. ASSUME NEW t \in Thread, ThreadStep(t) PROVE GotInv'
  <2>1. \A u \in Thread : u = t
    BY DEF Alone
  <2>2. CASE EpollWait(t)
    <3>1. PICK F \in SUBSET {f \in Fd : fired[f]} :
              got' = [got EXCEPT ![t] = {[obj |-> dataPtr[f], evs |-> Reported(f)] : f \in F}]
      BY <2>2 DEF EpollWait
    <3>2. got'[t] = {[obj |-> dataPtr[f], evs |-> Reported(f)] : f \in F} /\ events' = events
      BY <2>2, <3>1 DEF EpollWait, ctxVars, SlotsInv, TypeOK
    <3>3. \A f \in F : /\ f \in Fd /\ dataPtr[f] = First(f)
                       /\ Reported(f) \cap Event \subseteq events[First(f)]
      BY <3>1, EventAssumption DEF SyncInv, EpollInv, Reported
    <3>4. \A ev \in got'[t] : ev.evs \cap Event \subseteq events[ev.obj]
      BY <3>2, <3>3
    <3>5. \A ev, fv \in got'[t] : ev.obj = fv.obj => ev = fv
      BY <3>2, <3>3, FirstFacts
    <3> QED BY <2>1, <3>2, <3>4, <3>5 DEF GotInv
  <2>3. CASE Dispatch(t)
    <3>1. PICK ev \in got[t], f \in Fd, E \in SUBSET Event :
              /\ ev.obj = First(f) /\ E = RealEvents(ev)
              /\ ev \in [obj : Obj, evs : SUBSET (Event \cup {"HUP"})]
              /\ got' = [got EXCEPT ![t] = got[t] \ {ev}]
              /\ IF got[t] = {ev} THEN Goto(t, "free") ELSE UNCHANGED pc
              /\ IF events[First(f)] \cap E # {}
                 THEN /\ interest[f] # {} /\ Register(f, First(f), events[First(f)] \ E)
                      /\ TriggerEvents(First(f), E)
                 ELSE UNCHANGED <<epollVars, events, slot, m_pendingEventCount, status, aborted>>
      BY <2>3, DispatchFacts
    <3>2. got'[t] = got[t] \ {ev}
      BY <3>1 DEF SlotsInv, TypeOK
    <3>3. \A c \in Obj : c # First(f) => events'[c] = events[c]
      BY <3>1 DEF TriggerEvents, SlotsInv, TypeOK
    <3>4. \A fv \in got'[t] : fv.obj \in Obj /\ fv.obj # First(f)
      BY <3>1, <3>2 DEF GotInv, SlotsInv, TypeOK
    <3>5. \A fv \in got'[t] : fv.evs \cap Event \subseteq events'[fv.obj]
      BY <3>2, <3>3, <3>4 DEF GotInv
    <3> QED BY <2>1, <3>2, <3>5 DEF GotInv
  <2>4. CASE pc[t] # "dispatch" /\ got' = got
    <3>1. got[t] = {}
      BY <2>4 DEF SyncInv, CallInv, CallOK
    <3> QED BY <2>1, <2>4, <3>1 DEF GotInv
  <2>5. ~EpollWait(t) /\ ~Dispatch(t) => pc[t] # "dispatch" /\ got' = got
    BY <1>3 DEF ThreadStep, ContextResize, AddEventLocked, NothingToClear, DelEvent, CancelEvent,
                CancelAll, CloseFd, Close, Lookup, AddEvent, At
  <2> QED BY <2>2, <2>3, <2>4, <2>5
<1>4. CASE UNCHANGED vars
  BY <1>1, <1>4 DEF vars, ctxVars
<1> QED BY <1>2, <1>3, <1>4 DEF Next

\* One event in use: nobody both reads and writes.
OneEvent == \A e, g \in Event : e = g

\* Every step passes the assertions it meets.
LEMMA AssertionsKeep ==
    ASSUME (Alone /\ GotInv) \/ OneEvent, SlotsInv, SlotsInv', SyncInv, NoAssertionFails,
           [Next]_vars
    PROVE  NoAssertionFails'
<1>1. SUFFICES aborted' = aborted
  BY DEF NoAssertionFails
<1>2. CASE Environment \/ UNCHANGED vars
  BY <1>2 DEF Environment, Reopen, BecomesReady, Drained, vars
<1>3. ASSUME NEW t \in Thread, ThreadStep(t) PROVE aborted' = aborted
  <2>1. CASE Dispatch(t)
    <3>1. PICK ev \in got[t], f \in Fd, E \in SUBSET Event :
              /\ ev.obj = First(f) /\ E = RealEvents(ev)
              /\ ev \in [obj : Obj, evs : SUBSET (Event \cup {"HUP"})]
              /\ got' = [got EXCEPT ![t] = got[t] \ {ev}]
              /\ IF got[t] = {ev} THEN Goto(t, "free") ELSE UNCHANGED pc
              /\ IF events[First(f)] \cap E # {}
                 THEN /\ interest[f] # {} /\ Register(f, First(f), events[First(f)] \ E)
                      /\ TriggerEvents(First(f), E)
                 ELSE UNCHANGED <<epollVars, events, slot, m_pendingEventCount, status, aborted>>
      BY <2>1, DispatchFacts
    <3>2. CASE events[First(f)] \cap E = {}
      BY <3>1, <3>2
    <3>3. CASE events[First(f)] \cap E # {}
      <4>1. First(f) \in Obj /\ events[First(f)] \subseteq Event
        BY FirstFacts DEF SlotsInv, TypeOK
      <4>2. E \subseteq events[First(f)]
        <5>1. CASE Alone /\ GotInv
          BY <3>1, <5>1 DEF GotInv, RealEvents
        <5>2. CASE OneEvent
          BY <3>3, <4>1, <5>2 DEF OneEvent
        <5> QED BY <5>1, <5>2
      <4> QED BY <3>1, <3>3, <4>1, <4>2, TriggerClears DEF SlotsInv
    <3> QED BY <3>2, <3>3
  <2>2. CASE DelEvent(t) \/ CancelEvent(t)
    BY <2>2, ClearOneSync
  <2>3. CASE CancelAll(t)
    BY <2>3, CancelAllSync
  <2>4. CASE AddEventLocked(t)
    BY <2>4, AddEventLockedSync
  <2> QED BY <1>3, <2>1, <2>2, <2>3, <2>4
          DEF ThreadStep, ContextResize, NothingToClear, CloseFd, EpollWait, Close, Lookup, AddEvent
<1> QED BY <1>2, <1>3 DEF Next

\* No assertion of triggerEvent or addEvent fails with one thread, nor with any
\* number of threads while nothing is closed and one event is in use.
THEOREM NoAssertionFailsHolds ==
    ASSUME Alone \/ (Fixed /\ OneEvent) PROVE Spec => []NoAssertionFails
<1>1. Init => GotInv /\ NoAssertionFails
  BY DEF Init, GotInv, NoAssertionFails
<1>2. CASE Alone
  <2>1. SlotsInv /\ SyncInv /\ GotInv /\ NoAssertionFails /\ SlotsInv' /\ [Next]_vars =>
            GotInv' /\ NoAssertionFails'
    BY <1>2, GotKeeps, AssertionsKeep
  <2>2. Spec => [](SlotsInv /\ SyncInv)
    BY <1>2, SyncInvHolds
  <2> QED BY <1>1, <2>1, <2>2, PTL DEF Spec
<1>3. CASE Fixed /\ OneEvent
  <2>1. SlotsInv /\ SyncInv /\ NoAssertionFails /\ SlotsInv' /\ [Next]_vars => NoAssertionFails'
    BY <1>3, AssertionsKeep
  <2>2. Spec => [](SlotsInv /\ SyncInv)
    BY <1>3, SyncInvHolds
  <2> QED BY <1>1, <2>1, <2>2, PTL DEF Spec
<1> QED BY <1>2, <1>3

=============================================================================
