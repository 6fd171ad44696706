----------------------------- MODULE TimerProofs -----------------------------
(***************************************************************************)
(* Proofs about TimerManager for any number of threads, timers, durations  *)
(* and any clock bound.                                                    *)
(***************************************************************************)
EXTENDS TimerManager, NaturalsInduction, WellFoundedInduction, TLAPS

USE DEF PC

-----------------------------------------------------------------------------
(* The inductive invariant.                                                *)

\* Who may still be inserting a timer, and that nobody else knows it yet.
InsertingInv ==
    /\ \A t \in Thread : pc[t] = "insert" =>
        /\ m_cb[cur[t]]
        /\ cur[t] \notin held /\ cur[t] \notin listed /\ cur[t] \notin cancelled
        /\ \A e \in m_timers : e[2] # cur[t]
    /\ \A t, u \in Thread :
        pc[t] = "insert" /\ pc[u] \in {"insert", "resetNow", "resetKeep", "front"}
          /\ cur[t] = cur[u] => t = u
    /\ \A t \in Thread : pc[t] \in {"resetNow", "resetKeep"} => cur[t] \in held

\* The two histories: no callback survives a cancel or a one-shot listing.
HistoryInv ==
    /\ \A x \in cancelled : x \in held /\ ~m_cb[x]
    /\ \A x \in listed : m_recurring[x] \/ ~m_cb[x]

\* How old a thread's nowMs can be.
StallInv ==
    /\ m_previouseTime <= clock /\ StartClock <= m_previouseTime
    /\ \A t \in Thread : nowMs[t] <= clock
    /\ \A t \in Thread : pc[t] \in {"list", "list2"} =>
          StartClock <= nowMs[t] /\ clock - nowMs[t] <= MaxStall

\* EarlierDeadlineNotified without CHOOSE.
PlanInv ==
    /\ lastPlan <= Infinity
    /\ ~m_tickled => \A e \in m_timers : lastPlan <= e[1]

SafeInv == TypeOK /\ CallbackIffQueued /\ InsertingInv /\ HistoryInv
           /\ StartInPast /\ StallInv

-----------------------------------------------------------------------------
(* Preservation, one lemma per action.                                     *)

\* The default argument values have their types.
LEMMA AnyInType == AnyTimer \in Timer /\ AnyMs \in Duration
BY TimerAssumption, DurationAssumption DEF AnyTimer, AnyMs

\* ~0ull is later than every moment of the clock.
LEMMA InfinityIsLate == Infinity \in Nat /\ MaxClock < Infinity
<1>1. PICK d \in Duration : TRUE
  BY DurationAssumption
<1>2. d \in Nat /\ MaxClock + d + HOUR < Word
  BY <1>1, DurationAssumption, ClockAssumption
<1> QED BY <1>2, ClockAssumption DEF Infinity

\* m_ms is always a natural number.
LEMMA MsIsNat == TypeOK => \A x \in Timer : m_ms[x] \in Nat
<1>1. \A d \in Duration \cup {0} : d \in Nat
  BY DurationAssumption
<1>2. TypeOK => \A x \in Timer : m_ms[x] \in Duration \cup {0}
  BY DEF TypeOK
<1> QED BY <1>1, <1>2

\* The numbers a call in progress works with.
LEMMA CallArgTypes ==
    ASSUME TypeOK, NEW t \in Thread
    PROVE  /\ cur[t] \in Timer /\ argMs[t] \in Nat /\ clock \in Nat
           /\ m_next[cur[t]] \in Nat /\ m_ms[cur[t]] \in Nat
<1>1. cur[t] \in Timer /\ argMs[t] \in Duration /\ m_next[cur[t]] \in Nat
  BY DEF TypeOK
<1>2. argMs[t] \in Nat
  BY <1>1, DurationAssumption
<1>3. clock \in Nat
  BY ClockAssumption DEF TypeOK
<1> QED BY <1>1, <1>2, <1>3, MsIsNat

\* A non-empty set of entries has one with a least key, so First is a lower
\* bound that is attained.
LEMMA FirstIsLeast ==
    ASSUME NEW S \in SUBSET (Nat \X Timer), S # {}
    PROVE  /\ First(S) \in Nat
           /\ \E e \in S : First(S) = e[1]
           /\ \A e \in S : First(S) <= e[1]
<1> DEFINE K == {e[1] : e \in S}
           R == OpToRel(<, Nat)
<1>1. K \subseteq Nat /\ K # {}
  OBVIOUS
<1>2. IsWellFoundedOn(R, Nat)
  BY NatLessThanWellFounded
<1>3. \E k \in K : \A j \in K : ~ (<<j, k>> \in R)
  <2> HIDE DEF K, R
  <2> QED BY <1>1, <1>2, WFMin
<1>4. \A j, k \in Nat : j < k => <<j, k>> \in R
  BY DEF OpToRel
<1>5. PICK k \in K : \A j \in K : k <= j
  <2>1. PICK k \in K : \A j \in K : ~ (<<j, k>> \in R)
    BY <1>3
  <2> HIDE DEF K, R
  <2>2. \A j \in K : ~ (j < k)
    BY <1>1, <1>4, <2>1
  <2>3. \A j \in K : k <= j
    BY <1>1, <2>2
  <2> QED BY <2>1, <2>3
<1>6. PICK e \in S : e[1] = k
  OBVIOUS
<1>7. \A f \in S : e[1] <= f[1]
  BY <1>5, <1>6
<1> QED BY <1>6, <1>7 DEF First

\* Tick preserves the inductive invariant.
LEMMA TickSafe ==
    ASSUME SafeInv, Tick
    PROVE  SafeInv'
<1> USE DEF SafeInv, Tick, objVars, callVars, histVars
<1>1. TypeOK'
  BY TimerAssumption, DurationAssumption, ClockAssumption, AnyInType, MsIsNat DEF TypeOK
<1>2. CallbackIffQueued'
  BY <1>1 DEF TypeOK, CallbackIffQueued, InsertingInv, Inserting, Entry
<1>3. InsertingInv'
  BY <1>1 DEF TypeOK, CallbackIffQueued, InsertingInv, Entry
<1>4. HistoryInv'
  BY <1>1 DEF TypeOK, CallbackIffQueued, InsertingInv, HistoryInv, Entry
<1>5. StartInPast'
  BY <1>1, ClockAssumption, MsIsNat DEF TypeOK, StartInPast, StallInv
<1>6. StallInv'
  BY <1>1, ClockAssumption DEF TypeOK, StallInv
<1> QED BY <1>1, <1>2, <1>3, <1>4, <1>5, <1>6

\* AddTimer preserves the inductive invariant.
LEMMA AddTimerSafe ==
    ASSUME NEW t \in Thread, SafeInv, AddTimer(t)
    PROVE  SafeInv'
<1> USE DEF SafeInv, AddTimer, objVars, callVars, histVars, InsertAndUnlock, Return, Goto, Entry, Infinity
<1>1. TypeOK'
  <2>1. Entry(cur[t]) \in Nat \X Timer
    BY DEF TypeOK
  <2>2. m_timers' \in SUBSET (Nat \X Timer)
    BY <2>1 DEF TypeOK
  <2>3. m_tickled' \in BOOLEAN
    BY Zenon
  <2>4. pc' \in [Thread -> PC] /\ cur' \in [Thread -> Timer] /\ argMs' \in [Thread -> Duration]
    BY AnyInType DEF TypeOK
  <2>5. held' \in SUBSET Timer
    BY DEF TypeOK
  <2> QED BY <2>2, <2>3, <2>4, <2>5 DEF TypeOK
<1>2. CallbackIffQueued'
  BY <1>1 DEF TypeOK, CallbackIffQueued, InsertingInv, Inserting, Entry
<1>3. InsertingInv'
  BY <1>1 DEF TypeOK, CallbackIffQueued, InsertingInv, Entry
<1>4. HistoryInv'
  BY <1>1 DEF TypeOK, CallbackIffQueued, InsertingInv, HistoryInv, Entry
<1>5. StartInPast'
  BY <1>1, ClockAssumption, MsIsNat DEF TypeOK, StartInPast, StallInv
<1>6. StallInv'
  BY <1>1, ClockAssumption DEF TypeOK, StallInv
<1> QED BY <1>1, <1>2, <1>3, <1>4, <1>5, <1>6

\* OnTimerInsertedAtFront preserves the inductive invariant.
LEMMA OnTimerInsertedAtFrontSafe ==
    ASSUME NEW t \in Thread, SafeInv, OnTimerInsertedAtFront(t)
    PROVE  SafeInv'
<1> USE DEF SafeInv, OnTimerInsertedAtFront, objVars, callVars, histVars, Return, Goto
<1>1. TypeOK'
  BY TimerAssumption, DurationAssumption, ClockAssumption, AnyInType, MsIsNat DEF TypeOK
<1>2. CallbackIffQueued'
  BY <1>1 DEF TypeOK, CallbackIffQueued, InsertingInv, Inserting, Entry
<1>3. InsertingInv'
  BY <1>1 DEF TypeOK, CallbackIffQueued, InsertingInv, Entry
<1>4. HistoryInv'
  BY <1>1 DEF TypeOK, CallbackIffQueued, InsertingInv, HistoryInv, Entry
<1>5. StartInPast'
  BY <1>1, ClockAssumption, MsIsNat DEF TypeOK, StartInPast, StallInv
<1>6. StallInv'
  BY <1>1, ClockAssumption DEF TypeOK, StallInv
<1> QED BY <1>1, <1>2, <1>3, <1>4, <1>5, <1>6

\* Reset preserves the inductive invariant.
LEMMA ResetSafe ==
    ASSUME NEW t \in Thread, SafeInv, Reset(t)
    PROVE  SafeInv'
<1> USE DEF SafeInv, Reset, objVars, callVars, histVars, InsertAndUnlock, Return, Goto, Entry, Infinity, ResetStart, Sub64
<1>1. TypeOK'
  <2> DEFINE x == cur[t]
             next == ResetStart(t) + argMs[t]
  <2>1. next \in Nat /\ x \in Timer
    <3>1. m_next[x] \in Nat /\ m_ms[x] \in Nat /\ clock \in Nat /\ argMs[t] \in Nat
      BY CallArgTypes
    <3>2. m_ms[x] <= m_next[x]
      BY DEF TypeOK, StartInPast
    <3> QED BY <3>1, <3>2 DEF TypeOK
  <2>2. m_timers' \in SUBSET (Nat \X Timer)
    <3>1. m_timers' = (m_timers \ {Entry(x)}) \cup {<<next, x>>}
      OBVIOUS
    <3> HIDE DEF next
    <3> QED BY <2>1, <3>1 DEF TypeOK
  <2>3. m_tickled' \in BOOLEAN
    BY Zenon
  <2>4. pc' \in [Thread -> PC] /\ cur' \in [Thread -> Timer] /\ argMs' \in [Thread -> Duration]
    BY AnyInType DEF TypeOK
  <2>5. held' \in SUBSET Timer
    BY DEF TypeOK
  <2>6. m_next' \in [Timer -> Nat] /\ m_ms' \in [Timer -> Duration \cup {0}]
    <3>1. m_next' = [m_next EXCEPT ![x] = next] /\ m_ms' = [m_ms EXCEPT ![x] = argMs[t]]
      OBVIOUS
    <3> HIDE DEF next
    <3> QED BY <2>1, <3>1 DEF TypeOK
  <2> QED BY <2>2, <2>3, <2>4, <2>5, <2>6 DEF TypeOK
<1>2. CallbackIffQueued'
  BY <1>1 DEF TypeOK, CallbackIffQueued, InsertingInv, Inserting, Entry
<1>3. InsertingInv'
  BY <1>1 DEF TypeOK, CallbackIffQueued, InsertingInv, Entry
<1>4. HistoryInv'
  BY <1>1 DEF TypeOK, CallbackIffQueued, InsertingInv, HistoryInv, Entry
<1>5. StartInPast'
  <2>1. m_next[cur[t]] \in Nat /\ m_ms[cur[t]] \in Nat /\ clock \in Nat /\ argMs[t] \in Nat
        /\ cur[t] \in Timer
    BY CallArgTypes
  <2>2. ResetStart(t) \in Nat /\ ResetStart(t) <= clock
    BY <2>1 DEF StartInPast
  <2>3. m_ms' = [m_ms EXCEPT ![cur[t]] = argMs[t]]
        /\ m_next' = [m_next EXCEPT ![cur[t]] = ResetStart(t) + argMs[t]]
        /\ clock' = clock
    OBVIOUS
  <2> HIDE DEF ResetStart
  <2> QED BY <2>1, <2>2, <2>3 DEF TypeOK, StartInPast
<1>6. StallInv'
  BY <1>1, ClockAssumption DEF TypeOK, StallInv
<1> QED BY <1>1, <1>2, <1>3, <1>4, <1>5, <1>6

\* ResetFails preserves the inductive invariant.
LEMMA ResetFailsSafe ==
    ASSUME NEW t \in Thread, SafeInv, ResetFails(t)
    PROVE  SafeInv'
<1> USE DEF SafeInv, ResetFails, objVars, callVars, histVars, Return, Goto
<1>1. TypeOK'
  BY TimerAssumption, DurationAssumption, ClockAssumption, AnyInType, MsIsNat DEF TypeOK
<1>2. CallbackIffQueued'
  BY <1>1 DEF TypeOK, CallbackIffQueued, InsertingInv, Inserting, Entry
<1>3. InsertingInv'
  BY <1>1 DEF TypeOK, CallbackIffQueued, InsertingInv, Entry
<1>4. HistoryInv'
  BY <1>1 DEF TypeOK, CallbackIffQueued, InsertingInv, HistoryInv, Entry
<1>5. StartInPast'
  BY <1>1, ClockAssumption, MsIsNat DEF TypeOK, StartInPast, StallInv
<1>6. StallInv'
  BY <1>1, ClockAssumption DEF TypeOK, StallInv
<1> QED BY <1>1, <1>2, <1>3, <1>4, <1>5, <1>6

\* GetNextTimer preserves the inductive invariant.
LEMMA GetNextTimerSafe ==
    ASSUME NEW t \in Thread, SafeInv, GetNextTimer(t)
    PROVE  SafeInv'
<1> USE DEF SafeInv, GetNextTimer, objVars, callVars, histVars
<1>1. TypeOK'
  <2>1. First(m_timers) \in Nat
    <3>1. CASE m_timers = {}
      BY <3>1, InfinityIsLate DEF First
    <3>2. CASE m_timers # {}
      BY <3>2, FirstIsLeast DEF TypeOK
    <3> QED BY <3>1, <3>2
  <2> QED BY <2>1 DEF TypeOK
<1>2. CallbackIffQueued'
  BY <1>1 DEF TypeOK, CallbackIffQueued, InsertingInv, Inserting, Entry
<1>3. InsertingInv'
  BY <1>1 DEF TypeOK, CallbackIffQueued, InsertingInv, Entry
<1>4. HistoryInv'
  BY <1>1 DEF TypeOK, CallbackIffQueued, InsertingInv, HistoryInv, Entry
<1>5. StartInPast'
  BY <1>1, ClockAssumption, MsIsNat DEF TypeOK, StartInPast, StallInv
<1>6. StallInv'
  BY <1>1, ClockAssumption DEF TypeOK, StallInv
<1> QED BY <1>1, <1>2, <1>3, <1>4, <1>5, <1>6

\* ListExpiredBegin preserves the inductive invariant.
LEMMA ListExpiredBeginSafe ==
    ASSUME NEW t \in Thread, SafeInv, ListExpiredBegin(t)
    PROVE  SafeInv'
<1> USE DEF SafeInv, ListExpiredBegin, objVars, callVars, histVars, Goto
<1>1. TypeOK'
  BY TimerAssumption, DurationAssumption, ClockAssumption, AnyInType, MsIsNat DEF TypeOK
<1>2. CallbackIffQueued'
  BY <1>1 DEF TypeOK, CallbackIffQueued, InsertingInv, Inserting, Entry
<1>3. InsertingInv'
  BY <1>1 DEF TypeOK, CallbackIffQueued, InsertingInv, Entry
<1>4. HistoryInv'
  BY <1>1 DEF TypeOK, CallbackIffQueued, InsertingInv, HistoryInv, Entry
<1>5. StartInPast'
  BY <1>1, ClockAssumption, MsIsNat DEF TypeOK, StartInPast, StallInv
<1>6. StallInv'
  BY <1>1, ClockAssumption DEF TypeOK, StallInv
<1> QED BY <1>1, <1>2, <1>3, <1>4, <1>5, <1>6

\* ListExpiredPeek preserves the inductive invariant.
LEMMA ListExpiredPeekSafe ==
    ASSUME NEW t \in Thread, SafeInv, ListExpiredPeek(t)
    PROVE  SafeInv'
<1> USE DEF SafeInv, ListExpiredPeek, objVars, callVars, histVars, Goto
<1>1. TypeOK'
  BY TimerAssumption, DurationAssumption, ClockAssumption, AnyInType, MsIsNat DEF TypeOK
<1>2. CallbackIffQueued'
  BY <1>1 DEF TypeOK, CallbackIffQueued, InsertingInv, Inserting, Entry
<1>3. InsertingInv'
  BY <1>1 DEF TypeOK, CallbackIffQueued, InsertingInv, Entry
<1>4. HistoryInv'
  BY <1>1 DEF TypeOK, CallbackIffQueued, InsertingInv, HistoryInv, Entry
<1>5. StartInPast'
  BY <1>1, ClockAssumption, MsIsNat DEF TypeOK, StartInPast, StallInv
<1>6. StallInv'
  BY <1>1, ClockAssumption DEF TypeOK, StallInv
<1> QED BY <1>1, <1>2, <1>3, <1>4, <1>5, <1>6

\* ListExpiredCb preserves the inductive invariant.
LEMMA ListExpiredCbSafe ==
    ASSUME NEW t \in Thread, SafeInv, ListExpiredCb(t)
    PROVE  SafeInv'
<1> USE DEF SafeInv, ListExpiredCb, objVars, callVars, histVars, Goto, Expired
<1>1. TypeOK'
  <2> DEFINE now     == nowMs[t]
             expired == {e[2] : e \in Expired(now)}
             again   == {x \in expired : m_recurring[x]}
  <2>1. CASE m_timers = {}
    BY <2>1 DEF TypeOK
  <2>2. CASE m_timers # {}
    <3>1. now \in Nat /\ expired \subseteq Timer /\ again \subseteq Timer
      BY DEF TypeOK
    <3>2. \A x \in Timer : now + m_ms[x] \in Nat
      BY <3>1, MsIsNat
    <3>3. m_timers' = (m_timers \ Expired(now)) \cup {<<now + m_ms[x], x>> : x \in again}
          /\ m_next' = [x \in Timer |-> IF x \in again THEN now + m_ms[x] ELSE m_next[x]]
          /\ m_cb' = [x \in Timer |-> m_cb[x] /\ (x \in expired => x \in again)]
          /\ cbs' = [cbs EXCEPT ![t] = expired] /\ listed' = listed \cup expired
          /\ m_previouseTime' = now
      BY <2>2
    <3> HIDE DEF now, expired, again
    <3>4. m_timers' \in SUBSET (Nat \X Timer)
      BY <3>1, <3>2, <3>3 DEF TypeOK
    <3>5. m_next' \in [Timer -> Nat]
      BY <3>1, <3>2, <3>3 DEF TypeOK
    <3>6. m_cb' \in [Timer -> BOOLEAN]
      BY <3>3, Zenon
    <3>7. cbs' \in [Thread -> SUBSET Timer] /\ listed' \in SUBSET Timer
      BY <3>1, <3>3 DEF TypeOK
    <3>8. pc' \in [Thread -> PC] /\ nowMs' \in [Thread -> Nat]
      BY DEF TypeOK
    <3> QED BY <3>1, <3>3, <3>4, <3>5, <3>6, <3>7, <3>8 DEF TypeOK
  <2> QED BY <2>1, <2>2
<1>2. CallbackIffQueued'
  BY <1>1 DEF TypeOK, CallbackIffQueued, InsertingInv, Inserting, Entry
<1>3. InsertingInv'
  BY <1>1 DEF TypeOK, CallbackIffQueued, InsertingInv, Entry
<1>4. HistoryInv'
  BY <1>1 DEF TypeOK, CallbackIffQueued, InsertingInv, HistoryInv, Entry
<1>5. StartInPast'
  BY <1>1, ClockAssumption, MsIsNat DEF TypeOK, StartInPast, StallInv
<1>6. StallInv'
  BY <1>1, ClockAssumption DEF TypeOK, StallInv
<1> QED BY <1>1, <1>2, <1>3, <1>4, <1>5, <1>6

\* TakeCbs preserves the inductive invariant.
LEMMA TakeCbsSafe ==
    ASSUME NEW t \in Thread, SafeInv, TakeCbs(t)
    PROVE  SafeInv'
<1> USE DEF SafeInv, TakeCbs, objVars, callVars, histVars, Goto
<1>1. TypeOK'
  BY TimerAssumption, DurationAssumption, ClockAssumption, AnyInType, MsIsNat DEF TypeOK
<1>2. CallbackIffQueued'
  BY <1>1 DEF TypeOK, CallbackIffQueued, InsertingInv, Inserting, Entry
<1>3. InsertingInv'
  BY <1>1 DEF TypeOK, CallbackIffQueued, InsertingInv, Entry
<1>4. HistoryInv'
  BY <1>1 DEF TypeOK, CallbackIffQueued, InsertingInv, HistoryInv, Entry
<1>5. StartInPast'
  BY <1>1, ClockAssumption, MsIsNat DEF TypeOK, StartInPast, StallInv
<1>6. StallInv'
  BY <1>1, ClockAssumption DEF TypeOK, StallInv
<1> QED BY <1>1, <1>2, <1>3, <1>4, <1>5, <1>6

\* Cancel preserves the inductive invariant.
LEMMA CancelSafe ==
    ASSUME NEW t \in Thread, NEW x \in Timer, SafeInv, Cancel(t, x)
    PROVE  SafeInv'
<1> USE DEF SafeInv, Cancel, objVars, callVars, histVars
<1>1. TypeOK'
  BY TimerAssumption, DurationAssumption, ClockAssumption, AnyInType, MsIsNat DEF TypeOK
<1>2. CallbackIffQueued'
  BY <1>1 DEF TypeOK, CallbackIffQueued, InsertingInv, Inserting, Entry
<1>3. InsertingInv'
  BY <1>1 DEF TypeOK, CallbackIffQueued, InsertingInv, Entry
<1>4. HistoryInv'
  BY <1>1 DEF TypeOK, CallbackIffQueued, InsertingInv, HistoryInv, Entry
<1>5. StartInPast'
  BY <1>1, ClockAssumption, MsIsNat DEF TypeOK, StartInPast, StallInv
<1>6. StallInv'
  BY <1>1, ClockAssumption DEF TypeOK, StallInv
<1> QED BY <1>1, <1>2, <1>3, <1>4, <1>5, <1>6

\* Refresh preserves the inductive invariant.
LEMMA RefreshSafe ==
    ASSUME NEW t \in Thread, NEW x \in Timer, SafeInv, Refresh(t, x)
    PROVE  SafeInv'
<1> USE DEF SafeInv, Refresh, objVars, callVars, histVars
<1>1. TypeOK'
  BY TimerAssumption, DurationAssumption, ClockAssumption, AnyInType, MsIsNat DEF TypeOK
<1>2. CallbackIffQueued'
  BY <1>1 DEF TypeOK, CallbackIffQueued, InsertingInv, Inserting, Entry
<1>3. InsertingInv'
  BY <1>1 DEF TypeOK, CallbackIffQueued, InsertingInv, Entry
<1>4. HistoryInv'
  BY <1>1 DEF TypeOK, CallbackIffQueued, InsertingInv, HistoryInv, Entry
<1>5. StartInPast'
  BY <1>1, ClockAssumption, MsIsNat DEF TypeOK, StartInPast, StallInv
<1>6. StallInv'
  BY <1>1, ClockAssumption DEF TypeOK, StallInv
<1> QED BY <1>1, <1>2, <1>3, <1>4, <1>5, <1>6

\* NewTimer preserves the inductive invariant.
LEMMA NewTimerSafe ==
    ASSUME NEW t \in Thread, NEW x \in Timer, NEW ms \in Duration, NEW b \in BOOLEAN,
           SafeInv, NewTimer(t, x, ms, b)
    PROVE  SafeInv'
<1> USE DEF SafeInv, NewTimer, objVars, callVars, histVars, Goto, Fresh
<1>1. TypeOK'
  BY TimerAssumption, DurationAssumption, ClockAssumption, AnyInType, MsIsNat DEF TypeOK
<1>2. CallbackIffQueued'
  BY <1>1 DEF TypeOK, CallbackIffQueued, InsertingInv, Inserting, Entry
<1>3. InsertingInv'
  <2>1. \A e \in m_timers : e[2] # x
    BY DEF TypeOK, CallbackIffQueued
  <2>2. x \notin held /\ x \notin listed /\ x \notin cancelled
    BY DEF HistoryInv
  <2>3. \A u \in Thread : pc'[u] = IF u = t THEN "insert" ELSE pc[u]
    BY DEF TypeOK
  <2>4. \A u \in Thread : cur'[u] = IF u = t THEN x ELSE cur[u]
    BY DEF TypeOK
  <2>5. \A y \in Timer : m_cb'[y] = IF y = x THEN TRUE ELSE m_cb[y]
    BY DEF TypeOK
  <2>6. \A u \in Thread : pc[u] # "idle" => cur[u] # x
    OBVIOUS
  <2>7. \A u \in Thread : pc'[u] = "insert" =>
          /\ m_cb'[cur'[u]]
          /\ cur'[u] \notin held /\ cur'[u] \notin listed /\ cur'[u] \notin cancelled
          /\ \A e \in m_timers : e[2] # cur'[u]
    BY <2>1, <2>2, <2>3, <2>4, <2>5 DEF TypeOK, InsertingInv
  <2>8. \A u, v \in Thread :
          pc'[u] = "insert" /\ pc'[v] \in {"insert", "resetNow", "resetKeep", "front"}
            /\ cur'[u] = cur'[v] => u = v
    BY <2>3, <2>4, <2>6 DEF InsertingInv
  <2>9. \A u \in Thread : pc'[u] \in {"resetNow", "resetKeep"} => cur'[u] \in held
    BY <2>3, <2>4 DEF InsertingInv
  <2> QED BY <2>7, <2>8, <2>9 DEF InsertingInv
<1>4. HistoryInv'
  BY <1>1 DEF TypeOK, CallbackIffQueued, InsertingInv, HistoryInv, Entry
<1>5. StartInPast'
  <2>1. ms \in Nat /\ clock \in Nat
    BY DurationAssumption, ClockAssumption DEF TypeOK
  <2> QED BY <2>1, MsIsNat DEF TypeOK, StartInPast
<1>6. StallInv'
  BY <1>1, ClockAssumption DEF TypeOK, StallInv
<1> QED BY <1>1, <1>2, <1>3, <1>4, <1>5, <1>6

\* ResetCheck preserves the inductive invariant.
LEMMA ResetCheckSafe ==
    ASSUME NEW t \in Thread, NEW x \in Timer, NEW ms \in Duration, NEW b \in BOOLEAN,
           SafeInv, ResetCheck(t, x, ms, b)
    PROVE  SafeInv'
<1> USE DEF SafeInv, ResetCheck, objVars, callVars, histVars, Goto
<1>1. TypeOK'
  BY TimerAssumption, DurationAssumption, ClockAssumption, AnyInType, MsIsNat DEF TypeOK
<1>2. CallbackIffQueued'
  BY <1>1 DEF TypeOK, CallbackIffQueued, InsertingInv, Inserting, Entry
<1>3. InsertingInv'
  BY <1>1 DEF TypeOK, CallbackIffQueued, InsertingInv, Entry
<1>4. HistoryInv'
  BY <1>1 DEF TypeOK, CallbackIffQueued, InsertingInv, HistoryInv, Entry
<1>5. StartInPast'
  BY <1>1, ClockAssumption, MsIsNat DEF TypeOK, StartInPast, StallInv
<1>6. StallInv'
  BY <1>1, ClockAssumption DEF TypeOK, StallInv
<1> QED BY <1>1, <1>2, <1>3, <1>4, <1>5, <1>6

-----------------------------------------------------------------------------
(* The invariant holds in every state.                                     *)

\* The initial state satisfies the invariant.
LEMMA InitSafe == Init => SafeInv
<1> SUFFICES ASSUME Init PROVE SafeInv
  OBVIOUS
<1> USE DEF Init
<1>1. TypeOK
  <2>1. clock \in StartClock..MaxClock /\ lastPlan \in Nat /\ m_previouseTime \in Nat
    BY InfinityIsLate, ClockAssumption
  <2>2. cur \in [Thread -> Timer] /\ argMs \in [Thread -> Duration]
    BY AnyInType
  <2>3. m_ms \in [Timer -> Duration \cup {0}] /\ m_next \in [Timer -> Nat]
        /\ nowMs \in [Thread -> Nat]
    OBVIOUS
  <2>4. m_recurring \in [Timer -> BOOLEAN] /\ m_cb \in [Timer -> BOOLEAN] /\ m_tickled \in BOOLEAN
    OBVIOUS
  <2>5. pc \in [Thread -> PC] /\ cbs \in [Thread -> SUBSET Timer]
        /\ m_timers \in SUBSET (Nat \X Timer)
    OBVIOUS
  <2> QED BY <2>1, <2>2, <2>3, <2>4, <2>5 DEF TypeOK
<1>2. CallbackIffQueued /\ InsertingInv /\ HistoryInv
  BY DEF CallbackIffQueued, InsertingInv, HistoryInv
<1>3. StartInPast /\ StallInv
  BY ClockAssumption DEF StartInPast, StallInv
<1> QED BY <1>1, <1>2, <1>3 DEF SafeInv

\* Every step of the manager, of any thread, preserves the invariant.
LEMMA NextSafe == SafeInv /\ [Next]_vars => SafeInv'
<1> SUFFICES ASSUME SafeInv, [Next]_vars PROVE SafeInv'
  OBVIOUS
<1>1. CASE UNCHANGED vars
  BY <1>1 DEF vars, objVars, callVars, histVars, SafeInv, TypeOK, CallbackIffQueued,
     Inserting, Entry, InsertingInv, HistoryInv, StartInPast, StallInv
<1>2. CASE Tick
  BY <1>2, TickSafe
<1>3. ASSUME NEW t \in Thread,
             \/ AddTimer(t) \/ OnTimerInsertedAtFront(t) \/ Reset(t) \/ ResetFails(t)
             \/ GetNextTimer(t) \/ ListExpiredBegin(t) \/ ListExpiredPeek(t)
             \/ ListExpiredCb(t) \/ TakeCbs(t)
      PROVE  SafeInv'
  BY <1>3, AddTimerSafe, OnTimerInsertedAtFrontSafe, ResetSafe, ResetFailsSafe,
     GetNextTimerSafe, ListExpiredBeginSafe, ListExpiredPeekSafe, ListExpiredCbSafe,
     TakeCbsSafe
<1>4. ASSUME NEW t \in Thread, NEW x \in Timer, Cancel(t, x) \/ Refresh(t, x)
      PROVE  SafeInv'
  BY <1>4, CancelSafe, RefreshSafe
<1>5. ASSUME NEW t \in Thread, NEW x \in Timer, NEW ms \in Duration, NEW b \in BOOLEAN,
             NewTimer(t, x, ms, b) \/ ResetCheck(t, x, ms, b)
      PROVE  SafeInv'
  BY <1>5, NewTimerSafe, ResetCheckSafe
<1> QED BY <1>1, <1>2, <1>3, <1>4, <1>5 DEF Next

\* The inductive invariant holds throughout.
THEOREM SafeInvHolds == Spec => []SafeInv
BY InitSafe, NextSafe, PTL DEF Spec

\* The manager's variables keep their types: no uint64_t addition overflows.
THEOREM TypeCorrect == Spec => []TypeOK
<1>1. SafeInv => TypeOK
  BY DEF SafeInv
<1> QED BY <1>1, SafeInvHolds, PTL

\* Timer::cancel's erase(find(..)) always finds the timer: a callback is
\* present exactly while the timer is in the set under its current deadline.
THEOREM CallbackIffQueuedHolds == Spec => []CallbackIffQueued
<1>1. SafeInv => CallbackIffQueued
  BY DEF SafeInv
<1> QED BY <1>1, SafeInvHolds, PTL

\* reset's m_next - m_ms never wraps and no timer counts from the future.
THEOREM StartInPastHolds == Spec => []StartInPast
<1>1. SafeInv => StartInPast
  BY DEF SafeInv
<1> QED BY <1>1, SafeInvHolds, PTL

-----------------------------------------------------------------------------
(* What listExpiredCb may list.                                            *)

\* Only the second critical section of listExpiredCb adds callbacks, and
\* exactly those of the timers it takes out of the set.
LEMMA ListedAreExpired ==
    ASSUME SafeInv, [Next]_vars, NEW t \in Thread, NEW x \in NewlyListed(t)
    PROVE  /\ ListExpiredCb(t)
           /\ m_timers # {}
           /\ Entry(x) \in Expired(nowMs[t]) /\ x \in Timer /\ m_cb[x]
<1>1. cbs'[t] # cbs[t] /\ x \in cbs'[t] /\ x \notin cbs[t]
  BY DEF NewlyListed
<1>2. \E u \in Thread : ListExpiredCb(u) \/ TakeCbs(u)
  <2>1. UNCHANGED vars \/ Tick => cbs' = cbs
    BY DEF vars, callVars, Tick
  <2>2. \A u \in Thread :
          (\/ AddTimer(u) \/ OnTimerInsertedAtFront(u) \/ Reset(u) \/ ResetFails(u)
           \/ GetNextTimer(u) \/ ListExpiredBegin(u) \/ ListExpiredPeek(u)) => cbs' = cbs
    BY DEF callVars, AddTimer, OnTimerInsertedAtFront, Reset, ResetFails, GetNextTimer,
       ListExpiredBegin, ListExpiredPeek
  <2>3. \A u \in Thread, y \in Timer : Cancel(u, y) \/ Refresh(u, y) => cbs' = cbs
    BY DEF callVars, Cancel, Refresh
  <2>4. \A u \in Thread, y \in Timer, ms \in Duration, b \in BOOLEAN :
          NewTimer(u, y, ms, b) \/ ResetCheck(u, y, ms, b) => cbs' = cbs
    BY DEF NewTimer, ResetCheck
  <2>5. cbs' # cbs
    BY <1>1
  <2>6. Next /\ ~ Tick
    BY <2>1, <2>5
  <2> QED BY <2>2, <2>3, <2>4, <2>5, <2>6, Zenon DEF Next
<1>3. PICK u \in Thread : ListExpiredCb(u) \/ TakeCbs(u)
  BY <1>2
<1>4. cbs \in [Thread -> SUBSET Timer]
  BY DEF SafeInv, TypeOK
<1>5. ~ TakeCbs(u)
  BY <1>1, <1>4 DEF TakeCbs
<1>6. ListExpiredCb(u) /\ m_timers # {}
  BY <1>1, <1>3, <1>5 DEF ListExpiredCb
<1>7. cbs' = [cbs EXCEPT ![u] = {e[2] : e \in Expired(nowMs[u])}]
  BY <1>6 DEF ListExpiredCb
<1>8. u = t /\ x \in {e[2] : e \in Expired(nowMs[t])}
  BY <1>1, <1>4, <1>7
<1>9. PICK e \in Expired(nowMs[t]) : e[2] = x
  BY <1>8
<1>10. e \in m_timers /\ e[2] \in Timer
  BY <1>9 DEF Expired, SafeInv, TypeOK
<1>11. m_cb[x] /\ e = Entry(x)
  BY <1>9, <1>10 DEF SafeInv, CallbackIffQueued
<1> QED BY <1>6, <1>8, <1>9, <1>10, <1>11

\* A cancelled timer is never listed again and a one-shot timer is listed at
\* most once, for any number of threads polling and cancelling.
THEOREM ListedOnceHolds == Spec => ListedOnce
<1>1. ASSUME SafeInv, [Next]_vars, NEW t \in Thread, NEW x \in NewlyListed(t)
      PROVE  x \notin cancelled /\ (m_recurring[x] \/ x \notin listed)
  BY <1>1, ListedAreExpired DEF SafeInv, HistoryInv
<1>2. SafeInv /\ [Next]_vars =>
        [\A t \in Thread : \A x \in NewlyListed(t) :
           x \notin cancelled /\ (m_recurring[x] \/ x \notin listed)]_vars
  BY <1>1
<1> QED BY <1>2, SafeInvHolds, PTL DEF Spec, ListedOnce

\* If the machine had been up for an hour when the manager was constructed,
\* a thread's stale nowMs is never taken for a clock rollover.
LEMMA NoFalseRollover ==
    ASSUME StartClock >= HOUR, SafeInv, NEW t \in Thread, pc[t] = "list2"
    PROVE  ~ DetectClockRollover(nowMs[t])
<1>1. nowMs[t] \in Nat /\ m_previouseTime \in Nat /\ clock \in Nat
  BY ClockAssumption DEF SafeInv, TypeOK
<1>2. m_previouseTime <= clock /\ StartClock <= m_previouseTime
      /\ clock - nowMs[t] <= MaxStall
  BY DEF SafeInv, StallInv
<1> QED BY <1>1, <1>2, ClockAssumption DEF DetectClockRollover, Sub64

\* Under that condition no callback is listed before its deadline.
THEOREM NoEarlyFireHolds == StartClock >= HOUR => (Spec => NoEarlyFire)
<1> SUFFICES ASSUME StartClock >= HOUR PROVE Spec => NoEarlyFire
  OBVIOUS
<1>1. ASSUME SafeInv, [Next]_vars, NEW t \in Thread, NEW x \in NewlyListed(t)
      PROVE  m_next[x] <= clock
  <2>1. pc[t] = "list2" /\ Entry(x) \in Expired(nowMs[t]) /\ x \in Timer
    BY <1>1, ListedAreExpired DEF ListExpiredCb
  <2>2. Entry(x)[1] <= nowMs[t]
    BY <1>1, <2>1, NoFalseRollover DEF Expired
  <2>3. nowMs[t] <= clock /\ nowMs[t] \in Nat /\ clock \in Nat /\ m_next[x] \in Nat
    BY <1>1, <2>1, ClockAssumption DEF SafeInv, StallInv, TypeOK
  <2> QED BY <2>2, <2>3 DEF Entry
<1>2. SafeInv /\ [Next]_vars =>
        [\A t \in Thread : \A x \in NewlyListed(t) : m_next[x] <= clock]_vars
  BY <1>1
<1> QED BY <1>2, SafeInvHolds, PTL DEF Spec, NoEarlyFire

-----------------------------------------------------------------------------
(* Earlier deadlines are notified.                                         *)

\* No deadline in the set reaches ~0ull.
LEMMA DeadlineBeforeInfinity ==
    ASSUME TypeOK, StartInPast, CallbackIffQueued, NEW e \in m_timers
    PROVE  e[1] \in Nat /\ e[1] <= Infinity
<1>1. e[2] \in Timer /\ e[1] = m_next[e[2]] /\ e[1] \in Nat
  BY DEF TypeOK, CallbackIffQueued, Entry
<1>2. m_ms[e[2]] \in Nat /\ clock \in Nat /\ clock <= MaxClock
  BY <1>1, MsIsNat, ClockAssumption DEF TypeOK
<1>3. e[1] <= MaxClock + m_ms[e[2]]
  BY <1>1, <1>2, ClockAssumption DEF StartInPast
<1>4. m_ms[e[2]] \in Duration \/ m_ms[e[2]] = 0
  BY <1>1 DEF TypeOK
<1>5. MaxClock + m_ms[e[2]] <= Infinity
  <2>1. CASE m_ms[e[2]] = 0
    BY <2>1, InfinityIsLate, ClockAssumption
  <2>2. CASE m_ms[e[2]] \in Duration
    BY <1>2, <2>2, ClockAssumption DEF Infinity
  <2> QED BY <1>4, <2>1, <2>2
<1> QED BY <1>1, <1>2, <1>3, <1>5, InfinityIsLate, ClockAssumption

\* InsertAndUnlock: a new first entry sets m_tickled; any other entry is no
\* earlier than one that was there before.
LEMMA InsertPlan ==
    ASSUME SafeInv, PlanInv, NEW t \in Thread,
           NEW others \in SUBSET m_timers,
           NEW e \in Nat \X Timer,
           InsertAndUnlock(t, e, others), lastPlan' = lastPlan
    PROVE  PlanInv'
<1>1. m_timers' = others \cup {e}
  BY DEF InsertAndUnlock
<1>2. CASE m_tickled
  BY <1>2 DEF InsertAndUnlock, PlanInv, Infinity
<1>3. CASE ~m_tickled /\ IsBegin(e, others \cup {e})
  BY <1>3 DEF InsertAndUnlock, PlanInv, Infinity
<1>4. CASE ~m_tickled /\ ~IsBegin(e, others \cup {e})
  <2>1. PICK f \in others : f # e /\ ~Less(e, f)
    BY <1>4 DEF IsBegin
  <2>2. f \in Nat \X Timer /\ lastPlan <= f[1] /\ lastPlan \in Nat
    BY <1>4, <2>1 DEF PlanInv, SafeInv, TypeOK
  <2>3. f[1] <= e[1]
    BY <2>1, <2>2 DEF Less
  <2>4. \A g \in m_timers' : lastPlan <= g[1]
    BY <1>1, <1>4, <2>2, <2>3 DEF PlanInv
  <2> QED BY <2>4 DEF PlanInv, Infinity
<1> QED BY <1>2, <1>3, <1>4

\* Every step preserves PlanInv when no rollover is misdetected.
LEMMA NextPlan ==
    ASSUME StartClock >= HOUR, SafeInv, PlanInv, [Next]_vars
    PROVE  PlanInv'
<1>1. CASE UNCHANGED vars
  BY <1>1 DEF vars, histVars, PlanInv, Infinity
<1>2. CASE Tick
  BY <1>2 DEF Tick, histVars, PlanInv, Infinity
<1>3. ASSUME NEW t \in Thread, AddTimer(t) PROVE PlanInv'
  <2>1. Entry(cur[t]) \in Nat \X Timer
    BY DEF SafeInv, TypeOK, Entry
  <2> QED BY <1>3, <2>1, InsertPlan DEF AddTimer, histVars
<1>4. ASSUME NEW t \in Thread, Reset(t) PROVE PlanInv'
  <2>1. /\ InsertAndUnlock(t, <<ResetStart(t) + argMs[t], cur[t]>>, m_timers \ {Entry(cur[t])})
        /\ lastPlan' = lastPlan
    BY <1>4 DEF Reset, histVars
  <2>2. ResetStart(t) \in Nat
    <3>1. cur[t] \in Timer /\ m_ms[cur[t]] <= m_next[cur[t]]
      BY DEF SafeInv, TypeOK, StartInPast
    <3> QED BY <3>1, CallArgTypes DEF SafeInv, ResetStart, Sub64
  <2>3. <<ResetStart(t) + argMs[t], cur[t]>> \in Nat \X Timer
    BY <2>2, CallArgTypes DEF SafeInv
  <2> QED BY <2>1, <2>3, InsertPlan
<1>5. ASSUME NEW t \in Thread, GetNextTimer(t) PROVE PlanInv'
  <2>1. CASE m_timers = {}
    BY <1>5, <2>1, InfinityIsLate DEF GetNextTimer, PlanInv, First, Infinity
  <2>2. CASE m_timers # {}
    <3>1. /\ \E e \in m_timers : First(m_timers) = e[1]
          /\ \A e \in m_timers : First(m_timers) <= e[1]
      BY <2>2, FirstIsLeast DEF SafeInv, TypeOK
    <3>2. First(m_timers) <= Infinity
      BY <3>1, DeadlineBeforeInfinity DEF SafeInv
    <3> QED BY <1>5, <3>1, <3>2 DEF GetNextTimer, PlanInv, Infinity
  <2> QED BY <2>1, <2>2
<1>6. ASSUME NEW t \in Thread, ListExpiredCb(t) PROVE PlanInv'
  <2>1. CASE m_timers = {}
    BY <1>6, <2>1 DEF ListExpiredCb, PlanInv, Infinity
  <2>2. CASE m_timers # {}
    <3>1. ~DetectClockRollover(nowMs[t])
      BY <1>6, NoFalseRollover DEF ListExpiredCb
    <3>2. lastPlan' = lastPlan /\ m_tickled' = m_tickled
      BY <1>6 DEF ListExpiredCb
    <3>3. ASSUME ~m_tickled, NEW e \in m_timers' PROVE lastPlan <= e[1]
      <4>1. e \in m_timers \/ \E f \in Expired(nowMs[t]) :
                                  e = <<nowMs[t] + m_ms[f[2]], f[2]>>
        BY <1>6, <2>2, <3>3 DEF ListExpiredCb
      <4>2. CASE e \in m_timers
        BY <3>3, <4>2 DEF PlanInv
      <4>3. ASSUME NEW f \in Expired(nowMs[t]), e = <<nowMs[t] + m_ms[f[2]], f[2]>>
            PROVE  lastPlan <= e[1]
        <5>1. f \in m_timers /\ f[1] <= nowMs[t]
          BY <3>1 DEF Expired
        <5>2. f[1] \in Nat /\ f[2] \in Timer /\ nowMs[t] \in Nat /\ lastPlan \in Nat
          BY <5>1 DEF SafeInv, TypeOK
        <5>3. m_ms[f[2]] \in Nat
          BY <5>2, MsIsNat DEF SafeInv
        <5>4. lastPlan <= f[1]
          BY <3>3, <5>1 DEF PlanInv
        <5> QED BY <4>3, <5>1, <5>2, <5>3, <5>4
      <4> QED BY <4>1, <4>2, <4>3
    <3> QED BY <3>2, <3>3 DEF PlanInv, Infinity
  <2> QED BY <2>1, <2>2
<1>7. ASSUME NEW t \in Thread, NEW x \in Timer, Refresh(t, x) PROVE PlanInv'
  <2>1. Entry(x) \in m_timers /\ m_tickled' = m_tickled /\ lastPlan' = lastPlan
        /\ m_timers' = (m_timers \ {Entry(x)}) \cup {<<clock + m_ms[x], x>>}
    BY <1>7 DEF Refresh, histVars
  <2>2. m_next[x] \in Nat /\ m_ms[x] \in Nat /\ clock \in Nat /\ lastPlan \in Nat
    BY MsIsNat, ClockAssumption DEF SafeInv, TypeOK
  <2>3. m_next[x] <= clock + m_ms[x]
    BY <2>2 DEF SafeInv, StartInPast
  <2>4. ~m_tickled => lastPlan <= m_next[x]
    BY <2>1 DEF PlanInv, Entry
  <2> QED BY <2>1, <2>2, <2>3, <2>4 DEF PlanInv, Infinity
<1>8. ASSUME NEW t \in Thread, NEW x \in Timer, Cancel(t, x) PROVE PlanInv'
  BY <1>8 DEF Cancel, PlanInv, Infinity
<1>9. ASSUME NEW t \in Thread, NEW x \in Timer, NEW ms \in Duration, NEW b \in BOOLEAN,
             NewTimer(t, x, ms, b) \/ ResetCheck(t, x, ms, b)
      PROVE  PlanInv'
  BY <1>9 DEF NewTimer, ResetCheck, histVars, PlanInv, Infinity
<1>10. ASSUME NEW t \in Thread,
              \/ OnTimerInsertedAtFront(t) \/ ResetFails(t) \/ ListExpiredBegin(t)
              \/ ListExpiredPeek(t) \/ TakeCbs(t)
       PROVE  PlanInv'
  BY <1>10 DEF OnTimerInsertedAtFront, ResetFails, ListExpiredBegin, ListExpiredPeek,
     TakeCbs, histVars, PlanInv, Infinity
<1> QED BY <1>1, <1>2, <1>3, <1>4, <1>5, <1>6, <1>7, <1>8, <1>9, <1>10 DEF Next

\* Whenever the set holds a deadline earlier than the last getNextTimer
\* reported, m_tickled says that a notification was issued: neither refresh
\* nor the recurring re-insertion can slip an earlier deadline in silently.
THEOREM EarlierDeadlineNotifiedHolds ==
    StartClock >= HOUR => (Spec => []EarlierDeadlineNotified)
<1> SUFFICES ASSUME StartClock >= HOUR PROVE Spec => []EarlierDeadlineNotified
  OBVIOUS
<1>1. Init => PlanInv
  BY InfinityIsLate DEF Init, PlanInv
<1>2. SafeInv /\ PlanInv /\ [Next]_vars => PlanInv'
  BY NextPlan
<1>3. SafeInv /\ PlanInv => EarlierDeadlineNotified
  <2> SUFFICES ASSUME SafeInv, PlanInv, ~m_tickled PROVE ~(First(m_timers) < lastPlan)
    BY DEF EarlierDeadlineNotified
  <2>1. CASE m_timers = {}
    BY <2>1, InfinityIsLate DEF First, PlanInv, SafeInv, TypeOK
  <2>2. CASE m_timers # {}
    <3>1. PICK e \in m_timers : First(m_timers) = e[1] /\ First(m_timers) \in Nat
      BY <2>2, FirstIsLeast DEF SafeInv, TypeOK
    <3> QED BY <3>1 DEF PlanInv, SafeInv, TypeOK
  <2> QED BY <2>1, <2>2
<1> QED BY <1>1, <1>2, <1>3, SafeInvHolds, PTL DEF Spec
=============================================================================
