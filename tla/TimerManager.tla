---------------------------- MODULE TimerManager ----------------------------
(***************************************************************************)
(* TimerManager and Timer (src/timer/timer.cc, src/timer/include/timer.h). *)
(*                                                                         *)
(* Threads call addTimer, cancel, refresh, reset, getNextTimer and         *)
(* listExpiredCb concurrently.  A critical section under m_mutex is one    *)
(* step; what the code does outside the mutex (the clock read in the Timer *)
(* constructor and at the top of listExpiredCb, the unlocked check of      *)
(* reset, the call of onTimerInsertedAtFront after the unlock) is a step   *)
(* of its own, so that other threads run in between.                       *)
(***************************************************************************)
EXTENDS Integers, FiniteSets

CONSTANTS
    Thread,         \* threads that use the manager
    Timer,          \* Timer objects; a number stands for the object's address
    Duration,       \* the m_ms values callers ask for
    HOUR,           \* 60 * 60 * 1000, the rollover threshold
    Word,           \* 2^64: uint64_t arithmetic is modulo Word
    StartClock,     \* GetElapsedMS() when the manager is constructed
    MaxClock,       \* bound: the clock stops here
    MaxStall        \* bound: longest delay of a thread inside listExpiredCb

ASSUME TimerAssumption == Timer \subseteq Nat /\ Timer # {}
ASSUME DurationAssumption == Duration \subseteq Nat /\ Duration # {}
ASSUME ClockAssumption ==
    /\ HOUR \in Nat \ {0}
    /\ StartClock \in Nat /\ MaxClock \in Nat /\ MaxStall \in Nat
    /\ StartClock <= MaxClock
    /\ MaxStall <= HOUR
    /\ Word \in Nat
    /\ \A d \in Duration : MaxClock + d + HOUR < Word

VARIABLES
    clock,            \* CLOCK_MONOTONIC_RAW in milliseconds
    m_timers,         \* the std::set: entries <<key, timer>>, where key is the
                      \* m_next that placed the timer in the tree
    m_next, m_ms, m_recurring,
    m_cb,             \* m_cb[x]: the callback of x is not null
    m_tickled, m_previouseTime,
    held,             \* timers whose addTimer has returned to its caller
    pc,               \* where each thread is inside a call
    cur,              \* the Timer the call works on
    argMs,            \* the ms argument of reset
    nowMs,            \* the local nowMs of listExpiredCb
    cbs,              \* the vector listExpiredCb filled, not yet scheduled
    lastPlan,         \* history: deadline the last getNextTimer returned
    listed,           \* history: timers whose callback was ever listed
    cancelled         \* history: timers whose cancel() returned true

objVars  == <<m_next, m_ms, m_recurring, m_cb>>
callVars == <<pc, cur, argMs, nowMs, cbs>>
histVars == <<lastPlan, listed, cancelled>>
vars == <<clock, m_timers, objVars, m_tickled, m_previouseTime, held,
          callVars, histVars>>

PC == {"idle", "insert", "resetNow", "resetKeep", "front", "list", "list2", "cbs"}

Infinity == Word - 1                     \* ~0ull, "no timer"
AnyTimer == CHOOSE x \in Timer : TRUE
AnyMs    == CHOOSE d \in Duration : TRUE

\* uint64_t subtraction wraps around.
Sub64(a, b) == IF a >= b THEN a - b ELSE a - b + Word

-----------------------------------------------------------------------------
(* The std::set ordered by Timer::Comparator: m_next first, then address.  *)

Less(e, f) == e[1] < f[1] \/ (e[1] = f[1] /\ e[2] < f[2])

\* *m_timers.begin() == e
IsBegin(e, S) == e \in S /\ \A f \in S : f = e \/ Less(e, f)

\* m_timers.find(shared_from_this()): located through the current m_next.
Entry(x) == <<m_next[x], x>>

\* The first deadline in the set; ~0ull when it is empty.
First(S) == IF S = {} THEN Infinity
            ELSE (CHOOSE e \in S : \A f \in S : e[1] <= f[1])[1]

-----------------------------------------------------------------------------
Init ==
    /\ clock = StartClock
    /\ m_timers = {}
    /\ m_next = [x \in Timer |-> 0]
    /\ m_ms = [x \in Timer |-> 0]
    /\ m_recurring = [x \in Timer |-> FALSE]
    /\ m_cb = [x \in Timer |-> FALSE]
    /\ m_tickled = FALSE
    /\ m_previouseTime = StartClock
    /\ held = {}
    /\ pc = [t \in Thread |-> "idle"]
    /\ cur = [t \in Thread |-> AnyTimer]
    /\ argMs = [t \in Thread |-> AnyMs]
    /\ nowMs = [t \in Thread |-> 0]
    /\ cbs = [t \in Thread |-> {}]
    /\ lastPlan = Infinity
    /\ listed = {}
    /\ cancelled = {}

Goto(t, where) == pc' = [pc EXCEPT ![t] = where]

\* The call of thread t ends; its arguments are dead.
Return(t) ==
    /\ Goto(t, "idle")
    /\ cur' = [cur EXCEPT ![t] = AnyTimer]
    /\ argMs' = [argMs EXCEPT ![t] = AnyMs]

\* The clock advances, but no thread stays inside listExpiredCb for longer
\* than MaxStall between its clock read and its critical section.
Tick ==
    /\ clock < MaxClock
    /\ \A t \in Thread : pc[t] \in {"list", "list2"} => clock - nowMs[t] < MaxStall
    /\ clock' = clock + 1
    /\ UNCHANGED <<m_timers, objVars, m_tickled, m_previouseTime, held,
                   callVars, histVars>>

-----------------------------------------------------------------------------
(* TimerManager::addTimer(ms, cb, recurring) and its locked tail.          *)

\* A Timer object that no one has constructed yet.
Fresh(x) == ~m_cb[x] /\ x \notin held /\ \A t \in Thread : pc[t] # "idle" => cur[t] # x

\* Mutant of NewTimer: the two members get each other's value.
NewTimerSwapped(t, x, ms, recurring) ==
    /\ pc[t] = "idle"
    /\ Fresh(x) /\ x \notin listed
    /\ m_next' = [m_next EXCEPT ![x] = ms]
    /\ m_ms' = [m_ms EXCEPT ![x] = clock + ms]
    /\ m_recurring' = [m_recurring EXCEPT ![x] = recurring]
    /\ m_cb' = [m_cb EXCEPT ![x] = TRUE]
    /\ cur' = [cur EXCEPT ![t] = x]
    /\ Goto(t, "insert")
    /\ UNCHANGED <<clock, m_timers, m_tickled, m_previouseTime, held,
                   argMs, nowMs, cbs, histVars>>

\* The Timer constructor reads the clock before the mutex is taken.
NewTimer(t, x, ms, recurring) ==
    /\ pc[t] = "idle"
    /\ Fresh(x) /\ x \notin listed
    /\ m_next' = [m_next EXCEPT ![x] = clock + ms]
    /\ m_ms' = [m_ms EXCEPT ![x] = ms]
    /\ m_recurring' = [m_recurring EXCEPT ![x] = recurring]
    /\ m_cb' = [m_cb EXCEPT ![x] = TRUE]
    /\ cur' = [cur EXCEPT ![t] = x]
    /\ Goto(t, "insert")
    /\ UNCHANGED <<clock, m_timers, m_tickled, m_previouseTime, held,
                   argMs, nowMs, cbs, histVars>>

\* addTimer(val, lock): insert e, decide about the notification, unlock.
\* `others` is the set without e.
InsertAndUnlock(t, e, others) ==
    LET atFront == IsBegin(e, others \cup {e}) /\ ~m_tickled
    IN  /\ m_timers' = others \cup {e}
        /\ m_tickled' = (m_tickled \/ atFront)
        /\ IF atFront THEN Goto(t, "front") /\ UNCHANGED <<cur, argMs, held>>
           ELSE Return(t) /\ held' = held \cup {e[2]}

AddTimer(t) ==
    /\ pc[t] = "insert"
    /\ InsertAndUnlock(t, Entry(cur[t]), m_timers)
    /\ UNCHANGED <<clock, objVars, m_previouseTime, nowMs, cbs, histVars>>

\* onTimerInsertedAtFront(), called without the mutex; then addTimer returns.
OnTimerInsertedAtFront(t) ==
    /\ pc[t] = "front"
    /\ held' = held \cup {cur[t]}
    /\ Return(t)
    /\ UNCHANGED <<clock, m_timers, objVars, m_tickled, m_previouseTime,
                   nowMs, cbs, histVars>>

-----------------------------------------------------------------------------
(* Operations on a Timer handle.                                           *)

\* Mutant of Cancel: the callback is cleared but the set keeps the timer.
CancelKeepsEntry(t, x) ==
    /\ pc[t] = "idle" /\ x \in held
    /\ m_cb[x]
    /\ m_cb' = [m_cb EXCEPT ![x] = FALSE]
    /\ cancelled' = cancelled \cup {x}
    /\ UNCHANGED <<clock, m_timers, m_next, m_ms, m_recurring, m_tickled,
                   m_previouseTime, held, callVars, lastPlan, listed>>

\* Timer::cancel.  erase(find(..)) has no end() check in the code.
Cancel(t, x) ==
    /\ pc[t] = "idle" /\ x \in held
    /\ m_cb[x]
    /\ m_cb' = [m_cb EXCEPT ![x] = FALSE]
    /\ m_timers' = m_timers \ {Entry(x)}
    /\ cancelled' = cancelled \cup {x}
    /\ UNCHANGED <<clock, m_next, m_ms, m_recurring, m_tickled, m_previouseTime,
                   held, callVars, lastPlan, listed>>

\* Mutant of Refresh: the key changes while the timer is in the set.
RefreshInPlace(t, x) ==
    /\ pc[t] = "idle" /\ x \in held
    /\ m_cb[x] /\ Entry(x) \in m_timers
    /\ m_next' = [m_next EXCEPT ![x] = clock + m_ms[x]]
    /\ UNCHANGED <<clock, m_timers, m_ms, m_recurring, m_cb, m_tickled,
                   m_previouseTime, held, callVars, histVars>>

\* Timer::refresh.  It re-inserts without going through addTimer(val, lock).
Refresh(t, x) ==
    /\ pc[t] = "idle" /\ x \in held
    /\ m_cb[x] /\ Entry(x) \in m_timers
    /\ m_next' = [m_next EXCEPT ![x] = clock + m_ms[x]]
    /\ m_timers' = (m_timers \ {Entry(x)}) \cup {<<clock + m_ms[x], x>>}
    /\ UNCHANGED <<clock, m_ms, m_recurring, m_cb, m_tickled, m_previouseTime,
                   held, callVars, histVars>>

\* Timer::reset up to the lock: the early return reads m_ms without the mutex.
ResetCheck(t, x, ms, fromNow) ==
    /\ pc[t] = "idle" /\ x \in held
    /\ ms # m_ms[x] \/ fromNow
    /\ cur' = [cur EXCEPT ![t] = x]
    /\ argMs' = [argMs EXCEPT ![t] = ms]
    /\ Goto(t, IF fromNow THEN "resetNow" ELSE "resetKeep")
    /\ UNCHANGED <<clock, m_timers, objVars, m_tickled, m_previouseTime, held,
                   nowMs, cbs, histVars>>

\* Mutant of ResetStart: the period is not subtracted.
ResetStartFromDeadline(t) == IF pc[t] = "resetNow" THEN clock ELSE m_next[cur[t]]

\* The start reset counts from.
ResetStart(t) == IF pc[t] = "resetNow" THEN clock
                 ELSE Sub64(m_next[cur[t]], m_ms[cur[t]])

\* Mutant of Reset: it re-inserts without addTimer(val, lock), as refresh does.
ResetUnnoticed(t) ==
    LET x == cur[t]
        next == ResetStart(t) + argMs[t]
    IN  /\ pc[t] \in {"resetNow", "resetKeep"}
        /\ m_cb[x] /\ Entry(x) \in m_timers
        /\ m_ms' = [m_ms EXCEPT ![x] = argMs[t]]
        /\ m_next' = [m_next EXCEPT ![x] = next]
        /\ m_timers' = (m_timers \ {Entry(x)}) \cup {<<next, x>>}
        /\ Return(t)
        /\ UNCHANGED <<clock, m_recurring, m_cb, m_previouseTime, nowMs, cbs,
                       m_tickled, held, histVars>>

\* Timer::reset after the lock.
Reset(t) ==
    LET x == cur[t]
        next == ResetStart(t) + argMs[t]
    IN  /\ pc[t] \in {"resetNow", "resetKeep"}
        /\ m_cb[x] /\ Entry(x) \in m_timers
        /\ m_ms' = [m_ms EXCEPT ![x] = argMs[t]]
        /\ m_next' = [m_next EXCEPT ![x] = next]
        /\ InsertAndUnlock(t, <<next, x>>, m_timers \ {Entry(x)})
        /\ UNCHANGED <<clock, m_recurring, m_cb, m_previouseTime, nowMs, cbs,
                       histVars>>

\* Timer::reset finds the timer cancelled or fired: it returns false.
ResetFails(t) ==
    /\ pc[t] \in {"resetNow", "resetKeep"}
    /\ ~m_cb[cur[t]] \/ Entry(cur[t]) \notin m_timers
    /\ Return(t)
    /\ UNCHANGED <<clock, m_timers, objVars, m_tickled, m_previouseTime, held,
                   nowMs, cbs, histVars>>

-----------------------------------------------------------------------------
(* What the idle loop calls.                                               *)

\* TimerManager::getNextTimer; lastPlan is the deadline the result stands for.
GetNextTimer(t) ==
    /\ pc[t] = "idle"
    /\ m_tickled' = FALSE
    /\ lastPlan' = First(m_timers)
    /\ UNCHANGED <<clock, m_timers, objVars, m_previouseTime, held, callVars,
                   listed, cancelled>>

\* listExpiredCb reads the clock before it takes the mutex.
ListExpiredBegin(t) ==
    /\ pc[t] = "idle"
    /\ nowMs' = [nowMs EXCEPT ![t] = clock]
    /\ Goto(t, "list")
    /\ UNCHANGED <<clock, m_timers, objVars, m_tickled, m_previouseTime, held,
                   cur, argMs, cbs, histVars>>

\* The first locked emptiness check of listExpiredCb; the mutex is dropped.
ListExpiredPeek(t) ==
    /\ pc[t] = "list"
    /\ IF m_timers = {} THEN Goto(t, "idle") /\ nowMs' = [nowMs EXCEPT ![t] = 0]
       ELSE Goto(t, "list2") /\ UNCHANGED nowMs
    /\ UNCHANGED <<clock, m_timers, objVars, m_tickled, m_previouseTime, held,
                   cur, argMs, cbs, histVars>>

\* Mutant of DetectClockRollover: every clock value older than the last one
\* counts, without the hour's tolerance.
DetectAnyStep(now) == now < m_previouseTime

\* detectClockRollover(now)
DetectClockRollover(now) ==
    now < m_previouseTime /\ now < Sub64(m_previouseTime, HOUR)

\* The range [begin, it) that listExpiredCb takes out of the set.
Expired(now) ==
    IF DetectClockRollover(now) THEN m_timers
    ELSE {e \in m_timers : e[1] <= now}

\* Mutant of ListExpiredCb: a recurring timer is put back with its old deadline.
ListExpiredStuck(t) ==
    LET now     == nowMs[t]
        expired == {e[2] : e \in Expired(now)}
        again   == {x \in expired : m_recurring[x]}
    IN  /\ pc[t] = "list2"
        /\ IF m_timers = {}
           THEN UNCHANGED <<m_timers, m_cb, m_previouseTime, cbs, listed>>
           ELSE /\ m_previouseTime' = now
                /\ m_timers' = {e \in m_timers : e \in Expired(now) => e[2] \in again}
                /\ m_cb' = [x \in Timer |-> m_cb[x] /\ (x \in expired => x \in again)]
                /\ cbs' = [cbs EXCEPT ![t] = expired]
                /\ listed' = listed \cup expired
        /\ Goto(t, "cbs")
        /\ nowMs' = [nowMs EXCEPT ![t] = 0]
        /\ UNCHANGED <<clock, m_ms, m_next, m_recurring, m_tickled, held, cur, argMs,
                       lastPlan, cancelled>>

\* The second critical section of listExpiredCb.
ListExpiredCb(t) ==
    LET now     == nowMs[t]
        expired == {e[2] : e \in Expired(now)}
        again   == {x \in expired : m_recurring[x]}
    IN  /\ pc[t] = "list2"
        /\ IF m_timers = {}
           THEN UNCHANGED <<m_timers, m_next, m_cb, m_previouseTime, cbs, listed>>
           ELSE /\ m_previouseTime' = now
                /\ m_timers' = (m_timers \ Expired(now))
                                 \cup {<<now + m_ms[x], x>> : x \in again}
                /\ m_next' = [x \in Timer |-> IF x \in again THEN now + m_ms[x]
                                              ELSE m_next[x]]
                /\ m_cb' = [x \in Timer |-> m_cb[x] /\ (x \in expired => x \in again)]
                /\ cbs' = [cbs EXCEPT ![t] = expired]
                /\ listed' = listed \cup expired
        /\ Goto(t, "cbs")
        /\ nowMs' = [nowMs EXCEPT ![t] = 0]
        /\ UNCHANGED <<clock, m_ms, m_recurring, m_tickled, held, cur, argMs,
                       lastPlan, cancelled>>

\* The caller of listExpiredCb schedules the callbacks and clears its vector.
TakeCbs(t) ==
    /\ pc[t] = "cbs"
    /\ cbs' = [cbs EXCEPT ![t] = {}]
    /\ Goto(t, "idle")
    /\ UNCHANGED <<clock, m_timers, objVars, m_tickled, m_previouseTime, held,
                   cur, argMs, nowMs, histVars>>

-----------------------------------------------------------------------------
Next ==
    \/ Tick
    \/ \E t \in Thread :
        \/ AddTimer(t) \/ OnTimerInsertedAtFront(t)
        \/ Reset(t) \/ ResetFails(t)
        \/ GetNextTimer(t)
        \/ ListExpiredBegin(t) \/ ListExpiredPeek(t) \/ ListExpiredCb(t)
        \/ TakeCbs(t)
        \/ \E x \in Timer :
            \/ Cancel(t, x) \/ Refresh(t, x)
            \/ \E ms \in Duration, b \in BOOLEAN :
                NewTimer(t, x, ms, b) \/ ResetCheck(t, x, ms, b)

Spec == Init /\ [][Next]_vars

\* Fairness: every call runs to its end, and the idle loops keep polling
\* (IOManager::idle calls listExpiredCb after every epoll_wait, which returns
\* after at most MAX_TIMEOUT), and time passes.
Fairness ==
    /\ WF_vars(Tick)
    /\ \A t \in Thread :
        /\ WF_vars(AddTimer(t)) /\ WF_vars(OnTimerInsertedAtFront(t))
        /\ WF_vars(Reset(t) \/ ResetFails(t))
        /\ WF_vars(ListExpiredPeek(t)) /\ WF_vars(ListExpiredCb(t))
        /\ WF_vars(TakeCbs(t))
        /\ SF_vars(ListExpiredBegin(t))

FairSpec == Spec /\ Fairness

-----------------------------------------------------------------------------
(* Properties.                                                             *)

\* Every variable keeps its type; the clock and the deadlines stay far from
\* the end of uint64_t, so that only Sub64 can wrap.
TypeOK ==
    /\ clock \in StartClock..MaxClock
    /\ m_next \in [Timer -> Nat] /\ m_ms \in [Timer -> Duration \cup {0}]
    /\ m_timers \in SUBSET (Nat \X Timer)
    /\ m_recurring \in [Timer -> BOOLEAN] /\ m_cb \in [Timer -> BOOLEAN]
    /\ m_tickled \in BOOLEAN /\ m_previouseTime \in Nat
    /\ held \in SUBSET Timer /\ listed \in SUBSET Timer /\ cancelled \in SUBSET Timer
    /\ pc \in [Thread -> PC] /\ cur \in [Thread -> Timer]
    /\ argMs \in [Thread -> Duration] /\ nowMs \in [Thread -> Nat]
    /\ cbs \in [Thread -> SUBSET Timer]
    /\ lastPlan \in Nat

\* Some thread is between the Timer constructor and the insertion of x.
Inserting(x) == \E t \in Thread : pc[t] = "insert" /\ cur[t] = x

\* A timer has a callback exactly while it is in the set, at the place its
\* current m_next gives.  Timer::cancel relies on it: erase(find(..)) without
\* an end() check is undefined behaviour otherwise (timer.cc:24-25).
CallbackIffQueued ==
    /\ \A x \in Timer : m_cb[x] /\ ~Inserting(x) => Entry(x) \in m_timers
    /\ \A e \in m_timers : m_cb[e[2]] /\ e = Entry(e[2])

\* A timer never counts from a future moment: m_next - m_ms neither wraps
\* (timer.cc:73) nor exceeds the clock, whatever mix of refresh, reset and
\* recurring re-insertion (with a stale nowMs) produced it.
StartInPast ==
    \A x \in Timer : m_ms[x] <= m_next[x] /\ m_next[x] - m_ms[x] <= clock

\* If the set now holds a deadline earlier than the one the last getNextTimer
\* reported, then m_tickled is set: the waiter has been, or is being, notified.
\* Only addTimer(val, lock) notifies; refresh and the recurring re-insertion
\* of listExpiredCb do not, and must not be able to create such a deadline.
EarlierDeadlineNotified == First(m_timers) < lastPlan => m_tickled

\* The callbacks a step adds to some thread's vector.
NewlyListed(t) == cbs'[t] \ cbs[t]

\* listExpiredCb never hands out a callback before its deadline, although its
\* nowMs is read before the mutex and may be older than m_previouseTime.
NoEarlyFire == [][\A t \in Thread : \A x \in NewlyListed(t) : m_next[x] <= clock]_vars

\* A timer whose cancel() returned true is never listed afterwards, and a
\* one-shot timer is listed at most once, whichever threads poll.
ListedOnce == [][\A t \in Thread : \A x \in NewlyListed(t) :
                    x \notin cancelled /\ (m_recurring[x] \/ x \notin listed)]_vars

\* A deadline that has passed does not stay in the set.
Due(x) == \E e \in m_timers : e[2] = x /\ e[1] <= clock

\* Every timer that is due is listed, cancelled or postponed eventually.  A
\* recurring timer with period 0 is the exception: it is due again at once.
DueIsServed ==
    \A x \in Timer : Due(x) ~> (~Due(x) \/ (m_recurring[x] /\ m_ms[x] = 0))
=============================================================================
