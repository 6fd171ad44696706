# A TLA+ verification of phase0

phase0 is a C++ network framework: stackful fibers on ucontext, an N-M fiber
scheduler, an epoll based I/O scheduler with timers, hooked system calls that
suspend the calling fiber, and on top of these sockets, streams, a TCP server and
an HTTP server.  This directory holds TLA+ modules for its concurrent core and
for the servers on top of it, the TLC configurations that check them on small
instances, and TLAPS proofs.

    cd tla
    tlc -workers 2 -config TimerManager_pass.cfg MCTimerManager    # any run of PROJECT.json
    tlapm TimerProofs.tla                                          # the proofs

Source paths below are relative to `src/src/`.

## 1. Inventory

| Component | State | Operations | Interacts with | What makes it correct |
|---|---|---|---|---|
| Fiber (`fiber/fiber.cc`) | `m_state`, `m_ctx`, thread-local `t_fiber` | `swapIn`, `swapOut`, `YieldToReady`, `YieldToHold`, `reset`, `MainFunc` | called by the run loop, by hooks, by user code | a fiber runs on one thread, and is resumed only from a stored context |
| Scheduler (`fiber/scheduler.cc`) | `m_tasks`, `m_activeThreadCount`, `m_idleThreadCount`, `m_stopping` | `schedule`, `start`, `stop`, `run`, `idle`, `tickle`, `stopping` | base class of IOManager; tasks are queued by any thread | every task is executed exactly once per scheduling, `stop()` returns, and only when nothing is left |
| IOManager (`fiber/iomannager.cc`) | vector of `FdContext` (`events`, `read`, `write`), `m_pendingEventCount`, epoll, the tickle pipe | `addEvent`, `delEvent`, `cancelEvent`, `cancelAll`, `contextResize`, `triggerEvent`, `idle`, `tickle`, `stopping(timeout)` | overrides Scheduler and TimerManager; called by hooks | who waits for an event is woken once, nobody is forgotten, no readiness is lost, threads that wait are woken for new work |
| Timer, TimerManager (`timer/timer.cc`) | `std::set` of timers ordered by `m_next`, `m_tickled`, `m_previouseTime` | `addTimer`, `addConditionTimer`, `cancel`, `refresh`, `reset`, `getNextTimer`, `listExpiredCb`, `detectClockRollover` | `idle()` polls; `onTimerInsertedAtFront` wakes a waiter | not early, not after `cancel`, one-shot once, never lost; the set stays ordered |
| Hook, FdManager (`hook/hook.cc`, `hook/FdManager.cc`) | table of `FdCtx` (flags, timeouts), per call a `TimerInfo` | `do_io`, `connect_with_timeout`, `socket`, `accept`, `close`, `fcntl`, `ioctl`, `setsockopt`, sleeps | addEvent, timers and yields of the layers above | a call returns when its event comes or its timeout passes; timeouts hit their own call; a descriptor's `FdCtx` is the one of its socket |
| ByteArray (`utils/bytearray.cc`) | chain of nodes, `m_cur`, `m_position`, `m_size`, `m_capacity`, `m_endian` | typed reads and writes, `setPosition`, `clear`, iovec buffers, files | SocketStream | cursor and position agree, what is written reads back |
| Stream, SocketStream (`stream/`) | the socket, ownership | `read`, `write`, `readFixSize`, `writeFixSize`, `close` | ByteArray, Socket | exactly the asked number of bytes or an error |
| Socket, Address (`socket/`) | descriptor, `m_isConnected`, addresses | `bind`, `listen`, `connect`, `accept`, `send`, `recv`, `close`, `cancel*` | hooked calls, IOManager | life cycle; prefix arithmetic of addresses |
| TcpServer (`tcpserver/tcpserver.cc`) | list of sockets, `m_isStop` | `bind`, `start`, `startAccept`, `handleClient`, `stop` | Socket, IOManager | `bind` is all or nothing, every connection is handled, no descriptor leaks, `stop()` ends the accept fibers |
| HTTP (`http/`) | request, response, servlet tables | parsing callbacks, `recvRequest`, `sendResponse`, `handleClient`, servlet dispatch | TcpServer, Stream, vendored `http_parser` | a request is returned as it was sent however reads cut it, it is answered, responses and connection agree on keep-alive, what `dump` writes is read back |
| http_parser (`http/http_parser.cc`) | `struct http_parser`: state, flags, `content_length`, `nread` | `http_parser_execute`, `http_parser_parse_url` | calls the callbacks of HttpParser.cc | its assertions hold, lengths do not overflow, the head is limited |
| Config, Log (`config/`, `log/`) | variables with listeners; loggers, appenders, patterns | `lookup`, `loadFromYaml`, `setValue`; `log`, `init` of patterns | Config changes notify Log | a listener sees every change once; a pattern formats what it says |
| utils | none of their own | backtrace, ids, clocks | | |

**What is hard here.** Every lock protects one structure only, and most operations
take two or three of them one after the other; system calls (`epoll_ctl`, `close`,
`clock_gettime`) happen between them.  Fibers put themselves into queues before they
yield.  Timeouts race with the events they guard, and their callbacks race with the
next call on the same descriptor.  Descriptor numbers are used again.  Wake-ups are
skipped when no thread is counted as idle.  Bytes arrive in pieces that respect no
boundary of the protocol, so callbacks, parsers and the messages they fill see every
cut.  `PROJECT.json` lists these hazards line
by line, with the properties that cover them.

## 2. Modules

| Module | Models | Steps |
|---|---|---|
| `TimerManager` | `timer/timer.cc` | one per critical section of `m_mutex`; the clock reads, the unlocked check in `reset`, and `onTimerInsertedAtFront` after the unlock are steps of their own |
| `TimerProofs`, `SchedulerProofs`, `IOManagerProofs`, `FdContextsProofs`, `HookProofs`, `TcpServerProofs`, `HttpProofs`, `ByteArrayProofs` | theorems about the module they are named after (`HttpProofs`: `HttpParser` and `HttpSession`) | |
| `TaskPool` | abstract: what a scheduler promises | |
| `Scheduler` | `fiber/scheduler.cc`, switches of `fiber/fiber.cc` | one per critical section, counter update, state change and context save |
| `IOManager` | `idle`, `tickle`, `stopping(timeout)` of `fiber/iomannager.cc`, extends `Scheduler` | the three reads of `stopping(timeout)` are three steps |
| `FdContexts` | the event bookkeeping of `fiber/iomannager.cc` and the kernel's epoll | one per critical section of the vector lock and of `FdContext::mutex`, one per system call |
| `Hook` | `hook/hook.cc`, `hook/FdManager.cc` | one per system call, FdManager lock, or call of IOManager |
| `ByteFile` | abstract: a byte sequence with a position | |
| `ByteArray` | `utils/bytearray.cc` and `SocketStream::read/write(ByteArray)` | one per call (the class is not shared between threads) |
| `TcpServer` | `tcpserver/tcpserver.cc` and the part of `socket/socket.cc` it uses | one per system call of `bind`, `listen`, `accept` and `close`, per task of the accept worker, per call of the owner |
| `HttpText` | the character classes and URL grammar of `http/http_parser.cc`, `http/http.cc` | operators only |
| `HttpParser` | `http_parser_execute` and the callbacks of `http/HttpParser.cc` | one per symbol and state of the parser |
| `HttpSession` | `http/HttpSession.cc`, `HttpServer.cc`, `servlet.cc`, `Stream::writeFixSize`; extends `HttpParser` | one per read, write, match and change of the servlet table |
| `MC*` | symmetry sets, messages and constants for TLC | |

Operators keep the names of the functions they model, variables the names of the
members (`m_timers`, `m_pendingEventCount`, ...).  `PROJECT.json` maps every
definition to its lines.  Definitions whose comment begins with "Mutant of" are
deliberately wrong variants of the definition they precede; replacing it by them
breaks the property named in `PROJECT.json`, which shows that the property depends
on the code.

How the modules fit together: `IOManager` extends `Scheduler` and sees an event as a
fiber in `evWait` and a timer as a callback in `timers`; `FdContexts` and
`TimerManager` open these two up.  `Hook` uses addEvent, cancelEvent and timers as
atomic calls and adds the life of descriptors.  `TcpServer` stands on hooked accept and
close with the steps of `Hook` that another accept thread can see.  `HttpSession` is the
`handleClient` that `TcpServer` leaves open; it extends `HttpParser`, which extends
`HttpText`.

### Correspondence in short

* `TimerManager`: `m_timers` holds `<<key, timer>>` pairs where the key is the `m_next`
  under which the timer was inserted, so that a changed `m_next` of a queued timer, which
  would corrupt the `std::set`, is visible.  `Sub64` is `uint64_t` subtraction.
* `Scheduler`: `pc[w]` is the place of a worker in `run()`; `saved` says that
  `swapcontext` has stored a fiber's context; `aborted` is the assertion that failed.
* `FdContexts`: the vector holds objects `<<fd, gen>>`; a resize that drops an entry
  and a later one that creates it anew lead to another object.  epoll is edge-triggered.
  A failed assertion ends the process before the system call that follows it.
* `IOManager`: `pipe` is an unread edge of the tickle pipe, `due` are expired timers.
  `cbs[w]` are the callbacks that `listExpiredCb` has given to a thread and that it has not
  scheduled yet, `got[w]` what its `epoll_wait` has returned (up to `MAX_EVNETS` events) and it
  has not handled yet; `triggerEvent` and `--m_pendingEventCount` are two steps.
* `Hook`: `gen` tells the sockets apart that get the same descriptor number; `slot` is
  the waiter an `FdContext` remembers, with the socket the registration belongs to.
* `TcpServer`: a Socket object is named by the address it listens on or by its client;
  `kernel` is the descriptor table, which hands out the lowest free number, `m_sock` the
  number each object believes it has.  `taken` are addresses another process uses;
  `m_socks` is a sequence, since `bind` may be given an address twice (the second `bind`
  of the socket fails).  `close` is `::close(m_sock)` and `m_sock = -1` in one step; nothing
  that the properties speak of reads `m_sock` in between.
* `HttpText`, `HttpParser`: a symbol is a run of characters the parser treats alike: a
  delimiter, a digit, a byte of text, or half of a word it compares with, so that a read
  can end inside every word.  States of the parser have their names; the ones that only
  walk through a word are one step per symbol.  `mark` is the text since the last MARK,
  `seen` remembers whether a string came in pieces and whether a second message began in
  the same object.
* `HttpSession`: `inbox` are the symbols that have arrived; a read returns any prefix.
  `served` and `replies` are what `recvRequest` returned and what was sent.  With type
  HTTP_RESPONSE the same module is a client that reads one response.
* `ByteArray`: `nodes` is the chain, `m_cur` the number of a node or `Null`; `Walk` is
  the loop that `read`, `write`, `getReadBuffers` and `getWriteBuffers` share and `Turn` one
  turn of it.  Loops are recursive functions of the number of turns.

## 3. Runs

| Run | Shows | Instance and why it is enough |
|---|---|---|
| `timer_safety` | `CallbackIffQueued`, `StartInPast`, `EarlierDeadlineNotified`, `NoEarlyFire`, `ListedOnce` under all interleavings | two threads, two timers, durations 0 and 1, a clock of two values: stale `nowMs`, equal deadlines and recurring re-insertion occur; the theorems lift it to all sizes |
| `timer_liveness` | `DueIsServed` | as above with one duration |
| `scheduler` | whichever thread a fiber names when it puts itself back: `SchedInv` (types, exact counters, nothing left behind), `AssertionBlamed` (fiber.cc:110 never fails, scheduler.cc:112 only for a fiber taken before its yield), `OneThreadPerFiber`, `UnsavedOnlyInSwapOut` (a context that is resumed is stored or just being stored), refinement of `TaskPool`; and unless scheduler.cc:112 ends the process, every task ends and `stop()` returns | three workers of which one is the caller, two fibers, one yield each, tasks pinned or for any thread: one worker executes, one takes the same fiber, one is free to stop; the safety properties were checked with two yields as well |
| `events_single` | `EventsInv` (types, `PendingExact`, `WaiterInOneSlot`, `WaiterIsArmed`), no assertion fails, `WaiterIsReachable`, `NoLostEdge`, with close and reuse | one thread: operations interleave with the kernel only; two descriptors, one beyond the vector; both events |
| `io` | `IOStateOK` (types, `m_activeThreadCount`, `m_idleThreadCount` and `m_pendingEventCount` exact), `AssertionBlamed`, `IOMovesJobs`: until `stop()` returns, jobs move as `TaskPool` says; `IOStopReturns`: `stop()` returns although tickles are lost, unless scheduler.cc:112 ends the process | two workers, two tasks with events and timers, events that fire before their fiber has yielded, two events per `epoll_wait` |
| `io_stop` (violation) | `stopping(timeout)` is not atomic | the same instance |
| `hook` | `HookInv` (types, `CtxMatchesSocket`), `WaiterIsRegistered`, `NoTimerLeft`, `TimeoutIsOwn`, `AnsweredCallReturns` | two fibers with two calls each, one descriptor that two sockets have in turn |
| `hook_close` (violation) | close by another thread strands a waiting call | one socket |
| `tcpserver` | `DescriptorsOwned`, `BindAllOrNothing`, `AcceptEnds`, `EveryClientHandled` | two addresses, three clients, three descriptors: the third client meets EMFILE, closed numbers are used again; two accept threads and one I/O thread; another process takes and leaves addresses at any time |
| `tcpserver_bind` (violation) | the loop around `bind` of the README and of the tests does not end once an address was taken | two addresses, one client; the fairness of `tcpserver` |
| `http` | `ParserAssertions`, `RequestAsSent`, `RepliesKeepTheirWord`, `ResponseAsSent`, `EveryRequestAnswered` | fourteen kinds of request (dumped by the code, chunked, HTTP/1.0 and 0.9, folded headers, seven that must be rejected), two on a connection; five responses; one short read at every place; lengths overflow at 127 and heads at 36 symbols; two changes of the servlet table |
| `bytearray` | `ArrayInv` (types, `NoNullDereference`, `CursorAtPosition`), `ReadsBack`, refinement of `ByteFile` | nodes of two bytes, chain of up to three, two writes and any number of other calls; five items, one of each encoding; bytes of 3 bits and words of 5, so that the last varint group is partly used, as with 32/7 and 64/7 |

Bounds are named constants (`MaxClock`, `MaxYields`, `MaxGen`, `MaxEpoch`, `MaxCalls`,
`MaxNodes`, `MaxWrites`, `Conn`, `MaxMessages`, `MaxSplits`, `MaxChanges`, `Later`) and appear in
guards only.  `MaxStall` is different: it bounds
how long a thread may stay between its clock read and its critical section in
`listExpiredCb`, and must not exceed `HOUR`; beyond that the code cannot tell a slow
thread from a clock rollover.

Deadlock is checked except in `events_single`, `hook` and `hook_close`, where bounded resources
(registrations, calls) run out and the system rightly stops; in `tcpserver` and
`tcpserver_bind`, where a server without clients and without a call of `stop()` rightly
waits; and in `scheduler`, `io` and `io_stop`, where a failed assertion ends the process
(`StopReturns` and `IOStopReturns` say that nothing else stops it).

### Restrictions of the passing runs

They say under which use the properties hold; without them TLC finds the property
violated, which section 5 describes.

* `TimerManager`: the machine has been up for an hour (`StartClock >= HOUR`).

* `IOManager`: tasks are not pinned (`Pins = {}`; the theorems allow pins).
* `FdContexts`: one thread.  The theorems cover any number of threads as long as descriptors
  are not closed and the vector does not grow (and, for the assertions, one event is in
  use); the other cases are in section 5.
* `Hook`: a descriptor is closed when no other fiber is inside a call on it
  (`SharedClose = FALSE`), a timeout does not pass between `addConditionTimer` and
  `addEvent` (`EarlyExpiry = FALSE`), programs do not call `ioctl(FIONBIO, 0)`.
* `ByteArray`: no empty read at the end of the chain, `writeToFile` at node boundaries.
* `tcpserver`: each call of `bind` gets a new list of failures (`FreshFails`), so that a server
  starts after a failed `bind` too; with the one list of the repository's own callers it does
  not (`tcpserver_bind`).  Clients are
  handled by another IOManager than the accept fibers; a stopped server is not started
  again.  `AcceptEnds` names its one exception: with several accept threads a fiber may
  register its waiter inside hooked close (`Orphaned`).  With `AcceptThreads = 1` it has
  no exception.
* `HttpSession`: the properties name their exceptions in terms of history: a string that
  came in pieces (`pieces`), a parser that was given bytes of the following request
  (`torn`).  Neither is excluded from the behaviours.

### Fairness

* `TimerManager`: calls run to their end and time passes (weak); `listExpiredCb` is
  called again and again (strong, since the thread may be busy with other calls each
  time): `idle()` polls after each `epoll_wait`, which waits 5 s at most.
* `Scheduler`, `IOManager`: threads that can run do; callbacks return; sockets that are
  waited for become ready (strong per fiber over all threads, since any of them may take
  the event); the owner calls `start()` and `stop()`.
* `Hook`: fibers and timer callbacks go on, readiness is dispatched, deadlines pass.
  `AnsweredSpec` adds a peer that answers; `TimedCallReturns` is checked without it.
* `TcpServer`: threads with a task run it, epoll reports what is ready, the caller repeats
  `bind`; nothing is assumed of clients, of other processes or of the caller later on.
  Clients end because `handleClient` reads with a receive timeout.
* `HttpSession`: the fiber of the connection goes on (weak); neither the peer's closing
  nor a timeout is assumed.

## 4. Proofs

Eight modules hold proofs.  Each states an inductive invariant, proves one preservation
lemma per action, and derives the properties of the runs; what a theorem says holds for
every value of the constants that meets the ASSUMEs of the module and the hypothesis
named below.  The invariants were checked with TLC before they were proved, on the
instances of the runs, most of them on larger ones too.

### TimerProofs

For all sets of threads, timers and durations, all clock bounds and every word size
(assumptions: timers and durations are natural numbers, `MaxStall <= HOUR`, deadlines
stay below the word size):

| Theorem | Statement |
|---|---|
| `TypeCorrect` | `Spec => []TypeOK` |
| `CallbackIffQueuedHolds` | a timer has a callback exactly while it is queued under its current `m_next`, so `erase(find(..))` in `cancel` and `refresh` never gets `end()` |
| `StartInPastHolds` | `m_next - m_ms` neither wraps nor lies in the future |
| `ListedOnceHolds` | no callback after `cancel()`, one-shot timers once |
| `NoEarlyFireHolds` | if the manager is constructed at least an hour after boot, nothing fires early |
| `EarlierDeadlineNotifiedHolds` | under the same condition an earlier deadline is always announced |

The inductive invariant is
`SafeInv == TypeOK /\ CallbackIffQueued /\ InsertingInv /\ HistoryInv /\ StartInPast /\ StallInv`.
`CallbackIffQueued` alone is not inductive: between the constructor and the insertion a
timer has a callback and is not queued, so `InsertingInv` says that such a timer belongs
to one thread and nobody else holds it.  `HistoryInv` ties the ghost sets `listed` and
`cancelled` to the callbacks.  `StallInv` says that a thread's `nowMs` and
`m_previouseTime` are moments of the past, at most `MaxStall` old, without which a
recurring timer could be re-inserted in the future.  `NoEarlyFire` needs one more step:
with `m_previouseTime >= HOUR` the subtraction does not wrap, and a stale `nowMs` is not
old enough to look like a rollover (`NoFalseRollover`).  `EarlierDeadlineNotified` is
proved as an invariant of its own on top of `SafeInv`: refresh and recurring re-insertion
only move deadlines to later moments, so only `addTimer(val, lock)` can create an earlier
one.

### SchedulerProofs

For any finite set of workers and any set of fibers, with or without a caller thread,
tasks pinned or not, and whichever thread a fiber names when it puts itself back.  There
are no hypotheses:

| Theorem | Statement |
|---|---|
| `RunInvHolds` | the counters of `stopping()` are exact; an idle fiber ends only when `stop()` was called, nothing is queued and no worker is busy |
| `SchedInvHolds` | `SchedInv`: the counters, and that a worker leaves nothing behind |
| `AssertionBlamedHolds` | fiber.cc:110 never fails; scheduler.cc:112 fails only when a worker takes a fiber that another one is executing and that is about to yield |
| `OneThreadPerFiberHolds` | no two workers execute the callback of one fiber, and `Fiber::GetThis()` names it there |
| `UnsavedOnlyInSwapOutHolds` | who switches to a fiber finds it new or READY with its context stored, or another worker is at that moment storing it in `swapOut` |
| `ImplementsPoolHolds` | `Scheduler` refines `TaskPool` |

That no assertion fails, and that every context is stored before it is used, are false of
the code (section 5); the third and fifth theorem say how far the
damage goes.  `SafeInv == RunInv /\ PlaceInv`.  `RunInv` needs the exact counters for `EndInv`:
`stopping()` reads `m_activeThreadCount`, and it is zero only if `Busy` is empty (this is why the
set of workers is finite).  `PlaceInv` has three parts:

* `TaskInv`, a token argument: a fiber is at most once in the queue or carried by one worker
  that is about to switch to it or executes it, never both.  A fiber that puts itself back
  gives its token to the queue: its worker, at `yield`, `save` or `back`, has no claim any more.
  This is what keeps two workers from executing one fiber when it is queued early.
* `StateInv`: `AssertionBlamed`, `OneThreadPerFiber` and, as long as no assertion has failed,
  `HandsOK`: a fiber is EXEC exactly while one worker is at `run` or `yield` with it; a fiber
  that is READY without a stored context has a worker in `swapOut` that stores it; a queued
  fiber has not ended, so the worker that takes one in EXEC is the one to blame.
* `FreeInv`: a fiber that is READY or EXEC is queued or carried, so none is lost.

After a fiber has been resumed from a context that was not stored, the model lets its
callback go on; what the two threads then do to the shared stack is outside of the model.
The two assertions of `stop()` compare `GetThis()` with the scheduler of the calling thread; the
model's owner is the thread that constructed the scheduler, for which they hold, and no
theorem claims anything about them.  The refinement reads a job's phase (new, queued,
running, done) off the queue, the fiber's state and the workers' hands; every action is a
step of the pool or leaves it unchanged.

### IOManagerProofs

For any finite set of workers, any set of fibers, tasks pinned or not, events that fire at
any moment after `addEvent`, and any `MAX_EVNETS`.  There are no hypotheses:

| Theorem | Statement |
|---|---|
| `IOStateOKHolds` | `IOStateOK`: types, and `m_activeThreadCount`, `m_idleThreadCount` and `m_pendingEventCount` are exact |
| `IOAssertionBlamedHolds` | `AssertionBlamed`, here also for a fiber that an event or a timer has queued before it has yielded |
| `IOOneThreadPerFiberHolds` | `OneThreadPerFiber` |
| `IOMovesJobsHolds` | until `stop()` returns, jobs move as `TaskPool` says |

`IOManager` has another next-state relation than `Scheduler`, so its invariants are proved
anew, on top of the lemmas of `SchedulerProofs` about counters, queues and hands.
`IOInv == VarsOK /\ ThreadInv /\ EventInv /\ IOPlaceInv`.  `EventInv` says that
`m_pendingEventCount` is the number of registered fibers plus the number of threads between
`triggerEvent` and the decrement (`Counting`), and that what an `epoll_wait` has returned is
registered and in the hands of one thread.  `IOPlaceInv` extends the token argument by the
new places: registered for an event (`EventPlaces`), or in the timer set or among the
expired callbacks of exactly one thread (`TimerPlaces`); `StateInv` is the one of
`SchedulerProofs`, and `IOFreeInv` says that no job is lost between these places.
`IOMovesJobs` is as much of the refinement as holds: the full one fails (`io_stop`), because
`stop()` may return too early.

### FdContextsProofs

For any number of threads, descriptors, waiters and FdContext objects:

| Theorem | Hypothesis | Statement |
|---|---|---|
| `SlotsExactHolds` | none | types, `PendingExact` and `WaiterInOneSlot`: with close by another thread and with racing resizes too, nobody is lost from the bookkeeping or scheduled twice |
| `EventsInvHolds` | `Fixed \/ Alone` | `EventsInv`: also armed in epoll, with the FdContext that remembers the waiter |
| `WaiterIsReachableHolds` | `Fixed \/ Alone` | `delEvent`, `cancelEvent` and `cancelAll` find every waiter |
| `NoLostEdgeHolds` | `Fixed \/ Alone` | readiness that somebody waits for is on the ready list or about to be dispatched |
| `NoAssertionFailsHolds` | `Alone \/ (Fixed /\ OneEvent)` | no assertion of `triggerEvent` or `addEvent` fails |

`Fixed` is any number of threads where nothing is closed and the vector is large enough;
`Alone` is one thread, with `close()`, reuse of descriptor numbers and `contextResize`,
and `InitialSize >= 2` (the code has 32; with 1, `fd * 1.5` does not grow the vector for
descriptor 1).  Outside of them the properties fail (section 5).  The argument has two
layers.  `SlotsInv` says that the slots are a one-to-one map between set event bits and
registered waiters (`SlotMap`), so that clearing a set of events changes the count by
exactly their number; it needs that a call of `addEvent` brings a waiter nobody knows yet
(`NewInv`).  `SyncInv` ties the slots to epoll: the vector keeps the first FdContext of
each descriptor (`VectorInv`, since `fd * 3 / 2 > fd` for `fd >= 2`), epoll's interest
list is the FdContext's events (`EpollInv`), a slot belongs to the socket that is open now
(`RegInv`), what a call has looked up before it took the second lock is still true
(`CallInv`), and `EdgeInv`, the inductive form of `NoLostEdge`: `epoll_ctl` polls the socket
again, so an edge of a descriptor whose registration changes is back on the ready list.
The assertions need `GotInv` on top: one thread handles the whole array before anything
changes.

### HookProofs

For any number of fibers, descriptors and calls, timeouts at any moment:

| Theorem | Hypothesis | Statement |
|---|---|---|
| `CallInvHolds` | none | the inductive invariant below |
| `NoTimerLeftHolds` | none | no call leaves an armed timeout behind |
| `TimeoutIsOwnHolds` | none | a call reports ETIMEDOUT only if a timeout of this call has passed |
| `HookInvHolds` | no `ioctl(FIONBIO, 0)` | an FdCtx belongs to the socket that has the descriptor, which is O_NONBLOCK |
| `WaiterIsRegisteredHolds` | `SharedClose = FALSE` | who has yielded is in the slot of the open socket |

The theorems do not assume `EarlyExpiry = FALSE`.  `CallInv` says that `socket`, `accept` and
`close` are alone on their descriptor and that no FdCtx exists before the first lock of
`get(fd, true)` and after `del` (`OpenInv`, without which the FdCtx of an earlier socket
could meet a later one), that a slot holds only a fiber that waits for just this event
(`SlotInv`), and that an armed timer is the one of the round of `do_io` under way
(`TimerInv`); `CancelledInv` carries `TimeoutIsOwn`.  `WaiterIsRegistered` needs `UserInv`: one
reader and one writer per socket, and none of them while it is closed.

### TcpServerProofs

For any list of addresses, number of clients, descriptors and threads:

| Theorem | Statement |
|---|---|
| `DescriptorsOwnedHolds` | every open descriptor belongs to one Socket that something holds, and every Socket's descriptor is open and its own |
| `BindAllOrNothingHolds` | `bind` has returned true and listens on every address until `stop()`'s task or the destructor runs, or false and on none |

`ServerInv` adds to the two parts of `DescriptorsOwned` where the call of `bind` is in its
list (`BindInv`), that nothing runs before `start()` (`QuietInv`), and that there is one
task of `stop()`, before which all sockets listen and during which the open ones are still
ahead of it (`StopInv`).  No hypothesis: `FreshFails` may be false, several accept threads
may race with hooked close.  Assumed are enough descriptors for the addresses and that
the names of addresses, clients and states differ.

### HttpProofs

For messages of any length cut into reads of any size, every buffer size, every
`HTTP_MAX_HEADER_SIZE`, every sentinel above 16 in place of `ULLONG_MAX`, and any number of
changes of the servlet table (assumed of messages: they are sequences of symbols,
`MessageAssumption`):

| Theorem | Statement |
|---|---|
| `ParserAssertionsHolds` | no assertion of `http_parser_execute` fails, body states have a length that is neither used up nor the sentinel, lengths do not pass it |
| `RepliesKeepTheirWordHolds` | the k-th response answers the k-th request, by a servlet that matches its path and in its version; only the last one announces "connection: close", and the session reads on after exactly the others |

`ParserInv == Sound(parser) /\ Fresh(parser) /\ CallInv`: `Sound` gives `struct http_parser`
its type and says what each state implies for lengths, flags and the header state, at
every point of a step, since one step may pass through several states; that a chunk's size is below
the sentinel *while it is read* is the part the assertions leave unsaid and need.  `Fresh`
holds between steps only.  `CallInv` says that nothing is left of a read when the next one
begins.  The attempt showed that `ParserAssertions` had claimed too much: after an error the
parser may be left in `s_chunk_size_start` with a header count that is not zero; as it is
not executed again no assertion is reached, and the conjunct now says so.

`SessionInv` ties the place of the fiber to the number of requests returned and responses
written (`PlaceInv`), says that `m_close` of a request that is being parsed is the one it was
constructed with (`DataInv`), that an entry of the servlet table is found under its own
URI (`TableInv`), and what a response owes to its request (`AnswerInv`).

### ByteArrayProofs

For every node size, byte and word width, all buffers and items (assumed: buffers are
sequences of bytes, and items have a value of their type, `ItemAssumption`):

| Theorem | Hypothesis | Statement |
|---|---|---|
| `ArrayInvHolds` | `~EmptyReads`, `~UnalignedFiles` | `m_position <= m_size <= m_capacity`, the chain has `m_capacity` bytes, `m_cur` is the node of `m_position` and nullptr exactly at the end; no call dereferences nullptr or walks off the chain |

`ArrayInv` is inductive together with `nodes # <<>>` (the root node is never deleted).  What
it takes are the loops: `Induct` is induction up to a bound (a least counterexample, from
`WFMin`), `Loop` says that a loop whose turns keep an invariant has states, and that they
satisfy it.  With it `WalkEnds`, `SeekEnds` and `FileEnds` show for `read`, `write`, `setPosition`,
`addCapacity`, the buffer calls and `writeToFile` that the walk visits only nodes of the chain and
ends at the node of the new position; `EncodeBytes` and `TypedReading` show that the
encodings yield sequences of bytes and that a typed read asks for what it has counted.
Both hypotheses are needed (section 5).

### Only model-checked

* All liveness: `DueIsServed`, `EveryTaskEnds`, `StopReturns`, `IOStopReturns`,
  `AnsweredCallReturns`, `AcceptEnds`, `EveryClientHandled`,
  `EveryRequestAnswered`.  It needs fairness and ENABLED, which the prover does not handle.
* `ReadsBack` and `ImplementsFile` of `ByteArray`: what the varint encodings compute and how
  the bytes of a chain of nodes correspond to one sequence.  That the loops end at the
  right node and yield bytes is proved; that decoding inverts encoding is an induction over
  values through powers and remainders, which the SMT backend does not do.
* `RequestAsSent` and `ResponseAsSent` of `HttpSession`: a message is returned as it was sent,
  a statement about what the parser makes of a whole sequence of symbols, where the run
  enumerates the messages.

## 5. Disagreements between code and documentation

With a run of its own each; `PROJECT.json` quotes the lines they contradict:

* `io_stop`, iomannager.cc:356 - `stopping(timeout)` is not atomic; all threads can leave
  although a timer or an event is waiting.
* `hook_close`, hook.cc:423 - another thread can register between `cancelAll` and `close_f`.
* `tcpserver_bind`, tcpserver.cc:61 - `bind` never clears the list of failures it is given, so
  the loop of the repository's `README.md:68` and `tests/testTcpServer.cc:28`,
  `while (!server->bind(addrs, fails))`, never ends once an address has failed.

Found with the same modules and other constants, or by reading:

* timer.cc:229 - `m_previouseTime - 60 * 60 * 1000` wraps in the first hour after boot, so
  a poll with a slightly stale clock value counts as a rollover and every timer fires at
  once (`timer_safety` with `StartClock = 0, MaxClock = 2`: `NoEarlyFire` fails).
* scheduler.cc:112 - `run()` asserts that a queued fiber is READY, but a fiber that queues
  itself for any thread and then yields, as `tests/testScheduler.cc:7-10` asks for ("before
  the yield the fiber must add itself to the task queue again"), may be taken while it is
  still EXEC (`scheduler` with the invariant `aborted = "no"`; two workers are enough).
* fiber.cc:135 - `swapOut` makes READY visible before the context is stored; another worker
  can resume the fiber from its old context (`scheduler` with `UnsavedOnlyInSwapOut` without
  its last disjunct).
* iomannager.cc:459 - an event that fires between `addEvent` and the yield of its fiber lets
  another thread take a fiber in state EXEC (`io` with the invariant `aborted = "no"`).
* iomannager.cc:457 - a stale `epoll_event`, one of whose events another thread has removed,
  fails the assertion of `triggerEvent`, iomannager.cc:86 (two threads, both events of one
  descriptor: `NoAssertionFails` fails).
* iomannager.cc:171 - two threads that grow the vector can shrink it (two threads,
  `Fd = {2, 4}`, `InitialSize = 2`: `WaiterIsReachable` fails).
* tcpserver.cc:84 - `accept` errors are retried without a yield; on a shared IOManager with
  as many accept fibers as threads, EMFILE starves the clients that hold the descriptors.
* HttpParser.cc:101-150 - the data callbacks overwrite, although `http_parser.h:84-86` says
  that they are called "arbitrarily many times for each string": a header or URL that two
  reads bring in two pieces keeps the last piece (`RequestAsSent` fails without its
  `pieces` condition); a second piece of a URL usually does not parse and ends the session.
* HttpSession.cc:27 - a read that brings the beginning of the next request gives it to the
  parser of the current one, which merges both into one HttpRequest or loses the second
  (`RequestAsSent` fails without its `torn` condition).
* http.cc:371 - a keep-alive response without a body has no content-length; its reader
  waits for the end of file (`ResponseAsSent` states this).
* fiber.cc:131 - `YieldToHold`, and any callback that throws, abort in `swapOut`.
* fiber.cc:132 - after `stop()` with a caller thread, `Fiber::GetThis()` is the ended
  root fiber.
* scheduler.cc:102 - a task pinned to an IOManager thread that has already left its idle
  loop keeps `stop()` from returning (`Pins` not empty).
* iomannager.cc:180 - an event registered between `cancelAll` and `close_f` survives in
  the `FdContext` and fails the assertion when the number is used again.
* hook.cc:109 - retries share one `TimerInfo`; a late callback of an earlier round
  disarms all later timeouts of the call (`MaxCalls = 3`, `TimedCallReturns`).
* hook.cc:415, FdManager.cc:94 - a thread without hooks leaves the `FdCtx` of a closed
  descriptor behind; the table is resized under another lock than its size is tested.
* hook.cc:184, hook.cc:565, iomannager.cc:382 - `seconds * 1000` wraps, a zero timeout
  expires at once, `(int)nextTimeout` truncates; durations are not modelled.
* hook.cc:541 - `ioctl(FIONBIO, 0)` makes hooked calls block the thread
  (`FALSE \in FionbioArgs`: `CtxMatchesSocket` fails).
* bytearray.cc:419 - reading an empty string that ends the chain dereferences nullptr
  (`EmptyReads = TRUE`); bytearray.cc:525 - `writeToFile` inside a node
  (`UnalignedFiles = TRUE`); bytearray.cc:455 - a read at another position starts at the
  node of the current one; bytearray.cc:195 - long strings lose part of their length.

## 6. Not modelled

* Stack allocation, ids, names, logging; lifetimes of shared pointers.
* Threads without hooks; `dlsym`.
* Durations in `Hook` and `IOManager`: a timeout is a point in time that comes.
* `ByteArray::read(buf, size, position)` and `getReadBuffers(.., position)` away from the
  current position, `readFromFile` (a loop of writes), `toHexString`.
* `http_parser.cc` is third-party code, modelled as far as phase0 uses it: not the strict
  mode, pausing, HTTP_BOTH, F_SKIPBODY and the names of errors.
* HTTP: cookies and parameters of a request, status texts, the bodies of servlets.
* Socket: connect and the send and receive wrappers (a check of `m_isConnected` around one
  hooked call), options, cached addresses; `Stream::readFixSize` and the ByteArray overloads,
  whose loop is the one of `writeFixSize`.
* Address: pure functions over library structures, without state after construction.
* Config: variables are looked up by static initialisers and loaded by one thread before
  servers start; each access is one critical section.
* Log: formatting and output, one critical section per logger and appender.
* utils: helpers without state of their own.

## 7. What is left

All modules of section 2 and all safety invariants of the runs except those that section 4
lists under "Only model-checked" are done.  Worth adding, in this order:

1. `ImplementsFile` as a theorem: `Fetch` and `Store` along a `Walk` are reading and overwriting a
   part of `Content`; the lemmas of `ByteArrayProofs` about walks are the first half.
2. `TcpServer`: that a handled client was accepted once, as an action property.
3. `RequestAsSent` for single classes of messages, along the states of the parser.
