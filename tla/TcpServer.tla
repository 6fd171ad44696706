----------------------------- MODULE TcpServer -----------------------------
(***************************************************************************)
(* TcpServer (src/tcpserver/tcpserver.cc) on Socket (src/socket/socket.cc):*)
(* the caller's bind loop, start and stop, the accept fibers and the task  *)
(* of stop() on the accept worker, and handleClient on the I/O worker.     *)
(*                                                                         *)
(* A Socket object is named by the address it listens on or by the client  *)
(* it is connected to; kernel is the table of descriptors, which are used  *)
(* again, lowest first.  A fiber runs on a thread of the accept worker     *)
(* until it waits or ends; the steps of hooked accept and close between    *)
(* which another thread can run are steps here (Hook has the rest).        *)
(* A stopped server is not started again.                                  *)
(***************************************************************************)
EXTENDS Naturals, Sequences, SequencesExt, FiniteSets

CONSTANTS
    addrs,          \* the addresses given to bind, in order
    Conn,           \* bound: the clients
    MaxFd,          \* the descriptors of the process
    AcceptThreads,  \* threads of m_acceptWorker
    IoThreads,      \* threads of m_ioWorker
    FreshFails      \* the caller gives each call of bind a new list of failures

Addr == {addrs[i] : i \in DOMAIN addrs}

ASSUME ServerAssumption ==
    /\ MaxFd \in Nat /\ MaxFd >= Len(addrs) /\ Len(addrs) > 0
    /\ {AcceptThreads, IoThreads} \subseteq Nat \ {0}
    /\ FreshFails \in BOOLEAN /\ Addr \cap Conn = {} /\ addrs \in Seq(Addr)
    /\ (Addr \cup Conn) \cap {"free", "stop", "none", "queued", "handling", "done", "refused"} = {}

VARIABLES
    pc,        \* where the caller is
    todo,      \* the addresses this call of bind has not tried
    fails,     \* the caller's list of failed addresses, as a set
    taken,     \* addresses another process has
    m_socks,   \* the vector of listening sockets, by their addresses
    m_isStop,
    m_sock,    \* Socket::m_sock of every object, 0 for -1
    kernel,    \* what each descriptor is: "free", an address or a client
    fiber,     \* the accept fiber of each socket
    fd,        \* the descriptor its accept was called with
    queue,     \* the tasks of the accept worker: addresses and "stop"
    stopper,   \* the running task of stop(): what it does next, the sockets left
    conn       \* the clients: "none", the address if pending, and later states

bvars == <<todo, fails>>
svars == <<m_socks, m_isStop>>
avars == <<fiber, fd>>
vars == <<pc, bvars, taken, svars, m_sock, kernel, avars, queue, stopper, conn>>

Object == Addr \cup Conn
Idle == [at |-> "idle", left |-> <<>>]

Init ==
    /\ pc = "program" /\ todo = <<>> /\ fails = {} /\ taken \in SUBSET Addr
    /\ m_socks = <<>> /\ m_isStop = TRUE
    /\ m_sock = [s \in Object |-> 0] /\ kernel = [f \in 1..MaxFd |-> "free"]
    /\ fiber = [a \in Addr |-> "none"] /\ fd = [a \in Addr |-> 0]
    /\ queue = <<>> /\ stopper = Idle /\ conn = [c \in Conn |-> "none"]

-----------------------------------------------------------------------------
(* Sockets.                                                                *)

Free == {f \in 1..MaxFd : kernel[f] = "free"}

\* newSock, or the descriptor accept returns: the lowest that is free.
newSock(s) ==
    /\ kernel' = [kernel EXCEPT ![Min(Free)] = s]
    /\ m_sock' = [m_sock EXCEPT ![s] = Min(Free)]

\* Mutant of close: the descriptor is kept.
CloseKeepsNumber(socks) ==
    /\ kernel' = [f \in DOMAIN kernel |-> IF \E s \in socks : m_sock[s] = f THEN "free" ELSE kernel[f]]
    /\ UNCHANGED m_sock

\* close and the destructor, without the wake-up of hooked close.
close(socks) ==
    /\ kernel' = [f \in DOMAIN kernel |-> IF \E s \in socks : m_sock[s] = f THEN "free" ELSE kernel[f]]
    /\ m_sock' = [s \in Object |-> IF s \in socks THEN 0 ELSE m_sock[s]]

\* cancelAll: the fiber that waits for the descriptor is scheduled.
Waiting(f) == {a \in Addr : fiber[a] = "waiting" /\ fd[a] = f /\ f # 0}
cancelAll(f) ==
    /\ fiber' = [a \in Addr |-> IF a \in Waiting(f) THEN "ready" ELSE fiber[a]]
    /\ queue' = queue \o SetToSeq(Waiting(f))

Socks == ToSet(m_socks)
Listening(a) == a \in Socks /\ m_sock[a] # 0

-----------------------------------------------------------------------------
(* The caller: while (!bind()) sleep(); start(); stop().                   *)

\* A call of bind.  The overload for one address has a list of its own; the
\* other one adds to the caller's.
bind ==
    /\ pc = "program" /\ pc' = "bind" /\ todo' = addrs
    /\ fails' = IF FreshFails THEN {} ELSE fails
    /\ UNCHANGED <<taken, svars, m_sock, kernel, avars, queue, stopper, conn>>

\* Socket::CreateTCP and Socket::bind; a socket that fails is destroyed.  That
\* an address is taken, by another process or by a socket that this call has
\* bound already, shows in bind(2), for a Unix address in a connect.
BindAddress ==
    /\ pc = "bind" /\ todo # <<>>
    /\ IF Free = {} \/ Head(todo) \in taken \cup Socks
       THEN /\ fails' = fails \cup {Head(todo)} /\ todo' = Tail(todo)
            /\ UNCHANGED <<pc, m_sock, kernel>>
       ELSE /\ newSock(Head(todo)) /\ pc' = "listen" /\ UNCHANGED bvars
    /\ UNCHANGED <<taken, svars, avars, queue, stopper, conn>>

\* Socket::listen: another process may have come first.
listen ==
    /\ pc = "listen" /\ pc' = "bind" /\ todo' = Tail(todo)
    /\ IF Head(todo) \in taken
       THEN /\ fails' = fails \cup {Head(todo)} /\ close({Head(todo)}) /\ UNCHANGED m_socks
       ELSE m_socks' = Append(m_socks, Head(todo)) /\ UNCHANGED <<fails, m_sock, kernel>>
    /\ UNCHANGED <<taken, m_isStop, avars, queue, stopper, conn>>

\* Mutant of BindReturn: the sockets that were bound are kept.
BindKeepsSockets ==
    /\ pc = "bind" /\ todo = <<>> /\ pc' = IF fails = {} THEN "bound" ELSE "program"
    /\ UNCHANGED <<bvars, taken, svars, m_sock, kernel, avars, queue, stopper, conn>>

\* The end of bind: after a failure all sockets are destroyed.
BindReturn ==
    /\ pc = "bind" /\ todo = <<>>
    /\ IF fails = {} THEN pc' = "bound" /\ UNCHANGED <<m_socks, m_sock, kernel, conn>>
       ELSE /\ pc' = "program" /\ m_socks' = <<>> /\ close(Socks)
            /\ conn' = [c \in Conn |-> IF conn[c] \in Socks THEN "refused" ELSE conn[c]]
    /\ UNCHANGED <<bvars, taken, m_isStop, avars, queue, stopper>>

start ==
    /\ pc = "bound" /\ pc' = "started" /\ m_isStop' = FALSE
    /\ fiber' = [a \in Addr |-> IF a \in Socks THEN "queued" ELSE fiber[a]]
    /\ queue' = queue \o m_socks
    /\ UNCHANGED <<bvars, taken, m_socks, m_sock, kernel, fd, stopper, conn>>

stop ==
    /\ pc \in {"bound", "started"} /\ pc' = "stopped" /\ m_isStop' = TRUE
    /\ queue' = Append(queue, "stop")
    /\ UNCHANGED <<bvars, taken, m_socks, m_sock, kernel, avars, stopper, conn>>

\* The caller's pointer to the server goes out of scope.
Release ==
    /\ pc \in {"bound", "started", "stopped"} /\ pc' = "released"
    /\ UNCHANGED <<bvars, taken, svars, m_sock, kernel, avars, queue, stopper, conn>>

\* ~TcpServer, once no fiber and no task holds shared_from_this.
Destroy ==
    /\ pc = "released" /\ pc' = "destroyed"
    /\ queue = <<>> /\ stopper = Idle /\ \A a \in Addr : fiber[a] = "none"
    /\ \A c \in Conn : conn[c] \notin {"queued", "handling"}
    /\ m_socks' = <<>> /\ close(Socks)
    /\ conn' = [c \in Conn |-> IF conn[c] \in Socks THEN "refused" ELSE conn[c]]
    /\ UNCHANGED <<bvars, taken, m_isStop, avars, queue, stopper>>

-----------------------------------------------------------------------------
(* The accept worker.                                                      *)

Busy == {a \in Addr : fiber[a] \in {"top", "accept", "eagain"}}
Threads == Cardinality(Busy) + (IF stopper = Idle THEN 0 ELSE 1)

\* A free thread takes the next task.
Take ==
    /\ queue # <<>> /\ Threads < AcceptThreads /\ queue' = Tail(queue)
    /\ IF Head(queue) = "stop"
       THEN /\ stopper' = [at |-> "cancel", left |-> m_socks]
            /\ UNCHANGED fiber
       ELSE /\ fiber' = [fiber EXCEPT ![Head(queue)] = IF @ = "queued" THEN "top" ELSE "accept"]
            /\ UNCHANGED stopper
    /\ UNCHANGED <<pc, bvars, taken, svars, m_sock, kernel, fd, conn>>

\* Mutant of startAccept: while (true).
AcceptForever(a) ==
    /\ fiber[a] = "top"
    /\ fiber' = [fiber EXCEPT ![a] = "accept"] /\ fd' = [fd EXCEPT ![a] = m_sock[a]]
    /\ UNCHANGED <<pc, bvars, taken, svars, m_sock, kernel, queue, stopper, conn>>

\* The head of the loop in startAccept, and the call of Socket::accept.
startAccept(a) ==
    /\ fiber[a] = "top"
    /\ fiber' = [fiber EXCEPT ![a] = IF m_isStop THEN "none" ELSE "accept"]
    /\ fd' = [fd EXCEPT ![a] = IF m_isStop THEN 0 ELSE m_sock[a]]
    /\ UNCHANGED <<pc, bvars, taken, svars, m_sock, kernel, queue, stopper, conn>>

\* Mutant of accept: an error ends the fiber.
AcceptEndsOnError(a) ==
    /\ fiber[a] = "accept"
    /\ LET open == fd[a] # 0 /\ kernel[fd[a]] = a
       IN  \/ /\ open /\ Free # {} /\ \E c \in Conn : conn[c] = a /\ newSock(c)
                    /\ conn' = [conn EXCEPT ![c] = "queued"]
              /\ fiber' = [fiber EXCEPT ![a] = "top"]
           \/ /\ open /\ \A c \in Conn : conn[c] # a
              /\ fiber' = [fiber EXCEPT ![a] = "eagain"] /\ UNCHANGED <<m_sock, kernel, conn>>
           \/ /\ ~open \/ (Free = {} /\ \E c \in Conn : conn[c] = a)
              /\ fiber' = [fiber EXCEPT ![a] = "none"] /\ UNCHANGED <<m_sock, kernel, conn>>
    /\ UNCHANGED <<pc, bvars, taken, svars, fd, queue, stopper>>

\* accept on the descriptor: a client, which gets its receive timeout and is
\* given to the I/O worker; EAGAIN; or an error (closed, another socket by
\* now, or no descriptor left), which startAccept only logs.
accept(a) ==
    /\ fiber[a] = "accept"
    /\ LET open == fd[a] # 0 /\ kernel[fd[a]] = a
       IN  \/ /\ open /\ Free # {} /\ \E c \in Conn : conn[c] = a /\ newSock(c)
                    /\ conn' = [conn EXCEPT ![c] = "queued"]
              /\ fiber' = [fiber EXCEPT ![a] = "top"]
           \/ /\ open /\ \A c \in Conn : conn[c] # a
              /\ fiber' = [fiber EXCEPT ![a] = "eagain"] /\ UNCHANGED <<m_sock, kernel, conn>>
           \/ /\ ~open \/ (Free = {} /\ \E c \in Conn : conn[c] = a)
              /\ fiber' = [fiber EXCEPT ![a] = "top"] /\ UNCHANGED <<m_sock, kernel, conn>>
    /\ UNCHANGED <<pc, bvars, taken, svars, fd, queue, stopper>>

\* After EAGAIN: addEvent, which fails on a closed descriptor, and the yield.
AcceptWaits(a) ==
    /\ fiber[a] = "eagain"
    /\ fiber' = [fiber EXCEPT ![a] = IF kernel[fd[a]] = "free" THEN "top" ELSE "waiting"]
    /\ UNCHANGED <<pc, bvars, taken, svars, m_sock, kernel, fd, queue, stopper, conn>>

\* epoll reports the descriptor: a pending client, or data of the client
\* that has the descriptor now.
Event(a) ==
    /\ fiber[a] = "waiting"
    /\ kernel[fd[a]] = a => \E c \in Conn : conn[c] = a
    /\ kernel[fd[a]] # "free"
    /\ fiber' = [fiber EXCEPT ![a] = "ready"] /\ queue' = Append(queue, a)
    /\ UNCHANGED <<pc, bvars, taken, svars, m_sock, kernel, fd, stopper, conn>>

\* The task of stop(), for each socket: cancelAll; hooked close, which
\* cancels again and then closes; at the end m_socks.clear().
StopCancel ==
    /\ stopper.at \in {"cancel", "close"} /\ stopper.left # <<>>
    /\ cancelAll(m_sock[Head(stopper.left)])
    /\ stopper' = [stopper EXCEPT !.at = IF @ = "cancel" THEN "close" ELSE "close_f"]
    /\ UNCHANGED <<pc, bvars, taken, svars, m_sock, kernel, fd, conn>>

StopClose ==
    /\ stopper.at = "close_f" /\ close({Head(stopper.left)})
    /\ stopper' = [at |-> "cancel", left |-> Tail(stopper.left)]
    /\ conn' = [c \in Conn |-> IF conn[c] = Head(stopper.left) THEN "refused" ELSE conn[c]]
    /\ UNCHANGED <<pc, bvars, taken, svars, avars, queue>>

StopClear ==
    /\ stopper.at = "cancel" /\ stopper.left = <<>> /\ stopper' = Idle /\ m_socks' = <<>>
    /\ UNCHANGED <<pc, bvars, taken, m_isStop, m_sock, kernel, avars, queue, conn>>

-----------------------------------------------------------------------------
(* The I/O worker and the environment.                                     *)

\* handleClient, which a subclass overrides: it runs on a thread until the
\* receive timeout at the latest, and the Socket is destroyed with the task.
\* Hooked close there cancels the events of the descriptor in m_ioWorker, where
\* only this task has waited for it; the waiters of m_acceptWorker stay.
handleClient(c) ==
    /\ conn[c] = "queued" /\ Cardinality({d \in Conn : conn[d] = "handling"}) < IoThreads
    /\ conn' = [conn EXCEPT ![c] = "handling"]
    /\ UNCHANGED <<pc, bvars, taken, svars, m_sock, kernel, avars, queue, stopper>>

HandleEnd(c) ==
    /\ conn[c] = "handling" /\ conn' = [conn EXCEPT ![c] = "done"]
    /\ close({c})
    /\ UNCHANGED <<pc, bvars, taken, svars, avars, queue, stopper>>

Connect(c) ==
    /\ conn[c] = "none" /\ \E a \in Addr : Listening(a) /\ conn' = [conn EXCEPT ![c] = a]
    /\ UNCHANGED <<pc, bvars, taken, svars, m_sock, kernel, avars, queue, stopper>>

\* Another process takes or leaves an address.
OtherProcess(a) ==
    /\ pc \in {"program", "bind", "listen"} /\ ~Listening(a)
    /\ taken' = IF a \in taken THEN taken \ {a} ELSE taken \cup {a}
    /\ UNCHANGED <<pc, bvars, svars, m_sock, kernel, avars, queue, stopper, conn>>

Bind == bind \/ BindAddress \/ listen \/ BindReturn
AcceptFiber(a) == startAccept(a) \/ accept(a) \/ AcceptWaits(a)
StopTask == StopCancel \/ StopClose \/ StopClear

Next ==
    \/ Bind \/ start \/ stop \/ Release \/ Destroy
    \/ Take \/ StopTask \/ \E a \in Addr : AcceptFiber(a) \/ Event(a) \/ OtherProcess(a)
    \/ \E c \in Conn : handleClient(c) \/ HandleEnd(c) \/ Connect(c)

Spec == Init /\ [][Next]_vars

\* Threads run, epoll reports what is ready and the caller's loop goes on;
\* nothing is assumed of clients, of other processes or of the caller after
\* bind.
FairSpec ==
    /\ Spec /\ WF_vars(Bind) /\ WF_vars(Take) /\ WF_vars(StopTask)
    /\ \A a \in Addr : WF_vars(AcceptFiber(a)) /\ WF_vars(Event(a))
    /\ WF_vars(\E c \in Conn : handleClient(c) \/ HandleEnd(c))

-----------------------------------------------------------------------------
(* Properties.                                                             *)

\* A fiber whose waiter belongs to a descriptor its socket no longer has: it
\* registered between the cancelAll and the close of hooked close.
Orphaned == \E a \in Addr : fiber[a] = "waiting" /\ kernel[fd[a]] # a

\* Who keeps a Socket object alive.
Held(s) ==
    IF s \in Addr THEN s \in Socks \/ (pc = "listen" /\ s = Head(todo))
                  ELSE conn[s] \in {"queued", "handling"}

\* Every open descriptor belongs to exactly one Socket, which something
\* holds, and every Socket's descriptor is open and its own, although numbers
\* are used again: nothing leaks, and no destructor closes another socket.
DescriptorsOwned ==
    /\ \A s \in Object, f \in 1..MaxFd : kernel[f] = s <=> m_sock[s] = f
    /\ \A s \in Object : m_sock[s] # 0 => Held(s)

\* bind is all or nothing: when it has returned true the server listens on
\* every address until the task of stop() or the destructor runs, when it
\* has returned false on none.
BindAllOrNothing ==
    /\ pc = "program" => m_socks = <<>> /\ \A f \in 1..MaxFd : kernel[f] = "free"
    /\ pc \in {"bound", "started"} \/ (pc = "stopped" /\ "stop" \in ToSet(queue)) =>
            \A a \in Addr : Listening(a) /\ kernel[m_sock[a]] = a

\* The loop `while (!server->bind(addrs, fails)) sleep(2);` of the tests and the
\* README ends when the addresses become free for good.
BindEnds == <>[](taken = {}) => <>(pc \notin {"program", "bind", "listen"})

\* stop() ends every accept fiber and leaves no listening descriptor, also
\* when fibers spin because no descriptor is left.  The exception is a fiber
\* that registers its waiter inside hooked close, on another thread.
AcceptEnds ==
    ("stop" \in ToSet(queue)) ~>
        \/ AcceptThreads > 1 /\ Orphaned
        \/ \A a \in Addr : fiber[a] = "none" /\ m_sock[a] = 0 /\ a \notin Socks

\* A client that connects to a started server is handled to the end, unless
\* the server is stopped: accept errors such as EMFILE delay it only.
EveryClientHandled ==
    \A c \in Conn : (conn[c] \in Addr /\ ~m_isStop) ~> (conn[c] = "done" \/ m_isStop)
=============================================================================
