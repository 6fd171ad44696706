-------------------------- MODULE TcpServerProofs --------------------------
(***************************************************************************)
(* Proofs about TcpServer for any list of addresses, any number of         *)
(* clients, of descriptors and of threads.                                 *)
(***************************************************************************)
EXTENDS TcpServer, FiniteSetTheorems, SequenceTheorems, TLAPS

-----------------------------------------------------------------------------
(* The inductive invariant.                                                *)

CallerPC == {"program", "bind", "listen", "bound", "started", "stopped", "released", "destroyed"}
FiberState == {"none", "queued", "top", "accept", "eagain", "waiting", "ready"}
ConnState == {"none", "queued", "handling", "done", "refused"}

\* Every variable keeps its type.
TypeOK ==
    /\ pc \in CallerPC /\ todo \in Seq(Addr) /\ fails \in SUBSET Addr /\ taken \in SUBSET Addr
    /\ m_socks \in Seq(Addr) /\ m_isStop \in BOOLEAN
    /\ m_sock \in [Object -> 0..MaxFd] /\ kernel \in [1..MaxFd -> Object \cup {"free"}]
    /\ fiber \in [Addr -> FiberState] /\ fd \in [Addr -> 0..MaxFd]
    /\ queue \in Seq(Addr \cup {"stop"})
    /\ stopper \in [at : {"idle", "cancel", "close", "close_f"}, left : Seq(Addr)]
    /\ conn \in [Conn -> Addr \cup ConnState]

\* The call of bind is at its head of the list; every address before it is
\* listened on or among the failures.
BindInv ==
    /\ pc = "listen" => todo # <<>> /\ Head(todo) \notin Socks /\ m_sock[Head(todo)] # 0
    /\ pc \in {"bind", "listen"} => \A a \in Addr : a \in Socks \cup fails \cup ToSet(todo)
    /\ pc \in {"bound", "started"} => \A a \in Addr : a \in Socks
    /\ pc = "program" => m_socks = <<>>

\* Before start() nothing runs and no client has a socket.
QuietInv ==
    /\ pc \in {"program", "bind", "listen", "bound"} =>
          /\ queue = <<>> /\ stopper = Idle
          /\ \A a \in Addr : fiber[a] = "none"
          /\ \A c \in Conn : conn[c] \notin {"queued", "handling"}
    /\ pc = "started" => stopper = Idle /\ "stop" \notin ToSet(queue)

\* There is one task of stop(): while it waits all sockets listen, and while it
\* runs the ones that are still open are ahead of it.
StopOnce == \A i, j \in DOMAIN queue : queue[i] = "stop" /\ queue[j] = "stop" => i = j
StopInv ==
    /\ StopOnce
    /\ "stop" \in ToSet(queue) => stopper = Idle /\ \A a \in Addr : a \in Socks
    /\ stopper = Idle => \A a \in Socks : m_sock[a] # 0
    /\ stopper # Idle => \A a \in Addr : m_sock[a] # 0 => a \in ToSet(stopper.left)
    /\ stopper.at \in {"close", "close_f"} => stopper.left # <<>>
    /\ stopper.at = "idle" => stopper = Idle

\* The two parts of DescriptorsOwned.
Owned == \A s \in Object, f \in 1..MaxFd : kernel[f] = s <=> m_sock[s] = f
AllHeld == \A s \in Object : m_sock[s] # 0 => Held(s)

ServerInv == TypeOK /\ Owned /\ AllHeld /\ BindInv /\ QuietInv /\ StopInv

-----------------------------------------------------------------------------
(* Sequences and names.                                                    *)

\* The elements of a sequence that grows at its end.
LEMMA ToSetConcat ==
    ASSUME NEW S, NEW s \in Seq(S), NEW t \in Seq(S)
    PROVE  s \o t \in Seq(S) /\ ToSet(s \o t) = ToSet(s) \cup ToSet(t)
<1>1. /\ s \o t \in Seq(S) /\ Len(s \o t) = Len(s) + Len(t)
      /\ \A i \in 1..Len(s) + Len(t) :
            (s \o t)[i] = IF i <= Len(s) THEN s[i] ELSE t[i - Len(s)]
  BY ConcatProperties
<1>2. /\ Len(s) \in Nat /\ Len(t) \in Nat /\ DOMAIN s = 1..Len(s) /\ DOMAIN t = 1..Len(t)
      /\ DOMAIN (s \o t) = 1..(Len(s) + Len(t))
  BY <1>1, LenProperties
<1>3. ToSet(s \o t) \subseteq ToSet(s) \cup ToSet(t)
  <2> SUFFICES ASSUME NEW i \in 1..(Len(s) + Len(t))
               PROVE  (s \o t)[i] \in ToSet(s) \cup ToSet(t)
    BY <1>2 DEF ToSet
  <2>1. CASE i <= Len(s)
    BY <1>1, <1>2, <2>1 DEF ToSet
  <2>2. CASE ~(i <= Len(s))
    <3>1. i - Len(s) \in DOMAIN t
      BY <1>2, <2>2
    <3> QED BY <1>1, <2>2, <3>1 DEF ToSet
  <2> QED BY <2>1, <2>2
<1>4. ToSet(s) \subseteq ToSet(s \o t)
  BY <1>1, <1>2 DEF ToSet
<1>5. ToSet(t) \subseteq ToSet(s \o t)
  <2> SUFFICES ASSUME NEW i \in DOMAIN t PROVE t[i] \in ToSet(s \o t)
    BY DEF ToSet
  <2>1. PICK k \in DOMAIN (s \o t) : k = i + Len(s)
    BY <1>2
  <2>2. (s \o t)[k] = t[i]
    <3>1. k \in 1..Len(s) + Len(t) /\ ~(k <= Len(s)) /\ k - Len(s) = i
      BY <1>2, <2>1
    <3> QED BY <1>1, <3>1
  <2> QED BY <2>2 DEF ToSet
<1> QED BY <1>1, <1>3, <1>4, <1>5

\* The same for one element.
LEMMA ToSetAppend ==
    ASSUME NEW S, NEW s \in Seq(S), NEW e \in S
    PROVE  Append(s, e) \in Seq(S) /\ ToSet(Append(s, e)) = ToSet(s) \cup {e}
<1>1. /\ Append(s, e) \in Seq(S) /\ Len(Append(s, e)) = Len(s) + 1
      /\ \A i \in 1..Len(s) : Append(s, e)[i] = s[i]
      /\ Append(s, e)[Len(s) + 1] = e
  BY AppendProperties
<1>2. Len(s) \in Nat /\ DOMAIN s = 1..Len(s) /\ DOMAIN Append(s, e) = 1..(Len(s) + 1)
  BY <1>1, LenProperties
<1> QED BY <1>1, <1>2 DEF ToSet

\* The elements of a sequence that loses its first one.
LEMMA ToSetTail ==
    ASSUME NEW S, NEW s \in Seq(S), s # <<>>
    PROVE  /\ Head(s) \in S /\ Tail(s) \in Seq(S) /\ Head(s) = s[1] /\ Head(s) \in ToSet(s)
           /\ ToSet(s) = {Head(s)} \cup ToSet(Tail(s))
           /\ \A i \in DOMAIN Tail(s) : i + 1 \in DOMAIN s /\ Tail(s)[i] = s[i + 1]
<1>1. /\ Head(s) \in S /\ Tail(s) \in Seq(S) /\ Len(Tail(s)) = Len(s) - 1
      /\ \A i \in 1..Len(Tail(s)) : Tail(s)[i] = s[i + 1]
  BY HeadTailProperties
<1>2. Len(s) \in Nat \ {0} /\ DOMAIN s = 1..Len(s) /\ DOMAIN Tail(s) = 1..(Len(s) - 1)
  BY <1>1, LenProperties, EmptySeq
<1>3. Head(s) = s[1]
  BY DEF Head
<1>4. \A i \in DOMAIN s : i = 1 \/ (i - 1 \in DOMAIN Tail(s) /\ Tail(s)[i - 1] = s[i])
  BY <1>1, <1>2
<1>5. \A i \in DOMAIN Tail(s) : i + 1 \in DOMAIN s /\ Tail(s)[i] = s[i + 1]
  BY <1>1, <1>2
<1>6. ToSet(s) = {Head(s)} \cup ToSet(Tail(s))
  <2>1. ToSet(s) \subseteq {Head(s)} \cup ToSet(Tail(s))
    BY <1>3, <1>4 DEF ToSet
  <2>2. Head(s) \in ToSet(s)
    BY <1>2, <1>3 DEF ToSet
  <2>3. ToSet(Tail(s)) \subseteq ToSet(s)
    BY <1>5 DEF ToSet
  <2> QED BY <2>1, <2>2, <2>3
<1>7. Head(s) \in ToSet(s)
  BY <1>6
<1> QED BY <1>1, <1>3, <1>5, <1>6, <1>7

\* A sequence has no other elements than its type says.
LEMMA ToSetOfSeq ==
    ASSUME NEW S, NEW s \in Seq(S)
    PROVE  ToSet(s) \subseteq S /\ (ToSet(s) = {} <=> s = <<>>)
<1>1. ToSet(s) \subseteq S
  BY LenProperties, ElementOfSeq DEF ToSet
<1>2. s # <<>> => ToSet(s) # {}
  BY ToSetTail
<1>3. s = <<>> => ToSet(s) = {}
  BY DEF ToSet
<1> QED BY <1>1, <1>2, <1>3

\* The addresses are finitely many.
LEMMA AddrFinite == IsFiniteSet(Addr)
<1>1. addrs \in Surjection(DOMAIN addrs, Addr)
  BY ServerAssumption, LenProperties DEF Surjection, Addr
<1>2. IsFiniteSet(DOMAIN addrs)
  BY ServerAssumption, LenProperties, FS_Interval
<1> QED BY <1>1, <1>2, FS_Surjection

\* cancelAll appends addresses to the queue, whatever their order.
LEMMA SetToSeqType ==
    ASSUME NEW W \in SUBSET Addr
    PROVE  SetToSeq(W) \in Seq(Addr)
<1>1. IsFiniteSet(W)
  BY AddrFinite, FS_Subset
<1>2. Cardinality(W) \in Nat /\ ExistsBijection(1..Cardinality(W), W)
  BY <1>1, FS_CardinalityType
<1>3. PICK f \in Bijection(1..Cardinality(W), W) : TRUE
  BY <1>2 DEF ExistsBijection
<1>4. f \in [1..Cardinality(W) -> W] /\ IsInjective(f)
  BY DEF Bijection, Injection, Surjection, IsInjective
<1>5. SetToSeq(W) \in [1..Cardinality(W) -> W]
  BY <1>4 DEF SetToSeq
<1> QED BY <1>2, <1>5, SeqDef

-----------------------------------------------------------------------------
(* The table of descriptors.                                               *)

\* The lowest free descriptor is free.
LEMMA MinFree ==
    ASSUME Free # {}
    PROVE  Min(Free) \in Free
<1> DEFINE R == OpToRel(<, Nat)
<1>1. Free \subseteq Nat
  BY ServerAssumption DEF Free
<1>2. PICK k \in Free : \A j \in Free : ~ (<<j, k>> \in R)
  <2>1. IsWellFoundedOn(R, Nat)
    BY NatLessThanWellFounded
  <2> HIDE DEF R
  <2> QED BY <1>1, <2>1, WFMin
<1>3. \A j \in Free : k <= j
  <2>1. \A i, j \in Nat : i < j => <<i, j>> \in R
    BY DEF OpToRel
  <2> HIDE DEF R
  <2>2. \A j \in Free : ~(j < k)
    BY <1>1, <1>2, <2>1
  <2> QED BY <1>1, <2>2
<1> QED BY <1>3 DEF Min

\* A socket that has no descriptor gets one that nobody has.
LEMMA NewSockOwned ==
    ASSUME TypeOK, Owned, NEW s \in Object, m_sock[s] = 0, Free # {}, newSock(s)
    PROVE  /\ Owned'
           /\ m_sock' \in [Object -> 0..MaxFd] /\ kernel' \in [1..MaxFd -> Object \cup {"free"}]
           /\ m_sock'[s] # 0
           /\ \A r \in Object : r # s => m_sock'[r] = m_sock[r]
<1> PICK f \in Free : f = Min(Free)
  BY MinFree
<1>1. f \in 1..MaxFd /\ kernel[f] = "free" /\ f # 0 /\ f \in 0..MaxFd
  BY ServerAssumption DEF Free
<1>2. kernel' = [kernel EXCEPT ![f] = s] /\ m_sock' = [m_sock EXCEPT ![s] = f]
  BY DEF newSock
<1>3. \A r \in Object : r # "free" /\ m_sock[r] # f
  BY <1>1, ServerAssumption DEF Owned, Object
<1>4. /\ m_sock' \in [Object -> 0..MaxFd] /\ kernel' \in [1..MaxFd -> Object \cup {"free"}]
      /\ m_sock'[s] # 0 /\ \A r \in Object : r # s => m_sock'[r] = m_sock[r]
  BY <1>1, <1>2 DEF TypeOK
<1>5. Owned'
  BY <1>1, <1>2, <1>3 DEF TypeOK, Owned
<1> QED BY <1>4, <1>5

\* Closed sockets have no descriptor, and only theirs become free.
LEMMA CloseOwned ==
    ASSUME TypeOK, Owned, NEW socks \in SUBSET Object, close(socks)
    PROVE  /\ Owned'
           /\ m_sock' \in [Object -> 0..MaxFd] /\ kernel' \in [1..MaxFd -> Object \cup {"free"}]
           /\ \A s \in Object : m_sock'[s] = IF s \in socks THEN 0 ELSE m_sock[s]
<1>1. /\ kernel' = [f \in 1..MaxFd |->
                      IF \E s \in socks : m_sock[s] = f THEN "free" ELSE kernel[f]]
      /\ m_sock' = [s \in Object |-> IF s \in socks THEN 0 ELSE m_sock[s]]
  BY DEF close, TypeOK
<1>2. m_sock' \in [Object -> 0..MaxFd] /\ kernel' \in [1..MaxFd -> Object \cup {"free"}]
  BY <1>1, ServerAssumption DEF TypeOK
<1>3. \A s \in Object : s # "free"
  BY ServerAssumption DEF Object
<1>4. \A f \in 1..MaxFd : f # 0
  BY ServerAssumption
<1>5. Owned'
  BY <1>1, <1>3, <1>4 DEF Owned
<1> QED BY <1>1, <1>2, <1>5

\* The queue of the accept worker grows by accept fibers: the task of stop()
\* stays where it is.
LEMMA QueueGrows ==
    ASSUME TypeOK, NEW q \in Seq(Addr), queue' = queue \o q
    PROVE  /\ queue' \in Seq(Addr \cup {"stop"})
           /\ "stop" \in ToSet(queue') <=> "stop" \in ToSet(queue)
           /\ StopOnce => StopOnce'
<1>1. q \in Seq(Addr \cup {"stop"}) /\ queue \in Seq(Addr \cup {"stop"})
  BY SeqMonotonic DEF TypeOK
<1>2. "stop" \notin ToSet(q)
  BY ToSetOfSeq, ServerAssumption
<1>3. queue' \in Seq(Addr \cup {"stop"}) /\ ToSet(queue') = ToSet(queue) \cup ToSet(q)
  BY <1>1, ToSetConcat
<1>4. ASSUME NEW i \in DOMAIN queue', queue'[i] = "stop"
      PROVE  i \in DOMAIN queue /\ queue[i] = "stop"
  <2>1. /\ Len(queue') = Len(queue) + Len(q) /\ Len(queue) \in Nat /\ Len(q) \in Nat
        /\ DOMAIN queue' = 1..(Len(queue) + Len(q))
        /\ DOMAIN queue = 1..Len(queue) /\ DOMAIN q = 1..Len(q)
        /\ queue'[i] = IF i <= Len(queue) THEN queue[i] ELSE q[i - Len(queue)]
    BY <1>1, <1>3, ConcatProperties, LenProperties
  <2>2. CASE i <= Len(queue)
    BY <1>4, <2>1, <2>2
  <2>3. CASE ~(i <= Len(queue))
    <3>1. i - Len(queue) \in DOMAIN q
      BY <2>1, <2>3
    <3> QED BY <1>2, <1>4, <2>1, <2>3, <3>1 DEF ToSet
  <2> QED BY <2>2, <2>3
<1> QED BY <1>2, <1>3, <1>4 DEF StopOnce

-----------------------------------------------------------------------------
(* The caller's steps preserve the invariant.                              *)

\* The names of states are not names of sockets.
LEMMA Names ==
    /\ \A a \in Addr : a \in Object /\ a \notin Conn /\ a \notin ConnState /\ a # "stop"
    /\ \A c \in Conn : c \in Object /\ c \notin Addr
    /\ \A s \in Object : s \in Addr \/ s \in Conn
BY ServerAssumption DEF Object, ConnState

\* A new call of bind has every address before it.
LEMMA BindInvariant == ASSUME ServerInv, bind PROVE ServerInv'
<1> USE DEF ServerInv, bind, svars, avars
<1>1. addrs \in Seq(Addr) /\ \A a \in Addr : a \in ToSet(addrs)
  BY ServerAssumption DEF Addr, ToSet
<1>2. TypeOK'
  BY <1>1 DEF TypeOK, CallerPC
<1>3. Owned' /\ AllHeld'
  BY DEF Owned, AllHeld, Held, Socks
<1>4. BindInv'
  BY <1>1 DEF BindInv
<1>5. QuietInv' /\ StopInv'
  BY DEF QuietInv, StopInv, StopOnce, Socks
<1> QED BY <1>2, <1>3, <1>4, <1>5

\* An address that fails joins the failures; the Socket of one that does not
\* has no descriptor before and an unused one after.
LEMMA BindAddressInvariant == ASSUME ServerInv, BindAddress PROVE ServerInv'
<1> USE DEF ServerInv, BindAddress, svars, avars, bvars
<1>1. /\ Head(todo) \in Addr /\ Tail(todo) \in Seq(Addr)
      /\ ToSet(todo) = {Head(todo)} \cup ToSet(Tail(todo))
  BY ToSetTail DEF TypeOK
<1>2. Socks' = Socks
  BY DEF Socks
<1>3. CASE Free = {} \/ Head(todo) \in taken \cup Socks
  <2>1. TypeOK'
    BY <1>1, <1>3 DEF TypeOK
  <2>2. Owned' /\ AllHeld'
    BY <1>2, <1>3 DEF Owned, AllHeld, Held
  <2>3. BindInv'
    BY <1>1, <1>2, <1>3 DEF BindInv
  <2>4. QuietInv' /\ StopInv'
    BY <1>2, <1>3 DEF QuietInv, StopInv, StopOnce
  <2> QED BY <2>1, <2>2, <2>3, <2>4
<1>4. CASE ~(Free = {} \/ Head(todo) \in taken \cup Socks)
  <2>1. m_sock[Head(todo)] = 0
    BY <1>1, <1>4, Names DEF AllHeld, Held
  <2>2. newSock(Head(todo)) /\ Head(todo) \in Object /\ Free # {}
    BY <1>1, <1>4, Names
  <2>3. /\ Owned' /\ m_sock'[Head(todo)] # 0
        /\ m_sock' \in [Object -> 0..MaxFd] /\ kernel' \in [1..MaxFd -> Object \cup {"free"}]
        /\ \A r \in Object : r # Head(todo) => m_sock'[r] = m_sock[r]
    BY <2>1, <2>2, NewSockOwned
  <2>4. TypeOK'
    BY <1>4, <2>3 DEF TypeOK, CallerPC
  <2>5. AllHeld'
    BY <1>1, <1>2, <1>4, <2>3, Names DEF AllHeld, Held
  <2>6. BindInv'
    BY <1>2, <1>4, <2>3 DEF BindInv
  <2>7. QuietInv' /\ StopInv'
    BY <1>2, <1>4, <2>3, Names, ToSetOfSeq DEF QuietInv, StopInv, StopOnce, Idle, TypeOK, Socks
  <2> QED BY <2>3, <2>4, <2>5, <2>6, <2>7
<1> QED BY <1>3, <1>4

\* listen gives the socket to m_socks or destroys it.
LEMMA ListenInvariant == ASSUME ServerInv, listen PROVE ServerInv'
<1> USE DEF ServerInv, listen, avars
<1>1. /\ Head(todo) \in Addr /\ Tail(todo) \in Seq(Addr) /\ Head(todo) \in Object
      /\ ToSet(todo) = {Head(todo)} \cup ToSet(Tail(todo))
      /\ Head(todo) \notin Socks /\ m_sock[Head(todo)] # 0
  BY ToSetTail, Names DEF TypeOK, BindInv
<1>2. CASE Head(todo) \in taken
  <2>1. close({Head(todo)}) /\ Socks' = Socks
    BY <1>2 DEF Socks
  <2>2. /\ Owned' /\ \A s \in Object : m_sock'[s] = IF s = Head(todo) THEN 0 ELSE m_sock[s]
        /\ m_sock' \in [Object -> 0..MaxFd] /\ kernel' \in [1..MaxFd -> Object \cup {"free"}]
    BY <1>1, <2>1, CloseOwned
  <2>3. TypeOK'
    BY <1>1, <1>2, <2>2 DEF TypeOK, CallerPC
  <2>4. AllHeld'
    BY <1>1, <2>1, <2>2, Names DEF AllHeld, Held
  <2>5. BindInv'
    BY <1>1, <1>2, <2>1 DEF BindInv
  <2>6. QuietInv' /\ StopInv'
    BY <1>1, <2>1, <2>2, Names, ToSetOfSeq DEF QuietInv, StopInv, StopOnce, Idle, TypeOK, Socks
  <2> QED BY <2>2, <2>3, <2>4, <2>5, <2>6
<1>3. CASE Head(todo) \notin taken
  <2>1. m_socks' \in Seq(Addr) /\ Socks' = Socks \cup {Head(todo)}
    <3>1. m_socks' = Append(m_socks, Head(todo)) /\ m_socks \in Seq(Addr)
      BY <1>3 DEF TypeOK
    <3> QED BY <1>1, <3>1, ToSetAppend DEF Socks
  <2>2. TypeOK'
    BY <1>1, <1>3, <2>1 DEF TypeOK, CallerPC
  <2>3. Owned' /\ AllHeld'
    BY <1>3, <2>1 DEF Owned, AllHeld, Held
  <2>4. BindInv'
    BY <1>1, <1>3, <2>1 DEF BindInv
  <2>5. QuietInv' /\ StopInv'
    BY <1>1, <1>3, <2>1 DEF QuietInv, StopInv, StopOnce
  <2> QED BY <2>2, <2>3, <2>4, <2>5
<1> QED BY <1>2, <1>3

\* bind returns with all addresses in m_socks, or with none and no descriptor.
LEMMA BindReturnInvariant == ASSUME ServerInv, BindReturn PROVE ServerInv'
<1> USE DEF ServerInv, BindReturn, avars, bvars
<1>1. CASE fails = {}
  <2>1. ToSet(todo) = {}
    BY ToSetOfSeq DEF TypeOK
  <2>2. TypeOK'
    BY <1>1 DEF TypeOK, CallerPC
  <2>3. Owned' /\ AllHeld'
    BY <1>1 DEF Owned, AllHeld, Held, Socks
  <2>4. BindInv'
    BY <1>1, <2>1 DEF BindInv, Socks
  <2>5. QuietInv' /\ StopInv'
    BY <1>1 DEF QuietInv, StopInv, StopOnce, Socks
  <2> QED BY <2>2, <2>3, <2>4, <2>5
<1>2. CASE fails # {}
  <2>1. close(Socks) /\ Socks \subseteq Addr /\ Socks \subseteq Object /\ Socks' = {}
    <3>1. m_socks' = <<>> /\ m_socks \in Seq(Addr) /\ close(Socks)
      BY <1>2 DEF TypeOK
    <3> QED BY <3>1, Names, ToSetOfSeq, EmptySeq DEF Socks
  <2>2. /\ Owned' /\ \A s \in Object : m_sock'[s] = IF s \in Socks THEN 0 ELSE m_sock[s]
        /\ m_sock' \in [Object -> 0..MaxFd] /\ kernel' \in [1..MaxFd -> Object \cup {"free"}]
    BY <2>1, CloseOwned
  <2>3. conn' \in [Conn -> Addr \cup ConnState] /\ \A c \in Conn : conn'[c] \in {conn[c], "refused"}
    BY <1>2 DEF TypeOK, ConnState
  <2>4. TypeOK'
    BY <1>2, <2>2, <2>3 DEF TypeOK, CallerPC
  <2>5. \A s \in Object : m_sock'[s] = 0
    BY <2>1, <2>2, Names DEF AllHeld, Held, QuietInv
  <2>6. AllHeld'
    BY <2>5 DEF AllHeld
  <2>7. BindInv'
    BY <1>2 DEF BindInv
  <2>8. QuietInv'
    BY <1>2, <2>3 DEF QuietInv
  <2>9. StopInv'
    <3>1. queue = <<>> /\ stopper = Idle
      BY DEF QuietInv
    <3> QED BY <2>1, <3>1, ToSetOfSeq, EmptySeq DEF StopInv, StopOnce, Idle
  <2> QED BY <2>2, <2>4, <2>6, <2>7, <2>8, <2>9
<1> QED BY <1>1, <1>2

\* start() queues one accept fiber for each socket, on an empty queue.
LEMMA StartInvariant == ASSUME ServerInv, start PROVE ServerInv'
<1> USE DEF ServerInv, start, bvars
<1>1. m_socks \in Seq(Addr) /\ queue' = queue \o m_socks /\ Socks' = Socks
  BY DEF TypeOK, Socks
<1>2. /\ queue' \in Seq(Addr \cup {"stop"}) /\ (StopOnce => StopOnce')
      /\ "stop" \in ToSet(queue') <=> "stop" \in ToSet(queue)
  BY <1>1, QueueGrows
<1>3. queue = <<>> /\ stopper = Idle /\ "stop" \notin ToSet(queue)
  BY ToSetOfSeq, EmptySeq DEF QuietInv
<1>4. TypeOK'
  BY <1>2 DEF TypeOK, CallerPC, FiberState
<1>5. Owned' /\ AllHeld'
  BY <1>1 DEF Owned, AllHeld, Held
<1>6. BindInv'
  BY <1>1 DEF BindInv
<1>7. QuietInv'
  BY <1>2, <1>3 DEF QuietInv
<1>8. StopInv'
  BY <1>1, <1>2, <1>3 DEF StopInv
<1> QED BY <1>4, <1>5, <1>6, <1>7, <1>8

\* stop() queues its task, the only one.
LEMMA StopInvariant == ASSUME ServerInv, stop PROVE ServerInv'
<1> USE DEF ServerInv, stop, avars, bvars
<1>1. /\ "stop" \notin ToSet(queue) /\ stopper = Idle /\ Socks' = Socks
      /\ \A a \in Addr : a \in Socks
  BY ToSetOfSeq, EmptySeq DEF QuietInv, BindInv, Socks
<1>2. queue \in Seq(Addr \cup {"stop"}) /\ "stop" \in Addr \cup {"stop"}
  BY DEF TypeOK
<1>3. /\ queue' \in Seq(Addr \cup {"stop"}) /\ Len(queue') = Len(queue) + 1
      /\ Len(queue) \in Nat /\ DOMAIN queue = 1..Len(queue) /\ DOMAIN queue' = 1..(Len(queue) + 1)
      /\ \A i \in 1..Len(queue) : queue'[i] = queue[i]
  BY <1>2, AppendProperties, LenProperties
<1>4. StopOnce'
  <2>1. ASSUME NEW i \in DOMAIN queue', queue'[i] = "stop" PROVE i = Len(queue) + 1
    BY <1>1, <1>3, <2>1 DEF ToSet
  <2> QED BY <2>1 DEF StopOnce
<1>5. TypeOK'
  BY <1>3 DEF TypeOK, CallerPC
<1>6. Owned' /\ AllHeld'
  BY <1>1 DEF Owned, AllHeld, Held
<1>7. BindInv' /\ QuietInv'
  BY DEF BindInv, QuietInv
<1>8. StopInv'
  BY <1>1, <1>4 DEF StopInv
<1> QED BY <1>5, <1>6, <1>7, <1>8

\* The caller gives up its pointer.
LEMMA ReleaseInvariant == ASSUME ServerInv, Release PROVE ServerInv'
<1> USE DEF ServerInv, Release, svars, avars, bvars
<1>1. TypeOK'
  BY DEF TypeOK, CallerPC
<1>2. Owned' /\ AllHeld'
  BY DEF Owned, AllHeld, Held, Socks
<1>3. BindInv' /\ QuietInv' /\ StopInv'
  BY DEF BindInv, QuietInv, StopInv, StopOnce, Socks
<1> QED BY <1>1, <1>2, <1>3

\* The destructor closes what is still open.
LEMMA DestroyInvariant == ASSUME ServerInv, Destroy PROVE ServerInv'
<1> USE DEF ServerInv, Destroy, avars, bvars
<1>1. close(Socks) /\ Socks \subseteq Addr /\ Socks \subseteq Object /\ Socks' = {}
  <2>1. m_socks' = <<>> /\ m_socks \in Seq(Addr) /\ close(Socks)
    BY DEF TypeOK
  <2> QED BY <2>1, Names, ToSetOfSeq, EmptySeq DEF Socks
<1>2. /\ Owned' /\ \A s \in Object : m_sock'[s] = IF s \in Socks THEN 0 ELSE m_sock[s]
      /\ m_sock' \in [Object -> 0..MaxFd] /\ kernel' \in [1..MaxFd -> Object \cup {"free"}]
  BY <1>1, CloseOwned
<1>3. conn' \in [Conn -> Addr \cup ConnState]
  BY DEF TypeOK, ConnState
<1>4. TypeOK'
  BY <1>2, <1>3 DEF TypeOK, CallerPC
<1>5. AllHeld'
  <2>1. \A s \in Object : m_sock'[s] = 0
    BY <1>1, <1>2, Names DEF AllHeld, Held
  <2> QED BY <2>1 DEF AllHeld
<1>6. BindInv' /\ QuietInv'
  BY DEF BindInv, QuietInv
<1>7. StopInv'
  <2>1. queue = <<>> /\ stopper = Idle
    OBVIOUS
  <2> QED BY <1>1, <2>1, ToSetOfSeq, EmptySeq DEF StopInv, StopOnce, Idle
<1> QED BY <1>2, <1>4, <1>5, <1>6, <1>7

-----------------------------------------------------------------------------
(* The steps of the accept worker preserve the invariant.                  *)

\* What a thread that runs something says about the caller.
LEMMA NotQuiet ==
    ASSUME QuietInv, \/ \E a \in Addr : fiber[a] # "none"
                     \/ \E c \in Conn : conn[c] \in {"queued", "handling"}
                     \/ queue # <<>> \/ stopper # Idle
    PROVE  pc \notin {"program", "bind", "listen", "bound"}
BY DEF QuietInv

\* The task of stop() starts with all sockets; an accept fiber starts or goes on.
LEMMA TakeInvariant == ASSUME ServerInv, Take PROVE ServerInv'
<1> USE DEF ServerInv, Take, svars, bvars
<1>1. /\ queue \in Seq(Addr \cup {"stop"}) /\ queue # <<>>
      /\ m_socks \in Seq(Addr) /\ Socks' = Socks /\ pc' = pc
      /\ pc \notin {"program", "bind", "listen", "bound"}
  BY NotQuiet DEF TypeOK, Socks
<1>2. /\ Head(queue) \in Addr \cup {"stop"} /\ Tail(queue) \in Seq(Addr \cup {"stop"})
      /\ Head(queue) = queue[1] /\ Head(queue) \in ToSet(queue)
      /\ ToSet(queue) = {Head(queue)} \cup ToSet(Tail(queue))
      /\ \A i \in DOMAIN Tail(queue) : i + 1 \in DOMAIN queue /\ Tail(queue)[i] = queue[i + 1]
  BY <1>1, ToSetTail
<1>3. DOMAIN Tail(queue) \subseteq Nat \ {0} /\ 1 \in DOMAIN queue
  BY <1>1, <1>2, LenProperties, EmptySeq
<1>4. StopOnce'
  <2>1. \A i, j \in DOMAIN Tail(queue) : i + 1 = j + 1 => i = j
    BY <1>3
  <2> QED BY <1>2, <2>1 DEF StopInv, StopOnce
<1>5. Owned' /\ AllHeld' /\ BindInv'
  BY <1>1 DEF Owned, AllHeld, Held, BindInv
<1>6. CASE Head(queue) = "stop"
  <2>1. stopper' = [at |-> "cancel", left |-> m_socks] /\ fiber' = fiber
    BY <1>6
  <2>2. TypeOK'
    BY <1>1, <1>2, <2>1 DEF TypeOK
  <2>3. "stop" \notin ToSet(queue')
    <3> SUFFICES ASSUME NEW i \in DOMAIN Tail(queue), Tail(queue)[i] = "stop" PROVE FALSE
      BY DEF ToSet
    <3>1. i + 1 = 1
      BY <1>2, <1>3, <1>6 DEF StopInv, StopOnce
    <3> QED BY <1>3, <3>1
  <2>4. pc # "started"
    BY <1>2, <1>6 DEF QuietInv
  <2>5. QuietInv'
    BY <1>1, <2>4 DEF QuietInv
  <2>6. StopInv'
    <3>1. \A a \in Addr : m_sock[a] # 0 => a \in ToSet(m_socks)
      BY <1>1, Names DEF AllHeld, Held, Socks
    <3> QED BY <1>4, <2>1, <2>3, <3>1 DEF StopInv, Idle
  <2> QED BY <1>5, <2>2, <2>5, <2>6
<1>7. CASE Head(queue) # "stop"
  <2>1. stopper' = stopper /\ fiber' \in [Addr -> FiberState]
    BY <1>2, <1>7 DEF TypeOK, FiberState
  <2>2. TypeOK'
    BY <1>2, <2>1 DEF TypeOK
  <2>3. QuietInv'
    BY <1>1, <1>2, <2>1 DEF QuietInv
  <2>4. StopInv'
    BY <1>1, <1>2, <1>4, <2>1 DEF StopInv
  <2> QED BY <1>5, <2>2, <2>3, <2>4
<1> QED BY <1>6, <1>7

\* The head of the loop.
LEMMA StartAcceptInvariant == ASSUME ServerInv, NEW a \in Addr, startAccept(a) PROVE ServerInv'
<1> USE DEF ServerInv, startAccept, svars, bvars
<1>1. pc' = pc /\ pc \notin {"program", "bind", "listen", "bound"} /\ Socks' = Socks
  BY NotQuiet DEF Socks
<1>2. TypeOK'
  BY Names, ServerAssumption DEF TypeOK, FiberState
<1>3. Owned' /\ AllHeld' /\ BindInv'
  BY <1>1 DEF Owned, AllHeld, Held, BindInv
<1>4. QuietInv' /\ StopInv'
  BY <1>1 DEF QuietInv, StopInv, StopOnce
<1> QED BY <1>2, <1>3, <1>4

\* A pending client has no Socket; the one accept makes for it has a
\* descriptor of its own and is queued.
LEMMA AcceptInvariant == ASSUME ServerInv, NEW a \in Addr, accept(a) PROVE ServerInv'
<1> USE DEF ServerInv, accept, svars, bvars
<1>1. /\ pc' = pc /\ pc \notin {"program", "bind", "listen", "bound"}
      /\ Socks' = Socks /\ Socks \subseteq Addr
  BY NotQuiet, ToSetOfSeq DEF Socks, TypeOK
<1>2. CASE UNCHANGED <<m_sock, kernel, conn>>
  <2>1. TypeOK'
    BY <1>2 DEF TypeOK, FiberState
  <2>2. Owned' /\ AllHeld' /\ BindInv'
    BY <1>1, <1>2 DEF Owned, AllHeld, Held, BindInv
  <2>3. QuietInv' /\ StopInv'
    BY <1>1, <1>2 DEF QuietInv, StopInv, StopOnce
  <2> QED BY <2>1, <2>2, <2>3
<1>3. CASE /\ Free # {} /\ fiber' = [fiber EXCEPT ![a] = "top"]
           /\ \E c \in Conn : conn[c] = a /\ newSock(c) /\ conn' = [conn EXCEPT ![c] = "queued"]
  <2>1. PICK c \in Conn : conn[c] = a /\ newSock(c) /\ conn' = [conn EXCEPT ![c] = "queued"]
    BY <1>3
  <2>2. c \in Object /\ m_sock[c] = 0
    BY <2>1, Names DEF AllHeld, Held, ConnState
  <2>3. /\ Owned' /\ \A r \in Object : r # c => m_sock'[r] = m_sock[r]
        /\ m_sock' \in [Object -> 0..MaxFd] /\ kernel' \in [1..MaxFd -> Object \cup {"free"}]
    BY <1>3, <2>1, <2>2, NewSockOwned
  <2>4. conn' \in [Conn -> Addr \cup ConnState] /\ conn'[c] = "queued" /\ \A d \in Conn : d # c => conn'[d] = conn[d]
    BY <2>1 DEF TypeOK, ConnState
  <2>5. \A s \in Addr : m_sock'[s] = m_sock[s]
    BY <2>3, Names
  <2>6. TypeOK'
    BY <1>3, <2>3, <2>4 DEF TypeOK, FiberState
  <2>7. AllHeld'
    BY <1>1, <2>3, <2>4, <2>5, Names DEF AllHeld, Held
  <2>8. BindInv' /\ QuietInv'
    BY <1>1 DEF BindInv, QuietInv
  <2>9. StopInv'
    BY <1>1, <2>5 DEF StopInv, StopOnce
  <2> QED BY <2>3, <2>6, <2>7, <2>8, <2>9
<1> QED BY <1>2, <1>3

\* A fiber that goes to wait, or that finds its descriptor closed.
LEMMA AcceptWaitsInvariant == ASSUME ServerInv, NEW a \in Addr, AcceptWaits(a) PROVE ServerInv'
<1> USE DEF ServerInv, AcceptWaits, svars, bvars
<1>1. pc' = pc /\ pc \notin {"program", "bind", "listen", "bound"} /\ Socks' = Socks
  BY NotQuiet DEF Socks
<1>2. TypeOK'
  BY DEF TypeOK, FiberState
<1>3. Owned' /\ AllHeld' /\ BindInv'
  BY <1>1 DEF Owned, AllHeld, Held, BindInv
<1>4. QuietInv' /\ StopInv'
  BY <1>1 DEF QuietInv, StopInv, StopOnce
<1> QED BY <1>2, <1>3, <1>4

\* A fiber is queued by epoll.
LEMMA EventInvariant == ASSUME ServerInv, NEW a \in Addr, Event(a) PROVE ServerInv'
<1> USE DEF ServerInv, Event, svars, bvars
<1>1. pc' = pc /\ pc \notin {"program", "bind", "listen", "bound"} /\ Socks' = Socks
  BY NotQuiet DEF Socks
<1>2. queue' = queue \o <<a>> /\ <<a>> \in Seq(Addr)
  BY AppendIsConcat DEF TypeOK
<1>3. /\ queue' \in Seq(Addr \cup {"stop"}) /\ (StopOnce => StopOnce')
      /\ "stop" \in ToSet(queue') <=> "stop" \in ToSet(queue)
  BY <1>2, QueueGrows
<1>4. TypeOK'
  BY <1>3 DEF TypeOK, FiberState
<1>5. Owned' /\ AllHeld' /\ BindInv'
  BY <1>1 DEF Owned, AllHeld, Held, BindInv
<1>6. QuietInv' /\ StopInv'
  BY <1>1, <1>3 DEF QuietInv, StopInv
<1> QED BY <1>4, <1>5, <1>6

\* cancelAll queues accept fibers.
LEMMA CancelAllQueue ==
    ASSUME TypeOK, NEW f, cancelAll(f)
    PROVE  /\ queue' \in Seq(Addr \cup {"stop"}) /\ (StopOnce => StopOnce')
           /\ "stop" \in ToSet(queue') <=> "stop" \in ToSet(queue)
           /\ fiber' \in [Addr -> FiberState]
<1>1. Waiting(f) \in SUBSET Addr
  BY DEF Waiting
<1>2. SetToSeq(Waiting(f)) \in Seq(Addr) /\ queue' = queue \o SetToSeq(Waiting(f))
  BY <1>1, SetToSeqType DEF cancelAll
<1>3. fiber' \in [Addr -> FiberState]
  BY DEF cancelAll, TypeOK, FiberState
<1> QED BY <1>2, <1>3, QueueGrows

\* The task of stop() wakes the waiter of the socket it is at.
LEMMA StopCancelInvariant == ASSUME ServerInv, StopCancel PROVE ServerInv'
<1> USE DEF ServerInv, StopCancel, svars, bvars
<1>1. stopper # Idle /\ stopper.left # <<>>
  BY DEF Idle
<1>2. /\ pc' = pc /\ pc \notin {"program", "bind", "listen", "bound", "started"}
      /\ Socks' = Socks /\ "stop" \notin ToSet(queue)
  BY <1>1, NotQuiet DEF Socks, QuietInv, StopInv
<1>3. /\ queue' \in Seq(Addr \cup {"stop"}) /\ (StopOnce => StopOnce')
      /\ "stop" \in ToSet(queue') <=> "stop" \in ToSet(queue)
      /\ fiber' \in [Addr -> FiberState]
  BY CancelAllQueue
<1>4. stopper'.left = stopper.left /\ stopper'.at \in {"close", "close_f"}
      /\ stopper' \in [at : {"idle", "cancel", "close", "close_f"}, left : Seq(Addr)]
  BY DEF TypeOK
<1>5. stopper' # Idle
  BY <1>4 DEF Idle
<1>6. TypeOK'
  BY <1>3, <1>4 DEF TypeOK
<1>7. Owned' /\ AllHeld' /\ BindInv'
  BY <1>2 DEF Owned, AllHeld, Held, BindInv
<1>8. QuietInv'
  BY <1>2 DEF QuietInv
<1>9. StopInv'
  BY <1>1, <1>2, <1>3, <1>4, <1>5 DEF StopInv
<1> QED BY <1>6, <1>7, <1>8, <1>9

\* The task of stop() closes the socket it is at: the others are ahead of it.
LEMMA StopCloseInvariant == ASSUME ServerInv, StopClose PROVE ServerInv'
<1> USE DEF ServerInv, StopClose, svars, avars, bvars
<1>1. stopper # Idle /\ stopper.left # <<>> /\ stopper.left \in Seq(Addr)
  BY DEF Idle, StopInv, TypeOK
<1>2. /\ pc' = pc /\ pc \notin {"program", "bind", "listen", "bound", "started"}
      /\ Socks' = Socks /\ "stop" \notin ToSet(queue)
  BY <1>1, NotQuiet DEF Socks, QuietInv, StopInv
<1>3. /\ Head(stopper.left) \in Addr /\ Tail(stopper.left) \in Seq(Addr)
      /\ Head(stopper.left) \in Object
      /\ ToSet(stopper.left) = {Head(stopper.left)} \cup ToSet(Tail(stopper.left))
  BY <1>1, ToSetTail, Names
<1>4. /\ Owned' /\ m_sock' \in [Object -> 0..MaxFd] /\ kernel' \in [1..MaxFd -> Object \cup {"free"}]
      /\ \A s \in Object : m_sock'[s] = IF s = Head(stopper.left) THEN 0 ELSE m_sock[s]
  BY <1>3, CloseOwned
<1>5. /\ conn' \in [Conn -> Addr \cup ConnState]
      /\ \A c \in Conn : conn[c] \in {"queued", "handling"} => conn'[c] = conn[c]
  BY <1>3, Names DEF TypeOK, ConnState
<1>6. stopper'.left = Tail(stopper.left) /\ stopper'.at = "cancel" /\ stopper' # Idle
  BY DEF Idle
<1>7. TypeOK'
  BY <1>3, <1>4, <1>5 DEF TypeOK
<1>8. AllHeld'
  BY <1>2, <1>4, <1>5, Names DEF AllHeld, Held
<1>9. BindInv' /\ QuietInv'
  BY <1>2 DEF BindInv, QuietInv
<1>10. StopInv'
  <2>1. \A s \in Addr : m_sock'[s] # 0 => s \in ToSet(Tail(stopper.left))
    BY <1>1, <1>3, <1>4, Names DEF StopInv
  <2> QED BY <1>2, <1>6, <2>1 DEF StopInv, StopOnce
<1> QED BY <1>4, <1>7, <1>8, <1>9, <1>10

\* When the task of stop() clears m_socks no listening socket is open.
LEMMA StopClearInvariant == ASSUME ServerInv, StopClear PROVE ServerInv'
<1> USE DEF ServerInv, StopClear, avars, bvars
<1>1. stopper # Idle /\ ToSet(stopper.left) = {} /\ m_socks' = <<>> /\ Socks' = {}
  <2>1. ToSet(<<>>) = {}
    BY DEF ToSet
  <2> QED BY <2>1 DEF Idle, Socks
<1>2. /\ pc' = pc /\ pc \notin {"program", "bind", "listen", "bound", "started"}
      /\ "stop" \notin ToSet(queue)
  BY <1>1, NotQuiet DEF QuietInv, StopInv
<1>3. \A a \in Addr : m_sock[a] = 0
  BY <1>1 DEF StopInv
<1>4. TypeOK'
  BY <1>1, EmptySeq DEF TypeOK, Idle
<1>5. Owned' /\ AllHeld'
  BY <1>3, Names DEF Owned, AllHeld, Held
<1>6. BindInv' /\ QuietInv'
  BY <1>2 DEF BindInv, QuietInv
<1>7. StopInv'
  BY <1>1, <1>2 DEF StopInv, StopOnce, Idle
<1> QED BY <1>4, <1>5, <1>6, <1>7

-----------------------------------------------------------------------------
(* The steps of the I/O worker and of the environment.                     *)

\* A thread of the I/O worker takes a client.
LEMMA HandleClientInvariant == ASSUME ServerInv, NEW c \in Conn, handleClient(c) PROVE ServerInv'
<1> USE DEF ServerInv, handleClient, svars, avars, bvars
<1>1. pc' = pc /\ pc \notin {"program", "bind", "listen", "bound"} /\ Socks' = Socks
  BY NotQuiet DEF Socks
<1>2. /\ conn' \in [Conn -> Addr \cup ConnState]
      /\ \A d \in Conn : conn[d] \in {"queued", "handling"} => conn'[d] \in {"queued", "handling"}
  BY DEF TypeOK, ConnState
<1>3. TypeOK'
  BY <1>2 DEF TypeOK
<1>4. Owned' /\ AllHeld'
  BY <1>1, <1>2, Names DEF Owned, AllHeld, Held
<1>5. BindInv' /\ QuietInv' /\ StopInv'
  BY <1>1 DEF BindInv, QuietInv, StopInv, StopOnce
<1> QED BY <1>3, <1>4, <1>5

\* The Socket of a client is destroyed with the end of its task.
LEMMA HandleEndInvariant == ASSUME ServerInv, NEW c \in Conn, HandleEnd(c) PROVE ServerInv'
<1> USE DEF ServerInv, HandleEnd, svars, bvars, avars
<1>1. /\ pc' = pc /\ pc \notin {"program", "bind", "listen", "bound"}
      /\ Socks' = Socks /\ Socks \subseteq Addr
  BY NotQuiet, ToSetOfSeq DEF Socks, TypeOK
<1>2. /\ queue' \in Seq(Addr \cup {"stop"}) /\ (StopOnce => StopOnce')
      /\ "stop" \in ToSet(queue') <=> "stop" \in ToSet(queue)
      /\ fiber' \in [Addr -> FiberState]
  BY DEF TypeOK, StopOnce
<1>3. /\ Owned' /\ m_sock' \in [Object -> 0..MaxFd] /\ kernel' \in [1..MaxFd -> Object \cup {"free"}]
      /\ \A s \in Object : m_sock'[s] = IF s = c THEN 0 ELSE m_sock[s]
  BY CloseOwned, Names
<1>4. /\ conn' \in [Conn -> Addr \cup ConnState]
      /\ \A d \in Conn : d # c => conn'[d] = conn[d]
  BY DEF TypeOK, ConnState
<1>5. \A a \in Addr : m_sock'[a] = m_sock[a]
  BY <1>3, Names
<1>6. TypeOK'
  BY <1>2, <1>3, <1>4 DEF TypeOK
<1>7. AllHeld'
  BY <1>1, <1>3, <1>4, <1>5, Names DEF AllHeld, Held
<1>8. BindInv' /\ QuietInv'
  BY <1>1, <1>2 DEF BindInv, QuietInv
<1>9. StopInv'
  BY <1>1, <1>2, <1>5 DEF StopInv
<1> QED BY <1>3, <1>6, <1>7, <1>8, <1>9

\* A client connects: it has no Socket yet.
LEMMA ConnectInvariant == ASSUME ServerInv, NEW c \in Conn, Connect(c) PROVE ServerInv'
<1> USE DEF ServerInv, Connect, svars, avars, bvars
<1>1. pc' = pc /\ Socks' = Socks
  BY DEF Socks
<1>2. /\ conn' \in [Conn -> Addr \cup ConnState]
      /\ conn'[c] \in Addr /\ \A d \in Conn : d # c => conn'[d] = conn[d]
  BY DEF TypeOK, ConnState
<1>3. m_sock[c] = 0 /\ conn'[c] \notin {"queued", "handling"}
  BY <1>2, Names DEF AllHeld, Held, ConnState
<1>4. TypeOK'
  BY <1>2 DEF TypeOK
<1>5. Owned' /\ AllHeld'
  BY <1>1, <1>2, <1>3, Names DEF Owned, AllHeld, Held
<1>6. BindInv'
  BY <1>1 DEF BindInv
<1>7. QuietInv'
  BY <1>1, <1>2, <1>3 DEF QuietInv
<1>8. StopInv'
  BY <1>1 DEF StopInv, StopOnce
<1> QED BY <1>4, <1>5, <1>6, <1>7, <1>8

\* Another process takes or leaves an address.
LEMMA OtherProcessInvariant == ASSUME ServerInv, NEW a \in Addr, OtherProcess(a) PROVE ServerInv'
<1> USE DEF ServerInv, OtherProcess, svars, avars, bvars
<1>1. TypeOK'
  BY DEF TypeOK
<1>2. Owned' /\ AllHeld'
  BY DEF Owned, AllHeld, Held, Socks
<1>3. BindInv' /\ QuietInv' /\ StopInv'
  BY DEF BindInv, QuietInv, StopInv, StopOnce, Socks
<1> QED BY <1>1, <1>2, <1>3

-----------------------------------------------------------------------------
(* The theorems.                                                           *)

\* Every step of TcpServer preserves the inductive invariant.
LEMMA ServerInvNext == ASSUME ServerInv, [Next]_vars PROVE ServerInv'
<1>1. CASE Bind
  BY <1>1, BindInvariant, BindAddressInvariant, ListenInvariant, BindReturnInvariant DEF Bind
<1>2. CASE start \/ stop \/ Release \/ Destroy
  BY <1>2, StartInvariant, StopInvariant, ReleaseInvariant, DestroyInvariant
<1>3. CASE Take \/ StopTask
  BY <1>3, TakeInvariant, StopCancelInvariant, StopCloseInvariant, StopClearInvariant DEF StopTask
<1>4. CASE \E a \in Addr : AcceptFiber(a) \/ Event(a) \/ OtherProcess(a)
  BY <1>4, StartAcceptInvariant, AcceptInvariant, AcceptWaitsInvariant, EventInvariant,
     OtherProcessInvariant DEF AcceptFiber
<1>5. CASE \E c \in Conn : handleClient(c) \/ HandleEnd(c) \/ Connect(c)
  BY <1>5, HandleClientInvariant, HandleEndInvariant, ConnectInvariant
<1>6. CASE UNCHANGED vars
  <2> USE <1>6 DEF vars, bvars, svars, avars, ServerInv
  <2>1. TypeOK'
    BY DEF TypeOK
  <2>2. Owned' /\ AllHeld' /\ BindInv'
    BY DEF Owned, AllHeld, Held, BindInv, Socks
  <2>3. QuietInv' /\ StopInv'
    BY DEF QuietInv, StopInv, StopOnce, Socks
  <2> QED BY <2>1, <2>2, <2>3
<1> QED BY <1>1, <1>2, <1>3, <1>4, <1>5, <1>6 DEF Next

\* The invariant holds from the constructor on.
THEOREM ServerInvHolds == Spec => []ServerInv
<1>1. Init => ServerInv
  <2> SUFFICES ASSUME Init PROVE ServerInv
    OBVIOUS
  <2>1. TypeOK
    BY ServerAssumption, EmptySeq DEF Init, TypeOK, CallerPC, ConnState, FiberState, Idle
  <2>2. Owned
    BY ServerAssumption DEF Init, Owned, Object
  <2>3. AllHeld
    BY DEF Init, AllHeld
  <2>4. BindInv /\ QuietInv
    BY DEF Init, BindInv, QuietInv
  <2>5. StopInv
    <3>1. Socks = {} /\ "stop" \notin ToSet(queue)
      BY ToSetOfSeq, EmptySeq DEF Init, Socks
    <3> QED BY <3>1, EmptySeq DEF Init, StopInv, StopOnce, Idle
  <2> QED BY <2>1, <2>2, <2>3, <2>4, <2>5 DEF ServerInv
<1> QED BY <1>1, ServerInvNext, PTL DEF Spec

\* No descriptor leaks, and none is closed by a Socket that does not own it,
\* whatever the order in which bind, accept, stop() and the destructors of
\* the Sockets use the numbers again.
THEOREM DescriptorsOwnedHolds == Spec => []DescriptorsOwned
<1>1. ServerInv => DescriptorsOwned
  BY DEF ServerInv, DescriptorsOwned, Owned, AllHeld
<1> QED BY <1>1, ServerInvHolds, PTL

\* bind leaves a server that listens on every address, until the task of
\* stop() or the destructor runs, or one that has no descriptor at all.
THEOREM BindAllOrNothingHolds == Spec => []BindAllOrNothing
<1>1. ServerInv => BindAllOrNothing
  <2> SUFFICES ASSUME ServerInv PROVE BindAllOrNothing
    OBVIOUS
  <2> USE DEF ServerInv
  <2>1. ASSUME pc = "program", NEW f \in 1..MaxFd PROVE m_socks = <<>> /\ kernel[f] = "free"
    <3>1. m_socks = <<>> /\ Socks = {}
      BY <2>1, ToSetOfSeq, EmptySeq DEF BindInv, Socks
    <3>2. \A s \in Object : m_sock[s] = 0
      BY <2>1, <3>1, Names DEF AllHeld, Held, QuietInv
    <3>3. f # 0 /\ kernel[f] \in Object \cup {"free"}
      BY ServerAssumption DEF TypeOK
    <3> QED BY <3>1, <3>2, <3>3 DEF Owned
  <2>2. pc = "program" => m_socks = <<>>
    BY DEF BindInv
  <2>3. ASSUME pc \in {"bound", "started"} \/ (pc = "stopped" /\ "stop" \in ToSet(queue)),
               NEW a \in Addr
        PROVE  Listening(a) /\ kernel[m_sock[a]] = a
    <3>1. a \in Socks /\ stopper = Idle
      BY <2>3 DEF BindInv, QuietInv, StopInv
    <3>2. a \in Object /\ m_sock[a] # 0 /\ m_sock[a] \in 0..MaxFd
      BY <3>1, Names DEF StopInv, TypeOK
    <3>3. m_sock[a] \in 1..MaxFd
      BY <3>2, ServerAssumption
    <3> QED BY <3>1, <3>2, <3>3 DEF Owned, Listening
  <2> QED BY <2>1, <2>2, <2>3 DEF BindAllOrNothing
<1> QED BY <1>1, ServerInvHolds, PTL
=============================================================================
