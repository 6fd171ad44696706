-------------------------- MODULE ByteArrayProofs ---------------------------
(***************************************************************************)
(* ArrayInv of ByteArray for all node sizes, byte and word widths, buffers *)
(* and items: the loops over the chain stay on it and leave the cursor at  *)
(* the node of the position.                                               *)
(***************************************************************************)
EXTENDS ByteArray, SequenceTheorems, WellFoundedInduction, TLAPS

-----------------------------------------------------------------------------
(* Induction and loops.                                                    *)

\* Induction up to n.
LEMMA Induct ==
    ASSUME NEW n \in Nat, NEW K, 0 \in K, \A k \in 1..n : k - 1 \in K => k \in K
    PROVE  \A k \in 0..n : k \in K
<1> SUFFICES ASSUME ~ \A k \in 0..n : k \in K PROVE FALSE
  OBVIOUS
<1> DEFINE R == OpToRel(<, Nat)
           T == {k \in 0..n : k \notin K}
<1>1. IsWellFoundedOn(R, Nat)
  BY NatLessThanWellFounded
<1>2. \A i, j \in Nat : i < j => <<i, j>> \in R
  BY DEF OpToRel
<1> HIDE DEF R
<1>0. T \subseteq Nat /\ T # {}
  OBVIOUS
<1>3. PICK k \in T : \A j \in T : ~ (<<j, k>> \in R)
  BY <1>0, <1>1, WFMin
<1>4. k \in 1..n /\ k - 1 \in 0..n /\ k - 1 < k
  BY <1>3
<1>5. <<k - 1, k>> \in R
  BY <1>2, <1>4
<1>6. k - 1 \notin T
  BY <1>3, <1>5
<1> QED BY <1>3, <1>4, <1>6

\* Induction for n itself.
LEMMA InductTo ==
    ASSUME NEW n \in Nat, NEW K, 0 \in K, \A k \in 1..n : k - 1 \in K => k \in K
    PROVE  n \in K
<1>1. \A k \in 0..n : k \in K
  BY Induct
<1> QED BY <1>1

\* What each turn keeps.
LEMMA Stays ==
    ASSUME NEW n \in Nat, NEW e, NEW S, e[0] \in S, \A k \in 1..n : e[k - 1] \in S => e[k] \in S
    PROVE  \A k \in 0..n : e[k] \in S
<1> DEFINE K == {k \in 0..n : e[k] \in S}
<1>1. 0 \in K /\ \A k \in 1..n : k - 1 \in K => k \in K
  OBVIOUS
<1> HIDE DEF K
<1>2. \A k \in 0..n : k \in K
  BY <1>1, Induct
<1> QED BY <1>2 DEF K

\* f[k] is the state of a loop after k turns.
IsLoop(f, n, a, g) == f = [k \in 0..n |-> IF k = 0 THEN a ELSE g[k][f[k - 1]]]

\* A loop of n turns that keeps an invariant: its states are well defined.
LEMMA Loop ==
    ASSUME NEW n \in Nat, NEW a, NEW g, NEW I, a \in I[0],
           \A k \in 1..n : \A s \in I[k - 1] : g[k][s] \in I[k]
    PROVE  \E f : IsLoop(f, n, a, g) /\ \A k \in 0..n : f[k] \in I[k]
<1> DEFINE P(m) == \E f : /\ f = [k \in 0..m |-> IF k = 0 THEN a ELSE g[k][f[k - 1]]]
                          /\ \A k \in 0..m : f[k] \in I[k]
           K == {m \in 0..n : P(m)}
<1>1. P(0)
  <2> DEFINE f == [k \in 0..0 |-> a]
  <2>1. /\ f = [k \in 0..0 |-> IF k = 0 THEN a ELSE g[k][f[k - 1]]]
        /\ \A k \in 0..0 : f[k] \in I[k]
    OBVIOUS
  <2> QED BY <2>1
<1>2. ASSUME NEW m \in 1..n, P(m - 1) PROVE P(m)
  <2>1. PICK f : /\ f = [k \in 0..(m - 1) |-> IF k = 0 THEN a ELSE g[k][f[k - 1]]]
                 /\ \A k \in 0..(m - 1) : f[k] \in I[k]
    BY <1>2
  <2> DEFINE h == [k \in 0..m |-> IF k < m THEN f[k] ELSE g[m][f[m - 1]]]
  <2>2. \A k \in 0..(m - 1) : h[k] = f[k]
    OBVIOUS
  <2>3. h[m] = g[m][f[m - 1]] /\ h[m] \in I[m]
    BY <2>1
  <2> DEFINE body(k) == IF k = 0 THEN a ELSE g[k][h[k - 1]]
  <2>4. \A k \in 0..m : h[k] = body(k)
    <3>1. ASSUME NEW k \in 0..(m - 1) PROVE h[k] = body(k)
      <4>1. f[k] = IF k = 0 THEN a ELSE g[k][f[k - 1]]
        BY <2>1
      <4>2. k # 0 => k - 1 \in 0..(m - 1)
        OBVIOUS
      <4> QED BY <2>2, <4>1, <4>2
    <3>2. h[m] = body(m)
      BY <2>2, <2>3
    <3> HIDE DEF h, body
    <3>3. \A k \in 0..m : k = m \/ k \in 0..(m - 1)
      OBVIOUS
    <3> QED BY <3>1, <3>2, <3>3, Zenon
  <2>5. h = [k \in 0..m |-> h[k]]
    OBVIOUS
  <2> HIDE DEF h
  <2>6. h = [k \in 0..m |-> IF k = 0 THEN a ELSE g[k][h[k - 1]]]
    BY <2>4, <2>5
  <2>7. \A k \in 0..m : h[k] \in I[k]
    <3>1. \A k \in 0..m : k = m \/ k \in 0..(m - 1)
      OBVIOUS
    <3>2. \A k \in 0..(m - 1) : h[k] \in I[k]
      BY <2>1, <2>2, Zenon
    <3> QED BY <2>3, <3>1, <3>2, Zenon
  <2> QED BY <2>6, <2>7
<1> HIDE DEF P
<1>3. 0 \in K /\ \A k \in 1..n : k - 1 \in K => k \in K
  BY <1>1, <1>2
<1> HIDE DEF K
<1>4. n \in K
  BY <1>3, InductTo
<1> USE DEF K
<1> QED BY <1>4 DEF P, IsLoop

-----------------------------------------------------------------------------
(* Positions and nodes.                                                    *)

LEMMA Constants ==
    /\ BaseSize \in Nat \ {0} /\ FixedBytes \in Nat \ {0} /\ Radix \in Nat /\ Msb \in Nat
    /\ Msb > 1 /\ Radix = 2 * Msb /\ Word \in Nat \ {0} /\ Byte = 0..(Radix - 1) /\ 0 \in Byte
BY ByteArrayAssumption DEF Msb, Byte

\* The position where the node number c + 1 begins.
Start(c) == BaseSize * c

\* The node of position p in a chain of L nodes, nullptr at its end.
CurAt(p, L) == IF p = Start(L) THEN Null ELSE p \div BaseSize + 1

LEMMA Place ==
    ASSUME NEW p \in Nat
    PROVE  /\ p \div BaseSize \in Nat /\ p % BaseSize \in 0..(BaseSize - 1)
           /\ p = Start(p \div BaseSize) + (p % BaseSize)
<1>1. BaseSize \in Nat \ {0}
  BY Constants
<1> QED BY <1>1, Z3 DEF Start

\* A position is in the node c if it is behind its first byte and before the next.
LEMMA NodeOf ==
    ASSUME NEW c \in Nat, NEW o \in 0..(BaseSize - 1)
    PROVE  (Start(c) + o) \div BaseSize = c /\ (Start(c) + o) % BaseSize = o
<1>1. BaseSize \in Nat \ {0}
  BY Constants
<1> QED BY <1>1, Z3 DEF Start

LEMMA Times ==
    ASSUME NEW c \in Nat, NEW L \in Nat
    PROVE  /\ Start(c) \in Nat
           /\ Start(c + 1) = Start(c) + BaseSize
           /\ c < L => Start(c) + BaseSize <= Start(L)
           /\ c >= L => Start(c) >= Start(L)
<1>1. BaseSize \in Nat \ {0}
  BY Constants
<1> QED BY <1>1, Z3 DEF Start

LEMMA CurAtIn ==
    ASSUME NEW L \in Nat, NEW p \in Nat, p <= Start(L)
    PROVE  CurAt(p, L) \in 0..L /\ (p < Start(L) => CurAt(p, L) \in 1..L)
<1>1. CASE p < Start(L)
  <2>1. p \div BaseSize < L
    <3>1. PICK c : c = p \div BaseSize
      OBVIOUS
    <3>2. c \in Nat /\ p >= Start(c)
      <4>1. PICK r : r = p % BaseSize
        OBVIOUS
      <4>2. r \in 0..(BaseSize - 1) /\ c \in Nat /\ p = Start(c) + r
        BY <3>1, <4>1, Place
      <4>3. Start(c) \in Nat /\ r \in Nat
        BY <4>2, Times, Constants
      <4> QED BY <4>2, <4>3
    <3>3. c >= L => Start(c) >= Start(L)
      BY <3>2, Times
    <3>4. Start(c) \in Nat /\ Start(L) \in Nat
      BY <3>2, Times
    <3> QED BY <1>1, <3>1, <3>2, <3>3, <3>4
  <2> QED BY <1>1, <2>1, Place DEF CurAt
<1>2. CASE p = Start(L)
  BY <1>2 DEF CurAt, Null
<1>3. Start(L) \in Nat
  BY Times
<1> QED BY <1>1, <1>2, <1>3

-----------------------------------------------------------------------------
(* The loop of read, write and the buffer calls.                           *)

Cell(L) == (1..L) \X (1..BaseSize)

WalkState(L) ==
    [node : 0..L, off : 0..(BaseSize - 1), left : Nat, cells : Seq(Cell(L)), wild : {FALSE}]

\* Between two turns of the loop for n bytes from position p: what is left begins
\* at the cursor and ends inside the chain.
WalkInv(L, p, n, s) ==
    /\ Len(s.cells) + s.left = n
    /\ s.left = 0 => s.node = CurAt(p + n, L)
    /\ s.left # 0 => s.node # Null /\ Start(s.node - 1) + s.off + s.left = p + n

\* n bytes of node c from offset o on.
Strip(c, o, n) == [j \in 1..n |-> <<c, o + j>>]

LEMMA Piece ==
    ASSUME NEW L \in Nat, NEW c \in 1..L, NEW o \in 0..(BaseSize - 1), NEW n \in 0..(BaseSize - o),
           NEW cells \in Seq(Cell(L))
    PROVE  cells \o Strip(c, o, n) \in Seq(Cell(L)) /\ Len(cells \o Strip(c, o, n)) = Len(cells) + n
<1> DEFINE new == [j \in 1..n |-> <<c, o + j>>]
<1>1. \A j \in 1..n : <<c, o + j>> \in Cell(L)
  BY Constants DEF Cell
<1>2. new \in Seq(Cell(L)) /\ Len(new) = n
  <2>0. n \in Nat
    BY Constants
  <2>1. n \in Nat /\ new \in [1..n -> Cell(L)]
    BY <1>1, <2>0
  <2> HIDE DEF new
  <2>2. new \in Seq(Cell(L))
    BY <2>1 DEF Seq
  <2> QED BY <2>1, <2>2
<1> HIDE DEF new
<1>3. cells \o new \in Seq(Cell(L)) /\ Len(cells \o new) = Len(cells) + n
  BY <1>2
<1> QED BY <1>3 DEF new, Strip

\* A turn keeps the invariant and takes a byte at least.
LEMMA TurnKeeps ==
    ASSUME NEW chain, NEW L \in Nat, Len(chain) = L, NEW p \in Nat, NEW n \in Nat,
           p + n <= Start(L), NEW s \in WalkState(L), WalkInv(L, p, n, s)
    PROVE  /\ Turn(chain, s) \in WalkState(L) /\ WalkInv(L, p, n, Turn(chain, s))
           /\ s.left # 0 => Turn(chain, s).left < s.left
           /\ s.left = 0 => Turn(chain, s).left = 0
<1>1. CASE s.left = 0
  BY <1>1 DEF Turn
<1>2. CASE s.left # 0
  <2>1. PICK c, o, left : c = s.node /\ o = s.off /\ left = s.left
    OBVIOUS
  <2>2. /\ c \in 1..L /\ o \in 0..(BaseSize - 1) /\ left \in Nat \ {0} /\ s.wild = FALSE
        /\ s.cells \in Seq(Cell(L)) /\ Len(s.cells) + left = n
        /\ Start(c - 1) + o + left = p + n
    <3>1. /\ c \in 0..L /\ o \in 0..(BaseSize - 1) /\ left \in Nat /\ s.wild = FALSE
          /\ s.cells \in Seq(Cell(L))
      BY <2>1 DEF WalkState
    <3>2. /\ Len(s.cells) + left = n /\ left # 0 /\ c # 0
          /\ Start(c - 1) + o + left = p + n
      BY <1>2, <2>1 DEF WalkInv, Null
    <3> QED BY <3>1, <3>2
  <2>3. PICK room, m, next : /\ room = BaseSize - o
                             /\ m = IF room >= left THEN left ELSE room
                             /\ next = IF m = room THEN NextOf(chain, c) ELSE c
    OBVIOUS
  <2>4. room \in 1..BaseSize /\ m \in 1..room /\ m <= left
    BY <2>2, <2>3, Constants
  <2>5. PICK cells : cells = s.cells \o Strip(c, o, m)
    OBVIOUS
  <2>6. cells \in Seq(Cell(L)) /\ Len(cells) = Len(s.cells) + m
    <3>1. m \in 0..(BaseSize - o) /\ s.cells \in Seq(Cell(L))
      BY <2>2, <2>3, <2>4, Constants
    <3>2. PICK old : old = s.cells
      OBVIOUS
    <3>3. old \o Strip(c, o, m) \in Seq(Cell(L)) /\ Len(old \o Strip(c, o, m)) = Len(old) + m
      <4>1. c \in 1..L /\ o \in 0..(BaseSize - 1) /\ m \in 0..(BaseSize - o) /\ old \in Seq(Cell(L))
        BY <2>2, <3>1, <3>2
      <4> QED BY <4>1, Piece
    <3> QED BY <2>5, <3>2, <3>3
  <2>7. /\ Start(c) = Start(c - 1) + BaseSize /\ BaseSize \in Nat \ {0}
        /\ Start(c) \in Nat /\ Start(c - 1) \in Nat /\ Start(L) \in Nat
    <3>1. c - 1 \in Nat /\ (c - 1) + 1 = c
      BY <2>2
    <3>2. Start((c - 1) + 1) = Start(c - 1) + BaseSize
      BY <3>1, Times
    <3> QED BY <2>2, <3>1, <3>2, Times, Constants
  <2>8. /\ c < L => Start(c) + BaseSize <= Start(L)
        /\ c = L => Start(c) = Start(L)
    BY <2>2, Times
  <2>a. PICK a, b, z : a = Start(c - 1) /\ b = Start(c) /\ z = Start(L)
    OBVIOUS
  <2>b. /\ a \in Nat /\ z \in Nat /\ b = a + BaseSize /\ BaseSize \in Nat /\ o \in Nat /\ left \in Nat
        /\ o < BaseSize /\ a + o + left = p + n /\ room = BaseSize - o
        /\ (c < L => b + BaseSize <= z) /\ (c = L => b = z) /\ c <= L
    BY <2>2, <2>3, <2>7, <2>8, <2>a
  <2>9. next \in 0..L /\ (left > m => next = c + 1) /\ (left = m => next = CurAt(p + n, L))
    <3>1. CASE left > m
      <4>1. m = room /\ p + n > Start(c)
        BY <2>2, <2>3, <2>4, <2>7, <3>1
      <4>2. c < L
        <5>1. c # L
          BY <2>2, <2>7, <2>8, <4>1
        <5> QED BY <2>2, <5>1
      <4> QED BY <2>2, <2>3, <3>1, <4>1, <4>2 DEF NextOf
    <3>2. CASE left = m /\ m = room
      <4>1. p + n = Start(c)
        <5>1. p + n = b
          BY <2>b, <3>2
        <5> QED BY <2>a, <5>1
      <4>2. CASE c < L
        <5>1. (Start(c) + 0) \div BaseSize = c
          BY <2>2, NodeOf, <2>7
        <5>2. p + n # Start(L) /\ (p + n) \div BaseSize = c
          <6>1. p + n < Start(L)
            BY <2>7, <2>8, <4>1, <4>2
          <6>2. p + n = Start(c) + 0
            BY <2>7, <4>1
          <6>3. (p + n) \div BaseSize = c
            BY <5>1, <6>2
          <6>4. p + n # Start(L)
            BY <2>7, <6>1
          <6> QED BY <6>3, <6>4
        <5> QED BY <2>2, <2>3, <3>2, <4>2, <5>2 DEF NextOf, CurAt
      <4>3. CASE c = L
        <5>1. p + n = Start(L)
          BY <2>8, <4>1, <4>3
        <5>2. next = Null
          BY <2>2, <2>3, <3>2, <4>3 DEF NextOf
        <5> QED BY <2>4, <3>2, <5>1, <5>2 DEF CurAt, Null
      <4> QED BY <2>2, <4>2, <4>3
    <3>3. CASE left = m /\ m # room
      <4>1. c - 1 \in Nat /\ o + left \in 0..(BaseSize - 1) /\ p + n = Start(c - 1) + (o + left)
        BY <2>2, <2>3, <2>4, <2>7, <3>3
      <4>2. (p + n) \div BaseSize = c - 1
        BY <4>1, NodeOf
      <4>3. p + n # Start(L)
        <5>1. left < room
          BY <2>3, <2>4, <2>b, <3>3
        <5>2. p + n < b
          BY <2>b, <5>1
        <5>3. b <= z
          BY <2>2, <2>b
        <5>4. p + n # z
          BY <2>b, <5>2, <5>3
        <5> QED BY <2>a, <5>4
      <4>4. CurAt(p + n, L) = c
        BY <2>2, <4>2, <4>3 DEF CurAt
      <4> QED BY <2>2, <2>3, <2>4, <3>3, <4>4
    <3>4. left > m \/ left = m
      BY <2>2, <2>4
    <3> QED BY <3>1, <3>2, <3>3, <3>4
  <2>10. Turn(chain, s) = [node |-> next, off |-> 0, left |-> left - m, cells |-> cells,
                           wild |-> next = Null /\ left > m]
    BY <1>2, <2>1, <2>2, <2>3, <2>5 DEF Turn, Strip
  <2>11. ~(next = Null /\ left > m)
    BY <2>2, <2>9 DEF Null
  <2>12. Turn(chain, s) = [node |-> next, off |-> 0, left |-> left - m, cells |-> cells, wild |-> FALSE]
    BY <2>10, <2>11
  <2>13. PICK t : t = Turn(chain, s)
    OBVIOUS
  <2>14. t \in WalkState(L)
    <3>1. 0 \in 0..(BaseSize - 1) /\ left - m \in Nat
      BY <2>2, <2>4, <2>7
    <3> QED BY <2>6, <2>9, <2>12, <2>13, <3>1 DEF WalkState
  <2>15. t.node = next /\ t.off = 0 /\ t.left = left - m /\ t.cells = cells
    BY <2>12, <2>13
  <2>16. WalkInv(L, p, n, t)
    <3>1. Len(t.cells) + t.left = n
      <4>1. Len(s.cells) \in Nat
        BY <2>2
      <4>2. PICK l : l = Len(s.cells)
        OBVIOUS
      <4>3. l \in Nat /\ m \in Nat /\ left \in Nat /\ l + left = n
        BY <2>2, <2>4, <4>1, <4>2
      <4>4. Len(t.cells) = l + m /\ t.left = left - m
        BY <2>6, <2>15, <4>2
      <4> QED BY <4>3, <4>4
    <3>2. t.left = 0 => t.node = CurAt(p + n, L)
      BY <2>2, <2>4, <2>9, <2>15
    <3>3. ASSUME t.left # 0 PROVE t.node # Null /\ Start(t.node - 1) + t.off + t.left = p + n
      <4>0. left # m
        BY <2>b, <2>15, <3>3
      <4>1. left > m /\ next = c + 1 /\ m = room
        BY <2>3, <2>4, <2>9, <2>b, <4>0
      <4>2. next - 1 = c
        BY <2>2, <4>1
      <4>3. t.left \in Nat /\ b + t.left = p + n
        BY <2>b, <2>15, <4>1
      <4>4. Start(t.node - 1) = b /\ t.off = 0
        BY <2>15, <2>a, <4>2
      <4>5. t.node # Null
        BY <2>2, <2>15, <4>1 DEF Null
      <4> QED BY <2>b, <4>3, <4>4, <4>5
    <3> QED BY <3>1, <3>2, <3>3 DEF WalkInv
  <2> QED BY <1>2, <2>1, <2>2, <2>4, <2>13, <2>14, <2>15, <2>16
<1> QED BY <1>1, <1>2

\* The loop for n bytes from position p has ended well.
Walked(walk, L, p, n) ==
    /\ walk.wild = FALSE /\ walk.node = CurAt(p + n, L)
    /\ walk.cells \in Seq(Cell(L)) /\ Len(walk.cells) = n

\* The loop for n bytes from position p, where the cursor is, takes n cells of the
\* chain and leaves the cursor at position p + n.
LEMMA WalkEnds ==
    ASSUME NEW chain, NEW L \in Nat, Len(chain) = L, NEW p \in Nat, NEW n \in Nat,
           p + n <= Start(L), p < Start(L)
    PROVE  Walked(Walk(chain, p \div BaseSize + 1, p % BaseSize, n), L, p, n)
<1> DEFINE c == p \div BaseSize + 1
           o == p % BaseSize
           a == [node |-> c, off |-> o, left |-> n, cells |-> <<>>, wild |-> c = Null]
           I == [k \in 0..n |-> {s \in WalkState(L) : WalkInv(L, p, n, s) /\ s.left <= n - k}]
           g == [k \in 1..n |-> [s \in I[k - 1] |-> Turn(chain, s)]]
           e == CHOOSE f : f = [k \in 0..n |-> IF k = 0 THEN a ELSE Turn(chain, f[k - 1])]
<1>1. c \in 1..L /\ o \in 0..(BaseSize - 1) /\ Start(c - 1) + o = p /\ c # Null
  <2>0. CurAt(p, L) = c
    BY Times DEF CurAt
  <2>1. CurAt(p, L) \in 1..L
    <3>1. p <= Start(L)
      BY Times
    <3> QED BY <3>1, CurAtIn
  <2>2. c \in 1..L /\ c # Null
    BY <2>0, <2>1 DEF Null
  <2>3. c - 1 = p \div BaseSize
    BY Place
  <2> QED BY <2>2, <2>3, Place
<1>2. a \in I[0]
  <2> HIDE DEF c, o
  <2>1. a = [node |-> c, off |-> o, left |-> n, cells |-> <<>>, wild |-> FALSE]
    BY <1>1
  <2>2. a \in WalkState(L)
    <3>1. c \in 0..L /\ <<>> \in Seq(Cell(L))
      BY <1>1
    <3> QED BY <1>1, <2>1, <3>1 DEF WalkState
  <2>3. n = 0 => c = CurAt(p + n, L)
    BY Constants DEF CurAt, c
  <2>4. WalkInv(L, p, n, a)
    BY <1>1, <2>1, <2>3 DEF WalkInv
  <2> QED BY <2>2, <2>4
<1>3. ASSUME NEW k \in 1..n, NEW s \in I[k - 1] PROVE Turn(chain, s) \in I[k]
  <2>1. k - 1 \in 0..n /\ s \in WalkState(L) /\ WalkInv(L, p, n, s) /\ s.left <= n - (k - 1)
    BY <1>3
  <2>2. PICK t : t = Turn(chain, s)
    OBVIOUS
  <2>3. /\ t \in WalkState(L) /\ WalkInv(L, p, n, t)
        /\ s.left # 0 => t.left < s.left
        /\ s.left = 0 => t.left = 0
    BY <2>1, <2>2, TurnKeeps
  <2>4. s.left \in Nat /\ t.left \in Nat
    BY <2>1, <2>3 DEF WalkState
  <2>5. t.left <= n - k
    BY <1>3, <2>1, <2>3, <2>4
  <2> QED BY <2>2, <2>3, <2>5
<1> HIDE DEF a
<1>4. PICK f : IsLoop(f, n, a, g) /\ \A k \in 0..n : f[k] \in I[k]
  <2>1. \A k \in 1..n : \A s \in I[k - 1] : g[k][s] \in I[k]
    BY <1>3
  <2> HIDE DEF I, g
  <2> QED BY <1>2, <2>1, Loop
<1>5. f = [k \in 0..n |-> IF k = 0 THEN a ELSE Turn(chain, f[k - 1])]
  <2>1. \A k \in 1..n : g[k][f[k - 1]] = Turn(chain, f[k - 1])
    <3> SUFFICES ASSUME NEW k \in 1..n PROVE g[k][f[k - 1]] = Turn(chain, f[k - 1])
      OBVIOUS
    <3> HIDE DEF I
    <3>1. f[k - 1] \in I[k - 1]
      BY <1>4
    <3> QED BY <3>1
  <2> HIDE DEF I, g
  <2>2. f = [k \in 0..n |-> IF k = 0 THEN a ELSE g[k][f[k - 1]]]
    BY <1>4 DEF IsLoop
  <2>3. \A k \in 0..n : k = 0 \/ k \in 1..n
    OBVIOUS
  <2>4. \A k \in 0..n : (IF k = 0 THEN a ELSE g[k][f[k - 1]]) = IF k = 0 THEN a ELSE Turn(chain, f[k - 1])
    BY <2>1, <2>3, Zenon
  <2> QED BY <2>2, <2>4
<1>6. e = [k \in 0..n |-> IF k = 0 THEN a ELSE Turn(chain, e[k - 1])]
  BY <1>5
<1> HIDE DEF e
<1>7. e[n] \in I[n]
  <2> DEFINE K == {k \in 0..n : e[k] \in I[k]}
  <2>1. 0 \in K
    BY <1>2, <1>6
  <2>2. ASSUME NEW k \in 1..n, k - 1 \in K PROVE k \in K
    <3>1. e[k - 1] \in I[k - 1] /\ e[k] = Turn(chain, e[k - 1])
      BY <1>6, <2>2
    <3> HIDE DEF I
    <3> QED BY <1>3, <3>1
  <2>3. \A k \in 1..n : k - 1 \in K => k \in K
    BY <2>2
  <2> HIDE DEF K
  <2>4. n \in K
    BY <2>1, <2>3, InductTo
  <2> QED BY <2>4 DEF K
<1>8. Walk(chain, c, o, n) = e[n]
  BY DEF Walk, e, a
<1>9. e[n] \in WalkState(L) /\ WalkInv(L, p, n, e[n]) /\ e[n].left <= 0
  BY <1>7
<1> HIDE DEF c, o
<1>10. /\ e[n].wild = FALSE /\ e[n].node = CurAt(p + n, L)
       /\ e[n].cells \in Seq(Cell(L)) /\ Len(e[n].cells) = n
  <2>1. PICK s : s = e[n]
    OBVIOUS
  <2>2. /\ s.left \in Nat /\ s.left <= 0 /\ s.wild = FALSE /\ s.cells \in Seq(Cell(L))
        /\ Len(s.cells) + s.left = n
        /\ s.left = 0 => s.node = CurAt(p + n, L)
    BY <1>9, <2>1 DEF WalkState, WalkInv
  <2>3. s.left = 0
    BY <2>2
  <2>4. Len(s.cells) \in Nat
    BY <2>2
  <2>5. Len(s.cells) = n
    BY <2>2, <2>3, <2>4
  <2> QED BY <2>1, <2>2, <2>3, <2>5
<1> QED BY <1>8, <1>10 DEF c, o, Walked

\* A loop for no bytes takes no cell, wherever the cursor is.
LEMMA WalkNone ==
    ASSUME NEW chain, NEW c, NEW o
    PROVE  Walk(chain, c, o, 0).cells = <<>>
<1> DEFINE a == [node |-> c, off |-> o, left |-> 0, cells |-> <<>>, wild |-> c = Null]
           e == CHOOSE f : f = [k \in 0..0 |-> IF k = 0 THEN a ELSE Turn(chain, f[k - 1])]
<1>1. a.cells = <<>>
  OBVIOUS
<1> HIDE DEF a
<1>2. [k \in 0..0 |-> a] =
      [k \in 0..0 |-> IF k = 0 THEN a ELSE Turn(chain, [j \in 0..0 |-> a][k - 1])]
  OBVIOUS
<1>3. e = [k \in 0..0 |-> IF k = 0 THEN a ELSE Turn(chain, e[k - 1])]
  BY <1>2
<1> HIDE DEF e
<1>4. e[0] = a
  BY <1>3
<1>5. Walk(chain, c, o, 0) = e[0]
  BY DEF Walk, e, a
<1> QED BY <1>1, <1>4, <1>5

-----------------------------------------------------------------------------
(* The loop of setPosition.                                                *)

SeekState(L) == [node : 1..L, left : Nat]

\* After k turns towards v.
SeekInv(L, v, k, s) ==
    /\ Start(s.node - 1) + s.left = v
    /\ s.left <= BaseSize \/ s.node = k + 1

SeekTurn(chain, s) ==
    IF s.left <= BaseSize THEN s
    ELSE [node |-> NextOf(chain, s.node), left |-> s.left - BaseSize]

LEMMA SeekTurnKeeps ==
    ASSUME NEW chain, NEW L \in Nat, Len(chain) = L, NEW v \in Nat, v <= Start(L),
           NEW k \in Nat \ {0}, NEW s \in SeekState(L), SeekInv(L, v, k - 1, s)
    PROVE  SeekTurn(chain, s) \in SeekState(L) /\ SeekInv(L, v, k, SeekTurn(chain, s))
<1>1. PICK c, left : c = s.node /\ left = s.left
  OBVIOUS
<1>2. /\ c \in 1..L /\ left \in Nat /\ Start(c - 1) + left = v
      /\ left <= BaseSize \/ c = k
  BY <1>1 DEF SeekState, SeekInv
<1>3. CASE left <= BaseSize
  BY <1>1, <1>2, <1>3 DEF SeekTurn, SeekInv
<1>4. CASE left > BaseSize
  <2>1. c - 1 \in Nat /\ (c - 1) + 1 = c /\ c \in Nat
    BY <1>2
  <2>2. Start((c - 1) + 1) = Start(c - 1) + BaseSize /\ Start(c - 1) \in Nat
    BY <2>1, Times
  <2>3. /\ Start(c) = Start(c - 1) + BaseSize /\ BaseSize \in Nat \ {0}
        /\ Start(c) \in Nat /\ Start(c - 1) \in Nat /\ Start(L) \in Nat
    BY <2>1, <2>2, Times, Constants
  <2>4. c = k /\ v > Start(c)
    BY <1>2, <1>4, <2>3
  <2>5. c # L
    BY <2>3, <2>4
  <2>6. c < L
    BY <1>2, <2>5
  <2>7. SeekTurn(chain, s) = [node |-> c + 1, left |-> left - BaseSize]
    BY <1>1, <1>2, <1>4, <2>3, <2>6 DEF SeekTurn, NextOf
  <2>8. PICK t : t = SeekTurn(chain, s)
    OBVIOUS
  <2>9. t.node = c + 1 /\ t.left = left - BaseSize
    BY <2>7, <2>8
  <2>10. t \in SeekState(L)
    BY <1>2, <1>4, <2>3, <2>6, <2>7, <2>8 DEF SeekState
  <2>11. SeekInv(L, v, k, t)
    <3>1. t.node - 1 = c /\ t.node = k + 1
      BY <1>2, <2>4, <2>9
    <3>2. Start(c) + t.left = v
      BY <1>2, <2>3, <2>9
    <3> QED BY <3>1, <3>2 DEF SeekInv
  <2> QED BY <2>8, <2>10, <2>11
<1>5. BaseSize \in Nat
  BY Constants
<1> QED BY <1>2, <1>3, <1>4, <1>5

\* setPosition leaves the cursor at the node of the position.
LEMMA SeekEnds ==
    ASSUME NEW chain, NEW L \in Nat \ {0}, Len(chain) = L, NEW v \in Nat, v <= Start(L)
    PROVE  Seek(chain, v) = CurAt(v, L)
<1> DEFINE a == [node |-> 1, left |-> v]
           I == [k \in 0..L |-> {s \in SeekState(L) : SeekInv(L, v, k, s)}]
           g == [k \in 1..L |-> [s \in I[k - 1] |-> SeekTurn(chain, s)]]
           e == CHOOSE f : f = [k \in 0..L |-> IF k = 0 THEN a ELSE SeekTurn(chain, f[k - 1])]
<1>1. a \in I[0]
  <2>1. Start(0) = 0
    BY Constants DEF Start
  <2>2. a \in SeekState(L)
    BY DEF SeekState
  <2>3. SeekInv(L, v, 0, a)
    BY <2>1 DEF SeekInv
  <2> QED BY <2>2, <2>3
<1>2. ASSUME NEW k \in 1..L, NEW s \in I[k - 1] PROVE SeekTurn(chain, s) \in I[k]
  <2>1. k \in Nat \ {0} /\ s \in SeekState(L) /\ SeekInv(L, v, k - 1, s)
    BY <1>2
  <2>2. SeekTurn(chain, s) \in SeekState(L) /\ SeekInv(L, v, k, SeekTurn(chain, s))
    BY <2>1, SeekTurnKeeps
  <2> QED BY <2>2
<1> HIDE DEF a
<1>3. PICK f : IsLoop(f, L, a, g) /\ \A k \in 0..L : f[k] \in I[k]
  <2>1. \A k \in 1..L : \A s \in I[k - 1] : g[k][s] \in I[k]
    BY <1>2
  <2> HIDE DEF I, g
  <2> QED BY <1>1, <2>1, Loop
<1>4. f = [k \in 0..L |-> IF k = 0 THEN a ELSE SeekTurn(chain, f[k - 1])]
  <2>1. \A k \in 1..L : g[k][f[k - 1]] = SeekTurn(chain, f[k - 1])
    <3> SUFFICES ASSUME NEW k \in 1..L PROVE g[k][f[k - 1]] = SeekTurn(chain, f[k - 1])
      OBVIOUS
    <3> HIDE DEF I
    <3>1. f[k - 1] \in I[k - 1]
      BY <1>3
    <3> QED BY <3>1
  <2> HIDE DEF I, g
  <2> QED BY <1>3, <2>1 DEF IsLoop
<1>5. e = [k \in 0..L |-> IF k = 0 THEN a ELSE SeekTurn(chain, e[k - 1])]
  BY <1>4
<1> HIDE DEF e
<1>6. e[L] \in I[L]
  <2> DEFINE K == {k \in 0..L : e[k] \in I[k]}
  <2>1. 0 \in K
    BY <1>1, <1>5
  <2>2. ASSUME NEW k \in 1..L, k - 1 \in K PROVE k \in K
    <3>1. e[k - 1] \in I[k - 1] /\ e[k] = SeekTurn(chain, e[k - 1])
      BY <1>5, <2>2
    <3> HIDE DEF I
    <3> QED BY <1>2, <3>1
  <2>3. \A k \in 1..L : k - 1 \in K => k \in K
    BY <2>2
  <2> HIDE DEF K
  <2>4. L \in K
    BY <2>1, <2>3, InductTo
  <2> QED BY <2>4 DEF K
<1>7. SeekTurns(chain, v) = e[L]
  BY DEF SeekTurns, SeekTurn, e, a
<1>8. PICK c, left : c = e[L].node /\ left = e[L].left
  OBVIOUS
<1>9. c \in 1..L /\ left \in Nat /\ Start(c - 1) + left = v /\ left <= BaseSize
  <2>1. e[L] \in SeekState(L) /\ SeekInv(L, v, L, e[L])
    BY <1>6
  <2>2. c \in 1..L /\ left \in Nat
    BY <1>8, <2>1 DEF SeekState
  <2>3. Start(c - 1) + left = v /\ (left <= BaseSize \/ c = L + 1)
    BY <1>8, <2>1 DEF SeekInv
  <2> QED BY <2>2, <2>3
<1>10. Seek(chain, v) = IF left = BaseSize THEN NextOf(chain, c) ELSE c
  BY <1>7, <1>8 DEF Seek
<1>11. /\ c - 1 \in Nat /\ Start(c) = Start(c - 1) + BaseSize /\ BaseSize \in Nat \ {0}
       /\ Start(c) \in Nat /\ Start(c - 1) \in Nat /\ Start(L) \in Nat
       /\ c < L => Start(c) + BaseSize <= Start(L)
  <2>1. c - 1 \in Nat /\ (c - 1) + 1 = c /\ c \in Nat
    BY <1>9
  <2>2. Start((c - 1) + 1) = Start(c - 1) + BaseSize /\ Start(c - 1) \in Nat
    BY <2>1, Times
  <2> QED BY <2>1, <2>2, Times, Constants
<1>12. CASE left = BaseSize
  <2>1. v = Start(c) + 0 /\ v = Start(c)
    BY <1>9, <1>11, <1>12
  <2>2. (Start(c) + 0) \div BaseSize = c
    BY <1>9, <1>11, NodeOf
  <2>3. CASE c < L
    <3>1. v # Start(L) /\ v \div BaseSize = c
      BY <1>11, <2>1, <2>2, <2>3
    <3> QED BY <1>9, <1>10, <1>12, <2>3, <3>1 DEF CurAt, NextOf
  <2>4. CASE c = L
    BY <1>9, <1>10, <1>12, <2>1, <2>4 DEF CurAt, NextOf
  <2> QED BY <1>9, <2>3, <2>4
<1>13. CASE left < BaseSize
  <2>1. left \in 0..(BaseSize - 1)
    BY <1>9, <1>11, <1>13
  <2>2. v \div BaseSize = c - 1
    BY <1>9, <1>11, <2>1, NodeOf
  <2>3. v # Start(L)
    <3>1. v < Start(c)
      BY <1>9, <1>11, <1>13
    <3>2. c < L \/ c = L
      BY <1>9
    <3> QED BY <1>9, <1>11, <3>1, <3>2
  <2>4. Seek(chain, v) = c
    BY <1>9, <1>10, <1>11, <1>13
  <2> QED BY <1>9, <2>2, <2>3, <2>4 DEF CurAt
<1> QED BY <1>9, <1>11, <1>12, <1>13

-----------------------------------------------------------------------------
(* Cells and capacity.                                                     *)

Chain == Seq([1..BaseSize -> Byte])

LEMMA FetchBytes ==
    ASSUME nodes \in Chain, NEW cells \in Seq(Cell(Len(nodes)))
    PROVE  Fetch(cells) \in Seq(Byte) /\ Len(Fetch(cells)) = Len(cells)
<1>1. Len(cells) \in Nat /\ DOMAIN cells = 1..Len(cells)
  OBVIOUS
<1>2. \A k \in 1..Len(cells) : nodes[cells[k][1]][cells[k][2]] \in Byte
  <2> TAKE k \in 1..Len(cells)
  <2>1. cells[k] \in Cell(Len(nodes))
    BY <1>1
  <2>2. cells[k][1] \in 1..Len(nodes) /\ cells[k][2] \in 1..BaseSize
    BY <2>1 DEF Cell
  <2>3. nodes[cells[k][1]] \in [1..BaseSize -> Byte]
    BY <2>2 DEF Chain
  <2> QED BY <2>2, <2>3
<1>3. Fetch(cells) = [k \in 1..Len(cells) |-> nodes[cells[k][1]][cells[k][2]]]
  BY <1>1 DEF Fetch
<1>4. Fetch(cells) \in [1..Len(cells) -> Byte]
  BY <1>2, <1>3
<1> QED BY <1>1, <1>4 DEF Seq

LEMMA StoreBytes ==
    ASSUME NEW chain \in Chain, NEW cells, NEW bs \in Seq(Byte)
    PROVE  Store(chain, cells, bs) \in Chain /\ Len(Store(chain, cells, bs)) = Len(chain)
<1> DEFINE byte(i, j) == IF \E k \in DOMAIN bs : cells[k] = <<i, j>>
                         THEN bs[CHOOSE k \in DOMAIN bs : cells[k] = <<i, j>>] ELSE chain[i][j]
           node(i) == [j \in 1..BaseSize |-> byte(i, j)]
<1>1. Len(chain) \in Nat /\ DOMAIN chain = 1..Len(chain)
  BY DEF Chain
<1>2. ASSUME NEW i \in 1..Len(chain), NEW j \in 1..BaseSize PROVE byte(i, j) \in Byte
  <2>1. CASE \E k \in DOMAIN bs : cells[k] = <<i, j>>
    <3>1. PICK m : m = CHOOSE k \in DOMAIN bs : cells[k] = <<i, j>>
      OBVIOUS
    <3>2. m \in DOMAIN bs
      BY <2>1, <3>1
    <3> QED BY <2>1, <3>1, <3>2
  <2>2. CASE ~ \E k \in DOMAIN bs : cells[k] = <<i, j>>
    <3>1. chain[i] \in [1..BaseSize -> Byte]
      BY DEF Chain
    <3> QED BY <2>2, <3>1
  <2> QED BY <2>1, <2>2
<1>3. Store(chain, cells, bs) = [i \in 1..Len(chain) |-> node(i)]
  BY <1>1 DEF Store
<1> HIDE DEF byte
<1>4. \A i \in 1..Len(chain) : node(i) \in [1..BaseSize -> Byte]
  BY <1>2
<1> HIDE DEF node
<1>5. Store(chain, cells, bs) \in [1..Len(chain) -> [1..BaseSize -> Byte]]
  BY <1>3, <1>4
<1>6. Store(chain, cells, bs) \in Chain
  BY <1>1, <1>5 DEF Chain, Seq
<1> QED BY <1>1, <1>5, <1>6 DEF Chain

\* Cursor, sizes and chain agree, and there is a node at least.
IInv == ArrayInv /\ nodes # <<>>

LEMMA State ==
    ASSUME IInv
    PROVE  /\ nodes \in Chain /\ Len(nodes) \in Nat \ {0}
           /\ m_position \in Nat /\ m_size \in Nat /\ m_capacity \in Nat
           /\ m_position <= m_size /\ m_size <= m_capacity
           /\ m_capacity = Start(Len(nodes)) /\ m_cur = CurAt(m_position, Len(nodes))
           /\ ReadSize \in Nat /\ m_position + ReadSize = m_size
<1>1. nodes \in Chain /\ nodes # <<>>
  BY DEF IInv, ArrayInv, TypeOK, Chain
<1>2. Len(nodes) \in Nat \ {0}
  BY <1>1 DEF Chain
<1>3. /\ m_position \in Nat /\ m_size \in Nat /\ m_capacity \in Nat
      /\ m_position <= m_size /\ m_size <= m_capacity
      /\ m_capacity = Start(Len(nodes))
      /\ m_cur = IF m_position = m_capacity THEN Null ELSE m_position \div BaseSize + 1
  BY DEF IInv, ArrayInv, TypeOK, CursorAtPosition, Start
<1>4. m_cur = CurAt(m_position, Len(nodes))
  BY <1>3 DEF CurAt
<1>5. ReadSize \in Nat /\ m_position + ReadSize = m_size
  BY <1>3 DEF ReadSize
<1> QED BY <1>1, <1>2, <1>3, <1>4, <1>5

\* addCapacity makes room for n bytes and leaves the cursor on a node.
LEMMA Room ==
    ASSUME IInv, NEW n \in Nat \ {0}, NEW L, L = Len(Extended(n))
    PROVE  /\ Extended(n) \in Chain /\ L \in Nat \ {0} /\ Len(nodes) <= L
           /\ m_position + n <= Start(L) /\ m_size <= Start(L)
           /\ CurForWrite(n) = m_position \div BaseSize + 1
<1>0. PICK l, m, p, free : l = Len(nodes) /\ m = Missing(n) /\ p = m_position /\ free = m_capacity - p
  OBVIOUS
<1>1. /\ nodes \in Chain /\ l \in Nat \ {0} /\ p \in Nat /\ m_size \in Nat /\ p <= m_size
      /\ m_size <= m_capacity /\ m_capacity = Start(l) /\ m_cur = CurAt(p, l) /\ m_capacity \in Nat
  BY <1>0, State
<1>2. free \in Nat /\ p + free = m_capacity /\ BaseSize \in Nat \ {0}
  BY <1>0, <1>1, Constants
<1>3. /\ m \in Nat /\ (n <= free => m = 0)
      /\ n > free => m # 0 /\ n <= free + Start(m)
  <2>1. m = IF n <= free THEN 0 ELSE (n - free + BaseSize - 1) \div BaseSize
    BY <1>0 DEF Missing
  <2>2. CASE n > free
    <3>1. PICK q, r : q = n - free + BaseSize - 1 /\ r = q % BaseSize
      OBVIOUS
    <3>2. q \in Nat /\ q >= BaseSize
      BY <1>2, <2>2, <3>1
    <3>3. m = q \div BaseSize
      BY <1>2, <2>1, <2>2, <3>1
    <3>4. m \in Nat /\ r \in 0..(BaseSize - 1) /\ q = Start(m) + r
      BY <3>1, <3>2, <3>3, Place
    <3>5. Start(0) = 0 /\ Start(m) \in Nat
      BY <3>4, Times, Constants DEF Start
    <3>6. n <= free + Start(m)
      BY <1>2, <3>1, <3>4, <3>5
    <3>7. m # 0
      BY <1>2, <3>2, <3>4, <3>5
    <3> QED BY <2>2, <3>4, <3>6, <3>7, <1>2
  <2>3. CASE n <= free
    BY <2>1, <2>3, <1>2
  <2> QED BY <1>2, <2>2, <2>3
<1>4. Extended(n) \in Chain /\ L = l + m
  <2> DEFINE new == [i \in 1..m |-> NewNode]
  <2>1. NewNode \in [1..BaseSize -> Byte]
    BY Constants DEF NewNode, Junk
  <2>2. new \in [1..m -> [1..BaseSize -> Byte]]
    BY <2>1
  <2>3. Extended(n) = nodes \o new
    BY <1>0 DEF Extended
  <2> HIDE DEF new
  <2>4. new \in Chain /\ Len(new) = m
    <3>1. new \in Chain
      BY <1>3, <2>2 DEF Chain, Seq
    <3> QED BY <1>3, <2>2, <3>1 DEF Chain
  <2>5. PICK a : a = nodes
    OBVIOUS
  <2>6. a \o new \in Chain /\ Len(a \o new) = Len(a) + Len(new)
    BY <1>1, <2>4, <2>5, ConcatProperties DEF Chain
  <2> QED BY <1>0, <2>3, <2>4, <2>5, <2>6
<1>5. Start(l + m) = Start(l) + Start(m) /\ Start(m) \in Nat /\ Start(l) \in Nat
  <2>1. Start(m) \in Nat /\ Start(l) \in Nat
    BY <1>1, <1>3, Times
  <2>2. BaseSize \in Nat /\ l \in Nat /\ m \in Nat
    BY <1>1, <1>2, <1>3
  <2> QED BY <2>1, <2>2 DEF Start
<1>6. p + n <= Start(L) /\ m_size <= Start(L)
  BY <1>1, <1>2, <1>3, <1>4, <1>5
<1>7. CurForWrite(n) = p \div BaseSize + 1
  <2>1. CurForWrite(n) = IF m > 0 /\ p = m_capacity THEN l + 1 ELSE m_cur
    BY <1>0 DEF CurForWrite
  <2>2. CASE p = m_capacity
    <3>1. m > 0
      <4>1. free = 0
        BY <1>1, <1>2, <2>2
      <4> QED BY <1>3, <4>1
    <3>2. p = Start(l) + 0
      BY <1>1, <2>2
    <3>3. (Start(l) + 0) \div BaseSize = l
      BY <1>1, <1>2, NodeOf
    <3> QED BY <2>1, <2>2, <3>1, <3>2, <3>3
  <2>3. CASE p # m_capacity
    BY <1>1, <2>1, <2>3 DEF CurAt
  <2> QED BY <2>2, <2>3
<1>8. L \in Nat \ {0} /\ l <= L
  BY <1>1, <1>3, <1>4
<1> QED BY <1>0, <1>4, <1>6, <1>7, <1>8

\* What the loop reads ahead of the position.
LEMMA HereEnds ==
    ASSUME IInv, NEW n \in Nat, m_position + n <= m_size
    PROVE  /\ Here(n).cells \in Seq(Cell(Len(nodes))) /\ Len(Here(n).cells) = n
           /\ m_position < m_capacity => Here(n).wild = FALSE
           /\ Fetch(Here(n).cells) \in Seq(Byte) /\ Len(Fetch(Here(n).cells)) = n
<1>1. PICK L, p, chain : L = Len(nodes) /\ p = m_position /\ chain = nodes
  OBVIOUS
<1>2. /\ nodes \in Chain /\ L \in Nat \ {0} /\ p \in Nat /\ p + n <= Start(L) /\ Start(L) = m_capacity
      /\ m_cur = CurAt(p, L) /\ Len(chain) = L /\ Start(L) \in Nat
  <2>1. /\ nodes \in Chain /\ L \in Nat \ {0} /\ p \in Nat /\ Start(L) = m_capacity
        /\ m_cur = CurAt(p, L) /\ Len(chain) = L /\ Start(L) \in Nat
        /\ m_size \in Nat /\ m_size <= m_capacity
    BY <1>1, State
  <2>2. p + n <= Start(L)
    BY <1>1, <2>1
  <2> QED BY <2>1, <2>2
<1>3. PICK c, o : c = m_cur /\ o = p % BaseSize
  OBVIOUS
<1>4. Here(n) = Walk(chain, c, o, n)
  BY <1>1, <1>3 DEF Here
<1>5. /\ Here(n).cells \in Seq(Cell(L)) /\ Len(Here(n).cells) = n
      /\ p < Start(L) => Here(n).wild = FALSE
  <2>1. CASE p < Start(L)
    <3>1. c = p \div BaseSize + 1
      BY <1>2, <1>3, <2>1 DEF CurAt
    <3>2. Walked(Walk(chain, p \div BaseSize + 1, p % BaseSize, n), L, p, n)
      BY <1>2, <2>1, WalkEnds
    <3> QED BY <1>3, <1>4, <3>1, <3>2 DEF Walked
  <2>2. CASE p = Start(L)
    <3>1. n = 0
      BY <1>2, <2>2
    <3>2. Here(n).cells = <<>>
      BY <1>4, <3>1, WalkNone
    <3>3. ~(p < Start(L))
      BY <1>2, <2>2
    <3>4. <<>> \in Seq(Cell(L)) /\ Len(<<>>) = 0
      OBVIOUS
    <3> QED BY <3>1, <3>2, <3>3, <3>4
  <2>3. p < Start(L) \/ p = Start(L)
    BY <1>2
  <2> QED BY <2>1, <2>2, <2>3
<1>6. PICK cells : cells = Here(n).cells
  OBVIOUS
<1>7. Fetch(cells) \in Seq(Byte) /\ Len(Fetch(cells)) = Len(cells)
  BY <1>1, <1>2, <1>5, <1>6, FetchBytes
<1> QED BY <1>1, <1>2, <1>5, <1>6, <1>7

-----------------------------------------------------------------------------
(* The loop of writeToFile.                                                *)

FileState == [node : Nat, left : Nat, cells : Seq(Cell(Len(nodes))), wild : {FALSE}]

\* Between two turns: what is left begins at a node.
FileInv(s) ==
    /\ s.left <= m_size
    /\ s.left # 0 => s.node \in 1..Len(nodes) /\ Start(s.node - 1) + s.left = m_size

LEMMA FileTurnKeeps ==
    ASSUME IInv, NEW s \in FileState, FileInv(s)
    PROVE  FileTurn(s) \in FileState /\ FileInv(FileTurn(s))
<1>0. CASE s.left = 0
  BY <1>0 DEF FileTurn
<1>1. CASE s.left # 0
  <2>1. PICK c, left, L, z : c = s.node /\ left = s.left /\ L = Len(nodes) /\ z = m_size
    OBVIOUS
  <2>2. /\ c \in 1..L /\ left \in Nat \ {0} /\ s.wild = FALSE /\ s.cells \in Seq(Cell(L))
        /\ Start(c - 1) + left = z /\ left <= z
    BY <1>1, <2>1 DEF FileState, FileInv
  <2>3. L \in Nat \ {0} /\ z \in Nat /\ z <= Start(L)
    BY <2>1, State
  <2>4. /\ c - 1 \in Nat /\ Start(c) = Start(c - 1) + BaseSize /\ BaseSize \in Nat \ {0}
        /\ Start(c) \in Nat /\ Start(c - 1) \in Nat /\ Start(L) \in Nat
    <3>1. c - 1 \in Nat /\ (c - 1) + 1 = c /\ c \in Nat
      BY <2>2
    <3>2. Start((c - 1) + 1) = Start(c - 1) + BaseSize /\ Start(c - 1) \in Nat
      BY <3>1, Times
    <3> QED BY <2>3, <3>1, <3>2, Times, Constants
  <2>5. (z - left) % BaseSize = 0
    <3>1. (Start(c - 1) + 0) % BaseSize = 0
      BY <2>4, NodeOf
    <3>2. z - left = Start(c - 1) + 0
      BY <2>2, <2>4
    <3> QED BY <3>1, <3>2
  <2>6. PICK len : len = IF left > BaseSize THEN BaseSize ELSE left
    OBVIOUS
  <2>7. len \in 1..BaseSize /\ len <= left
    BY <2>2, <2>4, <2>6
  <2>8. PICK cells : cells = s.cells \o Strip(c, 0, len)
    OBVIOUS
  <2>9. cells \in Seq(Cell(L))
    <3>1. PICK old : old = s.cells
      OBVIOUS
    <3>2. 0 \in 0..(BaseSize - 1) /\ len \in 0..(BaseSize - 0) /\ old \in Seq(Cell(L))
      BY <2>2, <2>4, <2>7, <3>1
    <3>3. old \o Strip(c, 0, len) \in Seq(Cell(L))
      BY <2>2, <2>3, <3>2, Piece
    <3> QED BY <2>8, <3>1, <3>3
  <2>10. FileTurn(s) = [node |-> NextOf(nodes, c), left |-> left - len, cells |-> cells, wild |-> FALSE]
    <3>1. PICK off : off = (m_size - s.left) % BaseSize
      OBVIOUS
    <3>2. off = 0
      BY <2>1, <2>5, <3>1
    <3>3. PICK len2 : len2 = (IF s.left > BaseSize THEN BaseSize ELSE s.left) - off
      OBVIOUS
    <3>4. len2 = len
      BY <2>1, <2>2, <2>4, <2>6, <3>2, <3>3
    <3>5. FileTurn(s) =
            IF s.left = 0 \/ s.wild THEN s
            ELSE IF s.node = Null \/ len2 < 0 THEN [s EXCEPT !.wild = TRUE]
            ELSE [node |-> NextOf(nodes, s.node), left |-> s.left - len2,
                  cells |-> s.cells \o Strip(s.node, off, len2), wild |-> FALSE]
      BY <3>1, <3>3 DEF FileTurn, Strip
    <3>6. ~(s.left = 0 \/ s.wild) /\ ~(s.node = Null \/ len2 < 0)
      BY <1>1, <2>1, <2>2, <2>4, <2>7, <3>4 DEF Null
    <3> QED BY <2>1, <2>8, <3>2, <3>4, <3>5, <3>6
  <2>11. NextOf(nodes, c) \in Nat /\ (c < L => NextOf(nodes, c) = c + 1)
    BY <2>1, <2>2, <2>3 DEF NextOf, Null
  <2>12. PICK t : t = FileTurn(s)
    OBVIOUS
  <2>13. t \in FileState
    <3>1. left - len \in Nat
      BY <2>2, <2>4, <2>7
    <3> QED BY <2>1, <2>9, <2>10, <2>11, <2>12, <3>1 DEF FileState
  <2>14. t.node = NextOf(nodes, c) /\ t.left = left - len
    BY <2>10, <2>12
  <2>15. FileInv(t)
    <3>1. t.left <= m_size
      BY <2>1, <2>2, <2>3, <2>4, <2>7, <2>14
    <3>2. ASSUME t.left # 0 PROVE t.node \in 1..Len(nodes) /\ Start(t.node - 1) + t.left = m_size
      <4>1. left > BaseSize /\ len = BaseSize
        BY <2>2, <2>4, <2>6, <2>14, <3>2
      <4>2. Start(c) < Start(L)
        BY <2>2, <2>3, <2>4, <4>1
      <4>3. c < L
        <5>1. c # L
          BY <2>4, <4>2
        <5> QED BY <2>2, <2>3, <5>1
      <4>4. t.node = c + 1 /\ t.node - 1 = c /\ t.node \in 1..L
        BY <2>2, <2>3, <2>11, <2>14, <4>3
      <4>5. Start(c) + t.left = z
        BY <2>2, <2>4, <2>14, <4>1
      <4> QED BY <2>1, <4>4, <4>5
    <3> QED BY <3>1, <3>2 DEF FileInv
  <2> QED BY <2>12, <2>13, <2>15
<1> QED BY <1>0, <1>1

\* From a position at the start of a node writeToFile stays on the chain.
LEMMA FileEnds ==
    ASSUME IInv, m_position % BaseSize = 0
    PROVE  FileWalk.wild = FALSE /\ FileWalk.cells \in Seq(Cell(Len(nodes)))
<1> DEFINE N == Len(nodes) + 1
           a == [node |-> m_cur, left |-> ReadSize, cells |-> <<>>, wild |-> FALSE]
           S == {s \in FileState : FileInv(s)}
           e == CHOOSE f : f = [k \in 0..N |-> IF k = 0 THEN a ELSE FileTurn(f[k - 1])]
<1>1. PICK n : n = N
  OBVIOUS
<1>2. n \in Nat
  BY <1>1, State
<1>3. a \in S
  <2>1. PICK p, L : p = m_position /\ L = Len(nodes)
    OBVIOUS
  <2>2. /\ p \in Nat /\ L \in Nat \ {0} /\ m_size \in Nat /\ ReadSize \in Nat /\ p + ReadSize = m_size
        /\ m_cur = CurAt(p, L) /\ p <= Start(L) /\ m_size <= Start(L) /\ Start(L) \in Nat
    <3>1. /\ p \in Nat /\ L \in Nat \ {0} /\ m_size \in Nat /\ ReadSize \in Nat /\ p + ReadSize = m_size
          /\ m_cur = CurAt(p, L) /\ p <= m_size /\ m_size <= m_capacity /\ m_capacity = Start(L)
          /\ m_capacity \in Nat
      BY <2>1, State
    <3> QED BY <3>1
  <2>3. m_cur \in 0..L
    BY <2>2, CurAtIn
  <2>4. a \in FileState
    <3>1. <<>> \in Seq(Cell(Len(nodes))) /\ m_cur \in Nat
      BY <2>2, <2>3
    <3> QED BY <2>2, <3>1 DEF FileState
  <2>5. ReadSize # 0 => m_cur \in 1..L /\ Start(m_cur - 1) + ReadSize = m_size
    <3> SUFFICES ASSUME ReadSize # 0 PROVE m_cur \in 1..L /\ Start(m_cur - 1) + ReadSize = m_size
      OBVIOUS
    <3>1. p < Start(L)
      BY <2>2
    <3>2. CurAt(p, L) \in 1..L
      BY <2>2, <3>1, CurAtIn
    <3>3. m_cur = p \div BaseSize + 1
      BY <2>2, <3>1 DEF CurAt
    <3>4. p = Start(p \div BaseSize) + 0 /\ p \div BaseSize \in Nat
      BY <2>1, <2>2, Place
    <3>5. PICK q : q = p \div BaseSize
      OBVIOUS
    <3>6. m_cur - 1 = q /\ Start(q) \in Nat /\ p = Start(q)
      BY <3>3, <3>4, <3>5, Times
    <3> QED BY <2>2, <3>2, <3>6
  <2>6. FileInv(a)
    BY <2>1, <2>2, <2>5 DEF FileInv
  <2> QED BY <2>4, <2>6
<1>4. \A s \in S : FileTurn(s) \in S
  BY FileTurnKeeps
<1>5. PICK a1, S1, g, I : /\ a1 = a /\ S1 = S
                          /\ g = [k \in 1..n |-> [s \in S |-> FileTurn(s)]]
                          /\ I = [k \in 0..n |-> S]
  OBVIOUS
<1> HIDE DEF a, S
<1>6. PICK f : IsLoop(f, n, a1, g) /\ \A k \in 0..n : f[k] \in I[k]
  <2>1. a1 \in I[0] /\ \A k \in 1..n : \A s \in I[k - 1] : g[k][s] \in I[k]
    BY <1>2, <1>3, <1>4, <1>5
  <2> QED BY <1>2, <2>1, Loop
<1>7. f = [k \in 0..N |-> IF k = 0 THEN a ELSE FileTurn(f[k - 1])]
  <2>1. \A k \in 1..n : g[k][f[k - 1]] = FileTurn(f[k - 1])
    <3> TAKE k \in 1..n
    <3>1. f[k - 1] \in S
      BY <1>2, <1>5, <1>6
    <3> QED BY <1>5, <3>1
  <2> HIDE DEF N
  <2>2. f = [k \in 0..n |-> IF k = 0 THEN a1 ELSE FileTurn(f[k - 1])]
    BY <1>2, <1>6, <2>1 DEF IsLoop
  <2> QED BY <1>1, <1>5, <2>2
<1>8. e = [k \in 0..N |-> IF k = 0 THEN a ELSE FileTurn(e[k - 1])]
  BY <1>7
<1> HIDE DEF e
<1>9. e[n] \in S
  <2>1. e[0] \in S
    BY <1>1, <1>2, <1>3, <1>8
  <2>2. ASSUME NEW k \in 1..n, e[k - 1] \in S PROVE e[k] \in S
    <3>1. e[k] = FileTurn(e[k - 1])
      BY <1>1, <1>2, <1>8, <2>2
    <3> QED BY <1>4, <2>2, <3>1
  <2>3. PICK e1 : e1 = e
    OBVIOUS
  <2>4. e1[0] \in S1 /\ \A k \in 1..n : e1[k - 1] \in S1 => e1[k] \in S1
    BY <1>5, <2>1, <2>2, <2>3
  <2>5. e1[n] \in S1
    BY <1>2, <2>4, Stays
  <2> QED BY <1>5, <2>3, <2>5
<1>10. FileWalk = e[n]
  BY <1>1 DEF FileWalk, e, a
<1> QED BY <1>9, <1>10 DEF S, FileState

-----------------------------------------------------------------------------
(* Encodings are bytes, and decoded numbers are numbers.                   *)

\* A loop on natural numbers.
LEMMA NatLoop ==
    ASSUME NEW n \in Nat, NEW a \in Nat, NEW g, \A k \in 1..n : \A x \in Nat : g[k][x] \in Nat
    PROVE  /\ \E f : IsLoop(f, n, a, g)
           /\ \A f : IsLoop(f, n, a, g) => \A k \in 0..n : f[k] \in Nat
<1> DEFINE I == [k \in 0..n |-> Nat]
<1>1. \E f : IsLoop(f, n, a, g)
  <2>1. a \in I[0] /\ \A k \in 1..n : \A s \in I[k - 1] : g[k][s] \in I[k]
    OBVIOUS
  <2> HIDE DEF I
  <2> QED BY <2>1, Loop
<1>2. ASSUME NEW f, IsLoop(f, n, a, g) PROVE \A k \in 0..n : f[k] \in Nat
  <2> DEFINE K == {k \in 0..n : f[k] \in Nat}
  <2>1. 0 \in K
    BY <1>2 DEF IsLoop
  <2>2. ASSUME NEW k \in 1..n, k - 1 \in K PROVE k \in K
    <3>1. f[k] = g[k][f[k - 1]]
      BY <1>2 DEF IsLoop
    <3> QED BY <2>2, <3>1
  <2>3. \A k \in 1..n : k - 1 \in K => k \in K
    BY <2>2
  <2> HIDE DEF K
  <2>4. \A k \in 0..n : k \in K
    BY <2>1, <2>3, Induct
  <2> QED BY <2>4 DEF K
<1> QED BY <1>1, <1>2

LEMMA EncodeUintBytes ==
    ASSUME NEW v \in Nat
    PROVE  EncodeUint(v) \in Seq(Byte)
<1> DEFINE Code(f, u) == IF u < Msb THEN <<u>> ELSE <<(u % Msb) + Msb>> \o f[u \div Msb]
           P(m) == \E f : f = [u \in 0..m |-> Code(f, u)]
           e == CHOOSE f : f = [u \in 0..v |-> Code(f, u)]
<1>1. \A u \in Nat : u >= Msb => u \div Msb \in Nat /\ u \div Msb < u
  <2>1. Msb \in Nat /\ Msb > 1
    BY Constants
  <2> QED BY <2>1, Z3
<1>2. P(0)
  <2> DEFINE f == [u \in 0..0 |-> <<u>>]
  <2>1. f = [u \in 0..0 |-> Code(f, u)]
    BY Constants
  <2> QED BY <2>1
<1>3. ASSUME NEW m \in 1..v, P(m - 1) PROVE P(m)
  <2>1. PICK f : f = [u \in 0..(m - 1) |-> Code(f, u)]
    BY <1>3
  <2> DEFINE h == [u \in 0..m |-> IF u < m THEN f[u] ELSE Code(f, u)]
  <2>2. \A u \in 0..(m - 1) : h[u] = f[u]
    OBVIOUS
  <2>3. h[m] = Code(f, m) /\ \A u \in 0..(m - 1) : f[u] = Code(f, u)
    <3> HIDE DEF Code
    <3>1. h[m] = Code(f, m)
      OBVIOUS
    <3>2. \A u \in 0..(m - 1) : f[u] = Code(f, u)
      BY <2>1
    <3> QED BY <3>1, <3>2
  <2>4. h = [u \in 0..m |-> h[u]]
    OBVIOUS
  <2> HIDE DEF h
  <2>5. \A u \in 0..m : Code(h, u) = Code(f, u)
    <3> TAKE u \in 0..m
    <3>1. CASE u < Msb
      BY <3>1
    <3>2. CASE u >= Msb
      <4>1. u \div Msb \in 0..(m - 1)
        BY <1>1, <3>2
      <4>2. h[u \div Msb] = f[u \div Msb]
        BY <2>2, <4>1
      <4> QED BY <4>2
    <3> QED BY <3>1, <3>2, Constants
  <2>6. \A u \in 0..m : h[u] = Code(h, u)
    <3> HIDE DEF Code
    <3> TAKE u \in 0..m
    <3>1. CASE u = m
      BY <2>3, <2>5, <3>1
    <3>2. CASE u \in 0..(m - 1)
      BY <2>2, <2>3, <2>5, <3>2
    <3> QED BY <3>1, <3>2
  <2> HIDE DEF Code
  <2>7. h = [u \in 0..m |-> Code(h, u)]
    BY <2>4, <2>6
  <2> QED BY <2>7
<1>4. P(v)
  <2> DEFINE K == {m \in 0..v : P(m)}
  <2> HIDE DEF P
  <2>1. 0 \in K /\ \A k \in 1..v : k - 1 \in K => k \in K
    BY <1>2, <1>3
  <2> HIDE DEF K
  <2>2. v \in K
    BY <2>1, InductTo
  <2> QED BY <2>2 DEF K
<1>5. e = [u \in 0..v |-> Code(e, u)]
  BY <1>4
<1>6. EncodeUint(v) = e[v]
  BY DEF EncodeUint
<1> HIDE DEF e, P
<1> DEFINE K == {m \in 0..v : \A u \in 0..m : e[u] \in Seq(Byte)}
<1>7. \A u \in 0..v : u < Msb => e[u] \in Seq(Byte)
  <2> SUFFICES ASSUME NEW u \in 0..v, u < Msb PROVE e[u] \in Seq(Byte)
    OBVIOUS
  <2>1. u \in Byte /\ e[u] = <<u>>
    BY <1>5, Constants
  <2>2. PICK b : b = u
    OBVIOUS
  <2>3. b \in Byte
    BY <2>1, <2>2
  <2>4. <<b>> \in Seq(Byte)
    BY <2>3
  <2> QED BY <2>1, <2>2, <2>4
<1>8. 0 \in K
  BY <1>7, Constants
<1>9. ASSUME NEW m \in 1..v, m - 1 \in K PROVE m \in K
  <2>1. e[m] \in Seq(Byte)
    <3>1. CASE m < Msb
      BY <1>7, <3>1
    <3>2. CASE m >= Msb
      <4>1. m \div Msb \in 0..(m - 1)
        BY <1>1, <3>2
      <4>2. e[m \div Msb] \in Seq(Byte)
        BY <1>9, <4>1
      <4>3. (m % Msb) + Msb \in Byte
        <5>1. Msb \in Nat /\ Msb > 1 /\ Byte = 0..(2 * Msb - 1)
          BY Constants
        <5>2. m % Msb \in 0..(Msb - 1)
          BY <5>1
        <5> QED BY <5>1, <5>2
      <4>4. e[m] = <<(m % Msb) + Msb>> \o e[m \div Msb]
        <5>1. e[m] = Code(e, m)
          <6> HIDE DEF Code
          <6> QED BY <1>5
        <5> QED BY <3>2, <5>1, Constants
      <4>5. PICK b, rest : b = (m % Msb) + Msb /\ rest = e[m \div Msb]
        OBVIOUS
      <4>6. b \in Byte /\ rest \in Seq(Byte) /\ e[m] = <<b>> \o rest
        BY <4>2, <4>3, <4>4, <4>5
      <4>7. <<b>> \in Seq(Byte)
        BY <4>6
      <4> QED BY <4>6, <4>7, ConcatProperties
    <3> QED BY <3>1, <3>2, Constants
  <2>2. \A u \in 0..m : u = m \/ u \in 0..(m - 1)
    OBVIOUS
  <2> QED BY <1>9, <2>1, <2>2
<1>10. \A k \in 1..v : k - 1 \in K => k \in K
  BY <1>9
<1> HIDE DEF K
<1>11. v \in K
  BY <1>8, <1>10, InductTo
<1> QED BY <1>6, <1>11 DEF K

LEMMA DecodeUintNat ==
    ASSUME NEW bs \in Seq(Byte)
    PROVE  DecodeUint(bs) \in Nat
<1> DEFINE n == Len(bs)
           g == [k \in 1..n |-> [x \in Nat |-> ((bs[n + 1 - k] % Msb) + Msb * x) % Word]]
           e == CHOOSE f : f = [k \in 0..n |-> IF k = 0 THEN 0
                                ELSE ((bs[n + 1 - k] % Msb) + Msb * f[k - 1]) % Word]
<1>1. n \in Nat
  OBVIOUS
<1>2. \A k \in 1..n : \A x \in Nat : g[k][x] = ((bs[n + 1 - k] % Msb) + Msb * x) % Word
  OBVIOUS
<1>3. \A k \in 1..n : \A x \in Nat : g[k][x] \in Nat
  <2> TAKE k \in 1..n, x \in Nat
  <2>1. bs[n + 1 - k] \in Byte
    OBVIOUS
  <2>2. PICK b, y : b = bs[n + 1 - k] /\ y = Msb * x
    OBVIOUS
  <2>3. b \in Nat /\ y \in Nat
    BY <2>1, <2>2, Constants
  <2>4. ((b % Msb) + y) % Word \in Nat
    BY <2>3, Constants
  <2> QED BY <1>2, <2>2, <2>4
<1> HIDE DEF g, n
<1>4. /\ \E f : IsLoop(f, n, 0, g)
      /\ \A f : IsLoop(f, n, 0, g) => \A k \in 0..n : f[k] \in Nat
  BY <1>1, <1>3, NatLoop
<1> DEFINE Sum(f, k) == ((bs[n + 1 - k] % Msb) + Msb * f[k - 1]) % Word
<1>5. PICK f : IsLoop(f, n, 0, g)
  BY <1>4
<1>6. f = [k \in 0..n |-> IF k = 0 THEN 0 ELSE Sum(f, k)]
  <2>1. \A k \in 1..n : k - 1 \in 0..n /\ f[k - 1] \in Nat
    BY <1>1, <1>4, <1>5
  <2>2. \A k \in 1..n : g[k][f[k - 1]] = Sum(f, k)
    BY <1>2, <2>1
  <2> HIDE DEF Sum
  <2> QED BY <1>1, <1>5, <2>2 DEF IsLoop
<1>7. e = [k \in 0..n |-> IF k = 0 THEN 0 ELSE Sum(e, k)]
  BY <1>6
<1>8. DecodeUint(bs) = e[n]
  BY DEF DecodeUint, n
<1> HIDE DEF e
<1>9. \A k \in 0..n : k # 0 => e[k] = Sum(e, k)
  <2> HIDE DEF Sum
  <2> QED BY <1>7
<1>10. e[0] = 0
  <2> HIDE DEF Sum
  <2> QED BY <1>1, <1>7
<1>11. ASSUME NEW k \in 1..n, e[k - 1] \in Nat PROVE e[k] \in Nat
  <2>1. e[k] = Sum(e, k)
    BY <1>1, <1>9, <1>11
  <2>2. g[k][e[k - 1]] = Sum(e, k) /\ g[k][e[k - 1]] \in Nat
    BY <1>2, <1>3, <1>11
  <2> HIDE DEF Sum
  <2> QED BY <2>1, <2>2
<1>12. PICK m : m = n
  OBVIOUS
<1>13. m \in Nat /\ e[0] \in Nat /\ \A k \in 1..m : e[k - 1] \in Nat => e[k] \in Nat
  BY <1>1, <1>10, <1>11, <1>12
<1>14. \A k \in 0..m : e[k] \in Nat
  BY <1>13, Stays
<1> QED BY <1>8, <1>12, <1>13, <1>14

LEMMA SwapBytes ==
    ASSUME NEW bs \in Seq(Byte)
    PROVE  Swap(bs) \in Seq(Byte) /\ Len(Swap(bs)) = Len(bs)
<1> DEFINE n == Len(bs)
           r == [i \in 1..n |-> bs[(n - i) + 1]]
<1>1. n \in Nat
  OBVIOUS
<1>2. \A i \in 1..n : bs[(n - i) + 1] \in Byte
  OBVIOUS
<1>3. r \in [1..n -> Byte]
  BY <1>2
<1>4. Reverse(bs) = r
  BY DEF Reverse
<1> HIDE DEF r, n
<1>5. r \in Seq(Byte)
  BY <1>1, <1>3 DEF Seq
<1>6. Len(r) = n
  BY <1>1, <1>3, <1>5
<1> QED BY <1>4, <1>5, <1>6 DEF Swap, n

LEMMA DecodeFixedNat ==
    ASSUME NEW bs \in Seq(Byte), Len(bs) = FixedBytes
    PROVE  DecodeFixed(bs) \in Nat
<1>1. PICK w, n : w = Swap(bs) /\ n = FixedBytes
  OBVIOUS
<1>2. n \in Nat /\ w \in Seq(Byte) /\ Len(w) = n
  BY <1>1, SwapBytes, Constants
<1> DEFINE g == [k \in 1..n |-> [x \in Nat |-> w[n + 1 - k] + Radix * x]]
           Sum(f, k) == w[n + 1 - k] + Radix * f[k - 1]
           e == CHOOSE f : f = [k \in 0..n |-> IF k = 0 THEN 0 ELSE Sum(f, k)]
<1>3. \A k \in 1..n : \A x \in Nat : g[k][x] = w[n + 1 - k] + Radix * x
  OBVIOUS
<1>4. \A k \in 1..n : \A x \in Nat : g[k][x] \in Nat
  <2> TAKE k \in 1..n, x \in Nat
  <2>1. PICK b, y : b = w[n + 1 - k] /\ y = Radix * x
    OBVIOUS
  <2>2. n + 1 - k \in 1..n
    BY <1>2
  <2>3. b \in Nat /\ y \in Nat
    BY <1>2, <2>1, <2>2, Constants
  <2> QED BY <1>3, <2>1, <2>3
<1> HIDE DEF g
<1>5. /\ \E f : IsLoop(f, n, 0, g)
      /\ \A f : IsLoop(f, n, 0, g) => \A k \in 0..n : f[k] \in Nat
  BY <1>2, <1>4, NatLoop
<1>6. PICK f : IsLoop(f, n, 0, g)
  BY <1>5
<1>7. f = [k \in 0..n |-> IF k = 0 THEN 0 ELSE Sum(f, k)]
  <2>1. \A k \in 1..n : k - 1 \in 0..n /\ f[k - 1] \in Nat
    BY <1>2, <1>5, <1>6
  <2>2. \A k \in 1..n : g[k][f[k - 1]] = Sum(f, k)
    BY <1>3, <2>1
  <2> HIDE DEF Sum
  <2> QED BY <1>2, <1>6, <2>2 DEF IsLoop
<1>8. e = [k \in 0..n |-> IF k = 0 THEN 0 ELSE Sum(e, k)]
  BY <1>7
<1>9. DecodeFixed(bs) = e[n]
  BY <1>1 DEF DecodeFixed
<1> HIDE DEF e
<1>10. e[0] = 0 /\ \A k \in 1..n : e[k] = Sum(e, k)
  <2> HIDE DEF Sum
  <2> QED BY <1>2, <1>8
<1>11. \A k \in 1..n : e[k - 1] \in Nat => e[k] \in Nat
  BY <1>3, <1>4, <1>10
<1>12. \A k \in 0..n : e[k] \in Nat
  <2>1. e[0] \in Nat
    BY <1>10
  <2> QED BY <1>2, <1>11, <2>1, Stays
<1> QED BY <1>2, <1>9, <1>12

LEMMA EncodeFixedBytes ==
    ASSUME NEW v \in Nat
    PROVE  EncodeFixed(v) \in Seq(Byte)
<1>1. PICK n : n = FixedBytes
  OBVIOUS
<1>2. n \in Nat
  BY <1>1, Constants
<1> DEFINE g == [k \in 1..n |-> [x \in Nat |-> x \div Radix]]
           e == CHOOSE f : f = [k \in 0..n |-> IF k = 0 THEN v ELSE f[k - 1] \div Radix]
<1>3. \A k \in 1..n : \A x \in Nat : g[k][x] = x \div Radix
  OBVIOUS
<1>4. Radix \in Nat \ {0}
  BY Constants
<1>5. \A x \in Nat : x \div Radix \in Nat /\ x % Radix \in Byte
  BY <1>4, Constants
<1>6. \A k \in 1..n : \A x \in Nat : g[k][x] \in Nat
  BY <1>3, <1>5
<1> HIDE DEF g
<1>7. /\ \E f : IsLoop(f, n, v, g)
      /\ \A f : IsLoop(f, n, v, g) => \A k \in 0..n : f[k] \in Nat
  BY <1>2, <1>6, NatLoop
<1>8. PICK f : IsLoop(f, n, v, g)
  BY <1>7
<1>9. f = [k \in 0..n |-> IF k = 0 THEN v ELSE f[k - 1] \div Radix]
  <2>1. \A k \in 1..n : k - 1 \in 0..n /\ f[k - 1] \in Nat
    BY <1>2, <1>7, <1>8
  <2>2. \A k \in 1..n : g[k][f[k - 1]] = f[k - 1] \div Radix
    BY <1>3, <2>1
  <2> QED BY <1>2, <1>8, <2>2 DEF IsLoop
<1>10. e = [k \in 0..n |-> IF k = 0 THEN v ELSE e[k - 1] \div Radix]
  BY <1>9
<1>11. EncodeFixed(v) = Swap([i \in 1..n |-> e[i - 1] % Radix])
  BY <1>1 DEF EncodeFixed
<1> HIDE DEF e
<1>12. e[0] = v /\ \A k \in 1..n : e[k] = e[k - 1] \div Radix
  BY <1>2, <1>10
<1>13. \A k \in 1..n : e[k - 1] \in Nat => e[k] \in Nat
  BY <1>5, <1>12
<1>14. \A k \in 0..n : e[k] \in Nat
  BY <1>2, <1>12, <1>13, Stays
<1>15. PICK s : s = [i \in 1..n |-> e[i - 1] % Radix]
  OBVIOUS
<1>16. s \in [1..n -> Byte]
  <2>1. \A i \in 1..n : i - 1 \in 0..n
    BY <1>2
  <2>2. \A i \in 1..n : e[i - 1] % Radix \in Byte
    BY <1>5, <1>14, <2>1
  <2> QED BY <1>15, <2>2
<1>17. s \in Seq(Byte)
  BY <1>2, <1>16 DEF Seq
<1> QED BY <1>11, <1>15, <1>17, SwapBytes

\* What an item is written as.
LEMMA EncodeBytes ==
    ASSUME NEW i \in Items
    PROVE  Encode(i[1], i[2]) \in Seq(Byte)
<1>1. PICK t, v : t = i[1] /\ v = i[2]
  OBVIOUS
<1>2. \/ t \in {"fixed", "uint"} /\ v \in Nat
      \/ t = "int" /\ v \in Int
      \/ t \in {"string", "vstring"} /\ v \in Seq(Byte)
  BY <1>1, ItemAssumption DEF Strings
<1>3. CASE t = "fixed"
  <2>1. v \in Nat /\ Encode(t, v) = EncodeFixed(v)
    BY <1>2, <1>3 DEF Encode
  <2> QED BY <1>1, <2>1, EncodeFixedBytes
<1>4. CASE t = "uint"
  <2>1. v \in Nat /\ Encode(t, v) = EncodeUint(v)
    BY <1>2, <1>4 DEF Encode
  <2> QED BY <1>1, <2>1, EncodeUintBytes
<1>5. CASE t = "int"
  <2>1. EncodeZigzag(v) \in Nat
    BY <1>2, <1>5, Constants DEF EncodeZigzag
  <2>2. Encode(t, v) = EncodeUint(EncodeZigzag(v))
    BY <1>5 DEF Encode
  <2> QED BY <1>1, <2>1, <2>2, EncodeUintBytes
<1>6. CASE t \in {"string", "vstring"}
  <2>1. v \in Seq(Byte) /\ Len(v) \in Nat
    BY <1>2, <1>6
  <2>2. PICK a : a = IF t = "string" THEN EncodeFixed(Len(v)) ELSE EncodeUint(Len(v))
    OBVIOUS
  <2>3. a \in Seq(Byte)
    BY <2>1, <2>2, EncodeFixedBytes, EncodeUintBytes
  <2>4. Encode(t, v) = a \o v
    BY <1>6, <2>2 DEF Encode
  <2>5. a \o v \in Seq(Byte)
    BY <2>1, <2>3, ConcatProperties
  <2> QED BY <1>1, <2>4, <2>5
<1> QED BY <1>1, <1>2, <1>3, <1>4, <1>5, <1>6

-----------------------------------------------------------------------------
(* Several read() calls.                                                   *)

\* e[k] is the sum of the first k sizes.
Sums(e, sizes) ==
    /\ e[0] = 0
    /\ \A k \in 1..Len(sizes) : e[k] = e[k - 1] + sizes[k]
    /\ \A k \in 0..Len(sizes) : e[k] \in Nat

LEMMA TotalSums ==
    ASSUME NEW sizes \in Seq(Nat)
    PROVE  \E e : Sums(e, sizes) /\ Total(sizes) = e[Len(sizes)]
<1>1. PICK n : n = Len(sizes)
  OBVIOUS
<1>2. n \in Nat /\ \A k \in 1..n : sizes[k] \in Nat
  BY <1>1
<1> DEFINE g == [k \in 1..n |-> [x \in Nat |-> x + sizes[k]]]
           e == CHOOSE f : f = [k \in 0..n |-> IF k = 0 THEN 0 ELSE f[k - 1] + sizes[k]]
<1>3. \A k \in 1..n : \A x \in Nat : g[k][x] = x + sizes[k] /\ g[k][x] \in Nat
  BY <1>2
<1> HIDE DEF g
<1>4. /\ \E f : IsLoop(f, n, 0, g)
      /\ \A f : IsLoop(f, n, 0, g) => \A k \in 0..n : f[k] \in Nat
  BY <1>2, <1>3, NatLoop
<1>5. PICK f : IsLoop(f, n, 0, g)
  BY <1>4
<1>6. f = [k \in 0..n |-> IF k = 0 THEN 0 ELSE f[k - 1] + sizes[k]]
  <2>1. \A k \in 1..n : k - 1 \in 0..n /\ f[k - 1] \in Nat
    BY <1>2, <1>4, <1>5
  <2>2. \A k \in 1..n : g[k][f[k - 1]] = f[k - 1] + sizes[k]
    BY <1>3, <2>1
  <2> QED BY <1>2, <1>5, <2>2 DEF IsLoop
<1>7. e = [k \in 0..n |-> IF k = 0 THEN 0 ELSE e[k - 1] + sizes[k]]
  BY <1>6
<1>8. Total(sizes) = e[n]
  BY <1>1 DEF Total
<1> HIDE DEF e
<1>9. e[0] = 0 /\ \A k \in 1..n : e[k] = e[k - 1] + sizes[k]
  BY <1>2, <1>7
<1>10. ASSUME NEW k \in 1..n, e[k - 1] \in Nat PROVE e[k] \in Nat
  <2>1. sizes[k] \in Nat
    BY <1>2
  <2>2. e[k] = e[k - 1] + sizes[k]
    BY <1>9
  <2> QED BY <1>10, <2>1, <2>2
<1>11. \A k \in 0..n : e[k] \in Nat
  <2>1. e[0] \in Nat
    BY <1>9
  <2> QED BY <1>2, <1>10, <2>1, Stays
<1>12. Sums(e, sizes) /\ Total(sizes) = e[Len(sizes)]
  BY <1>1, <1>8, <1>9, <1>11 DEF Sums
<1> QED BY <1>12

SameUpTo(s, t, n) == \A k \in 1..n : s[k] = t[k]

\* The sums of a sequence and of a longer one agree.
LEMMA SumsAgree ==
    ASSUME NEW s \in Seq(Nat), NEW t \in Seq(Nat), NEW n \in Nat, n <= Len(s), n <= Len(t),
           SameUpTo(s, t, n), NEW d, NEW e, Sums(d, s), Sums(e, t)
    PROVE  \A k \in 0..n : d[k] = e[k]
<1> DEFINE K == {k \in 0..n : d[k] = e[k]}
<1>1. 0 \in K
  BY DEF Sums
<1>2. ASSUME NEW k \in 1..n, k - 1 \in K PROVE k \in K
  <2>1. k \in 1..Len(s) /\ k \in 1..Len(t)
    OBVIOUS
  <2>2. d[k] = d[k - 1] + s[k] /\ e[k] = e[k - 1] + t[k]
    BY <2>1 DEF Sums
  <2> QED BY <1>2, <2>2 DEF SameUpTo
<1>3. \A k \in 1..n : k - 1 \in K => k \in K
  BY <1>2
<1> HIDE DEF K
<1>4. \A k \in 0..n : k \in K
  BY <1>1, <1>3, Induct
<1> QED BY <1>4 DEF K

LEMMA TotalAppend ==
    ASSUME NEW s \in Seq(Nat), NEW x \in Nat
    PROVE  Total(Append(s, x)) = Total(s) + x /\ Total(s) \in Nat
<1>1. PICK n, t : n = Len(s) /\ t = Append(s, x)
  OBVIOUS
<1>2. n \in Nat /\ t \in Seq(Nat) /\ Len(t) = n + 1 /\ t[n + 1] = x /\ \A k \in 1..n : s[k] = t[k]
  BY <1>1
<1>3. PICK d : Sums(d, s) /\ Total(s) = d[n]
  BY <1>1, TotalSums
<1>4. PICK e : Sums(e, t) /\ Total(t) = e[n + 1]
  BY <1>2, TotalSums
<1>5. d[n] = e[n]
  <2>1. n <= Len(s) /\ n <= Len(t) /\ SameUpTo(s, t, n) /\ n \in Nat /\ t \in Seq(Nat)
    BY <1>1, <1>2 DEF SameUpTo
  <2>0. Sums(d, s) /\ Sums(e, t)
    BY <1>3, <1>4
  <2>2. \A k \in 0..n : d[k] = e[k]
    BY <2>0, <2>1, SumsAgree
  <2>3. n \in 0..n
    BY <1>2
  <2> QED BY <2>2, <2>3, Zenon
<1>6. e[n + 1] = e[n] + x
  <2>1. n + 1 \in 1..Len(t) /\ (n + 1) - 1 = n
    BY <1>2
  <2> QED BY <1>2, <1>4, <2>1 DEF Sums
<1>7. d[n] \in Nat
  BY <1>1, <1>2, <1>3 DEF Sums
<1> QED BY <1>1, <1>3, <1>4, <1>5, <1>6, <1>7

LEMMA TotalNone == Total(<<>>) = 0
<1>1. PICK s : s = <<>>
  OBVIOUS
<1>2. s \in Seq(Nat) /\ Len(s) = 0
  BY <1>1
<1>3. PICK d : Sums(d, s) /\ Total(s) = d[0]
  BY <1>2, TotalSums
<1> QED BY <1>1, <1>3 DEF Sums

LEMMA TotalOne ==
    ASSUME NEW x \in Nat
    PROVE  Total(<<x>>) = x
<1>1. PICK s : s = <<>>
  OBVIOUS
<1>2. s \in Seq(Nat) /\ <<x>> = Append(s, x)
  BY <1>1
<1>3. Total(Append(s, x)) = Total(s) + x
  BY <1>2, TotalAppend
<1> QED BY <1>1, <1>2, <1>3, TotalNone

\* m calls for one byte each.
Singles(m) == [k \in 1..m |-> 1]

LEMMA SinglesSeq ==
    ASSUME NEW m \in Nat
    PROVE  /\ Singles(m) \in Seq(Nat) /\ Len(Singles(m)) = m
           /\ \A k \in 1..m : Singles(m)[k] = 1
<1>1. Singles(m) \in [1..m -> Nat]
  BY DEF Singles
<1>2. Singles(m) \in Seq(Nat)
  BY <1>1 DEF Seq
<1>3. \A k \in 1..m : Singles(m)[k] = 1
  BY DEF Singles
<1> QED BY <1>1, <1>2, <1>3

LEMMA TotalSingles ==
    ASSUME NEW m \in Nat
    PROVE  Total(Singles(m)) = m
<1>1. PICK s : s = Singles(m)
  OBVIOUS
<1>2. s \in Seq(Nat) /\ Len(s) = m /\ \A k \in 1..m : s[k] = 1
  BY <1>1, SinglesSeq
<1>3. PICK d : Sums(d, s) /\ Total(s) = d[m]
  BY <1>2, TotalSums
<1> DEFINE K == {k \in 0..m : d[k] = k}
<1>4. 0 \in K
  BY <1>3 DEF Sums
<1>5. \A k \in 1..m : k - 1 \in K => k \in K
  BY <1>2, <1>3 DEF Sums
<1> HIDE DEF K
<1>6. \A k \in 0..m : k \in K
  BY <1>4, <1>5, Induct
<1> QED BY <1>1, <1>3, <1>6 DEF K

\* The cursor at a position.
Cursor(p) == [pos |-> p, cur |-> CurAt(p, Len(nodes)), wild |-> FALSE]

LEMMA AdvanceEnds ==
    ASSUME IInv, NEW p \in Nat, NEW n \in Nat, p < m_capacity, p + n <= m_capacity
    PROVE  Advance(Cursor(p), n) = Cursor(p + n)
<1>1. PICK chain, L : chain = nodes /\ L = Len(nodes)
  OBVIOUS
<1>2. L \in Nat /\ Len(chain) = L /\ p < Start(L) /\ p + n <= Start(L) /\ Start(L) \in Nat
  BY <1>1, State
<1>3. PICK c, o : c = CurAt(p, L) /\ o = p % BaseSize
  OBVIOUS
<1>4. c = p \div BaseSize + 1
  BY <1>2, <1>3 DEF CurAt
<1>5. PICK w : w = Walk(chain, c, o, n)
  OBVIOUS
<1>6. Walked(Walk(chain, p \div BaseSize + 1, p % BaseSize, n), L, p, n)
  BY <1>2, WalkEnds
<1>7. w.wild = FALSE /\ w.node = CurAt(p + n, L)
  BY <1>3, <1>4, <1>5, <1>6 DEF Walked
<1>8. PICK k : k = Cursor(p)
  OBVIOUS
<1>9. k.pos = p /\ k.cur = c /\ k.wild = FALSE
  BY <1>1, <1>3, <1>8 DEF Cursor
<1>10. Advance(k, n) = [pos |-> p + n, cur |-> w.node, wild |-> FALSE \/ w.wild]
  BY <1>1, <1>3, <1>5, <1>9 DEF Advance
<1>11. Advance(k, n) = [pos |-> p + n, cur |-> CurAt(p + n, L), wild |-> FALSE]
  BY <1>7, <1>10
<1> QED BY <1>1, <1>8, <1>11 DEF Cursor

LEMMA SumsGrow ==
    ASSUME NEW sizes \in Seq(Nat), NEW d, Sums(d, sizes)
    PROVE  \A k \in 0..Len(sizes) : d[k] <= d[Len(sizes)]
<1>1. PICK n : n = Len(sizes)
  OBVIOUS
<1>2. n \in Nat /\ \A k \in 1..n : sizes[k] \in Nat
  BY <1>1
<1> DEFINE K == {k \in 0..n : d[n - k] <= d[n]}
<1>3. \A k \in 0..n : d[k] \in Nat
  BY <1>1 DEF Sums
<1>4. 0 \in K
  BY <1>2, <1>3
<1>5. ASSUME NEW k \in 1..n, k - 1 \in K PROVE k \in K
  <2>1. PICK i : i = n - (k - 1)
    OBVIOUS
  <2>2. i \in 1..n /\ i - 1 = n - k /\ i - 1 \in 0..n
    BY <1>2, <2>1
  <2>3. d[i] = d[i - 1] + sizes[i]
    BY <1>1, <2>2 DEF Sums
  <2>4. d[i] <= d[n]
    BY <1>5, <2>1
  <2>5. d[i - 1] <= d[n]
    BY <1>2, <1>3, <2>2, <2>3, <2>4
  <2> QED BY <2>2, <2>5
<1>6. \A k \in 1..n : k - 1 \in K => k \in K
  BY <1>5
<1> HIDE DEF K
<1>7. \A k \in 0..n : k \in K
  BY <1>2, <1>4, <1>6, Induct
<1>8. \A k \in 0..n : d[n - k] <= d[n]
  BY <1>7 DEF K
<1>9. \A k \in 0..n : n - k \in 0..n /\ n - (n - k) = k
  BY <1>2
<1> QED BY <1>1, <1>8, <1>9

\* Calls of read() that do not throw: only the last may ask for nothing.
Calls(sizes) ==
    /\ sizes \in Seq(Nat) /\ Total(sizes) <= ReadSize /\ ~EmptyAtEnd(sizes)
    /\ \A k \in 1..(Len(sizes) - 1) : sizes[k] # 0

\* The calls of a read that does not throw leave the cursor behind what they read.
LEMMA ReadAllEnds ==
    ASSUME IInv, NEW sizes, Calls(sizes)
    PROVE  ReadAll(sizes) = Cursor(m_position + Total(sizes))
<1>1. PICK n, p, z, cap : n = Len(sizes) /\ p = m_position /\ z = m_size /\ cap = m_capacity
  OBVIOUS
<1>2. /\ n \in Nat /\ p \in Nat /\ z \in Nat /\ cap \in Nat /\ z <= cap
      /\ \A k \in 1..n : sizes[k] \in Nat
  <2>1. sizes \in Seq(Nat)
    BY DEF Calls
  <2> QED BY <1>1, <2>1, State
<1>3. PICK d : Sums(d, sizes) /\ Total(sizes) = d[n]
  <2>1. sizes \in Seq(Nat)
    BY DEF Calls
  <2> QED BY <1>1, <2>1, TotalSums
<1>4. /\ d[0] = 0
      /\ \A k \in 1..n : d[k] = d[k - 1] + sizes[k]
      /\ \A k \in 0..n : d[k] \in Nat /\ d[k] <= d[n]
  <2>1. sizes \in Seq(Nat)
    BY DEF Calls
  <2>2. \A k \in 0..n : d[k] <= d[n]
    BY <1>1, <1>3, <2>1, SumsGrow
  <2> QED BY <1>1, <1>3, <2>2 DEF Sums
<1>5. d[n] \in Nat /\ p + d[n] <= z
  <2>1. Total(sizes) <= ReadSize
    BY DEF Calls
  <2>2. d[n] \in Nat
    BY <1>2, <1>4
  <2>3. ReadSize \in Nat /\ p + ReadSize = z
    BY <1>1, State
  <2> QED BY <1>2, <1>3, <2>1, <2>2, <2>3
<1>6. \A k \in 1..n : p + d[k - 1] < cap /\ p + d[k] <= cap
  <2> TAKE k \in 1..n
  <2>1. /\ d[k - 1] \in Nat /\ d[k] \in Nat /\ d[k] <= d[n] /\ d[k] = d[k - 1] + sizes[k]
        /\ sizes[k] \in Nat
    BY <1>2, <1>4
  <2>0. PICK x, y, s : x = d[k - 1] /\ y = d[k] /\ s = sizes[k]
    OBVIOUS
  <2>2. p + d[k] <= cap /\ x \in Nat /\ y \in Nat /\ s \in Nat /\ y = x + s /\ p + y <= cap
    BY <1>2, <1>5, <2>0, <2>1
  <2>3. CASE sizes[k] # 0
    BY <1>2, <2>0, <2>2, <2>3
  <2>4. CASE sizes[k] = 0
    <3>1. k = n
      BY <1>1, <1>2, <2>4 DEF Calls
    <3>2. sizes # <<>> /\ Last(sizes) = 0
      BY <1>1, <1>2, <2>4, <3>1 DEF Last
    <3>3. p + d[n] # cap
      BY <1>1, <1>3, <3>2 DEF Calls, EmptyAtEnd
    <3>4. y = x /\ p + y # cap
      <4>1. s = 0 /\ y = d[n]
        BY <2>0, <2>4, <3>1
      <4> QED BY <2>2, <3>3, <4>1
    <3> QED BY <1>2, <2>0, <2>2, <3>4
  <2> QED BY <2>2, <2>3, <2>4
<1>7. \A k \in 1..n : Advance(Cursor(p + d[k - 1]), sizes[k]) = Cursor(p + d[k])
  <2> TAKE k \in 1..n
  <2>1. PICK q, m : q = p + d[k - 1] /\ m = sizes[k]
    OBVIOUS
  <2>2. q \in Nat /\ m \in Nat /\ q + m = p + d[k]
    <3>1. PICK x, y : x = d[k - 1] /\ y = d[k]
      OBVIOUS
    <3>2. x \in Nat /\ y = x + m /\ m \in Nat /\ q = p + x
      BY <1>2, <1>4, <2>1, <3>1
    <3> QED BY <1>2, <3>1, <3>2
  <2>3. q < m_capacity /\ q + m <= m_capacity
    BY <1>1, <1>6, <2>1, <2>2
  <2> QED BY <2>1, <2>2, <2>3, AdvanceEnds
<1> DEFINE a == [pos |-> m_position, cur |-> m_cur, wild |-> FALSE]
           h == [k \in 0..n |-> Cursor(p + d[k])]
           e == CHOOSE f : f = [k \in 0..n |-> IF k = 0 THEN a ELSE Advance(f[k - 1], sizes[k])]
<1>8. a = Cursor(p + d[0])
  BY <1>1, <1>2, <1>4, State DEF Cursor
<1> HIDE DEF a
<1>9. h = [k \in 0..n |-> IF k = 0 THEN a ELSE Advance(h[k - 1], sizes[k])]
  <2>1. \A k \in 0..n : h[k] = Cursor(p + d[k])
    OBVIOUS
  <2>2. h = [k \in 0..n |-> h[k]]
    OBVIOUS
  <2> HIDE DEF h
  <2>3. \A k \in 0..n : h[k] = IF k = 0 THEN a ELSE Advance(h[k - 1], sizes[k])
    <3> TAKE k \in 0..n
    <3>1. CASE k = 0
      BY <1>8, <2>1, <3>1
    <3>2. CASE k # 0
      <4>1. k \in 1..n /\ k - 1 \in 0..n
        BY <1>2, <3>2
      <4> QED BY <1>7, <2>1, <3>2, <4>1
    <3> QED BY <3>1, <3>2
  <2> QED BY <2>2, <2>3
<1>10. e = [k \in 0..n |-> IF k = 0 THEN a ELSE Advance(e[k - 1], sizes[k])]
  BY <1>9
<1>11. ReadAll(sizes) = e[n]
  BY <1>1 DEF ReadAll, a
<1> HIDE DEF e, h
<1>12. e[n] = Cursor(p + d[n])
  <2> DEFINE K == {k \in 0..n : e[k] = Cursor(p + d[k])}
  <2>1. 0 \in K
    BY <1>2, <1>8, <1>10
  <2>2. ASSUME NEW k \in 1..n, k - 1 \in K PROVE k \in K
    <3>1. e[k - 1] = Cursor(p + d[k - 1]) /\ e[k] = Advance(e[k - 1], sizes[k])
      BY <1>2, <1>10, <2>2
    <3> QED BY <1>2, <1>7, <3>1
  <2>3. PICK K1 : K1 = K
    OBVIOUS
  <2>4. 0 \in K1 /\ \A k \in 1..n : k - 1 \in K1 => k \in K1
    BY <2>1, <2>2, <2>3
  <2>5. n \in Nat
    BY <1>2
  <2>6. n \in K1
    BY <2>4, <2>5, InductTo
  <2> QED BY <2>3, <2>6
<1> QED BY <1>1, <1>3, <1>11, <1>12

-----------------------------------------------------------------------------
(* The calls of a typed read.                                              *)

LEMMA Least ==
    ASSUME NEW T, T \subseteq Nat, T # {}
    PROVE  \E k \in T : \A j \in T : k <= j
<1> DEFINE R == OpToRel(<, Nat)
<1>1. IsWellFoundedOn(R, Nat)
  BY NatLessThanWellFounded
<1>2. \A i, j \in Nat : i < j => <<i, j>> \in R
  BY DEF OpToRel
<1> HIDE DEF R
<1>3. PICK k \in T : \A j \in T : ~ (<<j, k>> \in R)
  BY <1>1, WFMin
<1>4. \A j \in T : ~(j < k)
  BY <1>2, <1>3
<1>5. \A j \in T : k <= j
  BY <1>3, <1>4
<1> QED BY <1>3, <1>5

LEMMA FrontOf ==
    ASSUME NEW s \in Seq(Nat), s # <<>>
    PROVE  /\ Front(s) \in Seq(Nat) /\ Len(Front(s)) = Len(s) - 1 /\ Len(s) - 1 \in Nat
           /\ \A k \in 1..(Len(s) - 1) : Front(s)[k] = s[k]
<1>1. PICK n : n = Len(s) - 1
  OBVIOUS
<1>2. n \in Nat /\ Len(s) = n + 1
  BY <1>1
<1>3. Front(s) = [k \in 1..n |-> s[k]]
  BY <1>1, <1>2 DEF Front
<1>4. Front(s) \in [1..n -> Nat]
  BY <1>2, <1>3
<1>5. Front(s) \in Seq(Nat)
  BY <1>2, <1>4 DEF Seq
<1>6. Len(Front(s)) = n
  BY <1>2, <1>4, <1>5
<1> QED BY <1>1, <1>2, <1>3, <1>5, <1>6

\* The calls of a read: the last one may throw, and only it may ask for nothing.
Reading(sizes) ==
    /\ sizes \in Seq(Nat) /\ sizes # <<>> /\ Total(Front(sizes)) <= ReadSize
    /\ \A k \in 1..(Len(sizes) - 1) : sizes[k] # 0

LEMMA OneReading ==
    ASSUME IInv, NEW n \in Nat
    PROVE  Reading(<<n>>)
<1>1. PICK s : s = <<n>>
  OBVIOUS
<1>2. s \in Seq(Nat) /\ s # <<>> /\ Len(s) = 1
  BY <1>1
<1>3. Front(s) \in Seq(Nat) /\ Len(Front(s)) = 0
  <2>1. Front(s) \in Seq(Nat) /\ Len(Front(s)) = Len(s) - 1
    BY <1>2, FrontOf
  <2> QED BY <1>2, <2>1
<1>4. Front(s) = <<>>
  BY <1>3
<1>5. Total(Front(s)) <= ReadSize
  BY <1>4, TotalNone, State
<1> QED BY <1>1, <1>2, <1>5 DEF Reading

LEMMA VarintCalls ==
    ASSUME IInv
    PROVE  \E m \in 1..(ReadSize + 1) : VarintReads = Singles(m)
<1>1. PICK z : z = ReadSize
  OBVIOUS
<1>2. z \in Nat
  BY <1>1, State
<1>3. PICK stop : stop = {k \in 1..z : Ahead[k] < Msb \/ k = MaxChunks} \cup {z + 1}
  OBVIOUS
<1>4. stop \subseteq 1..(z + 1) /\ stop \subseteq Nat /\ stop # {}
  BY <1>2, <1>3
<1>5. PICK m : m = CHOOSE k \in stop : \A j \in stop : k <= j
  OBVIOUS
<1>6. m \in stop
  BY <1>4, <1>5, Least
<1>7. VarintReads = Singles(m)
  BY <1>1, <1>3, <1>5 DEF VarintReads, Singles
<1> QED BY <1>1, <1>4, <1>6, <1>7

\* The calls for an integer or for the length of a string.
LEMMA NumberCalls ==
    ASSUME IInv, NEW t
    PROVE  /\ NumberReads(t) \in Seq(Nat) /\ Reading(NumberReads(t))
           /\ \A k \in 1..Len(NumberReads(t)) : NumberReads(t)[k] # 0
           /\ t = "string" => Total(NumberReads(t)) = FixedBytes
<1>1. CASE t \in {"fixed", "string"}
  <2>1. PICK n, s : n = FixedBytes /\ s = <<FixedBytes>>
    OBVIOUS
  <2>2. n \in Nat /\ n # 0 /\ s = <<n>>
    BY <2>1, Constants
  <2>3. NumberReads(t) = s
    BY <1>1, <2>1 DEF NumberReads
  <2>4. s \in Seq(Nat) /\ \A k \in 1..Len(s) : s[k] # 0
    BY <2>2
  <2>5. Reading(s) /\ Total(s) = n
    BY <2>2, OneReading, TotalOne
  <2> QED BY <2>1, <2>3, <2>4, <2>5
<1>2. CASE t \notin {"fixed", "string"}
  <2>1. PICK m \in 1..(ReadSize + 1) : VarintReads = Singles(m)
    BY VarintCalls
  <2>2. m \in Nat /\ m - 1 \in Nat /\ m - 1 <= ReadSize /\ ReadSize \in Nat /\ m # 0
    BY <2>1, State
  <2>3. PICK s : s = Singles(m)
    OBVIOUS
  <2>4. s \in Seq(Nat) /\ Len(s) = m /\ \A k \in 1..m : s[k] = 1
    BY <2>2, <2>3, SinglesSeq
  <2>5. s # <<>>
    BY <2>2, <2>4
  <2>6. Front(s) = Singles(m - 1)
    <3>1. /\ Front(s) \in Seq(Nat) /\ Len(Front(s)) = m - 1
          /\ \A k \in 1..(m - 1) : Front(s)[k] = s[k]
      BY <2>4, <2>5, FrontOf
    <3>2. Front(s) = [k \in 1..(m - 1) |-> Front(s)[k]]
      BY <3>1
    <3>3. \A k \in 1..(m - 1) : Front(s)[k] = 1
      BY <2>2, <2>4, <3>1
    <3> QED BY <3>2, <3>3 DEF Singles
  <2>7. Total(Front(s)) <= ReadSize
    BY <2>2, <2>6, TotalSingles
  <2>8. Reading(s)
    BY <2>2, <2>4, <2>5, <2>7 DEF Reading
  <2>9. NumberReads(t) = s
    BY <1>2, <2>1, <2>3 DEF NumberReads
  <2>10. \A k \in 1..Len(s) : s[k] # 0
    BY <2>4
  <2> QED BY <1>2, <2>4, <2>8, <2>9, <2>10
<1> QED BY <1>1, <1>2

LEMMA TypedReading ==
    ASSUME IInv, NEW t \in Type
    PROVE  Reading(Reads(t))
<1>1. PICK s, n : s = NumberReads(t) /\ n = Total(NumberReads(t))
  OBVIOUS
<1>2. /\ s \in Seq(Nat) /\ Reading(s) /\ n = Total(s)
      /\ \A k \in 1..Len(s) : s[k] # 0
      /\ t = "string" => n = FixedBytes
  BY <1>1, NumberCalls
<1>3. n \in Nat
  BY <1>2, TotalAppend
<1>4. CASE t \in Strings /\ n <= ReadSize
  <2>1. PICK bs, x : bs = SubSeq(Ahead, 1, n) /\ x = DecodeNumber(t, SubSeq(Ahead, 1, n))
    OBVIOUS
  <2>2. PICK a, z : a = Ahead /\ z = ReadSize
    OBVIOUS
  <2>3. z \in Nat /\ a \in Seq(Byte) /\ Len(a) = z
    <3>1. ReadSize \in Nat /\ m_position + ReadSize <= m_size
      BY State
    <3> QED BY <2>2, <3>1, HereEnds DEF Ahead
  <2>4. bs = [i \in 1..n |-> a[i]]
    BY <1>3, <1>4, <2>1, <2>2, <2>3
  <2>5. bs \in [1..n -> Byte]
    <3>1. \A i \in 1..n : a[i] \in Byte
      BY <1>3, <1>4, <2>2, <2>3
    <3> QED BY <2>4, <3>1
  <2>6. bs \in Seq(Byte)
    BY <1>3, <2>5 DEF Seq
  <2>7. Len(bs) = n
    BY <1>3, <2>5, <2>6
  <2>8. x \in Nat
    <3>1. CASE t = "string"
      <4>1. DecodeFixed(bs) \in Nat
        BY <1>2, <2>6, <2>7, <3>1, DecodeFixedNat
      <4>2. x = DecodeFixed(bs)
        BY <2>1, <3>1 DEF DecodeNumber
      <4> QED BY <4>1, <4>2
    <3>2. CASE t = "vstring"
      <4>1. DecodeUint(bs) \in Nat
        BY <2>6, DecodeUintNat
      <4>2. x = DecodeUint(bs)
        BY <2>1, <3>2 DEF DecodeNumber
      <4> QED BY <4>1, <4>2
    <3> QED BY <1>4, <3>1, <3>2 DEF Strings
  <2>9. Reads(t) = Append(s, x)
    BY <1>1, <1>4, <2>1 DEF Reads
  <2>10. PICK r : r = Append(s, x)
    OBVIOUS
  <2>11. /\ r \in Seq(Nat) /\ Len(r) = Len(s) + 1 /\ r # <<>> /\ Len(s) \in Nat
         /\ \A k \in 1..Len(s) : r[k] = s[k]
    BY <1>2, <2>8, <2>10
  <2>12. Front(r) = s
    <3>1. /\ Front(r) \in Seq(Nat) /\ Len(Front(r)) = Len(r) - 1
          /\ \A k \in 1..(Len(r) - 1) : Front(r)[k] = r[k]
      BY <2>11, FrontOf
    <3>2. Len(r) - 1 = Len(s)
      BY <2>11
    <3>3. PICK f : f = Front(r)
      OBVIOUS
    <3>4. f \in Seq(Nat) /\ Len(f) = Len(s) /\ \A k \in 1..Len(s) : f[k] = s[k]
      BY <2>11, <3>1, <3>2, <3>3
    <3>5. f = s
      BY <1>2, <3>4
    <3> QED BY <3>3, <3>5
  <2>13. Reading(r)
    <3>1. Total(Front(r)) <= ReadSize
      BY <1>2, <1>4, <2>12
    <3>2. \A k \in 1..(Len(r) - 1) : r[k] # 0
      BY <1>2, <2>11
    <3> QED BY <2>11, <3>1, <3>2 DEF Reading
  <2> QED BY <2>9, <2>10, <2>13
<1>5. CASE ~(t \in Strings /\ n <= ReadSize)
  BY <1>1, <1>2, <1>5 DEF Reads
<1> QED BY <1>4, <1>5

-----------------------------------------------------------------------------
(* The invariant.                                                          *)

\* The parts of the invariant behind a step.
LEMMA PartsNext ==
    ASSUME NEW L \in Nat \ {0}, nodes' \in Chain, Len(nodes') = L,
           m_position' \in Nat, m_size' \in Nat, m_position' <= m_size', m_size' <= Start(L),
           m_capacity' = Start(L), m_cur' = CurAt(m_position', L),
           little' \in BOOLEAN, crashed' = FALSE, out' \in Seq(Byte)
    PROVE  IInv'
<1>1. Start(L) \in Nat
  BY Times
<1>2. m_cur' \in 0..L
  <2>1. PICK p : p = m_position'
    OBVIOUS
  <2>2. p \in Nat /\ p <= Start(L)
    BY <1>1, <2>1
  <2> QED BY <2>1, <2>2, CurAtIn
<1>3. TypeOK'
  BY <1>1, <1>2 DEF TypeOK, Chain
<1>4. CursorAtPosition'
  BY DEF CursorAtPosition, CurAt, Start
<1>5. nodes' # <<>>
  OBVIOUS
<1> QED BY <1>3, <1>4, <1>5 DEF IInv, ArrayInv, NoNullDereference

\* Steps that leave the array alone.
LEMMA ArrayStays ==
    ASSUME IInv, UNCHANGED bufVars, little' \in BOOLEAN, crashed' = FALSE, out' \in Seq(Byte)
    PROVE  IInv'
<1>1. PICK L : L = Len(nodes)
  OBVIOUS
<1>2. /\ nodes' = nodes /\ m_cur' = m_cur /\ m_position' = m_position
      /\ m_size' = m_size /\ m_capacity' = m_capacity
  BY DEF bufVars
<1> QED BY <1>1, <1>2, State, PartsNext

LEMMA Bool == IInv => little \in BOOLEAN /\ crashed = FALSE /\ out \in Seq(Byte)
BY DEF IInv, ArrayInv, TypeOK, NoNullDereference

LEMMA InitIInv == Init => IInv
<1> SUFFICES ASSUME Init PROVE IInv
  OBVIOUS
<1>1. /\ nodes = <<NewNode>> /\ m_cur = 1 /\ m_position = 0 /\ m_size = 0 /\ m_capacity = BaseSize
      /\ little = FALSE /\ crashed = FALSE /\ out = <<>>
  BY DEF Init
<1>2. NewNode \in [1..BaseSize -> Byte]
  BY Constants DEF NewNode, Junk
<1>3. nodes \in Seq([1..BaseSize -> Byte]) /\ Len(nodes) = 1 /\ nodes # <<>>
  BY <1>1, <1>2
<1>4. BaseSize \in Nat \ {0} /\ 0 \div BaseSize = 0
  BY Constants
<1>5. TypeOK
  <2>1. m_cur \in 0..Len(nodes) /\ out \in Seq(Byte)
    BY <1>1, <1>3
  <2> QED BY <1>1, <1>3, <1>4, <2>1 DEF TypeOK
<1>6. CursorAtPosition
  BY <1>1, <1>3, <1>4 DEF CursorAtPosition
<1> QED BY <1>1, <1>3, <1>5, <1>6 DEF IInv, ArrayInv, NoNullDereference

\* write()
LEMMA PutKeeps ==
    ASSUME IInv, NEW bs \in Seq(Byte), Put(bs), little' = little, out' = <<>>
    PROVE  IInv'
<1>0. out' \in Seq(Byte) /\ little' \in BOOLEAN /\ crashed = FALSE
  BY Bool
<1>1. CASE Len(bs) = 0
  BY <1>0, <1>1, ArrayStays DEF Put
<1>2. CASE Len(bs) # 0
  <2>1. PICK n, chain, L, p : n = Len(bs) /\ chain = Extended(n) /\ L = Len(chain) /\ p = m_position
    OBVIOUS
  <2>2. n \in Nat \ {0}
    BY <1>2, <2>1
  <2>3. /\ chain \in Chain /\ L \in Nat \ {0} /\ p + n <= Start(L) /\ m_size <= Start(L)
        /\ CurForWrite(n) = p \div BaseSize + 1
    BY <2>1, <2>2, Room
  <2>4. p \in Nat /\ m_size \in Nat /\ p < Start(L) /\ Start(L) \in Nat
    <3>1. p \in Nat /\ m_size \in Nat
      BY <2>1, State
    <3>2. Start(L) \in Nat
      BY <2>3, Times
    <3> QED BY <2>2, <2>3, <3>1, <3>2
  <2>5. PICK walk : walk = Walk(chain, CurForWrite(n), m_position % BaseSize, n)
    OBVIOUS
  <2>6. Walked(walk, L, p, n)
    BY <2>1, <2>2, <2>3, <2>4, <2>5, WalkEnds
  <2>7. walk.wild = FALSE /\ walk.node = CurAt(p + n, L)
    BY <2>6 DEF Walked
  <2>8. /\ crashed' = walk.wild
        /\ nodes' = IF walk.wild THEN chain ELSE Store(chain, walk.cells, bs)
        /\ m_cur' = walk.node
        /\ m_capacity' = BaseSize * Len(chain)
        /\ m_position' = m_position + n
        /\ m_size' = IF m_position + n > m_size THEN m_position + n ELSE m_size
    BY <1>2, <2>1, <2>5 DEF Put
  <2>9. nodes' \in Chain /\ Len(nodes') = L
    <3>1. PICK cells : cells = walk.cells
      OBVIOUS
    <3>2. nodes' = Store(chain, cells, bs)
      BY <2>7, <2>8, <3>1
    <3> QED BY <2>1, <2>3, <3>2, StoreBytes
  <2>10. m_capacity' = Start(L) /\ crashed' = FALSE /\ m_position' = p + n /\ m_cur' = CurAt(p + n, L)
    BY <2>1, <2>7, <2>8 DEF Start
  <2>11. m_size' \in Nat /\ m_position' \in Nat /\ m_position' <= m_size' /\ m_size' <= Start(L)
    BY <2>1, <2>2, <2>3, <2>4, <2>8, <2>10
  <2> QED BY <1>0, <2>3, <2>9, <2>10, <2>11, PartsNext
<1> QED BY <1>1, <1>2

\* read() and the typed reads, when an empty string is not read where the chain ends.
LEMMA ConsumeKeeps ==
    ASSUME ~EmptyReads, IInv, NEW sizes, Reading(sizes), Consume(sizes)
    PROVE  IInv'
<1>1. PICK done : done = IF Total(sizes) > ReadSize THEN Front(sizes) ELSE sizes
  OBVIOUS
<1>2. /\ ~EmptyAtEnd(done)
      /\ crashed' = ReadAll(done).wild
      /\ m_position' = ReadAll(done).pos /\ m_cur' = ReadAll(done).cur
      /\ out' = IF ReadAll(done).wild THEN <<>> ELSE Fetch(Here(Total(done)).cells)
      /\ UNCHANGED <<nodes, m_size, m_capacity, little>>
  BY <1>1 DEF Consume
<1>3. done \in Seq(Nat) /\ Total(done) \in Nat /\ Total(done) <= ReadSize
      /\ \A k \in 1..(Len(done) - 1) : done[k] # 0
  <2>1. /\ sizes \in Seq(Nat) /\ sizes # <<>> /\ Total(Front(sizes)) <= ReadSize
        /\ \A k \in 1..(Len(sizes) - 1) : sizes[k] # 0
    BY DEF Reading
  <2>2. /\ Front(sizes) \in Seq(Nat) /\ Len(Front(sizes)) = Len(sizes) - 1 /\ Len(sizes) - 1 \in Nat
        /\ \A k \in 1..(Len(sizes) - 1) : Front(sizes)[k] = sizes[k]
    BY <2>1, FrontOf
  <2>3. done \in Seq(Nat)
    BY <1>1, <2>1, <2>2
  <2>4. Total(done) \in Nat
    BY <2>3, TotalAppend
  <2>5. CASE Total(sizes) > ReadSize
    <3>1. done = Front(sizes)
      BY <1>1, <2>5
    <3>2. \A k \in 1..(Len(done) - 1) : k \in 1..(Len(sizes) - 1)
      BY <2>2, <3>1
    <3>3. \A k \in 1..(Len(done) - 1) : done[k] # 0
      BY <2>1, <2>2, <3>1, <3>2
    <3> QED BY <2>1, <2>3, <2>4, <3>1, <3>3
  <2>6. CASE ~(Total(sizes) > ReadSize)
    <3>1. done = sizes
      BY <1>1, <2>6
    <3>2. Total(done) <= ReadSize
      BY <2>4, <2>6, <3>1, State
    <3> QED BY <2>1, <2>4, <3>1, <3>2
  <2> QED BY <2>5, <2>6
<1>4. Calls(done)
  BY <1>2, <1>3 DEF Calls
<1>5. PICK n, p, L : n = Total(done) /\ p = m_position /\ L = Len(nodes)
  OBVIOUS
<1>6. ReadAll(done) = [pos |-> p + n, cur |-> CurAt(p + n, L), wild |-> FALSE]
  BY <1>4, <1>5, ReadAllEnds DEF Cursor
<1>7. /\ crashed' = FALSE /\ m_position' = p + n /\ m_cur' = CurAt(p + n, L)
      /\ out' = Fetch(Here(n).cells)
  BY <1>2, <1>5, <1>6
<1>8. n \in Nat /\ p \in Nat /\ p + n <= m_size /\ m_size \in Nat
  <2>1. n \in Nat /\ n <= ReadSize
    BY <1>3, <1>5
  <2> QED BY <1>5, <2>1, State
<1>9. out' \in Seq(Byte)
  BY <1>5, <1>7, <1>8, HereEnds
<1>10. /\ nodes \in Chain /\ L \in Nat \ {0} /\ m_size <= Start(L) /\ m_capacity = Start(L)
       /\ little \in BOOLEAN
  BY <1>5, State, Bool
<1>11. /\ nodes' \in Chain /\ Len(nodes') = L /\ m_size' <= Start(L) /\ m_capacity' = Start(L)
       /\ little' \in BOOLEAN /\ m_size' \in Nat /\ m_position' \in Nat /\ m_position' <= m_size'
       /\ m_cur' = CurAt(m_position', L)
  BY <1>2, <1>5, <1>7, <1>8, <1>10
<1> QED BY <1>7, <1>9, <1>10, <1>11, PartsNext

LEMMA SetPositionKeeps ==
    ASSUME IInv, NEW v \in Nat, SetPosition(v)
    PROVE  IInv'
<1>1. PICK L, chain : L = Len(nodes) /\ chain = nodes
  OBVIOUS
<1>2. /\ nodes \in Chain /\ L \in Nat \ {0} /\ m_size \in Nat /\ m_size <= Start(L)
      /\ m_capacity = Start(L) /\ Len(chain) = L /\ Start(L) \in Nat
  BY <1>1, State
<1>3. /\ v <= m_capacity /\ m_position' = v
      /\ m_size' = IF v > m_size THEN v ELSE m_size
      /\ m_cur' = Seek(chain, v) /\ out' = <<>> /\ nodes' = nodes /\ m_capacity' = m_capacity
      /\ little' = little /\ crashed' = crashed
  BY <1>1 DEF SetPosition
<1>4. m_cur' = CurAt(v, L)
  BY <1>2, <1>3, SeekEnds
<1>5. out' \in Seq(Byte) /\ little' \in BOOLEAN /\ crashed' = FALSE
  BY <1>3, Bool
<1>6. /\ m_size' \in Nat /\ m_position' \in Nat /\ m_position' <= m_size' /\ m_size' <= Start(L)
      /\ nodes' \in Chain /\ Len(nodes') = L /\ m_capacity' = Start(L) /\ m_cur' = CurAt(m_position', L)
  BY <1>1, <1>2, <1>3, <1>4
<1> QED BY <1>2, <1>5, <1>6, PartsNext

LEMMA ClearKeeps ==
    ASSUME IInv, Clear
    PROVE  IInv'
<1>1. nodes \in Chain /\ Len(nodes) \in Nat \ {0}
  BY State
<1>2. PICK node : node = nodes[1]
  OBVIOUS
<1>3. node \in [1..BaseSize -> Byte]
  BY <1>1, <1>2 DEF Chain
<1>4. <<node>> \in Chain /\ Len(<<node>>) = 1
  BY <1>3 DEF Chain
<1>5. /\ m_position' = 0 /\ m_size' = 0 /\ m_capacity' = BaseSize
      /\ nodes' = <<node>> /\ m_cur' = 1 /\ out' = <<>>
      /\ little' = little /\ crashed' = crashed
  BY <1>2 DEF Clear
<1>6. BaseSize \in Nat \ {0} /\ Start(1) = BaseSize /\ 0 \div BaseSize = 0
  BY Constants DEF Start
<1>7. CurAt(0, 1) = 1
  BY <1>6 DEF CurAt
<1>8. out' \in Seq(Byte) /\ little' \in BOOLEAN /\ crashed' = FALSE
  BY <1>5, Bool
<1>9. /\ m_size' \in Nat /\ m_position' \in Nat /\ m_position' <= m_size' /\ m_size' <= Start(1)
      /\ nodes' \in Chain /\ Len(nodes') = 1 /\ m_capacity' = Start(1) /\ m_cur' = CurAt(m_position', 1)
      /\ 1 \in Nat \ {0}
  BY <1>4, <1>5, <1>6, <1>7
<1> QED BY <1>8, <1>9, PartsNext

\* SocketStream::read of nothing
LEMMA ReceiveNothingKeeps ==
    ASSUME IInv, NEW bs \in Seq(Byte), Receive(bs, 0)
    PROVE  IInv'
<1>1. PICK chain, L, p : chain = Extended(0) /\ L = Len(nodes) /\ p = m_position
  OBVIOUS
<1>2. /\ nodes \in Chain /\ L \in Nat \ {0} /\ p \in Nat /\ m_size \in Nat /\ m_size <= Start(L)
      /\ m_capacity = Start(L) /\ m_cur = CurAt(p, L) /\ Start(L) \in Nat
      /\ p <= m_size
  BY <1>1, State
<1>3. bs = <<>> /\ Len(bs) = 0
  BY DEF Receive
<1>4. Missing(0) = 0
  BY <1>1, <1>2 DEF Missing
<1>5. chain = nodes /\ CurForWrite(0) = m_cur
  <2>1. [i \in 1..0 |-> NewNode] = <<>>
    OBVIOUS
  <2> QED BY <1>1, <1>2, <1>4, <2>1 DEF Extended, CurForWrite, Chain
<1>6. /\ crashed' = FALSE /\ nodes' = Store(nodes, <<>>, bs) /\ m_capacity' = BaseSize * L
      /\ m_cur' = m_cur /\ m_position' = p + 0
      /\ m_size' = IF p + 0 > m_size THEN p + 0 ELSE m_size
      /\ out' = <<>> /\ little' = little
  BY <1>1, <1>3, <1>5 DEF Receive, WriteBuffers, NoBuffers
<1>7. nodes' \in Chain /\ Len(nodes') = L
  BY <1>1, <1>2, <1>3, <1>6, StoreBytes
<1>8. m_capacity' = Start(L)
  BY <1>6 DEF Start
<1>9. out' \in Seq(Byte) /\ little' \in BOOLEAN
  BY <1>6, Bool
<1>10. m_position' = p /\ m_size' = m_size
  BY <1>2, <1>6
<1> QED BY <1>2, <1>6, <1>7, <1>8, <1>9, <1>10, PartsNext

\* SocketStream::read
LEMMA ReceiveKeeps ==
    ASSUME IInv, NEW bs \in Seq(Byte), NEW n \in Nat \ {0}, Receive(bs, n)
    PROVE  IInv'
<1>1. PICK chain, L, p, l : chain = Extended(n) /\ L = Len(chain) /\ p = m_position /\ l = Len(bs)
  OBVIOUS
<1>2. PICK walk : walk = Walk(chain, CurForWrite(n), p % BaseSize, n)
  OBVIOUS
<1>3. /\ l <= n /\ crashed' = walk.wild
      /\ nodes' = IF walk.wild THEN chain ELSE Store(chain, walk.cells, bs)
      /\ m_capacity' = BaseSize * L
      /\ m_cur' = IF bs = <<>> THEN CurForWrite(n) ELSE Seek(chain, p + l)
      /\ m_position' = p + l
      /\ m_size' = IF p + l > m_size THEN p + l ELSE m_size
      /\ out' = <<>> /\ little' = little
  BY <1>1, <1>2 DEF Receive, WriteBuffers
<1>4. n \in Nat \ {0} /\ l \in Nat
  BY <1>1
<1>5. /\ chain \in Chain /\ L \in Nat \ {0} /\ p + n <= Start(L) /\ m_size <= Start(L)
      /\ CurForWrite(n) = p \div BaseSize + 1
  BY <1>1, <1>4, Room
<1>6. p \in Nat /\ m_size \in Nat /\ p < Start(L) /\ Start(L) \in Nat /\ p + l <= Start(L)
  <2>1. p \in Nat /\ m_size \in Nat /\ Start(L) \in Nat
    BY <1>1, <1>5, State, Times
  <2> QED BY <1>3, <1>4, <1>5, <2>1
<1>7. Walked(walk, L, p, n)
  BY <1>1, <1>2, <1>4, <1>5, <1>6, WalkEnds
<1>8. nodes' \in Chain /\ Len(nodes') = L /\ crashed' = FALSE
  <2>1. PICK cells : cells = walk.cells
    OBVIOUS
  <2>2. nodes' = Store(chain, cells, bs) /\ crashed' = FALSE
    BY <1>3, <1>7, <2>1 DEF Walked
  <2> QED BY <1>1, <1>5, <2>2, StoreBytes
<1>9. m_cur' = CurAt(p + l, L)
  <2>1. CASE bs = <<>>
    <3>1. l = 0
      BY <1>1, <2>1
    <3>2. p + l = p /\ p # Start(L)
      BY <1>6, <3>1
    <3> QED BY <1>3, <1>5, <2>1, <3>2 DEF CurAt
  <2>2. CASE bs # <<>>
    <3>1. p + l \in Nat /\ p + l <= Start(L) /\ Len(chain) = L
      BY <1>1, <1>4, <1>6
    <3>2. Seek(chain, p + l) = CurAt(p + l, L)
      BY <1>5, <3>1, SeekEnds
    <3> QED BY <1>3, <2>2, <3>2
  <2> QED BY <2>1, <2>2
<1>10. out' \in Seq(Byte) /\ little' \in BOOLEAN
  BY <1>3, Bool
<1>11. /\ m_size' \in Nat /\ m_position' \in Nat /\ m_position' <= m_size' /\ m_size' <= Start(L)
       /\ m_capacity' = Start(L) /\ m_cur' = CurAt(m_position', L)
  <2>1. m_capacity' = Start(L)
    BY <1>3 DEF Start
  <2> QED BY <1>3, <1>4, <1>5, <1>6, <1>9, <2>1
<1> QED BY <1>5, <1>8, <1>10, <1>11, PartsNext

\* SocketStream::write of nothing
LEMMA SendNothingKeeps ==
    ASSUME IInv, NEW n \in Nat, NEW k \in Nat, Send(n, k), n = 0 \/ ReadSize = 0
    PROVE  IInv'
<1>1. ReadSize \in Nat /\ m_position \in Nat
  BY State
<1>2. ReadBuffers(n) = NoBuffers
  BY <1>1 DEF ReadBuffers
<1>3. k = 0
  BY <1>2 DEF Send, NoBuffers
<1>4. /\ crashed' = FALSE /\ out' = SubSeq(Fetch(<<>>), 1, 0)
      /\ m_position' = m_position + 0 /\ m_cur' = m_cur
      /\ nodes' = nodes /\ m_size' = m_size /\ m_capacity' = m_capacity /\ little' = little
  BY <1>2, <1>3 DEF Send, NoBuffers
<1>5. out' \in Seq(Byte)
  <2>1. Fetch(<<>>) = <<>>
    BY DEF Fetch
  <2> QED BY <1>4, <2>1
<1>6. little' \in BOOLEAN
  BY <1>4, Bool
<1>7. m_position' = m_position
  BY <1>1, <1>4
<1>8. PICK L : /\ L = Len(nodes)
               /\ nodes \in Chain /\ L \in Nat \ {0} /\ m_size \in Nat /\ m_size <= Start(L)
               /\ m_capacity = Start(L) /\ m_cur = CurAt(m_position, L) /\ m_position <= m_size
  BY State
<1> QED BY <1>1, <1>4, <1>5, <1>6, <1>7, <1>8, PartsNext

\* SocketStream::write
LEMMA SendKeeps ==
    ASSUME IInv, NEW n \in Nat \ {0}, NEW k \in Nat, Send(n, k), ReadSize # 0
    PROVE  IInv'
<1>1. PICK m, L, p, chain : /\ m = IF n > ReadSize THEN ReadSize ELSE n
                            /\ L = Len(nodes) /\ p = m_position /\ chain = nodes
  OBVIOUS
<1>2. PICK walk : walk = Here(m)
  OBVIOUS
<1>3. /\ k <= Len(walk.cells) /\ crashed' = walk.wild
      /\ out' = SubSeq(Fetch(walk.cells), 1, k)
      /\ m_position' = p + k
      /\ m_cur' = IF k = 0 THEN m_cur ELSE Seek(chain, p + k)
      /\ nodes' = nodes /\ m_size' = m_size /\ m_capacity' = m_capacity /\ little' = little
  <2>1. m # 0
    BY <1>1
  <2>2. ReadBuffers(n) = walk
    BY <1>1, <1>2, <2>1 DEF ReadBuffers
  <2> QED BY <1>1, <2>2 DEF Send
<1>4. /\ nodes \in Chain /\ L \in Nat \ {0} /\ p \in Nat /\ m_size \in Nat /\ m_size <= Start(L)
      /\ m_capacity = Start(L) /\ m_cur = CurAt(p, L) /\ Start(L) \in Nat /\ Len(chain) = L
      /\ ReadSize \in Nat /\ p + ReadSize = m_size
  BY <1>1, State
<1>5. m \in Nat /\ m <= ReadSize
  BY <1>1, <1>4
<1>6. p + m <= m_size /\ p < m_capacity
  BY <1>3, <1>4, <1>5
<1>7. PICK f : f = Fetch(walk.cells)
  OBVIOUS
<1>8. walk.wild = FALSE /\ Len(walk.cells) = m /\ f \in Seq(Byte) /\ Len(f) = m
  BY <1>1, <1>2, <1>5, <1>6, <1>7, HereEnds
<1>9. k <= m /\ p + k \in Nat /\ p + k <= m_size
  BY <1>3, <1>4, <1>5, <1>6, <1>8
<1>10. out' \in Seq(Byte)
  <2>1. out' = [i \in 1..k |-> f[i]]
    BY <1>3, <1>5, <1>7, <1>8, <1>9
  <2>2. \A i \in 1..k : f[i] \in Byte
    BY <1>5, <1>8, <1>9
  <2>3. out' \in [1..k -> Byte]
    BY <2>1, <2>2
  <2> QED BY <2>3 DEF Seq
<1>11. m_cur' = CurAt(p + k, L)
  <2>1. CASE k = 0
    <3>1. p + k = p
      BY <1>4, <2>1
    <3> QED BY <1>3, <1>4, <2>1, <3>1
  <2>2. CASE k # 0
    <3>1. p + k <= Start(L)
      BY <1>4, <1>9
    <3>2. Seek(chain, p + k) = CurAt(p + k, L)
      BY <1>4, <1>9, <3>1, SeekEnds
    <3> QED BY <1>3, <2>2, <3>2
  <2> QED BY <2>1, <2>2
<1>12. little' \in BOOLEAN /\ crashed' = FALSE
  BY <1>3, <1>8, Bool
<1>13. /\ m_size' \in Nat /\ m_position' \in Nat /\ m_position' <= m_size' /\ m_size' <= Start(L)
       /\ nodes' \in Chain /\ Len(nodes') = L /\ m_capacity' = Start(L) /\ m_cur' = CurAt(m_position', L)
  BY <1>1, <1>3, <1>4, <1>9, <1>11
<1> QED BY <1>4, <1>10, <1>12, <1>13, PartsNext

\* toString
LEMMA BytesAheadKeeps ==
    ASSUME IInv, BytesAhead
    PROVE  IInv'
<1>1. PICK n : n = ReadSize
  OBVIOUS
<1>2. /\ n \in Nat /\ m_position + n <= m_size /\ (n > 0 => m_position < m_capacity)
  BY <1>1, State
<1>3. PICK walk : walk = Here(n)
  OBVIOUS
<1>4. PICK w : w = walk.wild
  OBVIOUS
<1>5. PICK f : f = Fetch(walk.cells)
  OBVIOUS
<1>6. /\ crashed' = (n > 0 /\ w) /\ out' = IF n = 0 \/ w THEN <<>> ELSE f
      /\ UNCHANGED bufVars /\ little' = little
  BY <1>1, <1>3, <1>4, <1>5 DEF BytesAhead
<1>7. f \in Seq(Byte) /\ (n > 0 => w = FALSE)
  BY <1>2, <1>3, <1>4, <1>5, HereEnds
<1>8. CASE n = 0
  <2>1. (n > 0) = FALSE
    BY <1>8
  <2>2. crashed' = FALSE /\ out' = <<>>
    <3>1. crashed' = (FALSE /\ w)
      BY <1>6, <2>1, Zenon
    <3>2. out' = <<>>
      BY <1>6, <1>8, Zenon
    <3> QED BY <3>1, <3>2, Zenon
  <2>3. out' \in Seq(Byte)
    BY <2>2
  <2> QED BY <1>6, <2>2, <2>3, Bool, ArrayStays
<1>9. CASE n > 0
  <2>1. (n > 0) = TRUE /\ (n = 0) = FALSE /\ w = FALSE
    BY <1>2, <1>7, <1>9
  <2>2. crashed' = FALSE /\ out' = f
    BY <1>6, <2>1, Zenon
  <2> QED BY <1>6, <1>7, <2>2, Bool, ArrayStays
<1> QED BY <1>2, <1>8, <1>9

\* writeToFile, at the start of a node.
LEMMA WriteToFileKeeps ==
    ASSUME ~UnalignedFiles, IInv, WriteToFile
    PROVE  IInv'
<1>1. PICK walk : walk = FileWalk
  OBVIOUS
<1>2. /\ m_position % BaseSize = 0 /\ crashed' = walk.wild
      /\ out' = IF walk.wild THEN <<>> ELSE Fetch(walk.cells)
      /\ UNCHANGED bufVars /\ little' = little
  BY <1>1 DEF WriteToFile
<1>3. walk.wild = FALSE /\ walk.cells \in Seq(Cell(Len(nodes)))
  BY <1>1, <1>2, FileEnds
<1>4. PICK cells : cells = walk.cells
  OBVIOUS
<1>5. Fetch(cells) \in Seq(Byte)
  BY <1>3, <1>4, State, FetchBytes
<1>6. out' \in Seq(Byte) /\ crashed' = FALSE /\ little' \in BOOLEAN
  BY <1>2, <1>3, <1>4, <1>5, Bool
<1> QED BY <1>2, <1>6, ArrayStays

LEMMA NextIInv ==
    ASSUME ~EmptyReads, ~UnalignedFiles, IInv, [Next]_vars
    PROVE  IInv'
<1>1. ASSUME NEW bs \in Buffers, Write(bs) PROVE IInv'
  <2>1. bs \in Seq(Byte)
    BY ByteArrayAssumption
  <2>2. Put(bs) /\ little' = little /\ out' = <<>>
    BY <1>1 DEF Write
  <2> QED BY <2>1, <2>2, PutKeeps
<1>2. ASSUME NEW bs \in Buffers, NEW n \in Len(bs)..(Len(bs) + BaseSize), Receive(bs, n) PROVE IInv'
  <2>1. bs \in Seq(Byte)
    BY ByteArrayAssumption
  <2>2. n \in Nat
    <3>1. Len(bs) \in Nat /\ BaseSize \in Nat
      BY <2>1, Constants
    <3> QED BY <1>2, <3>1
  <2> QED BY <1>2, <2>1, <2>2, ReceiveKeeps, ReceiveNothingKeeps
<1>3. ASSUME NEW i \in Items, WriteItem(i[1], i[2]) PROVE IInv'
  <2>1. PICK bs : bs = Encode(i[1], i[2])
    OBVIOUS
  <2>2. bs \in Seq(Byte)
    BY <2>1, EncodeBytes
  <2>3. Put(bs) /\ little' = little /\ out' = <<>>
    BY <1>3, <2>1 DEF WriteItem
  <2> QED BY <2>2, <2>3, PutKeeps
<1>4. ASSUME NEW n \in 0..(m_size + 1), Read(n) PROVE IInv'
  <2>1. n \in Nat
    BY State
  <2>2. PICK s : s = <<n>>
    OBVIOUS
  <2>3. Reading(s)
    BY <2>1, <2>2, OneReading
  <2>4. Consume(s)
    BY <1>4, <2>2 DEF Read
  <2> QED BY <2>3, <2>4, ConsumeKeeps
<1>5. ASSUME NEW t \in Type, ReadItem(t) PROVE IInv'
  <2>1. PICK s : s = Reads(t)
    OBVIOUS
  <2>2. Reading(s)
    BY <2>1, TypedReading
  <2>3. Consume(s)
    BY <1>5, <2>1 DEF ReadItem
  <2> QED BY <2>2, <2>3, ConsumeKeeps
<1>6. ASSUME NEW v \in 0..m_capacity, SetPosition(v) PROVE IInv'
  <2>1. v \in Nat
    BY State
  <2> QED BY <1>6, <2>1, SetPositionKeeps
<1>7. ASSUME NEW n \in 0..(BaseSize + 1), NEW k \in 0..n, Send(n, k) PROVE IInv'
  <2>1. n \in Nat /\ k \in Nat
    BY Constants
  <2> QED BY <1>7, <2>1, SendKeeps, SendNothingKeeps
<1>8. CASE SetIsLittleEndian
  <2>1. UNCHANGED bufVars /\ little' \in BOOLEAN /\ crashed' = FALSE /\ out' = <<>>
    BY <1>8, Bool DEF SetIsLittleEndian
  <2>2. out' \in Seq(Byte)
    BY <2>1
  <2> QED BY <2>1, <2>2, ArrayStays
<1>9. CASE UNCHANGED vars
  <2>1. UNCHANGED bufVars /\ little' \in BOOLEAN /\ crashed' = FALSE /\ out' \in Seq(Byte)
    BY <1>9, Bool DEF vars
  <2> QED BY <2>1, ArrayStays
<1> QED
  BY <1>1, <1>2, <1>3, <1>4, <1>5, <1>6, <1>7, <1>8, <1>9,
     ClearKeeps, BytesAheadKeeps, WriteToFileKeeps DEF Next

\* Chain, cursor and sizes agree after every call, and no call dereferences
\* nullptr or walks off the chain: for every node size, width of bytes and words,
\* buffers and items, and any number of calls, as long as no empty string is read
\* where the chain ends and writeToFile is called at the start of a node only.
THEOREM ArrayInvHolds == ASSUME ~EmptyReads, ~UnalignedFiles PROVE Spec => []ArrayInv
<1>1. IInv /\ [Next]_vars => IInv'
  BY NextIInv
<1>2. IInv => ArrayInv
  BY DEF IInv
<1> QED BY <1>1, <1>2, InitIInv, PTL DEF Spec
=============================================================================
