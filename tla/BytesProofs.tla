-------------------------------- MODULE BytesProofs ---------------------------------
(***************************************************************************)
(* From the cells of a node to a conversation: what the operators of       *)
(* ByteArray give for nodes of every size; that the array is for its users *)
(* a file of bytes with a position, from which every number, string and    *)
(* file comes back as it was written; that every frame, compressed or not, *)
(* gives the message it was made of; and that the two sides of             *)
(* RockExchange stay in step with each other, whatever the pieces are in   *)
(* which the bytes come, and whoever leaves.                               *)
(***************************************************************************)
EXTENDS ByteBuffer, RockExchange, WellFoundedInduction, SequenceTheorems, TLAPS

-----------------------------------------------------------------------------
(* Numbers, and induction in the form that the provers can use: on sets.   *)

LEMMA Least ==
    ASSUME NEW T, T \subseteq Nat, T # {}
    PROVE  \E m \in T : \A n \in T : m <= n
  <1>1. \E m \in T : \A n \in T : ~ (<<n, m>> \in OpToRel(<, Nat))
    BY NatLessThanWellFounded, WFMin, Zenon
  <1>2. PICK m \in T : \A n \in T : ~ (<<n, m>> \in OpToRel(<, Nat))
    BY <1>1
  <1>3. ASSUME NEW n \in T PROVE m <= n
    <2>1. m \in Nat /\ n \in Nat
      OBVIOUS
    <2>2. n < m => <<n, m>> \in OpToRel(<, Nat)
      BY <2>1 DEF OpToRel
    <2>3. <<n, m>> \notin OpToRel(<, Nat)
      BY <1>2
    <2>4. ~(n < m)
      BY <2>2, <2>3, Zenon
    <2> QED
      BY <2>1, <2>4
  <1> QED
    BY <1>3

(* What holds of 0, and of i + 1 if of i, up to n, holds up to n.          *)
LEMMA UpTo ==
    ASSUME NEW n \in Nat, NEW T, 0 \in T, \A i \in 0..(n - 1) : i \in T => i + 1 \in T
    PROVE  \A i \in 0..n : i \in T
  <1> DEFINE U == {i \in 0..n : i \notin T}
  <1> SUFFICES ASSUME U # {} PROVE FALSE
    OBVIOUS
  <1>0. U \subseteq Nat
    OBVIOUS
  <1>1. PICK m \in U : \A i \in U : m <= i
    <2> HIDE DEF U
    <2> QED
      BY <1>0, Least
  <1>2. m \in 0..n /\ m # 0 /\ m - 1 \in 0..(n - 1) /\ m - 1 \notin U
    BY <1>1
  <1> QED
    BY <1>1, <1>2

LEMMA DivMod ==
    ASSUME NEW x \in Nat, NEW b \in Nat \ {0}
    PROVE  x = b * (x \div b) + (x % b) /\ x % b \in 0..(b - 1) /\ x \div b \in Nat
  OBVIOUS

LEMMA Division ==
    ASSUME NEW x \in Nat
    PROVE  /\ x = (x \div Base) * Base + (x % Base)
           /\ x % Base \in 0..(Base - 1) /\ x \div Base \in Nat
  <1>1. /\ x = Base * (x \div Base) + (x % Base)
        /\ x % Base \in 0..(Base - 1) /\ x \div Base \in Nat
    BY DivMod, BaseAssumption
  <1>2. Base * (x \div Base) = (x \div Base) * Base
    BY <1>1, BaseAssumption
  <1> QED
    BY <1>1, <1>2

LEMMA DivisionSum ==
    ASSUME NEW x \in Nat, NEW n \in Nat
    PROVE  (x + n) \div Base = (x \div Base) + ((x % Base) + n) \div Base
  BY BaseAssumption

(* Of a and b, multiples of Base. *)
LEMMA Multiples ==
    ASSUME NEW a \in Nat, NEW k \in Nat, a = k * Base
    PROVE  a % Base = 0 /\ a \div Base = k
  BY BaseAssumption

LEMMA MonotoneProduct ==
    ASSUME NEW p \in Nat, NEW q \in Nat
    PROVE  (p < q <=> p * Base < q * Base) /\ (p <= q <=> p * Base <= q * Base)
  BY BaseAssumption

-----------------------------------------------------------------------------
(* Arrays as the operations leave them.                                    *)

ArrayType ==
    [position : Nat, capacity : Nat, size : Nat, cur : Nat, little : BOOLEAN, data : Seq(Cell)]

(* The node of position p of an array of c bytes, and where it has one.    *)
NodeOf(p, c) == IF p = c THEN Null ELSE (p \div Base) + 1

Whole == {k * Base : k \in Nat \ {0}}

Sound(b) ==
    /\ b \in ArrayType
    /\ b.position <= b.size /\ b.size <= b.capacity
    /\ Len(b.data) = b.capacity /\ b.capacity \in Whole
    /\ b.cur = NodeOf(b.position, b.capacity)

LEMMA HereIsPosition ==
    ASSUME NEW b, Sound(b), b.position < b.capacity
    PROVE  Here(b) = b.position /\ b.cur # Null /\ b.cur = (b.position \div Base) + 1
  <1>1. b.position \in Nat /\ b.capacity \in Nat /\ b.cur = (b.position \div Base) + 1
    BY DEF Sound, ArrayType, NodeOf
  <1>2. b.position \div Base \in Nat /\ b.position % Base \in 0..(Base - 1)
        /\ b.position = (b.position \div Base) * Base + (b.position % Base)
    BY <1>1, Division
  <1>3. b.cur - 1 = b.position \div Base
    BY <1>1, <1>2
  <1> QED
    BY <1>1, <1>2, <1>3 DEF Here, Null

LEMMA NodeAfterIs ==
    ASSUME NEW b, Sound(b), b.position < b.capacity,
           NEW n \in Nat, b.position + n <= b.capacity
    PROVE  NodeAfter(b, n) = NodeOf(b.position + n, b.capacity)
  <1>1. b.position \in Nat /\ b.cur = (b.position \div Base) + 1
    BY HereIsPosition DEF Sound, ArrayType
  <1>2. PICK k \in Nat \ {0} : b.capacity = k * Base
    BY DEF Sound, Whole
  <1>3. Nodes(b) = k
    BY <1>2, Multiples DEF Nodes, Sound, ArrayType
  <1> DEFINE p == b.position + n
             q == p \div Base
  <1>4. p \in Nat /\ q \in Nat /\ p = q * Base + (p % Base) /\ p % Base \in 0..(Base - 1)
    BY <1>1, Division
  <1>5. b.cur + ((b.position % Base) + n) \div Base = q + 1
    <2>1. q = (b.position \div Base) + ((b.position % Base) + n) \div Base
      BY <1>1, DivisionSum
    <2>2. b.position \div Base \in Nat /\ b.position % Base \in Nat
      BY <1>1, Division
    <2>3. (b.position % Base) + n \in Nat
      BY <2>2
    <2>4. ((b.position % Base) + n) \div Base \in Nat
      BY <2>3, Division
    <2> QED
      BY <1>1, <2>1, <2>2, <2>4
  <1>6. q + 1 > k <=> p = b.capacity
    <2> HIDE DEF q, p
    <2>1. k <= q => k * Base <= q * Base
      BY <1>2, <1>4, MonotoneProduct
    <2>2. q < k => q + 1 <= k
      BY <1>2, <1>4
    <2>3. q + 1 <= k => (q + 1) * Base <= k * Base
      BY <1>2, <1>4, MonotoneProduct
    <2>4. (q + 1) * Base = q * Base + Base /\ q * Base \in Nat /\ k * Base \in Nat
      BY <1>2, <1>4, BaseAssumption
    <2>5. p <= k * Base
      BY <1>2 DEF p
    <2> QED
      BY <1>2, <1>4, <2>1, <2>2, <2>3, <2>4, <2>5, BaseAssumption
  <1>7. NodeOf(p, b.capacity) = IF p = b.capacity THEN Null ELSE q + 1
    BY DEF NodeOf
  <1> HIDE DEF p, q
  <1>8. NodeAfter(b, n) = IF q + 1 > k THEN Null ELSE q + 1
    BY <1>3, <1>5 DEF NodeAfter
  <1>9. NodeAfter(b, n) = NodeOf(p, b.capacity)
    BY <1>6, <1>7, <1>8
  <1> QED
    BY <1>9 DEF p

LEMMA NewNodesType ==
    ASSUME NEW k \in Nat
    PROVE  NewNodes(k) \in Seq(Cell) /\ Len(NewNodes(k)) = k * Base
  BY BaseAssumption, RadixAssumption DEF Junk, Cell, NewNodes

LEMMA BaseWhole == Base \in Whole
  <1>1. Base = 1 * Base /\ 1 \in Nat \ {0}
    BY BaseAssumption
  <1> QED
    BY <1>1 DEF Whole

(* addCapacity() makes room and changes no byte. *)
LEMMA AddCapacity ==
    ASSUME NEW b, Sound(b), NEW n \in Nat
    PROVE  LET a == addCapacity(b, n) IN
           /\ Sound(a)
           /\ a.position = b.position /\ a.size = b.size /\ a.little = b.little
           /\ a.position + n <= a.capacity
           /\ \A i \in 1..b.capacity : a.data[i] = b.data[i]
           /\ b.capacity <= a.capacity
           /\ a.capacity = b.capacity \/ a.capacity < b.position + n + Base
  <1> DEFINE a == addCapacity(b, n)
             room == getCapacity(b)
             count == (n - room + Base - 1) \div Base
  <1>0. /\ b \in ArrayType /\ room \in Nat /\ b.capacity = b.position + room
        /\ b.position \in Nat /\ b.capacity \in Nat /\ b.size \in Nat /\ b.cur \in Nat
        /\ b.data \in Seq(Cell) /\ Len(b.data) = b.capacity
    BY DEF Sound, ArrayType, getCapacity
  <1>1. CASE n = 0 \/ room >= n
    <2>1. a = b
      BY <1>1 DEF addCapacity
    <2>2. b.position + n <= b.capacity
      BY <1>0, <1>1 DEF Sound
    <2> QED
      BY <1>0, <2>1, <2>2
  <1>2. CASE ~(n = 0 \/ room >= n)
    <2>1. n - room + Base - 1 \in Nat /\ n - room \in Nat \ {0}
      BY <1>0, <1>2, BaseAssumption
    <2>2. count \in Nat /\ count * Base >= n - room /\ count * Base \in Nat /\ count > 0
          /\ count * Base < n - room + Base
      <3> DEFINE m == n - room + Base - 1
      <3>1. m \in Nat /\ m = n - room + Base - 1
        BY <2>1
      <3>2. m = (m \div Base) * Base + (m % Base) /\ m % Base \in 0..(Base - 1) /\ m \div Base \in Nat
        BY <2>1, Division
      <3>3. (m \div Base) * Base \in Nat
        BY <3>2, BaseAssumption
      <3>4. (m \div Base) * Base >= n - room
        BY <3>1, <3>2, <3>3, <2>1, BaseAssumption
      <3>5. m \div Base > 0
        <4> DEFINE q == m \div Base
        <4>1. q \in Nat /\ q * Base > 0
          <5> DEFINE r == n - room
          <5>1. r \in Nat \ {0} /\ q * Base >= r /\ q * Base \in Nat /\ q \in Nat
            BY <3>2, <3>3, <3>4, <2>1
          <5> HIDE DEF q, r
          <5> QED
            BY <5>1
        <4> HIDE DEF q
        <4>2. q # 0
          BY <4>1, BaseAssumption
        <4> QED
          BY <4>1, <4>2 DEF q
      <3>6. (m \div Base) * Base < n - room + Base
        BY <3>1, <3>2, <3>3, <2>1, BaseAssumption
      <3> QED
        BY <3>2, <3>3, <3>4, <3>5, <3>6
    <2> HIDE DEF count
    <2>3. a = [b EXCEPT !.data = @ \o NewNodes(count), !.capacity = @ + count * Base,
                        !.cur = IF room = 0 THEN Nodes(b) + 1 ELSE @]
      BY <1>2 DEF addCapacity, count
    <2>4. PICK k \in Nat \ {0} : b.capacity = k * Base
      BY DEF Sound, Whole
    <2>5. Nodes(b) = k
      BY <2>4, <1>0, Multiples DEF Nodes
    <2>6. NewNodes(count) \in Seq(Cell) /\ Len(NewNodes(count)) = count * Base
      BY <2>2, NewNodesType
    <2>7. /\ b.data \o NewNodes(count) \in Seq(Cell)
          /\ Len(b.data \o NewNodes(count)) = b.capacity + count * Base
          /\ \A i \in 1..b.capacity : (b.data \o NewNodes(count))[i] = b.data[i]
      <3> HIDE DEF room
      <3>1. \A i \in 1..(Len(b.data) + Len(NewNodes(count))) :
              (b.data \o NewNodes(count))[i] =
                IF i <= Len(b.data) THEN b.data[i] ELSE NewNodes(count)[i - Len(b.data)]
        BY <1>0, <2>6, ConcatProperties
      <3>2. /\ b.data \o NewNodes(count) \in Seq(Cell)
            /\ Len(b.data \o NewNodes(count)) = Len(b.data) + Len(NewNodes(count))
        BY <1>0, <2>6, ConcatProperties
      <3> QED
        BY <1>0, <2>2, <2>6, <3>1, <3>2
    <2>8. /\ a.position = b.position /\ a.size = b.size /\ a.little = b.little
          /\ a.capacity = b.capacity + count * Base
          /\ a.data = b.data \o NewNodes(count)
          /\ a.cur = IF room = 0 THEN k + 1 ELSE b.cur
      BY <2>3, <2>5, <1>0 DEF ArrayType
    <2>9. a \in ArrayType
      <3>1. a.capacity \in Nat /\ a.cur \in Nat /\ a.data \in Seq(Cell)
        <4>1. count * Base \in Nat /\ k + 1 \in Nat
          BY <2>2, <2>4, BaseAssumption
        <4>2. a.capacity \in Nat
          BY <1>0, <2>8, <4>1
        <4>3. a.cur \in Nat
          BY <1>0, <2>8, <4>1
        <4> QED
          BY <2>7, <2>8, <4>2, <4>3
      <3>2. [b EXCEPT !.data = b.data \o NewNodes(count), !.capacity = b.capacity + count * Base,
                        !.cur = IF room = 0 THEN Nodes(b) + 1 ELSE b.cur] \in ArrayType
        BY <3>1, <1>0, <2>3, <2>8 DEF ArrayType
      <3> QED
        BY <3>2, <2>3
    <2>10. a.capacity = (k + count) * Base /\ k + count \in Nat \ {0}
      <3>1. count \in Nat /\ Base \in Nat
        BY <2>2, BaseAssumption
      <3>2. a.capacity = k * Base + count * Base
        BY <2>4, <2>8
      <3> HIDE DEF a, room
      <3>3. (k + count) * Base = k * Base + count * Base
        BY <3>1
      <3>4. k + count \in Nat \ {0}
        BY <3>1
      <3> QED
        BY <3>2, <3>3, <3>4
    <2>11. a.cur = NodeOf(a.position, a.capacity)
      <3>1. a.position < a.capacity
        BY <1>0, <1>2, <2>2, <2>8
      <3>2. CASE room = 0
        BY <1>0, <2>4, <3>2, Multiples, <2>8, <3>1 DEF NodeOf
      <3>3. CASE room # 0
        BY <1>0, <2>8, <3>1, <3>3 DEF NodeOf, Sound
      <3> QED
        BY <3>2, <3>3
    <2>12. a.capacity \in Whole /\ Len(a.data) = a.capacity
      <3>1. Len(a.data) = a.capacity
        BY <2>7, <2>8
      <3> DEFINE m == k + count
      <3>2. a.capacity = m * Base /\ m \in Nat \ {0}
        BY <2>10
      <3> HIDE DEF m, a, room
      <3>3. a.capacity \in Whole
        BY <3>2 DEF Whole
      <3> QED
        BY <3>1, <3>3
    <2>13. Sound(a)
      <3> HIDE DEF a, room
      <3>1. count \in Nat /\ count * Base \in Nat /\ b.size \in Nat /\ b.capacity \in Nat
        BY <2>2, <1>0
      <3>2. b.position <= b.size /\ b.size <= b.capacity
        BY <1>0 DEF Sound
      <3> DEFINE m == count * Base
      <3>3. a.capacity = b.capacity + m /\ m \in Nat
        BY <2>8, <3>1
      <3> HIDE DEF m
      <3>4. a.position <= a.size /\ a.size <= a.capacity
        BY <2>8, <3>1, <3>2, <3>3
      <3> QED
        BY <3>4, <2>9, <2>11, <2>12 DEF Sound
    <2>14. a.position + n <= a.capacity /\ b.capacity <= a.capacity
           /\ a.capacity < b.position + n + Base
      <3> DEFINE x == count * Base
      <3>1. x \in Nat /\ x >= n - room /\ x < n - room + Base
        BY <2>2
      <3>2. a.capacity = b.capacity + x /\ a.position = b.position
        BY <2>8
      <3> HIDE DEF room, x, a
      <3> QED
        BY <1>0, <3>1, <3>2, BaseAssumption
    <2>15. \A i \in 1..b.capacity : a.data[i] = b.data[i]
      BY <2>7, <2>8
    <2> QED
      BY <2>8, <2>13, <2>14, <2>15
  <1> QED
    BY <1>1, <1>2

LEMMA OverlayIs ==
    ASSUME NEW data \in Seq(Cell), NEW at \in Nat, NEW s \in Seq(Cell)
    PROVE  /\ Overlay(data, at, s) \in Seq(Cell)
           /\ Len(Overlay(data, at, s)) = Len(data)
           /\ \A i \in 1..Len(data) : Overlay(data, at, s)[i] =
                 IF i > at /\ i <= at + Len(s) THEN s[i - at] ELSE data[i]
  <1>1. Len(data) \in Nat /\ Len(s) \in Nat
    BY LenProperties
  <1>2. \A i \in 1..Len(data) :
          (IF i > at /\ i <= at + Len(s) THEN s[i - at] ELSE data[i]) \in Cell
    <2> SUFFICES ASSUME NEW i \in 1..Len(data)
                 PROVE  (IF i > at /\ i <= at + Len(s) THEN s[i - at] ELSE data[i]) \in Cell
      OBVIOUS
    <2>1. CASE i > at /\ i <= at + Len(s)
      BY <1>1, <2>1, ElementOfSeq
    <2>2. CASE ~(i > at /\ i <= at + Len(s))
      BY <2>2, ElementOfSeq
    <2> QED
      BY <2>1, <2>2
  <1> DEFINE o == [i \in 1..Len(data) |-> IF i > at /\ i <= at + Len(s) THEN s[i - at] ELSE data[i]]
  <1>3. o \in [1..Len(data) -> Cell]
    BY <1>2
  <1>4. o \in Seq(Cell) /\ Len(o) = Len(data)
    <2> HIDE DEF o
    <2> QED
      BY <1>1, <1>3
  <1> QED
    BY <1>4 DEF Overlay

(* What the user sees of an array. *)
Bytes(b) == SubSeq(b.data, 1, b.size)

LEMMA BytesAre ==
    ASSUME NEW b, Sound(b)
    PROVE  /\ Bytes(b) \in Seq(Cell) /\ Len(Bytes(b)) = b.size
           /\ \A i \in 1..b.size : Bytes(b)[i] = b.data[i]
  BY ElementOfSeq, LenProperties, SubSeqProperties DEF Sound, ArrayType, Bytes

(* write() puts the bytes at the position and changes no other. *)
LEMMA WriteIs ==
    ASSUME NEW b, Sound(b), NEW s \in Seq(Cell)
    PROVE  LET w == write(b, s) IN
           /\ Sound(w) /\ w.little = b.little
           /\ w.position = b.position + Len(s)
           /\ w.size = IF b.position + Len(s) > b.size THEN b.position + Len(s) ELSE b.size
           /\ \A i \in 1..w.size : w.data[i] =
                 IF i > b.position /\ i <= b.position + Len(s) THEN s[i - b.position]
                                                               ELSE b.data[i]
           /\ b.capacity <= w.capacity
           /\ w.capacity = b.capacity \/ w.capacity < w.position + Base
  <1>0. /\ b.position \in Nat /\ b.size \in Nat /\ Len(s) \in Nat /\ b.capacity \in Nat
        /\ b.position <= b.size /\ b.size <= b.capacity
    BY LenProperties DEF Sound, ArrayType
  <1>1. CASE s = <<>>
    BY <1>1, <1>0 DEF write
  <1>2. CASE s # <<>>
    <2> DEFINE n == Len(s)
               a == addCapacity(b, n)
               p == a.position + n
               w == [a EXCEPT !.data = Overlay(@, Here(a), s),
                              !.cur = NodeAfter(a, n), !.position = p,
                              !.size = IF p > @ THEN p ELSE @]
    <2>1. write(b, s) = w
      BY <1>2 DEF write
    <2>2. n \in Nat \ {0}
      BY <1>0, <1>2, EmptySeq
    <2>3. /\ Sound(a) /\ a.position = b.position /\ a.size = b.size /\ a.little = b.little
          /\ a.position + n <= a.capacity /\ b.capacity <= a.capacity
          /\ \A i \in 1..b.capacity : a.data[i] = b.data[i]
          /\ a.capacity = b.capacity \/ a.capacity < b.position + n + Base
      BY <2>2, AddCapacity
    <2> HIDE DEF a
    <2>4. /\ a \in ArrayType /\ a.data \in Seq(Cell) /\ Len(a.data) = a.capacity
          /\ a.capacity \in Whole /\ a.capacity \in Nat /\ a.size <= a.capacity
      BY <2>3 DEF Sound, ArrayType
    <2>5. Here(a) = b.position
      BY <1>0, <2>2, <2>3, <2>4, HereIsPosition
    <2>6. NodeAfter(a, n) = NodeOf(p, a.capacity)
      <3>1. a.position < a.capacity /\ n \in Nat
        BY <1>0, <2>2, <2>3, <2>4
      <3> HIDE DEF n
      <3> QED
        BY <2>3, <3>1, NodeAfterIs
    <2> DEFINE d == Overlay(a.data, b.position, s)
    <2>7. /\ d \in Seq(Cell) /\ Len(d) = Len(a.data)
          /\ \A i \in 1..Len(a.data) : d[i] =
                IF i > b.position /\ i <= b.position + n THEN s[i - b.position] ELSE a.data[i]
      BY <1>0, <2>4, OverlayIs
    <2> HIDE DEF d
    <2>8. NodeOf(p, a.capacity) \in Nat /\ p \in Nat
      <3>1. p \in Nat
        BY <1>0, <2>2, <2>3
      <3>2. p \div Base \in Nat
        BY <3>1, Division
      <3> HIDE DEF p
      <3> QED
        BY <3>1, <3>2 DEF NodeOf, Null
    <2>9. w = [a EXCEPT !.data = d, !.cur = NodeOf(p, a.capacity), !.position = p,
                        !.size = IF p > a.size THEN p ELSE a.size]
      BY <2>4, <2>5, <2>6 DEF d
    <2> HIDE DEF w
    <2>10. /\ w \in ArrayType
           /\ w.data = d /\ w.cur = NodeOf(p, a.capacity) /\ w.position = p
           /\ w.size = (IF p > a.size THEN p ELSE a.size)
           /\ w.capacity = a.capacity /\ w.little = a.little
      BY <2>4, <2>7, <2>8, <2>9 DEF ArrayType
    <2>11. Sound(w)
      BY <1>0, <2>2, <2>3, <2>4, <2>7, <2>8, <2>10 DEF Sound
    <2>12. \A i \in 1..w.size : w.data[i] =
              IF i > b.position /\ i <= b.position + n THEN s[i - b.position] ELSE b.data[i]
      <3> SUFFICES ASSUME NEW i \in 1..w.size
                   PROVE  w.data[i] = IF i > b.position /\ i <= b.position + n
                                      THEN s[i - b.position] ELSE b.data[i]
        OBVIOUS
      <3>1. w.size \in Nat /\ w.size <= a.capacity
        BY <1>0, <2>3, <2>4, <2>8, <2>10
      <3>2. i \in 1..Len(a.data)
        BY <2>4, <3>1
      <3>3. CASE i <= b.size
        BY <1>0, <2>3, <2>7, <2>10, <3>2, <3>3
      <3>4. CASE i > b.size
        BY <1>0, <2>3, <2>10, <3>4, <2>7, <3>2
      <3> QED
        BY <1>0, <3>3, <3>4
    <2>13. w.size = IF b.position + n > b.size THEN b.position + n ELSE b.size
      BY <2>3, <2>10
    <2> QED
      BY <1>0, <2>1, <2>3, <2>10, <2>11, <2>12, <2>13
  <1> QED
    BY <1>1, <1>2

(* An array with its position at v. *)
To(b, v) ==
    [b EXCEPT !.position = v, !.size = IF v > @ THEN v ELSE @, !.cur = NodeOf(v, b.capacity)]

LEMMA ToIs ==
    ASSUME NEW b, Sound(b), NEW v \in Nat, v <= b.capacity
    PROVE  /\ Sound(To(b, v)) /\ To(b, v).position = v /\ To(b, v).little = b.little
           /\ To(b, v).size = IF v > b.size THEN v ELSE b.size
           /\ To(b, v).data = b.data /\ To(b, v).capacity = b.capacity
  <1>1. /\ b \in ArrayType /\ b.capacity \in Nat /\ b.size \in Nat
        /\ b.size <= b.capacity /\ Len(b.data) = b.capacity /\ b.capacity \in Whole
    BY DEF Sound, ArrayType
  <1>2. NodeOf(v, b.capacity) \in Nat
    BY Division DEF NodeOf, Null
  <1> DEFINE t == [b EXCEPT !.position = v, !.size = IF v > b.size THEN v ELSE b.size,
                            !.cur = NodeOf(v, b.capacity)]
  <1>3. To(b, v) = t
    BY <1>1 DEF To, ArrayType
  <1>4. /\ t \in ArrayType /\ t.position = v /\ t.cur = NodeOf(v, b.capacity)
        /\ t.size = (IF v > b.size THEN v ELSE b.size)
        /\ t.data = b.data /\ t.capacity = b.capacity /\ t.little = b.little
    BY <1>1, <1>2 DEF ArrayType
  <1> HIDE DEF t
  <1>5. Sound(t)
    BY <1>1, <1>4 DEF Sound
  <1> QED
    BY <1>3, <1>4, <1>5

(* setPosition() is refused behind the last node. *)
LEMMA SetPositionIs ==
    ASSUME NEW b, Sound(b), NEW v \in Nat
    PROVE  /\ v > b.capacity => setPosition(b, v) = Throws(b)
           /\ v <= b.capacity => setPosition(b, v) = [how |-> "ok", out |-> <<>>, ba |-> To(b, v)]
  <1>1. v > b.capacity => setPosition(b, v) = Throws(b)
    BY DEF setPosition
  <1>2. ASSUME v <= b.capacity
        PROVE  setPosition(b, v) = [how |-> "ok", out |-> <<>>, ba |-> To(b, v)]
    BY <1>2 DEF Sound, ArrayType, NodeOf, setPosition, To
  <1> QED
    BY <1>1, <1>2

(* read() gives the bytes at the position and goes behind them, if there   *)
(* are as many and the position is in a node.                              *)
LEMMA ReadIs ==
    ASSUME NEW b, Sound(b), NEW n \in Nat
    PROVE  /\ n > b.size - b.position => read(b, n) = Throws(b)
           /\ n <= b.size - b.position /\ b.position = b.capacity =>
                 read(b, n) = Faults(b) /\ n = 0
           /\ n <= b.size - b.position /\ b.position < b.capacity =>
                 read(b, n) = [how |-> "ok", ba |-> To(b, b.position + n),
                               out |-> SubSeq(b.data, b.position + 1, b.position + n)]
  <1>1. /\ b \in ArrayType /\ b.position \in Nat /\ b.size \in Nat /\ b.capacity \in Nat
        /\ b.position <= b.size /\ b.size <= b.capacity
        /\ b.cur = NodeOf(b.position, b.capacity)
    BY DEF Sound, ArrayType
  <1>2. n > b.size - b.position => read(b, n) = Throws(b)
    BY DEF read, getReadSize
  <1>3. ASSUME n <= b.size - b.position, b.position = b.capacity
        PROVE  read(b, n) = Faults(b) /\ n = 0
    BY <1>1, <1>3 DEF NodeOf, read, getReadSize
  <1>4. ASSUME n <= b.size - b.position, b.position < b.capacity
        PROVE  read(b, n) = [how |-> "ok", ba |-> To(b, b.position + n),
                             out |-> SubSeq(b.data, b.position + 1, b.position + n)]
    <2>1. b.cur # Null /\ Here(b) = b.position
      BY <1>4, HereIsPosition
    <2>2. ~(n > b.size - b.position) /\ b.position + n <= b.size /\ b.position + n <= b.capacity
      BY <1>1, <1>4
    <2>3. NodeAfter(b, n) = NodeOf(b.position + n, b.capacity)
      BY <1>4, <2>2, NodeAfterIs
    <2>4. (IF n = 0 THEN b.cur ELSE NodeAfter(b, n)) = NodeOf(b.position + n, b.capacity)
      BY <1>1, <2>3
    <2>5. [b EXCEPT !.cur = IF n = 0 THEN @ ELSE NodeAfter(b, n), !.position = @ + n]
            = To(b, b.position + n)
      <3> DEFINE p == b.position + n
                 k == NodeOf(p, b.capacity)
      <3>1. ~(p > b.size) /\ p \in Nat
        BY <1>1, <2>2
      <3>2. k \in Nat
        BY <3>1, Division DEF NodeOf, Null
      <3>3. (IF n = 0 THEN b.cur ELSE NodeAfter(b, n)) = k
        BY <2>4
      <3> HIDE DEF k, p
      <3>4. [b EXCEPT !.position = p, !.size = IF p > @ THEN p ELSE @, !.cur = k]
              = [b EXCEPT !.cur = k, !.position = p]
        BY <1>1, <3>1, <3>2 DEF ArrayType
      <3>5. [b EXCEPT !.cur = IF n = 0 THEN @ ELSE NodeAfter(b, n), !.position = @ + n]
              = [b EXCEPT !.cur = k, !.position = p]
        BY <1>1, <3>3 DEF ArrayType, p
      <3> QED
        BY <3>4, <3>5 DEF To, k, p
    <2> QED
      BY <2>1, <2>2, <2>5 DEF read, getReadSize
  <1> QED
    BY <1>2, <1>3, <1>4

LEMMA SliceIs ==
    ASSUME NEW b, Sound(b), NEW p \in Nat, NEW n \in Nat, p + n <= b.size
    PROVE  /\ SubSeq(b.data, p + 1, p + n) = SubSeq(Bytes(b), p + 1, p + n)
           /\ SubSeq(b.data, p + 1, p + n) \in Seq(Cell)
           /\ Len(SubSeq(b.data, p + 1, p + n)) = n
           /\ \A i \in 1..n : SubSeq(b.data, p + 1, p + n)[i] = b.data[p + i]
  <1>1. b.size \in Nat /\ b.data \in Seq(Cell) /\ b.size <= Len(b.data)
    BY DEF Sound, ArrayType
  <1>2. \A i \in 1..b.size : b.data[i] \in Cell /\ Bytes(b)[i] = b.data[i]
    BY <1>1, ElementOfSeq, LenProperties, BytesAre
  <1>3. \A i \in (p + 1)..(p + n) : b.data[i] \in Cell /\ Bytes(b)[i] = b.data[i]
    BY <1>1, <1>2
  <1> DEFINE s == SubSeq(b.data, p + 1, p + n)
             t == SubSeq(Bytes(b), p + 1, p + n)
  <1>4. /\ s \in Seq(Cell) /\ Len(s) = (IF p + 1 <= p + n THEN (p + n) - (p + 1) + 1 ELSE 0)
        /\ \A i \in 1..((p + n) - (p + 1) + 1) : s[i] = b.data[p + 1 + i - 1]
    BY <1>3, SubSeqProperties
  <1>5. /\ t \in Seq(Cell) /\ Len(t) = (IF p + 1 <= p + n THEN (p + n) - (p + 1) + 1 ELSE 0)
        /\ \A i \in 1..((p + n) - (p + 1) + 1) : t[i] = Bytes(b)[p + 1 + i - 1]
    BY <1>3, SubSeqProperties
  <1> HIDE DEF s, t
  <1>6. Len(s) = n /\ Len(t) = n /\ (p + n) - (p + 1) + 1 = n
    BY <1>4, <1>5
  <1>7. \A i \in 1..n : p + 1 + i - 1 = p + i /\ p + i \in (p + 1)..(p + n)
    OBVIOUS
  <1>8. \A i \in 1..n : s[i] = b.data[p + i] /\ t[i] = s[i]
    BY <1>3, <1>4, <1>5, <1>6, <1>7
  <1>9. s = t
    BY <1>4, <1>5, <1>6, <1>8, SeqEqual
  <1> QED
    BY <1>4, <1>6, <1>8, <1>9 DEF s, t

LEMMA SliceOfBytes ==
    ASSUME NEW b, Sound(b), NEW p \in Nat, NEW n \in Nat, p + n <= b.size
    PROVE  SubSeq(b.data, p + 1, p + n) = SubSeq(Bytes(b), p + 1, p + n)
  BY SliceIs

(* toString() gives all there is to read. *)
LEMMA ToStringIs ==
    ASSUME NEW b, Sound(b)
    PROVE  toString(b) = [how |-> "ok", ba |-> b,
                          out |-> SubSeq(b.data, b.position + 1, b.size)]
  <1>1. /\ b.position \in Nat /\ b.size \in Nat /\ b.capacity \in Nat
        /\ b.position <= b.size /\ b.size <= b.capacity
    BY DEF Sound, ArrayType
  <1>2. CASE b.size = b.position
    BY <1>1, <1>2, SubSeqEmpty DEF toString, getReadSize
  <1>3. CASE b.size # b.position
    <2>1. b.position < b.capacity /\ b.size - b.position \in Nat \ {0}
      BY <1>1, <1>3
    <2>2. b.cur # Null /\ Here(b) = b.position
      BY <2>1, HereIsPosition
    <2>3. readAt(b, b.size - b.position, b.position) =
            [how |-> "ok", ba |-> b,
             out |-> SubSeq(b.data, Here(b) + 1, Here(b) + (b.size - b.position))]
      BY <1>1, <2>1, <2>2 DEF readAt, Here
    <2>4. Here(b) + (b.size - b.position) = b.size
      BY <1>1, <2>2
    <2> QED
      BY <2>1, <2>2, <2>3, <2>4 DEF toString, getReadSize
  <1> QED
    BY <1>2, <1>3

LEMMA ClearIs ==
    ASSUME NEW b, Sound(b)
    PROVE  /\ Sound(clear(b)) /\ clear(b).position = 0 /\ clear(b).size = 0
           /\ clear(b).capacity = Base
  <1>1. /\ b \in ArrayType /\ b.data \in Seq(Cell) /\ Len(b.data) = b.capacity
        /\ b.capacity \in Nat
    BY DEF Sound, ArrayType
  <1>2. b.capacity >= Base /\ Base \in Nat \ {0}
    <2>1. PICK k \in Nat \ {0} : b.capacity = k * Base
      BY DEF Sound, Whole
    <2>2. 1 * Base <= k * Base
      BY <2>1, MonotoneProduct
    <2> QED
      BY <2>1, <2>2, BaseAssumption
  <1>3. \A i \in 1..Base : b.data[i] \in Cell
    BY <1>1, <1>2, ElementOfSeq
  <1> DEFINE d == SubSeq(b.data, 1, Base)
             c == [b EXCEPT !.position = 0, !.size = 0, !.capacity = Base, !.cur = 1, !.data = d]
  <1>4. d \in Seq(Cell) /\ Len(d) = Base
    BY <1>2, <1>3, SubSeqProperties
  <1> HIDE DEF d
  <1>5. clear(b) = c
    BY <1>1 DEF clear, d
  <1>6. /\ c \in ArrayType /\ c.position = 0 /\ c.size = 0 /\ c.capacity = Base
        /\ c.cur = 1 /\ c.data = d
    BY <1>1, <1>2, <1>4 DEF ArrayType
  <1>7. Base \in Whole
    BY BaseWhole
  <1>8. NodeOf(0, Base) = 1
    BY BaseAssumption DEF NodeOf
  <1> HIDE DEF c
  <1>9. Sound(c)
    BY <1>2, <1>4, <1>6, <1>7, <1>8 DEF Sound
  <1> QED
    BY <1>5, <1>6, <1>9

LEMMA NewArrayIs == Sound(NewArray)
  <1>1. NewNodes(1) \in Seq(Cell) /\ Len(NewNodes(1)) = Base
    BY NewNodesType, BaseAssumption
  <1>2. Base \in Whole
    BY BaseWhole
  <1>3. NodeOf(0, Base) = 1
    BY BaseAssumption DEF NodeOf
  <1> QED
    BY <1>1, <1>2, <1>3, BaseAssumption DEF NewArray, Sound, ArrayType

-----------------------------------------------------------------------------
(* The pieces of the nodes.                                                *)

(* Pieces that follow one another from index at on, n bytes together:      *)
(* piece i ends where the bytes before c[i] do.                            *)
Cuts(pieces, at, n, c) ==
    /\ Len(pieces) \in Nat /\ c \in [0..Len(pieces) -> 0..n]
    /\ c[0] = 0 /\ c[Len(pieces)] = n
    /\ \A i \in 1..Len(pieces) :
        /\ c[i - 1] <= c[i]
        /\ pieces[i][1] = at + c[i - 1] /\ pieces[i][2] = c[i] - c[i - 1]

Adjacent(pieces, at, n) == \E c : Cuts(pieces, at, n, c)

LEMMA NoPieces == \A at \in Nat : Adjacent(<<>>, at, 0)
  <1> SUFFICES ASSUME NEW at \in Nat PROVE Adjacent(<<>>, at, 0)
    OBVIOUS
  <1>1. Cuts(<<>>, at, 0, [i \in 0..0 |-> 0])
    BY DEF Cuts
  <1> QED
    BY <1>1 DEF Adjacent

LEMMA Distribute ==
    ASSUME NEW k \in Nat \ {0}, NEW i \in Nat \ {0}
    PROVE  /\ (k + i - 2) * Base = (k - 1) * Base + (i - 1) * Base
           /\ i * Base = (i - 1) * Base + Base
           /\ (i - 1) * Base \in Nat /\ i * Base \in Nat /\ (k - 1) * Base \in Nat
  BY BaseAssumption

LEMMA PiecesAre ==
    ASSUME NEW k \in Nat \ {0}, NEW npos \in 0..(Base - 1), NEW n \in Nat \ {0}
    PROVE  Adjacent(Pieces(k, npos, n), (k - 1) * Base + npos, n)
  <1> DEFINE m == npos + n - 1
             L == (m \div Base) + 1
             at == (k - 1) * Base + npos
             ps == Pieces(k, npos, n)
             cut(i) == IF i = 0 THEN 0 ELSE IF i = L THEN n ELSE i * Base - npos
             c == [i \in 0..L |-> cut(i)]
             to == (m % Base) + 1
             q == m \div Base
  <1>0. Base \in Nat \ {0}
    BY BaseAssumption
  <1>1. m \in Nat /\ q \in Nat /\ m = q * Base + (m % Base) /\ m % Base \in 0..(Base - 1)
    <2>1. m \in Nat
      BY <1>0
    <2> HIDE DEF m
    <2> QED
      BY <2>1, Division
  <1>2. L \in Nat \ {0} /\ L = q + 1 /\ npos + n = m + 1 /\ to \in 1..Base /\ q * Base \in Nat
        /\ npos + n = q * Base + to
    BY <1>0, <1>1
  <1>3. ps = [i \in 1..L |-> <<(k + i - 2) * Base + (IF i = 1 THEN npos ELSE 0),
                               (IF i = L THEN to ELSE Base) - (IF i = 1 THEN npos ELSE 0)>>]
    BY DEF Pieces
  <1> HIDE DEF ps, L, to, q, m
  <1>4. Len(ps) = L
    BY <1>2, <1>3
  <1>5. \A i \in 0..L : cut(i) \in 0..n /\ (i < L => cut(i) < n /\ (i > 0 => cut(i) = i * Base - npos))
    <2> SUFFICES ASSUME NEW i \in 1..L, i < L
                 PROVE  cut(i) \in 0..n /\ cut(i) < n /\ cut(i) = i * Base - npos
      BY <1>2
    <2>1. i \in Nat \ {0} /\ i <= q
      BY <1>1, <1>2
    <2>2. 1 * Base <= i * Base /\ i * Base <= q * Base /\ i * Base \in Nat /\ 1 * Base = Base
      BY <1>0, <1>1, <2>1, MonotoneProduct
    <2>3. cut(i) = i * Base - npos
      BY <2>1
    <2> HIDE DEF cut
    <2> DEFINE x == i * Base
               y == q * Base
    <2>4. x \in Nat /\ y \in Nat /\ Base <= x /\ x <= y /\ cut(i) = x - npos /\ npos + n = y + to
      BY <1>2, <2>2, <2>3
    <2> HIDE DEF x, y
    <2> QED
      BY <1>0, <1>2, <2>3, <2>4
  <1>6. \A i \in 1..L : /\ cut(i - 1) <= cut(i)
                        /\ ps[i][1] = at + cut(i - 1) /\ ps[i][2] = cut(i) - cut(i - 1)
    <2> SUFFICES ASSUME NEW i \in 1..L
                 PROVE  /\ cut(i - 1) <= cut(i)
                        /\ ps[i][1] = at + cut(i - 1) /\ ps[i][2] = cut(i) - cut(i - 1)
      OBVIOUS
    <2>0. i \in Nat \ {0} /\ i - 1 \in 0..L /\ i - 1 < L /\ i <= q + 1
      BY <1>2
    <2>1. /\ ps[i][1] = (k + i - 2) * Base + (IF i = 1 THEN npos ELSE 0)
          /\ ps[i][2] = (IF i = L THEN to ELSE Base) - (IF i = 1 THEN npos ELSE 0)
      BY <1>3
    <2>2. /\ (k + i - 2) * Base = (k - 1) * Base + (i - 1) * Base
          /\ i * Base = (i - 1) * Base + Base
          /\ (i - 1) * Base \in Nat /\ i * Base \in Nat /\ (k - 1) * Base \in Nat
      BY <2>0, Distribute
    <2>3. i = 1 => (i - 1) * Base = 0
      BY <1>0
    <2>4. cut(i - 1) = IF i = 1 THEN 0 ELSE (i - 1) * Base - npos
      BY <2>0
    <2>5. cut(i) = IF i = L THEN n ELSE i * Base - npos
      BY <2>0
    <2>6. i = L => (i - 1) * Base = q * Base
      BY <1>1, <1>2
    <2> DEFINE w == (i - 1) * Base
               x == i * Base
               y == q * Base
               z == (k - 1) * Base
    <2>7. /\ w \in Nat /\ x = w + Base /\ y \in Nat /\ z \in Nat
          /\ ps[i][1] = z + w + (IF i = 1 THEN npos ELSE 0)
          /\ i = 1 => w = 0
          /\ i = L => w = y
          /\ cut(i - 1) = (IF i = 1 THEN 0 ELSE w - npos)
          /\ cut(i) = (IF i = L THEN n ELSE x - npos)
          /\ npos + n = y + to
          /\ at = z + npos
      BY <1>2, <2>1, <2>2, <2>3, <2>4, <2>5, <2>6
    <2> HIDE DEF w, x, y, z, cut, at
    <2>8. ps[i][1] = at + cut(i - 1)
      BY <1>0, <2>7
    <2>9. ps[i][2] = cut(i) - cut(i - 1)
      BY <1>0, <1>2, <2>1, <2>7
    <2>10. cut(i - 1) <= cut(i)
      BY <1>0, <1>2, <2>1, <2>7
    <2> QED
      BY <2>8, <2>9, <2>10
  <1>7. c \in [0..L -> 0..n] /\ \A i \in 0..L : c[i] = cut(i)
    BY <1>5
  <1>8. c[0] = 0 /\ c[L] = n
    BY <1>2, <1>7
  <1>9. \A i \in 1..L : c[i] = cut(i) /\ c[i - 1] = cut(i - 1)
    <2>1. \A i \in 1..L : i \in 0..L /\ i - 1 \in 0..L
      BY <1>2
    <2> HIDE DEF c, cut
    <2> QED
      BY <1>7, <2>1
  <1> HIDE DEF c, cut
  <1>10. Cuts(ps, at, n, c)
    BY <1>2, <1>4, <1>6, <1>7, <1>8, <1>9 DEF Cuts
  <1> QED
    BY <1>10 DEF Adjacent, ps

(* A recursive function whose every value is known satisfies its equation, *)
(* and no other function does: what Gather and Scatter go through.         *)
LEMMA GatherIs ==
    ASSUME NEW S, NEW data \in Seq(S), NEW pieces, NEW at \in Nat, NEW n \in Nat,
           Adjacent(pieces, at, n), at + n <= Len(data)
    PROVE  Gather(data, pieces) = SubSeq(data, at + 1, at + n)
  <1> DEFINE L == Len(pieces)
             step(i) == SubSeq(data, pieces[i][1] + 1, pieces[i][1] + pieces[i][2])
             is(g) == g = [i \in 0..L |-> IF i = 0 THEN <<>> ELSE g[i - 1] \o step(i)]
             f == CHOOSE g : is(g)
  <1>1. PICK c : Cuts(pieces, at, n, c)
    BY DEF Adjacent
  <1>2. /\ L \in Nat /\ c \in [0..L -> 0..n] /\ c[0] = 0 /\ c[L] = n
        /\ \A i \in 1..L : /\ c[i - 1] <= c[i]
                           /\ pieces[i][1] = at + c[i - 1] /\ pieces[i][2] = c[i] - c[i - 1]
    BY <1>1 DEF Cuts
  <1> HIDE DEF L
  <1> DEFINE e == [i \in 0..L |-> SubSeq(data, at + 1, at + c[i])]
  <1>3. e[0] = <<>>
    <2>1. e[0] = SubSeq(data, at + 1, at)
      BY <1>2
    <2> HIDE DEF e
    <2> QED
      BY <2>1, SubSeqEmpty
  <1>4. \A i \in 1..L : e[i] = e[i - 1] \o step(i)
    <2> SUFFICES ASSUME NEW i \in 1..L PROVE e[i] = e[i - 1] \o step(i)
      OBVIOUS
    <2>1. i - 1 \in 0..L /\ i \in 0..L /\ c[i - 1] \in 0..n /\ c[i] \in 0..n /\ c[i - 1] <= c[i]
          /\ Len(data) \in Nat
      BY <1>2, LenProperties
    <2> DEFINE u == at + c[i - 1]
               v == at + c[i]
    <2>2. u \in Nat /\ v \in Nat /\ at <= u /\ u <= v /\ v <= Len(data)
          /\ u = pieces[i][1] /\ v = pieces[i][1] + pieces[i][2]
      <3> DEFINE x == c[i - 1]
                 y == c[i]
      <3>1. x \in 0..n /\ y \in 0..n /\ x <= y /\ Len(data) \in Nat
            /\ u = at + x /\ v = at + y
        BY <2>1
      <3>2. pieces[i][1] = at + x /\ pieces[i][2] = y - x
        BY <1>2
      <3> HIDE DEF x, y, u, v
      <3> QED
        BY <3>1, <3>2
    <2>3. e[i - 1] = SubSeq(data, at + 1, u) /\ e[i] = SubSeq(data, at + 1, v)
          /\ step(i) = SubSeq(data, u + 1, v)
      <3>1. e[i - 1] = SubSeq(data, at + 1, u)
        BY <2>1
      <3>2. e[i] = SubSeq(data, at + 1, v)
        BY <2>1
      <3>3. step(i) = SubSeq(data, u + 1, v)
        <4> HIDE DEF u, v
        <4> QED
          BY <2>2
      <3> QED
        BY <3>1, <3>2, <3>3
    <2> HIDE DEF u, v, e, step
    <2>4. /\ at + 1 \in 1..(Len(data) + 1) /\ u \in ((at + 1) - 1)..Len(data)
          /\ v \in u..Len(data)
      <3>1. Len(data) \in Nat
        BY <2>1
      <3> QED
        BY <2>2, <3>1
    <2>5. SubSeq(data, at + 1, u) \o SubSeq(data, u + 1, v) = SubSeq(data, at + 1, v)
      BY <2>4, ConcatAdjacentSubSeq
    <2> QED
      BY <2>3, <2>5
  <1>5. is(e)
    <2>1. \A i \in 0..L : e[i] = IF i = 0 THEN <<>> ELSE e[i - 1] \o step(i)
      <3>1. \A i \in 0..L : i = 0 \/ i \in 1..L
        BY <1>2
      <3> HIDE DEF e, step
      <3> QED
        BY <1>3, <1>4, <3>1
    <2>2. e = [i \in 0..L |-> e[i]]
      OBVIOUS
    <2> HIDE DEF e, step
    <2> QED
      BY <2>1, <2>2
  <1>6. is(f)
    <2> HIDE DEF is, e
    <2> QED
      BY <1>5
  <1>7. \A i \in 0..L : f[i] = e[i]
    <2> DEFINE T == {i \in 0..L : f[i] = e[i]}
    <2>1. f[0] = <<>> /\ \A i \in 1..L : f[i] = f[i - 1] \o step(i)
      <3> DEFINE h == f
      <3>1. h = [i \in 0..L |-> IF i = 0 THEN <<>> ELSE h[i - 1] \o step(i)]
        BY <1>6
      <3> HIDE DEF h, step
      <3>2. h[0] = <<>>
        BY <1>2, <3>1
      <3>3. \A i \in 1..L : i \in 0..L /\ i # 0
        BY <1>2
      <3>4. \A i \in 1..L : h[i] = h[i - 1] \o step(i)
        BY <3>1, <3>3
      <3> QED
        BY <3>2, <3>4 DEF h
    <2> HIDE DEF f, e, step
    <2>2. 0 \in T
      BY <1>2, <1>3, <2>1
    <2>3. \A i \in 0..(L - 1) : i \in T => i + 1 \in T
      <3> SUFFICES ASSUME NEW i \in 0..(L - 1), f[i] = e[i] PROVE i + 1 \in 0..L /\ f[i + 1] = e[i + 1]
        OBVIOUS
      <3>1. i + 1 \in 1..L /\ (i + 1) - 1 = i /\ i + 1 \in 0..L
        BY <1>2
      <3> QED
        BY <1>4, <2>1, <3>1
    <2> HIDE DEF T
    <2>4. \A i \in 0..L : i \in T
      BY <1>2, <2>2, <2>3, UpTo
    <2> QED
      BY <2>4 DEF T
  <1>8. Gather(data, pieces) = f[L]
    BY DEF Gather, L
  <1> HIDE DEF f, is, step
  <1>9. e[L] = SubSeq(data, at + 1, at + n)
    <2>1. L \in 0..L /\ c[L] = n
      BY <1>2
    <2> QED
      BY <2>1
  <1> HIDE DEF e
  <1>10. f[L] = e[L]
    BY <1>2, <1>7
  <1> QED
    BY <1>8, <1>9, <1>10

LEMMA PrefixIs ==
    ASSUME NEW S, NEW s \in Seq(S), NEW k \in Nat \ {0}, NEW y \in Nat
    PROVE  LET t == SubSeq(s, k, AtMost(y, Len(s))) IN
           /\ t \in Seq(S)
           /\ Len(t) = IF k <= AtMost(y, Len(s)) THEN AtMost(y, Len(s)) - k + 1 ELSE 0
           /\ \A i \in 1..Len(t) : t[i] = s[k + i - 1]
  <1> DEFINE m == AtMost(y, Len(s))
             t == SubSeq(s, k, m)
  <1>1. m \in Nat /\ m <= Len(s) /\ Len(s) \in Nat
    BY LenProperties DEF AtMost
  <1>2. \A i \in k..m : s[i] \in S
    BY <1>1, ElementOfSeq
  <1> HIDE DEF m
  <1>3. /\ t \in Seq(S) /\ Len(t) = (IF k <= m THEN m - k + 1 ELSE 0)
        /\ \A i \in 1..(m - k + 1) : t[i] = s[k + i - 1]
    BY <1>1, <1>2, SubSeqProperties
  <1> HIDE DEF t
  <1>4. \A i \in 1..Len(t) : i \in 1..(m - k + 1)
    BY <1>1, <1>3
  <1> QED
    BY <1>3, <1>4 DEF t, m

LEMMA OverlayTwice ==
    ASSUME NEW data \in Seq(Cell), NEW at \in Nat, NEW s \in Seq(Cell),
           NEW x \in Nat, NEW y \in Nat, x <= y
    PROVE  Overlay(Overlay(data, at, SubSeq(s, 1, AtMost(x, Len(s)))),
                   at + x, SubSeq(s, x + 1, AtMost(y, Len(s))))
             = Overlay(data, at, SubSeq(s, 1, AtMost(y, Len(s))))
  <1> DEFINE n == Len(s)
             p == SubSeq(s, 1, AtMost(x, n))
             r == SubSeq(s, x + 1, AtMost(y, n))
             w == SubSeq(s, 1, AtMost(y, n))
             a == Overlay(data, at, p)
             b == Overlay(a, at + x, r)
             c == Overlay(data, at, w)
  <1>1. n \in Nat /\ Len(data) \in Nat
    BY LenProperties
  <1>2. /\ p \in Seq(Cell) /\ Len(p) = (IF 1 <= AtMost(x, n) THEN AtMost(x, n) - 1 + 1 ELSE 0)
        /\ \A i \in 1..Len(p) : p[i] = s[1 + i - 1]
    BY PrefixIs
  <1>3. /\ r \in Seq(Cell)
        /\ Len(r) = (IF x + 1 <= AtMost(y, n) THEN AtMost(y, n) - (x + 1) + 1 ELSE 0)
        /\ \A i \in 1..Len(r) : r[i] = s[(x + 1) + i - 1]
    BY PrefixIs
  <1>4. /\ w \in Seq(Cell) /\ Len(w) = (IF 1 <= AtMost(y, n) THEN AtMost(y, n) - 1 + 1 ELSE 0)
        /\ \A i \in 1..Len(w) : w[i] = s[1 + i - 1]
    BY PrefixIs
  <1> HIDE DEF p, r, w, n
  <1>5. /\ a \in Seq(Cell) /\ Len(a) = Len(data)
        /\ \A i \in 1..Len(data) : a[i] =
              IF i > at /\ i <= at + Len(p) THEN p[i - at] ELSE data[i]
    BY <1>2, OverlayIs
  <1> HIDE DEF a
  <1>6. at + x \in Nat
    OBVIOUS
  <1>7. /\ b \in Seq(Cell) /\ Len(b) = Len(a)
        /\ \A i \in 1..Len(a) : b[i] =
              IF i > at + x /\ i <= at + x + Len(r) THEN r[i - (at + x)] ELSE a[i]
    BY <1>3, <1>5, <1>6, OverlayIs
  <1>8. /\ c \in Seq(Cell) /\ Len(c) = Len(data)
        /\ \A i \in 1..Len(data) : c[i] =
              IF i > at /\ i <= at + Len(w) THEN w[i - at] ELSE data[i]
    BY <1>4, OverlayIs
  <1> HIDE DEF b, c
  <1>9. /\ Len(p) \in Nat /\ Len(r) \in Nat /\ Len(w) \in Nat
        /\ Len(p) <= x /\ Len(p) <= Len(w)
        /\ Len(r) > 0 => Len(p) = x /\ Len(w) = x + Len(r)
        /\ Len(r) = 0 => Len(w) = Len(p)
    BY <1>1, <1>2, <1>3, <1>4 DEF AtMost
  <1>10. \A i \in 1..Len(data) : b[i] = c[i]
    <2> SUFFICES ASSUME NEW i \in 1..Len(data) PROVE b[i] = c[i]
      OBVIOUS
    <2>0. i \in Nat
      BY <1>1
    <2>1. CASE i > at + x /\ i <= at + x + Len(r)
      <3>1. Len(w) = x + Len(r)
        BY <1>9, <2>0, <2>1
      <3>2. i - (at + x) \in 1..Len(r) /\ i - at \in 1..Len(w) /\ (x + 1) + (i - (at + x)) - 1 = i - at
            /\ 1 + (i - at) - 1 = i - at
        BY <1>9, <2>0, <2>1, <3>1
      <3>3. b[i] = s[i - at]
        BY <1>5, <1>7, <2>1, <1>3, <3>2
      <3>4. c[i] = s[i - at]
        <4>1. i > at /\ i <= at + Len(w)
          BY <1>9, <2>0, <2>1, <3>1
        <4>2. c[i] = w[i - at]
          BY <1>8, <4>1
        <4> QED
          BY <1>4, <3>2, <4>2
      <3> QED
        BY <3>3, <3>4
    <2>2. CASE ~(i > at + x /\ i <= at + x + Len(r))
      <3>1. b[i] = a[i]
        BY <1>5, <1>7, <2>2
      <3>2. CASE i > at /\ i <= at + Len(p)
        <4>1. i - at \in 1..Len(p) /\ i - at \in 1..Len(w) /\ i <= at + Len(w)
          BY <1>9, <2>0, <3>2
        <4>2. a[i] = s[1 + (i - at) - 1]
          BY <1>2, <1>5, <3>2, <4>1
        <4>3. c[i] = s[1 + (i - at) - 1]
          BY <1>4, <1>8, <3>2, <4>1
        <4> QED
          BY <3>1, <4>2, <4>3
      <3>3. CASE ~(i > at /\ i <= at + Len(p))
        <4>1. ~(i > at /\ i <= at + Len(w))
          BY <1>9, <2>0, <2>2, <3>3
        <4> QED
          BY <1>5, <1>8, <3>1, <3>3, <4>1
      <3> QED
        BY <3>2, <3>3
    <2> QED
      BY <2>1, <2>2
  <1>11. b = c
    BY <1>1, <1>5, <1>7, <1>8, <1>10, SeqEqual
  <1> QED
    BY <1>11 DEF a, b, c, p, r, w, n

LEMMA OverlayNothing ==
    ASSUME NEW data \in Seq(Cell), NEW at \in Nat
    PROVE  Overlay(data, at, <<>>) = data
  <1>1. <<>> \in Seq(Cell) /\ Len(<<>>) = 0
    BY EmptySeq
  <1>2. /\ Overlay(data, at, <<>>) \in Seq(Cell)
        /\ Len(Overlay(data, at, <<>>)) = Len(data)
        /\ \A i \in 1..Len(data) : Overlay(data, at, <<>>)[i] =
              IF i > at /\ i <= at + Len(<<>>) THEN <<>>[i - at] ELSE data[i]
    BY <1>1, OverlayIs
  <1>3. \A i \in 1..Len(data) : ~(i > at /\ i <= at + Len(<<>>))
    BY <1>1, LenProperties
  <1> QED
    BY <1>2, <1>3, SeqEqual

LEMMA ScatterIs ==
    ASSUME NEW data \in Seq(Cell), NEW pieces, NEW at \in Nat, NEW n \in Nat,
           Adjacent(pieces, at, n), NEW s \in Seq(Cell), Len(s) <= n
    PROVE  Scatter(data, pieces, s) = Overlay(data, at, s)
  <1> DEFINE L == Len(pieces)
             isB(g) == g = [i \in 1..(L + 1) |-> IF i = 1 THEN 0 ELSE g[i - 1] + pieces[i - 1][2]]
             before == CHOOSE g : isB(g)
             part(i) == SubSeq(s, before[i] + 1, AtMost(before[i + 1], Len(s)))
             is(g) == g = [i \in 0..L |->
                            IF i = 0 THEN data ELSE Overlay(g[i - 1], pieces[i][1], part(i))]
             f == CHOOSE g : is(g)
  <1>0. Scatter(data, pieces, s) = f[L]
    BY DEF Scatter
  <1>1. PICK c : Cuts(pieces, at, n, c)
    BY DEF Adjacent
  <1>2. /\ L \in Nat /\ c \in [0..L -> 0..n] /\ c[0] = 0 /\ c[L] = n
        /\ \A i \in 1..L : /\ c[i - 1] <= c[i]
                           /\ pieces[i][1] = at + c[i - 1] /\ pieces[i][2] = c[i] - c[i - 1]
    BY <1>1 DEF Cuts
  <1> HIDE DEF L
  <1>3. \A i \in 0..L : c[i] \in Nat /\ c[i] <= n
    BY <1>2
  <1> DEFINE eb == [i \in 1..(L + 1) |-> c[i - 1]]
             ef == [i \in 0..L |-> Overlay(data, at, SubSeq(s, 1, AtMost(c[i], Len(s))))]
  <1>4. isB(eb)
    <2>1. \A i \in 1..(L + 1) : eb[i] = IF i = 1 THEN 0 ELSE eb[i - 1] + pieces[i - 1][2]
      <3> SUFFICES ASSUME NEW i \in 1..(L + 1)
                   PROVE  eb[i] = IF i = 1 THEN 0 ELSE eb[i - 1] + pieces[i - 1][2]
        OBVIOUS
      <3>1. CASE i = 1
        BY <1>2, <3>1
      <3>2. CASE i # 1
        <4> DEFINE j == i - 1
        <4>1. j \in 1..L /\ j \in 1..(L + 1) /\ j \in 0..L /\ j - 1 \in 0..L
          BY <1>2, <3>2
        <4>2. eb[i] = c[j] /\ eb[j] = c[j - 1]
          BY <4>1
        <4>3. pieces[j][2] = c[j] - c[j - 1] /\ c[j] \in Nat /\ c[j - 1] \in Nat
          BY <1>2, <1>3, <4>1
        <4> HIDE DEF j, eb
        <4>4. eb[i] = eb[j] + pieces[j][2]
          BY <4>2, <4>3
        <4> QED
          BY <3>2, <4>4 DEF j
      <3> QED
        BY <3>1, <3>2
    <2>2. eb = [i \in 1..(L + 1) |-> eb[i]]
      OBVIOUS
    <2> HIDE DEF eb
    <2> QED
      BY <2>1, <2>2
  <1>5. isB(before)
    <2> HIDE DEF isB, eb
    <2> QED
      BY <1>4
  <1>6. \A i \in 1..(L + 1) : before[i] = c[i - 1]
    <2> DEFINE T == {i \in 0..L : before[i + 1] = c[i]}
    <2>1. before[1] = 0 /\ \A i \in 2..(L + 1) : before[i] = before[i - 1] + pieces[i - 1][2]
      <3> DEFINE h == before
      <3>1. h = [i \in 1..(L + 1) |-> IF i = 1 THEN 0 ELSE h[i - 1] + pieces[i - 1][2]]
        BY <1>5
      <3> HIDE DEF h
      <3>2. h[1] = 0
        BY <1>2, <3>1
      <3>3. \A i \in 2..(L + 1) : i \in 1..(L + 1) /\ i # 1
        BY <1>2
      <3>4. \A i \in 2..(L + 1) : h[i] = h[i - 1] + pieces[i - 1][2]
        BY <3>1, <3>3
      <3> QED
        BY <3>2, <3>4 DEF h
    <2> HIDE DEF before
    <2>2. 0 \in T
      BY <1>2, <2>1
    <2>3. \A i \in 0..(L - 1) : i \in T => i + 1 \in T
      <3> SUFFICES ASSUME NEW i \in 0..(L - 1), before[i + 1] = c[i]
                   PROVE  i + 1 \in 0..L /\ before[(i + 1) + 1] = c[i + 1]
        OBVIOUS
      <3>1. /\ i + 1 \in 1..L /\ (i + 1) - 1 = i /\ i + 1 \in 0..L /\ i \in 0..L
            /\ i + 2 \in 2..(L + 1) /\ (i + 1) + 1 = i + 2 /\ (i + 2) - 1 = i + 1
        BY <1>2
      <3>2. before[i + 2] = before[i + 1] + pieces[i + 1][2]
        BY <2>1, <3>1
      <3>3. pieces[i + 1][2] = c[i + 1] - c[i] /\ c[i] \in Nat /\ c[i + 1] \in Nat
        BY <1>2, <1>3, <3>1
      <3> QED
        BY <3>1, <3>2, <3>3
    <2> HIDE DEF T
    <2>4. \A i \in 0..L : i \in T
      BY <1>2, <2>2, <2>3, UpTo
    <2>5. \A i \in 1..(L + 1) : i - 1 \in 0..L /\ (i - 1) + 1 = i
      BY <1>2
    <2>6. \A i \in 0..L : before[i + 1] = c[i]
      BY <2>4 DEF T
    <2> QED
      BY <2>5, <2>6
  <1> HIDE DEF before
  <1>7. \A i \in 1..L : part(i) = SubSeq(s, c[i - 1] + 1, AtMost(c[i], Len(s)))
    <2>1. \A i \in 1..L : i \in 1..(L + 1) /\ i + 1 \in 1..(L + 1) /\ (i + 1) - 1 = i
      BY <1>2
    <2>2. \A i \in 1..L : before[i] = c[i - 1] /\ before[i + 1] = c[i]
      BY <1>6, <2>1
    <2> QED
      BY <2>2
  <1> HIDE DEF part
  <1>8. ef[0] = data
    <2>1. AtMost(c[0], Len(s)) = 0
      BY <1>2, LenProperties DEF AtMost
    <2>2. SubSeq(s, 1, 0) = <<>>
      BY SubSeqEmpty
    <2>3. ef[0] = Overlay(data, at, SubSeq(s, 1, AtMost(c[0], Len(s))))
      BY <1>2
    <2> HIDE DEF ef
    <2> QED
      BY <2>1, <2>2, <2>3, OverlayNothing
  <1>9. \A i \in 1..L : ef[i] = Overlay(ef[i - 1], pieces[i][1], part(i))
    <2> SUFFICES ASSUME NEW i \in 1..L PROVE ef[i] = Overlay(ef[i - 1], pieces[i][1], part(i))
      OBVIOUS
    <2>1. i \in 0..L /\ i - 1 \in 0..L
      BY <1>2
    <2>2. c[i] \in Nat /\ c[i - 1] \in Nat /\ c[i - 1] <= c[i] /\ pieces[i][1] = at + c[i - 1]
      BY <1>2, <1>3, <2>1
    <2>3. /\ ef[i] = Overlay(data, at, SubSeq(s, 1, AtMost(c[i], Len(s))))
          /\ ef[i - 1] = Overlay(data, at, SubSeq(s, 1, AtMost(c[i - 1], Len(s))))
      BY <2>1
    <2> HIDE DEF ef
    <2>4. Overlay(Overlay(data, at, SubSeq(s, 1, AtMost(c[i - 1], Len(s)))),
                  at + c[i - 1], SubSeq(s, c[i - 1] + 1, AtMost(c[i], Len(s))))
            = Overlay(data, at, SubSeq(s, 1, AtMost(c[i], Len(s))))
      <3> DEFINE x == c[i - 1]
                 y == c[i]
      <3>1. x \in Nat /\ y \in Nat /\ x <= y
        BY <2>2
      <3> HIDE DEF x, y
      <3>2. Overlay(Overlay(data, at, SubSeq(s, 1, AtMost(x, Len(s)))),
                    at + x, SubSeq(s, x + 1, AtMost(y, Len(s))))
              = Overlay(data, at, SubSeq(s, 1, AtMost(y, Len(s))))
        BY <3>1, OverlayTwice
      <3> QED
        BY <3>2 DEF x, y
    <2> QED
      BY <1>7, <2>2, <2>3, <2>4
  <1>10. is(ef)
    <2>1. \A i \in 0..L : ef[i] = IF i = 0 THEN data ELSE Overlay(ef[i - 1], pieces[i][1], part(i))
      <3>1. \A i \in 0..L : i = 0 \/ i \in 1..L
        BY <1>2
      <3> HIDE DEF ef
      <3> QED
        BY <1>8, <1>9, <3>1
    <2>2. ef = [i \in 0..L |-> ef[i]]
      OBVIOUS
    <2> HIDE DEF ef
    <2> QED
      BY <2>1, <2>2
  <1>11. is(f)
    <2> HIDE DEF is, ef
    <2> QED
      BY <1>10
  <1>12. \A i \in 0..L : f[i] = ef[i]
    <2> DEFINE T == {i \in 0..L : f[i] = ef[i]}
    <2>1. f[0] = data /\ \A i \in 1..L : f[i] = Overlay(f[i - 1], pieces[i][1], part(i))
      <3> DEFINE h == f
      <3>1. h = [i \in 0..L |->
                  IF i = 0 THEN data ELSE Overlay(h[i - 1], pieces[i][1], part(i))]
        BY <1>11
      <3> HIDE DEF h
      <3>2. h[0] = data
        BY <1>2, <3>1
      <3>3. \A i \in 1..L : i \in 0..L /\ i # 0
        BY <1>2
      <3>4. \A i \in 1..L : h[i] = Overlay(h[i - 1], pieces[i][1], part(i))
        BY <3>1, <3>3
      <3> QED
        BY <3>2, <3>4 DEF h
    <2> HIDE DEF f, ef
    <2>2. 0 \in T
      BY <1>2, <1>8, <2>1
    <2>3. \A i \in 0..(L - 1) : i \in T => i + 1 \in T
      <3> SUFFICES ASSUME NEW i \in 0..(L - 1), f[i] = ef[i]
                   PROVE  i + 1 \in 0..L /\ f[i + 1] = ef[i + 1]
        OBVIOUS
      <3>1. i + 1 \in 1..L /\ (i + 1) - 1 = i /\ i + 1 \in 0..L
        BY <1>2
      <3> QED
        BY <1>9, <2>1, <3>1
    <2> HIDE DEF T
    <2>4. \A i \in 0..L : i \in T
      BY <1>2, <2>2, <2>3, UpTo
    <2> QED
      BY <2>4 DEF T
  <1>13. ef[L] = Overlay(data, at, s)
    <2>1. AtMost(n, Len(s)) = Len(s)
      BY LenProperties DEF AtMost
    <2>2. SubSeq(s, 1, Len(s)) = s
      BY SubSeqFull
    <2>3. ef[L] = Overlay(data, at, SubSeq(s, 1, AtMost(c[L], Len(s))))
      BY <1>2
    <2> HIDE DEF ef
    <2> QED
      BY <1>2, <2>1, <2>2, <2>3
  <1> HIDE DEF f, ef
  <1> QED
    BY <1>0, <1>2, <1>12, <1>13

(* getReadBuffers() shows the bytes behind the position. *)
LEMMA ReadBuffersAre ==
    ASSUME NEW b, Sound(b), NEW n \in Nat
    PROVE  Gather(b.data, getReadBuffers(b, n)) =
             SubSeq(b.data, b.position + 1, b.position + AtMost(n, b.size - b.position))
  <1> DEFINE m == AtMost(n, b.size - b.position)
  <1>1. /\ b.position \in Nat /\ b.size \in Nat /\ b.capacity \in Nat
        /\ b.position <= b.size /\ b.size <= b.capacity
        /\ b.data \in Seq(Cell) /\ Len(b.data) = b.capacity
    BY DEF Sound, ArrayType
  <1>2. m \in Nat /\ b.position + m <= b.size /\ b.position + m <= Len(b.data)
    BY <1>1 DEF AtMost
  <1> HIDE DEF m
  <1>3. getReadBuffers(b, n) = IF m = 0 THEN <<>> ELSE Pieces(b.cur, b.position % Base, m)
    BY DEF getReadBuffers, getReadSize, m
  <1>4. Adjacent(getReadBuffers(b, n), b.position, m)
    <2>1. CASE m = 0
      BY <1>1, <1>3, <2>1, NoPieces
    <2>2. CASE m # 0
      <3>1. b.position < b.capacity
        BY <1>1, <1>2, <2>2
      <3>2. Here(b) = b.position /\ b.cur = (b.position \div Base) + 1
        BY <3>1, HereIsPosition
      <3>3. b.position \div Base \in Nat /\ b.position % Base \in 0..(Base - 1)
        BY <1>1, Division
      <3>4. b.cur \in Nat \ {0} /\ m \in Nat \ {0}
        BY <1>2, <2>2, <3>2, <3>3
      <3>5. Adjacent(Pieces(b.cur, b.position % Base, m), (b.cur - 1) * Base + (b.position % Base), m)
        BY <3>3, <3>4, PiecesAre
      <3> QED
        BY <1>3, <2>2, <3>2, <3>5 DEF Here
    <2> QED
      BY <2>1, <2>2
  <1>5. Gather(b.data, getReadBuffers(b, n)) = SubSeq(b.data, b.position + 1, b.position + m)
    BY <1>1, <1>2, <1>4, GatherIs
  <1> QED
    BY <1>5 DEF m

(* Bytes that come into the write buffers are as if they were written. *)
LEMMA ReceivedIs ==
    ASSUME NEW b, Sound(b), NEW n \in Nat \ {0}, NEW s \in Seq(Cell), Len(s) \in 1..n
    PROVE  LET w == Received(b, n, s) IN
           /\ Sound(w) /\ w.little = b.little
           /\ w.position = b.position + Len(s)
           /\ w.size = IF b.position + Len(s) > b.size THEN b.position + Len(s) ELSE b.size
           /\ \A i \in 1..w.size : w.data[i] =
                 IF i > b.position /\ i <= b.position + Len(s) THEN s[i - b.position]
                                                               ELSE b.data[i]
           /\ b.capacity <= w.capacity
           /\ w.capacity = b.capacity \/ w.capacity < b.position + n + Base
  <1> DEFINE a == addCapacity(b, n)
             ps == Pieces(a.cur, a.position % Base, n)
             d == Overlay(a.data, b.position, s)
             e == [a EXCEPT !.data = d]
             v == b.position + Len(s)
             w == To(e, v)
  <1>0. /\ b.position \in Nat /\ b.size \in Nat /\ Len(s) \in Nat /\ b.capacity \in Nat
        /\ b.position <= b.size /\ b.size <= b.capacity
    BY LenProperties DEF Sound, ArrayType
  <1>1. /\ Sound(a) /\ a.position = b.position /\ a.size = b.size /\ a.little = b.little
        /\ a.position + n <= a.capacity /\ b.capacity <= a.capacity
        /\ \A i \in 1..b.capacity : a.data[i] = b.data[i]
        /\ a.capacity = b.capacity \/ a.capacity < b.position + n + Base
    BY AddCapacity
  <1>2. getWriteBuffers(b, n) = [ba |-> a, pieces |-> ps]
    BY DEF getWriteBuffers
  <1> HIDE DEF a
  <1>3. /\ a \in ArrayType /\ a.data \in Seq(Cell) /\ Len(a.data) = a.capacity
        /\ a.capacity \in Nat /\ a.capacity \in Whole /\ a.size <= a.capacity
        /\ a.position <= a.size /\ a.cur = NodeOf(a.position, a.capacity)
    BY <1>1 DEF Sound, ArrayType
  <1>4. a.position < a.capacity
    BY <1>0, <1>1, <1>3
  <1>5. Adjacent(ps, b.position, n)
    <2>1. Here(a) = b.position /\ a.cur = (b.position \div Base) + 1
      BY <1>1, <1>4, HereIsPosition
    <2>2. b.position \div Base \in Nat /\ b.position % Base \in 0..(Base - 1)
      BY <1>0, Division
    <2>3. a.cur \in Nat \ {0} /\ a.position % Base \in 0..(Base - 1)
      BY <1>1, <2>1, <2>2
    <2>4. Adjacent(ps, (a.cur - 1) * Base + (a.position % Base), n)
      BY <2>3, PiecesAre
    <2> QED
      BY <2>1, <2>4 DEF Here
  <1>6. Scatter(a.data, ps, s) = d
    <2>1. Len(s) <= n
      BY <1>0
    <2> HIDE DEF ps
    <2> QED
      BY <1>0, <1>3, <1>5, <2>1, ScatterIs
  <1>7. /\ d \in Seq(Cell) /\ Len(d) = Len(a.data)
        /\ \A i \in 1..Len(a.data) : d[i] =
              IF i > b.position /\ i <= v THEN s[i - b.position] ELSE a.data[i]
    <2> DEFINE x == b.position
               y == a.data
    <2>1. x \in Nat /\ y \in Seq(Cell) /\ v = x + Len(s) /\ d = Overlay(y, x, s)
      BY <1>0, <1>3
    <2> HIDE DEF x, y, v, d
    <2>2. /\ d \in Seq(Cell) /\ Len(d) = Len(y)
          /\ \A i \in 1..Len(y) : d[i] = IF i > x /\ i <= v THEN s[i - x] ELSE y[i]
      BY <1>0, <2>1, OverlayIs
    <2> QED
      BY <2>2 DEF x, y
  <1> HIDE DEF ps, d
  <1>8. /\ e \in ArrayType /\ e.data = d /\ e.position = a.position /\ e.size = a.size
        /\ e.capacity = a.capacity /\ e.cur = a.cur /\ e.little = a.little
    BY <1>3, <1>7 DEF ArrayType
  <1>9. Received(b, n, s) = setPosition(e, v).ba
    BY <1>1, <1>2, <1>6 DEF Received
  <1> HIDE DEF e
  <1>10. Sound(e)
    BY <1>3, <1>7, <1>8 DEF Sound
  <1>11. v \in Nat /\ v <= e.capacity
    BY <1>0, <1>1, <1>3, <1>8
  <1>12. Received(b, n, s) = w
    <2> HIDE DEF v, w
    <2>1. setPosition(e, v) = [how |-> "ok", out |-> <<>>, ba |-> To(e, v)]
      BY <1>10, <1>11, SetPositionIs
    <2> QED
      BY <1>9, <2>1 DEF w
  <1>13. /\ Sound(w) /\ w.position = v /\ w.little = e.little
         /\ w.size = (IF v > e.size THEN v ELSE e.size)
         /\ w.data = e.data /\ w.capacity = e.capacity
    <2> HIDE DEF v
    <2> QED
      BY <1>10, <1>11, ToIs
  <1> HIDE DEF w
  <1>14. \A i \in 1..w.size : w.data[i] =
            IF i > b.position /\ i <= v THEN s[i - b.position] ELSE b.data[i]
    <2> SUFFICES ASSUME NEW i \in 1..w.size
                 PROVE  w.data[i] = IF i > b.position /\ i <= v
                                    THEN s[i - b.position] ELSE b.data[i]
      OBVIOUS
    <2>1. w.size \in Nat /\ w.size <= a.capacity /\ i \in Nat
      BY <1>0, <1>1, <1>3, <1>8, <1>11, <1>13
    <2>2. i \in 1..Len(a.data)
      BY <1>3, <2>1
    <2>3. w.data[i] = IF i > b.position /\ i <= v THEN s[i - b.position] ELSE a.data[i]
      BY <1>7, <1>8, <1>13, <2>2
    <2>4. CASE i <= b.size
      BY <1>0, <2>1, <2>4, <1>1, <2>3
    <2>5. CASE i > b.size
      BY <1>0, <1>1, <1>8, <1>13, <2>1, <2>5, <2>3
    <2> QED
      BY <1>0, <2>1, <2>4, <2>5
  <1> QED
    BY <1>1, <1>8, <1>12, <1>13, <1>14

-----------------------------------------------------------------------------
(* The array in use.                                                       *)

(* The array is whole, no operation leaves the bounds of the model, and what
   the last one gave is bytes. *)
Inv ==
    /\ Sound(array)
    /\ array.size <= Most
    /\ ops \in 0..MaxOps
    /\ last.how \in {"ok", "throws", "faults"}

LEMMA FrontIs ==
    ASSUME NEW S, NEW s \in Seq(S), NEW m \in Nat, m <= Len(s)
    PROVE  /\ SubSeq(s, 1, m) \in Seq(S) /\ Len(SubSeq(s, 1, m)) = m
           /\ \A i \in 1..m : SubSeq(s, 1, m)[i] = s[1 + i - 1]
  BY ElementOfSeq, LenProperties, SubSeqProperties

LEMMA StringsAre ==
    ASSUME NEW s \in Strings
    PROVE  s \in Seq(Cell) /\ Len(s) \in Nat
  <1>0. Radix \in Nat
    BY RadixAssumption
  <1>1. s \in Seq(0..(Radix - 1)) /\ Radix \in Nat
    BY <1>0, BufferAssumption
  <1>2. 0..(Radix - 1) \subseteq Cell
    BY <1>1 DEF Cell
  <1> QED
    BY <1>1, <1>2, LenProperties, ElementOfSeq, SeqDef

LEMMA InvInit == BufferInit => Inv
  <1> SUFFICES ASSUME BufferInit PROVE Inv
    OBVIOUS
  <1>1. Sound(array)
    BY NewArrayIs DEF BufferInit
  <1>2. array.size = 0 /\ last.how = "ok" /\ ops = 0
    BY DEF BufferInit, NewArray, Done
  <1> QED
    BY <1>1, <1>2, BufferAssumption DEF Inv

(* A step as its user sees it, the invariant and the bounds of the model
   given. *)
LEMMA Steps ==
    ASSUME Inv, BufferNext
    PROVE  Inv' /\ Flatly!Next
  <1>1. /\ Sound(array) /\ array.size <= Most /\ ops \in 0..MaxOps
        /\ array.position \in Nat /\ array.size \in Nat /\ array.capacity \in Nat
        /\ array.position <= array.size /\ array.size <= array.capacity
        /\ Most \in Nat /\ MaxOps \in Nat
    BY BufferAssumption DEF Inv, Sound, ArrayType
  <1>2. Bytes(array) \in Seq(Cell) /\ Len(Bytes(array)) = array.size
        /\ \A i \in 1..array.size : Bytes(array)[i] = array.data[i]
    BY <1>1, BytesAre
  <1>3. ASSUME Step PROVE ops' \in 0..MaxOps
    BY <1>1, <1>3 DEF Step
  (* Bytes that are put. *)
  <1>4. ASSUME NEW s \in Strings, Step, last' = Done,
               LET w == array' IN
               /\ Sound(w)
               /\ w.position = array.position + Len(s)
               /\ w.size = IF array.position + Len(s) > array.size
                           THEN array.position + Len(s) ELSE array.size
               /\ \A i \in 1..w.size : w.data[i] =
                     IF i > array.position /\ i <= array.position + Len(s)
                     THEN s[i - array.position] ELSE array.data[i],
               array.position + Len(s) <= Most
        PROVE  Inv' /\ Flatly!Next
    <2>1. Len(s) \in Nat
      BY StringsAre
    <2>2. /\ Bytes(array') \in Seq(Cell) /\ Len(Bytes(array')) = array'.size
          /\ \A i \in 1..array'.size : Bytes(array')[i] = array'.data[i]
      BY <1>4, BytesAre
    <2>3. array'.size <= Most /\ array'.size \in Nat
      BY <1>1, <1>4, <2>1
    <2>4. Inv'
      BY <1>3, <1>4, <2>3 DEF Inv, Done
    <2>5. DOMAIN Bytes(array') = 1..array'.size
      BY <2>2, LenProperties
    <2>6. ASSUME NEW i \in 1..array'.size
          PROVE  Bytes(array')[i] = IF i > array.position /\ i <= array.position + Len(s)
                                    THEN s[i - array.position] ELSE Bytes(array)[i]
      <3>1. CASE i > array.position /\ i <= array.position + Len(s)
        BY <1>4, <2>2, <3>1
      <3>2. CASE ~ (i > array.position /\ i <= array.position + Len(s))
        BY <1>1, <1>4, <2>1, <2>3, <3>2, <1>2, <2>2
      <3> QED
        BY <3>1, <3>2
    <2>7. Flatly!Put(s)
      BY <1>2, <1>4, <2>2, <2>5, <2>6 DEF Flatly!Put, Flatly!Ok, Done, Bytes
    <2> QED
      BY <2>4, <2>7 DEF Flatly!Next
  (* The position moves to v. *)
  <1>5. ASSUME NEW v \in 0..Most, Step, v <= array.capacity, array' = To(array, v),
               last'.how = "ok"
        PROVE  /\ Inv' /\ array'.position = v
               /\ array'.size = IF v > array.size THEN v ELSE array.size
               /\ Len(Bytes(array')) = array'.size
               /\ SubSeq(Bytes(array'), 1, array.size) = Bytes(array)
               /\ v <= array.size => Bytes(array') = Bytes(array)
    <2>1. /\ Sound(array') /\ array'.position = v /\ array'.data = array.data
          /\ array'.size = (IF v > array.size THEN v ELSE array.size)
      BY <1>1, <1>5, ToIs
    <2>2. Inv'
      BY <1>1, <1>3, <1>5, <2>1 DEF Inv
    <2>3. /\ Bytes(array') \in Seq(Cell) /\ Len(Bytes(array')) = array'.size
          /\ \A i \in 1..array'.size : Bytes(array')[i] = array'.data[i]
      BY <2>1, BytesAre
    <2>4. SubSeq(Bytes(array'), 1, array.size) = Bytes(array)
      <3> DEFINE z == 0
      <3>0. z = 0
        OBVIOUS
      <3> HIDE DEF z
      <3>1. z \in Nat /\ z + array.size <= array'.size /\ z + 1 = 1 /\ z + array.size = array.size
        BY <1>1, <2>1, <3>0
      <3>2. SubSeq(array'.data, z + 1, z + array.size) = SubSeq(Bytes(array'), z + 1, z + array.size)
        BY <1>1, <2>1, <3>1, SliceOfBytes
      <3> QED
        BY <2>1, <3>1, <3>2 DEF Bytes
    <2>5. v <= array.size => Bytes(array') = Bytes(array)
      BY <1>1, <2>1 DEF Bytes
    <2> QED
      BY <2>1, <2>2, <2>3, <2>4, <2>5
  (* Nothing is done. *)
  <1>6. ASSUME Step, array' = array, last' = [how |-> "throws", out |-> <<>>]
        PROVE  Inv' /\ Flatly!Next
    BY <1>1, <1>3, <1>6 DEF Inv, Flatly!Refuse, Flatly!Next
  <1>7. ASSUME NEW s \in Strings, Write(s) PROVE Inv' /\ Flatly!Next
    BY <1>7, StringsAre, <1>1, <1>4, WriteIs DEF Write
  <1>8. ASSUME NEW n \in 0..Most, Read(n) PROVE Inv' /\ Flatly!Next
    <2>1. array' = read(array, n).ba /\ last' = Answer(read(array, n)) /\ Step
      BY <1>8 DEF Read
    <2>2. n \in Nat
      BY <1>1
    <2>3. CASE n > array.size - array.position
      BY <1>1, <2>2, <2>3, ReadIs, <1>6, <2>1 DEF Throws, Answer
    <2>4. CASE n <= array.size - array.position /\ array.position = array.capacity
      <3>1. read(array, n) = Faults(array) /\ n = 0
        BY <1>1, <2>2, <2>4, ReadIs
      <3>2. array' = array /\ last' = [how |-> "faults", out |-> <<>>]
        BY <2>1, <3>1 DEF Faults, Answer
      <3>3. Inv'
        BY <1>1, <1>3, <2>1, <3>2 DEF Inv
      <3>4. array.position = Len(Bytes(array))
        BY <1>1, <1>2, <2>4
      <3>5. Flatly!Fault
        BY <3>2, <3>4 DEF Flatly!Fault, Bytes
      <3> QED
        BY <3>3, <3>5 DEF Flatly!Next
    <2>5. CASE n <= array.size - array.position /\ array.position < array.capacity
      <3> DEFINE v == array.position + n
      <3>1. read(array, n) = [how |-> "ok", ba |-> To(array, v),
                              out |-> SubSeq(array.data, array.position + 1, v)]
        BY <1>1, <2>2, <2>5, ReadIs
      <3>2. v \in 0..Most /\ v <= array.capacity /\ v <= array.size
        BY <1>1, <2>2, <2>5
      <3>3. array' = To(array, v)
            /\ last' = [how |-> "ok", out |-> SubSeq(array.data, array.position + 1, v)]
        BY <2>1, <3>1 DEF Answer
      <3>4. SubSeq(array.data, array.position + 1, v) = SubSeq(Bytes(array), array.position + 1, v)
        <4>1. /\ Sound(array) /\ array.position \in Nat /\ n \in Nat
              /\ array.position + n <= array.size
          BY <1>1, <2>2, <2>5
        <4> QED
          BY <4>1, SliceOfBytes
      <3> HIDE DEF v
      <3>5. Inv' /\ array'.position = v /\ Bytes(array') = Bytes(array)
        BY <1>5, <2>1, <3>2, <3>3
      <3>6. Flatly!Get(n)
        BY <1>2, <3>2, <3>5, <3>3, <3>4 DEF v, Flatly!Get, Flatly!Ok, Bytes
      <3> QED
        BY <3>5, <3>6 DEF Flatly!Next
    <2> QED
      BY <1>1, <2>2, <2>3, <2>4, <2>5
  <1>9. ASSUME NEW v \in Nat, v <= Most \/ v = array.capacity + 1, SetPosition(v)
        PROVE  Inv' /\ Flatly!Next
    <2>1. Step /\ array' = setPosition(array, v).ba /\ last' = Answer(setPosition(array, v))
      BY <1>9 DEF SetPosition
    <2>2. CASE v > array.capacity
      BY <1>1, <2>2, SetPositionIs, <1>6, <2>1 DEF Throws, Answer
    <2>3. CASE v <= array.capacity
      <3>1. setPosition(array, v) = [how |-> "ok", out |-> <<>>, ba |-> To(array, v)]
        BY <1>1, <2>3, SetPositionIs
      <3>2. array' = To(array, v) /\ last' = [how |-> "ok", out |-> <<>>]
        BY <2>1, <3>1 DEF Answer
      <3>3. v \in 0..Most
        BY <1>1, <1>9, <2>3
      <3>4. /\ Inv' /\ array'.position = v
            /\ array'.size = (IF v > array.size THEN v ELSE array.size)
            /\ Len(Bytes(array')) = array'.size
            /\ SubSeq(Bytes(array'), 1, array.size) = Bytes(array)
        BY <1>5, <2>1, <2>3, <3>2, <3>3
      <3>5. Flatly!Move(v)
        BY <1>2, <3>2, <3>4 DEF Flatly!Move, Flatly!Ok, Bytes
      <3> QED
        BY <3>3, <3>4, <3>5 DEF Flatly!Next
    <2> QED
      BY <1>1, <2>2, <2>3
  <1>10. ASSUME ToString PROVE Inv' /\ Flatly!Next
    <2> DEFINE n == array.size - array.position
    <2>1. Step /\ array' = array /\ last' = Answer(toString(array))
      BY <1>10 DEF ToString
    <2>2. toString(array) = [how |-> "ok", ba |-> array,
                             out |-> SubSeq(array.data, array.position + 1, array.size)]
      BY <1>1, ToStringIs
    <2>3. n \in 0..Most /\ n \in Nat /\ array.position + n = array.size
      BY <1>1
    <2> HIDE DEF n
    <2>4. SubSeq(array.data, array.position + 1, array.position + n)
            = SubSeq(Bytes(array), array.position + 1, array.position + n)
      <3>1. /\ Sound(array) /\ array.position \in Nat /\ n \in Nat
            /\ array.position + n <= array.size
        BY <1>1, <2>3
      <3> QED
        BY <3>1, SliceOfBytes
    <2>5. last' = [how |-> "ok",
                   out |-> SubSeq(Bytes(array), array.position + 1, array.position + n)]
      <3>1. last' = [how |-> "ok", out |-> SubSeq(array.data, array.position + 1, array.size)]
        BY <2>1, <2>2 DEF Answer
      <3> QED
        BY <2>3, <2>4, <3>1
    <2>6. Inv'
      BY <1>1, <1>3, <2>1, <2>5 DEF Inv
    <2>7. array.position + n <= Len(Bytes(array))
      BY <1>1, <1>2, <2>3
    <2>8. Flatly!Look(n)
      BY <2>1, <2>5, <2>7 DEF Flatly!Look, Flatly!Ok, Bytes
    <2> QED
      BY <2>3, <2>6, <2>8 DEF Flatly!Next
  <1>11. ASSUME Clear PROVE Inv' /\ Flatly!Next
    <2>1. Step /\ array' = clear(array) /\ last' = Done
      BY <1>11 DEF Clear
    <2>2. Sound(array') /\ array'.position = 0 /\ array'.size = 0
      BY <1>1, <2>1, ClearIs
    <2>3. Inv'
      BY <1>1, <1>3, <2>1, <2>2 DEF Inv, Done
    <2>4. Bytes(array') = <<>>
      BY <2>2, BytesAre, EmptySeq
    <2>5. Flatly!Wipe
      BY <2>1, <2>2, <2>4 DEF Flatly!Wipe, Flatly!Ok, Done, Bytes
    <2> QED
      BY <2>3, <2>5 DEF Flatly!Next
  <1>12. ASSUME NEW n \in 1..Most, NEW s \in Strings, Receive(n, s)
         PROVE  Inv' /\ Flatly!Next
    <2>1. /\ Step /\ Len(s) \in 1..n /\ array.position + n <= Most
          /\ array' = Received(array, n, s) /\ last' = Done
      BY <1>12 DEF Receive
    <2>2. s \in Seq(Cell) /\ n \in Nat \ {0} /\ array.position + Len(s) <= Most
      BY <1>1, <2>1, StringsAre
    <2> DEFINE w == Received(array, n, s)
    <2>3. /\ Sound(w)
          /\ w.position = array.position + Len(s)
          /\ w.size = IF array.position + Len(s) > array.size
                      THEN array.position + Len(s) ELSE array.size
          /\ \A i \in 1..w.size : w.data[i] =
                IF i > array.position /\ i <= array.position + Len(s)
                THEN s[i - array.position] ELSE array.data[i]
      BY <1>1, <2>1, <2>2, ReceivedIs
    <2> HIDE DEF w
    <2>4. array' = w
      BY <2>1 DEF w
    <2> QED
      BY <1>4, <2>1, <2>2, <2>3, <2>4
  <1>13. ASSUME NEW n \in 1..Most, NEW m \in 1..Most, Send(n, m)
         PROVE  Inv' /\ Flatly!Next
    <2> DEFINE k == AtMost(n, array.size - array.position)
               sent == SubSeq(array.data, array.position + 1, array.position + k)
               v == array.position + m
    <2>1. n \in Nat /\ m \in Nat /\ k \in Nat /\ k <= array.size - array.position
      BY <1>1 DEF AtMost
    <2>2. Gather(array.data, getReadBuffers(array, n)) = sent
      BY <1>1, <2>1, ReadBuffersAre
    <2>3. sent = SubSeq(Bytes(array), array.position + 1, array.position + k)
          /\ Len(sent) = k /\ sent \in Seq(Cell)
               /\ \A i \in 1..k : sent[i] = array.data[array.position + i]
      <3> HIDE DEF k
      <3>1. array.position + k <= array.size
        BY <1>1, <2>1
      <3>2. Sound(array) /\ array.position \in Nat
        BY <1>1
      <3> HIDE DEF sent
      <3>3. /\ SubSeq(array.data, array.position + 1, array.position + k)
                = SubSeq(Bytes(array), array.position + 1, array.position + k)
            /\ SubSeq(array.data, array.position + 1, array.position + k) \in Seq(Cell)
            /\ Len(SubSeq(array.data, array.position + 1, array.position + k)) = k
            /\ \A i \in 1..k : SubSeq(array.data, array.position + 1, array.position + k)[i]
                                 = array.data[array.position + i]
        BY <2>1, <3>1, <3>2, SliceIs
      <3> QED
        BY <3>3 DEF sent
    <2>4. /\ Step /\ m \in 1..Len(sent) /\ array' = setPosition(array, v).ba
          /\ last' = [how |-> "ok", out |-> SubSeq(sent, 1, m)]
      BY <1>13, <2>2 DEF Send
    <2> HIDE DEF k, sent
    <2>5. m <= k /\ v \in 0..Most /\ v <= array.size /\ v <= array.capacity
      <3>1. m <= k
        BY <2>1, <2>3, <2>4
      <3> QED
        BY <1>1, <2>1, <3>1
    <2>6. SubSeq(sent, 1, m) = SubSeq(Bytes(array), array.position + 1, array.position + m)
      <3> DEFINE u == SubSeq(Bytes(array), array.position + 1, array.position + m)
                 t == SubSeq(sent, 1, m)
      <3>1. /\ SubSeq(array.data, array.position + 1, array.position + m) = u
            /\ SubSeq(array.data, array.position + 1, array.position + m) \in Seq(Cell)
            /\ Len(SubSeq(array.data, array.position + 1, array.position + m)) = m
            /\ \A i \in 1..m : SubSeq(array.data, array.position + 1, array.position + m)[i]
                                 = array.data[array.position + i]
        <4>1. array.position + m <= array.size
          BY <2>5
        <4>2. Sound(array) /\ array.position \in Nat
          BY <1>1
        <4> HIDE DEF v
        <4> QED
          BY <2>1, <4>1, <4>2, SliceIs
      <3>2. t \in Seq(Cell) /\ Len(t) = m /\ \A i \in 1..m : t[i] = sent[1 + i - 1]
        <4> HIDE DEF v, t
        <4>1. m \in Nat /\ m <= Len(sent) /\ sent \in Seq(Cell)
          BY <2>1, <2>3, <2>4
        <4> QED
          BY <4>1, FrontIs DEF t
      <3>3. \A i \in 1..m : t[i] = u[i]
        <4> HIDE DEF u, t, sent, v
        <4> SUFFICES ASSUME NEW i \in 1..m PROVE t[i] = u[i]
          OBVIOUS
        <4>1. i \in 1..k /\ 1 + i - 1 = i
          BY <2>1, <2>5
        <4> QED
          BY <2>3, <3>1, <3>2, <4>1
      <3> HIDE DEF u, t
      <3> QED
        BY <3>1, <3>2, <3>3, SeqEqual DEF u, t
    <2>7. array' = To(array, v)
      <3> HIDE DEF v, sent
      <3>1. v \in Nat
        BY <1>1, <2>5
      <3> QED
        BY <1>1, <2>4, <2>5, <3>1, SetPositionIs
    <2> HIDE DEF v, sent
    <2>8. Inv' /\ array'.position = v /\ Bytes(array') = Bytes(array)
      BY <1>5, <2>4, <2>5, <2>7
    <2>9. Flatly!Get(m)
      BY <1>2, <2>5, <2>8, <2>4, <2>6 DEF v, Flatly!Get, Flatly!Ok, Bytes
    <2>10. m \in 0..Most
      BY <1>1
    <2> QED
      BY <2>8, <2>9, <2>10 DEF Flatly!Next
  <1>14. array.capacity + 1 \in Nat /\ \A n \in 0..Most : n \in Nat /\ n <= Most
    BY <1>1
  <1> QED
    BY <1>7, <1>8, <1>9, <1>10, <1>11, <1>12, <1>13, <1>14 DEF BufferNext

LEMMA InvNext == Inv /\ [BufferNext]_bufferVars => Inv' /\ [Flatly!Next]_(Flatly!vars)
  <1> SUFFICES ASSUME Inv, [BufferNext]_bufferVars PROVE Inv' /\ [Flatly!Next]_(Flatly!vars)
    OBVIOUS
  <1>1. CASE BufferNext
    BY <1>1, Steps
  <1>2. CASE UNCHANGED bufferVars
    BY <1>2 DEF bufferVars, Inv, Flatly!vars
  <1> QED
    BY <1>1, <1>2

LEMMA Invariance == BufferSpec => []Inv
  <1>1. Inv /\ [BufferNext]_bufferVars => Inv'
    BY InvNext
  <1> QED
    BY InvInit, <1>1, PTL DEF BufferSpec

(* The array has its type. *)
THEOREM TypeCorrect == BufferSpec => []BufferType
  <1>1. Inv => BufferType
    BY DEF Inv, Sound, ArrayType, BufferType
  <1> QED
    BY Invariance, <1>1, PTL

(* The current node is that of the position after every operation, for nodes of
   every size: no write, read, jump or receipt moves one without the other. *)
THEOREM CursorKeepsUp == BufferSpec => []CursorAtPosition
  <1>1. Inv => CursorAtPosition
    BY DEF Inv, Sound, ArrayType, NodeOf, CursorAtPosition
  <1> QED
    BY Invariance, <1>1, PTL

(* The chain of nodes is for its users a file of bytes with a position: no
   operation of the array, and none of a stream on its read and write buffers,
   loses, moves or invents a byte where a node ends. *)
THEOREM ImplementsBuffer == BufferSpec => ActsAsBuffer
  <1>1. BufferInit => Flatly!Init
    <2> SUFFICES ASSUME BufferInit PROVE Flatly!Init
      OBVIOUS
    <2>1. Sound(array) /\ array.size = 0 /\ array.position = 0 /\ last = Done
      BY NewArrayIs DEF BufferInit, NewArray
    <2>2. SubSeq(array.data, 1, array.size) = <<>>
      BY <2>1, BytesAre, EmptySeq DEF Bytes
    <2> QED
      BY <2>1, <2>2 DEF Flatly!Init, Flatly!Ok, Done
  <1>2. Inv /\ [BufferNext]_bufferVars => [Flatly!Next]_(Flatly!vars)
    BY InvNext
  <1> QED
    BY Invariance, <1>1, <1>2, PTL DEF BufferSpec, ActsAsBuffer, Flatly!Spec

-----------------------------------------------------------------------------
(* Recursion over an index, in a form that the provers can use.            *)

(* A function on 0..n given by its first value and its step. *)
Follows(f, n, x, step) ==
    /\ f = [i \in 0..n |-> f[i]]
    /\ f[0] = x
    /\ \A i \in 1..n : f[i] = step[i][f[i - 1]]

LEMMA Recursion ==
    ASSUME NEW n \in Nat, NEW x, NEW step
    PROVE  \E f : Follows(f, n, x, step)
  <1> DEFINE T == {m \in 0..n : \E f : Follows(f, m, x, step)}
  <1>1. 0 \in T
    <2>1. Follows([i \in 0..0 |-> x], 0, x, step)
      BY DEF Follows
    <2>2. 0 \in 0..n
      OBVIOUS
    <2> QED
      BY <2>1, <2>2
  <1>2. ASSUME NEW m \in 0..(n - 1), m \in T PROVE m + 1 \in T
    <2>1. PICK f : Follows(f, m, x, step)
      BY <1>2
    <2> DEFINE y == step[m + 1][f[m]]
               g == [i \in 0..(m + 1) |-> IF i = m + 1 THEN y ELSE f[i]]
    <2>2. m \in Nat /\ m + 1 \in 1..n
      OBVIOUS
    <2> HIDE DEF y
    <2>3. /\ \A i \in 0..m : g[i] = f[i]
          /\ g[m + 1] = y
      BY <2>2
    <2>4. g[0] = x
      BY <2>1, <2>2, <2>3 DEF Follows
    <2>5. g = [i \in 0..(m + 1) |-> g[i]]
      OBVIOUS
    <2> HIDE DEF g
    <2>6. ASSUME NEW i \in 1..(m + 1) PROVE g[i] = step[i][g[i - 1]]
      <3>1. i - 1 \in 0..m /\ g[i - 1] = f[i - 1]
        BY <2>2, <2>3
      <3>2. CASE i = m + 1
        BY <2>2, <3>2, <2>3, <3>1 DEF y
      <3>3. CASE i # m + 1
        <4>1. i \in 1..m /\ i \in 0..m
          BY <2>2, <3>3
        <4> QED
          BY <2>1, <2>3, <3>1, <4>1 DEF Follows
      <3> QED
        BY <3>2, <3>3
    <2>7. Follows(g, m + 1, x, step)
      BY <2>4, <2>5, <2>6 DEF Follows
    <2>8. m + 1 \in 0..n
      BY <2>2
    <2> QED
      BY <2>7, <2>8
  <1> HIDE DEF T
  <1>3. \A i \in 0..n : i \in T
    BY <1>1, <1>2, UpTo
  <1> QED
    BY <1>3 DEF T

LEMMA SameStart ==
    ASSUME NEW n \in Nat, NEW m \in Nat, n <= m, NEW x, NEW f, NEW g, NEW s, NEW t,
           Follows(f, n, x, s), Follows(g, m, x, t), \A i \in 1..n : s[i] = t[i]
    PROVE  \A i \in 0..n : f[i] = g[i]
  <1> DEFINE T == {i \in 0..n : f[i] = g[i]}
  <1>1. 0 \in T
    BY DEF Follows
  <1>2. ASSUME NEW i \in 0..(n - 1), i \in T PROVE i + 1 \in T
    <2>1. i + 1 \in 1..n /\ i + 1 \in 1..m /\ (i + 1) - 1 = i /\ i + 1 \in 0..n
      OBVIOUS
    <2>2. f[i + 1] = s[i + 1][f[i]] /\ g[i + 1] = t[i + 1][g[i]]
      BY <2>1 DEF Follows
    <2> QED
      BY <1>2, <2>1, <2>2
  <1> HIDE DEF T
  <1>3. \A i \in 0..n : i \in T
    BY <1>1, <1>2, UpTo
  <1> QED
    BY <1>3 DEF T

(* Its values are in a set that holds the first one and is closed. *)
LEMMA StaysIn ==
    ASSUME NEW n \in Nat, NEW f, NEW x, NEW step, Follows(f, n, x, step),
           NEW S, x \in S, \A i \in 1..n : \A y \in S : step[i][y] \in S
    PROVE  f \in [0..n -> S]
  <1> DEFINE T == {i \in 0..n : f[i] \in S}
  <1>1. 0 \in T
    BY DEF Follows
  <1>2. ASSUME NEW i \in 0..(n - 1), i \in T PROVE i + 1 \in T
    <2>1. i + 1 \in 1..n /\ (i + 1) - 1 = i /\ i + 1 \in 0..n
      OBVIOUS
    <2>2. f[i + 1] = step[i + 1][f[i]]
      BY <2>1 DEF Follows
    <2> QED
      BY <1>2, <2>1, <2>2
  <1> HIDE DEF T
  <1>3. \A i \in 0..n : i \in T
    BY <1>1, <1>2, UpTo
  <1> DEFINE h == [i \in 0..n |-> f[i]]
  <1>4. h \in [0..n -> S]
    BY <1>3 DEF T
  <1> QED
    BY <1>4 DEF Follows

(* The steps of Power(b, k). *)
Times(b, k) == [i \in 1..k |-> [x \in Nat |-> b * x]]

LEMMA PowerIs ==
    ASSUME NEW b \in Nat, NEW k \in Nat
    PROVE  \E f : Follows(f, k, 1, Times(b, k)) /\ Power(b, k) = f[k] /\ f \in [0..k -> Nat]
  <1> DEFINE is(f) == f = [i \in 0..k |-> IF i = 0 THEN 1 ELSE b * f[i - 1]]
             p == CHOOSE f : is(f)
  <1>1. \A i \in 1..k : \A y \in Nat : Times(b, k)[i][y] = b * y /\ Times(b, k)[i][y] \in Nat
    BY DEF Times
  <1>2. PICK f : Follows(f, k, 1, Times(b, k))
    BY Recursion
  <1>3. f \in [0..k -> Nat]
    <2> DEFINE S == Nat
    <2>1. 1 \in S /\ \A i \in 1..k : \A y \in S : Times(b, k)[i][y] \in S
      BY <1>1
    <2> HIDE DEF S
    <2>2. f \in [0..k -> S]
      BY <1>2, <2>1, StaysIn
    <2> QED
      BY <2>2 DEF S
  <1>4. \A i \in 1..k : f[i] = b * f[i - 1]
    <2> SUFFICES ASSUME NEW i \in 1..k PROVE f[i] = b * f[i - 1]
      OBVIOUS
    <2>1. i - 1 \in 0..k
      OBVIOUS
    <2> QED
      BY <1>1, <1>2, <1>3, <2>1 DEF Follows
  <1>5. is(f)
    <2> DEFINE g == [i \in 0..k |-> IF i = 0 THEN 1 ELSE b * f[i - 1]]
               h == [i \in 0..k |-> f[i]]
    <2>1. \A i \in 0..k : h[i] = g[i]
      <3> SUFFICES ASSUME NEW i \in 0..k PROVE h[i] = g[i]
        OBVIOUS
      <3>1. i = 0 \/ i \in 1..k
        OBVIOUS
      <3>2. f[0] = 1
        BY <1>2 DEF Follows
      <3> QED
        BY <1>4, <3>1, <3>2
    <2>2. h = g
      BY <2>1
    <2> QED
      BY <1>2, <2>2 DEF Follows
  <1>6. ASSUME NEW g, is(g) PROVE g = f
    <2> DEFINE T == {i \in 0..k : g[i] = f[i]}
    <2>1. 0 \in T
      BY <1>2, <1>6 DEF Follows
    <2>2. ASSUME NEW i \in 0..(k - 1), i \in T PROVE i + 1 \in T
      BY <1>4, <1>6, <2>2
    <2>3. \A i \in 0..k : i \in T
      <3> HIDE DEF T, is
      <3> QED
        BY <2>1, <2>2, UpTo
    <2>4. g = [i \in 0..k |-> g[i]]
      BY <1>6
    <2>5. f = [i \in 0..k |-> f[i]]
      BY <1>2 DEF Follows
    <2> HIDE DEF is
    <2> QED
      BY <2>3, <2>4, <2>5
  <1>7. p = f
    <2> HIDE DEF is
    <2>1. is(p)
      BY <1>5
    <2> QED
      BY <1>6, <2>1
  <1>8. Power(b, k) = p[k]
    BY DEF Power
  <1> QED
    BY <1>2, <1>3, <1>7, <1>8

LEMMA PowerNext ==
    ASSUME NEW b \in Nat
    PROVE  /\ Power(b, 0) = 1
           /\ \A k \in Nat : Power(b, k) \in Nat /\ Power(b, k + 1) = b * Power(b, k)
  <1>1. Power(b, 0) = 1
    <2> DEFINE z == 0
    <2>1. z \in Nat /\ z = 0
      OBVIOUS
    <2> HIDE DEF z
    <2>2. PICK f : Follows(f, z, 1, Times(b, z)) /\ Power(b, z) = f[z]
      BY <2>1, PowerIs
    <2> QED
      BY <2>1, <2>2 DEF Follows
  <1>2. ASSUME NEW k \in Nat PROVE Power(b, k) \in Nat /\ Power(b, k + 1) = b * Power(b, k)
    <2>1. PICK f : Follows(f, k, 1, Times(b, k)) /\ Power(b, k) = f[k] /\ f \in [0..k -> Nat]
      BY PowerIs
    <2>2. k + 1 \in Nat /\ k <= k + 1 /\ k \in 0..k /\ k + 1 \in 1..(k + 1) /\ (k + 1) - 1 = k
      OBVIOUS
    <2>3. PICK g : /\ Follows(g, k + 1, 1, Times(b, k + 1)) /\ Power(b, k + 1) = g[k + 1]
                   /\ g \in [0..(k + 1) -> Nat]
      BY <2>2, PowerIs
    <2>4. \A i \in 1..k : Times(b, k)[i] = Times(b, k + 1)[i]
      BY DEF Times
    <2>5. f[k] = g[k]
      <3> DEFINE m == k + 1
                 x == 1
                 s == Times(b, k)
                 t == Times(b, m)
      <3>0. m \in Nat /\ k <= m /\ Follows(f, k, x, s) /\ Follows(g, m, x, t)
            /\ \A i \in 1..k : s[i] = t[i]
        BY <2>1, <2>2, <2>3, <2>4
      <3> HIDE DEF m, x, s, t
      <3>1. \A i \in 0..k : f[i] = g[i]
        BY <3>0, SameStart
      <3> QED
        BY <2>2, <3>1
    <2>6. f[k] \in Nat
      BY <2>1, <2>2
    <2>7. g[k + 1] = Times(b, k + 1)[k + 1][g[k]]
      BY <2>2, <2>3 DEF Follows
    <2>8. Times(b, k + 1)[k + 1][g[k]] = b * g[k]
      BY <2>2, <2>5, <2>6 DEF Times
    <2> QED
      BY <2>1, <2>3, <2>5, <2>6, <2>7, <2>8
  <1> QED
    BY <1>1, <1>2

LEMMA Remainder ==
    ASSUME NEW b \in Nat \ {0}, NEW q \in Nat, NEW r \in Nat, r < b
    PROVE  (b * q + r) % b = r /\ (b * q + r) \div b = q
  OBVIOUS

LEMMA Digit ==
    ASSUME NEW v \in Nat, NEW p \in Nat \ {0}, NEW R \in Nat \ {0}
    PROVE  v % (R * p) = (v % p) + ((v \div p) % R) * p
  <1> DEFINE q == v \div p
             r == v % p
             u == q \div R
             d == q % R
             w == p * d + r
  <1>1. v = p * q + r /\ r \in 0..(p - 1) /\ q \in Nat
    BY DivMod
  <1> HIDE DEF q, r
  <1>2. q = R * u + d /\ d \in 0..(R - 1) /\ u \in Nat
    BY <1>1, DivMod
  <1> HIDE DEF u, d
  <1>3. p * q = (R * p) * u + p * d
    BY <1>1, <1>2
  <1>4. p * d \in Nat /\ p * d <= p * (R - 1) /\ p * (R - 1) = R * p - p /\ R * p \in Nat \ {0}
    BY <1>2
  <1>5. w \in Nat /\ w < R * p
    BY <1>1, <1>4
  <1>6. v = (R * p) * u + w
    <2> DEFINE x == (R * p) * u
               y == p * d
               z == p * q
    <2>1. x \in Nat /\ y \in Nat /\ z \in Nat /\ z = x + y /\ v = z + r /\ r \in Nat
      BY <1>1, <1>2, <1>3, <1>4
    <2> HIDE DEF x, y, z
    <2>2. v = x + (y + r)
      BY <2>1
    <2> QED
      BY <2>2 DEF x, y
  <1> HIDE DEF w
  <1>7. v % (R * p) = w
    BY <1>2, <1>4, <1>5, <1>6, Remainder
  <1>8. p * d = d * p
    BY <1>2
  <1> QED
    BY <1>7, <1>8 DEF w, q, r, d

-----------------------------------------------------------------------------
(* Arrays that hold bytes from some position on, and reading from them.    *)

(* The bytes that are not Junk, and sequences of them. *)
Byte == 0..(Radix - 1)

(* A sound array that holds s, at position p. *)
Holds(b, s, p) ==
    /\ Sound(b) /\ ~b.little
    /\ Bytes(b) = s /\ b.size = Len(s)
    /\ b.position = p

(* A sound array of n bytes of which t is still to be read. *)
Has(b, n, t) ==
    /\ Sound(b) /\ ~b.little /\ b.size = n
    /\ SubSeq(Bytes(b), b.position + 1, b.size) = t

(* What is behind the first p elements, and the next k of it. *)
Ahead(z, p) == SubSeq(z, p + 1, Len(z))
Taken(z, p, k) == SubSeq(z, p + 1, p + k)

(* The k elements behind the first p. *)
LEMMA Stretch ==
    ASSUME NEW S, NEW z \in Seq(S), NEW p \in Nat, NEW k \in Nat, p + k <= Len(z)
    PROVE  /\ SubSeq(z, p + 1, p + k) \in Seq(S) /\ Len(SubSeq(z, p + 1, p + k)) = k
           /\ \A i \in 1..k : SubSeq(z, p + 1, p + k)[i] = z[p + i]
  <1> DEFINE a == p + 1
             b == p + k
             y == SubSeq(z, a, b)
  <1>1. Len(z) \in Nat
    BY LenProperties
  <1>2. \A i \in 1..Len(z) : z[i] \in S
    BY ElementOfSeq
  <1>3. a \in Int /\ b \in Int /\ \A i \in a..b : z[i] \in S
    BY <1>1, <1>2
  <1>4. (IF a <= b THEN b - a + 1 ELSE 0) = k /\ b - a + 1 = k
        /\ \A i \in 1..k : a + i - 1 = p + i
    BY <1>1
  <1> HIDE DEF a, b
  <1>5. /\ y \in Seq(S) /\ Len(y) = (IF a <= b THEN b - a + 1 ELSE 0)
        /\ \A i \in 1..(b - a + 1) : y[i] = z[a + i - 1]
    BY <1>3, SubSeqProperties
  <1> HIDE DEF y
  <1>6. y \in Seq(S) /\ Len(y) = k /\ \A i \in 1..k : y[i] = z[p + i]
    BY <1>4, <1>5
  <1> QED
    BY <1>6 DEF y, a, b

(* What is behind the first p begins with x. *)
Begins(S, z, p, x, t) ==
    /\ z \in Seq(S) /\ x \in Seq(S) /\ t \in Seq(S)
    /\ p \in Nat /\ p <= Len(z) /\ Ahead(z, p) = x \o t

LEMMA SplitAt ==
    ASSUME NEW S, NEW z, NEW p, NEW x, NEW t, Begins(S, z, p, x, t)
    PROVE  /\ Len(z) = (p + Len(x)) + Len(t)
           /\ Taken(z, p, Len(x)) = x
           /\ Ahead(z, p + Len(x)) = t
  <1>0. /\ z \in Seq(S) /\ x \in Seq(S) /\ t \in Seq(S)
        /\ p \in Nat /\ p <= Len(z) /\ Ahead(z, p) = x \o t
    BY DEF Begins
  <1> DEFINE n == Len(z)
             k == Len(x)
             m == Len(t)
             q == p + k
             u == SubSeq(z, p + 1, n)
  <1>1. n \in Nat /\ k \in Nat /\ m \in Nat /\ q \in Nat
    BY <1>0, LenProperties
  <1>2. Len(u) = n - p /\ \A i \in 1..(n - p) : u[i] = z[p + i]
    <2> DEFINE r == n - p
    <2>1. r \in Nat /\ p + r = n
      BY <1>0, <1>1
    <2> HIDE DEF r
    <2>2. Len(SubSeq(z, p + 1, p + r)) = r /\ \A i \in 1..r : SubSeq(z, p + 1, p + r)[i] = z[p + i]
      BY <1>0, <2>1, Stretch
    <2> QED
      BY <2>1, <2>2 DEF r
  <1>3. /\ Len(x \o t) = k + m
        /\ \A i \in 1..(k + m) : (x \o t)[i] = IF i <= k THEN x[i] ELSE t[i - k]
    BY <1>0, ConcatProperties
  <1>4. u = x \o t
    BY <1>0 DEF Ahead
  <1> HIDE DEF u
  <1>5. n = q + m /\ n - p = k + m
    BY <1>0, <1>1, <1>2, <1>3, <1>4
  <1>6. \A i \in 1..(k + m) : z[p + i] = IF i <= k THEN x[i] ELSE t[i - k]
    BY <1>2, <1>3, <1>4, <1>5
  <1>7. SubSeq(z, p + 1, p + k) = x
    <2> DEFINE y == SubSeq(z, p + 1, p + k)
    <2>1. y \in Seq(S) /\ Len(y) = k /\ \A i \in 1..k : y[i] = z[p + i]
      <3>1. p + k <= Len(z)
        BY <1>0, <1>1, <1>5
      <3> QED
        BY <1>0, <1>1, <3>1, Stretch
    <2> HIDE DEF y
    <2>2. \A i \in 1..Len(y) : y[i] = x[i]
      BY <1>1, <1>6, <2>1
    <2>3. y = x
      BY <2>1, <2>2, <1>0, SeqEqual
    <2> QED
      BY <2>3 DEF y
  <1>8. SubSeq(z, q + 1, q + m) = t
    <2> DEFINE y == SubSeq(z, q + 1, q + m)
    <2>1. y \in Seq(S) /\ Len(y) = m /\ \A i \in 1..m : y[i] = z[q + i]
      BY <1>0, <1>1, <1>5, Stretch
    <2> HIDE DEF y
    <2>2. ASSUME NEW i \in 1..m PROVE z[q + i] = t[i]
      <3>1. k + i \in 1..(k + m) /\ ~(k + i <= k) /\ (k + i) - k = i /\ p + (k + i) = q + i
        BY <1>0, <1>1
      <3> QED
        BY <1>6, <3>1
    <2>3. \A i \in 1..Len(y) : y[i] = t[i]
      BY <2>1, <2>2
    <2>4. y = t
      BY <2>1, <2>3, <1>0, SeqEqual
    <2> QED
      BY <2>4 DEF y
  <1> QED
    BY <1>5, <1>7, <1>8 DEF Ahead, Taken

LEMMA RadixIs == Radix \in Nat /\ Radix >= 2 /\ Byte \subseteq Cell /\ Byte \subseteq Nat
                 /\ Cell \subseteq Nat
  BY RadixAssumption DEF Byte, Cell

LEMMA HoldsType ==
    ASSUME NEW b, NEW s, NEW p, Holds(b, s, p)
    PROVE  /\ s \in Seq(Cell) /\ Len(s) \in Nat /\ p \in 0..Len(s)
           /\ Len(s) <= b.capacity /\ b.capacity \in Nat
  BY BytesAre DEF Holds, Sound, ArrayType

LEMMA HoldsNew == Holds(NewArray, <<>>, 0)
  <1>1. NewArray.size = 0 /\ NewArray.position = 0 /\ NewArray.little = FALSE
    BY DEF NewArray
  <1>2. Sound(NewArray)
    BY NewArrayIs
  <1>3. Bytes(NewArray) = SubSeq(NewArray.data, 1, 0)
    BY <1>1 DEF Bytes
  <1>4. Bytes(NewArray) = <<>>
    BY <1>3, SubSeqEmpty
  <1>5. Len(<<>>) = 0
    OBVIOUS
  <1> QED
    BY <1>1, <1>2, <1>4, <1>5 DEF Holds

(* Two arrays of one length with the same data hold the same. *)
LEMMA SameBytes ==
    ASSUME NEW b, Sound(b), NEW s \in Seq(Cell), b.size = Len(s),
           \A i \in 1..Len(s) : b.data[i] = s[i]
    PROVE  Bytes(b) = s
  BY BytesAre, SeqEqual

(* What is written at the end comes behind what was there. *)
LEMMA Behind ==
    ASSUME NEW b, NEW s, Holds(b, s, Len(s)), NEW t \in Seq(Cell), NEW w, Sound(w),
           w.little = b.little, w.position = b.position + Len(t),
           w.size = IF b.position + Len(t) > b.size THEN b.position + Len(t) ELSE b.size,
           \A i \in 1..w.size : w.data[i] =
               IF i > b.position /\ i <= b.position + Len(t) THEN t[i - b.position]
                                                             ELSE b.data[i]
    PROVE  Holds(w, s \o t, Len(s \o t))
  <1>1. s \in Seq(Cell) /\ Len(s) \in Nat /\ Len(t) \in Nat
    BY HoldsType, LenProperties
  <1>2. b.position = Len(s) /\ b.size = Len(s) /\ ~b.little /\ Sound(b) /\ Bytes(b) = s
    BY DEF Holds
  <1>3. /\ s \o t \in Seq(Cell) /\ Len(s \o t) = Len(s) + Len(t)
        /\ \A i \in 1..(Len(s) + Len(t)) :
              (s \o t)[i] = IF i <= Len(s) THEN s[i] ELSE t[i - Len(s)]
    BY <1>1, ConcatProperties
  <1>4. w.size = Len(s) + Len(t) /\ w.position = Len(s) + Len(t)
    BY <1>1, <1>2
  <1>5. \A i \in 1..Len(s) : b.data[i] = s[i]
    BY <1>2, BytesAre
  <1>6. ASSUME NEW i \in 1..Len(s \o t) PROVE w.data[i] = (s \o t)[i]
    <2>1. i \in 1..(Len(s) + Len(t)) /\ i \in 1..w.size
      BY <1>3, <1>4
    <2>2. w.data[i] = IF i > Len(s) /\ i <= Len(s) + Len(t) THEN t[i - Len(s)] ELSE b.data[i]
      BY <1>2, <2>1
    <2>3. (s \o t)[i] = IF i <= Len(s) THEN s[i] ELSE t[i - Len(s)]
      BY <1>3, <2>1
    <2>4. CASE i <= Len(s)
      BY <2>1, <2>4, <1>1, <1>5, <2>2, <2>3
    <2>5. CASE i > Len(s)
      BY <1>1, <2>1, <2>2, <2>3, <2>5
    <2> QED
      BY <1>1, <2>1, <2>4, <2>5
  <1>7. Bytes(w) = s \o t
    BY <1>3, <1>4, <1>6, SameBytes
  <1> QED
    BY <1>2, <1>3, <1>4, <1>7 DEF Holds

LEMMA HoldsWrite ==
    ASSUME NEW b, NEW s, Holds(b, s, Len(s)), NEW t \in Seq(Cell)
    PROVE  Holds(write(b, t), s \o t, Len(s \o t))
  <1> DEFINE w == write(b, t)
  <1>1. Sound(b)
    BY DEF Holds
  <1>2. /\ Sound(w) /\ w.little = b.little /\ w.position = b.position + Len(t)
        /\ w.size = IF b.position + Len(t) > b.size THEN b.position + Len(t) ELSE b.size
        /\ \A i \in 1..w.size : w.data[i] =
              IF i > b.position /\ i <= b.position + Len(t) THEN t[i - b.position]
                                                            ELSE b.data[i]
    BY <1>1, WriteIs
  <1> HIDE DEF w
  <1>3. Holds(w, s \o t, Len(s \o t))
    BY <1>2, Behind
  <1> QED
    BY <1>3 DEF w

LEMMA HoldsFilled ==
    ASSUME NEW b, NEW s, Holds(b, s, Len(s)), NEW n \in Nat \ {0},
           NEW t \in Seq(Cell), Len(t) \in 1..n
    PROVE  Holds(Filled(b, n, t), s \o t, Len(s \o t))
  <1> DEFINE w == Filled(b, n, t)
  <1>1. Sound(b)
    BY DEF Holds
  <1>2. w = Received(b, n, t)
    BY DEF Filled, Received
  <1>3. /\ Sound(w) /\ w.little = b.little /\ w.position = b.position + Len(t)
        /\ w.size = IF b.position + Len(t) > b.size THEN b.position + Len(t) ELSE b.size
        /\ \A i \in 1..w.size : w.data[i] =
              IF i > b.position /\ i <= b.position + Len(t) THEN t[i - b.position]
                                                            ELSE b.data[i]
    <2> HIDE DEF w
    <2> QED
      BY <1>1, <1>2, ReceivedIs
  <1> HIDE DEF w
  <1>4. Holds(w, s \o t, Len(s \o t))
    BY <1>3, Behind
  <1> QED
    BY <1>4 DEF w

LEMMA HoldsAt ==
    ASSUME NEW b, NEW s, NEW p, Holds(b, s, p), NEW v \in 0..Len(s)
    PROVE  Holds(setPosition(b, v).ba, s, v)
  <1> DEFINE w == To(b, v)
  <1>1. /\ Sound(b) /\ ~b.little /\ b.size = Len(s) /\ Bytes(b) = s
        /\ Len(s) \in Nat /\ v <= b.capacity /\ v \in Nat /\ v <= b.size
    BY HoldsType DEF Holds
  <1>2. setPosition(b, v).ba = w
    BY <1>1, SetPositionIs
  <1>3. /\ Sound(w) /\ w.position = v /\ w.little = b.little /\ w.size = b.size
        /\ w.data = b.data
    BY <1>1, ToIs
  <1> HIDE DEF w
  <1> QED
    BY <1>1, <1>2, <1>3 DEF Holds, Bytes

LEMMA HoldsGather ==
    ASSUME NEW b, NEW s, NEW p, Holds(b, s, p), NEW n \in Nat
    PROVE  Gather(b.data, getReadBuffers(b, n)) = SubSeq(s, p + 1, p + AtMost(n, Len(s) - p))
  <1> DEFINE m == AtMost(n, b.size - b.position)
  <1>1. /\ Sound(b) /\ b.size = Len(s) /\ Bytes(b) = s /\ b.position = p
        /\ Len(s) \in Nat /\ p \in 0..Len(s)
    BY HoldsType DEF Holds
  <1>2. Gather(b.data, getReadBuffers(b, n)) = SubSeq(b.data, b.position + 1, b.position + m)
    BY <1>1, ReadBuffersAre
  <1>3. m \in Nat /\ b.position + m <= b.size /\ b.position \in Nat
    BY <1>1 DEF AtMost
  <1>4. m = AtMost(n, Len(s) - p)
    BY <1>1
  <1> HIDE DEF m
  <1>5. SubSeq(b.data, b.position + 1, b.position + m)
          = SubSeq(Bytes(b), b.position + 1, b.position + m)
    BY <1>1, <1>3, SliceOfBytes
  <1> QED
    BY <1>1, <1>2, <1>4, <1>5

LEMMA HoldsHas ==
    ASSUME NEW b, NEW s, Holds(b, s, 0)
    PROVE  Has(b, Len(s), s)
  BY HoldsType, SubSeqFull DEF Holds, Has

(* The next bytes are read, and what is behind them is left. *)
LEMMA HasRead ==
    ASSUME NEW b, NEW n, NEW x \in Seq(Cell), NEW t \in Seq(Cell), Has(b, n, x \o t),
           NEW k \in Nat, k = Len(x), x # <<>>
    PROVE  /\ read(b, k).how = "ok" /\ read(b, k).out = x
           /\ Has(read(b, k).ba, n, t)
  <1> DEFINE p == b.position
             z == Bytes(b)
             w == To(b, p + k)
  <1>1. /\ Sound(b) /\ ~b.little /\ b.size = n /\ SubSeq(z, p + 1, n) = x \o t
        /\ p \in Nat /\ n \in Nat /\ p <= n /\ n <= b.capacity /\ b.capacity \in Nat
    BY DEF Has, Sound, ArrayType
  <1>2. z \in Seq(Cell) /\ Len(z) = n
    BY <1>1, BytesAre
  <1>3. k \in Nat \ {0} /\ Len(t) \in Nat
    BY EmptySeq, LenProperties
  <1>p. p = b.position
    OBVIOUS
  <1> HIDE DEF z, p
  <1>4. /\ n = (p + k) + Len(t) /\ SubSeq(z, p + 1, p + k) = x
        /\ SubSeq(z, (p + k) + 1, n) = t
    <2>1. Begins(Cell, z, p, x, t)
      BY <1>1, <1>2 DEF Ahead, Begins
    <2>2. Len(z) = (p + k) + Len(t) /\ Taken(z, p, k) = x /\ Ahead(z, p + k) = t
      BY <2>1, SplitAt
    <2> QED
      BY <1>2, <2>2 DEF Ahead, Taken
  <1>5. k <= n - p /\ p + k <= n /\ p < b.capacity /\ p + k \in Nat /\ p + k <= b.capacity
    BY <1>1, <1>3, <1>4
  <1>6. read(b, k) = [how |-> "ok", ba |-> w, out |-> SubSeq(b.data, p + 1, p + k)]
    BY <1>1, <1>5, ReadIs DEF p
  <1>7. SubSeq(b.data, p + 1, p + k) = x
    <2>1. p + k <= b.size
      BY <1>1, <1>5
    <2> QED
      BY <1>1, <1>4, <2>1, SliceOfBytes DEF z
  <1>8. /\ Sound(w) /\ w.position = p + k /\ w.little = b.little /\ w.size = n
        /\ Bytes(w) = z
    <2>1. /\ Sound(w) /\ w.position = p + k /\ w.little = b.little
          /\ w.size = (IF p + k > b.size THEN p + k ELSE b.size)
          /\ w.data = b.data
      BY <1>1, <1>5, ToIs
    <2> HIDE DEF w
    <2> QED
      BY <1>1, <1>5, <2>1 DEF Bytes, z
  <1> HIDE DEF w
  <1>9. Has(w, n, t)
    BY <1>1, <1>4, <1>8 DEF Has
  <1>10. read(b, k).how = "ok" /\ read(b, k).out = x /\ read(b, k).ba = w
    BY <1>6, <1>7
  <1> QED
    BY <1>9, <1>10

(* Nothing is read at the end, but not behind a node that ends there. *)
LEMMA HasEnd ==
    ASSUME NEW b, NEW n, Has(b, n, <<>>)
    PROVE  \/ /\ read(b, 0).how = "ok" /\ read(b, 0).out = <<>>
           \/ read(b, 0).how = "faults" /\ n % Base = 0
  <1> DEFINE p == b.position
             z == Bytes(b)
  <1>1. /\ Sound(b) /\ b.size = n /\ SubSeq(z, p + 1, n) = <<>>
        /\ p \in Nat /\ n \in Nat /\ p <= n /\ n <= b.capacity /\ b.capacity \in Nat
        /\ b.capacity \in Whole
    BY DEF Has, Sound, ArrayType
  <1>2. z \in Seq(Cell) /\ Len(z) = n
    BY <1>1, BytesAre
  <1> HIDE DEF z
  <1>3. p = n
    <2> DEFINE e == <<>>
    <2>1. e \in Seq(Cell) /\ e \o e = e /\ Len(e) = 0
      OBVIOUS
    <2>2. Begins(Cell, z, p, e, e)
      BY <1>1, <1>2, <2>1 DEF Ahead, Begins
    <2> HIDE DEF e
    <2>3. Len(z) = (p + Len(e)) + Len(e)
      BY <2>2, SplitAt
    <2> QED
      BY <1>1, <1>2, <2>1, <2>3
  <1>4. CASE p < b.capacity
    BY <1>1, <1>3, <1>4, ReadIs, SubSeqEmpty
  <1>5. CASE p = b.capacity
    <2>1. read(b, 0) = Faults(b)
      BY <1>1, <1>3, <1>5, ReadIs
    <2>2. PICK k \in Nat \ {0} : n = k * Base
      BY <1>1, <1>3, <1>5 DEF Whole
    <2>3. n % Base = 0
      BY <1>1, <2>2, Multiples
    <2> QED
      BY <2>1, <2>3 DEF Faults
  <1> QED
    BY <1>1, <1>4, <1>5

-----------------------------------------------------------------------------
(* Numbers of several bytes.                                               *)

LEMMA PowerAbove ==
    ASSUME NEW b \in Nat \ {0}
    PROVE  \A k \in Nat : Power(b, k) \in Nat \ {0} /\ Power(b, k + 1) = b * Power(b, k)
  <1> SUFFICES ASSUME NEW k \in Nat
               PROVE  Power(b, k) \in Nat \ {0} /\ Power(b, k + 1) = b * Power(b, k)
    OBVIOUS
  <1>0. /\ Power(b, 0) = 1
        /\ \A i \in Nat : Power(b, i) \in Nat /\ Power(b, i + 1) = b * Power(b, i)
    BY PowerNext
  <1> DEFINE T == {i \in 0..k : Power(b, i) > 0}
  <1>1. 0 \in T
    BY <1>0
  <1>2. ASSUME NEW i \in 0..(k - 1), i \in T PROVE i + 1 \in T
    <2>1. i \in Nat /\ i + 1 \in 0..k
      OBVIOUS
    <2> DEFINE p == Power(b, i)
    <2>2. p \in Nat /\ p > 0 /\ Power(b, i + 1) = b * p
      BY <1>0, <1>2, <2>1
    <2> HIDE DEF p
    <2>3. b * p > 0
      BY <2>2
    <2> QED
      BY <2>1, <2>2, <2>3
  <1> HIDE DEF T
  <1>3. \A i \in 0..k : i \in T
    BY <1>1, <1>2, UpTo
  <1>4. Power(b, k) > 0
    BY <1>3 DEF T
  <1> QED
    BY <1>0, <1>4

LEMMA PowerGrows ==
    ASSUME NEW b \in Nat \ {0}, NEW i \in Nat, NEW j \in Nat, i <= j
    PROVE  Power(b, i) <= Power(b, j)
  <1>0. \A k \in Nat : Power(b, k) \in Nat \ {0} /\ Power(b, k + 1) = b * Power(b, k)
    BY PowerAbove
  <1> DEFINE n == j - i
             T == {d \in 0..n : Power(b, i) <= Power(b, i + d)}
  <1>1. n \in Nat /\ i + n = j
    OBVIOUS
  <1>2. 0 \in T
    BY <1>0, <1>1
  <1>3. ASSUME NEW d \in 0..(n - 1), d \in T PROVE d + 1 \in T
    <2>1. i + d \in Nat /\ d + 1 \in 0..n /\ i + (d + 1) = (i + d) + 1
      BY <1>1
    <2> DEFINE p == Power(b, i)
               q == Power(b, i + d)
    <2>2. p \in Nat /\ q \in Nat /\ p <= q /\ Power(b, (i + d) + 1) = b * q
      BY <1>0, <1>3, <2>1
    <2> HIDE DEF p, q
    <2>3. q <= b * q
      BY <2>2
    <2>4. b * q \in Nat
      BY <2>2
    <2>5. p <= b * q
      BY <2>2, <2>3, <2>4
    <2> QED
      BY <2>1, <2>2, <2>5 DEF p
  <1> HIDE DEF T, n
  <1>4. \A d \in 0..n : d \in T
    BY <1>1, <1>2, <1>3, UpTo
  <1>5. n \in 0..n
    BY <1>1
  <1> QED
    BY <1>1, <1>4, <1>5 DEF T

(* What the digits of v in base b come to when they are added up again. *)
Digits(b, n, v) == [i \in 1..n |-> (v \div Power(b, i - 1)) % b]

LEMMA SumOfDigits ==
    ASSUME NEW b \in Nat \ {0}, NEW n \in Nat, NEW v \in Nat, v < Power(b, n), NEW f,
           f = [i \in 0..n |-> IF i = 0 THEN 0
                                        ELSE f[i - 1] + Digits(b, n, v)[i] * Power(b, i - 1)]
    PROVE  f[n] = v
  <1>0. \A k \in Nat : Power(b, k) \in Nat \ {0} /\ Power(b, k + 1) = b * Power(b, k)
    BY PowerAbove
  <1>p. Power(b, 0) = 1
    BY PowerNext
  <1> DEFINE T == {i \in 0..n : f[i] = v % Power(b, i)}
  <1>1. 0 \in T
    BY <1>p
  <1>2. ASSUME NEW i \in 0..(n - 1), i \in T PROVE i + 1 \in T
    <2>1. i \in Nat /\ i + 1 \in 0..n /\ i + 1 \in 1..n /\ i + 1 # 0 /\ (i + 1) - 1 = i
      OBVIOUS
    <2> DEFINE p == Power(b, i)
    <2>2. f[i + 1] = f[(i + 1) - 1] + Digits(b, n, v)[i + 1] * Power(b, (i + 1) - 1)
      BY <2>1
    <2>3. Digits(b, n, v)[i + 1] = (v \div p) % b
      BY <2>1 DEF Digits
    <2>4. f[i + 1] = (v % p) + ((v \div p) % b) * p
      BY <1>2, <2>1, <2>2, <2>3
    <2>5. p \in Nat \ {0} /\ Power(b, i + 1) = b * p
      BY <1>0, <2>1
    <2> HIDE DEF p
    <2>6. v % (b * p) = (v % p) + ((v \div p) % b) * p
      BY <2>5, Digit
    <2> QED
      BY <2>1, <2>4, <2>5, <2>6
  <1> HIDE DEF T
  <1>3. \A i \in 0..n : i \in T
    BY <1>1, <1>2, UpTo
  <1>4. f[n] = v % Power(b, n)
    BY <1>3 DEF T
  <1> DEFINE q == Power(b, n)
  <1>5. q \in Nat \ {0} /\ v < q
    BY <1>0
  <1> HIDE DEF q
  <1>6. v % q = v
    BY <1>5
  <1> QED
    BY <1>4, <1>6 DEF q

(* The function that the operators of ByteArray choose is one that adds up so. *)
LEMMA SumExists ==
    ASSUME NEW b \in Nat \ {0}, NEW n \in Nat, NEW v \in Nat
    PROVE  \E f : f = [i \in 0..n |-> IF i = 0 THEN 0
                                 ELSE f[i - 1] + Digits(b, n, v)[i] * Power(b, i - 1)]
  <1> DEFINE e == [i \in 0..n |-> v % Power(b, i)]
             g == [i \in 0..n |-> IF i = 0 THEN 0
                                 ELSE e[i - 1] + Digits(b, n, v)[i] * Power(b, i - 1)]
  <1>0. \A k \in Nat : Power(b, k) \in Nat \ {0} /\ Power(b, k + 1) = b * Power(b, k)
    BY PowerAbove
  <1>p. Power(b, 0) = 1
    BY PowerNext
  <1>1. ASSUME NEW i \in 0..n PROVE e[i] = g[i]
    <2>1. CASE i = 0
      BY <1>p, <2>1
    <2>2. CASE i # 0
      <3> DEFINE m == i - 1
      <3>1. m \in Nat /\ m + 1 = i /\ m \in 0..n /\ i \in 1..n
        BY <2>2
      <3>2. g[i] = e[m] + Digits(b, n, v)[i] * Power(b, m)
        BY <2>2
      <3>3. Digits(b, n, v)[i] = (v \div Power(b, m)) % b
        BY <3>1 DEF Digits
      <3> HIDE DEF m, g
      <3>4. e[m] = v % Power(b, m) /\ e[i] = v % Power(b, m + 1)
        BY <3>1
      <3> HIDE DEF e
      <3> DEFINE p == Power(b, m)
      <3>5. p \in Nat \ {0} /\ Power(b, m + 1) = b * p
        BY <1>0, <3>1
      <3>6. g[i] = (v % p) + ((v \div p) % b) * p /\ e[i] = v % (b * p)
        BY <3>2, <3>3, <3>4, <3>5
      <3> HIDE DEF p
      <3>7. v % (b * p) = (v % p) + ((v \div p) % b) * p
        BY <3>5, Digit
      <3> QED
        BY <3>6, <3>7
    <2> QED
      BY <2>1, <2>2
  <1>2. e = g
    BY <1>1
  <1> QED
    BY <1>2

LEMMA DigitsType ==
    ASSUME NEW b \in Nat \ {0}, NEW n \in Nat, NEW v \in Nat
    PROVE  /\ Digits(b, n, v) \in Seq(0..(b - 1)) /\ Len(Digits(b, n, v)) = n
           /\ \A i \in 1..n : Digits(b, n, v)[i] = (v \div Power(b, i - 1)) % b
  <1> DEFINE s == Digits(b, n, v)
  <1>1. ASSUME NEW i \in 1..n PROVE (v \div Power(b, i - 1)) % b \in 0..(b - 1)
    <2> DEFINE p == Power(b, i - 1)
               q == v \div p
    <2>1. i - 1 \in Nat
      OBVIOUS
    <2>2. p \in Nat \ {0}
      BY <2>1, PowerAbove
    <2> HIDE DEF p
    <2>3. q \in Nat
      BY <2>2, DivMod
    <2> HIDE DEF q
    <2>4. q % b \in 0..(b - 1)
      BY <2>3, DivMod
    <2> QED
      BY <2>4 DEF q, p
  <1>2. s \in [1..n -> 0..(b - 1)] /\ \A i \in 1..n : s[i] = (v \div Power(b, i - 1)) % b
    BY <1>1 DEF Digits
  <1> HIDE DEF s
  <1>3. s \in Seq(0..(b - 1)) /\ Len(s) = n
    BY <1>2
  <1> QED
    BY <1>2, <1>3 DEF s

(* The bytes of a number, of any width, and the number of the bytes. *)
LEMMA MemoryIs ==
    ASSUME NEW k \in Nat, NEW v \in Nat
    PROVE  /\ InMemory(k, v) \in Seq(Byte) /\ Len(InMemory(k, v)) = k
           /\ v < Power(Radix, k) => FromMemory(InMemory(k, v)) = v
  <1> DEFINE s == InMemory(k, v)
             d == Digits(Radix, k, v)
             m == Len(s)
  <1>0. Radix \in Nat \ {0}
    BY RadixIs
  <1>1. s = d
    BY DEF InMemory, Digits
  <1>2. d \in Seq(0..(Radix - 1)) /\ Len(d) = k
    BY <1>0, DigitsType
  <1>3. FromMemory(s) = (CHOOSE f : f = [i \in 0..Len(s) |->
                            IF i = 0 THEN 0 ELSE f[i - 1] + s[i] * Power(Radix, i - 1)])[Len(s)]
    BY DEF FromMemory
  <1> DEFINE is(f) == f = [i \in 0..k |-> IF i = 0 THEN 0
                                      ELSE f[i - 1] + d[i] * Power(Radix, i - 1)]
             g == CHOOSE f : is(f)
  <1>4. FromMemory(s) = g[k]
    <2> HIDE DEF s, d
    <2> QED
      BY <1>1, <1>2, <1>3
  <1>5. \E f : is(f)
    BY <1>0, SumExists
  <1>6. is(g)
    <2> HIDE DEF is
    <2> QED
      BY <1>5
  <1>7. v < Power(Radix, k) => g[k] = v
    <2> DEFINE h == g
    <2>1. h = [i \in 0..k |-> IF i = 0 THEN 0 ELSE h[i - 1] + d[i] * Power(Radix, i - 1)]
      BY <1>6
    <2> HIDE DEF h
    <2>2. v < Power(Radix, k) => h[k] = v
      BY <1>0, <2>1, SumOfDigits
    <2> QED
      BY <2>2 DEF h
  <1> QED
    BY <1>1, <1>2, <1>4, <1>7 DEF Byte

(* A word is read as it was written, and so is a number of one byte.       *)
Weight(i) == Power(Radix, i)

LEMMA Weights ==
    /\ Weight(0) = 1 /\ Weight(1) = Radix
    /\ \A i \in 0..3 : Weight(i) \in Nat \ {0} /\ Weight(i + 1) = Radix * Weight(i)
    /\ Weight(4) \in Nat \ {0}
  <1>1. Radix \in Nat \ {0}
    BY RadixIs
  <1>2. Weight(0) = 1 /\ \A k \in Nat : Weight(k) \in Nat \ {0} /\ Weight(k + 1) = Radix * Weight(k)
    BY <1>1, PowerNext, PowerAbove DEF Weight
  <1>3. Weight(1) = Radix
    <2> DEFINE z == 0
    <2>1. z \in Nat /\ z + 1 = 1 /\ Weight(z) = 1
      BY <1>2
    <2> HIDE DEF z
    <2>2. Weight(z + 1) = Radix * 1
      BY <1>2, <2>1
    <2> QED
      BY <1>1, <2>1, <2>2
  <1> QED
    BY <1>2, <1>3

LEMMA WordBack ==
    ASSUME NEW v \in Nat, v < Weight(4)
    PROVE  FromMemory(InMemory(4, v)) = v
  <1> DEFINE k == 4
  <1>1. k \in Nat /\ v < Power(Radix, k)
    BY DEF Weight
  <1> HIDE DEF k
  <1>2. FromMemory(InMemory(k, v)) = v
    BY <1>1, MemoryIs
  <1> QED
    BY <1>2 DEF k

LEMMA ByteBack ==
    ASSUME NEW v \in Byte
    PROVE  /\ InMemory(1, v) = <<v>> /\ FromMemory(<<v>>) = v
  <1> DEFINE k == 1
             s == InMemory(k, v)
             t == <<v>>
  <1>1. v \in Nat /\ v < Radix /\ Radix \in Nat \ {0}
    BY RadixIs DEF Byte
  <1>2. k \in Nat /\ k = 1 /\ v < Power(Radix, k)
    BY <1>1, Weights DEF Weight
  <1>3. s[k] = v
    <2>1. k - 1 = 0 /\ Power(Radix, 0) = 1 /\ k \in 1..k
      BY <1>1, PowerNext
    <2>2. s[k] = (v \div Power(Radix, k - 1)) % Radix
      BY <2>1 DEF InMemory
    <2>3. v \div 1 = v /\ v % Radix = v
      BY <1>1
    <2> HIDE DEF s
    <2> QED
      BY <2>1, <2>2, <2>3
  <1>4. t \in Seq(Byte) /\ Len(t) = 1 /\ t[1] = v
    OBVIOUS
  <1> HIDE DEF k, t
  <1>5. s \in Seq(Byte) /\ Len(s) = k /\ FromMemory(s) = v
    BY <1>1, <1>2, MemoryIs
  <1> HIDE DEF s
  <1>6. s = t
    BY <1>2, <1>3, <1>4, <1>5, SeqEqual
  <1> QED
    BY <1>5, <1>6 DEF k, s, t

LEMMA FromMemoryType ==
    ASSUME NEW s \in Seq(Nat)
    PROVE  FromMemory(s) \in Nat
  <1> DEFINE n == Len(s)
             w(i) == s[i] * Power(Radix, i - 1)
             step == [i \in 1..n |-> [x \in Nat |-> x + w(i)]]
             is(f) == f = [i \in 0..n |-> IF i = 0 THEN 0 ELSE f[i - 1] + w(i)]
             f == CHOOSE g : is(g)
  <1>1. FromMemory(s) = f[n]
    BY DEF FromMemory
  <1>2. n \in Nat
    BY LenProperties
  <1>3. ASSUME NEW i \in 1..n PROVE w(i) \in Nat
    <2> DEFINE p == Power(Radix, i - 1)
               c == s[i]
    <2>1. i - 1 \in Nat /\ Radix \in Nat \ {0}
      BY RadixIs
    <2>2. p \in Nat /\ c \in Nat
      BY <2>1, PowerAbove, ElementOfSeq
    <2> HIDE DEF p, c
    <2>3. c * p \in Nat
      BY <2>2
    <2> QED
      BY <2>3 DEF c, p
  <1> HIDE DEF n, w
  <1>4. \E g : is(g)
    <2> DEFINE S == Nat
               z == 0
    <2>1. z \in S /\ \A i \in 1..n : \A y \in S : step[i][y] = y + w(i) /\ step[i][y] \in S
      BY <1>3
    <2> HIDE DEF S, z, step
    <2>2. PICK g : Follows(g, n, z, step)
      BY <1>2, Recursion
    <2>3. g \in [0..n -> S]
      BY <1>2, <2>1, <2>2, StaysIn
    <2> DEFINE h == [i \in 0..n |-> IF i = 0 THEN z ELSE g[i - 1] + w(i)]
    <2>4. ASSUME NEW i \in 0..n PROVE g[i] = h[i]
      <3>1. CASE i = 0
        BY <2>2, <3>1 DEF Follows
      <3>2. CASE i # 0
        <4>1. i \in 1..n /\ i - 1 \in 0..n
          BY <1>2, <3>2
        <4>2. g[i] = step[i][g[i - 1]]
          BY <2>2, <4>1 DEF Follows
        <4> QED
          BY <2>1, <2>3, <3>2, <4>1, <4>2
      <3> QED
        BY <3>1, <3>2
    <2>5. g = [i \in 0..n |-> g[i]] /\ h = [i \in 0..n |-> h[i]]
      BY <2>2 DEF Follows
    <2> HIDE DEF h
    <2>6. g = h
      BY <2>4, <2>5
    <2> QED
      BY <2>6 DEF h, z
  <1>5. is(f)
    <2> HIDE DEF is
    <2> QED
      BY <1>4
  <1> HIDE DEF f
  <1> DEFINE T == {i \in 0..n : f[i] \in Nat}
  <1>6. 0 \in T
    BY <1>2, <1>5
  <1>7. ASSUME NEW i \in 0..(n - 1), i \in T PROVE i + 1 \in T
    <2> DEFINE k == i + 1
    <2>1. k \in 1..n /\ k \in 0..n /\ k # 0 /\ k - 1 = i
      BY <1>2
    <2> HIDE DEF k
    <2>2. f[k] = f[i] + w(k) /\ w(k) \in Nat /\ f[i] \in Nat
      BY <1>3, <1>5, <1>7, <2>1
    <2> QED
      BY <2>1, <2>2 DEF k
  <1> HIDE DEF T
  <1>8. \A i \in 0..n : i \in T
    BY <1>2, <1>6, <1>7, UpTo
  <1>9. n \in 0..n
    BY <1>2
  <1> QED
    BY <1>1, <1>8, <1>9 DEF T

-----------------------------------------------------------------------------
(* Words and texts, in an array and out of one.                            *)

(* A number of four bytes, and a string behind its length. *)
Word(v) == InMemory(4, v)
Text(x) == Word(Len(x)) \o x

LEMMA WordType ==
    ASSUME NEW v \in Nat
    PROVE  /\ Word(v) \in Seq(Byte) /\ Word(v) \in Seq(Cell) /\ Len(Word(v)) = 4
           /\ Word(v) # <<>>
  <1> DEFINE w == Word(v)
  <1>1. w \in Seq(Byte) /\ Len(w) = 4
    BY MemoryIs DEF Word
  <1> HIDE DEF w
  <1>2. w \in Seq(Cell)
    BY <1>1, RadixIs, SeqMonotonic
  <1>3. w # <<>>
    BY <1>1
  <1> QED
    BY <1>1, <1>2, <1>3 DEF w

LEMMA HoldsWord ==
    ASSUME NEW b, NEW s, Holds(b, s, Len(s)), NEW v \in Nat
    PROVE  Holds(writeFixed(b, 4, v), s \o Word(v), Len(s \o Word(v)))
  <1>1. writeFixed(b, 4, v) = write(b, Word(v))
    BY DEF writeFixed, InOrder, Holds, Word
  <1>2. Word(v) \in Seq(Cell)
    BY WordType
  <1> QED
    BY <1>1, <1>2, HoldsWrite

LEMMA HoldsByte ==
    ASSUME NEW b, NEW s, Holds(b, s, Len(s)), NEW v \in Byte
    PROVE  Holds(writeFixed(b, 1, v), s \o <<v>>, Len(s \o <<v>>))
  <1> DEFINE w == <<v>>
  <1>1. writeFixed(b, 1, v) = write(b, w)
    BY ByteBack DEF writeFixed, InOrder, Holds
  <1>2. w \in Seq(Cell)
    BY RadixIs
  <1> HIDE DEF w
  <1>3. Holds(writeFixed(b, 1, v), s \o w, Len(s \o w))
    BY <1>1, <1>2, HoldsWrite
  <1> QED
    BY <1>3 DEF w

LEMMA HoldsString ==
    ASSUME NEW b, NEW s, Holds(b, s, Len(s)), NEW x \in Seq(Byte)
    PROVE  Holds(writeString(b, 4, x), s \o Text(x), Len(s \o Text(x)))
  <1> DEFINE w == Word(Len(x))
             a == writeFixed(b, 4, Len(x))
  <1>1. writeString(b, 4, x) = write(a, x)
    BY DEF writeString
  <1>2. x \in Seq(Cell) /\ Len(x) \in Nat
    BY RadixIs, SeqMonotonic, LenProperties
  <1>3. Holds(a, s \o w, Len(s \o w))
    BY <1>2, HoldsWord
  <1>4. w \in Seq(Cell) /\ s \in Seq(Cell)
    BY <1>2, WordType, HoldsType
  <1> HIDE DEF a, w
  <1>5. Holds(write(a, x), (s \o w) \o x, Len((s \o w) \o x))
    BY <1>2, <1>3, HoldsWrite
  <1>6. (s \o w) \o x = s \o (w \o x)
    BY <1>2, <1>4, ConcatAssociative
  <1> QED
    BY <1>1, <1>5, <1>6 DEF w, Text

LEMMA HasWord ==
    ASSUME NEW b, NEW n, NEW v \in Nat, v < Weight(4), NEW t \in Seq(Cell),
           Has(b, n, Word(v) \o t)
    PROVE  /\ readFixed(b, 4).how = "ok" /\ readFixed(b, 4).out = v
           /\ Has(readFixed(b, 4).ba, n, t)
  <1> DEFINE r == read(b, 4)
             k == 4
             x == Word(v)
  <1>1. x \in Seq(Cell) /\ k = Len(x) /\ x # <<>> /\ k \in Nat /\ Has(b, n, x \o t)
    BY WordType
  <1>2. r.how = "ok" /\ r.out = Word(v) /\ Has(r.ba, n, t)
    <2> HIDE DEF k, x
    <2>1. read(b, k).how = "ok" /\ read(b, k).out = x /\ Has(read(b, k).ba, n, t)
      BY <1>1, HasRead
    <2> QED
      BY <2>1 DEF k, x
  <1>3. InOrder(b, Word(v)) = Word(v)
    BY DEF InOrder, Has
  <1>4. FromMemory(Word(v)) = v
    BY WordBack DEF Word
  <1>5. readFixed(b, 4) = [r EXCEPT !.out = FromMemory(InOrder(b, r.out))]
    BY <1>2 DEF readFixed
  <1>6. r \in [how : {r.how}, ba : {r.ba}, out : {r.out}]
    BY DEF read, Throws, Faults
  <1> HIDE DEF r
  <1>7. /\ readFixed(b, 4).how = r.how /\ readFixed(b, 4).ba = r.ba
        /\ readFixed(b, 4).out = FromMemory(InOrder(b, r.out))
    BY <1>5, <1>6
  <1> QED
    BY <1>2, <1>3, <1>4, <1>7

LEMMA HasByte ==
    ASSUME NEW b, NEW n, NEW v \in Byte, NEW t \in Seq(Cell), Has(b, n, <<v>> \o t)
    PROVE  /\ readFixed(b, 1).how = "ok" /\ readFixed(b, 1).out = v
           /\ Has(readFixed(b, 1).ba, n, t)
  <1> DEFINE r == read(b, 1)
             w == <<v>>
  <1>1. w \in Seq(Cell) /\ Len(w) = 1 /\ w # <<>> /\ 1 \in Nat
    BY RadixIs
  <1>4. FromMemory(w) = v
    BY ByteBack
  <1>0. Has(b, n, w \o t)
    OBVIOUS
  <1> HIDE DEF w
  <1>2. r.how = "ok" /\ r.out = w /\ Has(r.ba, n, t)
    BY <1>0, <1>1, HasRead
  <1>3. InOrder(b, w) = w
    BY DEF InOrder, Has
  <1>5. readFixed(b, 1) = [r EXCEPT !.out = FromMemory(InOrder(b, r.out))]
    BY <1>2 DEF readFixed
  <1>6. r \in [how : {r.how}, ba : {r.ba}, out : {r.out}]
    BY DEF read, Throws, Faults
  <1> HIDE DEF r
  <1>7. /\ readFixed(b, 1).how = r.how /\ readFixed(b, 1).ba = r.ba
        /\ readFixed(b, 1).out = FromMemory(InOrder(b, r.out))
    BY <1>5, <1>6
  <1> QED
    BY <1>2, <1>3, <1>4, <1>7

LEMMA HasString ==
    ASSUME NEW b, NEW n, NEW x \in Seq(Byte), x # <<>>, Len(x) < Weight(4), NEW t \in Seq(Cell),
           Has(b, n, Text(x) \o t)
    PROVE  /\ readString(b, 4).how = "ok" /\ readString(b, 4).out = x
           /\ Has(readString(b, 4).ba, n, t)
  <1> DEFINE k == Len(x)
             w == Word(k)
             r == readFixed(b, 4)
  <1>1. x \in Seq(Cell) /\ k \in Nat
    BY RadixIs, SeqMonotonic, LenProperties
  <1>2. w \in Seq(Cell)
    BY <1>1, WordType
  <1>3. x \o t \in Seq(Cell)
    BY <1>1, ConcatProperties
  <1>4. (w \o x) \o t = w \o (x \o t)
    <2> HIDE DEF w
    <2> QED
      BY <1>1, <1>2, ConcatAssociative
  <1>5. Has(b, n, w \o (x \o t))
    BY <1>4 DEF Text
  <1>6. r.how = "ok" /\ r.out = k /\ Has(r.ba, n, x \o t)
    <2> HIDE DEF k
    <2>1. k < Weight(4)
      BY DEF k
    <2> QED
      BY <1>1, <1>3, <1>5, <2>1, HasWord
  <1>7. readString(b, 4) = read(r.ba, k)
    BY <1>6 DEF readString
  <1> HIDE DEF r
  <1> QED
    BY <1>1, <1>6, <1>7, HasRead

(* An empty string at the end, which a node that ends there does not have. *)
LEMMA HasLength ==
    ASSUME NEW b, NEW n, NEW x \in Seq(Cell), Len(x) < Weight(4), Has(b, n, Text(x))
    PROVE  /\ readString(b, 4) = read(readFixed(b, 4).ba, Len(x))
           /\ Has(readFixed(b, 4).ba, n, x)
  <1> DEFINE k == Len(x)
             r == readFixed(b, 4)
  <1>1. k \in Nat /\ k < Weight(4) /\ Has(b, n, Word(k) \o x)
    BY LenProperties DEF Text
  <1> HIDE DEF k
  <1>2. r.how = "ok" /\ r.out = k /\ Has(r.ba, n, x)
    BY <1>1, HasWord
  <1>3. readString(b, 4) = read(r.ba, k)
    BY <1>2 DEF readString
  <1> QED
    BY <1>2, <1>3 DEF k

LEMMA HasNoString ==
    ASSUME NEW b, NEW n, Has(b, n, Text(<<>>))
    PROVE  \/ readString(b, 4).how = "ok" /\ readString(b, 4).out = <<>>
           \/ readString(b, 4).how = "faults" /\ n % Base = 0
  <1> DEFINE x == <<>>
             a == readFixed(b, 4).ba
  <1>1. x \in Seq(Cell) /\ Len(x) = 0 /\ Has(b, n, Text(x)) /\ x = <<>>
    OBVIOUS
  <1>2. Len(x) < Weight(4)
    BY <1>1, Weights
  <1> HIDE DEF x
  <1>3. readString(b, 4) = read(a, Len(x)) /\ Has(a, n, x)
    BY <1>1, <1>2, HasLength
  <1> HIDE DEF a
  <1>4. readString(b, 4) = read(a, 0) /\ Has(a, n, <<>>)
    BY <1>1, <1>3
  <1> QED
    BY <1>4, HasEnd

-----------------------------------------------------------------------------
(* What comes out of the compression is what went in: one byte.            *)

Zeros(k) == [j \in 1..k |-> 0]

(* Inflated, byte after byte. *)
State == [t : Seq(Byte), zero : BOOLEAN]
Plain(x) == [t |-> x, zero |-> FALSE]
After(g, c) ==
    IF g.zero THEN [t |-> g.t \o [j \in 1..c |-> 0], zero |-> FALSE]
    ELSE IF c = 0 THEN [g EXCEPT !.zero = TRUE]
    ELSE [g EXCEPT !.t = Append(@, c)]

Run(s) ==
    LET f[i \in 0..Len(s)] == IF i = 0 THEN Plain(<<>>) ELSE After(f[i - 1], s[i])
    IN f[Len(s)]

Afters(s) == [i \in 1..Len(s) |-> [g \in State |-> After(g, s[i])]]

Runs(f, s) ==
    /\ Follows(f, Len(s), Plain(<<>>), Afters(s))
    /\ f \in [0..Len(s) -> State]
    /\ \A i \in 1..Len(s) : f[i] = After(f[i - 1], s[i])

LEMMA ZerosAre ==
    ASSUME NEW k \in Nat
    PROVE  /\ Zeros(k) \in Seq(Byte) /\ Len(Zeros(k)) = k
           /\ \A i \in 1..k : Zeros(k)[i] = 0
  BY RadixIs DEF Byte, Zeros

LEMMA InflatedIsRun ==
    ASSUME NEW s
    PROVE  Inflated(s) = Run(s).t
  BY DEF Inflated, Run, After, Plain

LEMMA AfterType ==
    ASSUME NEW g \in State, NEW c \in Byte
    PROVE  After(g, c) \in State
  <1>1. g.t \in Seq(Byte) /\ c \in Nat
    BY RadixIs DEF State
  <1>2. g.t \o [j \in 1..c |-> 0] \in Seq(Byte)
    BY <1>1, ZerosAre, ConcatProperties DEF Zeros
  <1>3. Append(g.t, c) \in Seq(Byte)
    BY <1>1
  <1> QED
    BY <1>2, <1>3 DEF After, State

LEMMA StartType == Plain(<<>>) \in State
  BY DEF Plain, State

LEMMA RunIs ==
    ASSUME NEW s \in Seq(Byte)
    PROVE  \E f : Runs(f, s) /\ Run(s) = f[Len(s)]
  <1> DEFINE n == Len(s)
             is(f) == f = [i \in 0..n |-> IF i = 0 THEN Plain(<<>>) ELSE After(f[i - 1], s[i])]
             p == CHOOSE f : is(f)
             x == Plain(<<>>)
             step == Afters(s)
  <1>0. n \in Nat /\ \A i \in 1..n : s[i] \in Byte
    BY LenProperties, ElementOfSeq
  <1>1. \A i \in 1..n : \A y \in State : step[i][y] = After(y, s[i]) /\ step[i][y] \in State
    BY <1>0, AfterType DEF Afters
  <1> HIDE DEF step
  <1>2. PICK f : Follows(f, n, x, step)
    BY <1>0, Recursion
  <1>3. f \in [0..n -> State]
    <2>1. x \in State /\ \A i \in 1..n : \A y \in State : step[i][y] \in State
      BY <1>1, StartType
    <2> HIDE DEF n, x
    <2> QED
      BY <1>0, <1>2, <2>1, StaysIn
  <1>4. \A i \in 1..n : f[i] = After(f[i - 1], s[i])
    <2> SUFFICES ASSUME NEW i \in 1..n PROVE f[i] = After(f[i - 1], s[i])
      OBVIOUS
    <2>1. i - 1 \in 0..n
      BY <1>0
    <2> QED
      BY <1>1, <1>2, <1>3, <2>1 DEF Follows
  <1>5. f[0] = x /\ f = [i \in 0..n |-> f[i]]
    BY <1>2 DEF Follows
  <1>6. is(f)
    <2> HIDE DEF n, x
    <2>1. \A i \in 0..n : f[i] = (IF i = 0 THEN x ELSE After(f[i - 1], s[i]))
      <3>1. \A i \in 0..n : i = 0 \/ i \in 1..n
        BY <1>0
      <3> QED
        BY <1>4, <1>5, <3>1
    <2>2. f = [i \in 0..n |-> IF i = 0 THEN x ELSE After(f[i - 1], s[i])]
      BY <1>5, <2>1
    <2> QED
      BY <2>2 DEF x
  <1>7. is(p)
    <2> HIDE DEF is
    <2> QED
      BY <1>6
  <1>8. \A i \in 0..n : p[i] = f[i]
    <2> DEFINE T == {i \in 0..n : p[i] = f[i]}
    <2>1. p[0] = x /\ \A i \in 1..n : p[i] = After(p[i - 1], s[i])
      <3> DEFINE h == p
      <3>1. h = [i \in 0..n |-> IF i = 0 THEN x ELSE After(h[i - 1], s[i])]
        BY <1>7
      <3> HIDE DEF h, p, n, x
      <3>2. h[0] = x
        BY <1>0, <3>1
      <3>3. \A i \in 1..n : i \in 0..n /\ i # 0
        BY <1>0
      <3>4. \A i \in 1..n : h[i] = After(h[i - 1], s[i])
        BY <3>1, <3>3
      <3> QED
        BY <3>2, <3>4 DEF h
    <2> HIDE DEF p, n, x, is
    <2>2. 0 \in T
      BY <1>0, <1>5, <2>1
    <2>3. ASSUME NEW i \in 0..(n - 1), i \in T PROVE i + 1 \in T
      BY <1>0, <1>4, <2>1, <2>3
    <2> HIDE DEF T
    <2>4. \A i \in 0..n : i \in T
      BY <1>0, <2>2, <2>3, UpTo
    <2> QED
      BY <2>4 DEF T
  <1>9. Run(s) = p[n]
    BY DEF Run
  <1>10. Run(s) = f[n]
    <2> HIDE DEF p, n
    <2> QED
      BY <1>0, <1>8, <1>9
  <1>11. Runs(f, s)
    BY <1>2, <1>3, <1>4 DEF Runs, step
  <1> QED
    BY <1>10, <1>11

LEMMA RunNothing == Run(<<>>) = Plain(<<>>)
  <1> DEFINE e == <<>>
  <1>1. e \in Seq(Byte) /\ Len(e) = 0
    OBVIOUS
  <1> HIDE DEF e
  <1>2. PICK f : Runs(f, e) /\ Run(e) = f[Len(e)]
    BY <1>1, RunIs
  <1>3. Run(e) = Plain(<<>>)
    BY <1>1, <1>2 DEF Runs, Follows
  <1> QED
    BY <1>3 DEF e

LEMMA RunNext ==
    ASSUME NEW s \in Seq(Byte), NEW c \in Byte
    PROVE  Run(s) \in State /\ Run(s \o <<c>>) = After(Run(s), c)
  <1> DEFINE t == s \o <<c>>
             n == Len(s)
             x == Plain(<<>>)
             a == Afters(s)
             b == Afters(t)
             m == Len(t)
  <1>1. /\ t \in Seq(Byte) /\ m = n + 1 /\ n \in Nat /\ m \in Nat /\ n <= m
        /\ t[n + 1] = c /\ \A i \in 1..n : t[i] = s[i]
    <2> DEFINE w == <<c>>
    <2>1. w \in Seq(Byte) /\ Len(w) = 1 /\ w[1] = c
      OBVIOUS
    <2> HIDE DEF w
    <2>2. /\ s \o w \in Seq(Byte) /\ Len(s \o w) = Len(s) + Len(w) /\ Len(s) \in Nat
          /\ \A i \in 1..(Len(s) + Len(w)) :
                (s \o w)[i] = IF i <= Len(s) THEN s[i] ELSE w[i - Len(s)]
      BY <2>1, ConcatProperties, LenProperties
    <2> DEFINE v == s \o w
    <2>3. v = t
      BY DEF w
    <2> HIDE DEF v, t
    <2>4. /\ v \in Seq(Byte) /\ Len(v) = n + 1 /\ n \in Nat
          /\ \A i \in 1..(n + 1) : v[i] = IF i <= n THEN s[i] ELSE w[i - n]
      BY <2>1, <2>2 DEF v
    <2> HIDE DEF n
    <2>5. v[n + 1] = w[1]
      BY <2>4
    <2>6. \A i \in 1..n : v[i] = s[i]
      BY <2>4
    <2> QED
      BY <2>1, <2>3, <2>4, <2>5, <2>6
  <1> HIDE DEF t
  <1>2. PICK f : Runs(f, s) /\ Run(s) = f[n]
    BY RunIs
  <1>3. PICK g : Runs(g, t) /\ Run(t) = g[m]
    BY <1>1, RunIs
  <1>4. Follows(f, n, x, a) /\ Follows(g, m, x, b)
    BY <1>2, <1>3 DEF Runs
  <1>5. \A i \in 1..n : a[i] = b[i]
    BY <1>1 DEF Afters
  <1> HIDE DEF n, m, x, a, b
  <1>6. \A i \in 0..n : f[i] = g[i]
    BY <1>1, <1>4, <1>5, SameStart
  <1>7. f[n] = g[n]
    BY <1>1, <1>6
  <1>8. g[n + 1] = After(g[n], t[n + 1])
    BY <1>1, <1>3 DEF Runs, m
  <1>9. Run(s) \in State
    BY <1>1, <1>2 DEF Runs, n
  <1> QED
    BY <1>1, <1>2, <1>3, <1>7, <1>8, <1>9 DEF t

-----------------------------------------------------------------------------
(* ... and all bytes.                                                      *)

LEMMA One ==
    ASSUME NEW S, NEW c \in S
    PROVE  <<c>> \in Seq(S) /\ Len(<<c>>) = 1 /\ <<c>>[1] = c
  OBVIOUS

(* A byte that is no zero, and a number of zeros. *)
LEMMA RunPlain ==
    ASSUME NEW s \in Seq(Byte), NEW x, Run(s) = Plain(x), NEW c \in Byte, c # 0
    PROVE  Run(s \o <<c>>) = Plain(x \o <<c>>)
  <1>1. Run(s \o <<c>>) = After(Plain(x), c) /\ Plain(x) \in State
    BY RunNext
  <1>2. x \in Seq(Byte)
    BY <1>1 DEF Plain, State
  <1>3. After(Plain(x), c) = [Plain(x) EXCEPT !.t = Append(@, c)]
    BY DEF After, Plain
  <1>4. [Plain(x) EXCEPT !.t = Append(@, c)] = Plain(Append(x, c))
    <2> DEFINE z == FALSE
               g == [t |-> x, zero |-> z]
               y == Append(x, c)
    <2>1. Plain(x).t = x
      BY DEF Plain
    <2> HIDE DEF y, z
    <2>2. [g EXCEPT !.t = y] = [t |-> y, zero |-> z]
      OBVIOUS
    <2> QED
      BY <2>1, <2>2 DEF Plain, y, z
  <1>5. Append(x, c) = x \o <<c>>
    BY <1>2, AppendIsConcat
  <1> QED
    BY <1>1, <1>3, <1>4, <1>5

LEMMA RunZeros ==
    ASSUME NEW s \in Seq(Byte), NEW x, Run(s) = Plain(x), NEW k \in Byte
    PROVE  Run(s \o <<0, k>>) = Plain(x \o Zeros(k))
  <1> DEFINE z == 0
             v == s \o <<z>>
  <1>1. z \in Byte /\ z = 0
    BY RadixIs DEF Byte
  <1>2. v \in Seq(Byte)
    <2> DEFINE w == <<z>>
    <2>1. w \in Seq(Byte)
      BY <1>1
    <2> HIDE DEF w
    <2>2. s \o w \in Seq(Byte)
      BY <2>1, ConcatProperties
    <2> QED
      BY <2>2 DEF w
  <1>3. s \o <<z, k>> = v \o <<k>>
    <2> DEFINE a == <<z>>
               b == <<k>>
               c == <<z, k>>
    <2>1. a \in Seq(Byte) /\ b \in Seq(Byte) /\ c = a \o b
      BY <1>1
    <2> HIDE DEF a, b, c
    <2>2. (s \o a) \o b = s \o (a \o b)
      BY <2>1, ConcatAssociative
    <2>3. s \o c = (s \o a) \o b
      BY <2>1, <2>2
    <2> QED
      BY <2>3 DEF a, b, c
  <1> HIDE DEF z
  <1>4. Run(v) = After(Plain(x), z)
    BY <1>1, RunNext
  <1>5. After(Plain(x), z) = [t |-> x, zero |-> TRUE]
    BY <1>1 DEF After, Plain
  <1> HIDE DEF v
  <1>6. Run(v \o <<k>>) = After(Run(v), k)
    BY <1>2, RunNext
  <1>7. After([t |-> x, zero |-> TRUE], k) = Plain(x \o Zeros(k))
    BY DEF After, Plain, Zeros
  <1> QED
    BY <1>1, <1>3, <1>4, <1>5, <1>6, <1>7

(* Deflated, byte after byte of s. *)
Packed(t, s, i) ==
    LET n == Len(t)
    IN IF s[i] # 0 THEN Append(t, s[i])
       ELSE IF n > 1 /\ t[n - 1] = 0 /\ t[n] < Radix - 1 /\ s[i - 1] = 0
       THEN [t EXCEPT ![n] = @ + 1]
       ELSE t \o <<0, 1>>

Packing(s) == [i \in 1..Len(s) |-> [t \in Seq(Byte) |-> Packed(t, s, i)]]

Packs(f, s) ==
    /\ f \in [0..Len(s) -> Seq(Byte)] /\ f[0] = <<>>
    /\ \A i \in 1..Len(s) : f[i] = Packed(f[i - 1], s, i)

LEMMA PackedIs ==
    ASSUME NEW t \in Seq(Byte), NEW s \in Seq(Byte), NEW i \in 1..Len(s)
    PROVE  Packed(t, s, i) \in Seq(Byte) /\ Len(Packed(t, s, i)) <= Len(t) + 2
  <1> DEFINE n == Len(t)
             c == s[i]
  <1>1. n \in Nat /\ c \in Byte /\ Radix \in Nat /\ Radix >= 2
    BY LenProperties, ElementOfSeq, RadixIs
  <1>2. CASE c # 0
    BY <1>1, AppendProperties, <1>2 DEF Packed
  <1>3. CASE c = 0 /\ n > 1 /\ t[n - 1] = 0 /\ t[n] < Radix - 1 /\ s[i - 1] = 0
    <2>1. n \in 1..Len(t)
      BY <1>1, <1>3
    <2>2. t[n] \in Byte
      BY <2>1, ElementOfSeq
    <2>3. t[n] + 1 \in Byte
      BY <1>1, <1>3, <2>2 DEF Byte
    <2>4. [t EXCEPT ![n] = t[n] + 1] \in Seq(Byte) /\ Len([t EXCEPT ![n] = t[n] + 1]) = n
      <3> DEFINE e == t[n] + 1
                 m == n
      <3>1. m \in 1..Len(t)
        BY <2>1
      <3>2. e \in Byte
        BY <2>3
      <3> HIDE DEF e, m
      <3>3. [t EXCEPT ![m] = e] \in Seq(Byte) /\ Len([t EXCEPT ![m] = e]) = Len(t)
        BY <3>1, <3>2, ExceptSeq
      <3> QED
        BY <3>3 DEF e, m
    <2>5. Packed(t, s, i) = [t EXCEPT ![n] = t[n] + 1]
      BY <1>3 DEF Packed
    <2> QED
      BY <1>1, <2>4, <2>5
  <1>4. CASE c = 0 /\ ~(n > 1 /\ t[n - 1] = 0 /\ t[n] < Radix - 1 /\ s[i - 1] = 0)
    <2> DEFINE w == <<0, 1>>
    <2>1. w \in Seq(Byte) /\ Len(w) = 2
      BY <1>1 DEF Byte
    <2>2. Packed(t, s, i) = t \o w
      BY <1>4 DEF Packed
    <2> HIDE DEF w
    <2>3. t \o w \in Seq(Byte) /\ Len(t \o w) = n + 2
      <3>1. t \o w \in Seq(Byte) /\ Len(t \o w) = Len(t) + Len(w)
        BY <2>1, ConcatProperties
      <3> QED
        BY <2>1, <3>1
    <2> QED
      BY <1>1, <2>2, <2>3
  <1> QED
    BY <1>2, <1>3, <1>4

LEMMA DeflatedIs ==
    ASSUME NEW s \in Seq(Byte)
    PROVE  \E f : Packs(f, s) /\ Deflated(s) = f[Len(s)]
  <1> DEFINE n == Len(s)
             is(f) == f = [i \in 0..n |-> IF i = 0 THEN <<>> ELSE Packed(f[i - 1], s, i)]
             p == CHOOSE f : is(f)
             x == <<>>
             step == Packing(s)
             B == Seq(Byte)
  <1>0. n \in Nat
    BY LenProperties
  <1>1. \A i \in 1..n : \A y \in B : step[i][y] = Packed(y, s, i) /\ step[i][y] \in B
    BY <1>0, PackedIs DEF Packing
  <1>s. x \in B
    OBVIOUS
  <1> HIDE DEF step, B, x
  <1>2. PICK f : Follows(f, n, x, step)
    BY <1>0, Recursion
  <1>3. f \in [0..n -> B]
    <2> HIDE DEF n
    <2> QED
      BY <1>0, <1>1, <1>2, <1>s, StaysIn
  <1>4. \A i \in 1..n : f[i] = Packed(f[i - 1], s, i)
    <2> SUFFICES ASSUME NEW i \in 1..n PROVE f[i] = Packed(f[i - 1], s, i)
      OBVIOUS
    <2>1. i - 1 \in 0..n
      BY <1>0
    <2> QED
      BY <1>1, <1>2, <1>3, <2>1 DEF Follows
  <1>5. f[0] = x /\ f = [i \in 0..n |-> f[i]]
    BY <1>2 DEF Follows
  <1>6. is(f)
    <2> HIDE DEF n
    <2>1. \A i \in 0..n : f[i] = (IF i = 0 THEN x ELSE Packed(f[i - 1], s, i))
      BY <1>0, <1>4, <1>5
    <2>2. f = [i \in 0..n |-> IF i = 0 THEN x ELSE Packed(f[i - 1], s, i)]
      BY <1>5, <2>1
    <2> QED
      BY <2>2 DEF x
  <1>7. is(p)
    <2> HIDE DEF is
    <2> QED
      BY <1>6
  <1>8. \A i \in 0..n : p[i] = f[i]
    <2> DEFINE T == {i \in 0..n : p[i] = f[i]}
    <2>1. p[0] = x /\ \A i \in 1..n : p[i] = Packed(p[i - 1], s, i)
      <3> DEFINE h == p
      <3>1. h = [i \in 0..n |-> IF i = 0 THEN x ELSE Packed(h[i - 1], s, i)]
        BY <1>7 DEF x
      <3> HIDE DEF h, p, n
      <3>2. h[0] = x
        BY <1>0, <3>1
      <3>3. \A i \in 1..n : i \in 0..n /\ i # 0
        BY <1>0
      <3>4. \A i \in 1..n : h[i] = Packed(h[i - 1], s, i)
        BY <3>1, <3>3
      <3> QED
        BY <3>2, <3>4 DEF h
    <2> HIDE DEF p, n, is
    <2>2. 0 \in T
      BY <1>0, <1>5, <2>1
    <2>3. ASSUME NEW i \in 0..(n - 1), i \in T PROVE i + 1 \in T
      BY <1>0, <1>4, <2>1, <2>3
    <2> HIDE DEF T
    <2>4. \A i \in 0..n : i \in T
      BY <1>0, <2>2, <2>3, UpTo
    <2> QED
      BY <2>4 DEF T
  <1>9. Deflated(s) = p[n]
    BY DEF Deflated, Packed
  <1>10. Deflated(s) = f[n]
    <2> HIDE DEF p, n
    <2> QED
      BY <1>0, <1>8, <1>9
  <1>11. Packs(f, s)
    BY <1>3, <1>4, <1>5 DEF Packs, B, x
  <1> QED
    BY <1>10, <1>11

(* A code that ends with a number of zeros, the code of x. *)
EndsWithZeros(t, x) ==
    \E u \in Seq(Byte), y \in Seq(Byte), k \in 1..(Radix - 1) :
        t = u \o <<0, k>> /\ Run(u) = Plain(y) /\ x = y \o Zeros(k)

(* What the code of the first i bytes is. *)
CodeOf(t, s, i) ==
    /\ t \in Seq(Byte) /\ Len(t) <= 2 * i
    /\ Run(t) = Plain(SubSeq(s, 1, i))
    /\ i \in 1..Len(s) /\ s[i] = 0 => EndsWithZeros(t, SubSeq(s, 1, i))

LEMMA FrontNext ==
    ASSUME NEW s \in Seq(Byte), NEW i \in 0..(Len(s) - 1)
    PROVE  /\ SubSeq(s, 1, i) \in Seq(Byte) /\ SubSeq(s, 1, i + 1) \in Seq(Byte)
           /\ SubSeq(s, 1, i + 1) = SubSeq(s, 1, i) \o <<s[i + 1]>>
  <1> DEFINE j == i + 1
  <1>1. Len(s) \in Nat
    BY LenProperties
  <1>2. 1 \in 1..Len(s) /\ j \in 1..Len(s) /\ j - 1 = i /\ i \in Nat /\ j \in Nat
        /\ i <= Len(s) /\ j <= Len(s)
    BY <1>1
  <1> HIDE DEF j
  <1>3. SubSeq(s, 1, j) = SubSeq(s, 1, j - 1) \o <<s[j]>>
    BY <1>2, SubSeqRecursiveSecond
  <1>4. SubSeq(s, 1, i) \in Seq(Byte) /\ SubSeq(s, 1, j) \in Seq(Byte)
    BY <1>2, FrontIs
  <1> QED
    BY <1>2, <1>3, <1>4 DEF j

LEMMA MoreZeros ==
    ASSUME NEW k \in Nat, NEW y \in Seq(Byte)
    PROVE  (y \o Zeros(k)) \o <<0>> = y \o Zeros(k + 1)
  <1> DEFINE z == Zeros(k)
             o == <<0>>
             m == Zeros(k + 1)
  <1>1. z \in Seq(Byte) /\ Len(z) = k /\ \A i \in 1..k : z[i] = 0
    BY ZerosAre
  <1>2. o \in Seq(Byte) /\ Len(o) = 1 /\ o[1] = 0
    BY RadixIs DEF Byte
  <1>3. m \in Seq(Byte) /\ Len(m) = k + 1 /\ \A i \in 1..(k + 1) : m[i] = 0
    BY ZerosAre
  <1> HIDE DEF z, o, m
  <1>4. z \o o = m
    <2> DEFINE v == z \o o
    <2>1. /\ v \in Seq(Byte) /\ Len(v) = k + 1
          /\ \A i \in 1..(k + 1) : v[i] = IF i <= k THEN z[i] ELSE o[i - k]
      <3>1. /\ v \in Seq(Byte) /\ Len(v) = Len(z) + Len(o)
            /\ \A i \in 1..(Len(z) + Len(o)) : v[i] = IF i <= Len(z) THEN z[i] ELSE o[i - Len(z)]
        BY <1>1, <1>2, ConcatProperties
      <3> HIDE DEF v
      <3> QED
        BY <1>1, <1>2, <3>1
    <2> HIDE DEF v
    <2>2. \A i \in 1..Len(v) : v[i] = m[i]
      <3> SUFFICES ASSUME NEW i \in 1..Len(v) PROVE v[i] = m[i]
        OBVIOUS
      <3>1. i \in 1..(k + 1)
        BY <2>1
      <3>2. i \in 1..k \/ (i = k + 1 /\ i - k = 1)
        BY <3>1
      <3> QED
        BY <1>1, <1>2, <1>3, <2>1, <3>1, <3>2
    <2>3. v = m
      BY <1>3, <2>1, <2>2, SeqEqual
    <2> QED
      BY <2>3 DEF v
  <1>5. (y \o z) \o o = y \o (z \o o)
    BY <1>1, <1>2, ConcatAssociative
  <1>6. (y \o z) \o o = y \o m
    BY <1>4, <1>5
  <1> QED
    BY <1>6 DEF z, o, m

LEMMA PackedCode ==
    ASSUME NEW s \in Seq(Byte), NEW i \in 0..(Len(s) - 1), NEW t, CodeOf(t, s, i)
    PROVE  CodeOf(Packed(t, s, i + 1), s, i + 1)
  <1> DEFINE j == i + 1
             c == s[j]
             x == SubSeq(s, 1, i)
             w == Packed(t, s, j)
             n == Len(t)
  <1>0. Len(s) \in Nat /\ j \in 1..Len(s) /\ i \in Nat /\ j = i + 1 /\ j - 1 = i
    BY LenProperties
  <1>1. t \in Seq(Byte) /\ n <= 2 * i /\ Run(t) = Plain(x) /\ n \in Nat
    BY LenProperties DEF CodeOf
  <1>2. /\ x \in Seq(Byte) /\ SubSeq(s, 1, j) = x \o <<c>> /\ c \in Byte
    BY <1>0, FrontNext, ElementOfSeq
  <1>3. w \in Seq(Byte) /\ Len(w) <= 2 * j
    <2>1. w \in Seq(Byte) /\ Len(w) <= n + 2
      BY <1>0, <1>1, PackedIs
    <2>2. Len(w) \in Nat
      BY <2>1, LenProperties
    <2> HIDE DEF w, n, j
    <2> QED
      BY <1>0, <1>1, <2>1, <2>2
  <1>4. CASE c # 0
    <2>1. w = Append(t, c)
      BY <1>4 DEF Packed
    <2>2. w = t \o <<c>>
      BY <1>1, <1>2, <2>1, AppendIsConcat
    <2>3. Run(w) = Plain(x \o <<c>>)
      <3> HIDE DEF w, x, c
      <3> QED
        BY <1>1, <1>2, <1>4, <2>2, RunPlain
    <2> QED
      BY <1>2, <1>3, <1>4, <2>3 DEF CodeOf
  <1>5. CASE c = 0 /\ n > 1 /\ t[n - 1] = 0 /\ t[n] < Radix - 1 /\ s[j - 1] = 0
    <2>1. w = [t EXCEPT ![n] = t[n] + 1]
      BY <1>5 DEF Packed
    <2>2. i \in 1..Len(s) /\ s[i] = 0
      BY <1>0, <1>1, <1>5
    <2>3. PICK u \in Seq(Byte), y \in Seq(Byte), k \in 1..(Radix - 1) :
              t = u \o <<0, k>> /\ Run(u) = Plain(y) /\ x = y \o Zeros(k)
      BY <2>2 DEF CodeOf, EndsWithZeros
    <2> DEFINE m == k + 1
    <2>4. n = Len(u) + 2 /\ t[n] = k /\ w = u \o <<0, m>>
      <3> DEFINE a == <<0, k>>
                 b == <<0, m>>
      <3>1. a \in Seq(Nat) /\ b \in Seq(Nat) /\ Len(a) = 2 /\ Len(b) = 2
            /\ a[1] = 0 /\ a[2] = k /\ b[1] = 0 /\ b[2] = k + 1
        OBVIOUS
      <3> HIDE DEF a, b
      <3>2. u \in Seq(Nat) /\ Len(u) \in Nat
        BY RadixIs, SeqMonotonic, LenProperties
      <3>3. /\ t = u \o a /\ t \in Seq(Nat) /\ n = Len(u) + 2
            /\ \A l \in 1..n : t[l] = IF l <= Len(u) THEN u[l] ELSE a[l - Len(u)]
        BY <2>3, <3>1, <3>2, ConcatProperties DEF a
      <3> DEFINE v == u \o b
      <3>4. /\ v \in Seq(Nat) /\ Len(v) = Len(u) + 2
            /\ \A l \in 1..(Len(u) + 2) : v[l] = IF l <= Len(u) THEN u[l] ELSE b[l - Len(u)]
        <4>1. /\ v \in Seq(Nat) /\ Len(v) = Len(u) + Len(b)
              /\ \A l \in 1..(Len(u) + Len(b)) : v[l] = IF l <= Len(u) THEN u[l] ELSE b[l - Len(u)]
          BY <3>1, <3>2, ConcatProperties
        <4> HIDE DEF v
        <4> QED
          BY <3>1, <4>1
      <3> HIDE DEF v
      <3>5. t[n] = k
        BY <3>2, <3>3, <3>1
      <3>6. [t EXCEPT ![n] = t[n] + 1] = v
        <4> DEFINE r == [t EXCEPT ![n] = t[n] + 1]
        <4>1. n \in 1..Len(t) /\ k + 1 \in Nat
          BY <3>2, <3>3
        <4>2. r = [t EXCEPT ![n] = k + 1]
          BY <3>5
        <4>3. /\ r \in Seq(Nat) /\ Len(r) = n
              /\ \A l \in 1..n : r[l] = IF l = n THEN k + 1 ELSE t[l]
          <5> DEFINE e == k + 1
                     q == n
          <5>1. q \in 1..Len(t) /\ e \in Nat
            BY <4>1
          <5> HIDE DEF e, q
          <5>2. /\ [t EXCEPT ![q] = e] \in Seq(Nat) /\ Len([t EXCEPT ![q] = e]) = Len(t)
                /\ \A l \in 1..Len(t) : [t EXCEPT ![q] = e][l] = IF l = q THEN e ELSE t[l]
            <6>1. t \in Seq(Nat)
              BY <3>3
            <6> QED
              BY <5>1, <6>1, ExceptSeq
          <5> QED
            BY <4>2, <5>2 DEF e, q
        <4> HIDE DEF r
        <4>4. \A l \in 1..Len(r) : r[l] = v[l]
          <5> SUFFICES ASSUME NEW l \in 1..Len(r) PROVE r[l] = v[l]
            OBVIOUS
          <5>1. l \in 1..n /\ l \in 1..(Len(u) + 2)
            BY <3>3, <4>3
          <5>2. CASE l <= Len(u)
            <6>1. l # n
              BY <3>2, <3>3, <5>1, <5>2
            <6> QED
              BY <3>3, <3>4, <4>3, <5>1, <5>2, <6>1
          <5>3. CASE l = Len(u) + 1
            <6>1. l # n /\ ~(l <= Len(u)) /\ l - Len(u) = 1
              BY <3>2, <3>3, <5>1, <5>3
            <6> QED
              BY <3>1, <3>3, <3>4, <4>3, <5>1, <6>1
          <5>4. CASE l = Len(u) + 2
            <6>1. l = n /\ ~(l <= Len(u)) /\ l - Len(u) = 2
              BY <3>2, <3>3, <5>1, <5>4
            <6> QED
              BY <3>1, <3>4, <4>3, <5>1, <6>1
          <5> QED
            BY <3>2, <5>1, <5>2, <5>3, <5>4
        <4>5. r = v
          BY <3>3, <3>4, <4>3, <4>4, SeqEqual
        <4> QED
          BY <4>5 DEF r
      <3> QED
        BY <2>1, <3>3, <3>5, <3>6 DEF v, b
    <2>5. m \in 1..(Radix - 1) /\ m \in Byte
      BY <1>5, <2>4, RadixIs DEF Byte
    <2>6. Run(w) = Plain(y \o Zeros(m))
      <3> HIDE DEF m, w
      <3> QED
        BY <2>3, <2>4, <2>5, RunZeros
    <2>7. y \o Zeros(m) = x \o <<0>>
      <3>1. k \in Nat
        OBVIOUS
      <3>2. (y \o Zeros(k)) \o <<0>> = y \o Zeros(k + 1)
        BY <3>1, MoreZeros
      <3> HIDE DEF x
      <3> QED
        BY <2>3, <3>2
    <2>8. SubSeq(s, 1, j) = y \o Zeros(m)
      BY <1>2, <1>5, <2>7
    <2> HIDE DEF m, w, j, x
    <2>9. EndsWithZeros(w, SubSeq(s, 1, j))
      BY <2>3, <2>4, <2>5, <2>8 DEF EndsWithZeros
    <2> QED
      BY <1>3, <2>6, <2>8, <2>9 DEF CodeOf, j, w
  <1>6. CASE c = 0 /\ ~(n > 1 /\ t[n - 1] = 0 /\ t[n] < Radix - 1 /\ s[j - 1] = 0)
    <2> DEFINE m == 1
    <2>1. w = t \o <<0, m>>
      BY <1>6 DEF Packed
    <2>2. m \in 1..(Radix - 1) /\ m \in Byte /\ m = 1
      BY RadixIs DEF Byte
    <2>3. Zeros(m) = <<0>>
      BY DEF Zeros
    <2> HIDE DEF m, w, j, x, c
    <2>4. Run(w) = Plain(x \o Zeros(m))
      BY <1>1, <2>1, <2>2, RunZeros
    <2>5. SubSeq(s, 1, j) = x \o Zeros(m)
      BY <1>2, <1>6, <2>3
    <2>6. EndsWithZeros(w, SubSeq(s, 1, j))
      BY <1>1, <1>2, <2>1, <2>2, <2>5 DEF EndsWithZeros
    <2> QED
      BY <1>3, <2>4, <2>5, <2>6 DEF CodeOf, j, w
  <1> QED
    BY <1>4, <1>5, <1>6

(* What was compressed is unpacked as it was; it is at most twice as long. *)
LEMMA InflatedDeflated ==
    ASSUME NEW s \in Seq(Byte)
    PROVE  /\ Deflated(s) \in Seq(Byte) /\ Len(Deflated(s)) <= 2 * Len(s)
           /\ Inflated(Deflated(s)) = s
  <1> DEFINE n == Len(s)
  <1>0. n \in Nat
    BY LenProperties
  <1>1. PICK f : Packs(f, s) /\ Deflated(s) = f[n]
    BY DeflatedIs
  <1> DEFINE T == {i \in 0..n : CodeOf(f[i], s, i)}
  <1>2. 0 \in T
    <2>1. f[0] = <<>>
      BY <1>1 DEF Packs
    <2>2. SubSeq(s, 1, 0) = <<>>
      BY SubSeqEmpty
    <2>3. CodeOf(<<>>, s, 0)
      <3>1. <<>> \in Seq(Byte) /\ Len(<<>>) = 0 /\ 0 \notin 1..Len(s)
        BY <1>0
      <3>2. Run(<<>>) = Plain(SubSeq(s, 1, 0))
        BY <2>2, RunNothing
      <3> QED
        BY <3>1, <3>2 DEF CodeOf
    <2> QED
      BY <1>0, <2>1, <2>3
  <1>3. ASSUME NEW i \in 0..(n - 1), i \in T PROVE i + 1 \in T
    BY <1>0, <1>1, <1>3, PackedCode DEF Packs
  <1> HIDE DEF T
  <1>4. n \in T
    <2>1. \A i \in 0..n : i \in T
      BY <1>0, <1>2, <1>3, UpTo
    <2> QED
      BY <1>0, <2>1
  <1>5. CodeOf(Deflated(s), s, n)
    BY <1>1, <1>4 DEF T
  <1>6. SubSeq(s, 1, n) = s
    BY SubSeqFull
  <1>7. Inflated(Deflated(s)) = Plain(s).t
    BY <1>5, <1>6, InflatedIsRun DEF CodeOf
  <1> QED
    BY <1>5, <1>7 DEF CodeOf, Plain

-----------------------------------------------------------------------------
(* A ZlibStream: its buffers, and an array that goes through one.          *)

(* The buffers of a ZlibStream that holds s. *)
Buffers(s) ==
    [i \in 1..(Len(s) \div BuffSize + 1) |->
        SubSeq(s, (i - 1) * BuffSize + 1, AtMost(i * BuffSize, Len(s)))]

Upto(s, i) == SubSeq(s, 1, AtMost(i * BuffSize, Len(s)))

LEMMA BuffersAre ==
    ASSUME NEW s \in Seq(Cell)
    PROVE  LET n == Len(s) \div BuffSize + 1 IN
           /\ n \in Nat \ {0} /\ Len(Buffers(s)) = n
           /\ Upto(s, 0) = <<>> /\ Upto(s, n) = s
           /\ \A i \in 1..n : /\ Buffers(s)[i] \in Seq(Cell)
                              /\ Upto(s, i - 1) \o Buffers(s)[i] = Upto(s, i)
  <1> DEFINE l == Len(s)
             q == l \div BuffSize
             n == q + 1
             cut(i) == AtMost(i * BuffSize, l)
  <1>1. l \in Nat /\ BuffSize \in Nat \ {0}
    BY LenProperties, ExchangeAssumption
  <1>2. q \in Nat /\ q * BuffSize <= l /\ l < q * BuffSize + BuffSize /\ n \in Nat \ {0}
    <2> DEFINE r == l % BuffSize
    <2>1. l = BuffSize * q + r /\ r \in 0..(BuffSize - 1) /\ q \in Nat
      BY <1>1, DivMod
    <2> HIDE DEF q, r, l
    <2>2. BuffSize * q = q * BuffSize
      BY <1>1, <2>1
    <2> QED
      BY <1>1, <2>1, <2>2
  <1> HIDE DEF q, l
  <1>3. cut(n) = l
    BY <1>1, <1>2 DEF AtMost
  <1>4. \A i \in 0..q : cut(i) = i * BuffSize /\ cut(i) \in Nat /\ cut(i) <= l
    <2> SUFFICES ASSUME NEW i \in 0..q PROVE cut(i) = i * BuffSize /\ cut(i) \in Nat /\ cut(i) <= l
      OBVIOUS
    <2>1. i * BuffSize <= q * BuffSize /\ i * BuffSize \in Nat
      BY <1>1, <1>2
    <2> QED
      BY <1>1, <1>2, <2>1 DEF AtMost
  <1>5. \A i \in 0..n : cut(i) \in Nat /\ cut(i) <= l
    BY <1>2, <1>1, <1>3, <1>4
  <1>6. \A i \in 1..n : cut(i - 1) <= cut(i) /\ cut(i - 1) = (i - 1) * BuffSize
                        /\ cut(i - 1) \in Nat /\ cut(i) \in Nat /\ cut(i) <= l
    <2> SUFFICES ASSUME NEW i \in 1..n
                 PROVE  /\ cut(i - 1) <= cut(i) /\ cut(i - 1) = (i - 1) * BuffSize
                        /\ cut(i - 1) \in Nat /\ cut(i) \in Nat /\ cut(i) <= l
      OBVIOUS
    <2>1. i - 1 \in 0..q /\ i \in 0..n
      BY <1>2
    <2>2. cut(i - 1) = (i - 1) * BuffSize /\ cut(i - 1) \in Nat /\ cut(i - 1) <= l
      BY <1>4, <2>1
    <2>3. cut(i) \in Nat /\ cut(i) <= l
      BY <1>5, <2>1
    <2>4. cut(i) = i * BuffSize \/ cut(i) = l
      BY DEF AtMost
    <2>5. (i - 1) * BuffSize <= i * BuffSize
      BY <1>1, <1>2
    <2> HIDE DEF cut
    <2> QED
      BY <2>2, <2>3, <2>4, <2>5
  <1>7. \A i \in 0..n : Upto(s, i) = SubSeq(s, 1, cut(i))
    BY DEF Upto, l
  <1>8. \A i \in 1..n : Buffers(s)[i] = SubSeq(s, cut(i - 1) + 1, cut(i))
    <2> SUFFICES ASSUME NEW i \in 1..n PROVE Buffers(s)[i] = SubSeq(s, cut(i - 1) + 1, cut(i))
      OBVIOUS
    <2>1. Buffers(s)[i] = SubSeq(s, (i - 1) * BuffSize + 1, cut(i))
      BY DEF Buffers, q, l
    <2>2. cut(i - 1) = (i - 1) * BuffSize
      BY <1>6
    <2> HIDE DEF cut
    <2> QED
      BY <2>1, <2>2
  <1>9. Len(Buffers(s)) = n
    BY <1>2 DEF Buffers, q, l
  <1> HIDE DEF cut, n
  <1>10. ASSUME NEW i \in 1..n
         PROVE  /\ Buffers(s)[i] \in Seq(Cell)
                /\ Upto(s, i - 1) \o Buffers(s)[i] = Upto(s, i)
    <2> DEFINE a == cut(i - 1)
               b == cut(i)
    <2>1. a \in Nat /\ b \in Nat /\ a <= b /\ b <= l
      BY <1>6
    <2>2. i - 1 \in 0..n /\ i \in 0..n
      BY <1>2
    <2>3. /\ Upto(s, i - 1) = SubSeq(s, 1, a) /\ Upto(s, i) = SubSeq(s, 1, b)
          /\ Buffers(s)[i] = SubSeq(s, a + 1, b)
      BY <1>7, <1>8, <2>2
    <2> HIDE DEF a, b
    <2>4. 1 \in 1..(Len(s) + 1) /\ a \in (1 - 1)..Len(s) /\ b \in a..Len(s)
      BY <1>1, <2>1 DEF l
    <2>5. SubSeq(s, 1, a) \o SubSeq(s, a + 1, b) = SubSeq(s, 1, b)
      BY <2>4, ConcatAdjacentSubSeq
    <2>6. SubSeq(s, a + 1, b) \in Seq(Cell)
      <3> DEFINE k == b - a
      <3>1. k \in Nat /\ a + k = b /\ a + k <= Len(s)
        BY <2>1 DEF l
      <3> HIDE DEF k
      <3>2. SubSeq(s, a + 1, a + k) \in Seq(Cell)
        BY <2>1, <3>1, Stretch
      <3> QED
        BY <3>1, <3>2
    <2> QED
      BY <2>3, <2>5, <2>6
  <1>11. Upto(s, 0) = <<>>
    <2> DEFINE z == 0
    <2>0. z \in 0..q
      BY <1>2
    <2>00. z * BuffSize = 0
      BY <1>1
    <2> HIDE DEF z
    <2>01. cut(z) = z * BuffSize
      BY <1>4, <2>0
    <2>1. cut(0) = 0
      BY <2>00, <2>01 DEF z
    <2>2. 0 \in 0..n
      BY <1>2 DEF n
    <2>3. Upto(s, 0) = SubSeq(s, 1, 0)
      BY <1>7, <2>1, <2>2
    <2> QED
      BY <2>3, SubSeqEmpty
  <1>12. Upto(s, n) = s
    BY <1>2, <1>3, <1>7, SubSeqFull DEF n, l
  <1> QED
    BY <1>2, <1>9, <1>10, <1>11, <1>12 DEF n, q, l

Arrays == {b \in ArrayType : Sound(b)}

(* getByteArray puts the buffers one behind another. *)
LEMMA ArrayOfBuffers ==
    ASSUME NEW s \in Seq(Cell), NEW z, z.buffs = Buffers(s)
    PROVE  Holds(getByteArray(z), s, 0)
  <1> DEFINE bs == Buffers(s)
             n == Len(s) \div BuffSize + 1
             m == Len(z.buffs)
             is(f) == f = [i \in 0..m |-> IF i = 0 THEN NewArray ELSE write(f[i - 1], z.buffs[i])]
             p == CHOOSE f : is(f)
             step == [i \in 1..n |-> [b \in Arrays |-> write(b, bs[i])]]
             x == NewArray
             S == Arrays
  <1>1. /\ n \in Nat \ {0} /\ Len(bs) = n /\ Upto(s, 0) = <<>> /\ Upto(s, n) = s
        /\ \A i \in 1..n : /\ bs[i] \in Seq(Cell)
                           /\ Upto(s, i - 1) \o bs[i] = Upto(s, i)
    BY BuffersAre
  <1>2. m = n /\ z.buffs = bs
    BY <1>1
  <1> HIDE DEF bs, n, m
  <1>3. \A i \in 1..n : \A b \in S : step[i][b] = write(b, bs[i]) /\ step[i][b] \in S
    <2> SUFFICES ASSUME NEW i \in 1..n, NEW b \in S
                 PROVE  step[i][b] = write(b, bs[i]) /\ step[i][b] \in S
      OBVIOUS
    <2>1. step[i][b] = write(b, bs[i])
      OBVIOUS
    <2>2. Sound(write(b, bs[i]))
      BY <1>1, WriteIs DEF Arrays
    <2>3. write(b, bs[i]) \in Arrays
      BY <2>2 DEF Arrays, Sound
    <2> HIDE DEF step
    <2> QED
      BY <2>1, <2>3
  <1>4. x \in S
    BY NewArrayIs DEF Arrays, Sound
  <1> HIDE DEF step, x, S
  <1>5. PICK f : Follows(f, n, x, step)
    BY <1>1, Recursion
  <1>6. f \in [0..n -> S]
    <2>1. n \in Nat /\ \A i \in 1..n : \A b \in S : step[i][b] \in S
      BY <1>1, <1>3
    <2> QED
      BY <2>1, <1>4, <1>5, StaysIn
  <1>7. \A i \in 1..n : f[i] = write(f[i - 1], bs[i])
    <2> SUFFICES ASSUME NEW i \in 1..n PROVE f[i] = write(f[i - 1], bs[i])
      OBVIOUS
    <2>1. i - 1 \in 0..n
      BY <1>1
    <2> QED
      BY <1>3, <1>5, <1>6, <2>1 DEF Follows
  <1>8. f[0] = x /\ f = [i \in 0..n |-> f[i]]
    BY <1>5 DEF Follows
  <1>9. is(f)
    <2>1. \A i \in 0..n : f[i] = (IF i = 0 THEN x ELSE write(f[i - 1], bs[i]))
      <3>1. \A i \in 0..n : i = 0 \/ i \in 1..n
        BY <1>1
      <3> QED
        BY <1>7, <1>8, <3>1
    <2>2. f = [i \in 0..n |-> IF i = 0 THEN x ELSE write(f[i - 1], bs[i])]
      BY <1>8, <2>1
    <2> QED
      BY <1>2, <2>2 DEF x
  <1>10. is(p)
    <2> HIDE DEF is
    <2> QED
      BY <1>9
  <1>11. p[0] = x /\ \A i \in 1..n : p[i] = write(p[i - 1], bs[i])
    <2> DEFINE h == p
    <2>1. h = [i \in 0..n |-> IF i = 0 THEN x ELSE write(h[i - 1], bs[i])]
      BY <1>2, <1>10 DEF x
    <2> HIDE DEF h, p
    <2>2. h[0] = x
      BY <1>1, <2>1
    <2>3. \A i \in 1..n : i \in 0..n /\ i # 0
      BY <1>1
    <2>4. \A i \in 1..n : h[i] = write(h[i - 1], bs[i])
      BY <2>1, <2>3
    <2> QED
      BY <2>2, <2>4 DEF h
  <1>12. getByteArray(z) = setPosition(p[n], 0).ba
    BY <1>2 DEF getByteArray, m
  <1> HIDE DEF p, is
  <1> DEFINE T == {i \in 0..n : Holds(p[i], Upto(s, i), Len(Upto(s, i)))}
  <1>13. 0 \in T
    BY <1>1, <1>11, HoldsNew DEF x
  <1>14. ASSUME NEW i \in 0..(n - 1), i \in T PROVE i + 1 \in T
    <2>1. i + 1 \in 1..n /\ (i + 1) - 1 = i /\ i + 1 \in 0..n
      BY <1>1
    <2>2. p[i + 1] = write(p[i], bs[i + 1]) /\ bs[i + 1] \in Seq(Cell)
          /\ Upto(s, i) \o bs[i + 1] = Upto(s, i + 1)
      BY <1>1, <1>11, <2>1
    <2>3. Holds(p[i], Upto(s, i), Len(Upto(s, i)))
      BY <1>14
    <2>4. Holds(write(p[i], bs[i + 1]), Upto(s, i) \o bs[i + 1], Len(Upto(s, i) \o bs[i + 1]))
      BY <2>2, <2>3, HoldsWrite
    <2> QED
      BY <2>1, <2>2, <2>4
  <1>15. Holds(p[n], s, Len(s))
    <2> HIDE DEF T
    <2>1. \A i \in 0..n : i \in T
      BY <1>1, <1>13, <1>14, UpTo
    <2>2. n \in T
      BY <1>1, <2>1
    <2> QED
      BY <1>1, <2>2 DEF T
  <1>16. 0 \in 0..Len(s)
    BY LenProperties
  <1> QED
    BY <1>12, <1>15, <1>16, HoldsAt

(* What comes out of zlib when s goes in. *)
CodedIs(m_encode, s) == IF m_encode THEN Deflated(s) ELSE Inflated(s)

LEMMA ThroughIs ==
    ASSUME NEW b, NEW s \in Seq(Cell), Holds(b, s, 0), NEW m \in BOOLEAN,
           CodedIs(m, s) \in Seq(Cell)
    PROVE  Holds(Through(b, m), CodedIs(m, s), 0)
  <1> DEFINE g == Gather(b.data, getReadBuffers(b, getReadSize(b)))
             z == encode(NewStream(m), g, FALSE)
             y == encode(z, <<>>, TRUE)
             n == getReadSize(b)
             c == CodedIs(m, s)
  <1>1. n = Len(s) /\ Len(s) \in Nat
    BY HoldsType DEF getReadSize, Holds
  <1>2. g = s
    <2> HIDE DEF n
    <2>1. Gather(b.data, getReadBuffers(b, n)) = SubSeq(s, 0 + 1, 0 + AtMost(n, Len(s) - 0))
      BY <1>1, HoldsGather
    <2>2. AtMost(n, Len(s) - 0) = Len(s)
      BY <1>1 DEF AtMost
    <2>3. SubSeq(s, 0 + 1, 0 + AtMost(n, Len(s) - 0)) = SubSeq(s, 1, Len(s))
      BY <1>1, <2>2
    <2> QED
      BY <2>1, <2>3, SubSeqFull DEF n
  <1> HIDE DEF g
  <1>3. z.encode = m /\ z.fed = s
    BY ConcatEmptySeq, <1>2 DEF encode, NewStream
  <1> HIDE DEF z
  <1>4. y.buffs = Buffers(c)
    <2>1. z.fed \o <<>> = s
      BY <1>3, ConcatEmptySeq
    <2>2. Coded(z, s) = c
      BY <1>3 DEF Coded, CodedIs
    <2> HIDE DEF c
    <2> QED
      BY <2>1, <2>2 DEF encode, Buffers
  <1> HIDE DEF y
  <1>5. Through(b, m) = getByteArray(y)
    BY DEF Through, g, y, z
  <1> QED
    BY <1>4, <1>5, ArrayOfBuffers

-----------------------------------------------------------------------------
(* Messages as bytes.                                                      *)

LEMMA FieldsAre ==
    /\ Fields(REQUEST) = RequestFields /\ Fields(RESPONSE) = ResponseFields
    /\ Len(RequestFields) = 3 /\ Len(ResponseFields) = 5
    /\ RequestFields[1] = "sn" /\ RequestFields[2] = "cmd" /\ RequestFields[3] = "body"
    /\ ResponseFields[1] = "sn" /\ ResponseFields[2] = "cmd" /\ ResponseFields[3] = "result"
    /\ ResponseFields[4] = "resultStr" /\ ResponseFields[5] = "body"
    /\ IsString("body") /\ IsString("resultStr")
    /\ ~IsString("sn") /\ ~IsString("cmd") /\ ~IsString("result")
  BY DEF Fields, REQUEST, RESPONSE, NOTIFY, RequestFields, ResponseFields, IsString

LEMMA SerializedRequest ==
    ASSUME NEW ba, NEW msg, msg.type = REQUEST
    PROVE  serializeToByteArray(ba, msg) =
             writeString(writeFixed(writeFixed(writeFixed(ba, 1, REQUEST), 4, msg.sn), 4, msg.cmd),
                         4, msg.body)
  <1> DEFINE fields == Fields(msg.type)
             put(y, k) == IF IsString(k) THEN writeString(y, 4, msg[k]) ELSE writeFixed(y, 4, msg[k])
             all(f) == [i \in 0..Len(fields) |->
                           IF i = 0 THEN writeFixed(ba, 1, msg.type)
                           ELSE IF IsString(fields[i])
                                THEN writeString(f[i - 1], 4, msg[fields[i]])
                                ELSE writeFixed(f[i - 1], 4, msg[fields[i]])]
             is(f) == f = all(f)
             p == CHOOSE f : is(f)
             a0 == writeFixed(ba, 1, REQUEST)
             a1 == writeFixed(a0, 4, msg.sn)
             a2 == writeFixed(a1, 4, msg.cmd)
             a3 == writeString(a2, 4, msg.body)
             e == [i \in 0..3 |-> IF i = 0 THEN a0 ELSE IF i = 1 THEN a1
                                  ELSE IF i = 2 THEN a2 ELSE a3]
  <1>1. serializeToByteArray(ba, msg) = p[Len(fields)]
    BY DEF serializeToByteArray
  <1>2. \A f : all(f) = [i \in 0..3 |->
                            IF i = 0 THEN a0 ELSE put(f[i - 1], RequestFields[i])]
    BY FieldsAre
  <1>3. Len(fields) = 3
    BY FieldsAre
  <1>4. /\ \A y : put(y, "sn") = writeFixed(y, 4, msg.sn)
        /\ \A y : put(y, "cmd") = writeFixed(y, 4, msg.cmd)
        /\ \A y : put(y, "body") = writeString(y, 4, msg.body)
    BY FieldsAre
  <1> HIDE DEF all, put, fields
  <1>5. /\ e[0] = a0 /\ e[1] = put(e[0], RequestFields[1])
        /\ e[2] = put(e[1], RequestFields[2]) /\ e[3] = put(e[2], RequestFields[3])
    BY <1>4, FieldsAre
  <1>6. is(e)
    <2>1. \A i \in 0..3 : i = 0 \/ i = 1 \/ i = 2 \/ i = 3
      OBVIOUS
    <2>2. e = [i \in 0..3 |-> e[i]]
      OBVIOUS
    <2> HIDE DEF e, a0
    <2>3. \A i \in 0..3 : e[i] = (IF i = 0 THEN a0 ELSE put(e[i - 1], RequestFields[i]))
      BY <1>5, <2>1
    <2>4. e = [i \in 0..3 |-> IF i = 0 THEN a0 ELSE put(e[i - 1], RequestFields[i])]
      BY <2>2, <2>3
    <2> QED
      BY <1>2, <2>4
  <1>7. is(p)
    <2> HIDE DEF is
    <2> QED
      BY <1>6
  <1> HIDE DEF p
  <1>8. /\ p[0] = a0 /\ p[1] = put(p[0], RequestFields[1])
        /\ p[2] = put(p[1], RequestFields[2]) /\ p[3] = put(p[2], RequestFields[3])
    <2> HIDE DEF a0
    <2>1. p = [i \in 0..3 |-> IF i = 0 THEN a0 ELSE put(p[i - 1], RequestFields[i])]
      BY <1>2, <1>7
    <2>2. \A i \in 0..3 : p[i] = (IF i = 0 THEN a0 ELSE put(p[i - 1], RequestFields[i]))
      BY <2>1
    <2> QED
      BY <2>2
  <1>9. p[3] = a3
    BY <1>4, <1>8, FieldsAre
  <1> QED
    BY <1>1, <1>3, <1>9

LEMMA SerializedResponse ==
    ASSUME NEW ba, NEW msg, msg.type = RESPONSE
    PROVE  serializeToByteArray(ba, msg) =
             writeString(writeString(writeFixed(writeFixed(writeFixed(writeFixed(ba, 1, RESPONSE),
                         4, msg.sn), 4, msg.cmd), 4, msg.result), 4, msg.resultStr), 4, msg.body)
  <1> DEFINE fields == Fields(msg.type)
             put(y, k) == IF IsString(k) THEN writeString(y, 4, msg[k]) ELSE writeFixed(y, 4, msg[k])
             all(f) == [i \in 0..Len(fields) |->
                           IF i = 0 THEN writeFixed(ba, 1, msg.type)
                           ELSE IF IsString(fields[i])
                                THEN writeString(f[i - 1], 4, msg[fields[i]])
                                ELSE writeFixed(f[i - 1], 4, msg[fields[i]])]
             is(f) == f = all(f)
             p == CHOOSE f : is(f)
             a0 == writeFixed(ba, 1, RESPONSE)
             a1 == writeFixed(a0, 4, msg.sn)
             a2 == writeFixed(a1, 4, msg.cmd)
             a3 == writeFixed(a2, 4, msg.result)
             a4 == writeString(a3, 4, msg.resultStr)
             a5 == writeString(a4, 4, msg.body)
             e == [i \in 0..5 |-> IF i = 0 THEN a0 ELSE IF i = 1 THEN a1
                                  ELSE IF i = 2 THEN a2 ELSE IF i = 3 THEN a3
                                  ELSE IF i = 4 THEN a4 ELSE a5]
  <1>1. serializeToByteArray(ba, msg) = p[Len(fields)]
    BY DEF serializeToByteArray
  <1>2. \A f : all(f) = [i \in 0..5 |->
                            IF i = 0 THEN a0 ELSE put(f[i - 1], ResponseFields[i])]
    BY FieldsAre
  <1>3. Len(fields) = 5
    BY FieldsAre
  <1>4. /\ \A y : put(y, "sn") = writeFixed(y, 4, msg.sn)
        /\ \A y : put(y, "cmd") = writeFixed(y, 4, msg.cmd)
        /\ \A y : put(y, "result") = writeFixed(y, 4, msg.result)
        /\ \A y : put(y, "resultStr") = writeString(y, 4, msg.resultStr)
        /\ \A y : put(y, "body") = writeString(y, 4, msg.body)
    BY FieldsAre
  <1> HIDE DEF all, put, fields
  <1>5. /\ e[0] = a0 /\ e[1] = put(e[0], ResponseFields[1])
        /\ e[2] = put(e[1], ResponseFields[2]) /\ e[3] = put(e[2], ResponseFields[3])
        /\ e[4] = put(e[3], ResponseFields[4]) /\ e[5] = put(e[4], ResponseFields[5])
    BY <1>4, FieldsAre
  <1>6. is(e)
    <2>1. \A i \in 0..5 : i = 0 \/ i = 1 \/ i = 2 \/ i = 3 \/ i = 4 \/ i = 5
      OBVIOUS
    <2>2. e = [i \in 0..5 |-> e[i]]
      OBVIOUS
    <2> HIDE DEF e, a0
    <2>3. \A i \in 0..5 : e[i] = (IF i = 0 THEN a0 ELSE put(e[i - 1], ResponseFields[i]))
      BY <1>5, <2>1
    <2>4. e = [i \in 0..5 |-> IF i = 0 THEN a0 ELSE put(e[i - 1], ResponseFields[i])]
      BY <2>2, <2>3
    <2> QED
      BY <1>2, <2>4
  <1>7. is(p)
    <2> HIDE DEF is
    <2> QED
      BY <1>6
  <1> HIDE DEF p
  <1>8. /\ p[0] = a0 /\ p[1] = put(p[0], ResponseFields[1])
        /\ p[2] = put(p[1], ResponseFields[2]) /\ p[3] = put(p[2], ResponseFields[3])
        /\ p[4] = put(p[3], ResponseFields[4]) /\ p[5] = put(p[4], ResponseFields[5])
    <2> HIDE DEF a0
    <2>1. p = [i \in 0..5 |-> IF i = 0 THEN a0 ELSE put(p[i - 1], ResponseFields[i])]
      BY <1>2, <1>7
    <2>2. \A i \in 0..5 : p[i] = (IF i = 0 THEN a0 ELSE put(p[i - 1], ResponseFields[i]))
      BY <2>1
    <2> QED
      BY <2>2
  <1>9. p[5] = a5
    BY <1>4, <1>8, FieldsAre
  <1> QED
    BY <1>1, <1>3, <1>9

(* Concatenation, closed to the provers. *)
Cells(a) == a \in Seq(Cell)
Cat(a, b) == a \o b

LEMMA Joined ==
    ASSUME NEW a, NEW b, Cells(a), Cells(b)
    PROVE  Cells(Cat(a, b))
  BY ConcatProperties DEF Cells, Cat

LEMMA Turned ==
    ASSUME NEW a, NEW b, NEW c, Cells(a), Cells(b), Cells(c)
    PROVE  Cat(Cat(a, b), c) = Cat(a, Cat(b, c))
  BY ConcatAssociative DEF Cells, Cat

LEMMA Regroup ==
    ASSUME NEW a, NEW b, NEW c, NEW d, Cells(a), Cells(b), Cells(c), Cells(d)
    PROVE  Cat(Cat(Cat(a, b), c), d) = Cat(a, Cat(b, Cat(c, d)))
  BY Joined, Turned

(* The bytes of a request and of a response. *)
RequestBytes(m) == Cat(<<REQUEST>>, Cat(Word(m.sn), Cat(Word(m.cmd), Text(m.body))))
ResponseBytes(m) ==
    Cat(<<RESPONSE>>, Cat(Word(m.sn), Cat(Word(m.cmd),
        Cat(Word(m.result), Cat(Text(m.resultStr), Text(m.body))))))

LEMMA TextType ==
    ASSUME NEW x \in Seq(Byte)
    PROVE  Text(x) \in Seq(Byte) /\ Text(x) \in Seq(Cell) /\ Len(Text(x)) = 4 + Len(x)
  <1>1. Len(x) \in Nat
    BY LenProperties
  <1> DEFINE w == Word(Len(x))
  <1>2. w \in Seq(Byte) /\ Len(w) = 4
    BY <1>1, WordType
  <1> HIDE DEF w
  <1>3. w \o x \in Seq(Byte) /\ Len(w \o x) = Len(w) + Len(x)
    BY <1>2, ConcatProperties
  <1>4. \A y : y \in Seq(Byte) => y \in Seq(Cell)
    BY RadixIs, SeqMonotonic
  <1> QED
    BY <1>2, <1>3, <1>4 DEF Text, w

(* An array that holds s, at its end. *)
Held(b, s) == Holds(b, s, Len(s))

LEMMA RegroupSix ==
    ASSUME NEW a, NEW b, NEW c, NEW d, NEW e, NEW f,
           Cells(a), Cells(b), Cells(c), Cells(d), Cells(e), Cells(f)
    PROVE  Cat(Cat(Cat(Cat(Cat(a, b), c), d), e), f) =
               Cat(a, Cat(b, Cat(c, Cat(d, Cat(e, f)))))
  BY Joined, Regroup

IsRequest(m) == m.type = REQUEST /\ m.sn \in Nat /\ m.cmd \in Nat /\ m.body \in Seq(Byte)
IsResponse(m) ==
    /\ m.type = RESPONSE /\ m.sn \in Nat /\ m.cmd \in Nat /\ m.result \in Nat
    /\ m.resultStr \in Seq(Byte) /\ m.body \in Seq(Byte)

LEMMA HeldWord ==
    ASSUME NEW b, NEW s, Held(b, s), NEW v \in Nat
    PROVE  Held(writeFixed(b, 4, v), Cat(s, Word(v)))
  BY HoldsWord DEF Held, Cat

LEMMA HeldText ==
    ASSUME NEW b, NEW s, Held(b, s), NEW x \in Seq(Byte)
    PROVE  Held(writeString(b, 4, x), Cat(s, Text(x)))
  BY HoldsString DEF Held, Cat

LEMMA HeldFirst ==
    ASSUME NEW v \in Byte
    PROVE  Held(writeFixed(NewArray, 1, v), <<v>>) /\ <<v>> \in Seq(Byte) /\ <<v>> \in Seq(Cell)
  <1> DEFINE e == <<>>
             w == <<v>>
  <1>1. Held(NewArray, e)
    BY HoldsNew DEF Held
  <1>2. w \in Seq(Byte) /\ w \in Seq(Cell)
    BY RadixIs, One
  <1>3. e \o w = w
    BY <1>2, ConcatEmptySeq
  <1> HIDE DEF e
  <1>4. Held(writeFixed(NewArray, 1, v), e \o w)
    BY <1>1, HoldsByte DEF Held
  <1> QED
    BY <1>2, <1>3, <1>4

LEMMA TypesFit == REQUEST \in Byte /\ RESPONSE \in Byte /\ 0 \in Byte /\ 1 \in Byte /\ 2 \in Byte
  BY ExchangeAssumption, RadixIs DEF Byte, REQUEST, RESPONSE

LEMMA RequestHeld ==
    ASSUME NEW m, IsRequest(m)
    PROVE  Held(toByteArray(m), RequestBytes(m))
  <1> DEFINE c == <<REQUEST>>
             u == Word(m.sn)
             v == Word(m.cmd)
             t == Text(m.body)
             a0 == writeFixed(NewArray, 1, REQUEST)
             a1 == writeFixed(a0, 4, m.sn)
             a2 == writeFixed(a1, 4, m.cmd)
             a3 == writeString(a2, 4, m.body)
  <1>1. m.type = REQUEST /\ m.sn \in Nat /\ m.cmd \in Nat /\ m.body \in Seq(Byte)
    BY DEF IsRequest
  <1>2. toByteArray(m) = a3
    BY <1>1, SerializedRequest DEF toByteArray
  <1>3. Held(a0, c)
    BY HeldFirst, TypesFit
  <1> HIDE DEF a0, c
  <1>4. Held(a1, Cat(c, u))
    BY <1>1, <1>3, HeldWord
  <1> HIDE DEF a1
  <1>5. Held(a2, Cat(Cat(c, u), v))
    BY <1>1, <1>4, HeldWord
  <1> HIDE DEF a2
  <1>6. Held(a3, Cat(Cat(Cat(c, u), v), t))
    BY <1>1, <1>5, HeldText
  <1>7. Cells(c) /\ Cells(u) /\ Cells(v) /\ Cells(t)
    BY <1>1, HeldFirst, TypesFit, WordType, TextType DEF c, Cells
  <1> HIDE DEF u, v, t, a3
  <1>8. Cat(Cat(Cat(c, u), v), t) = Cat(c, Cat(u, Cat(v, t)))
    BY <1>7, Regroup
  <1>9. RequestBytes(m) = Cat(c, Cat(u, Cat(v, t)))
    BY DEF RequestBytes, c, u, v, t
  <1> QED
    BY <1>2, <1>6, <1>8, <1>9

LEMMA ResponseHeld ==
    ASSUME NEW m, IsResponse(m)
    PROVE  Held(toByteArray(m), ResponseBytes(m))
  <1> DEFINE c == <<RESPONSE>>
             u == Word(m.sn)
             v == Word(m.cmd)
             w == Word(m.result)
             t == Text(m.resultStr)
             z == Text(m.body)
             a0 == writeFixed(NewArray, 1, RESPONSE)
             a1 == writeFixed(a0, 4, m.sn)
             a2 == writeFixed(a1, 4, m.cmd)
             a3 == writeFixed(a2, 4, m.result)
             a4 == writeString(a3, 4, m.resultStr)
             a5 == writeString(a4, 4, m.body)
  <1>1. /\ m.type = RESPONSE /\ m.sn \in Nat /\ m.cmd \in Nat /\ m.result \in Nat
        /\ m.resultStr \in Seq(Byte) /\ m.body \in Seq(Byte)
    BY DEF IsResponse
  <1>2. toByteArray(m) = a5
    BY <1>1, SerializedResponse DEF toByteArray
  <1>3. Held(a0, c)
    BY HeldFirst, TypesFit
  <1> HIDE DEF a0, c
  <1>4. Held(a1, Cat(c, u))
    BY <1>1, <1>3, HeldWord
  <1> HIDE DEF a1
  <1>5. Held(a2, Cat(Cat(c, u), v))
    BY <1>1, <1>4, HeldWord
  <1> HIDE DEF a2
  <1>6. Held(a3, Cat(Cat(Cat(c, u), v), w))
    BY <1>1, <1>5, HeldWord
  <1> HIDE DEF a3
  <1>7. Held(a4, Cat(Cat(Cat(Cat(c, u), v), w), t))
    BY <1>1, <1>6, HeldText
  <1> HIDE DEF a4
  <1>8. Held(a5, Cat(Cat(Cat(Cat(Cat(c, u), v), w), t), z))
    BY <1>1, <1>7, HeldText
  <1>9. Cells(c) /\ Cells(u) /\ Cells(v) /\ Cells(w) /\ Cells(t) /\ Cells(z)
    BY <1>1, HeldFirst, TypesFit, WordType, TextType DEF c, Cells
  <1> HIDE DEF u, v, w, t, z, a5
  <1>10. Cat(Cat(Cat(Cat(Cat(c, u), v), w), t), z) = Cat(c, Cat(u, Cat(v, Cat(w, Cat(t, z)))))
    BY <1>9, RegroupSix
  <1>11. ResponseBytes(m) = Cat(c, Cat(u, Cat(v, Cat(w, Cat(t, z)))))
    BY DEF ResponseBytes, c, u, v, w, t, z
  <1> QED
    BY <1>2, <1>8, <1>10, <1>11

(* A piece in front of bytes. *)
LEMMA InFront ==
    ASSUME NEW S, NEW x \in Seq(S), NEW y \in Seq(S)
    PROVE  Cat(x, y) \in Seq(S) /\ Len(Cat(x, y)) = Len(x) + Len(y)
  BY ConcatProperties DEF Cat

LEMMA RequestLength ==
    ASSUME NEW m, IsRequest(m)
    PROVE  RequestBytes(m) \in Seq(Byte) /\ Len(RequestBytes(m)) = 13 + Len(m.body)
  <1> DEFINE c == <<REQUEST>>
             u == Word(m.sn)
             v == Word(m.cmd)
             t == Text(m.body)
  <1>1. /\ c \in Seq(Byte) /\ Len(c) = 1 /\ u \in Seq(Byte) /\ Len(u) = 4
        /\ v \in Seq(Byte) /\ Len(v) = 4
        /\ t \in Seq(Byte) /\ Len(t) = 4 + Len(m.body) /\ Len(m.body) \in Nat
    BY One, TypesFit, WordType, TextType, LenProperties DEF IsRequest
  <1>2. RequestBytes(m) = Cat(c, Cat(u, Cat(v, t)))
    BY DEF RequestBytes
  <1> HIDE DEF c, u, v, t
  <1> DEFINE y1 == Cat(v, t)
             y2 == Cat(u, y1)
             y3 == Cat(c, y2)
  <1>3. y1 \in Seq(Byte) /\ Len(y1) = Len(v) + Len(t)
    BY <1>1, InFront
  <1> HIDE DEF y1
  <1>4. y2 \in Seq(Byte) /\ Len(y2) = Len(u) + Len(y1)
    BY <1>1, <1>3, InFront
  <1> HIDE DEF y2
  <1>5. y3 \in Seq(Byte) /\ Len(y3) = Len(c) + Len(y2)
    BY <1>1, <1>4, InFront
  <1>6. RequestBytes(m) = y3
    BY <1>2 DEF y1, y2
  <1> HIDE DEF y3
  <1> QED
    BY <1>1, <1>3, <1>4, <1>5, <1>6

LEMMA ResponseLength ==
    ASSUME NEW m, IsResponse(m)
    PROVE  /\ ResponseBytes(m) \in Seq(Byte)
           /\ Len(ResponseBytes(m)) = (21 + Len(m.resultStr)) + Len(m.body)
  <1> DEFINE c == <<RESPONSE>>
             u == Word(m.sn)
             v == Word(m.cmd)
             w == Word(m.result)
             t == Text(m.resultStr)
             z == Text(m.body)
             k == Len(m.resultStr)
             l == Len(m.body)
  <1>1. /\ c \in Seq(Byte) /\ Len(c) = 1 /\ u \in Seq(Byte) /\ Len(u) = 4
        /\ v \in Seq(Byte) /\ Len(v) = 4 /\ w \in Seq(Byte) /\ Len(w) = 4
        /\ t \in Seq(Byte) /\ Len(t) = 4 + k /\ k \in Nat
        /\ z \in Seq(Byte) /\ Len(z) = 4 + l /\ l \in Nat
    BY One, TypesFit, WordType, TextType, LenProperties DEF IsResponse
  <1>2. ResponseBytes(m) = Cat(c, Cat(u, Cat(v, Cat(w, Cat(t, z)))))
    BY DEF ResponseBytes
  <1> HIDE DEF c, u, v, w, t, z, k, l
  <1> DEFINE y1 == Cat(t, z)
             y2 == Cat(w, y1)
             y3 == Cat(v, y2)
             y4 == Cat(u, y3)
             y5 == Cat(c, y4)
  <1>3. y1 \in Seq(Byte) /\ Len(y1) = Len(t) + Len(z)
    BY <1>1, InFront
  <1> HIDE DEF y1
  <1>4. y2 \in Seq(Byte) /\ Len(y2) = Len(w) + Len(y1)
    BY <1>1, <1>3, InFront
  <1> HIDE DEF y2
  <1>5. y3 \in Seq(Byte) /\ Len(y3) = Len(v) + Len(y2)
    BY <1>1, <1>4, InFront
  <1> HIDE DEF y3
  <1>6. y4 \in Seq(Byte) /\ Len(y4) = Len(u) + Len(y3)
    BY <1>1, <1>5, InFront
  <1> HIDE DEF y4
  <1>7. y5 \in Seq(Byte) /\ Len(y5) = Len(c) + Len(y4)
    BY <1>1, <1>6, InFront
  <1>8. ResponseBytes(m) = y5
    BY <1>2 DEF y1, y2, y3, y4
  <1> HIDE DEF y5
  <1> QED
    <2>1. Len(y2) = 12 + (k + l)
      BY <1>1, <1>3, <1>4
    <2>2. Len(y4) = 20 + (k + l)
      BY <1>1, <1>5, <1>6, <2>1
    <2> QED
      <3>1. Len(ResponseBytes(m)) = (21 + k) + l
        BY <1>1, <1>7, <1>8, <2>2
      <3>2. (21 + k) + l = (21 + Len(m.resultStr)) + Len(m.body)
        BY DEF k, l
      <3> HIDE DEF k, l
      <3> QED
        BY <1>7, <1>8, <3>1, <3>2

-----------------------------------------------------------------------------
(* Frames.                                                                 *)

(* What a frame of the bytes s holds. *)
Sealed(min, s) == IF Len(s) >= min THEN Deflated(s) ELSE s
FlagOf(min, s) == IF Len(s) >= min THEN 1 ELSE 0

IsFrame(f, min, s) ==
    /\ f.head = Header(FlagOf(min, s), Len(Sealed(min, s)))
    /\ Holds(f.ba, Sealed(min, s), 0)

LEMMA BytesCells ==
    ASSUME NEW s \in Seq(Byte)
    PROVE  s \in Seq(Cell) /\ Len(s) \in Nat
  BY RadixIs, SeqMonotonic, LenProperties

LEMMA SealedType ==
    ASSUME NEW s \in Seq(Byte), NEW min
    PROVE  /\ Sealed(min, s) \in Seq(Byte) /\ Len(Sealed(min, s)) <= 2 * Len(s)
           /\ Len(Sealed(min, s)) \in Nat /\ FlagOf(min, s) \in {0, 1}
  BY InflatedDeflated, BytesCells DEF Sealed, FlagOf

LEMMA HoldsSize ==
    ASSUME NEW b, NEW s, NEW p, Holds(b, s, p)
    PROVE  b.size = Len(s)
  BY DEF Holds

LEMMA Deflates ==
    ASSUME NEW b, NEW s \in Seq(Byte), Holds(b, s, 0)
    PROVE  Holds(Through(b, TRUE), Deflated(s), 0)
  BY InflatedDeflated, BytesCells, ThroughIs DEF CodedIs

LEMMA Inflates ==
    ASSUME NEW b, NEW s \in Seq(Byte), Holds(b, Deflated(s), 0)
    PROVE  Holds(Through(b, FALSE), s, 0)
  <1> DEFINE d == Deflated(s)
  <1>1. CodedIs(FALSE, d) = s
    BY InflatedDeflated DEF CodedIs
  <1>2. CodedIs(FALSE, d) \in Seq(Cell) /\ d \in Seq(Cell)
    BY <1>1, InflatedDeflated, BytesCells
  <1> HIDE DEF d
  <1>3. Holds(Through(b, FALSE), CodedIs(FALSE, d), 0)
    BY <1>2, ThroughIs DEF d
  <1> QED
    BY <1>1, <1>3

(* serializeTo() of a message whose bytes are s. *)
LEMMA Framed ==
    ASSUME NEW min, NEW m, NEW s \in Seq(Byte), Held(toByteArray(m), s)
    PROVE  IsFrame(serializeTo(min, m), min, s)
  <1> DEFINE ba == setPosition(toByteArray(m), 0).ba
             zipped == Through(ba, TRUE)
             d == Deflated(s)
  <1>1. Holds(ba, s, 0)
    BY BytesCells, HoldsAt DEF Held
  <1>2. serializeTo(min, m) = IF ba.size >= min THEN [head |-> Header(1, zipped.size), ba |-> zipped]
                              ELSE [head |-> Header(0, ba.size), ba |-> ba]
    BY DEF serializeTo
  <1> HIDE DEF ba
  <1>3. Holds(zipped, d, 0)
    BY <1>1, Deflates
  <1> HIDE DEF zipped
  <1>4. ba.size = Len(s) /\ zipped.size = Len(d)
    BY <1>1, <1>3, HoldsSize
  <1>5. CASE Len(s) >= min
    <2>1. Sealed(min, s) = d /\ FlagOf(min, s) = 1
      BY <1>5 DEF Sealed, FlagOf
    <2> HIDE DEF d
    <2>2. serializeTo(min, m) = [head |-> Header(1, zipped.size), ba |-> zipped]
      BY <1>2, <1>4, <1>5
    <2>3. serializeTo(min, m).head = Header(1, zipped.size) /\ serializeTo(min, m).ba = zipped
      BY <2>2
    <2> QED
      BY <1>3, <1>4, <2>1, <2>3 DEF IsFrame
  <1>6. CASE ~(Len(s) >= min)
    BY <1>6, <1>2, <1>4, <1>1 DEF Sealed, FlagOf, IsFrame
  <1> QED
    BY <1>5, <1>6

LEMMA HeaderIs ==
    ASSUME NEW flag \in {0, 1}, NEW n \in Nat, n < Weight(4)
    PROVE  LET h == Header(flag, n) IN
           /\ h \in Seq(Byte) /\ Len(h) = 8 /\ SubSeq(h, 1, 2) = Magic
           /\ h[3] = 1 /\ h[4] = flag /\ LengthIn(h) = n
  <1> DEFINE w == InMemory(4, n)
             q == <<1, 2, 1, flag>>
             h == q \o w
  <1>1. w \in Seq(Byte) /\ Len(w) = 4 /\ FromMemory(w) = n
    BY MemoryIs, WordBack
  <1>2. q \in Seq(Byte) /\ Len(q) = 4
    BY TypesFit
  <1>3. Header(flag, n) = h
    <2>1. Magic \o <<1, flag>> = q
      <3> DEFINE a == <<1, 2>>
                 b == <<1, flag>>
                 c == a \o b
      <3>1. a \in Seq(Byte) /\ b \in Seq(Byte) /\ Len(a) = 2 /\ Len(b) = 2
        BY TypesFit
      <3>2. a[1] = 1 /\ a[2] = 2 /\ b[1] = 1 /\ b[2] = flag
        OBVIOUS
      <3> HIDE DEF a, b
      <3>3. /\ c \in Seq(Byte) /\ Len(c) = Len(a) + Len(b)
            /\ \A i \in 1..Len(a) : c[i] = a[i]
            /\ \A i \in (Len(a) + 1)..(Len(a) + Len(b)) : c[i] = b[i - Len(a)]
        <4>1. a \in Seq(Byte) /\ b \in Seq(Byte)
          BY <3>1
        <4> QED
          BY <4>1, ConcatProperties
      <3> HIDE DEF c
      <3>4. Len(c) = 4
        BY <3>1, <3>3
      <3>5. c[1] = 1 /\ c[2] = 2
        BY <3>1, <3>2, <3>3
      <3>6. c[3] = b[3 - 2] /\ c[4] = b[4 - 2]
        BY <3>1, <3>3
      <3>7. c[3] = 1 /\ c[4] = flag
        BY <3>2, <3>6
      <3>8. Len(q) = 4 /\ q[1] = 1 /\ q[2] = 2 /\ q[3] = 1 /\ q[4] = flag
        OBVIOUS
      <3> HIDE DEF q
      <3>9. \A i \in 1..Len(c) : c[i] = q[i]
        BY <3>4, <3>5, <3>7, <3>8
      <3>10. c = q
        BY <1>2, <3>3, <3>4, <3>8, <3>9, SeqEqual
      <3> QED
        BY <3>10 DEF c, a, b, Magic
    <2> QED
      BY <2>1 DEF Header
  <1> HIDE DEF w
  <1>4. /\ h \in Seq(Byte) /\ Len(h) = Len(q) + Len(w)
        /\ \A i \in 1..Len(q) : h[i] = q[i]
    <2> HIDE DEF q
    <2> QED
      BY <1>1, <1>2, ConcatProperties
  <1>5. h[1] = 1 /\ h[2] = 2 /\ h[3] = 1 /\ h[4] = flag
    <2>1. 1 \in 1..Len(q) /\ 2 \in 1..Len(q) /\ 3 \in 1..Len(q) /\ 4 \in 1..Len(q)
      BY <1>2
    <2>2. q[1] = 1 /\ q[2] = 2 /\ q[3] = 1 /\ q[4] = flag
      OBVIOUS
    <2> HIDE DEF q, h
    <2> QED
      BY <1>4, <2>1, <2>2
  <1>6. Len(h) = 8
    <2> HIDE DEF q, h
    <2> QED
      BY <1>1, <1>2, <1>4
  <1>7. SubSeq(h, 1, 2) = Magic
    <2> HIDE DEF h, q
    <2> DEFINE x == SubSeq(h, 0 + 1, 0 + 2)
               y == <<1, 2>>
    <2>1. x \in Seq(Byte) /\ Len(x) = 2 /\ \A i \in 1..2 : x[i] = h[0 + i]
      <3>1. 0 + 2 <= Len(h) /\ h \in Seq(Byte)
        <4>1. h \in Seq(Byte)
          BY <1>4
        <4>2. 0 + 2 <= Len(h)
          BY <1>6
        <4> QED
          BY <4>1, <4>2
      <3> DEFINE z == 0
                 k == 2
      <3>2. z \in Nat /\ k \in Nat
        OBVIOUS
      <3>3. z + k <= Len(h)
        BY <3>1
      <3> HIDE DEF z, k
      <3>4. /\ SubSeq(h, z + 1, z + k) \in Seq(Byte) /\ Len(SubSeq(h, z + 1, z + k)) = k
            /\ \A i \in 1..k : SubSeq(h, z + 1, z + k)[i] = h[z + i]
        BY <3>1, <3>2, <3>3, Stretch
      <3> QED
        BY <3>4 DEF z, k
    <2>2. y \in Seq(Byte) /\ Len(y) = 2 /\ y[1] = 1 /\ y[2] = 2
      BY TypesFit
    <2>3. SubSeq(h, 1, 2) = x
      OBVIOUS
    <2> HIDE DEF x, y
    <2>4. x[1] = 1 /\ x[2] = 2
      BY <1>5, <2>1
    <2>5. \A i \in 1..Len(x) : x[i] = y[i]
      BY <2>1, <2>2, <2>4
    <2>6. x = y
      BY <2>1, <2>2, <2>5, SeqEqual
    <2> QED
      BY <2>3, <2>6 DEF Magic, y
  <1>8. SubSeq(h, 5, 8) = w
    <2> DEFINE e == <<>>
    <2>1. Ahead(h, 0) = h
      BY <1>4, SubSeqFull DEF Ahead
    <2> HIDE DEF h
    <2>2. Begins(Byte, h, 0, q, w)
      <3>1. Ahead(h, 0) = q \o w
        BY <2>1 DEF h
      <3> HIDE DEF q
      <3> QED
        BY <1>1, <1>2, <1>4, <1>6, <3>1 DEF Begins
    <2> HIDE DEF q
    <2>3. Ahead(h, 0 + Len(q)) = w
      BY <2>2, SplitAt
    <2>4. Ahead(h, 4) = SubSeq(h, 5, 8)
      BY <1>6 DEF Ahead
    <2> QED
      BY <1>2, <2>3, <2>4
  <1> HIDE DEF h, q
  <1> QED
    BY <1>1, <1>3, <1>4, <1>5, <1>6, <1>7, <1>8 DEF LengthIn

-----------------------------------------------------------------------------
(* Fields, read one after the other.                                       *)

(* A result of reading, with its three fields. *)
Reads(r) == r = [how |-> r.how, ba |-> r.ba, out |-> r.out]

LEMMA ReadReads ==
    ASSUME NEW b, NEW n
    PROVE  Reads(read(b, n))
  BY DEF Reads, read, Throws, Faults

LEMMA FixedReads ==
    ASSUME NEW b, NEW k
    PROVE  Reads(readFixed(b, k))
  <1> DEFINE r == read(b, k)
  <1>1. Reads(r)
    BY ReadReads
  <1>2. readFixed(b, k) =
          IF r.how # "ok" THEN r ELSE [r EXCEPT !.out = FromMemory(InOrder(b, r.out))]
    BY DEF readFixed
  <1> HIDE DEF r
  <1>3. \A x : Reads([r EXCEPT !.out = x])
    BY <1>1 DEF Reads
  <1> QED
    BY <1>1, <1>2, <1>3

LEMMA StringReads ==
    ASSUME NEW b
    PROVE  Reads(readString(b, 4))
  <1> DEFINE r == readFixed(b, 4)
  <1>1. readString(b, 4) = IF r.how # "ok" THEN r ELSE read(r.ba, r.out)
    BY DEF readString
  <1>2. Reads(r)
    BY FixedReads
  <1> HIDE DEF r
  <1> QED
    BY <1>1, <1>2, ReadReads

(* What a field's reader gives, and the reading that takes it in. *)
TakenIn(g, r) == [r EXCEPT !.out = Append(g.out, r.out)]

LEMMA TakesIn ==
    ASSUME NEW g, NEW r, Reads(r)
    PROVE  /\ TakenIn(g, r).how = r.how /\ TakenIn(g, r).ba = r.ba
           /\ TakenIn(g, r).out = Append(g.out, r.out)
  BY DEF Reads, TakenIn

LEMMA ReadNextIs ==
    ASSUME NEW g, NEW k, g.how = "ok"
    PROVE  ReadNext(g, k) = IF IsString(k) THEN TakenIn(g, readString(g.ba, 4))
                                           ELSE TakenIn(g, readFixed(g.ba, 4))
  BY DEF ReadNext, TakenIn

(* What the code sends: small numbers, and texts that are not empty. *)
Fits(v) == v \in Nat /\ v < Weight(4)
FitsText(x) == x \in Seq(Byte) /\ x # <<>> /\ Len(x) < Weight(4)

(* A reading that has gone well: o is read, t is still to come. *)
IsRead(g, n, t, o) == g.how = "ok" /\ Has(g.ba, n, t) /\ g.out = o

LEMMA NextWord ==
    ASSUME NEW g, NEW n, NEW v, Fits(v), NEW t, Cells(t), NEW o,
           IsRead(g, n, Cat(Word(v), t), o), NEW k, ~IsString(k)
    PROVE  IsRead(ReadNext(g, k), n, t, Append(o, v))
  <1> DEFINE r == readFixed(g.ba, 4)
  <1>1. g.how = "ok" /\ Has(g.ba, n, Word(v) \o t) /\ g.out = o /\ t \in Seq(Cell)
    BY DEF IsRead, Cat, Cells
  <1>2. r.how = "ok" /\ r.out = v /\ Has(r.ba, n, t)
    BY <1>1, HasWord DEF Fits
  <1>3. Reads(r)
    BY FixedReads
  <1>4. ReadNext(g, k) = TakenIn(g, r)
    BY <1>1, ReadNextIs
  <1> HIDE DEF r
  <1> QED
    BY <1>1, <1>2, <1>3, <1>4, TakesIn DEF IsRead

LEMMA NextString ==
    ASSUME NEW g, NEW n, NEW x, FitsText(x), NEW t, Cells(t),
           NEW o, IsRead(g, n, Cat(Text(x), t), o), NEW k, IsString(k)
    PROVE  IsRead(ReadNext(g, k), n, t, Append(o, x))
  <1> DEFINE r == readString(g.ba, 4)
  <1>1. g.how = "ok" /\ Has(g.ba, n, Text(x) \o t) /\ g.out = o /\ t \in Seq(Cell)
    BY DEF IsRead, Cat, Cells
  <1>2. r.how = "ok" /\ r.out = x /\ Has(r.ba, n, t)
    BY <1>1, HasString DEF FitsText
  <1>3. Reads(r)
    BY StringReads
  <1>4. ReadNext(g, k) = TakenIn(g, r)
    BY <1>1, ReadNextIs
  <1> HIDE DEF r
  <1> QED
    BY <1>1, <1>2, <1>3, <1>4, TakesIn DEF IsRead

LEMMA LastString ==
    ASSUME NEW g, NEW n, NEW x, FitsText(x),
           NEW o, IsRead(g, n, Text(x), o), NEW k, IsString(k)
    PROVE  ReadNext(g, k).how = "ok" /\ ReadNext(g, k).out = Append(o, x)
  <1> DEFINE e == <<>>
  <1>1. Cells(e)
    BY DEF Cells
  <1>2. Cat(Text(x), e) = Text(x)
    BY TextType, ConcatEmptySeq DEF Cat, FitsText
  <1> HIDE DEF e
  <1>3. IsRead(g, n, Cat(Text(x), e), o)
    BY <1>2
  <1>4. IsRead(ReadNext(g, k), n, e, Append(o, x))
    BY <1>1, <1>3, NextString
  <1> QED
    BY <1>4 DEF IsRead

(* The empty string at the end, of whose length alone there are bytes. *)
LEMMA LastNothing ==
    ASSUME NEW g, NEW n, NEW o, IsRead(g, n, Text(<<>>), o), NEW k, IsString(k)
    PROVE  \/ ReadNext(g, k).how = "ok" /\ ReadNext(g, k).out = Append(o, <<>>)
           \/ ReadNext(g, k).how = "faults" /\ n % Base = 0
  <1> DEFINE r == readString(g.ba, 4)
             e == <<>>
  <1>1. g.how = "ok" /\ Has(g.ba, n, Text(e)) /\ g.out = o
    BY DEF IsRead
  <1>2. \/ r.how = "ok" /\ r.out = e
        \/ r.how = "faults" /\ n % Base = 0
    BY <1>1, HasNoString
  <1>3. Reads(r)
    BY StringReads
  <1>4. ReadNext(g, k) = TakenIn(g, r)
    BY <1>1, ReadNextIs
  <1> HIDE DEF r, e
  <1>5. /\ ReadNext(g, k).how = r.how
        /\ ReadNext(g, k).out = Append(o, r.out)
    BY <1>1, <1>3, <1>4, TakesIn
  <1>6. \/ ReadNext(g, k).how = "ok" /\ ReadNext(g, k).out = Append(o, e)
        \/ ReadNext(g, k).how = "faults" /\ n % Base = 0
    BY <1>2, <1>5
  <1> QED
    BY <1>6 DEF e

-----------------------------------------------------------------------------
Started(ba) == [how |-> "ok", ba |-> ba, out |-> <<>>]

LEMMA ParsedRequest ==
    ASSUME NEW ba
    PROVE  parseFromByteArray(ba, REQUEST) =
             MessageOf(ReadNext(ReadNext(ReadNext(Started(ba), "sn"), "cmd"), "body"),
                       REQUEST, RequestFields)
  <1> DEFINE fields == Fields(REQUEST)
             all(f) == [i \in 0..Len(fields) |->
                           IF i = 0 THEN [how |-> "ok", ba |-> ba, out |-> <<>>]
                           ELSE ReadNext(f[i - 1], fields[i])]
             is(f) == f = all(f)
             p == CHOOSE f : is(f)
             a0 == Started(ba)
             a1 == ReadNext(a0, "sn")
             a2 == ReadNext(a1, "cmd")
             a3 == ReadNext(a2, "body")
             e == [i \in 0..3 |-> IF i = 0 THEN a0 ELSE IF i = 1 THEN a1
                                  ELSE IF i = 2 THEN a2 ELSE a3]
  <1>1. parseFromByteArray(ba, REQUEST) = MessageOf(p[Len(fields)], REQUEST, fields)
    BY DEF parseFromByteArray
  <1>2. \A f : all(f) = [i \in 0..3 |-> IF i = 0 THEN a0 ELSE ReadNext(f[i - 1], RequestFields[i])]
    BY FieldsAre DEF Started
  <1>3. Len(fields) = 3 /\ fields = RequestFields
    BY FieldsAre
  <1> HIDE DEF all, fields
  <1>5. /\ e[0] = a0 /\ e[1] = ReadNext(e[0], RequestFields[1])
        /\ e[2] = ReadNext(e[1], RequestFields[2]) /\ e[3] = ReadNext(e[2], RequestFields[3])
    BY FieldsAre
  <1>6. is(e)
    <2>1. \A i \in 0..3 : i = 0 \/ i = 1 \/ i = 2 \/ i = 3
      OBVIOUS
    <2>2. e = [i \in 0..3 |-> e[i]]
      OBVIOUS
    <2> HIDE DEF e, a0
    <2>3. \A i \in 0..3 : e[i] = (IF i = 0 THEN a0 ELSE ReadNext(e[i - 1], RequestFields[i]))
      BY <1>5, <2>1
    <2>4. e = [i \in 0..3 |-> IF i = 0 THEN a0 ELSE ReadNext(e[i - 1], RequestFields[i])]
      BY <2>2, <2>3
    <2> QED
      BY <1>2, <2>4
  <1>7. is(p)
    <2> HIDE DEF is
    <2> QED
      BY <1>6
  <1> HIDE DEF p
  <1>8. /\ p[0] = a0 /\ p[1] = ReadNext(p[0], RequestFields[1])
        /\ p[2] = ReadNext(p[1], RequestFields[2]) /\ p[3] = ReadNext(p[2], RequestFields[3])
    <2> HIDE DEF a0
    <2>1. p = [i \in 0..3 |-> IF i = 0 THEN a0 ELSE ReadNext(p[i - 1], RequestFields[i])]
      BY <1>2, <1>7
    <2>2. \A i \in 0..3 : p[i] = (IF i = 0 THEN a0 ELSE ReadNext(p[i - 1], RequestFields[i]))
      BY <2>1
    <2> QED
      BY <2>2
  <1>9. p[3] = a3
    BY <1>8, FieldsAre
  <1> HIDE DEF a0
  <1> QED
    BY <1>1, <1>3, <1>9 DEF a0

LEMMA ParsedResponse ==
    ASSUME NEW ba
    PROVE  parseFromByteArray(ba, RESPONSE) =
             MessageOf(ReadNext(ReadNext(ReadNext(ReadNext(ReadNext(Started(ba), "sn"), "cmd"),
                                                  "result"), "resultStr"), "body"),
                       RESPONSE, ResponseFields)
  <1> DEFINE fields == Fields(RESPONSE)
             all(f) == [i \in 0..Len(fields) |->
                           IF i = 0 THEN [how |-> "ok", ba |-> ba, out |-> <<>>]
                           ELSE ReadNext(f[i - 1], fields[i])]
             is(f) == f = all(f)
             p == CHOOSE f : is(f)
             a0 == Started(ba)
             a1 == ReadNext(a0, "sn")
             a2 == ReadNext(a1, "cmd")
             a3 == ReadNext(a2, "result")
             a4 == ReadNext(a3, "resultStr")
             a5 == ReadNext(a4, "body")
             e == [i \in 0..5 |-> IF i = 0 THEN a0 ELSE IF i = 1 THEN a1
                                  ELSE IF i = 2 THEN a2 ELSE IF i = 3 THEN a3
                                  ELSE IF i = 4 THEN a4 ELSE a5]
  <1>1. parseFromByteArray(ba, RESPONSE) = MessageOf(p[Len(fields)], RESPONSE, fields)
    BY DEF parseFromByteArray
  <1>2. \A f : all(f) = [i \in 0..5 |-> IF i = 0 THEN a0 ELSE ReadNext(f[i - 1], ResponseFields[i])]
    BY FieldsAre DEF Started
  <1>3. Len(fields) = 5 /\ fields = ResponseFields
    BY FieldsAre
  <1> HIDE DEF all, fields
  <1>5. /\ e[0] = a0 /\ e[1] = ReadNext(e[0], ResponseFields[1])
        /\ e[2] = ReadNext(e[1], ResponseFields[2]) /\ e[3] = ReadNext(e[2], ResponseFields[3])
        /\ e[4] = ReadNext(e[3], ResponseFields[4]) /\ e[5] = ReadNext(e[4], ResponseFields[5])
    BY FieldsAre
  <1>6. is(e)
    <2>1. \A i \in 0..5 : i = 0 \/ i = 1 \/ i = 2 \/ i = 3 \/ i = 4 \/ i = 5
      OBVIOUS
    <2>2. e = [i \in 0..5 |-> e[i]]
      OBVIOUS
    <2> HIDE DEF e, a0
    <2>3. \A i \in 0..5 : e[i] = (IF i = 0 THEN a0 ELSE ReadNext(e[i - 1], ResponseFields[i]))
      BY <1>5, <2>1
    <2>4. e = [i \in 0..5 |-> IF i = 0 THEN a0 ELSE ReadNext(e[i - 1], ResponseFields[i])]
      BY <2>2, <2>3
    <2> QED
      BY <1>2, <2>4
  <1>7. is(p)
    <2> HIDE DEF is
    <2> QED
      BY <1>6
  <1> HIDE DEF p
  <1>8. /\ p[0] = a0 /\ p[1] = ReadNext(p[0], ResponseFields[1])
        /\ p[2] = ReadNext(p[1], ResponseFields[2]) /\ p[3] = ReadNext(p[2], ResponseFields[3])
        /\ p[4] = ReadNext(p[3], ResponseFields[4]) /\ p[5] = ReadNext(p[4], ResponseFields[5])
    <2> HIDE DEF a0
    <2>1. p = [i \in 0..5 |-> IF i = 0 THEN a0 ELSE ReadNext(p[i - 1], ResponseFields[i])]
      BY <1>2, <1>7
    <2>2. \A i \in 0..5 : p[i] = (IF i = 0 THEN a0 ELSE ReadNext(p[i - 1], ResponseFields[i]))
      BY <2>1
    <2> QED
      BY <2>2
  <1>9. p[5] = a5
    BY <1>8, FieldsAre
  <1> HIDE DEF a0
  <1> QED
    BY <1>1, <1>3, <1>9 DEF a0

-----------------------------------------------------------------------------
(* A request and a response, read from their bytes.                        *)

LEMMA ThreeRead ==
    ASSUME NEW a, NEW b, NEW c
    PROVE  LET o == Append(Append(Append(<<>>, a), b), c) IN
           o[1] = a /\ o[2] = b /\ o[3] = c
  OBVIOUS

LEMMA FiveRead ==
    ASSUME NEW a, NEW b, NEW c, NEW d, NEW e
    PROVE  LET o == Append(Append(Append(Append(Append(<<>>, a), b), c), d), e) IN
           o[1] = a /\ o[2] = b /\ o[3] = c /\ o[4] = d /\ o[5] = e
  OBVIOUS

LEMMA RequestMessage ==
    ASSUME NEW r, r.how = "ok"
    PROVE  LET m == MessageOf(r, REQUEST, RequestFields) IN
           /\ m.how = "ok" /\ m.msg.type = REQUEST
           /\ m.msg.sn = r.out[1] /\ m.msg.cmd = r.out[2] /\ m.msg.body = r.out[3]
  <1> DEFINE at(k) == CHOOSE i \in DOMAIN RequestFields : RequestFields[i] = k
             names == {"type"} \cup {RequestFields[i] : i \in DOMAIN RequestFields}
             m == MessageOf(r, REQUEST, RequestFields)
  <1>1. /\ DOMAIN RequestFields = 1..3
        /\ RequestFields[1] = "sn" /\ RequestFields[2] = "cmd" /\ RequestFields[3] = "body"
    BY DEF RequestFields
  <1>2. at("sn") = 1 /\ at("cmd") = 2 /\ at("body") = 3
    BY <1>1
  <1>3. "type" \in names /\ "sn" \in names /\ "cmd" \in names /\ "body" \in names
    BY <1>1
  <1>4. m.how = "ok" /\ m.msg = [k \in names |-> IF k = "type" THEN REQUEST ELSE r.out[at(k)]]
    BY DEF MessageOf
  <1> HIDE DEF m, names, at
  <1> QED
    BY <1>2, <1>3, <1>4 DEF m

LEMMA ResponseMessage ==
    ASSUME NEW r, r.how = "ok"
    PROVE  LET m == MessageOf(r, RESPONSE, ResponseFields) IN
           m.how = "ok" /\ m.msg.type = RESPONSE /\ m.msg.resultStr = r.out[4]
  <1> DEFINE at(k) == CHOOSE i \in DOMAIN ResponseFields : ResponseFields[i] = k
             names == {"type"} \cup {ResponseFields[i] : i \in DOMAIN ResponseFields}
             m == MessageOf(r, RESPONSE, ResponseFields)
  <1>1. /\ DOMAIN ResponseFields = 1..5
        /\ ResponseFields[1] = "sn" /\ ResponseFields[2] = "cmd" /\ ResponseFields[3] = "result"
        /\ ResponseFields[4] = "resultStr" /\ ResponseFields[5] = "body"
    BY DEF ResponseFields
  <1>2. at("resultStr") = 4
    BY <1>1
  <1>3. "type" \in names /\ "resultStr" \in names
    BY <1>1
  <1>4. m.how = "ok" /\ m.msg = [k \in names |-> IF k = "type" THEN RESPONSE ELSE r.out[at(k)]]
    BY DEF MessageOf
  <1> HIDE DEF m, names, at
  <1> QED
    BY <1>2, <1>3, <1>4 DEF m

(* The rest of a request behind its type, and of a response. *)
RequestRest(m) == Cat(Word(m.sn), Cat(Word(m.cmd), Text(m.body)))
ResponseRest(m) ==
    Cat(Word(m.sn), Cat(Word(m.cmd), Cat(Word(m.result), Cat(Text(m.resultStr), Text(m.body)))))

LEMMA RequestRead ==
    ASSUME NEW ba, NEW n, NEW m, Fits(m.sn), Fits(m.cmd), FitsText(m.body),
           Has(ba, n, RequestRest(m))
    PROVE  LET p == parseFromByteArray(ba, REQUEST) IN
           /\ p.how = "ok" /\ p.msg.type = REQUEST
           /\ p.msg.sn = m.sn /\ p.msg.cmd = m.cmd /\ p.msg.body = m.body
  <1> DEFINE g0 == Started(ba)
             g1 == ReadNext(g0, "sn")
             g2 == ReadNext(g1, "cmd")
             g3 == ReadNext(g2, "body")
             e == <<>>
             u == Cat(Word(m.cmd), Text(m.body))
             t == Text(m.body)
  <1>1. IsRead(g0, n, Cat(Word(m.sn), u), e)
    BY DEF IsRead, Started, RequestRest
  <1>2. Cells(t) /\ Cells(u)
    BY TextType, WordType, Joined DEF Cells, FitsText, Fits
  <1>3. ~IsString("sn") /\ ~IsString("cmd") /\ IsString("body")
    BY FieldsAre
  <1> HIDE DEF g0, e, u
  <1>4. IsRead(g1, n, u, Append(e, m.sn))
    BY <1>1, <1>2, <1>3, NextWord
  <1> HIDE DEF g1, t
  <1>5. IsRead(g1, n, Cat(Word(m.cmd), t), Append(e, m.sn))
    BY <1>4 DEF u, t
  <1>6. IsRead(g2, n, t, Append(Append(e, m.sn), m.cmd))
    BY <1>2, <1>3, <1>5, NextWord
  <1> HIDE DEF g2
  <1>7. IsRead(g2, n, Text(m.body), Append(Append(e, m.sn), m.cmd))
    BY <1>6 DEF t
  <1> DEFINE o == Append(Append(e, m.sn), m.cmd)
  <1>8. g3.how = "ok" /\ g3.out = Append(o, m.body)
    <2> DEFINE x == m.body
               k == "body"
    <2>1. IsRead(g2, n, Text(x), o)
      BY <1>7
    <2>2. FitsText(x) /\ IsString(k)
      BY <1>3
    <2> HIDE DEF o, x, k
    <2>3. ReadNext(g2, k).how = "ok" /\ ReadNext(g2, k).out = Append(o, x)
      BY <2>1, <2>2, LastString
    <2> QED
      BY <2>3 DEF k, x
  <1>9. parseFromByteArray(ba, REQUEST) = MessageOf(g3, REQUEST, RequestFields)
    BY ParsedRequest DEF g0, g1, g2
  <1> HIDE DEF g3
  <1>10. g3.out[1] = m.sn /\ g3.out[2] = m.cmd /\ g3.out[3] = m.body
    BY <1>8, ThreeRead DEF e
  <1> QED
    BY <1>8, <1>9, <1>10, RequestMessage

LEMMA ResponseRead ==
    ASSUME NEW ba, NEW n, NEW m, Fits(m.sn), Fits(m.cmd), Fits(m.result), FitsText(m.resultStr),
           m.body = <<>>, Has(ba, n, ResponseRest(m))
    PROVE  LET p == parseFromByteArray(ba, RESPONSE) IN
           \/ p.how = "ok" /\ p.msg.type = RESPONSE /\ p.msg.resultStr = m.resultStr
           \/ p.how = "faults" /\ n % Base = 0
  <1> DEFINE g0 == Started(ba)
             g1 == ReadNext(g0, "sn")
             g2 == ReadNext(g1, "cmd")
             g3 == ReadNext(g2, "result")
             g4 == ReadNext(g3, "resultStr")
             g5 == ReadNext(g4, "body")
             e == <<>>
             z == Text(<<>>)
             t == Cat(Text(m.resultStr), z)
             v == Cat(Word(m.result), t)
             u == Cat(Word(m.cmd), v)
             o1 == Append(e, m.sn)
             o2 == Append(o1, m.cmd)
             o3 == Append(o2, m.result)
             o4 == Append(o3, m.resultStr)
  <1>1. IsRead(g0, n, Cat(Word(m.sn), u), e)
    BY DEF IsRead, Started, ResponseRest
  <1>2. Cells(z) /\ Cells(t) /\ Cells(v) /\ Cells(u)
    <2>1. /\ Cells(Text(m.resultStr)) /\ Cells(Word(m.cmd)) /\ Cells(Word(m.result))
      BY TextType, WordType DEF Cells, FitsText, Fits
    <2>2. Cells(z)
      <3>1. <<>> \in Seq(Byte)
        OBVIOUS
      <3> QED
        BY <3>1, TextType DEF Cells
    <2> HIDE DEF z
    <2>3. Cells(t)
      BY <2>1, <2>2, Joined
    <2> HIDE DEF t
    <2>4. Cells(v)
      BY <2>1, <2>3, Joined
    <2> HIDE DEF v
    <2> QED
      BY <2>1, <2>2, <2>3, <2>4, Joined
  <1>3. /\ ~IsString("sn") /\ ~IsString("cmd") /\ ~IsString("result")
        /\ IsString("resultStr") /\ IsString("body")
    BY FieldsAre
  <1> HIDE DEF g0, e, u
  <1>4. IsRead(g1, n, u, o1)
    BY <1>1, <1>2, <1>3, NextWord
  <1> HIDE DEF g1, o1, v
  <1>5. IsRead(g1, n, Cat(Word(m.cmd), v), o1)
    BY <1>4 DEF u
  <1>6. IsRead(g2, n, v, o2)
    BY <1>2, <1>3, <1>5, NextWord
  <1> HIDE DEF g2, o2, t
  <1>7. IsRead(g2, n, Cat(Word(m.result), t), o2)
    BY <1>6 DEF v
  <1>8. IsRead(g3, n, t, o3)
    BY <1>2, <1>3, <1>7, NextWord
  <1> HIDE DEF g3, o3, z
  <1>9. IsRead(g3, n, Cat(Text(m.resultStr), z), o3)
    BY <1>8 DEF t
  <1>10. IsRead(g4, n, z, o4)
    BY <1>2, <1>3, <1>9, NextString
  <1> HIDE DEF g4, o4
  <1>11. \/ g5.how = "ok" /\ g5.out = Append(o4, <<>>)
         \/ g5.how = "faults" /\ n % Base = 0
    BY <1>3, <1>10, LastNothing DEF z
  <1>12. parseFromByteArray(ba, RESPONSE) = MessageOf(g5, RESPONSE, ResponseFields)
    BY ParsedResponse DEF g0, g1, g2, g3, g4
  <1> HIDE DEF g5
  <1>13. CASE g5.how = "ok" /\ g5.out = Append(o4, <<>>)
    BY <1>13, FiveRead, <1>12, ResponseMessage DEF e, o1, o2, o3, o4
  <1>14. CASE g5.how = "faults" /\ n % Base = 0
    BY <1>14, <1>12 DEF MessageOf
  <1> QED
    BY <1>11, <1>13, <1>14

-----------------------------------------------------------------------------
(* A frame that has come as a whole gives the message.                     *)

(* The header of a frame of the bytes s. *)
HeadOf(min, s) == Header(FlagOf(min, s), Len(Sealed(min, s)))

(* Bytes that are not too many for the length in a header. *)
Sendable(s) == s \in Seq(Byte) /\ 2 * Len(s) < Weight(4)

LEMMA HeadIs ==
    ASSUME NEW s, Sendable(s), NEW min
    PROVE  LET h == HeadOf(min, s) IN
           /\ h \in Seq(Byte) /\ Len(h) = 8 /\ SubSeq(h, 1, 2) = Magic
           /\ h[3] = 1 /\ h[4] = FlagOf(min, s) /\ LengthIn(h) = Len(Sealed(min, s))
  <1> DEFINE f == FlagOf(min, s)
             n == Len(Sealed(min, s))
  <1>1. s \in Seq(Byte) /\ 2 * Len(s) < Weight(4)
    BY DEF Sendable
  <1>2. f \in {0, 1} /\ n \in Nat /\ n <= 2 * Len(s) /\ Len(s) \in Nat
    BY <1>1, SealedType, BytesCells
  <1>3. n < Weight(4)
    BY <1>1, <1>2, Weights
  <1>4. HeadOf(min, s) = Header(f, n)
    BY DEF HeadOf
  <1> HIDE DEF f, n
  <1>5. LET h == Header(f, n) IN
           /\ h \in Seq(Byte) /\ Len(h) = 8 /\ SubSeq(h, 1, 2) = Magic
           /\ h[3] = 1 /\ h[4] = f /\ LengthIn(h) = n
    BY <1>2, <1>3, HeaderIs
  <1> QED
    BY <1>4, <1>5 DEF f, n

(* What parseFrom() takes apart. *)
PlainOf(head, received) ==
    LET ba == setPosition(received, 0).ba IN
    IF head[4] % 2 = 1 THEN Through(ba, FALSE) ELSE ba

LEMMA Opened ==
    ASSUME NEW s, Sendable(s), NEW min, NEW received, NEW p, Holds(received, Sealed(min, s), p)
    PROVE  Holds(PlainOf(HeadOf(min, s), received), s, 0)
  <1> DEFINE ba == setPosition(received, 0).ba
             z == Sealed(min, s)
             h == HeadOf(min, s)
  <1>1. s \in Seq(Byte)
    BY DEF Sendable
  <1>2. Holds(ba, z, 0)
    <2>1. 0 \in 0..Len(z)
      BY <1>1, SealedType
    <2> HIDE DEF z
    <2> QED
      BY <2>1, HoldsAt DEF z
  <1>3. PlainOf(h, received) = IF h[4] % 2 = 1 THEN Through(ba, FALSE) ELSE ba
    BY DEF PlainOf
  <1>4. h[4] = FlagOf(min, s)
    BY HeadIs
  <1> HIDE DEF ba, h
  <1>5. CASE Len(s) >= min
    <2>1. FlagOf(min, s) = 1 /\ z = Deflated(s)
      BY <1>5 DEF FlagOf, Sealed
    <2>2. PlainOf(h, received) = Through(ba, FALSE)
      BY <1>3, <1>4, <2>1
    <2>3. Holds(ba, Deflated(s), 0)
      BY <1>2, <2>1
    <2> QED
      BY <1>1, <2>2, <2>3, Inflates DEF h
  <1>6. CASE ~(Len(s) >= min)
    BY <1>6, <1>3, <1>4, <1>2 DEF FlagOf, Sealed, h
  <1> QED
    BY <1>5, <1>6

LEMMA ParseFromIs ==
    ASSUME NEW head, NEW received
    PROVE  LET t == readFixed(PlainOf(head, received), 1) IN
           t.how = "ok" /\ t.out \in {REQUEST, RESPONSE, NOTIFY} =>
               parseFrom(head, received) = parseFromByteArray(t.ba, t.out)
  <1> DEFINE t == readFixed(PlainOf(head, received), 1)
  <1>1. parseFrom(head, received) =
          IF t.how # "ok" \/ t.out \notin {REQUEST, RESPONSE, NOTIFY} THEN [how |-> "throws"]
          ELSE parseFromByteArray(t.ba, t.out)
    BY DEF parseFrom, PlainOf
  <1> HIDE DEF t
  <1> QED
    BY <1>1 DEF t

(* A message behind its type. *)
LEMMA TypeRead ==
    ASSUME NEW s, Sendable(s), NEW min, NEW received, NEW p, Holds(received, Sealed(min, s), p),
           NEW c \in Byte, NEW t, Cells(t), s = Cat(<<c>>, t)
    PROVE  LET r == readFixed(PlainOf(HeadOf(min, s), received), 1) IN
           r.how = "ok" /\ r.out = c /\ Has(r.ba, Len(s), t)
  <1> DEFINE b == PlainOf(HeadOf(min, s), received)
             n == Len(s)
  <1>1. Holds(b, s, 0)
    BY Opened
  <1> HIDE DEF b
  <1>2. Has(b, n, s)
    BY <1>1, HoldsHas
  <1> HIDE DEF n
  <1>3. Has(b, n, <<c>> \o t) /\ t \in Seq(Cell)
    BY <1>2 DEF Cat, Cells
  <1> QED
    BY <1>3, HasByte DEF b, n

SmallRequest(m) == IsRequest(m) /\ Fits(m.sn) /\ Fits(m.cmd) /\ FitsText(m.body)
SmallResponse(m) ==
    /\ IsResponse(m) /\ Fits(m.sn) /\ Fits(m.cmd) /\ Fits(m.result) /\ FitsText(m.resultStr)
    /\ m.body = <<>>

(* The frame of a request, as a whole, gives the request. *)
LEMMA RequestArrives ==
    ASSUME NEW m, SmallRequest(m), Sendable(RequestBytes(m)), NEW min, NEW received, NEW p,
           Holds(received, Sealed(min, RequestBytes(m)), p)
    PROVE  LET q == parseFrom(HeadOf(min, RequestBytes(m)), received) IN
           /\ q.how = "ok" /\ q.msg.type = REQUEST
           /\ q.msg.sn = m.sn /\ q.msg.cmd = m.cmd /\ q.msg.body = m.body
  <1> DEFINE s == RequestBytes(m)
             h == HeadOf(min, s)
             r == readFixed(PlainOf(h, received), 1)
             t == RequestRest(m)
  <1>1. s = Cat(<<REQUEST>>, t)
    BY DEF RequestBytes, RequestRest
  <1>2. Cells(t)
    BY TextType, WordType, Joined DEF Cells, FitsText, Fits, SmallRequest, RequestRest
  <1>3. Sendable(s) /\ Holds(received, Sealed(min, s), p)
    OBVIOUS
  <1> HIDE DEF s, t
  <1>4. r.how = "ok" /\ r.out = REQUEST /\ Has(r.ba, Len(s), t)
    BY <1>1, <1>2, <1>3, TypeRead, TypesFit
  <1>5. parseFrom(h, received) = parseFromByteArray(r.ba, r.out)
    BY <1>4, ParseFromIs
  <1> HIDE DEF r, h
  <1> DEFINE n == Len(s)
             y == r.ba
  <1>6. Has(y, n, RequestRest(m))
    BY <1>4 DEF t
  <1>7. parseFrom(h, received) = parseFromByteArray(y, REQUEST)
    BY <1>4, <1>5
  <1> HIDE DEF n, y
  <1>8. LET q == parseFromByteArray(y, REQUEST) IN
           /\ q.how = "ok" /\ q.msg.type = REQUEST
           /\ q.msg.sn = m.sn /\ q.msg.cmd = m.cmd /\ q.msg.body = m.body
    BY <1>6, RequestRead DEF SmallRequest
  <1> QED
    BY <1>7, <1>8 DEF h, s

LEMMA ResponseArrives ==
    ASSUME NEW m, SmallResponse(m), Sendable(ResponseBytes(m)), NEW min, NEW received, NEW p,
           Holds(received, Sealed(min, ResponseBytes(m)), p)
    PROVE  LET q == parseFrom(HeadOf(min, ResponseBytes(m)), received) IN
           \/ q.how = "ok" /\ q.msg.type = RESPONSE /\ q.msg.resultStr = m.resultStr
           \/ q.how = "faults" /\ Len(ResponseBytes(m)) % Base = 0
  <1> DEFINE s == ResponseBytes(m)
             h == HeadOf(min, s)
             r == readFixed(PlainOf(h, received), 1)
             t == ResponseRest(m)
  <1>1. s = Cat(<<RESPONSE>>, t)
    BY DEF ResponseBytes, ResponseRest
  <1>2. Cells(t)
    BY TextType, WordType, Joined DEF Cells, FitsText, Fits, SmallResponse, IsResponse,
       ResponseRest
  <1>3. Sendable(s) /\ Holds(received, Sealed(min, s), p)
    OBVIOUS
  <1> HIDE DEF s, t
  <1>4. r.how = "ok" /\ r.out = RESPONSE /\ Has(r.ba, Len(s), t)
    BY <1>1, <1>2, <1>3, TypeRead, TypesFit
  <1>5. parseFrom(h, received) = parseFromByteArray(r.ba, r.out)
    BY <1>4, ParseFromIs
  <1> HIDE DEF r, h
  <1> DEFINE n == Len(s)
             y == r.ba
  <1>6. Has(y, n, ResponseRest(m))
    BY <1>4 DEF t
  <1>7. parseFrom(h, received) = parseFromByteArray(y, RESPONSE)
    BY <1>4, <1>5
  <1> HIDE DEF n, y
  <1>8. LET q == parseFromByteArray(y, RESPONSE) IN
           \/ q.how = "ok" /\ q.msg.type = RESPONSE /\ q.msg.resultStr = m.resultStr
           \/ q.how = "faults" /\ n % Base = 0
    BY <1>6, ResponseRead DEF SmallResponse
  <1> QED
    BY <1>7, <1>8 DEF h, s, n

-----------------------------------------------------------------------------
(* The question and the answer of a text.                                  *)

(* The text in an array. *)
LEMMA WholeText ==
    ASSUME NEW b, NEW s, Holds(b, s, 0), s # <<>>
    PROVE  toString(b).out = s
  <1> DEFINE n == Len(s)
             p == b.position
             e == <<>>
  <1>1. s \in Seq(Cell) /\ n \in Nat /\ b.size = n /\ p = 0
    BY HoldsType DEF Holds
  <1>2. getReadSize(b) = n /\ n # 0
    BY <1>1 DEF getReadSize
  <1>3. toString(b) = readAt(b, n, p)
    BY <1>2 DEF toString
  <1>4. Has(b, n, s)
    BY HoldsHas
  <1>5. s \o e = s /\ e \in Seq(Cell)
    BY <1>1, ConcatEmptySeq
  <1> HIDE DEF n, e, p
  <1>6. Has(b, n, s \o e)
    BY <1>4, <1>5
  <1>7. read(b, n).how = "ok" /\ read(b, n).out = s
    <2>1. s \in Seq(Cell) /\ e \in Seq(Cell) /\ n \in Nat
      BY <1>1, <1>5
    <2>2. n = Len(s)
      BY DEF n
    <2> QED
      BY <1>6, <2>1, <2>2, HasRead
  <1>8. readAt(b, n, p).out = read(b, n).out
    BY <1>7 DEF read, Throws, Faults, getReadSize, p, readAt, Here
  <1> QED
    BY <1>3, <1>7, <1>8

LEMMA TextsFit ==
    ASSUME NEW t \in Texts
    PROVE  /\ FitsText(t) /\ t \in Seq(Cell) /\ t \in Seq(Byte) /\ Len(t) \in Nat
           /\ 2 * (21 + Len(t)) < Weight(4) /\ t # <<>>
  <1>1. t \in Seq(1..(Radix - 1)) /\ t # <<>> /\ 2 * (21 + Len(t)) < Weight(4)
    BY ExchangeAssumption DEF Weight
  <1>2. 1..(Radix - 1) \subseteq Byte
    BY RadixIs DEF Byte
  <1>3. t \in Seq(Byte)
    BY <1>1, <1>2, SeqMonotonic
  <1>4. t \in Seq(Cell) /\ Len(t) \in Nat
    BY <1>3, BytesCells
  <1>5. Len(t) < Weight(4)
    BY <1>1, <1>4, Weights
  <1> QED
    BY <1>1, <1>3, <1>4, <1>5 DEF FitsText

(* The request for a text, and the response to it. *)
Question(t, n) == [type |-> REQUEST, sn |-> n, cmd |-> 0, body |-> t]
Reply(t, n) == createResponse(Question(t, n))

LEMMA CreateMessageIs ==
    ASSUME NEW t \in Texts
    PROVE  CreateMessage(t) = Question(t, m_sn)
  <1> DEFINE e == <<>>
             a == write(NewArray, t)
  <1>1. t \in Seq(Cell) /\ t # <<>> /\ 0 \in 0..Len(t)
    BY TextsFit
  <1>2. e \o t = t /\ Holds(NewArray, e, Len(e))
    BY <1>1, HoldsNew, ConcatEmptySeq
  <1> HIDE DEF e
  <1>3. Holds(a, e \o t, Len(e \o t))
    BY <1>1, <1>2, HoldsWrite
  <1> HIDE DEF a
  <1>4. Holds(setPosition(a, 0).ba, t, 0)
    BY <1>1, <1>2, <1>3, HoldsAt
  <1>5. toString(setPosition(a, 0).ba).out = t
    BY <1>1, <1>4, WholeText
  <1> QED
    BY <1>5 DEF CreateMessage, Question, a

LEMMA QuestionIs ==
    ASSUME NEW t \in Texts, NEW n \in Nat, n <= MaxTexts
    PROVE  /\ SmallRequest(Question(t, n)) /\ Sendable(RequestBytes(Question(t, n)))
           /\ SmallResponse(Reply(t, n)) /\ Sendable(ResponseBytes(Reply(t, n)))
           /\ Len(ResponseBytes(Reply(t, n))) = 21 + Len(t)
           /\ Reply(t, n).resultStr = t
  <1> DEFINE q == Question(t, n)
             a == Reply(t, n)
  <1>1. /\ q.type = REQUEST /\ q.sn = n /\ q.cmd = 0 /\ q.body = t
    BY DEF Question
  <1>2. /\ a.type = RESPONSE /\ a.sn = n /\ a.cmd = 0 /\ a.result = 0
        /\ a.resultStr = t /\ a.body = <<>>
    BY DEF Reply, createResponse, Question
  <1> HIDE DEF q, a
  <1>3. /\ FitsText(t) /\ t \in Seq(Byte) /\ Len(t) \in Nat /\ 2 * (21 + Len(t)) < Weight(4)
    BY TextsFit
  <1>4. Fits(n) /\ Fits(0)
    <2>1. MaxTexts < Weight(4) /\ MaxTexts \in Nat
      BY ExchangeAssumption DEF Weight
    <2>2. Weight(4) \in Nat \ {0}
      BY Weights
    <2> QED
      BY <2>1, <2>2 DEF Fits
  <1>5. <<>> \in Seq(Byte) /\ Len(<<>>) = 0
    OBVIOUS
  <1>6. SmallRequest(q) /\ IsRequest(q)
    BY <1>1, <1>3, <1>4 DEF SmallRequest, IsRequest
  <1>7. SmallResponse(a) /\ IsResponse(a)
    BY <1>2, <1>3, <1>4, <1>5 DEF SmallResponse, IsResponse
  <1>8. Sendable(RequestBytes(q))
    <2>1. RequestBytes(q) \in Seq(Byte) /\ Len(RequestBytes(q)) = 13 + Len(t)
      BY <1>1, <1>6, RequestLength
    <2>2. 2 * (13 + Len(t)) < Weight(4)
      BY <1>3, Weights
    <2> QED
      BY <2>1, <2>2 DEF Sendable
  <1>9. Sendable(ResponseBytes(a)) /\ Len(ResponseBytes(a)) = 21 + Len(t)
    <2>1. /\ ResponseBytes(a) \in Seq(Byte)
          /\ Len(ResponseBytes(a)) = (21 + Len(a.resultStr)) + Len(a.body)
      BY <1>7, ResponseLength
    <2>2. Len(a.resultStr) = Len(t) /\ Len(a.body) = 0
      BY <1>2, <1>5
    <2>3. Len(ResponseBytes(a)) = 21 + Len(t)
      BY <1>3, <2>1, <2>2
    <2>4. 2 * Len(ResponseBytes(a)) < Weight(4)
      BY <1>3, <2>3
    <2> QED
      BY <2>1, <2>3, <2>4 DEF Sendable
  <1> QED
    BY <1>2, <1>6, <1>7, <1>8, <1>9 DEF q, a

-----------------------------------------------------------------------------
(* Pieces of sequences.                                                    *)

(* The elements of x behind the first a, up to the b-th. *)
Part(x, a, b) == SubSeq(x, a + 1, b)
Spans(x, a, b) == Cells(x) /\ a \in Nat /\ b \in Nat /\ a <= b /\ b <= Len(x)

LEMMA PartIs ==
    ASSUME NEW x, NEW a, NEW b, Spans(x, a, b)
    PROVE  Cells(Part(x, a, b)) /\ Len(Part(x, a, b)) = b - a
  <1> DEFINE k == b - a
  <1>1. x \in Seq(Cell) /\ a \in Nat /\ k \in Nat /\ a + k <= Len(x) /\ b = a + k
    BY DEF Spans, Cells
  <1> HIDE DEF k
  <1>2. SubSeq(x, a + 1, a + k) \in Seq(Cell) /\ Len(SubSeq(x, a + 1, a + k)) = k
    BY <1>1, Stretch
  <1> QED
    BY <1>1, <1>2 DEF Part, Cells, k

LEMMA PartsMeet ==
    ASSUME NEW x, NEW a, NEW b, NEW c, Spans(x, a, b), Spans(x, b, c)
    PROVE  Cat(Part(x, a, b), Part(x, b, c)) = Part(x, a, c)
  <1> DEFINE m == a + 1
  <1>1. x \in Seq(Cell) /\ m \in 1..(Len(x) + 1) /\ b \in (m - 1)..Len(x) /\ c \in b..Len(x)
    BY LenProperties DEF Spans, Cells
  <1> HIDE DEF m
  <1>2. SubSeq(x, m, b) \o SubSeq(x, b + 1, c) = SubSeq(x, m, c)
    BY <1>1, ConcatAdjacentSubSeq
  <1> QED
    BY <1>2 DEF Part, Cat, m

LEMMA PartWhole ==
    ASSUME NEW x, Cells(x)
    PROVE  Part(x, 0, Len(x)) = x /\ Len(x) \in Nat
  BY SubSeqFull, LenProperties DEF Part, Cells

LEMMA PartOfPart ==
    ASSUME NEW x, NEW a, NEW b, Spans(x, a, b), NEW n \in Nat \ {0}, n <= b - a
    PROVE  Part(Part(x, a, b), 0, n) = Part(x, a, a + n)
  <1> DEFINE i == a + 1
             p == Part(x, a, b)
             m == 1
  <1>1. Cells(x) /\ a \in Nat /\ b \in Nat /\ a <= b /\ b <= Len(x) /\ Len(x) \in Nat
    BY LenProperties DEF Spans, Cells
  <1>2. x \in Seq(Cell) /\ p \in Seq(Cell)
    BY PartIs DEF Cells, Spans
  <1>3. /\ i \in 1..Len(x) /\ b \in 1..Len(x)
        /\ m \in 1..(b - i + 1) /\ n \in 1..(b - i + 1)
    BY <1>1
  <1>4. i + m - 1 = a + 1 /\ i + n - 1 = a + n
    BY <1>1
  <1> HIDE DEF i, m
  <1>5. SubSeq(SubSeq(x, i, b), m, n) = SubSeq(x, i + m - 1, i + n - 1)
    BY <1>2, <1>3, SubSeqOfSubSeq
  <1>6. SubSeq(SubSeq(x, i, b), m, n) = SubSeq(x, a + 1, a + n)
    BY <1>4, <1>5
  <1>7. p = SubSeq(x, i, b)
    BY DEF Part, i
  <1> HIDE DEF p
  <1>8. Part(p, 0, n) = SubSeq(p, m, n)
    BY DEF Part, m
  <1>9. Part(x, a, a + n) = SubSeq(x, a + 1, a + n)
    BY DEF Part
  <1>10. Part(p, 0, n) = Part(x, a, a + n)
    BY <1>6, <1>7, <1>8, <1>9
  <1> QED
    BY <1>10 DEF p

(* The first n elements and what is behind them. *)
Front(x, n) == Part(x, 0, n)
Beyond(x, n) == Part(x, n, Len(x))

LEMMA FrontBack ==
    ASSUME NEW x, Cells(x), NEW n \in Nat, n <= Len(x)
    PROVE  /\ Cells(Front(x, n)) /\ Cells(Beyond(x, n)) /\ Len(Front(x, n)) = n
           /\ Len(Beyond(x, n)) = Len(x) - n /\ Cat(Front(x, n), Beyond(x, n)) = x
  <1> DEFINE z == 0
             l == Len(x)
  <1>1. z \in Nat /\ l \in Nat /\ z <= n /\ n <= l /\ l <= Len(x) /\ n - z = n
    BY LenProperties DEF Cells
  <1>2. Part(x, z, l) = x
    BY PartWhole
  <1> HIDE DEF z, l
  <1>3. Spans(x, z, n) /\ Spans(x, n, l)
    BY <1>1 DEF Spans, l
  <1>4. /\ Cells(Part(x, z, n)) /\ Len(Part(x, z, n)) = n - z
        /\ Cells(Part(x, n, l)) /\ Len(Part(x, n, l)) = l - n
    BY <1>3, PartIs
  <1>5. Cat(Part(x, z, n), Part(x, n, l)) = Part(x, z, l)
    BY <1>3, PartsMeet
  <1>6. Front(x, n) = Part(x, z, n) /\ Beyond(x, n) = Part(x, n, l) /\ l = Len(x)
    BY DEF Front, Beyond, z, l
  <1> QED
    BY <1>1, <1>2, <1>4, <1>5, <1>6

LEMMA Nothing ==
    /\ Cells(<<>>) /\ Len(<<>>) = 0
    /\ \A x : Cells(x) => Cat(x, <<>>) = x /\ Cat(<<>>, x) = x
    /\ \A x : Cells(x) /\ Len(x) = 0 => x = <<>>
  BY ConcatEmptySeq, EmptySeq DEF Cells, Cat

LEMMA CatLength ==
    ASSUME NEW x, NEW y, Cells(x), Cells(y)
    PROVE  Len(Cat(x, y)) = Len(x) + Len(y) /\ Len(x) \in Nat /\ Len(y) \in Nat
  BY ConcatProperties, LenProperties DEF Cat, Cells

LEMMA BothNothing ==
    ASSUME NEW x, NEW y, Cells(x), Cells(y), Cat(x, y) = <<>>
    PROVE  x = <<>> /\ y = <<>>
  BY CatLength, Nothing

LEMMA SameFront ==
    ASSUME NEW a, NEW y, NEW h, NEW z, Cells(a), Cells(y), Cells(h), Cells(z),
           Cat(a, y) = Cat(h, z), Len(a) = Len(h)
    PROVE  a = h /\ y = z
  <1> DEFINE w == Cat(a, y)
             e == 0
  <1>1. Cells(w) /\ Part(w, e, Len(w)) = w
    BY Joined, PartWhole
  <1>2. w = a \o y /\ w = h \o z
    BY DEF Cat
  <1>3. e \in Nat /\ e <= Len(w) /\ Ahead(w, e) = w
    BY <1>1, PartWhole DEF Ahead, Part
  <1> HIDE DEF w, e
  <1>4. Begins(Cell, w, e, a, y) /\ Begins(Cell, w, e, h, z)
    BY <1>2, <1>3, <1>1 DEF Begins, Cells
  <1>5. /\ Taken(w, e, Len(a)) = a /\ Ahead(w, e + Len(a)) = y
        /\ Taken(w, e, Len(h)) = h /\ Ahead(w, e + Len(h)) = z
    BY <1>4, SplitAt
  <1> QED
    BY <1>5

(* x is the beginning of f. *)
Starts(x, f) == \E y : Cells(y) /\ Cat(x, y) = f

LEMMA StartsAll ==
    ASSUME NEW x, NEW y, Cells(x), Cells(y)
    PROVE  Starts(x, Cat(x, y)) /\ Starts(x, x) /\ Starts(<<>>, x)
  BY Nothing DEF Starts

-----------------------------------------------------------------------------
(* What a side has read of a frame, and what it has yet to write.          *)

(* What a side has read of a frame, and what it has yet to write. *)
Got(r) ==
    IF r.pc = "head" THEN r.head
    ELSE IF r.pc = "body" THEN Cat(r.head, Bytes(r.ba))
    ELSE <<>>

Rest(w) ==
    IF w.pc = "head" THEN Cat(w.head, Bytes(w.ba))
    ELSE IF w.pc = "body" THEN Beyond(Bytes(w.ba), w.ba.position)
    ELSE <<>>

ReadsHead(r) ==
    /\ r = [pc |-> "head", head |-> r.head, left |-> r.left, ba |-> NewArray]
    /\ Cells(r.head) /\ r.left \in Nat /\ Len(r.head) + r.left = HeaderSize

ReadsBody(r) ==
    /\ r = [pc |-> "body", head |-> r.head, left |-> r.left, ba |-> r.ba]
    /\ Cells(r.head) /\ Len(r.head) = HeaderSize
    /\ Held(r.ba, Bytes(r.ba))
    /\ r.left \in Nat /\ Len(Bytes(r.ba)) + r.left = LengthIn(r.head)

InOk(r) == r = Silent \/ ReadsHead(r) \/ ReadsBody(r)

WritesHead(w) ==
    /\ w = [pc |-> "head", head |-> w.head, ba |-> w.ba]
    /\ Cells(w.head) /\ w.head # <<>>
    /\ Holds(w.ba, Bytes(w.ba), 0)

WritesBody(w) ==
    /\ w = [pc |-> "body", head |-> w.head, ba |-> w.ba]
    /\ Holds(w.ba, Bytes(w.ba), w.ba.position)

OutOk(w) == w = Silent \/ WritesHead(w) \/ WritesBody(w)

LEMMA HoldsBytes ==
    ASSUME NEW b, NEW s, NEW p, Holds(b, s, p)
    PROVE  Bytes(b) = s /\ b.position = p /\ Cells(s) /\ p \in Nat /\ p <= Len(s) /\ Len(s) \in Nat
  BY HoldsType DEF Holds, Cells

LEMMA GotCells ==
    ASSUME NEW r, InOk(r)
    PROVE  Cells(Got(r))
  <1>1. CASE r = Silent
    BY <1>1, Nothing DEF Got, Silent
  <1>2. CASE ReadsHead(r)
    BY <1>2 DEF Got, ReadsHead
  <1>3. CASE ReadsBody(r)
    BY <1>3, HoldsBytes, Joined DEF ReadsBody, Held, Got
  <1> QED
    BY <1>1, <1>2, <1>3 DEF InOk

LEMMA RestCells ==
    ASSUME NEW w, OutOk(w)
    PROVE  Cells(Rest(w))
  <1>1. CASE w = Silent
    BY <1>1, Nothing DEF Rest, Silent
  <1>2. CASE WritesHead(w)
    BY <1>2, HoldsBytes, Joined DEF WritesHead, Rest
  <1>3. CASE WritesBody(w)
    <2> DEFINE s == Bytes(w.ba)
               p == w.ba.position
    <2>1. Cells(s) /\ p \in Nat /\ p <= Len(s) /\ w.pc = "body"
      BY <1>3, HoldsBytes DEF WritesBody
    <2>2. Rest(w) = Beyond(s, p)
      BY <2>1 DEF Rest
    <2> HIDE DEF s, p
    <2> QED
      BY <2>1, <2>2, FrontBack
  <1> QED
    BY <1>1, <1>2, <1>3 DEF OutOk

LEMMA PcOf ==
    ASSUME NEW r
    PROVE  /\ Silent.pc = "idle" /\ (ReadsHead(r) => r.pc = "head") /\ (ReadsBody(r) => r.pc = "body")
           /\ (WritesHead(r) => r.pc = "head") /\ (WritesBody(r) => r.pc = "body")
           /\ "head" # "idle" /\ "body" # "idle" /\ "head" # "body"
           /\ (InOk(r) /\ r.pc = "idle" => r = Silent) /\ (OutOk(r) /\ r.pc = "idle" => r = Silent)
           /\ (InOk(r) /\ r.pc = "head" => ReadsHead(r))
           /\ (InOk(r) /\ r.pc = "body" => ReadsBody(r))
           /\ (OutOk(r) /\ r.pc = "head" => WritesHead(r))
           /\ (OutOk(r) /\ r.pc = "body" => WritesBody(r))
  BY DEF Silent, ReadsHead, ReadsBody, WritesHead, WritesBody, InOk, OutOk

-----------------------------------------------------------------------------
(* Each piece that is read or written goes from one end to the other. *)
LEMMA HeadPiece ==
    ASSUME NEW r, ReadsHead(r), NEW l, Cells(l), NEW n \in Nat \ {0}, n <= Len(l), n <= r.left
    PROVE  LET q == [r EXCEPT !.head = @ \o SubSeq(l, 1, n), !.left = @ - n] IN
           /\ ReadsHead(q) /\ Cells(SubSeq(l, n + 1, Len(l)))
           /\ Cat(Got(q), SubSeq(l, n + 1, Len(l))) = Cat(Got(r), l)
  <1> DEFINE x == Front(l, n)
             y == Beyond(l, n)
             h == Cat(r.head, x)
             k == r.left - n
             q == [r EXCEPT !.head = @ \o SubSeq(l, 1, n), !.left = @ - n]
  <1>1. /\ r = [pc |-> "head", head |-> r.head, left |-> r.left, ba |-> NewArray]
        /\ Cells(r.head) /\ r.left \in Nat /\ Len(r.head) + r.left = HeaderSize
    BY DEF ReadsHead
  <1>2. Cells(x) /\ Cells(y) /\ Len(x) = n /\ Cat(x, y) = l
    BY FrontBack
  <1>3. y = SubSeq(l, n + 1, Len(l)) /\ x = SubSeq(l, 1, n)
    BY DEF Front, Beyond, Part
  <1>4. h = r.head \o SubSeq(l, 1, n)
    BY <1>3 DEF Cat
  <1> HIDE DEF x, y
  <1>5. Cells(h) /\ Len(h) = Len(r.head) + n /\ Len(r.head) \in Nat
    BY <1>1, <1>2, Joined, CatLength
  <1> HIDE DEF h
  <1>6. q = [pc |-> "head", head |-> h, left |-> k, ba |-> NewArray]
    <2>1. q = [r EXCEPT !.head = h, !.left = k]
      BY <1>1, <1>4
    <2> DEFINE u == r.head
               v == r.left
               w == r.ba
               pc == r.pc
    <2>2. r = [pc |-> pc, head |-> u, left |-> v, ba |-> w]
      BY <1>1
    <2>3. pc = "head" /\ w = NewArray
      BY <1>1
    <2> HIDE DEF q, k, u, v, w, pc
    <2> DEFINE part == [r EXCEPT !.head = h]
    <2>5. part = [pc |-> pc, head |-> h, left |-> v, ba |-> w]
      BY <2>2
    <2>6. [r EXCEPT !.head = h, !.left = k] = [part EXCEPT !.left = k]
      OBVIOUS
    <2> HIDE DEF part
    <2>7. [part EXCEPT !.left = k] = [pc |-> pc, head |-> h, left |-> k, ba |-> w]
      BY <2>5
    <2>4. [r EXCEPT !.head = h, !.left = k] = [pc |-> pc, head |-> h, left |-> k, ba |-> w]
      BY <2>6, <2>7
    <2> QED
      BY <2>1, <2>3, <2>4 DEF u
  <1>7. k \in Nat /\ Len(h) + k = HeaderSize
    BY <1>1, <1>5
  <1> HIDE DEF q, k
  <1>8. q.pc = "head" /\ q.head = h /\ q.left = k /\ q.ba = NewArray
    BY <1>6
  <1>9. ReadsHead(q)
    BY <1>5, <1>6, <1>7, <1>8 DEF ReadsHead
  <1>10. Got(q) = h /\ Got(r) = r.head
    BY <1>1, <1>8 DEF Got
  <1>11. Cat(h, y) = Cat(r.head, l)
    BY <1>1, <1>2, Turned DEF h
  <1> QED
    BY <1>2, <1>3, <1>9, <1>10, <1>11 DEF q

LEMMA BodyPiece ==
    ASSUME NEW r, ReadsBody(r), NEW l, Cells(l), NEW n \in Nat \ {0}, n <= Len(l),
           n <= AtMost(r.left, MAX_LEN)
    PROVE  LET q == [r EXCEPT !.ba = Filled(@, AtMost(r.left, MAX_LEN), SubSeq(l, 1, n)),
                              !.left = @ - n]
           IN /\ ReadsBody(q) /\ Cells(SubSeq(l, n + 1, Len(l)))
              /\ Cat(Got(q), SubSeq(l, n + 1, Len(l))) = Cat(Got(r), l)
  <1> DEFINE x == Front(l, n)
             y == Beyond(l, n)
             m == AtMost(r.left, MAX_LEN)
             s == Bytes(r.ba)
             b == Filled(r.ba, m, x)
             k == r.left - n
             q == [r EXCEPT !.ba = Filled(@, AtMost(r.left, MAX_LEN), SubSeq(l, 1, n)),
                            !.left = @ - n]
  <1>1. /\ r = [pc |-> "body", head |-> r.head, left |-> r.left, ba |-> r.ba]
        /\ Cells(r.head) /\ Len(r.head) = HeaderSize
        /\ Held(r.ba, s) /\ r.left \in Nat /\ Len(s) + r.left = LengthIn(r.head)
    BY DEF ReadsBody
  <1>2. Cells(x) /\ Cells(y) /\ Len(x) = n /\ Cat(x, y) = l
    BY FrontBack
  <1>3. y = SubSeq(l, n + 1, Len(l)) /\ x = SubSeq(l, 1, n)
    BY DEF Front, Beyond, Part
  <1> HIDE DEF x, y
  <1>4. m \in Nat \ {0} /\ n <= m /\ m <= r.left
    BY <1>1, ExchangeAssumption DEF AtMost
  <1> HIDE DEF m, s
  <1>5. Held(b, Cat(s, x))
    BY <1>2, <1>4, <1>1, HoldsFilled DEF Cells, Held, Cat
  <1> HIDE DEF b
  <1>6. Bytes(b) = Cat(s, x) /\ Cells(s) /\ Len(s) \in Nat
    BY <1>1, <1>5, HoldsBytes DEF Held
  <1>7. Len(Cat(s, x)) = Len(s) + n
    BY <1>2, <1>6, CatLength
  <1>8. q = [pc |-> "body", head |-> r.head, left |-> k, ba |-> b]
    <2>1. q = [r EXCEPT !.ba = b, !.left = k]
      BY <1>1, <1>3 DEF b, m
    <2> DEFINE u == r.head
               v == r.left
               w == r.ba
               pc == r.pc
    <2>2. r = [pc |-> pc, head |-> u, left |-> v, ba |-> w]
      BY <1>1
    <2>3. pc = "body"
      BY <1>1
    <2> HIDE DEF q, k, u, v, w, pc
    <2> DEFINE part == [r EXCEPT !.ba = b]
    <2>5. part = [pc |-> pc, head |-> u, left |-> v, ba |-> b]
      BY <2>2
    <2>6. [r EXCEPT !.ba = b, !.left = k] = [part EXCEPT !.left = k]
      OBVIOUS
    <2> HIDE DEF part
    <2>7. [part EXCEPT !.left = k] = [pc |-> pc, head |-> u, left |-> k, ba |-> b]
      BY <2>5
    <2>4. [r EXCEPT !.ba = b, !.left = k] = [pc |-> pc, head |-> u, left |-> k, ba |-> b]
      BY <2>6, <2>7
    <2> QED
      BY <2>1, <2>3, <2>4 DEF u
  <1>9. k \in Nat /\ (Len(s) + n) + k = LengthIn(r.head)
    BY <1>1, <1>4, <1>6
  <1> HIDE DEF q, k
  <1>10. q.pc = "body" /\ q.head = r.head /\ q.left = k /\ q.ba = b
    BY <1>8
  <1>11. ReadsBody(q)
    BY <1>1, <1>5, <1>6, <1>7, <1>8, <1>9, <1>10 DEF ReadsBody
  <1>12. Got(q) = Cat(r.head, Cat(s, x)) /\ Got(r) = Cat(r.head, s)
    BY <1>1, <1>6, <1>10 DEF Got, s
  <1>13. Cat(Cat(r.head, Cat(s, x)), y) = Cat(Cat(r.head, s), l)
    BY <1>2, <1>6, Joined, <1>1, Turned
  <1> QED
    BY <1>2, <1>3, <1>11, <1>12, <1>13 DEF q

LEMMA LengthType ==
    ASSUME NEW h, Cells(h), Len(h) = HeaderSize
    PROVE  LengthIn(h) \in Nat
  <1> DEFINE z == SubSeq(h, 5, 8)
  <1>2. z \in Seq(Nat) /\ Len(z) = 4
    <2> DEFINE p == 4
               k == 4
    <2>1. h \in Seq(Cell) /\ p \in Nat /\ k \in Nat /\ p + k <= Len(h)
      BY DEF Cells, HeaderSize
    <2>2. p + 1 = 5 /\ p + k = 8
      OBVIOUS
    <2> HIDE DEF p, k
    <2>3. SubSeq(h, p + 1, p + k) \in Seq(Cell) /\ Len(SubSeq(h, p + 1, p + k)) = k
      BY <2>1, Stretch
    <2>4. z \in Seq(Cell) /\ Len(z) = k
      BY <2>2, <2>3
    <2> HIDE DEF z
    <2>5. z \in Seq(Nat)
      BY <2>4, RadixIs, SeqMonotonic
    <2> QED
      BY <2>4, <2>5 DEF k
  <1> QED
    BY <1>2, FromMemoryType DEF LengthIn

LEMMA HeadDone ==
    ASSUME NEW r, ReadsHead(r), r.left = 0
    PROVE  LET q == [r EXCEPT !.pc = "body", !.left = LengthIn(r.head)] IN
           ReadsBody(q) /\ Got(q) = Got(r) /\ Len(r.head) = HeaderSize /\ Got(r) = r.head
  <1> DEFINE k == LengthIn(r.head)
             q == [r EXCEPT !.pc = "body", !.left = k]
             e == <<>>
  <1>1. /\ r = [pc |-> "head", head |-> r.head, left |-> r.left, ba |-> NewArray]
        /\ Cells(r.head) /\ Len(r.head) + r.left = HeaderSize
    BY DEF ReadsHead
  <1>2. Len(r.head) = HeaderSize
    BY <1>1, LenProperties DEF Cells
  <1>3. k \in Nat
    BY <1>1, <1>2, LengthType
  <1>4. Held(NewArray, e) /\ Bytes(NewArray) = e
    BY HoldsNew DEF Held, Holds
  <1>5. q = [pc |-> "body", head |-> r.head, left |-> k, ba |-> NewArray]
    <2> DEFINE u == r.head
               v == r.left
               w == r.ba
               pc == r.pc
    <2>2. r = [pc |-> pc, head |-> u, left |-> v, ba |-> w]
      BY <1>1
    <2>3. w = NewArray
      BY <1>1
    <2> HIDE DEF q, k, u, v, w, pc
    <2> DEFINE part == [r EXCEPT !.pc = "body"]
    <2>5. part = [pc |-> "body", head |-> u, left |-> v, ba |-> w]
      BY <2>2
    <2>6. [r EXCEPT !.pc = "body", !.left = k] = [part EXCEPT !.left = k]
      OBVIOUS
    <2> HIDE DEF part
    <2>7. [part EXCEPT !.left = k] = [pc |-> "body", head |-> u, left |-> k, ba |-> w]
      BY <2>5
    <2>4. [r EXCEPT !.pc = "body", !.left = k] = [pc |-> "body", head |-> u, left |-> k, ba |-> w]
      BY <2>6, <2>7
    <2> QED
      BY <2>3, <2>4 DEF u, q
  <1>6. Len(e) + k = k
    BY <1>3, Nothing
  <1>7. LengthIn(r.head) = k
    OBVIOUS
  <1> HIDE DEF q, k, e
  <1>8. q.pc = "body" /\ q.head = r.head /\ q.left = k /\ q.ba = NewArray
    BY <1>5
  <1>9. ReadsBody(q)
    BY <1>1, <1>2, <1>3, <1>4, <1>5, <1>6, <1>7, <1>8 DEF ReadsBody
  <1>10. Got(r) = r.head
    BY <1>1 DEF Got
  <1>11. Got(q) = Cat(r.head, e)
    BY <1>4, <1>8 DEF Got
  <1>12. Cat(r.head, e) = r.head
    BY <1>1, Nothing DEF e
  <1> QED
    BY <1>2, <1>9, <1>10, <1>11, <1>12 DEF q, k

-----------------------------------------------------------------------------
(* Pieces that are sent.                                                   *)

LEMMA HeadSent ==
    ASSUME NEW w, WritesHead(w), NEW n \in Nat \ {0}, n <= Len(w.head)
    PROVE  LET v == [w EXCEPT !.head = SubSeq(@, n + 1, Len(@)),
                              !.pc = IF n = Len(w.head) THEN "body" ELSE @]
           IN /\ OutOk(v) /\ v # Silent /\ Cells(SubSeq(w.head, 1, n))
              /\ Cat(SubSeq(w.head, 1, n), Rest(v)) = Rest(w)
  <1> DEFINE h == w.head
             s == Bytes(w.ba)
             b == w.ba
             x == Front(h, n)
             y == Beyond(h, n)
             c == IF n = Len(h) THEN "body" ELSE "head"
             v == [w EXCEPT !.head = SubSeq(@, n + 1, Len(@)),
                            !.pc = IF n = Len(w.head) THEN "body" ELSE @]
  <1>1. /\ w = [pc |-> "head", head |-> h, ba |-> b]
        /\ Cells(h) /\ Holds(b, s, 0)
    BY DEF WritesHead
  <1>2. Cells(x) /\ Cells(y) /\ Len(x) = n /\ Len(y) = Len(h) - n /\ Cat(x, y) = h
    BY <1>1, FrontBack
  <1>3. y = SubSeq(h, n + 1, Len(h)) /\ x = SubSeq(h, 1, n)
    BY DEF Front, Beyond, Part
  <1>4. Cells(s) /\ b.position = 0 /\ s = Bytes(b) /\ Len(s) \in Nat
    BY <1>1, HoldsBytes
  <1>5. w.pc = "head" /\ Rest(w) = Cat(h, s)
    BY <1>1 DEF Rest
  <1>6. Len(h) \in Nat
    BY <1>1, LenProperties DEF Cells
  <1>7. v = [pc |-> c, head |-> y, ba |-> b]
    <2> DEFINE z == [w EXCEPT !.head = y]
    <2>1. v = [z EXCEPT !.pc = c]
      BY <1>3, <1>5
    <2> HIDE DEF h, b, y, c, v
    <2>2. z = [pc |-> "head", head |-> y, ba |-> b]
      BY <1>1
    <2> HIDE DEF z
    <2>3. [z EXCEPT !.pc = c] = [pc |-> c, head |-> y, ba |-> b]
      BY <2>2
    <2> QED
      BY <2>1, <2>3
  <1> HIDE DEF v
  <1>8. v.pc = c /\ v.head = y /\ v.ba = b
    BY <1>7
  <1> HIDE DEF h, b, s, x, y
  <1>9. Cat(x, Cat(y, s)) = Cat(h, s)
    BY <1>2, <1>4, Turned
  <1>10. OutOk(v) /\ v # Silent /\ Rest(v) = Cat(y, s)
    <2>1. CASE n = Len(h)
      <3>1. c = "body"
        BY <2>1
      <3> HIDE DEF c
      <3>2. WritesBody(v)
        BY <1>1, <1>4, <1>7, <1>8, <3>1 DEF WritesBody
      <3>3. Rest(v) = Beyond(s, 0)
        BY <1>4, <1>8, <3>1 DEF Rest
      <3>4. Beyond(s, 0) = s
        BY <1>4, PartWhole DEF Beyond
      <3>5. y = <<>>
        BY <1>2, <1>6, <2>1, Nothing
      <3>6. Cat(y, s) = s
        BY <1>4, <3>5, Nothing
      <3> QED
        BY <3>2, <3>3, <3>4, <3>6, PcOf DEF OutOk
    <2>2. CASE n # Len(h)
      <3>1. c = "head"
        BY <2>2
      <3> HIDE DEF c
      <3>2. y # <<>>
        BY <1>2, <1>6, <2>2, Nothing DEF h
      <3>3. WritesHead(v)
        BY <1>1, <1>2, <1>4, <1>7, <1>8, <3>1, <3>2 DEF WritesHead
      <3>4. Rest(v) = Cat(y, s)
        BY <1>4, <1>8, <3>1 DEF Rest
      <3> QED
        BY <3>3, <3>4, PcOf DEF OutOk
    <2> QED
      BY <2>1, <2>2
  <1>11. SubSeq(w.head, 1, n) = x
    BY <1>3 DEF h
  <1> QED
    BY <1>2, <1>5, <1>9, <1>10, <1>11 DEF v

LEMMA BodySent ==
    ASSUME NEW w, WritesBody(w), NEW bytes,
           bytes = Gather(w.ba.data, getReadBuffers(w.ba, AtMost(getReadSize(w.ba), MAX_LEN))),
           NEW n \in Nat \ {0}, n <= Len(bytes)
    PROVE  LET v == IF n = getReadSize(w.ba) THEN Silent ELSE [w EXCEPT !.ba = Sent(@, n)]
           IN /\ OutOk(v) /\ Cells(SubSeq(bytes, 1, n))
              /\ Cat(SubSeq(bytes, 1, n), Rest(v)) = Rest(w)
  <1> DEFINE s == Bytes(w.ba)
             b == w.ba
             p == b.position
             k == getReadSize(b)
             m == AtMost(k, MAX_LEN)
             j == AtMost(m, Len(s) - p)
             x == SubSeq(bytes, 1, n)
             v == IF n = k THEN Silent ELSE [w EXCEPT !.ba = Sent(@, n)]
             d == Sent(b, n)
  <1>1. w = [pc |-> "body", head |-> w.head, ba |-> b] /\ Holds(b, s, p)
    BY DEF WritesBody
  <1>2. Cells(s) /\ p \in Nat /\ p <= Len(s) /\ Len(s) \in Nat /\ b.size = Len(s)
    BY <1>1, HoldsBytes, HoldsSize
  <1>3. k = Len(s) - p
    BY <1>2 DEF getReadSize
  <1>4. bytes = Gather(b.data, getReadBuffers(b, m))
    OBVIOUS
  <1>5. Rest(w) = Beyond(s, p)
    BY <1>1 DEF Rest
  <1>6. d = setPosition(b, p + n).ba
    BY DEF Sent
  <1>7. v = IF n = k THEN Silent ELSE [w EXCEPT !.ba = d]
    OBVIOUS
  <1> HIDE DEF s, b, p, k, d, v, x
  <1>8. m \in Nat /\ m <= k
    BY <1>2, <1>3, ExchangeAssumption DEF AtMost
  <1> HIDE DEF m
  <1>9. bytes = SubSeq(s, p + 1, p + j)
    BY <1>1, <1>4, <1>8, HoldsGather
  <1>10. j \in Nat /\ j <= Len(s) - p
    BY <1>2, <1>3, <1>8 DEF AtMost
  <1> HIDE DEF j
  <1> DEFINE q == p + j
             t == p + n
  <1>11. bytes = Part(s, p, q) /\ Spans(s, p, q)
    BY <1>2, <1>9, <1>10 DEF Part, Spans
  <1>12. Len(bytes) = q - p
    BY <1>11, PartIs
  <1>13. n <= q - p /\ n <= k
    BY <1>3, <1>2, <1>10, <1>12
  <1>14. t \in Nat /\ p <= t /\ t <= Len(s)
    BY <1>2, <1>3, <1>13
  <1>15. x = Part(s, p, t)
    <2>1. x = Part(bytes, 0, n)
      BY DEF x, Part
    <2> HIDE DEF q
    <2>2. Part(Part(s, p, q), 0, n) = Part(s, p, p + n)
      BY <1>11, <1>13, PartOfPart
    <2> QED
      BY <1>11, <2>1, <2>2
  <1> HIDE DEF t
  <1>16. Spans(s, p, t) /\ Spans(s, t, Len(s))
    BY <1>2, <1>14 DEF Spans
  <1>17. Cells(x) /\ Cat(x, Beyond(s, t)) = Beyond(s, p)
    <2> DEFINE l == Len(s)
    <2> HIDE DEF l
    <2>1. Spans(s, p, t) /\ Spans(s, t, l)
      BY <1>16 DEF l
    <2>2. Cells(Part(s, p, t)) /\ Cat(Part(s, p, t), Part(s, t, l)) = Part(s, p, l)
      BY <2>1, PartIs, PartsMeet
    <2> QED
      BY <1>15, <2>2 DEF Beyond, l
  <1>18. CASE n = k
    <2>1. v = Silent /\ Rest(v) = <<>> /\ OutOk(v)
      BY <1>7, <1>18, PcOf DEF Rest, OutOk, Silent
    <2>2. Beyond(s, t) = <<>>
      BY <1>2, <1>3, <1>18, <1>14, FrontBack, Nothing DEF t
    <2> QED
      BY <1>5, <1>17, <2>1, <2>2 DEF x, v, k, b
  <1>19. CASE n # k
    <2>1. Holds(d, s, t)
      BY <1>2, <1>14, <1>1, <1>6, HoldsAt DEF t
    <2>2. Bytes(d) = s /\ d.position = t
      BY <2>1, HoldsBytes
    <2>3. v = [pc |-> "body", head |-> w.head, ba |-> d]
      <3>1. v = [w EXCEPT !.ba = d]
        BY <1>7, <1>19
      <3> DEFINE u == w.head
      <3>2. w = [pc |-> "body", head |-> u, ba |-> b]
        BY <1>1
      <3> HIDE DEF u
      <3>3. [w EXCEPT !.ba = d] = [pc |-> "body", head |-> u, ba |-> d]
        BY <3>2
      <3> QED
        BY <3>1, <3>3 DEF u
    <2>4. v.pc = "body" /\ v.head = w.head /\ v.ba = d
      BY <2>3
    <2>5. WritesBody(v)
      BY <2>1, <2>2, <2>3, <2>4 DEF WritesBody
    <2>6. Rest(v) = Beyond(s, t)
      BY <2>2, <2>4 DEF Rest
    <2> QED
      BY <1>5, <1>17, <2>5, <2>6 DEF OutOk, x, v, k, b
  <1> QED
    BY <1>18, <1>19

-----------------------------------------------------------------------------
(* A frame, and what has come of one.                                      *)

(* The frame of the bytes s. *)
Frame(min, s) == Cat(HeadOf(min, s), Sealed(min, s))

LEMMA FrameIs ==
    ASSUME NEW s, Sendable(s), NEW min
    PROVE  /\ Cells(HeadOf(min, s)) /\ Len(HeadOf(min, s)) = HeaderSize
           /\ Cells(Sealed(min, s)) /\ Cells(Frame(min, s))
           /\ LengthIn(HeadOf(min, s)) = Len(Sealed(min, s))
  <1> DEFINE h == HeadOf(min, s)
             z == Sealed(min, s)
  <1>1. h \in Seq(Byte) /\ Len(h) = 8 /\ LengthIn(h) = Len(z)
    BY HeadIs
  <1>2. z \in Seq(Byte)
    BY SealedType DEF Sendable
  <1> HIDE DEF h, z
  <1>3. Cells(h) /\ Cells(z)
    BY <1>1, <1>2, BytesCells DEF Cells
  <1>4. Cells(Cat(h, z))
    BY <1>3, Joined
  <1> QED
    BY <1>1, <1>3, <1>4 DEF Frame, h, z, HeaderSize

LEMMA FrameSent ==
    ASSUME NEW m, NEW s, Sendable(s), Held(toByteArray(m), s), NEW min
    PROVE  LET f == serializeTo(min, m)
               w == [pc |-> "head", head |-> f.head, ba |-> f.ba]
           IN WritesHead(w) /\ Rest(w) = Frame(min, s)
  <1> DEFINE f == serializeTo(min, m)
             w == [pc |-> "head", head |-> f.head, ba |-> f.ba]
             h == HeadOf(min, s)
             z == Sealed(min, s)
  <1>1. f.head = h /\ Holds(f.ba, z, 0)
    <2>1. IsFrame(f, min, s)
      BY Framed DEF Sendable
    <2> HIDE DEF f
    <2> QED
      BY <2>1 DEF IsFrame, HeadOf
  <1>2. Cells(h) /\ Len(h) = 8
    BY FrameIs DEF HeaderSize
  <1> HIDE DEF f, h, z
  <1>3. h # <<>>
    BY <1>2, Nothing
  <1>4. w.pc = "head" /\ w.head = h /\ w.ba = f.ba
    BY <1>1
  <1>5. Bytes(f.ba) = z
    BY <1>1, HoldsBytes
  <1>6. w = [pc |-> "head", head |-> w.head, ba |-> w.ba]
    BY <1>1, <1>4
  <1> HIDE DEF w
  <1>7. WritesHead(w)
    BY <1>1, <1>2, <1>3, <1>4, <1>5, <1>6 DEF WritesHead
  <1>8. Rest(w) = Cat(h, z)
    BY <1>4, <1>5 DEF Rest
  <1> QED
    BY <1>7, <1>8 DEF Frame, h, z, w, f

(* What has come of a frame, when it is as long as its header, or itself. *)
LEMMA HeadCame ==
    ASSUME NEW r, ReadsHead(r), r.left = 0, NEW l, Cells(l), NEW min, NEW s, Sendable(s),
           Starts(Cat(Got(r), l), Frame(min, s))
    PROVE  r.head = HeadOf(min, s)
  <1> DEFINE h == HeadOf(min, s)
             z == Sealed(min, s)
             g == r.head
  <1>1. Cells(h) /\ Len(h) = HeaderSize /\ Cells(z) /\ Frame(min, s) = Cat(h, z)
    BY FrameIs DEF Frame
  <1>2. Cells(g) /\ Len(g) = HeaderSize /\ Got(r) = g
    BY HeadDone DEF ReadsHead
  <1> HIDE DEF g, h, z
  <1>3. PICK y : Cells(y) /\ Cat(Cat(g, l), y) = Cat(h, z)
    BY <1>1, <1>2 DEF Starts
  <1>4. Cat(g, Cat(l, y)) = Cat(h, z) /\ Cells(Cat(l, y))
    BY <1>2, <1>3, Turned, Joined
  <1> DEFINE ly == Cat(l, y)
  <1> HIDE DEF ly
  <1>5. Cat(g, ly) = Cat(h, z) /\ Cells(ly) /\ Len(g) = Len(h)
    BY <1>1, <1>2, <1>4 DEF ly
  <1>6. g = h
    BY <1>1, <1>2, <1>5, SameFront
  <1> QED
    BY <1>6 DEF g, h

LEMMA BodyCame ==
    ASSUME NEW r, ReadsBody(r), r.left = 0, NEW l, Cells(l), NEW min, NEW s, Sendable(s),
           NEW y, Cells(y), Cat(Cat(Got(r), l), y) = Frame(min, s)
    PROVE  /\ r.head = HeadOf(min, s) /\ Held(r.ba, Sealed(min, s))
           /\ l = <<>> /\ y = <<>>
  <1> DEFINE h == HeadOf(min, s)
             z == Sealed(min, s)
             g == r.head
             b == Bytes(r.ba)
             k == LengthIn(g)
             ly == Cat(l, y)
             bly == Cat(b, ly)
  <1>1. /\ Cells(h) /\ Len(h) = HeaderSize /\ Cells(z) /\ Frame(min, s) = Cat(h, z)
        /\ LengthIn(h) = Len(z)
    BY FrameIs DEF Frame
  <1>2. /\ Cells(g) /\ Len(g) = HeaderSize /\ Held(r.ba, b) /\ Len(b) + r.left = LengthIn(g)
        /\ r.pc = "body"
    BY PcOf DEF ReadsBody
  <1>3. Cells(b) /\ Len(b) \in Nat
    BY <1>2, HoldsBytes DEF Held
  <1>4. Got(r) = Cat(g, b)
    BY <1>2 DEF Got
  <1> HIDE DEF g, h, z, b
  <1>5. Cat(Cat(Cat(g, b), l), y) = Cat(h, z)
    BY <1>1, <1>4
  <1>6. Cat(Cat(Cat(g, b), l), y) = Cat(g, bly)
    BY <1>2, <1>3, Regroup
  <1>7. Cells(ly) /\ Cells(bly)
    <2>1. Cells(ly)
      BY Joined
    <2> HIDE DEF ly
    <2> QED
      BY <1>3, <2>1, Joined
  <1> HIDE DEF bly
  <1>8. g = h /\ bly = z
    <2>1. Cat(g, bly) = Cat(h, z) /\ Len(g) = Len(h)
      BY <1>1, <1>2, <1>5, <1>6
    <2> QED
      BY <1>1, <1>2, <1>7, <2>1, SameFront
  <1>9. Len(b) = Len(z)
    BY <1>2, <1>3, <1>1, <1>8
  <1> HIDE DEF ly
  <1>10. ly = <<>>
    BY <1>3, <1>7, <1>8, CatLength, <1>9, Nothing DEF bly
  <1>11. l = <<>> /\ y = <<>>
    BY <1>10, BothNothing DEF ly
  <1>12. b = z
    BY <1>3, Nothing, <1>8, <1>10 DEF bly
  <1> QED
    BY <1>2, <1>8, <1>11, <1>12 DEF g, h, z

(* The beginning of a frame begins with the magic, or is the beginning of it. *)
LEMMA MagicFirst ==
    ASSUME NEW x, Cells(x), NEW min, NEW s, Sendable(s), Starts(x, Frame(min, s)),
           NEW n, n = AtMost(2, Len(x))
    PROVE  SubSeq(x, 1, n) = SubSeq(Magic, 1, n)
  <1> DEFINE h == HeadOf(min, s)
             z == Sealed(min, s)
             f == Frame(min, s)
             z0 == 0
             a == SubSeq(x, z0 + 1, z0 + n)
             c == SubSeq(Magic, z0 + 1, z0 + n)
  <1>1. /\ Cells(h) /\ Len(h) = 8 /\ Cells(z) /\ f = Cat(h, z)
    BY FrameIs DEF Frame, HeaderSize
  <1>2. SubSeq(h, 1, 2) = Magic
    BY HeadIs
  <1>3. Magic \in Seq(Cell) /\ Len(Magic) = 2 /\ Magic[1] = 1 /\ Magic[2] = 2
    BY TypesFit, RadixIs DEF Magic
  <1>4. Len(x) \in Nat /\ n \in Nat /\ n <= Len(x) /\ n <= 2
    BY LenProperties DEF Cells, AtMost
  <1> HIDE DEF h, z, f
  <1>5. h[1] = 1 /\ h[2] = 2
    <2> DEFINE k == 2
               p == 0
    <2>1. h \in Seq(Cell) /\ p \in Nat /\ k \in Nat /\ p + k <= Len(h)
      BY <1>1 DEF Cells
    <2>2. p + 1 = 1 /\ p + k = 2 /\ 1 \in 1..k /\ 2 \in 1..k /\ p + 2 = 2
      OBVIOUS
    <2> HIDE DEF k, p
    <2>3. \A i \in 1..k : SubSeq(h, p + 1, p + k)[i] = h[p + i]
      BY <2>1, Stretch
    <2>4. SubSeq(h, p + 1, p + k) = Magic
      BY <1>2, <2>2
    <2>5. Magic[1] = h[p + 1] /\ Magic[2] = h[p + 2]
      BY <2>2, <2>3, <2>4
    <2> QED
      BY <1>3, <2>2, <2>5
  <1>6. PICK y : Cells(y) /\ Cat(x, y) = f
    BY DEF Starts, f
  <1>7. \A i \in 1..n : x[i] = f[i] /\ f[i] = h[i]
    <2> SUFFICES ASSUME NEW i \in 1..n PROVE x[i] = f[i] /\ f[i] = h[i]
      OBVIOUS
    <2>1. i \in 1..Len(x) /\ i \in 1..Len(h)
      BY <1>1, <1>4
    <2>2. (x \o y)[i] = x[i]
      BY <1>6, <2>1, ConcatProperties DEF Cells
    <2>3. (h \o z)[i] = h[i]
      <3>1. h \in Seq(Cell) /\ z \in Seq(Cell)
        BY <1>1 DEF Cells
      <3>2. i \in 1..Len(h)
        BY <2>1
      <3> QED
        BY <3>1, <3>2, ConcatProperties
    <2> QED
      BY <1>1, <1>6, <2>2, <2>3 DEF Cat
  <1>8. \A i \in 1..n : x[i] = Magic[i]
    BY <1>4, <1>3, <1>5, <1>7
  <1>9. z0 \in Nat /\ z0 + n <= Len(x) /\ z0 + n <= Len(Magic) /\ x \in Seq(Cell)
    BY <1>3, <1>4 DEF Cells
  <1>10. \A i \in 1..n : z0 + i = i
    BY <1>4
  <1>11. z0 + 1 = 1 /\ z0 + n = n
    BY <1>4
  <1> HIDE DEF z0
  <1>12. a \in Seq(Cell) /\ Len(a) = n /\ \A i \in 1..n : a[i] = x[z0 + i]
    BY <1>4, <1>9, Stretch
  <1>13. c \in Seq(Cell) /\ Len(c) = n /\ \A i \in 1..n : c[i] = Magic[z0 + i]
    <2> DEFINE w == Magic
    <2>1. w \in Seq(Cell) /\ z0 + n <= Len(w) /\ z0 \in Nat /\ n \in Nat
      BY <1>3, <1>4, <1>9
    <2> HIDE DEF w, a
    <2>2. /\ SubSeq(w, z0 + 1, z0 + n) \in Seq(Cell) /\ Len(SubSeq(w, z0 + 1, z0 + n)) = n
          /\ \A i \in 1..n : SubSeq(w, z0 + 1, z0 + n)[i] = w[z0 + i]
      BY <2>1, Stretch
    <2> QED
      BY <2>2 DEF w
  <1> HIDE DEF a, c
  <1>14. \A i \in 1..Len(a) : a[i] = c[i]
    BY <1>8, <1>10, <1>12, <1>13
  <1>15. a = c
    BY <1>12, <1>13, <1>14, SeqEqual
  <1> QED
    BY <1>11, <1>15 DEF a, c

-----------------------------------------------------------------------------
(* The invariant: what there is on the way, and where.                     *)

(* A function of the two sides. *)
On(f) == f = [z \in Sides |-> f[z]]

LEMMA SidesAre ==
    /\ "server" \in Sides /\ "client" \in Sides /\ "server" # "client"
    /\ Other("server") = "client" /\ Other("client") = "server"
    /\ \A s \in Sides : Other(s) \in Sides /\ Other(Other(s)) = s /\ Other(s) # s
    /\ \A s, z \in Sides : z = s \/ z = Other(s)
    /\ \A s \in Sides : s = "server" \/ s = "client"
  BY DEF Sides, Other

(* What has come to a side, and what there is on the way to it. *)
CameOf(r, l) == Cat(Got(r), l)
FlowOf(r, l, w) == Cat(CameOf(r, l), Rest(w))

Last == typed[Len(typed)]

UpFrame(lim, t, n) == Frame(lim["client"], RequestBytes(Question(t, n)))
DownFrame(lim, t, n) == Frame(lim["server"], ResponseBytes(Reply(t, n)))

Up == UpFrame(limit, Last, m_sn - 1)
Down == DownFrame(limit, Last, m_sn - 1)

ToServer == FlowOf(in["server"], link["server"], out["client"])
ToClient == FlowOf(in["client"], link["client"], out["server"])
AtServer == CameOf(in["server"], link["server"])
AtClient == CameOf(in["client"], link["client"])

IsAsked(r) == r.sn = m_sn - 1 /\ r.cmd = 0 /\ r.body = Last

Sockets ==
    /\ On(in) /\ On(out) /\ On(link) /\ On(why) /\ On(isConnected)
    /\ \A s \in Sides : /\ InOk(in[s]) /\ OutOk(out[s]) /\ Cells(link[s])
                        /\ isConnected[s] \in BOOLEAN

Program ==
    /\ limit \in Limits
    /\ typed \in Seq(Texts) /\ Len(typed) <= MaxTexts /\ m_sn = Len(typed)
    /\ client \in {"type", "send", "recv", "end"}

(* Which side reads and writes. *)
Alive ==
    /\ isConnected["server"] => in["server"].pc # "idle"
    /\ ~isConnected["server"] => in["server"] = Silent /\ out["server"] = Silent
    /\ ~isConnected["client"] => in["client"] = Silent /\ out["client"] = Silent
    /\ ~isConnected["client"] => client \in {"recv", "end"}

(* Where the client is. *)
Turn ==
    /\ client = "recv" => out["client"] = Silent
    /\ client # "recv" => in["client"] = Silent
    /\ client = "recv" /\ isConnected["client"] => in["client"].pc # "idle"
    /\ client = "end" => ~isConnected["client"]
    /\ client = "type" => printed = typed /\ out["client"] = Silent
    /\ client \in {"send", "recv"} => typed # <<>> /\ typed = Append(printed, Last)

(* While both are there: nothing, or the question, or the answer. *)
Idle == request = <<>> /\ ToServer = <<>> /\ ToClient = <<>>
Asking == request = <<>> /\ ToServer = Up /\ ToClient = <<>>
Handling == (\E r : request = <<r>> /\ IsAsked(r)) /\ ToServer = <<>> /\ ToClient = <<>>
Answering == request = <<>> /\ ToServer = <<>> /\ ToClient = Down

Exchange ==
    isConnected["server"] /\ isConnected["client"] =>
        IF client = "type" THEN Idle ELSE Asking \/ Handling \/ Answering

(* When one has left, the other may find what it had sent. *)
ServerAlone ==
    isConnected["server"] /\ ~isConnected["client"] => request = <<>> /\ AtServer = <<>>

ClientAlone ==
    isConnected["client"] /\ ~isConnected["server"] =>
        AtClient = <<>> \/ (client # "type" /\ Starts(AtClient, Down))

Causes ==
    /\ \A s \in Sides : /\ why[s][1] = "refused" => why[s][2] >= limit[s]
                        /\ why[s][1] # "throws"
    /\ why["server"][1] # "faults"
    /\ why["client"][1] = "faults" => ~isConnected["client"] /\ AtNodeEnd(Last)

ExchangeInv ==
    Sockets /\ Program /\ Alive /\ Turn /\ Exchange /\ ServerAlone /\ ClientAlone /\ Causes

-----------------------------------------------------------------------------
LEMMA ReadingIs == ReadsHead(Reading) /\ Got(Reading) = <<>> /\ Reading.pc = "head"
                   /\ Got(Silent) = <<>> /\ Rest(Silent) = <<>> /\ Silent.pc = "idle"
  <1> DEFINE e == <<>>
  <1>1. Cells(e) /\ Len(e) = 0
    BY Nothing
  <1> HIDE DEF e
  <1>2. Reading = [pc |-> "head", head |-> e, left |-> HeaderSize, ba |-> NewArray]
    BY DEF Reading, e
  <1>3. Reading.pc = "head" /\ Reading.head = e /\ Reading.left = HeaderSize /\ Reading.ba = NewArray
    BY <1>2
  <1>4. HeaderSize \in Nat /\ 0 + HeaderSize = HeaderSize
    BY DEF HeaderSize
  <1>5. ReadsHead(Reading)
    BY <1>1, <1>2, <1>3, <1>4 DEF ReadsHead
  <1>6. Got(Reading) = <<>>
    BY <1>3 DEF Got, e
  <1> QED
    BY <1>3, <1>5, <1>6 DEF Silent, Got, Rest

LEMMA NothingFlows ==
    /\ CameOf(Silent, <<>>) = <<>> /\ CameOf(Reading, <<>>) = <<>>
    /\ FlowOf(Silent, <<>>, Silent) = <<>> /\ FlowOf(Reading, <<>>, Silent) = <<>>
  BY ReadingIs, Nothing DEF CameOf, FlowOf

LEMMA ExchangeInit == Init => ExchangeInv
  <1> SUFFICES ASSUME Init PROVE ExchangeInv
    OBVIOUS
  <1>1. /\ in["server"] = Reading /\ in["client"] = Silent
        /\ out["server"] = Silent /\ out["client"] = Silent
        /\ link["server"] = <<>> /\ link["client"] = <<>>
        /\ isConnected["server"] = TRUE /\ isConnected["client"] = TRUE
    BY SidesAre DEF Init
  <1>2. Sockets
    <2>1. On(in) /\ On(out) /\ On(link) /\ On(why) /\ On(isConnected)
      BY DEF On, Init
    <2>2. \A s \in Sides : /\ InOk(in[s]) /\ OutOk(out[s]) /\ Cells(link[s])
                           /\ isConnected[s] \in BOOLEAN
      <3>1. /\ InOk(Reading) /\ InOk(Silent) /\ OutOk(Silent) /\ Cells(<<>>)
            /\ TRUE \in BOOLEAN
        BY ReadingIs, Nothing DEF InOk, OutOk
      <3> SUFFICES ASSUME NEW s \in Sides
                   PROVE  InOk(in[s]) /\ OutOk(out[s]) /\ Cells(link[s]) /\ isConnected[s] \in BOOLEAN
        OBVIOUS
      <3>2. CASE s = "server"
        BY <1>1, <3>1, <3>2
      <3>3. CASE s = "client"
        BY <1>1, <3>1, <3>3
      <3> QED
        BY <3>2, <3>3, SidesAre
    <2> QED
      BY <2>1, <2>2 DEF Sockets
  <1>3. Program
    <2>1. typed = <<>> /\ limit \in Limits /\ m_sn = 0 /\ client = "type"
      BY DEF Init
    <2>2. <<>> \in Seq(Texts) /\ Len(<<>>) = 0
      BY EmptySeq
    <2>3. typed \in Seq(Texts) /\ Len(typed) = 0
      BY <2>1, <2>2
    <2>4. Len(typed) <= MaxTexts
      BY <2>3, ExchangeAssumption
    <2>5. client \in {"type", "send", "recv", "end"}
      BY <2>1
    <2> QED
      BY <2>1, <2>3, <2>4, <2>5 DEF Program
  <1>4. Alive
    BY <1>1, ReadingIs, PcOf DEF Alive
  <1>5. Turn
    BY <1>1 DEF Turn, Init
  <1>6. Exchange
    BY <1>1, NothingFlows DEF Exchange, Idle, ToServer, ToClient, Init
  <1>7. ServerAlone /\ ClientAlone
    BY <1>1 DEF ServerAlone, ClientAlone
  <1>8. Causes
    <2>0. why = [s \in Sides |-> <<"", 0>>]
      BY DEF Init
    <2>1. \A s \in Sides : why[s] = <<"", 0>>
      BY <2>0
    <2>2. \A s \in Sides : why[s][1] = ""
      <3> DEFINE w == <<"", 0>>
      <3>1. w[1] = ""
        OBVIOUS
      <3>2. \A s \in Sides : why[s] = w
        BY <2>1
      <3> HIDE DEF w
      <3> QED
        BY <3>1, <3>2
    <2> QED
      BY <2>2, SidesAre DEF Causes
  <1> QED
    BY <1>2, <1>3, <1>4, <1>5, <1>6, <1>7, <1>8 DEF ExchangeInv

-----------------------------------------------------------------------------
(* A step that only brings bytes forward. *)
Forward(z) ==
    /\ InOk(in'[z]) /\ OutOk(out'[z]) /\ Cells(link'[z])
    /\ (in'[z].pc = "idle") <=> (in[z].pc = "idle")
    /\ out[z] = Silent => out'[z] = Silent
    /\ isConnected[z] /\ isConnected[Other(z)] =>
         FlowOf(in'[z], link'[z], out'[Other(z)]) = FlowOf(in[z], link[z], out[Other(z)])
    /\ ~isConnected[Other(z)] => CameOf(in'[z], link'[z]) = CameOf(in[z], link[z])

OnlyForward ==
    /\ UNCHANGED <<limit, isConnected, request, mainVars, why>>
    /\ On(in') /\ On(out') /\ On(link')
    /\ \A z \in Sides : Forward(z)

LEMMA ForwardKeeps == ExchangeInv /\ OnlyForward => ExchangeInv'
  <1> SUFFICES ASSUME ExchangeInv, OnlyForward PROVE ExchangeInv'
    OBVIOUS
  <1>1. Forward("server") /\ Forward("client") /\ \A z \in Sides : Forward(z)
    BY SidesAre DEF OnlyForward
  <1>2. /\ limit' = limit /\ isConnected' = isConnected /\ request' = request /\ why' = why
        /\ m_sn' = m_sn /\ typed' = typed /\ printed' = printed /\ client' = client
    BY DEF OnlyForward, mainVars
  <1>3. Sockets'
    BY <1>1, <1>2 DEF Sockets, OnlyForward, Forward, ExchangeInv, On
  <1>4. Program'
    BY <1>2 DEF Program, ExchangeInv
  <1>5. \A z \in Sides : in[z] = Silent => in'[z] = Silent
    BY <1>1, PcOf DEF Forward
  <1>6. /\ in["server"] = Silent => in'["server"] = Silent
        /\ in["client"] = Silent => in'["client"] = Silent
        /\ out["server"] = Silent => out'["server"] = Silent
        /\ out["client"] = Silent => out'["client"] = Silent
        /\ in["server"].pc # "idle" => in'["server"].pc # "idle"
        /\ in["client"].pc # "idle" => in'["client"].pc # "idle"
    BY <1>1, <1>5, SidesAre DEF Forward
  <1>7. Alive'
    BY <1>2, <1>6 DEF Alive, ExchangeInv
  <1>8. Last' = Last
    BY <1>2 DEF Last
  <1>9. Turn'
    BY <1>2, <1>6, <1>8 DEF Turn, ExchangeInv
  <1>10. Up' = Up /\ Down' = Down
    BY <1>2, <1>8 DEF Up, Down
  <1>11. \A r : IsAsked(r)' <=> IsAsked(r)
    BY <1>2, <1>8 DEF IsAsked
  <1>12. isConnected["server"] /\ isConnected["client"] => ToServer' = ToServer /\ ToClient' = ToClient
    BY <1>1, SidesAre DEF Forward, ToServer, ToClient
  <1>13. /\ ~isConnected["client"] => AtServer' = AtServer
         /\ ~isConnected["server"] => AtClient' = AtClient
    BY <1>1, SidesAre DEF Forward, AtServer, AtClient
  <1>14. Exchange'
    BY <1>2, <1>10, <1>11, <1>12 DEF Exchange, ExchangeInv, Idle, Asking, Handling, Answering
  <1>15. ServerAlone' /\ ClientAlone'
    BY <1>2, <1>10, <1>13 DEF ServerAlone, ClientAlone, ExchangeInv
  <1>16. Causes'
    BY <1>2, <1>8 DEF Causes, ExchangeInv, AtNodeEnd
  <1> QED
    BY <1>3, <1>4, <1>7, <1>9, <1>14, <1>15, <1>16 DEF ExchangeInv

-----------------------------------------------------------------------------
(* Steps that only bring bytes forward.                                    *)

(* A function of the two sides of which one value is another one. *)
Puts(g, f, s, e) == On(g) /\ g[s] = e /\ g[Other(s)] = f[Other(s)]

(* A side has read: its input and its link are others, the rest is as it was. *)
LEMMA ReadsForward ==
    ASSUME ExchangeInv, NEW s \in Sides, NEW q, NEW k,
           Puts(in', in, s, q), Puts(link', link, s, k),
           InOk(q), Cells(k), q.pc # "idle", in[s].pc # "idle",
           CameOf(q, k) = CameOf(in[s], link[s]),
           UNCHANGED <<out, isConnected, why, limit, request, mainVars>>
    PROVE  ExchangeInv'
  <1> DEFINE o == Other(s)
  <1>1. /\ in'[s] = q /\ link'[s] = k /\ in'[o] = in[o] /\ link'[o] = link[o]
        /\ On(in') /\ On(link') /\ out' = out
    BY DEF Puts
  <1>2. o \in Sides /\ Other(o) = s /\ \A z \in Sides : z = s \/ z = o
    BY SidesAre
  <1>3. /\ On(out) /\ OutOk(out[s]) /\ OutOk(out[o]) /\ InOk(in[o]) /\ Cells(link[o])
    BY <1>2 DEF ExchangeInv, Sockets
  <1>4. Forward(s)
    BY <1>1, <1>3 DEF Forward, FlowOf, o
  <1>5. Forward(o)
    BY <1>1, <1>2, <1>3 DEF Forward
  <1>6. OnlyForward
    BY <1>1, <1>2, <1>3, <1>4, <1>5 DEF OnlyForward
  <1> QED
    BY <1>6, ForwardKeeps

(* A side has written: its output is another one, and the link of the other *)
(* side, if that has not closed.                                           *)
LEMMA WritesForward ==
    ASSUME ExchangeInv, NEW s \in Sides, NEW v, NEW x,
           Puts(out', out, s, v), Cells(x), OutOk(v), out[s] # Silent,
           Puts(link', link, Other(s),
                IF isConnected[Other(s)] THEN Cat(link[Other(s)], x) ELSE link[Other(s)]),
           isConnected[Other(s)] => Cat(x, Rest(v)) = Rest(out[s]),
           UNCHANGED <<in, isConnected, why, limit, request, mainVars>>
    PROVE  ExchangeInv'
  <1> DEFINE o == Other(s)
             k == IF isConnected[o] THEN Cat(link[o], x) ELSE link[o]
  <1>1. o \in Sides /\ Other(o) = s /\ \A z \in Sides : z = s \/ z = o
    BY SidesAre
  <1>2. /\ out'[s] = v /\ out'[o] = out[o] /\ link'[o] = k /\ link'[s] = link[s]
        /\ On(out') /\ On(link') /\ in' = in
    BY <1>1 DEF Puts
  <1>3. /\ On(in) /\ InOk(in[s]) /\ InOk(in[o]) /\ OutOk(out[o]) /\ OutOk(out[s])
        /\ Cells(link[s]) /\ Cells(link[o])
    BY <1>1 DEF ExchangeInv, Sockets
  <1>4. Cells(k)
    BY <1>3, Joined
  <1> HIDE DEF o
  <1>5. isConnected[o] => FlowOf(in[o], k, v) = FlowOf(in[o], link[o], out[s])
    <2> SUFFICES ASSUME isConnected[o]
                 PROVE  FlowOf(in[o], k, v) = FlowOf(in[o], link[o], out[s])
      OBVIOUS
    <2> DEFINE a == Got(in[o])
               l == link[o]
               r == Rest(v)
               w == Rest(out[s])
    <2>1. Cells(a) /\ Cells(l) /\ Cells(r) /\ Cells(w)
      BY <1>3, GotCells, RestCells
    <2>2. k = Cat(l, x) /\ Cat(x, r) = w
      BY DEF o
    <2>3. FlowOf(in[o], k, v) = Cat(Cat(a, k), r) /\ FlowOf(in[o], link[o], out[s]) = Cat(Cat(a, l), w)
      BY DEF FlowOf, CameOf
    <2> HIDE DEF a, l, r, w, k
    <2>4. Cells(Cat(a, l)) /\ Cat(a, Cat(l, x)) = Cat(Cat(a, l), x)
      BY <2>1, Joined, Turned
    <2>5. Cat(Cat(Cat(a, l), x), r) = Cat(Cat(a, l), Cat(x, r))
      BY <2>1, <2>4, Turned
    <2> QED
      BY <2>2, <2>3, <2>4, <2>5
  <1>6. ~isConnected[o] => k = link[o]
    OBVIOUS
  <1> HIDE DEF k
  <1>7. Forward(s)
    BY <1>1, <1>2, <1>3 DEF Forward, o
  <1>8. Forward(o)
    <2>1. isConnected[o] /\ isConnected[s] =>
             FlowOf(in'[o], link'[o], out'[s]) = FlowOf(in[o], link[o], out[s])
      BY <1>2, <1>5
    <2>2. ~isConnected[s] => CameOf(in'[o], link'[o]) = CameOf(in[o], link[o])
      BY SidesAre DEF ExchangeInv, Alive
    <2> QED
      BY <1>1, <1>2, <1>3, <1>4, <2>1, <2>2 DEF Forward
  <1>9. OnlyForward
    BY <1>1, <1>2, <1>3, <1>7, <1>8 DEF OnlyForward
  <1> QED
    BY <1>9, ForwardKeeps

-----------------------------------------------------------------------------
(* Reading.                                                                *)

LEMMA PutsIt ==
    ASSUME NEW f, On(f), NEW s \in Sides, NEW e, NEW g, g = [f EXCEPT ![s] = e]
    PROVE  Puts(g, f, s, e)
  BY SidesAre DEF On, Puts

LEMMA SocketsAre ==
    ASSUME ExchangeInv, NEW s \in Sides
    PROVE  /\ On(in) /\ On(out) /\ On(link) /\ On(why) /\ On(isConnected)
           /\ InOk(in[s]) /\ OutOk(out[s]) /\ Cells(link[s])
           /\ isConnected[s] \in BOOLEAN /\ Other(s) \in Sides /\ limit \in Limits
  BY SidesAre DEF ExchangeInv, Sockets, Program

LEMMA Takes ==
    ASSUME NEW s, Cells(link[s]), NEW m \in Nat, NEW n \in CanTake(s, m)
    PROVE  /\ n \in Nat \ {0} /\ n <= m /\ n <= MAX_LEN /\ n <= Len(link[s])
           /\ n <= AtMost(m, MAX_LEN)
  <1> DEFINE k == Len(link[s])
  <1>1. k \in Nat
    BY LenProperties DEF Cells
  <1>2. n \in 1..AtMost(AtMost(m, MAX_LEN), k)
    BY DEF CanTake
  <1> HIDE DEF k
  <1>3. n \in Nat \ {0} /\ n <= m /\ n <= MAX_LEN /\ n <= k /\ n <= AtMost(m, MAX_LEN)
    BY <1>1, <1>2, ExchangeAssumption DEF AtMost
  <1> QED
    BY <1>3 DEF k

LEMMA ReadHeadKeeps ==
    ASSUME ExchangeInv, NEW s \in Sides, ReadHead(s), UNCHANGED <<limit, request, mainVars>>
    PROVE  ExchangeInv'
  <1> DEFINE r == in[s]
             l == link[s]
  <1>1. ReadsHead(r) /\ Cells(l) /\ On(in) /\ On(link) /\ r.left \in Nat
    BY SocketsAre, PcOf DEF ReadHead, ReadsHead
  <1>2. PICK n \in CanTake(s, r.left) :
          /\ recv(s, n)
          /\ in' = [in EXCEPT ![s].head = @ \o SubSeq(link[s], 1, n), ![s].left = @ - n]
    BY DEF ReadHead
  <1> DEFINE q == [r EXCEPT !.head = @ \o SubSeq(l, 1, n), !.left = @ - n]
             k == SubSeq(l, n + 1, Len(l))
  <1>3. n \in Nat \ {0} /\ n <= r.left /\ n <= Len(l)
    BY <1>1, Takes
  <1>4. Puts(in', in, s, q)
    <2>1. in' = [in EXCEPT ![s] = q]
      BY <1>2
    <2> HIDE DEF q
    <2> QED
      BY <1>1, <2>1, PutsIt
  <1>5. Puts(link', link, s, k)
    <2>1. link' = [link EXCEPT ![s] = k]
      BY <1>2 DEF recv
    <2> HIDE DEF k
    <2> QED
      BY <1>1, <2>1, PutsIt
  <1>6. ReadsHead(q) /\ Cells(k) /\ Cat(Got(q), k) = Cat(Got(r), l)
    <2> HIDE DEF r, l
    <2> QED
      BY <1>1, <1>3, HeadPiece
  <1> HIDE DEF q, k
  <1>7. InOk(q) /\ q.pc # "idle" /\ in[s].pc # "idle"
    BY <1>1, <1>6, PcOf DEF InOk
  <1>8. CameOf(q, k) = CameOf(in[s], link[s])
    BY <1>6 DEF CameOf
  <1>9. UNCHANGED <<out, isConnected, why, limit, request, mainVars>>
    BY DEF ReadHead
  <1> QED
    BY <1>4, <1>5, <1>6, <1>7, <1>8, <1>9, ReadsForward

LEMMA ReadBodyKeeps ==
    ASSUME ExchangeInv, NEW s \in Sides, ReadBody(s), UNCHANGED <<limit, request, mainVars>>
    PROVE  ExchangeInv'
  <1> DEFINE r == in[s]
             l == link[s]
  <1>1. ReadsBody(r) /\ Cells(l) /\ On(in) /\ On(link) /\ r.left \in Nat
    BY SocketsAre, PcOf DEF ReadBody, ReadsBody
  <1>2. PICK n \in CanTake(s, r.left) :
          /\ recv(s, n)
          /\ in' = [in EXCEPT
                ![s].ba = Filled(@, AtMost(in[s].left, MAX_LEN), SubSeq(link[s], 1, n)),
                ![s].left = @ - n]
    BY DEF ReadBody
  <1> DEFINE q == [r EXCEPT !.ba = Filled(@, AtMost(r.left, MAX_LEN), SubSeq(l, 1, n)),
                            !.left = @ - n]
             k == SubSeq(l, n + 1, Len(l))
  <1>3. n \in Nat \ {0} /\ n <= AtMost(r.left, MAX_LEN) /\ n <= Len(l)
    BY <1>1, Takes
  <1>4. Puts(in', in, s, q)
    <2>1. in' = [in EXCEPT ![s] = q]
      BY <1>2
    <2> HIDE DEF q
    <2> QED
      BY <1>1, <2>1, PutsIt
  <1>5. Puts(link', link, s, k)
    <2>1. link' = [link EXCEPT ![s] = k]
      BY <1>2 DEF recv
    <2> HIDE DEF k
    <2> QED
      BY <1>1, <2>1, PutsIt
  <1>6. ReadsBody(q) /\ Cells(k) /\ Cat(Got(q), k) = Cat(Got(r), l)
    <2> HIDE DEF r, l
    <2> QED
      BY <1>1, <1>3, BodyPiece
  <1> HIDE DEF q, k
  <1>7. InOk(q) /\ q.pc # "idle" /\ in[s].pc # "idle"
    BY <1>1, <1>6, PcOf DEF InOk
  <1>8. CameOf(q, k) = CameOf(in[s], link[s])
    BY <1>6 DEF CameOf
  <1>9. UNCHANGED <<out, isConnected, why, limit, request, mainVars>>
    BY DEF ReadBody
  <1> QED
    BY <1>4, <1>5, <1>6, <1>7, <1>8, <1>9, ReadsForward

LEMMA GoodHeadKeeps ==
    ASSUME ExchangeInv, NEW s \in Sides, CheckHead(s), GoodHeader(in[s].head, limit[s]),
           UNCHANGED <<limit, request, mainVars>>
    PROVE  ExchangeInv'
  <1> DEFINE r == in[s]
             k == link[s]
             q == [r EXCEPT !.pc = "body", !.left = LengthIn(r.head)]
  <1>1. ReadsHead(r) /\ r.left = 0 /\ Cells(k) /\ On(in) /\ On(link)
    BY SocketsAre, PcOf DEF CheckHead
  <1>2. /\ in' = [in EXCEPT ![s].pc = "body", ![s].left = LengthIn(in[s].head)]
        /\ UNCHANGED <<link, out, isConnected, why>>
    BY DEF CheckHead
  <1>3. Puts(in', in, s, q)
    <2>1. in' = [in EXCEPT ![s] = q]
      BY <1>2
    <2> HIDE DEF q
    <2> QED
      BY <1>1, <2>1, PutsIt
  <1>4. Puts(link', link, s, k)
    BY <1>1, <1>2 DEF Puts
  <1>5. ReadsBody(q) /\ Got(q) = Got(r)
    <2> HIDE DEF r
    <2> QED
      BY <1>1, HeadDone
  <1> HIDE DEF q
  <1>6. InOk(q) /\ q.pc # "idle" /\ in[s].pc # "idle"
    BY <1>1, <1>5, PcOf DEF InOk
  <1>7. CameOf(q, k) = CameOf(in[s], link[s])
    BY <1>5 DEF CameOf
  <1>8. UNCHANGED <<out, isConnected, why, limit, request, mainVars>>
    BY <1>2
  <1> HIDE DEF k
  <1> QED
    BY <1>1, <1>3, <1>4, <1>6, <1>7, <1>8, ReadsForward DEF k

-----------------------------------------------------------------------------
(* Writing.                                                                *)

LEMMA SendIs ==
    ASSUME On(link), NEW s \in Sides, NEW x, send(s, x)
    PROVE  Puts(link', link, Other(s),
                IF isConnected[Other(s)] THEN Cat(link[Other(s)], x) ELSE link[Other(s)])
  <1> DEFINE o == Other(s)
             k == IF isConnected[o] THEN link[o] \o x ELSE link[o]
  <1>1. link' = [link EXCEPT ![o] = k]
    BY DEF send
  <1>2. o \in Sides
    BY SidesAre
  <1>3. k = IF isConnected[o] THEN Cat(link[o], x) ELSE link[o]
    BY DEF Cat
  <1> HIDE DEF o, k
  <1>4. Puts(link', link, o, k)
    BY <1>1, <1>2, PutsIt
  <1> QED
    BY <1>3, <1>4 DEF o

LEMMA WriteHeadKeeps ==
    ASSUME ExchangeInv, NEW s \in Sides, WriteHead(s), UNCHANGED <<limit, request, mainVars>>
    PROVE  ExchangeInv'
  <1> DEFINE w == out[s]
  <1>1. WritesHead(w) /\ On(out) /\ On(link)
    BY SocketsAre, PcOf DEF WriteHead
  <1>2. PICK n \in 1..AtMost(Len(w.head), MAX_LEN) :
          /\ send(s, SubSeq(out[s].head, 1, n))
          /\ out' = [out EXCEPT ![s].head = SubSeq(@, n + 1, Len(@)),
                              ![s].pc = IF n = Len(out[s].head) THEN "body" ELSE @]
    BY DEF WriteHead
  <1> DEFINE v == [w EXCEPT !.head = SubSeq(@, n + 1, Len(@)),
                            !.pc = IF n = Len(w.head) THEN "body" ELSE @]
             x == SubSeq(w.head, 1, n)
  <1>3. n \in Nat \ {0} /\ n <= Len(w.head)
    <2>1. Len(w.head) \in Nat
      BY <1>1, LenProperties DEF WritesHead, Cells
    <2> DEFINE k == Len(w.head)
    <2> HIDE DEF k
    <2>2. k \in Nat /\ n \in 1..AtMost(k, MAX_LEN)
      BY <1>2, <2>1 DEF k
    <2>3. n \in Nat \ {0} /\ n <= k
      BY <2>2, ExchangeAssumption DEF AtMost
    <2> QED
      BY <2>3 DEF k
  <1>4. Puts(out', out, s, v)
    <2>1. out' = [out EXCEPT ![s] = v]
      BY <1>2
    <2> HIDE DEF v
    <2> QED
      BY <1>1, <2>1, PutsIt
  <1>5. OutOk(v) /\ Cells(x) /\ Cat(x, Rest(v)) = Rest(w)
    <2> HIDE DEF w
    <2> QED
      BY <1>1, <1>3, HeadSent
  <1>6. send(s, x)
    BY <1>2
  <1> HIDE DEF v, x
  <1>7. Puts(link', link, Other(s),
             IF isConnected[Other(s)] THEN Cat(link[Other(s)], x) ELSE link[Other(s)])
    BY <1>1, <1>6, SendIs
  <1>8. out[s] # Silent
    BY <1>1, PcOf
  <1>9. UNCHANGED <<in, isConnected, why, limit, request, mainVars>>
    BY DEF WriteHead
  <1> QED
    BY <1>4, <1>5, <1>7, <1>8, <1>9, WritesForward

LEMMA WriteBodyKeeps ==
    ASSUME ExchangeInv, NEW s \in Sides, WriteBody(s), UNCHANGED <<limit, request, mainVars>>
    PROVE  ExchangeInv'
  <1> DEFINE w == out[s]
             bytes == Gather(w.ba.data, getReadBuffers(w.ba, AtMost(getReadSize(w.ba), MAX_LEN)))
  <1>1. WritesBody(w) /\ On(out) /\ On(link)
    BY SocketsAre, PcOf DEF WriteBody
  <1>2. PICK n \in 1..Len(bytes) :
          /\ send(s, SubSeq(bytes, 1, n))
          /\ out' = [out EXCEPT ![s] = IF n = getReadSize(w.ba) THEN Silent
                                       ELSE [w EXCEPT !.ba = Sent(w.ba, n)]]
    BY DEF WriteBody
  <1> DEFINE v == IF n = getReadSize(w.ba) THEN Silent ELSE [w EXCEPT !.ba = Sent(@, n)]
             x == SubSeq(bytes, 1, n)
  <1>3. n \in Nat \ {0} /\ n <= Len(bytes)
    <2> HIDE DEF bytes
    <2> QED
      OBVIOUS
  <1>4. Puts(out', out, s, v)
    <2>1. out' = [out EXCEPT ![s] = v]
      BY <1>2
    <2> HIDE DEF v
    <2> QED
      BY <1>1, <2>1, PutsIt
  <1>5. OutOk(v) /\ Cells(x) /\ Cat(x, Rest(v)) = Rest(w)
    <2>1. bytes = Gather(w.ba.data, getReadBuffers(w.ba, AtMost(getReadSize(w.ba), MAX_LEN)))
      OBVIOUS
    <2> HIDE DEF w, bytes
    <2> QED
      BY <1>1, <1>3, <2>1, BodySent
  <1>6. send(s, x)
    BY <1>2
  <1> HIDE DEF v, x
  <1>7. Puts(link', link, Other(s),
             IF isConnected[Other(s)] THEN Cat(link[Other(s)], x) ELSE link[Other(s)])
    BY <1>1, <1>6, SendIs
  <1>8. out[s] # Silent
    BY <1>1, PcOf
  <1>9. UNCHANGED <<in, isConnected, why, limit, request, mainVars>>
    BY DEF WriteBody
  <1> HIDE DEF w
  <1> QED
    BY <1>4, <1>5, <1>7, <1>8, <1>9, WritesForward DEF w

LEMMA WriteFailsKeeps ==
    ASSUME ExchangeInv, NEW s \in Sides, WriteFails(s), UNCHANGED <<limit, request, mainVars>>
    PROVE  ExchangeInv'
  <1> DEFINE x == <<>>
             o == Other(s)
             k == link[o]
  <1>1. On(out) /\ On(link) /\ OutOk(out[s]) /\ o \in Sides /\ Other(o) = s /\ Cells(k)
    <2>1. o \in Sides /\ Other(o) = s
      BY SidesAre
    <2> HIDE DEF o
    <2> QED
      BY <2>1, SocketsAre
  <1>2. /\ out[s].pc # "idle" /\ ~isConnected[o] /\ out' = [out EXCEPT ![s] = Silent]
        /\ UNCHANGED <<in, link, isConnected, why>>
    BY DEF WriteFails
  <1>3. Puts(out', out, s, Silent)
    BY <1>1, <1>2, PutsIt
  <1>4. Cells(x) /\ OutOk(Silent)
    BY Nothing DEF OutOk
  <1>5. out[s] # Silent
    BY <1>2, PcOf
  <1> HIDE DEF x
  <1>6. Puts(link', link, o, IF isConnected[o] THEN Cat(link[o], x) ELSE link[o])
    BY <1>1, <1>2 DEF Puts
  <1>7. UNCHANGED <<in, isConnected, why, limit, request, mainVars>>
    BY <1>2
  <1> QED
    BY <1>2, <1>3, <1>4, <1>5, <1>6, <1>7, WritesForward

-----------------------------------------------------------------------------
(* What one side knows of the other.                                       *)

LEMMA SidesNow ==
    ASSUME ExchangeInv
    PROVE  /\ InOk(in["server"]) /\ InOk(in["client"]) /\ OutOk(out["server"]) /\ OutOk(out["client"])
           /\ Cells(link["server"]) /\ Cells(link["client"])
           /\ Cells(AtServer) /\ Cells(AtClient)
           /\ Cells(Rest(out["server"])) /\ Cells(Rest(out["client"]))
           /\ ToServer = Cat(AtServer, Rest(out["client"]))
           /\ ToClient = Cat(AtClient, Rest(out["server"]))
           /\ AtServer = Cat(Got(in["server"]), link["server"])
           /\ AtClient = Cat(Got(in["client"]), link["client"])
  <1>1. /\ InOk(in["server"]) /\ InOk(in["client"]) /\ OutOk(out["server"]) /\ OutOk(out["client"])
        /\ Cells(link["server"]) /\ Cells(link["client"])
    BY SidesAre DEF ExchangeInv, Sockets
  <1>2. /\ Cells(Got(in["server"])) /\ Cells(Got(in["client"]))
        /\ Cells(Rest(out["server"])) /\ Cells(Rest(out["client"]))
    BY <1>1, GotCells, RestCells
  <1>3. /\ AtServer = Cat(Got(in["server"]), link["server"])
        /\ AtClient = Cat(Got(in["client"]), link["client"])
    BY DEF AtServer, AtClient, CameOf
  <1>4. Cells(AtServer) /\ Cells(AtClient)
    BY <1>1, <1>2, <1>3, Joined
  <1>5. /\ ToServer = Cat(AtServer, Rest(out["client"]))
        /\ ToClient = Cat(AtClient, Rest(out["server"]))
    BY DEF ToServer, ToClient, FlowOf, AtServer, AtClient
  <1> QED
    BY <1>1, <1>2, <1>3, <1>4, <1>5

LEMMA NowAsked ==
    ASSUME ExchangeInv, typed # <<>>
    PROVE  /\ Last \in Texts /\ m_sn - 1 \in Nat /\ m_sn - 1 <= MaxTexts
           /\ SmallRequest(Question(Last, m_sn - 1)) /\ SmallResponse(Reply(Last, m_sn - 1))
           /\ Sendable(RequestBytes(Question(Last, m_sn - 1)))
           /\ Sendable(ResponseBytes(Reply(Last, m_sn - 1)))
           /\ Len(ResponseBytes(Reply(Last, m_sn - 1))) = 21 + Len(Last)
           /\ Reply(Last, m_sn - 1).resultStr = Last
  <1> DEFINE n == m_sn - 1
             l == Len(typed)
  <1>1. typed \in Seq(Texts) /\ l <= MaxTexts /\ m_sn = l
    BY DEF ExchangeInv, Program
  <1>2. l \in Nat /\ l # 0
    BY <1>1, LenProperties, EmptySeq
  <1>3. Last \in Texts
    <2>1. l \in 1..Len(typed)
      BY <1>2
    <2> HIDE DEF l
    <2>2. typed[l] \in Texts
      BY <1>1, <2>1, ElementOfSeq
    <2> QED
      BY <2>2 DEF Last, l
  <1> HIDE DEF l
  <1>4. n \in Nat /\ n <= MaxTexts
    BY <1>1, <1>2, ExchangeAssumption
  <1> HIDE DEF n
  <1>5. /\ SmallRequest(Question(Last, n)) /\ SmallResponse(Reply(Last, n))
        /\ Sendable(RequestBytes(Question(Last, n)))
        /\ Sendable(ResponseBytes(Reply(Last, n)))
        /\ Len(ResponseBytes(Reply(Last, n))) = 21 + Len(Last)
        /\ Reply(Last, n).resultStr = Last
    BY <1>3, <1>4, QuestionIs
  <1> QED
    BY <1>3, <1>4, <1>5 DEF n

(* A side of which something is there to read is not alone, or has an answer. *)
LEMMA ServerHas ==
    ASSUME ExchangeInv, in["server"].pc # "idle", AtServer # <<>>
    PROVE  /\ isConnected["server"] /\ isConnected["client"] /\ client \in {"send", "recv"}
           /\ typed # <<>>
           /\ request = <<>> /\ ToServer = Up /\ ToClient = <<>> /\ Starts(AtServer, Up)
  <1>1. isConnected["server"]
    BY SidesAre, PcOf DEF ExchangeInv, Sockets, Alive
  <1>2. isConnected["client"]
    BY SidesAre, <1>1 DEF ExchangeInv, Sockets, ServerAlone
  <1>3. ToServer # <<>>
    BY SidesNow, BothNothing
  <1>4. client # "type" /\ Asking
    BY <1>1, <1>2, <1>3 DEF ExchangeInv, Exchange, Idle, Handling, Answering
  <1>5. client \in {"send", "recv"} /\ typed # <<>>
    BY <1>2, <1>4 DEF ExchangeInv, Program, Turn
  <1>6. Starts(AtServer, ToServer)
    BY SidesNow, StartsAll
  <1> QED
    BY <1>1, <1>2, <1>4, <1>5, <1>6 DEF Asking

LEMMA ClientHas ==
    ASSUME ExchangeInv, in["client"].pc # "idle", AtClient # <<>>
    PROVE  /\ isConnected["client"] /\ client = "recv" /\ typed # <<>> /\ Starts(AtClient, Down)
           /\ isConnected["server"] =>
                /\ request = <<>> /\ ToServer = <<>> /\ AtServer = <<>>
                /\ Cat(AtClient, Rest(out["server"])) = Down
  <1>1. isConnected["client"] /\ client = "recv"
    BY SidesAre, PcOf DEF ExchangeInv, Sockets, Alive, Turn
  <1>2. typed # <<>>
    BY <1>1 DEF ExchangeInv, Turn
  <1>3. CASE isConnected["server"]
    BY SidesNow, BothNothing, <1>1, <1>3, StartsAll, <1>2 DEF ExchangeInv, Exchange,
       Asking, Handling, Answering
  <1>4. CASE ~isConnected["server"]
    BY <1>1, <1>4, <1>2 DEF ExchangeInv, ClientAlone
  <1> QED
    BY <1>3, <1>4

(* What is read of a header, or behind one, is not nothing. *)
LEMMA GotSome ==
    ASSUME NEW r, InOk(r), r.left = 0, r.pc \in {"head", "body"}, NEW l, Cells(l)
    PROVE  Cat(Got(r), l) # <<>>
  <1>1. Got(r) # <<>> /\ Cells(Got(r))
    <2>1. CASE r.pc = "head"
      <3>1. ReadsHead(r)
        BY <2>1, PcOf
      <3>2. Got(r) = r.head /\ Len(r.head) = HeaderSize
        BY <3>1, HeadDone
      <3>3. Len(Got(r)) # 0
        BY <3>2 DEF HeaderSize
      <3> QED
        BY <3>3, GotCells, Nothing
    <2>2. CASE r.pc = "body"
      <3>1. ReadsBody(r)
        BY <2>2, PcOf
      <3>2. Got(r) = Cat(r.head, Bytes(r.ba)) /\ Cells(r.head) /\ Cells(Bytes(r.ba))
        BY <3>1, HoldsBytes, <2>2, PcOf DEF ReadsBody, Held, Got
      <3>3. Len(r.head) # 0
        BY <3>1 DEF ReadsBody, HeaderSize
      <3>4. r.head # <<>>
        BY <3>3, Nothing
      <3> QED
        BY <3>2, <3>4, BothNothing, GotCells
    <2> QED
      BY <2>1, <2>2
  <1> QED
    BY <1>1, BothNothing

-----------------------------------------------------------------------------
(* Closing.                                                                *)

(* A header that has come as it was sent is refused for its length only. *)
LEMMA RefusedLength ==
    ASSUME NEW r, ReadsHead(r), r.left = 0, NEW l, Cells(l), NEW min, NEW s, Sendable(s),
           Starts(Cat(Got(r), l), Frame(min, s)), NEW mine \in Nat, ~GoodHeader(r.head, mine)
    PROVE  LengthIn(r.head) >= mine
  <1>1. r.head = HeadOf(min, s)
    BY HeadCame
  <1>2. SubSeq(r.head, 1, 2) = Magic /\ r.head[3] = 1
    BY <1>1, HeadIs
  <1>3. ~(LengthIn(r.head) < mine)
    BY <1>2 DEF GoodHeader
  <1>4. LengthIn(r.head) \in Nat
    BY HeadDone, LengthType DEF ReadsHead
  <1> DEFINE k == LengthIn(r.head)
  <1> HIDE DEF k
  <1>5. k >= mine
    BY <1>3, <1>4 DEF k
  <1> QED
    BY <1>5 DEF k

LEMMA LimitsAre ==
    ASSUME ExchangeInv, NEW s \in Sides
    PROVE  limit[s] \in Nat
  BY ExchangeAssumption DEF ExchangeInv, Program, Sides

LEMMA ServerRefuses ==
    ASSUME ExchangeInv, in["server"].pc = "head", in["server"].left = 0,
           ~GoodHeader(in["server"].head, limit["server"])
    PROVE  LengthIn(in["server"].head) >= limit["server"]
  <1> DEFINE r == in["server"]
             l == link["server"]
             s == RequestBytes(Question(Last, m_sn - 1))
             min == limit["client"]
             mine == limit["server"]
  <1>1. ReadsHead(r) /\ InOk(r) /\ Cells(l) /\ AtServer = Cat(Got(r), l)
    BY SidesNow, PcOf
  <1>2. AtServer # <<>>
    BY <1>1, GotSome
  <1>3. typed # <<>> /\ Starts(AtServer, Up)
    BY <1>2, ServerHas, PcOf
  <1>4. Sendable(s)
    BY <1>3, NowAsked
  <1>5. Up = Frame(min, s)
    BY DEF Up, UpFrame
  <1>6. mine \in Nat
    BY LimitsAre, SidesAre
  <1>7. ~GoodHeader(r.head, mine) /\ r.left = 0
    OBVIOUS
  <1> HIDE DEF r, l, s, min, mine
  <1>8. LengthIn(r.head) >= mine
    BY <1>1, <1>3, <1>4, <1>5, <1>6, <1>7, RefusedLength
  <1> QED
    BY <1>8 DEF r, mine

LEMMA ClientRefuses ==
    ASSUME ExchangeInv, in["client"].pc = "head", in["client"].left = 0,
           ~GoodHeader(in["client"].head, limit["client"])
    PROVE  LengthIn(in["client"].head) >= limit["client"]
  <1> DEFINE r == in["client"]
             l == link["client"]
             s == ResponseBytes(Reply(Last, m_sn - 1))
             min == limit["server"]
             mine == limit["client"]
  <1>1. ReadsHead(r) /\ InOk(r) /\ Cells(l) /\ AtClient = Cat(Got(r), l)
    BY SidesNow, PcOf
  <1>2. AtClient # <<>>
    BY <1>1, GotSome
  <1>3. typed # <<>> /\ Starts(AtClient, Down)
    BY <1>2, ClientHas, PcOf
  <1>4. Sendable(s)
    BY <1>3, NowAsked
  <1>5. Down = Frame(min, s)
    BY DEF Down, DownFrame
  <1>6. mine \in Nat
    BY LimitsAre, SidesAre
  <1>7. ~GoodHeader(r.head, mine) /\ r.left = 0
    OBVIOUS
  <1> HIDE DEF r, l, s, min, mine
  <1>8. LengthIn(r.head) >= mine
    BY <1>1, <1>3, <1>4, <1>5, <1>6, <1>7, RefusedLength
  <1> QED
    BY <1>8 DEF r, mine

-----------------------------------------------------------------------------
LEMMA CloseIs ==
    ASSUME ExchangeInv, NEW s \in Sides, NEW reason, NEW length, Close(s, reason, length)
    PROVE  /\ Sockets'
           /\ isConnected'[s] = FALSE /\ isConnected'[Other(s)] = isConnected[Other(s)]
           /\ in'[s] = Silent /\ in'[Other(s)] = in[Other(s)]
           /\ out'[s] = Silent /\ out'[Other(s)] = out[Other(s)]
           /\ why'[s][1] = reason /\ why'[s][2] = length /\ why'[Other(s)] = why[Other(s)]
           /\ link' = link
  <1> DEFINE o == Other(s)
             w == <<reason, length>>
  <1>1. /\ On(in) /\ On(out) /\ On(link) /\ On(why) /\ On(isConnected)
        /\ InOk(in[o]) /\ OutOk(out[o]) /\ Cells(link[o]) /\ Cells(link[s])
        /\ isConnected[o] \in BOOLEAN
    <2>1. o \in Sides
      BY SidesAre
    <2> HIDE DEF o
    <2> QED
      BY <2>1, SocketsAre
  <1>2. /\ isConnected' = [isConnected EXCEPT ![s] = FALSE]
        /\ in' = [in EXCEPT ![s] = Silent]
        /\ out' = [out EXCEPT ![s] = Silent]
        /\ why' = [why EXCEPT ![s] = w]
        /\ link' = link
    BY DEF Close
  <1>3. w[1] = reason /\ w[2] = length
    OBVIOUS
  <1> HIDE DEF w
  <1>4. Puts(in', in, s, Silent) /\ Puts(out', out, s, Silent)
    BY <1>1, <1>2, PutsIt
  <1>5. Puts(why', why, s, w)
    BY <1>1, <1>2, PutsIt
  <1>6. Puts(isConnected', isConnected, s, FALSE)
    BY <1>1, <1>2, PutsIt
  <1>7. /\ isConnected'[s] = FALSE /\ isConnected'[o] = isConnected[o]
        /\ in'[s] = Silent /\ in'[o] = in[o]
        /\ out'[s] = Silent /\ out'[o] = out[o]
        /\ why'[s] = w /\ why'[o] = why[o]
        /\ On(in') /\ On(out') /\ On(link') /\ On(why') /\ On(isConnected')
    BY <1>1, <1>2, <1>4, <1>5, <1>6 DEF Puts
  <1>8. Sockets'
    <2>1. /\ InOk(in'[s]) /\ OutOk(out'[s]) /\ Cells(link'[s]) /\ isConnected'[s] \in BOOLEAN
          /\ InOk(in'[o]) /\ OutOk(out'[o]) /\ Cells(link'[o]) /\ isConnected'[o] \in BOOLEAN
      BY <1>1, <1>2, <1>7 DEF InOk, OutOk
    <2>2. \A z \in Sides : z = s \/ z = o
      BY SidesAre
    <2> HIDE DEF o
    <2>3. \A z \in Sides : /\ InOk(in'[z]) /\ OutOk(out'[z]) /\ Cells(link'[z])
                           /\ isConnected'[z] \in BOOLEAN
      BY <2>1, <2>2
    <2> QED
      BY <1>7, <2>3 DEF Sockets, On
  <1> QED
    BY <1>2, <1>3, <1>7, <1>8

LEMMA ServerCloses ==
    ASSUME ExchangeInv, NEW reason, NEW length, Close("server", reason, length),
           reason \notin {"throws", "faults"}, reason = "refused" => length >= limit["server"],
           UNCHANGED <<limit, request, mainVars>>
    PROVE  ExchangeInv'
  <1>1. /\ Sockets'
        /\ isConnected'["server"] = FALSE /\ isConnected'["client"] = isConnected["client"]
        /\ in'["server"] = Silent /\ in'["client"] = in["client"]
        /\ out'["server"] = Silent /\ out'["client"] = out["client"]
        /\ why'["server"][1] = reason /\ why'["server"][2] = length
        /\ why'["client"] = why["client"]
        /\ link' = link
    <2> DEFINE s == "server"
               o == Other(s)
    <2>1. s \in Sides /\ o = "client"
      BY SidesAre
    <2>2. Close(s, reason, length)
      OBVIOUS
    <2> HIDE DEF s
    <2>3. /\ Sockets'
          /\ isConnected'[s] = FALSE /\ isConnected'[o] = isConnected[o]
          /\ in'[s] = Silent /\ in'[o] = in[o]
          /\ out'[s] = Silent /\ out'[o] = out[o]
          /\ why'[s][1] = reason /\ why'[s][2] = length /\ why'[o] = why[o]
          /\ link' = link
      BY <2>1, <2>2, CloseIs
    <2> HIDE DEF o
    <2> QED
      BY <2>1, <2>3 DEF s
  <1>2. /\ limit' = limit /\ request' = request /\ m_sn' = m_sn /\ typed' = typed
        /\ printed' = printed /\ client' = client
    BY DEF mainVars
  <1>3. Last' = Last
    BY <1>2 DEF Last
  <1>4. Program'
    BY <1>2 DEF Program, ExchangeInv
  <1>5. Alive'
    BY <1>1, <1>2 DEF Alive, ExchangeInv
  <1>6. Turn'
    BY <1>1, <1>2, <1>3 DEF Turn, ExchangeInv
  <1>7. Exchange' /\ ServerAlone'
    BY <1>1 DEF Exchange, ServerAlone
  <1>8. ClientAlone'
    <2>1. AtClient' = AtClient /\ Down' = Down
      BY <1>1, <1>2, <1>3 DEF AtClient, Down
    <2>2. isConnected["client"] => AtClient = <<>> \/ (client # "type" /\ Starts(AtClient, Down))
      <3> SUFFICES ASSUME isConnected["client"]
                   PROVE  AtClient = <<>> \/ (client # "type" /\ Starts(AtClient, Down))
        OBVIOUS
      <3>1. CASE ~isConnected["server"]
        BY <3>1 DEF ExchangeInv, ClientAlone
      <3>2. CASE isConnected["server"]
        BY <3>2, SidesNow, StartsAll, BothNothing DEF ExchangeInv, Exchange, Idle, Asking,
           Handling, Answering
      <3> QED
        BY <3>1, <3>2
    <2> QED
      BY <1>1, <1>2, <2>1, <2>2 DEF ClientAlone
  <1>9. Causes'
    <2>1. \A z \in Sides : /\ why'[z][1] = "refused" => why'[z][2] >= limit[z]
                           /\ why'[z][1] # "throws"
      BY SidesAre, <1>1 DEF ExchangeInv, Causes
    <2>2. why["client"][1] = "faults" => ~isConnected["client"] /\ AtNodeEnd(Last)
      BY DEF ExchangeInv, Causes
    <2> QED
      BY <1>1, <1>2, <1>3, <2>1, <2>2 DEF Causes, AtNodeEnd
  <1> QED
    BY <1>1, <1>4, <1>5, <1>6, <1>7, <1>8, <1>9 DEF ExchangeInv

LEMMA ClientCloses ==
    ASSUME ExchangeInv, NEW reason, NEW length, Close("client", reason, length),
           isConnected["server"] => request = <<>> /\ AtServer = <<>>,
           reason # "throws", reason = "refused" => length >= limit["client"],
           reason = "faults" => AtNodeEnd(Last),
           client' = "end" \/ (client' = client /\ client = "recv"),
           UNCHANGED <<limit, request, m_sn, typed, printed>>
    PROVE  ExchangeInv'
  <1>1. /\ Sockets'
        /\ isConnected'["client"] = FALSE /\ isConnected'["server"] = isConnected["server"]
        /\ in'["client"] = Silent /\ in'["server"] = in["server"]
        /\ out'["client"] = Silent /\ out'["server"] = out["server"]
        /\ why'["client"][1] = reason /\ why'["client"][2] = length
        /\ why'["server"] = why["server"]
        /\ link' = link
    <2> DEFINE s == "client"
               o == Other(s)
    <2>1. s \in Sides /\ o = "server"
      BY SidesAre
    <2>2. Close(s, reason, length)
      OBVIOUS
    <2> HIDE DEF s
    <2>3. /\ Sockets'
          /\ isConnected'[s] = FALSE /\ isConnected'[o] = isConnected[o]
          /\ in'[s] = Silent /\ in'[o] = in[o]
          /\ out'[s] = Silent /\ out'[o] = out[o]
          /\ why'[s][1] = reason /\ why'[s][2] = length /\ why'[o] = why[o]
          /\ link' = link
      BY <2>1, <2>2, CloseIs
    <2> HIDE DEF o
    <2> QED
      BY <2>1, <2>3 DEF s
  <1>2. /\ limit' = limit /\ request' = request /\ m_sn' = m_sn /\ typed' = typed
        /\ printed' = printed
    OBVIOUS
  <1>3. Last' = Last
    BY <1>2 DEF Last
  <1>4. Program'
    BY <1>2 DEF Program, ExchangeInv
  <1>5. Alive'
    BY <1>1, <1>2 DEF Alive, ExchangeInv
  <1>6. Turn'
    BY <1>1, <1>2, <1>3 DEF Turn, ExchangeInv
  <1>7. Exchange' /\ ClientAlone'
    BY <1>1 DEF Exchange, ClientAlone
  <1>8. ServerAlone'
    BY <1>1, <1>2 DEF AtServer, ServerAlone
  <1>9. Causes'
    <2>1. \A z \in Sides : /\ why'[z][1] = "refused" => why'[z][2] >= limit[z]
                           /\ why'[z][1] # "throws"
      BY SidesAre, <1>1 DEF ExchangeInv, Causes
    <2>2. why["server"][1] # "faults"
      BY DEF ExchangeInv, Causes
    <2> QED
      BY <1>1, <1>2, <1>3, <2>1, <2>2 DEF Causes, AtNodeEnd
  <1> QED
    BY <1>1, <1>4, <1>5, <1>6, <1>7, <1>8, <1>9 DEF ExchangeInv

-----------------------------------------------------------------------------
(* The steps, one after the other.                                         *)

LEMMA InPut ==
    ASSUME ExchangeInv, NEW s \in Sides, NEW q, InOk(q), in' = [in EXCEPT ![s] = q],
           UNCHANGED <<link, out, isConnected, why>>
    PROVE  Sockets' /\ in'[s] = q /\ in'[Other(s)] = in[Other(s)]
  <1> DEFINE o == Other(s)
  <1>1. o \in Sides /\ \A z \in Sides : z = s \/ z = o
    BY SidesAre
  <1>2. On(in) /\ On(out) /\ On(link) /\ On(why) /\ On(isConnected)
    BY SocketsAre
  <1>3. Puts(in', in, s, q)
    BY <1>2, PutsIt
  <1>4. On(in') /\ in'[s] = q /\ in'[o] = in[o]
    BY <1>3 DEF Puts
  <1> HIDE DEF o
  <1>5. \A z \in Sides : /\ InOk(in'[z]) /\ OutOk(out'[z]) /\ Cells(link'[z])
                         /\ isConnected'[z] \in BOOLEAN
    BY <1>1, <1>4 DEF ExchangeInv, Sockets
  <1>6. Sockets'
    BY <1>2, <1>4, <1>5 DEF Sockets, On
  <1> QED
    BY <1>4, <1>6 DEF o

LEMMA OutPut ==
    ASSUME ExchangeInv, NEW s \in Sides, NEW q, OutOk(q), out' = [out EXCEPT ![s] = q],
           UNCHANGED <<link, in, isConnected, why>>
    PROVE  Sockets' /\ out'[s] = q /\ out'[Other(s)] = out[Other(s)]
  <1> DEFINE o == Other(s)
  <1>1. o \in Sides /\ \A z \in Sides : z = s \/ z = o
    BY SidesAre
  <1>2. On(in) /\ On(out) /\ On(link) /\ On(why) /\ On(isConnected)
    BY SocketsAre
  <1>3. Puts(out', out, s, q)
    BY <1>2, PutsIt
  <1>4. On(out') /\ out'[s] = q /\ out'[o] = out[o]
    BY <1>3 DEF Puts
  <1> HIDE DEF o
  <1>5. \A z \in Sides : /\ InOk(in'[z]) /\ OutOk(out'[z]) /\ Cells(link'[z])
                         /\ isConnected'[z] \in BOOLEAN
    BY <1>1, <1>4 DEF ExchangeInv, Sockets
  <1>6. Sockets'
    BY <1>2, <1>4, <1>5 DEF Sockets, On
  <1> QED
    BY <1>4, <1>6 DEF o

-----------------------------------------------------------------------------
LEMMA ServerReadsKeeps == ExchangeInv /\ ServerReads => ExchangeInv'
  <1> SUFFICES ASSUME ExchangeInv, ServerReads PROVE ExchangeInv'
    OBVIOUS
  <1> DEFINE s == "server"
  <1>1. UNCHANGED <<limit, request, mainVars>>
    BY DEF ServerReads
  <1>2. s \in Sides
    BY SidesAre
  <1>3. CASE ReadHead(s)
    <2> HIDE DEF s
    <2> QED
      BY <1>1, <1>2, <1>3, ReadHeadKeeps
  <1>4. CASE ReadBody(s)
    <2> HIDE DEF s
    <2> QED
      BY <1>1, <1>2, <1>4, ReadBodyKeeps
  <1>5. CASE CheckHead(s)
    <2>1. CASE GoodHeader(in[s].head, limit[s])
      <3> HIDE DEF s
      <3> QED
        BY <1>1, <1>2, <1>5, <2>1, GoodHeadKeeps
    <2>2. CASE ~GoodHeader(in[s].head, limit[s])
      <3> DEFINE n == LengthIn(in["server"].head)
                 how == "refused"
      <3>1. Close("server", how, n)
        BY <1>5, <2>2 DEF CheckHead
      <3>2. n >= limit["server"]
        BY <1>5, <2>2, ServerRefuses DEF CheckHead
      <3>3. how \notin {"throws", "faults"}
        OBVIOUS
      <3> HIDE DEF n, how
      <3> QED
        BY <1>1, <3>1, <3>2, <3>3, ServerCloses
    <2> QED
      BY <2>1, <2>2
  <1>6. CASE ReadFails(s)
    <2> DEFINE n == 0
               how == "lost"
    <2>1. Close("server", how, n)
      BY <1>6 DEF ReadFails
    <2>2. how \notin {"throws", "faults"} /\ how # "refused"
      OBVIOUS
    <2> HIDE DEF n, how
    <2> QED
      BY <1>1, <2>1, <2>2, ServerCloses
  <1> QED
    BY <1>3, <1>4, <1>5, <1>6 DEF ServerReads

LEMMA ClientReadsKeeps == ExchangeInv /\ ClientReads => ExchangeInv'
  <1> SUFFICES ASSUME ExchangeInv, ClientReads PROVE ExchangeInv'
    OBVIOUS
  <1> DEFINE s == "client"
  <1>1. UNCHANGED <<limit, request, mainVars>>
    BY DEF ClientReads
  <1>2. s \in Sides
    BY SidesAre
  <1>3. CASE ReadHead(s)
    <2> HIDE DEF s
    <2> QED
      BY <1>1, <1>2, <1>3, ReadHeadKeeps
  <1>4. CASE ReadBody(s)
    <2> HIDE DEF s
    <2> QED
      BY <1>1, <1>2, <1>4, ReadBodyKeeps
  <1>5. UNCHANGED <<limit, request, m_sn, typed, printed>> /\ client' = client
    BY <1>1 DEF mainVars
  <1>6. CASE CheckHead(s)
    <2>1. CASE GoodHeader(in[s].head, limit[s])
      <3> HIDE DEF s
      <3> QED
        BY <1>1, <1>2, <1>6, <2>1, GoodHeadKeeps
    <2>2. CASE ~GoodHeader(in[s].head, limit[s])
      <3> DEFINE n == LengthIn(in["client"].head)
                 how == "refused"
      <3>1. Close("client", how, n)
        BY <1>6, <2>2 DEF CheckHead
      <3>2. n >= limit["client"]
        BY <1>6, <2>2, ClientRefuses DEF CheckHead
      <3>3. how # "throws" /\ how # "faults"
        OBVIOUS
      <3>4. AtClient # <<>>
        BY <1>6, SidesNow, GotSome DEF CheckHead
      <3>5. client = "recv" /\ (isConnected["server"] => request = <<>> /\ AtServer = <<>>)
        BY <1>6, <3>4, ClientHas DEF CheckHead
      <3> HIDE DEF n, how
      <3> QED
        BY <1>5, <3>1, <3>2, <3>3, <3>5, ClientCloses
    <2> QED
      BY <2>1, <2>2
  <1>7. CASE ReadFails(s)
    <2> DEFINE n == 0
               how == "lost"
    <2>1. Close("client", how, n) /\ ~isConnected["server"] /\ in["client"].pc # "idle"
      BY <1>7, SidesAre DEF ReadFails
    <2>2. how # "throws" /\ how # "faults" /\ how # "refused"
      OBVIOUS
    <2>3. client = "recv"
      BY <2>1, PcOf DEF ExchangeInv, Turn
    <2> HIDE DEF n, how
    <2> QED
      BY <1>5, <2>1, <2>2, <2>3, ClientCloses
  <1> QED
    BY <1>3, <1>4, <1>6, <1>7 DEF ClientReads

LEMMA ServerWritesKeeps == ExchangeInv /\ ServerWrites => ExchangeInv'
  <1> SUFFICES ASSUME ExchangeInv, ServerWrites PROVE ExchangeInv'
    OBVIOUS
  <1>1. UNCHANGED <<limit, request, mainVars>> /\ "server" \in Sides
    BY SidesAre DEF ServerWrites
  <1>2. CASE WriteHead("server")
    BY <1>1, <1>2, WriteHeadKeeps
  <1>3. CASE WriteBody("server")
    BY <1>1, <1>3, WriteBodyKeeps
  <1>4. CASE Close("server", "lost", 0)
    <2> DEFINE n == 0
               how == "lost"
    <2>1. Close("server", how, n)
      BY <1>4
    <2>2. how \notin {"throws", "faults"} /\ how # "refused"
      OBVIOUS
    <2> HIDE DEF n, how
    <2> QED
      BY <1>1, <2>1, <2>2, ServerCloses
  <1> QED
    BY <1>2, <1>3, <1>4 DEF ServerWrites

LEMMA ServerTimesOutKeeps == ExchangeInv /\ ServerTimesOut => ExchangeInv'
  <1> SUFFICES ASSUME ExchangeInv, ServerTimesOut PROVE ExchangeInv'
    OBVIOUS
  <1> DEFINE n == 0
             how == "timeout"
  <1>1. UNCHANGED <<limit, request, mainVars>> /\ Close("server", how, n)
    BY DEF ServerTimesOut
  <1>2. how \notin {"throws", "faults"} /\ how # "refused"
    OBVIOUS
  <1> HIDE DEF n, how
  <1> QED
    BY <1>1, <1>2, ServerCloses

LEMMA ClientWritesKeeps == ExchangeInv /\ ClientWrites => ExchangeInv'
  <1> SUFFICES ASSUME ExchangeInv, ClientWrites PROVE ExchangeInv'
    OBVIOUS
  <1>1. UNCHANGED <<limit, request, mainVars>> /\ "client" \in Sides
    BY SidesAre DEF ClientWrites
  <1>2. CASE WriteHead("client")
    BY <1>1, <1>2, WriteHeadKeeps
  <1>3. CASE WriteBody("client")
    BY <1>1, <1>3, WriteBodyKeeps
  <1>4. CASE WriteFails("client")
    BY <1>1, <1>4, WriteFailsKeeps
  <1> QED
    BY <1>2, <1>3, <1>4 DEF ClientWrites

LEMMA ExitKeeps == ExchangeInv /\ Exit => ExchangeInv'
  <1> SUFFICES ASSUME ExchangeInv, Exit PROVE ExchangeInv'
    OBVIOUS
  <1> DEFINE n == 0
             how == "exit"
  <1>1. /\ UNCHANGED <<limit, request, m_sn, typed, printed>> /\ Close("client", how, n)
        /\ client = "type" /\ client' = "end"
    BY DEF Exit
  <1>2. how # "throws" /\ how # "faults" /\ how # "refused"
    OBVIOUS
  <1>3. isConnected["client"]
    BY SidesAre, SocketsAre, <1>1 DEF ExchangeInv, Alive
  <1>4. isConnected["server"] => request = <<>> /\ AtServer = <<>>
    BY <1>1, <1>3, SidesNow, BothNothing DEF ExchangeInv, Exchange, Idle
  <1> HIDE DEF n, how
  <1> QED
    BY <1>1, <1>2, <1>4, ClientCloses

LEMMA ClientDiesKeeps == ExchangeInv /\ ClientDies => ExchangeInv'
  <1> SUFFICES ASSUME ExchangeInv, ClientDies PROVE ExchangeInv'
    OBVIOUS
  <1>1. /\ client = "recv" /\ ~isConnected["client"] /\ client' = "end"
        /\ limit' = limit /\ link' = link /\ in' = in /\ out' = out
        /\ isConnected' = isConnected /\ request' = request /\ m_sn' = m_sn
        /\ typed' = typed /\ printed' = printed /\ why' = why
    BY DEF ClientDies, ioVars
  <1>2. Last' = Last
    BY <1>1 DEF Last
  <1>3. Sockets' /\ Program'
    BY <1>1 DEF ExchangeInv, Sockets, Program, On
  <1>4. Alive' /\ Turn'
    BY <1>1 DEF ExchangeInv, Alive, Turn
  <1>5. Exchange' /\ ClientAlone'
    BY <1>1 DEF Exchange, ClientAlone
  <1>6. AtServer' = AtServer
    BY <1>1 DEF AtServer
  <1>7. ServerAlone'
    BY <1>1, <1>6 DEF ExchangeInv, ServerAlone
  <1>8. Causes'
    BY <1>1, <1>2 DEF ExchangeInv, Causes, AtNodeEnd
  <1> QED
    BY <1>3, <1>4, <1>5, <1>7, <1>8 DEF ExchangeInv

-----------------------------------------------------------------------------
LEMMA ServerParsesKeeps == ExchangeInv /\ ServerParses => ExchangeInv'
  <1> SUFFICES ASSUME ExchangeInv, ServerParses PROVE ExchangeInv'
    OBVIOUS
  <1> DEFINE r == in["server"]
             l == link["server"]
             y == Rest(out["client"])
             s == RequestBytes(Question(Last, m_sn - 1))
             m == Question(Last, m_sn - 1)
             min == limit["client"]
             q == parseFrom(r.head, r.ba)
  <1>1. r.pc = "body" /\ r.left = 0 /\ UNCHANGED <<limit, mainVars>>
    BY DEF ServerParses
  <1>2. /\ ReadsBody(r) /\ InOk(r) /\ Cells(l) /\ Cells(y) /\ AtServer = Cat(Got(r), l)
        /\ ToServer = Cat(AtServer, y)
    BY <1>1, SidesNow, PcOf
  <1>3. AtServer # <<>>
    <2> HIDE DEF r, l
    <2>1. r.pc \in {"head", "body"}
      BY <1>1
    <2> QED
      BY <1>1, <1>2, <2>1, GotSome
  <1>4. /\ isConnected["server"] /\ isConnected["client"] /\ client \in {"send", "recv"}
        /\ typed # <<>> /\ request = <<>> /\ ToServer = Up /\ ToClient = <<>>
    BY <1>1, <1>3, ServerHas, PcOf
  <1>5. Sendable(s) /\ SmallRequest(m)
    BY <1>4, NowAsked
  <1>6. Cat(Cat(Got(r), l), y) = Frame(min, s)
    BY <1>2, <1>4 DEF Up, UpFrame
  <1>7. m.sn = m_sn - 1 /\ m.cmd = 0 /\ m.body = Last
    BY DEF Question
  <1>8. s = RequestBytes(m)
    OBVIOUS
  <1> HIDE DEF s, m, min, l, y
  <1>9. r.head = HeadOf(min, s) /\ Held(r.ba, Sealed(min, s)) /\ l = <<>> /\ y = <<>>
    <2> HIDE DEF r
    <2> QED
      BY <1>1, <1>2, <1>5, <1>6, BodyCame
  <1>10. /\ q.how = "ok" /\ q.msg.type = REQUEST
         /\ q.msg.sn = m.sn /\ q.msg.cmd = m.cmd /\ q.msg.body = m.body
    <2> DEFINE b == r.ba
               p == Len(Sealed(min, s))
    <2>1. q = parseFrom(HeadOf(min, s), b)
      BY <1>9
    <2>2. Holds(b, Sealed(min, s), p)
      BY <1>9 DEF Held
    <2> HIDE DEF b, p, q
    <2> QED
      BY <1>5, <1>8, <2>1, <2>2, RequestArrives
  <1>11. IsAsked(q.msg)
    BY <1>7, <1>10 DEF IsAsked
  <1>12. /\ request' = Append(request, q.msg) /\ in' = [in EXCEPT !["server"] = Reading]
         /\ UNCHANGED <<link, out, isConnected, why>>
    <2> HIDE DEF q
    <2>1. \E z \in {q} :
            IF z.how = "ok"
            THEN /\ request' = IF z.msg.type = REQUEST THEN Append(request, z.msg) ELSE request
                 /\ in' = [in EXCEPT !["server"] = Reading]
                 /\ UNCHANGED <<link, out, isConnected, why>>
            ELSE /\ Close("server", z.how, LengthIn(in["server"].head))
                 /\ UNCHANGED request
      BY DEF ServerParses, q
    <2>2. IF q.how = "ok"
          THEN /\ request' = IF q.msg.type = REQUEST THEN Append(request, q.msg) ELSE request
               /\ in' = [in EXCEPT !["server"] = Reading]
               /\ UNCHANGED <<link, out, isConnected, why>>
          ELSE /\ Close("server", q.how, LengthIn(in["server"].head))
               /\ UNCHANGED request
      BY <2>1
    <2> QED
      BY <1>10, <2>2
  <1> HIDE DEF q, r
  <1>13. PICK a : request' = <<a>> /\ IsAsked(a)
    BY <1>4, <1>11, <1>12
  <1>14. Sockets' /\ in'["server"] = Reading /\ in'["client"] = in["client"]
    <2>1. InOk(Reading)
      BY ReadingIs DEF InOk
    <2> QED
      BY <1>12, <2>1, InPut, SidesAre
  <1>15. /\ limit' = limit /\ m_sn' = m_sn /\ typed' = typed /\ printed' = printed
         /\ client' = client /\ link' = link /\ out' = out /\ isConnected' = isConnected
         /\ why' = why
    BY <1>1, <1>12 DEF mainVars
  <1>16. Last' = Last
    BY <1>15 DEF Last
  <1>17. Program' /\ Turn'
    BY <1>14, <1>15, <1>16 DEF ExchangeInv, Program, Turn
  <1>18. Alive'
    BY <1>4, <1>14, <1>15, ReadingIs DEF ExchangeInv, Alive
  <1>19. ServerAlone' /\ ClientAlone'
    BY <1>4, <1>15 DEF ServerAlone, ClientAlone
  <1>20. Causes'
    BY <1>15, <1>16 DEF ExchangeInv, Causes, AtNodeEnd
  <1>21. ToClient' = <<>>
    BY <1>4, <1>14, <1>15 DEF ToClient
  <1>22. ToServer' = <<>>
    BY <1>9, <1>14, <1>15, ReadingIs, Nothing DEF ToServer, FlowOf, CameOf, l, y
  <1>23. Handling'
    BY <1>13, <1>15, <1>16, <1>21, <1>22 DEF IsAsked, Handling
  <1>24. Exchange'
    BY <1>4, <1>15, <1>23 DEF Exchange
  <1> QED
    BY <1>14, <1>17, <1>18, <1>19, <1>20, <1>24 DEF ExchangeInv

LEMMA ServerHandlesKeeps == ExchangeInv /\ ServerHandles => ExchangeInv'
  <1> SUFFICES ASSUME ExchangeInv, ServerHandles PROVE ExchangeInv'
    OBVIOUS
  <1>1. /\ request # <<>> /\ out["server"].pc = "idle" /\ request' = Tail(request)
        /\ limit' = limit /\ link' = link /\ in' = in /\ isConnected' = isConnected /\ why' = why
        /\ m_sn' = m_sn /\ typed' = typed /\ printed' = printed /\ client' = client
    BY DEF ServerHandles, mainVars
  <1>2. Last' = Last
    BY <1>1 DEF Last
  <1>3. Program'
    BY <1>1 DEF ExchangeInv, Program
  <1>4. Causes'
    BY <1>1, <1>2 DEF ExchangeInv, Causes, AtNodeEnd
  <1>5. CASE ~isConnected["server"]
    <2>1. out' = out
      BY <1>5 DEF ServerHandles
    <2>2. Sockets'
      BY <1>1, <2>1 DEF ExchangeInv, Sockets, On
    <2>3. Alive' /\ Turn'
      BY <1>1, <1>2, <2>1 DEF ExchangeInv, Alive, Turn
    <2>4. Exchange' /\ ServerAlone'
      BY <1>1, <1>5 DEF Exchange, ServerAlone
    <2>5. AtClient' = AtClient /\ Down' = Down
      BY <1>1, <1>2 DEF AtClient, Down
    <2>6. ClientAlone'
      BY <1>1, <2>5 DEF ExchangeInv, ClientAlone
    <2> QED
      BY <1>3, <1>4, <2>2, <2>3, <2>4, <2>6 DEF ExchangeInv
  <1>6. CASE isConnected["server"]
    <2>1. isConnected["client"]
      BY SidesAre, SocketsAre, <1>1, <1>6 DEF ExchangeInv, ServerAlone
    <2>2. client # "type" /\ Handling
      BY <1>1, <1>6, <2>1 DEF ExchangeInv, Exchange, Idle, Asking, Answering
    <2>3. client \in {"send", "recv"} /\ typed # <<>>
      BY <2>1, <2>2 DEF ExchangeInv, Program, Turn
    <2>4. PICK r : request = <<r>> /\ IsAsked(r)
      BY <2>2 DEF Handling
    <2> DEFINE m == Reply(Last, m_sn - 1)
               s == ResponseBytes(m)
               min == limit["server"]
               f == serializeTo(min, m)
               w == [pc |-> "head", head |-> f.head, ba |-> f.ba]
    <2>5. createResponse(r) = m
      BY <2>4 DEF IsAsked, Reply, createResponse, Question
    <2>6. Head(request) = r /\ Tail(request) = <<>>
      BY <2>4
    <2>7. out' = [out EXCEPT !["server"] = w]
      BY <1>6, <2>5, <2>6 DEF ServerHandles
    <2>8. WritesHead(w) /\ Rest(w) = Down
      <3>1. Sendable(s) /\ SmallResponse(m)
        BY <2>3, NowAsked
      <3> HIDE DEF m
      <3>2. Held(toByteArray(m), s)
        BY <3>1, ResponseHeld DEF SmallResponse
      <3> HIDE DEF s
      <3>3. WritesHead(w) /\ Rest(w) = Frame(min, s)
        BY <3>1, <3>2, FrameSent
      <3> QED
        BY <3>3 DEF Down, DownFrame, s, m
    <2> HIDE DEF w
    <2>9. Sockets' /\ out'["server"] = w /\ out'["client"] = out["client"]
      BY <2>8, <1>1, <2>7, OutPut, SidesAre DEF OutOk
    <2>10. Alive' /\ Turn'
      BY <1>1, <1>2, <1>6, <2>9 DEF ExchangeInv, Alive, Turn
    <2>11. ServerAlone' /\ ClientAlone'
      BY <1>1, <1>6, <2>1 DEF ServerAlone, ClientAlone
    <2>12. ToServer' = <<>>
      BY <1>1, <2>2, <2>9 DEF Handling, ToServer
    <2>13. ToClient' = Down'
      <3>1. AtClient = <<>>
        BY <2>2, SidesNow, BothNothing DEF Handling
      <3>2. ToClient' = Cat(AtClient, Rest(w))
        BY <1>1, <2>9 DEF ToClient, FlowOf, AtClient
      <3>3. Cells(Rest(w))
        BY <2>8, RestCells DEF OutOk
      <3>4. Cat(<<>>, Rest(w)) = Rest(w)
        BY <3>3, Nothing
      <3>5. Down' = Down
        BY <1>1, <1>2 DEF Down
      <3> QED
        BY <2>8, <3>1, <3>2, <3>4, <3>5
    <2>14. Answering'
      BY <1>1, <2>6, <2>12, <2>13 DEF Answering
    <2>15. Exchange'
      BY <1>1, <2>2, <2>14 DEF Exchange
    <2> QED
      BY <1>3, <1>4, <2>9, <2>10, <2>11, <2>15 DEF ExchangeInv
  <1>7. isConnected["server"] \in BOOLEAN
    BY SidesAre, SocketsAre
  <1> QED
    BY <1>5, <1>6, <1>7

-----------------------------------------------------------------------------
LEMMA TypeKeeps ==
    ASSUME ExchangeInv, NEW text \in Texts, Type(text)
    PROVE  ExchangeInv'
  <1>1. /\ client = "type" /\ Len(typed) < MaxTexts /\ typed' = Append(typed, text)
        /\ m_sn' = m_sn + 1 /\ client' = "send"
        /\ limit' = limit /\ link' = link /\ in' = in /\ isConnected' = isConnected
        /\ request' = request /\ printed' = printed /\ why' = why
    BY DEF Type
  <1>2. typed \in Seq(Texts) /\ m_sn = Len(typed) /\ limit \in Limits /\ Len(typed) \in Nat
    BY LenProperties DEF ExchangeInv, Program
  <1> DEFINE n == m_sn
             m == Question(text, n)
             s == RequestBytes(m)
             min == limit["client"]
             f == serializeTo(min, m)
             w == [pc |-> "head", head |-> f.head, ba |-> f.ba]
  <1>3. out' = [out EXCEPT !["client"] = w]
    <2>1. CreateMessage(text) = m
      BY CreateMessageIs
    <2>2. doSend(m) = w
      BY DEF doSend
    <2> HIDE DEF m, w
    <2> QED
      BY <2>1, <2>2 DEF Type
  <1>4. Last' = text /\ m_sn' - 1 = n
    <2>1. typed'[Len(typed')] = text
      BY <1>2, AppendProperties, <1>1
    <2> QED
      BY <1>1, <1>2, <2>1 DEF Last
  <1>5. WritesHead(w) /\ Rest(w) = Frame(min, s)
    <2>1. n \in Nat /\ n <= MaxTexts
      BY <1>1, <1>2, ExchangeAssumption
    <2> HIDE DEF n
    <2>2. SmallRequest(m) /\ Sendable(s)
      BY <2>1, QuestionIs
    <2> HIDE DEF m
    <2>3. Held(toByteArray(m), s)
      BY <2>2, RequestHeld DEF SmallRequest
    <2> HIDE DEF s
    <2> QED
      BY <2>2, <2>3, FrameSent
  <1>6. Up' = Frame(min, s)
    BY <1>1, <1>4 DEF Up, UpFrame
  <1> HIDE DEF w
  <1>7. Sockets' /\ out'["client"] = w /\ out'["server"] = out["server"]
    BY <1>5, <1>1, <1>3, OutPut, SidesAre DEF OutOk
  <1>8. Program'
    BY <1>1, <1>2, AppendProperties, ExchangeAssumption DEF Program
  <1>9. isConnected["client"]
    BY SidesAre, SocketsAre, <1>1 DEF ExchangeInv, Alive
  <1>10. Alive'
    BY <1>1, <1>7, <1>9 DEF ExchangeInv, Alive
  <1>11. Turn'
    BY <1>1, <1>2, AppendProperties, <1>4 DEF ExchangeInv, Turn
  <1>12. ServerAlone'
    BY <1>1, <1>9 DEF ServerAlone
  <1>13. ClientAlone'
    BY <1>1 DEF AtClient, ExchangeInv, ClientAlone
  <1>14. Exchange'
    <2> SUFFICES ASSUME isConnected["server"] PROVE Asking'
      BY <1>1 DEF Exchange
    <2>1. Idle
      BY <1>1, <1>9 DEF ExchangeInv, Exchange
    <2>2. ToClient' = <<>>
      BY <1>1, <1>7, <2>1 DEF Idle, ToClient
    <2>3. ToServer' = Up'
      BY <2>1, SidesNow, BothNothing, <1>1, <1>7, <1>5, RestCells, Nothing, <1>6 DEF Idle,
         ToServer, FlowOf, AtServer, OutOk
    <2> QED
      BY <1>1, <2>1, <2>2, <2>3 DEF Idle, Asking
  <1>15. Causes'
    BY <1>9, <1>1 DEF ExchangeInv, Causes
  <1> QED
    BY <1>7, <1>8, <1>10, <1>11, <1>12, <1>13, <1>14, <1>15 DEF ExchangeInv

LEMMA BeginRecvKeeps == ExchangeInv /\ BeginRecv => ExchangeInv'
  <1> SUFFICES ASSUME ExchangeInv, BeginRecv PROVE ExchangeInv'
    OBVIOUS
  <1>1. /\ client = "send" /\ out["client"].pc = "idle" /\ client' = "recv"
        /\ in' = [in EXCEPT !["client"] = Reading]
        /\ limit' = limit /\ link' = link /\ out' = out /\ isConnected' = isConnected
        /\ request' = request /\ m_sn' = m_sn /\ typed' = typed /\ printed' = printed
        /\ why' = why
    BY DEF BeginRecv
  <1>2. Last' = Last
    BY <1>1 DEF Last
  <1>3. Sockets' /\ in'["client"] = Reading /\ in'["server"] = in["server"]
    <2>1. InOk(Reading)
      BY ReadingIs DEF InOk
    <2> QED
      BY <1>1, <2>1, InPut, SidesAre
  <1>4. Program' /\ Causes'
    BY <1>1, <1>2 DEF ExchangeInv, Program, Causes, AtNodeEnd
  <1>5. out["client"] = Silent /\ in["client"] = Silent
    BY SidesNow, <1>1, PcOf DEF ExchangeInv, Turn
  <1>6. isConnected["client"]
    BY SidesAre, SocketsAre, <1>1 DEF ExchangeInv, Alive
  <1>7. Alive'
    BY <1>1, <1>3, <1>6 DEF ExchangeInv, Alive
  <1>8. Turn'
    BY <1>1, <1>2, <1>3, <1>5, ReadingIs DEF ExchangeInv, Turn
  <1>9. AtClient' = AtClient /\ AtServer' = AtServer /\ Down' = Down /\ Up' = Up
    BY <1>1, <1>2, <1>3, <1>5, ReadingIs DEF AtClient, AtServer, CameOf, Up, Down
  <1>10. ToClient' = ToClient /\ ToServer' = ToServer
    BY <1>1, <1>3, <1>5, ReadingIs DEF ToClient, ToServer, FlowOf, CameOf
  <1>11. \A r : IsAsked(r)' <=> IsAsked(r)
    BY <1>1, <1>2 DEF IsAsked
  <1>12. Exchange'
    BY <1>1, <1>9, <1>10, <1>11 DEF ExchangeInv, Exchange, Idle, Asking, Handling, Answering
  <1>13. ServerAlone' /\ ClientAlone'
    BY <1>1, <1>9 DEF ExchangeInv, ServerAlone, ClientAlone
  <1> QED
    BY <1>3, <1>4, <1>7, <1>8, <1>12, <1>13 DEF ExchangeInv

(* What the client makes of the bytes behind a header: the text, or it dies *)
(* of them.                                                                *)
LEMMA AnswerRead ==
    ASSUME ExchangeInv, in["client"].pc = "body", in["client"].left = 0
    PROVE  /\ client = "recv" /\ typed # <<>> /\ link["client"] = <<>>
           /\ isConnected["client"]
           /\ isConnected["server"] =>
                /\ request = <<>> /\ ToServer = <<>> /\ AtServer = <<>>
                /\ Rest(out["server"]) = <<>>
           /\ \/ doRecv.how = "ok" /\ doRecv.msg.type = RESPONSE /\ doRecv.msg.resultStr = Last
              \/ doRecv.how = "faults" /\ AtNodeEnd(Last)
  <1> DEFINE r == in["client"]
             l == link["client"]
             m == Reply(Last, m_sn - 1)
             s == ResponseBytes(m)
             min == limit["server"]
             e == Rest(out["server"])
  <1>1. r.pc = "body" /\ r.left = 0
    OBVIOUS
  <1>2. /\ ReadsBody(r) /\ InOk(r) /\ Cells(l) /\ Cells(e) /\ AtClient = Cat(Got(r), l)
    BY <1>1, SidesNow, PcOf
  <1>3. AtClient # <<>>
    <2> HIDE DEF r, l
    <2>1. r.pc \in {"head", "body"}
      BY <1>1
    <2> QED
      BY <1>1, <1>2, <2>1, GotSome
  <1>4. /\ isConnected["client"] /\ client = "recv" /\ typed # <<>> /\ Starts(AtClient, Down)
        /\ isConnected["server"] =>
             request = <<>> /\ ToServer = <<>> /\ AtServer = <<>> /\ Cat(AtClient, e) = Down
    BY <1>1, <1>3, ClientHas, PcOf
  <1>5. PICK y : /\ Cells(y) /\ Cat(AtClient, y) = Down
                 /\ isConnected["server"] => y = e
    BY <1>2, <1>4 DEF Starts
  <1>6. /\ Sendable(s) /\ SmallResponse(m) /\ Len(s) = 21 + Len(Last) /\ m.resultStr = Last
    BY <1>4, NowAsked
  <1>7. Cat(Cat(Got(r), l), y) = Frame(min, s)
    BY <1>2, <1>5 DEF Down, DownFrame
  <1>8. s = ResponseBytes(m)
    OBVIOUS
  <1> HIDE DEF s, m, min, l
  <1>9. r.head = HeadOf(min, s) /\ Held(r.ba, Sealed(min, s)) /\ l = <<>> /\ y = <<>>
    <2> HIDE DEF r
    <2> QED
      BY <1>1, <1>2, <1>5, <1>6, <1>7, BodyCame
  <1> DEFINE q == parseFrom(r.head, r.ba)
  <1>10. \/ q.how = "ok" /\ q.msg.type = RESPONSE /\ q.msg.resultStr = m.resultStr
         \/ q.how = "faults" /\ Len(s) % Base = 0
    <2> DEFINE b == r.ba
               p == Len(Sealed(min, s))
    <2>1. q = parseFrom(HeadOf(min, s), b)
      BY <1>9
    <2>2. Holds(b, Sealed(min, s), p)
      BY <1>9 DEF Held
    <2> HIDE DEF b, p, q
    <2> QED
      BY <1>6, <1>8, <2>1, <2>2, ResponseArrives
  <1>11. doRecv = q
    BY DEF doRecv
  <1>12. Len(s) % Base = 0 => AtNodeEnd(Last)
    BY <1>6 DEF AtNodeEnd
  <1> HIDE DEF q, e
  <1> QED
    BY <1>4, <1>5, <1>6, <1>9, <1>10, <1>11, <1>12 DEF l, e

LEMMA ClientParsesKeeps == ExchangeInv /\ ClientParses => ExchangeInv'
  <1> SUFFICES ASSUME ExchangeInv, ClientParses PROVE ExchangeInv'
    OBVIOUS
  <1>1. /\ client = "recv" /\ typed # <<>> /\ link["client"] = <<>> /\ isConnected["client"]
        /\ isConnected["server"] =>
             /\ request = <<>> /\ ToServer = <<>> /\ AtServer = <<>>
             /\ Rest(out["server"]) = <<>>
        /\ \/ doRecv.how = "ok" /\ doRecv.msg.type = RESPONSE /\ doRecv.msg.resultStr = Last
           \/ doRecv.how = "faults" /\ AtNodeEnd(Last)
    BY AnswerRead DEF ClientParses
  <1> DEFINE m == doRecv
  <1>2. /\ IF m.how = "ok"
           THEN /\ printed' = IF m.msg.type = RESPONSE THEN Append(printed, m.msg.resultStr)
                              ELSE printed
                /\ client' = "type"
                /\ in' = [in EXCEPT !["client"] = Silent]
                /\ UNCHANGED <<link, out, isConnected, why>>
           ELSE /\ Close("client", m.how, LengthIn(in["client"].head))
                /\ UNCHANGED <<printed, client>>
        /\ UNCHANGED <<limit, request, m_sn, typed>>
    BY DEF ClientParses
  <1> HIDE DEF m
  <1>3. CASE m.how = "ok"
    <2>1. /\ printed' = Append(printed, Last) /\ client' = "type"
          /\ in' = [in EXCEPT !["client"] = Silent]
          /\ link' = link /\ out' = out /\ isConnected' = isConnected /\ why' = why
          /\ limit' = limit /\ request' = request /\ m_sn' = m_sn /\ typed' = typed
      BY <1>1, <1>2, <1>3 DEF m
    <2>2. Last' = Last
      BY <2>1 DEF Last
    <2>3. Sockets' /\ in'["client"] = Silent /\ in'["server"] = in["server"]
      BY <2>1, InPut, SidesAre DEF InOk
    <2>4. Program' /\ Causes'
      BY <2>1, <2>2 DEF ExchangeInv, Program, Causes, AtNodeEnd
    <2>5. typed = Append(printed, Last) /\ out["client"] = Silent
      BY <1>1 DEF ExchangeInv, Turn
    <2>6. Turn'
      BY <2>1, <2>3, <2>5 DEF Turn
    <2>7. Alive'
      BY <1>1, <2>1, <2>3 DEF ExchangeInv, Alive
    <2>8. AtClient' = <<>>
      BY <1>1, <2>1, <2>3, NothingFlows DEF AtClient
    <2>9. ServerAlone' /\ ClientAlone'
      BY <1>1, <2>1, <2>8 DEF ServerAlone, ClientAlone
    <2>10. Exchange'
      <3> SUFFICES ASSUME isConnected["server"] PROVE Idle'
        BY <2>1 DEF Exchange
      <3>1. ToServer' = ToServer
        BY <2>1, <2>3 DEF ToServer
      <3>2. ToClient' = Cat(AtClient', Rest(out["server"]))
        BY <2>1 DEF ToClient, FlowOf, AtClient
      <3>3. ToClient' = <<>>
        BY <1>1, <2>8, <3>2, Nothing
      <3> QED
        BY <1>1, <2>1, <3>1, <3>3 DEF Idle
    <2> QED
      BY <2>3, <2>4, <2>6, <2>7, <2>9, <2>10 DEF ExchangeInv
  <1>4. CASE m.how = "faults"
    <2> DEFINE how == "faults"
               n == LengthIn(in["client"].head)
    <2>1. Close("client", how, n) /\ UNCHANGED <<limit, request, m_sn, typed, printed>>
          /\ client' = client
      BY <1>2, <1>4
    <2>2. AtNodeEnd(Last)
      BY <1>1, <1>4 DEF m
    <2>3. how # "throws" /\ how # "refused"
      OBVIOUS
    <2> HIDE DEF how, n
    <2> QED
      BY <1>1, <2>1, <2>2, <2>3, ClientCloses
  <1> QED
    BY <1>1, <1>3, <1>4 DEF m

-----------------------------------------------------------------------------
LEMMA ExchangeStep == ExchangeInv /\ [Next]_vars => ExchangeInv'
  <1> SUFFICES ASSUME ExchangeInv, [Next]_vars PROVE ExchangeInv'
    OBVIOUS
  <1>1. CASE Server
    BY <1>1, ServerReadsKeeps, ServerParsesKeeps, ServerHandlesKeeps, ServerWritesKeeps DEF Server
  <1>2. CASE ServerTimesOut
    BY <1>2, ServerTimesOutKeeps
  <1>3. CASE Client
    BY <1>3, ClientWritesKeeps, BeginRecvKeeps, ClientReadsKeeps, ClientParsesKeeps,
       ClientDiesKeeps DEF Client
  <1>4. CASE Exit
    BY <1>4, ExitKeeps
  <1>5. CASE \E t \in Texts : Type(t)
    BY <1>5, TypeKeeps
  <1>6. CASE UNCHANGED vars
    <2>1. /\ limit' = limit /\ link' = link /\ in' = in /\ out' = out
          /\ isConnected' = isConnected /\ request' = request /\ m_sn' = m_sn
          /\ typed' = typed /\ printed' = printed /\ client' = client /\ why' = why
      BY <1>6 DEF vars, ioVars, mainVars
    <2>2. OnlyForward
      BY <2>1 DEF Forward, ExchangeInv, Sockets, OnlyForward, mainVars, On
    <2> QED
      BY <2>2, ForwardKeeps
  <1> QED
    BY <1>1, <1>2, <1>3, <1>4, <1>5, <1>6 DEF Next

-----------------------------------------------------------------------------
(* The theorems.                                                           *)

LEMMA ExchangeAlways == Spec => []ExchangeInv
  BY ExchangeInit, ExchangeStep, PTL DEF Spec

LEMMA InStep == ExchangeInv => FramesInStep
  <1> SUFFICES ASSUME ExchangeInv, NEW s \in Sides, in[s].pc = "head", isConnected[Other(s)],
                      NEW n, n = AtMost(2, Len(in[s].head \o link[s]))
               PROVE  SubSeq(in[s].head \o link[s], 1, n) = SubSeq(Magic, 1, n)
    BY DEF FramesInStep
  <1> DEFINE x == Cat(Got(in[s]), link[s])
  <1>1. ReadsHead(in[s]) /\ Cells(link[s])
    BY SocketsAre, PcOf
  <1>2. Got(in[s]) = in[s].head /\ Cells(in[s].head)
    BY <1>1, PcOf DEF Got, ReadsHead
  <1>3. x = in[s].head \o link[s] /\ Cells(x)
    BY <1>1, <1>2, Joined DEF Cat
  <1>4. CASE x = <<>>
    <2>1. n = 0
      BY <1>3, <1>4 DEF AtMost
    <2> DEFINE e == 1
               z == 0
    <2>2. SubSeq(x, e, z) = <<>> /\ SubSeq(Magic, e, z) = <<>>
      <3>1. Magic \in Seq(Nat) /\ x \in Seq(Cell)
        BY <1>3 DEF Magic, Cells
      <3>2. e \in Int /\ z \in Int /\ z < e
        OBVIOUS
      <3> HIDE DEF e, z, x
      <3> QED
        BY <3>1, <3>2, SubSeqEmpty
    <2> QED
      BY <1>3, <2>1, <2>2
  <1>5. CASE x # <<>>
    <2>1. PICK min, m : Sendable(m) /\ Starts(x, Frame(min, m))
      <3>1. CASE s = "server"
        <4> DEFINE m == RequestBytes(Question(Last, m_sn - 1))
                   min == limit["client"]
        <4>1. x = AtServer
          BY <3>1, SidesNow
        <4>2. typed # <<>> /\ Starts(AtServer, Up)
          BY <1>5, <3>1, <4>1, ServerHas
        <4>3. Sendable(m) /\ Up = Frame(min, m)
          BY <4>2, NowAsked DEF Up, UpFrame
        <4> HIDE DEF m, min, x
        <4> QED
          BY <4>1, <4>2, <4>3
      <3>2. CASE s = "client"
        <4> DEFINE m == ResponseBytes(Reply(Last, m_sn - 1))
                   min == limit["server"]
        <4>1. x = AtClient
          BY <3>2, SidesNow
        <4>2. typed # <<>> /\ Starts(AtClient, Down)
          BY <1>5, <3>2, <4>1, ClientHas
        <4>3. Sendable(m) /\ Down = Frame(min, m)
          BY <4>2, NowAsked DEF Down, DownFrame
        <4> HIDE DEF m, min, x
        <4> QED
          BY <4>1, <4>2, <4>3
      <3> QED
        BY <3>1, <3>2, SidesAre
    <2>2. n = AtMost(2, Len(x))
      BY <1>3
    <2> HIDE DEF x
    <2>3. SubSeq(x, 1, n) = SubSeq(Magic, 1, n)
      BY <1>3, <2>1, <2>2, MagicFirst
    <2> QED
      BY <1>3, <2>3
  <1> QED
    BY <1>4, <1>5

(* A header begins where a frame begins, in whatever pieces the bytes come. *)
THEOREM AlwaysInStep == Spec => []FramesInStep
  BY ExchangeAlways, InStep, PTL

(* Nothing is refused but for its length, and the only fault is that of an
   answer that ends with a node. *)
THEOREM AlwaysForCause == Spec => []RefusedForCause
  <1>1. ExchangeInv => RefusedForCause
    <2> SUFFICES ASSUME ExchangeInv, NEW s \in Sides
                 PROVE  /\ why[s][1] = "refused" => why[s][2] >= limit[s]
                        /\ why[s][1] = "faults" => s = "client" /\ AtNodeEnd(typed[Len(typed)])
                        /\ why[s][1] # "throws"
      BY DEF RefusedForCause
    <2>1. s = "server" \/ s = "client"
      BY SidesAre
    <2> QED
      BY <2>1 DEF ExchangeInv, Causes, Last
  <1> QED
    BY ExchangeAlways, <1>1, PTL

LEMMA PrintedLess ==
    ASSUME ExchangeInv, typed = Append(printed, Last)
    PROVE  printed # typed
  <1> SUFFICES ASSUME printed = typed PROVE FALSE
    OBVIOUS
  <1>1. typed \in Seq(Texts)
    BY DEF ExchangeInv, Program
  <1>2. typed = Append(typed, Last) /\ Len(typed) \in Nat
    BY <1>1, LenProperties
  <1>3. Len(Append(typed, Last)) = Len(typed) + 1
    BY <1>1
  <1> QED
    BY <1>2, <1>3

LEMMA EchoStep == ExchangeInv /\ [Next]_vars => [Echo!Next]_(Echo!vars)
  <1> SUFFICES ASSUME ExchangeInv, [Next]_vars PROVE [Echo!Next]_(Echo!vars)
    OBVIOUS
  <1> DEFINE gone == client = "end"
             here == UNCHANGED <<typed, printed>>
  <1>1. here /\ (client' = client \/ client' = "end") => [Echo!Next]_(Echo!vars)
    BY DEF Echo!Next, Echo!End, Echo!vars
  <1>2. here /\ client # "end" /\ client' # "end" => [Echo!Next]_(Echo!vars)
    BY DEF Echo!vars
  <1>3. ASSUME NEW t \in Texts, Type(t) PROVE Echo!Type(t)
    BY <1>3 DEF Type, ExchangeInv, Turn, Echo!Type
  <1>4. CASE ClientParses
    <2>1. /\ client = "recv" /\ typed # <<>>
          /\ \/ doRecv.how = "ok" /\ doRecv.msg.type = RESPONSE /\ doRecv.msg.resultStr = Last
             \/ doRecv.how = "faults"
      BY <1>4, AnswerRead DEF ClientParses
    <2> DEFINE m == doRecv
    <2>2. /\ IF m.how = "ok"
             THEN /\ printed' = IF m.msg.type = RESPONSE THEN Append(printed, m.msg.resultStr)
                                ELSE printed
                  /\ client' = "type"
             ELSE UNCHANGED <<printed, client>>
          /\ UNCHANGED typed
      BY <1>4 DEF ClientParses
    <2> HIDE DEF m
    <2>3. CASE m.how = "ok"
      BY <2>1, <2>2, <2>3, PrintedLess DEF m, ExchangeInv, Turn, Echo!Show, Echo!Next
    <2>4. CASE m.how # "ok"
      BY <1>1, <2>2, <2>4
    <2> QED
      BY <2>3, <2>4
  <1>5. CASE Server \/ ServerTimesOut \/ ClientWrites \/ ClientReads
    BY <1>1, <1>5 DEF Server, ServerReads, ServerParses, ServerHandles, ServerWrites, ServerTimesOut,
       ClientWrites, ClientReads, mainVars
  <1>6. CASE BeginRecv
    BY <1>2, <1>6 DEF BeginRecv
  <1>7. CASE ClientDies \/ Exit
    BY <1>1, <1>7 DEF ClientDies, Exit
  <1>8. CASE \E t \in Texts : Type(t)
    BY <1>3, <1>8 DEF Echo!Next
  <1>9. CASE UNCHANGED vars
    BY <1>1, <1>9 DEF vars, mainVars
  <1> QED
    BY <1>4, <1>5, <1>6, <1>7, <1>8, <1>9 DEF Next, Client

(* The client prints what was typed, text by text and unchanged, until it ends. *)
THEOREM ImplementsEcho == Spec => Echoes
  <1>1. Init => Echo!Init
    BY DEF Init, Echo!Init
  <1>2. ExchangeInv /\ [Next]_vars => [Echo!Next]_(Echo!vars)
    BY EchoStep
  <1> QED
    BY ExchangeAlways, <1>1, <1>2, PTL DEF Spec, Echoes, Echo!Spec

-----------------------------------------------------------------------------
(* What is written is read back: the bytes of numbers in both orders, of   *)
(* varints and of strings, and of files.                                   *)

(* Exchanging the bytes twice. *)
LEMMA SwappedTwice ==
    ASSUME NEW s \in Seq(Byte)
    PROVE  /\ byteswap(s) \in Seq(Byte) /\ Len(byteswap(s)) = Len(s)
           /\ byteswap(byteswap(s)) = s
  <1> DEFINE n == Len(s)
             t == byteswap(s)
             u == byteswap(t)
  <1>0. n \in Nat /\ n = Len(s)
    BY LenProperties
  <1>1. t = [i \in 1..n |-> s[n + 1 - i]]
    BY DEF byteswap
  <1> HIDE DEF n
  <1>2. \A i \in 1..n : s[i] \in Byte /\ n + 1 - i \in 1..n /\ n + 1 - (n + 1 - i) = i
    BY <1>0, ElementOfSeq
  <1> HIDE DEF t
  <1>3. t \in [1..n -> Byte] /\ \A i \in 1..n : t[i] = s[n + 1 - i]
    BY <1>1, <1>2
  <1>4. t \in Seq(Byte) /\ Len(t) = n
    BY <1>0, <1>3
  <1>5. u = [i \in 1..n |-> t[n + 1 - i]]
    BY <1>4 DEF byteswap
  <1> HIDE DEF u
  <1>6. u \in [1..n -> Byte] /\ \A i \in 1..n : u[i] = s[i]
    BY <1>2, <1>3, <1>5
  <1>7. u \in Seq(Byte) /\ Len(u) = n
    BY <1>0, <1>6
  <1>8. u = s
    BY <1>0, <1>6, <1>7, SeqEqual
  <1> QED
    BY <1>0, <1>4, <1>8 DEF u, t

LEMMA OrderIs ==
    ASSUME NEW b, NEW c, b.little = c.little, NEW s \in Seq(Byte)
    PROVE  /\ InOrder(b, s) \in Seq(Byte) /\ Len(InOrder(b, s)) = Len(s)
           /\ InOrder(c, InOrder(b, s)) = s
  <1>1. CASE b.little
    BY <1>1, SwappedTwice DEF InOrder
  <1>2. CASE ~b.little
    BY <1>2 DEF InOrder
  <1> QED
    BY <1>1, <1>2

-----------------------------------------------------------------------------
(* Numbers with a sign: what k bytes hold, and their codes for varints.    *)
InRange(k, v) ==
    v \in Int /\ 2 * v < Power(Radix, k) /\ -(2 * v) <= Power(Radix, k)

LEMMA PowerEven ==
    ASSUME NEW k \in Nat \ {0}
    PROVE  \E h \in Nat \ {0} : Power(Radix, k) = 2 * h
  <1> DEFINE m == k - 1
             p == Power(Radix, m)
  <1>1. m \in Nat /\ m + 1 = k /\ Radix \in Nat \ {0}
    BY RadixIs
  <1> HIDE DEF m
  <1>2. p \in Nat \ {0} /\ Power(Radix, k) = Radix * p
    BY <1>1, PowerAbove
  <1> HIDE DEF p
  <1>3. PICK r \in 1..128 : Radix = 2 * r
    BY RadixAssumption
  <1>4. r * p \in Nat \ {0} /\ (2 * r) * p = 2 * (r * p)
    BY <1>2
  <1> QED
    BY <1>2, <1>3, <1>4

LEMMA Wrap ==
    ASSUME NEW p \in Nat \ {0}, NEW v \in Int, -p <= v, v < p
    PROVE  v % p = IF v < 0 THEN v + p ELSE v
  OBVIOUS

LEMMA SignedBack ==
    ASSUME NEW k \in Nat \ {0}, NEW v, InRange(k, v)
    PROVE  /\ Unsigned(k, v) \in Nat /\ Unsigned(k, v) < Power(Radix, k)
           /\ Signed(k, Unsigned(k, v)) = v
  <1> DEFINE p == Power(Radix, k)
  <1>1. PICK h \in Nat \ {0} : p = 2 * h
    BY PowerEven
  <1>2. v \in Int /\ v < h /\ -h <= v
    BY <1>1 DEF InRange
  <1>3. p \in Nat \ {0} /\ -p <= v /\ v < p
    BY <1>1, <1>2
  <1>4. Unsigned(k, v) = v % p /\ \A u : Signed(k, u) = IF 2 * u >= p THEN u - p ELSE u
    BY DEF Unsigned, Signed
  <1> HIDE DEF p
  <1>5. v % p = IF v < 0 THEN v + p ELSE v
    BY <1>2, <1>3, Wrap
  <1>6. CASE v < 0
    BY <1>1, <1>2, <1>4, <1>5, <1>6 DEF p
  <1>7. CASE ~(v < 0)
    BY <1>1, <1>2, <1>4, <1>5, <1>7 DEF p
  <1> QED
    BY <1>2, <1>6, <1>7

LEMMA ZigzagBack ==
    ASSUME NEW k \in Nat \ {0}, NEW v, InRange(k, v)
    PROVE  /\ EncodeZigzag(k, v) \in Nat /\ EncodeZigzag(k, v) < Power(Radix, k)
           /\ DecodeZigzag(k, EncodeZigzag(k, v)) = v
  <1> DEFINE p == Power(Radix, k)
             z == EncodeZigzag(k, v)
  <1>1. PICK h \in Nat \ {0} : p = 2 * h
    BY PowerEven
  <1>2. v \in Int /\ v < h /\ -h <= v
    BY <1>1 DEF InRange
  <1>3. \A u : Unsigned(k, u) = u % p
    BY DEF Unsigned
  <1>4. \A u : DecodeZigzag(k, u) = IF u % 2 = 0 THEN u \div 2 ELSE -(u \div 2) - 1
    BY DEF DecodeZigzag
  <1>5. z = IF v < 0 THEN Unsigned(k, Unsigned(k, -v) * 2 - 1) ELSE Unsigned(k, v * 2)
    BY DEF EncodeZigzag
  <1>p. p \in Nat \ {0}
    BY <1>1
  <1> HIDE DEF p, z
  <1>6. CASE v < 0
    <2> DEFINE n == -v
    <2>1. n \in Nat \ {0} /\ n <= h /\ v = -n
      BY <1>2, <1>6
    <2>2. n < p /\ -p <= n
      BY <1>1, <2>1
    <2> HIDE DEF n
    <2>3. n % p = n
      BY <1>p, <2>1, <2>2, Wrap
    <2> DEFINE y == n * 2 - 1
    <2>4. y \in Nat /\ y < p /\ -p <= y /\ ~(y < 0)
      BY <1>1, <2>1
    <2>5. z = y % p
      BY <1>3, <1>5, <1>6, <2>3 DEF n
    <2>6. y % 2 = 1 /\ y \div 2 = n - 1
      BY <2>1
    <2> HIDE DEF y
    <2>7. z = y
      BY <1>p, <2>4, <2>5, Wrap
    <2>8. DecodeZigzag(k, z) = -(n - 1) - 1
      BY <1>4, <2>6, <2>7
    <2> QED
      BY <2>1, <2>4, <2>7, <2>8 DEF z, p
  <1>7. CASE ~(v < 0)
    <2> DEFINE y == v * 2
    <2>1. v \in Nat /\ y \in Nat /\ y < p /\ -p <= y /\ ~(y < 0)
      BY <1>1, <1>2, <1>7
    <2>2. y % 2 = 0 /\ y \div 2 = v
      BY <2>1
    <2>3. z = y % p
      BY <1>3, <1>5, <1>7
    <2> HIDE DEF y
    <2>4. z = y
      BY <1>p, <2>1, <2>3, Wrap
    <2>5. DecodeZigzag(k, z) = v
      BY <1>4, <2>2, <2>4
    <2> QED
      BY <2>1, <2>4, <2>5 DEF z, p
  <1> QED
    BY <1>6, <1>7
-----------------------------------------------------------------------------
(* Reading at a position what has been written there, in both orders.      *)

(* b is the array c with its position at q. *)
Stands(b, c, q) ==
    /\ Sound(b) /\ b.position = q
    /\ b.data = c.data /\ b.size = c.size /\ b.capacity = c.capacity /\ b.little = c.little

(* c holds s behind its first p bytes. *)
Lies(c, p, s) ==
    /\ Sound(c) /\ s \in Seq(Cell) /\ p \in Nat /\ p + Len(s) <= c.size
    /\ \A i \in 1..Len(s) : c.data[p + i] = s[i]

LEMMA MovedTo ==
    ASSUME NEW c, Sound(c), NEW q \in Nat, q <= c.size
    PROVE  Stands(setPosition(c, q).ba, c, q)
  <1> DEFINE t == To(c, q)
  <1>1. c.size \in Nat /\ c.capacity \in Nat /\ c.size <= c.capacity
    BY DEF Sound, ArrayType
  <1>2. q <= c.capacity /\ ~(q > c.size)
    BY <1>1
  <1>3. setPosition(c, q).ba = t
    BY <1>2, SetPositionIs
  <1>4. /\ Sound(t) /\ t.position = q /\ t.little = c.little
        /\ t.size = (IF q > c.size THEN q ELSE c.size)
        /\ t.data = c.data /\ t.capacity = c.capacity
    BY <1>2, ToIs
  <1> HIDE DEF t
  <1>5. t.size = c.size
    BY <1>2, <1>4
  <1> QED
    BY <1>3, <1>4, <1>5 DEF Stands

LEMMA LiesWhereWritten ==
    ASSUME NEW b, Sound(b), NEW s \in Seq(Cell)
    PROVE  LET w == write(b, s) IN
           /\ Lies(w, b.position, s) /\ w.position = b.position + Len(s)
           /\ w.little = b.little /\ Sound(w)
  <1> DEFINE w == write(b, s)
             p == b.position
             n == Len(s)
  <1>1. /\ Sound(w) /\ w.little = b.little /\ w.position = p + n
        /\ w.size = (IF p + n > b.size THEN p + n ELSE b.size)
        /\ \A i \in 1..w.size : w.data[i] =
              IF i > p /\ i <= p + n THEN s[i - p] ELSE b.data[i]
    BY WriteIs
  <1>2. p \in Nat /\ n \in Nat /\ b.size \in Nat
    BY LenProperties DEF Sound, ArrayType
  <1> HIDE DEF w
  <1>n. n = Len(s)
    OBVIOUS
  <1> HIDE DEF n, p
  <1>3. p + n <= w.size /\ w.size \in Nat
    BY <1>1, <1>2
  <1>4. ASSUME NEW i \in 1..n PROVE w.data[p + i] = s[i]
    <2>1. p + i \in 1..w.size /\ p + i > p /\ p + i <= p + n /\ (p + i) - p = i
      BY <1>2, <1>3
    <2> QED
      BY <1>1, <2>1
  <1>5. Lies(w, p, s)
    BY <1>1, <1>2, <1>3, <1>4, <1>n DEF Lies
  <1> QED
    BY <1>1, <1>5 DEF w, p, n

(* What lies before the position is not touched by a write. *)
LEMMA LiesStill ==
    ASSUME NEW b, NEW p, NEW x, Lies(b, p, x), p + Len(x) <= b.position, NEW s \in Seq(Cell)
    PROVE  Lies(write(b, s), p, x)
  <1> DEFINE w == write(b, s)
             q == b.position
             n == Len(s)
             m == Len(x)
  <1>0. Sound(b) /\ x \in Seq(Cell) /\ p \in Nat /\ \A i \in 1..m : b.data[p + i] = x[i]
    BY DEF Lies
  <1>1. /\ Sound(w)
        /\ w.size = (IF q + n > b.size THEN q + n ELSE b.size)
        /\ \A i \in 1..w.size : w.data[i] =
              IF i > q /\ i <= q + n THEN s[i - q] ELSE b.data[i]
    BY <1>0, WriteIs
  <1>2. q \in Nat /\ n \in Nat /\ m \in Nat /\ b.size \in Nat /\ q <= b.size /\ p + m <= q
    BY <1>0, LenProperties DEF Sound, ArrayType
  <1>m. m = Len(x)
    OBVIOUS
  <1> HIDE DEF w, n, q, m
  <1>3. p + m <= w.size /\ q <= w.size /\ w.size \in Nat
    BY <1>0, <1>1, <1>2
  <1>4. ASSUME NEW i \in 1..m PROVE w.data[p + i] = x[i]
    <2>1. p + i \in 1..w.size /\ ~(p + i > q)
      BY <1>0, <1>2, <1>3
    <2> QED
      BY <1>0, <1>1, <2>1
  <1>5. Lies(w, p, x)
    BY <1>0, <1>1, <1>3, <1>4, <1>m DEF Lies
  <1> QED
    BY <1>5 DEF w

(* The next n bytes, from the a-th on of what lies there. *)
LEMMA ReadThere ==
    ASSUME NEW b, NEW c, NEW p, NEW s, Lies(c, p, s), NEW a \in Nat, Stands(b, c, p + a),
           NEW n \in Nat \ {0}, a + n <= Len(s)
    PROVE  /\ read(b, n).how = "ok" /\ read(b, n).out = SubSeq(s, a + 1, a + n)
           /\ Stands(read(b, n).ba, c, p + (a + n))
  <1> DEFINE q == p + a
             y == SubSeq(b.data, q + 1, q + n)
             z == SubSeq(s, a + 1, a + n)
             t == To(b, q + n)
  <1>0. /\ Sound(b) /\ b.position = q /\ b.data = c.data /\ b.size = c.size
        /\ b.capacity = c.capacity /\ b.little = c.little
    BY DEF Stands
  <1>1. /\ Sound(c) /\ s \in Seq(Cell) /\ p \in Nat /\ p + Len(s) <= c.size
        /\ \A i \in 1..Len(s) : c.data[p + i] = s[i]
    BY DEF Lies
  <1>2. /\ c.size \in Nat /\ c.capacity \in Nat /\ c.size <= c.capacity /\ Len(s) \in Nat
    BY <1>1, LenProperties DEF Sound, ArrayType
  <1>3. /\ q \in Nat /\ q + n <= b.size /\ n <= b.size - q /\ q < b.capacity
        /\ q + n \in Nat /\ q + n <= b.capacity /\ q + n = p + (a + n) /\ q = p + a
        /\ ~(q + n > b.size)
    BY <1>0, <1>1, <1>2
  <1>4. read(b, n) = [how |-> "ok", ba |-> t, out |-> y]
    BY <1>0, <1>3, ReadIs
  <1>5. y \in Seq(Cell) /\ Len(y) = n /\ \A i \in 1..n : y[i] = b.data[q + i]
    <2> HIDE DEF q, y
    <2>1. q + n <= b.size /\ q \in Nat /\ Sound(b) /\ n \in Nat
      BY <1>0, <1>3
    <2>2. LET u == SubSeq(b.data, q + 1, q + n) IN
          u \in Seq(Cell) /\ Len(u) = n /\ \A i \in 1..n : u[i] = b.data[q + i]
      BY <2>1, SliceIs
    <2> QED
      BY <2>2 DEF y
  <1>6. z \in Seq(Cell) /\ Len(z) = n /\ \A i \in 1..n : z[i] = s[a + i]
    BY <1>1, Stretch
  <1>7. /\ Sound(t) /\ t.position = q + n /\ t.little = b.little
        /\ t.size = (IF q + n > b.size THEN q + n ELSE b.size)
        /\ t.data = b.data /\ t.capacity = b.capacity
    BY <1>0, <1>3, ToIs
  <1> HIDE DEF t, y, z, q
  <1>8. \A i \in 1..n : y[i] = z[i]
    <2> SUFFICES ASSUME NEW i \in 1..n PROVE y[i] = z[i]
      OBVIOUS
    <2>1. a + i \in 1..Len(s) /\ q + i = p + (a + i)
      <3> DEFINE m == Len(s)
      <3>1. m \in Nat /\ a + n <= m /\ p \in Nat /\ q = p + a
        BY <1>1, <1>2, <1>3
      <3> HIDE DEF m
      <3>2. a + i \in 1..m /\ q + i = p + (a + i)
        BY <3>1
      <3> QED
        BY <3>2 DEF m
    <2>2. c.data[p + (a + i)] = s[a + i]
      BY <1>1, <2>1
    <2> QED
      BY <1>0, <1>5, <1>6, <2>1, <2>2
  <1>9. y = z
    BY <1>5, <1>6, <1>8, SeqEqual
  <1>10. t.size = c.size
    BY <1>0, <1>3, <1>7
  <1>11. Stands(t, c, p + (a + n))
    BY <1>0, <1>3, <1>7, <1>10 DEF Stands
  <1>12. read(b, n).how = "ok" /\ read(b, n).out = y /\ read(b, n).ba = t
    BY <1>4
  <1> QED
    BY <1>9, <1>11, <1>12 DEF z

(* All of it at once. *)
LEMMA ReadAllThere ==
    ASSUME NEW b, NEW c, NEW p, NEW s, Lies(c, p, s), Stands(b, c, p), s # <<>>
    PROVE  /\ read(b, Len(s)).how = "ok" /\ read(b, Len(s)).out = s
           /\ Stands(read(b, Len(s)).ba, c, p + Len(s))
  <1> DEFINE a == 0
             n == Len(s)
  <1>1. s \in Seq(Cell) /\ p \in Nat
    BY DEF Lies
  <1>2. n \in Nat \ {0} /\ a \in Nat /\ a + n <= Len(s) /\ p + a = p /\ a + n = n /\ a + 1 = 1
    BY <1>1, EmptySeq, LenProperties
  <1>3. Stands(b, c, p + a)
    BY <1>2
  <1>n. n = Len(s)
    OBVIOUS
  <1> HIDE DEF a, n
  <1>4. /\ read(b, n).how = "ok" /\ read(b, n).out = SubSeq(s, a + 1, a + n)
        /\ Stands(read(b, n).ba, c, p + (a + n))
    BY <1>2, <1>3, ReadThere
  <1>5. SubSeq(s, 1, n) = s
    BY <1>1, <1>n, SubSeqFull
  <1> QED
    BY <1>2, <1>4, <1>5 DEF n

(* A number of k bytes. *)
LEMMA FixedThere ==
    ASSUME NEW b, NEW c, NEW d, NEW p, NEW k \in Nat \ {0}, NEW v \in Nat, v < Power(Radix, k),
           d.little = c.little, Lies(c, p, InOrder(d, InMemory(k, v))), Stands(b, c, p)
    PROVE  /\ readFixed(b, k).how = "ok" /\ readFixed(b, k).out = v
           /\ Stands(readFixed(b, k).ba, c, p + k)
  <1> DEFINE s == InMemory(k, v)
             x == InOrder(d, s)
             r == read(b, k)
  <1>1. s \in Seq(Byte) /\ Len(s) = k /\ FromMemory(s) = v
    BY MemoryIs
  <1>2. d.little = b.little
    BY DEF Stands
  <1> HIDE DEF s
  <1>3. x \in Seq(Byte) /\ Len(x) = k /\ InOrder(b, x) = s
    BY <1>1, <1>2, OrderIs
  <1>4. Lies(c, p, x)
    BY DEF s
  <1> HIDE DEF x
  <1>5. x # <<>>
    BY <1>3, EmptySeq
  <1>6. r.how = "ok" /\ r.out = x /\ Stands(r.ba, c, p + k)
    BY <1>3, <1>4, <1>5, ReadAllThere
  <1>7. readFixed(b, k) = [r EXCEPT !.out = FromMemory(InOrder(b, r.out))]
    BY <1>6 DEF readFixed
  <1>8. Reads(r)
    BY ReadReads
  <1> HIDE DEF r
  <1>9. r = [how |-> r.how, ba |-> r.ba, out |-> r.out]
    BY <1>8 DEF Reads
  <1>10. /\ readFixed(b, k).how = r.how /\ readFixed(b, k).ba = r.ba
         /\ readFixed(b, k).out = FromMemory(InOrder(b, r.out))
    BY <1>7, <1>9
  <1> QED
    BY <1>1, <1>3, <1>6, <1>10

-----------------------------------------------------------------------------
(* Varints: groups of all bits of a byte but one.                          *)

LEMMA HalfIs ==
    ASSUME Radix > 2
    PROVE  Half \in Nat /\ Half >= 2 /\ Radix = 2 * Half /\ Half \in Nat \ {0}
  <1>1. PICK r \in 1..128 : Radix = 2 * r
    BY RadixAssumption
  <1>2. Half = r
    BY <1>1 DEF Half
  <1> QED
    BY <1>1, <1>2

(* As many bytes as twice the groups are enough. *)
LEMMA HalfPower ==
    ASSUME Radix > 2, NEW k \in Nat
    PROVE  Power(Radix, k) <= Power(Half, 2 * k)
  <1> DEFINE T == {i \in 0..k : Power(Radix, i) <= Power(Half, 2 * i)}
  <1>0. /\ Radix \in Nat \ {0} /\ Half \in Nat \ {0} /\ Radix = 2 * Half /\ Half >= 2
    BY HalfIs, RadixIs
  <1>r. \A i \in Nat : Power(Radix, i) \in Nat \ {0} /\ Power(Radix, i + 1) = Radix * Power(Radix, i)
    BY <1>0, PowerAbove
  <1>h. \A i \in Nat : Power(Half, i) \in Nat \ {0} /\ Power(Half, i + 1) = Half * Power(Half, i)
    BY <1>0, PowerAbove
  <1>1. 0 \in T
    BY <1>0, PowerNext
  <1>2. ASSUME NEW i \in 0..(k - 1), i \in T PROVE i + 1 \in T
    <2> DEFINE j == 2 * i
               p == Power(Radix, i)
               q == Power(Half, j)
    <2>1. i \in Nat /\ j \in Nat /\ 2 * (i + 1) = (j + 1) + 1 /\ i + 1 \in 0..k
      OBVIOUS
    <2>2. p <= q
      BY <1>2
    <2>3. p \in Nat \ {0} /\ Power(Radix, i + 1) = Radix * p
      BY <1>r, <2>1
    <2> HIDE DEF j
    <2>4. q \in Nat \ {0} /\ Power(Half, j + 1) = Half * q
      BY <1>h, <2>1
    <2>5. Power(Half, (j + 1) + 1) = Half * (Half * q)
      BY <1>h, <2>1, <2>4
    <2> HIDE DEF p, q
    <2>6. Radix * p <= Half * (Half * q)
      <3>1. Radix * p <= Radix * q
        BY <1>0, <2>2, <2>3, <2>4
      <3> DEFINE z == Half * q
      <3>2. z \in Nat /\ Radix * q = 2 * z
        BY <1>0, <2>4
      <3> HIDE DEF z
      <3>3. 2 * z <= Half * z
        BY <1>0, <3>2
      <3>4. Radix * p \in Nat /\ Half * z \in Nat
        BY <1>0, <2>3, <3>2
      <3>5. Radix * p <= Half * z
        BY <3>1, <3>2, <3>3, <3>4
      <3> QED
        BY <3>5 DEF z
    <2>7. Power(Radix, i + 1) <= Power(Half, (j + 1) + 1)
      BY <2>3, <2>5, <2>6
    <2> QED
      BY <2>1, <2>7
  <1> HIDE DEF T
  <1>3. \A i \in 0..k : i \in T
    BY <1>1, <1>2, UpTo
  <1>4. k \in 0..k
    OBVIOUS
  <1> QED
    BY <1>3, <1>4 DEF T

(* The number of groups that a number needs, and the most of k bytes. *)
Groups(v, m) == v < Power(Half, m) /\ (m = 1 \/ v >= Power(Half, m - 1))
Limit(k, m) == Power(Half, m) >= Power(Radix, k) /\ Power(Half, m - 1) < Power(Radix, k)

LEMMA SomeGroups ==
    ASSUME Radix > 2, NEW k \in 1..8, NEW v \in Nat, v < Power(Radix, k)
    PROVE  \E m \in 1..30 : Groups(v, m)
  <1> DEFINE T == {m \in Nat \ {0} : v < Power(Half, m)}
             n == 2 * k
  <1>0. Half \in Nat \ {0} /\ Radix \in Nat \ {0} /\ k \in Nat /\ n \in Nat \ {0} /\ n <= 16
    BY HalfIs, RadixIs
  <1>1. n \in T
    BY <1>0, HalfPower, PowerAbove
  <1> HIDE DEF n
  <1>2. T \subseteq Nat /\ T # {}
    BY <1>1
  <1>3. PICK m \in T : \A i \in T : m <= i
    <2> HIDE DEF T
    <2> QED
      BY <1>2, Least
  <1>4. m \in 1..30 /\ v < Power(Half, m)
    BY <1>0, <1>1, <1>3
  <1>5. m = 1 \/ v >= Power(Half, m - 1)
    <2> SUFFICES ASSUME m # 1 PROVE v >= Power(Half, m - 1)
      OBVIOUS
    <2> DEFINE j == m - 1
    <2>1. j \in Nat \ {0} /\ ~(m <= j)
      BY <1>4
    <2>2. Power(Half, j) \in Nat
      BY <1>0, <2>1, PowerAbove
    <2>3. ~(v < Power(Half, j))
      BY <1>3, <2>1
    <2> QED
      BY <2>2, <2>3
  <1> QED
    BY <1>4, <1>5 DEF Groups

LEMMA SomeLimit ==
    ASSUME Radix > 2, NEW k \in 1..8
    PROVE  \E m \in 1..30 : Limit(k, m)
  <1> DEFINE T == {m \in Nat : Power(Half, m) >= Power(Radix, k)}
             n == 2 * k
  <1>0. Half \in Nat \ {0} /\ Radix \in Nat \ {0} /\ k \in Nat /\ n \in Nat \ {0} /\ n <= 16
    BY HalfIs, RadixIs
  <1>p. Power(Radix, k) \in Nat /\ \A i \in Nat : Power(Half, i) \in Nat
    BY <1>0, PowerAbove
  <1>1. n \in T
    BY <1>0, HalfPower, <1>p
  <1> HIDE DEF n
  <1>2. T \subseteq Nat /\ T # {}
    BY <1>1
  <1>3. PICK m \in T : \A i \in T : m <= i
    <2> HIDE DEF T
    <2> QED
      BY <1>2, Least
  <1>4. m \in Nat /\ m <= 16 /\ Power(Half, m) >= Power(Radix, k)
    BY <1>0, <1>1, <1>3
  <1>5. m # 0
    <2>1. Power(Half, 0) = 1 /\ Power(Radix, 0) = 1
      BY <1>0, PowerNext
    <2>2. Power(Radix, 1) <= Power(Radix, k)
      BY <1>0, PowerGrows
    <2>3. Power(Radix, 1) = Radix
      <3> DEFINE z == 0
      <3>1. z \in Nat /\ Power(Radix, z) = 1 /\ z + 1 = 1
        BY <2>1
      <3> HIDE DEF z
      <3>2. Power(Radix, z + 1) = Radix * Power(Radix, z)
        BY <1>0, <3>1, PowerAbove
      <3> QED
        BY <1>0, <3>1, <3>2
    <2>5. Power(Radix, k) > 1
      BY <1>0, <1>p, <2>2, <2>3
    <2> SUFFICES ASSUME m = 0 PROVE FALSE
      OBVIOUS
    <2>6. 1 >= Power(Radix, k)
      BY <1>4, <2>1
    <2> QED
      BY <1>p, <2>5, <2>6
  <1>6. m \in 1..30
    BY <1>4, <1>5
  <1>7. Power(Half, m - 1) < Power(Radix, k)
    <2> DEFINE j == m - 1
    <2>1. j \in Nat /\ ~(m <= j)
      BY <1>6
    <2>2. ~(Power(Half, j) >= Power(Radix, k))
      BY <1>3, <2>1
    <2> QED
      BY <1>p, <2>1, <2>2
  <1> QED
    BY <1>4, <1>6, <1>7 DEF Limit

(* The bytes of a varint. *)
IsVarint(x, n, v) ==
    /\ n \in 1..30 /\ Groups(v, n)
    /\ x \in Seq(Byte) /\ Len(x) = n
    /\ \A i \in 1..n : /\ x[i] % Half = Digits(Half, n, v)[i]
                       /\ i < n => ~(x[i] < Half)
                       /\ i = n => x[i] < Half

LEMMA VarintIs ==
    ASSUME Radix > 2, NEW k \in 1..8, NEW v \in Nat, v < Power(Radix, k)
    PROVE  \E n : IsVarint(Varint(v), n, v)
  <1> DEFINE n == CHOOSE m \in 1..30 : Groups(v, m)
             d == Digits(Half, n, v)
             x == [i \in 1..n |-> ((v \div Power(Half, i - 1)) % Half) + (IF i < n THEN Half ELSE 0)]
  <1>0. Half \in Nat \ {0} /\ Radix = 2 * Half
    BY HalfIs
  <1>1. n \in 1..30 /\ Groups(v, n)
    BY SomeGroups
  <1>2. Varint(v) = x
    BY DEF Varint, Groups
  <1> HIDE DEF n
  <1>3. /\ d \in Seq(0..(Half - 1)) /\ Len(d) = n
        /\ \A i \in 1..n : d[i] = (v \div Power(Half, i - 1)) % Half
    <2>1. n \in Nat
      BY <1>1
    <2> QED
      BY <1>0, <2>1, DigitsType
  <1> HIDE DEF d
  <1>4. \A i \in 1..n : d[i] \in 0..(Half - 1)
    <2> DEFINE D == 0..(Half - 1)
    <2>1. d \in Seq(D) /\ Len(d) = n
      BY <1>3
    <2> HIDE DEF D
    <2>2. \A i \in 1..n : d[i] \in D
      BY <2>1, ElementOfSeq
    <2> QED
      BY <2>2 DEF D
  <1>5. \A i \in 1..n : x[i] = d[i] + (IF i < n THEN Half ELSE 0)
    BY <1>3
  <1>6. x = [i \in 1..n |-> x[i]]
    OBVIOUS
  <1> HIDE DEF x
  <1>7. ASSUME NEW i \in 1..n
        PROVE  /\ x[i] \in Byte /\ x[i] % Half = d[i]
               /\ i < n => ~(x[i] < Half)
               /\ i = n => x[i] < Half
    <2> DEFINE e == d[i]
    <2>1. e \in 0..(Half - 1)
      BY <1>4
    <2>2. x[i] = e + (IF i < n THEN Half ELSE 0)
      BY <1>5
    <2> HIDE DEF e
    <2>3. CASE i < n
      <3> DEFINE q == 1
      <3>0. q \in Nat /\ q = 1
        OBVIOUS
      <3>1. x[i] = Half * q + e /\ ~(x[i] < Half) /\ x[i] \in 0..(Radix - 1)
        BY <1>0, <2>1, <2>2, <2>3
      <3>2. x[i] % Half = e
        <4> HIDE DEF q
        <4>1. e \in Nat /\ e < Half
          BY <1>0, <2>1
        <4>2. (Half * q + e) % Half = e
          BY <1>0, <3>0, <4>1, Remainder
        <4> QED
          BY <3>1, <4>2
      <3> QED
        BY <1>1, <2>3, <3>1, <3>2 DEF Byte, e
    <2>4. CASE ~(i < n)
      <3> DEFINE q == 0
      <3>0. q \in Nat /\ q = 0
        OBVIOUS
      <3>1. x[i] = Half * q + e /\ x[i] < Half /\ x[i] \in 0..(Radix - 1)
        BY <1>0, <2>1, <2>2, <2>4
      <3>2. x[i] % Half = e
        <4> HIDE DEF q
        <4>1. e \in Nat /\ e < Half
          BY <1>0, <2>1
        <4>2. (Half * q + e) % Half = e
          BY <1>0, <3>0, <4>1, Remainder
        <4> QED
          BY <3>1, <4>2
      <3> QED
        BY <2>4, <3>1, <3>2 DEF Byte, e
    <2> QED
      BY <2>3, <2>4
  <1>8. x \in Seq(Byte) /\ Len(x) = n
    <2>1. x \in [1..n -> Byte]
      BY <1>6, <1>7
    <2>2. n \in Nat
      BY <1>1
    <2> QED
      BY <2>1, <2>2
  <1>9. IsVarint(x, n, v)
    BY <1>1, <1>7, <1>8 DEF IsVarint, d
  <1> QED
    BY <1>2, <1>9 DEF x

-----------------------------------------------------------------------------
LEMMA ToTo ==
    ASSUME NEW b, Sound(b), NEW q \in Nat, q <= b.size, NEW r \in Nat, r <= b.size
    PROVE  To(To(b, q), r) = To(b, r)
  <1>1. /\ b = [position |-> b.position, capacity |-> b.capacity, size |-> b.size,
                cur |-> b.cur, little |-> b.little, data |-> b.data]
        /\ b.size \in Nat
    BY DEF Sound, ArrayType
  <1> DEFINE m(v) == [position |-> v, capacity |-> b.capacity, size |-> b.size,
                      cur |-> NodeOf(v, b.capacity), little |-> b.little, data |-> b.data]
  <1>2. ~(q > b.size) /\ ~(r > b.size)
    BY <1>1
  <1>3. To(b, q) = m(q) /\ To(b, r) = m(r)
    <2> DEFINE u == NodeOf(q, b.capacity)
               w == NodeOf(r, b.capacity)
    <2>1. /\ To(b, q) = [b EXCEPT !.position = q, !.size = b.size, !.cur = u]
          /\ To(b, r) = [b EXCEPT !.position = r, !.size = b.size, !.cur = w]
      BY <1>2 DEF To
    <2> HIDE DEF u, w
    <2> QED
      BY <1>1, <2>1 DEF u, w
  <1>4. To(m(q), r) = m(r)
    <2> DEFINE u == NodeOf(q, b.capacity)
               w == NodeOf(r, b.capacity)
               y == m(q)
    <2>1. /\ y.size = b.size /\ y.capacity = b.capacity
          /\ y = [position |-> q, capacity |-> b.capacity, size |-> b.size,
                  cur |-> u, little |-> b.little, data |-> b.data]
      OBVIOUS
    <2> HIDE DEF u, y
    <2>2. To(y, r) = [y EXCEPT !.position = r, !.size = b.size, !.cur = w]
      BY <1>2, <2>1 DEF To
    <2> HIDE DEF w
    <2> QED
      BY <2>1, <2>2 DEF w, y
  <1> HIDE DEF m
  <1> QED
    BY <1>3, <1>4

LEMMA StandsAt ==
    ASSUME NEW b, NEW c, NEW p, Stands(b, c, p), NEW q \in Nat, q <= c.size
    PROVE  Stands(To(b, q), c, q)
  <1> DEFINE t == To(b, q)
  <1>0. /\ Sound(b) /\ b.data = c.data /\ b.size = c.size /\ b.capacity = c.capacity
        /\ b.little = c.little
    BY DEF Stands
  <1>1. b.size \in Nat /\ b.capacity \in Nat /\ b.size <= b.capacity
    BY <1>0 DEF Sound, ArrayType
  <1>2. q <= b.capacity /\ ~(q > b.size)
    BY <1>0, <1>1
  <1>3. /\ Sound(t) /\ t.position = q /\ t.little = b.little
        /\ t.size = (IF q > b.size THEN q ELSE b.size)
        /\ t.data = b.data /\ t.capacity = b.capacity
    BY <1>0, <1>2, ToIs
  <1> HIDE DEF t
  <1>4. Stands(t, c, q)
    BY <1>0, <1>2, <1>3 DEF Stands
  <1> QED
    BY <1>4 DEF t

(* One byte more. *)
LEMMA OneThere ==
    ASSUME NEW b, NEW c, NEW p, NEW x, Lies(c, p, x), NEW a \in Nat, Stands(b, c, p + a),
           a + 1 <= Len(x)
    PROVE  /\ read(b, 1) = [how |-> "ok", ba |-> To(b, p + (a + 1)), out |-> <<x[a + 1]>>]
           /\ x[a + 1] \in Cell
  <1> DEFINE q == p + a
             n == 1
             y == SubSeq(b.data, q + 1, q + n)
             z == <<x[a + 1]>>
  <1>0. /\ Sound(b) /\ b.position = q /\ b.data = c.data /\ b.size = c.size
        /\ b.capacity = c.capacity
    BY DEF Stands
  <1>1. /\ Sound(c) /\ x \in Seq(Cell) /\ p \in Nat /\ p + Len(x) <= c.size
        /\ \A i \in 1..Len(x) : c.data[p + i] = x[i]
    BY DEF Lies
  <1>2. /\ c.size \in Nat /\ c.capacity \in Nat /\ c.size <= c.capacity /\ Len(x) \in Nat
    BY <1>1, LenProperties DEF Sound, ArrayType
  <1>3. /\ q \in Nat /\ q + n <= b.size /\ n <= b.size - q /\ q < b.capacity
        /\ q + n = p + (a + 1) /\ n \in Nat /\ n = 1 /\ q + 1 = p + (a + 1)
    BY <1>0, <1>1, <1>2
  <1>4. a + 1 \in 1..Len(x)
    BY <1>2
  <1>5. x[a + 1] \in Cell /\ c.data[p + (a + 1)] = x[a + 1]
    BY <1>1, <1>4, ElementOfSeq
  <1> HIDE DEF n, q
  <1>6. read(b, n) = [how |-> "ok", ba |-> To(b, q + n), out |-> y]
    BY <1>0, <1>3, ReadIs
  <1>7. y \in Seq(Cell) /\ Len(y) = n /\ \A i \in 1..n : y[i] = b.data[q + i]
    BY <1>0, <1>3, SliceIs
  <1> HIDE DEF y
  <1>8. y[1] = x[a + 1]
    BY <1>3, <1>7, <1>0, <1>5
  <1>9. z \in Seq(Cell) /\ Len(z) = 1 /\ z[1] = x[a + 1]
    <2> DEFINE e == x[a + 1]
    <2>1. e \in Cell
      BY <1>5
    <2> HIDE DEF e
    <2>2. <<e>> \in Seq(Cell) /\ Len(<<e>>) = 1 /\ <<e>>[1] = e
      BY <2>1, One
    <2> QED
      BY <2>2 DEF e
  <1> HIDE DEF z
  <1>10. y = z
    <2>1. \A i \in 1..Len(y) : y[i] = z[i]
      BY <1>3, <1>7, <1>8, <1>9
    <2> QED
      BY <1>3, <1>7, <1>9, <2>1, SeqEqual
  <1> QED
    BY <1>3, <1>5, <1>6, <1>10 DEF z

(* What has been read after i steps of the loop of readUint32, readUint64. *)
Loop(b, x, i) ==
    LET j == AtMost(i, Len(x)) IN
    [how |-> "ok", ba |-> To(b, b.position + j), out |-> SubSeq(x, 1, j)]

Another(r) ==
    IF r.how # "ok" \/ r.out[Len(r.out)] < Half THEN r
    ELSE LET q == read(r.ba, 1) IN [q EXCEPT !.out = r.out \o @]

LEMMA LoopBefore ==
    ASSUME NEW b, NEW p, b.position = p, NEW x, NEW i \in Nat, Len(x) \in Nat, i <= Len(x)
    PROVE  Loop(b, x, i) = [how |-> "ok", ba |-> To(b, p + i), out |-> SubSeq(x, 1, i)]
  BY DEF AtMost, Loop

LEMMA LoopAfter ==
    ASSUME NEW b, NEW p, b.position = p, NEW x, NEW i \in Nat, Len(x) \in Nat, i >= Len(x)
    PROVE  Loop(b, x, i) = [how |-> "ok", ba |-> To(b, p + Len(x)), out |-> SubSeq(x, 1, Len(x))]
  BY DEF AtMost, Loop

LEMMA LoopNext ==
    ASSUME Radix > 2, NEW b, NEW c, NEW p, NEW x, NEW n, NEW v, IsVarint(x, n, v),
           Lies(c, p, x), Stands(b, c, p), NEW i \in Nat \ {0}
    PROVE  Another(Loop(b, x, i)) = Loop(b, x, i + 1)
  <1>0. /\ n \in Nat \ {0} /\ Len(x) = n /\ x \in Seq(Byte)
        /\ \A j \in 1..n : (j < n => ~(x[j] < Half)) /\ (j = n => x[j] < Half)
    BY DEF IsVarint
  <1>1. b.position = p /\ p \in Nat /\ p + n <= c.size /\ Sound(b) /\ b.size = c.size
        /\ c.size \in Nat
    BY <1>0 DEF Stands, Lies, Sound, ArrayType
  <1>2. CASE i < n
    <2> DEFINE s == SubSeq(x, 1, i)
               r == [how |-> "ok", ba |-> To(b, p + i), out |-> s]
               q == read(To(b, p + i), 1)
    <2>1. i \in Nat /\ i + 1 \in Nat /\ i <= n /\ i + 1 <= n /\ n \in Nat
      BY <1>0, <1>2
    <2>2. Loop(b, x, i) = r
      <3> HIDE DEF r
      <3>1. Loop(b, x, i) = [how |-> "ok", ba |-> To(b, p + i), out |-> SubSeq(x, 1, i)]
        BY <1>0, <1>1, <2>1, LoopBefore
      <3> QED
        BY <3>1 DEF r
    <2>3. Loop(b, x, i + 1) = [how |-> "ok", ba |-> To(b, p + (i + 1)),
                               out |-> SubSeq(x, 1, i + 1)]
      <3> DEFINE m == i + 1
      <3>1. m \in Nat /\ m <= Len(x) /\ Len(x) \in Nat
        BY <1>0, <2>1
      <3> HIDE DEF m
      <3>2. Loop(b, x, m) = [how |-> "ok", ba |-> To(b, p + m), out |-> SubSeq(x, 1, m)]
        BY <1>1, <3>1, LoopBefore
      <3> QED
        BY <3>2 DEF m
    <2>4. s \in Seq(Byte) /\ Len(s) = i /\ s[i] = x[i]
      <3>1. s \in Seq(Byte) /\ Len(s) = i /\ \A j \in 1..i : s[j] = x[1 + j - 1]
        BY <1>0, <2>1, FrontIs
      <3> HIDE DEF s
      <3>2. i \in 1..i /\ 1 + i - 1 = i
        BY <2>1
      <3> QED
        BY <3>1, <3>2
    <2>5. ~(s[i] < Half)
      BY <1>2, <2>1, <1>0, <2>4
    <2> HIDE DEF s
    <2>6. r.how = "ok" /\ r.out = s /\ r.ba = To(b, p + i)
      OBVIOUS
    <2>7. Another(r) = [q EXCEPT !.out = s \o q.out]
      <3> HIDE DEF r
      <3>1. r.out[Len(r.out)] = s[i]
        BY <2>4, <2>6
      <3> QED
        BY <2>5, <2>6, <3>1 DEF Another
    <2>8. Stands(To(b, p + i), c, p + i)
      BY <1>1, <2>1, StandsAt
    <2>9. q = [how |-> "ok", ba |-> To(To(b, p + i), p + (i + 1)), out |-> <<x[i + 1]>>]
      BY <1>0, <2>1, <2>8, OneThere
    <2>10. To(To(b, p + i), p + (i + 1)) = To(b, p + (i + 1))
      <3> DEFINE y == p + i
                 z == p + (i + 1)
      <3>1. y \in Nat /\ z \in Nat /\ y <= b.size /\ z <= b.size
        BY <1>1, <2>1
      <3> HIDE DEF y, z
      <3>2. To(To(b, y), z) = To(b, z)
        BY <1>1, <3>1, ToTo
      <3> QED
        BY <3>2 DEF y, z
    <2> HIDE DEF q
    <2>11. [q EXCEPT !.out = s \o q.out]
             = [how |-> "ok", ba |-> To(b, p + (i + 1)), out |-> s \o <<x[i + 1]>>]
      <3> DEFINE t == To(b, p + (i + 1))
                 y == <<x[i + 1]>>
      <3>1. q = [how |-> "ok", ba |-> t, out |-> y]
        BY <2>9, <2>10
      <3> HIDE DEF t, y
      <3> DEFINE w == s \o y
      <3>2. s \o q.out = w
        BY <3>1
      <3> HIDE DEF w
      <3>3. [q EXCEPT !.out = w] = [how |-> "ok", ba |-> t, out |-> w]
        BY <3>1
      <3> QED
        BY <3>2, <3>3 DEF t, y, w
    <2>12. SubSeq(x, 1, i + 1) = s \o <<x[i + 1]>>
      BY <1>0, <2>1, FrontNext DEF s
    <2> QED
      BY <2>2, <2>3, <2>7, <2>11, <2>12
  <1>3. CASE i >= n
    <2> DEFINE s == SubSeq(x, 1, n)
               r == [how |-> "ok", ba |-> To(b, p + n), out |-> s]
    <2>1. i \in Nat /\ i + 1 \in Nat /\ i + 1 >= n /\ n \in Nat
      BY <1>0, <1>3
    <2>2. Loop(b, x, i) = r /\ Loop(b, x, i + 1) = r
      <3> HIDE DEF r
      <3> DEFINE m == i + 1
      <3>1. m \in Nat /\ i >= Len(x) /\ m >= Len(x) /\ Len(x) \in Nat
        BY <1>0, <1>3, <2>1
      <3> HIDE DEF m
      <3>2. /\ Loop(b, x, i) = [how |-> "ok", ba |-> To(b, p + Len(x)), out |-> SubSeq(x, 1, Len(x))]
            /\ Loop(b, x, m) = [how |-> "ok", ba |-> To(b, p + Len(x)), out |-> SubSeq(x, 1, Len(x))]
        BY <1>1, <3>1, LoopAfter
      <3> QED
        BY <1>0, <3>2 DEF m, r
    <2>3. s = x
      BY <1>0, SubSeqFull
    <2>4. x[n] < Half
      BY <1>0
    <2>5. r.out[Len(r.out)] < Half
      BY <1>0, <2>3, <2>4
    <2> HIDE DEF r
    <2>6. Another(r) = r
      BY <2>5 DEF Another
    <2> QED
      BY <2>2, <2>6
  <1> QED
    BY <1>0, <1>2, <1>3

LEMMA LoopStart ==
    ASSUME NEW b, NEW c, NEW p, NEW x, NEW n, NEW v, IsVarint(x, n, v),
           Lies(c, p, x), Stands(b, c, p)
    PROVE  read(b, 1) = Loop(b, x, 1)
  <1>0. n \in Nat \ {0} /\ Len(x) = n /\ x \in Seq(Byte)
    BY DEF IsVarint
  <1> DEFINE a == 0
             u == 1
  <1>1. b.position = p /\ p \in Nat /\ p + a = p /\ a \in Nat /\ a + 1 = u /\ u \in Nat /\ u <= n
        /\ u = 1
    BY <1>0 DEF Stands, Lies
  <1> HIDE DEF a, u
  <1>2. read(b, 1) = [how |-> "ok", ba |-> To(b, p + u), out |-> <<x[u]>>]
    <2>1. Stands(b, c, p + a) /\ a + 1 <= Len(x)
      BY <1>0, <1>1
    <2>2. read(b, 1) = [how |-> "ok", ba |-> To(b, p + (a + 1)), out |-> <<x[a + 1]>>]
      BY <1>1, <2>1, OneThere
    <2> QED
      BY <1>1, <2>2
  <1>3. Loop(b, x, u) = [how |-> "ok", ba |-> To(b, p + u), out |-> SubSeq(x, 1, u)]
    <2>1. u <= Len(x) /\ Len(x) \in Nat /\ u \in Nat
      BY <1>0, <1>1
    <2>2. b.position = p
      BY <1>1
    <2> QED
      BY <2>1, <2>2, LoopBefore
  <1>4. SubSeq(x, 1, u) = <<x[u]>>
    <2> DEFINE s == SubSeq(x, 1, u)
               e == x[u]
               t == <<e>>
    <2>1. s \in Seq(Byte) /\ Len(s) = u /\ \A j \in 1..u : s[j] = x[1 + j - 1]
      BY <1>0, <1>1, FrontIs
    <2> HIDE DEF s
    <2>2. s[1] = e
      BY <1>1, <2>1
    <2>3. e \in Byte
      BY <1>0, <1>1, ElementOfSeq
    <2> HIDE DEF e
    <2>4. t \in Seq(Byte) /\ Len(t) = 1 /\ t[1] = e
      BY <2>3, One
    <2> HIDE DEF t
    <2>5. \A j \in 1..Len(s) : s[j] = t[j]
      BY <1>1, <2>1, <2>2, <2>4
    <2>6. s = t
      BY <1>1, <2>1, <2>4, <2>5, SeqEqual
    <2> QED
      BY <2>6 DEF s, t, e
  <1> QED
    BY <1>1, <1>2, <1>3, <1>4

-----------------------------------------------------------------------------
LEMMA LoopEnds ==
    ASSUME Radix > 2, NEW b, NEW c, NEW p, NEW x, NEW n, NEW v, IsVarint(x, n, v),
           Lies(c, p, x), Stands(b, c, p), NEW m \in Nat \ {0}, NEW f,
           f = [i \in 1..m |-> IF i = 1 THEN read(b, 1) ELSE Another(f[i - 1])]
    PROVE  \A i \in 1..m : f[i] = Loop(b, x, i)
  <1> DEFINE T == {j \in 0..(m - 1) : f[j + 1] = Loop(b, x, j + 1)}
             k == m - 1
  <1>0. k \in Nat /\ m \in Nat
    OBVIOUS
  <1>1. 0 \in T
    <2> DEFINE u == 1
    <2>1. u \in 1..m /\ u = 1 /\ 0 + 1 = u /\ 0 \in 0..(m - 1)
      OBVIOUS
    <2>2. f[u] = read(b, 1)
      BY <2>1
    <2>3. read(b, 1) = Loop(b, x, u)
      BY LoopStart
    <2> HIDE DEF u
    <2>4. f[0 + 1] = Loop(b, x, 0 + 1)
      BY <2>1, <2>2, <2>3
    <2> QED
      BY <2>1, <2>4
  <1>2. ASSUME NEW j \in 0..(k - 1), j \in T PROVE j + 1 \in T
    <2> DEFINE i == j + 1
               h == i + 1
    <2>1. i \in Nat \ {0} /\ h \in 1..m /\ h # 1 /\ h - 1 = i /\ i \in 0..(m - 1)
      OBVIOUS
    <2>2. f[i] = Loop(b, x, i)
      BY <1>2
    <2> HIDE DEF i
    <2>3. Another(Loop(b, x, i)) = Loop(b, x, i + 1)
      BY <2>1, LoopNext
    <2> HIDE DEF h
    <2>4. f[h] = Another(f[h - 1])
      BY <2>1
    <2>5. f[h] = Loop(b, x, i + 1)
      BY <2>1, <2>2, <2>3, <2>4
    <2> QED
      BY <2>1, <2>5 DEF h, i
  <1> HIDE DEF T, k
  <1>3. \A j \in 0..k : j \in T
    BY <1>2, <1>0, <1>1, UpTo
  <1> SUFFICES ASSUME NEW i \in 1..m PROVE f[i] = Loop(b, x, i)
    OBVIOUS
  <1> DEFINE j == i - 1
  <1>4. j \in 0..k /\ j + 1 = i
    BY DEF k
  <1> HIDE DEF j
  <1>5. f[j + 1] = Loop(b, x, j + 1)
    BY <1>3, <1>4 DEF T
  <1> QED
    BY <1>4, <1>5

LEMMA LoopExists ==
    ASSUME Radix > 2, NEW b, NEW c, NEW p, NEW x, NEW n, NEW v, IsVarint(x, n, v),
           Lies(c, p, x), Stands(b, c, p), NEW m \in Nat \ {0}
    PROVE  \E f : f = [i \in 1..m |-> IF i = 1 THEN read(b, 1) ELSE Another(f[i - 1])]
  <1> DEFINE e == [i \in 1..m |-> Loop(b, x, i)]
             g == [i \in 1..m |-> IF i = 1 THEN read(b, 1) ELSE Another(e[i - 1])]
  <1>1. ASSUME NEW i \in 1..m PROVE e[i] = g[i]
    <2>1. CASE i = 1
      BY LoopStart, <2>1
    <2>2. CASE i # 1
      <3> DEFINE j == i - 1
      <3>1. j \in Nat \ {0} /\ j \in 1..m /\ j + 1 = i
        BY <2>2
      <3>2. g[i] = Another(e[j])
        BY <2>2
      <3> HIDE DEF j, g
      <3>3. e[j] = Loop(b, x, j) /\ e[i] = Loop(b, x, i)
        BY <3>1
      <3> HIDE DEF e
      <3>4. Another(Loop(b, x, j)) = Loop(b, x, j + 1)
        BY <3>1, LoopNext
      <3> QED
        BY <3>1, <3>2, <3>3, <3>4
    <2> QED
      BY <2>1, <2>2
  <1>2. e = g
    <2>1. e = [i \in 1..m |-> e[i]] /\ g = [i \in 1..m |-> g[i]]
      OBVIOUS
    <2> HIDE DEF e, g
    <2> QED
      BY <1>1, <2>1
  <1> QED
    BY <1>2

(* A number fits as many groups as k bytes have. *)
LEMMA WithinLimit ==
    ASSUME Radix > 2, NEW k \in 1..8, NEW v \in Nat, v < Power(Radix, k),
           NEW n \in 1..30, Groups(v, n), NEW m \in 1..30, Limit(k, m)
    PROVE  n <= m
  <1> SUFFICES ASSUME m < n PROVE FALSE
    OBVIOUS
  <1> DEFINE j == n - 1
             a == Power(Half, m)
             d == Power(Half, j)
             r == Power(Radix, k)
  <1>1. j \in Nat /\ m \in Nat /\ m <= j /\ n # 1
    OBVIOUS
  <1>2. v >= d /\ a >= r /\ v < r
    BY <1>1 DEF Groups, Limit
  <1> HIDE DEF j
  <1>3. a <= d
    BY <1>1, HalfIs, PowerGrows
  <1>4. a \in Nat /\ d \in Nat /\ r \in Nat
    <2>1. Radix \in Nat \ {0} /\ k \in Nat
      BY RadixIs
    <2> QED
      BY <1>1, <2>1, HalfIs, PowerAbove
  <1> HIDE DEF a, d, r
  <1> QED
    BY <1>2, <1>3, <1>4

Joins(x, m) ==
    LET g[i \in 0..Len(x)] ==
            IF i = 0 THEN 0 ELSE g[i - 1] + (x[i] % Half) * Power(Half, i - 1)
    IN g[Len(x)] % m

LEMMA JoinsIs ==
    ASSUME Radix > 2, NEW k \in 1..8, NEW v \in Nat, v < Power(Radix, k),
           NEW x, NEW n, IsVarint(x, n, v)
    PROVE  Joins(x, Power(Radix, k)) = v
  <1> DEFINE d == Digits(Half, n, v)
             m == Power(Radix, k)
             g == CHOOSE g : g = [i \in 0..Len(x) |->
                      IF i = 0 THEN 0 ELSE g[i - 1] + (x[i] % Half) * Power(Half, i - 1)]
             is(f) == f = [i \in 0..n |-> IF i = 0 THEN 0
                                      ELSE f[i - 1] + d[i] * Power(Half, i - 1)]
             h == CHOOSE f : is(f)
  <1>0. /\ n \in Nat /\ Len(x) = n /\ v < Power(Half, n) /\ Half \in Nat \ {0}
        /\ \A i \in 1..n : x[i] % Half = d[i]
    BY HalfIs DEF IsVarint, Groups
  <1>1. Joins(x, m) = g[Len(x)] % m
    BY DEF Joins
  <1> HIDE DEF d
  <1>2. g = h
    <2>1. ASSUME NEW f
          PROVE  [i \in 0..n |-> IF i = 0 THEN 0 ELSE f[i - 1] + (x[i] % Half) * Power(Half, i - 1)]
               = [i \in 0..n |-> IF i = 0 THEN 0 ELSE f[i - 1] + d[i] * Power(Half, i - 1)]
      <3> DEFINE y == [i \in 0..n |-> IF i = 0 THEN 0 ELSE f[i - 1] + (x[i] % Half) * Power(Half, i - 1)]
                 z == [i \in 0..n |-> IF i = 0 THEN 0 ELSE f[i - 1] + d[i] * Power(Half, i - 1)]
      <3>1. ASSUME NEW i \in 0..n PROVE y[i] = z[i]
        <4>1. CASE i = 0
          BY <4>1
        <4>2. CASE i # 0
          BY <1>0, <4>2
        <4> QED
          BY <4>1, <4>2
      <3>2. y = [i \in 0..n |-> y[i]] /\ z = [i \in 0..n |-> z[i]]
        OBVIOUS
      <3> HIDE DEF y, z
      <3>3. y = z
        BY <3>1, <3>2
      <3> QED
        BY <3>3 DEF y, z
    <2> QED
      BY <1>0, <2>1
  <1>3. \E f : is(f)
    BY <1>0, SumExists DEF d
  <1>4. is(h)
    <2> HIDE DEF is
    <2> QED
      BY <1>3
  <1>5. h[n] = v
    <2> DEFINE f == h
    <2>1. f = [i \in 0..n |-> IF i = 0 THEN 0
                        ELSE f[i - 1] + Digits(Half, n, v)[i] * Power(Half, i - 1)]
      BY <1>4 DEF d
    <2> HIDE DEF f
    <2>2. f[n] = v
      BY <1>0, <2>1, SumOfDigits
    <2> QED
      BY <2>2 DEF f
  <1> HIDE DEF g, h
  <1>6. v % m = v
    <2>1. Radix \in Nat \ {0} /\ k \in Nat
      BY RadixIs
    <2>2. m \in Nat \ {0} /\ v < m
      BY <2>1, PowerAbove
    <2> HIDE DEF m
    <2> QED
      BY <2>2
  <1> QED
    BY <1>0, <1>1, <1>2, <1>5, <1>6

LEMMA VarintThere ==
    ASSUME Radix > 2, NEW k \in 1..8, NEW v \in Nat, v < Power(Radix, k),
           NEW b, NEW c, NEW p, Lies(c, p, Varint(v)), Stands(b, c, p)
    PROVE  /\ readVarint(b, k).how = "ok" /\ readVarint(b, k).out = v
           /\ readVarint(b, k) = [how |-> "ok", ba |-> readVarint(b, k).ba, out |-> v]
           /\ Stands(readVarint(b, k).ba, c, p + Len(Varint(v)))
  <1> DEFINE x == Varint(v)
             most == CHOOSE m \in 1..30 : Limit(k, m)
             is(f) == f = [i \in 1..most |-> IF i = 1 THEN read(b, 1) ELSE Another(f[i - 1])]
             f == CHOOSE f : f = [i \in 1..most |->
                    LET r == IF i = 1 THEN read(b, 1) ELSE f[i - 1] IN
                    IF i = 1 \/ r.how # "ok" \/ r.out[Len(r.out)] < Half THEN r
                    ELSE LET q == read(r.ba, 1) IN [q EXCEPT !.out = r.out \o @]]
             r == f[most]
  <1>1. PICK n : IsVarint(x, n, v)
    BY VarintIs
  <1>2. readVarint(b, k) = IF r.how # "ok" THEN [r EXCEPT !.out = <<>>]
                           ELSE [r EXCEPT !.out = Joins(r.out, Power(Radix, k))]
    BY DEF readVarint, Limit, Joins
  <1>3. most \in 1..30 /\ Limit(k, most)
    BY SomeLimit
  <1> HIDE DEF most
  <1>4. f = CHOOSE g : is(g)
    <2>1. ASSUME NEW g
          PROVE  [i \in 1..most |->
                    LET q == IF i = 1 THEN read(b, 1) ELSE g[i - 1] IN
                    IF i = 1 \/ q.how # "ok" \/ q.out[Len(q.out)] < Half THEN q
                    ELSE LET z == read(q.ba, 1) IN [z EXCEPT !.out = q.out \o @]]
               = [i \in 1..most |-> IF i = 1 THEN read(b, 1) ELSE Another(g[i - 1])]
      <3> DEFINE y == [i \in 1..most |->
                         LET q == IF i = 1 THEN read(b, 1) ELSE g[i - 1] IN
                         IF i = 1 \/ q.how # "ok" \/ q.out[Len(q.out)] < Half THEN q
                         ELSE LET z == read(q.ba, 1) IN [z EXCEPT !.out = q.out \o @]]
                 z == [i \in 1..most |-> IF i = 1 THEN read(b, 1) ELSE Another(g[i - 1])]
      <3>1. ASSUME NEW i \in 1..most PROVE y[i] = z[i]
        <4>1. CASE i = 1
          BY <4>1
        <4>2. CASE i # 1
          BY <4>2 DEF Another
        <4> QED
          BY <4>1, <4>2
      <3>2. y = [i \in 1..most |-> y[i]] /\ z = [i \in 1..most |-> z[i]]
        OBVIOUS
      <3> HIDE DEF y, z
      <3>3. y = z
        BY <3>1, <3>2
      <3> QED
        BY <3>3 DEF y, z
    <2> QED
      BY <2>1
  <1> HIDE DEF f
  <1>5. Lies(c, p, x) /\ Stands(b, c, p) /\ most \in Nat \ {0}
    BY <1>3
  <1> HIDE DEF x
  <1>6. is(f)
    <2>1. \E g : is(g)
      BY <1>1, <1>5, LoopExists
    <2> HIDE DEF is
    <2> QED
      BY <1>4, <2>1
  <1>7. f[most] = Loop(b, x, most)
    <2>1. \A i \in 1..most : f[i] = Loop(b, x, i)
      BY <1>1, <1>5, <1>6, LoopEnds
    <2> QED
      BY <1>3, <2>1
  <1>8. n \in 1..30 /\ Groups(v, n) /\ Len(x) = n /\ x \in Seq(Byte)
    BY <1>1 DEF IsVarint
  <1>9. n <= most
    BY <1>3, <1>8, WithinLimit
  <1>10. r = [how |-> "ok", ba |-> To(b, p + n), out |-> x]
    BY <1>8, SubSeqFull, <1>5, <1>9, LoopAfter, <1>7 DEF Stands
  <1> HIDE DEF r
  <1>11. Joins(x, Power(Radix, k)) = v
    BY <1>1, JoinsIs
  <1>12. readVarint(b, k) = [how |-> "ok", ba |-> To(b, p + n), out |-> v]
    <2> DEFINE t == To(b, p + n)
    <2>1. r = [how |-> "ok", ba |-> t, out |-> x]
      BY <1>10
    <2> HIDE DEF t
    <2>2. r.how = "ok" /\ r.out = x
      BY <2>1
    <2>3. readVarint(b, k) = [r EXCEPT !.out = v]
      BY <1>2, <1>11, <2>2
    <2>4. [r EXCEPT !.out = v] = [how |-> "ok", ba |-> t, out |-> v]
      BY <2>1
    <2> QED
      BY <2>3, <2>4 DEF t
  <1>13. Stands(To(b, p + n), c, p + n)
    BY <1>5, <1>8, StandsAt DEF Lies
  <1> DEFINE w == readVarint(b, k)
             t == To(b, p + n)
  <1>14. w = [how |-> "ok", ba |-> t, out |-> v] /\ Stands(t, c, p + Len(x))
    BY <1>8, <1>12, <1>13
  <1> HIDE DEF w, t
  <1>15. /\ w.how = "ok" /\ w.out = v /\ w = [how |-> "ok", ba |-> w.ba, out |-> v]
         /\ Stands(w.ba, c, p + Len(x))
    BY <1>14
  <1> QED
    BY <1>15 DEF w, x

LEMMA NumbersAre ==
    ASSUME Radix > 2, NEW k \in Nat \ {0}, NEW v \in Numbers(k)
    PROVE  InRange(k, v)
  <1>1. PICK h \in Nat \ {0} : Power(Radix, k) = 2 * h
    BY PowerEven
  <1> DEFINE p == Power(Radix, k)
             top == p \div 2 - 1
             edge == {0, 1, Half - 1, Half, Radix, 2 * Power(Half, 3), top} \cap 0..top
  <1>2. Numbers(k) = edge \cup {-u - 1 : u \in edge}
    BY DEF Numbers
  <1>3. p = 2 * h
    BY <1>1
  <1>4. edge \subseteq 0..top
    OBVIOUS
  <1> HIDE DEF p, edge
  <1>5. PICK u \in 0..top : v = u \/ v = -u - 1
    BY <1>2, <1>4
  <1>6. u \in 0..(h - 1)
    BY <1>3, <1>5
  <1>7. v \in Int /\ 2 * v < p /\ -(2 * v) <= p
    BY <1>3, <1>5, <1>6
  <1> QED
    BY <1>7 DEF InRange, p

(* Back where the number begins. *)
LEMMA AtStands ==
    ASSUME NEW b, Sound(b), NEW w, NEW s, Lies(w, b.position, s)
    PROVE  Stands(At(b, w), w, b.position)
  <1>1. Sound(w) /\ b.position \in Nat /\ s \in Seq(Cell) /\ b.position + Len(s) <= w.size
    BY DEF Lies
  <1>2. w.size \in Nat /\ Len(s) \in Nat
    BY <1>1, LenProperties DEF Sound, ArrayType
  <1>3. b.position <= w.size
    BY <1>1, <1>2
  <1> QED
    BY <1>1, <1>3, MovedTo DEF At

LEMMA FixedReturns ==
    ASSUME NEW b, Sound(b), NEW k \in Nat \ {0}, NEW v, InRange(k, v)
    PROVE  LET w == writeFixed(b, k, Unsigned(k, v))
               r == readFixed(At(b, w), k)
           IN Back(b, w, [r EXCEPT !.out = Signed(k, @)], v)
  <1> DEFINE u == Unsigned(k, v)
             s == InOrder(b, InMemory(k, u))
             w == writeFixed(b, k, u)
             a == At(b, w)
             r == readFixed(a, k)
             p == b.position
  <1>1. u \in Nat /\ u < Power(Radix, k) /\ Signed(k, u) = v
    BY SignedBack
  <1> HIDE DEF u
  <1>2. w = write(b, s)
    BY DEF writeFixed
  <1>3. s \in Seq(Byte) /\ Len(s) = k
    BY <1>1, MemoryIs, OrderIs
  <1>4. s \in Seq(Cell)
    BY <1>3, RadixIs, SeqMonotonic
  <1>5. InOrder(b, InMemory(k, u)) = s
    OBVIOUS
  <1> HIDE DEF s
  <1>6. Lies(w, p, s) /\ w.position = p + k /\ w.little = b.little
    BY <1>2, <1>3, <1>4, LiesWhereWritten
  <1> HIDE DEF w
  <1>7. Stands(a, w, p)
    BY <1>6, AtStands
  <1> HIDE DEF a
  <1>8. Lies(w, p, InOrder(b, InMemory(k, u)))
    BY <1>5, <1>6
  <1> HIDE DEF p
  <1>9. r.how = "ok" /\ r.out = u /\ Stands(r.ba, w, p + k)
    BY <1>1, <1>6, <1>7, <1>8, FixedThere
  <1>10. r = [how |-> r.how, ba |-> r.ba, out |-> r.out]
    BY FixedReads DEF Reads
  <1> HIDE DEF r
  <1>11. [r EXCEPT !.out = Signed(k, @)] = [how |-> "ok", ba |-> r.ba, out |-> v]
    BY <1>1, <1>9, <1>10
  <1>12. r.ba.position = w.position
    BY <1>6, <1>9 DEF Stands
  <1>13. Back(b, w, [r EXCEPT !.out = Signed(k, @)], v)
    BY <1>11, <1>12 DEF Back
  <1> QED
    BY <1>13 DEF r, a, w, u

LEMMA IntReturns ==
    ASSUME Radix > 2, NEW b, Sound(b), NEW k \in 1..8, NEW v, InRange(k, v)
    PROVE  LET w == writeInt(b, k, v) IN Back(b, w, readInt(At(b, w), k), v)
  <1> DEFINE u == EncodeZigzag(k, v)
             s == Varint(u)
             w == writeInt(b, k, v)
             a == At(b, w)
             r == readVarint(a, k)
             p == b.position
  <1>1. u \in Nat /\ u < Power(Radix, k) /\ DecodeZigzag(k, u) = v
    BY ZigzagBack
  <1>2. w = write(b, s)
    BY DEF writeInt
  <1> HIDE DEF u
  <1>3. PICK n : IsVarint(s, n, u)
    BY <1>1, VarintIs
  <1>4. s \in Seq(Cell)
    <2>1. s \in Seq(Byte)
      BY <1>3 DEF IsVarint
    <2> HIDE DEF s
    <2> QED
      BY <2>1, RadixIs, SeqMonotonic
  <1>5. Lies(w, p, s) /\ w.position = p + Len(s)
    <2> HIDE DEF s
    <2> QED
      BY <1>2, <1>4, LiesWhereWritten
  <1> HIDE DEF w
  <1>6. Stands(a, w, p)
    <2> HIDE DEF s
    <2> QED
      BY <1>5, AtStands
  <1> HIDE DEF a, p
  <1>7. /\ r.how = "ok" /\ r.out = u /\ r = [how |-> "ok", ba |-> r.ba, out |-> u]
        /\ Stands(r.ba, w, p + Len(s))
    BY <1>1, <1>5, <1>6, VarintThere
  <1>8. readInt(a, k) = IF r.how # "ok" THEN r ELSE [r EXCEPT !.out = DecodeZigzag(k, r.out)]
    BY DEF readInt
  <1> HIDE DEF r, s
  <1>9. readInt(a, k) = [how |-> "ok", ba |-> r.ba, out |-> v]
    BY <1>1, <1>7, <1>8
  <1>10. r.ba.position = w.position
    BY <1>5, <1>7 DEF Stands
  <1>11. Back(b, w, readInt(a, k), v)
    BY <1>9, <1>10 DEF Back
  <1> QED
    BY <1>11 DEF a, w

LEMMA NumbersCome ==
    ASSUME Radix > 2, NEW b, Sound(b)
    PROVE  NumbersReturn(b)
  <1>1. ASSUME NEW k \in {1, 2, 4}, NEW v \in Numbers(k)
        PROVE  LET w == writeFixed(b, k, Unsigned(k, v))
                   r == readFixed(At(b, w), k)
               IN Back(b, w, [r EXCEPT !.out = Signed(k, @)], v)
    BY NumbersAre, FixedReturns
  <1>2. ASSUME NEW k \in {4, 8}, NEW v \in Numbers(k)
        PROVE  LET w == writeInt(b, k, v) IN Back(b, w, readInt(At(b, w), k), v)
    BY NumbersAre, IntReturns
  <1> QED
    BY <1>1, <1>2 DEF NumbersReturn

(* What is written for the length of a string. *)
LengthBytes(b, k, n) == IF k = 0 THEN Varint(n) ELSE InOrder(b, InMemory(k, n))
LengthRead(b, k) == IF k = 0 THEN readVarint(b, 8) ELSE readFixed(b, k)

LEMMA ShortLength ==
    ASSUME NEW k \in {2, 4, 8}, NEW n \in Nat, n < Power(Radix, 2)
    PROVE  n < Power(Radix, k)
  <1> DEFINE i == 2
             a == Power(Radix, i)
             c == Power(Radix, k)
  <1>1. Radix \in Nat \ {0} /\ i \in Nat /\ k \in Nat /\ i <= k
    BY RadixIs
  <1>2. n < a
    OBVIOUS
  <1> HIDE DEF i
  <1>3. a <= c
    BY <1>1, PowerGrows
  <1>4. a \in Nat /\ c \in Nat
    BY <1>1, PowerAbove
  <1> HIDE DEF a, c
  <1>5. n < c
    BY <1>2, <1>3, <1>4
  <1> QED
    BY <1>5 DEF c

LEMMA LengthIs ==
    ASSUME Radix > 2, NEW b, NEW k \in {0, 2, 4}, NEW n \in Nat, n < Power(Radix, 2)
    PROVE  LengthBytes(b, k, n) \in Seq(Byte) /\ Len(LengthBytes(b, k, n)) \in Nat \ {0}
  <1>1. CASE k = 0
    <2>1. n < Power(Radix, 8)
      BY ShortLength
    <2> DEFINE e == 8
    <2>2. e \in 1..8 /\ n < Power(Radix, e)
      BY <2>1
    <2> HIDE DEF e
    <2>3. PICK m : IsVarint(Varint(n), m, n)
      BY <2>2, VarintIs
    <2>4. m \in 1..30 /\ Varint(n) \in Seq(Byte) /\ Len(Varint(n)) = m
      BY <2>3 DEF IsVarint
    <2> QED
      BY <1>1, <2>4 DEF LengthBytes
  <1>2. CASE k # 0
    <2>1. k \in Nat \ {0}
      BY <1>2
    <2>2. InMemory(k, n) \in Seq(Byte) /\ Len(InMemory(k, n)) = k
      BY <2>1, MemoryIs
    <2>3. InOrder(b, InMemory(k, n)) \in Seq(Byte) /\ Len(InOrder(b, InMemory(k, n))) = k
      BY <2>2, OrderIs
    <2> QED
      BY <1>2, <2>1, <2>3 DEF LengthBytes
  <1> QED
    BY <1>1, <1>2

LEMMA LengthThere ==
    ASSUME Radix > 2, NEW b, NEW c, NEW d, NEW p, NEW k \in {0, 2, 4},
           NEW n \in Nat, n < Power(Radix, 2), d.little = c.little,
           Lies(c, p, LengthBytes(d, k, n)), Stands(b, c, p)
    PROVE  /\ LengthRead(b, k).how = "ok" /\ LengthRead(b, k).out = n
           /\ Stands(LengthRead(b, k).ba, c, p + Len(LengthBytes(d, k, n)))
  <1>1. CASE k = 0
    <2> DEFINE e == 8
    <2>1. n < Power(Radix, e) /\ e \in 1..8
      BY ShortLength
    <2>2. LengthBytes(d, k, n) = Varint(n) /\ LengthRead(b, k) = readVarint(b, e)
      BY <1>1 DEF LengthBytes, LengthRead
    <2> HIDE DEF e
    <2>3. Lies(c, p, Varint(n))
      BY <2>2
    <2> DEFINE r == readVarint(b, e)
    <2>4. r.how = "ok" /\ r.out = n /\ Stands(r.ba, c, p + Len(Varint(n)))
      BY <2>1, <2>3, VarintThere
    <2> HIDE DEF r
    <2> QED
      BY <2>2, <2>4 DEF r
  <1>2. CASE k # 0
    <2>1. k \in Nat \ {0} /\ n < Power(Radix, k)
      BY <1>2, ShortLength
    <2>2. LengthBytes(d, k, n) = InOrder(d, InMemory(k, n)) /\ LengthRead(b, k) = readFixed(b, k)
      BY <1>2 DEF LengthBytes, LengthRead
    <2>3. Lies(c, p, InOrder(d, InMemory(k, n)))
      BY <2>2
    <2> DEFINE r == readFixed(b, k)
    <2>4. r.how = "ok" /\ r.out = n /\ Stands(r.ba, c, p + k)
      BY <2>1, <2>3, FixedThere
    <2> HIDE DEF r
    <2>5. Len(InOrder(d, InMemory(k, n))) = k
      BY <2>1, MemoryIs, OrderIs
    <2> QED
      BY <2>2, <2>4, <2>5 DEF r
  <1> QED
    BY <1>1, <1>2

(* Reading no bytes, which needs a node to read them in. *)
LEMMA NothingThere ==
    ASSUME NEW b, NEW c, NEW q, Stands(b, c, q)
    PROVE  IF q = c.capacity THEN read(b, 0).how = "faults"
           ELSE read(b, 0).how = "ok" /\ read(b, 0).out = <<>> /\ read(b, 0).ba.position = q
  <1> DEFINE n == 0
             r == read(b, n)
             t == SubSeq(b.data, q + 1, q + n)
  <1>1. Sound(b) /\ b.position = q /\ b.capacity = c.capacity
    BY DEF Stands
  <1>2. q \in Nat /\ b.size \in Nat /\ b.capacity \in Nat /\ q <= b.size /\ b.size <= b.capacity
    BY <1>1 DEF Sound, ArrayType
  <1>3. n \in Nat /\ n <= b.size - b.position
    BY <1>1, <1>2
  <1>4. q + n = q
    BY <1>2
  <1>5. t = <<>>
    <2>1. q + 1 \in Int /\ q + n \in Int /\ q + n < q + 1
      BY <1>2
    <2> HIDE DEF n
    <2> QED
      BY <2>1, SubSeqEmpty
  <1> HIDE DEF n, t
  <1>6. CASE q = c.capacity
    BY <1>1, <1>3, <1>6, ReadIs DEF Faults, n
  <1>7. CASE q # c.capacity
    BY <1>1, <1>2, <1>7, <1>3, <1>4, ReadIs, ToIs, <1>5 DEF t, n
  <1> QED
    BY <1>6, <1>7

LEMMA StringReturns ==
    ASSUME Radix > 2, NEW b, Sound(b), NEW k \in {0, 2, 4},
           NEW s \in Seq(Byte), Len(s) < Power(Radix, 2)
    PROVE  LET w == writeString(b, k, s)
               r == readString(At(b, w), k)
           IN IF s = <<>> /\ w.position = w.capacity THEN r.how = "faults"
              ELSE Back(b, w, r, s)
  <1> DEFINE n == Len(s)
             x == LengthBytes(b, k, n)
             h == write(b, x)
             w == write(h, s)
             a == At(b, w)
             p == b.position
             q == p + Len(x)
             l == LengthRead(a, k)
             r == read(l.ba, n)
  <1>1. n \in Nat /\ n < Power(Radix, 2) /\ s \in Seq(Cell)
    BY LenProperties, RadixIs, SeqMonotonic
  <1>2. writeString(b, k, s) = w
    BY DEF writeString, writeFixed, LengthBytes
  <1> HIDE DEF n
  <1>3. x \in Seq(Byte) /\ x \in Seq(Cell) /\ Len(x) \in Nat \ {0}
    <2>1. x \in Seq(Byte) /\ Len(x) \in Nat \ {0}
      BY <1>1, LengthIs
    <2> HIDE DEF x
    <2> QED
      BY <2>1, RadixIs, SeqMonotonic
  <1>4. x = LengthBytes(b, k, n)
    OBVIOUS
  <1> HIDE DEF x
  <1>5. /\ Lies(h, p, x) /\ h.position = q /\ h.little = b.little /\ Sound(h)
    BY <1>3, LiesWhereWritten
  <1>6. p \in Nat /\ q \in Nat
    BY <1>3 DEF Sound, ArrayType
  <1> HIDE DEF h, q
  <1>7. /\ Lies(w, q, s) /\ w.position = q + n /\ w.little = h.little
    BY <1>1, <1>5, LiesWhereWritten DEF n
  <1>8. Lies(w, p, x)
    <2>1. p + Len(x) <= h.position
      BY <1>3, <1>5, <1>6 DEF q
    <2> HIDE DEF p
    <2> QED
      BY <1>1, <1>5, <2>1, LiesStill
  <1> HIDE DEF w
  <1>9. Stands(a, w, p)
    BY <1>8, AtStands
  <1>10. b.little = w.little
    BY <1>5, <1>7
  <1> HIDE DEF a, p
  <1>11. Lies(w, p, LengthBytes(b, k, n))
    BY <1>4, <1>8
  <1>12. l.how = "ok" /\ l.out = n /\ Stands(l.ba, w, p + Len(x))
    BY <1>1, <1>4, <1>9, <1>10, <1>11, LengthThere
  <1>13. readString(a, k) = r
    <2>1. readString(a, k) = IF l.how # "ok" THEN l ELSE read(l.ba, l.out)
      BY DEF readString, LengthRead
    <2> HIDE DEF l
    <2> QED
      BY <1>12, <2>1
  <1>14. Stands(l.ba, w, q)
    BY <1>12 DEF q
  <1> HIDE DEF l
  <1>15. CASE s # <<>>
    <2>1. r.how = "ok" /\ r.out = s /\ Stands(r.ba, w, q + n)
      BY <1>7, <1>14, <1>15, ReadAllThere DEF n
    <2>2. Back(b, w, r, s)
      <3> HIDE DEF r
      <3> QED
        BY <1>7, <2>1 DEF Back, Stands
    <2> QED
      BY <1>2, <1>13, <1>15, <2>2 DEF a
  <1>16. CASE s = <<>>
    <2>1. n = 0 /\ q + n = q
      BY <1>6, <1>16 DEF n
    <2>2. IF w.position = w.capacity THEN r.how = "faults"
          ELSE r.how = "ok" /\ r.out = <<>> /\ r.ba.position = w.position
      BY <1>7, <1>14, <2>1, NothingThere
    <2> HIDE DEF r
    <2>3. IF w.position = w.capacity THEN r.how = "faults" ELSE Back(b, w, r, s)
      BY <1>16, <2>2 DEF Back
    <2> QED
      BY <1>2, <1>13, <1>16, <2>3 DEF a
  <1> QED
    BY <1>15, <1>16

LEMMA StringsCome ==
    ASSUME Radix > 2, \A s \in Strings : Len(s) < Power(Radix, 2), NEW b, Sound(b)
    PROVE  StringsReturn(b)
  <1> SUFFICES ASSUME NEW k \in {0, 2, 4}, NEW s \in Strings \cup {<<>>}
               PROVE  LET w == writeString(b, k, s)
                          r == readString(At(b, w), k)
                      IN IF s = <<>> /\ w.position = w.capacity THEN r.how = "faults"
                         ELSE Back(b, w, r, s)
    BY DEF StringsReturn
  <1>1. s \in Seq(Byte) /\ Len(s) < Power(Radix, 2)
    <2>1. CASE s \in Strings
      BY <2>1, BufferAssumption DEF Byte
    <2>2. CASE s = <<>>
      <3> DEFINE e == <<>>
                 i == 2
      <3>1. e \in Seq(Byte) /\ Len(e) = 0
        OBVIOUS
      <3>2. Radix \in Nat \ {0} /\ i \in Nat
        BY RadixIs
      <3> HIDE DEF e, i
      <3>3. Power(Radix, i) \in Nat \ {0}
        BY <3>2, PowerAbove
      <3> QED
        BY <2>2, <3>1, <3>3 DEF e, i
    <2> QED
      BY <2>1, <2>2
  <1> QED
    BY <1>1, StringReturns

-----------------------------------------------------------------------------
(* A file: the bytes that writeToFile takes from the nodes, and those that *)
(* readFromFile writes, are those of the array one after another.          *)

FromStart(b) == b.position % Base = 0 \/ getReadSize(b) >= Base

(* How many bytes are in the file after k nodes, and the loop's state.     *)
InFile(b, k) == IF k = 0 THEN 0 ELSE AtMost(k * Base - (b.position % Base), getReadSize(b))

SoFar(b, k) ==
    [pos |-> b.position + InFile(b, k), left |-> getReadSize(b) - InFile(b, k),
     out |-> SubSeq(b.data, b.position + 1, b.position + InFile(b, k))]

ToFile(b, w, k) ==
    LET diff == w.pos % Base
        len == AtMost(w.left, Base) - diff
        from == (b.cur + k - 2) * Base + diff
    IN IF w.left <= 0 \/ b.cur = Null \/ b.cur + k - 1 > Nodes(b) THEN w
       ELSE [pos |-> w.pos + len, left |-> w.left - len,
             out |-> w.out \o SubSeq(b.data, from + 1, from + len)]

LEMMA InFileIs ==
    ASSUME NEW b, Sound(b), NEW k \in Nat
    PROVE  /\ InFile(b, k) \in Nat /\ InFile(b, k) <= getReadSize(b)
           /\ b.position + InFile(b, k) <= b.size /\ getReadSize(b) \in Nat
           /\ b.position + getReadSize(b) = b.size
  <1> DEFINE d == b.position % Base
             x == k * Base
             l == getReadSize(b)
  <1>1. b.position \in Nat /\ b.size \in Nat /\ b.position <= b.size
    BY DEF Sound, ArrayType
  <1>2. l \in Nat /\ b.position + l = b.size
    BY <1>1 DEF getReadSize
  <1>3. d \in 0..(Base - 1)
    BY <1>1, Division
  <1>4. k # 0 => x \in Nat /\ x >= Base
    <2> SUFFICES ASSUME k # 0 PROVE x \in Nat /\ x >= Base
      OBVIOUS
    <2>1. k = (k - 1) + 1 /\ k - 1 \in Nat
      OBVIOUS
    <2> DEFINE j == k - 1
    <2>2. x = j * Base + Base
      BY <2>1, BaseAssumption
    <2>3. j * Base \in Nat
      BY <2>1, BaseAssumption
    <2> HIDE DEF j, x
    <2> QED
      BY <2>2, <2>3, BaseAssumption
  <1>5. InFile(b, k) = IF k = 0 THEN 0 ELSE AtMost(x - d, l)
    BY DEF InFile
  <1> HIDE DEF d, x, l
  <1>6. InFile(b, k) \in Nat /\ InFile(b, k) <= l
    BY <1>2, <1>3, <1>4, <1>5, BaseAssumption DEF AtMost
  <1> QED
    BY <1>1, <1>2, <1>6 DEF l

LEMMA TwoStretches ==
    ASSUME NEW s \in Seq(Cell), NEW a \in Nat, NEW u \in Nat, NEW n \in Nat, a <= u, u + n <= Len(s)
    PROVE  SubSeq(s, a + 1, u) \o SubSeq(s, u + 1, u + n) = SubSeq(s, a + 1, u + n)
  <1> DEFINE m == a + 1
             v == u + n
  <1>1. Len(s) \in Nat
    BY LenProperties
  <1>2. m \in 1..(Len(s) + 1) /\ u \in (m - 1)..Len(s) /\ v \in u..Len(s)
    BY <1>1
  <1> HIDE DEF m, v
  <1>3. SubSeq(s, m, u) \o SubSeq(s, u + 1, v) = SubSeq(s, m, v)
    BY <1>2, ConcatAdjacentSubSeq
  <1> QED
    BY <1>3 DEF m, v

(* Where the next piece begins and how long it is.                         *)
LEMMA NextPiece ==
    ASSUME NEW b, Sound(b), FromStart(b), NEW j \in Nat, InFile(b, j) < getReadSize(b)
    PROVE  LET e == InFile(b, j)
               diff == (b.position + e) % Base
           IN /\ diff \in Nat
              /\ b.cur # Null /\ b.cur + j <= Nodes(b) /\ b.cur \in Nat \ {0}
              /\ (b.cur + j - 1) * Base + diff = b.position + e
              /\ e + (AtMost(getReadSize(b) - e, Base) - diff) = InFile(b, j + 1)
              /\ e <= InFile(b, j + 1)
  <1> DEFINE p == b.position
             d == p % Base
             g == p \div Base
             G == g * Base
             J == j * Base
             l == getReadSize(b)
             e == InFile(b, j)
             n == InFile(b, j + 1)
             N == Nodes(b)
             diff == (p + e) % Base
  <1>1. /\ p \in Nat /\ l \in Nat /\ e \in Nat /\ n \in Nat /\ p + l = b.size /\ n <= l
        /\ b.size <= b.capacity /\ b.capacity \in Nat
    <2>1. p \in Nat /\ b.size <= b.capacity /\ b.capacity \in Nat
      BY DEF Sound, ArrayType
    <2>2. j + 1 \in Nat
      OBVIOUS
    <2> QED
      BY <2>1, <2>2, InFileIs
  <1>2. d \in 0..(Base - 1) /\ g \in Nat /\ p = G + d /\ G \in Nat
    <2>1. d \in 0..(Base - 1) /\ g \in Nat /\ p = G + d
      BY <1>1, Division
    <2> HIDE DEF g
    <2> QED
      BY <2>1, BaseAssumption
  <1>3. J \in Nat /\ (j = 0 => J = 0) /\ (j + 1) * Base = J + Base /\ (g + j) * Base = G + J
    <2>1. g \in Nat
      BY <1>2
    <2> HIDE DEF g
    <2> QED
      BY <2>1, BaseAssumption
  <1>4. b.cur = g + 1 /\ e < l
    BY <1>1, HereIsPosition
  <1>5. b.capacity = N * Base /\ N \in Nat
    <2>1. PICK i \in Nat \ {0} : b.capacity = i * Base
      BY DEF Sound, Whole
    <2>2. Len(b.data) = b.capacity
      BY DEF Sound
    <2>3. b.capacity \div Base = i
      BY <1>1, <2>1, Multiples
    <2> QED
      BY <2>1, <2>2, <2>3 DEF Nodes
  <1>6. /\ e = IF j = 0 THEN 0 ELSE AtMost(J - d, l)
        /\ n = AtMost((J + Base) - d, l)
    BY <1>3 DEF InFile
  <1>7. d = 0 \/ l >= Base
    BY DEF FromStart
  <1>8. (b.cur + j - 1) * Base = G + J
    BY <1>2, <1>4, <1>3
  <1>9. p + e = (G + J) + diff /\ diff \in Nat /\ (IF j = 0 THEN diff = d ELSE diff = 0)
    <2>1. CASE j = 0
      <3>1. e = 0 /\ J = 0
        BY <1>3, <1>6, <2>1
      <3>2. p + e = p
        BY <1>1, <3>1
      <3>3. diff = d
        BY <3>2
      <3> HIDE DEF diff, d, p, G, J
      <3> QED
        BY <1>2, <2>1, <3>1, <3>2, <3>3
    <2>2. CASE j # 0
      <3>1. e = J - d
        <4> HIDE DEF e, l, d, J
        <4> QED
          BY <1>1, <1>2, <1>3, <1>4, <1>6, <2>2 DEF AtMost
      <3>2. p + e = (g + j) * Base /\ p + e \in Nat /\ g + j \in Nat
        <4> HIDE DEF e, l, d, J, G, p, g
        <4> QED
          BY <1>1, <1>2, <1>3, <3>1
      <3>3. diff = 0
        <4> HIDE DEF p, e, g
        <4>1. (p + e) % Base = 0
          BY <3>2, Multiples
        <4> QED
          BY <4>1
      <3> HIDE DEF diff, d, p, G, J, e, g
      <3> QED
        BY <1>2, <1>3, <2>2, <3>2, <3>3
    <2> QED
      BY <2>1, <2>2
  <1>10. b.cur + j <= N
    <2>1. (g + j) * Base < N * Base
      <3> HIDE DEF p, e, l, G, J, g, diff, N
      <3>1. p + e < b.capacity
        BY <1>1, <1>4
      <3> QED
        BY <1>1, <1>2, <1>3, <1>5, <1>9, <3>1, BaseAssumption
    <2>2. g + j \in Nat
      BY <1>2
    <2>3. g + j < N
      <3> HIDE DEF g, N
      <3> QED
        BY <1>5, <2>1, <2>2, MonotoneProduct
    <2> HIDE DEF g, N
    <2> QED
      BY <1>2, <1>4, <1>5, <2>3
  <1> HIDE DEF p, d, g, G, J, l, e, n, N, diff
  <1>11. e + (AtMost(l - e, Base) - diff) = n /\ e <= n
    <2>1. CASE j = 0
      BY <1>1, <1>2, <1>3, <1>4, <1>6, <1>7, <1>9, <2>1, BaseAssumption DEF AtMost
    <2>2. CASE j # 0
      BY <1>1, <1>2, <1>3, <1>4, <1>6, <1>9, <2>2, BaseAssumption DEF AtMost
    <2> QED
      BY <2>1, <2>2
  <1>12. b.cur # Null /\ b.cur \in Nat \ {0}
    BY <1>2, <1>4 DEF Null
  <1>13. (b.cur + j - 1) * Base + diff = p + e
    BY <1>8, <1>9
  <1> QED
    BY <1>9, <1>10, <1>11, <1>12, <1>13 DEF p, e, l, n, N, diff

LEMMA ToFileNext ==
    ASSUME NEW b, Sound(b), FromStart(b), NEW k \in Nat \ {0}
    PROVE  ToFile(b, SoFar(b, k - 1), k) = SoFar(b, k)
  <1> DEFINE j == k - 1
             w == SoFar(b, j)
             p == b.position
             l == getReadSize(b)
             e == InFile(b, j)
             n == InFile(b, k)
             diff == (p + e) % Base
             from == (b.cur + k - 2) * Base + diff
             len == AtMost(l - e, Base) - diff
             x == SubSeq(b.data, p + 1, p + e)
             y == SubSeq(b.data, from + 1, from + len)
  <1>1. j \in Nat /\ j + 1 = k
    OBVIOUS
  <1>2. /\ e \in Nat /\ e <= l /\ l \in Nat /\ n \in Nat /\ n <= l /\ p + l = b.size
        /\ p \in Nat /\ p + n <= b.size
    <2>1. p \in Nat
      BY DEF Sound, ArrayType
    <2> HIDE DEF j
    <2> QED
      BY <1>1, <2>1, InFileIs
  <1>3. w = [pos |-> p + e, left |-> l - e, out |-> x]
    BY DEF SoFar
  <1>4. CASE e = l
    <2>1. n = l
      <3> DEFINE d == p % Base
                 J == j * Base
                 K == k * Base
      <3>1. d \in 0..(Base - 1)
        BY <1>2, Division
      <3>2. K = J + Base /\ J \in Nat
        <4> HIDE DEF j
        <4> QED
          BY <1>1, BaseAssumption
      <3>3. /\ n = AtMost(K - d, l) /\ (j = 0 => e = 0)
            /\ (j # 0 => e = AtMost(J - d, l))
        BY DEF InFile
      <3> HIDE DEF d, J, K, n, l, e, j
      <3> QED
        BY <1>2, <1>4, <3>1, <3>2, <3>3, BaseAssumption DEF AtMost
    <2>2. ToFile(b, w, k) = w
      <3>1. w.left <= 0
        <4> HIDE DEF e, l, x
        <4> QED
          BY <1>2, <1>3, <1>4
      <3> HIDE DEF w
      <3> QED
        BY <3>1 DEF ToFile
    <2>3. SoFar(b, k) = [pos |-> p + n, left |-> l - n, out |-> SubSeq(b.data, p + 1, p + n)]
      BY DEF SoFar
    <2>4. n = e
      BY <1>4, <2>1
    <2>5. SoFar(b, k) = w
      <3> HIDE DEF n, e, l, p, w
      <3> QED
        BY <1>3, <2>3, <2>4
    <2> QED
      BY <2>2, <2>5
  <1>5. CASE e # l
    <2>1. e < l
      <3> HIDE DEF e, l
      <3> QED
        BY <1>2, <1>5
    <2>2. /\ diff \in Nat /\ b.cur # Null /\ b.cur + j <= Nodes(b) /\ b.cur \in Nat \ {0}
          /\ (b.cur + j - 1) * Base + diff = p + e
          /\ e + len = n /\ e <= n
      <3>1. InFile(b, j) < getReadSize(b)
        BY <2>1
      <3>2. n = InFile(b, j + 1)
        BY <1>1
      <3> HIDE DEF n, j
      <3> QED
        BY <1>1, <3>1, <3>2, NextPiece
    <2>11. len \in Int
      <3> HIDE DEF diff, e, l
      <3> QED
        BY <1>2, <2>2, BaseAssumption DEF AtMost
    <2>3. b.cur + k - 2 = b.cur + j - 1 /\ b.cur + k - 1 = b.cur + j
      BY <2>2
    <2>4. from = p + e
      BY <2>2, <2>3
    <2>5. ~(w.left <= 0) /\ w.pos = p + e /\ w.left = l - e /\ w.out = x
      <3> HIDE DEF p, e, l, x, w
      <3> QED
        BY <1>2, <1>3, <2>1
    <2>6. ~(b.cur + k - 1 > Nodes(b))
      <3>1. Nodes(b) \in Nat
        BY Division DEF Sound, ArrayType, Nodes
      <3> DEFINE N == Nodes(b)
                 c == b.cur
      <3> HIDE DEF N, c, j
      <3> QED
        BY <2>2, <2>3, <3>1 DEF N, c
    <2>7. ToFile(b, w, k) = [pos |-> (p + e) + len, left |-> (l - e) - len, out |-> x \o y]
      <3>1. w.pos % Base = diff /\ AtMost(w.left, Base) - (w.pos % Base) = len
        BY <2>5
      <3> HIDE DEF w, p, e, l, x
      <3> QED
        BY <2>2, <2>5, <2>6, <3>1 DEF ToFile
    <2>8. x \o y = SubSeq(b.data, p + 1, p + n)
      <3> DEFINE u == p + e
                 data == b.data
      <3>1. data \in Seq(Cell) /\ b.size <= Len(data) /\ b.size \in Nat
        BY DEF Sound, ArrayType
      <3>2. Len(data) \in Nat
        BY <3>1, LenProperties
      <3> HIDE DEF len, e, n, p, l, data
      <3>3. len \in Nat /\ u \in Nat /\ p <= u /\ u + len = p + n /\ u + len <= Len(data)
        BY <2>11, <1>2, <2>2, <3>1, <3>2
      <3>4. x = SubSeq(data, p + 1, u) /\ y = SubSeq(data, u + 1, u + len)
        BY <2>4 DEF data
      <3> HIDE DEF u, from, x, y
      <3>5. SubSeq(data, p + 1, u) \o SubSeq(data, u + 1, u + len) = SubSeq(data, p + 1, u + len)
        BY <1>2, <3>1, <3>3, TwoStretches
      <3> QED
        BY <3>3, <3>4, <3>5 DEF data
    <2>9. (p + e) + len = p + n /\ (l - e) - len = l - n
      <3> HIDE DEF p, e, l, n, len
      <3> QED
        BY <1>2, <2>2, <2>11
    <2>10. SoFar(b, k) = [pos |-> p + n, left |-> l - n, out |-> SubSeq(b.data, p + 1, p + n)]
      BY DEF SoFar
    <2> HIDE DEF w, p, e, l, n, len, x, y
    <2> QED
      BY <2>7, <2>8, <2>9, <2>10 DEF w
  <1> QED
    BY <1>4, <1>5

(* What is left to read is what the file has. *)
LEMMA FileIs ==
    ASSUME NEW b, Sound(b), FromStart(b)
    PROVE  writeToFile(b).how = "ok" /\ writeToFile(b).out = toString(b).out
  <1> DEFINE m == Nodes(b) + 1
             z == [pos |-> b.position, left |-> getReadSize(b), out |-> <<>>]
             is(f) == f = [k \in 0..m |-> IF k = 0 THEN z ELSE ToFile(b, f[k - 1], k)]
             f == CHOOSE f : f = [k \in 0..m |->
                    IF k = 0 THEN z
                    ELSE LET w == f[k - 1]
                             diff == w.pos % Base
                             len == AtMost(w.left, Base) - diff
                             from == (b.cur + k - 2) * Base + diff
                         IN IF w.left <= 0 \/ b.cur = Null \/ b.cur + k - 1 > Nodes(b) THEN w
                            ELSE [pos |-> w.pos + len, left |-> w.left - len,
                                  out |-> w.out \o SubSeq(b.data, from + 1, from + len)]]
             e == [k \in 0..m |-> SoFar(b, k)]
             w == f[m]
  <1>1. writeToFile(b) = [how |-> IF w.left > 0 THEN "faults" ELSE "ok", ba |-> b, out |-> w.out]
    BY DEF writeToFile
  <1>2. m \in Nat \ {0} /\ Nodes(b) \in Nat
    <2>1. Len(b.data) \in Nat
      BY DEF Sound, ArrayType
    <2>2. Nodes(b) \in Nat
      BY <2>1, Division DEF Nodes
    <2> QED
      BY <2>2
  <1>3. f = CHOOSE g : is(g)
    BY DEF ToFile
  <1>4. SoFar(b, 0) = z
    <2>1. InFile(b, 0) = 0
      BY DEF InFile
    <2>2. b.position \in Nat /\ getReadSize(b) \in Nat
      BY InFileIs DEF Sound, ArrayType
    <2>3. b.position + 0 = b.position /\ getReadSize(b) - 0 = getReadSize(b)
      BY <2>2
    <2>4. SubSeq(b.data, b.position + 1, b.position) = <<>>
      <3> DEFINE i == b.position + 1
                 j == b.position
      <3>1. i \in Int /\ j \in Int /\ j < i
        BY <2>2
      <3> HIDE DEF i, j
      <3>2. SubSeq(b.data, i, j) = <<>>
        BY <3>1, SubSeqEmpty
      <3> QED
        BY <3>2 DEF i, j
    <2> QED
      BY <2>1, <2>3, <2>4 DEF SoFar
  <1> HIDE DEF f, z, m
  <1>5. is(e)
    <2> DEFINE g == [k \in 0..m |-> IF k = 0 THEN z ELSE ToFile(b, e[k - 1], k)]
    <2>1. ASSUME NEW k \in 0..m PROVE e[k] = g[k]
      <3>1. CASE k = 0
        BY <1>4, <3>1
      <3>2. CASE k # 0
        <4>1. k \in Nat \ {0} /\ k - 1 \in 0..m
          BY <1>2, <3>2
        <4>2. e[k - 1] = SoFar(b, k - 1) /\ e[k] = SoFar(b, k)
          BY <4>1
        <4>3. g[k] = ToFile(b, e[k - 1], k)
          BY <3>2
        <4> HIDE DEF e, g
        <4> QED
          BY <4>1, <4>2, <4>3, ToFileNext
      <3> QED
        BY <3>1, <3>2
    <2>2. e = [k \in 0..m |-> e[k]] /\ g = [k \in 0..m |-> g[k]]
      OBVIOUS
    <2> HIDE DEF e, g
    <2>3. e = g
      BY <2>1, <2>2
    <2> QED
      BY <2>3 DEF g
  <1>6. is(f)
    <2>1. \E g : is(g)
      BY <1>5
    <2> HIDE DEF is
    <2> QED
      BY <1>3, <2>1
  <1>7. \A k \in 0..m : f[k] = SoFar(b, k)
    <2> DEFINE T == {k \in 0..m : f[k] = SoFar(b, k)}
    <2>1. 0 \in T
      BY <1>2, <1>6, <1>4
    <2>2. ASSUME NEW j \in 0..(m - 1), j \in T PROVE j + 1 \in T
      <3> DEFINE k == j + 1
      <3>1. k \in Nat \ {0} /\ k \in 0..m /\ k # 0 /\ k - 1 = j
        BY <1>2
      <3>2. f[k] = ToFile(b, f[k - 1], k)
        <4> HIDE DEF k
        <4> QED
          BY <1>6, <3>1
      <3>3. f[k - 1] = SoFar(b, k - 1)
        BY <2>2, <3>1
      <3> HIDE DEF k
      <3>4. f[k] = SoFar(b, k)
        BY <3>1, <3>2, <3>3, ToFileNext
      <3> QED
        BY <3>1, <3>4 DEF k
    <2> HIDE DEF T
    <2>3. \A k \in 0..m : k \in T
      BY <1>2, <2>1, <2>2, UpTo
    <2> QED
      BY <2>3 DEF T
  <1>8. InFile(b, m) = getReadSize(b)
    <2> DEFINE N == Nodes(b)
               d == b.position % Base
               l == getReadSize(b)
               M == m * Base
    <2>1. b.capacity = N * Base
      <3>1. PICK i \in Nat \ {0} : b.capacity = i * Base
        BY DEF Sound, Whole
      <3>2. Len(b.data) = b.capacity /\ b.capacity \in Nat
        BY DEF Sound, ArrayType
      <3>3. b.capacity \div Base = i
        BY <3>1, <3>2, Multiples
      <3> QED
        BY <3>1, <3>2, <3>3 DEF Nodes
    <2>2. M = N * Base + Base
      <3> HIDE DEF N
      <3> QED
        BY <1>2, BaseAssumption DEF m, N
    <2>3. /\ l \in Nat /\ b.position \in Nat /\ b.position + l = b.size
          /\ b.size <= b.capacity /\ b.capacity \in Nat /\ d \in 0..(Base - 1)
      BY <1>2, InFileIs, Division DEF Sound, ArrayType
    <2>4. InFile(b, m) = AtMost(M - d, l)
      BY <1>2 DEF InFile
    <2> HIDE DEF M, d, l
    <2>5. InFile(b, m) = l
      BY <2>1, <2>2, <2>3, <2>4, BaseAssumption DEF AtMost
    <2> QED
      BY <2>5 DEF l
  <1>9. w.left = 0 /\ w.out = SubSeq(b.data, b.position + 1, b.size)
    <2> DEFINE l == getReadSize(b)
    <2>1. w = SoFar(b, m)
      BY <1>2, <1>7
    <2>2. getReadSize(b) \in Nat /\ b.position + getReadSize(b) = b.size
      BY <1>2, InFileIs
    <2> HIDE DEF w
    <2>3. SoFar(b, m) = [pos |-> b.position + l, left |-> l - l,
                         out |-> SubSeq(b.data, b.position + 1, b.position + l)]
      BY <1>8 DEF SoFar
    <2>4. l - l = 0 /\ b.position + l = b.size
      BY <2>2
    <2> HIDE DEF l
    <2>5. w = [pos |-> b.size, left |-> 0, out |-> SubSeq(b.data, b.position + 1, b.size)]
      BY <2>1, <2>3, <2>4
    <2> QED
      BY <2>5
  <1> HIDE DEF w
  <1>10. writeToFile(b).how = "ok" /\ writeToFile(b).out = w.out
    <2>1. ~(w.left > 0)
      BY <1>9
    <2>2. writeToFile(b) = [how |-> "ok", ba |-> b, out |-> w.out]
      BY <1>1, <2>1
    <2> QED
      BY <2>2
  <1>11. toString(b).out = SubSeq(b.data, b.position + 1, b.size)
    BY ToStringIs
  <1> QED
    BY <1>9, <1>10, <1>11

(* The first k stretches of a file, and the k-th of them.                  *)
UpToStretch(x, k) == SubSeq(x, 1, AtMost(k * Base, Len(x)))
Stretched(x, k) == SubSeq(x, (k - 1) * Base + 1, AtMost(k * Base, Len(x)))

LEMMA StretchNext ==
    ASSUME NEW x \in Seq(Cell), NEW k \in Nat \ {0}, (k - 1) * Base <= Len(x)
    PROVE  /\ Stretched(x, k) \in Seq(Cell)
           /\ UpToStretch(x, k - 1) \o Stretched(x, k) = UpToStretch(x, k)
  <1> DEFINE a == (k - 1) * Base
             c == k * Base
             l == Len(x)
             u == AtMost(c, l)
             n == u - a
  <1>1. a \in Nat /\ c = a + Base /\ l \in Nat /\ a <= l
    <2> DEFINE j == k - 1
    <2>1. j \in Nat /\ k = j + 1 /\ l \in Nat
      BY LenProperties
    <2>2. a = j * Base
      OBVIOUS
    <2> HIDE DEF j
    <2>3. a \in Nat /\ c = a + Base
      BY <2>1, <2>2, BaseAssumption
    <2> QED
      BY <2>1, <2>3
  <1>2. Stretched(x, k) = SubSeq(x, a + 1, u) /\ UpToStretch(x, k) = SubSeq(x, 1, u)
    BY DEF Stretched, UpToStretch
  <1>3. UpToStretch(x, k - 1) = SubSeq(x, 1, AtMost(a, l))
    BY DEF UpToStretch
  <1> HIDE DEF a, c, l
  <1>4. AtMost(a, l) = a /\ u \in Nat /\ n \in Nat /\ a + n = u /\ u <= l
    BY <1>1, BaseAssumption DEF AtMost
  <1>5. l = Len(x)
    BY DEF l
  <1> HIDE DEF u, n
  <1>6. SubSeq(x, a + 1, a + n) \in Seq(Cell)
    BY <1>1, <1>4, <1>5, Stretch
  <1>7. SubSeq(x, 1, a) \o SubSeq(x, a + 1, u) = SubSeq(x, 1, u)
    <2> DEFINE z == 0
    <2>1. z \in Nat /\ z <= a /\ z + 1 = 1
      BY <1>1
    <2> HIDE DEF z
    <2>2. SubSeq(x, z + 1, a) \o SubSeq(x, a + 1, a + n) = SubSeq(x, z + 1, a + n)
      BY <1>1, <1>4, <1>5, <2>1, TwoStretches
    <2> QED
      BY <1>4, <2>1, <2>2
  <1> QED
    BY <1>2, <1>3, <1>4, <1>6, <1>7

LEMMA FileComesBack ==
    ASSUME NEW x \in Seq(Cell)
    PROVE  Holds(readFromFile(NewArray, x), x, Len(x))
  <1> DEFINE m == Len(x) \div Base + 1
             S == {y \in ArrayType : Sound(y)}
             piece(k) == SubSeq(x, (k - 1) * Base + 1, AtMost(k * Base, Len(x)))
             step == [k \in 1..m |-> [y \in S |-> write(y, Stretched(x, k))]]
             is(f) == f = [k \in 0..m |-> IF k = 0 THEN NewArray
                                          ELSE write(f[k - 1], Stretched(x, k))]
             f == CHOOSE f : f = [k \in 0..m |-> IF k = 0 THEN NewArray
                       ELSE write(f[k - 1], SubSeq(x, (k - 1) * Base + 1, AtMost(k * Base, Len(x))))]
             holds(a, k) == Holds(a, UpToStretch(x, k), Len(UpToStretch(x, k)))
  <1>1. readFromFile(NewArray, x) = f[m]
    BY DEF readFromFile
  <1>2. f = CHOOSE g : is(g)
    BY DEF Stretched
  <1>3. Len(x) \in Nat /\ m \in Nat \ {0} /\ (m - 1) * Base <= Len(x) /\ Len(x) <= m * Base
    <2> DEFINE l == Len(x)
               q == l \div Base
               d == l % Base
    <2>1. l \in Nat
      BY LenProperties
    <2>2. l = q * Base + d /\ d \in 0..(Base - 1) /\ q \in Nat
      BY <2>1, Division
    <2>3. m = q + 1
      OBVIOUS
    <2> HIDE DEF m, l, q, d
    <2>4. m - 1 = q /\ m * Base = q * Base + Base /\ q * Base \in Nat
      BY <2>2, <2>3, BaseAssumption
    <2>5. (m - 1) * Base = q * Base
      BY <2>4
    <2> DEFINE Q == q * Base
               M == m * Base
               P == (m - 1) * Base
    <2>6. P = Q /\ M = Q + Base /\ Q \in Nat /\ l = Q + d
      BY <2>2, <2>4, <2>5
    <2> HIDE DEF Q, M, P
    <2>7. P <= l /\ l <= M
      BY <2>2, <2>6, BaseAssumption
    <2> QED
      BY <2>1, <2>2, <2>3, <2>7 DEF l, P, M
  <1> HIDE DEF f, m
  <1>4. ASSUME NEW k \in 1..m
        PROVE  /\ k \in Nat \ {0} /\ Stretched(x, k) \in Seq(Cell)
               /\ UpToStretch(x, k - 1) \o Stretched(x, k) = UpToStretch(x, k)
    <2> DEFINE i == k - 1
               j == m - 1
    <2>1. k \in Nat \ {0} /\ i \in Nat /\ j \in Nat /\ i <= j /\ j * Base <= Len(x)
      BY <1>3
    <2>2. i * Base <= j * Base /\ i * Base \in Nat /\ j * Base \in Nat
      <3> HIDE DEF i, j
      <3> QED
        BY <2>1, MonotoneProduct, BaseAssumption
    <2>3. (k - 1) * Base <= Len(x)
      <3> DEFINE u == i * Base
                 v == j * Base
      <3>1. u <= v /\ v <= Len(x) /\ u \in Nat /\ v \in Nat
        BY <2>1, <2>2
      <3> HIDE DEF u, v
      <3>2. u <= Len(x)
        BY <1>3, <3>1
      <3> QED
        BY <3>2 DEF u
    <2> QED
      BY <2>1, <2>3, StretchNext
  <1>5. \E g : is(g)
    <2>1. PICK g : Follows(g, m, NewArray, step)
      BY <1>3, Recursion
    <2>2. NewArray \in S
      BY NewArrayIs DEF Sound
    <2>3. ASSUME NEW k \in 1..m, NEW y \in S
          PROVE  step[k][y] = write(y, Stretched(x, k)) /\ step[k][y] \in S
      BY <1>4, WriteIs DEF Sound
    <2> HIDE DEF step, S
    <2>4. g \in [0..m -> S]
      BY <1>3, <2>1, <2>2, <2>3, StaysIn
    <2>5. ASSUME NEW k \in 1..m PROVE g[k] = write(g[k - 1], Stretched(x, k))
      <3>1. g[k] = step[k][g[k - 1]]
        BY <2>1 DEF Follows
      <3>2. k - 1 \in 0..m
        BY <1>3
      <3> QED
        BY <2>3, <2>4, <3>1, <3>2
    <2>6. g[0] = NewArray /\ g = [k \in 0..m |-> g[k]]
      BY <2>1 DEF Follows
    <2> DEFINE h == [k \in 0..m |-> IF k = 0 THEN NewArray ELSE write(g[k - 1], Stretched(x, k))]
    <2>7. ASSUME NEW k \in 0..m PROVE g[k] = h[k]
      <3>1. CASE k = 0
        BY <2>6, <3>1
      <3>2. CASE k # 0
        BY <1>3, <3>2, <2>5
      <3> QED
        BY <3>1, <3>2
    <2>8. h = [k \in 0..m |-> h[k]]
      OBVIOUS
    <2> HIDE DEF h
    <2>9. g = h
      BY <2>6, <2>7, <2>8
    <2> QED
      BY <2>9 DEF h
  <1>6. is(f)
    <2> HIDE DEF is
    <2> QED
      BY <1>2, <1>5
  <1>7. \A k \in 0..m : holds(f[k], k)
    <2> DEFINE T == {k \in 0..m : holds(f[k], k)}
    <2>1. 0 \in T
      <3>1. f[0] = NewArray
        BY <1>3, <1>6
      <3>2. UpToStretch(x, 0) = <<>>
        <4> DEFINE z == AtMost(0 * Base, Len(x))
        <4>1. z = 0
          BY <1>3, BaseAssumption DEF AtMost
        <4>2. SubSeq(x, 1, 0) = <<>>
          <5> DEFINE i == 1
                     j == 0
          <5>1. i \in Int /\ j \in Int /\ j < i
            OBVIOUS
          <5> HIDE DEF i, j
          <5>2. SubSeq(x, i, j) = <<>>
            BY <5>1, SubSeqEmpty
          <5> QED
            BY <5>2 DEF i, j
        <4>3. UpToStretch(x, 0) = SubSeq(x, 1, z)
          BY DEF UpToStretch
        <4> HIDE DEF z
        <4> QED
          BY <4>1, <4>2, <4>3
      <3>3. Len(UpToStretch(x, 0)) = 0
        BY <3>2
      <3>4. holds(f[0], 0)
        BY <3>1, <3>2, <3>3, HoldsNew
      <3> HIDE DEF holds
      <3> QED
        BY <1>3, <3>4
    <2>2. ASSUME NEW j \in 0..(m - 1), j \in T PROVE j + 1 \in T
      <3> DEFINE k == j + 1
                 y == UpToStretch(x, j)
                 t == Stretched(x, k)
                 a == f[j]
      <3>1. k \in 1..m /\ k \in 0..m /\ k # 0 /\ k - 1 = j
        BY <1>3
      <3>2. Holds(a, y, Len(y))
        BY <2>2
      <3>3. f[k] = write(f[k - 1], t)
        <4> HIDE DEF k
        <4> QED
          BY <1>6, <3>1
      <3>4. f[k] = write(a, t)
        <4> HIDE DEF k, t
        <4> QED
          BY <3>1, <3>3
      <3>5. t \in Seq(Cell) /\ y \o t = UpToStretch(x, k)
        <4> HIDE DEF k
        <4>1. Stretched(x, k) \in Seq(Cell) /\ UpToStretch(x, k - 1) \o Stretched(x, k) = UpToStretch(x, k)
          BY <1>4, <3>1
        <4> QED
          BY <3>1, <4>1
      <3> HIDE DEF a, y, t
      <3>6. Holds(write(a, t), y \o t, Len(y \o t))
        BY <3>2, <3>5, HoldsWrite
      <3>7. holds(f[k], k)
        BY <3>4, <3>5, <3>6
      <3> HIDE DEF holds, k
      <3>8. k \in T
        BY <3>1, <3>7
      <3> QED
        BY <3>8 DEF k
    <2> HIDE DEF T
    <2>3. \A k \in 0..m : k \in T
      BY <1>3, <2>1, <2>2, UpTo
    <2> QED
      BY <2>3 DEF T
  <1>8. UpToStretch(x, m) = x
    <2> DEFINE M == m * Base
    <2>1. M \in Nat /\ Len(x) <= M
      BY <1>3, BaseAssumption
    <2>2. UpToStretch(x, m) = SubSeq(x, 1, AtMost(M, Len(x)))
      BY DEF UpToStretch
    <2> HIDE DEF M
    <2>3. AtMost(M, Len(x)) = Len(x)
      BY <1>3, <2>1 DEF AtMost
    <2> QED
      BY <2>2, <2>3, SubSeqFull
  <1>9. holds(f[m], m)
    BY <1>3, <1>7
  <1> QED
    BY <1>1, <1>8, <1>9

LEMMA FileKeeps ==
    ASSUME Inv
    PROVE  ThroughFile
  <1> SUFFICES ASSUME array.position % Base = 0 \/ getReadSize(array) >= Base
               PROVE  LET f == writeToFile(array)
                          b == setPosition(readFromFile(NewArray, f.out), 0).ba
                      IN f.how = "ok" /\ toString(b).out = toString(array).out
    BY DEF ThroughFile
  <1> DEFINE f == writeToFile(array)
             x == f.out
             c == readFromFile(NewArray, x)
             b == setPosition(c, 0).ba
  <1>1. Sound(array) /\ FromStart(array)
    BY DEF Inv, FromStart
  <1>2. f.how = "ok" /\ x = toString(array).out
    BY <1>1, FileIs
  <1>3. x \in Seq(Cell)
    <2>1. toString(array).out = SubSeq(array.data, array.position + 1, array.size)
      BY <1>1, ToStringIs
    <2>2. array.position \in Nat /\ array.size \in Nat /\ array.position <= array.size
      BY <1>1 DEF Sound, ArrayType
    <2> DEFINE p == array.position
               n == array.size - p
    <2>3. p \in Nat /\ n \in Nat /\ p + n = array.size
      BY <2>2
    <2> HIDE DEF n
    <2>4. SubSeq(array.data, p + 1, p + n) \in Seq(Cell)
      BY <1>1, <2>3, SliceIs
    <2> QED
      BY <1>2, <2>1, <2>3, <2>4
  <1> HIDE DEF f, x
  <1>4. Holds(c, x, Len(x))
    BY <1>3, FileComesBack
  <1> HIDE DEF c
  <1>5. Holds(b, x, 0)
    <2> DEFINE z == 0
    <2>1. z \in 0..Len(x)
      BY <1>3, LenProperties
    <2> HIDE DEF z
    <2>2. Holds(setPosition(c, z).ba, x, z)
      BY <1>4, <2>1, HoldsAt
    <2> QED
      BY <2>2 DEF z
  <1> HIDE DEF b
  <1>6. toString(b).out = x
    <2>1. Sound(b) /\ b.position = 0 /\ Bytes(b) = x
      BY <1>5 DEF Holds
    <2>2. toString(b).out = SubSeq(b.data, b.position + 1, b.size)
      BY <2>1, ToStringIs
    <2>3. b.position + 1 = 1
      BY <2>1
    <2>4. toString(b).out = SubSeq(b.data, 1, b.size)
      BY <2>2, <2>3
    <2> QED
      BY <2>1, <2>4 DEF Bytes
  <1> QED
    BY <1>2, <1>6 DEF b, c, x, f

LEMMA LittleSound ==
    ASSUME NEW b, Sound(b), NEW little \in BOOLEAN
    PROVE  Sound(setIsLittleEndian(b, little))
  BY DEF Sound, ArrayType, setIsLittleEndian

(* Every number that k bytes hold, fixed or as a varint; every string that *)
(* is shorter than the least of the lengths before it can say, though not  *)
(* the empty one where the last node ends (bytearray.cpp:86-395).          *)
EveryNumber(b) ==
    \A k \in 1..8, v \in Int : InRange(k, v) =>
        /\ LET w == writeFixed(b, k, Unsigned(k, v))
               r == readFixed(At(b, w), k)
           IN Back(b, w, [r EXCEPT !.out = Signed(k, @)], v)
        /\ LET w == writeInt(b, k, v) IN Back(b, w, readInt(At(b, w), k), v)

EveryString(b) ==
    \A k \in {0, 2, 4}, s \in Seq(Byte) : Len(s) < Power(Radix, 2) =>
        LET w == writeString(b, k, s)
            r == readString(At(b, w), k)
        IN IF s = <<>> /\ w.position = w.capacity THEN r.how = "faults"
           ELSE Back(b, w, r, s)

EveryValue ==
    \A little \in BOOLEAN :
        LET b == setIsLittleEndian(array, little) IN EveryNumber(b) /\ EveryString(b)

(* Whatever the bytes of a node are and wherever the position is: every    *)
(* number and every such string that is written is read back, not only the *)
(* ones at the edges that RoundTrips names, and a file keeps the bytes     *)
(* under the condition of ThroughFile (bytearray.cpp:546-599).             *)
THEOREM EverythingReturns ==
    ASSUME Radix > 2, \A s \in Strings : Len(s) < Power(Radix, 2)
    PROVE  BufferSpec => [](RoundTrips /\ EveryValue)
  <1>1. ASSUME Inv PROVE RoundTrips
    <2>1. ASSUME NEW little \in BOOLEAN
          PROVE  LET b == setIsLittleEndian(array, little) IN NumbersReturn(b) /\ StringsReturn(b)
      BY <1>1, LittleSound, NumbersCome, StringsCome DEF Inv
    <2>2. ThroughFile
      BY <1>1, FileKeeps
    <2> QED
      BY <2>1, <2>2 DEF RoundTrips
  <1>2. ASSUME Inv PROVE EveryValue
    <2> SUFFICES ASSUME NEW little \in BOOLEAN
                 PROVE  /\ EveryNumber(setIsLittleEndian(array, little))
                        /\ EveryString(setIsLittleEndian(array, little))
      BY DEF EveryValue
    <2> DEFINE b == setIsLittleEndian(array, little)
    <2>1. Sound(b)
      BY <1>2, LittleSound DEF Inv
    <2> HIDE DEF b
    <2>2. EveryNumber(b)
      <3> SUFFICES ASSUME NEW k \in 1..8, NEW v \in Int, InRange(k, v)
                   PROVE  /\ LET w == writeFixed(b, k, Unsigned(k, v))
                                 r == readFixed(At(b, w), k)
                             IN Back(b, w, [r EXCEPT !.out = Signed(k, @)], v)
                          /\ LET w == writeInt(b, k, v) IN Back(b, w, readInt(At(b, w), k), v)
        BY DEF EveryNumber
      <3>1. k \in Nat \ {0}
        OBVIOUS
      <3>2. LET w == writeFixed(b, k, Unsigned(k, v))
                r == readFixed(At(b, w), k)
            IN Back(b, w, [r EXCEPT !.out = Signed(k, @)], v)
        BY <2>1, <3>1, FixedReturns
      <3>3. LET w == writeInt(b, k, v) IN Back(b, w, readInt(At(b, w), k), v)
        BY <2>1, IntReturns
      <3> QED
        BY <3>2, <3>3
    <2>3. EveryString(b)
      BY <2>1, StringReturns DEF EveryString
    <2> QED
      BY <2>2, <2>3 DEF b
  <1> QED
    BY <1>1, <1>2, Invariance, PTL
=============================================================================
