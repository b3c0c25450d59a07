------------------------------ MODULE ByteArray ------------------------------
(***************************************************************************)
(* sylar::ByteArray (bytearray.cpp) as operators on a record: a chain of   *)
(* nodes of m_baseSize bytes, a position, and m_cur, the node at which the *)
(* next byte is read or written. The memory of the nodes is one sequence,  *)
(* node k is its k-th stretch of Base bytes, and Null stands for the next  *)
(* node of the last one. The loops over the nodes are in closed form here; *)
(* module NodeChain has them step by step.                                 *)
(*                                                                         *)
(* Scaled: a byte has Radix values, not 256; a short, a word and a long    *)
(* have 2, 4 and 8 bytes as in the code.                                   *)
(***************************************************************************)
EXTENDS Integers, Sequences

CONSTANTS
    Base,   \* m_baseSize
    Radix   \* the values of a byte

ASSUME BaseAssumption == Base \in Nat \ {0}

ASSUME RadixAssumption == Radix \in {2 * k : k \in 1..128}

Null == 0

(* What a byte holds that nobody has written.                              *)
Junk == Radix

Cell == 0..Radix

NewNodes(k) == [i \in 1..(k * Base) |-> Junk]

NewArray ==
    [position |-> 0, capacity |-> Base, size |-> 0, cur |-> 1, little |-> FALSE,
     data |-> NewNodes(1)]

Nodes(b) == Len(b.data) \div Base

getCapacity(b) == b.capacity - b.position

getReadSize(b) == b.size - b.position

(* The index of the byte before m_cur->ptr + npos.                         *)
Here(b) == (b.cur - 1) * Base + (b.position % Base)

(* The node after n bytes: the next one as soon as a node is used up.      *)
NodeAfter(b, n) ==
    LET k == b.cur + ((b.position % Base) + n) \div Base IN
    IF k > Nodes(b) THEN Null ELSE k

addCapacity(b, n) ==
    IF n = 0 \/ getCapacity(b) >= n THEN b
    ELSE LET count == (n - getCapacity(b) + Base - 1) \div Base IN
         [b EXCEPT !.data = @ \o NewNodes(count),
                   !.capacity = @ + count * Base,
                   !.cur = IF getCapacity(b) = 0 THEN Nodes(b) + 1 ELSE @]

Overlay(data, at, s) ==
    [i \in 1..Len(data) |-> IF i > at /\ i <= at + Len(s) THEN s[i - at] ELSE data[i]]

(* Mutant: what is written anew is not counted if it begins before the end. *)
writeInside(b, s) ==
    IF s = <<>> THEN b
    ELSE LET a == addCapacity(b, Len(s)) IN
         [a EXCEPT !.data = Overlay(@, Here(a), s), !.cur = NodeAfter(a, Len(s)),
                   !.position = @ + Len(s),
                   !.size = IF a.position >= @ THEN a.position + Len(s) ELSE @]

write(b, s) ==
    IF s = <<>> THEN b
    ELSE LET a == addCapacity(b, Len(s))
             p == a.position + Len(s)
         IN [a EXCEPT !.data = Overlay(@, Here(a), s),
                      !.cur = NodeAfter(a, Len(s)),
                      !.position = p,
                      !.size = IF p > @ THEN p ELSE @]

(* What read() gives: "throws" out_of_range, "faults" where the code looks *)
(* at m_cur->size and m_cur is null, which is so for no bytes at the end   *)
(* of the last node.                                                       *)
Throws(b) == [how |-> "throws", ba |-> b, out |-> <<>>]
Faults(b) == [how |-> "faults", ba |-> b, out |-> <<>>]

read(b, n) ==
    IF n > getReadSize(b) THEN Throws(b)
    ELSE IF b.cur = Null THEN Faults(b)
    ELSE [how |-> "ok",
          ba |-> [b EXCEPT !.cur = IF n = 0 THEN @ ELSE NodeAfter(b, n), !.position = @ + n],
          out |-> SubSeq(b.data, Here(b) + 1, Here(b) + n)]

(* read() at a position: it begins at that offset of the current node.     *)
readAt(b, n, p) ==
    LET from == (b.cur - 1) * Base + (p % Base) IN
    IF n > b.size - p THEN Throws(b)
    ELSE IF b.cur = Null THEN Faults(b)
    ELSE [how |-> "ok", ba |-> b, out |-> SubSeq(b.data, from + 1, from + n)]

setPosition(b, v) ==
    IF v > b.capacity THEN Throws(b)
    ELSE [how |-> "ok", out |-> <<>>,
          ba |-> [b EXCEPT !.position = v,
                           !.size = IF v > @ THEN v ELSE @,
                           !.cur = IF v = b.capacity THEN Null ELSE v \div Base + 1]]

clear(b) ==
    [b EXCEPT !.position = 0, !.size = 0, !.capacity = Base, !.cur = 1,
              !.data = SubSeq(@, 1, Base)]

(* toString(): the readable bytes, the position stays.                     *)
toString(b) ==
    IF getReadSize(b) = 0 THEN [how |-> "ok", ba |-> b, out |-> <<>>]
    ELSE readAt(b, getReadSize(b), b.position)

-----------------------------------------------------------------------------
(* Pieces of the nodes for scattered input and output, as pairs of the     *)
(* index of the byte before and the length.                                *)

(* n bytes from offset npos of node k on.                                  *)
Pieces(k, npos, n) ==
    [i \in 1..((npos + n - 1) \div Base + 1) |->
        LET from == IF i = 1 THEN npos ELSE 0
            to == IF i = (npos + n - 1) \div Base + 1 THEN ((npos + n - 1) % Base) + 1 ELSE Base
        IN <<(k + i - 2) * Base + from, to - from>>]

AtMost(n, m) == IF n > m THEN m ELSE n

getReadBuffers(b, n) ==
    LET len == AtMost(n, getReadSize(b)) IN
    IF len = 0 THEN <<>> ELSE Pieces(b.cur, b.position % Base, len)

(* From a position p; the length is still cut to what is left behind the   *)
(* position of the array.                                                  *)
getReadBuffersAt(b, n, p) ==
    LET len == AtMost(n, getReadSize(b)) IN
    IF len = 0 THEN <<>> ELSE Pieces(p \div Base + 1, p % Base, len)

(* Mutant: no room is made first.                                          *)
getWriteBuffersUngrown(b, n) ==
    [ba |-> b, pieces |-> IF n = 0 THEN <<>> ELSE Pieces(b.cur, b.position % Base, n)]

(* addCapacity() first.                                                    *)
getWriteBuffers(b, n) ==
    IF n = 0 THEN [ba |-> b, pieces |-> <<>>]
    ELSE LET a == addCapacity(b, n) IN
         [ba |-> a, pieces |-> Pieces(a.cur, a.position % Base, n)]

(* What getMd5() takes the sum of.                                         *)
Md5Of(b) == getReadBuffersAt(b, b.capacity, 0)

(* The bytes of pieces, and pieces filled with the bytes of s, in order.   *)
Gather(data, pieces) ==
    LET g[i \in 0..Len(pieces)] ==
            IF i = 0 THEN <<>>
            ELSE g[i - 1] \o SubSeq(data, pieces[i][1] + 1, pieces[i][1] + pieces[i][2])
    IN g[Len(pieces)]

Scatter(data, pieces, s) ==
    LET before[i \in 1..(Len(pieces) + 1)] ==
            IF i = 1 THEN 0 ELSE before[i - 1] + pieces[i - 1][2]
        part(i) == SubSeq(s, before[i] + 1, AtMost(before[i + 1], Len(s)))
        f[i \in 0..Len(pieces)] ==
            IF i = 0 THEN data ELSE Overlay(f[i - 1], pieces[i][1], part(i))
    IN f[Len(pieces)]

(* writeToFile: node after node, k of them; the offset in the node is      *)
(* taken from what is left or from a node's size, whichever is less.       *)
writeToFile(b) ==
    LET f[k \in 0..(Nodes(b) + 1)] ==
            IF k = 0 THEN [pos |-> b.position, left |-> getReadSize(b), out |-> <<>>]
            ELSE LET w == f[k - 1]
                     diff == w.pos % Base
                     len == AtMost(w.left, Base) - diff
                     from == (b.cur + k - 2) * Base + diff
                 IN IF w.left <= 0 \/ b.cur = Null \/ b.cur + k - 1 > Nodes(b) THEN w
                    ELSE [pos |-> w.pos + len, left |-> w.left - len,
                          out |-> w.out \o SubSeq(b.data, from + 1, from + len)]
        w == f[Nodes(b) + 1]
    IN [how |-> IF w.left > 0 THEN "faults" ELSE "ok", ba |-> b, out |-> w.out]

(* readFromFile: stretches of m_baseSize bytes, each written.              *)
readFromFile(b, file) ==
    LET f[k \in 0..(Len(file) \div Base + 1)] ==
            IF k = 0 THEN b
            ELSE write(f[k - 1], SubSeq(file, (k - 1) * Base + 1, AtMost(k * Base, Len(file))))
    IN f[Len(file) \div Base + 1]

-----------------------------------------------------------------------------
(* Numbers.                                                                *)

(* b ^ k, in a form that proofs can unfold.                                *)
Power(b, k) == LET p[i \in 0..k] == IF i = 0 THEN 1 ELSE b * p[i - 1] IN p[k]

Values(k) == 0..(Power(Radix, k) - 1)

(* Two's complement of k bytes.                                            *)
Signed(k, v) == IF 2 * v >= Power(Radix, k) THEN v - Power(Radix, k) ELSE v
Unsigned(k, v) == v % Power(Radix, k)

(* The bytes of a number in the memory of the machine, least first.        *)
InMemory(k, v) == [i \in 1..k |-> (v \div Power(Radix, i - 1)) % Radix]

FromMemory(s) ==
    LET f[i \in 0..Len(s)] == IF i = 0 THEN 0 ELSE f[i - 1] + s[i] * Power(Radix, i - 1)
    IN f[Len(s)]

(* byteswap, of endia.h.                                                   *)
byteswap(s) == [i \in 1..Len(s) |-> s[Len(s) + 1 - i]]

(* endia.h compares a character constant of several characters with its    *)
(* characters in the order in which the compiler packs them, and so takes  *)
(* the machine for a big endian one: m_endian is BIG_ENDIAN at first, and  *)
(* it is LITTLE_ENDIAN that exchanges the bytes.                           *)
InOrder(b, s) == IF b.little THEN byteswap(s) ELSE s

setIsLittleEndian(b, val) == [b EXCEPT !.little = val]

writeFixed(b, k, v) == write(b, InOrder(b, InMemory(k, v)))

(* readF...: the value is in out.                                          *)
readFixed(b, k) ==
    LET r == read(b, k) IN
    IF r.how # "ok" THEN r ELSE [r EXCEPT !.out = FromMemory(InOrder(b, r.out))]

(* Mutant: a negative number has the code of the one that it negates.      *)
EncodeZigzagEven(k, v) == IF v < 0 THEN Unsigned(k, -v * 2) ELSE Unsigned(k, v * 2)

EncodeZigzag(k, v) == IF v < 0 THEN Unsigned(k, Unsigned(k, -v) * 2 - 1) ELSE Unsigned(k, v * 2)

(* (v >> 1) ^ -(v & 1): all bits are inverted if v is odd.                 *)
DecodeZigzag(k, v) == IF v % 2 = 0 THEN v \div 2 ELSE -(v \div 2) - 1

Half == Radix \div 2

(* Groups of all bits but one, the highest bit says that more follow.      *)
Varint(v) ==
    LET n == CHOOSE m \in 1..30 : v < Power(Half, m) /\ (m = 1 \/ v >= Power(Half, m - 1)) IN
    [i \in 1..n |-> ((v \div Power(Half, i - 1)) % Half) + (IF i < n THEN Half ELSE 0)]

(* The loop of readUint32 and readUint64: it ends at a byte without that   *)
(* bit, or when the shift has passed the width.                            *)
readVarint(b, k) ==
    LET most == CHOOSE m \in 1..30 : /\ Power(Half, m) >= Power(Radix, k)
                                     /\ Power(Half, m - 1) < Power(Radix, k)
        f[i \in 1..most] ==
            LET r == IF i = 1 THEN read(b, 1) ELSE f[i - 1] IN
            IF i = 1 \/ r.how # "ok" \/ r.out[Len(r.out)] < Half THEN r
            ELSE LET q == read(r.ba, 1) IN [q EXCEPT !.out = r.out \o @]
        r == f[most]
    IN IF r.how # "ok" THEN [r EXCEPT !.out = <<>>]
       ELSE [r EXCEPT !.out =
                LET g[i \in 0..Len(r.out)] ==
                        IF i = 0 THEN 0 ELSE g[i - 1] + (r.out[i] % Half) * Power(Half, i - 1)
                IN g[Len(r.out)] % Power(Radix, k)]

writeInt(b, k, v) == write(b, Varint(EncodeZigzag(k, v)))

readInt(b, k) ==
    LET r == readVarint(b, k) IN
    IF r.how # "ok" THEN r ELSE [r EXCEPT !.out = DecodeZigzag(k, r.out)]

(* Strings behind their length, in k bytes or as a varint (k = 0).         *)
writeString(b, k, s) ==
    write(IF k = 0 THEN write(b, Varint(Len(s))) ELSE writeFixed(b, k, Len(s)), s)

readString(b, k) ==
    LET r == IF k = 0 THEN readVarint(b, 8) ELSE readFixed(b, k) IN
    IF r.how # "ok" THEN r ELSE read(r.ba, r.out)
=============================================================================
