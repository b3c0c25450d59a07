------------------------------ MODULE NodeChain ------------------------------
(***************************************************************************)
(* The client's copy of sylar::ByteArray, loop by loop: nodes linked by    *)
(* next, m_root (always node 1), m_cur, and the walks over them. It is the *)
(* same code as the server's, so that its operators, which follow the      *)
(* loops, and those of module ByteArray, which are closed forms, must      *)
(* agree; see module ByteBuffer.                                           *)
(*                                                                         *)
(* The operators are RECURSIVE: no theorem is about this module.           *)
(***************************************************************************)
EXTENDS Integers, Sequences

CONSTANTS Base, Radix

Null == 0
Junk == Radix

Node(s) == [ptr |-> [i \in 1..s |-> Junk], next |-> Null, size |-> s]

NewChain ==
    [nodes |-> <<Node(Base)>>, cur |-> 1, position |-> 0, capacity |-> Base, size |-> 0,
     little |-> FALSE]

getCapacity(c) == c.capacity - c.position
getReadSize(c) == c.size - c.position

Copy(ptr, at, s) ==
    [i \in DOMAIN ptr |-> IF i > at /\ i <= at + Len(s) THEN s[i - at] ELSE ptr[i]]

RECURSIVE Last(_, _)
Last(c, tmp) == IF c.nodes[tmp].next = Null THEN tmp ELSE Last(c, c.nodes[tmp].next)

RECURSIVE Append1(_, _, _)
(* count nodes behind node tmp.                                            *)
Append1(c, tmp, count) ==
    IF count = 0 THEN c
    ELSE LET new == Len(c.nodes) + 1 IN
         Append1([c EXCEPT !.nodes = Append([@ EXCEPT ![tmp].next = new], Node(Base)),
                           !.capacity = @ + Base],
                 new, count - 1)

addCapacity(c, size) ==
    LET old_cap == getCapacity(c)
        count == CHOOSE k \in 0..(size + 1) :
                    k * Base >= size - old_cap /\ (k - 1) * Base < size - old_cap
        last == Last(c, 1)
        d == Append1(c, last, count)
    IN IF size = 0 \/ old_cap >= size THEN c
       ELSE [d EXCEPT !.cur = IF old_cap = 0 THEN d.nodes[last].next ELSE @]

RECURSIVE writeLoop(_, _, _, _)
writeLoop(c, npos, ncap, buf) ==
    LET n == c.nodes[c.cur] IN
    IF ncap >= Len(buf)
    THEN [c EXCEPT !.nodes[c.cur].ptr = Copy(@, npos, buf),
                   !.cur = IF n.size = npos + Len(buf) THEN n.next ELSE @,
                   !.position = @ + Len(buf)]
    ELSE writeLoop([c EXCEPT !.nodes[c.cur].ptr = Copy(@, npos, SubSeq(buf, 1, ncap)),
                             !.cur = n.next,
                             !.position = @ + ncap],
                   0, c.nodes[n.next].size, SubSeq(buf, ncap + 1, Len(buf)))

write(c, buf) ==
    IF buf = <<>> THEN c
    ELSE LET a == addCapacity(c, Len(buf))
             npos == a.position % Base
             w == writeLoop(a, npos, a.nodes[a.cur].size - npos, buf)
         IN [w EXCEPT !.size = IF w.position > @ THEN w.position ELSE @]

(* The loop of read(), from a node that exists.                            *)
RECURSIVE readLoop(_, _, _, _, _)
readLoop(c, npos, ncap, size, out) ==
    LET n == c.nodes[c.cur] IN
    IF size = 0 THEN [how |-> "ok", ba |-> c, out |-> out]
    ELSE IF ncap >= size
    THEN [how |-> "ok", out |-> out \o SubSeq(n.ptr, npos + 1, npos + size),
          ba |-> [c EXCEPT !.cur = IF n.size = npos + size THEN n.next ELSE @,
                           !.position = @ + size]]
    ELSE IF n.next = Null THEN [how |-> "faults", ba |-> c, out |-> out]
    ELSE readLoop([c EXCEPT !.cur = n.next, !.position = @ + ncap],
                  0, c.nodes[n.next].size, size - ncap,
                  out \o SubSeq(n.ptr, npos + 1, npos + ncap))

readFrom(c, size, position) ==
    LET npos == position % Base IN
    IF size > c.size - position THEN [how |-> "throws", ba |-> c, out |-> <<>>]
    ELSE IF c.cur = Null THEN [how |-> "faults", ba |-> c, out |-> <<>>]
    ELSE readLoop(c, npos, c.nodes[c.cur].size - npos, size, <<>>)

read(c, size) == readFrom(c, size, c.position)

readAt(c, size, position) == [readFrom(c, size, position) EXCEPT !.ba = c]

toString(c) ==
    IF getReadSize(c) = 0 THEN [how |-> "ok", ba |-> c, out |-> <<>>]
    ELSE readAt(c, getReadSize(c), c.position)

(* The node where what is left of v is not more than its size.             *)
RECURSIVE setPositionLoop(_, _, _)
setPositionLoop(c, cur, v) ==
    IF v > c.nodes[cur].size THEN setPositionLoop(c, c.nodes[cur].next, v - c.nodes[cur].size)
    ELSE IF v = c.nodes[cur].size THEN c.nodes[cur].next
    ELSE cur

setPosition(c, v) ==
    IF v > c.capacity THEN [how |-> "throws", ba |-> c, out |-> <<>>]
    ELSE [how |-> "ok", out |-> <<>>,
          ba |-> [c EXCEPT !.position = v,
                           !.size = IF v > @ THEN v ELSE @,
                           !.cur = setPositionLoop(c, 1, v)]]

clear(c) ==
    [c EXCEPT !.nodes = <<[@[1] EXCEPT !.next = Null]>>, !.cur = 1,
              !.position = 0, !.capacity = Base, !.size = 0]

-----------------------------------------------------------------------------
(* The buffers for scattered input and output: node, offset and length.    *)

RECURSIVE buffersLoop(_, _, _, _, _)
buffersLoop(c, cur, npos, ncap, len) ==
    IF len = 0 THEN <<>>
    ELSE IF ncap >= len THEN <<<<cur, npos, len>>>>
    ELSE LET next == c.nodes[cur].next IN
         <<<<cur, npos, ncap>>>> \o buffersLoop(c, next, 0, c.nodes[next].size, len - ncap)

RECURSIVE nodeAt(_, _, _)
nodeAt(c, cur, count) == IF count = 0 THEN cur ELSE nodeAt(c, c.nodes[cur].next, count - 1)

Cut(c, len) == IF len > getReadSize(c) THEN getReadSize(c) ELSE len

getReadBuffers(c, len) ==
    LET npos == c.position % Base IN
    IF Cut(c, len) = 0 THEN <<>>
    ELSE buffersLoop(c, c.cur, npos, c.nodes[c.cur].size - npos, Cut(c, len))

getReadBuffersAt(c, len, position) ==
    LET npos == position % Base
        cur == nodeAt(c, 1, position \div Base)
    IN IF Cut(c, len) = 0 THEN <<>>
       ELSE buffersLoop(c, cur, npos, c.nodes[cur].size - npos, Cut(c, len))

getWriteBuffers(c, len) ==
    LET a == addCapacity(c, len)
        npos == a.position % Base
    IN IF len = 0 THEN [ba |-> c, pieces |-> <<>>]
       ELSE [ba |-> a, pieces |-> buffersLoop(a, a.cur, npos, a.nodes[a.cur].size - npos, len)]

(* What getMd5() takes the sum of: the buffers of all there is to read,    *)
(* but from the beginning.                                                 *)
Md5Of(c) == getReadBuffersAt(c, c.capacity, 0)

-----------------------------------------------------------------------------
(* Files. writeToFile subtracts the offset in the first node from what is  *)
(* left or from a node's size, whichever is less, and goes to the next     *)
(* node: with an offset it skips bytes of that node.                       *)
RECURSIVE writeToFileLoop(_, _, _, _, _)
writeToFileLoop(c, cur, pos, read_size, file) ==
    LET diff == pos % Base
        len == (IF read_size > Base THEN Base ELSE read_size) - diff
    IN IF read_size <= 0 THEN [how |-> "ok", ba |-> c, out |-> file]
       ELSE IF cur = Null THEN [how |-> "faults", ba |-> c, out |-> file]
       ELSE writeToFileLoop(c, c.nodes[cur].next, pos + len, read_size - len,
                            file \o SubSeq(c.nodes[cur].ptr, diff + 1, diff + len))

writeToFile(c) == writeToFileLoop(c, c.cur, c.position, getReadSize(c), <<>>)

(* Stretches of m_baseSize bytes until the end of the file is met, which a *)
(* stretch that ends exactly there does not do: one more, of no bytes.     *)
RECURSIVE readFromFile(_, _)
readFromFile(c, file) ==
    IF Len(file) < Base THEN write(c, file)
    ELSE readFromFile(write(c, SubSeq(file, 1, Base)), SubSeq(file, Base + 1, Len(file)))
-----------------------------------------------------------------------------
(* Numbers and strings, bit group by bit group and byte by byte.           *)
Half == Radix \div 2

RECURSIVE memory(_, _)
memory(k, v) == IF k = 0 THEN <<>> ELSE <<v % Radix>> \o memory(k - 1, v \div Radix)

RECURSIVE value(_)
value(s) == IF s = <<>> THEN 0 ELSE Head(s) + Radix * value(Tail(s))

RECURSIVE byteswap(_)
byteswap(s) == IF s = <<>> THEN <<>> ELSE Append(byteswap(Tail(s)), Head(s))

setIsLittleEndian(c, val) == [c EXCEPT !.little = val]

writeFixed(c, k, v) ==
    write(c, IF c.little THEN byteswap(memory(k, v)) ELSE memory(k, v))

readFixed(c, k) ==
    LET r == read(c, k)
        v == IF c.little THEN byteswap(r.out) ELSE r.out
    IN IF r.how # "ok" THEN r ELSE [r EXCEPT !.out = value(v)]

EncodeZigzag(k, v) == IF v < 0 THEN -v * 2 - 1 ELSE v * 2

DecodeZigzag(v) == IF v % 2 = 0 THEN v \div 2 ELSE -(v \div 2) - 1

RECURSIVE varintLoop(_)
varintLoop(v) ==
    IF v >= Half THEN <<(v % Half) + Half>> \o varintLoop(v \div Half) ELSE <<v>>

(* unit is the worth of the next group; the loop ends when it is past the  *)
(* width, limit.                                                           *)
RECURSIVE readVarintLoop(_, _, _, _)
readVarintLoop(c, unit, limit, result) ==
    LET r == read(c, 1) IN
    IF unit >= limit THEN [how |-> "ok", ba |-> c, out |-> result]
    ELSE IF r.how # "ok" THEN r
    ELSE IF r.out[1] < Half
    THEN [r EXCEPT !.out = (result + r.out[1] * unit) % limit]
    ELSE readVarintLoop(r.ba, unit * Half, limit, (result + (r.out[1] % Half) * unit) % limit)

readVarint(c, k) == readVarintLoop(c, 1, Radix ^ k, 0)

writeInt(c, k, v) == write(c, varintLoop(EncodeZigzag(k, v)))

readInt(c, k) ==
    LET r == readVarint(c, k) IN
    IF r.how # "ok" THEN r ELSE [r EXCEPT !.out = DecodeZigzag(@)]

writeString(c, k, s) ==
    write(IF k = 0 THEN write(c, varintLoop(Len(s))) ELSE writeFixed(c, k, Len(s)), s)

readString(c, k) ==
    LET r == IF k = 0 THEN readVarint(c, 8) ELSE readFixed(c, k) IN
    IF r.how # "ok" THEN r ELSE read(r.ba, r.out)
=============================================================================
