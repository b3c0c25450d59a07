------------------------------ MODULE ByteBuffer ------------------------------
(***************************************************************************)
(* A ByteArray in use: by its own reads and writes, and by a SocketStream, *)
(* which receives into its write buffers and sends from its read buffers,  *)
(* fewer bytes than there is room for as the socket likes.                 *)
(***************************************************************************)
EXTENDS ByteArray

CONSTANTS
    Strings,  \* what is written and received
    Most,     \* bound: positions
    MaxOps    \* bound: operations

ASSUME BufferAssumption ==
    /\ Strings \subseteq Seq(0..(Radix - 1))
    /\ Most \in Nat /\ MaxOps \in Nat

VARIABLES
    array,    \* the ByteArray
    last,     \* what the last operation gave
    ops       \* operations so far

bufferVars == <<array, last, ops>>

Answer(r) == [how |-> r.how, out |-> r.out]
Done == [how |-> "ok", out |-> <<>>]

BufferInit ==
    /\ array = NewArray
    /\ last = Done
    /\ ops = 0

(* After a fault there is no process any more.                             *)
Step ==
    /\ last.how # "faults"
    /\ ops < MaxOps
    /\ ops' = ops + 1

Write(s) ==
    /\ Step
    /\ array.position + Len(s) <= Most
    /\ array' = write(array, s)
    /\ last' = Done

Read(n) ==
    /\ Step
    /\ LET r == read(array, n) IN array' = r.ba /\ last' = Answer(r)

SetPosition(v) ==
    /\ Step
    /\ LET r == setPosition(array, v) IN array' = r.ba /\ last' = Answer(r)

ToString ==
    /\ Step
    /\ last' = Answer(toString(array))
    /\ UNCHANGED array

Clear ==
    /\ Step
    /\ array' = clear(array)
    /\ last' = Done

(* SocketStream::read(ba, n): s comes in, n bytes had room.                *)
Received(b, n, s) ==
    LET w == getWriteBuffers(b, n) IN
    setPosition([w.ba EXCEPT !.data = Scatter(@, w.pieces, s)], w.ba.position + Len(s)).ba

Receive(n, s) ==
    /\ Step
    /\ Len(s) \in 1..n
    /\ array.position + n <= Most
    /\ array' = Received(array, n, s)
    /\ last' = Done

(* SocketStream::write(ba, n): the socket takes m bytes.                   *)
Send(n, m) ==
    LET out == Gather(array.data, getReadBuffers(array, n)) IN
    /\ Step
    /\ m \in 1..Len(out)
    /\ array' = setPosition(array, array.position + m).ba
    /\ last' = [how |-> "ok", out |-> SubSeq(out, 1, m)]

BufferNext ==
    \/ \E s \in Strings : Write(s)
    \/ \E n \in 0..Most : Read(n) \/ SetPosition(n)
    \/ SetPosition(array.capacity + 1)
    \/ ToString \/ Clear
    \/ \E n \in 1..Most, s \in Strings : Receive(n, s)
    \/ \E n, m \in 1..Most : Send(n, m)

BufferSpec == BufferInit /\ [][BufferNext]_bufferVars

-----------------------------------------------------------------------------
BufferType ==
    /\ array \in [position : Nat, capacity : Nat, size : Nat, cur : Nat,
                  little : BOOLEAN, data : Seq(Cell)]
    /\ ops \in 0..MaxOps

(* The current node is that of the position, which at the end of the last  *)
(* node is none; the bytes counted are within the nodes. write, read,      *)
(* setPosition, addCapacity and clear each move the two separately         *)
(* (bytearray.cpp:397-544, 601-631).                                       *)
CursorAtPosition ==
    /\ array.position <= array.size
    /\ array.size <= array.capacity
    /\ Len(array.data) = array.capacity
    /\ array.cur = IF array.position = array.capacity THEN Null ELSE array.position \div Base + 1

Numbers(k) ==
    LET top == Power(Radix, k) \div 2 - 1
        edge == {0, 1, Half - 1, Half, Radix, 2 * Power(Half, 3), top} \cap 0..top
    IN edge \cup {-v - 1 : v \in edge}

Back(b, w, r, v) == r.how = "ok" /\ r.out = v /\ r.ba.position = w.position

At(b, w) == setPosition(w, b.position).ba

(* A file written from the array and read into another gives the same      *)
(* bytes, if the position is at the start of a node or a node's size is    *)
(* left to read (bytearray.cpp:546-599; otherwise bytes are left out).     *)
ThroughFile ==
    (array.position % Base = 0 \/ getReadSize(array) >= Base) =>
    LET f == writeToFile(array)
        b == setPosition(readFromFile(NewArray, f.out), 0).ba
    IN f.how = "ok" /\ toString(b).out = toString(array).out

NumbersReturn(b) ==
    /\ \A k \in {1, 2, 4} : \A v \in Numbers(k) :
        LET w == writeFixed(b, k, Unsigned(k, v))
            r == readFixed(At(b, w), k)
        IN Back(b, w, [r EXCEPT !.out = Signed(k, @)], v)
    /\ \A k \in {4, 8} : \A v \in Numbers(k) :
        LET w == writeInt(b, k, v) IN Back(b, w, readInt(At(b, w), k), v)

StringsReturn(b) ==
    \A k \in {0, 2, 4}, s \in Strings \cup {<<>>} :
        LET w == writeString(b, k, s)
            r == readString(At(b, w), k)
        IN IF s = <<>> /\ w.position = w.capacity THEN r.how = "faults"
           ELSE Back(b, w, r, s)

(* Whatever the position is within its node: a number or a string that is  *)
(* written is read back, in both byte orders and as a varint, the position *)
(* is the same after both, and a file keeps the bytes. Not so the empty    *)
(* string where its length ends at the end of the last node: reading no    *)
(* bytes there looks at a node that is not there (bytearray.cpp:466-468).  *)
RoundTrips ==
    last.how # "faults" =>
        /\ \A little \in BOOLEAN :
            LET b == setIsLittleEndian(array, little) IN NumbersReturn(b) /\ StringsReturn(b)
        /\ ThroughFile

(* Seen from outside, the array is a file of bytes with a position: no     *)
(* operation loses, moves or invents a byte at the end of a node           *)
(* (bytearray.h: what each operation's comment promises).                  *)
Flatly == INSTANCE FlatBuffer WITH
    bytes <- SubSeq(array.data, 1, array.size), pos <- array.position, answer <- last

ActsAsBuffer == Flatly!Spec
=============================================================================
