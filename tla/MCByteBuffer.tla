----------------------------- MODULE MCByteBuffer -----------------------------
(* Nodes of 3 bytes of 2 bits: a word lies over two nodes, a long over three. *)
EXTENDS ByteBuffer

SomeStrings == {<<1>>, <<2, 3>>, <<3, 1, 0, 2>>}

Client == INSTANCE NodeChain

(* The array as a chain of nodes, and a chain as an array.                 *)
Chain(b) ==
    LET node(k) == [ptr |-> SubSeq(b.data, (k - 1) * Base + 1, k * Base), size |-> Base,
                    next |-> IF k = Nodes(b) THEN Null ELSE k + 1]
    IN
    [nodes |-> SubSeq([k \in 1..Nodes(b) |-> node(k)], 1, Nodes(b)), cur |-> b.cur,
     position |-> b.position, capacity |-> b.capacity, size |-> b.size,
     little |-> b.little]

RECURSIVE Memory(_, _)
Memory(c, k) == IF k = Null THEN <<>> ELSE c.nodes[k].ptr \o Memory(c, c.nodes[k].next)

Same(b, c) ==
    /\ b.data = Memory(c, 1)
    /\ \A f \in {"position", "capacity", "size", "cur", "little"} : b[f] = c[f]

SameAnswer(r, q) == Same(r.ba, q.ba) /\ r.how = q.how /\ r.out = q.out

SamePieces(s, t) ==
    s = [i \in DOMAIN t |-> <<(t[i][1] - 1) * Base + t[i][2], t[i][3]>>]

(* The loops over the nodes come to what the closed forms say: from every  *)
(* array, each operation of the client's copy (client/sylar/bytearray.cpp, *)
(* followed loop by loop) gives what that of the server's gives.           *)
SameAsLoops ==
    LET c == Chain(array) IN
    last.how # "faults" =>
    /\ \A n \in 0..Most :
        /\ SameAnswer(read(array, n), Client!read(c, n))
        /\ SameAnswer(readAt(array, n, array.position), Client!readAt(c, n, array.position))
        /\ SameAnswer(setPosition(array, n), Client!setPosition(c, n))
        /\ SamePieces(getReadBuffers(array, n), Client!getReadBuffers(c, n))
        /\ LET w == getWriteBuffers(array, n)
               v == Client!getWriteBuffers(c, n)
           IN Same(w.ba, v.ba) /\ SamePieces(w.pieces, v.pieces)
    /\ \A s \in Strings \cup {<<>>} : Same(write(array, s), Client!write(c, s))
    /\ \A k \in {4, 8}, v \in {0, Half + 1, 2 * Half ^ 3} :
        /\ Same(writeFixed(array, k, v), Client!writeFixed(c, k, v))
        /\ Same(writeInt(array, k, -v), Client!writeInt(c, k, -v))
        /\ SameAnswer(readFixed(array, k), Client!readFixed(c, k))
        /\ SameAnswer(readInt(array, k), Client!readInt(c, k))
    /\ \A k \in {0, 2} :
        /\ \A s \in Strings : Same(writeString(array, k, s), Client!writeString(c, k, s))
        /\ SameAnswer(readString(array, k), Client!readString(c, k))
    /\ Same(clear(array), Client!clear(c))
    /\ SameAnswer(toString(array), Client!toString(c))
    /\ SamePieces(Md5Of(array), Client!Md5Of(c))
    /\ SameAnswer(writeToFile(array), Client!writeToFile(c))
    /\ Same(readFromFile(array, array.data), Client!readFromFile(c, array.data))
=============================================================================
