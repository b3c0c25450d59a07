----------------------------- MODULE RockExchange -----------------------------
(***************************************************************************)
(* One connection between the client program and the Rock server, byte by  *)
(* byte: messages are put into a ByteArray, compressed if they are long,   *)
(* sent behind a header, in pieces as large as the socket takes them, and  *)
(* read, unpacked and parsed on the other side.                            *)
(*                                                                         *)
(* The fibers of the stream and its queue are in module RequestStream;     *)
(* here the reader, the handler and the writer of the server are one after *)
(* the other, as the client sends a request only after the last response.  *)
(***************************************************************************)
EXTENDS ByteArray

CONSTANTS
    Texts,     \* what may be typed, without the zero that ends a C string
    Limits,    \* pairs of rock.protocol.gzip_min_length, of server and client
    MAX_LEN,   \* socket.buff_size
    BuffSize,  \* m_buffSize of a ZlibStream
    MaxTexts   \* bound: texts typed

(* scanf("%s") gives no empty text, and one that fits the buffer.          *)
ASSUME ExchangeAssumption ==
    /\ Radix > 2
    /\ MAX_LEN \in Nat \ {0} /\ BuffSize \in Nat \ {0}
    /\ Limits \subseteq [{"server", "client"} -> Nat]
    /\ Texts \subseteq Seq(1..(Radix - 1)) \ {<<>>}
    /\ \A t \in Texts : 2 * (21 + Len(t)) < Power(Radix, 4)
    /\ MaxTexts \in Nat /\ MaxTexts < Power(Radix, 4)

VARIABLES
    limit,     \* gzip_min_length of each side
    link,      \* bytes on their way to each side
    isConnected,
    in,        \* what each side is reading
    out,       \* what each side is writing
    request,   \* requests the reader has handed to the worker
    m_sn,      \* of the client
    typed, printed,
    client,    \* where main() is: "type", "send", "recv" or "end"
    why        \* why each side closed its socket: "" or how, and the length it had read

ioVars == <<link, in, out>>
mainVars == <<m_sn, typed, printed, client>>
vars == <<limit, ioVars, isConnected, request, mainVars, why>>

Sides == {"server", "client"}
Other(s) == IF s = "server" THEN "client" ELSE "server"

REQUEST == 1
RESPONSE == 2
NOTIFY == 3

-----------------------------------------------------------------------------
(* Messages: a type and its fields. A field is a word or a string.         *)

RequestFields == <<"sn", "cmd", "body">>
ResponseFields == <<"sn", "cmd", "result", "resultStr", "body">>
NotifyFields == <<"notify", "body">>

Fields(type) ==
    CASE type = REQUEST -> RequestFields
      [] type = RESPONSE -> ResponseFields
      [] type = NOTIFY -> NotifyFields

IsString(field) == field \in {"resultStr", "body"}

serializeToByteArray(ba, msg) ==
    LET fields == Fields(msg.type)
        f[i \in 0..Len(fields)] ==
            IF i = 0 THEN writeFixed(ba, 1, msg.type)
            ELSE IF IsString(fields[i]) THEN writeString(f[i - 1], 4, msg[fields[i]])
            ELSE writeFixed(f[i - 1], 4, msg[fields[i]])
    IN f[Len(fields)]

toByteArray(msg) == serializeToByteArray(NewArray, msg)

(* What has been read behind what was read before, unless that has failed. *)
ReadNext(g, field) ==
    IF g.how # "ok" THEN g
    ELSE [(IF IsString(field) THEN readString(g.ba, 4) ELSE readFixed(g.ba, 4))
            EXCEPT !.out = Append(g.out, @)]

(* The message of the fields read, or how the reading failed: an exception *)
(* or a fault.                                                             *)
MessageOf(r, type, fields) ==
    [how |-> r.how,
     msg |-> IF r.how # "ok" THEN [type |-> type]
             ELSE [k \in {"type"} \cup {fields[i] : i \in DOMAIN fields} |->
                    IF k = "type" THEN type
                    ELSE r.out[CHOOSE i \in DOMAIN fields : fields[i] = k]]]

parseFromByteArray(ba, type) ==
    LET fields == Fields(type)
        f[i \in 0..Len(fields)] ==
            IF i = 0 THEN [how |-> "ok", ba |-> ba, out |-> <<>>]
            ELSE ReadNext(f[i - 1], fields[i])
    IN MessageOf(f[Len(fields)], type, fields)

-----------------------------------------------------------------------------
(* Compression. zlib is a code of its own: here zeros are counted, behind  *)
(* a zero, and it gives its output when it is told that this is the end.   *)

Deflated(s) ==
    LET f[i \in 0..Len(s)] ==
            IF i = 0 THEN <<>>
            ELSE LET t == f[i - 1]
                     n == Len(t)
                 IN IF s[i] # 0 THEN Append(t, s[i])
                    ELSE IF n > 1 /\ t[n - 1] = 0 /\ t[n] < Radix - 1 /\ s[i - 1] = 0
                    THEN [t EXCEPT ![n] = @ + 1]
                    ELSE t \o <<0, 1>>
    IN f[Len(s)]

Inflated(s) ==
    LET f[i \in 0..Len(s)] ==
            IF i = 0 THEN [t |-> <<>>, zero |-> FALSE]
            ELSE LET g == f[i - 1] IN
                 IF g.zero THEN [t |-> g.t \o [j \in 1..s[i] |-> 0], zero |-> FALSE]
                 ELSE IF s[i] = 0 THEN [g EXCEPT !.zero = TRUE]
                 ELSE [g EXCEPT !.t = Append(@, s[i])]
    IN f[Len(s)].t

(* m_buffs: all are full but the last, which is not, and may be empty.     *)
NewStream(m_encode) == [encode |-> m_encode, fed |-> <<>>, buffs |-> <<>>]

(* What zlib has given of what was fed.                                    *)
Coded(z, fed) == IF z.encode THEN Deflated(fed) ELSE Inflated(fed)

(* Mutant: the output is taken as one buffer.                              *)
encodeOneBuffer(z, v, finish) ==
    LET fed == z.fed \o v
        all == IF finish THEN Coded(z, fed) ELSE <<>>
    IN [encode |-> z.encode, fed |-> fed, buffs |-> <<SubSeq(all, 1, AtMost(Len(all), BuffSize))>>]

(* encode() and decode() of a piece of input: output fills the last buffer *)
(* and new ones, until one is not full.                                    *)
encode(z, v, finish) ==
    LET fed == z.fed \o v
        all == IF finish THEN Coded(z, fed) ELSE <<>>
    IN [encode |-> z.encode, fed |-> fed,
        buffs |-> [i \in 1..(Len(all) \div BuffSize + 1) |->
            SubSeq(all, (i - 1) * BuffSize + 1, AtMost(i * BuffSize, Len(all)))]]

(* getByteArray() of a stream.                                             *)
getByteArray(z) ==
    LET f[i \in 0..Len(z.buffs)] == IF i = 0 THEN NewArray ELSE write(f[i - 1], z.buffs[i]) IN
    setPosition(f[Len(z.buffs)], 0).ba

(* write() of all there is to read, flush() and getByteArray().            *)
Through(ba, m_encode) ==
    LET z == encode(NewStream(m_encode), Gather(ba.data, getReadBuffers(ba, getReadSize(ba))), FALSE)
    IN getByteArray(encode(z, <<>>, TRUE))

-----------------------------------------------------------------------------
(* Frames.                                                                 *)

Magic == <<1, 2>>
HeaderSize == 8

Header(flag, length) == Magic \o <<1, flag>> \o InMemory(4, length)

(* serializeTo(): the header and the array to send.                        *)
serializeTo(min, msg) ==
    LET ba == setPosition(toByteArray(msg), 0).ba
        zipped == Through(ba, TRUE)
    IN IF ba.size >= min THEN [head |-> Header(1, zipped.size), ba |-> zipped]
       ELSE [head |-> Header(0, ba.size), ba |-> ba]

(* parseFrom(): the length in a header, which is refused if it is wrong or *)
(* not below gzip_min_length; messages as long as that are for compression *)
(* only when they are sent.                                                *)
LengthIn(head) == FromMemory(SubSeq(head, 5, 8))

GoodHeader(head, min) ==
    SubSeq(head, 1, 2) = Magic /\ head[3] = 1 /\ LengthIn(head) < min

parseFrom(head, received) ==
    LET ba == setPosition(received, 0).ba
        plain == IF head[4] % 2 = 1 THEN Through(ba, FALSE) ELSE ba
        t == readFixed(plain, 1)
    IN IF t.how # "ok" \/ t.out \notin {REQUEST, RESPONSE, NOTIFY} THEN [how |-> "throws"]
       ELSE parseFromByteArray(t.ba, t.out)

-----------------------------------------------------------------------------
Reading == [pc |-> "head", head |-> <<>>, left |-> HeaderSize, ba |-> NewArray]
Silent == [pc |-> "idle", head |-> <<>>, ba |-> NewArray]

Init ==
    /\ limit \in Limits
    /\ link = [s \in Sides |-> <<>>]
    /\ isConnected = [s \in Sides |-> TRUE]
    /\ in = [s \in Sides |-> IF s = "server" THEN Reading ELSE Silent]
    /\ out = [s \in Sides |-> Silent]
    /\ request = <<>>
    /\ m_sn = 0
    /\ typed = <<>> /\ printed = <<>>
    /\ client = "type"
    /\ why = [s \in Sides |-> <<"", 0>>]

(* A socket is closed, for a reason; nothing more is read or written.      *)
Close(s, reason, length) ==
    /\ isConnected' = [isConnected EXCEPT ![s] = FALSE]
    /\ in' = [in EXCEPT ![s] = Silent]
    /\ out' = [out EXCEPT ![s] = Silent]
    /\ why' = [why EXCEPT ![s] = <<reason, length>>]
    /\ UNCHANGED link

(* What recv may give: from one byte to as many as are wanted.             *)
CanTake(s, n) == 1..AtMost(AtMost(n, MAX_LEN), Len(link[s]))

(* Socket::recv of n bytes, and Socket::send: what is sent to a socket that *)
(* is closed is lost.                                                      *)
recv(s, n) == link' = [link EXCEPT ![s] = SubSeq(@, n + 1, Len(@))]

send(s, bytes) ==
    link' = [link EXCEPT ![Other(s)] = IF isConnected[Other(s)] THEN @ \o bytes ELSE @]

(* readFixSize of the header, and of the array behind it.                  *)
ReadHead(s) ==
    /\ in[s].pc = "head" /\ in[s].left > 0
    /\ \E n \in CanTake(s, in[s].left) :
        /\ recv(s, n)
        /\ in' = [in EXCEPT ![s].head = @ \o SubSeq(link[s], 1, n), ![s].left = @ - n]
    /\ UNCHANGED <<out, isConnected, why>>

(* SocketStream::read(ba, n): into the write buffers of the array.         *)
Filled(ba, n, s) ==
    LET w == getWriteBuffers(ba, n) IN
    setPosition([w.ba EXCEPT !.data = Scatter(@, w.pieces, s)], w.ba.position + Len(s)).ba

ReadBody(s) ==
    /\ in[s].pc = "body" /\ in[s].left > 0
    /\ \E n \in CanTake(s, in[s].left) :
        /\ recv(s, n)
        /\ in' = [in EXCEPT
                ![s].ba = Filled(@, AtMost(in[s].left, MAX_LEN), SubSeq(link[s], 1, n)),
                ![s].left = @ - n]
    /\ UNCHANGED <<out, isConnected, why>>

CheckHead(s) ==
    /\ in[s].pc = "head" /\ in[s].left = 0
    /\ IF GoodHeader(in[s].head, limit[s])
       THEN /\ in' = [in EXCEPT ![s].pc = "body", ![s].left = LengthIn(in[s].head)]
            /\ UNCHANGED <<link, out, isConnected, why>>
       ELSE Close(s, "refused", LengthIn(in[s].head))

(* The socket is at its end, which the peer has closed, or it is reset.    *)
ReadFails(s) ==
    /\ in[s].pc \in {"head", "body"} /\ in[s].left > 0
    /\ ~isConnected[Other(s)]
    /\ Close(s, "lost", 0)

(* writeFixSize of the header and of the array; the socket takes some.     *)
WriteHead(s) ==
    /\ out[s].pc = "head"
    /\ \E n \in 1..AtMost(Len(out[s].head), MAX_LEN) :
        /\ send(s, SubSeq(out[s].head, 1, n))
        /\ out' = [out EXCEPT ![s].head = SubSeq(@, n + 1, Len(@)),
                              ![s].pc = IF n = Len(out[s].head) THEN "body" ELSE @]
    /\ UNCHANGED <<in, isConnected, why>>

(* Mutant: of several bytes, the last is sent again.                       *)
SentLess(ba, n) == setPosition(ba, ba.position + (IF n > 1 THEN n - 1 ELSE n)).ba

Sent(ba, n) == setPosition(ba, ba.position + n).ba

(* SocketStream::write(ba, n): from the read buffers of the array.         *)
WriteBody(s) ==
    LET ba == out[s].ba
        bytes == Gather(ba.data, getReadBuffers(ba, AtMost(getReadSize(ba), MAX_LEN)))
    IN
    /\ out[s].pc = "body"
    /\ \E n \in 1..Len(bytes) :
        /\ send(s, SubSeq(bytes, 1, n))
        /\ out' = [out EXCEPT ![s] =
                        IF n = getReadSize(ba) THEN Silent
                        ELSE [out[s] EXCEPT !.ba = Sent(ba, n)]]
    /\ UNCHANGED <<in, isConnected, why>>

(* A send fails once the peer has closed: the rest is not sent.            *)
WriteFails(s) ==
    /\ out[s].pc # "idle"
    /\ ~isConnected[Other(s)]
    /\ out' = [out EXCEPT ![s] = Silent]
    /\ UNCHANGED <<in, link, isConnected, why>>

-----------------------------------------------------------------------------
(* The server.                                                             *)

ServerReads ==
    /\ ReadHead("server") \/ ReadBody("server") \/ CheckHead("server") \/ ReadFails("server")
    /\ UNCHANGED <<limit, request, mainVars>>

(* A request goes to the worker; of what no handler is there for, nothing. *)
ServerParses ==
    /\ in["server"].pc = "body" /\ in["server"].left = 0
    /\ \E m \in {parseFrom(in["server"].head, in["server"].ba)} :
        IF m.how = "ok"
        THEN /\ request' = IF m.msg.type = REQUEST THEN Append(request, m.msg) ELSE request
             /\ in' = [in EXCEPT !["server"] = Reading]
             /\ UNCHANGED <<link, out, isConnected, why>>
        ELSE /\ Close("server", m.how, LengthIn(in["server"].head))
             /\ UNCHANGED request
    /\ UNCHANGED <<limit, mainVars>>

(* Mutant: the text is sent as the body.                                   *)
createResponseBody(req) ==
    [type |-> RESPONSE, sn |-> req.sn, cmd |-> req.cmd, result |-> 0, resultStr |-> <<>>,
     body |-> req.body]

createResponse(req) ==
    [type |-> RESPONSE, sn |-> req.sn, cmd |-> req.cmd, result |-> 0, resultStr |-> req.body,
     body |-> <<>>]

(* The handler's result is the text; the response has no body.             *)
ServerHandles ==
    /\ request # <<>>
    /\ out["server"].pc = "idle"
    /\ request' = Tail(request)
    /\ IF isConnected["server"]
       THEN out' = [out EXCEPT !["server"] =
                LET f == serializeTo(limit["server"], createResponse(Head(request))) IN
                [pc |-> "head", head |-> f.head, ba |-> f.ba]]
       ELSE UNCHANGED out
    /\ UNCHANGED <<limit, link, in, isConnected, mainVars, why>>

(* A write that fails closes the stream as well.                           *)
ServerWrites ==
    /\ WriteHead("server") \/ WriteBody("server")
       \/ (out["server"].pc # "idle" /\ ~isConnected["client"] /\ Close("server", "lost", 0))
    /\ UNCHANGED <<limit, request, mainVars>>

(* The receive timeout of an accepted socket.                              *)
ServerTimesOut ==
    /\ in["server"].pc \in {"head", "body"} /\ in["server"].left > 0
    /\ Close("server", "timeout", 0)
    /\ UNCHANGED <<limit, request, mainVars>>

-----------------------------------------------------------------------------
(* The client.                                                             *)

(* CreateMessage, of the text in an array.                                 *)
CreateMessage(text) ==
    [type |-> REQUEST, sn |-> m_sn, cmd |-> 0,
     body |-> toString(setPosition(write(NewArray, text), 0).ba).out]

(* doSend(): the message in a frame.                                       *)
doSend(msg) ==
    LET f == serializeTo(limit["client"], msg) IN [pc |-> "head", head |-> f.head, ba |-> f.ba]

Type(text) ==
    /\ client = "type"
    /\ Len(typed) < MaxTexts
    /\ typed' = Append(typed, text)
    /\ m_sn' = m_sn + 1
    /\ client' = "send"
    /\ out' = [out EXCEPT !["client"] = doSend(CreateMessage(text))]
    /\ UNCHANGED <<limit, link, in, isConnected, request, printed, why>>

ClientWrites ==
    /\ WriteHead("client") \/ WriteBody("client") \/ WriteFails("client")
    /\ UNCHANGED <<limit, request, mainVars>>

(* doRecv() after doSend(), whatever that has returned.                    *)
BeginRecv ==
    /\ client = "send"
    /\ out["client"].pc = "idle"
    /\ client' = "recv"
    /\ in' = [in EXCEPT !["client"] = Reading]
    /\ UNCHANGED <<limit, link, out, isConnected, request, m_sn, typed, printed, why>>

ClientReads ==
    /\ ReadHead("client") \/ ReadBody("client") \/ CheckHead("client") \/ ReadFails("client")
    /\ UNCHANGED <<limit, request, mainVars>>

(* What the client's copy of the decoder makes of it.                      *)
doRecv == parseFrom(in["client"].head, in["client"].ba)

(* A response is printed; other messages are received and dropped. Without *)
(* a message the client uses a null pointer (main.cpp:37), and a fault in  *)
(* the array ends it too.                                                  *)
ClientParses ==
    /\ in["client"].pc = "body" /\ in["client"].left = 0
    /\ \E m \in {doRecv} :
        IF m.how = "ok"
        THEN /\ printed' = IF m.msg.type = RESPONSE THEN Append(printed, m.msg.resultStr)
                           ELSE printed
             /\ client' = "type"
             /\ in' = [in EXCEPT !["client"] = Silent]
             /\ UNCHANGED <<link, out, isConnected, why>>
        ELSE /\ Close("client", m.how, LengthIn(in["client"].head))
             /\ UNCHANGED <<printed, client>>
    /\ UNCHANGED <<limit, request, m_sn, typed>>

ClientDies ==
    /\ client = "recv"
    /\ ~isConnected["client"]
    /\ client' = "end"
    /\ UNCHANGED <<limit, ioVars, isConnected, request, m_sn, typed, printed, why>>

Exit ==
    /\ client = "type"
    /\ client' = "end"
    /\ Close("client", "exit", 0)
    /\ UNCHANGED <<limit, request, m_sn, typed, printed>>

Server == ServerReads \/ ServerParses \/ ServerHandles \/ ServerWrites
Client == ClientWrites \/ BeginRecv \/ ClientReads \/ ClientParses \/ ClientDies

Next ==
    \/ Server \/ ServerTimesOut
    \/ Client \/ Exit
    \/ \E t \in Texts : Type(t)

Spec == Init /\ [][Next]_vars

-----------------------------------------------------------------------------
(* A header begins where a frame begins: whatever the pieces were in which *)
(* the bytes came, a side that waits for a header finds the magic next, or *)
(* the beginning of it (stream.cpp:17-85, rock_protocol.cpp:208-354).      *)
FramesInStep ==
    \A s \in Sides :
        LET next == (IF in[s].pc = "head" THEN in[s].head ELSE <<>>) \o link[s]
            n == AtMost(2, Len(next))
        IN in[s].pc = "head" /\ isConnected[Other(s)] => SubSeq(next, 1, n) = SubSeq(Magic, 1, n)

(* A side gives up what the other has sent for one of two reasons only:    *)
(* the frame, compressed or not, is not shorter than its gzip_min_length,  *)
(* or its array ends at the end of a node with the empty body of the       *)
(* response (rock_protocol.cpp:236-241, bytearray.cpp:466-468).            *)
AtNodeEnd(text) == (21 + Len(text)) % Base = 0

RefusedForCause ==
    \A s \in Sides :
        /\ why[s][1] = "refused" => why[s][2] >= limit[s]
        /\ why[s][1] = "faults" => s = "client" /\ AtNodeEnd(typed[Len(typed)])
        /\ why[s][1] # "throws"

(* The client prints what was typed, text by text and unchanged, until it  *)
(* ends (rock_server.cpp:27-30, client main.cpp:25-42).                    *)
Echo == INSTANCE EchoService WITH ended <- (client = "end")

Echoes == Echo!Spec

=============================================================================
