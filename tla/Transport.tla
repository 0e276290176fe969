----------------------------- MODULE Transport -----------------------------
(***************************************************************************)
(* The connection below the packets (net/io.rs, websocket.rs, tls.rs and   *)
(* connection.rs): the reader thread takes packets and their out-of-band   *)
(* chunks from a stream that is cut into segments or websocket frames, and *)
(* answers pings; the UI thread writes its packets to the same socket.     *)
(* What is sent carries the number of its packet, which only the           *)
(* properties look at.                                                     *)
(***************************************************************************)
EXTENDS Naturals, Sequences

CONSTANTS
    Transports,     \* which of the transports below may be used
    MaxChunks,      \* MAX_CHUNKS
    MaxChunkIndex,  \* MAX_CHUNK_INDEX
    Sends,          \* the parts the server sends: an index and a kind
    MaxPackets,     \* bound on the packets sent
    MaxSent,        \* bound on their chunks, all in all
    MaxPings,       \* bound on the pings
    MaxWrites,      \* bound on the packets the UI thread writes
    Pieces,         \* in how many pieces the socket takes a frame
    SendBuffer      \* how many pieces the server may leave unread

Indexes == 0..MaxChunkIndex
Kinds == {"plain", "unsupported"}  \* of compression or, in a main packet, of encoding

ASSUME TransportAssumption ==
    /\ Sends \subseteq Indexes \X Kinds
    /\ Transports \subseteq {"tcp", "tls", "ws", "wss"}
    /\ MaxChunks \in Nat \ {0} /\ MaxChunkIndex \in Nat /\ MaxPackets \in Nat /\ MaxSent \in Nat
    /\ MaxPings \in Nat /\ MaxWrites \in Nat /\ Pieces \in Nat \ {0} /\ SendBuffer \in Nat \ {0}

Parts == [packet : 1..MaxPackets, index : Indexes, kind : Kinds]
Tokens == [half : {"header", "payload"}, part : Parts]
NoPart == [packet |-> 0, index |-> 0, kind |-> "plain"]
Frames == [op : {"data", "ping", "pong", "close"}, fin : BOOLEAN, tokens : Seq(Tokens)]

VARIABLES
    transport,
    inbound,    \* segments or websocket frames on their way to the reader
    reader,     \* its read_buf, the message being reassembled, the header just read, the
                \* chunks held and counted, and the pieces of a pong it has left to write
    posted,     \* how many packets it handed on
    left,       \* pieces the UI thread has left to write of its packet
    wire,       \* outbound: pieces unread, whose frame is not complete, whether one was cut
    lock,       \* the lock around a TLS stream
    unsent,     \* what the server has yet to cut into frames
    sent,       \* the parts of each packet it sent that was not handed on yet
    budget      \* what the bounds leave of chunks, pings and writes

vars == <<transport, inbound, reader, posted, left, wire, lock, unsent, sent, budget>>

WebSocket == transport \in {"ws", "wss"}
Locked == transport \in {"tls", "wss"}

TypeOK ==
    /\ transport \in Transports
    /\ inbound \in Seq(Frames)
    /\ reader \in [state : {"reading", "closed", "refused"}, buf : Seq(Tokens), message : Seq(Tokens),
                   header : Parts \cup {NoPart}, chunks : SUBSET Parts,
                   received : 0..(MaxChunks - 1), pong : 0..Pieces]
    /\ posted \in 0..MaxPackets
    /\ left \in 0..Pieces
    /\ wire \in [unread : 0..SendBuffer, open : {"none", "ui", "reader"}, cut : BOOLEAN]
    /\ lock \in {"none", "ui", "reader"}
    /\ unsent \in Seq(Tokens)
    /\ sent \in Seq(Seq(Parts))
    /\ budget \in [chunks : 0..MaxSent, pings : 0..MaxPings, writes : 0..MaxWrites]

Init ==
    /\ transport \in Transports
    /\ inbound = <<>>
    /\ reader = [state |-> "reading", buf |-> <<>>, message |-> <<>>, header |-> NoPart,
                 chunks |-> {}, received |-> 0, pong |-> 0]
    /\ posted = 0 /\ left = 0
    /\ wire = [unread |-> 0, open |-> "none", cut |-> FALSE] /\ lock = "none"
    /\ unsent = <<>> /\ sent = << <<>> >>
    /\ budget = [chunks |-> MaxSent, pings |-> MaxPings, writes |-> MaxWrites]

-----------------------------------------------------------------------------
(* Writing: write_frame, or write_all of a packet, one piece at a time *)

\* every piece takes the lock anew
PutMutant(w, rest) ==
    /\ wire.unread < SendBuffer /\ lock = "none"
    /\ wire' = [unread |-> wire.unread + 1, open |-> IF rest = 0 THEN "none" ELSE w,
                cut |-> wire.cut \/ wire.open \notin {"none", w}]
    /\ UNCHANGED lock

\* the lock is never given back
PutKeepsMutant(w, rest) ==
    /\ wire.unread < SendBuffer
    /\ wire' = [unread |-> wire.unread + 1, open |-> IF rest = 0 THEN "none" ELSE w,
                cut |-> wire.cut \/ wire.open \notin {"none", w}]
    /\ lock \in {"none", w} /\ lock' = w

\* the lock of a TLS stream is held until the whole buffer is written
Put(w, rest) ==
    /\ wire.unread < SendBuffer
    /\ wire' = [unread |-> wire.unread + 1, open |-> IF rest = 0 THEN "none" ELSE w,
                cut |-> wire.cut \/ wire.open \notin {"none", w}]
    /\ IF Locked THEN lock \in {"none", w} /\ lock' = IF rest = 0 THEN "none" ELSE w
       ELSE UNCHANGED lock

\* write_packet
WritePacket ==
    /\ left = 0 /\ budget.writes > 0
    /\ left' = Pieces /\ budget' = [budget EXCEPT !.writes = @ - 1]
    /\ UNCHANGED <<transport, inbound, reader, posted, wire, lock, unsent, sent>>

WritePiece ==
    /\ left > 0 /\ Put("ui", left - 1) /\ left' = left - 1
    /\ UNCHANGED <<transport, inbound, reader, posted, unsent, sent, budget>>

WritePong ==
    /\ reader.pong > 0 /\ Put("reader", reader.pong - 1)
    /\ reader' = [reader EXCEPT !.pong = @ - 1]
    /\ UNCHANGED <<transport, inbound, posted, left, unsent, sent, budget>>

-----------------------------------------------------------------------------
(* Reading *)

Free == reader.state = "reading" /\ reader.pong = 0
handed == <<posted, sent>>
ReaderOnly == UNCHANGED <<transport, inbound, left, wire, lock, unsent, budget>>

\* the next segment or frame, when read_buf is used up; a TLS stream is read under its lock
Receives(op) ==
    /\ Free /\ reader.buf = <<>> /\ inbound # <<>> /\ Head(inbound).op = op
    /\ Locked => lock = "none"
    /\ inbound' = Tail(inbound)
    /\ UNCHANGED <<transport, posted, left, wire, lock, unsent, sent, budget>>

\* a fragment replaces what was read of its message
FillBufferMutant ==
    /\ Receives("data")
    /\ reader' = [reader EXCEPT !.message = <<>>,
                                !.buf = IF Head(inbound).fin THEN Head(inbound).tokens ELSE @]

\* fill_buffer: a message is read once its last fragment is there
FillBuffer ==
    /\ Receives("data")
    /\ LET message == reader.message \o Head(inbound).tokens
       IN reader' = IF WebSocket /\ ~Head(inbound).fin
                    THEN [reader EXCEPT !.message = message]
                    ELSE [reader EXCEPT !.message = <<>>, !.buf = message]

ReceivePing == Receives("ping") /\ reader' = [reader EXCEPT !.pong = Pieces]
ReceivePong == Receives("pong") /\ UNCHANGED reader
ReceiveClose == Receives("close") /\ reader' = [reader EXCEPT !.state = "closed"]

ReadHeader ==
    LET part == Head(reader.buf).part
    IN /\ Free /\ reader.buf # <<>> /\ reader.header = NoPart
       /\ reader' = IF part.index >= MaxChunkIndex THEN [reader EXCEPT !.state = "refused"]
                    ELSE [reader EXCEPT !.buf = Tail(@), !.header = part]
       /\ ReaderOnly /\ UNCHANGED handed

\* read_exact of a payload, whose header says what to do with it
ReadPayload ==
    /\ Free /\ reader.buf # <<>> /\ reader.header # NoPart /\ ReaderOnly

Refuse == reader' = [reader EXCEPT !.state = "refused"]

\* the chunks counted are not forgotten with the packet they were for
ReadMainMutant ==
    /\ ReadPayload /\ reader.header.index = 0 /\ reader.header.kind = "plain"
    /\ posted' = posted + 1 /\ sent' = Tail(sent)
    /\ reader' = [reader EXCEPT !.buf = Tail(@), !.header = NoPart, !.chunks = {}]

\* the main packet ends the packet
ReadMain ==
    /\ ReadPayload /\ reader.header.index = 0 /\ reader.header.kind = "plain"
    /\ posted' = posted + 1 /\ sent' = Tail(sent)
    /\ reader' = [reader EXCEPT !.buf = Tail(@), !.header = NoPart, !.chunks = {}, !.received = 0]

\* an encoding other than YAML, or a compression other than lz4
RefuseMain ==
    /\ ReadPayload /\ reader.header.index = 0 /\ reader.header.kind = "unsupported"
    /\ Refuse /\ UNCHANGED handed

\* chunks are not counted
ExcessiveMutant == \E c \in reader.chunks : c.index = reader.header.index

\* too many chunks, or two for a field
Excessive ==
    \/ reader.received + 1 >= MaxChunks
    \/ \E c \in reader.chunks : c.index = reader.header.index

RefuseChunk == ReadPayload /\ reader.header.index # 0 /\ Excessive /\ Refuse /\ UNCHANGED handed

\* a chunk that cannot be decompressed is counted and dropped
ReadChunk ==
    /\ ReadPayload /\ reader.header.index # 0 /\ ~Excessive
    /\ reader' = [reader EXCEPT !.buf = Tail(@), !.header = NoPart, !.received = @ + 1,
                                !.chunks = IF reader.header.kind = "plain"
                                           THEN @ \cup {reader.header} ELSE @]
    /\ UNCHANGED handed

-----------------------------------------------------------------------------
(* The server: parts in the order of their packets, cut anywhere, pings in between, until *)
(* the end of the reader ends the session                                                 *)

ServerOnly == UNCHANGED <<transport, reader, posted, left, lock>>

\* a chunk of the packet being sent, or the main packet that ends it
ServerPart(i, kind) ==
    LET n == Len(sent)
        part == [packet |-> posted + n, index |-> i, kind |-> kind]
        parts == Append(sent[n], part)
    IN /\ reader.state = "reading" /\ unsent = <<>> /\ posted + n <= MaxPackets
       /\ IF i = 0 THEN UNCHANGED budget
          ELSE budget.chunks > 0 /\ budget' = [budget EXCEPT !.chunks = @ - 1]
       /\ sent' = LET s == [sent EXCEPT ![n] = parts]
                  IN IF i = 0 THEN Append(s, <<>>) ELSE s
       /\ unsent' = <<[half |-> "header", part |-> part], [half |-> "payload", part |-> part]>>
       /\ ServerOnly /\ UNCHANGED <<inbound, wire>>

\* a message may hold several parts, and ends with the packet at the latest; one data frame
\* is under way at a time
ServerFrame(k, fin) ==
    /\ inbound = <<>> /\ reader.buf = <<>> /\ k <= Len(unsent)
    /\ ~fin => WebSocket /\ (k < Len(unsent) \/ unsent[k].part.index # 0)
    /\ inbound' = <<[op |-> "data", fin |-> fin, tokens |-> SubSeq(unsent, 1, k)]>>
    /\ unsent' = SubSeq(unsent, k + 1, Len(unsent))
    /\ ServerOnly /\ UNCHANGED <<wire, sent, budget>>

ServerControl(op) ==
    /\ WebSocket /\ reader.state = "reading"
    /\ budget.pings > 0 /\ budget' = [budget EXCEPT !.pings = @ - 1]
    /\ inbound' = Append(inbound, [op |-> op, fin |-> TRUE, tokens |-> <<>>])
    /\ ServerOnly /\ UNCHANGED <<wire, unsent, sent>>

ServerReads ==
    /\ wire.unread > 0 /\ wire' = [wire EXCEPT !.unread = @ - 1]
    /\ ServerOnly /\ UNCHANGED <<inbound, unsent, sent, budget>>

-----------------------------------------------------------------------------
Reader ==
    \/ WritePong \/ FillBuffer \/ ReceivePing \/ ReceivePong \/ ReceiveClose
    \/ ReadHeader \/ ReadMain \/ RefuseMain \/ RefuseChunk \/ ReadChunk

Next ==
    \/ Reader \/ WritePacket \/ WritePiece \/ ServerReads
    \/ \E p \in Sends : ServerPart(p[1], p[2])
    \/ \E k \in 1..2, fin \in BOOLEAN : ServerFrame(k, fin)
    \/ \E op \in {"ping", "pong", "close"} : ServerControl(op)

\* both threads run; the server sends what it has queued, and reads on a thread of its own
Fairness ==
    /\ WF_vars(Reader) /\ WF_vars(WritePiece) /\ WF_vars(ServerReads)
    /\ WF_vars(\E k \in 1..2, fin \in BOOLEAN : ServerFrame(k, fin))

Spec == Init /\ [][Next]_vars /\ Fairness

-----------------------------------------------------------------------------
(* Properties *)

\* No frame or packet is written into the middle of another: "a second writer (the reader
\* thread's automatic pong reply to a ping) must never be able to interleave its bytes into the
\* middle of this one" (SharedTlsStream::write_all).
WholeFrames == ~wire.cut

\* Packets are handed on in the order they were sent, each with its own chunks: all of them but
\* the ones whose compression is not supported, however the stream was cut (read_packet,
\* fill_buffer).
ChunksComplete ==
    [][posted' # posted =>
        /\ reader.header.packet = posted'
        /\ reader.chunks = {c \in {sent[1][i] : i \in DOMAIN sent[1]} :
                            c.index # 0 /\ c.kind = "plain"}]_vars

\* What the reader must take: at most MaxChunks - 1 chunks, each for another field.
Lawful(parts) ==
    /\ Len(parts) <= MaxChunks
    /\ \A i \in DOMAIN parts :
        /\ parts[i].index < MaxChunkIndex
        /\ parts[i].index = 0 => parts[i].kind = "plain"
        /\ \A j \in DOMAIN parts : parts[i].index = parts[j].index => i = j

\* Everything the server sends is handed on, unless it closes the connection or breaks a limit
\* of read_packet, and the limits are per packet: earlier packets do not count against them.
LawfulRead ==
    (Len(sent) > 1 /\ Lawful(sent[1])) ~>
        (Len(sent) = 1 \/ ~Lawful(sent[1]) \/ reader.state = "closed")

\* A packet the UI thread started to write is written, also while the reader answers pings and
\* waits for the same lock (SharedTlsStream).
WriteEnds == (left > 0) ~> (left = 0)
=============================================================================
