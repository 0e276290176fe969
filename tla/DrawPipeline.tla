---------------------------- MODULE DrawPipeline ----------------------------
(***************************************************************************)
(* The drawing path of the client, client.rs.  A draw packet crosses four  *)
(* queues and three threads:                                               *)
(*                                                                         *)
(*   server --wire--> reader --events--> UI --decodeq--> decode            *)
(*                                        ^                 |              *)
(*   server <--acks--- UI <---------------+----events-------+              *)
(*                                                                         *)
(* The UI thread is the winit event loop: `events` is its user-event       *)
(* queue, fed by both the reader and the decode thread.  Windows come and  *)
(* go, and on Windows each window has a stateful h264 decoder that lives   *)
(* on the decode thread.                                                   *)
(***************************************************************************)
EXTENDS Naturals, Sequences

CONSTANTS
    Wids,        \* window ids; the server never uses one twice
    OnWindows,   \* cfg(windows): h264 decoders exist
    MaxPackets   \* bound on the packets the server sends after its hello

ASSUME DrawAssumption == OnWindows \in BOOLEAN /\ MaxPackets \in Nat

VARIABLES
    \* the server (external)
    kind,        \* which acknowledgement packets it registers
    alive,       \* windows it has announced and not withdrawn
    used,        \* windows it ever announced
    late,        \* windows it drew on after withdrawing them
    stream,      \* number of video streams ended so far, per window
    keyed,       \* the current video stream has had its keyframe
    budget,      \* packets it may still send
    nextSeq,     \* sequence number of its next draw
    \* the connection
    conn,        \* "up" or "down"
    wire,        \* packets on their way to the client
    acks,        \* acknowledgements the server received
    \* the client
    reader,      \* the reader thread is running
    events,      \* the UI thread's user-event queue
    quitting,    \* exit_code is set
    loop,        \* the event loop is running
    windows,     \* the keys of XpraClient::windows
    compatible,  \* server_backwards_compatible
    decodeq,     \* channel to the decode thread
    decoders,    \* h264_decoders: window id -> what its state was built from
    noDecoder    \* streams for which a decoder could not be created

server == <<kind, alive, used, late, stream, keyed, budget, nextSeq>>
ui == <<quitting, loop, windows, compatible>>
decode == <<decoders, noDecoder>>
vars == <<server, conn, wire, acks, reader, events, ui, decodeq, decode>>

Kinds == {"old", "compatible", "modern"}
Codings == {"h264", "picture"}

\* the `stream` of an eos or a draw is only there for the properties: the
\* video stream it ends or belongs to
WindowPackets == [type : {"new-window", "lost-window"}, wid : Wids]
                     \cup [type : {"eos"}, wid : Wids, stream : Nat]
DrawPackets ==
    [type : {"draw"}, wid : Wids, seq : Nat, coding : Codings, stream : Nat,
     key : BOOLEAN]
Results ==
    [type : {"draw-decoded"}, wid : Wids, seq : Nat, coding : Codings,
     stream : Nat, insync : BOOLEAN]
        \cup [type : {"decoding-failed"}, wid : Wids, seq : Nat]
Control == [type : {"hello", "disconnect", "connection-lost"}]
Acks == [layout : {"window-draw-ack", "window-ack"}, wid : Wids, seq : Nat,
         painted : BOOLEAN]

TypeOK ==
    /\ kind \in Kinds
    /\ alive \subseteq used /\ used \subseteq Wids /\ late \subseteq used
    /\ stream \in [Wids -> Nat] /\ keyed \in [Wids -> BOOLEAN]
    /\ budget \in 0..MaxPackets /\ nextSeq \in 1..(MaxPackets + 1)
    /\ conn \in {"up", "down"}
    /\ wire \in Seq(WindowPackets \cup DrawPackets \cup Control)
    /\ acks \in Seq(Acks) /\ Len(acks) < nextSeq
    /\ reader \in BOOLEAN
    /\ events \in Seq(WindowPackets \cup DrawPackets \cup Results \cup Control)
    /\ quitting \in BOOLEAN /\ loop \in BOOLEAN
    /\ windows \subseteq used
    /\ compatible \in BOOLEAN
    /\ decodeq \in Seq(WindowPackets \cup DrawPackets)
    /\ DOMAIN decoders \subseteq Wids
    /\ \A w \in DOMAIN decoders :
          decoders[w] \in [stream : Nat, key : BOOLEAN]
    /\ noDecoder \subseteq (Wids \X Nat)

Init ==
    /\ kind \in Kinds
    /\ alive = {} /\ used = {} /\ late = {}
    /\ stream = [w \in Wids |-> 0] /\ keyed = [w \in Wids |-> FALSE]
    /\ budget = MaxPackets /\ nextSeq = 1
    /\ conn = "up" /\ wire = <<[type |-> "hello"]>> /\ acks = <<>>
    /\ reader = TRUE /\ events = <<>>
    /\ quitting = FALSE /\ loop = TRUE
    /\ windows = {} /\ compatible = TRUE
    /\ decodeq = <<>>
    /\ decoders = <<>> /\ noDecoder = {}

-----------------------------------------------------------------------------
(* The server and the network, external: what the client's handlers expect *)

ServerSend(p) ==
    /\ conn = "up" /\ budget > 0
    /\ budget' = budget - 1
    /\ wire' = Append(wire, p)
    /\ UNCHANGED <<kind, conn, acks, reader, events, ui, decodeq, decode>>

ServerNewWindow(w) ==
    /\ w \notin used
    /\ ServerSend([type |-> "new-window", wid |-> w])
    /\ alive' = alive \cup {w} /\ used' = used \cup {w}
    /\ UNCHANGED <<late, stream, keyed, nextSeq>>

ServerLostWindow(w) ==
    /\ w \in alive
    /\ ServerSend([type |-> "lost-window", wid |-> w])
    /\ alive' = alive \ {w}
    /\ UNCHANGED <<used, late, stream, keyed, nextSeq>>

\* the end of a video stream: the next h264 draw starts another with a keyframe
ServerEos(w) ==
    /\ w \in alive /\ keyed[w]
    /\ ServerSend([type |-> "eos", wid |-> w, stream |-> stream[w]])
    /\ stream' = [stream EXCEPT ![w] = @ + 1]
    /\ keyed' = [keyed EXCEPT ![w] = FALSE]
    /\ UNCHANGED <<alive, used, late, nextSeq>>

\* draws wait behind other packets in the server, so one may follow lost-window
ServerDraw(w, coding) ==
    /\ w \in used
    /\ late' = IF w \in alive THEN late ELSE late \cup {w}
    /\ ServerSend([type |-> "draw", wid |-> w, seq |-> nextSeq,
                   coding |-> coding, stream |-> stream[w],
                   key |-> coding = "h264" /\ ~keyed[w]])
    /\ keyed' = [keyed EXCEPT ![w] = @ \/ coding = "h264"]
    /\ nextSeq' = nextSeq + 1
    /\ UNCHANGED <<alive, used, stream>>

ServerDisconnect ==
    /\ ServerSend([type |-> "disconnect"])
    /\ UNCHANGED <<alive, used, late, stream, keyed, nextSeq>>

\* the connection breaks; packets in flight are lost with it
ConnectionBreaks ==
    /\ conn = "up"
    /\ conn' = "down"
    /\ wire' = <<>>
    /\ UNCHANGED <<server, acks, reader, events, ui, decodeq, decode>>

-----------------------------------------------------------------------------
(* The reader thread *)

ReadPacket ==
    /\ reader /\ loop /\ wire # <<>>
    /\ wire' = Tail(wire)
    /\ events' = Append(events, Head(wire))
    /\ UNCHANGED <<server, conn, acks, reader, ui, decodeq, decode>>

ReadError ==
    /\ reader /\ loop /\ conn = "down"
    /\ reader' = FALSE
    /\ events' = Append(events, [type |-> "connection-lost"])
    /\ UNCHANGED <<server, conn, wire, acks, ui, decodeq, decode>>

-----------------------------------------------------------------------------
(* The UI thread: one action per handler, each taking the head of events *)

Handle(type) == loop /\ events # <<>> /\ Head(events).type = type

\* write_json: nothing is written once exit_code is set.  On a broken
\* connection the write may fail, or be accepted by the kernel and lost.
Write(a) ==
    \/ /\ quitting
       /\ events' = Tail(events)
       /\ UNCHANGED <<acks, quitting>>
    \/ /\ ~quitting /\ conn = "up"
       /\ acks' = Append(acks, a)
       /\ events' = Tail(events)
       /\ UNCHANGED quitting
    \/ /\ ~quitting /\ conn = "down"
       /\ events' = Tail(events)
       /\ UNCHANGED <<acks, quitting>>
    \/ /\ ~quitting /\ conn = "down"
       /\ quitting' = TRUE
       /\ events' = Append(Tail(events), [type |-> "connection-lost"])
       /\ UNCHANGED acks

\* draw_ack_packet
Ack(wid, seq, painted) ==
    [layout |-> IF compatible THEN "window-draw-ack" ELSE "window-ack",
     wid |-> wid, seq |-> seq, painted |-> painted]

\* server_backwards_compatible: None (keep the default) without window-ack,
\* otherwise whether damage-sequence is registered too
ServerCompatible(k, default) ==
    IF k = "old" THEN default ELSE k = "compatible"

ProcessHello ==
    /\ Handle("hello")
    /\ compatible' = ServerCompatible(kind, compatible)
    /\ events' = Tail(events)
    /\ UNCHANGED <<server, conn, wire, acks, reader, quitting, loop, windows,
                   decodeq, decode>>

\* create_window may fail, which leaves the window unknown
ProcessNewWindow ==
    /\ Handle("new-window")
    /\ windows' \in {windows, windows \cup {Head(events).wid}}
    /\ events' = Tail(events)
    /\ UNCHANGED <<server, conn, wire, acks, reader, quitting, loop,
                   compatible, decodeq, decode>>

\* what is forwarded to the decode thread, on Windows only
Forward(p) == decodeq' = IF OnWindows THEN Append(decodeq, p) ELSE decodeq

ProcessLostWindowMutant ==
    /\ Handle("lost-window")
    /\ windows' = windows \ {Head(events).wid}
    /\ events' = Tail(events)
    /\ UNCHANGED <<server, conn, wire, acks, reader, quitting, loop,
                   compatible, decodeq, decode>>

ProcessLostWindow ==
    /\ Handle("lost-window")
    /\ windows' = windows \ {Head(events).wid}
    /\ Forward(Head(events))
    /\ events' = Tail(events)
    /\ UNCHANGED <<server, conn, wire, acks, reader, quitting, loop,
                   compatible, decode>>

\* a map with a key removed
Without(f, k) == [x \in DOMAIN f \ {k} |-> f[x]]

\* the decoder dropped at once, ahead of the draws still queued for it
ProcessEosMutant ==
    /\ Handle("eos")
    /\ decoders' = Without(decoders, Head(events).wid)
    /\ events' = Tail(events)
    /\ UNCHANGED <<server, conn, wire, acks, reader, ui, decodeq, noDecoder>>

ProcessEos ==
    /\ Handle("eos")
    /\ Forward(Head(events))
    /\ events' = Tail(events)
    /\ UNCHANGED <<server, conn, wire, acks, reader, ui, decode>>

ProcessDraw ==
    /\ Handle("draw")
    /\ decodeq' = Append(decodeq, Head(events))
    /\ events' = Tail(events)
    /\ UNCHANGED <<server, conn, wire, acks, reader, ui, decode>>

\* the window may have gone since the draw was queued: the sequence is
\* acknowledged all the same, as not painted
ProcessDrawDecodedMutant ==
    /\ Handle("draw-decoded")
    /\ IF Head(events).wid \in windows
       THEN Write(Ack(Head(events).wid, Head(events).seq, TRUE))
       ELSE events' = Tail(events) /\ UNCHANGED <<acks, quitting>>
    /\ UNCHANGED <<server, conn, wire, reader, loop, windows, compatible,
                   decodeq, decode>>

ProcessDrawDecoded ==
    /\ Handle("draw-decoded")
    /\ Write(Ack(Head(events).wid, Head(events).seq,
                 Head(events).wid \in windows))
    /\ UNCHANGED <<server, conn, wire, reader, loop, windows, compatible,
                   decodeq, decode>>

\* a draw that failed is dropped with no acknowledgement
ProcessDrawFailedMutant ==
    /\ Handle("decoding-failed")
    /\ events' = Tail(events)
    /\ UNCHANGED <<server, conn, wire, reader, acks, ui, decodeq, decode>>

ProcessDrawFailed ==
    /\ Handle("decoding-failed")
    /\ Write(Ack(Head(events).wid, Head(events).seq, FALSE))
    /\ UNCHANGED <<server, conn, wire, reader, loop, windows, compatible,
                   decodeq, decode>>

\* "disconnect" and "connection-lost" both end in quit()
Quit ==
    /\ Handle("disconnect") \/ Handle("connection-lost")
    /\ quitting' = TRUE
    /\ events' = Tail(events)
    /\ UNCHANGED <<server, conn, wire, acks, reader, loop, windows, compatible,
                   decodeq, decode>>

\* event_loop.exit() takes effect: whatever is still queued is never handled
LoopEnds ==
    /\ loop /\ quitting
    /\ loop' = FALSE
    /\ UNCHANGED <<server, conn, wire, acks, reader, events, quitting, windows,
                   compatible, decodeq, decode>>

-----------------------------------------------------------------------------
(* The decode thread: it ends when the event loop is gone *)

\* lost-window and eos: release the window's decoder
ReleaseDecoder ==
    /\ loop /\ decodeq # <<>> /\ Head(decodeq).type \in {"lost-window", "eos"}
    /\ decoders' = Without(decoders, Head(decodeq).wid)
    /\ decodeq' = Tail(decodeq)
    /\ UNCHANGED <<server, conn, wire, acks, reader, events, ui, noDecoder>>

\* the one result posted for a draw
Decoded(d, insync) ==
    [type |-> "draw-decoded", wid |-> d.wid, seq |-> d.seq,
     coding |-> d.coding, stream |-> d.stream, insync |-> insync]

Failed(d) == [type |-> "decoding-failed", wid |-> d.wid, seq |-> d.seq]

\* the packet stays in the channel
PostMutant(r) ==
    /\ events' = Append(events, r)
    /\ UNCHANGED <<server, conn, wire, acks, reader, ui, decodeq>>

Post(r) ==
    /\ decodeq' = Tail(decodeq)
    /\ events' = Append(events, r)
    /\ UNCHANGED <<server, conn, wire, acks, reader, ui>>

DecodePicture ==
    /\ loop /\ decodeq # <<>>
    /\ LET d == Head(decodeq) IN
       /\ d.type = "draw" /\ d.coding = "picture"
       /\ Post(Decoded(d, TRUE)) \/ Post(Failed(d))
    /\ UNCHANGED decode

\* h264: the window's decoder is created on demand, and kept when the decode
\* fails; a draw is in sync when the decoder was built from its own stream,
\* starting with the keyframe.  A warm-up frame is a result without pixels.
DecodeVideo ==
    /\ loop /\ decodeq # <<>>
    /\ LET d == Head(decodeq)
           built == IF d.wid \in DOMAIN decoders THEN decoders[d.wid]
                    ELSE [stream |-> d.stream, key |-> d.key]
       IN
       /\ d.type = "draw" /\ d.coding = "h264"
       /\ \/ /\ OnWindows
             /\ decoders' = [w \in DOMAIN decoders \cup {d.wid} |->
                                IF w = d.wid THEN built ELSE decoders[w]]
             /\ \/ Post(Decoded(d, built.stream = d.stream /\ built.key))
                \/ Post(Failed(d))
             /\ UNCHANGED noDecoder
          \/ /\ OnWindows => d.wid \notin DOMAIN decoders
             /\ Post(Failed(d))
             /\ noDecoder' = noDecoder \cup {<<d.wid, d.stream>>}
             /\ UNCHANGED decoders

Server ==
    \/ \E w \in Wids : ServerNewWindow(w)
    \/ \E w \in Wids : ServerLostWindow(w)
    \/ \E w \in Wids : ServerEos(w)
    \/ \E w \in Wids, c \in Codings : ServerDraw(w, c)
    \/ ServerDisconnect

ReaderThread == ReadPacket \/ ReadError

\* do_process_packet, restricted to the packets of the drawing path
UiThread ==
    \/ ProcessHello \/ ProcessNewWindow \/ ProcessLostWindow \/ ProcessEos
    \/ ProcessDraw \/ ProcessDrawDecoded \/ ProcessDrawFailed \/ Quit

DecodeThread == ReleaseDecoder \/ DecodePicture \/ DecodeVideo

Next ==
    \/ Server \/ ConnectionBreaks
    \/ ReaderThread \/ UiThread \/ LoopEnds \/ DecodeThread

\* each thread runs; the server, the network and the end of the loop owe nothing
Fairness ==
    /\ WF_vars(ReaderThread)
    /\ WF_vars(UiThread)
    /\ WF_vars(DecodeThread)

Spec == Init /\ [][Next]_vars /\ Fairness

-----------------------------------------------------------------------------
(* Properties *)

\* an acknowledgement in a layout that a server of this kind registers
Understood(ack) ==
    /\ kind = "old" => ack.layout = "window-draw-ack"
    /\ kind = "modern" => ack.layout = "window-ack"

\* The acknowledgements the server receives are those of DrawAcks: one per draw, none skipped
\* and in order, although a draw passes the UI queue twice, its window may be lost between
\* decoding and painting (process_draw_decoded), and its decoding may fail (process_draw_failed).
\* One in a layout the server does not register names no draw (0): none is sent before the
\* hello that tells which layout that is has been processed (draw_ack_packet).
Abstract == INSTANCE DrawAcks
    WITH sent <- nextSeq - 1,
         acked <- [i \in DOMAIN acks |-> IF Understood(acks[i]) THEN acks[i].seq ELSE 0]
AcksInOrder == Abstract!Spec

\* A video frame is decoded by a decoder that was built from the keyframe of the frame's own
\* stream, unless creating that decoder had failed: eos and lost-window reach the decoder
\* behind the draws queued before them, and ahead of those of the next stream.
DecodedInSync ==
    \A i \in DOMAIN events :
        /\ events[i].type = "draw-decoded" /\ events[i].coding = "h264"
        /\ events[i].wid \in alive
        => \/ events[i].insync
           \/ <<events[i].wid, events[i].stream>> \in noDecoder

\* No decoder is left behind: one that exists for a window the client has dropped is about to
\* be released, its lost-window still on the way (or the server drew on it after that).
NoOrphanDecoder ==
    \A w \in DOMAIN decoders :
        \/ w \in alive \cup late
        \/ \E q \in {wire, events, decodeq} : \E i \in DOMAIN q :
              q[i].type = "lost-window" /\ q[i].wid = w
        \/ conn = "down"

\* Every draw the server sends is acknowledged in the end, unless the session ends: no result
\* of the decode thread is dropped on the way, whatever happened to the draw.
EveryDrawAcked ==
    \A s \in 1..MaxPackets :
        (nextSeq > s) ~> (Len(acks) >= s \/ quitting \/ conn = "down")
=============================================================================
