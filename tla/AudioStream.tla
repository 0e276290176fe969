---------------------------- MODULE AudioStream ----------------------------
(***************************************************************************)
(* Speaker forwarding (audio.rs, windows_audio.rs and the audio handlers   *)
(* of client.rs): the UI thread negotiates with the server, follows its    *)
(* streams and hands them to the audio thread over a bounded queue; the    *)
(* audio thread decodes, plays, and posts its latency or its failure back. *)
(* A packet also carries the stream it is of, which the program can't see. *)
(***************************************************************************)
EXTENDS Integers, Sequences

CONSTANTS
    Shapes,      \* the audio-data packets the server sends
    Capacity,    \* COMMAND_CAPACITY
    Threshold,   \* SYNC_THRESHOLD_MS
    MaxLatency,  \* bound on the latency
    MaxStreams,  \* bound on the streams
    MaxSeq,      \* bound on the sequences the server uses
    MaxQueue     \* bound on what the server and the output put in the UI thread's queue

Shape == [sos : BOOLEAN, eos : BOOLEAN, codec : {"opus", "other"},
          stream_codec : {"opus", "other"}, head : {"none", "good", "bad"}, data : BOOLEAN]

ASSUME AudioAssumption ==
    /\ Shapes \subseteq Shape
    /\ Capacity \in Nat /\ Threshold \in Nat \ {0} /\ MaxLatency \in Nat
    /\ MaxStreams \in Nat /\ MaxSeq \in Nat /\ MaxQueue \in Nat

None == -1
Streams == 0..MaxStreams
Latencies == 0..MaxLatency
Packets ==
    [type : {"hello"}, async : BOOLEAN, av_sync : BOOLEAN]
    \cup [type : {"audio-capabilities"}, opus : BOOLEAN]
    \cup [type : {"audio-data"}, stream : Streams, sequence : Int, shape : Shapes]
    \cup [type : {"audio-latency"}, ms : Latencies]
    \cup [type : {"audio-worker-failed"}]
Commands ==
    [type : {"reset", "end"}, sequence : Nat]
    \cup [type : {"configure", "packet"}, sequence : Nat, stream : Streams]
    \cup [type : {"shutdown"}]

VARIABLES
    audio,     \* the client's audio_worker, audio_protocol and audio_sync_reporter, the
               \* commands queued, the last of start and stop the server was told, and
               \* whether the session is still on
    ui,        \* packets waiting for the UI thread
    thread,    \* the audio thread: "idle", "live" once it found the running flag
               \* set, "failed" once it posted that, or "ended"
    pipeline,  \* its pipeline
    latency,   \* the total_ms it last measured, 0 without a pipeline
    server     \* the server: greeted, its stream and the sequence it uses for it

vars == <<audio, ui, thread, pipeline, latency, server>>

NoPipeline == [sequence |-> None, stream |-> 0, last_ms |-> None]

TypeOK ==
    /\ audio \in [worker : BOOLEAN, capabilities_sent : BOOLEAN, negotiated : BOOLEAN,
                  active : BOOLEAN, sequence : Nat, header_seen : BOOLEAN,
                  server_av_sync : BOOLEAN, last_ms : Latencies \cup {None},
                  commands : Seq(Commands), told : {"none", "start", "stop"},
                  session : BOOLEAN]
    /\ Len(audio.commands) <= Capacity
    /\ ui \in Seq(Packets)
    /\ thread \in {"idle", "live", "failed", "ended"}
    /\ pipeline \in [sequence : Nat \cup {None}, stream : Streams,
                     last_ms : Latencies \cup {None}]
    /\ latency \in Latencies
    /\ server \in [greeted : BOOLEAN, stream : Streams, sequence : Nat \cup {None}]

\* a probe that fails leaves the client without a worker
Init ==
    /\ \E ok \in BOOLEAN :
        /\ audio = [worker |-> ok, capabilities_sent |-> FALSE, negotiated |-> FALSE,
                    active |-> FALSE, sequence |-> 0, header_seen |-> FALSE,
                    server_av_sync |-> FALSE, last_ms |-> None, commands |-> <<>>,
                    told |-> "none", session |-> TRUE]
        /\ thread = IF ok THEN "idle" ELSE "ended"
    /\ ui = <<>> /\ pipeline = NoPipeline /\ latency = 0
    /\ server = [greeted |-> FALSE, stream |-> 0, sequence |-> None]

-----------------------------------------------------------------------------
(* The protocol, on the record a of the client's audio state *)

Far(last, ms) == last = None \/ last - ms >= Threshold \/ ms - last >= Threshold

\* report_audio_latency
Report(a, ms) ==
    IF a.negotiated /\ a.server_av_sync /\ Far(a.last_ms, ms)
    THEN [a EXCEPT !.last_ms = ms] ELSE a

\* AudioProtocol::finish; the server is told the new sequence
Finish(a) == [a EXCEPT !.active = FALSE, !.header_seen = FALSE, !.sequence = @ + 1]

\* one command too many
FullMutant(a) == Len(a.commands) > Capacity

\* try_send finds no room
Full(a) == Len(a.commands) >= Capacity
Push(a, c) == [a EXCEPT !.commands = Append(@, c)]

\* disable_audio only stops a stream that plays
DisableMutant(a) ==
    [Finish(a) EXCEPT !.worker = FALSE, !.negotiated = FALSE,
                      !.told = IF a.active THEN "stop" ELSE @]

\* AudioWorker::drop: a shutdown is queued if there is room
DropWorker(a) ==
    LET d == [a EXCEPT !.worker = FALSE]
    IN IF ~a.worker \/ Full(a) THEN d ELSE Push(d, [type |-> "shutdown"])

\* disable_audio
Disable(a) ==
    IF a.worker THEN DropWorker([Finish(a) EXCEPT !.negotiated = FALSE, !.told = "stop"]) ELSE a

\* AudioWorker::send and handle_audio_enqueue of a command that must not be lost
Enqueue(a, c) == IF thread = "ended" \/ Full(a) THEN Disable(a) ELSE Push(a, c)

\* and of a packet, which is dropped when the queue is full
EnqueuePacket(a, c) ==
    IF thread = "ended" THEN Disable(a) ELSE IF Full(a) THEN a ELSE Push(a, c)

End(a) == Enqueue(a, [type |-> "end", sequence |-> a.sequence])

\* stop_audio_stream
StopStream(a) ==
    LET e == End(a)
    IN IF e.worker THEN Report([Finish(e) EXCEPT !.told = "stop", !.last_ms = None], 0) ELSE e

\* the sequence moves on before the worker is told to end it
EndStreamMutant(a) == End(Finish(a))

\* an end-of-stream packet
EndStream(a) == LET e == End(a) IN IF e.worker THEN Report(Finish(e), 0) ELSE e

Accepts(a, n) == ~(n # None /\ n < a.sequence)

\* a stream that starts while another one plays goes on with its decoder
BeginMutant(a, p) ==
    IF a.active THEN a ELSE
    Enqueue([a EXCEPT !.active = TRUE, !.sequence = IF p.sequence = None THEN @ ELSE p.sequence],
            [type |-> "reset", sequence |-> a.sequence])

\* a start-of-stream packet: AudioProtocol::begin, and a reset of the worker
Begin(a, p) ==
    LET n == IF p.sequence = None THEN a.sequence ELSE p.sequence
        b == [a EXCEPT !.sequence = n, !.active = TRUE, !.header_seen = FALSE]
        r == Enqueue(b, [type |-> "reset", sequence |-> n])
    IN IF p.shape.stream_codec # "opus" THEN StopStream(a)
       ELSE IF r.worker THEN Report([r EXCEPT !.last_ms = None], 0) ELSE r

\* process_opus_buffer of an OpusHead, bundled or not
OpusHead(a, p) ==
    LET c == Enqueue(a, [type |-> "configure", sequence |-> a.sequence, stream |-> p.stream])
    IN IF p.shape.head = "none" THEN a
       ELSE IF p.shape.head = "bad" THEN StopStream(a)
       ELSE IF c.worker THEN [c EXCEPT !.header_seen = TRUE] ELSE c

\* process_opus_buffer of a payload
Payload(a, p) ==
    IF p.shape.data /\ a.header_seen
    THEN EnqueuePacket(a, [type |-> "packet", sequence |-> a.sequence, stream |-> p.stream])
    ELSE a

\* process_audio_data; what ends the stream also clears active and header_seen
AudioData(a, p) ==
    LET b == IF p.shape.sos THEN Begin(a, p) ELSE a
    IN IF ~a.negotiated \/ ~a.worker \/ ~Accepts(a, p.sequence) THEN a
       ELSE IF ~b.active THEN b
       ELSE IF p.shape.eos THEN EndStream(b)
       ELSE IF p.shape.codec # "opus" THEN StopStream(b)
       ELSE Payload(OpusHead(b, p), p)

-----------------------------------------------------------------------------
(* The UI thread *)

Takes(t) ==
    /\ audio.session /\ ui # <<>> /\ Head(ui).type = t
    /\ ui' = Tail(ui) /\ UNCHANGED <<thread, pipeline, latency, server>>

\* process_hello answers an asynchronous request with our capabilities
ProcessHello ==
    /\ Takes("hello")
    /\ audio' = IF audio.worker /\ ~audio.capabilities_sent /\ Head(ui).async
                THEN [audio EXCEPT !.server_av_sync = Head(ui).av_sync,
                                   !.capabilities_sent = TRUE]
                ELSE audio

ProcessAudioCapabilities ==
    /\ Takes("audio-capabilities")
    /\ audio' = IF audio.worker /\ audio.capabilities_sent /\ ~audio.negotiated /\ Head(ui).opus
                THEN Report([audio EXCEPT !.negotiated = TRUE, !.told = "start",
                                          !.last_ms = None], 0)
                ELSE audio

ProcessAudioData == Takes("audio-data") /\ audio' = AudioData(audio, Head(ui))
AudioLatency == Takes("audio-latency") /\ audio' = Report(audio, Head(ui).ms)
AudioWorkerFailed == Takes("audio-worker-failed") /\ audio' = Disable(audio)

\* the event loop ends, and the client is dropped with all it holds
SessionEnds ==
    /\ audio.session /\ ui' = <<>>
    /\ audio' = [DropWorker(audio) EXCEPT !.session = FALSE, !.negotiated = FALSE,
                                          !.active = FALSE, !.header_seen = FALSE]
    /\ UNCHANGED <<thread, pipeline, latency, server>>

-----------------------------------------------------------------------------
(* The audio thread: handle_command, service_output and worker_main *)

\* nothing is posted to a loop that is gone
Posts(p) == ui' = IF audio.session THEN Append(ui, p) ELSE ui
PostLatency(ms) == Posts([type |-> "audio-latency", ms |-> ms])
PostFailure == thread' = "failed" /\ Posts([type |-> "audio-worker-failed"])

\* worker_main reads the running flag, which dropping the worker clears, before it takes
\* a command or services the output
CheckRunning ==
    /\ thread = "idle" /\ thread' = IF audio.worker THEN "live" ELSE "ended"
    /\ UNCHANGED <<audio, ui, pipeline, latency, server>>

Command(t) ==
    /\ thread = "live" /\ audio.commands # <<>> /\ Head(audio.commands).type = t
    /\ audio' = [audio EXCEPT !.commands = Tail(@)]
    /\ UNCHANGED server

\* the pipeline is dropped
Silence == pipeline' = NoPipeline /\ latency' = 0 /\ PostLatency(0)

HandleReset == Command("reset") /\ thread' = "idle" /\ Silence

HandleConfigure ==
    /\ Command("configure") /\ thread' = "idle" /\ PostLatency(0) /\ latency' = 0
    /\ pipeline' = [sequence |-> Head(audio.commands).sequence,
                    stream |-> Head(audio.commands).stream, last_ms |-> None]

\* a pipeline that cannot be made stops the thread
ConfigureFails == Command("configure") /\ PostFailure /\ UNCHANGED <<pipeline, latency>>

\* a packet of the pipeline's sequence is decoded, any other is dropped
Decodes(c) == pipeline # NoPipeline /\ c.sequence = pipeline.sequence
HandlePacket == Command("packet") /\ thread' = "idle" /\ UNCHANGED <<ui, pipeline, latency>>
DecodeFails ==
    /\ Command("packet") /\ Decodes(Head(audio.commands))
    /\ PostFailure /\ UNCHANGED <<pipeline, latency>>

\* the end of a stream is not reported
HandleEndMutant ==
    /\ Command("end") /\ thread' = "idle" /\ pipeline' = NoPipeline /\ latency' = 0
    /\ UNCHANGED ui

HandleEnd ==
    /\ Command("end") /\ thread' = "idle"
    /\ IF Decodes(Head(audio.commands)) THEN Silence ELSE UNCHANGED <<ui, pipeline, latency>>

HandleShutdown == Command("shutdown") /\ thread' = "ended" /\ UNCHANGED <<ui, pipeline, latency>>

\* service_output, also of a device that is rebuilt: the latency is posted when it moved
ServiceOutput(ms) ==
    /\ thread = "live" /\ thread' = "idle" /\ pipeline # NoPipeline /\ Len(ui) < MaxQueue
    /\ latency' = ms
    /\ IF Far(pipeline.last_ms, ms)
       THEN PostLatency(ms) /\ pipeline' = [pipeline EXCEPT !.last_ms = ms]
       ELSE UNCHANGED <<ui, pipeline>>
    /\ UNCHANGED <<audio, server>>

ServiceFails ==
    /\ thread = "live" /\ pipeline # NoPipeline /\ PostFailure
    /\ UNCHANGED <<audio, pipeline, latency, server>>

\* the thread ends after its failure, or when it finds the channel disconnected
WorkerEnds ==
    /\ \/ thread = "failed"
       \/ thread = "live" /\ ~audio.worker /\ audio.commands = <<>>
    /\ thread' = "ended" /\ UNCHANGED <<audio, ui, pipeline, latency, server>>

-----------------------------------------------------------------------------
(* The server: its packets arrive in order, but it need not heed what it is told *)

ServerSends(p) ==
    /\ audio.session /\ Len(ui) < MaxQueue /\ Posts(p)
    /\ UNCHANGED <<audio, thread, pipeline, latency>>

ServerHello(async, av_sync) ==
    /\ ~server.greeted /\ server' = [server EXCEPT !.greeted = TRUE]
    /\ ServerSends([type |-> "hello", async |-> async, av_sync |-> av_sync])

ServerCapabilities(opus) ==
    /\ server.greeted /\ UNCHANGED server
    /\ ServerSends([type |-> "audio-capabilities", opus |-> opus])

ServerData(shape, n) ==
    /\ server.greeted
    /\ IF shape.sos
       THEN /\ server.stream < MaxStreams
            /\ server' = [server EXCEPT !.stream = @ + 1, !.sequence = n]
       ELSE n = server.sequence /\ UNCHANGED server
    /\ ServerSends([type |-> "audio-data", stream |-> server'.stream,
                    sequence |-> n, shape |-> shape])

-----------------------------------------------------------------------------
UserEvent ==
    \/ ProcessHello \/ ProcessAudioCapabilities \/ ProcessAudioData
    \/ AudioLatency \/ AudioWorkerFailed

Worker ==
    \/ CheckRunning \/ HandleReset \/ HandleConfigure \/ ConfigureFails
    \/ HandlePacket \/ DecodeFails \/ HandleEnd \/ HandleShutdown
    \/ (\E ms \in Latencies : ServiceOutput(ms)) \/ ServiceFails \/ WorkerEnds

Server ==
    \/ \E async, av_sync \in BOOLEAN : ServerHello(async, av_sync)
    \/ \E opus \in BOOLEAN : ServerCapabilities(opus)
    \/ \E shape \in Shapes, n \in None..MaxSeq : ServerData(shape, n)

Next == UserEvent \/ SessionEnds \/ Worker \/ Server

\* the UI thread handles its queue; its event loop waits for nothing else
Fairness == WF_vars(UserEvent)

Spec == Init /\ [][Next]_vars /\ Fairness

-----------------------------------------------------------------------------
(* Properties *)

\* No packet is decoded by the pipeline of another stream, even when both streams use one
\* sequence or none: a start-of-stream resets the worker, and payloads wait for their own
\* OpusHead (process_audio_data, handle_command).
NeverMixed ==
    LET c == Head(audio.commands)
    IN thread = "live" /\ audio.commands # <<>> /\ c.type = "packet" /\ Decodes(c) =>
        c.stream = pipeline.stream

\* Once a stream is over and the worker has caught up, nothing is left to play: the worker's End
\* names the sequence its pipeline was configured with (process_audio_data, stop_audio_stream).
SilentWhenOver ==
    audio.worker /\ ~audio.active /\ audio.commands = <<>> => pipeline = NoPipeline

\* When no report is under way, the latency the server was told is less than two thresholds from
\* the one last measured, and less than one once the stream is over: reports that were queued
\* behind the end of a stream are followed by a zero (report_audio_latency, LatencyReporter).
SyncClose ==
    /\ audio.negotiated /\ audio.server_av_sync /\ audio.commands = <<>> /\ thread \in {"idle", "live"}
    /\ \A i \in DOMAIN ui : ui[i].type # "audio-latency"
    => LET error == IF audio.last_ms > latency THEN audio.last_ms - latency
                                               ELSE latency - audio.last_ms
       IN /\ error < 2 * Threshold - 1
          /\ pipeline = NoPipeline => error < Threshold

\* Audio that fails is switched off for the session, and a server that was told to start is told
\* to stop "even if no SOS arrived yet" (disable_audio), unless the session ends first.
FailureStops ==
    (thread = "failed") ~> (~audio.session \/ (~audio.worker /\ audio.told # "start"))
=============================================================================
