------------------------------ MODULE Playout ------------------------------
(***************************************************************************)
(* How the audio thread plays a stream (Pipeline and WasapiOutput in       *)
(* windows_audio.rs, PcmBuffer and AdaptiveJitter in audio.rs): decoded    *)
(* frames wait in a queue of chunks until they last for the target, then   *)
(* fill the device's buffer whenever it has room; running dry stops the    *)
(* device and raises the target, 30 quiet seconds lower it, and a device   *)
(* that is lost is replaced.  AudioStream has the streams and the commands *)
(* around it.  A sample frame is its number modulo Tags, which only the    *)
(* properties look at.                                                     *)
(***************************************************************************)
EXTENDS Naturals, SequencesExt

CONSTANTS
    FramesPerMs,   \* SAMPLE_RATE / 1000
    StartTarget, MinTarget, MaxTarget, HardCap,   \* in ms
    UpStep, DownStep,   \* how far an underrun raises the target, and quiet lowers it
    MaxJitter,     \* the greatest 95th percentile of the jitter tried
    PacketFrames,  \* the numbers of frames a packet decodes to
    PreSkip,       \* pre_skip of the OpusHead
    BufferFrames,  \* the size of the device's buffer
    MaxFaults,     \* how often a device is lost
    Tags           \* more than the frames in the queue

CapFrames == HardCap * FramesPerMs

ASSUME PlayoutAssumption ==
    /\ FramesPerMs \in Nat \ {0} /\ MinTarget \in Nat \ {0} /\ StartTarget \in Nat
    /\ MaxTarget \in Nat /\ HardCap \in Nat /\ UpStep \in Nat /\ DownStep \in Nat
    /\ MinTarget <= StartTarget /\ StartTarget <= MaxTarget /\ MaxTarget <= HardCap
    /\ MaxJitter \in Nat /\ PacketFrames \subseteq Nat /\ PreSkip \in Nat
    /\ BufferFrames \in Nat \ {0} /\ MaxFaults \in Nat /\ Tags \in Nat \ {0}
    /\ \A n \in PacketFrames : CapFrames + n < Tags

VARIABLES
    running,   \* the audio thread has not failed
    pcm,       \* PcmBuffer: the chunks, and how many frames they hold
    target,    \* AdaptiveJitter.target_ms
    playing,   \* the device was started
    padding,   \* frames in the device's buffer
    pre_skip,  \* frames still to be dropped from the start of the stream
    faults,    \* how often a device was lost
    next,      \* history: the number of the next frame decoded
    written,   \* history: the frames this step handed to the device
    last,      \* history: how far back the newest frame handed over lies
    skipped    \* history: frames were dropped since

playoutvars == <<running, pcm, target, playing, padding, pre_skip, faults,
                 next, written, last, skipped>>

SilentFrame == Tags
Frame == 0..(Tags - 1)
Left(c) == Len(c.samples) - c.frame_offset
\* the frames in the first n chunks
HeldIn(chunks, n) ==
    LET held[i \in 0..n] == IF i = 0 THEN 0 ELSE held[i - 1] + Left(chunks[i]) IN held[n]
Held(chunks) == HeldIn(chunks, Len(chunks))

\* The queue counts its frames right, however chunks were cut, and holds no more than the cap;
\* the target stays between its bounds and the device's buffer between its own (PcmBuffer,
\* AdaptiveJitter, WasapiOutput).
PlayoutTypeOK ==
    /\ running \in BOOLEAN /\ playing \in BOOLEAN /\ skipped \in BOOLEAN
    /\ pcm \in [chunks : Seq([samples : Seq(Frame), frame_offset : Nat]), frames : Nat]
    /\ \A i \in DOMAIN pcm.chunks : Left(pcm.chunks[i]) > 0
    /\ pcm.frames = Held(pcm.chunks) /\ pcm.frames <= CapFrames
    /\ target \in MinTarget..MaxTarget
    /\ padding \in 0..BufferFrames /\ pre_skip \in 0..PreSkip /\ faults \in 0..MaxFaults
    /\ next \in Frame /\ written \in Seq(Frame \cup {SilentFrame}) /\ last \in 0..Tags

\* Pipeline::new
PlayoutInit ==
    /\ running = TRUE /\ pcm = [chunks |-> <<>>, frames |-> 0] /\ target = StartTarget
    /\ playing = FALSE /\ padding = 0 /\ pre_skip = PreSkip /\ faults = 0
    /\ next = 0 /\ written = <<>> /\ last = Tags /\ skipped = TRUE

-----------------------------------------------------------------------------
(* PcmBuffer *)

LatencyMs(frames) == frames \div FramesPerMs

PcmPush(p, samples) ==
    IF samples = <<>> THEN p
    ELSE [chunks |-> Append(p.chunks, [samples |-> samples, frame_offset |-> 0]),
          frames |-> p.frames + Len(samples)]

\* the number of chunks that the first n frames use up
Used(chunks, n) ==
    CHOOSE k \in 0..Len(chunks) :
        HeldIn(chunks, k) <= n /\ (k < Len(chunks) => n < HeldIn(chunks, k + 1))

FirstFrames(chunks, n) ==
    [j \in 1..n |->
        LET k == Used(chunks, j - 1)
        IN chunks[k + 1].samples[chunks[k + 1].frame_offset + j - HeldIn(chunks, k)]]

\* chunks that are used up go, the next one is used from an offset
Advance(chunks, n) ==
    LET k == Used(chunks, n)
        rest == SubSeq(chunks, k + 1, Len(chunks))
    IN IF rest = <<>> THEN rest
       ELSE [rest EXCEPT ![1].frame_offset = @ + n - HeldIn(chunks, k)]

\* n frames are what the caller asks for and the queue says it holds
PopInto(p, n) ==
    LET copied == Min({n, p.frames, Held(p.chunks)})
    IN [out |-> FirstFrames(p.chunks, copied),
        pcm |-> [chunks |-> Advance(p.chunks, copied), frames |-> p.frames - copied]]

\* the frames over the cap are dropped without being counted
CapMutant(p) ==
    IF p.frames <= CapFrames THEN p
    ELSE [chunks |-> Advance(p.chunks, p.frames - CapFrames), frames |-> p.frames]

\* enforce_hard_cap: the oldest frames are dropped
EnforceHardCap(p) ==
    IF p.frames <= CapFrames THEN p
    ELSE [chunks |-> Advance(p.chunks, p.frames - CapFrames), frames |-> CapFrames]

-----------------------------------------------------------------------------
(* AdaptiveJitter *)

\* an underrun raises the target without limit
RaisedMutant(t) == t + UpStep

\* underrun
Raised(t) == Min({t + UpStep, MaxTarget})

\* update_stable after 30 seconds: the target comes down to what the jitter, whose 95th
\* percentile is p95, leaves room for
Lowered(t, p95) ==
    LET floor == Min({MinTarget + 2 * p95, MaxTarget})
    IN IF t > floor THEN Max({t - Min({t, DownStep}), floor}) ELSE t

\* the targets that service_output may find, with or without 30 quiet seconds before it
Targets == {target} \cup {Lowered(target, p95) : p95 \in 0..MaxJitter}

-----------------------------------------------------------------------------
(* The audio thread *)

Age(f) == (next + Tags - 1 - f) % Tags

\* decode_packet, with n frames of sound in the packet: what pre_skip takes is never queued
DecodePacket(n) ==
    /\ running
    /\ LET skip == Min({n, pre_skip})
           samples == [i \in 1..(n - skip) |-> (next + skip + i - 1) % Tags]
           pushed == PcmPush(pcm, samples)
       IN /\ pcm' = EnforceHardCap(pushed)
          /\ pre_skip' = pre_skip - skip
          /\ skipped' = (skipped \/ pushed.frames > CapFrames)
    /\ next' = (next + n) % Tags /\ last' = Min({last + n, Tags}) /\ written' = <<>>
    /\ UNCHANGED <<running, target, playing, padding, faults>>

\* write_frames: what the queue cannot give is silence
Batch(out, n) == [i \in 1..n |-> IF i <= Len(out) THEN out[i] ELSE SilentFrame]
Write(n) ==
    \E popped \in {PopInto(pcm, n)} :
        /\ pcm' = popped.pcm /\ padding' = padding + n /\ written' = Batch(popped.out, n)
        /\ IF n > 0 THEN last' = Age(Batch(popped.out, n)[n]) /\ skipped' = FALSE
                   ELSE UNCHANGED <<last, skipped>>
        /\ UNCHANGED <<running, pre_skip, faults, next>>

Available == BufferFrames - padding

\* service_output while buffering: enough is queued to start
Ready(t) == ~playing /\ LatencyMs(pcm.frames) >= t
StartPlaying(t) ==
    /\ running /\ Ready(t)
    /\ target' = t /\ playing' = TRUE
    /\ \E n \in 0..BufferFrames : n = Min({Available, pcm.frames}) /\ Write(n)

\* only an empty queue counts as an underrun
DryMutant == playing /\ Available # 0 /\ pcm.frames = 0

\* while playing: the device has room for more than is queued
Dry == playing /\ Available # 0 /\ pcm.frames < Available
Underrun(t) ==
    /\ running /\ Dry
    /\ target' = Raised(t) /\ playing' = FALSE /\ padding' = 0 /\ written' = <<>>
    /\ UNCHANGED <<running, pcm, pre_skip, faults, next, last, skipped>>

Refills == playing /\ Available # 0 /\ ~Dry
Refill(t) ==
    /\ running /\ Refills /\ target' = t /\ UNCHANGED playing
    /\ \E n \in 0..BufferFrames : n = Available /\ Write(n)

Idle(t) ==
    /\ running /\ ~Ready(t) /\ ~(playing /\ Available # 0)
    /\ target' = t /\ written' = <<>>
    /\ UNCHANGED <<running, pcm, playing, padding, pre_skip, faults, next, last, skipped>>

ServicePlayout(t) == StartPlaying(t) \/ Underrun(t) \/ Refill(t) \/ Idle(t)

\* the frames service_output is going to write
Due(t) == IF Ready(t) THEN Min({Available, pcm.frames}) ELSE IF Refills THEN Available ELSE 0

\* One of service_output's calls reports AUDCLNT_E_DEVICE_INVALIDATED: before the frames that
\* are due were taken from the queue (popped = 0), or after that, and if it is one of the last
\* calls, after an underrun was dealt with. rebuild_output opens another device.
DeviceLost(t, popped, late) ==
    /\ running /\ faults < MaxFaults /\ faults' = faults + 1
    /\ pcm' = PopInto(pcm, popped).pcm
    /\ target' = IF late /\ Dry THEN Raised(t) ELSE t
    /\ playing' = FALSE /\ padding' = 0 /\ written' = <<>>
    /\ skipped' = (skipped \/ popped > 0)
    /\ UNCHANGED <<running, pre_skip, next, last>>

\* any other error, or no device to replace the lost one, ends the thread; so does a packet
\* that cannot be decoded
Fails ==
    /\ running /\ running' = FALSE /\ written' = <<>>
    /\ UNCHANGED <<pcm, target, playing, padding, pre_skip, faults, next, last, skipped>>

\* the device (external) plays what it holds while it is started
DevicePlays(n) ==
    /\ playing /\ n <= padding /\ padding' = padding - n /\ written' = <<>>
    /\ UNCHANGED <<running, pcm, target, playing, pre_skip, faults, next, last, skipped>>

Arrives == \E n \in PacketFrames : DecodePacket(n)
Services == \E t \in Targets : ServicePlayout(t)

PlayoutNext ==
    \/ Arrives \/ Services
    \/ \E t \in Targets : \E popped \in {0, Due(t)}, late \in BOOLEAN : DeviceLost(t, popped, late)
    \/ Fails
    \/ \E n \in 1..BufferFrames : DevicePlays(n)

\* worker_main services the output after every wait, of at most EVENT_WAIT_MS; that 30 seconds
\* pass without an underrun is not assumed
PlayoutSpec ==
    PlayoutInit /\ [][PlayoutNext]_playoutvars /\ WF_playoutvars(ServicePlayout(target))

-----------------------------------------------------------------------------
(* Properties *)

\* The device gets every frame once and in order: no silence in between, although write_frames
\* pads what the queue cannot give, and no frame skipped but those the hard cap dropped or a
\* lost device took with it; an underrun forgets nothing that was queued (pop_into,
\* service_output, rebuild_output).
HeardInOrder ==
    [][written' # <<>> =>
        /\ \A i \in DOMAIN written' :
              written'[i] # SilentFrame /\ Age(written'[i]) + i = Age(written'[1]) + 1
        /\ IF skipped THEN Age(written'[1]) < last ELSE Age(written'[1]) + 1 = last]_playoutvars

\* Buffering ends: however often the stream ran dry and raised its target, the target stays
\* within what the capped queue can hold, so playing resumes while sound keeps arriving
\* (underrun, enforce_hard_cap, service_output).
Resumes ==
    []<><<next' # next>>_playoutvars => (~playing ~> playing)
=============================================================================
