# A TLA+ model of rust-xpra

rust-xpra is a client for xpra servers: it connects, authenticates, shows the
windows of remote applications on the local desktop, and forwards input, the
clipboard, sound and cursors. This directory holds TLA+ modules for the parts
of it where threads, packets and failures interleave, TLC configurations that
check them on small instances, and TLAPS proofs of the results that hold for
every instance. `PROJECT.json` maps each definition to the lines it models and
lists the runs, the mutants that show each property can fail, the hazards and
the theorems.

## The system

One process, several threads; all packets are written by one of them:

| thread | does | talks to |
|---|---|---|
| UI | runs winit's event loop; `user_event` handles packets, `window_event` native events; the only thread that writes packets to the server | decode and clipboard over unbounded channels, audio over a bounded one |
| reader | `start_read_loop`: reads, parses and posts one packet at a time, ends at the first error | posts to UI |
| decode | `start_draw_decode_loop`: decodes `draw` packets one at a time, owns the h264 decoders | posts to UI |
| ping | `start_ping_loop`: posts `send-ping` on a timer | posts to UI |
| clipboard | `start_clipboard_loop`: sets the desktop's clipboard, polls it every half second | posts to UI |
| pinentry | `spawn_pinentry`: one prompt, one result | posts to UI |
| connect | `start_connect`: one connection attempt, one result | posts to UI |
| audio (Windows) | `AudioWorker`: decodes and plays | posts to UI |

Everything posted to the UI thread goes through one FIFO (`EventLoopProxy`), and
posting fails only once the loop is gone. `quit` records the exit status and
asks the loop to end; events that are already queued may still be handled
before it does, and from then on `write_json` drops every packet.

### Components, their state, and what makes them correct

- **Drawing path** (`client.rs`, `draw_decoder.rs`). State: the two queues, the
  open windows, a decoder per window with an h264 stream, the layout of
  acknowledgements. Operations: read, dispatch, decode, paint, acknowledge,
  release a decoder. Correct when every draw is acknowledged exactly once, in
  order, in a layout the server understands, whatever becomes of the draw and
  its window; and when a stream is only decoded by a decoder that has seen its
  keyframe, and no decoder outlives its window.
- **Window registry** (`client.rs`, `window.rs`). State: `windows`, `id_map`,
  `pointer_grabbed`, `current_cursor`, and per window the stacking flags, the
  decorations and whether it is resizable. Operations: one per packet about
  windows, grabs and cursors, and the handling of native events. Correct when
  the maps agree, the windows that hold a grab are accounted for, each window has
  the level, frame, resizability and cursor the server last asked for, and input is
  never reported for a window the server destroyed.
- **Session** (`client.rs`, `pinentry.rs`, `auth_dialog.rs`, `exit_codes.rs`).
  State: `exit_code`, `startup_complete`, `pending_challenge`, `auth_dialog`,
  the log sink. Operations: hello, challenge and its four password sources,
  disconnect, lost connection, invalid packet, tray exit, failing writes.
  Correct when at most one prompt is up, a pending challenge always has one or
  the session is ending, the first cause of the end decides the status, and a
  decided end really ends the loop.
- **Mmap transfers** (`mmap.rs`). State: a ring in shared memory with two control
  words, `data_start` (ours) and `data_end` (the server's). Operations: read a
  frame, release it. Correct when a frame is never overwritten before it is
  copied and no space is lost.
- **Clipboard** (`clipboard.rs`, `client.rs`). State: the desktop's clipboard, a
  remembered text on either thread, a queue in each direction, whether syncing
  is on. Correct when nothing bounces between the two sides, what was on the
  clipboard before the session stays local, the newest remote text wins, and both
  sides converge.
- **Remote logging** (`remote_logging.rs`) posts records as packets to the UI
  thread; correct when forwarding can not feed on itself.
- **Application and connection dialog** (`main.rs`, `connect_dialog.rs`). State:
  prompt or session, one pending attempt and its channel. Correct when a
  result is matched with the attempt it belongs to and the dialog is never left
  "connecting".
- **Speaker forwarding** (`audio.rs`, `windows_audio.rs`). State: stream sequence,
  negotiation flags, a bounded command queue, a jitter buffer. Correct when data
  of an old stream is never played in a new one, a worker that dies turns the
  feature off cleanly, and what is played is heard once, in order, and resumes after
  every underrun.
- **Packets and transports** (`net/`). State: the chunks of the packet being read;
  the websocket message being reassembled; the lock around TLS. Operations: read a
  header, a payload, a frame; answer a ping; write a packet. Correct when packets
  are read in order, each with its own chunks, however the stream is cut, and
  when no frame is written into the middle of another.
- **Framebuffer** (`window.rs`, `client.rs`). State: per window its size, a linear
  array of pixels and a surface of the same size, and what was presented.
  Operations: paint, resize, present. Correct when every pixel lands where the
  server drew it, whatever size the rectangle was drawn for, and the screen ends up
  with the server's picture however draws and resizes cross.
- Target parsing, digests, random numbers, the bitmap font, the tray's Win32
  calls: no interleaving; not modelled.

### What is hard

Draws race the teardown of their windows through two queues; several threads
can end the session at once; a failing write happens in places that cannot stop
the loop; a log record of a failing write is itself a packet to write; the
ring's other side is another process with no lock; a local copy and a remote
copy cross each other; native events are queued for windows that are already
gone; draws for one size of a window arrive at another; the sound device drains a
queue that is cut, runs dry and moves its own threshold. Each is a hazard in `PROJECT.json`, at its line, with its properties.

## The modules

| module | models | state and actions |
|---|---|---|
| `DrawPipeline` | reader, UI and decode threads on the drawing path | `wire` (sent, unread), `events` (posted to the UI thread), `decodeq` (the decode channel), `windows`, `decoders`, `compatible`; an action per packet handler and per arm of the decode loop |
| `DrawAcks` | what the drawing path promises: draws are acknowledged once each, in the order they were sent | `sent`, `acked` |
| `WindowRegistry` | windows, grabs, cursors, metadata, native events | one action per handler; a window is a record of what winit was told; `wanted` and `refused` are histories of what the server asked for and of grabs the window system kept |
| `Session` | one connection from `resumed` to the end of the loop | `ui` is the event queue; one action per handler; `process_challenge` is one action per branch |
| `MmapRing` | the ring and the decode thread's use of it | each byte holds the number of the draw that wrote it; copying is one step per chunk |
| `Clipboard` | the clipboard thread and the clipboard handlers | a text carries who put it there, which only the properties look at; `seeded` is the history of whether the thread could read the clipboard when it started |
| `App` | the process around a session and its connection dialog | the fields are one value, the details they make; one action per key, click and packet; the worker's result and its wake-up packet are two steps |
| `AudioStream` | speaker forwarding on the UI and audio threads | `queue` is the bounded command channel; one action per packet handler and per command; a packet carries the stream it is of, which only the properties look at |
| `Transport` | the reader thread's side of the socket, and the writes that share it | `inbound` are TCP segments or websocket frames; a part is a header and a payload, which may arrive apart; a frame is written in pieces, as the send buffer has room |
| `Framebuffer` | one window's pixels, from the decoded draw to the screen | `window` is `XpraWindow`, `draws`, `asks` and `configures` are the packets under way; a pixel is the draw and the cell it comes from; `canvas` is the reference, by position rather than by offset; `broken` and `unseen` are histories of failed surface calls and of native sizes that no event announced |
| `Playout` | the audio thread's queue, target and device below `AudioStream` | `pcm` is `PcmBuffer` with its chunks, `padding` what the device holds; `service_output` is one action per branch; a frame is its number |
| `MC*` | instances for TLC | symmetry sets, and the metadata updates, audio packets and packet parts tried |
| `*Proofs` | theorems | see below |

How the code's data is abstracted. Payloads and texts are model values. An
`h264` draw starts a stream (a keyframe) or continues one; a decoder is in sync
or not. An update of metadata is one of absent, yes and no for each of the flags
that interact. A packet's argument is one of the few kinds its handler tells
apart. In `Session` the log records one handler writes in a row are one packet.

The server, the network, the desktop's clipboard and winit's native event queue
are external: their actions do whatever the code in `src/` allows for. The
server of `DrawPipeline` may still draw on a window it has just withdrawn, in the
order a single connection gives. Such a late draw is acknowledged like any other,
but an h264 one leaves a decoder behind that nothing releases, so
`NoOrphanDecoder` leaves out the windows that got one (`late`); the server of `MmapRing` writes
wherever the control words permit, in the placements that the comments of
`mmap.rs` describe. The server of `Framebuffer` draws a window again whenever a
`window-configure` has another size than the one before it or than its own: `resize`
drops the picture and counts on that. A server that compares with its own size only
would leave a window black that it had resized itself: its draw for the new size can
be painted before the native window follows, and `resize` then drops it.

## The runs

| run | states | what it shows |
|---|---|---|
| `draw_pipeline` | 425,780 | `DecodedInSync`, `NoOrphanDecoder`, the refinement `AcksInOrder` (`DrawPipeline` implements `DrawAcks`, an acknowledgement in a layout the server does not know counting for none), and the liveness `EveryDrawAcked` |
| `window_registry` | 422,574 | `IdMapExact`, `GrabTracked`, `LooksAsAsked` (levels, frames and cursors against a record of what was asked), and the action property `InputForOpenWindow` |
| `session` | 179,826 | `OnePromptPerChallenge`, the action properties `FirstCauseWins` and `LogsConsumed`, the liveness `DecidedExits` |
| `mmap_ring` | 250,874 | `PixelsIntact`, `AllReclaimed`, and the liveness `FullRingDrains` |
| `clipboard` | 190,413 | `NoEcho`, `NewestWins` |
| `app` | 1,838 | `ShownIsTried`, the liveness `ResultShown` |
| `audio_stream` | 649,496 | `NeverMixed`, `SilentWhenOver`, `SyncClose`, and the liveness `FailureStops` |
| `transport` | 638,792 | `WholeFrames`, the action property `ChunksComplete`, and the liveness `LawfulRead` and `WriteEnds`, over TCP, TLS and websockets over TLS |
| `framebuffer` | 2,469,692 | `PixelsPlaced` (the linear offsets against a reference by position), `ScreenCurrent` |
| `playout` | 34,106 | the action property `HeardInOrder`, the liveness `Resumes` |
| `clipboard_latest` | violated | crossing copies leave the two sides swapped |
| `transport_ws` | violated | over a websocket without TLS a pong can cut a frame in two |

Each passing run but `app` also checks its module's `TypeOK`, which for
`Framebuffer` includes that window, buffer and surface keep one size, and for
`Playout` that the count of frames is that of the chunks. Each property has a mutant:
a definition changed the way a plausible bug would, under which the same run
finds the property violated.

The two violated runs state what the repository says of itself:

- *"the latest local text, which the clipboard thread's poll keeps in
  `last_clipboard`"* (`client.rs`, `process_clipboard_request`). A user copies
  `b`, the poll posts it; a token with `a` is handled first, and the thread sets
  `a`; then the report of `b` is handled, remembered and sent to the server.
  Now the desktop holds `a`, and the server `b`.
- *"would let a concurrent writer (the reader thread's automatic pong reply to a
  ping) interleave into the middle of it"* (`websocket.rs`, `CloneableStream`).
  `write_frame` prevents that for TLS; for TCP it is `write_all` on one of two
  clones of a socket. When the send buffer is full in the middle of a frame, a
  pong of the reader thread can be what fills the next gap.

Three properties are stated with an exception, because the code does not give them
without it:

- `GrabTracked`: `release_pointer_grab` takes the holder out of `pointer_grabbed`
  before `set_cursor_grab` may fail. The window then still confines or locks the
  pointer, and the client has forgotten it: no ungrab reaches it until it is lost
  or grabbed for again. The property names these windows (`refused`) and says that
  they and the holder are all there are.
- `NoEcho`: the first `get_contents` of the clipboard thread has
  `unwrap_or_default`. When it fails, `last` starts empty, and the next poll that
  succeeds reports what was on the clipboard before the session, which the comment
  at `clipboard.rs:46-47` means to prevent. The property excepts just that text, and
  only then (`seeded`).
- `ScreenCurrent`: `process_window_move_resize` drops what `request_inner_size`
  returns. Where the size is applied at once, as winit does on Wayland, no event
  follows, so that `resize` is not called and nothing is reported: until the next
  event of the window the picture keeps the size reported last. The property
  excepts the native size from then on (`unseen`), not the size reported nor the
  picture.

Four more things show in the models that no run calls wrong. A challenge that the
server repeats after the answer was sent is answered again (`AnswerChallenge` takes
`pending_challenge`), while the comment of `process_challenge` speaks of "a single
challenge". An exit from the tray whose farewell cannot be written ends with the status
of a lost connection (`TrayExit`), not with the 0 that the repository's `README.md` gives.
A surface that fails to resize or to present is not tried again until the next event, so
`ScreenCurrent` leaves that time out (`broken`). And `process::exit` does not wait for the
decode thread, whose reference to the mmap area is the last: a process that ends before the
server's hello, by a cancelled dialog or a refused password, can leave the backing file in
the temporary directory (the repository's `README.md` says it "never outlives the
handshake").

A dialog that is cancelled while its result is queued still starts a session, whose
status then takes the place of 0 (`App`: `Escape`, `ConnectOk`, `LoopEnds`). The
comment of `exit_code` puts the session's status first, so no run calls it wrong.

### Bounds

- `MCDrawPipeline`: two windows and four packets from the server (`MaxPackets`):
  enough for a window to be created, drawn to and lost while its draws are in
  both queues, or for two windows to interleave. A window id is never used
  again, as with the real server. `OnWindows` is
  true, the configuration with persistent decoders; without it the decode
  queue carries draws only.
- `MCWindowRegistry`: two server ids and two winit ids, neither used twice, one
  cursor, and two native events in flight (`MaxPending`): events of both windows
  can be queued when either is lost. Eight updates: the level flags set and cleared one
  at a time and both set at once, the frame taken away and given back.
- `MCSession`: two challenges (`MaxChallenges`), so that a second one meets each
  stage of the first; two packets posted by other threads (`MaxQueue`), packets
  the handlers post themselves are not bounded.
- `MCMmapRing`: seven bytes of which one is the header, frames up to three: two
  frames and a wrap fit, and the ring can be exactly full. `Tags` exceeds the
  number of frames in flight, so that a number identifies a frame.
- `MCClipboard`: two texts, two packets in each queue.
- `MCApp`: two attempts (`MaxAttempts`), so that a retry follows a failure, and four
  details: refused by `submit`, refused by `parse_target`, and two good ones, so
  that the fields can differ from what is being tried.
- `MCFramebuffer`: sizes 2x3 and 3x2, whose offsets differ, and 0x0, a minimised
  window; one rectangle that reaches beyond the left and the top, beside the redraw
  of a whole window, which reaches beyond the right and the bottom when it was drawn for another size;
  three draws (`MaxDraws`), one resize by the user, one by the server and one failing call of the
  surface (`MaxMoves`, `MaxAsks`, `MaxFaults`): a draw for each size and one that
  crosses both changes.
- `MCPlayout`: two frames to a millisecond, packets of one and of three frames, a device of
  two, targets 1 and 2 under a cap of 3 ms, steps of 2 up and 1 down: packets cross the
  device's buffer, the cap cuts chunks and the target reaches both of its bounds. One lost
  device (`MaxFaults`); `Tags` exceeds the frames that are queued, so that a number identifies a
  frame.
- `MCAudioStream`: a queue of two commands (`Capacity`), latencies up to 3 with a
  report threshold of 2, two streams with sequences 0 and 1, one packet posted by
  other threads (`MaxQueue`), and eight shapes of audio packet: a stream can start, restart
  and end while the queue is full of the one before.
- `MCTransport`: two chunks are the most a packet may have (`MaxChunks` is 3) and 3
  is the first index out of range; two packets with three chunks between them, so
  that a chunk too many can be the first packet's or only the sum's; one control
  frame, one write in two pieces and room for one piece in the send buffer, so
  that either writer can be stopped in the middle; one data frame under way, as
  the reader sees frames one by one.

### Fairness

`DrawPipeline`: weak fairness of the reader, the UI thread and the decode
thread. Each is a loop that blocks only on its queue or socket. The server
owes nothing. `Session`: weak fairness of handling queued packets and of the end
of the loop after `event_loop.exit()`, which is winit's contract; neither the
server, the user, the network nor the pinentry program is fair. `MmapRing`: weak
fairness of the decode thread. `App`: weak fairness of handling queued packets, of
the end of the loop, and of a finished worker posting its packet; connecting may
take for ever. `AudioStream`: only the UI thread's handling of its queue; the failure of
the audio thread is an event that is posted, after which it owes nothing.
`Transport`: weak fairness of the reader, of the UI thread writing a
packet it began, of the server reading on a thread of its own and of it sending what
it has queued; pings and packets are bounded, so the contention for the lock ends. A lock
of the standard library is not fair, and an endless flow of writes could starve
the reader. `Playout`: weak fairness of `service_output` with the target as it is, which
`worker_main` calls after every wait of at most `EVENT_WAIT_MS`; that packets keep arriving is the
premise of `Resumes`, not an assumption, and the 30 quiet seconds that lower the target need never
pass. `Clipboard`, `WindowRegistry` and `Framebuffer` have no liveness properties and no
fairness.

## What is proved

All theorems hold for every value of the constants under the named assumptions of the
modules (`RegistryAssumption`, `ClipboardAssumption`, `SessionAssumption`,
`DrawAssumption`, `RingAssumption`, `TransportAssumption`, `AudioAssumption`,
`PlayoutAssumption`, `AppAssumption`, `FramebufferAssumption`), which only give the constants' types, keep the
sentinels outside the sets and, where a comparison needs it, a bound above zero. TLC
evaluates them on every run. Each invariant below was first checked by TLC on the instance
of its run.

The theorems of two components of one thread share a module: `UiProofs` has those of
`WindowRegistry` and `App`, which both run on the UI thread, and `AudioProofs` those of
`AudioStream` and `Playout`. For that the definitions of `App` and `Playout` have names of
their own (`AppSpec`, `PlayoutSpec`, `PcmPush`).

- `UiProofs`, of `WindowRegistry`: `TypeCorrect`, `IdMapCorrect`, `GrabCorrect`,
  `LooksCorrect`, `InputCorrect`. The inductive invariant `IInv` is the
  conjunction of the type invariant, the properties and `Unused`: keys that
  `windows` does not hold and windows not yet announced are absent, and a winit
  id that no window was made with is not in `id_map`. Without `Unused` a new
  window could take over an entry, or the grab, of another. `LooksAsAsked` is split
  by what it compares (`LevelsAsAsked`, `FramesAsAsked`, `CursorsAsAsked`): the level is that of
  what was asked only if the client's two flags are too, as the next update builds on
  them, so these belong to the invariant. One lemma per action
  shows that it preserves `IInv`.
- `UiProofs`, of `App`: `AppTypeCorrect`, `AppShown`. `ShownIsTried` says where the result of
  the attempt is that the dialog shows. It is not inductive: a result that is handled must
  leave no second one behind, or the dialog would be told of an attempt it no longer shows.
  `OneAttempt` says that: the attempt is the one whose channel the UI thread holds, it is in one
  place of its way back (connecting, posting its packet, or with its packet queued), and when the
  dialog is not connecting nothing is on that way. `Unstarted` covers the packets
  that could be queued before the loop runs.
- `ClipboardProofs`: `ClipboardTypeCorrect`, `NoEchoCorrect`,
  `NewestWinsCorrect`. `NoEcho` alone is not inductive: it needs that a text that
  may not be reported is the thread's `last` one as long as it is on the
  clipboard (`Remembered`), so that the poll does not report it, and hence that
  queued reports are of texts that may be (`ReportsLocal`). What may be (`Reportable`)
  depends on the first read, and nothing is reported before that (`SentLater`). `NewestWins` needs
  `NewestKept`: the newest remote text is the last one queued, or is on the
  clipboard.
- `SessionProofs`: `FirstCauseCorrect`, that no step changes a status that is set, needs
  no invariant, only that every action sets the status through `QuitCode` or `WriteCode`.
  `TypeCorrect` and `OnePromptCorrect` share one (`PromptInv`): it names who
  may answer a pending challenge, nobody, the pinentry thread, a queued answer or the
  dialog, and exactly one of them at a time. The lemmas about `Queued` say by how much each
  handler changes the number of packets of a type; `LogsConsumedCorrect` follows from
  the same lemmas.
- `DrawPipelineProofs`: `TypeCorrect`, `AcksInOrderCorrect`, `NoOrphanDecoderCorrect`,
  `DecodedInSyncCorrect`. Three invariants, one on top of the other. `NumInv`: what is
  owed an acknowledgement, from the last queue to the first, carries consecutive numbers,
  which gives the refinement of `DrawAcks` step by step. `Covered`: which packet may be
  ahead of which on the way through the three queues, so that a decoder of a closed window
  has its `lost-window` still coming. `VideoInv`: a decoder is of the stream that the draws
  that follow continue, or its end is ahead of them; an end-of-stream packet carries
  the stream it ends for that, which no action looks at.
- `MmapRingProofs`: `TypeCorrect`, `PixelsIntactCorrect`, `AllReclaimedCorrect`. Each
  pending draw ends at a mark, the value `data_start` gets when it is released. Marks are
  ordered around the ring from `data_start` to `data_end` (`MarksOk`) and the bytes of a draw lie
  beyond the mark of the one before it, so that a release frees bytes of released draws only. The
  wrap makes the order cyclic (`Between`, `Advances`), which is where the case splits are.
- `TransportProofs`: `TypeCorrect`, `ChunksCompleteCorrect`, `WholeFramesCorrect`. The
  reader's buffer, the message it reassembles, the data frame under way and what the server
  has not sent form one sequence, the flow, which cutting and reassembling leave alone. `Stream` says
  of it that headers and payloads alternate, packets follow one another, and every
  chunk to be handed on is in the reader or still in the flow. `WholeFrames` follows from
  `LockInv`: with TLS a frame is unfinished only while its writer holds the lock, and without
  websockets the reader writes nothing. Its hypothesis leaves out the plain websocket, for
  which the run `transport_ws` refutes the property.
- `AudioProofs`, of `AudioStream`: `AgreementCorrect` and from it `TypeCorrect`, `NeverMixedCorrect`,
  `SilentWhenOverCorrect`, `SyncCloseCorrect`. The invariant looks ahead: `Playing` says which
  pipeline there will be once the first commands of the queue are handled, `Silent` that there will be none.
  While the UI thread has seen a header, the worker will be playing that stream; else it
  will be silent (`Agrees`). What arrives next either starts a stream or is of this one (`Expects`, from
  the order the server sends in, `InOrder`). The latency the server was told is near the one posted last, or
  a report is in the UI thread's queue or will be posted by a queued command (`Reported`), and what was posted last
  is near what was measured (`Measured`): two errors below the threshold each, hence the bound of
  `SyncClose`. Type correctness is part of this: an accepted sequence is not negative because
  it is not less than the one before.
- `AudioProofs`, of `Playout`: `PlayoutTypeCorrect`, `PlayoutHeard`, `AdvanceShifts`. What a
  number of chunks holds is a recursive function (`HeldIn`); that there is one, and that it
  adds up chunk by chunk, is proved by induction over a set of numbers (`NumberInduction`),
  from the library's theorem that the natural numbers are well-founded. With it
  a frame has a place in the chunks (`FramePlace`), and `AdvanceShifts` states what
  `pop_into` and `enforce_hard_cap` both do: the j-th frame of the queue is then the one that was the
  (n + j)-th, where a chunk was cut as elsewhere. `PcmPush` adds the new frames behind
  (`PushExtends`). The inductive invariant `PlayoutInv` says that the queue counts its frames
  right (`Counted`), holds the newest ones in order (`Newest`: the last one queued was
  the last one decoded), that the frame handed over last is the one right before the queue's
  first, or older when frames were skipped since, and that `pre_skip` still takes frames only
  while nothing is queued. `HeardInOrder` then follows from what leaves the front of such a
  queue. The frames' numbers go round (`Tags`), and `AgeAfter` has the arithmetic of that.
- `FramebufferProofs`: `TypeCorrect`, `PixelsPlacedCorrect`, `ScreenCurrentCorrect`. The offsets
  `y * width + x` are inside the array and one to one on the positions of the window
  (`OffsetInside`, `OffsetOnce`), from which `PaintedPixels` says what painting a draw with its
  border leaves at every position; the edge of the clipped rectangle is where a neighbour is
  not drawn (`EdgePlaces`). `ScreenCurrent` rests on four invariants: a window with no event queued
  has the native size, unless that came without one (`SizeFollows`), the surface shows the framebuffer unless a redraw is
  queued (`ScreenFollows`), the size reported last is the window's (`SizeReported`), and
  `CatchingUp`: when the server has drawn for the size reported last, the last queued draw
  that covers a position is what its picture has there, and a position that no queued draw
  covers already shows it. A resize breaks the premise of `CatchingUp`, as it reports another
  size than the server drew for, so nothing is owed until it drew again.

Only model-checked: all liveness (`EveryDrawAcked`, `DecidedExits`, `FullRingDrains`,
`ResultShown`, `FailureStops`, `LawfulRead`, `WriteEnds`, `Resumes`), which is
out of the prover's reach, as it rests on fairness and ENABLED. Every safety property of a
run that passes is proved.

## Not modelled

The codecs, Media Foundation and WASAPI, Win32 and winit themselves, drawing of
text and dialogs, digests, target parsing, local log output. Positions of windows, raising,
minimising, icons, notifications and the bell are calls of the window system that leave no
state in the client. The ways an mmap chunk list can be malformed, beyond a draw that is refused
after parsing; the creation of the mmap file and the exchange of tokens in it, whose
three outcomes are kinds of hello in `Session`. The handshakes of TLS and websockets, masking,
the ssh subprocess (two pipes that no two threads write to), and the layout of headers and of
YAML. Of the sound: the playback rate, which only changes how fast the device plays; the
statistics of the jitter, whose 95th percentile is any value up to a bound; the fade after a
drop. The configuration of the h264 decoder and of its colour processor, a sequence of Media
Foundation calls on one thread: `DrawPipeline` has the decoder's lifetime. An empty websocket
message, which the server does not send, would read as the end of the file.

## Plan

1. `DrawPipeline`, `WindowRegistry`, `Session`, `MmapRing`, `Clipboard`: done.
2. `App`: done, with the session inside abstracted to how it ends.
3. `AudioStream` and `Transport`: done.
4. `Framebuffer` and `Playout`: done.
5. Theorems: the safety of every module, with the refinement of `DrawAcks` by
   `DrawPipeline`: done. Left to TLC: liveness.
