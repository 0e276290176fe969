---------------------------- MODULE AudioProofs ----------------------------
(***************************************************************************)
(* The speaker stream, from the command queue (AudioStream) to the audio   *)
(* device (Playout).                                                       *)
(*                                                                         *)
(* The command queue, for any capacity, threshold, latencies and streams,  *)
(* and whatever the server sends in whatever order.  The argument looks    *)
(* ahead: it says what the worker will play once it has handled the        *)
(* commands that wait for it.  The UI thread only queues a packet for the  *)
(* pipeline that will be there (Playing), and while no header was seen it  *)
(* has queued what will end every pipeline (Silent).  A command that is    *)
(* handled takes a step towards what was foreseen, one that is queued      *)
(* changes what is foreseen as the UI thread expects.                      *)
(*                                                                         *)
(* The playout queue, for any cap, targets, packets and device.  Frames    *)
(* are followed one by one through the chunks that hold them: the j-th     *)
(* frame of the queue (FrameAt) is the (n + j)-th of the queue n frames    *)
(* were taken from (AdvanceShifts), and the queue always holds the newest  *)
(* frames, so what leaves its front follows what left it before.  What a   *)
(* number of chunks holds is a recursive function (HeldIn): that it exists *)
(* is proved by induction, from the well-foundedness of the numbers.       *)
(***************************************************************************)
EXTENDS AudioStream, Playout, SequenceTheorems, WellFoundedInduction, TLAPS

alive == thread \in {"idle", "live"}

AudioState == [worker : BOOLEAN, capabilities_sent : BOOLEAN, negotiated : BOOLEAN,
               active : BOOLEAN, sequence : Nat, header_seen : BOOLEAN,
               server_av_sync : BOOLEAN, last_ms : Latencies \cup {None},
               commands : Seq(Commands), told : {"none", "start", "stop"},
               session : BOOLEAN]
Pipelines == [sequence : Nat \cup {None}, stream : Streams, last_ms : Latencies \cup {None}]

\* what the worker plays once it has handled the first n of the commands c: a pipeline for
\* sequence q, which was configured for stream s
Playing(c, pl, n, q, s) ==
    \/ \E j \in 1..n :
        /\ c[j].type = "configure" /\ c[j].sequence = q /\ c[j].stream = s
        /\ \A k \in (j + 1)..n : c[k].type = "packet"
    \/ /\ \A k \in 1..n : c[k].type = "packet"
       /\ pl.sequence = q /\ pl.stream = s

\* command i drops the pipeline
Drops(c, pl, i) ==
    \/ c[i].type = "reset"
    \/ c[i].type = "end" /\ \E s \in Streams : Playing(c, pl, i - 1, c[i].sequence, s)

\* nothing plays once the commands are handled
Silent(c, pl) ==
    \/ pl = NoPipeline /\ \A k \in 1..Len(c) : c[k].type # "configure"
    \/ \E i \in 1..Len(c) :
        /\ Drops(c, pl, i)
        /\ \A k \in (i + 1)..Len(c) : c[k].type # "configure"

\* a latency will be posted
WillPost(c, pl) == \E i \in 1..Len(c) : c[i].type = "configure" \/ Drops(c, pl, i)

\* packets are only queued for the pipeline that will be there
InPlace(c, pl) ==
    \A i \in 1..Len(c) :
        c[i].type = "packet" => Playing(c, pl, i - 1, c[i].sequence, c[i].stream)

IsData(p) == p.type = "audio-data"

\* p starts stream t
Starts(p, t) == IsData(p) /\ p.shape.sos /\ p.stream = t

\* a packet of sequence n is not older than sequence q
Fresh(q, n) == ~(n # None /\ n < q)

\* of other streams than s, only what starts within u or is older than sequence q is to come
Follows(u, q, s) ==
    /\ \A i \in 1..Len(u) :
        IsData(u[i]) /\ u[i].stream # s /\ Fresh(q, u[i].sequence) =>
        \E k \in 1..i : Starts(u[k], u[i].stream)
    /\ server.stream # s /\ Fresh(q, server.sequence) =>
        \E k \in 1..Len(u) : Starts(u[k], server.stream)

\* a stream begins with its start packet, and has one sequence
InOrder(u) ==
    /\ \A i, j \in 1..Len(u) :
        i < j /\ IsData(u[i]) /\ IsData(u[j]) /\ u[i].stream # u[j].stream =>
        \E k \in (i + 1)..j : Starts(u[k], u[j].stream)
    /\ \A i \in 1..Len(u) :
        IsData(u[i]) /\ u[i].stream # server.stream =>
        \E k \in (i + 1)..Len(u) : Starts(u[k], server.stream)
    /\ \A i, j \in 1..Len(u) :
        IsData(u[i]) /\ IsData(u[j]) /\ u[i].stream = u[j].stream =>
        u[i].sequence = u[j].sequence
    /\ \A i \in 1..Len(u) :
        IsData(u[i]) =>
        /\ u[i].stream <= server.stream
        /\ u[i].stream = server.stream => u[i].sequence = server.sequence

Near(x, y) == x - y < Threshold /\ y - x < Threshold

\* what the pipeline pl last posted
Posted(pl) == IF pl.last_ms = None THEN 0 ELSE pl.last_ms

IsReport(p) == p.type = "audio-latency"
NoReport(u) == \A i \in 1..Len(u) : ~IsReport(u[i])

\* the last report in u is of m
LastIs(u, m) ==
    \A i \in 1..Len(u) :
        IsReport(u[i]) /\ (\A k \in (i + 1)..Len(u) : ~IsReport(u[k])) => u[i].ms = m

\* what the UI thread holds to be true of the worker
Agrees(a, s) ==
    /\ a.header_seen => a.worker /\ a.active /\ a.negotiated
    /\ a.negotiated => a.worker /\ a.capabilities_sent /\ a.session
    /\ alive => InPlace(a.commands, pipeline)
    /\ alive /\ a.header_seen => Playing(a.commands, pipeline, Len(a.commands), a.sequence, s)
    /\ alive /\ a.worker /\ ~a.header_seen => Silent(a.commands, pipeline)
    /\ ~alive /\ a.worker /\ ~a.header_seen /\ a.commands = <<>> => pipeline = NoPipeline

\* what it will accept next is of the stream the worker will play
Expects(a, u, s) == alive /\ a.header_seen => Follows(u, a.sequence, s)

\* the server was told a latency near the one posted last, or is about to be
Reported(a, u) ==
    a.negotiated /\ a.server_av_sync =>
        /\ a.last_ms # None
        /\ alive /\ NoReport(u) =>
            Near(a.last_ms, Posted(pipeline)) \/ WillPost(a.commands, pipeline)

Measured ==
    /\ Near(Posted(pipeline), latency)
    /\ pipeline.last_ms = None => latency = 0
    /\ pipeline.sequence = None => pipeline = NoPipeline
    /\ audio.session /\ alive => LastIs(ui, Posted(pipeline))

AudioInv ==
    /\ InOrder(ui) /\ Measured /\ Reported(audio, ui)
    /\ \E s \in Streams : Agrees(audio, s) /\ Expects(audio, ui, s)

-----------------------------------------------------------------------------
(* Commands that are queued *)

\* A queued command does not change what the ones before it leave (handle_command).
LEMMA PlayingAppend ==
    ASSUME NEW c \in Seq(Commands), NEW x \in Commands, NEW pl, NEW n \in 0..Len(c), NEW q, NEW s
    PROVE  Playing(Append(c, x), pl, n, q, s) <=> Playing(c, pl, n, q, s)
<1>1. \A k \in 1..n : Append(c, x)[k] = c[k]
  BY AppendProperties
<1> QED
  BY <1>1 DEF Playing

\* Nor which of them drop the pipeline.
LEMMA DropsAppend ==
    ASSUME NEW c \in Seq(Commands), NEW x \in Commands, NEW pl, NEW i \in 1..Len(c)
    PROVE  Drops(Append(c, x), pl, i) <=> Drops(c, pl, i)
<1>1. Append(c, x)[i] = c[i]
  BY AppendProperties
<1>2. i - 1 \in 0..Len(c)
  OBVIOUS
<1>3. \A q, s : Playing(Append(c, x), pl, i - 1, q, s) <=> Playing(c, pl, i - 1, q, s)
  BY <1>2, PlayingAppend
<1> QED
  BY <1>1, <1>3 DEF Drops

\* What plays goes on with a packet, and a configuration replaces it (handle_command).
LEMMA PlayingGoesOn ==
    ASSUME NEW c \in Seq(Commands), NEW x \in Commands, NEW pl, NEW q, NEW s,
           \/ x.type = "packet" /\ Playing(c, pl, Len(c), q, s)
           \/ x.type = "configure" /\ x.sequence = q /\ x.stream = s
    PROVE  Playing(Append(c, x), pl, Len(Append(c, x)), q, s)
<1> DEFINE d == Append(c, x)
<1>1. Len(d) = Len(c) + 1 /\ d[Len(c) + 1] = x /\ Len(c) \in Nat
  BY AppendProperties
<1>2. \A k \in 1..Len(c) : d[k] = c[k]
  BY AppendProperties
<1>3. CASE x.type = "configure" /\ x.sequence = q /\ x.stream = s
  <2>1. Len(d) \in 1..Len(d) /\ \A k \in (Len(d) + 1)..Len(d) : d[k].type = "packet"
    BY <1>1
  <2> QED
    BY <2>1, <1>1, <1>3 DEF Playing
<1>4. CASE x.type = "packet" /\ Playing(c, pl, Len(c), q, s)
  <2>1. CASE \E j \in 1..Len(c) :
                /\ c[j].type = "configure" /\ c[j].sequence = q /\ c[j].stream = s
                /\ \A k \in (j + 1)..Len(c) : c[k].type = "packet"
    <3>1. PICK j \in 1..Len(c) :
                /\ c[j].type = "configure" /\ c[j].sequence = q /\ c[j].stream = s
                /\ \A k \in (j + 1)..Len(c) : c[k].type = "packet"
      BY <2>1
    <3>2. \A k \in (j + 1)..Len(d) : d[k].type = "packet"
      BY <3>1, <1>1, <1>2, <1>4
    <3>3. j \in 1..Len(d) /\ d[j] = c[j]
      BY <1>1, <1>2
    <3> QED
      BY <3>1, <3>2, <3>3 DEF Playing
  <2>2. CASE (\A k \in 1..Len(c) : c[k].type = "packet") /\ pl.sequence = q /\ pl.stream = s
    <3>1. \A k \in 1..Len(d) : d[k].type = "packet"
      BY <2>2, <1>1, <1>2, <1>4
    <3> QED
      BY <3>1, <2>2 DEF Playing
  <2> QED
    BY <1>4, <2>1, <2>2 DEF Playing
<1> QED
  BY <1>3, <1>4

\* The worker falls silent with a reset or with the end of what it plays, and stays silent
\* until it is configured (handle_command).
LEMMA SilentAppend ==
    ASSUME NEW c \in Seq(Commands), NEW x \in Commands, NEW pl,
           \/ x.type = "reset"
           \/ x.type # "configure" /\ Silent(c, pl)
           \/ x.type = "end" /\ \E s \in Streams : Playing(c, pl, Len(c), x.sequence, s)
    PROVE  Silent(Append(c, x), pl)
<1> DEFINE d == Append(c, x)
<1>1. Len(d) = Len(c) + 1 /\ d[Len(c) + 1] = x /\ Len(c) \in Nat
  BY AppendProperties
<1>2. \A k \in 1..Len(c) : d[k] = c[k]
  BY AppendProperties
<1>3. CASE Drops(d, pl, Len(d))
  <2>1. Len(d) \in 1..Len(d) /\ \A k \in (Len(d) + 1)..Len(d) : d[k].type # "configure"
    BY <1>1
  <2> QED
    BY <2>1, <1>3 DEF Silent
<1>4. CASE x.type # "configure" /\ Silent(c, pl)
  <2>1. CASE pl = NoPipeline /\ \A k \in 1..Len(c) : c[k].type # "configure"
    <3>1. \A k \in 1..Len(d) : d[k].type # "configure"
      BY <2>1, <1>1, <1>2, <1>4
    <3> QED
      BY <3>1, <2>1 DEF Silent
  <2>2. CASE \E i \in 1..Len(c) :
                /\ Drops(c, pl, i)
                /\ \A k \in (i + 1)..Len(c) : c[k].type # "configure"
    <3>1. PICK i \in 1..Len(c) :
                /\ Drops(c, pl, i)
                /\ \A k \in (i + 1)..Len(c) : c[k].type # "configure"
      BY <2>2
    <3>2. i \in 1..Len(d) /\ \A k \in (i + 1)..Len(d) : d[k].type # "configure"
      BY <3>1, <1>1, <1>2, <1>4
    <3>3. Drops(d, pl, i)
      BY <3>1, DropsAppend
    <3> QED
      BY <3>2, <3>3 DEF Silent
  <2> QED
    BY <1>4, <2>1, <2>2 DEF Silent
<1>5. CASE x.type = "reset"
  BY <1>1, <1>3, <1>5 DEF Drops
<1>6. CASE x.type = "end" /\ \E s \in Streams : Playing(c, pl, Len(c), x.sequence, s)
  <2>1. PICK s \in Streams : Playing(c, pl, Len(c), x.sequence, s)
    BY <1>6
  <2>2. Playing(d, pl, Len(c), x.sequence, s)
    BY <2>1, <1>1, PlayingAppend
  <2>3. Len(d) - 1 = Len(c) /\ d[Len(d)] = x
    BY <1>1
  <2>4. Drops(d, pl, Len(d))
    BY <2>2, <2>3, <1>6 DEF Drops
  <2> QED
    BY <2>4, <1>3
<1> QED
  BY <1>4, <1>5, <1>6

\* A packet is in place behind what it is queued for (AudioWorker::send).
LEMMA InPlaceAppend ==
    ASSUME NEW c \in Seq(Commands), NEW x \in Commands, NEW pl, InPlace(c, pl),
           x.type = "packet" => Playing(c, pl, Len(c), x.sequence, x.stream)
    PROVE  InPlace(Append(c, x), pl)
<1> DEFINE d == Append(c, x)
<1>1. Len(d) = Len(c) + 1 /\ d[Len(c) + 1] = x /\ Len(c) \in Nat
  BY AppendProperties
<1>2. \A k \in 1..Len(c) : d[k] = c[k]
  BY AppendProperties
<1>3. ASSUME NEW i \in 1..Len(d), d[i].type = "packet"
      PROVE  Playing(d, pl, i - 1, d[i].sequence, d[i].stream)
  <2>1. i - 1 \in 0..Len(c)
    BY <1>1
  <2>2. Playing(c, pl, i - 1, d[i].sequence, d[i].stream)
    <3>1. CASE i \in 1..Len(c)
      BY <3>1, <1>2, <1>3 DEF InPlace
    <3>2. CASE i = Len(c) + 1
      <4>1. i - 1 = Len(c) /\ d[i] = x
        BY <3>2, <1>1
      <4> QED
        BY <4>1, <1>3
    <3> QED
      BY <3>1, <3>2, <1>1
  <2> QED
    BY <2>1, <2>2, PlayingAppend
<1> QED
  BY <1>3 DEF InPlace

\* A report that is to come still comes, and a configuration or a reset brings one.
LEMMA WillPostAppend ==
    ASSUME NEW c \in Seq(Commands), NEW x \in Commands, NEW pl,
           WillPost(c, pl) \/ x.type \in {"configure", "reset"}
    PROVE  WillPost(Append(c, x), pl)
<1> DEFINE d == Append(c, x)
<1>1. Len(d) = Len(c) + 1 /\ d[Len(c) + 1] = x /\ Len(c) \in Nat
  BY AppendProperties
<1>2. \A k \in 1..Len(c) : d[k] = c[k]
  BY AppendProperties
<1>3. CASE x.type \in {"configure", "reset"}
  BY <1>1, <1>3 DEF WillPost, Drops
<1>4. CASE WillPost(c, pl)
  <2>1. PICK i \in 1..Len(c) : c[i].type = "configure" \/ Drops(c, pl, i)
    BY <1>4 DEF WillPost
  <2>2. d[i].type = "configure" \/ Drops(d, pl, i)
    BY <2>1, <1>2, DropsAppend
  <2>3. i \in 1..Len(d)
    BY <1>1
  <2> QED
    BY <2>2, <2>3 DEF WillPost
<1> QED
  BY <1>3, <1>4

-----------------------------------------------------------------------------
(* Commands that are handled *)

\* the pipeline pl becomes pl2 when x is handled
Handles(x, pl, pl2) ==
    /\ x.type = "configure" => pl2.sequence = x.sequence /\ pl2.stream = x.stream
    /\ x.type = "packet" => pl2.sequence = pl.sequence /\ pl2.stream = pl.stream
    /\ pl = NoPipeline /\ x.type # "configure" => pl2 = NoPipeline
    /\ x.type = "reset" => pl2 = NoPipeline
    /\ x.type = "end" /\ pl.sequence = x.sequence => pl2 = NoPipeline

\* The first command of a queue, and those behind it.
LEMMA TailOf ==
    ASSUME NEW S, NEW c \in Seq(S), c # <<>>
    PROVE  /\ Len(c) \in Nat \ {0} /\ Len(Tail(c)) = Len(c) - 1
           /\ Tail(c) \in Seq(S) /\ c[1] \in S /\ Head(c) = c[1]
           /\ \A k \in 1..Len(Tail(c)) : Tail(c)[k] = c[k + 1]
           /\ \A k \in 2..Len(c) : k - 1 \in 1..Len(Tail(c)) /\ Tail(c)[k - 1] = c[k]
<1>1. Len(c) \in Nat \ {0}
  BY EmptySeq
<1>2. Len(Tail(c)) = Len(c) - 1 /\ Tail(c) \in Seq(S) /\ Head(c) = c[1] /\ c[1] \in S
  BY <1>1, HeadTailProperties
<1>3. \A k \in 1..Len(Tail(c)) : Tail(c)[k] = c[k + 1]
  BY <1>1, <1>2
<1>4. ASSUME NEW k \in 2..Len(c) PROVE k - 1 \in 1..Len(Tail(c)) /\ Tail(c)[k - 1] = c[k]
  <2>1. k - 1 \in 1..Len(Tail(c))
    BY <1>1, <1>2
  <2> QED
    BY <2>1, <1>3
<1> QED
  BY <1>1, <1>2, <1>3, <1>4

\* What was to play still is when the first command is handled (handle_command).
LEMMA PlayingTail ==
    ASSUME NEW c \in Seq(Commands), c # <<>>, NEW pl, NEW pl2, Handles(c[1], pl, pl2),
           NEW n \in 1..Len(c), NEW q, NEW s, Playing(c, pl, n, q, s)
    PROVE  Playing(Tail(c), pl2, n - 1, q, s)
<1> DEFINE d == Tail(c)
<1>1. Len(c) \in Nat /\ Len(d) = Len(c) - 1
  BY TailOf
<1>2. \A k \in 1..Len(d) : d[k] = c[k + 1]
  BY TailOf
<1>3. ASSUME NEW j \in 1..n,
             c[j].type = "configure" /\ c[j].sequence = q /\ c[j].stream = s,
             \A k \in (j + 1)..n : c[k].type = "packet"
      PROVE  Playing(d, pl2, n - 1, q, s)
  <2>1. CASE j = 1
    <3>1. pl2.sequence = q /\ pl2.stream = s
      BY <2>1, <1>3 DEF Handles
    <3>2. ASSUME NEW k \in 1..(n - 1) PROVE d[k].type = "packet"
      <4>1. k \in 1..Len(d) /\ k + 1 \in (j + 1)..n
        BY <1>1, <2>1
      <4> QED
        BY <4>1, <1>2, <1>3
    <3> QED
      BY <3>1, <3>2 DEF Playing
  <2>2. CASE j > 1
    <3>1. j - 1 \in 1..(n - 1) /\ j - 1 \in 1..Len(d) /\ (j - 1) + 1 = j
      BY <1>1, <2>2
    <3>2. d[j - 1] = c[j]
      BY <3>1, <1>2
    <3>3. ASSUME NEW k \in ((j - 1) + 1)..(n - 1) PROVE d[k].type = "packet"
      <4>1. k \in 1..Len(d) /\ k + 1 \in (j + 1)..n
        BY <1>1, <2>2
      <4> QED
        BY <4>1, <1>2, <1>3
    <3> QED
      BY <3>1, <3>2, <3>3, <1>3 DEF Playing
  <2> QED
    BY <2>1, <2>2
<1>4. ASSUME \A k \in 1..n : c[k].type = "packet", pl.sequence = q, pl.stream = s
      PROVE  Playing(d, pl2, n - 1, q, s)
  <2>1. c[1].type = "packet"
    BY <1>4
  <2>2. pl2.sequence = q /\ pl2.stream = s
    BY <2>1, <1>4 DEF Handles
  <2>3. ASSUME NEW k \in 1..(n - 1) PROVE d[k].type = "packet"
    <3>1. k \in 1..Len(d) /\ k + 1 \in 1..n
      BY <1>1
    <3> QED
      BY <3>1, <1>2, <1>4
  <2> QED
    BY <2>2, <2>3 DEF Playing
<1> QED
  BY <1>3, <1>4 DEF Playing

\* Before any command is handled the pipeline plays.
LEMMA PlayingNow ==
    ASSUME NEW c, NEW pl, NEW q, NEW s, Playing(c, pl, 0, q, s)
    PROVE  pl.sequence = q /\ pl.stream = s
<1>1. 1..0 = {}
  OBVIOUS
<1> QED
  BY <1>1 DEF Playing

\* A command that was to drop the pipeline still is, or just did.
LEMMA DropsTail ==
    ASSUME NEW c \in Seq(Commands), c # <<>>, NEW pl, NEW pl2, Handles(c[1], pl, pl2),
           NEW i \in 1..Len(c), Drops(c, pl, i)
    PROVE  IF i = 1 THEN pl2 = NoPipeline ELSE Drops(Tail(c), pl2, i - 1)
<1>1. CASE i = 1
  <2>1. CASE c[1].type = "reset"
    BY <2>1, <1>1 DEF Handles
  <2>2. CASE c[1].type = "end" /\ \E s \in Streams : Playing(c, pl, 0, c[1].sequence, s)
    <3>1. pl.sequence = c[1].sequence
      BY <2>2, PlayingNow
    <3> QED
      BY <3>1, <2>2, <1>1 DEF Handles
  <2>3. 1 - 1 = 0
    OBVIOUS
  <2> QED
    BY <1>1, <2>1, <2>2, <2>3 DEF Drops
<1>2. CASE i > 1
  <2>1. i \in 2..Len(c) /\ i - 1 \in 1..Len(c)
    BY <1>2, TailOf
  <2>2. Tail(c)[i - 1] = c[i]
    BY <2>1, TailOf
  <2>3. \A s : Playing(c, pl, i - 1, c[i].sequence, s) =>
               Playing(Tail(c), pl2, i - 1 - 1, c[i].sequence, s)
    BY <2>1, PlayingTail
  <2>4. i # 1
    BY <1>2
  <2>5. CASE c[i].type = "reset"
    <3>1. Drops(Tail(c), pl2, i - 1)
      BY <2>5, <2>2 DEF Drops
    <3> QED
      BY <3>1, <2>4
  <2>6. CASE c[i].type = "end" /\ \E s \in Streams : Playing(c, pl, i - 1, c[i].sequence, s)
    <3>1. Drops(Tail(c), pl2, i - 1)
      BY <2>6, <2>2, <2>3 DEF Drops
    <3> QED
      BY <3>1, <2>4
  <2> QED
    BY <2>5, <2>6 DEF Drops
<1> QED
  BY <1>1, <1>2

\* The worker that was to fall silent still is.
LEMMA SilentTail ==
    ASSUME NEW c \in Seq(Commands), c # <<>>, NEW pl, NEW pl2, Handles(c[1], pl, pl2),
           Silent(c, pl)
    PROVE  Silent(Tail(c), pl2)
<1> DEFINE d == Tail(c)
<1>1. Len(c) \in Nat \ {0} /\ Len(d) = Len(c) - 1
  BY TailOf
<1>2. \A k \in 1..Len(d) : d[k] = c[k + 1]
  BY TailOf
<1>3. ASSUME NEW i \in 0..Len(c), \A k \in (i + 1)..Len(c) : c[k].type # "configure"
      PROVE  \A k \in i..Len(d) : k # 0 => d[k].type # "configure"
  <2>1. ASSUME NEW k \in i..Len(d), k # 0 PROVE d[k].type # "configure"
    <3>1. k \in 1..Len(d) /\ k + 1 \in (i + 1)..Len(c)
      BY <1>1, <2>1
    <3> QED
      BY <3>1, <1>2, <1>3
  <2> QED
    BY <2>1
<1>4. CASE pl = NoPipeline /\ \A k \in 1..Len(c) : c[k].type # "configure"
  <2>1. c[1].type # "configure"
    BY <1>1, <1>4
  <2>2. pl2 = NoPipeline
    BY <2>1, <1>4 DEF Handles
  <2>3. \A k \in 0..Len(d) : k # 0 => d[k].type # "configure"
    BY <1>3, <1>4, <1>1
  <2>4. \A k \in 1..Len(d) : d[k].type # "configure"
    BY <2>3
  <2> QED
    BY <2>2, <2>4 DEF Silent
<1>5. CASE \E i \in 1..Len(c) :
              /\ Drops(c, pl, i)
              /\ \A k \in (i + 1)..Len(c) : c[k].type # "configure"
  <2>1. PICK i \in 1..Len(c) :
              /\ Drops(c, pl, i)
              /\ \A k \in (i + 1)..Len(c) : c[k].type # "configure"
    BY <1>5
  <2>2. \A k \in i..Len(d) : d[k].type # "configure"
    BY <2>1, <1>3
  <2>3. IF i = 1 THEN pl2 = NoPipeline ELSE Drops(d, pl2, i - 1)
    BY <2>1, DropsTail
  <2>4. CASE i = 1
    BY <2>2, <2>3, <2>4 DEF Silent
  <2>5. CASE i # 1
    <3>1. i - 1 \in 1..Len(d) /\ (i - 1) + 1 = i
      BY <1>1, <2>5
    <3>2. Drops(d, pl2, i - 1) /\ \A k \in ((i - 1) + 1)..Len(d) : d[k].type # "configure"
      BY <3>1, <2>2, <2>3, <2>5
    <3> QED
      BY <3>1, <3>2 DEF Silent
  <2> QED
    BY <2>4, <2>5
<1> QED
  BY <1>4, <1>5 DEF Silent

\* Packets that are in place stay in place.
LEMMA InPlaceTail ==
    ASSUME NEW c \in Seq(Commands), c # <<>>, NEW pl, NEW pl2, Handles(c[1], pl, pl2),
           InPlace(c, pl)
    PROVE  InPlace(Tail(c), pl2)
<1> DEFINE d == Tail(c)
<1>1. ASSUME NEW i \in 1..Len(d), d[i].type = "packet"
      PROVE  Playing(d, pl2, i - 1, d[i].sequence, d[i].stream)
  <2>1. i + 1 \in 1..Len(c) /\ i \in 1..Len(c) /\ (i + 1) - 1 = i
    BY TailOf
  <2>2. d[i] = c[i + 1]
    BY TailOf
  <2>3. Playing(c, pl, i, d[i].sequence, d[i].stream)
    BY <2>1, <2>2, <1>1 DEF InPlace
  <2> QED
    BY <2>1, <2>3, PlayingTail
<1> QED
  BY <1>1 DEF InPlace

\* A report that is to come still is, unless the command brings it.
LEMMA WillPostTail ==
    ASSUME NEW c \in Seq(Commands), c # <<>>, NEW pl, NEW pl2, Handles(c[1], pl, pl2),
           WillPost(c, pl)
    PROVE  \/ WillPost(Tail(c), pl2)
           \/ c[1].type \in {"configure", "reset"}
           \/ c[1].type = "end" /\ pl.sequence = c[1].sequence
<1>1. PICK i \in 1..Len(c) : c[i].type = "configure" \/ Drops(c, pl, i)
  BY DEF WillPost
<1>2. CASE i = 1
  <2>1. 1 - 1 = 0
    OBVIOUS
  <2> QED
    BY <1>1, <1>2, <2>1, PlayingNow DEF Drops
<1>3. CASE i # 1
  <2>1. i - 1 \in 1..Len(Tail(c)) /\ Tail(c)[i - 1] = c[i]
    BY <1>3, TailOf
  <2>2. Tail(c)[i - 1].type = "configure" \/ Drops(Tail(c), pl2, i - 1)
    BY <1>1, <1>3, <2>1, DropsTail
  <2> QED
    BY <2>1, <2>2 DEF WillPost
<1> QED
  BY <1>2, <1>3

\* What is foreseen does not depend on the latency a pipeline posted.
LEMMA SamePipeline ==
    ASSUME NEW c, NEW pl, NEW pl2, pl2.sequence = pl.sequence, pl2.stream = pl.stream,
           pl = NoPipeline => pl2 = NoPipeline
    PROVE  /\ \A n, q, s : Playing(c, pl, n, q, s) => Playing(c, pl2, n, q, s)
           /\ InPlace(c, pl) => InPlace(c, pl2)
           /\ Silent(c, pl) => Silent(c, pl2)
           /\ WillPost(c, pl) => WillPost(c, pl2)
<1>1. \A n, q, s : Playing(c, pl, n, q, s) => Playing(c, pl2, n, q, s)
  BY DEF Playing
<1>2. \A i : Drops(c, pl, i) => Drops(c, pl2, i)
  BY <1>1 DEF Drops
<1> QED
  BY <1>1, <1>2 DEF InPlace, Silent, WillPost
-----------------------------------------------------------------------------
(* The protocol, one operation after the other.  The thread, its pipeline and the server wait *)

Sound(a, u, s) ==
    /\ a \in AudioState /\ Len(a.commands) <= Capacity
    /\ Agrees(a, s) /\ Reported(a, u)

\* audio is switched off for the session
Off(a) ==
    /\ a \in AudioState /\ Len(a.commands) <= Capacity
    /\ alive => InPlace(a.commands, pipeline)
    /\ ~a.worker /\ ~a.negotiated /\ ~a.header_seen

\* A client without a worker agrees with anything (disable_audio).
LEMMA OffSound ==
    ASSUME NEW a, Off(a), NEW u, NEW s
    PROVE  Sound(a, u, s) /\ ~a.header_seen
BY DEF Off, Sound, Agrees, Reported

\* Where the worker falls silent, it reports or is silent already (handle_command).
LEMMA SilentReports ==
    ASSUME NEW c, NEW pl, Silent(c, pl)
    PROVE  WillPost(c, pl) \/ Posted(pl) = 0
BY DEF Silent, WillPost, Posted, NoPipeline, None

\* A command that fits is queued behind the others (AudioWorker::send).
LEMMA Pushed ==
    ASSUME NEW a \in AudioState, NEW x \in Commands, ~Full(a), Capacity \in Nat
    PROVE  /\ Push(a, x) \in AudioState /\ Len(Push(a, x).commands) <= Capacity
           /\ Push(a, x) = [a EXCEPT !.commands = Append(a.commands, x)]
           /\ Push(a, x).commands = Append(a.commands, x) /\ Push(a, x).commands # <<>>
<1>1. a.commands \in Seq(Commands)
  BY DEF AudioState
<1>2. Append(a.commands, x) \in Seq(Commands) /\ Len(Append(a.commands, x)) = Len(a.commands) + 1
  BY <1>1, AppendProperties
<1>3. Append(a.commands, x) # <<>>
  BY <1>1, AppendProperties
<1>4. Len(a.commands) + 1 <= Capacity
  BY <1>1 DEF Full
<1>5. Push(a, x) = [a EXCEPT !.commands = Append(a.commands, x)]
  BY DEF Push
<1>6. Push(a, x).commands = Append(a.commands, x)
  BY <1>5 DEF AudioState
<1>7. Push(a, x) \in AudioState
  BY <1>2, <1>5 DEF AudioState
<1> QED
  BY <1>2, <1>3, <1>4, <1>5, <1>6, <1>7

\* A worker that is dropped finds a shutdown behind its commands, if there is room
\* (AudioWorker::drop).
LEMMA WorkerDropped ==
    ASSUME NEW a \in AudioState, Len(a.commands) <= Capacity, Capacity \in Nat,
           alive => InPlace(a.commands, pipeline)
    PROVE  \E c \in Seq(Commands) :
              /\ Len(c) <= Capacity
              /\ alive => InPlace(c, pipeline)
              /\ DropWorker(a) = [a EXCEPT !.worker = FALSE, !.commands = c]
<1> DEFINE x == [type |-> "shutdown"]
           d == [a EXCEPT !.worker = FALSE]
<1>1. a.commands \in Seq(Commands) /\ x \in Commands /\ x.type = "shutdown"
  BY DEF AudioState, Commands
<1>2. d \in AudioState /\ d.commands = a.commands
  BY DEF AudioState
<1>3. CASE ~a.worker \/ Full(a)
  <2>1. DropWorker(a) = d
    BY <1>3 DEF DropWorker
  <2>2. d = [a EXCEPT !.worker = FALSE, !.commands = a.commands]
    BY DEF AudioState
  <2> QED
    BY <1>1, <2>1, <2>2
<1>4. CASE ~(~a.worker \/ Full(a))
  <2>1. DropWorker(a) = Push(d, x)
    BY <1>4 DEF DropWorker
  <2>2. ~Full(d)
    BY <1>2, <1>4 DEF Full
  <2>3. Push(d, x) = [d EXCEPT !.commands = Append(a.commands, x)]
    BY <1>2 DEF Push
  <2>4. Push(d, x) = [a EXCEPT !.worker = FALSE, !.commands = Append(a.commands, x)]
    BY <2>3 DEF AudioState
  <2>5. Len(Append(a.commands, x)) <= Capacity
    BY <1>1, <1>2, <2>2, Pushed
  <2>6. alive => InPlace(Append(a.commands, x), pipeline)
    BY <1>1, InPlaceAppend
  <2>7. Append(a.commands, x) \in Seq(Commands)
    BY <1>1, AppendProperties
  <2> QED
    BY <2>1, <2>4, <2>5, <2>6, <2>7
<1> QED
  BY <1>3, <1>4

\* Audio that is disabled is off (disable_audio).
LEMMA Disabled ==
    ASSUME NEW a \in AudioState, Len(a.commands) <= Capacity, Capacity \in Nat,
           alive => InPlace(a.commands, pipeline),
           a.negotiated \/ a.header_seen => a.worker
    PROVE  Off(Disable(a)) /\ (a.worker => ~Disable(a).active)
<1> DEFINE f == [Finish(a) EXCEPT !.negotiated = FALSE, !.told = "stop"]
<1>1. CASE ~a.worker
  BY <1>1 DEF Disable, Off
<1>2. CASE a.worker
  <2>1. f = [a EXCEPT !.active = FALSE, !.header_seen = FALSE, !.sequence = a.sequence + 1,
                      !.negotiated = FALSE, !.told = "stop"]
    BY DEF Finish, AudioState
  <2>2. /\ f \in AudioState /\ f.commands = a.commands
        /\ ~f.negotiated /\ ~f.header_seen /\ ~f.active
    <3>1. a.sequence + 1 \in Nat
      BY DEF AudioState
    <3>2. f \in AudioState
      BY <2>1, <3>1 DEF AudioState
    <3> QED
      BY <2>1, <3>2 DEF AudioState
  <2>3. PICK c \in Seq(Commands) :
              /\ Len(c) <= Capacity
              /\ alive => InPlace(c, pipeline)
              /\ DropWorker(f) = [f EXCEPT !.worker = FALSE, !.commands = c]
    BY <2>2, WorkerDropped
  <2>4. Disable(a) = [f EXCEPT !.worker = FALSE, !.commands = c]
    BY <1>2, <2>3 DEF Disable
  <2>5. Disable(a) \in AudioState
    BY <2>2, <2>4 DEF AudioState
  <2>6. /\ Disable(a).commands = c
        /\ ~Disable(a).worker /\ ~Disable(a).negotiated /\ ~Disable(a).header_seen
        /\ ~Disable(a).active
    BY <2>2, <2>4 DEF AudioState
  <2> QED
    BY <2>3, <2>5, <2>6 DEF Off
<1> QED
  BY <1>1, <1>2 DEF AudioState

\* A command that must not be lost is queued, or audio is off (handle_audio_enqueue).
LEMMA Enqueued ==
    ASSUME NEW a \in AudioState, Len(a.commands) <= Capacity, Capacity \in Nat, a.worker,
           alive => InPlace(a.commands, pipeline), NEW x \in Commands
    PROVE  \/ Off(Enqueue(a, x)) /\ ~Enqueue(a, x).worker /\ ~Enqueue(a, x).active
           \/ Enqueue(a, x) = Push(a, x) /\ Enqueue(a, x).worker /\ ~Full(a)
<1>1. CASE thread = "ended" \/ Full(a)
  BY <1>1, Disabled DEF Enqueue, Off
<1>2. CASE ~(thread = "ended" \/ Full(a))
  BY <1>2 DEF Enqueue, Push, AudioState
<1> QED
  BY <1>1, <1>2

\* The end of the sequence in use silences the worker (stop_audio_stream).
LEMMA EndQueued ==
    ASSUME NEW a \in AudioState, Len(a.commands) <= Capacity, Capacity \in Nat, a.worker,
           NEW s \in Streams, Agrees(a, s)
    PROVE  \/ Off(End(a)) /\ ~End(a).worker /\ ~End(a).active
           \/ /\ End(a) \in AudioState /\ Len(End(a).commands) <= Capacity
              /\ End(a) = [a EXCEPT !.commands = End(a).commands] /\ End(a).commands # <<>>
              /\ alive => InPlace(End(a).commands, pipeline)
              /\ alive => Silent(End(a).commands, pipeline)
<1> DEFINE x == [type |-> "end", sequence |-> a.sequence]
<1>1. a.commands \in Seq(Commands) /\ x \in Commands /\ x.type = "end" /\ x.sequence = a.sequence
  BY DEF AudioState, Commands
<1>2. alive => InPlace(a.commands, pipeline)
  BY DEF Agrees
<1>3. End(a) = Enqueue(a, x)
  BY DEF End
<1>4. ASSUME End(a) = Push(a, x), ~Full(a)
      PROVE  /\ End(a) \in AudioState /\ Len(End(a).commands) <= Capacity
             /\ End(a) = [a EXCEPT !.commands = End(a).commands] /\ End(a).commands # <<>>
             /\ alive => InPlace(End(a).commands, pipeline)
             /\ alive => Silent(End(a).commands, pipeline)
  <2>1. End(a).commands = Append(a.commands, x)
    BY <1>1, <1>4, Pushed
  <2>2. alive => InPlace(End(a).commands, pipeline)
    BY <1>1, <1>2, <2>1, InPlaceAppend
  <2>3. ASSUME alive PROVE Silent(End(a).commands, pipeline)
    <3>1. CASE a.header_seen
      <4>1. Playing(a.commands, pipeline, Len(a.commands), x.sequence, s)
        BY <1>1, <2>3, <3>1 DEF Agrees
      <4> QED
        BY <1>1, <2>1, <4>1, SilentAppend
    <3>2. CASE ~a.header_seen
      <4>1. Silent(a.commands, pipeline) /\ x.type # "configure"
        BY <1>1, <2>3, <3>2 DEF Agrees
      <4> QED
        BY <1>1, <2>1, <4>1, SilentAppend
    <3> QED
      BY <3>1, <3>2
  <2>4. /\ End(a) \in AudioState /\ Len(End(a).commands) <= Capacity
        /\ End(a) = [a EXCEPT !.commands = End(a).commands] /\ End(a).commands # <<>>
    BY <1>1, <1>4, <2>1, Pushed
  <2> QED
    BY <2>2, <2>3, <2>4
<1> QED
  BY <1>1, <1>2, <1>3, <1>4, Enqueued

\* A report either stands or is replaced by a new one (report_audio_latency).
LEMMA ReportType ==
    ASSUME NEW a \in AudioState, NEW ms \in Latencies, Threshold \in Nat \ {0}
    PROVE  /\ Report(a, ms) \in AudioState
           /\ Report(a, ms) = [a EXCEPT !.last_ms = Report(a, ms).last_ms]
           /\ a.negotiated /\ a.server_av_sync =>
                /\ Report(a, ms).last_ms # None
                /\ Near(Report(a, ms).last_ms, ms)
<1>1. ms \in Int /\ ms # None /\ a.last_ms \in Int
  BY DEF Latencies, None, AudioState
<1>2. CASE a.negotiated /\ a.server_av_sync /\ Far(a.last_ms, ms)
  <2>1. Report(a, ms) = [a EXCEPT !.last_ms = ms]
    BY <1>2 DEF Report
  <2>2. Report(a, ms) \in AudioState /\ Report(a, ms).last_ms = ms
    BY <2>1 DEF AudioState
  <2>3. Near(ms, ms)
    BY <1>1 DEF Near
  <2> QED
    BY <1>1, <2>1, <2>2, <2>3
<1>3. CASE ~(a.negotiated /\ a.server_av_sync /\ Far(a.last_ms, ms))
  <2>1. Report(a, ms) = a
    BY <1>3 DEF Report
  <2>2. a = [a EXCEPT !.last_ms = a.last_ms]
    BY DEF AudioState
  <2>3. ~Far(a.last_ms, ms) => a.last_ms # None /\ Near(a.last_ms, ms)
    BY <1>1 DEF Far, Near
  <2> QED
    BY <1>3, <2>1, <2>2, <2>3
<1> QED
  BY <1>2, <1>3

\* A report of zero is right for whoever falls silent (report_audio_latency).
LEMMA ZeroReported ==
    ASSUME NEW a \in AudioState, Len(a.commands) <= Capacity, Threshold \in Nat \ {0},
           NEW s, Agrees(a, s), ~a.header_seen, NEW u, NEW t
    PROVE  /\ Sound(Report(a, 0), u, t) /\ ~Report(a, 0).header_seen
           /\ Report(a, 0).active = a.active /\ Report(a, 0).worker = a.worker
           /\ Report(a, 0).negotiated = a.negotiated
<1> DEFINE r == Report(a, 0)
<1>1. CASE 0 \in Latencies
  <2>1. r \in AudioState /\ r = [a EXCEPT !.last_ms = r.last_ms]
    BY <1>1, ReportType
  <2>2. a.negotiated /\ a.server_av_sync => r.last_ms # None /\ Near(r.last_ms, 0)
    BY <1>1, ReportType
  <2>3. /\ r.commands = a.commands /\ r.worker = a.worker /\ r.header_seen = a.header_seen
        /\ r.negotiated = a.negotiated /\ r.server_av_sync = a.server_av_sync
        /\ r.capabilities_sent = a.capabilities_sent /\ r.session = a.session
        /\ r.active = a.active
    BY <2>1 DEF AudioState
  <2>4. Agrees(r, t)
    BY <2>3 DEF Agrees
  <2>5. ASSUME a.negotiated, alive
        PROVE  WillPost(r.commands, pipeline) \/ Posted(pipeline) = 0
    <3>1. Silent(a.commands, pipeline)
      BY <2>5 DEF Agrees
    <3> QED
      BY <3>1, <2>3, SilentReports
  <2>6. Reported(r, u)
    BY <2>2, <2>3, <2>5 DEF Reported
  <2> QED
    BY <2>1, <2>3, <2>4, <2>6 DEF Sound
<1>2. CASE 0 \notin Latencies
  BY <1>2, AudioAssumption DEF Latencies
<1> QED
  BY <1>1, <1>2

\* The sequence moves on and the stream is over (AudioProtocol::finish).
LEMMA Finished ==
    ASSUME NEW a \in AudioState, Len(a.commands) <= Capacity,
           a.worker, alive => InPlace(a.commands, pipeline),
           alive => Silent(a.commands, pipeline), a.commands # <<>>,
           a.negotiated => a.capabilities_sent /\ a.session, NEW s
    PROVE  /\ Finish(a) \in AudioState /\ Finish(a).commands = a.commands
           /\ ~Finish(a).header_seen /\ Finish(a).worker /\ Agrees(Finish(a), s)
           /\ ~Finish(a).active
<1>1. a.sequence + 1 \in Nat
  BY DEF AudioState
<1>2. Finish(a) = [a EXCEPT !.active = FALSE, !.header_seen = FALSE, !.sequence = a.sequence + 1]
  BY DEF Finish
<1>3. Finish(a) \in AudioState
  BY <1>1, <1>2 DEF AudioState
<1>4. /\ Finish(a).commands = a.commands /\ ~Finish(a).header_seen /\ Finish(a).worker
      /\ Finish(a).negotiated = a.negotiated /\ Finish(a).session = a.session
      /\ Finish(a).capabilities_sent = a.capabilities_sent /\ ~Finish(a).active
  BY <1>2 DEF AudioState
<1>5. Agrees(Finish(a), s)
  BY <1>4 DEF Agrees
<1> QED
  BY <1>3, <1>4, <1>5

\* A stream that ends leaves an agreement that holds for any stream (process_audio_data).
LEMMA EndStreamSound ==
    ASSUME NEW a \in AudioState, Len(a.commands) <= Capacity, Capacity \in Nat, a.worker,
           Threshold \in Nat \ {0}, NEW s \in Streams, Agrees(a, s), NEW u, NEW t
    PROVE  /\ Sound(EndStream(a), u, t) /\ ~EndStream(a).header_seen
           /\ Sound(StopStream(a), u, t) /\ ~StopStream(a).header_seen
           /\ ~StopStream(a).active
<1> DEFINE e == End(a)
           f == [Finish(e) EXCEPT !.told = "stop", !.last_ms = None]
<1>1. CASE Off(e) /\ ~e.worker /\ ~e.active
  <2>1. EndStream(a) = e /\ StopStream(a) = e
    BY <1>1 DEF EndStream, StopStream
  <2> QED
    BY <1>1, <2>1, OffSound
<1>2. CASE /\ e \in AudioState /\ Len(e.commands) <= Capacity
           /\ e = [a EXCEPT !.commands = e.commands] /\ e.commands # <<>>
           /\ alive => InPlace(e.commands, pipeline)
           /\ alive => Silent(e.commands, pipeline)
  <2>1. /\ e.worker
        /\ e.negotiated => e.capabilities_sent /\ e.session
    BY <1>2 DEF Agrees, AudioState
  <2>2. /\ Finish(e) \in AudioState /\ Finish(e).commands = e.commands
        /\ ~Finish(e).header_seen /\ Finish(e).worker /\ Agrees(Finish(e), s)
        /\ ~Finish(e).active
    BY <1>2, <2>1, Finished
  <2>3. EndStream(a) = Report(Finish(e), 0) /\ StopStream(a) = Report(f, 0)
    BY <2>1 DEF EndStream, StopStream
  <2>4. /\ f \in AudioState /\ f.commands = e.commands
        /\ ~f.header_seen /\ ~f.active
    BY <2>2 DEF AudioState
  <2>5. Agrees(f, s)
    BY <2>2 DEF Agrees, AudioState
  <2>6. /\ Sound(Report(Finish(e), 0), u, t) /\ ~Report(Finish(e), 0).header_seen
    BY <1>2, <2>2, ZeroReported
  <2>7. /\ Sound(Report(f, 0), u, t) /\ ~Report(f, 0).header_seen
        /\ ~Report(f, 0).active
    BY <1>2, <2>4, <2>5, ZeroReported
  <2> QED
    BY <2>3, <2>6, <2>7
<1> QED
  BY <1>1, <1>2, EndQueued

\* A stream that begins finds the worker reset (process_audio_data, AudioProtocol::begin).
LEMMA BeginSound ==
    ASSUME NEW a \in AudioState, Len(a.commands) <= Capacity, Capacity \in Nat, a.worker,
           Threshold \in Nat \ {0}, NEW s \in Streams, Agrees(a, s),
           NEW p, p.sequence \in Int, Accepts(a, p.sequence), NEW u, NEW t
    PROVE  /\ Sound(Begin(a, p), u, t) /\ ~Begin(a, p).header_seen
           /\ Begin(a, p).active => Begin(a, p).worker
           /\ Begin(a, p).active => Begin(a, p).negotiated \/ ~a.negotiated
<1> DEFINE n == IF p.sequence = None THEN a.sequence ELSE p.sequence
           b == [a EXCEPT !.sequence = n, !.active = TRUE, !.header_seen = FALSE]
           x == [type |-> "reset", sequence |-> n]
           r == Enqueue(b, x)
           f == [r EXCEPT !.last_ms = None]
<1>1. CASE p.shape.stream_codec # "opus"
  <2>1. Begin(a, p) = StopStream(a)
    BY <1>1 DEF Begin
  <2> QED
    BY <2>1, EndStreamSound
<1>2. CASE p.shape.stream_codec = "opus"
  <2>1. a.sequence \in Nat /\ n \in Int
    BY DEF AudioState
  <2>2. n \in Nat
    BY <2>1 DEF Accepts
  <2>3. b \in AudioState
    BY <2>2 DEF AudioState
  <2>4. /\ b.commands = a.commands /\ b.worker /\ ~b.header_seen
        /\ b.negotiated = a.negotiated /\ b.session = a.session
        /\ b.capabilities_sent = a.capabilities_sent
    BY DEF AudioState
  <2>5. alive => InPlace(b.commands, pipeline)
    BY <2>4 DEF Agrees
  <2>6. x \in Commands /\ x.type = "reset" /\ b.commands \in Seq(Commands)
    BY <2>2, <2>3 DEF Commands, AudioState
  <2>7. Begin(a, p) = IF r.worker THEN Report(f, 0) ELSE r
    BY <1>2 DEF Begin
  <2> HIDE DEF n, b, x
  <2>8. CASE Off(r) /\ ~r.worker /\ ~r.active
    <3>1. Begin(a, p) = r
      BY <2>7, <2>8
    <3> QED
      BY <2>8, <3>1, OffSound
  <2>9. CASE r = Push(b, x) /\ r.worker /\ ~Full(b)
    <3>1. /\ r \in AudioState /\ Len(r.commands) <= Capacity
          /\ r = [b EXCEPT !.commands = Append(b.commands, x)]
          /\ r.commands = Append(b.commands, x) /\ r.commands # <<>>
      BY <2>3, <2>6, <2>9, Pushed
    <3>2. alive => InPlace(r.commands, pipeline)
      BY <2>5, <2>6, <3>1, InPlaceAppend
    <3>3. Silent(r.commands, pipeline)
      BY <2>6, <3>1, SilentAppend
    <3>4. /\ f \in AudioState /\ f.commands = r.commands /\ f.worker /\ ~f.header_seen
          /\ f.negotiated = a.negotiated /\ f.session = a.session
          /\ f.capabilities_sent = a.capabilities_sent
      BY <2>3, <2>4, <3>1, ZenonT(40) DEF AudioState
    <3>5. Agrees(f, s)
      BY <3>1, <3>2, <3>3, <3>4 DEF Agrees
    <3>6. Begin(a, p) = Report(f, 0)
      BY <2>7, <2>9
    <3> QED
      BY <3>1, <3>4, <3>5, <3>6, ZeroReported
  <2> QED
    BY <2>3, <2>4, <2>5, <2>6, <2>8, <2>9, Enqueued
<1> QED
  BY <1>1, <1>2

\* An OpusHead configures the worker for the stream it is of (process_opus_buffer).
LEMMA OpusHeadSound ==
    ASSUME Capacity \in Nat, Threshold \in Nat \ {0}, NEW p, p.stream \in Streams,
           NEW u, NEW a, Sound(a, u, p.stream), a.worker, a.active, a.negotiated
    PROVE  Sound(OpusHead(a, p), u, p.stream)
<1> DEFINE x == [type |-> "configure", sequence |-> a.sequence, stream |-> p.stream]
           c == Enqueue(a, x)
           f == [c EXCEPT !.header_seen = TRUE]
<1>1. /\ a \in AudioState /\ Len(a.commands) <= Capacity
      /\ Agrees(a, p.stream) /\ Reported(a, u)
  BY DEF Sound
<1>2. CASE p.shape.head = "none"
  BY <1>2 DEF OpusHead
<1>3. CASE p.shape.head = "bad"
  <2>1. OpusHead(a, p) = StopStream(a)
    BY <1>3 DEF OpusHead
  <2> QED
    BY <1>1, <2>1, EndStreamSound
<1>4. CASE p.shape.head # "none" /\ p.shape.head # "bad"
  <2>1. OpusHead(a, p) = IF c.worker THEN f ELSE c
    BY <1>4 DEF OpusHead
  <2>2. /\ x \in Commands /\ a.commands \in Seq(Commands)
        /\ x.type = "configure" /\ x.sequence = a.sequence /\ x.stream = p.stream
    BY <1>1 DEF Commands, AudioState
  <2>3. alive => InPlace(a.commands, pipeline)
    BY <1>1 DEF Agrees
  <2> HIDE DEF x
  <2>4. CASE Off(c) /\ ~c.worker /\ ~c.active
    <3>1. OpusHead(a, p) = c
      BY <2>1, <2>4
    <3> QED
      BY <2>4, <3>1, OffSound
  <2>5. CASE c = Push(a, x) /\ c.worker /\ ~Full(a)
    <3>1. /\ c \in AudioState /\ Len(c.commands) <= Capacity
          /\ c = [a EXCEPT !.commands = Append(a.commands, x)]
          /\ c.commands = Append(a.commands, x)
      BY <1>1, <2>2, <2>5, Pushed
    <3>2. alive => InPlace(c.commands, pipeline)
      BY <2>2, <2>3, <3>1, InPlaceAppend
    <3>3. Playing(c.commands, pipeline, Len(c.commands), a.sequence, p.stream)
      <4>1. Playing(Append(a.commands, x), pipeline, Len(Append(a.commands, x)),
                    a.sequence, p.stream)
        BY <2>2, PlayingGoesOn
      <4> QED
        BY <3>1, <4>1
    <3>4. WillPost(c.commands, pipeline)
      BY <2>2, <3>1, WillPostAppend
    <3>5. /\ f \in AudioState /\ f.commands = c.commands
          /\ f.worker /\ f.active /\ f.negotiated /\ f.header_seen
          /\ f.sequence = a.sequence /\ f.session = a.session
          /\ f.capabilities_sent = a.capabilities_sent
          /\ f.server_av_sync = a.server_av_sync /\ f.last_ms = a.last_ms
      BY <1>1, <3>1 DEF AudioState
    <3>6. Agrees(f, p.stream)
      BY <1>1, <3>2, <3>3, <3>5 DEF Agrees
    <3>7. Reported(f, u)
      BY <1>1, <3>4, <3>5 DEF Reported
    <3>8. OpusHead(a, p) = f
      BY <2>1, <2>5
    <3> QED
      BY <3>1, <3>5, <3>6, <3>7, <3>8 DEF Sound
  <2> QED
    BY <1>1, <2>2, <2>3, <2>4, <2>5, Enqueued
<1> QED
  BY <1>2, <1>3, <1>4

\* A payload is queued for the pipeline its own OpusHead asked for (process_opus_buffer).
LEMMA PayloadSound ==
    ASSUME Capacity \in Nat, NEW p, p.stream \in Streams,
           NEW u, NEW a, Sound(a, u, p.stream)
    PROVE  /\ Sound(Payload(a, p), u, p.stream)
           /\ Payload(a, p).header_seen => a.header_seen
<1> DEFINE x == [type |-> "packet", sequence |-> a.sequence, stream |-> p.stream]
           c == EnqueuePacket(a, x)
<1>1. /\ a \in AudioState /\ Len(a.commands) <= Capacity
      /\ Agrees(a, p.stream) /\ Reported(a, u)
  BY DEF Sound
<1>2. CASE ~(p.shape.data /\ a.header_seen)
  BY <1>2 DEF Payload
<1>3. CASE p.shape.data /\ a.header_seen
  <2>1. Payload(a, p) = c
    BY <1>3 DEF Payload
  <2>2. /\ x \in Commands /\ a.commands \in Seq(Commands)
        /\ x.type = "packet" /\ x.sequence = a.sequence /\ x.stream = p.stream
    BY <1>1 DEF Commands, AudioState
  <2>3. alive => InPlace(a.commands, pipeline)
    BY <1>1 DEF Agrees
  <2> HIDE DEF x
  <2>4. CASE thread = "ended"
    <3>1. c = Disable(a)
      BY <2>4 DEF EnqueuePacket
    <3>2. Off(Disable(a))
      BY <1>1, <2>3, Disabled DEF Agrees
    <3> QED
      BY <1>3, <2>1, <3>1, <3>2, OffSound
  <2>5. CASE thread # "ended" /\ Full(a)
    BY <1>3, <2>1, <2>5 DEF EnqueuePacket
  <2>6. CASE thread # "ended" /\ ~Full(a)
    <3>1. c = Push(a, x)
      BY <2>6 DEF EnqueuePacket
    <3>2. /\ c \in AudioState /\ Len(c.commands) <= Capacity
          /\ c = [a EXCEPT !.commands = Append(a.commands, x)]
          /\ c.commands = Append(a.commands, x)
      BY <1>1, <2>2, <2>6, <3>1, Pushed
    <3>3. ASSUME alive
          PROVE  /\ Playing(c.commands, pipeline, Len(c.commands), a.sequence, p.stream)
                 /\ InPlace(c.commands, pipeline)
      <4>1. Playing(a.commands, pipeline, Len(a.commands), a.sequence, p.stream)
        BY <1>1, <1>3, <3>3 DEF Agrees
      <4>2. Playing(c.commands, pipeline, Len(c.commands), a.sequence, p.stream)
        BY <2>2, <3>2, <4>1, PlayingGoesOn
      <4>3. InPlace(c.commands, pipeline)
        BY <2>2, <2>3, <3>2, <3>3, <4>1, InPlaceAppend
      <4> QED
        BY <4>2, <4>3
    <3>4. WillPost(a.commands, pipeline) => WillPost(c.commands, pipeline)
      BY <2>2, <3>2, WillPostAppend
    <3>5. /\ c.worker = a.worker /\ c.active = a.active /\ c.negotiated = a.negotiated
          /\ c.header_seen = a.header_seen
          /\ c.sequence = a.sequence /\ c.session = a.session
          /\ c.capabilities_sent = a.capabilities_sent
          /\ c.server_av_sync = a.server_av_sync /\ c.last_ms = a.last_ms
      BY <1>1, <3>2 DEF AudioState
    <3>6. Agrees(c, p.stream)
      BY <1>1, <1>3, <3>3, <3>5 DEF Agrees
    <3>7. Reported(c, u)
      BY <1>1, <3>4, <3>5 DEF Reported
    <3> QED
      BY <1>3, <2>1, <3>2, <3>6, <3>7 DEF Sound
  <2> QED
    BY <2>4, <2>5, <2>6
<1> QED
  BY <1>2, <1>3

\* What remains in place when another stream is looked for.
LEMMA NoHeaderSound ==
    ASSUME NEW a, NEW u, NEW s, Sound(a, u, s), ~a.header_seen, NEW t
    PROVE  Sound(a, u, t) /\ Expects(a, u, t)
BY DEF Sound, Agrees, Expects

\* A packet of audio leaves the two ends agreeing on its stream, when one that is accepted is of
\* the stream that plays or starts another, and is followed by its own (process_audio_data).
LEMMA AudioDataSound ==
    ASSUME Capacity \in Nat, Threshold \in Nat \ {0}, NEW p, p.stream \in Streams,
           p.sequence \in Int, NEW s \in Streams, NEW u, NEW a, Sound(a, u, s),
           a.negotiated /\ a.worker /\ Accepts(a, p.sequence) /\ ~p.shape.sos
              /\ alive /\ a.header_seen => p.stream = s,
           ~(a.negotiated /\ a.worker /\ Accepts(a, p.sequence)) => Expects(a, u, s),
           \A q : Follows(u, q, p.stream)
    PROVE  \E t \in Streams : Sound(AudioData(a, p), u, t) /\ Expects(AudioData(a, p), u, t)
<1> DEFINE b == IF p.shape.sos THEN Begin(a, p) ELSE a
           h == OpusHead(b, p)
           r == AudioData(a, p)
<1>1. /\ a \in AudioState /\ Len(a.commands) <= Capacity
      /\ Agrees(a, s) /\ Reported(a, u)
  BY DEF Sound
<1>2. CASE ~(a.negotiated /\ a.worker /\ Accepts(a, p.sequence))
  <2>1. r = a
    BY <1>2 DEF AudioData
  <2> QED
    BY <1>2, <2>1
<1>3. CASE a.negotiated /\ a.worker /\ Accepts(a, p.sequence)
  <2>1. Sound(b, u, p.stream)
    <3>1. CASE p.shape.sos
      <4>1. b = Begin(a, p)
        BY <3>1
      <4> QED
        BY <1>1, <1>3, <4>1, BeginSound
    <3>2. CASE ~p.shape.sos
      <4>1. b = a
        BY <3>2
      <4>2. CASE alive /\ a.header_seen
        BY <1>3, <3>2, <4>1, <4>2
      <4>3. CASE ~(alive /\ a.header_seen)
        BY <4>1, <4>3 DEF Sound, Agrees
      <4> QED
        BY <4>2, <4>3
    <3> QED
      BY <3>1, <3>2
  <2>2. \A x : Expects(x, u, p.stream)
    BY DEF Expects
  <2>3. b.active => b.worker /\ b.negotiated
    <3>1. CASE p.shape.sos
      <4>1. b = Begin(a, p)
        BY <3>1
      <4> QED
        BY <1>1, <1>3, <4>1, BeginSound
    <3>2. CASE ~p.shape.sos
      BY <1>3, <3>2
    <3> QED
      BY <3>1, <3>2
  <2>4. r = IF ~b.active THEN b
            ELSE IF p.shape.eos THEN EndStream(b)
            ELSE IF p.shape.codec # "opus" THEN StopStream(b)
            ELSE Payload(h, p)
    BY <1>3 DEF AudioData
  <2>5. /\ b \in AudioState /\ Len(b.commands) <= Capacity
        /\ Agrees(b, p.stream)
    BY <2>1 DEF Sound
  <2> HIDE DEF b
  <2>6. CASE ~b.active
    BY <2>1, <2>2, <2>4, <2>6
  <2>7. CASE b.active
    <3>1. b.worker /\ b.negotiated
      BY <2>7, <2>3
    <3>2. Sound(EndStream(b), u, p.stream) /\ Sound(StopStream(b), u, p.stream)
      BY <2>5, <3>1, EndStreamSound
    <3>3. Sound(h, u, p.stream)
      BY <2>1, <2>7, <3>1, OpusHeadSound
    <3>4. Sound(Payload(h, p), u, p.stream)
      BY <3>3, PayloadSound
    <3>5. Sound(r, u, p.stream)
      BY <2>4, <2>7, <3>2, <3>4
    <3> QED
      BY <2>2, <3>5
  <2> QED
    BY <2>6, <2>7
<1> QED
  BY <1>2, <1>3

-----------------------------------------------------------------------------
(* The queue of the UI thread *)

\* What is taken from the queue leaves the streams in order, followed by their own and what
\* starts (process_audio_data).
LEMMA InOrderTail ==
    ASSUME NEW u \in Seq(Packets), u # <<>>, InOrder(u)
    PROVE  /\ InOrder(Tail(u))
           /\ IsData(u[1]) => \A q : Follows(Tail(u), q, u[1].stream)
<1> DEFINE v == Tail(u)
<1>1. Len(u) \in Nat \ {0} /\ Len(v) = Len(u) - 1
  BY TailOf
<1>2. \A k \in 1..Len(v) : k + 1 \in 1..Len(u) /\ v[k] = u[k + 1]
  BY <1>1, TailOf
<1>3. \A k \in 2..Len(u) : k - 1 \in 1..Len(v) /\ v[k - 1] = u[k]
  BY TailOf
<1>4. ASSUME NEW i \in 0..Len(v), NEW j \in 1..Len(v), i < j, IsData(u[i + 1]), IsData(v[j]),
             u[i + 1].stream # v[j].stream
      PROVE  \E k \in (i + 1)..j : Starts(v[k], v[j].stream)
  <2>1. i + 1 \in 1..Len(u) /\ j + 1 \in 1..Len(u) /\ i + 1 < j + 1 /\ v[j] = u[j + 1]
    BY <1>1, <1>2, <1>4
  <2>2. PICK k \in (i + 1 + 1)..(j + 1) : Starts(u[k], u[j + 1].stream)
    BY <2>1, <1>4 DEF InOrder
  <2>3. k \in 2..Len(u) /\ k - 1 \in (i + 1)..j
    BY <1>1, <2>1
  <2> QED
    BY <1>3, <2>1, <2>2, <2>3
<1>5. ASSUME NEW i \in 0..Len(v), IsData(u[i + 1]), u[i + 1].stream # server.stream
      PROVE  \E k \in (i + 1)..Len(v) : Starts(v[k], server.stream)
  <2>1. i + 1 \in 1..Len(u)
    BY <1>1
  <2>2. PICK k \in (i + 1 + 1)..Len(u) : Starts(u[k], server.stream)
    BY <2>1, <1>5 DEF InOrder
  <2>3. k \in 2..Len(u) /\ k - 1 \in (i + 1)..Len(v)
    BY <1>1, <2>1
  <2> QED
    BY <1>3, <2>2, <2>3
<1>6. InOrder(v)
  <2>1. ASSUME NEW i \in 1..Len(v), NEW j \in 1..Len(v), i < j, IsData(v[i]), IsData(v[j]),
               v[i].stream # v[j].stream
        PROVE  \E k \in (i + 1)..j : Starts(v[k], v[j].stream)
    <3>1. i \in 0..Len(v) /\ v[i] = u[i + 1]
      BY <1>2
    <3>2. IsData(u[i + 1]) /\ u[i + 1].stream # v[j].stream
      BY <2>1, <3>1
    <3> QED
      BY <1>4, <2>1, <3>1, <3>2
  <2>2. ASSUME NEW i \in 1..Len(v), IsData(v[i]), v[i].stream # server.stream
        PROVE  \E k \in (i + 1)..Len(v) : Starts(v[k], server.stream)
    <3>1. i \in 0..Len(v) /\ v[i] = u[i + 1]
      BY <1>2
    <3>2. IsData(u[i + 1]) /\ u[i + 1].stream # server.stream
      BY <2>2, <3>1
    <3> QED
      BY <1>5, <3>1, <3>2
  <2>3. ASSUME NEW i \in 1..Len(v), NEW j \in 1..Len(v), IsData(v[i]), IsData(v[j]),
               v[i].stream = v[j].stream
        PROVE  v[i].sequence = v[j].sequence
    BY <1>2, <2>3 DEF InOrder
  <2>4. ASSUME NEW i \in 1..Len(v), IsData(v[i])
        PROVE  /\ v[i].stream <= server.stream
               /\ v[i].stream = server.stream => v[i].sequence = server.sequence
    BY <1>2, <2>4 DEF InOrder
  <2> QED
    BY <2>1, <2>2, <2>3, <2>4 DEF InOrder
<1>7. ASSUME IsData(u[1]), NEW q PROVE Follows(v, q, u[1].stream)
  <2>1. 0 + 1 = 1 /\ 0 \in 0..Len(v)
    BY <1>1
  <2>2. ASSUME NEW i \in 1..Len(v), IsData(v[i]), v[i].stream # u[1].stream
        PROVE  \E k \in 1..i : Starts(v[k], v[i].stream)
    <3>1. 0 < i
      OBVIOUS
    <3>2. \E k \in (0 + 1)..i : Starts(v[k], v[i].stream)
      BY <1>4, <1>7, <2>1, <2>2, <3>1
    <3> QED
      BY <2>1, <3>2
  <2>3. ASSUME server.stream # u[1].stream
        PROVE  \E k \in 1..Len(v) : Starts(v[k], server.stream)
    <3>1. \E k \in (0 + 1)..Len(v) : Starts(v[k], server.stream)
      BY <1>5, <1>7, <2>1, <2>3
    <3> QED
      BY <2>1, <3>1
  <2> QED
    BY <2>2, <2>3 DEF Follows
<1> QED
  BY <1>6, <1>7

\* A packet that is not accepted was not waited for, and one that is accepted and starts no
\* stream is of the one that plays (AudioProtocol::accepts).
LEMMA FollowsTail ==
    ASSUME NEW u \in Seq(Packets), u # <<>>, InOrder(u), NEW q, NEW s, Follows(u, q, s)
    PROVE  /\ ~(IsData(u[1]) /\ Fresh(q, u[1].sequence)) => Follows(Tail(u), q, s)
           /\ IsData(u[1]) /\ Fresh(q, u[1].sequence) /\ ~u[1].shape.sos => u[1].stream = s
<1> DEFINE v == Tail(u)
<1>1. Len(u) \in Nat \ {0} /\ Len(v) = Len(u) - 1
  BY TailOf
<1>2. \A k \in 1..Len(v) : k + 1 \in 1..Len(u) /\ v[k] = u[k + 1]
  BY <1>1, TailOf
<1>3. \A k \in 2..Len(u) : k - 1 \in 1..Len(v) /\ v[k - 1] = u[k]
  BY TailOf
<1>4. ASSUME ~(IsData(u[1]) /\ Fresh(q, u[1].sequence)) PROVE Follows(v, q, s)
  <2>1. ASSUME NEW i \in 1..Len(v), IsData(v[i]), v[i].stream # s, Fresh(q, v[i].sequence)
        PROVE  \E k \in 1..i : Starts(v[k], v[i].stream)
    <3>1. i + 1 \in 1..Len(u) /\ v[i] = u[i + 1] /\ 1 \in 1..Len(u)
      BY <1>1, <1>2
    <3>2. PICK k \in 1..(i + 1) : Starts(u[k], u[i + 1].stream)
      BY <2>1, <3>1 DEF Follows
    <3>3. CASE k = 1
      <4>1. IsData(u[1]) /\ u[1].stream = u[i + 1].stream
        BY <3>2, <3>3 DEF Starts
      <4>2. u[1].sequence = u[i + 1].sequence
        BY <2>1, <3>1, <4>1 DEF InOrder
      <4> QED
        BY <1>4, <2>1, <3>1, <4>1, <4>2
    <3>4. CASE k # 1
      <4>1. k \in 2..Len(u) /\ k - 1 \in 1..i
        BY <1>1, <3>1, <3>4
      <4> QED
        BY <1>3, <3>1, <3>2, <4>1
    <3> QED
      BY <3>3, <3>4
  <2>2. ASSUME server.stream # s, Fresh(q, server.sequence)
        PROVE  \E k \in 1..Len(v) : Starts(v[k], server.stream)
    <3>1. PICK k \in 1..Len(u) : Starts(u[k], server.stream)
      BY <2>2 DEF Follows
    <3>2. CASE k = 1
      <4>1. IsData(u[1]) /\ u[1].stream = server.stream /\ 1 \in 1..Len(u)
        BY <1>1, <3>1, <3>2 DEF Starts
      <4>2. u[1].sequence = server.sequence
        BY <4>1 DEF InOrder
      <4> QED
        BY <1>4, <2>2, <4>1, <4>2
    <3>3. CASE k # 1
      <4>1. k \in 2..Len(u)
        BY <1>1, <3>3
      <4> QED
        BY <1>3, <3>1, <4>1
    <3> QED
      BY <3>2, <3>3
  <2> QED
    BY <2>1, <2>2 DEF Follows
<1>5. ASSUME IsData(u[1]), Fresh(q, u[1].sequence), ~u[1].shape.sos PROVE u[1].stream = s
  <2>1. SUFFICES ASSUME u[1].stream # s PROVE FALSE
    OBVIOUS
  <2>2. 1 \in 1..Len(u)
    BY <1>1
  <2>3. PICK k \in 1..1 : Starts(u[k], u[1].stream)
    BY <1>5, <2>1, <2>2 DEF Follows
  <2>4. k = 1
    OBVIOUS
  <2> QED
    BY <1>5, <2>3, <2>4 DEF Starts
<1> QED
  BY <1>4, <1>5

\* What is queued behind the others leaves the ones before it in their places.
LEMMA AppendOf ==
    ASSUME NEW S, NEW u \in Seq(S), NEW x \in S
    PROVE  /\ Append(u, x) \in Seq(S) /\ Len(u) \in Nat /\ Len(Append(u, x)) = Len(u) + 1
           /\ Append(u, x)[Len(u) + 1] = x
           /\ \A k \in 1..Len(u) : Append(u, x)[k] = u[k] /\ k \in 1..(Len(u) + 1)
<1>1. Len(u) \in Nat
  OBVIOUS
<1> QED
  BY <1>1, AppendProperties

\* Any other packet changes nothing for the streams.
LEMMA OtherAppend ==
    ASSUME NEW u \in Seq(Packets), NEW x \in Packets, ~IsData(x)
    PROVE  /\ InOrder(u) => InOrder(Append(u, x))
           /\ \A q, s : Follows(u, q, s) => Follows(Append(u, x), q, s)
<1> DEFINE v == Append(u, x)
<1>1. Len(u) \in Nat /\ Len(v) = Len(u) + 1 /\ v[Len(u) + 1] = x
  BY AppendOf
<1>2. \A k \in 1..Len(u) : v[k] = u[k] /\ k \in 1..Len(v)
  BY <1>1, AppendOf
<1>3. \A k \in 1..Len(v) : IsData(v[k]) => k \in 1..Len(u) /\ v[k] = u[k]
  BY <1>1, <1>2
<1>4. ASSUME InOrder(u) PROVE InOrder(v)
  <2>1. ASSUME NEW i \in 1..Len(v), NEW j \in 1..Len(v), i < j, IsData(v[i]), IsData(v[j]),
               v[i].stream # v[j].stream
        PROVE  \E k \in (i + 1)..j : Starts(v[k], v[j].stream)
    <3>1. PICK k \in (i + 1)..j : Starts(u[k], u[j].stream)
      BY <1>3, <1>4, <2>1 DEF InOrder
    <3>2. k \in 1..Len(u)
      BY <1>1, <1>3, <2>1
    <3> QED
      BY <1>2, <1>3, <2>1, <3>1, <3>2
  <2>2. ASSUME NEW i \in 1..Len(v), IsData(v[i]), v[i].stream # server.stream
        PROVE  \E k \in (i + 1)..Len(v) : Starts(v[k], server.stream)
    <3>1. PICK k \in (i + 1)..Len(u) : Starts(u[k], server.stream)
      BY <1>3, <1>4, <2>2 DEF InOrder
    <3>2. k \in 1..Len(u) /\ k \in (i + 1)..Len(v)
      BY <1>1
    <3> QED
      BY <1>2, <3>1, <3>2
  <2>3. ASSUME NEW i \in 1..Len(v), NEW j \in 1..Len(v), IsData(v[i]), IsData(v[j]),
               v[i].stream = v[j].stream
        PROVE  v[i].sequence = v[j].sequence
    BY <1>3, <1>4, <2>3 DEF InOrder
  <2>4. ASSUME NEW i \in 1..Len(v), IsData(v[i])
        PROVE  /\ v[i].stream <= server.stream
               /\ v[i].stream = server.stream => v[i].sequence = server.sequence
    BY <1>3, <1>4, <2>4 DEF InOrder
  <2> QED
    BY <2>1, <2>2, <2>3, <2>4 DEF InOrder
<1>5. ASSUME NEW q, NEW s, Follows(u, q, s) PROVE Follows(v, q, s)
  <2>1. ASSUME NEW i \in 1..Len(v), IsData(v[i]), v[i].stream # s, Fresh(q, v[i].sequence)
        PROVE  \E k \in 1..i : Starts(v[k], v[i].stream)
    <3>1. PICK k \in 1..i : Starts(u[k], u[i].stream)
      BY <1>3, <1>5, <2>1 DEF Follows
    <3>2. k \in 1..Len(u)
      BY <1>1, <1>3, <2>1
    <3> QED
      BY <1>2, <1>3, <2>1, <3>1, <3>2
  <2>2. ASSUME server.stream # s, Fresh(q, server.sequence)
        PROVE  \E k \in 1..Len(v) : Starts(v[k], server.stream)
    BY <1>2, <1>5, <2>2 DEF Follows
  <2> QED
    BY <2>1, <2>2 DEF Follows
<1> QED
  BY <1>4, <1>5

\* The last report in the queue, when a packet is taken or queued (report_audio_latency).
LEMMA LastReport ==
    ASSUME NEW u \in Seq(Packets), NEW m
    PROVE  /\ u # <<>> /\ LastIs(u, m) => LastIs(Tail(u), m)
           /\ u # <<>> /\ LastIs(u, m) /\ IsReport(u[1]) /\ NoReport(Tail(u)) => u[1].ms = m
           /\ u # <<>> /\ ~IsReport(u[1]) /\ NoReport(Tail(u)) => NoReport(u)
           /\ \A x \in Packets : ~IsReport(x) /\ LastIs(u, m) => LastIs(Append(u, x), m)
           /\ \A x \in Packets : IsReport(x) /\ x.ms = m => LastIs(Append(u, x), m)
           /\ \A x \in Packets : NoReport(Append(u, x)) => NoReport(u) /\ ~IsReport(x)
<1>1. ASSUME u # <<>>
      PROVE  /\ LastIs(u, m) => LastIs(Tail(u), m)
             /\ LastIs(u, m) /\ IsReport(u[1]) /\ NoReport(Tail(u)) => u[1].ms = m
             /\ ~IsReport(u[1]) /\ NoReport(Tail(u)) => NoReport(u)
  <2> DEFINE v == Tail(u)
  <2>1. Len(u) \in Nat \ {0} /\ Len(v) = Len(u) - 1
    BY <1>1, TailOf
  <2>2. \A k \in 1..Len(v) : k + 1 \in 1..Len(u) /\ v[k] = u[k + 1]
    BY <1>1, <2>1, TailOf
  <2>3. \A k \in 2..Len(u) : k - 1 \in 1..Len(v) /\ v[k - 1] = u[k]
    BY <1>1, TailOf
  <2>4. ASSUME LastIs(u, m), NEW i \in 1..Len(v), IsReport(v[i]),
               \A k \in (i + 1)..Len(v) : ~IsReport(v[k])
        PROVE  v[i].ms = m
    <3>1. ASSUME NEW k \in (i + 1 + 1)..Len(u) PROVE ~IsReport(u[k])
      <4>1. k \in 2..Len(u) /\ k - 1 \in (i + 1)..Len(v)
        BY <2>1
      <4> QED
        BY <2>3, <2>4, <4>1
    <3>2. i + 1 \in 1..Len(u) /\ v[i] = u[i + 1]
      BY <2>2
    <3> QED
      BY <2>4, <3>1, <3>2 DEF LastIs
  <2>5. ASSUME NoReport(v), NEW k \in 2..Len(u) PROVE ~IsReport(u[k])
    BY <2>3, <2>5 DEF NoReport
  <2>6. ASSUME LastIs(u, m), IsReport(u[1]), NoReport(v) PROVE u[1].ms = m
    <3>1. \A k \in (1 + 1)..Len(u) : ~IsReport(u[k])
      BY <2>5, <2>6
    <3>2. 1 \in 1..Len(u)
      BY <2>1
    <3> QED
      BY <2>6, <3>1, <3>2 DEF LastIs
  <2>7. ASSUME ~IsReport(u[1]), NoReport(v) PROVE NoReport(u)
    <3>1. \A k \in 1..Len(u) : k = 1 \/ k \in 2..Len(u)
      BY <2>1
    <3> QED
      BY <2>5, <2>7, <3>1 DEF NoReport
  <2> QED
    BY <2>4, <2>6, <2>7 DEF LastIs
<1>2. ASSUME NEW x \in Packets
      PROVE  /\ ~IsReport(x) /\ LastIs(u, m) => LastIs(Append(u, x), m)
             /\ IsReport(x) /\ x.ms = m => LastIs(Append(u, x), m)
             /\ NoReport(Append(u, x)) => NoReport(u) /\ ~IsReport(x)
  <2> DEFINE v == Append(u, x)
  <2>1. Len(u) \in Nat /\ Len(v) = Len(u) + 1 /\ v[Len(v)] = x /\ Len(v) \in 1..Len(v)
    BY AppendOf
  <2>2. \A k \in 1..Len(u) : v[k] = u[k] /\ k \in 1..Len(v)
    BY <2>1, AppendOf
  <2>3. ASSUME ~IsReport(x), LastIs(u, m), NEW i \in 1..Len(v), IsReport(v[i]),
               \A k \in (i + 1)..Len(v) : ~IsReport(v[k])
        PROVE  v[i].ms = m
    <3>1. i # Len(v)
      BY <2>1, <2>3
    <3>2. i \in 1..Len(u)
      BY <2>1, <3>1
    <3>3. ASSUME NEW k \in (i + 1)..Len(u) PROVE ~IsReport(u[k])
      <4>1. k \in (i + 1)..Len(v) /\ k \in 1..Len(u)
        BY <2>1
      <4> QED
        BY <2>2, <2>3, <4>1
    <3> QED
      BY <2>2, <2>3, <3>2, <3>3 DEF LastIs
  <2>4. ASSUME IsReport(x), x.ms = m, NEW i \in 1..Len(v), IsReport(v[i]),
               \A k \in (i + 1)..Len(v) : ~IsReport(v[k])
        PROVE  v[i].ms = m
    <3>1. i # Len(v) => Len(v) \in (i + 1)..Len(v)
      BY <2>1
    <3>2. i = Len(v)
      BY <2>1, <2>4, <3>1
    <3> QED
      BY <2>1, <2>4, <3>2
  <2>5. NoReport(v) => NoReport(u) /\ ~IsReport(x)
    BY <2>1, <2>2 DEF NoReport
  <2> QED
    BY <2>3, <2>4, <2>5 DEF LastIs
<1> QED
  BY <1>1, <1>2

-----------------------------------------------------------------------------
(* The UI thread *)

\* What the packet at the head of the queue leaves in place, and what it can be
\* (process_audio_data).
LEMMA Taken ==
    ASSUME TypeOK, AudioInv, ui # <<>>
    PROVE  /\ ~IsReport(ui[1]) => Reported(audio, Tail(ui))
           /\ \E s \in Streams :
                /\ Agrees(audio, s)
                /\ ~(IsData(ui[1]) /\ Fresh(audio.sequence, ui[1].sequence)) =>
                    Expects(audio, Tail(ui), s)
                /\ IsData(ui[1]) /\ Fresh(audio.sequence, ui[1].sequence) /\ ~ui[1].shape.sos
                     /\ alive /\ audio.header_seen => ui[1].stream = s
<1>1. ui \in Seq(Packets) /\ InOrder(ui) /\ Reported(audio, ui)
  BY DEF TypeOK, AudioInv
<1>2. PICK s \in Streams : Agrees(audio, s) /\ Expects(audio, ui, s)
  BY DEF AudioInv
<1>3. ASSUME ~IsReport(ui[1]) PROVE Reported(audio, Tail(ui))
  <2>1. NoReport(Tail(ui)) => NoReport(ui)
    BY <1>1, <1>3, LastReport
  <2> QED
    BY <1>1, <2>1 DEF Reported
<1>4. ASSUME alive, audio.header_seen
      PROVE  /\ ~(IsData(ui[1]) /\ Fresh(audio.sequence, ui[1].sequence)) =>
                    Follows(Tail(ui), audio.sequence, s)
             /\ IsData(ui[1]) /\ Fresh(audio.sequence, ui[1].sequence) /\ ~ui[1].shape.sos =>
                    ui[1].stream = s
  <2>1. Follows(ui, audio.sequence, s)
    BY <1>2, <1>4 DEF Expects
  <2> QED
    BY <1>1, <2>1, FollowsTail
<1> QED
  BY <1>2, <1>3, <1>4 DEF Expects

\* The rest of the state follows when the client agrees with what is left of the queue.
LEMMA TakesKeeps ==
    ASSUME TypeOK, AudioInv, NEW t, Takes(t), NEW s \in Streams,
           Sound(audio', Tail(ui), s), Expects(audio', Tail(ui), s)
    PROVE  TypeOK' /\ AudioInv'
<1>1. /\ audio.session /\ ui # <<>> /\ ui' = Tail(ui) /\ ui \in Seq(Packets)
      /\ thread' = thread /\ pipeline' = pipeline /\ latency' = latency /\ server' = server
  BY DEF Takes, TypeOK
<1>2. ui' \in Seq(Packets)
  BY <1>1, TailOf
<1>3. TypeOK'
  BY <1>1, <1>2 DEF TypeOK, Sound, AudioState
<1>4. alive' = alive
  BY <1>1 DEF alive
<1>5. InOrder(ui)'
  <2>1. InOrder(Tail(ui))
    BY <1>1, InOrderTail DEF AudioInv
  <2> QED
    BY <1>1, <2>1 DEF InOrder
<1>6. Measured'
  <2>1. alive => LastIs(Tail(ui), Posted(pipeline))
    BY <1>1, LastReport DEF AudioInv, Measured
  <2>2. /\ Near(Posted(pipeline), latency)
        /\ pipeline.last_ms = None => latency = 0
        /\ pipeline.sequence = None => pipeline = NoPipeline
    BY DEF AudioInv, Measured
  <2> QED
    BY <1>1, <1>4, <2>1, <2>2 DEF Measured
<1>7. Reported(audio, ui)'
  <2>1. Reported(audio', Tail(ui))
    BY DEF Sound
  <2> QED
    BY <1>1, <1>4, <2>1 DEF Reported
<1>8. Agrees(audio, s)'
  <2>1. Agrees(audio', s)
    BY DEF Sound
  <2> QED
    BY <1>1, <1>4, <2>1 DEF Agrees
<1>9. Expects(audio, ui, s)'
  <2>1. CASE ~(alive /\ audio'.header_seen)
    BY <1>4, <2>1 DEF Expects
  <2>2. CASE alive /\ audio'.header_seen
    <3>1. Follows(Tail(ui), audio'.sequence, s)
      BY <2>2 DEF Expects
    <3>2. Follows(ui, audio.sequence, s)'
      BY <1>1, <3>1 DEF Follows
    <3> QED
      BY <3>2 DEF Expects
  <2> QED
    BY <2>1, <2>2
<1>10. AudioInv'
  BY <1>5, <1>6, <1>7, <1>8, <1>9 DEF AudioInv
<1> QED
  BY <1>3, <1>10

\* Every packet the UI thread handles keeps the invariant (process_ui_event).
LEMMA UserEventKeeps ==
    ASSUME TypeOK, AudioInv, UserEvent
    PROVE  TypeOK' /\ AudioInv'
<1> DEFINE u == Tail(ui)
           p == ui[1]
<1>1. /\ Capacity \in Nat /\ Threshold \in Nat \ {0}
      /\ audio \in AudioState /\ Len(audio.commands) <= Capacity
      /\ ui \in Seq(Packets)
  BY AudioAssumption DEF TypeOK, AudioState
<1>2. PICK t : Takes(t)
  BY DEF UserEvent, ProcessHello, ProcessAudioCapabilities, ProcessAudioData,
         AudioLatency, AudioWorkerFailed
<1>3. audio.session /\ ui # <<>>
  BY <1>2 DEF Takes
<1>4. Head(ui) = p /\ p \in Packets
  BY <1>1, <1>3, TailOf
<1>5. ~IsReport(p) => Reported(audio, u)
  BY <1>3, Taken
<1>6. PICK s \in Streams :
         /\ Agrees(audio, s)
         /\ ~(IsData(p) /\ Fresh(audio.sequence, p.sequence)) => Expects(audio, u, s)
         /\ IsData(p) /\ Fresh(audio.sequence, p.sequence) /\ ~p.shape.sos
              /\ alive /\ audio.header_seen => p.stream = s
  BY <1>3, Taken
<1>7. SUFFICES \E r \in Streams : Sound(audio', u, r) /\ Expects(audio', u, r)
  BY <1>2, TakesKeeps
<1>8. CASE ProcessHello
  <2>1. p.type = "hello" /\ p.av_sync \in BOOLEAN
    BY <1>4, <1>8 DEF ProcessHello, Takes, Packets
  <2>2. Reported(audio, u) /\ Expects(audio, u, s)
    BY <1>5, <1>6, <2>1 DEF IsReport, IsData
  <2>3. CASE audio' = audio
    BY <1>1, <1>6, <2>2, <2>3 DEF Sound
  <2>4. CASE /\ ~audio.capabilities_sent
             /\ audio' = [audio EXCEPT !.server_av_sync = p.av_sync, !.capabilities_sent = TRUE]
    <3>1. audio' \in AudioState
      BY <1>1, <2>1, <2>4 DEF AudioState
    <3>2. /\ audio'.commands = audio.commands /\ audio'.worker = audio.worker
          /\ audio'.header_seen = audio.header_seen /\ audio'.active = audio.active
          /\ audio'.negotiated = audio.negotiated /\ audio'.session = audio.session
          /\ audio'.sequence = audio.sequence /\ audio'.capabilities_sent
      BY <1>1, <2>4 DEF AudioState
    <3>3. ~audio.negotiated
      BY <1>6, <2>4 DEF Agrees
    <3>4. Agrees(audio', s)
      BY <1>6, <3>2 DEF Agrees
    <3>5. Reported(audio', u)
      BY <3>2, <3>3 DEF Reported
    <3>6. Expects(audio', u, s)
      BY <2>2, <3>2 DEF Expects
    <3> QED
      BY <1>1, <3>1, <3>2, <3>4, <3>5, <3>6 DEF Sound
  <2> QED
    BY <1>4, <1>8, <2>3, <2>4 DEF ProcessHello
<1>9. CASE ProcessAudioCapabilities
  <2> DEFINE f == [audio EXCEPT !.negotiated = TRUE, !.told = "start", !.last_ms = None]
  <2>1. p.type = "audio-capabilities"
    BY <1>4, <1>9 DEF ProcessAudioCapabilities, Takes
  <2>2. Reported(audio, u) /\ Expects(audio, u, s)
    BY <1>5, <1>6, <2>1 DEF IsReport, IsData
  <2>3. CASE audio' = audio
    BY <1>1, <1>6, <2>2, <2>3 DEF Sound
  <2>4. CASE /\ audio.worker /\ audio.capabilities_sent /\ ~audio.negotiated
             /\ audio' = Report(f, 0)
    <3>1. f \in AudioState /\ f.commands = audio.commands
      BY <1>1 DEF AudioState
    <3>2. /\ f.worker = audio.worker /\ f.header_seen = audio.header_seen
          /\ f.session = audio.session /\ f.capabilities_sent = audio.capabilities_sent
      BY <1>1 DEF AudioState
    <3>3. ~audio.header_seen
      BY <1>6, <2>4 DEF Agrees
    <3>4. Agrees(f, s)
      BY <1>3, <1>6, <2>4, <3>1, <3>2, <3>3 DEF Agrees
    <3> HIDE DEF f
    <3>5. Sound(Report(f, 0), u, s) /\ ~Report(f, 0).header_seen
      BY <1>1, <3>1, <3>2, <3>3, <3>4, ZeroReported
    <3> QED
      BY <2>4, <3>5 DEF Expects
  <2> QED
    BY <1>9, <2>3, <2>4 DEF ProcessAudioCapabilities
<1>10. CASE ProcessAudioData
  <2>1. p.type = "audio-data" /\ p.stream \in Streams /\ p.sequence \in Int
    BY <1>4, <1>10 DEF ProcessAudioData, Takes, Packets
  <2>2. Reported(audio, u) /\ IsData(p)
    BY <1>5, <2>1 DEF IsReport, IsData
  <2>3. Sound(audio, u, s)
    BY <1>1, <1>6, <2>2 DEF Sound
  <2>4. \A q : Follows(u, q, p.stream)
    BY <1>1, <1>3, <2>2, InOrderTail DEF AudioInv
  <2>5. Accepts(audio, p.sequence) <=> Fresh(audio.sequence, p.sequence)
    BY DEF Accepts, Fresh
  <2>6. ASSUME ~(audio.negotiated /\ audio.worker /\ Accepts(audio, p.sequence))
        PROVE  Expects(audio, u, s)
    <3>1. CASE ~Fresh(audio.sequence, p.sequence)
      BY <1>6, <3>1
    <3>2. CASE Fresh(audio.sequence, p.sequence)
      <4>1. ~audio.header_seen
        BY <1>6, <2>5, <2>6, <3>2 DEF Agrees
      <4> QED
        BY <4>1 DEF Expects
    <3> QED
      BY <3>1, <3>2
  <2>7. audio' = AudioData(audio, p)
    BY <1>4, <1>10 DEF ProcessAudioData
  <2>8. audio.negotiated /\ audio.worker /\ Accepts(audio, p.sequence) /\ ~p.shape.sos
           /\ alive /\ audio.header_seen => p.stream = s
    BY <1>6, <2>2, <2>5
  <2> HIDE DEF u, p
  <2>9. \E r \in Streams : /\ Sound(AudioData(audio, p), u, r)
                           /\ Expects(AudioData(audio, p), u, r)
    BY <1>1, <2>1, <2>3, <2>4, <2>6, <2>8, AudioDataSound
  <2> QED
    BY <2>7, <2>9
<1>11. CASE AudioLatency
  <2>1. p.type = "audio-latency" /\ p.ms \in Latencies
    BY <1>4, <1>11 DEF AudioLatency, Takes, Packets
  <2>2. Expects(audio, u, s) /\ IsReport(p)
    BY <1>6, <2>1 DEF IsData, IsReport
  <2>3. audio' = Report(audio, p.ms)
    BY <1>4, <1>11 DEF AudioLatency
  <2>4. /\ audio' \in AudioState
        /\ audio' = [audio EXCEPT !.last_ms = audio'.last_ms]
        /\ audio.negotiated /\ audio.server_av_sync =>
                audio'.last_ms # None /\ Near(audio'.last_ms, p.ms)
    BY <1>1, <2>1, <2>3, ReportType
  <2>5. /\ audio'.commands = audio.commands /\ audio'.worker = audio.worker
        /\ audio'.header_seen = audio.header_seen /\ audio'.active = audio.active
        /\ audio'.negotiated = audio.negotiated /\ audio'.session = audio.session
        /\ audio'.sequence = audio.sequence
        /\ audio'.capabilities_sent = audio.capabilities_sent
        /\ audio'.server_av_sync = audio.server_av_sync
    BY <1>1, <2>4 DEF AudioState
  <2>6. Agrees(audio', s)
    BY <1>6, <2>5 DEF Agrees
  <2>7. alive /\ NoReport(u) => p.ms = Posted(pipeline)
    <3>1. alive => LastIs(ui, Posted(pipeline))
      BY <1>3 DEF AudioInv, Measured
    <3> QED
      BY <1>1, <1>3, <2>2, <3>1, LastReport
  <2>8. Reported(audio', u)
    BY <2>4, <2>5, <2>7 DEF Reported
  <2>9. Expects(audio', u, s)
    BY <2>2, <2>5 DEF Expects
  <2> QED
    BY <1>1, <2>4, <2>5, <2>6, <2>8, <2>9 DEF Sound
<1>12. CASE AudioWorkerFailed
  <2>1. audio' = Disable(audio)
    BY <1>12 DEF AudioWorkerFailed
  <2>2. Off(Disable(audio))
    BY <1>1, <1>6, Disabled DEF Agrees
  <2>3. Sound(audio', u, s) /\ ~audio'.header_seen
    BY <2>1, <2>2, OffSound
  <2> QED
    BY <2>3 DEF Expects
<1> QED
  BY <1>8, <1>9, <1>10, <1>11, <1>12 DEF UserEvent

\* A client that is dropped leaves its worker silent or about to end (AudioWorker::drop).
LEMMA SessionEndsKeeps ==
    ASSUME TypeOK, AudioInv, SessionEnds
    PROVE  TypeOK' /\ AudioInv'
<1>1. /\ audio \in AudioState /\ Len(audio.commands) <= Capacity /\ Capacity \in Nat
      /\ alive => InPlace(audio.commands, pipeline)
  BY AudioAssumption DEF TypeOK, AudioState, AudioInv, Agrees
<1>2. PICK c \in Seq(Commands) :
         /\ Len(c) <= Capacity
         /\ alive => InPlace(c, pipeline)
         /\ DropWorker(audio) = [audio EXCEPT !.worker = FALSE, !.commands = c]
  BY <1>1, WorkerDropped
<1>3. /\ ui' = <<>> /\ thread' = thread /\ pipeline' = pipeline
      /\ latency' = latency /\ server' = server
      /\ audio' = [DropWorker(audio) EXCEPT !.session = FALSE, !.negotiated = FALSE,
                                            !.active = FALSE, !.header_seen = FALSE]
  BY DEF SessionEnds
<1>4. audio' \in AudioState
  BY <1>1, <1>2, <1>3 DEF AudioState
<1>5. /\ audio'.commands = c /\ ~audio'.worker /\ ~audio'.negotiated
      /\ ~audio'.header_seen /\ ~audio'.session
  BY <1>1, <1>2, <1>3 DEF AudioState
<1>6. <<>> \in Seq(Packets) /\ 1..Len(<<>>) = {}
  BY EmptySeq
<1>7. TypeOK'
  BY <1>2, <1>3, <1>4, <1>5, <1>6 DEF TypeOK, AudioState
<1>8. alive' = alive
  BY <1>3 DEF alive
<1>9. InOrder(ui)'
  BY <1>3, <1>6 DEF InOrder
<1>10. Measured' /\ Reported(audio, ui)'
  BY <1>3, <1>5 DEF AudioInv, Measured, Reported
<1>11. \E s \in Streams : Agrees(audio, s)' /\ Expects(audio, ui, s)'
  BY <1>2, <1>3, <1>5, <1>8 DEF AudioInv, Agrees, Expects
<1> QED
  BY <1>7, <1>9, <1>10, <1>11 DEF AudioInv

-----------------------------------------------------------------------------
(* The audio thread *)

\* What the worker posts comes behind everything else (worker_main).
LEMMA PostKeeps ==
    ASSUME TypeOK, InOrder(ui), NEW x \in Packets, ~IsData(x), Posts(x), server' = server
    PROVE  /\ ui' \in Seq(Packets) /\ InOrder(ui)'
           /\ \A q, s : Follows(ui, q, s) => Follows(ui, q, s)'
<1>1. ui \in Seq(Packets)
  BY DEF TypeOK
<1>2. CASE audio.session
  <2> DEFINE v == Append(ui, x)
  <2>1. ui' = v /\ v \in Seq(Packets)
    BY <1>1, <1>2, AppendOf DEF Posts
  <2>2. InOrder(v) /\ \A q, s : Follows(ui, q, s) => Follows(v, q, s)
    BY <1>1, OtherAppend
  <2> HIDE DEF v
  <2>3. InOrder(ui)'
    BY <2>1, <2>2 DEF InOrder
  <2>4. ASSUME NEW q, NEW s, Follows(v, q, s) PROVE Follows(ui, q, s)'
    BY <2>1, <2>4 DEF Follows
  <2> QED
    BY <2>1, <2>2, <2>3, <2>4
<1>3. CASE ~audio.session
  <2>1. ui' = ui
    BY <1>3 DEF Posts
  <2> QED
    BY <1>1, <2>1 DEF InOrder, Follows
<1> QED
  BY <1>2, <1>3

\* Nothing changes for a queue that is left alone.
LEMMA QueueKeeps ==
    ASSUME TypeOK, InOrder(ui), ui' = ui, server' = server
    PROVE  /\ ui' \in Seq(Packets) /\ InOrder(ui)'
           /\ \A q, s : Follows(ui, q, s) => Follows(ui, q, s)'
BY DEF TypeOK, InOrder, Follows

\* A command that is taken leaves the rest of the client as it was (worker_main).
LEMMA Popped ==
    ASSUME TypeOK, NEW t, Command(t)
    PROVE  /\ audio \in AudioState /\ audio' \in AudioState
           /\ Len(audio'.commands) <= Capacity /\ alive
           /\ audio.commands \in Seq(Commands) /\ audio.commands # <<>>
           /\ audio'.commands = Tail(audio.commands)
           /\ Head(audio.commands) = audio.commands[1]
           /\ audio.commands[1] \in Commands /\ audio.commands[1].type = t
           /\ audio'.worker = audio.worker /\ audio'.negotiated = audio.negotiated
           /\ audio'.header_seen = audio.header_seen /\ audio'.active = audio.active
           /\ audio'.session = audio.session /\ audio'.sequence = audio.sequence
           /\ audio'.capabilities_sent = audio.capabilities_sent
           /\ audio'.server_av_sync = audio.server_av_sync
           /\ audio'.last_ms = audio.last_ms
           /\ server' = server
<1>1. /\ thread = "live" /\ audio.commands # <<>> /\ Head(audio.commands).type = t
      /\ audio' = [audio EXCEPT !.commands = Tail(audio.commands)] /\ server' = server
  BY DEF Command
<1>2. audio \in AudioState /\ audio.commands \in Seq(Commands) /\ Capacity \in Nat
  BY AudioAssumption DEF TypeOK, AudioState
<1>3. /\ Tail(audio.commands) \in Seq(Commands) /\ Head(audio.commands) = audio.commands[1]
      /\ audio.commands[1] \in Commands
  BY <1>1, <1>2, TailOf
<1>4. Len(Tail(audio.commands)) <= Capacity
  <2>1. Len(audio.commands) <= Capacity /\ Len(audio.commands) \in Nat
    BY <1>2 DEF TypeOK
  <2>2. Len(Tail(audio.commands)) = Len(audio.commands) - 1
    BY <1>1, <1>2, TailOf
  <2> QED
    BY <1>2, <2>1, <2>2
<1>5. audio' \in AudioState /\ audio'.commands = Tail(audio.commands)
  BY <1>1, <1>2, <1>3 DEF AudioState
<1>6. /\ audio'.worker = audio.worker /\ audio'.negotiated = audio.negotiated
      /\ audio'.header_seen = audio.header_seen /\ audio'.active = audio.active
      /\ audio'.session = audio.session /\ audio'.sequence = audio.sequence
      /\ audio'.capabilities_sent = audio.capabilities_sent
      /\ audio'.server_av_sync = audio.server_av_sync
      /\ audio'.last_ms = audio.last_ms
  BY <1>1, <1>2 DEF AudioState
<1> QED
  BY <1>1, <1>2, <1>3, <1>4, <1>5, <1>6 DEF alive

\* A command that is handled takes the worker one step towards what was foreseen, and is
\* followed by a report when it changes the pipeline (handle_command).
LEMMA HandlingKeeps ==
    ASSUME TypeOK, AudioInv, NEW t, Command(t), thread' = "idle",
           pipeline' \in Pipelines, latency' \in Latencies,
           Handles(audio.commands[1], pipeline, pipeline'),
           Near(Posted(pipeline'), latency'),
           pipeline'.last_ms = None => latency' = 0,
           pipeline'.sequence = None => pipeline' = NoPipeline,
           \/ /\ pipeline'.last_ms = None /\ PostLatency(0)
           \/ /\ pipeline' = pipeline /\ ui' = ui
              /\ t \notin {"configure", "reset"}
              /\ t = "end" => pipeline.sequence # audio.commands[1].sequence
    PROVE  TypeOK' /\ AudioInv'
<1> DEFINE c == audio.commands
           x == [type |-> "audio-latency", ms |-> 0]
<1>1. /\ audio \in AudioState /\ audio' \in AudioState
      /\ Len(audio'.commands) <= Capacity /\ alive /\ alive'
      /\ c \in Seq(Commands) /\ c # <<>> /\ audio'.commands = Tail(c)
      /\ c[1] \in Commands /\ c[1].type = t
  BY Popped DEF alive
<1>2. /\ audio'.worker = audio.worker /\ audio'.negotiated = audio.negotiated
      /\ audio'.header_seen = audio.header_seen /\ audio'.active = audio.active
      /\ audio'.session = audio.session /\ audio'.sequence = audio.sequence
      /\ audio'.capabilities_sent = audio.capabilities_sent
      /\ audio'.server_av_sync = audio.server_av_sync
      /\ audio'.last_ms = audio.last_ms
      /\ server' = server
  BY Popped
<1>3. InOrder(ui) /\ ui \in Seq(Packets)
  BY DEF AudioInv, TypeOK
<1>4. 0 \in Latencies
  BY AudioAssumption DEF Latencies
<1>5. x \in Packets /\ ~IsData(x) /\ IsReport(x) /\ x.ms = 0
  BY <1>4 DEF Packets, IsData, IsReport
<1>6. PostLatency(0) => Posts(x)
  BY DEF PostLatency
<1>7. /\ ui' \in Seq(Packets) /\ InOrder(ui)'
      /\ \A q, s : Follows(ui, q, s) => Follows(ui, q, s)'
  BY <1>2, <1>3, <1>5, <1>6, PostKeeps, QueueKeeps
<1>8. TypeOK'
  BY <1>1, <1>2, <1>7 DEF TypeOK, AudioState, Pipelines
<1>9. audio.session => LastIs(ui', Posted(pipeline'))
  <2>1. CASE audio.session /\ pipeline'.last_ms = None /\ PostLatency(0)
    <3>1. ui' = Append(ui, x) /\ Posted(pipeline') = 0
      BY <1>6, <2>1 DEF Posts, Posted
    <3> QED
      BY <1>3, <1>5, <3>1, LastReport
  <2>2. CASE audio.session /\ pipeline' = pipeline /\ ui' = ui
    <3>1. LastIs(ui, Posted(pipeline))
      BY <1>1, <2>2 DEF AudioInv, Measured
    <3> QED
      BY <2>2, <3>1
  <2> QED
    BY <2>1, <2>2
<1>10. Measured'
  BY <1>2, <1>9 DEF Measured
<1>11. Reported(audio, ui)'
  <2>1. SUFFICES ASSUME audio.negotiated, audio.server_av_sync
                 PROVE  /\ audio.last_ms # None
                        /\ NoReport(ui') => \/ Near(audio.last_ms, Posted(pipeline'))
                                            \/ WillPost(Tail(c), pipeline')
    BY <1>1, <1>2 DEF Reported
  <2>2. audio.session
    BY <2>1 DEF AudioInv, Agrees
  <2>3. /\ audio.last_ms # None
        /\ NoReport(ui) => \/ Near(audio.last_ms, Posted(pipeline))
                           \/ WillPost(c, pipeline)
    BY <1>1, <2>1 DEF AudioInv, Reported
  <2>4. CASE PostLatency(0)
    <3>1. ui' = Append(ui, x)
      BY <1>6, <2>2, <2>4 DEF Posts
    <3>2. ~NoReport(ui')
      BY <1>3, <1>5, <3>1, LastReport
    <3> QED
      BY <2>3, <3>2
  <2>5. CASE /\ pipeline' = pipeline /\ ui' = ui
             /\ t \notin {"configure", "reset"}
             /\ t = "end" => pipeline.sequence # c[1].sequence
    <3>1. WillPost(c, pipeline) => WillPost(Tail(c), pipeline')
      BY <1>1, <2>5, WillPostTail
    <3> QED
      BY <2>3, <2>5, <3>1
  <2> QED
    BY <2>4, <2>5
<1>12. ASSUME NEW s \in Streams, Agrees(audio, s), Expects(audio, ui, s)
       PROVE  Agrees(audio, s)' /\ Expects(audio, ui, s)'
  <2>1. InPlace(Tail(c), pipeline')
    <3>1. InPlace(c, pipeline)
      BY <1>1, <1>12 DEF Agrees
    <3> QED
      BY <1>1, <3>1, InPlaceTail
  <2>2. ASSUME audio.header_seen
        PROVE  Playing(Tail(c), pipeline', Len(Tail(c)), audio.sequence, s)
    <3>1. Playing(c, pipeline, Len(c), audio.sequence, s)
      BY <1>1, <1>12, <2>2 DEF Agrees
    <3>2. Len(c) \in 1..Len(c) /\ Len(Tail(c)) = Len(c) - 1
      BY <1>1, TailOf
    <3>3. Playing(Tail(c), pipeline', Len(c) - 1, audio.sequence, s)
      BY <1>1, <3>1, <3>2, PlayingTail
    <3> QED
      BY <3>2, <3>3
  <2>3. ASSUME audio.worker, ~audio.header_seen PROVE Silent(Tail(c), pipeline')
    <3>1. Silent(c, pipeline)
      BY <1>1, <1>12, <2>3 DEF Agrees
    <3> QED
      BY <1>1, <3>1, SilentTail
  <2>4. Agrees(audio, s)'
    BY <1>1, <1>2, <1>12, <2>1, <2>2, <2>3 DEF Agrees
  <2>5. Expects(audio, ui, s)'
    BY <1>1, <1>2, <1>7, <1>12 DEF Expects
  <2> QED
    BY <2>4, <2>5
<1>13. \E s \in Streams : Agrees(audio, s)' /\ Expects(audio, ui, s)'
  BY <1>12 DEF AudioInv
<1> QED
  BY <1>7, <1>8, <1>10, <1>11, <1>13 DEF AudioInv

\* What is posted can be queued.
LEMMA PostedPackets ==
    /\ \A ms \in Latencies : LET x == [type |-> "audio-latency", ms |-> ms] IN
        x \in Packets /\ ~IsData(x) /\ IsReport(x) /\ x.ms = ms
    /\ LET x == [type |-> "audio-worker-failed"] IN
        x \in Packets /\ ~IsData(x) /\ ~IsReport(x)
BY DEF Packets, IsData, IsReport

\* A few commands that do not drop the pipeline leave the worker as it is.
LEMMA SilentShort ==
    ASSUME NEW c \in Seq(Commands), NEW pl, Silent(c, pl), Len(c) <= 1,
           Len(c) = 1 => c[1].type \notin {"reset", "end"}
    PROVE  pl = NoPipeline
<1>1. SUFFICES ASSUME NEW i \in 1..Len(c), Drops(c, pl, i) PROVE FALSE
  BY DEF Silent
<1>2. Len(c) \in Nat
  OBVIOUS
<1>3. i = 1 /\ Len(c) = 1
  BY <1>2
<1> QED
  BY <1>1, <1>3 DEF Drops

\* The last command of a queue.
LEMMA LastOne ==
    ASSUME NEW c \in Seq(Commands), c # <<>>, Tail(c) = <<>>
    PROVE  Len(c) <= 1
<1>1. Len(c) \in Nat
  OBVIOUS
<1>2. Len(Tail(c)) = Len(c) - 1
  BY TailOf
<1>3. Len(Tail(c)) = 0
  BY EmptySeq
<1>4. Len(c) - 1 = 0
  BY <1>2, <1>3, Zenon
<1>5. \A n \in Nat : n - 1 = 0 => n <= 1
  OBVIOUS
<1> QED
  BY <1>1, <1>4, <1>5, Zenon

\* A thread that stops leaves a client that will hear of it, or needs it no more (worker_main).
LEMMA StopKeeps ==
    ASSUME TypeOK, AudioInv, thread' \in {"failed", "ended"},
           pipeline' = pipeline, latency' = latency, server' = server,
           audio' \in AudioState, Len(audio'.commands) <= Capacity,
           audio' = [audio EXCEPT !.commands = audio'.commands],
           ui' = ui \/ Posts([type |-> "audio-worker-failed"]),
           audio.worker /\ ~audio.header_seen /\ audio'.commands = <<>> => pipeline = NoPipeline
    PROVE  TypeOK' /\ AudioInv'
<1> DEFINE x == [type |-> "audio-worker-failed"]
<1>1. InOrder(ui) /\ audio \in AudioState
  BY DEF AudioInv, TypeOK, AudioState
<1>2. x \in Packets /\ ~IsData(x)
  BY PostedPackets
<1>3. /\ ui' \in Seq(Packets) /\ InOrder(ui)'
      /\ \A q, s : Follows(ui, q, s) => Follows(ui, q, s)'
  BY <1>1, <1>2, PostKeeps, QueueKeeps
<1>4. /\ audio'.worker = audio.worker /\ audio'.negotiated = audio.negotiated
      /\ audio'.header_seen = audio.header_seen /\ audio'.active = audio.active
      /\ audio'.session = audio.session /\ audio'.sequence = audio.sequence
      /\ audio'.capabilities_sent = audio.capabilities_sent
      /\ audio'.server_av_sync = audio.server_av_sync
      /\ audio'.last_ms = audio.last_ms
  BY <1>1 DEF AudioState
<1>5. ~alive'
  BY DEF alive
<1>6. TypeOK'
  BY <1>3 DEF TypeOK, AudioState
<1>7. Measured'
  BY <1>5 DEF AudioInv, Measured
<1>8. Reported(audio, ui)'
  BY <1>4, <1>5 DEF AudioInv, Reported
<1>9. ASSUME NEW s \in Streams, Agrees(audio, s) PROVE Agrees(audio, s)' /\ Expects(audio, ui, s)'
  BY <1>4, <1>5, <1>9 DEF Agrees, Expects
<1> QED
  BY <1>3, <1>6, <1>7, <1>8, <1>9 DEF AudioInv

\* Whatever the worker does with a command, the two ends go on agreeing (handle_command).
LEMMA CommandKeeps ==
    ASSUME TypeOK, AudioInv,
           \/ HandleReset \/ HandleConfigure \/ ConfigureFails
           \/ HandlePacket \/ DecodeFails \/ HandleEnd \/ HandleShutdown
    PROVE  TypeOK' /\ AudioInv'
<1> DEFINE c == audio.commands
<1>1. /\ 0 \in Latencies /\ Threshold \in Nat \ {0}
      /\ pipeline \in Pipelines /\ latency \in Latencies
  BY AudioAssumption DEF TypeOK, Pipelines, Latencies
<1>2. /\ NoPipeline \in Pipelines /\ NoPipeline.last_ms = None
      /\ NoPipeline.sequence = None /\ Posted(NoPipeline) = 0
  BY AudioAssumption DEF Pipelines, NoPipeline, Streams, Posted
<1>3. Near(0, 0)
  BY <1>1 DEF Near
<1>4. /\ Near(Posted(pipeline), latency)
      /\ pipeline.last_ms = None => latency = 0
      /\ pipeline.sequence = None => pipeline = NoPipeline
  BY DEF AudioInv, Measured
<1>5. \A x \in Commands : x.type \in {"reset", "end", "configure", "packet"} => x.sequence \in Nat
  BY DEF Commands
<1>6. \A x \in Commands : x.type = "configure" => x.stream \in Streams
  BY DEF Commands
<1>7. ASSUME NEW t, Command(t), Silence, thread' = "idle", t \in {"reset", "end"}
      PROVE  TypeOK' /\ AudioInv'
  <2>1. Handles(c[1], pipeline, pipeline')
    BY <1>7, Popped DEF Handles, Silence
  <2>2. pipeline' = NoPipeline /\ latency' = 0 /\ PostLatency(0)
    BY <1>7 DEF Silence
  <2> QED
    BY <1>1, <1>2, <1>3, <1>7, <2>1, <2>2, HandlingKeeps
<1>8. ASSUME NEW t, Command(t), thread' = "idle", UNCHANGED <<ui, pipeline, latency>>,
             \/ t = "packet"
             \/ t = "end" /\ pipeline.sequence # c[1].sequence
      PROVE  TypeOK' /\ AudioInv'
  <2>1. Handles(c[1], pipeline, pipeline')
    BY <1>8, Popped DEF Handles
  <2> QED
    BY <1>1, <1>4, <1>8, <2>1, HandlingKeeps
<1>9. ASSUME NEW t, Command(t), t \notin {"reset", "end"}, thread' \in {"failed", "ended"},
             pipeline' = pipeline, latency' = latency,
             ui' = ui \/ Posts([type |-> "audio-worker-failed"])
      PROVE  TypeOK' /\ AudioInv'
  <2>1. /\ audio' \in AudioState /\ Len(audio'.commands) <= Capacity /\ alive
        /\ c \in Seq(Commands) /\ c # <<>> /\ audio'.commands = Tail(c)
        /\ c[1].type = t /\ server' = server
    BY <1>9, Popped
  <2>2. audio' = [audio EXCEPT !.commands = audio'.commands]
    BY <1>9, <2>1 DEF Command
  <2>3. ASSUME audio.worker, ~audio.header_seen, audio'.commands = <<>>
        PROVE  pipeline = NoPipeline
    <3>1. Tail(c) = <<>>
      BY <2>1, <2>3
    <3>2. Len(c) <= 1
      BY <2>1, <3>1, LastOne
    <3>3. Silent(c, pipeline)
      BY <2>1, <2>3 DEF AudioInv, Agrees
    <3>4. c[1].type \notin {"reset", "end"}
      BY <1>9, <2>1
    <3> QED
      BY <2>1, <3>2, <3>3, <3>4, SilentShort
  <2> QED
    BY <1>9, <2>1, <2>2, <2>3, StopKeeps
<1>10. CASE HandleReset
  BY <1>7, <1>10 DEF HandleReset
<1>11. CASE HandleConfigure
  <2>1. /\ Command("configure") /\ thread' = "idle" /\ PostLatency(0) /\ latency' = 0
        /\ pipeline' = [sequence |-> Head(c).sequence, stream |-> Head(c).stream,
                        last_ms |-> None]
    BY <1>11 DEF HandleConfigure
  <2>2. Head(c) = c[1] /\ c[1] \in Commands /\ c[1].type = "configure"
    BY <2>1, Popped
  <2>3. c[1].sequence \in Nat /\ c[1].stream \in Streams
    BY <1>5, <1>6, <2>2
  <2>4. /\ pipeline' \in Pipelines /\ pipeline'.last_ms = None
        /\ pipeline'.sequence = c[1].sequence /\ pipeline'.stream = c[1].stream
        /\ pipeline'.sequence # None /\ Posted(pipeline') = 0
    BY <2>1, <2>2, <2>3 DEF Pipelines, None, Posted
  <2>5. Handles(c[1], pipeline, pipeline')
    BY <2>2, <2>4 DEF Handles
  <2> QED
    BY <1>1, <1>3, <2>1, <2>4, <2>5, HandlingKeeps
<1>12. CASE ConfigureFails
  BY <1>9, <1>12 DEF ConfigureFails, PostFailure
<1>13. CASE HandlePacket
  BY <1>8, <1>13 DEF HandlePacket
<1>14. CASE DecodeFails
  BY <1>9, <1>14 DEF DecodeFails, PostFailure
<1>15. CASE HandleEnd
  <2>1. Command("end") /\ thread' = "idle"
    BY <1>15 DEF HandleEnd
  <2>2. Head(c) = c[1] /\ c[1] \in Commands /\ c[1].type = "end"
    BY <2>1, Popped
  <2>3. CASE Decodes(c[1])
    BY <1>7, <1>15, <2>1, <2>2, <2>3 DEF HandleEnd
  <2>4. CASE ~Decodes(c[1])
    <3>1. c[1].sequence # None
      BY <1>5, <2>2 DEF None
    <3>2. pipeline.sequence # c[1].sequence
      BY <1>2, <2>4, <3>1 DEF Decodes
    <3> QED
      BY <1>8, <1>15, <2>1, <2>2, <2>4, <3>2 DEF HandleEnd
  <2> QED
    BY <2>3, <2>4
<1>16. CASE HandleShutdown
  BY <1>9, <1>16 DEF HandleShutdown
<1> QED
  BY <1>10, <1>11, <1>12, <1>13, <1>14, <1>15, <1>16

\* A latency that is serviced is posted unless it is near the last (service_output).
LEMMA ServiceOutputKeeps ==
    ASSUME TypeOK, AudioInv, NEW ms \in Latencies, ServiceOutput(ms)
    PROVE  TypeOK' /\ AudioInv'
<1> DEFINE x == [type |-> "audio-latency", ms |-> ms]
<1>1. /\ thread = "live" /\ thread' = "idle" /\ pipeline # NoPipeline
      /\ latency' = ms /\ audio' = audio /\ server' = server
  BY DEF ServiceOutput
<1>2. alive /\ alive'
  BY <1>1 DEF alive
<1>3. /\ Threshold \in Nat \ {0} /\ ms \in Int /\ ms # None
      /\ pipeline \in Pipelines /\ pipeline.last_ms \in Int
      /\ InOrder(ui) /\ ui \in Seq(Packets)
  BY AudioAssumption DEF TypeOK, Pipelines, Latencies, None, AudioInv
<1>4. x \in Packets /\ ~IsData(x) /\ IsReport(x) /\ x.ms = ms
  BY PostedPackets
<1>5. CASE Far(pipeline.last_ms, ms)
  <2>1. Posts(x) /\ pipeline' = [pipeline EXCEPT !.last_ms = ms]
    BY <1>5 DEF ServiceOutput, PostLatency
  <2>2. /\ pipeline' \in Pipelines /\ pipeline'.last_ms = ms
        /\ pipeline'.sequence = pipeline.sequence /\ pipeline'.stream = pipeline.stream
    BY <1>3, <2>1 DEF Pipelines
  <2>3. Posted(pipeline') = ms
    BY <1>3, <2>2 DEF Posted
  <2>4. /\ ui' \in Seq(Packets) /\ InOrder(ui)'
        /\ \A q, s : Follows(ui, q, s) => Follows(ui, q, s)'
    BY <1>1, <1>3, <1>4, <2>1, PostKeeps
  <2>5. TypeOK'
    BY <1>1, <2>2, <2>4 DEF TypeOK, Pipelines
  <2>6. Measured'
    <3>1. Near(ms, ms)
      BY <1>3 DEF Near
    <3>2. audio.session => LastIs(ui', ms)
      BY <1>3, <1>4, <2>1, LastReport DEF Posts
    <3>3. pipeline.sequence # None
      BY <1>1 DEF AudioInv, Measured
    <3> QED
      BY <1>1, <1>3, <2>2, <2>3, <3>1, <3>2, <3>3 DEF Measured
  <2>7. Reported(audio, ui)'
    <3>1. ASSUME audio.negotiated PROVE ~NoReport(ui')
      <4>1. audio.session
        BY <3>1 DEF AudioInv, Agrees
      <4>2. ui' = Append(ui, x)
        BY <2>1, <4>1 DEF Posts
      <4> QED
        BY <1>3, <1>4, <4>2, LastReport
    <3>2. audio.negotiated /\ audio.server_av_sync => audio.last_ms # None
      BY DEF AudioInv, Reported
    <3> QED
      BY <1>1, <3>1, <3>2 DEF Reported
  <2>8. ASSUME NEW s \in Streams, Agrees(audio, s), Expects(audio, ui, s)
        PROVE  Agrees(audio, s)' /\ Expects(audio, ui, s)'
    <3>1. /\ \A c, n, q, t : Playing(c, pipeline, n, q, t) => Playing(c, pipeline', n, q, t)
          /\ \A c : InPlace(c, pipeline) => InPlace(c, pipeline')
          /\ \A c : Silent(c, pipeline) => Silent(c, pipeline')
      BY <1>1, <2>2, SamePipeline
    <3>2. Agrees(audio, s)'
      BY <1>1, <1>2, <2>8, <3>1 DEF Agrees
    <3>3. Expects(audio, ui, s)'
      BY <1>1, <1>2, <2>4, <2>8 DEF Expects
    <3> QED
      BY <3>2, <3>3
  <2> QED
    BY <2>4, <2>5, <2>6, <2>7, <2>8 DEF AudioInv
<1>6. CASE ~Far(pipeline.last_ms, ms)
  <2>1. ui' = ui /\ pipeline' = pipeline
    BY <1>6 DEF ServiceOutput
  <2>2. /\ ui' \in Seq(Packets) /\ InOrder(ui)'
        /\ \A q, s : Follows(ui, q, s) => Follows(ui, q, s)'
    BY <1>1, <1>3, <2>1, QueueKeeps
  <2>3. TypeOK'
    BY <1>1, <2>1 DEF TypeOK
  <2>4. Measured'
    <3>1. pipeline.last_ms # None /\ Near(pipeline.last_ms, ms)
      BY <1>3, <1>6 DEF Far, Near
    <3>2. Posted(pipeline) = pipeline.last_ms
      BY <3>1 DEF Posted
    <3> QED
      BY <1>1, <1>2, <2>1, <3>1, <3>2 DEF AudioInv, Measured
  <2>5. Reported(audio, ui)'
    BY <1>1, <1>2, <2>1 DEF AudioInv, Reported
  <2>6. \E s \in Streams : Agrees(audio, s)' /\ Expects(audio, ui, s)'
    BY <1>1, <1>2, <2>1, <2>2 DEF AudioInv, Agrees, Expects
  <2> QED
    BY <2>2, <2>3, <2>4, <2>5, <2>6 DEF AudioInv
<1> QED
  BY <1>5, <1>6

\* The thread's own steps leave what was foreseen as it is (worker_main).
LEMMA WorkerKeeps ==
    ASSUME TypeOK, AudioInv, Worker
    PROVE  TypeOK' /\ AudioInv'
<1>1. /\ audio \in AudioState /\ Len(audio.commands) <= Capacity
      /\ audio = [audio EXCEPT !.commands = audio.commands]
  BY DEF TypeOK, AudioState
<1>2. CASE CheckRunning
  <2>1. /\ thread = "idle" /\ audio' = audio /\ ui' = ui /\ pipeline' = pipeline
        /\ latency' = latency /\ server' = server
    BY <1>2 DEF CheckRunning
  <2>2. CASE audio.worker
    <3>1. thread' = "live" /\ alive /\ alive'
      BY <1>2, <2>1, <2>2 DEF CheckRunning, alive
    <3>2. TypeOK'
      BY <2>1, <3>1 DEF TypeOK
    <3>3. InOrder(ui)' /\ \A q, s : Follows(ui, q, s) => Follows(ui, q, s)'
      BY <2>1, QueueKeeps DEF AudioInv
    <3>4. Measured' /\ Reported(audio, ui)'
      BY <2>1, <3>1 DEF AudioInv, Measured, Reported
    <3>5. \E s \in Streams : Agrees(audio, s)' /\ Expects(audio, ui, s)'
      BY <2>1, <3>1, <3>3 DEF AudioInv, Agrees, Expects
    <3> QED
      BY <3>2, <3>3, <3>4, <3>5 DEF AudioInv
  <2>3. CASE ~audio.worker
    <3>1. thread' = "ended"
      BY <1>2, <2>3 DEF CheckRunning
    <3> QED
      BY <1>1, <2>1, <2>3, <3>1, StopKeeps
  <2> QED
    BY <2>2, <2>3
<1>3. CASE ServiceFails
  <2>1. /\ thread = "live" /\ pipeline # NoPipeline /\ thread' = "failed"
        /\ Posts([type |-> "audio-worker-failed"])
        /\ audio' = audio /\ pipeline' = pipeline /\ latency' = latency /\ server' = server
    BY <1>3 DEF ServiceFails, PostFailure
  <2>2. ASSUME audio.worker, ~audio.header_seen, audio.commands = <<>> PROVE FALSE
    <3>1. Silent(audio.commands, pipeline)
      BY <2>1, <2>2 DEF AudioInv, Agrees, alive
    <3>2. Len(audio.commands) = 0 /\ audio.commands \in Seq(Commands)
      BY <1>1, <2>2, EmptySeq DEF AudioState
    <3> QED
      BY <2>1, <3>1, <3>2, SilentShort
  <2> QED
    BY <1>1, <2>1, <2>2, StopKeeps
<1>4. CASE WorkerEnds
  <2>1. /\ thread' = "ended" /\ audio' = audio /\ ui' = ui /\ pipeline' = pipeline
        /\ latency' = latency /\ server' = server
        /\ thread = "failed" \/ ~audio.worker
    BY <1>4 DEF WorkerEnds
  <2>2. audio.worker /\ ~audio.header_seen /\ audio.commands = <<>> => pipeline = NoPipeline
    BY <2>1 DEF AudioInv, Agrees, alive
  <2> QED
    BY <1>1, <2>1, <2>2, StopKeeps
<1> QED
  BY <1>2, <1>3, <1>4, CommandKeeps, ServiceOutputKeeps DEF Worker

-----------------------------------------------------------------------------
(* The server *)

\* What the server sends that is not audio data changes nothing for the streams.
LEMMA OtherSent ==
    ASSUME TypeOK, AudioInv, NEW x \in Packets, ~IsData(x), ~IsReport(x), ServerSends(x),
           server'.stream = server.stream, server'.sequence = server.sequence,
           server' \in [greeted : BOOLEAN, stream : Streams, sequence : Nat \cup {None}]
    PROVE  TypeOK' /\ AudioInv'
<1>1. /\ audio.session /\ ui' = Append(ui, x) /\ ui \in Seq(Packets)
      /\ audio' = audio /\ thread' = thread /\ pipeline' = pipeline /\ latency' = latency
  BY DEF ServerSends, Posts, TypeOK
<1>2. alive' = alive
  BY <1>1 DEF alive
<1>3. ui' \in Seq(Packets)
  BY <1>1, AppendOf
<1>4. TypeOK'
  BY <1>1, <1>3 DEF TypeOK
<1>5. InOrder(ui') /\ \A q, s : Follows(ui, q, s) => Follows(ui', q, s)
  BY <1>1, OtherAppend DEF AudioInv
<1>6. InOrder(ui)'
  BY <1>5 DEF InOrder
<1>7. ASSUME NEW q, NEW s, Follows(ui', q, s) PROVE Follows(ui, q, s)'
  BY <1>7 DEF Follows
<1>8. /\ alive => LastIs(ui', Posted(pipeline))
      /\ NoReport(ui') => NoReport(ui)
  <2>1. alive => LastIs(ui, Posted(pipeline))
    BY <1>1 DEF AudioInv, Measured
  <2> QED
    BY <1>1, <2>1, LastReport
<1>9. Measured' /\ Reported(audio, ui)'
  BY <1>1, <1>2, <1>8 DEF AudioInv, Measured, Reported
<1>10. \E s \in Streams : Agrees(audio, s)' /\ Expects(audio, ui, s)'
  BY <1>1, <1>2, <1>5, <1>7 DEF AudioInv, Agrees, Expects
<1> QED
  BY <1>4, <1>6, <1>9, <1>10 DEF AudioInv

\* A packet of audio is of the stream before it, or starts the next.
LEMMA DataSent ==
    ASSUME TypeOK, AudioInv, NEW shape \in Shapes, NEW n \in None..MaxSeq, ServerData(shape, n)
    PROVE  TypeOK' /\ AudioInv'
<1> DEFINE x == [type |-> "audio-data", stream |-> server'.stream,
                 sequence |-> n, shape |-> shape]
           v == Append(ui, x)
<1>1. /\ audio.session /\ ui' = v /\ ui \in Seq(Packets)
      /\ audio' = audio /\ thread' = thread /\ pipeline' = pipeline /\ latency' = latency
  BY DEF ServerData, ServerSends, Posts, TypeOK
<1>2. alive' = alive
  BY <1>1 DEF alive
<1>3. n \in Nat \cup {None} /\ n \in Int /\ server.stream \in Nat
  BY AudioAssumption DEF None, TypeOK, Streams
<1>4. \/ /\ shape.sos /\ server'.stream = server.stream + 1 /\ server'.sequence = n
         /\ server' \in [greeted : BOOLEAN, stream : Streams, sequence : Nat \cup {None}]
      \/ ~shape.sos /\ n = server.sequence /\ server' = server
  <2>1. CASE shape.sos
    <3>1. server.stream + 1 \in Streams
      BY <1>3, <2>1, AudioAssumption DEF ServerData, Streams
    <3>2. server' = [server EXCEPT !.stream = server.stream + 1, !.sequence = n]
      BY <2>1 DEF ServerData
    <3> QED
      BY <1>3, <2>1, <3>1, <3>2 DEF TypeOK
  <2>2. CASE ~shape.sos
    BY <2>2 DEF ServerData
  <2> QED
    BY <2>1, <2>2
<1>5. server' \in [greeted : BOOLEAN, stream : Streams, sequence : Nat \cup {None}]
  BY <1>4 DEF TypeOK
<1>6. /\ x \in Packets /\ IsData(x) /\ ~IsReport(x) /\ x.shape = shape
      /\ x.stream = server'.stream /\ x.sequence = n /\ n = server'.sequence
  BY <1>3, <1>4, <1>5 DEF Packets, IsData, IsReport
<1> HIDE DEF x
<1>7. Len(ui) \in Nat /\ Len(v) = Len(ui) + 1 /\ v[Len(ui) + 1] = x /\ v \in Seq(Packets)
  BY <1>1, <1>6, AppendOf
<1>8. \A k \in 1..Len(ui) : v[k] = ui[k] /\ k \in 1..Len(v)
  BY <1>1, <1>6, <1>7, AppendOf
<1>9. \A k \in 1..Len(v) : k \in 1..Len(ui) \/ k = Len(ui) + 1
  BY <1>7
<1> HIDE DEF v
<1>10. TypeOK'
  BY <1>1, <1>5, <1>7 DEF TypeOK
<1>11. InOrder(ui)
  BY DEF AudioInv
<1>12. ASSUME NEW i \in 1..Len(ui), IsData(v[i])
       PROVE  /\ v[i] = ui[i] /\ IsData(ui[i]) /\ ui[i].stream \in Nat
              /\ ui[i].stream <= server.stream
              /\ ui[i].stream = server.stream => ui[i].sequence = server.sequence
  <2>1. v[i] = ui[i] /\ ui[i] \in Packets
    BY <1>1, <1>8
  <2>2. ui[i].stream \in Nat
    BY <1>12, <2>1 DEF Packets, IsData, Streams
  <2> QED
    BY <1>11, <1>12, <2>1, <2>2 DEF InOrder
<1>13. ASSUME NEW i \in 1..Len(ui), IsData(v[i]), v[i].stream # x.stream
       PROVE  \E k \in (i + 1)..Len(v) : Starts(v[k], x.stream)
  <2>1. CASE shape.sos
    <3>1. Starts(x, x.stream)
      BY <1>6, <2>1 DEF Starts
    <3>2. Len(ui) + 1 \in (i + 1)..Len(v)
      BY <1>7
    <3> QED
      BY <1>7, <3>1, <3>2
  <2>2. CASE ~shape.sos
    <3>1. x.stream = server.stream
      BY <1>4, <1>6, <2>2
    <3>2. PICK k \in (i + 1)..Len(ui) : Starts(ui[k], server.stream)
      BY <1>11, <1>12, <1>13, <3>1 DEF InOrder
    <3>3. k \in 1..Len(ui) /\ k \in (i + 1)..Len(v)
      BY <1>7
    <3> QED
      BY <1>8, <3>1, <3>2, <3>3
  <2> QED
    BY <2>1, <2>2
<1>14. ASSUME NEW i \in 1..Len(v), IsData(v[i])
       PROVE  /\ v[i].stream <= x.stream
              /\ v[i].stream = x.stream => v[i].sequence = x.sequence
  <2>1. CASE i = Len(ui) + 1
    <3>1. v[i] = x /\ x.stream \in Nat
      BY <1>5, <1>6, <1>7, <2>1 DEF Streams
    <3> QED
      BY <3>1
  <2>2. CASE i \in 1..Len(ui)
    <3>1. /\ v[i] = ui[i] /\ ui[i].stream \in Nat /\ ui[i].stream <= server.stream
          /\ ui[i].stream = server.stream => ui[i].sequence = server.sequence
      BY <1>12, <1>14, <2>2
    <3>2. x.stream = server.stream + 1 \/ (x.stream = server.stream /\ x.sequence = server.sequence)
      BY <1>4, <1>6
    <3>3. CASE x.stream = server.stream + 1
      BY <1>3, <3>1, <3>3
    <3>4. CASE x.stream = server.stream /\ x.sequence = server.sequence
      BY <1>3, <3>1, <3>4
    <3> QED
      BY <3>2, <3>3, <3>4
  <2> QED
    BY <1>9, <2>1, <2>2
<1>15. InOrder(ui)'
  <2>1. ASSUME NEW i \in 1..Len(v), NEW j \in 1..Len(v), i < j, IsData(v[i]), IsData(v[j]),
               v[i].stream # v[j].stream
        PROVE  \E k \in (i + 1)..j : Starts(v[k], v[j].stream)
    <3>1. i \in 1..Len(ui)
      BY <1>7, <2>1
    <3>2. CASE j \in 1..Len(ui)
      <4>1. PICK k \in (i + 1)..j : Starts(ui[k], ui[j].stream)
        BY <1>11, <1>12, <2>1, <3>1, <3>2 DEF InOrder
      <4>2. k \in 1..Len(ui)
        BY <1>7, <3>2
      <4> QED
        BY <1>8, <3>2, <4>1, <4>2
    <3>3. CASE j = Len(ui) + 1
      BY <1>7, <1>13, <2>1, <3>1, <3>3
    <3> QED
      BY <1>9, <3>2, <3>3
  <2>2. ASSUME NEW i \in 1..Len(v), IsData(v[i]), v[i].stream # x.stream
        PROVE  \E k \in (i + 1)..Len(v) : Starts(v[k], x.stream)
    <3>1. i \in 1..Len(ui)
      BY <1>7, <1>9, <2>2
    <3> QED
      BY <1>13, <2>2, <3>1
  <2>3. ASSUME NEW i \in 1..Len(v), NEW j \in 1..Len(v), IsData(v[i]), IsData(v[j]),
               v[i].stream = v[j].stream
        PROVE  v[i].sequence = v[j].sequence
    <3>1. CASE i \in 1..Len(ui) /\ j \in 1..Len(ui)
      BY <1>11, <1>12, <2>3, <3>1 DEF InOrder
    <3>2. CASE i = Len(ui) + 1 \/ j = Len(ui) + 1
      BY <1>7, <1>14, <2>3, <3>2
    <3> QED
      BY <1>9, <3>1, <3>2
  <2> QED
    BY <1>1, <1>6, <1>14, <2>1, <2>2, <2>3 DEF InOrder
<1>16. ASSUME NEW q, NEW s, Follows(ui, q, s) PROVE Follows(ui, q, s)'
  <2>1. ASSUME x.stream # s, Fresh(q, x.sequence)
        PROVE  \E k \in 1..Len(v) : Starts(v[k], x.stream)
    <3>1. CASE shape.sos
      <4>1. Starts(x, x.stream) /\ Len(ui) + 1 \in 1..Len(v)
        BY <1>6, <1>7, <3>1 DEF Starts
      <4> QED
        BY <1>7, <4>1
    <3>2. CASE ~shape.sos
      <4>1. x.stream = server.stream /\ x.sequence = server.sequence
        BY <1>4, <1>6, <3>2
      <4>2. PICK k \in 1..Len(ui) : Starts(ui[k], server.stream)
        BY <1>16, <2>1, <4>1 DEF Follows
      <4> QED
        BY <1>8, <4>1, <4>2
    <3> QED
      BY <3>1, <3>2
  <2>2. ASSUME NEW i \in 1..Len(v), IsData(v[i]), v[i].stream # s, Fresh(q, v[i].sequence)
        PROVE  \E k \in 1..i : Starts(v[k], v[i].stream)
    <3>1. CASE i \in 1..Len(ui)
      <4>1. PICK k \in 1..i : Starts(ui[k], ui[i].stream)
        BY <1>12, <1>16, <2>2, <3>1 DEF Follows
      <4>2. k \in 1..Len(ui)
        BY <1>7, <3>1
      <4> QED
        BY <1>8, <3>1, <4>1, <4>2
    <3>2. CASE i = Len(ui) + 1
      <4>1. i = Len(v) /\ v[i] = x
        BY <1>7, <3>2
      <4> QED
        BY <2>1, <2>2, <4>1
    <3> QED
      BY <1>9, <3>1, <3>2
  <2> QED
    BY <1>1, <1>6, <2>1, <2>2 DEF Follows
<1>17. /\ alive => LastIs(ui', Posted(pipeline))
       /\ NoReport(ui') => NoReport(ui)
  <2>1. alive => LastIs(ui, Posted(pipeline))
    BY <1>1 DEF AudioInv, Measured
  <2>2. ui' = Append(ui, x)
    BY <1>1 DEF v
  <2> QED
    BY <1>1, <1>6, <2>1, <2>2, LastReport
<1>18. Measured' /\ Reported(audio, ui)'
  BY <1>1, <1>2, <1>17 DEF AudioInv, Measured, Reported
<1>19. \E s \in Streams : Agrees(audio, s)' /\ Expects(audio, ui, s)'
  BY <1>1, <1>2, <1>16 DEF AudioInv, Agrees, Expects
<1> QED
  BY <1>10, <1>15, <1>18, <1>19 DEF AudioInv

\* Whatever the server sends.
LEMMA ServerKeeps ==
    ASSUME TypeOK, AudioInv, Server
    PROVE  TypeOK' /\ AudioInv'
<1>1. ASSUME NEW async \in BOOLEAN, NEW av_sync \in BOOLEAN, ServerHello(async, av_sync)
      PROVE  TypeOK' /\ AudioInv'
  <2> DEFINE x == [type |-> "hello", async |-> async, av_sync |-> av_sync]
  <2>1. x \in Packets /\ ~IsData(x) /\ ~IsReport(x)
    BY DEF Packets, IsData, IsReport
  <2>2. server' = [server EXCEPT !.greeted = TRUE] /\ ServerSends(x)
    BY <1>1 DEF ServerHello
  <2>3. /\ server'.stream = server.stream /\ server'.sequence = server.sequence
        /\ server' \in [greeted : BOOLEAN, stream : Streams, sequence : Nat \cup {None}]
    BY <2>2 DEF TypeOK
  <2> QED
    BY <2>1, <2>2, <2>3, OtherSent
<1>2. ASSUME NEW opus \in BOOLEAN, ServerCapabilities(opus)
      PROVE  TypeOK' /\ AudioInv'
  <2> DEFINE x == [type |-> "audio-capabilities", opus |-> opus]
  <2>1. x \in Packets /\ ~IsData(x) /\ ~IsReport(x)
    BY DEF Packets, IsData, IsReport
  <2>2. server' = server /\ ServerSends(x)
    BY <1>2 DEF ServerCapabilities
  <2>3. server' \in [greeted : BOOLEAN, stream : Streams, sequence : Nat \cup {None}]
    BY <2>2 DEF TypeOK
  <2> QED
    BY <2>1, <2>2, <2>3, OtherSent
<1> QED
  BY <1>1, <1>2, DataSent DEF Server

-----------------------------------------------------------------------------
(* The theorems *)

\* The two ends agree on what the worker will play, and the server was told its latency or is
\* about to be.
THEOREM AgreementCorrect == Spec => [](TypeOK /\ AudioInv)
<1>1. Init => TypeOK /\ AudioInv
  <2> SUFFICES ASSUME Init PROVE TypeOK /\ AudioInv
    OBVIOUS
  <2>1. /\ 0 \in Streams /\ 0 \in Latencies /\ Threshold \in Nat \ {0} /\ Capacity \in Nat
    BY AudioAssumption DEF Streams, Latencies
  <2>2. /\ <<>> \in Seq(Packets) /\ <<>> \in Seq(Commands)
        /\ Len(<<>>) = 0 /\ 1..Len(<<>>) = {}
    BY EmptySeq
  <2>3. /\ ui = <<>> /\ pipeline = NoPipeline /\ latency = 0
        /\ server = [greeted |-> FALSE, stream |-> 0, sequence |-> None]
        /\ \E ok \in BOOLEAN :
            /\ audio = [worker |-> ok, capabilities_sent |-> FALSE, negotiated |-> FALSE,
                        active |-> FALSE, sequence |-> 0, header_seen |-> FALSE,
                        server_av_sync |-> FALSE, last_ms |-> None, commands |-> <<>>,
                        told |-> "none", session |-> TRUE]
            /\ thread = IF ok THEN "idle" ELSE "ended"
    BY DEF Init
  <2>4. audio \in AudioState /\ thread \in {"idle", "live", "failed", "ended"}
    BY <2>2, <2>3 DEF AudioState
  <2>5. /\ ~audio.negotiated /\ ~audio.header_seen /\ audio.commands = <<>>
    BY <2>3
  <2>6. TypeOK
    <3>1. Len(audio.commands) <= Capacity
      <4>1. Len(audio.commands) = 0
        BY <2>2, <2>5
      <4> QED
        BY <2>1, <4>1
    <3>2. ui \in Seq(Packets)
      BY <2>2, <2>3
    <3>3. /\ pipeline \in [sequence : Nat \cup {None}, stream : Streams,
                           last_ms : Latencies \cup {None}]
          /\ server \in [greeted : BOOLEAN, stream : Streams, sequence : Nat \cup {None}]
      BY <2>1, <2>3 DEF NoPipeline
    <3> QED
      BY <2>1, <2>3, <2>4, <3>1, <3>2, <3>3 DEF TypeOK, AudioState
  <2>7. InOrder(ui)
    BY <2>2, <2>3 DEF InOrder
  <2>8. Measured
    <3>1. Posted(pipeline) = 0 /\ LastIs(ui, 0)
      BY <2>2, <2>3 DEF Posted, NoPipeline, LastIs
    <3>2. Near(0, 0)
      BY <2>1 DEF Near
    <3> QED
      BY <2>3, <3>1, <3>2 DEF Measured
  <2>9. Reported(audio, ui)
    BY <2>5 DEF Reported
  <2>10. Agrees(audio, 0) /\ Expects(audio, ui, 0)
    <3>1. InPlace(<<>>, pipeline) /\ Silent(<<>>, pipeline)
      BY <2>2, <2>3 DEF InPlace, Silent
    <3> QED
      BY <2>3, <2>5, <3>1 DEF Agrees, Expects
  <2> QED
    BY <2>1, <2>6, <2>7, <2>8, <2>9, <2>10 DEF AudioInv
<1>2. TypeOK /\ AudioInv /\ [Next]_vars => TypeOK' /\ AudioInv'
  <2> SUFFICES ASSUME TypeOK, AudioInv, [Next]_vars PROVE TypeOK' /\ AudioInv'
    OBVIOUS
  <2>1. CASE Next
    BY <2>1, UserEventKeeps, SessionEndsKeeps, WorkerKeeps, ServerKeeps DEF Next
  <2>2. CASE UNCHANGED vars
    <3>1. /\ audio' = audio /\ ui' = ui /\ thread' = thread /\ pipeline' = pipeline
          /\ latency' = latency /\ server' = server
      BY <2>2 DEF vars
    <3>2. alive' = alive
      BY <3>1 DEF alive
    <3>3. TypeOK'
      BY <3>1 DEF TypeOK
    <3>4. InOrder(ui)' /\ \A q, s : Follows(ui, q, s) => Follows(ui, q, s)'
      BY <3>1, QueueKeeps DEF AudioInv
    <3>5. Measured' /\ Reported(audio, ui)'
      BY <3>1, <3>2 DEF AudioInv, Measured, Reported
    <3>6. \E s \in Streams : Agrees(audio, s)' /\ Expects(audio, ui, s)'
      BY <3>1, <3>2, <3>4 DEF AudioInv, Agrees, Expects
    <3> QED
      BY <3>3, <3>4, <3>5, <3>6 DEF AudioInv
  <2> QED
    BY <2>1, <2>2
<1> QED
  BY <1>1, <1>2, PTL DEF Spec

\* The state of both ends is type correct, the command queue never holds more than its capacity,
\* and the sequence never turns negative, whatever sequences the server sends.
THEOREM TypeCorrect == Spec => []TypeOK
BY AgreementCorrect, PTL

\* No packet is decoded by the pipeline of another stream (process_audio_data, handle_command).
THEOREM NeverMixedCorrect == Spec => []NeverMixed
<1>1. AudioInv /\ TypeOK => NeverMixed
  <2> DEFINE c == audio.commands
  <2> SUFFICES ASSUME AudioInv, TypeOK, thread = "live", c # <<>>, Head(c).type = "packet",
                      Decodes(Head(c))
               PROVE  Head(c).stream = pipeline.stream
    BY DEF NeverMixed
  <2>1. c \in Seq(Commands)
    BY DEF TypeOK
  <2>2. Head(c) = c[1] /\ 1 \in 1..Len(c) /\ 1 - 1 = 0
    BY <2>1, TailOf
  <2>3. InPlace(c, pipeline)
    BY DEF AudioInv, Agrees, alive
  <2>4. Playing(c, pipeline, 0, c[1].sequence, c[1].stream)
    BY <2>2, <2>3 DEF InPlace
  <2> QED
    BY <2>2, <2>4, PlayingNow
<1> QED
  BY <1>1, AgreementCorrect, PTL

\* Nothing is left to play once a stream is over and the worker has caught up
\* (process_audio_data, stop_audio_stream).
THEOREM SilentWhenOverCorrect == Spec => []SilentWhenOver
<1>1. AudioInv /\ TypeOK => SilentWhenOver
  <2> SUFFICES ASSUME AudioInv, TypeOK, audio.worker, ~audio.active, audio.commands = <<>>
               PROVE  pipeline = NoPipeline
    BY DEF SilentWhenOver
  <2>1. PICK s \in Streams : Agrees(audio, s)
    BY DEF AudioInv
  <2>2. ~audio.header_seen
    BY <2>1 DEF Agrees
  <2>3. CASE alive
    <3>1. Silent(<<>>, pipeline)
      BY <2>1, <2>2, <2>3 DEF Agrees
    <3>2. 1..Len(<<>>) = {}
      OBVIOUS
    <3> QED
      BY <3>1, <3>2 DEF Silent
  <2>4. CASE ~alive
    BY <2>1, <2>2, <2>4 DEF Agrees
  <2> QED
    BY <2>3, <2>4
<1> QED
  BY <1>1, AgreementCorrect, PTL

\* The latency the server was told is near the one last measured (report_audio_latency,
\* LatencyReporter).
THEOREM SyncCloseCorrect == Spec => []SyncClose
<1>1. AudioInv /\ TypeOK => SyncClose
  <2> DEFINE error == IF audio.last_ms > latency THEN audio.last_ms - latency
                                                 ELSE latency - audio.last_ms
  <2> SUFFICES ASSUME AudioInv, TypeOK, audio.negotiated, audio.server_av_sync,
                      audio.commands = <<>>, alive, NoReport(ui)
               PROVE  /\ error < 2 * Threshold - 1
                      /\ pipeline = NoPipeline => error < Threshold
    BY DEF SyncClose, alive, NoReport, IsReport
  <2>1. /\ audio.last_ms \in Int /\ latency \in Int /\ Threshold \in Nat \ {0}
        /\ Posted(pipeline) \in Int
    BY AudioAssumption DEF TypeOK, Latencies, None, Posted
  <2>2. 1..Len(<<>>) = {}
    OBVIOUS
  <2>3. ~WillPost(<<>>, pipeline)
    BY <2>2 DEF WillPost
  <2>4. Near(audio.last_ms, Posted(pipeline))
    BY <2>3 DEF AudioInv, Reported
  <2>5. Near(Posted(pipeline), latency)
    BY DEF AudioInv, Measured
  <2>6. error < 2 * Threshold - 1
    BY <2>1, <2>4, <2>5 DEF Near
  <2>7. ASSUME pipeline = NoPipeline PROVE error < Threshold
    <3>1. pipeline.last_ms = None
      BY <2>7 DEF NoPipeline
    <3>2. Posted(pipeline) = 0 /\ latency = 0
      BY <3>1 DEF Posted, AudioInv, Measured
    <3> QED
      BY <2>1, <2>4, <3>2 DEF Near
  <2> QED
    BY <2>6, <2>7
<1> QED
  BY <1>1, AgreementCorrect, PTL

-----------------------------------------------------------------------------
(* Playout: induction over the chunks of the queue *)

\* A set of numbers has a least one: what induction over the chunks of the queue rests on.
LEMMA LeastNumber ==
    ASSUME NEW T, T \subseteq Nat, T # {}
    PROVE  \E x \in T : \A y \in T : x <= y
<1>1. IsWellFoundedOn(OpToRel(<, Nat), Nat)
  BY NatLessThanWellFounded
<1>2. PICK x \in T : \A y \in T : ~ (<<y, x>> \in OpToRel(<, Nat))
  BY <1>1, WFMin
<1>3. x \in Nat /\ \A y \in T : y \in Nat
  OBVIOUS
<1>4. \A y \in T : ~(y < x)
  BY <1>2, <1>3 DEF OpToRel
<1>5. \A y \in T : x <= y
  BY <1>3, <1>4
<1>6. QED
  BY <1>5

\* Induction, for a set of numbers.
LEMMA NumberInduction ==
    ASSUME NEW S, 0 \in S, \A n \in S \cap Nat : n + 1 \in S
    PROVE  \A n \in Nat : n \in S
<1>1. SUFFICES ASSUME Nat \ S # {} PROVE FALSE
  OBVIOUS
<1>2. PICK x \in Nat \ S : \A y \in Nat \ S : x <= y
  BY <1>1, LeastNumber
<1>3. x # 0 /\ x - 1 \in Nat /\ x = (x - 1) + 1
  BY <1>2
<1>4. x - 1 \in S
  BY <1>2, <1>3
<1>5. QED
  BY <1>2, <1>3, <1>4

-----------------------------------------------------------------------------
(* Playout: the frames in a number of chunks *)

\* The frames in the first n chunks, as a function of their number.
HeldFcn(c, n, f) == f = [i \in 0..n |-> IF i = 0 THEN 0 ELSE f[i - 1] + Left(c[i])]

\* HeldIn's recursive function exists for every number of chunks.
LEMMA HeldExists ==
    ASSUME NEW c, NEW n \in Nat
    PROVE  \E f : HeldFcn(c, n, f)
<1> DEFINE S == {m \in Nat : \E f : HeldFcn(c, m, f)}
<1>1. 0 \in S
  <2>1. HeldFcn(c, 0, [i \in 0..0 |-> 0])
    BY DEF HeldFcn
  <2>2. QED
    BY <2>1
<1>2. ASSUME NEW m \in S PROVE m + 1 \in S
  <2>1. PICK f : HeldFcn(c, m, f)
    OBVIOUS
  <2> DEFINE g == [i \in 0..(m + 1) |-> IF i = m + 1 THEN f[m] + Left(c[m + 1]) ELSE f[i]]
  <2>2. m \in Nat
    OBVIOUS
  <2>3. \A i \in 0..m : f[i] = IF i = 0 THEN 0 ELSE f[i - 1] + Left(c[i])
    BY <2>1 DEF HeldFcn
  <2>4. ASSUME NEW i \in 0..(m + 1)
        PROVE  g[i] = IF i = 0 THEN 0 ELSE g[i - 1] + Left(c[i])
    <3>1. CASE i = m + 1
      <4>1. i # 0 /\ i - 1 = m /\ m \in 0..(m + 1) /\ m # m + 1
        BY <3>1, <2>2
      <4>2. g[i - 1] = f[m] /\ g[i] = f[m] + Left(c[i])
        BY <3>1, <4>1
      <4>3. QED
        BY <4>1, <4>2
    <3>2. CASE i # m + 1
      <4>1. i \in 0..m /\ g[i] = f[i]
        BY <3>2, <2>2
      <4>2. CASE i = 0
        BY <4>1, <4>2, <2>3
      <4>3. CASE i # 0
        <5>1. i - 1 \in 0..(m + 1) /\ i - 1 # m + 1
          BY <4>1, <4>3, <2>2
        <5>2. g[i - 1] = f[i - 1]
          BY <5>1
        <5>3. QED
          BY <5>2, <4>1, <4>3, <2>3
      <4>4. QED
        BY <4>2, <4>3
    <3>3. QED
      BY <3>1, <3>2
  <2> HIDE DEF g
  <2>5. DOMAIN g = 0..(m + 1) /\ g = [i \in DOMAIN g |-> g[i]]
    BY DEF g
  <2>6. g = [i \in 0..(m + 1) |-> IF i = 0 THEN 0 ELSE g[i - 1] + Left(c[i])]
    BY <2>4, <2>5
  <2>7. HeldFcn(c, m + 1, g)
    BY <2>6 DEF HeldFcn
  <2>8. QED
    BY <2>2, <2>7
<1>3. \A m \in Nat : m \in S
  <2> HIDE DEF S
  <2>1. QED
    BY <1>1, <1>2, NumberInduction
<1>4. QED
  BY <1>3

\* Two such functions agree as far as both go.
LEMMA HeldAgree ==
    ASSUME NEW c, NEW m \in Nat, NEW n \in Nat, m <= n,
           NEW f, HeldFcn(c, m, f), NEW g, HeldFcn(c, n, g)
    PROVE  \A i \in 0..m : f[i] = g[i]
<1> DEFINE S == {i \in Nat : i <= m => f[i] = g[i]}
<1>0. /\ \A i \in 0..m : f[i] = IF i = 0 THEN 0 ELSE f[i - 1] + Left(c[i])
      /\ \A i \in 0..n : g[i] = IF i = 0 THEN 0 ELSE g[i - 1] + Left(c[i])
  BY DEF HeldFcn
<1>1. 0 \in S
  BY <1>0
<1>2. ASSUME NEW i \in S PROVE i + 1 \in S
  <2>1. i \in Nat /\ (i <= m => f[i] = g[i])
    OBVIOUS
  <2>2. SUFFICES ASSUME i + 1 <= m PROVE f[i + 1] = g[i + 1]
    BY <2>1
  <2>3. i + 1 \in 0..m /\ i + 1 \in 0..n /\ i + 1 # 0 /\ (i + 1) - 1 = i /\ i <= m
    BY <2>1, <2>2
  <2>4. f[i + 1] = f[i] + Left(c[i + 1]) /\ g[i + 1] = g[i] + Left(c[i + 1])
    BY <2>3, <1>0
  <2>5. QED
    BY <2>1, <2>3, <2>4
<1>3. \A i \in Nat : i \in S
  BY <1>1, <1>2, NumberInduction
<1>4. QED
  BY <1>3

\* HeldIn adds up, chunk by chunk, what is left of the first n chunks.
LEMMA HeldInStep ==
    ASSUME NEW c
    PROVE  /\ HeldIn(c, 0) = 0
           /\ \A n \in Nat : HeldIn(c, n + 1) = HeldIn(c, n) + Left(c[n + 1])
<1>1. ASSUME NEW n \in Nat PROVE \E f : HeldFcn(c, n, f) /\ HeldIn(c, n) = f[n]
  <2> DEFINE f == CHOOSE h : HeldFcn(c, n, h)
  <2>1. HeldFcn(c, n, f)
    BY HeldExists
  <2>2. HeldIn(c, n) = (CHOOSE h : h = [i \in 0..n |-> IF i = 0 THEN 0
                                                       ELSE h[i - 1] + Left(c[i])])[n]
    BY DEF HeldIn
  <2>3. HeldIn(c, n) = f[n]
    BY <2>2 DEF HeldFcn
  <2>4. QED
    BY <2>1, <2>3
<1>2. HeldIn(c, 0) = 0
  <2>1. PICK f : HeldFcn(c, 0, f) /\ HeldIn(c, 0) = f[0]
    BY <1>1
  <2>2. f[0] = 0
    BY <2>1 DEF HeldFcn
  <2>3. QED
    BY <2>1, <2>2
<1>3. ASSUME NEW n \in Nat PROVE HeldIn(c, n + 1) = HeldIn(c, n) + Left(c[n + 1])
  <2>1. PICK f : HeldFcn(c, n, f) /\ HeldIn(c, n) = f[n]
    BY <1>1
  <2>2. PICK g : HeldFcn(c, n + 1, g) /\ HeldIn(c, n + 1) = g[n + 1]
    BY <1>1
  <2>3. g[n + 1] = g[(n + 1) - 1] + Left(c[n + 1])
    BY <2>2 DEF HeldFcn
  <2>4. f[n] = g[n]
    BY <2>1, <2>2, HeldAgree
  <2>5. QED
    BY <2>1, <2>2, <2>3, <2>4
<1>4. QED
  BY <1>2, <1>3

Chunk == [samples : Seq(Frame), frame_offset : Nat]

\* A queue of chunks that all have frames left.
Queue(c) == c \in Seq(Chunk) /\ \A i \in 1..Len(c) : Left(c[i]) > 0

\* Every chunk adds a positive number of frames.
LEMMA LeftNat ==
    ASSUME NEW c, Queue(c), NEW i \in 1..Len(c)
    PROVE  Left(c[i]) \in Nat /\ Left(c[i]) > 0
<1>1. c[i] \in Chunk /\ Left(c[i]) > 0
  BY DEF Queue
<1>2. Len(c[i].samples) \in Nat /\ c[i].frame_offset \in Nat
  BY <1>1 DEF Chunk
<1>3. QED
  BY <1>1, <1>2 DEF Left

\* What the first chunks hold is a number.
LEMMA HeldInNat ==
    ASSUME NEW c, Queue(c), NEW n \in 0..Len(c)
    PROVE  HeldIn(c, n) \in Nat
<1> DEFINE S == {k \in Nat : k <= Len(c) => HeldIn(c, k) \in Nat}
<1>0. Len(c) \in Nat
  BY DEF Queue
<1>1. 0 \in S
  BY HeldInStep
<1>2. ASSUME NEW k \in S PROVE k + 1 \in S
  <2>1. k \in Nat
    OBVIOUS
  <2>2. SUFFICES ASSUME k + 1 <= Len(c) PROVE HeldIn(c, k + 1) \in Nat
    BY <2>1
  <2>3. HeldIn(c, k) \in Nat
    BY <2>1, <2>2, <1>0
  <2>4. k + 1 \in 1..Len(c)
    BY <2>1, <2>2, <1>0
  <2>5. HeldIn(c, k + 1) = HeldIn(c, k) + Left(c[k + 1])
    BY <2>1, HeldInStep
  <2>6. Left(c[k + 1]) \in Nat
    BY <2>4, LeftNat
  <2>7. QED
    BY <2>3, <2>5, <2>6
<1>3. \A k \in Nat : k \in S
  <2> HIDE DEF S
  <2>1. QED
    BY <1>1, <1>2, NumberInduction
<1>4. QED
  BY <1>0, <1>3

\* What the first chunks hold is a number, which grows with theirs.
LEMMA HeldInGrows ==
    ASSUME NEW c, Queue(c)
    PROVE  \A j, k \in 0..Len(c) : j < k => HeldIn(c, j) < HeldIn(c, k)
<1> DEFINE S == {k \in Nat : k <= Len(c) =>
                     \A j \in 0..k : j < k => HeldIn(c, j) < HeldIn(c, k)}
<1>0. Len(c) \in Nat
  BY DEF Queue
<1>1. 0 \in S
  BY HeldInStep
<1>2. ASSUME NEW k \in S PROVE k + 1 \in S
  <2>1. k \in Nat
    OBVIOUS
  <2>2. SUFFICES ASSUME k + 1 <= Len(c)
                 PROVE  \A j \in 0..(k + 1) : j < k + 1 => HeldIn(c, j) < HeldIn(c, k + 1)
    BY <2>1
  <2>9. HeldIn(c, k) \in Nat
    BY <2>1, <2>2, <1>0, HeldInNat
  <2>3. \A j \in 0..k : j < k => HeldIn(c, j) < HeldIn(c, k)
    BY <2>1, <2>2, <1>0
  <2>4. k + 1 \in 1..Len(c)
    BY <2>1, <2>2, <1>0
  <2>5. HeldIn(c, k + 1) = HeldIn(c, k) + Left(c[k + 1])
    BY <2>1, HeldInStep
  <2>6. Left(c[k + 1]) \in Nat /\ Left(c[k + 1]) > 0
    BY <2>4, LeftNat
  <2>7. ASSUME NEW j \in 0..(k + 1), j < k + 1 PROVE HeldIn(c, j) < HeldIn(c, k + 1)
    <3>1. j \in 0..k /\ (j = k \/ j < k)
      BY <2>7, <2>1
    <3>2. CASE j = k
      BY <3>2, <2>9, <2>5, <2>6
    <3>3. CASE j < k
      <4>1. HeldIn(c, j) < HeldIn(c, k)
        BY <3>1, <3>3, <2>3
      <4>2. \A a, b \in Nat : a < b => a < b + Left(c[k + 1])
        BY <2>6
      <4>3. HeldIn(c, j) \in Nat
        <5>1. j \in Nat /\ j <= Len(c) /\ j \in 0..k
          BY <3>1, <2>1, <2>2, <1>0
        <5>2. QED
          BY <5>1, <1>0, HeldInNat
      <4>4. QED
        BY <4>1, <4>2, <4>3, <2>9, <2>5
    <3>4. QED
      BY <3>1, <3>2, <3>3
  <2>8. QED
    BY <2>7
<1>3. \A k \in Nat : k \in S
  <2> HIDE DEF S
  <2>1. QED
    BY <1>1, <1>2, NumberInduction
<1>4. QED
  BY <1>0, <1>3

\* k is the number of chunks that the first n frames use up.
UsedIs(c, n, k) ==
    /\ k \in 0..Len(c) /\ HeldIn(c, k) <= n
    /\ k < Len(c) => n < HeldIn(c, k + 1)

\* While the queue holds as many, a number of frames uses up one number of chunks (pop_into).
LEMMA UsedUnique ==
    ASSUME NEW c, Queue(c), NEW n \in 0..Held(c)
    PROVE  /\ UsedIs(c, n, Used(c, n))
           /\ \A k : UsedIs(c, n, k) => k = Used(c, n)
<1> DEFINE T == {k \in 0..Len(c) : k < Len(c) => n < HeldIn(c, k + 1)}
<1>0. Len(c) \in Nat /\ Held(c) \in Nat /\ n \in Nat
  <2>1. Len(c) \in Nat
    BY DEF Queue
  <2>2. QED
    BY <2>1, HeldInNat DEF Held
<1>1. \E k : UsedIs(c, n, k)
  <2>1. Len(c) \in T /\ T \subseteq Nat
    BY <1>0
  <2>2. PICK k \in T : \A j \in T : k <= j
    BY <2>1, LeastNumber
  <2>3. HeldIn(c, k) <= n
    <3>1. CASE k = 0
      BY <3>1, <1>0, HeldInStep
    <3>2. CASE k # 0
      <4>1. k - 1 \in 0..Len(c) /\ ~(k <= k - 1) /\ k - 1 < Len(c) /\ (k - 1) + 1 = k
        BY <3>2, <1>0
      <4>2. k - 1 \notin T
        BY <4>1, <2>2
      <4>3. ~(n < HeldIn(c, k))
        BY <4>1, <4>2
      <4>4. HeldIn(c, k) \in Nat
        BY HeldInNat
      <4>5. QED
        BY <4>3, <4>4, <1>0
    <3>3. QED
      BY <3>1, <3>2
  <2>4. QED
    BY <2>2, <2>3 DEF UsedIs
<1>2. ASSUME NEW j, NEW k, UsedIs(c, n, j), UsedIs(c, n, k), j < k PROVE FALSE
  <2>1. j \in 0..Len(c) /\ k \in 0..Len(c) /\ j + 1 \in 0..Len(c) /\ j < Len(c)
    BY <1>2, <1>0 DEF UsedIs
  <2>2. n < HeldIn(c, j + 1) /\ HeldIn(c, k) <= n
    BY <2>1, <1>2 DEF UsedIs
  <2>3. HeldIn(c, j + 1) <= HeldIn(c, k)
    <3>1. CASE j + 1 = k
      BY <3>1, <2>1, HeldInNat
    <3>2. CASE j + 1 < k
      BY <3>2, <2>1, HeldInNat, HeldInGrows
    <3>3. QED
      BY <3>1, <3>2, <2>1, <1>2
  <2>4. HeldIn(c, j + 1) \in Nat /\ HeldIn(c, k) \in Nat
    BY <2>1, HeldInNat
  <2>5. QED
    BY <2>2, <2>3, <2>4, <1>0
<1>3. \A j, k : UsedIs(c, n, j) /\ UsedIs(c, n, k) => j = k
  <2>1. SUFFICES ASSUME NEW j, NEW k, UsedIs(c, n, j), UsedIs(c, n, k) PROVE j = k
    OBVIOUS
  <2>2. j \in Nat /\ k \in Nat
    BY <2>1, <1>0 DEF UsedIs
  <2>3. ~(j < k) /\ ~(k < j)
    BY <2>1, <1>2
  <2>4. QED
    BY <2>2, <2>3
<1>4. UsedIs(c, n, Used(c, n))
  <2>1. \E k \in 0..Len(c) : HeldIn(c, k) <= n /\ (k < Len(c) => n < HeldIn(c, k + 1))
    BY <1>1 DEF UsedIs
  <2>2. QED
    BY <2>1 DEF Used, UsedIs
<1>5. QED
  BY <1>3, <1>4

\* What is left of a queue after n frames: the chunks that are not used up, the first of them
\* from a later offset, so every chunk's frames start n earlier.
LEMMA AdvanceShape ==
    ASSUME NEW c, Queue(c), NEW n \in 0..Held(c), NEW k, k = Used(c, n),
           NEW d, d = Advance(c, n)
    PROVE  /\ k \in 0..Len(c) /\ d \in Seq(Chunk) /\ Len(d) = Len(c) - k
           /\ \A i \in 2..Len(d) : d[i] = c[k + i]
           /\ d # <<>> => /\ d[1].samples = c[k + 1].samples
                          /\ d[1].frame_offset = c[k + 1].frame_offset + n - HeldIn(c, k)
                          /\ n - HeldIn(c, k) \in Nat
<1> DEFINE rest == SubSeq(c, k + 1, Len(c))
<1>1. UsedIs(c, n, k)
  BY UsedUnique
<1>2. c \in Seq(Chunk) /\ Len(c) \in Nat /\ k \in 0..Len(c)
  BY <1>1 DEF Queue, UsedIs
<1>3. /\ rest \in Seq(Chunk) /\ Len(rest) = Len(c) - k
      /\ \A i \in 1..Len(rest) : rest[i] = c[k + i]
  <2>1. rest \in Seq(Chunk)
    BY <1>2
  <2>2. Len(rest) = Len(c) - k
    BY <1>2
  <2>3. ASSUME NEW i \in 1..Len(rest) PROVE rest[i] = c[k + i]
    <3>1. i \in 1..(Len(c) - (k + 1) + 1) /\ k + 1 \in Int /\ Len(c) \in Int
      BY <1>2, <2>2
    <3>2. rest[i] = c[i + (k + 1) - 1]
      BY <3>1, SMTT(20)
    <3>3. i + (k + 1) - 1 = k + i
      BY <1>2
    <3>4. QED
      BY <3>2, <3>3
  <2>4. QED
    BY <2>1, <2>2, <2>3
<1>4. HeldIn(c, k) \in Nat /\ HeldIn(c, k) <= n /\ n \in Nat
  BY <1>1, <1>2, HeldInNat DEF UsedIs, Held
<1>5. n - HeldIn(c, k) \in Nat
  BY <1>4
<1>6. d = IF rest = <<>> THEN rest
          ELSE [rest EXCEPT ![1].frame_offset = @ + n - HeldIn(c, k)]
  BY DEF Advance
<1> HIDE DEF rest
<1>7. CASE rest = <<>>
  <2>1. d = <<>> /\ Len(d) = 0 /\ d = rest
    BY <1>6, <1>7
  <2>2. 2..Len(d) = {}
    BY <2>1
  <2>3. QED
    BY <1>2, <1>3, <2>1, <2>2
<1>8. CASE rest # <<>>
  <2> DEFINE e == [rest[1] EXCEPT !.frame_offset = @ + n - HeldIn(c, k)]
  <2>1. 1 \in 1..Len(rest) /\ rest[1] \in Chunk /\ rest[1] = c[k + 1]
    BY <1>3, <1>8
  <2>2. d = [rest EXCEPT ![1] = e]
    BY <1>6, <1>8
  <2>3. /\ e.samples = rest[1].samples
        /\ e.frame_offset = rest[1].frame_offset + n - HeldIn(c, k)
    BY <2>1 DEF Chunk
  <2>4. e \in Chunk
    <3>1. rest[1].frame_offset \in Nat
      BY <2>1 DEF Chunk
    <3>2. rest[1].frame_offset + n - HeldIn(c, k) \in Nat
      BY <3>1, <1>4
    <3>3. QED
      BY <2>1, <3>2 DEF Chunk
  <2> HIDE DEF e
  <2>5. d \in Seq(Chunk) /\ Len(d) = Len(rest) /\ d[1] = e
    BY <2>1, <2>2, <2>4, <1>3
  <2>6. \A i \in 2..Len(d) : d[i] = rest[i]
    BY <2>2, <2>5, <1>3
  <2>7. \A i \in 2..Len(d) : i \in 1..Len(rest)
    BY <2>5, <1>3
  <2>8. QED
    BY <1>2, <1>3, <1>5, <2>1, <2>3, <2>5, <2>6, <2>7
<1>9. QED
  BY <1>7, <1>8

\* Taking n frames leaves the others: what the remaining chunks hold, counted from their start,
\* is n less than before.
LEMMA AdvanceHeld ==
    ASSUME NEW c, Queue(c), NEW n \in 0..Held(c), NEW k, k = Used(c, n),
           NEW d, d = Advance(c, n)
    PROVE  /\ Queue(d) /\ Held(d) = Held(c) - n
           /\ \A m \in 1..Len(d) : HeldIn(d, m) = HeldIn(c, k + m) - n
<1>1. UsedIs(c, n, k) /\ k \in 0..Len(c) /\ Len(c) \in Nat /\ n \in Nat
  <2>1. UsedIs(c, n, k)
    BY UsedUnique
  <2>2. Len(c) \in Nat
    BY DEF Queue
  <2>3. Held(c) \in Nat
    BY <2>2, HeldInNat DEF Held
  <2>4. QED
    BY <2>1, <2>2, <2>3 DEF UsedIs
<1>2. /\ d \in Seq(Chunk) /\ Len(d) = Len(c) - k
      /\ \A i \in 2..Len(d) : d[i] = c[k + i]
  BY AdvanceShape
<1>3. \A m \in 0..(Len(c) - k) : HeldIn(c, k + m) \in Nat
  <2>1. \A m \in 0..(Len(c) - k) : k + m \in 0..Len(c)
    BY <1>1
  <2>2. QED
    BY <2>1, HeldInNat
<1>4. ASSUME 1 <= Len(d)
      PROVE  /\ Left(d[1]) = HeldIn(c, k + 1) - n /\ Left(d[1]) > 0
             /\ HeldIn(d, 1) = HeldIn(c, k + 1) - n
  <2>1. d # <<>> /\ k + 1 \in 1..Len(c) /\ k < Len(c) /\ k \in Nat
    BY <1>1, <1>2, <1>4
  <2>2. /\ d[1].samples = c[k + 1].samples
        /\ d[1].frame_offset = c[k + 1].frame_offset + n - HeldIn(c, k)
    BY <2>1, AdvanceShape
  <2>3. c[k + 1] \in Chunk
    BY <2>1 DEF Queue
  <2>4. Len(c[k + 1].samples) \in Nat /\ c[k + 1].frame_offset \in Nat /\ HeldIn(c, k) \in Nat
    BY <2>3, <1>1, HeldInNat DEF Chunk
  <2>5. HeldIn(c, k + 1) = HeldIn(c, k) + Left(c[k + 1])
    BY <2>1, HeldInStep
  <2>6. Left(d[1]) = Left(c[k + 1]) - (n - HeldIn(c, k))
    BY <2>2, <2>4, <1>1 DEF Left
  <2>7. Left(c[k + 1]) \in Nat /\ n < HeldIn(c, k + 1)
    BY <2>1, <1>1, LeftNat DEF UsedIs
  <2>8. Left(d[1]) = HeldIn(c, k + 1) - n /\ Left(d[1]) > 0
    BY <2>4, <2>5, <2>6, <2>7, <1>1
  <2>9. HeldIn(d, 1) = Left(d[1])
    <3>1. HeldIn(d, 0 + 1) = HeldIn(d, 0) + Left(d[0 + 1]) /\ HeldIn(d, 0) = 0
      BY HeldInStep
    <3>2. Left(d[1]) \in Nat
      BY <2>8, <2>4, <2>5, <2>7, <1>1
    <3>3. QED
      BY <3>1, <3>2
  <2>10. QED
    BY <2>8, <2>9
<1>5. Queue(d)
  <2>1. ASSUME NEW i \in 1..Len(d) PROVE Left(d[i]) > 0
    <3>1. CASE i = 1
      BY <3>1, <1>1, <1>2, <1>4
    <3>2. CASE i # 1
      <4>1. i \in 2..Len(d) /\ k + i \in 1..Len(c)
        BY <3>2, <1>1, <1>2
      <4>2. d[i] = c[k + i]
        BY <4>1, <1>2
      <4>3. QED
        BY <4>1, <4>2, LeftNat
    <3>3. QED
      BY <3>1, <3>2
  <2>2. QED
    BY <2>1, <1>2 DEF Queue
<1>6. \A m \in 1..Len(d) : HeldIn(d, m) = HeldIn(c, k + m) - n
  <2> DEFINE S == {m \in Nat : 1 <= m + 1 /\ m + 1 <= Len(d) =>
                         HeldIn(d, m + 1) = HeldIn(c, k + (m + 1)) - n}
  <2>1. 0 \in S
    BY <1>4, <1>1
  <2>2. ASSUME NEW m \in S PROVE m + 1 \in S
    <3>1. m \in Nat
      OBVIOUS
    <3>2. SUFFICES ASSUME (m + 1) + 1 <= Len(d)
                   PROVE  HeldIn(d, (m + 1) + 1) = HeldIn(c, k + ((m + 1) + 1)) - n
      BY <3>1
    <3>3. HeldIn(d, m + 1) = HeldIn(c, k + (m + 1)) - n
      BY <3>1, <3>2, <1>1, <1>2
    <3>4. (m + 1) + 1 \in 2..Len(d) /\ m + 1 \in Nat /\ k + (m + 1) \in Nat
          /\ k + (m + 1) \in 0..Len(c) /\ (k + (m + 1)) + 1 \in 1..Len(c)
          /\ k + ((m + 1) + 1) = (k + (m + 1)) + 1
      BY <3>1, <3>2, <1>1, <1>2
    <3>5. HeldIn(d, (m + 1) + 1) = HeldIn(d, m + 1) + Left(d[(m + 1) + 1])
      BY <3>4, HeldInStep
    <3>6. HeldIn(c, (k + (m + 1)) + 1) = HeldIn(c, k + (m + 1)) + Left(c[(k + (m + 1)) + 1])
      BY <3>4, HeldInStep
    <3>7. d[(m + 1) + 1] = c[(k + (m + 1)) + 1]
      BY <3>4, <1>2
    <3>8. Left(c[(k + (m + 1)) + 1]) \in Nat /\ HeldIn(c, k + (m + 1)) \in Nat
      BY <3>4, LeftNat, HeldInNat
    <3> DEFINE x == Left(c[(k + (m + 1)) + 1])
               y == HeldIn(c, k + (m + 1))
    <3>9. /\ HeldIn(d, (m + 1) + 1) = (y - n) + x
          /\ HeldIn(c, k + ((m + 1) + 1)) = y + x
      BY <3>3, <3>4, <3>5, <3>6, <3>7
    <3>10. x \in Nat /\ y \in Nat
      BY <3>8
    <3> HIDE DEF x, y
    <3>11. QED
      BY <3>9, <3>10, <1>1
  <2>3. \A m \in Nat : m \in S
    <3> HIDE DEF S
    <3>1. QED
      BY <2>1, <2>2, NumberInduction
  <2>4. ASSUME NEW m \in 1..Len(d) PROVE HeldIn(d, m) = HeldIn(c, k + m) - n
    <3>1. m - 1 \in Nat /\ (m - 1) + 1 = m
      OBVIOUS
    <3>2. m - 1 \in S
      BY <3>1, <2>3
    <3>3. QED
      BY <3>1, <3>2
  <2>5. QED
    BY <2>4
<1>7. Held(d) = Held(c) - n
  <2>1. CASE Len(d) = 0
    <3>0. Held(d) = HeldIn(d, 0) /\ HeldIn(d, 0) = 0
      BY <2>1, HeldInStep DEF Held
    <3>1. k = Len(c) /\ Held(d) = 0
      BY <3>0, <2>1, <1>1, <1>2
    <3>2. Held(c) <= n
      BY <3>1, <1>1 DEF UsedIs, Held
    <3>3. Held(c) \in Nat
      BY <1>1, HeldInNat DEF Held
    <3>4. QED
      BY <3>1, <3>2, <3>3
  <2>2. CASE Len(d) # 0
    <3>1. Len(d) \in 1..Len(d) /\ k + Len(d) = Len(c)
      BY <2>2, <1>1, <1>2
    <3>2. QED
      BY <3>1, <1>6 DEF Held
  <2>3. QED
    BY <2>1, <2>2
<1>8. QED
  BY <1>5, <1>6, <1>7

-----------------------------------------------------------------------------
(* The frames of the queue *)

\* The j-th frame in the queue: what FirstFrames gives, frame by frame.
FrameAt(c, j) ==
    LET k == Used(c, j - 1)
    IN c[k + 1].samples[c[k + 1].frame_offset + j - HeldIn(c, k)]

\* The chunk that the j-th frame is in, and its place there.
LEMMA FramePlace ==
    ASSUME NEW c, Queue(c), NEW j \in 1..Held(c), NEW k, k = Used(c, j - 1)
    PROVE  /\ k \in 0..Len(c) /\ k + 1 \in 1..Len(c)
           /\ HeldIn(c, k) \in Nat /\ HeldIn(c, k) < j
           /\ j <= HeldIn(c, k) + Left(c[k + 1])
           /\ FrameAt(c, j) \in Frame
<1>1. Len(c) \in Nat /\ Held(c) \in Nat
  BY HeldInNat DEF Queue, Held
<1>2. j - 1 \in 0..Held(c) /\ j \in Nat /\ (j - 1) + 1 = j
  BY <1>1
<1>3. UsedIs(c, j - 1, k)
  BY <1>2, UsedUnique
<1>4. k \in 0..Len(c) /\ HeldIn(c, k) <= j - 1
  BY <1>3 DEF UsedIs
<1>5. HeldIn(c, k) \in Nat
  BY <1>4, HeldInNat
<1>6. k # Len(c)
  BY <1>1, <1>2, <1>4, <1>5 DEF Held
<1>7. k + 1 \in 1..Len(c) /\ k < Len(c) /\ k \in Nat
  BY <1>1, <1>4, <1>6
<1>8. HeldIn(c, k + 1) = HeldIn(c, k) + Left(c[k + 1]) /\ j - 1 < HeldIn(c, k + 1)
  BY <1>3, <1>7, HeldInStep DEF UsedIs
<1>9. c[k + 1] \in Chunk /\ Left(c[k + 1]) \in Nat
  BY <1>7, LeftNat DEF Queue
<1>10. HeldIn(c, k) < j /\ j <= HeldIn(c, k) + Left(c[k + 1])
  BY <1>2, <1>4, <1>5, <1>8, <1>9
<1>11. Len(c[k + 1].samples) \in Nat /\ c[k + 1].frame_offset \in Nat
       /\ c[k + 1].samples \in Seq(Frame)
  BY <1>9 DEF Chunk
<1>12. c[k + 1].frame_offset + j - HeldIn(c, k) \in 1..Len(c[k + 1].samples)
  BY <1>2, <1>5, <1>10, <1>11 DEF Left
<1>13. c[k + 1].samples[c[k + 1].frame_offset + j - HeldIn(c, k)] \in Frame
  BY <1>11, <1>12
<1>14. FrameAt(c, j) \in Frame
  BY <1>13 DEF FrameAt
<1>15. QED
  BY <1>4, <1>5, <1>7, <1>10, <1>14

\* Taking n frames from the front of the queue shifts it: its j-th frame is then the one that
\* was the (n + j)-th, with no frame lost or repeated where a chunk was cut.
THEOREM AdvanceShifts ==
    ASSUME NEW c, Queue(c), NEW n \in 0..Held(c), NEW d, d = Advance(c, n),
           NEW j \in 1..Held(d)
    PROVE  n + j \in 1..Held(c) /\ FrameAt(d, j) = FrameAt(c, n + j)
<1> DEFINE k == Used(c, n)
           K == Used(c, (n + j) - 1)
           m == K - k
<1>1. Len(c) \in Nat /\ Held(c) \in Nat /\ n \in Nat /\ j \in Nat
  <2>1. Len(c) \in Nat /\ Held(c) \in Nat
    BY HeldInNat DEF Queue, Held
  <2>2. QED
    BY <2>1
<1>2. /\ Queue(d) /\ Held(d) = Held(c) - n
      /\ \A i \in 1..Len(d) : HeldIn(d, i) = HeldIn(c, k + i) - n
  BY AdvanceHeld
<1>3. /\ k \in 0..Len(c) /\ d \in Seq(Chunk) /\ Len(d) = Len(c) - k
      /\ \A i \in 2..Len(d) : d[i] = c[k + i]
      /\ d # <<>> => /\ d[1].samples = c[k + 1].samples
                     /\ d[1].frame_offset = c[k + 1].frame_offset + n - HeldIn(c, k)
  BY AdvanceShape
<1>4. n + j \in 1..Held(c)
  BY <1>1, <1>2
<1>5. /\ K \in 0..Len(c) /\ K + 1 \in 1..Len(c)
      /\ HeldIn(c, K) \in Nat /\ HeldIn(c, K) < n + j
      /\ n + j <= HeldIn(c, K) + Left(c[K + 1])
  BY <1>4, FramePlace
<1>6. K \in Nat /\ HeldIn(c, K + 1) = HeldIn(c, K) + Left(c[K + 1])
  <2>1. K \in Nat
    BY <1>5, <1>1
  <2>2. QED
    BY <2>1, HeldInStep
<1>7. UsedIs(c, n, k)
  BY UsedUnique
<1>8. HeldIn(c, k) \in Nat /\ HeldIn(c, k) <= n
  BY <1>7, <1>3, HeldInNat DEF UsedIs
<1>9. k <= K
  <2>1. SUFFICES ASSUME K < k PROVE FALSE
    BY <1>3, <1>5
  <2>2. HeldIn(c, K + 1) <= HeldIn(c, k)
    <3>1. CASE K + 1 = k
      BY <3>1, <1>8
    <3>2. CASE K + 1 < k
      <4>1. K + 1 \in 0..Len(c)
        BY <1>5
      <4>2. HeldIn(c, K + 1) < HeldIn(c, k) /\ HeldIn(c, K + 1) \in Nat
        BY <3>2, <4>1, <1>3, HeldInGrows, HeldInNat
      <4>3. QED
        BY <4>2, <1>8
    <3>3. QED
      BY <3>1, <3>2, <2>1, <1>3, <1>5
  <2>3. HeldIn(c, K + 1) \in Nat
    BY <1>5, HeldInNat
  <2>4. n + j <= HeldIn(c, K + 1)
    BY <1>5, <1>6
  <2>5. QED
    BY <2>2, <2>3, <2>4, <1>1, <1>8
<1>10. m \in Nat /\ m \in 0..Len(d) /\ m + 1 \in 1..Len(d) /\ k + m = K /\ d # <<>>
  <2> HIDE DEF k, K
  <2>1. k \in Nat /\ K < Len(c) /\ Len(d) = Len(c) - k
    BY <1>1, <1>3, <1>5, <1>6
  <2>2. m \in Nat /\ m + 1 \in 1..Len(d) /\ m \in 0..Len(d) /\ k + m = K
    BY <2>1, <1>1, <1>6, <1>9
  <2>4. Len(d) # 0
    BY <2>2
  <2>3. QED
    BY <2>2, <2>4
<1>11. HeldIn(d, m + 1) = HeldIn(c, K + 1) - n
  <2>1. k + (m + 1) = K + 1
    BY <1>10, <1>3
  <2>2. QED
    BY <2>1, <1>2, <1>10
<1>12. HeldIn(d, m) <= j - 1
  <2>1. CASE m = 0
    <3>1. HeldIn(d, m) = 0
      BY <2>1, HeldInStep
    <3>2. QED
      BY <3>1, <1>1
  <2>2. CASE m # 0
    <3>1. m \in 1..Len(d)
      BY <2>2, <1>10
    <3>2. HeldIn(d, m) = HeldIn(c, K) - n
      BY <3>1, <1>2, <1>10
    <3>3. QED
      BY <3>2, <1>1, <1>5
  <2>3. QED
    BY <2>1, <2>2
<1>13. j - 1 < HeldIn(d, m + 1)
  <2>1. HeldIn(c, K + 1) \in Nat /\ n + j <= HeldIn(c, K + 1)
    BY <1>5, <1>6, HeldInNat
  <2>2. QED
    BY <2>1, <1>1, <1>11
<1>14. m = Used(d, j - 1)
  <2>1. UsedIs(d, j - 1, m)
    BY <1>10, <1>12, <1>13 DEF UsedIs
  <2>2. j - 1 \in 0..Held(d)
    BY <1>1, <1>2
  <2>3. QED
    BY <2>1, <2>2, <1>2, UsedUnique
<1>15. FrameAt(d, j) = d[m + 1].samples[d[m + 1].frame_offset + j - HeldIn(d, m)]
  BY <1>14 DEF FrameAt
<1>16. FrameAt(c, n + j) = c[K + 1].samples[c[K + 1].frame_offset + (n + j) - HeldIn(c, K)]
  BY DEF FrameAt
<1>17. c[K + 1].frame_offset \in Nat
  <2>1. c[K + 1] \in Chunk
    BY <1>5 DEF Queue
  <2>2. QED
    BY <2>1 DEF Chunk
<1>18. /\ d[m + 1].samples = c[K + 1].samples
       /\ d[m + 1].frame_offset + j - HeldIn(d, m)
              = c[K + 1].frame_offset + (n + j) - HeldIn(c, K)
  <2>1. CASE m = 0
    <3>1. k = K /\ HeldIn(d, m) = 0 /\ m + 1 = 1
      BY <2>1, <1>3, <1>10, HeldInStep
    <3>2. /\ d[m + 1].samples = c[K + 1].samples
          /\ d[m + 1].frame_offset = c[K + 1].frame_offset + n - HeldIn(c, K)
      BY <3>1, <1>3, <1>10
    <3>3. QED
      BY <3>1, <3>2, <1>1, <1>5, <1>17
  <2>2. CASE m # 0
    <3>1. m + 1 \in 2..Len(d) /\ m \in 1..Len(d) /\ k + (m + 1) = K + 1
      <4> HIDE DEF k, K, m
      <4>1. k \in Nat /\ K \in Nat /\ Len(d) \in Nat
        BY <1>1, <1>3, <1>6, LenProperties DEF Queue
      <4>2. QED
        BY <2>2, <4>1, <1>10
    <3>2. d[m + 1] = c[K + 1]
      BY <3>1, <1>3
    <3>3. HeldIn(d, m) = HeldIn(c, K) - n
      BY <3>1, <1>2, <1>10
    <3>4. QED
      BY <3>2, <3>3, <1>1, <1>5, <1>17
  <2>3. QED
    BY <2>1, <2>2
<1>19. QED
  BY <1>4, <1>15, <1>16, <1>18

\* A chunk appended to the queue leaves the frames before it where they are, and its own follow
\* (push).
LEMMA AppendExtends ==
    ASSUME NEW c, Queue(c), NEW s \in Seq(Frame), s # <<>>,
           NEW d, d = Append(c, [samples |-> s, frame_offset |-> 0])
    PROVE  /\ Queue(d) /\ Held(d) = Held(c) + Len(s)
           /\ \A j \in 1..Held(c) : FrameAt(d, j) = FrameAt(c, j)
           /\ \A i \in 1..Len(s) : FrameAt(d, Held(c) + i) = s[i]
<1> DEFINE e == [samples |-> s, frame_offset |-> 0]
<1>1. c \in Seq(Chunk) /\ Len(c) \in Nat /\ Held(c) \in Nat
  BY HeldInNat DEF Queue, Held
<1>2. e \in Chunk /\ e.samples = s /\ e.frame_offset = 0 /\ Len(s) \in Nat /\ Len(s) > 0
  BY DEF Chunk
<1>3. Left(e) = Len(s)
  BY <1>2 DEF Left
<1> HIDE DEF e
<1>4. d = Append(c, e)
  BY DEF e
<1>5. /\ d \in Seq(Chunk) /\ Len(d) = Len(c) + 1 /\ d[Len(c) + 1] = e
      /\ \A i \in 1..Len(c) : d[i] = c[i]
  BY <1>1, <1>2, <1>4
<1>6. Queue(d)
  <2>1. ASSUME NEW i \in 1..Len(d) PROVE Left(d[i]) > 0
    <3>1. CASE i = Len(c) + 1
      BY <3>1, <1>2, <1>3, <1>5
    <3>2. CASE i # Len(c) + 1
      <4>1. i \in 1..Len(c)
        BY <3>2, <1>1, <1>5
      <4>2. QED
        BY <4>1, <1>5, LeftNat
    <3>3. QED
      BY <3>1, <3>2
  <2>2. QED
    BY <2>1, <1>5 DEF Queue
<1>7. \A k \in 0..Len(c) : HeldIn(d, k) = HeldIn(c, k)
  <2> DEFINE S == {k \in Nat : k <= Len(c) => HeldIn(d, k) = HeldIn(c, k)}
  <2>1. 0 \in S
    BY HeldInStep
  <2>2. ASSUME NEW k \in S PROVE k + 1 \in S
    <3>1. k \in Nat
      OBVIOUS
    <3>2. SUFFICES ASSUME k + 1 <= Len(c) PROVE HeldIn(d, k + 1) = HeldIn(c, k + 1)
      BY <3>1
    <3>3. HeldIn(d, k) = HeldIn(c, k)
      BY <3>1, <3>2, <1>1
    <3>4. d[k + 1] = c[k + 1]
      BY <3>1, <3>2, <1>1, <1>5
    <3>5. /\ HeldIn(d, k + 1) = HeldIn(d, k) + Left(d[k + 1])
          /\ HeldIn(c, k + 1) = HeldIn(c, k) + Left(c[k + 1])
      BY <3>1, HeldInStep
    <3>6. QED
      BY <3>3, <3>4, <3>5
  <2>3. \A k \in Nat : k \in S
    <3> HIDE DEF S
    <3>1. QED
      BY <2>1, <2>2, NumberInduction
  <2>4. QED
    BY <2>3, <1>1
<1>8. Held(d) = Held(c) + Len(s)
  <2>1. HeldIn(d, Len(c) + 1) = HeldIn(d, Len(c)) + Left(d[Len(c) + 1])
    BY <1>1, HeldInStep
  <2>2. HeldIn(d, Len(c)) = HeldIn(c, Len(c))
    BY <1>1, <1>7
  <2>3. QED
    BY <2>1, <2>2, <1>3, <1>5 DEF Held
<1>9. ASSUME NEW j \in 1..Held(c) PROVE FrameAt(d, j) = FrameAt(c, j)
  <2> DEFINE k == Used(c, j - 1)
  <2>1. j - 1 \in 0..Held(c) /\ j - 1 \in 0..Held(d)
    BY <1>1, <1>2, <1>8
  <2>2. k \in 0..Len(c) /\ k + 1 \in 1..Len(c)
    BY FramePlace
  <2>3. UsedIs(c, j - 1, k)
    BY <2>1, UsedUnique
  <2> HIDE DEF k
  <2>4. HeldIn(d, k) = HeldIn(c, k) /\ HeldIn(d, k + 1) = HeldIn(c, k + 1) /\ d[k + 1] = c[k + 1]
    <3>1. k + 1 \in 0..Len(c)
      BY <2>2, <1>1
    <3>2. QED
      BY <2>2, <3>1, <1>5, <1>7
  <2>5. k \in 0..Len(d) /\ k < Len(c)
    BY <2>2, <1>1, <1>5
  <2>6. UsedIs(d, j - 1, k)
    BY <2>3, <2>4, <2>5 DEF UsedIs
  <2>7. k = Used(d, j - 1)
    BY <2>1, <2>6, <1>6, UsedUnique
  <2>8. FrameAt(d, j) = d[k + 1].samples[d[k + 1].frame_offset + j - HeldIn(d, k)]
    BY <2>7 DEF FrameAt
  <2>9. FrameAt(c, j) = c[k + 1].samples[c[k + 1].frame_offset + j - HeldIn(c, k)]
    BY DEF FrameAt, k
  <2>10. QED
    BY <2>4, <2>8, <2>9
<1>10. ASSUME NEW i \in 1..Len(s) PROVE FrameAt(d, Held(c) + i) = s[i]
  <2> DEFINE j == Held(c) + i
  <2>1. j - 1 \in 0..Held(d) /\ j \in Nat /\ Held(c) <= j - 1 /\ j - 1 < Held(d)
    BY <1>1, <1>2, <1>8
  <2>2. HeldIn(d, Len(c)) = Held(c) /\ HeldIn(d, Len(c) + 1) = Held(d)
    BY <1>1, <1>5, <1>7 DEF Held
  <2>3. Len(c) \in 0..Len(d)
    BY <1>1, <1>5
  <2> HIDE DEF j
  <2>4. UsedIs(d, j - 1, Len(c))
    BY <2>1, <2>2, <2>3 DEF UsedIs
  <2>5. Len(c) = Used(d, j - 1)
    BY <2>1, <2>4, <1>6, UsedUnique
  <2>6. FrameAt(d, j) = d[Len(c) + 1].samples[d[Len(c) + 1].frame_offset + j - HeldIn(d, Len(c))]
    BY <2>5 DEF FrameAt
  <2>7. FrameAt(d, j) = s[0 + j - Held(c)]
    BY <2>2, <2>6, <1>2, <1>5
  <2>8. 0 + j - Held(c) = i
    BY <1>1 DEF j
  <2>9. QED
    BY <2>7, <2>8 DEF j
<1>11. QED
  BY <1>6, <1>8, <1>9, <1>10

-----------------------------------------------------------------------------
(* Arithmetic of the numbers that frames carry *)

\* A remainder, one turn up at most.
LEMMA ModSmall ==
    ASSUME NEW t \in Nat \ {0}, NEW a \in 0..(2 * t - 1)
    PROVE  a % t = IF a < t THEN a ELSE a - t
  OBVIOUS

\* The smaller and the greater of two numbers.
LEMMA MinMax2 ==
    ASSUME NEW a \in Nat, NEW b \in Nat
    PROVE  /\ Min({a, b}) = IF a <= b THEN a ELSE b
           /\ Max({a, b}) = IF a <= b THEN b ELSE a
  BY DEF Min, Max

\* How far frame f lies behind the newest one, x being the number of the next.
AgeAt(x, f) == (x + Tags - 1 - f) % Tags

\* Ages are below Tags, and the newest frame has age 0.
LEMMA AgeValue ==
    ASSUME NEW x \in Frame, NEW f \in Frame
    PROVE  AgeAt(x, f) = IF f < x THEN x - 1 - f ELSE x + Tags - 1 - f
<1>1. Tags \in Nat \ {0} /\ x \in 0..(Tags - 1) /\ f \in 0..(Tags - 1)
  BY PlayoutAssumption DEF Frame
<1>2. x + Tags - 1 - f \in 0..(2 * Tags - 1)
  BY <1>1
<1>3. AgeAt(x, f) = IF x + Tags - 1 - f < Tags THEN x + Tags - 1 - f
                    ELSE (x + Tags - 1 - f) - Tags
  BY <1>1, <1>2, ModSmall DEF AgeAt
<1>4. QED
  BY <1>1, <1>3

\* When n more frames are decoded, a frame that is less than Tags behind has its age raised by
\* n, and the i-th of the new ones comes n - i behind.
LEMMA AgeAfter ==
    ASSUME NEW x \in Frame, NEW n \in Nat, n < Tags
    PROVE  /\ (x + n) % Tags \in Frame
           /\ \A f \in Frame : AgeAt(x, f) + n < Tags =>
                  AgeAt((x + n) % Tags, f) = AgeAt(x, f) + n
           /\ \A i \in 1..n : /\ (x + i - 1) % Tags \in Frame
                              /\ AgeAt((x + n) % Tags, (x + i - 1) % Tags) = n - i
<1>1. Tags \in Nat \ {0} /\ x \in 0..(Tags - 1)
  BY PlayoutAssumption DEF Frame
<1> DEFINE y == (x + n) % Tags
<1>2. y = IF x + n < Tags THEN x + n ELSE x + n - Tags
  <2>1. x + n \in 0..(2 * Tags - 1)
    BY <1>1
  <2>2. \A a \in 0..(2 * Tags - 1) : a % Tags = IF a < Tags THEN a ELSE a - Tags
    BY <1>1, ModSmall
  <2>3. QED
    BY <1>1, <2>1, <2>2
<1> HIDE DEF y
<1>3. y \in Frame /\ y \in 0..(Tags - 1)
  BY <1>1, <1>2 DEF Frame
<1>4. ASSUME NEW f \in Frame, AgeAt(x, f) + n < Tags
      PROVE  AgeAt(y, f) = AgeAt(x, f) + n
  <2>1. f \in 0..(Tags - 1)
    BY DEF Frame
  <2>2. /\ AgeAt(x, f) = IF f < x THEN x - 1 - f ELSE x + Tags - 1 - f
        /\ AgeAt(y, f) = IF f < y THEN y - 1 - f ELSE y + Tags - 1 - f
    BY <1>3, AgeValue
  <2>3. QED
    BY <1>1, <1>2, <1>3, <1>4, <2>1, <2>2
<1>5. ASSUME NEW i \in 1..n
      PROVE  (x + i - 1) % Tags \in Frame /\ AgeAt(y, (x + i - 1) % Tags) = n - i
  <2> DEFINE f == (x + i - 1) % Tags
  <2>1. f = IF x + i - 1 < Tags THEN x + i - 1 ELSE x + i - 1 - Tags
    <3>1. x + i - 1 \in 0..(2 * Tags - 1)
      BY <1>1
    <3>2. \A a \in 0..(2 * Tags - 1) : a % Tags = IF a < Tags THEN a ELSE a - Tags
      BY <1>1, ModSmall
    <3>3. QED
      BY <1>1, <3>1, <3>2
  <2> HIDE DEF f
  <2>2. f \in Frame /\ f \in 0..(Tags - 1)
    BY <1>1, <2>1 DEF Frame
  <2>3. AgeAt(y, f) = IF f < y THEN y - 1 - f ELSE y + Tags - 1 - f
    BY <1>3, <2>2, AgeValue
  <2>4. AgeAt(y, f) = n - i
    BY <1>1, <1>2, <1>3, <2>1, <2>2, <2>3
  <2>5. QED
    BY <2>2, <2>4 DEF f
<1>6. QED
  BY <1>3, <1>4, <1>5 DEF y

-----------------------------------------------------------------------------
(* PcmBuffer *)

\* A queue that counts its frames right.
Counted(p) ==
    p \in [chunks : Seq(Chunk), frames : Nat] /\ Queue(p.chunks) /\ p.frames = Held(p.chunks)

\* A queue that holds the newest frames, in order: its last one was the last decoded.
Newest(p, x) == \A j \in 1..p.frames : AgeAt(x, FrameAt(p.chunks, j)) = p.frames - j

\* A counted queue has the parts of one.
LEMMA CountedParts ==
    ASSUME NEW p, Counted(p)
    PROVE  /\ Queue(p.chunks) /\ p.frames = Held(p.chunks) /\ p.frames \in Nat
           /\ p.chunks \in Seq(Chunk)
  BY DEF Counted

\* Dropping n frames from the front leaves a counted queue that holds the newest frames
\* (pop_into, enforce_hard_cap).
LEMMA DropKeeps ==
    ASSUME NEW p, Counted(p), NEW n \in 0..p.frames,
           NEW q, q = [chunks |-> Advance(p.chunks, n), frames |-> p.frames - n]
    PROVE  /\ Counted(q) /\ q.frames = p.frames - n
           /\ \A x : Newest(p, x) => Newest(q, x)
<1> DEFINE d == Advance(p.chunks, n)
<1>1. Queue(p.chunks) /\ p.frames = Held(p.chunks) /\ p.frames \in Nat /\ n \in Nat
  BY CountedParts
<1>2. Queue(d) /\ Held(d) = p.frames - n
  BY <1>1, AdvanceHeld
<1>3. q.chunks = d /\ q.frames = p.frames - n /\ q.frames \in Nat
  BY <1>1
<1> HIDE DEF d
<1>4. q = [chunks |-> d, frames |-> q.frames] /\ d \in Seq(Chunk)
  BY <1>2, <1>3 DEF Queue, d
<1>5. Counted(q)
  BY <1>2, <1>3, <1>4 DEF Counted
<1>6. ASSUME NEW x, Newest(p, x), NEW j \in 1..q.frames
      PROVE  AgeAt(x, FrameAt(q.chunks, j)) = q.frames - j
  <2>1. j \in 1..Held(d)
    BY <1>2, <1>3
  <2>2. n + j \in 1..p.frames /\ FrameAt(d, j) = FrameAt(p.chunks, n + j)
    BY <2>1, <1>1, AdvanceShifts DEF d
  <2>3. AgeAt(x, FrameAt(p.chunks, n + j)) = p.frames - (n + j)
    BY <2>2, <1>6 DEF Newest
  <2>4. p.frames - (n + j) = q.frames - j
    BY <1>1, <1>3
  <2>5. QED
    BY <2>2, <2>3, <2>4, <1>3
<1>7. QED
  BY <1>3, <1>5, <1>6 DEF Newest

\* Asked for no more frames than are queued, pop_into gives just as many, the oldest.
LEMMA PopIntoGives ==
    ASSUME NEW p, Counted(p), NEW n \in 0..p.frames
    PROVE  /\ PopInto(p, n).out = [j \in 1..n |-> FrameAt(p.chunks, j)]
           /\ \A j \in 1..n : FrameAt(p.chunks, j) \in Frame
           /\ Counted(PopInto(p, n).pcm) /\ PopInto(p, n).pcm.frames = p.frames - n
           /\ \A x : Newest(p, x) => Newest(PopInto(p, n).pcm, x)
<1>1. Queue(p.chunks) /\ p.frames = Held(p.chunks) /\ p.frames \in Nat /\ n \in Nat /\ n <= p.frames
  BY CountedParts
<1>2. Min({n, p.frames, Held(p.chunks)}) = n
  <2>1. {n, p.frames, Held(p.chunks)} = {n, p.frames}
    BY <1>1
  <2>2. QED
    BY <2>1, <1>1, MinMax2
<1>3. PopInto(p, n) = [out |-> FirstFrames(p.chunks, n),
                       pcm |-> [chunks |-> Advance(p.chunks, n), frames |-> p.frames - n]]
  BY <1>2 DEF PopInto
<1>4. FirstFrames(p.chunks, n) = [j \in 1..n |-> FrameAt(p.chunks, j)]
  BY DEF FirstFrames, FrameAt
<1>5. \A j \in 1..n : FrameAt(p.chunks, j) \in Frame
  <2>1. \A j \in 1..n : j \in 1..Held(p.chunks)
    BY <1>1
  <2>2. QED
    BY <2>1, <1>1, FramePlace
<1>6. PopInto(p, n).pcm = [chunks |-> Advance(p.chunks, n), frames |-> p.frames - n]
  BY <1>3
<1>7. /\ Counted(PopInto(p, n).pcm) /\ PopInto(p, n).pcm.frames = p.frames - n
      /\ \A x : Newest(p, x) => Newest(PopInto(p, n).pcm, x)
  BY <1>6, DropKeeps
<1>8. PopInto(p, n).out = [j \in 1..n |-> FrameAt(p.chunks, j)]
  BY <1>3, <1>4
<1>9. QED
  BY <1>5, <1>7, <1>8

\* enforce_hard_cap leaves the newest frames, no more than the cap.
LEMMA HardCapKeeps ==
    ASSUME NEW p, Counted(p), NEW q, q = EnforceHardCap(p)
    PROVE  /\ Counted(q) /\ q.frames <= CapFrames
           /\ q.frames = IF p.frames <= CapFrames THEN p.frames ELSE CapFrames
           /\ \A x : Newest(p, x) => Newest(q, x)
<1>1. CapFrames \in Nat
  BY PlayoutAssumption DEF CapFrames
<1>2. p.frames \in Nat
  BY CountedParts
<1>3. CASE p.frames <= CapFrames
  <2>1. q = p
    BY <1>3 DEF EnforceHardCap
  <2>2. QED
    BY <2>1, <1>3
<1>4. CASE ~(p.frames <= CapFrames)
  <2>1. p.frames - CapFrames \in 0..p.frames /\ p.frames - (p.frames - CapFrames) = CapFrames
    BY <1>1, <1>2, <1>4
  <2>2. q = [chunks |-> Advance(p.chunks, p.frames - CapFrames), frames |-> CapFrames]
    BY <1>4 DEF EnforceHardCap
  <2>3. q = [chunks |-> Advance(p.chunks, p.frames - CapFrames),
             frames |-> p.frames - (p.frames - CapFrames)]
    BY <2>1, <2>2
  <2>4. /\ Counted(q) /\ q.frames = CapFrames
        /\ \A x : Newest(p, x) => Newest(q, x)
    BY <2>1, <2>3, DropKeeps
  <2>5. QED
    BY <2>4, <1>1, <1>4
<1>5. QED
  BY <1>3, <1>4

\* A chunk appended to a counted queue (push).
LEMMA PushExtends ==
    ASSUME NEW p, Counted(p), NEW s \in Seq(Frame), s # <<>>,
           NEW d, d = Append(p.chunks, [samples |-> s, frame_offset |-> 0])
    PROVE  /\ Queue(d) /\ Held(d) = p.frames + Len(s)
           /\ \A j \in 1..p.frames : FrameAt(d, j) = FrameAt(p.chunks, j)
           /\ \A i \in 1..Len(s) : FrameAt(d, p.frames + i) = s[i]
<1> DEFINE c == p.chunks
<1>1. Queue(c) /\ p.frames = Held(c) /\ d = Append(c, [samples |-> s, frame_offset |-> 0])
  BY CountedParts
<1> HIDE DEF c
<1>2. /\ Queue(d) /\ Held(d) = Held(c) + Len(s)
      /\ \A j \in 1..Held(c) : FrameAt(d, j) = FrameAt(c, j)
      /\ \A i \in 1..Len(s) : FrameAt(d, Held(c) + i) = s[i]
  BY <1>1, AppendExtends
<1>3. QED
  BY <1>1, <1>2 DEF c

\* The frames that a packet adds to the queue, once pre_skip took its share (decode_packet).
Samples(x, n, skip) == [i \in 1..(n - skip) |-> (x + skip + i - 1) % Tags]

\* They are the newest ones, in order.
LEMMA SamplesNewest ==
    ASSUME NEW x \in Frame, NEW n \in Nat, n < Tags, NEW skip \in 0..n
    PROVE  /\ Samples(x, n, skip) \in Seq(Frame) /\ Len(Samples(x, n, skip)) = n - skip
           /\ \A i \in 1..(n - skip) :
                  AgeAt((x + n) % Tags, Samples(x, n, skip)[i]) = (n - skip) - i
<1> DEFINE y == (x + n) % Tags
           g(i) == (x + skip + i - 1) % Tags
<1>1. x \in Nat /\ Tags \in Nat
  BY PlayoutAssumption DEF Frame
<1>2. \A i \in 1..n : (x + i - 1) % Tags \in Frame /\ AgeAt(y, (x + i - 1) % Tags) = n - i
  BY AgeAfter
<1> HIDE DEF y
<1>3. ASSUME NEW i \in 1..(n - skip)
      PROVE  g(i) \in Frame /\ AgeAt(y, g(i)) = (n - skip) - i
  <2>1. skip + i \in 1..n /\ x + (skip + i) - 1 = x + skip + i - 1
        /\ n - (skip + i) = (n - skip) - i
    BY <1>1
  <2>2. /\ (x + (skip + i) - 1) % Tags \in Frame
        /\ AgeAt(y, (x + (skip + i) - 1) % Tags) = n - (skip + i)
    BY <2>1, <1>2
  <2>3. (x + (skip + i) - 1) % Tags = g(i)
    BY <2>1
  <2> HIDE DEF g
  <2>4. QED
    BY <2>1, <2>2, <2>3
<1>4. PICK m \in Nat : m = n - skip
  OBVIOUS
<1>5. Samples(x, n, skip) = [i \in 1..m |-> g(i)]
  BY <1>4 DEF Samples
<1> HIDE DEF g
<1>6. [i \in 1..m |-> g(i)] \in [1..m -> Frame]
  BY <1>3, <1>4
<1>7. Samples(x, n, skip) \in Seq(Frame) /\ Len(Samples(x, n, skip)) = m
  <2> DEFINE s == Samples(x, n, skip)
  <2>1. s \in [1..m -> Frame] /\ m \in Nat
    BY <1>4, <1>5, <1>6
  <2> HIDE DEF s
  <2>2. s \in Seq(Frame) /\ Len(s) = m
    BY <2>1
  <2>3. QED
    BY <2>2 DEF s
<1>8. \A i \in 1..m : Samples(x, n, skip)[i] = g(i)
  BY <1>5
<1>9. QED
  BY <1>3, <1>4, <1>7, <1>8 DEF y

\* Once n more frames are decoded, y is the number of the next.
Later(x, y, n) == \A f \in Frame : AgeAt(x, f) + n < Tags => AgeAt(y, f) = AgeAt(x, f) + n

\* m samples are the newest ones, in order.
Follow(s, y, m) ==
    /\ s \in Seq(Frame) /\ Len(s) = m
    /\ \A i \in 1..m : AgeAt(y, s[i]) = m - i

\* A packet's frames are queued behind the newest ones; what pre_skip takes of them is the start
\* of the stream, when nothing is queued yet (push, decode_packet).
LEMMA PushKeeps ==
    ASSUME NEW p, Counted(p), p.frames <= CapFrames,
           NEW x \in Frame, Newest(p, x),
           NEW n \in PacketFrames, NEW skip \in 0..n, skip # 0 => p.frames = 0,
           NEW q, q = PcmPush(p, Samples(x, n, skip))
    PROVE  /\ Counted(q) /\ q.frames = p.frames + (n - skip)
           /\ (x + n) % Tags \in Frame /\ Newest(q, (x + n) % Tags)
<1>1. /\ Tags \in Nat \ {0} /\ n \in Nat /\ CapFrames + n < Tags /\ CapFrames \in Nat
      /\ p.frames \in Nat /\ skip \in Nat /\ n - skip \in Nat
  BY CountedParts, PlayoutAssumption DEF CapFrames
<1>2. n < Tags /\ p.frames + n < Tags
  BY <1>1
<1>3. PICK y : y = (x + n) % Tags
  OBVIOUS
<1>4. PICK s : s = Samples(x, n, skip)
  OBVIOUS
<1>5. y \in Frame /\ Later(x, y, n)
  BY <1>1, <1>2, <1>3, AgeAfter DEF Later
<1>6. Follow(s, y, n - skip) /\ s \in Seq(Frame) /\ Len(s) = n - skip
  BY <1>1, <1>2, <1>3, <1>4, SamplesNewest DEF Follow
<1>7. q = PcmPush(p, s)
  BY <1>4
<1>8. ASSUME NEW j \in 1..p.frames
      PROVE  AgeAt(y, FrameAt(p.chunks, j)) = (p.frames - j) + n
  <2>1. FrameAt(p.chunks, j) \in Frame
    BY CountedParts, FramePlace
  <2>2. AgeAt(x, FrameAt(p.chunks, j)) = p.frames - j
    BY DEF Newest
  <2>3. (p.frames - j) + n < Tags
    BY <1>1, <1>2
  <2>4. QED
    BY <2>1, <2>2, <2>3, <1>5 DEF Later
<1>9. CASE s = <<>>
  <2>1. q = p
    BY <1>9, <1>7 DEF PcmPush
  <2>2. n = skip
    <3>1. Len(s) = 0
      BY <1>9
    <3>2. QED
      BY <3>1, <1>1, <1>6
  <2>3. ASSUME NEW j \in 1..p.frames PROVE AgeAt(y, FrameAt(p.chunks, j)) = p.frames - j
    <3>1. n = 0
      BY <2>2, <1>1
    <3>2. AgeAt(y, FrameAt(p.chunks, j)) = (p.frames - j) + n
      BY <1>8
    <3>3. QED
      BY <3>1, <3>2, <1>1
  <2>4. p.frames = p.frames + (n - skip)
    BY <2>2, <1>1
  <2>5. QED
    BY <2>1, <2>3, <2>4, <1>3, <1>5 DEF Newest
<1>10. CASE s # <<>>
  <2> DEFINE d == Append(p.chunks, [samples |-> s, frame_offset |-> 0])
  <2>1. Queue(p.chunks) /\ p.frames = Held(p.chunks)
    BY CountedParts
  <2>2. /\ Queue(d) /\ Held(d) = p.frames + Len(s)
        /\ \A j \in 1..p.frames : FrameAt(d, j) = FrameAt(p.chunks, j)
        /\ \A i \in 1..Len(s) : FrameAt(d, p.frames + i) = s[i]
    <3>1. s \in Seq(Frame) /\ s # <<>> /\ Counted(p)
      BY <1>6, <1>10
    <3>2. PICK e : e = Append(p.chunks, [samples |-> s, frame_offset |-> 0])
      OBVIOUS
    <3>3. /\ Queue(e) /\ Held(e) = p.frames + Len(s)
          /\ \A j \in 1..p.frames : FrameAt(e, j) = FrameAt(p.chunks, j)
          /\ \A i \in 1..Len(s) : FrameAt(e, p.frames + i) = s[i]
      BY <3>1, <3>2, PushExtends
    <3>4. QED
      BY <3>2, <3>3
  <2>3. q = [chunks |-> d, frames |-> p.frames + Len(s)]
    BY <1>10, <1>7 DEF PcmPush
  <2> HIDE DEF d
  <2>4. d \in Seq(Chunk) /\ p.frames + Len(s) \in Nat
    BY <2>2, <1>1, <1>6 DEF Queue
  <2>5. q \in [chunks : Seq(Chunk), frames : Nat] /\ q.chunks = d /\ q.frames = p.frames + Len(s)
    BY <2>3, <2>4
  <2>6. Counted(q) /\ q.frames = p.frames + (n - skip)
    BY <2>2, <2>5, <1>6 DEF Counted
  <2>7. ASSUME NEW j \in 1..q.frames PROVE AgeAt(y, FrameAt(d, j)) = q.frames - j
    <3>1. CASE j <= p.frames
      <4>1. j \in 1..p.frames
        BY <3>1, <1>1
      <4>2. AgeAt(y, FrameAt(d, j)) = (p.frames - j) + n
        BY <4>1, <2>2, <1>8
      <4>3. skip = 0
        BY <4>1, <1>1
      <4>4. QED
        BY <4>2, <4>3, <2>6, <1>1
    <3>2. CASE ~(j <= p.frames)
      <4> DEFINE i == j - p.frames
      <4>1. i \in 1..(n - skip) /\ i \in 1..Len(s) /\ p.frames + i = j
        BY <3>2, <2>6, <1>1, <1>6
      <4>2. FrameAt(d, j) = s[i]
        <5>1. FrameAt(d, p.frames + i) = s[i]
          BY <4>1, <2>2
        <5>2. QED
          BY <5>1, <4>1
      <4>3. AgeAt(y, FrameAt(d, j)) = (n - skip) - i
        BY <4>1, <4>2, <1>6 DEF Follow
      <4>4. QED
        BY <4>3, <2>6, <1>1
    <3>3. QED
      BY <3>1, <3>2
  <2>8. QED
    BY <2>5, <2>6, <2>7, <1>3, <1>5 DEF Newest
<1>11. QED
  BY <1>9, <1>10

-----------------------------------------------------------------------------
(* The inductive invariant *)

\* The queue is counted right and holds the newest frames; the one handed over last is the one
\* before its first, or further back when frames were skipped since; while pre_skip still takes
\* frames, nothing was queued.
PlayoutInv ==
    /\ PlayoutTypeOK
    /\ Newest(pcm, next)
    /\ skipped => pcm.frames <= last
    /\ ~skipped => pcm.frames = last
    /\ pre_skip > 0 => pcm.frames = 0 /\ ~playing /\ skipped

\* What the type invariant says, with the queue in one part.
PlayoutTypes ==
    /\ running \in BOOLEAN /\ playing \in BOOLEAN /\ skipped \in BOOLEAN
    /\ Counted(pcm) /\ pcm.frames <= CapFrames
    /\ target \in MinTarget..MaxTarget
    /\ padding \in 0..BufferFrames /\ pre_skip \in 0..PreSkip /\ faults \in 0..MaxFaults
    /\ next \in Frame /\ written \in Seq(Frame \cup {SilentFrame}) /\ last \in 0..Tags

\* The two are the same: a counted queue is one whose chunks add up (PcmBuffer).
LEMMA PlayoutTyped ==
    PlayoutTypeOK <=> PlayoutTypes
<1>1. ASSUME NEW c \in Seq(Chunk)
      PROVE  Queue(c) <=> \A i \in DOMAIN c : Left(c[i]) > 0
  BY DEF Queue
<1>2. Counted(pcm) <=>
          /\ pcm \in [chunks : Seq([samples : Seq(Frame), frame_offset : Nat]), frames : Nat]
          /\ \A i \in DOMAIN pcm.chunks : Left(pcm.chunks[i]) > 0
          /\ pcm.frames = Held(pcm.chunks)
  <2>1. CASE pcm \in [chunks : Seq(Chunk), frames : Nat]
    <3>1. pcm.chunks \in Seq(Chunk)
      BY <2>1
    <3>2. QED
      BY <2>1, <3>1, <1>1 DEF Counted, Chunk
  <2>2. CASE ~(pcm \in [chunks : Seq(Chunk), frames : Nat])
    BY <2>2 DEF Counted, Chunk
  <2>3. QED
    BY <2>1, <2>2
<1>3. QED
  BY <1>2 DEF PlayoutTypeOK, PlayoutTypes

\* Pipeline::new starts with an empty queue and a device that was handed nothing.
LEMMA InitPlayoutInv ==
    PlayoutInit => PlayoutInv
<1> SUFFICES ASSUME PlayoutInit PROVE PlayoutInv
  OBVIOUS
<1>1. /\ running = TRUE /\ pcm = [chunks |-> <<>>, frames |-> 0] /\ target = StartTarget
      /\ playing = FALSE /\ padding = 0 /\ pre_skip = PreSkip /\ faults = 0
      /\ next = 0 /\ written = <<>> /\ last = Tags /\ skipped = TRUE
  BY DEF PlayoutInit
<1>2. /\ Tags \in Nat \ {0} /\ StartTarget \in MinTarget..MaxTarget
      /\ BufferFrames \in Nat /\ PreSkip \in Nat /\ MaxFaults \in Nat /\ CapFrames \in Nat
  BY PlayoutAssumption DEF CapFrames
<1>3. Counted(pcm) /\ pcm.frames = 0
  <2>1. pcm.chunks = <<>> /\ pcm.frames = 0 /\ Len(pcm.chunks) = 0
    BY <1>1
  <2>2. Held(pcm.chunks) = 0
    BY <2>1, HeldInStep DEF Held
  <2>3. Queue(pcm.chunks)
    <3>1. pcm.chunks \in Seq(Chunk) /\ 1..Len(pcm.chunks) = {}
      BY <2>1
    <3>2. QED
      BY <3>1 DEF Queue
  <2>4. pcm \in [chunks : Seq(Chunk), frames : Nat]
    BY <1>1
  <2>5. QED
    BY <2>1, <2>2, <2>3, <2>4 DEF Counted
<1>4. PlayoutTypeOK
  <2>1. next \in Frame /\ last \in 0..Tags
    BY <1>1, <1>2 DEF Frame
  <2>2. written \in Seq(Frame \cup {SilentFrame})
    BY <1>1
  <2>3. /\ padding \in 0..BufferFrames /\ pre_skip \in 0..PreSkip /\ faults \in 0..MaxFaults
        /\ target \in MinTarget..MaxTarget /\ pcm.frames <= CapFrames
    BY <1>1, <1>2, <1>3
  <2>4. running \in BOOLEAN /\ playing \in BOOLEAN /\ skipped \in BOOLEAN
    BY <1>1
  <2>5. QED
    BY <2>1, <2>2, <2>3, <2>4, <1>3, PlayoutTyped DEF PlayoutTypes
<1>5. 1..pcm.frames = {}
  BY <1>3
<1>6. Newest(pcm, next)
  BY <1>5 DEF Newest
<1>7. QED
  BY <1>1, <1>2, <1>3, <1>4, <1>6 DEF PlayoutInv

-----------------------------------------------------------------------------
(* AdaptiveJitter *)

\* Raised or lowered, the target stays between its bounds (underrun, update_stable).
LEMMA TargetBounds ==
    ASSUME NEW t \in MinTarget..MaxTarget
    PROVE  /\ Raised(t) \in MinTarget..MaxTarget
           /\ \A p95 \in 0..MaxJitter : Lowered(t, p95) \in MinTarget..MaxTarget
<1>1. /\ MinTarget \in Nat /\ MaxTarget \in Nat /\ MinTarget <= MaxTarget
      /\ UpStep \in Nat /\ DownStep \in Nat /\ MaxJitter \in Nat /\ t \in Nat
  BY PlayoutAssumption
<1>2. Raised(t) \in MinTarget..MaxTarget
  <2>1. t + UpStep \in Nat
    BY <1>1
  <2>2. Raised(t) = IF t + UpStep <= MaxTarget THEN t + UpStep ELSE MaxTarget
    BY <1>1, <2>1, MinMax2 DEF Raised
  <2>3. QED
    BY <1>1, <2>2
<1>3. ASSUME NEW p95 \in 0..MaxJitter PROVE Lowered(t, p95) \in MinTarget..MaxTarget
  <2> DEFINE floor == Min({MinTarget + 2 * p95, MaxTarget})
             down == Min({t, DownStep})
  <2>1. MinTarget + 2 * p95 \in Nat /\ MinTarget <= MinTarget + 2 * p95
    BY <1>1
  <2>2. floor = IF MinTarget + 2 * p95 <= MaxTarget THEN MinTarget + 2 * p95 ELSE MaxTarget
    BY <1>1, <2>1, MinMax2
  <2>3. down = IF t <= DownStep THEN t ELSE DownStep
    BY <1>1, MinMax2
  <2>4. Lowered(t, p95) = IF t > floor THEN Max({t - down, floor}) ELSE t
    BY DEF Lowered
  <2> HIDE DEF floor, down
  <2>5. floor \in MinTarget..MaxTarget /\ floor \in Nat
    BY <1>1, <2>1, <2>2
  <2>6. t - down \in Nat /\ t - down <= t
    BY <1>1, <2>3
  <2>7. Max({t - down, floor}) = IF t - down <= floor THEN floor ELSE t - down
    BY <2>5, <2>6, MinMax2
  <2>8. QED
    BY <1>1, <2>4, <2>5, <2>6, <2>7
<1>4. QED
  BY <1>2, <1>3

\* Every target that service_output may find is one of these.
LEMMA TargetsBounds ==
    ASSUME PlayoutTypeOK, NEW t \in Targets
    PROVE  t \in MinTarget..MaxTarget /\ t \in Nat /\ t > 0
<1>1. target \in MinTarget..MaxTarget
  BY PlayoutTyped DEF PlayoutTypes
<1>2. t \in MinTarget..MaxTarget
  BY <1>1, TargetBounds DEF Targets
<1>3. MinTarget \in Nat \ {0} /\ MaxTarget \in Nat
  BY PlayoutAssumption
<1>4. QED
  BY <1>2, <1>3

\* A target is a positive time, so the device never starts on an empty queue.
LEMMA ReadyQueue ==
    ASSUME PlayoutTypeOK, NEW t \in Targets, Ready(t)
    PROVE  pcm.frames > 0
<1>1. pcm.frames \in Nat
  BY PlayoutTyped, CountedParts DEF PlayoutTypes
<1>2. t \in Nat /\ t > 0
  BY TargetsBounds
<1>3. pcm.frames \div FramesPerMs >= t
  BY DEF Ready, LatencyMs
<1>4. FramesPerMs \in Nat \ {0}
  BY PlayoutAssumption
<1>5. 0 \div FramesPerMs = 0
  BY <1>4
<1>6. pcm.frames # 0
  BY <1>2, <1>3, <1>5
<1>7. QED
  BY <1>1, <1>6

-----------------------------------------------------------------------------
(* The audio thread *)

\* What HeardInOrder says of a step.
HeardStep ==
    written' # <<>> =>
        /\ \A i \in DOMAIN written' :
              written'[i] # SilentFrame /\ Age(written'[i]) + i = Age(written'[1]) + 1
        /\ IF skipped THEN Age(written'[1]) < last ELSE Age(written'[1]) + 1 = last

\* What a step must keep of the queue, next to the other variables' types.
QueueKept ==
    /\ Counted(pcm') /\ pcm'.frames <= CapFrames /\ Newest(pcm', next')
    /\ last' \in 0..Tags /\ skipped' \in BOOLEAN
    /\ skipped' => pcm'.frames <= last'
    /\ ~skipped' => pcm'.frames = last'

\* The parts of the invariant that the actions read.
LEMMA PlayoutParts ==
    ASSUME PlayoutInv
    PROVE  /\ PlayoutTypeOK /\ Newest(pcm, next)
           /\ skipped => pcm.frames <= last
           /\ ~skipped => pcm.frames = last
           /\ pre_skip > 0 => pcm.frames = 0 /\ ~playing /\ skipped
           /\ running \in BOOLEAN /\ playing \in BOOLEAN /\ skipped \in BOOLEAN
           /\ Counted(pcm) /\ pcm.frames \in Nat /\ pcm.frames <= CapFrames
           /\ target \in MinTarget..MaxTarget
           /\ padding \in 0..BufferFrames /\ pre_skip \in 0..PreSkip /\ faults \in 0..MaxFaults
           /\ next \in Frame /\ last \in 0..Tags
           /\ written \in Seq(Frame \cup {SilentFrame})
<1>1. PlayoutTypeOK
  BY DEF PlayoutInv
<1>2. Counted(pcm) /\ pcm.frames \in Nat
  BY <1>1, PlayoutTyped, CountedParts DEF PlayoutTypes
<1>3. QED
  BY <1>1, <1>2, PlayoutTyped DEF PlayoutInv, PlayoutTypes

\* The constants that the actions' arithmetic is about.
LEMMA PlayoutNumbers ==
    /\ Tags \in Nat /\ Tags > 0 /\ CapFrames \in Nat
    /\ BufferFrames \in Nat /\ BufferFrames > 0
    /\ PreSkip \in Nat /\ MaxFaults \in Nat
  BY PlayoutAssumption DEF CapFrames

\* write_frames, asked for no more than is queued: the device gets the oldest frames, in order,
\* the first of them right behind the last it got unless frames were skipped since.
LEMMA WriteHeard ==
    ASSUME PlayoutInv, NEW n \in Nat, n <= pcm.frames, Write(n)
    PROVE  /\ QueueKept /\ HeardStep
           /\ written' \in Seq(Frame \cup {SilentFrame})
           /\ padding' = padding + n
           /\ UNCHANGED <<running, pre_skip, faults, next>>
           /\ n = 0 => skipped' = skipped
           /\ pcm'.frames = pcm.frames - n
<1> DEFINE f(i) == FrameAt(pcm.chunks, i)
           q == PopInto(pcm, n)
<1>1. /\ Newest(pcm, next) /\ Counted(pcm) /\ pcm.frames \in Nat /\ pcm.frames <= CapFrames
      /\ skipped \in BOOLEAN /\ last \in 0..Tags /\ next \in Frame
      /\ skipped => pcm.frames <= last
      /\ ~skipped => pcm.frames = last
  BY PlayoutParts
<1>2. /\ q.out = [i \in 1..n |-> f(i)] /\ \A i \in 1..n : f(i) \in Frame
      /\ Counted(q.pcm) /\ q.pcm.frames = pcm.frames - n /\ Newest(q.pcm, next)
  <2>1. n \in 0..pcm.frames
    BY <1>1
  <2>2. QED
    BY <1>1, <2>1, PopIntoGives
<1>3. /\ pcm' = q.pcm /\ padding' = padding + n /\ written' = Batch(q.out, n)
      /\ n > 0 => last' = Age(Batch(q.out, n)[n]) /\ skipped' = FALSE
      /\ ~(n > 0) => last' = last /\ skipped' = skipped
      /\ UNCHANGED <<running, pre_skip, faults, next>>
  BY DEF Write
<1>4. \A i \in 1..n : AgeAt(next, f(i)) = pcm.frames - i
  <2>1. \A i \in 1..n : i \in 1..pcm.frames
    BY <1>1
  <2>2. QED
    BY <1>1, <2>1 DEF Newest
<1> HIDE DEF f, q
<1>5. Len(q.out) = n
  <2>1. [i \in 1..n |-> f(i)] \in [1..n -> Frame]
    BY <1>2
  <2> DEFINE s == q.out
  <2>2. s \in [1..n -> Frame]
    BY <1>2, <2>1
  <2> HIDE DEF s
  <2>3. Len(s) = n
    BY <2>2
  <2>4. QED
    BY <2>3 DEF s
<1>6. /\ DOMAIN written' = 1..n
      /\ \A i \in 1..n : written'[i] = f(i)
  <2>1. \A i \in 1..n : q.out[i] = f(i)
    BY <1>2
  <2>2. written' = [i \in 1..n |-> IF i <= n THEN q.out[i] ELSE SilentFrame]
    BY <1>3, <1>5 DEF Batch
  <2>3. ASSUME NEW i \in 1..n PROVE written'[i] = f(i)
    BY <2>1, <2>2
  <2>4. QED
    BY <2>2, <2>3
<1>7. written' \in Seq(Frame \cup {SilentFrame})
  <2>1. written' = [i \in 1..n |-> IF i <= Len(q.out) THEN q.out[i] ELSE SilentFrame]
    BY <1>3 DEF Batch
  <2>2. written' \in [1..n -> Frame \cup {SilentFrame}]
    BY <1>2, <1>6, <2>1
  <2>3. PICK s : s = written'
    OBVIOUS
  <2>4. s \in Seq(Frame \cup {SilentFrame})
    BY <2>2, <2>3
  <2>5. QED
    BY <2>3, <2>4
<1>8. HeardStep
  <2>1. SUFFICES ASSUME written' # <<>>
        PROVE  /\ \A i \in DOMAIN written' :
                    written'[i] # SilentFrame /\ Age(written'[i]) + i = Age(written'[1]) + 1
               /\ IF skipped THEN Age(written'[1]) < last ELSE Age(written'[1]) + 1 = last
    BY DEF HeardStep
  <2>2. n # 0
    <3>1. SUFFICES ASSUME n = 0 PROVE FALSE
      OBVIOUS
    <3>2. Len(written') = 0
      BY <3>1, <1>6, <1>7
    <3>3. QED
      BY <2>1, <3>2, <1>7
  <2>3. 1 \in 1..n /\ Age(written'[1]) = pcm.frames - 1
    BY <2>2, <1>4, <1>6 DEF Age, AgeAt
  <2>4. ASSUME NEW i \in 1..n
        PROVE  written'[i] # SilentFrame /\ Age(written'[i]) + i = Age(written'[1]) + 1
    <3>1. written'[i] = f(i) /\ f(i) \in Frame /\ Age(f(i)) = pcm.frames - i
      BY <1>2, <1>4, <1>6 DEF Age, AgeAt
    <3>2. f(i) # SilentFrame
      BY <3>1, PlayoutNumbers DEF Frame, SilentFrame
    <3>3. QED
      BY <3>1, <3>2, <2>3, <1>1
  <2>5. IF skipped THEN Age(written'[1]) < last ELSE Age(written'[1]) + 1 = last
    BY <2>3, <1>1, PlayoutNumbers
  <2>6. QED
    BY <2>4, <2>5, <1>6
<1>9. QueueKept
  <2>1. Counted(pcm') /\ pcm'.frames = pcm.frames - n /\ Newest(pcm', next')
    BY <1>2, <1>3
  <2>2. CASE n > 0
    <3>1. n \in 1..n /\ skipped' = FALSE
      BY <2>2, <1>3
    <3>2. last' = Age(f(n))
      <4>1. Batch(q.out, n)[n] = f(n)
        BY <3>1, <1>3, <1>6
      <4>2. QED
        BY <4>1, <2>2, <1>3
    <3>3. last' = pcm.frames - n
      BY <3>1, <3>2, <1>4 DEF Age, AgeAt
    <3>4. f(n) \in 0..(Tags - 1) /\ next \in 0..(Tags - 1)
      BY <3>1, <1>1, <1>2 DEF Frame
    <3>5. last' \in 0..Tags
      <4>1. AgeAt(next, f(n)) = IF f(n) < next THEN next - 1 - f(n) ELSE next + Tags - 1 - f(n)
        BY <3>1, <1>1, <1>2, AgeValue
      <4>2. last' = AgeAt(next, f(n))
        BY <3>2 DEF Age, AgeAt
      <4>3. QED
        BY <4>1, <4>2, <3>4, PlayoutNumbers
    <3>6. pcm'.frames <= CapFrames
      BY <2>1, <1>1, PlayoutNumbers
    <3>7. pcm'.frames = last'
      BY <2>1, <3>3
    <3>8. QED
      BY <2>1, <3>1, <3>5, <3>6, <3>7 DEF QueueKept
  <2>3. CASE ~(n > 0)
    <3>1. n = 0 /\ last' = last /\ skipped' = skipped
      BY <2>3, <1>3
    <3>2. pcm'.frames = pcm.frames
      BY <2>1, <3>1, <1>1
    <3>3. QED
      BY <2>1, <3>1, <3>2, <1>1 DEF QueueKept
  <2>4. QED
    BY <2>2, <2>3
<1>10. QED
  BY <1>2, <1>3, <1>7, <1>8, <1>9

\* The invariant in the next state, from its parts.
LEMMA PlayoutInvNext ==
    ASSUME QueueKept, running' \in BOOLEAN, playing' \in BOOLEAN,
           target' \in MinTarget..MaxTarget, padding' \in 0..BufferFrames,
           pre_skip' \in 0..PreSkip, faults' \in 0..MaxFaults, next' \in Frame,
           written' \in Seq(Frame \cup {SilentFrame}),
           pre_skip' > 0 => pcm'.frames = 0 /\ ~playing' /\ skipped'
    PROVE  PlayoutInv'
<1>1. PlayoutTypeOK' <=> PlayoutTypes'
  BY PlayoutTyped, PTL
<1>2. PlayoutTypeOK'
  BY <1>1 DEF QueueKept, PlayoutTypes
<1>3. QED
  BY <1>2 DEF PlayoutInv, QueueKept

\* A step that leaves the queue and the history alone, and writes nothing.
LEMMA QueueUnchanged ==
    ASSUME PlayoutInv, UNCHANGED <<pcm, next, last, skipped>>, written' = <<>>
    PROVE  /\ QueueKept /\ HeardStep /\ written' \in Seq(Frame \cup {SilentFrame})
           /\ next' \in Frame /\ pcm'.frames = pcm.frames
<1>1. QueueKept
  BY PlayoutParts DEF QueueKept
<1>2. HeardStep
  BY DEF HeardStep
<1>3. written' \in Seq(Frame \cup {SilentFrame})
  OBVIOUS
<1>4. QED
  BY <1>1, <1>2, <1>3, PlayoutParts

\* decode_packet.
LEMMA DecodePacketInv ==
    ASSUME PlayoutInv, NEW n \in PacketFrames, DecodePacket(n)
    PROVE  PlayoutInv' /\ HeardStep
<1> DEFINE skip == Min({n, pre_skip})
           pushed == PcmPush(pcm, Samples(next, n, skip))
<1>1. /\ PlayoutTypeOK /\ Newest(pcm, next) /\ Counted(pcm)
      /\ pcm.frames \in Nat /\ pcm.frames <= CapFrames /\ next \in Frame /\ last \in 0..Tags
      /\ skipped => pcm.frames <= last
      /\ ~skipped => pcm.frames = last
      /\ pre_skip > 0 => pcm.frames = 0 /\ ~playing /\ skipped
      /\ running \in BOOLEAN /\ playing \in BOOLEAN /\ skipped \in BOOLEAN
      /\ target \in MinTarget..MaxTarget
      /\ padding \in 0..BufferFrames /\ pre_skip \in 0..PreSkip /\ faults \in 0..MaxFaults
  BY PlayoutParts
<1>2. n \in Nat /\ pre_skip \in Nat /\ CapFrames + n < Tags
  BY <1>1, PlayoutAssumption, PlayoutNumbers
<1>3. skip = IF n <= pre_skip THEN n ELSE pre_skip
  BY <1>2, MinMax2
<1>4. /\ pcm' = EnforceHardCap(pushed) /\ pre_skip' = pre_skip - skip
      /\ skipped' = (skipped \/ pushed.frames > CapFrames)
      /\ next' = (next + n) % Tags /\ last' = Min({last + n, Tags}) /\ written' = <<>>
      /\ UNCHANGED <<running, target, playing, padding, faults>>
  BY DEF DecodePacket, Samples
<1> HIDE DEF skip
<1>5. skip \in 0..n /\ skip \in Nat /\ skip <= pre_skip /\ (skip # 0 => pcm.frames = 0)
  BY <1>1, <1>2, <1>3
<1>6. /\ Counted(pushed) /\ pushed.frames = pcm.frames + (n - skip)
      /\ (next + n) % Tags \in Frame /\ Newest(pushed, (next + n) % Tags)
  BY <1>1, <1>5, PushKeeps
<1> HIDE DEF pushed
<1>7. /\ Counted(pcm') /\ pcm'.frames <= CapFrames
      /\ pcm'.frames = IF pushed.frames <= CapFrames THEN pushed.frames ELSE CapFrames
      /\ Newest(pcm', next') /\ next' \in Frame
  BY <1>4, <1>6, HardCapKeeps
<1>8. last' = IF last + n <= Tags THEN last + n ELSE Tags
  BY <1>1, <1>2, <1>4, PlayoutNumbers, MinMax2
<1>9. skipped' \in BOOLEAN
  BY <1>1, <1>4
<1>10. last' \in 0..Tags
  BY <1>1, <1>2, <1>8, PlayoutNumbers
<1>11. pcm'.frames \in Nat
  BY <1>7, CountedParts
<1>12. skipped' => pcm'.frames <= last'
  <2>1. pcm.frames <= last
    BY <1>1
  <2>2. pcm'.frames <= last'
    BY <2>1, <1>1, <1>2, <1>5, <1>6, <1>7, <1>8, PlayoutNumbers
  <2>3. QED
    BY <2>2
<1>13. ~skipped' => pcm'.frames = last'
  <2>1. SUFFICES ASSUME ~skipped' PROVE pcm'.frames = last'
    OBVIOUS
  <2>2. ~skipped /\ ~(pushed.frames > CapFrames)
    BY <2>1, <1>4
  <2>3. pcm.frames = last /\ ~(pre_skip > 0)
    BY <2>2, <1>1
  <2>4. skip = 0
    BY <2>3, <1>2, <1>5
  <2>5. QED
    BY <2>2, <2>3, <2>4, <1>1, <1>2, <1>6, <1>7, <1>8, PlayoutNumbers
<1>14. QueueKept
  BY <1>7, <1>9, <1>10, <1>12, <1>13 DEF QueueKept
<1>15. ASSUME pre_skip' > 0 PROVE pcm'.frames = 0 /\ ~playing' /\ skipped'
  <2>1. pre_skip > 0 /\ skip = n
    BY <1>15, <1>2, <1>3, <1>4
  <2>2. pcm.frames = 0 /\ ~playing /\ skipped
    BY <2>1, <1>1
  <2>3. pushed.frames = 0
    BY <2>1, <2>2, <1>2, <1>6
  <2>4. pcm'.frames = 0
    BY <2>3, <1>7, PlayoutNumbers
  <2>5. QED
    BY <2>2, <2>4, <1>4
<1>16. pre_skip' \in 0..PreSkip
  BY <1>1, <1>2, <1>4, <1>5, PlayoutNumbers
<1>17. written' \in Seq(Frame \cup {SilentFrame})
  BY <1>4
<1>18. PlayoutInv'
  BY <1>1, <1>4, <1>7, <1>14, <1>15, <1>16, <1>17, PlayoutInvNext
<1>19. HeardStep
  BY <1>4 DEF HeardStep
<1>20. QED
  BY <1>18, <1>19

\* service_output.
LEMMA ServicePlayoutInv ==
    ASSUME PlayoutInv, NEW t \in Targets, ServicePlayout(t)
    PROVE  PlayoutInv' /\ HeardStep
<1>1. /\ PlayoutTypeOK /\ pcm.frames \in Nat
      /\ pre_skip > 0 => pcm.frames = 0 /\ ~playing /\ skipped
      /\ running \in BOOLEAN /\ playing \in BOOLEAN /\ next \in Frame
      /\ target \in MinTarget..MaxTarget
      /\ padding \in 0..BufferFrames /\ pre_skip \in 0..PreSkip /\ faults \in 0..MaxFaults
  BY PlayoutParts
<1>2. t \in MinTarget..MaxTarget
  BY <1>1, TargetsBounds
<1>3. Available \in Nat /\ Available = BufferFrames - padding
  BY <1>1, PlayoutNumbers DEF Available
<1>4. ASSUME NEW n \in 0..BufferFrames, n <= pcm.frames, n <= Available, Write(n),
             ~(pre_skip > 0), target' \in MinTarget..MaxTarget, playing' \in BOOLEAN
      PROVE  PlayoutInv' /\ HeardStep
  <2>1. n \in Nat
    BY <1>4, PlayoutNumbers
  <2>2. /\ QueueKept /\ HeardStep
        /\ written' \in Seq(Frame \cup {SilentFrame})
        /\ padding' = padding + n
        /\ UNCHANGED <<running, pre_skip, faults, next>>
    BY <2>1, <1>4, WriteHeard
  <2>3. padding' \in 0..BufferFrames
    BY <2>1, <2>2, <1>1, <1>3, <1>4, PlayoutNumbers
  <2>4. QED
    BY <2>2, <2>3, <1>1, <1>4, PlayoutInvNext
<1>5. ASSUME StartPlaying(t) PROVE PlayoutInv' /\ HeardStep
  <2>1. PICK n \in 0..BufferFrames : n = Min({Available, pcm.frames}) /\ Write(n)
    BY <1>5 DEF StartPlaying
  <2>2. n <= pcm.frames /\ n <= Available
    BY <2>1, <1>1, <1>3, MinMax2
  <2>3. pcm.frames > 0
    BY <1>1, <1>5, ReadyQueue DEF StartPlaying
  <2>4. ~(pre_skip > 0)
    BY <2>3, <1>1
  <2>5. target' = t /\ playing' = TRUE
    BY <1>5 DEF StartPlaying
  <2>6. QED
    BY <2>1, <2>2, <2>4, <2>5, <1>2, <1>4
<1>6. ASSUME Refill(t) PROVE PlayoutInv' /\ HeardStep
  <2>1. PICK n \in 0..BufferFrames : n = Available /\ Write(n)
    BY <1>6 DEF Refill
  <2>2. playing /\ ~(pcm.frames < Available)
    BY <1>6 DEF Refill, Refills, Dry
  <2>3. n <= pcm.frames /\ n <= Available
    BY <2>1, <2>2, <1>1, <1>3
  <2>4. ~(pre_skip > 0)
    BY <2>2, <1>1
  <2>5. target' = t /\ playing' = playing
    BY <1>6 DEF Refill
  <2>6. QED
    BY <2>1, <2>3, <2>4, <2>5, <1>1, <1>2, <1>4
<1>7. ASSUME Underrun(t) PROVE PlayoutInv' /\ HeardStep
  <2>1. /\ target' = Raised(t) /\ playing' = FALSE /\ padding' = 0 /\ written' = <<>>
        /\ UNCHANGED <<running, pcm, pre_skip, faults, next, last, skipped>>
    BY <1>7 DEF Underrun
  <2>2. target' \in MinTarget..MaxTarget
    BY <2>1, <1>2, TargetBounds
  <2>3. /\ QueueKept /\ HeardStep /\ written' \in Seq(Frame \cup {SilentFrame})
        /\ next' \in Frame /\ pcm'.frames = pcm.frames
    BY <2>1, QueueUnchanged
  <2>4. padding' \in 0..BufferFrames
    BY <2>1, PlayoutNumbers
  <2>5. QED
    BY <2>1, <2>2, <2>3, <2>4, <1>1, PlayoutInvNext
<1>8. ASSUME Idle(t) PROVE PlayoutInv' /\ HeardStep
  <2>1. /\ target' = t /\ written' = <<>>
        /\ UNCHANGED <<running, pcm, playing, padding, pre_skip, faults, next, last, skipped>>
    BY <1>8 DEF Idle
  <2>2. /\ QueueKept /\ HeardStep /\ written' \in Seq(Frame \cup {SilentFrame})
        /\ next' \in Frame /\ pcm'.frames = pcm.frames
    BY <2>1, QueueUnchanged
  <2>3. QED
    BY <2>1, <2>2, <1>1, <1>2, PlayoutInvNext
<1>9. QED
  BY <1>5, <1>6, <1>7, <1>8 DEF ServicePlayout

\* rebuild_output: the device is lost before or after the frames that are due were taken.
LEMMA DeviceLostInv ==
    ASSUME PlayoutInv, NEW t \in Targets, NEW popped \in {0, Due(t)}, NEW late \in BOOLEAN,
           DeviceLost(t, popped, late)
    PROVE  PlayoutInv' /\ HeardStep
<1>1. /\ PlayoutTypeOK /\ pcm.frames \in Nat /\ pcm.frames <= CapFrames
      /\ Counted(pcm) /\ Newest(pcm, next)
      /\ pre_skip > 0 => pcm.frames = 0 /\ ~playing /\ skipped
      /\ skipped => pcm.frames <= last
      /\ ~skipped => pcm.frames = last
      /\ running \in BOOLEAN /\ skipped \in BOOLEAN /\ next \in Frame /\ last \in 0..Tags
      /\ padding \in 0..BufferFrames /\ pre_skip \in 0..PreSkip /\ faults \in 0..MaxFaults
  BY PlayoutParts
<1>2. /\ faults < MaxFaults /\ faults' = faults + 1
      /\ pcm' = PopInto(pcm, popped).pcm
      /\ target' = IF late /\ Dry THEN Raised(t) ELSE t
      /\ playing' = FALSE /\ padding' = 0 /\ written' = <<>>
      /\ skipped' = (skipped \/ popped > 0)
      /\ UNCHANGED <<running, pre_skip, next, last>>
  BY DEF DeviceLost
<1>3. popped \in 0..pcm.frames
  <2>1. Available \in Nat
    BY <1>1, PlayoutNumbers DEF Available
  <2>2. Min({Available, pcm.frames}) \in 0..pcm.frames
    BY <2>1, <1>1, MinMax2
  <2>3. Refills => Available \in 0..pcm.frames
    BY <2>1, <1>1 DEF Refills, Dry
  <2>4. Due(t) \in 0..pcm.frames
    BY <2>2, <2>3, <1>1 DEF Due
  <2>5. QED
    BY <2>4, <1>1
<1>4. Counted(pcm') /\ pcm'.frames = pcm.frames - popped /\ Newest(pcm', next')
  BY <1>1, <1>2, <1>3, PopIntoGives
<1>5. pcm'.frames <= pcm.frames /\ pcm'.frames <= CapFrames /\ pcm'.frames \in Nat
  BY <1>1, <1>3, <1>4, PlayoutNumbers
<1>6. skipped' \in BOOLEAN /\ last' = last
  BY <1>1, <1>2
<1>7. pcm'.frames <= last'
  <2>1. pcm.frames <= last /\ last \in Nat
    BY <1>1, PlayoutNumbers
  <2>2. QED
    BY <2>1, <1>1, <1>5, <1>6
<1>8. ~skipped' => pcm'.frames = last'
  <2>1. SUFFICES ASSUME ~skipped' PROVE pcm'.frames = last'
    OBVIOUS
  <2>2. ~skipped /\ ~(popped > 0)
    BY <2>1, <1>2
  <2>3. popped = 0
    BY <2>2, <1>1, <1>3
  <2>4. QED
    BY <2>2, <2>3, <1>1, <1>2, <1>4
<1>9. QueueKept
  BY <1>1, <1>4, <1>5, <1>6, <1>7, <1>8 DEF QueueKept
<1>10. target' \in MinTarget..MaxTarget
  <2>1. t \in MinTarget..MaxTarget
    BY <1>1, TargetsBounds
  <2>2. Raised(t) \in MinTarget..MaxTarget
    BY <2>1, TargetBounds
  <2>3. QED
    BY <2>1, <2>2, <1>2
<1>11. /\ running' \in BOOLEAN /\ playing' \in BOOLEAN /\ padding' \in 0..BufferFrames
       /\ pre_skip' \in 0..PreSkip /\ faults' \in 0..MaxFaults /\ next' \in Frame
  <2>1. faults' \in 0..MaxFaults /\ padding' \in 0..BufferFrames
    BY <1>1, <1>2, PlayoutNumbers
  <2>2. QED
    BY <2>1, <1>1, <1>2
<1>12. written' \in Seq(Frame \cup {SilentFrame})
  BY <1>2
<1>13. ASSUME pre_skip' > 0 PROVE pcm'.frames = 0 /\ ~playing' /\ skipped'
  <2>1. pcm.frames = 0 /\ skipped
    BY <1>13, <1>1, <1>2
  <2>2. pcm'.frames = 0
    BY <2>1, <1>5
  <2>3. ~playing' /\ skipped'
    BY <2>1, <1>2
  <2>4. QED
    BY <2>2, <2>3
<1>14. PlayoutInv'
  BY <1>9, <1>10, <1>11, <1>12, <1>13, PlayoutInvNext
<1>15. HeardStep
  BY <1>2 DEF HeardStep
<1>16. QED
  BY <1>14, <1>15

\* The thread failing, and the device playing what it holds.
LEMMA QuietStepInv ==
    ASSUME PlayoutInv, Fails \/ \E n \in 1..BufferFrames : DevicePlays(n)
    PROVE  PlayoutInv' /\ HeardStep
<1>1. /\ pre_skip > 0 => pcm.frames = 0 /\ ~playing /\ skipped
      /\ running \in BOOLEAN /\ playing \in BOOLEAN /\ target \in MinTarget..MaxTarget
      /\ padding \in 0..BufferFrames /\ pre_skip \in 0..PreSkip /\ faults \in 0..MaxFaults
  BY PlayoutParts
<1>2. /\ written' = <<>> /\ running' \in BOOLEAN /\ padding' \in 0..BufferFrames
      /\ UNCHANGED <<pcm, target, playing, pre_skip, faults, next, last, skipped>>
  <2>1. CASE Fails
    BY <2>1, <1>1 DEF Fails
  <2>2. CASE \E n \in 1..BufferFrames : DevicePlays(n)
    <3>1. PICK n \in 1..BufferFrames : DevicePlays(n)
      BY <2>2
    <3>2. /\ n <= padding /\ padding' = padding - n /\ written' = <<>>
          /\ UNCHANGED <<running, pcm, target, playing, pre_skip, faults, next, last, skipped>>
      BY <3>1 DEF DevicePlays
    <3>3. padding' \in 0..BufferFrames
      BY <3>2, <1>1, PlayoutNumbers
    <3>4. QED
      BY <3>2, <3>3, <1>1
  <2>3. QED
    BY <2>1, <2>2
<1>3. /\ QueueKept /\ HeardStep /\ written' \in Seq(Frame \cup {SilentFrame})
      /\ next' \in Frame /\ pcm'.frames = pcm.frames
  BY <1>2, QueueUnchanged
<1>4. QED
  BY <1>1, <1>2, <1>3, PlayoutInvNext

\* Every step keeps the invariant, and what it writes is heard in order.
LEMMA PlayoutStep ==
    PlayoutInv /\ [PlayoutNext]_playoutvars =>
        PlayoutInv' /\ [HeardStep]_playoutvars
<1> SUFFICES ASSUME PlayoutInv, [PlayoutNext]_playoutvars
             PROVE  PlayoutInv' /\ [HeardStep]_playoutvars
  OBVIOUS
<1>1. CASE UNCHANGED playoutvars
  <2>1. PlayoutInv'
    BY <1>1 DEF PlayoutInv, PlayoutTypeOK, Newest, playoutvars
  <2>2. QED
    BY <2>1, <1>1
<1>2. CASE Arrives
  BY <1>2, DecodePacketInv DEF Arrives
<1>3. CASE Services
  BY <1>3, ServicePlayoutInv DEF Services
<1>4. CASE \E t \in Targets : \E popped \in {0, Due(t)}, late \in BOOLEAN :
               DeviceLost(t, popped, late)
  BY <1>4, DeviceLostInv
<1>5. CASE Fails \/ \E n \in 1..BufferFrames : DevicePlays(n)
  BY <1>5, QuietStepInv
<1>6. QED
  BY <1>1, <1>2, <1>3, <1>4, <1>5 DEF PlayoutNext

\* The invariant holds of every reachable state.
LEMMA PlayoutInvariant == PlayoutSpec => []PlayoutInv
<1>1. PlayoutInit => PlayoutInv
  BY InitPlayoutInv
<1>2. PlayoutInv /\ [PlayoutNext]_playoutvars => PlayoutInv'
  BY PlayoutStep
<1>3. QED
  BY <1>1, <1>2, PTL DEF PlayoutSpec

\* However chunks are cut, dropped by the hard cap or taken by a device that is then lost, the
\* queue counts its frames right and stays within the cap, the target between its bounds and the
\* device's buffer between its own (PcmBuffer, AdaptiveJitter, WasapiOutput).
THEOREM PlayoutTypeCorrect == PlayoutSpec => []PlayoutTypeOK
<1>1. PlayoutInv => PlayoutTypeOK
  BY DEF PlayoutInv
<1>2. QED
  BY <1>1, PlayoutInvariant, PTL

\* The device gets every frame once and in order, without silence in between and without a gap
\* but for frames the hard cap dropped or a lost device took with it (pop_into, service_output).
THEOREM PlayoutHeard == PlayoutSpec => HeardInOrder
<1>1. PlayoutInv /\ [PlayoutNext]_playoutvars => [HeardStep]_playoutvars
  BY PlayoutStep
<1>2. PlayoutSpec => [][HeardStep]_playoutvars
  BY <1>1, PlayoutInvariant, PTL DEF PlayoutSpec
<1>3. QED
  BY <1>2 DEF HeardInOrder, HeardStep
=============================================================================
