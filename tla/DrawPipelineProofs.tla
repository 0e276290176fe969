------------------------ MODULE DrawPipelineProofs ------------------------
(***************************************************************************)
(* DrawPipeline for any windows and any number of packets: draws are       *)
(* acknowledged once each and in order, h264 decoders decode the stream    *)
(* they were built from, and none outlives its window.                     *)
(*                                                                         *)
(* A packet travels wire, events, decodeq, in that order, and every queue  *)
(* is first in, first out; so what is ahead of a packet stays ahead of it. *)
(* The invariants are stated on the set of packets in flight and on which  *)
(* packet may be ahead of which.                                           *)
(***************************************************************************)
EXTENDS DrawPipeline, SequenceTheorems, TLAPS

AnswerTypes == {"draw-decoded", "decoding-failed"}
Item == WindowPackets \cup DrawPackets \cup Results \cup Control

\* a draw, or the result that replaces it: what the client still has to acknowledge
Owed(x) == x.type \in AnswerTypes \cup {"draw"}
IsVideo(x) == x.type = "draw" /\ x.coding = "h264"
VideoOf(x, w) == IsVideo(x) /\ x.wid = w
EosOf(x, w) == x.type = "eos" /\ x.wid = w
LostOf(x, w) == x.type = "lost-window" /\ x.wid = w

\* x may be ahead of y, L being the windows drawn on after their lost-window
MayPrecede(L, x, y) ==
    /\ x.type = "draw" /\ y.type = "draw" => x.seq < y.seq
    /\ x.type \in AnswerTypes /\ y.type \in AnswerTypes => x.seq < y.seq
    /\ x.type = "lost-window" /\ y.type = "draw" /\ x.wid = y.wid => x.wid \in L
    /\ x.type = "eos" /\ IsVideo(y) /\ x.wid = y.wid => x.stream < y.stream
    /\ IsVideo(x) /\ y.type = "eos" /\ x.wid = y.wid => x.stream <= y.stream
    /\ IsVideo(x) /\ IsVideo(y) /\ x.wid = y.wid =>
          x.stream <= y.stream /\ (y.key => x.stream < y.stream)

Ordered(L, q) == \A i, j \in 1..Len(q) : i < j => MayPrecede(L, q[i], q[j])
Ahead(L, A, B) == \A x \in A, y \in B : MayPrecede(L, x, y)

\* the three queues, the decode thread's first
Path(L, d, e, w) ==
    /\ Ordered(L, d) /\ Ordered(L, e) /\ Ordered(L, w)
    /\ Ahead(L, Range(d), Range(e))
    /\ Ahead(L, Range(d), Range(w))
    /\ Ahead(L, Range(e), Range(w))

-----------------------------------------------------------------------------
(* Queues: what an append and a tail leave in them, and in which order *)

\* A packet posted to a queue (send on a channel) is one more in it.
LEMMA AppendRange ==
    ASSUME NEW S, NEW q \in Seq(S), NEW x \in S
    PROVE  Range(Append(q, x)) = Range(q) \cup {x}
<1>1. /\ Len(q) \in Nat /\ Len(Append(q, x)) = Len(q) + 1
      /\ DOMAIN q = 1..Len(q) /\ DOMAIN Append(q, x) = 1..(Len(q) + 1)
      /\ Append(q, x)[Len(q) + 1] = x
      /\ \A i \in 1..Len(q) : Append(q, x)[i] = q[i]
  OBVIOUS
<1>2. QED
  BY <1>1 DEF Range

\* Taking the head of a queue (recv) leaves the others.
LEMMA TailRange ==
    ASSUME NEW S, NEW q \in Seq(S), q # <<>>
    PROVE  /\ Range(q) = {Head(q)} \cup Range(Tail(q))
           /\ Head(q) \in S /\ Tail(q) \in Seq(S)
<1>1. /\ Len(q) \in Nat /\ Len(q) > 0 /\ Tail(q) \in Seq(S) /\ Head(q) \in S
      /\ Len(Tail(q)) = Len(q) - 1 /\ Head(q) = q[1]
      /\ \A i \in 1..Len(Tail(q)) : Tail(q)[i] = q[i + 1]
      /\ DOMAIN q = 1..Len(q) /\ DOMAIN Tail(q) = 1..Len(Tail(q))
  OBVIOUS
<1>2. \A i \in 1..Len(q) : i = 1 \/ (i - 1 \in 1..Len(Tail(q)) /\ q[i] = Tail(q)[i - 1])
  BY <1>1
<1>3. Range(q) \subseteq {Head(q)} \cup Range(Tail(q))
  <2>1. SUFFICES ASSUME NEW i \in 1..Len(q)
                 PROVE  q[i] \in {Head(q)} \cup Range(Tail(q))
    BY <1>1 DEF Range
  <2>2. CASE i = 1
    BY <1>1, <2>2
  <2>3. CASE i - 1 \in 1..Len(Tail(q)) /\ q[i] = Tail(q)[i - 1]
    BY <1>1, <2>3 DEF Range
  <2>4. QED
    BY <1>2, <2>2, <2>3
<1>4. {Head(q)} \cup Range(Tail(q)) \subseteq Range(q)
  BY <1>1 DEF Range
<1>5. QED
  BY <1>1, <1>3, <1>4

\* The packets of a queue are of the queue's type.
LEMMA RangeType == \A S : \A q \in Seq(S) : Range(q) \subseteq S
  BY RangeOfSeq

\* A packet that all the others may precede goes to the end of the queue.
LEMMA AppendOrdered ==
    ASSUME NEW L, NEW S, NEW q \in Seq(S), NEW x \in S,
           Ordered(L, q), Ahead(L, Range(q), {x})
    PROVE  Ordered(L, Append(q, x))
<1>1. /\ Len(q) \in Nat /\ Len(Append(q, x)) = Len(q) + 1 /\ DOMAIN q = 1..Len(q)
      /\ Append(q, x)[Len(q) + 1] = x
      /\ \A i \in 1..Len(q) : Append(q, x)[i] = q[i]
  OBVIOUS
<1>2. \A i \in 1..Len(q) : MayPrecede(L, q[i], x)
  BY <1>1 DEF Ahead, Range
<1>3. SUFFICES ASSUME NEW i \in 1..(Len(q) + 1), NEW j \in 1..(Len(q) + 1), i < j
               PROVE  MayPrecede(L, Append(q, x)[i], Append(q, x)[j])
  BY <1>1 DEF Ordered
<1>4. i \in 1..Len(q)
  BY <1>1, <1>3
<1>5. CASE j = Len(q) + 1
  BY <1>1, <1>2, <1>4, <1>5
<1>6. CASE j \in 1..Len(q)
  <2>1. Append(q, x)[i] = q[i] /\ Append(q, x)[j] = q[j]
    BY <1>1, <1>4, <1>6
  <2>2. QED
    BY <1>3, <1>4, <1>6, <2>1 DEF Ordered
<1>7. QED
  BY <1>1, <1>5, <1>6

\* The head was ahead of what is left, which stays in order.
LEMMA TailOrdered ==
    ASSUME NEW L, NEW S, NEW q \in Seq(S), q # <<>>, Ordered(L, q)
    PROVE  Ordered(L, Tail(q)) /\ Ahead(L, {Head(q)}, Range(Tail(q)))
<1>1. /\ Len(q) \in Nat /\ Len(q) > 0 /\ Len(Tail(q)) = Len(q) - 1 /\ Head(q) = q[1]
      /\ \A i \in 1..Len(Tail(q)) : Tail(q)[i] = q[i + 1]
      /\ DOMAIN Tail(q) = 1..Len(Tail(q))
  OBVIOUS
<1>2. Ordered(L, Tail(q))
  <2>1. SUFFICES ASSUME NEW i \in 1..Len(Tail(q)), NEW j \in 1..Len(Tail(q)), i < j
                 PROVE  MayPrecede(L, Tail(q)[i], Tail(q)[j])
    BY DEF Ordered
  <2>2. i + 1 \in 1..Len(q) /\ j + 1 \in 1..Len(q) /\ i + 1 < j + 1
    BY <1>1, <2>1
  <2>3. MayPrecede(L, q[i + 1], q[j + 1])
    BY <2>2 DEF Ordered
  <2>4. QED
    BY <1>1, <2>3
<1>3. Ahead(L, {Head(q)}, Range(Tail(q)))
  <2>1. SUFFICES ASSUME NEW j \in 1..Len(Tail(q))
                 PROVE  MayPrecede(L, Head(q), Tail(q)[j])
    BY <1>1 DEF Ahead, Range
  <2>2. 1 \in 1..Len(q) /\ j + 1 \in 1..Len(q) /\ 1 < j + 1
    BY <1>1
  <2>3. MayPrecede(L, q[1], q[j + 1])
    BY <2>2 DEF Ordered
  <2>4. QED
    BY <1>1, <2>3
<1>4. QED
  BY <1>2, <1>3

-----------------------------------------------------------------------------
(* The path of the packets: every move along it keeps their order *)

\* The reader posts the packet it read (rx channel to user event).
LEMMA PathRead ==
    ASSUME NEW L, NEW d \in Seq(Item), NEW e \in Seq(Item), NEW w \in Seq(Item),
           Path(L, d, e, w), w # <<>>
    PROVE  Path(L, d, Append(e, Head(w)), Tail(w))
<1>1. /\ Range(w) = {Head(w)} \cup Range(Tail(w))
      /\ Head(w) \in Item /\ Tail(w) \in Seq(Item)
      /\ Range(Append(e, Head(w))) = Range(e) \cup {Head(w)}
  BY TailRange, AppendRange
<1>2. Ordered(L, Tail(w)) /\ Ahead(L, {Head(w)}, Range(Tail(w)))
  BY TailOrdered DEF Path
<1>3. Ahead(L, Range(e), {Head(w)})
  BY <1>1 DEF Path, Ahead
<1>4. Ordered(L, Append(e, Head(w)))
  BY <1>1, <1>3, AppendOrdered DEF Path
<1>5. QED
  BY <1>1, <1>2, <1>4 DEF Path, Ahead

\* The UI thread forwards a packet to the decode thread (decode_tx).
LEMMA PathForward ==
    ASSUME NEW L, NEW d \in Seq(Item), NEW e \in Seq(Item), NEW w \in Seq(Item),
           Path(L, d, e, w), e # <<>>
    PROVE  Path(L, Append(d, Head(e)), Tail(e), w)
<1>1. /\ Range(e) = {Head(e)} \cup Range(Tail(e))
      /\ Head(e) \in Item /\ Tail(e) \in Seq(Item)
      /\ Range(Append(d, Head(e))) = Range(d) \cup {Head(e)}
  BY TailRange, AppendRange
<1>2. Ordered(L, Tail(e)) /\ Ahead(L, {Head(e)}, Range(Tail(e)))
  BY TailOrdered DEF Path
<1>3. Ahead(L, Range(d), {Head(e)})
  BY <1>1 DEF Path, Ahead
<1>4. Ordered(L, Append(d, Head(e)))
  BY <1>1, <1>3, AppendOrdered DEF Path
<1>5. QED
  BY <1>1, <1>2, <1>4 DEF Path, Ahead

\* The UI thread is done with a packet.
LEMMA PathDrop ==
    ASSUME NEW L, NEW d \in Seq(Item), NEW e \in Seq(Item), NEW w \in Seq(Item),
           Path(L, d, e, w), e # <<>>
    PROVE  Path(L, d, Tail(e), w)
<1>1. Range(e) = {Head(e)} \cup Range(Tail(e))
  BY TailRange
<1>2. Ordered(L, Tail(e))
  BY TailOrdered DEF Path
<1>3. QED
  BY <1>1, <1>2 DEF Path, Ahead

\* The decode thread takes a packet, which was ahead of all others.
LEMMA PathTake ==
    ASSUME NEW L, NEW d \in Seq(Item), NEW e \in Seq(Item), NEW w \in Seq(Item),
           Path(L, d, e, w), d # <<>>
    PROVE  /\ Path(L, Tail(d), e, w)
           /\ Ahead(L, {Head(d)}, Range(Tail(d)) \cup Range(e) \cup Range(w))
<1>1. Range(d) = {Head(d)} \cup Range(Tail(d))
  BY TailRange
<1>2. Ordered(L, Tail(d)) /\ Ahead(L, {Head(d)}, Range(Tail(d)))
  BY TailOrdered DEF Path
<1>3. QED
  BY <1>1, <1>2 DEF Path, Ahead

\* A user event is posted: it only has to fit the events queued and what is on the wire.
LEMMA PathPost ==
    ASSUME NEW L, NEW d \in Seq(Item), NEW e \in Seq(Item), NEW w \in Seq(Item),
           NEW r \in Item, Path(L, d, e, w),
           Ahead(L, Range(d) \cup Range(e), {r}), Ahead(L, {r}, Range(w))
    PROVE  Path(L, d, Append(e, r), w)
<1>1. Range(Append(e, r)) = Range(e) \cup {r}
  BY AppendRange
<1>2. Ordered(L, Append(e, r))
  BY AppendOrdered DEF Path, Ahead
<1>3. QED
  BY <1>1, <1>2 DEF Path, Ahead

\* The server sends a packet that all others may precede.
LEMMA PathSend ==
    ASSUME NEW L, NEW d \in Seq(Item), NEW e \in Seq(Item), NEW w \in Seq(Item),
           NEW p \in Item, Path(L, d, e, w),
           Ahead(L, Range(d) \cup Range(e) \cup Range(w), {p})
    PROVE  Path(L, d, e, Append(w, p))
<1>1. Range(Append(w, p)) = Range(w) \cup {p}
  BY AppendRange
<1>2. Ordered(L, Append(w, p))
  BY AppendOrdered DEF Path, Ahead
<1>3. QED
  BY <1>1, <1>2 DEF Path, Ahead

\* Packets on the wire are lost with the connection.
LEMMA PathBreak ==
    ASSUME NEW L, NEW d, NEW e, NEW w, Path(L, d, e, w)
    PROVE  Path(L, d, e, <<>>)
<1>1. Range(<<>>) = {} /\ Len(<<>>) = 0
  BY DEF Range
<1>2. QED
  BY <1>1 DEF Path, Ahead, Ordered

\* A window drawn on after its withdrawal allows more orders, never fewer.
LEMMA PathLate ==
    ASSUME NEW L, NEW M, NEW d, NEW e, NEW w, L \subseteq M, Path(L, d, e, w)
    PROVE  Path(M, d, e, w)
<1>1. \A x, y : MayPrecede(L, x, y) => MayPrecede(M, x, y)
  BY DEF MayPrecede
<1>2. QED
  BY <1>1 DEF Path, Ahead, Ordered

-----------------------------------------------------------------------------
(* The numbering of the draws *)

InFlight == Range(decodeq) \cup Range(events) \cup Range(wire)

PathOrdered == Path(late, decodeq, events, wire)

\* a result is ahead of every draw still to be decoded
AnswersFirst ==
    \A x, y \in InFlight : x.type \in AnswerTypes /\ y.type = "draw" => x.seq < y.seq

\* what travels was sent: on a window announced before, with a number given
\* out, in a video stream begun or ended
Sent(x) ==
    /\ x \notin Control => x.wid \in used
    /\ Owed(x) => x.seq < nextSeq
    /\ x.type = "lost-window" => x.wid \notin alive
    /\ x.type = "eos" => x.stream < stream[x.wid]
    /\ IsVideo(x) => \/ x.stream < stream[x.wid]
                     \/ x.stream = stream[x.wid] /\ keyed[x.wid]

Known ==
    /\ \A x \in InFlight : Sent(x)
    /\ nextSeq + budget <= MaxPackets + 1

Live == conn = "up" /\ ~quitting

\* while the session lasts the numbers not yet acknowledged are those in flight
Counted ==
    Live => /\ \A x \in InFlight : Owed(x) => Len(acks) < x.seq
            /\ \A s \in Nat : Len(acks) < s /\ s < nextSeq =>
                  \E x \in InFlight : Owed(x) /\ x.seq = s

\* the acknowledgements so far: 1, 2, 3, ..., each in a layout the server knows
Numbered == \A i \in 1..Len(acks) : acks[i].seq = i /\ Understood(acks[i])

\* before the hello is processed nothing is decoded, so nothing acknowledged
HelloFirst ==
    /\ kind = "old" => compatible
    /\ Live /\ kind = "modern" /\ compatible =>
          /\ decodeq = <<>>
          /\ \A x \in Range(events) : x.type \notin AnswerTypes
          /\ \/ events = <<>> /\ wire # <<>> /\ Head(wire).type = "hello"
             \/ events # <<>> /\ Head(events).type = "hello"

\* The inductive invariant of the numbering.
NumInv ==
    /\ TypeOK /\ PathOrdered /\ AnswersFirst /\ Known
    /\ Counted /\ Numbered /\ HelloFirst

\* The type of a packet tells which fields it has.
LEMMA ItemFields ==
    ASSUME NEW x \in Item
    PROVE  /\ x.type = "draw" <=> x \in DrawPackets
           /\ x.type \in AnswerTypes <=> x \in Results
           /\ x.type \in {"new-window", "lost-window", "eos"} <=> x \in WindowPackets
           /\ x.type \in {"hello", "disconnect", "connection-lost"} <=> x \in Control
           /\ x \notin Control => x.wid \in Wids
           /\ Owed(x) => x.seq \in Nat
           /\ x.type \in {"draw", "eos", "draw-decoded"} => x.stream \in Nat
           /\ x.type = "draw" => x.key \in BOOLEAN
  BY DEF Item, DrawPackets, Results, WindowPackets, Control, AnswerTypes, Owed

\* The queues hold packets, each those that reach it.
LEMMA QueueItems ==
    ASSUME TypeOK
    PROVE  /\ decodeq \in Seq(Item) /\ events \in Seq(Item) /\ wire \in Seq(Item)
           /\ Range(decodeq) \subseteq WindowPackets \cup DrawPackets
           /\ Range(wire) \subseteq WindowPackets \cup DrawPackets \cup Control
           /\ Range(events) \subseteq Item /\ InFlight \subseteq Item
<1>1. decodeq \in Seq(Item) /\ events \in Seq(Item) /\ wire \in Seq(Item)
  BY SeqMonotonic DEF TypeOK, Item
<1>2. /\ Range(decodeq) \subseteq WindowPackets \cup DrawPackets
      /\ Range(wire) \subseteq WindowPackets \cup DrawPackets \cup Control
      /\ Range(events) \subseteq Item
  BY <1>1, RangeType DEF TypeOK
<1>3. QED
  BY <1>1, <1>2 DEF InFlight, Item

\* With fewer packets in flight, or with the notice of a lost connection, what holds of each
\* of them still does.
LEMMA FewerInFlight ==
    ASSUME AnswersFirst, Known,
           InFlight' \subseteq InFlight \cup {[type |-> "connection-lost"]},
           UNCHANGED server
    PROVE  AnswersFirst' /\ Known'
<1> DEFINE c == [type |-> "connection-lost"]
<1>1. c \in Control /\ c.type \notin AnswerTypes \cup {"draw"}
  BY DEF Control, AnswerTypes
<1>2. AnswersFirst'
  BY <1>1 DEF AnswersFirst
<1>3. Known'
  <2>1. \A x : Sent(x) => Sent(x)'
    BY DEF Sent, server
  <2>2. Sent(c)
    BY <1>1 DEF Sent, Owed, IsVideo
  <2>3. QED
    BY <2>1, <2>2 DEF Known, server
<1>4. QED
  BY <1>2, <1>3

\* The same, when what is still to be acknowledged stays in flight.
LEMMA SameOwed ==
    ASSUME Counted, Numbered, UNCHANGED <<acks, kind, nextSeq>>, Live' => Live,
           \A x \in InFlight : Owed(x) => x \in InFlight',
           \A x \in InFlight' : Owed(x) => x \in InFlight
    PROVE  Counted' /\ Numbered'
<1>1. Counted'
  BY DEF Counted
<1>2. Numbered'
  BY DEF Numbered, Understood
<1>3. QED
  BY <1>1, <1>2

\* The client starts with the server's hello on the wire.
LEMMA InitNumInv == Init => NumInv
<1> SUFFICES ASSUME Init PROVE NumInv
  OBVIOUS
<1> DEFINE h == [type |-> "hello"]
<1>1. h \in Control /\ h \in Item /\ wire = <<h>>
  BY DEF Control, Item, Init
<1>2. wire \in Seq(Control) /\ Len(wire) = 1 /\ wire[1] = h /\ Head(wire) = h /\ wire # <<>>
  BY <1>1
<1>3. Range(wire) = {h} /\ Range(decodeq) = {} /\ Range(events) = {}
  BY <1>2 DEF Range, Init
<1>4. InFlight = {h}
  BY <1>3 DEF InFlight
<1>5. TypeOK
  <2>1. wire \in Seq(WindowPackets \cup DrawPackets \cup Control)
    BY <1>2, SeqMonotonic
  <2>2. /\ events \in Seq(WindowPackets \cup DrawPackets \cup Results \cup Control)
        /\ acks \in Seq(Acks) /\ Len(acks) = 0 /\ decodeq \in Seq(WindowPackets \cup DrawPackets)
    BY EmptySeq DEF Init
  <2>3. DOMAIN decoders = {} /\ noDecoder = {}
    BY DEF Init
  <2>4. budget \in 0..MaxPackets /\ nextSeq \in 1..(MaxPackets + 1) /\ Len(acks) < nextSeq
    BY <2>2, DrawAssumption DEF Init
  <2>5. stream \in [Wids -> Nat] /\ keyed \in [Wids -> BOOLEAN]
    BY DEF Init
  <2>6. /\ kind \in Kinds /\ conn \in {"up", "down"} /\ reader \in BOOLEAN
        /\ quitting \in BOOLEAN /\ loop \in BOOLEAN /\ compatible \in BOOLEAN
        /\ alive \subseteq used /\ used \subseteq Wids /\ late \subseteq used
        /\ windows \subseteq used
    BY DEF Init
  <2>7. QED
    BY <2>1, <2>2, <2>3, <2>4, <2>5, <2>6 DEF TypeOK
<1>6. PathOrdered
  <2>1. Ordered(late, wire)
    BY <1>2 DEF Ordered
  <2>2. Ordered(late, decodeq) /\ Ordered(late, events)
    BY DEF Init, Ordered
  <2>3. QED
    BY <1>3, <2>1, <2>2 DEF PathOrdered, Path, Ahead
<1>7. AnswersFirst /\ Known
  <2>1. Sent(h)
    BY <1>1 DEF Sent, Owed, AnswerTypes, IsVideo
  <2>2. QED
    BY <1>4, <2>1, DrawAssumption DEF AnswersFirst, Known, AnswerTypes, Init
<1>8. Counted /\ Numbered
  BY <1>4 DEF Counted, Numbered, Owed, AnswerTypes, Init
<1>9. HelloFirst
  BY <1>2, <1>3 DEF HelloFirst, Init
<1>10. QED
  BY <1>5, <1>6, <1>7, <1>8, <1>9 DEF NumInv

-----------------------------------------------------------------------------
(* The server and the network *)

\* A packet is sent on the wire, behind everything else.
LEMMA SendEffect ==
    ASSUME TypeOK, NEW p \in WindowPackets \cup DrawPackets \cup Control, ServerSend(p)
    PROVE  /\ InFlight' = InFlight \cup {p} /\ p \in Item
           /\ wire' \in Seq(WindowPackets \cup DrawPackets \cup Control)
           /\ wire' # <<>> /\ (wire # <<>> => Head(wire') = Head(wire))
           /\ budget' \in 0..MaxPackets /\ budget' = budget - 1 /\ budget > 0
           /\ conn = "up"
           /\ UNCHANGED <<kind, conn, acks, reader, events, ui, decodeq, decode>>
<1>1. /\ wire' = Append(wire, p) /\ budget' = budget - 1 /\ budget > 0 /\ conn = "up"
      /\ UNCHANGED <<kind, conn, acks, reader, events, ui, decodeq, decode>>
  BY DEF ServerSend
<1>2. p \in Item
  BY DEF Item
<1>3. Range(wire') = Range(wire) \cup {p}
  BY <1>1, <1>2, QueueItems, AppendRange
<1>4. InFlight' = InFlight \cup {p}
  BY <1>1, <1>3 DEF InFlight
<1>5. /\ wire' \in Seq(WindowPackets \cup DrawPackets \cup Control)
      /\ wire' # <<>> /\ (wire # <<>> => Head(wire') = Head(wire))
  BY <1>1 DEF TypeOK
<1>6. budget' \in 0..MaxPackets
  BY <1>1, DrawAssumption DEF TypeOK
<1>7. QED
  BY <1>1, <1>2, <1>4, <1>5, <1>6

\* Whatever the server sends, the numbering goes on: it depends on how the packet relates to
\* the server's own state only.
LEMMA SendNumInv ==
    ASSUME NumInv, NEW p \in WindowPackets \cup DrawPackets \cup Control, ServerSend(p),
           alive' \subseteq used', used \subseteq used', used' \subseteq Wids,
           late \subseteq late', late' \subseteq used',
           stream' \in [Wids -> Nat], keyed' \in [Wids -> BOOLEAN],
           \A x \in InFlight : Sent(x)', Sent(p)',
           Ahead(late', InFlight, {p}),
           IF p.type = "draw" THEN p.seq = nextSeq /\ nextSeq' = nextSeq + 1
                              ELSE nextSeq' = nextSeq
    PROVE  NumInv'
<1>1. /\ InFlight' = InFlight \cup {p} /\ p \in Item
      /\ wire' \in Seq(WindowPackets \cup DrawPackets \cup Control)
      /\ wire' # <<>> /\ (wire # <<>> => Head(wire') = Head(wire))
      /\ budget' \in 0..MaxPackets /\ budget' = budget - 1 /\ budget > 0 /\ conn = "up"
      /\ UNCHANGED <<kind, conn, acks, reader, events, ui, decodeq, decode>>
  BY SendEffect DEF NumInv
<1>2. /\ p.type \notin AnswerTypes /\ (p.type = "draw" => p.seq \in Nat)
      /\ Owed(p) <=> p.type = "draw"
  BY <1>1, ItemFields DEF Owed, AnswerTypes, WindowPackets, DrawPackets, Control
<1>3. nextSeq \in Nat /\ nextSeq' \in Nat /\ nextSeq <= nextSeq' /\ budget \in Nat
  BY DrawAssumption DEF NumInv, TypeOK
<1>4. Known'
  <2>1. \A x \in InFlight' : Sent(x)'
    BY <1>1
  <2>2. nextSeq' + budget' <= MaxPackets + 1
    <3>1. nextSeq + budget <= MaxPackets + 1
      BY DEF NumInv, Known
    <3>2. nextSeq' <= nextSeq + 1
      BY <1>3
    <3>3. budget' = budget - 1 /\ budget' \in Nat /\ MaxPackets \in Nat
      BY <1>1, DrawAssumption
    <3>4. \A n, m, b \in Nat : n + b <= MaxPackets + 1 /\ m <= n + 1 /\ b > 0
             => m + (b - 1) <= MaxPackets + 1
      BY <3>3
    <3>5. QED
      BY <1>1, <1>3, <3>1, <3>2, <3>3, <3>4
  <2>3. QED
    BY <2>1, <2>2 DEF Known
<1>5. TypeOK'
  <2>1. nextSeq' \in 1..(MaxPackets + 1)
    BY <1>1, <1>3, <1>4, DrawAssumption DEF NumInv, TypeOK, Known
  <2>2. acks' \in Seq(Acks) /\ Len(acks') < nextSeq'
    BY <1>1, <1>3 DEF NumInv, TypeOK
  <2>3. kind' \in Kinds /\ conn' \in {"up", "down"} /\ reader' \in BOOLEAN
    BY <1>1 DEF NumInv, TypeOK
  <2>4. /\ events' \in Seq(WindowPackets \cup DrawPackets \cup Results \cup Control)
        /\ decodeq' \in Seq(WindowPackets \cup DrawPackets)
    BY <1>1 DEF NumInv, TypeOK
  <2>5. /\ quitting' \in BOOLEAN /\ loop' \in BOOLEAN /\ windows' \subseteq used'
        /\ compatible' \in BOOLEAN
    BY <1>1 DEF NumInv, TypeOK, ui
  <2>6. /\ DOMAIN decoders' \subseteq Wids
        /\ \A w \in DOMAIN decoders' : decoders'[w] \in [stream : Nat, key : BOOLEAN]
        /\ noDecoder' \subseteq (Wids \X Nat)
    BY <1>1 DEF NumInv, TypeOK, decode
  <2>7. QED
    BY <1>1, <2>1, <2>2, <2>3, <2>4, <2>5, <2>6 DEF TypeOK
<1>6. PathOrdered'
  <2>1. Path(late', decodeq, events, wire)
    BY PathLate DEF NumInv, PathOrdered
  <2>2. Path(late', decodeq, events, Append(wire, p))
    <3>1. decodeq \in Seq(Item) /\ events \in Seq(Item) /\ wire \in Seq(Item)
      BY QueueItems DEF NumInv
    <3>2. QED
      BY <1>1, <2>1, <3>1, PathSend DEF InFlight
  <2>3. QED
    BY <1>1, <2>2 DEF PathOrdered, ServerSend
<1>7. AnswersFirst'
  <2>1. ASSUME NEW x \in InFlight', NEW y \in InFlight',
               x.type \in AnswerTypes, y.type = "draw"
        PROVE  x.seq < y.seq
    <3>1. x \in InFlight
      BY <1>1, <1>2, <2>1
    <3>2. CASE y \in InFlight
      BY <2>1, <3>1, <3>2 DEF NumInv, AnswersFirst
    <3>3. CASE y = p
      BY <1>2, <2>1, <3>1, <3>3 DEF NumInv, Known, Sent, Owed
    <3>4. QED
      BY <1>1, <3>2, <3>3
  <2>2. QED
    BY <2>1 DEF AnswersFirst
<1>8. Counted' /\ Numbered'
  <2>1. Live' = Live /\ acks' = acks
    BY <1>1 DEF Live, ui
  <2>2. Numbered'
    BY <1>1 DEF NumInv, Numbered, Understood
  <2>3. Len(acks) < nextSeq /\ Len(acks) \in Nat
    BY DEF NumInv, TypeOK
  <2>4. CASE p.type = "draw"
    <3>1. \A x \in InFlight' : Live /\ Owed(x) => Len(acks) < x.seq
      BY <1>1, <2>3, <2>4 DEF NumInv, Counted
    <3>2. \A s \in Nat : Live /\ Len(acks) < s /\ s < nextSeq' =>
             \E x \in InFlight' : Owed(x) /\ x.seq = s
      <4>1. SUFFICES ASSUME NEW s \in Nat, Live, Len(acks) < s, s < nextSeq + 1
                     PROVE  \E x \in InFlight' : Owed(x) /\ x.seq = s
        BY <2>4
      <4>2. CASE s = nextSeq
        BY <1>1, <1>2, <2>4, <4>2
      <4>3. CASE s < nextSeq
        BY <1>1, <4>1, <4>3 DEF NumInv, Counted
      <4>4. QED
        BY <1>3, <4>1, <4>2, <4>3
    <3>3. QED
      BY <2>1, <2>2, <3>1, <3>2 DEF Counted
  <2>5. CASE p.type # "draw"
    <3>1. nextSeq' = nextSeq
      BY <2>5
    <3>2. QED
      BY <1>1, <1>2, <2>1, <2>5, <3>1, SameOwed DEF NumInv
  <2>6. QED
    BY <2>4, <2>5
<1>9. HelloFirst'
  BY <1>1 DEF NumInv, HelloFirst, Live, ui
<1>10. QED
  BY <1>4, <1>5, <1>6, <1>7, <1>8, <1>9 DEF NumInv

\* A window announced is one the server never named before.
LEMMA NewWindowNumInv ==
    ASSUME NumInv, NEW w \in Wids, ServerNewWindow(w) PROVE NumInv'
<1> DEFINE p == [type |-> "new-window", wid |-> w]
<1>1. /\ p \in WindowPackets /\ p.type = "new-window" /\ p.wid = w
      /\ p \notin Control
  BY DEF WindowPackets, Control
<1>2. /\ ServerSend(p) /\ w \notin used
      /\ alive' = alive \cup {w} /\ used' = used \cup {w}
      /\ UNCHANGED <<late, stream, keyed, nextSeq>>
  BY DEF ServerNewWindow
<1>3. \A x \in InFlight : Sent(x)'
  <2>1. SUFFICES ASSUME NEW x \in InFlight PROVE Sent(x)'
    OBVIOUS
  <2>2. Sent(x) /\ x \in Item
    BY QueueItems DEF NumInv, Known
  <2>3. x.type = "lost-window" => x \notin Control
    BY DEF Control
  <2>4. QED
    BY <1>2, <2>2, <2>3 DEF Sent
<1>4. Sent(p)'
  BY <1>1, <1>2 DEF Sent, Owed, IsVideo, AnswerTypes
<1>5. Ahead(late', InFlight, {p})
  BY <1>1 DEF Ahead, MayPrecede, AnswerTypes, IsVideo
<1>6. QED
  <2>1. /\ alive' \subseteq used' /\ used \subseteq used' /\ used' \subseteq Wids
        /\ late \subseteq late' /\ late' \subseteq used'
        /\ stream' \in [Wids -> Nat] /\ keyed' \in [Wids -> BOOLEAN]
    BY <1>2 DEF NumInv, TypeOK
  <2>2. p \in WindowPackets \cup DrawPackets \cup Control
    BY <1>1
  <2>3. nextSeq' = nextSeq /\ p.type # "draw"
    BY <1>1, <1>2
  <2> HIDE DEF p
  <2>4. QED
    BY <1>2, <1>3, <1>4, <1>5, <2>1, <2>2, <2>3, SendNumInv

\* A window is withdrawn once, and no longer alive from then on.
LEMMA LostWindowNumInv ==
    ASSUME NumInv, NEW w \in Wids, ServerLostWindow(w) PROVE NumInv'
<1> DEFINE p == [type |-> "lost-window", wid |-> w]
<1>1. /\ p \in WindowPackets /\ p.type = "lost-window" /\ p.wid = w
      /\ p \notin Control
  BY DEF WindowPackets, Control
<1>2. /\ ServerSend(p) /\ w \in alive
      /\ alive' = alive \ {w} /\ UNCHANGED <<used, late, stream, keyed, nextSeq>>
  BY DEF ServerLostWindow
<1>3. \A x \in InFlight : Sent(x)'
  BY <1>2 DEF NumInv, Known, Sent
<1>4. Sent(p)'
  BY <1>1, <1>2 DEF Sent, Owed, IsVideo, AnswerTypes, NumInv, TypeOK
<1>5. Ahead(late', InFlight, {p})
  BY <1>1 DEF Ahead, MayPrecede, AnswerTypes, IsVideo
<1>6. QED
  <2>1. /\ alive' \subseteq used' /\ used \subseteq used' /\ used' \subseteq Wids
        /\ late \subseteq late' /\ late' \subseteq used'
        /\ stream' \in [Wids -> Nat] /\ keyed' \in [Wids -> BOOLEAN]
    BY <1>2 DEF NumInv, TypeOK
  <2>2. p \in WindowPackets \cup DrawPackets \cup Control
    BY <1>1
  <2>3. nextSeq' = nextSeq /\ p.type # "draw"
    BY <1>1, <1>2
  <2> HIDE DEF p
  <2>4. QED
    BY <1>2, <1>3, <1>4, <1>5, <2>1, <2>2, <2>3, SendNumInv

\* An eos ends the stream its number names, and the next draws are of a later one.
LEMMA EosNumInv ==
    ASSUME NumInv, NEW w \in Wids, ServerEos(w) PROVE NumInv'
<1> SUFFICES ASSUME NEW p, p = [type |-> "eos", wid |-> w, stream |-> stream[w]]
             PROVE  NumInv'
  OBVIOUS
<1>1. stream \in [Wids -> Nat] /\ keyed \in [Wids -> BOOLEAN]
  BY DEF NumInv, TypeOK
<1>2. /\ p \in WindowPackets /\ p.type = "eos" /\ p.wid = w /\ p.stream = stream[w]
      /\ p \notin Control
  BY <1>1 DEF WindowPackets, Control
<1>3. /\ ServerSend(p) /\ w \in alive
      /\ stream' = [stream EXCEPT ![w] = @ + 1]
      /\ keyed' = [keyed EXCEPT ![w] = FALSE]
      /\ UNCHANGED <<alive, used, late, nextSeq>>
  BY DEF ServerEos
<1>4. \A x \in InFlight : Sent(x)'
  <2>1. SUFFICES ASSUME NEW x \in InFlight PROVE Sent(x)'
    OBVIOUS
  <2>2. Sent(x) /\ x \in Item
    BY QueueItems DEF NumInv, Known
  <2>3. /\ x.type \in {"eos", "draw"} => x.wid \in Wids /\ x.stream \in Nat
    BY <2>2, ItemFields DEF Control
  <2>4. x.type = "eos" => x.stream < stream'[x.wid]
    BY <1>1, <1>3, <2>2, <2>3 DEF Sent
  <2>5. IsVideo(x) => x.stream < stream'[x.wid] \/ (x.stream = stream'[x.wid] /\ keyed'[x.wid])
    <3>1. CASE IsVideo(x) /\ x.wid = w
      BY <1>1, <1>3, <2>2, <2>3, <3>1 DEF Sent, IsVideo
    <3>2. CASE IsVideo(x) /\ x.wid # w
      <4>1. stream'[x.wid] = stream[x.wid] /\ keyed'[x.wid] = keyed[x.wid]
        BY <1>1, <1>3, <2>3, <3>2 DEF IsVideo
      <4>2. QED
        BY <2>2, <3>2, <4>1 DEF Sent
    <3>3. QED
      BY <3>1, <3>2
  <2>6. QED
    BY <1>3, <2>2, <2>4, <2>5 DEF Sent
<1>5. Sent(p)'
  <2>1. p.stream < stream'[p.wid]
    BY <1>1, <1>2, <1>3
  <2>2. QED
    BY <1>2, <1>3, <2>1 DEF Sent, Owed, IsVideo, AnswerTypes, NumInv, TypeOK
<1>6. Ahead(late', InFlight, {p})
  <2>1. SUFFICES ASSUME NEW x \in InFlight PROVE MayPrecede(late', x, p)
    BY DEF Ahead
  <2>2. IsVideo(x) /\ x.wid = w => x.stream <= stream[w]
    <3>1. Sent(x) /\ x \in Item
      BY QueueItems DEF NumInv, Known
    <3>2. QED
      BY <1>1, <3>1, ItemFields DEF Sent, IsVideo
  <2>3. QED
    BY <1>2, <2>2 DEF MayPrecede, AnswerTypes, IsVideo
<1>7. QED
  <2>1. /\ alive' \subseteq used' /\ used \subseteq used' /\ used' \subseteq Wids
        /\ late \subseteq late' /\ late' \subseteq used'
        /\ stream' \in [Wids -> Nat] /\ keyed' \in [Wids -> BOOLEAN]
    BY <1>1, <1>3 DEF NumInv, TypeOK
  <2>2. p \in WindowPackets \cup DrawPackets \cup Control
    BY <1>2
  <2>3. nextSeq' = nextSeq /\ p.type # "draw"
    BY <1>2, <1>3
  <2>4. QED
    BY <1>3, <1>4, <1>5, <1>6, <2>1, <2>2, <2>3, SendNumInv

\* A draw takes the next number; only on a window marked late may it follow a lost-window.
LEMMA DrawNumInv ==
    ASSUME NumInv, NEW w \in Wids, NEW c \in Codings, ServerDraw(w, c) PROVE NumInv'
<1> SUFFICES ASSUME NEW p, p = [type |-> "draw", wid |-> w, seq |-> nextSeq,
                                coding |-> c, stream |-> stream[w],
                                key |-> c = "h264" /\ ~keyed[w]]
             PROVE  NumInv'
  OBVIOUS
<1>1. stream \in [Wids -> Nat] /\ keyed \in [Wids -> BOOLEAN] /\ nextSeq \in Nat
  BY DrawAssumption DEF NumInv, TypeOK
<1>2. /\ p \in DrawPackets /\ p.type = "draw" /\ p.wid = w /\ p.stream = stream[w]
      /\ p.seq = nextSeq /\ p.coding = c /\ p.key = (c = "h264" /\ ~keyed[w])
      /\ p \notin Control
  BY <1>1 DEF DrawPackets, Control
<1>3. /\ ServerSend(p) /\ w \in used
      /\ late' = IF w \in alive THEN late ELSE late \cup {w}
      /\ keyed' = [keyed EXCEPT ![w] = @ \/ c = "h264"]
      /\ nextSeq' = nextSeq + 1
      /\ UNCHANGED <<alive, used, stream>>
  BY DEF ServerDraw
<1>4. /\ keyed' \in [Wids -> BOOLEAN]
      /\ \A v \in Wids : keyed[v] => keyed'[v]
      /\ c = "h264" => keyed'[w]
  BY <1>1, <1>3
<1>5. \A x \in InFlight : Sent(x)'
  <2>1. SUFFICES ASSUME NEW x \in InFlight PROVE Sent(x)'
    OBVIOUS
  <2>2. Sent(x) /\ x \in Item
    BY QueueItems DEF NumInv, Known
  <2>3. (Owed(x) => x.seq \in Nat) /\ (IsVideo(x) => x.wid \in Wids)
    BY <2>2, ItemFields DEF IsVideo, Control
  <2>4. QED
    BY <1>1, <1>3, <1>4, <2>2, <2>3 DEF Sent
<1>6. Sent(p)'
  BY <1>1, <1>2, <1>3, <1>4 DEF Sent, Owed, IsVideo, AnswerTypes
<1>7. Ahead(late', InFlight, {p})
  <2>1. SUFFICES ASSUME NEW x \in InFlight PROVE MayPrecede(late', x, p)
    BY DEF Ahead
  <2>2. Sent(x) /\ x \in Item
    BY QueueItems DEF NumInv, Known
  <2>3. x.type = "draw" => x.seq < p.seq
    BY <1>2, <2>2 DEF Sent, Owed
  <2>4. x.type = "lost-window" /\ x.wid = w => w \in late'
    BY <1>3, <2>2 DEF Sent
  <2>5. x.type = "eos" /\ x.wid = w => x.stream < p.stream
    BY <1>2, <2>2 DEF Sent
  <2>6. IsVideo(x) /\ x.wid = w => x.stream <= p.stream /\ (p.key => x.stream < p.stream)
    <3>1. IsVideo(x) => x.stream \in Nat
      BY <2>2, ItemFields DEF IsVideo
    <3>2. p.key => ~keyed[w]
      BY <1>2
    <3>3. CASE IsVideo(x) /\ x.wid = w
      <4>1. /\ x.stream < stream[w] \/ (x.stream = stream[w] /\ keyed[w])
            /\ x.stream \in Nat /\ stream[w] \in Nat /\ p.stream = stream[w]
        BY <1>1, <1>2, <2>2, <3>1, <3>3 DEF Sent
      <4>2. CASE x.stream < stream[w]
        BY <4>1, <4>2
      <4>3. CASE x.stream = stream[w] /\ keyed[w]
        BY <3>2, <4>1, <4>3
      <4>4. QED
        BY <4>1, <4>2, <4>3
    <3>4. QED
      BY <3>3
  <2>7. QED
    BY <1>2, <2>3, <2>4, <2>5, <2>6 DEF MayPrecede, AnswerTypes, IsVideo
<1>8. QED
  <2>1. /\ alive' \subseteq used' /\ used \subseteq used' /\ used' \subseteq Wids
        /\ late \subseteq late' /\ late' \subseteq used'
        /\ stream' \in [Wids -> Nat]
    BY <1>1, <1>3 DEF NumInv, TypeOK
  <2>2. p \in WindowPackets \cup DrawPackets \cup Control
    BY <1>2
  <2>3. p.seq = nextSeq /\ nextSeq' = nextSeq + 1 /\ p.type = "draw"
    BY <1>2, <1>3
  <2>4. QED
    BY <1>3, <1>4, <1>5, <1>6, <1>7, <2>1, <2>2, <2>3, SendNumInv

\* A disconnect packet carries neither window nor number.
LEMMA DisconnectNumInv == ASSUME NumInv, ServerDisconnect PROVE NumInv'
<1> DEFINE p == [type |-> "disconnect"]
<1>1. p \in Control /\ p.type = "disconnect"
  BY DEF Control
<1>2. ServerSend(p) /\ UNCHANGED <<alive, used, late, stream, keyed, nextSeq>>
  BY DEF ServerDisconnect
<1>3. \A x \in InFlight : Sent(x)'
  BY <1>2 DEF NumInv, Known, Sent
<1>4. Sent(p)'
  BY <1>1, <1>2 DEF Sent, Owed, IsVideo, AnswerTypes
<1>5. Ahead(late', InFlight, {p})
  BY <1>1 DEF Ahead, MayPrecede, AnswerTypes, IsVideo
<1>6. QED
  <2>1. /\ alive' \subseteq used' /\ used \subseteq used' /\ used' \subseteq Wids
        /\ late \subseteq late' /\ late' \subseteq used'
        /\ stream' \in [Wids -> Nat] /\ keyed' \in [Wids -> BOOLEAN]
    BY <1>2 DEF NumInv, TypeOK
  <2>2. p \in WindowPackets \cup DrawPackets \cup Control
    BY <1>1
  <2>3. nextSeq' = nextSeq /\ p.type # "draw"
    BY <1>1, <1>2
  <2> HIDE DEF p
  <2>4. QED
    BY <1>2, <1>3, <1>4, <1>5, <2>1, <2>2, <2>3, SendNumInv

\* Once the connection is down nothing is acknowledged any more.
LEMMA BreakNumInv == ASSUME NumInv, ConnectionBreaks PROVE NumInv'
<1>1. /\ conn' = "down" /\ wire' = <<>>
      /\ UNCHANGED <<server, acks, reader, events, ui, decodeq, decode>>
  BY DEF ConnectionBreaks
<1>2. Range(wire') = {} /\ wire' \in Seq(WindowPackets \cup DrawPackets \cup Control)
  BY <1>1 DEF Range
<1>3. InFlight' \subseteq InFlight
  BY <1>1, <1>2 DEF InFlight
<1>4. TypeOK'
  BY <1>1, <1>2 DEF NumInv, TypeOK, server, ui, decode
<1>5. PathOrdered'
  BY <1>1, PathBreak DEF NumInv, PathOrdered, server
<1>6. AnswersFirst' /\ Known'
  BY <1>1, <1>3, FewerInFlight DEF NumInv
<1>7. Counted' /\ HelloFirst'
  BY <1>1 DEF NumInv, Counted, HelloFirst, Live, ui, server
<1>8. Numbered'
  BY <1>1 DEF NumInv, Numbered, Understood, server
<1>9. QED
  BY <1>4, <1>5, <1>6, <1>7, <1>8 DEF NumInv

-----------------------------------------------------------------------------
(* The reader thread *)

\* The same packets are in flight after a read.
LEMMA ReadEffect ==
    ASSUME TypeOK, PathOrdered, ReadPacket
    PROVE  /\ wire # <<>> /\ wire' = Tail(wire) /\ events' = Append(events, Head(wire))
           /\ Head(wire) \in WindowPackets \cup DrawPackets \cup Control
           /\ Head(wire) \in Item
           /\ InFlight' = InFlight /\ PathOrdered'
           /\ UNCHANGED <<server, conn, acks, reader, ui, decodeq, decode>>
<1>1. /\ wire # <<>> /\ wire' = Tail(wire) /\ events' = Append(events, Head(wire))
      /\ UNCHANGED <<server, conn, acks, reader, ui, decodeq, decode>>
  BY DEF ReadPacket
<1>2. decodeq \in Seq(Item) /\ events \in Seq(Item) /\ wire \in Seq(Item)
  BY QueueItems
<1>3. /\ Range(wire) = {Head(wire)} \cup Range(wire') /\ Head(wire) \in Item
      /\ Range(events') = Range(events) \cup {Head(wire)}
  BY <1>1, <1>2, TailRange, AppendRange
<1>4. InFlight' = InFlight
  BY <1>1, <1>3 DEF InFlight
<1>5. Head(wire) \in WindowPackets \cup DrawPackets \cup Control
  BY <1>3, QueueItems
<1>6. PathOrdered'
  BY <1>1, <1>2, PathRead DEF PathOrdered, server
<1>7. QED
  BY <1>1, <1>3, <1>4, <1>5, <1>6

\* A packet read is posted to the UI thread behind what is queued there.
LEMMA ReadNumInv == ASSUME NumInv, ReadPacket PROVE NumInv'
<1>1. /\ wire # <<>> /\ wire' = Tail(wire) /\ events' = Append(events, Head(wire))
      /\ Head(wire) \in WindowPackets \cup DrawPackets \cup Control
      /\ Head(wire) \in Item
      /\ InFlight' = InFlight /\ PathOrdered'
      /\ UNCHANGED <<server, conn, acks, reader, ui, decodeq, decode>>
  BY ReadEffect DEF NumInv
<1>2. TypeOK'
  <2>1. wire' \in Seq(WindowPackets \cup DrawPackets \cup Control)
    BY <1>1 DEF NumInv, TypeOK
  <2>2. events' \in Seq(WindowPackets \cup DrawPackets \cup Results \cup Control)
    BY <1>1 DEF NumInv, TypeOK
  <2>3. QED
    BY <1>1, <2>1, <2>2 DEF NumInv, TypeOK, server, ui, decode
<1>3. AnswersFirst' /\ Known'
  BY <1>1, FewerInFlight DEF NumInv
<1>4. Counted' /\ Numbered'
  BY <1>1, SameOwed DEF NumInv, Live, ui, server
<1>5. HelloFirst'
  <2>1. events \in Seq(Item) /\ wire \in Seq(Item) /\ Head(wire) \in Item
    BY QueueItems, <1>1 DEF NumInv
  <2>2. /\ Range(events') = Range(events) \cup {Head(wire)}
        /\ events' # <<>> /\ Head(events') = IF events = <<>> THEN Head(wire) ELSE Head(events)
    BY <1>1, <2>1, AppendRange
  <2>3. Head(wire).type \notin AnswerTypes
    BY <1>1 DEF WindowPackets, DrawPackets, Control, AnswerTypes
  <2>4. QED
    BY <1>1, <2>2, <2>3 DEF NumInv, HelloFirst, Live, ui, server
<1>6. QED
  BY <1>1, <1>2, <1>3, <1>4, <1>5 DEF NumInv

\* The error of a broken connection is posted like a packet.
LEMMA ReadErrorEffect ==
    ASSUME TypeOK, PathOrdered, AnswersFirst, Known, ReadError
    PROVE  /\ PathOrdered' /\ AnswersFirst' /\ Known' /\ TypeOK'
           /\ InFlight' = InFlight \cup {[type |-> "connection-lost"]}
           /\ conn = "down"
           /\ UNCHANGED <<server, conn, wire, acks, ui, decodeq, decode>>
<1> DEFINE c == [type |-> "connection-lost"]
<1>1. c \in Control /\ c \in Item /\ c.type = "connection-lost"
  BY DEF Control, Item
<1>2. /\ reader' = FALSE /\ events' = Append(events, c) /\ conn = "down"
      /\ UNCHANGED <<server, conn, wire, acks, ui, decodeq, decode>>
  BY DEF ReadError
<1> HIDE DEF c
<1>3. decodeq \in Seq(Item) /\ events \in Seq(Item) /\ wire \in Seq(Item)
  BY QueueItems
<1>4. InFlight' = InFlight \cup {c}
  BY <1>1, <1>2, <1>3, AppendRange DEF InFlight
<1>5. \A L, x : MayPrecede(L, x, c) /\ MayPrecede(L, c, x)
  BY <1>1 DEF MayPrecede, AnswerTypes, IsVideo
<1>6. PathOrdered'
  BY <1>1, <1>2, <1>3, <1>5, PathPost DEF PathOrdered, Ahead, server
<1>7. AnswersFirst' /\ Known'
  BY <1>2, <1>4, FewerInFlight DEF c
<1>8. TypeOK'
  <2>1. events' \in Seq(WindowPackets \cup DrawPackets \cup Results \cup Control)
    BY <1>1, <1>2, AppendProperties DEF TypeOK
  <2>2. reader' \in BOOLEAN
    BY <1>2
  <2>3. QED
    BY <1>2, <2>1, <2>2 DEF TypeOK, server, ui, decode
<1>9. QED
  BY <1>2, <1>4, <1>6, <1>7, <1>8 DEF c

\* The notice that the connection is lost needs no acknowledgement.
LEMMA ReadErrorNumInv == ASSUME NumInv, ReadError PROVE NumInv'
<1>1. /\ PathOrdered' /\ AnswersFirst' /\ Known' /\ TypeOK'
      /\ conn = "down" /\ UNCHANGED <<server, conn, wire, acks, ui, decodeq, decode>>
  BY ReadErrorEffect DEF NumInv
<1>2. Counted' /\ Numbered' /\ HelloFirst'
  BY <1>1 DEF NumInv, Counted, Numbered, Understood, HelloFirst, Live, ui, server
<1>3. QED
  BY <1>1, <1>2 DEF NumInv

-----------------------------------------------------------------------------
(* The UI thread *)

\* the queue after its head was handled: writing may have failed at once
Handled == events' \in {Tail(events), Append(Tail(events), [type |-> "connection-lost"])}

\* A handler takes the head of the queue; nothing else leaves it.
LEMMA HandledEffect ==
    ASSUME TypeOK, PathOrdered, AnswersFirst, Known, events # <<>>, Handled,
           UNCHANGED <<server, decodeq, wire>>
    PROVE  /\ PathOrdered' /\ AnswersFirst' /\ Known'
           /\ events' \in Seq(WindowPackets \cup DrawPackets \cup Results \cup Control)
           /\ Head(events) \in Item /\ Head(events) \in InFlight
           /\ InFlight \subseteq InFlight' \cup {Head(events)}
           /\ InFlight' \subseteq InFlight \cup {[type |-> "connection-lost"]}
           /\ Range(events') \subseteq Range(events) \cup {[type |-> "connection-lost"]}
           /\ InFlight' \subseteq Range(decodeq) \cup Range(Tail(events)) \cup Range(wire)
                                  \cup {[type |-> "connection-lost"]}
           /\ \A x \in Range(Tail(events)) : MayPrecede(late, Head(events), x)
<1>0. PICK c : c = [type |-> "connection-lost"]
  OBVIOUS
<1>1. c \in Control /\ c \in Item /\ c.type = "connection-lost"
  BY <1>0 DEF Control, Item
<1>2. events' \in {Tail(events), Append(Tail(events), c)}
  BY <1>0 DEF Handled
<1>3. decodeq \in Seq(Item) /\ events \in Seq(Item) /\ wire \in Seq(Item)
  BY QueueItems
<1>4. /\ Range(events) = {Head(events)} \cup Range(Tail(events))
      /\ Head(events) \in Item /\ Tail(events) \in Seq(Item)
  BY <1>3, TailRange
<1>t. PICK t \in Seq(Item) : t = Tail(events) /\ (events' = t \/ events' = Append(t, c))
  BY <1>2, <1>4
<1>a. Range(Append(t, c)) = Range(t) \cup {c}
  BY <1>1, AppendRange
<1>5. Range(events') = Range(t) \/ Range(events') = Range(t) \cup {c}
  BY <1>t, <1>a
<1>6. \A L, x : MayPrecede(L, x, c) /\ MayPrecede(L, c, x)
  BY <1>1 DEF MayPrecede, AnswerTypes, IsVideo
<1>7. Path(late, decodeq, Tail(events), wire)
  BY <1>3, PathDrop DEF PathOrdered
<1>8. Path(late, decodeq, Append(t, c), wire)
  <2>1. /\ Ahead(late, Range(decodeq) \cup Range(t), {c})
        /\ Ahead(late, {c}, Range(wire))
    BY <1>6 DEF Ahead
  <2>2. QED
    BY <1>1, <1>3, <1>t, <1>7, <2>1, PathPost
<1>9. PathOrdered'
  BY <1>t, <1>7, <1>8 DEF PathOrdered, server
<1>10. InFlight' \subseteq InFlight \cup {c} /\ InFlight \subseteq InFlight' \cup {Head(events)}
  BY <1>4, <1>5, <1>t DEF InFlight
<1>11. AnswersFirst' /\ Known'
  BY <1>10, <1>0, FewerInFlight
<1>12. events' \in Seq(WindowPackets \cup DrawPackets \cup Results \cup Control)
  <2>1. t \in Seq(WindowPackets \cup DrawPackets \cup Results \cup Control)
    BY <1>t DEF TypeOK
  <2>2. Append(t, c) \in Seq(WindowPackets \cup DrawPackets \cup Results \cup Control)
    BY <1>1, <2>1
  <2>3. QED
    BY <1>t, <2>1, <2>2
<1>13. \A x \in Range(Tail(events)) : MayPrecede(late, Head(events), x)
  BY <1>3, TailOrdered DEF PathOrdered, Path, Ahead
<1>14. /\ Range(events') \subseteq Range(events) \cup {c}
       /\ InFlight' \subseteq Range(decodeq) \cup Range(Tail(events)) \cup Range(wire) \cup {c}
       /\ Head(events) \in InFlight
  BY <1>4, <1>5, <1>t DEF InFlight
<1>15. QED
  BY <1>4, <1>9, <1>10, <1>11, <1>12, <1>13, <1>14, <1>0

\* A packet that is no result needs no acknowledgement.
LEMMA DropNumInv ==
    ASSUME NumInv, loop, events # <<>>, events' = Tail(events), ~Owed(Head(events)),
           UNCHANGED <<server, conn, wire, acks, reader, loop, decodeq, decode>>,
           windows' \subseteq used, compatible' \in BOOLEAN, quitting' \in BOOLEAN,
           quitting => quitting',
           kind = "old" => compatible',
           Head(events).type = "hello" => (kind = "modern" => ~compatible'),
           Head(events).type # "hello" => compatible' = compatible
    PROVE  NumInv'
<1>1. Handled
  BY DEF Handled
<1>2. /\ PathOrdered' /\ AnswersFirst' /\ Known'
      /\ events' \in Seq(WindowPackets \cup DrawPackets \cup Results \cup Control)
      /\ Head(events) \in Item /\ Head(events) \in InFlight
      /\ InFlight \subseteq InFlight' \cup {Head(events)}
      /\ InFlight' \subseteq InFlight \cup {[type |-> "connection-lost"]}
  BY <1>1, HandledEffect DEF NumInv
<1>3. TypeOK'
  BY <1>2 DEF NumInv, TypeOK, server, decode
<1>4. Counted' /\ Numbered'
  <2>1. Live' => Live
    BY DEF NumInv, TypeOK, Live
  <2>2. ~Owed([type |-> "connection-lost"])
    BY DEF Owed, AnswerTypes
  <2>3. QED
    BY <1>2, <2>1, <2>2, SameOwed DEF NumInv, server
<1>5. HelloFirst'
  <2>1. CASE Head(events).type = "hello"
    BY <2>1 DEF HelloFirst, server
  <2>2. CASE Head(events).type # "hello"
    BY <2>2 DEF NumInv, HelloFirst, server, Live, TypeOK
  <2>3. QED
    BY <2>1, <2>2
<1>6. QED
  BY <1>2, <1>3, <1>4, <1>5 DEF NumInv

\* The handlers that only change the client's own state.
LEMMA HandlersNumInv ==
    ASSUME NumInv, ProcessHello \/ ProcessNewWindow \/ Quit PROVE NumInv'
<1>1. loop /\ events # <<>> /\ events' = Tail(events)
  BY DEF ProcessHello, ProcessNewWindow, Quit, Handle
<1>2. Head(events) \in InFlight /\ Head(events) \in Item
  BY <1>1, QueueItems, TailRange DEF NumInv, InFlight
<1>3. CASE ProcessHello
  <2>1. /\ Head(events).type = "hello"
        /\ compatible' = ServerCompatible(kind, compatible)
        /\ UNCHANGED <<server, conn, wire, acks, reader, quitting, loop, windows,
                       decodeq, decode>>
    BY <1>3 DEF ProcessHello, Handle
  <2>2. ~Owed(Head(events))
    BY <2>1 DEF Owed, AnswerTypes
  <2>3. /\ compatible' \in BOOLEAN /\ (kind = "old" => compatible')
        /\ (kind = "modern" => ~compatible')
    BY <2>1 DEF ServerCompatible, NumInv, TypeOK, HelloFirst
  <2>4. windows' \subseteq used /\ quitting' \in BOOLEAN
    BY <2>1 DEF NumInv, TypeOK
  <2>5. QED
    BY <1>1, <2>1, <2>2, <2>3, <2>4, DropNumInv
<1>4. CASE ProcessNewWindow
  <2>1. /\ Head(events).type = "new-window"
        /\ windows' \in {windows, windows \cup {Head(events).wid}}
        /\ UNCHANGED <<server, conn, wire, acks, reader, quitting, loop,
                       compatible, decodeq, decode>>
    BY <1>4 DEF ProcessNewWindow, Handle
  <2>2. ~Owed(Head(events))
    BY <2>1 DEF Owed, AnswerTypes
  <2>3. Head(events).wid \in used
    BY <1>2, <2>1 DEF NumInv, Known, Sent, Control
  <2>4. /\ windows' \subseteq used /\ quitting' \in BOOLEAN /\ compatible' \in BOOLEAN
        /\ (kind = "old" => compatible')
    BY <2>1, <2>3 DEF NumInv, TypeOK, HelloFirst
  <2>5. QED
    BY <1>1, <2>1, <2>2, <2>4, DropNumInv
<1>5. CASE Quit
  <2>1. /\ Head(events).type \in {"disconnect", "connection-lost"} /\ quitting' = TRUE
        /\ UNCHANGED <<server, conn, wire, acks, reader, loop, windows, compatible,
                       decodeq, decode>>
    BY <1>5 DEF Quit, Handle
  <2>2. ~Owed(Head(events)) /\ Head(events).type # "hello"
    BY <2>1 DEF Owed, AnswerTypes
  <2>3. /\ windows' \subseteq used /\ quitting' \in BOOLEAN /\ compatible' \in BOOLEAN
        /\ (kind = "old" => compatible')
    BY <2>1 DEF NumInv, TypeOK, HelloFirst
  <2>4. QED
    BY <1>1, <2>1, <2>2, <2>3, DropNumInv
<1>6. QED
  BY <1>3, <1>4, <1>5

\* A packet forwarded to the decode thread stays in flight.
LEMMA ForwardEffect ==
    ASSUME TypeOK, PathOrdered, events # <<>>, events' = Tail(events),
           decodeq' = Append(decodeq, Head(events)),
           Head(events).type \in {"draw", "lost-window", "eos"},
           UNCHANGED <<server, wire>>
    PROVE  /\ PathOrdered' /\ InFlight' = InFlight
           /\ events' \in Seq(WindowPackets \cup DrawPackets \cup Results \cup Control)
           /\ decodeq' \in Seq(WindowPackets \cup DrawPackets)
           /\ Range(events') \subseteq Range(events)
<1>1. decodeq \in Seq(Item) /\ events \in Seq(Item) /\ wire \in Seq(Item)
  BY QueueItems
<1>2. /\ Range(events) = {Head(events)} \cup Range(Tail(events)) /\ Head(events) \in Item
      /\ Range(Append(decodeq, Head(events))) = Range(decodeq) \cup {Head(events)}
  BY <1>1, TailRange, AppendRange
<1>3. InFlight' = InFlight /\ Range(events') \subseteq Range(events)
  BY <1>2 DEF InFlight
<1>4. Path(late, Append(decodeq, Head(events)), Tail(events), wire)
  BY <1>1, PathForward DEF PathOrdered
<1>5. PathOrdered'
  BY <1>4 DEF PathOrdered, server
<1>6. events' \in Seq(WindowPackets \cup DrawPackets \cup Results \cup Control)
  BY DEF TypeOK
<1>7. decodeq' \in Seq(WindowPackets \cup DrawPackets)
  <2>1. Head(events) \in WindowPackets \cup DrawPackets
    BY <1>2, ItemFields
  <2>2. decodeq \in Seq(WindowPackets \cup DrawPackets)
    BY DEF TypeOK
  <2>3. QED
    BY <2>1, <2>2
<1>8. QED
  BY <1>3, <1>5, <1>6, <1>7

\* The handlers that forward their packet, and those that do so on Windows only.
LEMMA ForwardNumInv ==
    ASSUME NumInv, ProcessLostWindow \/ ProcessEos \/ ProcessDraw PROVE NumInv'
<1>1. /\ loop /\ events # <<>> /\ events' = Tail(events)
      /\ Head(events).type \in {"draw", "lost-window", "eos"}
      /\ windows' \subseteq windows
      /\ UNCHANGED <<server, conn, wire, acks, reader, quitting, loop, compatible, decode>>
      /\ \/ decodeq' = Append(decodeq, Head(events))
         \/ decodeq' = decodeq /\ Head(events).type # "draw"
  BY DEF ProcessLostWindow, ProcessEos, ProcessDraw, Handle, Forward, ui
<1>2. CASE decodeq' = Append(decodeq, Head(events))
  <2>1. /\ PathOrdered' /\ InFlight' = InFlight
        /\ events' \in Seq(WindowPackets \cup DrawPackets \cup Results \cup Control)
        /\ decodeq' \in Seq(WindowPackets \cup DrawPackets)
        /\ Range(events') \subseteq Range(events)
    BY <1>1, <1>2, ForwardEffect DEF NumInv
  <2>2. TypeOK'
    BY <1>1, <2>1 DEF NumInv, TypeOK, server, decode
  <2>3. AnswersFirst' /\ Known'
    BY <1>1, <2>1, FewerInFlight DEF NumInv
  <2>4. Counted' /\ Numbered'
    BY <1>1, <2>1, SameOwed DEF NumInv, Live, server
  <2>5. HelloFirst'
    BY <1>1, <2>1 DEF NumInv, HelloFirst, Live, server
  <2>6. QED
    BY <2>1, <2>2, <2>3, <2>4, <2>5 DEF NumInv
<1>3. CASE decodeq' = decodeq /\ Head(events).type # "draw"
  <2>1. ~Owed(Head(events)) /\ Head(events).type # "hello"
    BY <1>1, <1>3 DEF Owed, AnswerTypes
  <2>2. /\ windows' \subseteq used /\ quitting' \in BOOLEAN /\ compatible' \in BOOLEAN
        /\ (kind = "old" => compatible')
    BY <1>1 DEF NumInv, TypeOK, HelloFirst
  <2>3. QED
    BY <1>1, <1>3, <2>1, <2>2, DropNumInv
<1>4. QED
  BY <1>1, <1>2, <1>3

\* The head of the queue, when it is a result, is of the oldest draw not acknowledged: the
\* results keep the order of the draws, and every draw not decoded yet is younger.
LEMMA NextAck ==
    ASSUME NumInv, Live, events # <<>>, Head(events).type \in AnswerTypes
    PROVE  Head(events).seq = Len(acks) + 1 /\ Len(acks) + 1 < nextSeq
<1> DEFINE h == Head(events)
<1>1. events \in Seq(Item)
  BY QueueItems DEF NumInv
<1>2. /\ Range(events) = {h} \cup Range(Tail(events)) /\ h \in InFlight
  BY <1>1, TailRange DEF InFlight
<1>3. \A x \in Range(Tail(events)) : MayPrecede(late, h, x)
  BY <1>1, TailOrdered DEF NumInv, PathOrdered, Path, Ahead
<1>4. Owed(h) /\ h \in Item /\ h.seq \in Nat
  BY <1>2, QueueItems, ItemFields DEF NumInv, Owed
<1>5. Len(acks) < h.seq /\ h.seq < nextSeq /\ Len(acks) \in Nat /\ nextSeq \in Nat
  BY <1>2, <1>4, DrawAssumption DEF NumInv, Counted, Known, Sent, TypeOK
<1>6. ASSUME Len(acks) + 1 < h.seq PROVE FALSE
  <2>0. Len(acks) + 1 \in Nat /\ Len(acks) < Len(acks) + 1 /\ Len(acks) + 1 < nextSeq
    BY <1>4, <1>5, <1>6
  <2>1. PICK x \in InFlight : Owed(x) /\ x.seq = Len(acks) + 1
    BY <2>0 DEF NumInv, Counted
  <2>2. x \in Item /\ x.seq < h.seq
    BY <1>6, <2>1, QueueItems DEF NumInv
  <2>3. CASE x.type = "draw"
    BY <1>2, <1>4, <1>5, <2>1, <2>2, <2>3 DEF NumInv, AnswersFirst
  <2>4. CASE x.type \in AnswerTypes
    <3>1. x \in Range(events)
      <4>1. x \notin WindowPackets \cup DrawPackets \cup Control
        BY <2>2, <2>4, ItemFields DEF AnswerTypes
      <4>2. QED
        BY <2>1, <4>1, QueueItems DEF NumInv, InFlight
    <3>2. x # h
      BY <1>4, <1>5, <2>2
    <3>3. MayPrecede(late, h, x)
      BY <1>2, <1>3, <3>1, <3>2
    <3>4. h.seq < x.seq
      BY <2>4, <3>3 DEF MayPrecede
    <3>5. QED
      BY <1>4, <1>5, <2>1, <2>2, <3>4
  <2>5. QED
    BY <2>1, <2>3, <2>4 DEF Owed
<1>7. QED
  BY <1>4, <1>5, <1>6

\* What write_json does with an acknowledgement: it is sent, or the session is over.
LEMMA WriteEffect ==
    ASSUME NEW a, Write(a), conn' = conn
    PROVE  /\ Handled /\ (quitting' = quitting \/ quitting' = TRUE)
           /\ \/ acks' = acks /\ ~Live'
              \/ acks' = Append(acks, a) /\ Live /\ events' = Tail(events)
                 /\ quitting' = quitting
<1>1. Handled
  BY DEF Write, Handled
<1>2. quitting' = quitting \/ quitting' = TRUE
  BY DEF Write
<1>3. \/ acks' = acks /\ ~Live'
      \/ acks' = Append(acks, a) /\ Live /\ events' = Tail(events) /\ quitting' = quitting
  <2>1. CASE quitting /\ acks' = acks /\ quitting' = quitting
    BY <2>1 DEF Live
  <2>2. CASE conn = "down" /\ acks' = acks
    BY <2>2 DEF Live
  <2>3. CASE /\ ~quitting /\ conn = "up" /\ acks' = Append(acks, a)
             /\ events' = Tail(events) /\ quitting' = quitting
    BY <2>3 DEF Live
  <2>4. QED
    BY <2>1, <2>2, <2>3 DEF Write
<1>4. QED
  BY <1>1, <1>2, <1>3

\* An acknowledgement is of the next draw and in the layout the server's hello told.
LEMMA AckNumInv ==
    ASSUME NumInv, ProcessDrawDecoded \/ ProcessDrawFailed PROVE NumInv'
<1>1. PICK painted \in BOOLEAN :
         /\ loop /\ events # <<>> /\ Head(events).type \in AnswerTypes
         /\ Write(Ack(Head(events).wid, Head(events).seq, painted))
         /\ UNCHANGED <<server, conn, wire, reader, loop, windows, compatible,
                        decodeq, decode>>
  <2>1. CASE ProcessDrawDecoded
    <3>1. (Head(events).wid \in windows) \in BOOLEAN
      OBVIOUS
    <3>2. QED
      BY <2>1, <3>1 DEF ProcessDrawDecoded, Handle, AnswerTypes
  <2>2. CASE ProcessDrawFailed
    BY <2>2 DEF ProcessDrawFailed, Handle, AnswerTypes
  <2>3. QED
    BY <2>1, <2>2
<1> DEFINE h == Head(events)
<1>2. PICK a : a = Ack(h.wid, h.seq, painted)
  OBVIOUS
<1>3. /\ Handled /\ (quitting' = quitting \/ quitting' = TRUE)
      /\ \/ acks' = acks /\ ~Live'
         \/ acks' = Append(acks, a) /\ Live /\ events' = Tail(events) /\ quitting' = quitting
  BY <1>1, <1>2, WriteEffect
<1>4. /\ PathOrdered' /\ AnswersFirst' /\ Known'
      /\ events' \in Seq(WindowPackets \cup DrawPackets \cup Results \cup Control)
      /\ h \in Item /\ h \in InFlight
      /\ InFlight \subseteq InFlight' \cup {h}
      /\ InFlight' \subseteq InFlight \cup {[type |-> "connection-lost"]}
      /\ InFlight' \subseteq Range(decodeq) \cup Range(Tail(events)) \cup Range(wire)
                             \cup {[type |-> "connection-lost"]}
      /\ \A x \in Range(Tail(events)) : MayPrecede(late, h, x)
  BY <1>1, <1>3, HandledEffect DEF NumInv
<1>5. /\ h.wid \in Wids /\ h.seq \in Nat /\ h \in Results
  BY <1>1, <1>4, ItemFields DEF Owed, Control, Results, AnswerTypes
<1>6. /\ a \in Acks /\ a.seq = h.seq
      /\ a.layout = IF compatible THEN "window-draw-ack" ELSE "window-ack"
  BY <1>2, <1>5 DEF Ack, Acks
<1>7. CASE acks' = acks /\ ~Live'
  <2>1. quitting' \in BOOLEAN
    BY <1>3 DEF NumInv, TypeOK
  <2>2. TypeOK'
    BY <1>1, <1>4, <1>7, <2>1 DEF NumInv, TypeOK, server, decode
  <2>3. Counted' /\ Numbered' /\ HelloFirst'
    BY <1>1, <1>7 DEF NumInv, Counted, Numbered, Understood, HelloFirst, server
  <2>4. QED
    BY <1>4, <2>2, <2>3 DEF NumInv
<1>8. CASE acks' = Append(acks, a) /\ Live /\ events' = Tail(events) /\ quitting' = quitting
  <2>1. h.seq = Len(acks) + 1 /\ Len(acks) + 1 < nextSeq
    BY <1>1, <1>8, NextAck
  <2>2. /\ acks \in Seq(Acks) /\ Len(acks) \in Nat /\ acks' \in Seq(Acks)
        /\ Len(acks') = Len(acks) + 1 /\ acks'[Len(acks) + 1] = a
        /\ \A i \in 1..Len(acks) : acks'[i] = acks[i]
    BY <1>6, <1>8 DEF NumInv, TypeOK
  <2>3. TypeOK'
    <3>1. Len(acks') < nextSeq' /\ acks' \in Seq(Acks) /\ quitting' \in BOOLEAN
      BY <1>1, <1>8, <2>1, <2>2 DEF server, NumInv, TypeOK
    <3>2. QED
      BY <1>1, <1>4, <3>1 DEF NumInv, TypeOK, server, decode
  <2>4. Understood(a)
    <3>1. kind = "modern" => ~compatible
      <4>1. h \in Range(events)
        BY <1>1, QueueItems, TailRange DEF NumInv
      <4>2. QED
        BY <1>1, <1>8, <4>1 DEF NumInv, HelloFirst
    <3>2. QED
      BY <1>6, <3>1 DEF Understood, NumInv, HelloFirst
  <2>5. Numbered'
    <3>1. kind' = kind
      BY <1>1 DEF server
    <3>2. SUFFICES ASSUME NEW i \in 1..(Len(acks) + 1)
                   PROVE  acks'[i].seq = i /\ Understood(acks'[i])
      BY <2>2, <3>1 DEF Numbered, Understood
    <3>3. CASE i = Len(acks) + 1
      BY <1>6, <2>1, <2>2, <2>4, <3>3
    <3>4. CASE i \in 1..Len(acks)
      BY <2>2, <3>4 DEF NumInv, Numbered
    <3>5. QED
      BY <2>2, <3>3, <3>4
  <2>6. Counted'
    <3>1. \A x \in InFlight' : Owed(x) => Len(acks) + 1 < x.seq
      <4>1. SUFFICES ASSUME NEW x \in InFlight', Owed(x) PROVE Len(acks) + 1 < x.seq
        OBVIOUS
      <4>2. ~Owed([type |-> "connection-lost"])
        BY DEF Owed, AnswerTypes
      <4>3. x \in Range(decodeq) \cup Range(Tail(events)) \cup Range(wire) /\ x \in InFlight
        BY <1>4, <4>1, <4>2
      <4>4. CASE x.type = "draw"
        BY <1>1, <1>4, <2>1, <4>3, <4>4 DEF NumInv, AnswersFirst
      <4>5. CASE x.type \in AnswerTypes
        <5>1. x \in Range(Tail(events))
          <6>1. x \in Item
            BY <4>3, QueueItems DEF NumInv
          <6>2. x \notin WindowPackets \cup DrawPackets \cup Control
            BY <4>5, <6>1, ItemFields DEF AnswerTypes
          <6>3. QED
            BY <4>3, <6>2, QueueItems DEF NumInv
        <5>2. QED
          BY <1>1, <1>4, <2>1, <4>5, <5>1 DEF MayPrecede
      <4>6. QED
        BY <4>1, <4>4, <4>5 DEF Owed
    <3>2. \A s \in Nat : Len(acks) + 1 < s /\ s < nextSeq =>
             \E x \in InFlight' : Owed(x) /\ x.seq = s
      <4>1. SUFFICES ASSUME NEW s \in Nat, Len(acks) + 1 < s, s < nextSeq
                     PROVE  \E x \in InFlight' : Owed(x) /\ x.seq = s
        OBVIOUS
      <4>2. Len(acks) < s
        BY <2>2, <4>1
      <4>3. PICK x \in InFlight : Owed(x) /\ x.seq = s
        BY <1>8, <4>1, <4>2 DEF NumInv, Counted
      <4>4. x # h
        BY <2>1, <2>2, <4>1, <4>3
      <4>5. QED
        BY <1>4, <4>3, <4>4
    <3>3. QED
      BY <1>1, <2>2, <3>1, <3>2 DEF Counted, server
  <2>7. HelloFirst'
    <3>1. ~(kind = "modern" /\ compatible)
      <4>1. h \in Range(events)
        BY <1>1, QueueItems, TailRange DEF NumInv
      <4>2. QED
        BY <1>1, <1>8, <4>1 DEF NumInv, HelloFirst
    <3>2. QED
      BY <1>1, <3>1 DEF NumInv, HelloFirst, server
  <2>8. QED
    BY <1>4, <2>3, <2>5, <2>6, <2>7 DEF NumInv
<1>9. QED
  BY <1>3, <1>7, <1>8

\* The end of the loop leaves the queues as they are.
LEMMA LoopEndsNumInv == ASSUME NumInv, LoopEnds PROVE NumInv'
<1>1. /\ loop' = FALSE
      /\ UNCHANGED <<server, conn, wire, acks, reader, events, quitting, windows,
                     compatible, decodeq, decode>>
  BY DEF LoopEnds
<1>2. InFlight' = InFlight /\ PathOrdered' = PathOrdered
  BY <1>1 DEF InFlight, PathOrdered, server
<1>3. TypeOK'
  BY <1>1 DEF NumInv, TypeOK, server, decode
<1>4. AnswersFirst' /\ Known'
  BY <1>1, <1>2, FewerInFlight DEF NumInv
<1>5. Counted' /\ Numbered'
  BY <1>1, <1>2, SameOwed DEF NumInv, Live, server
<1>6. HelloFirst'
  BY <1>1 DEF NumInv, HelloFirst, Live, server
<1>7. QED
  BY <1>2, <1>3, <1>4, <1>5, <1>6 DEF NumInv

-----------------------------------------------------------------------------
(* The decode thread *)

\* what is in flight besides the packet the decode thread takes
Behind == Range(Tail(decodeq)) \cup Range(events) \cup Range(wire)

\* The decode thread takes a packet that was ahead of all others.
LEMMA TakeEffect ==
    ASSUME TypeOK, PathOrdered, decodeq # <<>>
    PROVE  /\ InFlight = {Head(decodeq)} \cup Behind
           /\ Head(decodeq) \in WindowPackets \cup DrawPackets
           /\ Head(decodeq) \in Item /\ Behind \subseteq Item
           /\ Tail(decodeq) \in Seq(WindowPackets \cup DrawPackets)
           /\ Tail(decodeq) \in Seq(Item)
           /\ Path(late, Tail(decodeq), events, wire)
           /\ \A x \in Behind : MayPrecede(late, Head(decodeq), x)
<1>1. decodeq \in Seq(Item) /\ events \in Seq(Item) /\ wire \in Seq(Item)
  BY QueueItems
<1>2. /\ Range(decodeq) = {Head(decodeq)} \cup Range(Tail(decodeq))
      /\ Tail(decodeq) \in Seq(Item)
  BY <1>1, TailRange
<1>3. InFlight = {Head(decodeq)} \cup Behind
  BY <1>2 DEF InFlight, Behind
<1>4. /\ Head(decodeq) \in WindowPackets \cup DrawPackets
      /\ Tail(decodeq) \in Seq(WindowPackets \cup DrawPackets)
  BY DEF TypeOK
<1>5. /\ Path(late, Tail(decodeq), events, wire)
      /\ \A x \in Behind : MayPrecede(late, Head(decodeq), x)
  BY <1>1, PathTake DEF PathOrdered, Ahead, Behind
<1>6. Head(decodeq) \in Item /\ Behind \subseteq Item
  BY <1>3, QueueItems
<1>7. QED
  BY <1>2, <1>3, <1>4, <1>5, <1>6

\* The result of a draw, posted behind all earlier results, replaces the draw.
LEMMA PostEffect ==
    ASSUME TypeOK, PathOrdered, AnswersFirst, Known, decodeq # <<>>,
           Head(decodeq).type = "draw", NEW r \in Results,
           r.seq = Head(decodeq).seq, r.wid = Head(decodeq).wid,
           Post(r), UNCHANGED server
    PROVE  /\ InFlight' = {r} \cup Behind
           /\ events' \in Seq(WindowPackets \cup DrawPackets \cup Results \cup Control)
           /\ Range(events') = Range(events) \cup {r}
           /\ decodeq' = Tail(decodeq)
           /\ PathOrdered' /\ AnswersFirst' /\ Known'
<1> DEFINE d == Head(decodeq)
<1>1. /\ decodeq' = Tail(decodeq) /\ events' = Append(events, r)
      /\ UNCHANGED <<server, conn, wire, acks, reader, ui>>
  BY DEF Post
<1>2. /\ InFlight = {d} \cup Behind
      /\ d \in WindowPackets \cup DrawPackets
      /\ d \in Item /\ Behind \subseteq Item
      /\ Tail(decodeq) \in Seq(Item)
      /\ Path(late, Tail(decodeq), events, wire)
      /\ \A x \in Behind : MayPrecede(late, d, x)
  BY TakeEffect
<1>3. r \in Item /\ r.type \in AnswerTypes /\ r.type # "draw" /\ r \notin Control
  BY DEF Item, Results, Control, AnswerTypes
<1>4. events \in Seq(Item) /\ wire \in Seq(Item)
  BY QueueItems
<1>5. Range(events') = Range(events) \cup {r}
  BY <1>1, <1>3, <1>4, AppendRange
<1>6. InFlight' = {r} \cup Behind
  BY <1>1, <1>5 DEF InFlight, Behind
<1>7. d.seq \in Nat /\ Owed(d)
  BY <1>2, ItemFields DEF Owed
<1>8. \A x \in Behind : x.type \in AnswerTypes => x.seq < d.seq
  BY <1>2 DEF AnswersFirst
<1>9. \A x \in Behind : x.type = "draw" => d.seq < x.seq
  BY <1>2 DEF MayPrecede
<1>10. AnswersFirst'
  BY <1>3, <1>6, <1>9, <1>2 DEF AnswersFirst
<1>11. Known'
  <2>1. Sent(d)
    BY <1>2 DEF Known
  <2>2. Sent(r)
    <3>1. d \notin Control
      BY DEF Control
    <3>2. QED
      BY <1>3, <1>7, <2>1, <3>1 DEF Sent, AnswerTypes, IsVideo
  <2>3. \A x : Sent(x) => Sent(x)'
    BY DEF Sent, server
  <2>4. QED
    BY <1>2, <1>6, <2>2, <2>3 DEF Known, server
<1>12. PathOrdered'
  <2>1. Ahead(late, Range(Tail(decodeq)) \cup Range(events), {r})
    <3>1. SUFFICES ASSUME NEW x \in Range(Tail(decodeq)) \cup Range(events)
                   PROVE  MayPrecede(late, x, r)
      BY DEF Ahead
    <3>2. x \in Behind
      BY DEF Behind
    <3>3. QED
      BY <1>3, <1>8, <3>2 DEF MayPrecede, AnswerTypes, IsVideo
  <2>2. Ahead(late, {r}, Range(wire))
    <3>1. \A x \in Range(wire) : x.type \notin AnswerTypes
      BY QueueItems DEF WindowPackets, DrawPackets, Control, AnswerTypes
    <3>2. QED
      BY <1>3, <3>1 DEF Ahead, MayPrecede, AnswerTypes, IsVideo
  <2>3. Path(late, Tail(decodeq), Append(events, r), wire)
    BY <1>2, <1>3, <1>4, <2>1, <2>2, PathPost
  <2>4. QED
    BY <1>1, <2>3 DEF PathOrdered, server
<1>13. events' \in Seq(WindowPackets \cup DrawPackets \cup Results \cup Control)
  BY <1>1 DEF TypeOK
<1>14. QED
  BY <1>1, <1>5, <1>6, <1>10, <1>11, <1>12, <1>13

\* A decoded or failed draw is the result of the draw at the head of the channel.
LEMMA DecodeEffect ==
    ASSUME TypeOK, DecodePicture \/ DecodeVideo
    PROVE  /\ loop /\ decodeq # <<>> /\ Head(decodeq).type = "draw"
           /\ UNCHANGED <<server, conn, wire, acks, reader, ui>>
           /\ \E r \in Results : /\ r.seq = Head(decodeq).seq
                                 /\ r.wid = Head(decodeq).wid
                                 /\ Post(r)
           /\ DOMAIN decoders' \subseteq DOMAIN decoders \cup {Head(decodeq).wid}
           /\ \A w \in DOMAIN decoders' : decoders'[w] \in [stream : Nat, key : BOOLEAN]
           /\ noDecoder' \subseteq Wids \X Nat
<1> DEFINE d == Head(decodeq)
<1>1. loop /\ decodeq # <<>> /\ d.type = "draw"
  BY DEF DecodePicture, DecodeVideo
<1>2. /\ d \in DrawPackets /\ d.wid \in Wids /\ d.seq \in Nat /\ d.stream \in Nat
      /\ d.coding \in Codings /\ d.key \in BOOLEAN
  <2>1. d \in WindowPackets \cup DrawPackets
    BY <1>1 DEF TypeOK
  <2>2. QED
    BY <1>1, <2>1 DEF WindowPackets, DrawPackets
<1>3. /\ Failed(d) \in Results /\ Failed(d).seq = d.seq /\ Failed(d).wid = d.wid
  BY <1>2 DEF Failed, Results
<1>4. \A b \in BOOLEAN : /\ Decoded(d, b) \in Results
                         /\ Decoded(d, b).seq = d.seq /\ Decoded(d, b).wid = d.wid
  BY <1>2 DEF Decoded, Results
<1>5. CASE DecodePicture
  <2>1. Post(Decoded(d, TRUE)) \/ Post(Failed(d))
    BY <1>5 DEF DecodePicture
  <2>2. PICK r \in Results : r.seq = d.seq /\ r.wid = d.wid /\ Post(r)
    BY <1>3, <1>4, <2>1
  <2>3. UNCHANGED <<server, conn, wire, acks, reader, ui>>
    BY <2>2 DEF Post
  <2>4. UNCHANGED <<decoders, noDecoder>>
    BY <1>5 DEF DecodePicture, decode
  <2>5. QED
    BY <1>1, <2>2, <2>3, <2>4 DEF TypeOK
<1>6. CASE DecodeVideo
  <2>1. PICK built : built = IF d.wid \in DOMAIN decoders THEN decoders[d.wid]
                             ELSE [stream |-> d.stream, key |-> d.key]
    OBVIOUS
  <2>2. built \in [stream : Nat, key : BOOLEAN]
    BY <1>2, <2>1 DEF TypeOK
  <2>3. \/ /\ decoders' = [w \in DOMAIN decoders \cup {d.wid} |->
                              IF w = d.wid THEN built ELSE decoders[w]]
           /\ \/ Post(Decoded(d, built.stream = d.stream /\ built.key))
              \/ Post(Failed(d))
           /\ UNCHANGED noDecoder
        \/ /\ Post(Failed(d))
           /\ noDecoder' = noDecoder \cup {<<d.wid, d.stream>>}
           /\ UNCHANGED decoders
    BY <1>6, <2>1 DEF DecodeVideo
  <2>4. (built.stream = d.stream /\ built.key) \in BOOLEAN
    BY <2>2
  <2>5. PICK r \in Results : r.seq = d.seq /\ r.wid = d.wid /\ Post(r)
    BY <1>3, <1>4, <2>3, <2>4
  <2>6. UNCHANGED <<server, conn, wire, acks, reader, ui>>
    BY <2>5 DEF Post
  <2>7. /\ DOMAIN decoders' \subseteq DOMAIN decoders \cup {d.wid}
        /\ \A w \in DOMAIN decoders' : decoders'[w] \in [stream : Nat, key : BOOLEAN]
    <3>1. CASE decoders' = [w \in DOMAIN decoders \cup {d.wid} |->
                               IF w = d.wid THEN built ELSE decoders[w]]
      BY <2>2, <3>1 DEF TypeOK
    <3>2. CASE UNCHANGED decoders
      BY <3>2 DEF TypeOK
    <3>3. QED
      BY <2>3, <3>1, <3>2
  <2>8. noDecoder' \subseteq Wids \X Nat
    BY <1>2, <2>3 DEF TypeOK
  <2>9. QED
    BY <1>1, <2>5, <2>6, <2>7, <2>8
<1>7. QED
  BY <1>5, <1>6

\* A result takes over the number of its draw.
LEMMA DecodeNumInv == ASSUME NumInv, DecodePicture \/ DecodeVideo PROVE NumInv'
<1> DEFINE d == Head(decodeq)
<1>1. /\ loop /\ decodeq # <<>> /\ d.type = "draw"
      /\ UNCHANGED <<server, conn, wire, acks, reader, ui>>
      /\ DOMAIN decoders' \subseteq DOMAIN decoders \cup {d.wid}
      /\ \A w \in DOMAIN decoders' : decoders'[w] \in [stream : Nat, key : BOOLEAN]
      /\ noDecoder' \subseteq Wids \X Nat
  BY DecodeEffect DEF NumInv
<1>2. PICK r \in Results : r.seq = d.seq /\ r.wid = d.wid /\ Post(r)
  BY DecodeEffect DEF NumInv
<1>3. /\ InFlight' = {r} \cup Behind
      /\ events' \in Seq(WindowPackets \cup DrawPackets \cup Results \cup Control)
      /\ Range(events') = Range(events) \cup {r}
      /\ decodeq' = Tail(decodeq)
      /\ PathOrdered' /\ AnswersFirst' /\ Known'
  BY <1>1, <1>2, PostEffect DEF NumInv
<1>4. /\ InFlight = {d} \cup Behind /\ d \in Item
      /\ Tail(decodeq) \in Seq(WindowPackets \cup DrawPackets)
  BY <1>1, TakeEffect DEF NumInv
<1>5. TypeOK'
  <2>1. d.wid \in Wids
    BY <1>1, <1>4, ItemFields DEF Control
  <2>2. DOMAIN decoders' \subseteq Wids
    BY <1>1, <2>1 DEF NumInv, TypeOK
  <2>3. QED
    BY <1>1, <1>3, <1>4, <2>2 DEF NumInv, TypeOK, server, ui
<1>6. Numbered'
  BY <1>1 DEF NumInv, Numbered, Understood, server
<1>7. Counted'
  <2>1. Owed(d) /\ Owed(r)
    BY <1>1 DEF Owed, Results, AnswerTypes
  <2>2. Live' = Live /\ acks' = acks /\ nextSeq' = nextSeq
    BY <1>1 DEF Live, ui, server
  <2>3. Live => \A x \in InFlight' : Owed(x) => Len(acks) < x.seq
    BY <1>2, <1>3, <1>4, <2>1 DEF NumInv, Counted
  <2>4. Live => \A s \in Nat : Len(acks) < s /\ s < nextSeq =>
                   \E x \in InFlight' : Owed(x) /\ x.seq = s
    BY <1>2, <1>3, <1>4, <2>1 DEF NumInv, Counted
  <2>5. QED
    BY <2>2, <2>3, <2>4 DEF Counted
<1>8. HelloFirst'
  BY <1>1 DEF NumInv, HelloFirst, Live, ui, server
<1>9. QED
  BY <1>3, <1>5, <1>6, <1>7, <1>8 DEF NumInv

\* The decode thread releases a decoder: the packet it takes needs no acknowledgement.
LEMMA ReleaseNumInv == ASSUME NumInv, ReleaseDecoder PROVE NumInv'
<1> DEFINE d == Head(decodeq)
<1>1. /\ loop /\ decodeq # <<>> /\ d.type \in {"lost-window", "eos"}
      /\ decoders' = Without(decoders, d.wid) /\ decodeq' = Tail(decodeq)
      /\ UNCHANGED <<server, conn, wire, acks, reader, events, ui, noDecoder>>
  BY DEF ReleaseDecoder
<1>2. /\ InFlight = {d} \cup Behind /\ d \in Item
      /\ Tail(decodeq) \in Seq(WindowPackets \cup DrawPackets)
      /\ Path(late, Tail(decodeq), events, wire)
  BY <1>1, TakeEffect DEF NumInv
<1>3. InFlight' = Behind
  BY <1>1 DEF InFlight, Behind
<1>4. PathOrdered'
  BY <1>1, <1>2 DEF PathOrdered, server
<1>5. TypeOK'
  <2>1. /\ DOMAIN decoders' \subseteq Wids
        /\ \A w \in DOMAIN decoders' : decoders'[w] \in [stream : Nat, key : BOOLEAN]
    BY <1>1 DEF NumInv, TypeOK, Without
  <2>2. QED
    BY <1>1, <1>2, <2>1 DEF NumInv, TypeOK, server, ui
<1>6. AnswersFirst' /\ Known'
  BY <1>1, <1>2, <1>3, FewerInFlight DEF NumInv
<1>7. Counted' /\ Numbered'
  <2>1. ~Owed(d)
    BY <1>1 DEF Owed, AnswerTypes
  <2>2. QED
    BY <1>1, <1>2, <1>3, <2>1, SameOwed DEF NumInv, Live, ui, server
<1>8. HelloFirst'
  BY <1>1 DEF NumInv, HelloFirst, Live, ui, server
<1>9. QED
  BY <1>4, <1>5, <1>6, <1>7, <1>8 DEF NumInv

-----------------------------------------------------------------------------
(* The acknowledgements *)

\* Every step of the server, the network and the threads keeps the numbering.
LEMMA NextNumInv == NumInv /\ [Next]_vars => NumInv'
<1> SUFFICES ASSUME NumInv, [Next]_vars PROVE NumInv'
  OBVIOUS
<1>1. CASE Server
  BY <1>1, NewWindowNumInv, LostWindowNumInv, EosNumInv, DrawNumInv, DisconnectNumInv
     DEF Server
<1>2. CASE ConnectionBreaks
  BY <1>2, BreakNumInv
<1>3. CASE ReaderThread
  BY <1>3, ReadNumInv, ReadErrorNumInv DEF ReaderThread
<1>4. CASE UiThread
  BY <1>4, HandlersNumInv, ForwardNumInv, AckNumInv DEF UiThread
<1>5. CASE LoopEnds
  BY <1>5, LoopEndsNumInv
<1>6. CASE DecodeThread
  BY <1>6, ReleaseNumInv, DecodeNumInv DEF DecodeThread
<1>7. CASE UNCHANGED vars
  <2>1. UNCHANGED <<server, conn, wire, acks, reader, events, ui, decodeq, decode>>
    BY <1>7 DEF vars
  <2>2. InFlight' = InFlight /\ PathOrdered' = PathOrdered
    BY <2>1 DEF InFlight, PathOrdered, server
  <2>3. TypeOK'
    BY <2>1 DEF NumInv, TypeOK, server, ui, decode
  <2>4. AnswersFirst' /\ Known'
    BY <2>1, <2>2, FewerInFlight DEF NumInv
  <2>5. Counted' /\ Numbered'
    BY <2>1, <2>2, SameOwed DEF NumInv, Live, ui, server
  <2>6. HelloFirst'
    BY <2>1 DEF NumInv, HelloFirst, Live, ui, server
  <2>7. QED
    BY <2>2, <2>3, <2>4, <2>5, <2>6 DEF NumInv
<1>8. QED
  BY <1>1, <1>2, <1>3, <1>4, <1>5, <1>6, <1>7 DEF Next

\* The numbering is right throughout.
LEMMA NumInvCorrect == Spec => []NumInv
  BY InitNumInv, NextNumInv, PTL DEF Spec

\* Every queue, window and decoder keeps its type; no more draws are acknowledged than sent,
\* and the client only knows windows the server announced.
THEOREM TypeCorrect == Spec => []TypeOK
<1>1. NumInv => TypeOK
  BY DEF NumInv
<1>2. QED
  BY <1>1, NumInvCorrect, PTL

\* the acknowledgements as the abstract specification sees them
Acked == [i \in DOMAIN acks |-> IF Understood(acks[i]) THEN acks[i].seq ELSE 0]

\* Two sequences with the same indices are equally long.
LEMMA SameIndices == \A m, n \in Nat : 1..m = 1..n => m = n
<1> SUFFICES ASSUME NEW m \in Nat, NEW n \in Nat, 1..m = 1..n PROVE m = n
  OBVIOUS
<1>1. ASSUME m < n PROVE FALSE
  <2>1. n \in 1..n /\ n \notin 1..m
    BY <1>1
  <2>2. QED
    BY <2>1
<1>2. ASSUME n < m PROVE FALSE
  <2>1. m \in 1..m /\ m \notin 1..n
    BY <1>2
  <2>2. QED
    BY <2>1
<1>3. QED
  BY <1>1, <1>2

\* While the numbering is right they are 1, 2, 3, ...
LEMMA AckedIsCount ==
    ASSUME NumInv
    PROVE  /\ Acked = [i \in 1..Len(acks) |-> i]
           /\ Acked \in Seq(Nat) /\ Len(Acked) = Len(acks) /\ Len(acks) \in Nat
<1>1. DOMAIN acks = 1..Len(acks) /\ Len(acks) \in Nat
  BY DEF NumInv, TypeOK
<1>2. Acked = [i \in 1..Len(acks) |-> i]
  BY <1>1 DEF NumInv, Numbered, Acked
<1>3. Acked \in [1..Len(acks) -> Nat]
  BY <1>1, <1>2
<1>4. Acked \in Seq(Nat)
  BY <1>1, <1>3, SeqDef
<1>5. DOMAIN Acked = 1..Len(Acked) /\ Len(Acked) \in Nat
  BY <1>4
<1>6. Len(Acked) = Len(acks)
  <2>1. 1..Len(Acked) = 1..Len(acks)
    BY <1>2, <1>5
  <2>2. QED
    BY <1>1, <1>5, <2>1, SameIndices
<1>7. QED
  BY <1>1, <1>2, <1>4, <1>6

\* One more acknowledgement, of the next draw, is the abstract step.
LEMMA AckStep ==
    ASSUME NumInv, NumInv', Len(acks') = Len(acks) + 1, UNCHANGED nextSeq
    PROVE  Abstract!Ack
<1>1. /\ Acked = [i \in 1..Len(acks) |-> i] /\ Acked \in Seq(Nat)
      /\ Len(Acked) = Len(acks) /\ Len(acks) \in Nat
  BY AckedIsCount
<1>2. /\ Acked' = [i \in 1..Len(acks') |-> i] /\ Acked' \in Seq(Nat)
      /\ Len(Acked') = Len(acks')
  <2>1. /\ DOMAIN acks' = 1..Len(acks') /\ Len(acks') \in Nat
    BY DEF NumInv, TypeOK
  <2>2. Acked' = [i \in 1..Len(acks') |-> i]
    BY <2>1 DEF NumInv, Numbered, Acked
  <2>3. Acked' \in [1..Len(acks') -> Nat]
    BY <2>1, <2>2
  <2>4. Acked' \in Seq(Nat)
    BY <2>1, <2>3, SeqDef
  <2>5. DOMAIN Acked' = 1..Len(Acked') /\ Len(Acked') \in Nat
    BY <2>4
  <2>6. 1..Len(Acked') = 1..Len(acks')
    BY <2>2, <2>5
  <2>7. Len(Acked') = Len(acks')
    BY <2>1, <2>5, <2>6, SameIndices
  <2>8. QED
    BY <2>2, <2>4, <2>7
<1>3. Acked' = Append(Acked, Len(Acked) + 1)
  <2>1. PICK t \in Seq(Nat) : t = Acked'
    BY <1>2
  <2>2. PICK s \in Seq(Nat) : s = Acked
    BY <1>1
  <2>3. /\ Len(s) = Len(acks) /\ Len(t) = Len(acks) + 1
        /\ \A i \in 1..Len(acks) : s[i] = i
        /\ \A i \in 1..(Len(acks) + 1) : t[i] = i
    BY <1>1, <1>2, <2>1, <2>2
  <2>4. /\ Append(s, Len(s) + 1) \in Seq(Nat)
        /\ Len(Append(s, Len(s) + 1)) = Len(s) + 1
        /\ Append(s, Len(s) + 1)[Len(s) + 1] = Len(s) + 1
        /\ \A i \in 1..Len(s) : Append(s, Len(s) + 1)[i] = s[i]
    OBVIOUS
  <2>5. ASSUME NEW i \in 1..Len(t) PROVE t[i] = Append(s, Len(s) + 1)[i]
    <3>1. CASE i = Len(s) + 1
      BY <1>1, <2>3, <2>4, <3>1
    <3>2. CASE i \in 1..Len(s)
      BY <1>1, <2>3, <2>4, <3>2
    <3>3. QED
      BY <1>1, <2>3, <3>1, <3>2
  <2>6. t = Append(s, Len(s) + 1)
    BY <2>3, <2>4, <2>5, SeqEqual
  <2>7. QED
    BY <2>1, <2>2, <2>6
<1>4. Len(Acked) < nextSeq - 1 /\ nextSeq' - 1 = nextSeq - 1
  <2>1. Len(acks) + 1 < nextSeq /\ nextSeq \in Nat
    BY DrawAssumption DEF NumInv, TypeOK
  <2>2. QED
    BY <1>1, <2>1
<1>5. QED
  BY <1>3, <1>4 DEF Abstract!Ack, Acked

\* Each step acknowledges one draw, sends one, or does neither.
LEMMA StepRefines == NumInv /\ NumInv' /\ [Next]_vars => [Abstract!Next]_(Abstract!vars)
<1> SUFFICES ASSUME NumInv, NumInv', [Next]_vars
             PROVE  Abstract!Next \/ UNCHANGED Abstract!vars
  OBVIOUS
<1>1. ASSUME UNCHANGED <<acks, kind, nextSeq>> PROVE UNCHANGED Abstract!vars
  BY <1>1 DEF Abstract!vars, Understood
<1>2. ASSUME UNCHANGED <<acks, kind>>, nextSeq' = nextSeq + 1 PROVE Abstract!Next
  <2>1. nextSeq' - 1 = (nextSeq - 1) + 1
    BY <1>2, DrawAssumption DEF NumInv, TypeOK
  <2>2. UNCHANGED [i \in DOMAIN acks |-> IF Understood(acks[i]) THEN acks[i].seq ELSE 0]
    BY <1>2 DEF Understood
  <2>3. QED
    BY <2>1, <2>2 DEF Abstract!Next, Abstract!Send
<1>3. CASE Server
  <2>1. UNCHANGED <<acks, kind>>
    BY <1>3 DEF Server, ServerNewWindow, ServerLostWindow, ServerEos, ServerDraw,
                ServerDisconnect, ServerSend
  <2>2. nextSeq' \in {nextSeq, nextSeq + 1}
    BY <1>3 DEF Server, ServerNewWindow, ServerLostWindow, ServerEos, ServerDraw,
                ServerDisconnect
  <2>3. QED
    BY <1>1, <1>2, <2>1, <2>2
<1>4. CASE ConnectionBreaks \/ ReaderThread \/ LoopEnds
  BY <1>1, <1>4 DEF ConnectionBreaks, ReaderThread, ReadPacket, ReadError, LoopEnds, server
<1>5. CASE UiThread
  <2>1. CASE \/ ProcessHello \/ ProcessNewWindow \/ ProcessLostWindow \/ ProcessEos
             \/ ProcessDraw \/ Quit
    BY <1>1, <2>1 DEF ProcessHello, ProcessNewWindow, ProcessLostWindow, ProcessEos,
                      ProcessDraw, Quit, server
  <2>2. ASSUME NEW a, Write(a), UNCHANGED <<server, conn>> PROVE Abstract!Next \/ UNCHANGED Abstract!vars
    <3>1. CASE acks' = acks
      BY <1>1, <2>2, <3>1 DEF server
    <3>2. CASE acks' = Append(acks, a)
      <4>1. Len(acks') = Len(acks) + 1
        BY <3>2 DEF NumInv, TypeOK
      <4>2. QED
        BY <2>2, <4>1, AckStep DEF server, Abstract!Next
    <3>3. QED
      BY <2>2, <3>1, <3>2, WriteEffect
  <2>3. CASE ProcessDrawDecoded \/ ProcessDrawFailed
    BY <2>2, <2>3 DEF ProcessDrawDecoded, ProcessDrawFailed
  <2>4. QED
    BY <1>5, <2>1, <2>3 DEF UiThread
<1>6. CASE DecodeThread
  <2>1. CASE ReleaseDecoder
    BY <1>1, <2>1 DEF ReleaseDecoder, server
  <2>2. CASE DecodePicture \/ DecodeVideo
    BY <1>1, <2>2, DecodeEffect DEF NumInv, server
  <2>3. QED
    BY <1>6, <2>1, <2>2 DEF DecodeThread
<1>7. CASE UNCHANGED vars
  BY <1>1, <1>7 DEF vars, server
<1>8. QED
  BY <1>3, <1>4, <1>5, <1>6, <1>7 DEF Next

\* The acknowledgements the server receives are one per draw, none skipped and in order, in a
\* layout it registered: the drawing path implements DrawAcks, whatever the threads, the
\* queues, windows lost meanwhile and failed decodes do to a draw on its way.
THEOREM AcksInOrderCorrect == Spec => AcksInOrder
<1>1. Init => Abstract!Init
  <2>1. SUFFICES ASSUME Init PROVE Abstract!Init
    OBVIOUS
  <2>2. nextSeq - 1 = 0 /\ acks = <<>>
    BY <2>1 DEF Init
  <2>3. [i \in DOMAIN acks |-> IF Understood(acks[i]) THEN acks[i].seq ELSE 0] = <<>>
    BY <2>2
  <2>4. QED
    BY <2>2, <2>3 DEF Abstract!Init
<1>2. QED
  BY <1>1, StepRefines, NumInvCorrect, PTL DEF Spec, AcksInOrder, Abstract!Spec

-----------------------------------------------------------------------------
(* Steps that leave the draws, the eos and the lost-windows in flight alone *)

Tracked == {"draw", "lost-window", "eos"}
SameTraffic ==
    /\ UNCHANGED <<server, conn, decode>>
    /\ OnWindows => \A x : x.type \in Tracked => (x \in InFlight <=> x \in InFlight')
    /\ Range(events') \subseteq Range(events) \cup Range(wire)
                                \cup {[type |-> "connection-lost"]}

\* What the UI thread handles it either forwards or is done with; on Windows it forwards all
\* that concerns the decoders.
LEMMA UiTraffic == ASSUME NumInv, UiThread PROVE SameTraffic
<1> DEFINE c == [type |-> "connection-lost"]
<1>1. c.type \notin Tracked
  BY DEF Tracked
<1>2. CASE ProcessHello \/ ProcessNewWindow \/ Quit \/ ProcessDrawDecoded \/ ProcessDrawFailed
  <2>1. /\ events # <<>> /\ Head(events).type \notin Tracked
        /\ UNCHANGED <<server, conn, wire, decodeq, decode>>
    BY <1>2 DEF ProcessHello, ProcessNewWindow, Quit, ProcessDrawDecoded,
                ProcessDrawFailed, Handle, Tracked
  <2>2. Handled
    <3>1. CASE ProcessHello \/ ProcessNewWindow \/ Quit
      BY <3>1 DEF ProcessHello, ProcessNewWindow, Quit, Handled
    <3>2. CASE ProcessDrawDecoded \/ ProcessDrawFailed
      BY <2>1, <3>2, WriteEffect DEF ProcessDrawDecoded, ProcessDrawFailed
    <3>3. QED
      BY <1>2, <3>1, <3>2
  <2>3. /\ InFlight \subseteq InFlight' \cup {Head(events)}
        /\ InFlight' \subseteq InFlight \cup {c}
        /\ Range(events') \subseteq Range(events) \cup {c}
    BY <2>1, <2>2, HandledEffect DEF NumInv
  <2>4. QED
    BY <1>1, <2>1, <2>3 DEF SameTraffic
<1>3. CASE ProcessLostWindow \/ ProcessEos \/ ProcessDraw
  <2>1. /\ events # <<>> /\ events' = Tail(events)
        /\ Head(events).type \in {"draw", "lost-window", "eos"}
        /\ UNCHANGED <<server, conn, wire, decode>>
        /\ \/ decodeq' = Append(decodeq, Head(events))
           \/ decodeq' = decodeq /\ ~OnWindows
    BY <1>3, DrawAssumption
       DEF ProcessLostWindow, ProcessEos, ProcessDraw, Handle, Forward
  <2>2. Range(events') \subseteq Range(events)
    BY <2>1, QueueItems, TailRange DEF NumInv
  <2>3. CASE decodeq' = Append(decodeq, Head(events))
    <3>1. InFlight' = InFlight
      BY <2>1, <2>3, ForwardEffect DEF NumInv
    <3>2. QED
      BY <2>1, <2>2, <3>1 DEF SameTraffic
  <2>4. CASE ~OnWindows
    BY <2>1, <2>2, <2>4 DEF SameTraffic
  <2>5. QED
    BY <2>1, <2>3, <2>4
<1>4. QED
  BY <1>2, <1>3 DEF UiThread

\* Reading moves packets or adds the notice of the lost connection.
LEMMA ReaderTraffic == ASSUME NumInv, ReaderThread PROVE SameTraffic
<1>1. CASE ReadPacket
  <2>1. /\ InFlight' = InFlight /\ UNCHANGED <<server, conn, decode>>
        /\ wire # <<>> /\ events' = Append(events, Head(wire)) /\ Head(wire) \in Item
    BY <1>1, ReadEffect DEF NumInv
  <2>2. Range(events') \subseteq Range(events) \cup Range(wire)
    BY <2>1, QueueItems, AppendRange, TailRange DEF NumInv
  <2>3. QED
    BY <2>1, <2>2 DEF SameTraffic
<1>2. CASE ReadError
  <2>1. /\ InFlight' = InFlight \cup {[type |-> "connection-lost"]}
        /\ UNCHANGED <<server, conn, decode>>
    BY <1>2, ReadErrorEffect DEF NumInv
  <2>2. Range(events') = Range(events) \cup {[type |-> "connection-lost"]}
    <3>1. [type |-> "connection-lost"] \in Item
      BY DEF Item, Control
    <3>2. QED
      BY <1>2, <3>1, QueueItems, AppendRange DEF NumInv, ReadError
  <2>3. QED
    BY <2>1, <2>2 DEF SameTraffic, Tracked
<1>3. QED
  BY <1>1, <1>2 DEF ReaderThread

\* Neither the end of the loop nor a step elsewhere moves a packet.
LEMMA QuietTraffic == ASSUME LoopEnds \/ UNCHANGED vars PROVE SameTraffic
<1>1. UNCHANGED <<server, conn, wire, events, decodeq, decode>>
  BY DEF LoopEnds, vars
<1>2. InFlight' = InFlight
  BY <1>1 DEF InFlight
<1>3. QED
  BY <1>1, <1>2 DEF SameTraffic

-----------------------------------------------------------------------------
(* The decoders of windows that are gone *)

\* Window w, withdrawn, still has its lost-window on the way, or nothing of it is left: no
\* decoder, and no draw that would create one.
Released(w) ==
    \/ \E x \in InFlight : LostOf(x, w)
    \/ w \notin DOMAIN decoders /\ \A x \in InFlight : x.type = "draw" => x.wid # w

Covered ==
    /\ OnWindows \/ DOMAIN decoders = {}
    /\ OnWindows /\ conn = "up" => \A w \in Wids \ (alive \cup late) : Released(w)

\* At first there is neither a decoder nor a draw.
LEMMA InitCovered == ASSUME Init PROVE Covered
<1>1. NumInv
  BY InitNumInv
<1>2. DOMAIN decoders = {} /\ wire = <<[type |-> "hello"]>> /\ decodeq = <<>> /\ events = <<>>
  BY DEF Init
<1>3. \A x \in InFlight : x.type = "hello"
  BY <1>2 DEF InFlight, Range
<1>4. QED
  BY <1>2, <1>3 DEF Covered, Released

\* The traffic unchanged, so is what is covered.
LEMMA TrafficCovered == ASSUME Covered, SameTraffic PROVE Covered'
<1>1. UNCHANGED <<alive, late, conn, decoders>>
  BY DEF SameTraffic, server, decode
<1>2. OnWindows => \A w : Released(w) => Released(w)'
  BY <1>1 DEF SameTraffic, Released, LostOf, Tracked
<1>3. QED
  BY <1>1, <1>2 DEF Covered

\* The server draws on windows that are alive, or marked late.
LEMMA ServerCovered == ASSUME NumInv, Covered, Server PROVE Covered'
<1>1. \A p : ServerSend(p) => UNCHANGED <<conn, decoders>>
  BY DEF ServerSend, decode
<1>2. CASE \E w \in Wids : ServerNewWindow(w)
  <2>1. PICK w \in Wids : ServerNewWindow(w)
    BY <1>2
  <2>2. PICK p : p = [type |-> "new-window", wid |-> w]
    OBVIOUS
  <2>3. /\ p \in WindowPackets /\ ServerSend(p) /\ p.type = "new-window"
        /\ alive \subseteq alive' /\ late' = late
    BY <2>1, <2>2 DEF ServerNewWindow, WindowPackets
  <2>4. InFlight' = InFlight \cup {p}
    BY <2>3, SendEffect DEF NumInv
  <2>5. UNCHANGED <<conn, decoders>>
    BY <1>1, <2>3
  <2>6. \A v : Released(v) => Released(v)'
    BY <2>3, <2>4, <2>5 DEF Released
  <2>7. QED
    BY <2>3, <2>5, <2>6 DEF Covered
<1>3. CASE \E w \in Wids : ServerLostWindow(w)
  <2>1. PICK w \in Wids : ServerLostWindow(w)
    BY <1>3
  <2>2. PICK p : p = [type |-> "lost-window", wid |-> w]
    OBVIOUS
  <2>3. /\ p \in WindowPackets /\ ServerSend(p) /\ LostOf(p, w) /\ p.type = "lost-window"
        /\ alive' = alive \ {w} /\ late' = late
    BY <2>1, <2>2 DEF ServerLostWindow, WindowPackets, LostOf
  <2>4. InFlight' = InFlight \cup {p}
    BY <2>3, SendEffect DEF NumInv
  <2>5. UNCHANGED <<conn, decoders>>
    BY <1>1, <2>3
  <2>6. \A v : Released(v) => Released(v)'
    BY <2>3, <2>4, <2>5 DEF Released
  <2>7. Released(w)'
    BY <2>3, <2>4 DEF Released
  <2>8. QED
    BY <2>3, <2>5, <2>6, <2>7 DEF Covered
<1>4. CASE \E w \in Wids : ServerEos(w)
  <2>1. PICK w \in Wids : ServerEos(w)
    BY <1>4
  <2>2. PICK p : p = [type |-> "eos", wid |-> w, stream |-> stream[w]]
    OBVIOUS
  <2>3. /\ p \in WindowPackets /\ ServerSend(p) /\ p.type = "eos"
        /\ alive' = alive /\ late' = late
    BY <2>1, <2>2 DEF ServerEos, WindowPackets, NumInv, TypeOK
  <2>4. InFlight' = InFlight \cup {p}
    BY <2>3, SendEffect DEF NumInv
  <2>5. UNCHANGED <<conn, decoders>>
    BY <1>1, <2>3
  <2>6. \A v : Released(v) => Released(v)'
    BY <2>3, <2>4, <2>5 DEF Released
  <2>7. QED
    BY <2>3, <2>5, <2>6 DEF Covered
<1>5. CASE \E w \in Wids, c \in Codings : ServerDraw(w, c)
  <2>1. PICK w \in Wids, c \in Codings : ServerDraw(w, c)
    BY <1>5
  <2>2. PICK p : p = [type |-> "draw", wid |-> w, seq |-> nextSeq, coding |-> c,
                      stream |-> stream[w], key |-> c = "h264" /\ ~keyed[w]]
    OBVIOUS
  <2>3. p \in DrawPackets /\ p.wid = w
    BY <2>2, DrawAssumption DEF DrawPackets, NumInv, TypeOK
  <2>4. /\ ServerSend(p) /\ alive' = alive /\ late \subseteq late' /\ w \in alive' \cup late'
    BY <2>1, <2>2 DEF ServerDraw
  <2>5. InFlight' = InFlight \cup {p}
    BY <2>3, <2>4, SendEffect DEF NumInv
  <2>6. UNCHANGED <<conn, decoders>>
    BY <1>1, <2>4
  <2>7. \A v : v # w /\ Released(v) => Released(v)'
    BY <2>3, <2>5, <2>6 DEF Released
  <2>8. QED
    BY <2>4, <2>6, <2>7 DEF Covered
<1>6. CASE ServerDisconnect
  <2>1. PICK p : p = [type |-> "disconnect"]
    OBVIOUS
  <2>2. /\ p \in Control /\ ServerSend(p) /\ p.type = "disconnect"
        /\ alive' = alive /\ late' = late
    BY <1>6, <2>1 DEF ServerDisconnect, Control
  <2>3. InFlight' = InFlight \cup {p}
    BY <2>2, SendEffect DEF NumInv
  <2>4. UNCHANGED <<conn, decoders>>
    BY <1>1, <2>2
  <2>5. \A v : Released(v) => Released(v)'
    BY <2>2, <2>3, <2>4 DEF Released
  <2>6. QED
    BY <2>2, <2>4, <2>5 DEF Covered
<1>7. QED
  BY <1>2, <1>3, <1>4, <1>5, <1>6 DEF Server

\* A lost-window releases the decoder, and the only draws behind it are of a late window.
LEMMA ReleaseCovered == ASSUME NumInv, Covered, ReleaseDecoder PROVE Covered'
<1> DEFINE d == Head(decodeq)
<1>1. /\ decodeq # <<>> /\ d.type \in {"lost-window", "eos"}
      /\ decoders' = Without(decoders, d.wid) /\ decodeq' = Tail(decodeq)
      /\ UNCHANGED <<server, conn, wire, events>>
  BY DEF ReleaseDecoder
<1>2. /\ InFlight = {d} \cup Behind
      /\ \A x \in Behind : MayPrecede(late, d, x)
  BY <1>1, TakeEffect DEF NumInv
<1>3. InFlight' = Behind
  BY <1>1 DEF InFlight, Behind
<1>4. DOMAIN decoders' = DOMAIN decoders \ {d.wid}
  BY <1>1 DEF Without
<1>5. UNCHANGED <<alive, late, conn>>
  BY <1>1 DEF server
<1>6. ASSUME NEW w \in Wids \ (alive \cup late), Released(w) PROVE Released(w)'
  <2>1. CASE LostOf(d, w)
    BY <1>2, <1>3, <1>4, <1>6, <2>1 DEF MayPrecede, Released, LostOf
  <2>2. CASE ~LostOf(d, w)
    BY <1>2, <1>3, <1>4, <1>6, <2>2 DEF Released
  <2>3. QED
    BY <2>1, <2>2
<1>7. QED
  BY <1>4, <1>5, <1>6 DEF Covered

\* Decoding a draw may create a decoder, of a window whose draw was still in flight.
LEMMA DecodeCovered ==
    ASSUME NumInv, Covered, DecodePicture \/ DecodeVideo PROVE Covered'
<1> DEFINE d == Head(decodeq)
<1>1. /\ decodeq # <<>> /\ d.type = "draw"
      /\ UNCHANGED <<server, conn, wire, acks, reader, ui>>
      /\ DOMAIN decoders' \subseteq DOMAIN decoders \cup {d.wid}
  BY DecodeEffect DEF NumInv
<1>2. PICK r \in Results : r.seq = d.seq /\ r.wid = d.wid /\ Post(r)
  BY DecodeEffect DEF NumInv
<1>3. InFlight' = {r} \cup Behind /\ r.type # "draw"
  BY <1>1, <1>2, PostEffect DEF NumInv, Results
<1>4. InFlight = {d} \cup Behind
  BY <1>1, TakeEffect DEF NumInv
<1>5. OnWindows \/ DOMAIN decoders' = DOMAIN decoders
  BY DEF DecodePicture, DecodeVideo, decode
<1>6. UNCHANGED <<alive, late, conn>>
  BY <1>1 DEF server
<1>7. ASSUME NEW w \in Wids, Released(w) PROVE Released(w)'
  <2>1. CASE \E x \in InFlight : LostOf(x, w)
    BY <1>1, <1>3, <1>4, <2>1 DEF Released, LostOf
  <2>2. CASE w \notin DOMAIN decoders /\ \A x \in InFlight : x.type = "draw" => x.wid # w
    BY <1>1, <1>3, <1>4, <2>2 DEF Released
  <2>3. QED
    BY <1>7, <2>1, <2>2 DEF Released
<1>8. QED
  BY <1>5, <1>6, <1>7 DEF Covered

\* Every step covers the windows that are gone.
LEMMA NextCovered == NumInv /\ Covered /\ [Next]_vars => Covered'
<1> SUFFICES ASSUME NumInv, Covered, [Next]_vars PROVE Covered'
  OBVIOUS
<1>1. CASE Server
  BY <1>1, ServerCovered
<1>2. CASE ConnectionBreaks
  BY <1>2 DEF ConnectionBreaks, Covered, decode
<1>3. CASE ReaderThread \/ UiThread \/ LoopEnds \/ UNCHANGED vars
  BY <1>3, ReaderTraffic, UiTraffic, QuietTraffic, TrafficCovered
<1>4. CASE DecodeThread
  BY <1>4, ReleaseCovered, DecodeCovered DEF DecodeThread
<1>5. QED
  BY <1>1, <1>2, <1>3, <1>4 DEF Next

\* The windows that are gone are covered throughout.
LEMMA CoveredCorrect == Spec => []Covered
<1>1. Init => Covered
  BY InitCovered
<1>2. QED
  BY <1>1, NextCovered, NumInvCorrect, PTL DEF Spec

\* No decoder is left behind: while the connection lasts, one that exists for a window the
\* server withdrew is released yet, its lost-window still on the way (process_lost_window,
\* decode thread), unless the server drew on the window after that.
THEOREM NoOrphanDecoderCorrect == Spec => []NoOrphanDecoder
<1>1. NumInv /\ Covered => NoOrphanDecoder
  <2>1. SUFFICES ASSUME NumInv, Covered, NEW w \in DOMAIN decoders,
                        w \notin alive \cup late, conn # "down"
                 PROVE  \E q \in {wire, events, decodeq} : \E i \in DOMAIN q :
                           q[i].type = "lost-window" /\ q[i].wid = w
    BY DEF NoOrphanDecoder
  <2>2. OnWindows /\ conn = "up" /\ w \in Wids
    BY <2>1, DrawAssumption DEF Covered, NumInv, TypeOK
  <2>3. PICK x \in InFlight : LostOf(x, w)
    BY <2>1, <2>2 DEF Covered, Released
  <2>4. QED
    BY <2>3 DEF InFlight, Range, LostOf
<1>2. QED
  BY <1>1, NumInvCorrect, CoveredCorrect, PTL

-----------------------------------------------------------------------------
(* The video streams *)

EosPending(w, s) == \E x \in InFlight : EosOf(x, w) /\ x.stream = s
KeyPending(w, s) == \E x \in InFlight : VideoOf(x, w) /\ x.stream = s /\ x.key
BuiltFor(w, s) == w \in DOMAIN decoders /\ decoders[w].stream = s
Hopeless(w, s) == <<w, s>> \in noDecoder

\* the keyframe of stream s is still to be decoded, or a decoder came of it, or
\* none could be created
Started(w, s) == Hopeless(w, s) \/ BuiltFor(w, s) \/ KeyPending(w, s)

\* the decoder of w is for the oldest stream of w in flight: a draw of a later
\* stream has the eos of the decoder's ahead of it
DecoderOk(w) ==
    w \in DOMAIN decoders =>
        /\ decoders[w].key \/ Hopeless(w, decoders[w].stream)
        /\ \A x \in InFlight : EosOf(x, w) => decoders[w].stream <= x.stream
        /\ \A x \in InFlight : VideoOf(x, w) =>
              \/ x.stream = decoders[w].stream
              \/ decoders[w].stream < x.stream /\ EosPending(w, decoders[w].stream)
        /\ decoders[w].stream <= stream[w]
        /\ conn = "up" => \/ decoders[w].stream = stream[w]
                          \/ EosPending(w, decoders[w].stream)

\* a draw of w that is no keyframe has one, and a stream other than the last
\* has its eos on the way
DrawOk(w, x) ==
    /\ x.key \/ Started(w, x.stream)
    /\ \A y \in InFlight : VideoOf(y, w) /\ x.stream < y.stream => EosPending(w, x.stream)
    /\ conn = "up" => x.stream = stream[w] \/ EosPending(w, x.stream)

WindowOk(w) ==
    /\ DecoderOk(w)
    /\ \A x \in InFlight : VideoOf(x, w) => DrawOk(w, x)
    /\ conn = "up" /\ keyed[w] => Started(w, stream[w])

\* what DecodedInSync asks of a result
InSync(x) ==
    x.type = "draw-decoded" /\ x.coding = "h264" =>
        /\ OnWindows
        /\ x.wid \in alive => x.insync \/ Hopeless(x.wid, x.stream)

VideoInv ==
    /\ OnWindows => \A w \in alive : WindowOk(w)
    /\ \A w \in Wids : keyed[w] => w \in used
    /\ \A x \in Range(events) : InSync(x)

\* nothing of the video of window v changes
SameFor(v) ==
    /\ conn' = conn /\ stream'[v] = stream[v] /\ (keyed'[v] => keyed[v])
    /\ noDecoder \subseteq noDecoder'
    /\ \A x : VideoOf(x, v) \/ EosOf(x, v) => (x \in InFlight <=> x \in InFlight')
    /\ v \in DOMAIN decoders <=> v \in DOMAIN decoders'
    /\ v \in DOMAIN decoders => decoders'[v] = decoders[v]

\* What happens to one window does not concern the others.
LEMMA SameWindowOk == ASSUME NEW v, SameFor(v), WindowOk(v) PROVE WindowOk(v)'
<1>1. \A s : EosPending(v, s) => EosPending(v, s)'
  BY DEF SameFor, EosPending
<1>2. \A s : KeyPending(v, s) => KeyPending(v, s)'
  BY DEF SameFor, KeyPending
<1>3. \A s : (Hopeless(v, s) => Hopeless(v, s)') /\ (BuiltFor(v, s) => BuiltFor(v, s)')
  BY DEF SameFor, Hopeless, BuiltFor
<1>4. \A s : Started(v, s) => Started(v, s)'
  BY <1>2, <1>3 DEF Started
<1>5. DecoderOk(v)'
  BY <1>1, <1>3 DEF WindowOk, DecoderOk, SameFor
<1>6. ASSUME NEW x \in InFlight', VideoOf(x, v) PROVE DrawOk(v, x)'
  <2>1. x \in InFlight /\ DrawOk(v, x)
    BY <1>6 DEF SameFor, WindowOk
  <2>2. QED
    BY <1>1, <1>4, <2>1 DEF DrawOk, SameFor
<1>7. (conn = "up" /\ keyed[v])' => Started(v, stream[v])'
  BY <1>4 DEF WindowOk, SameFor
<1>8. QED
  BY <1>5, <1>6, <1>7 DEF WindowOk

\* At first there is no stream.
LEMMA InitVideo == ASSUME Init PROVE VideoInv
<1>1. alive = {} /\ keyed = [w \in Wids |-> FALSE] /\ events = <<>>
  BY DEF Init
<1>2. Range(events) = {}
  BY <1>1 DEF Range
<1>3. QED
  BY <1>1, <1>2 DEF VideoInv

\* The traffic unchanged, so are the streams.
LEMMA TrafficVideo == ASSUME NumInv, VideoInv, SameTraffic PROVE VideoInv'
<1>1. UNCHANGED <<alive, used, stream, keyed, conn, decoders, noDecoder>>
  BY DEF SameTraffic, server, decode
<1>2. ASSUME OnWindows, NEW w \in alive PROVE WindowOk(w)'
  <2>1. SameFor(w)
    BY <1>1, <1>2 DEF SameFor, SameTraffic, Tracked, VideoOf, IsVideo, EosOf
  <2>2. QED
    BY <1>2, <2>1, SameWindowOk DEF VideoInv
<1>3. ASSUME NEW x \in Range(events') PROVE InSync(x)'
  <2>1. x \in Range(events) \/ x.type # "draw-decoded"
    BY <1>3, QueueItems
       DEF SameTraffic, NumInv, WindowPackets, DrawPackets, Control
  <2>2. QED
    BY <1>1, <2>1 DEF VideoInv, InSync, Hopeless
<1>4. QED
  BY <1>1, <1>2, <1>3 DEF VideoInv

\* The video packets in flight are of windows and streams the server knows.
LEMMA VideoSent ==
    ASSUME NumInv, NEW x \in InFlight, NEW w
    PROVE  /\ VideoOf(x, w) \/ EosOf(x, w) \/ LostOf(x, w) => w \in used /\ w \in Wids
           /\ VideoOf(x, w) => x.stream \in Nat /\ x.key \in BOOLEAN
           /\ VideoOf(x, w) => \/ x.stream < stream[w]
                               \/ x.stream = stream[w] /\ keyed[w]
           /\ EosOf(x, w) => x.stream \in Nat /\ x.stream < stream[w]
           /\ LostOf(x, w) => w \notin alive
           /\ w \in Wids => stream[w] \in Nat
<1>1. x \in Item /\ Sent(x) /\ stream \in [Wids -> Nat] /\ used \subseteq Wids
  BY QueueItems DEF NumInv, Known, TypeOK
<1>2. x.type \in {"draw", "eos", "lost-window"} => x.wid \in used
  BY <1>1 DEF Sent, Control
<1>3. QED
  BY <1>1, <1>2, ItemFields DEF Sent, VideoOf, EosOf, LostOf, IsVideo

\* A packet of another kind or window changes nothing for window v.
LEMMA SendSame ==
    ASSUME NumInv, NEW p \in WindowPackets \cup DrawPackets \cup Control, ServerSend(p),
           NEW v, ~VideoOf(p, v), ~EosOf(p, v),
           stream'[v] = stream[v], keyed'[v] => keyed[v]
    PROVE  SameFor(v)
<1>1. InFlight' = InFlight \cup {p} /\ UNCHANGED <<conn, decode>>
  BY SendEffect DEF NumInv
<1>2. UNCHANGED <<decoders, noDecoder>>
  BY <1>1 DEF decode
<1>3. QED
  BY <1>1, <1>2 DEF SameFor

\* Sending a packet, the server only has to mind the windows that are alive: the results
\* queued are of windows announced before.
LEMMA SendVideo ==
    ASSUME NumInv, VideoInv,
           NEW p \in WindowPackets \cup DrawPackets \cup Control, ServerSend(p),
           alive' \cap used \subseteq alive,
           \A v \in Wids : keyed'[v] => v \in used',
           OnWindows => \A v \in alive' : WindowOk(v)'
    PROVE  VideoInv'
<1>1. UNCHANGED <<events, decode>>
  BY SendEffect DEF NumInv
<1>2. ASSUME NEW x \in Range(events) PROVE InSync(x)'
  <2>1. x \in InFlight /\ InSync(x)
    BY DEF InFlight, VideoInv
  <2>2. x.type = "draw-decoded" => x.wid \in used
    BY <2>1 DEF NumInv, Known, Sent, Control
  <2>3. QED
    BY <1>1, <2>1, <2>2 DEF InSync, Hopeless, decode
<1>3. QED
  BY <1>1, <1>2 DEF VideoInv

\* A window announced for the first time has no video yet, and no decoder.
LEMMA NewWindowVideo ==
    ASSUME NumInv, Covered, VideoInv, NEW w \in Wids, ServerNewWindow(w) PROVE VideoInv'
<1>1. PICK p : p = [type |-> "new-window", wid |-> w]
  OBVIOUS
<1>2. /\ p \in WindowPackets /\ ServerSend(p) /\ p.type = "new-window" /\ w \notin used
      /\ alive' = alive \cup {w} /\ used' = used \cup {w}
      /\ UNCHANGED <<stream, keyed>>
  BY <1>1 DEF ServerNewWindow, WindowPackets
<1>3. InFlight' = InFlight \cup {p} /\ conn = "up" /\ UNCHANGED <<conn, decode>>
  BY <1>2, SendEffect DEF NumInv
<1>4. ASSUME OnWindows, NEW v \in alive PROVE WindowOk(v)'
  <2>1. SameFor(v)
    BY <1>2, SendSame DEF VideoOf, IsVideo, EosOf
  <2>2. QED
    BY <1>4, <2>1, SameWindowOk DEF VideoInv
<1>5. ASSUME OnWindows PROVE WindowOk(w)'
  <2>1. w \notin alive \cup late /\ ~keyed[w]
    BY <1>2 DEF NumInv, TypeOK, VideoInv
  <2>2. \A x \in InFlight : ~VideoOf(x, w) /\ ~EosOf(x, w) /\ ~LostOf(x, w)
    BY <1>2, VideoSent
  <2>3. w \notin DOMAIN decoders
    BY <1>3, <1>5, <2>1, <2>2 DEF Covered, Released
  <2>4. \A x \in InFlight' : ~VideoOf(x, w)
    BY <1>2, <1>3, <2>2 DEF VideoOf, IsVideo
  <2>5. w \notin DOMAIN decoders' /\ ~keyed'[w]
    BY <1>2, <1>3, <2>1, <2>3 DEF decode
  <2>6. QED
    BY <2>4, <2>5 DEF WindowOk, DecoderOk
<1>6. QED
  BY <1>2, <1>4, <1>5, SendVideo DEF VideoInv

\* A window withdrawn asks for nothing any more; the others are not concerned.
LEMMA LostWindowVideo ==
    ASSUME NumInv, VideoInv, NEW w \in Wids, ServerLostWindow(w) PROVE VideoInv'
<1>1. PICK p : p = [type |-> "lost-window", wid |-> w]
  OBVIOUS
<1>2. /\ p \in WindowPackets /\ ServerSend(p) /\ p.type = "lost-window"
      /\ alive' = alive \ {w} /\ UNCHANGED <<used, stream, keyed>>
  BY <1>1 DEF ServerLostWindow, WindowPackets
<1>3. ASSUME OnWindows, NEW v \in alive' PROVE WindowOk(v)'
  <2>1. SameFor(v)
    BY <1>2, SendSame DEF VideoOf, IsVideo, EosOf
  <2>2. QED
    BY <1>2, <1>3, <2>1, SameWindowOk DEF VideoInv
<1>4. QED
  BY <1>2, <1>3, SendVideo DEF VideoInv

\* A disconnect concerns no window.
LEMMA DisconnectVideo == ASSUME NumInv, VideoInv, ServerDisconnect PROVE VideoInv'
<1>1. PICK p : p = [type |-> "disconnect"]
  OBVIOUS
<1>2. /\ p \in Control /\ ServerSend(p) /\ p.type = "disconnect"
      /\ UNCHANGED <<alive, used, stream, keyed>>
  BY <1>1 DEF ServerDisconnect, Control
<1>3. ASSUME OnWindows, NEW v \in alive PROVE WindowOk(v)'
  <2>1. SameFor(v)
    BY <1>2, SendSame DEF VideoOf, IsVideo, EosOf
  <2>2. QED
    BY <1>3, <2>1, SameWindowOk DEF VideoInv
<1>4. QED
  BY <1>2, <1>3, SendVideo DEF VideoInv

\* With more packets in flight, more is pending.
LEMMA MorePending ==
    ASSUME InFlight \subseteq InFlight', UNCHANGED <<decoders, noDecoder>>
    PROVE  \A w, s : /\ EosPending(w, s) => EosPending(w, s)'
                     /\ Started(w, s) => Started(w, s)'
                     /\ Hopeless(w, s) => Hopeless(w, s)'
  BY DEF EosPending, Started, KeyPending, BuiltFor, Hopeless

\* The eos of a stream is on the way once the next has begun.
LEMMA EosVideo ==
    ASSUME NumInv, VideoInv, NEW w \in Wids, ServerEos(w) PROVE VideoInv'
<1>1. PICK p : p = [type |-> "eos", wid |-> w, stream |-> stream[w]]
  OBVIOUS
<1>2. stream \in [Wids -> Nat] /\ stream[w] \in Nat /\ keyed \in [Wids -> BOOLEAN]
  BY DEF NumInv, TypeOK
<1>3. /\ p \in WindowPackets /\ ServerSend(p) /\ p.type = "eos" /\ p.wid = w
      /\ p.stream = stream[w]
      /\ stream' = [stream EXCEPT ![w] = @ + 1] /\ keyed' = [keyed EXCEPT ![w] = FALSE]
      /\ w \in alive /\ UNCHANGED <<alive, used>>
  BY <1>1, <1>2 DEF ServerEos, WindowPackets
<1>4. InFlight' = InFlight \cup {p} /\ conn = "up" /\ UNCHANGED <<conn, decode>>
  BY <1>3, SendEffect DEF NumInv
<1>5. UNCHANGED <<decoders, noDecoder>>
  BY <1>4 DEF decode
<1>6. ASSUME OnWindows, NEW v \in alive, v # w PROVE WindowOk(v)'
  <2>1. v \in Wids
    BY DEF NumInv, TypeOK
  <2>2. SameFor(v)
    BY <1>2, <1>3, <1>6, <2>1, SendSame DEF VideoOf, IsVideo, EosOf
  <2>3. QED
    BY <1>6, <2>2, SameWindowOk DEF VideoInv
<1>7. ASSUME OnWindows PROVE WindowOk(w)'
  <2>1. WindowOk(w)
    BY <1>3, <1>7 DEF VideoInv
  <2>2. \A s : /\ EosPending(w, s) => EosPending(w, s)'
               /\ Started(w, s) => Started(w, s)'
               /\ Hopeless(w, s) => Hopeless(w, s)'
    BY <1>4, <1>5, MorePending
  <2>3. PICK s : s = stream[w]
    OBVIOUS
  <2>9. EosPending(w, s)'
    BY <1>3, <1>4, <2>3 DEF EosPending, EosOf
  <2>4. stream'[w] = stream[w] + 1 /\ ~keyed'[w]
    BY <1>2, <1>3
  <2>5. \A x \in InFlight' : VideoOf(x, w) => x \in InFlight
    BY <1>3, <1>4 DEF VideoOf, IsVideo
  <2>6. ASSUME w \in DOMAIN decoders PROVE DecoderOk(w)'
    <3>0. PICK t : t = decoders[w].stream
      OBVIOUS
    <3>1. t \in Nat
      BY <2>6, <3>0 DEF NumInv, TypeOK
    <3>2. t <= s /\ (t = s \/ EosPending(w, t))
      BY <1>4, <2>1, <2>3, <2>6, <3>0 DEF WindowOk, DecoderOk
    <3>3. \A x \in InFlight' : EosOf(x, w) => t <= x.stream
      BY <1>3, <1>4, <2>1, <2>3, <2>6, <3>0, <3>2 DEF WindowOk, DecoderOk
    <3>4. t <= stream'[w]
      BY <1>2, <2>3, <2>4, <3>1, <3>2
    <3>5. EosPending(w, t)'
      BY <2>2, <2>9, <3>2
    <3>6. decoders[w].key \/ Hopeless(w, t)'
      <4>1. decoders[w].key \/ Hopeless(w, t)
        BY <2>1, <2>6, <3>0 DEF WindowOk, DecoderOk
      <4>2. QED
        BY <2>2, <4>1
    <3>7. \A x \in InFlight' : VideoOf(x, w) =>
             x.stream = t \/ (t < x.stream /\ EosPending(w, t)')
      BY <2>1, <2>5, <2>6, <3>0, <3>5 DEF WindowOk, DecoderOk
    <3>8. QED
      BY <1>5, <3>0, <3>3, <3>4, <3>5, <3>6, <3>7 DEF DecoderOk
  <2>7. ASSUME NEW x \in InFlight', VideoOf(x, w) PROVE DrawOk(w, x)'
    <3>1. DrawOk(w, x)
      BY <2>1, <2>5, <2>7 DEF WindowOk
    <3>2. EosPending(w, x.stream)'
      BY <1>4, <2>2, <2>3, <2>9, <3>1 DEF DrawOk
    <3>3. QED
      BY <2>2, <3>1, <3>2 DEF DrawOk
  <2>8. QED
    BY <1>5, <2>4, <2>6, <2>7 DEF WindowOk, DecoderOk
<1>8. QED
  <2>1. \A v \in Wids : keyed'[v] => v \in used'
    BY <1>2, <1>3 DEF VideoInv
  <2>2. QED
    BY <1>3, <1>6, <1>7, <2>1, SendVideo

\* A video draw is the keyframe of its stream, or the stream has had one; what came before of
\* other streams has its eos ahead.
LEMMA DrawVideo ==
    ASSUME NumInv, VideoInv, NEW w \in Wids, NEW c \in Codings, ServerDraw(w, c)
    PROVE  VideoInv'
<1>1. PICK p : p = [type |-> "draw", wid |-> w, seq |-> nextSeq, coding |-> c,
                    stream |-> stream[w], key |-> c = "h264" /\ ~keyed[w]]
  OBVIOUS
<1>2. /\ stream \in [Wids -> Nat] /\ stream[w] \in Nat /\ keyed \in [Wids -> BOOLEAN]
      /\ nextSeq \in Nat
  BY DrawAssumption DEF NumInv, TypeOK
<1>3. /\ p \in DrawPackets /\ p.type = "draw" /\ p.wid = w /\ p.stream = stream[w]
      /\ p.coding = c
  BY <1>1, <1>2 DEF DrawPackets
<1>4. /\ ServerSend(p) /\ keyed' = [keyed EXCEPT ![w] = @ \/ c = "h264"]
      /\ w \in used /\ UNCHANGED <<alive, used, stream>>
  BY <1>1 DEF ServerDraw
<1>5. InFlight' = InFlight \cup {p} /\ conn = "up" /\ UNCHANGED <<conn, decode>>
  BY <1>3, <1>4, SendEffect DEF NumInv
<1>6. UNCHANGED <<decoders, noDecoder>>
  BY <1>5 DEF decode
<1>7. ASSUME OnWindows, NEW v \in alive, v # w \/ c # "h264" PROVE WindowOk(v)'
  <2>1. v \in Wids
    BY DEF NumInv, TypeOK
  <2>2. keyed'[v] => keyed[v]
    BY <1>2, <1>4, <1>7, <2>1
  <2>3. ~VideoOf(p, v) /\ ~EosOf(p, v)
    BY <1>3, <1>7 DEF VideoOf, IsVideo, EosOf
  <2>4. SameFor(v)
    BY <1>3, <1>4, <2>2, <2>3, SendSame
  <2>5. QED
    BY <1>7, <2>4, SameWindowOk DEF VideoInv
<1>8. ASSUME OnWindows, w \in alive, c = "h264" PROVE WindowOk(w)'
  <2>1. WindowOk(w)
    BY <1>8 DEF VideoInv
  <2>2. \A s : /\ EosPending(w, s) => EosPending(w, s)'
               /\ Started(w, s) => Started(w, s)'
               /\ Hopeless(w, s) => Hopeless(w, s)'
    BY <1>5, <1>6, MorePending
  <2>3. VideoOf(p, w) /\ ~EosOf(p, w)
    BY <1>3, <1>8 DEF VideoOf, IsVideo, EosOf
  <2>4. p.key = ~keyed[w]
    BY <1>1, <1>8
  <2>5. Started(w, stream[w])'
    <3>1. CASE keyed[w]
      BY <1>4, <1>5, <2>1, <2>2, <3>1 DEF WindowOk
    <3>2. CASE ~keyed[w]
      BY <1>3, <1>4, <1>5, <2>3, <2>4, <3>2 DEF Started, KeyPending
    <3>3. QED
      BY <3>1, <3>2
  <2>6. ASSUME w \in DOMAIN decoders PROVE DecoderOk(w)'
    <3>0. PICK t : t = decoders[w].stream
      OBVIOUS
    <3>1. t \in Nat
      BY <2>6, <3>0 DEF NumInv, TypeOK
    <3>2. t <= stream[w] /\ (t = stream[w] \/ EosPending(w, t)')
      BY <1>5, <2>1, <2>2, <2>6, <3>0 DEF WindowOk, DecoderOk
    <3>3. \A x \in InFlight' : EosOf(x, w) => t <= x.stream
      BY <1>5, <2>1, <2>3, <2>6, <3>0 DEF WindowOk, DecoderOk
    <3>4. decoders[w].key \/ Hopeless(w, t)'
      <4>1. decoders[w].key \/ Hopeless(w, t)
        BY <2>1, <2>6, <3>0 DEF WindowOk, DecoderOk
      <4>2. QED
        BY <2>2, <4>1
    <3>5. t < stream[w] \/ t = stream[w]
      BY <1>2, <3>1, <3>2
    <3>6. \A x \in InFlight' : VideoOf(x, w) =>
             x.stream = t \/ (t < x.stream /\ EosPending(w, t)')
      <4>1. SUFFICES ASSUME NEW x \in InFlight', VideoOf(x, w)
                     PROVE  x.stream = t \/ (t < x.stream /\ EosPending(w, t)')
        OBVIOUS
      <4>2. CASE x = p
        BY <1>3, <3>2, <3>5, <4>2
      <4>3. CASE x \in InFlight
        BY <2>1, <2>2, <2>6, <3>0, <4>1, <4>3 DEF WindowOk, DecoderOk
      <4>4. QED
        BY <1>5, <4>2, <4>3
    <3>7. QED
      BY <1>4, <1>6, <3>0, <3>2, <3>3, <3>4, <3>6 DEF DecoderOk
  <2>7. ASSUME NEW x \in InFlight', VideoOf(x, w) PROVE DrawOk(w, x)'
    <3>1. CASE x = p
      <4>1. x.key \/ Started(w, x.stream)'
        BY <1>3, <1>4, <2>5, <3>1
      <4>2. \A y \in InFlight' : VideoOf(y, w) => ~(x.stream < y.stream)
        BY <1>2, <1>3, <1>5, <3>1, VideoSent
      <4>3. QED
        BY <1>3, <1>4, <3>1, <4>1, <4>2 DEF DrawOk
    <3>2. CASE x \in InFlight
      <4>1. DrawOk(w, x)
        BY <2>1, <2>7, <3>2 DEF WindowOk
      <4>2. x.stream \in Nat /\ x.stream <= stream[w]
        BY <1>2, <2>7, <3>2, VideoSent
      <4>3. x.stream = stream[w] \/ EosPending(w, x.stream)'
        BY <1>5, <2>2, <4>1 DEF DrawOk
      <4>4. \A y \in InFlight' : VideoOf(y, w) /\ x.stream < y.stream => EosPending(w, x.stream)'
        <5>1. x.stream < p.stream => EosPending(w, x.stream)'
          BY <1>2, <1>3, <4>2, <4>3
        <5>2. QED
          BY <1>5, <2>2, <4>1, <5>1 DEF DrawOk
      <4>5. QED
        BY <1>4, <2>2, <4>1, <4>3, <4>4 DEF DrawOk
    <3>3. QED
      BY <1>5, <2>7, <3>1, <3>2
  <2>8. QED
    BY <1>4, <1>6, <2>5, <2>6, <2>7 DEF WindowOk, DecoderOk
<1>9. QED
  <2>1. \A v \in Wids : keyed'[v] => v \in used'
    BY <1>2, <1>4 DEF VideoInv
  <2>2. OnWindows => \A v \in alive' : WindowOk(v)'
    BY <1>4, <1>7, <1>8
  <2>3. QED
    BY <1>3, <1>4, <2>1, <2>2, SendVideo

\* Every packet the server sends keeps the streams in order.
LEMMA ServerVideo == ASSUME NumInv, Covered, VideoInv, Server PROVE VideoInv'
  BY NewWindowVideo, LostWindowVideo, EosVideo, DrawVideo, DisconnectVideo DEF Server

\* What is lost on the wire was behind all that is left: no draw left over needs its eos or
\* its keyframe.
LEMMA BreakVideo == ASSUME NumInv, VideoInv, ConnectionBreaks PROVE VideoInv'
<1>1. /\ conn' = "down" /\ wire' = <<>> /\ UNCHANGED <<server, events, decodeq, decode>>
  BY DEF ConnectionBreaks
<1>2. UNCHANGED <<alive, used, stream, keyed, decoders, noDecoder>>
  BY <1>1 DEF server, decode
<1>3. Range(wire') = {}
  BY <1>1 DEF Range
<1>4. /\ InFlight' \subseteq InFlight
      /\ \A y \in InFlight', e \in InFlight : e \in InFlight' \/ MayPrecede(late, y, e)
  BY <1>1, <1>3 DEF InFlight, NumInv, PathOrdered, Path, Ahead
<1>5. ASSUME NEW w, NEW y \in InFlight', VideoOf(y, w), NEW s \in Nat, s < y.stream,
             EosPending(w, s)
      PROVE  EosPending(w, s)'
  <2>1. PICK e \in InFlight : EosOf(e, w) /\ e.stream = s
    BY <1>5 DEF EosPending
  <2>2. y.stream \in Nat
    BY <1>4, <1>5, VideoSent
  <2>3. ~MayPrecede(late, y, e)
    BY <1>5, <2>1, <2>2 DEF MayPrecede, VideoOf, EosOf
  <2>4. QED
    BY <1>4, <2>1, <2>3 DEF EosPending
<1>6. ASSUME NEW w, NEW y \in InFlight', VideoOf(y, w), Started(w, y.stream)
      PROVE  Started(w, y.stream)'
  <2>1. CASE KeyPending(w, y.stream)
    <3>1. PICK k \in InFlight : VideoOf(k, w) /\ k.stream = y.stream /\ k.key
      BY <2>1 DEF KeyPending
    <3>2. y.stream \in Nat
      BY <1>4, <1>6, VideoSent
    <3>3. ~MayPrecede(late, y, k)
      BY <1>6, <3>1, <3>2 DEF MayPrecede, VideoOf
    <3>4. QED
      BY <1>4, <3>1, <3>3 DEF Started, KeyPending
  <2>2. QED
    BY <1>2, <1>6, <2>1 DEF Started, Hopeless, BuiltFor
<1>7. ASSUME OnWindows, NEW w \in alive PROVE WindowOk(w)'
  <2>1. WindowOk(w)
    BY <1>7 DEF VideoInv
  <2>2. ASSUME w \in DOMAIN decoders PROVE DecoderOk(w)'
    <3>1. PICK t : t = decoders[w].stream
      OBVIOUS
    <3>2. t \in Nat
      BY <2>2, <3>1 DEF NumInv, TypeOK
    <3>3. /\ decoders[w].key \/ Hopeless(w, t)
          /\ \A x \in InFlight : EosOf(x, w) => t <= x.stream
          /\ t <= stream[w]
      BY <2>1, <2>2, <3>1 DEF WindowOk, DecoderOk
    <3>4. \A x \in InFlight : VideoOf(x, w) =>
             x.stream = t \/ (t < x.stream /\ EosPending(w, t))
      BY <2>1, <2>2, <3>1 DEF WindowOk, DecoderOk
    <3>5. \A x \in InFlight' : VideoOf(x, w) =>
             x.stream = t \/ (t < x.stream /\ EosPending(w, t)')
      BY <1>4, <1>5, <3>2, <3>4
    <3>6. QED
      BY <1>1, <1>2, <1>4, <3>1, <3>3, <3>5 DEF DecoderOk, Hopeless
  <2>3. ASSUME NEW x \in InFlight', VideoOf(x, w) PROVE DrawOk(w, x)'
    <3>1. DrawOk(w, x) /\ x.stream \in Nat
      BY <1>4, <2>1, <2>3, VideoSent DEF WindowOk
    <3>2. x.key \/ Started(w, x.stream)'
      BY <1>6, <2>3, <3>1 DEF DrawOk
    <3>3. \A y \in InFlight' : VideoOf(y, w) /\ x.stream < y.stream => EosPending(w, x.stream)'
      BY <1>4, <1>5, <3>1 DEF DrawOk
    <3>4. QED
      BY <1>1, <3>2, <3>3 DEF DrawOk
  <2>4. QED
    BY <1>1, <1>2, <2>2, <2>3 DEF WindowOk, DecoderOk
<1>8. \A x \in Range(events') : InSync(x)'
  BY <1>1, <1>2 DEF VideoInv, InSync, Hopeless
<1>9. QED
  BY <1>2, <1>7, <1>8 DEF VideoInv

\* A decoder is released behind the last draw of its stream: those behind the eos are of later
\* streams, and the decoder was not for them.
LEMMA ReleaseVideo == ASSUME NumInv, VideoInv, ReleaseDecoder PROVE VideoInv'
<1>1. PICK d : d = Head(decodeq)
  OBVIOUS
<1>2. /\ decodeq # <<>> /\ d.type \in {"lost-window", "eos"}
      /\ decoders' = Without(decoders, d.wid) /\ decodeq' = Tail(decodeq)
      /\ UNCHANGED <<server, conn, wire, events, noDecoder>>
  BY <1>1 DEF ReleaseDecoder
<1>3. /\ InFlight = {d} \cup Behind
      /\ \A x \in Behind : MayPrecede(late, d, x)
  BY <1>1, <1>2, TakeEffect DEF NumInv
<1>4. InFlight' = Behind
  BY <1>2 DEF InFlight, Behind
<1>5. UNCHANGED <<alive, used, stream, keyed>>
  BY <1>2 DEF server
<1>6. /\ DOMAIN decoders' = DOMAIN decoders \ {d.wid}
      /\ \A v \in DOMAIN decoders' : decoders'[v] = decoders[v]
  BY <1>2 DEF Without
<1>7. ASSUME OnWindows, NEW v \in alive, v # d.wid PROVE WindowOk(v)'
  <2>1. SameFor(v)
    BY <1>2, <1>3, <1>4, <1>5, <1>6, <1>7 DEF SameFor, VideoOf, EosOf
  <2>2. QED
    BY <1>7, <2>1, SameWindowOk DEF VideoInv
<1>8. ASSUME OnWindows, NEW v \in alive, v = d.wid PROVE WindowOk(v)'
  <2>1. WindowOk(v)
    BY <1>8 DEF VideoInv
  <2>2. EosOf(d, v)
    BY <1>2, <1>3, <1>8, VideoSent DEF EosOf, LostOf
  <2>3. v \in Wids /\ stream[v] \in Nat /\ d.stream \in Nat /\ d.stream < stream[v]
    BY <1>3, <2>2, VideoSent
  <2>4. v \in DOMAIN decoders => /\ decoders[v].stream \in Nat
                                 /\ decoders[v].stream <= d.stream
    BY <1>3, <2>1, <2>2 DEF WindowOk, DecoderOk, NumInv, TypeOK
  <2>5. \A s \in Nat : d.stream < s /\ EosPending(v, s) => EosPending(v, s)'
    BY <1>3, <1>4, <2>3 DEF EosPending
  <2>6. \A s \in Nat : d.stream < s /\ Started(v, s) => Started(v, s)'
    <3>1. \A s \in Nat : d.stream < s => ~BuiltFor(v, s)
      BY <2>3, <2>4 DEF BuiltFor
    <3>2. \A s : KeyPending(v, s) => KeyPending(v, s)'
      BY <1>2, <1>3, <1>4 DEF KeyPending, VideoOf, IsVideo
    <3>3. \A s : Hopeless(v, s) => Hopeless(v, s)'
      BY <1>2 DEF Hopeless
    <3>4. QED
      BY <3>1, <3>2, <3>3 DEF Started
  <2>7. ASSUME NEW x \in InFlight', VideoOf(x, v) PROVE DrawOk(v, x)'
    <3>1. x \in InFlight /\ DrawOk(v, x) /\ x.stream \in Nat
      BY <1>3, <1>4, <2>1, <2>7, VideoSent DEF WindowOk
    <3>2. d.stream < x.stream
      BY <1>3, <1>4, <2>2, <2>7 DEF MayPrecede, EosOf, VideoOf
    <3>3. x.key \/ Started(v, x.stream)'
      BY <2>6, <3>1, <3>2 DEF DrawOk
    <3>4. \A y \in InFlight' : VideoOf(y, v) /\ x.stream < y.stream => EosPending(v, x.stream)'
      BY <1>3, <1>4, <2>5, <3>1, <3>2 DEF DrawOk
    <3>5. conn = "up" => x.stream = stream[v] \/ EosPending(v, x.stream)'
      BY <2>5, <3>1, <3>2 DEF DrawOk
    <3>6. QED
      BY <1>2, <1>5, <3>3, <3>4, <3>5 DEF DrawOk
  <2>8. conn = "up" /\ keyed[v] => Started(v, stream[v])'
    BY <1>5, <2>1, <2>3, <2>6 DEF WindowOk
  <2>9. v \notin DOMAIN decoders'
    BY <1>6, <1>8
  <2>10. QED
    BY <1>2, <1>5, <2>7, <2>8, <2>9 DEF WindowOk, DecoderOk
<1>9. \A x \in Range(events') : InSync(x)'
  BY <1>2, <1>5 DEF VideoInv, InSync, Hopeless
<1>10. QED
  BY <1>5, <1>7, <1>8, <1>9 DEF VideoInv

\* A result is posted in place of its draw; the other windows are not concerned.
LEMMA PostVideo ==
    ASSUME NumInv, VideoInv, NEW d, d = Head(decodeq), decodeq # <<>>, d.type = "draw",
           NEW r \in Results, r.seq = d.seq, r.wid = d.wid, Post(r),
           UNCHANGED server, noDecoder \subseteq noDecoder',
           \A v : v # d.wid \/ ~IsVideo(d) =>
                    /\ v \in DOMAIN decoders <=> v \in DOMAIN decoders'
                    /\ v \in DOMAIN decoders => decoders'[v] = decoders[v],
           OnWindows /\ IsVideo(d) /\ d.wid \in alive => WindowOk(d.wid)',
           InSync(r)'
    PROVE  VideoInv'
<1>1. /\ InFlight' = {r} \cup Behind /\ Range(events') = Range(events) \cup {r}
      /\ r.type \in AnswerTypes
  BY PostEffect DEF NumInv, Results, AnswerTypes
<1>2. InFlight = {d} \cup Behind
  BY TakeEffect DEF NumInv
<1>3. UNCHANGED <<conn, alive, used, stream, keyed>>
  BY DEF Post, server
<1>4. ASSUME OnWindows, NEW v \in alive, v # d.wid \/ ~IsVideo(d) PROVE WindowOk(v)'
  <2>1. SameFor(v)
    BY <1>1, <1>2, <1>3, <1>4 DEF SameFor, VideoOf, EosOf, IsVideo, AnswerTypes
  <2>2. QED
    BY <1>4, <2>1, SameWindowOk DEF VideoInv
<1>5. \A x \in Range(events) : InSync(x)'
  BY <1>3 DEF VideoInv, InSync, Hopeless
<1>6. QED
  BY <1>1, <1>3, <1>4, <1>5 DEF VideoInv

\* A picture needs no decoder.
LEMMA PictureVideo == ASSUME NumInv, VideoInv, DecodePicture PROVE VideoInv'
<1>1. PICK d : d = Head(decodeq)
  OBVIOUS
<1>2. /\ decodeq # <<>> /\ d.type = "draw" /\ d.coding = "picture"
      /\ Post(Decoded(d, TRUE)) \/ Post(Failed(d))
      /\ UNCHANGED <<decoders, noDecoder>>
  BY <1>1 DEF DecodePicture, decode
<1>3. d \in DrawPackets
  <2>1. d \in WindowPackets \cup DrawPackets
    BY <1>1, <1>2, TakeEffect DEF NumInv
  <2>2. QED
    BY <1>2, <2>1 DEF WindowPackets
<1>4. PICK r \in Results : r.seq = d.seq /\ r.wid = d.wid /\ Post(r)
                            /\ (r.type = "draw-decoded" => r.coding = "picture")
  <2>1. Decoded(d, TRUE) \in Results /\ Failed(d) \in Results
    BY <1>3 DEF Decoded, Failed, Results, DrawPackets
  <2>2. QED
    BY <1>2, <2>1 DEF Decoded, Failed
<1>5. ~IsVideo(d) /\ InSync(r)'
  BY <1>2, <1>4 DEF IsVideo, InSync
<1>6. UNCHANGED server
  BY <1>4 DEF Post
<1>7. QED
  BY <1>1, <1>2, <1>4, <1>5, <1>6, PostVideo

\* The decoder a frame meets is one for its own stream, built from the keyframe; none is there
\* only for the keyframe itself, which builds it, or after that has failed to.
LEMMA FrameVideo == ASSUME NumInv, VideoInv, DecodeVideo PROVE VideoInv'
<1>1. PICK d : d = Head(decodeq)
  OBVIOUS
<1>2. PICK w, s : w = d.wid /\ s = d.stream
  OBVIOUS
<1>3. PICK built : built = IF w \in DOMAIN decoders THEN decoders[w]
                           ELSE [stream |-> s, key |-> d.key]
  OBVIOUS
<1>4. /\ decodeq # <<>> /\ d.type = "draw" /\ d.coding = "h264"
      /\ \/ /\ OnWindows
            /\ decoders' = [v \in DOMAIN decoders \cup {w} |->
                               IF v = w THEN built ELSE decoders[v]]
            /\ \/ Post(Decoded(d, built.stream = s /\ built.key))
               \/ Post(Failed(d))
            /\ UNCHANGED noDecoder
         \/ /\ OnWindows => w \notin DOMAIN decoders
            /\ Post(Failed(d))
            /\ noDecoder' = noDecoder \cup {<<w, s>>}
            /\ UNCHANGED decoders
  BY <1>1, <1>2, <1>3 DEF DecodeVideo
<1>5. d \in DrawPackets /\ s \in Nat /\ w \in Wids /\ d.key \in BOOLEAN
  <2>1. d \in WindowPackets \cup DrawPackets
    BY <1>1, <1>4, TakeEffect DEF NumInv
  <2>2. QED
    BY <1>2, <1>4, <2>1 DEF WindowPackets, DrawPackets
<1>6. built \in [stream : Nat, key : BOOLEAN]
  BY <1>3, <1>5 DEF NumInv, TypeOK
<1>7. PICK b \in BOOLEAN : b = (built.stream = s /\ built.key)
  BY <1>6
<1>8. /\ Decoded(d, b) \in Results /\ Failed(d) \in Results
      /\ Decoded(d, b).type = "draw-decoded" /\ Decoded(d, b).insync = b
      /\ Decoded(d, b).stream = s /\ Decoded(d, b).wid = w /\ Decoded(d, b).seq = d.seq
      /\ Failed(d).type = "decoding-failed" /\ Failed(d).wid = w /\ Failed(d).seq = d.seq
  BY <1>2, <1>5 DEF Decoded, Failed, Results, DrawPackets
<1>9. PICK r \in Results :
         /\ r.seq = d.seq /\ r.wid = w /\ Post(r)
         /\ r.type = "draw-decoded" =>
               OnWindows /\ w \in DOMAIN decoders' /\ r.insync = b /\ r.stream = s
  BY <1>4, <1>7, <1>8
<1>10. /\ noDecoder \subseteq noDecoder' /\ UNCHANGED <<server, conn>>
       /\ \A v : v # w => /\ v \in DOMAIN decoders <=> v \in DOMAIN decoders'
                          /\ v \in DOMAIN decoders => decoders'[v] = decoders[v]
  BY <1>4, <1>9 DEF Post
<1>11. /\ OnWindows /\ w \in DOMAIN decoders' => decoders'[w] = built
       /\ OnWindows => w \in DOMAIN decoders' \/ Hopeless(w, s)'
  BY <1>3, <1>4 DEF Hopeless
<1>12. InFlight = {d} \cup Behind /\ \A x \in Behind : MayPrecede(late, d, x)
  BY <1>1, <1>4, TakeEffect DEF NumInv
<1>13. InFlight' = {r} \cup Behind /\ r.type \in AnswerTypes
  BY <1>1, <1>2, <1>4, <1>9, <1>10, PostEffect DEF NumInv, Results, AnswerTypes
<1>14. VideoOf(d, w)
  BY <1>2, <1>4 DEF VideoOf, IsVideo
<1>15. \A x \in Behind : /\ EosOf(x, w) => s <= x.stream
                         /\ VideoOf(x, w) => s <= x.stream /\ (x.key => s < x.stream)
  BY <1>2, <1>12, <1>14 DEF MayPrecede, EosOf, VideoOf
<1>16. \A u : EosPending(w, u) => EosPending(w, u)' /\ \E x \in Behind : EosOf(x, w) /\ x.stream = u
  BY <1>4, <1>12, <1>13 DEF EosPending, EosOf
<1>17. UNCHANGED <<alive, used, stream, keyed>>
  BY <1>10 DEF server
<1>18. ASSUME OnWindows, w \in alive
       PROVE  built.stream = s /\ (built.key \/ Hopeless(w, s)')
  <2>1. WindowOk(w)
    BY <1>18 DEF VideoInv
  <2>2. CASE w \in DOMAIN decoders
    <3>1. /\ built.stream = s \/ (built.stream < s /\ EosPending(w, built.stream))
          /\ built.key \/ Hopeless(w, built.stream)
      BY <1>2, <1>3, <1>12, <1>14, <2>1, <2>2 DEF WindowOk, DecoderOk
    <3>2. ~(built.stream < s /\ EosPending(w, built.stream))
      BY <1>5, <1>6, <1>15, <1>16
    <3>3. Hopeless(w, s) => Hopeless(w, s)'
      BY <1>10 DEF Hopeless
    <3>4. built.stream = s
      BY <3>1, <3>2
    <3>5. built.key \/ Hopeless(w, s)
      BY <3>1, <3>4
    <3>6. QED
      BY <3>3, <3>4, <3>5
  <2>3. CASE w \notin DOMAIN decoders
    <3>1. built.stream = s /\ built.key = d.key
      BY <1>3, <2>3
    <3>2. d.key \/ Started(w, s)
      BY <1>2, <1>12, <1>14, <2>1 DEF WindowOk, DrawOk
    <3>3. KeyPending(w, s) => d.key
      BY <1>5, <1>12, <1>15 DEF KeyPending
    <3>4. ~BuiltFor(w, s) /\ (Hopeless(w, s) => Hopeless(w, s)')
      BY <1>10, <2>3 DEF BuiltFor, Hopeless
    <3>5. QED
      BY <3>1, <3>2, <3>3, <3>4 DEF Started
  <2>4. QED
    BY <2>2, <2>3
<1>19. ASSUME OnWindows, w \in alive PROVE WindowOk(w)'
  <2>1. WindowOk(w) /\ DrawOk(w, d)
    BY <1>12, <1>14, <1>19 DEF VideoInv, WindowOk
  <2>2. /\ built.stream = s /\ (built.key \/ Hopeless(w, s)')
        /\ w \in DOMAIN decoders' => decoders'[w] = built
        /\ BuiltFor(w, s)' \/ Hopeless(w, s)'
    BY <1>11, <1>18, <1>19 DEF BuiltFor
  <2>3. \A u : BuiltFor(w, u) => u = s
    BY <1>3, <2>2 DEF BuiltFor
  <2>4. \A u : Started(w, u) => Started(w, u)'
    <3>1. \A u : Hopeless(w, u) => Hopeless(w, u)'
      BY <1>10 DEF Hopeless
    <3>2. \A u : KeyPending(w, u) => KeyPending(w, u)' \/ u = s
      BY <1>2, <1>12, <1>13 DEF KeyPending
    <3>3. QED
      BY <2>2, <2>3, <3>1, <3>2 DEF Started
  <2>5. \A x \in InFlight' : VideoOf(x, w) \/ EosOf(x, w) => x \in Behind
    BY <1>13 DEF VideoOf, EosOf, IsVideo, AnswerTypes
  <2>6. \A x \in Behind : VideoOf(x, w) => x \in InFlight /\ DrawOk(w, x) /\ x.stream \in Nat
    BY <1>12, <2>1, VideoSent DEF WindowOk
  <2>7. ASSUME w \in DOMAIN decoders' PROVE DecoderOk(w)'
    <3>1. \A x \in InFlight' : EosOf(x, w) => s <= x.stream
      BY <1>15, <2>5
    <3>2. \A x \in Behind : VideoOf(x, w) =>
             x.stream = s \/ (s < x.stream /\ EosPending(w, s)')
      <4>1. SUFFICES ASSUME NEW x \in Behind, VideoOf(x, w), x.stream # s
                     PROVE  s < x.stream /\ EosPending(w, s)'
        OBVIOUS
      <4>2. s < x.stream
        BY <1>5, <1>15, <2>6, <4>1
      <4>3. QED
        BY <1>2, <1>12, <1>16, <2>1, <4>1, <4>2 DEF DrawOk
    <3>3. s <= stream[w]
      BY <1>2, <1>5, <1>12, <1>14, VideoSent
    <3>4. conn = "up" => s = stream[w] \/ EosPending(w, s)'
      BY <1>2, <1>16, <2>1 DEF DrawOk
    <3>5. \A x \in InFlight' : VideoOf(x, w) =>
             x.stream = s \/ (s < x.stream /\ EosPending(w, s)')
      BY <2>5, <3>2
    <3>6. PICK t : t = decoders'[w] /\ t.stream = s /\ (t.key \/ Hopeless(w, s)')
      BY <2>2, <2>7
    <3>7. QED
      BY <1>10, <1>17, <3>1, <3>3, <3>4, <3>5, <3>6 DEF DecoderOk
  <2>8. ASSUME NEW x \in InFlight', VideoOf(x, w) PROVE DrawOk(w, x)'
    <3>1. DrawOk(w, x)
      BY <2>5, <2>6, <2>8
    <3>2. x.key \/ Started(w, x.stream)'
      BY <2>4, <3>1 DEF DrawOk
    <3>3. \A y \in InFlight' : VideoOf(y, w) /\ x.stream < y.stream => EosPending(w, x.stream)'
      BY <1>12, <1>16, <2>5, <3>1 DEF DrawOk
    <3>4. QED
      BY <1>10, <1>16, <1>17, <3>1, <3>2, <3>3 DEF DrawOk
  <2>9. conn = "up" /\ keyed[w] => Started(w, stream[w])'
    BY <1>17, <2>1, <2>4 DEF WindowOk
  <2>10. QED
    BY <1>10, <1>17, <2>7, <2>8, <2>9 DEF WindowOk, DecoderOk
<1>20. InSync(r)'
  <2>1. SUFFICES ASSUME r.type = "draw-decoded"
                 PROVE  OnWindows /\ (w \in alive => r.insync \/ Hopeless(w, r.stream)')
    BY <1>9, <1>17 DEF InSync, Hopeless
  <2>2. OnWindows /\ r.insync = b /\ r.stream = s
    BY <1>9, <2>1
  <2>3. w \in alive => b \/ Hopeless(w, s)'
    BY <1>7, <1>18, <2>2
  <2>4. QED
    BY <2>2, <2>3
<1>21. OnWindows /\ IsVideo(d) /\ d.wid \in alive => WindowOk(d.wid)'
  BY <1>2, <1>19
<1>22. \A v : v # d.wid \/ ~IsVideo(d) =>
                    /\ v \in DOMAIN decoders <=> v \in DOMAIN decoders'
                    /\ v \in DOMAIN decoders => decoders'[v] = decoders[v]
  BY <1>2, <1>10, <1>14 DEF VideoOf
<1>23. QED
  BY <1>1, <1>2, <1>4, <1>9, <1>10, <1>20, <1>21, <1>22, PostVideo

\* Every step keeps the streams in order.
LEMMA NextVideo == NumInv /\ Covered /\ VideoInv /\ [Next]_vars => VideoInv'
<1> SUFFICES ASSUME NumInv, Covered, VideoInv, [Next]_vars PROVE VideoInv'
  OBVIOUS
<1>1. CASE Server
  BY <1>1, ServerVideo
<1>2. CASE ConnectionBreaks
  BY <1>2, BreakVideo
<1>3. CASE ReaderThread \/ UiThread \/ LoopEnds \/ UNCHANGED vars
  BY <1>3, ReaderTraffic, UiTraffic, QuietTraffic, TrafficVideo
<1>4. CASE DecodeThread
  BY <1>4, ReleaseVideo, PictureVideo, FrameVideo DEF DecodeThread
<1>5. QED
  BY <1>1, <1>2, <1>3, <1>4 DEF Next

\* A frame of a window that is still there is decoded by a decoder built from the keyframe of
\* the frame's own stream (decode thread: "draw", "eos", "lost-window"), unless creating that
\* decoder had failed.
THEOREM DecodedInSyncCorrect == Spec => []DecodedInSync
<1>1. VideoInv => DecodedInSync
  <2>1. SUFFICES ASSUME VideoInv, NEW i \in DOMAIN events,
                        events[i].type = "draw-decoded", events[i].coding = "h264",
                        events[i].wid \in alive
                 PROVE  \/ events[i].insync
                        \/ <<events[i].wid, events[i].stream>> \in noDecoder
    BY DEF DecodedInSync
  <2>2. InSync(events[i])
    BY <2>1 DEF VideoInv, Range
  <2>3. QED
    BY <2>1, <2>2 DEF InSync, Hopeless
<1>2. Init => VideoInv
  BY InitVideo
<1>3. QED
  BY <1>1, <1>2, NextVideo, NumInvCorrect, CoveredCorrect, PTL DEF Spec
=============================================================================
