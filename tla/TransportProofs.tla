-------------------------- MODULE TransportProofs --------------------------
(***************************************************************************)
(* What the reader thread makes of the stream and what the two writers     *)
(* make of the socket (Transport), for every number of packets, chunks and *)
(* pings and however the stream is cut.                                    *)
(*                                                                         *)
(* The headers and payloads on their way are one sequence, the flow: the   *)
(* buffer of the reader, the message it reassembles, the data frame on its *)
(* way and what the server has yet to cut.  Cutting and reassembling do    *)
(* not change the flow, the server appends to it, the reader takes its     *)
(* head.  The lemmas on Stream say what each of these does to the packets. *)
(***************************************************************************)
EXTENDS Transport, SequenceTheorems, TLAPS

Payload(c) == [half |-> "payload", part |-> c]
Header(c) == [half |-> "header", part |-> c]

\* the payload that ends a packet
Ends(t) == t.half = "payload" /\ t.part.index = 0

\* the chunks of a packet that its main packet is to be handed on with
Carried(parts) == {c \in {parts[i] : i \in DOMAIN parts} : c.index # 0 /\ c.kind = "plain"}

\* T starts with the payload of the header h read last, if any, and goes on with whole parts
Paired(T, h) ==
    /\ T # <<>> => T[Len(T)].half = "payload"
    /\ IF h = NoPart THEN T # <<>> => T[1].half = "header"
       ELSE T # <<>> /\ T[1] = Payload(h)
    /\ \A i \in 1..(Len(T) - 1) :
        IF T[i].half = "header" THEN T[i + 1] = Payload(T[i].part) ELSE T[i + 1].half = "header"

\* packets follow one another, each ended by its main packet
Ordered(T) ==
    \A i, j \in 1..Len(T) : i < j =>
        /\ T[i].part.packet <= T[j].part.packet
        /\ Ends(T[i]) => T[i].part.packet < T[j].part.packet

\* T is of the packets sent, all but the last of which have their main packet in it; s[a] are
\* the parts of packet p + a
OfPackets(T, s, p) ==
    /\ \A a \in 1..Len(s) : \A i \in 1..Len(s[a]) : s[a][i].packet = p + a
    /\ \A i \in 1..Len(T) : \E a \in 1..Len(s) : \E b \in 1..Len(s[a]) : T[i].part = s[a][b]
    /\ \A i \in 1..Len(T) : T[i].part.index = 0 => T[i].part.packet < p + Len(s)
    /\ \A a \in 1..(Len(s) - 1) : \E j \in 1..Len(T) : Ends(T[j]) /\ T[j].part.packet = p + a

\* C are chunks of the first packet, and those to be handed on are in C or still to come
Kept(T, s, C) ==
    /\ C \subseteq Carried(s[1])
    /\ \A a \in 1..Len(s) : \A c \in Carried(s[a]) :
        c \in C \/ \E j \in 1..Len(T) : T[j] = Payload(c)

Stream(T, h, C, s, p) ==
    /\ T \in Seq(Tokens) /\ h \in Parts \cup {NoPart} /\ C \subseteq Parts
    /\ s \in Seq(Seq(Parts)) /\ s # <<>> /\ p \in Nat
    /\ Paired(T, h) /\ Ordered(T) /\ OfPackets(T, s, p) /\ Kept(T, s, C)

-----------------------------------------------------------------------------
(* What taking and appending parts does to the stream *)

\* The fields of a token.
LEMMA TokenTypes ==
    ASSUME NEW T \in Seq(Tokens)
    PROVE  /\ Len(T) \in Nat
           /\ \A i \in 1..Len(T) : /\ T[i] \in Tokens /\ T[i].part \in Parts
                                   /\ T[i].half \in {"header", "payload"}
                                   /\ T[i].part.packet \in 1..MaxPackets
                                   /\ T[i].part.index \in Indexes
                                   /\ T[i].part # NoPart
<1>1. Len(T) \in Nat
  OBVIOUS
<1>2. ASSUME NEW i \in 1..Len(T)
      PROVE  T[i] \in Tokens
  BY <1>2, ElementOfSeq
<1>3. \A t \in Tokens : t.part \in Parts /\ t.half \in {"header", "payload"}
  BY DEF Tokens
<1>4. \A c \in Parts : c.packet \in 1..MaxPackets /\ c.index \in Indexes
  BY DEF Parts
<1>5. NoPart.packet = 0 /\ 0 \notin 1..MaxPackets
  BY TransportAssumption DEF NoPart
<1>6. \A c \in Parts : c # NoPart
  BY <1>4, <1>5
<1>7. QED
  BY <1>1, <1>2, <1>3, <1>4, <1>6

\* The fields of a part that was sent.
LEMMA SentTypes ==
    ASSUME NEW s \in Seq(Seq(Parts))
    PROVE  /\ Len(s) \in Nat
           /\ \A a \in 1..Len(s) :
                /\ s[a] \in Seq(Parts) /\ Len(s[a]) \in Nat /\ DOMAIN s[a] = 1..Len(s[a])
                /\ \A b \in 1..Len(s[a]) : s[a][b] \in Parts
<1>1. Len(s) \in Nat
  OBVIOUS
<1>2. ASSUME NEW a \in 1..Len(s)
      PROVE  s[a] \in Seq(Parts)
  BY <1>2, ElementOfSeq
<1>3. ASSUME NEW q \in Seq(Parts)
      PROVE  /\ Len(q) \in Nat /\ DOMAIN q = 1..Len(q)
             /\ \A b \in 1..Len(q) : q[b] \in Parts
  BY <1>3, LenProperties, ElementOfSeq
<1>4. QED
  BY <1>1, <1>2, <1>3

\* The next part to be read is of the packet after those handed on.
LEMMA FirstPart ==
    ASSUME NEW T, NEW h, NEW C, NEW s, NEW p, Stream(T, h, C, s, p), T # <<>>
    PROVE  /\ Len(T) \in Nat \ {0} /\ T[1].part.packet = p + 1
           /\ \E b \in 1..Len(s[1]) : T[1].part = s[1][b]
<1>1. T \in Seq(Tokens) /\ s \in Seq(Seq(Parts)) /\ s # <<>> /\ p \in Nat
  BY DEF Stream
<1>2. Len(T) \in Nat \ {0} /\ Len(s) \in Nat \ {0} /\ 1 \in 1..Len(T)
  BY <1>1, EmptySeq
<1>3. PICK a \in 1..Len(s) : \E b \in 1..Len(s[a]) : T[1].part = s[a][b]
  BY <1>2 DEF Stream, OfPackets
<1>4. T[1].part.packet = p + a
  BY <1>3 DEF Stream, OfPackets
<1>5. a = 1
  <2>1. SUFFICES ASSUME a # 1 PROVE FALSE
    OBVIOUS
  <2>2. 1 \in 1..(Len(s) - 1)
    BY <1>2, <1>3, <2>1
  <2>3. PICK j \in 1..Len(T) : Ends(T[j]) /\ T[j].part.packet = p + 1
    BY <2>2 DEF Stream, OfPackets
  <2>4. j # 1
    BY <1>1, <1>4, <2>1, <2>3
  <2>5. T[1].part.packet <= T[j].part.packet
    BY <1>2, <2>3, <2>4 DEF Stream, Ordered
  <2>6. QED
    BY <1>1, <1>3, <1>4, <2>1, <2>3, <2>5
<1>6. QED
  BY <1>2, <1>3, <1>4, <1>5

\* A token taken off the flow leaves it in order.
LEMMA TailOrdered ==
    ASSUME NEW T \in Seq(Tokens), T # <<>>, Ordered(T)
    PROVE  /\ Tail(T) \in Seq(Tokens) /\ Len(T) \in Nat \ {0} /\ Len(Tail(T)) = Len(T) - 1
           /\ \A i \in 1..Len(Tail(T)) : i + 1 \in 1..Len(T) /\ Tail(T)[i] = T[i + 1]
           /\ \A i \in 1..Len(T) : i # 1 => i - 1 \in 1..Len(Tail(T)) /\ Tail(T)[i - 1] = T[i]
           /\ Ordered(Tail(T))
<1>1. Len(T) \in Nat \ {0} /\ Tail(T) \in Seq(Tokens) /\ Len(Tail(T)) = Len(T) - 1
  BY EmptySeq, HeadTailProperties
<1>2. \A i \in 1..Len(Tail(T)) : i + 1 \in 1..Len(T) /\ Tail(T)[i] = T[i + 1]
  BY <1>1, HeadTailProperties
<1>3. ASSUME NEW i \in 1..Len(T), i # 1
      PROVE  i - 1 \in 1..Len(Tail(T)) /\ Tail(T)[i - 1] = T[i]
  <2>1. i - 1 \in 1..Len(Tail(T)) /\ (i - 1) + 1 = i
    BY <1>1, <1>3
  <2>2. QED
    BY <1>2, <2>1
<1>4. ASSUME NEW i \in 1..Len(Tail(T)), NEW j \in 1..Len(Tail(T)), i < j
      PROVE  /\ Tail(T)[i].part.packet <= Tail(T)[j].part.packet
             /\ Ends(Tail(T)[i]) => Tail(T)[i].part.packet < Tail(T)[j].part.packet
  <2>1. i + 1 \in 1..Len(T) /\ j + 1 \in 1..Len(T) /\ i + 1 < j + 1
    BY <1>1, <1>2, <1>4
  <2>2. QED
    BY <1>2, <2>1 DEF Ordered
<1>5. Ordered(Tail(T))
  BY <1>4 DEF Ordered
<1>6. QED
  BY <1>1, <1>2, <1>3, <1>5

\* The reader takes headers and payloads in turn, each payload after its own header.
LEMMA TailPaired ==
    ASSUME NEW T \in Seq(Tokens), T # <<>>, NEW h, Paired(T, h), Ordered(T)
    PROVE  Paired(Tail(T), IF T[1].half = "header" THEN T[1].part ELSE NoPart)
<1> DEFINE U == Tail(T)
<1>1. /\ Len(T) \in Nat \ {0} /\ U \in Seq(Tokens) /\ Len(U) = Len(T) - 1 /\ Len(U) \in Nat
      /\ \A i \in 1..Len(U) : U[i] = T[i + 1]
  BY TailOrdered
<1> HIDE DEF U
<1>2. U # <<>> => Len(U) # 0
  BY <1>1, EmptySeq
<1>3. U # <<>> => U[Len(U)].half = "payload"
  <2>1. SUFFICES ASSUME U # <<>> PROVE U[Len(U)].half = "payload"
    OBVIOUS
  <2>2. Len(U) \in 1..Len(U) /\ Len(U) + 1 = Len(T)
    BY <1>1, <1>2, <2>1
  <2>3. U[Len(U)] = T[Len(T)]
    BY <1>1, <2>2
  <2>4. QED
    BY <2>3 DEF Paired
<1>4. ASSUME NEW i \in 1..(Len(U) - 1)
      PROVE  IF U[i].half = "header" THEN U[i + 1] = Payload(U[i].part)
             ELSE U[i + 1].half = "header"
  <2>1. /\ i \in 1..Len(U) /\ i + 1 \in 1..Len(U) /\ i + 1 \in 1..(Len(T) - 1)
    BY <1>1
  <2>2. U[i] = T[i + 1] /\ U[i + 1] = T[(i + 1) + 1]
    BY <1>1, <2>1
  <2>3. QED
    BY <2>1, <2>2 DEF Paired
<1>5. CASE T[1].half = "header"
  <2>1. T[1].part # NoPart
    BY <1>1, TokenTypes
  <2>2. U # <<>>
    <3>1. Len(T) # 1
      BY <1>5 DEF Paired
    <3>2. QED
      BY <1>1, <3>1, EmptySeq
  <2>3. 1 \in 1..(Len(T) - 1) /\ 1 \in 1..Len(U) /\ U[1] = T[1 + 1]
    BY <1>1, <1>2, <2>2
  <2>4. U[1] = Payload(T[1].part)
    BY <1>5, <2>3 DEF Paired
  <2>5. QED
    BY <1>3, <1>4, <1>5, <2>1, <2>2, <2>4 DEF Paired, U
<1>6. CASE T[1].half # "header"
  <2>1. U # <<>> => U[1].half = "header"
    <3>1. SUFFICES ASSUME U # <<>> PROVE U[1].half = "header"
      OBVIOUS
    <3>2. 1 \in 1..(Len(T) - 1) /\ 1 \in 1..Len(U) /\ U[1] = T[1 + 1]
      BY <1>1, <1>2, <3>1
    <3>3. QED
      BY <1>6, <3>2 DEF Paired
  <2>2. QED
    BY <1>3, <1>4, <1>6, <2>1 DEF Paired, U
<1>7. QED
  BY <1>5, <1>6

\* Before the main packet ends it, the packet that is read stays the same.
LEMMA TailOfPackets ==
    ASSUME NEW T \in Seq(Tokens), T # <<>>, Ordered(T), ~Ends(T[1]),
           NEW s \in Seq(Seq(Parts)), NEW p \in Nat, OfPackets(T, s, p)
    PROVE  OfPackets(Tail(T), s, p)
<1> DEFINE U == Tail(T)
<1>1. /\ \A i \in 1..Len(U) : i + 1 \in 1..Len(T) /\ U[i] = T[i + 1]
      /\ \A i \in 1..Len(T) : i # 1 => i - 1 \in 1..Len(U) /\ U[i - 1] = T[i]
  BY TailOrdered
<1> HIDE DEF U
<1>2. \A a \in 1..Len(s) : \A i \in 1..Len(s[a]) : s[a][i].packet = p + a
  BY DEF OfPackets
<1>3. ASSUME NEW i \in 1..Len(U)
      PROVE  /\ \E a \in 1..Len(s) : \E b \in 1..Len(s[a]) : U[i].part = s[a][b]
             /\ U[i].part.index = 0 => U[i].part.packet < p + Len(s)
  <2>1. i + 1 \in 1..Len(T) /\ U[i] = T[i + 1]
    BY <1>1
  <2>2. \E a \in 1..Len(s) : \E b \in 1..Len(s[a]) : T[i + 1].part = s[a][b]
    BY <2>1 DEF OfPackets
  <2>3. T[i + 1].part.index = 0 => T[i + 1].part.packet < p + Len(s)
    BY <2>1 DEF OfPackets
  <2>4. QED
    BY <2>1, <2>2, <2>3
<1>4. ASSUME NEW a \in 1..(Len(s) - 1)
      PROVE  \E j \in 1..Len(U) : Ends(U[j]) /\ U[j].part.packet = p + a
  <2>1. PICK j \in 1..Len(T) : Ends(T[j]) /\ T[j].part.packet = p + a
    BY DEF OfPackets
  <2>2. j # 1
    BY <2>1
  <2>3. QED
    BY <1>1, <2>1, <2>2, ZenonT(40)
<1>5. QED
  BY <1>2, <1>3, <1>4 DEF OfPackets, U

\* What is still to come but the chunk just taken is still to come.
LEMMA TailKept ==
    ASSUME NEW T \in Seq(Tokens), T # <<>>, Ordered(T), NEW D, NEW C,
           NEW s, Kept(T, s, C), D \subseteq Carried(s[1]), C \subseteq D,
           \A a \in 1..Len(s) : \A c \in Carried(s[a]) : T[1] = Payload(c) => c \in D
    PROVE  Kept(Tail(T), s, D)
<1> DEFINE U == Tail(T)
<1>1. \A i \in 1..Len(T) : i # 1 => i - 1 \in 1..Len(U) /\ U[i - 1] = T[i]
  BY TailOrdered
<1> HIDE DEF U
<1>2. ASSUME NEW a \in 1..Len(s), NEW c \in Carried(s[a]), c \notin D
      PROVE  \E j \in 1..Len(U) : U[j] = Payload(c)
  <2>1. PICK j \in 1..Len(T) : T[j] = Payload(c)
    BY <1>2 DEF Kept
  <2>2. j # 1
    BY <1>2, <2>1
  <2>3. QED
    BY <1>1, <2>1, <2>2
<1>3. QED
  BY <1>2 DEF Kept, U

\* ReadHeader takes the header: its payload is next.
LEMMA TakeHeader ==
    ASSUME NEW T, NEW C, NEW s, NEW p, Stream(T, NoPart, C, s, p), T # <<>>
    PROVE  Stream(Tail(T), T[1].part, C, s, p)
<1>1. /\ T \in Seq(Tokens) /\ Paired(T, NoPart) /\ Ordered(T)
      /\ s \in Seq(Seq(Parts)) /\ s # <<>> /\ p \in Nat
      /\ OfPackets(T, s, p) /\ Kept(T, s, C)
  BY DEF Stream
<1>2. T[1].half = "header"
  BY <1>1 DEF Paired
<1>3. Tail(T) \in Seq(Tokens) /\ Ordered(Tail(T)) /\ T[1].part \in Parts
  BY <1>1, TailOrdered, TokenTypes
<1>4. Paired(Tail(T), T[1].part)
  BY <1>1, <1>2, TailPaired
<1>5. OfPackets(Tail(T), s, p)
  BY <1>1, <1>2, TailOfPackets DEF Ends
<1>6. Kept(Tail(T), s, C)
  <2>1. \A c : T[1] # Payload(c)
    BY <1>2 DEF Payload
  <2>2. C \subseteq Carried(s[1])
    BY <1>1 DEF Kept
  <2>3. QED
    BY <1>1, <2>1, <2>2, TailKept
<1>7. QED
  BY <1>1, <1>3, <1>4, <1>5, <1>6 DEF Stream

\* The payload that is next is the one of the header read last.
LEMMA PayloadNext ==
    ASSUME NEW T, NEW h, NEW C, NEW s, NEW p, Stream(T, h, C, s, p), h # NoPart
    PROVE  /\ T # <<>> /\ T[1] = Payload(h) /\ T[1].half = "payload" /\ T[1].part = h
           /\ h \in Parts /\ h.packet = p + 1
           /\ \E b \in 1..Len(s[1]) : h = s[1][b]
           /\ Paired(Tail(T), NoPart)
<1>1. T \in Seq(Tokens) /\ h \in Parts /\ Paired(T, h) /\ Ordered(T)
  BY DEF Stream
<1>2. T # <<>> /\ T[1] = Payload(h)
  BY <1>1 DEF Paired
<1>3. T[1].half = "payload" /\ T[1].part = h
  BY <1>2 DEF Payload
<1>4. h.packet = p + 1 /\ \E b \in 1..Len(s[1]) : h = s[1][b]
  BY <1>2, <1>3, FirstPart
<1>5. Paired(Tail(T), NoPart)
  BY <1>1, <1>2, <1>3, TailPaired
<1>6. QED
  BY <1>1, <1>2, <1>3, <1>4, <1>5

\* ReadChunk takes a chunk's payload, and keeps the chunk if it could decompress it.
LEMMA TakeChunk ==
    ASSUME NEW T, NEW h, NEW C, NEW s, NEW p, Stream(T, h, C, s, p),
           h # NoPart, h.index # 0
    PROVE  Stream(Tail(T), NoPart, IF h.kind = "plain" THEN C \cup {h} ELSE C, s, p)
<1> DEFINE D == IF h.kind = "plain" THEN C \cup {h} ELSE C
<1>1. /\ T \in Seq(Tokens) /\ Ordered(T) /\ C \subseteq Parts
      /\ s \in Seq(Seq(Parts)) /\ s # <<>> /\ p \in Nat
      /\ OfPackets(T, s, p) /\ Kept(T, s, C)
  BY DEF Stream
<1>2. /\ T # <<>> /\ T[1] = Payload(h) /\ T[1].half = "payload" /\ T[1].part = h
      /\ h \in Parts /\ Paired(Tail(T), NoPart)
  BY PayloadNext
<1>3. PICK b \in 1..Len(s[1]) : h = s[1][b]
  BY PayloadNext
<1>4. Tail(T) \in Seq(Tokens) /\ Ordered(Tail(T))
  BY <1>1, <1>2, TailOrdered
<1>5. OfPackets(Tail(T), s, p)
  BY <1>1, <1>2, TailOfPackets DEF Ends
<1>6. h.kind = "plain" => h \in Carried(s[1])
  <2>1. 1 \in 1..Len(s)
    BY <1>1, EmptySeq
  <2>2. b \in DOMAIN s[1]
    BY <1>1, <1>3, <2>1, SentTypes
  <2>3. QED
    BY <1>3, <2>2 DEF Carried
<1>7. Kept(Tail(T), s, D)
  <2>1. C \subseteq Carried(s[1])
    BY <1>1 DEF Kept
  <2>2. D \subseteq Carried(s[1]) /\ C \subseteq D
    BY <1>6, <2>1
  <2>3. ASSUME NEW a \in 1..Len(s), NEW c \in Carried(s[a]), T[1] = Payload(c)
        PROVE  c \in D
    <3>1. c = h
      BY <1>2, <2>3 DEF Payload
    <3>2. c.kind = "plain"
      BY DEF Carried
    <3>3. QED
      BY <3>1, <3>2
  <2>4. QED
    BY <1>1, <1>2, <2>2, <2>3, TailKept
<1>8. D \subseteq Parts
  BY <1>1, <1>2
<1>9. QED
  BY <1>1, <1>2, <1>4, <1>5, <1>7, <1>8 DEF Stream

\* ReadMain takes the main packet: it is the next packet, with all the chunks to hand on, and
\* what follows is of the packets behind it.
LEMMA TakeMain ==
    ASSUME NEW T, NEW h, NEW C, NEW s, NEW p, Stream(T, h, C, s, p),
           h # NoPart, h.index = 0
    PROVE  /\ h.packet = p + 1 /\ C = Carried(s[1])
           /\ Stream(Tail(T), NoPart, {}, Tail(s), p + 1)
<1> DEFINE U == Tail(T)
           r == Tail(s)
<1>1. /\ T \in Seq(Tokens) /\ Ordered(T)
      /\ s \in Seq(Seq(Parts)) /\ s # <<>> /\ p \in Nat
      /\ OfPackets(T, s, p) /\ Kept(T, s, C)
  BY DEF Stream
<1>2. /\ T # <<>> /\ T[1] = Payload(h) /\ T[1].part = h /\ Ends(T[1])
      /\ h.packet = p + 1 /\ Paired(U, NoPart)
  BY PayloadNext DEF Ends
<1>3. /\ U \in Seq(Tokens) /\ Ordered(U) /\ Len(T) \in Nat \ {0} /\ Len(U) = Len(T) - 1
      /\ \A i \in 1..Len(U) : i + 1 \in 1..Len(T) /\ U[i] = T[i + 1]
      /\ \A i \in 1..Len(T) : i # 1 => i - 1 \in 1..Len(U) /\ U[i - 1] = T[i]
  BY <1>1, <1>2, TailOrdered
<1>4. Len(s) \in Nat /\ Len(s) >= 2
  <2>1. Len(s) \in Nat /\ 1 \in 1..Len(T)
    BY <1>1, <1>3
  <2>2. h.packet < p + Len(s)
    BY <1>1, <1>2, <2>1 DEF OfPackets, Ends
  <2>3. QED
    BY <1>1, <1>2, <2>1, <2>2
<1>5. /\ r \in Seq(Seq(Parts)) /\ Len(r) = Len(s) - 1 /\ r # <<>>
      /\ \A a \in 1..Len(r) : a + 1 \in 1..Len(s) /\ r[a] = s[a + 1]
  <2>1. r \in Seq(Seq(Parts)) /\ Len(r) = Len(s) - 1
    BY <1>1, HeadTailProperties
  <2>2. \A a \in 1..Len(r) : a + 1 \in 1..Len(s) /\ r[a] = s[a + 1]
    BY <1>1, <1>4, <2>1, HeadTailProperties
  <2>3. r # <<>>
    <3> DEFINE n == Len(r)
               m == Len(s)
    <3>1. m \in Nat /\ m >= 2 /\ n = m - 1
      BY <1>4, <2>1
    <3> HIDE DEF n, m
    <3>2. n # 0
      BY <3>1
    <3>3. Len(r) # 0
      BY <3>2 DEF n
    <3>4. Len(<<>>) = 0
      OBVIOUS
    <3>5. QED
      BY <3>3, <3>4
  <2>4. QED
    BY <2>1, <2>2, <2>3
<1> HIDE DEF U, r
\* all that follows is of later packets
<1>6. ASSUME NEW i \in 1..Len(U)
      PROVE  /\ U[i].part.packet > p + 1
             /\ \E a \in 1..Len(s) : \E b \in 1..Len(s[a]) : U[i].part = s[a][b]
             /\ U[i].part.index = 0 => U[i].part.packet < p + Len(s)
             /\ U[i] \in Tokens /\ U[i].part \in Parts /\ U[i].part.packet \in Nat
  <2>1. i + 1 \in 1..Len(T) /\ 1 < i + 1 /\ U[i] = T[i + 1] /\ 1 \in 1..Len(T)
    BY <1>3
  <2>2. T[1].part.packet < T[i + 1].part.packet
    BY <1>1, <1>2, <2>1 DEF Ordered
  <2>3. T[i + 1] \in Tokens /\ T[i + 1].part \in Parts /\ T[i + 1].part.packet \in 1..MaxPackets
    BY <1>1, <2>1, TokenTypes
  <2>4. /\ \E a \in 1..Len(s) : \E b \in 1..Len(s[a]) : T[i + 1].part = s[a][b]
        /\ T[i + 1].part.index = 0 => T[i + 1].part.packet < p + Len(s)
    <3>1. \E a \in 1..Len(s) : \E b \in 1..Len(s[a]) : T[i + 1].part = s[a][b]
      BY <1>1, <2>1 DEF OfPackets
    <3>2. T[i + 1].part.index = 0 => T[i + 1].part.packet < p + Len(s)
      BY <1>1, <2>1 DEF OfPackets
    <3>3. QED
      BY <3>1, <3>2
  <2>5. QED
    BY <1>1, <1>2, <2>1, <2>2, <2>3, <2>4, SMTT(30)
<1>7. OfPackets(U, r, p + 1)
  <2>1. ASSUME NEW a \in 1..Len(r), NEW i \in 1..Len(r[a])
        PROVE  r[a][i].packet = (p + 1) + a
    <3>1. s[a + 1][i].packet = p + (a + 1)
      <4>1. a + 1 \in 1..Len(s) /\ r[a] = s[a + 1]
        BY <1>5
      <4>2. i \in 1..Len(s[a + 1])
        BY <4>1
      <4>3. QED
        BY <1>1, <4>1, <4>2 DEF OfPackets
    <3>2. p + (a + 1) = (p + 1) + a /\ r[a] = s[a + 1]
      BY <1>1, <1>4, <1>5
    <3>3. QED
      BY <3>1, <3>2
  <2>2. ASSUME NEW i \in 1..Len(U)
        PROVE  \E a \in 1..Len(r) : \E b \in 1..Len(r[a]) : U[i].part = r[a][b]
    <3>1. PICK a \in 1..Len(s) : \E b \in 1..Len(s[a]) : U[i].part = s[a][b]
      BY <1>6
    <3>2. U[i].part.packet = p + a
      BY <1>1, <3>1 DEF OfPackets
    <3>3. a - 1 \in 1..Len(r) /\ (a - 1) + 1 = a
      <4>1. p + a > p + 1
        BY <1>6, <3>2
      <4>2. a \in Nat /\ a > 1
        BY <1>1, <1>4, <4>1
      <4>3. QED
        BY <1>4, <1>5, <4>2
    <3>4. r[a - 1] = s[a]
      BY <1>5, <3>3
    <3>5. QED
      BY <3>1, <3>3, <3>4
  <2>3. ASSUME NEW i \in 1..Len(U), U[i].part.index = 0
        PROVE  U[i].part.packet < (p + 1) + Len(r)
    <3>1. U[i].part.packet < p + Len(s)
      BY <1>6, <2>3
    <3>2. p + Len(s) = (p + 1) + Len(r)
      BY <1>1, <1>4, <1>5
    <3>3. QED
      BY <3>1, <3>2
  <2>4. ASSUME NEW a \in 1..(Len(r) - 1)
        PROVE  \E j \in 1..Len(U) : Ends(U[j]) /\ U[j].part.packet = (p + 1) + a
    <3>1. a + 1 \in 1..(Len(s) - 1) /\ p + (a + 1) = (p + 1) + a /\ a \in Nat /\ a > 0
      BY <1>1, <1>4, <1>5
    <3>2. PICK j \in 1..Len(T) : Ends(T[j]) /\ T[j].part.packet = p + (a + 1)
      BY <1>1, <3>1 DEF OfPackets
    <3>3. j # 1
      BY <1>1, <1>2, <3>1, <3>2
    <3>4. j - 1 \in 1..Len(U) /\ U[j - 1] = T[j]
      BY <1>3, <3>3
    <3>5. QED
      BY <3>1, <3>2, <3>4
  <2>5. QED
    BY <2>1, <2>2, <2>3, <2>4 DEF OfPackets
\* a chunk of a packet that is not in C is among what follows
<1>8. ASSUME NEW a \in 1..Len(s), NEW c \in Carried(s[a]), c \notin C
      PROVE  \E j \in 1..Len(U) : U[j] = Payload(c)
  <2>1. PICK j \in 1..Len(T) : T[j] = Payload(c)
    BY <1>1, <1>8 DEF Kept
  <2>2. j # 1
    BY <1>2, <2>1 DEF Payload, Carried
  <2>3. QED
    BY <1>3, <2>1, <2>2
<1>9. ASSUME NEW a \in 1..Len(s), NEW c \in Carried(s[a])
      PROVE  c.packet = p + a
  <2>1. PICK i \in DOMAIN s[a] : c = s[a][i]
    BY DEF Carried
  <2>2. DOMAIN s[a] = 1..Len(s[a])
    BY <1>1, SentTypes
  <2>3. QED
    BY <1>1, <2>1, <2>2 DEF OfPackets
<1>10. C = Carried(s[1])
  <2>1. 1 \in 1..Len(s)
    BY <1>4
  <2>2. ASSUME NEW c \in Carried(s[1]), c \notin C PROVE FALSE
    <3>1. c.packet = p + 1
      BY <1>9, <2>1
    <3>2. PICK j \in 1..Len(U) : U[j] = Payload(c)
      BY <1>8, <2>1, <2>2
    <3>3. U[j].part.packet > p + 1 /\ U[j].part.packet \in Nat
      BY <1>6
    <3>4. QED
      BY <1>1, <3>1, <3>2, <3>3 DEF Payload
  <2>3. QED
    BY <1>1, <2>2 DEF Kept
<1>11. Kept(U, r, {})
  <2>1. ASSUME NEW a \in 1..Len(r), NEW c \in Carried(r[a])
        PROVE  \E j \in 1..Len(U) : U[j] = Payload(c)
    <3>1. a + 1 \in 1..Len(s) /\ r[a] = s[a + 1]
      BY <1>5
    <3>2. c.packet = p + (a + 1)
      BY <1>9, <3>1
    <3>3. c \notin C
      <4>1. ASSUME c \in C PROVE FALSE
        <5>1. 1 \in 1..Len(s)
          BY <1>4
        <5>2. c.packet = p + 1
          BY <1>9, <1>10, <4>1, <5>1
        <5>3. QED
          BY <1>1, <1>4, <1>5, <3>1, <3>2, <5>2
      <4>2. QED
        BY <4>1
    <3>4. QED
      BY <1>8, <3>1, <3>3
  <2>2. QED
    BY <2>1 DEF Kept
<1>12. Stream(U, NoPart, {}, r, p + 1)
  BY <1>1, <1>2, <1>3, <1>5, <1>7, <1>11 DEF Stream
<1>13. QED
  BY <1>2, <1>10, <1>12 DEF U, r

\* The server sends one more part (ServerPart); the main packet starts another packet.
LEMMA AddPart ==
    ASSUME NEW T, NEW h, NEW C, NEW s, NEW p, Stream(T, h, C, s, p),
           NEW c \in Parts, c.packet = p + Len(s),
           NEW z \in Seq(Seq(Parts)),
           Len(z) = IF c.index = 0 THEN Len(s) + 1 ELSE Len(s),
           \A a \in 1..Len(s) : z[a] = IF a = Len(s) THEN Append(s[a], c) ELSE s[a],
           c.index = 0 => z[Len(s) + 1] = <<>>
    PROVE  Stream(T \o <<Header(c), Payload(c)>>, h, C, z, p)
<1> DEFINE L == Len(T)
           n == Len(s)
           V == T \o <<Header(c), Payload(c)>>
<1>1. /\ T \in Seq(Tokens) /\ h \in Parts \cup {NoPart} /\ C \subseteq Parts
      /\ s \in Seq(Seq(Parts)) /\ s # <<>> /\ p \in Nat
      /\ Paired(T, h) /\ Ordered(T) /\ OfPackets(T, s, p) /\ Kept(T, s, C)
  BY DEF Stream
<1>2. L \in Nat /\ n \in Nat \ {0} /\ (T = <<>> <=> L = 0)
  <2>1. L \in Nat /\ n \in Nat \ {0}
    BY <1>1, EmptySeq
  <2>2. Len(<<>>) = 0
    OBVIOUS
  <2>3. QED
    BY <1>1, <2>1, <2>2, EmptySeq
<1>3. /\ V \in Seq(Tokens) /\ Len(V) = L + 2
      /\ \A i \in 1..L : V[i] = T[i]
      /\ V[L + 1] = Header(c) /\ V[L + 2] = Payload(c)
  <2>1. Header(c) \in Tokens /\ Payload(c) \in Tokens
    BY DEF Header, Payload, Tokens
  <2>2. <<Header(c), Payload(c)>> \in Seq(Tokens) /\ Len(<<Header(c), Payload(c)>>) = 2
    BY <2>1
  <2>3. QED
    BY <1>1, <1>2, <2>2, ConcatProperties
<1> HIDE DEF V
<1>4. \A i \in 1..Len(V) : i \in 1..L \/ i = L + 1 \/ i = L + 2
  BY <1>2, <1>3
<1>5. /\ Header(c).half = "header" /\ Header(c).part = c /\ ~Ends(Header(c))
      /\ Payload(c).half = "payload" /\ Payload(c).part = c
      /\ c.packet \in Nat /\ c # NoPart
  BY TransportAssumption DEF Header, Payload, Ends, Parts, NoPart
\* the parts sent before
<1>6. ASSUME NEW i \in 1..L
      PROVE  /\ \E a \in 1..n : \E b \in 1..Len(s[a]) : T[i].part = s[a][b]
             /\ T[i].part.packet \in Nat /\ T[i].part.packet <= c.packet
             /\ Ends(T[i]) => T[i].part.packet < c.packet
  <2>1. PICK a \in 1..n : \E b \in 1..Len(s[a]) : T[i].part = s[a][b]
    BY <1>1 DEF OfPackets
  <2>2. T[i].part.packet = p + a
    BY <1>1, <2>1 DEF OfPackets
  <2>3. T[i].part.packet \in Nat /\ T[i].part.packet <= c.packet
    <3>1. a \in Nat /\ a <= n /\ p \in Nat /\ n \in Nat
      BY <1>1, <1>2
    <3>2. p + a \in Nat /\ p + a <= p + n
      BY <3>1
    <3>3. QED
      BY <2>2, <3>2
  <2>4. Ends(T[i]) => T[i].part.packet < c.packet
    BY <1>1 DEF OfPackets, Ends
  <2>5. QED
    BY <2>1, <2>3, <2>4
<1>7. Ordered(V)
  <2>1. ASSUME NEW i \in 1..Len(V), NEW j \in 1..Len(V), i < j
        PROVE  /\ V[i].part.packet <= V[j].part.packet
               /\ Ends(V[i]) => V[i].part.packet < V[j].part.packet
    <3>1. CASE j \in 1..L
      <4>1. i \in 1..L
        BY <1>2, <2>1, <3>1
      <4>2. V[i] = T[i] /\ V[j] = T[j]
        BY <1>3, <3>1, <4>1
      <4>3. QED
        BY <1>1, <2>1, <3>1, <4>1, <4>2 DEF Ordered
    <3>2. CASE i \in 1..L /\ j \notin 1..L
      <4>1. V[j].part = c /\ V[i] = T[i]
        BY <1>3, <1>4, <1>5, <3>2
      <4>2. QED
        BY <1>6, <3>2, <4>1
    <3>3. CASE i \notin 1..L
      <4>1. i = L + 1 /\ j = L + 2
        <5>1. i = L + 1 \/ i = L + 2
          BY <1>4, <3>3
        <5>2. j \in 1..(L + 2) /\ i < j
          BY <1>3, <2>1
        <5>3. QED
          BY <1>2, <5>1, <5>2
      <4>2. QED
        BY <1>3, <1>5, <4>1
    <3>4. QED
      BY <3>1, <3>2, <3>3
  <2>2. QED
    BY <2>1 DEF Ordered
<1>8. Paired(V, h)
  <2>1. V # <<>> /\ V[Len(V)].half = "payload"
    <3>1. Len(V) # 0 /\ Len(<<>>) = 0
      BY <1>2, <1>3
    <3>2. QED
      BY <1>3, <1>5, <3>1
  <2>2. CASE L = 0
    <3>1. h = NoPart
      BY <1>1, <1>2, <2>2 DEF Paired
    <3>2. V[1].half = "header"
      BY <1>3, <1>5, <2>2
    <3>3. ASSUME NEW i \in 1..(Len(V) - 1)
          PROVE  IF V[i].half = "header" THEN V[i + 1] = Payload(V[i].part)
                 ELSE V[i + 1].half = "header"
      <4>1. i = 1 /\ V[1] = Header(c) /\ V[1 + 1] = Payload(c)
        BY <1>3, <2>2
      <4>2. QED
        BY <1>5, <4>1
    <3>4. QED
      BY <2>1, <3>1, <3>2, <3>3 DEF Paired
  <2>3. CASE L # 0
    <3>1. V[1] = T[1] /\ T # <<>> /\ L \in 1..L
      BY <1>2, <1>3, <2>3
    <3>2. ASSUME NEW i \in 1..(Len(V) - 1)
          PROVE  IF V[i].half = "header" THEN V[i + 1] = Payload(V[i].part)
                 ELSE V[i + 1].half = "header"
      <4>1. CASE i \in 1..(L - 1)
        <5>1. i \in 1..L /\ i + 1 \in 1..L
          BY <1>2, <4>1
        <5>2. V[i] = T[i] /\ V[i + 1] = T[i + 1]
          BY <1>3, <5>1
        <5>3. QED
          BY <1>1, <4>1, <5>2 DEF Paired
      <4>2. CASE i = L
        <5>1. V[i] = T[L] /\ V[i + 1] = Header(c)
          BY <1>3, <3>1, <4>2
        <5>2. T[L].half = "payload"
          BY <1>1, <3>1 DEF Paired
        <5>3. QED
          BY <1>5, <5>1, <5>2
      <4>3. CASE i = L + 1
        <5>1. V[i] = Header(c) /\ V[i + 1] = Payload(c)
          BY <1>2, <1>3, <4>3
        <5>2. QED
          BY <1>5, <5>1
      <4>4. QED
        BY <1>2, <1>3, <4>1, <4>2, <4>3
    <3>3. QED
      BY <1>1, <2>1, <3>1, <3>2 DEF Paired
  <2>4. QED
    BY <2>2, <2>3
\* what was sent is still there
<1>9. /\ Len(z) \in Nat /\ Len(z) >= n
      /\ \A a \in 1..n : /\ a \in 1..Len(z) /\ Len(s[a]) \in Nat /\ s[a] \in Seq(Parts)
                         /\ Len(z[a]) = IF a = n THEN Len(s[a]) + 1 ELSE Len(s[a])
                         /\ \A b \in 1..Len(s[a]) : z[a][b] = s[a][b]
      /\ Len(s[n]) + 1 \in 1..Len(z[n]) /\ z[n][Len(s[n]) + 1] = c
      /\ \A a \in 1..Len(z) : a \notin 1..n => a = n + 1 /\ c.index = 0 /\ Len(z[a]) = 0
  <2>1. Len(z) \in Nat /\ Len(z) >= n
    BY <1>2
  <2>2. ASSUME NEW a \in 1..n
        PROVE  /\ a \in 1..Len(z) /\ Len(s[a]) \in Nat /\ s[a] \in Seq(Parts)
               /\ Len(z[a]) = IF a = n THEN Len(s[a]) + 1 ELSE Len(s[a])
               /\ \A b \in 1..Len(s[a]) : z[a][b] = s[a][b]
    <3>1. a \in 1..Len(z) /\ Len(s[a]) \in Nat /\ s[a] \in Seq(Parts)
      BY <1>1, <1>2, <2>1, SentTypes
    <3>2. CASE a = n
      <4>1. z[a] = Append(s[a], c)
        BY <3>2
      <4>2. QED
        BY <3>1, <3>2, <4>1, AppendProperties
    <3>3. CASE a # n
      BY <3>1, <3>3
    <3>4. QED
      BY <3>1, <3>2, <3>3
  <2>3. n \in 1..n
    BY <1>2
  <2>4. z[n] = Append(s[n], c) /\ s[n] \in Seq(Parts)
    BY <2>2, <2>3
  <2>5. Len(s[n]) + 1 \in 1..Len(z[n]) /\ z[n][Len(s[n]) + 1] = c
    BY <2>2, <2>3, <2>4, AppendProperties
  <2>6. ASSUME NEW a \in 1..Len(z), a \notin 1..n
        PROVE  a = n + 1 /\ c.index = 0 /\ Len(z[a]) = 0
    <3>1. a = n + 1 /\ c.index = 0
      BY <1>2, <2>1, <2>6
    <3>2. z[a] = <<>> /\ Len(<<>>) = 0
      BY <3>1
    <3>3. QED
      BY <3>1, <3>2
  <2>7. QED
    BY <2>1, <2>2, <2>5, <2>6
<1>10. ASSUME NEW a \in 1..Len(z), NEW b \in 1..Len(z[a])
       PROVE  /\ a \in 1..n /\ z[a][b].packet = p + a
              /\ b \in 1..Len(s[a]) \/ z[a][b] = c
  <2>1. a \in 1..n
    BY <1>9
  <2>2. CASE b \in 1..Len(s[a])
    <3>1. \A e \in 1..Len(s[a]) : z[a][e] = s[a][e]
      BY <1>9, <2>1
    <3>2. a \in 1..Len(s) /\ OfPackets(T, s, p)
      BY <1>1, <2>1
    <3>3. s[a][b].packet = p + a
      BY <2>2, <3>2 DEF OfPackets
    <3>4. QED
      BY <2>1, <2>2, <3>1, <3>3
  <2>3. CASE b \notin 1..Len(s[a])
    <3>1. a = n /\ b = Len(s[a]) + 1
      BY <1>9, <2>1, <2>3, SMTT(30)
    <3>2. QED
      BY <1>9, <2>1, <3>1
  <2>4. QED
    BY <2>1, <2>2, <2>3
<1>11. OfPackets(V, z, p)
  <2>1. ASSUME NEW i \in 1..Len(V)
        PROVE  \E a \in 1..Len(z) : \E b \in 1..Len(z[a]) : V[i].part = z[a][b]
    <3>1. CASE i \in 1..L
      <4>1. PICK a \in 1..n : \E b \in 1..Len(s[a]) : T[i].part = s[a][b]
        BY <1>6, <3>1
      <4>2. PICK b \in 1..Len(s[a]) : T[i].part = s[a][b]
        BY <4>1
      <4>3. a \in 1..Len(z) /\ b \in 1..Len(z[a]) /\ z[a][b] = s[a][b]
        <5>1. /\ a \in 1..Len(z) /\ Len(s[a]) \in Nat /\ z[a][b] = s[a][b]
              /\ Len(z[a]) = IF a = n THEN Len(s[a]) + 1 ELSE Len(s[a])
          BY <1>9
        <5>2. QED
          BY <5>1
      <4>4. V[i] = T[i]
        BY <1>3, <3>1
      <4>5. QED
        BY <4>2, <4>3, <4>4
    <3>2. CASE i \notin 1..L
      <4>1. V[i].part = c
        BY <1>3, <1>4, <1>5, <3>2
      <4>2. n \in 1..Len(z)
        BY <1>2, <1>9
      <4>3. QED
        BY <1>9, <4>1, <4>2
    <3>3. QED
      BY <3>1, <3>2
  <2>2. ASSUME NEW i \in 1..Len(V), V[i].part.index = 0
        PROVE  V[i].part.packet < p + Len(z)
    <3>1. CASE i \in 1..L
      <4>1. T[i].part.packet < p + n /\ T[i].part.packet \in Nat /\ V[i] = T[i]
        BY <1>1, <1>3, <1>6, <2>2, <3>1 DEF OfPackets
      <4>2. p + n <= p + Len(z)
        BY <1>1, <1>2, <1>9, SMTT(30)
      <4>3. p + n \in Nat /\ p + Len(z) \in Nat
        BY <1>1, <1>2, <1>9
      <4>4. QED
        BY <4>1, <4>2, <4>3
    <3>2. CASE i \notin 1..L
      <4>1. V[i].part = c
        BY <1>3, <1>4, <1>5, <3>2
      <4>2. Len(z) = n + 1
        BY <2>2, <4>1
      <4>3. QED
        BY <1>1, <1>2, <4>1, <4>2
    <3>3. QED
      BY <3>1, <3>2
  <2>3. ASSUME NEW a \in 1..(Len(z) - 1)
        PROVE  \E j \in 1..Len(V) : Ends(V[j]) /\ V[j].part.packet = p + a
    <3>1. CASE a \in 1..(n - 1)
      <4>1. PICK j \in 1..L : Ends(T[j]) /\ T[j].part.packet = p + a
        BY <1>1, <3>1 DEF OfPackets
      <4>2. V[j] = T[j]
        BY <1>3
      <4>3. j \in 1..Len(V)
        BY <1>2, <1>3
      <4>4. QED
        BY <4>1, <4>2, <4>3
    <3>2. CASE a \notin 1..(n - 1)
      <4>1. a = n /\ c.index = 0
        BY <1>2, <1>9, <2>3, <3>2
      <4>2. L + 2 \in 1..Len(V) /\ V[L + 2] = Payload(c)
        BY <1>2, <1>3
      <4>3. Ends(Payload(c))
        BY <1>5, <4>1 DEF Ends
      <4>4. QED
        BY <1>5, <4>1, <4>2, <4>3
    <3>3. QED
      BY <3>1, <3>2
  <2>4. QED
    BY <1>10, <2>1, <2>2, <2>3 DEF OfPackets
<1>12. Kept(V, z, C)
  <2>1. \A a \in 1..Len(z) : DOMAIN z[a] = 1..Len(z[a])
    BY SentTypes
  <2>2. C \subseteq Carried(z[1])
    <3>1. ASSUME NEW d \in C PROVE d \in Carried(z[1])
      <4>1. d \in Carried(s[1])
        BY <1>1 DEF Kept
      <4>2. 1 \in 1..n /\ DOMAIN s[1] = 1..Len(s[1])
        BY <1>1, <1>2, SentTypes
      <4>3. PICK b \in 1..Len(s[1]) : d = s[1][b]
        BY <4>1, <4>2 DEF Carried
      <4>4. b \in 1..Len(z[1]) /\ z[1][b] = d
        BY <1>9, <4>2, <4>3
      <4>5. b \in DOMAIN z[1]
        BY <1>9, <2>1, <4>2, <4>4
      <4>6. QED
        BY <4>1, <4>4, <4>5 DEF Carried
    <3>2. QED
      BY <3>1
  <2>3. ASSUME NEW a \in 1..Len(z), NEW d \in Carried(z[a])
        PROVE  d \in C \/ \E j \in 1..Len(V) : V[j] = Payload(d)
    <3>1. PICK b \in 1..Len(z[a]) : d = z[a][b]
      BY <2>1 DEF Carried
    <3>2. CASE b \in 1..Len(s[a])
      <4>1. a \in 1..n /\ DOMAIN s[a] = 1..Len(s[a])
        BY <1>1, <1>10, SentTypes
      <4>2. d = s[a][b]
        BY <1>9, <3>1, <3>2, <4>1
      <4>3. d \in Carried(s[a])
        BY <3>2, <4>1, <4>2 DEF Carried
      <4>4. d \in C \/ \E j \in 1..L : T[j] = Payload(d)
        BY <1>1, <4>1, <4>3 DEF Kept
      <4>5. \A j \in 1..L : j \in 1..Len(V) /\ V[j] = T[j]
        BY <1>2, <1>3
      <4>6. QED
        BY <4>4, <4>5
    <3>3. CASE d = c
      <4>1. L + 2 \in 1..Len(V) /\ V[L + 2] = Payload(c)
        BY <1>2, <1>3
      <4>2. QED
        BY <3>3, <4>1
    <3>4. QED
      BY <1>10, <3>1, <3>2, <3>3
  <2>4. QED
    BY <2>2, <2>3 DEF Kept
<1>13. z # <<>>
  <2>1. Len(z) # 0 /\ Len(<<>>) = 0
    BY <1>2, <1>9
  <2>2. QED
    BY <2>1
<1>14. QED
  BY <1>1, <1>3, <1>7, <1>8, <1>11, <1>12, <1>13 DEF Stream, V

-----------------------------------------------------------------------------
(* The flow: the same however the stream is cut *)

\* the data frame on its way, if one is: it comes before the control frames
Data == IF inbound # <<>> /\ Head(inbound).op = "data" THEN Head(inbound).tokens ELSE <<>>
Flow == reader.buf \o (reader.message \o (Data \o unsent))

OneData ==
    /\ \A i \in 2..Len(inbound) : inbound[i].op # "data"
    /\ inbound # <<>> /\ Head(inbound).op = "data" => reader.buf = <<>>

StreamInv ==
    /\ TypeOK /\ OneData
    /\ Stream(Flow, reader.header, reader.chunks, sent, posted)

\* What the flow is made of.
LEMMA FlowTypes ==
    ASSUME TypeOK
    PROVE  /\ reader.buf \in Seq(Tokens) /\ reader.message \in Seq(Tokens)
           /\ Data \in Seq(Tokens) /\ unsent \in Seq(Tokens)
           /\ Data \o unsent \in Seq(Tokens)
           /\ reader.message \o (Data \o unsent) \in Seq(Tokens)
           /\ Flow \in Seq(Tokens)
<1>1. reader.buf \in Seq(Tokens) /\ reader.message \in Seq(Tokens) /\ unsent \in Seq(Tokens)
  BY DEF TypeOK
<1>2. Data \in Seq(Tokens)
  <2>1. CASE inbound # <<>> /\ Head(inbound).op = "data"
    <3>1. inbound \in Seq(Frames)
      BY DEF TypeOK
    <3>2. Head(inbound) \in Frames
      BY <2>1, <3>1, HeadTailProperties
    <3>3. Head(inbound).tokens \in Seq(Tokens)
      BY <3>2 DEF Frames
    <3>4. QED
      BY <2>1, <3>3 DEF Data
  <2>2. CASE ~(inbound # <<>> /\ Head(inbound).op = "data")
    BY <2>2 DEF Data
  <2>3. QED
    BY <2>1, <2>2
<1>3. Data \o unsent \in Seq(Tokens)
  BY <1>1, <1>2, ConcatProperties
<1>4. reader.message \o (Data \o unsent) \in Seq(Tokens)
  BY <1>1, <1>3, ConcatProperties
<1>5. Flow \in Seq(Tokens)
  BY <1>1, <1>4, ConcatProperties DEF Flow
<1>6. QED
  BY <1>1, <1>2, <1>3, <1>4, <1>5

\* The head of the buffer is the head of the flow.
LEMMA HeadOfFlow ==
    ASSUME NEW b \in Seq(Tokens), b # <<>>, NEW r \in Seq(Tokens)
    PROVE  b \o r # <<>> /\ (b \o r)[1] = Head(b) /\ Tail(b \o r) = Tail(b) \o r
<1>1. Len(b) \in Nat \ {0} /\ Len(r) \in Nat /\ Tail(b) \in Seq(Tokens)
      /\ Len(Tail(b)) = Len(b) - 1
  BY EmptySeq, HeadTailProperties
<1>2. b \o r \in Seq(Tokens) /\ Len(b \o r) = Len(b) + Len(r)
  BY ConcatProperties
<1>3. b \o r # <<>>
  <2>1. Len(b \o r) # 0 /\ Len(<<>>) = 0
    BY <1>1, <1>2
  <2>2. QED
    BY <2>1
<1>4. (b \o r)[1] = Head(b)
  BY <1>1, ConcatProperties
<1>5. Tail(b \o r) = Tail(b) \o r
  <2>1. /\ Tail(b \o r) \in Seq(Tokens) /\ Len(Tail(b \o r)) = Len(b \o r) - 1
        /\ \A i \in 1..Len(Tail(b \o r)) : Tail(b \o r)[i] = (b \o r)[i + 1]
    BY <1>2, <1>3, HeadTailProperties
  <2>2. /\ Tail(b) \o r \in Seq(Tokens) /\ Len(Tail(b) \o r) = Len(Tail(b)) + Len(r)
        /\ \A i \in 1..(Len(Tail(b)) + Len(r)) :
             (Tail(b) \o r)[i] = IF i <= Len(Tail(b)) THEN Tail(b)[i] ELSE r[i - Len(Tail(b))]
    BY <1>1, ConcatProperties
  <2>3. Len(Tail(b \o r)) = Len(Tail(b) \o r)
    BY <1>1, <1>2, <2>1, <2>2
  <2>4. ASSUME NEW i \in 1..Len(Tail(b \o r))
        PROVE  Tail(b \o r)[i] = (Tail(b) \o r)[i]
    <3>1. i + 1 \in 1..(Len(b) + Len(r)) /\ i \in 1..(Len(Tail(b)) + Len(r))
      BY <1>1, <1>2, <2>1, <2>2, <2>3
    <3>2. (b \o r)[i + 1] = IF i + 1 <= Len(b) THEN b[i + 1] ELSE r[(i + 1) - Len(b)]
      BY <3>1, ConcatProperties
    <3>3. CASE i + 1 <= Len(b)
      <4>1. i \in 1..Len(Tail(b)) /\ i <= Len(Tail(b))
        BY <1>1, <3>1, <3>3
      <4>2. Tail(b)[i] = b[i + 1]
        BY <4>1, HeadTailProperties
      <4>3. QED
        BY <2>1, <2>2, <3>1, <3>2, <3>3, <4>1, <4>2
    <3>4. CASE ~(i + 1 <= Len(b))
      <4>1. ~(i <= Len(Tail(b))) /\ (i + 1) - Len(b) = i - Len(Tail(b))
        BY <1>1, <3>1, <3>4
      <4>2. QED
        BY <2>1, <2>2, <3>1, <3>2, <3>4, <4>1
    <3>5. QED
      BY <3>3, <3>4
  <2>5. QED
    BY <2>1, <2>2, <2>3, <2>4, SeqEqual
<1>6. QED
  BY <1>3, <1>4, <1>5

\* A frame on its way and the message it continues can be taken together.
LEMMA Regrouped ==
    ASSUME NEW m \in Seq(Tokens), NEW d \in Seq(Tokens), NEW u \in Seq(Tokens)
    PROVE  m \o (d \o u) = (m \o d) \o u
  BY ConcatAssociative, SMTT(30)

\* The next frame is taken off what is under way.
LEMMA FrameTaken ==
    ASSUME TypeOK, OneData, NEW op \in {"data", "ping", "pong", "close"}, Receives(op)
    PROVE  /\ inbound' \in Seq(Frames) /\ Head(inbound) \in Frames
           /\ Head(inbound).tokens \in Seq(Tokens)
           /\ \A i \in 1..Len(inbound') : inbound'[i].op # "data"
           /\ Data' = <<>>
           /\ Data = IF op = "data" THEN Head(inbound).tokens ELSE <<>>
<1>1. inbound \in Seq(Frames) /\ inbound # <<>> /\ Head(inbound).op = op /\ inbound' = Tail(inbound)
  BY DEF TypeOK, Receives
<1>2. /\ Head(inbound) \in Frames /\ Tail(inbound) \in Seq(Frames)
      /\ Len(Tail(inbound)) = Len(inbound) - 1 /\ Len(inbound) \in Nat
      /\ \A i \in 1..Len(Tail(inbound)) : Tail(inbound)[i] = inbound[i + 1]
  BY <1>1, HeadTailProperties
<1>3. ASSUME NEW i \in 1..Len(inbound')
      PROVE  inbound'[i].op # "data"
  <2>1. i + 1 \in 2..Len(inbound)
    BY <1>1, <1>2
  <2>2. QED
    BY <1>1, <1>2, <2>1 DEF OneData
<1>4. Data' = <<>>
  <2>1. ASSUME inbound' # <<>> PROVE Head(inbound').op # "data"
    <3>1. 1 \in 1..Len(inbound') /\ Head(inbound') = inbound'[1]
      BY <1>1, <1>2, <2>1, EmptySeq
    <3>2. QED
      BY <1>3, <3>1
  <2>2. QED
    BY <2>1 DEF Data
<1>5. QED
  BY <1>1, <1>2, <1>3, <1>4 DEF Frames, Data

-----------------------------------------------------------------------------
(* The steps *)

ReaderType ==
    [state : {"reading", "closed", "refused"}, buf : Seq(Tokens), message : Seq(Tokens),
     header : Parts \cup {NoPart}, chunks : SUBSET Parts,
     received : 0..(MaxChunks - 1), pong : 0..Pieces]

\* The stream as the reader has it, with nothing read or sent.
LEMMA FlowSame ==
    ASSUME StreamInv, TypeOK', OneData', Flow' = Flow, reader'.header = reader.header,
           reader'.chunks = reader.chunks, UNCHANGED <<sent, posted>>
    PROVE  StreamInv'
  BY DEF StreamInv

\* A step that touches neither what is under way nor what the reader has.
LEMMA FlowUntouched ==
    ASSUME StreamInv, TypeOK', UNCHANGED <<inbound, unsent, sent, posted>>,
           reader'.buf = reader.buf, reader'.message = reader.message,
           reader'.header = reader.header, reader'.chunks = reader.chunks
    PROVE  StreamInv'
<1>1. Flow' = Flow
  BY DEF Flow, Data
<1>2. OneData'
  BY DEF StreamInv, OneData
<1>3. QED
  BY <1>1, <1>2, FlowSame

\* Writing, on either thread, leaves what is read alone (write_frame, write_packet).
LEMMA WriteStream ==
    ASSUME StreamInv, WritePacket \/ WritePiece \/ WritePong \/ ServerReads
    PROVE  StreamInv'
<1>1. TypeOK
  BY DEF StreamInv
<1>2. reader \in ReaderType
  BY <1>1 DEF TypeOK, ReaderType
<1>3. CASE WritePacket
  <2>1. TypeOK'
    <3>1. left' \in 0..Pieces
      BY <1>3, TransportAssumption DEF WritePacket
    <3>2. budget' \in [chunks : 0..MaxSent, pings : 0..MaxPings, writes : 0..MaxWrites]
      <4>1. budget.writes - 1 \in 0..MaxWrites
        <5>1. budget.writes \in 0..MaxWrites
          BY <1>1 DEF TypeOK
        <5>2. budget.writes > 0
          BY <1>3 DEF WritePacket
        <5>3. QED
          BY <5>1, <5>2, TransportAssumption
      <4>2. QED
        BY <1>1, <1>3, <4>1 DEF WritePacket, TypeOK
    <3>3. QED
      BY <1>1, <1>3, <3>1, <3>2 DEF WritePacket, TypeOK
  <2>2. QED
    BY <1>3, <2>1, FlowUntouched DEF WritePacket
\* a piece put on the wire
<1>4. ASSUME NEW w \in {"ui", "reader"}, NEW rest, Put(w, rest)
      PROVE  /\ wire' \in [unread : 0..SendBuffer, open : {"none", "ui", "reader"},
                           cut : BOOLEAN]
             /\ lock' \in {"none", "ui", "reader"}
  <2>1. /\ wire.unread + 1 \in 0..SendBuffer /\ wire.cut \in BOOLEAN
        /\ lock \in {"none", "ui", "reader"}
    BY <1>1, <1>4, TransportAssumption, SMTT(30) DEF Put, TypeOK
  <2>2. (wire.cut \/ wire.open \notin {"none", w}) \in BOOLEAN
    BY <2>1
  <2>3. wire' \in [unread : 0..SendBuffer, open : {"none", "ui", "reader"}, cut : BOOLEAN]
    BY <1>4, <2>1, <2>2 DEF Put
  <2>4. lock' \in {"none", "ui", "reader"}
    BY <1>4, <2>1 DEF Put
  <2>5. QED
    BY <2>3, <2>4
<1>5. CASE WritePiece
  <2>1. left' \in 0..Pieces
    BY <1>1, <1>5, TransportAssumption DEF WritePiece, TypeOK
  <2>2. TypeOK'
    BY <1>1, <1>4, <1>5, <2>1 DEF WritePiece, TypeOK
  <2>3. QED
    BY <1>5, <2>2, FlowUntouched DEF WritePiece
<1>6. CASE WritePong
  <2>1. reader.pong - 1 \in 0..Pieces
    BY <1>2, <1>6, TransportAssumption DEF WritePong, ReaderType
  <2>2. /\ reader' \in ReaderType
        /\ reader'.buf = reader.buf /\ reader'.message = reader.message
        /\ reader'.header = reader.header /\ reader'.chunks = reader.chunks
    BY <1>2, <1>6, <2>1 DEF WritePong, ReaderType
  <2>3. TypeOK'
    BY <1>1, <1>4, <1>6, <2>2 DEF WritePong, TypeOK, ReaderType
  <2>4. QED
    BY <1>6, <2>2, <2>3, FlowUntouched DEF WritePong
<1>7. CASE ServerReads
  <2>1. wire' \in [unread : 0..SendBuffer, open : {"none", "ui", "reader"}, cut : BOOLEAN]
    <3>1. wire.unread - 1 \in 0..SendBuffer
      <4>1. wire.unread \in 0..SendBuffer
        BY <1>1 DEF TypeOK
      <4>2. wire.unread > 0
        BY <1>7 DEF ServerReads
      <4>3. QED
        BY <4>1, <4>2, TransportAssumption
    <3>2. QED
      BY <1>1, <1>7, <3>1 DEF ServerReads, TypeOK
  <2>2. TypeOK'
    BY <1>1, <1>7, <2>1 DEF ServerReads, ServerOnly, TypeOK
  <2>3. QED
    BY <1>7, <2>2, FlowUntouched DEF ServerReads, ServerOnly
<1>8. QED
  BY <1>3, <1>5, <1>6, <1>7

\* Reading a frame moves its tokens on (fill_buffer); control frames carry none.
LEMMA ReceiveStream ==
    ASSUME StreamInv, FillBuffer \/ ReceivePing \/ ReceivePong \/ ReceiveClose
    PROVE  StreamInv'
<1>1. TypeOK /\ OneData
  BY DEF StreamInv
<1>2. reader \in ReaderType
  BY <1>1 DEF TypeOK, ReaderType
<1>3. PICK op \in {"data", "ping", "pong", "close"} : Receives(op)
  BY DEF FillBuffer, ReceivePing, ReceivePong, ReceiveClose
<1>4. /\ inbound' \in Seq(Frames) /\ Head(inbound).tokens \in Seq(Tokens)
      /\ \A i \in 1..Len(inbound') : inbound'[i].op # "data"
      /\ Data' = <<>> /\ Data = IF op = "data" THEN Head(inbound).tokens ELSE <<>>
  BY <1>1, <1>3, FrameTaken
<1>5. /\ Head(inbound).op = op /\ reader.buf = <<>>
      /\ UNCHANGED <<transport, posted, left, wire, lock, unsent, sent, budget>>
  BY <1>3 DEF Receives, Free
<1>6. /\ reader.buf \in Seq(Tokens) /\ reader.message \in Seq(Tokens)
      /\ unsent \in Seq(Tokens) /\ reader.message \o (Data \o unsent) \in Seq(Tokens)
      /\ <<>> \in Seq(Tokens)
  BY <1>1, FlowTypes
<1>7. OneData'
  <2>1. inbound' # <<>> => Head(inbound').op # "data"
    <3>1. SUFFICES ASSUME inbound' # <<>> PROVE Head(inbound').op # "data"
      OBVIOUS
    <3>2. 1 \in 1..Len(inbound') /\ Head(inbound') = inbound'[1]
      BY <1>4, <3>1, EmptySeq
    <3>3. QED
      BY <1>4, <3>2
  <2>2. \A i \in 2..Len(inbound') : i \in 1..Len(inbound')
    BY <1>4
  <2>3. QED
    BY <1>4, <2>1, <2>2 DEF OneData
<1>8. CASE FillBuffer
  <2> DEFINE m == reader.message \o Head(inbound).tokens
  <2>1. op = "data"
    BY <1>5, <1>8 DEF FillBuffer, Receives
  <2>2. m \in Seq(Tokens)
    BY <1>4, <1>6, ConcatProperties
  <2>3. \/ reader' = [reader EXCEPT !.message = m]
        \/ reader' = [reader EXCEPT !.message = <<>>, !.buf = m]
    BY <1>8 DEF FillBuffer
  <2> HIDE DEF m
  <2>4. /\ reader' \in ReaderType /\ reader'.header = reader.header
        /\ reader'.chunks = reader.chunks
        /\ \/ reader'.message = m /\ reader'.buf = <<>>
           \/ reader'.message = <<>> /\ reader'.buf = m
    BY <1>2, <1>5, <1>6, <2>2, <2>3 DEF ReaderType
  <2>5. TypeOK'
    BY <1>1, <1>4, <1>5, <2>4 DEF TypeOK, ReaderType
  <2>6. Flow' = Flow
    <3>1. Flow = m \o unsent
      <4>1. Flow = reader.message \o (Head(inbound).tokens \o unsent)
        BY <1>4, <1>5, <1>6, <2>1, ConcatEmptySeq DEF Flow
      <4>2. reader.message \in Seq(Tokens) /\ unsent \in Seq(Tokens)
        BY <1>6
      <4>3. Head(inbound).tokens \in Seq(Tokens)
        BY <1>4
      <4>4. reader.message \o (Head(inbound).tokens \o unsent)
            = (reader.message \o Head(inbound).tokens) \o unsent
        BY <4>2, <4>3, Regrouped, Zenon
      <4>5. QED
        BY <4>1, <4>4 DEF m
    <3>2. Flow' = m \o unsent
      <4>1. <<>> \o unsent = unsent /\ m \o unsent \in Seq(Tokens)
        BY <1>6, <2>2, ConcatEmptySeq, ConcatProperties
      <4>2. <<>> \o (m \o unsent) = m \o unsent
        BY <4>1, ConcatEmptySeq
      <4>3. Flow' = reader'.buf \o (reader'.message \o (<<>> \o unsent))
        BY <1>4, <1>5 DEF Flow
      <4>4. QED
        BY <2>4, <4>1, <4>2, <4>3
    <3>3. QED
      BY <3>1, <3>2
  <2>7. QED
    BY <1>5, <1>7, <2>4, <2>5, <2>6, FlowSame
<1>9. CASE ReceivePing \/ ReceivePong \/ ReceiveClose
  <2>1. op # "data"
    BY <1>5, <1>9 DEF ReceivePing, ReceivePong, ReceiveClose, Receives
  <2>2. /\ reader' \in ReaderType /\ reader'.buf = reader.buf
        /\ reader'.message = reader.message
        /\ reader'.header = reader.header /\ reader'.chunks = reader.chunks
    <3>1. CASE ReceivePing
      <4>1. Pieces \in 0..Pieces
        BY TransportAssumption
      <4>2. QED
        BY <1>2, <3>1, <4>1 DEF ReceivePing, ReaderType
    <3>2. CASE ReceivePong
      BY <1>2, <3>2 DEF ReceivePong
    <3>3. CASE ReceiveClose
      BY <1>2, <3>3 DEF ReceiveClose, ReaderType
    <3>4. QED
      BY <1>9, <3>1, <3>2, <3>3
  <2>3. TypeOK'
    BY <1>1, <1>4, <1>5, <2>2 DEF TypeOK, ReaderType
  <2>4. Flow' = Flow
    BY <1>4, <1>5, <2>1, <2>2 DEF Flow
  <2>5. QED
    BY <1>5, <1>7, <2>2, <2>3, <2>4, FlowSame
<1>10. QED
  BY <1>8, <1>9

\* Reading takes the head of the flow (read_packet).
LEMMA FlowTail ==
    ASSUME StreamInv, reader.buf # <<>>, reader'.buf = Tail(reader.buf),
           reader'.message = reader.message, UNCHANGED <<inbound, unsent>>
    PROVE  /\ Flow # <<>> /\ Flow[1] = Head(reader.buf) /\ Flow' = Tail(Flow)
           /\ Head(reader.buf) \in Tokens /\ Tail(reader.buf) \in Seq(Tokens)
           /\ OneData'
<1>1. /\ reader.buf \in Seq(Tokens)
      /\ reader.message \o (Data \o unsent) \in Seq(Tokens)
  BY FlowTypes DEF StreamInv
<1>2. /\ Flow # <<>> /\ Flow[1] = Head(reader.buf)
      /\ Tail(Flow) = Tail(reader.buf) \o (reader.message \o (Data \o unsent))
  BY <1>1, HeadOfFlow DEF Flow
<1>3. Flow' = Tail(Flow)
  BY <1>2 DEF Flow, Data
<1>4. OneData'
  BY DEF StreamInv, OneData
<1>5. QED
  BY <1>1, <1>2, <1>3, <1>4, HeadTailProperties

\* What the packets read and handed on leave of the stream.
LEMMA ReadStream ==
    ASSUME StreamInv, ReadHeader \/ ReadMain \/ RefuseMain \/ RefuseChunk \/ ReadChunk
    PROVE  StreamInv'
<1>1. TypeOK /\ Stream(Flow, reader.header, reader.chunks, sent, posted)
  BY DEF StreamInv
<1>2. reader \in ReaderType
  BY <1>1 DEF TypeOK, ReaderType
<1>3. ReaderOnly
  BY DEF ReadHeader, ReadMain, RefuseMain, RefuseChunk, ReadChunk, ReadPayload
<1>4. ASSUME reader' = [reader EXCEPT !.state = "refused"], UNCHANGED handed
      PROVE  StreamInv'
  <2>1. /\ reader' \in ReaderType /\ reader'.buf = reader.buf
        /\ reader'.message = reader.message
        /\ reader'.header = reader.header /\ reader'.chunks = reader.chunks
    BY <1>2, <1>4 DEF ReaderType
  <2>2. TypeOK'
    BY <1>1, <1>3, <1>4, <2>1 DEF ReaderOnly, handed, TypeOK, ReaderType
  <2>3. QED
    BY <1>3, <1>4, <2>1, <2>2, FlowUntouched DEF ReaderOnly, handed
\* what the reader takes
<1>5. ASSUME reader.buf # <<>>, NEW h \in Parts \cup {NoPart}, NEW C \in SUBSET Parts,
             NEW n \in 0..(MaxChunks - 1),
             reader' = [reader EXCEPT !.buf = Tail(@), !.header = h, !.chunks = C, !.received = n],
             posted' \in 0..MaxPackets, sent' \in Seq(Seq(Parts)),
             Stream(Tail(Flow), h, C, sent', posted')
      PROVE  StreamInv'
  <2>1. /\ reader'.buf = Tail(reader.buf) /\ reader'.message = reader.message
        /\ reader'.header = h /\ reader'.chunks = C
    BY <1>2, <1>5 DEF ReaderType
  <2>2. Flow' = Tail(Flow) /\ Tail(reader.buf) \in Seq(Tokens) /\ OneData'
    BY <1>3, <1>5, <2>1, FlowTail DEF ReaderOnly
  <2>3. reader' \in ReaderType
    BY <1>2, <1>5, <2>2 DEF ReaderType
  <2>4. TypeOK'
    BY <1>1, <1>3, <1>5, <2>3 DEF ReaderOnly, TypeOK, ReaderType
  <2>5. Stream(Flow, reader.header, reader.chunks, sent, posted)'
    BY <1>5, <2>1, <2>2
  <2>6. QED
    BY <2>2, <2>4, <2>5 DEF StreamInv
<1>6. CASE ReadHeader
  <2>1. reader.buf # <<>> /\ reader.header = NoPart /\ UNCHANGED handed
    BY <1>6 DEF ReadHeader
  <2>2. CASE Head(reader.buf).part.index >= MaxChunkIndex
    BY <1>4, <1>6, <2>1, <2>2 DEF ReadHeader
  <2>3. CASE ~(Head(reader.buf).part.index >= MaxChunkIndex)
    <3>1. reader' = [reader EXCEPT !.buf = Tail(@), !.header = Head(reader.buf).part]
      BY <1>6, <2>3 DEF ReadHeader
    <3>2. reader'.buf = Tail(reader.buf) /\ reader'.message = reader.message
      BY <1>2, <3>1 DEF ReaderType
    <3>3. Flow # <<>> /\ Flow[1] = Head(reader.buf) /\ Head(reader.buf) \in Tokens
      BY <1>3, <2>1, <3>2, FlowTail DEF ReaderOnly
    <3>4. Head(reader.buf).part \in Parts
      BY <3>3 DEF Tokens
    <3>5. Stream(Tail(Flow), Head(reader.buf).part, reader.chunks, sent, posted)
      BY <1>1, <2>1, <3>3, TakeHeader
    <3>6. reader.chunks \in SUBSET Parts /\ reader.received \in 0..(MaxChunks - 1)
      BY <1>2 DEF ReaderType
    <3>7. reader' = [reader EXCEPT !.buf = Tail(@), !.header = Head(reader.buf).part,
                                   !.chunks = reader.chunks, !.received = reader.received]
      BY <1>2, <3>1 DEF ReaderType
    <3>8. posted' \in 0..MaxPackets /\ sent' \in Seq(Seq(Parts))
          /\ sent' = sent /\ posted' = posted
      BY <1>1, <2>1 DEF handed, TypeOK
    <3>9. QED
      BY <1>5, <2>1, <3>4, <3>5, <3>6, <3>7, <3>8
  <2>4. QED
    BY <2>2, <2>3
<1>7. CASE RefuseMain \/ RefuseChunk
  BY <1>4, <1>7 DEF RefuseMain, RefuseChunk, Refuse
<1>8. CASE ReadMain
  <2>1. /\ reader.buf # <<>> /\ reader.header # NoPart /\ reader.header.index = 0
        /\ posted' = posted + 1 /\ sent' = Tail(sent)
        /\ reader' = [reader EXCEPT !.buf = Tail(@), !.header = NoPart, !.chunks = {},
                                    !.received = 0]
    BY <1>8 DEF ReadMain, ReadPayload
  <2>2. /\ reader.header.packet = posted + 1
        /\ Stream(Tail(Flow), NoPart, {}, Tail(sent), posted + 1)
    BY <1>1, <2>1, TakeMain
  <2>3. posted' \in 0..MaxPackets
    <3>1. reader.header \in Parts /\ posted \in 0..MaxPackets
      BY <1>1, <1>2, <2>1 DEF ReaderType, TypeOK
    <3>2. reader.header.packet \in 1..MaxPackets
      BY <3>1 DEF Parts
    <3>3. QED
      BY <2>1, <2>2, <3>1, <3>2, TransportAssumption
  <2>4. sent' \in Seq(Seq(Parts))
    BY <2>1, <2>2 DEF Stream
  <2>5. {} \in SUBSET Parts /\ 0 \in 0..(MaxChunks - 1) /\ NoPart \in Parts \cup {NoPart}
    BY TransportAssumption
  <2>6. QED
    BY <1>5, <2>1, <2>2, <2>3, <2>4, <2>5
<1>9. CASE ReadChunk
  <2> DEFINE C == IF reader.header.kind = "plain" THEN reader.chunks \cup {reader.header}
                  ELSE reader.chunks
  <2>1. /\ reader.buf # <<>> /\ reader.header # NoPart /\ reader.header.index # 0 /\ ~Excessive
        /\ UNCHANGED handed
        /\ reader' = [reader EXCEPT !.buf = Tail(@), !.header = NoPart,
                                    !.received = @ + 1, !.chunks = C]
    BY <1>9 DEF ReadChunk, ReadPayload
  <2>2. Stream(Tail(Flow), NoPart, C, sent, posted)
    BY <1>1, <2>1, TakeChunk
  <2>3. C \in SUBSET Parts
    BY <1>2, <2>1 DEF ReaderType
  <2>4. reader.received + 1 \in 0..(MaxChunks - 1)
    BY <1>2, <2>1, TransportAssumption DEF Excessive, ReaderType
  <2> HIDE DEF C
  <2>5. reader' = [reader EXCEPT !.buf = Tail(@), !.header = NoPart, !.chunks = C,
                                 !.received = reader.received + 1]
    BY <1>2, <2>1 DEF ReaderType
  <2>6. /\ posted' \in 0..MaxPackets /\ sent' \in Seq(Seq(Parts))
        /\ sent' = sent /\ posted' = posted /\ NoPart \in Parts \cup {NoPart}
    BY <1>1, <2>1 DEF handed, TypeOK
  <2>7. QED
    BY <1>5, <2>1, <2>2, <2>3, <2>4, <2>5, <2>6
<1>10. QED
  BY <1>6, <1>7, <1>8, <1>9

\* A part that is sent is appended to the flow (ServerPart).
LEMMA SendPart ==
    ASSUME StreamInv, NEW i \in Indexes, NEW kind \in Kinds, ServerPart(i, kind)
    PROVE  StreamInv'
<1> DEFINE n == Len(sent)
           c == [packet |-> posted + n, index |-> i, kind |-> kind]
           y == [sent EXCEPT ![n] = Append(sent[n], c)]
           tokens == <<Header(c), Payload(c)>>
<1>1. TypeOK /\ OneData /\ Stream(Flow, reader.header, reader.chunks, sent, posted)
  BY DEF StreamInv
<1>2. /\ unsent = <<>> /\ posted + n <= MaxPackets
      /\ sent' = IF i = 0 THEN Append(y, <<>>) ELSE y
      /\ unsent' = tokens
      /\ UNCHANGED <<transport, reader, posted, left, lock, inbound, wire>>
      /\ IF i = 0 THEN UNCHANGED budget
         ELSE budget.chunks > 0 /\ budget' = [budget EXCEPT !.chunks = @ - 1]
  BY DEF ServerPart, ServerOnly, Header, Payload
<1>3. /\ sent \in Seq(Seq(Parts)) /\ n \in Nat \ {0} /\ n \in 1..n /\ posted \in Nat
      /\ sent[n] \in Seq(Parts)
  <2>1. sent \in Seq(Seq(Parts)) /\ sent # <<>> /\ posted \in Nat
    BY <1>1 DEF Stream
  <2>2. n \in Nat \ {0} /\ n \in 1..n
    BY <2>1, EmptySeq
  <2>3. QED
    BY <2>1, <2>2, SentTypes
<1>4. c \in Parts /\ c.packet = posted + n /\ c.index = i
  BY <1>2, <1>3, TransportAssumption, SMTT(30) DEF Parts
<1>5. /\ y \in Seq(Seq(Parts)) /\ Len(y) = n
      /\ \A a \in 1..n : y[a] = IF a = n THEN Append(sent[a], c) ELSE sent[a]
  <2>1. Append(sent[n], c) \in Seq(Parts)
    BY <1>3, <1>4, AppendProperties
  <2>2. QED
    BY <1>3, <2>1, ExceptSeq
<1>6. tokens \in Seq(Tokens)
  BY <1>4 DEF Header, Payload, Tokens
<1> HIDE DEF c, y, tokens
<1>7. /\ sent' \in Seq(Seq(Parts))
      /\ Len(sent') = IF i = 0 THEN n + 1 ELSE n
      /\ \A a \in 1..n : sent'[a] = IF a = n THEN Append(sent[a], c) ELSE sent[a]
      /\ i = 0 => sent'[n + 1] = <<>>
  <2>1. CASE i = 0
    <3>1. sent' = Append(y, <<>>) /\ <<>> \in Seq(Parts)
      BY <1>2, <2>1
    <3>2. /\ Append(y, <<>>) \in Seq(Seq(Parts)) /\ Len(Append(y, <<>>)) = n + 1
          /\ \A a \in 1..n : Append(y, <<>>)[a] = y[a]
          /\ Append(y, <<>>)[n + 1] = <<>>
      BY <1>5, <3>1, AppendProperties
    <3>3. QED
      BY <1>5, <2>1, <3>1, <3>2
  <2>2. CASE i # 0
    BY <1>2, <1>5, <2>2
  <2>3. QED
    BY <2>1, <2>2
<1>8. Stream(Flow \o tokens, reader.header, reader.chunks, sent', posted)
  <2>1. \A z \in Seq(Seq(Parts)) :
           /\ Len(z) = IF c.index = 0 THEN Len(sent) + 1 ELSE Len(sent)
           /\ \A a \in 1..Len(sent) : z[a] = IF a = Len(sent) THEN Append(sent[a], c) ELSE sent[a]
           /\ c.index = 0 => z[Len(sent) + 1] = <<>>
           => Stream(Flow \o tokens, reader.header, reader.chunks, z, posted)
    BY <1>1, <1>4, AddPart DEF tokens
  <2>2. QED
    BY <1>4, <1>7, <2>1
<1>9. Flow' = Flow \o tokens
  <2>1. Flow' = reader.buf \o (reader.message \o (Data \o tokens))
    BY <1>2 DEF Flow, Data
  <2>2. reader.buf \in Seq(Tokens) /\ reader.message \in Seq(Tokens) /\ Data \in Seq(Tokens)
    BY <1>1, FlowTypes
  <2>3. Flow = reader.buf \o (reader.message \o Data)
    BY <1>2, <2>2, ConcatEmptySeq DEF Flow
  <2>4. reader.message \o (Data \o tokens) = (reader.message \o Data) \o tokens
    BY <1>6, <2>2, Regrouped, Zenon
  <2>5. reader.message \o Data \in Seq(Tokens)
    BY <2>2, ConcatProperties
  <2>6. reader.buf \o ((reader.message \o Data) \o tokens)
        = (reader.buf \o (reader.message \o Data)) \o tokens
    <3> DEFINE B == reader.buf
               M == reader.message \o Data
    <3>1. B \in Seq(Tokens) /\ M \in Seq(Tokens) /\ tokens \in Seq(Tokens)
      BY <1>6, <2>2, <2>5
    <3> HIDE DEF B, M
    <3>2. B \o (M \o tokens) = (B \o M) \o tokens
      BY <3>1, Regrouped, ZenonT(30)
    <3>3. QED
      BY <3>2 DEF B, M
  <2>7. QED
    BY <2>1, <2>3, <2>4, <2>6
<1>10. TypeOK'
  <2>1. budget' \in [chunks : 0..MaxSent, pings : 0..MaxPings, writes : 0..MaxWrites]
    <3>1. CASE i = 0
      BY <1>1, <1>2, <3>1 DEF TypeOK
    <3>2. CASE i # 0
      <4>1. budget.chunks \in 0..MaxSent /\ budget.chunks > 0
        BY <1>1, <1>2, <3>2 DEF TypeOK
      <4>2. budget.chunks - 1 \in 0..MaxSent
        BY <4>1, TransportAssumption
      <4>3. QED
        BY <1>1, <1>2, <3>2, <4>2 DEF TypeOK
    <3>3. QED
      BY <3>1, <3>2
  <2>2. QED
    BY <1>1, <1>2, <1>6, <1>7, <2>1 DEF TypeOK
<1>11. OneData'
  BY <1>1, <1>2 DEF OneData
<1>12. Stream(Flow, reader.header, reader.chunks, sent, posted)'
  BY <1>2, <1>8, <1>9
<1>13. QED
  BY <1>10, <1>11, <1>12 DEF StreamInv

\* Cutting what is unsent into a frame, and pings in between, leave the flow as it is.
LEMMA SendFrame ==
    ASSUME StreamInv,
           \/ \E k \in 1..2, fin \in BOOLEAN : ServerFrame(k, fin)
           \/ \E op \in {"ping", "pong", "close"} : ServerControl(op)
    PROVE  StreamInv'
<1>1. TypeOK /\ OneData
  BY DEF StreamInv
<1>2. ASSUME NEW k \in 1..2, NEW fin \in BOOLEAN, ServerFrame(k, fin)
      PROVE  StreamInv'
  <2> DEFINE first == SubSeq(unsent, 1, k)
             rest == SubSeq(unsent, k + 1, Len(unsent))
  <2>1. /\ inbound = <<>> /\ reader.buf = <<>> /\ k <= Len(unsent)
        /\ inbound' = <<[op |-> "data", fin |-> fin, tokens |-> first]>>
        /\ unsent' = rest
        /\ UNCHANGED <<transport, reader, posted, left, lock, wire, sent, budget>>
    BY <1>2 DEF ServerFrame, ServerOnly
  <2>2. unsent \in Seq(Tokens) /\ Len(unsent) \in Nat
    BY <1>1 DEF TypeOK
  <2>3. first \in Seq(Tokens) /\ rest \in Seq(Tokens) /\ first \o rest = unsent
    <3>1. \A j \in 1..Len(unsent) : unsent[j] \in Tokens
      BY <2>2, ElementOfSeq
    <3>2. first \in Seq(Tokens) /\ rest \in Seq(Tokens)
      BY <2>1, <2>2, <3>1, SubSeqProperties
    <3>3. 1 \in 1..Len(unsent) + 1 /\ k \in 1 - 1..Len(unsent) /\ Len(unsent) \in k..Len(unsent)
      BY <2>1, <2>2
    <3>4. first \o rest = SubSeq(unsent, 1, Len(unsent))
      BY <2>2, <3>3, ConcatAdjacentSubSeq
    <3>5. QED
      BY <2>2, <3>2, <3>4, SubSeqFull
  <2> HIDE DEF first, rest
  <2>4. /\ inbound' # <<>> /\ Head(inbound') = [op |-> "data", fin |-> fin, tokens |-> first]
        /\ inbound' \in Seq(Frames) /\ Len(inbound') = 1
    <3>1. [op |-> "data", fin |-> fin, tokens |-> first] \in Frames
      BY <2>3 DEF Frames
    <3>2. QED
      BY <2>1, <3>1
  <2>5. Data = <<>> /\ Data' = first
    BY <2>1, <2>4 DEF Data
  <2>6. Flow' = Flow
    <3>1. <<>> \o unsent = unsent
      BY <2>2, ConcatEmptySeq
    <3>2. QED
      BY <2>1, <2>3, <2>5, <3>1 DEF Flow
  <2>7. OneData'
    BY <2>1, <2>4 DEF OneData
  <2>8. TypeOK'
    BY <1>1, <2>1, <2>3, <2>4 DEF TypeOK
  <2>9. QED
    BY <2>1, <2>6, <2>7, <2>8, FlowSame
<1>3. ASSUME NEW op \in {"ping", "pong", "close"}, ServerControl(op)
      PROVE  StreamInv'
  <2> DEFINE f == [op |-> op, fin |-> TRUE, tokens |-> <<>>]
  <2>1. /\ inbound' = Append(inbound, f) /\ budget.pings > 0
        /\ budget' = [budget EXCEPT !.pings = @ - 1]
        /\ UNCHANGED <<transport, reader, posted, left, lock, wire, unsent, sent>>
    BY <1>3 DEF ServerControl, ServerOnly
  <2>2. inbound \in Seq(Frames) /\ f \in Frames /\ f.op # "data"
    BY <1>1 DEF TypeOK, Frames
  <2> HIDE DEF f
  <2>3. /\ inbound' \in Seq(Frames) /\ inbound' # <<>> /\ Len(inbound') = Len(inbound) + 1
        /\ Len(inbound) \in Nat
        /\ \A i \in 1..Len(inbound) : inbound'[i] = inbound[i]
        /\ inbound'[Len(inbound) + 1] = f
        /\ Head(inbound') = IF inbound = <<>> THEN f ELSE Head(inbound)
    BY <2>1, <2>2, AppendProperties, HeadTailAppend
  <2>4. Flow' = Flow
    <3>1. Data' = Data
      BY <2>2, <2>3 DEF Data
    <3>2. QED
      BY <2>1, <3>1 DEF Flow
  <2>5. OneData'
    <3>1. ASSUME NEW i \in 2..Len(inbound') PROVE inbound'[i].op # "data"
      <4>1. CASE i = Len(inbound) + 1
        BY <2>2, <2>3, <4>1
      <4>2. CASE i # Len(inbound) + 1
        <5>1. i \in 2..Len(inbound) /\ i \in 1..Len(inbound)
          BY <2>3, <3>1, <4>2
        <5>2. QED
          BY <1>1, <2>3, <5>1 DEF OneData
      <4>3. QED
        BY <4>1, <4>2
    <3>2. Head(inbound').op = "data" => reader'.buf = <<>>
      BY <1>1, <2>1, <2>2, <2>3 DEF OneData
    <3>3. QED
      BY <3>1, <3>2 DEF OneData
  <2>6. TypeOK'
    <3>1. budget.pings \in 0..MaxPings
      BY <1>1 DEF TypeOK
    <3>2. budget.pings - 1 \in 0..MaxPings
      BY <2>1, <3>1, TransportAssumption
    <3>3. budget' \in [chunks : 0..MaxSent, pings : 0..MaxPings, writes : 0..MaxWrites]
      BY <1>1, <2>1, <3>2 DEF TypeOK
    <3>4. QED
      BY <1>1, <2>1, <2>3, <3>3 DEF TypeOK
  <2>7. QED
    BY <2>1, <2>4, <2>5, <2>6, FlowSame
<1>4. QED
  BY <1>2, <1>3

-----------------------------------------------------------------------------
(* The theorems *)

\* The reader and the server start with nothing under way.
LEMMA InitStream == Init => StreamInv
<1>1. SUFFICES ASSUME Init PROVE StreamInv
  OBVIOUS
<1>2. TypeOK
  <2>1. reader \in ReaderType
    BY <1>1, TransportAssumption DEF Init, ReaderType
  <2>2. wire \in [unread : 0..SendBuffer, open : {"none", "ui", "reader"}, cut : BOOLEAN]
    BY <1>1, TransportAssumption DEF Init
  <2>3. budget \in [chunks : 0..MaxSent, pings : 0..MaxPings, writes : 0..MaxWrites]
    BY <1>1, TransportAssumption DEF Init
  <2>4. /\ inbound \in Seq(Frames) /\ unsent \in Seq(Tokens) /\ sent \in Seq(Seq(Parts))
        /\ posted \in 0..MaxPackets /\ left \in 0..Pieces
    BY <1>1, TransportAssumption DEF Init
  <2>5. QED
    BY <1>1, <2>1, <2>2, <2>3, <2>4 DEF Init, TypeOK, ReaderType
<1>3. OneData
  BY <1>1 DEF Init, OneData
<1>4. Flow = <<>>
  <2>1. reader.buf = <<>> /\ reader.message = <<>> /\ unsent = <<>> /\ Data = <<>>
    BY <1>1 DEF Init, Data
  <2>2. <<>> \in Seq(Tokens)
    OBVIOUS
  <2>3. <<>> \o <<>> = <<>>
    BY <2>2, ConcatEmptySeq
  <2>4. QED
    BY <2>1, <2>3 DEF Flow
<1>5. /\ sent = << <<>> >> /\ posted = 0 /\ reader.header = NoPart /\ reader.chunks = {}
  BY <1>1 DEF Init
<1>6. /\ sent \in Seq(Seq(Parts)) /\ Len(sent) = 1 /\ sent # <<>> /\ Len(sent[1]) = 0
      /\ DOMAIN sent[1] = {} /\ Len(<<>>) = 0
  BY <1>5
<1>7. Paired(Flow, NoPart) /\ Ordered(Flow)
  BY <1>4, <1>6 DEF Paired, Ordered
<1>8. OfPackets(Flow, sent, 0)
  BY <1>4, <1>6 DEF OfPackets
<1>9. Kept(Flow, sent, {})
  BY <1>4, <1>6 DEF Kept, Carried
<1>10. <<>> \in Seq(Tokens)
  OBVIOUS
<1>11. QED
  BY <1>2, <1>3, <1>4, <1>5, <1>6, <1>7, <1>8, <1>9, <1>10 DEF StreamInv, Stream

\* Every step of the two threads and of the server keeps the stream in order.
LEMMA NextStream == StreamInv /\ [Next]_vars => StreamInv'
<1>1. SUFFICES ASSUME StreamInv, [Next]_vars PROVE StreamInv'
  OBVIOUS
<1>2. CASE Reader
  BY <1>1, <1>2, WriteStream, ReceiveStream, ReadStream DEF Reader
<1>3. CASE WritePacket \/ WritePiece \/ ServerReads
  BY <1>1, <1>3, WriteStream
<1>4. ASSUME NEW q \in Sends, ServerPart(q[1], q[2]) PROVE StreamInv'
  <2>1. q[1] \in Indexes /\ q[2] \in Kinds
    BY TransportAssumption
  <2>2. QED
    BY <1>1, <1>4, <2>1, SendPart
<1>5. CASE \/ \E k \in 1..2, fin \in BOOLEAN : ServerFrame(k, fin)
           \/ \E op \in {"ping", "pong", "close"} : ServerControl(op)
  BY <1>1, <1>5, SendFrame
<1>6. CASE UNCHANGED vars
  <2>1. TypeOK /\ TypeOK'
    BY <1>1, <1>6 DEF StreamInv, TypeOK, vars
  <2>2. QED
    BY <1>1, <1>6, <2>1, FlowUntouched DEF vars
<1>7. QED
  BY <1>1, <1>2, <1>3, <1>4, <1>5, <1>6 DEF Next

\* The packets on their way are in order, whatever is cut, answered or refused.
LEMMA StreamCorrect == Spec => []StreamInv
  BY InitStream, NextStream, PTL DEF Spec

\* The types of the connection; that the packets handed on never exceed the packets sent is what
\* takes the order of the stream (read_packet).
THEOREM TypeCorrect == Spec => []TypeOK
<1>1. StreamInv => TypeOK
  BY DEF StreamInv
<1>2. QED
  BY <1>1, StreamCorrect, PTL

\* Packets are handed on in the order they were sent, each with all of its own chunks that can be
\* decompressed, however many parts a frame or a message holds (read_packet, fill_buffer).
THEOREM ChunksCompleteCorrect == Spec => ChunksComplete
<1> DEFINE Handed ==
        posted' # posted =>
            /\ reader.header.packet = posted'
            /\ reader.chunks = {c \in {sent[1][i] : i \in DOMAIN sent[1]} :
                                c.index # 0 /\ c.kind = "plain"}
<1>1. StreamInv /\ [Next]_vars => [Handed]_vars
  <2>1. SUFFICES ASSUME StreamInv, Next, posted' # posted PROVE Handed
    BY DEF vars
  <2>2. ReadMain
    BY <2>1 DEF Next, Reader, WritePong, FillBuffer, ReceivePing, ReceivePong, ReceiveClose,
                Receives, ReadHeader, RefuseMain, RefuseChunk, ReadChunk, handed, WritePacket,
                WritePiece, ServerReads, ServerPart, ServerFrame, ServerControl, ServerOnly
  <2>3. reader.header # NoPart /\ reader.header.index = 0 /\ posted' = posted + 1
    BY <2>2 DEF ReadMain, ReadPayload
  <2>4. reader.header.packet = posted + 1 /\ reader.chunks = Carried(sent[1])
    BY <2>1, <2>3, TakeMain DEF StreamInv
  <2>5. QED
    BY <2>3, <2>4 DEF Carried
<1>2. QED
  BY <1>1, StreamCorrect, PTL DEF Spec, ChunksComplete

\* The locks: on a TLS stream the writer of an unfinished frame holds the lock; on plain TCP
\* nothing makes the reader write, as only websockets have pings.
LockInv ==
    /\ ~wire.cut
    /\ Locked => wire.open = lock
    /\ ~WebSocket =>
        /\ wire.open # "reader" /\ reader.pong = 0
        /\ \A i \in 1..Len(inbound) : inbound[i].op = "data"

\* A piece goes behind pieces of its own frame, or behind a whole one.
LEMMA PutWhole ==
    ASSUME LockInv, Locked \/ ~WebSocket, NEW w \in {"ui", "reader"}, NEW rest,
           ~Locked => w = "ui", wire.open \in {"none", "ui", "reader"}, Put(w, rest)
    PROVE  /\ ~wire'.cut /\ wire'.open = IF rest = 0 THEN "none" ELSE w
           /\ Locked => lock' = wire'.open
<1>1. wire.open \in {"none", w}
  BY DEF LockInv, Put
<1>2. QED
  BY <1>1 DEF LockInv, Put

\* With the lock, or without pings, no step puts a piece inside another frame.
LEMMA NextWhole ==
    ASSUME TypeOK, LockInv, [Next]_vars, "ws" \notin Transports
    PROVE  LockInv'
<1>1. /\ transport' = transport /\ Locked' = Locked /\ WebSocket' = WebSocket
      /\ Locked \/ ~WebSocket
  <2>1. transport' = transport
    BY DEF Next, Reader, WritePong, FillBuffer, ReceivePing, ReceivePong, ReceiveClose, Receives,
           ReadHeader, ReadMain, RefuseMain, RefuseChunk, ReadChunk, ReadPayload, ReaderOnly,
           WritePacket, WritePiece, ServerReads, ServerPart, ServerFrame, ServerControl,
           ServerOnly, vars
  <2>2. transport \in Transports
    BY DEF TypeOK
  <2>3. QED
    BY <2>1, <2>2 DEF Locked, WebSocket
<1>2. /\ wire.open \in {"none", "ui", "reader"} /\ reader \in ReaderType
      /\ inbound \in Seq(Frames)
  BY DEF TypeOK, ReaderType
\* the steps that write
<1>3. CASE WritePiece
  <2>1. UNCHANGED <<reader, inbound>> /\ Put("ui", left - 1)
    BY <1>3 DEF WritePiece
  <2>2. /\ ~wire'.cut /\ wire'.open \in {"none", "ui"}
        /\ Locked => lock' = wire'.open
    BY <1>1, <1>2, <2>1, PutWhole
  <2>3. QED
    BY <1>1, <2>1, <2>2 DEF LockInv
<1>4. CASE WritePong
  <2>1. reader.pong > 0 /\ Put("reader", reader.pong - 1)
    BY <1>4 DEF WritePong
  <2>2. WebSocket
    BY <1>2, <2>1 DEF LockInv, ReaderType
  <2>3. /\ ~wire'.cut /\ Locked => lock' = wire'.open
    BY <1>1, <1>2, <2>1, <2>2, PutWhole
  <2>4. QED
    BY <1>1, <2>1, <2>2, <2>3, PutWhole, <1>2 DEF LockInv
<1>5. CASE ServerReads
  <2>1. wire'.open = wire.open /\ wire'.cut = wire.cut
    BY <1>5 DEF ServerReads, TypeOK
  <2>2. QED
    BY <1>1, <1>5, <2>1 DEF ServerReads, ServerOnly, LockInv
\* the steps that do not
<1>6. ASSUME UNCHANGED <<wire, lock>>,
             ~WebSocket => /\ reader'.pong = 0
                           /\ \A i \in 1..Len(inbound') : inbound'[i].op = "data"
      PROVE  LockInv'
  BY <1>1, <1>6 DEF LockInv
<1>7. CASE FillBuffer \/ ReceivePing \/ ReceivePong \/ ReceiveClose
  <2>1. PICK op \in {"data", "ping", "pong", "close"} : Receives(op)
    BY <1>7 DEF FillBuffer, ReceivePing, ReceivePong, ReceiveClose
  <2>2. /\ inbound # <<>> /\ Head(inbound).op = op /\ inbound' = Tail(inbound)
        /\ UNCHANGED <<wire, lock>>
    BY <2>1 DEF Receives
  <2>3. /\ Head(inbound) = inbound[1] /\ 1 \in 1..Len(inbound)
        /\ \A i \in 1..Len(Tail(inbound)) :
             i + 1 \in 1..Len(inbound) /\ Tail(inbound)[i] = inbound[i + 1]
    BY <1>2, <2>2, EmptySeq, HeadTailProperties
  <2>4. SUFFICES ASSUME ~WebSocket
                 PROVE  /\ reader'.pong = 0
                        /\ \A i \in 1..Len(inbound') : inbound'[i].op = "data"
    BY <1>6, <2>2
  <2>5. \A i \in 1..Len(inbound') : inbound'[i].op = "data"
    BY <2>2, <2>3, <2>4 DEF LockInv
  <2>6. Head(inbound).op = "data"
    BY <2>3, <2>4 DEF LockInv
  <2>7. FillBuffer
    BY <1>7, <2>6 DEF ReceivePing, ReceivePong, ReceiveClose, Receives
  <2>8. reader'.pong = reader.pong
    BY <1>2, <2>7 DEF FillBuffer, ReaderType
  <2>9. QED
    BY <2>4, <2>5, <2>8 DEF LockInv
<1>8. CASE ReadHeader \/ ReadMain \/ RefuseMain \/ RefuseChunk \/ ReadChunk
  <2>1. reader'.pong = reader.pong
    BY <1>2, <1>8 DEF ReadHeader, ReadMain, RefuseMain, RefuseChunk, ReadChunk, Refuse, ReaderType
  <2>2. UNCHANGED <<wire, lock, inbound>>
    BY <1>8 DEF ReadHeader, ReadMain, RefuseMain, RefuseChunk, ReadChunk, ReadPayload, ReaderOnly
  <2>3. QED
    BY <1>6, <2>1, <2>2 DEF LockInv
<1>9. CASE \/ WritePacket \/ UNCHANGED vars
           \/ \E q \in Sends : ServerPart(q[1], q[2])
  <2>1. UNCHANGED <<wire, lock, inbound, reader>>
    BY <1>9 DEF WritePacket, ServerPart, ServerOnly, vars
  <2>2. QED
    BY <1>6, <2>1 DEF LockInv
<1>10. ASSUME NEW k \in 1..2, NEW fin \in BOOLEAN, ServerFrame(k, fin)
       PROVE  LockInv'
  <2>1. /\ UNCHANGED <<wire, lock, reader>>
        /\ inbound' = <<[op |-> "data", fin |-> fin, tokens |-> SubSeq(unsent, 1, k)]>>
    BY <1>10 DEF ServerFrame, ServerOnly
  <2>2. \A i \in 1..Len(inbound') : inbound'[i].op = "data"
    BY <2>1
  <2>3. QED
    BY <1>6, <2>1, <2>2 DEF LockInv
<1>11. ASSUME NEW op \in {"ping", "pong", "close"}, ServerControl(op)
       PROVE  LockInv'
  BY <1>6, <1>11 DEF ServerControl, ServerOnly
<1>12. QED
  BY <1>3, <1>4, <1>5, <1>7, <1>8, <1>9, <1>10, <1>11 DEF Next, Reader

\* On TCP, TLS and secure websockets no frame or packet is written into the middle of another:
\* the lock is held until the whole buffer is written (SharedTlsStream::write_all), and without
\* websockets the reader never writes.  A plain websocket is the one transport left out: there
\* the model checker finds the reader's pong inside a packet.
THEOREM WholeFramesCorrect ==
    ASSUME "ws" \notin Transports PROVE Spec => []WholeFrames
<1>1. Init => LockInv
  BY DEF Init, LockInv
<1>2. TypeOK /\ LockInv /\ [Next]_vars => LockInv'
  BY NextWhole
<1>3. LockInv => WholeFrames
  BY DEF LockInv, WholeFrames
<1>4. QED
  BY <1>1, <1>2, <1>3, TypeCorrect, PTL DEF Spec
=============================================================================
