--------------------------- MODULE MmapRingProofs ---------------------------
(***************************************************************************)
(* MmapRing for an area, frames and numbers of any size: the ring hands    *)
(* out no byte the decode thread has yet to copy, and gets all of them     *)
(* back.                                                                   *)
(*                                                                         *)
(* Positions in the ring are ordered from data_start round to data_end.    *)
(* Every pending draw ends at a mark; the bytes of a later draw lie        *)
(* between any earlier mark and data_end, so that they stay between        *)
(* data_start and data_end when a release moves data_start to a mark.      *)
(***************************************************************************)
EXTENDS MmapRing, SequenceTheorems, TLAPS

\* going round the ring from s to e, b is met on the way, e included
Between(s, b, e) == IF s <= e THEN s <= b /\ b <= e ELSE s <= b \/ b <= e

\* the byte at o lies in the part from s up to e
Within(s, o, e) == IF s <= e THEN s <= o /\ o < e ELSE s <= o \/ o < e

\* data_end may move from e to f when data_start is s
Advances(s, e, f) ==
    \/ s <= e /\ e <= f
    \/ s <= e /\ f < s
    \/ e <= f /\ f < s

\* the draw being decoded and those waiting
Pending == reading \o draws

\* where data_start will be once i of them are released
Mark(i) == IF i = 0 THEN data_start ELSE Released(Pending[i].chunks)

Holds(chunks) == UNION {Offsets(chunks[k]) : k \in 1..Len(chunks)}

Positions == Header..(Size - 1)

MarksOk ==
    /\ \A i \in 0..Len(Pending) : Mark(i) \in Positions
    /\ Mark(Len(Pending)) = data_end
    /\ \A i \in 1..Len(Pending) : Pending[i].chunks # <<>>

InOrder ==
    \A i \in 0..Len(Pending), j \in 1..Len(Pending) :
        i < j => /\ Between(Mark(i), Mark(j), data_end)
                 /\ \A o \in Holds(Pending[j].chunks) : Within(Mark(i), o, data_end)

\* no frame was overwritten
Kept ==
    \A j \in 1..Len(Pending) : \A o \in Holds(Pending[j].chunks) :
        area[o] = Pending[j].tag

RingInv == TypeOK /\ MarksOk /\ InOrder /\ Kept /\ PixelsIntact

-----------------------------------------------------------------------------
(* Going round the ring *)

\* A queue of draws, or a list of chunks, is empty when its length is zero.
LEMMA EmptyLen == ASSUME NEW S, NEW q \in Seq(S) PROVE q = <<>> <=> Len(q) = 0
<1>1. Len(<<>>) = 0
  BY EmptySeq
<1>2. q # <<>> => Len(q) \in Nat \ {0}
  BY EmptySeq
<1>3. QED
  BY <1>1, <1>2

\* When data_end advances what lay on the way to it still does.
LEMMA BetweenAdvance ==
    ASSUME NEW s \in Nat, NEW e \in Nat, NEW f \in Nat, NEW a \in Nat, NEW b \in Nat,
           Advances(s, e, f), Between(s, a, e), Between(s, b, e), Between(a, b, e)
    PROVE  Between(a, b, f)
  BY DEF Advances, Between

\* So do the bytes.
LEMMA WithinAdvance ==
    ASSUME NEW s \in Nat, NEW e \in Nat, NEW f \in Nat, NEW a \in Nat, NEW o \in Nat,
           Advances(s, e, f), Between(s, a, e), Within(a, o, e)
    PROVE  Within(a, o, f)
  BY DEF Advances, Between, Within

\* The bytes data_end passes are new: none lay between data_start and the old data_end.
LEMMA PassedAreNew ==
    ASSUME NEW s \in Nat, NEW e \in Nat, NEW f \in Nat, NEW a \in Nat, NEW o \in Nat,
           Advances(s, e, f), Between(s, a, e), Within(e, o, f)
    PROVE  Within(a, o, f) /\ ~Within(s, o, e)
  BY DEF Advances, Between, Within

\* The way to data_end ends there.
LEMMA BetweenEnds ==
    ASSUME NEW s \in Nat, NEW e \in Nat
    PROVE  Between(s, s, e) /\ Between(s, e, e)
  BY DEF Between

\* The server places a frame (external to client.rs) on bytes that data_end passes.
LEMMA PlacementOk ==
    ASSUME TypeOK, data_start \in Positions, data_end \in Positions,
           NEW l \in 1..MaxLen, NEW chunks \in Placements(l)
    PROVE  /\ chunks \in Seq(Chunk) /\ chunks # <<>> /\ Len(chunks) \in 1..2
           /\ Released(chunks) \in Positions
           /\ Advances(data_start, data_end, Released(chunks))
           /\ Holds(chunks) \subseteq Positions
           /\ \A o \in Holds(chunks) : Within(data_end, o, Released(chunks))
<1> DEFINE rest == Size - data_end
<1>1. /\ Size \in Nat /\ Header \in Nat /\ MaxLen \in Nat /\ Header < Size
      /\ MaxLen + Header < Size
      /\ data_start \in Nat /\ data_end \in Nat /\ rest \in Nat /\ l \in Nat
      /\ data_end < Size /\ Header <= data_end /\ l <= MaxLen /\ 1 <= l
  BY RingAssumption DEF Positions
<1>2. \/ \E o \in {data_end, Header} :
            /\ chunks = <<[offset |-> o, length |-> l]>>
            /\ \/ data_end < data_start /\ o = data_end /\ o + l < data_start
               \/ data_start <= data_end /\ o = data_end /\ l < rest
               \/ data_start <= data_end /\ o = Header /\ o + l < data_start
      \/ /\ chunks = <<[offset |-> data_end, length |-> rest],
                       [offset |-> Header, length |-> l - rest]>>
         /\ data_start <= data_end /\ rest <= l /\ Header + (l - rest) < data_start
  BY <1>1 DEF Placements, Positions
<1>3. CASE \E o \in {data_end, Header} :
            /\ chunks = <<[offset |-> o, length |-> l]>>
            /\ \/ data_end < data_start /\ o = data_end /\ o + l < data_start
               \/ data_start <= data_end /\ o = data_end /\ l < rest
               \/ data_start <= data_end /\ o = Header /\ o + l < data_start
  <2>1. PICK o \in {data_end, Header} :
            /\ chunks = <<[offset |-> o, length |-> l]>>
            /\ \/ data_end < data_start /\ o = data_end /\ o + l < data_start
               \/ data_start <= data_end /\ o = data_end /\ l < rest
               \/ data_start <= data_end /\ o = Header /\ o + l < data_start
    BY <1>3
  <2>2. o \in Header..Size /\ [offset |-> o, length |-> l] \in Chunk
    BY <1>1, <2>1 DEF Chunk
  <2>3. /\ chunks \in Seq(Chunk) /\ Len(chunks) = 1
        /\ chunks[1].offset = o /\ chunks[1].length = l
    BY <2>1, <2>2
  <2>4. Released(chunks) = o + l
    BY <2>3 DEF Released, End
  <2>5. ASSUME NEW x \in Holds(chunks) PROVE x \in Positions /\ o <= x /\ x < o + l
    <3>1. x \in Offsets(chunks[1])
      BY <2>3 DEF Holds
    <3>2. QED
      BY <2>3, <3>1 DEF Offsets, Positions
  <2>6. o + l \in Positions /\ Advances(data_start, data_end, o + l)
    BY <1>1, <2>1 DEF Positions, Advances
  <2>7. \A x \in Positions : o <= x /\ x < o + l => Within(data_end, x, o + l)
    BY <1>1, <2>1 DEF Positions, Within
  <2>8. chunks # <<>> /\ Len(chunks) \in 1..2
    <3>1. Len(chunks) # 0 /\ Len(chunks) \in 1..2
      BY <2>3
    <3>2. QED
      BY <2>3, <3>1, EmptyLen
  <2>9. QED
    BY <2>3, <2>4, <2>5, <2>6, <2>7, <2>8
<1>4. CASE /\ chunks = <<[offset |-> data_end, length |-> rest],
                         [offset |-> Header, length |-> l - rest]>>
           /\ data_start <= data_end /\ rest <= l /\ Header + (l - rest) < data_start
  <2>1. /\ [offset |-> data_end, length |-> rest] \in Chunk
        /\ [offset |-> Header, length |-> l - rest] \in Chunk
    BY <1>1, <1>4 DEF Chunk
  <2>2. /\ chunks \in Seq(Chunk) /\ Len(chunks) = 2
        /\ chunks[1].offset = data_end /\ chunks[1].length = rest
        /\ chunks[2].offset = Header /\ chunks[2].length = l - rest
    BY <1>4, <2>1
  <2>3. Released(chunks) = Header + (l - rest)
    BY <2>2 DEF Released, End
  <2>4. ASSUME NEW x \in Holds(chunks)
        PROVE  x \in Positions /\ (data_end <= x \/ x < Header + (l - rest))
    <3>1. x \in Offsets(chunks[1]) \/ x \in Offsets(chunks[2])
      BY <2>2 DEF Holds
    <3>2. QED
      BY <2>2, <3>1 DEF Offsets, Positions
  <2>5. /\ Header + (l - rest) \in Positions
        /\ Advances(data_start, data_end, Header + (l - rest))
    BY <1>1, <1>4 DEF Positions, Advances
  <2>6. \A x \in Positions : data_end <= x \/ x < Header + (l - rest) =>
           Within(data_end, x, Header + (l - rest))
    BY <1>1, <1>4 DEF Positions, Within
  <2>7. chunks # <<>> /\ Len(chunks) \in 1..2
    <3>1. Len(chunks) # 0 /\ Len(chunks) \in 1..2
      BY <2>2
    <3>2. QED
      BY <2>2, <3>1, EmptyLen
  <2>8. /\ Released(chunks) \in Positions
        /\ Advances(data_start, data_end, Released(chunks))
    BY <2>3, <2>5
  <2>9. \A x \in Holds(chunks) : Within(data_end, x, Released(chunks))
    BY <2>3, <2>4, <2>6
  <2>10. QED
    BY <2>2, <2>4, <2>7, <2>8, <2>9
<1>5. QED
  BY <1>2, <1>3, <1>4

-----------------------------------------------------------------------------
(* The pending draws *)

\* The draw being decoded is the first of those pending.
LEMMA PendingFields ==
    ASSUME TypeOK
    PROVE  /\ Pending \in Seq(Draw) /\ Len(Pending) = Len(reading) + Len(draws)
           /\ reading # <<>> => /\ Len(reading) = 1 /\ reading[1] \in Draw
                                /\ Len(Pending) > 0 /\ Pending[1] = reading[1]
                                /\ Pending # <<>> /\ Tail(Pending) = draws
           /\ reading = <<>> => Pending = draws
<1>1. reading \in Seq(Draw) /\ draws \in Seq(Draw) /\ Len(reading) <= 1
  BY DEF TypeOK
<1>2. Pending \in Seq(Draw) /\ Len(Pending) = Len(reading) + Len(draws)
  BY <1>1 DEF Pending
<1>3. ASSUME reading # <<>>
      PROVE  /\ Len(reading) = 1 /\ reading[1] \in Draw
             /\ Len(Pending) > 0 /\ Pending[1] = reading[1]
             /\ Pending # <<>> /\ Tail(Pending) = draws
  <2>1. Len(reading) = 1 /\ reading[1] \in Draw
    <3>1. Len(reading) # 0 /\ Len(reading) \in Nat
      BY <1>1, <1>3, EmptyLen
    <3>2. \A n \in Nat : n # 0 /\ n <= 1 => n = 1
      OBVIOUS
    <3>3. Len(reading) <= 1
      BY <1>1
    <3>4. Len(reading) = 1
      BY <3>1, <3>2, <3>3
    <3>5. reading[1] \in Draw
      BY <1>1, <3>4, ElementOfSeq
    <3>6. QED
      BY <3>4, <3>5
  <2>2. Len(Pending) > 0 /\ Pending # <<>> /\ Pending[1] = reading[1]
    BY <1>1, <1>2, <2>1 DEF Pending
  <2>3. /\ Tail(Pending) \in Seq(Draw) /\ Len(Tail(Pending)) = Len(draws)
        /\ \A i \in 1..Len(draws) : Tail(Pending)[i] = draws[i]
    BY <1>1, <1>2, <2>1, <2>2 DEF Pending
  <2>4. Tail(Pending) = draws
    BY <1>1, <2>3, SeqEqual
  <2>5. QED
    BY <2>1, <2>2, <2>4
<1>4. reading = <<>> => Pending = draws
  BY <1>1, ConcatEmptySeq DEF Pending
<1>5. QED
  BY <1>2, <1>3, <1>4

\* At first the ring is empty.
LEMMA InitRing == Init => RingInv
<1> SUFFICES ASSUME Init PROVE RingInv
  OBVIOUS
<1>1. /\ data_start = Header /\ data_end = Header /\ next = 0
      /\ area = [o \in Positions |-> Tags]
      /\ draws = <<>> /\ reading = <<>> /\ at = 0 /\ copied = {}
  BY DEF Init, NoTag, Positions
<1>2. Header \in Positions /\ Header \in Header..Size /\ 0 \in 0..(Tags - 1) /\ Tags \in 0..Tags
  BY RingAssumption DEF Positions
<1>3. TypeOK
  <2>1. /\ draws \in Seq(Draw) /\ reading \in Seq(Draw) /\ Len(reading) <= 1
    BY <1>1, EmptySeq
  <2>2. area \in [Header..(Size - 1) -> 0..Tags]
    BY <1>1, <1>2 DEF Positions
  <2>3. QED
    BY <1>1, <1>2, <2>1, <2>2 DEF TypeOK
<1>4. Pending = <<>> /\ Len(Pending) = 0
  BY <1>1, <1>3, PendingFields, EmptySeq
<1>5. Mark(0) = Header
  BY <1>1 DEF Mark
<1>6. MarksOk /\ InOrder /\ Kept
  BY <1>1, <1>2, <1>4, <1>5 DEF MarksOk, InOrder, Kept
<1>7. PixelsIntact
  BY <1>1 DEF PixelsIntact
<1>8. QED
  BY <1>3, <1>6, <1>7 DEF RingInv

\* With the same draws pending the ring is as it was.
LEMMA SamePending ==
    ASSUME MarksOk, InOrder, Kept, Pending' = Pending,
           UNCHANGED <<area, data_start, data_end>>
    PROVE  MarksOk' /\ InOrder' /\ Kept'
<1>1. \A i : Mark(i)' = Mark(i)
  BY DEF Mark
<1>2. QED
  BY <1>1 DEF MarksOk, InOrder, Kept

\* The marks are positions met in order, data_start among them.
LEMMA MarkPlace ==
    ASSUME RingInv
    PROVE  /\ data_start \in Positions /\ data_end \in Positions /\ Len(Pending) \in Nat
           /\ \A i \in 0..Len(Pending) : /\ Mark(i) \in Positions
                                         /\ Between(data_start, Mark(i), data_end)
           /\ Positions \subseteq Nat
<1>1. Pending \in Seq(Draw) /\ Len(Pending) \in Nat
  BY PendingFields DEF RingInv
<1>2. Mark(0) = data_start
  BY DEF Mark
<1>3. Positions \subseteq Nat
  BY RingAssumption DEF Positions
<1>4. /\ \A i \in 0..Len(Pending) : Mark(i) \in Positions
      /\ data_start \in Positions /\ data_end \in Positions
  BY <1>1, <1>2 DEF RingInv, MarksOk
<1>5. ASSUME NEW i \in 0..Len(Pending) PROVE Between(data_start, Mark(i), data_end)
  <2>1. CASE i = 0
    BY <1>2, <1>3, <1>4, <2>1, BetweenEnds
  <2>2. CASE i # 0
    BY <1>1, <1>2, <2>2 DEF RingInv, InOrder
  <2>3. QED
    BY <2>1, <2>2
<1>6. QED
  BY <1>1, <1>3, <1>4, <1>5

\* A new draw comes behind those pending, on bytes none of them uses.
LEMMA DrawRing ==
    ASSUME RingInv, NEW l \in 1..MaxLen, NEW v \in BOOLEAN, NEW c \in Placements(l),
           ServerDraw(l, c, v)
    PROVE  RingInv'
<1> DEFINE e == Released(c)
<1> PICK n : n = Len(Pending)
  OBVIOUS
<1>1. PICK p : p = [tag |-> next, chunks |-> c, valid |-> v]
  OBVIOUS
<1>2. /\ area' = [o \in DOMAIN area |->
                    IF \E k \in DOMAIN c : o \in Offsets(c[k]) THEN next ELSE area[o]]
      /\ data_end' = e /\ draws' = Append(draws, p) /\ next' = (next + 1) % Tags
      /\ UNCHANGED <<data_start, reading, at, copied>>
  BY <1>1 DEF ServerDraw, Released
<1>3. /\ data_start \in Positions /\ data_end \in Positions /\ n \in Nat
      /\ \A i \in 0..n : Mark(i) \in Positions /\ Between(data_start, Mark(i), data_end)
      /\ Positions \subseteq Nat
  BY MarkPlace
<1>4. /\ c \in Seq(Chunk) /\ c # <<>> /\ e \in Positions
      /\ Advances(data_start, data_end, e)
      /\ Holds(c) \subseteq Positions
      /\ \A o \in Holds(c) : Within(data_end, o, e)
  BY <1>3, PlacementOk DEF RingInv
<1>5. p \in Draw /\ p.tag = next /\ p.chunks = c
  BY <1>1, <1>4 DEF Draw, RingInv, TypeOK
<1>6. TypeOK'
  <2>1. next' \in 0..(Tags - 1) /\ next \in 0..Tags
    BY <1>2, RingAssumption DEF RingInv, TypeOK
  <2>2. area' \in [Header..(Size - 1) -> 0..Tags]
    BY <1>2, <2>1 DEF RingInv, TypeOK
  <2>3. draws' \in Seq(Draw)
    BY <1>2, <1>5 DEF RingInv, TypeOK
  <2>4. data_end' \in Header..Size
    BY <1>2, <1>4, RingAssumption DEF Positions
  <2>5. QED
    BY <1>2, <2>1, <2>2, <2>3, <2>4 DEF RingInv, TypeOK
<1>7. /\ Len(Pending') = n + 1 /\ Pending'[n + 1] = p
      /\ \A i \in 1..n : Pending'[i] = Pending[i]
  <2>1. reading \in Seq(Draw) /\ draws \in Seq(Draw)
    BY DEF RingInv, TypeOK
  <2>2. Pending' = reading \o Append(draws, p)
    BY <1>2 DEF Pending
  <2>3. QED
    BY <1>5, <2>1, <2>2 DEF Pending
<1>8. /\ \A i \in 0..n : Mark(i)' = Mark(i)
      /\ Mark(n + 1)' = e
  BY <1>2, <1>3, <1>5, <1>7 DEF Mark
<1>9. MarksOk'
  <2>1. \A i \in 0..(n + 1) : Mark(i)' \in Positions
    BY <1>3, <1>4, <1>8
  <2>2. \A i \in 1..(n + 1) : Pending'[i].chunks # <<>>
    BY <1>3, <1>4, <1>5, <1>7 DEF RingInv, MarksOk
  <2>3. QED
    BY <1>2, <1>7, <1>8, <2>1, <2>2 DEF MarksOk
<1>10. ASSUME NEW i \in 0..n
       PROVE  /\ \A j \in 1..n : i < j => /\ Between(Mark(i), Mark(j), e)
                                          /\ \A o \in Holds(Pending[j].chunks) :
                                                Within(Mark(i), o, e)
              /\ Between(Mark(i), e, e)
              /\ \A o \in Holds(c) : Within(Mark(i), o, e)
  <2>1. Mark(i) \in Nat /\ Between(data_start, Mark(i), data_end)
    BY <1>3
  <2>2. data_start \in Nat /\ data_end \in Nat /\ e \in Nat
    BY <1>3, <1>4
  <2>3. ASSUME NEW j \in 1..n, i < j
        PROVE  /\ Between(Mark(i), Mark(j), e)
               /\ \A o \in Holds(Pending[j].chunks) : Within(Mark(i), o, e)
    <3>1. i \in 0..Len(Pending) /\ j \in 1..Len(Pending) /\ j \in 0..n
      BY <1>3
    <3>2. /\ Mark(j) \in Nat /\ Between(data_start, Mark(j), data_end)
          /\ Between(Mark(i), Mark(j), data_end)
      BY <1>3, <2>3, <3>1 DEF RingInv, InOrder
    <3>3. Between(Mark(i), Mark(j), e)
      BY <1>4, <2>1, <2>2, <3>2, BetweenAdvance
    <3>4. ASSUME NEW o \in Holds(Pending[j].chunks) PROVE Within(Mark(i), o, e)
      <4>1. o \in Nat
        BY RingAssumption DEF Holds, Offsets
      <4>2. Within(Mark(i), o, data_end)
        BY <2>3 DEF RingInv, InOrder
      <4>3. QED
        BY <1>4, <2>1, <2>2, <4>1, <4>2, WithinAdvance
    <3>5. QED
      BY <3>3, <3>4
  <2>4. ASSUME NEW o \in Holds(c) PROVE Within(Mark(i), o, e)
    <3>1. o \in Nat
      BY <1>3, <1>4
    <3>2. QED
      BY <1>4, <2>1, <2>2, <3>1, PassedAreNew, SMTT(30)
  <2>5. Between(Mark(i), e, e)
    BY <2>1, <2>2, BetweenEnds
  <2>6. QED
    BY <2>3, <2>4, <2>5
<1>11. InOrder'
  <2>1. SUFFICES ASSUME NEW i \in 0..(n + 1), NEW j \in 1..(n + 1), i < j
                 PROVE  /\ Between(Mark(i)', Mark(j)', e)
                        /\ \A o \in Holds(Pending'[j].chunks) : Within(Mark(i)', o, e)
    BY <1>2, <1>7 DEF InOrder
  <2>2. i \in 0..n /\ (j \in 1..n \/ j = n + 1)
    BY <1>3, <2>1
  <2>3. CASE j \in 1..n
    BY <1>7, <1>8, <1>10, <2>1, <2>2, <2>3
  <2>4. CASE j = n + 1
    <3>1. Mark(i)' = Mark(i) /\ Mark(j)' = e /\ Pending'[j].chunks = c
      BY <1>5, <1>7, <1>8, <2>2, <2>4
    <3>2. QED
      BY <1>10, <2>2, <3>1
  <2>5. QED
    BY <2>2, <2>3, <2>4
<1>12. Kept'
  <2>1. \A o \in Positions : area'[o] = IF o \in Holds(c) THEN next ELSE area[o]
    <3>1. DOMAIN area = Positions /\ DOMAIN c = 1..Len(c)
      BY <1>4 DEF RingInv, TypeOK, Positions
    <3>2. QED
      BY <1>2, <3>1 DEF Holds
  <2>2. ASSUME NEW j \in 1..n, NEW o \in Holds(Pending[j].chunks)
        PROVE  area'[o] = Pending[j].tag
    <3>1. o \in Positions /\ o \in Nat
      BY RingAssumption DEF Holds, Offsets, Positions
    <3>2. Within(data_start, o, data_end)
      <4>1. Mark(0) = data_start /\ 0 \in 0..n
        BY <1>3 DEF Mark
      <4>2. QED
        BY <4>1 DEF RingInv, InOrder
    <3>3. o \notin Holds(c)
      <4>1. Between(data_start, data_start, data_end)
        BY <1>3, BetweenEnds
      <4>2. data_start \in Nat /\ data_end \in Nat /\ e \in Nat
        BY <1>3, <1>4
      <4>3. Within(data_end, o, e) => ~Within(data_start, o, data_end)
        BY <1>4, <3>1, <4>1, <4>2, PassedAreNew
      <4>4. QED
        BY <1>4, <3>2, <4>3
    <3>4. QED
      BY <2>1, <3>1, <3>3 DEF RingInv, Kept
  <2>3. \A o \in Holds(c) : area'[o] = next
    BY <1>4, <2>1
  <2>4. QED
    BY <1>3, <1>5, <1>7, <2>2, <2>3 DEF Kept
<1>13. PixelsIntact'
  BY <1>2 DEF RingInv, PixelsIntact
<1>14. QED
  BY <1>6, <1>9, <1>11, <1>12, <1>13 DEF RingInv

\* Taking a draw up leaves it the first of those pending.
LEMMA TakeRing == ASSUME RingInv, Take PROVE RingInv'
<1>1. /\ reading = <<>> /\ draws # <<>> /\ reading' = <<Head(draws)>> /\ draws' = Tail(draws)
      /\ at' = 0 /\ copied' = {}
      /\ UNCHANGED <<area, data_start, data_end, next>>
  BY DEF Take
<1>2. draws \in Seq(Draw) /\ Head(draws) \in Draw /\ Tail(draws) \in Seq(Draw)
  BY <1>1 DEF RingInv, TypeOK
<1>3. reading' \in Seq(Draw) /\ Len(reading') = 1
  BY <1>1, <1>2
<1>4. TypeOK'
  BY <1>1, <1>2, <1>3 DEF RingInv, TypeOK
<1>5. Pending' = Pending
  <2>1. Pending = draws
    BY <1>1, PendingFields DEF RingInv
  <2>2. /\ Pending' \in Seq(Draw) /\ Len(Pending') = Len(draws)
        /\ \A i \in 1..Len(draws) : Pending'[i] = draws[i]
    BY <1>1, <1>2, <1>3 DEF Pending
  <2>3. QED
    BY <1>2, <2>1, <2>2, SeqEqual
<1>6. PixelsIntact'
  BY <1>1 DEF PixelsIntact
<1>7. QED
  BY <1>1, <1>4, <1>5, <1>6, SamePending DEF RingInv

\* What is copied is the frame of the draw: it is pending, so its bytes were kept.
LEMMA CopyRing == ASSUME RingInv, CopyChunk PROVE RingInv'
<1>1. /\ reading # <<>> /\ at < Len(reading[1].chunks) /\ at' = at + 1
      /\ copied' = copied \cup {area[o] : o \in Offsets(reading[1].chunks[at + 1])}
      /\ UNCHANGED <<area, data_start, data_end, next, draws, reading>>
  BY DEF CopyChunk
<1>2. PICK d : d = reading[1]
  OBVIOUS
<1>3. d \in Draw /\ Pending[1] = d /\ 1 \in 1..Len(Pending) /\ Len(reading) = 1
  BY <1>1, <1>2, PendingFields DEF RingInv
<1>4. Frames(reading) = {d}
  BY <1>2, <1>3 DEF Frames, RingInv, TypeOK
<1>5. at + 1 \in 1..Len(d.chunks)
  BY <1>1, <1>2, <1>3 DEF RingInv, TypeOK, Draw
<1>6. Offsets(d.chunks[at + 1]) \subseteq Holds(d.chunks)
  BY <1>5 DEF Holds
<1>7. \A o \in Offsets(d.chunks[at + 1]) : area[o] = d.tag
  BY <1>3, <1>6 DEF RingInv, Kept
<1>8. copied' \subseteq copied \cup {d.tag}
  BY <1>1, <1>2, <1>7
<1>9. TypeOK'
  <2>1. d.tag \in 0..Tags /\ at' \in Nat
    BY <1>1, <1>3, RingAssumption DEF Draw, RingInv, TypeOK
  <2>2. QED
    BY <1>1, <1>8, <2>1 DEF RingInv, TypeOK
<1>10. PixelsIntact'
  BY <1>1, <1>4, <1>8 DEF RingInv, PixelsIntact
<1>11. Pending' = Pending
  BY <1>1 DEF Pending
<1>12. QED
  BY <1>1, <1>9, <1>10, <1>11, SamePending DEF RingInv

\* A release moves data_start to the first mark: the others and the bytes of the draws behind
\* it are further on.
LEMMA ReleaseRing == ASSUME RingInv, Release PROVE RingInv'
<1>1. /\ reading # <<>> /\ data_start' = Released(reading[1].chunks) /\ reading' = <<>>
      /\ UNCHANGED <<area, data_end, next, draws, at, copied>>
  BY DEF Release
<1>2. PICK n : n = Len(Pending)
  OBVIOUS
<1>3. /\ Pending \in Seq(Draw) /\ n \in Nat /\ n > 0 /\ Pending[1] = reading[1]
      /\ Pending # <<>> /\ Tail(Pending) = draws
  BY <1>1, <1>2, PendingFields DEF RingInv
<1>4. /\ Len(draws) = n - 1
      /\ \A i \in 1..(n - 1) : draws[i] = Pending[i + 1]
  BY <1>2, <1>3
<1>5. data_start' = Mark(1) /\ Mark(1) \in Positions
  BY <1>1, <1>2, <1>3 DEF Mark, RingInv, MarksOk
<1>6. TypeOK'
  <2>1. data_start' \in Header..Size
    BY <1>5, RingAssumption DEF Positions
  <2>2. reading' \in Seq(Draw) /\ Len(reading') <= 1
    BY <1>1, EmptySeq
  <2>3. QED
    BY <1>1, <2>1, <2>2 DEF RingInv, TypeOK
<1>7. Pending' = draws
  <2>1. draws \in Seq(Draw) /\ Pending' = <<>> \o draws
    BY <1>1 DEF Pending, RingInv, TypeOK
  <2>2. QED
    BY <2>1, ConcatEmptySeq
<1>8. ASSUME NEW i \in 0..(n - 1) PROVE Mark(i)' = Mark(i + 1)
  <2>1. CASE i = 0
    BY <1>5, <2>1 DEF Mark
  <2>2. CASE i # 0
    <3>1. i \in 1..(n - 1) /\ i + 1 # 0
      BY <1>3, <2>2
    <3>2. QED
      BY <1>4, <1>7, <2>2, <3>1 DEF Mark
  <2>3. QED
    BY <2>1, <2>2
<1>9. MarksOk'
  <2>1. \A i \in 0..(n - 1) : Mark(i)' \in Positions
    <3>1. \A i \in 0..(n - 1) : i + 1 \in 0..n
      BY <1>3
    <3>2. QED
      BY <1>2, <1>8, <3>1 DEF RingInv, MarksOk
  <2>2. Mark(n - 1)' = data_end'
    <3>1. n - 1 \in 0..(n - 1) /\ (n - 1) + 1 = n
      BY <1>3
    <3>2. QED
      BY <1>1, <1>2, <1>8, <3>1 DEF RingInv, MarksOk
  <2>3. \A i \in 1..(n - 1) : draws[i].chunks # <<>>
    <3>1. \A i \in 1..(n - 1) : i + 1 \in 1..n
      BY <1>3
    <3>2. QED
      BY <1>2, <1>4, <3>1 DEF RingInv, MarksOk
  <2>4. QED
    BY <1>4, <1>7, <2>1, <2>2, <2>3 DEF MarksOk
<1>10. InOrder'
  <2>1. SUFFICES ASSUME NEW i \in 0..(n - 1), NEW j \in 1..(n - 1), i < j
                 PROVE  /\ Between(Mark(i)', Mark(j)', data_end)
                        /\ \A o \in Holds(draws[j].chunks) : Within(Mark(i)', o, data_end)
    BY <1>1, <1>4, <1>7 DEF InOrder
  <2>2. /\ i + 1 \in 0..n /\ j + 1 \in 1..n /\ i + 1 < j + 1 /\ j \in 0..(n - 1)
    BY <1>3, <2>1
  <2>3. /\ Mark(i)' = Mark(i + 1) /\ Mark(j)' = Mark(j + 1)
        /\ draws[j] = Pending[j + 1]
    BY <1>4, <1>8, <2>2
  <2>4. QED
    BY <1>2, <2>2, <2>3 DEF RingInv, InOrder
<1>11. Kept'
  <2>1. ASSUME NEW j \in 1..(n - 1)
        PROVE  \A o \in Holds(draws[j].chunks) : area[o] = draws[j].tag
    <3>1. j + 1 \in 1..n
      BY <1>3
    <3>2. QED
      BY <1>2, <1>4, <3>1 DEF RingInv, Kept
  <2>2. QED
    BY <1>1, <1>4, <1>7, <2>1 DEF Kept
<1>12. PixelsIntact'
  <2>1. Frames(reading') = {}
    BY <1>1 DEF Frames
  <2>2. QED
    BY <2>1 DEF PixelsIntact
<1>13. QED
  BY <1>6, <1>9, <1>10, <1>11, <1>12 DEF RingInv

\* Every step of the server and the decode thread keeps the ring in order.
LEMMA NextRing == RingInv /\ [Next]_vars => RingInv'
<1> SUFFICES ASSUME RingInv, [Next]_vars PROVE RingInv'
  OBVIOUS
<1>1. CASE \E l \in 1..MaxLen, v \in BOOLEAN : \E c \in Placements(l) : ServerDraw(l, c, v)
  BY <1>1, DrawRing
<1>2. CASE Decode
  BY <1>2, TakeRing, CopyRing, ReleaseRing DEF Decode
<1>3. CASE UNCHANGED vars
  <2>1. UNCHANGED <<area, data_start, data_end, next, draws, reading, at, copied>>
    BY <1>3 DEF vars
  <2>2. TypeOK' /\ PixelsIntact' /\ Pending' = Pending
    BY <2>1 DEF RingInv, TypeOK, PixelsIntact, Pending
  <2>3. QED
    BY <2>1, <2>2, SamePending DEF RingInv
<1>4. QED
  BY <1>1, <1>2, <1>3 DEF Next

\* The ring is in order throughout.
LEMMA RingCorrect == Spec => []RingInv
  BY InitRing, NextRing, PTL DEF Spec

\* The control words stay within the area, and every chunk list read_mmap_draw is given is
\* one of chunks within the area.
THEOREM TypeCorrect == Spec => []TypeOK
<1>1. RingInv => TypeOK
  BY DEF RingInv
<1>2. QED
  BY <1>1, RingCorrect, PTL

\* The decode thread only ever copies pixels of the draw it is decoding: no frame is
\* overwritten before it was copied out (read_mmap_draw, release).
THEOREM PixelsIntactCorrect == Spec => []PixelsIntact
<1>1. RingInv => PixelsIntact
  BY DEF RingInv
<1>2. QED
  BY <1>1, RingCorrect, PTL

\* Every draw decoded, data_start has caught up with data_end: the ring is free again (release).
THEOREM AllReclaimedCorrect == Spec => []AllReclaimed
<1>1. RingInv => AllReclaimed
  <2>1. SUFFICES ASSUME RingInv, draws = <<>>, reading = <<>> PROVE data_start = data_end
    BY DEF AllReclaimed
  <2>2. Len(Pending) = 0
    BY <2>1, PendingFields, EmptySeq DEF RingInv
  <2>3. Mark(0) = data_end
    BY <2>1, <2>2 DEF RingInv, MarksOk
  <2>4. QED
    BY <2>3 DEF Mark
<1>2. QED
  BY <1>1, RingCorrect, PTL
=============================================================================
