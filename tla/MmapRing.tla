------------------------------ MODULE MmapRing ------------------------------
(***************************************************************************)
(* The shared memory area of mmap picture transfers (mmap.rs, and          *)
(* read_mmap_draw in client.rs): a ring the server writes frames into and  *)
(* the decode thread copies them out of, in another process, with nothing  *)
(* but the two control words data_start and data_end between them.  Each   *)
(* byte holds the number of the draw that wrote it.                        *)
(***************************************************************************)
EXTENDS Naturals, Sequences

CONSTANTS
    Size,     \* the size of the area
    Header,   \* HEADER_SIZE, the bytes of the two control words
    MaxLen,   \* the longest frame
    Tags      \* draws are numbered modulo Tags, more than can be in flight

ASSUME RingAssumption ==
    /\ Size \in Nat /\ Header \in Nat /\ MaxLen \in Nat /\ Tags \in Nat
    /\ 0 < Header /\ 0 < MaxLen /\ MaxLen + Header < Size /\ Size < Tags

VARIABLES
    area,        \* per offset, the draw whose pixels it holds
    data_start,  \* how far the client has consumed
    data_end,    \* how far the server has written
    next,        \* the number of the next draw
    draws,       \* draw packets not decoded yet, oldest first
    reading,     \* the draw being decoded, a sequence of at most one
    at,          \* how many of its chunks were copied
    copied       \* the draws whose bytes were copied out for it

vars == <<area, data_start, data_end, next, draws, reading, at, copied>>

NoTag == Tags
Chunk == [offset : Header..Size, length : 0..MaxLen]
\* `valid`: read_mmap_pixels accepts the pixel format, the size and the stride
Draw == [tag : 0..(Tags - 1), chunks : Seq(Chunk), valid : BOOLEAN]

TypeOK ==
    /\ area \in [Header..(Size - 1) -> 0..Tags]
    /\ data_start \in Header..Size /\ data_end \in Header..Size
    /\ next \in 0..(Tags - 1)
    /\ draws \in Seq(Draw)
    /\ reading \in Seq(Draw) /\ Len(reading) <= 1
    /\ at \in Nat /\ copied \subseteq 0..Tags

\* the server initialises the control words when it takes up the area
Init ==
    /\ area = [o \in Header..(Size - 1) |-> NoTag]
    /\ data_start = Header /\ data_end = Header
    /\ next = 0 /\ draws = <<>> /\ reading = <<>> /\ at = 0 /\ copied = {}

Offsets(c) == {o \in Header..(Size - 1) : c.offset <= o /\ o < c.offset + c.length}
Frames(s) == {s[k] : k \in DOMAIN s}
End(c) == c.offset + c.length

-----------------------------------------------------------------------------
(* The server (external): it takes what lies outside data_start..data_end *)

\* the chunk lists it may use for a frame of length l: in one piece after
\* data_end, split at the end of the area, or in one piece from the start of it
Placements(l) ==
    LET tail == Size - data_end
        one(o) == <<[offset |-> o, length |-> l]>>
        split == <<[offset |-> data_end, length |-> tail],
                   [offset |-> Header, length |-> l - tail]>>
    IN  IF data_end < data_start
        THEN {one(o) : o \in {o \in {data_end} : o + l < data_start}}
        ELSE {one(o) : o \in {o \in {data_end} : l < tail}}
             \cup {s \in {split} : tail <= l /\ Header + (l - tail) < data_start}
             \cup {one(o) : o \in {o \in {Header} :
                                     tail <= l /\ Header + l < data_start}}

\* it writes the pixels, moves data_end and sends the draw packet
ServerDraw(l, chunks, valid) ==
    /\ chunks \in Placements(l)
    /\ area' = [o \in DOMAIN area |->
                  IF \E k \in DOMAIN chunks : o \in Offsets(chunks[k])
                  THEN next ELSE area[o]]
    /\ data_end' = End(chunks[Len(chunks)])
    /\ draws' = Append(draws, [tag |-> next, chunks |-> chunks, valid |-> valid])
    /\ next' = (next + 1) % Tags
    /\ UNCHANGED <<data_start, reading, at, copied>>

-----------------------------------------------------------------------------
(* The decode thread *)

\* the draw is released before its pixels are copied
TakeMutant ==
    /\ reading = <<>> /\ draws # <<>>
    /\ reading' = <<Head(draws)>> /\ draws' = Tail(draws)
    /\ at' = 0 /\ copied' = {}
    /\ data_start' = End(Head(draws).chunks[Len(Head(draws).chunks)])
    /\ UNCHANGED <<area, data_end, next>>

\* read_mmap_draw: parse the chunk list of the next draw
Take ==
    /\ reading = <<>> /\ draws # <<>>
    /\ reading' = <<Head(draws)>> /\ draws' = Tail(draws)
    /\ at' = 0 /\ copied' = {}
    /\ UNCHANGED <<area, data_start, data_end, next>>

\* destride: copy the pixels out of the next chunk
CopyChunk ==
    /\ reading # <<>> /\ reading[1].valid /\ at < Len(reading[1].chunks)
    /\ at' = at + 1
    /\ copied' = copied \cup {area[o] : o \in Offsets(reading[1].chunks[at + 1])}
    /\ UNCHANGED <<area, data_start, data_end, next, draws, reading>>

\* a draw is released when it was copied, or refused by read_mmap_pixels
AllRead(d) == d.valid => at = Len(d.chunks)

\* the length of the last chunk rather than its end
LengthMutant(chunks) == chunks[Len(chunks)].length

\* the end of the first chunk rather than of the last
ReleasedMutant(chunks) == End(chunks[1])

Released(chunks) == End(chunks[Len(chunks)])

\* a refused draw returns early
ReleaseMutant ==
    /\ reading # <<>> /\ AllRead(reading[1])
    /\ data_start' = IF reading[1].valid THEN Released(reading[1].chunks)
                     ELSE data_start
    /\ reading' = <<>>
    /\ UNCHANGED <<area, data_end, next, draws, at, copied>>

\* release() moves data_start past the draw, whatever became of it
Release ==
    /\ reading # <<>> /\ AllRead(reading[1])
    /\ data_start' = Released(reading[1].chunks)
    /\ reading' = <<>>
    /\ UNCHANGED <<area, data_end, next, draws, at, copied>>

Decode == Take \/ CopyChunk \/ Release

Next ==
    \/ \E l \in 1..MaxLen, v \in BOOLEAN : \E c \in Placements(l) : ServerDraw(l, c, v)
    \/ Decode

\* the decode thread keeps running; the server need never draw
Spec == Init /\ [][Next]_vars /\ WF_vars(Decode)

-----------------------------------------------------------------------------
(* Properties *)

\* The decode thread only ever copies pixels of the draw it is decoding: the server, which
\* reuses whatever data_start has passed, never overwrites a frame before it was copied out,
\* wrapped and refused frames included (read_mmap_draw, release).
PixelsIntact == \A d \in Frames(reading) : copied \subseteq {d.tag}

\* Once every draw is decoded all of the ring is free again: data_start has caught up with
\* data_end, so no frame leaks space (release).
AllReclaimed == draws = <<>> /\ reading = <<>> => data_start = data_end

\* A full ring, with no room for even one byte, gets room again: every draw ends in a release,
\* so that no refused draw "would stall the session" (read_mmap_draw).
FullRingDrains == Placements(1) = {} ~> Placements(1) # {}
=============================================================================
