------------------------- MODULE FramebufferProofs -------------------------
(***************************************************************************)
(* Framebuffer for windows and draws of any size, and any number of them:  *)
(* painting stays inside the framebuffer and puts every pixel where it     *)
(* belongs, and a window that has caught up shows the server's picture.    *)
(*                                                                         *)
(* The linear offsets are one to one on the positions of the window, which *)
(* is what paint and the debug border rest on.  What the window shows is   *)
(* compared with the server's picture through the draws still queued: the  *)
(* last of them that covers a position decides what will be there.         *)
(***************************************************************************)
EXTENDS Framebuffer, FiniteSetTheorems, SequenceTheorems, TLAPS

Positive == Nat \ {0}
Draws == [seq : 1..MaxDraws, x : Int, y : Int, w : Nat, h : Nat, whole : BOOLEAN]
Size == <<window.width, window.height>>

\* the types, besides those of TypeOK
WindowTyped ==
    window \in [width : Positive, height : Positive, surface : {Size},
                framebuffer : [0..(window.width * window.height - 1) -> Pixel],
                paint_debug : BOOLEAN]

ServerTyped ==
    server \in [size : Positive \X Positive, reported : Positive \X Positive, owes : BOOLEAN,
                picture : [Area(server.size) -> Pixel]]

CountTyped ==
    count \in [draws : 0..MaxDraws, moves : 0..MaxMoves, asks : 0..MaxAsks, faults : 0..MaxFaults]

Typed ==
    /\ WindowTyped
    /\ native \in Sizes \cup {AtLeast1(s) : s \in Sizes} /\ events \in Nat /\ redraw \in BOOLEAN
    /\ draws \in Seq(Draws)
    /\ asks \in Seq(Sizes)
    /\ configures \in Seq(Positive \X Positive)
    /\ ServerTyped /\ CountTyped
    /\ canvas \in [Area(Size) -> Pixel]
    /\ broken \subseteq {"resize", "present"} /\ unseen \in BOOLEAN

\* the rectangle of d holds position p
Holds(d, p) == d.x <= p[1] /\ p[1] < d.x + d.w /\ d.y <= p[2] /\ p[2] < d.y + d.h

\* d decides what is at p once it is painted
Covers(d, p) == d.whole /\ Holds(d, p)

\* a window with no event queued has the native size, unless that came without an event, and
\* the surface what was drawn
SizeFollows == events = 0 /\ "resize" \notin broken => unseen \/ Size = AtLeast1(native)
ScreenFollows ==
    ~redraw /\ "present" \notin broken => screen = [size |-> Size, pixels |-> window.framebuffer]

\* the size reported last is the window's
SizeReported == "resize" \notin broken => LastReported = Size

\* the server has drawn its picture for the size reported last
Agreed ==
    /\ "resize" \notin broken /\ ~server.owes
    /\ \A i \in 1..Len(configures) : configures[i] = server.reported

\* what is at p, as far as the queued draws q do not change it
Current(q, p) ==
    (\A i \in 1..Len(q) : ~Covers(q[i], p)) =>
        canvas[p] \in {server.picture[p]} \cup (IF window.paint_debug THEN {Red} ELSE {})

\* what will be at p, of the last of the queued draws q that changes it
Coming(q, p) ==
    \A i \in 1..Len(q) :
        /\ Covers(q[i], p)
        /\ \A j \in (i + 1)..Len(q) : ~Covers(q[j], p)
        => server.picture[p] = Source(q[i], p[2] - q[i].y, p[1] - q[i].x)

CatchingUp ==
    Agreed => \A p \in DOMAIN canvas \cap DOMAIN server.picture :
                  Current(draws, p) /\ Coming(draws, p)

Inv ==
    /\ Typed /\ PixelsPlaced
    /\ SizeFollows /\ ScreenFollows /\ SizeReported /\ CatchingUp

-----------------------------------------------------------------------------
(* Offsets *)

\* The offset of a position inside a picture is inside its array (XpraWindow::paint).
LEMMA OffsetInside ==
    ASSUME NEW w \in Positive, NEW h \in Positive, NEW x \in 0..(w - 1), NEW y \in 0..(h - 1)
    PROVE  y * w + x \in 0..(w * h - 1)
<1>1. x \in Nat /\ y \in Nat /\ w \in Nat /\ h \in Nat /\ x < w /\ y + 1 <= h
  BY DEF Positive
<1>2. y * w \in Nat /\ w * h \in Nat
  BY <1>1
<1>3. (h - (y + 1)) \in Nat
  BY <1>1
<1>4. (h - (y + 1)) * w \in Nat
  BY <1>1, <1>3
<1>5. (h - (y + 1)) * w = w * h - y * w - w
  BY <1>1
<1>6. QED
  BY <1>1, <1>2, <1>4, <1>5

\* A row further on is at least a row's width further on.
LEMMA RowsApart ==
    ASSUME NEW w \in Nat, NEW y \in Nat, NEW v \in Nat, y < v
    PROVE  y * w + w <= v * w
<1>1. v - (y + 1) \in Nat
  OBVIOUS
<1>2. (v - (y + 1)) * w \in Nat
  BY <1>1
<1>3. (v - (y + 1)) * w = v * w - y * w - w
  OBVIOUS
<1>4. y * w \in Nat /\ v * w \in Nat
  OBVIOUS
<1>5. QED
  BY <1>2, <1>3, <1>4

\* Two positions of a picture have two offsets.
LEMMA OffsetOnce ==
    ASSUME NEW w \in Nat, NEW x \in 0..(w - 1), NEW u \in 0..(w - 1), NEW y \in Nat, NEW v \in Nat,
           y * w + x = v * w + u
    PROVE  x = u /\ y = v
<1>1. y * w \in Nat /\ v * w \in Nat
  OBVIOUS
<1>2. ~(y < v)
  <2>1. SUFFICES ASSUME y < v PROVE FALSE
    OBVIOUS
  <2>2. y * w + w <= v * w
    BY <2>1, RowsApart
  <2>3. QED
    BY <1>1, <2>2
<1>3. ~(v < y)
  <2>1. SUFFICES ASSUME v < y PROVE FALSE
    OBVIOUS
  <2>2. v * w + w <= y * w
    BY <2>1, RowsApart
  <2>3. QED
    BY <1>1, <2>2
<1>4. y = v
  BY <1>2, <1>3
<1>5. QED
  BY <1>1, <1>4

\* The greater and the lesser of two numbers (max and min in draw_debug_border).
LEMMA MaxMin ==
    ASSUME NEW a \in Int, NEW b \in Int
    PROVE  /\ Max({a, b}) = IF a >= b THEN a ELSE b
           /\ Min({a, b}) = IF a <= b THEN a ELSE b
  BY DEF Max, Min

\* What a window is made of.
LEMMA WindowParts ==
    ASSUME WindowTyped
    PROVE  /\ window.width \in Positive /\ window.height \in Positive
           /\ window.width \in Nat /\ window.height \in Nat
           /\ window.surface = Size /\ window.paint_debug \in BOOLEAN
           /\ window.framebuffer \in [0..(window.width * window.height - 1) -> Pixel]
  BY DEF WindowTyped, Positive

\* The positions of the window.
LEMMA Positions ==
    ASSUME WindowTyped
    PROVE  \A p \in Area(Size) :
             /\ p = <<p[1], p[2]>> /\ p[1] \in Nat /\ p[2] \in Nat
             /\ p[1] \in 0..(window.width - 1) /\ p[2] \in 0..(window.height - 1)
             /\ Offset(p[1], p[2]) \in 0..(window.width * window.height - 1)
<1>1. window.width \in Positive /\ window.height \in Positive /\ window.width \in Nat
      /\ window.height \in Nat
  BY WindowParts
<1>2. ASSUME NEW p \in Area(Size)
      PROVE  /\ p = <<p[1], p[2]>> /\ p[1] \in Nat /\ p[2] \in Nat
             /\ p[1] \in 0..(window.width - 1) /\ p[2] \in 0..(window.height - 1)
  BY <1>1 DEF Area, Size
<1>3. ASSUME NEW p \in Area(Size)
      PROVE  Offset(p[1], p[2]) \in 0..(window.width * window.height - 1)
  BY <1>1, <1>2, OffsetInside DEF Offset
<1>4. QED
  BY <1>2, <1>3

\* No two of them have the same offset.
LEMMA PositionsApart ==
    ASSUME WindowTyped, NEW p \in Area(Size), NEW q \in Area(Size),
           Offset(p[1], p[2]) = Offset(q[1], q[2])
    PROVE  p = q
<1>1. window.width \in Nat
  BY WindowParts
<1>2. /\ p = <<p[1], p[2]>> /\ p[1] \in 0..(window.width - 1) /\ p[2] \in Nat
      /\ q = <<q[1], q[2]>> /\ q[1] \in 0..(window.width - 1) /\ q[2] \in Nat
  BY Positions
<1>3. p[2] * window.width + p[1] = q[2] * window.width + q[1]
  BY DEF Offset
<1>4. p[1] = q[1] /\ p[2] = q[2]
  BY <1>1, <1>2, <1>3, OffsetOnce
<1>5. QED
  BY <1>2, <1>4

-----------------------------------------------------------------------------
(* Painting *)

\* paint writes inside the framebuffer, at the positions of the window that the draw holds, the
\* pixels of that row and column of the draw.
LEMMA CompositePixels ==
    ASSUME WindowTyped, NEW d \in Draws
    PROVE  /\ \A o \in DOMAIN Composite(d) :
                o \in DOMAIN window.framebuffer /\ Composite(d)[o] \in Pixel
           /\ \A p \in Area(Size) :
                /\ Offset(p[1], p[2]) \in DOMAIN Composite(d) <=> Holds(d, p)
                /\ Holds(d, p) =>
                     Composite(d)[Offset(p[1], p[2])] = Source(d, p[2] - d.y, p[1] - d.x)
<1> DEFINE place(c) == <<d.x + c[1], d.y + c[2]>>
           at(c) == Offset(d.x + c[1], d.y + c[2])
<1>1. window.width \in Nat /\ window.height \in Nat
  BY WindowParts
<1>2. d.seq \in Nat /\ d.x \in Int /\ d.y \in Int /\ d.w \in Nat /\ d.h \in Nat
  BY FramebufferAssumption DEF Draws
<1>3. ASSUME NEW c \in Kept(d)
      PROVE  /\ c = <<c[1], c[2]>> /\ c[1] \in Nat /\ c[2] \in Nat
             /\ c[1] < d.w /\ c[2] < d.h
             /\ place(c) \in Area(Size)
  <2>1. /\ c \in Area(<<d.w, d.h>>)
        /\ 0 <= d.x + c[1] /\ d.x + c[1] < window.width
        /\ 0 <= d.y + c[2] /\ d.y + c[2] < window.height
    BY DEF Kept
  <2>2. c = <<c[1], c[2]>> /\ c[1] \in 0..(d.w - 1) /\ c[2] \in 0..(d.h - 1)
    BY <2>1 DEF Area
  <2>3. d.x + c[1] \in 0..(window.width - 1) /\ d.y + c[2] \in 0..(window.height - 1)
    BY <1>1, <1>2, <2>1, <2>2
  <2>4. place(c) \in Area(Size)
    BY <2>3 DEF Area, Size
  <2>5. QED
    BY <1>2, <2>2, <2>4
<1>4. ASSUME NEW c \in Kept(d)
      PROVE  at(c) = Offset(place(c)[1], place(c)[2]) /\ at(c) \in DOMAIN window.framebuffer
  <2>1. DOMAIN window.framebuffer = 0..(window.width * window.height - 1)
    BY WindowParts
  <2>2. QED
    BY <1>3, <2>1, Positions
<1>5. ASSUME NEW c \in Kept(d), NEW e \in Kept(d), at(c) = at(e)
      PROVE  c = e
  <2>1. place(c) = place(e)
    BY <1>3, <1>4, <1>5, PositionsApart
  <2>2. d.x + c[1] = d.x + e[1] /\ d.y + c[2] = d.y + e[2]
    BY <2>1
  <2>3. /\ c[1] \in Nat /\ c[2] \in Nat /\ c = <<c[1], c[2]>>
        /\ e[1] \in Nat /\ e[2] \in Nat /\ e = <<e[1], e[2]>>
    BY <1>3
  <2>4. c[1] = e[1] /\ c[2] = e[2]
    BY <1>2, <2>2, <2>3
  <2>5. QED
    BY <2>3, <2>4
<1>6. DOMAIN Composite(d) = {at(c) : c \in Kept(d)}
  BY DEF Composite
<1>7. ASSUME NEW c \in Kept(d)
      PROVE  Composite(d)[at(c)] = Source(d, c[2], c[1])
  <2>1. (CHOOSE e \in Kept(d) : at(e) = at(c)) = c
    BY <1>5
  <2>2. Composite(d)[at(c)]
        = LET e == CHOOSE e \in Kept(d) : at(e) = at(c) IN Source(d, e[2], e[1])
    BY DEF Composite
  <2>3. QED
    BY <2>1, <2>2
<1>8. ASSUME NEW o \in DOMAIN Composite(d)
      PROVE  o \in DOMAIN window.framebuffer /\ Composite(d)[o] \in Pixel
  <2>1. PICK c \in Kept(d) : o = at(c)
    BY <1>6
  <2>2. Source(d, c[2], c[1]) \in Pixel
    BY <1>2, <1>3 DEF Source, Pixel
  <2>3. QED
    BY <1>4, <1>7, <2>1, <2>2
<1>9. ASSUME NEW p \in Area(Size), Holds(d, p)
      PROVE  /\ Offset(p[1], p[2]) \in DOMAIN Composite(d)
             /\ Composite(d)[Offset(p[1], p[2])] = Source(d, p[2] - d.y, p[1] - d.x)
  <2> DEFINE c == <<p[1] - d.x, p[2] - d.y>>
  <2>1. p[1] \in 0..(window.width - 1) /\ p[2] \in 0..(window.height - 1)
    BY Positions
  <2>2. /\ p[1] - d.x \in 0..(d.w - 1) /\ p[2] - d.y \in 0..(d.h - 1)
        /\ d.x + (p[1] - d.x) = p[1] /\ d.y + (p[2] - d.y) = p[2]
        /\ 0 <= p[1] /\ p[1] < window.width /\ 0 <= p[2] /\ p[2] < window.height
    BY <1>1, <1>2, <1>9, <2>1 DEF Holds
  <2>3. c \in Area(<<d.w, d.h>>) /\ d.x + c[1] = p[1] /\ d.y + c[2] = p[2]
    BY <2>2 DEF Area
  <2>4. c \in Kept(d)
    BY <2>2, <2>3 DEF Kept
  <2>5. at(c) = Offset(p[1], p[2])
    BY <2>3
  <2>6. QED
    BY <1>6, <1>7, <2>4, <2>5
<1>10. ASSUME NEW p \in Area(Size), Offset(p[1], p[2]) \in DOMAIN Composite(d)
       PROVE  Holds(d, p)
  <2>1. PICK c \in Kept(d) : Offset(p[1], p[2]) = at(c)
    BY <1>6, <1>10
  <2>2. p = place(c)
    BY <1>3, <1>4, <2>1, PositionsApart
  <2>3. QED
    BY <1>2, <1>3, <2>2 DEF Holds
<1>11. QED
  BY <1>8, <1>9, <1>10
\* the positions of the window that d holds, and its bounds, as draw_debug_border takes them
Inside(d) == {p \in Area(Size) : Holds(d, p)}
X0(d) == Max({d.x, 0})
Y0(d) == Max({d.y, 0})
X1(d) == Min({Max({d.x + d.w, 0}), window.width})
Y1(d) == Min({Max({d.y + d.h, 0}), window.height})
InBounds(d, x, y) == X0(d) <= x /\ x < X1(d) /\ Y0(d) <= y /\ y < Y1(d)

\* a neighbour of p is not among them
Neighbours(p) == {<<p[1] - 1, p[2]>>, <<p[1] + 1, p[2]>>, <<p[1], p[2] - 1>>, <<p[1], p[2] + 1>>}
AtEdge(d, p) == \E n \in Neighbours(p) : n \notin Inside(d)

\* The part of a draw inside the window is the rectangle between these bounds
\* (draw_debug_border).
LEMMA Bounds ==
    ASSUME WindowTyped, NEW d \in Draws
    PROVE  /\ X0(d) \in Nat /\ Y0(d) \in Nat /\ X1(d) \in Nat /\ Y1(d) \in Nat
           /\ X1(d) <= window.width /\ Y1(d) <= window.height
           /\ \A x, y \in Int : <<x, y>> \in Inside(d) <=> InBounds(d, x, y)
<1>1. window.width \in Nat /\ window.height \in Nat
  BY WindowParts
<1>2. d.x \in Int /\ d.y \in Int /\ d.w \in Nat /\ d.h \in Nat
  BY DEF Draws
<1>3. /\ X0(d) = IF d.x >= 0 THEN d.x ELSE 0
      /\ Y0(d) = IF d.y >= 0 THEN d.y ELSE 0
  BY <1>2, MaxMin DEF X0, Y0
<1>4. X1(d) = IF (IF d.x + d.w >= 0 THEN d.x + d.w ELSE 0) <= window.width
              THEN (IF d.x + d.w >= 0 THEN d.x + d.w ELSE 0) ELSE window.width
  <2>1. Max({d.x + d.w, 0}) = IF d.x + d.w >= 0 THEN d.x + d.w ELSE 0
    BY <1>2, MaxMin
  <2>2. Max({d.x + d.w, 0}) \in Int
    BY <1>2, <2>1
  <2>3. \A m, n \in Int : Min({m, n}) = IF m <= n THEN m ELSE n
    BY MaxMin
  <2> DEFINE m == Max({d.x + d.w, 0})
  <2>4. X1(d) = Min({m, window.width})
    BY DEF X1
  <2>5. m \in Int /\ window.width \in Int
    BY <1>1, <2>2
  <2> HIDE DEF m
  <2>6. Min({m, window.width}) = IF m <= window.width THEN m ELSE window.width
    BY <2>3, <2>5, Zenon
  <2>7. QED
    BY <2>1, <2>4, <2>6 DEF m
<1>5. Y1(d) = IF (IF d.y + d.h >= 0 THEN d.y + d.h ELSE 0) <= window.height
              THEN (IF d.y + d.h >= 0 THEN d.y + d.h ELSE 0) ELSE window.height
  <2>1. Max({d.y + d.h, 0}) = IF d.y + d.h >= 0 THEN d.y + d.h ELSE 0
    BY <1>2, MaxMin
  <2>2. Max({d.y + d.h, 0}) \in Int
    BY <1>2, <2>1
  <2>3. \A m, n \in Int : Min({m, n}) = IF m <= n THEN m ELSE n
    BY MaxMin
  <2> DEFINE m == Max({d.y + d.h, 0})
  <2>4. Y1(d) = Min({m, window.height})
    BY DEF Y1
  <2>5. m \in Int /\ window.height \in Int
    BY <1>1, <2>2
  <2> HIDE DEF m
  <2>6. Min({m, window.height}) = IF m <= window.height THEN m ELSE window.height
    BY <2>3, <2>5, Zenon
  <2>7. QED
    BY <2>1, <2>4, <2>6 DEF m
<1>6. /\ X0(d) \in Nat /\ Y0(d) \in Nat /\ X1(d) \in Nat /\ Y1(d) \in Nat
      /\ X1(d) <= window.width /\ Y1(d) <= window.height
  BY <1>1, <1>2, <1>3, <1>4, <1>5
<1>7. ASSUME NEW x \in Int, NEW y \in Int
      PROVE  <<x, y>> \in Inside(d) <=> InBounds(d, x, y)
  <2>1. <<x, y>> \in Inside(d) <=>
          /\ 0 <= x /\ x < window.width /\ 0 <= y /\ y < window.height
          /\ d.x <= x /\ x < d.x + d.w /\ d.y <= y /\ y < d.y + d.h
    BY <1>1, <1>2 DEF Inside, Holds, Area, Size
  <2>2. (X0(d) <= x /\ x < X1(d)) <=>
          (0 <= x /\ x < window.width /\ d.x <= x /\ x < d.x + d.w)
    BY <1>1, <1>2, <1>3, <1>4
  <2>3. (Y0(d) <= y /\ y < Y1(d)) <=>
          (0 <= y /\ y < window.height /\ d.y <= y /\ y < d.y + d.h)
    BY <1>1, <1>2, <1>3, <1>5
  <2>4. QED
    BY <2>1, <2>2, <2>3 DEF InBounds
<1>8. QED
  BY <1>6, <1>7

\* The positions inside that have a neighbour outside are those in the first and the last row
\* and column (draw_debug_border).
LEMMA EdgePlaces ==
    ASSUME WindowTyped, NEW d \in Draws, NEW p \in Area(Size)
    PROVE  p \in Inside(d) /\ AtEdge(d, p) <=>
             /\ InBounds(d, p[1], p[2])
             /\ \/ p[1] = X0(d) \/ p[1] = X1(d) - 1
                \/ p[2] = Y0(d) \/ p[2] = Y1(d) - 1
<1>1. /\ X0(d) \in Nat /\ Y0(d) \in Nat /\ X1(d) \in Nat /\ Y1(d) \in Nat
      /\ \A x, y \in Int : <<x, y>> \in Inside(d) <=> InBounds(d, x, y)
  BY Bounds
<1>2. p = <<p[1], p[2]>> /\ p[1] \in Nat /\ p[2] \in Nat
  BY Positions
<1>3. p \in Inside(d) <=> InBounds(d, p[1], p[2])
  <2>1. <<p[1], p[2]>> \in Inside(d) <=> InBounds(d, p[1], p[2])
    BY <1>1, <1>2
  <2>2. QED
    BY <1>2, <2>1
<1>4. AtEdge(d, p) <=> \/ ~InBounds(d, p[1] - 1, p[2]) \/ ~InBounds(d, p[1] + 1, p[2])
                       \/ ~InBounds(d, p[1], p[2] - 1) \/ ~InBounds(d, p[1], p[2] + 1)
  <2>1. p[1] - 1 \in Int /\ p[1] + 1 \in Int /\ p[2] - 1 \in Int /\ p[2] + 1 \in Int
        /\ p[1] \in Int /\ p[2] \in Int
    BY <1>2
  <2>2. /\ <<p[1] - 1, p[2]>> \in Inside(d) <=> InBounds(d, p[1] - 1, p[2])
        /\ <<p[1] + 1, p[2]>> \in Inside(d) <=> InBounds(d, p[1] + 1, p[2])
        /\ <<p[1], p[2] - 1>> \in Inside(d) <=> InBounds(d, p[1], p[2] - 1)
        /\ <<p[1], p[2] + 1>> \in Inside(d) <=> InBounds(d, p[1], p[2] + 1)
    BY <1>1, <2>1
  <2>3. QED
    BY <2>2 DEF AtEdge, Neighbours
<1>5. InBounds(d, p[1], p[2]) =>
        ((\/ ~InBounds(d, p[1] - 1, p[2]) \/ ~InBounds(d, p[1] + 1, p[2])
          \/ ~InBounds(d, p[1], p[2] - 1) \/ ~InBounds(d, p[1], p[2] + 1))
         <=> \/ p[1] = X0(d) \/ p[1] = X1(d) - 1
             \/ p[2] = Y0(d) \/ p[2] = Y1(d) - 1)
  BY <1>1, <1>2 DEF InBounds
<1>6. QED
  BY <1>3, <1>4, <1>5
\* draw_debug_border writes inside the framebuffer, at the positions of the draw's edge.
LEMMA EdgePixels ==
    ASSUME WindowTyped, NEW d \in Draws
    PROVE  /\ \A o \in Edges(d) : o \in DOMAIN window.framebuffer
           /\ \A p \in Area(Size) :
                Offset(p[1], p[2]) \in Edges(d) <=> p \in Inside(d) /\ AtEdge(d, p)
<1> DEFINE edge == ((X0(d)..(X1(d) - 1)) \X {Y0(d), Y1(d) - 1})
                   \cup ({X0(d), X1(d) - 1} \X (Y0(d)..(Y1(d) - 1)))
           drawn == {p \in edge : p[1] < window.width /\ p[2] < window.height}
           none == X1(d) <= X0(d) \/ Y1(d) <= Y0(d)
<1>1. Edges(d) = IF none THEN {} ELSE {Offset(p[1], p[2]) : p \in drawn}
  BY DEF Edges, X0, X1, Y0, Y1
<1>2. /\ X0(d) \in Nat /\ Y0(d) \in Nat /\ X1(d) \in Nat /\ Y1(d) \in Nat
      /\ X1(d) <= window.width /\ Y1(d) <= window.height
  BY Bounds
<1>3. window.width \in Nat /\ window.height \in Nat
  BY WindowParts
<1>4. CASE none
  <2>1. ASSUME NEW p \in Area(Size) PROVE ~(p \in Inside(d) /\ AtEdge(d, p))
    <3>1. p[1] \in Nat /\ p[2] \in Nat
      BY Positions
    <3>2. ~InBounds(d, p[1], p[2])
      BY <1>2, <1>4, <3>1 DEF InBounds
    <3>3. QED
      BY <3>2, EdgePlaces
  <2>2. QED
    BY <1>1, <1>4, <2>1
<1>5. CASE ~none
  <2>1. ASSUME NEW q \in drawn
        PROVE  q \in Area(Size) /\ q \in Inside(d) /\ AtEdge(d, q)
    <3>1. /\ q = <<q[1], q[2]>>
          /\ \/ q[1] \in X0(d)..(X1(d) - 1) /\ q[2] \in {Y0(d), Y1(d) - 1}
             \/ q[1] \in {X0(d), X1(d) - 1} /\ q[2] \in Y0(d)..(Y1(d) - 1)
      OBVIOUS
    <3>2. /\ X0(d) <= q[1] /\ q[1] < X1(d) /\ q[1] \in Nat
          /\ Y0(d) <= q[2] /\ q[2] < Y1(d) /\ q[2] \in Nat
      BY <1>2, <1>5, <3>1
    <3>3. q[1] \in 0..(window.width - 1) /\ q[2] \in 0..(window.height - 1)
      BY <1>2, <1>3, <3>2
    <3>4. q \in Area(Size)
      BY <3>1, <3>3 DEF Area, Size
    <3>5. InBounds(d, q[1], q[2])
      BY <3>2 DEF InBounds
    <3>6. \/ q[1] = X0(d) \/ q[1] = X1(d) - 1
          \/ q[2] = Y0(d) \/ q[2] = Y1(d) - 1
      BY <3>1
    <3>7. QED
      BY <3>4, <3>5, <3>6, EdgePlaces
  <2>2. ASSUME NEW p \in Area(Size), p \in Inside(d), AtEdge(d, p)
        PROVE  p \in drawn
    <3>1. /\ p = <<p[1], p[2]>> /\ p[1] \in Nat /\ p[2] \in Nat
          /\ p[1] \in 0..(window.width - 1) /\ p[2] \in 0..(window.height - 1)
      BY Positions
    <3>2. /\ X0(d) <= p[1] /\ p[1] < X1(d) /\ Y0(d) <= p[2] /\ p[2] < Y1(d)
          /\ \/ p[1] = X0(d) \/ p[1] = X1(d) - 1
             \/ p[2] = Y0(d) \/ p[2] = Y1(d) - 1
      BY <2>2, EdgePlaces DEF InBounds
    <3>3. p[1] \in X0(d)..(X1(d) - 1) /\ p[2] \in Y0(d)..(Y1(d) - 1)
      BY <1>2, <3>1, <3>2
    <3>4. <<p[1], p[2]>> \in edge
      BY <3>2, <3>3
    <3>5. p[1] < window.width /\ p[2] < window.height
      BY <1>3, <3>1
    <3>6. QED
      BY <3>1, <3>4, <3>5
  <2>3. Edges(d) = {Offset(p[1], p[2]) : p \in drawn}
    BY <1>1, <1>5
  <2> HIDE DEF drawn
  <2>4. ASSUME NEW o \in Edges(d) PROVE o \in DOMAIN window.framebuffer
    <3>1. PICK q \in drawn : o = Offset(q[1], q[2])
      BY <2>3
    <3>2. DOMAIN window.framebuffer = 0..(window.width * window.height - 1)
      BY WindowParts
    <3>3. QED
      BY <2>1, <3>1, <3>2, Positions
  <2>5. ASSUME NEW p \in Area(Size), Offset(p[1], p[2]) \in Edges(d)
        PROVE  p \in Inside(d) /\ AtEdge(d, p)
    <3>1. PICK q \in drawn : Offset(p[1], p[2]) = Offset(q[1], q[2])
      BY <2>3, <2>5
    <3>2. p = q
      BY <2>1, <3>1, PositionsApart
    <3>3. QED
      BY <2>1, <3>2
  <2>6. ASSUME NEW p \in Area(Size), p \in Inside(d), AtEdge(d, p)
        PROVE  Offset(p[1], p[2]) \in Edges(d)
    BY <2>2, <2>3, <2>6
  <2>7. QED
    BY <2>4, <2>5, <2>6
<1>6. QED
  BY <1>4, <1>5

\* What painting a draw leaves: the same array, with the draw's pixels and border where the draw
\* is and what was there elsewhere (paint).
LEMMA PaintedPixels ==
    ASSUME WindowTyped, NEW d \in Draws
    PROVE  /\ Painted(d) \in [0..(window.width * window.height - 1) -> Pixel]
           /\ \A p \in Area(Size) :
                Painted(d)[Offset(p[1], p[2])] =
                  IF p \notin Inside(d) THEN window.framebuffer[Offset(p[1], p[2])]
                  ELSE IF window.paint_debug /\ AtEdge(d, p) THEN Red
                  ELSE Source(d, p[2] - d.y, p[1] - d.x)
<1> DEFINE cells == 0..(window.width * window.height - 1)
           border == IF window.paint_debug THEN Edges(d) ELSE {}
           C == Composite(d)
           F == window.framebuffer
<1>1. F \in [cells -> Pixel]
  BY WindowParts
<1>2. /\ \A o \in DOMAIN C : o \in cells /\ C[o] \in Pixel
      /\ \A o \in border : o \in cells
  BY <1>1, CompositePixels, EdgePixels
<1>3. Red \in Pixel
  BY DEF Pixel
<1>4. Painted(d) = [o \in border \cup (DOMAIN C \cup cells) |->
                      IF o \in border THEN Red ELSE IF o \in DOMAIN C THEN C[o] ELSE F[o]]
  <2>1. Over(C, F) = [o \in DOMAIN C \cup cells |-> IF o \in DOMAIN C THEN C[o] ELSE F[o]]
    BY <1>1 DEF Over
  <2>2. Painted(d) = Over([o \in border |-> Red], Over(C, F))
    BY DEF Painted
  <2> HIDE DEF C, F, cells, border
  <2>3. QED
    BY <2>1, <2>2 DEF Over
<1>5. ASSUME NEW p \in Area(Size)
      PROVE  /\ Offset(p[1], p[2]) \in cells
             /\ Offset(p[1], p[2]) \in border <=>
                  window.paint_debug /\ p \in Inside(d) /\ AtEdge(d, p)
             /\ Offset(p[1], p[2]) \in DOMAIN C <=> p \in Inside(d)
             /\ p \in Inside(d) =>
                  C[Offset(p[1], p[2])] = Source(d, p[2] - d.y, p[1] - d.x)
  <2>1. p \in Inside(d) <=> Holds(d, p)
    BY DEF Inside
  <2>2. Offset(p[1], p[2]) \in cells
    BY Positions
  <2>3. /\ Offset(p[1], p[2]) \in DOMAIN C <=> Holds(d, p)
        /\ Holds(d, p) => C[Offset(p[1], p[2])] = Source(d, p[2] - d.y, p[1] - d.x)
    BY CompositePixels
  <2>4. Offset(p[1], p[2]) \in Edges(d) <=> p \in Inside(d) /\ AtEdge(d, p)
    BY EdgePixels
  <2>5. QED
    BY <2>1, <2>2, <2>3, <2>4
<1> HIDE DEF C, F, cells, border
<1>6. Painted(d) \in [cells -> Pixel]
  BY <1>1, <1>2, <1>3, <1>4
<1>7. ASSUME NEW p \in Area(Size)
      PROVE  Painted(d)[Offset(p[1], p[2])] =
                  IF p \notin Inside(d) THEN F[Offset(p[1], p[2])]
                  ELSE IF window.paint_debug /\ AtEdge(d, p) THEN Red
                  ELSE Source(d, p[2] - d.y, p[1] - d.x)
  <2> DEFINE o == Offset(p[1], p[2])
  <2>1. Painted(d)[o] = IF o \in border THEN Red ELSE IF o \in DOMAIN C THEN C[o] ELSE F[o]
    <3>1. o \in cells
      BY <1>5
    <3> HIDE DEF o
    <3>2. QED
      BY <1>4, <3>1
  <2>2. QED
    BY <1>5, <2>1
<1>8. QED
  BY <1>6, <1>7 DEF F, cells
\* What a draw shows is what painting it leaves where it is (process_draw_decoded).
LEMMA ShownPixels ==
    ASSUME NEW d \in Draws, NEW debug \in BOOLEAN
    PROVE  Shown(d, Area(Size), debug) =
             [p \in Inside(d) |-> IF debug /\ AtEdge(d, p) THEN Red
                                  ELSE Source(d, p[2] - d.y, p[1] - d.x)]
<1> DEFINE inside == {p \in Area(Size) : /\ d.x <= p[1] /\ p[1] < d.x + d.w
                                         /\ d.y <= p[2] /\ p[2] < d.y + d.h}
           atEdge(p) == \E n \in {<<p[1] - 1, p[2]>>, <<p[1] + 1, p[2]>>,
                                  <<p[1], p[2] - 1>>, <<p[1], p[2] + 1>>} : n \notin inside
<1>1. inside = Inside(d)
  BY DEF Inside, Holds
<1>2. ASSUME NEW p \in Inside(d) PROVE atEdge(p) <=> AtEdge(d, p)
  BY <1>1 DEF AtEdge, Neighbours
<1>3. Shown(d, Area(Size), debug) =
        [p \in inside |-> IF debug /\ atEdge(p) THEN Red ELSE Source(d, p[2] - d.y, p[1] - d.x)]
  BY DEF Shown
<1> HIDE DEF inside, atEdge
<1>4. QED
  BY <1>1, <1>2, <1>3

\* A draw adds its pixels, and no border, to the server's picture.
LEMMA PictureDrawn ==
    ASSUME NEW d \in Draws, NEW a \in (Positive \X Positive), NEW f \in [Area(a) -> Pixel]
    PROVE  LET g == Over(Shown(d, Area(a), FALSE), f)
           IN /\ g \in [Area(a) -> Pixel]
              /\ \A p \in Area(a) :
                    g[p] = IF Holds(d, p) THEN Source(d, p[2] - d.y, p[1] - d.x) ELSE f[p]
<1> DEFINE inside == {p \in Area(a) : Holds(d, p)}
           s == [p \in inside |-> Source(d, p[2] - d.y, p[1] - d.x)]
           g == Over(Shown(d, Area(a), FALSE), f)
<1>1. Shown(d, Area(a), FALSE) = s
  BY DEF Shown, Holds
<1>2. ASSUME NEW p \in inside PROVE Source(d, p[2] - d.y, p[1] - d.x) \in Pixel
  <2>1. d.seq \in Nat /\ d.x \in Int /\ d.y \in Int /\ d.w \in Nat /\ d.h \in Nat
    BY FramebufferAssumption DEF Draws
  <2>2. p[1] \in Nat /\ p[2] \in Nat
    BY DEF Area, Positive
  <2>3. d.x <= p[1] /\ d.y <= p[2]
    BY DEF Holds
  <2>4. p[2] - d.y \in Nat /\ p[1] - d.x \in Nat
    BY <2>1, <2>2, <2>3
  <2>5. QED
    BY <2>1, <2>4 DEF Source, Pixel
<1>3. g = [p \in Area(a) |-> IF p \in inside THEN s[p] ELSE f[p]]
  <2>1. DOMAIN s = inside /\ DOMAIN f = Area(a) /\ inside \cup Area(a) = Area(a)
    OBVIOUS
  <2> HIDE DEF s, inside
  <2>2. QED
    BY <1>1, <2>1 DEF Over
<1>4. \A p \in Area(a) :
         g[p] = IF Holds(d, p) THEN Source(d, p[2] - d.y, p[1] - d.x) ELSE f[p]
  BY <1>3
<1>5. g \in [Area(a) -> Pixel]
  <2>1. ASSUME NEW p \in Area(a) PROVE g[p] \in Pixel
    BY <1>2, <1>4
  <2> HIDE DEF s, inside
  <2>2. DOMAIN g = Area(a) /\ g = [p \in Area(a) |-> g[p]]
    BY <1>3
  <2> HIDE DEF g
  <2>3. QED
    BY <2>1, <2>2
<1>6. QED
  BY <1>4, <1>5

-----------------------------------------------------------------------------
(* Sizes *)

\* A size of at least one pixel each way (resize, and draw_size in window.rs).
LEMMA AtLeast1Type ==
    ASSUME NEW s \in Nat \X Nat
    PROVE  AtLeast1(s) \in Positive \X Positive
<1>1. s[1] \in Nat /\ s[2] \in Nat /\ 1 \in Int
  OBVIOUS
<1>2. /\ Max({s[1], 1}) = IF s[1] >= 1 THEN s[1] ELSE 1
      /\ Max({s[2], 1}) = IF s[2] >= 1 THEN s[2] ELSE 1
  BY <1>1, MaxMin
<1>3. Max({s[1], 1}) \in Positive /\ Max({s[2], 1}) \in Positive
  BY <1>1, <1>2 DEF Positive
<1>4. QED
  BY <1>3 DEF AtLeast1

\* The sizes a window can have.
LEMMA SizesTyped ==
    ASSUME Typed
    PROVE  /\ AtLeast1(native) \in Positive \X Positive
           /\ \A s \in Sizes : AtLeast1(s) \in Positive \X Positive
<1>1. \A s \in Sizes : s \in Nat \X Nat /\ AtLeast1(s) \in Positive \X Positive
  BY FramebufferAssumption, AtLeast1Type
<1>2. native \in Nat \X Nat
  BY <1>1 DEF Typed, Positive
<1>3. QED
  BY <1>1, <1>2, AtLeast1Type

\* A new framebuffer and picture are blank everywhere (resize).
LEMMA NewPictures ==
    ASSUME NEW r \in Positive \X Positive
    PROVE  /\ NewBuffer(r) \in [0..(r[1] * r[2] - 1) -> Pixel]
           /\ NewCanvas(r) \in [Area(r) -> Pixel]
           /\ \A p \in Area(r) :
                NewCanvas(r)[p] = Blank /\ NewBuffer(r)[p[2] * r[1] + p[1]] = Blank
<1>1. Blank \in Pixel
  BY DEF Pixel
<1>2. NewBuffer(r) \in [0..(r[1] * r[2] - 1) -> Pixel] /\ NewCanvas(r) \in [Area(r) -> Pixel]
  BY <1>1 DEF NewBuffer, NewCanvas
<1>3. ASSUME NEW p \in Area(r)
      PROVE  NewCanvas(r)[p] = Blank /\ NewBuffer(r)[p[2] * r[1] + p[1]] = Blank
  <2>1. p[1] \in 0..(r[1] - 1) /\ p[2] \in 0..(r[2] - 1) /\ r[1] \in Positive /\ r[2] \in Positive
    BY DEF Area
  <2>2. p[2] * r[1] + p[1] \in 0..(r[1] * r[2] - 1)
    BY <2>1, OffsetInside
  <2>3. NewCanvas(r)[p] = Blank
    BY DEF NewCanvas
  <2> DEFINE o == p[2] * r[1] + p[1]
  <2> HIDE DEF o
  <2>4. NewBuffer(r)[o] = Blank
    BY <2>2 DEF NewBuffer, o
  <2>5. QED
    BY <2>3, <2>4 DEF o
<1>4. QED
  BY <1>2, <1>3
-----------------------------------------------------------------------------
(* The handlers *)

\* The first of some queued items is handled, the others move up.
LEMMA QueueMoves ==
    ASSUME NEW S, NEW q \in Seq(S), q # <<>>
    PROVE  /\ Head(q) \in S /\ Head(q) = q[1] /\ Tail(q) \in Seq(S)
           /\ Len(Tail(q)) \in Nat /\ Len(q) = Len(Tail(q)) + 1
           /\ \A i \in 1..Len(Tail(q)) : Tail(q)[i] = q[i + 1]
  OBVIOUS

\* A draw handled: its pixels and border go to the framebuffer and to what the window shows, and
\* nothing else of the window changes (process_draw_decoded).
LEMMA Drawn ==
    ASSUME Typed, ProcessDrawDecoded
    PROVE  LET d == Head(draws)
               drawn(p) == IF window.paint_debug /\ AtEdge(d, p) THEN Red
                           ELSE Source(d, p[2] - d.y, p[1] - d.x)
           IN /\ draws # <<>> /\ d \in Draws /\ draws' = Tail(draws)
              /\ WindowTyped' /\ Size' = Size /\ window'.width = window.width
              /\ window'.paint_debug = window.paint_debug
              /\ canvas' \in [Area(Size) -> Pixel]
              /\ \A p \in Area(Size) :
                   /\ canvas'[p] = IF d.whole /\ p \in Inside(d) THEN drawn(p) ELSE canvas[p]
                   /\ window'.framebuffer[Offset(p[1], p[2])] =
                        IF d.whole /\ p \in Inside(d) THEN drawn(p)
                        ELSE window.framebuffer[Offset(p[1], p[2])]
              /\ d.whole => redraw' = TRUE
              /\ ~d.whole => window' = window /\ canvas' = canvas /\ redraw' = redraw
<1> DEFINE d == Head(draws)
           drawn(p) == IF window.paint_debug /\ AtEdge(d, p) THEN Red
                       ELSE Source(d, p[2] - d.y, p[1] - d.x)
<1>1. /\ draws # <<>> /\ draws' = Tail(draws)
      /\ d.whole => /\ window' = [window EXCEPT !.framebuffer = Painted(d)]
                    /\ canvas' = Over(Shown(d, DOMAIN canvas, window.paint_debug), canvas)
                    /\ redraw' = TRUE
      /\ ~d.whole => window' = window /\ canvas' = canvas /\ redraw' = redraw
  BY DEF ProcessDrawDecoded
<1>2. WindowTyped /\ draws \in Seq(Draws) /\ canvas \in [Area(Size) -> Pixel]
  BY DEF Typed
<1>3. d \in Draws
  BY <1>1, <1>2, QueueMoves
<1>4. /\ window.paint_debug \in BOOLEAN
      /\ window.framebuffer \in [0..(window.width * window.height - 1) -> Pixel]
  BY <1>2, WindowParts
<1>5. CASE d.whole
  <2> HIDE DEF d
  <2>1. /\ Painted(d) \in [0..(window.width * window.height - 1) -> Pixel]
        /\ \A p \in Area(Size) :
             Painted(d)[Offset(p[1], p[2])] =
               IF p \in Inside(d) THEN drawn(p) ELSE window.framebuffer[Offset(p[1], p[2])]
    BY <1>2, <1>3, PaintedPixels
  <2>2. /\ window'.width = window.width /\ window'.height = window.height
        /\ window'.surface = window.surface /\ window'.paint_debug = window.paint_debug
        /\ window'.framebuffer = Painted(d)
    BY <1>1, <1>2, <1>5 DEF WindowTyped
  <2>3. window' \in [width : Positive, height : Positive, surface : {Size},
                     framebuffer : [0..(window.width * window.height - 1) -> Pixel],
                     paint_debug : BOOLEAN]
    BY <1>1, <1>2, <1>5, <2>1 DEF WindowTyped
  <2>4. Size' = Size
    BY <2>2 DEF Size
  <2>5. WindowTyped'
    BY <2>2, <2>3, <2>4 DEF WindowTyped
  <2>6. canvas' = [p \in Area(Size) |-> IF p \in Inside(d) THEN drawn(p) ELSE canvas[p]]
    <3> DEFINE s == [p \in Inside(d) |-> drawn(p)]
    <3>1. Shown(d, DOMAIN canvas, window.paint_debug) = s
      BY <1>2, <1>3, <1>4, ShownPixels
    <3>2. DOMAIN s = Inside(d) /\ DOMAIN canvas = Area(Size)
          /\ Inside(d) \cup Area(Size) = Area(Size)
      BY <1>2 DEF Inside
    <3>3. canvas' = [p \in Area(Size) |-> IF p \in Inside(d) THEN s[p] ELSE canvas[p]]
      BY <1>1, <1>5, <3>1, <3>2 DEF Over
    <3>4. QED
      BY <3>3
  <2>7. \A p \in Inside(d) : drawn(p) \in Pixel
    <3>1. ASSUME NEW p \in Inside(d) PROVE drawn(p) \in Pixel
      <4>1. p \in Area(Size) /\ Holds(d, p)
        BY DEF Inside
      <4>2. Source(d, p[2] - d.y, p[1] - d.x) \in Pixel
        BY <1>2, <1>3, <4>1, CompositePixels
      <4>3. QED
        BY <4>2 DEF Pixel
    <3>2. QED
      BY <3>1
  <2>8. canvas' \in [Area(Size) -> Pixel]
    <3> HIDE DEF drawn
    <3>1. QED
      BY <1>2, <2>6, <2>7
  <2>9. \A p \in Area(Size) :
           /\ canvas'[p] = IF d.whole /\ p \in Inside(d) THEN drawn(p) ELSE canvas[p]
           /\ window'.framebuffer[Offset(p[1], p[2])] =
                IF d.whole /\ p \in Inside(d) THEN drawn(p)
                ELSE window.framebuffer[Offset(p[1], p[2])]
    <3> HIDE DEF drawn
    <3>1. QED
      BY <1>5, <2>1, <2>2, <2>6
  <2>10. QED
    BY <1>1, <1>3, <1>5, <2>2, <2>4, <2>5, <2>8, <2>9 DEF d
<1>6. CASE ~d.whole
  <2>1. window' = window /\ canvas' = canvas /\ redraw' = redraw
    BY <1>1, <1>6
  <2>2. Size' = Size
    BY <2>1 DEF Size
  <2>3. WindowTyped'
    BY <1>2, <2>1, <2>2 DEF WindowTyped
  <2> HIDE DEF d
  <2>4. QED
    BY <1>1, <1>2, <1>3, <1>6, <2>1, <2>2, <2>3 DEF d
<1>7. QED
  BY <1>5, <1>6
\* The window looks at its native size: it keeps what it has when that is its size or when the
\* surface fails, and starts again with a blank framebuffer otherwise (handle_window_event,
\* resize).
LEMMA Resizing ==
    ASSUME Typed, NEW ok \in BOOLEAN, WindowMovedOrResized(ok)
    PROVE  LET r == AtLeast1(native)
           IN /\ events > 0 /\ events' = events - 1 /\ native' = native /\ unseen' = FALSE
              /\ r \in Positive \X Positive /\ configures' = Append(configures, r)
              /\ UNCHANGED <<screen, draws, asks, server>>
              /\ ~ok => broken' = broken \cup {"resize"}
              /\ ok => broken' = broken \ (IF r # LastReported THEN {"resize"} ELSE {})
              /\ r = Size => ok /\ window' = window /\ redraw' = redraw /\ canvas' = canvas
              /\ r # Size /\ ~ok => window' = window /\ redraw' = redraw /\ canvas' = canvas
              /\ r # Size /\ ok => /\ Size' = r /\ window'.width = r[1] /\ window'.height = r[2]
                                   /\ window'.framebuffer = NewBuffer(r)
                                   /\ redraw' = TRUE /\ canvas' = NewCanvas(r)
              /\ r # Size => Fault(ok)
              /\ r = Size => count' = count
              /\ WindowTyped'
<1> DEFINE r == AtLeast1(native)
<1>1. /\ events > 0 /\ events' = events - 1 /\ native' = native /\ unseen' = FALSE
      /\ configures' = Append(configures, r)
      /\ UNCHANGED <<screen, draws, asks, server>>
      /\ ~ok => broken' = broken \cup {"resize"}
      /\ ok => broken' = broken \ (IF r # LastReported THEN {"resize"} ELSE {})
  BY DEF WindowMovedOrResized
<1>2. r \in Positive \X Positive
  BY SizesTyped
<1>3. redraw \in BOOLEAN /\ WindowTyped
  BY DEF Typed
<1>4. CASE r = Size
  <2>1. ok /\ window' = window /\ redraw' = redraw /\ canvas' = canvas /\ count' = count
    BY <1>4 DEF WindowMovedOrResized, Size
  <2>2. Size' = Size
    BY <2>1 DEF Size
  <2>3. WindowTyped'
    BY <1>3, <2>1, <2>2 DEF WindowTyped
  <2> HIDE DEF r
  <2>4. QED
    BY <1>1, <1>2, <1>4, <2>1, <2>3 DEF r
<1>5. CASE r # Size
  <2>1. /\ Fault(ok) /\ window' = Resized(r, ok) /\ redraw' = (redraw \/ ok)
        /\ canvas' = IF ok THEN NewCanvas(r) ELSE canvas
    BY <1>5 DEF WindowMovedOrResized, Size
  <2>2. CASE ok
    <3> DEFINE B == NewBuffer(r)
    <3>1. B \in [0..(r[1] * r[2] - 1) -> Pixel]
      BY <1>2, NewPictures
    <3>2. window' = [window EXCEPT !.width = r[1], !.height = r[2], !.surface = r,
                                   !.framebuffer = B]
      BY <2>1, <2>2 DEF Resized
    <3> HIDE DEF r, B
    <3>3. /\ r[1] \in Positive /\ r[2] \in Positive /\ r = <<r[1], r[2]>>
      BY <1>2
    <3>4. window' = [width |-> r[1], height |-> r[2], surface |-> r, framebuffer |-> B,
                     paint_debug |-> window.paint_debug]
      BY <1>3, <3>2 DEF WindowTyped
    <3>5. window'.width = r[1] /\ window'.height = r[2] /\ window'.surface = r
          /\ window'.framebuffer = B /\ window'.paint_debug \in BOOLEAN
      BY <1>3, <3>4, WindowParts
    <3>6. Size' = r
      BY <3>3, <3>5 DEF Size
    <3>7. window' \in [width : Positive, height : Positive, surface : {r},
                       framebuffer : [0..(r[1] * r[2] - 1) -> Pixel], paint_debug : BOOLEAN]
      BY <3>1, <3>3, <3>4, <3>5
    <3>8. WindowTyped'
      BY <3>5, <3>6, <3>7 DEF WindowTyped
    <3>9. redraw' = TRUE /\ canvas' = NewCanvas(r)
      BY <1>3, <2>1, <2>2
    <3>10. QED
      BY <1>1, <1>2, <1>5, <2>1, <2>2, <3>5, <3>6, <3>8, <3>9 DEF r, B
  <2>3. CASE ~ok
    <3>1. window' = window /\ redraw' = redraw /\ canvas' = canvas
      BY <1>3, <2>1, <2>3 DEF Resized
    <3>2. Size' = Size
      BY <3>1 DEF Size
    <3>3. WindowTyped'
      BY <1>3, <3>1, <3>2 DEF WindowTyped
    <3> HIDE DEF r
    <3>4. QED
      BY <1>1, <1>2, <1>5, <2>1, <2>3, <3>1, <3>3 DEF r
  <2>4. QED
    BY <2>2, <2>3
<1>6. QED
  BY <1>4, <1>5

\* A draw of the server, and what it does to its picture (Sends is external).
LEMMA Sent ==
    ASSUME Typed, NEW rect \in Int \X Int \X Nat \X Nat, NEW whole \in BOOLEAN,
           NEW owes \in BOOLEAN, Sends(rect, whole, owes)
    PROVE  \E d \in Draws :
             /\ d.x = rect[1] /\ d.y = rect[2] /\ d.w = rect[3] /\ d.h = rect[4]
             /\ d.whole = whole /\ draws' = Append(draws, d)
             /\ CountTyped' /\ ServerTyped'
             /\ server'.size = server.size /\ server'.reported = server.reported
             /\ server'.owes = owes
             /\ DOMAIN server.picture = Area(server.size)
             /\ DOMAIN server'.picture = Area(server.size)
             /\ \A p \in Area(server.size) :
                  server'.picture[p] = IF Covers(d, p) THEN Source(d, p[2] - d.y, p[1] - d.x)
                                       ELSE server.picture[p]
             /\ UNCHANGED <<window, screen, native, events, redraw, asks, configures, canvas,
                            broken, unseen>>
<1> DEFINE d == [seq |-> count.draws + 1, x |-> rect[1], y |-> rect[2], w |-> rect[3],
                 h |-> rect[4], whole |-> whole]
           old == server.picture
           new == IF whole THEN Over(Shown(d, DOMAIN old, FALSE), old) ELSE old
<1>1. /\ count.draws < MaxDraws /\ count' = [count EXCEPT !.draws = count.draws + 1]
      /\ draws' = Append(draws, d)
      /\ server' = [server EXCEPT !.owes = owes, !.picture = new]
      /\ UNCHANGED <<window, screen, native, events, redraw, asks, configures, canvas, broken,
                     unseen>>
  BY DEF Sends
<1>2. /\ CountTyped /\ ServerTyped /\ MaxDraws \in Nat
  BY FramebufferAssumption DEF Typed
<1>3. count.draws + 1 \in 1..MaxDraws /\ count.draws + 1 \in 0..MaxDraws
  <2>1. count.draws \in 0..MaxDraws
    BY <1>2 DEF CountTyped
  <2> DEFINE n == count.draws
  <2>2. n \in 0..MaxDraws /\ n < MaxDraws
    BY <1>1, <2>1
  <2> HIDE DEF n
  <2>3. n + 1 \in 1..MaxDraws /\ n + 1 \in 0..MaxDraws
    BY <1>2, <2>2
  <2>4. QED
    BY <2>3 DEF n
<1>4. CountTyped'
  BY <1>1, <1>2, <1>3 DEF CountTyped
<1>5. d \in Draws
  BY <1>3 DEF Draws
<1>6. /\ d.x = rect[1] /\ d.y = rect[2] /\ d.w = rect[3] /\ d.h = rect[4] /\ d.whole = whole
  OBVIOUS
<1> HIDE DEF d
<1>7. server.size \in Positive \X Positive /\ old \in [Area(server.size) -> Pixel]
      /\ DOMAIN old = Area(server.size)
  BY <1>2 DEF ServerTyped
<1>8. /\ new \in [Area(server.size) -> Pixel]
      /\ \A p \in Area(server.size) :
           new[p] = IF Covers(d, p) THEN Source(d, p[2] - d.y, p[1] - d.x) ELSE old[p]
  <2>1. CASE whole
    <3>1. new = Over(Shown(d, Area(server.size), FALSE), old)
      BY <1>7, <2>1
    <3> HIDE DEF old
    <3>2. /\ new \in [Area(server.size) -> Pixel]
          /\ \A p \in Area(server.size) :
               new[p] = IF Holds(d, p) THEN Source(d, p[2] - d.y, p[1] - d.x) ELSE old[p]
      <4> DEFINE a == server.size
                 g == Over(Shown(d, Area(a), FALSE), old)
      <4>1. new = g
        BY <3>1
      <4>2. /\ g \in [Area(a) -> Pixel]
            /\ \A p \in Area(a) :
                 g[p] = IF Holds(d, p) THEN Source(d, p[2] - d.y, p[1] - d.x) ELSE old[p]
        BY <1>5, <1>7, PictureDrawn
      <4> HIDE DEF new, g
      <4>3. QED
        BY <4>1, <4>2
    <3>3. \A p : Covers(d, p) <=> Holds(d, p)
      BY <1>6, <2>1 DEF Covers
    <3>4. QED
      BY <3>2, <3>3
  <2>2. CASE ~whole
    BY <1>6, <1>7, <2>2 DEF Covers
  <2>3. QED
    BY <2>1, <2>2
<1> HIDE DEF new, old
<1>9. /\ server'.size = server.size /\ server'.reported = server.reported
      /\ server'.owes = owes /\ server'.picture = new
  BY <1>1, <1>2 DEF ServerTyped
<1>10. server' \in [size : Positive \X Positive, reported : Positive \X Positive, owes : BOOLEAN,
                    picture : [Area(server.size) -> Pixel]]
  BY <1>1, <1>2, <1>8 DEF ServerTyped
<1>11. ServerTyped'
  BY <1>9, <1>10 DEF ServerTyped
<1>12. DOMAIN server'.picture = Area(server.size)
  BY <1>8, <1>9
<1>13. QED
  BY <1>1, <1>4, <1>5, <1>6, <1>7, <1>8, <1>9, <1>11, <1>12 DEF old
\* The framebuffer always fits the surface (the check in draw_screen).
LEMMA Fits ==
    ASSUME WindowTyped
    PROVE  window.surface[1] * window.surface[2] = Cardinality(DOMAIN window.framebuffer)
<1> DEFINE n == window.width * window.height
<1>1. n \in Nat /\ DOMAIN window.framebuffer = 0..(n - 1)
      /\ window.surface[1] * window.surface[2] = n
  BY WindowParts DEF Size
<1> HIDE DEF n
<1>2. Cardinality(0..(n - 1)) = IF 0 > n - 1 THEN 0 ELSE (n - 1) - 0 + 1
  BY <1>1, FS_Interval
<1>3. Cardinality(0..(n - 1)) = n
  BY <1>1, <1>2
<1>4. QED
  BY <1>1, <1>3

\* The server starts a blank picture, which it has yet to draw (At is external).
LEMMA ServerAt ==
    ASSUME ServerTyped, NEW s \in Positive \X Positive
    PROVE  /\ At(s) \in [size : Positive \X Positive, reported : Positive \X Positive,
                         owes : BOOLEAN, picture : [Area(s) -> Pixel]]
           /\ At(s).size = s /\ At(s).owes = TRUE /\ At(s).reported = server.reported
<1>1. NewCanvas(s) \in [Area(s) -> Pixel]
  BY NewPictures
<1>2. At(s) = [size |-> s, reported |-> server.reported, owes |-> TRUE, picture |-> NewCanvas(s)]
  <2> DEFINE c == NewCanvas(s)
             P == [Area(server.size) -> Pixel]
  <2>1. server \in [size : Positive \X Positive, reported : Positive \X Positive,
                    owes : BOOLEAN, picture : P]
    BY DEF ServerTyped
  <2>2. At(s) = [server EXCEPT !.size = s, !.owes = TRUE, !.picture = c]
    BY DEF At
  <2> HIDE DEF P, c
  <2>3. At(s) = [size |-> s, reported |-> server.reported, owes |-> TRUE, picture |-> c]
    BY <2>1, <2>2
  <2>4. QED
    BY <2>3 DEF c
<1>3. server.reported \in Positive \X Positive
  BY DEF ServerTyped
<1>4. QED
  BY <1>1, <1>2, <1>3

\* A window that is left alone keeps its type and its size.
LEMMA SameWindow ==
    ASSUME WindowTyped, window' = window
    PROVE  WindowTyped' /\ Size' = Size
<1>1. Size' = Size
  BY DEF Size
<1>2. QED
  BY <1>1 DEF WindowTyped

\* So does its picture.
LEMMA SamePicture ==
    ASSUME PixelsPlaced, window' = window, canvas' = canvas
    PROVE  PixelsPlaced'
  BY DEF PixelsPlaced, Offset

\* And the server.
LEMMA SameServer == ASSUME ServerTyped, server' = server PROVE ServerTyped'
  BY DEF ServerTyped

\* What was reported last: the size told, when none is on its way (LastReported).
LEMMA ReportedLast ==
    ASSUME Typed, \A i \in 1..Len(configures) : configures[i] = server.reported
    PROVE  LastReported = server.reported
<1>1. CASE configures = <<>>
  BY <1>1 DEF LastReported
<1>2. CASE configures # <<>>
  <2>1. configures \in Seq(Positive \X Positive)
    BY DEF Typed
  <2>2. Len(configures) \in 1..Len(configures)
    BY <1>2, <2>1
  <2>3. QED
    BY <1>2, <2>2 DEF LastReported, Last
<1>3. QED
  BY <1>1, <1>2

\* A size appended is the one reported last.
LEMMA ReportedNow ==
    ASSUME Typed, NEW r \in Positive \X Positive, configures' = Append(configures, r)
    PROVE  /\ configures' \in Seq(Positive \X Positive) /\ LastReported' = r
           /\ Len(configures') = Len(configures) + 1 /\ Len(configures) \in Nat
           /\ \A i \in 1..Len(configures) : configures'[i] = configures[i]
           /\ configures'[Len(configures) + 1] = r
<1>1. configures \in Seq(Positive \X Positive)
  BY DEF Typed
<1>2. /\ configures' \in Seq(Positive \X Positive)
      /\ Len(configures') = Len(configures) + 1 /\ Len(configures) \in Nat
      /\ \A i \in 1..Len(configures) : configures'[i] = configures[i]
      /\ configures'[Len(configures) + 1] = r
  BY <1>1
<1>3. configures' # <<>>
  <2>1. Len(configures') # 0 /\ Len(<<>>) = 0
    BY <1>2
  <2>2. QED
    BY <2>1
<1>4. LastReported' = r
  BY <1>2, <1>3 DEF LastReported, Last
<1>5. QED
  BY <1>2, <1>4

\* The last draw that covers a position, among those queued behind the first, is the last among
\* all of them (process_draw_decoded takes the first).
LEMMA ComingTail ==
    ASSUME NEW q \in Seq(Draws), q # <<>>, NEW p, Coming(q, p)
    PROVE  /\ Coming(Tail(q), p)
           /\ \/ \E i \in 1..Len(Tail(q)) : Covers(Tail(q)[i], p)
              \/ Covers(Head(q), p) /\ server.picture[p] =
                                          Source(Head(q), p[2] - Head(q).y, p[1] - Head(q).x)
              \/ ~Covers(Head(q), p) /\ \A i \in 1..Len(q) : ~Covers(q[i], p)
<1> DEFINE t == Tail(q)
<1>1. /\ Head(q) = q[1] /\ t \in Seq(Draws) /\ Len(t) \in Nat /\ Len(q) = Len(t) + 1
      /\ \A i \in 1..Len(t) : t[i] = q[i + 1]
  BY QueueMoves
<1> HIDE DEF t
<1>2. \A j \in 1..Len(q) : j # 1 => j - 1 \in 1..Len(t) /\ q[j] = t[j - 1]
  <2>1. ASSUME NEW j \in 1..Len(q), j # 1 PROVE j - 1 \in 1..Len(t) /\ q[j] = t[j - 1]
    <3>1. j - 1 \in 1..Len(t) /\ (j - 1) + 1 = j
      BY <1>1, <2>1
    <3>2. QED
      BY <1>1, <3>1
  <2>2. QED
    BY <2>1
<1>3. ASSUME NEW i \in 1..Len(t), Covers(t[i], p), \A j \in (i + 1)..Len(t) : ~Covers(t[j], p)
      PROVE  server.picture[p] = Source(t[i], p[2] - t[i].y, p[1] - t[i].x)
  <2>1. i + 1 \in 1..Len(q) /\ t[i] = q[i + 1]
    BY <1>1
  <2>2. ASSUME NEW j \in ((i + 1) + 1)..Len(q) PROVE ~Covers(q[j], p)
    <3>1. j \in 1..Len(q) /\ j # 1 /\ j - 1 \in (i + 1)..Len(t)
      BY <1>1
    <3>2. QED
      BY <1>2, <1>3, <3>1
  <2>3. QED
    BY <1>3, <2>1, <2>2 DEF Coming
<1>4. Coming(t, p)
  BY <1>3 DEF Coming
<1>5. CASE \A i \in 1..Len(t) : ~Covers(t[i], p)
  <2>1. ASSUME NEW j \in 2..Len(q) PROVE ~Covers(q[j], p)
    <3>1. j \in 1..Len(q) /\ j # 1
      BY <1>1
    <3>2. QED
      BY <1>2, <1>5, <3>1
  <2>2. 1 \in 1..Len(q) /\ 1 + 1 = 2
    BY <1>1
  <2>3. CASE Covers(q[1], p)
    <3>1. server.picture[p] = Source(q[1], p[2] - q[1].y, p[1] - q[1].x)
      BY <2>1, <2>2, <2>3 DEF Coming
    <3>2. QED
      BY <1>1, <1>4, <2>3, <3>1 DEF t
  <2>4. CASE ~Covers(q[1], p)
    <3>1. \A i \in 1..Len(q) : ~Covers(q[i], p)
      BY <1>2, <1>5, <2>4
    <3>2. QED
      BY <1>1, <1>4, <2>4, <3>1 DEF t
  <2>5. QED
    BY <2>3, <2>4
<1>6. QED
  BY <1>4, <1>5 DEF t
-----------------------------------------------------------------------------
(* The invariant, step by step *)

\* A new window (process_new_common): blank, reported as it is, and still to be drawn.
LEMMA InitInv == Init => Inv
<1>1. SUFFICES ASSUME Init PROVE Inv
  OBVIOUS
<1>2. PICK s \in Sizes, dbg \in BOOLEAN :
        LET r == AtLeast1(s)
        IN /\ window = [width |-> r[1], height |-> r[2], surface |-> r,
                        framebuffer |-> NewBuffer(r), paint_debug |-> dbg]
           /\ native = r /\ events = 0 /\ redraw = TRUE
           /\ screen = [size |-> r, pixels |-> NewBuffer(r)]
           /\ draws = <<>> /\ asks = <<>> /\ configures = <<>>
           /\ server = [size |-> r, reported |-> r, owes |-> TRUE, picture |-> NewCanvas(r)]
           /\ count = [draws |-> 0, moves |-> 0, asks |-> 0, faults |-> 0]
           /\ canvas = NewCanvas(r) /\ broken = {} /\ unseen = FALSE
  BY <1>1 DEF Init
<1> DEFINE r == AtLeast1(s)
           B == NewBuffer(r)
           C == NewCanvas(r)
<1>3. /\ r \in Positive \X Positive /\ r = <<r[1], r[2]>>
      /\ r[1] \in Positive /\ r[2] \in Positive
  BY FramebufferAssumption, AtLeast1Type
<1>4. /\ B \in [0..(r[1] * r[2] - 1) -> Pixel] /\ C \in [Area(r) -> Pixel]
      /\ \A p \in Area(r) : C[p] = Blank /\ B[p[2] * r[1] + p[1]] = Blank
  BY <1>3, NewPictures
<1>5. /\ window = [width |-> r[1], height |-> r[2], surface |-> r,
                   framebuffer |-> B, paint_debug |-> dbg]
      /\ native = r /\ events = 0 /\ redraw = TRUE
      /\ draws = <<>> /\ asks = <<>> /\ configures = <<>>
      /\ server = [size |-> r, reported |-> r, owes |-> TRUE, picture |-> C]
      /\ count = [draws |-> 0, moves |-> 0, asks |-> 0, faults |-> 0]
      /\ canvas = C /\ broken = {} /\ unseen = FALSE
  BY <1>2
<1>6. native \in Sizes \cup {AtLeast1(t) : t \in Sizes}
  BY <1>5
<1>7. AtLeast1(r) = r
  <2>1. r[1] \in Int /\ r[2] \in Int /\ r[1] >= 1 /\ r[2] >= 1 /\ 1 \in Int
    BY <1>3 DEF Positive
  <2> HIDE DEF r
  <2>2. Max({r[1], 1}) = r[1] /\ Max({r[2], 1}) = r[2]
    BY <2>1, MaxMin
  <2>3. QED
    BY <1>3, <2>2 DEF AtLeast1
<1> HIDE DEF r, B, C
<1>8. Size = r /\ window.width = r[1] /\ window.height = r[2]
  BY <1>3, <1>5 DEF Size
<1>9. WindowTyped
  <2>1. window \in [width : Positive, height : Positive, surface : {r},
                    framebuffer : [0..(r[1] * r[2] - 1) -> Pixel], paint_debug : BOOLEAN]
    BY <1>3, <1>4, <1>5
  <2>2. QED
    BY <1>8, <2>1 DEF WindowTyped
<1>10. ServerTyped
  <2>1. server \in [size : Positive \X Positive, reported : Positive \X Positive,
                    owes : BOOLEAN, picture : [Area(r) -> Pixel]]
    BY <1>3, <1>4, <1>5
  <2>2. server.size = r
    BY <1>5
  <2>3. QED
    BY <2>1, <2>2 DEF ServerTyped
<1>11. CountTyped
  BY <1>5, FramebufferAssumption DEF CountTyped
<1>12. Typed
  <2>1. draws \in Seq(Draws) /\ asks \in Seq(Sizes) /\ configures \in Seq(Positive \X Positive)
    BY <1>5
  <2>2. canvas \in [Area(Size) -> Pixel]
    BY <1>4, <1>5, <1>8
  <2>3. /\ events \in Nat /\ redraw \in BOOLEAN /\ broken \subseteq {"resize", "present"}
        /\ unseen \in BOOLEAN
    BY <1>5
  <2>4. QED
    BY <1>6, <1>9, <1>10, <1>11, <2>1, <2>2, <2>3 DEF Typed
<1>13. PixelsPlaced
  <2>1. window.framebuffer = B
    BY <1>5
  <2>2. DOMAIN canvas = Area(r) /\ canvas = C
    BY <1>4, <1>5
  <2>3. Area(<<window.width, window.height>>) = Area(r)
    BY <1>3, <1>8
  <2>4. ASSUME NEW p \in DOMAIN canvas PROVE window.framebuffer[Offset(p[1], p[2])] = canvas[p]
    <3>1. Offset(p[1], p[2]) = p[2] * r[1] + p[1]
      BY <1>8 DEF Offset
    <3>2. QED
      BY <1>4, <2>1, <2>2, <3>1
  <2>5. QED
    BY <2>2, <2>3, <2>4 DEF PixelsPlaced
<1>14. SizeFollows
  BY <1>5, <1>7, <1>8 DEF SizeFollows
<1>15. ScreenFollows
  BY <1>5 DEF ScreenFollows
<1>16. SizeReported
  <2>1. LastReported = r
    BY <1>5 DEF LastReported
  <2>2. QED
    BY <1>8, <2>1 DEF SizeReported
<1>17. CatchingUp
  <2>1. server.owes = TRUE
    BY <1>5
  <2>2. QED
    BY <2>1 DEF CatchingUp, Agreed
<1>18. QED
  BY <1>12, <1>13, <1>14, <1>15, <1>16, <1>17 DEF Inv

\* A draw is painted (process_draw_decoded): where it is, the window shows what the server's
\* picture has there unless a later draw, still queued, will change it.
LEMMA DrawInv == ASSUME Inv, ProcessDrawDecoded PROVE Inv'
<1> DEFINE d == Head(draws)
           drawn(p) == IF window.paint_debug /\ AtEdge(d, p) THEN Red
                       ELSE Source(d, p[2] - d.y, p[1] - d.x)
<1>1. /\ draws # <<>> /\ d \in Draws /\ draws' = Tail(draws)
      /\ WindowTyped' /\ Size' = Size /\ window'.width = window.width
      /\ window'.paint_debug = window.paint_debug
      /\ canvas' \in [Area(Size) -> Pixel]
      /\ \A p \in Area(Size) :
           /\ canvas'[p] = IF d.whole /\ p \in Inside(d) THEN drawn(p) ELSE canvas[p]
           /\ window'.framebuffer[Offset(p[1], p[2])] =
                IF d.whole /\ p \in Inside(d) THEN drawn(p)
                ELSE window.framebuffer[Offset(p[1], p[2])]
      /\ d.whole => redraw' = TRUE
      /\ ~d.whole => window' = window /\ canvas' = canvas /\ redraw' = redraw
  BY Drawn DEF Inv
<1>2. UNCHANGED <<screen, native, unseen, events, asks, configures, server, count, broken>>
  BY DEF ProcessDrawDecoded
<1>3. /\ Typed /\ PixelsPlaced /\ SizeFollows /\ ScreenFollows /\ SizeReported /\ CatchingUp
  BY DEF Inv
<1>4. /\ WindowTyped /\ draws \in Seq(Draws) /\ canvas \in [Area(Size) -> Pixel]
      /\ d.whole \in BOOLEAN
  BY <1>1, <1>3 DEF Typed, Draws
<1> HIDE DEF d, drawn
<1>5. Typed'
  <2>1. draws' \in Seq(Draws)
    BY <1>1, <1>4, QueueMoves
  <2>2. ServerTyped' /\ CountTyped'
    BY <1>2, <1>3 DEF Typed, ServerTyped, CountTyped
  <2>3. redraw' \in BOOLEAN
    BY <1>1, <1>3, <1>4 DEF Typed
  <2>4. canvas' \in [Area(Size') -> Pixel]
    BY <1>1
  <2>5. QED
    BY <1>1, <1>2, <1>3, <2>1, <2>2, <2>3, <2>4 DEF Typed
<1>6. PixelsPlaced'
  <2>1. DOMAIN canvas' = Area(Size) /\ DOMAIN canvas = Area(Size)
    BY <1>1, <1>4
  <2>2. ASSUME NEW p \in Area(Size)
        PROVE  window'.framebuffer[Offset(p[1], p[2])'] = canvas'[p]
    <3>1. Offset(p[1], p[2])' = Offset(p[1], p[2])
      BY <1>1 DEF Offset
    <3>2. window.framebuffer[Offset(p[1], p[2])] = canvas[p]
      BY <1>3, <2>1 DEF PixelsPlaced
    <3>3. QED
      BY <1>1, <3>1, <3>2
  <2>3. <<window.width, window.height>>' = Size
    BY <1>1 DEF Size
  <2>4. QED
    BY <2>1, <2>2, <2>3 DEF PixelsPlaced
<1>7. SizeFollows' /\ SizeReported'
  BY <1>1, <1>2, <1>3 DEF SizeFollows, SizeReported, LastReported
<1>8. ScreenFollows'
  BY <1>1, <1>2, <1>3, <1>4 DEF ScreenFollows
<1>9. ASSUME Agreed', NEW p \in DOMAIN canvas' \cap DOMAIN server'.picture
      PROVE  Current(draws, p)' /\ Coming(draws, p)'
  <2>1. Agreed
    BY <1>2, <1>9 DEF Agreed
  <2>2. p \in DOMAIN canvas \cap DOMAIN server.picture /\ p \in Area(Size)
    BY <1>1, <1>2, <1>4
  <2>3. Current(draws, p) /\ Coming(draws, p)
    BY <1>3, <2>1, <2>2 DEF CatchingUp
  <2>4. /\ Coming(Tail(draws), p)
        /\ \/ \E i \in 1..Len(Tail(draws)) : Covers(Tail(draws)[i], p)
           \/ Covers(d, p) /\ server.picture[p] = Source(d, p[2] - d.y, p[1] - d.x)
           \/ ~Covers(d, p) /\ \A i \in 1..Len(draws) : ~Covers(draws[i], p)
    BY <1>1, <1>4, <2>3, ComingTail DEF d
  <2>5. Coming(draws, p)'
    BY <1>1, <1>2, <2>4 DEF Coming, Covers, Holds, Source
  <2>6. p \in Inside(d) <=> Holds(d, p)
    BY <2>2 DEF Inside
  <2>7. CASE Covers(d, p) /\ server.picture[p] = Source(d, p[2] - d.y, p[1] - d.x)
    <3>1. canvas'[p] = drawn(p)
      BY <1>1, <2>2, <2>6, <2>7 DEF Covers
    <3>2. canvas'[p] \in {server.picture[p]} \cup (IF window.paint_debug THEN {Red} ELSE {})
      BY <2>7, <3>1 DEF drawn
    <3>3. QED
      BY <1>1, <1>2, <2>5, <3>2 DEF Current
  <2>8. CASE ~Covers(d, p) /\ \A i \in 1..Len(draws) : ~Covers(draws[i], p)
    <3>1. canvas'[p] = canvas[p]
      BY <1>1, <2>2, <2>6, <2>8 DEF Covers
    <3>2. canvas'[p] \in {server.picture[p]} \cup (IF window.paint_debug THEN {Red} ELSE {})
      BY <2>3, <2>8, <3>1 DEF Current
    <3>3. QED
      BY <1>1, <1>2, <2>5, <3>2 DEF Current
  <2>9. CASE \E i \in 1..Len(Tail(draws)) : Covers(Tail(draws)[i], p)
    <3>1. Current(draws, p)'
      BY <1>1, <2>9 DEF Current, Covers, Holds
    <3>2. QED
      BY <2>5, <3>1
  <2>10. QED
    BY <2>4, <2>7, <2>8, <2>9
<1>10. CatchingUp'
  BY <1>9 DEF CatchingUp
<1>11. QED
  BY <1>5, <1>6, <1>7, <1>8, <1>10 DEF Inv
\* The window looks at its native size (handle_window_event, resize). When its size changes it
\* reports another one than the server was told last, so the server is to draw it all again.
LEMMA ResizeInv ==
    ASSUME Inv, NEW ok \in BOOLEAN, WindowMovedOrResized(ok)
    PROVE  Inv'
<1> DEFINE r == AtLeast1(native)
<1>1. /\ Typed /\ PixelsPlaced /\ SizeFollows /\ ScreenFollows /\ SizeReported /\ CatchingUp
  BY DEF Inv
<1>2. /\ events > 0 /\ events' = events - 1 /\ native' = native /\ unseen' = FALSE
      /\ r \in Positive \X Positive /\ configures' = Append(configures, r)
      /\ UNCHANGED <<screen, draws, asks, server>>
      /\ ~ok => broken' = broken \cup {"resize"}
      /\ ok => broken' = broken \ (IF r # LastReported THEN {"resize"} ELSE {})
      /\ r = Size => ok /\ window' = window /\ redraw' = redraw /\ canvas' = canvas
      /\ r # Size /\ ~ok => window' = window /\ redraw' = redraw /\ canvas' = canvas
      /\ r # Size /\ ok => /\ Size' = r /\ window'.width = r[1] /\ window'.height = r[2]
                           /\ window'.framebuffer = NewBuffer(r)
                           /\ redraw' = TRUE /\ canvas' = NewCanvas(r)
      /\ r # Size => Fault(ok)
      /\ r = Size => count' = count
      /\ WindowTyped'
  BY <1>1, Resizing
<1>3. /\ configures' \in Seq(Positive \X Positive) /\ LastReported' = r
      /\ Len(configures') = Len(configures) + 1 /\ Len(configures) \in Nat
      /\ \A i \in 1..Len(configures) : configures'[i] = configures[i]
      /\ configures'[Len(configures) + 1] = r
  BY <1>1, <1>2, ReportedNow
<1>4. AtLeast1(native)' = r
  BY <1>2
<1>5. WindowTyped /\ canvas \in [Area(Size) -> Pixel] /\ redraw \in BOOLEAN /\ CountTyped
      /\ ServerTyped /\ broken \subseteq {"resize", "present"}
  BY <1>1 DEF Typed
<1> HIDE DEF r
<1>6. (r = Size \/ ~ok) => window' = window /\ redraw' = redraw /\ canvas' = canvas /\ Size' = Size
  BY <1>2 DEF Size
<1>7. canvas' \in [Area(Size') -> Pixel]
  <2>1. CASE r # Size /\ ok
    <3>1. NewCanvas(r) \in [Area(r) -> Pixel]
      BY <1>2, NewPictures
    <3>2. QED
      BY <1>2, <2>1, <3>1
  <2>2. CASE r = Size \/ ~ok
    BY <1>5, <1>6, <2>2
  <2>3. QED
    BY <2>1, <2>2
<1>8. CountTyped'
  <2>1. CASE r = Size
    BY <1>2, <1>5, <2>1 DEF CountTyped
  <2>2. CASE r # Size
    <3>1. /\ ok \/ count.faults < MaxFaults
          /\ count' = [count EXCEPT !.faults = IF ok THEN count.faults ELSE count.faults + 1]
      BY <1>2, <2>2 DEF Fault
    <3>2. (IF ok THEN count.faults ELSE count.faults + 1) \in 0..MaxFaults
      BY <1>5, <3>1, FramebufferAssumption DEF CountTyped
    <3>3. QED
      BY <1>5, <3>1, <3>2 DEF CountTyped
  <2>3. QED
    BY <2>1, <2>2
<1>9. Typed'
  <2>1. ServerTyped'
    BY <1>2, <1>5, SameServer
  <2>2. redraw' \in BOOLEAN
    BY <1>2, <1>5, <1>6
  <2>3. broken' \subseteq {"resize", "present"} /\ unseen' \in BOOLEAN
    BY <1>2, <1>5
  <2>4. events' \in Nat
    BY <1>1, <1>2 DEF Typed
  <2>5. native' \in Sizes \cup {AtLeast1(s) : s \in Sizes}
    BY <1>1, <1>2 DEF Typed
  <2>6. draws' \in Seq(Draws) /\ asks' \in Seq(Sizes)
    BY <1>1, <1>2 DEF Typed
  <2>7. QED
    BY <1>2, <1>3, <1>7, <1>8, <2>1, <2>2, <2>3, <2>4, <2>5, <2>6 DEF Typed
<1>10. PixelsPlaced'
  <2>1. CASE r # Size /\ ok
    <3> DEFINE B == NewBuffer(r)
               C == NewCanvas(r)
    <3>1. /\ C \in [Area(r) -> Pixel]
          /\ \A p \in Area(r) : C[p] = Blank /\ B[p[2] * r[1] + p[1]] = Blank
      BY <1>2, NewPictures
    <3>2. canvas' = C /\ window'.framebuffer = B /\ window'.width = r[1]
      BY <1>2, <2>1
    <3>3. <<window.width, window.height>>' = r
      BY <1>2, <2>1
    <3> HIDE DEF B, C
    <3>4. DOMAIN canvas' = Area(r)
      BY <3>1, <3>2
    <3>5. ASSUME NEW p \in Area(r) PROVE window'.framebuffer[Offset(p[1], p[2])'] = canvas'[p]
      <4>1. Offset(p[1], p[2])' = p[2] * r[1] + p[1]
        BY <3>2 DEF Offset
      <4>2. QED
        BY <3>1, <3>2, <4>1
    <3>6. QED
      BY <3>3, <3>4, <3>5 DEF PixelsPlaced
  <2>2. CASE r = Size \/ ~ok
    BY <1>1, <1>6, <2>2, SamePicture
  <2>3. QED
    BY <2>1, <2>2
\* when the surface did not fail, the window has the native size
<1>11. "resize" \notin broken' => ok /\ Size' = r
  <2>1. ~ok => "resize" \in broken'
    BY <1>2
  <2>2. ok => Size' = r
    BY <1>2, <1>6
  <2>3. QED
    BY <2>1, <2>2
<1>12. SizeFollows'
  BY <1>4, <1>11 DEF SizeFollows
<1>13. SizeReported'
  BY <1>3, <1>11 DEF SizeReported
<1>14. ScreenFollows'
  <2>1. CASE r # Size /\ ok
    BY <1>2, <2>1 DEF ScreenFollows
  <2>2. CASE r = Size \/ ~ok
    <3>1. "present" \in broken <=> "present" \in broken'
      BY <1>2
    <3>2. screen' = screen /\ window' = window /\ Size' = Size /\ redraw' = redraw
      BY <1>2, <1>6, <2>2
    <3>3. QED
      BY <1>1, <3>1, <3>2 DEF ScreenFollows
  <2>3. QED
    BY <2>1, <2>2
\* when the size just reported is the one the server already drew for, nothing changed
<1>15. ASSUME Agreed' PROVE Agreed /\ r = Size /\ ok
  <2>1. /\ "resize" \notin broken' /\ ~server.owes
        /\ \A i \in 1..Len(configures') : configures'[i] = server.reported
    BY <1>2, <1>15 DEF Agreed
  <2>2. ok
    BY <1>11, <2>1
  <2>3. \A i \in 1..Len(configures) : i \in 1..Len(configures') /\ configures[i] = server.reported
    <3>1. \A i \in 1..Len(configures) : i \in 1..Len(configures')
      BY <1>3
    <3>2. QED
      BY <1>3, <2>1, <3>1
  <2>4. r = server.reported
    <3>1. Len(configures) + 1 \in 1..Len(configures')
      BY <1>3
    <3>2. QED
      BY <1>3, <2>1, <3>1
  <2>5. LastReported = server.reported
    BY <1>1, <2>3, ReportedLast
  <2>6. "resize" \notin broken
    BY <1>2, <2>1, <2>2, <2>4, <2>5
  <2>7. Size = r
    BY <1>1, <2>4, <2>5, <2>6 DEF SizeReported
  <2>8. QED
    BY <2>1, <2>2, <2>3, <2>6, <2>7 DEF Agreed
<1>16. CatchingUp'
  <2>1. ASSUME Agreed', NEW p \in DOMAIN canvas' \cap DOMAIN server'.picture
        PROVE  Current(draws, p)' /\ Coming(draws, p)'
    <3>1. window' = window /\ canvas' = canvas /\ server' = server /\ draws' = draws
      BY <1>2, <1>6, <1>15, <2>1
    <3>2. Current(draws, p) /\ Coming(draws, p)
      BY <1>1, <1>15, <2>1, <3>1 DEF CatchingUp
    <3>3. QED
      BY <3>1, <3>2 DEF Current, Coming, Covers, Holds, Source
  <2>2. QED
    BY <2>1 DEF CatchingUp
<1>17. QED
  BY <1>9, <1>10, <1>12, <1>13, <1>14, <1>16 DEF Inv

\* The framebuffer is presented (draw_screen).
LEMMA ScreenInv == ASSUME Inv, NEW ok \in BOOLEAN, DrawScreen(ok) PROVE Inv'
<1> DEFINE fits == window.surface[1] * window.surface[2] = Cardinality(DOMAIN window.framebuffer)
<1>1. /\ Typed /\ PixelsPlaced /\ SizeFollows /\ ScreenFollows /\ SizeReported /\ CatchingUp
  BY DEF Inv
<1>2. /\ redraw' = FALSE /\ Fault(ok)
      /\ ok /\ fits => /\ screen' = [size |-> window.surface, pixels |-> window.framebuffer]
                       /\ broken' = broken \ {"present"}
      /\ ~(ok /\ fits) => broken' = broken \cup (IF ok THEN {} ELSE {"present"})
      /\ UNCHANGED <<window, native, unseen, events, draws, asks, configures, server, canvas>>
  BY DEF DrawScreen
<1>3. WindowTyped /\ fits /\ window.surface = Size
  BY <1>1, Fits, WindowParts DEF Typed
<1> HIDE DEF fits
<1>4. WindowTyped' /\ Size' = Size
  BY <1>2, <1>3, SameWindow
<1>5. Typed'
  <2>1. ServerTyped'
    BY <1>1, <1>2, SameServer DEF Typed
  <2>2. CountTyped'
    <3>1. /\ ok \/ count.faults < MaxFaults
          /\ count' = [count EXCEPT !.faults = IF ok THEN count.faults ELSE count.faults + 1]
      BY <1>2 DEF Fault
    <3>2. CountTyped
      BY <1>1 DEF Typed
    <3>3. (IF ok THEN count.faults ELSE count.faults + 1) \in 0..MaxFaults
      BY <3>1, <3>2, FramebufferAssumption DEF CountTyped
    <3>4. QED
      BY <3>1, <3>2, <3>3 DEF CountTyped
  <2>3. broken' \subseteq {"resize", "present"} /\ redraw' \in BOOLEAN
    BY <1>1, <1>2 DEF Typed
  <2>4. canvas' \in [Area(Size') -> Pixel]
    BY <1>1, <1>2, <1>4 DEF Typed
  <2>5. QED
    BY <1>1, <1>2, <1>4, <2>1, <2>2, <2>3, <2>4 DEF Typed
<1>6. PixelsPlaced'
  BY <1>1, <1>2, SamePicture
<1>7. "resize" \in broken <=> "resize" \in broken'
  BY <1>2
<1>8. SizeFollows'
  BY <1>1, <1>2, <1>4, <1>7 DEF SizeFollows
<1>9. SizeReported'
  BY <1>1, <1>2, <1>4, <1>7 DEF SizeReported, LastReported
<1>10. ScreenFollows'
  <2>1. CASE ok
    <3>1. screen' = [size |-> Size, pixels |-> window.framebuffer]
      BY <1>2, <1>3, <2>1
    <3>2. QED
      BY <1>2, <1>4, <3>1 DEF ScreenFollows
  <2>2. CASE ~ok
    BY <1>2, <2>2 DEF ScreenFollows
  <2>3. QED
    BY <2>1, <2>2
<1>11. CatchingUp'
  <2>1. ASSUME Agreed', NEW p \in DOMAIN canvas' \cap DOMAIN server'.picture
        PROVE  Current(draws, p)' /\ Coming(draws, p)'
    <3>1. Agreed
      BY <1>2, <1>7, <2>1 DEF Agreed
    <3>2. Current(draws, p) /\ Coming(draws, p)
      BY <1>1, <1>2, <2>1, <3>1 DEF CatchingUp
    <3>3. QED
      BY <1>2, <3>2 DEF Current, Coming, Covers, Holds, Source
  <2>2. QED
    BY <2>1 DEF CatchingUp
<1>12. QED
  BY <1>5, <1>6, <1>8, <1>9, <1>10, <1>11 DEF Inv
\* The native window changes, or does not: what the client has is left alone, and an event will
\* tell of a change (process_window_move_resize, and the user and the window manager).
LEMMA NativeInv ==
    ASSUME Inv, native' \in Sizes \cup {AtLeast1(s) : s \in Sizes}, events' \in Nat,
           native' # native => events' # 0 \/ unseen',
           events' = 0 => events = 0, unseen => unseen', unseen' \in BOOLEAN,
           asks' \in Seq(Sizes), CountTyped', redraw' \in {redraw, TRUE},
           UNCHANGED <<window, screen, draws, configures, server, canvas, broken>>
    PROVE  Inv'
<1>1. /\ Typed /\ PixelsPlaced /\ SizeFollows /\ ScreenFollows /\ SizeReported /\ CatchingUp
      /\ WindowTyped /\ ServerTyped
  BY DEF Inv, Typed
<1>2. WindowTyped' /\ Size' = Size
  BY <1>1, SameWindow
<1>3. ServerTyped'
  BY <1>1, SameServer
<1>4. canvas' \in [Area(Size') -> Pixel]
  BY <1>1, <1>2 DEF Typed
<1>5. Typed'
  BY <1>1, <1>2, <1>3, <1>4 DEF Typed
<1>6. PixelsPlaced'
  BY <1>1, SamePicture
<1>7. SizeFollows'
  <2>1. CASE native' = native
    BY <1>1, <1>2, <2>1 DEF SizeFollows, AtLeast1
  <2>2. CASE native' # native
    BY <2>2 DEF SizeFollows
  <2>3. QED
    BY <2>1, <2>2
<1>8. ScreenFollows' /\ SizeReported'
  BY <1>1, <1>2 DEF ScreenFollows, SizeReported, LastReported
<1>9. CatchingUp'
  BY <1>1 DEF CatchingUp, Agreed, Current, Coming, Covers, Holds, Source
<1>10. QED
  BY <1>5, <1>6, <1>7, <1>8, <1>9 DEF Inv

\* The server changes its mind: what the client has is left alone (the server is external).
LEMMA ServerInv ==
    ASSUME Inv, ServerTyped', CountTyped', draws' \in Seq(Draws), asks' \in Seq(Sizes),
           configures' \in Seq(Positive \X Positive), LastReported' = LastReported, CatchingUp',
           UNCHANGED <<window, screen, native, events, redraw, canvas, broken,
                       unseen>>
    PROVE  Inv'
<1>1. /\ Typed /\ PixelsPlaced /\ SizeFollows /\ ScreenFollows /\ SizeReported /\ WindowTyped
  BY DEF Inv, Typed
<1>2. WindowTyped' /\ Size' = Size
  BY <1>1, SameWindow
<1>3. canvas' \in [Area(Size') -> Pixel]
  BY <1>1, <1>2 DEF Typed
<1>4. Typed'
  BY <1>1, <1>2, <1>3 DEF Typed
<1>5. PixelsPlaced'
  BY <1>1, SamePicture
<1>6. SizeFollows' /\ ScreenFollows' /\ SizeReported'
  BY <1>1, <1>2 DEF SizeFollows, AtLeast1, ScreenFollows, SizeReported
<1>7. QED
  BY <1>4, <1>5, <1>6 DEF Inv

\* What the server draws is queued, and is in its picture: the last draw decides, as it will in
\* the window (process_draw_decoded paints them in that order).
LEMMA SentInv ==
    ASSUME Inv, NEW rect \in Int \X Int \X Nat \X Nat, NEW whole \in BOOLEAN,
           NEW owes \in BOOLEAN, Sends(rect, whole, owes),
           \/ owes = server.owes
           \/ whole /\ rect = <<0, 0, server.size[1], server.size[2]>>
    PROVE  Inv'
<1>1. /\ Typed /\ CatchingUp /\ draws \in Seq(Draws)
  BY DEF Inv, Typed
<1>2. PICK d \in Draws :
        /\ d.x = rect[1] /\ d.y = rect[2] /\ d.w = rect[3] /\ d.h = rect[4]
        /\ d.whole = whole /\ draws' = Append(draws, d)
        /\ CountTyped' /\ ServerTyped'
        /\ server'.size = server.size /\ server'.reported = server.reported
        /\ server'.owes = owes
        /\ DOMAIN server.picture = Area(server.size)
        /\ DOMAIN server'.picture = Area(server.size)
        /\ \A p \in Area(server.size) :
             server'.picture[p] = IF Covers(d, p) THEN Source(d, p[2] - d.y, p[1] - d.x)
                                  ELSE server.picture[p]
        /\ UNCHANGED <<window, screen, native, events, redraw, asks, configures, canvas, broken,
                       unseen>>
  BY <1>1, Sent
<1> DEFINE n == Len(draws)
<1>3. /\ draws' \in Seq(Draws) /\ Len(draws') = n + 1 /\ n \in Nat
      /\ \A i \in 1..n : i \in 1..Len(draws') /\ draws'[i] = draws[i]
      /\ n + 1 \in 1..Len(draws') /\ draws'[n + 1] = d
      /\ \A i \in 1..Len(draws') : i \in 1..n \/ i = n + 1
  <2>1. /\ draws' \in Seq(Draws) /\ Len(draws') = n + 1 /\ n \in Nat
        /\ \A i \in 1..n : draws'[i] = draws[i]
        /\ draws'[n + 1] = d
    BY <1>1, <1>2
  <2> HIDE DEF n
  <2>2. QED
    BY <2>1
<1> HIDE DEF n
<1>4. ASSUME Agreed', NEW p \in DOMAIN canvas' \cap DOMAIN server'.picture
      PROVE  Current(draws, p)' /\ Coming(draws, p)'
  <2>1. p \in Area(server.size) /\ p \in DOMAIN canvas \cap DOMAIN server.picture
    BY <1>2
  <2>2. CASE Covers(d, p)
    <3>1. server'.picture[p] = Source(d, p[2] - d.y, p[1] - d.x)
      BY <1>2, <2>1, <2>2
    <3>2. Covers(draws'[n + 1], p)
      BY <1>3, <2>2
    <3>3. Current(draws, p)'
      BY <1>3, <3>2 DEF Current, Covers, Holds
    <3>4. ASSUME NEW i \in 1..Len(draws'), \A j \in (i + 1)..Len(draws') : ~Covers(draws'[j], p)
          PROVE  draws'[i] = d
      <4>1. i = n + 1 \/ (i \in 1..n /\ n + 1 \in (i + 1)..Len(draws'))
        BY <1>3
      <4>2. QED
        BY <1>3, <3>2, <3>4, <4>1
    <3>5. Coming(draws, p)'
      BY <3>1, <3>4 DEF Coming, Covers, Holds, Source
    <3>6. QED
      BY <3>3, <3>5
  <2>3. CASE ~Covers(d, p)
    <3>1. owes = server.owes
      <4>1. SUFFICES ASSUME whole, rect = <<0, 0, server.size[1], server.size[2]>> PROVE FALSE
        OBVIOUS
      <4>2. server.size \in Positive \X Positive
        BY <1>1 DEF Typed, ServerTyped
      <4>3. /\ 0 <= p[1] /\ p[1] < server.size[1] /\ p[1] \in Int
            /\ 0 <= p[2] /\ p[2] < server.size[2] /\ p[2] \in Int
        BY <2>1, <4>2 DEF Area, Positive
      <4>4. /\ d.x = 0 /\ d.y = 0 /\ d.w = server.size[1] /\ d.h = server.size[2] /\ d.whole
        BY <1>2, <4>1
      <4>5. 0 + server.size[1] = server.size[1] /\ 0 + server.size[2] = server.size[2]
        BY <4>2 DEF Positive
      <4>6. Covers(d, p)
        BY <4>3, <4>4, <4>5 DEF Covers, Holds
      <4>7. QED
        BY <2>3, <4>6
    <3>2. Agreed
      BY <1>2, <1>4, <3>1 DEF Agreed
    <3>3. Current(draws, p) /\ Coming(draws, p)
      BY <1>1, <2>1, <3>2 DEF CatchingUp
    <3>4. server'.picture[p] = server.picture[p]
      BY <1>2, <2>1, <2>3
    <3>5. Current(draws, p)'
      <4>1. ASSUME \A i \in 1..Len(draws') : ~Covers(draws'[i], p)
            PROVE  \A i \in 1..n : ~Covers(draws[i], p)
        BY <1>3, <4>1
      <4>2. (\A i \in 1..Len(draws') : ~Covers(draws'[i], p)) =>
               canvas[p] \in {server.picture[p]} \cup (IF window.paint_debug THEN {Red} ELSE {})
        BY <3>3, <4>1 DEF Current, n
      <4>3. QED
        BY <1>2, <3>4, <4>2 DEF Current, Covers, Holds
    <3>6. ASSUME NEW i \in 1..Len(draws'), Covers(draws'[i], p),
                 \A j \in (i + 1)..Len(draws') : ~Covers(draws'[j], p)
          PROVE  server.picture[p] = Source(draws'[i], p[2] - draws'[i].y, p[1] - draws'[i].x)
      <4>1. i \in 1..n
        BY <1>3, <2>3, <3>6
      <4>2. ASSUME NEW j \in (i + 1)..n PROVE ~Covers(draws[j], p)
        <5>1. j \in 1..n /\ j \in (i + 1)..Len(draws')
          BY <1>3, <4>1
        <5>2. QED
          BY <1>3, <3>6, <5>1
      <4>3. draws'[i] = draws[i]
        BY <1>3, <4>1
      <4>4. QED
        BY <3>3, <3>6, <4>1, <4>2, <4>3 DEF Coming, n
    <3>7. Coming(draws, p)'
      BY <3>4, <3>6 DEF Coming, Covers, Holds, Source
    <3>8. QED
      BY <3>5, <3>7
  <2>4. QED
    BY <2>2, <2>3
<1>5. CatchingUp'
  BY <1>4 DEF CatchingUp
<1>6. LastReported' = LastReported
  BY <1>2 DEF LastReported
<1>7. asks' \in Seq(Sizes) /\ configures' \in Seq(Positive \X Positive)
  BY <1>1, <1>2 DEF Typed
<1>8. QED
  BY <1>2, <1>3, <1>5, <1>6, <1>7, ServerInv
\* The server is told a size: the one it has drawn for, or it is to draw again (external; resize
\* relies on it).
LEMMA ConfiguredInv == ASSUME Inv, ServerConfigured PROVE Inv'
<1> DEFINE s == Head(configures)
<1>1. /\ Typed /\ CatchingUp /\ ServerTyped /\ configures \in Seq(Positive \X Positive)
  BY DEF Inv, Typed
<1>2. /\ configures # <<>> /\ configures' = Tail(configures)
      /\ s = server.reported /\ s = server.size => server' = server
      /\ ~(s = server.reported /\ s = server.size) => server' = [At(s) EXCEPT !.reported = s]
      /\ UNCHANGED <<window, screen, native, events, redraw, draws, asks, count, canvas, broken,
                     unseen>>
  BY DEF ServerConfigured
<1>3. /\ s \in Positive \X Positive /\ s = configures[1]
      /\ configures' \in Seq(Positive \X Positive)
      /\ Len(configures') \in Nat /\ Len(configures) = Len(configures') + 1
      /\ \A i \in 1..Len(configures') : configures'[i] = configures[i + 1]
  BY <1>1, <1>2, QueueMoves
<1> HIDE DEF s
<1>4. /\ ServerTyped' /\ server'.reported = s
      /\ server' = server \/ server'.owes
  <2>1. CASE s = server.reported /\ s = server.size
    BY <1>1, <1>2, <2>1, SameServer
  <2>2. CASE ~(s = server.reported /\ s = server.size)
    <3> DEFINE a == At(s)
               P == [Area(s) -> Pixel]
    <3>1. /\ a \in [size : Positive \X Positive, reported : Positive \X Positive,
                    owes : BOOLEAN, picture : P]
          /\ a.size = s /\ a.owes = TRUE
      BY <1>1, <1>3, ServerAt
    <3>2. server' = [a EXCEPT !.reported = s]
      BY <1>2, <2>2
    <3> HIDE DEF a, P
    <3>3. /\ server' \in [size : Positive \X Positive, reported : Positive \X Positive,
                          owes : BOOLEAN, picture : P]
          /\ server'.size = s /\ server'.owes = TRUE /\ server'.reported = s
      BY <1>3, <3>1, <3>2
    <3>4. QED
      BY <3>3 DEF ServerTyped, P
  <2>3. QED
    BY <2>1, <2>2
<1>5. LastReported' = LastReported
  <2>1. LastReported = configures[Len(configures)]
    BY <1>2 DEF LastReported, Last
  <2>2. CASE configures' = <<>>
    <3>1. Len(configures') = 0
      BY <2>2
    <3>2. Len(configures) = 1
      BY <1>3, <3>1
    <3>3. LastReported' = s
      BY <1>4, <2>2 DEF LastReported
    <3>4. QED
      BY <1>3, <2>1, <3>2, <3>3
  <2>3. CASE configures' # <<>>
    <3>1. Len(configures') # 0
      BY <1>3, <2>3
    <3>2. Len(configures') \in 1..Len(configures')
      BY <1>3, <3>1
    <3>3. LastReported' = configures'[Len(configures')]
      BY <2>3 DEF LastReported, Last
    <3>4. QED
      BY <1>3, <2>1, <3>2, <3>3
  <2>4. QED
    BY <2>2, <2>3
<1>6. ASSUME Agreed', NEW p \in DOMAIN canvas' \cap DOMAIN server'.picture
      PROVE  Current(draws, p)' /\ Coming(draws, p)'
  <2>1. server' = server
    BY <1>4, <1>6 DEF Agreed
  <2>2. ASSUME NEW i \in 1..Len(configures) PROVE configures[i] = server.reported
    <3>1. CASE i = 1
      BY <1>3, <1>4, <2>1, <3>1
    <3>2. CASE i # 1
      <4>1. i - 1 \in 1..Len(configures') /\ (i - 1) + 1 = i
        BY <1>3, <3>2
      <4>2. configures'[i - 1] = configures[i]
        BY <1>3, <4>1
      <4>3. configures'[i - 1] = server.reported
        BY <1>6, <2>1, <4>1 DEF Agreed
      <4>4. QED
        BY <4>2, <4>3
    <3>3. QED
      BY <3>1, <3>2
  <2>3. Agreed
    BY <1>2, <1>6, <2>1, <2>2 DEF Agreed
  <2>4. Current(draws, p) /\ Coming(draws, p)
    BY <1>1, <1>2, <1>6, <2>1, <2>3 DEF CatchingUp
  <2>5. QED
    BY <1>2, <2>1, <2>4 DEF Current, Coming, Covers, Holds, Source
<1>7. CatchingUp'
  BY <1>6 DEF CatchingUp
<1>8. CountTyped' /\ draws' \in Seq(Draws) /\ asks' \in Seq(Sizes)
  BY <1>1, <1>2 DEF Typed, CountTyped
<1>9. QED
  BY <1>2, <1>3, <1>4, <1>5, <1>7, <1>8, ServerInv

\* An application resizes its window at the server, which is to draw it again (external).
LEMMA AsksInv == ASSUME Inv, NEW s \in Sizes, ServerAsks(s) PROVE Inv'
<1> DEFINE r == AtLeast1(s)
           a == At(r)
<1>1. /\ Typed /\ ServerTyped /\ CountTyped
  BY DEF Inv, Typed
<1>2. /\ count.asks < MaxAsks /\ count' = [count EXCEPT !.asks = count.asks + 1]
      /\ asks' = Append(asks, s) /\ server' = a
      /\ UNCHANGED <<window, screen, native, events, redraw, draws, configures, canvas, broken,
                     unseen>>
  BY DEF ServerAsks
<1>3. r \in Positive \X Positive
  BY <1>1, SizesTyped
<1>4. /\ a \in [size : Positive \X Positive, reported : Positive \X Positive,
                owes : BOOLEAN, picture : [Area(r) -> Pixel]]
      /\ a.size = r /\ a.owes = TRUE /\ a.reported = server.reported
  BY <1>1, <1>3, ServerAt
<1> HIDE DEF a, r
<1>5. ServerTyped'
  BY <1>2, <1>4 DEF ServerTyped
<1>6. CountTyped'
  <2>1. count.asks + 1 \in 0..MaxAsks
    BY <1>1, <1>2, FramebufferAssumption DEF CountTyped
  <2>2. QED
    BY <1>1, <1>2, <2>1 DEF CountTyped
<1>7. CatchingUp'
  BY <1>2, <1>4 DEF CatchingUp, Agreed
<1>8. LastReported' = LastReported
  BY <1>2, <1>4 DEF LastReported
<1>9. asks' \in Seq(Sizes) /\ draws' \in Seq(Draws) /\ configures' \in Seq(Positive \X Positive)
  BY <1>1, <1>2 DEF Typed
<1>10. QED
  BY <1>2, <1>5, <1>6, <1>7, <1>8, <1>9, ServerInv

\* Every step of the window, the user and the server keeps the invariant.
LEMMA NextInv == ASSUME Inv, [Next]_vars PROVE Inv'
<1>1. Typed
  BY DEF Inv
<1>2. CASE ProcessDrawDecoded
  BY <1>2, DrawInv
<1>3. CASE ProcessWindowMoveResize
  <2> DEFINE s == AtLeast1(Head(asks))
  <2>1. /\ asks # <<>> /\ asks' = Tail(asks) /\ asks \in Seq(Sizes)
        /\ UNCHANGED <<window, screen, draws, configures, server, count, canvas, broken>>
    BY <1>1, <1>3 DEF ProcessWindowMoveResize, Typed
  <2>2. Head(asks) \in Sizes /\ asks' \in Seq(Sizes)
    BY <2>1, QueueMoves
  <2>3. /\ CountTyped' /\ events \in Nat /\ unseen \in BOOLEAN /\ redraw \in BOOLEAN
        /\ native \in Sizes \cup {AtLeast1(z) : z \in Sizes}
    BY <1>1, <2>1 DEF Typed, CountTyped
  <2>4. s \in Sizes \cup {AtLeast1(z) : z \in Sizes}
    BY <2>2
  <2>5. CASE UNCHANGED <<native, events, redraw, unseen>>
    BY <2>1, <2>2, <2>3, <2>5, NativeInv
  <2>6. CASE native' = s /\ events' = events + 1 /\ UNCHANGED <<redraw, unseen>>
    <3>1. events' \in Nat /\ events' # 0
      BY <2>3, <2>6
    <3>2. QED
      BY <2>1, <2>2, <2>3, <2>4, <2>6, <3>1, NativeInv
  <2>7. CASE /\ native' = s /\ unseen' = (unseen \/ s # native) /\ UNCHANGED events
             /\ redraw' \in {redraw, TRUE}
    <3>1. (unseen => unseen') /\ unseen' \in BOOLEAN /\ (native' # native => unseen')
      BY <2>3, <2>7
    <3>2. QED
      BY <2>1, <2>2, <2>3, <2>4, <2>7, <3>1, NativeInv
  <2>8. QED
    BY <1>3, <2>5, <2>6, <2>7 DEF ProcessWindowMoveResize
<1>4. ASSUME NEW ok \in BOOLEAN, WindowMovedOrResized(ok) PROVE Inv'
  BY <1>4, ResizeInv
<1>5. ASSUME NEW ok \in BOOLEAN, DrawScreen(ok) PROVE Inv'
  BY <1>5, ScreenInv
<1>6. ASSUME NEW s \in Sizes, NativeMoves(s) PROVE Inv'
  <2>1. /\ count.moves < MaxMoves /\ count' = [count EXCEPT !.moves = count.moves + 1]
        /\ native' = s /\ events' = events + 1
        /\ UNCHANGED <<window, screen, redraw, draws, asks, configures, server, canvas, broken,
                       unseen>>
    BY <1>6 DEF NativeMoves
  <2>2. CountTyped'
    <3>1. CountTyped
      BY <1>1 DEF Typed
    <3>2. count.moves + 1 \in 0..MaxMoves
      BY <2>1, <3>1, FramebufferAssumption DEF CountTyped
    <3>3. QED
      BY <2>1, <3>1, <3>2 DEF CountTyped
  <2>3. /\ events' \in Nat /\ events' # 0 /\ native' \in Sizes \cup {AtLeast1(z) : z \in Sizes}
        /\ unseen' \in BOOLEAN
    BY <1>1, <2>1 DEF Typed
  <2>4. asks' \in Seq(Sizes)
    BY <1>1, <2>1 DEF Typed
  <2>5. QED
    BY <2>1, <2>2, <2>3, <2>4, NativeInv
<1>7. ASSUME NEW s \in Sizes, ServerAsks(s) PROVE Inv'
  BY <1>7, AsksInv
<1>8. ASSUME NEW rect \in Rects, NEW whole \in BOOLEAN, ServerDraws(rect, whole) PROVE Inv'
  <2>1. rect \in Int \X Int \X Nat \X Nat
    BY FramebufferAssumption
  <2>2. Sends(rect, whole, server.owes) /\ server.owes \in BOOLEAN
    BY <1>1, <1>8 DEF ServerDraws, Typed, ServerTyped
  <2>3. QED
    BY <2>1, <2>2, SentInv
<1>9. CASE ServerRedraws
  <2> DEFINE rect == <<0, 0, server.size[1], server.size[2]>>
  <2>1. Sends(rect, TRUE, FALSE)
    BY <1>9 DEF ServerRedraws
  <2>2. rect \in Int \X Int \X Nat \X Nat
    BY <1>1 DEF Typed, ServerTyped, Positive
  <2>3. QED
    BY <2>1, <2>2, SentInv
<1>10. CASE ServerConfigured
  BY <1>10, ConfiguredInv
<1>11. CASE UNCHANGED vars
  <2>1. /\ UNCHANGED <<window, screen, native, events, redraw, draws, asks, configures, server,
                       count, canvas, broken, unseen>>
    BY <1>11 DEF vars
  <2>2. /\ native' \in Sizes \cup {AtLeast1(z) : z \in Sizes} /\ events' \in Nat
        /\ asks' \in Seq(Sizes) /\ CountTyped' /\ unseen' \in BOOLEAN
    BY <1>1, <2>1 DEF Typed, CountTyped
  <2>3. QED
    BY <2>1, <2>2, NativeInv
<1>12. QED
  BY <1>2, <1>3, <1>4, <1>5, <1>6, <1>7, <1>8, <1>9, <1>10, <1>11 DEF Next

-----------------------------------------------------------------------------
(* What follows *)

\* The invariant holds of every run (paint, resize and draw_screen together).
LEMMA Invariant == Spec => []Inv
<1>1. Init => Inv
  BY InitInv
<1>2. Inv /\ [Next]_vars => Inv'
  BY NextInv
<1>3. QED
  BY <1>1, <1>2, PTL DEF Spec

\* The framebuffer and the surface have the size of the window, whichever call of the surface
\* fails, and painting never leaves the framebuffer (paint, set_pixel, resize, draw_screen).
THEOREM TypeCorrect == Spec => []TypeOK
<1>1. Inv => TypeOK
  <2>1. SUFFICES ASSUME Inv PROVE TypeOK
    OBVIOUS
  <2>2. Typed /\ WindowTyped
    BY <2>1 DEF Inv, Typed
  <2>3. /\ window.width > 0 /\ window.height > 0 /\ window.paint_debug \in BOOLEAN
        /\ window.surface = <<window.width, window.height>>
        /\ window.framebuffer \in [0..(window.width * window.height - 1) -> Pixel]
    BY <2>2, WindowParts DEF Positive, Size
  <2>4. \A i \in DOMAIN draws : draws[i].seq \in 1..MaxDraws /\ draws[i].whole \in BOOLEAN
    <3>1. \A i \in DOMAIN draws : draws[i] \in Draws
      BY <2>2 DEF Typed
    <3>2. QED
      BY <3>1 DEF Draws
  <2>5. configures \in Seq(Nat \X Nat)
    <3>1. configures \in Seq(Positive \X Positive)
      BY <2>2 DEF Typed
    <3>2. \A i \in 1..Len(configures) : configures[i] \in Nat \X Nat
      BY <3>1 DEF Positive
    <3>3. QED
      BY <3>1, <3>2
  <2>6. server.owes \in BOOLEAN
    BY <2>2 DEF Typed, ServerTyped
  <2>7. QED
    BY <2>2, <2>3, <2>4, <2>5, <2>6 DEF TypeOK, Typed
<1>2. QED
  BY <1>1, Invariant, PTL

\* Every position shows what was drawn there last, whatever is clipped (paint,
\* draw_debug_border).
THEOREM PixelsPlacedCorrect == Spec => []PixelsPlaced
<1>1. Inv => PixelsPlaced
  BY DEF Inv
<1>2. QED
  BY <1>1, Invariant, PTL

\* Once everything queued is handled, the user sees the server's picture in the size reported
\* last, which is the native one unless that came without an event (handle_window_event, resize,
\* draw_screen).
THEOREM ScreenCurrentCorrect == Spec => []ScreenCurrent
<1>1. Inv => ScreenCurrent
  <2>1. SUFFICES ASSUME Inv, Quiet, broken = {}
                 PROVE  /\ screen.size = server.reported
                        /\ unseen \/ screen.size = AtLeast1(native)
                        /\ \A p \in Area(screen.size) \cap DOMAIN server.picture :
                              screen.pixels[p[2] * screen.size[1] + p[1]] \in {server.picture[p]}
                                  \cup (IF window.paint_debug THEN {Red} ELSE {})
    BY DEF ScreenCurrent
  <2>2. /\ Typed /\ PixelsPlaced /\ SizeFollows /\ ScreenFollows /\ SizeReported /\ CatchingUp
    BY <2>1 DEF Inv
  <2>3. /\ events = 0 /\ ~redraw /\ ~server.owes
        /\ draws = <<>> /\ configures = <<>> /\ broken = {}
    BY <2>1 DEF Quiet
  <2>4. Size = server.reported /\ (unseen \/ Size = AtLeast1(native))
    BY <2>2, <2>3 DEF SizeFollows, SizeReported, LastReported
  <2>5. screen = [size |-> Size, pixels |-> window.framebuffer]
    BY <2>2, <2>3 DEF ScreenFollows
  <2>6. 1..Len(configures) = {} /\ 1..Len(draws) = {}
    <3>1. Len(<<>>) = 0 /\ 1..0 = {}
      OBVIOUS
    <3>2. QED
      BY <2>3, <3>1
  <2>7. Agreed
    BY <2>3, <2>6 DEF Agreed
  <2>8. DOMAIN canvas = Area(Size)
    BY <2>2 DEF PixelsPlaced, Size
  <2>9. ASSUME NEW p \in Area(screen.size) \cap DOMAIN server.picture
        PROVE  screen.pixels[p[2] * screen.size[1] + p[1]] \in {server.picture[p]}
                   \cup (IF window.paint_debug THEN {Red} ELSE {})
    <3>1. p \in DOMAIN canvas \cap DOMAIN server.picture
      BY <2>5, <2>8
    <3>2. canvas[p] \in {server.picture[p]} \cup (IF window.paint_debug THEN {Red} ELSE {})
      BY <2>2, <2>6, <2>7, <3>1 DEF CatchingUp, Current
    <3>3. screen.size[1] = window.width /\ screen.pixels = window.framebuffer
      BY <2>5 DEF Size
    <3>4. window.framebuffer[Offset(p[1], p[2])] = canvas[p]
      BY <2>2, <3>1 DEF PixelsPlaced
    <3>5. QED
      BY <3>2, <3>3, <3>4 DEF Offset
  <2>10. QED
    BY <2>4, <2>5, <2>9
<1>2. QED
  BY <1>1, Invariant, PTL
=============================================================================
