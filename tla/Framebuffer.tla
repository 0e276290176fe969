---------------------------- MODULE Framebuffer ----------------------------
(***************************************************************************)
(* The picture of one window (XpraWindow in window.rs, and the handlers of *)
(* client.rs that paint and resize it): rectangles the server draws are    *)
(* composited into a framebuffer, a linear array, which is copied to the   *)
(* native surface when winit asks for it.  The user, the window manager    *)
(* and the server resize the window meanwhile: a new size drops the        *)
(* framebuffer and is reported to the server, which draws it again.        *)
(***************************************************************************)
EXTENDS Integers, FiniteSetsExt, SequencesExt

CONSTANTS
    Sizes,      \* the sizes tried, <<width, height>>; winit reports <<0, 0>> when minimised
    Rects,      \* the parts of a window tried, <<x, y, width, height>>
    MaxDraws,   \* draws the server sends
    MaxMoves,   \* times the native window is moved or resized
    MaxAsks,    \* times the server asks for another size
    MaxFaults   \* calls of the surface that fail

ASSUME FramebufferAssumption ==
    /\ Sizes \subseteq Nat \X Nat /\ Rects \subseteq Int \X Int \X Nat \X Nat
    /\ MaxDraws \in Nat /\ MaxMoves \in Nat /\ MaxAsks \in Nat /\ MaxFaults \in Nat

VARIABLES
    window,      \* XpraWindow: its size, framebuffer and paint_debug, and its surface's size
    screen,      \* what was presented last: the size and the pixels
    native,      \* (external) inner_size() of the native window
    events,      \* Moved and Resized events of it that are queued
    redraw,      \* a RedrawRequested is queued
    draws,       \* decoded draws that are queued, oldest first
    asks,        \* window-move-resize packets that are queued
    configures,  \* window-configure packets on their way to the server
    server,      \* (external) its picture of the window, and what it still has to draw
    count,       \* how often each of the bounded things happened
    canvas,      \* history: what the window shows at each position
    broken,      \* history: calls of the surface failed and were not made up for
    unseen       \* history: the native size was changed without an event, and none came since

vars == <<window, screen, native, events, redraw, draws, asks, configures, server, count,
          canvas, broken, unseen>>

Blank == <<>>
Red == <<"red">>
Pixel == {Blank, Red} \cup (Nat \X Nat \X Nat)
Area(s) == (0..(s[1] - 1)) \X (0..(s[2] - 1))
AtLeast1(s) == <<Max({s[1], 1}), Max({s[2], 1})>>

\* The framebuffer and the surface always have the size of the window, also when resizing the
\* surface fails halfway, and nothing is ever painted outside of them, which would panic (paint,
\* set_pixel, resize, draw_screen).
TypeOK ==
    /\ window.width > 0 /\ window.height > 0 /\ window.paint_debug \in BOOLEAN
    /\ window.surface = <<window.width, window.height>>
    /\ window.framebuffer \in [0..(window.width * window.height - 1) -> Pixel]
    /\ native \in Sizes \cup {AtLeast1(s) : s \in Sizes} /\ events \in Nat /\ redraw \in BOOLEAN
    /\ \A i \in DOMAIN draws : draws[i].seq \in 1..MaxDraws /\ draws[i].whole \in BOOLEAN
    /\ asks \in Seq(Sizes) /\ configures \in Seq(Nat \X Nat)
    /\ server.owes \in BOOLEAN /\ broken \subseteq {"resize", "present"}
    /\ unseen \in BOOLEAN

\* f drawn over g
Over(f, g) == [o \in DOMAIN f \cup DOMAIN g |-> IF o \in DOMAIN f THEN f[o] ELSE g[o]]

NewBuffer(s) == [o \in 0..(s[1] * s[2] - 1) |-> Blank]
NewCanvas(s) == [p \in Area(s) |-> Blank]

\* process_new_common and XpraWindow::new for a window of size s, which the server has yet to
\* draw; a window manager that gives it another size moves it first
Init ==
    \E s \in Sizes, d \in BOOLEAN :
        LET r == AtLeast1(s)
        IN /\ window = [width |-> r[1], height |-> r[2], surface |-> r,
                        framebuffer |-> NewBuffer(r), paint_debug |-> d]
           /\ native = r /\ events = 0 /\ redraw = TRUE
           /\ screen = [size |-> r, pixels |-> NewBuffer(r)]
           /\ draws = <<>> /\ asks = <<>> /\ configures = <<>>
           /\ server = [size |-> r, reported |-> r, owes |-> TRUE, picture |-> NewCanvas(r)]
           /\ count = [draws |-> 0, moves |-> 0, asks |-> 0, faults |-> 0]
           /\ canvas = NewCanvas(r) /\ broken = {} /\ unseen = FALSE

-----------------------------------------------------------------------------
(* XpraWindow *)

Offset(x, y) == y * window.width + x

\* the pixel of draw d in that row and column of its rectangle
Source(d, row, col) == <<d.seq, row, col>>

\* columns are not checked
KeptMutant(d) ==
    {c \in Area(<<d.w, d.h>>) : /\ 0 <= d.x + c[1]
                                /\ 0 <= d.y + c[2] /\ d.y + c[2] < window.height}

\* the cells of draw d, <<column, row>>, that are not outside the window
Kept(d) ==
    {c \in Area(<<d.w, d.h>>) : /\ 0 <= d.x + c[1] /\ d.x + c[1] < window.width
                                /\ 0 <= d.y + c[2] /\ d.y + c[2] < window.height}

Composite(d) ==
    LET at(c) == Offset(d.x + c[1], d.y + c[2])
    IN [o \in {at(c) : c \in Kept(d)} |->
           LET c == CHOOSE e \in Kept(d) : at(e) = o IN Source(d, c[2], c[1])]

\* draw_debug_border: the four edges of what is inside the window
Edges(d) ==
    LET x0 == Max({d.x, 0}) y0 == Max({d.y, 0})
        x1 == Min({Max({d.x + d.w, 0}), window.width})
        y1 == Min({Max({d.y + d.h, 0}), window.height})
        edge == ((x0..(x1 - 1)) \X {y0, y1 - 1}) \cup ({x0, x1 - 1} \X (y0..(y1 - 1)))
    IN IF x1 <= x0 \/ y1 <= y0 THEN {}
       ELSE {Offset(p[1], p[2]) : p \in {p \in edge : p[1] < window.width /\ p[2] < window.height}}

Painted(d) ==
    LET border == [o \in IF window.paint_debug THEN Edges(d) ELSE {} |-> Red]
    IN Over(border, Over(Composite(d), window.framebuffer))

-----------------------------------------------------------------------------
(* The UI thread's handlers *)

\* what the draw shows at each position, border included: a position is at the edge when one
\* of its neighbours is not part of what was drawn
Shown(d, area, debug) ==
    LET inside == {p \in area : /\ d.x <= p[1] /\ p[1] < d.x + d.w
                                /\ d.y <= p[2] /\ p[2] < d.y + d.h}
        atEdge(p) == \E n \in {<<p[1] - 1, p[2]>>, <<p[1] + 1, p[2]>>,
                               <<p[1], p[2] - 1>>, <<p[1], p[2] + 1>>} : n \notin inside
    IN [p \in inside |-> IF debug /\ atEdge(p) THEN Red
                         ELSE Source(d, p[2] - d.y, p[1] - d.x)]

\* no redraw is requested
DrawDecodedMutant ==
    /\ draws # <<>> /\ draws' = Tail(draws)
    /\ LET d == Head(draws)
       IN IF d.whole
          THEN /\ window' = [window EXCEPT !.framebuffer = Painted(d)]
               /\ canvas' = Over(Shown(d, DOMAIN canvas, window.paint_debug), canvas)
          ELSE UNCHANGED <<window, canvas>>
    /\ UNCHANGED <<redraw, screen, native, events, asks, configures, server, count, broken,
                   unseen>>

\* process_draw_decoded: paint refuses a draw with too few pixels, and one without any is the
\* warm-up of a decoder; neither changes the window
ProcessDrawDecoded ==
    /\ draws # <<>> /\ draws' = Tail(draws)
    /\ LET d == Head(draws)
       IN IF d.whole
          THEN /\ window' = [window EXCEPT !.framebuffer = Painted(d)]
               /\ canvas' = Over(Shown(d, DOMAIN canvas, window.paint_debug), canvas)
               /\ redraw' = TRUE
          ELSE UNCHANGED <<window, canvas, redraw>>
    /\ UNCHANGED <<screen, native, events, asks, configures, server, count, broken, unseen>>

\* process_window_move_resize: the window manager may ignore it, or resize the window and send an
\* event; or request_inner_size resizes it at once and returns the size, which is dropped, and no
\* event follows (Wayland)
ProcessWindowMoveResize ==
    /\ asks # <<>> /\ asks' = Tail(asks)
    /\ LET s == AtLeast1(Head(asks))
       IN \/ UNCHANGED <<native, events, redraw, unseen>>
          \/ native' = s /\ events' = events + 1 /\ UNCHANGED <<redraw, unseen>>
          \/ /\ native' = s /\ unseen' = (unseen \/ s # native) /\ UNCHANGED events
             /\ redraw' \in {redraw, TRUE}
    /\ UNCHANGED <<window, screen, draws, configures, server, count, canvas, broken>>

Fault(ok) ==
    /\ ok \/ count.faults < MaxFaults
    /\ count' = [count EXCEPT !.faults = IF ok THEN @ ELSE @ + 1]

\* the size is set before the surface is
ResizedMutant(r, ok) ==
    IF ok THEN [window EXCEPT !.width = r[1], !.height = r[2], !.surface = r,
                              !.framebuffer = NewBuffer(r)]
    ELSE [window EXCEPT !.width = r[1], !.height = r[2]]

\* a failing surface keeps its size, and so does the window
Resized(r, ok) ==
    IF ok THEN [window EXCEPT !.width = r[1], !.height = r[2], !.surface = r,
                              !.framebuffer = NewBuffer(r)]
    ELSE window

LastReported == IF configures = <<>> THEN server.reported ELSE Last(configures)

\* Moved and Resized: the handler looks at the native window, not at the event
WindowMovedOrResized(ok) ==
    LET r == AtLeast1(native)
        same == r = <<window.width, window.height>>
    IN /\ events > 0 /\ events' = events - 1 /\ unseen' = FALSE
       /\ configures' = Append(configures, r)
       /\ IF same
          THEN ok /\ UNCHANGED <<window, redraw, count, canvas>>
          ELSE /\ Fault(ok) /\ window' = Resized(r, ok)
               /\ redraw' = (redraw \/ ok)
               /\ canvas' = IF ok THEN NewCanvas(r) ELSE canvas
       /\ broken' = IF ~ok THEN broken \cup {"resize"}
                    ELSE broken \ (IF r # LastReported THEN {"resize"} ELSE {})
       /\ UNCHANGED <<screen, native, draws, asks, server>>

\* draw_screen, for RedrawRequested
DrawScreen(ok) ==
    /\ redraw /\ redraw' = FALSE /\ Fault(ok)
    /\ LET fits == window.surface[1] * window.surface[2] = Cardinality(DOMAIN window.framebuffer)
       IN IF ok /\ fits
          THEN /\ screen' = [size |-> window.surface, pixels |-> window.framebuffer]
               /\ broken' = broken \ {"present"}
          ELSE UNCHANGED screen /\ broken' = broken \cup (IF ok THEN {} ELSE {"present"})
    /\ UNCHANGED <<window, native, unseen, events, draws, asks, configures, server, canvas>>

-----------------------------------------------------------------------------
(* The user and the window manager, and the server (external) *)

NativeMoves(s) ==
    /\ count.moves < MaxMoves /\ count' = [count EXCEPT !.moves = @ + 1]
    /\ native' = s /\ events' = events + 1
    /\ UNCHANGED <<window, screen, redraw, draws, asks, configures, server, canvas, broken,
                   unseen>>

\* a draw of the server; its picture is made of the draws that carry pixels
Sends(rect, whole, owes) ==
    LET d == [seq |-> count.draws + 1, x |-> rect[1], y |-> rect[2], w |-> rect[3],
              h |-> rect[4], whole |-> whole]
    IN /\ count.draws < MaxDraws /\ count' = [count EXCEPT !.draws = @ + 1]
       /\ draws' = Append(draws, d)
       /\ server' = [server EXCEPT
             !.owes = owes,
             !.picture = IF whole THEN Over(Shown(d, DOMAIN @, FALSE), @) ELSE @]
       /\ UNCHANGED <<window, screen, native, events, redraw, asks, configures, canvas, broken,
                      unseen>>

ServerDraws(rect, whole) == Sends(rect, whole, server.owes)
ServerRedraws ==
    server.owes /\ Sends(<<0, 0, server.size[1], server.size[2]>>, TRUE, FALSE)

At(s) == [server EXCEPT !.size = s, !.owes = TRUE, !.picture = NewCanvas(s)]

\* an application resizes its window
ServerAsks(s) ==
    /\ count.asks < MaxAsks /\ count' = [count EXCEPT !.asks = @ + 1]
    /\ asks' = Append(asks, s) /\ server' = At(AtLeast1(s))
    /\ UNCHANGED <<window, screen, native, events, redraw, draws, configures, canvas, broken,
                   unseen>>

\* it follows the size it is told, and draws again whenever that is another than the one it
\* was told before or the one it has: resize relies on it
ServerConfigured ==
    /\ configures # <<>> /\ configures' = Tail(configures)
    /\ LET s == Head(configures)
       IN server' = IF s = server.reported /\ s = server.size THEN server
                    ELSE [At(s) EXCEPT !.reported = s]
    /\ UNCHANGED <<window, screen, native, events, redraw, draws, asks, count, canvas, broken,
                   unseen>>

-----------------------------------------------------------------------------
Next ==
    \/ ProcessDrawDecoded \/ ProcessWindowMoveResize
    \/ \E ok \in BOOLEAN : WindowMovedOrResized(ok) \/ DrawScreen(ok)
    \/ \E s \in Sizes : NativeMoves(s) \/ ServerAsks(s)
    \/ \E r \in Rects, whole \in BOOLEAN : ServerDraws(r, whole)
    \/ ServerRedraws \/ ServerConfigured

Spec == Init /\ [][Next]_vars

-----------------------------------------------------------------------------
(* Properties *)

\* Every position of the window shows what was drawn there last since its size changed, from
\* whatever rectangles, clipped at any side and drawn for another size, and nothing else: the
\* linear offsets of paint and of the debug border are right.
PixelsPlaced ==
    /\ DOMAIN canvas = Area(<<window.width, window.height>>)
    /\ \A p \in DOMAIN canvas : window.framebuffer[Offset(p[1], p[2])] = canvas[p]

Quiet ==
    /\ events = 0 /\ ~redraw /\ ~server.owes
    /\ draws = <<>> /\ asks = <<>> /\ configures = <<>>

\* Once everything queued has been handled, the user sees the server's picture in a window of
\* the native size, however draws made for one size crossed a change to another: each resize
\* that drops the framebuffer is reported, and no report is left out (handle_window_event,
\* resize, draw_screen). Not claimed after the surface failed to resize, until a new size was
\* reported, or to present, until the next redraw: nothing tries again. A native size that came
\* without an event (process_window_move_resize drops what request_inner_size returns) is not
\* followed until the next event: the picture is shown in the size reported last meanwhile.
ScreenCurrent ==
    Quiet /\ broken = {} =>
        /\ screen.size = server.reported /\ (unseen \/ screen.size = AtLeast1(native))
        /\ \A p \in Area(screen.size) \cap DOMAIN server.picture :
              screen.pixels[p[2] * screen.size[1] + p[1]] \in {server.picture[p]} \cup
                  (IF window.paint_debug THEN {Red} ELSE {})
=============================================================================
