--------------------------- MODULE WindowRegistry ---------------------------
(***************************************************************************)
(* The windows of the client, as XpraClient keeps them on the UI thread    *)
(* (client.rs, window.rs): `windows` by xpra window id, `id_map` from the  *)
(* native window id to the xpra one, the session cursor and the pointer    *)
(* grab.  Every handler of a server packet that changes them is an action, *)
(* and so is the handling of a native window event, which may have been    *)
(* queued before the window it is for was lost.                            *)
(***************************************************************************)
EXTENDS Naturals, FiniteSets

CONSTANTS
    Wids,      \* xpra window ids; the server never announces one twice
    Ids,       \* native window ids, never reused by the window system
    Cursors,   \* cursor shapes
    Updates,   \* metadata updates the server may send, a subset of Update
    MaxPending,  \* bound on the native events waiting at once
    NoWid, NoId, DefaultCursor

Flags == {"absent", "yes", "no"}
Update == [decorations : Flags, above : Flags, below : Flags, fixed : Flags]

ASSUME RegistryAssumption ==
    /\ NoWid \notin Wids /\ NoId \notin Ids /\ DefaultCursor \notin Cursors
    /\ Updates \subseteq Update
    /\ MaxPending \in Nat

VARIABLES
    windows,          \* per window id, the XpraWindow and its native window
    id_map,           \* native window id -> window id
    pointer_grabbed,  \* the window holding the pointer grab
    current_cursor,   \* the session cursor
    announced,        \* windows the server has announced so far
    made,             \* native ids given out so far
    events,           \* native events waiting for the UI thread
    input,            \* the last input packet sent to the server
    wanted,           \* history: how the server asked windows and the pointer to look
    refused           \* history: windows that kept their grab when it was to be released

vars == <<windows, id_map, pointer_grabbed, current_cursor, announced, made,
          events, input, wanted, refused>>

Levels == {"normal", "top", "bottom"}
Grabs == {"none", "confined", "locked"}
Window ==
    [id : Ids \cup {NoId}, override_redirect : BOOLEAN, above : BOOLEAN,
     below : BOOLEAN, level : Levels, decorated : BOOLEAN,
     resizable : BOOLEAN, cursor : Cursors \cup {DefaultCursor}, grab : Grabs]
\* "key" stands for closing the window too
EventKinds == {"key", "focus", "pointer"}

\* the value of `windows` at a key it does not hold
Absent ==
    [id |-> NoId, override_redirect |-> FALSE, above |-> FALSE,
     below |-> FALSE, level |-> "normal", decorated |-> FALSE,
     resizable |-> FALSE, cursor |-> DefaultCursor, grab |-> "none"]

\* what the server has asked of a window
Look == [level : Levels, decorated : BOOLEAN, resizable : BOOLEAN]
NoLook == [level |-> "normal", decorated |-> TRUE, resizable |-> TRUE]

NoInput == [wid |-> NoWid, kind |-> "none"]

Open(w) == windows[w].id # NoId
Grabbed(w) == windows[w].grab # "none"

TypeOK ==
    /\ windows \in [Wids -> Window]
    /\ id_map \in [Ids -> Wids \cup {NoWid}]
    /\ pointer_grabbed \in Wids \cup {NoWid}
    /\ current_cursor \in Cursors \cup {DefaultCursor}
    /\ announced \in SUBSET Wids
    /\ made \in SUBSET Ids
    /\ events \in SUBSET [id : Ids, kind : EventKinds]
    /\ input \in [wid : Wids, kind : EventKinds] \cup {NoInput}
    /\ wanted \in [looks : [Wids -> Look], cursor : Cursors \cup {DefaultCursor}]
    /\ refused \in SUBSET Wids

Init ==
    /\ windows = [w \in Wids |-> Absent]
    /\ id_map = [i \in Ids |-> NoWid]
    /\ pointer_grabbed = NoWid
    /\ current_cursor = DefaultCursor
    /\ announced = {} /\ made = {} /\ events = {}
    /\ input = NoInput
    /\ wanted = [looks |-> [w \in Wids |-> NoLook], cursor |-> DefaultCursor]
    /\ refused = {}

-----------------------------------------------------------------------------
(* Window metadata *)

\* above and below exclude each other; the later of the two fields wins
Above(win, u) ==
    /\ IF u.above = "absent" THEN win.above ELSE u.above = "yes"
    /\ u.below # "yes"

\* clears nothing: an update that sets one flag leaves the other
BelowMutant(win, u) ==
    IF u.below = "absent" THEN win.below ELSE u.below = "yes"

Below(win, u) ==
    IF u.below = "absent" THEN win.below /\ u.above # "yes"
    ELSE u.below = "yes"

LevelOf(above, below) ==
    IF above THEN "top" ELSE IF below THEN "bottom" ELSE "normal"

\* apply_window_metadata
ApplyWindowMetadata(win, u) ==
    [win EXCEPT
        !.decorated = IF u.decorations = "absent" THEN @
                      ELSE u.decorations = "yes" /\ ~win.override_redirect,
        !.resizable = IF u.fixed = "absent" THEN @
                      ELSE ~win.override_redirect /\ u.fixed = "no",
        !.above = Above(win, u),
        !.below = Below(win, u),
        !.level = IF u.above = "absent" /\ u.below = "absent" THEN @
                  ELSE LevelOf(Above(win, u), Below(win, u))]

\* history: what an update asks for; a level stays until another one is asked for or it is
\* withdrawn, and of two in one update below is the later
Asks(look, u) ==
    [level |-> IF u.below = "yes" THEN "bottom"
               ELSE IF u.above = "yes" THEN "top"
               ELSE IF look.level = "top" /\ u.above = "no" THEN "normal"
               ELSE IF look.level = "bottom" /\ u.below = "no" THEN "normal"
               ELSE look.level,
     decorated |-> IF u.decorations = "absent" THEN look.decorated ELSE u.decorations = "yes",
     resizable |-> IF u.fixed = "absent" THEN look.resizable ELSE u.fixed = "no"]

ProcessWindowMetadata(w, u) ==
    /\ Open(w)
    /\ windows' = [windows EXCEPT ![w] = ApplyWindowMetadata(@, u)]
    /\ wanted' = [wanted EXCEPT !.looks[w] = Asks(@, u)]
    /\ UNCHANGED <<id_map, pointer_grabbed, current_cursor, announced, made,
                   events, input, refused>>

-----------------------------------------------------------------------------
(* Windows come and go *)

NewWindow(i, override, u) ==
    ApplyWindowMetadata(
        [id |-> i, override_redirect |-> override, above |-> FALSE,
         below |-> FALSE, level |-> "normal",
         decorated |-> ~override /\ u.decorations # "no",
         resizable |-> ~override, cursor |-> current_cursor, grab |-> "none"],
        u)

\* process_new_common, when the native window could be created
ProcessNewCommon(w, i, override, u) ==
    /\ w \notin announced /\ announced' = announced \cup {w}
    /\ i \notin made /\ made' = made \cup {i}
    /\ windows' = [windows EXCEPT ![w] = NewWindow(i, override, u)]
    /\ id_map' = [id_map EXCEPT ![i] = w]
    /\ wanted' = [wanted EXCEPT !.looks[w] = Asks(NoLook, u)]
    /\ UNCHANGED <<pointer_grabbed, current_cursor, events, input, refused>>

\* process_new_common, when it could not: the window stays unknown
ProcessNewFailed(w) ==
    /\ w \notin announced /\ announced' = announced \cup {w}
    /\ UNCHANGED <<windows, id_map, pointer_grabbed, current_cursor, made,
                   events, input, wanted, refused>>

\* the id_map entry is forgotten
LostWindowMutant(w) ==
    /\ Open(w)
    /\ pointer_grabbed' = IF pointer_grabbed = w THEN NoWid ELSE pointer_grabbed
    /\ windows' = [windows EXCEPT ![w] = Absent] /\ refused' = refused \ {w}
    /\ wanted' = [wanted EXCEPT !.looks[w] = NoLook]
    /\ UNCHANGED <<id_map, current_cursor, announced, made, events, input>>

\* process_lost_window: release the grab, drop the window and its id_map entry; a native
\* window that is gone holds no grab
ProcessLostWindow(w) ==
    /\ Open(w)
    /\ pointer_grabbed' = IF pointer_grabbed = w THEN NoWid ELSE pointer_grabbed
    /\ windows' = [windows EXCEPT ![w] = Absent] /\ refused' = refused \ {w}
    /\ id_map' = [id_map EXCEPT ![windows[w].id] = NoWid]
    /\ wanted' = [wanted EXCEPT !.looks[w] = NoLook]
    /\ UNCHANGED <<current_cursor, announced, made, events, input>>

-----------------------------------------------------------------------------
(* Pointer grab *)

\* release_pointer_grab: set_cursor_grab(None) on the holder's window, which keeps its grab
\* when that fails; the holder is forgotten either way
Release(done) ==
    IF done /\ pointer_grabbed # NoWid THEN [windows EXCEPT ![pointer_grabbed].grab = "none"]
    ELSE windows
Refusing(done) ==
    IF ~done /\ pointer_grabbed # NoWid THEN refused \cup {pointer_grabbed} ELSE refused

\* the previous holder is not released
GrabMutant(w, done, mode) ==
    /\ pointer_grabbed # w
    /\ IF Open(w) /\ mode # "none"
       THEN /\ pointer_grabbed' = w
            /\ windows' = [windows EXCEPT ![w].grab = mode]
            /\ refused' = refused \ {w}
       ELSE pointer_grabbed' = NoWid /\ UNCHANGED <<windows, refused>>
    /\ UNCHANGED <<id_map, current_cursor, announced, made, events, input, wanted>>

\* process_pointer_grab: confine, else lock, else give up (mode "none")
ProcessPointerGrab(w, done, mode) ==
    /\ pointer_grabbed # w
    /\ IF Open(w) /\ mode # "none"
       THEN /\ pointer_grabbed' = w
            /\ windows' = [Release(done) EXCEPT ![w].grab = mode]
            /\ refused' = Refusing(done) \ {w}
       ELSE /\ pointer_grabbed' = NoWid
            /\ windows' = Release(done) /\ refused' = Refusing(done)
    /\ UNCHANGED <<id_map, current_cursor, announced, made, events, input, wanted>>

ProcessPointerUngrab(done) ==
    /\ pointer_grabbed # NoWid
    /\ windows' = Release(done) /\ refused' = Refusing(done)
    /\ pointer_grabbed' = NoWid
    /\ UNCHANGED <<id_map, current_cursor, announced, made, events, input, wanted>>

-----------------------------------------------------------------------------
(* Cursor *)

\* process_cursor: a decoded cursor, or the default one; one that cannot be decoded is ignored
ProcessCursor(c) ==
    /\ current_cursor' = c
    /\ wanted' = [wanted EXCEPT !.cursor = c]
    /\ windows' = [w \in Wids |-> IF Open(w) THEN [windows[w] EXCEPT !.cursor = c]
                                  ELSE windows[w]]
    /\ UNCHANGED <<id_map, pointer_grabbed, announced, made, events, input, refused>>

-----------------------------------------------------------------------------
(* Native window events *)

\* the window system queues an event for a window that exists (external)
NativeEvent(w, k) ==
    /\ Open(w) /\ Cardinality(events) < MaxPending
    /\ events' = events \cup {[id |-> windows[w].id, kind |-> k]}
    /\ UNCHANGED <<windows, id_map, pointer_grabbed, current_cursor, announced,
                   made, input, wanted, refused>>

\* handle_window_event looks the window up for pointer events and for focus,
\* which an override-redirect window never reports; not for keys and closing
Reported(w, k) ==
    \/ k = "key"
    \/ k = "pointer" /\ Open(w)
    \/ k = "focus" /\ Open(w) /\ ~windows[w].override_redirect

\* an unknown id is not dropped
HandleMutant(e) ==
    /\ e \in events
    /\ events' = events \ {e}
    /\ input' = IF id_map[e.id] # NoWid => Reported(id_map[e.id], e.kind)
                THEN [wid |-> id_map[e.id], kind |-> e.kind] ELSE input
    /\ UNCHANGED <<windows, id_map, pointer_grabbed, current_cursor, announced,
                   made, wanted, refused>>

\* window_event: an id that is not in id_map is dropped
HandleWindowEvent(e) ==
    /\ e \in events
    /\ events' = events \ {e}
    /\ input' = IF id_map[e.id] # NoWid /\ Reported(id_map[e.id], e.kind)
                THEN [wid |-> id_map[e.id], kind |-> e.kind] ELSE input
    /\ UNCHANGED <<windows, id_map, pointer_grabbed, current_cursor, announced,
                   made, wanted, refused>>

Next ==
    \/ \E w \in Wids, u \in Updates : ProcessWindowMetadata(w, u)
    \/ \E w \in Wids, i \in Ids, o \in BOOLEAN, u \in Updates :
          ProcessNewCommon(w, i, o, u)
    \/ \E w \in Wids : ProcessNewFailed(w)
    \/ \E w \in Wids : ProcessLostWindow(w)
    \/ \E w \in Wids, d \in BOOLEAN, m \in {"none", "confined", "locked"} :
          ProcessPointerGrab(w, d, m)
    \/ \E d \in BOOLEAN : ProcessPointerUngrab(d)
    \/ \E c \in Cursors \cup {DefaultCursor} : ProcessCursor(c)
    \/ \E w \in Wids, k \in EventKinds : NativeEvent(w, k)
    \/ \E e \in events : HandleWindowEvent(e)

Spec == Init /\ [][Next]_vars

-----------------------------------------------------------------------------
(* Properties *)

\* id_map is exactly the inverse of the windows' native ids: process_new_common and
\* process_lost_window keep the two maps in step, with no entry left for a lost window.
IdMapExact ==
    \A w \in Wids, i \in Ids : id_map[i] = w <=> windows[w].id = i

\* The windows that hold a native grab are exactly the recorded holder and those that the
\* window system would not release, through changes of holder, grabs that fail and lost windows
\* (process_pointer_grab, release_pointer_grab, process_lost_window). A window that was not
\* released is no holder any more: it stays confined, and no ungrab reaches it, until it is lost
\* or the server grabs for it again.
GrabTracked ==
    /\ pointer_grabbed # NoWid => pointer_grabbed \notin refused
    /\ \A w \in Wids : Grabbed(w) <=> w = pointer_grabbed \/ w \in refused
    /\ \A w \in Wids : Grabbed(w) => Open(w)

\* Every open window has the level, the frame, the resizability and the cursor that the server
\* asked for, whatever sequence of packets asked, each of which sets only part of them and some
\* of which came before the window did; an override-redirect window has no frame and no handles
\* whatever is asked (apply_window_metadata, process_new_common, process_cursor).
LooksAsAsked ==
    \A w \in Wids : Open(w) =>
        LET look == wanted.looks[w]
        IN /\ windows[w].level = look.level
           /\ windows[w].decorated = (look.decorated /\ ~windows[w].override_redirect)
           /\ windows[w].resizable = (look.resizable /\ ~windows[w].override_redirect)
           /\ windows[w].cursor = wanted.cursor

\* Input is only ever reported to the server for a window that is open at that moment: an
\* event queued before lost-window is dropped by id_map, although the handlers of keys and of
\* closing (handle_window_event) do not look the window up.
InputForOpenWindow ==
    [][input' # input => windows[input'.wid].id # NoId]_vars
=============================================================================
