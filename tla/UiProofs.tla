------------------------------ MODULE UiProofs ------------------------------
(***************************************************************************)
(* What the UI thread keeps in order.                                      *)
(*                                                                         *)
(* The window registry, for every set of windows, native ids, cursors and  *)
(* metadata updates (WindowRegistry).                                      *)
(*                                                                         *)
(* The connection dialog, for every set of details and any number of       *)
(* attempts (App): one attempt at a time is in one place, dialog, worker   *)
(* thread or result channel, so the result that is shown is its.           *)
(***************************************************************************)
EXTENDS WindowRegistry, App, TLAPS

\* The flags that are remembered, and the level, are those of the level that was asked for.
LevelOk(win, look) ==
    /\ win.above = (look.level = "top") /\ win.below = (look.level = "bottom")
    /\ win.level = look.level

\* The frame and the handles that were asked for, unless the window may have none.
FrameOk(win, look) ==
    /\ win.decorated = (look.decorated /\ ~win.override_redirect)
    /\ win.resizable = (look.resizable /\ ~win.override_redirect)

LevelsAsAsked == \A w \in Wids : Open(w) => LevelOk(windows[w], wanted.looks[w])
FramesAsAsked == \A w \in Wids : Open(w) => FrameOk(windows[w], wanted.looks[w])

\* The session cursor is the one asked for, on every window.
CursorsAsAsked ==
    /\ current_cursor = wanted.cursor
    /\ \A w \in Wids : Open(w) => windows[w].cursor = current_cursor

\* The keys `windows` does not hold, and the native ids and windows not used yet.
Unused ==
    /\ \A w \in Wids : windows[w].id = NoId => windows[w] = Absent
    /\ \A w \in Wids : w \notin announced => windows[w] = Absent
    /\ \A i \in Ids : i \notin made => id_map[i] = NoWid

\* The inductive invariant: a new window takes a key, an id and a grab nobody holds.
IInv ==
    /\ TypeOK
    /\ Unused
    /\ IdMapExact
    /\ GrabTracked
    /\ LevelsAsAsked
    /\ FramesAsAsked
    /\ CursorsAsAsked

-----------------------------------------------------------------------------
(* Metadata *)

\* apply_window_metadata yields a window, and touches neither its native id, its kind, its
\* cursor nor its grab.
LEMMA ApplyKeeps ==
    ASSUME NEW win \in Window, NEW u \in Update
    PROVE  /\ ApplyWindowMetadata(win, u) \in Window
           /\ ApplyWindowMetadata(win, u).id = win.id
           /\ ApplyWindowMetadata(win, u).cursor = win.cursor
           /\ ApplyWindowMetadata(win, u).grab = win.grab
<1> DEFINE decorated == IF u.decorations = "absent" THEN win.decorated
                        ELSE u.decorations = "yes" /\ ~win.override_redirect
           resizable == IF u.fixed = "absent" THEN win.resizable
                        ELSE ~win.override_redirect /\ u.fixed = "no"
           level == IF u.above = "absent" /\ u.below = "absent" THEN win.level
                    ELSE LevelOf(Above(win, u), Below(win, u))
<1>1. /\ win.decorated \in BOOLEAN /\ win.resizable \in BOOLEAN
      /\ win.above \in BOOLEAN /\ win.below \in BOOLEAN /\ win.level \in Levels
  BY DEF Window
<1>2. decorated \in BOOLEAN /\ resizable \in BOOLEAN
  BY <1>1, Zenon
<1>3. Above(win, u) \in BOOLEAN /\ Below(win, u) \in BOOLEAN
  BY <1>1, Zenon DEF Above, Below
<1>4. level \in Levels
  BY <1>1 DEF LevelOf, Levels
<1>5. ApplyWindowMetadata(win, u) =
        [win EXCEPT !.decorated = decorated, !.resizable = resizable,
                    !.above = Above(win, u), !.below = Below(win, u),
                    !.level = level]
  BY Zenon DEF ApplyWindowMetadata
<1> HIDE DEF decorated, resizable, level
<1>6. QED
  BY <1>2, <1>3, <1>4, <1>5 DEF Window

\* A look that is asked for is one.
LEMMA AsksLook ==
    ASSUME NEW look \in Look, NEW u \in Update
    PROVE  Asks(look, u) \in Look
<1> DEFINE level == IF u.below = "yes" THEN "bottom"
                    ELSE IF u.above = "yes" THEN "top"
                    ELSE IF look.level = "top" /\ u.above = "no" THEN "normal"
                    ELSE IF look.level = "bottom" /\ u.below = "no" THEN "normal"
                    ELSE look.level
           decorated == IF u.decorations = "absent" THEN look.decorated ELSE u.decorations = "yes"
           resizable == IF u.fixed = "absent" THEN look.resizable ELSE u.fixed = "no"
<1>1. look.level \in Levels /\ look.decorated \in BOOLEAN /\ look.resizable \in BOOLEAN
  BY DEF Look
<1>2. level \in Levels
  BY <1>1 DEF Levels
<1>3. decorated \in BOOLEAN /\ resizable \in BOOLEAN
  BY <1>1, Zenon
<1>4. Asks(look, u) = [level |-> level, decorated |-> decorated, resizable |-> resizable]
  BY Zenon DEF Asks
<1> HIDE DEF level, decorated, resizable
<1>5. QED
  BY <1>2, <1>3, <1>4 DEF Look

\* apply_window_metadata turns the level that was asked for before into the one asked for now.
LEMMA ApplyLevel ==
    ASSUME NEW win \in Window, NEW look \in Look, NEW u \in Update, LevelOk(win, look)
    PROVE  LevelOk(ApplyWindowMetadata(win, u), Asks(look, u))
  BY DEF Window, Look, Update, Flags, ApplyWindowMetadata, Asks, Above, Below, LevelOf,
         Levels, LevelOk

\* So it does with the frame and the handles, of which an override-redirect window gets none.
LEMMA ApplyFrame ==
    ASSUME NEW win \in Window, NEW look \in Look, NEW u \in Update,
           u.decorations = "absent" =>
               win.decorated = (look.decorated /\ ~win.override_redirect),
           win.resizable = (look.resizable /\ ~win.override_redirect)
    PROVE  FrameOk(ApplyWindowMetadata(win, u), Asks(look, u))
  BY DEF Window, Look, Update, Flags, ApplyWindowMetadata, Asks, FrameOk

\* What process_new_common puts in `windows`.
LEMMA NewWindowFacts ==
    ASSUME TypeOK, NEW i \in Ids, NEW o \in BOOLEAN, NEW u \in Update
    PROVE  /\ NewWindow(i, o, u) \in Window
           /\ NewWindow(i, o, u).id = i
           /\ NewWindow(i, o, u).cursor = current_cursor
           /\ NewWindow(i, o, u).grab = "none"
           /\ LevelOk(NewWindow(i, o, u), Asks(NoLook, u))
           /\ FrameOk(NewWindow(i, o, u), Asks(NoLook, u))
<1> DEFINE decorated == ~o /\ u.decorations # "no"
           win ==
        [id |-> i, override_redirect |-> o, above |-> FALSE,
         below |-> FALSE, level |-> "normal", decorated |-> decorated,
         resizable |-> ~o, cursor |-> current_cursor, grab |-> "none"]
<1>1. NewWindow(i, o, u) = ApplyWindowMetadata(win, u)
  BY DEF NewWindow
<1>2. decorated \in BOOLEAN /\ (u.decorations = "absent" => decorated = ~o)
  OBVIOUS
<1>3. NoLook \in Look
  BY DEF NoLook, Look, Levels
<1> HIDE DEF decorated
<1>4. win \in Window
  BY <1>2 DEF TypeOK, Window, Levels, Grabs
<1>5. LevelOk(win, NoLook)
  BY DEF LevelOk, NoLook
<1>6. /\ u.decorations = "absent" =>
             win.decorated = (NoLook.decorated /\ ~win.override_redirect)
      /\ win.resizable = (NoLook.resizable /\ ~win.override_redirect)
  BY <1>2 DEF NoLook
<1>7. win.id = i /\ win.cursor = current_cursor /\ win.grab = "none"
  OBVIOUS
<1> HIDE DEF win
<1>8. QED
  BY <1>1, <1>3, <1>4, <1>5, <1>6, <1>7, ApplyKeeps, ApplyLevel, ApplyFrame

\* The value at an absent key.
LEMMA AbsentFacts ==
    /\ Absent \in Window /\ Absent.id = NoId /\ Absent.grab = "none"
  BY DEF Absent, Window, Levels, Grabs

-----------------------------------------------------------------------------
(* The invariant *)

WantedOk == wanted \in [looks : [Wids -> Look], cursor : Cursors \cup {DefaultCursor}]

\* What is asked of one window leaves the rest of what was asked.
LEMMA WantedSet ==
    ASSUME WantedOk, NEW w \in Wids, NEW look \in Look,
           wanted' = [wanted EXCEPT !.looks[w] = look]
    PROVE  /\ WantedOk' /\ wanted'.looks[w] = look /\ wanted'.cursor = wanted.cursor
           /\ \A v \in Wids : v # w => wanted'.looks[v] = wanted.looks[v]
  BY DEF WantedOk

\* The client starts with no window, no grab and no event (XpraClient::new).
LEMMA InitIInv == Init => IInv
<1> SUFFICES ASSUME Init PROVE IInv
  OBVIOUS
<1> USE RegistryAssumption DEF Init
<1>1. TypeOK
  BY AbsentFacts DEF TypeOK, NoInput, NoLook, Look, Levels
<1>2. Unused
  BY DEF Unused
<1>3. IdMapExact
  BY AbsentFacts DEF IdMapExact
<1>4. GrabTracked
  BY AbsentFacts DEF GrabTracked, Grabbed
<1>5. LevelsAsAsked
  BY AbsentFacts DEF LevelsAsAsked, Open
<1>6. FramesAsAsked
  BY AbsentFacts DEF FramesAsAsked, Open
<1>7. CursorsAsAsked
  BY AbsentFacts DEF CursorsAsAsked, Open
<1>8. QED
  BY <1>1, <1>2, <1>3, <1>4, <1>5, <1>6, <1>7 DEF IInv

\* A window-metadata packet (process_window_metadata) keeps the invariant.
LEMMA MetadataIInv ==
    ASSUME IInv, NEW w \in Wids, NEW u \in Updates, ProcessWindowMetadata(w, u)
    PROVE  IInv'
<1> DEFINE new == ApplyWindowMetadata(windows[w], u)
           look == Asks(wanted.looks[w], u)
<1>1. windows[w] \in Window /\ u \in Update
  BY RegistryAssumption DEF IInv, TypeOK
<1>2. /\ new \in Window /\ new.id = windows[w].id
      /\ new.cursor = windows[w].cursor /\ new.grab = windows[w].grab
  BY <1>1, ApplyKeeps
<1>3. wanted.looks[w] \in Look /\ Open(w)
  BY DEF IInv, TypeOK, ProcessWindowMetadata
<1>4. LevelOk(new, look)
  BY <1>1, <1>3, ApplyLevel DEF IInv, LevelsAsAsked
<1>5. FrameOk(new, look)
  BY <1>1, <1>3, ApplyFrame DEF IInv, FramesAsAsked, FrameOk
<1>6. look \in Look
  BY <1>1, <1>3, AsksLook
<1>7. /\ windows' = [windows EXCEPT ![w] = new]
      /\ wanted' = [wanted EXCEPT !.looks[w] = look]
  BY DEF ProcessWindowMetadata
<1>8. UNCHANGED <<id_map, pointer_grabbed, current_cursor, announced, made,
                  events, input, refused>>
  BY DEF ProcessWindowMetadata
<1>9. windows[w].id # NoId /\ w \in announced
  BY AbsentFacts DEF ProcessWindowMetadata, Open, IInv, Unused
<1> HIDE DEF new, look
<1>10. /\ windows' \in [Wids -> Window] /\ windows'[w] = new
      /\ \A v \in Wids : v # w => windows'[v] = windows[v]
  BY <1>2, <1>7 DEF IInv, TypeOK
<1>11. WantedOk' /\ wanted'.looks[w] = look /\ wanted'.cursor = wanted.cursor
      /\ \A v \in Wids : v # w => wanted'.looks[v] = wanted.looks[v]
  BY <1>7, <1>6, WantedSet DEF IInv, TypeOK, WantedOk
<1>12. TypeOK'
  BY <1>8, <1>10, <1>11 DEF IInv, TypeOK, WantedOk
<1>13. Unused'
  BY <1>2, <1>8, <1>9, <1>10 DEF IInv, Unused
<1>14. IdMapExact'
  BY <1>2, <1>8, <1>10 DEF IInv, IdMapExact
<1>15. GrabTracked'
  BY <1>2, <1>8, <1>10 DEF IInv, GrabTracked, Grabbed, Open
<1>16. LevelsAsAsked'
  BY <1>4, <1>10, <1>11 DEF IInv, LevelsAsAsked, Open
<1>17. FramesAsAsked'
  BY <1>5, <1>10, <1>11 DEF IInv, FramesAsAsked, Open
<1>18. CursorsAsAsked'
  BY <1>2, <1>8, <1>10, <1>3, <1>11 DEF IInv, CursorsAsAsked, Open
<1>19. QED
  BY <1>12, <1>13, <1>14, <1>15, <1>16, <1>17, <1>18 DEF IInv

\* So does new-window, in a key and under a native id nobody holds (process_new_common),
LEMMA NewCommonIInv ==
    ASSUME IInv, NEW w \in Wids, NEW i \in Ids, NEW o \in BOOLEAN,
           NEW u \in Updates, ProcessNewCommon(w, i, o, u)
    PROVE  IInv'
<1> DEFINE new == NewWindow(i, o, u)
           look == Asks(NoLook, u)
<1>1. /\ new \in Window /\ new.id = i /\ new.cursor = current_cursor
      /\ new.grab = "none" /\ LevelOk(new, look) /\ FrameOk(new, look)
  BY NewWindowFacts, RegistryAssumption DEF IInv
<1>2. look \in Look
  <2>1. NoLook \in Look /\ u \in Update
    BY RegistryAssumption DEF NoLook, Look, Levels
  <2>2. QED
    BY <2>1, AsksLook
<1>3. /\ windows' = [windows EXCEPT ![w] = new]
      /\ id_map' = [id_map EXCEPT ![i] = w]
      /\ announced' = announced \cup {w} /\ made' = made \cup {i}
      /\ wanted' = [wanted EXCEPT !.looks[w] = look]
      /\ UNCHANGED <<pointer_grabbed, current_cursor, events, input, refused>>
  BY DEF ProcessNewCommon
<1>4. windows[w] = Absent /\ id_map[i] = NoWid
  BY DEF ProcessNewCommon, IInv, Unused
<1> HIDE DEF new, look
<1>5. /\ windows' \in [Wids -> Window] /\ windows'[w] = new
      /\ \A v \in Wids : v # w => windows'[v] = windows[v]
  BY <1>1, <1>3 DEF IInv, TypeOK
<1>6. /\ id_map' \in [Ids -> Wids \cup {NoWid}] /\ id_map'[i] = w
      /\ \A j \in Ids : j # i => id_map'[j] = id_map[j]
  BY <1>3 DEF IInv, TypeOK
<1>7. WantedOk' /\ wanted'.looks[w] = look /\ wanted'.cursor = wanted.cursor
      /\ \A v \in Wids : v # w => wanted'.looks[v] = wanted.looks[v]
  BY <1>3, <1>2, WantedSet DEF IInv, TypeOK, WantedOk
<1>8. TypeOK'
  BY <1>3, <1>5, <1>6, <1>7 DEF IInv, TypeOK, WantedOk
<1>9. Unused'
  BY <1>1, <1>3, <1>5, <1>6, RegistryAssumption DEF IInv, Unused
<1>10. \A v \in Wids : windows[v].id # i
  BY <1>4, RegistryAssumption DEF IInv, IdMapExact
<1>11. \A j \in Ids : id_map[j] # w
  BY <1>4, AbsentFacts, RegistryAssumption DEF IInv, IdMapExact
<1>12. IdMapExact'
  BY <1>1, <1>5, <1>6, <1>10, <1>11 DEF IInv, IdMapExact
<1>13. GrabTracked'
  <2>1. windows[w].grab = "none"
    BY <1>4, AbsentFacts
  <2>2. QED
    BY <1>1, <1>3, <1>5, <2>1 DEF IInv, GrabTracked, Grabbed, Open
<1>14. LevelsAsAsked'
  BY <1>1, <1>5, <1>7 DEF IInv, LevelsAsAsked, Open
<1>15. FramesAsAsked'
  BY <1>1, <1>5, <1>7 DEF IInv, FramesAsAsked, Open
<1>16. CursorsAsAsked'
  BY <1>1, <1>3, <1>5, <1>7 DEF IInv, CursorsAsAsked, Open
<1>17. QED
  BY <1>8, <1>9, <1>12, <1>13, <1>14, <1>15, <1>16 DEF IInv

\* and a new-window whose native window could not be created,
LEMMA NewFailedIInv ==
    ASSUME IInv, NEW w \in Wids, ProcessNewFailed(w)
    PROVE  IInv'
<1> USE DEF ProcessNewFailed
<1>1. TypeOK' /\ Unused'
  BY DEF IInv, TypeOK, Unused
<1>2. IdMapExact' /\ GrabTracked' /\ CursorsAsAsked'
  BY DEF IInv, IdMapExact, GrabTracked, Grabbed, CursorsAsAsked, Open
<1>3. LevelsAsAsked' /\ FramesAsAsked'
  BY DEF IInv, LevelsAsAsked, FramesAsAsked, Open
<1>4. QED
  BY <1>1, <1>2, <1>3 DEF IInv

\* and lost-window, whose window may hold the grab (process_lost_window).
LEMMA LostWindowIInv ==
    ASSUME IInv, NEW w \in Wids, ProcessLostWindow(w)
    PROVE  IInv'
<1>1. /\ windows' = [windows EXCEPT ![w] = Absent]
      /\ id_map' = [id_map EXCEPT ![windows[w].id] = NoWid]
      /\ pointer_grabbed' = IF pointer_grabbed = w THEN NoWid ELSE pointer_grabbed
      /\ refused' = refused \ {w} /\ wanted' = [wanted EXCEPT !.looks[w] = NoLook]
      /\ UNCHANGED <<current_cursor, announced, made, events, input>>
  BY DEF ProcessLostWindow
<1>2. PICK i \in Ids : i = windows[w].id
  BY DEF ProcessLostWindow, Open, IInv, TypeOK, Window
<1>3. /\ windows' \in [Wids -> Window] /\ windows'[w] = Absent
      /\ \A v \in Wids : v # w => windows'[v] = windows[v]
  BY <1>1, AbsentFacts DEF IInv, TypeOK
<1>4. /\ id_map' \in [Ids -> Wids \cup {NoWid}] /\ id_map'[i] = NoWid
      /\ \A j \in Ids : j # i => id_map'[j] = id_map[j]
  BY <1>1, <1>2 DEF IInv, TypeOK
<1>5. WantedOk' /\ wanted'.cursor = wanted.cursor
      /\ \A v \in Wids : v # w => wanted'.looks[v] = wanted.looks[v]
  <2>1. NoLook \in Look
    BY DEF NoLook, Look, Levels
  <2>2. QED
    BY <1>1, <2>1, WantedSet DEF IInv, TypeOK, WantedOk
<1>6. TypeOK'
  BY <1>1, <1>3, <1>4, <1>5 DEF IInv, TypeOK, WantedOk
<1>7. Unused'
  BY <1>1, <1>3, <1>4 DEF IInv, Unused
<1>8. IdMapExact'
  <2>1. id_map[i] = w
    BY <1>2 DEF IInv, IdMapExact
  <2>2. QED
    BY <1>2, <1>3, <1>4, <2>1, AbsentFacts, RegistryAssumption
       DEF IInv, IdMapExact
<1>9. GrabTracked'
  BY <1>1, <1>3, AbsentFacts, RegistryAssumption
     DEF IInv, GrabTracked, Grabbed, Open
<1>10. LevelsAsAsked'
  BY <1>3, <1>5, AbsentFacts DEF IInv, LevelsAsAsked, Open
<1>11. FramesAsAsked'
  BY <1>3, <1>5, AbsentFacts DEF IInv, FramesAsAsked, Open
<1>12. CursorsAsAsked'
  BY <1>1, <1>3, <1>5, AbsentFacts DEF IInv, CursorsAsAsked, Open
<1>13. QED
  BY <1>6, <1>7, <1>8, <1>9, <1>10, <1>11, <1>12 DEF IInv

\* A window with another native grab.
Regrabbed(v, g) == [windows[v] EXCEPT !.grab = g]

\* release_pointer_grab only changes the native grab of the holder; those that hold one after it
\* are those that were not released.
LEMMA ReleaseFacts ==
    ASSUME IInv, NEW done \in BOOLEAN
    PROVE  /\ Release(done) \in [Wids -> Window] /\ Refusing(done) \in SUBSET Wids
           /\ \A v \in Wids :
                /\ Release(done)[v].grab # "none" <=> v \in Refusing(done)
                /\ \/ Release(done)[v] = windows[v]
                   \/ Open(v) /\ Release(done)[v] = Regrabbed(v, "none")
<1>1. windows \in [Wids -> Window] /\ refused \in SUBSET Wids
  BY DEF IInv, TypeOK
<1>2. \A v \in Wids : windows[v].grab # "none" <=> v = pointer_grabbed \/ v \in refused
  BY DEF IInv, GrabTracked, Grabbed
<1>3. CASE pointer_grabbed = NoWid
  <2>1. Release(done) = windows /\ Refusing(done) = refused
    BY <1>3 DEF Release, Refusing
  <2>2. \A v \in Wids : v # pointer_grabbed
    BY <1>3, RegistryAssumption
  <2>3. QED
    BY <1>1, <1>2, <2>1, <2>2
<1>4. CASE pointer_grabbed # NoWid /\ ~done
  <2>1. Release(done) = windows /\ Refusing(done) = refused \cup {pointer_grabbed}
    BY <1>4 DEF Release, Refusing
  <2>2. pointer_grabbed \in Wids
    BY <1>4 DEF IInv, TypeOK
  <2>3. QED
    BY <1>1, <1>2, <2>1, <2>2
<1>5. CASE pointer_grabbed # NoWid /\ done
  <2> DEFINE h == pointer_grabbed
  <2>1. /\ Release(done) = [windows EXCEPT ![h] = Regrabbed(h, "none")]
        /\ Refusing(done) = refused
    BY <1>5 DEF Release, Refusing, Regrabbed
  <2>2. h \in Wids /\ h \notin refused /\ windows[h] \in Window
    BY <1>1, <1>5 DEF IInv, TypeOK, GrabTracked
  <2>3. Open(h)
    BY <1>2, <2>2 DEF IInv, GrabTracked, Grabbed
  <2> HIDE DEF h
  <2>4. Regrabbed(h, "none") \in Window /\ Regrabbed(h, "none").grab = "none"
    BY <2>2 DEF Regrabbed, Window, Grabs
  <2>5. /\ Release(done) \in [Wids -> Window]
        /\ Release(done)[h] = Regrabbed(h, "none")
        /\ \A v \in Wids : v # h => Release(done)[v] = windows[v]
    BY <1>1, <2>1, <2>2, <2>4
  <2>6. \A v \in Wids : v # h => (windows[v].grab # "none" <=> v \in refused)
    BY <1>2 DEF h
  <2>7. QED
    BY <1>1, <2>1, <2>2, <2>3, <2>4, <2>5, <2>6
<1>6. QED
  BY <1>3, <1>4, <1>5

\* A step that only changes native grabs of open windows and the recorded holder keeps the
\* invariant, as long as those that hold a grab are the holder and those not released.
LEMMA GrabStepIInv ==
    ASSUME IInv, NEW p \in Wids \cup {NoWid}, pointer_grabbed' = p,
           windows' \in [Wids -> Window], refused' \in SUBSET Wids,
           \A v \in Wids :
               \/ windows'[v] = windows[v]
               \/ \E g \in Grabs : Open(v) /\ windows'[v] = Regrabbed(v, g),
           p \notin refused',
           \A v \in Wids : windows'[v].grab # "none" <=> v = p \/ v \in refused',
           p # NoWid => Open(p),
           UNCHANGED <<id_map, current_cursor, announced, made, events, input, wanted>>
    PROVE  IInv'
<1>1. \A v \in Wids :
        /\ windows'[v].id = windows[v].id /\ windows'[v].above = windows[v].above
        /\ windows'[v].below = windows[v].below /\ windows'[v].level = windows[v].level
        /\ windows'[v].decorated = windows[v].decorated
        /\ windows'[v].resizable = windows[v].resizable
        /\ windows'[v].cursor = windows[v].cursor
        /\ windows'[v].override_redirect = windows[v].override_redirect
  <2> SUFFICES ASSUME NEW v \in Wids, NEW g \in Grabs,
                      windows'[v] = Regrabbed(v, g)
               PROVE  /\ windows'[v].id = windows[v].id
                      /\ windows'[v].above = windows[v].above
                      /\ windows'[v].below = windows[v].below
                      /\ windows'[v].level = windows[v].level
                      /\ windows'[v].decorated = windows[v].decorated
                      /\ windows'[v].resizable = windows[v].resizable
                      /\ windows'[v].cursor = windows[v].cursor
                      /\ windows'[v].override_redirect = windows[v].override_redirect
    OBVIOUS
  <2>1. windows[v] \in Window
    BY DEF IInv, TypeOK
  <2>2. QED
    BY <2>1 DEF Window, Regrabbed
<1>2. TypeOK'
  BY DEF IInv, TypeOK
<1>3. Unused'
  BY <1>1, AbsentFacts DEF IInv, Unused, Open
<1>4. IdMapExact'
  BY <1>1 DEF IInv, IdMapExact
<1>5. GrabTracked'
  <2>1. \A v \in Wids : windows'[v].grab # "none" => windows'[v].id # NoId
    <3> SUFFICES ASSUME NEW v \in Wids, windows'[v].grab # "none" PROVE windows[v].id # NoId
      BY <1>1
    <3>1. CASE windows'[v] = windows[v]
      BY <3>1 DEF IInv, GrabTracked, Grabbed, Open
    <3>2. CASE Open(v)
      BY <3>2 DEF Open
    <3>3. QED
      BY <3>1, <3>2
  <2>2. QED
    BY <2>1 DEF GrabTracked, Grabbed, Open
<1>6. LevelsAsAsked'
  BY <1>1 DEF IInv, LevelsAsAsked, LevelOk, Open
<1>7. FramesAsAsked'
  BY <1>1 DEF IInv, FramesAsAsked, FrameOk, Open
<1>8. CursorsAsAsked'
  BY <1>1 DEF IInv, CursorsAsAsked, Open
<1>9. QED
  BY <1>2, <1>3, <1>4, <1>5, <1>6, <1>7, <1>8 DEF IInv

\* pointer-ungrab (process_pointer_ungrab) keeps the invariant.
LEMMA UngrabIInv ==
    ASSUME IInv, NEW done \in BOOLEAN, ProcessPointerUngrab(done)
    PROVE  IInv'
<1>1. /\ pointer_grabbed' = NoWid /\ windows' = Release(done) /\ refused' = Refusing(done)
      /\ UNCHANGED <<id_map, current_cursor, announced, made, events, input, wanted>>
  BY DEF ProcessPointerUngrab
<1>2. "none" \in Grabs
  BY DEF Grabs
<1>3. QED
  BY <1>1, <1>2, ReleaseFacts, GrabStepIInv, RegistryAssumption

\* pointer-grab releases the holder before it sets the new grab (process_pointer_grab).
LEMMA GrabIInv ==
    ASSUME IInv, NEW w \in Wids, NEW done \in BOOLEAN,
           NEW mode \in {"none", "confined", "locked"},
           ProcessPointerGrab(w, done, mode)
    PROVE  IInv'
<1> DEFINE rel == Release(done)
           ref == Refusing(done)
<1>1. /\ rel \in [Wids -> Window] /\ ref \in SUBSET Wids
      /\ \A v \in Wids :
            /\ rel[v].grab # "none" <=> v \in ref
            /\ \/ rel[v] = windows[v]
               \/ Open(v) /\ rel[v] = Regrabbed(v, "none")
  BY ReleaseFacts
<1>2. "none" \in Grabs
  BY DEF Grabs
<1>3. CASE ~(Open(w) /\ mode # "none")
  <2>1. /\ pointer_grabbed' = NoWid /\ windows' = rel /\ refused' = ref
        /\ UNCHANGED <<id_map, current_cursor, announced, made, events, input, wanted>>
    BY <1>3 DEF ProcessPointerGrab
  <2> HIDE DEF rel, ref
  <2>2. QED
    BY <1>1, <1>2, <2>1, GrabStepIInv, RegistryAssumption
<1>4. CASE Open(w) /\ mode # "none"
  <2>1. /\ pointer_grabbed' = w
        /\ windows' = [rel EXCEPT ![w].grab = mode]
        /\ refused' = ref \ {w}
        /\ UNCHANGED <<id_map, current_cursor, announced, made, events, input, wanted>>
    BY <1>4 DEF ProcessPointerGrab
  <2> HIDE DEF rel, ref
  <2>2. mode # "none" /\ mode \in Grabs
    BY <1>4 DEF Grabs
  <2>3. rel[w] \in Window /\ windows[w] \in Window
    BY <1>1 DEF IInv, TypeOK
  <2>4. /\ windows' \in [Wids -> Window]
        /\ windows'[w] = [rel[w] EXCEPT !.grab = mode]
        /\ \A v \in Wids : v # w => windows'[v] = rel[v]
    <3>1. [rel[w] EXCEPT !.grab = mode] \in Window
      BY <2>2, <2>3 DEF Window
    <3>2. QED
      BY <1>1, <2>1, <3>1
  <2>5. windows'[w] = Regrabbed(w, mode)
    <3>1. CASE rel[w] = windows[w]
      BY <2>4, <3>1 DEF Regrabbed
    <3>2. CASE rel[w] = Regrabbed(w, "none")
      BY <2>3, <2>4, <3>2 DEF Window, Regrabbed
    <3>3. QED
      BY <1>1, <3>1, <3>2
  <2>6. windows'[w].grab # "none"
    BY <2>2, <2>3, <2>5 DEF Window, Regrabbed
  <2>7. \A v \in Wids :
            \/ windows'[v] = windows[v]
            \/ \E g \in Grabs : Open(v) /\ windows'[v] = Regrabbed(v, g)
    BY <1>1, <1>4, <1>2, <2>2, <2>4, <2>5
  <2>8. /\ refused' \in SUBSET Wids /\ w \notin refused'
        /\ \A v \in Wids : windows'[v].grab # "none" <=> v = w \/ v \in refused'
    BY <1>1, <2>1, <2>4, <2>6
  <2>10. QED
    BY <1>4, <2>1, <2>4, <2>7, <2>8, GrabStepIInv
<1>5. QED
  BY <1>3, <1>4

\* A cursor packet gives the cursor to every open window (process_cursor).
LEMMA CursorIInv ==
    ASSUME IInv, NEW c \in Cursors \cup {DefaultCursor}, ProcessCursor(c)
    PROVE  IInv'
<1>1. /\ windows' = [v \in Wids |-> IF Open(v) THEN [windows[v] EXCEPT !.cursor = c]
                                     ELSE windows[v]]
      /\ current_cursor' = c /\ wanted' = [wanted EXCEPT !.cursor = c]
      /\ UNCHANGED <<id_map, pointer_grabbed, announced, made, events, input, refused>>
  BY DEF ProcessCursor
<1>2. WantedOk' /\ wanted'.looks = wanted.looks /\ wanted'.cursor = c
  BY <1>1 DEF IInv, TypeOK, WantedOk
<1>3. \A v \in Wids :
        /\ windows'[v] \in Window
        /\ windows[v].id # NoId => windows'[v].cursor = c
        /\ windows[v].id = NoId => windows'[v] = windows[v]
        /\ windows'[v].id = windows[v].id /\ windows'[v].above = windows[v].above
        /\ windows'[v].below = windows[v].below /\ windows'[v].level = windows[v].level
        /\ windows'[v].decorated = windows[v].decorated
        /\ windows'[v].resizable = windows[v].resizable
        /\ windows'[v].grab = windows[v].grab
        /\ windows'[v].override_redirect = windows[v].override_redirect
  <2> TAKE v \in Wids
  <2>1. windows[v] \in Window
    BY DEF IInv, TypeOK
  <2>2. windows'[v] = IF Open(v) THEN [windows[v] EXCEPT !.cursor = c]
                      ELSE windows[v]
    BY <1>1
  <2>3. QED
    BY <2>1, <2>2 DEF Window, Open
<1>4. windows' \in [Wids -> Window]
  BY <1>1, <1>3
<1>5. TypeOK'
  BY <1>1, <1>4, <1>2 DEF IInv, TypeOK, WantedOk
<1>6. Unused'
  BY <1>1, <1>3, AbsentFacts DEF IInv, Unused
<1>7. IdMapExact'
  BY <1>1, <1>3 DEF IInv, IdMapExact
<1>8. GrabTracked'
  BY <1>1, <1>3 DEF IInv, GrabTracked, Grabbed, Open
<1>9. LevelsAsAsked'
  BY <1>3, <1>2 DEF IInv, LevelsAsAsked, LevelOk, Open
<1>10. FramesAsAsked'
  BY <1>3, <1>2 DEF IInv, FramesAsAsked, FrameOk, Open
<1>11. CursorsAsAsked'
  BY <1>1, <1>3, <1>2 DEF CursorsAsAsked, Open
<1>12. QED
  BY <1>5, <1>6, <1>7, <1>8, <1>9, <1>10, <1>11 DEF IInv

\* A native event is queued for an open window only.
LEMMA NativeEventIInv ==
    ASSUME IInv, NEW w \in Wids, NEW k \in EventKinds, NativeEvent(w, k)
    PROVE  IInv'
<1>1. windows[w].id \in Ids
  BY DEF NativeEvent, Open, IInv, TypeOK, Window
<1>2. TypeOK'
  BY <1>1 DEF NativeEvent, IInv, TypeOK
<1>3. UNCHANGED <<windows, id_map, pointer_grabbed, current_cursor, announced, made,
                  wanted, refused>>
  BY DEF NativeEvent
<1>4. QED
  BY <1>2, <1>3 DEF IInv, Unused, IdMapExact, GrabTracked, Grabbed, LevelsAsAsked,
                    FramesAsAsked, CursorsAsAsked, Open

\* Handling it (window_event) changes no window.
LEMMA HandleIInv ==
    ASSUME IInv, NEW e \in events, HandleWindowEvent(e)
    PROVE  IInv'
<1>1. e \in [id : Ids, kind : EventKinds]
  BY DEF IInv, TypeOK
<1>2. id_map[e.id] \in Wids \cup {NoWid} /\ e.kind \in EventKinds
  BY <1>1 DEF IInv, TypeOK
<1>3. input' \in [wid : Wids, kind : EventKinds] \cup {NoInput}
  BY <1>2 DEF HandleWindowEvent, IInv, TypeOK
<1>4. UNCHANGED <<windows, id_map, pointer_grabbed, current_cursor, announced, made,
                  wanted, refused>>
  BY DEF HandleWindowEvent
<1>5. TypeOK'
  BY <1>3, <1>4 DEF HandleWindowEvent, IInv, TypeOK
<1>6. QED
  BY <1>4, <1>5 DEF IInv, Unused, IdMapExact, GrabTracked, Grabbed, LevelsAsAsked,
                    FramesAsAsked, CursorsAsAsked, Open

\* Every step of the client keeps the invariant.
LEMMA NextIInv == IInv /\ [Next]_vars => IInv'
<1> SUFFICES ASSUME IInv, [Next]_vars PROVE IInv'
  OBVIOUS
<1>1. CASE UNCHANGED vars
  <2>1. UNCHANGED <<windows, id_map, pointer_grabbed, current_cursor, announced,
                    made, events, input, wanted, refused>>
    BY <1>1 DEF vars
  <2>2. TypeOK' /\ Unused'
    BY <2>1 DEF IInv, TypeOK, Unused
  <2>3. QED
    BY <2>1, <2>2 DEF IInv, IdMapExact, GrabTracked, Grabbed, LevelsAsAsked,
                      FramesAsAsked, CursorsAsAsked, Open
<1>2. CASE Next
  BY <1>2, MetadataIInv, NewCommonIInv, NewFailedIInv, LostWindowIInv, GrabIInv,
     UngrabIInv, CursorIInv, NativeEventIInv, HandleIInv DEF Next
<1>3. QED
  BY <1>1, <1>2

\* The invariant holds in every reachable state.
LEMMA SpecIInv == Spec => []IInv
  BY InitIInv, NextIInv, PTL DEF Spec

-----------------------------------------------------------------------------
(* Theorems *)

\* The client's window state is well typed in every reachable state.
THEOREM TypeCorrect == Spec => []TypeOK
<1>1. IInv => TypeOK
  BY DEF IInv
<1>2. QED
  BY <1>1, SpecIInv, PTL

\* id_map is the exact inverse of the windows' native ids: process_new_common and
\* process_lost_window keep the two maps in step, however many windows come and go.
THEOREM IdMapCorrect == Spec => []IdMapExact
<1>1. IInv => IdMapExact
  BY DEF IInv
<1>2. QED
  BY <1>1, SpecIInv, PTL

\* The windows that hold a native grab are the recorded holder and those the window system would
\* not release, through lost windows, changes of holder and grabs that fail (process_pointer_grab,
\* release_pointer_grab, process_lost_window).
THEOREM GrabCorrect == Spec => []GrabTracked
<1>1. IInv => GrabTracked
  BY DEF IInv
<1>2. QED
  BY <1>1, SpecIInv, PTL

\* Whatever sequence of partial updates and cursors the server sends, each open window has the
\* level, frame, resizability and cursor it asked for (apply_window_metadata, process_cursor).
THEOREM LooksCorrect == Spec => []LooksAsAsked
<1>1. IInv => LooksAsAsked
  BY DEF IInv, LevelsAsAsked, FramesAsAsked, CursorsAsAsked, LevelOk, FrameOk, LooksAsAsked
<1>2. QED
  BY <1>1, SpecIInv, PTL

\* No input is ever reported to the server for a window that is not open, however long ago
\* its event was queued (window_event, handle_window_event).
THEOREM InputCorrect == Spec => InputForOpenWindow
<1>1. ASSUME IInv, Next, input' # input
      PROVE  windows[input'.wid].id # NoId
  <2>1. PICK e \in events : HandleWindowEvent(e)
    BY <1>1 DEF Next, ProcessWindowMetadata, ProcessNewCommon, ProcessNewFailed,
                ProcessLostWindow, ProcessPointerGrab, ProcessPointerUngrab,
                ProcessCursor, NativeEvent
  <2>2. e.id \in Ids
    BY <1>1 DEF IInv, TypeOK
  <2>3. /\ id_map[e.id] # NoWid
        /\ input' = [wid |-> id_map[e.id], kind |-> e.kind]
    BY <1>1, <2>1 DEF HandleWindowEvent
  <2>4. input'.wid = id_map[e.id] /\ id_map[e.id] \in Wids
    BY <1>1, <2>2, <2>3 DEF IInv, TypeOK
  <2>5. windows[id_map[e.id]].id = e.id
    BY <1>1, <2>2, <2>4 DEF IInv, IdMapExact
  <2>6. QED
    BY <2>2, <2>4, <2>5, RegistryAssumption
<1>2. IInv /\ [Next]_vars => [input' # input => windows[input'.wid].id # NoId]_vars
  BY <1>1 DEF vars
<1>3. QED
  BY <1>2, SpecIInv, PTL DEF Spec, InputForOpenWindow

-----------------------------------------------------------------------------
(* App: the connect-result packets that wait *)

\* Where connect-result packets wait in the UI thread's queue.
ResultsIn(u) == {i \in DOMAIN u : u[i] = "connect-result"}

\* A result that is handled was the only one; one more in the queue is then the only one.
LEMMA ResultsInQueue ==
    ASSUME NEW S, NEW u \in Seq(S)
    PROVE  /\ ResultsIn(u) = {} => ResultsIn(Append(u, "connection-lost")) = {}
           /\ ResultsIn(u) = {} =>
                  ResultsIn(Append(u, "connect-result")) = {Len(u) + 1}
           /\ u # <<>> /\ ResultsIn(u) = {} => ResultsIn(Tail(u)) = {}
           /\ u # <<>> /\ Head(u) = "connect-result" =>
                  /\ ResultsIn(u) # {}
                  /\ (\A i, j \in ResultsIn(u) : i = j) => ResultsIn(Tail(u)) = {}
<1>1. DOMAIN u = 1..Len(u) /\ Len(u) \in Nat
  OBVIOUS
<1>2. ASSUME NEW p
      PROVE  /\ DOMAIN Append(u, p) = 1..(Len(u) + 1)
             /\ \A i \in 1..Len(u) : Append(u, p)[i] = u[i]
             /\ Append(u, p)[Len(u) + 1] = p
  OBVIOUS
<1>3. ASSUME u # <<>>
      PROVE  /\ DOMAIN Tail(u) = 1..(Len(u) - 1)
             /\ \A i \in 1..(Len(u) - 1) : Tail(u)[i] = u[i + 1]
             /\ Head(u) = u[1] /\ 1 \in 1..Len(u)
  BY <1>3
<1>4. ResultsIn(u) = {} => ResultsIn(Append(u, "connection-lost")) = {}
  BY <1>1, <1>2 DEF ResultsIn
<1>5. ResultsIn(u) = {} => ResultsIn(Append(u, "connect-result")) = {Len(u) + 1}
  BY <1>1, <1>2 DEF ResultsIn
<1>6. ASSUME u # <<>>, ResultsIn(u) = {} PROVE ResultsIn(Tail(u)) = {}
  <2>1. \A i \in 1..(Len(u) - 1) : i + 1 \in 1..Len(u)
    BY <1>1
  <2>2. QED
    BY <2>1, <1>1, <1>3, <1>6 DEF ResultsIn
<1>7. ASSUME u # <<>>, Head(u) = "connect-result"
      PROVE  /\ ResultsIn(u) # {}
             /\ (\A i, j \in ResultsIn(u) : i = j) => ResultsIn(Tail(u)) = {}
  <2>1. 1 \in ResultsIn(u)
    BY <1>1, <1>3, <1>7 DEF ResultsIn
  <2>2. ASSUME \A i, j \in ResultsIn(u) : i = j, NEW i \in ResultsIn(Tail(u)) PROVE FALSE
    <3>1. i \in 1..(Len(u) - 1) /\ u[i + 1] = "connect-result"
      BY <2>2, <1>3, <1>7 DEF ResultsIn
    <3>2. i + 1 \in ResultsIn(u) /\ i + 1 # 1
      BY <3>1, <1>1 DEF ResultsIn
    <3>3. QED
      BY <3>2, <2>1, <2>2
  <2>3. QED
    BY <2>1, <2>2
<1>8. QED
  BY <1>4, <1>5, <1>6, <1>7

-----------------------------------------------------------------------------
(* The inductive invariant *)

Connecting == state = "dialog" /\ status = "connecting"

\* One attempt at a time: it is the one whose channel the UI thread holds, it is in one place of
\* its way back, and without one in flight nothing is on that way.
OneAttempt ==
    /\ ~Connecting => workers = {} /\ posting = {} /\ ResultsIn(ui) = {}
    /\ workers \cup posting \subseteq {connect_rx} /\ workers \cap posting = {}
    /\ workers \cup posting # {} => ResultsIn(ui) = {}
    /\ \A i, j \in ResultsIn(ui) : i = j

\* What is shown is what is tried, and its result is to come.
Tried ==
    Connecting =>
        /\ pending = fields /\ connect_rx # 0 /\ asked[connect_rx] = fields
        /\ \/ connect_rx \in workers
           \/ channel[connect_rx] # "empty" /\ (connect_rx \in posting \/ ResultsIn(ui) # {})

\* Until the loop runs there is no dialog, and nothing was tried.
Unstarted == loop = "starting" => state = "none" /\ status # "connecting"

AppInv == AppTypeOK /\ Unstarted /\ Tried /\ OneAttempt

\* main starts with none of it.
LEMMA InitAppInv == AppInit => AppInv
<1> SUFFICES ASSUME AppInit PROVE AppInv
  OBVIOUS
<1>1. AppTypeOK
  <2>1. client \in [details : Details \cup {NoDetails}, attempt : 0..MaxAttempts,
                    exit_code : ClientCodes \cup {"none"}]
    BY AppAssumption DEF AppInit, NoClient
  <2>2. channel \in [Attempts -> Results] /\ asked \in [Attempts -> Details \cup {NoDetails}]
    BY DEF AppInit, Results
  <2>3. connect_rx \in 0..MaxAttempts /\ fields \in Details
    BY AppAssumption DEF AppInit
  <2>4. ui \in Seq({"connect-result", "connection-lost"})
    BY DEF AppInit
  <2>5. QED
    BY <2>1, <2>2, <2>3, <2>4 DEF AppInit, AppTypeOK, Focuses
<1>2. ResultsIn(ui) = {}
  BY DEF AppInit, ResultsIn
<1>3. QED
  BY <1>1, <1>2 DEF AppInv, AppInit, Unstarted, Tried, OneAttempt, Connecting

-----------------------------------------------------------------------------
(* The dialog *)

\* An edit: the dialog is not connecting, and only it changes.
Edits ==
    /\ Live
    /\ UNCHANGED <<quitvars, attempt, kept>>
    /\ fields' \in Details /\ focus' \in Focuses /\ dropdown' \in BOOLEAN
    /\ status' \in {"none", "error"} \cup {status}

\* A submit that starts an attempt.
Starts ==
    /\ Live /\ StartConnect
    /\ UNCHANGED <<fields, dropdown, quitvars, kept>> /\ focus' \in Focuses

\* A key or a click edits, gives up or starts an attempt (on_key, on_click).
LEMMA PressKinds ==
    ASSUME AppTypeOK, Dialog
    PROVE  Edits \/ (Prompting /\ Cancel) \/ Starts
<1>1. /\ fields \in Details /\ focus \in Focuses /\ dropdown \in BOOLEAN
      /\ status \in {"none", "error", "connecting"}
  BY DEF AppTypeOK
<1>2. ASSUME NEW from \in Focuses, Live, Submit(from) PROVE Edits \/ Starts
  <2>1. CASE fields \in Unusable /\ status' = "error" /\ focus' = "text" /\ UNCHANGED attempt
    BY <2>1, <1>1, <1>2 DEF Edits, Submit, Focuses
  <2>2. CASE /\ fields \in Unparsable \ Unusable
             /\ status' = "error" /\ focus' = from /\ UNCHANGED attempt
    BY <2>2, <1>1, <1>2 DEF Edits, Submit
  <2>3. CASE fields \notin Unusable \cup Unparsable /\ focus' = from /\ StartConnect
    BY <2>3, <1>1, <1>2 DEF Starts, Submit
  <2>4. QED
    BY <2>1, <2>2, <2>3, <1>2 DEF Submit
<1>3. ASSUME Live, CloseList PROVE Edits
  BY <1>1, <1>3 DEF Edits, CloseList, Editing
<1>4. ASSUME NEW f \in Focuses PROVE Neighbours[f] \subseteq Focuses
  BY DEF Neighbours, Focuses
<1>5. Live => Prompting
  BY DEF Live
<1>6. CASE Escape \/ Enter
  BY <1>6, <1>1, <1>2, <1>3, <1>5 DEF Escape, Enter
<1>7. CASE GiveUp \/ CloseRequested
  BY <1>7 DEF GiveUp, CloseRequested
<1>8. CASE Space
  <2>1. CASE /\ focus = "protocol" /\ dropdown' = ~dropdown
             /\ Editing /\ UNCHANGED <<fields, focus, status>>
    BY <2>1, <1>1, <1>8 DEF Space, Edits, Editing
  <2>2. CASE focus = "cancel" /\ Cancel
    BY <2>2, <1>5, <1>8 DEF Space
  <2>3. CASE focus = "connect" /\ Submit(focus)
    BY <2>3, <1>1, <1>2, <1>8 DEF Space
  <2>4. QED
    BY <2>1, <2>2, <2>3, <1>8 DEF Space
<1>9. CASE Tab
  BY <1>9, <1>1, <1>4 DEF Tab, Edits, Editing
<1>10. ASSUME NEW d \in Details, Arrow(d) PROVE Edits
  BY <1>10, <1>1, <1>4 DEF Arrow, Edits, Editing
<1>11. ASSUME NEW d \in Details, Type(d) PROVE Edits
  BY <1>11, <1>1 DEF Type, Edits, Editing
<1>12. ASSUME NEW d \in Details, NEW at \in Places, Click(at, d)
       PROVE  Edits \/ (Prompting /\ Cancel) \/ Starts
  <2>0. Live
    BY <1>12 DEF Click
  <2>1. CASE /\ dropdown /\ dropdown' = FALSE
             /\ fields' = IF at = "item" THEN d ELSE fields
             /\ Editing /\ UNCHANGED <<focus, status>>
    BY <2>0, <2>1, <1>1 DEF Edits, Editing
  <2>2. CASE /\ ~dropdown /\ at \in {"protocol", "text"}
             /\ focus' = at /\ dropdown' = (at = "protocol")
             /\ Editing /\ UNCHANGED <<fields, status>>
    BY <2>0, <2>2, <1>1 DEF Edits, Editing, Focuses
  <2>3. CASE ~dropdown /\ at = "cancel" /\ Cancel
    BY <2>0, <2>3, <1>5
  <2>4. CASE ~dropdown /\ at = "connect" /\ Submit("connect")
    <3>1. "connect" \in Focuses
      BY DEF Focuses
    <3>2. QED
      BY <2>0, <2>4, <3>1, <1>2
  <2>5. QED
    BY <2>1, <2>2, <2>3, <2>4, <1>12 DEF Click
<1>13. QED
  BY <1>6, <1>7, <1>8, <1>9, <1>10, <1>11, <1>12 DEF Dialog

\* Without an attempt in flight there is nothing on its way back.
LEMMA LiveParts ==
    ASSUME AppInv, Live
    PROVE  /\ loop # "starting" /\ state = "dialog" /\ status # "connecting"
           /\ workers = {} /\ posting = {} /\ ResultsIn(ui) = {}
<1>1. loop # "starting" /\ state = "dialog" /\ status # "connecting"
  BY DEF Live, Prompting, UiFree
<1>2. QED
  BY <1>1 DEF AppInv, OneAttempt, Connecting

\* An edit leaves everything but the dialog.
LEMMA EditsInv ==
    ASSUME AppInv, Edits
    PROVE  AppInv'
<1>1. /\ Live /\ fields' \in Details /\ focus' \in Focuses /\ dropdown' \in BOOLEAN
      /\ status' \in {"none", "error"} \cup {status}
      /\ UNCHANGED <<loop, exit_code, pending, connect_rx, workers, asked,
                     state, channel, posting, ui, client, exited>>
  BY DEF Edits, attempt, kept, quitvars
<1>2. /\ loop # "starting" /\ state = "dialog" /\ status # "connecting"
      /\ workers = {} /\ posting = {} /\ ResultsIn(ui) = {}
  BY <1>1, LiveParts
<1>3. status' \in {"none", "error", "connecting"} /\ status' # "connecting"
  BY <1>1, <1>2 DEF AppInv, AppTypeOK
<1>4. AppTypeOK'
  BY <1>1, <1>3 DEF AppInv, AppTypeOK
<1>5. ResultsIn(ui') = {}
  BY <1>1, <1>2
<1>6. QED
  BY <1>1, <1>2, <1>3, <1>4, <1>5 DEF AppInv, Unstarted, Tried, OneAttempt, Connecting

\* Giving up only tells the loop to exit.
LEMMA CancelInv ==
    ASSUME AppInv, Prompting, Cancel
    PROVE  AppInv'
<1>1. /\ UNCHANGED <<fields, focus, dropdown, status, pending, connect_rx, workers, asked,
                     state, channel, posting, ui, client, exited>>
      /\ exit_code' = IF exit_code = "none" THEN "Ok" ELSE exit_code
      /\ loop' = "exiting"
  BY DEF Cancel, Quit, dialogvars, attempt, kept
<1>2. AppTypeOK'
  BY <1>1 DEF AppInv, AppTypeOK
<1>3. ResultsIn(ui') = ResultsIn(ui)
  BY <1>1
<1>4. QED
  BY <1>1, <1>2, <1>3 DEF AppInv, Unstarted, Tried, OneAttempt, Connecting

\* start_connect: the worker is the only one, and has the details that are shown.
LEMMA StartsInv ==
    ASSUME AppInv, Starts
    PROVE  AppInv'
<1>1. /\ Live /\ StartConnect /\ focus' \in Focuses
      /\ UNCHANGED <<fields, dropdown, loop, exit_code, state, channel, posting, ui, client,
                     exited>>
  BY DEF Starts, kept, quitvars
<1>2. /\ loop # "starting" /\ state = "dialog" /\ status # "connecting"
      /\ workers = {} /\ posting = {} /\ ResultsIn(ui) = {}
  BY <1>1, LiveParts
<1>3. PICK n \in Attempts :
          /\ asked' = [asked EXCEPT ![n] = fields]
          /\ workers' = workers \cup {n}
          /\ connect_rx' = n /\ pending' = fields
          /\ status' = "connecting"
  BY <1>1 DEF StartConnect
<1>4. n \in 0..MaxAttempts /\ n # 0
  BY AppAssumption DEF Attempts
<1>5. fields \in Details /\ asked \in [Attempts -> Details \cup {NoDetails}]
  BY DEF AppInv, AppTypeOK
<1>6. asked' \in [Attempts -> Details \cup {NoDetails}] /\ asked'[n] = fields
  BY <1>3, <1>5
<1>7. AppTypeOK'
  BY <1>1, <1>2, <1>3, <1>4, <1>5, <1>6 DEF AppInv, AppTypeOK
<1>8. ResultsIn(ui') = {}
  BY <1>1, <1>2
<1>9. Tried'
  BY <1>1, <1>3, <1>4, <1>6 DEF Tried, Connecting
<1>10. OneAttempt'
  BY <1>1, <1>2, <1>3, <1>8 DEF OneAttempt, Connecting
<1>11. QED
  BY <1>1, <1>2, <1>7, <1>9, <1>10 DEF AppInv, Unstarted

-----------------------------------------------------------------------------
(* The run, the worker and its result, and the session *)

\* main, before the loop and when it begins.
LEMMA RunInv ==
    ASSUME AppInv, Run
    PROVE  AppInv'
<1>1. /\ loop = "starting" /\ state = "none" /\ status # "connecting"
      /\ workers = {} /\ posting = {} /\ ResultsIn(ui) = {}
  <2>1. loop = "starting"
    BY DEF Run, RunFails, RunSession, RunDialog, ShowDialogFails
  <2>2. QED
    BY <2>1 DEF AppInv, Unstarted, OneAttempt, Connecting
<1>2. /\ UNCHANGED <<fields, focus, dropdown, status, pending, connect_rx, workers, posting,
                     channel, asked>>
      /\ loop' # "starting"
  BY DEF Run, RunFails, RunSession, RunDialog, ShowDialogFails, Quit, dialogvars, workervars
<1>3. AppTypeOK' /\ ResultsIn(ui') = {}
  <2>0. ui \in Seq({"connect-result", "connection-lost"})
    BY DEF AppInv, AppTypeOK
  <2>1. CASE \E code \in ConnectCodes \cup {"InternalError"} : RunFails(code)
    BY <1>1, <1>2, <2>1 DEF AppInv, AppTypeOK, RunFails, Codes
  <2>2. CASE \E d \in Details, ok \in BOOLEAN : RunSession(d, ok)
    <3>1. PICK d \in Details, ok \in BOOLEAN : RunSession(d, ok)
      BY <2>2
    <3>2. /\ client' = [[NoClient EXCEPT !.details = d]
                           EXCEPT !.exit_code = IF ok THEN "none" ELSE "ConnectionFailed"]
          /\ state' = "session" /\ loop' = "running"
          /\ ui' = IF ok THEN ui ELSE Append(ui, "connection-lost")
          /\ UNCHANGED <<exit_code, exited>>
      BY <3>1 DEF RunSession, ClientResumed
    <3>3. client' \in [details : Details \cup {NoDetails}, attempt : 0..MaxAttempts,
                       exit_code : ClientCodes \cup {"none"}]
      <4>1. client' = [details |-> d, attempt |-> 0,
                       exit_code |-> IF ok THEN "none" ELSE "ConnectionFailed"]
        BY <3>2 DEF NoClient
      <4>2. 0 \in 0..MaxAttempts
        BY AppAssumption
      <4>3. QED
        BY <4>1, <4>2 DEF ClientCodes
    <3>4. ui' \in Seq({"connect-result", "connection-lost"}) /\ ResultsIn(ui') = {}
      BY <3>2, <2>0, <1>1, ResultsInQueue
    <3>5. QED
      BY <3>2, <3>3, <3>4, <1>2 DEF AppInv, AppTypeOK
  <2>3. CASE RunDialog
    BY <1>1, <1>2, <2>3 DEF AppInv, AppTypeOK, RunDialog
  <2>4. CASE ShowDialogFails
    BY <1>1, <1>2, <2>4 DEF AppInv, AppTypeOK, ShowDialogFails, Quit
  <2>5. QED
    BY <2>1, <2>2, <2>3, <2>4 DEF Run
<1>4. status' # "connecting" /\ workers' = {} /\ posting' = {}
  BY <1>1, <1>2
<1>5. QED
  BY <1>2, <1>3, <1>4 DEF AppInv, Unstarted, Tried, OneAttempt, Connecting

\* connect_worker: the result is on the channel before the packet that announces it.
LEMMA WorkerInv ==
    ASSUME AppInv, NEW n \in Attempts,
           WorkerPosts(n) \/ \E r \in {"ok", "error"} : WorkerDone(n, r)
    PROVE  AppInv'
<1>1. CASE \E r \in {"ok", "error"} : WorkerDone(n, r)
  <2>1. PICK r \in {"ok", "error"} : WorkerDone(n, r)
    BY <1>1
  <2>2. /\ n \in workers /\ workers' = workers \ {n} /\ posting' = posting \cup {n}
        /\ channel' = IF connect_rx = n THEN [channel EXCEPT ![n] = r] ELSE channel
        /\ UNCHANGED <<loop, exit_code, state, fields, focus, dropdown, status, pending,
                       connect_rx, asked, ui, client, exited>>
    BY <2>1 DEF WorkerDone, quitvars, dialogvars
  <2>3. /\ connect_rx = n /\ Connecting /\ ResultsIn(ui) = {}
        /\ workers = {n} /\ posting = {}
    BY <2>2 DEF AppInv, OneAttempt
  <2>4. channel' \in [Attempts -> Results] /\ channel'[n] # "empty"
    BY <2>2, <2>3 DEF AppInv, AppTypeOK, Results
  <2>5. AppTypeOK'
    BY <2>2, <2>4 DEF AppInv, AppTypeOK
  <2>6. ResultsIn(ui') = {} /\ workers' = {} /\ posting' = {n}
    BY <2>2, <2>3
  <2>7. QED
    BY <2>2, <2>3, <2>4, <2>5, <2>6 DEF AppInv, Unstarted, Tried, OneAttempt, Connecting
<1>2. CASE WorkerPosts(n)
  <2>1. /\ n \in posting /\ posting' = posting \ {n} /\ ui' = Append(ui, "connect-result")
        /\ UNCHANGED <<loop, exit_code, state, fields, focus, dropdown, status, pending,
                       connect_rx, workers, asked, channel, client, exited>>
    BY <1>2 DEF WorkerPosts, quitvars, dialogvars, attempt
  <2>2. /\ connect_rx = n /\ Connecting /\ ResultsIn(ui) = {}
        /\ workers = {} /\ posting = {n}
    BY <2>1 DEF AppInv, OneAttempt
  <2>3. ui \in Seq({"connect-result", "connection-lost"})
    BY DEF AppInv, AppTypeOK
  <2>4. /\ ui' \in Seq({"connect-result", "connection-lost"})
        /\ ResultsIn(ui') = {Len(ui) + 1}
    BY <2>1, <2>2, <2>3, ResultsInQueue
  <2>5. AppTypeOK'
    BY <2>1, <2>4 DEF AppInv, AppTypeOK
  <2>6. channel[connect_rx] # "empty"
    BY <2>2 DEF AppInv, Tried
  <2>7. workers' = {} /\ posting' = {} /\ ResultsIn(ui') # {}
    BY <2>1, <2>2, <2>4
  <2>8. QED
    BY <2>1, <2>2, <2>4, <2>5, <2>6, <2>7
       DEF AppInv, Unstarted, Tried, OneAttempt, Connecting
<1>3. QED
  BY <1>1, <1>2

\* finish_connect: the packet that is handled announced the only result.
LEMMA FinishInv ==
    ASSUME AppInv, ConnectError \/ \E ok \in BOOLEAN : ConnectOk(ok)
    PROVE  AppInv'
<1>1. /\ Takes("connect-result") /\ state # "session"
      /\ connect_rx' = 0 /\ pending' = NoDetails
      /\ UNCHANGED <<loop, exit_code, fields, focus, dropdown, workers, posting, channel, asked,
                     exited>>
  BY DEF ConnectError, ConnectOk, FinishConnect, quitvars, workervars
<1>2. ui \in Seq({"connect-result", "connection-lost"}) /\ ui # <<>>
      /\ Head(ui) = "connect-result" /\ loop # "starting"
  BY <1>1 DEF AppInv, AppTypeOK, Takes, UiFree
<1>3. ResultsIn(ui) # {} /\ ((\A i, j \in ResultsIn(ui) : i = j) => ResultsIn(Tail(ui)) = {})
  BY <1>2, ResultsInQueue
<1>4. Connecting /\ workers = {} /\ posting = {} /\ ResultsIn(Tail(ui)) = {}
  BY <1>3 DEF AppInv, OneAttempt
<1>5. Tail(ui) \in Seq({"connect-result", "connection-lost"})
  BY <1>2
<1>6. workers' = {} /\ posting' = {} /\ loop' # "starting"
  BY <1>1, <1>2, <1>4
<1>7. CASE ConnectError
  <2>1. status' = "error" /\ ui' = Tail(ui) /\ UNCHANGED <<state, client>>
    BY <1>7 DEF ConnectError
  <2>2. AppTypeOK'
    BY <2>1, <1>1, <1>5, AppAssumption DEF AppInv, AppTypeOK
  <2>3. ResultsIn(ui') = {} /\ status' # "connecting"
    BY <2>1, <1>4
  <2>4. QED
    BY <2>2, <2>3, <1>6 DEF AppInv, Unstarted, Tried, OneAttempt, Connecting
<1>8. CASE \E ok \in BOOLEAN : ConnectOk(ok)
  <2>1. PICK ok \in BOOLEAN : ConnectOk(ok)
    BY <1>8
  <2> DEFINE c == [details |-> pending, attempt |-> connect_rx, exit_code |-> "none"]
  <2>2. /\ client' = [c EXCEPT !.exit_code = IF ok THEN "none" ELSE "ConnectionFailed"]
        /\ state' = "session" /\ status' = status
        /\ ui' = IF ok THEN Tail(ui) ELSE Append(Tail(ui), "connection-lost")
    BY <2>1 DEF ConnectOk, ClientResumed
  <2>3. client' \in [details : Details \cup {NoDetails}, attempt : 0..MaxAttempts,
                     exit_code : ClientCodes \cup {"none"}]
    <3>1. pending \in Details \cup {NoDetails} /\ connect_rx \in 0..MaxAttempts
      BY DEF AppInv, AppTypeOK
    <3>2. QED
      BY <2>2, <3>1 DEF ClientCodes
  <2>4. ui' \in Seq({"connect-result", "connection-lost"}) /\ ResultsIn(ui') = {}
    <3>1. PICK t : t = Tail(ui)
      OBVIOUS
    <3>2. t \in Seq({"connect-result", "connection-lost"}) /\ ResultsIn(t) = {}
      BY <3>1, <1>4, <1>5
    <3>3. /\ Append(t, "connection-lost") \in Seq({"connect-result", "connection-lost"})
          /\ ResultsIn(Append(t, "connection-lost")) = {}
      BY <3>2, ResultsInQueue
    <3>4. QED
      BY <2>2, <3>1, <3>2, <3>3
  <2>5. AppTypeOK'
    BY <2>2, <2>3, <2>4, <1>1, AppAssumption DEF AppInv, AppTypeOK
  <2>6. QED
    BY <2>2, <2>4, <2>5, <1>6 DEF AppInv, Unstarted, Tried, OneAttempt, Connecting
<1>9. QED
  BY <1>7, <1>8

\* The session's handlers, which only run once there is no dialog, and the end of the loop.
LEMMA SessionStepInv ==
    ASSUME AppInv, ClientLost \/ LoopEnds \/ \E code \in ClientCodes : ClientEnds(code)
    PROVE  AppInv'
<1>0. /\ ui \in Seq({"connect-result", "connection-lost"})
      /\ exit_code \in {"none", "Ok", "InternalError"}
      /\ client \in [details : Details \cup {NoDetails}, attempt : 0..MaxAttempts,
                     exit_code : ClientCodes \cup {"none"}]
  BY DEF AppInv, AppTypeOK
<1>1. ASSUME NEW code \in ClientCodes, ClientQuits(code),
             ui' \in Seq({"connect-result", "connection-lost"}),
             ResultsIn(ui) = {} => ResultsIn(ui') = {}
      PROVE  AppInv'
  <2>1. /\ state = "session" /\ loop' = "exiting"
        /\ client' = [client EXCEPT !.exit_code = IF @ = "none" THEN code ELSE @]
        /\ UNCHANGED <<state, fields, focus, dropdown, status, pending, connect_rx, workers,
                       asked, channel, posting, exit_code, exited>>
    BY <1>1 DEF ClientQuits, dialogvars, attempt
  <2>2. client' \in [details : Details \cup {NoDetails}, attempt : 0..MaxAttempts,
                     exit_code : ClientCodes \cup {"none"}]
    BY <1>0, <1>1, <2>1
  <2>3. AppTypeOK'
    BY <2>1, <2>2, <1>1 DEF AppInv, AppTypeOK
  <2>4. workers = {} /\ posting = {} /\ ResultsIn(ui) = {}
    BY <2>1 DEF AppInv, OneAttempt, Connecting
  <2>5. ResultsIn(ui') = {}
    BY <2>4, <1>1
  <2>6. QED
    BY <2>1, <2>3, <2>4, <2>5 DEF AppInv, Unstarted, Tried, OneAttempt, Connecting
<1>2. ASSUME NEW code \in ClientCodes, ClientEnds(code) PROVE AppInv'
  <2>1. ClientQuits(code) /\ ui' = ui
    BY <1>2 DEF ClientEnds
  <2>2. QED
    BY <2>1, <1>0, <1>1
<1>3. CASE ClientLost
  <2>1. PICK code \in {"ConnectionLost", "ConnectionFailed"} : ClientQuits(code)
    BY <1>3 DEF ClientLost
  <2>2. ui # <<>> /\ ui' = Tail(ui)
    BY <1>3 DEF ClientLost, Takes
  <2>3. /\ Tail(ui) \in Seq({"connect-result", "connection-lost"})
        /\ ResultsIn(ui) = {} => ResultsIn(Tail(ui)) = {}
    BY <2>2, <1>0, ResultsInQueue
  <2>4. code \in ClientCodes
    BY DEF ClientCodes
  <2>5. QED
    BY <2>1, <2>2, <2>3, <2>4, <1>1
<1>4. CASE LoopEnds
  <2>1. /\ loop' = "ended" /\ exited' = ExitCode
        /\ UNCHANGED <<state, fields, focus, dropdown, status, pending, connect_rx, workers,
                       asked, channel, posting, ui, client, exit_code>>
    BY <1>4 DEF LoopEnds, dialogvars, attempt
  <2>2. ExitCode \in Codes
    <3>1. client.exit_code \in ClientCodes \cup {"none"}
      BY <1>0
    <3>2. QED
      BY <3>1, <1>0 DEF ExitCode, Codes, ClientCodes
  <2>3. AppTypeOK'
    BY <2>1, <2>2 DEF AppInv, AppTypeOK
  <2>4. ResultsIn(ui') = ResultsIn(ui)
    BY <2>1
  <2>5. QED
    BY <2>1, <2>3, <2>4 DEF AppInv, Unstarted, Tried, OneAttempt, Connecting
<1>5. QED
  BY <1>2, <1>3, <1>4

\* Every step keeps the invariant.
LEMMA AppStep ==
    AppInv /\ [AppNext]_appvars => AppInv'
<1> SUFFICES ASSUME AppInv, [AppNext]_appvars
             PROVE  AppInv'
  OBVIOUS
<1>1. CASE UNCHANGED appvars
  <2>1. UNCHANGED <<loop, state, fields, focus, dropdown, status, pending, connect_rx,
                    workers, posting, channel, asked, ui, client, exit_code, exited>>
    BY <1>1 DEF appvars, dialogvars, workervars
  <2>2. AppTypeOK'
    BY <2>1 DEF AppInv, AppTypeOK
  <2>3. ResultsIn(ui') = ResultsIn(ui)
    BY <2>1
  <2>4. QED
    BY <2>1, <2>2, <2>3 DEF AppInv, Unstarted, Tried, OneAttempt, Connecting
<1>2. CASE Run
  BY <1>2, RunInv
<1>3. CASE Dialog
  <2>1. AppTypeOK
    BY DEF AppInv
  <2>2. QED
    BY <2>1, <1>3, PressKinds, EditsInv, CancelInv, StartsInv
<1>4. CASE UserEvent
  BY <1>4, FinishInv, SessionStepInv DEF UserEvent
<1>5. CASE LoopEnds \/ \E code \in ClientCodes : ClientEnds(code)
  BY <1>5, SessionStepInv
<1>6. CASE \E n \in Attempts : WorkerPosts(n) \/ \E r \in {"ok", "error"} : WorkerDone(n, r)
  BY <1>6, WorkerInv
<1>7. QED
  BY <1>1, <1>2, <1>3, <1>4, <1>5, <1>6 DEF AppNext

\* The invariant holds of every reachable state.
LEMMA AppInvariant == AppSpec => []AppInv
<1>1. QED
  BY InitAppInv, AppStep, PTL DEF AppSpec

\* App's state stays within its types, the exit status among the codes of ExitCode included.
THEOREM AppTypeCorrect == AppSpec => []AppTypeOK
<1>1. AppInv => AppTypeOK
  BY DEF AppInv
<1>2. QED
  BY <1>1, AppInvariant, PTL

\* While the dialog says it is connecting, it shows the details that are being tried, and their
\* result is still to come (start_connect, finish_connect): finish_connect never finds an empty
\* channel, or none.
THEOREM AppShown == AppSpec => []ShownIsTried
<1>1. AppInv => ShownIsTried
  BY DEF AppInv, Tried, Connecting, ShownIsTried, ResultsIn
<1>2. QED
  BY <1>1, AppInvariant, PTL
=============================================================================
