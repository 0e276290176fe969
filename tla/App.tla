-------------------------------- MODULE App --------------------------------
(***************************************************************************)
(* The process around a session (main.rs) and its connection dialog        *)
(* (connect_dialog.rs).  Without a target on the command line the dialog   *)
(* collects one; a worker thread connects and leaves its result on a       *)
(* channel of its own, then wakes the UI thread with a connect-result      *)
(* packet; a result starts the session or reports an error in the dialog.  *)
(***************************************************************************)
EXTENDS Naturals, Sequences

CONSTANTS
    Details,      \* what the fields of the dialog may hold
    Unusable,     \* details that submit refuses: no host, a bad port
    Unparsable,   \* details whose URI parse_target refuses
    NoDetails,
    MaxAttempts   \* bound on the connection attempts

ASSUME AppAssumption ==
    /\ Unusable \subseteq Details /\ Unparsable \subseteq Details
    /\ NoDetails \notin Details
    /\ MaxAttempts \in Nat

Attempts == 1..MaxAttempts
Results == {"empty", "ok", "error"}
Focuses == {"protocol", "text", "cancel", "connect"}
ConnectCodes == {"ConnectionFailed", "SslFailure", "SshFailure", "ArgumentMismatch"}
ClientCodes == {"Ok", "Failure", "ConnectionLost", "ConnectionFailed",
                "PacketFailure", "AuthenticationFailed", "MmapTokenFailure"}
Codes == ConnectCodes \cup ClientCodes \cup {"InternalError"}

VARIABLES
    loop,       \* "starting", "running", "exiting" or "ended"
    state,      \* AppState: "none" is Prompt(None), "dialog" Prompt(Some), "session"
    fields,     \* the dialog's protocol, host, port, username and password
    focus, dropdown,
    status,     \* its status line: "none", "error" or "connecting"
    pending,    \* the details of the attempt in flight
    connect_rx, \* the attempt whose channel the UI thread holds, or 0
    channel,    \* per attempt, what is on its channel
    workers,    \* attempts still connecting
    posting,    \* attempts that are done and have not posted connect-result
    asked,      \* per attempt, the details it was started with
    ui,         \* packets waiting for user_event
    client,     \* the session: its details, its connection's attempt and exit_code
    exit_code,  \* App's
    exited      \* the exit status of the process

dialogvars == <<fields, focus, dropdown, status>>
workervars == <<workers, posting, channel>>
appvars == <<loop, state, dialogvars, pending, connect_rx, workervars, asked, ui,
             client, exit_code, exited>>

NoClient == [details |-> NoDetails, attempt |-> 0, exit_code |-> "none"]

AppTypeOK ==
    /\ loop \in {"starting", "running", "exiting", "ended"}
    /\ state \in {"none", "dialog", "session"}
    /\ fields \in Details /\ focus \in Focuses /\ dropdown \in BOOLEAN
    /\ status \in {"none", "error", "connecting"}
    /\ pending \in Details \cup {NoDetails}
    /\ connect_rx \in 0..MaxAttempts
    /\ channel \in [Attempts -> Results]
    /\ workers \subseteq Attempts /\ posting \subseteq Attempts
    /\ asked \in [Attempts -> Details \cup {NoDetails}]
    /\ ui \in Seq({"connect-result", "connection-lost"})
    /\ client \in [details : Details \cup {NoDetails}, attempt : 0..MaxAttempts,
                   exit_code : ClientCodes \cup {"none"}]
    /\ exit_code \in {"none", "Ok", "InternalError"}
    /\ exited \in Codes \cup {"none"}

AppInit ==
    /\ loop = "starting" /\ state = "none"
    /\ fields \in Unusable /\ focus = "text" /\ dropdown = FALSE
    /\ status = "none"
    /\ pending = NoDetails /\ connect_rx = 0
    /\ channel = [n \in Attempts |-> "empty"]
    /\ workers = {} /\ posting = {} /\ asked = [n \in Attempts |-> NoDetails]
    /\ ui = <<>> /\ client = NoClient
    /\ exit_code = "none" /\ exited = "none"

\* callbacks are still made for what is queued once the loop was told to exit
UiFree == loop \in {"running", "exiting"}
Started == {n \in Attempts : asked[n] # NoDetails}

\* App::quit
Quit(code) ==
    /\ exit_code' = IF exit_code = "none" THEN code ELSE exit_code
    /\ loop' = "exiting"

-----------------------------------------------------------------------------
(* run *)

\* a target that does not parse, or cannot be connected to, or no event loop: no window
\* is opened
RunFails(code) ==
    /\ loop = "starting"
    /\ loop' = "ended" /\ exited' = code
    /\ UNCHANGED <<state, dialogvars, pending, connect_rx, workervars, asked, ui,
                   client, exit_code>>

\* client.resumed: its hello may fail, which Session!Resumed has in detail
ClientResumed(c, queued, ok) ==
    /\ client' = [c EXCEPT !.exit_code = IF ok THEN "none" ELSE "ConnectionFailed"]
    /\ state' = "session"
    /\ ui' = IF ok THEN queued ELSE Append(queued, "connection-lost")

\* connected to the target on the command line, and resumed
RunSession(d, ok) ==
    /\ loop = "starting" /\ loop' = "running"
    /\ ClientResumed([NoClient EXCEPT !.details = d], ui, ok)
    /\ UNCHANGED <<dialogvars, pending, connect_rx, workervars, asked, exit_code,
                   exited>>

\* no target: resumed shows the dialog
RunDialog ==
    /\ loop = "starting" /\ loop' = "running" /\ state' = "dialog"
    /\ UNCHANGED <<dialogvars, pending, connect_rx, workervars, asked, ui, client,
                   exit_code, exited>>

\* show_dialog: no softbuffer context, or no window
ShowDialogFails ==
    /\ loop = "starting" /\ Quit("InternalError")
    /\ UNCHANGED <<state, dialogvars, pending, connect_rx, workervars, asked, ui,
                   client, exited>>

-----------------------------------------------------------------------------
(* The dialog: keys and clicks, and what handle_dialog_event does with them *)

Prompting == UiFree /\ state = "dialog"

\* the fields are frozen while an attempt is in flight
LiveMutant == Prompting
Live == Prompting /\ status # "connecting"

\* what no press touches, and what only an attempt or a quit does
kept == <<state, channel, posting, ui, client, exited>>
attempt == <<pending, connect_rx, workers, asked>>
quitvars == <<loop, exit_code>>

\* ConnectAction::Cancel
Cancel == Quit("Ok") /\ UNCHANGED <<dialogvars, attempt, kept>>

\* ConnectAction::None: only the dialog itself changes
Editing == UNCHANGED <<quitvars, attempt, kept>>

\* start_connect: a worker with a channel of its own
StartConnect ==
    \E n \in Attempts \ Started :
        /\ \A m \in Attempts : m < n => m \in Started
        /\ asked' = [asked EXCEPT ![n] = fields]
        /\ workers' = workers \cup {n}
        /\ connect_rx' = n /\ pending' = fields
        /\ status' = "connecting"

\* submit checks the fields, start_connect the URI made of them
Submit(from) ==
    /\ \/ fields \in Unusable /\ status' = "error" /\ focus' = "text" /\ UNCHANGED attempt
       \/ /\ fields \in Unparsable \ Unusable
          /\ status' = "error" /\ focus' = from /\ UNCHANGED attempt
       \/ fields \notin Unusable \cup Unparsable /\ focus' = from /\ StartConnect
    /\ UNCHANGED <<fields, dropdown, quitvars, kept>>

CloseList == dropdown' = FALSE /\ Editing /\ UNCHANGED <<fields, focus, status>>

\* Escape closes the open list, or cancels; so does closing the window
Escape == Live /\ dropdown /\ CloseList
GiveUp == Prompting /\ (status = "connecting" \/ ~dropdown) /\ Cancel
CloseRequested == Prompting /\ dropdown /\ Cancel

Enter ==
    /\ Live
    /\ \/ dropdown /\ CloseList
       \/ ~dropdown /\ focus = "cancel" /\ Cancel
       \/ ~dropdown /\ focus # "cancel" /\ Submit(focus)

\* Space, where it is not text
Space ==
    /\ Live
    /\ \/ /\ focus = "protocol" /\ dropdown' = ~dropdown
          /\ Editing /\ UNCHANGED <<fields, focus, status>>
       \/ focus = "cancel" /\ Cancel
       \/ focus = "connect" /\ Submit(focus)

\* FOCUS_ORDER, the four text fields being one
Neighbours == [protocol |-> {"text", "connect"}, text |-> {"protocol", "text", "cancel"},
               cancel |-> {"text", "connect"}, connect |-> {"cancel", "protocol"}]

Tab ==
    /\ Live /\ dropdown' = FALSE /\ focus' \in Neighbours[focus]
    /\ Editing /\ UNCHANGED <<fields, status>>

\* the arrows pick a protocol, which refills the port, or move the focus
Arrow(d) ==
    /\ Live
    /\ IF focus = "protocol" \/ dropdown THEN fields' = d /\ UNCHANGED focus
       ELSE focus' \in Neighbours[focus] /\ UNCHANGED fields
    /\ Editing /\ UNCHANGED <<dropdown, status>>

\* typing while connecting is not kept out
TypeMutant(d) ==
    /\ Prompting /\ fields' = IF focus = "text" THEN d ELSE fields
    /\ Editing /\ UNCHANGED <<focus, dropdown, status>>

\* a character or Backspace: it clears a stale error, and edits a text field
Type(d) ==
    /\ Live /\ status' = "none"
    /\ fields' = IF focus = "text" THEN d ELSE fields
    /\ Editing /\ UNCHANGED <<focus, dropdown>>

\* click: where the pointer is, and for an item of the list the fields it gives
Places == {"item", "protocol", "text", "cancel", "connect", "elsewhere"}

Click(at, d) ==
    /\ Live
    /\ \/ /\ dropdown /\ dropdown' = FALSE
          /\ fields' = IF at = "item" THEN d ELSE fields
          /\ Editing /\ UNCHANGED <<focus, status>>
       \/ /\ ~dropdown /\ at \in {"protocol", "text"}
          /\ focus' = at /\ dropdown' = (at = "protocol")
          /\ Editing /\ UNCHANGED <<fields, status>>
       \/ ~dropdown /\ at = "cancel" /\ Cancel
       \/ ~dropdown /\ at = "connect" /\ Submit("connect")

-----------------------------------------------------------------------------
(* The connect worker, and its result *)

\* sending fails once the receiver is gone
WorkerDone(n, r) ==
    /\ loop # "ended" /\ n \in workers
    /\ workers' = workers \ {n} /\ posting' = posting \cup {n}
    /\ channel' = IF connect_rx = n THEN [channel EXCEPT ![n] = r] ELSE channel
    /\ UNCHANGED <<quitvars, state, dialogvars, pending, connect_rx, asked, ui,
                   client, exited>>

WorkerPosts(n) ==
    /\ loop # "ended" /\ n \in posting
    /\ posting' = posting \ {n} /\ ui' = Append(ui, "connect-result")
    /\ UNCHANGED <<quitvars, state, dialogvars, attempt, channel, client, exited>>

Takes(t) == UiFree /\ ui # <<>> /\ Head(ui) = t

\* finish_connect takes the channel and the details, whatever it finds.  Its branches
\* without a channel or with an empty one have no action: one attempt at a time is in
\* flight and its result is sent before the packet, which ShownIsTried checks.
FinishConnect ==
    /\ Takes("connect-result") /\ state # "session"
    /\ connect_rx' = 0 /\ pending' = NoDetails
    /\ UNCHANGED <<quitvars, fields, focus, dropdown, workervars, asked, exited>>

\* start_session
ConnectOk(ok) ==
    /\ FinishConnect /\ connect_rx # 0 /\ channel[connect_rx] = "ok"
    /\ ClientResumed([details |-> pending, attempt |-> connect_rx, exit_code |-> "none"],
                     Tail(ui), ok)
    /\ UNCHANGED status

ConnectError ==
    /\ FinishConnect /\ connect_rx # 0 /\ channel[connect_rx] = "error"
    /\ status' = "error" /\ ui' = Tail(ui)
    /\ UNCHANGED <<state, client>>

-----------------------------------------------------------------------------
(* The session, which Session has in detail *)

\* a handler of the session quits with a code of its own
ClientQuits(code) ==
    /\ UiFree /\ state = "session"
    /\ client' = [client EXCEPT !.exit_code = IF @ = "none" THEN code ELSE @]
    /\ loop' = "exiting"
    /\ UNCHANGED <<state, dialogvars, attempt, channel, posting, exit_code, exited>>

ClientEnds(code) == ClientQuits(code) /\ UNCHANGED ui
ClientLost ==
    /\ Takes("connection-lost") /\ ui' = Tail(ui)
    /\ \E code \in {"ConnectionLost", "ConnectionFailed"} : ClientQuits(code)

\* App::exit_code: the session's own, or else the dialog's
ExitCode ==
    IF state = "session" /\ client.exit_code # "none" THEN client.exit_code
    ELSE IF exit_code # "none" THEN exit_code ELSE "Ok"

LoopEnds ==
    /\ loop = "exiting" /\ loop' = "ended" /\ exited' = ExitCode
    /\ UNCHANGED <<state, dialogvars, attempt, channel, posting, ui, client, exit_code>>

-----------------------------------------------------------------------------
Run ==
    \/ \E code \in ConnectCodes \cup {"InternalError"} : RunFails(code)
    \/ \E d \in Details, ok \in BOOLEAN : RunSession(d, ok)
    \/ RunDialog \/ ShowDialogFails

Dialog ==
    \/ Escape \/ GiveUp \/ CloseRequested \/ Enter \/ Space \/ Tab
    \/ \E d \in Details : Arrow(d) \/ Type(d) \/ \E at \in Places : Click(at, d)

UserEvent ==
    \/ \E ok \in BOOLEAN : ConnectOk(ok)
    \/ ConnectError \/ ClientLost

AppNext ==
    \/ Run \/ Dialog \/ UserEvent \/ LoopEnds
    \/ \E n \in Attempts : WorkerPosts(n) \/ \E r \in {"ok", "error"} : WorkerDone(n, r)
    \/ \E code \in ClientCodes : ClientEnds(code)

\* the UI thread handles its queue and a worker that is done posts; connecting
\* may take for ever, and the user need not do anything
AppFairness ==
    /\ WF_appvars(UserEvent) /\ WF_appvars(LoopEnds)
    /\ WF_appvars(\E n \in Attempts : WorkerPosts(n))

AppSpec == AppInit /\ [][AppNext]_appvars /\ AppFairness

-----------------------------------------------------------------------------
(* Properties *)

\* While the dialog says it is connecting, it shows the details that are being tried, and their
\* result is still to come: the worker runs, or has left its result and is waking the UI thread
\* (start_connect, finish_connect; the dialog is frozen meanwhile).
ShownIsTried ==
    state = "dialog" /\ status = "connecting" =>
        /\ pending = fields /\ connect_rx # 0 /\ asked[connect_rx] = fields
        /\ \/ connect_rx \in workers
           \/ /\ channel[connect_rx] # "empty"
              /\ connect_rx \in posting \/ \E i \in DOMAIN ui : ui[i] = "connect-result"

\* A dialog whose attempts are all over does not stay "connecting": the result starts the
\* session or is shown, unless the loop ends first (finish_connect).
ResultShown ==
    (status = "connecting" /\ workers = {}) ~>
        (status # "connecting" \/ state = "session" \/ loop = "ended")
=============================================================================
