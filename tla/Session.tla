------------------------------ MODULE Session ------------------------------
(***************************************************************************)
(* The life of one connection on the UI thread (client.rs): the hello and  *)
(* the authentication challenge with its four password sources, and every  *)
(* way the session ends, with the exit status each leaves.  The reader,    *)
(* ping and pinentry threads, the tray and the forwarding logger all post  *)
(* packets to the one queue `ui` that user_event consumes.                 *)
(***************************************************************************)
EXTENDS Naturals, Sequences, FiniteSets

CONSTANTS
    Sources,        \* password sources this client may have, see PasswordSources
    MaxChallenges,  \* bound on the challenges the server sends
    MaxQueue        \* bound on `ui` for what other threads post

\* "known": from the connection dialog or XPRA_PASSWORD
PasswordSources == {"known", "pinentry", "dialog"}

ASSUME SessionAssumption ==
    /\ Sources \subseteq PasswordSources
    /\ MaxChallenges \in Nat /\ MaxQueue \in Nat

Codes == {"Ok", "Failure", "ConnectionLost", "ConnectionFailed",
          "PacketFailure", "AuthenticationFailed", "MmapTokenFailure"}

VARIABLES
    exit_code,          \* a member of Codes, or "none"
    startup_complete,
    pending_challenge,  \* a challenge waits for its password
    auth_dialog,        \* the built-in password dialog is open
    log_sink,           \* log records are forwarded to the server
    loop,               \* the event loop: "new", "running", "exiting", "ended"
    ui,                 \* packets waiting for user_event
    reader,             \* the reader thread: "new", "reading" or "done"
    pinentry,           \* pinentry workers asking the user
    source,             \* where this client gets its password
    link,               \* the connection: "up" or "broken"
    server,             \* the server: "waiting", "accepted", "up" or "closed"
    hellos,             \* hellos the server has not reacted to yet
    challenges          \* challenges the server has sent

vars == <<exit_code, startup_complete, pending_challenge, auth_dialog,
          log_sink, loop, ui, reader, pinentry, source, link, server, hellos,
          challenges>>

\* what only the server and the network change
outside == <<link, server, challenges>>

Kinds == {"hello", "challenge", "startup-complete", "disconnect",
          "connection-lost", "invalid-packet", "challenge-password",
          "challenge-cancel", "challenge-fallback-dialog", "send-ping",
          "send-log", "tray-exit"}
Args == {"", "plain", "logs", "bad-token", "good", "bad", "auth", "error"}
P(t) == [type |-> t, arg |-> ""]

TypeOK ==
    /\ exit_code \in Codes \cup {"none"}
    /\ startup_complete \in BOOLEAN /\ pending_challenge \in BOOLEAN
    /\ auth_dialog \in BOOLEAN /\ log_sink \in BOOLEAN
    /\ loop \in {"new", "running", "exiting", "ended"}
    /\ ui \in Seq([type : Kinds, arg : Args])
    /\ reader \in {"new", "reading", "done"}
    /\ pinentry \in Nat
    /\ source \in Sources
    /\ link \in {"up", "broken"}
    /\ server \in {"waiting", "accepted", "up", "closed"}
    /\ hellos \in Nat /\ challenges \in Nat

Init ==
    /\ exit_code = "none"
    /\ startup_complete = FALSE /\ pending_challenge = FALSE
    /\ auth_dialog = FALSE /\ log_sink = FALSE
    /\ loop = "new" /\ ui = <<>> /\ reader = "new" /\ pinentry = 0
    /\ source \in Sources
    /\ link = "up" /\ server = "waiting"
    /\ hellos = 0 /\ challenges = 0

-----------------------------------------------------------------------------
(* Building blocks: writing, quitting, logging *)

\* a record of level info or above; those one handler logs in a row are one packet
Log == IF log_sink THEN <<P("send-log")>> ELSE <<>>

ConnectionLostCode ==
    IF startup_complete THEN "ConnectionLost" ELSE "ConnectionFailed"

\* a write to a broken connection may still succeed, into the socket buffer
MayWrite(ok) == ok \/ link = "broken"

\* a failing write is retried for every packet
FailsMutant(ok) == ~ok

\* write_json is a no-op once exit_code is set
Fails(ok) == exit_code = "none" /\ ~ok

\* the UI thread sets exit_code and tells nobody
WritePostsMutant(ok) == IF Fails(ok) THEN Log ELSE <<>>

\* write_json, failing: it logs, sets exit_code and posts connection-lost
WriteCode(ok) == IF Fails(ok) THEN ConnectionLostCode ELSE exit_code
WritePosts(ok) == IF Fails(ok) THEN Log \o <<P("connection-lost")>> ELSE <<>>

\* send_hello: it reaches the server unless it was dropped or lost
HelloSent(ok) ==
    hellos' = IF exit_code = "none" /\ ok /\ link = "up" THEN hellos + 1
              ELSE hellos

\* the last cause wins
QuitMutant(before, code) == code

\* quit: the first cause wins, and the event loop is told to exit
QuitCode(before, code) == IF before = "none" THEN code ELSE before

Quit(before, code) == exit_code' = QuitCode(before, code) /\ loop' = "exiting"

\* user_event takes the next packet, of type t; handling it posts `posts`
Takes(t) == /\ loop \in {"running", "exiting"}
            /\ ui # <<>> /\ Head(ui).type = t
Posting(posts) == ui' = Tail(ui) \o posts

\* a native window event reaches the UI thread
UiFree == loop \in {"running", "exiting"}

-----------------------------------------------------------------------------
(* Start of the session *)

\* resumed: start the reader and send the first hello
Resumed(ok) ==
    /\ loop = "new" /\ MayWrite(ok)
    /\ loop' = "running" /\ reader' = "reading"
    /\ exit_code' = WriteCode(ok)
    /\ ui' = ui \o WritePosts(ok)
    /\ HelloSent(ok)
    /\ UNCHANGED <<startup_complete, pending_challenge, auth_dialog, log_sink,
                   pinentry, source>>
    /\ UNCHANGED outside

\* process_hello: a mmap token the client cannot find ends the session; log
\* forwarding starts even then, when the server receives logs
ProcessHello ==
    /\ Takes("hello")
    /\ log_sink' = (log_sink \/ Head(ui).arg # "plain")
    /\ Posting(IF log_sink' THEN <<P("send-log")>> ELSE <<>>)
    /\ IF Head(ui).arg = "bad-token" THEN Quit(exit_code, "MmapTokenFailure")
       ELSE UNCHANGED <<exit_code, loop>>
    /\ UNCHANGED <<startup_complete, pending_challenge, auth_dialog, reader,
                   pinentry, source, hellos>>
    /\ UNCHANGED outside

StartupComplete ==
    /\ Takes("startup-complete")
    /\ startup_complete' = TRUE
    /\ Posting(Log)
    /\ UNCHANGED <<exit_code, pending_challenge, auth_dialog, log_sink, loop,
                   reader, pinentry, source, hellos>>
    /\ UNCHANGED outside

-----------------------------------------------------------------------------
(* Authentication *)

\* answer_challenge: take the pending challenge, if any, and send the second hello
AnswerChallenge(ok) ==
    /\ MayWrite(ok)
    /\ pending_challenge' = FALSE
    /\ IF pending_challenge
       THEN /\ exit_code' = WriteCode(ok)
            /\ HelloSent(ok)
       ELSE UNCHANGED <<exit_code, hellos>>

AnswerPosts(ok) == IF pending_challenge THEN WritePosts(ok) ELSE Log

\* show_auth_dialog, which may fail to open
ShowAuthDialog(opened) ==
    IF opened THEN auth_dialog' = TRUE /\ UNCHANGED <<exit_code, loop>>
    ELSE Quit(exit_code, "AuthenticationFailed") /\ UNCHANGED auth_dialog

\* process_challenge, while another one is pending
IgnoreChallenge ==
    /\ Takes("challenge") /\ (pending_challenge \/ auth_dialog)
    /\ Posting(Log)
    /\ UNCHANGED <<exit_code, startup_complete, pending_challenge, auth_dialog,
                   log_sink, loop, reader, pinentry, source, hellos>>
    /\ UNCHANGED outside

\* a challenge is due an answer when none is pending
FreshChallengeMutant == Takes("challenge")

FreshChallenge == Takes("challenge") /\ ~pending_challenge /\ ~auth_dialog

\* process_challenge: no salt, or a digest that is not supported
RejectChallenge ==
    /\ FreshChallenge /\ Head(ui).arg = "bad"
    /\ Posting(Log) /\ Quit(exit_code, "AuthenticationFailed")
    /\ UNCHANGED <<startup_complete, pending_challenge, auth_dialog, log_sink,
                   reader, pinentry, source, hellos>>
    /\ UNCHANGED outside

\* process_challenge, password known: answered within the handler
AnswerAtOnce(ok) ==
    /\ FreshChallenge /\ Head(ui).arg = "good" /\ source = "known"
    /\ MayWrite(ok)
    /\ exit_code' = WriteCode(ok) /\ HelloSent(ok)
    /\ Posting(Log \o WritePosts(ok))
    /\ UNCHANGED <<startup_complete, pending_challenge, auth_dialog, log_sink,
                   loop, reader, pinentry, source>>
    /\ UNCHANGED outside

\* process_challenge, pinentry installed: a worker asks the user
AskPinentry ==
    /\ FreshChallenge /\ Head(ui).arg = "good" /\ source = "pinentry"
    /\ pending_challenge' = TRUE /\ pinentry' = pinentry + 1
    /\ Posting(<<>>)
    /\ UNCHANGED <<exit_code, startup_complete, auth_dialog, log_sink, loop,
                   reader, source, hellos>>
    /\ UNCHANGED outside

\* process_challenge, otherwise: the built-in dialog
AskDialog(opened) ==
    /\ FreshChallenge /\ Head(ui).arg = "good" /\ source = "dialog"
    /\ pending_challenge' = TRUE
    /\ ShowAuthDialog(opened)
    /\ Posting(IF opened THEN <<>> ELSE Log)
    /\ UNCHANGED <<startup_complete, log_sink, reader, pinentry, source, hellos>>
    /\ UNCHANGED outside

\* the worker posts a packet type user_event does not know
PinentryResultMutant(t) ==
    /\ pinentry > 0 /\ loop # "ended"
    /\ pinentry' = pinentry - 1
    /\ ui' = Append(ui, P("challenge-result"))
    /\ UNCHANGED <<exit_code, startup_complete, pending_challenge, auth_dialog,
                   log_sink, loop, reader, source, hellos>>
    /\ UNCHANGED outside

\* spawn_pinentry's worker ends: a password, a cancel, or a failure to run it
PinentryResult(t) ==
    /\ pinentry > 0 /\ loop # "ended"
    /\ pinentry' = pinentry - 1
    /\ ui' = ui \o (IF t = "challenge-fallback-dialog" THEN Log ELSE <<>>)
                \o <<P(t)>>
    /\ UNCHANGED <<exit_code, startup_complete, pending_challenge, auth_dialog,
                   log_sink, loop, reader, source, hellos>>
    /\ UNCHANGED outside

ChallengePassword(ok) ==
    /\ Takes("challenge-password")
    /\ AnswerChallenge(ok)
    /\ Posting(AnswerPosts(ok))
    /\ UNCHANGED <<startup_complete, auth_dialog, log_sink, loop, reader,
                   pinentry, source>>
    /\ UNCHANGED outside

\* cancel_auth, from pinentry
ChallengeCancel ==
    /\ Takes("challenge-cancel")
    /\ auth_dialog' = FALSE /\ pending_challenge' = FALSE
    /\ Quit(exit_code, "AuthenticationFailed")
    /\ Posting(Log)
    /\ UNCHANGED <<startup_complete, log_sink, reader, pinentry, source, hellos>>
    /\ UNCHANGED outside

ChallengeFallbackDialog(opened) ==
    /\ Takes("challenge-fallback-dialog")
    /\ ShowAuthDialog(opened)
    /\ Posting(IF opened THEN <<>> ELSE Log)
    /\ UNCHANGED <<startup_complete, pending_challenge, log_sink, reader,
                   pinentry, source, hellos>>
    /\ UNCHANGED outside

\* handle_auth_dialog_event: Enter takes the dialog and answers
DialogSubmit(ok) ==
    /\ UiFree /\ auth_dialog
    /\ auth_dialog' = FALSE
    /\ AnswerChallenge(ok)
    /\ ui' = ui \o AnswerPosts(ok)
    /\ UNCHANGED <<startup_complete, log_sink, loop, reader, pinentry, source>>
    /\ UNCHANGED outside

\* handle_auth_dialog_event: Escape, or the window is closed
DialogCancel ==
    /\ UiFree /\ auth_dialog
    /\ auth_dialog' = FALSE /\ pending_challenge' = FALSE
    /\ Quit(exit_code, "AuthenticationFailed")
    /\ ui' = ui \o Log
    /\ UNCHANGED <<startup_complete, log_sink, reader, pinentry, source, hellos>>
    /\ UNCHANGED outside

-----------------------------------------------------------------------------
(* Traffic that writes *)

\* an input event of a session window (handle_window_event), and the window-lifetime packets
UserInput(ok) ==
    /\ UiFree /\ server \in {"accepted", "up", "closed"} /\ MayWrite(ok)
    /\ exit_code' = WriteCode(ok)
    /\ ui' = ui \o WritePosts(ok)
    /\ UNCHANGED <<startup_complete, pending_challenge, auth_dialog, log_sink,
                   loop, reader, pinentry, source, hellos>>
    /\ UNCHANGED outside

\* start_ping_loop's thread
PingTick ==
    /\ startup_complete /\ loop # "ended" /\ Len(ui) < MaxQueue
    /\ ui' = Append(ui, P("send-ping"))
    /\ UNCHANGED <<exit_code, startup_complete, pending_challenge, auth_dialog,
                   log_sink, loop, reader, pinentry, source, hellos>>
    /\ UNCHANGED outside

\* send_ping and send_log: one write
SendQueued(t, ok) ==
    /\ Takes(t) /\ MayWrite(ok)
    /\ exit_code' = WriteCode(ok)
    /\ Posting(WritePosts(ok))
    /\ UNCHANGED <<startup_complete, pending_challenge, auth_dialog, log_sink,
                   loop, reader, pinentry, source, hellos>>
    /\ UNCHANGED outside

-----------------------------------------------------------------------------
(* The ways out *)

\* process_disconnect: "auth" says authentication failed, "error" reads as an error
DisconnectCode(reason) ==
    CASE reason = "auth" -> "AuthenticationFailed"
      [] reason = "error" ->
            IF startup_complete THEN "Failure" ELSE "ConnectionFailed"
      [] OTHER -> "Ok"

ProcessDisconnect ==
    /\ Takes("disconnect")
    /\ Quit(exit_code, DisconnectCode(Head(ui).arg))
    /\ Posting(IF Head(ui).arg = "auth" THEN <<>> ELSE Log)
    /\ UNCHANGED <<startup_complete, pending_challenge, auth_dialog, log_sink,
                   reader, pinentry, source, hellos>>
    /\ UNCHANGED outside

ConnectionLost ==
    /\ Takes("connection-lost")
    /\ Quit(exit_code, ConnectionLostCode)
    /\ Posting(IF exit_code = "none" THEN Log ELSE <<>>)
    /\ UNCHANGED <<startup_complete, pending_challenge, auth_dialog, log_sink,
                   reader, pinentry, source, hellos>>
    /\ UNCHANGED outside

InvalidPacket ==
    /\ Takes("invalid-packet")
    /\ Quit(exit_code,
            IF startup_complete THEN "PacketFailure" ELSE "ConnectionFailed")
    /\ Posting(Log)
    /\ UNCHANGED <<startup_complete, pending_challenge, auth_dialog, log_sink,
                   reader, pinentry, source, hellos>>
    /\ UNCHANGED outside

\* the user picks "Exit" in the tray menu
TrayMenuExit ==
    /\ UiFree /\ Len(ui) < MaxQueue
    /\ ui' = Append(ui, P("tray-exit"))
    /\ UNCHANGED <<exit_code, startup_complete, pending_challenge, auth_dialog,
                   log_sink, loop, reader, pinentry, source, hellos>>
    /\ UNCHANGED outside

\* connection-close is written first, then quit(Ok)
TrayExit(ok) ==
    /\ Takes("tray-exit") /\ MayWrite(ok)
    /\ Quit(WriteCode(ok), "Ok")
    /\ Posting(Log \o WritePosts(ok))
    /\ UNCHANGED <<startup_complete, pending_challenge, auth_dialog, log_sink,
                   reader, pinentry, source, hellos>>
    /\ UNCHANGED outside

\* winit stops dispatching: what is still queued is never handled
LoopEnds ==
    /\ loop = "exiting" /\ loop' = "ended"
    /\ UNCHANGED <<exit_code, startup_complete, pending_challenge, auth_dialog,
                   log_sink, ui, reader, pinentry, source, hellos>>
    /\ UNCHANGED outside

-----------------------------------------------------------------------------
(* The reader thread, the server and the network *)

\* what the server may send next, and what that makes of it (external); the
\* "logs" and "bad-token" hellos come from servers that receive logs
ServerSends(p) ==
    \/ /\ p.type = "challenge" /\ p.arg \in {"good", "bad"}
       /\ server = "waiting" /\ challenges < MaxChallenges
       /\ hellos' = 0 /\ challenges' = challenges + 1
       /\ UNCHANGED server
    \/ /\ p.type = "hello" /\ p.arg \in {"plain", "logs", "bad-token"}
       /\ server = "waiting" /\ hellos > 0
       /\ hellos' = hellos - 1 /\ server' = "accepted" /\ UNCHANGED challenges
    \/ /\ p = P("startup-complete") /\ server = "accepted"
       /\ server' = "up" /\ UNCHANGED <<hellos, challenges>>
    \/ /\ p.type = "disconnect" /\ server # "closed"
       /\ p.arg = "auth" => server = "waiting"
       /\ p.arg \in {"plain", "auth", "error"}
       /\ server' = "closed" /\ UNCHANGED <<hellos, challenges>>

ServerPackets ==
    [type : {"challenge"}, arg : {"good", "bad"}]
    \cup [type : {"hello"}, arg : {"plain", "logs", "bad-token"}]
    \cup [type : {"disconnect"}, arg : {"plain", "auth", "error"}]
    \cup {P("startup-complete")}

\* start_read_loop: a packet is read and posted
ReadPacket(p) ==
    /\ reader = "reading" /\ link = "up" /\ loop # "ended" /\ Len(ui) < MaxQueue
    /\ ServerSends(p)
    /\ ui' = Append(ui, p)
    /\ UNCHANGED <<exit_code, startup_complete, pending_challenge, auth_dialog,
                   log_sink, loop, reader, pinentry, source, link>>

\* start_read_loop: bytes that are no packet end the reader
ReadInvalid ==
    /\ reader = "reading" /\ link = "up" /\ loop # "ended"
    /\ reader' = "done" /\ ui' = Append(ui, P("invalid-packet"))
    /\ UNCHANGED <<exit_code, startup_complete, pending_challenge, auth_dialog,
                   log_sink, loop, pinentry, source, hellos>>
    /\ UNCHANGED outside

\* start_read_loop: the connection is gone
ReadError ==
    /\ reader = "reading" /\ link = "broken" /\ loop # "ended"
    /\ reader' = "done" /\ ui' = Append(ui, P("connection-lost"))
    /\ UNCHANGED <<exit_code, startup_complete, pending_challenge, auth_dialog,
                   log_sink, loop, pinentry, source, hellos>>
    /\ UNCHANGED outside

\* the server closes, dies, or the network fails
ConnectionBreaks ==
    /\ link = "up" /\ link' = "broken"
    /\ UNCHANGED <<exit_code, startup_complete, pending_challenge, auth_dialog,
                   log_sink, loop, ui, reader, pinentry, source, server, hellos,
                   challenges>>

-----------------------------------------------------------------------------
\* user_event on the packet at the head of the queue
UserEvent ==
    \/ ProcessHello \/ StartupComplete
    \/ IgnoreChallenge \/ RejectChallenge \/ AskPinentry \/ ChallengeCancel
    \/ \E ok \in BOOLEAN : AnswerAtOnce(ok) \/ ChallengePassword(ok)
    \/ \E opened \in BOOLEAN : AskDialog(opened) \/ ChallengeFallbackDialog(opened)
    \/ \E ok \in BOOLEAN, t \in {"send-ping", "send-log"} : SendQueued(t, ok)
    \/ ProcessDisconnect \/ ConnectionLost \/ InvalidPacket
    \/ \E ok \in BOOLEAN : TrayExit(ok)

Next ==
    \/ \E ok \in BOOLEAN : Resumed(ok)
    \/ UserEvent
    \/ \E ok \in BOOLEAN : DialogSubmit(ok) \/ UserInput(ok)
    \/ DialogCancel \/ TrayMenuExit \/ PingTick \/ LoopEnds
    \/ \E t \in {"challenge-password", "challenge-cancel",
                 "challenge-fallback-dialog"} : PinentryResult(t)
    \/ \E p \in ServerPackets : ReadPacket(p)
    \/ ReadInvalid \/ ReadError \/ ConnectionBreaks

\* the event loop keeps dispatching and, told to exit, does; nothing is assumed
\* of the user, the server, the network or the other threads
Fairness == WF_vars(UserEvent) /\ WF_vars(LoopEnds)

Spec == Init /\ [][Next]_vars /\ Fairness

-----------------------------------------------------------------------------
(* Properties *)

PromptResults == {"challenge-password", "challenge-cancel",
                  "challenge-fallback-dialog"}
Queued(types) == {k \in 1..Len(ui) : ui[k].type \in types}
\* the prompts that still may answer: pinentry asking, its result queued, the dialog
Prompts == pinentry + Cardinality(Queued(PromptResults))
           + (IF auth_dialog THEN 1 ELSE 0)

\* A challenge is pending exactly as long as one prompt may still answer it, whatever repeated
\* challenges, failing pinentry and cancelled dialogs come before (process_challenge,
\* show_auth_dialog, the pinentry fallback): the user is never asked twice, no password
\* "arrives but no challenge is pending" (answer_challenge), and no challenge is left that
\* nobody will answer unless the session is ending.
OnePromptPerChallenge ==
    /\ Prompts <= 1
    /\ Prompts = 1 => pending_challenge
    /\ pending_challenge => Prompts = 1 \/ exit_code # "none"

\* The first cause of the end decides the exit status: no later packet, failing write or
\* cancelled dialog replaces it (quit, write_json).
FirstCauseWins == [][exit_code # "none" => exit_code' = exit_code]_vars

\* Forwarding a log record never feeds on itself: sending one leaves fewer records queued,
\* except once, when its own failing write ends the session (send_log, write_json).
LogsConsumed ==
    [][(\E ok \in BOOLEAN : SendQueued("send-log", ok))
        => \/ Cardinality(Queued({"send-log"}))' < Cardinality(Queued({"send-log"}))
           \/ exit_code = "none" /\ exit_code' # "none"]_vars

\* Once an exit status is decided the event loop ends, a write failure included, which cannot
\* reach the event loop itself and has to post connection-lost (write_json).
DecidedExits == exit_code # "none" ~> loop = "ended"
=============================================================================
