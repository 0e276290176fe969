----------------------------- MODULE Clipboard -----------------------------
(***************************************************************************)
(* Plain-text clipboard syncing (clipboard.rs and the clipboard handlers   *)
(* of client.rs): the clipboard thread sets and polls the clipboard of the *)
(* desktop, the UI thread talks to the server, and both remember a last    *)
(* text so that a copy does not bounce between the two sides.  A text also *)
(* carries who put it on the clipboard, which the program cannot see.      *)
(***************************************************************************)
EXTENDS Naturals, Sequences

CONSTANTS
    Texts,     \* the texts copied on either side
    Empty,     \* the empty text
    Toggles,   \* whether the server switches syncing off and on
    MaxQueue   \* bound on each of the two queues

ASSUME ClipboardAssumption ==
    Empty \notin Texts /\ Toggles \in BOOLEAN /\ MaxQueue \in Nat

VARIABLES
    os,              \* the clipboard of the desktop: its text and who put it there
    thread,          \* the clipboard thread: "starting", "running" or "off"
    last,            \* its last text
    seeded,          \* history: last began as what was on the clipboard
    set_rx,          \* texts the UI thread wants on the clipboard
    ui,              \* packets waiting for the UI thread
    last_clipboard,  \* the UI thread's last text
    enabled,         \* clipboard_enabled
    requested,       \* the server owes us clipboard-contents
    sent,            \* the last clipboard packet written
    newest           \* the newest remote text, until a local copy or a failing set

vars == <<os, thread, last, seeded, set_rx, ui, last_clipboard, enabled, requested,
          sent, newest>>

Origins == {"before", "user", "server"}
Content == [text : Texts \cup {Empty}, by : Origins]
Packet ==
    [type : {"token", "contents", "request", "enable", "disable", "bare"},
     text : Texts \cup {Empty}, by : {"server"}]
    \cup [type : {"changed"}, text : Texts, by : Origins]
Sent == [type : {"none", "data", "contents", "contents-none", "request"},
         text : Texts \cup {Empty}, by : Origins]
NotSent == [type |-> "none", text |-> Empty, by |-> "before"]

TypeOK ==
    /\ os \in Content
    /\ thread \in {"starting", "running", "off"}
    /\ last \in Texts \cup {Empty} /\ seeded \in BOOLEAN
    /\ set_rx \in Seq(Texts)
    /\ ui \in Seq(Packet)
    /\ last_clipboard \in Texts \cup {Empty}
    /\ enabled \in BOOLEAN /\ requested \in BOOLEAN
    /\ sent \in Sent
    /\ newest \in Texts \cup {Empty}

\* process_hello has just enabled syncing and spawned the thread
Init ==
    /\ os \in [text : Texts \cup {Empty}, by : {"before"}]
    /\ thread = "starting" /\ last = Empty /\ seeded = FALSE /\ set_rx = <<>>
    /\ ui = <<>> /\ last_clipboard = Empty
    /\ enabled = TRUE /\ requested = FALSE
    /\ sent = NotSent /\ newest = Empty

uivars == <<last_clipboard, enabled, sent>>

-----------------------------------------------------------------------------
(* The clipboard thread, start_clipboard_loop *)

\* the clipboard is unavailable: the thread ends and set_rx is dropped
NoClipboard ==
    /\ thread = "starting" /\ thread' = "off" /\ set_rx' = <<>>
    /\ newest' = Empty
    /\ UNCHANGED <<seeded, os, last, ui, requested, uivars>>

\* `last` begins as the text on the clipboard, or empty when that cannot be read
Seed(readable) ==
    /\ thread = "starting" /\ thread' = "running" /\ seeded' = readable
    /\ last' = IF readable THEN os.text ELSE Empty
    /\ UNCHANGED <<os, set_rx, ui, requested, newest, uivars>>

\* `last` is not recorded
ApplySetMutant(text) == os' = [text |-> text, by |-> "server"] /\ UNCHANGED last

\* apply_set, when the clipboard takes the text
ApplySet(text) == os' = [text |-> text, by |-> "server"] /\ last' = text

\* the texts queued behind the first are dropped
SetClipboardMutant(k) ==
    /\ thread = "running" /\ set_rx # <<>>
    /\ IF k = 0 THEN UNCHANGED <<os, last>> ELSE ApplySet(Head(set_rx))
    /\ set_rx' = <<>>
    /\ newest' = IF k = Len(set_rx) THEN newest ELSE Empty
    /\ UNCHANGED <<seeded, thread, ui, requested, uivars>>

\* recv_timeout returns a text: it and all that are queued behind it are set in
\* turn; the k-th is the last one the clipboard takes, none when k is 0
SetClipboard(k) ==
    /\ thread = "running" /\ set_rx # <<>>
    /\ IF k = 0 THEN UNCHANGED <<os, last>> ELSE ApplySet(set_rx[k])
    /\ set_rx' = <<>>
    /\ newest' = IF k = Len(set_rx) THEN newest ELSE Empty
    /\ UNCHANGED <<seeded, thread, ui, requested, uivars>>

\* recv_timeout times out: report a text that is not the last one
Poll ==
    /\ thread = "running" /\ set_rx = <<>>
    /\ os.text # Empty /\ os.text # last /\ Len(ui) < MaxQueue
    /\ last' = os.text
    /\ ui' = Append(ui, [type |-> "changed", text |-> os.text, by |-> os.by])
    /\ UNCHANGED <<seeded, os, thread, set_rx, requested, newest, uivars>>

-----------------------------------------------------------------------------
(* The UI thread *)

\* user_event takes the packet at the head of the queue
Takes(t) == ui # <<>> /\ Head(ui).type = t /\ ui' = Tail(ui)

\* set_local_clipboard, which goes nowhere once the thread is off
SetLocalClipboard(text) ==
    /\ last_clipboard' = text
    /\ set_rx' = IF thread = "off" THEN set_rx ELSE Append(set_rx, text)
    /\ newest' = IF thread = "off" THEN Empty ELSE text

\* an empty payload is set like any other
ClipboardTextMutant(text) == TRUE

\* clipboard_text: a payload that is empty, or no plain text (Empty), is skipped
ClipboardText(text) == text # Empty

\* process_clipboard_token with inline text, and process_clipboard_contents
ProcessText ==
    /\ Takes("token") \/ Takes("contents")
    /\ IF enabled /\ ClipboardText(Head(ui).text) THEN SetLocalClipboard(Head(ui).text)
       ELSE UNCHANGED <<last_clipboard, set_rx, newest>>
    /\ UNCHANGED <<seeded, os, thread, last, enabled, requested, sent>>

\* process_clipboard_token without text: ask for it
ProcessBareToken ==
    /\ Takes("bare")
    /\ IF enabled
       THEN /\ sent' = [type |-> "request", text |-> Empty, by |-> "before"]
            /\ requested' = TRUE
       ELSE UNCHANGED <<sent, requested>>
    /\ UNCHANGED <<seeded, os, thread, last, set_rx, last_clipboard, enabled, newest>>

\* process_clipboard_request, for a text target or another one
ProcessRequest(is_text) ==
    /\ Takes("request")
    /\ sent' = IF enabled /\ is_text /\ last_clipboard # Empty
               THEN [type |-> "contents", text |-> last_clipboard, by |-> "before"]
               ELSE [type |-> "contents-none", text |-> Empty, by |-> "before"]
    /\ UNCHANGED <<seeded, os, thread, last, set_rx, last_clipboard, enabled, requested,
                   newest>>

\* whether a reported change is forwarded
Forwarded == enabled /\ Head(ui).text # Empty /\ Head(ui).text # last_clipboard

\* process_clipboard_changed: claim the clipboard of the server
ProcessChanged ==
    /\ Takes("changed")
    /\ IF Forwarded
       THEN /\ last_clipboard' = Head(ui).text
            /\ sent' = [Head(ui) EXCEPT !.type = "data"]
       ELSE UNCHANGED <<last_clipboard, sent>>
    /\ UNCHANGED <<seeded, os, thread, last, set_rx, enabled, requested, newest>>

\* set-clipboard-enabled
SetEnabled ==
    /\ Takes("enable") \/ Takes("disable")
    /\ enabled' = (Head(ui).type = "enable")
    /\ UNCHANGED <<seeded, os, thread, last, set_rx, last_clipboard, requested, sent,
                   newest>>

-----------------------------------------------------------------------------
(* The user and the server (external) *)

LocalCopy(t) ==
    /\ os' = [text |-> t, by |-> "user"] /\ newest' = Empty
    /\ UNCHANGED <<seeded, thread, last, set_rx, ui, requested, uivars>>

\* the server answers a clipboard-request with contents, sends the rest unasked
ServerSends(p) ==
    /\ Len(ui) < MaxQueue /\ Len(set_rx) < MaxQueue
    /\ p.type = "contents" => requested
    /\ p.type \in {"enable", "disable"} => Toggles
    /\ p.type \notin {"token", "contents"} => p.text = Empty
    /\ requested' = (requested /\ p.type # "contents")
    /\ ui' = Append(ui, p)
    /\ UNCHANGED <<seeded, os, thread, last, set_rx, newest, uivars>>

ServerPackets == {p \in Packet : p.type # "changed"}

Next ==
    \/ NoClipboard \/ Poll
    \/ \E readable \in BOOLEAN : Seed(readable)
    \/ \E k \in 0..Len(set_rx) : SetClipboard(k)
    \/ ProcessText \/ ProcessBareToken \/ ProcessChanged \/ SetEnabled
    \/ \E b \in BOOLEAN : ProcessRequest(b)
    \/ \E t \in Texts : LocalCopy(t)
    \/ \E p \in ServerPackets : ServerSends(p)

Spec == Init /\ [][Next]_vars

-----------------------------------------------------------------------------
(* Properties *)

\* No text that the server sent bounces back to it, nor does what was on the clipboard before the
\* session, however tokens, polls and sets interleave (the two `last` guards). The one exception
\* is a clipboard that cannot be read when the thread starts: it is taken for empty, so the
\* first poll that can read it reports the text from before as if the user had copied it.
NoEcho ==
    sent.type = "data" => sent.by = "user" \/ (sent.by = "before" /\ ~seeded)

\* Of several texts the server copied in a row the newest ends up on the clipboard, once the
\* clipboard thread has caught up and unless the user copied something since or the clipboard
\* refused it (start_clipboard_loop, apply_set).
NewestWins == newest # Empty /\ set_rx = <<>> => os.text = newest

\* "Reply with the latest local text, which the clipboard thread's poll keeps in
\* `last_clipboard`" (client.rs, process_clipboard_request): with nothing in transit, no local
\* copy since and no refused set, the UI thread would reply with what is on the clipboard.
LatestServed ==
    ui = <<>> /\ set_rx = <<>> /\ newest # Empty => last_clipboard = os.text
=============================================================================
