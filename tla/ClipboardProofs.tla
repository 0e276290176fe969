-------------------------- MODULE ClipboardProofs --------------------------
(***************************************************************************)
(* Clipboard for every set of texts and any length of its queues: nothing  *)
(* of the server's is sent back to it, and nothing from before the session *)
(* unless the thread could not read that when it started; of the texts the *)
(* server sends the newest stays.                                          *)
(***************************************************************************)
EXTENDS Clipboard, TLAPS

\* A text that the thread may report: a local copy, or one from before the session that it could
\* not read when it started.
Reportable(by) == by = "user" \/ (by = "before" /\ ~seeded)

\* Whatever the running thread would report is reportable: any other text on the clipboard is
\* the one it remembers.
Remembered == thread = "running" /\ ~Reportable(os.by) => os.text = last

\* Every report on its way to the UI thread is one it may make, and none was made before the
\* thread started.
ReportsLocal ==
    \A k \in 1..Len(ui) :
        ui[k].type = "changed" => thread # "starting" /\ Reportable(ui[k].by)

\* Until the thread starts nothing of either side was passed on.
SentLater == thread = "starting" => sent.type # "data" /\ os.by # "server" /\ ~seeded

\* The newest remote text is the last one queued, or else on the clipboard.
NewestKept ==
    newest # Empty => /\ thread # "off"
                      /\ IF set_rx = <<>> THEN os.text = newest
                         ELSE set_rx[Len(set_rx)] = newest

\* The inductive invariant.
CInv == TypeOK /\ Remembered /\ ReportsLocal /\ SentLater /\ NoEcho /\ NewestKept

-----------------------------------------------------------------------------
(* Queues *)

\* Taking the head of the packet queue leaves packets of the same origin.
LEMMA TailReports ==
    ASSUME ui \in Seq(Packet), ui # <<>>, ReportsLocal, ui' = Tail(ui),
           UNCHANGED <<thread, seeded>>
    PROVE  ReportsLocal' /\ ui' \in Seq(Packet) /\ Head(ui) \in Packet
<1>1. /\ Tail(ui) \in Seq(Packet) /\ Head(ui) \in Packet
      /\ Len(Tail(ui)) = Len(ui) - 1 /\ Len(ui) \in Nat /\ Len(ui) > 0
      /\ \A k \in 1..Len(Tail(ui)) : Tail(ui)[k] = ui[k + 1]
  OBVIOUS
<1>2. QED
  BY <1>1 DEF ReportsLocal, Reportable

\* Posting a packet that is no report of a remote text keeps the queue's reports local.
LEMMA AppendReports ==
    ASSUME ui \in Seq(Packet), ReportsLocal, NEW p \in Packet,
           p.type = "changed" => thread # "starting" /\ Reportable(p.by),
           ui' = Append(ui, p), UNCHANGED <<thread, seeded>>
    PROVE  ReportsLocal' /\ ui' \in Seq(Packet)
<1>1. /\ Append(ui, p) \in Seq(Packet) /\ Len(ui) \in Nat
      /\ Len(Append(ui, p)) = Len(ui) + 1
      /\ Append(ui, p)[Len(ui) + 1] = p
      /\ \A k \in 1..Len(ui) : Append(ui, p)[k] = ui[k]
  OBVIOUS
<1>2. QED
  BY <1>1 DEF ReportsLocal, Reportable

-----------------------------------------------------------------------------
(* The steps of the clipboard thread *)

\* The thread starts with nothing queued (process_hello).
LEMMA InitCInv == Init => CInv
<1> SUFFICES ASSUME Init PROVE CInv
  OBVIOUS
<1>1. TypeOK
  <2>1. os \in Content
    BY DEF Init, Content, Origins
  <2>2. NotSent \in Sent
    BY DEF NotSent, Sent, Origins
  <2>3. set_rx \in Seq(Texts) /\ ui \in Seq(Packet)
    BY DEF Init
  <2>4. /\ thread \in {"starting", "running", "off"} /\ sent \in Sent
        /\ last \in Texts \cup {Empty} /\ last_clipboard \in Texts \cup {Empty}
        /\ newest \in Texts \cup {Empty}
    BY <2>2 DEF Init
  <2>5. enabled \in BOOLEAN /\ requested \in BOOLEAN /\ seeded \in BOOLEAN
    BY DEF Init
  <2>6. QED
    BY <2>1, <2>3, <2>4, <2>5 DEF TypeOK
<1>2. Remembered /\ ReportsLocal /\ SentLater /\ NoEcho /\ NewestKept
  BY DEF Init, Remembered, ReportsLocal, SentLater, Reportable, NoEcho, NewestKept, NotSent
<1>3. QED
  BY <1>1, <1>2 DEF CInv

\* An unavailable clipboard drops the queue with the thread.
LEMMA NoClipboardCInv == ASSUME CInv, NoClipboard PROVE CInv'
<1>1. TypeOK'
  BY DEF CInv, TypeOK, NoClipboard, uivars
<1>2. Remembered' /\ ReportsLocal' /\ SentLater' /\ NoEcho' /\ NewestKept'
  BY DEF CInv, NoClipboard, uivars, Remembered, ReportsLocal, SentLater, Reportable, NoEcho,
     NewestKept
<1>3. QED
  BY <1>1, <1>2 DEF CInv

\* Seeding remembers what was on the clipboard before, if it could be read.
LEMMA SeedCInv == ASSUME CInv, NEW readable \in BOOLEAN, Seed(readable) PROVE CInv'
<1>1. TypeOK'
  BY DEF CInv, TypeOK, Seed, uivars, Content
<1>2. /\ thread = "starting" /\ thread' = "running" /\ seeded' = readable
      /\ last' = (IF readable THEN os.text ELSE Empty)
      /\ UNCHANGED <<os, set_rx, ui, newest, sent>>
  BY DEF Seed, uivars
<1>3. Remembered'
  <2>1. CASE readable
    BY <1>2, <2>1 DEF Remembered
  <2>2. CASE ~readable
    BY <1>2, <2>2 DEF CInv, TypeOK, Content, Origins, SentLater, Remembered, Reportable
  <2>3. QED
    BY <2>1, <2>2
<1>4. ReportsLocal' /\ SentLater' /\ NoEcho' /\ NewestKept'
  BY <1>2 DEF CInv, ReportsLocal, SentLater, NoEcho, NewestKept
<1>5. QED
  BY <1>1, <1>3, <1>4 DEF CInv

\* A set is remembered together with what it sets (apply_set), and ends with the newest.
LEMMA SetClipboardCInv ==
    ASSUME CInv, NEW k \in 0..Len(set_rx), SetClipboard(k)
    PROVE  CInv'
<1>1. /\ thread = "running" /\ set_rx # <<>> /\ set_rx' = <<>>
      /\ newest' = IF k = Len(set_rx) THEN newest ELSE Empty
      /\ UNCHANGED <<thread, seeded, ui, requested, last_clipboard, enabled, sent>>
  BY DEF SetClipboard, uivars
<1>2. set_rx \in Seq(Texts) /\ Len(set_rx) \in Nat /\ Len(set_rx) > 0
  BY <1>1 DEF CInv, TypeOK
<1>3. CASE k = 0
  <2>1. UNCHANGED <<os, last>> /\ newest' = Empty
    BY <1>1, <1>2, <1>3 DEF SetClipboard
  <2>2. TypeOK'
    BY <1>1, <2>1 DEF CInv, TypeOK
  <2>3. QED
    BY <1>1, <2>1, <2>2 DEF CInv, Remembered, ReportsLocal, SentLater, Reportable, NoEcho,
     NewestKept
<1>4. CASE k # 0
  <2>1. /\ os' = [text |-> set_rx[k], by |-> "server"] /\ last' = set_rx[k]
        /\ set_rx[k] \in Texts
    BY <1>2, <1>4 DEF SetClipboard, ApplySet
  <2>2. TypeOK'
    BY <1>1, <2>1 DEF CInv, TypeOK, Content, Origins
  <2>3. Remembered' /\ ReportsLocal' /\ SentLater' /\ NoEcho'
    BY <1>1, <2>1 DEF CInv, Remembered, ReportsLocal, SentLater, Reportable, NoEcho
  <2>4. NewestKept'
    BY <1>1, <1>2, <2>1 DEF CInv, NewestKept
  <2>5. QED
    BY <2>2, <2>3, <2>4 DEF CInv
<1>5. QED
  BY <1>3, <1>4

\* The poll only reports a text it does not remember, which therefore is reportable.
LEMMA PollCInv == ASSUME CInv, Poll PROVE CInv'
<1> DEFINE p == [type |-> "changed", text |-> os.text, by |-> os.by]
<1>1. /\ thread = "running" /\ Reportable(os.by) /\ UNCHANGED <<thread, seeded>>
      /\ os.text \in Texts /\ os.by \in Origins
  BY DEF CInv, Remembered, Poll, TypeOK, Content
<1>2. p \in Packet /\ p.by = os.by
  BY <1>1 DEF Packet
<1>3. ui' = Append(ui, p)
  BY DEF Poll
<1> HIDE DEF p
<1>4. ReportsLocal' /\ ui' \in Seq(Packet)
  BY <1>1, <1>2, <1>3, AppendReports DEF CInv, TypeOK
<1>5. TypeOK'
  BY <1>1, <1>4 DEF CInv, TypeOK, Poll, uivars
<1>6. Remembered' /\ SentLater' /\ NoEcho' /\ NewestKept'
  BY DEF CInv, Poll, uivars, Remembered, SentLater, Reportable, NoEcho, NewestKept
<1>7. QED
  BY <1>4, <1>5, <1>6 DEF CInv

-----------------------------------------------------------------------------
(* The steps of the UI thread *)

\* A remote text becomes the newest and goes to the end of the queue (set_local_clipboard).
LEMMA ProcessTextCInv == ASSUME CInv, ProcessText PROVE CInv'
<1>1. ui # <<>> /\ ui' = Tail(ui) /\ UNCHANGED <<thread, seeded>>
  BY DEF ProcessText, Takes
<1>2. ReportsLocal' /\ ui' \in Seq(Packet) /\ Head(ui) \in Packet
  BY <1>1, TailReports DEF CInv, TypeOK
<1>3. UNCHANGED <<os, thread, last, seeded, enabled, requested, sent>>
  BY DEF ProcessText
<1>4. Remembered' /\ SentLater' /\ NoEcho'
  BY <1>3 DEF CInv, Remembered, SentLater, Reportable, NoEcho
<1>5. CASE UNCHANGED <<last_clipboard, set_rx, newest>>
  <2>1. TypeOK' /\ NewestKept'
    BY <1>2, <1>3, <1>5 DEF CInv, TypeOK, NewestKept
  <2>2. QED
    BY <1>2, <1>4, <2>1 DEF CInv
<1>6. CASE /\ ClipboardText(Head(ui).text)
           /\ SetLocalClipboard(Head(ui).text)
  <2> DEFINE t == Head(ui).text
  <2>1. t \in Texts
    BY <1>2, <1>6 DEF Packet, ClipboardText
  <2>2. /\ last_clipboard' = t
        /\ set_rx' = IF thread = "off" THEN set_rx ELSE Append(set_rx, t)
        /\ newest' = IF thread = "off" THEN Empty ELSE t
    BY <1>6 DEF SetLocalClipboard
  <2> HIDE DEF t
  <2>3. set_rx \in Seq(Texts)
    BY DEF CInv, TypeOK
  <2>4. /\ Append(set_rx, t) \in Seq(Texts) /\ Append(set_rx, t) # <<>>
        /\ Append(set_rx, t)[Len(Append(set_rx, t))] = t
    BY <2>1, <2>3
  <2>5. TypeOK'
    BY <1>2, <1>3, <2>1, <2>2, <2>3, <2>4 DEF CInv, TypeOK
  <2>6. NewestKept'
    BY <1>3, <2>2, <2>4 DEF CInv, NewestKept
  <2>7. QED
    BY <1>2, <1>4, <2>5, <2>6 DEF CInv
<1>7. QED
  BY <1>5, <1>6 DEF ProcessText

\* A report is forwarded with its origin (process_clipboard_changed).
LEMMA ProcessChangedCInv == ASSUME CInv, ProcessChanged PROVE CInv'
<1>1. /\ ui # <<>> /\ ui' = Tail(ui) /\ Head(ui).type = "changed"
      /\ UNCHANGED <<thread, seeded>>
  BY DEF ProcessChanged, Takes
<1>2. ReportsLocal' /\ ui' \in Seq(Packet) /\ Head(ui) \in Packet
  BY <1>1, TailReports DEF CInv, TypeOK
<1>3. Head(ui) \in [type : {"changed"}, text : Texts, by : Origins]
  BY <1>1, <1>2 DEF Packet
<1>4. thread # "starting" /\ Reportable(Head(ui).by)
  <2>1. Head(ui) = ui[1] /\ 1 \in 1..Len(ui)
    BY <1>1 DEF CInv, TypeOK
  <2>2. QED
    BY <1>1, <2>1 DEF CInv, ReportsLocal
<1>5. UNCHANGED <<os, thread, last, seeded, set_rx, enabled, requested, newest>>
  BY DEF ProcessChanged
<1>6. Remembered' /\ NewestKept'
  BY <1>5 DEF CInv, Remembered, Reportable, NewestKept
<1>7. CASE UNCHANGED <<last_clipboard, sent>>
  <2>1. TypeOK' /\ NoEcho' /\ SentLater'
    BY <1>2, <1>5, <1>7 DEF CInv, TypeOK, NoEcho, SentLater
  <2>2. QED
    BY <1>2, <1>6, <2>1 DEF CInv
<1>8. CASE /\ last_clipboard' = Head(ui).text
           /\ sent' = [Head(ui) EXCEPT !.type = "data"]
  <2>1. sent' \in Sent /\ sent'.by = Head(ui).by /\ Head(ui).text \in Texts
    BY <1>3, <1>8 DEF Sent
  <2>2. TypeOK'
    BY <1>2, <1>5, <1>8, <2>1 DEF CInv, TypeOK
  <2>3. NoEcho' /\ SentLater'
    BY <1>4, <1>5, <2>1 DEF NoEcho, SentLater, Reportable
  <2>4. QED
    BY <1>2, <1>6, <2>2, <2>3 DEF CInv
<1>9. QED
  BY <1>7, <1>8 DEF ProcessChanged

\* The other packets touch neither the clipboard nor the texts to set.
LEMMA OtherPacketCInv ==
    ASSUME CInv,
           \/ ProcessBareToken \/ SetEnabled
           \/ \E b \in BOOLEAN : ProcessRequest(b)
    PROVE  CInv'
<1>1. ui # <<>> /\ ui' = Tail(ui) /\ UNCHANGED <<thread, seeded>>
  BY DEF ProcessBareToken, SetEnabled, ProcessRequest, Takes
<1>2. ReportsLocal' /\ ui' \in Seq(Packet) /\ Head(ui) \in Packet
  BY <1>1, TailReports DEF CInv, TypeOK
<1>3. UNCHANGED <<os, thread, last, seeded, set_rx, last_clipboard, newest>>
  BY DEF ProcessBareToken, SetEnabled, ProcessRequest
<1>4. enabled' \in BOOLEAN /\ requested' \in BOOLEAN
  BY DEF CInv, TypeOK, ProcessBareToken, SetEnabled, ProcessRequest
<1>5. sent' \in Sent /\ (sent' = sent \/ sent'.type # "data")
  BY DEF CInv, TypeOK, ProcessBareToken, SetEnabled, ProcessRequest, Sent, Origins
<1>6. TypeOK'
  BY <1>2, <1>3, <1>4, <1>5 DEF CInv, TypeOK
<1>7. Remembered' /\ SentLater' /\ NoEcho' /\ NewestKept'
  BY <1>3, <1>5 DEF CInv, Remembered, SentLater, Reportable, NoEcho, NewestKept
<1>8. QED
  BY <1>2, <1>6, <1>7 DEF CInv

-----------------------------------------------------------------------------
(* The user and the server *)

\* A local copy is the user's.
LEMMA LocalCopyCInv == ASSUME CInv, NEW t \in Texts, LocalCopy(t) PROVE CInv'
<1>1. TypeOK'
  BY DEF CInv, TypeOK, LocalCopy, uivars, Content, Origins
<1>2. Remembered' /\ ReportsLocal' /\ SentLater' /\ NoEcho' /\ NewestKept'
  BY DEF CInv, LocalCopy, uivars, Remembered, ReportsLocal, SentLater, Reportable, NoEcho,
     NewestKept
<1>3. QED
  BY <1>1, <1>2 DEF CInv

\* The server sends no report.
LEMMA ServerSendsCInv ==
    ASSUME CInv, NEW p \in ServerPackets, ServerSends(p)
    PROVE  CInv'
<1>1. p \in Packet /\ p.type # "changed"
  BY DEF ServerPackets
<1>2. ui' = Append(ui, p) /\ UNCHANGED <<thread, seeded>>
  BY DEF ServerSends
<1>3. ReportsLocal' /\ ui' \in Seq(Packet)
  BY <1>1, <1>2, AppendReports DEF CInv, TypeOK
<1>4. requested' \in BOOLEAN
  BY Zenon DEF ServerSends, CInv, TypeOK
<1>5. UNCHANGED <<os, thread, last, seeded, set_rx, newest, last_clipboard, enabled, sent>>
  BY DEF ServerSends, uivars
<1>6. TypeOK'
  BY <1>3, <1>4, <1>5 DEF CInv, TypeOK
<1>7. Remembered' /\ SentLater' /\ NoEcho' /\ NewestKept'
  BY <1>5 DEF CInv, Remembered, SentLater, Reportable, NoEcho, NewestKept
<1>8. QED
  BY <1>3, <1>6, <1>7 DEF CInv

\* Every step keeps the invariant.
LEMMA NextCInv == CInv /\ [Next]_vars => CInv'
<1> SUFFICES ASSUME CInv, [Next]_vars PROVE CInv'
  OBVIOUS
<1>1. CASE UNCHANGED vars
  <2>1. UNCHANGED <<os, thread, last, seeded, set_rx, ui, last_clipboard, enabled,
                    requested, sent, newest>>
    BY <1>1 DEF vars
  <2>2. QED
    BY <2>1 DEF CInv, TypeOK, Remembered, ReportsLocal, SentLater, Reportable, NoEcho, NewestKept
<1>2. CASE Next
  BY <1>2, NoClipboardCInv, SeedCInv, SetClipboardCInv, PollCInv, ProcessTextCInv,
     ProcessChangedCInv, OtherPacketCInv, LocalCopyCInv, ServerSendsCInv DEF Next
<1>3. QED
  BY <1>1, <1>2

\* The invariant holds in every reachable state.
LEMMA SpecCInv == Spec => []CInv
  BY InitCInv, NextCInv, PTL DEF Spec

-----------------------------------------------------------------------------
(* Theorems *)

\* The state of both threads is well typed in every reachable state.
THEOREM ClipboardTypeCorrect == Spec => []TypeOK
<1>1. CInv => TypeOK
  BY DEF CInv
<1>2. QED
  BY <1>1, SpecCInv, PTL

\* Nothing that the server sent is ever sent back to it, nor what was on the clipboard before the
\* session when the thread could read that as it started: the two `last` guards break the
\* feedback loop for every interleaving and any number of texts.
THEOREM NoEchoCorrect == Spec => []NoEcho
<1>1. CInv => NoEcho
  BY DEF CInv
<1>2. QED
  BY <1>1, SpecCInv, PTL

\* Once the clipboard thread has caught up, the newest remote text is on the clipboard, unless
\* the user copied another since or the clipboard refused it.
THEOREM NewestWinsCorrect == Spec => []NewestWins
<1>1. CInv => NewestWins
  BY DEF CInv, NewestKept, NewestWins
<1>2. QED
  BY <1>1, SpecCInv, PTL
=============================================================================
