--------------------------- MODULE SessionProofs ---------------------------
(***************************************************************************)
(* The exit status and the password prompts of Session, for every set of   *)
(* password sources and any number of challenges and queued packets.       *)
(*                                                                         *)
(* OnePromptPerChallenge is inductive once the state is well typed; what   *)
(* takes proving is how handlers change the number of packets of a type    *)
(* that are queued, which the first lemmas are about.                      *)
(***************************************************************************)
EXTENDS Session, FiniteSetTheorems, SequenceTheorems, TLAPS

\* Neither a write nor a quit replaces an exit status that is already decided.
LEMMA DecidedStays ==
    ASSUME exit_code # "none"
    PROVE  /\ \A ok \in BOOLEAN : WriteCode(ok) = exit_code
           /\ \A code : Quit(exit_code, code) => exit_code' = exit_code
           /\ \A ok \in BOOLEAN : \A code :
                 Quit(WriteCode(ok), code) => exit_code' = exit_code
<1>1. \A ok \in BOOLEAN : WriteCode(ok) = exit_code
  BY DEF WriteCode, Fails
<1>2. QED
  BY <1>1 DEF Quit, QuitCode

\* No handler of a queued packet replaces it.
LEMMA UserEventDecided ==
    ASSUME exit_code # "none", UserEvent
    PROVE  exit_code' = exit_code
<1>1. CASE ProcessHello \/ StartupComplete
  BY <1>1, DecidedStays DEF ProcessHello, StartupComplete
<1>2. CASE \/ IgnoreChallenge \/ RejectChallenge \/ AskPinentry \/ ChallengeCancel
  BY <1>2, DecidedStays
     DEF IgnoreChallenge, RejectChallenge, AskPinentry, ChallengeCancel
<1>3. ASSUME NEW ok \in BOOLEAN, AnswerAtOnce(ok) \/ ChallengePassword(ok)
      PROVE  exit_code' = exit_code
  BY <1>3, DecidedStays DEF AnswerAtOnce, ChallengePassword, AnswerChallenge
<1>4. ASSUME NEW opened \in BOOLEAN,
             AskDialog(opened) \/ ChallengeFallbackDialog(opened)
      PROVE  exit_code' = exit_code
  BY <1>4, DecidedStays DEF AskDialog, ChallengeFallbackDialog, ShowAuthDialog
<1>5. ASSUME NEW ok \in BOOLEAN, NEW t \in {"send-ping", "send-log"},
             SendQueued(t, ok)
      PROVE  exit_code' = exit_code
  BY <1>5, DecidedStays DEF SendQueued
<1>6. CASE ProcessDisconnect \/ ConnectionLost \/ InvalidPacket
  BY <1>6, DecidedStays DEF ProcessDisconnect, ConnectionLost, InvalidPacket
<1>7. ASSUME NEW ok \in BOOLEAN, TrayExit(ok)
      PROVE  exit_code' = exit_code
  BY <1>7, DecidedStays DEF TrayExit
<1>8. QED
  BY <1>1, <1>2, <1>3, <1>4, <1>5, <1>6, <1>7 DEF UserEvent

\* Nor does anything else the UI thread does; no other thread writes it.
LEMMA NextDecided ==
    ASSUME Next, exit_code # "none"
    PROVE  exit_code' = exit_code
<1>1. ASSUME NEW ok \in BOOLEAN, Resumed(ok) PROVE exit_code' = exit_code
  BY <1>1, DecidedStays DEF Resumed
<1>2. CASE UserEvent
  BY <1>2, UserEventDecided
<1>3. ASSUME NEW ok \in BOOLEAN, DialogSubmit(ok) \/ UserInput(ok)
      PROVE  exit_code' = exit_code
  BY <1>3, DecidedStays DEF DialogSubmit, UserInput, AnswerChallenge
<1>4. CASE DialogCancel \/ TrayMenuExit \/ PingTick \/ LoopEnds
  BY <1>4, DecidedStays DEF DialogCancel, TrayMenuExit, PingTick, LoopEnds
<1>5. CASE \/ \E t \in {"challenge-password", "challenge-cancel",
                        "challenge-fallback-dialog"} : PinentryResult(t)
           \/ \E p \in ServerPackets : ReadPacket(p)
           \/ ReadInvalid \/ ReadError \/ ConnectionBreaks
  BY <1>5 DEF PinentryResult, ReadPacket, ReadInvalid, ReadError, ConnectionBreaks
<1>6. QED
  BY <1>1, <1>2, <1>3, <1>4, <1>5 DEF Next

\* The first cause of the end decides the exit status: once set it never changes, whatever
\* packets, failing writes and dialog events are still handled (quit, write_json).
THEOREM FirstCauseCorrect == Spec => FirstCauseWins
<1>1. [Next]_vars => [exit_code # "none" => exit_code' = exit_code]_vars
  BY NextDecided
<1>2. QED
  BY <1>1, PTL DEF Spec, FirstCauseWins

-----------------------------------------------------------------------------
(* Packets waiting in a queue *)

Packet == [type : Kinds, arg : Args]

Waiting(q, T) == {k \in 1..Len(q) : q[k].type \in T}
Count(q, T) == Cardinality(Waiting(q, T))

\* what handlers post: log records and the loss of the connection
Quiet == [type : {"send-log", "connection-lost"}, arg : {""}]

\* The packets of a type in a queue can be counted.
LEMMA WaitingFinite ==
    ASSUME NEW q \in Seq(Packet), NEW T
    PROVE  IsFiniteSet(Waiting(q, T)) /\ Count(q, T) \in Nat
<1>1. Waiting(q, T) \subseteq 1..Len(q) /\ Len(q) \in Nat
  BY DEF Waiting
<1>2. IsFiniteSet(1..Len(q))
  BY <1>1, FS_Interval
<1>3. QED
  BY <1>1, <1>2, FS_Subset, FS_CardinalityType DEF Count

\* The head taken off (user_event), one packet fewer waits, of the type of the head.
LEMMA CountTail ==
    ASSUME NEW q \in Seq(Packet), NEW T, q # <<>>
    PROVE  Count(Tail(q), T) = IF Head(q).type \in T THEN Count(q, T) - 1 ELSE Count(q, T)
<1> DEFINE S == Waiting(q, T) \ {1}
           f == [k \in Waiting(Tail(q), T) |-> k + 1]
<1>1. /\ Len(q) \in Nat \ {0} /\ Tail(q) \in Seq(Packet) /\ Len(Tail(q)) = Len(q) - 1
      /\ \A k \in 1..(Len(q) - 1) : Tail(q)[k] = q[k + 1]
      /\ Head(q) = q[1]
  BY EmptySeq
<1>2. IsFiniteSet(Waiting(q, T)) /\ IsFiniteSet(Waiting(Tail(q), T))
  BY <1>1, WaitingFinite
<1>3. \A k \in Waiting(Tail(q), T) : k \in Nat /\ k + 1 \in S
  BY <1>1 DEF Waiting
<1>4. \A k \in S : k - 1 \in Waiting(Tail(q), T) /\ (k - 1) + 1 = k
  <2>1. SUFFICES ASSUME NEW k \in S
                 PROVE  k - 1 \in Waiting(Tail(q), T) /\ (k - 1) + 1 = k
    OBVIOUS
  <2>2. k \in 1..Len(q) /\ k # 1 /\ q[k].type \in T
    BY DEF Waiting
  <2>3. k - 1 \in 1..(Len(q) - 1) /\ (k - 1) + 1 = k
    BY <1>1, <2>2
  <2>4. QED
    BY <1>1, <2>2, <2>3 DEF Waiting
<1>5. f \in Bijection(Waiting(Tail(q), T), S)
  <2>1. f \in [Waiting(Tail(q), T) -> S]
    BY <1>3
  <2>2. \A a, b \in Waiting(Tail(q), T) : f[a] = f[b] => a = b
    BY <1>3
  <2>3. \A k \in S : \E a \in Waiting(Tail(q), T) : f[a] = k
    BY <1>4
  <2>4. QED
    BY <2>1, <2>2, <2>3 DEF Bijection, Injection, Surjection, IsInjective
<1>6. Cardinality(S) = Count(Tail(q), T)
  BY <1>2, <1>5, FS_Bijection DEF ExistsBijection, Count
<1>7. 1 \in Waiting(q, T) <=> Head(q).type \in T
  BY <1>1 DEF Waiting
<1>8. QED
  BY <1>2, <1>6, <1>7, FS_RemoveElement DEF Count

\* What other packets are posted behind does not change the number of one type.
LEMMA CountQuiet ==
    ASSUME NEW q \in Seq(Packet), NEW s \in Seq(Packet), NEW T,
           \A k \in 1..Len(s) : s[k].type \notin T
    PROVE  q \o s \in Seq(Packet) /\ Count(q \o s, T) = Count(q, T)
<1>1. /\ q \o s \in Seq(Packet) /\ Len(q \o s) = Len(q) + Len(s)
      /\ Len(q) \in Nat /\ Len(s) \in Nat
      /\ \A k \in 1..Len(q) : (q \o s)[k] = q[k]
      /\ \A k \in (Len(q) + 1)..(Len(q) + Len(s)) : (q \o s)[k] = s[k - Len(q)]
  BY ConcatProperties
<1>2. ASSUME NEW k \in Waiting(q \o s, T) PROVE k \in Waiting(q, T)
  <2>1. k \in 1..(Len(q) + Len(s)) /\ (q \o s)[k].type \in T
    BY <1>1 DEF Waiting
  <2>2. CASE k \in 1..Len(q)
    BY <1>1, <2>1, <2>2 DEF Waiting
  <2>3. CASE k \notin 1..Len(q)
    <3>1. k \in (Len(q) + 1)..(Len(q) + Len(s)) /\ k - Len(q) \in 1..Len(s)
      BY <1>1, <2>1, <2>3
    <3>2. QED
      BY <1>1, <2>1, <3>1
  <2>4. QED
    BY <2>2, <2>3
<1>3. ASSUME NEW k \in Waiting(q, T) PROVE k \in Waiting(q \o s, T)
  BY <1>1 DEF Waiting
<1>4. Waiting(q \o s, T) = Waiting(q, T)
  BY <1>2, <1>3
<1>5. QED
  BY <1>1, <1>4 DEF Count

\* A packet posted is one more of its type.
LEMMA CountAppend ==
    ASSUME NEW q \in Seq(Packet), NEW p \in Packet, NEW T
    PROVE  /\ Append(q, p) \in Seq(Packet)
           /\ Count(Append(q, p), T) = IF p.type \in T THEN Count(q, T) + 1 ELSE Count(q, T)
<1>1. /\ Append(q, p) \in Seq(Packet) /\ Len(Append(q, p)) = Len(q) + 1 /\ Len(q) \in Nat
      /\ \A k \in 1..Len(q) : Append(q, p)[k] = q[k]
      /\ Append(q, p)[Len(q) + 1] = p
  OBVIOUS
<1>2. IsFiniteSet(Waiting(q, T)) /\ Len(q) + 1 \notin Waiting(q, T)
  <2>1. Len(q) + 1 \notin 1..Len(q)
    BY <1>1
  <2>2. QED
    BY <2>1, WaitingFinite DEF Waiting
<1>3. CASE p.type \in T
  <2>1. Waiting(Append(q, p), T) = Waiting(q, T) \cup {Len(q) + 1}
    BY <1>1, <1>3 DEF Waiting
  <2>2. QED
    BY <1>1, <1>2, <1>3, <2>1, FS_AddElement, ZenonT(40) DEF Count
<1>4. CASE p.type \notin T
  <2>1. Waiting(Append(q, p), T) = Waiting(q, T)
    BY <1>1, <1>4 DEF Waiting
  <2>2. QED
    BY <1>1, <1>4, <2>1 DEF Count
<1>5. QED
  BY <1>3, <1>4

\* the answers of a pinentry worker on their way
Asked == Count(ui, PromptResults)

\* What handlers log, or post when a write fails, is no answer to a prompt.
LEMMA QuietPosts ==
    /\ Log \in Seq(Quiet) /\ <<>> \in Seq(Quiet) /\ <<P("send-log")>> \in Seq(Quiet)
    /\ \A ok : /\ WritePosts(ok) \in Seq(Quiet) /\ Log \o WritePosts(ok) \in Seq(Quiet)
               /\ AnswerPosts(ok) \in Seq(Quiet)
<1>1. P("send-log") \in Quiet /\ P("connection-lost") \in Quiet
  BY DEF P, Quiet
<1>2. /\ <<>> \in Seq(Quiet) /\ <<P("send-log")>> \in Seq(Quiet)
      /\ <<P("connection-lost")>> \in Seq(Quiet)
  BY <1>1
<1>3. Log \in Seq(Quiet)
  BY <1>2 DEF Log
<1>4. ASSUME NEW ok PROVE WritePosts(ok) \in Seq(Quiet)
  <2>1. Log \o <<P("connection-lost")>> \in Seq(Quiet)
    BY <1>2, <1>3, ConcatProperties
  <2>2. QED
    BY <1>2, <2>1 DEF WritePosts
<1>5. ASSUME NEW ok PROVE Log \o WritePosts(ok) \in Seq(Quiet)
  BY <1>3, <1>4, ConcatProperties
<1>6. ASSUME NEW ok PROVE AnswerPosts(ok) \in Seq(Quiet)
  BY <1>3, <1>4 DEF AnswerPosts
<1>7. QED
  BY <1>2, <1>3, <1>4, <1>5, <1>6

\* Posting log records and losses of the connection leaves the answers queued as they are.
LEMMA QuietAppend ==
    ASSUME NEW q \in Seq(Packet), NEW s \in Seq(Quiet)
    PROVE  q \o s \in Seq(Packet) /\ Count(q \o s, PromptResults) = Count(q, PromptResults)
<1>1. Quiet \subseteq Packet
  BY DEF Quiet, Packet, Kinds, Args
<1>2. s \in Seq(Packet)
  BY <1>1, SeqMonotonic
<1>3. ASSUME NEW k \in 1..Len(s) PROVE s[k].type \notin PromptResults
  <2>1. s[k] \in Quiet
    BY ElementOfSeq
  <2>2. QED
    BY <2>1 DEF Quiet, PromptResults
<1>4. QED
  BY <1>2, <1>3, CountQuiet

\* Every packet is handled by one handler, which takes it and posts nothing but log records
\* and the loss of the connection (user_event).
LEMMA UserEventQueue ==
    ASSUME TypeOK, UserEvent
    PROVE  /\ ui # <<>> /\ ui' \in Seq(Packet)
           /\ Asked' = IF Head(ui).type \in PromptResults THEN Asked - 1 ELSE Asked
<1>1. ui # <<>>
  BY DEF UserEvent, Takes, FreshChallenge, ProcessHello, StartupComplete, IgnoreChallenge,
         RejectChallenge, AskPinentry, ChallengeCancel, AnswerAtOnce, ChallengePassword,
         AskDialog, ChallengeFallbackDialog, SendQueued, ProcessDisconnect,
         ConnectionLost, InvalidPacket, TrayExit
<1>2. \E posts \in Seq(Quiet) : Posting(posts)
  <2>1. CASE ProcessHello \/ StartupComplete
    BY <2>1, QuietPosts DEF ProcessHello, StartupComplete
  <2>2. CASE IgnoreChallenge \/ RejectChallenge \/ AskPinentry \/ ChallengeCancel
    BY <2>2, QuietPosts DEF IgnoreChallenge, RejectChallenge, AskPinentry, ChallengeCancel
  <2>3. ASSUME NEW ok \in BOOLEAN, AnswerAtOnce(ok) \/ ChallengePassword(ok) \/ TrayExit(ok)
        PROVE  \E posts \in Seq(Quiet) : Posting(posts)
    BY <2>3, QuietPosts DEF AnswerAtOnce, ChallengePassword, TrayExit
  <2>4. ASSUME NEW opened \in BOOLEAN, AskDialog(opened) \/ ChallengeFallbackDialog(opened)
        PROVE  \E posts \in Seq(Quiet) : Posting(posts)
    BY <2>4, QuietPosts DEF AskDialog, ChallengeFallbackDialog
  <2>5. ASSUME NEW ok \in BOOLEAN, NEW t \in {"send-ping", "send-log"}, SendQueued(t, ok)
        PROVE  \E posts \in Seq(Quiet) : Posting(posts)
    BY <2>5, QuietPosts DEF SendQueued
  <2>6. CASE ProcessDisconnect \/ ConnectionLost \/ InvalidPacket
    BY <2>6, QuietPosts DEF ProcessDisconnect, ConnectionLost, InvalidPacket
  <2>7. QED
    BY <2>1, <2>2, <2>3, <2>4, <2>5, <2>6 DEF UserEvent
<1>3. PICK posts \in Seq(Quiet) : ui' = Tail(ui) \o posts
  BY <1>2 DEF Posting
<1>4. ui \in Seq(Packet) /\ Tail(ui) \in Seq(Packet)
  BY <1>1 DEF TypeOK, Packet
<1>5. ui' \in Seq(Packet) /\ Asked' = Count(Tail(ui), PromptResults)
  BY <1>3, <1>4, QuietAppend DEF Asked
<1>6. QED
  BY <1>1, <1>4, <1>5, CountTail DEF Asked

\* So do the events of the password dialog and of windows.
LEMMA WindowEventQueue ==
    ASSUME TypeOK,
           \/ \E ok \in BOOLEAN : Resumed(ok) \/ DialogSubmit(ok) \/ UserInput(ok)
           \/ DialogCancel
    PROVE  ui' \in Seq(Packet) /\ Asked' = Asked
<1>1. PICK posts \in Seq(Quiet) : ui' = ui \o posts
  BY QuietPosts DEF Resumed, DialogSubmit, UserInput, DialogCancel
<1>2. ui \in Seq(Packet)
  BY DEF TypeOK, Packet
<1>3. QED
  BY <1>1, <1>2, QuietAppend DEF Asked

\* The reader, the ping thread and the tray post packets that answer no prompt.
LEMMA ThreadQueue ==
    ASSUME TypeOK,
           \/ TrayMenuExit \/ PingTick \/ ReadInvalid \/ ReadError
           \/ \E p \in ServerPackets : ReadPacket(p)
    PROVE  ui' \in Seq(Packet) /\ Asked' = Asked
<1>1. ui \in Seq(Packet)
  BY DEF TypeOK, Packet
<1>2. PICK p \in Packet : ui' = Append(ui, p) /\ p.type \notin PromptResults
  <2>1. CASE TrayMenuExit \/ PingTick \/ ReadInvalid \/ ReadError
    <3>1. /\ P("tray-exit") \in Packet /\ P("send-ping") \in Packet
          /\ P("invalid-packet") \in Packet /\ P("connection-lost") \in Packet
      BY DEF P, Packet, Kinds, Args
    <3>2. \E t \in {"tray-exit", "send-ping", "invalid-packet", "connection-lost"} :
             ui' = Append(ui, P(t))
      BY <2>1 DEF TrayMenuExit, PingTick, ReadInvalid, ReadError
    <3>3. QED
      BY <3>1, <3>2 DEF P, PromptResults
  <2>2. CASE \E p \in ServerPackets : ReadPacket(p)
    <3>1. PICK p \in ServerPackets : ui' = Append(ui, p)
      BY <2>2 DEF ReadPacket
    <3>2. p \in Packet /\ p.type \notin PromptResults
      <4>1. CASE p \in [type : {"challenge"}, arg : {"good", "bad"}]
        BY <4>1 DEF Packet, Kinds, Args, PromptResults
      <4>2. CASE p \in [type : {"hello"}, arg : {"plain", "logs", "bad-token"}]
        BY <4>2 DEF Packet, Kinds, Args, PromptResults
      <4>3. CASE p \in [type : {"disconnect"}, arg : {"plain", "auth", "error"}]
        BY <4>3 DEF Packet, Kinds, Args, PromptResults
      <4>4. CASE p = P("startup-complete")
        BY <4>4 DEF P, Packet, Kinds, Args, PromptResults
      <4>5. QED
        BY <4>1, <4>2, <4>3, <4>4 DEF ServerPackets
    <3>3. QED
      BY <3>1, <3>2
  <2>3. QED
    BY <2>1, <2>2
<1>3. QED
  BY <1>1, <1>2, CountAppend DEF Asked

\* The worker that asked the user posts one answer.
LEMMA PinentryQueue ==
    ASSUME TypeOK, NEW t \in PromptResults, PinentryResult(t)
    PROVE  ui' \in Seq(Packet) /\ Asked' = Asked + 1
<1>1. PICK posts \in Seq(Quiet) : ui' = (ui \o posts) \o <<P(t)>>
  BY QuietPosts DEF PinentryResult
<1>2. ui \in Seq(Packet) /\ P(t) \in Packet /\ P(t).type = t
  BY DEF TypeOK, Packet, P, PromptResults, Kinds, Args
<1>3. ui \o posts \in Seq(Packet) /\ Count(ui \o posts, PromptResults) = Asked
  BY <1>2, QuietAppend DEF Asked
<1>4. ui' = Append(ui \o posts, P(t))
  BY <1>1, <1>2, <1>3
<1>5. /\ Append(ui \o posts, P(t)) \in Seq(Packet)
      /\ Count(Append(ui \o posts, P(t)), PromptResults) = Asked + 1
  BY <1>2, <1>3, CountAppend, ZenonT(40)
<1>6. QED
  BY <1>4, <1>5 DEF Asked

-----------------------------------------------------------------------------
(* Types *)

\* Every exit status is one of ExitCode.
LEMMA CodeTypes ==
    ASSUME exit_code \in Codes \cup {"none"}
    PROVE  /\ ConnectionLostCode \in Codes
           /\ \A ok : WriteCode(ok) \in Codes \cup {"none"}
           /\ \A before \in Codes \cup {"none"}, code \in Codes :
                 QuitCode(before, code) \in Codes
           /\ \A reason : DisconnectCode(reason) \in Codes
<1>1. ConnectionLostCode \in Codes
  BY DEF ConnectionLostCode, Codes
<1>2. \A ok : WriteCode(ok) \in Codes \cup {"none"}
  BY <1>1 DEF WriteCode
<1>3. \A before \in Codes \cup {"none"}, code \in Codes : QuitCode(before, code) \in Codes
  BY DEF QuitCode
<1>4. \A reason : DisconnectCode(reason) \in Codes
  BY DEF DisconnectCode, Codes
<1>5. QED
  BY <1>1, <1>2, <1>3, <1>4

\* The state besides the queue.
StateOk ==
    /\ exit_code \in Codes \cup {"none"}
    /\ startup_complete \in BOOLEAN /\ pending_challenge \in BOOLEAN
    /\ auth_dialog \in BOOLEAN /\ log_sink \in BOOLEAN
    /\ loop \in {"new", "running", "exiting", "ended"}
    /\ reader \in {"new", "reading", "done"}
    /\ pinentry \in Nat
    /\ source \in Sources
    /\ link \in {"up", "broken"}
    /\ server \in {"waiting", "accepted", "up", "closed"}
    /\ hellos \in Nat /\ challenges \in Nat

\* A hello may be sent, a challenge answered.
LEMMA AnswerState ==
    ASSUME StateOk, NEW ok
    PROVE  /\ HelloSent(ok) => hellos' \in Nat
           /\ AnswerChallenge(ok) => /\ hellos' \in Nat /\ pending_challenge' = FALSE
                                     /\ exit_code' \in Codes \cup {"none"}
<1>1. HelloSent(ok) => hellos' \in Nat
  BY DEF HelloSent, StateOk
<1>2. WriteCode(ok) \in Codes \cup {"none"}
  BY CodeTypes DEF StateOk
<1>3. AnswerChallenge(ok) => hellos' \in Nat
  BY <1>1 DEF AnswerChallenge, StateOk
<1>4. AnswerChallenge(ok) => exit_code' \in Codes \cup {"none"}
  BY <1>2 DEF AnswerChallenge, StateOk
<1>5. AnswerChallenge(ok) => pending_challenge' = FALSE
  BY DEF AnswerChallenge
<1>6. QED
  BY <1>1, <1>3, <1>4, <1>5

\* Every handler of a packet (user_event) keeps the types.
LEMMA UserEventState == ASSUME StateOk, UserEvent PROVE StateOk'
<1>1. /\ ConnectionLostCode \in Codes
      /\ \A ok : WriteCode(ok) \in Codes \cup {"none"}
      /\ \A before \in Codes \cup {"none"}, code \in Codes : QuitCode(before, code) \in Codes
      /\ \A reason : DisconnectCode(reason) \in Codes
  BY CodeTypes DEF StateOk
<1>2. /\ "AuthenticationFailed" \in Codes /\ "MmapTokenFailure" \in Codes
      /\ "PacketFailure" \in Codes /\ "ConnectionFailed" \in Codes /\ "Ok" \in Codes
  BY DEF Codes
<1>3. CASE ProcessHello
  BY <1>1, <1>2, <1>3 DEF ProcessHello, Quit, StateOk, outside
<1>4. CASE StartupComplete \/ IgnoreChallenge
  BY <1>4, ZenonT(40) DEF StartupComplete, IgnoreChallenge, StateOk, outside
<1>5. CASE RejectChallenge \/ ChallengeCancel
  BY <1>1, <1>2, <1>5 DEF RejectChallenge, ChallengeCancel, Quit, StateOk, outside
<1>6. CASE AskPinentry
  BY <1>6 DEF AskPinentry, StateOk, outside
<1>7. ASSUME NEW ok \in BOOLEAN, AnswerAtOnce(ok) \/ ChallengePassword(ok) PROVE StateOk'
  BY <1>1, <1>7, AnswerState, ZenonT(40) DEF AnswerAtOnce, ChallengePassword, StateOk, outside
<1>8. ASSUME NEW opened \in BOOLEAN, AskDialog(opened) \/ ChallengeFallbackDialog(opened)
      PROVE  StateOk'
  BY <1>1, <1>2, <1>8, ZenonT(40)
     DEF AskDialog, ChallengeFallbackDialog, ShowAuthDialog, Quit, StateOk, outside
<1>9. ASSUME NEW ok \in BOOLEAN, NEW t \in {"send-ping", "send-log"}, SendQueued(t, ok)
      PROVE  StateOk'
  BY <1>1, <1>9 DEF SendQueued, StateOk, outside
<1>10. CASE ProcessDisconnect \/ ConnectionLost \/ InvalidPacket
  BY <1>1, <1>2, <1>10, ZenonT(40)
     DEF ProcessDisconnect, ConnectionLost, InvalidPacket, Quit, StateOk, outside
<1>11. ASSUME NEW ok \in BOOLEAN, TrayExit(ok) PROVE StateOk'
  BY <1>1, <1>2, <1>11 DEF TrayExit, Quit, StateOk, outside
<1>12. QED
  BY <1>3, <1>4, <1>5, <1>6, <1>7, <1>8, <1>9, <1>10, <1>11 DEF UserEvent

\* So does everything else that happens: windows, the other threads, the network.
LEMMA OtherState == ASSUME StateOk, Next, ~UserEvent PROVE StateOk'
<1>1. /\ \A ok : WriteCode(ok) \in Codes \cup {"none"}
      /\ \A before \in Codes \cup {"none"}, code \in Codes : QuitCode(before, code) \in Codes
  BY CodeTypes DEF StateOk
<1>2. ASSUME NEW ok \in BOOLEAN, Resumed(ok) PROVE StateOk'
  BY <1>1, <1>2 DEF Resumed, HelloSent, StateOk, outside
<1>3. ASSUME NEW ok \in BOOLEAN, DialogSubmit(ok) \/ UserInput(ok) PROVE StateOk'
  BY <1>1, <1>3, AnswerState, ZenonT(40) DEF DialogSubmit, UserInput, StateOk, outside
<1>4. CASE DialogCancel
  BY <1>1, <1>4 DEF DialogCancel, Quit, Codes, StateOk, outside
<1>5. CASE TrayMenuExit \/ PingTick \/ LoopEnds
  BY <1>5 DEF TrayMenuExit, PingTick, LoopEnds, StateOk, outside
<1>6. ASSUME NEW t \in PromptResults, PinentryResult(t) PROVE StateOk'
  BY <1>6 DEF PinentryResult, StateOk, outside
<1>7. ASSUME NEW p \in ServerPackets, ReadPacket(p) PROVE StateOk'
  BY <1>7 DEF ReadPacket, ServerSends, StateOk
<1>8. CASE ReadInvalid \/ ReadError \/ ConnectionBreaks
  BY <1>8 DEF ReadInvalid, ReadError, ConnectionBreaks, StateOk, outside
<1>9. QED
  BY <1>2, <1>3, <1>4, <1>5, <1>6, <1>7, <1>8 DEF Next, PromptResults

\* The queue besides: what each step leaves of the answers in it.
LEMMA NextQueue ==
    ASSUME TypeOK, Next
    PROVE  ui' \in Seq(Packet)
<1>1. CASE UserEvent
  BY <1>1, UserEventQueue
<1>2. CASE \/ \E ok \in BOOLEAN : Resumed(ok) \/ DialogSubmit(ok) \/ UserInput(ok)
           \/ DialogCancel
  BY <1>2, WindowEventQueue
<1>3. CASE \/ TrayMenuExit \/ PingTick \/ ReadInvalid \/ ReadError
           \/ \E p \in ServerPackets : ReadPacket(p)
  BY <1>3, ThreadQueue
<1>4. CASE \E t \in PromptResults : PinentryResult(t)
  BY <1>4, PinentryQueue
<1>5. CASE LoopEnds \/ ConnectionBreaks
  BY <1>5 DEF LoopEnds, ConnectionBreaks, TypeOK, Packet
<1>6. QED
  BY <1>1, <1>2, <1>3, <1>4, <1>5 DEF Next, PromptResults

\* Every packet posted to the user-event queue is one user_event knows, and every exit status
\* one of ExitCode.
THEOREM TypeCorrect == Spec => []TypeOK
<1>1. TypeOK <=> StateOk /\ ui \in Seq(Packet)
  BY DEF TypeOK, StateOk, Packet
<1>2. Init => TypeOK
  <2>1. Init => StateOk
    <3>1. SUFFICES ASSUME Init PROVE StateOk
      OBVIOUS
    <3>2. /\ exit_code = "none" /\ loop = "new" /\ reader = "new" /\ source \in Sources
          /\ link = "up" /\ server = "waiting"
      BY <3>1 DEF Init
    <3>3. pinentry = 0 /\ hellos = 0 /\ challenges = 0
      BY <3>1 DEF Init
    <3>4. /\ startup_complete = FALSE /\ pending_challenge = FALSE
          /\ auth_dialog = FALSE /\ log_sink = FALSE
      BY <3>1 DEF Init
    <3>5. QED
      BY <3>2, <3>3, <3>4 DEF StateOk
  <2>2. Init => ui \in Seq(Packet)
    BY EmptySeq DEF Init
  <2>3. QED
    BY <1>1, <2>1, <2>2
<1>3. TypeOK /\ [Next]_vars => TypeOK'
  <2>1. SUFFICES ASSUME TypeOK, [Next]_vars PROVE StateOk' /\ ui' \in Seq(Packet)
    BY DEF TypeOK, StateOk, Packet
  <2>2. CASE Next
    BY <1>1, <2>1, <2>2, NextQueue, UserEventState, OtherState
  <2>3. CASE UNCHANGED vars
    BY <1>1, <2>1, <2>3 DEF vars, StateOk
  <2>4. QED
    BY <2>1, <2>2, <2>3
<1>4. QED
  BY <1>2, <1>3, PTL DEF Spec

-----------------------------------------------------------------------------
(* The password prompts *)

\* who may still answer the challenge: nobody, the pinentry worker, its answer
\* in the queue, or the password dialog
Nobody == pinentry = 0 /\ Asked = 0 /\ ~auth_dialog
Worker == pinentry = 1 /\ Asked = 0 /\ ~auth_dialog
Answer == pinentry = 0 /\ Asked = 1 /\ ~auth_dialog
Dialog == pinentry = 0 /\ Asked = 0 /\ auth_dialog

PromptInv ==
    /\ Nobody \/ Worker \/ Answer \/ Dialog
    /\ pending_challenge \/ Nobody
    /\ pending_challenge /\ Nobody => exit_code # "none"

\* Where neither a prompt nor the challenge changes, who may answer stays the same.
LEMMA SamePrompt ==
    ASSUME PromptInv, UNCHANGED <<pinentry, auth_dialog, pending_challenge>>, Asked' = Asked,
           exit_code # "none" => exit_code' # "none"
    PROVE  PromptInv'
  BY DEF PromptInv, Nobody, Worker, Answer, Dialog

\* The handlers of packets: a challenge is taken up when there is nobody to answer one, an
\* answer takes the challenge with it or passes it on to the dialog.
LEMMA UserEventPrompt ==
    ASSUME TypeOK, PromptInv, UserEvent PROVE PromptInv'
<1>1. exit_code # "none" => exit_code' # "none"
  BY UserEventDecided
<1>2. /\ Asked' = IF Head(ui).type \in PromptResults THEN Asked - 1 ELSE Asked
      /\ auth_dialog \in BOOLEAN /\ pending_challenge \in BOOLEAN
  BY UserEventQueue DEF TypeOK
<1>3. ASSUME Head(ui).type \notin PromptResults,
             UNCHANGED <<pinentry, auth_dialog, pending_challenge>>
      PROVE  PromptInv'
  BY <1>1, <1>2, <1>3, SamePrompt
<1>4. CASE ProcessHello \/ StartupComplete \/ IgnoreChallenge \/ RejectChallenge
  <2>1. /\ Head(ui).type \notin PromptResults
        /\ UNCHANGED <<pinentry, auth_dialog, pending_challenge>>
    BY <1>4 DEF ProcessHello, StartupComplete, IgnoreChallenge, RejectChallenge,
                FreshChallenge, Takes, PromptResults
  <2>2. QED
    BY <1>3, <2>1
<1>5. CASE AskPinentry
  <2>1. /\ Head(ui).type \notin PromptResults /\ ~pending_challenge /\ ~auth_dialog
        /\ pending_challenge' = TRUE /\ pinentry' = pinentry + 1
        /\ auth_dialog' = auth_dialog
    BY <1>5 DEF AskPinentry, FreshChallenge, Takes, PromptResults
  <2>2. Nobody /\ Asked' = Asked
    BY <1>2, <2>1 DEF PromptInv
  <2>3. Worker'
    BY <2>1, <2>2 DEF Nobody, Worker
  <2>4. QED
    BY <2>1, <2>3 DEF PromptInv, Nobody, Worker
<1>6. ASSUME Head(ui).type \in PromptResults
      PROVE  Answer /\ pending_challenge /\ Asked' = 0
  <2>1. ui \in Seq(Packet) /\ ui # <<>>
    BY UserEventQueue DEF TypeOK, Packet
  <2>2. 1 \in Waiting(ui, PromptResults)
    BY <1>6, <2>1 DEF Waiting
  <2>3. Asked \in Nat \ {0}
    BY <2>1, <2>2, WaitingFinite, FS_EmptySet DEF Asked, Count
  <2>4. Answer /\ pending_challenge
    BY <2>3 DEF PromptInv, Nobody, Worker, Answer, Dialog
  <2>5. QED
    BY <1>2, <1>6, <2>4 DEF Answer
<1>7. CASE ChallengeCancel
  <2>1. /\ Head(ui).type \in PromptResults
        /\ auth_dialog' = FALSE /\ pending_challenge' = FALSE /\ pinentry' = pinentry
    BY <1>7 DEF ChallengeCancel, Takes, PromptResults
  <2>2. Nobody'
    BY <1>6, <2>1 DEF Nobody, Answer
  <2>3. QED
    BY <2>1, <2>2 DEF PromptInv
<1>8. ASSUME NEW ok \in BOOLEAN, ChallengePassword(ok)
      PROVE  PromptInv'
  <2>1. /\ Head(ui).type \in PromptResults
        /\ auth_dialog' = auth_dialog /\ pending_challenge' = FALSE /\ pinentry' = pinentry
    BY <1>8 DEF ChallengePassword, AnswerChallenge, Takes, PromptResults
  <2>2. Nobody'
    BY <1>6, <2>1 DEF Nobody, Answer
  <2>3. QED
    BY <2>1, <2>2 DEF PromptInv
<1>9. ASSUME NEW opened \in BOOLEAN, ShowAuthDialog(opened), pinentry' = 0, Asked' = 0,
             ~auth_dialog, pending_challenge'
      PROVE  PromptInv'
  <2>1. CASE opened
    <3>1. Dialog'
      BY <1>9, <2>1 DEF ShowAuthDialog, Dialog
    <3>2. QED
      BY <1>9, <3>1 DEF PromptInv, Nobody, Dialog
  <2>2. CASE ~opened
    <3>1. Nobody'
      BY <1>9, <2>2 DEF ShowAuthDialog, Nobody
    <3>2. exit_code' # "none"
      BY <1>9, <2>2 DEF ShowAuthDialog, Quit, QuitCode
    <3>3. QED
      BY <3>1, <3>2, <1>9 DEF PromptInv
  <2>3. QED
    BY <2>1, <2>2
<1>10. ASSUME NEW opened \in BOOLEAN, AskDialog(opened)
       PROVE  PromptInv'
  <2>1. /\ Head(ui).type \notin PromptResults /\ ~pending_challenge /\ ~auth_dialog
        /\ pending_challenge' = TRUE /\ pinentry' = pinentry /\ ShowAuthDialog(opened)
    BY <1>10 DEF AskDialog, FreshChallenge, Takes, PromptResults
  <2>2. Nobody /\ Asked' = Asked
    BY <1>2, <2>1 DEF PromptInv
  <2>3. QED
    BY <1>9, <2>1, <2>2 DEF Nobody
<1>11. ASSUME NEW opened \in BOOLEAN, ChallengeFallbackDialog(opened)
       PROVE  PromptInv'
  <2>1. /\ Head(ui).type \in PromptResults /\ pending_challenge' = pending_challenge
        /\ pinentry' = pinentry /\ ShowAuthDialog(opened)
    BY <1>11 DEF ChallengeFallbackDialog, Takes, PromptResults
  <2>2. QED
    BY <1>6, <1>9, <2>1 DEF Answer
<1>12. ASSUME NEW ok \in BOOLEAN, AnswerAtOnce(ok) \/ TrayExit(ok)
      PROVE  PromptInv'
  <2>1. /\ Head(ui).type \notin PromptResults
        /\ UNCHANGED <<pinentry, auth_dialog, pending_challenge>>
    BY <1>12 DEF AnswerAtOnce, TrayExit, FreshChallenge, Takes, PromptResults
  <2>2. QED
    BY <1>3, <2>1
<1>13. ASSUME NEW ok \in BOOLEAN, NEW t \in {"send-ping", "send-log"}, SendQueued(t, ok)
       PROVE  PromptInv'
  <2>1. /\ Head(ui).type \notin PromptResults
        /\ UNCHANGED <<pinentry, auth_dialog, pending_challenge>>
    BY <1>13 DEF SendQueued, Takes, PromptResults
  <2>2. QED
    BY <1>3, <2>1
<1>14. CASE ProcessDisconnect \/ ConnectionLost \/ InvalidPacket
  <2>1. /\ Head(ui).type \notin PromptResults
        /\ UNCHANGED <<pinentry, auth_dialog, pending_challenge>>
    BY <1>14 DEF ProcessDisconnect, ConnectionLost, InvalidPacket, Takes, PromptResults
  <2>2. QED
    BY <1>3, <2>1
<1>15. QED
  BY <1>4, <1>5, <1>7, <1>8, <1>10, <1>11, <1>12, <1>13, <1>14 DEF UserEvent

\* Outside the handlers of packets, only the dialog's own events and the end of the worker
\* change who may answer.
LEMMA OtherPrompt ==
    ASSUME TypeOK, PromptInv, Next, ~UserEvent PROVE PromptInv'
<1>1. exit_code # "none" => exit_code' # "none"
  BY NextDecided
<1>2. ASSUME NEW ok \in BOOLEAN, Resumed(ok) \/ UserInput(ok) PROVE PromptInv'
  <2>1. UNCHANGED <<pinentry, auth_dialog, pending_challenge>>
    BY <1>2 DEF Resumed, UserInput
  <2>2. QED
    BY <1>1, <1>2, <2>1, WindowEventQueue, SamePrompt
<1>3. CASE \/ TrayMenuExit \/ PingTick \/ ReadInvalid \/ ReadError
           \/ \E p \in ServerPackets : ReadPacket(p)
  <2>1. UNCHANGED <<pinentry, auth_dialog, pending_challenge>>
    BY <1>3 DEF TrayMenuExit, PingTick, ReadInvalid, ReadError, ReadPacket
  <2>2. QED
    BY <1>1, <1>3, <2>1, ThreadQueue, SamePrompt
<1>4. CASE LoopEnds \/ ConnectionBreaks
  <2>1. UNCHANGED <<pinentry, auth_dialog, pending_challenge>> /\ Asked' = Asked
    BY <1>4 DEF LoopEnds, ConnectionBreaks, Asked
  <2>2. QED
    BY <1>1, <2>1, SamePrompt
<1>5. ASSUME NEW ok \in BOOLEAN, DialogSubmit(ok) \/ DialogCancel PROVE PromptInv'
  <2>1. /\ auth_dialog /\ auth_dialog' = FALSE
        /\ pending_challenge' = FALSE /\ pinentry' = pinentry
    BY <1>5 DEF DialogSubmit, DialogCancel, AnswerChallenge
  <2>2. Dialog /\ Asked' = Asked
    BY <1>5, <2>1, WindowEventQueue DEF PromptInv, Nobody, Worker, Answer, Dialog
  <2>3. Nobody'
    BY <2>1, <2>2 DEF Nobody, Dialog
  <2>4. QED
    BY <2>1, <2>3 DEF PromptInv
<1>6. ASSUME NEW t \in PromptResults, PinentryResult(t) PROVE PromptInv'
  <2>1. /\ pinentry > 0 /\ pinentry' = pinentry - 1 /\ Asked' = Asked + 1
        /\ auth_dialog' = auth_dialog /\ pending_challenge' = pending_challenge
    BY <1>6, PinentryQueue DEF PinentryResult
  <2>2. Worker /\ pending_challenge
    BY <2>1 DEF PromptInv, Nobody, Worker, Answer, Dialog
  <2>3. Answer'
    BY <2>1, <2>2 DEF Answer, Worker
  <2>4. ~Nobody'
    BY <2>3 DEF Nobody, Answer
  <2>5. pending_challenge'
    BY <2>1, <2>2
  <2>6. QED
    BY <2>3, <2>4, <2>5 DEF PromptInv
<1>7. QED
  BY <1>2, <1>3, <1>4, <1>5, <1>6 DEF Next, PromptResults

\* The prompts are counted as the property counts them.
LEMMA PromptsCounted ==
    ASSUME TypeOK, PromptInv PROVE OnePromptPerChallenge
<1>1. Cardinality(Queued(PromptResults)) = Asked
  BY DEF Queued, Asked, Count, Waiting
<1>2. Prompts = pinentry + Asked + (IF auth_dialog THEN 1 ELSE 0)
  BY <1>1 DEF Prompts
<1>3. CASE Nobody
  <2>1. Prompts = 0
    BY <1>2, <1>3 DEF Nobody
  <2>2. QED
    BY <1>3, <2>1 DEF PromptInv, OnePromptPerChallenge
<1>4. CASE Worker \/ Answer \/ Dialog
  <2>1. Prompts = 1
    <3>1. CASE Worker
      BY <1>2, <3>1 DEF Worker
    <3>2. CASE Answer
      BY <1>2, <3>2 DEF Answer
    <3>3. CASE Dialog
      BY <1>2, <3>3 DEF Dialog
    <3>4. QED
      BY <1>4, <3>1, <3>2, <3>3
  <2>2. pending_challenge
    BY <1>4 DEF PromptInv, Nobody, Worker, Answer, Dialog
  <2>3. QED
    BY <2>1, <2>2 DEF OnePromptPerChallenge
<1>5. QED
  BY <1>3, <1>4 DEF PromptInv

\* A challenge is pending as long as exactly one prompt may answer it: pinentry asking, its
\* answer on the way, or the password dialog (process_challenge, answer_challenge).
THEOREM OnePromptCorrect == Spec => []OnePromptPerChallenge
<1>1. Init => PromptInv
  <2>1. ASSUME Init PROVE Nobody /\ pending_challenge = FALSE
    <3>1. ui = <<>> /\ pinentry = 0 /\ auth_dialog = FALSE /\ pending_challenge = FALSE
      BY <2>1 DEF Init
    <3>2. Waiting(ui, PromptResults) = {}
      BY <3>1 DEF Waiting
    <3>3. QED
      BY <3>1, <3>2, FS_EmptySet DEF Nobody, Asked, Count
  <2>2. QED
    BY <2>1 DEF PromptInv
<1>2. TypeOK /\ PromptInv /\ [Next]_vars => PromptInv'
  <2>1. ASSUME TypeOK, PromptInv, [Next]_vars PROVE PromptInv'
    <3>1. CASE Next
      BY <2>1, <3>1, UserEventPrompt, OtherPrompt
    <3>2. CASE UNCHANGED vars
      BY <2>1, <3>2 DEF vars, PromptInv, Nobody, Worker, Answer, Dialog, Asked
    <3>3. QED
      BY <2>1, <3>1, <3>2
  <2>2. QED
    BY <2>1
<1>3. TypeOK /\ PromptInv => OnePromptPerChallenge
  BY PromptsCounted
<1>4. QED
  BY <1>1, <1>2, <1>3, TypeCorrect, PTL DEF Spec

-----------------------------------------------------------------------------
(* Forwarded log records *)

\* A packet taken with nothing posted behind it is one fewer of its type.
LEMMA LogTaken ==
    ASSUME TypeOK, NEW ok \in BOOLEAN, SendQueued("send-log", ok)
    PROVE  \/ Cardinality(Queued({"send-log"}))' < Cardinality(Queued({"send-log"}))
           \/ exit_code = "none" /\ exit_code' # "none"
<1>1. /\ ui \in Seq(Packet) /\ ui # <<>> /\ Head(ui).type = "send-log"
      /\ exit_code' = WriteCode(ok) /\ ui' = Tail(ui) \o WritePosts(ok)
  BY DEF TypeOK, Packet, SendQueued, Takes, Posting
<1>2. CASE Fails(ok)
  BY <1>1, <1>2 DEF WriteCode, Fails, ConnectionLostCode
<1>3. CASE ~Fails(ok)
  <2>1. Tail(ui) \in Seq(Packet)
    BY <1>1
  <2>2. ui' = Tail(ui)
    BY <1>1, <1>3, <2>1 DEF WritePosts
  <2>3. /\ Cardinality(Queued({"send-log"})) = Count(ui, {"send-log"})
        /\ Cardinality(Queued({"send-log"}))' = Count(Tail(ui), {"send-log"})
    BY <2>2 DEF Queued, Count, Waiting
  <2>4. Count(Tail(ui), {"send-log"}) = Count(ui, {"send-log"}) - 1
    BY <1>1, CountTail
  <2>5. Count(ui, {"send-log"}) \in Nat
    BY <1>1, WaitingFinite
  <2>6. QED
    BY <2>3, <2>4, <2>5
<1>4. QED
  BY <1>2, <1>3

\* Forwarding log records never feeds on itself, whatever happens to the connection
\* (send_log, write_json).
THEOREM LogsConsumedCorrect == Spec => LogsConsumed
<1>1. TypeOK /\ [Next]_vars
      => [(\E ok \in BOOLEAN : SendQueued("send-log", ok))
          => \/ Cardinality(Queued({"send-log"}))' < Cardinality(Queued({"send-log"}))
             \/ exit_code = "none" /\ exit_code' # "none"]_vars
  BY LogTaken
<1>2. QED
  BY <1>1, TypeCorrect, PTL DEF Spec, LogsConsumed
=============================================================================
