------------------------------ MODULE DrawAcks ------------------------------
(***************************************************************************)
(* What the drawing path promises the server.  The server numbers its      *)
(* draw packets 1, 2, 3, ... and its damage bookkeeping advances on the    *)
(* acknowledgements, so each draw is acknowledged at most once, none is    *)
(* skipped, and the acknowledgements come in the order of the draws.       *)
(* Threads, queues, decoders and windows do not appear at this level.      *)
(***************************************************************************)
EXTENDS Naturals, Sequences

VARIABLES
    sent,     \* number of draws the server has sent
    acked     \* sequence numbers acknowledged, in the order of arrival

vars == <<sent, acked>>

Init == sent = 0 /\ acked = <<>>

Send == sent' = sent + 1 /\ UNCHANGED acked

Ack ==
    /\ Len(acked) < sent
    /\ acked' = Append(acked, Len(acked) + 1)
    /\ UNCHANGED sent

Next == Send \/ Ack

Spec == Init /\ [][Next]_vars
=============================================================================
