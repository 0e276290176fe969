----------------------------- MODULE MCPlayout -----------------------------
(* An instance of Playout. *)
EXTENDS Playout
PacketSizes == {1, 3}
=============================================================================
