----------------------------- MODULE MCMmapRing -----------------------------
(* MmapRing on a small area. *)
EXTENDS MmapRing, TLC
=============================================================================
