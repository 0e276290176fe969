---------------------------- MODULE MCClipboard ----------------------------
(* Clipboard on a small instance. *)
EXTENDS Clipboard, TLC

Symmetry == Permutations(Texts)
=============================================================================
