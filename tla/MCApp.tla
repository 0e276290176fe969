------------------------------- MODULE MCApp -------------------------------
(* App on a small instance. *)
EXTENDS App
=============================================================================
