--------------------------- MODULE MCDrawPipeline ---------------------------
(* DrawPipeline on a small instance. *)
EXTENDS DrawPipeline
=============================================================================
