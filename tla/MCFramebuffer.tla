--------------------------- MODULE MCFramebuffer ---------------------------
(* An instance of Framebuffer. *)
EXTENDS Framebuffer
SomeSizes == {<<0, 0>>, <<2, 3>>, <<3, 2>>}
SomeRects == {<<-1, -1, 3, 3>>}
=============================================================================
