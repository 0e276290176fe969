---------------------------- MODULE MCTransport ----------------------------
(* Transport on a small instance: the parts the server sends. *)
EXTENDS Transport

\* main packets, a chunk for one field, one for another that is dropped, one out of range
MCSends ==
    {<<0, "plain">>, <<0, "unsupported">>, <<1, "plain">>, <<2, "unsupported">>, <<3, "plain">>}
=============================================================================
