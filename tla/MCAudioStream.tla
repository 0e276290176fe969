--------------------------- MODULE MCAudioStream ---------------------------
(* AudioStream on a small instance: the packets the server sends. *)
EXTENDS AudioStream

Plain == [sos |-> FALSE, eos |-> FALSE, codec |-> "opus", stream_codec |-> "opus",
          head |-> "none", data |-> TRUE]

\* streams that start with and without their header, payloads, a late header, a bad one,
\* ends, and two ways to change the codec
MCShapes ==
    {[Plain EXCEPT !.sos = TRUE, !.head = "good"], [Plain EXCEPT !.sos = TRUE, !.data = FALSE],
     [Plain EXCEPT !.sos = TRUE, !.stream_codec = "other"], Plain,
     [Plain EXCEPT !.head = "good", !.data = FALSE], [Plain EXCEPT !.head = "bad"],
     [Plain EXCEPT !.eos = TRUE], [Plain EXCEPT !.codec = "other"]}
=============================================================================
