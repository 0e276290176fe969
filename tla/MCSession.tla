------------------------------ MODULE MCSession ------------------------------
(* Session with every password source. *)
EXTENDS Session, TLC

AllSources == PasswordSources
=============================================================================
