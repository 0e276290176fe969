-------------------------- MODULE MCWindowRegistry --------------------------
(* WindowRegistry on a small instance. *)
EXTENDS WindowRegistry, TLC

NoUpdate == [decorations |-> "absent", above |-> "absent", below |-> "absent",
             fixed |-> "absent"]

\* level flags set and cleared, together and one at a time; frame and size flags
MCUpdates ==
    {NoUpdate,
     [NoUpdate EXCEPT !.above = "yes"], [NoUpdate EXCEPT !.above = "no"],
     [NoUpdate EXCEPT !.below = "yes"], [NoUpdate EXCEPT !.below = "no"],
     [NoUpdate EXCEPT !.above = "yes", !.below = "yes"],
     [NoUpdate EXCEPT !.decorations = "no"],
     [NoUpdate EXCEPT !.decorations = "yes", !.fixed = "no"]}

Symmetry == Permutations(Wids) \cup Permutations(Ids)
=============================================================================
