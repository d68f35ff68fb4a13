------------------------------- MODULE MCChat -------------------------------
(* Three clients, two of one name, a table for two and buffers of two units; *)
(* a line of one unit, one that just fits a buffer, and a longer one.        *)
EXTENDS Chat

CONSTANTS c1, c2, c3, ann, bob

MCNameOf == (c1 :> ann) @@ (c2 :> bob) @@ (c3 :> bob)

MCLines == {[to |-> ann, len |-> 1], [to |-> bob, len |-> 2], [to |-> All, len |-> 3]}

\* The clients of one name.
MCSymmetry == Permutations({c2, c3})
=============================================================================
