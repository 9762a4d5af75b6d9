------------------------------ MODULE MCLists ------------------------------
(***************************************************************************)
(* Two lists of either kind, of up to three elements in arrays of up to    *)
(* four: full, shifted by several places, grown once, copied and moved.    *)
(***************************************************************************)
EXTENDS Lists, TLC

\* Two states that differ in the last call only have the same future.
Future == <<kind, list, broken>>

Symmetric == Permutations(Value) \cup Permutations(Name)
=============================================================================
