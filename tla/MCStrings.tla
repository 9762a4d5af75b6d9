----------------------------- MODULE MCStrings -----------------------------
(***************************************************************************)
(* Two strings of characters of one, two and three code points.            *)
(***************************************************************************)
EXTENDS Strings, TLC

MCLiteral == {<< >>, <<233, 97>>, <<8364>>}

\* Two states that differ in the last call only have the same future.
Future == <<string, broken>>

Symmetric == Permutations(Name)
=============================================================================
