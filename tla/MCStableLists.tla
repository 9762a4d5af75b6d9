--------------------------- MODULE MCStableLists ---------------------------
(***************************************************************************)
(* One list after another, of up to four elements, with a margin of two:   *)
(* blocks smaller than the margin, as large and larger all occur.          *)
(***************************************************************************)
EXTENDS StableLists, TLC

\* What the last call returned changes nothing of what follows.
Future == <<memBlock, header, corrupt, call>>

Elements == Permutations(Value)
=============================================================================
