------------------------------ MODULE Unicode ------------------------------
(***************************************************************************)
(* Texts are sequences of unicode values.  How a value is written in UTF-8 *)
(* is not the library's doing: string literals and files come so.          *)
(***************************************************************************)
EXTENDS Integers, Sequences, SequencesExt

Continuation(v, k) == 128 + ((v \div 64^k) % 64)

\* The code points (the library's word for the bytes) of a character.
Encoded(v) ==
  CASE v < 128   -> <<v>>
    [] v \in 128 .. 2047   -> <<192 + (v \div 64), Continuation(v, 0)>>
    [] v \in 2048 .. 65535 -> <<224 + (v \div 4096), Continuation(v, 1), Continuation(v, 0)>>
    [] OTHER -> <<240 + (v \div 262144), Continuation(v, 2), Continuation(v, 1), Continuation(v, 0)>>

EncodedText(text) == FoldLeft(LAMBDA s, v : s \o Encoded(v), << >>, text)

Width(text) == Len(EncodedText(text))
=============================================================================
