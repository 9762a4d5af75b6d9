------------------------------ MODULE MCKTree ------------------------------
(***************************************************************************)
(* Trees small enough to check and deep enough for the depth-first walk to *)
(* back up several levels at once: binary trees of up to four levels and   *)
(* ternary ones of three, with room for fifteen elements.  A fifth binary  *)
(* level does not fit in memory, a fifth ternary one not in size_t.        *)
(***************************************************************************)
EXTENDS KTrees, TLC

Elements == Permutations(Value)

\* Bound: a tree with more nodes in use is checked but not explored further.
FewInUse == Cardinality(active) <= 2
=============================================================================
