--------------------------- MODULE MCFinitePQueue ---------------------------
(***************************************************************************)
(* Two priorities, four elements, two nodes in a block: one more block is  *)
(* allocated while nodes of the first are free, in use, or left behind as  *)
(* a tail.                                                                 *)
(***************************************************************************)
EXTENDS FinitePQueue

Elements == Permutations(Value)

\* Once derailed nothing is said of the queue, until it is cleared.
OnTheRails == ~derailed
=============================================================================
