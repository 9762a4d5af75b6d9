---------------------------- MODULE MCSPSCQueue ----------------------------
(***************************************************************************)
(* Two ring queues of up to four elements, so that each grows once and     *)
(* wraps at two capacities, and can be copied or moved to the other.       *)
(***************************************************************************)
EXTENDS SPSCQueue

Elements == Permutations(Value) \cup Permutations(Name)
=============================================================================
