---------------------------- MODULE MCStableList ----------------------------
(* StableList on a small instance: see MCStableList.cfg.                    *)
EXTENDS StableList, TLC

Elements == Permutations(Value)
=============================================================================
