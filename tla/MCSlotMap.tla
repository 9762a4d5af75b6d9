----------------------------- MODULE MCSlotMap -----------------------------
(* SlotMap on a small instance: see MCSlotMap.cfg.                         *)
EXTENDS SlotMap, TLC

Elements == Permutations(Value)
=============================================================================
