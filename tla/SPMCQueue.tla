------------------------------ MODULE SPMCQueue ------------------------------
(***************************************************************************)
(* queue/spmc_queue.inl: one producer, several consumers, and a producer   *)
(* that can hand over a whole block.                                       *)
(***************************************************************************)
EXTENDS BlockQueue

\* The block goes in front of the last one, and nothing counts its elements.
EnqueueBlock ==
  /\ enqueued + BlockSize <= MaxElements
  /\ LET full == [i \in 0 .. BlockSize - 1 |-> enqueued + 1 + i]
         moved == IF lastBlock \in DOMAIN GrownData
                  THEN WithBlock(GrownData, lastBlock + 1, GrownData[lastBlock])
                  ELSE GrownData
     IN  data' = WithBlock(moved, lastBlock, full)
  /\ capacity' = GrownCapacity
  /\ pc' = GrownPc
  /\ enqueued' = enqueued + BlockSize
  /\ derailed' = TRUE
  /\ UNCHANGED <<front, lastBlock, numBlocks, size, counters, claim, claimed, lost>>

SPMCNext == Shared \/ EnqueueBlock

SPMCSpec == Init /\ [][SPMCNext]_vars
SPMCFairSpec == SPMCSpec /\ Fairness
=============================================================================
