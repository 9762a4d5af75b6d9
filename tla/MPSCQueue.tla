------------------------------ MODULE MPSCQueue ------------------------------
(***************************************************************************)
(* queue/mpsc_queue.inl: several producers and one consumer.  An enqueue   *)
(* is one critical section whoever calls it, so the producers need no      *)
(* names.  dequeueBlock is left out: it assigns a pointer to a block, so   *)
(* no program that calls it compiles.                                      *)
(***************************************************************************)
EXTENDS BlockQueue

SingleConsumer == Cardinality(Consumer) = 1

Produce == Enqueue

Consume == DequeueEmpty \/ \E c \in Consumer : Dequeue(c)

Maintain == Front \/ Clear \/ ClearFails \/ \E n \in 1 .. MaxReserve : Reserve(n)

MPSCNext == Produce \/ Consume \/ Maintain

MPSCSpec == Init /\ [][MPSCNext]_vars
-----------------------------------------------------------------------------
(***************************************************************************)
(* README.md:24: whatever the producers do, the consumer reads memory that *)
(* is the queue's (a clear during the dequeue apart).                      *)
(***************************************************************************)
ReadsLiveArray ==
  [][\A c \in Consumer : ~derailed /\ Read(c) => pc[c] = "loaded"]_vars
=============================================================================
