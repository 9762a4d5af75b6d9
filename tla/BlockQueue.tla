----------------------------- MODULE BlockQueue -----------------------------
(***************************************************************************)
(* What queue/spmc_queue.inl and queue/mpsc_queue.inl have in common,      *)
(* which is all but one operation each: elements in blocks of BlockSize,   *)
(* an array of pointers to the blocks, one lock for the bookkeeping and a  *)
(* counting semaphore for the data.                                        *)
(*                                                                         *)
(* Everything done under m_controlBlockLock is one action.  dequeue claims *)
(* a place under the lock and then, without it, takes a counter, loads the *)
(* pointer to the array and reads: three more actions, between which other *)
(* threads run.                                                            *)
(*                                                                         *)
(* The n-th element enqueued is the number n.  data is a function of the   *)
(* array's indices that hold a pointer to a block; the others were never   *)
(* written.  derailed records that the layout has lost an element, by one  *)
(* of the events named where it is set.                                    *)
(***************************************************************************)
EXTENDS Integers, FiniteSets

CONSTANTS
  Consumer,         \* the threads that dequeue
  BlockSize,        \* elements in a block
  BaseAllocation,   \* sm_baseAllocation, 16 in the code
  MaxElements,      \* bound: how many elements are ever enqueued
  MaxReserve,       \* bound: the largest capacity asked for
  MayFail           \* whether an allocation can fail

ASSUME BlockQueueAssumption ==
  /\ IsFiniteSet(Consumer)
  /\ BlockSize \in Nat \ {0}
  /\ BaseAllocation \in Nat \ {0}
  /\ MaxElements \in Nat
  /\ MaxReserve \in Nat
  /\ MayFail \in BOOLEAN

VARIABLES
  data, frontBlockOffset, firstBlock, lastBlock, size, numBlocks, capacity,
  counters,     \* of the semaphore, those held included
  pc,           \* where each consumer is
  claim,        \* the place each consumer is to read, and what it is owed
  enqueued,     \* history: how many elements have been enqueued
  claimed,      \* history: how many have been handed out, or cleared
  lost,         \* history: a clear has freed the array and found no other
  derailed

front == <<frontBlockOffset, firstBlock>>
blocks == <<data, lastBlock, numBlocks, capacity>>
threads == <<pc, claim>>
history == <<enqueued, claimed, lost>>
vars == <<front, blocks, size, counters, threads, history, derailed>>

-----------------------------------------------------------------------------
NoClaim == [block |-> 0, offset |-> 0, ticket |-> 0]
NewBlock == [i \in 0 .. BlockSize - 1 |-> 0]
OneBlock == [b \in {0} |-> NewBlock]

Pending == {c \in Consumer : pc[c] # "idle"}
Holding == {c \in Consumer : pc[c] \in {"taken", "loaded", "freed"}}

\* Consumers between loading the array's address and reading through it.
Freed == [c \in Consumer |-> IF pc[c] = "loaded" THEN "freed" ELSE pc[c]]

Init == /\ data = OneBlock
        /\ frontBlockOffset = 0
        /\ firstBlock = 0
        /\ lastBlock = 0
        /\ size = 0
        /\ numBlocks = 1
        /\ capacity = BaseAllocation
        /\ counters = 0
        /\ pc = [c \in Consumer |-> "idle"]
        /\ claim = [c \in Consumer |-> NoClaim]
        /\ enqueued = 0
        /\ claimed = 0
        /\ lost = FALSE
        /\ derailed = FALSE
-----------------------------------------------------------------------------
(***************************************************************************)
(* Blocks and the array of pointers.                                       *)
(***************************************************************************)

Copied_Short ==
  [b \in {i \in 0 .. numBlocks - 2 : firstBlock + i \in DOMAIN data} |->
     data[firstBlock + b]]
\* The array after reallocate: numBlocks pointers from the first block on,
\* moved to the start; neither firstBlock nor lastBlock follows them.
Copied == [b \in {i \in 0 .. numBlocks - 1 : firstBlock + i \in DOMAIN data} |->
             data[firstBlock + b]]

ArrayFull_Late == numBlocks > capacity
ArrayFull == numBlocks >= capacity
GrownData == IF ArrayFull THEN Copied ELSE data
GrownCapacity == IF ArrayFull THEN 2 * capacity ELSE capacity
GrownPc == IF ArrayFull THEN Freed ELSE pc

Reallocate(newSize) == /\ data' = Copied
                       /\ capacity' = newSize
                       /\ pc' = Freed

Write(d, b, i, element) ==
  IF b \in DOMAIN d THEN [d EXCEPT ![b][i] = element] ELSE d
WithBlock(d, b, block) ==
  [i \in DOMAIN d \cup {b} |-> IF i = b THEN block ELSE d[i]]

\* What the code compares to see that the last block is full, and what is.
NeedsBlock_Early == (frontBlockOffset + size + 1) \div BlockSize >= numBlocks
NeedsBlock == (frontBlockOffset + size) \div BlockSize >= numBlocks
LastBlockFull == (firstBlock * BlockSize) + frontBlockOffset + size
                   >= numBlocks * BlockSize
-----------------------------------------------------------------------------
(***************************************************************************)
(* enqueue.                                                                *)
(***************************************************************************)

\* Derails when the last block is full and the comparison does not see it.
EnqueueInPlace ==
  /\ enqueued < MaxElements
  /\ ~NeedsBlock
  /\ data' = Write(data, lastBlock, (frontBlockOffset + size) % BlockSize,
                   enqueued + 1)
  /\ size' = size + 1
  /\ enqueued' = enqueued + 1
  /\ derailed' = (derailed \/ LastBlockFull)
  /\ UNCHANGED <<front, lastBlock, numBlocks, capacity, counters, threads, claimed, lost>>

EnqueueNewBlock ==
  /\ enqueued < MaxElements
  /\ NeedsBlock
  /\ data' = WithBlock(GrownData, lastBlock + 1,
                       [NewBlock EXCEPT ![0] = enqueued + 1])
  /\ capacity' = GrownCapacity
  /\ pc' = GrownPc
  /\ numBlocks' = numBlocks + 1
  /\ lastBlock' = lastBlock + 1
  /\ size' = size + 1
  /\ enqueued' = enqueued + 1
  /\ UNCHANGED <<front, counters, claim, claimed, lost, derailed>>

\* No memory for the block: it is counted, and is not there.  (No memory for
\* the array changes nothing.)
EnqueueFails ==
  /\ MayFail
  /\ enqueued < MaxElements
  /\ NeedsBlock
  /\ data' = GrownData
  /\ capacity' = GrownCapacity
  /\ pc' = GrownPc
  /\ numBlocks' = numBlocks + 1
  /\ lastBlock' = lastBlock + 1
  /\ derailed' = TRUE
  /\ UNCHANGED <<front, size, counters, claim, history>>

Enqueue == EnqueueInPlace \/ EnqueueNewBlock \/ EnqueueFails
-----------------------------------------------------------------------------
(***************************************************************************)
(* dequeue and tryDequeue, which differ in how they say "empty".           *)
(***************************************************************************)
Exhausted == frontBlockOffset >= BlockSize
FirstBlock == IF Exhausted THEN firstBlock + 1 ELSE firstBlock
FrontOffset == IF Exhausted THEN 0 ELSE frontBlockOffset

\* Counters for the new block: as many as it has elements by now.
RollCounters == IF ~Exhausted THEN 0
                ELSE IF size > BlockSize THEN BlockSize ELSE size

AllCounters_NoTopUp == counters + RollCounters
\* With no counter left, as many as the first block has places from here on.
AllCounters == IF counters + RollCounters = 0
               THEN BlockSize - FrontOffset
               ELSE counters + RollCounters

\* The roll comes before the test for elements: it may leave firstBlock one
\* past the last block.
DequeueEmpty ==
  /\ size = 0
  /\ firstBlock' = FirstBlock
  /\ frontBlockOffset' = FrontOffset
  /\ UNCHANGED <<blocks, size, counters, threads, history, derailed>>

DequeueClaim(c) ==
  /\ pc[c] = "idle"
  /\ size > 0
  /\ firstBlock' = FirstBlock
  /\ frontBlockOffset' = FrontOffset + 1
  /\ counters' = AllCounters
  /\ size' = size - 1
  /\ claimed' = claimed + 1
  /\ pc' = [pc EXCEPT ![c] = "claimed"]
  /\ claim' = [claim EXCEPT ![c] = [block |-> FirstBlock, offset |-> FrontOffset,
                                    ticket |-> claimed + 1]]
  /\ UNCHANGED <<blocks, enqueued, lost, derailed>>

\* SemaphoreDestoryCounterLockGuard waits for a counter, and destroys it when
\* the read is over.
TakeCounter(c) ==
  /\ pc[c] = "claimed"
  /\ Cardinality(Holding) < counters
  /\ pc' = [pc EXCEPT ![c] = "taken"]
  /\ UNCHANGED <<front, blocks, size, counters, claim, history, derailed>>

LoadArray(c) ==
  /\ pc[c] = "taken"
  /\ pc' = [pc EXCEPT ![c] = "loaded"]
  /\ UNCHANGED <<front, blocks, size, counters, claim, history, derailed>>

Read(c) ==
  /\ pc[c] \in {"loaded", "freed"}
  /\ pc' = [pc EXCEPT ![c] = "idle"]
  /\ claim' = [claim EXCEPT ![c] = NoClaim]
  /\ counters' = counters - 1
  /\ UNCHANGED <<front, blocks, size, history, derailed>>

\* tryDequeue takes the same steps as dequeue.
Dequeue(c) == DequeueClaim(c) \/ TakeCounter(c) \/ LoadArray(c) \/ Read(c)
-----------------------------------------------------------------------------
(***************************************************************************)
(* The other operations.                                                   *)
(***************************************************************************)

\* front() rolls over too, and adds no counters.
Front ==
  /\ firstBlock' = FirstBlock
  /\ frontBlockOffset' = FrontOffset
  /\ UNCHANGED <<blocks, size, counters, threads, history, derailed>>

\* Derails when the first block is not the array's first.
Reserve(newCap) ==
  /\ newCap > capacity * BlockSize
  /\ Reallocate(newCap \div BlockSize)
  /\ derailed' = (derailed \/ firstBlock > 0)
  /\ UNCHANGED <<front, lastBlock, numBlocks, size, counters, claim, history>>

(***************************************************************************)
(* clear frees a block for every index of the array, written or not.  What *)
(* freeing the others does is undefined, and so is freeing a second time   *)
(* what a clear that failed has freed; the counters stay; and a claim from *)
(* before names a place in the new array.                                  *)
(***************************************************************************)
Unwritten == 0 .. capacity - 1 \ DOMAIN data

Clear ==
  /\ data' = OneBlock
  /\ frontBlockOffset' = 0
  /\ firstBlock' = 0
  /\ lastBlock' = 0
  /\ size' = 0
  /\ numBlocks' = 1
  /\ capacity' = BaseAllocation
  /\ claimed' = enqueued
  /\ pc' = Freed
  /\ \/ Pending = {} /\ ~lost /\ derailed' = FALSE
     \/ (Pending # {} \/ Unwritten # {} \/ lost) /\ derailed' = TRUE
  /\ UNCHANGED <<counters, claim, enqueued, lost>>

\* Everything has been freed when no memory is found: for the array, and its
\* address stays, or for its block, and there is none in it.  The exception
\* leaves before any of the counts is assigned.
ClearFails ==
  /\ MayFail
  /\ data' = [b \in {} |-> NewBlock]
  /\ pc' = Freed
  /\ lost' \in {lost, TRUE}
  /\ derailed' = TRUE
  /\ UNCHANGED <<front, lastBlock, numBlocks, capacity, size, counters, claim,
                 enqueued, claimed>>

Stored(b, i) == IF b \in DOMAIN data THEN data[b][i] ELSE 0
At(pos) == LET absolute == pos + frontBlockOffset
           IN  Stored((absolute \div BlockSize) + firstBlock, absolute % BlockSize)

Shared == \/ Enqueue
          \/ DequeueEmpty
          \/ Front
          \/ \E n \in 1 .. MaxReserve : Reserve(n)
          \/ Clear
          \/ ClearFails
          \/ \E c \in Consumer : Dequeue(c)

(***************************************************************************)
(* A thread inside a call goes on: the lock is held for a few instructions *)
(* and the semaphore's counters are handed to whoever spins on them.       *)
(***************************************************************************)
Fairness == \A c \in Consumer : WF_vars(TakeCounter(c) \/ LoadArray(c) \/ Read(c))
-----------------------------------------------------------------------------
(***************************************************************************)
(* Properties.                                                             *)
(***************************************************************************)

\* Type.  lastBlock only says again how many blocks there are.
TypeOK ==
  /\ frontBlockOffset \in 0 .. BlockSize
  /\ firstBlock \in Nat
  /\ numBlocks \in 1 .. capacity
  /\ lastBlock = numBlocks - 1
  /\ size \in 0 .. MaxElements
  /\ capacity \in Nat
  /\ counters \in Nat
  /\ DOMAIN data \subseteq 0 .. capacity - 1
  /\ \A b \in DOMAIN data : data[b] \in [0 .. BlockSize - 1 -> 0 .. MaxElements]
  /\ pc \in [Consumer -> {"idle", "claimed", "taken", "loaded", "freed"}]
  /\ claim \in [Consumer -> [block : Nat, offset : 0 .. BlockSize - 1,
                             ticket : 0 .. MaxElements]]
  /\ enqueued \in 0 .. MaxElements
  /\ claimed \in 0 .. MaxElements
  /\ lost \in BOOLEAN
  /\ derailed \in BOOLEAN

(***************************************************************************)
(* The elements in the queue are those enqueued and not yet handed out, in *)
(* order, each at the place the index arithmetic of operator[] and dequeue *)
(* computes: until the queue derails.                                      *)
(***************************************************************************)
InLine ==
  ~derailed =>
    /\ size = enqueued - claimed
    /\ \A pos \in 0 .. size - 1 : At(pos) = claimed + 1 + pos

(***************************************************************************)
(* A dequeuer that has given up the lock and has not read yet finds, in    *)
(* the array it is to read, the element it claimed, and no other dequeuer  *)
(* has that place, whatever is enqueued, dequeued or grown meanwhile.      *)
(* Nothing is said of one whose array was freed after it loaded the        *)
(* address, which ReadsLiveArray is about, nor of a derailed queue.        *)
(***************************************************************************)
Place(c) == <<claim[c].block, claim[c].offset>>

ClaimHolds ==
  ~derailed => \A c \in Pending :
                 /\ pc[c] # "freed" =>
                      Stored(claim[c].block, claim[c].offset) = claim[c].ticket
                 /\ \A d \in Pending \ {c} : Place(d) # Place(c)

(***************************************************************************)
(* As long as no two dequeues overlap, as they do not where there is one   *)
(* consumer, a dequeuer never waits for a counter for ever: each dequeue   *)
(* leaves one for itself, whatever is rolled over, read or cleared.        *)
(***************************************************************************)
DequeueFinishes ==
  [](Cardinality(Pending) <= 1) =>
    \A c \in Consumer : pc[c] = "claimed" ~> pc[c] = "idle"
-----------------------------------------------------------------------------
(***************************************************************************)
(* The inductive invariant: what TypeOK, InLine and ClaimHolds rest on.    *)
(***************************************************************************)

\* An element is enqueued before it is in the queue or handed out, and a
\* counter held is there.
Counted == /\ claimed + size <= enqueued
           /\ Cardinality(Holding) <= counters

\* The place behind the last element is in the last block, or just past it,
\* and no block up to there is missing.
TailInLastBlock ==
  LET ahead == lastBlock - firstBlock
      tail == frontBlockOffset + size
  IN  ~derailed => /\ ahead * BlockSize <= tail
                   /\ tail <= (ahead + 1) * BlockSize
                   /\ 0 .. lastBlock \subseteq DOMAIN data

\* The place of a claim is behind the queue's front.
Behind(place) == \/ place.block < firstBlock
                 \/ place.block = firstBlock /\ place.offset < frontBlockOffset
ClaimsBehind == ~derailed => \A c \in Pending : Behind(claim[c])

\* The array in force has every claimed element, whoever reads it there.
PlacesHold ==
  ~derailed => \A c \in Pending :
                 Stored(claim[c].block, claim[c].offset) = claim[c].ticket

\* No element is handed out twice.
TicketsApart ==
  \A c \in Pending : /\ claim[c].ticket <= claimed
                     /\ \A d \in Pending \ {c} : claim[d].ticket # claim[c].ticket

IInv == /\ TypeOK
        /\ Counted
        /\ TailInLastBlock
        /\ InLine
        /\ ClaimsBehind
        /\ PlacesHold
        /\ TicketsApart
=============================================================================
