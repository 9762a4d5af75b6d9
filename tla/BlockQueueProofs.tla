-------------------------- MODULE BlockQueueProofs --------------------------
(***************************************************************************)
(* Theorems about SPMCQueue and MPSCQueue, for every number of consumers,  *)
(* block size, first allocation, capacity asked for and number of          *)
(* elements: every action of BlockQueue preserves the inductive invariant. *)
(***************************************************************************)
EXTENDS SPMCQueue, MPSCQueue, FiniteSetTheorems, TLAPS

-----------------------------------------------------------------------------
(* Places.  A place of the queue is a multiple of the block size and an    *)
(* offset.                                                                 *)

LEMMA Product ==
  ASSUME NEW q \in Int, NEW p \in Int, NEW n \in Nat
  PROVE  /\ q * n \in Int
         /\ (q + 1) * n = q * n + n
         /\ p <= q => p * n <= q * n
OBVIOUS

LEMMA DivMod ==
  ASSUME NEW a \in Nat, NEW n \in Nat \ {0}
  PROVE  /\ a \div n \in Nat
         /\ a % n \in 0 .. n - 1
         /\ a = (a \div n) * n + (a % n)
OBVIOUS

\* Only one multiple and one offset lead to a place.
LEMMA PlaceUnique ==
  ASSUME NEW n \in Nat \ {0}, NEW q \in Int, NEW p \in Int,
         NEW i \in 0 .. n - 1, NEW j \in 0 .. n - 1, q * n + i = p * n + j
  PROVE  q = p /\ i = j
<1>1. CASE q < p
  <2>1. q + 1 <= p
    BY <1>1
  <2>2. (q + 1) * n <= p * n
    BY <2>1, Product
  <2>3. q * n + n <= p * n
    BY <2>2, Product
  <2>4. QED
    BY <2>3, Product
<1>2. CASE p < q
  <2>1. p + 1 <= q
    BY <1>2
  <2>2. (p + 1) * n <= q * n
    BY <2>1, Product
  <2>3. p * n + n <= q * n
    BY <2>2, Product
  <2>4. QED
    BY <2>3, Product
<1>3. CASE q = p
  BY <1>3, Product
<1>4. QED
  BY <1>1, <1>2, <1>3

LEMMA PlaceOf ==
  ASSUME NEW n \in Nat \ {0}, NEW a \in Nat, NEW q \in Int, q * n <= a, a < (q + 1) * n
  PROVE  a \div n = q /\ a % n = a - q * n
<1>1. /\ a \div n \in Int
      /\ a % n \in 0 .. n - 1
      /\ (a \div n) * n + (a % n) = q * n + (a - q * n)
  BY DivMod, Product
<1>2. a - q * n \in 0 .. n - 1
  BY Product
<1>3. QED
  BY <1>1, <1>2, PlaceUnique
\* The place a block further on, and the places of the first block.
LEMMA NextBlock ==
  ASSUME NEW n \in Nat \ {0}, NEW a \in Nat
  PROVE  /\ (a + n) \div n = (a \div n) + 1
         /\ (a + n) % n = a % n
         /\ a < n => a \div n = 0 /\ a % n = a
<1> DEFINE q == a \div n
           next == q + 1
           b == a + n
<1>1. a % n \in 0 .. n - 1 /\ a = q * n + (a % n) /\ q \in Int
  BY DivMod
<1> HIDE DEF q
<1>2. /\ next \in Int /\ b \in Nat
      /\ next * n = q * n + n
      /\ (next + 1) * n = next * n + n
      /\ q * n \in Int
  BY <1>1, Product
<1> HIDE DEF next
<1>3. next * n <= b /\ b < (next + 1) * n /\ b - next * n = a % n
  BY <1>1, <1>2
<1> HIDE DEF b
<1>4. b \div n = next /\ b % n = a % n
  BY <1>2, <1>3, PlaceOf
<1>5. ASSUME a < n PROVE a \div n = 0 /\ a % n = a
  <2>1. 0 * n <= a /\ a < (0 + 1) * n /\ a - 0 * n = a
    BY <1>5
  <2>2. QED
    BY <2>1, PlaceOf
<1>6. QED
  BY <1>4, <1>5 DEF q, next, b
-----------------------------------------------------------------------------
(* The state.                                                              *)

LEMMA TypeFacts ==
  ASSUME TypeOK
  PROVE  /\ BlockSize \in Nat \ {0} /\ BlockSize \in Nat /\ MaxElements \in Nat
         /\ frontBlockOffset \in Nat /\ frontBlockOffset <= BlockSize
         /\ firstBlock \in Nat /\ numBlocks \in Nat /\ lastBlock \in Nat
         /\ capacity \in Nat /\ size \in Nat /\ counters \in Nat
         /\ enqueued \in Nat /\ enqueued <= MaxElements /\ claimed \in Nat
         /\ numBlocks > 0 /\ numBlocks <= capacity /\ lastBlock = numBlocks - 1
         /\ frontBlockOffset + size \in Nat
BY BlockQueueAssumption DEF TypeOK

\* What the consumers are at is all that the counters held depend on.
LEMMA HoldingFinite ==
  /\ IsFiniteSet(Holding) /\ Cardinality(Holding) \in Nat
  /\ IsFiniteSet(Holding') /\ Cardinality(Holding') \in Nat
<1>1. Holding \subseteq Consumer /\ Holding' \subseteq Consumer /\ IsFiniteSet(Consumer)
  BY BlockQueueAssumption DEF Holding
<1>2. IsFiniteSet(Holding) /\ IsFiniteSet(Holding')
  BY <1>1, FS_Subset
<1>3. QED
  BY <1>2, FS_CardinalityType

\* A place is behind the front, or in the queue, or past its end: once the
\* queue has derailed nothing is said of it.
LEMMA DerailedInv ==
  ASSUME TypeOK', Counted', TicketsApart', derailed'
  PROVE  IInv'
BY DEF IInv, TailInLastBlock, InLine, ClaimsBehind, PlacesHold

\* Those who have claimed an element, and stay, have claimed different ones.
LEMMA TicketsStay ==
  ASSUME TypeOK, TypeOK', TicketsApart, Pending' \subseteq Pending,
         \A c \in Pending' : claim'[c] = claim[c],
         claimed' >= claimed
  PROVE  TicketsApart'
<1>1. \A c \in Pending : claim[c].ticket \in Nat
  BY TypeFacts DEF TypeOK, Pending
<1>2. claimed \in Nat /\ claimed' \in Nat
  BY TypeFacts, BlockQueueAssumption DEF TypeOK
<1>3. ASSUME NEW c \in Pending'
      PROVE  /\ claim'[c].ticket <= claimed'
             /\ \A d \in Pending' \ {c} : claim'[d].ticket # claim'[c].ticket
  BY <1>1, <1>2, <1>3 DEF TicketsApart
<1>4. QED
  BY <1>3 DEF TicketsApart

LEMMA InitInv == Init => IInv
<1> SUFFICES ASSUME Init PROVE IInv
  OBVIOUS
<1>1. /\ BlockSize \in Nat \ {0} /\ BaseAllocation \in Nat \ {0} /\ MaxElements \in Nat
  BY BlockQueueAssumption
<1>2. Pending = {} /\ Holding = {}
  BY DEF Init, Pending, Holding
<1>3. /\ NewBlock \in [0 .. BlockSize - 1 -> 0 .. MaxElements]
      /\ NoClaim \in [block : Nat, offset : 0 .. BlockSize - 1, ticket : 0 .. MaxElements]
  BY <1>1 DEF NewBlock, NoClaim
<1>4. TypeOK
  <2>1. /\ claim \in [Consumer -> [block : Nat, offset : 0 .. BlockSize - 1,
                                  ticket : 0 .. MaxElements]]
        /\ pc \in [Consumer -> {"idle", "claimed", "taken", "loaded", "freed"}]
    BY <1>3 DEF Init
  <2>2. /\ DOMAIN data \subseteq 0 .. capacity - 1
        /\ \A b \in DOMAIN data : data[b] \in [0 .. BlockSize - 1 -> 0 .. MaxElements]
    BY <1>1, <1>3 DEF Init, OneBlock
  <2>3. /\ frontBlockOffset \in 0 .. BlockSize /\ firstBlock \in Nat
        /\ numBlocks \in 1 .. capacity /\ lastBlock = numBlocks - 1
        /\ size \in 0 .. MaxElements /\ capacity \in Nat /\ counters \in Nat
        /\ enqueued \in 0 .. MaxElements /\ claimed \in 0 .. MaxElements
    BY <1>1 DEF Init
  <2>4. derailed \in BOOLEAN /\ lost \in BOOLEAN
    BY DEF Init
  <2>5. QED
    BY <2>1, <2>2, <2>3, <2>4 DEF TypeOK
<1>5. Counted
  BY <1>1, <1>2, FS_EmptySet DEF Init, Counted
<1>6. TailInLastBlock
  BY <1>1 DEF Init, TailInLastBlock, OneBlock
<1>7. InLine
  BY DEF Init, InLine
<1>8. QED
  BY <1>2, <1>4, <1>5, <1>6, <1>7 DEF IInv, ClaimsBehind, PlacesHold, TicketsApart

-----------------------------------------------------------------------------
(* The front of the queue.                                                 *)

\* Going on to the next block leaves every element at its place.
LEMMA RollFacts ==
  ASSUME TypeOK
  PROVE  /\ FirstBlock \in Nat
         /\ FrontOffset \in 0 .. BlockSize - 1
         /\ \/ FirstBlock = firstBlock /\ FrontOffset = frontBlockOffset
            \/ /\ FirstBlock = firstBlock + 1 /\ FrontOffset = 0
               /\ frontBlockOffset = BlockSize
BY TypeFacts DEF FirstBlock, FrontOffset, Exhausted

LEMMA RolledAt ==
  ASSUME TypeOK, NEW pos \in Nat
  PROVE  At(pos) = Stored(((pos + FrontOffset) \div BlockSize) + FirstBlock,
                          (pos + FrontOffset) % BlockSize)
<1>1. CASE FirstBlock = firstBlock /\ FrontOffset = frontBlockOffset
  BY <1>1 DEF At
<1>2. CASE /\ FirstBlock = firstBlock + 1 /\ FrontOffset = 0
           /\ frontBlockOffset = BlockSize
  <2>1. /\ (pos + BlockSize) \div BlockSize = (pos \div BlockSize) + 1
        /\ (pos + BlockSize) % BlockSize = pos % BlockSize
    BY TypeFacts, NextBlock
  <2>2. (pos \div BlockSize) + 1 + firstBlock = (pos \div BlockSize) + FirstBlock
    <3>1. pos \div BlockSize \in Nat /\ firstBlock \in Nat
      BY TypeFacts, DivMod
    <3>2. QED
      BY <1>2, <3>1
  <2>3. pos + FrontOffset = pos
    BY <1>2
  <2>4. QED
    BY <1>2, <2>1, <2>2, <2>3 DEF At
<1>3. QED
  BY <1>1, <1>2, RollFacts

\* The tail is counted from the first block on, whichever that is.
LEMMA RolledTail ==
  ASSUME TypeOK, TailInLastBlock, ~derailed
  PROVE  /\ (lastBlock - FirstBlock) * BlockSize <= FrontOffset + size
         /\ FrontOffset + size <= (lastBlock - FirstBlock + 1) * BlockSize
<1> DEFINE ahead == lastBlock - firstBlock
<1>1. /\ ahead * BlockSize <= frontBlockOffset + size
      /\ frontBlockOffset + size <= (ahead + 1) * BlockSize
  BY DEF TailInLastBlock
<1>2. CASE FirstBlock = firstBlock /\ FrontOffset = frontBlockOffset
  BY <1>1, <1>2
<1>3. CASE /\ FirstBlock = firstBlock + 1 /\ FrontOffset = 0
           /\ frontBlockOffset = BlockSize
  <2>1. ahead \in Int /\ ahead - 1 \in Int /\ ahead - 1 + 1 = ahead
        /\ lastBlock - FirstBlock = ahead - 1
    BY <1>3, TypeFacts
  <2> HIDE DEF ahead
  <2>2. /\ (ahead - 1 + 1) * BlockSize = (ahead - 1) * BlockSize + BlockSize
        /\ (ahead + 1) * BlockSize = ahead * BlockSize + BlockSize
        /\ (ahead - 1) * BlockSize \in Int /\ ahead * BlockSize \in Int
    BY <2>1, TypeFacts, Product
  <2>3. /\ (ahead - 1) * BlockSize <= size
        /\ size <= ahead * BlockSize
    BY <1>1, <1>3, <2>1, <2>2, TypeFacts
  <2>4. FrontOffset + size = size
    BY <1>3, TypeFacts
  <2>5. QED
    BY <2>1, <2>3, <2>4
<1>4. QED
  BY <1>2, <1>3, RollFacts
\* DequeueEmpty and Front.
LEMMA RollInv ==
  ASSUME IInv, firstBlock' = FirstBlock, frontBlockOffset' = FrontOffset,
         UNCHANGED <<blocks, size, counters, threads, history, derailed>>
  PROVE  IInv'
<1>0. TypeOK
  BY DEF IInv
<1>1. /\ UNCHANGED <<data, lastBlock, numBlocks, capacity>>
      /\ UNCHANGED <<size, counters, pc, claim, enqueued, claimed, lost, derailed>>
  BY DEF blocks, threads, history
<1>2. firstBlock' \in Nat /\ frontBlockOffset' \in 0 .. BlockSize
  BY <1>0, RollFacts, TypeFacts
<1>3. TypeOK'
  BY <1>0, <1>1, <1>2 DEF TypeOK
<1>4. Counted' /\ TicketsApart'
  BY <1>1 DEF IInv, Counted, Holding, TicketsApart, Pending
<1>5. CASE ~derailed
  <2>1. TailInLastBlock'
    BY <1>0, <1>1, <1>5, RolledTail DEF IInv, TailInLastBlock
  <2>2. InLine'
    <3>1. ASSUME NEW pos \in Nat PROVE At(pos)' = At(pos)
      BY <1>0, <1>1, RolledAt DEF At, Stored
    <3>2. 0 .. size - 1 \subseteq Nat
      OBVIOUS
    <3>3. QED
      BY <1>1, <3>1, <3>2 DEF IInv, InLine
  <2>3. ClaimsBehind'
    <3>1. ASSUME NEW c \in Pending PROVE Behind(claim[c])'
      <4>1. /\ claim[c].block \in Nat /\ claim[c].offset \in 0 .. BlockSize - 1
            /\ Behind(claim[c])
        BY <1>0, <1>5 DEF IInv, TypeOK, Pending, ClaimsBehind
      <4>2. QED
        BY <1>0, <1>1, <4>1, RollFacts, TypeFacts DEF Behind
    <3>2. QED
      BY <1>1, <3>1 DEF ClaimsBehind, Pending
  <2>4. PlacesHold'
    BY <1>1 DEF IInv, PlacesHold, Pending, Stored
  <2>5. QED
    BY <1>3, <1>4, <2>1, <2>2, <2>3, <2>4 DEF IInv
<1>6. QED
  BY <1>1, <1>3, <1>4, <1>5, DerailedInv

\* The element at the front is claimed.
LEMMA ClaimInv ==
  ASSUME IInv, NEW c \in Consumer, DequeueClaim(c)
  PROVE  IInv'
<1>0. TypeOK
  BY DEF IInv
<1>1. /\ pc[c] = "idle" /\ size > 0
      /\ firstBlock' = FirstBlock
      /\ frontBlockOffset' = FrontOffset + 1
      /\ counters' = AllCounters
      /\ size' = size - 1
      /\ claimed' = claimed + 1
      /\ pc' = [pc EXCEPT ![c] = "claimed"]
      /\ claim' = [claim EXCEPT ![c] = [block |-> FirstBlock, offset |-> FrontOffset,
                                        ticket |-> claimed + 1]]
      /\ UNCHANGED <<data, lastBlock, numBlocks, capacity, enqueued, lost, derailed>>
  BY DEF DequeueClaim, blocks
<1>2. /\ FirstBlock \in Nat /\ FrontOffset \in 0 .. BlockSize - 1
      /\ claimed + 1 \in 0 .. MaxElements
      /\ claimed + size <= enqueued
  <2>1. claimed + size <= enqueued
    BY DEF IInv, Counted
  <2>2. claimed + 1 \in 0 .. MaxElements
    BY <1>0, <1>1, <2>1, TypeFacts
  <2>3. QED
    BY <1>0, <2>1, <2>2, RollFacts
<1>3. AllCounters \in Nat /\ counters <= AllCounters
  <2>1. RollCounters \in Nat
    BY <1>0, TypeFacts DEF RollCounters
  <2>2. BlockSize - FrontOffset \in Nat
    BY <1>0, <1>2, TypeFacts
  <2>3. QED
    BY <1>0, <2>1, <2>2, TypeFacts DEF AllCounters
<1>4. TypeOK'
  <2>1. /\ claim' \in [Consumer -> [block : Nat, offset : 0 .. BlockSize - 1,
                                   ticket : 0 .. MaxElements]]
        /\ pc' \in [Consumer -> {"idle", "claimed", "taken", "loaded", "freed"}]
    BY <1>0, <1>1, <1>2 DEF TypeOK
  <2>2. /\ frontBlockOffset' \in 0 .. BlockSize /\ firstBlock' \in Nat
        /\ size' \in 0 .. MaxElements /\ counters' \in Nat
        /\ claimed' \in 0 .. MaxElements
    BY <1>0, <1>1, <1>2, <1>3, TypeFacts DEF TypeOK
  <2>3. QED
    BY <1>0, <1>1, <2>1, <2>2 DEF TypeOK
<1>5. Counted'
  <2>1. Holding' = Holding
    BY <1>0, <1>1 DEF Holding, TypeOK
  <2>2. Cardinality(Holding') <= counters'
    BY <1>0, <1>1, <1>3, <2>1, HoldingFinite, TypeFacts DEF IInv, Counted
  <2>3. claimed' + size' <= enqueued'
    BY <1>0, <1>1, <1>2, TypeFacts
  <2>4. QED
    BY <2>2, <2>3 DEF Counted
<1>6. TicketsApart'
  <2>1. claimed \in Nat /\ \A d \in Pending : claim[d].ticket \in Nat
    BY <1>0, TypeFacts DEF TypeOK, Pending
  <2>2. c \notin Pending /\ Pending' = Pending \cup {c}
    BY <1>0, <1>1 DEF TypeOK, Pending
  <2>3. claim'[c].ticket = claimed + 1 /\ \A d \in Pending : claim'[d] = claim[d]
    BY <1>0, <1>1, <2>2 DEF TypeOK, Pending
  <2>4. ASSUME NEW d \in Pending'
        PROVE  /\ claim'[d].ticket <= claimed'
               /\ \A e \in Pending' \ {d} : claim'[e].ticket # claim'[d].ticket
    <3>1. TicketsApart
      BY DEF IInv
    <3>2. CASE d = c
      BY <1>1, <2>1, <2>2, <2>3, <3>1, <3>2 DEF TicketsApart
    <3>3. CASE d \in Pending
      BY <1>1, <2>1, <2>2, <2>3, <3>1, <3>3 DEF TicketsApart
    <3>4. QED
      BY <2>2, <2>4, <3>2, <3>3
  <2>5. QED
    BY <2>4 DEF TicketsApart
<1>7. CASE ~derailed
  <2>1. TailInLastBlock'
    <3>1. frontBlockOffset' + size' = FrontOffset + size
      BY <1>0, <1>1, <1>2, TypeFacts
    <3>2. QED
      BY <1>0, <1>1, <1>7, <3>1, RolledTail DEF IInv, TailInLastBlock
  <2>2. InLine'
    <3>1. ASSUME NEW pos \in 0 .. size' - 1 PROVE At(pos)' = claimed' + 1 + pos
      <4>1. /\ pos \in Nat /\ pos + 1 \in 0 .. size - 1 /\ pos + 1 \in Nat
            /\ pos + (FrontOffset + 1) = (pos + 1) + FrontOffset
            /\ claimed' + 1 + pos = claimed + 1 + (pos + 1)
        BY <1>0, <1>1, <1>2, TypeFacts
      <4>2. At(pos)' = At(pos + 1)
        BY <1>0, <1>1, <4>1, RolledAt DEF At, Stored
      <4>3. At(pos + 1) = claimed + 1 + (pos + 1)
        BY <1>7, <4>1 DEF IInv, InLine
      <4>4. QED
        BY <4>1, <4>2, <4>3
    <3>2. size' = enqueued' - claimed'
      BY <1>0, <1>1, <1>7, TypeFacts DEF IInv, InLine
    <3>3. QED
      BY <3>1, <3>2 DEF InLine
  <2>3. Stored(FirstBlock, FrontOffset) = claimed + 1
    <3>1. /\ At(0) = claimed + 1 + 0
      BY <1>0, <1>1, <1>7, TypeFacts DEF IInv, InLine
    <3>2. FrontOffset \div BlockSize = 0 /\ FrontOffset % BlockSize = FrontOffset
      <4>1. FrontOffset \in Nat /\ FrontOffset < BlockSize /\ BlockSize \in Nat \ {0}
        BY <1>0, <1>2, TypeFacts
      <4>2. QED
        BY <4>1, NextBlock
    <3>3. At(0) = Stored(((0 + FrontOffset) \div BlockSize) + FirstBlock,
                          (0 + FrontOffset) % BlockSize)
      BY <1>0, RolledAt
    <3>4. 0 + FrontOffset = FrontOffset /\ 0 + FirstBlock = FirstBlock
          /\ claimed + 1 + 0 = claimed + 1
      BY <1>0, <1>2, TypeFacts
    <3>5. QED
      BY <3>1, <3>2, <3>3, <3>4
  <2>4. ASSUME NEW d \in Consumer, pc'[d] # "idle"
        PROVE  /\ Behind(claim[d])'
               /\ Stored(claim[d].block, claim[d].offset)' = claim'[d].ticket
    <3>1. CASE d = c
      <4>1. claim'[d] = [block |-> FirstBlock, offset |-> FrontOffset,
                         ticket |-> claimed + 1]
        BY <1>0, <1>1, <3>1 DEF TypeOK
      <4>2. FrontOffset < FrontOffset + 1
        BY <1>2
      <4>3. QED
        BY <1>1, <2>3, <4>1, <4>2 DEF Behind, Stored
    <3>2. CASE d # c
      <4>1. claim'[d] = claim[d] /\ d \in Pending
        BY <1>0, <1>1, <2>4, <3>2 DEF TypeOK, Pending
      <4>2. /\ Behind(claim[d])
            /\ Stored(claim[d].block, claim[d].offset) = claim[d].ticket
        BY <1>7, <4>1 DEF IInv, ClaimsBehind, PlacesHold
      <4>3. claim[d].block \in Nat /\ claim[d].offset \in 0 .. BlockSize - 1
        BY <1>0 DEF TypeOK
      <4>4. Behind(claim[d])'
        BY <1>0, <1>1, <4>1, <4>2, <4>3, RollFacts, TypeFacts DEF Behind
      <4>5. QED
        BY <1>1, <4>1, <4>2, <4>4 DEF Stored
    <3>3. QED
      BY <3>1, <3>2
  <2>5. ClaimsBehind' /\ PlacesHold'
    BY <2>4 DEF ClaimsBehind, PlacesHold, Pending
  <2>6. QED
    BY <1>4, <1>5, <1>6, <2>1, <2>2, <2>5 DEF IInv
<1>8. QED
  BY <1>1, <1>4, <1>5, <1>6, <1>7, DerailedInv
\* A consumer goes on with its call: the queue stays as it is.
LEMMA ThreadInv ==
  ASSUME IInv, NEW c \in Consumer, TakeCounter(c) \/ LoadArray(c) \/ Read(c)
  PROVE  IInv'
<1>0. TypeOK
  BY DEF IInv
<1>1. /\ UNCHANGED <<frontBlockOffset, firstBlock, data, lastBlock, numBlocks, capacity>>
      /\ UNCHANGED <<size, enqueued, claimed, lost, derailed>>
  BY DEF TakeCounter, LoadArray, Read, front, blocks, history
<1>2. pc[c] # "idle"
  BY DEF TakeCounter, LoadArray, Read
<1>3. /\ pc' \in [Consumer -> {"idle", "claimed", "taken", "loaded", "freed"}]
      /\ \A d \in Consumer \ {c} : pc'[d] = pc[d]
  BY <1>0 DEF TypeOK, TakeCounter, LoadArray, Read
<1>4. /\ counters' \in Nat
      /\ Cardinality(Holding') <= counters'
  <2>1. /\ Cardinality(Holding) <= counters /\ counters \in Nat
        /\ IsFiniteSet(Holding) /\ Cardinality(Holding) \in Nat
    BY <1>0, HoldingFinite, TypeFacts DEF IInv, Counted
  <2>2. CASE TakeCounter(c)
    <3>1. Holding' = Holding \cup {c} /\ c \notin Holding
      BY <1>0, <2>2 DEF TakeCounter, TypeOK, Holding
    <3>2. Cardinality(Holding') = Cardinality(Holding) + 1
      BY <2>1, <3>1, FS_AddElement
    <3>3. QED
      BY <2>1, <2>2, <3>2 DEF TakeCounter
  <2>3. CASE LoadArray(c)
    <3>1. Holding' = Holding
      BY <1>0, <2>3 DEF LoadArray, TypeOK, Holding
    <3>2. QED
      BY <2>1, <2>3, <3>1 DEF LoadArray
  <2>4. CASE Read(c)
    <3>1. Holding' = Holding \ {c} /\ c \in Holding
      BY <1>0, <2>4 DEF Read, TypeOK, Holding
    <3>2. Cardinality(Holding') = Cardinality(Holding) - 1 /\ Cardinality(Holding') \in Nat
      BY <2>1, <3>1, FS_RemoveElement, HoldingFinite
    <3>3. QED
      BY <2>1, <2>4, <3>2 DEF Read
  <2>5. QED
    BY <2>2, <2>3, <2>4
<1>5. /\ claim' \in [Consumer -> [block : Nat, offset : 0 .. BlockSize - 1,
                                 ticket : 0 .. MaxElements]]
      /\ \A d \in Consumer : pc'[d] # "idle" => claim'[d] = claim[d] /\ d \in Pending
  <2>1. CASE Read(c)
    <3>1. NoClaim \in [block : Nat, offset : 0 .. BlockSize - 1, ticket : 0 .. MaxElements]
      BY <1>0, TypeFacts DEF NoClaim
    <3>2. claim' = [claim EXCEPT ![c] = NoClaim] /\ pc'[c] = "idle"
      BY <1>0, <2>1 DEF Read, TypeOK
    <3>3. QED
      BY <1>0, <1>3, <3>1, <3>2 DEF TypeOK, Pending
  <2>2. CASE UNCHANGED claim
    BY <1>0, <1>2, <1>3, <2>2 DEF TypeOK, Pending
  <2>3. QED
    BY <2>1, <2>2 DEF TakeCounter, LoadArray
<1>6. TypeOK'
  BY <1>0, <1>1, <1>3, <1>4, <1>5 DEF TypeOK
<1>7. Counted' /\ TicketsApart'
  <2>1. Counted'
    BY <1>1, <1>4 DEF IInv, Counted
  <2>2. /\ Pending' \subseteq Pending
        /\ \A d \in Pending' : claim'[d] = claim[d]
        /\ claimed' >= claimed
    BY <1>0, <1>1, <1>5, TypeFacts DEF Pending
  <2>3. QED
    BY <1>0, <1>6, <2>1, <2>2, TicketsStay DEF IInv
<1>8. CASE ~derailed
  <2>1. TailInLastBlock'
    BY <1>1 DEF IInv, TailInLastBlock
  <2>2. InLine'
    BY <1>1 DEF IInv, InLine, At, Stored
  <2>3. \A d \in Consumer : pc'[d] # "idle" =>
          /\ Behind(claim[d])
          /\ Stored(claim[d].block, claim[d].offset) = claim[d].ticket
    BY <1>5, <1>8 DEF IInv, ClaimsBehind, PlacesHold
  <2>4. ClaimsBehind' /\ PlacesHold'
    BY <1>1, <1>5, <2>3 DEF ClaimsBehind, PlacesHold, Behind, Stored, Pending
  <2>5. QED
    BY <1>6, <1>7, <2>1, <2>2, <2>4 DEF IInv
<1>9. QED
  BY <1>1, <1>6, <1>7, <1>8, DerailedInv
-----------------------------------------------------------------------------
(* The end of the queue.                                                   *)

\* What the next state holds at a place of this one.
StoredNext(b, i) == IF b \in DOMAIN data' THEN data'[b][i] ELSE 0

\* An element is written into a block, if the block is there.
LEMMA Written ==
  ASSUME TypeOK, NEW b \in Nat, NEW i \in 0 .. BlockSize - 1, NEW v \in 0 .. MaxElements,
         data' = Write(data, b, i, v)
  PROVE  /\ DOMAIN data' = DOMAIN data
         /\ \A k \in DOMAIN data' : data'[k] \in [0 .. BlockSize - 1 -> 0 .. MaxElements]
         /\ b \in DOMAIN data => data'[b][i] = v
         /\ \A k \in DOMAIN data, j \in 0 .. BlockSize - 1 :
              k # b \/ j # i => data'[k][j] = data[k][j]
<1>1. \A k \in DOMAIN data : data[k] \in [0 .. BlockSize - 1 -> 0 .. MaxElements]
  BY DEF TypeOK
<1>2. CASE b \in DOMAIN data
  <2>1. data' = [data EXCEPT ![b] = [data[b] EXCEPT ![i] = v]]
    BY <1>2 DEF Write
  <2>2. /\ DOMAIN data' = DOMAIN data
        /\ data'[b] = [data[b] EXCEPT ![i] = v]
        /\ \A k \in DOMAIN data : k # b => data'[k] = data[k]
    BY <1>2, <2>1
  <2>3. /\ data'[b] \in [0 .. BlockSize - 1 -> 0 .. MaxElements]
        /\ data'[b][i] = v
        /\ \A j \in 0 .. BlockSize - 1 : j # i => data'[b][j] = data[b][j]
    BY <1>1, <1>2, <2>2
  <2>4. \A k \in DOMAIN data' : data'[k] \in [0 .. BlockSize - 1 -> 0 .. MaxElements]
    BY <1>1, <2>2, <2>3
  <2>5. QED
    BY <2>2, <2>3, <2>4
<1>3. CASE b \notin DOMAIN data
  BY <1>1, <1>3 DEF Write
<1>4. QED
  BY <1>2, <1>3

\* Where the end of the queue is, as long as the last block is not full.
LEMMA TailPlace ==
  ASSUME TypeOK, TailInLastBlock, ~derailed, ~LastBlockFull
  PROVE  /\ (frontBlockOffset + size) \div BlockSize = lastBlock - firstBlock
         /\ firstBlock <= lastBlock
<1> DEFINE ahead == lastBlock - firstBlock
           tail == frontBlockOffset + size
<1>1. /\ BlockSize \in Nat \ {0} /\ BlockSize \in Nat
      /\ ahead \in Int /\ tail \in Nat /\ firstBlock \in Int
      /\ numBlocks = firstBlock + (ahead + 1)
      /\ ahead * BlockSize <= tail
      /\ (firstBlock * BlockSize) + tail < numBlocks * BlockSize
  <2>1. ahead \in Int /\ tail \in Nat /\ numBlocks = firstBlock + (ahead + 1)
    BY TypeFacts
  <2>2. ahead * BlockSize <= tail
    BY DEF TailInLastBlock
  <2>3. /\ firstBlock * BlockSize \in Int /\ numBlocks * BlockSize \in Int
        /\ ~((firstBlock * BlockSize) + frontBlockOffset + size >= numBlocks * BlockSize)
    BY TypeFacts, Product DEF LastBlockFull
  <2>4. (firstBlock * BlockSize) + tail < numBlocks * BlockSize
    BY <2>3, TypeFacts
  <2>5. QED
    BY <2>1, <2>2, <2>4, TypeFacts
<1> HIDE DEF ahead, tail
<1>2. tail < (ahead + 1) * BlockSize
  BY <1>1
<1>3. tail \div BlockSize = ahead
  BY <1>1, <1>2, PlaceOf
<1>4. ahead \in Nat
  BY <1>1, <1>3, DivMod
<1>5. QED
  BY <1>3, <1>4, TypeFacts DEF ahead, tail

LEMMA InPlaceInv ==
  ASSUME IInv, EnqueueInPlace
  PROVE  IInv'
<1> DEFINE tail == frontBlockOffset + size
           offset == tail % BlockSize
<1>0. TypeOK /\ Counted /\ TailInLastBlock /\ ClaimsBehind /\ PlacesHold /\ InLine
  BY DEF IInv
<1>1. /\ enqueued < MaxElements
      /\ data' = Write(data, lastBlock, offset, enqueued + 1)
      /\ size' = size + 1
      /\ enqueued' = enqueued + 1
      /\ derailed' = (derailed \/ LastBlockFull)
      /\ UNCHANGED <<frontBlockOffset, firstBlock, lastBlock, numBlocks, capacity>>
      /\ UNCHANGED <<counters, pc, claim, claimed, lost>>
  BY DEF EnqueueInPlace, front, threads
<1>2. /\ offset \in 0 .. BlockSize - 1
      /\ lastBlock \in Nat
      /\ enqueued + 1 \in 0 .. MaxElements
      /\ tail \in Nat /\ BlockSize \in Nat \ {0}
      /\ tail \div BlockSize \in Nat
      /\ tail = (tail \div BlockSize) * BlockSize + offset
  <2>1. /\ lastBlock \in Nat /\ enqueued + 1 \in 0 .. MaxElements
        /\ tail \in Nat /\ BlockSize \in Nat \ {0}
    BY <1>0, <1>1, TypeFacts
  <2> HIDE DEF tail
  <2>2. QED
    BY <2>1, DivMod
<1> HIDE DEF offset
<1>3. /\ DOMAIN data' = DOMAIN data
      /\ \A k \in DOMAIN data' : data'[k] \in [0 .. BlockSize - 1 -> 0 .. MaxElements]
      /\ lastBlock \in DOMAIN data => data'[lastBlock][offset] = enqueued + 1
      /\ \A k \in DOMAIN data, j \in 0 .. BlockSize - 1 :
           k # lastBlock \/ j # offset => data'[k][j] = data[k][j]
  BY <1>0, <1>1, <1>2, Written
<1>4. derailed' \in BOOLEAN
  BY <1>1 DEF LastBlockFull
<1>5. Counted' /\ size' \in 0 .. MaxElements
  <2>1. claimed' + size' <= enqueued' /\ size' \in 0 .. MaxElements
    BY <1>0, <1>1, TypeFacts DEF Counted
  <2>2. Holding' = Holding
    BY <1>1 DEF Holding
  <2>3. QED
    BY <1>0, <1>1, <2>1, <2>2 DEF Counted
<1>6. TypeOK'
  BY <1>0, <1>1, <1>2, <1>3, <1>4, <1>5 DEF TypeOK
<1>7. TicketsApart'
  BY <1>1 DEF IInv, TicketsApart, Pending
<1>8. CASE ~derailed'
  <2>1. ~derailed /\ ~LastBlockFull
    BY <1>1, <1>8
  <2>2. tail \div BlockSize = lastBlock - firstBlock /\ firstBlock <= lastBlock
    BY <1>0, <2>1, TailPlace
  <2>3. lastBlock \in DOMAIN data
    BY <1>0, <2>1, TypeFacts DEF TailInLastBlock
  <2>4. ASSUME NEW k \in Nat, NEW j \in 0 .. BlockSize - 1, k # lastBlock \/ j # offset
        PROVE  StoredNext(k, j) = Stored(k, j)
    BY <1>3, <2>4 DEF Stored, StoredNext
  <2>5. TailInLastBlock'
    <3>1. /\ (lastBlock - firstBlock) * BlockSize <= tail
          /\ tail < (lastBlock - firstBlock + 1) * BlockSize
          /\ 0 .. lastBlock \subseteq DOMAIN data
      <4> DEFINE q == lastBlock - firstBlock
      <4>1. q \in Int /\ tail = q * BlockSize + offset
        BY <1>0, <1>2, <2>2, TypeFacts
      <4> HIDE DEF q, tail
      <4>2. tail < (q + 1) * BlockSize
        BY <1>2, <4>1, Product
      <4>3. QED
        BY <1>0, <2>1, <4>2 DEF TailInLastBlock, q, tail
    <3>2. /\ (lastBlock - firstBlock) * BlockSize \in Int
          /\ (lastBlock - firstBlock + 1) * BlockSize \in Int
      BY <1>0, TypeFacts, Product
    <3>3. frontBlockOffset' + size' = tail + 1
      BY <1>0, <1>1, TypeFacts
    <3>4. /\ (lastBlock - firstBlock) * BlockSize <= tail + 1
          /\ tail + 1 <= (lastBlock - firstBlock + 1) * BlockSize
      <4> HIDE DEF tail
      <4>1. QED
        BY <1>2, <3>1, <3>2
    <3>5. QED
      BY <1>1, <1>3, <3>1, <3>3, <3>4 DEF TailInLastBlock
  <2>6. ASSUME NEW pos \in 0 .. size' - 1 PROVE At(pos)' = claimed' + 1 + pos
    <3> DEFINE place == pos + frontBlockOffset
               b == (place \div BlockSize) + firstBlock
               i == place % BlockSize
    <3>1. /\ place \in Nat /\ place \div BlockSize \in Nat
          /\ i \in 0 .. BlockSize - 1 /\ b \in Nat
          /\ place = (place \div BlockSize) * BlockSize + i
      <4>1. place \in Nat /\ firstBlock \in Nat
        BY <1>0, <2>6, TypeFacts
      <4> HIDE DEF place
      <4>2. /\ place \div BlockSize \in Nat /\ i \in 0 .. BlockSize - 1
            /\ place = (place \div BlockSize) * BlockSize + i
        BY <1>2, <4>1, DivMod
      <4>3. QED
        BY <4>1, <4>2
    <3>2. At(pos)' = StoredNext(b, i) /\ At(pos) = Stored(b, i)
      BY <1>1 DEF At, Stored, StoredNext
    <3>3. CASE pos = size
      <4>1. place = tail
        BY <1>0, <3>3, TypeFacts
      <4>2. b = lastBlock /\ i = offset
        BY <1>0, <2>2, <4>1, TypeFacts DEF offset
      <4>3. StoredNext(b, i) = enqueued + 1
        <5> HIDE DEF b, i
        <5>1. QED
          BY <1>3, <2>3, <4>2 DEF StoredNext
      <4>4. claimed' + 1 + pos = enqueued + 1
        BY <1>0, <1>1, <2>1, <3>3, TypeFacts DEF InLine
      <4>5. QED
        BY <3>2, <4>3, <4>4
    <3>4. CASE pos < size
      <4>1. pos \in 0 .. size - 1
        BY <1>0, <1>1, <3>4, TypeFacts
      <4>2. ~(b = lastBlock /\ i = offset)
        <5>1. SUFFICES ASSUME b = lastBlock, i = offset PROVE FALSE
          OBVIOUS
        <5>2. place \div BlockSize = tail \div BlockSize
          BY <1>0, <2>2, <3>1, <5>1, TypeFacts
        <5>4. place = tail
          BY <1>2, <3>1, <5>1, <5>2
        <5>5. QED
          BY <1>0, <2>6, <3>4, <5>4, TypeFacts
      <4>3. StoredNext(b, i) = Stored(b, i)
        <5>1. \A k \in Nat, j \in 0 .. BlockSize - 1 :
                k # lastBlock \/ j # offset => StoredNext(k, j) = Stored(k, j)
          BY <2>4
        <5> HIDE DEF b, i
        <5>2. QED
          BY <3>1, <4>2, <5>1
      <4>4. At(pos) = claimed + 1 + pos
        BY <1>0, <2>1, <4>1 DEF InLine
      <4>5. QED
        BY <1>1, <3>2, <4>3, <4>4
    <3>5. QED
      BY <1>0, <1>1, <2>6, <3>3, <3>4, TypeFacts
  <2>7. InLine'
    <3>1. size' = enqueued' - claimed'
      BY <1>0, <1>1, <2>1, TypeFacts DEF InLine
    <3>2. QED
      BY <2>6, <3>1 DEF InLine
  <2>8. ClaimsBehind'
    BY <1>0, <1>1, <2>1 DEF ClaimsBehind, Behind, Pending
  <2>9. PlacesHold'
    <3>1. ASSUME NEW c \in Pending
          PROVE  Stored(claim[c].block, claim[c].offset)' = claim[c].ticket
      <4> DEFINE b == claim[c].block
                 i == claim[c].offset
      <4>1. /\ b \in Nat /\ i \in 0 .. BlockSize - 1
            /\ b < firstBlock \/ (b = firstBlock /\ i < frontBlockOffset)
            /\ Stored(b, i) = claim[c].ticket
        BY <1>0, <2>1 DEF TypeOK, Pending, ClaimsBehind, Behind, PlacesHold
      <4>2. b # lastBlock \/ i # offset
        <5>1. SUFFICES ASSUME b = lastBlock PROVE i # offset
          OBVIOUS
        <5>2. b = firstBlock /\ i < frontBlockOffset /\ tail \div BlockSize = 0
          BY <1>0, <2>2, <4>1, <5>1, TypeFacts
        <5>3. tail = 0 * BlockSize + offset
          BY <1>2, <5>2
        <5>4. tail = offset
          BY <1>2, <5>3
        <5>5. QED
          BY <1>0, <4>1, <5>2, <5>4, TypeFacts
      <4>3. StoredNext(b, i) = Stored(b, i)
        BY <2>4, <4>1, <4>2
      <4>4. QED
        BY <1>1, <4>1, <4>3 DEF Stored, StoredNext
    <3>2. QED
      BY <1>1, <3>1 DEF PlacesHold, Pending
  <2>10. QED
    BY <1>5, <1>6, <1>7, <2>5, <2>7, <2>8, <2>9 DEF IInv
<1>9. QED
  BY <1>5, <1>6, <1>7, <1>8, DerailedInv
-----------------------------------------------------------------------------
(* Growth.                                                                 *)

\* The array after reallocate holds blocks, and from an array whose first block
\* is the first it keeps them all.
LEMMA CopiedFacts ==
  ASSUME TypeOK
  PROVE  /\ DOMAIN Copied \subseteq 0 .. numBlocks - 1
         /\ \A k \in DOMAIN Copied : Copied[k] \in [0 .. BlockSize - 1 -> 0 .. MaxElements]
         /\ firstBlock = 0 => \A k \in 0 .. lastBlock :
              k \in DOMAIN data => k \in DOMAIN Copied /\ Copied[k] = data[k]
<1> DEFINE D == {i \in 0 .. numBlocks - 1 : firstBlock + i \in DOMAIN data}
<1>1. /\ D \subseteq 0 .. numBlocks - 1
      /\ \A k \in D : firstBlock + k \in DOMAIN data
      /\ firstBlock = 0 => \A k \in 0 .. lastBlock :
           firstBlock + k = k /\ (k \in DOMAIN data => k \in D)
  BY TypeFacts
<1>2. Copied = [b \in D |-> data[firstBlock + b]]
  BY DEF Copied
<1> HIDE DEF D
<1>3. DOMAIN Copied = D /\ \A k \in D : Copied[k] = data[firstBlock + k]
  BY <1>2
<1>4. \A k \in DOMAIN data : data[k] \in [0 .. BlockSize - 1 -> 0 .. MaxElements]
  BY DEF TypeOK
<1>5. QED
  BY <1>1, <1>3, <1>4

LEMMA GrownFacts ==
  ASSUME TypeOK
  PROVE  /\ GrownCapacity \in Nat /\ numBlocks + 1 <= GrownCapacity
         /\ DOMAIN GrownData \subseteq 0 .. GrownCapacity - 1
         /\ \A k \in DOMAIN GrownData :
              GrownData[k] \in [0 .. BlockSize - 1 -> 0 .. MaxElements]
         /\ firstBlock = 0 => \A k \in 0 .. lastBlock :
              k \in DOMAIN data => k \in DOMAIN GrownData /\ GrownData[k] = data[k]
<1>1. /\ GrownCapacity \in Nat /\ numBlocks + 1 <= GrownCapacity
      /\ capacity <= GrownCapacity
  BY TypeFacts DEF GrownCapacity, ArrayFull
<1>2. CASE ArrayFull
  <2>1. 0 .. numBlocks - 1 \subseteq 0 .. GrownCapacity - 1
    BY <1>1, TypeFacts
  <2>2. GrownData = Copied
    BY <1>2 DEF GrownData
  <2>3. QED
    BY <1>1, <2>1, <2>2, CopiedFacts
<1>3. CASE ~ArrayFull
  <2>1. 0 .. capacity - 1 \subseteq 0 .. GrownCapacity - 1
    BY <1>1, TypeFacts
  <2>2. GrownData = data
    BY <1>3 DEF GrownData
  <2>3. QED
    BY <1>1, <2>1, <2>2 DEF TypeOK
<1>4. QED
  BY <1>2, <1>3

\* The consumers whose array is freed still hold their counters.
LEMMA FreedFacts ==
  ASSUME TypeOK, pc' = Freed \/ pc' = GrownPc \/ pc' = pc
  PROVE  /\ pc' \in [Consumer -> {"idle", "claimed", "taken", "loaded", "freed"}]
         /\ Holding' = Holding
         /\ Pending' = Pending
<1>1. pc' = Freed \/ pc' = pc
  BY DEF GrownPc
<1>2. /\ pc \in [Consumer -> {"idle", "claimed", "taken", "loaded", "freed"}]
      /\ Freed \in [Consumer -> {"idle", "claimed", "taken", "loaded", "freed"}]
      /\ \A c \in Consumer : Freed[c] = IF pc[c] = "loaded" THEN "freed" ELSE pc[c]
  BY DEF TypeOK, Freed
<1>3. QED
  BY <1>1, <1>2 DEF Holding, Pending

\* A block more in the array.
LEMMA WithBlockFacts ==
  ASSUME TypeOK, NEW block \in [0 .. BlockSize - 1 -> 0 .. MaxElements],
         NEW b \in 0 .. numBlocks,
         data' = WithBlock(GrownData, b, block), capacity' = GrownCapacity
  PROVE  /\ DOMAIN data' \subseteq 0 .. capacity' - 1
         /\ \A k \in DOMAIN data' : data'[k] \in [0 .. BlockSize - 1 -> 0 .. MaxElements]
         /\ b \in DOMAIN data' /\ data'[b] = block
         /\ firstBlock = 0 => \A k \in 0 .. lastBlock :
              k \in DOMAIN data /\ k # b => k \in DOMAIN data' /\ data'[k] = data[k]
<1>1. /\ DOMAIN data' = DOMAIN GrownData \cup {b}
      /\ data'[b] = block
      /\ \A k \in DOMAIN GrownData : k # b => data'[k] = GrownData[k]
  BY DEF WithBlock
<1>2. b \in 0 .. capacity' - 1
  BY GrownFacts, TypeFacts
<1>3. QED
  BY <1>1, <1>2, GrownFacts

\* A block is needed only when the queue fills the array's first numBlocks.
LEMMA TailAtEnd ==
  ASSUME TypeOK, TailInLastBlock, ~derailed, NeedsBlock
  PROVE  LET tail == frontBlockOffset + size
         IN  /\ firstBlock = 0
             /\ tail = numBlocks * BlockSize
             /\ tail \div BlockSize = numBlocks
             /\ tail % BlockSize = 0
<1> DEFINE tail == frontBlockOffset + size
           q == tail \div BlockSize
           r == tail % BlockSize
           m == lastBlock - firstBlock + 1
<1>1. /\ tail \in Nat /\ BlockSize \in Nat \ {0} /\ BlockSize \in Nat
      /\ m \in Int /\ m = numBlocks - firstBlock /\ numBlocks \in Nat
      /\ firstBlock \in Nat
  BY TypeFacts
<1>2. tail <= m * BlockSize
  BY DEF TailInLastBlock
<1>3. q >= numBlocks
  BY DEF NeedsBlock
<1> HIDE DEF tail, m
<1>4. q \in Nat /\ r \in 0 .. BlockSize - 1 /\ tail = q * BlockSize + r
  BY <1>1, DivMod
<1> HIDE DEF q, r
<1>5. ~(m < q)
  <2>1. SUFFICES ASSUME m + 1 <= q PROVE FALSE
    BY <1>1, <1>4
  <2>2. (m + 1) * BlockSize <= q * BlockSize /\ (m + 1) * BlockSize = m * BlockSize + BlockSize
    BY <1>1, <1>4, <2>1, Product
  <2>3. m * BlockSize \in Int /\ q * BlockSize \in Int
    BY <1>1, <1>4, Product
  <2>4. QED
    BY <1>1, <1>2, <1>4, <2>2, <2>3
<1>6. firstBlock = 0 /\ m = numBlocks /\ q = numBlocks
  BY <1>1, <1>3, <1>4, <1>5
<1>7. r = 0 /\ tail = numBlocks * BlockSize
  <2>1. numBlocks * BlockSize \in Int
    BY <1>1, Product
  <2>2. QED
    BY <1>1, <1>2, <1>4, <1>6, <2>1
<1>8. QED
  BY <1>6, <1>7 DEF tail, q, r

LEMMA NewBlockInv ==
  ASSUME IInv, EnqueueNewBlock
  PROVE  IInv'
<1> DEFINE block == [NewBlock EXCEPT ![0] = enqueued + 1]
           tail == frontBlockOffset + size
<1>0. TypeOK /\ Counted /\ TailInLastBlock /\ ClaimsBehind /\ PlacesHold /\ InLine
  BY DEF IInv
<1>1. /\ enqueued < MaxElements /\ NeedsBlock
      /\ data' = WithBlock(GrownData, lastBlock + 1, block)
      /\ capacity' = GrownCapacity
      /\ pc' = GrownPc
      /\ numBlocks' = numBlocks + 1
      /\ lastBlock' = lastBlock + 1
      /\ size' = size + 1
      /\ enqueued' = enqueued + 1
      /\ UNCHANGED <<frontBlockOffset, firstBlock, counters, claim, claimed>>
      /\ UNCHANGED <<lost, derailed>>
  BY DEF EnqueueNewBlock, front
<1>2. /\ block \in [0 .. BlockSize - 1 -> 0 .. MaxElements]
      /\ block[0] = enqueued + 1
      /\ lastBlock + 1 = numBlocks /\ numBlocks \in 0 .. numBlocks
      /\ enqueued + 1 \in 0 .. MaxElements
  <2>1. /\ enqueued + 1 \in 0 .. MaxElements /\ 0 \in 0 .. MaxElements
        /\ 0 \in 0 .. BlockSize - 1 /\ lastBlock + 1 = numBlocks
        /\ numBlocks \in 0 .. numBlocks
    BY <1>0, <1>1, TypeFacts
  <2>2. QED
    BY <2>1 DEF NewBlock
<1> HIDE DEF block
<1>3. /\ DOMAIN data' \subseteq 0 .. capacity' - 1
      /\ \A k \in DOMAIN data' : data'[k] \in [0 .. BlockSize - 1 -> 0 .. MaxElements]
      /\ numBlocks \in DOMAIN data' /\ data'[numBlocks] = block
      /\ firstBlock = 0 => \A k \in 0 .. lastBlock :
           k \in DOMAIN data /\ k # numBlocks => k \in DOMAIN data' /\ data'[k] = data[k]
  BY <1>0, <1>1, <1>2, WithBlockFacts
<1>4. /\ pc' \in [Consumer -> {"idle", "claimed", "taken", "loaded", "freed"}]
      /\ Holding' = Holding
      /\ Pending' = Pending
  BY <1>0, <1>1, FreedFacts
<1>5. /\ claimed' + size' <= enqueued' /\ size' \in 0 .. MaxElements
      /\ numBlocks' \in 1 .. capacity' /\ lastBlock' = numBlocks' - 1
      /\ capacity' \in Nat
  <2>1. claimed' + size' <= enqueued' /\ size' \in 0 .. MaxElements
    BY <1>0, <1>1, TypeFacts DEF Counted
  <2>2. GrownCapacity \in Nat /\ numBlocks + 1 <= GrownCapacity
    BY <1>0, GrownFacts
  <2>3. numBlocks \in Nat /\ lastBlock = numBlocks - 1
    BY <1>0, TypeFacts
  <2>4. QED
    BY <1>1, <2>1, <2>2, <2>3
<1>6. TypeOK'
  BY <1>0, <1>1, <1>2, <1>3, <1>4, <1>5 DEF TypeOK
<1>7. Counted' /\ TicketsApart'
  BY <1>0, <1>1, <1>4, <1>5 DEF IInv, Counted, TicketsApart
<1>8. CASE ~derailed
  <2>1. /\ firstBlock = 0 /\ tail = numBlocks * BlockSize
        /\ tail \div BlockSize = numBlocks /\ tail % BlockSize = 0
    BY <1>0, <1>1, <1>8, TailAtEnd
  <2>2. ASSUME NEW k \in 0 .. lastBlock, NEW j
        PROVE  k \in DOMAIN data' /\ StoredNext(k, j) = Stored(k, j)
    <3>1. k \in DOMAIN data /\ k # numBlocks
      BY <1>0, <1>8, TypeFacts DEF TailInLastBlock
    <3>2. QED
      BY <1>3, <2>1, <3>1 DEF Stored, StoredNext
  <2>3. TailInLastBlock'
    <3>1. /\ frontBlockOffset' + size' = tail + 1
          /\ lastBlock' - firstBlock' = numBlocks
      <4>1. firstBlock = 0
        BY <2>1
      <4>2. QED
        BY <1>0, <1>1, <4>1, TypeFacts
    <3>2. /\ numBlocks * BlockSize \in Int
          /\ (numBlocks + 1) * BlockSize = numBlocks * BlockSize + BlockSize
      BY <1>0, TypeFacts, Product
    <3>3. numBlocks * BlockSize <= tail + 1 /\ tail + 1 <= (numBlocks + 1) * BlockSize
      <4> HIDE DEF tail
      <4>1. QED
        BY <1>0, <2>1, <3>2, TypeFacts
    <3>4. 0 .. lastBlock' \subseteq DOMAIN data'
      <4>1. \A k \in 0 .. lastBlock' : k \in 0 .. lastBlock \/ k = numBlocks
        BY <1>0, <1>1, <1>2, TypeFacts
      <4>2. QED
        BY <1>3, <2>2, <4>1
    <3>5. QED
      BY <3>1, <3>3, <3>4 DEF TailInLastBlock
  <2>4. ASSUME NEW pos \in 0 .. size' - 1 PROVE At(pos)' = claimed' + 1 + pos
    <3> DEFINE place == pos + frontBlockOffset
               b == place \div BlockSize
               i == place % BlockSize
    <3>1. place \in Nat
      BY <1>0, <1>1, <2>4, TypeFacts
    <3>2. b \in Nat /\ i \in 0 .. BlockSize - 1 /\ place = b * BlockSize + i
      <4> HIDE DEF place
      <4>1. QED
        BY <1>0, <3>1, DivMod, TypeFacts
    <3>3. At(pos)' = StoredNext(b, i) /\ At(pos) = Stored(b, i)
      <4>1. b + firstBlock = b
        BY <2>1, <3>2
      <4>2. QED
        BY <1>1, <4>1 DEF At, Stored, StoredNext
    <3>4. CASE pos = size
      <4>1. place = tail
        BY <1>0, <3>4, TypeFacts
      <4>2. b = numBlocks /\ i = 0
        BY <2>1, <4>1
      <4>3. StoredNext(b, i) = enqueued + 1
        <5> HIDE DEF b, i
        <5>1. QED
          BY <1>2, <1>3, <4>2 DEF StoredNext
      <4>4. claimed' + 1 + pos = enqueued + 1
        BY <1>0, <1>1, <1>8, <3>4, TypeFacts DEF InLine
      <4>5. QED
        BY <3>3, <4>3, <4>4
    <3>5. CASE pos < size
      <4>1. pos \in 0 .. size - 1 /\ place < tail
        BY <1>0, <1>1, <3>5, TypeFacts
      <4>2. b \in 0 .. lastBlock
        <5> HIDE DEF b, i, place, tail
        <5>1. SUFFICES ASSUME numBlocks <= b PROVE FALSE
          BY <1>0, <3>2, TypeFacts
        <5>2. numBlocks * BlockSize <= b * BlockSize /\ b * BlockSize \in Int
          BY <1>0, <3>2, <5>1, TypeFacts, Product
        <5>3. QED
          BY <1>0, <2>1, <3>2, <4>1, <5>2, TypeFacts
      <4>3. StoredNext(b, i) = Stored(b, i)
        BY <2>2, <4>2
      <4>4. At(pos) = claimed + 1 + pos
        BY <1>0, <1>8, <4>1 DEF InLine
      <4>5. QED
        BY <1>1, <3>3, <4>3, <4>4
    <3>6. QED
      BY <1>0, <1>1, <2>4, <3>4, <3>5, TypeFacts
  <2>5. InLine'
    <3>1. size' = enqueued' - claimed'
      BY <1>0, <1>1, <1>8, TypeFacts DEF InLine
    <3>2. QED
      BY <2>4, <3>1 DEF InLine
  <2>6. ClaimsBehind'
    BY <1>0, <1>1, <1>4, <1>8 DEF ClaimsBehind, Behind
  <2>7. PlacesHold'
    <3>1. ASSUME NEW c \in Pending
          PROVE  Stored(claim[c].block, claim[c].offset)' = claim[c].ticket
      <4>1. /\ claim[c].block \in Nat
            /\ Behind(claim[c])
            /\ Stored(claim[c].block, claim[c].offset) = claim[c].ticket
        BY <1>0, <1>8 DEF TypeOK, Pending, ClaimsBehind, PlacesHold
      <4>2. claim[c].block \in 0 .. lastBlock
        BY <1>0, <2>1, <4>1, TypeFacts DEF Behind
      <4>3. QED
        BY <1>1, <2>2, <4>1, <4>2 DEF Stored, StoredNext
    <3>2. QED
      BY <1>1, <1>4, <3>1 DEF PlacesHold
  <2>8. QED
    BY <1>6, <1>7, <2>3, <2>5, <2>6, <2>7 DEF IInv
<1>9. QED
  BY <1>1, <1>6, <1>7, <1>8, DerailedInv
\* A block that could not be allocated.
LEMMA FailsInv ==
  ASSUME IInv, EnqueueFails
  PROVE  IInv'
<1>0. TypeOK /\ Counted
  BY DEF IInv
<1>1. /\ data' = GrownData
      /\ capacity' = GrownCapacity
      /\ pc' = GrownPc
      /\ numBlocks' = numBlocks + 1
      /\ lastBlock' = lastBlock + 1
      /\ derailed' = TRUE
      /\ UNCHANGED <<frontBlockOffset, firstBlock, size, counters, claim>>
      /\ UNCHANGED <<enqueued, claimed, lost>>
  BY DEF EnqueueFails, front, history
<1>2. /\ pc' \in [Consumer -> {"idle", "claimed", "taken", "loaded", "freed"}]
      /\ Holding' = Holding
      /\ Pending' = Pending
  BY <1>0, <1>1, FreedFacts
<1>3. /\ GrownCapacity \in Nat /\ numBlocks + 1 <= GrownCapacity
      /\ DOMAIN GrownData \subseteq 0 .. GrownCapacity - 1
      /\ \A k \in DOMAIN GrownData :
           GrownData[k] \in [0 .. BlockSize - 1 -> 0 .. MaxElements]
  BY <1>0, GrownFacts
<1>4. numBlocks' \in 1 .. capacity' /\ lastBlock' = numBlocks' - 1
  BY <1>0, <1>1, <1>3, TypeFacts
<1>5. TypeOK'
  BY <1>0, <1>1, <1>2, <1>3, <1>4 DEF TypeOK
<1>6. Counted' /\ TicketsApart'
  BY <1>0, <1>1, <1>2 DEF IInv, Counted, TicketsApart
<1>7. QED
  BY <1>1, <1>5, <1>6, DerailedInv

\* The array is made larger.
LEMMA ReserveInv ==
  ASSUME IInv, NEW n \in 1 .. MaxReserve, Reserve(n)
  PROVE  IInv'
<1> DEFINE newSize == n \div BlockSize
<1>0. TypeOK /\ Counted /\ TailInLastBlock /\ ClaimsBehind /\ PlacesHold /\ InLine
  BY DEF IInv
<1>1. /\ n > capacity * BlockSize
      /\ data' = Copied
      /\ capacity' = newSize
      /\ pc' = Freed
      /\ derailed' = (derailed \/ firstBlock > 0)
      /\ UNCHANGED <<frontBlockOffset, firstBlock, lastBlock, numBlocks, size, counters>>
      /\ UNCHANGED <<claim, enqueued, claimed, lost>>
  BY DEF Reserve, Reallocate, front, history
<1>2. newSize \in Nat /\ capacity <= newSize
  <2>1. n \in Nat /\ capacity \in Nat /\ BlockSize \in Nat \ {0} /\ BlockSize \in Nat
    BY <1>0, BlockQueueAssumption, TypeFacts
  <2>2. newSize \in Nat /\ n % BlockSize \in 0 .. BlockSize - 1
        /\ n = newSize * BlockSize + (n % BlockSize)
    BY <2>1, DivMod
  <2> HIDE DEF newSize
  <2>3. SUFFICES ASSUME newSize + 1 <= capacity PROVE FALSE
    BY <2>1, <2>2
  <2>4. /\ (newSize + 1) * BlockSize <= capacity * BlockSize
        /\ (newSize + 1) * BlockSize = newSize * BlockSize + BlockSize
        /\ newSize * BlockSize \in Int /\ capacity * BlockSize \in Int
    BY <2>1, <2>2, <2>3, Product
  <2>5. QED
    BY <1>1, <2>1, <2>2, <2>4
<1> HIDE DEF newSize
<1>3. /\ pc' \in [Consumer -> {"idle", "claimed", "taken", "loaded", "freed"}]
      /\ Holding' = Holding
      /\ Pending' = Pending
  BY <1>0, <1>1, FreedFacts
<1>4. /\ DOMAIN data' \subseteq 0 .. capacity' - 1
      /\ \A k \in DOMAIN data' : data'[k] \in [0 .. BlockSize - 1 -> 0 .. MaxElements]
      /\ numBlocks' \in 1 .. capacity' /\ capacity' \in Nat
  <2>1. /\ DOMAIN Copied \subseteq 0 .. numBlocks - 1
        /\ \A k \in DOMAIN Copied : Copied[k] \in [0 .. BlockSize - 1 -> 0 .. MaxElements]
    BY <1>0, CopiedFacts
  <2>2. numBlocks \in 1 .. newSize /\ 0 .. numBlocks - 1 \subseteq 0 .. newSize - 1
    BY <1>0, <1>2, TypeFacts
  <2>3. QED
    BY <1>1, <1>2, <2>1, <2>2
<1>5. derailed' \in BOOLEAN
  BY <1>1
<1>6. TypeOK'
  BY <1>0, <1>1, <1>3, <1>4, <1>5 DEF TypeOK
<1>7. Counted' /\ TicketsApart'
  BY <1>0, <1>1, <1>3 DEF IInv, Counted, TicketsApart
<1>8. CASE ~derailed'
  <2>1. ~derailed /\ firstBlock = 0
    <3>1. ~derailed /\ ~(firstBlock > 0)
      BY <1>1, <1>8
    <3>2. QED
      BY <1>0, <3>1, TypeFacts
  <2>2. ASSUME NEW k \in 0 .. lastBlock, NEW j
        PROVE  k \in DOMAIN data' /\ StoredNext(k, j) = Stored(k, j)
    <3>1. k \in DOMAIN data
      BY <1>0, <2>1 DEF TailInLastBlock
    <3>2. k \in DOMAIN Copied /\ Copied[k] = data[k]
      BY <1>0, <2>1, <3>1, CopiedFacts
    <3>3. QED
      BY <1>1, <3>1, <3>2 DEF Stored, StoredNext
  <2>3. TailInLastBlock'
    BY <1>0, <1>1, <2>1, <2>2 DEF TailInLastBlock
  <2>4. ASSUME NEW pos \in 0 .. size - 1 PROVE At(pos)' = At(pos)
    <3> DEFINE place == pos + frontBlockOffset
               b == place \div BlockSize
               i == place % BlockSize
    <3>1. /\ place \in Nat /\ place < frontBlockOffset + size
          /\ frontBlockOffset + size <= numBlocks * BlockSize
      <4>1. frontBlockOffset + size <= (lastBlock - firstBlock + 1) * BlockSize
        BY <1>0, <2>1 DEF TailInLastBlock
      <4>2. lastBlock - firstBlock + 1 = numBlocks
        BY <1>0, <2>1, TypeFacts
      <4>3. QED
        BY <1>0, <2>4, <4>1, <4>2, TypeFacts
    <3>2. b \in Nat /\ i \in 0 .. BlockSize - 1 /\ place = b * BlockSize + i
      <4> HIDE DEF place
      <4>1. QED
        BY <1>0, <3>1, DivMod, TypeFacts
    <3>3. At(pos)' = StoredNext(b, i) /\ At(pos) = Stored(b, i)
      <4>1. b + firstBlock = b
        BY <2>1, <3>2
      <4>2. QED
        BY <1>1, <4>1 DEF At, Stored, StoredNext
    <3>4. b \in 0 .. lastBlock
      <4> HIDE DEF b, i, place
      <4>1. SUFFICES ASSUME numBlocks <= b PROVE FALSE
        BY <1>0, <3>2, TypeFacts
      <4>2. /\ numBlocks * BlockSize <= b * BlockSize
            /\ b * BlockSize \in Int /\ numBlocks * BlockSize \in Int
        BY <1>0, <3>2, <4>1, TypeFacts, Product
      <4>3. QED
        BY <1>0, <3>1, <3>2, <4>2, TypeFacts
    <3>5. QED
      BY <2>2, <3>3, <3>4
  <2>5. InLine'
    BY <1>0, <1>1, <2>1, <2>4 DEF InLine
  <2>6. ClaimsBehind'
    BY <1>0, <1>1, <1>3, <2>1 DEF ClaimsBehind, Behind
  <2>7. PlacesHold'
    <3>1. ASSUME NEW c \in Pending
          PROVE  Stored(claim[c].block, claim[c].offset)' = claim[c].ticket
      <4>1. /\ claim[c].block \in Nat
            /\ Behind(claim[c])
            /\ Stored(claim[c].block, claim[c].offset) = claim[c].ticket
        BY <1>0, <2>1 DEF TypeOK, Pending, ClaimsBehind, PlacesHold
      <4>2. claim[c].block \in 0 .. lastBlock
        BY <1>0, <2>1, <4>1, TypeFacts DEF Behind
      <4>3. QED
        BY <1>1, <2>2, <4>1, <4>2 DEF Stored, StoredNext
    <3>2. QED
      BY <1>1, <1>3, <3>1 DEF PlacesHold
  <2>8. QED
    BY <1>6, <1>7, <2>3, <2>5, <2>6, <2>7 DEF IInv
<1>9. QED
  BY <1>6, <1>7, <1>8, DerailedInv

LEMMA ClearInv ==
  ASSUME IInv, Clear
  PROVE  IInv'
<1>0. TypeOK /\ Counted
  BY DEF IInv
<1>1. /\ data' = OneBlock
      /\ frontBlockOffset' = 0 /\ firstBlock' = 0 /\ lastBlock' = 0 /\ size' = 0
      /\ numBlocks' = 1 /\ capacity' = BaseAllocation /\ claimed' = enqueued
      /\ pc' = Freed
      /\ UNCHANGED <<counters, claim, enqueued, lost>>
      /\ Pending = {} \/ derailed' = TRUE
  BY DEF Clear
<1>2. /\ pc' \in [Consumer -> {"idle", "claimed", "taken", "loaded", "freed"}]
      /\ Holding' = Holding
      /\ Pending' = Pending
  BY <1>0, <1>1, FreedFacts
<1>3. /\ BlockSize \in Nat \ {0} /\ BaseAllocation \in Nat \ {0} /\ MaxElements \in Nat
  BY BlockQueueAssumption
<1>4. /\ DOMAIN data' \subseteq 0 .. capacity' - 1
      /\ \A k \in DOMAIN data' : data'[k] \in [0 .. BlockSize - 1 -> 0 .. MaxElements]
      /\ 0 .. lastBlock' \subseteq DOMAIN data'
  <2>1. NewBlock \in [0 .. BlockSize - 1 -> 0 .. MaxElements]
    BY <1>3 DEF NewBlock
  <2>2. QED
    BY <1>1, <1>3, <2>1 DEF OneBlock
<1>5. /\ frontBlockOffset' \in 0 .. BlockSize /\ firstBlock' \in Nat
      /\ numBlocks' \in 1 .. capacity' /\ lastBlock' = numBlocks' - 1
      /\ size' \in 0 .. MaxElements /\ capacity' \in Nat
      /\ claimed' \in 0 .. MaxElements
  BY <1>0, <1>1, <1>3 DEF TypeOK
<1>6. derailed' \in BOOLEAN
  BY DEF Clear
<1>7. TypeOK'
  BY <1>0, <1>1, <1>2, <1>4, <1>5, <1>6 DEF TypeOK
<1>8. Counted' /\ TicketsApart'
  <2>1. claimed' + size' <= enqueued' /\ claimed' >= claimed
    BY <1>0, <1>1, TypeFacts DEF Counted
  <2>2. Counted'
    BY <1>0, <1>1, <1>2, <2>1 DEF Counted
  <2>3. QED
    BY <1>0, <1>1, <1>2, <1>7, <2>1, <2>2, TicketsStay DEF IInv
<1>9. CASE Pending = {}
  <2>1. TailInLastBlock'
    BY <1>1, <1>3, <1>4 DEF TailInLastBlock
  <2>2. InLine'
    BY <1>0, <1>1, TypeFacts DEF InLine
  <2>3. ClaimsBehind' /\ PlacesHold'
    BY <1>2, <1>9 DEF ClaimsBehind, PlacesHold
  <2>4. QED
    BY <1>7, <1>8, <2>1, <2>2, <2>3 DEF IInv
<1>10. QED
  BY <1>1, <1>7, <1>8, <1>9, DerailedInv

\* The array is freed, and no other is found.
LEMMA ClearFailsInv ==
  ASSUME IInv, ClearFails
  PROVE  IInv'
<1>0. TypeOK /\ Counted
  BY DEF IInv
<1>1. /\ data' = [b \in {} |-> NewBlock] /\ DOMAIN data' = {}
      /\ pc' = Freed
      /\ derailed' = TRUE
      /\ UNCHANGED <<frontBlockOffset, firstBlock, lastBlock, numBlocks, capacity>>
      /\ UNCHANGED <<size, counters, claim, enqueued, claimed>>
  BY DEF ClearFails, front
<1>2. /\ pc' \in [Consumer -> {"idle", "claimed", "taken", "loaded", "freed"}]
      /\ Holding' = Holding
      /\ Pending' = Pending
  BY <1>0, <1>1, FreedFacts
<1>3. lost' \in BOOLEAN
  BY <1>0 DEF ClearFails, TypeOK
<1>4. TypeOK'
  BY <1>0, <1>1, <1>2, <1>3 DEF TypeOK
<1>5. Counted' /\ TicketsApart'
  BY <1>0, <1>1, <1>2 DEF IInv, Counted, TicketsApart
<1>6. QED
  BY <1>1, <1>4, <1>5, DerailedInv

(***************************************************************************)
(* Whatever the queues have in common preserves the invariant.             *)
(***************************************************************************)
LEMMA SharedInv ==
  ASSUME IInv, Shared
  PROVE  IInv'
<1>1. CASE Enqueue
  BY <1>1, InPlaceInv, NewBlockInv, FailsInv DEF Enqueue
<1>2. CASE DequeueEmpty \/ Front
  BY <1>2, RollInv DEF DequeueEmpty, Front
<1>3. CASE \E n \in 1 .. MaxReserve : Reserve(n)
  BY <1>3, ReserveInv
<1>4. CASE Clear \/ ClearFails
  BY <1>4, ClearInv, ClearFailsInv
<1>5. CASE \E c \in Consumer : Dequeue(c)
  BY <1>5, ClaimInv, ThreadInv DEF Dequeue
<1>6. QED
  BY <1>1, <1>2, <1>3, <1>4, <1>5 DEF Shared

\* Claims of different elements, all of them where they should be, are of
\* different places.
LEMMA HoldsApart ==
  ASSUME IInv
  PROVE  ClaimHolds
<1> SUFFICES ASSUME ~derailed, NEW c \in Pending
             PROVE  /\ Stored(claim[c].block, claim[c].offset) = claim[c].ticket
                    /\ \A d \in Pending \ {c} : Place(d) # Place(c)
  BY DEF ClaimHolds
<1>1. \A d \in Pending : Stored(claim[d].block, claim[d].offset) = claim[d].ticket
  BY DEF IInv, PlacesHold
<1>2. ASSUME NEW d \in Pending \ {c} PROVE Place(d) # Place(c)
  <2>1. SUFFICES ASSUME claim[d].block = claim[c].block, claim[d].offset = claim[c].offset
                 PROVE  FALSE
    BY DEF Place
  <2>2. claim[d].ticket = claim[c].ticket
    BY <1>1, <2>1
  <2>3. QED
    BY <2>2 DEF IInv, TicketsApart
<1>3. QED
  BY <1>1, <1>2

LEMMA StutterInv ==
  ASSUME IInv, UNCHANGED vars
  PROVE  IInv'
<1>1. UNCHANGED <<data, frontBlockOffset, firstBlock, lastBlock, size, numBlocks, capacity,
                  counters, pc, claim, enqueued, claimed, lost, derailed>>
  BY DEF vars, front, blocks, threads, history
<1>2. TypeOK' /\ Counted' /\ TicketsApart'
  BY <1>1 DEF IInv, TypeOK, Counted, Holding, TicketsApart, Pending
<1>3. TailInLastBlock' /\ InLine' /\ ClaimsBehind' /\ PlacesHold'
  BY <1>1 DEF IInv, TailInLastBlock, InLine, At, Stored, ClaimsBehind, Behind,
     PlacesHold, Pending
<1>4. QED
  BY <1>2, <1>3 DEF IInv

-----------------------------------------------------------------------------
(* One producer, several consumers.                                        *)

\* The block handed over is there, whatever it does to the order.
LEMMA EnqueueBlockInv ==
  ASSUME IInv, EnqueueBlock
  PROVE  IInv'
<1> DEFINE full == [i \in 0 .. BlockSize - 1 |-> enqueued + 1 + i]
           moved == IF lastBlock \in DOMAIN GrownData
                    THEN WithBlock(GrownData, lastBlock + 1, GrownData[lastBlock])
                    ELSE GrownData
<1>0. TypeOK /\ Counted
  BY DEF IInv
<1>1. /\ enqueued + BlockSize <= MaxElements
      /\ data' = WithBlock(moved, lastBlock, full)
      /\ capacity' = GrownCapacity
      /\ pc' = GrownPc
      /\ enqueued' = enqueued + BlockSize
      /\ derailed' = TRUE
      /\ UNCHANGED <<frontBlockOffset, firstBlock, lastBlock, numBlocks, size, counters>>
      /\ UNCHANGED <<claim, claimed, lost>>
  BY DEF EnqueueBlock, front
<1>2. /\ pc' \in [Consumer -> {"idle", "claimed", "taken", "loaded", "freed"}]
      /\ Holding' = Holding
      /\ Pending' = Pending
  BY <1>0, <1>1, FreedFacts
<1>3. full \in [0 .. BlockSize - 1 -> 0 .. MaxElements]
  <2>1. BlockSize \in Nat /\ enqueued \in Nat /\ MaxElements \in Nat
    BY <1>0, TypeFacts
  <2>2. \A i \in 0 .. BlockSize - 1 : enqueued + 1 + i \in 0 .. MaxElements
    BY <1>1, <2>1
  <2>3. QED
    BY <2>2
<1>4. /\ GrownCapacity \in Nat /\ numBlocks + 1 <= GrownCapacity
      /\ DOMAIN GrownData \subseteq 0 .. GrownCapacity - 1
      /\ \A k \in DOMAIN GrownData :
           GrownData[k] \in [0 .. BlockSize - 1 -> 0 .. MaxElements]
  BY <1>0, GrownFacts
<1>5. /\ lastBlock \in 0 .. GrownCapacity - 1 /\ lastBlock + 1 \in 0 .. GrownCapacity - 1
      /\ numBlocks \in 1 .. GrownCapacity
  BY <1>0, <1>4, TypeFacts
<1> HIDE DEF full
<1>6. /\ DOMAIN moved \subseteq 0 .. GrownCapacity - 1
      /\ \A k \in DOMAIN moved : moved[k] \in [0 .. BlockSize - 1 -> 0 .. MaxElements]
  <2>1. CASE lastBlock \in DOMAIN GrownData
    BY <1>4, <1>5, <2>1 DEF WithBlock
  <2>2. CASE lastBlock \notin DOMAIN GrownData
    BY <1>4, <2>2
  <2>3. QED
    BY <2>1, <2>2
<1> HIDE DEF moved
<1>7. /\ DOMAIN data' \subseteq 0 .. capacity' - 1
      /\ \A k \in DOMAIN data' : data'[k] \in [0 .. BlockSize - 1 -> 0 .. MaxElements]
  BY <1>1, <1>3, <1>5, <1>6 DEF WithBlock
<1>8. /\ enqueued' \in 0 .. MaxElements /\ claimed' + size' <= enqueued'
  BY <1>0, <1>1, TypeFacts DEF Counted
<1>9. TypeOK'
  BY <1>0, <1>1, <1>2, <1>4, <1>5, <1>7, <1>8 DEF TypeOK
<1>10. Counted' /\ TicketsApart'
  BY <1>0, <1>1, <1>2, <1>8 DEF IInv, Counted, TicketsApart
<1>11. QED
  BY <1>1, <1>9, <1>10, DerailedInv

(***************************************************************************)
(* The inductive invariant of the queue of one producer.                   *)
(***************************************************************************)
THEOREM SPMCInvariance == SPMCSpec => []IInv
<1>1. IInv /\ [SPMCNext]_vars => IInv'
  BY SharedInv, EnqueueBlockInv, StutterInv DEF SPMCNext
<1>2. QED
  BY InitInv, <1>1, PTL DEF SPMCSpec

\* The bookkeeping keeps its types: no index leaves the array of blocks, and no
\* consumer destroys a counter that is not there.
THEOREM SPMCTypeCorrect == SPMCSpec => []TypeOK
<1>1. IInv => TypeOK
  BY DEF IInv
<1>2. QED
  BY SPMCInvariance, <1>1, PTL

\* What is in the queue is in order, where operator[] looks for it, until an
\* action of BlockQueue or SPMCQueue sets derailed.
THEOREM SPMCElementsInLine == SPMCSpec => []InLine
<1>1. IInv => InLine
  BY DEF IInv
<1>2. QED
  BY SPMCInvariance, <1>1, PTL

\* A consumer that has let go of the lock finds the element it claimed in the
\* array it is to read, unless that is freed under it, and nobody else has it.
THEOREM SPMCClaimsKept == SPMCSpec => []ClaimHolds
<1>1. IInv => ClaimHolds
  BY HoldsApart
<1>2. QED
  BY SPMCInvariance, <1>1, PTL

-----------------------------------------------------------------------------
(* Several producers, one consumer.                                        *)

(***************************************************************************)
(* The inductive invariant of the queue of one consumer.                   *)
(***************************************************************************)
THEOREM MPSCInvariance == MPSCSpec => []IInv
<1>1. MPSCNext => Shared
  BY DEF MPSCNext, Produce, Consume, Maintain, Shared
<1>2. IInv /\ [MPSCNext]_vars => IInv'
  BY <1>1, SharedInv, StutterInv
<1>3. QED
  BY InitInv, <1>2, PTL DEF MPSCSpec

\* What is in the queue is in order, where operator[] looks for it, until an
\* action of BlockQueue or SPMCQueue sets derailed.
THEOREM MPSCElementsInLine == MPSCSpec => []InLine
<1>1. IInv => InLine
  BY DEF IInv
<1>2. QED
  BY MPSCInvariance, <1>1, PTL

\* The consumer, that has let go of the lock, finds the element it claimed in
\* the array it is to read, unless that is freed under it.
THEOREM MPSCClaimKept == MPSCSpec => []ClaimHolds
<1>1. IInv => ClaimHolds
  BY HoldsApart
<1>2. QED
  BY MPSCInvariance, <1>1, PTL

-----------------------------------------------------------------------------
(* The consumer's counter.                                                 *)

\* A consumer that waits for a counter finds one: it left one for itself when
\* it claimed its place.
CounterLeft == \A c \in Consumer :
                 pc[c] = "claimed" => Cardinality(Holding) < counters

LEMMA CounterLeftInv ==
  ASSUME IInv, CounterLeft, SingleConsumer, MPSCNext
  PROVE  CounterLeft'
<1>0. /\ TypeOK /\ Counted
      /\ \A c, d \in Consumer : c = d
  <2>1. TypeOK /\ Counted
    BY DEF IInv
  <2>2. IsFiniteSet(Consumer) /\ Cardinality(Consumer) = 1
    BY BlockQueueAssumption DEF SingleConsumer
  <2>3. PICK x : Consumer = {x}
    BY <2>2, FS_Singleton
  <2>4. QED
    BY <2>1, <2>3
<1> SUFFICES ASSUME NEW c \in Consumer, pc'[c] = "claimed"
             PROVE  Cardinality(Holding') < counters'
  BY DEF CounterLeft
<1>1. Holding' = {}
  <2>1. Holding' \subseteq {c} /\ c \notin Holding'
    BY <1>0 DEF Holding
  <2>2. QED
    BY <2>1
<1>2. Cardinality(Holding') = 0
  BY <1>1, FS_EmptySet
<1>3. CASE pc[c] = "claimed" /\ counters' = counters
  <2>1. Cardinality(Holding) < counters /\ Cardinality(Holding) \in Nat /\ counters \in Nat
    BY <1>0, <1>3, HoldingFinite, TypeFacts DEF CounterLeft
  <2>2. QED
    BY <1>2, <1>3, <2>1
<1>4. CASE DequeueClaim(c)
  <2>1. RollCounters \in Nat /\ FrontOffset \in 0 .. BlockSize - 1
        /\ counters \in Nat /\ BlockSize \in Nat
    BY <1>0, RollFacts, TypeFacts DEF RollCounters
  <2>2. AllCounters > 0
    BY <2>1 DEF AllCounters
  <2>3. QED
    BY <1>2, <1>4, <2>2 DEF DequeueClaim
<1>5. Shared
  BY DEF MPSCNext, Produce, Consume, Maintain, Shared
<1>6. CASE Enqueue
  <2>1. counters' = counters /\ (pc' = pc \/ pc' = Freed)
    BY <1>6 DEF Enqueue, EnqueueInPlace, EnqueueNewBlock, EnqueueFails, GrownPc, threads
  <2>2. QED
    BY <1>0, <1>3, <2>1 DEF Freed, TypeOK
<1>7. CASE \/ DequeueEmpty \/ Front \/ Clear \/ ClearFails
           \/ \E n \in 1 .. MaxReserve : Reserve(n)
  <2>1. counters' = counters /\ (pc' = pc \/ pc' = Freed)
    BY <1>7 DEF DequeueEmpty, Front, Clear, ClearFails, Reserve, Reallocate, threads
  <2>2. QED
    BY <1>0, <1>3, <2>1 DEF Freed, TypeOK
<1>8. CASE \E d \in Consumer : Dequeue(d)
  <2>1. Dequeue(c)
    BY <1>0, <1>8
  <2>2. DequeueClaim(c)
    BY <1>0, <2>1 DEF Dequeue, TakeCounter, LoadArray, Read, TypeOK
  <2>3. QED
    BY <1>4, <2>2
<1>9. QED
  BY <1>5, <1>6, <1>7, <1>8 DEF Shared

(***************************************************************************)
(* The one consumer never waits for a counter nobody adds: the safety half *)
(* of DequeueFinishes.                                                     *)
(***************************************************************************)
THEOREM ConsumerNeverWaits ==
  ASSUME SingleConsumer
  PROVE  MPSCSpec => []CounterLeft
<1>1. Init => CounterLeft
  BY DEF Init, CounterLeft
<1>2. IInv /\ CounterLeft /\ [MPSCNext]_vars => CounterLeft'
  <2>1. ASSUME CounterLeft, UNCHANGED vars PROVE CounterLeft'
    BY <2>1 DEF CounterLeft, Holding, vars, threads
  <2>2. QED
    BY <2>1, CounterLeftInv
<1>3. QED
  BY MPSCInvariance, <1>1, <1>2, PTL DEF MPSCSpec
=============================================================================
