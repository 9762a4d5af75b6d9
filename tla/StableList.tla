----------------------------- MODULE StableList -----------------------------
(***************************************************************************)
(* src/stable_list/stable_list.c: a list in one block of memory, with     *)
(* room at both ends.  The elements lie at front .. front + size - 1; an   *)
(* iRef is a position plus iRefOffset, which every reallocation corrects   *)
(* so that the sum, and with it the iRef, stays what it was.               *)
(*                                                                         *)
(* size_t has W values and wraps.  data is the function of the positions   *)
(* that hold an element.  What lies past the block is undefined behaviour: *)
(* a call that reaches there, or leaves size at less than nothing, sets    *)
(* corrupt, after which nothing is said of the list.                       *)
(***************************************************************************)
EXTENDS Integers, Sequences

CONSTANTS
  Value,            \* the elements a client stores
  None,             \* the absence of an out-parameter
  W,                \* the number of values of size_t, 2^64 in the code
  Increment,        \* FSDS_STABLE_LIST_INSTANCE_IREF_OFFSET_INCREMENT, 2^32
  MaxCapacity       \* the largest capacity aligned_alloc can be asked for

ASSUME StableListAssumption ==
  /\ MaxCapacity \in Nat
  /\ W \in Nat
  /\ 2 * MaxCapacity < W
  /\ Increment \in 1 .. W - 1

VARIABLES
  memBlock,                  \* the list has a memory block
  size,
  capacity,
  front,
  iRefOffset,
  instanceIRefOffsetStart,
  reallocationFrontMargin,
  data,
  globalInstanceIRefOffset,
  corrupt,                   \* a call has reached outside the block
  ret                        \* error code and out-parameter of the last call

origin == <<instanceIRefOffsetStart, reallocationFrontMargin,
            globalInstanceIRefOffset>>
layout == <<capacity, front, iRefOffset>>
contents == <<size, data>>
header == <<layout, contents, origin>>
vars == <<memBlock, header, corrupt, ret>>

-----------------------------------------------------------------------------
SizeT == 0 .. W - 1

\* Unsigned sums and differences.
Plus(a, b) == IF a + b < W THEN a + b ELSE a + b - W
Minus_Signed(a, b) == a - b
Minus(a, b) == IF b <= a THEN a - b ELSE a - b + W

Code == {"SUCCESS", "ALOCATION_FAILED", "INDEX_OUT_OF_BOUNDS",
         "CAPACITY_TOO_SMALL", "IREF_INVALID", "IREF_DIFFERENT_INSTANCE"}
Returns(code, out) == ret' = [code |-> code, out |-> out]

NoData == [p \in {} |-> None]

\* The list is there and no call has corrupted it.
Usable == memBlock /\ ~corrupt

\* What undefined behaviour leaves of the model's state: nothing of note.
Corrupt == corrupt' = TRUE /\ UNCHANGED <<memBlock, header, ret>>
-----------------------------------------------------------------------------
(***************************************************************************)
(* Reallocation.                                                           *)
(***************************************************************************)

\* aligned_alloc may fail whenever it likes, and must past MaxCapacity.
CanAllocate(n) == n <= MaxCapacity

\* The old block is put back: a failed growth changes nothing.
FailAllocation == /\ Returns("ALOCATION_FAILED", None)
                  /\ UNCHANGED <<memBlock, header, corrupt>>

Rebased_Kept(newFront) == iRefOffset
\* iRefOffset once the elements start at newFront.
Rebased(newFront) == Minus(Plus(iRefOffset, front), newFront)

NumElementsToCopy(newCapacity) == IF newCapacity < size THEN newCapacity ELSE size

\* data once the elements have been copied to newFront.
Moved(newCapacity, newFront) ==
  [p \in newFront .. newFront + NumElementsToCopy(newCapacity) - 1 |->
     data[p - newFront + front]]

\* The new block has room for n elements from newFront on.
Fits(newCapacity, newFront, n) == newFront + n <= newCapacity

Layout(newCapacity, newFront) == /\ capacity' = newCapacity
                                 /\ front' = newFront
                                 /\ iRefOffset' = Rebased(newFront)

Reallocate(newCapacity, newFront) ==
  \/ FailAllocation
  \/ /\ CanAllocate(newCapacity)
     /\ size > 0 => Fits(newCapacity, newFront, size)
     /\ Layout(newCapacity, newFront)
     /\ data' = Moved(newCapacity, newFront)
     /\ Returns("SUCCESS", None)
     /\ UNCHANGED <<memBlock, size, origin, corrupt>>
  \/ /\ CanAllocate(newCapacity)
     /\ size > 0
     /\ ~Fits(newCapacity, newFront, size)
     /\ Corrupt
-----------------------------------------------------------------------------
ConstructSizeFront(initialCapacity, frontMargin) ==
  /\ ~memBlock
  /\ \/ /\ CanAllocate(initialCapacity)
        /\ memBlock' = TRUE
        /\ size' = 0
        /\ data' = NoData
        /\ capacity' = initialCapacity
        /\ front' = frontMargin
        /\ iRefOffset' = globalInstanceIRefOffset
        /\ instanceIRefOffsetStart' = globalInstanceIRefOffset
        /\ reallocationFrontMargin' = frontMargin
        /\ globalInstanceIRefOffset' = Plus(globalInstanceIRefOffset, Increment)
        /\ Returns("SUCCESS", None)
        /\ UNCHANGED corrupt
     \/ FailAllocation

\* The header goes with the block; only the global offset outlives it.
Gone == /\ memBlock' = FALSE
        /\ size' = 0
        /\ data' = NoData
        /\ capacity' = 0
        /\ front' = 0
        /\ iRefOffset' = 0
        /\ instanceIRefOffsetStart' = 0
        /\ reallocationFrontMargin' = 0

Destroy == /\ Usable
           /\ Gone
           /\ Returns("SUCCESS", None)
           /\ UNCHANGED <<globalInstanceIRefOffset, corrupt>>

Reserve(newCapacity) ==
  /\ Usable
  /\ \/ /\ newCapacity < size
        /\ Returns("CAPACITY_TOO_SMALL", None)
        /\ UNCHANGED <<memBlock, header, corrupt>>
     \/ /\ newCapacity >= size
        /\ Reallocate(newCapacity, reallocationFrontMargin)

ShrinkToFit == Usable /\ Reallocate(size, 0)

Clear == /\ Usable
         /\ size' = 0
         /\ data' = NoData
         /\ Returns("SUCCESS", None)
         /\ UNCHANGED <<memBlock, layout, origin, corrupt>>
-----------------------------------------------------------------------------
(***************************************************************************)
(* Adding and removing.  An append returns the address of the new element; *)
(* the client writes v there.                                              *)
(***************************************************************************)
Extended(d, p, v) == [q \in DOMAIN d \cup {p} |-> IF q = p THEN v ELSE d[q]]

\* One more element, with the block as it is.
AppendFrontInPlace(v) ==
  /\ Usable
  /\ front # 0
  /\ \/ /\ front <= capacity
        /\ front' = front - 1
        /\ size' = size + 1
        /\ data' = Extended(data, front - 1, v)
        /\ Returns("SUCCESS", None)
        /\ UNCHANGED <<memBlock, capacity, iRefOffset, origin, corrupt>>
     \/ /\ front > capacity
        /\ Corrupt

\* One more element in a new block, that has room for at least one in front.
AppendFrontGrowing(v) ==
  LET margin == IF reallocationFrontMargin = 0 THEN 1 ELSE reallocationFrontMargin
      newCapacity == capacity + margin
  IN  /\ Usable
      /\ front = 0
      /\ \/ FailAllocation
         \/ /\ CanAllocate(newCapacity)
            /\ Fits(newCapacity, margin, size)
            /\ capacity' = newCapacity
            /\ front' = margin - 1
            /\ iRefOffset' = Rebased(margin)
            /\ size' = size + 1
            /\ data' = Extended(Moved(newCapacity, margin), margin - 1, v)
            /\ Returns("SUCCESS", None)
            /\ UNCHANGED <<memBlock, origin, corrupt>>
         \/ /\ CanAllocate(newCapacity)
            /\ ~Fits(newCapacity, margin, size)
            /\ Corrupt

AppendBackInPlace_Late(v) ==
  /\ Usable
  /\ front + size <= capacity
  /\ size' = size + 1
  /\ data' = Extended(data, front + size, v)
  /\ Returns("SUCCESS", None)
  /\ UNCHANGED <<memBlock, layout, origin, corrupt>>
AppendBackInPlace(v) ==
  /\ Usable
  /\ front + size < capacity
  /\ size' = size + 1
  /\ data' = Extended(data, front + size, v)
  /\ Returns("SUCCESS", None)
  /\ UNCHANGED <<memBlock, layout, origin, corrupt>>

GrownCapacity_ByOne == capacity + 1
GrownCapacity == capacity * 2

AppendBackGrowing(v) ==
  LET newCapacity == GrownCapacity
      newFront == reallocationFrontMargin
  IN  /\ Usable
      /\ front + size >= capacity
      /\ \/ FailAllocation
         \/ /\ CanAllocate(newCapacity)
            /\ Fits(newCapacity, newFront, size + 1)
            /\ Layout(newCapacity, newFront)
            /\ size' = size + 1
            /\ data' = Extended(Moved(newCapacity, newFront), newFront + size, v)
            /\ Returns("SUCCESS", None)
            /\ UNCHANGED <<memBlock, origin, corrupt>>
         \/ /\ CanAllocate(newCapacity)
            /\ ~Fits(newCapacity, newFront, size + 1)
            /\ Corrupt

AppendFront(v) == AppendFrontInPlace(v) \/ AppendFrontGrowing(v)
AppendBack(v) == AppendBackInPlace(v) \/ AppendBackGrowing(v)

\* Neither removal looks whether there is an element: with none, size wraps to
\* W - 1, the list claims elements it has no memory for, and the model stops.
RemoveFront ==
  /\ Usable
  /\ \/ /\ size > 0
        /\ front' = front + 1
        /\ size' = size - 1
        /\ data' = [p \in front + 1 .. front + size - 1 |-> data[p]]
        /\ Returns("SUCCESS", None)
        /\ UNCHANGED <<memBlock, capacity, iRefOffset, origin, corrupt>>
     \/ size = 0 /\ Corrupt

RemoveBack ==
  /\ Usable
  /\ \/ /\ size > 0
        /\ size' = size - 1
        /\ data' = [p \in front .. front + size - 2 |-> data[p]]
        /\ Returns("SUCCESS", None)
        /\ UNCHANGED <<memBlock, layout, origin, corrupt>>
     \/ size = 0 /\ Corrupt
-----------------------------------------------------------------------------
(***************************************************************************)
(* Access.                                                                 *)
(***************************************************************************)
Answers(code, out) == /\ Usable
                      /\ Returns(code, out)
                      /\ UNCHANGED <<memBlock, header, corrupt>>

GetElementIndex(index) == IF index >= size
                          THEN Answers("INDEX_OUT_OF_BOUNDS", None)
                          ELSE Answers("SUCCESS", data[index + front])

\* The index an iRef stands for: at least size when it stands for none.
IndexOf(iRef) == Minus(Minus(iRef, iRefOffset), front)

IRefError(iRef) ==
  IF \/ iRef < instanceIRefOffsetStart
     \/ iRef >= Plus(instanceIRefOffsetStart, Increment)
  THEN "IREF_DIFFERENT_INSTANCE"
  ELSE "IREF_INVALID"

Valid(iRef) == IndexOf(iRef) < size

GetElementIRef(iRef) == IF Valid(iRef)
                        THEN Answers("SUCCESS", data[Minus(iRef, iRefOffset)])
                        ELSE Answers(IRefError(iRef), None)

IRefToIndex(iRef) == IF Valid(iRef)
                     THEN Answers("SUCCESS", IndexOf(iRef))
                     ELSE Answers(IRefError(iRef), None)

IRefAt(index) == Plus(Plus(index, iRefOffset), front)

IndexToIRef(index) == IF index >= size
                      THEN Answers("INDEX_OUT_OF_BOUNDS", None)
                      ELSE Answers("SUCCESS", IRefAt(index))
-----------------------------------------------------------------------------
Init == /\ memBlock = FALSE
        /\ size = 0
        /\ capacity = 0
        /\ front = 0
        /\ iRefOffset = 0
        /\ instanceIRefOffsetStart = 0
        /\ reallocationFrontMargin = 0
        /\ data = NoData
        /\ globalInstanceIRefOffset = 0
        /\ corrupt = FALSE
        /\ ret = [code |-> "SUCCESS", out |-> None]

\* Capacities and margins a client asks for.
Asked == 0 .. MaxCapacity

Next == \/ \E n, m \in Asked : ConstructSizeFront(n, m)
        \/ Destroy
        \/ \E n \in Asked : Reserve(n)
        \/ ShrinkToFit
        \/ Clear
        \/ \E v \in Value : AppendFront(v) \/ AppendBack(v)
        \/ RemoveFront
        \/ RemoveBack
        \/ \E w \in SizeT : \/ GetElementIndex(w) \/ GetElementIRef(w)
                            \/ IndexToIRef(w) \/ IRefToIndex(w)

Spec == Init /\ [][Next]_vars
-----------------------------------------------------------------------------
(***************************************************************************)
(* Invariants.                                                             *)
(***************************************************************************)

\* Type: the positions that hold an element are the size ones from front.
TypeOK ==
  /\ memBlock \in BOOLEAN
  /\ corrupt \in BOOLEAN
  /\ capacity \in 0 .. MaxCapacity
  /\ size \in Nat
  /\ front \in 0 .. MaxCapacity
  /\ iRefOffset \in SizeT
  /\ instanceIRefOffsetStart \in SizeT
  /\ globalInstanceIRefOffset \in SizeT
  /\ reallocationFrontMargin \in 0 .. MaxCapacity
  /\ data \in [front .. front + size - 1 -> Value]
  /\ ret \in [code : Code, out : Value \cup SizeT \cup {None}]

\* Every element lies inside the block, until a call corrupts the list.
InBlock == /\ size > 0 => front + size <= capacity
           /\ front > capacity => front = reallocationFrontMargin

IInv == TypeOK /\ InBlock

(***************************************************************************)
(* An append writes inside the block of every list whose capacity is more  *)
(* than its front margin, whatever was added, removed, reserved or shrunk  *)
(* before; and so does the copy of a shrink.                               *)
(***************************************************************************)
AppendsInsideBlock ==
  [][reallocationFrontMargin < capacity
       /\ (ShrinkToFit \/ \E v \in Value : AppendFront(v) \/ AppendBack(v))
     => ~corrupt']_vars

(***************************************************************************)
(* The promise of iRefs.                                                   *)
(***************************************************************************)
Order == IF Usable THEN [i \in 1 .. size |-> IRefAt(i - 1)] ELSE << >>
Element == IF Usable
           THEN [r \in {IRefAt(i) : i \in 0 .. size - 1} |->
                   data[Minus(r, iRefOffset)]]
           ELSE NoData

List == INSTANCE IRefList
          WITH IRef <- SizeT, order <- Order, element <- Element,
               usable <- Usable
IRefListSpec == List!Spec
=============================================================================
