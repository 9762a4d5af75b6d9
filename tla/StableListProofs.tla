-------------------------- MODULE StableListProofs --------------------------
(***************************************************************************)
(* Theorems about StableList and about the class over it, for every size   *)
(* of size_t, every largest capacity, every default capacity and margin,   *)
(* and every set of elements.                                              *)
(***************************************************************************)
EXTENDS StableLists, SequenceTheorems, TLAPS

-----------------------------------------------------------------------------
(* Unsigned arithmetic.                                                    *)

LEMMA SumType ==
  ASSUME NEW a \in SizeT, NEW b \in SizeT
  PROVE  Plus(a, b) \in SizeT /\ Minus(a, b) \in SizeT
BY StableListAssumption DEF SizeT, Plus, Minus

\* Capacities are sizes, and so is the sum of two of them.
LEMMA CapacityType ==
  ASSUME NEW a \in 0 .. MaxCapacity, NEW b \in 0 .. MaxCapacity
  PROVE  a \in SizeT /\ a + b \in SizeT
BY StableListAssumption DEF SizeT

LEMMA EmptyRun ==
  ASSUME NEW f \in Nat
  PROVE  NoData \in [f .. f + 0 - 1 -> Value]
<1>1. f .. f + 0 - 1 = {}
  OBVIOUS
<1>2. QED
  BY <1>1 DEF NoData

\* One place less in front, one element more.
LEMMA StepDown ==
  ASSUME NEW m \in 0 .. MaxCapacity, m # 0, NEW n \in Nat
  PROVE  m - 1 \in 0 .. MaxCapacity /\ n + 1 \in Nat
BY StableListAssumption

-----------------------------------------------------------------------------
(* Type and bounds.                                                        *)

LEMMA InitInv == Init => IInv
<1> SUFFICES ASSUME Init PROVE IInv
  OBVIOUS
<1>1. 0 \in SizeT /\ 0 \in 0 .. MaxCapacity /\ 0 \in Nat
  BY StableListAssumption DEF SizeT
<1>2. TypeOK
  <2>1. data \in [front .. front + size - 1 -> Value]
    BY <1>1, EmptyRun DEF Init
  <2>2. ret \in [code : Code, out : Value \cup SizeT \cup {None}]
    BY DEF Init, Code
  <2>3. QED
    BY <1>1, <2>1, <2>2 DEF Init, TypeOK
<1>3. InBlock
  BY DEF Init, InBlock
<1>4. QED
  BY <1>2, <1>3 DEF IInv

\* What the invariant says of the numbers in the header.
LEMMA TypeFacts ==
  ASSUME IInv
  PROVE  /\ MaxCapacity \in Nat
         /\ capacity \in 0 .. MaxCapacity
         /\ front \in 0 .. MaxCapacity
         /\ size \in 0 .. MaxCapacity
         /\ size <= capacity
         /\ reallocationFrontMargin \in 0 .. MaxCapacity
         /\ iRefOffset \in SizeT
         /\ size > 0 => front + size <= capacity
         /\ front > capacity => front = reallocationFrontMargin
         /\ \A p \in front .. front + size - 1 : data[p] \in Value
BY StableListAssumption DEF IInv, TypeOK, InBlock

LEMMA RebasedType ==
  ASSUME IInv, NEW newFront \in 0 .. MaxCapacity
  PROVE  Rebased(newFront) \in SizeT
<1>1. /\ iRefOffset \in SizeT
      /\ front \in SizeT
      /\ newFront \in SizeT
  BY TypeFacts, CapacityType
<1>2. QED
  BY <1>1, SumType DEF Rebased

\* A reallocation that fits copies every element.
LEMMA MovedFacts ==
  ASSUME IInv, NEW newCapacity \in 0 .. MaxCapacity, NEW newFront \in 0 .. MaxCapacity,
         size <= newCapacity
  PROVE  /\ Moved(newCapacity, newFront)
              = [p \in newFront .. newFront + size - 1 |-> data[p - newFront + front]]
         /\ Moved(newCapacity, newFront) \in [newFront .. newFront + size - 1 -> Value]
<1>1. /\ size \in Nat /\ front \in Nat /\ newFront \in Nat /\ newCapacity \in Nat
      /\ \A p \in front .. front + size - 1 : data[p] \in Value
  BY TypeFacts
<1>2. NumElementsToCopy(newCapacity) = size
  BY <1>1 DEF NumElementsToCopy
<1>3. \A p \in newFront .. newFront + size - 1 :
        p - newFront + front \in front .. front + size - 1
  BY <1>1
<1>4. QED
  BY <1>1, <1>2, <1>3 DEF Moved

\* Steps after which nothing but ret has changed.
LEMMA UnchangedInv ==
  ASSUME IInv, UNCHANGED <<memBlock, header>>, corrupt' \in BOOLEAN,
         ret' \in [code : Code, out : Value \cup SizeT \cup {None}]
  PROVE  IInv'
BY DEF IInv, TypeOK, InBlock, header, layout, contents, origin

LEMMA CorruptInv ==
  ASSUME IInv, Corrupt
  PROVE  IInv'
BY UnchangedInv DEF Corrupt, IInv, TypeOK

LEMMA FailInv ==
  ASSUME IInv, FailAllocation
  PROVE  IInv'
BY UnchangedInv DEF FailAllocation, Returns, Code, IInv, TypeOK

LEMMA ReallocateInv ==
  ASSUME IInv, NEW newCapacity \in 0 .. MaxCapacity, NEW newFront \in 0 .. MaxCapacity,
         size <= newCapacity, Reallocate(newCapacity, newFront),
         newFront = 0 \/ newFront = reallocationFrontMargin
  PROVE  IInv'
<1>1. CASE FailAllocation
  BY <1>1, FailInv
<1>2. CASE Corrupt
  BY <1>2, CorruptInv
<1>3. CASE /\ size > 0 => Fits(newCapacity, newFront, size)
           /\ Layout(newCapacity, newFront)
           /\ data' = Moved(newCapacity, newFront)
           /\ Returns("SUCCESS", None)
           /\ UNCHANGED <<memBlock, size, origin, corrupt>>
  <2>1. data' \in [front' .. front' + size' - 1 -> Value]
    BY <1>3, MovedFacts DEF Layout
  <2>2. iRefOffset' \in SizeT
    BY <1>3, RebasedType DEF Layout
  <2>3. TypeOK'
    BY <1>3, <2>1, <2>2 DEF IInv, TypeOK, Layout, origin, Returns, Code
  <2>4. InBlock'
    BY <1>3, TypeFacts DEF InBlock, Fits, Layout, origin
  <2>5. QED
    BY <2>3, <2>4 DEF IInv
<1>4. QED
  BY <1>1, <1>2, <1>3 DEF Reallocate

LEMMA ConstructInv ==
  ASSUME IInv, NEW n \in Asked, NEW m \in Asked, ConstructSizeFront(n, m)
  PROVE  IInv'
<1>1. CASE FailAllocation
  BY <1>1, FailInv
<1>2. CASE ~FailAllocation
  <2>1. /\ memBlock' = TRUE
        /\ size' = 0
        /\ data' = NoData
        /\ capacity' = n
        /\ front' = m
        /\ iRefOffset' = globalInstanceIRefOffset
        /\ instanceIRefOffsetStart' = globalInstanceIRefOffset
        /\ reallocationFrontMargin' = m
        /\ globalInstanceIRefOffset' = Plus(globalInstanceIRefOffset, Increment)
        /\ Returns("SUCCESS", None)
        /\ UNCHANGED corrupt
    BY <1>2 DEF ConstructSizeFront
  <2>2. data' \in [front' .. front' + size' - 1 -> Value]
    BY <2>1, EmptyRun DEF Asked
  <2>3. globalInstanceIRefOffset' \in SizeT
    BY <2>1, SumType, StableListAssumption DEF IInv, TypeOK, SizeT
  <2>4. TypeOK'
    BY <2>1, <2>2, <2>3 DEF IInv, TypeOK, Returns, Code, Asked
  <2>5. InBlock'
    BY <2>1 DEF InBlock
  <2>6. QED
    BY <2>4, <2>5 DEF IInv
<1>3. QED
  BY <1>1, <1>2

\* The block goes.
LEMMA GoneInv ==
  ASSUME IInv, Gone, globalInstanceIRefOffset' \in SizeT, corrupt' \in BOOLEAN,
         ret' \in [code : Code, out : Value \cup SizeT \cup {None}]
  PROVE  IInv' /\ ~Usable'
<1>1. 0 \in SizeT /\ 0 \in 0 .. MaxCapacity /\ 0 \in Nat
  BY StableListAssumption DEF SizeT
<1>2. front' = 0 /\ size' = 0 /\ data' = NoData
  BY DEF Gone
<1>3. data' \in [front' .. front' + size' - 1 -> Value]
  BY <1>1, <1>2, EmptyRun
<1>4. TypeOK'
  BY <1>1, <1>3 DEF Gone, TypeOK
<1>5. InBlock' /\ ~Usable'
  BY DEF Gone, InBlock, Usable
<1>6. QED
  BY <1>4, <1>5 DEF IInv

LEMMA EmptiedInv ==
  ASSUME IInv, Destroy \/ Clear
  PROVE  IInv'
<1>1. front' \in 0 .. MaxCapacity /\ front' \in Nat /\ size' = 0 /\ data' = NoData
  BY TypeFacts DEF Destroy, Gone, Clear, layout
<1>2. data' \in [front' .. front' + size' - 1 -> Value]
  BY <1>1, EmptyRun
<1>3. CASE Destroy
  <2>1. globalInstanceIRefOffset' \in SizeT /\ corrupt' \in BOOLEAN
    BY <1>3 DEF IInv, TypeOK, Destroy
  <2>2. ret' \in [code : Code, out : Value \cup SizeT \cup {None}]
    BY <1>3 DEF Destroy, Returns, Code
  <2>3. QED
    BY <1>3, <2>1, <2>2, GoneInv DEF Destroy
<1>4. CASE Clear
  <2>1. TypeOK'
    BY <1>1, <1>2, <1>4 DEF IInv, TypeOK, Clear, Returns, Code, layout, origin
  <2>2. InBlock'
    BY <1>4 DEF IInv, InBlock, Clear, layout, origin
  <2>3. QED
    BY <2>1, <2>2 DEF IInv
<1>5. QED
  BY <1>3, <1>4

LEMMA ReserveInv ==
  ASSUME IInv, (\E n \in Asked : Reserve(n)) \/ ShrinkToFit
  PROVE  IInv'
<1>1. ASSUME NEW n \in Asked, Reserve(n) PROVE IInv'
  <2>1. CASE n < size
    BY <1>1, <2>1, UnchangedInv DEF Reserve, Reallocate, Returns, Code, IInv, TypeOK, Asked
  <2>2. CASE n >= size
    BY <1>1, <2>2, TypeFacts, ReallocateInv DEF Reserve, Asked
  <2>3. QED
    BY <2>1, <2>2, TypeFacts DEF Asked
<1>2. CASE ShrinkToFit
  BY <1>2, TypeFacts, ReallocateInv DEF ShrinkToFit
<1>3. QED
  BY <1>1, <1>2

\* An element more at either end of a run of positions.
LEMMA ExtendedFacts ==
  ASSUME NEW f \in Int, NEW n \in Nat, NEW d \in [f .. f + n - 1 -> Value],
         NEW v \in Value
  PROVE  /\ Extended(d, f - 1, v) \in [f - 1 .. f + n - 1 -> Value]
         /\ Extended(d, f + n, v) \in [f .. f + n -> Value]
         /\ Extended(d, f - 1, v)[f - 1] = v
         /\ Extended(d, f + n, v)[f + n] = v
         /\ \A p \in f .. f + n - 1 : /\ Extended(d, f - 1, v)[p] = d[p]
                                      /\ Extended(d, f + n, v)[p] = d[p]
<1>1. f .. f + n - 1 \cup {f - 1} = f - 1 .. f + n - 1
  OBVIOUS
<1>2. f .. f + n - 1 \cup {f + n} = f .. f + n
  OBVIOUS
<1>3. f - 1 \notin f .. f + n - 1 /\ f + n \notin f .. f + n - 1
  OBVIOUS
<1>4. QED
  BY <1>1, <1>2, <1>3 DEF Extended

LEMMA AppendFrontInv ==
  ASSUME IInv, NEW v \in Value, AppendFront(v)
  PROVE  IInv'
<1>1. CASE FailAllocation
  BY <1>1, FailInv
<1>2. CASE Corrupt
  BY <1>2, CorruptInv
<1>3. CASE AppendFrontInPlace(v) /\ ~Corrupt
  <2>1. /\ front # 0 /\ front <= capacity
        /\ front' = front - 1
        /\ size' = size + 1
        /\ data' = Extended(data, front - 1, v)
        /\ Returns("SUCCESS", None)
        /\ UNCHANGED <<memBlock, capacity, iRefOffset, origin, corrupt>>
    BY <1>3 DEF AppendFrontInPlace
  <2>2. data' \in [front' .. front' + size' - 1 -> Value]
    <3>1. front \in Int /\ size \in Nat /\ data \in [front .. front + size - 1 -> Value]
      BY TypeFacts DEF IInv, TypeOK
    <3>2. data' \in [front - 1 .. front + size - 1 -> Value]
      BY <2>1, <3>1, ExtendedFacts
    <3>3. front' + size' - 1 = front + size - 1
      BY <2>1, <3>1
    <3>4. QED
      BY <2>1, <3>2, <3>3
  <2>3. TypeOK'
    BY <2>1, <2>2, TypeFacts DEF IInv, TypeOK, origin, Returns, Code
  <2>4. InBlock'
    BY <2>1, TypeFacts DEF InBlock, origin
  <2>5. QED
    BY <2>3, <2>4 DEF IInv
<1>4. CASE AppendFrontGrowing(v) /\ ~Corrupt /\ ~FailAllocation
  <2> DEFINE margin == IF reallocationFrontMargin = 0 THEN 1 ELSE reallocationFrontMargin
             newCapacity == capacity + margin
  <2>1. /\ front = 0
        /\ CanAllocate(newCapacity)
        /\ capacity' = newCapacity
        /\ front' = margin - 1
        /\ iRefOffset' = Rebased(margin)
        /\ size' = size + 1
        /\ data' = Extended(Moved(newCapacity, margin), margin - 1, v)
        /\ Returns("SUCCESS", None)
        /\ UNCHANGED <<memBlock, origin, corrupt>>
    BY <1>4 DEF AppendFrontGrowing
  <2>2. /\ margin \in 0 .. MaxCapacity
        /\ margin \in Nat \ {0}
        /\ margin \in Int
        /\ newCapacity \in 0 .. MaxCapacity
        /\ size <= newCapacity
        /\ size \in Nat
    BY <2>1, TypeFacts DEF CanAllocate
  <2> HIDE DEF margin, newCapacity
  <2>3. data' \in [front' .. front' + size' - 1 -> Value]
    <3>1. Moved(newCapacity, margin) \in [margin .. margin + size - 1 -> Value]
      BY <2>2, MovedFacts
    <3>2. data' \in [margin - 1 .. margin + size - 1 -> Value]
      BY <2>1, <2>2, <3>1, ExtendedFacts
    <3>3. front' + size' - 1 = margin + size - 1
      BY <2>1, <2>2
    <3>4. QED
      BY <2>1, <3>2, <3>3
  <2>4. iRefOffset' \in SizeT
    BY <2>1, <2>2, RebasedType
  <2>5. front' \in 0 .. MaxCapacity /\ size' \in Nat
    BY <2>1, <2>2, StepDown
  <2>6. TypeOK'
    BY <2>1, <2>2, <2>3, <2>4, <2>5 DEF IInv, TypeOK, origin, Returns, Code
  <2>7. InBlock'
    <3>1. newCapacity = capacity + margin /\ front' <= capacity'
      BY <2>1, <2>2, TypeFacts DEF newCapacity
    <3>2. QED
      BY <2>1, <2>2, <3>1, TypeFacts DEF InBlock
  <2>8. QED
    BY <2>6, <2>7 DEF IInv
<1>5. QED
  BY <1>1, <1>2, <1>3, <1>4 DEF AppendFront

LEMMA AppendBackInv ==
  ASSUME IInv, NEW v \in Value, AppendBack(v)
  PROVE  IInv'
<1>1. CASE FailAllocation
  BY <1>1, FailInv
<1>2. CASE Corrupt
  BY <1>2, CorruptInv
<1>3. CASE AppendBackInPlace(v)
  <2>1. /\ front + size < capacity
        /\ size' = size + 1
        /\ data' = Extended(data, front + size, v)
        /\ Returns("SUCCESS", None)
        /\ UNCHANGED <<memBlock, layout, origin, corrupt>>
    BY <1>3 DEF AppendBackInPlace
  <2>2. data' \in [front' .. front' + size' - 1 -> Value]
    <3>1. front \in Int /\ size \in Nat /\ data \in [front .. front + size - 1 -> Value]
      BY TypeFacts DEF IInv, TypeOK
    <3>2. data' \in [front .. front + size -> Value]
      BY <2>1, <3>1, ExtendedFacts
    <3>3. front' = front /\ front' + size' - 1 = front + size
      BY <2>1, <3>1 DEF layout
    <3>4. QED
      BY <3>2, <3>3
  <2>3. TypeOK'
    BY <2>1, <2>2, TypeFacts DEF IInv, TypeOK, layout, origin, Returns, Code
  <2>4. InBlock'
    BY <2>1, TypeFacts DEF InBlock, layout, origin
  <2>5. QED
    BY <2>3, <2>4 DEF IInv
<1>4. CASE AppendBackGrowing(v) /\ ~Corrupt /\ ~FailAllocation
  <2> DEFINE newFront == reallocationFrontMargin
  <2>1. /\ CanAllocate(GrownCapacity)
        /\ Fits(GrownCapacity, newFront, size + 1)
        /\ Layout(GrownCapacity, newFront)
        /\ size' = size + 1
        /\ data' = Extended(Moved(GrownCapacity, newFront), newFront + size, v)
        /\ Returns("SUCCESS", None)
        /\ UNCHANGED <<memBlock, origin, corrupt>>
    BY <1>4 DEF AppendBackGrowing
  <2>2. /\ newFront \in 0 .. MaxCapacity
        /\ newFront \in Int
        /\ GrownCapacity \in 0 .. MaxCapacity
        /\ size <= GrownCapacity
        /\ size \in Nat
    BY <2>1, TypeFacts DEF CanAllocate, GrownCapacity
  <2> HIDE DEF newFront
  <2>3. data' \in [front' .. front' + size' - 1 -> Value]
    <3>1. Moved(GrownCapacity, newFront) \in [newFront .. newFront + size - 1 -> Value]
      BY <2>2, MovedFacts
    <3>2. data' \in [newFront .. newFront + size -> Value]
      BY <2>1, <2>2, <3>1, ExtendedFacts
    <3>3. front' = newFront /\ front' + size' - 1 = newFront + size
      BY <2>1, <2>2 DEF Layout
    <3>4. QED
      BY <3>2, <3>3
  <2>4. iRefOffset' \in SizeT
    BY <2>1, <2>2, RebasedType DEF Layout
  <2>5. TypeOK'
    BY <2>1, <2>2, <2>3, <2>4 DEF IInv, TypeOK, Layout, origin, Returns, Code
  <2>6. InBlock'
    BY <2>1, <2>2 DEF InBlock, Layout, Fits, origin, newFront
  <2>7. QED
    BY <2>5, <2>6 DEF IInv
<1>5. QED
  BY <1>1, <1>2, <1>3, <1>4 DEF AppendBack

LEMMA RemoveInv ==
  ASSUME IInv, RemoveFront \/ RemoveBack
  PROVE  IInv'
<1>1. CASE Corrupt
  BY <1>1, CorruptInv
<1>2. CASE RemoveFront /\ ~Corrupt
  <2>1. /\ size > 0
        /\ front' = front + 1
        /\ size' = size - 1
        /\ data' = [p \in front + 1 .. front + size - 1 |-> data[p]]
        /\ Returns("SUCCESS", None)
        /\ UNCHANGED <<memBlock, capacity, iRefOffset, origin, corrupt>>
    BY <1>2 DEF RemoveFront
  <2>2. data' \in [front' .. front' + size' - 1 -> Value]
    <3>1. front' + size' - 1 = front + size - 1
      BY <2>1, TypeFacts
    <3>2. \A p \in front + 1 .. front + size - 1 : data[p] \in Value
      BY TypeFacts
    <3>3. QED
      BY <2>1, <3>1, <3>2
  <2>3. TypeOK'
    BY <2>1, <2>2, TypeFacts DEF IInv, TypeOK, origin, Returns, Code
  <2>4. InBlock'
    <3>1. front \in Nat /\ size \in Nat /\ capacity \in Nat /\ front + size <= capacity
      BY <2>1, TypeFacts
    <3>2. front' + size' <= capacity' /\ front' <= capacity'
      BY <2>1, <3>1
    <3>3. capacity' \in Nat /\ front' \in Nat
      BY <2>1, <3>1
    <3>4. QED
      BY <3>2, <3>3 DEF InBlock
  <2>5. QED
    BY <2>3, <2>4 DEF IInv
<1>3. CASE RemoveBack /\ ~Corrupt
  <2>1. /\ size > 0
        /\ size' = size - 1
        /\ data' = [p \in front .. front + size - 2 |-> data[p]]
        /\ Returns("SUCCESS", None)
        /\ UNCHANGED <<memBlock, layout, origin, corrupt>>
    BY <1>3 DEF RemoveBack
  <2>2. data' \in [front' .. front' + size' - 1 -> Value]
    <3>1. front' = front /\ front' + size' - 1 = front + size - 2
      BY <2>1, TypeFacts DEF layout
    <3>2. \A p \in front .. front + size - 2 : data[p] \in Value
      BY TypeFacts
    <3>3. QED
      BY <2>1, <3>1, <3>2
  <2>3. TypeOK'
    BY <2>1, <2>2, TypeFacts DEF IInv, TypeOK, layout, origin, Returns, Code
  <2>4. InBlock'
    BY <2>1, TypeFacts DEF InBlock, layout, origin
  <2>5. QED
    BY <2>3, <2>4 DEF IInv
<1>4. QED
  BY <1>1, <1>2, <1>3

-----------------------------------------------------------------------------
(* iRefs.  RefAt(i, o, f) is the iRef of index i in a list of offset o     *)
(* and whose elements start at f.                                          *)

RefAt(i, o, f) == Plus(Plus(i, o), f)

\* From an iRef back to the position and to the index.
LEMMA AtInverse ==
  ASSUME NEW i \in SizeT, NEW o \in SizeT, NEW f \in SizeT, i + f < W
  PROVE  /\ RefAt(i, o, f) \in SizeT
         /\ Minus(RefAt(i, o, f), o) = f + i
         /\ Minus(Minus(RefAt(i, o, f), o), f) = i
BY StableListAssumption DEF RefAt, Plus, Minus, SizeT

\* Only the iRef of an index leads to that index.
LEMMA AtUnique ==
  ASSUME NEW r \in SizeT, NEW o \in SizeT, NEW f \in SizeT
  PROVE  r = RefAt(Minus(Minus(r, o), f), o, f)
BY StableListAssumption DEF RefAt, Plus, Minus, SizeT

\* A reallocation moves the elements and leaves the iRefs alone.
LEMMA AtRebased ==
  ASSUME NEW i \in SizeT, NEW o \in SizeT, NEW f \in SizeT, NEW g \in SizeT
  PROVE  RefAt(i, Minus(Plus(o, f), g), g) = RefAt(i, o, f)
BY StableListAssumption DEF RefAt, Plus, Minus, SizeT

\* So does an element more, or less, at the front.
LEMMA AtShift ==
  ASSUME NEW i \in SizeT, NEW o \in SizeT, NEW f \in SizeT, f > 0, i + 1 < W
  PROVE  RefAt(i + 1, o, f - 1) = RefAt(i, o, f)
BY StableListAssumption DEF RefAt, Plus, Minus, SizeT

\* The indices the list accepts an iRef for are those of its elements.
LEMMA ValidFacts ==
  ASSUME IInv, NEW r \in SizeT
  PROVE  /\ IndexOf(r) \in SizeT
         /\ r = IRefAt(IndexOf(r))
         /\ Valid(r) => /\ IndexOf(r) \in 0 .. size - 1
                        /\ Minus(r, iRefOffset) = front + IndexOf(r)
<1>1. front \in SizeT /\ iRefOffset \in SizeT /\ size \in Nat
  BY TypeFacts, CapacityType
<1>2. IndexOf(r) \in SizeT
  BY <1>1, SumType DEF IndexOf
<1>3. r = RefAt(IndexOf(r), iRefOffset, front)
  BY <1>1, AtUnique DEF IndexOf
<1>4. ASSUME Valid(r)
      PROVE  /\ IndexOf(r) \in 0 .. size - 1
             /\ Minus(r, iRefOffset) = front + IndexOf(r)
  <2>1. IndexOf(r) \in 0 .. size - 1
    BY <1>1, <1>2, <1>4 DEF Valid, SizeT
  <2>2. IndexOf(r) + front < W
    <3>1. size > 0
      BY <1>1, <2>1
    <3>2. front + size <= capacity /\ capacity \in SizeT /\ front \in Nat
      BY <3>1, TypeFacts, CapacityType
    <3>3. capacity < W /\ capacity \in Nat /\ W \in Nat
      BY <3>2, StableListAssumption DEF SizeT
    <3>4. QED
      BY <1>1, <2>1, <3>2, <3>3
  <2>3. QED
    BY <1>1, <1>2, <1>3, <2>1, <2>2, AtInverse
<1>5. QED
  BY <1>2, <1>3, <1>4 DEF IRefAt, RefAt

LEMMA AccessInv ==
  ASSUME IInv, NEW w \in SizeT,
         GetElementIndex(w) \/ GetElementIRef(w) \/ IndexToIRef(w) \/ IRefToIndex(w)
  PROVE  IInv'
<1> DEFINE Out == Value \cup SizeT \cup {None}
<1>1. \A i \in 0 .. size - 1 : data[i + front] \in Value
  BY TypeFacts
<1>2. /\ front \in SizeT
      /\ iRefOffset \in SizeT
      /\ size \in Nat
  BY TypeFacts, CapacityType
<1>3. IndexOf(w) \in SizeT /\ IRefAt(w) \in SizeT
  BY <1>2, SumType DEF IndexOf, IRefAt
<1>4. PICK code \in Code, out \in Out : Answers(code, out)
  <2>1. CASE GetElementIndex(w)
    BY <1>1, <1>2, <2>1 DEF GetElementIndex, Code, SizeT
  <2>2. CASE IndexToIRef(w)
    BY <1>3, <2>2 DEF IndexToIRef, Code
  <2>3. CASE IRefToIndex(w)
    BY <1>3, <2>3 DEF IRefToIndex, Code, IRefError
  <2>4. CASE GetElementIRef(w)
    <3>1. ASSUME Valid(w) PROVE data[Minus(w, iRefOffset)] \in Value
      <4>1. PICK i \in 0 .. size - 1 : Minus(w, iRefOffset) = front + i
        BY <3>1, ValidFacts
      <4>2. front + i = i + front
        BY <1>2 DEF SizeT
      <4>3. QED
        BY <1>1, <4>1, <4>2
    <3>2. QED
      BY <2>4, <3>1 DEF GetElementIRef, Code, IRefError
  <2>5. QED
    BY <2>1, <2>2, <2>3, <2>4
<1>5. QED
  BY <1>4, UnchangedInv DEF Answers, Returns, IInv, TypeOK

LEMMA NextInv == IInv /\ [Next]_vars => IInv'
<1> SUFFICES ASSUME IInv, [Next]_vars PROVE IInv'
  OBVIOUS
<1>1. CASE \E n, m \in Asked : ConstructSizeFront(n, m)
  BY <1>1, ConstructInv
<1>2. CASE Destroy \/ Clear
  BY <1>2, EmptiedInv
<1>3. CASE (\E n \in Asked : Reserve(n)) \/ ShrinkToFit
  BY <1>3, ReserveInv
<1>4. CASE \E v \in Value : AppendFront(v) \/ AppendBack(v)
  BY <1>4, AppendFrontInv, AppendBackInv
<1>5. CASE RemoveFront \/ RemoveBack
  BY <1>5, RemoveInv
<1>6. CASE \E w \in SizeT : \/ GetElementIndex(w) \/ GetElementIRef(w)
                            \/ IndexToIRef(w) \/ IRefToIndex(w)
  BY <1>6, AccessInv
<1>7. CASE UNCHANGED vars
  BY <1>7, UnchangedInv DEF vars, IInv, TypeOK
<1>8. QED
  BY <1>1, <1>2, <1>3, <1>4, <1>5, <1>6, <1>7 DEF Next

(***************************************************************************)
(* The type invariant and the bounds of the elements hold throughout.      *)
(***************************************************************************)
THEOREM Invariance == Spec => []IInv
<1>1. IInv /\ [Next]_vars => IInv'
  BY NextInv
<1>2. QED
  BY InitInv, <1>1, PTL DEF Spec

\* The header and the positions that hold an element keep their types.
THEOREM TypeCorrect == Spec => []TypeOK
<1>1. IInv => TypeOK
  BY DEF IInv
<1>2. QED
  BY Invariance, <1>1, PTL

\* No element lies outside the block of a list no call has corrupted.
THEOREM ElementsInBlock == Spec => []InBlock
<1>1. IInv => InBlock
  BY DEF IInv
<1>2. QED
  BY Invariance, <1>1, PTL

\* An append to, or a shrink of, a list with room beyond its margin.
Appends == \E v \in Value : AppendFront(v) \/ AppendBack(v)

LEMMA StaysInside ==
  ASSUME IInv, reallocationFrontMargin < capacity, ShrinkToFit \/ Appends
  PROVE  ~corrupt'
<1>1. /\ capacity \in Nat /\ front \in Nat /\ size \in Nat
      /\ reallocationFrontMargin \in Nat
      /\ size <= capacity /\ front <= capacity
      /\ corrupt = FALSE
  BY TypeFacts DEF Usable, ShrinkToFit, Appends, AppendFront,
     AppendFrontInPlace, AppendFrontGrowing, AppendBack, AppendBackInPlace, AppendBackGrowing,
     IInv, TypeOK
<1>2. CASE ShrinkToFit
  BY <1>1, <1>2 DEF ShrinkToFit, Reallocate, Fits, FailAllocation
<1>3. ASSUME NEW v \in Value, AppendFrontInPlace(v) PROVE ~corrupt'
  BY <1>1, <1>3 DEF AppendFrontInPlace
<1>4. ASSUME NEW v \in Value, AppendFrontGrowing(v) PROVE ~corrupt'
  BY <1>1, <1>4 DEF AppendFrontGrowing, Fits, FailAllocation
<1>5. ASSUME NEW v \in Value, AppendBackInPlace(v) PROVE ~corrupt'
  BY <1>1, <1>5 DEF AppendBackInPlace
<1>6. ASSUME NEW v \in Value, AppendBackGrowing(v) PROVE ~corrupt'
  BY <1>1, <1>6 DEF AppendBackGrowing, Fits, FailAllocation, GrownCapacity
<1>7. QED
  BY <1>2, <1>3, <1>4, <1>5, <1>6 DEF Appends, AppendFront, AppendBack

(***************************************************************************)
(* No append and no shrink leaves the block of a list whose capacity is    *)
(* more than its front margin.                                             *)
(***************************************************************************)
THEOREM AppendsSafe == Spec => AppendsInsideBlock
<1>1. IInv => [reallocationFrontMargin < capacity /\ (ShrinkToFit \/ Appends) => ~corrupt']_vars
  BY StaysInside
<1>2. QED
  BY Invariance, <1>1, PTL DEF AppendsInsideBlock, Appends
-----------------------------------------------------------------------------
(***************************************************************************)
(* Refinement.  The iRefs of a list of n elements whose offset is o and    *)
(* whose elements start at f, in order, and the element of each.           *)
(***************************************************************************)
OrderOf(n, o, f) == [i \in 1 .. n |-> RefAt(i - 1, o, f)]
RefsOf(n, o, f) == {RefAt(i, o, f) : i \in 0 .. n - 1}
ElementOf(n, o, f, d) == [r \in RefsOf(n, o, f) |-> d[Minus(r, o)]]
WithElement(n, o, f, d, r, v) ==
  [x \in RefsOf(n, o, f) \cup {r} |-> IF x = r THEN v ELSE ElementOf(n, o, f, d)[x]]

LEMMA OrderFacts ==
  ASSUME NEW n \in Nat, NEW o \in SizeT, NEW f \in SizeT, f + n < W
  PROVE  /\ OrderOf(n, o, f) \in Seq(SizeT)
         /\ Len(OrderOf(n, o, f)) = n
         /\ \A i \in 1 .. n : OrderOf(n, o, f)[i] = RefAt(i - 1, o, f)
<1>1. \A i \in 1 .. n : RefAt(i - 1, o, f) \in SizeT
  <2>1. \A i \in 1 .. n : i - 1 \in SizeT
    BY StableListAssumption DEF SizeT
  <2>2. QED
    BY <2>1, SumType DEF RefAt
<1>2. OrderOf(n, o, f) \in [1 .. n -> SizeT]
  BY <1>1 DEF OrderOf
<1>3. OrderOf(n, o, f) \in Seq(SizeT)
  BY <1>2, SeqDef
<1>4. Len(OrderOf(n, o, f)) \in Nat /\ 1 .. Len(OrderOf(n, o, f)) = 1 .. n
  BY <1>2, <1>3, LenProperties
<1>5. Len(OrderOf(n, o, f)) = n
  BY <1>4
<1>6. QED
  BY <1>3, <1>5 DEF OrderOf

\* Each element has an iRef of its own.
LEMMA RefFacts ==
  ASSUME NEW n \in Nat, NEW o \in SizeT, NEW f \in SizeT, f + n < W
  PROVE  /\ \A i \in 0 .. n - 1 : /\ RefAt(i, o, f) \in SizeT
                                  /\ Minus(RefAt(i, o, f), o) = f + i
         /\ \A i, j \in 0 .. n - 1 : RefAt(i, o, f) = RefAt(j, o, f) => i = j
<1>1. \A i \in 0 .. n - 1 : /\ RefAt(i, o, f) \in SizeT
                            /\ Minus(RefAt(i, o, f), o) = f + i
                            /\ Minus(Minus(RefAt(i, o, f), o), f) = i
  <2>1. \A i \in 0 .. n - 1 : i \in SizeT /\ i + f < W
    BY StableListAssumption DEF SizeT
  <2>2. QED
    BY <2>1, AtInverse
<1>2. QED
  BY <1>1

LEMMA ElementFacts ==
  ASSUME NEW n \in Nat, NEW o \in SizeT, NEW f \in SizeT, f + n < W, NEW d
  PROVE  \A i \in 0 .. n - 1 : ElementOf(n, o, f, d)[RefAt(i, o, f)] = d[f + i]
BY RefFacts DEF ElementOf, RefsOf

\* A list whose elements keep their iRefs is the same list.
LEMMA SameContents ==
  ASSUME NEW n \in Nat,
         NEW o \in SizeT, NEW f \in SizeT, f + n < W, NEW d,
         NEW p \in SizeT, NEW g \in SizeT, g + n < W, NEW e,
         \A i \in 0 .. n - 1 : RefAt(i, p, g) = RefAt(i, o, f) /\ e[g + i] = d[f + i]
  PROVE  /\ OrderOf(n, p, g) = OrderOf(n, o, f)
         /\ ElementOf(n, p, g, e) = ElementOf(n, o, f, d)
<1>1. \A i \in 1 .. n : i - 1 \in 0 .. n - 1
  OBVIOUS
<1>2. OrderOf(n, p, g) = OrderOf(n, o, f)
  BY <1>1 DEF OrderOf
<1>3. RefsOf(n, p, g) = RefsOf(n, o, f)
  BY DEF RefsOf
<1>4. \A i \in 0 .. n - 1 :
        ElementOf(n, p, g, e)[RefAt(i, o, f)] = ElementOf(n, o, f, d)[RefAt(i, o, f)]
  <2>1. \A i \in 0 .. n - 1 : ElementOf(n, p, g, e)[RefAt(i, p, g)] = e[g + i]
    BY ElementFacts
  <2>2. \A i \in 0 .. n - 1 : ElementOf(n, o, f, d)[RefAt(i, o, f)] = d[f + i]
    BY ElementFacts
  <2>3. QED
    BY <2>1, <2>2
<1>5. ElementOf(n, p, g, e) = ElementOf(n, o, f, d)
  <2>1. \A r \in RefsOf(n, o, f) : ElementOf(n, p, g, e)[r] = ElementOf(n, o, f, d)[r]
    BY <1>4 DEF RefsOf
  <2>2. /\ ElementOf(n, p, g, e)
             = [r \in RefsOf(n, o, f) |-> ElementOf(n, p, g, e)[r]]
        /\ ElementOf(n, o, f, d)
             = [r \in RefsOf(n, o, f) |-> ElementOf(n, o, f, d)[r]]
    BY <1>3 DEF ElementOf
  <2>3. QED
    BY <2>1, <2>2
<1>6. QED
  BY <1>2, <1>5

\* The iRefs and elements of a list that has one more element at its end, ahead
\* of which all the others are.
Ahead(n, o, f, d, p, g, e) ==
  \A i \in 0 .. n - 1 : RefAt(i, p, g) = RefAt(i, o, f) /\ e[g + i] = d[f + i]
BackAdded(n, o, f, d, p, g, e) ==
  LET r == RefAt(n, p, g)
  IN  /\ r \in SizeT \ RefsOf(n, o, f)
      /\ OrderOf(n + 1, p, g) = OrderOf(n, o, f) \o <<r>>
      /\ ElementOf(n + 1, p, g, e) = WithElement(n, o, f, d, r, e[g + n])

LEMMA AddedBack ==
  ASSUME NEW n \in Nat,
         NEW o \in SizeT, NEW f \in SizeT, f + n < W, NEW d,
         NEW p \in SizeT, NEW g \in SizeT, g + n + 1 < W, NEW e,
         Ahead(n, o, f, d, p, g, e)
  PROVE  BackAdded(n, o, f, d, p, g, e)
<1> USE DEF Ahead
<1> DEFINE r == RefAt(n, p, g)
<1>0. n \in 0 .. n + 1 - 1 /\ n + 1 \in Nat /\ g + (n + 1) < W /\ g + n < W
  BY StableListAssumption DEF SizeT
<1>1. r \in SizeT
  BY <1>0, RefFacts
<1>2. r \notin RefsOf(n, o, f)
  <2>1. SUFFICES ASSUME NEW i \in 0 .. n - 1, RefAt(n, p, g) = RefAt(i, o, f) PROVE FALSE
    BY DEF RefsOf
  <2>2. RefAt(n, p, g) = RefAt(i, p, g) /\ i \in 0 .. n + 1 - 1
    BY <2>1
  <2>3. n = i
    BY <1>0, <2>2, RefFacts
  <2>4. QED
    BY <2>1, <2>3
<1>3. OrderOf(n + 1, p, g) = OrderOf(n, o, f) \o <<r>>
  <2> DEFINE s == OrderOf(n, o, f)
             t == OrderOf(n + 1, p, g)
  <2>1. /\ s \in Seq(SizeT) /\ Len(s) = n
        /\ \A i \in 1 .. n : s[i] = RefAt(i - 1, o, f)
    BY OrderFacts
  <2>2. /\ t \in Seq(SizeT) /\ Len(t) = n + 1
        /\ \A i \in 1 .. n + 1 : t[i] = RefAt(i - 1, p, g)
    BY <1>0, OrderFacts
  <2>3. /\ <<r>> \in Seq(SizeT) /\ Len(<<r>>) = 1 /\ <<r>>[1] = r
    BY <1>1
  <2> HIDE DEF s, t, r
  <2>4. /\ s \o <<r>> \in Seq(SizeT)
        /\ Len(s \o <<r>>) = n + 1
        /\ \A i \in 1 .. n + 1 : (s \o <<r>>)[i] = IF i <= n THEN s[i] ELSE <<r>>[i - n]
    BY <2>1, <2>3, ConcatProperties
  <2>5. ASSUME NEW i \in 1 .. n + 1 PROVE t[i] = (s \o <<r>>)[i]
    <3>1. CASE i <= n
      <4>1. i \in 1 .. n /\ i - 1 \in 0 .. n - 1
        BY <3>1
      <4>2. QED
        BY <2>1, <2>2, <2>4, <4>1
    <3>2. CASE i = n + 1
      <4>1. i - 1 = n /\ i - n = 1
        BY <3>2
      <4>2. QED
        BY <2>2, <2>3, <2>4, <3>2, <4>1 DEF r
    <3>3. i <= n \/ i = n + 1
      OBVIOUS
    <3>4. QED
      BY <3>1, <3>2, <3>3
  <2>6. t = s \o <<r>>
    BY <2>1, <2>2, <2>4, <2>5, SeqEqual
  <2>7. QED
    BY <2>6 DEF s, t, r
<1>4. RefsOf(n + 1, p, g) = RefsOf(n, o, f) \cup {r}
  <2>1. 0 .. n + 1 - 1 = 0 .. n - 1 \cup {n}
    BY DEF SizeT
  <2>2. QED
    BY <2>1 DEF RefsOf
<1>5. ElementOf(n + 1, p, g, e)[r] = e[g + n]
  BY <1>0, ElementFacts
<1>6. \A x \in RefsOf(n, o, f) :
        ElementOf(n + 1, p, g, e)[x] = ElementOf(n, o, f, d)[x]
  <2>1. \A i \in 0 .. n - 1 : ElementOf(n + 1, p, g, e)[RefAt(i, p, g)] = e[g + i]
    <3>1. \A i \in 0 .. n - 1 : i \in 0 .. n + 1 - 1
      OBVIOUS
    <3>2. QED
      BY <1>0, <3>1, ElementFacts
  <2>2. \A i \in 0 .. n - 1 : ElementOf(n, o, f, d)[RefAt(i, o, f)] = d[f + i]
    BY ElementFacts
  <2>3. QED
    BY <2>1, <2>2 DEF RefsOf
<1>7. ElementOf(n + 1, p, g, e)
        = [x \in RefsOf(n + 1, p, g) |-> ElementOf(n + 1, p, g, e)[x]]
  BY DEF ElementOf
<1>8. QED
  BY <1>1, <1>2, <1>3, <1>4, <1>5, <1>6, <1>7 DEF WithElement, BackAdded

\* The same for one more at its start, behind which all the others are.
Behind(n, o, f, d, p, g, e) ==
  \A i \in 0 .. n - 1 : RefAt(i + 1, p, g) = RefAt(i, o, f) /\ e[g + i + 1] = d[f + i]

FrontAdded(n, o, f, d, p, g, e) ==
  LET r == RefAt(0, p, g)
  IN  /\ r \in SizeT \ RefsOf(n, o, f)
      /\ OrderOf(n + 1, p, g) = <<r>> \o OrderOf(n, o, f)
      /\ ElementOf(n + 1, p, g, e) = WithElement(n, o, f, d, r, e[g])

LEMMA AddedFront ==
  ASSUME NEW n \in Nat,
         NEW o \in SizeT, NEW f \in SizeT, f + n < W, NEW d,
         NEW p \in SizeT, NEW g \in SizeT, g + n + 1 < W, NEW e,
         Behind(n, o, f, d, p, g, e)
  PROVE  FrontAdded(n, o, f, d, p, g, e)
<1> USE DEF Behind
<1> DEFINE r == RefAt(0, p, g)
<1>0. 0 \in 0 .. n + 1 - 1 /\ n + 1 \in Nat /\ g + (n + 1) < W /\ g + 0 = g
  BY StableListAssumption DEF SizeT
<1>1. r \in SizeT
  BY <1>0, RefFacts
<1>2. r \notin RefsOf(n, o, f)
  <2>1. SUFFICES ASSUME NEW i \in 0 .. n - 1, RefAt(0, p, g) = RefAt(i, o, f) PROVE FALSE
    BY DEF RefsOf
  <2>2. RefAt(0, p, g) = RefAt(i + 1, p, g) /\ i + 1 \in 0 .. n + 1 - 1
    BY <2>1
  <2>3. 0 = i + 1
    BY <1>0, <2>2, RefFacts
  <2>4. QED
    BY <2>1, <2>3
<1>3. OrderOf(n + 1, p, g) = <<r>> \o OrderOf(n, o, f)
  <2> DEFINE s == OrderOf(n, o, f)
             t == OrderOf(n + 1, p, g)
  <2>1. /\ s \in Seq(SizeT) /\ Len(s) = n
        /\ \A i \in 1 .. n : s[i] = RefAt(i - 1, o, f)
    BY OrderFacts
  <2>2. /\ t \in Seq(SizeT) /\ Len(t) = n + 1
        /\ \A i \in 1 .. n + 1 : t[i] = RefAt(i - 1, p, g)
    BY <1>0, OrderFacts
  <2>3. /\ <<r>> \in Seq(SizeT) /\ Len(<<r>>) = 1 /\ <<r>>[1] = r
    BY <1>1
  <2> HIDE DEF s, t, r
  <2>4. /\ <<r>> \o s \in Seq(SizeT)
        /\ Len(<<r>> \o s) = n + 1
        /\ \A i \in 1 .. n + 1 : (<<r>> \o s)[i] = IF i <= 1 THEN <<r>>[i] ELSE s[i - 1]
    <3>1. 1 + n = n + 1
      OBVIOUS
    <3>2. QED
      BY <2>1, <2>3, <3>1, ConcatProperties
  <2>5. ASSUME NEW i \in 1 .. n + 1 PROVE t[i] = (<<r>> \o s)[i]
    <3>1. CASE i > 1
      <4>1. i - 1 \in 1 .. n /\ i - 1 - 1 \in 0 .. n - 1 /\ i - 1 - 1 + 1 = i - 1 /\ ~(i <= 1)
        BY <3>1
      <4>2. RefAt(i - 1, p, g) = RefAt(i - 1 - 1, o, f)
        BY <4>1
      <4>3. QED
        BY <2>1, <2>2, <2>4, <4>1, <4>2
    <3>2. CASE i = 1
      BY <2>2, <2>3, <2>4, <3>2 DEF r
    <3>3. i > 1 \/ i = 1
      OBVIOUS
    <3>4. QED
      BY <3>1, <3>2, <3>3
  <2>6. t = <<r>> \o s
    BY <2>1, <2>2, <2>4, <2>5, SeqEqual
  <2>7. QED
    BY <2>6 DEF s, t, r
<1>4. RefsOf(n + 1, p, g) = RefsOf(n, o, f) \cup {r}
  <2>1. ASSUME NEW i \in 0 .. n PROVE i = 0 \/ \E j \in 0 .. n - 1 : i = j + 1
    <3>1. i = 0 \/ (i - 1 \in 0 .. n - 1 /\ i = (i - 1) + 1)
      OBVIOUS
    <3>2. QED
      BY <3>1
  <2>2. /\ \A j \in 0 .. n - 1 : j + 1 \in 0 .. n
        /\ 0 .. n + 1 - 1 = 0 .. n
        /\ 0 \in 0 .. n
    OBVIOUS
  <2>3. QED
    BY <2>1, <2>2 DEF RefsOf
<1>5. ElementOf(n + 1, p, g, e)[r] = e[g]
  BY <1>0, ElementFacts
<1>6. \A x \in RefsOf(n, o, f) :
        ElementOf(n + 1, p, g, e)[x] = ElementOf(n, o, f, d)[x]
  <2>1. ASSUME NEW i \in 0 .. n - 1
        PROVE  ElementOf(n + 1, p, g, e)[RefAt(i + 1, p, g)] = e[g + i + 1]
    <3>1. i + 1 \in 0 .. n + 1 - 1 /\ g + (i + 1) = g + i + 1
      BY DEF SizeT
    <3>2. ElementOf(n + 1, p, g, e)[RefAt(i + 1, p, g)] = e[g + (i + 1)]
      BY <1>0, <3>1, ElementFacts
    <3>3. QED
      BY <3>1, <3>2
  <2>2. \A i \in 0 .. n - 1 : ElementOf(n, o, f, d)[RefAt(i, o, f)] = d[f + i]
    BY ElementFacts
  <2>3. QED
    BY <2>1, <2>2 DEF RefsOf
<1>7. ElementOf(n + 1, p, g, e)
        = [x \in RefsOf(n + 1, p, g) |-> ElementOf(n + 1, p, g, e)[x]]
  BY DEF ElementOf
<1>8. QED
  BY <1>1, <1>2, <1>3, <1>4, <1>5, <1>6, <1>7 DEF WithElement, FrontAdded

\* Sequences without the element just added at an end.
LEMMA DropEnds ==
  ASSUME NEW S, NEW s \in Seq(S), NEW r \in S
  PROVE  /\ <<r>> \o s # << >>
         /\ Head(<<r>> \o s) = r
         /\ Tail(<<r>> \o s) = s
         /\ s \o <<r>> # << >>
         /\ Len(s \o <<r>>) = Len(s) + 1
         /\ (s \o <<r>>)[Len(s) + 1] = r
         /\ SubSeq(s \o <<r>>, 1, Len(s)) = s
<1>1. /\ <<r>> \in Seq(S) /\ Len(<<r>>) = 1 /\ <<r>>[1] = r
      /\ Len(s) \in Nat
  BY LenProperties
<1>2. /\ <<r>> \o s \in Seq(S)
      /\ Len(<<r>> \o s) = 1 + Len(s)
      /\ \A i \in 1 .. 1 + Len(s) : (<<r>> \o s)[i] = IF i <= 1 THEN <<r>>[i] ELSE s[i - 1]
  BY <1>1, ConcatProperties
<1>3. /\ s \o <<r>> \in Seq(S)
      /\ Len(s \o <<r>>) = Len(s) + 1
      /\ \A i \in 1 .. Len(s) + 1 :
           (s \o <<r>>)[i] = IF i <= Len(s) THEN s[i] ELSE <<r>>[i - Len(s)]
  BY <1>1, ConcatProperties
<1>4. <<r>> \o s # << >> /\ s \o <<r>> # << >>
  BY <1>1, <1>2, <1>3, EmptySeq
<1>5. Head(<<r>> \o s) = r
  BY <1>1, <1>2, <1>4
<1>6. Tail(<<r>> \o s) = s
  <2> DEFINE t == <<r>> \o s
  <2>1. /\ Tail(t) \in Seq(S)
        /\ Len(Tail(t)) = Len(s)
        /\ \A i \in 1 .. Len(s) : Tail(t)[i] = t[i + 1]
    <3>1. /\ Tail(t) \in Seq(S)
          /\ Len(Tail(t)) = Len(t) - 1
          /\ \A i \in 1 .. Len(Tail(t)) : Tail(t)[i] = t[i + 1]
      BY <1>2, <1>4, HeadTailProperties
    <3>2. Len(t) - 1 = Len(s)
      BY <1>1, <1>2
    <3>3. QED
      BY <3>1, <3>2
  <2>2. ASSUME NEW i \in 1 .. Len(s) PROVE Tail(t)[i] = s[i]
    <3>1. i + 1 \in 1 .. 1 + Len(s) /\ ~(i + 1 <= 1) /\ i + 1 - 1 = i
      BY <1>1
    <3>2. QED
      BY <1>2, <2>1, <3>1
  <2>3. QED
    BY <2>1, <2>2, SeqEqual
<1>7. (s \o <<r>>)[Len(s) + 1] = r
  <2>1. /\ Len(s) + 1 \in 1 .. Len(s) + 1 /\ ~(Len(s) + 1 <= Len(s))
        /\ Len(s) + 1 - Len(s) = 1
    BY <1>1
  <2>2. QED
    BY <1>1, <1>3, <2>1
<1>8. SubSeq(s \o <<r>>, 1, Len(s)) = s
  <2> DEFINE t == s \o <<r>>
             n == Len(s)
  <2>1. \A i \in 1 .. n : t[i] \in S /\ t[i] = s[i]
    <3>1. \A i \in 1 .. n : i \in 1 .. n + 1 /\ i <= n /\ s[i] \in S
      BY <1>1, ElementOfSeq
    <3>2. QED
      BY <1>3, <3>1
  <2>2. n \in Int /\ 1 \in Int /\ n - 1 + 1 = n
    BY <1>1
  <2>3. /\ SubSeq(t, 1, n) \in Seq(S)
        /\ Len(SubSeq(t, 1, n)) = IF 1 <= n THEN n - 1 + 1 ELSE 0
        /\ \A i \in 1 .. n - 1 + 1 : SubSeq(t, 1, n)[i] = t[1 + i - 1]
    BY <2>1, <2>2, SubSeqProperties
  <2>4. Len(SubSeq(t, 1, n)) = n
    BY <1>1, <2>3
  <2>5. \A i \in 1 .. n : 1 + i - 1 = i
    OBVIOUS
  <2>6. \A i \in 1 .. n : SubSeq(t, 1, n)[i] = s[i]
    BY <2>1, <2>2, <2>3, <2>5
  <2>7. QED
    BY <2>3, <2>4, <2>6, SeqEqual
<1>9. QED
  BY <1>3, <1>4, <1>5, <1>6, <1>7, <1>8

\* What the mapping makes of a list before and after a step.
LEMMA Mapped ==
  /\ Usable => /\ Order = OrderOf(size, iRefOffset, front)
               /\ Element = ElementOf(size, iRefOffset, front, data)
  /\ Usable' => /\ Order' = OrderOf(size', iRefOffset', front')
                /\ Element' = ElementOf(size', iRefOffset', front', data')
  /\ ~Usable => Order = << >> /\ Element = NoData
  /\ ~Usable' => Order' = << >> /\ Element' = NoData
BY DEF Order, Element, OrderOf, ElementOf, RefsOf, IRefAt, RefAt, Usable

LEMMA RoomFacts ==
  ASSUME IInv, IInv'
  PROVE  /\ size \in Nat /\ front \in Nat /\ front \in SizeT /\ iRefOffset \in SizeT
         /\ front + size < W
         /\ size' \in Nat /\ front' \in Nat /\ front' \in SizeT /\ iRefOffset' \in SizeT
         /\ front' + size' < W
<1>1. /\ size \in Nat /\ front \in 0 .. MaxCapacity /\ iRefOffset \in SizeT
      /\ capacity \in 0 .. MaxCapacity
      /\ size > 0 => front + size <= capacity
  BY DEF IInv, TypeOK, InBlock
<1>2. /\ size' \in Nat /\ front' \in 0 .. MaxCapacity /\ iRefOffset' \in SizeT
      /\ capacity' \in 0 .. MaxCapacity
      /\ size' > 0 => front' + size' <= capacity'
  BY DEF IInv, TypeOK, InBlock
<1>3. ASSUME NEW n \in Nat, NEW f \in 0 .. MaxCapacity, NEW c \in 0 .. MaxCapacity,
             n > 0 => f + n <= c
      PROVE  f \in Nat /\ f \in SizeT /\ f + n < W
  BY <1>3, StableListAssumption DEF SizeT
<1>4. QED
  BY <1>1, <1>2, <1>3

\* Steps that keep every element and its iRef.
LEMMA KeepsContents ==
  ASSUME IInv, IInv', Usable, Usable', size' = size,
         \A i \in 0 .. size - 1 : /\ RefAt(i, iRefOffset', front') = RefAt(i, iRefOffset, front)
                                  /\ data'[front' + i] = data[front + i]
  PROVE  Order' = Order /\ Element' = Element
<1>1. /\ OrderOf(size, iRefOffset', front') = OrderOf(size, iRefOffset, front)
      /\ ElementOf(size, iRefOffset', front', data')
           = ElementOf(size, iRefOffset, front, data)
  BY RoomFacts, SameContents
<1>2. QED
  BY <1>1, Mapped

\* Steps after which there is nothing in the list.
LEMMA EmptiesContents ==
  ASSUME IInv, IInv', ~Usable' \/ (size' = 0 /\ data' = NoData)
  PROVE  List!Empty
<1>1. CASE ~Usable'
  BY <1>1, Mapped DEF List!Empty, List!NoElements, NoData
<1>2. CASE Usable' /\ size' = 0 /\ data' = NoData
  <2>1. OrderOf(0, iRefOffset', front') = << >>
    <3>1. /\ OrderOf(0, iRefOffset', front') \in Seq(SizeT)
          /\ Len(OrderOf(0, iRefOffset', front')) = 0
      BY <1>2, RoomFacts, OrderFacts
    <3>2. QED
      BY <3>1, EmptySeq
  <2>2. ElementOf(0, iRefOffset', front', data') = NoData
    <3>1. 0 .. 0 - 1 = {}
      OBVIOUS
    <3>2. RefsOf(0, iRefOffset', front') = {}
      BY <3>1 DEF RefsOf
    <3>3. QED
      BY <3>2 DEF ElementOf, NoData
  <2>3. QED
    BY <1>2, <2>1, <2>2, Mapped DEF List!Empty, List!NoElements, NoData
<1>3. QED
  BY <1>1, <1>2

LEMMA BreakRefines ==
  ASSUME IInv, IInv', Usable, Corrupt
  PROVE  List!Break
BY EmptiesContents DEF Corrupt, Usable, List!Break

LEMMA FailRefines ==
  ASSUME FailAllocation, Usable
  PROVE  List!NoEffect
BY DEF FailAllocation, Usable, header, layout, contents, Order, Element, IRefAt,
       Returns, List!NoEffect, List!Unmoved, List!Returns

\* One more element, at the back or at the front.
LEMMA AddsBack ==
  ASSUME IInv, IInv', Usable, Usable', NEW v \in Value, size' = size + 1,
         Ahead(size, iRefOffset, front, data, iRefOffset', front', data'),
         data'[front' + size] = v, Returns("SUCCESS", None)
  PROVE  List!AddEnd(v)
<1> DEFINE r == RefAt(size, iRefOffset', front')
<1>1. /\ size \in Nat /\ front \in SizeT /\ iRefOffset \in SizeT
      /\ front + size < W
      /\ front' \in SizeT /\ iRefOffset' \in SizeT
      /\ front' + size + 1 < W
  BY RoomFacts
<1>2. /\ r \in SizeT \ RefsOf(size, iRefOffset, front)
      /\ OrderOf(size + 1, iRefOffset', front')
           = OrderOf(size, iRefOffset, front) \o <<r>>
      /\ ElementOf(size + 1, iRefOffset', front', data')
           = WithElement(size, iRefOffset, front, data, r, data'[front' + size])
  <2>1. BackAdded(size, iRefOffset, front, data, iRefOffset', front', data')
    BY <1>1, AddedBack
  <2>2. QED
    BY <2>1 DEF BackAdded
<1>3. DOMAIN Element = RefsOf(size, iRefOffset, front)
  BY Mapped DEF ElementOf
<1>4. /\ r \in SizeT \ DOMAIN Element
      /\ Order' = Order \o <<r>>
      /\ Element' = List!With(r, v)
  BY <1>2, <1>3, Mapped DEF List!With, WithElement
<1>5. QED
  BY <1>4 DEF List!AddEnd, List!Returns, Returns

LEMMA AddsFront ==
  ASSUME IInv, IInv', Usable, Usable', NEW v \in Value, size' = size + 1,
         Behind(size, iRefOffset, front, data, iRefOffset', front', data'),
         data'[front'] = v, Returns("SUCCESS", None)
  PROVE  List!AddEnd(v)
<1> DEFINE r == RefAt(0, iRefOffset', front')
<1>1. /\ size \in Nat /\ front \in SizeT /\ iRefOffset \in SizeT
      /\ front + size < W
      /\ front' \in SizeT /\ iRefOffset' \in SizeT
      /\ front' + size + 1 < W
  BY RoomFacts
<1>2. /\ r \in SizeT \ RefsOf(size, iRefOffset, front)
      /\ OrderOf(size + 1, iRefOffset', front')
           = <<r>> \o OrderOf(size, iRefOffset, front)
      /\ ElementOf(size + 1, iRefOffset', front', data')
           = WithElement(size, iRefOffset, front, data, r, data'[front'])
  <2>1. FrontAdded(size, iRefOffset, front, data, iRefOffset', front', data')
    BY <1>1, AddedFront
  <2>2. QED
    BY <2>1 DEF FrontAdded
<1>3. DOMAIN Element = RefsOf(size, iRefOffset, front)
  BY Mapped DEF ElementOf
<1>4. /\ r \in SizeT \ DOMAIN Element
      /\ Order' = <<r>> \o Order
      /\ Element' = List!With(r, v)
  BY <1>2, <1>3, Mapped DEF List!With, WithElement
<1>5. QED
  BY <1>4 DEF List!AddEnd, List!Returns, Returns
LEMMA UnchangedContents ==
  ASSUME UNCHANGED <<memBlock, header, corrupt>>
  PROVE  UNCHANGED <<Order, Element, Usable>>
BY DEF header, layout, contents, Order, Element, Usable, IRefAt

LEMMA ReallocateRefines ==
  ASSUME IInv, IInv', Usable, NEW newCapacity \in 0 .. MaxCapacity,
         NEW newFront \in 0 .. MaxCapacity, size <= newCapacity,
         Reallocate(newCapacity, newFront)
  PROVE  List!NoEffect \/ List!Break
<1>1. CASE FailAllocation
  BY <1>1, FailRefines
<1>2. CASE Corrupt
  BY <1>2, BreakRefines
<1>3. CASE /\ Layout(newCapacity, newFront)
           /\ data' = Moved(newCapacity, newFront)
           /\ Returns("SUCCESS", None)
           /\ UNCHANGED <<memBlock, size, origin, corrupt>>
  <2>1. Usable' /\ size' = size
    BY <1>3 DEF Usable
  <2>2. /\ front' = newFront
        /\ iRefOffset' = Minus(Plus(iRefOffset, front), newFront)
        /\ data' = [p \in newFront .. newFront + size - 1 |-> data[p - newFront + front]]
    BY <1>3, MovedFacts DEF Layout, Rebased
  <2>3. ASSUME NEW i \in 0 .. size - 1
        PROVE  /\ RefAt(i, iRefOffset', front') = RefAt(i, iRefOffset, front)
               /\ data'[front' + i] = data[front + i]
    <3>1. i \in SizeT /\ iRefOffset \in SizeT /\ front \in SizeT /\ newFront \in SizeT
      BY TypeFacts, CapacityType DEF SizeT
    <3>2. RefAt(i, iRefOffset', front') = RefAt(i, iRefOffset, front)
      BY <2>2, <3>1, AtRebased
    <3>3. /\ newFront + i \in newFront .. newFront + size - 1
          /\ newFront + i - newFront + front = front + i
      BY TypeFacts
    <3>4. QED
      BY <2>2, <3>2, <3>3
  <2>4. Order' = Order /\ Element' = Element
    BY <2>1, <2>3, KeepsContents
  <2>5. QED
    BY <1>3, <2>1, <2>4 DEF List!NoEffect, List!Unmoved, List!Returns, Returns
<1>4. QED
  BY <1>1, <1>2, <1>3 DEF Reallocate

LEMMA ReserveRefines ==
  ASSUME IInv, IInv', (\E n \in Asked : Reserve(n)) \/ ShrinkToFit
  PROVE  List!NoEffect \/ List!Break
<1>1. ASSUME NEW n \in Asked, Reserve(n) PROVE List!NoEffect \/ List!Break
  <2>1. CASE /\ Returns("CAPACITY_TOO_SMALL", None)
             /\ UNCHANGED <<memBlock, header, corrupt>>
    BY <1>1, <2>1, UnchangedContents
       DEF Reserve, List!NoEffect, List!Unmoved, List!Returns, Returns
  <2>2. CASE n >= size /\ Reallocate(n, reallocationFrontMargin)
    BY <1>1, <2>2, TypeFacts, ReallocateRefines DEF Reserve, Asked
  <2>3. QED
    BY <1>1, <2>1, <2>2 DEF Reserve
<1>2. CASE ShrinkToFit
  BY <1>2, TypeFacts, ReallocateRefines DEF ShrinkToFit
<1>3. QED
  BY <1>1, <1>2

\* A list that is broken keeps its block, so that it is not constructed again.
BrokenKept == corrupt => memBlock

LEMMA BrokenKeptInv == BrokenKept /\ [Next]_vars => BrokenKept'
<1> SUFFICES ASSUME BrokenKept, [Next]_vars PROVE BrokenKept'
  OBVIOUS
<1> USE DEF BrokenKept, Corrupt, FailAllocation, Usable, header
<1>1. CASE \E n, m \in Asked : ConstructSizeFront(n, m)
  BY <1>1 DEF ConstructSizeFront
<1>2. CASE Destroy \/ Clear
  BY <1>2 DEF Destroy, Clear
<1>3. CASE (\E n \in Asked : Reserve(n)) \/ ShrinkToFit
  BY <1>3 DEF Reserve, ShrinkToFit, Reallocate
<1>4. CASE \E v \in Value : AppendFront(v) \/ AppendBack(v)
  BY <1>4 DEF AppendFront, AppendFrontInPlace, AppendFrontGrowing,
     AppendBack, AppendBackInPlace, AppendBackGrowing
<1>5. CASE RemoveFront \/ RemoveBack
  BY <1>5 DEF RemoveFront, RemoveBack
<1>6. CASE \E w \in SizeT : \/ GetElementIndex(w) \/ GetElementIRef(w)
                            \/ IndexToIRef(w) \/ IRefToIndex(w)
  BY <1>6 DEF GetElementIndex, GetElementIRef, IndexToIRef, IRefToIndex, Answers
<1>7. CASE UNCHANGED vars
  BY <1>7 DEF vars
<1>8. QED
  BY <1>1, <1>2, <1>3, <1>4, <1>5, <1>6, <1>7 DEF Next

LEMMA ConstructRefines ==
  ASSUME IInv, IInv', BrokenKept, NEW n \in Asked, NEW m \in Asked,
         ConstructSizeFront(n, m)
  PROVE  List!Construct \/ List!FailConstruct
<1>1. ~memBlock /\ ~corrupt
  BY DEF ConstructSizeFront, BrokenKept
<1>2. CASE FailAllocation
  BY <1>1, <1>2, UnchangedContents
     DEF FailAllocation, Usable, Returns, List!FailConstruct, List!Returns
<1>3. CASE ~FailAllocation
  <2>1. /\ memBlock' = TRUE /\ size' = 0 /\ data' = NoData
        /\ Returns("SUCCESS", None) /\ UNCHANGED corrupt
    BY <1>3 DEF ConstructSizeFront
  <2>2. Usable' = TRUE /\ ~Usable
    BY <1>1, <2>1 DEF Usable, IInv, TypeOK
  <2>3. QED
    BY <2>1, <2>2, EmptiesContents DEF Returns, List!Construct, List!Returns
<1>4. QED
  BY <1>2, <1>3

LEMMA EmptiedRefines ==
  ASSUME IInv, IInv', Destroy \/ Clear
  PROVE  List!Destroy \/ List!Clear
<1>1. CASE Destroy
  <2>1. Usable' = FALSE /\ Usable /\ Returns("SUCCESS", None)
    BY <1>1 DEF Destroy, Gone, Usable
  <2>2. QED
    BY <2>1, EmptiesContents DEF Returns, List!Destroy, List!Returns
<1>2. CASE Clear
  <2>1. /\ Usable /\ Usable' = Usable /\ size' = 0 /\ data' = NoData
        /\ Returns("SUCCESS", None)
    BY <1>2 DEF Clear, Usable
  <2>2. QED
    BY <2>1, EmptiesContents DEF Returns, List!Clear, List!Returns
<1>3. QED
  BY <1>1, <1>2

LEMMA AppendFrontUsable ==
  ASSUME NEW v, AppendFront(v)
  PROVE  Usable
BY DEF AppendFront, AppendFrontInPlace, AppendFrontGrowing

\* An append in front that neither fails nor leaves the block.
LEMMA LongerInFront ==
  ASSUME IInv, IInv', NEW v \in Value, AppendFront(v), ~Corrupt, ~FailAllocation
  PROVE  /\ Usable'
         /\ size' = size + 1
         /\ data'[front'] = v
         /\ Behind(size, iRefOffset, front, data, iRefOffset', front', data')
         /\ capacity' >= capacity
         /\ UNCHANGED origin
         /\ Returns("SUCCESS", None)
<1>1. Usable
  BY AppendFrontUsable
<1>2. /\ front \in SizeT /\ front \in Int /\ iRefOffset \in SizeT /\ size \in Nat
      /\ data \in [front .. front + size - 1 -> Value]
      /\ \A i \in 0 .. size - 1 : /\ i \in SizeT /\ i + 1 < W
                                  /\ front + i \in front .. front + size - 1
  BY RoomFacts, TypeFacts, StableListAssumption DEF IInv, TypeOK, SizeT
<1>3. CASE AppendFrontInPlace(v)
  <2>1. /\ front # 0
        /\ front' = front - 1
        /\ size' = size + 1
        /\ data' = Extended(data, front - 1, v)
        /\ Returns("SUCCESS", None)
        /\ UNCHANGED <<memBlock, iRefOffset, corrupt>>
        /\ UNCHANGED <<capacity, origin>>
    BY <1>3 DEF AppendFrontInPlace
  <2>2. Usable'
    BY <1>1, <2>1 DEF Usable
  <2>3. /\ data'[front'] = v
        /\ \A p \in front .. front + size - 1 : data'[p] = data[p]
    <3>1. front - 1 \notin front .. front + size - 1
      BY <1>2
    <3>2. QED
      BY <1>2, <2>1, <3>1 DEF Extended
  <2>4. ASSUME NEW i \in 0 .. size - 1
        PROVE  /\ RefAt(i + 1, iRefOffset', front') = RefAt(i, iRefOffset, front)
               /\ data'[front' + i + 1] = data[front + i]
    <3>1. front > 0 /\ front' + i + 1 = front + i
      BY <1>2, <2>1 DEF SizeT
    <3>2. RefAt(i + 1, iRefOffset', front') = RefAt(i, iRefOffset, front)
      BY <1>2, <2>1, <3>1, AtShift
    <3>3. QED
      BY <1>2, <2>3, <3>1, <3>2
  <2>5. Behind(size, iRefOffset, front, data, iRefOffset', front', data')
    BY <2>4 DEF Behind
  <2>6. QED
    BY <2>1, <2>2, <2>3, <2>5, TypeFacts
<1>4. CASE AppendFrontGrowing(v)
  <2> DEFINE margin == IF reallocationFrontMargin = 0 THEN 1 ELSE reallocationFrontMargin
             newCapacity == capacity + margin
             moved == Moved(newCapacity, margin)
             newOffset == Minus(Plus(iRefOffset, front), margin)
  <2>1. /\ CanAllocate(newCapacity)
        /\ front' = margin - 1
        /\ iRefOffset' = newOffset
        /\ size' = size + 1
        /\ data' = Extended(moved, margin - 1, v)
        /\ Returns("SUCCESS", None)
        /\ UNCHANGED <<memBlock, origin, corrupt>>
        /\ capacity' = newCapacity
    BY <1>4 DEF AppendFrontGrowing, Rebased
  <2>2. Usable'
    BY <1>1, <2>1 DEF Usable
  <2>3. /\ margin \in 0 .. MaxCapacity /\ margin > 0 /\ margin \in Int
        /\ newCapacity \in 0 .. MaxCapacity
        /\ size <= newCapacity
        /\ newCapacity >= capacity
    BY <2>1, TypeFacts DEF CanAllocate
  <2> HIDE DEF margin, newCapacity
  <2>4. /\ moved \in [margin .. margin + size - 1 -> Value]
        /\ moved = [p \in margin .. margin + size - 1 |-> data[p - margin + front]]
    BY <2>3, MovedFacts
  <2>5. margin \in SizeT /\ newOffset \in SizeT
    BY <1>2, <2>3, CapacityType, SumType
  <2> HIDE DEF moved
  <2>6. /\ data'[front'] = v
        /\ \A p \in margin .. margin + size - 1 : data'[p] = moved[p]
    <3>1. margin - 1 \notin margin .. margin + size - 1
      BY <1>2, <2>3
    <3>2. QED
      BY <2>1, <2>4, <3>1 DEF Extended
  <2>7. ASSUME NEW i \in 0 .. size - 1
        PROVE  /\ RefAt(i + 1, iRefOffset', front') = RefAt(i, iRefOffset, front)
               /\ data'[front' + i + 1] = data[front + i]
    <3>1. RefAt(i + 1, newOffset, margin - 1) = RefAt(i, newOffset, margin)
      <4> HIDE DEF newOffset
      <4>1. QED
        BY <1>2, <2>3, <2>5, AtShift
    <3>2. RefAt(i, newOffset, margin) = RefAt(i, iRefOffset, front)
      BY <1>2, <2>5, AtRebased
    <3>3. /\ front' + i + 1 = margin + i
          /\ margin + i \in margin .. margin + size - 1
          /\ margin + i - margin + front = front + i
      BY <1>2, <2>1, <2>3
    <3>4. data'[margin + i] = data[front + i]
      <4>1. moved[margin + i] = data[margin + i - margin + front]
        BY <1>2, <2>3, <2>4, <3>3
      <4>2. QED
        BY <2>6, <3>3, <4>1
    <3>5. QED
      BY <2>1, <3>1, <3>2, <3>3, <3>4
  <2>8. Behind(size, iRefOffset, front, data, iRefOffset', front', data')
    BY <2>7 DEF Behind
  <2>9. QED
    BY <2>1, <2>2, <2>3, <2>6, <2>8
<1>5. QED
  BY <1>3, <1>4 DEF AppendFront

LEMMA AppendFrontRefines ==
  ASSUME IInv, IInv', NEW v \in Value, AppendFront(v)
  PROVE  List!AddEnd(v) \/ List!NoEffect \/ List!Break
<1>0. Usable
  BY AppendFrontUsable
<1>1. CASE FailAllocation
  BY <1>0, <1>1, FailRefines
<1>2. CASE Corrupt
  BY <1>0, <1>2, BreakRefines
<1>3. CASE ~FailAllocation /\ ~Corrupt
  BY <1>0, <1>3, LongerInFront, AddsFront
<1>4. QED
  BY <1>1, <1>2, <1>3

LEMMA AppendBackUsable ==
  ASSUME NEW v, AppendBack(v)
  PROVE  Usable
BY DEF AppendBack, AppendBackInPlace, AppendBackGrowing

\* An append at the back that neither fails nor leaves the block.
LEMMA LongerAtBack ==
  ASSUME IInv, IInv', NEW v \in Value, AppendBack(v), ~Corrupt, ~FailAllocation
  PROVE  /\ Usable'
         /\ size' = size + 1
         /\ data'[front' + size] = v
         /\ Ahead(size, iRefOffset, front, data, iRefOffset', front', data')
         /\ capacity' >= capacity
         /\ UNCHANGED origin
         /\ Returns("SUCCESS", None)
<1>1. Usable
  BY AppendBackUsable
<1>2. /\ front \in SizeT /\ front \in Int /\ iRefOffset \in SizeT /\ size \in Nat
      /\ data \in [front .. front + size - 1 -> Value]
      /\ \A i \in 0 .. size - 1 : /\ i \in SizeT
                                  /\ front + i \in front .. front + size - 1
  BY RoomFacts, TypeFacts, StableListAssumption DEF IInv, TypeOK, SizeT
<1>3. CASE AppendBackInPlace(v)
  <2>1. /\ front' = front
        /\ size' = size + 1
        /\ data' = Extended(data, front + size, v)
        /\ Returns("SUCCESS", None)
        /\ UNCHANGED <<memBlock, iRefOffset, corrupt>>
        /\ UNCHANGED <<capacity, origin>>
    BY <1>3 DEF AppendBackInPlace, layout
  <2>2. Usable'
    BY <1>1, <2>1 DEF Usable
  <2>3. /\ data'[front' + size] = v
        /\ \A p \in front .. front + size - 1 : data'[p] = data[p]
    <3>1. front + size \notin front .. front + size - 1
      BY <1>2
    <3>2. QED
      BY <1>2, <2>1, <3>1 DEF Extended
  <2>4. \A i \in 0 .. size - 1 : /\ RefAt(i, iRefOffset', front') = RefAt(i, iRefOffset, front)
                                 /\ data'[front' + i] = data[front + i]
    BY <1>2, <2>1, <2>3
  <2>5. Ahead(size, iRefOffset, front, data, iRefOffset', front', data')
    BY <2>4 DEF Ahead
  <2>6. QED
    BY <2>1, <2>2, <2>3, <2>5, TypeFacts
<1>4. CASE AppendBackGrowing(v)
  <2> DEFINE newCapacity == capacity * 2
             newFront == reallocationFrontMargin
             moved == Moved(newCapacity, newFront)
  <2>1. /\ CanAllocate(newCapacity)
        /\ front' = newFront
        /\ iRefOffset' = Minus(Plus(iRefOffset, front), newFront)
        /\ size' = size + 1
        /\ data' = Extended(moved, newFront + size, v)
        /\ Returns("SUCCESS", None)
        /\ UNCHANGED <<memBlock, origin, corrupt>>
        /\ capacity' = newCapacity
    BY <1>4 DEF AppendBackGrowing, GrownCapacity, Layout, Rebased
  <2>2. Usable'
    BY <1>1, <2>1 DEF Usable
  <2>3. /\ newFront \in 0 .. MaxCapacity /\ newFront \in Int
        /\ newCapacity \in 0 .. MaxCapacity
        /\ size <= newCapacity
        /\ newCapacity >= capacity
    BY <2>1, TypeFacts DEF CanAllocate
  <2> HIDE DEF newFront, newCapacity
  <2>4. /\ moved \in [newFront .. newFront + size - 1 -> Value]
        /\ moved = [p \in newFront .. newFront + size - 1 |-> data[p - newFront + front]]
    BY <2>3, MovedFacts
  <2>5. newFront \in SizeT
    BY <2>3, CapacityType
  <2> HIDE DEF moved
  <2>6. /\ data'[front' + size] = v
        /\ \A p \in newFront .. newFront + size - 1 : data'[p] = moved[p]
    <3>1. newFront + size \notin newFront .. newFront + size - 1
      BY <1>2, <2>3
    <3>2. QED
      BY <2>1, <2>4, <3>1 DEF Extended
  <2>7. ASSUME NEW i \in 0 .. size - 1
        PROVE  /\ RefAt(i, iRefOffset', front') = RefAt(i, iRefOffset, front)
               /\ data'[front' + i] = data[front + i]
    <3>1. RefAt(i, iRefOffset', front') = RefAt(i, iRefOffset, front)
      BY <1>2, <2>1, <2>5, AtRebased
    <3>2. /\ newFront + i \in newFront .. newFront + size - 1
          /\ newFront + i - newFront + front = front + i
      BY <1>2, <2>3
    <3>3. data'[newFront + i] = data[front + i]
      <4>1. moved[newFront + i] = data[newFront + i - newFront + front]
        BY <1>2, <2>3, <2>4, <3>2
      <4>2. QED
        BY <2>6, <3>2, <4>1
    <3>4. QED
      BY <2>1, <3>1, <3>3
  <2>8. Ahead(size, iRefOffset, front, data, iRefOffset', front', data')
    BY <2>7 DEF Ahead
  <2>9. QED
    BY <2>1, <2>2, <2>3, <2>6, <2>8
<1>5. QED
  BY <1>3, <1>4 DEF AppendBack

LEMMA AppendBackRefines ==
  ASSUME IInv, IInv', NEW v \in Value, AppendBack(v)
  PROVE  List!AddEnd(v) \/ List!NoEffect \/ List!Break
<1>0. Usable
  BY AppendBackUsable
<1>1. CASE FailAllocation
  BY <1>0, <1>1, FailRefines
<1>2. CASE Corrupt
  BY <1>0, <1>2, BreakRefines
<1>3. CASE ~FailAllocation /\ ~Corrupt
  BY <1>0, <1>3, LongerAtBack, AddsBack
<1>4. QED
  BY <1>1, <1>2, <1>3

\* Taking the added element away again gives the list there was.
Removed(element, r) == [x \in DOMAIN element \ {r} |-> element[x]]

LEMMA AddedAndGone ==
  ASSUME NEW n, NEW o, NEW f, NEW d, NEW r, NEW v, r \notin RefsOf(n, o, f)
  PROVE  ElementOf(n, o, f, d) = Removed(WithElement(n, o, f, d, r, v), r)
<1> DEFINE with == WithElement(n, o, f, d, r, v)
<1>1. DOMAIN with \ {r} = RefsOf(n, o, f)
  BY DEF WithElement
<1>2. \A x \in RefsOf(n, o, f) : with[x] = ElementOf(n, o, f, d)[x]
  BY DEF WithElement
<1>3. ElementOf(n, o, f, d) = [x \in RefsOf(n, o, f) |-> ElementOf(n, o, f, d)[x]]
  BY DEF ElementOf
<1>4. ElementOf(n, o, f, d) = [x \in DOMAIN with \ {r} |-> with[x]]
  <2> HIDE DEF with
  <2>1. QED
    BY <1>1, <1>2, <1>3
<1>5. QED
  BY <1>4 DEF Removed

LEMMA RemoveFrontRefines ==
  ASSUME IInv, IInv', RemoveFront
  PROVE  List!RemoveFront \/ List!Break
<1>0. Usable
  BY DEF RemoveFront
<1>1. CASE Corrupt
  BY <1>0, <1>1, BreakRefines
<1>2. CASE ~Corrupt
  <2> DEFINE r == RefAt(0, iRefOffset, front)
             before == ElementOf(size, iRefOffset, front, data)
  <2>1. /\ size > 0
        /\ front' = front + 1
        /\ size' = size - 1
        /\ data' = [p \in front + 1 .. front + size - 1 |-> data[p]]
        /\ Returns("SUCCESS", None)
        /\ UNCHANGED <<memBlock, iRefOffset, corrupt>>
    BY <1>2 DEF RemoveFront
  <2>2. Usable'
    BY <1>0, <2>1 DEF Usable
  <2>3. /\ size \in Nat /\ front \in SizeT /\ iRefOffset \in SizeT
        /\ size' \in Nat /\ front' \in SizeT /\ iRefOffset' \in SizeT
        /\ front \in Nat /\ front + size < W /\ front' + size' < W
        /\ size' + 1 = size /\ front + size' + 1 < W
    <3>1. /\ size \in Nat /\ front \in SizeT /\ iRefOffset \in SizeT
          /\ size' \in Nat /\ front' \in SizeT /\ iRefOffset' \in SizeT
          /\ front \in Nat /\ front + size < W /\ front' + size' < W
      BY RoomFacts
    <3>2. size' + 1 = size /\ front + size' + 1 < W
      BY <2>1, <3>1, StableListAssumption
    <3>3. QED
      BY <3>1, <3>2
  <2>4. ASSUME NEW i \in 0 .. size' - 1
        PROVE  /\ RefAt(i + 1, iRefOffset, front) = RefAt(i, iRefOffset', front')
               /\ data[front + i + 1] = data'[front' + i]
    <3>1. i \in SizeT /\ i + 1 < W /\ front' > 0 /\ front' - 1 = front
      BY <2>1, <2>3, StableListAssumption DEF SizeT
    <3>2. RefAt(i + 1, iRefOffset, front) = RefAt(i, iRefOffset', front')
      BY <2>1, <2>3, <3>1, AtShift
    <3>3. /\ front' + i = front + i + 1
          /\ front + i + 1 \in front + 1 .. front + size - 1
      BY <2>1, <2>3
    <3>4. QED
      BY <2>1, <3>2, <3>3
  <2>5. Behind(size', iRefOffset', front', data', iRefOffset, front, data)
    BY <2>4 DEF Behind
  <2>6. FrontAdded(size', iRefOffset', front', data', iRefOffset, front, data)
    BY <2>3, <2>5, AddedFront
  <2>7. /\ r \in SizeT
        /\ Order = <<r>> \o Order'
    BY <1>0, <2>2, <2>3, <2>6, Mapped DEF FrontAdded
  <2>8. Element' = List!Without(r)
    <3>1. /\ r \notin RefsOf(size', iRefOffset', front')
          /\ before = WithElement(size', iRefOffset', front', data', r, data[front])
      BY <2>3, <2>6 DEF FrontAdded
    <3>2. ElementOf(size', iRefOffset', front', data') = Removed(before, r)
      <4> HIDE DEF r, before
      <4>1. QED
        BY <3>1, AddedAndGone
    <3>3. QED
      BY <1>0, <2>2, <3>2, Mapped DEF Removed, List!Without
  <2>9. Order' \in Seq(SizeT)
    BY <2>2, <2>3, OrderFacts, Mapped
  <2>10. Order # << >> /\ Head(Order) = r /\ Tail(Order) = Order'
    <3> HIDE DEF r
    <3>1. QED
      BY <2>7, <2>9, DropEnds
  <2>11. QED
    BY <1>0, <2>1, <2>2, <2>8, <2>10 DEF Returns, List!RemoveFront, List!Returns, Usable
<1>3. QED
  BY <1>1, <1>2

LEMMA RemoveBackRefines ==
  ASSUME IInv, IInv', RemoveBack
  PROVE  List!RemoveBack \/ List!Break
<1>0. Usable
  BY DEF RemoveBack
<1>1. CASE Corrupt
  BY <1>0, <1>1, BreakRefines
<1>2. CASE ~Corrupt
  <2> DEFINE r == RefAt(size', iRefOffset, front)
             before == ElementOf(size, iRefOffset, front, data)
  <2>1. /\ size > 0
        /\ size' = size - 1
        /\ data' = [p \in front .. front + size - 2 |-> data[p]]
        /\ Returns("SUCCESS", None)
        /\ UNCHANGED <<memBlock, iRefOffset, front, corrupt>>
    BY <1>2 DEF RemoveBack, layout
  <2>2. Usable'
    BY <1>0, <2>1 DEF Usable
  <2>3. /\ size \in Nat /\ front \in SizeT /\ iRefOffset \in SizeT
        /\ size' \in Nat /\ front' \in SizeT /\ iRefOffset' \in SizeT
        /\ front \in Nat /\ front + size < W /\ front' + size' < W
        /\ size' + 1 = size /\ front + size' + 1 < W
    <3>1. /\ size \in Nat /\ front \in SizeT /\ iRefOffset \in SizeT
          /\ size' \in Nat /\ front' \in SizeT /\ iRefOffset' \in SizeT
          /\ front \in Nat /\ front + size < W /\ front' + size' < W
      BY RoomFacts
    <3>2. size' + 1 = size /\ front + size' + 1 < W
      BY <2>1, <3>1, StableListAssumption
    <3>3. QED
      BY <3>1, <3>2
  <2>4. ASSUME NEW i \in 0 .. size' - 1
        PROVE  /\ RefAt(i, iRefOffset, front) = RefAt(i, iRefOffset', front')
               /\ data[front + i] = data'[front' + i]
    <3>1. front + i \in front .. front + size - 2
      BY <2>1, <2>3
    <3>2. QED
      BY <2>1, <3>1
  <2>5. Ahead(size', iRefOffset', front', data', iRefOffset, front, data)
    BY <2>4 DEF Ahead
  <2>6. /\ r \in SizeT \ RefsOf(size', iRefOffset', front')
        /\ OrderOf(size' + 1, iRefOffset, front)
             = OrderOf(size', iRefOffset', front') \o <<r>>
        /\ ElementOf(size' + 1, iRefOffset, front, data)
             = WithElement(size', iRefOffset', front', data', r, data[front + size'])
    <3>1. BackAdded(size', iRefOffset', front', data', iRefOffset, front, data)
      BY <2>3, <2>5, AddedBack
    <3>2. QED
      BY <3>1 DEF BackAdded
  <2>7. /\ r \in SizeT
        /\ Order = Order' \o <<r>>
    BY <1>0, <2>2, <2>3, <2>6, Mapped
  <2>8. Element' = List!Without(r)
    <3>1. /\ r \notin RefsOf(size', iRefOffset', front')
          /\ before = WithElement(size', iRefOffset', front', data', r, data[front + size'])
      BY <2>3, <2>6
    <3>2. ElementOf(size', iRefOffset', front', data') = Removed(before, r)
      <4> HIDE DEF r, before
      <4>1. QED
        BY <3>1, AddedAndGone
    <3>3. QED
      BY <1>0, <2>2, <3>2, Mapped DEF Removed, List!Without
  <2>9. Order' \in Seq(SizeT)
    BY <2>2, <2>3, OrderFacts, Mapped
  <2>10. /\ Order # << >>
        /\ Order[Len(Order)] = r
        /\ SubSeq(Order, 1, Len(Order) - 1) = Order'
    <3> DEFINE s == Order'
    <3> HIDE DEF r, s
    <3>1. Order = s \o <<r>> /\ s \in Seq(SizeT) /\ r \in SizeT
      BY <2>7, <2>9 DEF s
    <3>2. /\ Order # << >> /\ Len(Order) = Len(s) + 1
          /\ Order[Len(s) + 1] = r /\ SubSeq(Order, 1, Len(s)) = s
      BY <3>1, DropEnds
    <3>3. Len(Order) - 1 = Len(s)
      BY <3>1, <3>2, LenProperties
    <3>4. QED
      BY <3>2, <3>3 DEF s
  <2>11. QED
    BY <1>0, <2>1, <2>2, <2>8, <2>10 DEF Returns, List!RemoveBack, List!Returns, Usable
<1>3. QED
  BY <1>1, <1>2

\* The calls that look at the list.
LEMMA LookRefines ==
  ASSUME IInv, IInv', NEW w \in SizeT,
         GetElementIndex(w) \/ IndexToIRef(w) \/ GetElementIRef(w) \/ IRefToIndex(w)
  PROVE  List!GetIndex(w) \/ List!IndexToIRef(w) \/ List!GetIRef(w) \/ List!IRefToIndex(w)
<1>1. /\ Usable
      /\ List!Unmoved
      /\ w \in Nat
  <2>1. Usable /\ UNCHANGED <<memBlock, header, corrupt>>
    BY DEF GetElementIndex, IndexToIRef, GetElementIRef, IRefToIndex, Answers
  <2>2. w \in Nat
    BY StableListAssumption DEF SizeT
  <2>3. QED
    BY <2>1, <2>2, UnchangedContents DEF List!Unmoved
<1>2. /\ Len(Order) = size /\ size \in Nat
      /\ \A i \in 0 .. size - 1 : Order[i + 1] = RefAt(i, iRefOffset, front)
  <2>1. /\ Len(Order) = size /\ size \in Nat
        /\ \A i \in 1 .. size : Order[i] = RefAt(i - 1, iRefOffset, front)
    <3> DEFINE order == OrderOf(size, iRefOffset, front)
    <3>1. size \in Nat /\ front \in SizeT /\ iRefOffset \in SizeT /\ front + size < W
      BY RoomFacts
    <3>2. /\ Len(order) = size
          /\ \A i \in 1 .. size : order[i] = RefAt(i - 1, iRefOffset, front)
      BY <3>1, OrderFacts
    <3>3. Order = order
      BY <1>1, Mapped
    <3> HIDE DEF order
    <3>4. QED
      BY <3>1, <3>2, <3>3
  <2>2. \A i \in 0 .. size - 1 : i + 1 \in 1 .. size /\ i + 1 - 1 = i
    BY <2>1
  <2>3. QED
    BY <2>1, <2>2
<1>3. \A i \in 0 .. size - 1 : /\ Element[RefAt(i, iRefOffset, front)] = data[front + i]
                               /\ RefAt(i, iRefOffset, front) \in DOMAIN Element
  <2>1. \A i \in 0 .. size - 1 :
          ElementOf(size, iRefOffset, front, data)[RefAt(i, iRefOffset, front)] = data[front + i]
    BY RoomFacts, ElementFacts
  <2>2. DOMAIN Element = RefsOf(size, iRefOffset, front)
    BY <1>1, Mapped DEF ElementOf
  <2>3. QED
    BY <1>1, <2>1, <2>2, Mapped DEF RefsOf
<1>4. Valid(w) => /\ IndexOf(w) \in 0 .. size - 1
                  /\ w = RefAt(IndexOf(w), iRefOffset, front)
                  /\ Minus(w, iRefOffset) = front + IndexOf(w)
  BY ValidFacts DEF IRefAt, RefAt
<1>5. ~Valid(w) => w \notin DOMAIN Element
  <2>1. ASSUME w \in DOMAIN Element PROVE Valid(w)
    <3>1. PICK i \in 0 .. size - 1 : w = RefAt(i, iRefOffset, front)
      BY <1>1, <2>1, Mapped DEF ElementOf, RefsOf
    <3>2. i \in SizeT /\ i + front < W /\ iRefOffset \in SizeT /\ front \in SizeT
      BY RoomFacts, StableListAssumption DEF SizeT
    <3>3. IndexOf(w) = i
      BY <3>1, <3>2, AtInverse DEF IndexOf
    <3>4. QED
      BY <1>2, <3>3 DEF Valid
  <2>2. QED
    BY <2>1
<1>6. w < size => w \in 0 .. size - 1 /\ w + front = front + w
  BY <1>1, <1>2, RoomFacts
<1>7. CASE GetElementIndex(w)
  <2>1. CASE w >= size
    BY <1>1, <1>2, <1>7, <2>1 DEF GetElementIndex, Answers, Returns, List!GetIndex, List!Returns
  <2>2. CASE w < size
    <3>1. Element[Order[w + 1]] = data[w + front]
      BY <1>2, <1>3, <1>6, <2>2
    <3>2. QED
      BY <1>1, <1>2, <1>7, <2>2, <3>1
         DEF GetElementIndex, Answers, Returns, List!GetIndex, List!Returns
  <2>3. QED
    BY <1>1, <1>2, <2>1, <2>2
<1>8. CASE IndexToIRef(w)
  <2>1. CASE w >= size
    BY <1>1, <1>2, <1>8, <2>1 DEF IndexToIRef, Answers, Returns, List!IndexToIRef, List!Returns
  <2>2. CASE w < size
    <3>1. Order[w + 1] = IRefAt(w)
      BY <1>2, <1>6, <2>2 DEF RefAt, IRefAt
    <3>2. QED
      BY <1>1, <1>2, <1>8, <2>2, <3>1
         DEF IndexToIRef, Answers, Returns, List!IndexToIRef, List!Returns
  <2>3. QED
    BY <1>1, <1>2, <2>1, <2>2
<1>9. CASE GetElementIRef(w)
  <2>1. CASE Valid(w)
    <3>1. w \in DOMAIN Element /\ Element[w] = data[Minus(w, iRefOffset)]
      BY <1>3, <1>4, <2>1
    <3>2. QED
      BY <1>1, <1>9, <2>1, <3>1
         DEF GetElementIRef, Answers, Returns, List!GetIRef, List!Returns
  <2>2. CASE ~Valid(w)
    BY <1>1, <1>5, <1>9, <2>2 DEF GetElementIRef, Answers, Returns, IRefError,
       List!GetIRef, List!Returns, List!Refusal
  <2>3. QED
    BY <2>1, <2>2
<1>10. CASE IRefToIndex(w)
  <2>1. CASE Valid(w)
    <3>1. /\ IndexOf(w) \in Int
          /\ IndexOf(w) + 1 \in 1 .. Len(Order)
          /\ IndexOf(w) + 1 - 1 = IndexOf(w)
          /\ Order[IndexOf(w) + 1] = w
      BY <1>2, <1>4, <2>1
    <3>2. Returns("SUCCESS", IndexOf(w))
      BY <1>10, <2>1 DEF IRefToIndex, Answers
    <3>3. \E i \in 1 .. Len(Order) : List!Returns("SUCCESS", i - 1) /\ Order[i] = w
      <4> USE <3>1
      <4> WITNESS IndexOf(w) + 1 \in 1 .. Len(Order)
      <4>1. QED
        BY <3>2 DEF Returns, List!Returns
    <3>4. QED
      BY <1>1, <3>3 DEF List!IRefToIndex
  <2>2. CASE ~Valid(w)
    BY <1>1, <1>5, <1>10, <2>2 DEF IRefToIndex, Answers, Returns, IRefError,
       List!IRefToIndex, List!Returns, List!Refusal
  <2>3. QED
    BY <2>1, <2>2
<1>11. QED
  BY <1>7, <1>8, <1>9, <1>10

LEMMA InitRefines == Init => List!Init
<1> SUFFICES ASSUME Init PROVE List!Init
  OBVIOUS
<1>1. Usable = FALSE
  BY DEF Init, Usable
<1>2. QED
  BY <1>1, Mapped DEF Init, NoData, List!Init, List!NoElements

\* Every step of the list is a step, or no step, of the abstract one.
LEMMA NextRefines ==
  IInv /\ IInv' /\ BrokenKept /\ [Next]_vars => [List!Next]_(List!vars)
<1> SUFFICES ASSUME IInv, IInv', BrokenKept, [Next]_vars PROVE [List!Next]_(List!vars)
  OBVIOUS
<1>1. CASE \E n, m \in Asked : ConstructSizeFront(n, m)
  BY <1>1, ConstructRefines DEF List!Next
<1>2. CASE Destroy \/ Clear
  BY <1>2, EmptiedRefines DEF List!Next
<1>3. CASE (\E n \in Asked : Reserve(n)) \/ ShrinkToFit
  BY <1>3, ReserveRefines DEF List!Next
<1>4. CASE \E v \in Value : AppendFront(v) \/ AppendBack(v)
  BY <1>4, AppendFrontRefines, AppendBackRefines DEF List!Next
<1>5. CASE RemoveFront \/ RemoveBack
  BY <1>5, RemoveFrontRefines, RemoveBackRefines DEF List!Next
<1>6. CASE \E w \in SizeT : \/ GetElementIndex(w) \/ GetElementIRef(w)
                            \/ IndexToIRef(w) \/ IRefToIndex(w)
  BY <1>6, LookRefines DEF List!Next
<1>7. CASE UNCHANGED vars
  BY <1>7, UnchangedContents DEF vars, List!vars
<1>8. QED
  BY <1>1, <1>2, <1>3, <1>4, <1>5, <1>6, <1>7 DEF Next

(***************************************************************************)
(* The block, the offset and the copies of stable_list.c together are the  *)
(* list IRefList promises: whatever is added, removed, reserved or shrunk, *)
(* an element keeps the iRef it got, and every iRef its element.           *)
(***************************************************************************)
THEOREM IRefsStable == Spec => IRefListSpec
<1>1. Init => BrokenKept
  BY DEF Init, BrokenKept
<1>2. Spec => []BrokenKept
  BY <1>1, BrokenKeptInv, PTL DEF Spec
<1>3. Init => List!Init
  BY InitRefines
<1>4. IInv /\ IInv' /\ BrokenKept /\ [Next]_vars => [List!Next]_(List!vars)
  BY NextRefines
<1>5. QED
  BY Invariance, <1>2, <1>3, <1>4, PTL DEF Spec, IRefListSpec, List!Spec

-----------------------------------------------------------------------------
(***************************************************************************)
(* The class.  An iterator n steps on from an iRef.                        *)
(***************************************************************************)
LEMMA Wrapped ==
  ASSUME NEW a \in SizeT, NEW b \in SizeT
  PROVE  (a + b) % W = Plus(a, b) /\ (a + (-1) * b) % W = Minus(a, b)
<1>1. /\ W \in Nat /\ W > 0
      /\ a \in Int /\ b \in Int /\ 0 <= a /\ a < W /\ 0 <= b /\ b < W
  BY StableListAssumption DEF SizeT
<1>2. ASSUME NEW x \in Int, NEW q \in {-1, 0, 1}, NEW r \in 0 .. W - 1, x = q * W + r
      PROVE  x % W = r
  <2>1. q = -1 \/ q = 0 \/ q = 1
    OBVIOUS
  <2>2. x % W \in 0 .. W - 1 /\ x = (x \div W) * W + (x % W) /\ x \div W \in Int
    BY <1>1
  <2> DEFINE p == x \div W
             m == x % W
  <2>3. p = q
    <3> HIDE DEF p, m
    <3>1. p \in Int /\ m \in 0 .. W - 1 /\ x = p * W + m
      BY <2>2 DEF p, m
    <3>2. (p - q) * W = r - m
      BY <1>1, <1>2, <3>1
    <3>3. ~(p - q >= 1)
      BY <1>1, <1>2, <3>1, <3>2
    <3>4. ~(p - q <= -1)
      BY <1>1, <1>2, <3>1, <3>2
    <3>5. QED
      BY <1>2, <3>1, <3>3, <3>4
  <2>4. QED
    BY <1>1, <1>2, <2>2, <2>3
<1>3. (a + b) % W = Plus(a, b)
  <2>1. CASE a + b < W
    BY <1>1, <1>2, <2>1 DEF Plus
  <2>2. CASE ~(a + b < W)
    BY <1>1, <1>2, <2>2 DEF Plus
  <2>3. QED
    BY <2>1, <2>2
<1>4. (a + (-1) * b) % W = Minus(a, b)
  <2>1. (-1) * b = -b
    BY <1>1
  <2>2. CASE b <= a
    BY <1>1, <1>2, <2>1, <2>2 DEF Minus
  <2>3. CASE ~(b <= a)
    BY <1>1, <1>2, <2>1, <2>3 DEF Minus
  <2>4. QED
    BY <2>2, <2>3
<1>5. QED
  BY <1>3, <1>4

It(r, d) == [iRef |-> r, step |-> d]

LEMMA Iterators ==
  /\ Begin = It(Base, 1) /\ End = It(Plus(Base, size), 1)
  /\ RBegin = It(Minus(Plus(Base, size), 1), -1) /\ REnd = It(Minus(Base, 1), -1)
BY DEF It, Begin, End, RBegin, REnd

LEMMA Steps ==
  ASSUME NEW r \in SizeT, NEW d \in {1, -1}, NEW n \in SizeT
  PROVE  /\ Advanced(It(r, d), n) = It((r + d * n) % W, d)
         /\ d = 1 => (r + d * n) % W = Plus(r, n)
         /\ d = -1 => (r + d * n) % W = Minus(r, n)
<1>1. Advanced(It(r, d), n) = It((r + d * n) % W, d)
  BY DEF Advanced, It
<1>2. r + 1 * n = r + n
  BY StableListAssumption DEF SizeT
<1>3. (r + 1 * n) % W = Plus(r, n) /\ (r + (-1) * n) % W = Minus(r, n)
  BY <1>2, Wrapped
<1>4. QED
  BY <1>1, <1>3

\* Two numbers of steps that are not the same lead to two iRefs.
LEMMA StepsApart ==
  ASSUME NEW r \in SizeT, NEW n \in SizeT, NEW m \in SizeT,
         Plus(r, m) = Plus(r, n) \/ Minus(r, m) = Minus(r, n)
  PROVE  m = n
BY StableListAssumption DEF SizeT, Plus, Minus

\* A walk to the iterator n steps on has n steps.
LEMMA WalkSteps ==
  ASSUME NEW r \in SizeT, NEW d \in {1, -1}, NEW n \in SizeT
  PROVE  Walk(It(r, d), Advanced(It(r, d), n))
           = [k \in 1 .. n |-> Dereferenced(Advanced(It(r, d), k - 1))]
<1> DEFINE it == It(r, d)
           stop == Advanced(it, n)
           Meets(m) == /\ Advanced(it, m) = stop
                       /\ \A l \in 0 .. m - 1 : Advanced(it, l) # stop
           steps == CHOOSE m \in 0 .. W - 1 : Meets(m)
<1>1. \A m \in SizeT : Advanced(it, m) = stop => m = n
  <2>1. SUFFICES ASSUME NEW m \in SizeT, Advanced(it, m) = Advanced(it, n) PROVE m = n
    OBVIOUS
  <2>2. (r + d * m) % W = (r + d * n) % W
    <3>1. It((r + d * m) % W, d) = It((r + d * n) % W, d)
      BY <2>1, Steps
    <3>2. QED
      BY <3>1 DEF It
  <2>3. Plus(r, m) = Plus(r, n) \/ Minus(r, m) = Minus(r, n)
    BY <2>2, Steps
  <2>4. QED
    BY <2>3, StepsApart
<1> HIDE DEF it
<1>2. Meets(n)
  <2>1. Advanced(it, n) = stop
    BY DEF it
  <2>2. \A l \in 0 .. n - 1 : l \in SizeT /\ l # n
    BY StableListAssumption DEF SizeT
  <2>3. QED
    BY <1>1, <2>1, <2>2
<1>3. n \in 0 .. W - 1
  BY DEF SizeT
<1>4. steps \in 0 .. W - 1 /\ Meets(steps)
  <2> HIDE DEF Meets
  <2>1. QED
    BY <1>2, <1>3
<1>5. steps = n
  <2> HIDE DEF steps
  <2>1. QED
    BY <1>1, <1>4 DEF SizeT
<1>6. Walk(it, stop) = [k \in 1 .. steps |-> Dereferenced(Advanced(it, k - 1))]
  BY DEF Walk
<1>7. QED
  BY <1>5, <1>6 DEF it

\* What an iterator at the element of an index gives.
LEMMA DereferencedAt ==
  ASSUME IInv, NEW i \in 0 .. size - 1, NEW d
  PROVE  Dereferenced(It(Plus(Base, i), d)) = data[front + i]
<1>1. /\ i \in SizeT /\ i + front < W /\ iRefOffset \in SizeT /\ front \in SizeT
      /\ front \in Nat
  BY TypeFacts, CapacityType, StableListAssumption DEF SizeT
<1>2. Plus(Base, i) = RefAt(i, iRefOffset, front)
  BY <1>1, StableListAssumption DEF Base, RefAt, Plus, SizeT
<1>3. /\ IndexOf(Plus(Base, i)) = i
      /\ Minus(Plus(Base, i), iRefOffset) = front + i
  BY <1>1, <1>2, AtInverse DEF IndexOf
<1>4. Valid(Plus(Base, i))
  BY <1>3, TypeFacts DEF Valid
<1>5. QED
  BY <1>3, <1>4 DEF Dereferenced, It

(***************************************************************************)
(* The elements of a list of n elements that start at f.                   *)
(***************************************************************************)
HeldOf(n, f, d) == [i \in 1 .. n |-> d[f + i - 1]]

LEMMA HeldMapped == Held = HeldOf(size, front, data) /\ Held' = HeldOf(size', front', data')
BY DEF Held, HeldOf

LEMMA HeldLen ==
  ASSUME NEW n \in Nat, NEW f \in Int, NEW d
  PROVE  /\ Len(HeldOf(n, f, d)) = n
         /\ DOMAIN HeldOf(n, f, d) = 1 .. n
         /\ \A i \in 0 .. n - 1 : HeldOf(n, f, d)[i + 1] = d[f + i]
<1>1. DOMAIN HeldOf(n, f, d) = 1 .. n
  BY DEF HeldOf
<1>2. Len(HeldOf(n, f, d)) = n
  BY <1>1
<1>3. \A i \in 0 .. n - 1 : i + 1 \in 1 .. n /\ f + (i + 1) - 1 = f + i
  OBVIOUS
<1>4. QED
  BY <1>1, <1>2, <1>3 DEF HeldOf

LEMMA WalksRight == IInv => WalksInOrder
<1> SUFFICES ASSUME IInv, Usable PROVE WalksInOrder
  BY DEF WalksInOrder
<1>1. /\ size \in Nat /\ size \in SizeT /\ 2 * size < W
      /\ front \in Int /\ 1 \in SizeT /\ 0 \in SizeT
  BY TypeFacts, CapacityType, StableListAssumption DEF SizeT
<1>2. Base \in SizeT /\ Plus(Base, size) \in SizeT
      /\ Minus(Plus(Base, size), 1) \in SizeT /\ Minus(Base, 1) \in SizeT
  <2>1. Base \in SizeT
    BY TypeFacts, CapacityType, SumType DEF Base
  <2>2. QED
    BY <1>1, <2>1, SumType
<1>3. /\ Held = HeldOf(size, front, data)
      /\ Len(Held) = size
      /\ Held = [i \in 1 .. size |-> data[front + i - 1]]
  BY <1>1, HeldMapped, HeldLen DEF Held
<1>4. Walk(Begin, End) = Held
  <2>1. End = Advanced(Begin, size)
    BY <1>1, <1>2, Steps, Iterators
  <2>2. Walk(Begin, End) = [k \in 1 .. size |-> Dereferenced(Advanced(Begin, k - 1))]
    BY <1>1, <1>2, <2>1, WalkSteps, Iterators
  <2>3. ASSUME NEW k \in 1 .. size
        PROVE  Dereferenced(Advanced(Begin, k - 1)) = data[front + k - 1]
    <3>1. k - 1 \in 0 .. size - 1 /\ k - 1 \in SizeT /\ front + (k - 1) = front + k - 1
      BY <1>1, StableListAssumption DEF SizeT
    <3>2. Advanced(Begin, k - 1) = It(Plus(Base, k - 1), 1)
      BY <1>2, <3>1, Steps, Iterators
    <3>3. QED
      BY <3>1, <3>2, DereferencedAt
  <2>4. QED
    BY <1>3, <2>2, <2>3
<1>5. Walk(RBegin, REnd) = Reverse(Held)
  <2> DEFINE rear == Minus(Plus(Base, size), 1)
  <2>0. RBegin = It(rear, -1) /\ rear \in SizeT /\ -1 \in {1, -1}
    BY <1>2, Iterators
  <2>1. REnd = Advanced(RBegin, size)
    <3>1. Minus(rear, size) = Minus(Base, 1)
      BY <1>1, <1>2, StableListAssumption DEF Minus, Plus, SizeT
    <3>2. Advanced(RBegin, size) = It(Minus(rear, size), -1)
      BY <1>1, <2>0, Steps
    <3>3. QED
      BY <3>1, <3>2, Iterators
  <2>2. Walk(RBegin, REnd) = [k \in 1 .. size |-> Dereferenced(Advanced(RBegin, k - 1))]
    <3> HIDE DEF rear
    <3>1. QED
      BY <1>1, <2>0, <2>1, WalkSteps
  <2>3. ASSUME NEW k \in 1 .. size
        PROVE  Dereferenced(Advanced(RBegin, k - 1)) = Held[size - k + 1]
    <3>1. /\ k - 1 \in SizeT /\ size - k \in 0 .. size - 1 /\ size - k \in SizeT
          /\ front + (size - k + 1) - 1 = front + (size - k)
          /\ size - k + 1 \in 1 .. size
      BY <1>1, StableListAssumption DEF SizeT
    <3>2. Minus(rear, k - 1) = Plus(Base, size - k)
      BY <1>1, <1>2, <3>1, StableListAssumption DEF Minus, Plus, SizeT
    <3>3. Advanced(RBegin, k - 1) = It(Plus(Base, size - k), -1)
      BY <1>2, <3>1, <3>2, Steps, Iterators
    <3>4. QED
      BY <1>3, <3>1, <3>3, DereferencedAt
  <2>4. QED
    BY <1>3, <2>2, <2>3 DEF Reverse
<1>6. Distance(End, Begin) = size
  <2>1. Minus(Plus(Base, size), Base) = size
    BY <1>1, <1>2, StableListAssumption DEF Minus, Plus, SizeT
  <2>2. QED
    BY <1>1, <2>1 DEF Distance, End, Begin, Signed
<1>7. Distance(REnd, RBegin) = size
  <2> DEFINE gap == Minus(Minus(Base, 1), Minus(Plus(Base, size), 1))
  <2>1. gap = IF size = 0 THEN 0 ELSE W - size
    BY <1>1, <1>2, StableListAssumption DEF Minus, Plus, SizeT
  <2>2. Signed(gap) = -size
    <3> HIDE DEF gap
    <3>1. QED
      BY <1>1, <2>1, StableListAssumption DEF Signed
  <2>3. Distance(REnd, RBegin) = (-size) * (-1)
    BY <2>2 DEF Distance, REnd, RBegin
  <2>4. QED
    BY <1>1, <2>3
<1>8. QED
  BY <1>4, <1>5, <1>6, <1>7 DEF WalksInOrder

LEMMA HeldSame ==
  ASSUME NEW n \in Nat, NEW f \in Int, NEW d, NEW g \in Int, NEW e,
         \A i \in 0 .. n - 1 : e[g + i] = d[f + i]
  PROVE  HeldOf(n, g, e) = HeldOf(n, f, d)
<1>1. \A i \in 1 .. n : /\ i - 1 \in 0 .. n - 1
                        /\ g + (i - 1) = g + i - 1 /\ f + (i - 1) = f + i - 1
  OBVIOUS
<1>2. \A i \in 1 .. n : e[g + i - 1] = d[f + i - 1]
  BY <1>1
<1>3. QED
  BY <1>2 DEF HeldOf

\* e has from g on the n elements of d from f on, and v behind, or in front of,
\* them.
WithBack(n, f, d, g, e, v) ==
  /\ \A i \in 0 .. n - 1 : d[f + i] \in Value /\ e[g + i] = d[f + i]
  /\ v \in Value /\ e[g + n] = v
WithFront(n, f, d, g, e, v) ==
  /\ \A i \in 0 .. n - 1 : d[f + i] \in Value /\ e[g + i + 1] = d[f + i]
  /\ v \in Value /\ e[g] = v

LEMMA HeldBack ==
  ASSUME NEW n \in Nat, NEW f \in Int, NEW d, NEW g \in Int, NEW e, NEW v,
         WithBack(n, f, d, g, e, v)
  PROVE  /\ HeldOf(n, f, d) \in Seq(Value) /\ v \in Value
         /\ HeldOf(n + 1, g, e) = HeldOf(n, f, d) \o <<v>>
<1> USE DEF WithBack
<1> DEFINE long == HeldOf(n + 1, g, e)
           short == HeldOf(n, f, d)
<1>1. /\ Len(short) = n /\ DOMAIN short = 1 .. n
      /\ \A i \in 0 .. n - 1 : short[i + 1] = d[f + i]
  BY HeldLen
<1>2. /\ Len(long) = n + 1 /\ DOMAIN long = 1 .. n + 1
      /\ \A i \in 0 .. n + 1 - 1 : long[i + 1] = e[g + i]
  BY HeldLen
<1>3. \A i \in 1 .. n : i - 1 \in 0 .. n - 1 /\ i - 1 + 1 = i /\ i - 1 \in 0 .. n + 1 - 1
  OBVIOUS
<1>4. ASSUME NEW i \in 1 .. n PROVE short[i] \in Value /\ long[i] = short[i]
  <2>1. short[i - 1 + 1] = d[f + (i - 1)] /\ d[f + (i - 1)] \in Value
    BY <1>1, <1>3
  <2>2. long[i - 1 + 1] = e[g + (i - 1)] /\ e[g + (i - 1)] = d[f + (i - 1)]
    BY <1>2, <1>3
  <2>3. QED
    BY <1>3, <2>1, <2>2
<1>5. long[n + 1] = v
  <2>1. n \in 0 .. n + 1 - 1
    OBVIOUS
  <2>2. QED
    BY <1>2, <2>1
<1>6. short \in Seq(Value) /\ v \in Value /\ <<v>> \in Seq(Value) /\ Len(<<v>>) = 1 /\ <<v>>[1] = v
  <2>1. short = [i \in 1 .. n |-> short[i]]
    BY <1>1 DEF HeldOf
  <2>2. short \in Seq(Value)
    BY <1>4, <2>1, IsASeq
  <2>3. QED
    BY <2>2
<1>7. long \in Seq(Value)
  <2>1. \A i \in 1 .. n + 1 : long[i] \in Value
    BY <1>4, <1>5, <1>6
  <2>2. long = [i \in 1 .. n + 1 |-> long[i]]
    BY <1>2 DEF HeldOf
  <2>3. QED
    BY <2>1, <2>2, IsASeq
<1> HIDE DEF long, short
<1>8. /\ short \o <<v>> \in Seq(Value)
      /\ Len(short \o <<v>>) = n + 1
      /\ \A i \in 1 .. n + 1 :
           (short \o <<v>>)[i] = IF i <= n THEN short[i] ELSE <<v>>[i - n]
  BY <1>1, <1>6, ConcatProperties
<1>9. \A i \in 1 .. n + 1 : long[i] = (short \o <<v>>)[i]
  <2>1. \A i \in 1 .. n + 1 : i \in 1 .. n \/ (i = n + 1 /\ ~(i <= n) /\ i - n = 1)
    OBVIOUS
  <2>2. QED
    BY <1>4, <1>5, <1>6, <1>8, <2>1
<1>10. long = short \o <<v>>
  BY <1>2, <1>7, <1>8, <1>9, SeqEqual
<1>11. QED
  BY <1>6, <1>10 DEF long, short

LEMMA HeldFront ==
  ASSUME NEW n \in Nat, NEW f \in Int, NEW d, NEW g \in Int, NEW e, NEW v,
         WithFront(n, f, d, g, e, v)
  PROVE  /\ HeldOf(n, f, d) \in Seq(Value) /\ v \in Value
         /\ HeldOf(n + 1, g, e) = <<v>> \o HeldOf(n, f, d)
<1> USE DEF WithFront
<1> DEFINE long == HeldOf(n + 1, g, e)
           short == HeldOf(n, f, d)
<1>1. /\ Len(short) = n /\ DOMAIN short = 1 .. n
      /\ \A i \in 0 .. n - 1 : short[i + 1] = d[f + i]
  BY HeldLen
<1>2. /\ Len(long) = n + 1 /\ DOMAIN long = 1 .. n + 1
      /\ \A i \in 0 .. n + 1 - 1 : long[i + 1] = e[g + i]
  BY HeldLen
<1>3. \A i \in 1 .. n : /\ i - 1 \in 0 .. n - 1 /\ i - 1 + 1 = i /\ i \in 0 .. n + 1 - 1
                        /\ g + (i - 1) + 1 = g + i
  OBVIOUS
<1>4. ASSUME NEW i \in 1 .. n PROVE short[i] \in Value /\ long[i + 1] = short[i]
  <2>1. short[i - 1 + 1] = d[f + (i - 1)] /\ d[f + (i - 1)] \in Value
    BY <1>1, <1>3
  <2>2. long[i + 1] = e[g + i] /\ e[g + (i - 1) + 1] = d[f + (i - 1)]
    BY <1>2, <1>3
  <2>3. QED
    BY <1>3, <2>1, <2>2
<1>5. long[1] = v
  <2>1. 0 \in 0 .. n + 1 - 1 /\ 0 + 1 = 1 /\ g + 0 = g
    OBVIOUS
  <2>2. QED
    BY <1>2, <2>1
<1>6. short \in Seq(Value) /\ v \in Value /\ <<v>> \in Seq(Value) /\ Len(<<v>>) = 1 /\ <<v>>[1] = v
  <2>1. short = [i \in 1 .. n |-> short[i]]
    BY <1>1 DEF HeldOf
  <2>2. short \in Seq(Value)
    BY <1>4, <2>1, IsASeq
  <2>3. QED
    BY <2>2
<1>7. long \in Seq(Value)
  <2>1. \A i \in 1 .. n + 1 : i = 1 \/ (i - 1 \in 1 .. n /\ i - 1 + 1 = i)
    OBVIOUS
  <2>2. \A i \in 1 .. n + 1 : long[i] \in Value
    BY <1>4, <1>5, <1>6, <2>1
  <2>3. long = [i \in 1 .. n + 1 |-> long[i]]
    BY <1>2 DEF HeldOf
  <2>4. n + 1 \in Nat
    OBVIOUS
  <2> HIDE DEF long
  <2>5. QED
    BY <2>2, <2>3, <2>4, IsASeq
<1> HIDE DEF long, short
<1>8. /\ <<v>> \o short \in Seq(Value)
      /\ Len(<<v>> \o short) = 1 + n
      /\ \A i \in 1 .. 1 + n :
           (<<v>> \o short)[i] = IF i <= 1 THEN <<v>>[i] ELSE short[i - 1]
  BY <1>1, <1>6, ConcatProperties
<1>9. \A i \in 1 .. n + 1 : long[i] = (<<v>> \o short)[i]
  <2>1. \A i \in 1 .. n + 1 : /\ i \in 1 .. 1 + n
                              /\ \/ i = 1
                                 \/ i - 1 \in 1 .. n /\ ~(i <= 1) /\ i - 1 + 1 = i
    OBVIOUS
  <2>2. QED
    BY <1>4, <1>5, <1>6, <1>8, <2>1
<1>10. long = <<v>> \o short
  BY <1>2, <1>7, <1>8, <1>9, SeqEqual
<1>11. QED
  BY <1>6, <1>10 DEF long, short

LEMMA HeldSeq ==
  ASSUME NEW n \in Nat, NEW f \in Int, NEW d,
         \A i \in 0 .. n - 1 : d[f + i] \in Value
  PROVE  HeldOf(n, f, d) \in Seq(Value)
<1>1. ASSUME NEW i \in 1 .. n PROVE d[f + i - 1] \in Value
  <2>1. i - 1 \in 0 .. n - 1 /\ f + (i - 1) = f + i - 1
    OBVIOUS
  <2>2. QED
    BY <2>1
<1>2. HeldOf(n, f, d) \in [1 .. n -> Value]
  BY <1>1 DEF HeldOf
<1>3. QED
  BY <1>2, SeqDef

LEMMA HeldType ==
  ASSUME IInv
  PROVE  /\ Held \in Seq(Value) /\ Len(Held) = size /\ DOMAIN Held = 1 .. size
         /\ \A i \in 0 .. size - 1 : Held[i + 1] = data[front + i] /\ Held[i + 1] \in Value
<1>1. /\ size \in Nat /\ front \in Int
      /\ \A i \in 0 .. size - 1 : front + i \in front .. front + size - 1
  BY TypeFacts
<1>2. /\ Len(Held) = size /\ DOMAIN Held = 1 .. size
      /\ \A i \in 0 .. size - 1 : Held[i + 1] = data[front + i]
  BY <1>1, HeldMapped, HeldLen
<1>3. \A i \in 0 .. size - 1 : data[front + i] \in Value
  BY <1>1, TypeFacts
<1>4. Held \in Seq(Value)
  BY <1>1, <1>3, HeldMapped, HeldSeq
<1>5. QED
  BY <1>2, <1>3, <1>4

-----------------------------------------------------------------------------
(***************************************************************************)
(* What the calls of the C list make of its elements.                      *)
(***************************************************************************)
Sturdy == Usable /\ capacity > reallocationFrontMargin

\* One more element, and room as there was, or more.
Lengthened(end, v) ==
  /\ Usable' /\ UNCHANGED origin /\ capacity' >= capacity
  /\ size' = size + 1
  /\ Held' = IF end = "back" THEN Held \o <<v>> ELSE <<v>> \o Held
  /\ Returns("SUCCESS", None)

LEMMA AppendsAt ==
  ASSUME IInv, NEW end \in {"back", "front"}, NEW v \in Value, AppendAt(end, v)
  PROVE  /\ IInv' /\ Usable
         /\ FailAllocation \/ (Corrupt /\ ~Sturdy) \/ Lengthened(end, v)
<1>0. /\ size \in Nat /\ front \in Int
      /\ \A i \in 0 .. size - 1 : data[front + i] \in Value
  <2>1. \A i \in 0 .. size - 1 : front + i \in front .. front + size - 1
    BY TypeFacts
  <2>2. QED
    BY <2>1, TypeFacts
<1>1. CASE end = "back"
  <2>1. AppendBack(v)
    BY <1>1 DEF AppendAt
  <2>2. IInv' /\ Usable
    BY <2>1, AppendBackInv, AppendBackUsable
  <2>3. ASSUME ~FailAllocation, ~Corrupt PROVE Lengthened(end, v)
    <3>1. /\ Usable' /\ size' = size + 1 /\ data'[front' + size] = v
          /\ Ahead(size, iRefOffset, front, data, iRefOffset', front', data')
          /\ capacity' >= capacity /\ UNCHANGED origin /\ Returns("SUCCESS", None)
      BY <2>1, <2>2, <2>3, LongerAtBack
    <3>2. front' \in Int
      BY <2>2 DEF IInv, TypeOK
    <3>3. WithBack(size, front, data, front', data', v)
      BY <1>0, <3>1 DEF WithBack, Ahead
    <3>4. HeldOf(size + 1, front', data') = HeldOf(size, front, data) \o <<v>>
      BY <1>0, <3>2, <3>3, HeldBack
    <3>5. QED
      BY <1>1, <3>1, <3>4, HeldMapped DEF Lengthened
  <2>4. ASSUME Corrupt PROVE ~Sturdy
    BY <2>1, <2>4, StaysInside, TypeFacts DEF Corrupt, Sturdy, Appends
  <2>5. QED
    BY <2>2, <2>3, <2>4
<1>2. CASE end = "front"
  <2>1. AppendFront(v)
    BY <1>2 DEF AppendAt
  <2>2. IInv' /\ Usable
    BY <2>1, AppendFrontInv, AppendFrontUsable
  <2>3. ASSUME ~FailAllocation, ~Corrupt PROVE Lengthened(end, v)
    <3>1. /\ Usable' /\ size' = size + 1 /\ data'[front'] = v
          /\ Behind(size, iRefOffset, front, data, iRefOffset', front', data')
          /\ capacity' >= capacity /\ UNCHANGED origin /\ Returns("SUCCESS", None)
      BY <2>1, <2>2, <2>3, LongerInFront
    <3>2. front' \in Int
      BY <2>2 DEF IInv, TypeOK
    <3>3. WithFront(size, front, data, front', data', v)
      BY <1>0, <3>1 DEF WithFront, Behind
    <3>4. HeldOf(size + 1, front', data') = <<v>> \o HeldOf(size, front, data)
      BY <1>0, <3>2, <3>3, HeldFront
    <3>5. QED
      BY <1>2, <3>1, <3>4, HeldMapped DEF Lengthened
  <2>4. ASSUME Corrupt PROVE ~Sturdy
    BY <2>1, <2>4, StaysInside, TypeFacts DEF Corrupt, Sturdy, Appends
  <2>5. QED
    BY <2>2, <2>3, <2>4
<1>3. QED
  BY <1>1, <1>2

\* The same elements, wherever they are.
Relocated == /\ Usable' /\ UNCHANGED <<memBlock, size, origin, corrupt>>
             /\ Held' = Held
             /\ Returns("SUCCESS", None)

LEMMA Reallocates ==
  ASSUME IInv, Usable, NEW newCapacity \in 0 .. MaxCapacity,
         NEW newFront \in 0 .. MaxCapacity, size <= newCapacity,
         Reallocate(newCapacity, newFront)
  PROVE  \/ FailAllocation
         \/ Corrupt /\ ~Fits(newCapacity, newFront, size)
         \/ Relocated
<1>1. CASE /\ Layout(newCapacity, newFront)
           /\ data' = Moved(newCapacity, newFront)
           /\ Returns("SUCCESS", None)
           /\ UNCHANGED <<memBlock, size, origin, corrupt>>
  <2>1. front' = newFront /\ newFront \in Int /\ size \in Nat /\ front \in Int
    BY <1>1, TypeFacts DEF Layout
  <2>2. data' = [p \in newFront .. newFront + size - 1 |-> data[p - newFront + front]]
    BY <1>1, MovedFacts
  <2>3. ASSUME NEW i \in 0 .. size - 1 PROVE data'[newFront + i] = data[front + i]
    <3>1. /\ newFront + i \in newFront .. newFront + size - 1
          /\ newFront + i - newFront + front = front + i
      BY <2>1
    <3>2. QED
      BY <2>2, <3>1
  <2>4. HeldOf(size, newFront, data') = HeldOf(size, front, data)
    BY <2>1, <2>3, HeldSame
  <2>5. QED
    BY <1>1, <2>1, <2>4, HeldMapped DEF Relocated, Usable
<1>2. QED
  BY <1>1 DEF Reallocate

LEMMA Reserves ==
  ASSUME IInv, NEW n \in Asked, Reserve(n)
  PROVE  /\ IInv' /\ Usable
         /\ \/ /\ n < size
               /\ Returns("CAPACITY_TOO_SMALL", None)
               /\ UNCHANGED <<memBlock, header, corrupt>>
            \/ n >= size /\ (FailAllocation \/ Relocated)
            \/ n < size + reallocationFrontMargin /\ Corrupt
<1>1. IInv' /\ Usable
  BY ReserveInv DEF Reserve
<1>2. CASE n >= size /\ Reallocate(n, reallocationFrontMargin)
  <2>1. \/ FailAllocation
        \/ Corrupt /\ ~Fits(n, reallocationFrontMargin, size)
        \/ Relocated
    BY <1>1, <1>2, TypeFacts, Reallocates DEF Asked
  <2>2. ~Fits(n, reallocationFrontMargin, size) => n < size + reallocationFrontMargin
    BY TypeFacts DEF Fits, Asked
  <2>3. QED
    BY <1>1, <1>2, <2>1, <2>2
<1>3. QED
  BY <1>1, <1>2 DEF Reserve

LEMMA Shrinks ==
  ASSUME IInv, ShrinkToFit
  PROVE  IInv' /\ Usable /\ (FailAllocation \/ Relocated)
<1>1. IInv' /\ Usable
  BY ReserveInv DEF ShrinkToFit
<1>2. \/ FailAllocation
      \/ Corrupt /\ ~Fits(size, 0, size)
      \/ Relocated
  BY <1>1, TypeFacts, Reallocates DEF ShrinkToFit
<1>3. Fits(size, 0, size)
  BY TypeFacts DEF Fits
<1>4. QED
  BY <1>1, <1>2, <1>3

\* One element less.
Shortened(held) ==
  /\ size > 0
  /\ Usable' /\ UNCHANGED <<memBlock, capacity, origin, corrupt>>
  /\ Held' = held
  /\ Returns("SUCCESS", None)

LEMMA Removes ==
  ASSUME IInv
  PROVE  /\ RemoveBack => /\ IInv' /\ Usable
                          /\ (size = 0 /\ Corrupt) \/ Shortened(Front(Held))
         /\ RemoveFront => /\ IInv' /\ Usable
                           /\ (size = 0 /\ Corrupt) \/ Shortened(Tail(Held))
<1>0. /\ size \in Nat /\ front \in Int
      /\ \A i \in 0 .. size - 1 : data[front + i] \in Value
  <2>1. \A i \in 0 .. size - 1 : front + i \in front .. front + size - 1
    BY TypeFacts
  <2>2. QED
    BY <2>1, TypeFacts
<1>1. ASSUME RemoveBack, ~Corrupt PROVE Shortened(Front(Held))
  <2>1. /\ size > 0 /\ size' = size - 1 /\ front' = front
        /\ data' = [p \in front .. front + size - 2 |-> data[p]]
        /\ Usable' /\ UNCHANGED <<memBlock, capacity, origin, corrupt>>
        /\ Returns("SUCCESS", None)
    <3>1. /\ size > 0 /\ size' = size - 1
          /\ data' = [p \in front .. front + size - 2 |-> data[p]]
          /\ Returns("SUCCESS", None)
          /\ UNCHANGED <<memBlock, layout, origin, corrupt>>
          /\ Usable
      BY <1>1 DEF RemoveBack
    <3>2. QED
      BY <3>1 DEF Usable, layout
  <2>2. /\ size' \in Nat /\ size' + 1 = size
        /\ \A i \in 0 .. size' - 1 : /\ front + i \in front .. front + size - 2
                                    /\ i \in 0 .. size - 1
        /\ size' \in 0 .. size - 1
    BY <1>0, <2>1
  <2> DEFINE v == data[front + size']
             s == HeldOf(size', front', data')
  <2>3. \A i \in 0 .. size' - 1 : data'[front' + i] = data[front + i]
    BY <2>1, <2>2
  <2>4. WithBack(size', front', data', front, data, v)
    BY <1>0, <2>2, <2>3 DEF WithBack
  <2>5. s \in Seq(Value) /\ v \in Value /\ HeldOf(size' + 1, front, data) = s \o <<v>>
    <3>1. size' \in Nat /\ front' \in Int /\ front \in Int
      BY <1>0, <2>1, <2>2
    <3> HIDE DEF v
    <3>2. QED
      BY <2>4, <3>1, HeldBack
  <2>6. Held = s \o <<v>> /\ Held' = s
    BY <2>2, <2>5, HeldMapped
  <2> HIDE DEF s, v
  <2>7. Len(Held) = Len(s) + 1 /\ SubSeq(Held, 1, Len(s)) = s /\ Len(s) \in Nat
    BY <2>5, <2>6, DropEnds, LenProperties
  <2>8. Front(Held) = s
    BY <2>7 DEF Front
  <2>9. QED
    BY <2>1, <2>6, <2>8 DEF Shortened
<1>2. ASSUME RemoveFront, ~Corrupt PROVE Shortened(Tail(Held))
  <2>1. /\ size > 0 /\ size' = size - 1 /\ front' = front + 1
        /\ data' = [p \in front + 1 .. front + size - 1 |-> data[p]]
        /\ Usable' /\ UNCHANGED <<memBlock, capacity, origin, corrupt>>
        /\ Returns("SUCCESS", None)
    <3>1. /\ size > 0 /\ size' = size - 1 /\ front' = front + 1
          /\ data' = [p \in front + 1 .. front + size - 1 |-> data[p]]
          /\ Returns("SUCCESS", None)
          /\ UNCHANGED <<memBlock, capacity, iRefOffset, origin, corrupt>>
          /\ Usable
      BY <1>2 DEF RemoveFront
    <3>2. QED
      BY <3>1 DEF Usable
  <2>2. /\ size' \in Nat /\ size' + 1 = size /\ front' \in Int
        /\ \A i \in 0 .. size' - 1 : /\ front' + i \in front + 1 .. front + size - 1
                                    /\ i + 1 \in 0 .. size - 1
                                    /\ front + i + 1 = front' + i
                                    /\ front + (i + 1) = front' + i
        /\ 0 \in 0 .. size - 1 /\ front + 0 = front
    BY <1>0, <2>1
  <2> DEFINE v == data[front]
             s == HeldOf(size', front', data')
  <2>3. \A i \in 0 .. size' - 1 : data'[front' + i] = data[front + i + 1]
    BY <2>1, <2>2
  <2>4. WithFront(size', front', data', front, data, v)
    BY <1>0, <2>2, <2>3 DEF WithFront
  <2>5. s \in Seq(Value) /\ v \in Value /\ HeldOf(size' + 1, front, data) = <<v>> \o s
    <3>1. size' \in Nat /\ front' \in Int /\ front \in Int
      BY <1>0, <2>1, <2>2
    <3> HIDE DEF v
    <3>2. QED
      BY <2>4, <3>1, HeldFront
  <2>6. Held = <<v>> \o s /\ Held' = s
    BY <2>2, <2>5, HeldMapped
  <2> HIDE DEF s, v
  <2>7. Tail(Held) = s
    BY <2>5, <2>6, DropEnds
  <2>8. QED
    BY <2>1, <2>6, <2>7 DEF Shortened
<1>3. QED
  <2>1. RemoveBack \/ RemoveFront => Usable /\ (Corrupt => size = 0)
    <3>1. Corrupt => size' = size
      BY DEF Corrupt, header, contents
    <3>2. QED
      BY <1>0, <3>1 DEF RemoveBack, RemoveFront
  <2>2. QED
    BY <1>1, <1>2, <2>1, RemoveInv

-----------------------------------------------------------------------------
(***************************************************************************)
(* What a call of the class that is under way knows of the list: the place *)
(* of an element of the list itself is one the list has; elements that are *)
(* given are all elements, or all of a list destroyed before.              *)
(***************************************************************************)
Given == Seq(Value) \cup Seq({None})

AddOK ==
  /\ call = [stage |-> "add", end |-> call.end, own |-> call.own, fresh |-> call.fresh,
             items |-> call.items]
  /\ Usable
  /\ call.end \in {"back", "front"} /\ call.own \in BOOLEAN /\ call.fresh \in BOOLEAN
  /\ call.items # << >>
  /\ call.own => call.items \in Seq(0 .. size - 1)
  /\ ~call.own => call.items \in Given
  /\ call.fresh => ~call.own /\ call.items \in Seq(Value)

ConstructOK ==
  /\ call = Constructing(call.room, call.items)
  /\ ~memBlock /\ ~corrupt
  /\ call.room \in Nat /\ call.items \in Given

ThrowOK == call = Throwing /\ Usable /\ ret.code = "ALOCATION_FAILED"

CallOK == call = Idle \/ ThrowOK \/ ConstructOK \/ AddOK

ClassInv == /\ IInv
            /\ memBlock => reallocationFrontMargin = DefaultMargin
            /\ CallOK

LEMMA ClassInitInv == ClassInit => ClassInv
BY InitInv DEF ClassInit, Init, ClassInv, CallOK

LEMMA Stages ==
  ASSUME ClassInv
  PROVE  /\ call = Idle => call.stage = "idle"
         /\ call.stage = "idle" => call = Idle
         /\ call.stage = "throw" => ThrowOK
         /\ call.stage = "construct" => ConstructOK
         /\ call.stage = "add" => AddOK
BY DEF ClassInv, CallOK, Idle, ThrowOK, Throwing, ConstructOK, Constructing, AddOK

LEMMA ValuesType ==
  /\ Values \subseteq Seq(Value)
  /\ << >> \in Values
  /\ \A s \in Values : Len(s) \in Nat
<1>1. ASSUME NEW s \in Values PROVE s \in Seq(Value)
  <2>1. PICK n \in 0 .. MaxSize : s \in [1 .. n -> Value]
    BY <1>1 DEF Values, SeqOf
  <2>2. n \in Nat
    BY StableListsAssumption
  <2>3. QED
    BY <2>1, <2>2, SeqDef
<1>2. << >> \in Values
  <2>1. << >> \in [1 .. 0 -> Value]
    OBVIOUS
  <2>2. 0 \in 0 .. MaxSize
    BY StableListsAssumption, StableListAssumption
  <2>3. QED
    BY <2>1, <2>2 DEF Values, SeqOf
<1>3. QED
  BY <1>1, <1>2, LenProperties

\* After a call that is over, after the start of a loop, or a step of one.
LEMMA IdleInv ==
  ASSUME IInv', call' = Idle, memBlock' => reallocationFrontMargin' = DefaultMargin
  PROVE  ClassInv'
BY DEF ClassInv, CallOK

LEMMA AddingInv ==
  ASSUME IInv', Usable', reallocationFrontMargin' = DefaultMargin,
         NEW end \in {"back", "front"}, NEW own \in BOOLEAN, NEW fresh \in BOOLEAN,
         NEW s, own => s \in Seq(0 .. size' - 1), ~own => s \in Given,
         fresh => ~own /\ s \in Seq(Value),
         call' = Adding(end, own, fresh, s)
  PROVE  ClassInv'
<1>1. CASE s = << >>
  BY <1>1, IdleInv DEF Adding
<1>2. CASE s # << >>
  <2>1. call' = [stage |-> "add", end |-> end, own |-> own, fresh |-> fresh, items |-> s]
    BY <1>2 DEF Adding
  <2>2. /\ call'.end = end /\ call'.own = own /\ call'.fresh = fresh /\ call'.items = s
    BY <2>1
  <2>3. AddOK'
    BY <1>2, <2>1, <2>2 DEF AddOK, Given
  <2>4. QED
    BY <2>3 DEF ClassInv, CallOK
<1>3. QED
  BY <1>1, <1>2

\* Calls that leave the block with the list.
LEMMA Kept ==
  ASSUME \/ FailAllocation \/ Corrupt \/ Relocated
         \/ \E end, v : Lengthened(end, v)
         \/ \E held : Shortened(held)
         \/ UNCHANGED <<memBlock, header, corrupt>>
  PROVE  UNCHANGED <<origin, reallocationFrontMargin>>
<1>1. UNCHANGED origin
  BY DEF FailAllocation, Corrupt, Relocated, Lengthened, Shortened, header
<1>2. QED
  BY <1>1 DEF origin

LEMMA ClassConstructs ==
  ASSUME IInv, ~corrupt, NEW n \in Nat, NEW s \in Given, NEW fresh \in BOOLEAN,
         fresh => s \in Seq(Value), Construct(n, s, fresh)
  PROVE  /\ ClassInv' /\ ~memBlock
         /\ \/ FailAllocation /\ call' = Idle
            \/ /\ Usable' /\ size' = 0 /\ Held' = << >>
               /\ Returns("SUCCESS", None)
               /\ call' = Adding("back", FALSE, fresh, s)
<1>1. /\ ConstructSizeFront(n, DefaultMargin) /\ ~memBlock
      /\ call' = IF memBlock' THEN Adding("back", FALSE, fresh, s) ELSE Idle
  BY DEF Construct, ConstructSizeFront
<1>2. CASE FailAllocation
  <2>1. ~memBlock' /\ IInv'
    BY <1>1, <1>2, FailInv DEF FailAllocation
  <2>2. QED
    BY <1>1, <1>2, <2>1, IdleInv
<1>3. CASE ~FailAllocation
  <2>1. /\ memBlock' = TRUE /\ size' = 0 /\ reallocationFrontMargin' = DefaultMargin
        /\ Returns("SUCCESS", None) /\ UNCHANGED corrupt /\ n \in Asked
        /\ front' = DefaultMargin
    BY <1>1, <1>3 DEF ConstructSizeFront, CanAllocate, Asked
  <2>2. DefaultMargin \in Asked
    BY StableListsAssumption, StableListAssumption DEF Asked
  <2>3. IInv'
    BY <1>1, <2>1, <2>2, ConstructInv
  <2>4. Held' = << >>
    BY <2>1 DEF Held
  <2>5. Usable' /\ call' = Adding("back", FALSE, fresh, s)
    BY <1>1, <2>1 DEF Usable
  <2>6. ClassInv'
    BY <2>1, <2>3, <2>5, AddingInv
  <2>7. QED
    BY <1>1, <2>1, <2>4, <2>5, <2>6
<1>4. QED
  BY <1>2, <1>3

\* What the next append of a loop puts in the list.
AddedValue == IF call.own THEN Held[Head(call.items) + 1] ELSE Head(call.items)

LEMMA Dangling ==
  ASSUME IInv, NEW end, AppendDangling(end)
  PROVE  IInv' /\ Usable /\ (FailAllocation \/ Corrupt)
BY FailInv, CorruptInv DEF AppendDangling

LEMMA OwnAppends ==
  ASSUME IInv, NEW end \in {"back", "front"}, NEW i \in 0 .. size - 1, AppendOwn(end, i)
  PROVE  /\ IInv' /\ Usable
         /\ Held[i + 1] \in Value
         /\ FailAllocation \/ Corrupt \/ Lengthened(end, Held[i + 1])
<1>1. Held[i + 1] = data[front + i] /\ Held[i + 1] \in Value
  BY HeldType
<1>2. CASE AppendDangling(end)
  BY <1>1, <1>2, Dangling
<1>3. CASE AppendAt(end, Held[i + 1])
  BY <1>1, <1>3, AppendsAt
<1>4. QED
  BY <1>1, <1>2, <1>3 DEF AppendOwn

\* A step of a loop: no memory, and the loop ends; the block is left; or an
\* element is added, and the loop goes on.
LEMMA AddNextFacts ==
  ASSUME ClassInv, AddNext
  PROVE  /\ AddOK /\ IInv'
         /\ \/ FailAllocation /\ call' = IF call.fresh THEN Throwing ELSE Idle
            \/ /\ Corrupt /\ call' = Idle
               /\ Sturdy => call.own \/ None \in ToSet(call.items)
            \/ /\ Lengthened(call.end, AddedValue)
               /\ AddedValue \in Value
               /\ ~call.own => call.items \in Seq(Value)
               /\ call' = Adding(call.end, call.own, call.fresh, Tail(call.items))
<1> DEFINE item == Head(call.items)
           Outcome == \/ FailAllocation
                      \/ Corrupt /\ (Sturdy => call.own \/ None \in ToSet(call.items))
                      \/ /\ Lengthened(call.end, AddedValue) /\ AddedValue \in Value
                         /\ ~call.own => call.items \in Seq(Value)
<1>1. AddOK /\ IInv
  BY Stages DEF AddNext, ClassInv
<1>2. /\ item \in ToSet(call.items)
      /\ call.own => item \in 0 .. size - 1
      /\ ~call.own => \/ item \in Value /\ call.items \in Seq(Value)
                      \/ item = None
  <2>1. ASSUME NEW S, call.items \in Seq(S)
        PROVE  item \in S /\ item \in ToSet(call.items)
    <3>1. Len(call.items) \in Nat /\ Len(call.items) # 0 /\ DOMAIN call.items = 1 .. Len(call.items)
      BY <1>1, <2>1, LenProperties, EmptySeq DEF AddOK
    <3>2. 1 \in DOMAIN call.items /\ item = call.items[1]
      BY <3>1
    <3>3. QED
      BY <2>1, <3>1, <3>2, ElementOfSeq DEF ToSet
  <2>2. \/ call.own /\ call.items \in Seq(0 .. size - 1)
        \/ ~call.own /\ call.items \in Seq(Value)
        \/ ~call.own /\ call.items \in Seq({None})
    BY <1>1 DEF AddOK, Given
  <2>3. QED
    BY <2>1, <2>2
<1>3. IInv' /\ Usable /\ Outcome
  <2>1. CASE item = None /\ AppendDangling(call.end)
    BY <1>1, <1>2, <2>1, Dangling
  <2>2. CASE call.own /\ AppendOwn(call.end, item)
    BY <1>1, <1>2, <2>2, OwnAppends DEF AddOK, AddedValue
  <2>3. CASE item # None /\ ~call.own /\ AppendAt(call.end, item)
    BY <1>1, <1>2, <2>3, AppendsAt DEF AddOK, AddedValue
  <2>4. QED
    BY <1>1, <2>1, <2>2, <2>3 DEF AddNext
<1>4. call' = IF corrupt' THEN Idle
              ELSE IF ret'.code = "SUCCESS"
              THEN Adding(call.end, call.own, call.fresh, Tail(call.items))
              ELSE IF call.fresh THEN Throwing ELSE Idle
  BY DEF AddNext
<1>5. FailAllocation => ~corrupt' /\ ret'.code # "SUCCESS"
  BY <1>3 DEF FailAllocation, Usable, Returns
<1>6. Corrupt => corrupt'
  BY DEF Corrupt
<1>7. Lengthened(call.end, AddedValue) => ~corrupt' /\ ret'.code = "SUCCESS"
  BY DEF Lengthened, Usable, Returns
<1>8. QED
  BY <1>1, <1>3, <1>4, <1>5, <1>6, <1>7

LEMMA AddNextInv ==
  ASSUME ClassInv, AddNext
  PROVE  ClassInv'
<1>1. AddOK /\ IInv' /\ Usable /\ reallocationFrontMargin = DefaultMargin
  BY AddNextFacts DEF AddOK, ClassInv, Usable
<1>2. CASE FailAllocation /\ call' = IF call.fresh THEN Throwing ELSE Idle
  <2>1. /\ reallocationFrontMargin' = DefaultMargin
        /\ Usable' /\ ret'.code = "ALOCATION_FAILED"
    BY <1>1, <1>2, Kept DEF FailAllocation, Usable, Returns
  <2>2. CASE call' = Throwing
    BY <1>1, <2>1, <2>2 DEF ClassInv, CallOK, ThrowOK
  <2>3. QED
    BY <1>1, <1>2, <2>1, <2>2, IdleInv
<1>3. CASE Corrupt /\ call' = Idle
  BY <1>1, <1>3, Kept, IdleInv
<1>4. CASE /\ Lengthened(call.end, AddedValue)
           /\ ~call.own => call.items \in Seq(Value)
           /\ call' = Adding(call.end, call.own, call.fresh, Tail(call.items))
  <2>1. /\ Usable' /\ size' = size + 1 /\ size \in Nat
        /\ reallocationFrontMargin' = DefaultMargin
    <3>1. reallocationFrontMargin' = DefaultMargin
      BY <1>1, <1>4, Kept
    <3>2. QED
      BY <1>4, <3>1, TypeFacts DEF Lengthened, ClassInv
  <2>2. call.own => Tail(call.items) \in Seq(0 .. size' - 1)
    <3>1. Seq(0 .. size - 1) \subseteq Seq(0 .. size' - 1)
      <4>1. 0 .. size - 1 \subseteq 0 .. size' - 1
        BY <2>1
      <4>2. QED
        BY <4>1, SeqMonotonic
    <3>2. QED
      BY <1>1, <3>1, HeadTailProperties DEF AddOK
  <2>3. ~call.own => Tail(call.items) \in Seq(Value)
    BY <1>1, <1>4, HeadTailProperties DEF AddOK
  <2>4. QED
    BY <1>1, <1>4, <2>1, <2>2, <2>3, AddingInv DEF AddOK, Given
<1>5. QED
  BY <1>2, <1>3, <1>4, AddNextFacts

\* A call that is over at once.
LEMMA SaysInv ==
  ASSUME ClassInv, Returned, UNCHANGED call, IInv', memBlock,
         UNCHANGED reallocationFrontMargin
  PROVE  ClassInv'
BY IdleInv DEF ClassInv, Returned

LEMMA AssignInv ==
  ASSUME ClassInv, NEW n \in Nat, NEW s \in Given, AssignWith(n, s)
  PROVE  ClassInv' /\ ConstructOK' /\ call' = Constructing(n, s)
<1>1. IInv' /\ ~memBlock' /\ ~corrupt'
  <2>1. IInv /\ ~corrupt
    BY DEF ClassInv, AssignWith, Returned
  <2>2. CASE Destroy
    BY <2>1, <2>2, EmptiedInv DEF Destroy, Gone
  <2>3. CASE ~memBlock /\ UNCHANGED vars
    BY <2>1, <2>3, NextInv DEF vars
  <2>4. QED
    BY <2>2, <2>3 DEF AssignWith
<1>2. call' = Constructing(n, s)
  BY DEF AssignWith
<1>3. call'.room = n /\ call'.items = s
  BY <1>2 DEF Constructing
<1>4. ConstructOK'
  BY <1>1, <1>2, <1>3 DEF ConstructOK, Given
<1>5. QED
  BY <1>1, <1>2, <1>4 DEF ClassInv, CallOK

LEMMA ReconstructInv ==
  ASSUME ClassInv, Reconstruct
  PROVE  ClassInv'
<1>1. ConstructOK /\ IInv /\ Construct(call.room, call.items, FALSE)
  BY Stages DEF Reconstruct, ClassInv
<1>2. QED
  BY <1>1, ClassConstructs DEF ConstructOK

LEMMA UnwindInv ==
  ASSUME ClassInv, Unwind
  PROVE  ClassInv' /\ ThrowOK /\ ~Usable'
<1>1. ThrowOK /\ IInv
  BY Stages DEF Unwind, ClassInv
<1>2. IInv' /\ ~Usable'
  BY <1>1, GoneInv DEF Unwind, IInv, TypeOK
<1>3. QED
  BY <1>1, <1>2, IdleInv DEF Unwind, Gone

LEMMA ConcatenateInv ==
  ASSUME ClassInv, NEW end \in {"back", "front"}, NEW own \in BOOLEAN, NEW s,
         own => s \in Seq(0 .. size - 1), ~own => s \in Seq(Value),
         Concatenate(end, own, s)
  PROVE  ClassInv'
<1>1. /\ UNCHANGED vars /\ Usable /\ call' = Adding(end, own, FALSE, s)
      /\ reallocationFrontMargin = DefaultMargin
  BY DEF Concatenate, ClassInv, Usable
<1>2. IInv'
  BY <1>1, NextInv DEF ClassInv
<1>3. /\ Usable' /\ size' = size /\ reallocationFrontMargin' = DefaultMargin
  BY <1>1 DEF vars, header, contents, origin, Usable
<1>4. QED
  BY <1>1, <1>2, <1>3, AddingInv DEF Given

\* The calls that are one call of the C list.
CCall == \/ \E end \in {"back", "front"} :
               \/ \E v \in Value : PushValue(end, v)
               \/ \E i \in 0 .. size - 1 : PushOwn(end, i)
         \/ DestroyList \/ ShrinkRoom \/ ClearList
         \/ \E destructor \in BOOLEAN : PopBack(destructor) \/ PopFront(destructor)
         \/ \E n \in Asked : ReserveRoom(n) \/ At(n)
         \/ Back \/ FrontIRef \/ BackIRef

LEMMA Indices ==
  ASSUME IInv
  PROVE  /\ Asked \subseteq SizeT /\ 0 \in SizeT
         /\ size \in Nat /\ Minus(size, 1) \in SizeT
         /\ size = 0 => Minus(size, 1) >= size
         /\ size > 0 => Minus(size, 1) = size - 1
BY TypeFacts, StableListAssumption DEF Asked, SizeT, Minus

LEMMA LookInv ==
  ASSUME IInv, NEW w \in SizeT, GetElementIndex(w) \/ IndexToIRef(w)
  PROVE  IInv' /\ Usable /\ UNCHANGED <<memBlock, header, corrupt>>
BY AccessInv DEF GetElementIndex, IndexToIRef, Answers

LEMMA CCallInv ==
  ASSUME ClassInv, CCall
  PROVE  ClassInv'
<1>0. IInv /\ Returned /\ UNCHANGED call
  BY DEF CCall, ClassInv, Says, PushValue, PushOwn, DestroyList, ShrinkRoom, ClearList,
     PopBack, PopFront, ReserveRoom, At, Back, FrontIRef, BackIRef
<1>1. ASSUME NEW end \in {"back", "front"}, NEW v \in Value, PushValue(end, v)
      PROVE  ClassInv'
  <2>1. AppendAt(end, v)
    BY <1>1 DEF PushValue
  <2>2. /\ IInv' /\ Usable
        /\ FailAllocation \/ Corrupt \/ Lengthened(end, v)
    BY <1>0, <2>1, AppendsAt
  <2>3. UNCHANGED reallocationFrontMargin
    BY <2>2, Kept
  <2>4. QED
    BY <1>0, <2>2, <2>3, SaysInv DEF Usable
<1>2. ASSUME NEW end \in {"back", "front"}, NEW i \in 0 .. size - 1, PushOwn(end, i)
      PROVE  ClassInv'
  <2>1. AppendOwn(end, i)
    BY <1>2 DEF PushOwn
  <2>2. /\ IInv' /\ Usable
        /\ FailAllocation \/ Corrupt \/ Lengthened(end, Held[i + 1])
    BY <1>0, <2>1, OwnAppends
  <2>3. UNCHANGED reallocationFrontMargin
    BY <2>2, Kept
  <2>4. QED
    BY <1>0, <2>2, <2>3, SaysInv DEF Usable
<1>3. CASE DestroyList
  <2>1. IInv' /\ ~memBlock'
    BY <1>0, <1>3, EmptiedInv DEF DestroyList, Destroy, Gone
  <2>2. QED
    BY <1>0, <2>1, IdleInv DEF Returned
<1>4. CASE ShrinkRoom
  <2>1. IInv' /\ Usable /\ (FailAllocation \/ Relocated)
    BY <1>0, <1>4, Shrinks DEF ShrinkRoom
  <2>2. UNCHANGED reallocationFrontMargin
    BY <2>1, Kept
  <2>3. QED
    BY <1>0, <2>1, <2>2, SaysInv DEF Usable
<1>5. CASE ClearList
  <2>1. IInv' /\ Usable /\ UNCHANGED origin
    BY <1>0, <1>5, EmptiedInv DEF ClearList, Clear
  <2>2. QED
    BY <1>0, <2>1, SaysInv DEF Usable, origin
<1>6. ASSUME NEW destructor \in BOOLEAN, PopBack(destructor) \/ PopFront(destructor)
      PROVE  ClassInv'
  <2>1. \/ GetElementIndex(Minus(size, 1)) \/ GetElementIndex(0)
        \/ RemoveBack \/ RemoveFront
    BY <1>6 DEF PopBack, PopFront
  <2>2. /\ IInv' /\ Usable
        /\ \/ Corrupt \/ Shortened(Front(Held)) \/ Shortened(Tail(Held))
           \/ UNCHANGED <<memBlock, header, corrupt>>
    BY <1>0, <2>1, Removes, LookInv, Indices
  <2>3. UNCHANGED reallocationFrontMargin
    BY <2>2, Kept
  <2>4. QED
    BY <1>0, <2>2, <2>3, SaysInv DEF Usable
<1>7. ASSUME NEW n \in Asked, ReserveRoom(n) PROVE ClassInv'
  <2>1. /\ IInv' /\ Usable
        /\ \/ FailAllocation \/ Corrupt \/ Relocated
           \/ UNCHANGED <<memBlock, header, corrupt>>
    BY <1>0, <1>7, Reserves DEF ReserveRoom
  <2>2. UNCHANGED reallocationFrontMargin
    BY <2>1, Kept
  <2>3. QED
    BY <1>0, <2>1, <2>2, SaysInv DEF Usable
<1>8. ASSUME (\E n \in Asked : At(n)) \/ Back \/ FrontIRef \/ BackIRef
      PROVE  ClassInv'
  <2>1. PICK w \in SizeT : GetElementIndex(w) \/ IndexToIRef(w)
    BY <1>0, <1>8, Indices DEF At, Back, FrontIRef, BackIRef
  <2>2. IInv' /\ Usable /\ UNCHANGED <<memBlock, header, corrupt>>
    BY <1>0, <2>1, LookInv
  <2>3. UNCHANGED reallocationFrontMargin
    BY <2>2, Kept
  <2>4. QED
    BY <1>0, <2>2, <2>3, SaysInv DEF Usable
<1>9. QED
  BY <1>1, <1>2, <1>3, <1>4, <1>5, <1>6, <1>7, <1>8 DEF CCall

\* Constructors.
Constructed == \E n \in Nat, s \in Values : NewInstance(n, s)

LEMMA NewInstances ==
  ConstructDefault \/ (\E s \in Values : ConstructRange(s) \/ ConstructValues(s)) => Constructed
BY ValuesType, StableListsAssumption
   DEF ConstructDefault, ConstructRange, ConstructValues, Constructed

LEMMA ConstructedInv ==
  ASSUME ClassInv, NEW n \in Nat, NEW s \in Values, NewInstance(n, s)
  PROVE  ClassInv'
<1>1. IInv /\ ~corrupt /\ Construct(n, s, TRUE)
  BY DEF NewInstance, Returned, ClassInv
<1>2. s \in Seq(Value)
  BY ValuesType
<1>3. QED
  BY <1>1, <1>2, ClassConstructs DEF Given

LEMMA ConstructCountInv ==
  ASSUME ClassInv, NEW count \in Nat, ConstructCount(count)
  PROVE  /\ ClassInv' /\ ~memBlock /\ call = Idle /\ call' = Idle
         /\ (count = 0 /\ Usable' /\ Held' = << >>) \/ ~Usable'
<1>1. IInv /\ ~corrupt /\ ~memBlock /\ call = Idle
  BY DEF ConstructCount, Returned, ClassInv
<1>2. << >> \in Seq(Value) /\ << >> \in Given
  BY DEF Given
<1>3. CASE count = 0 /\ Construct(0, << >>, TRUE)
  <2>1. /\ ClassInv'
        /\ \/ FailAllocation /\ call' = Idle
           \/ /\ Usable' /\ Held' = << >>
              /\ call' = Adding("back", FALSE, TRUE, << >>)
    BY <1>1, <1>2, <1>3, ClassConstructs
  <2>2. QED
    BY <1>1, <1>3, <2>1 DEF Adding, FailAllocation, Usable
<1>4. CASE (FailAllocation \/ Corrupt) /\ UNCHANGED call
  <2>0. IInv'
    BY <1>1, <1>4, FailInv, CorruptInv
  <2>1. IInv' /\ ~memBlock' /\ ~Usable'
    BY <1>1, <1>4, <2>0 DEF FailAllocation, Corrupt, Usable
  <2>2. QED
    BY <1>1, <1>4, <2>1, IdleInv
<1>5. QED
  BY <1>3, <1>4 DEF ConstructCount

LEMMA Nones ==
  ASSUME NEW n \in Nat
  PROVE  [i \in 1 .. n |-> None] \in Given
<1>1. [i \in 1 .. n |-> None] \in [1 .. n -> {None}]
  OBVIOUS
<1>2. [i \in 1 .. n |-> None] \in Seq({None})
  BY <1>1, SeqDef
<1>3. QED
  BY <1>2 DEF Given

\* What an assignment puts in the place of the list.
Assigned == \/ \E n \in Nat, s \in Values : AssignWith(n, s)
            \/ \E n \in 0 .. MaxSize : AssignWith(n, [i \in 1 .. n |-> None])

LEMMA Assignments ==
  (\E s \in Values : AssignRange(s) \/ AssignValues(s)) \/ (\E n \in 0 .. MaxSize : AssignOwn(n))
     => Assigned
<1>1. ASSUME NEW s \in Values, AssignRange(s) \/ AssignValues(s) PROVE Assigned
  <2>1. DefaultCapacity \in Nat /\ Len(s) \in Nat
    BY ValuesType, StableListsAssumption
  <2>2. AssignWith(DefaultCapacity, s) \/ AssignWith(Len(s), s)
    BY <1>1 DEF AssignRange, AssignValues
  <2>3. QED
    BY <2>1, <2>2 DEF Assigned
<1>2. ASSUME NEW n \in 0 .. MaxSize, AssignOwn(n) PROVE Assigned
  BY <1>2 DEF AssignOwn, Assigned
<1>3. QED
  BY <1>1, <1>2

LEMMA AssignedInv ==
  ASSUME ClassInv, Assigned
  PROVE  ClassInv'
<1>1. ASSUME NEW n \in Nat, NEW s \in Values, AssignWith(n, s) PROVE ClassInv'
  BY <1>1, AssignInv, ValuesType DEF Given
<1>2. ASSUME NEW n \in 0 .. MaxSize, AssignWith(n, [i \in 1 .. n |-> None]) PROVE ClassInv'
  <2>1. n \in Nat
    BY StableListsAssumption
  <2>2. [i \in 1 .. n |-> None] \in Given
    BY <2>1, Nones
  <2>3. QED
    BY <1>2, <2>1, <2>2, AssignInv
<1>3. QED
  BY <1>1, <1>2 DEF Assigned

LEMMA Positions ==
  ASSUME IInv
  PROVE  /\ [k \in 1 .. size |-> k - 1] \in Seq(0 .. size - 1)
         /\ [k \in 1 .. size |-> size - k] \in Seq(0 .. size - 1)
<1>1. size \in Nat /\ \A k \in 1 .. size : k - 1 \in 0 .. size - 1 /\ size - k \in 0 .. size - 1
  BY TypeFacts
<1>2. /\ [k \in 1 .. size |-> k - 1] \in [1 .. size -> 0 .. size - 1]
      /\ [k \in 1 .. size |-> size - k] \in [1 .. size -> 0 .. size - 1]
  BY <1>1
<1>3. QED
  BY <1>1, <1>2, SeqDef

LEMMA ReverseType ==
  ASSUME NEW S, NEW s \in Seq(S)
  PROVE  /\ Reverse(s) \in Seq(S)
         /\ Len(Reverse(s)) = Len(s)
         /\ \A i \in 1 .. Len(s) : Reverse(s)[i] = s[Len(s) - i + 1]
<1>1. Len(s) \in Nat
  BY LenProperties
<1>2. \A i \in 1 .. Len(s) : Len(s) - i + 1 \in 1 .. Len(s)
  BY <1>1
<1>3. \A i \in 1 .. Len(s) : s[Len(s) - i + 1] \in S
  BY <1>2, ElementOfSeq
<1>4. Reverse(s) = [i \in 1 .. Len(s) |-> s[Len(s) - i + 1]]
  BY DEF Reverse
<1>5. Reverse(s) \in [1 .. Len(s) -> S]
  BY <1>3, <1>4
<1>6. Reverse(s) \in Seq(S)
  BY <1>1, <1>5, SeqDef
<1>7. Len(Reverse(s)) = Len(s)
  BY <1>1, <1>4
<1>8. QED
  BY <1>4, <1>6, <1>7

Concatenated == \/ \E s \in Values : ConcatenateBack(s) \/ ConcatenateFront(s)
                \/ ConcatenateBackOwn \/ ConcatenateFrontOwn

LEMMA ConcatenatedInv ==
  ASSUME ClassInv, Concatenated
  PROVE  ClassInv'
<1>0. IInv
  BY DEF ClassInv
<1>1. ASSUME NEW s \in Values, ConcatenateBack(s) PROVE ClassInv'
  <2>1. s \in Seq(Value) /\ Concatenate("back", FALSE, s)
    BY <1>1, ValuesType DEF ConcatenateBack
  <2>2. QED
    BY <2>1, ConcatenateInv
<1>2. ASSUME NEW s \in Values, ConcatenateFront(s) PROVE ClassInv'
  <2>1. Reverse(s) \in Seq(Value) /\ Concatenate("front", FALSE, Reverse(s))
    BY <1>2, ValuesType, ReverseType DEF ConcatenateFront, InFrontOrder
  <2>2. QED
    BY <2>1, ConcatenateInv
<1>3. CASE ConcatenateBackOwn
  BY <1>0, <1>3, Positions, ConcatenateInv DEF ConcatenateBackOwn
<1>4. CASE ConcatenateFrontOwn
  BY <1>0, <1>4, Positions, ConcatenateInv DEF ConcatenateFrontOwn
<1>5. QED
  BY <1>1, <1>2, <1>3, <1>4 DEF Concatenated

\* The calls, by what they do.
LEMMA Calls ==
  ClassNext => \/ Constructed \/ Assigned \/ Concatenated \/ CCall
               \/ \E n \in 0 .. MaxSize : ConstructCount(n)
               \/ Reconstruct \/ Unwind \/ AddNext
<1>1. ASSUME NEW s \in Values,
             \/ ConstructRange(s) \/ ConstructValues(s)
             \/ AssignRange(s) \/ AssignValues(s)
             \/ ConcatenateBack(s) \/ ConcatenateFront(s)
      PROVE  Constructed \/ Assigned \/ Concatenated
  BY <1>1, NewInstances, Assignments DEF Concatenated
<1>2. ASSUME NEW n \in 0 .. MaxSize, AssignOwn(n) PROVE Assigned
  BY <1>2, Assignments
<1>3. ConstructDefault => Constructed
  BY NewInstances
<1>4. ConcatenateBackOwn \/ ConcatenateFrontOwn => Concatenated
  BY DEF Concatenated
<1>5. ASSUME \/ \E end \in {"back", "front"} : \/ \E v \in Value : PushValue(end, v)
                                               \/ \E i \in 0 .. size - 1 : PushOwn(end, i)
             \/ DestroyList \/ ShrinkRoom \/ ClearList
             \/ \E destructor \in BOOLEAN : PopBack(destructor) \/ PopFront(destructor)
             \/ \E n \in Asked : ReserveRoom(n) \/ At(n)
             \/ Back \/ FrontIRef \/ BackIRef
      PROVE  CCall
  BY <1>5 DEF CCall
<1>6. QED
  BY <1>1, <1>2, <1>3, <1>4, <1>5 DEF ClassNext

LEMMA ClassStep == ClassInv /\ [ClassNext]_classVars => ClassInv'
<1> SUFFICES ASSUME ClassInv, [ClassNext]_classVars PROVE ClassInv'
  OBVIOUS
<1>1. ASSUME NEW n \in 0 .. MaxSize, ConstructCount(n) PROVE ClassInv'
  <2>1. n \in Nat
    BY StableListsAssumption
  <2>2. QED
    BY <1>1, <2>1, ConstructCountInv
<1>2. CASE Constructed
  BY <1>2, ConstructedInv DEF Constructed
<1>3. CASE UNCHANGED classVars
  BY <1>3, NextInv DEF classVars, vars, header, layout, contents, origin, ClassInv, CallOK,
     AddOK, ConstructOK, ThrowOK, Usable
<1>4. QED
  BY <1>1, <1>2, <1>3, Calls, AssignedInv, ConcatenatedInv, CCallInv, ReconstructInv,
     UnwindInv, AddNextInv

(***************************************************************************)
(* At every moment the list of the class is as the list in C leaves it,    *)
(* with the margin of the class, and what a loop under way has yet to add  *)
(* are positions the list has, or elements.                                *)
(***************************************************************************)
THEOREM ClassInvariance == ClassSpec => []ClassInv
<1>1. QED
  BY ClassInitInv, ClassStep, PTL DEF ClassSpec

(***************************************************************************)
(* Iterators: a loop over the list meets each element once, in order, and  *)
(* their differences are the number of elements, whatever was put in front *)
(* and however often the block was exchanged.                              *)
(***************************************************************************)
THEOREM IteratorsRight == ClassSpec => []WalksInOrder
<1>1. ClassInv => WalksInOrder
  BY WalksRight DEF ClassInv
<1>2. QED
  BY <1>1, ClassInvariance, PTL

-----------------------------------------------------------------------------
(***************************************************************************)
(* The promise of the class.  First, of sequences.                         *)
(***************************************************************************)
LEMMA HeadThenTail ==
  ASSUME NEW S, NEW s \in Seq(S), s # << >>
  PROVE  /\ Head(s) \in S /\ Tail(s) \in Seq(S)
         /\ s = <<Head(s)>> \o Tail(s)
<1>1. /\ Len(s) \in Nat /\ Len(s) # 0
      /\ Head(s) \in S /\ Tail(s) \in Seq(S) /\ Len(Tail(s)) = Len(s) - 1
      /\ \A i \in 1 .. Len(Tail(s)) : Tail(s)[i] = s[i + 1]
  BY HeadTailProperties, LenProperties, EmptySeq
<1>2. <<Head(s)>> \in Seq(S) /\ Len(<<Head(s)>>) = 1 /\ <<Head(s)>>[1] = s[1]
  BY <1>1
<1>3. /\ <<Head(s)>> \o Tail(s) \in Seq(S)
      /\ Len(<<Head(s)>> \o Tail(s)) = Len(s)
      /\ \A i \in 1 .. Len(s) : (<<Head(s)>> \o Tail(s))[i]
                                   = IF i <= 1 THEN <<Head(s)>>[i] ELSE Tail(s)[i - 1]
  <2>1. 1 + Len(Tail(s)) = Len(s)
    BY <1>1
  <2>2. QED
    BY <1>1, <1>2, <2>1, ConcatProperties
<1>4. ASSUME NEW i \in 1 .. Len(s) PROVE (<<Head(s)>> \o Tail(s))[i] = s[i]
  <2>1. i = 1 \/ (~(i <= 1) /\ i - 1 \in 1 .. Len(Tail(s)) /\ i - 1 + 1 = i)
    BY <1>1
  <2>2. QED
    BY <1>1, <1>2, <1>3, <2>1
<1>5. QED
  BY <1>1, <1>3, <1>4, SeqEqual

LEMMA ReverseTwice ==
  ASSUME NEW S, NEW s \in Seq(S)
  PROVE  Reverse(Reverse(s)) = s
<1>1. Len(s) \in Nat
  BY LenProperties
<1>2. /\ Reverse(s) \in Seq(S) /\ Len(Reverse(s)) = Len(s)
      /\ \A i \in 1 .. Len(s) : Reverse(s)[i] = s[Len(s) - i + 1]
  BY ReverseType
<1>3. /\ Reverse(Reverse(s)) \in Seq(S) /\ Len(Reverse(Reverse(s))) = Len(s)
      /\ \A i \in 1 .. Len(s) : Reverse(Reverse(s))[i] = Reverse(s)[Len(s) - i + 1]
  <2> HIDE DEF Reverse
  <2>1. QED
    BY <1>2, ReverseType
<1>4. ASSUME NEW i \in 1 .. Len(s) PROVE Reverse(Reverse(s))[i] = s[i]
  <2>1. Len(s) - i + 1 \in 1 .. Len(s) /\ Len(s) - (Len(s) - i + 1) + 1 = i
    BY <1>1
  <2>2. QED
    BY <1>2, <1>3, <2>1
<1>5. QED
  BY <1>3, <1>4, SeqEqual

\* The head of a sequence is the last of its reverse.
LEMMA ReverseStep ==
  ASSUME NEW S, NEW s \in Seq(S), s # << >>
  PROVE  /\ Reverse(Tail(s)) \in Seq(S)
         /\ Reverse(s) = Reverse(Tail(s)) \o <<Head(s)>>
<1> DEFINE rest == Reverse(Tail(s))
<1>1. /\ Len(s) \in Nat /\ Len(s) # 0
      /\ Head(s) \in S /\ Head(s) = s[1]
      /\ Tail(s) \in Seq(S) /\ Len(Tail(s)) = Len(s) - 1
      /\ \A i \in 1 .. Len(Tail(s)) : Tail(s)[i] = s[i + 1]
  BY HeadTailProperties, LenProperties, EmptySeq
<1>2. /\ Reverse(s) \in Seq(S) /\ Len(Reverse(s)) = Len(s)
      /\ \A i \in 1 .. Len(s) : Reverse(s)[i] = s[Len(s) - i + 1]
  BY ReverseType
<1>3. /\ rest \in Seq(S) /\ Len(rest) = Len(s) - 1
      /\ \A i \in 1 .. Len(s) - 1 : rest[i] = Tail(s)[Len(s) - 1 - i + 1]
  <2>1. /\ rest \in Seq(S) /\ Len(rest) = Len(Tail(s))
        /\ \A i \in 1 .. Len(Tail(s)) : rest[i] = Tail(s)[Len(Tail(s)) - i + 1]
    <3>1. \A t \in Seq(S) : /\ Reverse(t) \in Seq(S) /\ Len(Reverse(t)) = Len(t)
                            /\ \A i \in 1 .. Len(t) : Reverse(t)[i] = t[Len(t) - i + 1]
      BY ReverseType
    <3>2. Tail(s) \in Seq(S)
      BY <1>1
    <3>3. QED
      BY <3>1, <3>2, Zenon
  <2> HIDE DEF rest
  <2>2. QED
    BY <1>1, <2>1
<1> HIDE DEF rest
<1>4. <<Head(s)>> \in Seq(S) /\ Len(<<Head(s)>>) = 1 /\ <<Head(s)>>[1] = s[1]
  BY <1>1
<1>5. /\ rest \o <<Head(s)>> \in Seq(S)
      /\ Len(rest \o <<Head(s)>>) = Len(s)
      /\ \A i \in 1 .. Len(s) :
           (rest \o <<Head(s)>>)[i]
             = IF i <= Len(s) - 1 THEN rest[i] ELSE <<Head(s)>>[i - (Len(s) - 1)]
  <2>1. Len(s) - 1 + 1 = Len(s)
    BY <1>1
  <2>2. QED
    BY <1>3, <1>4, <2>1, ConcatProperties
<1>6. ASSUME NEW i \in 1 .. Len(s) PROVE (rest \o <<Head(s)>>)[i] = Reverse(s)[i]
  <2>1. CASE ~(i <= Len(s) - 1)
    <3>1. i - (Len(s) - 1) = 1 /\ Len(s) - i + 1 = 1
      BY <1>1, <2>1
    <3>2. QED
      BY <1>2, <1>4, <1>5, <2>1, <3>1
  <2>2. CASE i <= Len(s) - 1
    <3>1. /\ i \in 1 .. Len(s) - 1
          /\ Len(s) - 1 - i + 1 \in 1 .. Len(s) - 1
          /\ Len(s) - 1 - i + 1 + 1 = Len(s) - i + 1
      BY <1>1, <2>2
    <3>2. rest[i] = s[Len(s) - i + 1]
      BY <1>1, <1>3, <3>1
    <3>3. QED
      BY <1>2, <1>5, <2>2, <3>2
  <2>3. QED
    BY <2>1, <2>2
<1>7. rest \o <<Head(s)>> = Reverse(s)
  BY <1>2, <1>5, <1>6, SeqEqual
<1>8. QED
  BY <1>3, <1>7 DEF rest

LEMMA Parts ==
  ASSUME NEW S, NEW s \in Seq(S), NEW t \in Seq(S)
  PROVE  s \in Prefixes(s \o t) /\ t \in Suffixes(s \o t)
<1> DEFINE u == s \o t
           n == Len(s)
           m == Len(t)
<1>1. /\ n \in Nat /\ m \in Nat
      /\ u \in Seq(S) /\ Len(u) = n + m
      /\ \A i \in 1 .. n + m : u[i] = IF i <= n THEN s[i] ELSE t[i - n]
  BY ConcatProperties, LenProperties
<1>2. \A i \in 1 .. n + m : u[i] \in S
  BY <1>1, ElementOfSeq
<1> HIDE DEF u
<1>3. s \in Prefixes(u)
  <2>1. /\ SubSeq(u, 1, n) \in Seq(S)
        /\ Len(SubSeq(u, 1, n)) = IF 1 <= n THEN n - 1 + 1 ELSE 0
        /\ \A i \in 1 .. n - 1 + 1 : SubSeq(u, 1, n)[i] = u[1 + i - 1]
    <3>1. 1 \in Int /\ n \in Int /\ \A i \in 1 .. n : i \in 1 .. n + m
      BY <1>1
    <3>2. \A i \in 1 .. n : u[i] \in S
      BY <1>2, <3>1
    <3>3. QED
      BY <3>1, <3>2, SubSeqProperties
  <2>2. Len(SubSeq(u, 1, n)) = n
    BY <1>1, <2>1
  <2>3. ASSUME NEW i \in 1 .. n PROVE SubSeq(u, 1, n)[i] = s[i]
    <3>1. i \in 1 .. n - 1 + 1 /\ 1 + i - 1 = i /\ i \in 1 .. n + m /\ i <= n
      BY <1>1
    <3>2. QED
      BY <1>1, <2>1, <3>1
  <2>4. SubSeq(u, 1, n) = s
    BY <2>1, <2>2, <2>3, SeqEqual
  <2>5. n \in 0 .. Len(u)
    BY <1>1
  <2>6. \E l \in 0 .. Len(u) : s = SubSeq(u, 1, l)
    BY <2>4, <2>5, Zenon
  <2>7. QED
    BY <2>6 DEF Prefixes
<1>4. t \in Suffixes(u)
  <2>1. CASE m = 0
    <3>1. t = << >>
      BY <2>1, EmptySeq
    <3>2. QED
      BY <3>1 DEF Suffixes
  <2>2. CASE m # 0
    <3>1. /\ n + 1 \in Int /\ n + m \in Int /\ n + 1 <= n + m
          /\ n + m - (n + 1) + 1 = m
          /\ n + 1 \in 1 .. n + m
          /\ \A i \in n + 1 .. n + m : i \in 1 .. n + m
          /\ \A i \in 1 .. m : /\ n + 1 + i - 1 \in 1 .. n + m
                               /\ ~(n + 1 + i - 1 <= n) /\ n + 1 + i - 1 - n = i
      BY <1>1, <2>2
    <3>2. /\ SubSeq(u, n + 1, n + m) \in Seq(S)
          /\ Len(SubSeq(u, n + 1, n + m))
               = IF n + 1 <= n + m THEN n + m - (n + 1) + 1 ELSE 0
          /\ \A i \in 1 .. n + m - (n + 1) + 1 :
               SubSeq(u, n + 1, n + m)[i] = u[n + 1 + i - 1]
      <4>1. \A i \in n + 1 .. n + m : u[i] \in S
        BY <1>2, <3>1
      <4>2. QED
        BY <3>1, <4>1, SubSeqProperties
    <3>3. Len(SubSeq(u, n + 1, n + m)) = m
      BY <3>1, <3>2
    <3>4. ASSUME NEW i \in 1 .. m PROVE SubSeq(u, n + 1, n + m)[i] = t[i]
      BY <1>1, <3>1, <3>2
    <3>5. SubSeq(u, n + 1, n + m) = t
      BY <3>2, <3>3, <3>4, SeqEqual
    <3>6. QED
      BY <1>1, <3>1, <3>5 DEF Suffixes
  <2>3. QED
    BY <2>1, <2>2
<1>5. QED
  BY <1>3, <1>4 DEF u

LEMMA HeldTypeNext ==
  ASSUME IInv'
  PROVE  /\ size' \in Nat /\ front' \in Int
         /\ Held' \in Seq(Value) /\ Len(Held') = size' /\ Held' \in Seq(Value \cup {None})
<1>1. /\ size' \in Nat /\ front' \in 0 .. MaxCapacity
      /\ data' \in [front' .. front' + size' - 1 -> Value]
  BY DEF IInv, TypeOK
<1>2. /\ front' \in Int
      /\ \A i \in 0 .. size' - 1 : front' + i \in front' .. front' + size' - 1
  <2>1. \A n \in Nat, f \in Int : \A i \in 0 .. n - 1 : f + i \in f .. f + n - 1
    OBVIOUS
  <2>2. size' \in Nat /\ front' \in Int
    BY <1>1, StableListAssumption
  <2>3. QED
    BY <2>1, <2>2, Zenon
<1>3. \A i \in 0 .. size' - 1 : data'[front' + i] \in Value
  BY <1>1, <1>2
<1>4. HeldOf(size', front', data') \in Seq(Value) /\ Len(HeldOf(size', front', data')) = size'
  BY <1>1, <1>2, <1>3, HeldSeq, HeldLen
<1>5. Held' \in Seq(Value) /\ Len(Held') = size'
  BY <1>4, HeldMapped
<1>6. QED
  BY <1>1, <1>2, <1>5, SeqMonotonic

(***************************************************************************)
(* What the mapping makes of a call that is over, of one that has the      *)
(* block still to make, and of a loop that has s still to add.             *)
(***************************************************************************)
Made == Usable \/ call.stage = "construct"

Whose(own, s) == IF s = << >> THEN "nothing"
                 ELSE IF ~own /\ None \notin ToSet(s) THEN "others" ELSE "own"

\* The elements at the positions s of a list.
Picked(held, s) == [k \in DOMAIN s |-> held[s[k] + 1]]

Shown(held, end, own, s) ==
  IF end = "back" THEN held \o (IF own THEN Picked(held, s) ELSE s)
  ELSE IF own THEN held ELSE Reverse(s) \o held

LEMMA SeenIdle ==
  /\ call = Idle => /\ Under = "nothing" /\ (Made <=> Usable)
                    /\ Items = IF Usable THEN Held ELSE << >>
  /\ call' = Idle => /\ Under' = "nothing" /\ (Made' <=> Usable')
                     /\ Items' = IF Usable' THEN Held' ELSE << >>
<1>1. /\ call = Idle => call.stage = "idle"
      /\ call' = Idle => call'.stage = "idle"
  BY DEF Idle
<1>2. /\ call.stage = "idle" => (Made <=> Usable)
      /\ call'.stage = "idle" => (Made' <=> Usable')
  BY DEF Made
<1>3. /\ call.stage = "idle" => Under = "nothing" /\ Items = IF Usable THEN Held ELSE << >>
      /\ call'.stage = "idle" => /\ Under' = "nothing"
                                /\ Items' = IF Usable' THEN Held' ELSE << >>
  BY DEF Under, Items
<1>4. QED
  BY <1>1, <1>2, <1>3

LEMMA SeenThrowing ==
  /\ call = Throwing /\ Usable => Under = "others" /\ Made /\ Items = Held
  /\ call' = Throwing /\ Usable' => Under' = "others" /\ Made' /\ Items' = Held'
<1>1. /\ call = Throwing => call.stage = "throw"
      /\ call' = Throwing => call'.stage = "throw"
  BY DEF Throwing
<1>2. QED
  BY <1>1 DEF Under, Made, Items

LEMMA SeenConstructing ==
  ASSUME NEW n, NEW s
  PROVE  /\ call = Constructing(n, s) =>
              /\ Under = IF None \in ToSet(s) THEN "own" ELSE "others"
              /\ Made /\ Items = s
         /\ call' = Constructing(n, s) =>
              /\ Under' = IF None \in ToSet(s) THEN "own" ELSE "others"
              /\ Made' /\ Items' = s
<1>1. /\ call = Constructing(n, s) => call.stage = "construct" /\ call.items = s
      /\ call' = Constructing(n, s) => call'.stage = "construct" /\ call'.items = s
  BY DEF Constructing
<1>2. QED
  BY <1>1 DEF Under, Made, Items

LEMMA PickedFrom ==
  ASSUME NEW n \in Nat, NEW f \in Int, NEW d, NEW s \in Seq(0 .. n - 1)
  PROVE  Picked(HeldOf(n, f, d), s) = [k \in DOMAIN s |-> d[f + s[k]]]
<1>1. \A k \in DOMAIN s : s[k] \in 0 .. n - 1
  BY ElementOfSeq, LenProperties
<1>2. \A i \in 0 .. n - 1 : HeldOf(n, f, d)[i + 1] = d[f + i]
  BY HeldLen
<1>3. \A k \in DOMAIN s : HeldOf(n, f, d)[s[k] + 1] = d[f + s[k]]
  BY <1>1, <1>2
<1>4. QED
  BY <1>3 DEF Picked

LEMMA SeenAdding ==
  ASSUME IInv, AddOK
  PROVE  /\ Made
         /\ Under = Whose(call.own, call.items)
         /\ Items = Shown(Held, call.end, call.own, call.items)
<1>1. /\ call.stage = "add" /\ call.items # << >> /\ Usable
      /\ call.end \in {"back", "front"} /\ call.own \in BOOLEAN
  BY DEF AddOK
<1>2. call.own => Missing = Picked(Held, call.items)
  <2>1. size \in Nat /\ front \in Int
    BY TypeFacts
  <2>2. QED
    BY <2>1, PickedFrom, HeldMapped DEF AddOK, Missing
<1>3. ~call.own => Missing = call.items
  BY DEF Missing
<1>4. QED
  BY <1>1, <1>2, <1>3 DEF Made, Under, Whose, Items, Shown

LEMMA SeenAddingNext ==
  ASSUME IInv', Usable',
         NEW end \in {"back", "front"}, NEW own \in BOOLEAN, NEW fresh, NEW s,
         own => s \in Seq(0 .. size' - 1), ~own => s \in Seq(Value \cup {None}),
         call' = Adding(end, own, fresh, s)
  PROVE  /\ Made'
         /\ Under' = Whose(own, s)
         /\ Items' = Shown(Held', end, own, s)
<1>1. CASE s = << >>
  <2>1. call' = Idle
    BY <1>1 DEF Adding
  <2>2. Made' /\ Under' = "nothing" /\ Items' = Held'
    BY <2>1, SeenIdle
  <2>3. Shown(Held', end, own, << >>) = Held'
    <3>1. Picked(Held', << >>) = << >>
      BY DEF Picked
    <3>2. Reverse(<< >>) = << >>
      BY DEF Reverse
    <3>3. Held' \o << >> = Held' /\ << >> \o Held' = Held'
      BY HeldTypeNext, ConcatEmptySeq
    <3>4. QED
      BY <3>1, <3>2, <3>3 DEF Shown
  <2>4. QED
    BY <1>1, <2>2, <2>3 DEF Whose
<1>2. CASE s # << >>
  <2>1. call' = [stage |-> "add", end |-> end, own |-> own, fresh |-> fresh, items |-> s]
    BY <1>2 DEF Adding
  <2>2. /\ call'.stage = "add" /\ call'.end = end /\ call'.own = own /\ call'.items = s
    BY <2>1
  <2>3. own => Missing' = Picked(Held', s)
    BY <2>2, HeldTypeNext, PickedFrom, HeldMapped DEF Missing
  <2>4. ~own => Missing' = s
    BY <2>2 DEF Missing
  <2>5. QED
    BY <1>2, <2>2, <2>3, <2>4 DEF Made, Under, Whose, Items, Shown
<1>3. QED
  BY <1>1, <1>2

-----------------------------------------------------------------------------
(***************************************************************************)
(* Each call of the class is the call of the same name in ValueList.       *)
(***************************************************************************)
LEMMA ValuesGiven ==
  ASSUME NEW s \in Values
  PROVE  /\ s \in Seq(Value) /\ s \in Seq(Value \cup {None})
         /\ None \notin ToSet(s)
         /\ Whose(FALSE, s) \in {"nothing", "others"}
<1>1. s \in Seq(Value) /\ s \in Seq(Value \cup {None})
  BY ValuesType, SeqMonotonic
<1>2. None \notin ToSet(s)
  BY <1>1, ElementOfSeq, LenProperties, StableListsAssumption DEF ToSet
<1>3. QED
  BY <1>1, <1>2 DEF Whose

\* From an empty list.
LEMMA ShownFirst ==
  ASSUME NEW s \in Seq(Value \cup {None})
  PROVE  Shown(<< >>, "back", FALSE, s) = s
BY ConcatEmptySeq DEF Shown

LEMMA Calling ==
  ASSUME ClassInv, Returned
  PROVE  /\ IInv /\ call = Idle /\ ~corrupt /\ Under = "nothing"
         /\ (Made <=> Usable) /\ (Usable <=> memBlock)
         /\ Items = IF Usable THEN Held ELSE << >>
BY SeenIdle DEF ClassInv, Returned, Usable

LEMMA ConstructPromised ==
  ASSUME ClassInv, NEW n \in Nat, NEW s \in Values, NewInstance(n, s)
  PROVE  Promise!Construct(s)
<1>1. /\ IInv /\ call = Idle /\ ~corrupt /\ Under = "nothing"
      /\ ~Made /\ ~Usable /\ Items = << >>
      /\ last' = <<"construct", s>>
      /\ Construct(n, s, TRUE)
  BY Calling DEF NewInstance, Construct, ConstructSizeFront
<1>2. s \in Seq(Value) /\ s \in Given
  BY ValuesGiven DEF Given
<1>3. /\ ClassInv'
      /\ \/ FailAllocation /\ call' = Idle
         \/ /\ Usable' /\ Held' = << >> /\ Returns("SUCCESS", None)
            /\ call' = Adding("back", FALSE, TRUE, s)
  BY <1>1, <1>2, ClassConstructs
<1>4. CASE FailAllocation /\ call' = Idle
  <2>1. ~Usable' /\ ret' = [code |-> "ALOCATION_FAILED", out |-> None]
    BY <1>1, <1>4 DEF FailAllocation, Usable, Returns
  <2>2. Under' = "nothing" /\ ~Made' /\ Items' = << >>
    BY <1>4, <2>1, SeenIdle
  <2>3. QED
    BY <1>1, <2>1, <2>2 DEF Promise!Construct, Promise!Called, Promise!OutOfMemory,
       Promise!Returns, Made
<1>5. CASE /\ Usable' /\ Held' = << >> /\ Returns("SUCCESS", None)
           /\ call' = Adding("back", FALSE, TRUE, s)
  <2>1. Made' /\ Under' = Whose(FALSE, s) /\ Items' = Shown(<< >>, "back", FALSE, s)
    BY <1>3, <1>5, ValuesGiven, SeenAddingNext DEF ClassInv
  <2>2. Items' = s /\ Under' \in {"nothing", "others"}
    BY <2>1, ValuesGiven, ShownFirst
  <2>3. QED
    BY <1>1, <1>5, <2>1, <2>2 DEF Promise!Construct, Promise!Called, Promise!Succeeds,
       Promise!Returns, Returns, Made
<1>6. QED
  BY <1>3, <1>4, <1>5

LEMMA CountPromised ==
  ASSUME ClassInv, NEW count \in Nat, ConstructCount(count)
  PROVE  Promise!ConstructCount(count)
<1>1. /\ call = Idle /\ Under = "nothing" /\ ~Made /\ ~Usable /\ Items = << >>
      /\ last' = <<"constructCount", count>>
  BY Calling DEF ConstructCount
<1>2. /\ call' = Idle
      /\ (count = 0 /\ Usable' /\ Held' = << >>) \/ ~Usable'
  BY ConstructCountInv
<1>3. Under' = "nothing" /\ Items' = << >> /\ (Made' => count = 0)
  BY <1>2, SeenIdle
<1>4. QED
  BY <1>1, <1>3 DEF Promise!ConstructCount, Promise!Called, Made

LEMMA AssignPromised ==
  ASSUME ClassInv, NEW n \in Nat, NEW s \in Given, AssignWith(n, s)
  PROVE  Promise!Assign(s)
<1>1. Under = "nothing" /\ last' = <<"assign", s>> /\ call' = Constructing(n, s)
  BY Calling DEF AssignWith
<1>2. /\ Made' /\ Items' = s
      /\ Under' = IF None \in ToSet(s) THEN "own" ELSE "others"
  BY <1>1, SeenConstructing
<1>3. QED
  BY <1>1, <1>2 DEF Promise!Assign, Promise!Called, Promise!ToSet, ToSet, Made

LEMMA PickedType ==
  ASSUME NEW held \in Seq(Value), NEW s \in Seq(0 .. Len(held) - 1)
  PROVE  /\ Picked(held, s) \in Seq(Value) /\ Len(Picked(held, s)) = Len(s)
         /\ \A k \in 1 .. Len(s) : /\ s[k] + 1 \in 1 .. Len(held)
                                   /\ Picked(held, s)[k] = held[s[k] + 1]
<1>1. Len(held) \in Nat /\ Len(s) \in Nat /\ DOMAIN s = 1 .. Len(s)
  BY LenProperties
<1>2. \A k \in 1 .. Len(s) : s[k] \in 0 .. Len(held) - 1
  BY ElementOfSeq
<1>3. \A k \in 1 .. Len(s) : s[k] + 1 \in 1 .. Len(held)
  BY <1>1, <1>2
<1>4. \A k \in 1 .. Len(s) : held[s[k] + 1] \in Value
  BY <1>3, ElementOfSeq
<1>5. Picked(held, s) = [k \in 1 .. Len(s) |-> held[s[k] + 1]]
  BY <1>1 DEF Picked
<1>6. Picked(held, s) \in [1 .. Len(s) -> Value]
  BY <1>4, <1>5
<1>7. Picked(held, s) \in Seq(Value)
  BY <1>1, <1>6, SeqDef
<1>8. Len(Picked(held, s)) = Len(s)
  BY <1>1, <1>5
<1>9. QED
  BY <1>3, <1>5, <1>7, <1>8

\* The elements at positions are where they were, once one more is behind them.
LEMMA PickedStep ==
  ASSUME NEW held \in Seq(Value), NEW s \in Seq(0 .. Len(held) - 1), s # << >>,
         NEW v, v = held[Head(s) + 1]
  PROVE  /\ v \in Value
         /\ Picked(held \o <<v>>, Tail(s)) \in Seq(Value)
         /\ Picked(held, s) = <<v>> \o Picked(held \o <<v>>, Tail(s))
<1> DEFINE n == Len(held)
           m == Len(s)
           longer == held \o <<v>>
           rest == Tail(s)
<1>1. /\ n \in Nat /\ m \in Nat /\ m # 0
      /\ Head(s) \in 0 .. n - 1 /\ Head(s) = s[1]
      /\ rest \in Seq(0 .. n - 1) /\ Len(rest) = m - 1
      /\ \A k \in 1 .. m - 1 : rest[k] = s[k + 1]
  <2>1. Len(s) \in Nat \ {0} /\ Len(held) \in Nat
    BY EmptySeq, LenProperties
  <2>2. /\ Head(s) \in 0 .. n - 1
        /\ rest \in Seq(0 .. n - 1)
        /\ Len(rest) = Len(s)-1
        /\ \A k \in 1 .. Len(rest) : rest[k] = s[k + 1]
    BY HeadTailProperties
  <2>3. Head(s) = s[1]
    OBVIOUS
  <2>4. QED
    BY <2>1, <2>2, <2>3
<1>2. /\ Picked(held, s) \in Seq(Value) /\ Len(Picked(held, s)) = m
      /\ \A k \in 1 .. m : s[k] + 1 \in 1 .. n /\ Picked(held, s)[k] = held[s[k] + 1]
  BY PickedType
<1>3. v \in Value /\ <<v>> \in Seq(Value) /\ Len(<<v>>) = 1 /\ <<v>>[1] = v
  <2>1. Head(s) + 1 \in 1 .. n
    BY <1>1
  <2>2. v \in Value
    BY <2>1, ElementOfSeq
  <2>3. QED
    BY <2>2
<1>4. /\ longer \in Seq(Value) /\ Len(longer) = n + 1
      /\ \A i \in 1 .. n + 1 : longer[i] = IF i <= n THEN held[i] ELSE <<v>>[i - n]
  BY <1>1, <1>3, ConcatProperties
<1>5. rest \in Seq(0 .. n + 1 - 1)
  <2>1. 0 .. n - 1 \subseteq 0 .. n + 1 - 1
    BY <1>1
  <2>2. QED
    BY <1>1, <2>1, SeqMonotonic
<1> HIDE DEF longer, rest
<1>6. /\ Picked(longer, rest) \in Seq(Value) /\ Len(Picked(longer, rest)) = m - 1
      /\ \A k \in 1 .. m - 1 : Picked(longer, rest)[k] = longer[rest[k] + 1]
  <2>1. rest \in Seq(0 .. Len(longer) - 1)
    BY <1>4, <1>5
  <2>2. /\ Picked(longer, rest) \in Seq(Value) /\ Len(Picked(longer, rest)) = Len(rest)
        /\ \A k \in 1 .. Len(rest) : Picked(longer, rest)[k] = longer[rest[k] + 1]
    <3>1. longer \in Seq(Value)
      BY <1>4
    <3>2. QED
      BY <2>1, <3>1, PickedType
  <2>3. QED
    BY <1>1, <2>2
<1> DEFINE all == <<v>> \o Picked(longer, rest)
<1>7. /\ all \in Seq(Value) /\ Len(all) = m
      /\ \A k \in 1 .. m : all[k] = IF k <= 1 THEN <<v>>[k] ELSE Picked(longer, rest)[k - 1]
  <2>1. 1 + (m - 1) = m
    BY <1>1
  <2>2. QED
    BY <1>3, <1>6, <2>1, ConcatProperties
<1> HIDE DEF all
<1>8. ASSUME NEW k \in 1 .. m PROVE all[k] = Picked(held, s)[k]
  <2>1. CASE k <= 1
    <3>1. k = 1
      BY <1>1, <2>1
    <3>2. QED
      BY <1>1, <1>2, <1>3, <1>7, <2>1, <3>1
  <2>2. CASE ~(k <= 1)
    <3>1. k - 1 \in 1 .. m - 1 /\ k - 1 + 1 = k
      BY <1>1, <2>2
    <3>2. rest[k - 1] = s[k]
      BY <1>1, <3>1
    <3>3. s[k] + 1 \in 1 .. n + 1 /\ s[k] + 1 <= n
      <4>1. n \in Nat /\ \A i \in 1 .. n : i \in 1 .. n + 1 /\ i <= n
        BY <1>1
      <4>2. s[k] + 1 \in 1 .. n
        BY <1>2
      <4>3. QED
        BY <4>1, <4>2
    <3>4. all[k] = longer[s[k] + 1]
      BY <1>6, <1>7, <2>2, <3>1, <3>2
    <3>5. QED
      BY <1>2, <1>4, <3>3, <3>4
  <2>3. QED
    BY <2>1, <2>2
<1>9. all = Picked(held, s)
  BY <1>2, <1>7, <1>8, SeqEqual
<1>10. QED
  BY <1>3, <1>6, <1>9 DEF all, longer, rest

\* An element goes with what is on either side of it.
LEMMA Between ==
  ASSUME NEW S, NEW a \in Seq(S), NEW v \in S, NEW b \in Seq(S)
  PROVE  (a \o <<v>>) \o b = a \o (<<v>> \o b)
<1>1. <<v>> \in Seq(S)
  OBVIOUS
<1>2. QED
  BY <1>1, ConcatAssociative

\* The next element of a loop, and a list with one more.
Taken(held, own, s) == IF own THEN held[Head(s) + 1] ELSE Head(s)
Put(held, end, v) == IF end = "back" THEN held \o <<v>> ELSE <<v>> \o held

\* A loop with s still to add.
Loop(held, end, own, s) ==
  /\ held \in Seq(Value) /\ end \in {"back", "front"} /\ own \in BOOLEAN
  /\ s # << >>
  /\ own => s \in Seq(0 .. Len(held) - 1)
  /\ ~own => s \in Seq(Value)

\* What a loop shows is the same after a step of it, but for a list that is put
\* in front of itself.
ShownOn(held, end, own, s) ==
  LET v == Taken(held, own, s)
      shown == Shown(held, end, own, s)
      on == Shown(Put(held, end, v), end, own, Tail(s))
  IN  \/ on = shown
      \/ own /\ v \in ToSet(shown) /\ on = <<v>> \o shown

LEMMA ShownStep ==
  ASSUME NEW held, NEW end, NEW own, NEW s, Loop(held, end, own, s)
  PROVE  ShownOn(held, end, own, s)
<1> DEFINE v == Taken(held, own, s)
<1> USE DEF Loop, ShownOn, Put
<1>0. v = IF own THEN held[Head(s) + 1] ELSE Head(s)
  BY DEF Taken
<1> HIDE DEF v
<1> SUFFICES \/ Shown(Put(held, end, v), end, own, Tail(s)) = Shown(held, end, own, s)
             \/ /\ own /\ v \in ToSet(Shown(held, end, own, s))
                /\ Shown(Put(held, end, v), end, own, Tail(s))
                     = <<v>> \o Shown(held, end, own, s)
  BY DEF v
<1>1. CASE end = "back" /\ own
  <2>1. /\ v \in Value /\ Picked(held \o <<v>>, Tail(s)) \in Seq(Value)
        /\ Picked(held, s) = <<v>> \o Picked(held \o <<v>>, Tail(s))
    BY <1>0, <1>1, PickedStep
  <2>2. (held \o <<v>>) \o Picked(held \o <<v>>, Tail(s)) = held \o Picked(held, s)
    BY <2>1, Between
  <2>3. QED
    BY <1>1, <2>2 DEF Shown
<1>2. CASE end = "back" /\ ~own
  <2>1. v \in Value /\ Tail(s) \in Seq(Value) /\ s = <<v>> \o Tail(s)
    BY <1>0, <1>2, HeadThenTail
  <2>2. (held \o <<v>>) \o Tail(s) = held \o s
    BY <2>1, Between
  <2>3. QED
    BY <1>2, <2>2 DEF Shown
<1>3. CASE end = "front" /\ ~own
  <2>1. /\ v \in Value /\ Reverse(Tail(s)) \in Seq(Value)
        /\ Reverse(s) = Reverse(Tail(s)) \o <<v>>
    BY <1>0, <1>3, ReverseStep, HeadThenTail
  <2>2. Reverse(Tail(s)) \o (<<v>> \o held) = Reverse(s) \o held
    BY <2>1, Between
  <2>3. QED
    BY <1>3, <2>2 DEF Shown
<1>4. CASE end = "front" /\ own
  <2>1. Shown(held, end, own, s) = held
    BY <1>4 DEF Shown
  <2>2. Shown(<<v>> \o held, end, own, Tail(s)) = <<v>> \o held
    BY <1>4 DEF Shown
  <2>3. v \in ToSet(held)
    <3>1. Head(s) \in 0 .. Len(held) - 1 /\ Len(held) \in Nat /\ DOMAIN held = 1 .. Len(held)
      BY <1>4, HeadTailProperties, LenProperties
    <3>2. Head(s) + 1 \in DOMAIN held
      BY <3>1
    <3>3. QED
      BY <1>0, <1>4, <3>2 DEF ToSet
  <2>4. QED
    BY <1>4, <2>1, <2>2, <2>3
<1>5. QED
  BY <1>1, <1>2, <1>3, <1>4 DEF Loop

\* A loop that stops leaves what was there first.
LEMMA ShownStops ==
  ASSUME NEW held \in Seq(Value), NEW end \in {"back", "front"}, NEW own \in BOOLEAN,
         NEW s, own => s \in Seq(0 .. Len(held) - 1), ~own => s \in Seq(Value \cup {None})
  PROVE  LET shown == Shown(held, end, own, s)
         IN  held \in Prefixes(shown) \cup Suffixes(shown)
<1> DEFINE E == Value \cup {None}
<1>1. held \in Seq(E) /\ << >> \in Seq(E)
  BY SeqMonotonic, EmptySeq
<1>2. CASE end = "back" /\ own
  <2>1. Picked(held, s) \in Seq(E)
    BY <1>2, PickedType, SeqMonotonic
  <2>2. QED
    BY <1>1, <1>2, <2>1, Parts DEF Shown
<1>3. CASE end = "back" /\ ~own
  BY <1>1, <1>3, Parts DEF Shown
<1>4. CASE end = "front" /\ ~own
  <2>1. Reverse(s) \in Seq(E)
    BY <1>4, ReverseType
  <2>2. QED
    BY <1>1, <1>4, <2>1, Parts DEF Shown
<1>5. CASE end = "front" /\ own
  <2>1. held \in Prefixes(held \o << >>) /\ held \o << >> = held
    BY <1>1, Parts, ConcatEmptySeq
  <2>2. QED
    BY <1>5, <2>1 DEF Shown
<1>6. QED
  BY <1>2, <1>3, <1>4, <1>5

-----------------------------------------------------------------------------
\* Loops, step by step.
LEMMA HeldKept ==
  ASSUME UNCHANGED <<memBlock, header, corrupt>>
  PROVE  Held' = Held /\ (Usable' <=> Usable) /\ (Sturdy' <=> Sturdy)
BY DEF header, layout, contents, origin, Held, Usable, Sturdy

LEMMA Loops ==
  ASSUME IInv, AddOK
  PROVE  /\ Held \in Seq(Value)
         /\ call.own => call.items \in Seq(0 .. Len(Held) - 1)
         /\ ~call.own => call.items \in Seq(Value \cup {None})
         /\ call.fresh => Under = "others"
         /\ Under = "own" <=> call.own \/ None \in ToSet(call.items)
         /\ Under \in {"own", "others"}
<1>1. /\ Held \in Seq(Value) /\ Len(Held) = size
      /\ call.items # << >>
      /\ call.own \in BOOLEAN /\ call.fresh \in BOOLEAN
      /\ Under = Whose(call.own, call.items)
  BY HeldType, SeenAdding DEF AddOK
<1>2. ~call.own => call.items \in Seq(Value \cup {None})
  <2>1. Seq(Value) \subseteq Seq(Value \cup {None}) /\ Seq({None}) \subseteq Seq(Value \cup {None})
    BY SeqMonotonic
  <2>2. QED
    BY <2>1 DEF AddOK, Given
<1>3. call.fresh => ~call.own /\ None \notin ToSet(call.items)
  BY ElementOfSeq, LenProperties, StableListsAssumption DEF AddOK, ToSet
<1>4. QED
  BY <1>1, <1>2, <1>3 DEF AddOK, Whose

LEMMA AddNextPromised ==
  ASSUME ClassInv, AddNext
  PROVE  Promise!GoOn
<1> DEFINE shown == Shown(Held, call.end, call.own, call.items)
<1>1. /\ IInv /\ AddOK /\ ClassInv' /\ IInv'
      /\ last' = <<"goesOn">>
  BY AddNextFacts, AddNextInv DEF ClassInv, AddNext, GoesOn
<1>2. /\ Made /\ Items = shown /\ Usable
      /\ Under \in {"own", "others"}
      /\ Under = "own" <=> call.own \/ None \in ToSet(call.items)
  BY <1>1, SeenAdding, Loops DEF AddOK
<1>3. CASE FailAllocation /\ call' = IF call.fresh THEN Throwing ELSE Idle
  <2>1. /\ ret' = [code |-> "ALOCATION_FAILED", out |-> None]
        /\ Held' = Held /\ Usable' /\ (Sturdy => Sturdy')
    BY <1>2, <1>3, HeldKept DEF FailAllocation, Returns
  <2>2. Made' /\ Items' = Held /\ Under' \in {Under, "nothing"}
    <3>1. CASE call.fresh /\ call' = Throwing
      BY <1>1, <2>1, <3>1, Loops, SeenThrowing
    <3>2. CASE call' = Idle
      BY <2>1, <3>2, SeenIdle
    <3>3. QED
      BY <1>3, <3>1, <3>2
  <2>3. Held \in Prefixes(Items) \cup Suffixes(Items)
    BY <1>1, <1>2, Loops, ShownStops DEF AddOK
  <2>4. QED
    BY <1>1, <1>2, <2>1, <2>2, <2>3
       DEF Promise!GoOn, Promise!OutOfMemory, Promise!Returns, Promise!Sturdier,
           Promise!Prefixes, Promise!Suffixes, Prefixes, Suffixes, Made, Sturdy
<1>4. CASE Corrupt /\ call' = Idle /\ (Sturdy => call.own \/ None \in ToSet(call.items))
  <2>1. ~Usable' /\ ~Made' /\ Items' = << >> /\ Under' = "nothing"
    BY <1>4, SeenIdle DEF Corrupt, Usable
  <2>2. QED
    BY <1>1, <1>2, <1>4, <2>1
       DEF Promise!GoOn, Promise!Break, Promise!Gone, Made, Sturdy
<1>5. CASE /\ Lengthened(call.end, AddedValue)
           /\ ~call.own => call.items \in Seq(Value)
           /\ call' = Adding(call.end, call.own, call.fresh, Tail(call.items))
  <2> DEFINE v == AddedValue
             rest == Tail(call.items)
  <2>1. /\ ret' = [code |-> "SUCCESS", out |-> None]
        /\ Held' = IF call.end = "back" THEN Held \o <<v>> ELSE <<v>> \o Held
        /\ Usable' /\ (Sturdy => Sturdy')
        /\ size' = size + 1
    <3>1. capacity' >= capacity /\ UNCHANGED reallocationFrontMargin
      BY <1>5 DEF Lengthened, origin
    <3>2. /\ capacity \in Int /\ reallocationFrontMargin \in Int
          /\ capacity' \in Int
      BY <1>1, TypeFacts DEF IInv, TypeOK
    <3>3. QED
      BY <1>5, <3>1, <3>2 DEF Lengthened, Returns, Sturdy
  <2>2. /\ call.own => rest \in Seq(0 .. size' - 1)
        /\ ~call.own => rest \in Seq(Value) /\ rest \in Seq(Value \cup {None})
    <3>1. call.items # << >> /\ size \in Nat
      BY <1>1, TypeFacts DEF AddOK
    <3>2. ASSUME call.own PROVE rest \in Seq(0 .. size' - 1)
      <4>1. rest \in Seq(0 .. size - 1)
        BY <1>1, <3>1, <3>2, HeadTailProperties DEF AddOK
      <4>2. 0 .. size - 1 \subseteq 0 .. size' - 1
        BY <2>1, <3>1
      <4>3. QED
        BY <4>1, <4>2, SeqMonotonic
    <3>3. ASSUME ~call.own PROVE rest \in Seq(Value) /\ rest \in Seq(Value \cup {None})
      <4>1. rest \in Seq(Value)
        BY <1>5, <3>1, <3>3, HeadTailProperties
      <4>2. QED
        BY <4>1, SeqMonotonic
    <3>4. QED
      BY <3>2, <3>3
  <2>3. /\ Made' /\ Under' = Whose(call.own, rest)
        /\ Items' = Shown(Held', call.end, call.own, rest)
    BY <1>1, <1>5, <2>1, <2>2, SeenAddingNext DEF AddOK
  <2>4. Under' \in {Under, "nothing"}
    <3>1. ~call.own => None \notin ToSet(call.items) /\ None \notin ToSet(rest)
      BY <1>5, <2>2, ElementOfSeq, LenProperties, StableListsAssumption DEF ToSet
    <3>2. QED
      BY <1>2, <2>3, <3>1 DEF Whose
  <2>5. \/ Items' = Items
        \/ call.own /\ v \in ToSet(Items) /\ Items' = <<v>> \o Items
    <3>1. v = Taken(Held, call.own, call.items) /\ Held' = Put(Held, call.end, v)
      BY <2>1 DEF AddedValue, Taken, Put
    <3>2. Loop(Held, call.end, call.own, call.items)
      BY <1>1, <1>5, Loops DEF AddOK, Loop
    <3>3. ShownOn(Held, call.end, call.own, call.items)
      BY <3>2, ShownStep
    <3> HIDE DEF v
    <3>4. QED
      BY <1>2, <2>3, <3>1, <3>3 DEF ShownOn
  <2>6. QED
    <3> HIDE DEF v
    <3>1. QED
      BY <1>1, <1>2, <2>1, <2>3, <2>4, <2>5
         DEF Promise!GoOn, Promise!Succeeds, Promise!Returns, Promise!Sturdier,
             Promise!ToSet, ToSet, Made, Sturdy
<1>6. QED
  BY <1>3, <1>4, <1>5, AddNextFacts

LEMMA ReconstructPromised ==
  ASSUME ClassInv, Reconstruct
  PROVE  Promise!GoOn
<1>1. /\ IInv /\ ConstructOK /\ Construct(call.room, call.items, FALSE)
      /\ last' = <<"goesOn">>
  BY Stages DEF Reconstruct, ClassInv, GoesOn
<1>2. /\ Made /\ Items = call.items /\ ~Sturdy /\ ~Usable
      /\ Under = IF None \in ToSet(call.items) THEN "own" ELSE "others"
      /\ call.room \in Nat /\ call.items \in Given /\ ~corrupt /\ ~memBlock
  BY <1>1, SeenConstructing DEF ConstructOK, Sturdy, Usable
<1>3. call.items \in Seq(Value \cup {None})
  <2>1. Seq(Value) \subseteq Seq(Value \cup {None}) /\ Seq({None}) \subseteq Seq(Value \cup {None})
    BY SeqMonotonic
  <2>2. QED
    BY <1>2, <2>1 DEF Given
<1>4. /\ ClassInv'
      /\ \/ FailAllocation /\ call' = Idle
         \/ /\ Usable' /\ Held' = << >> /\ Returns("SUCCESS", None)
            /\ call' = Adding("back", FALSE, FALSE, call.items)
  BY <1>1, <1>2, ClassConstructs
<1>5. CASE FailAllocation /\ call' = Idle
  <2>1. ~Usable' /\ ret'.code = "ALOCATION_FAILED"
    BY <1>2, <1>5 DEF FailAllocation, Usable, Returns
  <2>2. Under' = "nothing" /\ ~Made' /\ Items' = << >>
    BY <1>5, <2>1, SeenIdle
  <2>3. QED
    BY <1>1, <1>2, <2>1, <2>2 DEF Promise!GoOn, Promise!Gone, Made
<1>6. CASE /\ Usable' /\ Held' = << >> /\ Returns("SUCCESS", None)
           /\ call' = Adding("back", FALSE, FALSE, call.items)
  <2>1. /\ Made' /\ Under' = Whose(FALSE, call.items)
        /\ Items' = Shown(<< >>, "back", FALSE, call.items)
    BY <1>3, <1>4, <1>6, SeenAddingNext DEF ClassInv
  <2>2. Items' = Items /\ Under' \in {Under, "nothing"}
    BY <1>2, <1>3, <2>1, ShownFirst DEF Whose
  <2>3. Under # "nothing"
    BY <1>2
  <2>4. QED
    BY <1>1, <1>2, <1>6, <2>1, <2>2, <2>3
       DEF Promise!GoOn, Promise!Succeeds, Promise!Returns, Promise!Sturdier, Returns, Made,
           Sturdy
<1>7. QED
  BY <1>4, <1>5, <1>6

LEMMA UnwindPromised ==
  ASSUME ClassInv, Unwind
  PROVE  Promise!GoOn
<1>1. ThrowOK /\ ~Usable' /\ call' = Idle /\ last' = <<"goesOn">> /\ ret' = ret
  BY UnwindInv DEF Unwind, GoesOn
<1>2. Under = "others" /\ Under' = "nothing" /\ Items' = << >> /\ ~Made'
  BY <1>1, SeenThrowing, SeenIdle DEF ThrowOK
<1>3. QED
  BY <1>1, <1>2 DEF Promise!GoOn, Promise!Gone, ThrowOK, Made

LEMMA ConcatenateShows ==
  ASSUME ClassInv, NEW end \in {"back", "front"}, NEW own \in BOOLEAN, NEW s,
         own => s \in Seq(0 .. size - 1), ~own => s \in Seq(Value),
         Concatenate(end, own, s)
  PROVE  /\ Made /\ Made' /\ (Sturdy => Sturdy')
         /\ Under = "nothing" /\ Under' = Whose(own, s)
         /\ Items = Held /\ Items' = Shown(Held, end, own, s)
         /\ Held \in Seq(Value)
<1>1. /\ IInv /\ Under = "nothing" /\ Made /\ Usable /\ Items = Held
      /\ UNCHANGED vars /\ call' = Adding(end, own, FALSE, s)
      /\ Held \in Seq(Value)
  BY Calling, HeldType DEF Concatenate
<1>2. IInv' /\ Held' = Held /\ (Sturdy' <=> Sturdy) /\ size' = size /\ Usable'
  BY <1>1, NextInv, HeldKept DEF vars, header, contents
<1>3. ~own => s \in Seq(Value \cup {None})
  BY SeqMonotonic
<1>4. Made' /\ Under' = Whose(own, s) /\ Items' = Shown(Held', end, own, s)
  BY <1>1, <1>2, <1>3, SeenAddingNext
<1>5. QED
  BY <1>1, <1>2, <1>4

LEMMA ConcatenatePromised ==
  ASSUME ClassInv
  PROVE  /\ \A s \in Values : /\ ConcatenateBack(s) => Promise!Concatenate("back", s)
                              /\ ConcatenateFront(s) => Promise!Concatenate("front", s)
         /\ ConcatenateBackOwn => Promise!ConcatenateOwn("back")
         /\ ConcatenateFrontOwn => Promise!ConcatenateOwn("front")
<1>0. IInv
  BY DEF ClassInv
<1>1. ASSUME NEW s \in Values, ConcatenateBack(s) PROVE Promise!Concatenate("back", s)
  <2>1. /\ s \in Seq(Value) /\ Concatenate("back", FALSE, s)
        /\ last' = <<"concatenate", "back", s>>
    BY <1>1, ValuesGiven DEF ConcatenateBack
  <2>2. /\ Made /\ Made' /\ (Sturdy => Sturdy')
        /\ Under = "nothing" /\ Under' = Whose(FALSE, s)
        /\ Items = Held /\ Items' = Shown(Held, "back", FALSE, s)
    BY <2>1, ConcatenateShows
  <2>3. Under' \in {"nothing", "others"} /\ Items' = Held \o s
    BY <2>2, ValuesGiven DEF Shown
  <2>4. QED
    BY <2>1, <2>2, <2>3 DEF Promise!Concatenate, Promise!Called, Promise!Sturdier,
       Promise!Joined, Made, Sturdy
<1>2. ASSUME NEW s \in Values, ConcatenateFront(s) PROVE Promise!Concatenate("front", s)
  <2> DEFINE r == Reverse(s)
  <2>1. /\ r \in Seq(Value) /\ Reverse(r) = s /\ Concatenate("front", FALSE, r)
        /\ last' = <<"concatenate", "front", s>>
    BY <1>2, ValuesGiven, ReverseType, ReverseTwice DEF ConcatenateFront, InFrontOrder
  <2> HIDE DEF r
  <2>2. /\ Made /\ Made' /\ (Sturdy => Sturdy')
        /\ Under = "nothing" /\ Under' = Whose(FALSE, r)
        /\ Items = Held /\ Items' = Shown(Held, "front", FALSE, r)
    BY <2>1, ConcatenateShows
  <2>3. None \notin ToSet(r)
    BY <2>1, ElementOfSeq, LenProperties, StableListsAssumption DEF ToSet
  <2>4. Under' \in {"nothing", "others"} /\ Items' = s \o Held
    BY <2>1, <2>2, <2>3 DEF Shown, Whose
  <2>5. QED
    BY <2>1, <2>2, <2>4 DEF Promise!Concatenate, Promise!Called, Promise!Sturdier,
       Promise!Joined, Made, Sturdy
<1>3. ASSUME ConcatenateBackOwn PROVE Promise!ConcatenateOwn("back")
  <2> DEFINE s == [k \in 1 .. size |-> k - 1]
  <2>1. /\ s \in Seq(0 .. size - 1) /\ Concatenate("back", TRUE, s)
        /\ last' = <<"concatenateOwn", "back">>
    BY <1>0, <1>3, Positions DEF ConcatenateBackOwn
  <2>2. Picked(Held, s) = Held
    <3>1. \A k \in 1 .. size : s[k] + 1 = k
      BY <1>0, TypeFacts
    <3>2. DOMAIN s = 1 .. size
      OBVIOUS
    <3> HIDE DEF s
    <3>3. Picked(Held, s) = [k \in 1 .. size |-> Held[k]]
      BY <3>1, <3>2 DEF Picked
    <3>4. Held = [k \in 1 .. size |-> Held[k]]
      BY DEF Held
    <3>5. QED
      BY <3>3, <3>4
  <2> HIDE DEF s
  <2>3. /\ Made /\ Made' /\ (Sturdy => Sturdy')
        /\ Under = "nothing" /\ Under' = Whose(TRUE, s)
        /\ Items = Held /\ Items' = Shown(Held, "back", TRUE, s)
    BY <2>1, ConcatenateShows
  <2>4. Under' \in {"nothing", "own"} /\ Items' = Held \o Held
    BY <2>2, <2>3 DEF Shown, Whose
  <2>5. QED
    BY <2>1, <2>3, <2>4 DEF Promise!ConcatenateOwn, Promise!Called, Promise!Sturdier,
       Promise!Joined, Made, Sturdy
<1>4. ASSUME ConcatenateFrontOwn PROVE Promise!ConcatenateOwn("front")
  <2> DEFINE s == [k \in 1 .. size |-> size - k]
  <2>1. /\ s \in Seq(0 .. size - 1) /\ Concatenate("front", TRUE, s)
        /\ last' = <<"concatenateOwn", "front">>
    BY <1>0, <1>4, Positions DEF ConcatenateFrontOwn
  <2> HIDE DEF s
  <2>2. /\ Made /\ Made' /\ (Sturdy => Sturdy')
        /\ Under = "nothing" /\ Under' = Whose(TRUE, s)
        /\ Items = Held /\ Items' = Shown(Held, "front", TRUE, s)
    BY <2>1, ConcatenateShows
  <2>3. Under' \in {"nothing", "own"} /\ Items' = Held
    BY <2>2 DEF Shown, Whose
  <2>4. QED
    BY <2>1, <2>2, <2>3 DEF Promise!ConcatenateOwn, Promise!Called, Promise!Sturdier,
       Promise!Joined, Made, Sturdy
<1>5. QED
  BY <1>1, <1>2, <1>3, <1>4

-----------------------------------------------------------------------------
\* Calls that are over at once.
LEMMA Over ==
  ASSUME ClassInv, Returned, UNCHANGED call, Usable
  PROVE  /\ IInv /\ Made /\ Under = "nothing" /\ Items = Held
         /\ Under' = "nothing" /\ (Made' <=> Usable')
         /\ Items' = IF Usable' THEN Held' ELSE << >>
<1>1. call = Idle /\ call' = Idle
  BY DEF Returned
<1>2. QED
  BY <1>1, Calling, SeenIdle

LEMMA BreakPromised ==
  ASSUME ClassInv, Returned, UNCHANGED call, Usable, Corrupt
  PROVE  Promise!Break
<1>1. ~Usable'
  BY DEF Corrupt, Usable
<1>2. QED
  BY <1>1, Over DEF Promise!Break, Promise!Gone, Made

LEMMA UnmovedPromised ==
  ASSUME ClassInv, Returned, UNCHANGED call, Usable, UNCHANGED <<memBlock, header, corrupt>>
  PROVE  /\ Promise!Unmoved
         /\ Made' = Made /\ Under' = Under /\ Items' = Items
<1>1. Held' = Held /\ (Usable' <=> Usable) /\ (Sturdy' <=> Sturdy)
  BY HeldKept
<1>2. Made /\ Made' /\ Under' = Under /\ Items' = Items
  BY <1>1, Over
<1>3. QED
  BY <1>1, <1>2 DEF Promise!Unmoved, Promise!Stays, Promise!Sturdier, Made, Sturdy

LEMMA AddsPromised ==
  ASSUME ClassInv, Returned, UNCHANGED call, Usable, IInv',
         NEW end \in {"back", "front"}, NEW v, FailAllocation \/ Lengthened(end, v)
  PROVE  Promise!Adds(end, v)
<1>1. CASE FailAllocation
  BY <1>1, UnmovedPromised DEF FailAllocation, Returns, Promise!Adds, Promise!OutOfMemory,
     Promise!Returns
<1>2. CASE Lengthened(end, v)
  <2>1. Sturdy => Sturdy'
    <3>1. capacity' >= capacity /\ UNCHANGED reallocationFrontMargin /\ Usable'
      BY <1>2 DEF Lengthened, origin
    <3>2. /\ capacity \in Int /\ reallocationFrontMargin \in Int
          /\ capacity' \in Int
      BY Over, TypeFacts DEF IInv, TypeOK
    <3>3. QED
      BY <3>1, <3>2 DEF Sturdy
  <2>2. Made /\ Made' /\ Under' = Under /\ Items = Held /\ Items' = Held'
    BY <1>2, Over DEF Lengthened
  <2>3. QED
    BY <1>2, <2>1, <2>2 DEF Lengthened, Returns, Promise!Adds, Promise!Stays,
       Promise!Sturdier, Promise!Succeeds, Promise!Returns, Promise!Joined, Made, Sturdy
<1>3. QED
  BY <1>1, <1>2

LEMMA PushPromised ==
  ASSUME ClassInv, NEW end \in {"back", "front"}
  PROVE  /\ \A v \in Value : PushValue(end, v) => Promise!Push(end, v)
         /\ \A i \in 0 .. size - 1 : PushOwn(end, i) => Promise!PushOwn(end, i)
<1>0. IInv
  BY DEF ClassInv
<1>1. ASSUME NEW v \in Value, PushValue(end, v) PROVE Promise!Push(end, v)
  <2>1. /\ Returned /\ UNCHANGED call /\ last' = <<"push", end, v>>
        /\ AppendAt(end, v)
    BY <1>1 DEF PushValue, Says
  <2>2. /\ IInv' /\ Usable
        /\ FailAllocation \/ (Corrupt /\ ~Sturdy) \/ Lengthened(end, v)
    BY <1>0, <2>1, AppendsAt
  <2>3. Promise!Adds(end, v)
    <3>1. CASE FailAllocation \/ Lengthened(end, v)
      BY <2>1, <2>2, <3>1, AddsPromised
    <3>2. CASE Corrupt /\ ~Sturdy
      BY <2>1, <2>2, <3>2, BreakPromised DEF Promise!Adds, Sturdy
    <3>3. QED
      BY <2>2, <3>1, <3>2
  <2>4. QED
    BY <2>1, <2>2, <2>3, Over DEF Promise!Push, Promise!Called
<1>2. ASSUME NEW i \in 0 .. size - 1, PushOwn(end, i) PROVE Promise!PushOwn(end, i)
  <2>1. /\ Returned /\ UNCHANGED call /\ last' = <<"pushOwn", end, i>>
        /\ AppendOwn(end, i)
    BY <1>2 DEF PushOwn, Says
  <2>2. /\ IInv' /\ Usable
        /\ FailAllocation \/ Corrupt \/ Lengthened(end, Held[i + 1])
    BY <1>0, <2>1, OwnAppends
  <2>3. Under = "nothing" /\ Items = Held
    BY <2>1, <2>2, Over
  <2>4. Promise!Adds(end, Held[i + 1]) \/ Promise!Break
    BY <2>1, <2>2, AddsPromised, BreakPromised
  <2>5. QED
    BY <2>1, <2>3, <2>4 DEF Promise!PushOwn, Promise!Called
<1>3. QED
  BY <1>1, <1>2

LEMMA PopPromised ==
  ASSUME ClassInv, NEW destructor \in BOOLEAN
  PROVE  /\ PopBack(destructor) => Promise!Pop("back", destructor)
         /\ PopFront(destructor) => Promise!Pop("front", destructor)
<1> DEFINE Refuses == /\ destructor /\ size = 0
                      /\ \E w \in SizeT : w >= size /\ GetElementIndex(w)
<1>0. IInv
  BY DEF ClassInv
<1>1. ASSUME NEW end, Returned, UNCHANGED call, last' = <<"pop", end, destructor>>,
             Refuses \/ (~(destructor /\ size = 0)
                         /\ Usable /\ ((size = 0 /\ Corrupt)
                               \/ Shortened(IF end = "back" THEN Front(Held) ELSE Tail(Held))))
      PROVE  Promise!Pop(end, destructor)
  <2>1. Held \in Seq(Value) /\ Len(Held) = size /\ size \in Nat /\ (Held = << >> <=> size = 0)
    <3>1. Held \in Seq(Value) /\ Len(Held) = size /\ size \in Nat
      BY <1>0, HeldType, TypeFacts
    <3>2. QED
      BY <3>1, EmptySeq
  <2>2. Usable
    BY <1>1 DEF GetElementIndex, Answers
  <2>3. Promise!Called(<<"pop", end, destructor>>) /\ Items = Held /\ Made
    BY <1>1, <2>2, Over DEF Promise!Called
  <2>4. CASE Refuses
    <3>1. /\ ret' = [code |-> "INDEX_OUT_OF_BOUNDS", out |-> None]
          /\ UNCHANGED <<memBlock, header, corrupt>>
      BY <2>4 DEF GetElementIndex, Answers, Returns
    <3>2. Promise!Unmoved
      BY <1>1, <2>2, <3>1, UnmovedPromised
    <3>3. QED
      BY <2>1, <2>3, <2>4, <3>1, <3>2 DEF Promise!Pop, Promise!Returns
  <2>5. CASE ~(destructor /\ size = 0) /\ size = 0 /\ Corrupt
    <3>1. Promise!Break
      BY <1>1, <2>2, <2>5, BreakPromised
    <3>2. QED
      BY <2>1, <2>3, <2>5, <3>1 DEF Promise!Pop
  <2>6. CASE Shortened(IF end = "back" THEN Front(Held) ELSE Tail(Held))
    <3>1. Usable' /\ size > 0 /\ (Sturdy => Sturdy')
          /\ ret' = [code |-> "SUCCESS", out |-> None]
          /\ Held' = IF end = "back" THEN Front(Held) ELSE Tail(Held)
      BY <2>6 DEF Shortened, Sturdy, origin, Returns
    <3>2. Under' = Under /\ Made' /\ Items' = Held'
      BY <1>1, <2>2, <3>1, Over
    <3>3. QED
      BY <2>1, <2>3, <3>1, <3>2 DEF Promise!Pop, Promise!Stays, Promise!Sturdier,
         Promise!Succeeds, Promise!Returns, Promise!Front, Front, Made, Sturdy
  <2>7. QED
    BY <1>1, <2>4, <2>5, <2>6
<1>2. /\ Minus(size, 1) \in SizeT /\ 0 \in SizeT
      /\ size = 0 => Minus(size, 1) >= size /\ 0 >= size
  BY <1>0, Indices, TypeFacts
<1>3. ASSUME PopBack(destructor) PROVE Promise!Pop("back", destructor)
  <2>1. /\ Returned /\ UNCHANGED call /\ last' = <<"pop", "back", destructor>>
        /\ IF destructor /\ size = 0 THEN GetElementIndex(Minus(size, 1)) ELSE RemoveBack
    BY <1>3 DEF PopBack, Says
  <2>2. RemoveBack => Usable /\ ((size = 0 /\ Corrupt) \/ Shortened(Front(Held)))
    BY <1>0, Removes
  <2>3. QED
    BY <1>1, <1>2, <2>1, <2>2
<1>4. ASSUME PopFront(destructor) PROVE Promise!Pop("front", destructor)
  <2>1. /\ Returned /\ UNCHANGED call /\ last' = <<"pop", "front", destructor>>
        /\ IF destructor /\ size = 0 THEN GetElementIndex(0) ELSE RemoveFront
    BY <1>4 DEF PopFront, Says
  <2>2. RemoveFront => Usable /\ ((size = 0 /\ Corrupt) \/ Shortened(Tail(Held)))
    BY <1>0, Removes
  <2>3. QED
    BY <1>1, <1>2, <2>1, <2>2
<1>5. QED
  BY <1>3, <1>4

LEMMA EmptiedPromised ==
  ASSUME ClassInv
  PROVE  /\ DestroyList => Promise!Destroy
         /\ ClearList => Promise!Clear
<1>1. ASSUME DestroyList PROVE Promise!Destroy
  <2>1. /\ Returned /\ UNCHANGED call /\ last' = <<"destroy">>
        /\ Usable /\ ~Usable' /\ Returns("SUCCESS", None)
    BY <1>1 DEF DestroyList, Says, Destroy, Gone, Usable
  <2>2. QED
    BY <2>1, Over DEF Promise!Destroy, Promise!Called, Promise!Gone, Promise!Succeeds,
       Promise!Returns, Returns, Made
<1>2. ASSUME ClearList PROVE Promise!Clear
  <2>1. /\ Returned /\ UNCHANGED call /\ last' = <<"clear">>
        /\ Usable /\ Usable' /\ Returns("SUCCESS", None) /\ Held' = << >>
        /\ (Sturdy => Sturdy')
    BY <1>2 DEF ClearList, Says, Clear, Usable, Held, Sturdy, layout, origin
  <2>2. QED
    BY <2>1, Over DEF Promise!Clear, Promise!Called, Promise!Stays, Promise!Sturdier,
       Promise!Succeeds, Promise!Returns, Returns, Made, Sturdy
<1>3. QED
  BY <1>1, <1>2

LEMMA RoomPromised ==
  ASSUME ClassInv
  PROVE  /\ \A n \in Asked : ReserveRoom(n) => Promise!Reserve(n)
         /\ ShrinkRoom => Promise!ShrinkToFit
<1>0. IInv /\ Len(Held) = size /\ (memBlock => reallocationFrontMargin = DefaultMargin)
  BY HeldType DEF ClassInv
\* Neither moves an element.
<1>1. ASSUME Returned, UNCHANGED call, Usable,
             FailAllocation \/ Relocated \/ UNCHANGED <<memBlock, header, corrupt>>
      PROVE  /\ Made' = Made /\ Under' = Under /\ Items' = Items
             /\ Made /\ Under = "nothing" /\ Items = Held
  <2>1. Usable' /\ Held' = Held
    BY <1>1, HeldKept DEF FailAllocation, Relocated
  <2>2. QED
    BY <1>1, <2>1, Over
<1>2. FailAllocation => ret' = [code |-> "ALOCATION_FAILED", out |-> None]
  BY DEF FailAllocation, Returns
<1>3. Relocated => ret' = [code |-> "SUCCESS", out |-> None]
  BY DEF Relocated, Returns
<1>4. ASSUME NEW n \in Asked, ReserveRoom(n) PROVE Promise!Reserve(n)
  <2>1. /\ Returned /\ UNCHANGED call /\ last' = <<"reserve", n>> /\ Reserve(n)
    BY <1>4 DEF ReserveRoom, Says
  <2>2. /\ Usable
        /\ \/ /\ n < size
              /\ Returns("CAPACITY_TOO_SMALL", None)
              /\ UNCHANGED <<memBlock, header, corrupt>>
           \/ n >= size /\ (FailAllocation \/ Relocated)
           \/ n < size + reallocationFrontMargin /\ Corrupt
    BY <1>0, <2>1, Reserves
  <2>3. Made /\ Items = Held /\ Promise!Called(<<"reserve", n>>)
    BY <2>1, <2>2, Over DEF Promise!Called
  <2>4. CASE n >= size /\ (FailAllocation \/ Relocated)
    BY <1>0, <1>1, <1>2, <1>3, <2>1, <2>2, <2>3, <2>4
       DEF Promise!Reserve, Promise!Succeeds, Promise!OutOfMemory, Promise!Returns, Made
  <2>5. CASE /\ n < size
             /\ Returns("CAPACITY_TOO_SMALL", None)
             /\ UNCHANGED <<memBlock, header, corrupt>>
    BY <1>0, <1>1, <2>1, <2>2, <2>3, <2>5
       DEF Promise!Reserve, Promise!Returns, Returns, Made
  <2>6. CASE n < size + reallocationFrontMargin /\ Corrupt
    <3>1. Promise!Break /\ reallocationFrontMargin = DefaultMargin
      BY <1>0, <2>1, <2>2, <2>6, BreakPromised DEF Usable
    <3>2. QED
      BY <1>0, <2>3, <2>6, <3>1 DEF Promise!Reserve, Made
  <2>7. QED
    BY <2>2, <2>4, <2>5, <2>6
<1>5. ASSUME ShrinkRoom PROVE Promise!ShrinkToFit
  <2>1. /\ Returned /\ UNCHANGED call /\ last' = <<"shrinkToFit">> /\ ShrinkToFit
    BY <1>5 DEF ShrinkRoom, Says
  <2>2. Usable /\ (FailAllocation \/ Relocated)
    BY <1>0, <2>1, Shrinks
  <2>3. QED
    BY <1>1, <1>2, <1>3, <2>1, <2>2
       DEF Promise!ShrinkToFit, Promise!Called, Promise!Succeeds, Promise!OutOfMemory,
           Promise!Returns, Made
<1>6. QED
  BY <1>4, <1>5

LEMMA LookPromised ==
  ASSUME ClassInv
  PROVE  /\ \A i \in Asked : At(i) => Promise!At(i)
         /\ Back => Promise!Back
         /\ FrontIRef => Promise!EndIRef("front")
         /\ BackIRef => Promise!EndIRef("back")
<1>0. /\ IInv /\ Held \in Seq(Value) /\ Len(Held) = size /\ size \in Nat
      /\ \A i \in 0 .. size - 1 : Held[i + 1] = data[front + i]
      /\ Held = << >> <=> size = 0
      /\ front \in Int
  <2>1. /\ IInv /\ Held \in Seq(Value) /\ Len(Held) = size /\ size \in Nat /\ front \in Int
        /\ \A i \in 0 .. size - 1 : Held[i + 1] = data[front + i]
    BY HeldType, TypeFacts DEF ClassInv
  <2>2. Held = << >> <=> size = 0
    BY <2>1, EmptySeq
  <2>3. QED
    BY <2>1, <2>2
<1>1. /\ Asked \subseteq SizeT /\ 0 \in SizeT /\ Minus(size, 1) \in SizeT
      /\ size = 0 => Minus(size, 1) >= size
      /\ size > 0 => Minus(size, 1) = size - 1
  BY <1>0, Indices
<1>2. ASSUME Returned, UNCHANGED call, NEW code, NEW out, Answers(code, out)
      PROVE  /\ Promise!Unmoved /\ Under = "nothing" /\ Items = Held
             /\ ret' = [code |-> code, out |-> out]
  <2>1. Usable /\ ret' = [code |-> code, out |-> out] /\ UNCHANGED <<memBlock, header, corrupt>>
    BY <1>2 DEF Answers, Returns
  <2>2. QED
    BY <1>2, <2>1, Over, UnmovedPromised
<1>3. ASSUME Returned, UNCHANGED call, NEW w \in SizeT, GetElementIndex(w)
      PROVE  /\ Promise!Unmoved /\ Under = "nothing" /\ Items = Held
             /\ ret' = IF w < size THEN [code |-> "SUCCESS", out |-> Held[w + 1]]
                       ELSE [code |-> "INDEX_OUT_OF_BOUNDS", out |-> None]
  <2>1. w \in Nat
    BY DEF SizeT
  <2>2. CASE w >= size
    <3>1. Answers("INDEX_OUT_OF_BOUNDS", None) /\ ~(w < size)
      BY <1>0, <1>3, <2>1, <2>2 DEF GetElementIndex
    <3>2. QED
      BY <1>2, <1>3, <3>1
  <2>3. CASE ~(w >= size)
    <3>1. Answers("SUCCESS", data[w + front])
      BY <1>3, <2>3 DEF GetElementIndex
    <3>2. w < size /\ Held[w + 1] = data[w + front]
      <4>1. w \in 0 .. size - 1 /\ w < size /\ front + w = w + front
        BY <1>0, <2>1, <2>3
      <4>2. QED
        BY <1>0, <4>1
    <3>3. QED
      BY <1>2, <1>3, <3>1, <3>2
  <2>4. QED
    BY <2>2, <2>3
<1>4. ASSUME NEW i \in Asked, At(i) PROVE Promise!At(i)
  <2>1. /\ Returned /\ UNCHANGED call /\ last' = <<"at", i>> /\ GetElementIndex(i)
    BY <1>4 DEF At, Says
  <2>2. QED
    BY <1>0, <1>1, <1>3, <2>1
       DEF Promise!At, Promise!Called, Promise!OrOutOfBounds, Promise!Returns
<1>5. ASSUME Back PROVE Promise!Back
  <2>1. /\ Returned /\ UNCHANGED call /\ last' = <<"back">>
        /\ GetElementIndex(Minus(size, 1))
    BY <1>5 DEF Back, Says
  <2>2. /\ Promise!Unmoved /\ Promise!Called(<<"back">>) /\ Items = Held
        /\ ret' = IF Minus(size, 1) < size
                  THEN [code |-> "SUCCESS", out |-> Held[Minus(size, 1) + 1]]
                  ELSE [code |-> "INDEX_OUT_OF_BOUNDS", out |-> None]
    BY <1>1, <1>3, <2>1 DEF Promise!Called
  <2>3. CASE size = 0
    <3>1. ~(Minus(size, 1) < size)
      BY <1>0, <1>1, <2>3 DEF SizeT
    <3>2. QED
      BY <1>0, <2>2, <2>3, <3>1 DEF Promise!Back, Promise!OrOutOfBounds, Promise!Returns
  <2>4. CASE size # 0
    <3>1. Minus(size, 1) < size /\ Minus(size, 1) + 1 = size
      BY <1>0, <1>1, <2>4
    <3>2. QED
      BY <1>0, <2>2, <2>4, <3>1
         DEF Promise!Back, Promise!OrOutOfBounds, Promise!Returns, Promise!Last
  <2>5. QED
    BY <2>3, <2>4
<1>6. ASSUME NEW end, Returned, UNCHANGED call, last' = <<"iRef", end>>,
             NEW w \in SizeT, size = 0 => w >= size, size > 0 => w < size, IndexToIRef(w)
      PROVE  Promise!EndIRef(end)
  <2>1. CASE size = 0
    <3>1. Answers("INDEX_OUT_OF_BOUNDS", None)
      BY <1>6, <2>1 DEF IndexToIRef
    <3>2. QED
      BY <1>0, <1>1, <1>2, <1>6, <2>1, <3>1
         DEF Promise!EndIRef, Promise!Called, Promise!OrOutOfBounds, Promise!Returns
  <2>2. CASE size # 0
    <3>1. Answers("SUCCESS", IRefAt(w))
      <4>1. w < size /\ w \in Nat
        BY <1>0, <1>6, <2>2 DEF SizeT
      <4>2. ~(w >= size)
        BY <1>0, <4>1
      <4>3. QED
        BY <1>6, <4>2 DEF IndexToIRef
    <3>2. IRefAt(w) \in SizeT
      BY <1>0, <1>6, TypeFacts, CapacityType, SumType DEF IRefAt
    <3>3. QED
      BY <1>0, <1>2, <1>6, <2>2, <3>1, <3>2
         DEF Promise!EndIRef, Promise!Called, Promise!OrOutOfBounds, Promise!Returns
  <2>3. QED
    BY <2>1, <2>2
<1>7. FrontIRef => Promise!EndIRef("front")
  <2>1. size = 0 => 0 >= size
    OBVIOUS
  <2>2. QED
    BY <1>0, <1>1, <1>6, <2>1 DEF FrontIRef, Says
<1>8. BackIRef => Promise!EndIRef("back")
  <2>1. size > 0 => Minus(size, 1) < size
    BY <1>0, <1>1
  <2>2. QED
    BY <1>0, <1>1, <1>6, <2>1 DEF BackIRef, Says
<1>9. QED
  BY <1>4, <1>5, <1>7, <1>8

-----------------------------------------------------------------------------
LEMMA CCallPromised ==
  ASSUME ClassInv, CCall
  PROVE  Promise!Next
<1>0. Promise!Ends = {"back", "front"}
  BY DEF Promise!Ends
<1>1. ASSUME NEW end \in {"back", "front"}, NEW v \in Value, PushValue(end, v)
      PROVE  Promise!Next
  BY <1>0, <1>1, PushPromised DEF Promise!Next
<1>2. ASSUME NEW end \in {"back", "front"}, NEW i \in 0 .. size - 1, PushOwn(end, i)
      PROVE  Promise!Next
  <2>1. Promise!PushOwn(end, i)
    BY <1>2, PushPromised
  <2>2. Items = Held /\ Len(Held) = size
    BY <1>2, Over, HeldType DEF PushOwn, Says, ClassInv
  <2>3. QED
    BY <1>0, <2>1, <2>2 DEF Promise!Next
<1>3. CASE DestroyList \/ ClearList
  BY <1>3, EmptiedPromised DEF Promise!Next
<1>4. CASE ShrinkRoom \/ \E n \in Asked : ReserveRoom(n)
  BY <1>4, RoomPromised DEF Promise!Next
<1>5. ASSUME NEW destructor \in BOOLEAN, PopBack(destructor) \/ PopFront(destructor)
      PROVE  Promise!Next
  BY <1>0, <1>5, PopPromised DEF Promise!Next
<1>6. CASE (\E n \in Asked : At(n)) \/ Back
  BY <1>6, LookPromised DEF Promise!Next
<1>7. CASE FrontIRef \/ BackIRef
  BY <1>0, <1>7, LookPromised DEF Promise!Next
<1>8. QED
  BY <1>1, <1>2, <1>3, <1>4, <1>5, <1>6, <1>7 DEF CCall

LEMMA ClassNextPromised == ClassInv /\ [ClassNext]_classVars => [Promise!Next]_(Promise!vars)
<1> SUFFICES ASSUME ClassInv, [ClassNext]_classVars PROVE [Promise!Next]_(Promise!vars)
  OBVIOUS
<1>0. /\ Promise!Ends = {"back", "front"}
      /\ MaxSize \in Nat /\ 0 .. MaxSize \subseteq Asked
  BY StableListsAssumption, StableListAssumption DEF Promise!Ends, Asked
<1>1. CASE Constructed
  BY <1>1, ConstructPromised DEF Constructed, Promise!Next
<1>2. CASE Assigned
  <2>1. ASSUME NEW n \in Nat, NEW s \in Values, AssignWith(n, s) PROVE Promise!Next
    BY <2>1, AssignPromised, ValuesGiven DEF Given, Promise!Next
  <2>2. ASSUME NEW n \in 0 .. MaxSize, AssignWith(n, [i \in 1 .. n |-> None])
        PROVE  Promise!Next
    <3>1. n \in Nat /\ n \in Asked
      BY <1>0
    <3>2. Promise!Assign([i \in 1 .. n |-> None])
      BY <2>2, <3>1, Nones, AssignPromised
    <3>3. QED
      BY <3>1, <3>2 DEF Promise!Next
  <2>3. QED
    BY <1>2, <2>1, <2>2 DEF Assigned
<1>3. CASE Concatenated
  BY <1>0, <1>3, ConcatenatePromised DEF Concatenated, Promise!Next
<1>4. CASE CCall
  BY <1>4, CCallPromised
<1>5. ASSUME NEW n \in 0 .. MaxSize, ConstructCount(n) PROVE Promise!Next
  <2>1. n \in Nat /\ n \in Asked
    BY <1>0
  <2>2. Promise!ConstructCount(n)
    BY <1>5, <2>1, CountPromised
  <2>3. QED
    BY <2>1, <2>2 DEF Promise!Next
<1>6. CASE Reconstruct \/ Unwind \/ AddNext
  BY <1>6, ReconstructPromised, UnwindPromised, AddNextPromised DEF Promise!Next
<1>7. CASE UNCHANGED classVars
  <2>1. /\ UNCHANGED <<memBlock, header, corrupt>>
        /\ UNCHANGED <<data, front, size, call, last, ret, capacity, reallocationFrontMargin>>
    BY <1>7 DEF classVars, vars, header, layout, contents, origin
  <2>2. UNCHANGED <<Held, Missing, Under>>
    BY <2>1 DEF Held, Missing, Under
  <2>3. Usable' = Usable
    BY <2>1 DEF Usable
  <2>4. UNCHANGED Items
    BY <2>1, <2>2, <2>3 DEF Items
  <2>5. /\ (Usable \/ call.stage = "construct")' = (Usable \/ call.stage = "construct")
        /\ (Usable /\ capacity > reallocationFrontMargin)'
             = (Usable /\ capacity > reallocationFrontMargin)
    BY <2>1, <2>3
  <2>6. QED
    BY <2>1, <2>2, <2>4, <2>5 DEF Promise!vars
<1>8. QED
  BY <1>1, <1>2, <1>3, <1>4, <1>5, <1>6, <1>7, Calls

LEMMA ClassInitPromised == ClassInit => Promise!Init
<1> SUFFICES ASSUME ClassInit PROVE Promise!Init
  OBVIOUS
<1>1. call = Idle /\ ~Usable /\ last = << >> /\ ret = [code |-> "SUCCESS", out |-> None]
  BY DEF ClassInit, Init, Usable
<1>2. Under = "nothing" /\ ~Made /\ Items = << >>
  BY <1>1, SeenIdle
<1>3. QED
  BY <1>1, <1>2 DEF Promise!Init, Made

(***************************************************************************)
(* Constructors, assignments, concatenations and pushes give the list the  *)
(* elements they were given, in order, and take none away when memory runs *)
(* out; what else the code does to a list is what ValueList names, and     *)
(* nothing more.                                                           *)
(***************************************************************************)
THEOREM ValuesKept == ClassSpec => ValueListSpec
<1>1. QED
  BY ClassInvariance, ClassInitPromised, ClassNextPromised, PTL
     DEF ClassSpec, ValueListSpec, Promise!Spec

=============================================================================
