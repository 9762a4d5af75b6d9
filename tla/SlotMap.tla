------------------------------ MODULE SlotMap ------------------------------
(***************************************************************************)
(* src/slot_map: a generational slot map.  Elements lie densely in a data  *)
(* array; a reference names a lookup word, which holds the position of the *)
(* element and the word's generation; removed lookups form a free list     *)
(* threaded through the index half of their own words; a reverse lookup    *)
(* says which lookup word a data position belongs to.                       *)
(*                                                                         *)
(* The 64-bit lookup word is a record of its 40-bit index and its 24-bit   *)
(* generation (slot_map.c:3-5).  Memory the code has not written is        *)
(* outside the domain of the array, so that reading it is visible.         *)
(***************************************************************************)
EXTENDS Integers, Sequences

CONSTANTS
  Value,            \* the elements a client stores
  None,             \* the absence of an out-parameter
  DefaultCapacity,  \* FSDS_SLOT_MAP_DEFAULT_CAPACITY
  MaxCapacity,      \* the largest capacity aligned_alloc can be asked for
  GenMod            \* number of generations, 2^24 in the code

ASSUME SlotMapAssumption ==
  /\ MaxCapacity \in Nat
  /\ DefaultCapacity \in 1 .. MaxCapacity
  /\ GenMod \in Nat \ {0}

VARIABLES
  memBlock,    \* memBlock # nullptr
  size,
  capacity,
  nextLookup,  \* head of the free list
  lookup,      \* the lookup words written so far
  reverse,     \* reverseLookupList
  data,        \* dataList
  ret,         \* the last call's error code and out-parameter
  live,        \* history: what each reference in force was issued for
  retired,     \* history: removed references that the client still holds
  free         \* history: the removed lookups, most recent last

header == <<size, capacity, nextLookup, lookup, reverse, data>>
history == <<live, retired, free>>
vars == <<memBlock, header, ret, history>>

-----------------------------------------------------------------------------
NPOS == MaxCapacity       \* an index no lookup word has
Generation == 0 .. GenMod - 1
Word == [index : 0 .. NPOS, gen : Generation]
Reference == [index : 0 .. NPOS, gen : Generation]

\* What a client holds before its first add: no map has such a lookup.
NullReference == [index |-> NPOS, gen |-> 0]
Held == DOMAIN live \cup retired \cup {NullReference}

Code == {"SUCCESS", "ALOCATION_FAILED", "CAPACITY_TOO_SMALL",
         "INDEX_OUT_OF_BOUNDS", "INCORRECT_GENERATION"}
Returns(code, out) == ret' = [code |-> code, out |-> out]

NoElements == [r \in {} |-> None]
-----------------------------------------------------------------------------
(***************************************************************************)
(* Memory.                                                                 *)
(***************************************************************************)

\* aligned_alloc may fail whenever it likes, and must past MaxCapacity.
CanAllocate(n) == n <= MaxCapacity

\* No elements and no free list; the client's references end with them.
EmptyMap == /\ size' = 0
            /\ nextLookup' = NPOS
            /\ reverse' = [d \in {} |-> NPOS]
            /\ data' = [d \in {} |-> None]
            /\ live' = NoElements
            /\ retired' = {}
            /\ free' = << >>

NoBlock == /\ memBlock' = FALSE
           /\ capacity' = 0
           /\ lookup' = [i \in {} |-> NullReference]
           /\ EmptyMap

\* The pointer to the old block is overwritten before the result is tested:
\* a failed reallocation leaves the map without a block.
FailAllocation == NoBlock /\ Returns("ALOCATION_FAILED", None)

ConstructSize(initialCapacity) ==
  LET n == IF initialCapacity = 0 THEN DefaultCapacity ELSE initialCapacity
  IN  /\ ~memBlock
      /\ \/ /\ CanAllocate(n)
            /\ memBlock' = TRUE
            /\ capacity' = n
            /\ lookup' = [i \in {} |-> NullReference]
            /\ EmptyMap
            /\ Returns("SUCCESS", None)
         \/ FailAllocation

Destroy == memBlock /\ NoBlock /\ Returns("SUCCESS", None)

Reserve(newCapacity) ==
  /\ memBlock
  /\ \/ /\ newCapacity < capacity
        /\ Returns("CAPACITY_TOO_SMALL", None)
        /\ UNCHANGED <<memBlock, header, history>>
     \/ /\ newCapacity >= capacity
        /\ CanAllocate(newCapacity)
        /\ capacity' = newCapacity
        /\ Returns("SUCCESS", None)
        /\ UNCHANGED <<memBlock, size, nextLookup, lookup, reverse, data,
                       history>>
     \/ /\ newCapacity >= capacity
        /\ FailAllocation

\* slot_map.c:113-117 does nothing.
ShrinkToFit == /\ memBlock
               /\ Returns("SUCCESS", None)
               /\ UNCHANGED <<memBlock, header, history>>

(***************************************************************************)
(* The lookup words keep their generations, and nothing tells a reference  *)
(* from before the clear: the client must forget those.                    *)
(***************************************************************************)
Clear == /\ memBlock
         /\ EmptyMap
         /\ Returns("SUCCESS", None)
         /\ UNCHANGED <<memBlock, capacity, lookup>>
-----------------------------------------------------------------------------
(***************************************************************************)
(* Adding.                                                                 *)
(***************************************************************************)

\* The generation a popped lookup already has, or zero for one taken from
\* the end of the lookups in use.
TakenLookup == IF nextLookup # NPOS THEN nextLookup ELSE size
TakenGen_Zero == 0
TakenGen == IF nextLookup # NPOS THEN lookup[nextLookup].gen ELSE 0

\* The element goes to the end of the data, whatever lookup it gets.
Place(v) ==
  LET r == [index |-> TakenLookup, gen |-> TakenGen]
  IN  /\ nextLookup' = IF nextLookup # NPOS
                       THEN lookup[nextLookup].index ELSE nextLookup
      /\ free' = IF nextLookup # NPOS
                 THEN SubSeq(free, 1, Len(free) - 1) ELSE free
      /\ lookup' = [i \in DOMAIN lookup \cup {TakenLookup} |->
                      IF i = TakenLookup
                      THEN [index |-> size, gen |-> TakenGen]
                      ELSE lookup[i]]
      /\ reverse' = [d \in 0 .. size |->
                       IF d = size THEN TakenLookup ELSE reverse[d]]
      /\ data' = [d \in 0 .. size |-> IF d = size THEN v ELSE data[d]]
      /\ size' = size + 1
      /\ Returns("SUCCESS", r)
      /\ live' = [x \in DOMAIN live \cup {r} |-> IF x = r THEN v ELSE live[x]]
      /\ retired' = retired

AddInPlace_Full(v) == /\ memBlock
                      /\ size <= capacity
                      /\ Place(v)
                      /\ UNCHANGED <<memBlock, capacity>>
AddInPlace(v) == /\ memBlock
                 /\ size < capacity
                 /\ Place(v)
                 /\ UNCHANGED <<memBlock, capacity>>

AddGrowing(v) == /\ memBlock
                 /\ size >= capacity
                 /\ \/ /\ CanAllocate(capacity * 2)
                       /\ capacity' = capacity * 2
                       /\ memBlock' = memBlock
                       /\ Place(v)
                    \/ FailAllocation
-----------------------------------------------------------------------------
(***************************************************************************)
(* The two tests that remove and get share.                                *)
(***************************************************************************)
OutOfBounds(ref) == ref.index >= capacity
WrongGeneration(ref) == lookup[ref.index].gen # ref.gen
Accepted(ref) == ~OutOfBounds(ref) /\ ~WrongGeneration(ref)

Refuse(ref) == /\ memBlock
               /\ \/ /\ OutOfBounds(ref)
                     /\ Returns("INDEX_OUT_OF_BOUNDS", None)
                  \/ /\ ~OutOfBounds(ref)
                     /\ WrongGeneration(ref)
                     /\ Returns("INCORRECT_GENERATION", None)
               /\ UNCHANGED <<memBlock, header, history>>

NextGen_NoWrap(g) == g + 1
NextGen(g) == (g + 1) % GenMod

Last == size - 1

Freed_SameGen(i) == [index |-> nextLookup, gen |-> lookup[i].gen]
Freed_Unlinked(i) == [lookup[i] EXCEPT !.gen = NextGen(@)]
\* The word of a lookup just removed: linked before the old head.
Freed(i) == [index |-> nextLookup, gen |-> NextGen(lookup[i].gen)]

\* The lookup of the last element is redirected to the hole it now fills.
LookupAfter(i, hole) ==
  LET unlinked == [lookup EXCEPT ![i] = Freed(i)]
  IN  IF hole # Last
      THEN [unlinked EXCEPT ![reverse[Last]].index = hole]
      ELSE unlinked

\* An array of the first size positions once its last entry fills the hole.
Fill_Shift(array, hole) ==
  [d \in 0 .. Last - 1 |-> IF d >= hole THEN array[d + 1] ELSE array[d]]
Fill(array, hole) ==
  [d \in 0 .. Last - 1 |-> IF d = hole THEN array[Last] ELSE array[d]]

(***************************************************************************)
(* Removal frees the lookup and moves the last element into the hole.  The *)
(* history drops a reference whose generation the counter has just come    *)
(* back to: GenMod removals of one lookup are the reach of the protection. *)
(***************************************************************************)
Remove(ref) ==
  LET i == ref.index
      hole == lookup[i].index
      revived == [index |-> i, gen |-> NextGen(lookup[i].gen)]
  IN  /\ memBlock
      /\ Accepted(ref)
      /\ nextLookup' = i
      /\ free' = Append(free, i)
      /\ lookup' = LookupAfter(i, hole)
      /\ reverse' = Fill(reverse, hole)
      /\ data' = Fill(data, hole)
      /\ size' = Last
      /\ live' = [x \in DOMAIN live \ {ref} |-> live[x]]
      /\ retired' = (retired \cup {ref}) \ {revived}
      /\ Returns("SUCCESS", None)
      /\ UNCHANGED <<memBlock, capacity>>

Get(ref) == /\ memBlock
            /\ Accepted(ref)
            /\ Returns("SUCCESS", data[lookup[ref.index].index])
            /\ UNCHANGED <<memBlock, header, history>>
-----------------------------------------------------------------------------
Init == /\ memBlock = FALSE
        /\ size = 0
        /\ capacity = 0
        /\ nextLookup = NPOS
        /\ lookup = [i \in {} |-> NullReference]
        /\ reverse = [d \in {} |-> NPOS]
        /\ data = [d \in {} |-> None]
        /\ ret = [code |-> "SUCCESS", out |-> None]
        /\ live = NoElements
        /\ retired = {}
        /\ free = << >>

\* The capacities a client asks for: one more than can be had is enough.
AskedCapacity == 0 .. MaxCapacity + 1

Next == \/ \E n \in AskedCapacity : ConstructSize(n) \/ Reserve(n)
        \/ Destroy
        \/ ShrinkToFit
        \/ Clear
        \/ \E v \in Value : AddInPlace(v) \/ AddGrowing(v)
        \/ \E ref \in Held : Remove(ref) \/ Get(ref) \/ Refuse(ref)

Spec == Init /\ [][Next]_vars
-----------------------------------------------------------------------------
(***************************************************************************)
(* Invariants.                                                             *)
(***************************************************************************)

\* The lookups that have been in use since the construction or the last
\* clear are the first Used ones.
Used == size + Len(free)

\* Type and bounds: the arrays stay inside the memory block.
TypeOK ==
  /\ memBlock \in BOOLEAN
  /\ size \in Nat
  /\ capacity \in 0 .. MaxCapacity
  /\ nextLookup \in 0 .. NPOS
  /\ lookup \in [DOMAIN lookup -> Word]
  /\ DOMAIN lookup \subseteq 0 .. capacity - 1
  /\ reverse \in [0 .. size - 1 -> 0 .. MaxCapacity - 1]
  /\ data \in [0 .. size - 1 -> Value]
  /\ ret \in [code : Code, out : Value \cup Reference \cup {None}]
  /\ live \in [DOMAIN live -> Value]
  /\ DOMAIN live \subseteq Reference
  /\ retired \subseteq Reference
  /\ free \in Seq(0 .. MaxCapacity - 1)

\* Every lookup in use is the word of one element or on the free list, and
\* all of them fit in the lookup array (slot_map.c:144-145), which doubling
\* can always make larger.
LookupsAccounted ==
  /\ memBlock => capacity > 0
  /\ Used <= capacity
  /\ 0 .. Used - 1 \subseteq DOMAIN lookup
  /\ \A d \in 0 .. size - 1 : reverse[d] < Used
  /\ \A k \in 1 .. Len(free) : free[k] < Used
  /\ \A d \in 0 .. size - 1, k \in 1 .. Len(free) : reverse[d] # free[k]

\* reverseLookupList inverts the lookup words, whatever was moved.
ReverseInverts ==
  \A d \in 0 .. size - 1 : lookup[reverse[d]].index = d

\* The chain of next fields spells the free list and ends in NPOS: no
\* lookup is lost from it, none is on it twice.
FreeListIntact ==
  /\ nextLookup = IF free = << >> THEN NPOS ELSE free[Len(free)]
  /\ \A k \in 1 .. Len(free) :
       lookup[free[k]].index = IF k = 1 THEN NPOS ELSE free[k - 1]
  /\ \A j, k \in 1 .. Len(free) : free[j] = free[k] => j = k

\* A reference in force finds the element it was issued for, after any
\* removals of others, reuse of lookups and reallocations.
LiveResolve ==
  \A ref \in DOMAIN live :
    /\ ref.index < Used
    /\ Accepted(ref)
    /\ lookup[ref.index].index < size
    /\ reverse[lookup[ref.index].index] = ref.index
    /\ data[lookup[ref.index].index] = live[ref]

\* A reference to a removed element is refused by remove and get, until its
\* lookup has been removed GenMod times over (slot_map.c:175).
RetiredRefused ==
  \A ref \in retired :
    /\ ref.index < Used
    /\ WrongGeneration(ref)

\* What a removal relies on: all elements have a reference in force.
ElementsHeld ==
  \A d \in 0 .. size - 1 :
    [index |-> reverse[d], gen |-> lookup[reverse[d]].gen] \in DOMAIN live

IInv == /\ TypeOK
        /\ LookupsAccounted
        /\ ReverseInverts
        /\ FreeListIntact
        /\ LiveResolve
        /\ RetiredRefused
        /\ ElementsHeld

(***************************************************************************)
(* Every behaviour is one of the handle map's.                             *)
(***************************************************************************)
Handles == INSTANCE HandleMap WITH usable <- memBlock
HandleMapSpec == Handles!Spec
=============================================================================
