-------------------------------- MODULE KTree --------------------------------
(***************************************************************************)
(* k_tree/k_tree.c: what the breadth-first and the depth-first tree have   *)
(* in common, which is all but the order of the elements.  A node has an   *)
(* index; active is the set of the bits set in the bitmap, data what lies  *)
(* at each index (None where nothing is in use).                           *)
(*                                                                         *)
(* size_t has W values.  elementSize is not zero, and the byte counts that *)
(* depend on it are taken to overflow no earlier than the element count.   *)
(***************************************************************************)
EXTENDS Integers, Sequences, FiniteSets

CONSTANTS
  Value,         \* the elements a client stores
  None,          \* nothing
  MaxArity,      \* bound: the largest k asked for
  MaxDepth,      \* bound: the largest depth asked for
  MaxElements,   \* the most elements aligned_alloc has room for
  W,             \* the number of values of size_t, 2^64 in the code
  WordBits       \* bits in a word of the bitmap, 64 in the code

ASSUME KTreeAssumption ==
  /\ None \notin Value
  /\ MaxArity \in Nat /\ MaxDepth \in Nat
  /\ MaxElements \in Nat /\ W \in Nat /\ MaxElements < W
  /\ WordBits \in Nat \ {0}

VARIABLES memBlock, size, capacity, k, depth, active, data, ret

header == <<size, capacity, k, depth>>
vars == <<memBlock, header, active, data, ret>>

-----------------------------------------------------------------------------
Returns(code, out) == ret' = [code |-> code, out |-> out]
Answers(code, out) == Returns(code, out) /\ UNCHANGED <<memBlock, header, active, data>>

\* The nodes of a level, and the elements of a tree of the given arity and depth.
Power(arity, level) ==
  LET power[n \in Nat] == IF n = 0 THEN 1 ELSE arity * power[n - 1]
  IN  power[level]
NumElements(arity, levels) ==
  LET total[n \in Nat] == IF n = 0 THEN 0 ELSE total[n - 1] + Power(arity, n - 1)
  IN  total[levels]

NumBitmaskInts(n) == (n + WordBits - 1) \div WordBits

\* What constructDepth can answer.
Outcomes(arity, levels) ==
  IF arity < 2 THEN {"K_TOO_SMALL"}
  ELSE IF levels = 0 THEN {"DEPTH_ZERO"}
  ELSE IF NumElements(arity, levels) >= W THEN {"PARAMS_INT_OVERFLOW"}
  ELSE {"ALLOCATION_FAILED"}
         \cup (IF NumElements(arity, levels) <= MaxElements THEN {"SUCCESS"} ELSE {})

EmptyTree(arity, levels) ==
  /\ memBlock' = TRUE
  /\ size' = 0
  /\ capacity' = NumElements(arity, levels)
  /\ k' = arity
  /\ depth' = levels
  /\ active' = {}
  /\ data' = [i \in 0 .. NumElements(arity, levels) - 1 |-> None]

NullTree == /\ memBlock' = FALSE
            /\ size' = 0 /\ capacity' = 0 /\ k' = 0 /\ depth' = 0
            /\ active' = {}
            /\ data' = [i \in {} |-> None]
-----------------------------------------------------------------------------
Construct(arity, levels) ==
  /\ ~memBlock
  /\ \E code \in Outcomes(arity, levels) :
       IF code = "SUCCESS"
       THEN EmptyTree(arity, levels) /\ Returns(code, None)
       ELSE Answers(code, None)

Destroy == NullTree /\ Returns("SUCCESS", None)

\* The old tree is freed before the new one is allocated.
Clear == /\ memBlock
         /\ \/ EmptyTree(k, 1) /\ Returns("SUCCESS", None)
            \/ NullTree /\ Returns("ALLOCATION_FAILED", None)

\* Every operation looks for a null tree first, then for a null out-parameter.
NullArgument == IF memBlock THEN Answers("OUT_NULL_PTR", None)
                            ELSE Answers("TREE_NULL_PTR", None)

OutOfBounds(index) == /\ memBlock
                      /\ index >= capacity
                      /\ Answers("INDEX_OUT_OF_BOUNDS", None)

InBounds(index) == memBlock /\ index < capacity

\* The client writes v where the operation points it to.
Activate(index, v) ==
  /\ active' = active \cup {index}
  /\ data' = [data EXCEPT ![index] = v]
  /\ size' = size + 1
  /\ Returns("SUCCESS", None)
  /\ UNCHANGED <<memBlock, capacity, k, depth>>

Add(index, v) ==
  /\ InBounds(index)
  /\ \/ index \notin active /\ Activate(index, v)
     \/ index \in active /\ Answers("INDEX_ALREADY_ACTIVE", None)

AddGet(index, v) ==
  /\ InBounds(index)
  /\ \/ index \notin active /\ Activate(index, v)
     \/ index \in active /\ Answers("SUCCESS", data[index])

Remove(index) ==
  /\ InBounds(index)
  /\ \/ /\ index \in active
        /\ active' = active \ {index}
        /\ data' = [data EXCEPT ![index] = None]
        /\ size' = size - 1
        /\ Returns("SUCCESS", None)
        /\ UNCHANGED <<memBlock, capacity, k, depth>>
     \/ index \notin active /\ Answers("INDEX_NOT_ACTIVE", None)

Get(index) ==
  /\ InBounds(index)
  /\ \/ index \in active /\ Answers("SUCCESS", data[index])
     \/ index \notin active /\ Answers("INDEX_NOT_ACTIVE", None)

Contains(index) == InBounds(index) /\ Answers("SUCCESS", index \in active)

(***************************************************************************)
(* Changing the depth: the tests both trees begin with.                    *)
(***************************************************************************)
RefuseIncrease(newDepth) ==
  /\ memBlock
  /\ \/ newDepth <= depth /\ Answers("DEPTH_TOO_SMALL", None)
     \/ /\ newDepth > depth
        /\ \E code \in Outcomes(k, newDepth) \ {"SUCCESS"} : Answers(code, None)

CanIncrease(newDepth) == /\ memBlock
                         /\ newDepth > depth
                         /\ "SUCCESS" \in Outcomes(k, newDepth)

RefuseDecrease(newDepth) ==
  /\ memBlock
  /\ \/ newDepth >= depth /\ Answers("DEPTH_TOO_BIG", None)
     \/ newDepth < depth /\ newDepth = 0 /\ Answers("DEPTH_ZERO", None)

CanDecrease(newDepth) == memBlock /\ newDepth < depth /\ newDepth # 0

\* Bits of the levels cut off: the next increase relies on their being zero.
Cut_Kept(newCapacity) == {}
Cut(newCapacity) == newCapacity .. capacity - 1

\* The header of a tree whose depth has changed.
NewShape_OldSize(newDepth, newSize) ==
  /\ capacity' = NumElements(k, newDepth)
  /\ depth' = newDepth
  /\ UNCHANGED <<memBlock, size, k>>
NewShape(newDepth, newSize) ==
  /\ capacity' = NumElements(k, newDepth)
  /\ depth' = newDepth
  /\ size' = newSize
  /\ UNCHANGED <<memBlock, k>>

Init == /\ memBlock = FALSE
        /\ size = 0 /\ capacity = 0 /\ k = 0 /\ depth = 0
        /\ active = {}
        /\ data = [i \in {} |-> None]
        /\ ret = [code |-> "SUCCESS", out |-> None]

Arities == 1 .. MaxArity
Depths == 0 .. MaxDepth

Common ==
  \/ \E a \in Arities, d \in Depths : Construct(a, d)
  \/ Destroy
  \/ Clear
  \/ NullArgument
  \/ \E d \in Depths : RefuseIncrease(d) \/ RefuseDecrease(d)
  \/ \E i \in 0 .. capacity :
       \/ OutOfBounds(i) \/ Remove(i) \/ Get(i) \/ Contains(i)
       \/ \E v \in Value : Add(i, v) \/ AddGet(i, v)
-----------------------------------------------------------------------------
(***************************************************************************)
(* Type.  k_tree.c:9, "every bit at index >= capacity must always be zero":*)
(* the bits set are indices of the tree.                                   *)
(***************************************************************************)
TypeOK ==
  /\ memBlock \in BOOLEAN
  /\ k \in 0 .. MaxArity
  /\ depth \in 0 .. MaxDepth
  /\ capacity = NumElements(k, depth)
  /\ active \subseteq 0 .. capacity - 1
  /\ data \in [0 .. capacity - 1 -> Value \cup {None}]
  /\ ret.out \in Value \cup BOOLEAN \cup {None}

(***************************************************************************)
(* size counts the nodes in use, and each of them has an element, through  *)
(* any changes of depth.                                                   *)
(***************************************************************************)
SizeCounts == /\ size = Cardinality(active)
              /\ \A i \in active : data[i] # None

\* The paths of a tree of the current arity and depth.
Paths == UNION {[1 .. n -> 0 .. k - 1] : n \in 0 .. depth - 1}

\* The position of a path's node in its level, counted from the left.
WidthOf(path) == LET w[n \in 0 .. Len(path)] ==
                       IF n = 0 THEN 0 ELSE k * w[n - 1] + path[n]
                 IN  w[Len(path)]
=============================================================================
