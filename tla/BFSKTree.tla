------------------------------ MODULE BFSKTree ------------------------------
(***************************************************************************)
(* k_tree/k_tree.c, FSDS_BFSKTree: elements level by level.                *)
(***************************************************************************)
EXTENDS KTree

\* The bitmap is copied by the word, the elements by their number.
IncreaseDepth(newDepth) ==
  /\ CanIncrease(newDepth)
  /\ active' = active \cap 0 .. (NumBitmaskInts(capacity) * WordBits) - 1
  /\ data' = [i \in 0 .. NumElements(k, newDepth) - 1 |->
                IF i < capacity THEN data[i] ELSE None]
  /\ NewShape(newDepth, size)
  /\ Returns("SUCCESS", None)

DecreaseDepth(newDepth) ==
  /\ CanDecrease(newDepth)
  /\ LET newCapacity == NumElements(k, newDepth)
     IN  /\ active' = active \ Cut(newCapacity)
         /\ data' = [i \in 0 .. newCapacity - 1 |-> data[i]]
         /\ NewShape(newDepth, Cardinality(active \cap 0 .. newCapacity - 1))
  /\ Returns("SUCCESS", None)

CalculateIndex_Early(level, width) ==
  IF level >= depth \/ width >= Power(k, level)
  THEN None
  ELSE NumElements(k, level + 1) - 1 + width
CalculateIndex(level, width) ==
  IF level >= depth \/ width >= Power(k, level)
  THEN None
  ELSE NumElements(k, level) + width

ChangeDepth == \E d \in Depths : IncreaseDepth(d) \/ DecreaseDepth(d)
-----------------------------------------------------------------------------
(***************************************************************************)
(* The picture at k_tree.h:89-95: the children of the node at index i are  *)
(* at k*i + 1 and the k - 1 indices after it.                              *)
(***************************************************************************)
IndexOf(path) == LET index[n \in 0 .. Len(path)] ==
                       IF n = 0 THEN 0 ELSE k * index[n - 1] + 1 + path[n]
                 IN  index[Len(path)]

\* calculateIndex finds the node at every place of every level.
IndexRight == \A p \in Paths : CalculateIndex(Len(p), WidthOf(p)) = IndexOf(p)

\* The elements in use, by path.
PathOf(i) == LET path[j \in 0 .. i] ==
                   IF j = 0 THEN <<>>
                   ELSE Append(path[(j - 1) \div k], (j - 1) % k)
             IN  path[i]
Content == [p \in {PathOf(i) : i \in active} |-> data[IndexOf(p)]]
=============================================================================
