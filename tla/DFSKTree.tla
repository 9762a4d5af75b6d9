------------------------------ MODULE DFSKTree ------------------------------
(***************************************************************************)
(* k_tree/k_tree.c, FSDS_DFSKTree: a node, then each child's subtree.      *)
(***************************************************************************)
EXTENDS KTree

(***************************************************************************)
(* The walk both changes of depth make over the smaller tree, without      *)
(* recursion: stack counts the children visited on each level, top is the  *)
(* level, far where the next element lies in the larger tree.              *)
(***************************************************************************)
Start(levels) == [stack |-> [l \in 0 .. levels - 1 |-> 0], top |-> 0, far |-> 0]

\* Back up over every level whose children have all been visited.
Level(walk) == CHOOSE l \in 0 .. walk.top :
                 /\ l = 0 \/ walk.stack[l] # k
                 /\ \A m \in l + 1 .. walk.top : walk.stack[m] = k

Step_Forgets(walk, levels, jump) ==
  LET l == Level(walk)
      isLeaf == l = levels - 1
  IN  [stack |-> [walk.stack EXCEPT ![l] = @ + 1],
       top |-> IF isLeaf THEN l ELSE l + 1,
       far |-> walk.far + 1 + (IF isLeaf THEN jump ELSE 0)]
Step(walk, levels, jump) ==
  LET l == Level(walk)
      isLeaf == l = levels - 1
  IN  [stack |-> [m \in 0 .. levels - 1 |->
                    IF m = l THEN walk.stack[l] + 1
                    ELSE IF m > l THEN 0 ELSE walk.stack[m]],
       top |-> IF isLeaf THEN l ELSE l + 1,
       far |-> walk.far + 1 + (IF isLeaf THEN jump ELSE 0)]

\* The states of the walk over a tree of so many levels, one for each element,
\* when each leaf has a subtree of jump elements in the larger tree.
Walk(levels, jump) ==
  LET walk[i \in 0 .. NumElements(k, levels) - 1] ==
        IF i = 0 THEN Start(levels) ELSE Step(walk[i - 1], levels, jump)
  IN  walk

\* Where the elements of the smaller tree lie in the larger one.
Far(levels, jump) == LET walk == Walk(levels, jump)
                     IN  [i \in DOMAIN walk |-> walk[i].far]

\* The subtrees added to, or cut from, a leaf when levels are added or cut.
Jump_OneLevel(levels) == k
Jump(levels) == NumElements(k, levels + 1) - 1

IncreaseDepth(newDepth) ==
  /\ CanIncrease(newDepth)
  /\ LET dst == Far(depth, Jump(newDepth - depth))
         src(i) == {s \in 0 .. capacity - 1 : dst[s] = i}
     IN  /\ active' = {dst[s] : s \in active}
         /\ data' = [i \in 0 .. NumElements(k, newDepth) - 1 |->
                       IF src(i) = {} THEN None ELSE data[CHOOSE s \in src(i) : TRUE]]
         /\ NewShape(newDepth, size)
         /\ Returns("SUCCESS", None)

Set(bits, i, isSet) == IF isSet THEN bits \cup {i} ELSE bits \ {i}

\* Elements and bits are moved toward the front in place, one by one.
Moved(newDepth) ==
  LET src == Far(newDepth, Jump(depth - newDepth))
      m[n \in 0 .. NumElements(k, newDepth)] ==
        IF n = 0 THEN [bits |-> active, data |-> data, size |-> 0]
        ELSE LET old == m[n - 1]
                 isSet == src[n - 1] \in old.bits
             IN  [bits |-> Set(old.bits, n - 1, isSet),
                  data |-> [old.data EXCEPT ![n - 1] = old.data[src[n - 1]]],
                  size |-> old.size + IF isSet THEN 1 ELSE 0]
  IN  m[NumElements(k, newDepth)]

DecreaseDepth(newDepth) ==
  /\ CanDecrease(newDepth)
  /\ LET newCapacity == NumElements(k, newDepth)
         moved == Moved(newDepth)
     IN  /\ active' = moved.bits \ Cut(newCapacity)
         /\ data' = [i \in 0 .. newCapacity - 1 |-> moved.data[i]]
         /\ NewShape(newDepth, moved.size)
  /\ Returns("SUCCESS", None)

CalculateIndex_NoParent(level, width) ==
  IF level >= depth \/ width >= Power(k, level)
  THEN None
  ELSE LET w[n \in Nat] == IF n = 0 THEN width ELSE w[n - 1] \div k
           index[n \in Nat] == IF n = 0 THEN 0 ELSE index[n - 1] + w[n - 1]
       IN  index[level]
CalculateIndex(level, width) ==
  IF level >= depth \/ width >= Power(k, level)
  THEN None
  ELSE LET w[n \in Nat] == IF n = 0 THEN width ELSE w[n - 1] \div k
           index[n \in Nat] == IF n = 0 THEN 0 ELSE index[n - 1] + w[n - 1] + 1
       IN  index[level]

ChangeDepth == \E d \in Depths : IncreaseDepth(d) \/ DecreaseDepth(d)
-----------------------------------------------------------------------------
(***************************************************************************)
(* The picture at k_tree.h:118-124: the first child comes right after its  *)
(* parent, each other child after the whole subtree of the one before.     *)
(***************************************************************************)
Subtree(levels) == (Power(k, levels) - 1) \div (k - 1)
IndexOf(path) == LET index[n \in 0 .. Len(path)] ==
                       IF n = 0 THEN 0
                       ELSE index[n - 1] + 1 + path[n] * Subtree(depth - n)
                 IN  index[Len(path)]

\* calculateIndex finds every leaf.
LeafIndexRight == \A p \in {q \in Paths : Len(q) = depth - 1} :
                    CalculateIndex(Len(p), WidthOf(p)) = IndexOf(p)

(***************************************************************************)
(* k_tree.c:574 and k_tree.c:656: "the stackIndex > 0 guard should never   *)
(* trigger for well formed trees": backing up ends above the root's count. *)
(***************************************************************************)
GuardIdle == \A d \in 1 .. depth :
               LET walk == Walk(d, Jump(depth - d))
               IN  \A i \in DOMAIN walk : Level(walk[i]) = 0 => walk[i].stack[0] # k

\* The elements in use, by path: below[l][j] is the path to the j-th element of
\* a tree of l levels.
PathOf(i) == LET below[l \in 1 .. depth] ==
                   [j \in 0 .. i |->
                      IF j = 0 \/ l = 1 THEN <<>>
                      ELSE <<(j - 1) \div Subtree(l - 1)>>
                             \o below[l - 1][(j - 1) % Subtree(l - 1)]]
             IN  below[depth][i]
Content == [p \in {PathOf(i) : i \in active} |-> data[IndexOf(p)]]
=============================================================================
