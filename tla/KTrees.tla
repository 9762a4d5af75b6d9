------------------------------- MODULE KTrees -------------------------------
(***************************************************************************)
(* A k-tree of either order.  FSDS_BFSKTree and FSDS_DFSKTree are two      *)
(* types: a tree never changes from one to the other.                      *)
(***************************************************************************)
EXTENDS KTree

VARIABLE order

BreadthFirst == INSTANCE BFSKTree
DepthFirst == INSTANCE DFSKTree

isBFS == order = "BFS"
isDFS == order = "DFS"

KTreesInit == Init /\ order \in {"BFS", "DFS"}

Next == /\ \/ Common
           \/ isBFS /\ BreadthFirst!ChangeDepth
           \/ isDFS /\ DepthFirst!ChangeDepth
        /\ UNCHANGED order

Spec == KTreesInit /\ [][Next]_<<vars, order>>
-----------------------------------------------------------------------------
(***************************************************************************)
(* The pictures at k_tree.h:89-95 and 118-124: calculateIndex finds the    *)
(* node at every place of every level of a breadth-first tree, and every   *)
(* leaf of a depth-first one.  (The pictures show the inner nodes of both; *)
(* a depth-first tree's have another index than calculateIndex answers.)   *)
(***************************************************************************)
BFSIndexRight == isBFS => BreadthFirst!IndexRight
DFSLeafIndexRight == isDFS => DepthFirst!LeafIndexRight

(***************************************************************************)
(* k_tree.c:574 and k_tree.c:656, "the stackIndex > 0 guard should never   *)
(* trigger": the walk of a change of depth never backs up past the root.   *)
(***************************************************************************)
GuardIdle == isDFS => DepthFirst!GuardIdle

(***************************************************************************)
(* Nodes keep their elements, by path, when a tree of either order grows,  *)
(* shrinks, or fails to.                                                   *)
(***************************************************************************)
Tree == INSTANCE PathTree WITH
          content <- IF isBFS THEN BreadthFirst!Content ELSE DepthFirst!Content
PathTreeSpec == Tree!Spec
-----------------------------------------------------------------------------
(***************************************************************************)
(* The inductive invariant the proofs use: a tree that is there has at     *)
(* least one level, and two children to a node.                            *)
(***************************************************************************)
IInv == /\ TypeOK
        /\ SizeCounts
        /\ order \in {"BFS", "DFS"}
        /\ IF memBlock THEN k >= 2 /\ depth >= 1 ELSE k = 0 /\ depth = 0
=============================================================================
