------------------------------ MODULE PathTree ------------------------------
(***************************************************************************)
(* What a k-tree promises its client, with no word about indices: nodes    *)
(* are named by the path of child numbers that leads to them, and a node   *)
(* that is in use keeps its element as long as the tree is deep enough.    *)
(***************************************************************************)
EXTENDS Integers, Sequences, Functions

CONSTANTS
  Value,      \* the elements
  None        \* the absence of a result

VARIABLES
  k,          \* children of a node, 0 when there is no tree
  depth,      \* levels
  content,    \* the element of each node in use, by its path
  ret         \* error code and result of the last call

vars == <<k, depth, content, ret>>

Paths == UNION {[1 .. n -> 0 .. k - 1] : n \in 0 .. depth - 1}

Returns(code, out) == ret' = [code |-> code, out |-> out]
Unchanged == UNCHANGED <<k, depth, content>>

Nothing == [p \in {} |-> None]
NoTree == k' = 0 /\ depth' = 0 /\ content' = Nothing

InUse == DOMAIN content
With(p, v) == [q \in InUse \cup {p} |-> IF q = p THEN v ELSE content[q]]
Without(p) == Restrict(content, InUse \ {p})
UpTo(n) == Restrict(content, {p \in InUse : Len(p) < n})

Exists == depth > 0
-----------------------------------------------------------------------------
Init == k = 0 /\ depth = 0 /\ content = Nothing /\ ret = [code |-> "SUCCESS", out |-> None]

Construct == /\ ~Exists
             /\ Returns("SUCCESS", None)
             /\ k' \in Nat \ {0, 1}
             /\ depth' \in Nat \ {0}
             /\ content' = Nothing

Destroy == Returns("SUCCESS", None) /\ NoTree

Add == /\ Returns("SUCCESS", None)
       /\ UNCHANGED <<k, depth>>
       /\ \E p \in Paths \ InUse, v \in Value : content' = With(p, v)

AddGet == /\ ret'.out \in Value
          /\ \E p \in InUse : Returns("SUCCESS", content[p])
          /\ Unchanged

AddInUse == /\ Returns("INDEX_ALREADY_ACTIVE", None)
            /\ InUse # {}
            /\ Unchanged

Remove == /\ Returns("SUCCESS", None)
          /\ UNCHANGED <<k, depth>>
          /\ \E p \in InUse : content' = Without(p)

NotInUse == /\ Returns("INDEX_NOT_ACTIVE", None)
            /\ Paths \ InUse # {}
            /\ Unchanged

Contains == /\ \/ Returns("SUCCESS", TRUE) /\ InUse # {}
               \/ Returns("SUCCESS", FALSE) /\ Paths \ InUse # {}
            /\ Unchanged

Deepen == /\ Exists
          /\ Returns("SUCCESS", None)
          /\ depth' \in Nat
          /\ depth' > depth
          /\ UNCHANGED k
          /\ content' = content

Flatten == /\ Exists
           /\ Returns("SUCCESS", None)
           /\ depth' \in 1 .. depth - 1
           /\ UNCHANGED k
           /\ content' = UpTo(depth')

Clear == /\ Exists
         /\ Returns("SUCCESS", None)
         /\ depth' = 1
         /\ UNCHANGED k
         /\ content' = Nothing

\* A clear first destroys the tree: without memory for the new one it is gone.
Lose == Exists /\ Returns("ALLOCATION_FAILED", None) /\ NoTree

\* A call that is refused changes nothing.
Refuse == /\ \E code \in {"ALLOCATION_FAILED", "INDEX_OUT_OF_BOUNDS",
                          "DEPTH_TOO_SMALL", "DEPTH_TOO_BIG", "DEPTH_ZERO",
                          "TREE_NULL_PTR", "OUT_NULL_PTR", "K_TOO_SMALL",
                          "PARAMS_INT_OVERFLOW"} :
               Returns(code, None)
          /\ Unchanged

Next == \/ Refuse \/ AddInUse \/ NotInUse \/ AddGet \/ Contains
        \/ Construct \/ Destroy \/ Deepen \/ Flatten \/ Clear \/ Lose
        \/ Add \/ Remove

Spec == Init /\ [][Next]_vars
=============================================================================
