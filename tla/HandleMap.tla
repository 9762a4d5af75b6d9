----------------------------- MODULE HandleMap -----------------------------
(***************************************************************************)
(* What a slot map promises its client, with no word about slots: a       *)
(* container that hands out a reference for every element it is given,    *)
(* finds the element by that reference for as long as it is held, and     *)
(* says so when the reference is out of date.                              *)
(***************************************************************************)
CONSTANTS
  Value,      \* the elements
  Reference,  \* the references the map can hand out
  None        \* the absence of an out-parameter

VARIABLES
  live,       \* the element each reference in force stands for
  retired,    \* references the client still holds to elements it has removed
  usable,     \* the map has a memory block
  ret         \* the error code and out-parameter of the last call

vars == <<live, retired, usable, ret>>

Returns(code, out) == ret' = [code |-> code, out |-> out]

NoElements == [r \in {} |-> None]

Empty == /\ live' = NoElements
         /\ retired' = {}

Init == /\ live = NoElements
        /\ retired = {}
        /\ usable = FALSE
        /\ ret = [code |-> "SUCCESS", out |-> None]

Construct == /\ ~usable
             /\ usable' = TRUE
             /\ Empty
             /\ Returns("SUCCESS", None)

\* A growth that cannot be met loses the whole map: see SlotMap.
Lose == /\ usable' = FALSE
        /\ Empty
        /\ Returns("ALOCATION_FAILED", None)

Destroy == /\ usable
           /\ usable' = FALSE
           /\ Empty
           /\ Returns("SUCCESS", None)

Add(v) == /\ usable
          /\ \E r \in Reference \ (DOMAIN live \cup retired) :
               /\ live' = [x \in DOMAIN live \cup {r} |->
                             IF x = r THEN v ELSE live[x]]
               /\ Returns("SUCCESS", r)
          /\ UNCHANGED <<retired, usable>>

(***************************************************************************)
(* A removal retires the reference.  Generations are finite, so it may     *)
(* bring back to life at most one reference retired long ago: that one is  *)
(* the only reference the map is allowed to lose track of.                 *)
(***************************************************************************)
Remove(r) == /\ usable
             /\ r \in DOMAIN live
             /\ live' = [x \in DOMAIN live \ {r} |-> live[x]]
             /\ \/ retired' = retired \cup {r}
                \/ \E old \in retired \cup {r} :
                     retired' = (retired \cup {r}) \ {old}
             /\ Returns("SUCCESS", None)
             /\ UNCHANGED usable

Get(r) == /\ usable
          /\ r \in DOMAIN live
          /\ Returns("SUCCESS", live[r])
          /\ UNCHANGED <<live, retired, usable>>

\* A reference to a removed element is never taken for another element.
Reject(r) == /\ usable
             /\ r \in retired
             /\ Returns("INCORRECT_GENERATION", None)
             /\ UNCHANGED <<live, retired, usable>>

Clear == /\ usable
         /\ Empty
         /\ Returns("SUCCESS", None)
         /\ UNCHANGED usable

\* Calls that concern room only, or a reference the map never issued.
NoEffect == /\ usable
            /\ \E code \in {"SUCCESS", "CAPACITY_TOO_SMALL",
                            "INDEX_OUT_OF_BOUNDS"} : Returns(code, None)
            /\ UNCHANGED <<live, retired, usable>>

Next == \/ Construct
        \/ Destroy
        \/ Lose
        \/ Clear
        \/ NoEffect
        \/ \E v \in Value : Add(v)
        \/ \E r \in Reference : Remove(r) \/ Get(r) \/ Reject(r)

Spec == Init /\ [][Next]_vars
=============================================================================
