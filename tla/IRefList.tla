------------------------------ MODULE IRefList ------------------------------
(***************************************************************************)
(* What a stable list promises its client, with no word about memory: a   *)
(* sequence that grows and shrinks at both ends and whose elements keep    *)
(* the iRef they got (stable_list.hpp:28-31), whatever happens to the      *)
(* other elements and however often the list reallocates.                  *)
(***************************************************************************)
EXTENDS Integers, Sequences

CONSTANTS
  Value,   \* the elements
  IRef,    \* stable references
  None     \* the absence of an out-parameter

VARIABLES
  order,    \* the iRefs of the elements, by index
  element,  \* the element each of them stands for
  usable,   \* the list is constructed, and no call has broken it
  ret       \* error code and out-parameter of the last call

vars == <<order, element, usable, ret>>

Returns(code, out) == ret' = [code |-> code, out |-> out]

NoElements == [r \in {} |-> None]

Empty == order' = << >> /\ element' = NoElements

Without(r) == [x \in DOMAIN element \ {r} |-> element[x]]
With(r, v) == [x \in DOMAIN element \cup {r} |-> IF x = r THEN v ELSE element[x]]

Refusal == {"IREF_INVALID", "IREF_DIFFERENT_INSTANCE"}
-----------------------------------------------------------------------------
Init == /\ order = << >>
        /\ element = NoElements
        /\ usable = FALSE
        /\ ret = [code |-> "SUCCESS", out |-> None]

Construct == ~usable /\ usable' = TRUE /\ Empty /\ Returns("SUCCESS", None)

FailConstruct == /\ ~usable
                 /\ Returns("ALOCATION_FAILED", None)
                 /\ UNCHANGED <<order, element, usable>>

Destroy == usable /\ usable' = FALSE /\ Returns("SUCCESS", None) /\ Empty

\* Calls that need more room than the block has, or an element of none.
Break == usable /\ usable' = FALSE /\ ret' = ret /\ Empty

AddEnd(v) == /\ usable
             /\ Returns("SUCCESS", None)
             /\ \E r \in IRef \ DOMAIN element :
                  /\ \/ order' = order \o <<r>>
                     \/ order' = <<r>> \o order
                  /\ element' = With(r, v)
             /\ UNCHANGED usable

RemoveFront == /\ usable
               /\ order # << >>
               /\ Returns("SUCCESS", None)
               /\ order' = Tail(order)
               /\ element' = Without(Head(order))
               /\ UNCHANGED usable

RemoveBack == /\ usable
              /\ order # << >>
              /\ Returns("SUCCESS", None)
              /\ order' = SubSeq(order, 1, Len(order) - 1)
              /\ element' = Without(order[Len(order)])
              /\ UNCHANGED usable

Clear == usable /\ Returns("SUCCESS", None) /\ Empty /\ UNCHANGED usable

\* Everything else leaves the contents alone: here "iRefs are stable".
Unmoved == usable /\ UNCHANGED <<order, element, usable>>

\* Reserving, shrinking, and growth for which there is no memory.
NoEffect == /\ \E code \in {"SUCCESS", "ALOCATION_FAILED", "CAPACITY_TOO_SMALL"} :
                 Returns(code, None)
            /\ Unmoved

GetIndex(i) == /\ IF i < Len(order)
                  THEN Returns("SUCCESS", element[order[i + 1]])
                  ELSE Returns("INDEX_OUT_OF_BOUNDS", None)
               /\ Unmoved

GetIRef(r) == /\ IF r \in DOMAIN element
                 THEN Returns("SUCCESS", element[r])
                 ELSE \E code \in Refusal : Returns(code, None)
              /\ Unmoved

IRefToIndex(r) ==
  /\ \/ \E i \in 1 .. Len(order) : Returns("SUCCESS", i - 1) /\ order[i] = r
     \/ /\ r \notin DOMAIN element
        /\ \E code \in Refusal : Returns(code, None)
  /\ Unmoved

IndexToIRef(i) == /\ IF i < Len(order)
                     THEN Returns("SUCCESS", order[i + 1])
                     ELSE Returns("INDEX_OUT_OF_BOUNDS", None)
                  /\ Unmoved

Next == \/ Construct
        \/ FailConstruct
        \/ Destroy
        \/ Break
        \/ Clear
        \/ NoEffect
        \/ RemoveFront
        \/ RemoveBack
        \/ \E v \in Value : AddEnd(v)
        \/ \E r \in IRef : GetIRef(r) \/ IRefToIndex(r)
        \/ \E i \in IRef : GetIndex(i) \/ IndexToIRef(i)

Spec == Init /\ [][Next]_vars
=============================================================================
