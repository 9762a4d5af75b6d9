----------------------------- MODULE ValueList -----------------------------
(***************************************************************************)
(* What the class StableList promises of the values in it, with no word    *)
(* about memory: to be "similar to std::vector" (stable_list.hpp:28), at   *)
(* both ends.  The code keeps less than that, here and nowhere else:       *)
(*                                                                         *)
(* a list that is not sturdy, whose capacity is not more than its front    *)
(* margin, may break on any call that adds, and is made by most            *)
(* constructors; one with a size and no elements breaks at once;           *)
(* to reserve without leaving room for the margin may break the list;      *)
(* to give a list one of its own elements, or itself, may break it, and to *)
(* put itself in front of itself puts any of its elements there;           *)
(* removing from an empty list of elements without destructor breaks it;   *)
(* a call that adds several keeps those it added when memory runs out.     *)
(***************************************************************************)
EXTENDS Integers, Sequences, SequencesExt

CONSTANTS
  Value,    \* the elements
  None,     \* the absence of a result, and of an element
  Contents, \* the sequences of elements a client puts in a list
  IRef,     \* stable references
  Asked,    \* the capacities and indices asked for
  Margin    \* room the list leaves at its front when it takes a block

VARIABLES
  items,     \* the elements
  made,      \* the list is constructed, and no call has broken it
  sturdy,
  adding,    \* whose elements a call under way adds: "nothing", "others", "own"
  last,      \* what was called last, with its arguments
  ret        \* error code and out-parameter of the last call

vars == <<items, made, sturdy, adding, last, ret>>

Returns(code, out) == ret' = [code |-> code, out |-> out]
Succeeds == Returns("SUCCESS", None)
OutOfMemory == Returns("ALOCATION_FAILED", None)

Called(what) == last' = what /\ adding = "nothing"
Sturdier == sturdy => sturdy'
Gone == items' = << >> /\ ~made' /\ adding' = "nothing"

\* Nothing more is promised.
Break == made /\ Gone

\* The elements s are put at an end.
Joined(end, s) == IF end = "back" THEN items \o s ELSE s \o items
Ends == {"back", "front"}

Init == /\ items = << >>
        /\ ~made /\ ~sturdy
        /\ adding = "nothing"
        /\ last = << >>
        /\ ret = [code |-> "SUCCESS", out |-> None]
-----------------------------------------------------------------------------
Construct(s) == /\ Called(<<"construct", s>>)
                /\ ~made
                /\ \/ made' /\ items' = s /\ adding' \in {"nothing", "others"} /\ Succeeds
                   \/ OutOfMemory /\ UNCHANGED <<items, made, adding>>

\* n elements, whatever they are: made only when there is none.
ConstructCount(n) == /\ Called(<<"constructCount", n>>)
                     /\ ~made
                     /\ made' => n = 0
                     /\ UNCHANGED <<items, adding>>

\* The elements s instead of those there are.
Assign(s) == /\ Called(<<"assign", s>>)
             /\ made'
             /\ items' = s
             /\ adding' = IF None \in ToSet(s) THEN "own" ELSE "others"

Concatenate(end, s) == /\ Called(<<"concatenate", end, s>>)
                       /\ made /\ made' /\ Sturdier
                       /\ adding' \in {"nothing", "others"}
                       /\ items' = Joined(end, s)

ConcatenateOwn(end) == /\ Called(<<"concatenateOwn", end>>)
                       /\ made /\ made' /\ Sturdier
                       /\ adding' \in {"nothing", "own"}
                       /\ items' = IF end = "back" THEN Joined(end, items) ELSE items

\* A call that adds several elements goes on; stops for want of memory, without
\* those it has not added; leaves no list when it is a constructor that stopped;
\* or breaks the list.
GoOn == /\ last' = <<"goesOn">>
        /\ adding # "nothing"
        /\ \/ /\ Succeeds
              /\ made' /\ Sturdier
              /\ adding' \in {adding, "nothing"}
              /\ \/ items' = items
                 \/ adding = "own" /\ \E v \in ToSet(items) : items' = <<v>> \o items
           \/ /\ OutOfMemory
              /\ made' /\ Sturdier
              /\ adding' \in {adding, "nothing"}
              /\ items' \in Prefixes(items) \cup Suffixes(items)
           \/ ret'.code = "ALOCATION_FAILED" /\ Gone
           \/ (sturdy => adding = "own") /\ Break
-----------------------------------------------------------------------------
Stays == made /\ UNCHANGED <<made, adding>> /\ Sturdier
Unmoved == Stays /\ UNCHANGED items

Adds(end, v) == \/ Stays /\ Succeeds /\ items' = Joined(end, <<v>>)
                \/ Unmoved /\ OutOfMemory
                \/ ~sturdy /\ Break

Push(end, v) == Called(<<"push", end, v>>) /\ Adds(end, v)

PushOwn(end, i) == Called(<<"pushOwn", end, i>>) /\ (Adds(end, items[i + 1]) \/ Break)

Pop(end, destructor) ==
  /\ Called(<<"pop", end, destructor>>)
  /\ \/ /\ items # << >>
        /\ Stays /\ Succeeds
        /\ items' = IF end = "back" THEN Front(items) ELSE Tail(items)
     \/ items = << >> /\ destructor /\ Unmoved /\ Returns("INDEX_OUT_OF_BOUNDS", None)
     \/ items = << >> /\ ~destructor /\ Break

Destroy == Called(<<"destroy">>) /\ made /\ Gone /\ Succeeds
Clear == Called(<<"clear">>) /\ Stays /\ Succeeds /\ items' = << >>

\* Room is asked for, or given up.
Reserve(n) ==
  /\ Called(<<"reserve", n>>)
  /\ made
  /\ \/ UNCHANGED <<items, made, adding>> /\ n >= Len(items) /\ (Succeeds \/ OutOfMemory)
     \/ UNCHANGED <<items, made, adding>> /\ n < Len(items) /\ Returns("CAPACITY_TOO_SMALL", None)
     \/ n < Len(items) + Margin /\ Break

ShrinkToFit == /\ Called(<<"shrinkToFit">>)
               /\ made
               /\ UNCHANGED <<items, made, adding>>
               /\ Succeeds \/ OutOfMemory

OrOutOfBounds(there, out) == IF there THEN Returns("SUCCESS", out)
                             ELSE Returns("INDEX_OUT_OF_BOUNDS", None)

At(i) == /\ Called(<<"at", i>>)
         /\ Unmoved
         /\ OrOutOfBounds(i < Len(items), items[i + 1])

Back == Called(<<"back">>) /\ Unmoved /\ OrOutOfBounds(items # << >>, Last(items))

EndIRef(end) == /\ Called(<<"iRef", end>>)
                /\ Unmoved
                /\ \E r \in IRef : OrOutOfBounds(items # << >>, r)

Next == \/ GoOn \/ Destroy \/ Clear \/ ShrinkToFit \/ Back
        \/ \E s \in Contents : Construct(s) \/ Assign(s)
        \/ \E n \in Asked : \/ ConstructCount(n) \/ Assign([i \in 1 .. n |-> None])
                            \/ Reserve(n) \/ At(n)
        \/ \E end \in Ends : \/ ConcatenateOwn(end) \/ EndIRef(end)
                             \/ \E s \in Contents : Concatenate(end, s)
                             \/ \E v \in Value : Push(end, v)
                             \/ \E i \in 0 .. Len(items) - 1 : PushOwn(end, i)
                             \/ \E destructor \in BOOLEAN : Pop(end, destructor)

Spec == Init /\ [][Next]_vars
=============================================================================
