---------------------------- MODULE StableLists ----------------------------
(***************************************************************************)
(* src/stable_list/stable_list.inl: the class StableList over the list in  *)
(* C.  Most calls are one call of StableList.tla; those that add several   *)
(* elements are a loop of appends, one step each, and constructing or      *)
(* assigning a list is a step before the loop.  What the source of an      *)
(* element is, is looked at before the append that makes the place for it. *)
(*                                                                         *)
(* A move hands the block to another object: the list here is the block,   *)
(* whichever object has it.  Elements are copied without throwing.         *)
(***************************************************************************)
EXTENDS StableList, SequencesExt

CONSTANTS
  DefaultCapacity,   \* FSDS_STABLE_LIST_DEFAULT_CAPACITY, 16 in the code
  DefaultMargin,     \* FSDS_STABLE_LIST_DEFAULT_FRONT_MARGIN, 16 in the code
  MaxInstances,      \* bound: the lists constructed, one after the other
  MaxSize            \* bound: the most elements in a list

ASSUME StableListsAssumption ==
  /\ DefaultCapacity \in 1 .. MaxCapacity
  /\ DefaultMargin \in 1 .. MaxCapacity
  /\ MaxSize \in 0 .. MaxCapacity
  /\ None \notin Value
  /\ MaxInstances * Increment < W

VARIABLES
  call,   \* the loop a call is in
  last    \* what was called last, with its arguments

classVars == <<vars, call, last>>

Idle == [stage |-> "idle"]
Returned == call = Idle /\ ~corrupt

\* The block of a new list is still to be made.
Constructing(n, items) == [stage |-> "construct", room |-> n, items |-> items]

\* The elements still to be added, and where.  If own, they are positions in
\* the list itself; None is an element of a list destroyed before.
Adding(end, own, fresh, items) ==
  IF items = << >> THEN Idle
  ELSE [stage |-> "add", end |-> end, own |-> own, fresh |-> fresh, items |-> items]

\* The exception leaves the constructor: there is no list.
Throwing == [stage |-> "throw"]

\* A call that is over at once, and a step of one that is not.
Says(what) == last' = what /\ UNCHANGED call
GoesOn == <<"goesOn">>

Values == SeqOf(Value, MaxSize)
MoreInstances == globalInstanceIRefOffset < MaxInstances * Increment
-----------------------------------------------------------------------------
(***************************************************************************)
(* Constructing and assigning.                                             *)
(***************************************************************************)
\* A capacity of n, then a loop.
Construct(n, items, fresh) ==
  /\ ConstructSizeFront(n, DefaultMargin)
  /\ call' = IF memBlock' THEN Adding("back", FALSE, fresh, items) ELSE Idle

NewInstance(n, items) == /\ Returned /\ MoreInstances
                         /\ Construct(n, items, TRUE)
                         /\ last' = <<"construct", items>>

ConstructDefault == NewInstance(DefaultCapacity, << >>)
ConstructRange(s) == NewInstance(DefaultCapacity, s)
ConstructValues(s) == NewInstance(Len(s), s)

\* Elements that need no constructor: size is set, and the list claims count
\* places from the margin on, none of which the block has.
ConstructCount(count) ==
  /\ Returned /\ MoreInstances /\ ~memBlock
  /\ \/ count = 0 /\ Construct(0, << >>, TRUE)
     \/ count > 0 /\ FailAllocation /\ UNCHANGED call
     \/ count > 0 /\ CanAllocate(count) /\ Corrupt /\ UNCHANGED call
  /\ last' = <<"constructCount", count>>

\* The old list is destroyed, if there is one.
AssignWith(n, items) == /\ Returned /\ MoreInstances
                        /\ \/ Destroy
                           \/ ~memBlock /\ UNCHANGED vars
                        /\ call' = Constructing(n, items)
                        /\ last' = <<"assign", items>>

AssignRange(s) == AssignWith(DefaultCapacity, s)
AssignValues(s) == AssignWith(Len(s), s)

\* The value is an element of the list.
AssignOwn(n) == size > 0 /\ AssignWith(n, [i \in 1 .. n |-> None])

Reconstruct == /\ call.stage = "construct"
               /\ Construct(call.room, call.items, FALSE)
               /\ last' = GoesOn

\* The block is lost.
Unwind == /\ call.stage = "throw"
          /\ Gone
          /\ call' = Idle
          /\ last' = GoesOn
          /\ UNCHANGED <<globalInstanceIRefOffset, corrupt, ret>>
-----------------------------------------------------------------------------
(***************************************************************************)
(* Adding.                                                                 *)
(***************************************************************************)
Grows(end) == IF end = "back" THEN front + size >= capacity ELSE front = 0

AppendAt(end, v) == IF end = "back" THEN AppendBack(v) ELSE AppendFront(v)

\* The place the value is read from is gone once the list has a new block.
AppendDangling(end) == \/ Grows(end) /\ Usable /\ FailAllocation
                       \/ Usable /\ Corrupt

AppendOwn(end, i) == IF Grows(end) THEN AppendDangling(end)
                     ELSE AppendAt(end, data[front + i])

AddNext ==
  /\ call.stage = "add"
  /\ LET item == Head(call.items)
     IN  IF item = None THEN AppendDangling(call.end)
         ELSE IF call.own THEN AppendOwn(call.end, item)
         ELSE AppendAt(call.end, item)
  /\ call' = IF corrupt' THEN Idle
             ELSE IF ret'.code = "SUCCESS"
             THEN Adding(call.end, call.own, call.fresh, Tail(call.items))
             ELSE IF call.fresh THEN Throwing ELSE Idle
  /\ last' = GoesOn

HasRoom(n) == size + n <= MaxSize

PushValue(end, v) == /\ Returned /\ HasRoom(1)
                     /\ AppendAt(end, v)
                     /\ Says(<<"push", end, v>>)
PushOwn(end, i) == /\ Returned /\ HasRoom(1) /\ Usable
                   /\ AppendOwn(end, i)
                   /\ Says(<<"pushOwn", end, i>>)

Concatenate(end, own, items) == /\ Returned /\ Usable
                                /\ HasRoom(Len(items))
                                /\ call' = Adding(end, own, FALSE, items)
                                /\ UNCHANGED vars

InFrontOrder_AsGiven(s) == s
\* The last comes first.
InFrontOrder(s) == Reverse(s)
ConcatenateBack(s) == /\ Concatenate("back", FALSE, s)
                      /\ last' = <<"concatenate", "back", s>>
ConcatenateFront(s) == /\ Concatenate("front", FALSE, InFrontOrder(s))
                       /\ last' = <<"concatenate", "front", s>>

\* Positions count from the list as each element finds it.
ConcatenateBackOwn == /\ Concatenate("back", TRUE, [k \in 1 .. size |-> k - 1])
                      /\ last' = <<"concatenateOwn", "back">>
ConcatenateFrontOwn == /\ Concatenate("front", TRUE, [k \in 1 .. size |-> size - k])
                       /\ last' = <<"concatenateOwn", "front">>
-----------------------------------------------------------------------------
(***************************************************************************)
(* Calls that are one call of the C list.                                  *)
(***************************************************************************)
DestroyList == Returned /\ Destroy /\ Says(<<"destroy">>)
ReserveRoom(n) == Returned /\ Reserve(n) /\ Says(<<"reserve", n>>)
ShrinkRoom == Returned /\ ShrinkToFit /\ Says(<<"shrinkToFit">>)
ClearList == Returned /\ Clear /\ Says(<<"clear">>)

\* Elements with a destructor are looked up before they are removed.
PopBack(destructor) ==
  /\ Returned
  /\ IF destructor /\ size = 0 THEN GetElementIndex(Minus(size, 1)) ELSE RemoveBack
  /\ Says(<<"pop", "back", destructor>>)
PopFront(destructor) ==
  /\ Returned
  /\ IF destructor /\ size = 0 THEN GetElementIndex(0) ELSE RemoveFront
  /\ Says(<<"pop", "front", destructor>>)

At(index) == Returned /\ GetElementIndex(index) /\ Says(<<"at", index>>)
Back == Returned /\ GetElementIndex(Minus(size, 1)) /\ Says(<<"back">>)
FrontIRef == Returned /\ IndexToIRef(0) /\ Says(<<"iRef", "front">>)
BackIRef == Returned /\ IndexToIRef(Minus(size, 1)) /\ Says(<<"iRef", "back">>)
-----------------------------------------------------------------------------
(***************************************************************************)
(* Iterators: an iRef and the step to the next one.                        *)
(***************************************************************************)
Base == Plus(iRefOffset, front)
Begin == [iRef |-> Base, step |-> 1]
End == [iRef |-> Plus(Base, size), step |-> 1]
RBegin == [iRef |-> Minus(Plus(Base, size), 1), step |-> -1]
REnd_AtFirst == [iRef |-> Base, step |-> -1]
REnd == [iRef |-> Minus(Base, 1), step |-> -1]

\* n steps on, in the arithmetic of size_t.
Advanced(it, n) == [it EXCEPT !.iRef = (@ + it.step * n) % W]
\* None stands for the exception.
Dereferenced(it) == IF Valid(it.iRef) THEN data[Minus(it.iRef, iRefOffset)] ELSE None

\* A difference of two iRefs, converted to ptrdiff_t.
Signed(w) == IF 2 * w < W THEN w ELSE w - W
Distance(it, other) == Signed(Minus(it.iRef, other.iRef)) * it.step
-----------------------------------------------------------------------------
ClassInit == Init /\ call = Idle /\ last = << >>

ClassNext ==
  \/ ConstructDefault \/ Reconstruct \/ Unwind \/ AddNext
  \/ \E s \in Values : \/ ConstructRange(s) \/ ConstructValues(s)
                       \/ AssignRange(s) \/ AssignValues(s)
                       \/ ConcatenateBack(s) \/ ConcatenateFront(s)
  \/ \E n \in 0 .. MaxSize : ConstructCount(n) \/ AssignOwn(n)
  \/ ConcatenateBackOwn \/ ConcatenateFrontOwn
  \/ \E end \in {"back", "front"} : \/ \E v \in Value : PushValue(end, v)
                                    \/ \E i \in 0 .. size - 1 : PushOwn(end, i)
  \/ DestroyList \/ ShrinkRoom \/ ClearList
  \/ \E destructor \in BOOLEAN : PopBack(destructor) \/ PopFront(destructor)
  \/ \E n \in Asked : ReserveRoom(n) \/ At(n)
  \/ Back \/ FrontIRef \/ BackIRef

ClassSpec == ClassInit /\ [][ClassNext]_classVars
-----------------------------------------------------------------------------
Held == [i \in 1 .. size |-> data[front + i - 1]]

\* Going by steps from it, up to the first that equals stop.
Walk(it, stop) ==
  LET n == CHOOSE n \in 0 .. W - 1 :
             /\ Advanced(it, n) = stop
             /\ \A m \in 0 .. n - 1 : Advanced(it, m) # stop
  IN  [k \in 1 .. n |-> Dereferenced(Advanced(it, k - 1))]

(***************************************************************************)
(* A loop from begin to end meets each element once and in order, one from *)
(* rbegin to rend does so backwards, and the iterators are as far apart as *)
(* there are elements: however many elements were put in front before, so  *)
(* that iRefs went through zero, and on a list with none.                  *)
(***************************************************************************)
WalksInOrder ==
  Usable => /\ Walk(Begin, End) = Held
            /\ Walk(RBegin, REnd) = Reverse(Held)
            /\ Distance(End, Begin) = size
            /\ Distance(REnd, RBegin) = size

(***************************************************************************)
(* The class keeps the promise of ValueList: constructors, assignments and *)
(* concatenations add what they were given, in order; memory that runs out *)
(* loses no element that was there; and only calls on a list without room  *)
(* beyond its margin, or on its own elements, reach outside the block.     *)
(***************************************************************************)
\* The elements a loop under way has yet to add.
Missing == IF call.own THEN [k \in DOMAIN call.items |-> data[front + call.items[k]]]
           ELSE call.items

Items ==
  CASE call.stage = "construct" -> call.items
    [] call.stage = "add" /\ call.end = "back" -> Held \o Missing
    [] call.stage = "add" /\ call.end = "front" /\ ~call.own -> Reverse(Missing) \o Held
    [] OTHER -> IF Usable THEN Held ELSE << >>

Under == CASE call.stage = "idle" -> "nothing"
           [] call.stage = "construct" /\ None \notin ToSet(call.items) -> "others"
           [] call.stage = "add" /\ ~call.own /\ None \notin ToSet(call.items) -> "others"
           [] call.stage = "throw" -> "others"
           [] OTHER -> "own"

Promise == INSTANCE ValueList
             WITH items <- Items,
                  made <- Usable \/ call.stage = "construct",
                  sturdy <- Usable /\ capacity > reallocationFrontMargin,
                  adding <- Under,
                  Contents <- Values, IRef <- SizeT, Margin <- DefaultMargin
ValueListSpec == Promise!Spec

(***************************************************************************)
(* tests/src/main.cpp:3822-3837 constructs a list from its elements and    *)
(* expects them in it: making a list writes inside the list.               *)
(***************************************************************************)
MadeInMemory == [][call.stage = "add" /\ call.fresh => ~corrupt']_classVars
=============================================================================
