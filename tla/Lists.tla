------------------------------- MODULE Lists -------------------------------
(***************************************************************************)
(* Lists of one kind, SeperateDataList or InlineList, whose elements are   *)
(* added, removed and looked at, and that are copied, moved and compared.  *)
(* A ts::SeperateDataList makes the calls of a SeperateDataList one at a   *)
(* time, under its lock: several threads that share one do what is done    *)
(* here, and a pointer that data() returns outlives the lock.              *)
(***************************************************************************)
EXTENDS ListInternal, FiniteSets, Functions

CONSTANTS
  Name,             \* the lists
  OutOfRange,       \* the exception
  BaseAllocation,   \* sm_baseAllocation, 16 in the code
  MaxSize,          \* bound: the most elements in a list
  MaxRoom           \* bound: the most room in all the arrays

ASSUME ListsAssumption == /\ BaseAllocation \in Nat \ {0}
                          /\ MaxRoom \in Nat

VARIABLES
  kind,             \* "seperate" or "inline"
  list,
  broken,           \* a call has overrun an array
  call              \* the last call: its name, the list and arguments, what it returned

vars == <<kind, list, broken, call>>

S == INSTANCE SeperateDataList
I == INSTANCE InlineList

Fresh == [n \in Name |-> List(BaseAllocation)]

\* Of what the lists are once an array was overrun, nothing is told.
Sound == ~broken /\ broken' = FALSE
Break == ~broken /\ broken' = TRUE /\ list' = Fresh

Room(n, l) == Cardinality(DOMAIN l.data)
                + FoldFunctionOnSet(LAMBDA m, r : Cardinality(DOMAIN m.data) + r,
                                    0, list, Name \ {n})
InBounds(n, l) == l.size <= MaxSize /\ l.capacity <= MaxRoom /\ Room(n, l) <= MaxRoom

\* What a call makes of a list.
Of(separate, inline) == IF kind = "seperate" THEN separate ELSE inline
Becomes(n, result) == IF result = Overrun
                      THEN Break
                      ELSE Sound /\ InBounds(n, result) /\ list' = [list EXCEPT ![n] = result]

Positions(n) == 0 .. list[n].size - 1
-----------------------------------------------------------------------------
Init == /\ kind \in {"seperate", "inline"}
        /\ list = Fresh
        /\ broken = FALSE
        /\ call = << >>

AppendValue(n, v) ==
  /\ Becomes(n, Of(S!append(list[n], v), I!append(list[n], v)))
  /\ call' = <<"append", n, v>>

PrependValue(n, v) ==
  /\ Becomes(n, Of(S!prepend(list[n], v), I!prepend(list[n], v)))
  /\ call' = <<"prepend", n, v>>

InsertValue(n, pos, v) ==
  /\ Becomes(n, Of(S!insert(list[n], pos, v), I!insert(list[n], pos, v)))
  /\ call' = <<"insert", n, pos, v>>

\* pos is past the end.
InsertThrows(n) ==
  /\ Becomes(n, Of(S!insertThrown(list[n]), I!insertThrown(list[n])))
  /\ call' = <<"insert", n, OutOfRange>>

AppendOwn(n, i) ==
  /\ Becomes(n, Of(S!appendOwn(list[n], i), I!appendOwn(list[n], i)))
  /\ call' = <<"appendOwn", n, i>>

PrependOwn(n, i) ==
  /\ Becomes(n, Of(S!prependOwn(list[n], i), I!prependOwn(list[n], i)))
  /\ call' = <<"prependOwn", n, i>>

RemovePos(n, pos) == Becomes(n, Removed(list[n], pos)) /\ call' = <<"remove", n, pos>>

RemoveBack(n) == /\ list[n].size > 0
                 /\ Becomes(n, RemovedBack(list[n]))
                 /\ call' = <<"removeBack", n>>

RemoveFront(n) == /\ list[n].size > 0
                  /\ Becomes(n, RemovedFront(list[n]))
                  /\ call' = <<"removeFront", n>>

Clear(n) == Becomes(n, Cleared(list[n])) /\ call' = <<"clear", n>>

Reserve(n, newCap) ==
  /\ Becomes(n, Of(S!reserve(list[n], newCap), I!reserve(list[n], newCap)))
  /\ call' = <<"reserve", n, newCap>>

\* Destroyed, and constructed with a capacity.
Make(n, count) == Becomes(n, List(count)) /\ call' = <<"make", n, count>>

ExternalReallocate(n, newCap) ==
  /\ kind = "seperate"
  /\ Becomes(n, S!externalReallocated(list[n], newCap))
  /\ call' = <<"externalReallocate", n, newCap>>

CopyAssign(from, to) ==
  /\ kind = "seperate"
  /\ Becomes(to, IF from = to THEN S!selfCopied(list[to]) ELSE S!copied(list[from]))
  /\ call' = <<"copy", from, to>>

DeepCopy(from, to) ==
  /\ Becomes(to, IF from = to
                 THEN Of(S!selfDeepCopied(list[to]), I!selfDeepCopied(list[to]))
                 ELSE Of(S!deepCopied(list[from], list[to]), I!deepCopied(list[from], list[to])))
  /\ call' = <<"deepCopy", from, to>>

Move(from, to) ==
  /\ kind = "seperate"
  /\ Sound
  /\ list' = [n \in Name |-> IF n = from THEN S!Bare
                             ELSE IF n = to THEN list[from] ELSE list[n]]
  /\ call' = <<"move", from, to>>

Looks == Sound /\ UNCHANGED list

At(n, pos) ==
  /\ Looks
  /\ call' = <<"at", n, pos, IF pos < list[n].size THEN Place(list[n], pos) ELSE OutOfRange>>

Back(n) ==
  /\ Looks
  /\ call' = <<"back", n, IF list[n].size = 0 THEN OutOfRange
                          ELSE Place(list[n], list[n].size - 1)>>

\* To compare what was never written means nothing.
Written(n) == None \notin {Place(list[n], i) : i \in Positions(n)}
Equal(n, m) == /\ Looks
               /\ Written(n) /\ Written(m)
               /\ call' = <<"valueEquality", n, m, ValueEqual(list[n], list[m])>>

Data(n) == /\ Sound
           /\ list' = [list EXCEPT ![n].pointed = TRUE]
           /\ call' = <<"data", n>>

Read(n, i) ==
  /\ list[n].pointed
  /\ Looks
  /\ call' = <<"read", n, i, Of(S!dataAt(list[n], i), I!dataAt(list[n], i))>>

Capacities == 0 .. MaxRoom

Next ==
  /\ UNCHANGED kind
  /\ \E n \in Name :
       \/ \E v \in Value : AppendValue(n, v) \/ PrependValue(n, v)
       \/ \E pos \in 0 .. list[n].size : At(n, pos) \/ \E v \in Value : InsertValue(n, pos, v)
       \/ \E i \in Positions(n) : \/ AppendOwn(n, i) \/ PrependOwn(n, i)
                                  \/ RemovePos(n, i) \/ Read(n, i)
       \/ InsertThrows(n) \/ RemoveBack(n) \/ RemoveFront(n) \/ Clear(n)
       \/ Back(n) \/ Data(n)
       \/ \E c \in {0, BaseAllocation} : Make(n, c)
       \/ \E c \in Capacities : Reserve(n, c) \/ ExternalReallocate(n, c)
       \/ \E m \in Name : CopyAssign(n, m) \/ DeepCopy(n, m) \/ Move(n, m) \/ Equal(n, m)

Spec == Init /\ [][Next]_vars
-----------------------------------------------------------------------------
\* Lists whose capacity is not what their array has.
BareLists == {n \in Name : \/ list[n].capacity = 0
                         \/ list[n].capacity # Cardinality(DOMAIN list[n].data)}

(***************************************************************************)
(* A list that is not bare keeps its elements inside its array: copies,    *)
(* moves and the removal of fronts included, the next element it takes is  *)
(* written where there is room.                                            *)
(***************************************************************************)
InsideArray == ~broken => \A n \in Name \ BareLists :
                            list[n].front + list[n].size <= list[n].capacity

(***************************************************************************)
(* The lists are std::vectors except where Vectors says so, and a pointer  *)
(* that data() returned, from under the lock of a thread-safe list too, is *)
(* good until something is added to the list, it is reserved or replaced.  *)
(***************************************************************************)
LikeVectors == INSTANCE Vectors
  WITH Asked <- Capacities,
       items <- [n \in Name |-> Contents(list[n])],
       shifted <- {n \in Name : list[n].front > 0},
       bare <- BareLists,
       pointed <- {n \in Name : list[n].pointed}
VectorsSpec == LikeVectors!Spec
=============================================================================
