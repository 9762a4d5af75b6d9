------------------------------ MODULE Vectors ------------------------------
(***************************************************************************)
(* What the lists promise, with no word about arrays: to be like           *)
(* std::vector.  The code keeps less than that, here and nowhere else:     *)
(*                                                                         *)
(* a list whose front was removed is shifted until its elements are next   *)
(* moved to the start of an array; append and insert, past its front, then *)
(* promise the size only;                                                  *)
(* a list is bare when it is a copy, was moved away from, or was made with *)
(* no capacity; a call that adds to it may break the program;              *)
(* to add to a list one of its own elements, to copy it onto itself, to    *)
(* copy an empty one and to reserve less than it holds may do so, too.     *)
(***************************************************************************)
EXTENDS Integers, Sequences, SequencesExt

CONSTANTS
  Name,         \* the lists
  Value,        \* the elements
  OutOfRange,   \* the exception
  Asked         \* the capacities asked for

VARIABLES
  items,    \* the elements of each list
  shifted,
  bare,
  pointed,  \* the lists into whose array somebody holds a good pointer
  broken,   \* memory was overwritten, or read when it held nothing
  call      \* the last call: its name, the list and arguments, what it returned

vars == <<items, shifted, bare, pointed, broken, call>>

Init == /\ items \in [Name -> {<< >>}]
        /\ shifted = {} /\ bare = {} /\ pointed = {}
        /\ ~broken
        /\ call = << >>

Sound == ~broken /\ ~broken'
\* Nothing more is promised.
Break == broken'

Becomes(n, elements) == items' = [items EXCEPT ![n] = elements]
Resized(n, size) == /\ Len(items'[n]) = size
                    /\ \A m \in Name \ {n} : items'[m] = items[m]

\* A call that may take a new array.
MayMove(n) == /\ shifted' \in {shifted, shifted \ {n}}
              /\ bare' \in {bare, bare \ {n}}
              /\ pointed' \in {pointed, pointed \ {n}}

\* A pointer is good as long as nothing is added.
Stays == UNCHANGED <<bare, pointed>>
-----------------------------------------------------------------------------
Adds(n, pos, v, inOrder) ==
  \/ /\ Sound
     /\ \/ Becomes(n, InsertAt(items[n], pos + 1, v))
        \/ ~inOrder /\ Resized(n, Len(items[n]) + 1)
     /\ MayMove(n)
  \/ n \in bare /\ Break

AppendValue(n, v) == call' = <<"append", n, v>> /\ Adds(n, Len(items[n]), v, n \notin shifted)
PrependValue(n, v) == call' = <<"prepend", n, v>> /\ Adds(n, 0, v, TRUE)
InsertValue(n, pos, v) == call' = <<"insert", n, pos, v>> /\ Adds(n, pos, v, pos = 0 \/ n \notin shifted)

InsertThrows(n) == /\ call' = <<"insert", n, OutOfRange>>
                   /\ \/ Sound /\ UNCHANGED items /\ MayMove(n)
                      \/ n \in bare /\ Break

AppendOwn(n, i) == /\ call' = <<"appendOwn", n, i>>
                   /\ \/ Adds(n, Len(items[n]), items[n][i + 1], n \notin shifted)
                      \/ Break

\* Any element may come first.
PrependOwn(n, i) == /\ call' = <<"prependOwn", n, i>>
                    /\ \/ /\ Sound
                          /\ Resized(n, Len(items[n]) + 1)
                          /\ Tail(items'[n]) = items[n]
                          /\ MayMove(n)
                       \/ Break

RemovePos(n, pos) == /\ call' = <<"remove", n, pos>>
                     /\ Sound
                     /\ Becomes(n, RemoveAt(items[n], pos + 1))
                     /\ UNCHANGED shifted /\ Stays

RemoveBack(n) == /\ call' = <<"removeBack", n>>
                 /\ Sound
                 /\ Becomes(n, Front(items[n]))
                 /\ UNCHANGED shifted /\ Stays

RemoveFront(n) == /\ call' = <<"removeFront", n>>
                  /\ Sound
                  /\ Becomes(n, Tail(items[n]))
                  /\ shifted' = shifted \cup {n} /\ Stays

Clear(n) == /\ call' = <<"clear", n>>
            /\ Sound
            /\ Becomes(n, << >>)
            /\ shifted' = shifted \ {n} /\ Stays

Reserve(n, newCap) ==
  /\ call' = <<"reserve", n, newCap>>
  /\ \/ Sound /\ UNCHANGED items /\ MayMove(n)
     \/ (newCap = 0 \/ newCap < Len(items[n])) /\ Break

\* To memory that the list never uses.
ExternalReallocate(n, newCap) ==
  /\ call' = <<"externalReallocate", n, newCap>>
  /\ Sound
  /\ \/ UNCHANGED items
     \/ n \in shifted /\ Resized(n, Len(items[n]))
  /\ shifted' \in {shifted, shifted \ {n}}
  /\ bare' \in {bare, bare \cup {n}, bare \ {n}}
  /\ UNCHANGED pointed

Make(n, count) == /\ call' = <<"make", n, count>>
                  /\ Sound
                  /\ Becomes(n, << >>)
                  /\ shifted' = shifted \ {n}
                  /\ bare' = IF count = 0 THEN bare \cup {n} ELSE bare \ {n}
                  /\ pointed' = pointed \ {n}

\* Onto itself, a list is lost.
Copy(from, to) ==
  /\ call' \in {<<"copy", from, to>>, <<"deepCopy", from, to>>}
  /\ \/ /\ Sound
        /\ Becomes(to, IF from = to THEN << >> ELSE items[from])
        /\ shifted' = shifted \ {to}
        /\ bare' \in {bare \cup {to}, bare \ {to}}
        /\ pointed' = pointed \ {to}
     \/ (from = to \/ items[from] = << >>) /\ Break

\* The pointer goes with the array.
Move(from, to) ==
  /\ call' = <<"move", from, to>>
  /\ Sound
  /\ items' = [n \in Name |-> IF n = from THEN << >>
                              ELSE IF n = to THEN items[from] ELSE items[n]]
  /\ shifted' = (IF from \in shifted THEN shifted \cup {to} ELSE shifted \ {to}) \ {from}
  /\ bare' = (IF from \in bare THEN bare \cup {to} ELSE bare \ {to}) \cup {from}
  /\ pointed' = (IF from \in pointed THEN pointed \cup {to} ELSE pointed \ {to}) \ {from}

Looks == Sound /\ UNCHANGED <<items, shifted, bare, pointed>>

At(n, pos) == /\ call' = <<"at", n, pos, IF pos < Len(items[n]) THEN items[n][pos + 1]
                                                              ELSE OutOfRange>>
              /\ Looks
Back(n) == /\ call' = <<"back", n, IF items[n] = << >> THEN OutOfRange ELSE Last(items[n])>>
           /\ Looks
Equal(n, m) == call' = <<"valueEquality", n, m, items[n] = items[m]>> /\ Looks

Data(n) == /\ call' = <<"data", n>>
           /\ Sound
           /\ pointed' = pointed \cup {n}
           /\ UNCHANGED <<items, shifted, bare>>

\* Through a pointer: of a shifted list, some element or none.
Read(n, pos) == /\ n \in pointed
                /\ IF n \in shifted THEN Head(call') = "read"
                                    ELSE call' = <<"read", n, pos, items[n][pos + 1]>>
                /\ Looks

Next ==
  \E n \in Name :
     \/ \E v \in Value : AppendValue(n, v) \/ PrependValue(n, v)
     \/ \E pos \in 0 .. Len(items[n]) : At(n, pos) \/ \E v \in Value : InsertValue(n, pos, v)
     \/ \E i \in 0 .. Len(items[n]) - 1 : \/ AppendOwn(n, i) \/ PrependOwn(n, i)
                                          \/ RemovePos(n, i) \/ Read(n, i)
     \/ InsertThrows(n) \/ RemoveBack(n) \/ RemoveFront(n) \/ Clear(n)
     \/ Back(n) \/ Data(n)
     \/ \E c \in Asked : Reserve(n, c) \/ ExternalReallocate(n, c) \/ Make(n, c)
     \/ \E m \in Name : Copy(n, m) \/ Move(n, m) \/ Equal(n, m)

Spec == Init /\ [][Next]_vars
=============================================================================
