---------------------------- MODULE ListInternal ----------------------------
(***************************************************************************)
(* list_internal.inl: the header of a list and its array as a record, and  *)
(* what the functions shared by the lists make of it.  Elements are        *)
(* trivially copyable, the only ones the lists handle (they assign to      *)
(* memory where nothing was constructed), so a copy may overlap itself.    *)
(* Positions count from 0; None is in every place never written.           *)
(***************************************************************************)
EXTENDS Integers, Sequences

CONSTANTS
  Value,    \* the elements
  None      \* what is in memory that was never written

\* What a call makes of a list when it wrote past the end of an array, or read
\* one that was freed or never written: not a list.
Overrun == [overrun |-> TRUE]

Array(room) == [i \in 0 .. room - 1 |-> None]

\* pointed: somebody holds a pointer to the array.
List(room) == [size |-> 0, capacity |-> room, front |-> 0, data |-> Array(room),
               pointed |-> FALSE]

\* std::copy and std::copy_backward: count elements of source, from one
\* place on, into dest from another on.
Blit(dest, to, source, from, count) ==
  [i \in DOMAIN dest |-> IF i \in to .. to + count - 1 THEN source[from + i - to]
                                                       ELSE dest[i]]

Place(l, k) == l.data[l.front + k]
Contents(l) == [k \in 1 .. l.size |-> Place(l, k - 1)]

\* append, prepend and insert write up to here.
HasRoom(l) == l.size \in DOMAIN l.data

\* A mutant: the room at the front is forgotten.
Rebased_FromStart(l, room) ==
  [List(room) EXCEPT !.size = l.size,
                     !.data = Blit(@, 0, l.data, 0, l.size)]

\* The elements at the start of a new array.
Rebased(l, room) ==
  [List(room) EXCEPT !.size = l.size,
                     !.data = Blit(@, 0, l.data, l.front, l.size)]
-----------------------------------------------------------------------------
(* In place.  With a new array the functions first do what Rebased does.   *)

Appended(l, value) == [l EXCEPT !.data[l.size] = value, !.size = @ + 1]

AppendConstructed(l, value) == [Appended(l, value) EXCEPT !.front = 0]

Inserted(l, pos, value) ==
  [l EXCEPT !.data = [Blit(@, pos + 1, @, l.front + pos, l.size - pos)
                        EXCEPT ![pos] = value],
            !.size = @ + 1,
            !.front = 0]

Prepended(l, value) == Inserted(l, 0, value)

\* value is a reference to the element at i, which has been moved by the
\* time it is read.
PrependedOwn(l, i) ==
  Prepended(l, Blit(l.data, 1, l.data, l.front, l.size)[l.front + i])

Removed(l, pos) ==
  [l EXCEPT !.data = Blit(@, l.front + pos, @, l.front + pos + 1, l.size - pos - 1),
            !.size = @ - 1]
RemovedBack(l) == [l EXCEPT !.size = @ - 1]
RemovedFront(l) == [l EXCEPT !.size = @ - 1, !.front = @ + 1]

Cleared(l) == [l EXCEPT !.size = 0, !.front = 0]

\* Only the elements of the destination; its capacity stays what it was.
DeepCopied(source, dest) ==
  [dest EXCEPT !.data = Blit(@, 0, source.data, source.front, source.size),
               !.size = source.size,
               !.front = 0]

ValueEqual(l, m) == /\ l.size = m.size
                    /\ \A i \in 0 .. l.size - 1 : Place(l, i) = Place(m, i)
=============================================================================
