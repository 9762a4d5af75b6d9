-------------------------- MODULE SeperateDataList --------------------------
(***************************************************************************)
(* seperate_data_list.inl: what the calls make of a list whose array is    *)
(* apart from its header.                                                  *)
(***************************************************************************)
EXTENDS ListInternal

\* A list the constructors and the moves leave without an array.
Bare == List(0)

\* reallocate: the new capacity may be nothing, whatever the list holds.
Reallocated(l, newSize) == IF l.size <= newSize THEN Rebased(l, newSize) ELSE Overrun

Full(l) == l.size + l.front >= l.capacity
Grown(l) == IF Full(l) THEN Reallocated(l, l.capacity * 2) ELSE l

\* Whether there is room for one more once the list has grown.
Fits(l) == Grown(l) # Overrun /\ HasRoom(Grown(l))

append(l, value) == IF Fits(l) THEN AppendConstructed(Grown(l), value) ELSE Overrun
prepend(l, value) == IF Fits(l) THEN Prepended(Grown(l), value) ELSE Overrun
insert(l, pos, value) == IF Fits(l) THEN Inserted(Grown(l), pos, value) ELSE Overrun

\* pos is looked at after the list has grown.
insertThrown(l) == Grown(l)

\* The value is an element of the list itself: gone with the old array if the
\* list grows, and not moved yet when append reads it.
appendOwn(l, i) == IF Full(l) THEN Overrun ELSE append(l, Place(l, i))
prependOwn(l, i) == IF Full(l) \/ ~HasRoom(l) THEN Overrun ELSE PrependedOwn(l, i)

reserve(l, newCap) == IF newCap > l.capacity THEN Reallocated(l, newCap) ELSE l

\* The first element of data() is the first of the array.
dataAt(l, i) == l.data[i]

\* The copy constructor and operator=: the capacity was set to 0 before, and
\* stays 0.
copied(source) == DeepCopied(source, [List(source.size) EXCEPT !.capacity = 0])

\* deepCopy called by itself: the capacity stays that of the old array.
deepCopied(source, dest) ==
  DeepCopied(source, [List(source.size) EXCEPT !.capacity = dest.capacity])

\* operator= frees the list's own array first, and nothing is left to copy.
selfCopied(l) == Bare

\* deepCopy onto itself reads the new array, never written.
selfDeepCopied(l) == IF l.size = 0 THEN deepCopied(l, l) ELSE Overrun

\* externalReallocate writes the elements to the new memory and keeps the old.
externalReallocated(l, newCapacity) ==
  IF newCapacity >= l.size THEN [l EXCEPT !.capacity = newCapacity, !.front = 0] ELSE l
=============================================================================
