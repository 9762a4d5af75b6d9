----------------------------- MODULE InlineList -----------------------------
(***************************************************************************)
(* inline_list.inl and inline_list_data_block.inl: what the calls make of  *)
(* a list whose header is at the start of its array.  The copy and move    *)
(* constructors leave the list with no block and are not called; operator= *)
(* is declared only.                                                       *)
(***************************************************************************)
EXTENDS ListInternal

\* allocateElements and reallocate write a header with one element behind it.
NewBlock(l, capacity) ==
  IF l.size <= capacity /\ capacity > 0 THEN Rebased(l, capacity) ELSE Overrun

\* A mutant: the room at the front is forgotten.
Full_IgnoringFront(l) == l.size >= l.capacity

Full(l) == l.size + l.front >= l.capacity

\* copyAppend, copyPrepend, copyInsert into a block of twice the capacity, or
\* safeAppend, safePrepend, safeInsert in place.
Grown(l) == IF Full(l) THEN NewBlock(l, l.capacity * 2) ELSE l
Fits(l) == Grown(l) # Overrun /\ HasRoom(Grown(l))

append(l, value) == IF Fits(l) THEN Appended(Grown(l), value) ELSE Overrun
prepend(l, value) == IF Fits(l) THEN Prepended(Grown(l), value) ELSE Overrun
insert(l, pos, value) == IF Fits(l) THEN Inserted(Grown(l), pos, value) ELSE Overrun

\* The new block of copyInsert is not installed.
insertThrown(l) == IF Full(l) /\ l.capacity = 0 THEN Overrun ELSE l

\* The old block is freed last.
appendOwn(l, i) == append(l, Place(l, i))
prependOwn(l, i) == IF Full(l) THEN prepend(l, Place(l, i)) ELSE PrependedOwn(l, i)

\* Whatever the capacity was.
reserve(l, newCap) == NewBlock(l, newCap)

dataAt(l, i) == Place(l, i)

deepCopied(source, dest) ==
  LET cleared == reserve(Cleared(dest), source.size)
  IN  IF cleared = Overrun THEN Overrun ELSE DeepCopied(source, cleared)

\* Cleared before its size is read.
selfDeepCopied(l) == reserve(Cleared(l), 0)
=============================================================================
