--------------------------- MODULE DynamicString ---------------------------
(***************************************************************************)
(* DynamicString: what its methods make of the string, a record of the     *)
(* array it owns, its size in characters and its capacity, which is taken  *)
(* both for the room in the array and for the code points in use.          *)
(*                                                                         *)
(* An operand is a string as a method sees it: its array, its size, the    *)
(* code points it says it has, and whether it is the string itself         *)
(* ("own"), a StaticString made from it ("view") or another one.           *)
(***************************************************************************)
EXTENDS Utf8

String(str, size, capacity) == [str |-> str, size |-> size, capacity |-> capacity]

\* The constructors: from size characters at an offset of an array, from a
\* number of code points of it, and as a copy.
constructed(str, offset, size) ==
  LET there == [k \in {i - offset : i \in {j \in DOMAIN str : j >= offset}} |-> str[k + offset]]
      n == codePointOffsetOfCharacterInString(there, size)
  IN Then(Copied(Memory(n), 0, there, 0, n), LAMBDA d : String(d, size, n))

constructedOf(str, offset, size, numCodePoints) ==
  Then(Copied(Memory(numCodePoints), 0, str, offset, numCodePoints),
       LAMBDA d : String(d, size, numCodePoints))

copy(other) == constructedOf(other.str, 0, other.size, other.capacity)

reallocated(string, newSize) ==
  Then(Copied(Memory(newSize), 0, string.str, 0, string.capacity),
       LAMBDA d : String(d, string.size, newSize))

\* What an operand is once the string it may be, or lie in, was reallocated.
After(o, string) ==
  CASE o.is = "own"   -> [o EXCEPT !.str = string.str, !.codePoints = string.capacity]
    [] o.is = "view"  -> [o EXCEPT !.str = Memory(0)]
    [] o.is = "other" -> o

Offset(string, pos) == codePointOffsetOfCharacterInString(string.str, pos)
-----------------------------------------------------------------------------
concatenated(string, o) ==
  Then(reallocated(string, string.capacity + o.codePoints), LAMBDA s :
    LET now == After(o, s)
    IN Then(Copied(s.str, string.capacity, now.str, 0, now.codePoints),
            LAMBDA d : String(d, s.size + o.size, s.capacity)))

concatenatedFront(string, o) ==
  Then(reallocated(string, string.capacity + o.codePoints), LAMBDA s :
    LET now == After(o, s)
    IN Then(Copied(s.str, now.codePoints, s.str, 0, string.capacity), LAMBDA d :
         Then(Copied(d, 0, now.str, 0, now.codePoints),
              LAMBDA e : String(e, s.size + o.size, s.capacity))))

\* A mutant: the end of the string is taken after the reallocation.
inserted_NewCapacity(string, pos, o) ==
  Then(reallocated(string, string.capacity + o.codePoints), LAMBDA s :
    LET now == After(o, s)
    IN Then(selfInsertReplace(s.str, s.capacity, now.str, now.codePoints,
                              Offset(string, pos), Offset(string, pos)),
            LAMBDA d : String(d, s.size + o.size, s.capacity)))

inserted(string, pos, o) ==
  Then(reallocated(string, string.capacity + o.codePoints), LAMBDA s :
    LET now == After(o, s)
    IN Then(selfInsertReplace(s.str, string.capacity, now.str, now.codePoints,
                              Offset(string, pos), Offset(string, pos)),
            LAMBDA d : String(d, s.size + o.size, s.capacity)))

replaced(string, start, end, o) ==
  LET newCapacity == string.capacity + o.codePoints
                       - (Offset(string, end) - Offset(string, start))
      grows == newCapacity > string.capacity
  IN Then(IF grows THEN reallocated(string, newCapacity) ELSE string, LAMBDA s :
       LET now == IF grows THEN After(o, s) ELSE o
       IN Then(selfInsertReplace(s.str, string.capacity, now.str, now.codePoints,
                                 Offset(string, start), Offset(string, end)), LAMBDA d :
            LET t == String(d, s.size + o.size - (end - start), s.capacity)
            IN IF newCapacity < t.capacity THEN reallocated(t, newCapacity) ELSE t))

\* The first character of o in the place of the one at pos, which may be
\* past the last.
FirstWidth(str, size, offset) ==
  IF size = 0 THEN 0 ELSE IF offset \in DOMAIN str THEN numCodePointsInFirstCharacter(str[offset])
                                                   ELSE npos

\* Beyond the end, remainingLength is an offset, not a length.
Shifted(string, offset, old, new) ==
  LET remainingLength == Offset(string, string.size)
  IN Copied(string.str, offset + new, string.str, offset + old,
            offset + remainingLength - (offset + old))

set(string, pos, o) ==
  LET offset == Offset(string, pos)
      old == FirstWidth(string.str, string.size, offset)
      new == FirstWidth(o.str, o.size, 0)
      remainingLength == Offset(string, string.size)
      wider == /\ new > old
               /\ remainingLength + new - old >= string.capacity
  IN IF old = npos THEN Overrun
     ELSE Then(IF wider THEN reallocated(string, 2 * string.capacity) ELSE string, LAMBDA s :
            LET now == IF wider THEN After(o, s) ELSE o
            IN Then(IF old = new THEN s.str ELSE Shifted(s, offset, old, new), LAMBDA d :
                 Then(Copied(d, offset, IF o.is = "own" THEN d ELSE now.str, 0, new),
                      LAMBDA e : String(e, s.size, s.capacity + new - old))))
-----------------------------------------------------------------------------
(* StaticString: the methods of an operand that make a new string.         *)

OperandOffset(o, pos) == codePointOffsetOfCharacterInString(o.str, pos)

\* All the code points up to the end of o, for len characters.
mutableSubstr(o, pos, len) ==
  constructedOf(o.str, OperandOffset(o, pos), len,
                OperandOffset(o, o.size) - OperandOffset(o, pos))

joined(first, second) ==
  LET numCodePoints == first.codePoints + second.codePoints
  IN Then(concatenate(first.str, first.codePoints, second.str, second.codePoints,
                      Memory(numCodePoints)),
          LAMBDA d : String(d, first.size + second.size, numCodePoints))

joinedAt(o, pos, other) ==
  LET numCodePoints == o.codePoints + other.codePoints
  IN Then(insert(o.str, OperandOffset(o, pos), o.codePoints, other.str, other.codePoints,
                 Memory(numCodePoints)),
          LAMBDA d : String(d, o.size + other.size, numCodePoints))
-----------------------------------------------------------------------------
(* An iterator at the character at pos, as findItterator makes it: m_pos   *)
(* counts characters, m_chrIndex code points.  Moving, it reads and counts *)
(* them the other way round.                                               *)

ItteratorAt(o, pos) == [m_pos |-> pos, m_chrIndex |-> OperandOffset(o, pos)]

\* A continuation leaves m_pos where it is.
Step(codePoint) == LET n == numCodePointsInFirstCharacter(codePoint) IN IF n = npos THEN 0 ELSE n

previous(o, it) ==
  IF it.m_pos - 1 \notin DOMAIN o.str THEN Overrun
  ELSE LET m_pos == it.m_pos - Step(o.str[it.m_pos - 1])
       IN IF m_pos < 0 THEN [m_pos |-> 0, m_chrIndex |-> 0, end |-> TRUE]
          ELSE [m_pos |-> m_pos, m_chrIndex |-> it.m_chrIndex - 1, end |-> FALSE]

next(o, it) ==
  IF it.m_pos + 1 \notin DOMAIN o.str THEN Overrun
  ELSE LET moved == [m_pos |-> it.m_pos + Step(o.str[it.m_pos + 1]),
                     m_chrIndex |-> it.m_chrIndex + 1]
       IN IF moved.m_chrIndex > o.size
          THEN Then(previous(o, moved), LAMBDA back : [back EXCEPT !.end = TRUE])
          ELSE [m_pos |-> moved.m_pos, m_chrIndex |-> moved.m_chrIndex, end |-> FALSE]

\* The character that operator* makes a string of.
get(o, it) == CharacterAt(o.str, it.m_pos)
=============================================================================
