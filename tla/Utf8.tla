-------------------------------- MODULE Utf8 --------------------------------
(***************************************************************************)
(* utf-8.inl: what the strings read in an array of code points and how     *)
(* they copy parts of one into another.  An array is a function from       *)
(* 0 .. room-1; to touch it elsewhere is Overrun.  What walks over the     *)
(* characters of a string one after the other is said of the sequence of   *)
(* its characters.                                                         *)
(***************************************************************************)
EXTENDS Integers, Sequences, SequencesExt, FiniteSetsExt

CONSTANTS
  npos,       \* more than any offset
  Overrun

\* No code point: what is in memory that was never written.
Unwritten == 256

Leads(n) == IF n = 1 THEN 0 .. 127 ELSE 256 - 2^(8 - n) .. 255 - 2^(7 - n)
Continuations == 128 .. 191

numCodePointsInFirstCharacter(codePoint) ==
  IF \E n \in 1 .. 7 : codePoint \in Leads(n)
  THEN CHOOSE n \in 1 .. 7 : codePoint \in Leads(n)
  ELSE npos

codePointOffsetOfCharacterInString(str, pos) ==
  LET offset[i \in 0 .. pos] ==
        IF i = 0 THEN 0
        ELSE LET before == offset[i - 1]
             IN IF before \in DOMAIN str
                THEN before + numCodePointsInFirstCharacter(str[before])
                ELSE npos
  IN offset[pos]

NotThere == << >>
CharacterAt(str, offset) ==
  LET n == IF offset \in DOMAIN str THEN numCodePointsInFirstCharacter(str[offset]) ELSE npos
  IN IF offset + n - 1 \in DOMAIN str THEN [k \in 1 .. n |-> str[offset + k - 1]]
                                      ELSE NotThere

Characters(str, size) ==
  [i \in 1 .. size |-> CharacterAt(str, codePointOffsetOfCharacterInString(str, i - 1))]

IsCharacter(chr) == chr # NotThere /\ \A k \in 2 .. Len(chr) : chr[k] \in Continuations

unicodeValue(chr) ==
  IF Len(chr) = 1 THEN chr[1]
  ELSE FoldLeft(LAMBDA value, codePoint : 64 * value + (codePoint % 64),
                chr[1] % (2^(7 - Len(chr))), Tail(chr))
-----------------------------------------------------------------------------
\* As many characters of the second as the first has; its size is not asked.
equality(str1, size1, str2, size2) ==
  LET first == Characters(str1, size1)
      second == Characters(str2, size1)
      unlike == {i \in 1 .. size1 : first[i] # second[i]}
  IN IF unlike = {} THEN TRUE
     ELSE IF second[Min(unlike)] = NotThere THEN Overrun ELSE FALSE

\* 1 when the first string comes before the second.
compare(str1, size1, str2, size2) ==
  LET first(i) == unicodeValue(Characters(str1, size1)[i])
      second(i) == unicodeValue(Characters(str2, size2)[i])
      unlike == {i \in 1 .. Min({size1, size2}) : first(i) # second(i)}
  IN CASE unlike # {} -> IF first(Min(unlike)) < second(Min(unlike)) THEN 1 ELSE -1
       [] unlike = {} /\ size1 > size2 -> -1
       [] unlike = {} /\ size1 < size2 -> 1
       [] unlike = {} /\ size1 = size2 -> 0

FirstOf(str, indices) ==
  IF indices = {} THEN [index |-> npos, codePointOffset |-> 0]
  ELSE [index |-> Min(indices),
        codePointOffset |-> codePointOffsetOfCharacterInString(str, Min(indices))]

find(str1, size1, str2, size2) ==
  LET first == Characters(str1, size1)
      second == Characters(str2, size2)
  IN FirstOf(str1, {i \in 0 .. size1 - 1 : /\ size2 + i <= size1
                                           /\ SubSeq(first, i + 1, i + size2) = second})

findAnyCharacter(str1, size1, str2, size2) ==
  LET first == Characters(str1, size1)
      second == ToSet(Characters(str2, size2))
  IN FirstOf(str1, {i \in 0 .. size1 - 1 : first[i + 1] \in second})

findNotAnyCharacter(str1, size1, str2, size2) ==
  LET first == Characters(str1, size1)
      second == ToSet(Characters(str2, size2))
  IN FirstOf(str1, {i \in 0 .. size1 - 1 : first[i + 1] \notin second})

startsWith(str1, size1, str2, size2) ==
  size1 # 0 /\ size2 # 0 /\ IsPrefix(Characters(str2, size2), Characters(str1, size1))

endsWith(str1, size1, str2, size2) ==
  size1 # 0 /\ size2 # 0 /\ IsSuffix(Characters(str2, size2), Characters(str1, size1))
-----------------------------------------------------------------------------
Memory(room) == [i \in 0 .. room - 1 |-> Unwritten]

\* std::copy and std::copy_backward of count code points; of bytes, both may
\* overlap.
Copied(dest, to, source, from, count) ==
  IF \/ count = 0
     \/ count > 0 /\ from + count - 1 \in DOMAIN source /\ to + count - 1 \in DOMAIN dest
  THEN [i \in DOMAIN dest |-> IF i \in to .. to + count - 1 THEN source[from + i - to]
                                                            ELSE dest[i]]
  ELSE Overrun

\* The rest of a function is not reached after an overrun.
Then(result, Rest(_)) == IF result = Overrun THEN Overrun ELSE Rest(result)

concatenate(str1, numCodePoints1, str2, numCodePoints2, dest) ==
  Then(Copied(dest, 0, str1, 0, numCodePoints1),
       LAMBDA d : Copied(d, numCodePoints1, str2, 0, numCodePoints2))

insert(str1, first1, total1, str2, numCodePoints2, dest) ==
  Then(Copied(dest, first1 + numCodePoints2, str1, first1, total1 - first1),
       LAMBDA d : Then(Copied(d, first1, str2, 0, numCodePoints2),
                       LAMBDA e : Copied(e, 0, str1, 0, first1)))

selfInsertReplace(str1, numCodePoints1, str2, numCodePoints2, two, three) ==
  Then(Copied(str1, two + numCodePoints2, str1, three, numCodePoints1 - three),
       LAMBDA d : Copied(d, two, str2, 0, numCodePoints2))
=============================================================================
