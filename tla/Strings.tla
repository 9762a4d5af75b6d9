------------------------------ MODULE Strings ------------------------------
(***************************************************************************)
(* DynamicStrings that are made, changed, compared and searched, with      *)
(* string literals and StaticStrings made from them, and their iterators.  *)
(***************************************************************************)
EXTENDS DynamicString, Unicode

CONSTANTS
  Name,             \* the strings
  Literal,          \* the texts of the string literals
  OutOfRange,       \* the exception
  MaxSize,          \* bound: the most characters in a string
  MaxRoom,          \* bound: the most room in an array
  MaxCapacity       \* bound: the most that is taken for a capacity

VARIABLES
  string,
  broken,   \* a call has overrun an array, or left what is no UTF-8: "overrun",
            \* "malformed" or "no"
  call      \* the last call: its name, the strings and arguments, what it returned

vars == <<string, broken, call>>

Fresh == [n \in Name |-> String(Memory(0), 0, 0)]

\* A literal ends with a zero that is none of its characters.
LiteralArray(t) == LET s == EncodedText(t) \o <<0>> IN [i \in 0 .. Len(s) - 1 |-> s[i + 1]]

\* Operands: literals, and strings as they are or as StaticStrings.
Operands == {<<"literal", t>> : t \in Literal} \cup ({"static", "dynamic"} \X Name)
Others(n) == {o \in Operands : o[2] # n}
\* Those to look at; a StaticString is no different then.
Looked == {o \in Operands : o[1] # "static"}

Seen(o) ==
  IF o[1] = "literal"
  THEN [is |-> "other", str |-> LiteralArray(o[2]), size |-> Len(o[2]), codePoints |-> Width(o[2])]
  ELSE LET s == string[o[2]]
       IN [is |-> IF o[1] = "static" THEN "view" ELSE "own", str |-> s.str, size |-> s.size,
           codePoints |-> IF o[1] = "static" THEN Offset(s, s.size) ELSE s.capacity]

\* As a method of n sees it.
SeenBy(n, o) == IF o[2] = n THEN Seen(o) ELSE [Seen(o) EXCEPT !.is = "other"]

\* Of what the strings are once one was broken, nothing is told.
Sound == broken = "no" /\ broken' = "no"
Break(how) == broken = "no" /\ broken' = how /\ string' = Fresh

CharactersOf(s) == Characters(s.str, s.size)
Compliant(s) == \A i \in 1 .. s.size : IsCharacter(CharactersOf(s)[i])
InBounds(s) == /\ s.size <= MaxSize
               /\ s.capacity <= MaxCapacity
               /\ Cardinality(DOMAIN s.str) <= MaxRoom

Becomes(n, result) ==
  IF result = Overrun THEN Break("overrun")
  ELSE /\ InBounds(result)
       /\ IF Compliant(result) THEN Sound /\ string' = [string EXCEPT ![n] = result]
                               ELSE Break("malformed")

Looks == Sound /\ UNCHANGED string
-----------------------------------------------------------------------------
Init == /\ string = Fresh
        /\ broken = "no"
        /\ call = << >>

(* n is destroyed, and made anew.                                          *)

Make(n, t) == /\ Becomes(n, constructed(LiteralArray(t), 0, Len(t)))
              /\ call' = <<"make", n, t>>

Copy(n, m) == /\ Becomes(n, copy(string[m]))
              /\ call' = <<"copy", n, m>>

Substr(n, m, pos, len) ==
  /\ Becomes(n, constructed(string[m].str, Offset(string[m], pos), len))
  /\ call' = <<"substr", n, <<"dynamic", m>>, pos, len>>

MutableSubstr(n, o, pos, len) == /\ Becomes(n, mutableSubstr(Seen(o), pos, len))
                                 /\ call' = <<"mutableSubstr", n, o, pos, len>>

Join(n, o, p) == /\ Becomes(n, joined(Seen(o), Seen(p)))
                 /\ call' = <<"join", n, o, p>>

JoinFront(n, o, p) == /\ Becomes(n, joined(Seen(p), Seen(o)))
                      /\ call' = <<"joinFront", n, o, p>>

JoinAt(n, o, p, pos) == /\ Becomes(n, joinedAt(Seen(o), pos, Seen(p)))
                        /\ call' = <<"joinAt", n, o, p, pos>>

(* n is changed.  A position past the end is an exception.                 *)

Concatenate(n, o) == /\ Becomes(n, concatenated(string[n], SeenBy(n, o)))
                     /\ call' = <<"concatenate", n, o>>

ConcatenateFront(n, o) == /\ Becomes(n, concatenatedFront(string[n], SeenBy(n, o)))
                          /\ call' = <<"concatenateFront", n, o>>

Insert(n, pos, o) == /\ IF pos > string[n].size THEN Looks
                        ELSE Becomes(n, inserted(string[n], pos, SeenBy(n, o)))
                     /\ call' = <<"insert", n, pos, o>>

Replaces(n, start, end, o) == IF start > string[n].size \/ end > string[n].size THEN Looks
                              ELSE Becomes(n, replaced(string[n], start, end, SeenBy(n, o)))

Replace(n, start, end, o) == /\ Replaces(n, start, end, o)
                             /\ call' = <<"replace", n, start, end, o>>

FindIn(o, p) == LET s == Seen(o)
                    t == Seen(p)
                IN IF t.size > s.size THEN [index |-> npos, codePointOffset |-> 0]
                   ELSE find(s.str, s.size, t.str, t.size)

\* What is not found is at npos, past the end.
ReplaceText(n, p, o) ==
  LET start == FindIn(<<"dynamic", n>>, p).index
  IN /\ Replaces(n, start, start + Seen(p).size, o)
     /\ call' = <<"replaceText", n, p, o>>

Set(n, pos, m) == /\ IF pos > string[n].size THEN Looks
                     ELSE Becomes(n, set(string[n], pos, SeenBy(n, <<"dynamic", m>>)))
                  /\ call' = <<"set", n, pos, <<"dynamic", m>>>>

(* Strings are looked at.                                                  *)

Answered(c) == /\ IF Last(c) = Overrun THEN Break("overrun") ELSE Looks
               /\ call' = c

\* A DynamicString copies the character.
At(o, pos) ==
  LET s == Seen(o)
      chr == CharacterAt(s.str, OperandOffset(s, pos))
  IN Answered(<<"at", o, pos, CASE pos > s.size -> OutOfRange
                                [] pos <= s.size /\ o[1] = "dynamic" /\ chr = NotThere -> Overrun
                                [] OTHER -> chr>>)

Equal(o, p) == LET s == Seen(o) t == Seen(p)
               IN Answered(<<"equal", o, p, equality(s.str, s.size, t.str, t.size)>>)

Compare(o, p) == LET s == Seen(o) t == Seen(p)
                 IN Answered(<<"compare", o, p, compare(s.str, s.size, t.str, t.size)>>)

Found(r) == <<r.index, r.codePointOffset>>
\* Of no character there is none among the others, either.
Among(s, t) == IF t.size = 0 THEN <<npos, 0>>
               ELSE Found(findAnyCharacter(s.str, s.size, t.str, t.size))
NotAmong(s, t) == IF t.size = 0 THEN <<npos, 0>>
                  ELSE Found(findNotAnyCharacter(s.str, s.size, t.str, t.size))

\* find and contains, findAnyCharacter, findNotAnyCharacter, their iterators,
\* startsWith and endsWith.
Search(o, p) ==
  LET s == Seen(o)
      t == Seen(p)
  IN Answered(<<"search", o, p, [find   |-> Found(FindIn(o, p)),
                                 any    |-> Among(s, t),
                                 notAny |-> NotAmong(s, t),
                                 starts |-> startsWith(s.str, s.size, t.str, t.size),
                                 ends   |-> endsWith(s.str, s.size, t.str, t.size)]>>)

\* The iterator of a character that was found is moved, and asked for the
\* character it is at.
Move(o, pos, by) ==
  LET s == Seen(o)
      moved == IF by = 1 THEN next(s, ItteratorAt(s, pos)) ELSE previous(s, ItteratorAt(s, pos))
  IN Answered(<<"move", o, pos, by,
       Then(moved, LAMBDA it : IF get(s, it) = NotThere THEN Overrun
                               ELSE <<it.m_pos, it.m_chrIndex, it.end, get(s, it)>>)>>)

Parts(size) == {r \in (0 .. size) \X (0 .. size) : r[1] + r[2] <= size}

Next ==
  \/ \E n \in Name :
       \/ \E t \in Literal : Make(n, t)
       \/ \E m \in Name \ {n} :
            LET o == <<"static", m>>
            IN \/ Copy(n, m)
               \/ \E r \in Parts(string[m].size) : \/ Substr(n, m, r[1], r[2])
                                                 \/ MutableSubstr(n, o, r[1], r[2])
               \/ \E p \in Others(n) :
                    \/ Join(n, o, p) \/ JoinFront(n, o, p)
                    \/ \E pos \in 0 .. string[m].size : JoinAt(n, o, p, pos)
       \/ \E o \in Operands :
            \/ Concatenate(n, o) \/ ConcatenateFront(n, o)
            \/ \E pos \in 0 .. string[n].size + 1 : Insert(n, pos, o)
            \/ \E r \in Parts(string[n].size) \cup {<<0, string[n].size + 1>>} :
                 Replace(n, r[1], r[1] + r[2], o)
            \/ \E p \in Looked : ReplaceText(n, p, o)
       \/ \E m \in {l \in Name : string[l].size > 0} :
            \E pos \in 0 .. string[n].size + 1 : Set(n, pos, m)
  \/ \E n \in Name, kind \in {"static", "dynamic"} :
       LET o == <<kind, n>>
       IN \/ \E pos \in 0 .. string[n].size + 1 : At(o, pos)
          \/ \E pos \in 0 .. string[n].size - 1, by \in {-1, 1} : Move(o, pos, by)
  \/ \E o, p \in Looked : \/ Equal(o, p) \/ Compare(o, p) \/ Search(o, p)

Spec == Init /\ [][Next]_vars
-----------------------------------------------------------------------------
\* Their capacity is not the width of their text.
LooseStrings == {n \in Name : string[n].capacity # Offset(string[n], string[n].size)}

(***************************************************************************)
(* The strings are texts except where Texts says so: every call gives the  *)
(* text, or the answer, that it should.                                    *)
(***************************************************************************)
LikeTexts == INSTANCE Texts
  WITH text <- [n \in Name |-> [i \in 1 .. string[n].size |->
                                 unicodeValue(CharactersOf(string[n])[i])]],
       broken <- broken # "no",
       loose <- LooseStrings
TextsSpec == LikeTexts!Spec

(***************************************************************************)
(* tests/src/main.cpp:2547-2572: a part of a string can be replaced by     *)
(* nothing, or by less than it was, and the result lies in the string's    *)
(* memory.  The string and its operand are two, and neither is loose.      *)
(***************************************************************************)
ReplacesInMemory ==
  [][(/\ broken = "no"
      /\ call'[1] = "replace"
      /\ call'[2] \notin LooseStrings
      /\ call'[5][2] \notin LooseStrings \cup {call'[2]}) => broken' = "no"]_vars
=============================================================================
