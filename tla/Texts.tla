------------------------------- MODULE Texts -------------------------------
(***************************************************************************)
(* What strings promise: each is a text, a sequence of unicode values.     *)
(* The code keeps less than that, here and nowhere else:                   *)
(*                                                                         *)
(* a string is loose when its capacity is not the width of its text: after *)
(* a character was set that is wider or narrower, or when it was cut out   *)
(* of a StaticString; to add to a loose string, or to add a loose one, may *)
(* break the program or put the text elsewhere;                            *)
(* so may to add a string to itself, to replace a part by a narrower one   *)
(* (which the tests do, see ReplacesInMemory in Strings), to set a         *)
(* character to one of another width unless it is the first, and to        *)
(* compare a string with a shorter one;                                    *)
(* equality may not ask for the second string's size, and answer for a     *)
(* prefix of it as for itself;                                             *)
(* iterators move as they should over ASCII only, and not off its ends.    *)
(***************************************************************************)
EXTENDS Unicode, FiniteSetsExt

CONSTANTS
  Name,         \* the strings that own their text
  npos,
  OutOfRange    \* the exception

VARIABLES
  text,     \* of each string
  loose,
  broken,   \* memory was overrun, or holds what is no UTF-8
  call      \* the last call: its name, the strings and arguments, what it returned

vars == <<text, loose, broken, call>>

Init == /\ text = [n \in Name |-> << >>]
        /\ loose = {}
        /\ ~broken
        /\ call = << >>

Sound == ~broken /\ ~broken'
\* Nothing more is promised.
Break == broken'

\* An operand is a literal text, or a string, as it is or as a StaticString.
Text(o) == IF o[1] = "literal" THEN o[2] ELSE text[o[2]]
Loose(o) == o[1] = "dynamic" /\ o[2] \in loose
Of(n, o) == o[1] # "literal" /\ o[2] = n

\* u in the place of the part of t from start to end.
Put(t, start, end, u) == SubSeq(t, 1, start) \o u \o SubSeq(t, end + 1, Len(t))

Becomes(n, t) == text' = [text EXCEPT ![n] = t]
Resized(n, size) == /\ Len(text'[n]) = size
                    /\ \A m \in Name \ {n} : text'[m] = text[m]
MayLoosen(n) == loose' \in {loose \cup {n}, loose \ {n}}
Looks == Sound /\ UNCHANGED <<text, loose>>
-----------------------------------------------------------------------------
(* A string made anew.                                                     *)

Make(n, t) == Sound /\ Becomes(n, t) /\ loose' = loose \ {n}

Copy(n, m) ==
  \/ /\ Sound /\ Becomes(n, text[m])
     /\ IF m \in loose THEN MayLoosen(n) ELSE loose' = loose \ {n}
  \/ m \in loose /\ Break

Substr(n, o, pos, len) == Make(n, SubSeq(Text(o), pos + 1, pos + len))

MutableSubstr(n, o, pos, len) ==
  /\ Sound
  /\ Becomes(n, SubSeq(Text(o), pos + 1, pos + len))
  /\ IF pos + len < Len(Text(o)) THEN MayLoosen(n) ELSE loose' = loose \ {n}

Join(n, t, o, elsewhere) ==
  \/ /\ Sound
     /\ \/ Becomes(n, t)
        \/ elsewhere /\ Resized(n, Len(t))
     /\ IF Loose(o) THEN MayLoosen(n) ELSE loose' = loose \ {n}
  \/ Loose(o) /\ Break
-----------------------------------------------------------------------------
(* A string changed.                                                       *)

Changes(n, o, t, elsewhere) ==
  \/ /\ Sound
     /\ \/ Becomes(n, t)
        \/ elsewhere /\ Resized(n, Len(t))
     /\ IF n \in loose \/ Loose(o) THEN MayLoosen(n) ELSE UNCHANGED loose
  \/ (n \in loose \/ Loose(o) \/ Of(n, o)) /\ Break

Concatenate(n, o) == Changes(n, o, text[n] \o Text(o), n \in loose)
ConcatenateFront(n, o) == Changes(n, o, Text(o) \o text[n], Loose(o))
Insert(n, pos, o) ==
  IF pos > Len(text[n]) THEN Looks
  ELSE Changes(n, o, Put(text[n], pos, pos, Text(o)), Loose(o))

Replaces(n, start, end, o) ==
  \/ Changes(n, o, Put(text[n], start, end, Text(o)), Loose(o))
  \/ Width(Text(o)) < Width(SubSeq(text[n], start + 1, end)) /\ Break

Replace(n, start, end, o) ==
  IF start > Len(text[n]) \/ end > Len(text[n]) THEN Looks ELSE Replaces(n, start, end, o)

Occurs(t, u) == {i \in 0 .. Len(t) - 1 : IsPrefix(u, SubSeq(t, i + 1, Len(t)))}
\* Of what does not occur, an exception.
ReplaceText(n, u, o) ==
  IF Occurs(text[n], Text(u)) = {} THEN Looks
  ELSE LET i == Min(Occurs(text[n], Text(u)))
       IN Replaces(n, i, i + Len(Text(u)), o)

\* Past the last character there is nothing to set, nor may there be memory.
Set(n, pos, m) ==
  LET t == text[n]
      before == Width(SubSeq(t, 1, pos))
      d == Width(<<Text(m)[1]>>) - Width(<<t[pos + 1]>>)
  IN IF pos > Len(t) THEN Looks
     ELSE IF pos = Len(t) THEN (Sound /\ Resized(n, Len(t)) /\ MayLoosen(n)) \/ Break
     ELSE \/ /\ Sound
             /\ Becomes(n, Put(t, pos, pos + 1, <<Text(m)[1]>>))
             /\ IF d > 0 THEN MayLoosen(n) ELSE UNCHANGED loose
          \/ d < 0 /\ pos > 0 /\ Break
          \/ d > 0 /\ (before + d > Width(t) \/ n \in loose) /\ Break
-----------------------------------------------------------------------------
(* A string looked at.                                                     *)

At(o, pos, answer) ==
  LET t == Text(o)
  IN CASE pos < Len(t) -> Looks /\ answer = Encoded(t[pos + 1])
       [] pos > Len(t) -> Looks /\ answer = OutOfRange
       [] pos = Len(t) -> Looks \/ (o[1] = "dynamic" /\ Break)

\* The first may be longer only if the second is a literal.
Equal(o, p, answer) ==
  \/ /\ Looks
     /\ answer \in {Text(o) = Text(p), IsPrefix(Text(o), Text(p))}
  \/ /\ Len(Text(o)) > Len(Text(p)) /\ p[1] # "literal"
     /\ Looks \/ Break

Before(t, u) ==
  LET unlike == {i \in 1 .. Min({Len(t), Len(u)}) : t[i] # u[i]}
  IN IF unlike = {} THEN Len(t) < Len(u) ELSE t[Min(unlike)] < u[Min(unlike)]
Compare(o, p, answer) ==
  /\ Looks
  /\ (answer = 1) = Before(Text(o), Text(p))
  /\ (answer = -1) = Before(Text(p), Text(o))

First(t, indices) == IF indices = {} THEN <<npos, 0>>
                     ELSE <<Min(indices), Width(SubSeq(t, 1, Min(indices)))>>
Search(o, p, answer) ==
  LET t == Text(o)
      u == Text(p)
      among == {i \in 0 .. Len(t) - 1 : t[i + 1] \in ToSet(u)}
      others == {i \in 0 .. Len(t) - 1 : t[i + 1] \notin ToSet(u)}
  IN /\ Looks
     /\ answer = [find |-> First(t, Occurs(t, u)),
                  any |-> First(t, among),
                  notAny |-> IF u = << >> THEN <<npos, 0>> ELSE First(t, others),
                  starts |-> t # << >> /\ u # << >> /\ IsPrefix(u, t),
                  ends |-> t # << >> /\ u # << >> /\ IsSuffix(u, t)]

Ascii(t) == \A i \in DOMAIN t : t[i] < 128
Move(o, pos, by, answer) ==
  LET t == Text(o)
      to == pos + by
  IN \/ /\ Looks
        /\ Ascii(t) /\ to \in 0 .. Len(t) - 1 =>
             answer = <<to, to, FALSE, Encoded(t[to + 1])>>
     \/ ~(Ascii(t) /\ to \in 0 .. Len(t) - 1) /\ Break
-----------------------------------------------------------------------------
Answers(c) ==
  CASE c[1] = "make"             -> Make(c[2], c[3])
    [] c[1] = "copy"             -> Copy(c[2], c[3])
    [] c[1] = "substr"           -> Substr(c[2], c[3], c[4], c[5])
    [] c[1] = "mutableSubstr"    -> MutableSubstr(c[2], c[3], c[4], c[5])
    [] c[1] = "join"             -> Join(c[2], Text(c[3]) \o Text(c[4]), c[4], FALSE)
    [] c[1] = "joinFront"        -> Join(c[2], Text(c[4]) \o Text(c[3]), c[4], Loose(c[4]))
    [] c[1] = "joinAt"           -> Join(c[2], Put(Text(c[3]), c[5], c[5], Text(c[4])), c[4],
                                         Loose(c[4]))
    [] c[1] = "concatenate"      -> Concatenate(c[2], c[3])
    [] c[1] = "concatenateFront" -> ConcatenateFront(c[2], c[3])
    [] c[1] = "insert"           -> Insert(c[2], c[3], c[4])
    [] c[1] = "replace"          -> Replace(c[2], c[3], c[4], c[5])
    [] c[1] = "replaceText"      -> ReplaceText(c[2], c[3], c[4])
    [] c[1] = "set"              -> Set(c[2], c[3], c[4])
    [] c[1] = "at"               -> At(c[2], c[3], c[4])
    [] c[1] = "equal"            -> Equal(c[2], c[3], c[4])
    [] c[1] = "compare"          -> Compare(c[2], c[3], c[4])
    [] c[1] = "search"           -> Search(c[2], c[3], c[4])
    [] c[1] = "move"             -> Move(c[2], c[3], c[4], c[5])

Next == call' # << >> /\ Answers(call')

Spec == Init /\ [][Next]_vars
=============================================================================
