------------------------- MODULE FinitePQueueProofs -------------------------
(***************************************************************************)
(* Theorems about FinitePQueue, for every number of priorities, block      *)
(* size, first allocation of the ring and number of elements.              *)
(***************************************************************************)
EXTENDS FinitePQueue, RingProofs, FiniteSetTheorems, WellFoundedInduction

-----------------------------------------------------------------------------
(* Numbers and sequences.                                                  *)

LEMMA LeastOf ==
  ASSUME NEW S, S \subseteq Nat, S # {}
  PROVE  \E m \in S : \A n \in S : m <= n
<1> DEFINE R == OpToRel(<, Nat)
<1>1. IsWellFoundedOn(R, Nat)
  BY NatLessThanWellFounded, Zenon
<1>2. \A n, m \in Nat : n < m => <<n, m>> \in R
  BY Zenon DEF OpToRel
<1> HIDE DEF R
<1>3. PICK m \in S : \A n \in S : ~ (<<n, m>> \in R)
  BY <1>1, WFMin
<1>4. ASSUME NEW n \in S
      PROVE  m <= n
  <2>1. m \in Nat /\ n \in Nat /\ ~ (n < m)
    BY <1>2, <1>3
  <2>2. QED
    BY <2>1
<1>5. QED
  BY <1>4

\* Induction over a set of numbers: the least it leaves out is not zero, and
\* does not come after one it holds.
LEMMA SetInduction ==
  ASSUME NEW T, 0 \in T, \A n \in Nat : n \in T => n + 1 \in T
  PROVE  Nat \subseteq T
<1> DEFINE left == Nat \ T
<1>1. SUFFICES ASSUME left # {} PROVE FALSE
  OBVIOUS
<1>2. PICK m \in left : \A n \in left : m <= n
  BY <1>1, LeastOf
<1>3. m \in Nat /\ m \notin T /\ m # 0 /\ m - 1 \in Nat /\ (m - 1) + 1 = m /\ ~ (m <= m - 1)
  OBVIOUS
<1>4. m - 1 \notin T
  BY <1>3
<1>5. QED
  BY <1>2, <1>3, <1>4

-----------------------------------------------------------------------------
(* The ring of free nodes.                                                 *)

LEMMA FreeOf ==
  ASSUME NEW ring, Typed(ring, Nat), InShape(ring)
  PROVE  /\ ring.size \in Nat
         /\ Line(ring) \in Seq(Nat) /\ Len(Line(ring)) = ring.size
         /\ FreeIn(ring) = {Line(ring)[i] : i \in 1 .. ring.size}
<1>1. Standing(ring) /\ ring.size \in Nat
  BY ShapeStands, Fields
<1>2. /\ Line(ring) \in Seq(Nat) /\ Len(Line(ring)) = ring.size
      /\ \A i \in 1 .. ring.size : /\ Spot(ring, i - 1) \in DOMAIN ring.data
                                   /\ Line(ring)[i] = ring.data[Spot(ring, i - 1)]
  BY <1>1, LineOf
<1>3. \A k \in DOMAIN ring.data : \E i \in 1 .. ring.size : ring.data[k] = Line(ring)[i]
  <2>1. SUFFICES ASSUME NEW k \in DOMAIN ring.data
                 PROVE  \E i \in 1 .. ring.size : ring.data[k] = Line(ring)[i]
    OBVIOUS
  <2>2. PICK j \in 0 .. ring.size - 1 : k = Spot(ring, j)
    BY <1>1 DEF Standing
  <2>3. j + 1 \in 1 .. ring.size /\ (j + 1) - 1 = j
    BY <1>1
  <2>4. QED
    BY <1>2, <2>2, <2>3
<1>4. \A i \in 1 .. ring.size : \E k \in DOMAIN ring.data : Line(ring)[i] = ring.data[k]
  BY <1>2
<1>5. FreeIn(ring) = {Line(ring)[i] : i \in 1 .. ring.size}
  <2> DEFINE A == FreeIn(ring)
             B == {Line(ring)[i] : i \in 1 .. ring.size}
  <2>1. \A x \in A : x \in B
    BY <1>3 DEF FreeIn
  <2>2. \A x \in B : x \in A
    BY <1>4 DEF FreeIn
  <2> HIDE DEF A, B
  <2>3. A = B
    BY <2>1, <2>2
  <2>4. QED
    BY <2>3 DEF A, B
<1>6. QED
  BY <1>1, <1>2, <1>5

\* r[n] is the ring with n nodes put in it, one after the other.
Filled(r, ring, first, m) ==
  r = [n \in 0 .. m |-> IF n = 0 THEN ring ELSE Enqueued(r[n - 1], first + n - 1)]

LEMMA RingsExist ==
  ASSUME NEW ring, NEW first, NEW k \in Nat
  PROVE  \E r : Filled(r, ring, first, k)
<1> DEFINE Made(r, m) == Filled(r, ring, first, m)
           T == {m \in Nat : \E r : Made(r, m)}
<1> USE DEF Filled
<1>1. 0 \in T
  <2> DEFINE r == [n \in 0 .. 0 |-> ring]
  <2>1. Made(r, 0)
    OBVIOUS
  <2>2. QED
    BY <2>1
<1>2. ASSUME NEW m \in Nat, m \in T
      PROVE  m + 1 \in T
  <2>1. PICK r : Made(r, m)
    BY <1>2
  <2> DEFINE s == [n \in 0 .. m + 1 |-> IF n = m + 1 THEN Enqueued(r[m], first + (m + 1) - 1)
                                        ELSE r[n]]
  <2>2. \A n \in 0 .. m + 1 : s[n] = IF n = 0 THEN ring ELSE Enqueued(s[n - 1], first + n - 1)
    <3>1. SUFFICES ASSUME NEW n \in 0 .. m + 1
                   PROVE  s[n] = IF n = 0 THEN ring ELSE Enqueued(s[n - 1], first + n - 1)
      OBVIOUS
    <3>2. CASE n = 0
      BY <2>1, <3>2
    <3>3. CASE n # 0 /\ n # m + 1
      <4>1. n \in 0 .. m /\ n - 1 \in 0 .. m /\ n - 1 # m + 1 /\ n - 1 \in 0 .. m + 1
        BY <3>3
      <4>2. s[n] = r[n] /\ s[n - 1] = r[n - 1]
        BY <4>1, <3>3
      <4>3. QED
        BY <2>1, <3>3, <4>1, <4>2
    <3>4. CASE n = m + 1
      <4>1. n - 1 = m /\ m # m + 1 /\ m \in 0 .. m + 1 /\ n # 0
        BY <3>4
      <4>2. s[n - 1] = r[m] /\ s[n] = Enqueued(r[m], first + n - 1)
        BY <3>4, <4>1
      <4>3. QED
        BY <4>1, <4>2
    <3>5. QED
      BY <3>2, <3>3, <3>4
  <2>3. Made(s, m + 1)
    BY <2>2
  <2> HIDE DEF s
  <2>4. \E q : Made(q, m + 1)
    BY <2>3, Zenon
  <2>5. QED
    BY <2>4
<1>3. Nat \subseteq T
  BY <1>1, <1>2, SetInduction
<1> HIDE DEF Filled
<1>4. QED
  BY <1>3

\* blockSize nodes stand in the ring as they were numbered.
LEMMA WithNodesOf ==
  ASSUME NEW ring, Typed(ring, Nat), InShape(ring), ring.size = 0, NEW first \in Nat
  PROVE  /\ Typed(WithNodes(ring, first), Nat) /\ InShape(WithNodes(ring, first))
         /\ WithNodes(ring, first).size = blockSize
         /\ \A i \in 1 .. blockSize : Line(WithNodes(ring, first))[i] = first + i - 1
<1> DEFINE r == CHOOSE r : Filled(r, ring, first, blockSize)
<1>1. blockSize \in Nat
  BY FinitePQueueAssumption
<1>2. WithNodes(ring, first) = r[blockSize]
  BY DEF WithNodes, Filled
<1>3. \E q : Filled(q, ring, first, blockSize)
  BY <1>1, RingsExist
<1>4. Filled(r, ring, first, blockSize)
  BY <1>3, Zenon
<1> HIDE DEF r
<1> DEFINE Holds(m) == /\ Typed(r[m], Nat) /\ InShape(r[m])
                       /\ Line(r[m]) \in Seq(Nat) /\ Len(Line(r[m])) = m /\ r[m].size = m
                       /\ \A i \in 1 .. m : Line(r[m])[i] = first + i - 1
           T == {m \in Nat : m <= blockSize => Holds(m)}
<1>5. 0 \in T
  <2>1. r[0] = ring
    BY <1>1, <1>4 DEF Filled
  <2>2. Holds(0)
    BY <2>1, FreeOf
  <2>3. QED
    BY <2>2
<1>6. ASSUME NEW m \in Nat, m \in T
      PROVE  m + 1 \in T
  <2>1. SUFFICES ASSUME m + 1 <= blockSize PROVE Holds(m + 1)
    OBVIOUS
  <2>2. Holds(m)
    BY <1>1, <1>6, <2>1
  <2> DEFINE v == first + (m + 1) - 1
  <2>3. r[m + 1] = Enqueued(r[m], v) /\ v \in Nat
    BY <1>1, <1>4, <2>1 DEF Filled
  <2> HIDE DEF v
  <2>4. /\ Typed(r[m + 1], Nat) /\ InShape(r[m + 1])
        /\ Line(r[m + 1]) = Append(Line(r[m]), v)
    BY <2>2, <2>3, ShapeFits, ShapeStands, EnqueuedOf
  <2>5. /\ Line(r[m + 1]) \in Seq(Nat)
        /\ Len(Line(r[m + 1])) = m + 1
        /\ \A i \in 1 .. m : Line(r[m + 1])[i] = Line(r[m])[i]
        /\ Line(r[m + 1])[m + 1] = v
    BY <2>2, <2>3, <2>4, AppendProperties
  <2>6. r[m + 1].size = m + 1
    BY <2>4, <2>5, FreeOf
  <2>7. \A i \in 1 .. m + 1 : i \in 1 .. m \/ i = m + 1
    OBVIOUS
  <2>8. QED
    BY <2>2, <2>4, <2>5, <2>6, <2>7 DEF v
<1>7. Nat \subseteq T
  BY <1>5, <1>6, SetInduction
<1>8. Holds(blockSize)
  BY <1>1, <1>7
<1>9. QED
  BY <1>2, <1>8

\* No node is in the ring twice.
LEMMA DistinctOf ==
  ASSUME NEW ring, Typed(ring, Nat), InShape(ring)
  PROVE  IsInjective(Line(ring)) <=>
           \A i, j \in 1 .. ring.size : Line(ring)[i] = Line(ring)[j] => i = j
<1>1. Line(ring) \in Seq(Nat) /\ Len(Line(ring)) = ring.size
  BY FreeOf
<1>2. DOMAIN Line(ring) = 1 .. ring.size
  BY <1>1
<1>3. QED
  BY <1>2 DEF IsInjective

LEMMA RingTakes ==
  ASSUME NEW ring, Typed(ring, Nat), InShape(ring), IsInjective(Line(ring)), ring.size > 0
  PROVE  /\ Typed(Dequeued(ring), Nat) /\ InShape(Dequeued(ring)) /\ IsInjective(Line(Dequeued(ring)))
         /\ Dequeued(ring).size = ring.size - 1
         /\ First(ring) \in FreeIn(ring) /\ First(ring) \in Nat
         /\ FreeIn(Dequeued(ring)) = FreeIn(ring) \ {First(ring)}
<1> DEFINE d == Dequeued(ring)
           l == Line(ring)
           m == Line(d)
           s == ring.size
<1>1. /\ Typed(d, Nat) /\ InShape(d) /\ l # << >> /\ First(ring) = Head(l) /\ m = Tail(l)
  BY ShapeStands, DequeuedOf
<1>2. s \in Nat /\ l \in Seq(Nat) /\ Len(l) = s /\ FreeIn(ring) = {l[i] : i \in 1 .. s}
  BY FreeOf
<1>3. m \in Seq(Nat) /\ Len(m) = s - 1 /\ \A i \in 1 .. s - 1 : m[i] = l[i + 1]
  BY <1>1, <1>2, HeadTailProperties
<1>4. d.size = s - 1 /\ FreeIn(d) = {m[i] : i \in 1 .. s - 1}
  BY <1>1, <1>3, FreeOf
<1>5. First(ring) = l[1] /\ l[1] \in Nat
  BY <1>1, <1>2
<1>6. \A i, j \in 1 .. s : l[i] = l[j] => i = j
  BY DistinctOf
<1> HIDE DEF d, l, m, s
<1>7. \A i, j \in 1 .. s - 1 : m[i] = m[j] => i = j
  <2>1. SUFFICES ASSUME NEW i \in 1 .. s - 1, NEW j \in 1 .. s - 1, m[i] = m[j]
                 PROVE  i = j
    OBVIOUS
  <2>2. i + 1 \in 1 .. s /\ j + 1 \in 1 .. s /\ l[i + 1] = l[j + 1]
    BY <1>2, <1>3, <2>1
  <2>3. i + 1 = j + 1
    BY <1>6, <2>2
  <2>4. QED
    BY <2>3
<1>8. s > 0
  BY DEF s
<1>9. FreeIn(d) = FreeIn(ring) \ {l[1]}
  <2>1. \A x \in FreeIn(d) : x \in FreeIn(ring) /\ x # l[1]
    <3>1. SUFFICES ASSUME NEW i \in 1 .. s - 1
                   PROVE  m[i] \in FreeIn(ring) /\ m[i] # l[1]
      BY <1>4
    <3>2. m[i] = l[i + 1]
      BY <1>3
    <3>3. s \in Nat
      BY <1>2
    <3>4. i + 1 \in 1 .. s /\ 1 \in 1 .. s /\ i + 1 # 1
      BY <1>8, <3>3
    <3>5. QED
      BY <1>2, <1>6, <3>2, <3>4
  <2>2. \A x \in FreeIn(ring) : x # l[1] => x \in FreeIn(d)
    <3>1. SUFFICES ASSUME NEW i \in 1 .. s, l[i] # l[1]
                   PROVE  l[i] \in FreeIn(d)
      BY <1>2
    <3>2. i - 1 \in 1 .. s - 1 /\ (i - 1) + 1 = i
      BY <1>2, <3>1
    <3>3. m[i - 1] = l[i]
      BY <1>3, <3>2
    <3>4. QED
      BY <1>4, <3>2, <3>3
  <2>3. QED
    BY <2>1, <2>2
<1>10. l[1] \in FreeIn(ring)
  BY <1>2, <1>8
<1>11. QED
  BY <1>1, <1>4, <1>5, <1>7, <1>9, <1>10, DistinctOf DEF d, m, s

LEMMA RingGets ==
  ASSUME NEW ring, Typed(ring, Nat), InShape(ring), IsInjective(Line(ring)),
         NEW v \in Nat, v \notin FreeIn(ring)
  PROVE  /\ Typed(Enqueued(ring, v), Nat) /\ InShape(Enqueued(ring, v))
         /\ IsInjective(Line(Enqueued(ring, v)))
         /\ Enqueued(ring, v).size = ring.size + 1
         /\ FreeIn(Enqueued(ring, v)) = FreeIn(ring) \cup {v}
<1> DEFINE d == Enqueued(ring, v)
           l == Line(ring)
           m == Line(d)
           s == ring.size
<1>1. Typed(d, Nat) /\ InShape(d) /\ m = Append(l, v)
  BY ShapeFits, ShapeStands, EnqueuedOf
<1>2. s \in Nat /\ l \in Seq(Nat) /\ Len(l) = s /\ FreeIn(ring) = {l[i] : i \in 1 .. s}
  BY FreeOf
<1>3. /\ m \in Seq(Nat) /\ Len(m) = s + 1
      /\ \A i \in 1 .. s : m[i] = l[i]
      /\ m[s + 1] = v
  BY <1>1, <1>2, AppendProperties
<1>4. d.size = s + 1 /\ FreeIn(d) = {m[i] : i \in 1 .. s + 1}
  <2>1. Len(m) = d.size /\ FreeIn(d) = {m[i] : i \in 1 .. d.size}
    BY <1>1, FreeOf
  <2> HIDE DEF d, m, s
  <2>2. QED
    BY <1>3, <2>1
<1>5. \A i, j \in 1 .. s : l[i] = l[j] => i = j
  BY DistinctOf
<1> HIDE DEF d, l, m, s
<1>6. \A i \in 1 .. s + 1 : i \in 1 .. s \/ i = s + 1
  BY <1>2
<1>7. \A i \in 1 .. s : l[i] # v
  BY <1>2
<1>8. \A i, j \in 1 .. s + 1 : m[i] = m[j] => i = j
  <2>1. SUFFICES ASSUME NEW i \in 1 .. s + 1, NEW j \in 1 .. s + 1, m[i] = m[j]
                 PROVE  i = j
    OBVIOUS
  <2>2. CASE i \in 1 .. s /\ j \in 1 .. s
    BY <1>3, <1>5, <2>1, <2>2
  <2>3. CASE i = s + 1 \/ j = s + 1
    BY <1>3, <1>6, <1>7, <2>1, <2>3
  <2>4. QED
    BY <1>6, <2>2, <2>3
<1>9. FreeIn(d) = FreeIn(ring) \cup {v}
  <2>1. \A x \in FreeIn(d) : x \in FreeIn(ring) \cup {v}
    BY <1>2, <1>3, <1>4, <1>6
  <2>2. \A i \in 1 .. s : i \in 1 .. s + 1 /\ s + 1 \in 1 .. s + 1
    BY <1>2
  <2>3. s + 1 \in 1 .. s + 1
    BY <1>2
  <2>4. \A x \in FreeIn(ring) \cup {v} : x \in FreeIn(d)
    BY <1>2, <1>3, <1>4, <2>2, <2>3
  <2>5. QED
    BY <2>1, <2>4
<1>10. QED
  BY <1>1, <1>4, <1>8, <1>9, DistinctOf DEF d, m, s

\* The ring counts the free nodes.
LEMMA RingCounts ==
  ASSUME NEW ring, Typed(ring, Nat), InShape(ring), IsInjective(Line(ring))
  PROVE  Cardinality(FreeIn(ring)) = ring.size
<1> DEFINE l == Line(ring)
           s == ring.size
<1>1. s \in Nat /\ l \in Seq(Nat) /\ Len(l) = s /\ FreeIn(ring) = {l[i] : i \in 1 .. s}
  BY FreeOf
<1>2. IsFiniteSet(1 .. s) /\ Cardinality(1 .. s) = s
  <2> HIDE DEF s
  <2>1. s \in Int /\ 1 \in Int /\ (IF 1 > s THEN 0 ELSE s - 1 + 1) = s
    BY <1>1
  <2>2. QED
    BY <2>1, FS_Interval
<1>3. \A i, j \in 1 .. s : l[i] = l[j] => i = j
  BY DistinctOf
<1>4. l = [i \in 1 .. s |-> l[i]]
  BY <1>1
<1> HIDE DEF l, s
<1>5. l \in [1 .. s -> FreeIn(ring)]
  BY <1>1, <1>4
<1>6. l \in Bijection(1 .. s, FreeIn(ring))
  <2>1. \A x \in FreeIn(ring) : \E i \in 1 .. s : l[i] = x
    BY <1>1
  <2>2. QED
    BY <1>3, <1>5, <2>1 DEF Bijection, Injection, Surjection, IsInjective
<1>7. ExistsBijection(1 .. s, FreeIn(ring))
  BY <1>6 DEF ExistsBijection
<1>8. QED
  BY <1>2, <1>7, FS_Bijection DEF s

-----------------------------------------------------------------------------
(* A list's nodes.                                                         *)

LEMMA Empties ==
  /\ Range(<< >>) = {} /\ IsInjective(<< >>)
  /\ \A c \in Seq(Nat) : Len(c) \in Nat /\ (Range(c) = {} => c = << >>)
<1>1. DOMAIN << >> = {}
  OBVIOUS
<1>2. ASSUME NEW c \in Seq(Nat)
      PROVE  Len(c) \in Nat /\ (c # << >> => Range(c) # {})
  <2>1. Len(c) \in Nat /\ DOMAIN c = 1 .. Len(c) /\ (c # << >> => Len(c) \in Nat \ {0})
    BY EmptySeq
  <2>2. c # << >> => 1 \in DOMAIN c
    BY <2>1
  <2>3. QED
    BY <2>1, <2>2 DEF Range
<1>3. QED
  BY <1>1, <1>2 DEF Range, IsInjective

LEMMA Appended ==
  ASSUME NEW c \in Seq(Nat), IsInjective(c), NEW v \in Nat, v \notin Range(c)
  PROVE  /\ IsInjective(Append(c, v)) /\ Range(Append(c, v)) = Range(c) \cup {v}
<1> DEFINE d == Append(c, v)
           n == Len(c)
<1>1. /\ d \in Seq(Nat) /\ Len(d) = n + 1 /\ d[n + 1] = v
      /\ \A i \in 1 .. n : d[i] = c[i]
  BY AppendProperties
<1>2. n \in Nat /\ DOMAIN c = 1 .. n
  OBVIOUS
<1>3. DOMAIN d = 1 .. n + 1
  BY <1>1
<1> HIDE DEF d, n
<1>4. \A i \in 1 .. n + 1 : i \in 1 .. n \/ i = n + 1
  BY <1>2
<1>5. \A i \in 1 .. n : i \in 1 .. n + 1 /\ i # n + 1
  BY <1>2
<1>6. n + 1 \in 1 .. n + 1
  BY <1>2
<1>7. \A i \in 1 .. n : d[i] # v
  BY <1>1, <1>2 DEF Range
<1>8. IsInjective(d)
  <2>1. SUFFICES ASSUME NEW i \in 1 .. n + 1, NEW j \in 1 .. n + 1, d[i] = d[j]
                 PROVE  i = j
    BY <1>3 DEF IsInjective
  <2>2. CASE i \in 1 .. n /\ j \in 1 .. n
    BY <1>1, <1>2, <2>1, <2>2 DEF IsInjective
  <2>3. CASE i = n + 1 \/ j = n + 1
    BY <1>1, <1>4, <1>7, <2>1, <2>3
  <2>4. QED
    BY <1>4, <2>2, <2>3
<1>9. Range(d) = Range(c) \cup {v}
  <2>1. \A x \in Range(d) : x \in Range(c) \cup {v}
    BY <1>1, <1>2, <1>3, <1>4 DEF Range
  <2>2. \A x \in Range(c) \cup {v} : x \in Range(d)
    BY <1>1, <1>2, <1>3, <1>5, <1>6 DEF Range
  <2>3. QED
    BY <2>1, <2>2
<1>10. QED
  BY <1>8, <1>9 DEF d

\* <<v>> \o c, as the code's lists grow at the front.
LEMMA PrependedAt ==
  ASSUME NEW S, NEW c \in Seq(S), NEW v \in S
  PROVE  /\ <<v>> \o c \in Seq(S)
         /\ Len(<<v>> \o c) = Len(c) + 1
         /\ (<<v>> \o c)[1] = v
         /\ \A i \in 1 .. Len(c) : (<<v>> \o c)[i + 1] = c[i]
<1>1. <<v>> \in Seq(S) /\ Len(<<v>>) = 1 /\ <<v>>[1] = v /\ Len(c) \in Nat
  OBVIOUS
<1>2. /\ <<v>> \o c \in Seq(S)
      /\ Len(<<v>> \o c) = 1 + Len(c)
      /\ \A i \in 1 .. 1 + Len(c) : (<<v>> \o c)[i] = IF i <= 1 THEN <<v>>[i] ELSE c[i - 1]
  BY <1>1, ConcatProperties
<1>3. \A i \in 1 .. Len(c) : i + 1 \in 1 .. 1 + Len(c) /\ ~(i + 1 <= 1) /\ (i + 1) - 1 = i
  BY <1>1
<1>4. 1 \in 1 .. 1 + Len(c)
  BY <1>1
<1> HIDE DEF \o
<1>5. \A i \in 1 .. Len(c) : (<<v>> \o c)[i + 1] = c[i]
  BY <1>2, <1>3
<1>6. QED
  BY <1>1, <1>2, <1>4, <1>5

LEMMA Prepended ==
  ASSUME NEW c \in Seq(Nat), IsInjective(c), NEW v \in Nat, v \notin Range(c)
  PROVE  /\ IsInjective(<<v>> \o c) /\ Range(<<v>> \o c) = Range(c) \cup {v}
<1> DEFINE d == <<v>> \o c
           n == Len(c)
<1>1. /\ d \in Seq(Nat) /\ Len(d) = n + 1 /\ d[1] = v
      /\ \A i \in 1 .. n : d[i + 1] = c[i]
  BY PrependedAt
<1>2. n \in Nat /\ DOMAIN c = 1 .. n
  OBVIOUS
<1>3. DOMAIN d = 1 .. n + 1
  BY <1>1
<1> HIDE DEF d, n
<1>4. \A i \in 1 .. n + 1 : i = 1 \/ (i - 1 \in 1 .. n /\ (i - 1) + 1 = i)
  BY <1>2
<1>5. \A i \in 1 .. n : i + 1 \in 1 .. n + 1
  BY <1>2
<1>6. 1 \in 1 .. n + 1
  BY <1>2
<1>7. \A i \in 1 .. n + 1 : i # 1 => d[i] = c[i - 1] /\ c[i - 1] \in Range(c) /\ d[i] # v
  <2>1. SUFFICES ASSUME NEW i \in 1 .. n + 1, i # 1
                 PROVE  d[i] = c[i - 1] /\ c[i - 1] \in Range(c) /\ d[i] # v
    OBVIOUS
  <2>2. i - 1 \in 1 .. n /\ (i - 1) + 1 = i
    BY <1>4, <2>1
  <2>3. d[i] = c[i - 1]
    BY <1>1, <2>2
  <2>4. c[i - 1] \in Range(c)
    BY <1>2, <2>2 DEF Range
  <2>5. QED
    BY <2>3, <2>4
<1>8. IsInjective(d)
  <2>1. SUFFICES ASSUME NEW i \in 1 .. n + 1, NEW j \in 1 .. n + 1, d[i] = d[j]
                 PROVE  i = j
    BY <1>3 DEF IsInjective
  <2>2. CASE i # 1 /\ j # 1
    <3>1. i - 1 = j - 1
      BY <1>2, <1>4, <1>7, <2>1, <2>2 DEF IsInjective
    <3>2. QED
      BY <3>1
  <2>3. CASE i = 1 \/ j = 1
    BY <1>1, <1>7, <2>1, <2>3
  <2>4. QED
    BY <2>2, <2>3
<1>9. Range(d) = Range(c) \cup {v}
  <2>1. \A x \in Range(d) : x \in Range(c) \cup {v}
    <3>1. SUFFICES ASSUME NEW i \in 1 .. n + 1
                   PROVE  d[i] \in Range(c) \cup {v}
      BY <1>3 DEF Range
    <3>2. QED
      BY <1>1, <1>7
  <2>2. \A x \in Range(c) \cup {v} : x \in Range(d)
    <3>1. v \in Range(d)
      BY <1>1, <1>3, <1>6 DEF Range
    <3>2. ASSUME NEW i \in 1 .. n
          PROVE  c[i] \in Range(d)
      BY <1>1, <1>3, <1>5 DEF Range
    <3>3. QED
      BY <1>2, <3>1, <3>2 DEF Range
  <2>3. QED
    BY <2>1, <2>2
<1>10. QED
  BY <1>8, <1>9 DEF d

LEMMA Shortened ==
  ASSUME NEW c \in Seq(Nat), IsInjective(c), c # << >>
  PROVE  /\ c[1] \in Range(c) /\ c[1] \in Nat
         /\ IsInjective(Tail(c)) /\ Range(Tail(c)) = Range(c) \ {c[1]}
<1> DEFINE d == Tail(c)
           n == Len(c)
<1>1. /\ d \in Seq(Nat) /\ Len(d) = n - 1
      /\ \A i \in 1 .. n - 1 : d[i] = c[i + 1]
  BY HeadTailProperties
<1>2. n \in Nat /\ n > 0 /\ DOMAIN c = 1 .. n
  BY EmptySeq
<1>3. DOMAIN d = 1 .. n - 1
  BY <1>1
<1>4. c[1] \in Range(c) /\ c[1] \in Nat
  BY <1>2 DEF Range
<1> HIDE DEF d, n
<1>5. \A i \in 1 .. n - 1 : i + 1 \in 1 .. n /\ i + 1 # 1
  BY <1>2
<1>6. \A i \in 1 .. n : i # 1 => i - 1 \in 1 .. n - 1 /\ (i - 1) + 1 = i
  BY <1>2
<1>7. 1 \in 1 .. n
  BY <1>2
<1>8. IsInjective(d)
  <2>1. SUFFICES ASSUME NEW i \in 1 .. n - 1, NEW j \in 1 .. n - 1, d[i] = d[j]
                 PROVE  i = j
    BY <1>3 DEF IsInjective
  <2>2. i + 1 = j + 1
    BY <1>1, <1>2, <1>5, <2>1 DEF IsInjective
  <2>3. QED
    BY <2>2
<1>9. Range(d) = Range(c) \ {c[1]}
  <2>1. \A x \in Range(d) : x \in Range(c) /\ x # c[1]
    <3>1. SUFFICES ASSUME NEW i \in 1 .. n - 1
                   PROVE  c[i + 1] \in Range(c) /\ c[i + 1] # c[1]
      BY <1>1, <1>3 DEF Range
    <3>2. QED
      BY <1>2, <1>5, <1>7 DEF Range, IsInjective
  <2>2. \A x \in Range(c) : x # c[1] => x \in Range(d)
    <3>1. SUFFICES ASSUME NEW i \in 1 .. n, c[i] # c[1]
                   PROVE  c[i] \in Range(d)
      BY <1>2 DEF Range
    <3>2. d[i - 1] = c[i] /\ i - 1 \in 1 .. n - 1
      BY <1>1, <1>6, <3>1
    <3>3. QED
      BY <1>3, <3>2 DEF Range
  <2>3. QED
    BY <2>1, <2>2
<1>10. QED
  BY <1>4, <1>8, <1>9 DEF d

-----------------------------------------------------------------------------
(* Where a node is, when one is taken from the ring or given back.         *)

LEMMA Stocked ==
  ASSUME NEW chain \in [Priority -> Seq(Nat)], NEW ring, NEW n \in Nat,
         EachOnce(chain, ring, 0 .. n - 1), ring.size = 0
  PROVE  /\ EachOnce(chain, WithNodes(ring, n), 0 .. n + blockSize - 1)
         /\ WithNodes(ring, n).size = blockSize
<1> DEFINE w == WithNodes(ring, n)
<1>1. /\ Typed(w, Nat) /\ InShape(w) /\ w.size = blockSize
      /\ \A i \in 1 .. blockSize : Line(w)[i] = n + i - 1
  BY WithNodesOf DEF EachOnce
<1>2. blockSize \in Nat
  BY FinitePQueueAssumption
<1>3. /\ FreeIn(ring) = {Line(ring)[i] : i \in 1 .. ring.size}
      /\ FreeIn(w) = {Line(w)[i] : i \in 1 .. blockSize}
  BY <1>1, FreeOf DEF EachOnce
<1>4. FreeIn(ring) = {}
  BY <1>3
<1>5. IsInjective(Line(w))
  <2>1. \A i, j \in 1 .. blockSize : n + i - 1 = n + j - 1 => i = j
    BY <1>2
  <2>2. \A i, j \in 1 .. w.size : Line(w)[i] = Line(w)[j] => i = j
    BY <1>1, <2>1
  <2>3. QED
    BY <1>1, <2>2, DistinctOf
<1> HIDE DEF w
<1>6. FreeIn(w) = n .. n + blockSize - 1
  <2>1. \A i \in 1 .. blockSize : n + i - 1 \in n .. n + blockSize - 1
    BY <1>2
  <2>2. ASSUME NEW x \in n .. n + blockSize - 1
        PROVE  x \in FreeIn(w)
    <3>1. x - n + 1 \in 1 .. blockSize /\ n + (x - n + 1) - 1 = x
      BY <1>2
    <3>2. Line(w)[x - n + 1] = x
      BY <1>1, <3>1
    <3>3. QED
      BY <1>3, <3>1, <3>2
  <2>3. \A x \in FreeIn(w) : x \in n .. n + blockSize - 1
    BY <1>1, <1>3, <2>1
  <2>4. QED
    BY <2>2, <2>3
<1>7. \A p \in Priority : Range(chain[p]) \subseteq 0 .. n - 1
  BY DEF EachOnce
<1>8. (0 .. n - 1) \cap (n .. n + blockSize - 1) = {}
  BY <1>2
<1>9. (0 .. n - 1) \cup (n .. n + blockSize - 1) = 0 .. n + blockSize - 1
  BY <1>2
<1>10. UNION {Range(chain[p]) : p \in Priority} = 0 .. n - 1
  BY <1>4 DEF EachOnce
<1>11. FreeIn(w) \cup UNION {Range(chain[p]) : p \in Priority} = 0 .. n + blockSize - 1
  BY <1>6, <1>9, <1>10
<1>12. \A p \in Priority : Range(chain[p]) \cap FreeIn(w) = {}
  BY <1>6, <1>7, <1>8
<1>13. EachOnce(chain, w, 0 .. n + blockSize - 1)
  BY <1>1, <1>5, <1>11, <1>12 DEF EachOnce
<1>14. QED
  BY <1>1, <1>13 DEF w

LEMMA Moved ==
  ASSUME NEW chain \in [Priority -> Seq(Nat)], NEW ring, NEW nodes,
         EachOnce(chain, ring, nodes),
         NEW p \in Priority, NEW c, NEW ring2, IsInjective(c),
         Typed(ring2, Nat), InShape(ring2), IsInjective(Line(ring2)),
         Range(c) \cap FreeIn(ring2) = {},
         Range(c) \cup FreeIn(ring2) = Range(chain[p]) \cup FreeIn(ring)
  PROVE  EachOnce([chain EXCEPT ![p] = c], ring2, nodes)
<1> DEFINE others == [chain EXCEPT ![p] = c]
<1>1. others[p] = c /\ \A q \in Priority : q # p => others[q] = chain[q]
  OBVIOUS
<1> HIDE DEF others
<1>2. \A q \in Priority : q # p => /\ Range(chain[q]) \cap Range(chain[p]) = {}
                                   /\ Range(chain[q]) \cap FreeIn(ring) = {}
                                   /\ IsInjective(chain[q])
  BY DEF EachOnce
<1>3. \A q \in Priority : q # p => /\ Range(chain[q]) \cap Range(c) = {}
                                   /\ Range(chain[q]) \cap FreeIn(ring2) = {}
  BY <1>2
<1>4. \A q \in Priority : IsInjective(others[q]) /\ Range(others[q]) \cap FreeIn(ring2) = {}
  BY <1>1, <1>2, <1>3
<1>5. \A q, r \in Priority : q # r => Range(others[q]) \cap Range(others[r]) = {}
  <2>1. SUFFICES ASSUME NEW q \in Priority, NEW r \in Priority, q # r
                 PROVE  Range(others[q]) \cap Range(others[r]) = {}
    OBVIOUS
  <2>2. CASE q # p /\ r # p
    BY <1>1, <2>1, <2>2 DEF EachOnce
  <2>3. CASE q = p
    BY <1>1, <1>3, <2>1, <2>3
  <2>4. CASE r = p
    BY <1>1, <1>3, <2>1, <2>4
  <2>5. QED
    BY <2>2, <2>3, <2>4
<1>6. FreeIn(ring2) \cup UNION {Range(others[q]) : q \in Priority} = nodes
  <2> DEFINE before == UNION {Range(chain[q]) : q \in Priority}
             after == UNION {Range(others[q]) : q \in Priority}
  <2>1. ASSUME NEW x \in after
        PROVE  x \in Range(c) \/ x \in before
    BY <1>1
  <2>2. ASSUME NEW x \in before
        PROVE  x \in Range(chain[p]) \/ x \in after
    BY <1>1
  <2>3. Range(c) \subseteq after /\ Range(chain[p]) \subseteq before
    BY <1>1
  <2>4. FreeIn(ring) \cup before = nodes
    BY DEF EachOnce
  <2> HIDE DEF before, after
  <2>5. FreeIn(ring2) \cup after = nodes
    BY <2>1, <2>2, <2>3, <2>4
  <2>6. QED
    BY <2>5 DEF after
<1>7. EachOnce(others, ring2, nodes)
  BY <1>4, <1>5, <1>6 DEF EachOnce
<1>8. QED
  BY <1>7 DEF others

-----------------------------------------------------------------------------
(* One list, when a node is linked to it or leaves it.                     *)

LEMMA LinkedElsewhere ==
  ASSUME NEW c \in Seq(Nat), NEW h, NEW t, NEW e, NEW content, NEW content2,
         Linked(c, h, t, e, content), \A x \in Range(c) : content2[x] = content[x]
  PROVE  Linked(c, h, t, e, content2)
<1>1. \A i \in 1 .. Len(c) : content2[c[i]] = content[c[i]]
  BY DEF Range
<1>2. QED
  BY <1>1 DEF Linked

\* A new node comes after the last, t; the others are as they were.
PutBehind(content, content2, c, t, new, v) ==
  /\ content2[new] = [data |-> v, next |-> Null]
  /\ c # << >> => content2[t] = [content[t] EXCEPT !.next = new]
  /\ \A x \in Range(c) : c = << >> \/ x # t => content2[x] = content[x]

LEMMA LinkedAppended ==
  ASSUME NEW c \in Seq(Nat), IsInjective(c), NEW h, NEW t, NEW e \in Seq(Value), NEW content,
         Linked(c, h, t, e, content),
         NEW new \in Nat, NEW v \in Value, NEW content2, PutBehind(content, content2, c, t, new, v)
  PROVE  Linked(Append(c, new), IF h = Null THEN new ELSE h, new, Append(e, v), content2)
<1> DEFINE d == Append(c, new)
           f == Append(e, v)
           n == Len(c)
<1>0. /\ content2[new] = [data |-> v, next |-> Null]
      /\ c # << >> => content2[t] = [content[t] EXCEPT !.next = new]
      /\ \A x \in Range(c) : c = << >> \/ x # t => content2[x] = content[x]
  BY DEF PutBehind
<1>1. /\ d \in Seq(Nat) /\ Len(d) = n + 1 /\ d[n + 1] = new /\ d # << >>
      /\ \A i \in 1 .. n : d[i] = c[i]
  <2>1. /\ d \in Seq(Nat) /\ Len(d) = n + 1 /\ d[n + 1] = new
        /\ \A i \in 1 .. n : d[i] = c[i]
    BY AppendProperties
  <2>2. n + 1 # 0
    BY LenProperties
  <2> HIDE DEF d, n
  <2>3. QED
    BY <2>1, <2>2, EmptySeq
<1>2. /\ Len(e) = n
      /\ Len(f) = n + 1 /\ f[n + 1] = v
      /\ \A i \in 1 .. n : f[i] = e[i]
  BY AppendProperties DEF Linked
<1>3. n \in Nat /\ DOMAIN c = 1 .. n /\ (c # << >> <=> n > 0)
  BY EmptySeq
<1>4. /\ h = IF c = << >> THEN Null ELSE c[1]
      /\ c # << >> => t = c[n]
      /\ \A i \in 1 .. n : content[c[i]] = [data |-> e[i], next |-> IF i = n THEN Null
                                                                    ELSE c[i + 1]]
  BY DEF Linked
<1>5. (IF h = Null THEN new ELSE h) = d[1]
  <2>1. CASE c = << >>
    BY <1>1, <1>3, <1>4, <2>1
  <2>2. CASE c # << >>
    <3>1. 1 \in 1 .. n /\ c[1] \in Nat
      BY <1>3, <2>2
    <3>2. c[1] # Null
      BY <3>1 DEF Null
    <3>3. QED
      BY <1>1, <1>4, <2>2, <3>1, <3>2
  <2>3. QED
    BY <2>1, <2>2
<1> HIDE DEF d, f, n
<1>6. ASSUME NEW i \in 1 .. n
      PROVE  content2[d[i]] = [data |-> f[i], next |-> d[i + 1]]
  <2>1. c # << >> /\ n \in 1 .. n /\ t = c[n]
    BY <1>3, <1>4
  <2>2. CASE i = n
    <3>1. content[t] = [data |-> e[n], next |-> Null]
      BY <1>4, <2>1
    <3>2. content2[t] = [data |-> e[n], next |-> new]
      BY <1>0, <2>1, <3>1
    <3>3. d[i] = t /\ f[i] = e[n] /\ d[i + 1] = new
      BY <1>1, <1>2, <2>1, <2>2
    <3>4. QED
      BY <3>2, <3>3
  <2>3. CASE i # n
    <3>1. c[i] # t /\ c[i] \in Range(c)
      BY <1>3, <2>1, <2>3 DEF IsInjective, Range
    <3>2. content2[c[i]] = [data |-> e[i], next |-> c[i + 1]]
      BY <1>0, <1>4, <2>3, <3>1
    <3>3. i + 1 \in 1 .. n
      BY <1>3, <2>3
    <3>4. QED
      BY <1>1, <1>2, <3>2, <3>3
  <2>4. QED
    BY <2>2, <2>3
<1>7. ASSUME NEW i \in 1 .. n + 1
      PROVE  content2[d[i]] = [data |-> f[i], next |-> IF i = n + 1 THEN Null ELSE d[i + 1]]
  <2>1. (i \in 1 .. n /\ i # n + 1) \/ i = n + 1
    BY <1>3
  <2>2. QED
    BY <1>0, <1>1, <1>2, <1>6, <2>1
<1>8. Linked(d, IF h = Null THEN new ELSE h, new, f, content2)
  BY <1>1, <1>2, <1>5, <1>7 DEF Linked
<1>9. QED
  BY <1>8 DEF d, f

LEMMA LinkedPrepended ==
  ASSUME NEW c \in Seq(Nat), NEW h, NEW t, NEW e \in Seq(Value), NEW content,
         Linked(c, h, t, e, content),
         NEW new \in Nat, NEW v \in Value, NEW content2,
         content2[new] = [data |-> v, next |-> h],
         c = << >> => t \in {Null, new},
         \A x \in Range(c) : content2[x] = content[x]
  PROVE  Linked(<<new>> \o c, new, IF t = Null THEN new ELSE t, <<v>> \o e, content2)
<1> DEFINE d == <<new>> \o c
           f == <<v>> \o e
           n == Len(c)
<1>1. /\ d \in Seq(Nat) /\ Len(d) = n + 1 /\ d[1] = new
      /\ \A i \in 1 .. n : d[i + 1] = c[i]
  BY PrependedAt
<1>2. /\ Len(e) = n
      /\ Len(f) = n + 1 /\ f[1] = v
      /\ \A i \in 1 .. n : f[i + 1] = e[i]
  BY PrependedAt DEF Linked
<1>3. n \in Nat /\ DOMAIN c = 1 .. n /\ (c # << >> <=> n > 0)
  BY EmptySeq
<1>4. /\ h = IF c = << >> THEN Null ELSE c[1]
      /\ c # << >> => t = c[n]
      /\ \A i \in 1 .. n : content[c[i]] = [data |-> e[i], next |-> IF i = n THEN Null
                                                                    ELSE c[i + 1]]
  BY DEF Linked
<1>5. d # << >>
  BY <1>1, <1>3, EmptySeq
<1>6. (IF t = Null THEN new ELSE t) = d[n + 1]
  <2>1. CASE c = << >>
    BY <1>1, <1>3, <1>4, <2>1
  <2>2. CASE c # << >>
    <3>1. n \in 1 .. n /\ c[n] \in Nat
      BY <1>3, <2>2
    <3>2. c[n] # Null
      BY <3>1 DEF Null
    <3>3. QED
      BY <1>1, <1>4, <2>2, <3>1, <3>2
  <2>3. QED
    BY <2>1, <2>2
<1>7. content2[d[1]] = [data |-> f[1], next |-> IF 1 = n + 1 THEN Null ELSE d[2]]
  <2>1. CASE c = << >>
    BY <1>1, <1>2, <1>3, <1>4, <2>1
  <2>2. CASE c # << >>
    <3>1. 1 \in 1 .. n /\ 1 # n + 1 /\ 1 + 1 = 2
      BY <1>3, <2>2
    <3>2. d[1 + 1] = c[1]
      BY <1>1, <3>1
    <3>3. QED
      BY <1>1, <1>2, <1>4, <2>2, <3>1, <3>2
  <2>3. QED
    BY <2>1, <2>2
<1> HIDE DEF d, f, n
<1>8. ASSUME NEW i \in 1 .. n
      PROVE  content2[d[i + 1]] = [data |-> f[i + 1], next |-> IF i + 1 = n + 1 THEN Null
                                                               ELSE d[(i + 1) + 1]]
  <2>1. content2[c[i]] = [data |-> e[i], next |-> IF i = n THEN Null ELSE c[i + 1]]
    <3>1. c[i] \in Range(c)
      BY <1>3 DEF Range
    <3>2. QED
      BY <1>4, <3>1
  <2>2. i # n => i + 1 \in 1 .. n
    BY <1>3
  <2>3. i = n <=> i + 1 = n + 1
    BY <1>3
  <2>4. d[i + 1] = c[i] /\ f[i + 1] = e[i] /\ (i # n => d[(i + 1) + 1] = c[i + 1])
    BY <1>1, <1>2, <2>2
  <2>5. QED
    BY <2>1, <2>3, <2>4
<1>9. ASSUME NEW i \in 1 .. n + 1
      PROVE  content2[d[i]] = [data |-> f[i], next |-> IF i = n + 1 THEN Null ELSE d[i + 1]]
  <2>1. CASE i = 1
    BY <1>7, <2>1
  <2>2. CASE i # 1
    <3>1. i - 1 \in 1 .. n /\ (i - 1) + 1 = i
      BY <1>3, <2>2
    <3>2. QED
      BY <1>8, <3>1
  <2>3. QED
    BY <2>1, <2>2
<1>10. Linked(d, new, IF t = Null THEN new ELSE t, f, content2)
  BY <1>1, <1>2, <1>5, <1>6, <1>9 DEF Linked
<1>11. QED
  BY <1>10 DEF d, f

LEMMA LinkedShortened ==
  ASSUME NEW c \in Seq(Nat), c # << >>, NEW h, NEW t, NEW e \in Seq(Value), NEW content,
         Linked(c, h, t, e, content)
  PROVE  /\ h = c[1] /\ content[h].data = Head(e)
         /\ Tail(e) \in Seq(Value)
         /\ Linked(Tail(c), content[h].next, t, Tail(e), content)
<1> DEFINE d == Tail(c)
           f == Tail(e)
           n == Len(c)
<1>1. /\ d \in Seq(Nat) /\ Len(d) = n - 1
      /\ \A i \in 1 .. n - 1 : d[i] = c[i + 1]
  BY HeadTailProperties
<1>2. n \in Nat /\ n > 0 /\ Len(e) = n /\ e # << >>
  BY EmptySeq DEF Linked
<1>3. /\ f \in Seq(Value) /\ Len(f) = n - 1
      /\ \A i \in 1 .. n - 1 : f[i] = e[i + 1]
      /\ Head(e) = e[1]
  BY <1>2, HeadTailProperties
<1>4. /\ h = c[1]
      /\ t = c[n]
      /\ \A i \in 1 .. n : content[c[i]] = [data |-> e[i], next |-> IF i = n THEN Null
                                                                    ELSE c[i + 1]]
  BY DEF Linked
<1>5. d = << >> <=> n = 1
  <2> HIDE DEF d, n
  <2>1. QED
    BY <1>1, <1>2, EmptySeq
<1>6. 1 \in 1 .. n /\ content[h] = [data |-> e[1], next |-> IF 1 = n THEN Null ELSE c[1 + 1]]
  BY <1>2, <1>4
<1> HIDE DEF d, f, n
<1>7. content[h].data = e[1] /\ content[h].next = IF d = << >> THEN Null ELSE d[1]
  <2>1. CASE n = 1
    BY <1>5, <1>6, <2>1
  <2>2. CASE n # 1
    <3>1. 1 \in 1 .. n - 1
      BY <1>2, <2>2
    <3>2. QED
      BY <1>1, <1>5, <1>6, <2>2, <3>1
  <2>3. QED
    BY <2>1, <2>2
<1>8. d # << >> => t = d[n - 1]
  <2>1. SUFFICES ASSUME n # 1 PROVE t = d[n - 1]
    BY <1>5
  <2>2. n - 1 \in 1 .. n - 1 /\ (n - 1) + 1 = n
    BY <1>2, <2>1
  <2>3. QED
    BY <1>1, <1>4, <2>2
<1>9. ASSUME NEW i \in 1 .. n - 1
      PROVE  content[d[i]] = [data |-> f[i], next |-> IF i = n - 1 THEN Null ELSE d[i + 1]]
  <2>1. i + 1 \in 1 .. n /\ (i + 1 = n <=> i = n - 1) /\ (i # n - 1 => i + 1 \in 1 .. n - 1)
    BY <1>2
  <2>2. content[c[i + 1]] = [data |-> e[i + 1], next |-> IF i + 1 = n THEN Null
                                                         ELSE c[(i + 1) + 1]]
    BY <1>4, <2>1
  <2>3. d[i] = c[i + 1] /\ f[i] = e[i + 1] /\ (i # n - 1 => d[i + 1] = c[(i + 1) + 1])
    BY <1>1, <1>3, <2>1
  <2>4. QED
    BY <2>1, <2>2, <2>3
<1>10. Linked(d, content[h].next, t, f, content)
  BY <1>1, <1>3, <1>7, <1>8, <1>9 DEF Linked
<1>11. QED
  BY <1>3, <1>4, <1>7, <1>10 DEF d, f

-----------------------------------------------------------------------------
(* The operations.                                                         *)

\* There is a node to take, and the nodes in use are as they were.
LEMMA ReadyOf ==
  ASSUME NEW chain \in [Priority -> Seq(Nat)], OnRails(chain)
  PROVE  /\ EachOnce(chain, Ready, DOMAIN Nodes)
         /\ Ready.size > 0
         /\ Cardinality(DOMAIN Nodes) \in Nat
         /\ DOMAIN Nodes = 0 .. Cardinality(DOMAIN Nodes) - 1
         /\ Ready.size + totalSize = Cardinality(DOMAIN Nodes)
         /\ DOMAIN node \subseteq DOMAIN Nodes
         /\ \A x \in DOMAIN node : Nodes[x] = node[x]
<1>1. available.size \in Nat
  BY Fields DEF OnRails, EachOnce
<1>2. CASE ~MustAllocate
  <2>1. Ready = available /\ Nodes = node
    BY <1>2 DEF Ready, Nodes
  <2>2. available.size > 0
    BY <1>1, <1>2 DEF MustAllocate
  <2>3. QED
    BY <2>1, <2>2 DEF OnRails, NumNodes
<1>3. CASE MustAllocate
  <2> DEFINE n == NumNodes
  <2>1. /\ n \in Nat /\ DOMAIN node = 0 .. n - 1 /\ blockSize \in Nat /\ blockSize > 0
        /\ available.size = 0 /\ available.size + totalSize = n /\ totalSize \in Int
    BY <1>3, FinitePQueueAssumption DEF OnRails, MustAllocate
  <2>2. /\ Ready = WithNodes(available, n)
        /\ DOMAIN Nodes = (0 .. n - 1) \cup n .. n + blockSize - 1
        /\ \A x \in 0 .. n - 1 : Nodes[x] = node[x]
    BY <1>3, <2>1 DEF Ready, Nodes
  <2>3. EachOnce(chain, available, 0 .. n - 1)
    BY <2>1 DEF OnRails
  <2> HIDE DEF n
  <2>4. DOMAIN Nodes = 0 .. n + blockSize - 1
    BY <2>1, <2>2
  <2>5. EachOnce(chain, Ready, 0 .. n + blockSize - 1) /\ Ready.size = blockSize
    BY <2>1, <2>2, <2>3, Stocked
  <2>6. Cardinality(0 .. n + blockSize - 1) = n + blockSize
    <3> DEFINE k == n + blockSize - 1
    <3>1. 0 \in Int /\ k \in Int /\ (IF 0 > k THEN 0 ELSE k - 0 + 1) = n + blockSize
      BY <2>1
    <3>2. QED
      BY <3>1, FS_Interval
  <2>7. DOMAIN node \subseteq DOMAIN Nodes /\ n + blockSize \in Nat
    BY <2>1, <2>2
  <2>8. Ready.size + totalSize = n + blockSize /\ Ready.size > 0
    BY <2>1, <2>5
  <2>9. 0 .. n + blockSize - 1 = 0 .. (n + blockSize) - 1
    BY <2>1
  <2>10. Cardinality(DOMAIN Nodes) = n + blockSize
    BY <2>4, <2>6
  <2>11. DOMAIN Nodes = 0 .. Cardinality(DOMAIN Nodes) - 1
    BY <2>4, <2>9, <2>10
  <2>12. EachOnce(chain, Ready, DOMAIN Nodes)
    BY <2>4, <2>5
  <2>13. QED
    BY <2>1, <2>2, <2>7, <2>8, <2>10, <2>11, <2>12
<1>4. QED
  BY <1>2, <1>3

\* The chain of a priority is c, and the others are as they were.
LEMMA Relinked ==
  ASSUME NEW chain \in [Priority -> Seq(Nat)], OnRails(chain),
         NEW p \in Priority, NEW c \in Seq(Nat),
         DOMAIN heads' = Priority, DOMAIN tails' = Priority,
         \A q \in Priority : q # p => /\ heads'[q] = heads[q] /\ tails'[q] = tails[q]
                                      /\ line'[q] = line[q]
                                      /\ \A x \in Range(chain[q]) : node'[x] = node[x],
         Linked(c, heads'[p], tails'[p], line'[p], node'),
         EachOnce([chain EXCEPT ![p] = c], available', DOMAIN node'),
         line' \in [Priority -> Seq(Value)],
         sizes' = [sizes EXCEPT ![p] = Len(c)],
         totalSize' \in Int, NumNodes' \in Nat, DOMAIN node' = 0 .. NumNodes' - 1,
         available'.size + totalSize' = NumNodes'
  PROVE  IInv'
<1> DEFINE others == [chain EXCEPT ![p] = c]
<1>1. /\ others \in [Priority -> Seq(Nat)] /\ others[p] = c
      /\ \A q \in Priority : q # p => others[q] = chain[q]
  OBVIOUS
<1>2. EachOnce(others, available', DOMAIN node')
  OBVIOUS
<1> HIDE DEF others
<1>3. sizes' = [q \in Priority |-> Len(others[q])]
  <2>1. sizes = [q \in Priority |-> Len(chain[q])]
    BY DEF OnRails
  <2>2. QED
    BY <1>1, <2>1
<1>4. ASSUME NEW q \in Priority
      PROVE  Linked(others[q], heads'[q], tails'[q], line'[q], node')
  <2>1. CASE q = p
    BY <1>1, <2>1
  <2>2. CASE q # p
    <3>1. Linked(chain[q], heads[q], tails[q], line[q], node)
      BY DEF OnRails
    <3>2. chain[q] \in Seq(Nat) /\ \A x \in Range(chain[q]) : node'[x] = node[x]
      BY <2>2
    <3>3. Linked(chain[q], heads[q], tails[q], line[q], node')
      BY <3>1, <3>2, LinkedElsewhere
    <3>4. QED
      BY <1>1, <2>2, <3>3
  <2>3. QED
    BY <2>1, <2>2
<1>5. OnRails(others)'
  BY <1>1, <1>2, <1>3, <1>4 DEF OnRails
<1>6. QED
  BY <1>1, <1>5 DEF IInv

\* What enqueue does to the nodes: the new one is the last, the one that was
\* linked to it is the tail, and no other changes.
LinkedTo(content, chain, p, new, v) ==
  /\ DOMAIN content = DOMAIN Nodes
  /\ content[new] = [data |-> v, next |-> Null]
  /\ chain[p] # << >> => content[tails[p]] = [node[tails[p]] EXCEPT !.next = new]
  /\ \A q \in Priority : \A x \in Range(chain[q]) :
       chain[p] = << >> \/ x # tails[p] => content[x] = node[x]

LEMMA LinkedBackOf ==
  ASSUME NEW chain \in [Priority -> Seq(Nat)], OnRails(chain),
         NEW p \in Priority, NEW v \in Value,
         NEW new, new = First(Ready),
         ~ (StaleTail(p) /\ tails[p] \notin FreeIn(Ready) \ {new})
  PROVE  LinkedTo(LinkedBack(p, new, v), chain, p, new, v)
<1> DEFINE n == [Nodes EXCEPT ![new] = [data |-> v, next |-> Null]]
           l == LinkedBack(p, new, v)
           t == tails[p]
<1>1. /\ EachOnce(chain, Ready, DOMAIN Nodes) /\ Ready.size > 0
      /\ DOMAIN node \subseteq DOMAIN Nodes
      /\ \A x \in DOMAIN node : Nodes[x] = node[x]
  BY ReadyOf
<1>2. new \in FreeIn(Ready) /\ new \in Nat
  BY <1>1, RingTakes DEF EachOnce
<1>3. FreeIn(Ready) \subseteq DOMAIN Nodes
  BY <1>1 DEF EachOnce
<1>4. \A q \in Priority : Range(chain[q]) \subseteq DOMAIN node /\ Range(chain[q]) \cap FreeIn(Ready) = {}
  BY <1>1 DEF OnRails, EachOnce
<1>5. /\ DOMAIN n = DOMAIN Nodes /\ n[new] = [data |-> v, next |-> Null]
      /\ \A x \in DOMAIN Nodes : x # new => n[x] = Nodes[x]
  BY <1>2, <1>3
<1>6. l = IF t = Null THEN n ELSE [n EXCEPT ![t].next = new]
  BY DEF LinkedBack
<1> HIDE DEF n, l, t
<1>7. chain[p] # << >> => t \in Range(chain[p]) /\ t \in Nat /\ t # Null /\ t # new /\ t \in DOMAIN node
  <2>1. Linked(chain[p], heads[p], t, line[p], node) /\ chain[p] \in Seq(Nat)
    BY DEF OnRails, t
  <2>2. SUFFICES ASSUME chain[p] # << >>
                 PROVE  t \in Range(chain[p]) /\ t \in Nat /\ t # Null /\ t # new /\ t \in DOMAIN node
    OBVIOUS
  <2>3. Len(chain[p]) \in Nat \ {0} /\ DOMAIN chain[p] = 1 .. Len(chain[p])
    BY <2>1, <2>2, EmptySeq
  <2>4. t = chain[p][Len(chain[p])]
    BY <2>1, <2>2 DEF Linked
  <2>5. Len(chain[p]) \in DOMAIN chain[p]
    BY <2>3
  <2>6. t \in Range(chain[p]) /\ t \in Nat
    BY <2>1, <2>4, <2>5 DEF Range
  <2>7. QED
    BY <1>2, <1>4, <2>6 DEF Null
<1>8. chain[p] = << >> => t = Null \/ (t \in FreeIn(Ready) /\ t # new)
  <2>1. chain[p] = << >> => heads[p] = Null
    BY DEF OnRails, Linked
  <2>2. QED
    BY <2>1 DEF StaleTail, t
<1>9. DOMAIN l = DOMAIN Nodes /\ l[new] = [data |-> v, next |-> Null]
  BY <1>2, <1>3, <1>5, <1>6, <1>7, <1>8
<1>10. chain[p] # << >> => l[t] = [node[t] EXCEPT !.next = new]
  <2>1. SUFFICES ASSUME chain[p] # << >>
                 PROVE  l[t] = [node[t] EXCEPT !.next = new]
    OBVIOUS
  <2>2. t \in DOMAIN n /\ n[t] = node[t] /\ t # Null
    BY <1>1, <1>5, <1>7, <2>1
  <2>3. QED
    BY <1>6, <2>2
<1>11. ASSUME NEW q \in Priority, NEW x \in Range(chain[q]), chain[p] = << >> \/ x # t
       PROVE  l[x] = node[x]
  <2>1. x \in DOMAIN node /\ x \notin FreeIn(Ready)
    BY <1>4
  <2>2. x \in DOMAIN n /\ n[x] = node[x] /\ (t = Null \/ x # t)
    BY <1>1, <1>2, <1>5, <1>8, <1>11, <2>1
  <2>3. QED
    BY <1>6, <2>2
<1>12. QED
  BY <1>9, <1>10, <1>11 DEF l, t, LinkedTo

LEMMA EnqueueInv ==
  ASSUME IInv, NEW v \in Value, NEW p \in Priority, Enqueue(v, p)
  PROVE  IInv'
<1>1. SUFFICES ASSUME ~derailed' PROVE IInv'
  BY DEF IInv
<1>2. PICK new : new = First(Ready)
  OBVIOUS
<1>3. /\ available' = Dequeued(Ready) /\ node' = LinkedBack(p, new, v)
      /\ tails' = [tails EXCEPT ![p] = new]
      /\ heads' = [heads EXCEPT ![p] = IF @ = Null THEN new ELSE @]
      /\ line' = [line EXCEPT ![p] = Append(@, v)]
      /\ sizes' = [sizes EXCEPT ![p] = @ + 1] /\ totalSize' = totalSize + 1
      /\ ~derailed /\ ~ (StaleTail(p) /\ tails[p] \notin FreeIn(Dequeued(Ready)))
  BY <1>1, <1>2 DEF Enqueue, Counted, Free
<1>4. PICK chain \in [Priority -> Seq(Nat)] : OnRails(chain)
  BY <1>3 DEF IInv
<1>5. /\ EachOnce(chain, Ready, DOMAIN Nodes) /\ Ready.size > 0
      /\ Cardinality(DOMAIN Nodes) \in Nat
      /\ DOMAIN Nodes = 0 .. Cardinality(DOMAIN Nodes) - 1
      /\ Ready.size + totalSize = Cardinality(DOMAIN Nodes)
  BY <1>4, ReadyOf
<1>6. /\ Typed(available', Nat) /\ InShape(available') /\ IsInjective(Line(available'))
      /\ available'.size = Ready.size - 1 /\ Ready.size \in Nat
      /\ new \in FreeIn(Ready) /\ new \in Nat
      /\ FreeIn(available') = FreeIn(Ready) \ {new}
  BY <1>2, <1>3, <1>5, RingTakes, FreeOf DEF EachOnce
<1>7. ~ (StaleTail(p) /\ tails[p] \notin FreeIn(Ready) \ {new})
  BY <1>3, <1>6
<1>8. /\ DOMAIN node' = DOMAIN Nodes
      /\ node'[new] = [data |-> v, next |-> Null]
      /\ chain[p] # << >> => node'[tails[p]] = [node[tails[p]] EXCEPT !.next = new]
      /\ \A q \in Priority : \A x \in Range(chain[q]) :
           chain[p] = << >> \/ x # tails[p] => node'[x] = node[x]
  <2>1. LinkedTo(LinkedBack(p, new, v), chain, p, new, v)
    BY <1>2, <1>4, <1>7, LinkedBackOf
  <2>2. LinkedTo(node', chain, p, new, v)
    BY <1>3, <2>1
  <2>3. QED
    BY <2>2 DEF LinkedTo
<1>9. /\ DOMAIN heads = Priority /\ DOMAIN tails = Priority /\ totalSize \in Int
      /\ sizes = [q \in Priority |-> Len(chain[q])]
      /\ line \in [Priority -> Seq(Value)]
      /\ Linked(chain[p], heads[p], tails[p], line[p], node)
  BY <1>4 DEF OnRails
<1>10. /\ chain[p] \in Seq(Nat) /\ IsInjective(chain[p])
       /\ new \notin Range(chain[p])
  BY <1>5, <1>6 DEF EachOnce
<1> DEFINE c == Append(chain[p], new)
<1>11. c \in Seq(Nat) /\ Len(c) = Len(chain[p]) + 1 /\ line[p] \in Seq(Value)
  BY <1>6, <1>9, <1>10, AppendProperties
<1>12. IsInjective(c) /\ Range(c) = Range(chain[p]) \cup {new}
  BY <1>6, <1>10, Appended
<1>13. Linked(c, heads'[p], tails'[p], line'[p], node')
  <2>1. /\ heads'[p] = IF heads[p] = Null THEN new ELSE heads[p]
        /\ tails'[p] = new /\ line'[p] = Append(line[p], v)
    BY <1>3, <1>9
  <2>2. Linked(c, IF heads[p] = Null THEN new ELSE heads[p], new, Append(line[p], v), node')
    <3>1. PutBehind(node, node', chain[p], tails[p], new, v)
      BY <1>8 DEF PutBehind
    <3>2. QED
      BY <1>6, <1>9, <1>10, <1>11, <3>1, LinkedAppended, Zenon
  <2>3. QED
    BY <2>1, <2>2
<1> HIDE DEF c
<1>14. EachOnce([chain EXCEPT ![p] = c], available', DOMAIN node')
  <2>1. Range(c) \cap FreeIn(available') = {}
    BY <1>5, <1>6, <1>12 DEF EachOnce
  <2>2. Range(c) \cup FreeIn(available') = Range(chain[p]) \cup FreeIn(Ready)
    BY <1>6, <1>12
  <2>3. QED
    BY <1>5, <1>6, <1>8, <1>12, <2>1, <2>2, Moved
<1>15. ASSUME NEW q \in Priority, q # p
       PROVE  /\ heads'[q] = heads[q] /\ tails'[q] = tails[q] /\ line'[q] = line[q]
              /\ \A x \in Range(chain[q]) : node'[x] = node[x]
  <2>1. heads'[q] = heads[q] /\ tails'[q] = tails[q] /\ line'[q] = line[q]
    BY <1>3, <1>9, <1>15
  <2>2. chain[p] # << >> => tails[p] \in Range(chain[p])
    <3>1. chain[p] # << >> => /\ tails[p] = chain[p][Len(chain[p])]
                              /\ Len(chain[p]) \in DOMAIN chain[p]
      BY <1>9, <1>10, EmptySeq DEF Linked
    <3>2. QED
      BY <3>1 DEF Range
  <2>3. Range(chain[q]) \cap Range(chain[p]) = {}
    BY <1>5, <1>15 DEF EachOnce
  <2>4. QED
    BY <1>8, <2>1, <2>2, <2>3
<1>16. /\ NumNodes' = Cardinality(DOMAIN Nodes)
       /\ totalSize' \in Int /\ available'.size + totalSize' = NumNodes'
  <2>1. NumNodes' = Cardinality(DOMAIN Nodes)
    BY <1>8, Zenon DEF NumNodes
  <2>2. totalSize' \in Int /\ available'.size + totalSize' = Ready.size + totalSize
    <3>1. totalSize' = totalSize + 1 /\ totalSize \in Int
      BY <1>3, <1>9
    <3>2. available'.size = Ready.size - 1 /\ Ready.size \in Nat
      BY <1>6
    <3> DEFINE a == available'.size
               b == Ready.size
    <3>3. a = b - 1 /\ b \in Nat
      BY <3>2
    <3> HIDE DEF a, b
    <3>4. a + totalSize' = b + totalSize
      BY <3>1, <3>3
    <3>5. QED
      BY <3>1, <3>4 DEF a, b
  <2>3. QED
    BY <1>5, <2>1, <2>2
<1>17. /\ DOMAIN heads' = Priority /\ DOMAIN tails' = Priority
       /\ line' \in [Priority -> Seq(Value)] /\ sizes' = [sizes EXCEPT ![p] = Len(c)]
  <2>1. Append(line[p], v) \in Seq(Value) /\ sizes[p] + 1 = Len(c)
    BY <1>9, <1>11, AppendProperties
  <2>2. QED
    BY <1>3, <1>9, <2>1
<1>18. NumNodes' \in Nat /\ DOMAIN node' = 0 .. NumNodes' - 1
  BY <1>5, <1>8, <1>16
<1>19. QED
  BY <1>4, <1>11, <1>13, <1>14, <1>15, <1>16, <1>17, <1>18, Relinked, Zenon

LEMMA EnqueueFrontInv ==
  ASSUME IInv, NEW v \in Value, NEW p \in Priority, EnqueueFront(v, p)
  PROVE  IInv'
<1>1. SUFFICES ASSUME ~derailed' PROVE IInv'
  BY DEF IInv
<1>2. PICK new : new = First(Ready)
  OBVIOUS
<1>3. /\ available' = Dequeued(Ready)
      /\ node' = [Nodes EXCEPT ![new] = [data |-> v, next |-> heads[p]]]
      /\ heads' = [heads EXCEPT ![p] = new]
      /\ tails' = [tails EXCEPT ![p] = IF @ = Null THEN new ELSE @]
      /\ line' = [line EXCEPT ![p] = <<v>> \o @]
      /\ sizes' = [sizes EXCEPT ![p] = @ + 1] /\ totalSize' = totalSize + 1
      /\ ~derailed /\ ~ (StaleTail(p) /\ tails[p] # new)
  BY <1>1, <1>2 DEF EnqueueFront, Counted
<1>4. PICK chain \in [Priority -> Seq(Nat)] : OnRails(chain)
  BY <1>3 DEF IInv
<1>5. /\ EachOnce(chain, Ready, DOMAIN Nodes) /\ Ready.size > 0
      /\ Cardinality(DOMAIN Nodes) \in Nat
      /\ DOMAIN Nodes = 0 .. Cardinality(DOMAIN Nodes) - 1
      /\ Ready.size + totalSize = Cardinality(DOMAIN Nodes)
      /\ DOMAIN node \subseteq DOMAIN Nodes
      /\ \A x \in DOMAIN node : Nodes[x] = node[x]
  BY <1>4, ReadyOf
<1>6. /\ Typed(available', Nat) /\ InShape(available') /\ IsInjective(Line(available'))
      /\ available'.size = Ready.size - 1 /\ Ready.size \in Nat
      /\ new \in FreeIn(Ready) /\ new \in Nat
      /\ FreeIn(available') = FreeIn(Ready) \ {new}
  BY <1>2, <1>3, <1>5, RingTakes, FreeOf DEF EachOnce
<1>7. /\ DOMAIN heads = Priority /\ DOMAIN tails = Priority /\ totalSize \in Int
      /\ sizes = [q \in Priority |-> Len(chain[q])]
      /\ line \in [Priority -> Seq(Value)]
      /\ Linked(chain[p], heads[p], tails[p], line[p], node)
  BY <1>4 DEF OnRails
<1>8. /\ chain[p] \in Seq(Nat) /\ IsInjective(chain[p])
      /\ new \notin Range(chain[p])
  BY <1>5, <1>6 DEF EachOnce
<1>9. /\ DOMAIN node' = DOMAIN Nodes
      /\ node'[new] = [data |-> v, next |-> heads[p]]
      /\ \A q \in Priority : \A x \in Range(chain[q]) : node'[x] = node[x]
  <2>1. new \in DOMAIN Nodes
    BY <1>5, <1>6 DEF EachOnce
  <2>2. \A q \in Priority : \A x \in Range(chain[q]) : x \in DOMAIN node /\ x # new
    BY <1>4, <1>5, <1>6 DEF EachOnce, OnRails
  <2>3. QED
    BY <1>3, <1>5, <2>1, <2>2
<1> DEFINE c == <<new>> \o chain[p]
<1>10. c \in Seq(Nat) /\ Len(c) = Len(chain[p]) + 1 /\ line[p] \in Seq(Value)
  BY <1>6, <1>7, <1>8, PrependedAt
<1>11. IsInjective(c) /\ Range(c) = Range(chain[p]) \cup {new}
  BY <1>6, <1>8, Prepended
<1>12. Linked(c, heads'[p], tails'[p], line'[p], node')
  <2>1. /\ tails'[p] = IF tails[p] = Null THEN new ELSE tails[p]
        /\ heads'[p] = new /\ line'[p] = <<v>> \o line[p]
    BY <1>3, <1>7
  <2>2. chain[p] = << >> => tails[p] \in {Null, new}
    <3>1. chain[p] = << >> => heads[p] = Null
      BY <1>7 DEF Linked
    <3>2. QED
      BY <1>3, <3>1 DEF StaleTail
  <2>3. \A x \in Range(chain[p]) : node'[x] = node[x]
    BY <1>9
  <2>4. Linked(c, new, IF tails[p] = Null THEN new ELSE tails[p], <<v>> \o line[p], node')
    BY <1>6, <1>7, <1>8, <1>9, <1>10, <2>2, <2>3, LinkedPrepended, Zenon
  <2>5. QED
    BY <2>1, <2>4
<1>13. <<v>> \o line[p] \in Seq(Value) /\ sizes[p] + 1 = Len(c)
  BY <1>7, <1>10, PrependedAt
<1> HIDE DEF c
<1>14. EachOnce([chain EXCEPT ![p] = c], available', DOMAIN node')
  <2>1. Range(c) \cap FreeIn(available') = {}
    BY <1>5, <1>6, <1>11 DEF EachOnce
  <2>2. Range(c) \cup FreeIn(available') = Range(chain[p]) \cup FreeIn(Ready)
    BY <1>6, <1>11
  <2>3. QED
    BY <1>5, <1>6, <1>9, <1>11, <2>1, <2>2, Moved
<1>15. ASSUME NEW q \in Priority, q # p
       PROVE  /\ heads'[q] = heads[q] /\ tails'[q] = tails[q] /\ line'[q] = line[q]
              /\ \A x \in Range(chain[q]) : node'[x] = node[x]
  BY <1>3, <1>7, <1>9, <1>15
<1>16. /\ NumNodes' = Cardinality(DOMAIN Nodes)
       /\ totalSize' \in Int /\ available'.size + totalSize' = NumNodes'
  <2>1. NumNodes' = Cardinality(DOMAIN Nodes)
    BY <1>9, Zenon DEF NumNodes
  <2>2. totalSize' \in Int /\ available'.size + totalSize' = Ready.size + totalSize
    <3>1. totalSize' = totalSize + 1 /\ totalSize \in Int
      BY <1>3, <1>7
    <3> DEFINE a == available'.size
               b == Ready.size
    <3>2. a = b - 1 /\ b \in Nat
      BY <1>6
    <3> HIDE DEF a, b
    <3>3. a + totalSize' = b + totalSize
      BY <3>1, <3>2
    <3>4. QED
      BY <3>1, <3>3 DEF a, b
  <2>3. QED
    BY <1>5, <2>1, <2>2
<1>17. /\ DOMAIN heads' = Priority /\ DOMAIN tails' = Priority
       /\ line' \in [Priority -> Seq(Value)] /\ sizes' = [sizes EXCEPT ![p] = Len(c)]
  BY <1>3, <1>7, <1>13
<1>18. NumNodes' \in Nat /\ DOMAIN node' = 0 .. NumNodes' - 1
  BY <1>5, <1>9, <1>16
<1>19. QED
  BY <1>4, <1>10, <1>12, <1>14, <1>15, <1>16, <1>17, <1>18, Relinked, Zenon

\* A priority's list where a size counts an element is not empty.
LEMMA HeadOf ==
  ASSUME NEW chain \in [Priority -> Seq(Nat)], OnRails(chain),
         NEW p \in Priority, sizes[p] > 0
  PROVE  /\ chain[p] \in Seq(Nat) /\ IsInjective(chain[p]) /\ chain[p] # << >>
         /\ line[p] \in Seq(Value)
         /\ Linked(chain[p], heads[p], tails[p], line[p], node)
         /\ heads[p] = chain[p][1]
<1>1. /\ chain[p] \in Seq(Nat) /\ IsInjective(chain[p]) /\ line[p] \in Seq(Value)
      /\ Linked(chain[p], heads[p], tails[p], line[p], node)
      /\ sizes[p] = Len(chain[p])
  BY DEF OnRails, EachOnce
<1>2. chain[p] # << >>
  BY <1>1
<1>3. QED
  BY <1>1, <1>2 DEF Linked

LEMMA DequeueInv ==
  ASSUME IInv, NEW p \in Priority, DequeuePriority(p)
  PROVE  IInv'
<1>1. SUFFICES ASSUME ~derailed' PROVE IInv'
  BY DEF IInv
<1>2. /\ available' = Enqueued(available, heads[p])
      /\ heads' = [heads EXCEPT ![p] = node[heads[p]].next]
      /\ line' = [line EXCEPT ![p] = Tail(@)]
      /\ sizes' = [sizes EXCEPT ![p] = @ + -1] /\ totalSize' = totalSize + -1
      /\ tails' = tails /\ node' = node /\ ~derailed /\ sizes[p] > 0
  BY <1>1 DEF DequeuePriority, Counted, NextHead
<1>3. PICK chain \in [Priority -> Seq(Nat)] : OnRails(chain)
  BY <1>2 DEF IInv
<1>4. /\ chain[p] \in Seq(Nat) /\ IsInjective(chain[p]) /\ chain[p] # << >>
      /\ line[p] \in Seq(Value)
      /\ Linked(chain[p], heads[p], tails[p], line[p], node)
      /\ heads[p] = chain[p][1]
  BY <1>2, <1>3, HeadOf
<1>5. /\ DOMAIN heads = Priority /\ DOMAIN tails = Priority /\ totalSize \in Int
      /\ sizes = [q \in Priority |-> Len(chain[q])]
      /\ line \in [Priority -> Seq(Value)]
      /\ EachOnce(chain, available, DOMAIN node)
      /\ NumNodes \in Nat /\ DOMAIN node = 0 .. NumNodes - 1
      /\ available.size + totalSize = NumNodes
  BY <1>3 DEF OnRails
<1> DEFINE c == Tail(chain[p])
<1>6. /\ heads[p] \in Range(chain[p]) /\ heads[p] \in Nat
      /\ IsInjective(c) /\ Range(c) = Range(chain[p]) \ {heads[p]}
  BY <1>4, Shortened
<1>7. c \in Seq(Nat) /\ Len(c) = Len(chain[p]) - 1 /\ Len(chain[p]) \in Nat
  BY <1>4, HeadTailProperties
<1>8. heads[p] \notin FreeIn(available)
  BY <1>5, <1>6 DEF EachOnce
<1>9. /\ Typed(available', Nat) /\ InShape(available') /\ IsInjective(Line(available'))
      /\ available'.size = available.size + 1
      /\ FreeIn(available') = FreeIn(available) \cup {heads[p]}
  BY <1>2, <1>5, <1>6, <1>8, RingGets DEF EachOnce
<1>10. /\ Tail(line[p]) \in Seq(Value)
       /\ Linked(c, node[heads[p]].next, tails[p], Tail(line[p]), node)
  BY <1>4, LinkedShortened
<1>11. Linked(c, heads'[p], tails'[p], line'[p], node')
  <2>1. /\ heads'[p] = node[heads[p]].next /\ tails'[p] = tails[p]
        /\ line'[p] = Tail(line[p])
    BY <1>2, <1>5
  <2>2. QED
    BY <1>2, <1>10, <2>1
<1>12. sizes[p] + -1 = Len(c)
  BY <1>5, <1>7
<1> HIDE DEF c
<1>13. EachOnce([chain EXCEPT ![p] = c], available', DOMAIN node')
  <2>1. Range(c) \cap FreeIn(available') = {}
    BY <1>5, <1>6, <1>9 DEF EachOnce
  <2>2. Range(c) \cup FreeIn(available') = Range(chain[p]) \cup FreeIn(available)
    BY <1>6, <1>9
  <2>3. EachOnce([chain EXCEPT ![p] = c], available', DOMAIN node)
    BY <1>5, <1>6, <1>7, <1>9, <2>1, <2>2, Moved
  <2>4. QED
    BY <1>2, <2>3
<1>14. ASSUME NEW q \in Priority, q # p
       PROVE  /\ heads'[q] = heads[q] /\ tails'[q] = tails[q] /\ line'[q] = line[q]
              /\ \A x \in Range(chain[q]) : node'[x] = node[x]
  BY <1>2, <1>5, <1>14
<1>15. NumNodes' = NumNodes
  BY <1>2, Zenon DEF NumNodes
<1>16. totalSize' \in Int /\ available'.size + totalSize' = NumNodes'
  <2>1. available.size \in Nat
    BY <1>5, Fields DEF EachOnce
  <2> DEFINE a == available'.size
             b == available.size
  <2>2. a = b + 1 /\ b \in Nat /\ b + totalSize = NumNodes
    BY <1>5, <1>9, <2>1
  <2>3. totalSize' = totalSize + -1 /\ totalSize \in Int
    BY <1>2, <1>5
  <2> HIDE DEF a, b
  <2>4. totalSize' \in Int /\ a + totalSize' = NumNodes
    BY <2>2, <2>3
  <2>5. QED
    BY <1>15, <2>4 DEF a
<1>17. /\ DOMAIN heads' = Priority /\ DOMAIN tails' = Priority
       /\ line' \in [Priority -> Seq(Value)] /\ sizes' = [sizes EXCEPT ![p] = Len(c)]
  BY <1>2, <1>5, <1>10, <1>12
<1>18. NumNodes' \in Nat /\ DOMAIN node' = 0 .. NumNodes' - 1
  BY <1>2, <1>5, <1>15
<1>19. QED
  BY <1>3, <1>7, <1>11, <1>13, <1>14, <1>16, <1>17, <1>18, Relinked, Zenon

\* What the constructor and clear make: no list holds a node.
NoChain == [p \in Priority |-> << >>]

LEMMA EmptyOf ==
  ASSUME NEW m \in Nat, m > 0, NEW e, e = Empty(m)
  PROVE  /\ DOMAIN e.heads = Priority
         /\ e.sizes = [p \in Priority |-> Len(NoChain[p])]
         /\ NoChain \in [Priority -> Seq(Nat)] /\ e.line \in [Priority -> Seq(Value)]
         /\ \A p \in Priority : Linked(NoChain[p], e.heads[p], e.heads[p], e.line[p], e.node)
         /\ EachOnce(NoChain, e.available, DOMAIN e.node)
         /\ Cardinality(DOMAIN e.node) = blockSize
         /\ DOMAIN e.node = 0 .. blockSize - 1
         /\ e.available.size = blockSize
<1> DEFINE chain == NoChain
           ring == Queue(m)
<1>1. blockSize \in Nat /\ blockSize > 0
  BY FinitePQueueAssumption
<1>2. /\ e.heads = [p \in Priority |-> Null]
      /\ e.sizes = [p \in Priority |-> 0]
      /\ e.available = WithNodes(ring, 0)
      /\ e.node = [n \in 0 .. blockSize - 1 |-> NewNode]
      /\ e.line = [p \in Priority |-> << >>]
  BY DEF Empty
<1>3. /\ chain \in [Priority -> Seq(Nat)] /\ \A p \in Priority : chain[p] = << >>
      /\ e.line \in [Priority -> Seq(Value)]
  BY <1>2, EmptySeq DEF NoChain
<1>4. Typed(ring, Nat) /\ InShape(ring) /\ Line(ring) = << >> /\ ring.size = 0
  BY QueueOf DEF Queue
<1> HIDE DEF chain, ring
<1>5. EachOnce(chain, ring, 0 .. 0 - 1)
  <2>1. IsInjective(Line(ring)) /\ FreeIn(ring) = {}
    BY <1>4, FreeOf, Empties
  <2>2. \A p \in Priority : Range(chain[p]) = {} /\ IsInjective(chain[p])
    BY <1>3, Empties
  <2>3. 0 .. 0 - 1 = {}
    OBVIOUS
  <2>4. UNION {Range(chain[p]) : p \in Priority} = {}
    BY <2>2
  <2>5. QED
    BY <1>4, <2>1, <2>2, <2>3, <2>4 DEF EachOnce
<1>6. EachOnce(chain, WithNodes(ring, 0), 0 .. 0 + blockSize - 1) /\ WithNodes(ring, 0).size = blockSize
  BY <1>3, <1>4, <1>5, Stocked
<1>7. Cardinality(0 .. blockSize - 1) = blockSize
  <2> DEFINE k == blockSize - 1
  <2>1. 0 \in Int /\ k \in Int /\ (IF 0 > k THEN 0 ELSE k - 0 + 1) = blockSize
    BY <1>1
  <2>2. QED
    BY <2>1, FS_Interval
<1>8. DOMAIN e.node = 0 .. blockSize - 1 /\ 0 + blockSize - 1 = blockSize - 1
  BY <1>1, <1>2
<1>9. EachOnce(chain, e.available, DOMAIN e.node) /\ e.available.size = blockSize
  BY <1>2, <1>6, <1>8
<1>10. ASSUME NEW p \in Priority
       PROVE  Linked(chain[p], e.heads[p], e.heads[p], e.line[p], e.node)
  <2>1. e.heads[p] = Null /\ e.line[p] = << >> /\ chain[p] = << >>
    BY <1>2, <1>3
  <2>2. 1 .. Len(<< >>) = {}
    OBVIOUS
  <2>3. QED
    BY <2>1, <2>2 DEF Linked
<1>11. DOMAIN e.heads = Priority /\ e.sizes = [p \in Priority |-> Len(chain[p])]
  BY <1>2, <1>3, EmptySeq
<1>12. Cardinality(DOMAIN e.node) = blockSize
  BY <1>7, <1>8
<1>13. QED
  BY <1>3, <1>8, <1>9, <1>10, <1>11, <1>12 DEF chain

LEMMA InitInv == Init => IInv
<1>1. SUFFICES ASSUME Init PROVE IInv
  OBVIOUS
<1>2. PICK e : e = Empty(BaseAllocation)
  OBVIOUS
<1>3. /\ heads = e.heads /\ tails = e.heads /\ sizes = e.sizes /\ totalSize = 0
      /\ available = e.available /\ node = e.node /\ line = e.line
  BY <1>1, <1>2 DEF Init
<1>4. BaseAllocation \in Nat /\ BaseAllocation > 0 /\ blockSize \in Nat
  BY FinitePQueueAssumption
<1>5. /\ DOMAIN e.heads = Priority
      /\ e.sizes = [p \in Priority |-> Len(NoChain[p])]
      /\ NoChain \in [Priority -> Seq(Nat)] /\ e.line \in [Priority -> Seq(Value)]
      /\ \A p \in Priority : Linked(NoChain[p], e.heads[p], e.heads[p], e.line[p], e.node)
      /\ EachOnce(NoChain, e.available, DOMAIN e.node)
      /\ Cardinality(DOMAIN e.node) = blockSize
      /\ DOMAIN e.node = 0 .. blockSize - 1
      /\ e.available.size = blockSize
  BY <1>2, <1>4, EmptyOf
<1>6. OnRails(NoChain)
  BY <1>3, <1>4, <1>5 DEF OnRails, NumNodes
<1>7. QED
  BY <1>5, <1>6 DEF IInv

LEMMA ClearInv == Clear => IInv'
<1>1. SUFFICES ASSUME Clear PROVE IInv'
  OBVIOUS
<1>2. PICK e : e = Empty(1)
  OBVIOUS
<1>3. /\ heads' = e.heads /\ tails' = e.heads /\ sizes' = e.sizes /\ totalSize' = 0
      /\ available' = e.available /\ node' = e.node /\ line' = e.line
  BY <1>1, <1>2 DEF Clear
<1>4. 1 \in Nat /\ 1 > 0 /\ blockSize \in Nat
  BY FinitePQueueAssumption
<1>5. /\ DOMAIN e.heads = Priority
      /\ e.sizes = [p \in Priority |-> Len(NoChain[p])]
      /\ NoChain \in [Priority -> Seq(Nat)] /\ e.line \in [Priority -> Seq(Value)]
      /\ \A p \in Priority : Linked(NoChain[p], e.heads[p], e.heads[p], e.line[p], e.node)
      /\ EachOnce(NoChain, e.available, DOMAIN e.node)
      /\ Cardinality(DOMAIN e.node) = blockSize
      /\ DOMAIN e.node = 0 .. blockSize - 1
      /\ e.available.size = blockSize
  BY <1>2, <1>4, EmptyOf
<1>6. NumNodes' = blockSize
  <2>1. NumNodes' = Cardinality(DOMAIN node')
    BY Zenon DEF NumNodes
  <2>2. QED
    BY <1>3, <1>5, <2>1
<1>7. OnRails(NoChain)'
  BY <1>3, <1>4, <1>5, <1>6 DEF OnRails
<1>8. QED
  BY <1>5, <1>7 DEF IInv

THEOREM Invariance == Spec => []IInv
<1>1. ASSUME IInv, [Next]_vars
      PROVE  IInv'
  <2>1. ASSUME NEW p \in Priority, DequeuePriority(p) PROVE IInv'
    BY <1>1, <2>1, DequeueInv
  <2>2. ASSUME NEW p \in Priority, NEW v \in Value, Enqueue(v, p) PROVE IInv'
    BY <1>1, <2>2, EnqueueInv
  <2>3. ASSUME NEW p \in Priority, NEW v \in Value, EnqueueFront(v, p) PROVE IInv'
    BY <1>1, <2>3, EnqueueFrontInv
  <2>4. CASE Dequeue
    <3>1. Highest \in Priority
      <4>1. InUse # {} /\ InUse \subseteq Priority
        BY <2>4 DEF Dequeue, InUse
      <4>2. \E p \in InUse : \A q \in InUse : p <= q
        <5>1. InUse \subseteq Nat
          BY <4>1 DEF Priority
        <5>2. QED
          BY <4>1, <5>1, LeastOf
      <4>3. QED
        BY <4>1, <4>2 DEF Highest
    <3>2. QED
      BY <2>1, <2>4, <3>1 DEF Dequeue
  <2>5. CASE Clear
    BY <2>5, ClearInv
  <2>6. CASE Looks \/ UNCHANGED vars
    BY <1>1, <2>6 DEF Looks, vars, IInv, OnRails, NumNodes
  <2>7. QED
    BY <1>1, <2>1, <2>2, <2>3, <2>4, <2>5, <2>6 DEF Next
<1>2. QED
  BY <1>1, InitInv, PTL DEF Spec

-----------------------------------------------------------------------------
(* What the properties say of a chain that is linked.                      *)

Follows(at, p) ==
  at = [n \in 1 .. sizes[p] |->
          IF n = 1 THEN heads[p]
          ELSE IF at[n - 1] = Null THEN Null ELSE node[at[n - 1]].next]

\* The nodes met by following a list from its head are the chain.
LEMMA ChainFollowed ==
  ASSUME NEW chain \in [Priority -> Seq(Nat)], OnRails(chain), NEW p \in Priority
  PROVE  NodeAt(p) = chain[p]
<1> DEFINE c == chain[p]
           n == Len(c)
           at == NodeAt(p)
<1>1. /\ c \in Seq(Nat) /\ Linked(c, heads[p], tails[p], line[p], node)
      /\ sizes[p] = n /\ n \in Nat
  BY DEF OnRails
<1>2. c \in [1 .. n -> Nat]
  BY <1>1
<1>3. /\ n > 0 => heads[p] = c[1]
      /\ \A i \in 1 .. n : i # n => node[c[i]].next = c[i + 1]
  <2>1. /\ heads[p] = IF c = << >> THEN Null ELSE c[1]
        /\ n > 0 => c # << >>
        /\ \A i \in 1 .. n : node[c[i]] = [data |-> line[p][i],
                                           next |-> IF i = n THEN Null ELSE c[i + 1]]
    BY <1>1, EmptySeq DEF Linked
  <2> HIDE DEF c, n
  <2>2. ASSUME NEW i \in 1 .. n, i # n
        PROVE  node[c[i]].next = c[i + 1]
    <3>1. node[c[i]] = [data |-> line[p][i], next |-> c[i + 1]]
      BY <2>1, <2>2
    <3>2. QED
      BY <3>1
  <2>3. QED
    BY <2>1, <2>2
<1>4. \A i \in 1 .. n : c[i] # Null
  BY <1>2 DEF Null
<1> HIDE DEF c, n
<1>5. Follows(c, p)
  <2>1. ASSUME NEW i \in 1 .. n
        PROVE  c[i] = IF i = 1 THEN heads[p]
                      ELSE IF c[i - 1] = Null THEN Null ELSE node[c[i - 1]].next
    <3>1. CASE i = 1
      BY <1>1, <1>3, <3>1
    <3>2. CASE i # 1
      <4>1. i - 1 \in 1 .. n /\ i - 1 # n /\ (i - 1) + 1 = i
        BY <1>1, <3>2
      <4>2. node[c[i - 1]].next = c[i] /\ c[i - 1] # Null
        BY <1>3, <1>4, <4>1
      <4>3. QED
        BY <3>2, <4>2
    <3>3. QED
      BY <3>1, <3>2
  <2>2. QED
    BY <1>1, <1>2, <2>1 DEF Follows
<1>6. Follows(at, p)
  <2>1. at = CHOOSE f : Follows(f, p)
    BY DEF NodeAt, Follows
  <2> HIDE DEF at
  <2>2. QED
    BY <1>5, <2>1, Zenon
<1> HIDE DEF at
<1>7. /\ at = [i \in 1 .. n |-> at[i]]
      /\ \A i \in 1 .. n : at[i] = IF i = 1 THEN heads[p]
                                   ELSE IF at[i - 1] = Null THEN Null ELSE node[at[i - 1]].next
      /\ \A i \in 1 .. n : c[i] = IF i = 1 THEN heads[p]
                                  ELSE IF c[i - 1] = Null THEN Null ELSE node[c[i - 1]].next
  BY <1>1, <1>5, <1>6 DEF Follows
<1>8. \A i \in 1 .. n : at[i] = c[i]
  <2> DEFINE T == {i \in Nat : i \in 1 .. n => at[i] = c[i]}
  <2>1. 0 \in T
    OBVIOUS
  <2>2. ASSUME NEW i \in Nat, i \in T
        PROVE  i + 1 \in T
    <3>1. SUFFICES ASSUME i + 1 \in 1 .. n PROVE at[i + 1] = c[i + 1]
      OBVIOUS
    <3>2. CASE i = 0
      BY <1>7, <3>1, <3>2
    <3>3. CASE i # 0
      <4>1. i \in 1 .. n /\ i + 1 # 1 /\ (i + 1) - 1 = i
        BY <1>1, <3>1, <3>3
      <4>2. at[i] = c[i]
        BY <2>2, <4>1
      <4>3. /\ at[i + 1] = IF at[i] = Null THEN Null ELSE node[at[i]].next
            /\ c[i + 1] = IF c[i] = Null THEN Null ELSE node[c[i]].next
        <5> DEFINE j == i + 1
        <5>1. j \in 1 .. n /\ j # 1 /\ j - 1 = i
          BY <3>1, <4>1
        <5> HIDE DEF j
        <5>2. /\ at[j] = IF at[i] = Null THEN Null ELSE node[at[i]].next
              /\ c[j] = IF c[i] = Null THEN Null ELSE node[c[i]].next
          BY <1>7, <5>1
        <5>3. QED
          BY <5>2 DEF j
      <4>4. QED
        BY <4>2, <4>3
    <3>4. QED
      BY <3>2, <3>3
  <2>3. Nat \subseteq T
    BY <2>1, <2>2, SetInduction
  <2>4. QED
    BY <1>1, <2>3
<1>9. at = c
  BY <1>2, <1>7, <1>8
<1>10. QED
  BY <1>9 DEF at, c

\* Each priority's list holds what it should serve, in order, and ends at its
\* tail, until the queue derails.
THEOREM ListsKept == Spec => []ListsInOrder
<1>1. IInv => ListsInOrder
  <2>1. SUFFICES ASSUME IInv, ~derailed, NEW p \in Priority
                 PROVE  /\ sizes[p] = Len(line[p])
                        /\ sizes[p] = 0 <=> heads[p] = Null
                        /\ Null \notin Chained(p)
                        /\ \A n \in 1 .. sizes[p] : node[NodeAt(p)[n]].data = line[p][n]
                        /\ sizes[p] > 0 => LET last == NodeAt(p)[sizes[p]]
                                           IN  node[last].next = Null /\ last = tails[p]
    BY DEF ListsInOrder
  <2>2. PICK chain \in [Priority -> Seq(Nat)] : OnRails(chain)
    BY <2>1 DEF IInv
  <2> DEFINE c == chain[p]
             n == Len(c)
  <2>3. NodeAt(p) = c
    BY <2>2, ChainFollowed
  <2>4. /\ c \in Seq(Nat) /\ Linked(c, heads[p], tails[p], line[p], node)
        /\ sizes[p] = n /\ n \in Nat
    BY <2>2 DEF OnRails
  <2>5. c \in [1 .. n -> Nat] /\ (c = << >> <=> n = 0)
    BY <2>4, EmptySeq
  <2> HIDE DEF c, n
  <2>6. /\ n = Len(line[p])
        /\ heads[p] = IF n = 0 THEN Null ELSE c[1]
        /\ n # 0 => tails[p] = c[n]
        /\ \A i \in 1 .. n : node[c[i]] = [data |-> line[p][i],
                                           next |-> IF i = n THEN Null ELSE c[i + 1]]
    BY <2>4, <2>5 DEF Linked, n
  <2>7. \A i \in 1 .. n : c[i] # Null
    BY <2>5 DEF Null
  <2>8. n = 0 <=> heads[p] = Null
    BY <2>4, <2>6, <2>7
  <2>9. Null \notin Chained(p)
    BY <2>3, <2>4, <2>7 DEF Chained
  <2>10. ASSUME NEW i \in 1 .. n
         PROVE  node[c[i]].data = line[p][i]
    <3>1. node[c[i]] = [data |-> line[p][i], next |-> IF i = n THEN Null ELSE c[i + 1]]
      BY <2>6
    <3>2. QED
      BY <3>1
  <2>11. n > 0 => node[c[n]].next = Null /\ c[n] = tails[p]
    <3>1. SUFFICES ASSUME n > 0 PROVE node[c[n]].next = Null /\ c[n] = tails[p]
      OBVIOUS
    <3>2. n \in 1 .. n /\ n # 0
      BY <2>4, <3>1
    <3>3. node[c[n]] = [data |-> line[p][n], next |-> Null]
      BY <2>6, <3>2
    <3>4. QED
      BY <2>6, <3>2, <3>3
  <2>12. QED
    BY <2>3, <2>4, <2>6, <2>8, <2>9, <2>10, <2>11
<1>2. QED
  BY <1>1, Invariance, PTL

\* Every node allocated is in one list, once, or is free, once, and the sizes
\* add up, until the queue derails.
THEOREM NodesKept == Spec => []NodesAccounted
<1>1. IInv => NodesAccounted
  <2>1. SUFFICES ASSUME IInv, ~derailed
                 PROVE  /\ InShape(available)
                        /\ Free \cup UNION {Chained(p) : p \in Priority} = DOMAIN node
                        /\ Cardinality(Free) = available.size
                        /\ available.size + totalSize = NumNodes
    BY DEF NodesAccounted
  <2>2. PICK chain \in [Priority -> Seq(Nat)] : OnRails(chain)
    BY <2>1 DEF IInv
  <2>3. EachOnce(chain, available, DOMAIN node) /\ available.size + totalSize = NumNodes
    BY <2>2 DEF OnRails
  <2>4. ASSUME NEW p \in Priority
        PROVE  Chained(p) = Range(chain[p])
    <3>1. NodeAt(p) = chain[p] /\ sizes[p] = Len(chain[p]) /\ chain[p] \in Seq(Nat)
      BY <2>2, ChainFollowed DEF OnRails
    <3>2. DOMAIN chain[p] = 1 .. Len(chain[p])
      BY <3>1
    <3>3. QED
      BY <3>1, <3>2 DEF Chained, Range
  <2>5. UNION {Chained(p) : p \in Priority} = UNION {Range(chain[p]) : p \in Priority}
    BY <2>4
  <2>6. Cardinality(Free) = available.size
    BY <2>3, RingCounts DEF Free, EachOnce
  <2>7. QED
    BY <2>3, <2>5, <2>6 DEF Free, EachOnce
<1>2. QED
  BY <1>1, Invariance, PTL
=============================================================================
