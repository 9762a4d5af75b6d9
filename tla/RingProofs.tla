----------------------------- MODULE RingProofs -----------------------------
(***************************************************************************)
(* What the theorems about SPSCQueue and FinitePQueue rest on: what the    *)
(* functions of Ring make of a queue's offsets and of its line, for every  *)
(* capacity, size and kind of elements.                                    *)
(***************************************************************************)
EXTENDS Ring, SequenceTheorems, TLAPS

-----------------------------------------------------------------------------
(* Places in the ring.                                                     *)

\* The i-th element of the queue, counted from zero.
Spot(q, i) == (q.frontOffset + i) % q.capacity

\* What a queue in shape and a spent one have in common.
Standing(q) ==
  /\ q.size <= q.capacity
  /\ q.frontOffset < q.capacity \/ (q.frontOffset = 0 /\ q.capacity = 0)
  /\ DOMAIN q.data = {Spot(q, i) : i \in 0 .. q.size - 1}

\* Less than twice around, a remainder is a subtraction.
LEMMA OnceAround ==
  ASSUME NEW n \in Nat \ {0}, NEW a \in Nat, a < n + n
  PROVE  a % n = IF a < n THEN a ELSE a - n
<1>1. CASE a < n
  BY <1>1
<1>2. CASE a >= n
  BY <1>2
<1>3. QED
  BY <1>1, <1>2

LEMMA Fields ==
  ASSUME NEW V, NEW q, Typed(q, V)
  PROVE  /\ q.frontOffset \in Nat /\ q.backOffset \in Nat
         /\ q.size \in Nat /\ q.capacity \in Nat
BY DEF Typed

LEMMA SpotOf ==
  ASSUME NEW V, NEW q, Typed(q, V), q.frontOffset < q.capacity, NEW i \in Nat, i <= q.capacity
  PROVE  Spot(q, i) = IF q.frontOffset + i < q.capacity THEN q.frontOffset + i
                      ELSE q.frontOffset + i - q.capacity
<1>1. /\ q.frontOffset \in Nat /\ q.capacity \in Nat
  BY Fields
<1> DEFINE n == q.capacity
           a == q.frontOffset + i
<1>2. a \in Nat /\ n \in Nat \ {0} /\ a < n + n
  BY <1>1
<1> HIDE DEF a, n
<1>3. a % n = IF a < n THEN a ELSE a - n
  BY <1>2, OnceAround
<1>4. QED
  BY <1>1, <1>3 DEF Spot, a, n

LEMMA ShapeStands ==
  ASSUME NEW V, NEW q, Typed(q, V), InShape(q)
  PROVE  Standing(q) /\ q.capacity > 0 /\ q.backOffset = Spot(q, q.size)
BY Fields DEF InShape, Standing, Spot

LEMMA SpentStands ==
  ASSUME NEW V, NEW q, Typed(q, V), Spent(q)
  PROVE  Standing(q)
<1>1. /\ q.frontOffset \in Nat /\ q.size \in Nat /\ q.capacity \in Nat
  BY Fields
<1>2. CASE q.size = 0
  BY <1>1, <1>2, Fields DEF Spent, Standing
<1>3. CASE q.size > 0
  <2>1. q.frontOffset < q.capacity /\ q.size <= q.capacity
    BY <1>1, <1>3 DEF Spent
  <2>2. \A i \in 0 .. q.size - 1 : Spot(q, i) = q.frontOffset + i
    <3>1. SUFFICES ASSUME NEW i \in 0 .. q.size - 1
                   PROVE  Spot(q, i) = q.frontOffset + i
      OBVIOUS
    <3>2. i \in Nat /\ i <= q.capacity /\ q.frontOffset + i < q.capacity
      BY <1>1, <1>3, <2>1 DEF Spent
    <3>3. QED
      BY <2>1, <3>2, SpotOf
  <2>3. {Spot(q, i) : i \in 0 .. q.size - 1} = q.frontOffset .. q.frontOffset + q.size - 1
    <3>1. {Spot(q, i) : i \in 0 .. q.size - 1} = {q.frontOffset + i : i \in 0 .. q.size - 1}
      BY <2>2
    <3>2. \A i \in 0 .. q.size - 1 :
            q.frontOffset + i \in q.frontOffset .. q.frontOffset + q.size - 1
      BY <1>1
    <3>3. \A k \in q.frontOffset .. q.frontOffset + q.size - 1 :
            \E i \in 0 .. q.size - 1 : k = q.frontOffset + i
      <4>1. SUFFICES ASSUME NEW k \in q.frontOffset .. q.frontOffset + q.size - 1
                     PROVE  \E i \in 0 .. q.size - 1 : k = q.frontOffset + i
        OBVIOUS
      <4>2. k - q.frontOffset \in 0 .. q.size - 1 /\ k = q.frontOffset + (k - q.frontOffset)
        BY <1>1
      <4>3. QED
        BY <4>2
    <3>4. QED
      BY <3>1, <3>2, <3>3, Zenon
  <2>4. QED
    BY <2>1, <2>3 DEF Spent, Standing
<1>4. QED
  BY <1>1, <1>2, <1>3

LEMMA OneTurn ==
  ASSUME NEW n \in Nat, NEW f \in Nat,
         NEW i \in Nat, i < n, NEW j \in Nat, j < n,
         (IF f + i < n THEN f + i ELSE f + i - n) = (IF f + j < n THEN f + j ELSE f + j - n)
  PROVE  i = j
<1>1. CASE f + i < n /\ f + j < n
  BY <1>1
<1>2. CASE f + i < n /\ f + j >= n
  BY <1>2
<1>3. CASE f + i >= n /\ f + j < n
  BY <1>3
<1>4. CASE f + i >= n /\ f + j >= n
  BY <1>4
<1>5. QED
  BY <1>1, <1>2, <1>3, <1>4

\* No two elements share a place.
LEMMA SpotsDiffer ==
  ASSUME NEW V, NEW q, Typed(q, V), q.frontOffset < q.capacity,
         NEW i \in Nat, i < q.capacity, NEW j \in Nat, j < q.capacity,
         Spot(q, i) = Spot(q, j)
  PROVE  i = j
<1>1. /\ q.frontOffset \in Nat /\ q.capacity \in Nat
  BY Fields
<1>2. /\ Spot(q, i) = IF q.frontOffset + i < q.capacity THEN q.frontOffset + i
                      ELSE q.frontOffset + i - q.capacity
      /\ Spot(q, j) = IF q.frontOffset + j < q.capacity THEN q.frontOffset + j
                      ELSE q.frontOffset + j - q.capacity
  BY <1>1, SpotOf
<1>3. QED
  BY <1>1, <1>2, OneTurn

\* The line of a queue holds its elements from front on.
LEMMA LineOf ==
  ASSUME NEW V, NEW q, Typed(q, V), Standing(q)
  PROVE  /\ Line(q) \in Seq(V)
         /\ Len(Line(q)) = q.size
         /\ \A i \in 1 .. q.size : /\ Spot(q, i - 1) \in DOMAIN q.data
                                   /\ Line(q)[i] = q.data[Spot(q, i - 1)]
<1>1. q.size \in Nat /\ q.frontOffset \in Nat
  BY Fields
<1>2. \A i \in 1 .. q.size : /\ Spot(q, i - 1) \in DOMAIN q.data
                             /\ Line(q)[i] = q.data[Spot(q, i - 1)]
  <2>1. SUFFICES ASSUME NEW i \in 1 .. q.size
                 PROVE  /\ Spot(q, i - 1) \in DOMAIN q.data
                        /\ Line(q)[i] = q.data[Spot(q, i - 1)]
    OBVIOUS
  <2>2. i - 1 \in 0 .. q.size - 1 /\ q.frontOffset + i - 1 = q.frontOffset + (i - 1)
    BY <1>1
  <2>3. Spot(q, i - 1) \in DOMAIN q.data
    BY <2>2 DEF Standing
  <2>4. QED
    BY <2>2, <2>3 DEF Line, Spot
<1>3. \A i \in 1 .. q.size : Line(q)[i] \in V
  BY <1>2 DEF Typed
<1>4. Line(q) \in [1 .. q.size -> V]
  <2>1. Line(q) = [i \in 1 .. q.size |-> Line(q)[i]]
    BY DEF Line
  <2>2. QED
    BY <1>3, <2>1
<1>5. QED
  BY <1>1, <1>2, <1>4

-----------------------------------------------------------------------------
(* Copying the elements to the front of an array.                          *)

\* reallocate and deepCopy read the elements, in one run or in two.
LEMMA SourceOf ==
  ASSUME NEW V, NEW q, Typed(q, V), Standing(q), InShape(q) \/ Spent(q), q.size > 0
  PROVE  /\ NumCopied(q) = q.size
         /\ \A i \in 0 .. q.size - 1 : Source(q, i) = Spot(q, i)
<1> DEFINE f == q.frontOffset
           n == q.capacity
           s == q.size
           b == q.backOffset
<1>1. f \in Nat /\ n \in Nat /\ s \in Nat /\ b \in Nat /\ s > 0 /\ s <= n /\ f < n
  BY Fields DEF Standing
<1>2. \A i \in Nat : i <= n => Spot(q, i) = IF f + i < n THEN f + i ELSE f + i - n
  BY <1>1, SpotOf
<1>3. /\ Wraps(q) <=> b <= f
      /\ NumCopied(q) = IF b <= f THEN n - f + b ELSE b - f
      /\ \A i \in 0 .. s - 1 :
           Source(q, i) = IF b <= f /\ i >= n - f THEN i - (n - f) ELSE f + i
  BY DEF Wraps, NumCopied, Source
<1>4. \/ b = Spot(q, s)
      \/ b = n /\ f + s = n
  BY <1>1, ShapeStands DEF Spent
<1>5. \A i \in 0 .. s - 1 : i \in Nat /\ i <= n
  BY <1>1
<1> HIDE DEF f, n, s, b
<1>6. CASE b = Spot(q, s) /\ f + s < n
  <2>1. b = f + s
    BY <1>1, <1>2, <1>6
  <2>2. QED
    BY <1>1, <1>2, <1>3, <1>5, <1>6, <2>1 DEF s
<1>7. CASE b = Spot(q, s) /\ f + s >= n
  <2>1. b = f + s - n /\ b <= f
    BY <1>1, <1>2, <1>7
  <2>2. NumCopied(q) = s
    BY <1>1, <1>3, <2>1
  <2>3. ASSUME NEW i \in 0 .. s - 1
        PROVE  Source(q, i) = Spot(q, i)
    <3>1. Spot(q, i) = IF f + i < n THEN f + i ELSE f + i - n
      BY <1>2, <1>5
    <3>2. Source(q, i) = IF i >= n - f THEN i - (n - f) ELSE f + i
      BY <1>3, <2>1
    <3>3. QED
      BY <1>1, <3>1, <3>2
  <2>4. QED
    BY <2>2, <2>3 DEF s
<1>8. CASE b = n /\ f + s = n
  <2>1. \A i \in 0 .. s - 1 : f + i < n
    BY <1>1, <1>8
  <2>2. QED
    BY <1>1, <1>2, <1>3, <1>5, <1>8, <2>1 DEF s
<1>9. QED
  BY <1>1, <1>4, <1>6, <1>7, <1>8

\* The copy holds them, from the start of its array.
LEMMA StraightOf ==
  ASSUME NEW V, NEW q, Typed(q, V), Standing(q), InShape(q) \/ Spent(q)
  PROVE  /\ Straight(q) \in [0 .. q.size - 1 -> V]
         /\ \A i \in 0 .. q.size - 1 : Straight(q)[i] = q.data[Spot(q, i)]
<1>1. q.size \in Nat /\ q.data \in [DOMAIN q.data -> V]
  BY DEF Typed
<1>2. CASE q.size = 0
  <2>1. 0 .. q.size - 1 = {}
    BY <1>2
  <2>2. DOMAIN q.data = {}
    BY <2>1 DEF Standing
  <2>3. Straight(q) \in [{} -> V]
    BY <2>2 DEF Straight
  <2>4. QED
    BY <2>1, <2>3
<1>3. CASE q.size > 0
  <2>1. /\ NumCopied(q) = q.size
        /\ \A i \in 0 .. q.size - 1 : Source(q, i) = Spot(q, i)
    BY <1>3, SourceOf
  <2>2. \A i \in 0 .. q.size - 1 : Spot(q, i) \in DOMAIN q.data
    BY DEF Standing
  <2>3. {j \in 0 .. NumCopied(q) - 1 : Source(q, j) \in DOMAIN q.data} = 0 .. q.size - 1
    BY <2>1, <2>2
  <2>4. Straight(q) = [i \in 0 .. q.size - 1 |-> q.data[Source(q, i)]]
    BY <2>3 DEF Straight
  <2>5. \A i \in 0 .. q.size - 1 : /\ Straight(q)[i] = q.data[Spot(q, i)]
                                   /\ q.data[Source(q, i)] \in V
    BY <1>1, <2>1, <2>2, <2>4
  <2>6. QED
    BY <2>4, <2>5
<1>4. QED
  BY <1>1, <1>2, <1>3

\* The copy is the same line.  In an array of just the elements it is spent, in
\* a longer one it is in shape.
LEMMA ReallocatedOf ==
  ASSUME NEW V, NEW q, Typed(q, V), Standing(q), InShape(q) \/ Spent(q),
         NEW m \in Nat, m >= q.size
  PROVE  /\ Typed(Reallocated(q, m), V)
         /\ m > q.size => InShape(Reallocated(q, m))
         /\ m = q.size => Spent(Reallocated(q, m))
         /\ Line(Reallocated(q, m)) = Line(q)
<1> DEFINE r == Reallocated(q, m)
<1>1. q.size \in Nat
  BY Fields
<1>2. /\ Straight(q) \in [0 .. q.size - 1 -> V]
      /\ \A i \in 0 .. q.size - 1 : Straight(q)[i] = q.data[Spot(q, i)]
  BY StraightOf
<1>3. /\ r.data = Straight(q) /\ r.frontOffset = 0 /\ r.backOffset = q.size
      /\ r.size = q.size /\ r.capacity = m
      /\ r = [data |-> r.data, frontOffset |-> 0, backOffset |-> q.size,
              size |-> q.size, capacity |-> m]
  BY DEF Reallocated
<1> HIDE DEF r
<1>4. Typed(r, V)
  BY <1>1, <1>2, <1>3 DEF Typed
<1>5. \A i \in 0 .. q.size - 1 : (0 + i) % m = i
  <2>1. \A i \in 0 .. q.size - 1 : i \in 0 .. m - 1
    BY <1>1
  <2>2. \A i \in 0 .. m - 1 : (0 + i) % m = i
    OBVIOUS
  <2>3. QED
    BY <2>1, <2>2
<1>6. {(0 + i) % m : i \in 0 .. q.size - 1} = 0 .. q.size - 1
  <2>1. {(0 + i) % m : i \in 0 .. q.size - 1} = {i : i \in 0 .. q.size - 1}
    BY <1>5
  <2>2. QED
    BY <2>1
<1>7. DOMAIN r.data = {(0 + i) % m : i \in 0 .. q.size - 1}
  BY <1>2, <1>3, <1>6
<1>8. ASSUME m > q.size
      PROVE  InShape(r)
  <2>1. (0 + q.size) % m = q.size /\ 0 \in 0 .. m - 1
    BY <1>1, <1>8
  <2>2. QED
    BY <1>1, <1>3, <1>7, <1>8, <2>1 DEF InShape
<1>9. ASSUME m = q.size
      PROVE  Spent(r)
  BY <1>1, <1>2, <1>3, <1>9 DEF Spent
<1>10. Standing(r)
  <2>1. InShape(r) \/ Spent(r)
    BY <1>1, <1>8, <1>9
  <2>2. QED
    BY <1>4, <2>1, ShapeStands, SpentStands
<1>11. \A i \in 1 .. q.size : Line(r)[i] = Line(q)[i]
  <2>1. SUFFICES ASSUME NEW i \in 1 .. q.size
                 PROVE  Line(r)[i] = Line(q)[i]
    OBVIOUS
  <2>2. i - 1 \in 0 .. q.size - 1
    BY <1>1
  <2>3. Spot(r, i - 1) = i - 1
    BY <1>3, <1>5, <2>2 DEF Spot
  <2>4. Line(r)[i] = r.data[Spot(r, i - 1)] /\ Line(q)[i] = q.data[Spot(q, i - 1)]
    BY <1>3, <1>4, <1>10, LineOf
  <2>5. QED
    BY <1>2, <1>3, <2>2, <2>3, <2>4
<1>12. Line(r) = Line(q)
  <2>1. /\ Line(r) \in Seq(V) /\ Line(q) \in Seq(V)
        /\ Len(Line(r)) = q.size /\ Len(Line(q)) = q.size
    BY <1>3, <1>4, <1>10, LineOf
  <2>2. QED
    BY <1>11, <2>1, SeqEqual
<1>13. QED
  BY <1>4, <1>8, <1>9, <1>12 DEF r

-----------------------------------------------------------------------------
(* Enqueueing and dequeueing.                                              *)

\* A queue in shape has room for one more, or gets it.
LEMMA ShapeFits ==
  ASSUME NEW V, NEW q, Typed(q, V), InShape(q)
  PROVE  EnqueueFits(q)
<1>1. Standing(q) /\ q.capacity > 0 /\ q.backOffset = Spot(q, q.size)
  BY ShapeStands
<1>2. q.size \in Nat /\ q.capacity \in Nat /\ q.frontOffset \in Nat /\ q.size <= q.capacity
  BY <1>1, Fields DEF Standing
<1>3. CASE Full(q)
  <2>1. q.size = q.capacity /\ q.size > 0
    BY <1>1, <1>2, <1>3 DEF Full
  <2>2. NumCopied(q) = q.size
    BY <1>1, <2>1, SourceOf
  <2>3. /\ Grown(q) = Reallocated(q, q.capacity * 2)
        /\ Grown(q).backOffset = q.size /\ Grown(q).capacity = q.capacity * 2
    BY <1>3 DEF Grown, Reallocated
  <2>4. q.size <= q.capacity * 2 /\ q.size < q.capacity * 2
    BY <1>2, <2>1
  <2>5. QED
    BY <2>2, <2>3, <2>4 DEF EnqueueFits, ReallocateFits
<1>4. CASE ~Full(q)
  <2>1. Grown(q) = q
    BY <1>4 DEF Grown
  <2>2. q.frontOffset < q.capacity
    BY <1>1 DEF Standing
  <2>3. Spot(q, q.size) < q.capacity
    <3>1. Spot(q, q.size) = IF q.frontOffset + q.size < q.capacity THEN q.frontOffset + q.size
                            ELSE q.frontOffset + q.size - q.capacity
      BY <1>2, <2>2, SpotOf
    <3>2. QED
      BY <1>2, <2>2, <3>1
  <2>4. QED
    BY <1>1, <1>4, <2>1, <2>3 DEF EnqueueFits
<1>5. QED
  BY <1>3, <1>4

\* Where enqueue writes, there is room behind the elements.
LEMMA GrownOf ==
  ASSUME NEW V, NEW q, Typed(q, V), Standing(q), InShape(q) \/ Spent(q), EnqueueFits(q)
  PROVE  /\ Typed(Grown(q), V) /\ InShape(Grown(q))
         /\ Grown(q).size < Grown(q).capacity
         /\ Line(Grown(q)) = Line(q)
         /\ Spent(q) => Full(q)
<1>1. q.size \in Nat /\ q.capacity \in Nat /\ q.size <= q.capacity
  BY Fields DEF Standing
<1>2. CASE Full(q)
  <2>1. q.size = q.capacity
    BY <1>1, <1>2 DEF Full
  <2>2. /\ Grown(q) = Reallocated(q, q.capacity * 2)
        /\ Grown(q).size = q.size
        /\ Grown(q).backOffset = q.size /\ Grown(q).capacity = q.capacity * 2
    BY <1>2 DEF Grown, Reallocated
  <2>3. q.size < q.capacity * 2
    BY <2>2 DEF EnqueueFits
  <2>4. q.capacity * 2 \in Nat /\ q.capacity * 2 >= q.size
    BY <1>1
  <2>5. QED
    BY <1>1, <1>2, <2>2, <2>3, <2>4, ReallocatedOf
<1>3. CASE ~Full(q)
  <2>1. Grown(q) = q /\ q.size < q.capacity
    BY <1>1, <1>3 DEF Grown, Full
  <2>2. ~Spent(q)
    BY <1>1, <2>1 DEF Spent, EnqueueFits
  <2>3. QED
    BY <2>1, <2>2
<1>4. QED
  BY <1>2, <1>3

Put(g, v) == [g EXCEPT !.data = [p \in DOMAIN @ \cup {g.backOffset} |->
                                   IF p = g.backOffset THEN v ELSE @[p]],
                       !.backOffset = (@ + 1) % g.capacity,
                       !.size = @ + 1]

LEMMA PutOf ==
  ASSUME NEW V, NEW g, Typed(g, V), InShape(g), g.size < g.capacity, NEW v \in V
  PROVE  /\ Typed(Put(g, v), V) /\ InShape(Put(g, v))
         /\ Line(Put(g, v)) = Append(Line(g), v)
<1> DEFINE e == Put(g, v)
           f == g.frontOffset
           n == g.capacity
           s == g.size
           b == g.backOffset
<1>1. f \in Nat /\ n \in Nat /\ s \in Nat /\ b \in Nat /\ s < n /\ f < n
  BY Fields DEF InShape
<1>2. Standing(g) /\ b = Spot(g, s)
  BY ShapeStands
<1>3. e = [data |-> [p \in DOMAIN g.data \cup {b} |-> IF p = b THEN v ELSE g.data[p]],
           frontOffset |-> f, backOffset |-> (b + 1) % n, size |-> s + 1, capacity |-> n]
  <2>1. g = [data |-> g.data, frontOffset |-> f, backOffset |-> b, size |-> s, capacity |-> n]
    BY DEF Typed
  <2> DEFINE d == [p \in DOMAIN g.data \cup {b} |-> IF p = b THEN v ELSE g.data[p]]
             y == (b + 1) % n
             z == s + 1
  <2>2. e = [g EXCEPT !.data = d, !.backOffset = y, !.size = z]
    BY DEF Put
  <2> HIDE DEF d, y, z, b, s, e
  <2>3. e = [data |-> d, frontOffset |-> f, backOffset |-> y, size |-> z, capacity |-> n]
    BY <2>1, <2>2
  <2>4. QED
    BY <2>3 DEF d, y, z, b, s
<1>4. /\ e.frontOffset = f /\ e.capacity = n /\ e.size = s + 1
      /\ e.backOffset = (b + 1) % n
      /\ DOMAIN e.data = DOMAIN g.data \cup {b}
      /\ e.data = [k \in DOMAIN e.data |-> IF k = b THEN v ELSE g.data[k]]
      /\ e = [data |-> e.data, frontOffset |-> f, backOffset |-> e.backOffset,
              size |-> e.size, capacity |-> n]
  BY <1>3
<1>5. /\ \A i \in Nat : i <= n => Spot(g, i) = IF f + i < n THEN f + i ELSE f + i - n
      /\ \A i \in Nat : Spot(e, i) = Spot(g, i)
  BY <1>1, <1>4, SpotOf DEF Spot
<1>6. e.backOffset = Spot(g, s + 1) /\ e.backOffset \in Nat
  <2>1. b = IF f + s < n THEN f + s ELSE f + s - n
    BY <1>1, <1>2, <1>5
  <2>2. Spot(g, s + 1) = IF f + (s + 1) < n THEN f + (s + 1) ELSE f + (s + 1) - n
    BY <1>1, <1>5
  <2>3. b + 1 \in Nat /\ b + 1 < n + n /\ n \in Nat \ {0}
    BY <1>1, <2>1
  <2> DEFINE a == b + 1
  <2> HIDE DEF a, f, n, s, b, e
  <2>4. a % n = IF a < n THEN a ELSE a - n
    BY <2>3, OnceAround DEF a
  <2>5. QED
    BY <1>1, <1>4, <2>1, <2>2, <2>3, <2>4 DEF a
<1>7. Typed(e, V)
  <2>1. e.data \in [DOMAIN e.data -> V]
    BY <1>4 DEF Typed
  <2>2. s + 1 \in Nat
    BY <1>1
  <2> HIDE DEF e
  <2>3. QED
    BY <1>1, <1>4, <1>6, <2>1, <2>2 DEF Typed
<1> HIDE DEF e, f, n, s, b
<1>8. DOMAIN e.data = {Spot(e, i) : i \in 0 .. e.size - 1}
  <2>1. DOMAIN g.data = {Spot(g, i) : i \in 0 .. s - 1}
    BY <1>2 DEF Standing, s
  <2>2. 0 .. e.size - 1 = (0 .. s - 1) \cup {s} /\ e.size - 1 = s
    BY <1>1, <1>4
  <2>3. \A i \in 0 .. e.size - 1 : Spot(e, i) = Spot(g, i)
    BY <1>1, <1>5, <2>2
  <2>4. {Spot(e, i) : i \in 0 .. e.size - 1} = {Spot(g, i) : i \in 0 .. e.size - 1}
    BY <2>3
  <2>5. {Spot(g, i) : i \in 0 .. e.size - 1} = {Spot(g, i) : i \in 0 .. s - 1} \cup {Spot(g, s)}
    BY <2>2, Zenon
  <2>6. QED
    BY <1>2, <1>4, <2>1, <2>4, <2>5, Zenon
<1>9. InShape(e)
  <2>1. e.backOffset = (e.frontOffset + e.size) % e.capacity
    BY <1>4, <1>6 DEF Spot, f, n
  <2>2. e.size <= e.capacity /\ e.frontOffset \in 0 .. e.capacity - 1
    BY <1>1, <1>4
  <2>3. QED
    BY <1>8, <2>1, <2>2 DEF InShape, Spot
<1>10. Standing(e)
  BY <1>7, <1>9, ShapeStands
<1>11. /\ Line(e) \in Seq(V) /\ Len(Line(e)) = s + 1
       /\ \A i \in 1 .. s + 1 : Line(e)[i] = e.data[Spot(e, i - 1)]
  BY <1>4, <1>7, <1>10, LineOf
<1>12. /\ Line(g) \in Seq(V) /\ Len(Line(g)) = s
       /\ \A i \in 1 .. s : /\ Spot(g, i - 1) \in DOMAIN g.data
                            /\ Line(g)[i] = g.data[Spot(g, i - 1)]
  BY <1>2, LineOf DEF s
<1>13. /\ Append(Line(g), v) \in Seq(V)
       /\ Len(Append(Line(g), v)) = s + 1
       /\ \A i \in 1 .. s : Append(Line(g), v)[i] = Line(g)[i]
       /\ Append(Line(g), v)[s + 1] = v
  BY <1>12, AppendProperties
<1>14. ASSUME NEW i \in 1 .. s + 1
       PROVE  Line(e)[i] = Append(Line(g), v)[i]
  <2>1. i - 1 \in Nat /\ i - 1 < n
    BY <1>1
  <2>2. Line(e)[i] = e.data[Spot(g, i - 1)]
    BY <1>5, <1>11, <2>1
  <2>3. CASE i = s + 1
    <3>1. i - 1 = s
      BY <1>1, <2>3
    <3>2. Line(e)[i] = e.data[b] /\ b \in DOMAIN e.data
      BY <1>2, <1>4, <2>2, <3>1
    <3>3. QED
      BY <1>4, <1>13, <2>3, <3>2
  <2>4. CASE i # s + 1
    <3>1. i \in 1 .. s /\ i - 1 # s
      BY <1>1, <2>4
    <3>2. Spot(g, i - 1) # b
      BY <1>1, <1>2, <2>1, <3>1, SpotsDiffer DEF f, n
    <3>3. Spot(g, i - 1) \in DOMAIN g.data
      BY <1>12, <3>1
    <3>4. QED
      BY <1>4, <1>12, <1>13, <2>2, <3>1, <3>2, <3>3
  <2>5. QED
    BY <2>3, <2>4
<1>15. Line(e) = Append(Line(g), v)
  BY <1>11, <1>13, <1>14, SeqEqual
<1>16. QED
  BY <1>7, <1>9, <1>15 DEF e

LEMMA EnqueuedOf ==
  ASSUME NEW V, NEW q, Typed(q, V), Standing(q), InShape(q) \/ Spent(q), EnqueueFits(q), NEW v \in V
  PROVE  /\ Typed(Enqueued(q, v), V) /\ InShape(Enqueued(q, v))
         /\ Line(Enqueued(q, v)) = Append(Line(q), v)
         /\ Spent(q) => Full(q)
<1>1. Enqueued(q, v) = Put(Grown(q), v)
  BY DEF Enqueued, Put
<1>2. QED
  BY <1>1, GrownOf, PutOf

\* The first element leaves, and the others are where they were.
LEMMA DequeuedOf ==
  ASSUME NEW V, NEW q, Typed(q, V), Standing(q), q.size > 0
  PROVE  /\ Typed(Dequeued(q), V)
         /\ InShape(q) => InShape(Dequeued(q))
         /\ Spent(q) => Spent(Dequeued(q))
         /\ Line(q) # << >> /\ First(q) = Head(Line(q))
         /\ InShape(q) \/ Spent(q) => Line(Dequeued(q)) = Tail(Line(q))
<1> DEFINE r == Dequeued(q)
           f == q.frontOffset
           n == q.capacity
           s == q.size
           b == q.backOffset
           e == (f + 1) % n
<1>1. f \in Nat /\ n \in Nat /\ s \in Nat /\ b \in Nat /\ s > 0 /\ s <= n /\ f < n
  BY Fields DEF Standing
<1>2. r = [data |-> [k \in DOMAIN q.data \ {f} |-> q.data[k]], frontOffset |-> e,
           backOffset |-> b, size |-> s - 1, capacity |-> n]
  <2>1. q = [data |-> q.data, frontOffset |-> f, backOffset |-> b, size |-> s, capacity |-> n]
    BY DEF Typed
  <2> DEFINE d == [k \in DOMAIN q.data \ {f} |-> q.data[k]]
             z == s - 1
  <2>2. r = [q EXCEPT !.data = d, !.frontOffset = e, !.size = z]
    BY DEF Dequeued, Restrict
  <2> HIDE DEF d, e, z, f, s, r
  <2>3. r = [data |-> d, frontOffset |-> e, backOffset |-> b, size |-> z, capacity |-> n]
    BY <2>1, <2>2
  <2>4. QED
    BY <2>3 DEF d, e, z, f, s
<1>3. /\ r.frontOffset = e /\ r.backOffset = b /\ r.size = s - 1 /\ r.capacity = n
      /\ DOMAIN r.data = DOMAIN q.data \ {f}
      /\ \A k \in DOMAIN r.data : r.data[k] = q.data[k]
      /\ r.data = [k \in DOMAIN r.data |-> q.data[k]]
      /\ r = [data |-> r.data, frontOffset |-> e, backOffset |-> b, size |-> s - 1,
              capacity |-> n]
  BY <1>2
<1>4. \A i \in Nat : i <= n => Spot(q, i) = IF f + i < n THEN f + i ELSE f + i - n
  BY <1>1, SpotOf
<1>5. Spot(q, 0) = f /\ e = Spot(q, 1) /\ e \in Nat /\ e < n
  <2>1. /\ Spot(q, 0) = IF f + 0 < n THEN f + 0 ELSE f + 0 - n
        /\ Spot(q, 1) = IF f + 1 < n THEN f + 1 ELSE f + 1 - n
    BY <1>1, <1>4
  <2>2. e = Spot(q, 1)
    BY DEF Spot
  <2> HIDE DEF e
  <2>3. QED
    BY <1>1, <2>1, <2>2
<1>6. Typed(r, V)
  <2>1. r.data \in [DOMAIN r.data -> V]
    BY <1>3 DEF Typed
  <2>2. s - 1 \in Nat
    BY <1>1
  <2> HIDE DEF r, e
  <2>3. QED
    BY <1>1, <1>3, <1>5, <2>1, <2>2 DEF Typed
<1> HIDE DEF r, e, f, n, s, b
<1>7. \A i \in 0 .. s - 1 : Spot(r, i) = Spot(q, i + 1)
  <2>1. SUFFICES ASSUME NEW i \in 0 .. s - 1
                 PROVE  Spot(r, i) = Spot(q, i + 1)
    OBVIOUS
  <2>2. /\ i \in Nat /\ i + 1 \in Nat /\ i + 1 <= n
        /\ e = IF f + 1 < n THEN f + 1 ELSE f + 1 - n
    BY <1>1, <1>4, <1>5
  <2>3. Spot(q, i + 1) = IF f + (i + 1) < n THEN f + (i + 1) ELSE f + (i + 1) - n
    BY <1>4, <2>2
  <2>4. Spot(r, i) = (e + i) % n
    BY <1>3 DEF Spot
  <2> DEFINE a == e + i
  <2>5. a \in Nat /\ a < n + n /\ n \in Nat \ {0}
    BY <1>1, <1>5, <2>2
  <2> HIDE DEF a
  <2>6. a % n = IF a < n THEN a ELSE a - n
    BY <2>5, OnceAround
  <2>7. CASE f + 1 < n
    BY <1>1, <2>2, <2>3, <2>4, <2>6, <2>7 DEF a
  <2>8. CASE f + 1 >= n
    <3>1. e = 0 /\ f + 1 = n
      BY <1>1, <2>2, <2>8
    <3>2. a = i /\ i < n
      BY <2>2, <3>1, <1>1 DEF a
    <3>3. Spot(q, i + 1) = i
      BY <1>1, <2>2, <2>3, <3>1
    <3>4. QED
      BY <2>4, <2>6, <3>2, <3>3 DEF a
  <2>9. QED
    BY <1>1, <2>7, <2>8
<1>8. DOMAIN q.data = {Spot(q, i) : i \in 0 .. s - 1}
  BY DEF Standing, s
<1>9. DOMAIN r.data = {Spot(r, i) : i \in 0 .. r.size - 1}
  <2>1. \A i \in 0 .. r.size - 1 : Spot(r, i) \in DOMAIN r.data
    <3>1. SUFFICES ASSUME NEW i \in 0 .. r.size - 1
                   PROVE  Spot(r, i) \in DOMAIN r.data
      OBVIOUS
    <3>2. i \in 0 .. s - 1 /\ i + 1 \in 0 .. s - 1 /\ i + 1 # 0
      BY <1>1, <1>3
    <3>3. Spot(r, i) = Spot(q, i + 1) /\ Spot(q, i + 1) \in DOMAIN q.data
      BY <1>7, <1>8, <3>2
    <3>4. Spot(q, i + 1) # Spot(q, 0)
      BY <1>1, <3>2, SpotsDiffer DEF f, n
    <3>5. QED
      BY <1>3, <1>5, <3>3, <3>4
  <2>2. \A k \in DOMAIN r.data : \E i \in 0 .. r.size - 1 : k = Spot(r, i)
    <3>1. SUFFICES ASSUME NEW k \in DOMAIN r.data
                   PROVE  \E i \in 0 .. r.size - 1 : k = Spot(r, i)
      OBVIOUS
    <3>2. PICK j \in 0 .. s - 1 : k = Spot(q, j)
      BY <1>3, <1>8
    <3>3. j # 0
      BY <1>3, <1>5, <3>2
    <3>4. j - 1 \in 0 .. r.size - 1 /\ j - 1 \in 0 .. s - 1 /\ (j - 1) + 1 = j
      BY <1>1, <1>3, <3>3
    <3>5. QED
      BY <1>7, <3>2, <3>4
  <2>3. QED
    BY <2>1, <2>2, Zenon
<1>10. ASSUME InShape(q)
       PROVE  InShape(r)
  <2>1. b = Spot(q, s)
    BY <1>10, ShapeStands DEF b, s
  <2>2. s - 1 \in 0 .. s - 1 /\ (s - 1) + 1 = s
    BY <1>1
  <2>3. b = Spot(r, s - 1)
    BY <1>7, <2>1, <2>2
  <2>4. r.size <= r.capacity /\ r.frontOffset \in 0 .. r.capacity - 1
    BY <1>1, <1>3, <1>5
  <2>5. QED
    BY <1>3, <1>9, <2>3, <2>4 DEF InShape, Spot
<1>11. ASSUME Spent(q)
       PROVE  Spent(r)
  <2>1. f + s = n /\ b = n /\ DOMAIN q.data = f .. f + s - 1
    BY <1>1, <1>11 DEF Spent, f, n, s, b
  <2>2. e = IF f + 1 < n THEN f + 1 ELSE f + 1 - n
    BY <1>1, <1>4, <1>5
  <2>3. CASE s = 1
    <3>1. e = 0 /\ DOMAIN r.data = {} /\ r.size = 0
      BY <1>1, <1>3, <2>1, <2>2, <2>3
    <3>2. DOMAIN r.data = e .. e + r.size - 1
      BY <3>1
    <3>3. QED
      BY <1>3, <2>1, <3>1, <3>2 DEF Spent
  <2>4. CASE s > 1
    <3>1. e = f + 1 /\ r.size > 0 /\ e + r.size = n
      BY <1>1, <1>3, <2>1, <2>2, <2>4
    <3>2. DOMAIN r.data = e .. e + r.size - 1
      BY <1>1, <1>3, <2>1, <3>1
    <3>3. QED
      BY <1>3, <2>1, <3>1, <3>2 DEF Spent
  <2>5. QED
    BY <1>1, <2>3, <2>4
<1>12. /\ Line(q) \in Seq(V) /\ Len(Line(q)) = s
       /\ \A i \in 1 .. s : Line(q)[i] = q.data[Spot(q, i - 1)]
  BY LineOf DEF s
<1>13. Line(q) # << >> /\ First(q) = Head(Line(q))
  <2>1. Line(q) # << >> /\ 1 \in 1 .. s
    BY <1>1, <1>12, EmptySeq
  <2>2. Head(Line(q)) = Line(q)[1]
    BY <1>12, <2>1
  <2>3. Line(q)[1] = q.data[f]
    BY <1>5, <1>12, <2>1
  <2>4. QED
    BY <2>1, <2>2, <2>3 DEF First, f
<1>14. ASSUME InShape(q) \/ Spent(q)
       PROVE  Line(r) = Tail(Line(q))
  <2>1. Standing(r)
    BY <1>6, <1>10, <1>11, <1>14, ShapeStands, SpentStands
  <2>2. /\ Line(r) \in Seq(V) /\ Len(Line(r)) = s - 1
        /\ \A i \in 1 .. s - 1 : /\ Spot(r, i - 1) \in DOMAIN r.data
                                 /\ Line(r)[i] = r.data[Spot(r, i - 1)]
    BY <1>3, <1>6, <2>1, LineOf
  <2>3. /\ Tail(Line(q)) \in Seq(V) /\ Len(Tail(Line(q))) = s - 1
        /\ \A i \in 1 .. s - 1 : Tail(Line(q))[i] = Line(q)[i + 1]
    BY <1>12, <1>13, HeadTailProperties
  <2>4. ASSUME NEW i \in 1 .. s - 1
        PROVE  Line(r)[i] = Tail(Line(q))[i]
    <3>1. /\ i - 1 \in 0 .. s - 1 /\ i + 1 \in 1 .. s
          /\ (i - 1) + 1 = i /\ (i + 1) - 1 = i
      BY <1>1
    <3>2. Spot(r, i - 1) = Spot(q, i)
      BY <1>7, <3>1
    <3>3. Line(q)[i + 1] = q.data[Spot(q, i)]
      BY <1>12, <3>1
    <3>4. QED
      BY <1>3, <2>2, <2>3, <3>2, <3>3
  <2>5. QED
    BY <2>2, <2>3, <2>4, SeqEqual
<1>15. QED
  BY <1>6, <1>10, <1>11, <1>13, <1>14 DEF r

\* A new queue is in shape, and an array of nothing is spent.
LEMMA QueueOf ==
  ASSUME NEW V, NEW m \in Nat
  PROVE  /\ Typed(Queue(m), V) /\ Line(Queue(m)) = << >>
         /\ m > 0 => InShape(Queue(m))
         /\ m = 0 => Spent(Queue(m))
<1> DEFINE q == Queue(m)
<1>1. /\ q = [data |-> q.data, frontOffset |-> 0, backOffset |-> 0, size |-> 0, capacity |-> m]
      /\ q.frontOffset = 0 /\ q.backOffset = 0 /\ q.size = 0 /\ q.capacity = m
      /\ DOMAIN q.data = {} /\ q.data \in [{} -> V]
  BY DEF Queue, NoData
<1> HIDE DEF q
<1>2. Typed(q, V)
  BY <1>1 DEF Typed
<1>3. 0 .. q.size - 1 = {} /\ 1 .. q.size = {} /\ 0 .. 0 + q.size - 1 = {}
  BY <1>1
<1>4. ASSUME m > 0
      PROVE  InShape(q)
  <2>1. 0 \in 0 .. m - 1 /\ (0 + 0) % m = 0 /\ 0 <= m
    BY <1>4
  <2>2. {(q.frontOffset + i) % q.capacity : i \in 0 .. q.size - 1} = {}
    BY <1>3
  <2>3. QED
    BY <1>1, <2>1, <2>2 DEF InShape
<1>5. ASSUME m = 0
      PROVE  Spent(q)
  BY <1>1, <1>3, <1>5 DEF Spent
<1>6. Standing(q)
  <2>1. m > 0 \/ m = 0
    OBVIOUS
  <2>2. QED
    BY <1>2, <1>4, <1>5, <2>1, ShapeStands, SpentStands
<1>7. Line(q) \in Seq(V) /\ Len(Line(q)) = 0
  BY <1>1, <1>2, <1>6, LineOf
<1>8. Line(q) = << >>
  BY <1>7, EmptySeq
<1>9. QED
  BY <1>2, <1>4, <1>5, <1>8 DEF q

\* Only an empty queue may not fit where it is moved to.
LEMMA ElementsFit ==
  ASSUME NEW V, NEW q, Typed(q, V), Standing(q), InShape(q) \/ Spent(q), NEW m \in Nat, m >= q.size,
         ~ReallocateFits(q, m)
  PROVE  q.size = 0
<1>1. q.size \in Nat
  BY Fields
<1>2. CASE q.size > 0
  BY <1>2, SourceOf DEF ReallocateFits
<1>3. QED
  BY <1>1, <1>2
=============================================================================
