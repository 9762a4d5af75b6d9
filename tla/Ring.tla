-------------------------------- MODULE Ring --------------------------------
(***************************************************************************)
(* queue/spsc_queue.inl: the members of an SPSCQueue as a record, and what *)
(* its functions make of it.  data is the function of the places that hold *)
(* an element; what dequeue leaves behind is not told from nothing.        *)
(*                                                                         *)
(* Each ...Fits says when the function stays inside the array it writes.   *)
(***************************************************************************)
EXTENDS Integers, Sequences, Functions, TLC

CONSTANT None      \* the absence of an element

NoData == [i \in {} |-> None]

Queue(defaultSize) == [data |-> NoData, frontOffset |-> 0, backOffset |-> 0,
                       size |-> 0, capacity |-> defaultSize]

-----------------------------------------------------------------------------
\* reallocate and deepCopy copy one run of places, or two: a back that is
\* not behind the front is taken to have wrapped.
Wraps_Empty(q) == q.backOffset < q.frontOffset
Wraps(q) == q.backOffset <= q.frontOffset
NumCopied(q) == IF Wraps(q) THEN q.capacity - q.frontOffset + q.backOffset
                            ELSE q.backOffset - q.frontOffset
Source(q, i) == IF Wraps(q) /\ i >= q.capacity - q.frontOffset
                THEN i - (q.capacity - q.frontOffset)
                ELSE q.frontOffset + i

Straight(q) ==
  [i \in {j \in 0 .. NumCopied(q) - 1 : Source(q, j) \in DOMAIN q.data} |->
     q.data[Source(q, i)]]

Reallocated_OldBack(q, newSize) == [data |-> Straight(q), frontOffset |-> 0,
                                    backOffset |-> q.backOffset,
                                    size |-> q.size, capacity |-> newSize]
Reallocated(q, newSize) == [data |-> Straight(q), frontOffset |-> 0,
                            backOffset |-> q.size, size |-> q.size,
                            capacity |-> newSize]
ReallocateFits(q, newSize) == NumCopied(q) <= newSize

Full(q) == q.size >= q.capacity
Grown(q) == IF Full(q) THEN Reallocated(q, q.capacity * 2) ELSE q

Enqueued(q, value) ==
  LET g == Grown(q)
  IN  [g EXCEPT !.data = [p \in DOMAIN @ \cup {g.backOffset} |->
                            IF p = g.backOffset THEN value ELSE @[p]],
                !.backOffset = (@ + 1) % g.capacity,
                !.size = @ + 1]
EnqueueFits(q) == /\ Full(q) => ReallocateFits(q, q.capacity * 2)
                  /\ Grown(q).backOffset < Grown(q).capacity

First(q) == q.data[q.frontOffset]
Dequeued(q) == [q EXCEPT !.data = Restrict(@, DOMAIN @ \ {q.frontOffset}),
                         !.frontOffset = (@ + 1) % q.capacity,
                         !.size = @ - 1]

\* deepCopy: an array of just the elements, and back at its end.
Copied(q) == Reallocated(q, q.size)
CopyFits(q) == ReallocateFits(q, q.size)

-----------------------------------------------------------------------------
\* The elements from front on, wrapping.
Line(q) == [i \in 1 .. q.size |->
              LET p == (q.frontOffset + i - 1) % q.capacity
              IN  IF p \in DOMAIN q.data THEN q.data[p] ELSE None]

\* The offsets agree with the size, and nothing but the elements is there.
InShape(q) ==
  /\ q.size <= q.capacity
  /\ q.frontOffset \in 0 .. q.capacity - 1
  /\ q.backOffset = (q.frontOffset + q.size) % q.capacity
  /\ DOMAIN q.data = {(q.frontOffset + i) % q.capacity : i \in 0 .. q.size - 1}

-----------------------------------------------------------------------------
\* What inductive invariants say of a queue: its types, its elements being of
\* some set.
Typed(q, Elem) ==
  /\ q \in [data : {q.data}, frontOffset : Nat, backOffset : Nat,
            size : Nat, capacity : Nat]
  /\ q.data \in [DOMAIN q.data -> Elem]

\* A copy, or what a move leaves behind: the back stands behind the array, and
\* the elements end there too, until the last of them is dequeued.
Spent(q) == /\ q.backOffset = q.capacity
            /\ \/ q.size > 0 /\ q.frontOffset + q.size = q.capacity
               \/ q.size = 0 /\ q.frontOffset = 0
            /\ DOMAIN q.data = q.frontOffset .. q.frontOffset + q.size - 1
=============================================================================
