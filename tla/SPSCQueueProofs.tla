--------------------------- MODULE SPSCQueueProofs ---------------------------
(***************************************************************************)
(* Theorems about SPSCQueue, for every number of queues, elements, first   *)
(* allocation and bound: the offsets agree with the sizes, and the queues  *)
(* implement the lines of Lines.                                           *)
(***************************************************************************)
EXTENDS SPSCQueue, RingProofs

-----------------------------------------------------------------------------
(* The inductive invariant.  It speaks of queue and frail only: a step that *)
(* breaks the program leaves both alone.                                    *)

LEMMA EachQueue ==
  ASSUME IInv, NEW n \in Name
  PROVE  /\ Typed(queue[n], Value) /\ Standing(queue[n])
         /\ n \in frail => Spent(queue[n])
         /\ n \notin frail => InShape(queue[n])
         /\ InShape(queue[n]) \/ Spent(queue[n])
BY ShapeStands, SpentStands DEF IInv

\* One queue takes a new value, and what is said of it is true.
LEMMA OneBecomes ==
  ASSUME IInv, NEW n \in Name, NEW q, Becomes(n, q), broken' = FALSE, Typed(q, Value),
         \/ frail' = frail \ {n} /\ InShape(q)
         \/ frail' = frail \cup {n} /\ Spent(q)
  PROVE  IInv'
<1>1. /\ queue = [m \in Name |-> queue[m]] /\ frail \subseteq Name
      /\ \A m \in Name : Typed(queue[m], Value)
      /\ \A m \in frail : Spent(queue[m])
      /\ \A m \in Name \ frail : InShape(queue[m])
  BY DEF IInv
<1>2. /\ queue' = [m \in Name |-> queue'[m]]
      /\ queue'[n] = q
      /\ \A m \in Name : m # n => queue'[m] = queue[m]
  BY <1>1 DEF Becomes
<1>3. \A m \in Name : Typed(queue'[m], Value)
  BY <1>1, <1>2
<1>4. CASE frail' = frail \ {n} /\ InShape(q)
  <2>1. /\ frail' \subseteq Name
        /\ \A m \in frail' : Spent(queue'[m])
        /\ \A m \in Name \ frail' : InShape(queue'[m])
    BY <1>1, <1>2, <1>4
  <2>2. QED
    BY <1>2, <1>3, <2>1 DEF IInv
<1>5. CASE frail' = frail \cup {n} /\ Spent(q)
  <2>1. /\ frail' \subseteq Name
        /\ \A m \in frail' : Spent(queue'[m])
        /\ \A m \in Name \ frail' : InShape(queue'[m])
    BY <1>1, <1>2, <1>5
  <2>2. QED
    BY <1>2, <1>3, <2>1 DEF IInv
<1>6. QED
  BY <1>4, <1>5

LEMMA NothingMoves ==
  ASSUME IInv, UNCHANGED <<queue, frail>>, broken' \in BOOLEAN
  PROVE  IInv'
BY DEF IInv

LEMMA EnqueueInv ==
  ASSUME IInv, NEW n \in Name, NEW v \in Value, Enqueue(n, v)
  PROVE  IInv'
<1> DEFINE q == queue[n]
<1>1. /\ Typed(q, Value) /\ Standing(q)
      /\ n \in frail => Spent(q)
      /\ InShape(q) \/ Spent(q)
  BY EachQueue
<1>2. CASE Break
  BY <1>2, NothingMoves DEF Break
<1>3. CASE ~Break
  <2>1. /\ EnqueueFits(q) /\ Becomes(n, Enqueued(q, v)) /\ broken' = FALSE
        /\ frail' = IF Full(q) THEN frail \ {n} ELSE frail
    BY <1>3 DEF Enqueue, Sound
  <2>2. Typed(Enqueued(q, v), Value) /\ InShape(Enqueued(q, v)) /\ (Spent(q) => Full(q))
    BY <1>1, <2>1, EnqueuedOf
  <2>3. frail' = frail \ {n}
    BY <1>1, <2>1, <2>2
  <2>4. QED
    BY <2>1, <2>2, <2>3, OneBecomes
<1>4. QED
  BY <1>2, <1>3

LEMMA DequeueInv ==
  ASSUME IInv, NEW n \in Name, Dequeue(n)
  PROVE  IInv'
<1> DEFINE q == queue[n]
<1>1. q.size > 0 /\ Becomes(n, Dequeued(q)) /\ frail' = frail /\ broken' = FALSE
  BY DEF Dequeue, Sound
<1>2. /\ Typed(Dequeued(q), Value)
      /\ InShape(q) => InShape(Dequeued(q))
      /\ Spent(q) => Spent(Dequeued(q))
  BY <1>1, EachQueue, DequeuedOf
<1>3. CASE n \in frail
  <2>1. Spent(Dequeued(q)) /\ frail' = frail \cup {n}
    BY <1>1, <1>2, <1>3, EachQueue
  <2>2. QED
    BY <1>1, <1>2, <2>1, OneBecomes
<1>4. CASE n \notin frail
  <2>1. InShape(Dequeued(q)) /\ frail' = frail \ {n}
    BY <1>1, <1>2, <1>4, EachQueue
  <2>2. QED
    BY <1>1, <1>2, <2>1, OneBecomes
<1>5. QED
  BY <1>3, <1>4

LEMMA ReserveInv ==
  ASSUME IInv, NEW n \in Name, NEW m \in 1 .. MaxReserve, Reserve(n, m)
  PROVE  IInv'
<1> DEFINE q == queue[n]
<1>1. CASE Break
  BY <1>1, NothingMoves DEF Break
<1>2. CASE ~Break
  <2>1. /\ m > q.size /\ Becomes(n, Reallocated(q, m)) /\ broken' = FALSE
        /\ frail' = frail \ {n}
    BY <1>2 DEF Reserve, Sound
  <2>2. m \in Nat /\ m >= q.size
    BY <2>1, EachQueue, Fields, SPSCQueueAssumption
  <2>3. Typed(Reallocated(q, m), Value) /\ InShape(Reallocated(q, m))
    BY <2>1, <2>2, EachQueue, ReallocatedOf
  <2>4. QED
    BY <2>1, <2>3, OneBecomes
<1>3. QED
  BY <1>1, <1>2

LEMMA ClearInv ==
  ASSUME IInv, NEW n \in Name, Clear(n)
  PROVE  IInv'
<1>1. Becomes(n, Queue(BaseAllocation)) /\ frail' = frail \ {n} /\ broken' = FALSE
  BY DEF Clear, Sound
<1>2. BaseAllocation \in Nat /\ BaseAllocation > 0
  BY SPSCQueueAssumption
<1>3. Typed(Queue(BaseAllocation), Value) /\ InShape(Queue(BaseAllocation))
  BY <1>2, QueueOf
<1>4. QED
  BY <1>1, <1>3, OneBecomes

LEMMA CopyInv ==
  ASSUME IInv, NEW from \in Name, NEW to \in Name, Copy(from, to)
  PROVE  IInv'
<1> DEFINE q == queue[from]
<1>1. CASE Break
  BY <1>1, NothingMoves DEF Break
<1>2. CASE ~Break
  <2>1. /\ Becomes(to, Reallocated(q, q.size)) /\ broken' = FALSE
        /\ frail' = frail \cup {to}
    BY <1>2 DEF Copy, Sound, Copied
  <2>2. q.size \in Nat /\ q.size >= q.size
    BY EachQueue, Fields
  <2>3. Typed(Reallocated(q, q.size), Value) /\ Spent(Reallocated(q, q.size))
    BY <2>2, EachQueue, ReallocatedOf
  <2>4. QED
    BY <2>1, <2>3, OneBecomes
<1>3. QED
  BY <1>1, <1>2

LEMMA MoveInv ==
  ASSUME IInv, NEW from \in Name, NEW to \in Name, Move(from, to)
  PROVE  IInv'
<1>1. /\ queue' = [m \in Name |-> queue'[m]]
      /\ queue'[from] = Queue(0)
      /\ to # from => queue'[to] = queue[from]
      /\ \A m \in Name : m # from /\ m # to => queue'[m] = queue[m]
      /\ frail' = (IF from \in frail THEN frail \cup {to} ELSE frail \ {to}) \cup {from}
      /\ broken' = FALSE
  BY DEF Move, Sound
<1>2. Typed(Queue(0), Value) /\ Spent(Queue(0))
  BY QueueOf
<1>3. \A m \in Name : /\ Typed(queue[m], Value)
                      /\ m \in frail => Spent(queue[m])
                      /\ m \notin frail => InShape(queue[m])
  BY EachQueue
<1>4. \A m \in Name : /\ Typed(queue'[m], Value)
                      /\ m \in frail' => Spent(queue'[m])
                      /\ m \notin frail' => InShape(queue'[m])
  <2>1. SUFFICES ASSUME NEW m \in Name
                 PROVE  /\ Typed(queue'[m], Value)
                        /\ m \in frail' => Spent(queue'[m])
                        /\ m \notin frail' => InShape(queue'[m])
    OBVIOUS
  <2>2. CASE m = from
    BY <1>1, <1>2, <2>2
  <2>3. CASE m # from /\ m = to
    BY <1>1, <1>3, <2>3
  <2>4. CASE m # from /\ m # to
    BY <1>1, <1>3, <2>4
  <2>5. QED
    BY <2>2, <2>3, <2>4
<1>5. frail' \subseteq Name /\ broken' \in BOOLEAN
  BY <1>1 DEF IInv
<1>6. QED
  BY <1>1, <1>4, <1>5 DEF IInv

LEMMA InitInv == Init => IInv
<1>1. SUFFICES ASSUME Init PROVE IInv
  OBVIOUS
<1>2. /\ queue = [n \in Name |-> Queue(BaseAllocation)]
      /\ frail = {} /\ broken = FALSE
  BY <1>1 DEF Init
<1>3. BaseAllocation \in Nat /\ BaseAllocation > 0
  BY SPSCQueueAssumption
<1>4. \A n \in Name : Typed(queue[n], Value) /\ InShape(queue[n])
  BY <1>2, <1>3, QueueOf
<1>5. QED
  BY <1>2, <1>4 DEF IInv

LEMMA NextInv ==
  ASSUME IInv, [Next]_vars
  PROVE  IInv'
<1>1. CASE UNCHANGED vars
  BY <1>1 DEF vars, IInv
<1>2. CASE Next
  <2>1. ASSUME NEW n \in Name, \E v \in Value : Enqueue(n, v)
        PROVE  IInv'
    BY <2>1, EnqueueInv
  <2>2. ASSUME NEW n \in Name, Dequeue(n)
        PROVE  IInv'
    BY <2>2, DequeueInv
  <2>3. ASSUME NEW n \in Name, Front(n) \/ TryDequeueEmpty(n)
        PROVE  IInv'
    BY <2>3, NothingMoves DEF Front, TryDequeueEmpty, Sound
  <2>4. ASSUME NEW n \in Name, \E m \in 1 .. MaxReserve : Reserve(n, m)
        PROVE  IInv'
    BY <2>4, ReserveInv
  <2>5. ASSUME NEW n \in Name, Clear(n)
        PROVE  IInv'
    BY <2>5, ClearInv
  <2>6. ASSUME NEW n \in Name, NEW m \in Name, Copy(n, m)
        PROVE  IInv'
    BY <2>6, CopyInv
  <2>7. ASSUME NEW n \in Name, NEW m \in Name, Move(n, m)
        PROVE  IInv'
    BY <2>7, MoveInv
  <2>8. QED
    BY <1>2, <2>1, <2>2, <2>3, <2>4, <2>5, <2>6, <2>7 DEF Next
<1>3. QED
  BY <1>1, <1>2

(***************************************************************************)
(* The inductive invariant of the ring queues.                             *)
(***************************************************************************)
THEOREM Invariance == Spec => []IInv
<1>1. IInv /\ [Next]_vars => IInv'
  BY NextInv
<1>2. QED
  BY InitInv, <1>1, PTL DEF Spec

\* However often a queue wraps and grows, its offsets agree with its size, unless
\* it is a copy or was moved away from.
THEOREM OffsetsInStep == Spec => []OffsetsAgree
<1>1. IInv => OffsetsAgree
  BY DEF IInv, OffsetsAgree
<1>2. QED
  BY Invariance, <1>1, PTL

-----------------------------------------------------------------------------
(* The refinement: every call does to the lines what Lines says.           *)

LineOfEach == [n \in Name |-> Line(queue[n])]

\* Where one queue takes a new value, one line does.
LEMMA OneLine ==
  ASSUME IInv, NEW n \in Name, NEW q, Becomes(n, q)
  PROVE  LineOfEach' = [LineOfEach EXCEPT ![n] = Line(q)]
<1>1. queue = [m \in Name |-> queue[m]]
  BY DEF IInv
<1>2. queue'[n] = q /\ \A m \in Name : m # n => queue'[m] = queue[m]
  BY <1>1 DEF Becomes
<1>3. LineOfEach' = [m \in Name |-> Line(queue'[m])]
  BY DEF LineOfEach
<1>4. \A m \in Name : Line(queue'[m]) = IF m = n THEN Line(q) ELSE LineOfEach[m]
  BY <1>2 DEF LineOfEach
<1>5. [LineOfEach EXCEPT ![n] = Line(q)]
        = [m \in Name |-> IF m = n THEN Line(q) ELSE LineOfEach[m]]
  BY DEF LineOfEach
<1>6. QED
  BY <1>3, <1>4, <1>5

\* A line is empty just when its queue is.
LEMMA EmptyLine ==
  ASSUME IInv, NEW n \in Name
  PROVE  /\ LineOfEach[n] = Line(queue[n])
         /\ LineOfEach[n] = << >> <=> queue[n].size = 0
<1>1. /\ Line(queue[n]) \in Seq(Value)
      /\ Len(Line(queue[n])) = queue[n].size
      /\ queue[n].size \in Nat
  BY EachQueue, LineOf, Fields
<1>2. Line(queue[n]) = << >> <=> queue[n].size = 0
  BY <1>1, EmptySeq
<1>3. QED
  BY <1>2 DEF LineOfEach

LEMMA EnqueueRefines ==
  ASSUME IInv, NEW n \in Name, NEW v \in Value, Enqueue(n, v)
  PROVE  FirstComeFirstServed!Enqueue(n, v)
<1> DEFINE q == queue[n]
<1>1. /\ Typed(q, Value) /\ Standing(q)
      /\ n \notin frail => InShape(q)
      /\ InShape(q) \/ Spent(q)
  BY EachQueue
<1>2. CASE ~broken /\ ~EnqueueFits(q) /\ Break
  <2>1. n \in frail
    BY <1>1, <1>2, ShapeFits
  <2>2. LineOfEach' = LineOfEach
    BY <1>2 DEF Break, LineOfEach
  <2>3. QED
    BY <1>2, <2>1, <2>2
    DEF Break, FirstComeFirstServed!Enqueue, FirstComeFirstServed!Break, LineOfEach
<1>3. CASE /\ Sound /\ EnqueueFits(q) /\ Becomes(n, Enqueued(q, v))
           /\ frail' = IF Full(q) THEN frail \ {n} ELSE frail
           /\ UNCHANGED ret
  <2>1. Line(Enqueued(q, v)) = Append(Line(q), v)
    BY <1>1, <1>3, EnqueuedOf
  <2>2. LineOfEach' = [LineOfEach EXCEPT ![n] = Append(LineOfEach[n], v)]
    BY <1>3, <2>1, OneLine, EmptyLine
  <2>3. QED
    BY <1>3, <2>2
    DEF Sound, FirstComeFirstServed!Enqueue, FirstComeFirstServed!Sound,
        FirstComeFirstServed!Becomes, LineOfEach
<1>4. QED
  BY <1>2, <1>3 DEF Enqueue

LEMMA DequeueRefines ==
  ASSUME IInv, NEW n \in Name, Dequeue(n)
  PROVE  FirstComeFirstServed!Dequeue(n)
<1> DEFINE q == queue[n]
<1>1. /\ Sound /\ q.size > 0 /\ ret' = First(q) /\ Becomes(n, Dequeued(q))
      /\ frail' = frail
  BY DEF Dequeue
<1>2. /\ Line(q) # << >> /\ First(q) = Head(Line(q))
      /\ Line(Dequeued(q)) = Tail(Line(q))
  BY <1>1, EachQueue, DequeuedOf
<1>3. LineOfEach' = [LineOfEach EXCEPT ![n] = Tail(LineOfEach[n])]
  BY <1>1, <1>2, OneLine, EmptyLine
<1>4. LineOfEach[n] # << >> /\ ret' = Head(LineOfEach[n])
  BY <1>1, <1>2, EmptyLine
<1>5. QED
  BY <1>1, <1>3, <1>4
  DEF Sound, FirstComeFirstServed!Dequeue, FirstComeFirstServed!Sound,
      FirstComeFirstServed!Becomes, LineOfEach

LEMMA LookRefines ==
  ASSUME IInv, NEW n \in Name, Front(n) \/ TryDequeueEmpty(n)
  PROVE  FirstComeFirstServed!Look(n)
<1> DEFINE q == queue[n]
<1>1. Sound /\ LineOfEach' = LineOfEach /\ frail' = frail
  BY DEF Front, TryDequeueEmpty, LineOfEach
<1>2. ret' = IF LineOfEach[n] = << >> THEN None ELSE Head(LineOfEach[n])
  <2>1. CASE Front(n)
    <3>1. q.size > 0 /\ ret' = First(q)
      BY <2>1 DEF Front
    <3>2. Line(q) # << >> /\ First(q) = Head(Line(q))
      BY <3>1, EachQueue, DequeuedOf
    <3>3. QED
      BY <3>1, <3>2, EmptyLine
  <2>2. CASE TryDequeueEmpty(n)
    BY <2>2, EmptyLine DEF TryDequeueEmpty
  <2>3. QED
    BY <2>1, <2>2
<1>3. QED
  BY <1>1, <1>2
  DEF Sound, FirstComeFirstServed!Look, FirstComeFirstServed!Sound, LineOfEach

LEMMA ReserveRefines ==
  ASSUME IInv, NEW n \in Name, NEW m \in 1 .. MaxReserve, Reserve(n, m)
  PROVE  FirstComeFirstServed!Reserve(n)
<1> DEFINE q == queue[n]
<1>1. /\ Typed(q, Value) /\ Standing(q) /\ q.size \in Nat
      /\ InShape(q) \/ Spent(q)
  BY EachQueue, Fields
<1>2. m \in Nat /\ m >= q.size
  BY <1>1, SPSCQueueAssumption DEF Reserve
<1>3. CASE ~broken /\ ~ReallocateFits(q, m) /\ Break
  <2>1. LineOfEach[n] = << >>
    BY <1>1, <1>2, <1>3, ElementsFit, EmptyLine
  <2>2. LineOfEach' = LineOfEach
    BY <1>3 DEF Break, LineOfEach
  <2>3. QED
    BY <1>3, <2>1, <2>2
    DEF Break, FirstComeFirstServed!Reserve, FirstComeFirstServed!Break, LineOfEach
<1>4. CASE /\ Sound /\ Becomes(n, Reallocated(q, m))
           /\ frail' = frail \ {n}
           /\ UNCHANGED ret
  <2>1. Line(Reallocated(q, m)) = Line(q)
    BY <1>1, <1>2, ReallocatedOf
  <2>2. LineOfEach' = [LineOfEach EXCEPT ![n] = LineOfEach[n]]
    BY <1>4, <2>1, OneLine, EmptyLine
  <2>3. LineOfEach' = LineOfEach
    BY <2>2 DEF LineOfEach
  <2>4. QED
    BY <1>4, <2>3
    DEF Sound, FirstComeFirstServed!Reserve, FirstComeFirstServed!Sound, LineOfEach
<1>5. QED
  BY <1>3, <1>4 DEF Reserve

LEMMA ClearRefines ==
  ASSUME IInv, NEW n \in Name, Clear(n)
  PROVE  FirstComeFirstServed!Clear(n)
<1>1. Line(Queue(BaseAllocation)) = << >>
  BY QueueOf, SPSCQueueAssumption
<1>2. LineOfEach' = [LineOfEach EXCEPT ![n] = << >>]
  BY <1>1, OneLine DEF Clear
<1>3. QED
  BY <1>2
  DEF Clear, Sound, FirstComeFirstServed!Clear, FirstComeFirstServed!Sound,
      FirstComeFirstServed!Becomes, LineOfEach

LEMMA CopyRefines ==
  ASSUME IInv, NEW from \in Name, NEW to \in Name, Copy(from, to)
  PROVE  FirstComeFirstServed!Copy(from, to)
<1> DEFINE q == queue[from]
<1>1. /\ Typed(q, Value) /\ Standing(q) /\ q.size \in Nat /\ q.size >= q.size
      /\ InShape(q) \/ Spent(q)
  BY EachQueue, Fields
<1>2. CASE ~broken /\ (from = to \/ ~CopyFits(q)) /\ Break
  <2>1. LineOfEach[from] = << >> \/ from = to
    BY <1>1, <1>2, ElementsFit, EmptyLine DEF CopyFits
  <2>2. LineOfEach' = LineOfEach
    BY <1>2 DEF Break, LineOfEach
  <2>3. QED
    BY <1>2, <2>1, <2>2
    DEF Break, FirstComeFirstServed!Copy, FirstComeFirstServed!Break, LineOfEach
<1>3. CASE /\ Sound /\ from # to /\ Becomes(to, Copied(q))
           /\ frail' = frail \cup {to}
           /\ UNCHANGED ret
  <2>1. Line(Copied(q)) = Line(q)
    BY <1>1, ReallocatedOf DEF Copied
  <2>2. LineOfEach' = [LineOfEach EXCEPT ![to] = LineOfEach[from]]
    BY <1>3, <2>1, OneLine, EmptyLine
  <2>3. QED
    BY <1>3, <2>2
    DEF Sound, FirstComeFirstServed!Copy, FirstComeFirstServed!Sound,
        FirstComeFirstServed!Becomes, LineOfEach
<1>4. QED
  BY <1>2, <1>3 DEF Copy

LEMMA MoveRefines ==
  ASSUME IInv, NEW from \in Name, NEW to \in Name, Move(from, to)
  PROVE  FirstComeFirstServed!Move(from, to)
<1>1. Line(Queue(0)) = << >>
  BY QueueOf
<1>2. LineOfEach' = [n \in Name |-> IF n = from THEN << >>
                                    ELSE IF n = to THEN LineOfEach[from] ELSE LineOfEach[n]]
  BY <1>1 DEF Move, LineOfEach
<1>3. QED
  BY <1>2
  DEF Move, Sound, FirstComeFirstServed!Move, FirstComeFirstServed!Sound, LineOfEach

LEMMA InitRefines == Init => FirstComeFirstServed!Init
<1>1. SUFFICES ASSUME Init PROVE FirstComeFirstServed!Init
  OBVIOUS
<1>2. \A n \in Name : Line(queue[n]) = << >>
  BY <1>1, QueueOf, SPSCQueueAssumption DEF Init
<1>3. QED
  BY <1>1, <1>2 DEF Init, FirstComeFirstServed!Init

LEMMA NextRefines ==
  ASSUME IInv, [Next]_vars
  PROVE  [FirstComeFirstServed!Next]_(FirstComeFirstServed!vars)
<1>1. CASE UNCHANGED vars
  BY <1>1 DEF vars, FirstComeFirstServed!vars
<1>2. CASE Next
  <2>1. ASSUME NEW n \in Name, \E v \in Value : Enqueue(n, v)
        PROVE  FirstComeFirstServed!Next
    BY <2>1, EnqueueRefines DEF FirstComeFirstServed!Next
  <2>2. ASSUME NEW n \in Name, Dequeue(n)
        PROVE  FirstComeFirstServed!Next
    BY <2>2, DequeueRefines DEF FirstComeFirstServed!Next
  <2>3. ASSUME NEW n \in Name, Front(n) \/ TryDequeueEmpty(n)
        PROVE  FirstComeFirstServed!Next
    BY <2>3, LookRefines DEF FirstComeFirstServed!Next
  <2>4. ASSUME NEW n \in Name, \E m \in 1 .. MaxReserve : Reserve(n, m)
        PROVE  FirstComeFirstServed!Next
    BY <2>4, ReserveRefines DEF FirstComeFirstServed!Next
  <2>5. ASSUME NEW n \in Name, Clear(n)
        PROVE  FirstComeFirstServed!Next
    BY <2>5, ClearRefines DEF FirstComeFirstServed!Next
  <2>6. ASSUME NEW n \in Name, NEW m \in Name, Copy(n, m)
        PROVE  FirstComeFirstServed!Next
    BY <2>6, CopyRefines DEF FirstComeFirstServed!Next
  <2>7. ASSUME NEW n \in Name, NEW m \in Name, Move(n, m)
        PROVE  FirstComeFirstServed!Next
    BY <2>7, MoveRefines DEF FirstComeFirstServed!Next
  <2>8. QED
    BY <1>2, <2>1, <2>2, <2>3, <2>4, <2>5, <2>6, <2>7 DEF Next
<1>3. QED
  BY <1>1, <1>2

(***************************************************************************)
(* The ring queues are lines: elements leave a queue in the order they     *)
(* entered it, through wrapping, growth, copies and moves, and memory is   *)
(* overwritten only by the calls Lines names.                              *)
(***************************************************************************)
THEOREM ServedInOrder == Spec => LinesSpec
<1>1. Init => FirstComeFirstServed!Init
  BY InitRefines
<1>2. IInv /\ [Next]_vars => [FirstComeFirstServed!Next]_(FirstComeFirstServed!vars)
  BY NextRefines
<1>3. QED
  BY Invariance, <1>1, <1>2, PTL DEF Spec, LinesSpec, FirstComeFirstServed!Spec
=============================================================================
