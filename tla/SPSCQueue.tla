------------------------------ MODULE SPSCQueue ------------------------------
(***************************************************************************)
(* queue/spsc_queue.inl: ring queues, used by one thread, that are copied  *)
(* and moved among each other.  Both copies, and both moves, assign all    *)
(* the members.  Without FSDS_DEBUG dequeue and front of an empty queue    *)
(* are undefined; they are not called.                                     *)
(***************************************************************************)
EXTENDS Ring

CONSTANTS
  Name,             \* the queues
  Value,            \* the elements
  BaseAllocation,   \* sm_baseAllocation, 16 in the code
  MaxSize,          \* bound: the most elements in a queue
  MaxReserve        \* bound: the largest capacity asked for

ASSUME SPSCQueueAssumption == /\ BaseAllocation \in Nat \ {0}
                              /\ MaxSize \in Nat
                              /\ MaxReserve \in Nat

VARIABLES
  queue,
  frail,            \* history: queues made by a copy, or moved away from
  broken,           \* an array has been written past its end
  ret               \* result of the last call

vars == <<queue, frail, broken, ret>>

Becomes(n, q) == queue' = [queue EXCEPT ![n] = q]
Break == broken' = TRUE /\ UNCHANGED <<queue, frail, ret>>

Sound == ~broken /\ broken' = FALSE
-----------------------------------------------------------------------------
Init == /\ queue = [n \in Name |-> Queue(BaseAllocation)]
        /\ frail = {}
        /\ broken = FALSE
        /\ ret = None

\* A queue that grows is like new, unless twice nothing is nothing.
Enqueue(n, value) ==
  /\ queue[n].size < MaxSize
  /\ \/ /\ Sound
        /\ EnqueueFits(queue[n])
        /\ Becomes(n, Enqueued(queue[n], value))
        /\ frail' = IF Full(queue[n]) THEN frail \ {n} ELSE frail
        /\ UNCHANGED ret
     \/ ~broken /\ ~EnqueueFits(queue[n]) /\ Break

Dequeue(n) == /\ Sound
              /\ queue[n].size > 0
              /\ ret' = First(queue[n])
              /\ Becomes(n, Dequeued(queue[n]))
              /\ UNCHANGED frail

Front(n) == /\ Sound
            /\ queue[n].size > 0
            /\ ret' = First(queue[n])
            /\ UNCHANGED <<queue, frail>>

TryDequeueEmpty(n) == /\ Sound
                      /\ queue[n].size = 0
                      /\ ret' = None
                      /\ UNCHANGED <<queue, frail>>

Reserve(n, newCap) ==
  /\ newCap > queue[n].size
  /\ \/ /\ Sound
        /\ ReallocateFits(queue[n], newCap)
        /\ Becomes(n, Reallocated(queue[n], newCap))
        /\ frail' = frail \ {n}
        /\ UNCHANGED ret
     \/ ~broken /\ ~ReallocateFits(queue[n], newCap) /\ Break

Clear(n) == /\ Sound
            /\ Becomes(n, Queue(BaseAllocation))
            /\ frail' = frail \ {n}
            /\ UNCHANGED ret

\* deepCopy frees the destination's array before it reads the source's.
Copy(from, to) ==
  \/ /\ Sound
     /\ from # to
     /\ CopyFits(queue[from])
     /\ Becomes(to, Copied(queue[from]))
     /\ frail' = frail \cup {to}
     /\ UNCHANGED ret
  \/ ~broken /\ (from = to \/ ~CopyFits(queue[from])) /\ Break

Move(from, to) ==
  /\ Sound
  /\ queue' = [n \in Name |-> IF n = from THEN Queue(0)
                              ELSE IF n = to THEN queue[from] ELSE queue[n]]
  /\ frail' = (IF from \in frail THEN frail \cup {to} ELSE frail \ {to}) \cup {from}
  /\ UNCHANGED ret

Next == \E n \in Name : \/ \E v \in Value : Enqueue(n, v)
                        \/ Dequeue(n) \/ Front(n) \/ TryDequeueEmpty(n)
                        \/ \E c \in 1 .. MaxReserve : Reserve(n, c)
                        \/ Clear(n)
                        \/ \E m \in Name : Copy(n, m) \/ Move(n, m)

Spec == Init /\ [][Next]_vars
-----------------------------------------------------------------------------
(***************************************************************************)
(* A queue that is not frail has its offsets in step with its size, however *)
(* often it wrapped and grew.                                              *)
(***************************************************************************)
OffsetsAgree == ~broken => \A n \in Name \ frail : InShape(queue[n])

(***************************************************************************)
(* The queues serve first come, first served, copies and moves included,   *)
(* and memory is overwritten only where Lines says so.                     *)
(***************************************************************************)
FirstComeFirstServed == INSTANCE Lines WITH line <- [n \in Name |-> Line(queue[n])]
LinesSpec == FirstComeFirstServed!Spec
-----------------------------------------------------------------------------
(***************************************************************************)
(* The inductive invariant: what OffsetsAgree and LinesSpec rest on.       *)
(***************************************************************************)
IInv == /\ queue = [n \in Name |-> queue[n]]
        /\ frail \subseteq Name
        /\ broken \in BOOLEAN
        /\ \A n \in Name : Typed(queue[n], Value)
        /\ \A n \in frail : Spent(queue[n])
        /\ \A n \in Name \ frail : InShape(queue[n])
=============================================================================
