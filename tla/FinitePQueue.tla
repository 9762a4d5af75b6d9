---------------------------- MODULE FinitePQueue ----------------------------
(***************************************************************************)
(* queue/finite_pqueue.inl: a linked list of nodes for each priority, the  *)
(* first priority served first, and a ring queue of the nodes not in use.  *)
(*                                                                         *)
(* A node is a number; its previous pointer is left out: nothing reads it. *)
(* derailed records that a list has been linked through a node that is not *)
(* its last, where enqueue and enqueueFront find a tail that was left      *)
(* behind.  A call that would follow a null pointer is not a step.         *)
(***************************************************************************)
EXTENDS Ring, FiniteSets

CONSTANTS
  Value,            \* the elements
  numPriorities,
  blockSize,        \* nodes allocated at once
  BaseAllocation,   \* of the ring queue, 16 in the code
  MaxSize           \* bound: the most elements in the queue

ASSUME FinitePQueueAssumption ==
  /\ numPriorities \in Nat \ {0}
  /\ blockSize \in Nat \ {0}
  /\ BaseAllocation \in Nat \ {0}
  /\ MaxSize \in Nat

VARIABLES
  heads, tails, sizes, totalSize,
  available,   \* the ring queue of free nodes
  node,        \* every node allocated: its data, its next node
  ret,         \* result of the last call
  line,        \* history: what each priority should serve, in order
  derailed

vars == <<heads, tails, sizes, totalSize, available, node, ret, line, derailed>>

Priority == 0 .. numPriorities - 1
Null == -1
NewNode == [data |-> None, next |-> Null]

-----------------------------------------------------------------------------
\* blockSize nodes from the given number on, put in the ring one by one.
WithNodes(ring, first) ==
  LET r[n \in 0 .. blockSize] ==
        IF n = 0 THEN ring ELSE Enqueued(r[n - 1], first + n - 1)
  IN  r[blockSize]

\* makeNewBlock, when there is no node left.
NumNodes == Cardinality(DOMAIN node)
MustAllocate == available.size = 0
Ready == IF MustAllocate THEN WithNodes(available, NumNodes) ELSE available
Nodes == IF MustAllocate
         THEN [n \in DOMAIN node \cup NumNodes .. NumNodes + blockSize - 1 |->
                 IF n \in DOMAIN node THEN node[n] ELSE NewNode]
         ELSE node

FreeIn(ring) == {ring.data[i] : i \in DOMAIN ring.data}
Free == FreeIn(available)

InUse == {p \in Priority : sizes[p] > 0}
Highest == CHOOSE p \in InUse : \A q \in InUse : p <= q
Last == CHOOSE p \in InUse : \A q \in InUse : q <= p

\* Emptying a priority leaves its tail where it was.
StaleTail(p) == heads[p] = Null /\ tails[p] # Null
-----------------------------------------------------------------------------
Empty(ringSize) ==
  [heads |-> [p \in Priority |-> Null], sizes |-> [p \in Priority |-> 0],
   available |-> WithNodes(Queue(ringSize), 0),
   node |-> [n \in 0 .. blockSize - 1 |-> NewNode],
   line |-> [p \in Priority |-> << >>]]

Init == LET e == Empty(BaseAllocation)
        IN  /\ heads = e.heads /\ tails = e.heads
            /\ sizes = e.sizes /\ totalSize = 0
            /\ available = e.available /\ node = e.node
            /\ ret = None
            /\ line = e.line
            /\ derailed = FALSE

Clear == LET e == Empty(1)
         IN  /\ heads' = e.heads /\ tails' = e.heads
             /\ sizes' = e.sizes /\ totalSize' = 0
             /\ available' = e.available /\ node' = e.node
             /\ line' = e.line
             /\ derailed' = FALSE
             /\ UNCHANGED ret

Counted(p, n) == /\ sizes' = [sizes EXCEPT ![p] = @ + n]
                 /\ totalSize' = totalSize + n

\* The old tail is linked to the new node whether or not it is in the list.
LinkedBack_Unlinked(p, new, value) ==
  [Nodes EXCEPT ![new] = [data |-> value, next |-> Null]]
LinkedBack(p, new, value) ==
  LET n == [Nodes EXCEPT ![new] = [data |-> value, next |-> Null]]
  IN  IF tails[p] = Null THEN n ELSE [n EXCEPT ![tails[p]].next = new]

Enqueue(value, p) ==
  /\ totalSize < MaxSize
  /\ LET new == First(Ready)
     IN  /\ available' = Dequeued(Ready)
         /\ node' = LinkedBack(p, new, value)
         /\ tails' = [tails EXCEPT ![p] = new]
         /\ heads' = [heads EXCEPT ![p] = IF @ = Null THEN new ELSE @]
  /\ derailed' = (derailed \/ (StaleTail(p) /\ tails[p] \notin Free'))
  /\ line' = [line EXCEPT ![p] = Append(@, value)]
  /\ Counted(p, 1)
  /\ UNCHANGED ret

EnqueueFront(value, p) ==
  /\ totalSize < MaxSize
  /\ LET new == First(Ready)
     IN  /\ available' = Dequeued(Ready)
         /\ node' = [Nodes EXCEPT ![new] = [data |-> value, next |-> heads[p]]]
         /\ heads' = [heads EXCEPT ![p] = new]
         /\ tails' = [tails EXCEPT ![p] = IF @ = Null THEN new ELSE @]
         /\ derailed' = (derailed \/ (StaleTail(p) /\ tails[p] # new))
  /\ line' = [line EXCEPT ![p] = <<value>> \o @]
  /\ Counted(p, 1)
  /\ UNCHANGED ret

\* The head's node is free before it is left: nothing writes in between.
NextHead_Kept(p) == heads[p]
NextHead(p) == node[heads[p]].next

DequeuePriority(p) ==
  /\ sizes[p] > 0
  /\ heads[p] # Null
  /\ ret' = node[heads[p]].data
  /\ available' = Enqueued(available, heads[p])
  /\ heads' = [heads EXCEPT ![p] = NextHead(p)]
  /\ line' = [line EXCEPT ![p] = Tail(@)]
  /\ Counted(p, -1)
  /\ UNCHANGED <<tails, node, derailed>>

\* With nothing in use the priority is not initialised; not called then.
Dequeue == InUse # {} /\ DequeuePriority(Highest)

TryDequeueEmpty(p) == sizes[p] = 0 /\ ret' = None

Shows(p) == heads[p] # Null /\ ret' = node[heads[p]].data

\* front goes through all the priorities and keeps the last one in use.
Front == InUse # {} /\ Shows(Last)

FrontPriority(p) == sizes[p] > 0 /\ Shows(p)

GetCurrentHighestPriority == ret' = IF InUse = {} THEN numPriorities ELSE Highest

Looks == /\ \/ Front \/ GetCurrentHighestPriority
            \/ \E p \in Priority : TryDequeueEmpty(p) \/ FrontPriority(p)
         /\ UNCHANGED <<heads, tails, sizes, totalSize, available, node, line, derailed>>

Next == \/ \E p \in Priority : \/ DequeuePriority(p)
                               \/ \E v \in Value : Enqueue(v, p) \/ EnqueueFront(v, p)
        \/ Dequeue
        \/ Clear
        \/ Looks

Spec == Init /\ [][Next]_vars
-----------------------------------------------------------------------------
\* The n-th node of a priority's list.
NodeAt(p) == LET at[n \in 1 .. sizes[p]] ==
                   IF n = 1 THEN heads[p]
                   ELSE IF at[n - 1] = Null THEN Null ELSE node[at[n - 1]].next
             IN  at

Chained(p) == {NodeAt(p)[n] : n \in 1 .. sizes[p]}

(***************************************************************************)
(* Each priority's list, followed from its head, is what the priority      *)
(* should serve, then ends, at its tail; a priority is empty when its head *)
(* is null: until the queue derails.                                       *)
(***************************************************************************)
ListsInOrder ==
  ~derailed =>
    \A p \in Priority :
      /\ sizes[p] = Len(line[p])
      /\ sizes[p] = 0 <=> heads[p] = Null
      /\ Null \notin Chained(p)
      /\ \A n \in 1 .. sizes[p] : node[NodeAt(p)[n]].data = line[p][n]
      /\ sizes[p] > 0 => LET last == NodeAt(p)[sizes[p]]
                         IN  node[last].next = Null /\ last = tails[p]

(***************************************************************************)
(* Every node allocated is in one list, once, or is free, once; the sizes  *)
(* add up; and the ring's offsets agree.                                   *)
(***************************************************************************)
NodesAccounted ==
  ~derailed =>
    /\ InShape(available)
    /\ Free \cup UNION {Chained(p) : p \in Priority} = DOMAIN node
    /\ Cardinality(Free) = available.size
    /\ available.size + totalSize = NumNodes
-----------------------------------------------------------------------------
(***************************************************************************)
(* The inductive invariant: what ListsInOrder and NodesAccounted rest on.  *)
(* chain is the nodes of each list, in order.                              *)
(***************************************************************************)

\* A head and a tail hold the elements in these nodes.
Linked(nodes, head, tail, elements, content) ==
  /\ Len(nodes) = Len(elements)
  /\ head = IF nodes = << >> THEN Null ELSE nodes[1]
  /\ nodes # << >> => tail = nodes[Len(nodes)]
  /\ \A i \in 1 .. Len(nodes) :
       content[nodes[i]] = [data |-> elements[i],
                            next |-> IF i = Len(nodes) THEN Null ELSE nodes[i + 1]]

\* A node is in one list, once, or in the ring, once.
EachOnce(chain, ring, nodes) ==
  /\ Typed(ring, Nat) /\ InShape(ring) /\ IsInjective(Line(ring))
  /\ \A p \in Priority : IsInjective(chain[p]) /\ Range(chain[p]) \cap FreeIn(ring) = {}
  /\ \A p, q \in Priority : p # q => Range(chain[p]) \cap Range(chain[q]) = {}
  /\ FreeIn(ring) \cup UNION {Range(chain[p]) : p \in Priority} = nodes

OnRails(chain) ==
  /\ DOMAIN heads = Priority /\ DOMAIN tails = Priority
  /\ sizes = [p \in Priority |-> Len(chain[p])]
  /\ line \in [Priority -> Seq(Value)]
  /\ \A p \in Priority : Linked(chain[p], heads[p], tails[p], line[p], node)
  /\ EachOnce(chain, available, DOMAIN node)
  /\ totalSize \in Int
  /\ NumNodes \in Nat
  /\ DOMAIN node = 0 .. NumNodes - 1
  /\ available.size + totalSize = NumNodes

IInv == ~derailed => \E chain \in [Priority -> Seq(Nat)] : OnRails(chain)
=============================================================================
