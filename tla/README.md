# fsds: a formal model

`fsds` is a library of data structures in C and C++. This directory holds TLA+
modules that model its structures one by one, the TLC configurations that check
them on small instances, and theorems proved with TLAPS for every instance.
`PROJECT.json` says which definition models which lines of the source, which
run checks which property, and which changes to the code each property catches.

## The system

The library has no processes of its own: its parts are structures a client
calls. Most are for one thread; three queues and one list are meant for several.
They share little code: an allocator, the helpers of `list_internal`, and the
locks of the separate project `fts`, a git submodule that is not in this tree.

| part | source (under `src/src/`) | state | operations |
|---|---|---|---|
| slot map | `slot_map/` (C) | one memory block: header, lookup words, reverse lookup, data | construct, destroy, reserve, shrinkToFit, clear, add, remove, get |
| stable list | `stable_list/stable_list.c` (C) | one block: elements at `front .. front+size`, a per-instance offset for stable references | construct, reserve, shrinkToFit, clear, append/remove at both ends, index <-> iRef |
| stable list wrapper | `stable_list/stable_list.inl` (C++) | owns a C stable list; iterators hold iRefs | constructors, assignment, at, iterators, append, prepend, concatenate, remove |
| k-tree | `k_tree/` (C) | a block with an active bitmap and k^d elements per level, in breadth-first or depth-first order | construct, add, get, remove, contains, increaseDepth, decreaseDepth, clear |
| SPSC queue | `queue/spsc_queue.inl` | ring buffer: data, front, back, size, capacity; no lock | enqueue, dequeue, tryDequeue, front, [], reserve, clear, copy, move |
| SPMC queue | `queue/spmc_queue.inl` | array of pointers to blocks, positions, a spin lock and a counting semaphore | enqueue, enqueueBlock, dequeue, tryDequeue, front, [], reserve, clear |
| MPSC queue | `queue/mpsc_queue.inl` | the same | enqueue, dequeue, dequeueBlock, tryDequeue, front, [], reserve, clear |
| finite priority queue | `queue/finite_pqueue.inl` | one linked list per priority, an SPSC queue of free nodes | enqueue, enqueueFront, dequeue, dequeuePriority, tryDequeue, front, clear |
| separate data list | `seperate_data_list.inl`, `list_internal.inl` | heap array with room at the front and the back | append, prepend, insert, remove, reserve, shrinkToFit, copies |
| thread-safe list | `ts_seperate_data_list.inl` | a separate data list behind a read-write lock | the list's, each under the lock |
| inline list | `inline_list*.inl`, `inline_control_block.hpp` | one block: header and elements | append, prepend, insert, remove |
| strings | `string/` | static (view) and dynamic (owned) UTF-8 strings | set, append, compare, iterate by code point |
| linked list | `linked_list.hpp` | declared only | none implemented |
| aligned allocator | `aligned_allocator.inl` | none | allocate, deallocate |
| `fts` locks | external | SpinLock, SpinSemaphore, ReadWriteLock | as `queue/` and `ts_seperate_data_list.inl` use them |

`ChunkList` is named by the repository's README and has no source. `tests/`
holds unit tests of single calls, one thread at a time.

### What is hard here

* **Sequences of legal calls.** Most structures keep several views of one thing
  in step: lookup words, reverse lookup and free list; front, size and
  capacity; numBlocks, firstBlock and lastBlock. The slips are in transitions
  nobody tests: remove and then reuse, empty and then refill, copy and then grow.
* **Threads.** The queues take a lock for their bookkeeping and move the
  element outside it, behind a semaphore.
* **Failed allocation.** Every growth can fail half way.
* **Stale references.** Slot map references and stable list iRefs outlive moves
  of the elements, by design; what must not outlive is the wrong element.
* **Boundaries.** 24-bit generations, 32-bit instance offsets, depth powers of
  k, the empty structure.

## Slot map

`SlotMap.tla` models `slot_map.c`. The 64-bit lookup word is a record of its
index and its generation; `NPOS` is an index no word has. `lookup` is a function
on the words *written so far*: the code reads a word it has not written exactly
when the model would apply the function outside its domain, which TLC reports.
`reverse` and `data` are the live prefixes of the two other arrays.

Each function of the source is one action, with its errors: `ConstructSize`,
`Destroy`, `Reserve`, `ShrinkToFit`, `Clear`, `AddInPlace` and `AddGrowing` (the
two ways through `add`), `Remove`, `Get`, and `Refuse` for the two error returns
`remove` and `get` share. `aligned_alloc` fails whenever it likes; its failure
(`FailAllocation`) loses the block, because the code overwrites the pointer
before it tests the result.

Three history variables say what the client knows: `live` maps each reference in
force to the element it was issued for, `retired` holds removed references,
`free` lists the freed lookups in order. A reference leaves `retired` when its
lookup's generation comes round to it again, after `GenMod` (2^24) removals of
that lookup: the protection reaches no further. `Clear` empties `retired`, since
nothing marks older references as stale (what follows from it is told below).

`HandleMap.tla` is the promise without slots: add hands out a reference not in
use, get finds its element, a removed reference is rejected. It is allowed to
lose everything when an allocation fails, and to forget one long-retired
reference per removal. `SlotMap` implements it (`HandleMapSpec`).

| property | what it says |
|---|---|
| `TypeOK` | the arrays stay inside the block |
| `LookupsAccounted` | every lookup in use is one element's or free; they fill a prefix that fits the array |
| `ReverseInverts` | the reverse lookup inverts the lookup words |
| `FreeListIntact` | the next fields chain all free lookups once, most recent first, and end in NPOS |
| `LiveResolve` | a reference in force finds its own element |
| `RetiredRefused` | a reference to a removed element is refused |
| `HandleMapSpec` | every step is a step of the promise or none |

Runs:

* `slot_map` (two elements, capacities from 1 to 4, two generations): all the
  above. Capacity 4 lets the map start with 1, 2 or 3 slots and grow once or
  twice, and holds a free list of up to four lookups in every order; two
  generations make the counter wrap within two removals. Some 230,000 states.

What the promise leaves out at a clear: the comment at `slot_map.c:146` says that
a lookup taken while the free list is empty has not been used before. After
`clear` it has, and its generation is set to zero again, so `add` may issue a
reference the client still holds from before.

### Proofs

`SlotMapProofs.tla` proves, for any elements, capacities and number of
generations: `Invariance` (`Spec => []IInv`), and from it `TypeCorrect`,
`ReferencesResolve`, `StaleRefused`, `LookupsShared`, `ReverseCorrect`,
`FreeListCorrect` and `Refinement` (`Spec => HandleMapSpec`): every property of
the run. The only assumption is `SlotMapAssumption`: a default
capacity between 1 and the largest, and at least one generation.

`LiveResolve` is not inductive: a removal moves the last element, and finds the
lookup to correct through the reverse lookup, so `ReverseInverts` is needed;
an add reuses the lookup at the head of the free list, so the free list must not
hold a lookup in use (`LookupsAccounted`) and must be spelled right after the
pop (`FreeListIntact`); and the element removed must have been live for the
client (`ElementsHeld`), or `live` and the data would drift apart. `IInv` is the
conjunction of the seven. The proof has one lemma per action and in it one step
per conjunct. `FreshReference` is the heart of the refinement: the reference an
add hands out is neither live nor retired.

## Stable list

`StableList.tla` models `stable_list.c`. A list lies in one block at
`front .. front + size - 1`; an iRef is a position plus `iRefOffset`, and a
reallocation changes `iRefOffset` by as much as it moves the elements. `size_t`
has `W` values and wraps (`Plus`, `Minus`); `data` is the function of the
positions that hold an element. Each function is an action, `AppendFront` and
`AppendBack` two (in place, growing); the lookups by index and by iRef are
actions that set the returned code and value, `ret`.

`corrupt` is set by a call that reaches outside the block or removes from an
empty list. From then on the source's behaviour is undefined and the model says
nothing, so the list stops: this is why the runs do not look for deadlocks.

`IRefList.tla` is the promise of `stable_list.hpp:28-36` with no memory: a
sequence of iRefs, the element of each, and nothing an operation on one element
does to another's.

| property | what it says |
|---|---|
| `TypeOK` | the header keeps its types through every wrap; `data` is where front and size say |
| `InBlock` | no element lies past the block; only the margin of the constructor puts `front` there |
| `AppendsInsideBlock` | a list with more capacity than front margin never appends or shrinks past its block |
| `IRefListSpec` | every step is a step of the promise: an iRef finds its own element as long as it is in the list, and is refused after |

Runs: `stable_list` (two elements, at most four places, nine values of `size_t`,
instances three iRefs apart; some 136,000 states): four places allow two growths
and a margin of up to three; nine values make every offset wrap within a few
reallocations while twice the largest capacity still fits, as in the code.

A list whose capacity is not more than its margin, as the default list's is not,
may grow into a block whose front margin leaves no place for what it appends;
`AppendsInsideBlock` speaks of the others, and the class shows what comes of it.

### Proofs

`StableListProofs.tla` proves for every `W`, increment and capacity that
`TypeOK /\ InBlock` (`IInv`) is inductive, and from it `TypeCorrect`,
`ElementsInBlock`, `AppendsSafe` and `IRefsStable` (`Spec => IRefListSpec`).
`InBlock` needs `TypeOK` because all moves are stated on the domain of `data`,
and `AppendsSafe` needs both, for what fits depends on how far front has moved.

The refinement maps the list to the sequence of the iRefs of its positions. All
of its arithmetic is in small lemmas on typed numbers: `AtInverse` and `AtUnique`
(an iRef names one position, wrapped or not), `AtRebased` (a reallocation changes
the offset by as much as it moves the elements, so every iRef stays) and
`AtShift`. Each action has then to be shown to be `IRefList`'s, or to change
nothing there (a reserve, a shrink).

## Stable list, the class

`StableLists.tla` models `stable_list.inl` over `StableList.tla`, which it
extends: `ClassNext` makes the calls of the C list that the class makes. A call
that appends several elements is a loop: `call` holds what is left of it, and
each turn (`AddNext`) is one `appendBack` or `appendFront` of the C list. While a
loop runs nothing else happens, as in the code. Constructors start with
`ConstructSizeFront`, assignments with `Destroy` (`AssignWith`) and then
`Reconstruct`; a constructor whose loop throws loses its block (`Unwind`).
Elements come from another list, which is a sequence of values here, or from the
list itself (`PushOwn`, `ConcatenateBackOwn`, `AssignOwn` and so on): the source
is looked up before room is made, so if the list takes a new block then, or was
destroyed, memory is read that was freed, and `corrupt` is set. Iterators are
records of an iRef and a step, and move in the arithmetic of `size_t`.

`ValueList.tla` is the promise, "similar to std::vector" (`stable_list.hpp:28`):
every call makes the sequence it should, at once; the turns of a loop change
nothing, since `Items` counts what the loop has yet to add. What the code does
not keep is listed at the head of the module. Most of it comes of one thing: a
block of capacity n with a front margin of 16 has its elements start behind the
margin, so a list of n elements, made with capacity n, has no room until it has
grown to more than its margin. `sturdy` says that it has; from then on only the
named calls break it: its own elements as arguments, `reserve` of less than size
and margin, removal from an empty list.

| property | what it says |
|---|---|
| `WalksInOrder` | iteration forward and backward meets each element once and in order, and distances are sizes, with iRefs on both sides of zero |
| `ValueListSpec` | every step is a step of the promise or none |
| `MadeInMemory` | *violated*: constructing a list writes inside its block |

Runs: `stable_list_class` (two elements, size at most four, capacity at most
eight, default capacity and margin 2 for the code's 16, seventeen values of
`size_t`, two instances six iRefs apart; some 171,000 states): capacities below,
at and above the margin occur, lists of two elements are concatenated with
themselves with and without growing, and prepending takes the first instance's
iRefs through zero. States that differ in what the last call was and returned
are one (`Future`); each step is checked all the same.
`stable_list_class_made`: *violated* by a list of one element; in the code by
every list made of one to eight, the five of the test at `src/tests/src/main.cpp:3822`
among them, of which the first is written past a block of ten places.

### Proofs

`StableListProofs.tla` goes on to the class, for every margin, default capacity and
number of instances: `ClassInvariance`, `IteratorsRight` (`WalksInOrder`) and
`ValuesKept` (`ValueListSpec`). `ClassInv` adds two things to `IInv` of the C list: the
margin is the class's, as long as there is a block; and `CallOK`, what a loop under
way knows, which every turn of it must leave true for the next: there is a list to
add to, positions yet to be copied are positions the list has, elements yet to be
added are elements, or all are what is left of a list destroyed before.

`WalksInOrder` follows from the type of the header and the arithmetic of `size_t`
alone: an iterator that has gone n steps stands at the n-th iRef, wrapped or not
(`Wrapped`, `StepsApart`, `WalkSteps`), finds the n-th element (`DereferencedAt`), and
reaches the end after as many steps as there are elements, not before.

The refinement maps a list under construction or in a loop to the elements it holds
with those the loop has yet to add (`Shown`). The heart of it is `ShownStep`: a turn of
the loop takes the next element from the one to the other and so leaves the whole
as it was, also when the list is its own source, unless it is put in front
of itself. What is left is one lemma per call, and for each append that overruns
its block that the list was not sturdy.

`StableListsAssumption` is what they assume: the default capacity and the margin are
at least one and, like the largest size, at most the largest capacity; the absence of
an element is not an element; and the instances' iRefs do not wrap among
themselves.

## Block queues

`BlockQueue.tla` models what `spmc_queue.inl` and `mpsc_queue.inl` share, which
is nearly everything; `SPMCQueue.tla` adds `enqueueBlock` and several consumers,
`MPSCQueue.tla` has one consumer. Blocks of `BlockSize` elements hang from an
array of pointers. The n-th element enqueued is the number n, so `enqueued` and
`claimed` say what should be in the queue.

Everything under `m_controlBlockLock` is one action: the lock makes it so.
`dequeue` gives up the lock before it reads, and is four actions:

| action | code |
|---|---|
| `DequeueClaim` | under the lock: roll to the next block, advance front, add counters |
| `TakeCounter` | `SemaphoreDestoryCounterLockGuard` waits for a counter |
| `LoadArray` | `this->m_data` is loaded |
| `Read` | the element is read through it; the guard destroys the counter |

`pc` and `claim` hold where each consumer is; a reallocation turns a consumer
that is `loaded` into one that is `freed`. Producers need no names: an enqueue is
one step whoever makes it. `tryDequeue` takes the same steps. The semaphore is in
`fts`, which is not here: the model's is one whose guard waits until a counter is
free, and removes it when it leaves, as its name says.

Some calls break the layout, and the model goes on from what the code then does
with `derailed` set, until a `Clear` resets it: an enqueue when the last block is full
and the code's comparison does not see it, a block that could not be allocated,
an `enqueueBlock` (which counts none of the elements it adds), a `reserve` with
the first block not at the start, a `clear` that frees a pointer never written or
runs during a dequeue, and a `clear` that finds no memory (`ClearFails`): it has
freed the blocks and the array by then, and the exception leaves the old counts
over an array that is gone, or over a new one with no block in it. `lost` remembers
the former, since every later `clear` frees that array again and nothing can be
promised any more. `InLine` and `ClaimHolds` are stated up to the first of these
events.

| run | bounds | result |
|---|---|---|
| `spmc_queue` | 2 consumers, 6 elements, blocks of 2, array of 1 growing, failures | `TypeOK`; `InLine`: the elements are in order where the index arithmetic looks; `ClaimHolds`: the array a consumer is to read has what it claimed, at a place no other consumer claimed, unless it was freed once its address was loaded; `DequeueFinishes`: as long as dequeues do not overlap, none is left waiting for a counter |
| `mpsc_queue_freed` | 1 consumer, 5 elements | `ReadsLiveArray` *violated*: a growth frees the array the consumer is about to read |

`ClaimHolds` and `ReadsLiveArray` are the two halves of one promise: that growing the
array or moving the front leaves a claimed element where the claim says, and that
the array itself is still there. The first holds, the second does not.

The first of the events that derail takes little: fill a block, empty it, ask once more,
and the next element enqueued is never found (`mpsc_queue.inl:44` compares a count
from the first block in use with one from block zero).

Six elements in blocks of two are three blocks: the array grows twice from one
pointer, and the queue rolls over a block with elements in front of it and
behind. `MaxReserve` 8 is a capacity of four blocks. Only the elements are
bounded; sizes, counters and positions follow.

`Fairness` is weak fairness of a consumer's own three steps after the claim: a
thread in a call keeps running and spins only on the semaphore. Nothing makes
anyone enqueue, claim or clear: a consumer must not depend on a later call. That
a dequeue finishes is stated for dequeues that do not overlap, as those of the one
consumer of an `MPSCQueue` do not: if two overlap, both may
claim on the strength of one counter, and one then waits until a later call adds
another. No passing run has `MPSCSpec` of its own: each of its steps is a step of
`SPMCSpec`, and so is what the run shows.

### Proofs

`BlockQueueProofs.tla` proves for every finite set of consumers, block size, base
allocation and bound that one invariant, `IInv`, is inductive for both queues
(`SPMCInvariance`, `MPSCInvariance`), and from it `SPMCTypeCorrect`,
`SPMCElementsInLine`, `SPMCClaimsKept`, `MPSCElementsInLine` and `MPSCClaimKept`.
Each shared action has one lemma; a step of either queue is one of them, and
`EnqueueBlock` is proved to derail. `IInv` joins to `TypeOK` and `InLine` what makes
them inductive, and what `ClaimHolds` follows from (`HoldsApart`):

* `Counted`: what is claimed and what is in the queue was enqueued, and the
  counters held are there; a guard that leaves takes away one that exists.
* `TailInLastBlock`: the place behind the last element is in the block
  `lastBlock` says, or just past it, and no block up to there is missing.
* `ClaimsBehind`: what is claimed and not read lies in a block before the first
  one, or at a lower offset than front, where no enqueue writes.
* `PlacesHold`: the array in force has every element claimed and not read, whether
  its consumer still reads there or from an array that was freed.
* `TicketsApart`: no element is claimed twice, so that no place is either.

`InLine` alone is not kept by an enqueue (it says nothing of where the next place
is), nor `PlacesHold` by an enqueue, which must write elsewhere, or by a dequeue, which
must find at the front the element it claims.

`ConsumerNeverWaits`: under `SingleConsumer` the consumer always finds a counter. It
is the safety half of `DequeueFinishes`; the rest is liveness and only
model-checked.

## K-tree

`KTree.tla` models what the breadth-first and the depth-first tree of `k_tree.c`
share: the block, the bitmap (`active`, the set of indices whose bit is set), the
data, all element operations, construction with its overflow tests, `clear`.
`BFSKTree.tla` and `DFSKTree.tla` add the two orders' `increaseDepth`,
`decreaseDepth` and `calculateIndex`; `KTrees.tla` is a tree of one order or the
other. What a removed element leaves behind is not told from nothing. The
depth-first changes of depth follow the source: `Walk` is the loop with
its stack of child counters, `Moved` the loop that moves elements and bits in
place. A construction is only asked of a tree that has no block.

`PathTree.tla` is the promise: nodes are named by the path of child numbers from
the root, so that neither order nor depth matters. Growing keeps every node,
shrinking those of the levels left, a call that is refused everything; only a
`clear` without memory for its new tree loses it.

| property | what it says |
|---|---|
| `TypeOK` | no bit is set at or beyond the capacity (`k_tree.c:9`), among the types |
| `SizeCounts` | size counts the bits set, each with an element, through all changes of depth |
| `BFSIndexRight`, `DFSLeafIndexRight` | `calculateIndex` agrees with the pictures of `k_tree.h`, for depth-first trees at the leaves |
| `GuardIdle` | the guard the source says never triggers never does |
| `PathTreeSpec` | both trees implement the promise |

Runs: `k_tree` (binary trees of up to four levels, ternary ones of three, both
orders, two elements, at most two nodes in use before the last step): four levels
make the walk back up over two levels at once, and changes of one, two and three
levels in one call; two elements tell nodes apart; a word of four bits puts the
bitmap in up to four words. `DFSLeafIndexRight` speaks of leaves because
`calculateIndex` of a depth-first tree agrees with the picture at
`k_tree.h:118-124` for those only; nothing in the library calls it.

### Proofs

`KTreeProofs.tla` proves for every arity, depth, set of elements, size of `size_t`
and of a word of the bitmap that `IInv` is inductive (`Invariance`), and from it
`TypeCorrect`, `SizeIsRight` and `GuardNeverTriggers`. `IInv` joins `TypeOK` and
`SizeCounts`, each of which a change of depth needs of the other, with what a tree
that is there has: a level, and two children to a node.

The powers and sums of powers in `NumElements`, and the walk, are recursive
functions, of which the prover knows nothing: `Recursion` shows that a loop has a
function of its turns (from the well-foundedness of the naturals), and `PowerOf`,
`ElementsOf` and `WalkOf` what the functions are. `Index` is where a path leads in
a depth-first tree of so many levels. `WalkLeads` is the loop invariant of the
walk: its stack spells a path that leads to the walk's element in the smaller tree
and to `far` in the larger; backing up over a level that is done (`BackUp`) changes
neither. A subtree ends within its tree (`SubtreeInside`), so that (`FarOf`) the
places found are distinct, in order, inside the larger tree and never before the
element's own. That is what the move in place rests on: `MovedTo` says
after each turn which places hold what they will hold and that those still to be
read are untouched.

`BreadthFirstCalculateIndex` and `DepthFirstCalculateIndex` are `BFSIndexRight` and
`DFSLeafIndexRight` for every arity and depth. `Up(a, c, p, n)` climbs the path `p`
in base `a`: its value is the width of the path's node in its level with c = 0, its
breadth-first index with c = 1. The loop of the depth-first `calculateIndex` divides
the width by the arity level by level, which climbs back up the path; that the sum
it makes is the leaf's index is `LeafSum`, an invariant that holds on the levels
between too, where each width stands for the subtrees to the left.

`IsPathTree` is the refinement: every step of a tree of either order is a step of
`PathTree` or leaves it alone. `MappedIs` says what the refinement mapping is: each
node whose index is in use, with its element. It needs that every index below the
capacity is that of a node (`NodeExists`, for a depth-first tree from the walk, which
passes every element) and of one only (`NodesApart`), and that `PathOf`, a recursive
function, finds it (`BreadthFirstPathOf`, `DepthFirstPathOf`). A change of depth is
then a function that carries the index of a node in the smaller tree to its index in
the larger (`Carries`): the identity breadth first, what the walk finds depth first
(`DepthFirstCarries`). `ContentDeepened` and `ContentFlattened` say what such a change
does to the elements by path.

## SPSC queue

`Ring.tla` models what the members of an `SPSCQueue` are and what its functions
make of them: an array used in a circle, that is straightened out when it is
reallocated (`Straight`: one run of places copied, or two) and copied without
room to spare (`Copied`). Each `...Fits` says when a function stays inside the
array it writes. `SPSCQueue.tla` makes the calls, on several queues that are
copied and moved among each other by one thread: the source has neither a lock
nor an atomic, and two threads would race on `m_size`.

`Lines.tla` is the promise: each queue is a line served first come, first served.
What the code keeps less of is said there: a queue that was copied, or moved away
from, has its back at its capacity, or no capacity at all, and to enqueue may
write past its array (`frail`, until it is cleared or takes a new array). To copy
an empty queue, or a queue onto itself, and to reserve less than the capacity of
an empty queue do so at once, since a back that is at the front is taken to have
wrapped.

| property | what it says |
|---|---|
| `OffsetsAgree` | front, back and size of a queue that is not frail agree modulo its capacity |
| `LinesSpec` | every step is a step of the promise or none |

Run: `spsc_queue` (two queues, two elements, first capacity 2 for the code's 16, at
most four elements, capacities asked for up to 4): each queue grows once and
wraps at two capacities, full, half full and empty; queues in every such state
are copied and moved onto the other. Nothing depends on the base allocation but
when a queue grows.

### Proofs

`RingProofs.tla` holds lemmas about `Ring.tla`, cited by both users of it.
`InShape` describes a ring by its front and its size: `OneTurn` and `SpotsDiffer`
are the modular arithmetic (the places in use are different), `LineOf` says what
elements they are, and `StraightOf`, `ReallocatedOf`, `EnqueuedOf`, `DequeuedOf`
that each function keeps the shape and does to the line what it should.

`SPSCQueueProofs.tla` proves for every set of queues and elements and every base
allocation `Invariance`, `OffsetsInStep` (`OffsetsAgree`) and `ServedInOrder`
(`LinesSpec`). `OffsetsAgree` says nothing of frail queues, which are copied on
and moved: `IInv` adds that they are `Spent`, with the back at the capacity and the
elements ending there, from which dequeues, copies and growth go right.

## Finite priority queue

`FinitePQueue.tla` models `finite_pqueue.inl`: a linked list of nodes for each
priority, and a ring queue (`Ring.tla` again) of the nodes that are free. A node is
a number, in the order of allocation; `makeNewBlock` allocates `blockSize` of them
when none is free (`Ready`, `Nodes`) and is part of both enqueues. The actions are
`Enqueue`, `EnqueueFront`, `DequeuePriority`, `Dequeue` of the highest priority in use,
`Clear` and the calls that look (`Looks`). The history variable `line` is what each
priority should serve.

Emptying a priority sets its head to null and leaves its tail. The next `enqueue`
links that old node to the new one, which is harmless while the old node is free;
if it is in use by then, a list is cut, and `enqueueFront` keeps the old node for
the tail unless it is the new one by chance. `derailed` is set then, until a
`Clear`.

| property | what it says |
|---|---|
| `ListsInOrder` | until the queue derails, each priority's list followed from its head is what it should serve, and ends at its tail |
| `NodesAccounted` | until then, every node is in one list once, or free once, and the sizes add up |

Run: `finite_pqueue` (two priorities, two elements, four in the queue at most, blocks
of two nodes, ring of one place at first): a second block is allocated while nodes
of the first are free, in use or left behind as a tail, and the ring grows twice.
States that have derailed are not followed.

### Proofs

`FinitePQueueProofs.tla` proves for any number of priorities, elements, block size
and allocation `Invariance`, `ListsKept` (`ListsInOrder`) and `NodesKept`
(`NodesAccounted`). The two properties speak of lists by following pointers, which is
no way to reason about a step. `IInv` says that there is a *chain* for each
priority, a sequence of nodes that the next pointers spell (`Linked`), and that the
chains and the ring share out the nodes (`EachOnce`); that each step keeps `line`
and the chain of each list in step then follows list by list (`LinkedAppended`,
`LinkedPrepended`, `LinkedShortened`, and `LinkedElsewhere` for the lists that a
step leaves alone, which need the nodes of two lists to be different). `ChainFollowed`
leads from the chain back to the pointers.

`WithNodes` fills the ring with a recursive function. That it exists and what it is
(`RingsExist`) is proved from the well-foundedness of the naturals (`LeastOf`,
`SetInduction`), without the library's induction rules.

## Lists

`ListInternal.tla` models the helpers of `list_internal.inl` on one array:
elements copied, shifted to insert, closed up to remove. `SeperateDataList.tla` and
`InlineList.tla` are what the methods of the two kinds make of a list, as pure
operators; to write past the array is `Overrun`. `Lists.tla` makes the calls of
either kind (`kind`) on several lists: elements added at both ends and inside, those of
the list itself included, removed, reserved, copied, moved, compared. Removing the
front moves `front` on, so that a list has room at its start; reallocations take
the elements back to the start of the array, each in its own way.

A `ts::SeperateDataList` makes the same calls under its read-write lock, one at a
time, so any number of threads do what one does here. What outlives the lock is
the pointer `data()` returns: `pointed` says that somebody holds one into the list's
present array, and `Read` reads through it.

`Vectors.tla` is the promise, to be like `std::vector`; where the code keeps less is
said at its head. A list is bare when its capacity is not what its array has, and
to add to it may overrun the array; a list whose front was removed loses the order
in some of the calls until it is moved to the start of an array.

| property | what it says |
|---|---|
| `InsideArray` | a list that is not bare has its elements inside its array, wherever its front is |
| `VectorsSpec` | every step is a step of the promise or none; a pointer of `data()` is good until something is added to the list, or it is reserved or replaced |

Run: `lists` (two lists of either kind, two elements, at most three in a list, arrays
of at most four places altogether, base allocation 1): lists are full, shifted by
up to three places, grown once or twice, copied, moved, and made bare in each way there
is. States that differ in the last call only are one (`Future`); each step is
checked all the same.

### Proofs

`ListsProofs.tla` proves for every set of lists and elements, base allocation and
bound `Invariance`, `ElementsInside` (`InsideArray`) and `ListsAreVectors`
(`VectorsSpec`). `IInv` says more than `InsideArray`, of bare lists too: whichever way
a list came to be, its elements lie inside its array; what is wrong with a bare list
is only its capacity. `BlitOf`, `InsertAtOf` and `RemoveAtOf` say what the helpers make
of the contents of an array, `SGrows`, `IGrows`, `SCopies` and `ICopies` what growth
and copies of each kind do, and the `Kind...` lemmas join the kinds. The refinement
then has one lemma per call, `AppendStep` to `ReadStep`, each of which shows that
what happened is either the promised change or an overrun the promise allows.

## Strings

`Utf8.tla` models `utf-8.inl` on arrays of code points (the library's word for
bytes): how many belong to a character, where the n-th character starts, copies
and replacements inside an array. To touch an array elsewhere is `Overrun`.
`DynamicString.tla` is what the methods of `DynamicString` make of the string, and
`Strings.tla` makes their calls, with literals, other strings, the string itself or
`StaticString`s of them as operands, with searches, comparisons and iterators.
`Unicode.tla` is how literals are encoded, which is the compiler's doing.

`Texts.tla` is the promise: a string is a sequence of unicode values. Most of what
the code keeps less comes of one thing: `capacity` is taken for the room in the array
and for the code points in use, and setting a character to one of another width
makes the two differ (`loose`). `Texts` allows what the code does and, where that is wrong,
the right thing too.

| property | what it says |
|---|---|
| `TextsSpec` | every call gives the text, or the answer, it should, but for what `Texts` names |
| `ReplacesInMemory` | *violated*: replacing a part of a string by something narrower stays in its memory, as the tests expect |

Runs: `strings` (two strings of at most two characters and four code points, made
from literals with characters of one, two and three code points): every operation
meets characters of one and of several code points on either side of where it
cuts, and operands that are the string itself. `strings_replace`, with the same
bounds: *violated* by replacing the one character of a string by nothing, for
`reallocate` copies the larger, old capacity into the smaller array. The tests at
`src/tests/src/main.cpp:2547-2572` replace two of six characters by nothing.

No theorem speaks of the strings: what a string holds is defined by recursion along
it, on data of any length, and every step of the refinement would be an induction
over that.

## Plan

Every part with code of its own has a module. What the model has left:

1. The SPSC queue with a thread at each end; the queues' comparisons, for their
   lock order.
2. Iterators of the class `StableList` with other steps, and their order.

Proved is every property that holds in the runs but two. `DequeueFinishes` is
liveness, of which `ConsumerNeverWaits` is the safety half; `TextsSpec` would take
inductions over strings. What the plan adds to the model comes with its proofs.

## Not modelled

Only model-checked: `DequeueFinishes`, since liveness and ENABLED are outside what
TLAPS proves, and the strings. Not modelled is what the plan lists. Byte counts and alignment of
allocations are abstracted to "may fail". `linked_list.hpp` has no
implementation, `aligned_allocator` is a call into the C++ runtime, `fts` is not
in this tree and appears only through the calls made to it. `string_builder` is
unfinished: most of its methods have no body.

Functions that do not compile once they are called are left out: the
`...Construct` functions of the inline list, `operator[]`, `front` and `back` of
the thread-safe list, the initializer-list constructor of the separate data list.
So are the copies of an inline list, which have no block; the assignment of one
`DynamicString` to another, which the compiler writes and which leaves two with
one array; output to streams; elements that are not trivially copyable, or whose
constructors throw; strings cut or replaced with an end before the start.
