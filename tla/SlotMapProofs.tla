--------------------------- MODULE SlotMapProofs ---------------------------
(* Proofs about SlotMap, for every capacity, set of values and GenMod.     *)
EXTENDS SlotMap, SequenceTheorems, TLAPS

USE SlotMapAssumption DEF NPOS, Generation, Word, Reference

LEMMA NextGenType == ASSUME NEW g \in Generation PROVE NextGen(g) \in Generation
BY DEF NextGen

(* Arithmetic the provers decide when its terms are typed constants.       *)
LEMMA Within ==
  ASSUME NEW m \in Nat, NEW c \in 0 .. m, NEW l \in 0 .. c - 1
  PROVE  l \in 0 .. m - 1
OBVIOUS

LEMMA WithinClosed ==
  ASSUME NEW m \in Nat, NEW c \in 0 .. m, NEW l \in 0 .. c - 1
  PROVE  l \in 0 .. m
OBVIOUS

LEMMA NotTheLast ==
  ASSUME NEW n \in Nat, NEW h \in 0 .. n - 1, h # n - 1
  PROVE  h \in 0 .. (n - 1) - 1
OBVIOUS

LEMMA FrontLength ==
  ASSUME NEW n \in Nat \ {0}
  PROVE  (IF 1 <= n - 1 THEN (n - 1) - 1 + 1 ELSE 0) = n - 1
OBVIOUS

LEMMA FrontProperties ==
  ASSUME NEW S, NEW s \in Seq(S), s # << >>
  PROVE  /\ SubSeq(s, 1, Len(s) - 1) \in Seq(S)
         /\ Len(s) \in Nat \ {0}
         /\ Len(SubSeq(s, 1, Len(s) - 1)) = Len(s) - 1
         /\ \A k \in 1 .. Len(s) - 1 : SubSeq(s, 1, Len(s) - 1)[k] = s[k]
<1>1. Len(s) \in Nat \ {0} /\ \A k \in 1 .. Len(s) : s[k] \in S
  BY LenProperties, ElementOfSeq, EmptySeq
<1>2. Len(s) - 1 \in Nat /\ \A k \in 1 .. Len(s) - 1 : s[k] \in S
  BY <1>1
<1>3. /\ SubSeq(s, 1, Len(s) - 1) \in Seq(S)
      /\ Len(SubSeq(s, 1, Len(s) - 1)) =
           IF 1 <= Len(s) - 1 THEN (Len(s) - 1) - 1 + 1 ELSE 0
      /\ \A k \in 1 .. (Len(s) - 1) - 1 + 1 :
           SubSeq(s, 1, Len(s) - 1)[k] = s[1 + k - 1]
  BY <1>2, SubSeqProperties
<1>4. (IF 1 <= Len(s) - 1 THEN (Len(s) - 1) - 1 + 1 ELSE 0) = Len(s) - 1
  BY <1>1, FrontLength
<1>5. (Len(s) - 1) - 1 + 1 = Len(s) - 1 /\ \A k \in Int : 1 + k - 1 = k
  BY <1>1
<1>6. QED
  BY <1>1, <1>3, <1>4, <1>5

-----------------------------------------------------------------------------
(* Constructing, clearing, destroying and failing to allocate all leave an *)
(* empty map, with or without a block.                                     *)

LEMMA EmptyMapInv ==
  ASSUME memBlock' \in BOOLEAN, capacity' \in 0 .. MaxCapacity,
         memBlock' => capacity' > 0,
         lookup' \in [DOMAIN lookup' -> Word],
         DOMAIN lookup' \subseteq 0 .. capacity' - 1,
         EmptyMap, Returns("SUCCESS", None) \/ Returns("ALOCATION_FAILED", None)
  PROVE  IInv'
<1>1. TypeOK'
  BY DEF EmptyMap, NoElements, Returns, TypeOK, Code
<1>2. LookupsAccounted' /\ ReverseInverts' /\ FreeListIntact'
  BY DEF EmptyMap, LookupsAccounted, ReverseInverts, FreeListIntact, Used
<1>3. LiveResolve' /\ RetiredRefused' /\ ElementsHeld'
  BY DEF EmptyMap, NoElements, LiveResolve, RetiredRefused, ElementsHeld
<1>4. QED
  BY <1>1, <1>2, <1>3 DEF IInv

LEMMA NoBlockInv ==
  ASSUME NoBlock, Returns("SUCCESS", None) \/ Returns("ALOCATION_FAILED", None)
  PROVE  IInv'
<1>1. lookup' = [i \in {} |-> NullReference]
  BY DEF NoBlock
<1>2. /\ lookup' \in [DOMAIN lookup' -> Word]
      /\ DOMAIN lookup' \subseteq 0 .. capacity' - 1
  BY <1>1
<1>3. memBlock' \in BOOLEAN
  BY DEF NoBlock
<1>4. capacity' \in 0 .. MaxCapacity
  BY DEF NoBlock
<1>5. EmptyMap
  BY DEF NoBlock
<1>6. memBlock' => capacity' > 0
  BY DEF NoBlock
<1>7. QED
  BY <1>2, <1>3, <1>4, <1>5, <1>6, EmptyMapInv

-----------------------------------------------------------------------------
(* Facts of the type invariant that need no function sets.                 *)
LEMMA TypeFacts ==
  ASSUME TypeOK
  PROVE  /\ size \in Nat
         /\ capacity \in 0 .. MaxCapacity
         /\ Len(free) \in Nat
         /\ free = << >> <=> Len(free) = 0
         /\ Used \in Nat
         /\ Used = size + Len(free)
         /\ \A k \in 1 .. Len(free) : free[k] \in 0 .. MaxCapacity - 1
         /\ DOMAIN lookup \subseteq 0 .. capacity - 1
         /\ \A i \in DOMAIN lookup : lookup[i] \in Word
BY DEF TypeOK, Used

(* A lookup in use has a word.                                              *)
LEMMA UsedWord ==
  ASSUME TypeOK, LookupsAccounted, NEW i \in 0 .. Used - 1
  PROVE  /\ i \in DOMAIN lookup
         /\ lookup[i] \in Word
         /\ i \in 0 .. capacity - 1
BY DEF TypeOK, LookupsAccounted, Used

LEMMA ReverseUsed ==
  ASSUME TypeOK, LookupsAccounted, NEW d \in 0 .. size - 1
  PROVE  reverse[d] \in 0 .. Used - 1
BY DEF TypeOK, LookupsAccounted, Used

LEMMA FreeUsed ==
  ASSUME TypeOK, LookupsAccounted, NEW k \in 1 .. Len(free)
  PROVE  free[k] \in 0 .. Used - 1
BY DEF TypeOK, LookupsAccounted, Used

LEMMA LiveUsed ==
  ASSUME TypeOK, LookupsAccounted, LiveResolve, NEW ref \in DOMAIN live
  PROVE  /\ ref \in Reference
         /\ ref.index \in 0 .. Used - 1
         /\ lookup[ref.index].gen = ref.gen
         /\ lookup[ref.index].index \in 0 .. size - 1
         /\ reverse[lookup[ref.index].index] = ref.index
         /\ data[lookup[ref.index].index] = live[ref]
<1>1. /\ ref \in Reference
      /\ ref.index < Used
      /\ lookup[ref.index].gen = ref.gen
      /\ lookup[ref.index].index < size
      /\ reverse[lookup[ref.index].index] = ref.index
      /\ data[lookup[ref.index].index] = live[ref]
  BY DEF TypeOK, LiveResolve, Accepted, OutOfBounds, WrongGeneration
<1>2. ref.index \in 0 .. Used - 1
  BY <1>1 DEF TypeOK, Used
<1>3. lookup[ref.index] \in Word
  BY <1>2, UsedWord
<1>4. QED
  BY <1>1, <1>2, <1>3 DEF TypeOK

-----------------------------------------------------------------------------
(* Adding an element.  The lookup taken is of no element in the map: either *)
(* the top of the free list or the first one never used.                    *)

LEMMA TakeUnused ==
  ASSUME TypeOK, LookupsAccounted, FreeListIntact, LiveResolve, RetiredRefused,
         size < capacity' \/ free # << >>, capacity <= capacity',
         capacity' \in 0 .. MaxCapacity
  PROVE  /\ TakenLookup \in 0 .. capacity' - 1
         /\ TakenGen \in Generation
         /\ \A d \in 0 .. size - 1 : reverse[d] # TakenLookup
         /\ nextLookup = NPOS <=> free = << >>
         /\ free = << >> => TakenLookup = Used
         /\ free # << >> => /\ TakenLookup = free[Len(free)]
                            /\ TakenLookup < Used
                            /\ TakenGen = lookup[TakenLookup].gen
<1>1. CASE free = << >>
  <2>1. nextLookup = NPOS /\ Len(free) = 0
    BY <1>1 DEF FreeListIntact
  <2>2. TakenLookup = size /\ TakenGen = 0 /\ Used = size
    BY <2>1, TypeFacts DEF TakenLookup, TakenGen
  <2>3. \A d \in 0 .. size - 1 : reverse[d] \in 0 .. Used - 1
    BY ReverseUsed
  <2>4. QED
    BY <1>1, <2>1, <2>2, <2>3, TypeFacts
<1>2. CASE free # << >>
  <2>1. Len(free) \in 1 .. Len(free)
    BY <1>2 DEF TypeOK
  <2>2. free[Len(free)] \in 0 .. Used - 1
    BY <2>1, FreeUsed
  <2>3. nextLookup = free[Len(free)] /\ nextLookup # NPOS
    BY <1>2, <2>1 DEF FreeListIntact, TypeOK
  <2>4. TakenLookup = free[Len(free)] /\ TakenGen = lookup[TakenLookup].gen
    BY <2>3 DEF TakenLookup, TakenGen
  <2>5. /\ TakenLookup \in DOMAIN lookup
        /\ lookup[TakenLookup] \in Word
        /\ TakenLookup \in 0 .. capacity - 1
    BY <2>2, <2>4, UsedWord
  <2>8. TakenLookup \in 0 .. capacity' - 1 /\ TakenGen \in Generation
    BY <2>4, <2>5, TypeFacts
  <2>6. \A d \in 0 .. size - 1 : reverse[d] # TakenLookup
    BY <2>1, <2>4 DEF LookupsAccounted
  <2>7. QED
    BY <1>2, <2>2, <2>3, <2>4, <2>8, <2>6, TypeFacts
<1>3. QED
  BY <1>1, <1>2

LEMMA PlaceInv ==
  ASSUME IInv, NEW v \in Value, memBlock' = memBlock,
         capacity' \in 0 .. MaxCapacity, capacity <= capacity',
         size < capacity', Place(v)
  PROVE  IInv'
<1> DEFINE L == TakenLookup
           r == [index |-> TakenLookup, gen |-> TakenGen]
<1>0. /\ TypeOK
      /\ LookupsAccounted
      /\ ReverseInverts
      /\ FreeListIntact
      /\ LiveResolve
      /\ RetiredRefused
      /\ ElementsHeld
  BY DEF IInv
<1>1. /\ L \in 0 .. capacity' - 1
      /\ TakenGen \in Generation
      /\ \A d \in 0 .. size - 1 : reverse[d] # L
      /\ nextLookup = NPOS <=> free = << >>
      /\ free = << >> => L = Used
      /\ free # << >> => /\ L = free[Len(free)]
                         /\ L < Used
                         /\ TakenGen = lookup[L].gen
  BY <1>0, TakeUnused
<1>2. /\ size \in Nat
      /\ size' = size + 1
      /\ nextLookup' = IF nextLookup # NPOS
                       THEN lookup[nextLookup].index ELSE nextLookup
      /\ ret' = [code |-> "SUCCESS", out |-> r]
  BY <1>0 DEF Place, Returns, TypeOK
<1>3. /\ DOMAIN lookup' = DOMAIN lookup \cup {L}
      /\ lookup'[L] = [index |-> size, gen |-> TakenGen]
      /\ \A i \in DOMAIN lookup : i # L => lookup'[i] = lookup[i]
      /\ lookup' = [i \in DOMAIN lookup' |-> lookup'[i]]
  BY DEF Place
<1>4. /\ reverse' = [d \in 0 .. size |-> reverse'[d]]
      /\ reverse'[size] = L
      /\ \A d \in 0 .. size - 1 : reverse'[d] = reverse[d]
  BY <1>2 DEF Place
<1>5. /\ data' = [d \in 0 .. size |-> data'[d]]
      /\ data'[size] = v
      /\ \A d \in 0 .. size - 1 : data'[d] = data[d]
  BY <1>2 DEF Place
<1>6. /\ r \in Reference
      /\ DOMAIN live' = DOMAIN live \cup {r}
      /\ live'[r] = v
      /\ \A x \in DOMAIN live : x # r => live'[x] = live[x]
      /\ live' = [x \in DOMAIN live' |-> live'[x]]
      /\ retired' = retired
  BY <1>1 DEF Place
<1>7. /\ free' \in Seq(0 .. MaxCapacity - 1)
      /\ free = << >> => free' = << >> /\ Used' = Used + 1
      /\ free # << >> => /\ Len(free') = Len(free) - 1
                         /\ \A k \in 1 .. Len(free) - 1 : free'[k] = free[k]
                         /\ Used' = Used
  <2>1. CASE free = << >>
    BY <1>1, <1>2, <2>1 DEF Place, Used
  <2>2. CASE free # << >>
    <3>1. free' = SubSeq(free, 1, Len(free) - 1)
      BY <1>1, <2>2 DEF Place
    <3>2. free \in Seq(0 .. MaxCapacity - 1)
      BY <1>0 DEF TypeOK
    <3>3. /\ free' \in Seq(0 .. MaxCapacity - 1)
          /\ Len(free) \in Nat \ {0}
          /\ Len(free') = Len(free) - 1
          /\ \A k \in 1 .. Len(free) - 1 : free'[k] = free[k]
      BY <2>2, <3>1, <3>2, FrontProperties
    <3>4. QED
      BY <1>2, <2>2, <3>3 DEF Used
  <2>3. QED
    BY <2>1, <2>2
<1>8. /\ Used \in Nat
      /\ Used' \in Nat
      /\ Used <= Used'
      /\ L < Used'
      /\ Used' <= capacity'
  <2>1. /\ capacity \in 0 .. MaxCapacity
        /\ Used \in Nat
        /\ Used <= capacity
        /\ Len(free) = 0 <=> free = << >>
        /\ Used = size + Len(free)
    BY <1>0, TypeFacts DEF LookupsAccounted
  <2>2. QED
    BY <1>1, <1>2, <1>7, <2>1
<1>9. \A i \in 0 .. Used - 1 : /\ i \in DOMAIN lookup
                               /\ lookup[i] \in Word
                               /\ i \in 0 .. capacity - 1
  BY <1>0, UsedWord
<1>10. \A d \in 0 .. size - 1 : reverse[d] \in 0 .. Used - 1
  BY <1>0, ReverseUsed
<1>11. \A k \in 1 .. Len(free) : free[k] \in 0 .. Used - 1
  BY <1>0, FreeUsed
<1>21. /\ Len(free) \in Nat
       /\ Len(free') \in Nat
       /\ \A k \in 1 .. Len(free') : /\ k \in 1 .. Len(free)
                                    /\ free'[k] = free[k]
                                    /\ free[k] # L
  <2>1. CASE free = << >>
    BY <1>7, <2>1
  <2>2. CASE free # << >>
    <3>1. Len(free) \in Nat \ {0}
      BY <1>0, <2>2, TypeFacts
    <3>2. \A j, k \in 1 .. Len(free) : free[j] = free[k] => j = k
      BY <1>0 DEF FreeListIntact
    <3>3. QED
      BY <1>1, <1>7, <2>2, <3>1, <3>2
  <2>3. QED
    BY <2>1, <2>2
<1>12. TypeOK'
  <2>1. memBlock' \in BOOLEAN
    BY <1>0 DEF TypeOK
  <2>2. /\ lookup' \in [DOMAIN lookup' -> Word]
        /\ DOMAIN lookup' \subseteq 0 .. capacity' - 1
    <3>1. \A i \in DOMAIN lookup' : lookup'[i] \in Word
      <4>1. size \in 0 .. NPOS
        BY <1>2
      <4>2. \A i \in DOMAIN lookup : lookup[i] \in Word
        BY <1>0, TypeFacts
      <4>3. QED
        BY <1>1, <1>3, <4>1, <4>2
    <3>2. DOMAIN lookup \subseteq 0 .. capacity - 1 /\ capacity \in Nat
      BY <1>0, TypeFacts
    <3>3. DOMAIN lookup' \subseteq 0 .. capacity' - 1
      BY <1>1, <1>3, <3>2
    <3>4. QED
      BY <1>3, <3>1, <3>3
  <2>3. /\ reverse' \in [0 .. size' - 1 -> 0 .. MaxCapacity - 1]
        /\ data' \in [0 .. size' - 1 -> Value]
    <3>1. \A d \in 0 .. size - 1 : /\ reverse[d] \in 0 .. MaxCapacity - 1
                                  /\ data[d] \in Value
      BY <1>0 DEF TypeOK
    <3>2. L \in 0 .. MaxCapacity - 1
      <4>1. L \in 0 .. capacity' - 1
        BY <1>1
      <4>2. QED
        BY <4>1, Within
    <3>3. \A d \in 0 .. size : /\ reverse'[d] \in 0 .. MaxCapacity - 1
                              /\ data'[d] \in Value
      BY <1>2, <1>4, <1>5, <3>1, <3>2
    <3>4. QED
      BY <1>2, <1>4, <1>5, <3>3
  <2>4. ret' \in [code : Code, out : Value \cup Reference \cup {None}]
    BY <1>2, <1>6 DEF Code
  <2>5. live' \in [DOMAIN live' -> Value] /\ DOMAIN live' \subseteq Reference
    BY <1>0, <1>6 DEF TypeOK
  <2>6. nextLookup' \in 0 .. NPOS
    <3>1. CASE nextLookup = NPOS
      BY <1>2, <3>1
    <3>2. CASE nextLookup # NPOS
      <4>1. L = nextLookup /\ L \in 0 .. Used - 1
        BY <1>1, <1>8, <3>2 DEF TakenLookup
      <4>2. QED
        BY <1>2, <1>9, <3>2, <4>1
    <3>3. QED
      BY <3>1, <3>2
  <2>7. retired' \subseteq Reference
    BY <1>0, <1>6 DEF TypeOK
  <2>8. size' \in Nat
    BY <1>2
  <2>9. QED
    BY <1>7, <2>1, <2>2, <2>3, <2>4, <2>5, <2>6, <2>7, <2>8 DEF TypeOK
<1>13. LookupsAccounted'
  <2>1. 0 .. Used' - 1 \subseteq DOMAIN lookup'
    <3> SUFFICES ASSUME NEW i \in 0 .. Used' - 1 PROVE i \in DOMAIN lookup'
      OBVIOUS
    <3>1. CASE free = << >>
      <4>1. L = Used /\ Used' = Used + 1 /\ Used \in Nat
        BY <1>1, <1>7, <1>8, <3>1
      <4>2. i \in 0 .. Used - 1 \/ i = L
        BY <4>1
      <4>3. QED
        BY <1>3, <1>9, <4>2
    <3>2. CASE free # << >>
      BY <1>3, <1>7, <1>9, <3>2
    <3>3. QED
      BY <3>1, <3>2
  <2>2. \A d \in 0 .. size : reverse'[d] < Used'
    BY <1>2, <1>4, <1>8, <1>10
  <2>3. \A k \in 1 .. Len(free') : free'[k] < Used' /\ free'[k] # L
    <3>1. \A k \in 1 .. Len(free) : free[k] < Used'
      BY <1>8, <1>11
    <3>2. QED
      BY <1>21, <3>1
  <2>4. \A d \in 0 .. size, k \in 1 .. Len(free') : reverse'[d] # free'[k]
    <3>1. \A d \in 0 .. size - 1, k \in 1 .. Len(free) : reverse[d] # free[k]
      BY <1>0 DEF LookupsAccounted
    <3>2. QED
      BY <1>2, <1>4, <1>21, <2>3, <3>1
  <2>5. 0 .. size' - 1 = 0 .. size
    BY <1>2
  <2>6. capacity' > 0
    BY <1>2
  <2>7. QED
    BY <1>8, <2>1, <2>2, <2>3, <2>4, <2>5, <2>6 DEF LookupsAccounted
<1>14. ReverseInverts'
  <2> SUFFICES ASSUME NEW d \in 0 .. size
               PROVE  lookup'[reverse'[d]].index = d
    BY <1>2 DEF ReverseInverts
  <2>1. CASE d = size
    BY <1>3, <1>4, <2>1
  <2>2. CASE d # size
    <3>1. d \in 0 .. size - 1 /\ reverse'[d] = reverse[d]
      BY <1>2, <1>4, <2>2
    <3>2. lookup'[reverse[d]] = lookup[reverse[d]]
      BY <1>1, <1>3, <1>9, <1>10, <3>1
    <3>3. QED
      BY <1>0, <3>1, <3>2 DEF ReverseInverts
  <2>3. QED
    BY <2>1, <2>2
<1>15. FreeListIntact'
  <2>1. CASE free = << >>
    BY <1>1, <1>7, <2>1 DEF FreeListIntact, Place
  <2>2. CASE free # << >>
    <3>1. /\ Len(free) \in Nat \ {0}
          /\ Len(free') = Len(free) - 1
          /\ free' = << >> <=> Len(free) = 1
      <4>1. Len(free) \in Nat \ {0}
        BY <1>0, <2>2, TypeFacts
      <4>2. Len(free') = Len(free) - 1
        BY <1>7, <2>2
      <4>3. free' = << >> <=> Len(free') = 0
        BY <1>7, EmptySeq
      <4>4. QED
        BY <4>1, <4>2, <4>3
    <3>2. /\ \A j, k \in 1 .. Len(free) : free[j] = free[k] => j = k
          /\ \A k \in 1 .. Len(free) :
               lookup[free[k]].index = IF k = 1 THEN NPOS ELSE free[k - 1]
      BY <1>0 DEF FreeListIntact
    <3>7. nextLookup' = lookup[free[Len(free)]].index
      BY <1>1, <1>2, <2>2 DEF TakenLookup
    <3>3. nextLookup' = IF free' = << >> THEN NPOS ELSE free'[Len(free')]
      BY <1>21, <3>1, <3>2, <3>7
    <3>4. \A k \in 1 .. Len(free') :
            lookup'[free'[k]].index = IF k = 1 THEN NPOS ELSE free'[k - 1]
      <4> SUFFICES ASSUME NEW k \in 1 .. Len(free')
                   PROVE  lookup'[free'[k]].index =
                            IF k = 1 THEN NPOS ELSE free'[k - 1]
        OBVIOUS
      <4>1. /\ k \in 1 .. Len(free)
            /\ free'[k] = free[k]
            /\ k # 1 => free'[k - 1] = free[k - 1]
            /\ free[k] # L
        BY <1>21
      <4>2. lookup'[free[k]] = lookup[free[k]]
        BY <1>3, <1>9, <1>11, <4>1
      <4>3. QED
        BY <3>2, <4>1, <4>2
    <3>5. \A j, k \in 1 .. Len(free') : free'[j] = free'[k] => j = k
      BY <1>21, <3>2
    <3>6. QED
      BY <3>3, <3>4, <3>5 DEF FreeListIntact
  <2>3. QED
    BY <2>1, <2>2
<1>16. ASSUME NEW ref \in DOMAIN live
       PROVE  /\ ref # r
              /\ ref.index \in 0 .. Used - 1
              /\ ref.index # L
              /\ lookup[ref.index].gen = ref.gen
              /\ lookup[ref.index].index \in 0 .. size - 1
              /\ reverse[lookup[ref.index].index] = ref.index
              /\ data[lookup[ref.index].index] = live[ref]
  <2>1. /\ ref.index \in 0 .. Used - 1
        /\ lookup[ref.index].gen = ref.gen
        /\ lookup[ref.index].index \in 0 .. size - 1
        /\ reverse[lookup[ref.index].index] = ref.index
        /\ data[lookup[ref.index].index] = live[ref]
    BY <1>0, LiveUsed
  <2>2. QED
    BY <1>1, <2>1
<1>17. LiveResolve'
  <2> SUFFICES ASSUME NEW ref \in DOMAIN live'
               PROVE  /\ ref.index < Used'
                      /\ ref.index < capacity'
                      /\ lookup'[ref.index].gen = ref.gen
                      /\ lookup'[ref.index].index < size'
                      /\ reverse'[lookup'[ref.index].index] = ref.index
                      /\ data'[lookup'[ref.index].index] = live'[ref]
    BY <1>1, <1>2, <1>8, <1>6, <1>9, <1>16
       DEF LiveResolve, Accepted, OutOfBounds, WrongGeneration, TypeOK
  <2>1. CASE ref = r
    BY <1>1, <1>2, <1>3, <1>4, <1>5, <1>6, <1>8, <2>1
  <2>2. CASE ref # r
    <3>1. ref \in DOMAIN live
      BY <1>6, <2>2
    <3>2. lookup'[ref.index] = lookup[ref.index]
      BY <1>3, <1>9, <1>16, <3>1
    <3> DEFINE d == lookup[ref.index].index
    <3>3. /\ d \in 0 .. size /\ d # size /\ d < size'
          /\ ref.index < Used'
          /\ ref.index < capacity'
      <4>1. d \in 0 .. size - 1 /\ ref.index \in 0 .. Used - 1
        BY <1>16, <3>1
      <4>2. QED
        BY <1>2, <1>8, <1>9, <4>1
    <3>4. reverse'[d] = ref.index
      BY <1>4, <1>16, <3>1, <3>3
    <3>5. data'[d] = live'[ref]
      BY <1>5, <1>6, <1>16, <2>2, <3>1, <3>3
    <3>6. lookup[ref.index].gen = ref.gen
      BY <1>16, <3>1
    <3>7. QED
      BY <3>2, <3>3, <3>4, <3>5, <3>6
  <2>3. QED
    BY <2>1, <2>2
<1>18. RetiredRefused'
  <2> SUFFICES ASSUME NEW ref \in retired
               PROVE  ref.index < Used' /\ lookup'[ref.index].gen # ref.gen
    BY <1>6 DEF RetiredRefused, WrongGeneration
  <2>1. ref.index \in 0 .. Used - 1 /\ lookup[ref.index].gen # ref.gen
    <3>1. ref \in Reference
      BY <1>0 DEF TypeOK
    <3>2. ref.index < Used /\ lookup[ref.index].gen # ref.gen
      BY <1>0 DEF RetiredRefused, WrongGeneration
    <3>3. QED
      BY <1>8, <3>1, <3>2
  <2>2. lookup'[ref.index].gen = lookup[ref.index].gen
    BY <1>1, <1>3, <1>8, <1>9, <2>1
  <2>3. QED
    BY <1>8, <2>1, <2>2
<1>19. ElementsHeld'
  <2> SUFFICES ASSUME NEW d \in 0 .. size
               PROVE  [index |-> reverse'[d], gen |-> lookup'[reverse'[d]].gen]
                        \in DOMAIN live \cup {r}
    <3>1. 0 .. size' - 1 = 0 .. size
      BY <1>2
    <3>2. QED
      BY <1>6, <3>1 DEF ElementsHeld
  <2>1. CASE d = size
    BY <1>3, <1>4, <2>1
  <2>2. CASE d # size
    <3>1. d \in 0 .. size - 1 /\ reverse'[d] = reverse[d]
      BY <1>2, <1>4, <2>2
    <3>2. lookup'[reverse[d]] = lookup[reverse[d]]
      BY <1>1, <1>3, <1>9, <1>10, <3>1
    <3>3. QED
      BY <1>0, <3>1, <3>2 DEF ElementsHeld
  <2>3. QED
    BY <2>1, <2>2
<1>20. QED
  BY <1>12, <1>13, <1>14, <1>15, <1>17, <1>18, <1>19 DEF IInv

-----------------------------------------------------------------------------
(* Removing an element.                                                    *)

LEMMA AcceptedIsLive ==
  ASSUME TypeOK, RetiredRefused, NEW ref \in Held, Accepted(ref)
  PROVE  ref \in DOMAIN live
<1>1. CASE ref = NullReference
  <2>1. ref.index = MaxCapacity /\ capacity \in 0 .. MaxCapacity
    BY <1>1, TypeFacts DEF NullReference
  <2>2. OutOfBounds(ref)
    BY <2>1 DEF OutOfBounds
  <2>3. QED
    BY <2>2 DEF Accepted
<1>2. CASE ref \in retired
  BY <1>2 DEF RetiredRefused, Accepted
<1>3. QED
  BY <1>1, <1>2 DEF Held

LEMMA RemoveInv ==
  ASSUME IInv, NEW ref \in Held, Remove(ref)
  PROVE  IInv'
<1> DEFINE i == ref.index
           hole == lookup[i].index
           moved == reverse[Last]
           gen == NextGen(lookup[i].gen)
           revived == [index |-> i, gen |-> gen]
<1>0. /\ TypeOK
      /\ LookupsAccounted
      /\ ReverseInverts
      /\ FreeListIntact
      /\ LiveResolve
      /\ RetiredRefused
      /\ ElementsHeld
  BY DEF IInv
<1>1. ref \in DOMAIN live
  BY <1>0, AcceptedIsLive DEF Remove
<1>2. /\ ref \in Reference
      /\ i \in 0 .. Used - 1
      /\ lookup[i].gen = ref.gen
      /\ hole \in 0 .. size - 1
      /\ reverse[hole] = i
  BY <1>0, <1>1, LiveUsed
<1>3. /\ size \in Nat
      /\ capacity \in 0 .. MaxCapacity
      /\ Len(free) \in Nat
      /\ Used = size + Len(free)
      /\ Used \in Nat
      /\ Used <= capacity
      /\ size' = size - 1
      /\ Last = size - 1
      /\ Last \in 0 .. size - 1
  BY <1>0, <1>2, TypeFacts DEF Remove, Last, LookupsAccounted
<1>4. \A j \in 0 .. Used - 1 : /\ j \in DOMAIN lookup
                               /\ lookup[j] \in Word
                               /\ j \in 0 .. capacity - 1
  BY <1>0, UsedWord
<1>5. \A d \in 0 .. size - 1 : /\ reverse[d] \in 0 .. Used - 1
                               /\ lookup[reverse[d]].index = d
  BY <1>0, ReverseUsed DEF ReverseInverts
<1>6. /\ gen \in Generation
      /\ revived \in Reference
  BY <1>2, <1>4, NextGenType DEF TypeOK
<1>7. /\ DOMAIN lookup' = DOMAIN lookup
      /\ lookup' = [j \in DOMAIN lookup' |-> lookup'[j]]
      /\ hole # Last => lookup'[moved] = [lookup[moved] EXCEPT !.index = hole]
      /\ lookup'[i] = [index |-> nextLookup, gen |-> gen]
      /\ \A j \in DOMAIN lookup :
           j # i /\ j # moved => lookup'[j] = lookup[j]
  <2>1. /\ i \in DOMAIN lookup
        /\ moved \in DOMAIN lookup
        /\ hole # Last => moved # i
        /\ hole = Last => moved = i
    BY <1>2, <1>3, <1>4, <1>5
  <2>2. lookup' = LookupAfter(i, hole)
    BY DEF Remove
  <2>3. CASE hole = Last
    BY <2>1, <2>2, <2>3 DEF LookupAfter, Freed
  <2>4. CASE hole # Last
    BY <2>1, <2>2, <2>4 DEF LookupAfter, Freed
  <2>5. QED
    BY <2>3, <2>4
<1>8. \A j \in 0 .. Used - 1 : j # i => lookup'[j].gen = lookup[j].gen
  <2>1. CASE hole = Last
    BY <1>2, <1>3, <1>4, <1>5, <1>7, <2>1
  <2>2. CASE hole # Last
    BY <1>4, <1>7, <2>2
  <2>3. QED
    BY <2>1, <2>2
<1>9. /\ reverse' = [d \in 0 .. Last - 1 |-> IF d = hole THEN moved ELSE reverse[d]]
      /\ data' = [d \in 0 .. Last - 1 |-> IF d = hole THEN data[Last] ELSE data[d]]
  BY DEF Remove, Fill
<1>10. \A d \in 0 .. Last - 1 :
         /\ d \in 0 .. size - 1
         /\ reverse'[d] \in 0 .. Used - 1
         /\ reverse'[d] # i
         /\ reverse'[d] = IF d = hole THEN moved ELSE reverse[d]
         /\ data'[d] = IF d = hole THEN data[Last] ELSE data[d]
  <2> SUFFICES ASSUME NEW d \in 0 .. Last - 1
               PROVE  /\ d \in 0 .. size - 1
                      /\ reverse'[d] \in 0 .. Used - 1
                      /\ reverse'[d] # i
                      /\ reverse'[d] = IF d = hole THEN moved ELSE reverse[d]
                      /\ data'[d] = IF d = hole THEN data[Last] ELSE data[d]
    OBVIOUS
  <2>1. d \in 0 .. size - 1 /\ d # Last
    BY <1>3
  <2>2. /\ reverse'[d] = IF d = hole THEN moved ELSE reverse[d]
        /\ data'[d] = IF d = hole THEN data[Last] ELSE data[d]
    BY <1>9
  <2>3. CASE d = hole
    BY <1>2, <1>3, <1>5, <2>1, <2>2, <2>3
  <2>4. CASE d # hole
    BY <1>2, <1>3, <1>5, <2>1, <2>2, <2>4
  <2>5. QED
    BY <2>1, <2>2, <2>3, <2>4
<1>11. /\ free' \in Seq(0 .. MaxCapacity - 1)
       /\ Len(free') = Len(free) + 1
       /\ \A k \in 1 .. Len(free) : free'[k] = free[k]
       /\ free'[Len(free) + 1] = i
       /\ free' # << >>
       /\ Used' = Used
  <2>1. free \in Seq(0 .. MaxCapacity - 1) /\ i \in 0 .. MaxCapacity - 1
    <3>1. i \in 0 .. capacity - 1
      BY <1>2, <1>4
    <3>2. QED
      BY <1>0, <1>3, <3>1, Within DEF TypeOK
  <2>2. free' = Append(free, i)
    BY DEF Remove
  <2>3. /\ free' \in Seq(0 .. MaxCapacity - 1)
        /\ Len(free') = Len(free) + 1
        /\ \A k \in 1 .. Len(free) : free'[k] = free[k]
        /\ free'[Len(free) + 1] = i
        /\ free' # << >>
    BY <2>1, <2>2, AppendProperties
  <2>4. QED
    BY <1>3, <2>3 DEF Used
<1>12. \A k \in 1 .. Len(free) : /\ free[k] \in 0 .. Used - 1
                                 /\ free[k] # i
                                 /\ free[k] # moved
                                 /\ lookup'[free[k]] = lookup[free[k]]
  <2>1. \A k \in 1 .. Len(free) : free[k] \in 0 .. Used - 1
    BY <1>0, FreeUsed
  <2>2. \A d \in 0 .. size - 1, k \in 1 .. Len(free) : reverse[d] # free[k]
    BY <1>0 DEF LookupsAccounted
  <2> SUFFICES ASSUME NEW k \in 1 .. Len(free)
               PROVE  /\ free[k] \in 0 .. Used - 1
                      /\ free[k] # i
                      /\ free[k] # moved
                      /\ lookup'[free[k]] = lookup[free[k]]
    OBVIOUS
  <2>3. free[k] # i /\ free[k] # moved
    BY <1>2, <1>3, <2>2
  <2>4. free[k] \in DOMAIN lookup
    BY <1>4, <2>1
  <2>5. lookup'[free[k]] = lookup[free[k]]
    BY <1>7, <2>3, <2>4
  <2>6. QED
    BY <2>1, <2>3, <2>5
<1>13. TypeOK'
  <2>1. memBlock' \in BOOLEAN
    BY <1>0 DEF TypeOK, Remove
  <2>2. size' \in Nat
    BY <1>3
  <2>3. capacity' \in 0 .. MaxCapacity
    BY <1>3 DEF Remove
  <2>4. nextLookup' \in 0 .. NPOS
    <3>1. nextLookup' = i /\ i \in 0 .. capacity - 1
      BY <1>2, <1>4 DEF Remove
    <3>2. QED
      BY <1>3, <3>1, Within
  <2>5. lookup' \in [DOMAIN lookup' -> Word]
    <3> SUFFICES ASSUME NEW j \in DOMAIN lookup
                 PROVE  lookup'[j] \in Word
      BY <1>7
    <3>1. lookup[j] \in Word /\ hole \in 0 .. NPOS /\ nextLookup \in 0 .. NPOS
      BY <1>0, <1>2, <1>4, TypeFacts DEF TypeOK
    <3>2. CASE j = i
      BY <1>6, <1>7, <3>1, <3>2
    <3>3. CASE j # i /\ j = moved
      <4>1. hole # Last
        BY <1>2, <3>3
      <4>2. QED
        BY <1>7, <3>1, <3>3, <4>1
    <3>4. CASE j # i /\ j # moved
      BY <1>7, <3>1, <3>4
    <3>5. QED
      BY <3>2, <3>3, <3>4
  <2>6. DOMAIN lookup' \subseteq 0 .. capacity' - 1
    BY <1>0, <1>7 DEF TypeOK, Remove
  <2>7. /\ reverse' \in [0 .. size' - 1 -> 0 .. MaxCapacity - 1]
        /\ data' \in [0 .. size' - 1 -> Value]
    <3>1. \A d \in 0 .. size - 1 : /\ reverse[d] \in 0 .. MaxCapacity - 1
                                  /\ data[d] \in Value
      BY <1>0 DEF TypeOK
    <3>2. \A d \in 0 .. Last - 1 : /\ reverse'[d] \in 0 .. MaxCapacity - 1
                                  /\ data'[d] \in Value
      BY <1>3, <1>10, <3>1
    <3>3. size' = Last
      BY <1>3
    <3>4. QED
      BY <1>9, <3>2, <3>3
  <2>8. ret' \in [code : Code, out : Value \cup Reference \cup {None}]
    BY DEF Remove, Returns, Code
  <2>9. /\ live' \in [DOMAIN live' -> Value]
        /\ DOMAIN live' \subseteq Reference
        /\ retired' \subseteq Reference
    BY <1>0, <1>2 DEF TypeOK, Remove
  <2>10. QED
    BY <1>11, <2>1, <2>2, <2>3, <2>4, <2>5, <2>6, <2>7, <2>8, <2>9 DEF TypeOK
<1>14. LookupsAccounted'
  <2>1. capacity' = capacity
    BY DEF Remove
  <2>2. 0 .. Used' - 1 \subseteq DOMAIN lookup'
    BY <1>4, <1>7, <1>11
  <2>3. \A d \in 0 .. size' - 1 : reverse'[d] < Used' /\ reverse'[d] # i
    BY <1>3, <1>10, <1>11
  <2>4. \A k \in 1 .. Len(free') : \/ k \in 1 .. Len(free) /\ free'[k] = free[k]
                                   \/ free'[k] = i
    BY <1>3, <1>11
  <2>5. \A k \in 1 .. Len(free') : free'[k] < Used'
    <3>1. i < Used'
      BY <1>2, <1>3, <1>11
    <3>2. ASSUME NEW k \in 1 .. Len(free) PROVE free[k] < Used'
      <4>1. free[k] \in 0 .. Used - 1
        BY <1>12
      <4>2. QED
        BY <1>3, <1>11, <4>1
    <3>3. QED
      BY <2>4, <3>1, <3>2
  <2>6. \A d \in 0 .. size' - 1, k \in 1 .. Len(free') : reverse'[d] # free'[k]
    <3> SUFFICES ASSUME NEW d \in 0 .. size' - 1, NEW k \in 1 .. Len(free')
                 PROVE  reverse'[d] # free'[k]
      OBVIOUS
    <3>1. d \in 0 .. Last - 1
      BY <1>3
    <3>2. \A e \in 0 .. size - 1, m \in 1 .. Len(free) : reverse[e] # free[m]
      BY <1>0 DEF LookupsAccounted
    <3>3. \E e \in 0 .. size - 1 : reverse'[d] = reverse[e]
      BY <1>3, <1>10, <3>1
    <3>4. QED
      BY <2>3, <2>4, <3>2, <3>3
  <2>7. memBlock' => capacity' > 0
    BY <1>0, <2>1 DEF LookupsAccounted, Remove
  <2>8. QED
    BY <1>3, <1>11, <2>1, <2>2, <2>3, <2>5, <2>6, <2>7 DEF LookupsAccounted
<1>15. ReverseInverts'
  <2> SUFFICES ASSUME NEW d \in 0 .. Last - 1
               PROVE  lookup'[reverse'[d]].index = d
    BY <1>3 DEF ReverseInverts
  <2>1. /\ d \in 0 .. size - 1
        /\ d # Last
    BY <1>3
  <2>2. CASE d = hole
    <3>1. reverse'[d] = moved /\ hole # Last
      BY <1>10, <2>1, <2>2
    <3>2. lookup[moved] \in Word
      BY <1>3, <1>4, <1>5
    <3>3. QED
      BY <1>7, <2>2, <3>1, <3>2
  <2>3. CASE d # hole
    <3>1. /\ reverse'[d] = reverse[d]
          /\ reverse[d] # i
          /\ reverse[d] # moved
      BY <1>3, <1>5, <1>10, <2>1, <2>3
    <3>2. lookup'[reverse[d]] = lookup[reverse[d]]
      BY <1>4, <1>5, <1>7, <2>1, <3>1
    <3>3. QED
      BY <1>5, <2>1, <3>1, <3>2
  <2>4. QED
    BY <2>2, <2>3
<1>16. FreeListIntact'
  <2>1. nextLookup' = i /\ i = free'[Len(free')]
    BY <1>11 DEF Remove
  <2>2. /\ nextLookup = IF free = << >> THEN NPOS ELSE free[Len(free)]
        /\ \A k \in 1 .. Len(free) :
             lookup[free[k]].index = IF k = 1 THEN NPOS ELSE free[k - 1]
        /\ \A j, k \in 1 .. Len(free) : free[j] = free[k] => j = k
    BY <1>0 DEF FreeListIntact
  <2>3. free = << >> <=> Len(free) = 0
    BY <1>0, TypeFacts
  <2>4. \A k \in 1 .. Len(free') :
          lookup'[free'[k]].index = IF k = 1 THEN NPOS ELSE free'[k - 1]
    <3> SUFFICES ASSUME NEW k \in 1 .. Len(free')
                 PROVE  lookup'[free'[k]].index =
                          IF k = 1 THEN NPOS ELSE free'[k - 1]
      OBVIOUS
    <3>1. CASE k \in 1 .. Len(free)
      <4>1. k # 1 => k - 1 \in 1 .. Len(free)
        BY <1>3, <3>1
      <4>2. /\ free'[k] = free[k]
            /\ lookup'[free[k]] = lookup[free[k]]
            /\ k # 1 => free'[k - 1] = free[k - 1]
        BY <1>11, <1>12, <3>1, <4>1
      <4>3. QED
        BY <2>2, <3>1, <4>2
    <3>2. CASE k = Len(free) + 1
      <4>1. lookup'[free'[k]].index = nextLookup
        BY <1>7, <1>11, <3>2
      <4>2. CASE free = << >>
        BY <2>2, <2>3, <3>2, <4>1, <4>2
      <4>3. CASE free # << >>
        <5>1. Len(free) \in 1 .. Len(free) /\ k # 1 /\ k - 1 = Len(free)
          BY <1>3, <2>3, <3>2, <4>3
        <5>2. QED
          BY <1>11, <2>2, <4>1, <4>3, <5>1
      <4>4. QED
        BY <4>2, <4>3
    <3>3. QED
      BY <1>3, <1>11, <3>1, <3>2
  <2>5. \A j, k \in 1 .. Len(free') : free'[j] = free'[k] => j = k
    <3>1. \A k \in 1 .. Len(free') : \/ /\ k \in 1 .. Len(free)
                                        /\ free'[k] = free[k]
                                        /\ free[k] # i
                                     \/ /\ k = Len(free) + 1
                                        /\ free'[k] = i
      BY <1>3, <1>11, <1>12
    <3>2. QED
      BY <2>2, <3>1
  <2>6. QED
    BY <1>11, <2>1, <2>4, <2>5 DEF FreeListIntact
<1>17. LiveResolve'
  <2>1. /\ DOMAIN live' = DOMAIN live \ {ref}
        /\ \A x \in DOMAIN live \ {ref} : live'[x] = live[x]
        /\ capacity' = capacity
    BY DEF Remove
  <2> SUFFICES ASSUME NEW x \in DOMAIN live \ {ref}
               PROVE  /\ x.index < Used
                      /\ x.index < capacity
                      /\ x.index \in Nat
                      /\ lookup'[x.index].gen = x.gen
                      /\ lookup'[x.index].index < Last
                      /\ reverse'[lookup'[x.index].index] = x.index
                      /\ data'[lookup'[x.index].index] = live[x]
    BY <1>3, <1>11, <2>1 DEF LiveResolve, Accepted, OutOfBounds, WrongGeneration
  <2> DEFINE d == lookup[x.index].index
  <2>2. /\ x \in Reference
        /\ x.index \in 0 .. Used - 1
        /\ lookup[x.index].gen = x.gen
        /\ d \in 0 .. size - 1
        /\ reverse[d] = x.index
        /\ data[d] = live[x]
    BY <1>0, LiveUsed
  <2>3. x.index # i
    BY <1>2, <2>2
  <2>4. d # hole
    BY <1>2, <2>2, <2>3
  <2>5. lookup'[x.index].gen = x.gen
    BY <1>8, <2>2, <2>3
  <2>6. CASE d = Last
    <3>1. x.index = moved /\ hole # Last /\ lookup[moved] \in Word
      BY <1>4, <2>2, <2>4, <2>6
    <3>2. lookup'[x.index].index = hole
      BY <1>7, <3>1
    <3>3. hole \in 0 .. Last - 1
      BY <1>2, <1>3, <3>1, NotTheLast
    <3>4. /\ reverse'[hole] = moved
          /\ data'[hole] = data[Last]
      BY <1>10, <3>3
    <3>5. /\ x.index \in Nat
          /\ x.index < Used
          /\ x.index < capacity
      BY <1>3, <2>2
    <3>6. hole < Last
      BY <1>3, <3>3
    <3>7. reverse'[lookup'[x.index].index] = x.index
      BY <3>1, <3>2, <3>4
    <3>8. data'[lookup'[x.index].index] = live[x]
      BY <2>2, <2>6, <3>2, <3>4
    <3>9. QED
      BY <2>5, <3>2, <3>5, <3>6, <3>7, <3>8
  <2>7. CASE d # Last
    <3>1. d \in 0 .. Last - 1 /\ x.index # moved
      BY <1>3, <1>5, <2>2, <2>7
    <3>2. lookup'[x.index] = lookup[x.index]
      BY <1>4, <1>7, <2>2, <2>3, <3>1
    <3>3. QED
      BY <1>3, <1>4, <1>10, <2>2, <2>4, <2>5, <3>1, <3>2
  <2>8. QED
    BY <2>6, <2>7
<1>18. RetiredRefused'
  <2>1. retired' = (retired \cup {ref}) \ {revived}
    BY DEF Remove
  <2> SUFFICES ASSUME NEW x \in (retired \cup {ref}) \ {revived}
               PROVE  x.index < Used /\ lookup'[x.index].gen # x.gen
    BY <1>11, <2>1 DEF RetiredRefused, WrongGeneration
  <2>2. x \in Reference
    BY <1>0, <1>2 DEF TypeOK
  <2>3. CASE x.index = i
    <3>1. x.gen # gen
      BY <2>2, <2>3
    <3>2. lookup'[x.index].gen = gen
      BY <1>7, <2>3
    <3>3. x.index < Used
      BY <1>2, <1>3, <2>3
    <3>4. QED
      BY <3>1, <3>2, <3>3
  <2>4. CASE x.index # i
    <3>1. x.index < Used /\ lookup[x.index].gen # x.gen
      BY <1>0, <2>4 DEF RetiredRefused, WrongGeneration
    <3>2. x.index \in 0 .. Used - 1
      BY <1>3, <2>2, <3>1
    <3>3. QED
      BY <1>8, <2>4, <3>1, <3>2
  <2>5. QED
    BY <2>3, <2>4
<1>19. ElementsHeld'
  <2>1. DOMAIN live' = DOMAIN live \ {ref} /\ size' - 1 = Last - 1
    BY <1>3 DEF Remove
  <2> SUFFICES ASSUME NEW d \in 0 .. Last - 1
               PROVE  [index |-> reverse'[d], gen |-> lookup'[reverse'[d]].gen]
                        \in DOMAIN live \ {ref}
    BY <2>1 DEF ElementsHeld
  <2>2. /\ reverse'[d] \in 0 .. Used - 1
        /\ reverse'[d] # i
        /\ \E e \in 0 .. size - 1 : reverse'[d] = reverse[e]
    BY <1>3, <1>10
  <2>3. lookup'[reverse'[d]].gen = lookup[reverse'[d]].gen
    BY <1>8, <2>2
  <2>4. QED
    BY <1>0, <2>2, <2>3 DEF ElementsHeld
<1>20. QED
  BY <1>13, <1>14, <1>15, <1>16, <1>17, <1>18, <1>19 DEF IInv

-----------------------------------------------------------------------------
(* The invariant.                                                          *)

LEMMA UnchangedInv ==
  ASSUME IInv, UNCHANGED <<memBlock, header, history>>,
         ret' \in [code : Code, out : Value \cup Reference \cup {None}]
  PROVE  IInv'
<1>1. TypeOK'
  BY DEF IInv, TypeOK, header, history
<1>2. LookupsAccounted' /\ ReverseInverts' /\ FreeListIntact'
  BY DEF IInv, LookupsAccounted, ReverseInverts, FreeListIntact, Used,
         header, history
<1>3. LiveResolve' /\ RetiredRefused' /\ ElementsHeld'
  BY DEF IInv, LiveResolve, RetiredRefused, ElementsHeld, Accepted,
         OutOfBounds, WrongGeneration, Used, header, history
<1>4. QED
  BY <1>1, <1>2, <1>3 DEF IInv

LEMMA GetFinds ==
  ASSUME IInv, NEW ref \in Held, Get(ref)
  PROVE  /\ ref \in DOMAIN live
         /\ ret' = [code |-> "SUCCESS", out |-> live[ref]]
<1>1. ref \in DOMAIN live
  BY AcceptedIsLive DEF IInv, Get
<1>2. data[lookup[ref.index].index] = live[ref]
  BY <1>1 DEF IInv, LiveResolve
<1>3. QED
  BY <1>1, <1>2 DEF Get, Returns

(* A larger block changes the capacity alone.                              *)
LEMMA ReserveInv ==
  ASSUME IInv, NEW n \in AskedCapacity, Reserve(n)
  PROVE  IInv'
<1>1. CASE /\ Returns("CAPACITY_TOO_SMALL", None)
           /\ UNCHANGED <<memBlock, header, history>>
  BY <1>1, UnchangedInv DEF Returns, Code
<1>2. CASE FailAllocation
  BY <1>2, NoBlockInv DEF FailAllocation
<1>3. CASE /\ n >= capacity
           /\ CanAllocate(n)
           /\ capacity' = n
           /\ Returns("SUCCESS", None)
           /\ UNCHANGED <<memBlock, size, nextLookup, lookup, reverse, data,
                          history>>
  <2>1. n \in 0 .. MaxCapacity
    BY <1>3 DEF AskedCapacity, CanAllocate
  <2>2. capacity \in 0 .. MaxCapacity /\ capacity <= capacity'
    BY <1>3, <2>1 DEF IInv, TypeOK
  <2>3. DOMAIN lookup \subseteq 0 .. capacity' - 1
    BY <1>3, <2>1, <2>2 DEF IInv, TypeOK
  <2>4. ret' \in [code : Code, out : Value \cup Reference \cup {None}]
    BY <1>3 DEF Returns, Code
  <2>5. TypeOK'
    BY <1>3, <2>1, <2>3, <2>4 DEF IInv, TypeOK, history
  <2>6. /\ Used' = Used
        /\ Used \in Nat
        /\ Used <= capacity
    BY <1>3, TypeFacts DEF IInv, Used, history, LookupsAccounted
  <2>7. LookupsAccounted'
    <3>1. memBlock' => capacity' > 0
      BY <1>3, <2>1, <2>2 DEF IInv, LookupsAccounted
    <3>2. Used' <= capacity'
      BY <1>3, <2>1, <2>2, <2>6
    <3>3. QED
      BY <1>3, <2>6, <3>1, <3>2 DEF IInv, LookupsAccounted, history
  <2>8. ReverseInverts' /\ FreeListIntact' /\ RetiredRefused' /\ ElementsHeld'
    BY <1>3, <2>6 DEF IInv, ReverseInverts, FreeListIntact, RetiredRefused,
                      ElementsHeld, WrongGeneration, history
  <2>9. LiveResolve'
    <3> SUFFICES ASSUME NEW ref \in DOMAIN live
                 PROVE  /\ ref.index < Used
                        /\ ~(ref.index >= capacity')
                        /\ lookup[ref.index].gen = ref.gen
                        /\ lookup[ref.index].index < size
                        /\ reverse[lookup[ref.index].index] = ref.index
                        /\ data[lookup[ref.index].index] = live[ref]
      BY <1>3, <2>6 DEF LiveResolve, Accepted, OutOfBounds, WrongGeneration, history
    <3>1. /\ ref.index \in 0 .. Used - 1
          /\ lookup[ref.index].gen = ref.gen
          /\ lookup[ref.index].index \in 0 .. size - 1
          /\ reverse[lookup[ref.index].index] = ref.index
          /\ data[lookup[ref.index].index] = live[ref]
      BY LiveUsed DEF IInv
    <3>2. size \in Nat /\ capacity' \in Nat
      BY <2>1, <1>3 DEF IInv, TypeOK
    <3>3. QED
      BY <2>2, <2>6, <3>1, <3>2
  <2>10. QED
    BY <2>5, <2>7, <2>8, <2>9 DEF IInv
<1>4. QED
  BY <1>1, <1>2, <1>3 DEF Reserve

LEMMA AddInv ==
  ASSUME IInv, NEW v \in Value, AddInPlace(v) \/ AddGrowing(v)
  PROVE  IInv'
<1>0. /\ capacity \in 0 .. MaxCapacity
      /\ size \in Nat
      /\ size <= capacity
      /\ memBlock => capacity > 0
  BY TypeFacts DEF IInv, LookupsAccounted
<1>1. CASE AddInPlace(v)
  BY <1>0, <1>1, PlaceInv DEF AddInPlace
<1>2. CASE AddGrowing(v) /\ FailAllocation
  BY <1>2, NoBlockInv DEF FailAllocation
<1>3. CASE /\ memBlock
           /\ size >= capacity
           /\ CanAllocate(capacity * 2)
           /\ capacity' = capacity * 2
           /\ memBlock' = memBlock
           /\ Place(v)
  <2>1. size < capacity * 2
    BY <1>0, <1>3
  <2>2. capacity' \in 0 .. MaxCapacity /\ capacity <= capacity'
    BY <1>0, <1>3 DEF CanAllocate
  <2>3. QED
    BY <1>0, <1>3, <2>1, <2>2, PlaceInv
<1>4. QED
  BY <1>1, <1>2, <1>3 DEF AddGrowing

LEMMA ConstructInv ==
  ASSUME IInv, NEW n \in AskedCapacity, ConstructSize(n)
  PROVE  IInv'
<1> DEFINE c == IF n = 0 THEN DefaultCapacity ELSE n
<1>1. CASE FailAllocation
  BY <1>1, NoBlockInv DEF FailAllocation
<1>2. CASE /\ CanAllocate(c)
           /\ memBlock' = TRUE
           /\ capacity' = c
           /\ lookup' = [i \in {} |-> NullReference]
           /\ EmptyMap
           /\ Returns("SUCCESS", None)
  <2>1. c \in 1 .. MaxCapacity
    BY <1>2 DEF CanAllocate, AskedCapacity
  <2>2. /\ capacity' \in 0 .. MaxCapacity
        /\ memBlock' => capacity' > 0
    BY <1>2, <2>1
  <2>3. /\ lookup' \in [DOMAIN lookup' -> Word]
        /\ DOMAIN lookup' \subseteq 0 .. capacity' - 1
    BY <1>2
  <2>4. memBlock' \in BOOLEAN
    BY <1>2
  <2>5. QED
    BY <1>2, <2>2, <2>3, <2>4, EmptyMapInv
<1>3. QED
  BY <1>1, <1>2 DEF ConstructSize

LEMMA ClearInv ==
  ASSUME IInv, Clear
  PROVE  IInv'
<1>1. /\ memBlock' \in BOOLEAN
      /\ capacity' \in 0 .. MaxCapacity
      /\ lookup' \in [DOMAIN lookup' -> Word]
      /\ DOMAIN lookup' \subseteq 0 .. capacity' - 1
  BY DEF IInv, TypeOK, Clear
<1>2. memBlock' => capacity' > 0
  BY DEF IInv, LookupsAccounted, Clear
<1>3. QED
  BY <1>1, <1>2, EmptyMapInv DEF Clear

LEMMA NextInv == IInv /\ [Next]_vars => IInv'
<1> SUFFICES ASSUME IInv, [Next]_vars PROVE IInv'
  OBVIOUS
<1>1. ASSUME NEW n \in AskedCapacity, ConstructSize(n) PROVE IInv'
  BY <1>1, ConstructInv
<1>2. ASSUME NEW n \in AskedCapacity, Reserve(n) PROVE IInv'
  BY <1>2, ReserveInv
<1>3. CASE Destroy
  BY <1>3, NoBlockInv DEF Destroy
<1>4. CASE ShrinkToFit
  BY <1>4, UnchangedInv DEF ShrinkToFit, Returns, Code
<1>5. CASE Clear
  BY <1>5, ClearInv
<1>6. ASSUME NEW v \in Value, AddInPlace(v) \/ AddGrowing(v) PROVE IInv'
  BY <1>6, AddInv
<1>7. ASSUME NEW ref \in Held, Remove(ref) PROVE IInv'
  BY <1>7, RemoveInv
<1>8. ASSUME NEW ref \in Held, Get(ref) PROVE IInv'
  <2>1. live[ref] \in Value /\ ret' = [code |-> "SUCCESS", out |-> live[ref]]
    BY <1>8, GetFinds DEF IInv, TypeOK
  <2>2. UNCHANGED <<memBlock, header, history>>
    BY <1>8 DEF Get
  <2>3. QED
    BY <2>1, <2>2, UnchangedInv DEF Code
<1>9. ASSUME NEW ref \in Held, Refuse(ref) PROVE IInv'
  BY <1>9, UnchangedInv DEF Refuse, Returns, Code
<1>10. CASE UNCHANGED vars
  BY <1>10, UnchangedInv DEF vars, IInv, TypeOK
<1>11. QED
  BY <1>1, <1>2, <1>3, <1>4, <1>5, <1>6, <1>7, <1>8, <1>9, <1>10 DEF Next

LEMMA InitInv == Init => IInv
<1> SUFFICES ASSUME Init PROVE IInv
  OBVIOUS
<1>1. TypeOK
  <2>1. memBlock \in BOOLEAN
    BY DEF Init
  <2>2. size \in Nat /\ capacity \in 0 .. MaxCapacity /\ nextLookup \in 0 .. NPOS
    BY DEF Init
  <2>3. /\ lookup \in [DOMAIN lookup -> Word]
        /\ DOMAIN lookup \subseteq 0 .. capacity - 1
    BY DEF Init
  <2>4. /\ reverse \in [0 .. size - 1 -> 0 .. MaxCapacity - 1]
        /\ data \in [0 .. size - 1 -> Value]
    BY DEF Init
  <2>5. ret \in [code : Code, out : Value \cup Reference \cup {None}]
    BY DEF Init, Code
  <2>6. /\ live \in [DOMAIN live -> Value]
        /\ DOMAIN live \subseteq Reference
        /\ retired \subseteq Reference
        /\ free \in Seq(0 .. MaxCapacity - 1)
    BY DEF Init, NoElements
  <2>7. QED
    BY <2>1, <2>2, <2>3, <2>4, <2>5, <2>6 DEF TypeOK
<1>2. LookupsAccounted /\ ReverseInverts /\ FreeListIntact
  BY DEF Init, LookupsAccounted, ReverseInverts, FreeListIntact, Used
<1>3. LiveResolve /\ RetiredRefused /\ ElementsHeld
  BY DEF Init, NoElements, LiveResolve, RetiredRefused, ElementsHeld
<1>4. QED
  BY <1>1, <1>2, <1>3 DEF IInv

(***************************************************************************)
(* The inductive invariant holds of every behaviour of slot_map.c, with    *)
(* any capacities, elements and number of generations.                     *)
(***************************************************************************)
THEOREM Invariance == Spec => []IInv
<1>1. IInv /\ [Next]_vars => IInv'
  BY NextInv
<1>2. QED
  BY InitInv, <1>1, PTL DEF Spec

\* The arrays of the slot map keep their types and bounds.
THEOREM TypeCorrect == Spec => []TypeOK
<1>1. IInv => TypeOK
  BY DEF IInv
<1>2. QED
  BY Invariance, <1>1, PTL

\* A reference in force always finds the element it was issued for.
THEOREM ReferencesResolve == Spec => []LiveResolve
<1>1. IInv => LiveResolve
  BY DEF IInv
<1>2. QED
  BY Invariance, <1>1, PTL

\* A reference to a removed element is always refused.
THEOREM StaleRefused == Spec => []RetiredRefused
<1>1. IInv => RetiredRefused
  BY DEF IInv
<1>2. QED
  BY Invariance, <1>1, PTL

\* Every lookup in use is one element's or on the free list, never both, and
\* the lookup array has room for all of them.
THEOREM LookupsShared == Spec => []LookupsAccounted
<1>1. IInv => LookupsAccounted
  BY DEF IInv
<1>2. QED
  BY Invariance, <1>1, PTL

\* The reverse list always leads to the word that leads back.
THEOREM ReverseCorrect == Spec => []ReverseInverts
<1>1. IInv => ReverseInverts
  BY DEF IInv
<1>2. QED
  BY Invariance, <1>1, PTL

\* The chain of next fields always spells the free list.
THEOREM FreeListCorrect == Spec => []FreeListIntact
<1>1. IInv => FreeListIntact
  BY DEF IInv
<1>2. QED
  BY Invariance, <1>1, PTL

-----------------------------------------------------------------------------
(* The slot map implements the handle map.                                 *)

\* The reference an add hands out is not one the client still holds.
LEMMA FreshReference ==
  ASSUME IInv, size < capacity' \/ free # << >>, capacity <= capacity',
         capacity' \in 0 .. MaxCapacity
  PROVE  [index |-> TakenLookup, gen |-> TakenGen]
           \in Reference \ (DOMAIN live \cup retired)
<1> DEFINE L == TakenLookup
           r == [index |-> TakenLookup, gen |-> TakenGen]
<1>1. /\ L \in 0 .. capacity' - 1
      /\ TakenGen \in Generation
      /\ \A d \in 0 .. size - 1 : reverse[d] # L
      /\ free = << >> => L = Used
      /\ free # << >> => TakenGen = lookup[L].gen
  BY TakeUnused DEF IInv
<1>2. r \in Reference
  <2>1. MaxCapacity \in Nat
    BY SlotMapAssumption
  <2>2. L \in 0 .. NPOS
    BY <1>1, <2>1, WithinClosed DEF NPOS
  <2>3. QED
    BY <1>1, <2>2 DEF Reference
<1>3. ASSUME r \in DOMAIN live PROVE FALSE
  <2>1. /\ lookup[r.index].index \in 0 .. size - 1
        /\ reverse[lookup[r.index].index] = r.index
    BY <1>3, LiveUsed DEF IInv
  <2>2. QED
    BY <1>1, <2>1
<1>4. ASSUME r \in retired PROVE FALSE
  <2>1. L < Used /\ lookup[L].gen # TakenGen
    BY <1>4 DEF IInv, RetiredRefused, WrongGeneration
  <2>2. Used \in Nat
    BY TypeFacts DEF IInv
  <2>3. QED
    BY <1>1, <2>1, <2>2
<1>5. QED
  BY <1>2, <1>3, <1>4

LEMMA PlaceRefines ==
  ASSUME IInv, NEW v \in Value, memBlock, memBlock' = memBlock, Place(v),
         capacity' \in 0 .. MaxCapacity, capacity <= capacity',
         size < capacity'
  PROVE  Handles!Add(v)
<1> DEFINE r == [index |-> TakenLookup, gen |-> TakenGen]
<1>1. r \in Reference \ (DOMAIN live \cup retired)
  BY FreshReference
<1>2. /\ live' = [x \in DOMAIN live \cup {r} |-> IF x = r THEN v ELSE live[x]]
      /\ ret' = [code |-> "SUCCESS", out |-> r]
      /\ retired' = retired
  BY DEF Place, Returns
<1>3. QED
  BY <1>1, <1>2 DEF Handles!Add, Handles!Returns

LEMMA RemoveRefines ==
  ASSUME IInv, NEW ref \in Held, Remove(ref)
  PROVE  Handles!Remove(ref)
<1> DEFINE revived == [index |-> ref.index, gen |-> NextGen(lookup[ref.index].gen)]
<1>1. ref \in DOMAIN live
  BY AcceptedIsLive DEF IInv, Remove
<1>2. /\ memBlock
      /\ memBlock' = memBlock
      /\ live' = [x \in DOMAIN live \ {ref} |-> live[x]]
      /\ retired' = (retired \cup {ref}) \ {revived}
      /\ ret' = [code |-> "SUCCESS", out |-> None]
  BY DEF Remove, Returns
<1>3. \/ retired' = retired \cup {ref}
      \/ \E old \in retired \cup {ref} : retired' = (retired \cup {ref}) \ {old}
  BY <1>2
<1>4. QED
  BY <1>1, <1>2, <1>3 DEF Handles!Remove, Handles!Returns

LEMMA RefuseRefines ==
  ASSUME IInv, NEW ref \in Held, Refuse(ref)
  PROVE  Handles!NoEffect \/ Handles!Reject(ref)
<1>1. memBlock /\ UNCHANGED <<memBlock, live, retired>>
  BY DEF Refuse, history
<1>2. CASE Returns("INDEX_OUT_OF_BOUNDS", None)
  BY <1>1, <1>2 DEF Handles!NoEffect, Handles!Returns, Returns
<1>3. CASE /\ ~OutOfBounds(ref)
           /\ WrongGeneration(ref)
           /\ Returns("INCORRECT_GENERATION", None)
  <2>1. ref \notin DOMAIN live
    BY <1>3 DEF IInv, LiveResolve, Accepted
  <2>2. ref # NullReference
    <3>1. ref.index < capacity \/ ref.index \notin Nat
      <4>1. capacity \in Nat
        BY TypeFacts DEF IInv
      <4>2. QED
        BY <1>3, <4>1 DEF OutOfBounds
    <3>2. NullReference.index = MaxCapacity /\ capacity \in 0 .. MaxCapacity
      BY TypeFacts DEF IInv, NullReference
    <3>3. QED
      BY <3>1, <3>2
  <2>3. ref \in retired
    BY <2>1, <2>2 DEF Held
  <2>4. QED
    BY <1>1, <1>3, <2>3 DEF Handles!Reject, Handles!Returns, Returns
<1>4. QED
  BY <1>2, <1>3 DEF Refuse

LEMMA LoseRefines ==
  ASSUME FailAllocation
  PROVE  Handles!Lose
BY DEF FailAllocation, NoBlock, EmptyMap, NoElements, Returns,
       Handles!Lose, Handles!Empty, Handles!NoElements, Handles!Returns

LEMMA NextRefines == IInv /\ [Next]_vars => [Handles!Next]_(Handles!vars)
<1> SUFFICES ASSUME IInv, [Next]_vars PROVE Handles!Next \/ UNCHANGED Handles!vars
  OBVIOUS
<1>1. ASSUME NEW n \in AskedCapacity, ConstructSize(n) PROVE Handles!Next
  <2>1. CASE FailAllocation
    BY <2>1, LoseRefines DEF Handles!Next
  <2>2. CASE ~memBlock /\ memBlock' = TRUE /\ EmptyMap /\ Returns("SUCCESS", None)
    BY <2>2 DEF EmptyMap, NoElements, Returns, Handles!Next, Handles!Construct,
                Handles!Empty, Handles!NoElements, Handles!Returns
  <2>3. QED
    BY <1>1, <2>1, <2>2 DEF ConstructSize
<1>2. ASSUME NEW n \in AskedCapacity, Reserve(n) PROVE Handles!Next
  <2>1. CASE FailAllocation
    BY <2>1, LoseRefines DEF Handles!Next
  <2>2. CASE /\ memBlock
             /\ UNCHANGED <<memBlock, history>>
             /\ \/ Returns("SUCCESS", None)
                \/ Returns("CAPACITY_TOO_SMALL", None)
    BY <2>2 DEF history, Returns, Handles!Next, Handles!NoEffect, Handles!Returns
  <2>3. QED
    BY <1>2, <2>1, <2>2 DEF Reserve
<1>3. CASE Destroy
  BY <1>3 DEF Destroy, NoBlock, EmptyMap, NoElements, Returns, Handles!Next,
              Handles!Destroy, Handles!Empty, Handles!NoElements, Handles!Returns
<1>4. CASE ShrinkToFit
  BY <1>4 DEF ShrinkToFit, history, Returns, Handles!Next, Handles!NoEffect,
              Handles!Returns
<1>5. CASE Clear
  BY <1>5 DEF Clear, EmptyMap, NoElements, Returns, Handles!Next,
              Handles!Clear, Handles!Empty, Handles!NoElements, Handles!Returns
<1>6. ASSUME NEW v \in Value, AddInPlace(v) \/ AddGrowing(v) PROVE Handles!Next
  <2>0. /\ capacity \in 0 .. MaxCapacity
        /\ size \in Nat
        /\ size <= capacity
        /\ memBlock => capacity > 0
    BY TypeFacts DEF IInv, LookupsAccounted
  <2>1. CASE FailAllocation
    BY <2>1, LoseRefines DEF Handles!Next
  <2>2. CASE AddInPlace(v)
    <3>1. Handles!Add(v)
      BY <2>0, <2>2, PlaceRefines DEF AddInPlace
    <3>2. QED
      BY <3>1 DEF Handles!Next
  <2>3. CASE /\ memBlock
             /\ CanAllocate(capacity * 2)
             /\ capacity' = capacity * 2
             /\ memBlock' = memBlock
             /\ Place(v)
    <3>1. size < capacity' /\ capacity' \in 0 .. MaxCapacity /\ capacity <= capacity'
      BY <2>0, <2>3 DEF CanAllocate
    <3>2. Handles!Add(v)
      BY <2>3, <3>1, PlaceRefines
    <3>3. QED
      BY <3>2 DEF Handles!Next
  <2>4. QED
    BY <1>6, <2>1, <2>2, <2>3 DEF AddGrowing
<1>7. ASSUME NEW ref \in Held, Remove(ref) \/ Get(ref) PROVE Handles!Next
  <2>1. ref \in Reference
    BY <1>7, AcceptedIsLive DEF IInv, TypeOK, Remove, Get
  <2>2. CASE Remove(ref)
    BY <2>1, <2>2, RemoveRefines DEF Handles!Next
  <2>3. CASE Get(ref)
    <3>1. Handles!Get(ref)
      BY <2>3, GetFinds DEF Get, history, Handles!Get, Handles!Returns
    <3>2. QED
      BY <2>1, <3>1 DEF Handles!Next
  <2>4. QED
    BY <1>7, <2>2, <2>3
<1>8. ASSUME NEW ref \in Held, Refuse(ref) PROVE Handles!Next
  <2>1. CASE Handles!NoEffect
    BY <2>1 DEF Handles!Next
  <2>2. CASE Handles!Reject(ref)
    <3>1. ref \in Reference
      BY <2>2 DEF Handles!Reject, IInv, TypeOK
    <3>2. QED
      BY <2>2, <3>1 DEF Handles!Next
  <2>3. QED
    BY <1>8, <2>1, <2>2, RefuseRefines
<1>9. CASE UNCHANGED vars
  BY <1>9 DEF vars, history, Handles!vars
<1>10. QED
  BY <1>1, <1>2, <1>3, <1>4, <1>5, <1>6, <1>7, <1>8, <1>9 DEF Next

(***************************************************************************)
(* Every behaviour of slot_map.c is a behaviour of the handle map: adds    *)
(* hand out references not in use, gets find what was added, references to *)
(* removed elements are rejected, whatever grows, moves or is reused.      *)
(***************************************************************************)
THEOREM Refinement == Spec => HandleMapSpec
<1>1. Init => Handles!Init
  BY DEF Init, Handles!Init, NoElements, Handles!NoElements
<1>2. IInv /\ [Next]_vars => [Handles!Next]_(Handles!vars)
  BY NextRefines
<1>3. QED
  BY Invariance, <1>1, <1>2, PTL DEF Spec, HandleMapSpec, Handles!Spec
=============================================================================
