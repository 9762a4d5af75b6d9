---------------------------- MODULE KTreeProofs ----------------------------
(***************************************************************************)
(* Theorems about KTrees, for every arity, depth and number of elements.   *)
(***************************************************************************)
EXTENDS KTrees, FiniteSetTheorems, SequenceTheorems, WellFoundedInduction, TLAPS

-----------------------------------------------------------------------------
(* Induction and recursion on numbers.                                     *)

LEMMA LeastOf ==
  ASSUME NEW S, S \subseteq Nat, S # {}
  PROVE  \E m \in S : \A n \in S : m <= n
<1> DEFINE R == OpToRel(<, Nat)
<1>1. IsWellFoundedOn(R, Nat)
  BY NatLessThanWellFounded, Zenon
<1>2. \A n, m \in Nat : n < m => <<n, m>> \in R
  BY Zenon DEF OpToRel
<1> HIDE DEF R
<1>3. PICK m \in S : \A n \in S : ~ (<<n, m>> \in R)
  BY <1>1, WFMin
<1>4. ASSUME NEW n \in S
      PROVE  m <= n
  <2>1. m \in Nat /\ n \in Nat /\ ~ (n < m)
    BY <1>2, <1>3
  <2>2. QED
    BY <2>1
<1>5. QED
  BY <1>4

\* Induction over a set of numbers: the least it leaves out is not zero, and
\* does not come after one it holds.
LEMMA SetInduction ==
  ASSUME NEW T, 0 \in T, \A n \in Nat : n \in T => n + 1 \in T
  PROVE  Nat \subseteq T
<1> DEFINE left == Nat \ T
<1>1. SUFFICES ASSUME left # {} PROVE FALSE
  OBVIOUS
<1>2. PICK m \in left : \A n \in left : m <= n
  BY <1>1, LeastOf
<1>3. m \in Nat /\ m \notin T /\ m # 0 /\ m - 1 \in Nat /\ (m - 1) + 1 = m /\ ~ (m <= m - 1)
  OBVIOUS
<1>4. m - 1 \notin T
  BY <1>3
<1>5. QED
  BY <1>2, <1>3, <1>4

\* A loop that starts with first and makes step[n][x] of x in its n-th turn.
Loops(f, X, first, step) == /\ f \in [Nat -> X]
                            /\ f[0] = first
                            /\ \A n \in Nat : f[n + 1] = step[n][f[n]]

LEMMA Recursion ==
  ASSUME NEW X, NEW first \in X, NEW step \in [Nat -> [X -> X]]
  PROVE  \E f : Loops(f, X, first, step)
<1> DEFINE Runs(f, n) == /\ f \in [0 .. n -> X]
                         /\ f[0] = first
                         /\ \A i \in 0 .. n - 1 : f[i + 1] = step[i][f[i]]
<1>1. ASSUME NEW n \in Nat
      PROVE  \E f : Runs(f, n)
  <2> DEFINE T == {i \in Nat : \E f : Runs(f, i)}
  <2>1. 0 \in T
    <3>1. Runs([i \in 0 .. 0 |-> first], 0)
      OBVIOUS
    <3>2. QED
      BY <3>1
  <2>2. ASSUME NEW i \in Nat, i \in T
        PROVE  i + 1 \in T
    <3>1. PICK f : Runs(f, i)
      BY <2>2
    <3> DEFINE next == step[i][f[i]]
               g == [j \in 0 .. i + 1 |-> IF j = i + 1 THEN next ELSE f[j]]
    <3>2. next \in X
      BY <3>1
    <3> HIDE DEF next
    <3>3. g \in [0 .. i + 1 -> X] /\ g[0] = first
      BY <3>1, <3>2
    <3>4. ASSUME NEW j \in 0 .. i
          PROVE  g[j + 1] = step[j][g[j]]
      <4>1. g[j] = f[j]
        OBVIOUS
      <4>2. CASE j = i
        <5>1. g[i + 1] = next
          OBVIOUS
        <5>2. next = step[i][f[i]]
          BY DEF next
        <5> HIDE DEF g
        <5>3. QED
          BY <4>1, <4>2, <5>1, <5>2
      <4>3. CASE j # i
        <5>1. g[j + 1] = f[j + 1] /\ j \in 0 .. i - 1
          BY <4>3
        <5>2. QED
          BY <3>1, <4>1, <5>1
      <4>4. QED
        BY <4>2, <4>3
    <3>5. (i + 1) - 1 = i
      OBVIOUS
    <3> HIDE DEF g
    <3>6. Runs(g, i + 1)
      BY <3>3, <3>4, <3>5
    <3>7. QED
      BY <3>6
  <2> HIDE DEF Runs
  <2>3. Nat \subseteq T
    BY <2>1, <2>2, SetInduction
  <2>4. QED
    BY <2>3
<1>2. ASSUME NEW f, NEW g, NEW n \in Nat, NEW m \in Nat, Runs(f, n), Runs(g, m), n <= m
      PROVE  f[n] = g[n]
  <2> DEFINE T == {i \in Nat : i <= n => f[i] = g[i]}
  <2>1. 0 \in T
    BY <1>2
  <2>2. ASSUME NEW i \in Nat, i \in T
        PROVE  i + 1 \in T
    <3>1. SUFFICES ASSUME i + 1 <= n PROVE f[i + 1] = g[i + 1]
      OBVIOUS
    <3>2. i \in 0 .. n - 1 /\ i \in 0 .. m - 1 /\ f[i] = g[i]
      BY <1>2, <2>2, <3>1
    <3>3. f[i + 1] = step[i][f[i]] /\ g[i + 1] = step[i][g[i]]
      BY <1>2, <3>2
    <3>4. QED
      BY <3>2, <3>3
  <2>3. Nat \subseteq T
    BY <2>1, <2>2, SetInduction
  <2>4. QED
    BY <2>3
<1> DEFINE run == [n \in Nat |-> CHOOSE f : Runs(f, n)]
           all == [n \in Nat |-> run[n][n]]
<1>3. \A n \in Nat : Runs(run[n], n)
  BY <1>1
<1> HIDE DEF run
<1>4. all \in [Nat -> X]
  BY <1>3
<1>5. all[0] = first
  BY <1>3
<1>6. ASSUME NEW n \in Nat
      PROVE  all[n + 1] = step[n][all[n]]
  <2>1. Runs(run[n], n) /\ Runs(run[n + 1], n + 1)
    BY <1>3
  <2>2. run[n + 1][n + 1] = step[n][run[n + 1][n]]
    <3>1. n \in 0 .. (n + 1) - 1
      OBVIOUS
    <3>2. QED
      BY <2>1, <3>1
  <2> HIDE DEF Runs
  <2>3. run[n][n] = run[n + 1][n]
    <3>1. n + 1 \in Nat /\ n <= n + 1
      OBVIOUS
    <3>2. QED
      BY <1>2, <2>1, <3>1
  <2>4. QED
    BY <2>2, <2>3
<1>7. Loops(all, X, first, step)
  BY <1>4, <1>5, <1>6 DEF Loops
<1>8. QED
  BY <1>7

-----------------------------------------------------------------------------
(* Levels and their nodes.                                                 *)

LEMMA PowerOf ==
  ASSUME NEW a \in Nat
  PROVE  /\ Power(a, 0) = 1
         /\ \A n \in Nat : Power(a, n) \in Nat /\ Power(a, n + 1) = a * Power(a, n)
<1> DEFINE Loop(f) == f = [n \in Nat |-> IF n = 0 THEN 1 ELSE a * f[n - 1]]
           power == CHOOSE f : Loop(f)
           step == [n \in Nat |-> [x \in Nat |-> a * x]]
<1>1. \E f : Loop(f)
  <2>1. step \in [Nat -> [Nat -> Nat]]
    OBVIOUS
  <2>2. \A n, x \in Nat : step[n][x] = a * x
    OBVIOUS
  <2> HIDE DEF step
  <2>3. PICK f : Loops(f, Nat, 1, step)
    <3>1. 1 \in Nat
      OBVIOUS
    <3>2. QED
      BY <2>1, <3>1, Recursion
  <2>4. ASSUME NEW n \in Nat, n # 0
        PROVE  f[n] = a * f[n - 1]
    <3>1. n - 1 \in Nat /\ (n - 1) + 1 = n
      BY <2>4
    <3>2. QED
      BY <2>2, <2>3, <3>1 DEF Loops
  <2>5. QED
    BY <2>3, <2>4 DEF Loops
<1>2. Loop(power)
  BY <1>1
<1>3. \A n : Power(a, n) = power[n]
  BY DEF Power
<1> HIDE DEF power
<1>4. power[0] = 1
  BY <1>2
<1>5. \A n \in Nat : power[n + 1] = a * power[n]
  <2>1. ASSUME NEW n \in Nat
        PROVE  power[n + 1] = a * power[n]
    <3>1. n + 1 \in Nat /\ n + 1 # 0 /\ (n + 1) - 1 = n
      OBVIOUS
    <3>2. QED
      BY <1>2, <3>1
  <2>2. QED
    BY <2>1
<1> DEFINE T == {n \in Nat : power[n] \in Nat}
<1>6. Nat \subseteq T
  <2>1. 0 \in T /\ \A n \in Nat : n \in T => n + 1 \in T
    BY <1>4, <1>5
  <2>2. QED
    BY <2>1, SetInduction
<1>7. QED
  BY <1>3, <1>4, <1>5, <1>6

\* The elements of a tree, level by level and subtree by subtree.
LEMMA ElementsOf ==
  ASSUME NEW a \in Nat
  PROVE  /\ NumElements(a, 0) = 0
         /\ \A n \in Nat : /\ NumElements(a, n) \in Nat
                           /\ NumElements(a, n + 1) = NumElements(a, n) + Power(a, n)
                           /\ NumElements(a, n + 1) = a * NumElements(a, n) + 1
<1> DEFINE Loop(f) == f = [n \in Nat |-> IF n = 0 THEN 0 ELSE f[n - 1] + Power(a, n - 1)]
           total == CHOOSE f : Loop(f)
           step == [n \in Nat |-> [x \in Nat |-> x + Power(a, n)]]
<1>1. \E f : Loop(f)
  <2>1. \A n, x \in Nat : step[n][x] = x + Power(a, n)
    OBVIOUS
  <2>2. step \in [Nat -> [Nat -> Nat]]
    <3>1. \A n \in Nat : Power(a, n) \in Nat
      BY PowerOf
    <3>2. QED
      BY <3>1
  <2> HIDE DEF step
  <2>3. PICK f : Loops(f, Nat, 0, step)
    <3>1. 0 \in Nat
      OBVIOUS
    <3>2. QED
      BY <2>2, <3>1, Recursion
  <2>4. ASSUME NEW n \in Nat, n # 0
        PROVE  f[n] = f[n - 1] + Power(a, n - 1)
    <3>1. n - 1 \in Nat /\ (n - 1) + 1 = n
      BY <2>4
    <3>2. QED
      BY <2>1, <2>3, <3>1 DEF Loops
  <2>5. QED
    BY <2>3, <2>4 DEF Loops
<1>2. Loop(total)
  BY <1>1
<1>3. \A n : NumElements(a, n) = total[n]
  BY DEF NumElements
<1> HIDE DEF total
<1>4. total[0] = 0
  BY <1>2
<1>5. \A n \in Nat : total[n + 1] = total[n] + Power(a, n)
  <2>1. ASSUME NEW n \in Nat
        PROVE  total[n + 1] = total[n] + Power(a, n)
    <3>1. n + 1 \in Nat /\ n + 1 # 0 /\ (n + 1) - 1 = n
      OBVIOUS
    <3>2. QED
      BY <1>2, <3>1
  <2>2. QED
    BY <2>1
<1> DEFINE T == {n \in Nat : total[n] \in Nat /\ total[n + 1] = a * total[n] + 1}
<1>6. Nat \subseteq T
  <2>1. 0 \in T
    BY <1>4, <1>5, PowerOf
  <2>2. ASSUME NEW n \in Nat, n \in T
        PROVE  n + 1 \in T
    <3>1. /\ total[n] \in Nat /\ Power(a, n) \in Nat /\ n + 1 \in Nat
          /\ total[n + 1] = total[n] + Power(a, n)
          /\ total[n + 1] = a * total[n] + 1
          /\ Power(a, n + 1) = a * Power(a, n)
          /\ total[(n + 1) + 1] = total[n + 1] + Power(a, n + 1)
      <4>1. \A m \in Nat : Power(a, m) \in Nat /\ Power(a, m + 1) = a * Power(a, m)
        BY PowerOf
      <4>2. total[n] \in Nat /\ total[n + 1] = a * total[n] + 1 /\ n + 1 \in Nat
        BY <2>2
      <4>3. QED
        BY <1>5, <4>1, <4>2
    <3>2. a * (total[n] + Power(a, n)) = a * total[n] + a * Power(a, n)
      BY <3>1
    <3>3. QED
      BY <3>1, <3>2
  <2>3. QED
    BY <2>1, <2>2, SetInduction
<1>7. QED
  BY <1>3, <1>4, <1>5, <1>6

LEMMA MoreLevels ==
  ASSUME NEW a \in Nat, a >= 1, NEW m \in Nat, NEW n \in Nat, m <= n
  PROVE  /\ NumElements(a, m) <= NumElements(a, n)
         /\ m # n => NumElements(a, m) < NumElements(a, n)
<1> DEFINE T == {i \in Nat : m <= i => /\ NumElements(a, m) <= NumElements(a, i)
                                       /\ m # i => NumElements(a, m) < NumElements(a, i)}
<1>1. 0 \in T
  <2>1. 0 \in Nat /\ (m <= 0 => m = 0) /\ NumElements(a, 0) <= NumElements(a, 0)
    BY ElementsOf
  <2>2. QED
    BY <2>1
<1>2. ASSUME NEW i \in Nat, i \in T
      PROVE  i + 1 \in T
  <2>1. /\ NumElements(a, i) \in Nat /\ NumElements(a, m) \in Nat
        /\ NumElements(a, i + 1) = a * NumElements(a, i) + 1
    BY ElementsOf
  <2>2. NumElements(a, i + 1) > NumElements(a, i)
    BY <2>1
  <2>3. CASE m <= i
    BY <1>2, <2>1, <2>2, <2>3
  <2>4. CASE m = i + 1
    BY <2>4, ElementsOf
  <2>5. QED
    BY <2>3, <2>4
<1>3. Nat \subseteq T
  BY <1>1, <1>2, SetInduction
<1>4. QED
  BY <1>3

-----------------------------------------------------------------------------
(* The calls both orders have in common.                                   *)

LEMMA ActiveFinite ==
  ASSUME TypeOK
  PROVE  /\ IsFiniteSet(active) /\ Cardinality(active) \in Nat
         /\ \A S : S \subseteq active => IsFiniteSet(S) /\ Cardinality(S) \in Nat
<1>1. k \in Nat /\ depth \in Nat /\ capacity = NumElements(k, depth)
  BY KTreeAssumption DEF TypeOK
<1>2. capacity - 1 \in Int
  BY <1>1, ElementsOf
<1>3. IsFiniteSet(0 .. capacity - 1)
  BY <1>2, FS_Interval
<1>4. QED
  BY <1>3, FS_Subset, FS_CardinalityType DEF TypeOK

LEMMA EmptyInv ==
  ASSUME NEW a \in 0 .. MaxArity, NEW n \in 0 .. MaxDepth, a >= 2, n >= 1,
         EmptyTree(a, n), order' \in {"BFS", "DFS"},
         ret'.out \in Value \cup BOOLEAN \cup {None}
  PROVE  IInv'
<1>1. a \in Nat /\ n \in Nat /\ NumElements(a, n) \in Nat
  BY KTreeAssumption, ElementsOf
<1>2. TypeOK'
  BY <1>1 DEF TypeOK, EmptyTree
<1>3. SizeCounts'
  BY FS_EmptySet DEF SizeCounts, EmptyTree
<1>4. QED
  BY <1>2, <1>3 DEF IInv, EmptyTree

LEMMA NullInv ==
  ASSUME NullTree, order' \in {"BFS", "DFS"},
         ret'.out \in Value \cup BOOLEAN \cup {None}
  PROVE  IInv'
<1>1. NumElements(0, 0) = 0
  BY ElementsOf
<1>2. TypeOK'
  <2>1. 0 .. 0 - 1 = {} /\ [i \in {} |-> None] \in [{} -> Value \cup {None}]
    OBVIOUS
  <2>2. /\ capacity' = NumElements(k', depth')
        /\ active' \subseteq 0 .. capacity' - 1
        /\ data' \in [0 .. capacity' - 1 -> Value \cup {None}]
    BY <1>1, <2>1 DEF NullTree
  <2>3. memBlock' \in BOOLEAN /\ k' \in 0 .. MaxArity /\ depth' \in 0 .. MaxDepth
    <3>1. memBlock' \in BOOLEAN
      BY DEF NullTree
    <3>2. k' = 0 /\ depth' = 0
      BY DEF NullTree
    <3>3. QED
      BY <3>1, <3>2, KTreeAssumption
  <2>4. QED
    BY <2>2, <2>3 DEF TypeOK
<1>3. SizeCounts'
  BY FS_EmptySet DEF SizeCounts, NullTree
<1>4. QED
  BY <1>2, <1>3 DEF IInv, NullTree

LEMMA AnswersInv ==
  ASSUME IInv, UNCHANGED order, NEW code, NEW out \in Value \cup BOOLEAN \cup {None},
         Answers(code, out)
  PROVE  IInv'
<1>1. TypeOK'
  BY DEF IInv, TypeOK, Answers, Returns, header
<1>2. SizeCounts'
  BY DEF IInv, SizeCounts, Answers, header
<1>3. QED
  BY <1>1, <1>2 DEF IInv, Answers, header

LEMMA ActivateInv ==
  ASSUME IInv, UNCHANGED order, NEW i \in 0 .. capacity - 1, i \notin active, NEW v \in Value,
         Activate(i, v)
  PROVE  IInv'
<1>1. TypeOK'
  BY DEF IInv, TypeOK, Activate, Returns
<1>2. SizeCounts'
  <2>1. Cardinality(active \cup {i}) = Cardinality(active) + 1
    BY ActiveFinite, FS_AddElement DEF IInv
  <2>2. \A j \in active \cup {i} : data'[j] # None
    BY KTreeAssumption DEF IInv, TypeOK, SizeCounts, Activate
  <2>3. QED
    BY <2>1, <2>2 DEF IInv, SizeCounts, Activate
<1>3. QED
  BY <1>1, <1>2 DEF IInv, Activate

LEMMA RemoveInv ==
  ASSUME IInv, UNCHANGED order, NEW i, Remove(i)
  PROVE  IInv'
<1>1. CASE Answers("INDEX_NOT_ACTIVE", None)
  BY <1>1, AnswersInv
<1>2. CASE /\ i \in active
           /\ active' = active \ {i}
           /\ data' = [data EXCEPT ![i] = None]
           /\ size' = size - 1
           /\ Returns("SUCCESS", None)
           /\ UNCHANGED <<memBlock, capacity, k, depth>>
  <2>1. TypeOK'
    BY <1>2 DEF IInv, TypeOK, Returns
  <2>2. SizeCounts'
    <3>1. Cardinality(active \ {i}) = Cardinality(active) - 1
      BY <1>2, ActiveFinite, FS_RemoveElement DEF IInv
    <3>2. \A j \in active \ {i} : data'[j] # None
      BY <1>2 DEF IInv, TypeOK, SizeCounts
    <3>3. QED
      BY <1>2, <3>1, <3>2 DEF IInv, SizeCounts
  <2>3. QED
    BY <1>2, <2>1, <2>2 DEF IInv
<1>3. QED
  BY <1>1, <1>2 DEF Remove

LEMMA CommonInv ==
  ASSUME IInv, UNCHANGED order, Common
  PROVE  IInv'
<1>1. order' \in {"BFS", "DFS"}
  BY DEF IInv
<1>2. \A code : Returns(code, None) => ret'.out \in Value \cup BOOLEAN \cup {None}
  BY DEF Returns
<1>3. \A code : Answers(code, None) => IInv'
  BY AnswersInv
<1>4. ASSUME NEW a \in Arities, NEW d \in Depths, Construct(a, d)
      PROVE  IInv'
  <2>1. PICK code \in Outcomes(a, d) :
          IF code = "SUCCESS" THEN EmptyTree(a, d) /\ Returns(code, None)
                              ELSE Answers(code, None)
    BY <1>4 DEF Construct
  <2>2. CASE code = "SUCCESS"
    <3>1. a >= 2 /\ d >= 1 /\ a \in 0 .. MaxArity /\ d \in 0 .. MaxDepth
      BY <2>1, <2>2, KTreeAssumption DEF Outcomes, Arities, Depths
    <3>2. QED
      BY <1>1, <1>2, <2>1, <2>2, <3>1, EmptyInv
  <2>3. CASE code # "SUCCESS"
    BY <1>3, <2>1, <2>3
  <2>4. QED
    BY <2>2, <2>3
<1>5. CASE Destroy
  BY <1>1, <1>2, <1>5, NullInv DEF Destroy
<1>6. CASE Clear
  <2>1. CASE EmptyTree(k, 1) /\ Returns("SUCCESS", None)
    <3>1. k \in 0 .. MaxArity /\ k >= 2 /\ 1 \in 0 .. MaxDepth /\ 1 >= 1
      BY <1>6, KTreeAssumption DEF IInv, TypeOK, Clear
    <3>2. QED
      BY <1>1, <1>2, <2>1, <3>1, EmptyInv
  <2>2. CASE NullTree /\ Returns("ALLOCATION_FAILED", None)
    BY <1>1, <1>2, <2>2, NullInv
  <2>3. QED
    BY <1>6, <2>1, <2>2 DEF Clear
<1>7. CASE NullArgument
  BY <1>3, <1>7 DEF NullArgument
<1>8. ASSUME NEW d \in Depths, RefuseIncrease(d) \/ RefuseDecrease(d)
      PROVE  IInv'
  BY <1>3, <1>8 DEF RefuseIncrease, RefuseDecrease
<1>9. ASSUME NEW i \in 0 .. capacity, OutOfBounds(i) \/ Remove(i) \/ Get(i) \/ Contains(i)
      PROVE  IInv'
  <2>1. CASE OutOfBounds(i)
    BY <1>3, <2>1 DEF OutOfBounds
  <2>2. CASE Remove(i)
    BY <2>2, RemoveInv
  <2>3. CASE Get(i)
    <3>1. i \in active => data[i] \in Value \cup BOOLEAN \cup {None}
      BY DEF IInv, TypeOK
    <3>2. QED
      BY <1>3, <2>3, <3>1, AnswersInv DEF Get
  <2>4. CASE Contains(i)
    <3>1. (i \in active) \in Value \cup BOOLEAN \cup {None}
      OBVIOUS
    <3>2. QED
      BY <2>4, <3>1, AnswersInv DEF Contains
  <2>5. QED
    BY <1>9, <2>1, <2>2, <2>3, <2>4
<1>10. ASSUME NEW i \in 0 .. capacity, NEW v \in Value, Add(i, v) \/ AddGet(i, v)
       PROVE  IInv'
  <2>1. i < capacity
    BY <1>10 DEF Add, AddGet, InBounds
  <2>2. i \in 0 .. capacity - 1
    <3>1. capacity \in Nat
      <4>1. k \in Nat /\ depth \in Nat
        BY KTreeAssumption DEF IInv, TypeOK
      <4>2. QED
        BY <4>1, ElementsOf DEF IInv, TypeOK
    <3>2. QED
      BY <2>1, <3>1
  <2>3. data[i] \in Value \cup BOOLEAN \cup {None}
    BY <2>2 DEF IInv, TypeOK
  <2>4. CASE i \notin active /\ Activate(i, v)
    BY <2>2, <2>4, ActivateInv
  <2>5. QED
    BY <1>3, <1>10, <2>3, <2>4, AnswersInv DEF Add, AddGet
<1>11. QED
  BY <1>4, <1>5, <1>6, <1>7, <1>8, <1>9, <1>10 DEF Common

-----------------------------------------------------------------------------
(* Breadth-first trees.                                                    *)

LEMMA BreadthFirstSame ==
  /\ \A a, n : BreadthFirst!NumElements(a, n) = NumElements(a, n)
  /\ \A d : BreadthFirst!CanIncrease(d) => CanIncrease(d)
  /\ \A d : BreadthFirst!CanDecrease(d) <=> CanDecrease(d)
  /\ \A d, n : BreadthFirst!NewShape(d, n) <=> NewShape(d, n)
  /\ \A code, out : BreadthFirst!Returns(code, out) <=> Returns(code, out)
  /\ \A n : BreadthFirst!Cut(n) = Cut(n)
  /\ \A n : BreadthFirst!NumBitmaskInts(n) = NumBitmaskInts(n)
  /\ \A S : BreadthFirst!Cardinality(S) = Cardinality(S)
<1>1. \A a, n : BreadthFirst!Power(a, n) = Power(a, n)
  BY DEF BreadthFirst!Power, Power
<1>2. \A a, n : BreadthFirst!NumElements(a, n) = NumElements(a, n)
  BY <1>1 DEF BreadthFirst!NumElements, NumElements
<1>3. \A a, n : BreadthFirst!Outcomes(a, n) = Outcomes(a, n)
  BY <1>2 DEF BreadthFirst!Outcomes, Outcomes
<1>4. \A d : BreadthFirst!CanIncrease(d) => CanIncrease(d)
  BY <1>3 DEF BreadthFirst!CanIncrease, CanIncrease
<1>5. \A d, n : BreadthFirst!NewShape(d, n) <=> NewShape(d, n)
  BY <1>2 DEF BreadthFirst!NewShape, NewShape
<1>6. QED
  BY <1>2, <1>4, <1>5 DEF BreadthFirst!CanDecrease, CanDecrease, BreadthFirst!Returns, Returns,
     BreadthFirst!Cut, Cut, BreadthFirst!NumBitmaskInts, NumBitmaskInts,
     BreadthFirst!Cardinality, Cardinality

\* The words of the bitmap hold a bit for each element.
LEMMA WordsHold ==
  ASSUME NEW n \in Nat
  PROVE  NumBitmaskInts(n) * WordBits >= n
<1>1. WordBits \in Nat /\ WordBits > 0
  BY KTreeAssumption
<1> DEFINE q == NumBitmaskInts(n)
           r == (n + WordBits - 1) % WordBits
<1>2. /\ n + WordBits - 1 = WordBits * q + r /\ r \in 0 .. WordBits - 1 /\ q \in Int
  BY <1>1 DEF NumBitmaskInts
<1> HIDE DEF q, r
<1>3. q * WordBits = WordBits * q /\ WordBits * q \in Int
  BY <1>1, <1>2
<1>4. q * WordBits >= n
  BY <1>1, <1>2, <1>3
<1>5. QED
  BY <1>4 DEF q

LEMMA BreadthFirstIncreaseInv ==
  ASSUME IInv, UNCHANGED order, NEW d \in Depths, BreadthFirst!IncreaseDepth(d)
  PROVE  IInv'
<1>1. /\ CanIncrease(d)
      /\ active' = active \cap 0 .. (NumBitmaskInts(capacity) * WordBits) - 1
      /\ data' = [i \in 0 .. NumElements(k, d) - 1 |-> IF i < capacity THEN data[i] ELSE None]
      /\ NewShape(d, size)
      /\ Returns("SUCCESS", None)
  BY BreadthFirstSame DEF BreadthFirst!IncreaseDepth
<1>2. /\ k \in Nat /\ depth \in Nat /\ d \in Nat /\ depth < d /\ k >= 2
      /\ capacity = NumElements(k, depth)
      /\ d \in 0 .. MaxDepth /\ memBlock
  BY <1>1, KTreeAssumption DEF IInv, TypeOK, CanIncrease, Depths
<1>3. /\ capacity \in Nat /\ NumElements(k, d) \in Nat /\ capacity < NumElements(k, d)
  BY <1>2, ElementsOf, MoreLevels
<1>4. active' = active
  <2>1. NumBitmaskInts(capacity) * WordBits >= capacity
    BY <1>3, WordsHold
  <2>2. NumBitmaskInts(capacity) * WordBits \in Int
    BY <1>3, KTreeAssumption DEF NumBitmaskInts
  <2> DEFINE bits == NumBitmaskInts(capacity) * WordBits
  <2> HIDE DEF bits
  <2>3. bits \in Int /\ bits >= capacity /\ active' = active \cap 0 .. bits - 1
    BY <1>1, <2>1, <2>2 DEF bits
  <2>4. active \subseteq 0 .. capacity - 1
    BY DEF IInv, TypeOK
  <2>5. \A i \in active : i \in 0 .. bits - 1
    BY <1>3, <2>3, <2>4
  <2>6. QED
    BY <2>3, <2>5
<1>5. TypeOK'
  BY <1>1, <1>2, <1>3, <1>4 DEF IInv, TypeOK, NewShape, Returns
<1>6. SizeCounts'
  <2>1. size' = Cardinality(active')
    BY <1>1, <1>4 DEF IInv, SizeCounts, NewShape
  <2>2. \A i \in active : i \in 0 .. NumElements(k, d) - 1 /\ i < capacity /\ data[i] # None
    BY <1>3 DEF IInv, TypeOK, SizeCounts
  <2>3. \A i \in active : data'[i] # None
    BY <1>1, <2>2
  <2>4. QED
    BY <1>4, <2>1, <2>3 DEF SizeCounts
<1>7. QED
  BY <1>1, <1>2, <1>5, <1>6 DEF IInv, NewShape

LEMMA BreadthFirstDecreaseInv ==
  ASSUME IInv, UNCHANGED order, NEW d \in Depths, BreadthFirst!DecreaseDepth(d)
  PROVE  IInv'
<1> DEFINE n == NumElements(k, d)
<1>1. /\ CanDecrease(d)
      /\ active' = active \ Cut(n)
      /\ data' = [i \in 0 .. n - 1 |-> data[i]]
      /\ NewShape(d, Cardinality(active \cap 0 .. n - 1))
      /\ Returns("SUCCESS", None)
  BY BreadthFirstSame DEF BreadthFirst!DecreaseDepth
<1>2. /\ k \in Nat /\ depth \in Nat /\ d \in Nat /\ d < depth /\ d >= 1 /\ k >= 2
      /\ capacity = NumElements(k, depth)
      /\ d \in 0 .. MaxDepth /\ memBlock
  BY <1>1, KTreeAssumption DEF IInv, TypeOK, CanDecrease, Depths
<1>3. capacity \in Nat /\ n \in Nat /\ n < capacity
  BY <1>2, ElementsOf, MoreLevels
<1>4. capacity' = n /\ depth' = d /\ UNCHANGED <<memBlock, k>>
      /\ size' = Cardinality(active \cap 0 .. n - 1)
  BY <1>1 DEF NewShape
<1> HIDE DEF n
<1>5. active' = active \cap 0 .. n - 1
  <2>1. \A i \in active : i \in 0 .. capacity - 1
    BY DEF IInv, TypeOK
  <2>2. \A i \in active : i \in 0 .. n - 1 <=> ~ (i \in n .. capacity - 1)
    BY <1>3, <2>1
  <2>3. QED
    BY <1>1, <2>2 DEF Cut
<1>6. TypeOK'
  <2>1. capacity' = NumElements(k', depth')
    BY <1>4 DEF n
  <2>2. data' \in [0 .. capacity' - 1 -> Value \cup {None}]
    BY <1>1, <1>3, <1>4 DEF IInv, TypeOK
  <2>3. QED
    BY <1>1, <1>2, <1>4, <1>5, <2>1, <2>2 DEF IInv, TypeOK, Returns
<1>7. SizeCounts'
  BY <1>1, <1>3, <1>4, <1>5 DEF IInv, TypeOK, SizeCounts
<1>8. QED
  BY <1>2, <1>4, <1>6, <1>7 DEF IInv

-----------------------------------------------------------------------------
(* Depth-first order.  A path is a function of 1 .. n, whose i-th value is *)
(* the child taken at level i.                                             *)

\* The indices of the nodes along a path, in a tree of arity a.
Along(f, a, path, n, levels) ==
  /\ f[0] = 0
  /\ \A i \in 0 .. n : f[i] \in Nat
  /\ \A i \in 1 .. n : f[i] = f[i - 1] + 1 + path[i] * NumElements(a, levels - i)
Index(a, path, n, levels) == (CHOOSE f : Along(f, a, path, n, levels))[n]

\* Paths that agree on their first n levels.
Agree(p, r, n) == \A i \in 1 .. n : p[i] = r[i]

\* A path of n numbers, and one of n children of nodes of arity a.
Numbers(p, n) == \A i \in 1 .. n : p[i] \in Nat
Children(p, n, a) == \A i \in 1 .. n : p[i] \in 0 .. a - 1

LEMMA AlongExists ==
  ASSUME NEW a \in Nat, NEW levels \in Nat, NEW n \in Nat, n <= levels,
         NEW path, Numbers(path, n)
  PROVE  \E f : Along(f, a, path, n, levels)
<1> DEFINE turn(i) == IF i < n THEN 1 + path[i + 1] * NumElements(a, levels - (i + 1)) ELSE 0
           step == [i \in Nat |-> [x \in Nat |-> x + turn(i)]]
<1>1. \A i \in Nat : turn(i) \in Nat
  <2>1. ASSUME NEW i \in Nat, i < n
        PROVE  turn(i) \in Nat
    <3>1. i + 1 \in 1 .. n /\ levels - (i + 1) \in Nat
      BY <2>1
    <3>2. path[i + 1] \in Nat /\ NumElements(a, levels - (i + 1)) \in Nat
      BY <3>1, ElementsOf DEF Numbers
    <3> DEFINE e == NumElements(a, levels - (i + 1))
               c == path[i + 1]
    <3> HIDE DEF e, c
    <3>3. c * e \in Nat
      BY <3>2 DEF c, e
    <3>4. 1 + c * e \in Nat
      BY <3>3
    <3>5. QED
      BY <2>1, <3>4 DEF e, c
  <2>2. QED
    BY <2>1
<1> HIDE DEF turn
<1>2. step \in [Nat -> [Nat -> Nat]] /\ \A i, x \in Nat : step[i][x] = x + turn(i)
  BY <1>1
<1> HIDE DEF step
<1>3. PICK g : Loops(g, Nat, 0, step)
  <2>1. 0 \in Nat
    OBVIOUS
  <2>2. QED
    BY <1>2, <2>1, Recursion
<1>4. g \in [Nat -> Nat] /\ g[0] = 0 /\ \A i \in Nat : g[i + 1] = g[i] + turn(i)
  BY <1>2, <1>3 DEF Loops
<1> DEFINE f == [i \in 0 .. n |-> g[i]]
<1>5. ASSUME NEW i \in 1 .. n
      PROVE  f[i] = f[i - 1] + 1 + path[i] * NumElements(a, levels - i)
  <2>1. i - 1 \in Nat /\ (i - 1) + 1 = i /\ i - 1 < n /\ i \in 0 .. n /\ i - 1 \in 0 .. n
    BY <1>5
  <2>2. turn(i - 1) = 1 + path[i] * NumElements(a, levels - i)
    BY <2>1 DEF turn
  <2>3. g[i] = g[i - 1] + turn(i - 1)
    BY <1>4, <2>1
  <2>4. g[i - 1] \in Nat /\ turn(i - 1) \in Nat
    BY <1>1, <1>4, <2>1
  <2> DEFINE e == path[i] * NumElements(a, levels - i)
  <2>5. e \in Int
    <3>1. path[i] \in Nat /\ NumElements(a, levels - i) \in Nat
      <4>1. levels - i \in Nat /\ path[i] \in Nat
        BY DEF Numbers
      <4>2. QED
        BY <4>1, ElementsOf
    <3>2. QED
      BY <3>1
  <2> HIDE DEF e
  <2>6. f[i] = f[i - 1] + 1 + e
    BY <2>1, <2>2, <2>3, <2>4, <2>5 DEF e
  <2>7. QED
    BY <2>6 DEF e
<1>6. f[0] = 0 /\ \A i \in 0 .. n : f[i] \in Nat
  BY <1>4
<1> HIDE DEF f
<1>7. Along(f, a, path, n, levels)
  BY <1>5, <1>6 DEF Along
<1>8. QED
  BY <1>7

LEMMA AlongUnique ==
  ASSUME NEW a \in Nat, NEW levels \in Nat, NEW n \in Nat,
         NEW p, NEW r, Agree(p, r, n),
         NEW f, Along(f, a, p, n, levels), NEW g, Along(g, a, r, n, levels)
  PROVE  f[n] = g[n]
<1> DEFINE T == {i \in Nat : i <= n => f[i] = g[i]}
<1>1. 0 \in T
  BY DEF Along
<1>2. ASSUME NEW i \in Nat, i \in T
      PROVE  i + 1 \in T
  <2>1. SUFFICES ASSUME i + 1 <= n PROVE f[i + 1] = g[i + 1]
    OBVIOUS
  <2>2. f[i] = g[i]
    BY <1>2, <2>1
  <2> DEFINE j == i + 1
  <2>3. j \in 1 .. n /\ j - 1 = i
    BY <2>1
  <2> HIDE DEF j
  <2>4. /\ f[j] = f[j - 1] + 1 + p[j] * NumElements(a, levels - j)
        /\ g[j] = g[j - 1] + 1 + r[j] * NumElements(a, levels - j)
        /\ p[j] = r[j]
    BY <2>3 DEF Along, Agree
  <2>5. f[j] = g[j]
    BY <2>2, <2>3, <2>4
  <2>6. QED
    BY <2>5 DEF j
<1>3. Nat \subseteq T
  BY <1>1, <1>2, SetInduction
<1>4. QED
  BY <1>3

\* The index of a node, from its parent's.
LEMMA IndexOfs ==
  ASSUME NEW a \in Nat, NEW levels \in Nat, NEW n \in Nat, n <= levels,
         NEW p, Numbers(p, n)
  PROVE  /\ Index(a, p, n, levels) \in Nat
         /\ n = 0 => Index(a, p, n, levels) = 0
         /\ \A r : Agree(r, p, n - 1) /\ n > 0 =>
                     Index(a, p, n, levels) = Index(a, r, n - 1, levels) + 1
                                                + p[n] * NumElements(a, levels - n)
<1> DEFINE f == CHOOSE g : Along(g, a, p, n, levels)
<1>1. Along(f, a, p, n, levels)
  BY AlongExists
<1> HIDE DEF f
<1>2. Index(a, p, n, levels) = f[n]
  BY DEF Index, f
<1>3. f[n] \in Nat /\ (n = 0 => f[n] = 0)
  BY <1>1 DEF Along
<1>4. ASSUME NEW r, Agree(r, p, n - 1), n > 0
      PROVE  Index(a, r, n - 1, levels) = f[n - 1]
  <2> DEFINE h == CHOOSE g : Along(g, a, r, n - 1, levels)
             m == n - 1
  <2>1. m \in Nat /\ m <= levels /\ m <= n
    BY <1>4
  <2>2. Agree(r, p, m) /\ Numbers(r, m)
    BY <1>4 DEF Agree, Numbers
  <2> HIDE DEF m
  <2>3. \E g : Along(g, a, r, m, levels)
    BY <2>1, <2>2, AlongExists
  <2>4. Along(h, a, r, m, levels)
    BY <2>3 DEF m
  <2>5. Index(a, r, n - 1, levels) = h[m]
    BY DEF Index, m
  <2> HIDE DEF h
  <2>6. h[m] = f[m]
    <3>1. Along(f, a, p, m, levels)
      BY <1>1, <2>1 DEF Along
    <3>2. QED
      BY <2>1, <2>2, <2>4, <3>1, AlongUnique
  <2>7. QED
    BY <2>5, <2>6 DEF m
<1>5. n > 0 => f[n] = f[n - 1] + 1 + p[n] * NumElements(a, levels - n)
  BY <1>1 DEF Along
<1>6. QED
  BY <1>2, <1>3, <1>4, <1>5

\* Paths that agree lead to the same node.
LEMMA SameIndex ==
  ASSUME NEW a \in Nat, NEW levels \in Nat, NEW n \in Nat, n <= levels,
         NEW p, NEW r, Agree(p, r, n), Numbers(p, n)
  PROVE  Index(a, p, n, levels) = Index(a, r, n, levels)
<1> DEFINE f == CHOOSE h : Along(h, a, p, n, levels)
           g == CHOOSE h : Along(h, a, r, n, levels)
<1>1. \E h : Along(h, a, p, n, levels)
  BY AlongExists
<1>2. \E h : Along(h, a, r, n, levels)
  <2>1. Numbers(r, n)
    BY DEF Agree, Numbers
  <2>2. QED
    BY <2>1, AlongExists
<1>3. Along(f, a, p, n, levels) /\ Along(g, a, r, n, levels)
  BY <1>1, <1>2
<1>4. Index(a, p, n, levels) = f[n] /\ Index(a, r, n, levels) = g[n]
  BY DEF Index
<1> HIDE DEF f, g
<1>5. f[n] = g[n]
  BY <1>3, AlongUnique
<1>6. QED
  BY <1>4, <1>5

LEMMA Times ==
  ASSUME NEW x \in Nat, NEW y \in Nat, NEW e \in Nat, x <= y
  PROVE  x * e <= y * e /\ x * e \in Nat
<1>1. (y - x) * e \in Nat /\ x * e \in Nat /\ y * e = x * e + (y - x) * e
  OBVIOUS
<1>2. QED
  BY <1>1

\* From one level to the next.
LEMMA NextIndex ==
  ASSUME NEW a \in Nat, NEW levels \in Nat, NEW n \in Nat, n < levels,
         NEW p, Numbers(p, n + 1),
         NEW r, Agree(r, p, n)
  PROVE  Index(a, p, n + 1, levels) = Index(a, r, n, levels) + 1
                                        + p[n + 1] * NumElements(a, levels - (n + 1))
<1> DEFINE m == n + 1
<1>1. m \in Nat /\ m <= levels /\ m > 0 /\ m - 1 = n
  OBVIOUS
<1>2. Numbers(p, m)
  OBVIOUS
<1> HIDE DEF m
<1>3. Agree(r, p, m - 1)
  BY <1>1
<1>4. Index(a, p, m, levels) = Index(a, r, m - 1, levels) + 1 + p[m] * NumElements(a, levels - m)
  BY <1>1, <1>2, <1>3, IndexOfs
<1>5. QED
  BY <1>1, <1>4 DEF m

\* A node's subtree ends within the tree.
LEMMA SubtreeInside ==
  ASSUME NEW a \in Nat, NEW levels \in Nat, NEW n \in Nat, n <= levels,
         NEW p, Children(p, n, a)
  PROVE  Index(a, p, n, levels) + NumElements(a, levels - n) <= NumElements(a, levels)
<1> DEFINE T == {i \in Nat : i <= n => Index(a, p, i, levels) + NumElements(a, levels - i)
                                          <= NumElements(a, levels)}
<1>1. 0 \in T
  <2>1. Index(a, p, 0, levels) = 0
    <3>1. 0 \in Nat /\ 0 <= levels /\ Numbers(p, 0)
      BY DEF Numbers
    <3>2. QED
      BY <3>1, IndexOfs
  <2>2. NumElements(a, levels - 0) = NumElements(a, levels) /\ NumElements(a, levels) \in Nat
    <3>1. levels - 0 = levels
      OBVIOUS
    <3>2. QED
      BY <3>1, ElementsOf
  <2>3. QED
    BY <2>1, <2>2
<1>2. ASSUME NEW i \in Nat, i \in T
      PROVE  i + 1 \in T
  <2>1. SUFFICES ASSUME i + 1 <= n
                 PROVE  Index(a, p, i + 1, levels) + NumElements(a, levels - (i + 1))
                          <= NumElements(a, levels)
    OBVIOUS
  <2> DEFINE e == NumElements(a, levels - (i + 1))
             c == p[i + 1]
  <2>2. levels - (i + 1) \in Nat /\ levels - i = (levels - (i + 1)) + 1
    BY <2>1
  <2>3. e \in Nat /\ NumElements(a, levels - i) = a * e + 1 /\ NumElements(a, levels) \in Nat
    <3> DEFINE m == levels - (i + 1)
    <3>1. m \in Nat /\ levels - i = m + 1
      BY <2>2
    <3> HIDE DEF m
    <3>2. /\ NumElements(a, m) \in Nat /\ NumElements(a, m + 1) = a * NumElements(a, m) + 1
          /\ NumElements(a, levels) \in Nat
      BY <3>1, ElementsOf
    <3>3. QED
      BY <3>1, <3>2 DEF m
  <2>4. i + 1 \in 1 .. n /\ Numbers(p, i + 1)
    BY <2>1 DEF Children, Numbers
  <2>5. c \in Nat /\ c + 1 <= a
    BY <2>4 DEF Children
  <2>6. Agree(p, p, i)
    BY DEF Agree
  <2>7. Index(a, p, i + 1, levels) = Index(a, p, i, levels) + 1 + c * e
    BY <2>1, <2>4, <2>6, NextIndex
  <2>8. Index(a, p, i, levels) \in Nat
    <3>1. i <= levels /\ Numbers(p, i)
      BY <2>1, <2>4 DEF Numbers
    <3>2. QED
      BY <3>1, IndexOfs
  <2> HIDE DEF e, c
  <2>9. (c + 1) * e <= a * e /\ (c + 1) * e = c * e + e /\ c * e \in Nat /\ a * e \in Nat
    <3>1. c + 1 \in Nat
      BY <2>5
    <3>2. (c + 1) * e <= a * e /\ a * e \in Nat /\ c * e \in Nat
      BY <2>3, <2>5, <3>1, Times
    <3>3. QED
      BY <2>3, <2>5, <3>2
  <2>10. Index(a, p, i, levels) + (a * e + 1) <= NumElements(a, levels)
    BY <1>2, <2>1, <2>3
  <2>11. Index(a, p, i + 1, levels) + e <= NumElements(a, levels)
    BY <2>3, <2>7, <2>8, <2>9, <2>10
  <2>12. QED
    BY <2>11 DEF e
<1>3. Nat \subseteq T
  BY <1>1, <1>2, SetInduction
<1>4. QED
  BY <1>3

-----------------------------------------------------------------------------
(* The walk over a depth-first tree.                                       *)

\* Levels without backing up: the walks' type.
Walks(levels) == [stack : [0 .. levels - 1 -> Int], top : 0 .. levels - 1, far : Int]

LEMMA DepthFirstSame ==
  /\ \A a, n : DepthFirst!Power(a, n) = Power(a, n)
  /\ \A a, n : DepthFirst!NumElements(a, n) = NumElements(a, n)
  /\ \A n : DepthFirst!Jump(n) = NumElements(k, n + 1) - 1
  /\ \A d : DepthFirst!CanIncrease(d) => CanIncrease(d)
  /\ \A d : DepthFirst!CanDecrease(d) <=> CanDecrease(d)
  /\ \A d, n : DepthFirst!NewShape(d, n) <=> NewShape(d, n)
  /\ \A code, out : DepthFirst!Returns(code, out) <=> Returns(code, out)
  /\ \A n : DepthFirst!Cut(n) = Cut(n)
<1>1. \A a, n : DepthFirst!Power(a, n) = Power(a, n)
  BY DEF DepthFirst!Power, Power
<1>2. \A a, n : DepthFirst!NumElements(a, n) = NumElements(a, n)
  BY <1>1 DEF DepthFirst!NumElements, NumElements
<1>3. \A a, n : DepthFirst!Outcomes(a, n) = Outcomes(a, n)
  BY <1>2 DEF DepthFirst!Outcomes, Outcomes
<1>4. \A d : DepthFirst!CanIncrease(d) => CanIncrease(d)
  BY <1>3 DEF DepthFirst!CanIncrease, CanIncrease
<1>5. \A d, n : DepthFirst!NewShape(d, n) <=> NewShape(d, n)
  BY <1>2 DEF DepthFirst!NewShape, NewShape
<1>6. \A n : DepthFirst!Jump(n) = NumElements(k, n + 1) - 1
  BY <1>2 DEF DepthFirst!Jump
<1>7. QED
  BY <1>1, <1>2, <1>4, <1>5, <1>6 DEF DepthFirst!CanDecrease, CanDecrease, DepthFirst!Returns,
     Returns, DepthFirst!Cut, Cut

\* Backing up stops at the deepest level with a child left to visit.
Back(walk, l) == /\ l \in 0 .. walk.top
                 /\ l = 0 \/ walk.stack[l] # k
                 /\ \A m \in l + 1 .. walk.top : walk.stack[m] = k

LEMMA LevelOf ==
  ASSUME NEW walk, walk.top \in Nat
  PROVE  Back(walk, DepthFirst!Level(walk))
<1> DEFINE top == walk.top
           S == {n \in 0 .. top : n = top \/ walk.stack[top - n] # k}
<1>1. PICK n \in S : \A m \in S : n <= m
  <2>1. S \subseteq Nat /\ top \in S
    OBVIOUS
  <2>2. QED
    BY <2>1, LeastOf
<1>2. top - n \in 0 .. top /\ (top - n = 0 \/ walk.stack[top - n] # k)
  BY <1>1
<1>3. ASSUME NEW m \in (top - n) + 1 .. top
      PROVE  walk.stack[m] = k
  <2>1. top - m \in 0 .. top /\ top - m < n /\ top - (top - m) = m
    BY <1>2
  <2>2. top - m \notin S
    BY <1>1, <2>1
  <2>3. QED
    BY <2>1, <2>2
<1>4. Back(walk, top - n)
  BY <1>2, <1>3 DEF Back
<1>5. DepthFirst!Level(walk) = CHOOSE l \in 0 .. walk.top : /\ l = 0 \/ walk.stack[l] # k
                                                 /\ \A m \in l + 1 .. walk.top : walk.stack[m] = k
  BY DEF DepthFirst!Level
<1>6. QED
  BY <1>4, <1>5 DEF Back

LEMMA StepType ==
  ASSUME NEW levels \in Nat, NEW jump \in Int, NEW walk \in Walks(levels)
  PROVE  DepthFirst!Step(walk, levels, jump) \in Walks(levels)
<1> DEFINE l == DepthFirst!Level(walk)
<1>1. l \in 0 .. walk.top /\ walk.top \in 0 .. levels - 1
  <2>1. walk.top \in 0 .. levels - 1
    BY DEF Walks
  <2>2. walk.top \in Nat
    BY <2>1
  <2>3. QED
    BY <2>1, <2>2, LevelOf DEF Back
<1>2. walk.stack \in [0 .. levels - 1 -> Int] /\ walk.far \in Int
  BY DEF Walks
<1>3. DepthFirst!Step(walk, levels, jump) =
        [stack |-> [m \in 0 .. levels - 1 |-> IF m = l THEN walk.stack[l] + 1
                                              ELSE IF m > l THEN 0 ELSE walk.stack[m]],
         top |-> IF l = levels - 1 THEN l ELSE l + 1,
         far |-> walk.far + 1 + (IF l = levels - 1 THEN jump ELSE 0)]
  BY DEF DepthFirst!Step
<1> HIDE DEF l
<1>4. [m \in 0 .. levels - 1 |-> IF m = l THEN walk.stack[l] + 1
                                 ELSE IF m > l THEN 0 ELSE walk.stack[m]] \in [0 .. levels - 1 -> Int]
  BY <1>1, <1>2
<1>5. (IF l = levels - 1 THEN l ELSE l + 1) \in 0 .. levels - 1
  BY <1>1
<1>6. walk.far + 1 + (IF l = levels - 1 THEN jump ELSE 0) \in Int
  BY <1>2
<1>7. QED
  BY <1>3, <1>4, <1>5, <1>6 DEF Walks

\* A walk takes a step for each element but the first.
LEMMA WalkOf ==
  ASSUME NEW levels \in Nat, levels >= 1, NEW jump \in Int, NEW n \in Nat,
         n = NumElements(k, levels)
  PROVE  LET walk == DepthFirst!Walk(levels, jump)
         IN  /\ walk \in [0 .. n - 1 -> Walks(levels)]
             /\ 0 <= n - 1 => walk[0] = DepthFirst!Start(levels)
             /\ \A i \in 0 .. n - 1 : i + 1 \in 0 .. n - 1 =>
                  walk[i + 1] = DepthFirst!Step(walk[i], levels, jump)
<1> DEFINE first == DepthFirst!Start(levels)
           Turn(x) == DepthFirst!Step(x, levels, jump)
           step == [i \in Nat |-> [x \in Walks(levels) |-> Turn(x)]]
           Loop(f) == f = [i \in 0 .. n - 1 |-> IF i = 0 THEN first ELSE Turn(f[i - 1])]
           walk == CHOOSE f : Loop(f)
<1>1. first \in Walks(levels)
  <2>1. [l \in 0 .. levels - 1 |-> 0] \in [0 .. levels - 1 -> Int] /\ 0 \in 0 .. levels - 1
    OBVIOUS
  <2>2. QED
    BY <2>1 DEF DepthFirst!Start, Walks
<1>2. \A x \in Walks(levels) : Turn(x) \in Walks(levels)
  BY StepType
<1> HIDE DEF first, Turn
<1>3. \E f : Loop(f) /\ f \in [0 .. n - 1 -> Walks(levels)]
  <2>1. step \in [Nat -> [Walks(levels) -> Walks(levels)]]
    BY <1>2
  <2>2. \A i \in Nat, x \in Walks(levels) : step[i][x] = Turn(x)
    OBVIOUS
  <2> HIDE DEF step
  <2>3. PICK g : Loops(g, Walks(levels), first, step)
    BY <1>1, <2>1, Recursion
  <2> DEFINE f == [i \in 0 .. n - 1 |-> g[i]]
  <2>4. ASSUME NEW i \in 0 .. n - 1
        PROVE  f[i] = IF i = 0 THEN first ELSE Turn(f[i - 1])
    <3>1. CASE i = 0
      BY <2>3, <3>1 DEF Loops
    <3>2. CASE i # 0
      <4>1. i - 1 \in Nat /\ (i - 1) + 1 = i /\ i - 1 \in 0 .. n - 1
        BY <3>2
      <4>2. g[i - 1] \in Walks(levels)
        BY <2>3, <4>1 DEF Loops
      <4>3. g[(i - 1) + 1] = step[i - 1][g[i - 1]]
        BY <2>3, <4>1 DEF Loops
      <4>4. g[i] = Turn(g[i - 1])
        BY <2>2, <4>1, <4>2, <4>3
      <4>5. QED
        BY <3>2, <4>1, <4>4
    <3>3. QED
      BY <3>1, <3>2
  <2>5. f \in [0 .. n - 1 -> Walks(levels)]
    BY <2>3 DEF Loops
  <2>6. Loop(f)
    <3> DEFINE h == [i \in 0 .. n - 1 |-> IF i = 0 THEN first ELSE Turn(f[i - 1])]
    <3>1. \A i \in 0 .. n - 1 : f[i] = h[i]
      BY <2>4
    <3>2. DOMAIN f = 0 .. n - 1 /\ DOMAIN h = 0 .. n - 1 /\ f = [i \in 0 .. n - 1 |-> f[i]]
      OBVIOUS
    <3>3. h = [i \in 0 .. n - 1 |-> h[i]]
      OBVIOUS
    <3> HIDE DEF h
    <3>4. f = h
      BY <3>1, <3>2, <3>3
    <3>5. QED
      BY <3>4 DEF h
  <2> HIDE DEF f, Loop
  <2>7. QED
    BY <2>5, <2>6
<1>4. Loop(walk)
  <2> HIDE DEF Loop
  <2>1. \E f : Loop(f)
    BY <1>3
  <2>2. QED
    BY <2>1
<1>5. DepthFirst!Walk(levels, jump) = walk
  BY DepthFirstSame DEF DepthFirst!Walk, first, Turn
<1> HIDE DEF walk
<1>6. \A i \in 0 .. n - 1 : walk[i] = IF i = 0 THEN first ELSE Turn(walk[i - 1])
  BY <1>4
<1>7. 0 <= n - 1 => walk[0] = first
  BY <1>6
<1>8. ASSUME NEW i \in 0 .. n - 1, i + 1 \in 0 .. n - 1
      PROVE  walk[i + 1] = Turn(walk[i])
  <2>1. i + 1 # 0 /\ (i + 1) - 1 = i
    OBVIOUS
  <2>2. QED
    BY <1>6, <1>8, <2>1
<1>9. walk \in [0 .. n - 1 -> Walks(levels)]
  <2> DEFINE T == {i \in Nat : i <= n - 1 => walk[i] \in Walks(levels)}
  <2>1. 0 \in T
    BY <1>1, <1>7
  <2>2. ASSUME NEW i \in Nat, i \in T
        PROVE  i + 1 \in T
    <3>1. SUFFICES ASSUME i + 1 <= n - 1 PROVE walk[i + 1] \in Walks(levels)
      OBVIOUS
    <3>2. i \in 0 .. n - 1 /\ i + 1 \in 0 .. n - 1 /\ walk[i] \in Walks(levels)
      BY <2>2, <3>1
    <3>3. QED
      BY <1>2, <1>8, <3>2
  <2>3. Nat \subseteq T
    BY <2>1, <2>2, SetInduction
  <2>4. \A i \in 0 .. n - 1 : walk[i] \in Walks(levels)
    BY <2>3
  <2>5. walk = [i \in 0 .. n - 1 |-> walk[i]]
    BY <1>4
  <2>6. QED
    BY <2>4, <2>5
<1>10. QED
  BY <1>5, <1>7, <1>8, <1>9 DEF first, Turn

\* The path to a node of level l: each level above has one child more visited
\* than the walk has backed up over.
Place(stack, l) == [j \in 1 .. l |-> IF j < l THEN stack[j] - 1 ELSE stack[j]]

\* Levels the walk has gone down through.
Entered(stack, l) == \A j \in 1 .. l : stack[j] \in 1 .. k

\* A child after the last is where the parent's next sibling is.
LEMMA BackUp ==
  ASSUME k \in Nat, NEW levels \in Nat, NEW l \in Nat, l >= 1, l + 1 <= levels,
         NEW stack, Entered(stack, l), stack[l + 1] = k
  PROVE  Index(k, Place(stack, l + 1), l + 1, levels) = Index(k, Place(stack, l), l, levels)
<1> DEFINE p == Place(stack, l + 1)
           r == Place(stack, l)
           m == l - 1
           e == NumElements(k, levels - (l + 1))
           s == NumElements(k, levels - l)
           x == Index(k, p, m, levels)
<1>1. m \in Nat /\ m + 1 = l /\ m < levels /\ m <= levels /\ l < levels
  OBVIOUS
<1>2. e \in Nat /\ s = k * e + 1 /\ s \in Nat
  <2> DEFINE n == levels - (l + 1)
  <2>1. n \in Nat /\ levels - l = n + 1
    OBVIOUS
  <2> HIDE DEF n
  <2>2. NumElements(k, n) \in Nat /\ NumElements(k, n + 1) = k * NumElements(k, n) + 1
    BY <2>1, ElementsOf
  <2>3. NumElements(k, levels - l) = NumElements(k, n + 1)
    BY <2>1
  <2>4. QED
    BY <2>1, <2>2, <2>3 DEF n
<1>3. /\ \A j \in 1 .. m : p[j] = stack[j] - 1 /\ r[j] = stack[j] - 1
      /\ p[l] = stack[l] - 1 /\ r[l] = stack[l] /\ p[l + 1] = k
  BY DEF Place
<1>4. stack[l] \in 1 .. k /\ \A j \in 1 .. m : stack[j] \in 1 .. k
  BY DEF Entered
<1> HIDE DEF p, r
<1>5. Numbers(p, l + 1) /\ Numbers(p, l) /\ Numbers(r, l) /\ Agree(p, p, l) /\ Agree(p, p, m)
      /\ Agree(p, r, m) /\ Numbers(p, m)
  <2>1. \A j \in 1 .. m : p[j] \in Nat /\ r[j] \in Nat /\ p[j] = r[j]
    BY <1>3, <1>4
  <2>2. p[l] \in Nat /\ r[l] \in Nat /\ p[l + 1] \in Nat
    BY <1>3, <1>4
  <2>3. \A j \in 1 .. l + 1 : j \in 1 .. m \/ j = l \/ j = l + 1
    BY <1>1
  <2>4. \A j \in 1 .. l : j \in 1 .. m \/ j = l
    BY <1>1
  <2>5. QED
    BY <2>1, <2>2, <2>3, <2>4 DEF Numbers, Agree
<1>6. x \in Nat
  <2> HIDE DEF m
  <2>1. Index(k, p, m, levels) \in Nat
    BY <1>1, <1>5, IndexOfs
  <2>2. QED
    BY <2>1 DEF m
<1>7. Index(k, p, l + 1, levels) = Index(k, p, l, levels) + 1 + k * e
  BY <1>1, <1>3, <1>5, NextIndex
<1>8. Index(k, p, l, levels) = x + 1 + (stack[l] - 1) * s
  <2>1. Index(k, p, m + 1, levels) = x + 1 + p[m + 1] * NumElements(k, levels - (m + 1))
    <3>1. Numbers(p, m + 1)
      BY <1>1, <1>5
    <3>2. QED
      BY <1>1, <1>5, <3>1, NextIndex
  <2>2. QED
    BY <1>1, <1>3, <2>1
<1>9. Index(k, r, l, levels) = x + 1 + stack[l] * s
  <2>1. Index(k, r, m + 1, levels) = x + 1 + r[m + 1] * NumElements(k, levels - (m + 1))
    <3>1. Numbers(r, m + 1)
      BY <1>1, <1>5
    <3>2. QED
      BY <1>1, <1>5, <3>1, NextIndex
  <2>2. QED
    BY <1>1, <1>3, <2>1
<1> DEFINE c == stack[l]
           y == Index(k, p, l, levels)
           z == Index(k, r, l, levels)
<1> HIDE DEF x, e, s, c, y, z
<1>10. y = x + 1 + (c - 1) * s /\ z = x + 1 + c * s /\ Index(k, p, l + 1, levels) = y + 1 + k * e
  BY <1>7, <1>8, <1>9 DEF c, y, z
<1>11. c \in Nat /\ c - 1 \in Nat
  BY <1>4 DEF c
<1>12. c * s = (c - 1) * s + s /\ (c - 1) * s \in Nat /\ c * s \in Nat
  BY <1>2, <1>11
<1>13. k * e \in Nat
  BY <1>2
<1>14. Index(k, p, l + 1, levels) = z
  BY <1>2, <1>6, <1>10, <1>12, <1>13
<1>15. QED
  BY <1>14 DEF p, r, z

\* Backing up over several levels leads nowhere else.
LEMMA BackUpAll ==
  ASSUME k \in Nat, NEW levels \in Nat, NEW l \in Nat, l >= 1, NEW top \in Nat, l <= top,
         top <= levels, NEW stack, Entered(stack, top - 1),
         \A m \in l + 1 .. top : stack[m] = k
  PROVE  Index(k, Place(stack, top), top, levels) = Index(k, Place(stack, l), l, levels)
<1> DEFINE x(n) == Index(k, Place(stack, n), n, levels)
           T == {n \in Nat : l <= n /\ n <= top => x(n) = x(l)}
<1>1. 0 \in T
  OBVIOUS
<1>2. ASSUME NEW n \in Nat, n \in T
      PROVE  n + 1 \in T
  <2>1. SUFFICES ASSUME l <= n + 1, n + 1 <= top PROVE x(n + 1) = x(l)
    OBVIOUS
  <2>2. CASE l = n + 1
    BY <2>2
  <2>3. CASE l <= n
    <3>1. x(n) = x(l)
      BY <1>2, <2>1, <2>3
    <3>2. Entered(stack, n)
      BY <2>1 DEF Entered
    <3>3. stack[n + 1] = k /\ n >= 1 /\ n + 1 <= levels
      BY <2>1, <2>3
    <3>4. Index(k, Place(stack, n + 1), n + 1, levels) = Index(k, Place(stack, n), n, levels)
      BY <3>2, <3>3, BackUp
    <3>5. QED
      BY <3>1, <3>4
  <2>4. QED
    BY <2>1, <2>2, <2>3
<1>3. Nat \subseteq T
  BY <1>1, <1>2, SetInduction
<1>4. top \in T
  BY <1>3
<1>5. QED
  BY <1>4

\* What holds of the walk at the i-th element of a tree of so many levels, when
\* the larger tree has more of them.
Walking(walk, i, levels, more) ==
  /\ walk.top \in 0 .. levels - 1
  /\ walk.stack \in [0 .. levels - 1 -> 0 .. k]
  /\ Entered(walk.stack, walk.top - 1)
  /\ i = 0 => walk.stack[0] = 0
  /\ Index(k, Place(walk.stack, walk.top), walk.top, levels) = i
  /\ Index(k, Place(walk.stack, walk.top), walk.top, levels + more) = walk.far

\* The path to the i-th element, which leads to far in the larger tree.
Leads(p, l, i, far, levels, more) ==
  /\ l \in 0 .. levels - 1
  /\ Children(p, l, k)
  /\ Index(k, p, l, levels) = i
  /\ Index(k, p, l, levels + more) = far

\* The path to where the walk stands.
LEMMA StandsAt ==
  ASSUME k \in Nat, k >= 2, NEW levels \in Nat, NEW more \in Nat, NEW i \in Nat,
         i < NumElements(k, levels),
         NEW walk, Walking(walk, i, levels, more)
  PROVE  LET l == DepthFirst!Level(walk)
         IN  /\ Back(walk, l)
             /\ walk.stack[l] \in 0 .. k - 1
             /\ l = 0 => i = 0
             /\ Leads(Place(walk.stack, l), l, i, walk.far, levels, more)
<1> DEFINE l == DepthFirst!Level(walk)
           stack == walk.stack
           top == walk.top
<1>1. top \in 0 .. levels - 1 /\ top \in Nat /\ top <= levels /\ top <= levels + more
  BY DEF Walking
<1>2. Back(walk, l)
  BY <1>1, LevelOf
<1> HIDE DEF l
<1>3. /\ l \in 0 .. top /\ l \in Nat /\ l <= top /\ l \in 0 .. levels - 1
      /\ l = 0 \/ stack[l] # k
      /\ \A m \in l + 1 .. top : stack[m] = k
  BY <1>1, <1>2 DEF Back
<1>4. /\ stack \in [0 .. levels - 1 -> 0 .. k] /\ Entered(stack, top - 1)
      /\ i = 0 => stack[0] = 0
      /\ Index(k, Place(stack, top), top, levels) = i
      /\ Index(k, Place(stack, top), top, levels + more) = walk.far
  BY DEF Walking
<1> HIDE DEF top, stack
<1>5. CASE l = 0
  <2>1. top = 0
    <3>1. SUFFICES ASSUME top >= 1 PROVE FALSE
      BY <1>1
    <3>2. \A m \in 1 + 1 .. top : stack[m] = k
      BY <1>3, <1>5
    <3>3. Index(k, Place(stack, top), top, levels) = Index(k, Place(stack, 1), 1, levels)
      BY <1>1, <1>4, <3>1, <3>2, BackUpAll
    <3> DEFINE p == Place(stack, 1)
    <3>4. stack[1] = k /\ p[1] = stack[1]
      BY <1>3, <1>5, <3>1 DEF Place
    <3> HIDE DEF p
    <3>5. Numbers(p, 1) /\ Agree(p, p, 0) /\ 0 <= levels /\ 0 < levels /\ levels - 1 \in Nat
      BY <1>1, <3>1, <3>4 DEF Numbers, Agree
    <3>6. Numbers(p, 0 + 1)
      BY <3>5
    <3>7. Index(k, p, 0 + 1, levels) = Index(k, p, 0, levels) + 1
                                         + p[0 + 1] * NumElements(k, levels - (0 + 1))
      BY <3>5, <3>6, NextIndex
    <3>8. Index(k, p, 0, levels) = 0
      <4>1. Numbers(p, 0)
        BY DEF Numbers
      <4>2. QED
        BY <3>5, <4>1, IndexOfs
    <3>9. Index(k, p, 1, levels) = 1 + k * NumElements(k, levels - 1)
      <4>1. NumElements(k, levels - 1) \in Nat
        BY <3>5, ElementsOf
      <4>2. k * NumElements(k, levels - 1) \in Nat
        BY <4>1
      <4>3. 0 + 1 = 1
        OBVIOUS
      <4>4. Index(k, p, 1, levels) = 0 + 1 + k * NumElements(k, levels - 1)
        BY <3>4, <3>7, <3>8, <4>3
      <4>5. QED
        BY <4>2, <4>4
    <3>10. NumElements(k, levels) = k * NumElements(k, levels - 1) + 1
             /\ NumElements(k, levels - 1) \in Nat
      <4> DEFINE n == levels - 1
      <4>1. n \in Nat /\ levels = n + 1
        BY <3>5
      <4> HIDE DEF n
      <4>2. NumElements(k, n) \in Nat /\ NumElements(k, n + 1) = k * NumElements(k, n) + 1
        BY <4>1, ElementsOf
      <4>3. NumElements(k, levels) = k * NumElements(k, n) + 1
        BY <4>1, <4>2
      <4>4. QED
        BY <4>2, <4>3 DEF n
    <3> DEFINE e == k * NumElements(k, levels - 1)
    <3>11. e \in Nat
      BY <3>10
    <3> HIDE DEF e
    <3>12. i = 1 + e /\ NumElements(k, levels) = e + 1
      BY <1>4, <3>3, <3>9, <3>10 DEF p, e
    <3>13. QED
      BY <3>11, <3>12
  <2> DEFINE p == Place(stack, 0)
  <2>2. Numbers(p, 0) /\ Children(p, 0, k) /\ 0 <= levels /\ 0 <= levels + more /\ levels + more \in Nat
    BY DEF Numbers, Children
  <2>3. Index(k, p, 0, levels) = 0 /\ Index(k, p, 0, levels + more) = 0
    <3> HIDE DEF p
    <3> DEFINE n == levels + more
    <3> HIDE DEF n
    <3>1. Numbers(p, 0) /\ 0 <= levels /\ 0 <= n /\ n \in Nat
      BY <2>2 DEF n
    <3>2. QED
      BY <3>1, IndexOfs DEF n
  <2> HIDE DEF p
  <2>4. i = 0
    BY <1>4, <2>1, <2>3 DEF p
  <2>5. Leads(Place(stack, 0), 0, i, walk.far, levels, more)
    BY <1>1, <1>4, <2>1, <2>2, <2>3 DEF Leads, p
  <2>6. stack[l] \in 0 .. k - 1
    BY <1>4, <1>5, <2>4
  <2>7. QED
    BY <1>2, <1>5, <2>4, <2>5, <2>6 DEF l, stack
<1>6. CASE l # 0
  <2>1. l >= 1 /\ stack[l] \in 0 .. k - 1
    BY <1>3, <1>4, <1>6
  <2>2. Index(k, Place(stack, l), l, levels) = i
    BY <1>1, <1>3, <1>4, <2>1, BackUpAll
  <2>3. Index(k, Place(stack, l), l, levels + more) = walk.far
    <3> DEFINE n == levels + more
    <3>1. n \in Nat /\ top <= n
      BY <1>1
    <3> HIDE DEF n
    <3>2. Index(k, Place(stack, top), top, n) = Index(k, Place(stack, l), l, n)
      BY <1>1, <1>3, <1>4, <2>1, <3>1, BackUpAll
    <3>3. QED
      BY <1>4, <3>2 DEF n
  <2>4. Children(Place(stack, l), l, k)
    <3>1. \A j \in 1 .. l : j < l => stack[j] \in 1 .. k
      BY <1>1, <1>3, <1>4 DEF Entered
    <3>2. \A j \in 1 .. l : j < l \/ j = l
      BY <1>3
    <3>3. QED
      BY <2>1, <3>1, <3>2 DEF Children, Place
  <2>5. Leads(Place(stack, l), l, i, walk.far, levels, more)
    BY <1>3, <2>2, <2>3, <2>4 DEF Leads
  <2>6. QED
    BY <1>2, <1>6, <2>1, <2>5 DEF l, stack
<1>7. QED
  BY <1>5, <1>6

LEMMA WalkingStart ==
  ASSUME k \in Nat, NEW levels \in Nat, levels >= 1, NEW more \in Nat
  PROVE  Walking(DepthFirst!Start(levels), 0, levels, more)
<1> DEFINE walk == DepthFirst!Start(levels)
<1>1. walk = [stack |-> [l \in 0 .. levels - 1 |-> 0], top |-> 0, far |-> 0]
  BY DEF DepthFirst!Start
<1> HIDE DEF walk
<1>2. /\ walk.top = 0 /\ walk.far = 0 /\ 0 \in 0 .. levels - 1
      /\ walk.stack \in [0 .. levels - 1 -> 0 .. k] /\ walk.stack[0] = 0
  BY <1>1
<1>3. Entered(walk.stack, 0 - 1)
  BY DEF Entered
<1> DEFINE p == Place(walk.stack, 0)
<1>4. Numbers(p, 0)
  BY DEF Numbers
<1> HIDE DEF p
<1>5. \A n \in Nat : Index(k, p, 0, n) = 0
  BY <1>4, IndexOfs
<1>6. Index(k, p, 0, levels) = 0 /\ Index(k, p, 0, levels + more) = 0
  BY <1>5
<1>7. Walking(walk, 0, levels, more)
  BY <1>2, <1>3, <1>6 DEF Walking, p
<1>8. QED
  BY <1>7 DEF walk

\* From a node to its first child, in a tree of any number of levels.
LEMMA FirstChild ==
  ASSUME k \in Nat, NEW n \in Nat, NEW l \in Nat, l < n,
         NEW p, Children(p, l, k), NEW r, Agree(r, p, l), r[l + 1] = 0
  PROVE  Index(k, r, l + 1, n) = Index(k, p, l, n) + 1
<1>1. Numbers(r, l + 1)
  <2>1. \A j \in 1 .. l + 1 : j \in 1 .. l \/ j = l + 1
    OBVIOUS
  <2>2. QED
    BY <2>1 DEF Numbers, Children, Agree
<1>2. Agree(p, r, l)
  BY DEF Agree
<1> DEFINE e == NumElements(k, n - (l + 1))
<1>3. e \in Nat
  <2>1. n - (l + 1) \in Nat
    OBVIOUS
  <2>2. QED
    BY <2>1, ElementsOf
<1>4. Index(k, r, l + 1, n) = Index(k, p, l, n) + 1 + r[l + 1] * e
  BY <1>1, <1>2, NextIndex
<1>5. Index(k, p, l, n) \in Nat
  <2>1. Numbers(p, l)
    BY DEF Numbers, Children
  <2>2. QED
    BY <2>1, IndexOfs
<1> HIDE DEF e
<1>6. r[l + 1] * e = 0
  BY <1>3
<1>7. QED
  BY <1>4, <1>5, <1>6

\* From a node to its next sibling.
LEMMA NextSibling ==
  ASSUME k \in Nat, NEW n \in Nat, NEW l \in Nat, l >= 1, l <= n,
         NEW p, Children(p, l, k), NEW r, Agree(r, p, l - 1), r[l] = p[l] + 1
  PROVE  Index(k, r, l, n) = Index(k, p, l, n) + NumElements(k, n - l)
<1> DEFINE m == l - 1
           e == NumElements(k, n - l)
<1>1. m \in Nat /\ m + 1 = l /\ m < n /\ m <= n /\ n - l \in Nat
  OBVIOUS
<1>2. e \in Nat
  BY <1>1, ElementsOf
<1>3. p[l] \in Nat /\ \A j \in 1 .. m : p[j] \in Nat /\ r[j] = p[j]
  BY DEF Children, Agree
<1>4. Numbers(p, l) /\ Numbers(r, l) /\ Agree(p, p, m) /\ Agree(p, r, m) /\ Numbers(p, m)
  <2>1. \A j \in 1 .. l : j \in 1 .. m \/ j = l
    BY <1>1
  <2>2. QED
    BY <1>3, <2>1 DEF Numbers, Agree
<1> HIDE DEF m
<1>5. Numbers(p, m + 1) /\ Numbers(r, m + 1)
  BY <1>1, <1>4
<1>6. Index(k, p, m + 1, n) = Index(k, p, m, n) + 1 + p[m + 1] * NumElements(k, n - (m + 1))
  BY <1>1, <1>4, <1>5, NextIndex
<1>7. Index(k, r, m + 1, n) = Index(k, p, m, n) + 1 + r[m + 1] * NumElements(k, n - (m + 1))
  BY <1>1, <1>4, <1>5, NextIndex
<1>8. Index(k, p, m, n) \in Nat
  BY <1>1, <1>4, IndexOfs
<1> DEFINE x == Index(k, p, m, n)
           c == p[l]
<1>9. Index(k, p, l, n) = x + 1 + c * e /\ Index(k, r, l, n) = x + 1 + (c + 1) * e
  BY <1>1, <1>6, <1>7
<1>10. c \in Nat /\ x \in Nat
  BY <1>3, <1>8
<1> HIDE DEF x, c, e
<1>11. c * e \in Nat /\ (c + 1) * e = c * e + e
  BY <1>2, <1>10
<1>12. Index(k, r, l, n) = Index(k, p, l, n) + e
  BY <1>2, <1>9, <1>10, <1>11
<1>13. QED
  BY <1>12 DEF e

LEMMA WalkingStep ==
  ASSUME k \in Nat, k >= 2, NEW levels \in Nat, NEW more \in Nat, NEW i \in Nat,
         i + 1 < NumElements(k, levels),
         NEW walk, Walking(walk, i, levels, more),
         NEW jump, jump = NumElements(k, more + 1) - 1
  PROVE  Walking(DepthFirst!Step(walk, levels, jump), i + 1, levels, more)
<1> DEFINE l == DepthFirst!Level(walk)
           p == Place(walk.stack, l)
           next == DepthFirst!Step(walk, levels, jump)
           r == Place(next.stack, next.top)
           n == levels + more
<1>1. /\ Back(walk, l) /\ walk.stack[l] \in 0 .. k - 1 /\ (l = 0 => i = 0)
      /\ Leads(p, l, i, walk.far, levels, more)
  <2>1. i < NumElements(k, levels)
    <3>1. NumElements(k, levels) \in Nat
      BY ElementsOf
    <3>2. QED
      BY <3>1
  <2>2. QED
    BY <2>1, StandsAt
<1>2. next = [stack |-> [m \in 0 .. levels - 1 |-> IF m = l THEN walk.stack[l] + 1
                                                   ELSE IF m > l THEN 0 ELSE walk.stack[m]],
              top |-> IF l = levels - 1 THEN l ELSE l + 1,
              far |-> walk.far + 1 + (IF l = levels - 1 THEN jump ELSE 0)]
  BY DEF DepthFirst!Step
<1> HIDE DEF l, next
<1>3. /\ walk.top \in 0 .. levels - 1 /\ l \in 0 .. walk.top /\ l \in 0 .. levels - 1
      /\ l \in Nat /\ l <= levels
  <2>1. walk.top \in 0 .. levels - 1
    BY DEF Walking
  <2>2. l \in 0 .. walk.top
    BY <1>1 DEF Back
  <2>3. QED
    BY <2>1, <2>2
<1>4. /\ walk.stack \in [0 .. levels - 1 -> 0 .. k] /\ Entered(walk.stack, walk.top - 1)
  BY DEF Walking
<1>5. \A j \in 1 .. l : p[j] = IF j < l THEN walk.stack[j] - 1 ELSE walk.stack[j]
  BY DEF Place
<1>6. /\ Children(p, l, k) /\ Index(k, p, l, levels) = i /\ Index(k, p, l, n) = walk.far
  BY <1>1 DEF Leads
<1> DEFINE new == next.stack
<1>7. /\ new[l] = walk.stack[l] + 1 /\ new[l] \in 1 .. k
      /\ \A j \in 0 .. l - 1 : new[j] = walk.stack[j]
      /\ \A j \in l + 1 .. levels - 1 : new[j] = 0
  <2>1. \A j \in 0 .. levels - 1 : new[j] = IF j = l THEN walk.stack[l] + 1
                                            ELSE IF j > l THEN 0 ELSE walk.stack[j]
    BY <1>2
  <2>2. \A j \in 0 .. l - 1 : j \in 0 .. levels - 1 /\ j # l /\ ~ (j > l)
    BY <1>3
  <2>3. \A j \in l + 1 .. levels - 1 : j \in 0 .. levels - 1 /\ j # l /\ j > l
    BY <1>3
  <2> HIDE DEF new
  <2>4. new[l] = walk.stack[l] + 1
    BY <1>3, <2>1
  <2>5. new[l] \in 1 .. k
    BY <1>1, <2>4
  <2>6. QED
    BY <2>1, <2>2, <2>3, <2>4, <2>5
<1>8. new \in [0 .. levels - 1 -> 0 .. k]
  <2>1. \A j \in 0 .. levels - 1 : new[j] \in 0 .. k
    <3>1. \A j \in 0 .. levels - 1 : j \in 0 .. l - 1 \/ j = l \/ j \in l + 1 .. levels - 1
      BY <1>3
    <3>2. \A j \in 0 .. l - 1 : new[j] \in 0 .. k
      <4>1. \A j \in 0 .. l - 1 : j \in 0 .. levels - 1
        BY <1>3
      <4>2. QED
        BY <1>4, <1>7, <4>1
    <3>3. QED
      BY <1>7, <3>1, <3>2
  <2>2. new = [j \in 0 .. levels - 1 |-> new[j]]
    BY <1>2
  <2>3. QED
    BY <2>1, <2>2
<1>9. next.top = (IF l = levels - 1 THEN l ELSE l + 1) /\ next.top \in 0 .. levels - 1
  BY <1>2, <1>3
<1>10. Entered(new, l)
  <2>1. \A j \in 1 .. l : j = l \/ (j \in 0 .. l - 1 /\ j \in 1 .. walk.top - 1)
    BY <1>3
  <2>2. QED
    BY <1>4, <1>7, <2>1 DEF Entered
<1>11. Entered(new, next.top - 1)
  BY <1>3, <1>9, <1>10 DEF Entered
<1>12. n \in Nat /\ l <= n /\ l < n
  BY <1>3
<1>13. /\ Index(k, r, next.top, levels) = i + 1
       /\ Index(k, r, next.top, n) = next.far
  <2>1. CASE l # levels - 1
    <3>1. next.top = l + 1 /\ next.far = walk.far + 1 /\ l < levels /\ l + 1 \in l + 1 .. levels - 1
      <4>1. walk.far \in Int
        <5>1. Numbers(p, l)
          BY <1>6 DEF Children, Numbers
        <5>2. Index(k, p, l, n) \in Nat
          BY <1>3, <1>12, <5>1, IndexOfs
        <5>3. QED
          BY <1>6, <5>2
      <4>2. QED
        BY <1>2, <1>3, <2>1, <4>1
    <3>2. \A j \in 1 .. l + 1 : r[j] = IF j < l + 1 THEN new[j] - 1 ELSE new[j]
      BY <3>1 DEF Place
    <3>3. r[l + 1] = 0
      BY <1>3, <1>7, <3>1, <3>2
    <3>4. Agree(r, p, l)
      <4>1. ASSUME NEW j \in 1 .. l
            PROVE  r[j] = p[j]
        <5>1. j \in 1 .. l + 1 /\ j < l + 1 /\ (j = l \/ (j < l /\ j \in 0 .. l - 1))
          BY <1>3
        <5>2. r[j] = new[j] - 1
          BY <3>2, <5>1
        <5>3. CASE j = l
          <6>1. new[l] - 1 = walk.stack[l]
            BY <1>1, <1>7
          <6>2. QED
            BY <1>5, <5>2, <5>3, <6>1
        <5>4. CASE j < l /\ j \in 0 .. l - 1
          BY <1>5, <1>7, <5>2, <5>4
        <5>5. QED
          BY <5>1, <5>3, <5>4
      <4>2. QED
        BY <4>1 DEF Agree
    <3> HIDE DEF p, r, n, new
    <3>5. Index(k, r, l + 1, levels) = Index(k, p, l, levels) + 1
      BY <1>3, <1>6, <3>1, <3>3, <3>4, FirstChild
    <3>6. Index(k, r, l + 1, n) = Index(k, p, l, n) + 1
      BY <1>3, <1>6, <1>12, <3>3, <3>4, FirstChild
    <3>7. QED
      BY <1>6, <3>1, <3>5, <3>6
  <2>2. CASE l = levels - 1
    <3>1. next.top = l /\ next.far = walk.far + 1 + jump
      BY <1>2, <2>2
    <3>2. l >= 1
      <4>1. SUFFICES ASSUME l = 0 PROVE FALSE
        BY <1>3
      <4>2. i = 0 /\ levels = 0 + 1
        BY <1>1, <1>3, <2>2, <4>1
      <4>3. NumElements(k, 0 + 1) = k * 0 + 1
        BY ElementsOf
      <4>4. QED
        BY <4>2, <4>3
    <3>3. \A j \in 1 .. l : r[j] = IF j < l THEN new[j] - 1 ELSE new[j]
      BY <3>1 DEF Place
    <3>4. r[l] = p[l] + 1
      BY <1>3, <1>5, <1>7, <3>2, <3>3
    <3>5. Agree(r, p, l - 1)
      <4>1. ASSUME NEW j \in 1 .. l - 1
            PROVE  r[j] = p[j]
        <5>1. j \in 1 .. l /\ j < l /\ j \in 0 .. l - 1
          BY <1>3
        <5>2. QED
          BY <1>5, <1>7, <3>3, <5>1
      <4>2. QED
        BY <4>1 DEF Agree
    <3>6. n - l = more + 1 /\ levels - l = 0 + 1
      BY <1>3, <2>2
    <3>7. NumElements(k, 0 + 1) = 1 /\ NumElements(k, more + 1) \in Nat
      <4>1. NumElements(k, 0 + 1) = k * 0 + 1
        BY ElementsOf
      <4>2. more + 1 \in Nat
        OBVIOUS
      <4>3. QED
        BY <4>1, <4>2, ElementsOf
    <3> HIDE DEF p, r, n, new
    <3>8. Index(k, r, l, levels) = Index(k, p, l, levels) + NumElements(k, levels - l)
      BY <1>3, <1>6, <3>2, <3>4, <3>5, NextSibling
    <3>9. Index(k, r, l, n) = Index(k, p, l, n) + NumElements(k, n - l)
      BY <1>3, <1>6, <1>12, <3>2, <3>4, <3>5, NextSibling
    <3>10. walk.far \in Int
      <4>1. Numbers(p, l)
        BY <1>6 DEF Children, Numbers
      <4>2. Index(k, p, l, n) \in Nat
        BY <1>3, <1>12, <4>1, IndexOfs
      <4>3. QED
        BY <1>6, <4>2
    <3>11. Index(k, r, l, levels) = i + 1
      BY <1>6, <3>6, <3>7, <3>8
    <3>12. Index(k, r, l, n) = walk.far + 1 + jump
      BY <1>6, <3>6, <3>7, <3>9, <3>10
    <3>13. QED
      BY <3>1, <3>11, <3>12
  <2>3. QED
    BY <2>1, <2>2
<1>14. i + 1 # 0
  OBVIOUS
<1>15. Walking(next, i + 1, levels, more)
  BY <1>8, <1>9, <1>11, <1>13, <1>14 DEF Walking
<1>16. QED
  BY <1>15 DEF next

\* Each state of the walk is at the path to its element.
LEMMA WalkLeads ==
  ASSUME k \in Nat, k >= 2, NEW levels \in Nat, levels >= 1, NEW more \in Nat,
         NEW i \in 0 .. NumElements(k, levels) - 1
  PROVE  Walking(DepthFirst!Walk(levels, DepthFirst!Jump(more))[i], i, levels, more)
<1> DEFINE jump == DepthFirst!Jump(more)
           walk == DepthFirst!Walk(levels, jump)
           n == NumElements(k, levels)
           T == {j \in Nat : j <= n - 1 => Walking(walk[j], j, levels, more)}
<1>1. n \in Nat
  BY ElementsOf
<1>2. jump = NumElements(k, more + 1) - 1 /\ jump \in Int
  <2>1. more + 1 \in Nat
    OBVIOUS
  <2>2. NumElements(k, more + 1) \in Nat
    BY <2>1, ElementsOf
  <2>3. QED
    BY <2>2, DepthFirstSame
<1> HIDE DEF jump
<1>3. /\ 0 <= n - 1 => walk[0] = DepthFirst!Start(levels)
      /\ \A j \in 0 .. n - 1 : j + 1 \in 0 .. n - 1 =>
           walk[j + 1] = DepthFirst!Step(walk[j], levels, jump)
  BY <1>1, <1>2, WalkOf
<1> HIDE DEF walk, n
<1>4. 0 \in T
  BY <1>3, WalkingStart
<1>5. ASSUME NEW j \in Nat, j \in T
      PROVE  j + 1 \in T
  <2>1. SUFFICES ASSUME j + 1 <= n - 1 PROVE Walking(walk[j + 1], j + 1, levels, more)
    OBVIOUS
  <2>2. j \in 0 .. n - 1 /\ j + 1 \in 0 .. n - 1 /\ j + 1 < n /\ Walking(walk[j], j, levels, more)
    BY <1>1, <1>5, <2>1
  <2>3. j + 1 < NumElements(k, levels)
    BY <2>2 DEF n
  <2>4. Walking(DepthFirst!Step(walk[j], levels, jump), j + 1, levels, more)
    BY <1>2, <2>2, <2>3, WalkingStep
  <2>5. QED
    BY <1>3, <2>2, <2>4
<1>6. Nat \subseteq T
  BY <1>4, <1>5, SetInduction
<1>7. i \in T /\ i <= n - 1
  BY <1>1, <1>6 DEF n
<1>8. Walking(walk[i], i, levels, more)
  BY <1>7
<1>9. QED
  BY <1>8 DEF walk, jump

\* Elements keep their order in the larger tree, and there is room for them.
LEMMA FarOf ==
  ASSUME k \in Nat, k >= 2, NEW levels \in Nat, levels >= 1, NEW more \in Nat,
         NEW n, n = NumElements(k, levels)
  PROVE  LET far == DepthFirst!Far(levels, DepthFirst!Jump(more))
         IN  /\ far \in [0 .. n - 1 -> 0 .. NumElements(k, levels + more) - 1]
             /\ \A i \in 0 .. n - 1 : i <= far[i]
             /\ \A i, j \in 0 .. n - 1 : i < j => far[i] < far[j]
             /\ \A i \in 0 .. n - 1 : \E p, l : Leads(p, l, i, far[i], levels, more)
<1> DEFINE jump == DepthFirst!Jump(more)
           walk == DepthFirst!Walk(levels, jump)
           far == DepthFirst!Far(levels, jump)
           big == NumElements(k, levels + more)
<1>1. n \in Nat
  BY ElementsOf
<1>2. jump \in Nat
  <2>1. more + 1 \in Nat
    OBVIOUS
  <2>2. NumElements(k, more + 1) \in Nat /\ NumElements(k, more + 1) >= 1
    <3>1. NumElements(k, more + 1) = k * NumElements(k, more) + 1 /\ NumElements(k, more) \in Nat
      BY ElementsOf
    <3>2. QED
      BY <3>1
  <2>3. QED
    BY <2>2, DepthFirstSame
<1>3. /\ walk \in [0 .. n - 1 -> Walks(levels)]
      /\ \A i \in 0 .. n - 1 : i + 1 \in 0 .. n - 1 =>
           walk[i + 1] = DepthFirst!Step(walk[i], levels, jump)
  <2> HIDE DEF jump
  <2>1. jump \in Int
    BY <1>2
  <2>2. QED
    BY <1>1, <2>1, WalkOf
<1>4. \A i \in 0 .. n - 1 : Walking(walk[i], i, levels, more)
  BY WalkLeads
<1>5. far = [i \in 0 .. n - 1 |-> walk[i].far]
  BY <1>3 DEF DepthFirst!Far
<1> HIDE DEF jump, walk, far
<1>6. ASSUME NEW i \in 0 .. n - 1
      PROVE  \E p, l : Leads(p, l, i, far[i], levels, more)
  <2>1. Walking(walk[i], i, levels, more) /\ i \in Nat /\ i < NumElements(k, levels)
    BY <1>1, <1>4
  <2>2. LET l == DepthFirst!Level(walk[i])
        IN  Leads(Place(walk[i].stack, l), l, i, walk[i].far, levels, more)
    BY <2>1, StandsAt
  <2>3. QED
    BY <1>5, <2>2
<1>7. ASSUME NEW i \in 0 .. n - 1
      PROVE  far[i] \in 0 .. big - 1
  <2>1. PICK p, l : Leads(p, l, i, far[i], levels, more)
    BY <1>6
  <2> DEFINE d == levels + more
             e == NumElements(k, d - l)
  <2>2. d \in Nat /\ l \in Nat /\ l <= d /\ (d - l) - 1 \in Nat /\ d - l \in Nat
    BY <2>1 DEF Leads
  <2>3. e \in Nat /\ e >= 1
    <3> DEFINE m == (d - l) - 1
    <3>1. m \in Nat /\ d - l = m + 1
      BY <2>2
    <3> HIDE DEF m
    <3>2. NumElements(k, m + 1) = k * NumElements(k, m) + 1 /\ NumElements(k, m) \in Nat
      BY <3>1, ElementsOf
    <3>3. NumElements(k, m + 1) \in Nat /\ NumElements(k, m + 1) >= 1
      BY <3>2
    <3>4. QED
      BY <3>1, <3>3
  <2> HIDE DEF d
  <2>4. Index(k, p, l, d) = far[i] /\ Children(p, l, k) /\ Numbers(p, l)
    BY <2>1 DEF Leads, d, Children, Numbers
  <2>5. Index(k, p, l, d) + e <= NumElements(k, d)
    BY <2>2, <2>4, SubtreeInside
  <2>6. Index(k, p, l, d) \in Nat
    BY <2>2, <2>4, IndexOfs
  <2>7. NumElements(k, d) \in Nat
    BY <2>2, ElementsOf
  <2> HIDE DEF e
  <2>8. far[i] \in 0 .. NumElements(k, d) - 1
    BY <2>3, <2>4, <2>5, <2>6, <2>7
  <2>9. QED
    BY <2>8 DEF d
<1>8. big \in Nat
  <2>1. levels + more \in Nat
    OBVIOUS
  <2>2. QED
    BY <2>1, ElementsOf
<1> HIDE DEF big
<1>9. far \in [0 .. n - 1 -> 0 .. big - 1] /\ \A i \in 0 .. n - 1 : far[i] \in Nat
  BY <1>5, <1>7, <1>8
<1>10. ASSUME NEW i \in 0 .. n - 1, i + 1 \in 0 .. n - 1
       PROVE  far[i] < far[i + 1]
  <2>1. far[i] = walk[i].far /\ far[i + 1] = DepthFirst!Step(walk[i], levels, jump).far
    BY <1>3, <1>5, <1>10
  <2>2. \E x \in {0, jump} : far[i + 1] = far[i] + 1 + x
    BY <2>1 DEF DepthFirst!Step
  <2>3. QED
    BY <1>2, <1>9, <2>2
<1>11. ASSUME NEW i \in 0 .. n - 1, NEW j \in 0 .. n - 1, i < j
       PROVE  far[i] < far[j]
  <2> DEFINE T == {m \in Nat : m <= n - 1 /\ i < m => far[i] < far[m]}
  <2>1. 0 \in T
    OBVIOUS
  <2>2. ASSUME NEW m \in Nat, m \in T
        PROVE  m + 1 \in T
    <3>1. SUFFICES ASSUME m + 1 <= n - 1, i < m + 1 PROVE far[i] < far[m + 1]
      OBVIOUS
    <3>2. m \in 0 .. n - 1 /\ m + 1 \in 0 .. n - 1 /\ (i = m \/ i < m) /\ m <= n - 1
      BY <1>1, <3>1
    <3>3. far[m] < far[m + 1]
      BY <1>10, <3>2
    <3>4. far[i] \in Nat /\ far[m] \in Nat /\ far[m + 1] \in Nat
      BY <1>9, <3>2
    <3>5. i < m => far[i] < far[m]
      BY <2>2, <3>2
    <3>6. QED
      BY <3>2, <3>3, <3>4, <3>5
  <2>3. Nat \subseteq T
    BY <2>1, <2>2, SetInduction
  <2>4. j \in T /\ j <= n - 1
    BY <1>1, <2>3
  <2>5. QED
    BY <1>11, <2>4
<1>12. ASSUME NEW i \in 0 .. n - 1
       PROVE  i <= far[i]
  <2> DEFINE T == {m \in Nat : m <= n - 1 => m <= far[m]}
  <2>1. 0 \in T
    BY <1>9
  <2>2. ASSUME NEW m \in Nat, m \in T
        PROVE  m + 1 \in T
    <3>1. SUFFICES ASSUME m + 1 <= n - 1 PROVE m + 1 <= far[m + 1]
      OBVIOUS
    <3>2. m \in 0 .. n - 1 /\ m + 1 \in 0 .. n - 1 /\ m <= n - 1
      BY <1>1, <3>1
    <3>3. far[m] < far[m + 1] /\ m <= far[m] /\ far[m] \in Nat /\ far[m + 1] \in Nat
      BY <1>9, <1>10, <2>2, <3>2
    <3>4. QED
      BY <3>3
  <2>3. Nat \subseteq T
    BY <2>1, <2>2, SetInduction
  <2>4. QED
    BY <1>1, <2>3
<1>13. QED
  BY <1>6, <1>9, <1>11, <1>12 DEF far, big, jump

\* The code's guard against backing up past the root is never needed.
LEMMA GuardIdleHolds ==
  ASSUME IInv
  PROVE  GuardIdle
<1> SUFFICES DepthFirst!GuardIdle
  BY DEF GuardIdle
<1>1. SUFFICES ASSUME NEW d \in 1 .. depth,
                      NEW i \in DOMAIN DepthFirst!Walk(d, DepthFirst!Jump(depth - d)),
                      DepthFirst!Level(DepthFirst!Walk(d, DepthFirst!Jump(depth - d))[i]) = 0
               PROVE  DepthFirst!Walk(d, DepthFirst!Jump(depth - d))[i].stack[0] # k
  BY DEF DepthFirst!GuardIdle
<1> DEFINE more == depth - d
           walk == DepthFirst!Walk(d, DepthFirst!Jump(more))
<1>2. k \in Nat /\ depth \in Nat
  BY KTreeAssumption DEF IInv, TypeOK
<1>3. d \in Nat /\ d >= 1 /\ more \in Nat /\ depth >= 1
  BY <1>2
<1>4. k >= 2
  BY <1>3 DEF IInv
<1>5. NumElements(k, d) \in Nat
  BY <1>2, <1>3, ElementsOf
<1>6. DOMAIN walk = 0 .. NumElements(k, d) - 1
  <2> DEFINE jump == DepthFirst!Jump(more)
             n == NumElements(k, d)
  <2>1. jump \in Int
    <3>1. more + 1 \in Nat
      BY <1>3
    <3>2. NumElements(k, more + 1) \in Nat
      BY <1>2, <3>1, ElementsOf
    <3>3. QED
      BY <3>2, DepthFirstSame
  <2> HIDE DEF jump
  <2>2. n \in Nat /\ n = NumElements(k, d)
    BY <1>5
  <2> HIDE DEF n
  <2>3. DepthFirst!Walk(d, jump) \in [0 .. n - 1 -> Walks(d)]
    BY <1>2, <1>3, <2>1, <2>2, WalkOf
  <2>4. QED
    BY <2>2, <2>3 DEF jump
<1>7. i \in Nat /\ i < NumElements(k, d)
  BY <1>1, <1>5, <1>6
<1> HIDE DEF more
<1>8. Walking(walk[i], i, d, more)
  <2>1. i \in 0 .. NumElements(k, d) - 1
    BY <1>5, <1>7
  <2>2. QED
    BY <1>2, <1>3, <1>4, <2>1, WalkLeads
<1> HIDE DEF walk
<1>9. walk[i].stack[DepthFirst!Level(walk[i])] \in 0 .. k - 1
  BY <1>2, <1>3, <1>4, <1>7, <1>8, StandsAt
<1>10. DepthFirst!Level(walk[i]) = 0
  BY <1>1 DEF walk, more
<1>11. walk[i].stack[0] # k
  BY <1>2, <1>9, <1>10
<1>12. QED
  BY <1>11 DEF walk, more

\* Distinct places for distinct elements.
LEMMA SameNumber ==
  ASSUME NEW S, IsFiniteSet(S), NEW f,
         \A x, y \in S : x # y => f[x] # f[y]
  PROVE  Cardinality({f[x] : x \in S}) = Cardinality(S)
<1> DEFINE T == {f[x] : x \in S}
           g == [x \in S |-> f[x]]
<1>1. g \in [S -> T] /\ \A x \in S : g[x] = f[x]
  OBVIOUS
<1> HIDE DEF g
<1>2. \A x, y \in S : g[x] = g[y] => x = y
  BY <1>1
<1>3. \A y \in T : \E x \in S : g[x] = y
  BY <1>1
<1> HIDE DEF T
<1>4. g \in Bijection(S, T)
  BY <1>1, <1>2, <1>3 DEF Bijection, Injection, Surjection, IsInjective
<1>5. ExistsBijection(S, T)
  BY <1>4 DEF ExistsBijection
<1>6. Cardinality(T) = Cardinality(S)
  BY <1>5, FS_Bijection
<1>7. QED
  BY <1>6 DEF T

LEMMA DepthFirstIncreaseInv ==
  ASSUME IInv, UNCHANGED order, NEW d \in Depths, DepthFirst!IncreaseDepth(d)
  PROVE  IInv'
<1> DEFINE dst == DepthFirst!Far(depth, DepthFirst!Jump(d - depth))
           src(i) == {s \in 0 .. capacity - 1 : dst[s] = i}
           n == NumElements(k, d)
           more == d - depth
<1>1. /\ CanIncrease(d)
      /\ active' = {dst[s] : s \in active}
      /\ data' = [i \in 0 .. n - 1 |->
                    IF src(i) = {} THEN None ELSE data[CHOOSE s \in src(i) : TRUE]]
      /\ NewShape(d, size)
      /\ Returns("SUCCESS", None)
  BY DepthFirstSame DEF DepthFirst!IncreaseDepth
<1>2. /\ k \in Nat /\ depth \in Nat /\ d \in Nat /\ depth < d /\ k >= 2 /\ depth >= 1
      /\ capacity = NumElements(k, depth)
      /\ d \in 0 .. MaxDepth /\ memBlock
  BY <1>1, KTreeAssumption DEF IInv, TypeOK, CanIncrease, Depths
<1>3. more \in Nat /\ depth + more = d
  BY <1>2
<1>4. capacity \in Nat /\ n \in Nat
  BY <1>2, ElementsOf
<1> HIDE DEF more
<1>5. /\ dst \in [0 .. capacity - 1 -> 0 .. n - 1]
      /\ \A i, j \in 0 .. capacity - 1 : i < j => dst[i] < dst[j]
  <2>1. /\ DepthFirst!Far(depth, DepthFirst!Jump(more))
             \in [0 .. capacity - 1 -> 0 .. NumElements(k, depth + more) - 1]
        /\ \A i, j \in 0 .. capacity - 1 :
             i < j => DepthFirst!Far(depth, DepthFirst!Jump(more))[i]
                        < DepthFirst!Far(depth, DepthFirst!Jump(more))[j]
    BY <1>2, <1>3, FarOf
  <2>2. QED
    BY <1>3, <2>1 DEF more
<1> HIDE DEF dst, n
<1>6. active \subseteq 0 .. capacity - 1 /\ data \in [0 .. capacity - 1 -> Value \cup {None}]
  BY DEF IInv, TypeOK
<1>7. \A i, j \in 0 .. capacity - 1 : i # j => dst[i] # dst[j]
  <2>1. ASSUME NEW i \in 0 .. capacity - 1, NEW j \in 0 .. capacity - 1, i # j
        PROVE  dst[i] # dst[j]
    <3>1. dst[i] \in Nat /\ dst[j] \in Nat /\ (i < j \/ j < i)
      BY <1>5, <2>1
    <3>2. QED
      BY <1>5, <3>1
  <2>2. QED
    BY <2>1
<1>8. \A s \in active : dst[s] \in 0 .. n - 1 /\ data'[dst[s]] = data[s]
  <2>1. ASSUME NEW s \in active
        PROVE  dst[s] \in 0 .. n - 1 /\ data'[dst[s]] = data[s]
    <3>1. s \in 0 .. capacity - 1 /\ dst[s] \in 0 .. n - 1
      BY <1>5, <1>6
    <3>2. src(dst[s]) = {s}
      BY <1>7, <3>1
    <3>3. src(dst[s]) # {} /\ (CHOOSE x \in src(dst[s]) : TRUE) = s
      BY <3>2
    <3>4. QED
      BY <1>1, <3>1, <3>3
  <2>2. QED
    BY <2>1
<1>9. data' \in [0 .. n - 1 -> Value \cup {None}]
  <2>1. ASSUME NEW i, src(i) # {}
        PROVE  data[CHOOSE s \in src(i) : TRUE] \in Value \cup {None}
    <3>1. (CHOOSE s \in src(i) : TRUE) \in src(i)
      BY <2>1
    <3>2. (CHOOSE s \in src(i) : TRUE) \in 0 .. capacity - 1
      BY <3>1
    <3>3. QED
      BY <1>6, <3>2
  <2> HIDE DEF src
  <2>2. QED
    BY <1>1, <2>1
<1>10. capacity' = n /\ depth' = d /\ UNCHANGED <<memBlock, k, size>> /\ ret'.out = None
  BY <1>1 DEF NewShape, Returns, n
<1>11. active' \subseteq 0 .. n - 1
  BY <1>1, <1>8
<1>12. TypeOK'
  <2>1. capacity' = NumElements(k', depth')
    BY <1>10 DEF n
  <2>2. QED
    BY <1>2, <1>9, <1>10, <1>11, <2>1 DEF IInv, TypeOK
<1>13. SizeCounts'
  <2>1. Cardinality(active') = Cardinality(active)
    <3>1. IsFiniteSet(active)
      BY ActiveFinite DEF IInv
    <3>2. \A x, y \in active : x # y => dst[x] # dst[y]
      BY <1>6, <1>7
    <3>3. QED
      BY <1>1, <3>1, <3>2, SameNumber
  <2>2. \A i \in active' : data'[i] # None
    <3>1. \A s \in active : data[s] # None
      BY DEF IInv, SizeCounts
    <3>2. QED
      BY <1>1, <1>8, <3>1
  <2>3. QED
    BY <1>10, <2>1, <2>2 DEF IInv, SizeCounts
<1>14. QED
  BY <1>2, <1>10, <1>12, <1>13 DEF IInv

\* What lies where after n of the moves of a decrease: the first n places hold
\* what the walk found, the others what they held.
MovedTo(m, src, n) ==
  /\ m.bits \subseteq 0 .. capacity - 1
  /\ m.data \in [0 .. capacity - 1 -> Value \cup {None}]
  /\ \A i \in 0 .. capacity - 1 :
       /\ i \in m.bits <=> (IF i < n THEN src[i] \in active ELSE i \in active)
       /\ m.data[i] = (IF i < n THEN data[src[i]] ELSE data[i])
  /\ m.size = Cardinality({i \in 0 .. n - 1 : src[i] \in active})

\* One move, of the element at src[n] to place n.
Moving(old, src, n) ==
  LET isSet == src[n] \in old.bits
  IN  [bits |-> DepthFirst!Set(old.bits, n, isSet),
       data |-> [old.data EXCEPT ![n] = old.data[src[n]]],
       size |-> old.size + IF isSet THEN 1 ELSE 0]

LEMMA MovingOne ==
  ASSUME IInv, capacity \in Nat, NEW n \in 0 .. capacity - 1, NEW src,
         src[n] \in n .. capacity - 1, NEW old, MovedTo(old, src, n)
  PROVE  MovedTo(Moving(old, src, n), src, n + 1)
<1> DEFINE new == Moving(old, src, n)
           isSet == src[n] \in old.bits
<1>1. /\ new.bits = IF isSet THEN old.bits \cup {n} ELSE old.bits \ {n}
      /\ new.data = [old.data EXCEPT ![n] = old.data[src[n]]]
      /\ new.size = old.size + IF isSet THEN 1 ELSE 0
  BY DEF Moving, DepthFirst!Set
<1>2. /\ src[n] \in 0 .. capacity - 1 /\ ~ (src[n] < n)
  OBVIOUS
<1>3. /\ isSet <=> src[n] \in active
      /\ old.data[src[n]] = data[src[n]]
      /\ data[src[n]] \in Value \cup {None}
  BY <1>2 DEF MovedTo, IInv, TypeOK
<1> HIDE DEF new, isSet
<1>4. /\ old.bits \subseteq 0 .. capacity - 1
      /\ old.data \in [0 .. capacity - 1 -> Value \cup {None}]
      /\ \A i \in 0 .. capacity - 1 :
           /\ i \in old.bits <=> (IF i < n THEN src[i] \in active ELSE i \in active)
           /\ old.data[i] = (IF i < n THEN data[src[i]] ELSE data[i])
      /\ old.size = Cardinality({i \in 0 .. n - 1 : src[i] \in active})
  BY DEF MovedTo
<1>5. new.bits \subseteq 0 .. capacity - 1
  BY <1>1, <1>4
<1>6. new.data \in [0 .. capacity - 1 -> Value \cup {None}]
  BY <1>1, <1>3, <1>4
<1>7. ASSUME NEW i \in 0 .. capacity - 1
      PROVE  /\ i \in new.bits <=> (IF i < n + 1 THEN src[i] \in active ELSE i \in active)
             /\ new.data[i] = (IF i < n + 1 THEN data[src[i]] ELSE data[i])
  <2>1. CASE i = n
    <3>1. n < n + 1
      OBVIOUS
    <3>2. n \in new.bits <=> isSet
      BY <1>1
    <3>3. new.data[n] = data[src[n]]
      BY <1>1, <1>3, <1>4
    <3>4. QED
      BY <1>3, <2>1, <3>1, <3>2, <3>3
  <2>2. CASE i # n
    <3>1. i < n + 1 <=> i < n
      BY <2>2
    <3>2. (i \in new.bits <=> i \in old.bits) /\ new.data[i] = old.data[i]
      BY <1>1, <1>4, <2>2
    <3>3. QED
      BY <1>4, <3>1, <3>2
  <2>3. QED
    BY <2>1, <2>2
<1>8. new.size = Cardinality({i \in 0 .. (n + 1) - 1 : src[i] \in active})
  <2> DEFINE S == {i \in 0 .. n - 1 : src[i] \in active}
             T == {i \in 0 .. (n + 1) - 1 : src[i] \in active}
  <2>1. IsFiniteSet(S)
    <3>1. IsFiniteSet(0 .. n - 1)
      BY FS_Interval
    <3>2. QED
      BY <3>1, FS_Subset
  <2>2. T = IF isSet THEN S \cup {n} ELSE S
    <3>1. \A i : i \in 0 .. (n + 1) - 1 <=> i \in 0 .. n - 1 \/ i = n
      OBVIOUS
    <3>2. \A i : i \in T <=> i \in (IF isSet THEN S \cup {n} ELSE S)
      BY <1>3, <3>1
    <3> HIDE DEF S, T
    <3>3. QED
      BY <3>2
  <2>3. n \notin S
    OBVIOUS
  <2> HIDE DEF T
  <2>4. Cardinality(T) = Cardinality(S) + IF isSet THEN 1 ELSE 0
    <3> HIDE DEF S
    <3>1. Cardinality(S) \in Nat
      BY <2>1, FS_CardinalityType
    <3>2. Cardinality(S \cup {n}) = Cardinality(S) + 1
      BY <2>1, <2>3, FS_AddElement
    <3>3. QED
      BY <2>2, <3>1, <3>2
  <2>5. QED
    BY <1>1, <1>4, <2>4 DEF T
<1>9. MovedTo(new, src, n + 1)
  BY <1>5, <1>6, <1>7, <1>8 DEF MovedTo
<1>10. QED
  BY <1>9 DEF new

\* What a decrease makes of the bits, the elements and the count.
LEMMA MovedOf ==
  ASSUME IInv, NEW d \in Nat, k \in Nat, depth \in Nat, k >= 2, d >= 1, d < depth,
         NEW n, n = NumElements(k, d), NEW src,
         src = DepthFirst!Far(d, DepthFirst!Jump(depth - d))
  PROVE  /\ src \in [0 .. n - 1 -> 0 .. capacity - 1]
         /\ \A i, j \in 0 .. n - 1 : i < j => src[i] < src[j]
         /\ MovedTo(DepthFirst!Moved(d), src, n)
<1> DEFINE more == depth - d
<1>1. more \in Nat /\ d + more = depth
  OBVIOUS
<1>2. capacity = NumElements(k, depth) /\ capacity \in Nat /\ n \in Nat /\ n < capacity
  BY ElementsOf, MoreLevels DEF IInv, TypeOK
<1>3. /\ src \in [0 .. n - 1 -> 0 .. capacity - 1]
      /\ \A i \in 0 .. n - 1 : i <= src[i]
      /\ \A i, j \in 0 .. n - 1 : i < j => src[i] < src[j]
  <2>1. src = DepthFirst!Far(d, DepthFirst!Jump(more))
    OBVIOUS
  <2> HIDE DEF more
  <2>2. /\ src \in [0 .. n - 1 -> 0 .. NumElements(k, d + more) - 1]
        /\ \A i \in 0 .. n - 1 : i <= src[i]
        /\ \A i, j \in 0 .. n - 1 : i < j => src[i] < src[j]
    BY <1>1, <2>1, FarOf
  <2>3. QED
    BY <1>1, <1>2, <2>2
<1> DEFINE first == [bits |-> active, data |-> data, size |-> 0]
           All == [bits : SUBSET (0 .. capacity - 1),
                   data : [0 .. capacity - 1 -> Value \cup {None}], size : Int]
           Turn(old, i) == Moving(old, src, i)
           step == [i \in Nat |-> [old \in All |-> IF i < n THEN Turn(old, i) ELSE old]]
           Loop(f) == f = [i \in 0 .. n |-> IF i = 0 THEN first ELSE Turn(f[i - 1], i - 1)]
           moved == CHOOSE f : Loop(f)
<1>4. first \in All
  BY DEF IInv, TypeOK
<1>5. ASSUME NEW old \in All, NEW i \in Nat, i < n
      PROVE  Turn(old, i) \in All
  <2>1. src[i] \in 0 .. capacity - 1 /\ i \in 0 .. capacity - 1
    BY <1>2, <1>3, <1>5
  <2>2. /\ Turn(old, i).bits \in SUBSET (0 .. capacity - 1)
    BY <2>1 DEF Moving, DepthFirst!Set
  <2>3. [old.data EXCEPT ![i] = old.data[src[i]]] \in [0 .. capacity - 1 -> Value \cup {None}]
    BY <2>1
  <2>4. (old.size + IF src[i] \in old.bits THEN 1 ELSE 0) \in Int
    OBVIOUS
  <2>5. DepthFirst!Set(old.bits, i, src[i] \in old.bits) \in SUBSET (0 .. capacity - 1)
    BY <2>1 DEF DepthFirst!Set
  <2>6. QED
    BY <2>3, <2>4, <2>5 DEF Moving
<1> HIDE DEF first, Turn, All
<1>6. \E f : Loop(f)
  <2>1. step \in [Nat -> [All -> All]]
    BY <1>2, <1>5
  <2>2. \A i \in Nat, x \in All : i < n => step[i][x] = Turn(x, i)
    OBVIOUS
  <2> HIDE DEF step
  <2>3. PICK g : Loops(g, All, first, step)
    BY <1>4, <2>1, Recursion
  <2> DEFINE f == [i \in 0 .. n |-> g[i]]
  <2>4. ASSUME NEW i \in 0 .. n
        PROVE  f[i] = IF i = 0 THEN first ELSE Turn(f[i - 1], i - 1)
    <3>1. CASE i = 0
      BY <2>3, <3>1 DEF Loops
    <3>2. CASE i # 0
      <4>1. i - 1 \in Nat /\ (i - 1) + 1 = i /\ i - 1 \in 0 .. n /\ i - 1 < n
        BY <1>2, <3>2
      <4>2. g[i - 1] \in All
        BY <2>3, <4>1 DEF Loops
      <4>3. g[(i - 1) + 1] = step[i - 1][g[i - 1]]
        BY <2>3, <4>1 DEF Loops
      <4>4. g[i] = Turn(g[i - 1], i - 1)
        BY <2>2, <4>1, <4>2, <4>3
      <4>5. QED
        BY <3>2, <4>1, <4>4
    <3>3. QED
      BY <3>1, <3>2
  <2>5. Loop(f)
    <3> DEFINE h == [i \in 0 .. n |-> IF i = 0 THEN first ELSE Turn(f[i - 1], i - 1)]
    <3>1. \A i \in 0 .. n : f[i] = h[i]
      BY <2>4
    <3>2. DOMAIN f = 0 .. n /\ DOMAIN h = 0 .. n /\ f = [i \in 0 .. n |-> f[i]]
      OBVIOUS
    <3>3. h = [i \in 0 .. n |-> h[i]]
      OBVIOUS
    <3> HIDE DEF h
    <3>4. f = h
      BY <3>1, <3>2, <3>3
    <3>5. QED
      BY <3>4 DEF h
  <2> HIDE DEF f, Loop
  <2>6. QED
    BY <2>5
<1>7. Loop(moved)
  <2> HIDE DEF Loop
  <2>1. QED
    BY <1>6
<1>8. DepthFirst!Moved(d) = moved[n]
  <2>1. DepthFirst!NumElements(k, d) = n
    BY DepthFirstSame
  <2>2. QED
    BY <2>1 DEF DepthFirst!Moved, Turn, Moving, first
<1> HIDE DEF moved
<1>9. moved[0] = first
  BY <1>2, <1>7
<1>10. ASSUME NEW i \in 0 .. n - 1
       PROVE  moved[i + 1] = Turn(moved[i], i)
  <2>1. i + 1 \in 0 .. n /\ i + 1 # 0 /\ (i + 1) - 1 = i
    BY <1>2
  <2>2. QED
    BY <1>7, <2>1
<1> DEFINE T == {i \in Nat : i <= n => MovedTo(moved[i], src, i)}
<1>11. 0 \in T
  <2>1. {i \in 0 .. 0 - 1 : src[i] \in active} = {}
    OBVIOUS
  <2>2. Cardinality({}) = 0
    BY FS_EmptySet
  <2>3. first.bits = active /\ first.data = data /\ first.size = 0
    BY DEF first
  <2>4. \A i \in 0 .. capacity - 1 : ~ (i < 0)
    BY <1>2
  <2>5. active \subseteq 0 .. capacity - 1 /\ data \in [0 .. capacity - 1 -> Value \cup {None}]
    BY DEF IInv, TypeOK
  <2>6. MovedTo(first, src, 0)
    BY <2>1, <2>2, <2>3, <2>4, <2>5 DEF MovedTo
  <2>7. QED
    BY <1>9, <2>6
<1>12. ASSUME NEW i \in Nat, i \in T
       PROVE  i + 1 \in T
  <2>1. SUFFICES ASSUME i + 1 <= n PROVE MovedTo(moved[i + 1], src, i + 1)
    OBVIOUS
  <2>2. i \in 0 .. n - 1 /\ i \in 0 .. capacity - 1 /\ i <= n
    BY <1>2, <2>1
  <2>3. src[i] \in i .. capacity - 1
    <3>1. i <= src[i] /\ src[i] \in 0 .. capacity - 1
      BY <1>3, <2>2
    <3>2. QED
      BY <1>2, <3>1
  <2>4. MovedTo(moved[i], src, i)
    BY <1>12, <2>2
  <2>5. MovedTo(Moving(moved[i], src, i), src, i + 1)
    BY <1>2, <2>2, <2>3, <2>4, MovingOne
  <2>6. QED
    BY <1>10, <2>2, <2>5 DEF Turn
<1>13. Nat \subseteq T
  BY <1>11, <1>12, SetInduction
<1>14. MovedTo(moved[n], src, n)
  BY <1>2, <1>13
<1>15. QED
  BY <1>3, <1>8, <1>14

LEMMA DepthFirstDecreaseInv ==
  ASSUME IInv, UNCHANGED order, NEW d \in Depths, DepthFirst!DecreaseDepth(d)
  PROVE  IInv'
<1> DEFINE n == NumElements(k, d)
           moved == DepthFirst!Moved(d)
           src == DepthFirst!Far(d, DepthFirst!Jump(depth - d))
<1>1. /\ CanDecrease(d)
      /\ active' = moved.bits \ Cut(n)
      /\ data' = [i \in 0 .. n - 1 |-> moved.data[i]]
      /\ NewShape(d, moved.size)
      /\ Returns("SUCCESS", None)
  BY DepthFirstSame DEF DepthFirst!DecreaseDepth
<1>2. /\ k \in Nat /\ depth \in Nat /\ d \in Nat /\ d < depth /\ d >= 1 /\ k >= 2
      /\ capacity = NumElements(k, depth)
      /\ d \in 0 .. MaxDepth /\ memBlock
  BY <1>1, KTreeAssumption DEF IInv, TypeOK, CanDecrease, Depths
<1>3. capacity \in Nat /\ n \in Nat /\ n < capacity
  BY <1>2, ElementsOf, MoreLevels
<1>4. /\ src \in [0 .. n - 1 -> 0 .. capacity - 1]
      /\ \A i, j \in 0 .. n - 1 : i < j => src[i] < src[j]
      /\ MovedTo(moved, src, n)
  BY <1>2, MovedOf
<1>5. capacity' = n /\ depth' = d /\ UNCHANGED <<memBlock, k>> /\ size' = moved.size
      /\ ret'.out = None /\ capacity' = NumElements(k', depth')
  BY <1>1 DEF NewShape, Returns
<1> HIDE DEF n, moved, src
<1>6. active' = {i \in 0 .. n - 1 : src[i] \in active}
  <2>1. \A i \in 0 .. capacity - 1 : i \in Cut(n) <=> ~ (i < n)
    BY <1>3 DEF Cut
  <2>2. \A i : i \in active' <=> i \in 0 .. capacity - 1 /\ i < n /\ src[i] \in active
    BY <1>1, <1>4, <2>1 DEF MovedTo
  <2>3. \A i : i \in 0 .. capacity - 1 /\ i < n <=> i \in 0 .. n - 1
    BY <1>3
  <2>4. QED
    BY <2>2, <2>3
<1>7. \A i \in 0 .. n - 1 : data'[i] = data[src[i]] /\ src[i] \in 0 .. capacity - 1
  <2>1. \A i \in 0 .. n - 1 : i \in 0 .. capacity - 1 /\ i < n
    BY <1>3
  <2>2. QED
    BY <1>1, <1>4, <2>1 DEF MovedTo
<1>8. data' \in [0 .. n - 1 -> Value \cup {None}]
  BY <1>1, <1>7 DEF IInv, TypeOK
<1>9. TypeOK'
  BY <1>2, <1>5, <1>6, <1>8 DEF IInv, TypeOK
<1>10. SizeCounts'
  <2>1. size' = Cardinality(active')
    BY <1>4, <1>5, <1>6 DEF MovedTo
  <2>2. \A i \in active' : data'[i] # None
    BY <1>6, <1>7 DEF IInv, SizeCounts
  <2>3. QED
    BY <2>1, <2>2 DEF SizeCounts
<1>11. QED
  BY <1>2, <1>5, <1>9, <1>10 DEF IInv

-----------------------------------------------------------------------------
(* The theorems.                                                           *)

LEMMA InitInv == KTreesInit => IInv
<1> SUFFICES ASSUME KTreesInit PROVE IInv
  OBVIOUS
<1>1. /\ memBlock = FALSE /\ size = 0 /\ capacity = 0 /\ k = 0 /\ depth = 0 /\ active = {}
      /\ data = [i \in {} |-> None] /\ ret.out = None /\ order \in {"BFS", "DFS"}
  BY DEF KTreesInit, Init
<1>2. NumElements(0, 0) = 0
  BY ElementsOf
<1>3. TypeOK
  <2>1. 0 .. 0 - 1 = {} /\ [i \in {} |-> None] \in [{} -> Value \cup {None}]
    OBVIOUS
  <2>2. /\ capacity = NumElements(k, depth)
        /\ active \subseteq 0 .. capacity - 1
        /\ data \in [0 .. capacity - 1 -> Value \cup {None}]
    BY <1>1, <1>2, <2>1
  <2>3. memBlock \in BOOLEAN
    BY <1>1
  <2>4. k \in 0 .. MaxArity /\ depth \in 0 .. MaxDepth
    BY <1>1, KTreeAssumption
  <2>5. QED
    BY <1>1, <2>2, <2>3, <2>4 DEF TypeOK
<1>4. SizeCounts
  BY <1>1, FS_EmptySet DEF SizeCounts
<1>5. QED
  BY <1>1, <1>3, <1>4 DEF IInv

LEMMA StepInv ==
  ASSUME IInv, [Next]_<<vars, order>>
  PROVE  IInv'
<1>1. CASE UNCHANGED <<vars, order>>
  <2>1. TypeOK'
    BY <1>1 DEF IInv, TypeOK, vars, header
  <2>2. SizeCounts'
    BY <1>1 DEF IInv, SizeCounts, vars, header
  <2>3. QED
    BY <1>1, <2>1, <2>2 DEF IInv, vars, header
<1>2. CASE Common /\ UNCHANGED order
  BY <1>2, CommonInv
<1>3. CASE BreadthFirst!ChangeDepth /\ UNCHANGED order
  <2>1. PICK d \in Depths : BreadthFirst!IncreaseDepth(d) \/ BreadthFirst!DecreaseDepth(d)
    BY <1>3 DEF BreadthFirst!ChangeDepth, BreadthFirst!Depths, Depths
  <2>2. QED
    BY <1>3, <2>1, BreadthFirstIncreaseInv, BreadthFirstDecreaseInv
<1>4. CASE DepthFirst!ChangeDepth /\ UNCHANGED order
  <2>1. PICK d \in Depths : DepthFirst!IncreaseDepth(d) \/ DepthFirst!DecreaseDepth(d)
    BY <1>4 DEF DepthFirst!ChangeDepth, DepthFirst!Depths, Depths
  <2>2. QED
    BY <1>4, <2>1, DepthFirstIncreaseInv, DepthFirstDecreaseInv
<1>5. QED
  BY <1>1, <1>2, <1>3, <1>4 DEF Next

(***************************************************************************)
(* The inductive invariant of a k-tree of either order.                    *)
(***************************************************************************)
THEOREM Invariance == Spec => []IInv
<1>1. QED
  BY InitInv, StepInv, PTL DEF Spec

(***************************************************************************)
(* Every bit set in the bitmap is below the capacity, and the capacity is  *)
(* that of the arity and the depth, however the tree has grown and shrunk. *)
(***************************************************************************)
THEOREM TypeCorrect == Spec => []TypeOK
<1>1. IInv => TypeOK
  BY DEF IInv
<1>2. QED
  BY Invariance, <1>1, PTL

(***************************************************************************)
(* size is the number of bits set, each with its element: no change of     *)
(* depth, of either order, loses, invents or merges elements in use.       *)
(***************************************************************************)
THEOREM SizeIsRight == Spec => []SizeCounts
<1>1. IInv => SizeCounts
  BY DEF IInv
<1>2. QED
  BY Invariance, <1>1, PTL

(***************************************************************************)
(* The guards at k_tree.c:574 and k_tree.c:656 never trigger, for a tree   *)
(* of any arity and depth.                                                 *)
(***************************************************************************)
THEOREM GuardNeverTriggers == Spec => []GuardIdle
<1>1. IInv => GuardIdle
  BY GuardIdleHolds
<1>2. QED
  BY Invariance, <1>1, PTL

-----------------------------------------------------------------------------
(* Loops that end.                                                         *)

\* A loop of n turns that starts with first.
Turns(f, X, first, step, n) == /\ f \in [0 .. n -> X]
                               /\ f[0] = first
                               /\ \A i \in 1 .. n : f[i] = step[i - 1][f[i - 1]]

LEMMA FiniteRecursion ==
  ASSUME NEW X, NEW first \in X, NEW step \in [Nat -> [X -> X]], NEW n \in Nat
  PROVE  \E f : Turns(f, X, first, step, n)
<1>1. PICK g : Loops(g, X, first, step)
  BY Recursion
<1> DEFINE f == [i \in 0 .. n |-> g[i]]
<1>2. f \in [0 .. n -> X] /\ f[0] = first
  BY <1>1 DEF Loops
<1>3. ASSUME NEW i \in 1 .. n
      PROVE  f[i] = step[i - 1][f[i - 1]]
  <2>1. i - 1 \in Nat /\ (i - 1) + 1 = i /\ i \in 0 .. n /\ i - 1 \in 0 .. n
    OBVIOUS
  <2>2. g[(i - 1) + 1] = step[i - 1][g[i - 1]]
    BY <1>1, <2>1 DEF Loops
  <2>3. QED
    BY <2>1, <2>2
<1> HIDE DEF f
<1>4. QED
  BY <1>2, <1>3 DEF Turns

-----------------------------------------------------------------------------
(* Breadth-first order, and places within a level.                         *)

\* With c = 0, how many nodes of its level come before each node along a path;
\* with c = 1, the index of each in a breadth-first tree of arity a.
Climb(f, a, c, p, n) ==
  /\ f[0] = 0
  /\ \A i \in 0 .. n : f[i] \in Nat
  /\ \A i \in 1 .. n : f[i] = a * f[i - 1] + c + p[i]
Up(a, c, p, n) == (CHOOSE f : Climb(f, a, c, p, n))[n]

LEMMA ClimbExists ==
  ASSUME NEW a \in Nat, NEW c \in Nat, NEW n \in Nat, NEW p, Numbers(p, n)
  PROVE  \E f : Climb(f, a, c, p, n)
<1> DEFINE more(i) == IF i < n THEN c + p[i + 1] ELSE 0
           step == [i \in Nat |-> [x \in Nat |-> a * x + more(i)]]
<1>1. \A i \in Nat : more(i) \in Nat
  <2>1. ASSUME NEW i \in Nat, i < n
        PROVE  c + p[i + 1] \in Nat
    <3>1. i + 1 \in 1 .. n
      BY <2>1
    <3>2. p[i + 1] \in Nat
      BY <3>1 DEF Numbers
    <3>3. QED
      BY <3>2
  <2>2. QED
    BY <2>1
<1>2. step \in [Nat -> [Nat -> Nat]] /\ \A i, x \in Nat : step[i][x] = a * x + more(i)
  <2> HIDE DEF more
  <2>1. QED
    BY <1>1
<1>3. \A i \in 1 .. n : i - 1 \in Nat /\ more(i - 1) = c + p[i]
  OBVIOUS
<1> HIDE DEF step, more
<1>4. PICK f : Turns(f, Nat, 0, step, n)
  <2>1. 0 \in Nat
    OBVIOUS
  <2>2. QED
    BY <1>2, <2>1, FiniteRecursion
<1>5. ASSUME NEW i \in 1 .. n
      PROVE  f[i] = a * f[i - 1] + c + p[i]
  <2>1. i - 1 \in 0 .. n /\ f[i - 1] \in Nat /\ p[i] \in Nat
    BY <1>4 DEF Turns, Numbers
  <2>2. f[i] = a * f[i - 1] + more(i - 1)
    BY <1>2, <1>3, <1>4, <2>1 DEF Turns
  <2> DEFINE x == a * f[i - 1]
  <2>3. x \in Nat
    BY <2>1
  <2> HIDE DEF x
  <2>4. f[i] = x + (c + p[i])
    BY <1>3, <2>2 DEF x
  <2>5. f[i] = x + c + p[i]
    BY <2>1, <2>3, <2>4
  <2>6. QED
    BY <2>5 DEF x
<1>6. Climb(f, a, c, p, n)
  BY <1>4, <1>5 DEF Turns, Climb
<1>7. QED
  BY <1>6

LEMMA ClimbUnique ==
  ASSUME NEW a \in Nat, NEW c \in Nat, NEW n \in Nat, NEW p, NEW r, Agree(p, r, n),
         NEW f, Climb(f, a, c, p, n), NEW g, Climb(g, a, c, r, n)
  PROVE  f[n] = g[n]
<1> DEFINE T == {i \in Nat : i <= n => f[i] = g[i]}
<1>1. 0 \in T
  BY DEF Climb
<1>2. ASSUME NEW i \in Nat, i \in T
      PROVE  i + 1 \in T
  <2>1. SUFFICES ASSUME i + 1 <= n PROVE f[i + 1] = g[i + 1]
    OBVIOUS
  <2>2. f[i] = g[i]
    BY <1>2, <2>1
  <2> DEFINE j == i + 1
  <2>3. j \in 1 .. n /\ j - 1 = i
    BY <2>1
  <2> HIDE DEF j
  <2>4. /\ f[j] = a * f[j - 1] + c + p[j]
        /\ g[j] = a * g[j - 1] + c + r[j]
        /\ p[j] = r[j]
    BY <2>3 DEF Climb, Agree
  <2>5. f[j] = g[j]
    BY <2>2, <2>3, <2>4
  <2>6. QED
    BY <2>5 DEF j
<1>3. Nat \subseteq T
  BY <1>1, <1>2, SetInduction
<1>4. QED
  BY <1>3

LEMMA UpOf ==
  ASSUME NEW a \in Nat, NEW c \in Nat, NEW n \in Nat, NEW p, Numbers(p, n),
         NEW f, Climb(f, a, c, p, n)
  PROVE  \A m \in 0 .. n : Up(a, c, p, m) = f[m]
<1> SUFFICES ASSUME NEW m \in 0 .. n PROVE Up(a, c, p, m) = f[m]
  OBVIOUS
<1> DEFINE g == CHOOSE h : Climb(h, a, c, p, m)
<1>1. m \in Nat /\ Climb(f, a, c, p, m)
  BY DEF Climb
<1>2. Climb(g, a, c, p, m)
  BY <1>1
<1>3. Up(a, c, p, m) = g[m]
  BY DEF Up
<1> HIDE DEF g
<1>4. Agree(p, p, m)
  BY DEF Agree
<1>5. f[m] = g[m]
  BY <1>1, <1>2, <1>4, ClimbUnique
<1>6. QED
  BY <1>3, <1>5

\* From one level to the next, along paths that agree.
LEMMA NextUp ==
  ASSUME NEW a \in Nat, NEW c \in Nat, NEW n \in Nat, NEW p, Numbers(p, n)
  PROVE  /\ Up(a, c, p, n) \in Nat
         /\ n = 0 => Up(a, c, p, n) = 0
         /\ \A r : Agree(r, p, n - 1) /\ n > 0 =>
                     Up(a, c, p, n) = a * Up(a, c, r, n - 1) + c + p[n]
<1>1. PICK f : Climb(f, a, c, p, n)
  BY ClimbExists
<1>2. \A m \in 0 .. n : Up(a, c, p, m) = f[m]
  BY <1>1, UpOf
<1>3. Up(a, c, p, n) = f[n] /\ f[n] \in Nat /\ (n = 0 => f[n] = 0)
  BY <1>1, <1>2 DEF Climb
<1>4. ASSUME NEW r, Agree(r, p, n - 1), n > 0
      PROVE  Up(a, c, r, n - 1) = f[n - 1]
  <2> DEFINE m == n - 1
  <2>1. m \in Nat /\ m <= n /\ m \in 0 .. n
    BY <1>4
  <2>2. Agree(r, p, m) /\ Numbers(r, m)
    BY <1>4 DEF Agree, Numbers
  <2> HIDE DEF m
  <2>3. PICK g : Climb(g, a, c, r, m)
    BY <2>1, <2>2, ClimbExists
  <2>4. m \in 0 .. m
    BY <2>1
  <2>5. Up(a, c, r, m) = g[m]
    BY <2>1, <2>2, <2>3, <2>4, UpOf
  <2>6. Climb(f, a, c, p, m)
    BY <1>1, <2>1 DEF Climb
  <2>7. g[m] = f[m]
    BY <2>1, <2>2, <2>3, <2>6, ClimbUnique
  <2>8. QED
    BY <2>5, <2>7 DEF m
<1>5. n > 0 => f[n] = a * f[n - 1] + c + p[n]
  BY <1>1 DEF Climb
<1>6. QED
  BY <1>3, <1>4, <1>5

LEMMA UpStep ==
  ASSUME NEW a \in Nat, NEW c \in Nat, NEW n \in Nat, NEW p, Numbers(p, n + 1),
         NEW r, Agree(r, p, n)
  PROVE  Up(a, c, p, n + 1) = a * Up(a, c, r, n) + c + p[n + 1]
<1> DEFINE m == n + 1
<1>1. m \in Nat /\ m > 0 /\ m - 1 = n
  OBVIOUS
<1>2. Numbers(p, m)
  OBVIOUS
<1> HIDE DEF m
<1>3. Agree(r, p, m - 1)
  BY <1>1
<1>4. Up(a, c, p, m) = a * Up(a, c, r, m - 1) + c + p[m]
  BY <1>1, <1>2, <1>3, NextUp
<1>5. QED
  BY <1>1, <1>4 DEF m

\* A breadth-first index is the number of nodes on the levels above and before
\* it on its own, and those are fewer than the nodes of the level.
LEMMA IndexAndWidth ==
  ASSUME NEW a \in Nat, NEW n \in Nat, NEW p, Children(p, n, a)
  PROVE  /\ Up(a, 1, p, n) = NumElements(a, n) + Up(a, 0, p, n)
         /\ Up(a, 0, p, n) \in 0 .. Power(a, n) - 1
<1> DEFINE T == {m \in Nat : m <= n => /\ Up(a, 1, p, m) = NumElements(a, m) + Up(a, 0, p, m)
                                       /\ Up(a, 0, p, m) \in 0 .. Power(a, m) - 1}
<1>1. 0 \in T
  <2>1. Numbers(p, 0)
    BY DEF Numbers
  <2>2. Up(a, 0, p, 0) = 0 /\ Up(a, 1, p, 0) = 0
    BY <2>1, NextUp
  <2>3. NumElements(a, 0) = 0 /\ Power(a, 0) = 1
    BY ElementsOf, PowerOf
  <2>4. QED
    BY <2>2, <2>3
<1>2. ASSUME NEW m \in Nat, m \in T
      PROVE  m + 1 \in T
  <2>1. SUFFICES ASSUME m + 1 <= n
                 PROVE  /\ Up(a, 1, p, m + 1) = NumElements(a, m + 1) + Up(a, 0, p, m + 1)
                        /\ Up(a, 0, p, m + 1) \in 0 .. Power(a, m + 1) - 1
    OBVIOUS
  <2> DEFINE x == Up(a, 0, p, m)
             y == Up(a, 1, p, m)
             s == NumElements(a, m)
             w == Power(a, m)
             c == p[m + 1]
  <2>2. y = s + x /\ x \in 0 .. w - 1
    BY <1>2, <2>1
  <2>3. Numbers(p, m + 1) /\ Agree(p, p, m) /\ m + 1 \in 1 .. n
    BY <2>1 DEF Children, Numbers, Agree
  <2>4. c \in 0 .. a - 1
    BY <2>3 DEF Children
  <2>5. Up(a, 1, p, m + 1) = a * y + 1 + c /\ Up(a, 0, p, m + 1) = a * x + 0 + c
    BY <2>3, UpStep
  <2>6. s \in Nat /\ NumElements(a, m + 1) = a * s + 1 /\ w \in Nat /\ Power(a, m + 1) = a * w
    BY ElementsOf, PowerOf
  <2> HIDE DEF x, y, s, w, c
  <2>7. a * y = a * s + a * x /\ a * x \in Nat /\ a * s \in Nat
    BY <2>2, <2>6
  <2>8. (x + 1) * a <= w * a /\ (x + 1) * a = a * x + a /\ w * a = a * w
    <3>1. x + 1 \in Nat /\ x + 1 <= w
      BY <2>2, <2>6
    <3>2. (x + 1) * a <= w * a
      BY <2>6, <3>1, Times
    <3>3. QED
      BY <2>2, <2>6, <3>2
  <2>9. a * w \in Nat
    BY <2>6
  <2>10. Up(a, 0, p, m + 1) \in 0 .. Power(a, m + 1) - 1
    BY <2>4, <2>5, <2>6, <2>7, <2>8, <2>9
  <2>11. Up(a, 1, p, m + 1) = NumElements(a, m + 1) + Up(a, 0, p, m + 1)
    BY <2>4, <2>5, <2>6, <2>7
  <2>12. QED
    BY <2>10, <2>11
<1>3. Nat \subseteq T
  BY <1>1, <1>2, SetInduction
<1>4. QED
  BY <1>3

LEMMA SameQuotient ==
  ASSUME NEW a \in Nat, NEW x \in Nat, NEW y \in Nat, NEW c \in 0 .. a - 1, NEW e \in 0 .. a - 1,
         a * x + c = a * y + e
  PROVE  x = y /\ c = e
<1>1. ASSUME NEW u \in Nat, NEW v \in Nat, NEW g \in 0 .. a - 1, NEW h \in 0 .. a - 1, u < v
      PROVE  a * u + g < a * v + h
  <2>1. (u + 1) * a <= v * a
    <3>1. u + 1 \in Nat /\ u + 1 <= v
      BY <1>1
    <3>2. QED
      BY <3>1, Times
  <2>2. (u + 1) * a = a * u + a /\ v * a = a * v /\ a * u \in Nat /\ a * v \in Nat
    OBVIOUS
  <2>3. QED
    BY <2>1, <2>2
<1>2. x = y
  <2>1. a * x \in Nat /\ a * y \in Nat
    OBVIOUS
  <2>2. ~ (x < y) /\ ~ (y < x)
    BY <1>1, <2>1
  <2>3. QED
    BY <2>2
<1>3. a * x \in Nat
  OBVIOUS
<1>4. QED
  BY <1>2, <1>3

\* Nodes of different levels, and different nodes of one, have different indices.
LEMMA LevelsApart ==
  ASSUME NEW a \in Nat, a >= 1, NEW n \in Nat, NEW m \in Nat, n < m,
         NEW p, Children(p, n, a), NEW r, Children(r, m, a)
  PROVE  Up(a, 1, p, n) < NumElements(a, m) /\ NumElements(a, m) <= Up(a, 1, r, m)
<1>1. /\ Up(a, 1, p, n) = NumElements(a, n) + Up(a, 0, p, n)
      /\ Up(a, 0, p, n) \in 0 .. Power(a, n) - 1
      /\ Up(a, 1, r, m) = NumElements(a, m) + Up(a, 0, r, m)
      /\ Up(a, 0, r, m) \in 0 .. Power(a, m) - 1
  BY IndexAndWidth
<1>2. /\ NumElements(a, n) \in Nat /\ Power(a, n) \in Nat /\ NumElements(a, m) \in Nat
      /\ NumElements(a, n + 1) = NumElements(a, n) + Power(a, n)
  BY ElementsOf, PowerOf
<1>3. NumElements(a, n + 1) <= NumElements(a, m)
  <2>1. n + 1 \in Nat /\ n + 1 <= m
    OBVIOUS
  <2>2. QED
    BY <2>1, MoreLevels
<1>4. QED
  BY <1>1, <1>2, <1>3

LEMMA UniqueUp ==
  ASSUME NEW a \in Nat, NEW c \in Nat, NEW n \in Nat,
         NEW p, Children(p, n, a), NEW r, Children(r, n, a),
         Up(a, c, p, n) = Up(a, c, r, n)
  PROVE  Agree(p, r, n)
<1> DEFINE T == {m \in Nat : m <= n /\ Up(a, c, p, m) = Up(a, c, r, m) => Agree(p, r, m)}
<1>1. 0 \in T
  BY DEF Agree
<1>2. ASSUME NEW m \in Nat, m \in T
      PROVE  m + 1 \in T
  <2>1. SUFFICES ASSUME m + 1 <= n, Up(a, c, p, m + 1) = Up(a, c, r, m + 1)
                 PROVE  Agree(p, r, m + 1)
    OBVIOUS
  <2>2. /\ Numbers(p, m + 1) /\ Numbers(r, m + 1) /\ Numbers(p, m) /\ Numbers(r, m)
        /\ Agree(p, p, m) /\ Agree(r, r, m) /\ m + 1 \in 1 .. n
    BY <2>1 DEF Children, Numbers, Agree
  <2> DEFINE x == Up(a, c, p, m)
             y == Up(a, c, r, m)
             g == p[m + 1]
             h == r[m + 1]
  <2>3. g \in 0 .. a - 1 /\ h \in 0 .. a - 1
    BY <2>2 DEF Children
  <2>4. x \in Nat /\ y \in Nat
    BY <2>2, NextUp
  <2>5. Up(a, c, p, m + 1) = a * x + c + g /\ Up(a, c, r, m + 1) = a * y + c + h
    BY <2>2, UpStep
  <2> HIDE DEF x, y, g, h
  <2>6. a * x + g = a * y + h
    <3>1. a * x \in Nat /\ a * y \in Nat
      BY <2>4
    <3>2. QED
      BY <2>1, <2>3, <2>5, <3>1
  <2>7. x = y /\ g = h
    BY <2>3, <2>4, <2>6, SameQuotient
  <2>8. Agree(p, r, m)
    BY <1>2, <2>1, <2>7 DEF x, y
  <2>9. \A i \in 1 .. m + 1 : i \in 1 .. m \/ i = m + 1
    OBVIOUS
  <2>10. QED
    BY <2>7, <2>8, <2>9 DEF Agree, g, h
<1>3. Nat \subseteq T
  BY <1>1, <1>2, SetInduction
<1>4. QED
  BY <1>3

-----------------------------------------------------------------------------
(* Depth-first order: nodes and their subtrees.                            *)

\* A node's descendants come after it, and before its subtree ends.
LEMMA Below ==
  ASSUME NEW a \in Nat, NEW levels \in Nat, NEW n \in Nat, NEW l \in Nat, n <= l, l <= levels,
         NEW p, Children(p, l, a)
  PROVE  /\ Index(a, p, n, levels) + (l - n) <= Index(a, p, l, levels)
         /\ Index(a, p, l, levels) + NumElements(a, levels - l)
              <= Index(a, p, n, levels) + NumElements(a, levels - n)
<1> DEFINE Ends(i) == Index(a, p, i, levels) + NumElements(a, levels - i)
           T == {i \in Nat : n <= i /\ i <= l =>
                               /\ Index(a, p, n, levels) + (i - n) <= Index(a, p, i, levels)
                               /\ Ends(i) <= Ends(n)}
<1>1. \A i \in 0 .. l : Numbers(p, i) /\ i \in Nat /\ i <= levels /\ levels - i \in Nat
  BY DEF Children, Numbers
<1>2. \A i \in 0 .. l : Index(a, p, i, levels) \in Nat
  BY <1>1, IndexOfs
<1>3. \A i \in 0 .. l : NumElements(a, levels - i) \in Nat
  BY <1>1, ElementsOf
<1>4. n \in 0 .. l
  OBVIOUS
<1>5. 0 \in T
  <2>1. n <= 0 => n = 0
    OBVIOUS
  <2>2. QED
    BY <1>2, <1>3, <1>4, <2>1
<1>6. ASSUME NEW i \in Nat, i \in T
      PROVE  i + 1 \in T
  <2>1. SUFFICES ASSUME n <= i + 1, i + 1 <= l
                 PROVE  /\ Index(a, p, n, levels) + ((i + 1) - n) <= Index(a, p, i + 1, levels)
                        /\ Ends(i + 1) <= Ends(n)
    OBVIOUS
  <2>2. CASE n = i + 1
    <3>1. (i + 1) - n = 0
      BY <2>2
    <3>2. Index(a, p, n, levels) + 0 <= Index(a, p, n, levels) /\ Ends(n) <= Ends(n)
      BY <1>2, <1>3, <1>4
    <3>3. QED
      BY <2>2, <3>1, <3>2
  <2>3. CASE n <= i
    <3> DEFINE x == Index(a, p, i, levels)
               e == NumElements(a, levels - (i + 1))
               c == p[i + 1]
    <3>1. x \in Nat /\ e \in Nat
      <4>1. i \in 0 .. l /\ i + 1 \in 0 .. l
        BY <2>1
      <4>2. QED
        BY <1>2, <1>3, <4>1
    <3>2. c \in 0 .. a - 1
      BY <2>1 DEF Children
    <3>3. NumElements(a, levels - i) = a * e + 1
      <4> DEFINE m == levels - (i + 1)
      <4>1. m \in Nat /\ levels - i = m + 1
        BY <2>1
      <4> HIDE DEF m
      <4>2. NumElements(a, m + 1) = a * NumElements(a, m) + 1
        BY <4>1, ElementsOf
      <4>3. QED
        BY <4>1, <4>2 DEF m
    <3>4. Index(a, p, i + 1, levels) = x + 1 + c * e
      <4>1. Numbers(p, i + 1) /\ Agree(p, p, i) /\ i < levels
        BY <1>1, <2>1 DEF Agree
      <4>2. QED
        BY <4>1, NextIndex
    <3>5. /\ Index(a, p, n, levels) + (i - n) <= x
          /\ x + (a * e + 1) <= Index(a, p, n, levels) + NumElements(a, levels - n)
      BY <1>6, <2>1, <2>3, <3>3
    <3>6. Index(a, p, n, levels) \in Nat /\ NumElements(a, levels - n) \in Nat
      BY <1>2, <1>3, <1>4
    <3> HIDE DEF x, e, c
    <3>7. c * e \in Nat /\ (c + 1) * e = c * e + e /\ (c + 1) * e <= a * e /\ a * e \in Nat
      <4>1. c \in Nat /\ c + 1 \in Nat /\ c + 1 <= a
        BY <3>2
      <4>2. (c + 1) * e <= a * e
        BY <3>1, <4>1, Times
      <4>3. QED
        BY <3>1, <4>1, <4>2
    <3>8. Index(a, p, n, levels) + ((i + 1) - n) <= Index(a, p, i + 1, levels)
      BY <3>1, <3>4, <3>5, <3>6, <3>7
    <3>9. Index(a, p, i + 1, levels) + e <= Index(a, p, n, levels) + NumElements(a, levels - n)
      BY <3>1, <3>4, <3>5, <3>6, <3>7
    <3>10. QED
      BY <3>8, <3>9 DEF e
  <2>4. QED
    BY <2>1, <2>2, <2>3
<1>7. Nat \subseteq T
  BY <1>5, <1>6, SetInduction
<1>8. QED
  BY <1>7

\* Whoever takes the smaller child comes first.
LEMMA Before ==
  ASSUME NEW a \in Nat, NEW levels \in Nat, NEW n \in Nat, NEW l \in Nat, NEW m \in Nat,
         n + 1 <= l, n + 1 <= m, l < levels, m < levels,
         NEW p, Children(p, l, a), NEW r, Children(r, m, a),
         Agree(p, r, n), p[n + 1] < r[n + 1]
  PROVE  Index(a, p, l, levels) < Index(a, r, m, levels)
<1> DEFINE i == n + 1
           e == NumElements(a, levels - i)
           x == Index(a, p, n, levels)
           c == p[i]
           h == r[i]
<1>1. /\ i \in Nat /\ i <= l /\ i <= m /\ i <= levels /\ levels - i \in Nat
      /\ i \in 1 .. l /\ i \in 1 .. m /\ n <= levels /\ n < levels
      /\ levels - l \in Nat /\ levels - l >= 1 /\ l <= levels /\ m <= levels
  OBVIOUS
<1>2. c \in Nat /\ h \in Nat /\ c + 1 <= h
  <2>1. c \in 0 .. a - 1 /\ h \in 0 .. a - 1
    BY <1>1 DEF Children
  <2>2. QED
    BY <2>1
<1>3. Numbers(p, i) /\ Numbers(r, i) /\ Numbers(p, n) /\ Numbers(p, l) /\ Numbers(r, m)
  BY <1>1 DEF Children, Numbers
<1>4. x \in Nat /\ e \in Nat /\ Index(a, p, l, levels) \in Nat /\ Index(a, r, m, levels) \in Nat
  <2>1. n \in Nat /\ n <= levels
    OBVIOUS
  <2>2. x \in Nat
    BY <1>3, <2>1, IndexOfs
  <2>3. e \in Nat
    BY <1>1, ElementsOf
  <2>4. Index(a, p, l, levels) \in Nat /\ Index(a, r, m, levels) \in Nat
    BY <1>1, <1>3, IndexOfs
  <2>5. QED
    BY <2>2, <2>3, <2>4
<1>5. Index(a, p, i, levels) = x + 1 + c * e
  <2>1. Agree(p, p, n)
    BY DEF Agree
  <2>2. QED
    BY <1>1, <1>3, <2>1, NextIndex
<1>6. Index(a, r, i, levels) = x + 1 + h * e
  BY <1>1, <1>3, NextIndex
<1>7. NumElements(a, levels - l) >= 1
  <2> DEFINE d == (levels - l) - 1
  <2>1. d \in Nat /\ levels - l = d + 1
    BY <1>1
  <2> HIDE DEF d
  <2>2. NumElements(a, d) \in Nat /\ NumElements(a, d + 1) = a * NumElements(a, d) + 1
    BY <2>1, ElementsOf
  <2>3. NumElements(a, d + 1) >= 1
    BY <2>2
  <2>4. QED
    BY <2>1, <2>3
<1>8. NumElements(a, levels - l) \in Nat
  BY <1>1, ElementsOf
<1>9. Index(a, p, l, levels) + NumElements(a, levels - l) <= Index(a, p, i, levels) + e
  BY <1>1, Below
<1>10. Index(a, r, i, levels) + (m - i) <= Index(a, r, m, levels) /\ m - i \in Nat
  BY <1>1, Below
<1> HIDE DEF i, e, x, c, h
<1>11. c * e + e <= h * e /\ c * e \in Nat /\ h * e \in Nat
  <2>1. (c + 1) * e <= h * e /\ (c + 1) * e = c * e + e
    <3>1. c + 1 \in Nat
      BY <1>2
    <3>2. (c + 1) * e <= h * e
      BY <1>2, <1>4, <3>1, Times
    <3>3. QED
      BY <1>2, <1>4, <3>2
  <2>2. QED
    BY <1>2, <1>4, <2>1
<1>12. QED
  BY <1>4, <1>5, <1>6, <1>7, <1>8, <1>9, <1>10, <1>11

LEMMA UniqueIndex ==
  ASSUME NEW a \in Nat, NEW levels \in Nat, NEW l \in Nat, NEW m \in Nat,
         l < levels, m < levels,
         NEW p, Children(p, l, a), NEW r, Children(r, m, a),
         Index(a, p, l, levels) = Index(a, r, m, levels)
  PROVE  l = m /\ Agree(p, r, l)
<1> DEFINE T == {n \in Nat : n <= l /\ n <= m => Agree(p, r, n)}
<1>1. 0 \in T
  BY DEF Agree
<1>2. Index(a, p, l, levels) \in Nat /\ Index(a, r, m, levels) \in Nat
  <2>1. Numbers(p, l) /\ Numbers(r, m) /\ l <= levels /\ m <= levels
    BY DEF Children, Numbers
  <2>2. QED
    BY <2>1, IndexOfs
<1>3. ASSUME NEW n \in Nat, n \in T
      PROVE  n + 1 \in T
  <2>1. SUFFICES ASSUME n + 1 <= l, n + 1 <= m PROVE Agree(p, r, n + 1)
    OBVIOUS
  <2>2. Agree(p, r, n) /\ Agree(r, p, n)
    BY <1>3, <2>1 DEF Agree
  <2>3. p[n + 1] \in Nat /\ r[n + 1] \in Nat
    BY <2>1 DEF Children
  <2>4. ~ (p[n + 1] < r[n + 1])
    <3>1. SUFFICES ASSUME p[n + 1] < r[n + 1] PROVE FALSE
      OBVIOUS
    <3>2. Index(a, p, l, levels) < Index(a, r, m, levels)
      BY <2>1, <2>2, <3>1, Before
    <3>3. QED
      BY <1>2, <3>2
  <2>5. ~ (r[n + 1] < p[n + 1])
    <3>1. SUFFICES ASSUME r[n + 1] < p[n + 1] PROVE FALSE
      OBVIOUS
    <3>2. Index(a, r, m, levels) < Index(a, p, l, levels)
      BY <2>1, <2>2, <3>1, Before
    <3>3. QED
      BY <1>2, <3>2
  <2>6. p[n + 1] = r[n + 1]
    BY <2>3, <2>4, <2>5
  <2>7. \A i \in 1 .. n + 1 : i \in 1 .. n \/ i = n + 1
    OBVIOUS
  <2>8. QED
    BY <2>2, <2>6, <2>7 DEF Agree
<1>4. Nat \subseteq T
  BY <1>1, <1>3, SetInduction
<1>5. ASSUME NEW u, NEW v, NEW g \in Nat, NEW h \in Nat, Children(u, g, a), Children(v, h, a),
             Agree(u, v, g), g < h, h < levels
      PROVE  Index(a, u, g, levels) # Index(a, v, h, levels)
  <2>1. g <= levels /\ Numbers(u, g) /\ g <= h /\ h <= levels /\ h - g \in Nat /\ h - g >= 1
    BY <1>5 DEF Children, Numbers
  <2>2. Index(a, u, g, levels) = Index(a, v, g, levels) /\ Index(a, u, g, levels) \in Nat
    BY <1>5, <2>1, SameIndex, IndexOfs
  <2>3. Index(a, v, g, levels) + (h - g) <= Index(a, v, h, levels)
    BY <1>5, <2>1, Below
  <2>4. Index(a, v, h, levels) \in Nat
    <3>1. Numbers(v, h)
      BY <1>5 DEF Children, Numbers
    <3>2. QED
      BY <2>1, <3>1, IndexOfs
  <2>5. QED
    BY <2>1, <2>2, <2>3, <2>4
<1>6. ~ (l < m)
  <2>1. SUFFICES ASSUME l < m PROVE FALSE
    OBVIOUS
  <2>2. l \in T /\ l <= l /\ l <= m
    BY <1>4, <2>1
  <2>3. Agree(p, r, l)
    BY <2>2
  <2>4. QED
    BY <1>5, <2>1, <2>3
<1>7. ~ (m < l)
  <2>1. SUFFICES ASSUME m < l PROVE FALSE
    OBVIOUS
  <2>2. m \in T /\ m <= l /\ m <= m
    BY <1>4, <2>1
  <2>3. Agree(p, r, m)
    BY <2>2
  <2>4. Agree(r, p, m)
    BY <2>3 DEF Agree
  <2>5. QED
    BY <1>5, <2>1, <2>4
<1>8. l = m
  BY <1>6, <1>7
<1>9. QED
  BY <1>4, <1>8

-----------------------------------------------------------------------------
(* Paths as sequences, and the definitions of the model.                   *)

\* The nodes of a tree of arity a, by path, and their indices in either order.
Nodes(a, levels) == UNION {[1 .. n -> 0 .. a - 1] : n \in 0 .. levels - 1}
NodeIndex(o, a, levels, p) == IF o = "BFS" THEN Up(a, 1, p, Len(p))
                                           ELSE Index(a, p, Len(p), levels)

LEMMA NodesAre ==
  ASSUME NEW a \in Nat, NEW levels \in Nat, NEW p \in Nodes(a, levels)
  PROVE  /\ Len(p) \in 0 .. levels - 1
         /\ p \in [1 .. Len(p) -> 0 .. a - 1]
         /\ Children(p, Len(p), a) /\ Numbers(p, Len(p))
<1>1. PICK n \in 0 .. levels - 1 : p \in [1 .. n -> 0 .. a - 1]
  BY DEF Nodes
<1>2. p \in Seq(0 .. a - 1) /\ n \in Nat
  BY <1>1, SeqDef
<1>3. Len(p) = n
  BY <1>1, <1>2
<1>4. QED
  BY <1>1, <1>3 DEF Children, Numbers

LEMMA SameNode ==
  ASSUME NEW a \in Nat, NEW levels \in Nat, NEW p \in Nodes(a, levels), NEW r \in Nodes(a, levels),
         Len(p) = Len(r), Agree(p, r, Len(p))
  PROVE  p = r
<1>1. p \in [1 .. Len(p) -> 0 .. a - 1] /\ r \in [1 .. Len(p) -> 0 .. a - 1]
  BY NodesAre
<1>2. QED
  BY <1>1 DEF Agree

LEMMA NodeIndexInside ==
  ASSUME NEW a \in Nat, a >= 1, NEW levels \in Nat, NEW o, NEW p \in Nodes(a, levels)
  PROVE  NodeIndex(o, a, levels, p) \in 0 .. NumElements(a, levels) - 1
<1> DEFINE n == Len(p)
<1>1. n \in Nat /\ n + 1 \in Nat /\ n + 1 <= levels /\ n <= levels /\ levels - n \in Nat
      /\ levels - n >= 1 /\ Children(p, n, a) /\ Numbers(p, n)
  BY NodesAre
<1> HIDE DEF n
<1>2. NumElements(a, levels) \in Nat /\ NumElements(a, n) \in Nat /\ NumElements(a, levels - n) \in Nat
  BY <1>1, ElementsOf
<1>3. Up(a, 1, p, n) \in 0 .. NumElements(a, levels) - 1
  <2>1. /\ Up(a, 1, p, n) = NumElements(a, n) + Up(a, 0, p, n)
        /\ Up(a, 0, p, n) \in 0 .. Power(a, n) - 1
    BY <1>1, IndexAndWidth
  <2>2. NumElements(a, n + 1) = NumElements(a, n) + Power(a, n) /\ Power(a, n) \in Nat
    BY <1>1, ElementsOf, PowerOf
  <2>3. NumElements(a, n + 1) <= NumElements(a, levels)
    BY <1>1, MoreLevels
  <2>4. QED
    BY <1>2, <2>1, <2>2, <2>3
<1>4. Index(a, p, n, levels) \in 0 .. NumElements(a, levels) - 1
  <2>1. Index(a, p, n, levels) + NumElements(a, levels - n) <= NumElements(a, levels)
    BY <1>1, SubtreeInside
  <2>2. NumElements(a, levels - n) >= 1
    <3>1. 1 \in Nat /\ 1 <= levels - n
      BY <1>1
    <3>2. NumElements(a, 1) <= NumElements(a, levels - n)
      BY <1>1, <3>1, MoreLevels
    <3>3. NumElements(a, 0 + 1) = a * 0 + 1
      BY ElementsOf
    <3>4. a * 0 = 0 /\ 0 + 1 = 1
      OBVIOUS
    <3>5. QED
      BY <1>2, <3>2, <3>3, <3>4
  <2>3. Index(a, p, n, levels) \in Nat
    BY <1>1, IndexOfs
  <2>4. QED
    BY <1>2, <2>1, <2>2, <2>3
<1>5. QED
  BY <1>3, <1>4 DEF NodeIndex, n

LEMMA NodesApart ==
  ASSUME NEW a \in Nat, a >= 1, NEW levels \in Nat, NEW o,
         NEW p \in Nodes(a, levels), NEW r \in Nodes(a, levels),
         NodeIndex(o, a, levels, p) = NodeIndex(o, a, levels, r)
  PROVE  p = r
<1> DEFINE n == Len(p)
           m == Len(r)
<1>1. n \in Nat /\ m \in Nat /\ n < levels /\ m < levels /\ Children(p, n, a) /\ Children(r, m, a)
      /\ n <= levels /\ m <= levels
  BY NodesAre
<1>2. n = m /\ Agree(p, r, n)
  <2>1. CASE o = "BFS"
    <3>1. Up(a, 1, p, n) = Up(a, 1, r, m)
      BY <2>1 DEF NodeIndex
    <3>2. Up(a, 1, p, n) \in Nat /\ Up(a, 1, r, m) \in Nat /\ NumElements(a, n) \in Nat
          /\ NumElements(a, m) \in Nat
      <4>1. Numbers(p, n) /\ Numbers(r, m)
        BY <1>1 DEF Children, Numbers
      <4>2. QED
        BY <1>1, <4>1, NextUp, ElementsOf
    <3> HIDE DEF n, m
    <3>3. ~ (n < m)
      <4>1. SUFFICES ASSUME n < m PROVE FALSE
        OBVIOUS
      <4>2. Up(a, 1, p, n) < NumElements(a, m) /\ NumElements(a, m) <= Up(a, 1, r, m)
        BY <1>1, <4>1, LevelsApart
      <4>3. QED
        BY <3>1, <3>2, <4>2
    <3>4. ~ (m < n)
      <4>1. SUFFICES ASSUME m < n PROVE FALSE
        OBVIOUS
      <4>2. Up(a, 1, r, m) < NumElements(a, n) /\ NumElements(a, n) <= Up(a, 1, p, n)
        BY <1>1, <4>1, LevelsApart
      <4>3. QED
        BY <3>1, <3>2, <4>2
    <3>5. n = m
      BY <1>1, <3>3, <3>4
    <3>6. Agree(p, r, n)
      BY <1>1, <3>1, <3>5, UniqueUp
    <3>7. QED
      BY <3>5, <3>6
  <2>2. CASE o # "BFS"
    <3>1. Index(a, p, n, levels) = Index(a, r, m, levels)
      BY <2>2 DEF NodeIndex
    <3> HIDE DEF n, m
    <3>2. QED
      BY <1>1, <3>1, UniqueIndex
  <2>3. QED
    BY <2>1, <2>2
<1>3. QED
  BY <1>2, SameNode

LEMMA WidthOfIs ==
  ASSUME k \in Nat, NEW p, Len(p) \in Nat, Numbers(p, Len(p))
  PROVE  WidthOf(p) = Up(k, 0, p, Len(p))
<1> DEFINE n == Len(p)
           Loop(f) == f = [m \in 0 .. n |-> IF m = 0 THEN 0 ELSE k * f[m - 1] + p[m]]
           w == CHOOSE f : Loop(f)
<1>1. PICK g : Climb(g, k, 0, p, n)
  BY ClimbExists
<1> DEFINE f == [m \in 0 .. n |-> g[m]]
<1>2. ASSUME NEW m \in 0 .. n
      PROVE  f[m] = IF m = 0 THEN 0 ELSE k * f[m - 1] + p[m]
  <2>1. CASE m = 0
    BY <1>1, <2>1 DEF Climb
  <2>2. CASE m # 0
    <3>1. m \in 1 .. n /\ m - 1 \in 0 .. n /\ g[m - 1] \in Nat /\ p[m] \in Nat
      BY <1>1, <2>2 DEF Climb, Numbers
    <3> DEFINE x == k * g[m - 1]
    <3>2. x \in Nat
      BY <3>1
    <3> HIDE DEF x
    <3>3. g[m] = x + 0 + p[m]
      BY <1>1, <3>1 DEF Climb, x
    <3>4. g[m] = x + p[m]
      BY <3>1, <3>2, <3>3
    <3>5. QED
      BY <2>2, <3>1, <3>4 DEF x
  <2>3. QED
    BY <2>1, <2>2
<1>3. Loop(f)
  <2> DEFINE h == [m \in 0 .. n |-> IF m = 0 THEN 0 ELSE k * f[m - 1] + p[m]]
  <2>1. \A m \in 0 .. n : f[m] = h[m]
    BY <1>2
  <2>2. f = [m \in 0 .. n |-> f[m]] /\ h = [m \in 0 .. n |-> h[m]]
    OBVIOUS
  <2> HIDE DEF f, h
  <2>3. f = h
    BY <2>1, <2>2
  <2>4. QED
    BY <2>3 DEF h
<1> HIDE DEF f
<1>4. Loop(w)
  <2> HIDE DEF Loop
  <2>1. QED
    BY <1>3
<1>5. WidthOf(p) = w[n]
  BY DEF WidthOf
<1> HIDE DEF w
<1>6. \A m \in 1 .. n : m - 1 \in 0 .. n /\ m \in 0 .. n /\ w[m] = k * w[m - 1] + p[m]
  BY <1>4
<1>7. w[0] = 0
  BY <1>4
<1> DEFINE T == {m \in Nat : m <= n => w[m] \in Nat}
<1>8. Nat \subseteq T
  <2>1. 0 \in T
    BY <1>7
  <2>2. ASSUME NEW m \in Nat, m \in T
        PROVE  m + 1 \in T
    <3>1. SUFFICES ASSUME m + 1 <= n PROVE w[m + 1] \in Nat
      OBVIOUS
    <3>2. m + 1 \in 1 .. n /\ (m + 1) - 1 = m /\ w[m] \in Nat
      BY <2>2, <3>1
    <3>3. w[m + 1] = k * w[m] + p[m + 1] /\ p[m + 1] \in Nat
      BY <1>6, <3>2 DEF Numbers
    <3>4. QED
      BY <3>2, <3>3
  <2>3. QED
    BY <2>1, <2>2, SetInduction
<1>9. Climb(w, k, 0, p, n)
  <2>1. \A m \in 0 .. n : w[m] \in Nat
    BY <1>8
  <2>2. ASSUME NEW m \in 1 .. n
        PROVE  w[m] = k * w[m - 1] + 0 + p[m]
    <3> DEFINE x == k * w[m - 1]
    <3>1. x \in Nat /\ p[m] \in Nat
      <4>1. w[m - 1] \in Nat /\ p[m] \in Nat
        BY <1>6, <2>1 DEF Numbers
      <4>2. QED
        BY <4>1
    <3>2. w[m] = x + p[m]
      BY <1>6
    <3> HIDE DEF x
    <3>3. w[m] = x + 0 + p[m]
      BY <3>1, <3>2
    <3>4. QED
      BY <3>3 DEF x
  <2>3. QED
    BY <1>7, <2>1, <2>2 DEF Climb
<1>10. n \in 0 .. n
  OBVIOUS
<1> HIDE DEF n
<1>11. Up(k, 0, p, n) = w[n]
  BY <1>9, <1>10, UpOf DEF n
<1>12. QED
  BY <1>5, <1>11 DEF n

LEMMA BreadthFirstIndexOf ==
  ASSUME k \in Nat, NEW p, Len(p) \in Nat, Numbers(p, Len(p))
  PROVE  BreadthFirst!IndexOf(p) = Up(k, 1, p, Len(p))
<1> DEFINE n == Len(p)
           Loop(f) == f = [m \in 0 .. n |-> IF m = 0 THEN 0 ELSE k * f[m - 1] + 1 + p[m]]
           w == CHOOSE f : Loop(f)
<1>1. PICK g : Climb(g, k, 1, p, n)
  BY ClimbExists
<1> DEFINE f == [m \in 0 .. n |-> g[m]]
<1>2. ASSUME NEW m \in 0 .. n
      PROVE  f[m] = IF m = 0 THEN 0 ELSE k * f[m - 1] + 1 + p[m]
  <2>1. CASE m = 0
    BY <1>1, <2>1 DEF Climb
  <2>2. CASE m # 0
    <3>1. m \in 1 .. n /\ m - 1 \in 0 .. n
      BY <2>2
    <3>2. g[m] = k * g[m - 1] + 1 + p[m]
      BY <1>1, <3>1 DEF Climb
    <3>3. QED
      BY <2>2, <3>1, <3>2
  <2>3. QED
    BY <2>1, <2>2
<1>3. Loop(f)
  <2> DEFINE h == [m \in 0 .. n |-> IF m = 0 THEN 0 ELSE k * f[m - 1] + 1 + p[m]]
  <2>1. \A m \in 0 .. n : f[m] = h[m]
    BY <1>2
  <2>2. f = [m \in 0 .. n |-> f[m]] /\ h = [m \in 0 .. n |-> h[m]]
    OBVIOUS
  <2> HIDE DEF f, h
  <2>3. f = h
    BY <2>1, <2>2
  <2>4. QED
    BY <2>3 DEF h
<1> HIDE DEF f
<1>4. Loop(w)
  <2> HIDE DEF Loop
  <2>1. QED
    BY <1>3
<1>5. BreadthFirst!IndexOf(p) = w[n]
  BY DEF BreadthFirst!IndexOf
<1> HIDE DEF w
<1>6. \A m \in 1 .. n : m - 1 \in 0 .. n /\ m \in 0 .. n /\ w[m] = k * w[m - 1] + 1 + p[m]
  BY <1>4
<1>7. w[0] = 0
  BY <1>4
<1> DEFINE T == {m \in Nat : m <= n => w[m] \in Nat}
<1>8. Nat \subseteq T
  <2>1. 0 \in T
    BY <1>7
  <2>2. ASSUME NEW m \in Nat, m \in T
        PROVE  m + 1 \in T
    <3>1. SUFFICES ASSUME m + 1 <= n PROVE w[m + 1] \in Nat
      OBVIOUS
    <3>2. m + 1 \in 1 .. n /\ (m + 1) - 1 = m /\ w[m] \in Nat
      BY <2>2, <3>1
    <3>3. w[m + 1] = k * w[m] + 1 + p[m + 1] /\ p[m + 1] \in Nat
      BY <1>6, <3>2 DEF Numbers
    <3>4. k * w[m] \in Nat
      BY <3>2
    <3>5. QED
      BY <3>3, <3>4
  <2>3. QED
    BY <2>1, <2>2, SetInduction
<1>9. Climb(w, k, 1, p, n)
  BY <1>6, <1>7, <1>8 DEF Climb
<1>10. n \in 0 .. n
  OBVIOUS
<1> HIDE DEF n
<1>11. Up(k, 1, p, n) = w[n]
  BY <1>9, <1>10, UpOf DEF n
<1>12. QED
  BY <1>5, <1>11 DEF n

LEMMA DivideBack ==
  ASSUME NEW a \in Nat, a >= 1, NEW x \in Nat, NEW c \in 0 .. a - 1
  PROVE  (a * x + c) \div a = x /\ (a * x + c) % a = c
<1> DEFINE n == a * x + c
           y == n \div a
           e == n % a
<1>1. n \in Nat
  <2>1. a * x \in Nat
    OBVIOUS
  <2>2. QED
    BY <2>1
<1> HIDE DEF n
<1>2. n = a * y + e /\ y \in Nat /\ e \in 0 .. a - 1
  BY <1>1
<1> HIDE DEF y, e
<1>3. a * x + c = a * y + e
  BY <1>2 DEF n
<1>4. x = y /\ c = e
  BY <1>2, <1>3, SameQuotient
<1>5. QED
  BY <1>4 DEF n, y, e

\* The formula for the size of a subtree is right.
LEMMA SubtreeIs ==
  ASSUME k \in Nat, k >= 2, NEW n \in Nat
  PROVE  DepthFirst!Subtree(n) = NumElements(k, n)
<1> DEFINE s == NumElements(k, n)
           w == Power(k, n)
           a == k - 1
<1>1. s \in Nat /\ w \in Nat /\ NumElements(k, n + 1) = s + w /\ NumElements(k, n + 1) = k * s + 1
  BY ElementsOf, PowerOf
<1>2. a \in Nat /\ a >= 1 /\ 0 \in 0 .. a - 1
  OBVIOUS
<1> HIDE DEF s, w
<1>3. k * s = a * s + s /\ a * s \in Nat /\ k * s \in Nat
  BY <1>1
<1>4. w - 1 = a * s + 0
  BY <1>1, <1>3
<1>5. (a * s + 0) \div a = s
  <2> HIDE DEF a
  <2>1. QED
    BY <1>1, <1>2, DivideBack
<1>6. DepthFirst!Subtree(n) = (w - 1) \div a
  BY DepthFirstSame DEF DepthFirst!Subtree, w
<1>7. QED
  BY <1>4, <1>5, <1>6 DEF s

LEMMA DepthFirstIndexOf ==
  ASSUME k \in Nat, k >= 2, depth \in Nat, NEW p, Len(p) \in Nat, Len(p) <= depth,
         Numbers(p, Len(p))
  PROVE  DepthFirst!IndexOf(p) = Index(k, p, Len(p), depth)
<1> DEFINE n == Len(p)
           Loop(f) == f = [m \in 0 .. n |->
                             IF m = 0 THEN 0
                             ELSE f[m - 1] + 1 + p[m] * DepthFirst!Subtree(depth - m)]
           w == CHOOSE f : Loop(f)
<1>1. PICK g : Along(g, k, p, n, depth)
  BY AlongExists
<1> DEFINE f == [m \in 0 .. n |-> g[m]]
<1>2. \A m \in 0 .. n : DepthFirst!Subtree(depth - m) = NumElements(k, depth - m)
  <2>1. \A m \in 0 .. n : depth - m \in Nat
    OBVIOUS
  <2>2. QED
    BY <2>1, SubtreeIs
<1>3. ASSUME NEW m \in 0 .. n
      PROVE  f[m] = IF m = 0 THEN 0 ELSE f[m - 1] + 1 + p[m] * DepthFirst!Subtree(depth - m)
  <2>1. CASE m = 0
    BY <1>1, <2>1 DEF Along
  <2>2. CASE m # 0
    <3>1. m \in 1 .. n /\ m - 1 \in 0 .. n
      BY <2>2
    <3>2. g[m] = g[m - 1] + 1 + p[m] * NumElements(k, depth - m)
      BY <1>1, <3>1 DEF Along
    <3>3. QED
      BY <1>2, <2>2, <3>1, <3>2
  <2>3. QED
    BY <2>1, <2>2
<1>4. Loop(f)
  <2> DEFINE h == [m \in 0 .. n |-> IF m = 0 THEN 0
                                    ELSE f[m - 1] + 1 + p[m] * DepthFirst!Subtree(depth - m)]
  <2>1. \A m \in 0 .. n : f[m] = h[m]
    BY <1>3
  <2>2. f = [m \in 0 .. n |-> f[m]] /\ h = [m \in 0 .. n |-> h[m]]
    OBVIOUS
  <2> HIDE DEF f, h
  <2>3. f = h
    BY <2>1, <2>2
  <2>4. QED
    BY <2>3 DEF h
<1> HIDE DEF f
<1>5. Loop(w)
  <2> HIDE DEF Loop
  <2>1. QED
    BY <1>4
<1>6. DepthFirst!IndexOf(p) = w[n]
  BY DEF DepthFirst!IndexOf
<1> HIDE DEF w
<1>7. \A m \in 1 .. n : /\ m - 1 \in 0 .. n /\ m \in 0 .. n
                        /\ w[m] = w[m - 1] + 1 + p[m] * NumElements(k, depth - m)
  <2>1. ASSUME NEW m \in 1 .. n
        PROVE  /\ m - 1 \in 0 .. n /\ m \in 0 .. n
               /\ w[m] = w[m - 1] + 1 + p[m] * NumElements(k, depth - m)
    <3>1. m - 1 \in 0 .. n /\ m \in 0 .. n /\ m # 0
      OBVIOUS
    <3>2. w[m] = w[m - 1] + 1 + p[m] * DepthFirst!Subtree(depth - m)
      BY <1>5, <3>1
    <3>3. QED
      BY <1>2, <3>1, <3>2
  <2>2. QED
    BY <2>1
<1>8. w[0] = 0
  BY <1>5
<1> DEFINE T == {m \in Nat : m <= n => w[m] \in Nat}
<1>9. Nat \subseteq T
  <2>1. 0 \in T
    BY <1>8
  <2>2. ASSUME NEW m \in Nat, m \in T
        PROVE  m + 1 \in T
    <3>1. SUFFICES ASSUME m + 1 <= n PROVE w[m + 1] \in Nat
      OBVIOUS
    <3>2. m + 1 \in 1 .. n /\ (m + 1) - 1 = m /\ w[m] \in Nat /\ depth - (m + 1) \in Nat
      BY <2>2, <3>1
    <3>3. p[m + 1] \in Nat /\ NumElements(k, depth - (m + 1)) \in Nat
      BY <3>2, ElementsOf DEF Numbers
    <3> DEFINE x == p[m + 1] * NumElements(k, depth - (m + 1))
    <3>4. x \in Nat
      BY <3>3
    <3>5. w[m + 1] = w[m] + 1 + x
      BY <1>7, <3>2
    <3> HIDE DEF x
    <3>6. QED
      BY <3>2, <3>4, <3>5
  <2>3. QED
    BY <2>1, <2>2, SetInduction
<1>10. Along(w, k, p, n, depth)
  BY <1>7, <1>8, <1>9 DEF Along
<1> DEFINE u == CHOOSE h : Along(h, k, p, n, depth)
<1>11. Along(u, k, p, n, depth)
  BY <1>10
<1>12. Index(k, p, n, depth) = u[n]
  BY DEF Index
<1> HIDE DEF u, n
<1>13. Agree(p, p, n)
  BY DEF Agree
<1>14. u[n] = w[n]
  BY <1>10, <1>11, <1>13, AlongUnique DEF n
<1>15. QED
  BY <1>6, <1>12, <1>14 DEF n

-----------------------------------------------------------------------------
(* calculateIndex.                                                         *)

\* What a tree with nodes is like.
LEMMA HasNodes ==
  ASSUME IInv, NEW p \in Nodes(k, depth)
  PROVE  /\ k \in Nat /\ k >= 2 /\ depth \in Nat /\ depth >= 1
         /\ Len(p) \in 0 .. depth - 1 /\ Len(p) \in Nat /\ Len(p) <= depth
         /\ Children(p, Len(p), k) /\ Numbers(p, Len(p))
<1>1. k \in Nat /\ depth \in Nat
  BY KTreeAssumption DEF IInv, TypeOK
<1>2. Len(p) \in 0 .. depth - 1 /\ Children(p, Len(p), k) /\ Numbers(p, Len(p))
  BY <1>1, NodesAre
<1>3. depth >= 1
  BY <1>1, <1>2
<1>4. QED
  BY <1>1, <1>2, <1>3 DEF IInv

LEMMA BreadthFirstIndexRight ==
  ASSUME IInv
  PROVE  BreadthFirst!IndexRight
<1> SUFFICES ASSUME NEW p \in BreadthFirst!Paths
             PROVE  BreadthFirst!CalculateIndex(Len(p), BreadthFirst!WidthOf(p))
                      = BreadthFirst!IndexOf(p)
  BY DEF BreadthFirst!IndexRight
<1> DEFINE n == Len(p)
           x == Up(k, 0, p, n)
<1>1. p \in Nodes(k, depth)
  BY DEF BreadthFirst!Paths, Nodes
<1>2. k \in Nat /\ depth \in Nat /\ n \in Nat /\ n < depth /\ Children(p, n, k) /\ Numbers(p, n)
  BY <1>1, HasNodes
<1>3. BreadthFirst!WidthOf(p) = x
  <2>1. BreadthFirst!WidthOf(p) = WidthOf(p)
    BY DEF BreadthFirst!WidthOf, WidthOf
  <2>2. QED
    BY <1>2, <2>1, WidthOfIs
<1>4. BreadthFirst!IndexOf(p) = Up(k, 1, p, n)
  BY <1>2, BreadthFirstIndexOf
<1>5. Up(k, 1, p, n) = NumElements(k, n) + x /\ x \in 0 .. Power(k, n) - 1 /\ Power(k, n) \in Nat
  BY <1>2, IndexAndWidth, PowerOf
<1>6. \A a, m : BreadthFirst!Power(a, m) = Power(a, m)
  BY DEF BreadthFirst!Power, Power
<1> HIDE DEF x
<1>7. BreadthFirst!CalculateIndex(n, x) = NumElements(k, n) + x
  BY <1>2, <1>5, <1>6, BreadthFirstSame DEF BreadthFirst!CalculateIndex
<1>8. QED
  BY <1>3, <1>4, <1>5, <1>7

\* The sum calculateIndex forms, up from a leaf: how many nodes of its own and of
\* the levels above come before each node on the way, and those nodes.
LEMMA LeafSum ==
  ASSUME k \in Nat, NEW n \in Nat, NEW p, Children(p, n, k)
  PROVE  LET Sum(m) == Index(k, p, m, n + 1) - Up(k, 0, p, m) * (NumElements(k, (n + 1) - m) - 1)
         IN  /\ \A m \in 0 .. n : Sum(m) \in Int
             /\ \A m \in 0 .. n - 1 : Sum(m + 1) = Sum(m) + Up(k, 0, p, m + 1) + 1
             /\ Sum(0) = 0
             /\ Sum(n) = Index(k, p, n, n + 1)
<1> DEFINE Sum(m) == Index(k, p, m, n + 1)
                       - Up(k, 0, p, m) * (NumElements(k, (n + 1) - m) - 1)
<1>1. \A m \in 0 .. n : Numbers(p, m) /\ m <= n + 1 /\ (n + 1) - m \in Nat /\ n + 1 \in Nat
  BY DEF Children, Numbers
<1>2. \A m \in 0 .. n : /\ Index(k, p, m, n + 1) \in Nat /\ Up(k, 0, p, m) \in Nat
                        /\ NumElements(k, (n + 1) - m) \in Nat
  <2> SUFFICES ASSUME NEW m \in 0 .. n
               PROVE  /\ Index(k, p, m, n + 1) \in Nat /\ Up(k, 0, p, m) \in Nat
                      /\ NumElements(k, (n + 1) - m) \in Nat
    OBVIOUS
  <2>1. Index(k, p, m, n + 1) \in Nat
    <3> DEFINE d == n + 1
    <3>1. d \in Nat /\ m <= d /\ m \in Nat /\ Numbers(p, m)
      BY <1>1
    <3> HIDE DEF d
    <3>2. Index(k, p, m, d) \in Nat
      BY <3>1, IndexOfs
    <3>3. QED
      BY <3>2 DEF d
  <2>2. Up(k, 0, p, m) \in Nat
    BY <1>1, NextUp
  <2>3. NumElements(k, (n + 1) - m) \in Nat
    BY <1>1, ElementsOf
  <2>4. QED
    BY <2>1, <2>2, <2>3
<1>3. \A m \in 0 .. n : Sum(m) \in Int
  BY <1>2
<1>4. ASSUME NEW m \in 0 .. n - 1
      PROVE  Sum(m + 1) = Sum(m) + Up(k, 0, p, m + 1) + 1
  <2> DEFINE d == n + 1
             x == Up(k, 0, p, m)
             y == Up(k, 0, p, m + 1)
             i == Index(k, p, m, d)
             j == Index(k, p, m + 1, d)
             s == NumElements(k, d - (m + 1))
             t == NumElements(k, d - m)
             c == p[m + 1]
  <2>1. m \in 0 .. n /\ m + 1 \in 0 .. n /\ m \in Nat /\ m < d /\ d \in Nat
    OBVIOUS
  <2>2. /\ x \in Nat /\ y \in Nat /\ i \in Nat /\ j \in Nat /\ s \in Nat /\ t \in Nat
    BY <1>2, <2>1
  <2>3. c \in Nat
    BY DEF Children
  <2>4. Numbers(p, m + 1) /\ Agree(p, p, m)
    BY <1>1, <2>1 DEF Agree
  <2>5. y = k * x + 0 + c
    BY <2>1, <2>4, UpStep
  <2>6. j = i + 1 + c * s
    <3> HIDE DEF d
    <3>1. QED
      BY <2>1, <2>4, NextIndex
  <2>7. t = k * s + 1
    <3> DEFINE e == d - (m + 1)
    <3>1. e \in Nat /\ d - m = e + 1
      BY <2>1
    <3> HIDE DEF e, d
    <3>2. NumElements(k, e + 1) = k * NumElements(k, e) + 1
      BY <3>1, ElementsOf
    <3>3. QED
      BY <3>1, <3>2 DEF e
  <2>8. Sum(m) = i - x * (t - 1) /\ Sum(m + 1) = j - y * (s - 1)
    OBVIOUS
  <2> HIDE DEF x, y, i, j, s, t, c, Sum
  <2>9. x * (t - 1) = (k * x) * s
    <3>1. t - 1 = k * s
      <4>1. k * s \in Nat
        BY <2>2
      <4>2. QED
        BY <2>7, <4>1
    <3>2. x * (k * s) = (k * x) * s
      BY <2>2
    <3>3. QED
      BY <3>1, <3>2
  <2>10. y * (s - 1) = ((k * x) * s + c * s) - y
    <3> DEFINE z == k * x
    <3>1. z \in Nat
      BY <2>2
    <3> HIDE DEF z
    <3>2. y = z + c
      BY <2>3, <2>5, <3>1 DEF z
    <3>3. y * (s - 1) = y * s - y /\ (z + c) * s = z * s + c * s
      BY <2>2, <2>3, <3>1
    <3>4. y * (s - 1) = (z * s + c * s) - y
      BY <3>2, <3>3
    <3>5. QED
      BY <3>4 DEF z
  <2> DEFINE g == (k * x) * s
             h == c * s
  <2>11. g \in Nat /\ h \in Nat
    <3>1. k * x \in Nat
      BY <2>2
    <3>2. QED
      BY <2>2, <2>3, <3>1
  <2> HIDE DEF g, h
  <2>12. Sum(m) = i - g /\ Sum(m + 1) = j - ((g + h) - y) /\ j = i + 1 + h
    BY <2>6, <2>8, <2>9, <2>10 DEF g, h
  <2>13. Sum(m + 1) = Sum(m) + y + 1
    BY <2>2, <2>11, <2>12
  <2>14. QED
    BY <2>13 DEF y
<1>5. Sum(0) = 0
  <2>1. Numbers(p, 0) /\ 0 \in 0 .. n
    BY DEF Numbers
  <2>2. Up(k, 0, p, 0) = 0
    BY <2>1, NextUp
  <2>3. Index(k, p, 0, n + 1) = 0
    <3> DEFINE d == n + 1
    <3>1. d \in Nat /\ 0 <= d
      OBVIOUS
    <3> HIDE DEF d
    <3>2. Index(k, p, 0, d) = 0
      BY <2>1, <3>1, IndexOfs
    <3>3. QED
      BY <3>2 DEF d
  <2> DEFINE e == NumElements(k, (n + 1) - 0)
  <2>4. e \in Nat
    BY <1>2, <2>1
  <2> HIDE DEF e
  <2>5. 0 - 0 * (e - 1) = 0
    BY <2>4
  <2>6. QED
    BY <2>2, <2>3, <2>5 DEF e
<1>6. Sum(n) = Index(k, p, n, n + 1)
  <2>1. (n + 1) - n = 0 + 1 /\ n \in 0 .. n
    OBVIOUS
  <2>2. NumElements(k, 0 + 1) = k * 0 + 1
    BY ElementsOf
  <2>3. NumElements(k, (n + 1) - n) = 1
    BY <2>1, <2>2
  <2> DEFINE x == Up(k, 0, p, n)
             i == Index(k, p, n, n + 1)
  <2>4. x \in Nat /\ i \in Nat
    BY <1>2, <2>1
  <2> HIDE DEF x, i
  <2>5. i - x * (1 - 1) = i
    BY <2>4
  <2>6. QED
    BY <2>3, <2>5 DEF x, i
<1>7. QED
  BY <1>3, <1>4, <1>5, <1>6

LEMMA DepthFirstLeafIndexRight ==
  ASSUME IInv
  PROVE  DepthFirst!LeafIndexRight
<1> SUFFICES ASSUME NEW p \in DepthFirst!Paths, Len(p) = depth - 1
             PROVE  DepthFirst!CalculateIndex(Len(p), DepthFirst!WidthOf(p))
                      = DepthFirst!IndexOf(p)
  BY DEF DepthFirst!LeafIndexRight
<1> DEFINE n == Len(p)
           width == Up(k, 0, p, n)
           Width(f) == f = [i \in Nat |-> IF i = 0 THEN width ELSE f[i - 1] \div k]
           w == CHOOSE f : Width(f)
           Sums(f) == f = [i \in Nat |-> IF i = 0 THEN 0 ELSE f[i - 1] + w[i - 1] + 1]
           index == CHOOSE f : Sums(f)
<1>1. p \in Nodes(k, depth)
  BY DEF DepthFirst!Paths, Nodes
<1>2. /\ k \in Nat /\ k >= 2 /\ depth \in Nat /\ n \in Nat /\ n < depth /\ n <= depth
      /\ Children(p, n, k) /\ Numbers(p, n) /\ depth = n + 1
  BY <1>1, HasNodes
<1>3. DepthFirst!WidthOf(p) = width
  <2>1. DepthFirst!WidthOf(p) = WidthOf(p)
    BY DEF DepthFirst!WidthOf, WidthOf
  <2>2. QED
    BY <1>2, <2>1, WidthOfIs
<1>4. DepthFirst!IndexOf(p) = Index(k, p, n, n + 1)
  BY <1>2, DepthFirstIndexOf
<1>5. width \in 0 .. Power(k, n) - 1 /\ Power(k, n) \in Nat
  BY <1>2, IndexAndWidth, PowerOf
<1>6. DepthFirst!CalculateIndex(n, width) = index[n]
  <2>1. \A a, m : DepthFirst!Power(a, m) = Power(a, m)
    BY DepthFirstSame
  <2> HIDE DEF n, width
  <2>2. ~ (n >= depth \/ width >= DepthFirst!Power(k, n))
    BY <1>2, <1>5, <2>1
  <2>3. QED
    BY <2>2 DEF DepthFirst!CalculateIndex
<1> HIDE DEF n, index, w, width
<1>7. /\ w[0] = width
      /\ \A i \in Nat : w[i] \in Nat /\ w[i + 1] = w[i] \div k
  <2> DEFINE step == [i \in Nat |-> [x \in Nat |-> x \div k]]
  <2>1. step \in [Nat -> [Nat -> Nat]] /\ \A i, x \in Nat : step[i][x] = x \div k
    BY <1>2
  <2> HIDE DEF step
  <2>2. PICK f : Loops(f, Nat, width, step)
    <3>1. width \in Nat
      BY <1>5
    <3>2. QED
      BY <2>1, <3>1, Recursion
  <2>3. Width(f)
    <3>1. ASSUME NEW i \in Nat, i # 0
          PROVE  f[i] = f[i - 1] \div k
      <4>1. i - 1 \in Nat /\ (i - 1) + 1 = i
        BY <3>1
      <4>2. f[(i - 1) + 1] = step[i - 1][f[i - 1]] /\ f[i - 1] \in Nat
        BY <2>2, <4>1 DEF Loops
      <4>3. QED
        BY <2>1, <4>1, <4>2
    <3>2. f \in [Nat -> Nat] /\ f[0] = width
      BY <2>2 DEF Loops
    <3>3. QED
      BY <3>1, <3>2
  <2>4. Width(w)
    <3> HIDE DEF Width
    <3>1. QED
      BY <2>3 DEF w
  <2>5. \A i \in Nat : w[i] = IF i = 0 THEN width ELSE w[i - 1] \div k
    BY <2>4
  <2>6. \A i \in Nat : w[i + 1] = w[i] \div k
    <3>1. \A i \in Nat : i + 1 \in Nat /\ i + 1 # 0 /\ (i + 1) - 1 = i
      OBVIOUS
    <3>2. QED
      BY <2>5, <3>1
  <2> DEFINE T == {i \in Nat : w[i] \in Nat}
  <2>7. Nat \subseteq T
    <3>1. 0 \in T
      BY <1>5, <2>5
    <3>2. ASSUME NEW i \in Nat, i \in T
          PROVE  i + 1 \in T
      <4>1. w[i + 1] = w[i] \div k /\ w[i] \in Nat
        BY <2>6, <3>2
      <4> DEFINE x == w[i]
      <4>2. x \in Nat /\ x \div k \in Nat
        <5>1. x \in Nat
          BY <4>1
        <5> HIDE DEF x
        <5>2. QED
          BY <1>2, <5>1
      <4>3. QED
        BY <4>1, <4>2
    <3>3. QED
      BY <3>1, <3>2, SetInduction
  <2>8. QED
    BY <2>5, <2>6, <2>7
<1>8. /\ index[0] = 0
      /\ \A i \in Nat : index[i + 1] = index[i] + w[i] + 1
  <2> DEFINE more(i) == w[i]
             step == [i \in Nat |-> [x \in Nat |-> x + more(i) + 1]]
  <2>0. \A i \in Nat : more(i) \in Nat
    BY <1>7
  <2>1. step \in [Nat -> [Nat -> Nat]] /\ \A i, x \in Nat : step[i][x] = x + w[i] + 1
    <3>1. /\ step \in [Nat -> [Nat -> Nat]]
          /\ \A i, x \in Nat : step[i][x] = x + more(i) + 1
      <4> HIDE DEF more
      <4>1. QED
        BY <2>0
    <3>2. QED
      BY <3>1
  <2> HIDE DEF step
  <2>2. PICK f : Loops(f, Nat, 0, step)
    <3>1. 0 \in Nat
      OBVIOUS
    <3>2. QED
      BY <2>1, <3>1, Recursion
  <2>3. Sums(f)
    <3>1. ASSUME NEW i \in Nat, i # 0
          PROVE  f[i] = f[i - 1] + w[i - 1] + 1
      <4>1. i - 1 \in Nat /\ (i - 1) + 1 = i
        BY <3>1
      <4>2. f[(i - 1) + 1] = step[i - 1][f[i - 1]] /\ f[i - 1] \in Nat
        BY <2>2, <4>1 DEF Loops
      <4>3. QED
        BY <2>1, <4>1, <4>2
    <3>2. f \in [Nat -> Nat] /\ f[0] = 0
      BY <2>2 DEF Loops
    <3>3. QED
      BY <3>1, <3>2
  <2>4. Sums(index)
    <3> HIDE DEF Sums
    <3>1. QED
      BY <2>3 DEF index
  <2>5. \A i \in Nat : index[i] = IF i = 0 THEN 0 ELSE index[i - 1] + w[i - 1] + 1
    BY <2>4
  <2>6. \A i \in Nat : i + 1 \in Nat /\ i + 1 # 0 /\ (i + 1) - 1 = i
    OBVIOUS
  <2>7. QED
    BY <2>5, <2>6
<1> HIDE DEF Width, Sums
<1>9. \A i \in 0 .. n : w[i] = Up(k, 0, p, n - i)
  <2> DEFINE T == {i \in Nat : i <= n => w[i] = Up(k, 0, p, n - i)}
  <2>1. 0 \in T
    <3>1. n - 0 = n
      BY <1>2
    <3>2. QED
      BY <1>7, <3>1 DEF width
  <2>2. ASSUME NEW i \in Nat, i \in T
        PROVE  i + 1 \in T
    <3>1. SUFFICES ASSUME i + 1 <= n PROVE w[i + 1] = Up(k, 0, p, n - (i + 1))
      OBVIOUS
    <3> DEFINE m == n - (i + 1)
               x == Up(k, 0, p, m)
               c == p[m + 1]
    <3>2. m \in Nat /\ n - i = m + 1 /\ m + 1 \in 1 .. n /\ i <= n
      BY <1>2, <3>1
    <3> HIDE DEF m
    <3>3. Numbers(p, m + 1) /\ Numbers(p, m) /\ Agree(p, p, m)
      BY <1>2, <3>2 DEF Numbers, Agree
    <3>4. x \in Nat /\ c \in 0 .. k - 1
      BY <1>2, <3>2, <3>3, NextUp DEF Children
    <3>5. Up(k, 0, p, m + 1) = k * x + 0 + c
      BY <1>2, <3>2, <3>3, UpStep
    <3>6. w[i] = Up(k, 0, p, m + 1)
      <4>1. w[i] = Up(k, 0, p, n - i)
        BY <2>2, <3>2
      <4>2. QED
        BY <3>2, <4>1
    <3> HIDE DEF x, c
    <3>7. w[i] = k * x + c
      <4>1. k * x \in Nat
        BY <1>2, <3>4
      <4>2. QED
        BY <3>4, <3>5, <3>6, <4>1
    <3>8. (k * x + c) \div k = x
      BY <1>2, <3>4, DivideBack
    <3>9. w[i + 1] = x
      BY <1>7, <3>7, <3>8
    <3>10. QED
      BY <3>9 DEF x, m
  <2>3. Nat \subseteq T
    BY <2>1, <2>2, SetInduction
  <2>4. QED
    BY <1>2, <2>3
<1> DEFINE Sum(m) == Index(k, p, m, n + 1) - Up(k, 0, p, m) * (NumElements(k, (n + 1) - m) - 1)
<1>10. /\ \A m \in 0 .. n : Sum(m) \in Int
       /\ \A m \in 0 .. n - 1 : Sum(m + 1) = Sum(m) + Up(k, 0, p, m + 1) + 1
       /\ Sum(0) = 0
       /\ Sum(n) = Index(k, p, n, n + 1)
  BY <1>2, LeafSum
<1> HIDE DEF Sum
<1>11. index[n] = Sum(n) - Sum(0)
  <2> DEFINE T == {i \in Nat : i <= n => index[i] = Sum(n) - Sum(n - i)}
  <2>1. 0 \in T
    <3>1. n - 0 = n /\ n \in 0 .. n
      BY <1>2
    <3>2. Sum(n) - Sum(n) = 0
      BY <1>10, <3>1
    <3>3. QED
      BY <1>8, <3>1, <3>2
  <2>2. ASSUME NEW i \in Nat, i \in T
        PROVE  i + 1 \in T
    <3>1. SUFFICES ASSUME i + 1 <= n PROVE index[i + 1] = Sum(n) - Sum(n - (i + 1))
      OBVIOUS
    <3> DEFINE m == n - (i + 1)
    <3>2. m \in 0 .. n - 1 /\ n - i = m + 1 /\ m \in 0 .. n /\ m + 1 \in 0 .. n /\ n \in 0 .. n
          /\ i \in 0 .. n /\ i <= n
      BY <1>2, <3>1
    <3> HIDE DEF m
    <3>3. index[i + 1] = index[i] + w[i] + 1
      BY <1>8
    <3>4. index[i] = Sum(n) - Sum(m + 1)
      BY <2>2, <3>2
    <3>5. w[i] = Up(k, 0, p, m + 1)
      BY <1>9, <3>2
    <3>6. Sum(m + 1) = Sum(m) + w[i] + 1
      BY <1>10, <3>2, <3>5
    <3>7. Sum(m) \in Int /\ Sum(n) \in Int /\ w[i] \in Int
      <4>1. w[i] \in Nat
        BY <1>7
      <4>2. Sum(m) \in Int /\ Sum(n) \in Int
        BY <1>10, <3>2
      <4>3. QED
        BY <4>1, <4>2
    <3>8. index[i + 1] = Sum(n) - Sum(m)
      BY <3>3, <3>4, <3>6, <3>7
    <3>9. QED
      BY <3>8 DEF m
  <2>3. Nat \subseteq T
    BY <2>1, <2>2, SetInduction
  <2>4. n \in T /\ n - n = 0 /\ n <= n
    BY <1>2, <2>3
  <2>5. QED
    BY <2>4
<1>12. index[n] = Index(k, p, n, n + 1)
  <2>1. n \in 0 .. n
    BY <1>2
  <2>2. QED
    BY <1>10, <1>11, <2>1
<1>13. QED
  BY <1>3, <1>4, <1>6, <1>12 DEF n

(***************************************************************************)
(* calculateIndex answers what k_tree.h:89-95 draws, for every place of    *)
(* every level of a breadth-first tree.                                    *)
(***************************************************************************)
THEOREM BreadthFirstCalculateIndex == Spec => []BFSIndexRight
<1>1. IInv => BFSIndexRight
  BY BreadthFirstIndexRight DEF BFSIndexRight
<1>2. QED
  BY Invariance, <1>1, PTL

(***************************************************************************)
(* calculateIndex answers what k_tree.h:118-124 draws, for every leaf of a *)
(* depth-first tree.                                                       *)
(***************************************************************************)
THEOREM DepthFirstCalculateIndex == Spec => []DFSLeafIndexRight
<1>1. IInv => DFSLeafIndexRight
  BY DepthFirstLeafIndexRight DEF DFSLeafIndexRight
<1>2. QED
  BY Invariance, <1>1, PTL

-----------------------------------------------------------------------------
(* Every index is that of a node.                                          *)

LEMMA ChildOf ==
  ASSUME NEW a \in Nat, NEW levels \in Nat, NEW q \in Nodes(a, levels), NEW c \in 0 .. a - 1
  PROVE  /\ Append(q, c) \in Nodes(a, levels + 1)
         /\ Up(a, 1, Append(q, c), Len(Append(q, c))) = a * Up(a, 1, q, Len(q)) + 1 + c
<1> DEFINE n == Len(q)
           p == Append(q, c)
<1>1. /\ n \in Nat /\ n + 1 \in 0 .. (levels + 1) - 1
      /\ q \in [1 .. n -> 0 .. a - 1] /\ Numbers(q, n)
  BY NodesAre
<1>2. /\ Len(p) = n + 1 /\ p \in [1 .. n + 1 -> 0 .. a - 1] /\ p[n + 1] = c
      /\ \A i \in 1 .. n : p[i] = q[i]
  <2>1. q \in Seq(0 .. a - 1)
    BY <1>1
  <2>2. p \in Seq(0 .. a - 1) /\ Len(p) = n + 1
    BY <2>1, AppendProperties
  <2>3. p[n + 1] = c /\ \A i \in 1 .. n : p[i] = q[i]
    BY <2>1, AppendProperties
  <2> HIDE DEF p, n
  <2>4. p \in [1 .. Len(p) -> 0 .. a - 1]
    BY <2>2
  <2>5. QED
    BY <2>2, <2>3, <2>4
<1> HIDE DEF n, p
<1>3. p \in Nodes(a, levels + 1)
  BY <1>1, <1>2 DEF Nodes
<1>4. Numbers(p, n + 1) /\ Agree(q, p, n)
  BY <1>2 DEF Numbers, Agree
<1>5. Up(a, 1, p, n + 1) = a * Up(a, 1, q, n) + 1 + c
  BY <1>1, <1>2, <1>4, UpStep
<1>6. QED
  BY <1>2, <1>3, <1>5 DEF n, p

LEMMA RootOf ==
  ASSUME NEW a \in Nat, NEW levels \in Nat, levels >= 1, NEW o
  PROVE  << >> \in Nodes(a, levels) /\ NodeIndex(o, a, levels, << >>) = 0
<1> DEFINE r == << >>
<1>1. Len(r) = 0 /\ r \in [1 .. 0 -> 0 .. a - 1]
  OBVIOUS
<1>2. 0 \in 0 .. levels - 1
  OBVIOUS
<1> HIDE DEF r
<1>3. r \in Nodes(a, levels)
  BY <1>1, <1>2 DEF Nodes
<1>4. Numbers(r, 0)
  BY DEF Numbers
<1>5. Up(a, 1, r, 0) = 0
  BY <1>4, NextUp
<1>6. Index(a, r, 0, levels) = 0
  BY <1>4, IndexOfs
<1>7. QED
  BY <1>1, <1>3, <1>5, <1>6 DEF NodeIndex, r

LEMMA Quotient ==
  ASSUME NEW a \in Nat, a >= 1, NEW x \in Nat, NEW n \in Nat, x < a * n
  PROVE  /\ x \div a \in 0 .. n - 1 /\ x % a \in 0 .. a - 1
         /\ a * (x \div a) + (x % a) = x
<1> DEFINE y == x \div a
           c == x % a
<1>1. y \in Nat /\ c \in 0 .. a - 1 /\ x = a * y + c
  OBVIOUS
<1> HIDE DEF y, c
<1>2. y < n
  <2>1. SUFFICES ASSUME n <= y PROVE FALSE
    BY <1>1
  <2>2. n * a <= y * a /\ n * a \in Nat /\ y * a \in Nat
    BY <1>1, <2>1, Times
  <2>3. n * a = a * n /\ y * a = a * y
    BY <1>1
  <2>4. QED
    BY <1>1, <2>2, <2>3
<1>3. QED
  BY <1>1, <1>2 DEF y, c

LEMMA BreadthFirstNode ==
  ASSUME NEW a \in Nat, a >= 1
  PROVE  \A levels \in Nat : \A j \in 0 .. NumElements(a, levels) - 1 :
           \E p \in Nodes(a, levels) : NodeIndex("BFS", a, levels, p) = j
<1> DEFINE Found(levels) == \A j \in 0 .. NumElements(a, levels) - 1 :
                              \E p \in Nodes(a, levels) : NodeIndex("BFS", a, levels, p) = j
           T == {levels \in Nat : Found(levels)}
<1>1. 0 \in T
  BY ElementsOf
<1>2. ASSUME NEW n \in Nat, n \in T
      PROVE  n + 1 \in T
  <2>1. SUFFICES ASSUME NEW j \in 0 .. NumElements(a, n + 1) - 1
                 PROVE  \E p \in Nodes(a, n + 1) : NodeIndex("BFS", a, n + 1, p) = j
    OBVIOUS
  <2>2. CASE j = 0
    BY <2>2, RootOf
  <2>3. CASE j # 0
    <3> DEFINE e == NumElements(a, n)
               x == (j - 1) \div a
               c == (j - 1) % a
    <3>1. e \in Nat /\ j - 1 \in Nat /\ j - 1 < a * e
      <4>1. e \in Nat /\ NumElements(a, n + 1) = a * e + 1
        BY ElementsOf
      <4> HIDE DEF e
      <4> DEFINE f == a * e
      <4>2. f \in Nat
        BY <4>1
      <4> HIDE DEF f
      <4>3. j - 1 \in Nat /\ j - 1 < f
        BY <2>3, <4>1, <4>2 DEF f
      <4>4. QED
        BY <4>1, <4>3 DEF f
    <3>2. x \in 0 .. e - 1 /\ c \in 0 .. a - 1 /\ a * x + c = j - 1
      <4> HIDE DEF e
      <4>1. QED
        BY <3>1, Quotient
    <3> HIDE DEF x, c
    <3>3. PICK q \in Nodes(a, n) : NodeIndex("BFS", a, n, q) = x
      BY <1>2, <3>2
    <3>4. Up(a, 1, q, Len(q)) = x
      BY <3>3 DEF NodeIndex
    <3>5. /\ Append(q, c) \in Nodes(a, n + 1)
          /\ NodeIndex("BFS", a, n + 1, Append(q, c)) = a * x + 1 + c
      BY <3>2, <3>4, ChildOf DEF NodeIndex
    <3>6. a * x + 1 + c = j
      <4> DEFINE y == a * x
      <4>1. y \in Int
        BY <3>2
      <4> HIDE DEF y
      <4>2. y + 1 + c = j
        BY <3>2, <4>1 DEF y
      <4>3. QED
        BY <4>2 DEF y
    <3>7. QED
      BY <3>5, <3>6
  <2>4. QED
    BY <2>2, <2>3
<1> HIDE DEF Found
<1>3. Nat \subseteq T
  BY <1>1, <1>2, SetInduction
<1>4. QED
  BY <1>3 DEF Found

LEMMA NodeExists ==
  ASSUME k \in Nat, k >= 2, NEW levels \in Nat, NEW o \in {"BFS", "DFS"},
         NEW i \in 0 .. NumElements(k, levels) - 1
  PROVE  \E p \in Nodes(k, levels) : NodeIndex(o, k, levels, p) = i
<1>1. CASE o = "BFS"
  <2>1. k >= 1
    OBVIOUS
  <2>2. QED
    BY <1>1, <2>1, BreadthFirstNode
<1>2. CASE o = "DFS"
  <2>1. levels >= 1
    <3>1. levels # 0
      BY ElementsOf
    <3>2. QED
      BY <3>1
  <2> DEFINE n == NumElements(k, levels)
             far == DepthFirst!Far(levels, DepthFirst!Jump(0))
  <2>2. \A j \in 0 .. n - 1 : \E p, l : Leads(p, l, j, far[j], levels, 0)
    BY <2>1, FarOf
  <2> HIDE DEF far
  <2>3. PICK p, l : Leads(p, l, i, far[i], levels, 0)
    BY <2>2
  <2>4. l \in 0 .. levels - 1 /\ l \in Nat /\ l <= levels
        /\ Children(p, l, k) /\ Index(k, p, l, levels) = i
    BY <2>3 DEF Leads
  <2> DEFINE q == [j \in 1 .. l |-> p[j]]
  <2>5. Len(q) = l /\ q \in [1 .. l -> 0 .. k - 1] /\ Agree(q, p, l)
    BY <2>4 DEF Children, Agree
  <2> HIDE DEF q
  <2>6. q \in Nodes(k, levels)
    BY <2>4, <2>5 DEF Nodes
  <2>7. Numbers(q, l)
    BY <2>5 DEF Numbers
  <2>8. Index(k, q, l, levels) = i
    BY <2>4, <2>5, <2>7, SameIndex
  <2>9. NodeIndex(o, k, levels, q) = i
    BY <1>2, <2>5, <2>8 DEF NodeIndex
  <2>10. QED
    BY <2>6, <2>9
<1>3. QED
  BY <1>1, <1>2

(***************************************************************************)
(* PathOf finds the node of an index, in either order.                     *)
(***************************************************************************)
LEMMA BreadthFirstPathOf ==
  ASSUME k \in Nat, k >= 2, NEW levels \in Nat, NEW p \in Nodes(k, levels)
  PROVE  BreadthFirst!PathOf(NodeIndex("BFS", k, levels, p)) = p
<1> DEFINE i == NodeIndex("BFS", k, levels, p)
           Rule(f) == f = [j \in 0 .. i |->
                             IF j = 0 THEN << >>
                             ELSE Append(f[(j - 1) \div k], (j - 1) % k)]
           At(j) == CHOOSE q \in Nodes(k, levels) : NodeIndex("BFS", k, levels, q) = j
           at == [j \in 0 .. i |-> At(j)]
<1>1. k >= 1 /\ i \in Nat /\ \A j \in 0 .. i : j \in 0 .. NumElements(k, levels) - 1
  <2>1. i \in 0 .. NumElements(k, levels) - 1 /\ NumElements(k, levels) \in Nat
    <3>1. k >= 1
      OBVIOUS
    <3>2. QED
      BY <3>1, NodeIndexInside, ElementsOf
  <2> HIDE DEF i
  <2>2. QED
    BY <2>1
<1>2. \A j \in 0 .. i : /\ at[j] \in Nodes(k, levels)
                        /\ NodeIndex("BFS", k, levels, at[j]) = j
  <2> HIDE DEF i
  <2> SUFFICES ASSUME NEW j \in 0 .. i
               PROVE  /\ At(j) \in Nodes(k, levels)
                      /\ NodeIndex("BFS", k, levels, At(j)) = j
    OBVIOUS
  <2>1. \E q \in Nodes(k, levels) : NodeIndex("BFS", k, levels, q) = j
    BY <1>1, NodeExists
  <2>2. QED
    BY <2>1
<1>3. at[i] = p
  <2>1. i \in 0 .. i
    BY <1>1
  <2>2. QED
    BY <1>1, <1>2, <2>1, NodesApart
<1> HIDE DEF at, At, i
<1>4. ASSUME NEW j \in 0 .. i, j # 0
      PROVE  /\ (j - 1) \div k \in 0 .. i /\ (j - 1) \div k < j
             /\ at[j] = Append(at[(j - 1) \div k], (j - 1) % k)
  <2> DEFINE x == (j - 1) \div k
             c == (j - 1) % k
  <2>1. j - 1 \in Nat /\ j - 1 < k * j
    <3>1. 1 * j <= k * j /\ k * j \in Nat
      <4>1. j * 1 <= j * k
        BY <1>1, <1>4
      <4>2. QED
        BY <1>1, <1>4, <4>1
    <3> DEFINE y == k * j
    <3> HIDE DEF y
    <3>2. j - 1 \in Nat /\ j - 1 < y
      BY <1>1, <1>4, <3>1 DEF y
    <3>3. QED
      BY <3>2 DEF y
  <2>2. x \in 0 .. j - 1 /\ c \in 0 .. k - 1 /\ k * x + c = j - 1
    <3>1. j \in Nat
      BY <1>1
    <3>2. QED
      BY <1>1, <2>1, <3>1, Quotient
  <2> HIDE DEF x, c
  <2>3. x \in 0 .. i /\ x < j
    BY <1>1, <1>4, <2>2
  <2>4. at[x] \in Nodes(k, levels) /\ Up(k, 1, at[x], Len(at[x])) = x
    BY <1>2, <2>3 DEF NodeIndex
  <2> DEFINE q == Append(at[x], c)
  <2>5. q \in Nodes(k, levels + 1) /\ Up(k, 1, q, Len(q)) = k * x + 1 + c
    BY <2>2, <2>4, ChildOf
  <2> HIDE DEF q
  <2>6. k * x + 1 + c = j
    <3> DEFINE y == k * x
    <3>1. y \in Int
      BY <2>3, <1>1
    <3> HIDE DEF y
    <3>2. y + 1 + c = j
      BY <1>1, <1>4, <2>2, <3>1 DEF y
    <3>3. QED
      BY <3>2 DEF y
  <2>7. at[j] \in Nodes(k, levels + 1)
    <3>1. at[j] \in Nodes(k, levels)
      BY <1>2, <1>4
    <3>2. \A n \in 0 .. levels - 1 : n \in 0 .. (levels + 1) - 1
      OBVIOUS
    <3>3. QED
      BY <3>1, <3>2 DEF Nodes
  <2>8. NodeIndex("BFS", k, levels + 1, at[j]) = NodeIndex("BFS", k, levels + 1, q)
    BY <1>2, <1>4, <2>5, <2>6 DEF NodeIndex
  <2>9. at[j] = q
    <3>1. levels + 1 \in Nat
      OBVIOUS
    <3>2. QED
      BY <1>1, <2>5, <2>7, <2>8, <3>1, NodesApart
  <2>10. QED
    BY <2>3, <2>9 DEF q, x, c
<1>5. at[0] = << >>
  <2>1. levels >= 1
    BY NodesAre
  <2>2. << >> \in Nodes(k, levels) /\ NodeIndex("BFS", k, levels, << >>) = 0
    BY <2>1, RootOf
  <2>3. 0 \in 0 .. i
    BY <1>1
  <2>4. QED
    BY <1>1, <1>2, <2>2, <2>3, NodesApart
<1>6. Rule(at)
  <2>1. at = [j \in 0 .. i |-> at[j]]
    BY DEF at
  <2>2. QED
    BY <1>4, <1>5, <2>1
<1> DEFINE path == CHOOSE f : Rule(f)
<1>7. Rule(path)
  <2> HIDE DEF Rule
  <2>1. QED
    BY <1>6
<1>8. BreadthFirst!PathOf(i) = path[i]
  BY DEF BreadthFirst!PathOf
<1> HIDE DEF path
<1>9. \A j \in 0 .. i : path[j] = IF j = 0 THEN << >>
                                  ELSE Append(path[(j - 1) \div k], (j - 1) % k)
  BY <1>7
<1> HIDE DEF Rule
<1> DEFINE T == {n \in Nat : \A j \in 0 .. i : j < n => path[j] = at[j]}
<1>10. 0 \in T
  BY <1>1
<1>11. ASSUME NEW n \in Nat, n \in T
       PROVE  n + 1 \in T
  <2>1. SUFFICES ASSUME NEW j \in 0 .. i, j < n + 1
                 PROVE  path[j] = at[j]
    OBVIOUS
  <2>2. \A x \in 0 .. i : x < j => path[x] = at[x]
    BY <1>1, <1>11, <2>1
  <2>3. CASE j = 0
    BY <1>5, <1>9, <2>3
  <2>4. CASE j # 0
    BY <1>4, <1>9, <2>2, <2>4
  <2>5. QED
    BY <2>3, <2>4
<1>12. path[i] = at[i]
  <2>1. Nat \subseteq T
    BY <1>10, <1>11, SetInduction
  <2>2. i + 1 \in T /\ i \in 0 .. i /\ i < i + 1
    BY <1>1, <2>1
  <2>3. QED
    BY <2>2
<1>13. QED
  BY <1>3, <1>8, <1>12 DEF i

\* r is q below its first step.
After(r, q, n) == \A j \in 1 .. n : r[j + 1] = q[j]

LEMMA Prepend ==
  ASSUME NEW a \in Nat, NEW levels \in Nat, NEW n \in Nat, n <= levels,
         NEW q, Numbers(q, n), NEW r, Numbers(r, n + 1), After(r, q, n)
  PROVE  Index(a, r, n + 1, levels + 1)
           = Index(a, q, n, levels) + 1 + r[1] * NumElements(a, levels)
<1> DEFINE Shifts(m) == Index(a, r, m + 1, levels + 1)
                          = Index(a, q, m, levels) + 1 + r[1] * NumElements(a, levels)
           T == {m \in Nat : m <= n => Shifts(m)}
<1>1. 0 \in T
  <2>1. Numbers(r, 1) /\ Numbers(r, 0) /\ Agree(r, r, 0) /\ Numbers(q, 0)
    BY DEF Numbers, Agree
  <2>2. Index(a, r, 0, levels + 1) = 0 /\ Index(a, q, 0, levels) = 0
    BY <2>1, IndexOfs
  <2>3. Index(a, r, 0 + 1, levels + 1) = Index(a, r, 0, levels + 1) + 1
                                  + r[0 + 1] * NumElements(a, (levels + 1) - (0 + 1))
    <3>1. Numbers(r, 0 + 1) /\ levels + 1 \in Nat /\ 0 < levels + 1
      BY <2>1
    <3>2. QED
      BY <2>1, <3>1, NextIndex
  <2>4. (levels + 1) - (0 + 1) = levels /\ 0 + 1 = 1
    OBVIOUS
  <2>5. QED
    BY <2>2, <2>3, <2>4
<1>2. ASSUME NEW m \in Nat, m \in T
      PROVE  m + 1 \in T
  <2>1. SUFFICES ASSUME m + 1 <= n PROVE Shifts(m + 1)
    OBVIOUS
  <2>2. Shifts(m)
    BY <1>2, <2>1
  <2>3. /\ Numbers(r, (m + 1) + 1) /\ Numbers(q, m + 1) /\ Agree(r, r, m + 1) /\ Agree(q, q, m)
        /\ Numbers(q, m) /\ Numbers(r, m + 1)
        /\ m + 1 < levels + 1 /\ m < levels /\ levels + 1 \in Nat /\ m + 1 \in Nat
        /\ m <= levels /\ m + 1 <= levels + 1
    BY <2>1 DEF Numbers, Agree
  <2> DEFINE e == NumElements(a, levels - (m + 1))
             x == Index(a, r, m + 1, levels + 1)
             y == Index(a, q, m, levels)
  <2>4. Index(a, r, (m + 1) + 1, levels + 1)
          = x + 1 + r[(m + 1) + 1] * NumElements(a, (levels + 1) - ((m + 1) + 1))
    BY <2>3, NextIndex
  <2>5. Index(a, q, m + 1, levels) = y + 1 + q[m + 1] * e
    BY <2>3, NextIndex
  <2>6. (levels + 1) - ((m + 1) + 1) = levels - (m + 1) /\ levels - (m + 1) \in Nat
    BY <2>3
  <2>7. r[(m + 1) + 1] = q[m + 1] /\ q[m + 1] \in Nat
    <3>1. m + 1 \in 1 .. n
      BY <2>1
    <3>2. QED
      BY <3>1 DEF Numbers, After
  <2>8. x \in Nat /\ y \in Nat /\ e \in Nat
    BY <2>3, <2>6, IndexOfs, ElementsOf
  <2> DEFINE z == r[1] * NumElements(a, levels)
             t == q[m + 1] * e
  <2>9. z \in Nat /\ t \in Nat
    <3>1. r[1] \in Nat
      <4>1. 1 \in 1 .. n + 1
        OBVIOUS
      <4>2. QED
        BY <4>1 DEF Numbers
    <3>2. NumElements(a, levels) \in Nat
      BY ElementsOf
    <3> HIDE DEF e
    <3>3. QED
      BY <2>7, <2>8, <3>1, <3>2
  <2>10. x = y + 1 + z
    BY <2>2
  <2>11. Index(a, r, (m + 1) + 1, levels + 1) = x + 1 + t
    BY <2>4, <2>6, <2>7
  <2> HIDE DEF x, y, e, z, t
  <2>12. x + 1 + t = (y + 1 + t) + 1 + z
    BY <2>8, <2>9, <2>10
  <2>13. Index(a, q, m + 1, levels) = y + 1 + t
    BY <2>5 DEF t
  <2>14. QED
    BY <2>11, <2>12, <2>13 DEF z
<1> HIDE DEF Shifts
<1>3. Nat \subseteq T
  BY <1>1, <1>2, SetInduction
<1>4. n \in T
  BY <1>3
<1>5. QED
  BY <1>4 DEF Shifts

LEMMA Remainder ==
  ASSUME NEW a \in Nat, a >= 1, NEW x \in Nat
  PROVE  x \div a \in Nat /\ x % a \in 0 .. x
<1> DEFINE y == x \div a
           c == x % a
<1>1. y \in Nat /\ c \in Nat /\ x = a * y + c
  OBVIOUS
<1> HIDE DEF y, c
<1> DEFINE z == a * y
<1>2. z \in Nat
  BY <1>1
<1> HIDE DEF z
<1>3. x = z + c
  BY <1>1 DEF z
<1>4. QED
  BY <1>1, <1>2, <1>3 DEF y, c

LEMMA DepthFirstPathOf ==
  ASSUME k \in Nat, k >= 2, depth \in Nat, NEW p \in Nodes(k, depth)
  PROVE  DepthFirst!PathOf(NodeIndex("DFS", k, depth, p)) = p
<1> DEFINE i == NodeIndex("DFS", k, depth, p)
           S(l) == DepthFirst!Subtree(l)
           Rule(f) == f = [l \in 1 .. depth |->
                             [j \in 0 .. i |->
                                IF j = 0 \/ l = 1 THEN << >>
                                ELSE <<(j - 1) \div S(l - 1)>> \o f[l - 1][(j - 1) % S(l - 1)]]]
           below == CHOOSE f : Rule(f)
<1>1. k >= 1 /\ depth >= 1 /\ i \in Nat /\ i < NumElements(k, depth)
  <2>1. k >= 1
    OBVIOUS
  <2>2. i \in 0 .. NumElements(k, depth) - 1 /\ NumElements(k, depth) \in Nat
    BY <2>1, NodeIndexInside, ElementsOf
  <2>3. depth >= 1
    BY NodesAre
  <2> HIDE DEF i
  <2>4. QED
    BY <2>1, <2>2, <2>3
<1>2. DepthFirst!PathOf(i) = below[depth][i]
  BY DEF DepthFirst!PathOf
<1>3. \A l \in Nat : S(l) = NumElements(k, l) /\ S(l) \in Nat /\ (l >= 1 => S(l) >= 1)
  <2>1. \A l \in Nat : S(l) = NumElements(k, l) /\ S(l) \in Nat
    BY SubtreeIs, ElementsOf
  <2>2. ASSUME NEW l \in Nat, l >= 1
        PROVE  NumElements(k, l) >= 1
    <3>1. 1 \in Nat /\ 0 \in Nat
      OBVIOUS
    <3>2. NumElements(k, 1) = 1
      <4>1. NumElements(k, 0 + 1) = k * NumElements(k, 0) + 1 /\ NumElements(k, 0) = 0
        BY <3>1, ElementsOf
      <4>2. QED
        BY <4>1
    <3>3. NumElements(k, 1) <= NumElements(k, l)
      BY <1>1, <2>2, <3>1, MoreLevels
    <3>4. QED
      BY <2>1, <2>2, <3>2, <3>3
  <2> HIDE DEF S
  <2>3. QED
    BY <2>1, <2>2
<1> HIDE DEF S, i, below
<1>4. \A l \in 1 .. depth : \A j \in 0 .. i :
        below[l][j] = IF j = 0 \/ l = 1 THEN << >>
                      ELSE <<(j - 1) \div S(l - 1)>> \o below[l - 1][(j - 1) % S(l - 1)]
  <2> DEFINE X == [0 .. i -> Seq(Nat)]
             root == [j \in 0 .. i |-> << >>]
             down(l, b, j) == IF j = 0 THEN << >>
                              ELSE <<(j - 1) \div S(l + 1)>> \o b[(j - 1) % S(l + 1)]
             step == [l \in Nat |-> [b \in X |-> [j \in 0 .. i |-> down(l, b, j)]]]
  <2>1. root \in X
    OBVIOUS
  <2>2. ASSUME NEW l \in Nat, NEW b \in X, NEW j \in 0 .. i
        PROVE  down(l, b, j) \in Seq(Nat)
    <3>1. CASE j = 0
      BY <3>1
    <3>2. CASE j # 0
      <4> DEFINE s == S(l + 1)
                 x == j - 1
      <4>1. s \in Nat /\ s >= 1 /\ x \in 0 .. i /\ x \in Nat
        <5>1. l + 1 \in Nat /\ l + 1 >= 1
          OBVIOUS
        <5>2. s \in Nat /\ s >= 1
          BY <1>3, <5>1
        <5>3. QED
          BY <1>1, <3>2, <5>2
      <4> HIDE DEF s, x
      <4>2. x \div s \in Nat /\ x % s \in 0 .. i
        <5>1. x \div s \in Nat /\ x % s \in 0 .. x
          BY <4>1, Remainder
        <5> DEFINE y == x % s
        <5> HIDE DEF y
        <5>2. y \in 0 .. i
          BY <1>1, <4>1, <5>1 DEF y
        <5>3. QED
          BY <5>1, <5>2 DEF y
      <4>3. b[x % s] \in Seq(Nat) /\ <<x \div s>> \in Seq(Nat)
        BY <4>2
      <4>4. <<x \div s>> \o b[x % s] \in Seq(Nat)
        BY <4>3, ConcatProperties
      <4>5. QED
        BY <3>2, <4>4 DEF s, x
    <3>3. QED
      BY <3>1, <3>2
  <2> HIDE DEF down
  <2>3. \A l \in Nat : \A b \in X : [j \in 0 .. i |-> down(l, b, j)] \in X
    BY <2>2
  <2> HIDE DEF X
  <2>4. step \in [Nat -> [X -> X]]
    BY <2>3
  <2>5. \A l \in Nat : \A b \in X : step[l][b] = [j \in 0 .. i |-> down(l, b, j)]
    OBVIOUS
  <2> HIDE DEF step
  <2>6. PICK f : Turns(f, X, root, step, depth - 1)
    <3>1. depth - 1 \in Nat
      BY <1>1
    <3>2. QED
      BY <2>1, <2>4, <3>1, FiniteRecursion
  <2> DEFINE g == [l \in 1 .. depth |-> f[l - 1]]
  <2>7. ASSUME NEW l \in 1 .. depth
        PROVE  g[l] = [j \in 0 .. i |->
                         IF j = 0 \/ l = 1 THEN << >>
                         ELSE <<(j - 1) \div S(l - 1)>> \o g[l - 1][(j - 1) % S(l - 1)]]
    <3>1. CASE l = 1
      <4>1. g[l] = root
        BY <3>1, <2>6, 1 - 1 = 0 DEF Turns
      <4>2. QED
        BY <3>1, <4>1
    <3>2. CASE l # 1
      <4> DEFINE m == l - 2
      <4>1. m \in Nat /\ l - 1 \in 1 .. depth - 1 /\ (l - 1) - 1 = m /\ m + 1 = l - 1
            /\ l - 1 \in 1 .. depth /\ m \in 0 .. depth - 1
        BY <1>1, <3>2
      <4> HIDE DEF m
      <4>2. f[l - 1] = step[m][f[m]] /\ f[m] \in X
        BY <2>6, <4>1 DEF Turns
      <4>3. f[l - 1] = [j \in 0 .. i |-> down(m, f[m], j)]
        BY <2>5, <4>1, <4>2
      <4>4. g[l] = f[l - 1] /\ g[l - 1] = f[m]
        BY <4>1
      <4> HIDE DEF g
      <4>5. \A j \in 0 .. i : down(m, f[m], j) =
              IF j = 0 \/ l = 1 THEN << >>
              ELSE <<(j - 1) \div S(l - 1)>> \o g[l - 1][(j - 1) % S(l - 1)]
        BY <3>2, <4>1, <4>4 DEF down
      <4>6. QED
        BY <4>3, <4>4, <4>5
    <3>3. QED
      BY <3>1, <3>2
  <2>8. Rule(g)
    <3>1. g = [l \in 1 .. depth |-> g[l]]
      OBVIOUS
    <3> HIDE DEF g
    <3>2. QED
      BY <2>7, <3>1
  <2> HIDE DEF g
  <2>9. Rule(below)
    <3> HIDE DEF Rule
    <3>1. QED
      BY <2>8 DEF below
  <2> DEFINE e(l, j) == IF j = 0 \/ l = 1 THEN << >>
                        ELSE <<(j - 1) \div S(l - 1)>> \o below[l - 1][(j - 1) % S(l - 1)]
  <2>10. below = [l \in 1 .. depth |-> [j \in 0 .. i |-> e(l, j)]]
    BY <2>9
  <2> HIDE DEF e
  <2>11. \A l \in 1 .. depth : \A j \in 0 .. i : below[l][j] = e(l, j)
    BY <2>10
  <2>12. QED
    BY <2>11 DEF e
<1> HIDE DEF Rule
<1> DEFINE Right(l) == \A j \in 0 .. i : j < NumElements(k, l) =>
                         /\ below[l][j] \in Nodes(k, l)
                         /\ NodeIndex("DFS", k, l, below[l][j]) = j
           T == {n \in Nat : n + 1 <= depth => Right(n + 1)}
<1>5. 0 \in T
  <2>1. SUFFICES ASSUME NEW j \in 0 .. i, j < NumElements(k, 1)
                 PROVE  /\ below[1][j] \in Nodes(k, 1)
                        /\ NodeIndex("DFS", k, 1, below[1][j]) = j
    OBVIOUS
  <2>2. j = 0
    <3>1. NumElements(k, 0 + 1) = k * NumElements(k, 0) + 1 /\ NumElements(k, 0) = 0
      BY ElementsOf
    <3>2. QED
      BY <1>1, <2>1, <3>1
  <2>3. below[1][j] = << >>
    <3>1. 1 \in 1 .. depth
      BY <1>1
    <3>2. QED
      BY <1>4, <2>2, <3>1, Zenon
  <2>4. QED
    BY <2>2, <2>3, RootOf
<1>6. ASSUME NEW n \in Nat, n \in T
      PROVE  n + 1 \in T
  <2> DEFINE l == n + 1
  <2>1. SUFFICES ASSUME l + 1 <= depth, NEW j \in 0 .. i, j < NumElements(k, l + 1)
                 PROVE  /\ below[l + 1][j] \in Nodes(k, l + 1)
                        /\ NodeIndex("DFS", k, l + 1, below[l + 1][j]) = j
    OBVIOUS
  <2>2. Right(l)
    BY <1>6, <2>1
  <2>3. l \in Nat /\ l >= 1 /\ l + 1 \in 1 .. depth /\ (l + 1) - 1 = l /\ l + 1 # 1 /\ l + 1 \in Nat
        /\ l + 1 >= 1
    BY <2>1
  <2> HIDE DEF l
  <2>4. CASE j = 0
    <3>1. below[l + 1][j] = << >>
      BY <1>4, <2>3, <2>4
    <3>2. QED
      BY <2>3, <2>4, <3>1, RootOf
  <2>5. CASE j # 0
    <3> DEFINE e == NumElements(k, l)
               c == (j - 1) \div e
               x == (j - 1) % e
    <3>1. e \in Nat /\ e >= 1 /\ S(l) = e
      <4> HIDE DEF e
      <4>1. S(l) \in Nat /\ S(l) >= 1
        BY <1>3, <2>3
      <4>2. S(l) = e
        BY <1>3, <2>3 DEF e
      <4>3. QED
        BY <4>1, <4>2
    <3>2. j - 1 \in Nat /\ j - 1 < e * k
      <4>1. NumElements(k, l + 1) = k * e + 1
        BY <2>3, ElementsOf
      <4> HIDE DEF e
      <4>2. k * e = e * k
        BY <3>1
      <4> DEFINE y == e * k
      <4>3. y \in Nat
        BY <3>1
      <4> HIDE DEF y
      <4>4. j < y + 1
        BY <2>1, <4>1, <4>2 DEF y
      <4>5. j - 1 \in Nat /\ j - 1 < y
        BY <1>1, <2>5, <4>3, <4>4
      <4>6. QED
        BY <4>5 DEF y
    <3>3. c \in 0 .. k - 1 /\ x \in 0 .. e - 1 /\ e * c + x = j - 1
      <4> HIDE DEF e
      <4>1. QED
        BY <3>1, <3>2, Quotient
    <3>4. below[l + 1][j] = <<c>> \o below[l][x]
      <4>1. below[l + 1][j] = <<(j - 1) \div S(l)>> \o below[l][(j - 1) % S(l)]
        BY <1>4, <2>3, <2>5
      <4>2. QED
        BY <3>1, <4>1
    <3> HIDE DEF e, c, x
    <3>5. x \in 0 .. i
      <4>1. c * e \in Nat /\ e * c = c * e /\ x \in Nat
        BY <3>1, <3>3
      <4> DEFINE y == c * e
      <4> HIDE DEF y
      <4>2. y \in Nat /\ y + x = j - 1
        BY <3>3, <4>1 DEF y
      <4>3. QED
        BY <1>1, <4>1, <4>2
    <3> DEFINE q == below[l][x]
               r == <<c>> \o q
               m == Len(q)
    <3>6. q \in Nodes(k, l) /\ Index(k, q, m, l) = x
      <4>1. x < NumElements(k, l)
        BY <3>1, <3>3 DEF e
      <4>2. QED
        BY <2>2, <3>5, <4>1 DEF NodeIndex
    <3> HIDE DEF q
    <3>7. m \in 0 .. l - 1 /\ q \in [1 .. m -> 0 .. k - 1] /\ Numbers(q, m) /\ m \in Nat
      BY <2>3, <3>6, NodesAre
    <3>8. /\ Len(r) = m + 1 /\ r \in Seq(0 .. k - 1) /\ r[1] = c
          /\ \A t \in 1 .. m : r[t + 1] = q[t]
      <4>1. <<c>> \in Seq(0 .. k - 1) /\ q \in Seq(0 .. k - 1) /\ Len(<<c>>) = 1 /\ <<c>>[1] = c
        BY <3>3, <3>7
      <4>2. Len(r) = 1 + m /\ r \in Seq(0 .. k - 1)
            /\ \A t \in 1 .. 1 + m : r[t] = IF t <= 1 THEN <<c>>[t] ELSE q[t - 1]
        BY <4>1, ConcatProperties
      <4> HIDE DEF r, m
      <4>3. r[1] = c
        <5>1. 1 \in 1 .. 1 + m /\ 1 <= 1
          BY <3>7
        <5>2. QED
          BY <4>1, <4>2, <5>1
      <4>4. ASSUME NEW t \in 1 .. m
            PROVE  r[t + 1] = q[t]
        <5>1. t + 1 \in 1 .. 1 + m /\ ~ (t + 1 <= 1) /\ (t + 1) - 1 = t
          BY <3>7
        <5>2. QED
          BY <4>2, <5>1
      <4>5. QED
        BY <3>7, <4>2, <4>3, <4>4
    <3> HIDE DEF r, m
    <3>9. r \in [1 .. m + 1 -> 0 .. k - 1] /\ m + 1 \in 0 .. (l + 1) - 1
      BY <2>3, <3>7, <3>8
    <3>10. r \in Nodes(k, l + 1) /\ Numbers(r, m + 1) /\ m <= l
      <4>1. r \in Nodes(k, l + 1)
        BY <3>9 DEF Nodes
      <4>2. Numbers(r, m + 1)
        BY <3>9 DEF Numbers
      <4>3. m <= l
        BY <2>3, <3>7
      <4>4. QED
        BY <4>1, <4>2, <4>3
    <3>11. Index(k, r, m + 1, l + 1) = x + 1 + c * e
      <4>1. Index(k, r, m + 1, l + 1) = Index(k, q, m, l) + 1 + r[1] * NumElements(k, l)
        <5>1. /\ l \in Nat /\ m \in Nat /\ m <= l /\ Numbers(q, m) /\ Numbers(r, m + 1)
              /\ After(r, q, m)
          BY <2>3, <3>7, <3>8, <3>10 DEF After
        <5>2. QED
          BY <5>1, Prepend
      <4>2. QED
        BY <3>6, <3>8, <4>1 DEF e
    <3>12. x + 1 + c * e = j
      <4>1. e * c = c * e /\ c * e \in Nat
        BY <3>1, <3>3
      <4> DEFINE y == c * e
      <4> HIDE DEF y
      <4>2. x + 1 + y = j
        BY <1>1, <3>3, <3>5, <4>1 DEF y
      <4>3. QED
        BY <4>2 DEF y
    <3>13. QED
      BY <3>4, <3>8, <3>10, <3>11, <3>12 DEF NodeIndex, r, q
  <2>6. QED
    BY <2>4, <2>5
<1> HIDE DEF Right
<1>7. Nat \subseteq T
  BY <1>5, <1>6, SetInduction
<1>8. Right(depth)
  <2>1. depth - 1 \in T /\ (depth - 1) + 1 = depth
    BY <1>1, <1>7
  <2>2. QED
    BY <1>1, <2>1
<1>9. below[depth][i] \in Nodes(k, depth) /\ NodeIndex("DFS", k, depth, below[depth][i]) = i
  <2>1. i \in 0 .. i
    BY <1>1
  <2>2. QED
    BY <1>1, <1>8, <2>1 DEF Right
<1>10. below[depth][i] = p
  BY <1>1, <1>9, NodesApart DEF i
<1>11. QED
  BY <1>2, <1>10 DEF i

-----------------------------------------------------------------------------
(* The elements in use, by path.                                           *)

Used(o, a, levels, act) == {p \in Nodes(a, levels) : NodeIndex(o, a, levels, p) \in act}
ContentOf(o, a, levels, act, dat) ==
  [p \in Used(o, a, levels, act) |-> dat[NodeIndex(o, a, levels, p)]]

LEMMA Bounds ==
  ASSUME IInv
  PROVE  /\ k \in Nat /\ depth \in Nat /\ capacity \in Nat /\ capacity = NumElements(k, depth)
         /\ active \subseteq 0 .. capacity - 1
         /\ data \in [0 .. capacity - 1 -> Value \cup {None}]
         /\ order \in {"BFS", "DFS"}
         /\ memBlock => k >= 2 /\ depth >= 1
         /\ ~ memBlock => k = 0 /\ depth = 0 /\ capacity = 0 /\ active = {}
<1>1. k \in Nat /\ depth \in Nat
  BY DEF IInv, TypeOK
<1>2. capacity \in Nat /\ capacity = NumElements(k, depth)
  BY <1>1, ElementsOf DEF IInv, TypeOK
<1>3. ASSUME ~ memBlock
      PROVE  k = 0 /\ depth = 0 /\ capacity = 0 /\ active = {}
  <2>1. k = 0 /\ depth = 0
    BY <1>3 DEF IInv
  <2>2. capacity = 0
    BY <1>1, <1>2, <2>1, ElementsOf
  <2>3. active \subseteq 0 .. 0 - 1
    BY <2>2 DEF IInv, TypeOK
  <2>4. QED
    BY <2>1, <2>2, <2>3
<1>4. QED
  BY <1>1, <1>2, <1>3 DEF IInv, TypeOK

\* The node at an index.
LEMMA NodeAt ==
  ASSUME IInv, NEW i \in 0 .. capacity - 1
  PROVE  /\ memBlock /\ k >= 2 /\ depth >= 1
         /\ \E p \in Nodes(k, depth) : NodeIndex(order, k, depth, p) = i
<1>1. /\ k \in Nat /\ depth \in Nat /\ capacity \in Nat /\ capacity = NumElements(k, depth)
      /\ order \in {"BFS", "DFS"}
      /\ memBlock => k >= 2 /\ depth >= 1
      /\ ~ memBlock => capacity = 0
  BY Bounds
<1>2. memBlock /\ k >= 2 /\ depth >= 1
  BY <1>1
<1>3. i \in 0 .. NumElements(k, depth) - 1
  BY <1>1
<1>4. QED
  BY <1>1, <1>2, <1>3, NodeExists

LEMMA PathsAre ==
  ASSUME IInv
  PROVE  Paths = Nodes(k, depth)
<1>1. QED
  BY DEF Paths, Nodes

\* The refinement mapping of KTrees.
Mapped == IF isBFS THEN BreadthFirst!Content ELSE DepthFirst!Content

LEMMA MappedIs ==
  ASSUME IInv
  PROVE  Mapped = ContentOf(order, k, depth, active, data)
<1> DEFINE PathAt(i) == IF isBFS THEN BreadthFirst!PathOf(i) ELSE DepthFirst!PathOf(i)
           IndexAt(p) == IF isBFS THEN BreadthFirst!IndexOf(p) ELSE DepthFirst!IndexOf(p)
           U == Used(order, k, depth, active)
<1>1. /\ k \in Nat /\ depth \in Nat /\ capacity \in Nat
      /\ active \subseteq 0 .. capacity - 1
      /\ order \in {"BFS", "DFS"}
  BY Bounds
<1>2. Mapped = [p \in {PathAt(i) : i \in active} |-> data[IndexAt(p)]]
  <2>1. CASE isBFS
    BY <2>1 DEF Mapped, BreadthFirst!Content
  <2>2. CASE ~ isBFS
    BY <2>2 DEF Mapped, DepthFirst!Content
  <2>3. QED
    BY <2>1, <2>2
<1>3. ASSUME NEW p \in Nodes(k, depth)
      PROVE  /\ PathAt(NodeIndex(order, k, depth, p)) = p
             /\ IndexAt(p) = NodeIndex(order, k, depth, p)
  <2>1. /\ k \in Nat /\ k >= 2 /\ depth \in Nat
        /\ Len(p) \in Nat /\ Len(p) <= depth /\ Numbers(p, Len(p))
    BY HasNodes
  <2>2. CASE isBFS
    <3>1. BreadthFirst!PathOf(NodeIndex("BFS", k, depth, p)) = p
      BY <2>1, BreadthFirstPathOf
    <3>2. BreadthFirst!IndexOf(p) = NodeIndex("BFS", k, depth, p)
      BY <2>1, BreadthFirstIndexOf DEF NodeIndex
    <3>3. QED
      BY <2>2, <3>1, <3>2 DEF isBFS
  <2>3. CASE ~ isBFS
    <3>1. DepthFirst!PathOf(NodeIndex("DFS", k, depth, p)) = p
      BY <2>1, DepthFirstPathOf
    <3>2. DepthFirst!IndexOf(p) = NodeIndex("DFS", k, depth, p)
      BY <2>1, DepthFirstIndexOf DEF NodeIndex
    <3>3. QED
      BY <1>1, <2>3, <3>1, <3>2 DEF isBFS
  <2>4. QED
    BY <2>2, <2>3
<1> HIDE DEF PathAt, IndexAt
<1>4. ASSUME NEW i \in active
      PROVE  PathAt(i) \in U
  <2>1. PICK p \in Nodes(k, depth) : NodeIndex(order, k, depth, p) = i
    BY <1>1, NodeAt
  <2>2. PathAt(i) = p
    BY <1>3, <2>1
  <2>3. QED
    BY <2>1, <2>2 DEF Used
<1>5. ASSUME NEW p \in U
      PROVE  p \in {PathAt(i) : i \in active}
  <2>1. p \in Nodes(k, depth) /\ NodeIndex(order, k, depth, p) \in active
    BY DEF Used
  <2>2. PathAt(NodeIndex(order, k, depth, p)) = p
    BY <1>3, <2>1
  <2>3. QED
    BY <2>1, <2>2
<1>6. {PathAt(i) : i \in active} = U
  BY <1>4, <1>5
<1>7. \A p \in U : IndexAt(p) = NodeIndex(order, k, depth, p)
  BY <1>3 DEF Used
<1> HIDE DEF U
<1>8. Mapped = [p \in U |-> data[NodeIndex(order, k, depth, p)]]
  BY <1>2, <1>6, <1>7
<1>9. QED
  BY <1>8 DEF ContentOf, U

LEMMA MappedWhere == IInv => Mapped = ContentOf(order, k, depth, active, data)
<1>1. QED
  BY MappedIs

LEMMA MappedThen == (IInv => Mapped = ContentOf(order, k, depth, active, data))'
<1>1. QED
  BY MappedWhere, PTL

LEMMA MappedNext ==
  ASSUME IInv'
  PROVE  Mapped' = ContentOf(order', k', depth', active', data')
<1>1. QED
  BY MappedThen

-----------------------------------------------------------------------------
(* What the operations do to the elements in use.                          *)

LEMMA ContentEmpty ==
  ASSUME NEW o, NEW a, NEW levels, NEW dat
  PROVE  ContentOf(o, a, levels, {}, dat) = [p \in {} |-> None]
<1>1. Used(o, a, levels, {}) = {}
  BY DEF Used
<1>2. QED
  BY <1>1 DEF ContentOf

\* There is an element at each index.
Within(act, dat) == act \subseteq DOMAIN dat

LEMMA ContentAdd ==
  ASSUME NEW a \in Nat, a >= 1, NEW levels \in Nat, NEW o, NEW p \in Nodes(a, levels),
         NEW act, NEW dat, Within(act, dat), NEW v, NEW i, i = NodeIndex(o, a, levels, p),
         i \in DOMAIN dat, i \notin act
  PROVE  ContentOf(o, a, levels, act \cup {i}, [dat EXCEPT ![i] = v])
           = [q \in Used(o, a, levels, act) \cup {p} |->
                IF q = p THEN v ELSE ContentOf(o, a, levels, act, dat)[q]]
<1> DEFINE at(q) == NodeIndex(o, a, levels, q)
           U == Used(o, a, levels, act)
<1>1. \A q \in Nodes(a, levels) : at(q) = i => q = p
  BY NodesApart
<1>2. \A q : q \in U <=> q \in Nodes(a, levels) /\ at(q) \in act
  BY DEF Used
<1>3. at(p) = i /\ p \in Nodes(a, levels)
  OBVIOUS
<1>4. Used(o, a, levels, act \cup {i}) = U \cup {p}
  <2>1. \A q : q \in Used(o, a, levels, act \cup {i})
                 <=> q \in Nodes(a, levels) /\ (at(q) \in act \/ at(q) = i)
    BY DEF Used
  <2> HIDE DEF at, U
  <2>2. QED
    BY <1>1, <1>2, <1>3, <2>1
<1>5. ContentOf(o, a, levels, act, dat) = [q \in U |-> dat[at(q)]]
  BY DEF ContentOf
<1>6. ContentOf(o, a, levels, act \cup {i}, [dat EXCEPT ![i] = v])
        = [q \in U \cup {p} |-> [dat EXCEPT ![i] = v][at(q)]]
  BY <1>4 DEF ContentOf
<1> DEFINE e == [dat EXCEPT ![i] = v]
<1>7. \A q \in U \cup {p} : e[at(q)] = IF q = p THEN v ELSE dat[at(q)]
  <2>1. e[at(p)] = v
    BY <1>3
  <2>2. ASSUME NEW q \in U, q # p
        PROVE  e[at(q)] = dat[at(q)]
    <3> DEFINE x == at(q)
    <3>1. x # i /\ x \in DOMAIN dat
      BY <1>1, <1>2, <2>2 DEF Within
    <3> HIDE DEF at
    <3>2. QED
      BY <3>1
  <2>3. QED
    BY <2>1, <2>2
<1> HIDE DEF at, U, e
<1>8. QED
  BY <1>5, <1>6, <1>7 DEF e, U

\* All but one index, the elements at all paths but one, and those above a level.
AllBut(act, i) == act \ {i}
Wiped(dat, i) == [dat EXCEPT ![i] = None]
Less(content, p) == [q \in DOMAIN content \ {p} |-> content[q]]
Above(content, level) == [q \in {r \in DOMAIN content : Len(r) < level} |-> content[q]]

LEMMA ContentRemove ==
  ASSUME NEW a \in Nat, a >= 1, NEW levels \in Nat, NEW o, NEW p \in Nodes(a, levels),
         NEW act, NEW dat, Within(act, dat),
         NEW i, i = NodeIndex(o, a, levels, p)
  PROVE  ContentOf(o, a, levels, AllBut(act, i), Wiped(dat, i))
           = Less(ContentOf(o, a, levels, act, dat), p)
<1> DEFINE at(q) == NodeIndex(o, a, levels, q)
           U == Used(o, a, levels, act)
           e == [dat EXCEPT ![i] = None]
<1>1. \A q \in Nodes(a, levels) : at(q) = i => q = p
  BY NodesApart
<1>2. \A q : q \in U <=> q \in Nodes(a, levels) /\ at(q) \in act
  BY DEF Used
<1>3. at(p) = i /\ p \in Nodes(a, levels)
  OBVIOUS
<1>4. Used(o, a, levels, act \ {i}) = U \ {p}
  <2>1. \A q : q \in Used(o, a, levels, act \ {i})
                 <=> q \in Nodes(a, levels) /\ at(q) \in act /\ at(q) # i
    BY DEF Used
  <2> HIDE DEF at, U
  <2>2. QED
    BY <1>1, <1>2, <1>3, <2>1
<1>5. ContentOf(o, a, levels, act, dat) = [q \in U |-> dat[at(q)]]
  BY DEF ContentOf
<1>6. ContentOf(o, a, levels, act \ {i}, e) = [q \in U \ {p} |-> e[at(q)]]
  BY <1>4 DEF ContentOf
<1>7. \A q \in U \ {p} : e[at(q)] = dat[at(q)]
  <2>1. ASSUME NEW q \in U \ {p}
        PROVE  e[at(q)] = dat[at(q)]
    <3> DEFINE x == at(q)
    <3>1. x # i /\ x \in DOMAIN dat
      BY <1>1, <1>2 DEF Within
    <3> HIDE DEF at
    <3>2. QED
      BY <3>1
  <2>2. QED
    BY <2>1
<1> HIDE DEF at, U, e
<1>8. QED
  BY <1>5, <1>6, <1>7 DEF e, U, Less, AllBut, Wiped

LEMMA MoreNodes ==
  ASSUME NEW a, NEW low \in Nat, NEW high \in Nat, low <= high
  PROVE  Nodes(a, low) \subseteq Nodes(a, high)
<1>1. \A n \in 0 .. low - 1 : n \in 0 .. high - 1
  OBVIOUS
<1>2. QED
  BY <1>1 DEF Nodes

\* far says where the elements of the lower tree lie in the higher one.
Carries(far, o, low, high) ==
  \A p \in Nodes(k, low) : NodeIndex(o, k, high, p) = far[NodeIndex(o, k, low, p)]

\* Where far takes the indices of act, and that the elements go along.
Brought(far, act) == {far[s] : s \in act}
GoAlong(far, act, dat, new) == \A s \in act : new[far[s]] = dat[s]
FitIn(act, n) == act \subseteq 0 .. n - 1

\* Which of the first n indices far takes into act, and that what is there is fetched.
Fetching(far, act, n) == {i \in 0 .. n - 1 : far[i] \in act}
Fetched(far, left, dat, new) == \A i \in left : new[i] = dat[far[i]]

LEMMA ContentDeepened ==
  ASSUME k \in Nat, k >= 2, NEW low \in Nat, NEW high \in Nat, low <= high,
         NEW o \in {"BFS", "DFS"}, NEW far, Carries(far, o, low, high),
         NEW act, FitIn(act, NumElements(k, low)),
         NEW dat, NEW new, GoAlong(far, act, dat, new)
  PROVE  ContentOf(o, k, high, Brought(far, act), new) = ContentOf(o, k, low, act, dat)
<1> USE DEF Brought, GoAlong, FitIn
<1> DEFINE lowAt(q) == NodeIndex(o, k, low, q)
           highAt(q) == NodeIndex(o, k, high, q)
           U == Used(o, k, low, act)
           V == Used(o, k, high, {far[s] : s \in act})
<1>1. \A q : /\ q \in U <=> q \in Nodes(k, low) /\ lowAt(q) \in act
             /\ q \in V <=> q \in Nodes(k, high) /\ highAt(q) \in {far[s] : s \in act}
  BY DEF Used
<1>2. \A q \in U : highAt(q) = far[lowAt(q)] /\ q \in Nodes(k, high) /\ lowAt(q) \in act
  BY <1>1, MoreNodes DEF Carries
<1>3. U \subseteq V
  BY <1>1, <1>2
<1>4. ASSUME NEW q \in V
      PROVE  q \in U
  <2>1. PICK s \in act : q \in Nodes(k, high) /\ highAt(q) = far[s]
    BY <1>1
  <2>2. PICK p \in Nodes(k, low) : lowAt(p) = s
    BY NodeExists
  <2>3. p \in Nodes(k, high) /\ highAt(p) = highAt(q)
    BY <2>1, <2>2, MoreNodes DEF Carries
  <2>4. p = q
    <3>1. k >= 1
      OBVIOUS
    <3>2. QED
      BY <2>1, <2>3, <3>1, NodesApart
  <2>5. QED
    BY <1>1, <2>2, <2>4
<1>5. U = V
  BY <1>3, <1>4
<1>6. \A q \in U : new[highAt(q)] = dat[lowAt(q)]
  BY <1>2
<1>7. /\ ContentOf(o, k, low, act, dat) = [q \in U |-> dat[lowAt(q)]]
      /\ ContentOf(o, k, high, {far[s] : s \in act}, new) = [q \in V |-> new[highAt(q)]]
  BY DEF ContentOf
<1> HIDE DEF U, V, lowAt, highAt
<1>8. QED
  BY <1>5, <1>6, <1>7

LEMMA ContentFlattened ==
  ASSUME k \in Nat, k >= 2, NEW low \in Nat, NEW high \in Nat, low <= high,
         NEW o, NEW far, Carries(far, o, low, high),
         NEW act, NEW dat, NEW new, Fetched(far, Fetching(far, act, NumElements(k, low)), dat, new)
  PROVE  ContentOf(o, k, low, Fetching(far, act, NumElements(k, low)), new)
           = Above(ContentOf(o, k, high, act, dat), low)
<1> USE DEF Fetching, Fetched
<1> DEFINE left == Fetching(far, act, NumElements(k, low))
<1> DEFINE lowAt(q) == NodeIndex(o, k, low, q)
           highAt(q) == NodeIndex(o, k, high, q)
           U == Used(o, k, low, left)
           V == Used(o, k, high, act)
           F == {q \in V : Len(q) < low}
<1>1. \A q : /\ q \in U <=> q \in Nodes(k, low) /\ lowAt(q) \in left
             /\ q \in V <=> q \in Nodes(k, high) /\ highAt(q) \in act
  BY DEF Used
<1>2. \A q \in Nodes(k, low) : /\ highAt(q) = far[lowAt(q)] /\ q \in Nodes(k, high)
                               /\ lowAt(q) \in 0 .. NumElements(k, low) - 1
                               /\ Len(q) < low
  <2>1. k >= 1
    OBVIOUS
  <2>2. ASSUME NEW q \in Nodes(k, low)
        PROVE  Len(q) < low
    BY NodesAre
  <2>3. QED
    BY <2>1, <2>2, MoreNodes, NodeIndexInside DEF Carries
<1>3. U \subseteq F
  BY <1>1, <1>2
<1>4. ASSUME NEW q \in F
      PROVE  q \in U
  <2>1. q \in Nodes(k, high) /\ Len(q) < low /\ highAt(q) \in act
    BY <1>1
  <2>2. Len(q) \in 0 .. low - 1 /\ q \in [1 .. Len(q) -> 0 .. k - 1]
    BY <2>1, NodesAre
  <2>3. q \in Nodes(k, low)
    <3> DEFINE n == Len(q)
    <3>1. n \in 0 .. low - 1 /\ q \in [1 .. n -> 0 .. k - 1]
      BY <2>2
    <3> HIDE DEF n
    <3>2. QED
      BY <3>1 DEF Nodes
  <2>4. QED
    BY <1>1, <1>2, <2>1, <2>3
<1>5. U = F
  BY <1>3, <1>4
<1>6. \A q \in U : new[lowAt(q)] = dat[highAt(q)]
  BY <1>1, <1>2
<1>7. /\ ContentOf(o, k, low, left, new) = [q \in U |-> new[lowAt(q)]]
      /\ ContentOf(o, k, high, act, dat) = [q \in V |-> dat[highAt(q)]]
  BY DEF ContentOf
<1>8. \A q \in F : ContentOf(o, k, high, act, dat)[q] = dat[highAt(q)]
  BY <1>7
<1> HIDE DEF U, F, lowAt, highAt
<1>9. QED
  BY <1>5, <1>6, <1>7, <1>8 DEF F, Above

LEMMA DepthFirstCarries ==
  ASSUME k \in Nat, k >= 2, NEW low \in Nat, low >= 1, NEW more \in Nat
  PROVE  Carries(DepthFirst!Far(low, DepthFirst!Jump(more)), "DFS", low, low + more)
<1> DEFINE far == DepthFirst!Far(low, DepthFirst!Jump(more))
           n == NumElements(k, low)
<1>1. \A i \in 0 .. n - 1 : \E p, l : Leads(p, l, i, far[i], low, more)
  BY FarOf
<1> HIDE DEF far, n
<1>2. SUFFICES ASSUME NEW p \in Nodes(k, low)
               PROVE  Index(k, p, Len(p), low + more) = far[Index(k, p, Len(p), low)]
  BY DEF Carries, NodeIndex, far
<1> DEFINE i == Index(k, p, Len(p), low)
<1>3. i \in 0 .. n - 1
  <2>1. NodeIndex("DFS", k, low, p) \in 0 .. n - 1
    <3>1. k >= 1
      OBVIOUS
    <3>2. QED
      BY <3>1, NodeIndexInside DEF n
  <2>2. QED
    BY <2>1 DEF NodeIndex
<1> HIDE DEF i
<1>4. PICK q, l : Leads(q, l, i, far[i], low, more)
  BY <1>1, <1>3
<1>5. /\ l \in 0 .. low - 1 /\ Children(q, l, k)
      /\ Index(k, q, l, low) = i /\ Index(k, q, l, low + more) = far[i]
  BY <1>4 DEF Leads
<1>6. Len(p) \in 0 .. low - 1 /\ Children(p, Len(p), k) /\ Numbers(p, Len(p))
  BY NodesAre
<1>7. Len(p) = l /\ Agree(p, q, Len(p))
  <2> DEFINE m == Len(p)
  <2>1. m \in Nat /\ l \in Nat /\ m < low /\ l < low
    BY <1>5, <1>6
  <2>2. Index(k, p, m, low) = Index(k, q, l, low)
    BY <1>5 DEF i
  <2> HIDE DEF m
  <2>3. QED
    BY <1>5, <1>6, <2>1, <2>2, UniqueIndex DEF m
<1>8. Index(k, p, Len(p), low + more) = Index(k, q, Len(p), low + more)
  <2>1. Len(p) \in Nat /\ low + more \in Nat /\ Len(p) <= low + more
    BY <1>6
  <2>2. QED
    BY <1>6, <1>7, <2>1, SameIndex
<1>9. QED
  BY <1>5, <1>7, <1>8 DEF i

-----------------------------------------------------------------------------
(* Steps of a k-tree are steps of a PathTree.                              *)

LEMMA NoContent ==
  ASSUME IInv', active' = {}
  PROVE  Mapped' = Tree!Nothing
<1>1. Mapped' = ContentOf(order', k', depth', {}, data')
  BY MappedNext
<1>2. QED
  BY <1>1, ContentEmpty DEF Tree!Nothing

LEMMA AnswersTree ==
  ASSUME IInv, IInv', UNCHANGED order, NEW code, NEW out, Answers(code, out)
  PROVE  Tree!Unchanged /\ Tree!Returns(code, out)
<1>1. UNCHANGED <<k, depth, active, data>> /\ ret' = [code |-> code, out |-> out]
  BY DEF Answers, Returns, header
<1>2. Mapped' = Mapped
  BY <1>1, MappedIs, MappedNext
<1>3. QED
  BY <1>1, <1>2 DEF Tree!Unchanged, Tree!Returns, Mapped

Refusals == {"ALLOCATION_FAILED", "INDEX_OUT_OF_BOUNDS", "DEPTH_TOO_SMALL", "DEPTH_TOO_BIG",
             "DEPTH_ZERO", "TREE_NULL_PTR", "OUT_NULL_PTR", "K_TOO_SMALL", "PARAMS_INT_OVERFLOW"}

LEMMA RefuseTree ==
  ASSUME IInv, IInv', UNCHANGED order, NEW code \in Refusals, Answers(code, None)
  PROVE  Tree!Refuse
<1>1. Tree!Unchanged /\ Tree!Returns(code, None)
  BY AnswersTree
<1>2. QED
  BY <1>1 DEF Tree!Refuse, Refusals

LEMMA OutcomesAre ==
  ASSUME NEW a, NEW levels
  PROVE  Outcomes(a, levels) \subseteq Refusals \cup {"SUCCESS"}
<1>1. QED
  BY DEF Outcomes, Refusals

LEMMA EmptyTreeIs ==
  ASSUME IInv', NEW a, NEW levels, EmptyTree(a, levels)
  PROVE  k' = a /\ depth' = levels /\ Mapped' = Tree!Nothing
<1>1. QED
  BY NoContent DEF EmptyTree

LEMMA NullTreeIs ==
  ASSUME IInv', NullTree
  PROVE  Tree!NoTree
<1>1. k' = 0 /\ depth' = 0 /\ Mapped' = Tree!Nothing
  BY NoContent DEF NullTree
<1>2. QED
  BY <1>1 DEF Tree!NoTree, Mapped

\* The node an operation is asked about, and whether it is in use.
LEMMA NodeInUse ==
  ASSUME IInv, NEW i \in 0 .. capacity - 1
  PROVE  \E p \in Tree!Paths :
           /\ p \in Nodes(k, depth) /\ i = NodeIndex(order, k, depth, p)
           /\ p \in DOMAIN Mapped <=> i \in active
           /\ i \in active => Mapped[p] = data[i]
<1>1. PICK p \in Nodes(k, depth) : NodeIndex(order, k, depth, p) = i
  BY NodeAt
<1>2. Mapped = ContentOf(order, k, depth, active, data)
  BY MappedIs
<1>3. DOMAIN Mapped = Used(order, k, depth, active)
      /\ \A q \in Used(order, k, depth, active) : Mapped[q] = data[NodeIndex(order, k, depth, q)]
  BY <1>2 DEF ContentOf
<1>4. p \in Used(order, k, depth, active) <=> i \in active
  BY <1>1 DEF Used
<1>5. p \in Tree!Paths
  BY <1>1 DEF Tree!Paths, Nodes
<1>6. QED
  BY <1>1, <1>3, <1>4, <1>5

LEMMA ActivateTree ==
  ASSUME IInv, IInv', UNCHANGED order, NEW i \in 0 .. capacity - 1, i \notin active,
         NEW v \in Value, Activate(i, v)
  PROVE  Tree!Add
<1>1. PICK p \in Tree!Paths : /\ p \in Nodes(k, depth) /\ i = NodeIndex(order, k, depth, p)
                              /\ p \notin DOMAIN Mapped
  BY NodeInUse
<1>2. k \in Nat /\ k >= 1 /\ depth \in Nat /\ i \in DOMAIN data /\ Within(active, data)
  <2>1. k >= 2
    BY NodeAt
  <2>2. k \in Nat /\ depth \in Nat /\ data \in [0 .. capacity - 1 -> Value \cup {None}]
        /\ active \subseteq 0 .. capacity - 1
    BY Bounds
  <2>3. QED
    BY <2>1, <2>2 DEF Within
<1>3. /\ active' = active \cup {i} /\ data' = [data EXCEPT ![i] = v]
      /\ UNCHANGED <<k, depth>> /\ ret' = [code |-> "SUCCESS", out |-> None]
  BY DEF Activate, Returns
<1>4. Mapped = ContentOf(order, k, depth, active, data)
  BY MappedIs
<1>5. Mapped' = ContentOf(order, k, depth, active \cup {i}, [data EXCEPT ![i] = v])
  BY <1>3, MappedNext
<1>6. Mapped' = [q \in Used(order, k, depth, active) \cup {p} |->
                   IF q = p THEN v ELSE Mapped[q]]
  BY <1>1, <1>2, <1>4, <1>5, ContentAdd
<1>7. DOMAIN Mapped = Used(order, k, depth, active)
  BY <1>4 DEF ContentOf
<1>8. Mapped' = [q \in DOMAIN Mapped \cup {p} |-> IF q = p THEN v ELSE Mapped[q]]
  BY <1>6, <1>7
<1>9. p \in Tree!Paths \ DOMAIN Mapped
  BY <1>1
<1>10. QED
  BY <1>3, <1>8, <1>9 DEF Tree!Add, Tree!Returns, Tree!With, Tree!InUse, Mapped

LEMMA RemoveTree ==
  ASSUME IInv, IInv', UNCHANGED order, NEW i \in 0 .. capacity - 1, i \in active,
         active' = active \ {i}, data' = [data EXCEPT ![i] = None],
         UNCHANGED <<k, depth>>, Returns("SUCCESS", None)
  PROVE  Tree!Remove
<1>1. PICK p \in Tree!Paths : /\ p \in Nodes(k, depth) /\ i = NodeIndex(order, k, depth, p)
                              /\ p \in DOMAIN Mapped
  BY NodeInUse
<1>2. k \in Nat /\ k >= 1 /\ depth \in Nat /\ active \subseteq DOMAIN data
  <2>1. k >= 2
    BY NodeAt
  <2>2. k \in Nat /\ depth \in Nat /\ data \in [0 .. capacity - 1 -> Value \cup {None}]
        /\ active \subseteq 0 .. capacity - 1
    BY Bounds
  <2>3. QED
    BY <2>1, <2>2
<1>3. Mapped = ContentOf(order, k, depth, active, data)
  BY MappedIs
<1>4. Mapped' = ContentOf(order, k, depth, AllBut(active, i), Wiped(data, i))
  BY MappedNext DEF AllBut, Wiped
<1>5. Mapped' = Less(Mapped, p)
  <2>1. Within(active, data)
    BY <1>2 DEF Within
  <2>2. QED
    BY <1>1, <1>2, <1>3, <1>4, <2>1, ContentRemove
<1>6. Mapped' = [q \in DOMAIN Mapped \ {p} |-> Mapped[q]]
  BY <1>5 DEF Less
<1>7. QED
  BY <1>1, <1>6 DEF Tree!Remove, Tree!Returns, Returns, Tree!Without, Tree!Restrict, Tree!InUse, Mapped

LEMMA CommonTree ==
  ASSUME IInv, IInv', UNCHANGED order, Common
  PROVE  Tree!Next
<1> USE DEF Refusals
<1>1. /\ k \in Nat /\ depth \in Nat /\ capacity \in Nat
      /\ active \subseteq 0 .. capacity - 1
      /\ data \in [0 .. capacity - 1 -> Value \cup {None}]
      /\ memBlock => k >= 2 /\ depth >= 1
      /\ ~ memBlock => depth = 0
  BY Bounds
<1>2. \A code \in Refusals : Answers(code, None) => Tree!Next
  BY RefuseTree DEF Tree!Next
<1>3. ASSUME NEW a \in Arities, NEW d \in Depths, Construct(a, d)
      PROVE  Tree!Next
  <2>1. PICK code \in Outcomes(a, d) :
          IF code = "SUCCESS" THEN EmptyTree(a, d) /\ Returns(code, None)
                              ELSE Answers(code, None)
    BY <1>3 DEF Construct
  <2>2. CASE code = "SUCCESS"
    <3>1. a \in Nat \ {0, 1} /\ d \in Nat \ {0}
      BY <2>1, <2>2, KTreeAssumption DEF Outcomes, Arities, Depths
    <3>2. k' = a /\ depth' = d /\ Mapped' = Tree!Nothing /\ Returns("SUCCESS", None)
      BY <2>1, <2>2, EmptyTreeIs
    <3>3. ~ Tree!Exists
      BY <1>1, <1>3 DEF Construct, Tree!Exists
    <3>4. Tree!Construct
      BY <3>1, <3>2, <3>3 DEF Tree!Construct, Tree!Returns, Returns, Mapped
    <3>5. QED
      BY <3>4 DEF Tree!Next
  <2>3. CASE code # "SUCCESS"
    BY <1>2, <2>1, <2>3, OutcomesAre
  <2>4. QED
    BY <2>2, <2>3
<1>4. CASE Destroy
  <2>1. Tree!Destroy
    BY <1>4, NullTreeIs DEF Destroy, Tree!Destroy, Tree!Returns, Returns
  <2>2. QED
    BY <2>1 DEF Tree!Next
<1>5. CASE Clear
  <2>1. Tree!Exists
    BY <1>1, <1>5 DEF Clear, Tree!Exists
  <2>2. CASE EmptyTree(k, 1) /\ Returns("SUCCESS", None)
    <3>1. k' = k /\ depth' = 1 /\ Mapped' = Tree!Nothing
      BY <2>2, EmptyTreeIs
    <3>2. Tree!Clear
      BY <2>1, <2>2, <3>1 DEF Tree!Clear, Tree!Returns, Returns, Mapped
    <3>3. QED
      BY <3>2 DEF Tree!Next
  <2>3. CASE NullTree /\ Returns("ALLOCATION_FAILED", None)
    <3>1. Tree!Lose
      BY <2>1, <2>3, NullTreeIs DEF Tree!Lose, Tree!Returns, Returns
    <3>2. QED
      BY <3>1 DEF Tree!Next
  <2>4. QED
    BY <1>5, <2>2, <2>3 DEF Clear
<1>6. CASE NullArgument
  BY <1>2, <1>6 DEF NullArgument
<1>7. ASSUME NEW d \in Depths, RefuseIncrease(d)
      PROVE  Tree!Next
  <2>1. CASE Answers("DEPTH_TOO_SMALL", None)
    BY <1>2, <2>1
  <2>2. ASSUME NEW code \in Outcomes(k, d) \ {"SUCCESS"}, Answers(code, None)
        PROVE  Tree!Next
    BY <1>2, <2>2, OutcomesAre
  <2>3. QED
    BY <1>7, <2>1, <2>2 DEF RefuseIncrease
<1>8. ASSUME NEW d \in Depths, RefuseDecrease(d)
      PROVE  Tree!Next
  BY <1>2, <1>8 DEF RefuseDecrease
<1>9. ASSUME NEW i \in 0 .. capacity, OutOfBounds(i)
      PROVE  Tree!Next
  BY <1>2, <1>9 DEF OutOfBounds
<1>10. ASSUME NEW i \in 0 .. capacity, InBounds(i)
       PROVE  /\ i \in 0 .. capacity - 1
              /\ \E p \in Tree!Paths : /\ p \in Tree!InUse <=> i \in active
                                       /\ i \in active => Mapped[p] = data[i]
  <2>1. i \in 0 .. capacity - 1
    BY <1>1, <1>10 DEF InBounds
  <2>2. PICK p \in Tree!Paths : /\ p \in DOMAIN Mapped <=> i \in active
                                /\ i \in active => Mapped[p] = data[i]
    BY <2>1, NodeInUse
  <2>3. Tree!InUse = DOMAIN Mapped
    BY DEF Tree!InUse, Mapped
  <2>4. QED
    BY <2>1, <2>2, <2>3
<1>11. ASSUME NEW i \in 0 .. capacity, InBounds(i), i \notin active,
              Answers("INDEX_NOT_ACTIVE", None)
       PROVE  Tree!Next
  <2>1. Tree!Paths \ Tree!InUse # {}
    BY <1>10, <1>11
  <2>2. Tree!NotInUse
    BY <1>11, <2>1, AnswersTree DEF Tree!NotInUse
  <2>3. QED
    BY <2>2 DEF Tree!Next
<1>12. ASSUME NEW i \in 0 .. capacity, InBounds(i), i \in active,
              Answers("SUCCESS", data[i])
       PROVE  Tree!Next
  <2>1. data[i] \in Value
    <3>1. i \in 0 .. capacity - 1 /\ data[i] # None
      BY <1>10, <1>12 DEF IInv, SizeCounts
    <3>2. QED
      BY <1>1, <3>1
  <2>2. PICK p \in Tree!InUse : Mapped[p] = data[i]
    BY <1>10, <1>12
  <2>3. Tree!Unchanged /\ Tree!Returns("SUCCESS", Mapped[p])
    BY <1>12, <2>2, AnswersTree
  <2>4. ret'.out \in Value
    BY <1>12, <2>1 DEF Answers, Returns
  <2>5. Tree!AddGet
    BY <2>3, <2>4 DEF Tree!AddGet, Mapped
  <2>6. QED
    BY <2>5 DEF Tree!Next
<1>13. ASSUME NEW i \in 0 .. capacity, Remove(i)
       PROVE  Tree!Next
  <2>1. InBounds(i)
    BY <1>13 DEF Remove
  <2>2. CASE i \in active
    <3>1. /\ active' = active \ {i} /\ data' = [data EXCEPT ![i] = None]
          /\ UNCHANGED <<k, depth>> /\ Returns("SUCCESS", None)
      BY <1>13, <2>2 DEF Remove
    <3>2. Tree!Remove
      BY <1>10, <2>1, <2>2, <3>1, RemoveTree
    <3>3. QED
      BY <3>2 DEF Tree!Next
  <2>3. CASE i \notin active
    BY <1>11, <1>13, <2>1, <2>3 DEF Remove
  <2>4. QED
    BY <2>2, <2>3
<1>14. ASSUME NEW i \in 0 .. capacity, Get(i)
       PROVE  Tree!Next
  BY <1>11, <1>12, <1>14 DEF Get
<1>15. ASSUME NEW i \in 0 .. capacity, Contains(i)
       PROVE  Tree!Next
  <2>1. InBounds(i) /\ Answers("SUCCESS", i \in active)
    BY <1>15 DEF Contains
  <2>2. PICK p \in Tree!Paths : p \in Tree!InUse <=> i \in active
    BY <1>10, <2>1
  <2>3. CASE i \in active
    <3>1. Answers("SUCCESS", TRUE)
      BY <2>1, <2>3
    <3>2. Tree!Unchanged /\ Tree!Returns("SUCCESS", TRUE)
      BY <3>1, AnswersTree
    <3>3. Tree!Contains
      BY <2>2, <2>3, <3>2 DEF Tree!Contains
    <3>4. QED
      BY <3>3 DEF Tree!Next
  <2>4. CASE i \notin active
    <3>1. Answers("SUCCESS", FALSE)
      <4>1. (i \in active) = FALSE
        BY <2>4
      <4>2. QED
        BY <2>1, <4>1
    <3>2. Tree!Unchanged /\ Tree!Returns("SUCCESS", FALSE)
      BY <3>1, AnswersTree
    <3>3. Tree!Contains
      BY <2>2, <2>4, <3>2 DEF Tree!Contains
    <3>4. QED
      BY <3>3 DEF Tree!Next
  <2>5. QED
    BY <2>3, <2>4
<1>16. ASSUME NEW i \in 0 .. capacity, NEW v \in Value, InBounds(i), i \notin active, Activate(i, v)
       PROVE  Tree!Next
  <2>1. Tree!Add
    BY <1>10, <1>16, ActivateTree
  <2>2. QED
    BY <2>1 DEF Tree!Next
<1>17. ASSUME NEW i \in 0 .. capacity, InBounds(i), i \in active,
              Answers("INDEX_ALREADY_ACTIVE", None)
       PROVE  Tree!Next
  <2>1. Tree!InUse # {}
    BY <1>10, <1>17
  <2>2. Tree!AddInUse
    BY <1>17, <2>1, AnswersTree DEF Tree!AddInUse
  <2>3. QED
    BY <2>2 DEF Tree!Next
<1>18. ASSUME NEW i \in 0 .. capacity, NEW v \in Value, Add(i, v) \/ AddGet(i, v)
       PROVE  Tree!Next
  BY <1>12, <1>16, <1>17, <1>18 DEF Add, AddGet
<1>19. QED
  BY <1>3, <1>4, <1>5, <1>6, <1>7, <1>8, <1>9, <1>13, <1>14, <1>15, <1>18 DEF Common

LEMMA DeepenTree ==
  ASSUME IInv, IInv', UNCHANGED order, memBlock, NEW d \in Nat, depth < d, depth' = d,
         UNCHANGED k, Returns("SUCCESS", None),
         NEW far, Carries(far, order, depth, d),
         active' = {far[s] : s \in active}, \A s \in active : data'[far[s]] = data[s]
  PROVE  Tree!Next
<1>1. /\ k \in Nat /\ k >= 2 /\ depth \in Nat /\ depth >= 1 /\ order \in {"BFS", "DFS"}
      /\ active \subseteq 0 .. NumElements(k, depth) - 1
  BY Bounds
<1>2. Mapped = ContentOf(order, k, depth, active, data)
  BY MappedIs
<1>3. Mapped' = ContentOf(order, k, d, Brought(far, active), data')
  BY MappedNext DEF Brought
<1>4. ContentOf(order, k, d, Brought(far, active), data')
        = ContentOf(order, k, depth, active, data)
  <2>1. FitIn(active, NumElements(k, depth)) /\ GoAlong(far, active, data, data')
    BY <1>1 DEF FitIn, GoAlong
  <2>2. QED
    BY <1>1, <2>1, ContentDeepened
<1>5. Mapped' = Mapped
  BY <1>2, <1>3, <1>4
<1>6. Tree!Deepen
  BY <1>1, <1>5 DEF Tree!Deepen, Tree!Exists, Tree!Returns, Returns, Mapped
<1>7. QED
  BY <1>6 DEF Tree!Next

LEMMA FlattenTree ==
  ASSUME IInv, IInv', UNCHANGED order, memBlock, NEW d \in Nat, d >= 1, d < depth, depth' = d,
         UNCHANGED k, Returns("SUCCESS", None),
         NEW far, Carries(far, order, d, depth),
         active' = {i \in 0 .. NumElements(k, d) - 1 : far[i] \in active},
         \A i \in active' : data'[i] = data[far[i]]
  PROVE  Tree!Next
<1>1. k \in Nat /\ k >= 2 /\ depth \in Nat
  BY Bounds
<1>2. Mapped = ContentOf(order, k, depth, active, data)
  BY MappedIs
<1>3. Mapped' = ContentOf(order, k, d, active', data')
  BY MappedNext
<1>4. ContentOf(order, k, d, active', data')
        = Above(ContentOf(order, k, depth, active, data), d)
  <2> DEFINE left == Fetching(far, active, NumElements(k, d))
  <2>1. active' = left /\ Fetched(far, left, data, data') /\ d <= depth
    BY <1>1 DEF Fetching, Fetched
  <2>2. ContentOf(order, k, d, left, data') = Above(ContentOf(order, k, depth, active, data), d)
    BY <1>1, <2>1, ContentFlattened
  <2>3. QED
    BY <2>1, <2>2
<1>5. Mapped' = Above(Mapped, d)
  BY <1>2, <1>3, <1>4
<1>6. Mapped' = [p \in {q \in DOMAIN Mapped : Len(q) < d} |-> Mapped[p]]
  BY <1>5 DEF Above
<1>7. Tree!Exists /\ d \in 1 .. depth - 1
  BY <1>1 DEF Tree!Exists
<1>8. Tree!Flatten
  BY <1>6, <1>7 DEF Tree!Flatten, Tree!Returns, Returns, Tree!UpTo, Tree!Restrict,
     Tree!InUse, Mapped
<1>9. QED
  BY <1>8 DEF Tree!Next

\* Elements of a breadth-first tree stay where they are.
Stay(n) == [i \in 0 .. n - 1 |-> i]

LEMMA BreadthFirstCarries ==
  ASSUME k \in Nat, k >= 2, NEW low \in Nat, NEW high \in Nat
  PROVE  Carries(Stay(NumElements(k, low)), "BFS", low, high)
<1>1. ASSUME NEW p \in Nodes(k, low)
      PROVE  NodeIndex("BFS", k, low, p) \in 0 .. NumElements(k, low) - 1
  <2>1. k >= 1
    OBVIOUS
  <2>2. QED
    BY <2>1, NodeIndexInside
<1>2. QED
  BY <1>1 DEF Carries, NodeIndex, Stay

LEMMA BreadthFirstTree ==
  ASSUME IInv, IInv', UNCHANGED order, isBFS, BreadthFirst!ChangeDepth
  PROVE  Tree!Next
<1>1. /\ k \in Nat /\ depth \in Nat /\ capacity \in Nat /\ capacity = NumElements(k, depth)
      /\ active \subseteq 0 .. capacity - 1 /\ order = "BFS"
      /\ memBlock => k >= 2 /\ depth >= 1
  BY Bounds DEF isBFS
<1>2. PICK d \in Depths : BreadthFirst!IncreaseDepth(d) \/ BreadthFirst!DecreaseDepth(d)
  BY DEF BreadthFirst!ChangeDepth, BreadthFirst!Depths, Depths
<1>3. d \in Nat
  BY KTreeAssumption DEF Depths
<1>4. CASE BreadthFirst!IncreaseDepth(d)
  <2> DEFINE n == NumElements(k, d)
             far == Stay(capacity)
  <2>1. /\ CanIncrease(d)
        /\ active' = active \cap 0 .. (NumBitmaskInts(capacity) * WordBits) - 1
        /\ data' = [i \in 0 .. n - 1 |-> IF i < capacity THEN data[i] ELSE None]
        /\ NewShape(d, size)
        /\ Returns("SUCCESS", None)
    BY <1>4, BreadthFirstSame DEF BreadthFirst!IncreaseDepth
  <2>2. memBlock /\ depth < d /\ depth' = d /\ k' = k
    BY <1>1, <1>3, <2>1 DEF CanIncrease, NewShape
  <2>3. n \in Nat /\ capacity < n
    BY <1>1, <1>3, <2>2, ElementsOf, MoreLevels
  <2> HIDE DEF n
  <2>4. active' = active
    <3>1. NumBitmaskInts(capacity) * WordBits >= capacity
      BY <1>1, WordsHold
    <3>2. NumBitmaskInts(capacity) * WordBits \in Int
      BY <1>1, KTreeAssumption DEF NumBitmaskInts
    <3> DEFINE bits == NumBitmaskInts(capacity) * WordBits
    <3> HIDE DEF bits
    <3>3. bits \in Int /\ bits >= capacity /\ active' = active \cap 0 .. bits - 1
      BY <2>1, <3>1, <3>2 DEF bits
    <3>4. \A i \in active : i \in 0 .. bits - 1
      BY <1>1, <3>3
    <3>5. QED
      BY <3>3, <3>4
  <2>5. \A s \in active : far[s] = s /\ s \in 0 .. n - 1 /\ s < capacity
    BY <1>1, <2>3 DEF Stay
  <2>6. active' = {far[s] : s \in active}
    BY <2>4, <2>5
  <2>7. \A s \in active : data'[far[s]] = data[s]
    BY <2>1, <2>5
  <2>8. Carries(far, order, depth, d)
    BY <1>1, <1>3, <2>2, BreadthFirstCarries
  <2> HIDE DEF far
  <2>9. QED
    BY <1>3, <2>1, <2>2, <2>6, <2>7, <2>8, DeepenTree
<1>5. CASE BreadthFirst!DecreaseDepth(d)
  <2> DEFINE n == NumElements(k, d)
             far == Stay(n)
  <2>1. /\ CanDecrease(d)
        /\ active' = active \ Cut(n)
        /\ data' = [i \in 0 .. n - 1 |-> data[i]]
        /\ NewShape(d, Cardinality(active \cap 0 .. n - 1))
        /\ Returns("SUCCESS", None)
    BY <1>5, BreadthFirstSame DEF BreadthFirst!DecreaseDepth
  <2>2. memBlock /\ d < depth /\ d >= 1 /\ depth' = d /\ k' = k
    BY <1>1, <1>3, <2>1 DEF CanDecrease, NewShape
  <2>3. n \in Nat /\ n < capacity
    BY <1>1, <1>3, <2>2, ElementsOf, MoreLevels
  <2>4. Carries(far, order, d, depth)
    BY <1>1, <1>3, <2>2, BreadthFirstCarries
  <2>5. \A i \in 0 .. n - 1 : far[i] = i
    BY DEF Stay
  <2> HIDE DEF far, n
  <2>6. active' = {i \in 0 .. n - 1 : far[i] \in active}
    <3>1. \A i \in active : i \in 0 .. n - 1 <=> ~ (i \in n .. capacity - 1)
      BY <1>1, <2>3
    <3>2. \A i : i \in active' <=> i \in active /\ i \in 0 .. n - 1
      BY <2>1, <3>1 DEF Cut
    <3>3. QED
      BY <2>5, <3>2
  <2>7. \A i \in active' : data'[i] = data[far[i]]
    BY <2>1, <2>5, <2>6
  <2>8. active' = {i \in 0 .. NumElements(k, d) - 1 : far[i] \in active}
    BY <2>6 DEF n
  <2>9. QED
    BY <1>3, <2>1, <2>2, <2>4, <2>7, <2>8, FlattenTree
<1>6. QED
  BY <1>2, <1>4, <1>5

LEMMA DepthFirstTree ==
  ASSUME IInv, IInv', UNCHANGED order, isDFS, DepthFirst!ChangeDepth
  PROVE  Tree!Next
<1>1. /\ k \in Nat /\ depth \in Nat /\ capacity \in Nat /\ capacity = NumElements(k, depth)
      /\ active \subseteq 0 .. capacity - 1 /\ order = "DFS"
      /\ memBlock => k >= 2 /\ depth >= 1
  BY Bounds DEF isDFS
<1>2. PICK d \in Depths : DepthFirst!IncreaseDepth(d) \/ DepthFirst!DecreaseDepth(d)
  BY DEF DepthFirst!ChangeDepth, DepthFirst!Depths, Depths
<1>3. d \in Nat
  BY KTreeAssumption DEF Depths
<1>4. CASE DepthFirst!IncreaseDepth(d)
  <2> DEFINE dst == DepthFirst!Far(depth, DepthFirst!Jump(d - depth))
             src(i) == {s \in 0 .. capacity - 1 : dst[s] = i}
             n == NumElements(k, d)
             more == d - depth
  <2>1. /\ CanIncrease(d)
        /\ active' = {dst[s] : s \in active}
        /\ data' = [i \in 0 .. n - 1 |->
                      IF src(i) = {} THEN None ELSE data[CHOOSE s \in src(i) : TRUE]]
        /\ NewShape(d, size)
        /\ Returns("SUCCESS", None)
    BY <1>4, DepthFirstSame DEF DepthFirst!IncreaseDepth
  <2>2. memBlock /\ depth < d /\ depth' = d /\ k' = k
    BY <1>1, <1>3, <2>1 DEF CanIncrease, NewShape
  <2>3. more \in Nat /\ depth + more = d
    BY <1>1, <1>3, <2>2
  <2> HIDE DEF more
  <2>4. Carries(DepthFirst!Far(depth, DepthFirst!Jump(more)), "DFS", depth, depth + more)
    BY <1>1, <2>2, <2>3, DepthFirstCarries
  <2>5. Carries(dst, order, depth, d)
    BY <1>1, <2>3, <2>4 DEF more
  <2>6. /\ dst \in [0 .. capacity - 1 -> 0 .. n - 1]
        /\ \A i, j \in 0 .. capacity - 1 : i < j => dst[i] < dst[j]
    <3>1. /\ DepthFirst!Far(depth, DepthFirst!Jump(more))
               \in [0 .. capacity - 1 -> 0 .. NumElements(k, depth + more) - 1]
          /\ \A i, j \in 0 .. capacity - 1 :
               i < j => DepthFirst!Far(depth, DepthFirst!Jump(more))[i]
                          < DepthFirst!Far(depth, DepthFirst!Jump(more))[j]
      BY <1>1, <2>2, <2>3, FarOf
    <3>2. QED
      BY <2>3, <3>1 DEF more
  <2> HIDE DEF dst, n
  <2>7. ASSUME NEW s \in active
        PROVE  data'[dst[s]] = data[s]
    <3>1. s \in 0 .. capacity - 1 /\ dst[s] \in 0 .. n - 1
      BY <1>1, <2>6
    <3>2. \A i \in 0 .. capacity - 1 : dst[i] = dst[s] => i = s
      <4>1. ASSUME NEW i \in 0 .. capacity - 1, dst[i] = dst[s], i # s
            PROVE  FALSE
        <5>1. dst[i] \in Nat /\ dst[s] \in Nat /\ (i < s \/ s < i)
          BY <2>6, <3>1, <4>1
        <5>2. QED
          BY <2>6, <3>1, <4>1, <5>1
      <4>2. QED
        BY <4>1
    <3>3. src(dst[s]) = {s}
      BY <3>1, <3>2
    <3>4. src(dst[s]) # {} /\ (CHOOSE x \in src(dst[s]) : TRUE) = s
      BY <3>3
    <3>5. QED
      BY <2>1, <3>1, <3>4
  <2> HIDE DEF src
  <2>8. QED
    BY <1>3, <2>1, <2>2, <2>5, <2>7, DeepenTree
<1>5. CASE DepthFirst!DecreaseDepth(d)
  <2> DEFINE n == NumElements(k, d)
             moved == DepthFirst!Moved(d)
             src == DepthFirst!Far(d, DepthFirst!Jump(depth - d))
             more == depth - d
  <2>1. /\ CanDecrease(d)
        /\ active' = moved.bits \ Cut(n)
        /\ data' = [i \in 0 .. n - 1 |-> moved.data[i]]
        /\ NewShape(d, moved.size)
        /\ Returns("SUCCESS", None)
    BY <1>5, DepthFirstSame DEF DepthFirst!DecreaseDepth
  <2>2. memBlock /\ d < depth /\ d >= 1 /\ depth' = d /\ k' = k
    BY <1>1, <1>3, <2>1 DEF CanDecrease, NewShape
  <2>3. n \in Nat /\ n < capacity
    BY <1>1, <1>3, <2>2, ElementsOf, MoreLevels
  <2>4. /\ src \in [0 .. n - 1 -> 0 .. capacity - 1]
        /\ MovedTo(moved, src, n)
    BY <1>1, <1>3, <2>2, MovedOf
  <2>5. more \in Nat /\ d + more = depth
    BY <1>1, <1>3, <2>2
  <2> HIDE DEF more
  <2>6. Carries(DepthFirst!Far(d, DepthFirst!Jump(more)), "DFS", d, d + more)
    BY <1>1, <1>3, <2>2, <2>5, DepthFirstCarries
  <2>7. Carries(src, order, d, depth)
    BY <1>1, <2>5, <2>6 DEF more
  <2> HIDE DEF n, moved, src
  <2>8. active' = {i \in 0 .. n - 1 : src[i] \in active}
    <3>1. \A i \in 0 .. capacity - 1 : i \in Cut(n) <=> ~ (i < n)
      BY <1>1, <2>3 DEF Cut
    <3>2. \A i : i \in active' <=> i \in 0 .. capacity - 1 /\ i < n /\ src[i] \in active
      BY <2>1, <2>4, <3>1 DEF MovedTo
    <3>3. \A i : i \in 0 .. capacity - 1 /\ i < n <=> i \in 0 .. n - 1
      BY <1>1, <2>3
    <3>4. QED
      BY <3>2, <3>3
  <2>9. \A i \in active' : data'[i] = data[src[i]]
    <3>1. \A i \in 0 .. n - 1 : i \in 0 .. capacity - 1 /\ i < n
      BY <1>1, <2>3
    <3>2. QED
      BY <2>1, <2>4, <2>8, <3>1 DEF MovedTo
  <2>10. active' = {i \in 0 .. NumElements(k, d) - 1 : src[i] \in active}
    BY <2>8 DEF n
  <2>11. QED
    BY <1>3, <2>1, <2>2, <2>7, <2>9, <2>10, FlattenTree
<1>6. QED
  BY <1>2, <1>4, <1>5

LEMMA InitTree ==
  ASSUME KTreesInit, IInv
  PROVE  Tree!Init
<1>1. Mapped = ContentOf(order, k, depth, {}, data)
  BY MappedIs DEF KTreesInit, Init
<1>2. Mapped = Tree!Nothing
  BY <1>1, ContentEmpty DEF Tree!Nothing
<1>3. QED
  BY <1>2 DEF KTreesInit, Init, Tree!Init, Mapped

LEMMA StepTree ==
  ASSUME IInv, IInv', [Next]_<<vars, order>>
  PROVE  [Tree!Next]_Tree!vars
<1>1. CASE UNCHANGED <<vars, order>>
  <2>1. UNCHANGED <<k, depth, active, data, order, ret>>
    BY <1>1 DEF vars, header
  <2>2. Mapped' = Mapped
    BY <2>1, MappedIs, MappedNext
  <2>3. QED
    BY <2>1, <2>2 DEF Tree!vars, Mapped
<1>2. CASE Common /\ UNCHANGED order
  BY <1>2, CommonTree
<1>3. CASE isBFS /\ BreadthFirst!ChangeDepth /\ UNCHANGED order
  BY <1>3, BreadthFirstTree
<1>4. CASE isDFS /\ DepthFirst!ChangeDepth /\ UNCHANGED order
  BY <1>4, DepthFirstTree
<1>5. QED
  BY <1>1, <1>2, <1>3, <1>4 DEF Next

(***************************************************************************)
(* A k-tree of either order is a PathTree: a node that is in use keeps its *)
(* element, by its path, until it is removed, the level it is on is cut    *)
(* off or the tree is cleared, however the tree grows and shrinks; and a   *)
(* call that is refused changes nothing.                                   *)
(***************************************************************************)
THEOREM IsPathTree == Spec => PathTreeSpec
<1>1. KTreesInit => Tree!Init
  BY InitInv, InitTree
<1>2. IInv /\ IInv' /\ [Next]_<<vars, order>> => [Tree!Next]_Tree!vars
  BY StepTree
<1>3. QED
  BY Invariance, <1>1, <1>2, PTL DEF Spec, PathTreeSpec, Tree!Spec
=============================================================================
