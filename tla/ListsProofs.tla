---------------------------- MODULE ListsProofs ----------------------------
(***************************************************************************)
(* Proofs about the lists: their elements are inside their arrays, and     *)
(* they are the vectors of Vectors.                                        *)
(***************************************************************************)
EXTENDS Lists, SequenceTheorems, FiniteSetTheorems, TLAPS

\* What a place in memory may hold.
Content == Value \cup {None}
Memory(room) == [0 .. room - 1 -> Content]

RoomOf(l) == Cardinality(DOMAIN l.data)

\* A list whose elements are inside its array.
ListIn(room) == [size : Nat, capacity : Nat, front : Nat, data : Memory(room), pointed : BOOLEAN]
Shaped(l, room) == l \in ListIn(room) /\ l.front + l.size <= room

\* An inline list has the capacity that its array has.
Held(k, l) == /\ RoomOf(l) \in Nat
              /\ Shaped(l, RoomOf(l))
              /\ k = "inline" => l.capacity = RoomOf(l)

(***************************************************************************)
(* The inductive invariant: every list, bare or not, keeps its elements    *)
(* inside its array.                                                       *)
(***************************************************************************)
IInv == /\ kind \in {"seperate", "inline"}
        /\ broken \in BOOLEAN
        /\ list = [n \in Name |-> list[n]]
        /\ \A n \in Name : Held(kind, list[n])

-----------------------------------------------------------------------------
(* Lists and their arrays.                                                 *)

LEMMA RoomIs ==
  ASSUME NEW l, NEW r \in Nat, Shaped(l, r)
  PROVE  RoomOf(l) = r
<1>1. DOMAIN l.data = 0 .. r - 1
  BY DEF Shaped, ListIn, Memory
<1>2. Cardinality(0 .. r - 1) = IF 0 > r - 1 THEN 0 ELSE r - 1 - 0 + 1
  BY FS_Interval
<1>3. QED
  BY <1>1, <1>2 DEF RoomOf

LEMMA NotOverrun ==
  ASSUME NEW l, NEW r, Shaped(l, r)
  PROVE  l # Overrun
<1>1. "size" \in DOMAIN l
  BY DEF Shaped, ListIn
<1>2. "size" \notin DOMAIN Overrun
  BY DEF Overrun
<1>3. QED
  BY <1>1, <1>2

LEMMA ContentsOf ==
  ASSUME NEW l, NEW r \in Nat, Shaped(l, r)
  PROVE  /\ Contents(l) \in Seq(Content)
         /\ Len(Contents(l)) = l.size
         /\ \A k \in 1 .. l.size : Contents(l)[k] = l.data[l.front + (k - 1)]
<1>1. l.size \in Nat
  BY DEF Shaped, ListIn
<1>2. ASSUME NEW k \in 1 .. l.size
      PROVE  l.data[l.front + (k - 1)] \in Content
  <2>1. l.front + (k - 1) \in 0 .. r - 1
    BY DEF Shaped, ListIn
  <2>2. QED
    BY <2>1 DEF Shaped, ListIn, Memory
<1>3. Contents(l) = [k \in 1 .. l.size |-> l.data[l.front + (k - 1)]]
  BY DEF Contents, Place
<1>4. Contents(l) \in [1 .. l.size -> Content]
  BY <1>2, <1>3
<1>5. \A k \in 1 .. l.size : Contents(l)[k] = l.data[l.front + (k - 1)]
  BY <1>3, Zenon
<1>6. QED
  BY <1>1, <1>4, <1>5

\* b is dest, a number of elements of source in it.
Blitted(r, dest, to, source, from, count, b) ==
  /\ b \in Memory(r)
  /\ \A i \in 0 .. r - 1 : b[i] = IF to <= i /\ i < to + count THEN source[from + (i - to)]
                                                              ELSE dest[i]

LEMMA BlitOf ==
  ASSUME NEW r \in Nat, NEW q \in Nat, NEW dest \in Memory(r), NEW source \in Memory(q),
         NEW to \in Nat, NEW from \in Nat, NEW count \in Int, from + count <= q
  PROVE  Blitted(r, dest, to, source, from, count, Blit(dest, to, source, from, count))
<1>1. ASSUME NEW i \in 0 .. r - 1
      PROVE  i \in to .. to + count - 1 <=> to <= i /\ i < to + count
  OBVIOUS
<1>2. ASSUME NEW i \in 0 .. r - 1, to <= i /\ i < to + count
      PROVE  source[from + (i - to)] \in Content
  <2>1. from + (i - to) \in 0 .. q - 1
    BY <1>2
  <2>2. QED
    BY <2>1 DEF Memory
<1>3. ASSUME NEW i \in 0 .. r - 1
      PROVE  dest[i] \in Content
  BY DEF Memory
<1>4. DOMAIN dest = 0 .. r - 1
  BY DEF Memory
<1>5. Blit(dest, to, source, from, count) =
        [i \in 0 .. r - 1 |-> IF to <= i /\ i < to + count THEN source[from + (i - to)]
                                                           ELSE dest[i]]
  BY <1>1, <1>4 DEF Blit
<1>6. Blit(dest, to, source, from, count) \in Memory(r)
  BY <1>2, <1>3, <1>5 DEF Memory
<1>7. QED
  BY <1>5, <1>6 DEF Blitted

\* One field of a list written.
LEMMA Updated ==
  ASSUME NEW r \in Nat, NEW l \in ListIn(r)
  PROVE  /\ \A n \in Nat : [l EXCEPT !.size = n] \in ListIn(r)
         /\ \A n \in Nat : [l EXCEPT !.capacity = n] \in ListIn(r)
         /\ \A n \in Nat : [l EXCEPT !.front = n] \in ListIn(r)
         /\ \A b \in Memory(r) : [l EXCEPT !.data = b] \in ListIn(r)
         /\ \A p \in BOOLEAN : [l EXCEPT !.pointed = p] \in ListIn(r)
BY DEF ListIn

LEMMA ListShaped ==
  ASSUME NEW r \in Nat
  PROVE  /\ Shaped(List(r), r)
         /\ List(r).size = 0 /\ List(r).front = 0 /\ List(r).capacity = r
         /\ List(r).pointed = FALSE
         /\ List(r).data \in Memory(r)
<1>1. Array(r) \in Memory(r)
  BY DEF Array, Memory, Content
<1>2. QED
  BY <1>1 DEF List, Shaped, ListIn

\* Two lists hold the same elements.
LEMMA SameContents ==
  ASSUME NEW l, NEW m, NEW r \in Nat, NEW q \in Nat, Shaped(l, r), Shaped(m, q),
         l.size = m.size,
         \A k \in 0 .. l.size - 1 : l.data[l.front + k] = m.data[m.front + k]
  PROVE  Contents(l) = Contents(m)
<1>1. l.size \in Nat
  BY DEF Shaped, ListIn
<1>2. \A k \in 1 .. l.size : l.data[l.front + (k - 1)] = m.data[m.front + (k - 1)]
  BY <1>1
<1>3. QED
  BY <1>2 DEF Contents, Place

\* One has an element more.
LEMMA InsertAtOf ==
  ASSUME NEW s \in Seq(Content), NEW e \in Content, NEW i \in 1 .. Len(s) + 1
  PROVE  /\ LikeVectors!InsertAt(s, i, e) \in Seq(Content)
         /\ Len(LikeVectors!InsertAt(s, i, e)) = Len(s) + 1
         /\ \A j \in 1 .. Len(s) + 1 :
              LikeVectors!InsertAt(s, i, e)[j] = IF j < i THEN s[j]
                                                 ELSE IF j = i THEN e ELSE s[j - 1]
<1> DEFINE a == SubSeq(s, 1, i - 1)
           b == <<e>>
           c == SubSeq(s, i, Len(s))
<1>1. /\ Len(s) \in Nat
      /\ \A j \in 1 .. Len(s) : s[j] \in Content
  BY LenProperties, ElementOfSeq
<1>2. /\ a \in Seq(Content) /\ Len(a) = i - 1
      /\ \A j \in 1 .. i - 1 : a[j] = s[j]
  <2>1. \A j \in 1 .. i - 1 : s[j] \in Content
    BY <1>1
  <2>2. /\ a \in Seq(Content) /\ Len(a) = IF 1 <= i - 1 THEN i - 1 - 1 + 1 ELSE 0
        /\ \A j \in 1 .. i - 1 - 1 + 1 : a[j] = s[1 + j - 1]
    BY <1>1, <2>1, SubSeqProperties
  <2>3. QED
    BY <1>1, <2>2
<1>3. /\ c \in Seq(Content) /\ Len(c) = Len(s) - i + 1
      /\ \A j \in 1 .. Len(s) - i + 1 : c[j] = s[i + (j - 1)]
  <2>1. \A j \in i .. Len(s) : s[j] \in Content
    BY <1>1
  <2>2. /\ c \in Seq(Content) /\ Len(c) = IF i <= Len(s) THEN Len(s) - i + 1 ELSE 0
        /\ \A j \in 1 .. Len(s) - i + 1 : c[j] = s[i + j - 1]
    BY <1>1, <2>1, SubSeqProperties
  <2>3. QED
    BY <1>1, <2>2
<1>4. b \in Seq(Content) /\ Len(b) = 1 /\ b[1] = e
  OBVIOUS
<1>5. LikeVectors!InsertAt(s, i, e) = (a \o b) \o c
  BY <1>2, <1>3, <1>4, ConcatAssociative DEF LikeVectors!InsertAt
<1> HIDE DEF a, b, c
<1>6. /\ a \o b \in Seq(Content) /\ Len(a \o b) = i
      /\ \A j \in 1 .. i : (a \o b)[j] = IF j < i THEN s[j] ELSE e
  <2>1. /\ a \o b \in Seq(Content) /\ Len(a \o b) = Len(a) + Len(b)
        /\ \A j \in 1 .. Len(a) + Len(b) : (a \o b)[j] = IF j <= Len(a) THEN a[j] ELSE b[j - Len(a)]
    BY <1>2, <1>4, ConcatProperties
  <2>2. QED
    BY <1>1, <1>2, <1>4, <2>1
<1>7. /\ (a \o b) \o c \in Seq(Content) /\ Len((a \o b) \o c) = Len(a \o b) + Len(c)
      /\ \A j \in 1 .. Len(a \o b) + Len(c) :
           ((a \o b) \o c)[j] = IF j <= Len(a \o b) THEN (a \o b)[j] ELSE c[j - Len(a \o b)]
  <2> DEFINE d == a \o b
  <2>1. d \in Seq(Content) /\ c \in Seq(Content)
    BY <1>3, <1>6
  <2> HIDE DEF d
  <2>2. /\ d \o c \in Seq(Content) /\ Len(d \o c) = Len(d) + Len(c)
        /\ \A j \in 1 .. Len(d) + Len(c) :
             (d \o c)[j] = IF j <= Len(d) THEN d[j] ELSE c[j - Len(d)]
    BY <2>1, ConcatProperties
  <2>3. QED
    BY <2>2 DEF d
<1>8. Len((a \o b) \o c) = Len(s) + 1
  BY <1>1, <1>3, <1>6, <1>7
<1>9. ASSUME NEW j \in 1 .. Len(s) + 1
      PROVE  ((a \o b) \o c)[j] = IF j < i THEN s[j] ELSE IF j = i THEN e ELSE s[j - 1]
  <2>1. ((a \o b) \o c)[j] = IF j <= i THEN (a \o b)[j] ELSE c[j - i]
    BY <1>1, <1>3, <1>6, <1>7
  <2>2. CASE j <= i
    BY <1>1, <1>6, <2>1, <2>2
  <2>3. CASE j > i
    <3>1. j - i \in 1 .. Len(s) - i + 1 /\ i + (j - i - 1) = j - 1
      BY <1>1, <2>3
    <3>2. QED
      BY <1>1, <1>3, <2>1, <2>3, <3>1
  <2>4. j <= i \/ j > i
    BY <1>1
  <2>5. QED
    BY <2>2, <2>3, <2>4
<1>10. QED
  BY <1>5, <1>7, <1>8, <1>9

OneMore(l, m, pos, v) ==
  /\ m.size = l.size + 1
  /\ \A k \in 0 .. l.size : m.data[m.front + k] =
       IF k < pos THEN l.data[l.front + k]
       ELSE IF k = pos THEN v ELSE l.data[l.front + (k - 1)]

LEMMA ContentsInserted ==
  ASSUME NEW l, NEW m, NEW r \in Nat, NEW q \in Nat, Shaped(l, r), Shaped(m, q),
         NEW pos \in 0 .. l.size, NEW v \in Content,
         OneMore(l, m, pos, v)
  PROVE  Contents(m) = LikeVectors!InsertAt(Contents(l), pos + 1, v)
<1> DEFINE s == Contents(l)
           t == Contents(m)
           u == LikeVectors!InsertAt(s, pos + 1, v)
<1>1. l.size \in Nat
  BY DEF Shaped, ListIn
<1>2. /\ m.size = l.size + 1
      /\ \A k \in 0 .. l.size : m.data[m.front + k] =
           IF k < pos THEN l.data[l.front + k]
           ELSE IF k = pos THEN v ELSE l.data[l.front + (k - 1)]
  BY DEF OneMore
<1>3. /\ s \in Seq(Content) /\ Len(s) = l.size
      /\ \A k \in 1 .. l.size : s[k] = l.data[l.front + (k - 1)]
  BY ContentsOf, Zenon
<1>4. /\ t \in Seq(Content) /\ Len(t) = l.size + 1
      /\ \A k \in 1 .. l.size + 1 : t[k] = m.data[m.front + (k - 1)]
  BY <1>2, ContentsOf, Zenon
<1>5. /\ u \in Seq(Content) /\ Len(u) = l.size + 1
      /\ \A j \in 1 .. l.size + 1 : u[j] = IF j < pos + 1 THEN s[j]
                                           ELSE IF j = pos + 1 THEN v ELSE s[j - 1]
  <2>1. pos + 1 \in 1 .. Len(s) + 1
    BY <1>1, <1>3
  <2> HIDE DEF s
  <2>2. QED
    BY <1>3, <2>1, InsertAtOf
<1> HIDE DEF s, t, u
<1>6. ASSUME NEW j \in 1 .. l.size + 1
      PROVE  t[j] = u[j]
  <2>1. /\ j - 1 \in 0 .. l.size
        /\ t[j] = m.data[m.front + (j - 1)]
        /\ u[j] = IF j < pos + 1 THEN s[j] ELSE IF j = pos + 1 THEN v ELSE s[j - 1]
    BY <1>1, <1>4, <1>5
  <2>2. t[j] = IF j - 1 < pos THEN l.data[l.front + (j - 1)]
               ELSE IF j - 1 = pos THEN v ELSE l.data[l.front + ((j - 1) - 1)]
    BY <1>2, <2>1
  <2>3. CASE j < pos + 1
    <3>1. j \in 1 .. l.size /\ j - 1 < pos
      BY <1>1, <2>3
    <3>2. s[j] = l.data[l.front + (j - 1)]
      BY <1>3, <3>1
    <3>3. QED
      BY <2>1, <2>2, <2>3, <3>1, <3>2, Zenon
  <2>4. CASE j = pos + 1
    BY <1>1, <2>1, <2>2, <2>4
  <2>5. CASE j > pos + 1
    <3>1. j - 1 \in 1 .. l.size
      BY <1>1, <2>5
    <3>2. s[j - 1] = l.data[l.front + ((j - 1) - 1)]
      BY <1>3, <3>1
    <3>3. QED
      BY <1>1, <2>1, <2>2, <2>5, <3>2
  <2>6. QED
    BY <1>1, <2>3, <2>4, <2>5
<1>7. t = u
  BY <1>4, <1>5, <1>6, SeqEqual
<1>8. QED
  BY <1>7 DEF s, t, u

\* One has an element less.
LEMMA RemoveAtOf ==
  ASSUME NEW s \in Seq(Content), NEW i \in 1 .. Len(s)
  PROVE  /\ LikeVectors!RemoveAt(s, i) \in Seq(Content)
         /\ Len(LikeVectors!RemoveAt(s, i)) = Len(s) - 1
         /\ \A j \in 1 .. Len(s) - 1 :
              LikeVectors!RemoveAt(s, i)[j] = IF j < i THEN s[j] ELSE s[j + 1]
<1> DEFINE a == SubSeq(s, 1, i - 1)
           c == SubSeq(s, i + 1, Len(s))
<1>1. /\ Len(s) \in Nat
      /\ \A j \in 1 .. Len(s) : s[j] \in Content
  BY LenProperties, ElementOfSeq
<1>2. /\ a \in Seq(Content) /\ Len(a) = i - 1
      /\ \A j \in 1 .. i - 1 : a[j] = s[j]
  <2>1. \A j \in 1 .. i - 1 : s[j] \in Content
    BY <1>1
  <2>2. /\ a \in Seq(Content) /\ Len(a) = IF 1 <= i - 1 THEN i - 1 - 1 + 1 ELSE 0
        /\ \A j \in 1 .. i - 1 - 1 + 1 : a[j] = s[1 + j - 1]
    BY <1>1, <2>1, SubSeqProperties
  <2>3. QED
    BY <1>1, <2>2
<1>3. /\ c \in Seq(Content) /\ Len(c) = Len(s) - i
      /\ \A j \in 1 .. Len(s) - i : c[j] = s[i + j]
  <2>1. \A j \in i + 1 .. Len(s) : s[j] \in Content
    BY <1>1
  <2>2. /\ c \in Seq(Content)
        /\ Len(c) = IF i + 1 <= Len(s) THEN Len(s) - (i + 1) + 1 ELSE 0
        /\ \A j \in 1 .. Len(s) - (i + 1) + 1 : c[j] = s[(i + 1) + j - 1]
    BY <1>1, <2>1, SubSeqProperties
  <2>3. \A j \in 1 .. Len(s) - i : j \in 1 .. Len(s) - (i + 1) + 1 /\ (i + 1) + j - 1 = i + j
    BY <1>1
  <2>4. QED
    BY <1>1, <2>2, <2>3
<1>4. LikeVectors!RemoveAt(s, i) = a \o c
  BY DEF LikeVectors!RemoveAt
<1> HIDE DEF a, c
<1>5. /\ a \o c \in Seq(Content) /\ Len(a \o c) = Len(a) + Len(c)
      /\ \A j \in 1 .. Len(a) + Len(c) : (a \o c)[j] = IF j <= Len(a) THEN a[j] ELSE c[j - Len(a)]
  BY <1>2, <1>3, ConcatProperties
<1>6. Len(a \o c) = Len(s) - 1
  BY <1>1, <1>2, <1>3, <1>5
<1>7. ASSUME NEW j \in 1 .. Len(s) - 1
      PROVE  (a \o c)[j] = IF j < i THEN s[j] ELSE s[j + 1]
  <2>1. (a \o c)[j] = IF j <= i - 1 THEN a[j] ELSE c[j - (i - 1)]
    BY <1>1, <1>2, <1>3, <1>5
  <2>2. CASE j < i
    BY <1>1, <1>2, <2>1, <2>2
  <2>3. CASE j >= i
    <3>1. j - (i - 1) \in 1 .. Len(s) - i /\ i + (j - (i - 1)) = j + 1
      BY <1>1, <2>3
    <3>2. QED
      BY <1>1, <1>3, <2>1, <2>3, <3>1
  <2>4. j < i \/ j >= i
    BY <1>1
  <2>5. QED
    BY <2>2, <2>3, <2>4
<1>8. QED
  BY <1>4, <1>5, <1>6, <1>7

OneLess(l, m, pos) ==
  /\ m.size = l.size - 1
  /\ \A k \in 0 .. l.size - 2 : m.data[m.front + k] =
       IF k < pos THEN l.data[l.front + k] ELSE l.data[l.front + (k + 1)]

LEMMA ContentsRemoved ==
  ASSUME NEW l, NEW m, NEW r \in Nat, NEW q \in Nat, Shaped(l, r), Shaped(m, q),
         NEW pos \in 0 .. l.size - 1,
         OneLess(l, m, pos)
  PROVE  Contents(m) = LikeVectors!RemoveAt(Contents(l), pos + 1)
<1> DEFINE s == Contents(l)
           t == Contents(m)
           u == LikeVectors!RemoveAt(s, pos + 1)
<1>1. l.size \in Nat
  BY DEF Shaped, ListIn
<1>2. /\ m.size = l.size - 1
      /\ \A k \in 0 .. l.size - 2 : m.data[m.front + k] =
           IF k < pos THEN l.data[l.front + k] ELSE l.data[l.front + (k + 1)]
  BY DEF OneLess
<1>3. /\ s \in Seq(Content) /\ Len(s) = l.size
      /\ \A k \in 1 .. l.size : s[k] = l.data[l.front + (k - 1)]
  BY ContentsOf, Zenon
<1>4. /\ t \in Seq(Content) /\ Len(t) = l.size - 1
      /\ \A k \in 1 .. l.size - 1 : t[k] = m.data[m.front + (k - 1)]
  BY <1>2, ContentsOf, Zenon
<1>5. /\ u \in Seq(Content) /\ Len(u) = l.size - 1
      /\ \A j \in 1 .. l.size - 1 : u[j] = IF j < pos + 1 THEN s[j] ELSE s[j + 1]
  <2>1. pos + 1 \in 1 .. Len(s)
    BY <1>1, <1>3
  <2> HIDE DEF s
  <2>2. QED
    BY <1>3, <2>1, RemoveAtOf
<1> HIDE DEF s, t, u
<1>6. ASSUME NEW j \in 1 .. l.size - 1
      PROVE  t[j] = u[j]
  <2>1. /\ j - 1 \in 0 .. l.size - 2
        /\ t[j] = m.data[m.front + (j - 1)]
        /\ u[j] = IF j < pos + 1 THEN s[j] ELSE s[j + 1]
    BY <1>1, <1>4, <1>5
  <2>2. t[j] = IF j - 1 < pos THEN l.data[l.front + (j - 1)] ELSE l.data[l.front + ((j - 1) + 1)]
    BY <1>2, <2>1
  <2>3. CASE j < pos + 1
    <3>1. j \in 1 .. l.size /\ j - 1 < pos
      BY <1>1, <2>3
    <3>2. s[j] = l.data[l.front + (j - 1)]
      BY <1>3, <3>1
    <3>3. QED
      BY <2>1, <2>2, <2>3, <3>1, <3>2, Zenon
  <2>4. CASE j >= pos + 1
    <3>1. j + 1 \in 1 .. l.size /\ (j - 1) + 1 = (j + 1) - 1
      BY <1>1
    <3>2. s[j + 1] = l.data[l.front + ((j + 1) - 1)]
      BY <1>3, <3>1
    <3>3. QED
      BY <1>1, <2>1, <2>2, <2>4, <3>1, <3>2
  <2>5. QED
    BY <1>1, <2>3, <2>4
<1>7. t = u
  BY <1>1, <1>4, <1>5, <1>6, SeqEqual
<1>8. QED
  BY <1>7 DEF s, t, u

-----------------------------------------------------------------------------
(* What the functions make of an array that has room.                      *)

\* A new array with the elements at its start.
Remade(l, room, m) == /\ Shaped(m, room)
                      /\ m.size = l.size /\ m.front = 0 /\ m.capacity = room
                      /\ m.pointed = FALSE
                      /\ Contents(m) = Contents(l)

LEMMA RebasedOf ==
  ASSUME NEW l, NEW r \in Nat, NEW room \in Nat, Shaped(l, r), l.size <= room
  PROVE  Remade(l, room, Rebased(l, room))
<1> DEFINE b == Blit(List(room).data, 0, l.data, l.front, l.size)
           m == Rebased(l, room)
<1>1. /\ l.size \in Nat /\ l.front \in Nat /\ l.front + l.size <= r
      /\ l.data \in Memory(r)
  BY DEF Shaped, ListIn
<1>2. List(room).data \in Memory(room)
  BY ListShaped
<1>3. Blitted(room, List(room).data, 0, l.data, l.front, l.size, b)
  <2> DEFINE d == List(room).data
  <2> HIDE DEF d
  <2>1. Blitted(room, d, 0, l.data, l.front, l.size, Blit(d, 0, l.data, l.front, l.size))
    BY <1>1, <1>2, BlitOf DEF d
  <2>2. QED
    BY <2>1 DEF d
<1>4. m = [List(room) EXCEPT !.size = l.size, !.data = b]
  BY DEF Rebased
<1> HIDE DEF b, m
<1>5. /\ m.size = l.size /\ m.capacity = room /\ m.front = 0 /\ m.data = b
      /\ m.pointed = FALSE
  BY <1>4 DEF List
<1>6. Shaped(m, room)
  <2>1. List(room) \in ListIn(room)
    BY ListShaped DEF Shaped, ListIn
  <2>2. m \in ListIn(room)
    BY <1>1, <1>3, <1>4, <2>1, Updated DEF Blitted
  <2>3. QED
    BY <1>1, <1>5, <2>2 DEF Shaped, ListIn
<1>7. \A k \in 0 .. l.size - 1 : l.data[l.front + k] = m.data[m.front + k]
  BY <1>1, <1>3, <1>5 DEF Blitted
<1>8. Contents(l) = Contents(m)
  BY <1>1, <1>5, <1>6, <1>7, SameContents
<1>9. QED
  BY <1>5, <1>6, <1>8 DEF m, Remade

\* The list keeps its array.
InPlace(l, r, m) == Shaped(m, r) /\ m.capacity = l.capacity /\ m.pointed = l.pointed

LEMMA AppendedOf ==
  ASSUME NEW l, NEW r \in Nat, Shaped(l, r), l.size < r, NEW v \in Content
  PROVE  /\ l.front + l.size < r => InPlace(l, r, Appended(l, v))
         /\ Appended(l, v).size = l.size + 1
         /\ Appended(l, v).front = l.front
         /\ InPlace(l, r, AppendConstructed(l, v))
         /\ AppendConstructed(l, v).size = l.size + 1
         /\ AppendConstructed(l, v).front = 0
         /\ l.front = 0 =>
              /\ Contents(Appended(l, v)) = LikeVectors!InsertAt(Contents(l), l.size + 1, v)
              /\ Contents(AppendConstructed(l, v))
                   = LikeVectors!InsertAt(Contents(l), l.size + 1, v)
<1> DEFINE m == Appended(l, v)
           c == AppendConstructed(l, v)
           b == [l.data EXCEPT ![l.size] = v]
<1>1. /\ l.size \in Nat /\ l.front \in Nat /\ l.front + l.size <= r
      /\ l.capacity \in Nat /\ l.pointed \in BOOLEAN
      /\ l.data \in Memory(r)
  BY DEF Shaped, ListIn
<1>2. b \in Memory(r)
  BY <1>1 DEF Memory
<1>3. b[l.size] = v /\ \A i \in 0 .. r - 1 : i # l.size => b[i] = l.data[i]
  BY <1>1 DEF Memory
<1>4. m = [l EXCEPT !.data = b, !.size = l.size + 1] /\ c = [m EXCEPT !.front = 0]
  BY DEF Appended, AppendConstructed
<1>5. l \in ListIn(r)
  BY DEF Shaped, ListIn
<1> HIDE DEF m, c, b
<1>6. m \in ListIn(r)
  <2> DEFINE e == [l EXCEPT !.data = b]
  <2>1. e \in ListIn(r) /\ l.size + 1 \in Nat /\ m = [e EXCEPT !.size = l.size + 1]
    BY <1>1, <1>2, <1>4, <1>5, Updated
  <2> HIDE DEF e
  <2>2. QED
    BY <2>1, Updated
<1>7. /\ m.size = l.size + 1 /\ m.front = l.front /\ m.data = b
      /\ c.size = l.size + 1 /\ c.front = 0 /\ c.data = b
      /\ m.capacity = l.capacity /\ m.pointed = l.pointed
      /\ c.capacity = l.capacity /\ c.pointed = l.pointed
  BY <1>4, <1>5 DEF ListIn
<1>8. l.front + l.size < r => InPlace(l, r, m)
  BY <1>1, <1>6, <1>7 DEF InPlace, Shaped, ListIn
<1>9. InPlace(l, r, c)
  <2>1. c \in ListIn(r)
    BY <1>4, <1>6, Updated
  <2>2. QED
    BY <1>1, <1>7, <2>1 DEF InPlace, Shaped, ListIn
<1>10. ASSUME l.front = 0
      PROVE  /\ Contents(m) = LikeVectors!InsertAt(Contents(l), l.size + 1, v)
             /\ Contents(c) = LikeVectors!InsertAt(Contents(l), l.size + 1, v)
  <2>1. \A k \in 0 .. l.size : b[k] = IF k < l.size THEN l.data[l.front + k]
                                    ELSE IF k = l.size THEN v ELSE l.data[l.front + (k - 1)]
    BY <1>1, <1>3, <1>10
  <2>2. /\ \A k \in 0 .. l.size : m.data[m.front + k] = b[k]
        /\ \A k \in 0 .. l.size : c.data[c.front + k] = b[k]
    BY <1>1, <1>7, <1>10
  <2>3. l.size \in 0 .. l.size
    BY <1>1
  <2>4. Shaped(m, r) /\ Shaped(c, r)
    BY <1>1, <1>8, <1>9, <1>10 DEF InPlace
  <2>5. OneMore(l, m, l.size, v)
    BY <1>7, <2>1, <2>2, Zenon DEF OneMore
  <2>6. OneMore(l, c, l.size, v)
    BY <1>7, <2>1, <2>2, Zenon DEF OneMore
  <2>7. Contents(m) = LikeVectors!InsertAt(Contents(l), l.size + 1, v)
    BY <2>3, <2>4, <2>5, ContentsInserted
  <2>8. Contents(c) = LikeVectors!InsertAt(Contents(l), l.size + 1, v)
    BY <2>3, <2>4, <2>6, ContentsInserted
  <2>9. QED
    BY <2>7, <2>8
<1>11. QED
  BY <1>7, <1>8, <1>9, <1>10 DEF m, c

LEMMA InsertedOf ==
  ASSUME NEW l, NEW r \in Nat, Shaped(l, r), l.size < r,
         NEW pos \in 0 .. l.size, NEW v \in Content
  PROVE  /\ InPlace(l, r, Inserted(l, pos, v))
         /\ Inserted(l, pos, v).size = l.size + 1
         /\ Inserted(l, pos, v).front = 0
         /\ pos = 0 \/ l.front = 0 =>
              Contents(Inserted(l, pos, v)) = LikeVectors!InsertAt(Contents(l), pos + 1, v)
<1> DEFINE m == Inserted(l, pos, v)
           a == Blit(l.data, pos + 1, l.data, l.front + pos, l.size - pos)
           b == [a EXCEPT ![pos] = v]
<1>1. /\ l.size \in Nat /\ l.front \in Nat /\ l.front + l.size <= r
      /\ l.capacity \in Nat /\ l.pointed \in BOOLEAN
      /\ l.data \in Memory(r) /\ l \in ListIn(r)
  BY DEF Shaped, ListIn
<1>2. Blitted(r, l.data, pos + 1, l.data, l.front + pos, l.size - pos, a)
  <2>1. /\ pos + 1 \in Nat /\ l.front + pos \in Nat /\ l.size - pos \in Int
        /\ (l.front + pos) + (l.size - pos) <= r
    BY <1>1
  <2>2. QED
    BY <1>1, <2>1, BlitOf
<1>3. m = [l EXCEPT !.data = b, !.size = l.size + 1, !.front = 0]
  BY DEF Inserted
<1> HIDE DEF a, m
<1>4. /\ b \in Memory(r) /\ b[pos] = v
      /\ \A i \in 0 .. r - 1 : i # pos => b[i] = a[i]
  BY <1>1, <1>2 DEF Memory, Blitted
<1> HIDE DEF b
<1>5. m \in ListIn(r)
  <2> DEFINE e == [l EXCEPT !.data = b]
             f == [e EXCEPT !.size = l.size + 1]
  <2>1. e \in ListIn(r) /\ l.size + 1 \in Nat /\ m = [f EXCEPT !.front = 0]
    BY <1>1, <1>3, <1>4, Updated
  <2> HIDE DEF e
  <2>2. f \in ListIn(r)
    BY <2>1, Updated
  <2> HIDE DEF f
  <2>3. QED
    BY <2>1, <2>2, Updated
<1>6. /\ m.size = l.size + 1 /\ m.front = 0 /\ m.data = b
      /\ m.capacity = l.capacity /\ m.pointed = l.pointed
  BY <1>1, <1>3 DEF ListIn
<1>7. InPlace(l, r, m)
  BY <1>1, <1>5, <1>6 DEF InPlace, Shaped
<1>8. ASSUME pos = 0 \/ l.front = 0
      PROVE  Contents(m) = LikeVectors!InsertAt(Contents(l), pos + 1, v)
  <2>1. ASSUME NEW k \in 0 .. l.size
        PROVE  b[k] = IF k < pos THEN l.data[l.front + k]
                      ELSE IF k = pos THEN v ELSE l.data[l.front + (k - 1)]
    <3>1. k \in 0 .. r - 1
      BY <1>1
    <3>2. CASE k < pos
      <4>1. b[k] = a[k] /\ a[k] = l.data[k] /\ l.front + k = k
        BY <1>1, <1>2, <1>4, <1>8, <3>1, <3>2 DEF Blitted
      <4>2. QED
        BY <3>2, <4>1
    <3>3. CASE k = pos
      BY <1>4, <3>3
    <3>4. CASE k > pos
      <4>1. b[k] = a[k] /\ a[k] = l.data[(l.front + pos) + (k - (pos + 1))]
        BY <1>1, <1>2, <1>4, <3>1, <3>4 DEF Blitted
      <4>2. (l.front + pos) + (k - (pos + 1)) = l.front + (k - 1)
        BY <1>1
      <4>3. QED
        BY <3>4, <4>1, <4>2
    <3>5. k < pos \/ k = pos \/ k > pos
      BY <1>1
    <3>6. QED
      BY <3>2, <3>3, <3>4, <3>5
  <2>2. \A k \in 0 .. l.size : m.data[m.front + k] = b[k]
    BY <1>1, <1>6
  <2>3. OneMore(l, m, pos, v)
    BY <1>6, <2>1, <2>2, Zenon DEF OneMore
  <2>4. Shaped(m, r)
    BY <1>7 DEF InPlace
  <2>5. QED
    BY <2>3, <2>4, ContentsInserted
<1>9. QED
  BY <1>6, <1>7, <1>8 DEF m

LEMMA RemovedOf ==
  ASSUME NEW l, NEW r \in Nat, Shaped(l, r), NEW pos \in 0 .. l.size - 1
  PROVE  /\ InPlace(l, r, Removed(l, pos))
         /\ Removed(l, pos).size = l.size - 1
         /\ Removed(l, pos).front = l.front
         /\ Contents(Removed(l, pos)) = LikeVectors!RemoveAt(Contents(l), pos + 1)
<1> DEFINE m == Removed(l, pos)
           b == Blit(l.data, l.front + pos, l.data, l.front + pos + 1, l.size - pos - 1)
<1>1. /\ l.size \in Nat /\ l.front \in Nat /\ l.front + l.size <= r
      /\ l.capacity \in Nat /\ l.pointed \in BOOLEAN
      /\ l.data \in Memory(r) /\ l \in ListIn(r)
  BY DEF Shaped, ListIn
<1>2. Blitted(r, l.data, l.front + pos, l.data, l.front + pos + 1, l.size - pos - 1, b)
  <2>1. /\ l.front + pos \in Nat /\ l.front + pos + 1 \in Nat /\ l.size - pos - 1 \in Int
        /\ (l.front + pos + 1) + (l.size - pos - 1) <= r
    BY <1>1
  <2>2. QED
    BY <1>1, <2>1, BlitOf
<1>3. m = [l EXCEPT !.data = b, !.size = l.size - 1]
  BY DEF Removed
<1> HIDE DEF b, m
<1>4. m \in ListIn(r)
  <2> DEFINE e == [l EXCEPT !.data = b]
  <2>1. e \in ListIn(r) /\ l.size - 1 \in Nat /\ m = [e EXCEPT !.size = l.size - 1]
    BY <1>1, <1>2, <1>3, Updated DEF Blitted
  <2> HIDE DEF e
  <2>2. QED
    BY <2>1, Updated
<1>5. /\ m.size = l.size - 1 /\ m.front = l.front /\ m.data = b
      /\ m.capacity = l.capacity /\ m.pointed = l.pointed
  BY <1>1, <1>3 DEF ListIn
<1>6. InPlace(l, r, m)
  BY <1>1, <1>4, <1>5 DEF InPlace, Shaped
<1>7. ASSUME NEW k \in 0 .. l.size - 2
      PROVE  m.data[m.front + k] = IF k < pos THEN l.data[l.front + k] ELSE l.data[l.front + (k + 1)]
  <2>1. l.front + k \in 0 .. r - 1 /\ m.data[m.front + k] = b[l.front + k]
    BY <1>1, <1>5
  <2>2. CASE k < pos
    <3>1. ~(l.front + pos <= l.front + k)
      BY <1>1, <2>2
    <3>2. QED
      BY <1>2, <2>1, <2>2, <3>1 DEF Blitted
  <2>3. CASE k >= pos
    <3>1. /\ l.front + pos <= l.front + k
          /\ l.front + k < (l.front + pos) + (l.size - pos - 1)
          /\ (l.front + pos + 1) + ((l.front + k) - (l.front + pos)) = l.front + (k + 1)
          /\ ~(k < pos)
      BY <1>1, <2>3
    <3>2. QED
      BY <1>2, <2>1, <3>1 DEF Blitted
  <2>4. QED
    BY <1>1, <2>2, <2>3
<1>8. OneLess(l, m, pos)
  BY <1>5, <1>7, Zenon DEF OneLess
<1>9. Contents(m) = LikeVectors!RemoveAt(Contents(l), pos + 1)
  BY <1>6, <1>8, ContentsRemoved DEF InPlace
<1>10. QED
  BY <1>5, <1>6, <1>9 DEF m

LEMMA RemovedBackOf ==
  ASSUME NEW l, NEW r \in Nat, Shaped(l, r), l.size > 0
  PROVE  /\ InPlace(l, r, RemovedBack(l))
         /\ RemovedBack(l).size = l.size - 1
         /\ RemovedBack(l).front = l.front
         /\ Contents(RemovedBack(l)) = LikeVectors!Front(Contents(l))
<1> DEFINE m == RemovedBack(l)
           s == Contents(l)
           t == Contents(m)
           u == SubSeq(s, 1, Len(s) - 1)
<1>1. /\ l.size \in Nat /\ l.front \in Nat /\ l.front + l.size <= r
      /\ l \in ListIn(r)
  BY DEF Shaped, ListIn
<1>2. m = [l EXCEPT !.size = l.size - 1]
  BY DEF RemovedBack
<1> HIDE DEF m
<1>3. m \in ListIn(r) /\ l.size - 1 \in Nat
  BY <1>1, <1>2, Updated
<1>4. /\ m.size = l.size - 1 /\ m.front = l.front /\ m.data = l.data
      /\ m.capacity = l.capacity /\ m.pointed = l.pointed
  BY <1>1, <1>2 DEF ListIn
<1>5. Shaped(m, r) /\ InPlace(l, r, m)
  BY <1>1, <1>3, <1>4 DEF InPlace, Shaped
<1>6. /\ s \in Seq(Content) /\ Len(s) = l.size
      /\ \A k \in 1 .. l.size : s[k] = l.data[l.front + (k - 1)]
  BY ContentsOf, Zenon
<1>7. /\ t \in Seq(Content) /\ Len(t) = l.size - 1
      /\ \A k \in 1 .. l.size - 1 : t[k] = l.data[l.front + (k - 1)]
  <2>1. /\ t \in Seq(Content) /\ Len(t) = m.size
        /\ \A k \in 1 .. m.size : t[k] = m.data[m.front + (k - 1)]
    BY <1>5, ContentsOf, Zenon
  <2> HIDE DEF t
  <2>2. QED
    BY <1>4, <2>1
<1> HIDE DEF s, t
<1>8. \A k \in 1 .. l.size : s[k] \in Content
  BY <1>6, ElementOfSeq
<1>9. /\ u \in Seq(Content)
      /\ Len(u) = IF 1 <= l.size - 1 THEN l.size - 1 - 1 + 1 ELSE 0
      /\ \A k \in 1 .. l.size - 1 - 1 + 1 : u[k] = s[1 + k - 1]
  <2>1. \A k \in 1 .. l.size - 1 : s[k] \in Content
    BY <1>1, <1>8
  <2>2. QED
    BY <1>1, <1>6, <2>1, SubSeqProperties
<1> HIDE DEF u
<1>10. /\ Len(t) = Len(u)
       /\ \A k \in 1 .. Len(t) : t[k] = u[k]
  BY <1>1, <1>6, <1>7, <1>9
<1>11. t = u
  BY <1>7, <1>9, <1>10, SeqEqual
<1>12. QED
  BY <1>4, <1>5, <1>11 DEF m, s, t, u, LikeVectors!Front

LEMMA RemovedFrontOf ==
  ASSUME NEW l, NEW r \in Nat, Shaped(l, r), l.size > 0
  PROVE  /\ InPlace(l, r, RemovedFront(l))
         /\ RemovedFront(l).size = l.size - 1
         /\ RemovedFront(l).front = l.front + 1
         /\ Contents(RemovedFront(l)) = Tail(Contents(l))
<1> DEFINE m == RemovedFront(l)
           s == Contents(l)
           t == Contents(m)
<1>1. /\ l.size \in Nat /\ l.front \in Nat /\ l.front + l.size <= r
      /\ l \in ListIn(r)
  BY DEF Shaped, ListIn
<1>2. m = [l EXCEPT !.size = l.size - 1, !.front = l.front + 1]
  BY DEF RemovedFront
<1> HIDE DEF m
<1>3. m \in ListIn(r)
  <2> DEFINE e == [l EXCEPT !.size = l.size - 1]
  <2>1. e \in ListIn(r) /\ l.front + 1 \in Nat /\ m = [e EXCEPT !.front = l.front + 1]
    BY <1>1, <1>2, Updated
  <2> HIDE DEF e
  <2>2. QED
    BY <2>1, Updated
<1>4. /\ m.size = l.size - 1 /\ m.front = l.front + 1 /\ m.data = l.data
      /\ m.capacity = l.capacity /\ m.pointed = l.pointed
  BY <1>1, <1>2 DEF ListIn
<1>5. Shaped(m, r) /\ InPlace(l, r, m)
  BY <1>1, <1>3, <1>4 DEF InPlace, Shaped
<1>6. /\ s \in Seq(Content) /\ Len(s) = l.size
      /\ \A k \in 1 .. l.size : s[k] = l.data[l.front + (k - 1)]
  BY ContentsOf, Zenon
<1>7. /\ t \in Seq(Content) /\ Len(t) = l.size - 1
      /\ \A k \in 1 .. l.size - 1 : t[k] = l.data[(l.front + 1) + (k - 1)]
  <2>1. /\ t \in Seq(Content) /\ Len(t) = m.size
        /\ \A k \in 1 .. m.size : t[k] = m.data[m.front + (k - 1)]
    BY <1>5, ContentsOf, Zenon
  <2> HIDE DEF t
  <2>2. QED
    BY <1>4, <2>1
<1> HIDE DEF s, t
<1>8. /\ Tail(s) \in Seq(Content) /\ Len(Tail(s)) = l.size - 1
      /\ \A k \in 1 .. l.size - 1 : Tail(s)[k] = s[k + 1]
  <2>1. s # << >>
    BY <1>6
  <2>2. QED
    BY <1>6, <2>1, HeadTailProperties
<1>9. ASSUME NEW k \in 1 .. l.size - 1
      PROVE  t[k] = Tail(s)[k]
  <2>1. k + 1 \in 1 .. l.size /\ (l.front + 1) + (k - 1) = l.front + ((k + 1) - 1)
    BY <1>1
  <2>2. s[k + 1] = l.data[l.front + ((k + 1) - 1)]
    BY <1>6, <2>1
  <2>3. QED
    BY <1>7, <1>8, <2>1, <2>2
<1>10. t = Tail(s)
  BY <1>7, <1>8, <1>9, SeqEqual
<1>11. QED
  BY <1>4, <1>5, <1>10 DEF m, s, t

LEMMA ClearedOf ==
  ASSUME NEW l, NEW r \in Nat, Shaped(l, r)
  PROVE  /\ InPlace(l, r, Cleared(l))
         /\ Cleared(l).size = 0
         /\ Cleared(l).front = 0
         /\ Contents(Cleared(l)) = << >>
<1> DEFINE m == Cleared(l)
<1>1. l \in ListIn(r) /\ m = [l EXCEPT !.size = 0, !.front = 0]
  BY DEF Shaped, Cleared
<1> HIDE DEF m
<1>2. m \in ListIn(r)
  <2> DEFINE e == [l EXCEPT !.size = 0]
  <2>1. e \in ListIn(r) /\ m = [e EXCEPT !.front = 0]
    BY <1>1, Updated
  <2> HIDE DEF e
  <2>2. QED
    BY <2>1, Updated
<1>3. m.size = 0 /\ m.front = 0 /\ m.capacity = l.capacity /\ m.pointed = l.pointed
  BY <1>1 DEF ListIn
<1>4. InPlace(l, r, m)
  BY <1>2, <1>3 DEF InPlace, Shaped
<1>5. Contents(m) = << >>
  <2>1. Contents(m) \in Seq(Content) /\ Len(Contents(m)) = 0
    BY <1>3, <1>4, ContentsOf, Zenon DEF InPlace
  <2>2. QED
    BY <2>1, EmptySeq
<1>6. QED
  BY <1>3, <1>4, <1>5 DEF m

LEMMA DeepCopiedOf ==
  ASSUME NEW l, NEW q \in Nat, Shaped(l, q),
         NEW dest, NEW r \in Nat, dest \in ListIn(r), l.size <= r
  PROVE  /\ Shaped(DeepCopied(l, dest), r)
         /\ DeepCopied(l, dest).front = 0
         /\ DeepCopied(l, dest).capacity = dest.capacity
         /\ DeepCopied(l, dest).pointed = dest.pointed
         /\ Contents(DeepCopied(l, dest)) = Contents(l)
<1> DEFINE m == DeepCopied(l, dest)
           d == dest.data
           b == Blit(d, 0, l.data, l.front, l.size)
<1>1. /\ l.size \in Nat /\ l.front \in Nat /\ l.front + l.size <= q
      /\ l.data \in Memory(q) /\ d \in Memory(r)
  BY DEF Shaped, ListIn
<1>2. m = [dest EXCEPT !.data = b, !.size = l.size, !.front = 0]
  BY DEF DeepCopied
<1> HIDE DEF d
<1>3. Blitted(r, d, 0, l.data, l.front, l.size, b)
  BY <1>1, BlitOf
<1> HIDE DEF b, m
<1>4. m \in ListIn(r)
  <2> DEFINE e == [dest EXCEPT !.data = b]
             f == [e EXCEPT !.size = l.size]
  <2>1. e \in ListIn(r) /\ m = [f EXCEPT !.front = 0]
    BY <1>2, <1>3, Updated DEF Blitted
  <2> HIDE DEF e
  <2>2. f \in ListIn(r)
    BY <1>1, <2>1, Updated
  <2> HIDE DEF f
  <2>3. QED
    BY <2>1, <2>2, Updated
<1>5. /\ m.size = l.size /\ m.front = 0 /\ m.data = b
      /\ m.capacity = dest.capacity /\ m.pointed = dest.pointed
  BY <1>2 DEF ListIn
<1>6. Shaped(m, r)
  BY <1>1, <1>4, <1>5 DEF Shaped
<1>7. \A k \in 0 .. l.size - 1 : l.data[l.front + k] = m.data[m.front + k]
  BY <1>1, <1>3, <1>5 DEF Blitted
<1>8. Contents(l) = Contents(m)
  BY <1>1, <1>5, <1>6, <1>7, SameContents
<1>9. QED
  BY <1>5, <1>6, <1>8 DEF m

\* The element a list prepends of its own may be any that its array holds.
LEMMA PrependedOwnOf ==
  ASSUME NEW l, NEW r \in Nat, Shaped(l, r), NEW i \in 0 .. l.size - 1
  PROVE  \E v \in Content : PrependedOwn(l, i) = Prepended(l, v)
<1> DEFINE b == Blit(l.data, 1, l.data, l.front, l.size)
<1>1. /\ l.size \in Nat /\ l.front \in Nat /\ l.front + l.size <= r
      /\ l.data \in Memory(r)
  BY DEF Shaped, ListIn
<1>2. b \in Memory(r)
  BY <1>1, BlitOf DEF Blitted
<1> HIDE DEF b
<1>3. l.front + i \in 0 .. r - 1
  BY <1>1
<1>4. b[l.front + i] \in Content
  BY <1>2, <1>3 DEF Memory
<1>5. QED
  BY <1>4 DEF PrependedOwn, b

-----------------------------------------------------------------------------
(* What the calls make of a list.  Both kinds of list use the functions    *)
(* above.                                                                  *)

LEMMA SFunctions ==
  /\ S!Overrun = Overrun
  /\ \A room : S!List(room) = List(room)
  /\ \A l, i : S!Place(l, i) = Place(l, i)
  /\ \A l, room : S!Rebased(l, room) = Rebased(l, room)
  /\ \A l, v : S!AppendConstructed(l, v) = AppendConstructed(l, v)
  /\ \A l, pos, v : S!Inserted(l, pos, v) = Inserted(l, pos, v)
  /\ \A l, v : S!Prepended(l, v) = Prepended(l, v)
  /\ \A l, i : S!PrependedOwn(l, i) = PrependedOwn(l, i)
  /\ \A l, m : S!DeepCopied(l, m) = DeepCopied(l, m)
  /\ \A l : S!HasRoom(l) <=> HasRoom(l)
BY DEF S!Overrun, Overrun, S!List, List, S!Array, Array, S!Place, Place, S!Rebased, Rebased,
       S!Blit, Blit, S!Appended, Appended, S!AppendConstructed, AppendConstructed,
       S!Inserted, Inserted, S!Prepended, Prepended, S!PrependedOwn, PrependedOwn,
       S!DeepCopied, DeepCopied, S!HasRoom, HasRoom

LEMMA IFunctions ==
  /\ I!Overrun = Overrun
  /\ \A l, i : I!Place(l, i) = Place(l, i)
  /\ \A l, room : I!Rebased(l, room) = Rebased(l, room)
  /\ \A l, v : I!Appended(l, v) = Appended(l, v)
  /\ \A l, pos, v : I!Inserted(l, pos, v) = Inserted(l, pos, v)
  /\ \A l, v : I!Prepended(l, v) = Prepended(l, v)
  /\ \A l, i : I!PrependedOwn(l, i) = PrependedOwn(l, i)
  /\ \A l : I!Cleared(l) = Cleared(l)
  /\ \A l, m : I!DeepCopied(l, m) = DeepCopied(l, m)
  /\ \A l : I!HasRoom(l) <=> HasRoom(l)
BY DEF I!Overrun, Overrun, I!List, List, I!Array, Array, I!Place, Place, I!Rebased, Rebased,
       I!Blit, Blit, I!Appended, Appended, I!Inserted, Inserted, I!Prepended, Prepended,
       I!PrependedOwn, PrependedOwn, I!Cleared, Cleared, I!DeepCopied, DeepCopied,
       I!HasRoom, HasRoom

\* One of BareLists.
IsBare(l) == l.capacity = 0 \/ l.capacity # RoomOf(l)

\* MayMove of Vectors.
MayMoveOf(l, m) == /\ m.front > 0 => l.front > 0
                   /\ IsBare(m) => IsBare(l)
                   /\ m.pointed => l.pointed

\* The same elements, perhaps elsewhere.
Moved(k, l, m) == /\ Held(k, m) /\ MayMoveOf(l, m)
                  /\ m.size = l.size /\ m.front \in {0, l.front}
                  /\ Contents(m) = Contents(l)

\* Adds of Vectors.
Added(k, l, pos, v, inOrder, m) ==
  /\ Held(k, m) /\ MayMoveOf(l, m)
  /\ m.size = l.size + 1
  /\ \/ Contents(m) = LikeVectors!InsertAt(Contents(l), pos + 1, v)
     \/ ~inOrder

LEMMA HeldType ==
  ASSUME NEW k, NEW l, Held(k, l)
  PROVE  /\ RoomOf(l) \in Nat /\ l \in ListIn(RoomOf(l)) /\ Shaped(l, RoomOf(l))
         /\ l.size \in Nat /\ l.front \in Nat /\ l.capacity \in Nat /\ l.pointed \in BOOLEAN
         /\ l.front + l.size <= RoomOf(l)
         /\ HasRoom(l) <=> l.size < RoomOf(l)
         /\ k = "inline" => l.capacity = RoomOf(l)
<1>1. RoomOf(l) \in Nat /\ Shaped(l, RoomOf(l)) /\ (k = "inline" => l.capacity = RoomOf(l))
  BY DEF Held
<1> DEFINE r == RoomOf(l)
<1> HIDE DEF r
<1>2. r \in Nat /\ l \in ListIn(r) /\ l.front + l.size <= r
  BY <1>1 DEF Shaped, r
<1>3. /\ l.size \in Nat /\ l.front \in Nat /\ l.capacity \in Nat /\ l.pointed \in BOOLEAN
      /\ DOMAIN l.data = 0 .. r - 1
  BY <1>2 DEF ListIn, Memory
<1>4. HasRoom(l) <=> l.size < r
  BY <1>2, <1>3 DEF HasRoom
<1>5. QED
  BY <1>1, <1>2, <1>3, <1>4 DEF r

LEMMA MovedSelf ==
  ASSUME NEW k, NEW l, Held(k, l)
  PROVE  Moved(k, l, l) /\ l # Overrun
<1>1. Shaped(l, RoomOf(l))
  BY DEF Held
<1>2. QED
  BY <1>1, NotOverrun DEF Moved, MayMoveOf

LEMMA RebasedMoves ==
  ASSUME NEW k, NEW l, Held(k, l), NEW room \in Nat, l.size <= room,
         room > 0 \/ IsBare(l)
  PROVE  /\ Moved(k, l, Rebased(l, room))
         /\ Rebased(l, room) # Overrun
         /\ RoomOf(Rebased(l, room)) = room
         /\ Rebased(l, room).front = 0
<1> DEFINE m == Rebased(l, room)
           r == RoomOf(l)
<1>1. r \in Nat /\ Shaped(l, r)
  BY HeldType
<1> HIDE DEF r
<1>2. /\ Shaped(m, room) /\ m.size = l.size /\ m.front = 0 /\ m.capacity = room
      /\ m.pointed = FALSE /\ Contents(m) = Contents(l)
  <2>1. Remade(l, room, Rebased(l, room))
    BY <1>1, RebasedOf
  <2>2. QED
    BY <2>1 DEF Remade
<1> HIDE DEF m
<1>3. RoomOf(m) = room /\ m # Overrun
  BY <1>2, RoomIs, NotOverrun
<1>4. Held(k, m)
  BY <1>2, <1>3 DEF Held
<1>5. MayMoveOf(l, m)
  BY <1>2, <1>3 DEF MayMoveOf, IsBare
<1>6. QED
  BY <1>2, <1>3, <1>4, <1>5 DEF Moved, m

LEMMA InPlaceHeld ==
  ASSUME NEW k, NEW l, Held(k, l), NEW m, InPlace(l, RoomOf(l), m)
  PROVE  /\ Held(k, m) /\ m # Overrun
         /\ IsBare(m) <=> IsBare(l)
         /\ m.pointed = l.pointed
<1>1. RoomOf(l) \in Nat /\ (k = "inline" => l.capacity = RoomOf(l))
  BY HeldType
<1>2. Shaped(m, RoomOf(l)) /\ m.capacity = l.capacity /\ m.pointed = l.pointed
  BY DEF InPlace
<1>3. RoomOf(m) = RoomOf(l) /\ m # Overrun
  BY <1>1, <1>2, RoomIs, NotOverrun
<1>4. QED
  BY <1>1, <1>2, <1>3 DEF Held, IsBare

\* A list with room keeps its elements, in an array twice as long if it must.
LEMMA SGrows ==
  ASSUME NEW l, Held("seperate", l)
  PROVE  /\ S!Grown(l) # Overrun => Moved("seperate", l, S!Grown(l))
         /\ S!Fits(l) => S!Grown(l) # Overrun /\ HasRoom(S!Grown(l))
         /\ ~IsBare(l) => S!Fits(l)
<1> DEFINE g == S!Grown(l)
           two == l.capacity * 2
<1>1. /\ RoomOf(l) \in Nat /\ l.size \in Nat /\ l.front \in Nat /\ l.capacity \in Nat
      /\ l.front + l.size <= RoomOf(l)
      /\ HasRoom(l) <=> l.size < RoomOf(l)
  BY HeldType
<1>2. S!Full(l) <=> l.size + l.front >= l.capacity
  BY DEF S!Full
<1>3. g = IF S!Full(l) THEN IF l.size <= two THEN Rebased(l, two) ELSE Overrun ELSE l
  BY SFunctions DEF S!Grown, S!Reallocated
<1>4. S!Fits(l) <=> g # Overrun /\ HasRoom(g)
  BY SFunctions DEF S!Fits
<1>5. two \in Nat /\ (two = 0 => l.capacity = 0) /\ (l.capacity > 0 => two > l.capacity)
  BY <1>1
<1> HIDE DEF g, two
<1>6. CASE ~S!Full(l)
  <2>1. g = l /\ l.size < l.capacity
    BY <1>1, <1>2, <1>3, <1>6
  <2>2. Moved("seperate", l, g) /\ g # Overrun
    BY <2>1, MovedSelf
  <2>3. ~IsBare(l) => HasRoom(g)
    BY <1>1, <2>1 DEF IsBare
  <2>4. QED
    BY <1>4, <2>2, <2>3 DEF g
<1>7. CASE S!Full(l) /\ l.size <= two
  <2>1. g = Rebased(l, two) /\ (two > 0 \/ IsBare(l))
    BY <1>1, <1>3, <1>5, <1>7 DEF IsBare
  <2>2. Moved("seperate", l, g) /\ g # Overrun /\ RoomOf(g) = two
    BY <1>5, <1>7, <2>1, RebasedMoves
  <2>3. ~IsBare(l) => HasRoom(g)
    <3>1. Held("seperate", g) /\ g.size = l.size
      BY <2>2 DEF Moved
    <3>2. HasRoom(g) <=> l.size < two
      BY <2>2, <3>1, HeldType
    <3>3. ~IsBare(l) => l.size < two
      BY <1>1, <1>5 DEF IsBare
    <3>4. QED
      BY <3>2, <3>3
  <2>4. QED
    BY <1>4, <2>2, <2>3 DEF g
<1>8. CASE S!Full(l) /\ ~(l.size <= two)
  <2>1. g = Overrun
    BY <1>3, <1>8
  <2>2. IsBare(l)
    BY <1>1, <1>5, <1>8 DEF IsBare
  <2>3. QED
    BY <1>4, <2>1, <2>2 DEF g
<1>9. QED
  BY <1>6, <1>7, <1>8

LEMMA IGrows ==
  ASSUME NEW l, Held("inline", l)
  PROVE  /\ I!Grown(l) # Overrun => Moved("inline", l, I!Grown(l))
         /\ I!Fits(l) => /\ I!Grown(l) # Overrun /\ HasRoom(I!Grown(l))
                         /\ I!Grown(l).front + I!Grown(l).size < RoomOf(I!Grown(l))
         /\ ~IsBare(l) => I!Fits(l)
         /\ ~I!Full(l) => HasRoom(l)
<1> DEFINE g == I!Grown(l)
           two == l.capacity * 2
<1>1. /\ RoomOf(l) \in Nat /\ l.size \in Nat /\ l.front \in Nat /\ l.capacity \in Nat
      /\ l.front + l.size <= RoomOf(l)
      /\ HasRoom(l) <=> l.size < RoomOf(l)
      /\ l.capacity = RoomOf(l)
  BY HeldType
<1>2. I!Full(l) <=> l.size + l.front >= l.capacity
  BY DEF I!Full
<1>3. g = IF I!Full(l) THEN IF l.size <= two /\ two > 0 THEN Rebased(l, two) ELSE Overrun ELSE l
  BY IFunctions DEF I!Grown, I!NewBlock
<1>4. I!Fits(l) <=> g # Overrun /\ HasRoom(g)
  BY IFunctions DEF I!Fits
<1>5. two \in Nat /\ (two = 0 => l.capacity = 0) /\ (l.capacity > 0 => two > l.capacity)
  BY <1>1
<1> HIDE DEF g, two
<1>6. CASE ~I!Full(l)
  <2>1. g = l /\ l.size < l.capacity /\ l.front + l.size < RoomOf(l)
    BY <1>1, <1>2, <1>3, <1>6
  <2>2. Moved("inline", l, g) /\ g # Overrun
    BY <2>1, MovedSelf
  <2>3. HasRoom(l)
    BY <1>1, <2>1
  <2>4. QED
    BY <1>4, <2>1, <2>2, <2>3 DEF g
<1>7. CASE I!Full(l) /\ (l.size <= two /\ two > 0)
  <2>1. g = Rebased(l, two)
    BY <1>3, <1>7
  <2>2. Moved("inline", l, g) /\ g # Overrun /\ RoomOf(g) = two /\ g.front = 0
    BY <1>5, <1>7, <2>1, RebasedMoves
  <2>3. Held("inline", g) /\ g.size = l.size
    BY <2>2 DEF Moved
  <2>4. HasRoom(g) <=> l.size < two
    BY <2>2, <2>3, HeldType
  <2>5. ~IsBare(l) => l.size < two
    BY <1>1, <1>5 DEF IsBare
  <2>6. HasRoom(g) => g.front + g.size < RoomOf(g)
    BY <1>1, <2>2, <2>3, <2>4
  <2>7. QED
    BY <1>4, <1>7, <2>2, <2>4, <2>5, <2>6 DEF g
<1>8. CASE I!Full(l) /\ ~(l.size <= two /\ two > 0)
  <2>1. g = Overrun
    BY <1>3, <1>8
  <2>2. IsBare(l)
    BY <1>1, <1>5, <1>8 DEF IsBare
  <2>3. QED
    BY <1>4, <1>8, <2>1, <2>2 DEF g
<1>9. QED
  BY <1>6, <1>7, <1>8

\* An element is added to a list that has grown if it must.
LEMMA AppendsToGrown ==
  ASSUME NEW k, NEW l, NEW g, Moved(k, l, g), HasRoom(g), NEW v \in Content
  PROVE  /\ /\ Added(k, l, l.size, v, l.front = 0, AppendConstructed(g, v))
            /\ AppendConstructed(g, v) # Overrun
         /\ g.front + g.size < RoomOf(g) =>
              /\ Added(k, l, l.size, v, l.front = 0, Appended(g, v))
              /\ Appended(g, v) # Overrun
<1> DEFINE c == AppendConstructed(g, v)
           m == Appended(g, v)
           r == RoomOf(g)
<1>1. /\ Held(k, g) /\ MayMoveOf(l, g) /\ g.size = l.size /\ g.front \in {0, l.front}
      /\ Contents(g) = Contents(l)
  BY DEF Moved
<1>2. r \in Nat /\ Shaped(g, r) /\ g.size < r
  BY <1>1, HeldType
<1> HIDE DEF r
<1>3. /\ g.front + g.size < r => InPlace(g, r, m)
      /\ m.size = g.size + 1 /\ m.front = g.front
      /\ InPlace(g, r, c)
      /\ c.size = g.size + 1 /\ c.front = 0
      /\ g.front = 0 => /\ Contents(m) = LikeVectors!InsertAt(Contents(g), g.size + 1, v)
                        /\ Contents(c) = LikeVectors!InsertAt(Contents(g), g.size + 1, v)
  BY <1>2, AppendedOf
<1> HIDE DEF c, m
<1>4. l.front = 0 => g.front = 0
  BY <1>1
<1>5. Held(k, c) /\ c # Overrun /\ (IsBare(c) <=> IsBare(g)) /\ c.pointed = g.pointed
  BY <1>1, <1>3, InPlaceHeld DEF r
<1>6. Added(k, l, l.size, v, l.front = 0, c)
  BY <1>1, <1>3, <1>4, <1>5 DEF Added, MayMoveOf
<1>7. ASSUME g.front + g.size < r
      PROVE  Added(k, l, l.size, v, l.front = 0, m) /\ m # Overrun
  <2>1. Held(k, m) /\ m # Overrun /\ (IsBare(m) <=> IsBare(g)) /\ m.pointed = g.pointed
    BY <1>1, <1>3, <1>7, InPlaceHeld DEF r
  <2>2. QED
    BY <1>1, <1>3, <1>4, <2>1 DEF Added, MayMoveOf
<1>8. QED
  BY <1>5, <1>6, <1>7 DEF c, m, r

LEMMA InsertsInGrown ==
  ASSUME NEW k, NEW l, NEW g, Moved(k, l, g), HasRoom(g),
         NEW pos \in 0 .. l.size, NEW v \in Content
  PROVE  /\ Added(k, l, pos, v, pos = 0 \/ l.front = 0, Inserted(g, pos, v))
         /\ Inserted(g, pos, v) # Overrun
<1> DEFINE m == Inserted(g, pos, v)
           r == RoomOf(g)
<1>1. /\ Held(k, g) /\ MayMoveOf(l, g) /\ g.size = l.size /\ g.front \in {0, l.front}
      /\ Contents(g) = Contents(l)
  BY DEF Moved
<1>2. r \in Nat /\ Shaped(g, r) /\ g.size < r /\ pos \in 0 .. g.size
  BY <1>1, HeldType
<1> HIDE DEF r
<1>3. /\ InPlace(g, r, m) /\ m.size = g.size + 1 /\ m.front = 0
      /\ pos = 0 \/ g.front = 0 =>
           Contents(m) = LikeVectors!InsertAt(Contents(g), pos + 1, v)
  BY <1>2, InsertedOf
<1> HIDE DEF m
<1>4. Held(k, m) /\ m # Overrun /\ (IsBare(m) <=> IsBare(g)) /\ m.pointed = g.pointed
  BY <1>1, <1>3, InPlaceHeld DEF r
<1>5. l.front = 0 => g.front = 0
  BY <1>1
<1>6. Added(k, l, pos, v, pos = 0 \/ l.front = 0, m)
  BY <1>1, <1>3, <1>4, <1>5 DEF Added, MayMoveOf
<1>7. QED
  BY <1>4, <1>6 DEF m

\* Adds or Break of Vectors.
Adding(k, l, pos, v, inOrder, m) == IF m = Overrun THEN IsBare(l)
                                                   ELSE Added(k, l, pos, v, inOrder, m)

LEMMA SAdds ==
  ASSUME NEW l, Held("seperate", l), NEW v \in Content
  PROVE  /\ Adding("seperate", l, l.size, v, l.front = 0, S!append(l, v))
         /\ Adding("seperate", l, 0, v, TRUE, S!prepend(l, v))
         /\ \A pos \in 0 .. l.size :
              Adding("seperate", l, pos, v, pos = 0 \/ l.front = 0, S!insert(l, pos, v))
<1> DEFINE g == S!Grown(l)
<1>1. S!append(l, v) = IF S!Fits(l) THEN AppendConstructed(g, v) ELSE Overrun
  BY SFunctions DEF S!append
<1>2. S!prepend(l, v) = IF S!Fits(l) THEN Inserted(g, 0, v) ELSE Overrun
  BY SFunctions DEF S!prepend, Prepended
<1>3. \A pos : S!insert(l, pos, v) = IF S!Fits(l) THEN Inserted(g, pos, v) ELSE Overrun
  BY SFunctions DEF S!insert
<1> HIDE DEF g
<1>4. CASE ~S!Fits(l)
  <2>1. IsBare(l)
    BY <1>4, SGrows
  <2>2. QED
    BY <1>1, <1>2, <1>3, <1>4, <2>1 DEF Adding
<1>5. CASE S!Fits(l)
  <2>1. Moved("seperate", l, g) /\ HasRoom(g)
    BY <1>5, SGrows DEF g
  <2>2. l.size \in Nat /\ 0 \in 0 .. l.size
    BY HeldType
  <2>3. /\ Added("seperate", l, l.size, v, l.front = 0, AppendConstructed(g, v))
        /\ AppendConstructed(g, v) # Overrun
    BY <2>1, AppendsToGrown
  <2>4. /\ Added("seperate", l, 0, v, 0 = 0 \/ l.front = 0, Inserted(g, 0, v))
        /\ Inserted(g, 0, v) # Overrun
    BY <2>1, <2>2, InsertsInGrown
  <2>5. ASSUME NEW pos \in 0 .. l.size
        PROVE  /\ Added("seperate", l, pos, v, pos = 0 \/ l.front = 0, Inserted(g, pos, v))
               /\ Inserted(g, pos, v) # Overrun
    BY <2>1, InsertsInGrown
  <2>6. Added("seperate", l, 0, v, TRUE, Inserted(g, 0, v))
    BY <2>4 DEF Added
  <2>7. QED
    BY <1>1, <1>2, <1>3, <1>5, <2>3, <2>4, <2>5, <2>6 DEF Adding
<1>6. QED
  BY <1>4, <1>5

LEMMA IAdds ==
  ASSUME NEW l, Held("inline", l), NEW v \in Content
  PROVE  /\ Adding("inline", l, l.size, v, l.front = 0, I!append(l, v))
         /\ Adding("inline", l, 0, v, TRUE, I!prepend(l, v))
         /\ \A pos \in 0 .. l.size :
              Adding("inline", l, pos, v, pos = 0 \/ l.front = 0, I!insert(l, pos, v))
<1> DEFINE g == I!Grown(l)
<1>1. I!append(l, v) = IF I!Fits(l) THEN Appended(g, v) ELSE Overrun
  BY IFunctions DEF I!append
<1>2. I!prepend(l, v) = IF I!Fits(l) THEN Inserted(g, 0, v) ELSE Overrun
  BY IFunctions DEF I!prepend, Prepended
<1>3. \A pos : I!insert(l, pos, v) = IF I!Fits(l) THEN Inserted(g, pos, v) ELSE Overrun
  BY IFunctions DEF I!insert
<1> HIDE DEF g
<1>4. CASE ~I!Fits(l)
  <2>1. IsBare(l)
    BY <1>4, IGrows
  <2>2. QED
    BY <1>1, <1>2, <1>3, <1>4, <2>1 DEF Adding
<1>5. CASE I!Fits(l)
  <2>1. Moved("inline", l, g) /\ HasRoom(g) /\ g.front + g.size < RoomOf(g)
    BY <1>5, IGrows DEF g
  <2>2. l.size \in Nat /\ 0 \in 0 .. l.size
    BY HeldType
  <2>3. /\ Added("inline", l, l.size, v, l.front = 0, Appended(g, v))
        /\ Appended(g, v) # Overrun
    BY <2>1, AppendsToGrown
  <2>4. /\ Added("inline", l, 0, v, 0 = 0 \/ l.front = 0, Inserted(g, 0, v))
        /\ Inserted(g, 0, v) # Overrun
    BY <2>1, <2>2, InsertsInGrown
  <2>5. ASSUME NEW pos \in 0 .. l.size
        PROVE  /\ Added("inline", l, pos, v, pos = 0 \/ l.front = 0, Inserted(g, pos, v))
               /\ Inserted(g, pos, v) # Overrun
    BY <2>1, InsertsInGrown
  <2>6. Added("inline", l, 0, v, TRUE, Inserted(g, 0, v))
    BY <2>4 DEF Added
  <2>7. QED
    BY <1>1, <1>2, <1>3, <1>5, <2>3, <2>4, <2>5, <2>6 DEF Adding
<1>6. QED
  BY <1>4, <1>5

-----------------------------------------------------------------------------
(* The calls of the kind the lists are of.                                 *)

KindOK == kind \in {"seperate", "inline"}

LEMMA KindAdds ==
  ASSUME KindOK, NEW l, Held(kind, l), NEW v \in Content
  PROVE  /\ Adding(kind, l, l.size, v, l.front = 0, Of(S!append(l, v), I!append(l, v)))
         /\ Adding(kind, l, 0, v, TRUE, Of(S!prepend(l, v), I!prepend(l, v)))
         /\ \A pos \in 0 .. l.size :
              Adding(kind, l, pos, v, pos = 0 \/ l.front = 0,
                     Of(S!insert(l, pos, v), I!insert(l, pos, v)))
<1>1. CASE kind = "seperate"
  <2>1. Held("seperate", l)
    BY <1>1
  <2>2. QED
    BY <1>1, <2>1, SAdds DEF Of
<1>2. CASE kind = "inline"
  <2>1. Held("inline", l) /\ kind # "seperate"
    BY <1>2
  <2>2. QED
    BY <1>2, <2>1, IAdds DEF Of
<1>3. QED
  BY <1>1, <1>2 DEF KindOK

\* The list may have grown before the position was found wrong.
LEMMA KindThrows ==
  ASSUME KindOK, NEW l, Held(kind, l), NEW m, m = Of(S!insertThrown(l), I!insertThrown(l))
  PROVE  IF m = Overrun THEN IsBare(l) ELSE Moved(kind, l, m)
<1>1. CASE kind = "seperate"
  <2>1. m = S!Grown(l) /\ Held("seperate", l)
    BY <1>1 DEF Of, S!insertThrown
  <2>2. QED
    BY <1>1, <2>1, SGrows
<1>2. CASE kind = "inline"
  <2>1. m = IF I!Full(l) /\ l.capacity = 0 THEN Overrun ELSE l
    BY <1>2, IFunctions DEF Of, I!insertThrown
  <2>2. Moved(kind, l, l) /\ l # Overrun
    BY MovedSelf
  <2>3. l.capacity = 0 => IsBare(l)
    BY DEF IsBare
  <2>4. QED
    BY <2>1, <2>2, <2>3
<1>3. QED
  BY <1>1, <1>2 DEF KindOK

\* What a place in the list holds.
LEMMA PlaceOf ==
  ASSUME NEW k, NEW l, Held(k, l), NEW i \in 0 .. l.size - 1
  PROVE  Place(l, i) \in Content /\ Place(l, i) = Contents(l)[i + 1]
<1> DEFINE s == Contents(l)
<1>1. RoomOf(l) \in Nat /\ Shaped(l, RoomOf(l)) /\ l.size \in Nat /\ l.front \in Nat
  BY HeldType
<1>2. /\ s \in Seq(Content) /\ Len(s) = l.size
      /\ \A j \in 1 .. l.size : s[j] = l.data[l.front + (j - 1)]
  BY <1>1, ContentsOf, Zenon
<1> HIDE DEF s
<1>3. i + 1 \in 1 .. Len(s) /\ l.front + ((i + 1) - 1) = l.front + i
  BY <1>1, <1>2
<1>4. s[i + 1] \in Content /\ s[i + 1] = l.data[l.front + i]
  BY <1>2, <1>3, ElementOfSeq
<1>5. QED
  BY <1>4 DEF Place, s

LEMMA KindAppendsOwn ==
  ASSUME KindOK, NEW l, Held(kind, l), NEW i \in 0 .. l.size - 1,
         NEW m, m = Of(S!appendOwn(l, i), I!appendOwn(l, i)), m # Overrun
  PROVE  Added(kind, l, l.size, Contents(l)[i + 1], l.front = 0, m)
<1> DEFINE v == Place(l, i)
<1>1. v \in Content /\ v = Contents(l)[i + 1]
  BY PlaceOf
<1> HIDE DEF v
<1>2. m = Of(S!append(l, v), I!append(l, v))
  <2>1. S!appendOwn(l, i) = IF S!Full(l) THEN Overrun ELSE S!append(l, v)
    BY SFunctions DEF S!appendOwn, v
  <2>2. I!appendOwn(l, i) = I!append(l, v)
    BY IFunctions DEF I!appendOwn, v
  <2>3. QED
    BY <2>1, <2>2 DEF Of
<1>3. Adding(kind, l, l.size, v, l.front = 0, m)
  BY <1>1, <1>2, KindAdds
<1>4. QED
  BY <1>1, <1>3 DEF Adding

LEMMA KindPrependsOwn ==
  ASSUME KindOK, NEW l, Held(kind, l), NEW i \in 0 .. l.size - 1,
         NEW m, m = Of(S!prependOwn(l, i), I!prependOwn(l, i)), m # Overrun
  PROVE  \E v \in Content : Added(kind, l, 0, v, TRUE, m)
<1>1. RoomOf(l) \in Nat /\ Shaped(l, RoomOf(l)) /\ 0 \in 0 .. l.size
  BY HeldType
<1>2. PICK w \in Content : PrependedOwn(l, i) = Prepended(l, w)
  BY <1>1, PrependedOwnOf
<1>3. ASSUME HasRoom(l)
      PROVE  Added(kind, l, 0, w, TRUE, PrependedOwn(l, i))
  <2>1. Moved(kind, l, l)
    BY MovedSelf
  <2>2. Added(kind, l, 0, w, 0 = 0 \/ l.front = 0, Inserted(l, 0, w))
    BY <1>1, <1>3, <2>1, InsertsInGrown
  <2>3. QED
    BY <1>2, <2>2 DEF Added, Prepended
<1>4. CASE kind = "seperate"
  <2>1. m = PrependedOwn(l, i) /\ HasRoom(l)
    BY <1>4, SFunctions DEF Of, S!prependOwn
  <2>2. QED
    BY <1>3, <2>1
<1>5. CASE kind = "inline" /\ I!Full(l)
  <2>1. m = I!prepend(l, Place(l, i))
    BY <1>5, IFunctions DEF Of, I!prependOwn
  <2>2. Place(l, i) \in Content /\ Held("inline", l)
    BY <1>5, PlaceOf
  <2>3. Adding("inline", l, 0, Place(l, i), TRUE, m)
    BY <2>1, <2>2, IAdds
  <2>4. QED
    BY <1>5, <2>2, <2>3 DEF Adding
<1>6. CASE kind = "inline" /\ ~I!Full(l)
  <2>1. m = PrependedOwn(l, i)
    BY <1>6, IFunctions DEF Of, I!prependOwn
  <2>2. HasRoom(l)
    BY <1>6, IGrows
  <2>3. QED
    BY <1>3, <2>1, <2>2
<1>7. QED
  BY <1>4, <1>5, <1>6 DEF KindOK

LEMMA KindReserves ==
  ASSUME KindOK, NEW l, Held(kind, l), NEW newCap \in Nat,
         NEW m, m = Of(S!reserve(l, newCap), I!reserve(l, newCap))
  PROVE  IF m = Overrun THEN newCap = 0 \/ newCap < l.size ELSE Moved(kind, l, m)
<1>1. l.size \in Nat /\ l.capacity \in Nat
  BY HeldType
<1>2. Moved(kind, l, l) /\ l # Overrun
  BY MovedSelf
<1>3. ASSUME l.size <= newCap, newCap > 0
      PROVE  Moved(kind, l, Rebased(l, newCap)) /\ Rebased(l, newCap) # Overrun
  BY <1>3, RebasedMoves
<1>4. CASE kind = "seperate"
  <2>1. m = IF newCap > l.capacity
            THEN IF l.size <= newCap THEN Rebased(l, newCap) ELSE Overrun
            ELSE l
    BY <1>4, SFunctions DEF Of, S!reserve, S!Reallocated
  <2>2. newCap > l.capacity => newCap > 0
    BY <1>1
  <2>3. l.size <= newCap \/ newCap < l.size
    BY <1>1
  <2>4. QED
    BY <1>2, <1>3, <2>1, <2>2, <2>3
<1>5. CASE kind = "inline"
  <2>1. m = IF l.size <= newCap /\ newCap > 0 THEN Rebased(l, newCap) ELSE Overrun
    BY <1>5, IFunctions DEF Of, I!reserve, I!NewBlock
  <2>2. (l.size <= newCap /\ newCap > 0) \/ newCap < l.size \/ newCap = 0
    BY <1>1
  <2>3. QED
    BY <1>3, <2>1, <2>2
<1>6. QED
  BY <1>4, <1>5 DEF KindOK

\* An array of its own, with what the other list holds.
CopyOf(k, l, m) == /\ Held(k, m) /\ m # Overrun
                   /\ m.front = 0 /\ m.pointed = FALSE
                   /\ Contents(m) = Contents(l)

LEMMA EmptyContents ==
  ASSUME NEW k, NEW l, Held(k, l)
  PROVE  l.size = 0 <=> Contents(l) = << >>
<1>1. Contents(l) \in Seq(Content) /\ Len(Contents(l)) = l.size
  BY HeldType, ContentsOf, Zenon
<1>2. QED
  BY <1>1, EmptySeq

LEMMA MadeOf ==
  ASSUME NEW k, NEW room \in Nat
  PROVE  /\ Held(k, List(room)) /\ List(room) # Overrun
         /\ List(room).front = 0 /\ List(room).pointed = FALSE
         /\ Contents(List(room)) = << >>
         /\ IsBare(List(room)) <=> room = 0
<1> DEFINE m == List(room)
<1>1. Shaped(m, room) /\ m.size = 0 /\ m.front = 0 /\ m.capacity = room /\ m.pointed = FALSE
  BY ListShaped
<1> HIDE DEF m
<1>2. RoomOf(m) = room /\ m # Overrun
  BY <1>1, RoomIs, NotOverrun
<1>3. Held(k, m)
  BY <1>1, <1>2 DEF Held
<1>4. QED
  BY <1>1, <1>2, <1>3, EmptyContents DEF m, IsBare

\* DeepCopied into an array of the right size.
LEMMA CopyMade ==
  ASSUME NEW j, NEW k, NEW l, Held(k, l), NEW dest, dest \in ListIn(l.size),
         dest.pointed = FALSE, j = "inline" => dest.capacity = l.size
  PROVE  CopyOf(j, l, DeepCopied(l, dest))
<1> DEFINE m == DeepCopied(l, dest)
           r == l.size
           q == RoomOf(l)
<1>1. q \in Nat /\ Shaped(l, q) /\ r \in Nat /\ dest \in ListIn(r) /\ l.size <= r
  BY HeldType
<1> HIDE DEF q, r
<1>2. /\ Shaped(m, r) /\ m.front = 0 /\ m.capacity = dest.capacity
      /\ m.pointed = dest.pointed /\ Contents(m) = Contents(l)
  BY <1>1, DeepCopiedOf
<1> HIDE DEF m
<1>3. RoomOf(m) = r /\ m # Overrun
  BY <1>1, <1>2, RoomIs, NotOverrun
<1>4. QED
  BY <1>1, <1>2, <1>3 DEF CopyOf, Held, m, r

LEMMA SCopies ==
  ASSUME NEW l, Held("seperate", l), NEW d, Held("seperate", d)
  PROVE  /\ CopyOf("seperate", l, S!copied(l))
         /\ CopyOf("seperate", l, S!deepCopied(l, d))
         /\ S!selfDeepCopied(l) = IF l.size = 0 THEN S!deepCopied(l, l) ELSE Overrun
         /\ S!selfCopied(l) = List(0) /\ S!Bare = List(0)
<1>1. l.size \in Nat /\ d.capacity \in Nat
  BY HeldType
<1>2. ASSUME NEW c \in Nat
      PROVE  CopyOf("seperate", l, DeepCopied(l, [List(l.size) EXCEPT !.capacity = c]))
  <2> DEFINE e == List(l.size)
             f == [e EXCEPT !.capacity = c]
  <2>1. e \in ListIn(l.size) /\ e.pointed = FALSE
    BY <1>1, ListShaped DEF Shaped
  <2> HIDE DEF e
  <2>2. f \in ListIn(l.size)
    BY <1>1, <2>1, Updated
  <2>3. f.pointed = FALSE
    BY <2>1 DEF ListIn
  <2> HIDE DEF f
  <2>4. CopyOf("seperate", l, DeepCopied(l, f))
    BY <2>2, <2>3, CopyMade
  <2>5. QED
    BY <2>4 DEF e, f
<1>3. S!copied(l) = DeepCopied(l, [List(l.size) EXCEPT !.capacity = 0])
  BY SFunctions DEF S!copied
<1>4. S!deepCopied(l, d) = DeepCopied(l, [List(l.size) EXCEPT !.capacity = d.capacity])
  BY SFunctions DEF S!deepCopied
<1>5. /\ S!selfDeepCopied(l) = IF l.size = 0 THEN S!deepCopied(l, l) ELSE Overrun
      /\ S!selfCopied(l) = List(0) /\ S!Bare = List(0)
  BY SFunctions DEF S!selfDeepCopied, S!selfCopied, S!Bare
<1>6. QED
  BY <1>1, <1>2, <1>3, <1>4, <1>5

\* An empty list asks for a block of no elements, and its copy is written
\* past it.
LEMMA ICopies ==
  ASSUME NEW l, Held("inline", l), NEW d, Held("inline", d)
  PROVE  /\ IF l.size = 0 THEN I!deepCopied(l, d) = Overrun
                          ELSE CopyOf("inline", l, I!deepCopied(l, d))
         /\ I!selfDeepCopied(l) = Overrun
<1> DEFINE c == Cleared(d)
           r == l.size
<1>1. r \in Nat /\ RoomOf(d) \in Nat /\ Shaped(d, RoomOf(d))
  BY HeldType
<1>2. Shaped(c, RoomOf(d)) /\ c.size = 0
  BY <1>1, ClearedOf DEF InPlace
<1>3. I!reserve(c, r) = IF c.size <= r /\ r > 0 THEN Rebased(c, r) ELSE Overrun
  BY IFunctions DEF I!reserve, I!NewBlock
<1>4. I!deepCopied(l, d) = IF I!reserve(c, r) = Overrun THEN Overrun
                           ELSE DeepCopied(l, I!reserve(c, r))
  BY IFunctions DEF I!deepCopied
<1>5. I!selfDeepCopied(l) = Overrun
  BY IFunctions DEF I!selfDeepCopied, I!reserve, I!NewBlock
<1> HIDE DEF c
<1>6. CASE r = 0
  BY <1>3, <1>4, <1>5, <1>6
<1>7. CASE r # 0
  <2> DEFINE e == Rebased(c, r)
  <2>1. Remade(c, r, e)
    BY <1>1, <1>2, RebasedOf
  <2> HIDE DEF e
  <2>2. Shaped(e, r) /\ e.capacity = r /\ e.pointed = FALSE
    BY <2>1 DEF Remade
  <2>3. e # Overrun /\ e \in ListIn(r)
    BY <2>2, NotOverrun DEF Shaped
  <2>4. I!reserve(c, r) = e
    BY <1>1, <1>2, <1>3, <1>7 DEF e
  <2>5. I!deepCopied(l, d) = DeepCopied(l, e)
    BY <1>4, <2>3, <2>4
  <2>6. CopyOf("inline", l, DeepCopied(l, e))
    BY <2>2, <2>3, CopyMade
  <2>7. QED
    BY <1>5, <1>7, <2>5, <2>6
<1>8. QED
  BY <1>6, <1>7

LEMMA KindCopies ==
  ASSUME KindOK, NEW l, Held(kind, l), NEW d, Held(kind, d),
         NEW m, m = Of(S!deepCopied(l, d), I!deepCopied(l, d))
  PROVE  IF m = Overrun THEN Contents(l) = << >> ELSE CopyOf(kind, l, m)
<1>1. CASE kind = "seperate"
  <2>1. CopyOf("seperate", l, m)
    BY <1>1, SCopies DEF Of
  <2>2. QED
    BY <1>1, <2>1 DEF CopyOf
<1>2. CASE kind = "inline"
  <2>1. Held("inline", l) /\ Held("inline", d) /\ m = I!deepCopied(l, d)
    BY <1>2 DEF Of
  <2>2. IF l.size = 0 THEN m = Overrun ELSE CopyOf("inline", l, m)
    BY <2>1, ICopies
  <2>3. QED
    BY <1>2, <2>1, <2>2, EmptyContents DEF CopyOf
<1>3. QED
  BY <1>1, <1>2 DEF KindOK

LEMMA KindCopiesSelf ==
  ASSUME KindOK, NEW l, Held(kind, l),
         NEW m, m = Of(S!selfDeepCopied(l), I!selfDeepCopied(l)), m # Overrun
  PROVE  CopyOf(kind, l, m) /\ Contents(l) = << >>
<1>1. CASE kind = "seperate"
  <2>1. l.size = 0 /\ m = S!deepCopied(l, l) /\ Held("seperate", l)
    BY <1>1, SCopies DEF Of
  <2>2. QED
    BY <1>1, <2>1, SCopies, EmptyContents
<1>2. CASE kind = "inline"
  BY <1>2, ICopies DEF Of
<1>3. QED
  BY <1>1, <1>2 DEF KindOK

\* The elements are then looked for at the start of the old array.
LEMMA Externally ==
  ASSUME NEW l, Held("seperate", l), NEW newCap \in Nat,
         NEW m, m = S!externalReallocated(l, newCap)
  PROVE  /\ Held("seperate", m) /\ m # Overrun
         /\ m.size = l.size /\ m.front \in {0, l.front} /\ m.pointed = l.pointed
         /\ m.front = l.front => Contents(m) = Contents(l)
<1>1. m = IF newCap >= l.size THEN [l EXCEPT !.capacity = newCap, !.front = 0] ELSE l
  BY DEF S!externalReallocated
<1>2. CASE m = l
  BY <1>2, MovedSelf DEF Moved
<1>3. CASE m = [l EXCEPT !.capacity = newCap, !.front = 0]
  <2> DEFINE r == RoomOf(l)
             e == [l EXCEPT !.capacity = newCap]
  <2>1. /\ r \in Nat /\ l \in ListIn(r) /\ Shaped(l, r)
        /\ l.size \in Nat /\ l.front \in Nat /\ l.front + l.size <= r
    BY HeldType
  <2> HIDE DEF r
  <2>2. e \in ListIn(r) /\ m = [e EXCEPT !.front = 0]
    BY <1>3, <2>1, Updated
  <2> HIDE DEF e
  <2>3. m \in ListIn(r)
    BY <2>1, <2>2, Updated
  <2>4. m.size = l.size /\ m.front = 0 /\ m.pointed = l.pointed /\ m.data = l.data
    BY <1>3, <2>1 DEF ListIn
  <2>5. Shaped(m, r)
    BY <2>1, <2>3, <2>4 DEF Shaped
  <2>6. RoomOf(m) = r /\ m # Overrun
    BY <2>1, <2>5, RoomIs, NotOverrun
  <2>7. m.front = l.front => Contents(m) = Contents(l)
    BY <2>1, <2>4, <2>5, SameContents
  <2>8. QED
    BY <2>1, <2>4, <2>5, <2>6, <2>7 DEF Held
<1>4. QED
  BY <1>1, <1>2, <1>3

-----------------------------------------------------------------------------
(* One list is replaced.                                                   *)

Items == [n \in Name |-> Contents(list[n])]
Shifted == {n \in Name : list[n].front > 0}
PointedTo == {n \in Name : list[n].pointed}

LEMMA Unfolded ==
  ASSUME IInv, NEW n \in Name
  PROVE  /\ KindOK /\ Held(kind, list[n])
         /\ Items[n] = Contents(list[n])
         /\ Len(Items[n]) = list[n].size
         /\ n \in Shifted <=> list[n].front > 0
         /\ n \in BareLists <=> IsBare(list[n])
         /\ n \in PointedTo <=> list[n].pointed
         /\ list[n].size \in Nat /\ list[n].front \in Nat
<1>1. KindOK /\ Held(kind, list[n])
  BY DEF IInv, KindOK
<1>2. Len(Contents(list[n])) = list[n].size /\ list[n].size \in Nat /\ list[n].front \in Nat
  BY <1>1, HeldType, ContentsOf, Zenon
<1>3. /\ Items[n] = Contents(list[n])
      /\ n \in Shifted <=> list[n].front > 0
      /\ n \in PointedTo <=> list[n].pointed
  BY DEF Items, Shifted, PointedTo
<1>4. n \in BareLists <=> IsBare(list[n])
  BY DEF BareLists, IsBare, RoomOf
<1>5. QED
  BY <1>1, <1>2, <1>3, <1>4

Put(n, m) == Sound /\ list' = [list EXCEPT ![n] = m]

\* What follows from that for the state that Vectors speaks of.
PutDone(n, m) ==
  /\ Items' = [Items EXCEPT ![n] = Contents(m)]
  /\ Shifted' = IF m.front > 0 THEN Shifted \cup {n} ELSE Shifted \ {n}
  /\ BareLists' = IF IsBare(m) THEN BareLists \cup {n} ELSE BareLists \ {n}
  /\ PointedTo' = IF m.pointed THEN PointedTo \cup {n} ELSE PointedTo \ {n}

LEMMA PutOf ==
  ASSUME IInv, UNCHANGED kind, NEW n \in Name, NEW m, Held(kind, m), Put(n, m)
  PROVE  IInv' /\ PutDone(n, m)
<1>1. /\ list = [x \in Name |-> list[x]]
      /\ kind \in {"seperate", "inline"}
      /\ \A x \in Name : Held(kind, list[x])
  BY DEF IInv
<1>2. list' = [list EXCEPT ![n] = m] /\ broken' = FALSE
  BY DEF Put, Sound
<1>3. /\ list'[n] = m
      /\ \A x \in Name \ {n} : list'[x] = list[x]
      /\ list' = [x \in Name |-> list'[x]]
  BY <1>1, <1>2
<1>4. IInv'
  BY <1>1, <1>2, <1>3 DEF IInv
<1>5. Items' = [Items EXCEPT ![n] = Contents(m)]
  <2>1. \A x \in Name : Items'[x] = IF x = n THEN Contents(m) ELSE Items[x]
    BY <1>3 DEF Items
  <2>2. Items' = [x \in Name |-> Items'[x]] /\ Items = [x \in Name |-> Items[x]]
    BY DEF Items
  <2>3. QED
    BY <2>1, <2>2
<1>6. Shifted' = IF m.front > 0 THEN Shifted \cup {n} ELSE Shifted \ {n}
  BY <1>3 DEF Shifted
<1>7. PointedTo' = IF m.pointed THEN PointedTo \cup {n} ELSE PointedTo \ {n}
  BY <1>3 DEF PointedTo
<1>8. BareLists' = IF IsBare(m) THEN BareLists \cup {n} ELSE BareLists \ {n}
  BY <1>3 DEF BareLists, IsBare, RoomOf
<1>9. QED
  BY <1>4, <1>5, <1>6, <1>7, <1>8 DEF PutDone

LEMMA BreakOf ==
  ASSUME IInv, UNCHANGED kind, Break
  PROVE  IInv' /\ LikeVectors!Break
<1>1. BaseAllocation \in Nat
  BY ListsAssumption
<1>2. Held(kind, List(BaseAllocation))
  BY <1>1, MadeOf
<1>3. list' = [n \in Name |-> List(BaseAllocation)] /\ broken' = TRUE
  BY DEF Break, Fresh
<1>4. QED
  BY <1>2, <1>3 DEF IInv, LikeVectors!Break

\* A call's result, or a break.
LEMMA BecomesOf ==
  ASSUME NEW n, NEW m, Becomes(n, m)
  PROVE  IF m = Overrun THEN Break ELSE Put(n, m)
BY DEF Becomes, Put

LEMMA InitOf ==
  ASSUME Init
  PROVE  IInv /\ LikeVectors!Init
<1>1. BaseAllocation \in Nat /\ BaseAllocation # 0
  BY ListsAssumption
<1>2. /\ Held(kind, List(BaseAllocation))
      /\ List(BaseAllocation).front = 0 /\ List(BaseAllocation).pointed = FALSE
      /\ Contents(List(BaseAllocation)) = << >>
      /\ ~IsBare(List(BaseAllocation))
  BY <1>1, MadeOf
<1>3. list = [n \in Name |-> List(BaseAllocation)]
  BY DEF Init, Fresh
<1>4. IInv
  BY <1>2, <1>3 DEF Init, IInv
<1>5. Items \in [Name -> {<< >>}] /\ Shifted = {} /\ PointedTo = {}
  BY <1>2, <1>3 DEF Items, Shifted, PointedTo
<1>6. BareLists = {}
  BY <1>2, <1>3 DEF BareLists, IsBare, RoomOf
<1>7. LikeVectors!Init
  BY <1>5, <1>6 DEF Init, LikeVectors!Init, Items, Shifted, PointedTo
<1>8. QED
  BY <1>4, <1>7

\* The parts of the actions of Vectors.
LEMMA VectorsParts ==
  /\ LikeVectors!Sound <=> ~broken /\ ~broken'
  /\ \A n, e : LikeVectors!Becomes(n, e) <=> Items' = [Items EXCEPT ![n] = e]
  /\ \A n, size : LikeVectors!Resized(n, size) <=>
       Len(Items'[n]) = size /\ \A m \in Name \ {n} : Items'[m] = Items[m]
  /\ \A n : LikeVectors!MayMove(n) <=>
       /\ Shifted' \in {Shifted, Shifted \ {n}}
       /\ BareLists' \in {BareLists, BareLists \ {n}}
       /\ PointedTo' \in {PointedTo, PointedTo \ {n}}
  /\ LikeVectors!Stays <=> BareLists' = BareLists /\ PointedTo' = PointedTo
  /\ LikeVectors!Looks <=> /\ ~broken /\ ~broken' /\ Items' = Items /\ Shifted' = Shifted
                           /\ BareLists' = BareLists /\ PointedTo' = PointedTo
BY DEF LikeVectors!Sound, LikeVectors!Becomes, LikeVectors!Resized, LikeVectors!MayMove,
       LikeVectors!Stays, LikeVectors!Looks, Items, Shifted, PointedTo

-----------------------------------------------------------------------------
(* Every call is a step of Vectors.                                        *)

\* From a list to a state of all lists.
LEMMA MayMoveStep ==
  ASSUME IInv, NEW n \in Name, NEW m, PutDone(n, m), MayMoveOf(list[n], m)
  PROVE  LikeVectors!MayMove(n)
<1>1. /\ n \in Shifted <=> list[n].front > 0
      /\ n \in BareLists <=> IsBare(list[n])
      /\ n \in PointedTo <=> list[n].pointed
  BY Unfolded
<1>2. /\ m.front > 0 => n \in Shifted
      /\ IsBare(m) => n \in BareLists
      /\ m.pointed => n \in PointedTo
  BY <1>1 DEF MayMoveOf
<1>3. Shifted' \in {Shifted, Shifted \ {n}}
  BY <1>2 DEF PutDone
<1>4. BareLists' \in {BareLists, BareLists \ {n}}
  BY <1>2 DEF PutDone
<1>5. PointedTo' \in {PointedTo, PointedTo \ {n}}
  BY <1>2 DEF PutDone
<1>6. QED
  BY <1>3, <1>4, <1>5, VectorsParts

LEMMA ItemsPut ==
  ASSUME NEW n \in Name, NEW m, PutDone(n, m)
  PROVE  /\ Items'[n] = Contents(m)
         /\ \A x \in Name \ {n} : Items'[x] = Items[x]
<1>1. Items' = [Items EXCEPT ![n] = Contents(m)] /\ DOMAIN Items = Name
  BY DEF PutDone, Items
<1>2. QED
  BY <1>1

LEMMA AddsStep ==
  ASSUME IInv, UNCHANGED kind, NEW n \in Name, NEW m, Becomes(n, m),
         NEW pos, NEW v, NEW inOrder,
         Adding(kind, list[n], pos, v, inOrder, m)
  PROVE  IInv' /\ LikeVectors!Adds(n, pos, v, inOrder)
<1>1. /\ KindOK /\ Items[n] = Contents(list[n]) /\ Len(Items[n]) = list[n].size
      /\ n \in BareLists <=> IsBare(list[n])
  BY Unfolded
<1>2. CASE m = Overrun
  <2>1. Break /\ n \in BareLists
    BY <1>1, <1>2, BecomesOf DEF Adding
  <2>2. IInv' /\ LikeVectors!Break
    BY <2>1, BreakOf
  <2>3. QED
    BY <2>1, <2>2 DEF LikeVectors!Adds
<1>3. CASE m # Overrun
  <2>1. Put(n, m) /\ Added(kind, list[n], pos, v, inOrder, m)
    BY <1>3, BecomesOf DEF Adding
  <2>2. Held(kind, m) /\ MayMoveOf(list[n], m) /\ m.size = list[n].size + 1
    BY <2>1 DEF Added
  <2>3. IInv' /\ PutDone(n, m)
    BY <2>1, <2>2, PutOf
  <2>4. LikeVectors!MayMove(n)
    BY <2>2, <2>3, MayMoveStep
  <2>5. LikeVectors!Sound
    BY <2>1, VectorsParts DEF Put, Sound
  <2>6. Len(Contents(m)) = m.size
    BY <2>2, HeldType, ContentsOf, Zenon
  <2>7. LikeVectors!Resized(n, Len(Items[n]) + 1)
    BY <1>1, <2>2, <2>3, <2>6, ItemsPut, VectorsParts
  <2>8. CASE Contents(m) = LikeVectors!InsertAt(Contents(list[n]), pos + 1, v)
    <3>1. LikeVectors!Becomes(n, LikeVectors!InsertAt(Items[n], pos + 1, v))
      BY <1>1, <2>3, <2>8, VectorsParts DEF PutDone
    <3>2. QED
      BY <2>3, <2>4, <2>5, <3>1 DEF LikeVectors!Adds, Items
  <2>9. CASE ~inOrder
    BY <2>3, <2>4, <2>5, <2>7, <2>9 DEF LikeVectors!Adds, Items
  <2>10. QED
    BY <2>1, <2>8, <2>9 DEF Added
<1>4. QED
  BY <1>2, <1>3

LEMMA AppendStep ==
  ASSUME IInv, UNCHANGED kind, NEW n \in Name, NEW v \in Value, AppendValue(n, v)
  PROVE  IInv' /\ LikeVectors!AppendValue(n, v)
<1> DEFINE l == list[n]
           m == Of(S!append(l, v), I!append(l, v))
<1>1. KindOK /\ Held(kind, l) /\ v \in Content
  BY Unfolded DEF Content
<1>2. Adding(kind, l, l.size, v, l.front = 0, m)
  BY <1>1, KindAdds
<1>3. Becomes(n, m) /\ call' = <<"append", n, v>>
  BY DEF AppendValue
<1> HIDE DEF m
<1>4. IInv' /\ LikeVectors!Adds(n, l.size, v, l.front = 0)
  BY <1>2, <1>3, AddsStep
<1>5. l.size = Len(Items[n]) /\ ((l.front = 0) = (n \notin Shifted))
  BY Unfolded
<1>6. LikeVectors!Adds(n, Len(Items[n]), v, n \notin Shifted)
  BY <1>4, <1>5
<1>7. QED
  BY <1>3, <1>4, <1>6 DEF LikeVectors!AppendValue, Items, Shifted

LEMMA PrependStep ==
  ASSUME IInv, UNCHANGED kind, NEW n \in Name, NEW v \in Value, PrependValue(n, v)
  PROVE  IInv' /\ LikeVectors!PrependValue(n, v)
<1> DEFINE l == list[n]
           m == Of(S!prepend(l, v), I!prepend(l, v))
<1>1. KindOK /\ Held(kind, l) /\ v \in Content
  BY Unfolded DEF Content
<1>2. Adding(kind, l, 0, v, TRUE, m)
  BY <1>1, KindAdds
<1>3. Becomes(n, m) /\ call' = <<"prepend", n, v>>
  BY DEF PrependValue
<1> HIDE DEF m
<1>4. IInv' /\ LikeVectors!Adds(n, 0, v, TRUE)
  BY <1>2, <1>3, AddsStep
<1>5. QED
  BY <1>3, <1>4 DEF LikeVectors!PrependValue

LEMMA InsertStep ==
  ASSUME IInv, UNCHANGED kind, NEW n \in Name, NEW pos \in 0 .. list[n].size, NEW v \in Value,
         InsertValue(n, pos, v)
  PROVE  IInv' /\ LikeVectors!InsertValue(n, pos, v)
<1> DEFINE l == list[n]
           m == Of(S!insert(l, pos, v), I!insert(l, pos, v))
<1>1. KindOK /\ Held(kind, l) /\ v \in Content
  BY Unfolded DEF Content
<1>2. Adding(kind, l, pos, v, pos = 0 \/ l.front = 0, m)
  BY <1>1, KindAdds
<1>3. Becomes(n, m) /\ call' = <<"insert", n, pos, v>>
  BY DEF InsertValue
<1> HIDE DEF m
<1>4. IInv' /\ LikeVectors!Adds(n, pos, v, pos = 0 \/ l.front = 0)
  BY <1>2, <1>3, AddsStep
<1>5. (pos = 0 \/ l.front = 0) = (pos = 0 \/ n \notin Shifted)
  BY Unfolded
<1>6. LikeVectors!Adds(n, pos, v, pos = 0 \/ n \notin Shifted)
  BY <1>4, <1>5
<1>7. QED
  BY <1>3, <1>4, <1>6 DEF LikeVectors!InsertValue, Shifted

LEMMA MovedStep ==
  ASSUME IInv, UNCHANGED kind, NEW n \in Name, NEW m, Put(n, m), Moved(kind, list[n], m)
  PROVE  IInv' /\ LikeVectors!Sound /\ Items' = Items /\ LikeVectors!MayMove(n)
<1>1. Held(kind, m) /\ MayMoveOf(list[n], m) /\ Contents(m) = Contents(list[n])
  BY DEF Moved
<1>2. IInv' /\ PutDone(n, m)
  BY <1>1, PutOf
<1>3. LikeVectors!Sound /\ LikeVectors!MayMove(n)
  BY <1>1, <1>2, MayMoveStep, VectorsParts DEF Put, Sound
<1>4. Items' = [Items EXCEPT ![n] = Items[n]]
  BY <1>1, <1>2, Unfolded DEF PutDone
<1>5. Items' = Items
  BY <1>4 DEF Items
<1>6. QED
  BY <1>2, <1>3, <1>5

LEMMA InsertThrowsStep ==
  ASSUME IInv, UNCHANGED kind, NEW n \in Name, InsertThrows(n)
  PROVE  IInv' /\ LikeVectors!InsertThrows(n)
<1> DEFINE l == list[n]
           m == Of(S!insertThrown(l), I!insertThrown(l))
<1>1. KindOK /\ Held(kind, l) /\ (n \in BareLists <=> IsBare(l))
  BY Unfolded
<1>2. IF m = Overrun THEN IsBare(l) ELSE Moved(kind, l, m)
  BY <1>1, KindThrows
<1>3. Becomes(n, m) /\ call' = <<"insert", n, OutOfRange>>
  BY DEF InsertThrows
<1> HIDE DEF m
<1>4. CASE m = Overrun
  <2>1. IInv' /\ LikeVectors!Break /\ n \in BareLists
    BY <1>1, <1>2, <1>3, <1>4, BecomesOf, BreakOf
  <2>2. QED
    BY <1>3, <2>1 DEF LikeVectors!InsertThrows
<1>5. CASE m # Overrun
  <2>1. IInv' /\ LikeVectors!Sound /\ Items' = Items /\ LikeVectors!MayMove(n)
    BY <1>2, <1>3, <1>5, BecomesOf, MovedStep
  <2>2. QED
    BY <1>3, <2>1 DEF LikeVectors!InsertThrows, Items
<1>6. QED
  BY <1>4, <1>5

LEMMA AppendOwnStep ==
  ASSUME IInv, UNCHANGED kind, NEW n \in Name, NEW i \in Positions(n), AppendOwn(n, i)
  PROVE  IInv' /\ LikeVectors!AppendOwn(n, i)
<1> DEFINE l == list[n]
           m == Of(S!appendOwn(l, i), I!appendOwn(l, i))
           v == Items[n][i + 1]
<1>1. /\ KindOK /\ Held(kind, l) /\ i \in 0 .. l.size - 1
      /\ v = Contents(l)[i + 1]
      /\ l.size = Len(Items[n]) /\ ((l.front = 0) = (n \notin Shifted))
  BY Unfolded DEF Positions
<1>2. Becomes(n, m) /\ call' = <<"appendOwn", n, i>>
  BY DEF AppendOwn
<1>3. m # Overrun => Added(kind, l, l.size, v, l.front = 0, m)
  BY <1>1, KindAppendsOwn
<1> HIDE DEF m, v
<1>4. CASE m = Overrun
  <2>1. IInv' /\ LikeVectors!Break
    BY <1>2, <1>4, BecomesOf, BreakOf
  <2>2. QED
    BY <1>2, <2>1 DEF LikeVectors!AppendOwn
<1>5. CASE m # Overrun
  <2>1. Adding(kind, l, l.size, v, l.front = 0, m)
    BY <1>3, <1>5 DEF Adding
  <2>2. IInv' /\ LikeVectors!Adds(n, l.size, v, l.front = 0)
    BY <1>2, <2>1, AddsStep
  <2>3. LikeVectors!Adds(n, Len(Items[n]), v, n \notin Shifted)
    BY <1>1, <2>2
  <2>4. QED
    BY <1>2, <2>2, <2>3 DEF LikeVectors!AppendOwn, Items, Shifted, v
<1>6. QED
  BY <1>4, <1>5

LEMMA TailInserted ==
  ASSUME NEW s \in Seq(Content), NEW v \in Content
  PROVE  Tail(LikeVectors!InsertAt(s, 1, v)) = s
<1> DEFINE u == LikeVectors!InsertAt(s, 1, v)
<1>1. Len(s) \in Nat
  BY LenProperties
<1>2. /\ u \in Seq(Content) /\ Len(u) = Len(s) + 1
      /\ \A j \in 1 .. Len(s) + 1 : u[j] = IF j < 1 THEN s[j] ELSE IF j = 1 THEN v ELSE s[j - 1]
  <2>1. 1 \in 1 .. Len(s) + 1
    BY <1>1
  <2>2. QED
    BY <2>1, InsertAtOf
<1> HIDE DEF u
<1>3. /\ Tail(u) \in Seq(Content) /\ Len(Tail(u)) = Len(s)
      /\ \A k \in 1 .. Len(s) : Tail(u)[k] = u[k + 1]
  <2>1. u # << >>
    BY <1>1, <1>2
  <2>2. QED
    BY <1>1, <1>2, <2>1, HeadTailProperties
<1>4. ASSUME NEW k \in 1 .. Len(s)
      PROVE  Tail(u)[k] = s[k]
  <2>1. k + 1 \in 1 .. Len(s) + 1 /\ ~(k + 1 < 1) /\ k + 1 # 1 /\ (k + 1) - 1 = k
    BY <1>1
  <2>2. QED
    BY <1>2, <1>3, <2>1
<1>5. QED
  BY <1>3, <1>4, SeqEqual DEF u

LEMMA PrependOwnStep ==
  ASSUME IInv, UNCHANGED kind, NEW n \in Name, NEW i \in Positions(n), PrependOwn(n, i)
  PROVE  IInv' /\ LikeVectors!PrependOwn(n, i)
<1> DEFINE l == list[n]
           m == Of(S!prependOwn(l, i), I!prependOwn(l, i))
<1>1. /\ KindOK /\ Held(kind, l) /\ i \in 0 .. l.size - 1
      /\ Items[n] = Contents(l) /\ l.size = Len(Items[n])
  BY Unfolded DEF Positions
<1>2. Becomes(n, m) /\ call' = <<"prependOwn", n, i>>
  BY DEF PrependOwn
<1>3. m # Overrun => \E v \in Content : Added(kind, l, 0, v, TRUE, m)
  BY <1>1, KindPrependsOwn
<1> HIDE DEF m
<1>4. CASE m = Overrun
  <2>1. IInv' /\ LikeVectors!Break
    BY <1>2, <1>4, BecomesOf, BreakOf
  <2>2. QED
    BY <1>2, <2>1 DEF LikeVectors!PrependOwn
<1>5. CASE m # Overrun
  <2>1. PICK v \in Content : Added(kind, l, 0, v, TRUE, m)
    BY <1>3, <1>5
  <2>2. /\ Held(kind, m) /\ MayMoveOf(l, m) /\ m.size = l.size + 1
        /\ Contents(m) = LikeVectors!InsertAt(Contents(l), 0 + 1, v)
    BY <2>1 DEF Added
  <2>3. Put(n, m)
    BY <1>2, <1>5, BecomesOf
  <2>4. IInv' /\ PutDone(n, m)
    BY <2>2, <2>3, PutOf
  <2>5. LikeVectors!Sound /\ LikeVectors!MayMove(n)
    BY <2>2, <2>3, <2>4, MayMoveStep, VectorsParts DEF Put, Sound
  <2>6. Len(Contents(m)) = m.size /\ Contents(l) \in Seq(Content)
    BY <1>1, <2>2, HeldType, ContentsOf, Zenon
  <2>7. LikeVectors!Resized(n, Len(Items[n]) + 1)
    BY <1>1, <2>2, <2>4, <2>6, ItemsPut, VectorsParts
  <2>8. Tail(Items'[n]) = Items[n]
    <3>1. 0 + 1 = 1
      OBVIOUS
    <3>2. Items'[n] = LikeVectors!InsertAt(Contents(l), 1, v)
      BY <2>2, <2>4, <3>1, ItemsPut
    <3>3. QED
      BY <1>1, <2>6, <3>2, TailInserted
  <2>9. QED
    BY <1>2, <2>4, <2>5, <2>7, <2>8 DEF LikeVectors!PrependOwn, Items
<1>6. QED
  BY <1>4, <1>5

LEMMA InPlaceStep ==
  ASSUME IInv, UNCHANGED kind, NEW n \in Name, NEW m, Becomes(n, m),
         InPlace(list[n], RoomOf(list[n]), m)
  PROVE  IInv' /\ PutDone(n, m) /\ LikeVectors!Sound /\ LikeVectors!Stays
<1>1. /\ Held(kind, list[n])
      /\ n \in BareLists <=> IsBare(list[n])
      /\ n \in PointedTo <=> list[n].pointed
  BY Unfolded
<1>2. /\ Held(kind, m) /\ m # Overrun
      /\ IsBare(m) <=> IsBare(list[n])
      /\ m.pointed = list[n].pointed
  BY <1>1, InPlaceHeld
<1>3. Put(n, m)
  BY <1>2, BecomesOf
<1>4. IInv' /\ PutDone(n, m)
  BY <1>2, <1>3, PutOf
<1>5. BareLists' = BareLists
  BY <1>1, <1>2, <1>4 DEF PutDone
<1>6. PointedTo' = PointedTo
  BY <1>1, <1>2, <1>4 DEF PutDone
<1>7. QED
  BY <1>3, <1>4, <1>5, <1>6, VectorsParts DEF Put, Sound

LEMMA RemovePosStep ==
  ASSUME IInv, UNCHANGED kind, NEW n \in Name, NEW pos \in Positions(n), RemovePos(n, pos)
  PROVE  IInv' /\ LikeVectors!RemovePos(n, pos)
<1> DEFINE l == list[n]
           m == Removed(l, pos)
           r == RoomOf(l)
<1>1. /\ Held(kind, l) /\ pos \in 0 .. l.size - 1 /\ Items[n] = Contents(l)
      /\ n \in Shifted <=> l.front > 0
  BY Unfolded DEF Positions
<1>2. r \in Nat /\ Shaped(l, r)
  BY <1>1, HeldType
<1>3. Becomes(n, m) /\ call' = <<"remove", n, pos>>
  BY DEF RemovePos
<1>4. /\ InPlace(l, r, m) /\ m.front = l.front
      /\ Contents(m) = LikeVectors!RemoveAt(Contents(l), pos + 1)
  BY <1>1, <1>2, RemovedOf
<1> HIDE DEF m
<1>5. IInv' /\ PutDone(n, m) /\ LikeVectors!Sound /\ LikeVectors!Stays
  BY <1>3, <1>4, InPlaceStep
<1>6. LikeVectors!Becomes(n, LikeVectors!RemoveAt(Items[n], pos + 1))
  BY <1>1, <1>4, <1>5, VectorsParts DEF PutDone
<1>7. Shifted' = Shifted
  BY <1>1, <1>4, <1>5 DEF PutDone
<1>8. QED
  BY <1>3, <1>5, <1>6, <1>7 DEF LikeVectors!RemovePos, Items, Shifted

LEMMA RemoveBackStep ==
  ASSUME IInv, UNCHANGED kind, NEW n \in Name, RemoveBack(n)
  PROVE  IInv' /\ LikeVectors!RemoveBack(n)
<1> DEFINE l == list[n]
           m == RemovedBack(l)
           r == RoomOf(l)
<1>1. /\ Held(kind, l) /\ Items[n] = Contents(l)
      /\ n \in Shifted <=> l.front > 0
  BY Unfolded
<1>2. r \in Nat /\ Shaped(l, r)
  BY <1>1, HeldType
<1>3. Becomes(n, m) /\ call' = <<"removeBack", n>> /\ l.size > 0
  BY DEF RemoveBack
<1>4. /\ InPlace(l, r, m) /\ m.front = l.front
      /\ Contents(m) = LikeVectors!Front(Contents(l))
  BY <1>2, <1>3, RemovedBackOf
<1> HIDE DEF m
<1>5. IInv' /\ PutDone(n, m) /\ LikeVectors!Sound /\ LikeVectors!Stays
  BY <1>3, <1>4, InPlaceStep
<1>6. LikeVectors!Becomes(n, LikeVectors!Front(Items[n]))
  BY <1>1, <1>4, <1>5, VectorsParts DEF PutDone
<1>7. Shifted' = Shifted
  BY <1>1, <1>4, <1>5 DEF PutDone
<1>8. QED
  BY <1>3, <1>5, <1>6, <1>7 DEF LikeVectors!RemoveBack, Items, Shifted

LEMMA RemoveFrontStep ==
  ASSUME IInv, UNCHANGED kind, NEW n \in Name, RemoveFront(n)
  PROVE  IInv' /\ LikeVectors!RemoveFront(n)
<1> DEFINE l == list[n]
           m == RemovedFront(l)
           r == RoomOf(l)
<1>1. Held(kind, l) /\ Items[n] = Contents(l) /\ l.front \in Nat
  BY Unfolded
<1>2. r \in Nat /\ Shaped(l, r)
  BY <1>1, HeldType
<1>3. Becomes(n, m) /\ call' = <<"removeFront", n>> /\ l.size > 0
  BY DEF RemoveFront
<1>4. /\ InPlace(l, r, m) /\ m.front = l.front + 1
      /\ Contents(m) = Tail(Contents(l))
  BY <1>2, <1>3, RemovedFrontOf
<1> HIDE DEF m
<1>5. IInv' /\ PutDone(n, m) /\ LikeVectors!Sound /\ LikeVectors!Stays
  BY <1>3, <1>4, InPlaceStep
<1>6. LikeVectors!Becomes(n, Tail(Items[n]))
  BY <1>1, <1>4, <1>5, VectorsParts DEF PutDone
<1>7. Shifted' = Shifted \cup {n}
  BY <1>1, <1>4, <1>5 DEF PutDone
<1>8. QED
  BY <1>3, <1>5, <1>6, <1>7 DEF LikeVectors!RemoveFront, Items, Shifted

LEMMA ClearStep ==
  ASSUME IInv, UNCHANGED kind, NEW n \in Name, Clear(n)
  PROVE  IInv' /\ LikeVectors!Clear(n)
<1> DEFINE l == list[n]
           m == Cleared(l)
           r == RoomOf(l)
<1>1. Held(kind, l)
  BY Unfolded
<1>2. r \in Nat /\ Shaped(l, r)
  BY <1>1, HeldType
<1>3. Becomes(n, m) /\ call' = <<"clear", n>>
  BY DEF Clear
<1>4. InPlace(l, r, m) /\ m.front = 0 /\ Contents(m) = << >>
  BY <1>2, ClearedOf
<1> HIDE DEF m
<1>5. IInv' /\ PutDone(n, m) /\ LikeVectors!Sound /\ LikeVectors!Stays
  BY <1>3, <1>4, InPlaceStep
<1>6. LikeVectors!Becomes(n, << >>)
  BY <1>4, <1>5, VectorsParts DEF PutDone
<1>7. Shifted' = Shifted \ {n}
  BY <1>4, <1>5 DEF PutDone
<1>8. QED
  BY <1>3, <1>5, <1>6, <1>7 DEF LikeVectors!Clear, Shifted

LEMMA ReserveStep ==
  ASSUME IInv, UNCHANGED kind, NEW n \in Name, NEW newCap \in Capacities, Reserve(n, newCap)
  PROVE  IInv' /\ LikeVectors!Reserve(n, newCap)
<1> DEFINE l == list[n]
           m == Of(S!reserve(l, newCap), I!reserve(l, newCap))
<1>1. KindOK /\ Held(kind, l) /\ l.size = Len(Items[n]) /\ newCap \in Nat
  BY Unfolded, ListsAssumption DEF Capacities
<1>2. IF m = Overrun THEN newCap = 0 \/ newCap < l.size ELSE Moved(kind, l, m)
  BY <1>1, KindReserves
<1>3. Becomes(n, m) /\ call' = <<"reserve", n, newCap>>
  BY DEF Reserve
<1> HIDE DEF m
<1>4. CASE m = Overrun
  <2>1. IInv' /\ LikeVectors!Break
    BY <1>3, <1>4, BecomesOf, BreakOf
  <2>2. newCap = 0 \/ newCap < Len(Items[n])
    BY <1>1, <1>2, <1>4
  <2>3. QED
    BY <1>3, <2>1, <2>2 DEF LikeVectors!Reserve, Items
<1>5. CASE m # Overrun
  <2>1. IInv' /\ LikeVectors!Sound /\ Items' = Items /\ LikeVectors!MayMove(n)
    BY <1>2, <1>3, <1>5, BecomesOf, MovedStep
  <2>2. QED
    BY <1>3, <2>1 DEF LikeVectors!Reserve, Items
<1>6. QED
  BY <1>4, <1>5

LEMMA ExternalReallocateStep ==
  ASSUME IInv, UNCHANGED kind, NEW n \in Name, NEW newCap \in Capacities,
         ExternalReallocate(n, newCap)
  PROVE  IInv' /\ LikeVectors!ExternalReallocate(n, newCap)
<1> DEFINE l == list[n]
           m == S!externalReallocated(l, newCap)
<1>1. /\ kind = "seperate" /\ Becomes(n, m)
      /\ call' = <<"externalReallocate", n, newCap>>
  BY DEF ExternalReallocate
<1>2. /\ Held("seperate", l) /\ newCap \in Nat /\ l.front \in Nat
      /\ Items[n] = Contents(l) /\ Len(Items[n]) = l.size
      /\ n \in Shifted <=> l.front > 0
      /\ n \in PointedTo <=> l.pointed
  BY <1>1, Unfolded, ListsAssumption DEF Capacities
<1>3. /\ Held("seperate", m) /\ m # Overrun
      /\ m.size = l.size /\ m.front \in {0, l.front} /\ m.pointed = l.pointed
      /\ m.front = l.front => Contents(m) = Contents(l)
  BY <1>2, Externally
<1> HIDE DEF m
<1>4. Put(n, m)
  BY <1>1, <1>3, BecomesOf
<1>5. IInv' /\ PutDone(n, m)
  BY <1>1, <1>3, <1>4, PutOf
<1>6. LikeVectors!Sound
  BY <1>4, VectorsParts DEF Put, Sound
<1>7. Len(Contents(m)) = m.size
  BY <1>3, HeldType, ContentsOf, Zenon
<1>8. Items' = Items \/ (n \in Shifted /\ LikeVectors!Resized(n, Len(Items[n])))
  <2>1. CASE m.front = l.front
    <3>1. Items' = [Items EXCEPT ![n] = Items[n]]
      BY <1>2, <1>3, <1>5, <2>1 DEF PutDone
    <3>2. QED
      BY <3>1 DEF Items
  <2>2. CASE m.front # l.front
    <3>1. n \in Shifted
      BY <1>2, <1>3, <2>2
    <3>2. LikeVectors!Resized(n, Len(Items[n]))
      BY <1>2, <1>3, <1>5, <1>7, ItemsPut, VectorsParts
    <3>3. QED
      BY <3>1, <3>2
  <2>3. QED
    BY <2>1, <2>2
<1>9. Shifted' \in {Shifted, Shifted \ {n}}
  BY <1>2, <1>3, <1>5 DEF PutDone
<1>10. BareLists' \in {BareLists, BareLists \cup {n}, BareLists \ {n}}
  BY <1>5 DEF PutDone
<1>11. PointedTo' = PointedTo
  BY <1>2, <1>3, <1>5 DEF PutDone
<1>12. QED
  BY <1>1, <1>5, <1>6, <1>8, <1>9, <1>10, <1>11
     DEF LikeVectors!ExternalReallocate, Items, Shifted, PointedTo

LEMMA MakeStep ==
  ASSUME IInv, UNCHANGED kind, NEW n \in Name, NEW count \in {0, BaseAllocation}, Make(n, count)
  PROVE  IInv' /\ LikeVectors!Make(n, count) /\ count \in Capacities
<1> DEFINE m == List(count)
<1>1. Becomes(n, m) /\ call' = <<"make", n, count>>
  BY DEF Make
<1>2. count \in Nat
  BY ListsAssumption
<1>3. /\ Held(kind, m) /\ m # Overrun /\ m.front = 0 /\ m.pointed = FALSE
      /\ Contents(m) = << >> /\ (IsBare(m) <=> count = 0)
  BY <1>2, MadeOf
<1>4. count \in Capacities
  <2>1. InBounds(n, m)
    BY <1>1, <1>3 DEF Becomes
  <2>2. count <= MaxRoom
    BY <2>1 DEF InBounds, List
  <2>3. QED
    BY <1>2, <2>2, ListsAssumption DEF Capacities
<1> HIDE DEF m
<1>5. Put(n, m)
  BY <1>1, <1>3, BecomesOf
<1>6. IInv' /\ PutDone(n, m)
  BY <1>3, <1>5, PutOf
<1>7. LikeVectors!Sound /\ LikeVectors!Becomes(n, << >>)
  BY <1>3, <1>5, <1>6, VectorsParts DEF Put, Sound, PutDone
<1>8. Shifted' = Shifted \ {n}
  BY <1>3, <1>6 DEF PutDone
<1>9. BareLists' = IF count = 0 THEN BareLists \cup {n} ELSE BareLists \ {n}
  BY <1>3, <1>6 DEF PutDone
<1>10. PointedTo' = PointedTo \ {n}
  BY <1>3, <1>6 DEF PutDone
<1>11. QED
  BY <1>1, <1>4, <1>6, <1>7, <1>8, <1>9, <1>10 DEF LikeVectors!Make, Shifted, PointedTo

\* A copy is put in place of a list.
LEMMA CopyStep ==
  ASSUME IInv, UNCHANGED kind, NEW from \in Name, NEW to \in Name, NEW m, Becomes(to, m),
         m # Overrun, Held(kind, m), m.front = 0, m.pointed = FALSE,
         Contents(m) = IF from = to THEN << >> ELSE Contents(list[from]),
         call' \in {<<"copy", from, to>>, <<"deepCopy", from, to>>}
  PROVE  IInv' /\ LikeVectors!Copy(from, to)
<1>1. Put(to, m)
  BY BecomesOf
<1>2. IInv' /\ PutDone(to, m)
  BY <1>1, PutOf
<1>3. Items[from] = Contents(list[from])
  BY Unfolded
<1>4. LikeVectors!Sound /\ LikeVectors!Becomes(to, IF from = to THEN << >> ELSE Items[from])
  BY <1>1, <1>2, <1>3, VectorsParts DEF Put, Sound, PutDone
<1>5. Shifted' = Shifted \ {to}
  BY <1>2 DEF PutDone
<1>6. BareLists' \in {BareLists \cup {to}, BareLists \ {to}}
  BY <1>2 DEF PutDone
<1>7. PointedTo' = PointedTo \ {to}
  BY <1>2 DEF PutDone
<1>8. QED
  BY <1>2, <1>4, <1>5, <1>6, <1>7 DEF LikeVectors!Copy, Items, Shifted, PointedTo

LEMMA CopyAssignStep ==
  ASSUME IInv, UNCHANGED kind, NEW from \in Name, NEW to \in Name, CopyAssign(from, to)
  PROVE  IInv' /\ LikeVectors!Copy(from, to)
<1> DEFINE m == IF from = to THEN S!selfCopied(list[to]) ELSE S!copied(list[from])
<1>1. kind = "seperate" /\ Becomes(to, m) /\ call' = <<"copy", from, to>>
  BY DEF CopyAssign
<1>2. Held("seperate", list[from]) /\ Held("seperate", list[to])
  BY <1>1, Unfolded
<1>3. S!selfCopied(list[to]) = List(0) /\ CopyOf("seperate", list[from], S!copied(list[from]))
  BY <1>2, SCopies
<1>4. /\ Held(kind, List(0)) /\ List(0) # Overrun
      /\ List(0).front = 0 /\ List(0).pointed = FALSE /\ Contents(List(0)) = << >>
  BY MadeOf
<1>5. /\ m # Overrun /\ Held(kind, m) /\ m.front = 0 /\ m.pointed = FALSE
      /\ Contents(m) = IF from = to THEN << >> ELSE Contents(list[from])
  BY <1>1, <1>3, <1>4 DEF CopyOf
<1> HIDE DEF m
<1>6. QED
  BY <1>1, <1>5, CopyStep

LEMMA DeepCopyStep ==
  ASSUME IInv, UNCHANGED kind, NEW from \in Name, NEW to \in Name, DeepCopy(from, to)
  PROVE  IInv' /\ LikeVectors!Copy(from, to)
<1> DEFINE own == Of(S!selfDeepCopied(list[to]), I!selfDeepCopied(list[to]))
           copy == Of(S!deepCopied(list[from], list[to]), I!deepCopied(list[from], list[to]))
           m == IF from = to THEN own ELSE copy
<1>1. Becomes(to, m) /\ call' = <<"deepCopy", from, to>>
  BY DEF DeepCopy
<1>2. KindOK /\ Held(kind, list[from]) /\ Held(kind, list[to])
      /\ Items[from] = Contents(list[from])
  BY Unfolded
<1>3. own # Overrun => CopyOf(kind, list[to], own) /\ Contents(list[to]) = << >>
  BY <1>2, KindCopiesSelf
<1>4. IF copy = Overrun THEN Contents(list[from]) = << >> ELSE CopyOf(kind, list[from], copy)
  BY <1>2, KindCopies
<1> HIDE DEF own, copy
<1>5. CASE m = Overrun
  <2>1. IInv' /\ LikeVectors!Break
    BY <1>1, <1>5, BecomesOf, BreakOf
  <2>2. from = to \/ Items[from] = << >>
    BY <1>2, <1>4, <1>5
  <2>3. QED
    BY <1>1, <2>1, <2>2 DEF LikeVectors!Copy, Items
<1>6. CASE m # Overrun
  <2>1. /\ Held(kind, m) /\ m.front = 0 /\ m.pointed = FALSE
        /\ Contents(m) = IF from = to THEN << >> ELSE Contents(list[from])
    BY <1>3, <1>4, <1>6 DEF CopyOf
  <2> HIDE DEF m
  <2>2. QED
    BY <1>1, <1>6, <2>1, CopyStep
<1>7. QED
  BY <1>5, <1>6

LEMMA MoveStep ==
  ASSUME IInv, UNCHANGED kind, NEW from \in Name, NEW to \in Name, Move(from, to)
  PROVE  IInv' /\ LikeVectors!Move(from, to)
<1> DEFINE bare == List(0)
<1>1. /\ kind = "seperate" /\ ~broken /\ broken' = FALSE
      /\ list' = [n \in Name |-> IF n = from THEN bare
                                 ELSE IF n = to THEN list[from] ELSE list[n]]
      /\ call' = <<"move", from, to>>
  BY SFunctions DEF Move, Sound, S!Bare
<1>2. /\ Held(kind, bare) /\ bare.front = 0 /\ bare.pointed = FALSE
      /\ Contents(bare) = << >> /\ IsBare(bare)
  BY MadeOf
<1> HIDE DEF bare
<1>3. /\ list'[from] = bare
      /\ to # from => list'[to] = list[from]
      /\ \A n \in Name \ {from, to} : list'[n] = list[n]
      /\ list' = [n \in Name |-> list'[n]]
  BY <1>1
<1>4. \A n \in Name : Held(kind, list'[n])
  BY <1>2, <1>3 DEF IInv
<1>5. IInv'
  BY <1>1, <1>3, <1>4 DEF IInv
<1>6. Items' = [n \in Name |-> IF n = from THEN << >>
                               ELSE IF n = to THEN Items[from] ELSE Items[n]]
  BY <1>2, <1>3 DEF Items
<1>7. Shifted' = (IF from \in Shifted THEN Shifted \cup {to} ELSE Shifted \ {to}) \ {from}
  BY <1>2, <1>3 DEF Shifted
<1>8. PointedTo' = (IF from \in PointedTo THEN PointedTo \cup {to} ELSE PointedTo \ {to}) \ {from}
  BY <1>2, <1>3 DEF PointedTo
<1>9. BareLists' = (IF from \in BareLists THEN BareLists \cup {to} ELSE BareLists \ {to})
                     \cup {from}
  <2>1. BareLists = {n \in Name : IsBare(list[n])} /\ BareLists' = {n \in Name : IsBare(list'[n])}
    BY DEF BareLists, IsBare, RoomOf
  <2>2. QED
    BY <1>2, <1>3, <2>1
<1>10. LikeVectors!Sound
  BY <1>1, VectorsParts
<1>11. QED
  BY <1>1, <1>5, <1>6, <1>7, <1>8, <1>9, <1>10 DEF LikeVectors!Move, Items, Shifted, PointedTo

LEMMA LooksStep ==
  ASSUME IInv, UNCHANGED kind, Looks
  PROVE  IInv' /\ LikeVectors!Looks
<1>1. ~broken /\ broken' = FALSE /\ list' = list /\ kind' = kind
  BY DEF Looks, Sound
<1>2. IInv'
  BY <1>1 DEF IInv
<1>3. Items' = Items /\ Shifted' = Shifted /\ BareLists' = BareLists /\ PointedTo' = PointedTo
  BY <1>1 DEF Items, Shifted, BareLists, PointedTo
<1>4. QED
  BY <1>1, <1>2, <1>3, VectorsParts

LEMMA AtStep ==
  ASSUME IInv, UNCHANGED kind, NEW n \in Name, NEW pos \in 0 .. list[n].size, At(n, pos)
  PROVE  IInv' /\ LikeVectors!At(n, pos)
<1> DEFINE l == list[n]
           a == IF pos < l.size THEN Place(l, pos) ELSE OutOfRange
           b == IF pos < Len(Items[n]) THEN Items[n][pos + 1] ELSE OutOfRange
<1>1. Looks /\ call' = <<"at", n, pos, a>>
  BY DEF At
<1>2. Held(kind, l) /\ Items[n] = Contents(l) /\ Len(Items[n]) = l.size /\ l.size \in Nat
  BY Unfolded
<1>3. CASE pos < l.size
  <2>1. pos \in 0 .. l.size - 1
    BY <1>2, <1>3
  <2>2. Place(l, pos) = Contents(l)[pos + 1]
    BY <1>2, <2>1, PlaceOf
  <2>3. a = b
    BY <1>2, <1>3, <2>2
  <2> HIDE DEF a, b
  <2>4. call' = <<"at", n, pos, b>>
    BY <1>1, <2>3
  <2>5. QED
    BY <1>1, <2>4, LooksStep DEF LikeVectors!At, Items, b
<1>4. CASE ~(pos < l.size)
  <2>1. a = b
    BY <1>2, <1>4
  <2> HIDE DEF a, b
  <2>2. call' = <<"at", n, pos, b>>
    BY <1>1, <2>1
  <2>3. QED
    BY <1>1, <2>2, LooksStep DEF LikeVectors!At, Items, b
<1>5. QED
  BY <1>3, <1>4

LEMMA BackStep ==
  ASSUME IInv, UNCHANGED kind, NEW n \in Name, Back(n)
  PROVE  IInv' /\ LikeVectors!Back(n)
<1> DEFINE l == list[n]
           a == IF l.size = 0 THEN OutOfRange ELSE Place(l, l.size - 1)
           b == IF Items[n] = << >> THEN OutOfRange ELSE LikeVectors!Last(Items[n])
<1>1. Looks /\ call' = <<"back", n, a>>
  BY DEF Back
<1>2. Held(kind, l) /\ Items[n] = Contents(l) /\ Len(Items[n]) = l.size /\ l.size \in Nat
  BY Unfolded
<1>3. l.size = 0 <=> Items[n] = << >>
  BY <1>2, EmptyContents
<1>4. ASSUME l.size # 0
      PROVE  Place(l, l.size - 1) = LikeVectors!Last(Items[n])
  <2>1. l.size - 1 \in 0 .. l.size - 1 /\ (l.size - 1) + 1 = l.size
    BY <1>2, <1>4
  <2>2. Place(l, l.size - 1) = Contents(l)[(l.size - 1) + 1]
    BY <1>2, <2>1, PlaceOf
  <2>3. QED
    BY <1>2, <2>1, <2>2 DEF LikeVectors!Last
<1>5. a = b
  BY <1>3, <1>4
<1> HIDE DEF a, b
<1>6. call' = <<"back", n, b>>
  BY <1>1, <1>5
<1>7. QED
  BY <1>1, <1>6, LooksStep DEF LikeVectors!Back, Items, b

LEMMA EqualStep ==
  ASSUME IInv, UNCHANGED kind, NEW n \in Name, NEW m \in Name, Equal(n, m)
  PROVE  IInv' /\ LikeVectors!Equal(n, m)
<1> DEFINE a == ValueEqual(list[n], list[m])
           b == Items[n] = Items[m]
           s == Contents(list[n])
           t == Contents(list[m])
<1>1. Looks /\ call' = <<"valueEquality", n, m, a>>
  BY DEF Equal
<1>2. /\ Held(kind, list[n]) /\ Items[n] = s /\ Len(s) = list[n].size
      /\ Held(kind, list[m]) /\ Items[m] = t /\ Len(t) = list[m].size
      /\ list[n].size \in Nat
  BY Unfolded
<1>3. s \in Seq(Content) /\ t \in Seq(Content)
  BY <1>2, HeldType, ContentsOf, Zenon
<1>4. /\ \A i \in 0 .. list[n].size - 1 : Place(list[n], i) = s[i + 1]
      /\ \A i \in 0 .. list[m].size - 1 : Place(list[m], i) = t[i + 1]
  BY <1>2, PlaceOf
<1> HIDE DEF s, t
<1>5. ASSUME a
      PROVE  s = t
  <2>1. /\ list[n].size = list[m].size
        /\ \A i \in 0 .. list[n].size - 1 : Place(list[n], i) = Place(list[m], i)
    BY <1>5 DEF ValueEqual
  <2>2. ASSUME NEW j \in 1 .. Len(s)
        PROVE  s[j] = t[j]
    <3>1. j - 1 \in 0 .. list[n].size - 1 /\ (j - 1) + 1 = j
      BY <1>2
    <3>2. s[(j - 1) + 1] = t[(j - 1) + 1]
      BY <1>4, <2>1, <3>1
    <3>3. QED
      BY <3>1, <3>2
  <2>3. QED
    BY <1>2, <1>3, <2>1, <2>2, SeqEqual
<1>6. ASSUME s = t
      PROVE  a
  BY <1>2, <1>4, <1>6 DEF ValueEqual
<1>7. a \in BOOLEAN
  BY DEF ValueEqual
<1>8. a = b
  BY <1>2, <1>5, <1>6, <1>7
<1> HIDE DEF a, b
<1>9. call' = <<"valueEquality", n, m, b>>
  BY <1>1, <1>8
<1>10. QED
  BY <1>1, <1>9, LooksStep DEF LikeVectors!Equal, Items, b

LEMMA DataStep ==
  ASSUME IInv, UNCHANGED kind, NEW n \in Name, Data(n)
  PROVE  IInv' /\ LikeVectors!Data(n)
<1> DEFINE l == list[n]
           m == [l EXCEPT !.pointed = TRUE]
           r == RoomOf(l)
<1>1. /\ Held(kind, l) /\ Items[n] = Contents(l)
      /\ n \in Shifted <=> l.front > 0
      /\ n \in BareLists <=> IsBare(l)
  BY Unfolded
<1>2. Put(n, m) /\ call' = <<"data", n>>
  BY DEF Data, Put
<1>3. /\ r \in Nat /\ Shaped(l, r) /\ l \in ListIn(r)
      /\ l.size \in Nat /\ l.front \in Nat /\ l.front + l.size <= r
      /\ kind = "inline" => l.capacity = r
  BY <1>1, HeldType
<1> HIDE DEF r
<1>4. /\ m.size = l.size /\ m.front = l.front /\ m.capacity = l.capacity
      /\ m.data = l.data /\ m.pointed = TRUE
  BY <1>3 DEF ListIn
<1>5. m \in ListIn(r)
  BY <1>3, Updated
<1> HIDE DEF m
<1>6. Shaped(m, r)
  BY <1>3, <1>4, <1>5 DEF Shaped
<1>7. RoomOf(m) = r
  BY <1>3, <1>6, RoomIs
<1>8. Held(kind, m)
  BY <1>3, <1>4, <1>6, <1>7 DEF Held
<1>9. Contents(m) = Contents(l)
  BY <1>4 DEF Contents, Place
<1>10. IsBare(m) <=> IsBare(l)
  BY <1>4, <1>7 DEF IsBare, r
<1>11. IInv' /\ PutDone(n, m)
  BY <1>2, <1>8, PutOf
<1>12. Items' = Items
  <2>1. Items' = [Items EXCEPT ![n] = Items[n]]
    BY <1>1, <1>9, <1>11 DEF PutDone
  <2>2. QED
    BY <2>1 DEF Items
<1>13. Shifted' = Shifted
  BY <1>1, <1>4, <1>11 DEF PutDone
<1>14. BareLists' = BareLists
  BY <1>1, <1>10, <1>11 DEF PutDone
<1>15. PointedTo' = PointedTo \cup {n}
  BY <1>4, <1>11 DEF PutDone
<1>16. LikeVectors!Sound
  BY <1>2, VectorsParts DEF Put, Sound
<1>17. QED
  BY <1>2, <1>11, <1>12, <1>13, <1>14, <1>15, <1>16
     DEF LikeVectors!Data, Items, Shifted, PointedTo

LEMMA ReadStep ==
  ASSUME IInv, UNCHANGED kind, NEW n \in Name, NEW i \in Positions(n), Read(n, i)
  PROVE  IInv' /\ LikeVectors!Read(n, i)
<1> DEFINE l == list[n]
           a == Of(S!dataAt(l, i), I!dataAt(l, i))
<1>1. Looks /\ call' = <<"read", n, i, a>> /\ l.pointed
  BY DEF Read
<1>2. /\ Held(kind, l) /\ Items[n] = Contents(l) /\ i \in 0 .. l.size - 1
      /\ n \in Shifted <=> l.front > 0
      /\ n \in PointedTo <=> l.pointed
      /\ l.front \in Nat /\ l.size \in Nat
  BY Unfolded DEF Positions
<1>3. IInv' /\ LikeVectors!Looks
  BY <1>1, LooksStep
<1>4. ASSUME n \notin Shifted
      PROVE  a = Items[n][i + 1]
  <2>1. l.front = 0 /\ l.front + i = i
    BY <1>2, <1>4
  <2>2. S!dataAt(l, i) = Place(l, i)
    BY <2>1 DEF S!dataAt, Place
  <2>3. I!dataAt(l, i) = Place(l, i)
    BY IFunctions DEF I!dataAt
  <2>4. a = Place(l, i)
    BY <2>2, <2>3 DEF Of
  <2>5. QED
    BY <1>2, <2>4, PlaceOf
<1> HIDE DEF a
<1>5. Head(call') = "read"
  BY <1>1
<1>6. n \notin Shifted => call' = <<"read", n, i, Items[n][i + 1]>>
  BY <1>1, <1>4
<1>7. n \in PointedTo
  BY <1>1, <1>2
<1>8. QED
  BY <1>3, <1>5, <1>6, <1>7 DEF LikeVectors!Read, Items, Shifted, PointedTo

-----------------------------------------------------------------------------
(* The theorems.                                                           *)

LEMMA VectorsNext ==
  ASSUME NEW n \in Name,
         \/ \E v \in Value : LikeVectors!AppendValue(n, v) \/ LikeVectors!PrependValue(n, v)
         \/ \E pos \in 0 .. Len(Items[n]) :
              LikeVectors!At(n, pos) \/ \E v \in Value : LikeVectors!InsertValue(n, pos, v)
         \/ \E i \in 0 .. Len(Items[n]) - 1 :
              \/ LikeVectors!AppendOwn(n, i) \/ LikeVectors!PrependOwn(n, i)
              \/ LikeVectors!RemovePos(n, i) \/ LikeVectors!Read(n, i)
         \/ LikeVectors!InsertThrows(n) \/ LikeVectors!RemoveBack(n)
         \/ LikeVectors!RemoveFront(n) \/ LikeVectors!Clear(n)
         \/ LikeVectors!Back(n) \/ LikeVectors!Data(n)
         \/ \E c \in Capacities : \/ LikeVectors!Reserve(n, c)
                                  \/ LikeVectors!ExternalReallocate(n, c)
                                  \/ LikeVectors!Make(n, c)
         \/ \E m \in Name : \/ LikeVectors!Copy(n, m) \/ LikeVectors!Move(n, m)
                            \/ LikeVectors!Equal(n, m)
  PROVE  LikeVectors!Next
BY DEF LikeVectors!Next, Items

LEMMA NextStep ==
  ASSUME IInv, Next
  PROVE  IInv' /\ LikeVectors!Next
<1>1. UNCHANGED kind
  BY DEF Next
<1>2. PICK n \in Name :
        \/ \E v \in Value : AppendValue(n, v) \/ PrependValue(n, v)
        \/ \E pos \in 0 .. list[n].size : At(n, pos) \/ \E v \in Value : InsertValue(n, pos, v)
        \/ \E i \in Positions(n) : \/ AppendOwn(n, i) \/ PrependOwn(n, i)
                                   \/ RemovePos(n, i) \/ Read(n, i)
        \/ InsertThrows(n) \/ RemoveBack(n) \/ RemoveFront(n) \/ Clear(n)
        \/ Back(n) \/ Data(n)
        \/ \E c \in {0, BaseAllocation} : Make(n, c)
        \/ \E c \in Capacities : Reserve(n, c) \/ ExternalReallocate(n, c)
        \/ \E m \in Name : CopyAssign(n, m) \/ DeepCopy(n, m) \/ Move(n, m) \/ Equal(n, m)
  BY DEF Next
<1>3. Len(Items[n]) = list[n].size /\ Positions(n) = 0 .. Len(Items[n]) - 1
  BY Unfolded DEF Positions
<1>4. CASE \E v \in Value : AppendValue(n, v) \/ PrependValue(n, v)
  BY <1>1, <1>4, AppendStep, PrependStep, VectorsNext
<1>5. CASE \E pos \in 0 .. list[n].size : At(n, pos) \/ \E v \in Value : InsertValue(n, pos, v)
  BY <1>1, <1>3, <1>5, AtStep, InsertStep, VectorsNext
<1>6. CASE \E i \in Positions(n) : \/ AppendOwn(n, i) \/ PrependOwn(n, i)
                                   \/ RemovePos(n, i) \/ Read(n, i)
  BY <1>1, <1>3, <1>6, AppendOwnStep, PrependOwnStep, RemovePosStep, ReadStep, VectorsNext
<1>7. CASE InsertThrows(n) \/ RemoveBack(n) \/ RemoveFront(n) \/ Clear(n)
  BY <1>1, <1>7, InsertThrowsStep, RemoveBackStep, RemoveFrontStep, ClearStep, VectorsNext
<1>8. CASE Back(n) \/ Data(n)
  BY <1>1, <1>8, BackStep, DataStep, VectorsNext
<1>9. CASE \E c \in {0, BaseAllocation} : Make(n, c)
  BY <1>1, <1>9, MakeStep, VectorsNext
<1>10. CASE \E c \in Capacities : Reserve(n, c) \/ ExternalReallocate(n, c)
  BY <1>1, <1>10, ReserveStep, ExternalReallocateStep, VectorsNext
<1>11. CASE \E m \in Name : CopyAssign(n, m) \/ DeepCopy(n, m) \/ Move(n, m) \/ Equal(n, m)
  BY <1>1, <1>11, CopyAssignStep, DeepCopyStep, MoveStep, EqualStep, VectorsNext
<1>12. QED
  BY <1>2, <1>4, <1>5, <1>6, <1>7, <1>8, <1>9, <1>10, <1>11

LEMMA StutterStep ==
  ASSUME IInv, UNCHANGED vars
  PROVE  IInv' /\ UNCHANGED LikeVectors!vars
<1>1. kind' = kind /\ list' = list /\ broken' = broken /\ call' = call
  BY DEF vars
<1>2. IInv'
  BY <1>1 DEF IInv
<1>3. Items' = Items /\ Shifted' = Shifted /\ BareLists' = BareLists /\ PointedTo' = PointedTo
  BY <1>1 DEF Items, Shifted, BareLists, PointedTo
<1>4. QED
  BY <1>1, <1>2, <1>3 DEF LikeVectors!vars, Items, Shifted, PointedTo

(***************************************************************************)
(* The inductive invariant of the lists.                                   *)
(***************************************************************************)
THEOREM Invariance == Spec => []IInv
<1>1. IInv /\ [Next]_vars => IInv'
  BY NextStep, StutterStep
<1>2. Init => IInv
  BY InitOf
<1>3. QED
  BY <1>1, <1>2, PTL DEF Spec

\* A list that is not bare keeps its elements inside its array: what it takes
\* next is written where there is room.
THEOREM ElementsInside == Spec => []InsideArray
<1>1. IInv => InsideArray
  <2> SUFFICES ASSUME IInv, NEW n \in Name \ BareLists
               PROVE  list[n].front + list[n].size <= list[n].capacity
    BY DEF InsideArray
  <2>1. Held(kind, list[n]) /\ ~IsBare(list[n])
    BY Unfolded
  <2>2. list[n].capacity = RoomOf(list[n])
    BY <2>1 DEF IsBare
  <2>3. QED
    BY <2>1, <2>2, HeldType
<1>2. QED
  BY <1>1, Invariance, PTL

(***************************************************************************)
(* The lists are vectors, but for what Vectors names: elements are where   *)
(* std::vector would have them after every call, and only the calls named  *)
(* there overrun memory or spoil a pointer that data() returned.           *)
(***************************************************************************)
THEOREM ListsAreVectors == Spec => VectorsSpec
<1>1. Init => LikeVectors!Init
  BY InitOf
<1>2. IInv /\ [Next]_vars => [LikeVectors!Next]_LikeVectors!vars
  BY NextStep, StutterStep
<1>3. QED
  BY <1>1, <1>2, Invariance, PTL DEF Spec, VectorsSpec, LikeVectors!Spec
=============================================================================
