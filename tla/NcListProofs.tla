---------------------------- MODULE NcListProofs ----------------------------
(***************************************************************************)
(* The proofs about NcList, for any number of lists and entries, whatever  *)
(* the strings and their texts are: the lists stay intact, they keep their *)
(* types, and they implement the sequences of ListADT.                     *)
(*                                                                         *)
(* HeapIntact is about what loops along the pointers meet, and is not      *)
(* inductive as it stands: a free cell's pointers must be NULL for a push  *)
(* to end the list.  The invariant Arranged names the entry at each place  *)
(* of each list instead of following pointers; Walk is met only in the     *)
(* lemmas WalkIs, ChainIs and BackIs, which say that a loop finds these    *)
(* places in order.  A call on one list is described by the cells that the *)
(* list has afterwards (Rearranged), one on two lists by TakenOver; the    *)
(* proof about each operation exhibits these cells and the strings in      *)
(* them, from which follows the sequence that the list becomes (Becomes,   *)
(* BothBecome).  A step of ListADT is read off that sequence.              *)
(***************************************************************************)
EXTENDS NcList, TextLemmas

-----------------------------------------------------------------------------
(* What Walk computes. *)

(* The heap has a number of cells.                                          *)
LEMMA StepsType == Cardinality(Entries) \in Nat /\ Steps \in Nat /\ Steps = Cardinality(Entries) + 1
BY EntriesAssumption, FS_CardinalityType DEF Steps

(* at is the function that Walk defines.                                    *)
Walks(at, e, f) ==
  at = [i \in 1..Steps |-> IF i = 1 THEN e ELSE IF at[i-1] = NULL THEN NULL ELSE f[at[i-1]]]

(* The loop that follows the pointers meets the n cells that g names.       *)
LEMMA WalkIs ==
  ASSUME NEW n \in Nat, n <= Cardinality(Entries), NEW g \in [Nat -> Ptr], NEW f, NEW e,
         \A i \in Nat : g[i] # NULL <=> i \in 1..n,
         e = g[1], \A i \in 1..n : f[g[i]] = g[i + 1]
  PROVE  Walk(e, f) = [i \in 1..n |-> g[i]]
<1> USE StepsType
<1> DEFINE h == [i \in 1..Steps |-> g[i]]
           at == CHOOSE k : Walks(k, e, f)
<1>1. Walks(h, e, f)
  <2>1. ASSUME NEW i \in 1..Steps
        PROVE  h[i] = IF i = 1 THEN e ELSE IF h[i-1] = NULL THEN NULL ELSE f[h[i-1]]
    <3>1. CASE i = 1
      BY <3>1
    <3>2. CASE i # 1
      <4>1. i - 1 \in 1..Steps /\ i - 1 \in Nat /\ i \in Nat /\ (i - 1) + 1 = i
        BY <3>2
      <4>2. h[i - 1] = g[i - 1] /\ h[i] = g[i]
        BY <4>1
      <4>3. CASE i - 1 \in 1..n
        BY <3>2, <4>1, <4>2, <4>3
      <4>4. CASE i - 1 \notin 1..n
        <5>1. i \notin 1..n
          BY <4>1, <4>4
        <5>2. g[i - 1] = NULL /\ g[i] = NULL
          BY <4>1, <4>4, <5>1
        <5>3. QED
          BY <3>2, <4>2, <5>2
      <4>5. QED
        BY <4>3, <4>4
    <3>3. QED
      BY <3>1, <3>2
  <2>2. QED
    BY <2>1 DEF Walks
<1>2. Walks(at, e, f)
  BY <1>1
<1> DEFINE met == {i \in 1..Steps : at[i] # NULL}
<1>3. Walk(e, f) = [i \in 1..Cardinality(met) |-> at[i]]
  BY DEF Walk, Walks
<1> HIDE DEF at
<1>4. \A i \in 1..Steps : at[i] = IF i = 1 THEN e ELSE IF at[i-1] = NULL THEN NULL ELSE f[at[i-1]]
  BY <1>2 DEF Walks
<1>5. \A i \in 1..Steps : at[i] = g[i]
  <2> DEFINE T == {k \in Nat : k + 1 <= Steps => at[k + 1] = g[k + 1]}
  <2>1. 0 \in T
    <3>1. 1 \in 1..Steps
      OBVIOUS
    <3>2. QED
      BY <1>4, <3>1
  <2>2. ASSUME NEW k \in T PROVE k + 1 \in T
    <3>1. k \in Nat /\ (k + 1 <= Steps => at[k + 1] = g[k + 1])
      OBVIOUS
    <3>2. ASSUME k + 2 <= Steps PROVE at[k + 2] = g[k + 2]
      <4>1. k + 1 <= Steps /\ k + 2 \in 1..Steps /\ k + 2 # 1 /\ (k + 2) - 1 = k + 1
        BY <3>1, <3>2
      <4>2. at[k + 2] = IF at[k + 1] = NULL THEN NULL ELSE f[at[k + 1]]
        BY <1>4, <4>1
      <4>3. at[k + 1] = g[k + 1] /\ k + 1 \in Nat /\ k + 2 \in Nat /\ (k + 1) + 1 = k + 2
        BY <3>1, <4>1
      <4>4. CASE k + 1 \in 1..n
        BY <4>2, <4>3, <4>4
      <4>5. CASE k + 1 \notin 1..n
        <5>1. k + 2 \notin 1..n
          BY <3>1, <4>5
        <5>2. g[k + 1] = NULL /\ g[k + 2] = NULL
          BY <4>3, <4>5, <5>1
        <5>3. QED
          BY <4>2, <4>3, <5>2
      <4>6. QED
        BY <4>4, <4>5
    <3>3. (k + 1) + 1 = k + 2 /\ k + 1 \in Nat
      BY <3>1
    <3>4. QED
      BY <3>2, <3>3
  <2>3. T = Nat
    <3>1. T \in SUBSET Nat
      OBVIOUS
    <3> HIDE DEF T
    <3>2. QED
      BY <2>1, <2>2, <3>1, SetInduction
  <2>4. ASSUME NEW i \in 1..Steps PROVE at[i] = g[i]
    <3>1. i - 1 \in Nat /\ (i - 1) + 1 = i /\ i <= Steps
      OBVIOUS
    <3>2. i - 1 \in T
      BY <2>3, <3>1
    <3>3. (i - 1) + 1 <= Steps => at[(i - 1) + 1] = g[(i - 1) + 1]
      BY <3>2
    <3>4. QED
      BY <3>1, <3>3
  <2>5. QED
    BY <2>4
<1>6. met = 1..n
  <2>1. \A i \in 1..n : i \in 1..Steps
    OBVIOUS
  <2>2. QED
    BY <1>5, <2>1
<1>7. Cardinality(1..n) = n
  BY FS_Interval
<1> HIDE DEF met
<1>8. \A i \in 1..n : at[i] = g[i]
  <2>1. \A i \in 1..n : i \in 1..Steps
    OBVIOUS
  <2>2. QED
    BY <1>5, <2>1
<1>9. QED
  BY <1>3, <1>6, <1>7, <1>8

-----------------------------------------------------------------------------
(* The inductive invariant.  c[l][i] is the entry at place i of list l, for *)
(* i from 1 to the count; NULL stands at all other places, so that a        *)
(* pointer at either end of a list needs no case of its own.                *)

(* Every allocated entry is in one place of one list.                       *)
Placed(c, al, ct) ==
  /\ al \subseteq Entries /\ ct \in [Lists -> Nat] /\ c \in [Lists -> [Nat -> Ptr]]
  /\ \A l \in Lists : \A i \in Nat : c[l][i] # NULL <=> i \in 1..ct[l]
  /\ \A l, m \in Lists : \A i, j \in Nat : c[l][i] = c[m][j] /\ c[l][i] # NULL => l = m /\ i = j
  /\ \A e \in Entries : e \in al <=> \E l \in Lists : \E i \in Nat : c[l][i] = e

(* head, tail and the next pointers lead along these places.                *)
Threaded(c, nx, hd, tl, ct) ==
  /\ nx \in [Entries -> Ptr] /\ hd \in [Lists -> Ptr] /\ tl \in [Lists -> Ptr]
  /\ \A l \in Lists : hd[l] = c[l][1] /\ tl[l] = c[l][ct[l]]
  /\ \A l \in Lists : \A i \in 1..ct[l] : nx[c[l][i]] = c[l][i + 1]

(* The prev pointers lead back, on a oneway list that of the head only.     *)
Backed(c, pv, ct, ow) ==
  /\ pv \in [Entries -> Ptr] /\ ow \subseteq Lists
  /\ \A l \in Lists : \A i \in 1..ct[l] : l \notin ow \/ i = 1 => pv[c[l][i]] = c[l][i - 1]

(* The pointers of a free cell are NULL.                                    *)
Blank(al, nx, pv) == \A e \in Entries \ al : nx[e] = NULL /\ pv[e] = NULL

Shape(c) ==
  /\ Placed(c, alloc, count)
  /\ Threaded(c, next, head, tail, count)
  /\ Backed(c, prev, count, oneway)
  /\ Blank(alloc, next, prev)

Arranged == ~fault /\ \E c \in [Lists -> [Nat -> Ptr]] : Shape(c)

(* A list is no longer than the heap.                                       *)
LEMMA Bounded ==
  ASSUME NEW c, NEW al, NEW ct, Placed(c, al, ct), NEW l \in Lists
  PROVE  ct[l] \in Nat /\ ct[l] <= Cardinality(Entries)
<1> DEFINE n == ct[l]
           f == [i \in 1..n |-> c[l][i]]
<1>1. n \in Nat
  BY DEF Placed
<1>2. f \in [1..n -> Entries]
  <2>1. ASSUME NEW i \in 1..n PROVE c[l][i] \in Entries
    <3>1. i \in Nat
      BY <1>1
    <3>2. QED
      BY <3>1 DEF Placed, Ptr
  <2>2. QED
    BY <2>1
<1>3. ASSUME NEW i \in 1..n, NEW j \in 1..n, f[i] = f[j] PROVE i = j
  <2>1. i \in Nat /\ j \in Nat /\ c[l][i] = c[l][j] /\ c[l][i] # NULL
    BY <1>1, <1>3 DEF Placed
  <2>2. QED
    BY <2>1 DEF Placed
<1>4. IsFiniteSet(1..n) /\ Cardinality(1..n) = n
  BY <1>1, FS_Interval
<1> DEFINE D == 1..n
<1>5. /\ f \in [D -> Entries] /\ IsFiniteSet(D) /\ Cardinality(D) = n
      /\ \A i, j \in D : f[i] = f[j] => i = j
  BY <1>2, <1>3, <1>4
<1> HIDE DEF f, D, n
<1>6. ~(Cardinality(Entries) < Cardinality(D))
  BY <1>5, FS_PigeonHole, EntriesAssumption
<1>7. n <= Cardinality(Entries)
  BY <1>1, <1>5, <1>6, StepsType
<1>8. QED
  BY <1>1, <1>7 DEF n

(* A loop from the head meets the entries of the list, whatever the heap.   *)
LEMMA ChainOf ==
  ASSUME NEW c, NEW al, NEW ct, NEW nx, NEW hd, NEW tl,
         Placed(c, al, ct), Threaded(c, nx, hd, tl, ct), NEW l \in Lists
  PROVE  Walk(hd[l], nx) = [i \in 1..ct[l] |-> c[l][i]]
<1>1. PICK n : n = ct[l]
  OBVIOUS
<1>2. PICK g : g = c[l]
  OBVIOUS
<1>3. n \in Nat /\ n <= Cardinality(Entries)
  BY <1>1, Bounded
<1>4. g \in [Nat -> Ptr] /\ \A i \in Nat : g[i] # NULL <=> i \in 1..n
  BY <1>1, <1>2 DEF Placed
<1>5. PICK e : e = hd[l]
  OBVIOUS
<1>6. e = g[1] /\ \A i \in 1..n : nx[g[i]] = g[i + 1]
  BY <1>1, <1>2, <1>5 DEF Threaded
<1>7. Walk(e, nx) = [i \in 1..n |-> g[i]]
  BY ONLY <1>3, <1>4, <1>6, WalkIs
<1>8. QED
  BY <1>1, <1>2, <1>5, <1>7

(* What follows when a loop meets the n cells that g names.                 *)
LEMMA WalkFacts ==
  ASSUME NEW n \in Nat, n <= Cardinality(Entries), NEW g \in [Nat -> Ptr], NEW w,
         w = [i \in 1..n |-> g[i]], \A i \in 1..n : g[i] \in alloc
  PROVE  /\ Len(w) = n /\ \A i \in 1..n : w[i] = g[i]
         /\ Cells(w) = {g[i] : i \in 1..n} /\ Cells(w) \subseteq alloc
         /\ Sound(w) /\ (w = <<>> <=> n = 0)
<1>1. w \in Seq(Ptr) /\ Len(w) = n /\ \A i \in 1..n : w[i] = g[i]
  OBVIOUS
<1>2. Cells(w) = {g[i] : i \in 1..n}
  BY <1>1 DEF Cells
<1>3. Cells(w) \subseteq alloc
  BY <1>2
<1>4. w = <<>> <=> n = 0
  BY <1>1
<1>5. Len(w) < Steps
  BY <1>1, StepsType
<1>6. QED
  BY <1>1, <1>2, <1>3, <1>4, <1>5 DEF Sound

(* A loop from the head meets the entries of the list.                      *)
LEMMA ChainIs ==
  ASSUME NEW c, Shape(c), NEW l \in Lists
  PROVE  /\ count[l] \in Nat /\ count[l] <= Cardinality(Entries)
         /\ Len(Chain(l)) = count[l] /\ \A i \in 1..count[l] : Chain(l)[i] = c[l][i]
         /\ \A i \in 1..count[l] : c[l][i] \in alloc
         /\ Cells(Chain(l)) = {c[l][i] : i \in 1..count[l]}
         /\ Sound(Chain(l)) /\ (Chain(l) = <<>> <=> count[l] = 0)
<1> DEFINE n == count[l]
           g == c[l]
<1>1. n \in Nat /\ n <= Cardinality(Entries)
  BY Bounded DEF Shape
<1>2. g \in [Nat -> Ptr] /\ \A i \in Nat : g[i] # NULL <=> i \in 1..n
  BY DEF Shape, Placed
<1>4. \A i \in 1..n : g[i] \in alloc
  <2>1. ASSUME NEW i \in 1..n PROVE g[i] \in alloc
    <3>1. i \in Nat /\ g[i] \in Entries
      BY <1>1, <1>2 DEF Ptr
    <3>2. QED
      BY <3>1 DEF Shape, Placed
  <2>2. QED
    BY <2>1
<1>3. Placed(c, alloc, count) /\ Threaded(c, next, head, tail, count)
  BY DEF Shape
<1>5. Walk(head[l], next) = [i \in 1..n |-> g[i]]
  BY <1>3, ChainOf
<1> HIDE DEF g, n
<1> DEFINE w == Chain(l)
<1>6. w = [i \in 1..n |-> g[i]]
  BY <1>5 DEF Chain
<1> HIDE DEF w
<1>7. /\ Len(w) = n /\ \A i \in 1..n : w[i] = g[i]
      /\ Cells(w) = {g[i] : i \in 1..n}
      /\ Sound(w) /\ (w = <<>> <=> n = 0)
  BY <1>1, <1>2, <1>4, <1>6, WalkFacts
<1>8. QED
  BY <1>1, <1>4, <1>7 DEF g, n, w

(* So does a loop from the tail along the prev pointers, if they are set.   *)
LEMMA BackIs ==
  ASSUME NEW c, Shape(c), NEW l \in Lists, \A i \in 1..count[l] : prev[c[l][i]] = c[l][i - 1]
  PROVE  /\ Cells(Walk(tail[l], prev)) = {c[l][i] : i \in 1..count[l]}
         /\ Sound(Walk(tail[l], prev))
<1> DEFINE n == count[l]
           b == c[l]
           g == [i \in Nat |-> IF i \in 1..n THEN b[n + 1 - i] ELSE NULL]
<1>1. n \in Nat /\ n <= Cardinality(Entries) /\ \A i \in 1..n : b[i] \in alloc
  BY ChainIs
<1>2. b \in [Nat -> Ptr] /\ \A i \in Nat : b[i] # NULL <=> i \in 1..n
  BY DEF Shape, Placed
<1>3. tail[l] = b[n] /\ \A i \in 1..n : prev[b[i]] = b[i - 1]
  BY DEF Shape, Threaded
<1> HIDE DEF b, n
<1>4. \A i \in 1..n : n + 1 - i \in 1..n /\ n + 1 - i \in Nat
  BY <1>1
<1>5. g \in [Nat -> Ptr]
  <2>1. ASSUME NEW i \in Nat PROVE g[i] \in Ptr
    BY <1>2, <1>4 DEF Ptr
  <2>2. QED
    BY <2>1
<1>6. \A i \in Nat : g[i] # NULL <=> i \in 1..n
  BY <1>2, <1>4
<1>7. tail[l] = g[1]
  <2>1. CASE n = 0
    BY <1>1, <1>2, <1>3, <2>1
  <2>2. CASE n # 0
    <3>1. 1 \in 1..n /\ n + 1 - 1 = n
      BY <1>1, <2>2
    <3>2. QED
      BY <1>3, <3>1
  <2>3. QED
    BY <2>1, <2>2
<1>8. ASSUME NEW i \in 1..n PROVE prev[g[i]] = g[i + 1]
  <2> DEFINE j == n + 1 - i
  <2>1. j \in 1..n /\ j - 1 \in Nat /\ i \in Nat /\ i + 1 \in Nat
    BY <1>1
  <2>2. prev[g[i]] = b[j - 1]
    BY <1>3, <2>1
  <2>3. CASE i = n
    <3>1. j - 1 = 0 /\ i + 1 \notin 1..n /\ 0 \notin 1..n
      BY <1>1, <2>3
    <3>2. b[0] = NULL /\ g[i + 1] = NULL
      BY <1>2, <2>1, <3>1
    <3>3. QED
      BY <2>2, <3>1, <3>2
  <2>4. CASE i # n
    <3>1. i + 1 \in 1..n /\ n + 1 - (i + 1) = j - 1
      BY <1>1, <2>4
    <3>2. g[i + 1] = b[j - 1]
      BY <2>1, <3>1
    <3>3. QED
      BY <2>2, <3>2
  <2>5. QED
    BY <2>3, <2>4
<1>9. \A i \in 1..n : g[i] \in alloc
  BY <1>1, <1>4
<1>10. {g[i] : i \in 1..n} = {b[i] : i \in 1..n}
  <2>1. ASSUME NEW i \in 1..n PROVE b[i] \in {g[k] : k \in 1..n}
    <3>1. n + 1 - i \in 1..n /\ n + 1 - (n + 1 - i) = i /\ n + 1 - i \in Nat
      BY <1>1
    <3>2. g[n + 1 - i] = b[i]
      BY <3>1
    <3>3. QED
      BY <3>1, <3>2
  <2>2. ASSUME NEW i \in 1..n PROVE g[i] \in {b[k] : k \in 1..n}
    BY <1>4
  <2>3. QED
    BY <2>1, <2>2
<1> HIDE DEF g
<1>11. Walk(tail[l], prev) = [i \in 1..n |-> g[i]]
  <2>1. n \in Nat /\ n <= Cardinality(Entries)
    BY <1>1
  <2>2. \A i \in 1..n : prev[g[i]] = g[i + 1]
    BY <1>8
  <2>3. QED
    BY ONLY <2>1, <2>2, <1>5, <1>6, <1>7, WalkIs
<1> DEFINE w == Walk(tail[l], prev)
<1> HIDE DEF w
<1>12. w = [i \in 1..n |-> g[i]]
  BY <1>11 DEF w
<1>13. Cells(w) = {g[i] : i \in 1..n} /\ Sound(w)
  BY <1>1, <1>5, <1>9, <1>12, WalkFacts
<1>14. QED
  BY <1>10, <1>13 DEF w, b, n

(* A prev pointer that leads back does so along the places.                 *)
LEMMA LeadsBackIs ==
  ASSUME NEW c, Shape(c), NEW l \in Lists, NEW i \in 1..count[l], LeadsBack(l, i)
  PROVE  prev[c[l][i]] = c[l][i - 1]
<1>1. count[l] \in Nat /\ \A j \in 1..count[l] : Chain(l)[j] = c[l][j]
  BY ChainIs
<1>2. c[l][0] = NULL
  BY <1>1 DEF Shape, Placed
<1>3. prev[c[l][i]] = IF i = 1 THEN NULL ELSE Chain(l)[i - 1]
  BY <1>1 DEF LeadsBack
<1>4. CASE i = 1
  BY <1>2, <1>3, <1>4
<1>5. CASE i # 1
  <2>1. i - 1 \in 1..count[l]
    BY <1>1, <1>5
  <2>2. QED
    BY <1>1, <1>3, <1>5, <2>1
<1>6. QED
  BY <1>4, <1>5

(* The invariant is enough.                                                 *)
LEMMA ArrangedIntact == Arranged => HeapIntact
<1> SUFFICES ASSUME ~fault, NEW c, Shape(c) PROVE HeapIntact
  BY DEF Arranged
<1>1. ASSUME NEW l \in Lists
      PROVE  LET w == Chain(l) IN
             /\ Sound(w)
             /\ count[l] = Len(w)
             /\ head[l] = IF w = <<>> THEN NULL ELSE w[1]
             /\ tail[l] = IF w = <<>> THEN NULL ELSE w[Len(w)]
             /\ l \notin oneway => \A i \in 1..Len(w) : prev[w[i]] = IF i = 1 THEN NULL ELSE w[i-1]
  <2> DEFINE n == count[l]
             w == Chain(l)
             g == c[l]
  <2>1. /\ n \in Nat /\ Len(w) = n /\ \A i \in 1..n : w[i] = g[i]
        /\ Sound(w) /\ (w = <<>> <=> n = 0)
    BY ChainIs
  <2>2. /\ \A i \in Nat : g[i] # NULL <=> i \in 1..n
        /\ head[l] = g[1] /\ tail[l] = g[n]
        /\ l \notin oneway => \A i \in 1..n : prev[g[i]] = g[i - 1]
    BY DEF Shape, Placed, Threaded, Backed
  <2> HIDE DEF n, w, g
  <2>3. g[0] = NULL
    BY <2>2
  <2>4. n = 0 => g[1] = NULL /\ g[n] = NULL
    BY <2>2, <2>3
  <2>5. n # 0 => 1 \in 1..n /\ n \in 1..n
    BY <2>1
  <2>6. head[l] = (IF w = <<>> THEN NULL ELSE w[1]) /\ tail[l] = (IF w = <<>> THEN NULL ELSE w[Len(w)])
    BY <2>1, <2>2, <2>4, <2>5
  <2>7. ASSUME l \notin oneway, NEW i \in 1..n PROVE prev[w[i]] = IF i = 1 THEN NULL ELSE w[i-1]
    <3>1. prev[w[i]] = g[i - 1]
      BY <2>1, <2>2, <2>7
    <3>2. i = 1 => i - 1 = 0
      OBVIOUS
    <3>3. i # 1 => i - 1 \in 1..n
      BY <2>1
    <3>4. QED
      BY <2>1, <2>3, <3>1, <3>2, <3>3
  <2>8. QED
    BY <2>1, <2>6, <2>7 DEF n, w
<1>2. DoublyLinked
  BY <1>1 DEF DoublyLinked, LeadsBack
<1>3. ASSUME NEW e \in alloc
      PROVE  \E l \in Lists : /\ e \in Cells(Chain(l))
                              /\ \A m \in Lists \ {l} : e \notin Cells(Chain(m))
  <2>1. e \in Entries
    BY DEF Shape, Placed
  <2>2. PICK l \in Lists, i \in Nat : c[l][i] = e
    BY <2>1 DEF Shape, Placed
  <2>3. e # NULL /\ i \in 1..count[l]
    BY <2>1, <2>2, NullAssumption DEF Shape, Placed
  <2>4. e \in Cells(Chain(l))
    BY <2>2, <2>3, ChainIs
  <2>5. ASSUME NEW m \in Lists \ {l}, e \in Cells(Chain(m)) PROVE FALSE
    <3>1. PICK j \in 1..count[m] : c[m][j] = e
      BY <2>5, ChainIs
    <3>2. j \in Nat
      BY ChainIs
    <3>3. QED
      BY <2>2, <2>3, <3>1, <3>2 DEF Shape, Placed
  <2>6. QED
    BY <2>4, <2>5
<1>4. EntriesOwned
  BY <1>3 DEF EntriesOwned
<1>5. QED
  BY <1>2, <1>4 DEF HeapIntact

-----------------------------------------------------------------------------
(* The steps. *)

(* e is in list l.                                                          *)
In(c, l, e) == \E j \in Nat : c[l][j] = e

(* What the invariant says of a list l with the n places b.                 *)
Along(l, b, n) ==
  /\ n \in Nat /\ b \in [Nat -> Ptr]
  /\ \A i \in Nat : b[i] # NULL <=> i \in 1..n
  /\ \A i \in Nat : b[i] # NULL => b[i] \in alloc /\ b[i] \in Entries
  /\ \A i, j \in Nat : b[i] = b[j] /\ b[i] # NULL => i = j
  /\ b[0] = NULL /\ b[n + 1] = NULL
  /\ head[l] = b[1] /\ tail[l] = b[n]
  /\ \A i \in 1..n : next[b[i]] = b[i + 1]
  /\ \A i \in 1..n : l \notin oneway \/ i = 1 => prev[b[i]] = b[i - 1]

(* ... and of the variables.                                                *)
Pointers ==
  /\ alloc \subseteq Entries /\ next \in [Entries -> Ptr] /\ prev \in [Entries -> Ptr]
  /\ head \in [Lists -> Ptr] /\ tail \in [Lists -> Ptr] /\ count \in [Lists -> Nat]
  /\ oneway \subseteq Lists
  /\ \A p \in Entries \ alloc : next[p] = NULL /\ prev[p] = NULL

(* Places of list l are in the list, and others hold NULL.                  *)
LEMMA PlaceFacts ==
  ASSUME NEW c, Shape(c), NEW l \in Lists
  PROVE  Along(l, c[l], count[l]) /\ Pointers
<1>1. /\ count[l] \in Nat /\ c[l] \in [Nat -> Ptr]
      /\ \A i \in Nat : c[l][i] # NULL <=> i \in 1..count[l]
      /\ \A i, j \in Nat : c[l][i] = c[l][j] /\ c[l][i] # NULL => i = j
  BY DEF Shape, Placed
<1>2. /\ head[l] = c[l][1] /\ tail[l] = c[l][count[l]]
      /\ \A i \in 1..count[l] : next[c[l][i]] = c[l][i + 1]
      /\ \A i \in 1..count[l] : l \notin oneway \/ i = 1 => prev[c[l][i]] = c[l][i - 1]
  BY DEF Shape, Threaded, Backed
<1>3. ASSUME NEW i \in Nat, c[l][i] # NULL PROVE c[l][i] \in alloc /\ c[l][i] \in Entries
  <2>1. c[l][i] \in Entries
    BY <1>1, <1>3 DEF Ptr
  <2>2. QED
    BY <2>1 DEF Shape, Placed
<1>4. c[l][0] = NULL /\ c[l][count[l] + 1] = NULL
  <2>1. 0 \in Nat /\ count[l] + 1 \in Nat /\ 0 \notin 1..count[l] /\ count[l] + 1 \notin 1..count[l]
    BY <1>1
  <2>2. QED
    BY <1>1, <2>1
<1>5. Pointers
  BY DEF Shape, Placed, Threaded, Backed, Blank, Pointers
<1>6. QED
  BY <1>1, <1>2, <1>3, <1>4, <1>5 DEF Along

(* A call gives list l the n cells that g names, of those that are free or  *)
(* were its own, sets the pointers of these and no others, and clears those *)
(* of the cells it frees.                                                   *)
Rearranged(c, l, n, g) ==
  /\ n \in Nat /\ g \in [Nat -> Ptr]
  /\ \A i \in Nat : g[i] # NULL <=> i \in 1..n
  /\ \A i, j \in 1..n : g[i] = g[j] => i = j
  /\ \A i \in 1..n : g[i] \in alloc => In(c, l, g[i])
  /\ alloc' \subseteq Entries
  /\ \A e \in Entries : e \in alloc' <=> (e \in alloc /\ ~In(c, l, e)) \/ \E i \in 1..n : g[i] = e
  /\ count' = [count EXCEPT ![l] = n]
  /\ head' = [head EXCEPT ![l] = g[1]]
  /\ tail' = [tail EXCEPT ![l] = g[n]]
  /\ next' \in [Entries -> Ptr] /\ prev' \in [Entries -> Ptr] /\ oneway' \subseteq Lists
  /\ \A m \in Lists \ {l} : m \in oneway' <=> m \in oneway
  /\ \A e \in alloc : ~In(c, l, e) => next'[e] = next[e] /\ prev'[e] = prev[e]
  /\ \A i \in 1..n : next'[g[i]] = g[i + 1]
  /\ \A i \in 1..n : l \notin oneway' \/ i = 1 => prev'[g[i]] = g[i - 1]
  /\ Blank(alloc', next', prev') /\ ~fault'

(* The cells c, but for list l, which has the cells g.                      *)
Place(c, l, g) == [m \in Lists |-> IF m = l THEN g ELSE c[m]]

(* Such a call keeps the shape.                                             *)
LEMMA OneListKept ==
  ASSUME NEW c, Shape(c), NEW l \in Lists, NEW n, NEW g, Rearranged(c, l, n, g)
  PROVE  Arranged' /\ Shape(Place(c, l, g))'
<1> USE DEF Rearranged
<1>1. PICK d : d = Place(c, l, g)
  OBVIOUS
<1>2. d[l] = g /\ \A m \in Lists \ {l} : d[m] = c[m]
  BY <1>1 DEF Place
<1>3. d \in [Lists -> [Nat -> Ptr]]
  BY <1>1 DEF Shape, Placed, Place
<1>4. count' \in [Lists -> Nat] /\ count'[l] = n /\ \A m \in Lists \ {l} : count'[m] = count[m]
  BY DEF Shape, Placed
<1>5. ASSUME NEW m \in Lists \ {l}, NEW i \in Nat, c[m][i] # NULL
      PROVE  c[m][i] \in alloc /\ c[m][i] \in Entries /\ ~In(c, l, c[m][i])
  <2>1. c[m][i] \in alloc /\ c[m][i] \in Entries
    BY <1>5, PlaceFacts DEF Along
  <2>2. QED
    BY <1>5, <2>1 DEF Shape, Placed, In
<1>6. ASSUME NEW m \in Lists \ {l}, NEW i \in Nat, NEW j \in Nat, c[m][i] # NULL PROVE c[m][i] # g[j]
  BY <1>5, <1>6
<1>7. Placed(d, alloc', count')
  <2>1. ASSUME NEW m \in Lists, NEW i \in Nat PROVE d[m][i] # NULL <=> i \in 1..count'[m]
    <3>1. CASE m = l
      BY <1>2, <1>4, <3>1
    <3>2. CASE m # l
      BY <1>2, <1>4, <3>2, PlaceFacts DEF Along
    <3>3. QED
      BY <3>1, <3>2
  <2>2. ASSUME NEW m \in Lists, NEW k \in Lists, NEW i \in Nat, NEW j \in Nat,
               d[m][i] = d[k][j], d[m][i] # NULL
        PROVE  m = k /\ i = j
    <3>1. CASE m = l /\ k = l
      BY <1>2, <2>2, <3>1
    <3>2. CASE m # l /\ k = l
      BY <1>2, <1>6, <2>2, <3>2
    <3>3. CASE m = l /\ k # l
      BY <1>2, <1>6, <2>2, <3>3
    <3>4. CASE m # l /\ k # l
      BY <1>2, <2>2, <3>4 DEF Shape, Placed
    <3>5. QED
      BY <3>1, <3>2, <3>3, <3>4
  <2>3. ASSUME NEW e \in Entries, e \in alloc' PROVE \E m \in Lists : \E i \in Nat : d[m][i] = e
    <3>1. CASE \E i \in 1..n : g[i] = e
      <4>1. \A i \in 1..n : i \in Nat
        OBVIOUS
      <4>2. QED
        BY <1>2, <3>1, <4>1
    <3>2. CASE e \in alloc /\ ~In(c, l, e)
      <4>1. PICK m \in Lists, i \in Nat : c[m][i] = e
        BY <3>2 DEF Shape, Placed
      <4>2. m # l
        BY <3>2, <4>1 DEF In
      <4>3. QED
        BY <1>2, <4>1, <4>2
    <3>3. QED
      BY <2>3, <3>1, <3>2
  <2>4. ASSUME NEW e \in Entries, NEW m \in Lists, NEW i \in Nat, d[m][i] = e PROVE e \in alloc'
    <3>1. e # NULL
      BY NullAssumption
    <3>2. CASE m = l
      <4>1. i \in 1..n
        BY <1>2, <2>4, <3>1, <3>2
      <4>2. QED
        BY <1>2, <2>4, <3>2, <4>1
    <3>3. CASE m # l
      BY <1>2, <1>5, <2>4, <3>1, <3>3
    <3>4. QED
      BY <3>2, <3>3
  <2>5. QED
    BY <1>3, <1>4, <2>1, <2>2, <2>3, <2>4 DEF Placed
<1>8. ASSUME NEW m \in Lists \ {l}, NEW i \in 1..count[m]
      PROVE  i \in Nat /\ next'[c[m][i]] = next[c[m][i]] /\ prev'[c[m][i]] = prev[c[m][i]]
  <2>1. i \in Nat /\ c[m][i] # NULL
    BY PlaceFacts DEF Along
  <2>2. QED
    BY <1>5, <2>1
<1>9. Threaded(d, next', head', tail', count')
  <2>1. head' \in [Lists -> Ptr] /\ tail' \in [Lists -> Ptr]
    BY DEF Shape, Threaded
  <2>2. ASSUME NEW m \in Lists PROVE head'[m] = d[m][1] /\ tail'[m] = d[m][count'[m]]
    <3>1. CASE m = l
      BY <1>2, <1>4, <3>1 DEF Shape, Threaded
    <3>2. CASE m # l
      BY <1>2, <1>4, <3>2 DEF Shape, Threaded
    <3>3. QED
      BY <3>1, <3>2
  <2>3. ASSUME NEW m \in Lists, NEW i \in 1..count'[m] PROVE next'[d[m][i]] = d[m][i + 1]
    <3>1. CASE m = l
      BY <1>2, <1>4, <3>1
    <3>2. CASE m # l
      BY <1>2, <1>4, <1>8, <3>2, PlaceFacts DEF Along
    <3>3. QED
      BY <3>1, <3>2
  <2>4. QED
    BY <2>1, <2>2, <2>3 DEF Threaded
<1>10. Backed(d, prev', count', oneway')
  <2>1. ASSUME NEW m \in Lists, NEW i \in 1..count'[m], m \notin oneway' \/ i = 1
        PROVE  prev'[d[m][i]] = d[m][i - 1]
    <3>1. CASE m = l
      BY <1>2, <1>4, <2>1, <3>1
    <3>2. CASE m # l
      <4>1. m \notin oneway \/ i = 1
        BY <2>1, <3>2
      <4>2. i \in 1..count[m]
        BY <1>4, <3>2
      <4>3. prev[c[m][i]] = c[m][i - 1]
        BY <4>1, <4>2, PlaceFacts DEF Along
      <4>4. QED
        BY <1>2, <1>8, <3>2, <4>2, <4>3
    <3>3. QED
      BY <3>1, <3>2
  <2>2. QED
    BY <2>1 DEF Backed
<1>11. Shape(d)'
  BY <1>7, <1>9, <1>10 DEF Shape
<1>12. Arranged'
  BY <1>3, <1>11 DEF Arranged
<1>13. QED
  BY <1>1, <1>11, <1>12

-----------------------------------------------------------------------------
(* The strings. *)

(* The elements of two sequences together.                                  *)
LEMMA ConcatIs ==
  ASSUME NEW S, NEW E \in Seq(S), NEW F \in Seq(S), NEW n, n = Len(E), NEW k, k = Len(F)
  PROVE  /\ E \o F \in Seq(S) /\ Len(E \o F) = n + k /\ \A i \in 1..n : (E \o F)[i] = E[i]
         /\ \A i \in 1..(n + k) : i > n => (E \o F)[i] = F[i - n]
<1>1. n \in Nat /\ k \in Nat
  OBVIOUS
<1>2. /\ E \o F \in Seq(S) /\ Len(E \o F) = n + k
      /\ \A i \in 1..(n + k) : (E \o F)[i] = IF i <= n THEN E[i] ELSE F[i - n]
  BY ConcatProperties
<1>3. \A i \in 1..n : i \in 1..(n + k) /\ i <= n
  BY <1>1
<1>4. \A i \in 1..(n + k) : i > n => ~(i <= n)
  BY <1>1
<1>5. QED
  BY <1>2, <1>3, <1>4

(* F is the sequence E, of length n, without its element k.                 *)
Without(F, E, n, k) ==
  Len(F) = n - 1 /\ \A i \in 1..(n - 1) : F[i] = IF i < k THEN E[i] ELSE E[i + 1]

(* The elements of a sequence without one of them.                          *)
LEMMA RemoveAtIs ==
  ASSUME NEW S, NEW E \in Seq(S), NEW n, n = Len(E), NEW k \in 1..n, NEW F, F = RemoveAt(E, k)
  PROVE  F \in Seq(S) /\ Without(F, E, n, k)
<1>1. n \in Nat /\ k \in Nat /\ 1 <= k /\ k <= n
  OBVIOUS
<1>2. PICK A : A = SubSeq(E, 1, k - 1)
  OBVIOUS
<1>3. PICK B : B = SubSeq(E, k + 1, n)
  OBVIOUS
<1>4. A \in Seq(S) /\ Len(A) = k - 1 /\ \A i \in 1..(k - 1) : A[i] = E[i]
  BY <1>1, <1>2
<1>5. B \in Seq(S) /\ Len(B) = n - k /\ \A i \in 1..(n - k) : B[i] = E[k + i]
  BY <1>1, <1>3
<1>6. F = A \o B
  BY <1>2, <1>3 DEF RemoveAt
<1>7. PICK a : a = k - 1
  OBVIOUS
<1>8. PICK b : b = n - k
  OBVIOUS
<1>9. /\ A \o B \in Seq(S) /\ Len(A \o B) = a + b /\ \A i \in 1..a : (A \o B)[i] = A[i]
      /\ \A i \in 1..(a + b) : i > a => (A \o B)[i] = B[i - a]
  <2>1. A \in Seq(S) /\ B \in Seq(S) /\ a = Len(A) /\ b = Len(B)
    BY <1>4, <1>5, <1>7, <1>8
  <2>2. QED
    BY ONLY <2>1, ConcatIs
<1>10. a + b = n - 1 /\ a \in Nat /\ b \in Nat
  BY <1>1, <1>7, <1>8
<1>11. ASSUME NEW i \in 1..(n - 1) PROVE (A \o B)[i] = IF i < k THEN E[i] ELSE E[i + 1]
  <2>1. CASE i < k
    <3>1. i \in 1..a /\ i \in 1..(k - 1)
      BY <1>1, <1>7, <2>1
    <3>2. QED
      BY <1>4, <1>9, <2>1, <3>1
  <2>2. CASE ~(i < k)
    <3>1. i \in 1..(a + b) /\ i > a /\ i - a \in 1..(n - k) /\ k + (i - a) = i + 1
      BY <1>1, <1>7, <1>8, <2>2
    <3>2. QED
      BY <1>5, <1>9, <2>2, <3>1
  <2>3. QED
    BY <2>1, <2>2
<1>12. QED
  BY <1>6, <1>9, <1>10, <1>11 DEF Without

(* The entries of the lists hold strings.                                   *)
Filled == value \in [Entries -> Values \cup {NULL}] /\ \A e \in alloc : value[e] \in Values

(* The strings of a list are those of its places.                           *)
LEMMA ElementsAre ==
  ASSUME NEW c, Shape(c), Filled, NEW l \in Lists
  PROVE  /\ Elements(l) \in Seq(Values) /\ Len(Elements(l)) = count[l] /\ count[l] \in Nat
         /\ \A i \in 1..count[l] : Elements(l)[i] = value[c[l][i]]
<1>1. PICK w : w = Chain(l)
  OBVIOUS
<1>2. PICK n : n = count[l]
  OBVIOUS
<1>3. /\ n \in Nat /\ Len(w) = n /\ \A i \in 1..n : w[i] = c[l][i]
      /\ \A i \in 1..n : value[c[l][i]] \in Values
  BY <1>1, <1>2, ChainIs DEF Filled
<1>4. Elements(l) = [i \in 1..Len(w) |-> value[w[i]]]
  BY <1>1 DEF Elements
<1>5. QED
  BY <1>2, <1>3, <1>4

(* So they are after the call.                                              *)
LEMMA ElementsThen ==
  ASSUME NEW d, Shape(d)', NEW l \in Lists
  PROVE  Elements(l)' = [i \in 1..count'[l] |-> value'[d[l][i]]]
<1>1. Placed(d, alloc', count') /\ Threaded(d, next', head', tail', count')
  BY DEF Shape
<1>2. PICK w : w = Walk(head'[l], next')
  OBVIOUS
<1>3. w = [i \in 1..count'[l] |-> d[l][i]]
  BY <1>1, <1>2, ChainOf
<1>4. count'[l] \in Nat
  BY <1>1 DEF Placed
<1>5. Elements(l)' = [i \in 1..Len(w) |-> value'[w[i]]]
  BY <1>2 DEF Elements, Chain
<1>6. Len(w) = count'[l] /\ \A i \in 1..count'[l] : w[i] = d[l][i]
  BY <1>3, <1>4
<1>7. QED
  BY <1>5, <1>6

(* A call leaves the strings s in list l, and the other lists as they are.  *)
Becomes(l, s) ==
  /\ Arranged' /\ Filled'
  /\ \A m \in Lists : Elements(m)' = IF m = l THEN s ELSE Elements(m)

(* It does when it rearranges the cells and sets their strings to s.        *)
Refilled(c, l, n, g, s) ==
  /\ Rearranged(c, l, n, g) /\ s \in Seq(Values) /\ Len(s) = n
  /\ \A i \in 1..n : value'[g[i]] = s[i]
  /\ \A e \in alloc : ~In(c, l, e) => value'[e] = value[e]
  /\ value' \in [Entries -> Values \cup {NULL}]

LEMMA OneListBecomes ==
  ASSUME NEW c, Shape(c), Filled, NEW l \in Lists, NEW n, NEW g, NEW s, Refilled(c, l, n, g, s)
  PROVE  Becomes(l, s)
<1>1. PICK d : d = Place(c, l, g)
  OBVIOUS
<1>2. Arranged' /\ Shape(d)'
  BY <1>1, OneListKept DEF Refilled
<1>3. d[l] = g /\ \A m \in Lists \ {l} : d[m] = c[m]
  BY <1>1 DEF Place
<1>4. /\ n \in Nat /\ count'[l] = n /\ \A m \in Lists \ {l} : count'[m] = count[m]
      /\ \A e \in Entries : e \in alloc' <=> (e \in alloc /\ ~In(c, l, e)) \/ \E i \in 1..n : g[i] = e
      /\ alloc' \subseteq Entries
  BY DEF Refilled, Rearranged, Shape, Placed
<1>5. Elements(l)' = s
  <2>1. Elements(l)' = [i \in 1..n |-> value'[g[i]]]
    BY <1>2, <1>3, <1>4, ElementsThen
  <2>2. [i \in 1..n |-> value'[g[i]]] = [i \in 1..n |-> s[i]]
    BY DEF Refilled
  <2>3. s = [i \in 1..n |-> s[i]]
    BY DEF Refilled
  <2>4. QED
    BY <2>1, <2>2, <2>3
<1>6. ASSUME NEW m \in Lists \ {l} PROVE Elements(m)' = Elements(m)
  <2>1. Elements(m)' = [i \in 1..count[m] |-> value'[c[m][i]]]
    <3>1. Elements(m)' = [i \in 1..count'[m] |-> value'[d[m][i]]]
      BY <1>2, ElementsThen
    <3>2. QED
      BY <1>3, <1>4, <3>1
  <2>2. ASSUME NEW i \in 1..count[m] PROVE value'[c[m][i]] = value[c[m][i]]
    <3>1. i \in Nat /\ c[m][i] # NULL /\ c[m][i] \in alloc
      BY PlaceFacts DEF Along
    <3>2. ~In(c, l, c[m][i])
      BY <3>1 DEF Shape, Placed, In
    <3>3. QED
      BY <3>1, <3>2 DEF Refilled
  <2>3. /\ Elements(m) \in Seq(Values) /\ Len(Elements(m)) = count[m]
        /\ \A i \in 1..count[m] : Elements(m)[i] = value[c[m][i]]
    BY ElementsAre
  <2>4. PICK E : E = Elements(m)
    OBVIOUS
  <2>5. E = [i \in 1..count[m] |-> value[c[m][i]]]
    BY <2>3, <2>4
  <2>6. QED
    BY <2>1, <2>2, <2>4, <2>5
<1>7. Filled'
  <2>1. ASSUME NEW e \in alloc' PROVE value'[e] \in Values
    <3>1. CASE e \in alloc /\ ~In(c, l, e)
      BY <3>1 DEF Refilled, Filled
    <3>2. CASE \E i \in 1..n : g[i] = e
      <4>1. PICK i \in 1..n : g[i] = e
        BY <3>2
      <4>2. s[i] \in Values /\ value'[g[i]] = s[i]
        BY <4>1, ElementOfSeq DEF Refilled
      <4>3. QED
        BY <4>1, <4>2
    <3>3. QED
      BY <1>4, <3>1, <3>2
  <2>2. QED
    BY <2>1 DEF Filled, Refilled
<1>8. QED
  BY <1>2, <1>5, <1>6, <1>7 DEF Becomes

-----------------------------------------------------------------------------
(* The calls. *)

(* list_push puts a free cell behind the last one.                          *)
LEMMA PushDone ==
  ASSUME NEW c, Shape(c), Filled, NEW l \in Lists, NEW v \in Values, Push(l, v)
  PROVE  Becomes(l, Append(Elements(l), v))
<1> DEFINE n == count[l]
           b == c[l]
<1>1. PICK e \in Entries \ alloc :
        /\ alloc' = alloc \cup {e}
        /\ value' = [value EXCEPT ![e] = v]
        /\ prev' = [prev EXCEPT ![e] = tail[l]]
        /\ next' = [p \in Entries |-> IF p = tail[l] THEN e ELSE next[p]]
        /\ head' = [head EXCEPT ![l] = IF @ = NULL THEN e ELSE @]
        /\ tail' = [tail EXCEPT ![l] = e]
  BY DEF Push
<1>2. count' = [count EXCEPT ![l] = @ + 1] /\ oneway' = oneway
      /\ fault' = (tail[l] # NULL /\ ~Valid(tail[l]))
  BY DEF Push
<1>3. Along(l, b, n) /\ Pointers
  BY PlaceFacts
<1> USE DEF Along, Pointers
<1>5. \A p : In(c, l, p) <=> \E j \in Nat : b[j] = p
  BY DEF In
<1>6. e # NULL /\ e \in Entries /\ e \notin alloc /\ e # tail[l]
  BY <1>3, NullAssumption
<1>7. count' = [count EXCEPT ![l] = n + 1]
  BY <1>2
<1> HIDE DEF n, b
<1>8. PICK g : g = [i \in Nat |-> IF i = n + 1 THEN e ELSE b[i]]
  OBVIOUS
<1>9. /\ g \in [Nat -> Ptr] /\ g[n + 1] = e /\ g[n + 2] = b[n + 2]
      /\ \A i \in Nat : i # n + 1 => g[i] = b[i]
      /\ \A i \in 1..n : g[i] = b[i]
  BY <1>3, <1>6, <1>8 DEF Ptr
<1>10. \A i \in Nat : g[i] # NULL <=> i \in 1..(n + 1)
  BY <1>3, <1>6, <1>9
<1>11. \A i, j \in 1..(n + 1) : g[i] = g[j] => i = j
  <2>1. ASSUME NEW i \in 1..(n + 1), NEW j \in 1..(n + 1), g[i] = g[j] PROVE i = j
    <3>1. i \in Nat /\ j \in Nat /\ g[i] # NULL /\ g[j] # NULL
      BY <1>3, <1>10
    <3>2. CASE i = n + 1 \/ j = n + 1
      BY <1>3, <1>6, <1>9, <2>1, <3>1, <3>2
    <3>3. CASE i # n + 1 /\ j # n + 1
      BY <1>3, <1>9, <2>1, <3>1, <3>3
    <3>4. QED
      BY <3>2, <3>3
  <2>2. QED
    BY <2>1
<1>12. \A i \in 1..(n + 1) : g[i] \in alloc => In(c, l, g[i])
  <2>1. ASSUME NEW i \in 1..(n + 1), g[i] \in alloc PROVE In(c, l, g[i])
    <3>1. i \in Nat /\ i # n + 1
      BY <1>3, <1>6, <1>9, <2>1
    <3>2. QED
      BY <1>5, <1>9, <3>1
  <2>2. QED
    BY <2>1
<1>13. ASSUME NEW p \in Entries
       PROVE  p \in alloc' <=> (p \in alloc /\ ~In(c, l, p)) \/ \E i \in 1..(n + 1) : g[i] = p
  <2>1. ASSUME p \in alloc, In(c, l, p) PROVE \E i \in 1..(n + 1) : g[i] = p
    <3>1. PICK j \in Nat : b[j] = p
      BY <1>5, <2>1
    <3>2. j \in 1..n
      BY <1>3, <3>1, NullAssumption
    <3>3. j \in 1..(n + 1) /\ g[j] = p
      BY <1>3, <1>9, <3>1, <3>2
    <3>4. QED
      BY <3>3
  <2>2. ASSUME NEW i \in 1..(n + 1), g[i] = p PROVE p \in alloc'
    BY <1>1, <1>3, <1>9, <2>2, NullAssumption
  <2>3. e = p => \E i \in 1..(n + 1) : g[i] = p
    <3>1. n + 1 \in 1..(n + 1)
      BY <1>3
    <3>2. QED
      BY <1>9, <3>1
  <2>4. QED
    BY <1>1, <2>1, <2>2, <2>3
<1>14. head' = [head EXCEPT ![l] = g[1]] /\ tail' = [tail EXCEPT ![l] = g[n + 1]]
  <2>1. head[l] = NULL <=> n = 0
    BY <1>3
  <2>2. g[1] = IF head[l] = NULL THEN e ELSE head[l]
    <3>1. CASE n = 0
      BY <1>9, <2>1, <3>1
    <3>2. CASE n # 0
      BY <1>3, <1>9, <2>1, <3>2
    <3>3. QED
      BY <3>1, <3>2
  <2>3. QED
    BY <1>1, <1>9, <2>2
<1>15. next' \in [Entries -> Ptr] /\ prev' \in [Entries -> Ptr]
  BY <1>1, <1>3, <1>6 DEF Ptr
<1>16. ASSUME NEW p \in alloc, ~In(c, l, p) PROVE next'[p] = next[p] /\ prev'[p] = prev[p]
  <2>1. p # tail[l]
    BY <1>3, <1>5, <1>16
  <2>2. QED
    BY <1>1, <1>3, <2>1
<1>17. ASSUME NEW i \in 1..(n + 1) PROVE next'[g[i]] = g[i + 1]
  <2>1. CASE i = n + 1
    <3>1. i + 1 = n + 2 /\ n + 2 \notin 1..n /\ n + 2 \in Nat
      BY <1>3, <2>1
    <3>2. g[i + 1] = NULL
      BY <1>3, <1>9, <3>1
    <3>3. QED
      BY <1>1, <1>3, <1>6, <1>9, <2>1, <3>2
  <2>2. CASE i = n
    <3>1. n \in 1..n /\ n \in Nat /\ n + 1 \in Nat
      BY <1>3, <2>2
    <3>2. g[n] = tail[l] /\ tail[l] \in Entries /\ g[n + 1] = e
      BY <1>3, <1>9, <3>1
    <3>3. QED
      BY <1>1, <2>2, <3>2
  <2>3. CASE i # n + 1 /\ i # n
    <3>1. i \in 1..n /\ i \in Nat /\ i + 1 \in Nat /\ i + 1 # n + 1
      BY <1>3, <2>3
    <3>2. g[i] = b[i] /\ g[i + 1] = b[i + 1] /\ b[i] \in Entries /\ next[b[i]] = b[i + 1]
      BY <1>3, <1>9, <3>1
    <3>3. b[i] # tail[l]
      BY <1>3, <2>3, <3>1
    <3>4. QED
      BY <1>1, <3>2, <3>3
  <2>4. QED
    BY <2>1, <2>2, <2>3
<1>18. ASSUME NEW i \in 1..(n + 1), l \notin oneway' \/ i = 1 PROVE prev'[g[i]] = g[i - 1]
  <2>1. CASE i = n + 1
    <3>1. i - 1 = n /\ n # n + 1
      BY <1>3, <2>1
    <3>2. g[n] = tail[l]
      BY <1>3, <1>9, <3>1
    <3>3. QED
      BY <1>1, <1>3, <1>9, <2>1, <3>1, <3>2
  <2>2. CASE i # n + 1
    <3>1. i \in 1..n /\ i \in Nat /\ i - 1 \in Nat /\ i - 1 # n + 1
      BY <1>3, <2>2
    <3>2. g[i] = b[i] /\ g[i - 1] = b[i - 1] /\ b[i] \in Entries /\ b[i] \in alloc /\ prev[b[i]] = b[i - 1]
      BY <1>2, <1>3, <1>9, <1>18, <3>1
    <3>3. QED
      BY <1>1, <1>6, <3>2
  <2>3. QED
    BY <2>1, <2>2
<1>19. Blank(alloc', next', prev')
  <2>1. ASSUME NEW p \in Entries \ alloc' PROVE next'[p] = NULL /\ prev'[p] = NULL
    <3>1. p \in Entries \ alloc /\ p # e
      BY <1>1
    <3>2. p # tail[l]
      BY <1>3, <3>1, NullAssumption
    <3>3. QED
      BY <1>1, <1>3, <3>1, <3>2
  <2>2. QED
    BY <2>1 DEF Blank
<1>20. ~fault'
  BY <1>2, <1>3 DEF Valid
<1>21. alloc' \subseteq Entries /\ n + 1 \in Nat /\ oneway' \subseteq Lists
  BY <1>1, <1>2, <1>3
<1>22. \A m \in Lists \ {l} : m \in oneway' <=> m \in oneway
  BY <1>2
<1>23. Rearranged(c, l, n + 1, g)
  BY <1>7, <1>9, <1>10, <1>11, <1>12, <1>13, <1>14, <1>15, <1>16, <1>17, <1>18, <1>19,
     <1>20, <1>21, <1>22 DEF Rearranged
<1>24. PICK E : E = Elements(l)
  OBVIOUS
<1>25. E \in Seq(Values) /\ Len(E) = n /\ \A i \in 1..n : E[i] = value[b[i]]
  BY <1>24, ElementsAre DEF n, b
<1>26. PICK F : F = Append(E, v)
  OBVIOUS
<1>27. F \in Seq(Values) /\ Len(F) = n + 1 /\ F[n + 1] = v /\ \A i \in 1..n : F[i] = E[i]
  BY <1>25, <1>26
<1>28. value' \in [Entries -> Values \cup {NULL}] /\ value'[e] = v
       /\ \A p \in alloc : value'[p] = value[p]
  BY <1>1, <1>3, <1>6 DEF Filled
<1>29. ASSUME NEW i \in 1..(n + 1) PROVE value'[g[i]] = F[i]
  <2>1. CASE i = n + 1
    BY <1>9, <1>27, <1>28, <2>1
  <2>2. CASE i # n + 1
    <3>1. i \in 1..n /\ i \in Nat
      BY <1>3, <2>2
    <3>2. g[i] = b[i] /\ b[i] \in alloc
      BY <1>3, <1>9, <3>1
    <3>3. QED
      BY <1>25, <1>27, <1>28, <3>1, <3>2
  <2>3. QED
    BY <2>1, <2>2
<1>30. Refilled(c, l, n + 1, g, F)
  BY <1>23, <1>27, <1>28, <1>29 DEF Refilled
<1>31. QED
  BY <1>24, <1>26, <1>30, OneListBecomes

(* list_unshift puts a free cell before the first one.                      *)
LEMMA UnshiftDone ==
  ASSUME ~fault, NEW c, Shape(c), Filled, NEW l \in Lists, NEW v \in Values, Unshift(l, v)
  PROVE  Becomes(l, <<v>> \o Elements(l))
<1> DEFINE n == count[l]
           b == c[l]
<1>1. PICK e \in Entries \ alloc :
        /\ alloc' = alloc \cup {e}
        /\ value' = [value EXCEPT ![e] = v]
        /\ next' = [next EXCEPT ![e] = IF n > 0 THEN head[l] ELSE NULL]
        /\ tail' = [tail EXCEPT ![l] = IF n > 0 THEN @ ELSE e]
        /\ head' = [head EXCEPT ![l] = e]
  BY DEF Unshift
<1>2. /\ count' = [count EXCEPT ![l] = n + 1] /\ prev' = prev /\ ~fault'
      /\ oneway' = IF n > 0 THEN oneway \cup {l} ELSE oneway
  BY DEF Unshift
<1>3. Along(l, b, n) /\ Pointers
  BY PlaceFacts
<1> USE DEF Along, Pointers
<1>4. \A p : In(c, l, p) <=> \E j \in Nat : b[j] = p
  BY DEF In
<1>5. e # NULL /\ e \in Entries /\ e \notin alloc
  BY NullAssumption
<1> HIDE DEF n, b
<1>6. next' = [next EXCEPT ![e] = b[1]]
  <2>1. n > 0 \/ b[1] = NULL
    BY <1>3
  <2>2. QED
    BY <1>1, <1>3, <2>1
<1>7. PICK g : g = [i \in Nat |-> IF i = 0 THEN NULL ELSE IF i = 1 THEN e ELSE b[i - 1]]
  OBVIOUS
<1>8. g \in [Nat -> Ptr]
  <2>1. ASSUME NEW i \in Nat PROVE (IF i = 0 THEN NULL ELSE IF i = 1 THEN e ELSE b[i - 1]) \in Ptr
    <3>1. i # 0 => i - 1 \in Nat
      OBVIOUS
    <3>2. QED
      BY <1>3, <1>5, <3>1 DEF Ptr
  <2>2. QED
    BY <1>7, <2>1
<1>9. /\ g[0] = NULL /\ g[1] = e
      /\ \A i \in Nat : i # 0 => g[i + 1] = b[i]
      /\ \A i \in Nat : i > 1 => i - 1 \in Nat /\ i - 1 # 0 /\ g[i] = b[i - 1]
  <2>1. ASSUME NEW i \in Nat, i # 0 PROVE g[i + 1] = b[i]
    <3>1. i + 1 \in Nat /\ i + 1 # 0 /\ i + 1 # 1 /\ (i + 1) - 1 = i
      BY <2>1
    <3>2. QED
      BY <1>7, <3>1
  <2>2. ASSUME NEW i \in Nat, i > 1 PROVE i - 1 \in Nat /\ i - 1 # 0 /\ g[i] = b[i - 1]
    BY <1>7, <2>2
  <2>3. QED
    BY <1>7, <2>1, <2>2
<1>10. ASSUME NEW i \in Nat PROVE g[i] # NULL <=> i \in 1..(n + 1)
  <2>1. CASE i = 0 \/ i = 1
    BY <1>3, <1>5, <1>9, <2>1
  <2>2. CASE i > 1
    <3>1. i - 1 \in 1..n <=> i \in 1..(n + 1)
      BY <1>3, <2>2
    <3>2. QED
      BY <1>3, <1>9, <2>2, <3>1
  <2>3. QED
    BY <2>1, <2>2
<1>11. ASSUME NEW i \in 1..(n + 1), NEW j \in 1..(n + 1), g[i] = g[j] PROVE i = j
  <2>1. i \in Nat /\ j \in Nat /\ g[i] # NULL /\ g[j] # NULL /\ (i = 1 \/ i > 1) /\ (j = 1 \/ j > 1)
    BY <1>3, <1>10
  <2>2. CASE i = 1 \/ j = 1
    BY <1>3, <1>5, <1>9, <1>11, <2>1, <2>2
  <2>3. CASE i > 1 /\ j > 1
    <3>1. i - 1 \in Nat /\ j - 1 \in Nat /\ b[i - 1] = b[j - 1] /\ b[i - 1] # NULL
      BY <1>9, <1>11, <2>1, <2>3
    <3>2. i - 1 = j - 1
      BY <1>3, <3>1
    <3>3. QED
      BY <2>1, <3>2
  <2>4. QED
    BY <2>1, <2>2, <2>3
<1>12. ASSUME NEW i \in 1..(n + 1), g[i] \in alloc PROVE In(c, l, g[i])
  <2>1. i \in Nat /\ i > 1
    <3>1. i \in Nat /\ (i = 1 \/ i > 1)
      BY <1>3
    <3>2. QED
      BY <1>5, <1>9, <1>12, <3>1
  <2>2. QED
    BY <1>4, <1>9, <2>1
<1>13. ASSUME NEW p \in Entries
       PROVE  p \in alloc' <=> (p \in alloc /\ ~In(c, l, p)) \/ \E i \in 1..(n + 1) : g[i] = p
  <2>1. ASSUME p \in alloc, In(c, l, p) PROVE \E i \in 1..(n + 1) : g[i] = p
    <3>1. PICK j \in Nat : b[j] = p
      BY <1>4, <2>1
    <3>2. j \in 1..n
      BY <1>3, <3>1, NullAssumption
    <3>3. j + 1 \in 1..(n + 1) /\ j # 0
      BY <1>3, <3>2
    <3>4. g[j + 1] = p
      BY <1>9, <3>1, <3>3
    <3>5. QED
      BY <3>3, <3>4
  <2>2. ASSUME NEW i \in 1..(n + 1), g[i] = p PROVE p \in alloc'
    <3>1. i \in Nat /\ (i = 1 \/ i > 1)
      BY <1>3
    <3>2. CASE i = 1
      BY <1>1, <1>9, <2>2, <3>2
    <3>3. CASE i > 1
      BY <1>1, <1>3, <1>9, <2>2, <3>1, <3>3, NullAssumption
    <3>4. QED
      BY <3>1, <3>2, <3>3
  <2>3. e = p => \E i \in 1..(n + 1) : g[i] = p
    <3>1. 1 \in 1..(n + 1)
      BY <1>3
    <3>2. QED
      BY <1>9, <3>1
  <2>4. QED
    BY <1>1, <2>1, <2>2, <2>3
<1>14. head' = [head EXCEPT ![l] = g[1]] /\ tail' = [tail EXCEPT ![l] = g[n + 1]]
  <2>1. g[n + 1] = IF n > 0 THEN tail[l] ELSE e
    <3>1. CASE n = 0
      BY <1>9, <3>1
    <3>2. CASE n # 0
      BY <1>3, <1>9, <3>2
    <3>3. QED
      BY <3>1, <3>2
  <2>2. QED
    BY <1>1, <1>9, <2>1
<1>15. next' \in [Entries -> Ptr] /\ prev' \in [Entries -> Ptr]
  BY <1>2, <1>3, <1>6
<1>16. ASSUME NEW p \in alloc, ~In(c, l, p) PROVE next'[p] = next[p] /\ prev'[p] = prev[p]
  BY <1>2, <1>3, <1>5, <1>6
<1>17. ASSUME NEW i \in 1..(n + 1) PROVE next'[g[i]] = g[i + 1]
  <2>1. i \in Nat /\ (i = 1 \/ i > 1) /\ i # 0
    BY <1>3
  <2>2. g[i + 1] = b[i]
    BY <1>9, <2>1
  <2>3. CASE i = 1
    BY <1>3, <1>5, <1>6, <1>9, <2>2, <2>3
  <2>4. CASE i > 1
    <3>1. i - 1 \in 1..n /\ (i - 1) + 1 = i /\ i - 1 \in Nat
      BY <1>3, <2>4
    <3>2. g[i] = b[i - 1] /\ b[i - 1] \in alloc /\ b[i - 1] \in Entries /\ next[b[i - 1]] = b[i]
      BY <1>3, <1>9, <2>1, <2>4, <3>1
    <3>3. QED
      BY <1>3, <1>5, <1>6, <2>2, <3>2
  <2>5. QED
    BY <2>1, <2>3, <2>4
<1>18. ASSUME NEW i \in 1..(n + 1), l \notin oneway' \/ i = 1 PROVE prev'[g[i]] = g[i - 1]
  <2>1. i = 1
    BY <1>2, <1>3, <1>18
  <2>2. QED
    BY <1>2, <1>3, <1>5, <1>9, <2>1
<1>19. Blank(alloc', next', prev')
  BY <1>1, <1>2, <1>3, <1>6 DEF Blank
<1>20. /\ alloc' \subseteq Entries /\ n + 1 \in Nat /\ oneway' \subseteq Lists
       /\ \A m \in Lists \ {l} : m \in oneway' <=> m \in oneway
  BY <1>1, <1>2, <1>3
<1>21. Rearranged(c, l, n + 1, g)
  BY <1>2, <1>8, <1>10, <1>11, <1>12, <1>13, <1>14, <1>15, <1>16, <1>17, <1>18, <1>19, <1>20
  DEF Rearranged
<1>22. PICK E : E = Elements(l)
  OBVIOUS
<1>23. E \in Seq(Values) /\ Len(E) = n /\ \A i \in 1..n : E[i] = value[b[i]]
  BY <1>22, ElementsAre DEF n, b
<1>24. PICK F : F = <<v>> \o E
  OBVIOUS
<1>25. /\ F \in Seq(Values) /\ Len(F) = n + 1 /\ F[1] = v
       /\ \A i \in 1..(n + 1) : i # 1 => i - 1 \in 1..n /\ F[i] = E[i - 1]
  BY <1>23, <1>24
<1>26. value' \in [Entries -> Values \cup {NULL}] /\ value'[e] = v
       /\ \A p \in alloc : value'[p] = value[p]
  BY <1>1, <1>3, <1>5 DEF Filled
<1>27. ASSUME NEW i \in 1..(n + 1) PROVE value'[g[i]] = F[i]
  <2>1. CASE i = 1
    BY <1>9, <1>25, <1>26, <2>1
  <2>2. CASE i # 1
    <3>1. i - 1 \in 1..n /\ i - 1 \in Nat /\ i > 1 /\ i \in Nat
      BY <1>3, <2>2
    <3>2. g[i] = b[i - 1] /\ b[i - 1] \in alloc
      BY <1>3, <1>9, <3>1
    <3>3. QED
      BY <1>23, <1>25, <1>26, <2>2, <3>1, <3>2
  <2>3. QED
    BY <2>1, <2>2
<1>28. Refilled(c, l, n + 1, g, F)
  BY <1>21, <1>25, <1>26, <1>27 DEF Refilled
<1>29. QED
  BY <1>22, <1>24, <1>28, OneListBecomes

(* list_entry_delete unlinks the entry at place k.  It follows its prev     *)
(* pointer, which must have been set.                                       *)
LEMMA EntryDeleteDone ==
  ASSUME NEW c, Shape(c), Filled, NEW l \in Lists, NEW k \in 1..count[l], NEW e, e = c[l][k],
         prev[e] = c[l][k - 1], EntryDelete(l, e)
  PROVE  Becomes(l, RemoveAt(Elements(l), k))
<1> DEFINE n == count[l]
           b == c[l]
<1>1. Along(l, b, n) /\ Pointers
  BY PlaceFacts
<1> USE DEF Along, Pointers
<1>2. /\ n \in Nat /\ k \in 1..n /\ k \in Nat /\ k - 1 \in Nat /\ k + 1 \in Nat /\ n - 1 \in Nat
      /\ 1 <= k /\ k <= n
  BY <1>1
<1>3. \A p : In(c, l, p) <=> \E j \in Nat : b[j] = p
  BY DEF In
<1>4. e = b[k] /\ prev[e] = b[k - 1] /\ next[e] = b[k + 1]
  BY <1>1
<1>5. /\ prev' = Cleared(PrevWithout(e), {e})
      /\ next' = Cleared([p \in Entries |-> IF p = prev[e] THEN next[e] ELSE next[p]], {e})
      /\ head' = [head EXCEPT ![l] = IF @ = e THEN next[e] ELSE @]
      /\ tail' = [tail EXCEPT ![l] = IF @ = e THEN prev[e] ELSE @]
      /\ count' = [count EXCEPT ![l] = n - 1]
      /\ alloc' = alloc \ {e} /\ oneway' = oneway
      /\ fault' = (\E p \in {e, next[e], prev[e]} \ {NULL} : ~Valid(p))
  BY DEF EntryDelete, CountDown
<1> HIDE DEF n, b
<1>6. e \in alloc /\ e \in Entries /\ e # NULL
  BY <1>1, <1>2, <1>4
<1>7. ASSUME NEW p \in Entries
      PROVE  /\ next'[p] = IF p = e THEN NULL ELSE IF p = b[k - 1] THEN b[k + 1] ELSE next[p]
             /\ prev'[p] = IF p = e THEN NULL ELSE IF p = b[k + 1] THEN b[k - 1] ELSE prev[p]
  BY <1>4, <1>5 DEF Cleared, PrevWithout
<1>8. next' \in [Entries -> Ptr] /\ prev' \in [Entries -> Ptr]
  <2>1. b[k - 1] \in Ptr /\ b[k + 1] \in Ptr
    BY <1>1, <1>2
  <2>2. \A p \in Entries : next'[p] \in Ptr /\ prev'[p] \in Ptr
    BY <1>1, <1>7, <2>1 DEF Ptr
  <2>3. next' = [p \in Entries |-> next'[p]] /\ prev' = [p \in Entries |-> prev'[p]]
    BY <1>5 DEF Cleared
  <2>4. QED
    BY <2>2, <2>3
<1>9. PICK g : g = [i \in Nat |-> IF i < k THEN b[i] ELSE b[i + 1]]
  OBVIOUS
<1>10. /\ g \in [Nat -> Ptr]
       /\ \A i \in Nat : i < k => g[i] = b[i]
       /\ \A i \in Nat : i >= k => i + 1 \in Nat /\ g[i] = b[i + 1]
  BY <1>1, <1>2, <1>9
<1>11. ASSUME NEW i \in Nat PROVE g[i] # NULL <=> i \in 1..(n - 1)
  <2>1. CASE i < k
    <3>1. i \in 1..n <=> i \in 1..(n - 1)
      BY <1>2, <2>1
    <3>2. QED
      BY <1>1, <1>10, <2>1, <3>1
  <2>2. CASE i >= k
    <3>1. i + 1 \in 1..n <=> i \in 1..(n - 1)
      BY <1>2, <2>2
    <3>2. QED
      BY <1>1, <1>10, <2>2, <3>1
  <2>3. QED
    BY <1>2, <2>1, <2>2
<1>12. ASSUME NEW i \in Nat, NEW j \in Nat, b[i] # NULL, b[i] = b[j] PROVE i = j
  BY <1>1, <1>12
<1>13. ASSUME NEW i \in 1..(n - 1)
       PROVE  \E j \in Nat : b[j] = g[i] /\ j # k /\ j = IF i < k THEN i ELSE i + 1
  <2>1. i \in Nat /\ i + 1 \in Nat /\ (i < k \/ i >= k)
    BY <1>2
  <2>2. CASE i < k
    BY <1>2, <1>10, <2>1, <2>2
  <2>3. CASE i >= k
    <3>1. i + 1 # k /\ ~(i < k)
      BY <1>2, <2>1, <2>3
    <3>2. QED
      BY <1>10, <2>1, <2>3, <3>1
  <2>4. QED
    BY <2>1, <2>2, <2>3
<1>14. ASSUME NEW i \in 1..(n - 1), NEW j \in 1..(n - 1), g[i] = g[j] PROVE i = j
  <2>1. i \in Nat /\ j \in Nat /\ g[i] # NULL
    BY <1>2, <1>11
  <2>2. PICK s \in Nat : b[s] = g[i] /\ s = IF i < k THEN i ELSE i + 1
    BY <1>13
  <2>3. PICK t \in Nat : b[t] = g[j] /\ t = IF j < k THEN j ELSE j + 1
    BY <1>13
  <2>4. s = t
    BY <1>12, <1>14, <2>1, <2>2, <2>3
  <2>5. QED
    BY <1>2, <2>1, <2>2, <2>3, <2>4
<1>15. ASSUME NEW i \in 1..(n - 1) PROVE In(c, l, g[i])
  BY <1>3, <1>13
<1>16. ASSUME NEW i \in 1..(n - 1) PROVE g[i] # e /\ g[i] # NULL /\ g[i] \in alloc /\ g[i] \in Entries
  <2>1. g[i] # NULL /\ i \in Nat
    BY <1>2, <1>11
  <2>2. PICK j \in Nat : b[j] = g[i] /\ j # k
    BY <1>13
  <2>3. QED
    BY <1>1, <1>2, <1>4, <1>12, <2>1, <2>2
<1>17. ASSUME NEW p \in Entries
       PROVE  p \in alloc' <=> (p \in alloc /\ ~In(c, l, p)) \/ \E i \in 1..(n - 1) : g[i] = p
  <2>1. In(c, l, e)
    BY <1>2, <1>3, <1>4
  <2>2. ASSUME p \in alloc, In(c, l, p), p # e PROVE \E i \in 1..(n - 1) : g[i] = p
    <3>1. PICK j \in Nat : b[j] = p
      BY <1>3, <2>2
    <3>2. j \in 1..n /\ j # k
      BY <1>1, <1>4, <2>2, <3>1, NullAssumption
    <3>3. CASE j < k
      <4>1. j \in 1..(n - 1)
        BY <1>2, <3>2, <3>3
      <4>2. QED
        BY <1>10, <3>1, <3>3, <4>1
    <3>4. CASE j > k
      <4>1. j - 1 \in 1..(n - 1) /\ j - 1 \in Nat /\ j - 1 >= k /\ (j - 1) + 1 = j
        BY <1>2, <3>2, <3>4
      <4>2. g[j - 1] = p
        BY <1>10, <3>1, <4>1
      <4>3. QED
        BY <4>1, <4>2
    <3>5. QED
      BY <1>2, <3>2, <3>3, <3>4
  <2>3. QED
    BY <1>5, <1>16, <2>1, <2>2
<1>18. head' = [head EXCEPT ![l] = g[1]]
  <2>1. g[1] = IF head[l] = e THEN next[e] ELSE head[l]
    <3>1. CASE k = 1
      BY <1>1, <1>2, <1>4, <1>10, <3>1
    <3>2. CASE k # 1
      <4>1. 1 < k /\ 1 \in Nat
        BY <1>2, <3>2
      <4>2. head[l] # e
        BY <1>1, <1>2, <1>4, <1>6, <1>12, <3>2
      <4>3. QED
        BY <1>1, <1>10, <4>1, <4>2
    <3>3. QED
      BY <3>1, <3>2
  <2>2. QED
    BY <1>5, <2>1
<1>19. tail' = [tail EXCEPT ![l] = g[n - 1]]
  <2>1. g[n - 1] = IF tail[l] = e THEN prev[e] ELSE tail[l]
    <3>1. CASE k = n
      <4>1. n - 1 < k /\ n - 1 = k - 1
        BY <1>2, <3>1
      <4>2. QED
        BY <1>1, <1>2, <1>4, <1>10, <3>1, <4>1
    <3>2. CASE k # n
      <4>1. n - 1 >= k /\ (n - 1) + 1 = n
        BY <1>2, <3>2
      <4>2. tail[l] # e
        BY <1>1, <1>2, <1>4, <1>6, <1>12, <3>2
      <4>3. QED
        BY <1>1, <1>2, <1>10, <4>1, <4>2
    <3>3. QED
      BY <3>1, <3>2
  <2>2. QED
    BY <1>5, <2>1
<1>20. ASSUME NEW p \in alloc, ~In(c, l, p) PROVE next'[p] = next[p] /\ prev'[p] = prev[p]
  <2>1. p \in Entries /\ p # e /\ p # b[k - 1] /\ p # b[k + 1]
    BY <1>1, <1>2, <1>3, <1>4, <1>20
  <2>2. QED
    BY <1>7, <2>1
<1>21. ASSUME NEW i \in 1..(n - 1) PROVE next'[g[i]] = g[i + 1]
  <2>1. i \in Nat /\ i + 1 \in Nat /\ i + 2 \in Nat /\ i \in 1..n /\ i + 1 \in 1..n
    BY <1>2
  <2>2. next'[g[i]] = IF g[i] = b[k - 1] THEN b[k + 1] ELSE next[g[i]]
    BY <1>7, <1>16
  <2>3. CASE i < k /\ i = k - 1
    <3>1. i + 1 = k /\ i + 1 >= k
      BY <1>2, <2>1, <2>3
    <3>2. g[i] = b[k - 1] /\ g[i + 1] = b[k + 1]
      BY <1>10, <2>1, <2>3, <3>1
    <3>3. QED
      BY <2>2, <3>2
  <2>4. CASE i < k /\ i # k - 1
    <3>1. i + 1 < k
      BY <1>2, <2>1, <2>4
    <3>2. g[i] = b[i] /\ g[i + 1] = b[i + 1] /\ next[b[i]] = b[i + 1]
      BY <1>1, <1>10, <2>1, <2>4, <3>1
    <3>3. g[i] # b[k - 1]
      BY <1>2, <1>12, <1>16, <2>1, <2>4, <3>2
    <3>4. QED
      BY <2>2, <3>2, <3>3
  <2>5. CASE i >= k
    <3>1. i + 1 >= k /\ (i + 1) + 1 = i + 2 /\ i + 1 # k - 1
      BY <1>2, <2>1, <2>5
    <3>2. g[i] = b[i + 1] /\ g[i + 1] = b[i + 2] /\ next[b[i + 1]] = b[i + 2]
      BY <1>1, <1>10, <2>1, <2>5, <3>1
    <3>3. g[i] # b[k - 1]
      BY <1>2, <1>12, <1>16, <2>1, <3>1, <3>2
    <3>4. QED
      BY <2>2, <3>2, <3>3
  <2>6. QED
    BY <1>2, <2>1, <2>3, <2>4, <2>5
<1>22. ASSUME NEW i \in 1..(n - 1), l \notin oneway' \/ i = 1 PROVE prev'[g[i]] = g[i - 1]
  <2>1. i \in Nat /\ i + 1 \in Nat /\ i - 1 \in Nat /\ i \in 1..n /\ i + 1 \in 1..n
    BY <1>2
  <2>2. prev'[g[i]] = IF g[i] = b[k + 1] THEN b[k - 1] ELSE prev[g[i]]
    BY <1>7, <1>16
  <2>3. CASE i < k
    <3>1. i - 1 < k /\ i # k + 1
      BY <1>2, <2>1, <2>3
    <3>2. g[i] = b[i] /\ g[i - 1] = b[i - 1] /\ prev[b[i]] = b[i - 1]
      BY <1>1, <1>5, <1>10, <1>22, <2>1, <2>3, <3>1
    <3>3. g[i] # b[k + 1]
      BY <1>2, <1>12, <1>16, <2>1, <3>1, <3>2
    <3>4. QED
      BY <2>2, <3>2, <3>3
  <2>4. CASE i = k
    <3>1. i >= k /\ i - 1 < k /\ i - 1 = k - 1
      BY <1>2, <2>1, <2>4
    <3>2. g[i] = b[k + 1] /\ g[i - 1] = b[k - 1]
      BY <1>10, <2>1, <2>4, <3>1
    <3>3. QED
      BY <2>2, <3>2
  <2>5. CASE i > k
    <3>1. i >= k /\ i - 1 >= k /\ (i - 1) + 1 = i /\ i + 1 # k + 1 /\ i # 1 /\ (i + 1) - 1 = i
      BY <1>2, <2>1, <2>5
    <3>2. g[i] = b[i + 1] /\ g[i - 1] = b[i]
      BY <1>10, <2>1, <3>1
    <3>3. prev[b[i + 1]] = b[i]
      BY <1>1, <1>5, <1>22, <2>1, <3>1
    <3>4. g[i] # b[k + 1]
      BY <1>2, <1>12, <1>16, <2>1, <3>1, <3>2
    <3>5. QED
      BY <2>2, <3>2, <3>3, <3>4
  <2>6. QED
    BY <1>2, <2>1, <2>3, <2>4, <2>5
<1>23. Blank(alloc', next', prev')
  <2>1. ASSUME NEW p \in Entries \ alloc' PROVE next'[p] = NULL /\ prev'[p] = NULL
    <3>1. CASE p = e
      BY <1>6, <1>7, <3>1
    <3>2. CASE p # e
      <4>1. p \in Entries \ alloc
        BY <1>5, <3>2
      <4>2. p # b[k - 1] /\ p # b[k + 1]
        BY <1>1, <1>2, <4>1, NullAssumption
      <4>3. QED
        BY <1>1, <1>7, <3>2, <4>1, <4>2
    <3>3. QED
      BY <3>1, <3>2
  <2>2. QED
    BY <2>1 DEF Blank
<1>24. ~fault'
  BY <1>1, <1>2, <1>4, <1>5, <1>6 DEF Valid
<1>25. /\ alloc' \subseteq Entries /\ oneway' \subseteq Lists
       /\ \A m \in Lists \ {l} : m \in oneway' <=> m \in oneway
  BY <1>1, <1>5
<1>26. Rearranged(c, l, n - 1, g)
  BY <1>2, <1>5, <1>8, <1>10, <1>11, <1>14, <1>15, <1>17, <1>18, <1>19, <1>20, <1>21, <1>22, <1>23,
     <1>24, <1>25 DEF Rearranged
<1>27. PICK E : E = Elements(l)
  OBVIOUS
<1>28. E \in Seq(Values) /\ Len(E) = n /\ \A i \in 1..n : E[i] = value[b[i]]
  BY <1>27, ElementsAre DEF n, b
<1>29. PICK F : F = RemoveAt(E, k)
  OBVIOUS
<1>30. /\ F \in Seq(Values) /\ Len(F) = n - 1
       /\ \A i \in 1..(n - 1) : F[i] = IF i < k THEN E[i] ELSE E[i + 1]
  <2>1. E \in Seq(Values) /\ n = Len(E) /\ k \in 1..n
    BY <1>2, <1>28
  <2>2. F \in Seq(Values) /\ Without(F, E, n, k)
    BY ONLY <1>29, <2>1, RemoveAtIs
  <2>3. QED
    BY <2>2 DEF Without
<1>31. value' = Cleared(value, {e})
  BY DEF EntryDelete
<1>32. value' \in [Entries -> Values \cup {NULL}] /\ \A p \in alloc : p # e => value'[p] = value[p]
  BY <1>1, <1>31 DEF Cleared, Filled
<1>33. ASSUME NEW i \in 1..(n - 1) PROVE value'[g[i]] = F[i]
  <2>1. PICK j \in Nat : b[j] = g[i] /\ j # k /\ j = IF i < k THEN i ELSE i + 1
    BY <1>13
  <2>2. j \in 1..n
    BY <1>1, <1>16, <2>1
  <2>3. value'[g[i]] = value[b[j]] /\ E[j] = value[b[j]]
    BY <1>16, <1>28, <1>32, <2>1, <2>2
  <2>4. QED
    BY <1>30, <2>1, <2>3
<1>34. ASSUME NEW p \in alloc, ~In(c, l, p) PROVE value'[p] = value[p]
  BY <1>2, <1>3, <1>4, <1>32, <1>34
<1>35. Refilled(c, l, n - 1, g, F)
  BY <1>26, <1>30, <1>32, <1>33, <1>34 DEF Refilled
<1>36. QED
  BY <1>27, <1>29, <1>35, OneListBecomes

(* A call that changes no pointer leaves the cells where they are.          *)
LEMMA SameCells ==
  ASSUME NEW c, Shape(c), NEW l \in Lists, ~fault',
         UNCHANGED <<alloc, next, prev, head, tail, count, oneway>>
  PROVE  Rearranged(c, l, count[l], c[l])
<1>1. PICK n : n = count[l]
  OBVIOUS
<1>2. PICK g : g = c[l]
  OBVIOUS
<1>3. Along(l, g, n) /\ Pointers
  BY <1>1, <1>2, PlaceFacts
<1>4. \A p : In(c, l, p) <=> \E j \in Nat : g[j] = p
  BY <1>2 DEF In
<1> USE DEF Along, Pointers
<1>5. /\ alloc' = alloc /\ next' = next /\ prev' = prev /\ head' = head /\ tail' = tail
      /\ count' = count /\ oneway' = oneway
  OBVIOUS
<1>6. /\ count' = [count EXCEPT ![l] = n] /\ head' = [head EXCEPT ![l] = g[1]]
      /\ tail' = [tail EXCEPT ![l] = g[n]]
  BY <1>1, <1>3, <1>5
<1>7. ASSUME NEW i \in 1..n PROVE i \in Nat /\ In(c, l, g[i]) /\ g[i] \in alloc /\ g[i] # NULL
  BY <1>3, <1>4
<1>8. \A i, j \in 1..n : g[i] = g[j] => i = j
  BY <1>3, <1>7
<1>9. ASSUME NEW p \in Entries, In(c, l, p) PROVE \E i \in 1..n : g[i] = p
  BY <1>3, <1>4, <1>9, NullAssumption
<1>10. \A p \in Entries : p \in alloc' <=> (p \in alloc /\ ~In(c, l, p)) \/ \E i \in 1..n : g[i] = p
  BY <1>5, <1>7, <1>9
<1>11. Blank(alloc', next', prev')
  BY <1>3, <1>5 DEF Blank
<1>12. Rearranged(c, l, n, g)
  BY <1>3, <1>5, <1>6, <1>7, <1>8, <1>10, <1>11 DEF Rearranged
<1>13. QED
  BY <1>1, <1>2, <1>12

(* list_entry_get finds the entry at its place.                             *)
LEMMA EntryGetIs ==
  ASSUME NEW c, Shape(c), NEW l \in Lists, NEW i \in Nat, i > 0
  PROVE  /\ i <= count[l] => EntryGet(l, i) = c[l][i] /\ EntryGet(l, i) # NULL
         /\ i > count[l] => EntryGet(l, i) = NULL
<1>1. count[l] \in Nat /\ Len(Chain(l)) = count[l] /\ \A j \in 1..count[l] : Chain(l)[j] = c[l][j]
  BY ChainIs
<1>2. CASE i <= count[l]
  <2>1. i \in 1..count[l] /\ c[l][i] # NULL
    BY <1>1, <1>2, PlaceFacts DEF Along
  <2>2. QED
    BY <1>1, <1>2, <2>1 DEF EntryGet
<1>3. CASE i > count[l]
  BY <1>1, <1>3 DEF EntryGet
<1>4. QED
  BY <1>1, <1>2, <1>3

(* list_pop, which follows the tail's prev pointer                          *)
LEMMA PopDone ==
  ASSUME NEW c, Shape(c), Filled, NEW l \in Lists, Pop(l), ~derailed'
  PROVE  /\ Elements(l) # <<>> /\ Becomes(l, Front(Elements(l)))
         /\ call' = <<"pop", l>> /\ ret' = Last(Elements(l)) /\ ret' \in Values
<1>1. Along(l, c[l], count[l])
  BY PlaceFacts
<1>2. tail[l] # NULL /\ LeadsBack(l, count[l]) /\ EntryDelete(l, tail[l])
  BY DEF Pop, ReturnsOr
<1>3. count[l] \in 1..count[l] /\ tail[l] = c[l][count[l]]
  BY <1>1, <1>2 DEF Along
<1>4. PICK e : e = tail[l]
  OBVIOUS
<1>5. EntryDelete(l, e) /\ e = c[l][count[l]]
  BY <1>2, <1>3, <1>4
<1>6. PICK k : k = count[l]
  OBVIOUS
<1>7. k \in 1..count[l] /\ e = c[l][k] /\ prev[e] = c[l][k - 1]
  BY <1>2, <1>3, <1>5, <1>6, LeadsBackIs
<1>8. PICK E : E = Elements(l)
  OBVIOUS
<1>9. E \in Seq(Values) /\ Len(E) = k /\ k \in Nat /\ k > 0 /\ E[k] = value[e]
  BY <1>3, <1>6, <1>7, <1>8, ElementsAre
<1>10. Becomes(l, RemoveAt(E, k))
  BY <1>2, <1>5, <1>7, <1>8, EntryDeleteDone
<1>11. RemoveAt(E, k) = Front(E) /\ Last(E) = value[e] /\ E # <<>> /\ value[e] \in Values
  <2>1. RemoveAt(E, k) = SubSeq(E, 1, k - 1) \o SubSeq(E, k + 1, k)
    BY <1>9 DEF RemoveAt
  <2>2. SubSeq(E, 1, k - 1) \o SubSeq(E, k + 1, k) = SubSeq(E, 1, k - 1)
    BY <1>9
  <2>3. QED
    BY <1>9, <2>1, <2>2 DEF Front, Last
<1>12. call' = <<"pop", l>> /\ ret' = value[e]
  BY <1>4 DEF Pop, Returns, ReturnsOr
<1>13. QED
  BY <1>8, <1>10, <1>11, <1>12

(* list_shift *)
LEMMA ShiftDone ==
  ASSUME NEW c, Shape(c), Filled, NEW l \in Lists, Shift(l)
  PROVE  /\ Elements(l) # <<>> /\ Becomes(l, Tail(Elements(l)))
         /\ call' = <<"shift", l>> /\ ret' = Head(Elements(l)) /\ ret' \in Values
<1>1. count[l] \in Nat /\ count[l] > 0
  BY PlaceFacts DEF Shift, Along
<1>2. EntryGet(l, 1) = c[l][1] /\ EntryGet(l, 1) # NULL
  BY <1>1, EntryGetIs
<1>3. EntryDelete(l, EntryGet(l, 1)) /\ Returns(<<"shift", l>>, value[EntryGet(l, 1)])
  BY <1>2 DEF Shift
<1>4. 1 \in 1..count[l] /\ prev[c[l][1]] = c[l][1 - 1]
  BY <1>1, PlaceFacts DEF Along
<1>5. PICK e : e = c[l][1]
  OBVIOUS
<1>6. EntryDelete(l, e)
  BY <1>2, <1>3, <1>5
<1>7. PICK E : E = Elements(l)
  OBVIOUS
<1>8. E \in Seq(Values) /\ Len(E) \in Nat /\ Len(E) > 0 /\ E[1] = value[e]
  BY <1>1, <1>4, <1>5, <1>7, ElementsAre
<1>9. Becomes(l, RemoveAt(E, 1))
  BY <1>4, <1>5, <1>6, <1>7, EntryDeleteDone
<1>10. RemoveAt(E, 1) = Tail(E) /\ Head(E) = value[e] /\ E # <<>> /\ value[e] \in Values
  <2>1. RemoveAt(E, 1) = SubSeq(E, 1, 0) \o SubSeq(E, 2, Len(E))
    BY <1>8 DEF RemoveAt
  <2>2. SubSeq(E, 1, 0) \o SubSeq(E, 2, Len(E)) = Tail(E)
    BY <1>8
  <2>3. QED
    BY <1>8, <2>1, <2>2
<1>11. call' = <<"shift", l>> /\ ret' = value[e]
  BY <1>2, <1>3, <1>5 DEF Returns, ReturnsOr
<1>12. QED
  BY <1>7, <1>9, <1>10, <1>11

(* A call that also leaves the strings.                                     *)
LEMMA NothingDone ==
  ASSUME NEW c, Shape(c), Filled, NEW l \in Lists, ~fault',
         UNCHANGED <<alloc, next, prev, value, head, tail, count, oneway>>
  PROVE  Becomes(l, Elements(l))
<1>1. PICK n : n = count[l]
  OBVIOUS
<1>2. PICK g : g = c[l]
  OBVIOUS
<1>3. PICK E : E = Elements(l)
  OBVIOUS
<1>4. Rearranged(c, l, n, g)
  BY <1>1, <1>2, SameCells
<1>5. E \in Seq(Values) /\ Len(E) = n /\ \A i \in 1..n : E[i] = value[g[i]]
  BY <1>1, <1>2, <1>3, ElementsAre
<1>6. Refilled(c, l, n, g, E)
  BY <1>4, <1>5 DEF Refilled, Filled
<1>7. QED
  BY <1>3, <1>6, OneListBecomes

(* list_delete, which deletes nothing behind the last entry                 *)
LEMMA DeleteDone ==
  ASSUME NEW c, Shape(c), Filled, NEW l \in Lists, NEW i \in Nat, i > 0, Delete(l, i), ~derailed'
  PROVE  \/ i \in 1..Len(Elements(l)) /\ Becomes(l, RemoveAt(Elements(l), i))
         \/ i = Len(Elements(l)) + 1 /\ Becomes(l, Elements(l))
<1>1. count[l] \in Nat /\ Len(Elements(l)) = count[l]
  BY PlaceFacts, ElementsAre DEF Along
<1>2. CASE EntryGet(l, i) # NULL
  <2>1. EntryDelete(l, EntryGet(l, i)) /\ LeadsBack(l, i)
    BY <1>2 DEF Delete, ReturnsOr
  <2>2. i \in 1..count[l]
    BY <1>1, <1>2, EntryGetIs
  <2>3. PICK e : e = c[l][i]
    OBVIOUS
  <2>4. EntryDelete(l, e) /\ prev[e] = c[l][i - 1]
    BY <1>1, <2>1, <2>2, <2>3, EntryGetIs, LeadsBackIs
  <2>5. Becomes(l, RemoveAt(Elements(l), i))
    BY <2>2, <2>3, <2>4, EntryDeleteDone
  <2>6. QED
    BY <1>1, <2>2, <2>5
<1>3. CASE EntryGet(l, i) = NULL
  <2>1. /\ i <= count[l] + 1 /\ fault' = ~Sound(Chain(l))
        /\ UNCHANGED <<alloc, next, prev, value, head, tail, count, oneway>>
    BY <1>3 DEF Delete
  <2>2. i = count[l] + 1
    BY <1>1, <1>3, <2>1, EntryGetIs
  <2>3. Becomes(l, Elements(l))
    BY <2>1, ChainIs, NothingDone
  <2>4. QED
    BY <1>1, <2>2, <2>3
<1>4. QED
  BY <1>2, <1>3

(* list_get *)
LEMMA GetDone ==
  ASSUME NEW c, Shape(c), Filled, NEW l \in Lists, NEW i \in Nat, i > 0, Get(l, i)
  PROVE  /\ i \in 1..Len(Elements(l)) /\ Becomes(l, Elements(l))
         /\ call' = <<"get", l, i>> /\ ret' = Elements(l)[i] /\ ret' \in Values
<1>1. /\ count[l] \in Nat /\ Len(Chain(l)) = count[l]
      /\ \A j \in 1..count[l] : Chain(l)[j] = c[l][j] /\ c[l][j] \in alloc
  BY ChainIs
<1>2. /\ i <= count[l] /\ UNCHANGED <<alloc, next, prev, value, head, tail, count, oneway>>
      /\ fault' = (EntryGet(l, i) = NULL \/ ~(Cells(SubSeq(Chain(l), 1, i)) \subseteq alloc))
      /\ call' = <<"get", l, i>> /\ ret' = IF EntryGet(l, i) = NULL THEN NULL ELSE value[EntryGet(l, i)]
  BY DEF Get, Returns, ReturnsOr
<1>3. EntryGet(l, i) # NULL /\ EntryGet(l, i) = c[l][i] /\ i \in 1..count[l]
  BY <1>1, <1>2, EntryGetIs
<1>4. Cells(SubSeq(Chain(l), 1, i)) \subseteq alloc
  <2> DEFINE w == Chain(l)
  <2>1. Len(w) = count[l] /\ \A j \in 1..count[l] : w[j] \in alloc
    BY <1>1
  <2> HIDE DEF w
  <2>2. \A j \in 1..i : j \in 1..count[l]
    BY <1>1, <1>2
  <2>3. SubSeq(w, 1, i) = [j \in 1..i |-> w[j]]
    BY <1>1, <1>2, <2>1
  <2>4. Cells([j \in 1..i |-> w[j]]) \subseteq alloc
    BY <2>1, <2>2 DEF Cells
  <2>5. QED
    BY <2>3, <2>4 DEF w
<1>5. ~fault'
  BY <1>2, <1>3, <1>4
<1>6. Becomes(l, Elements(l))
  BY <1>2, <1>5, NothingDone
<1>7. /\ Elements(l) \in Seq(Values) /\ Len(Elements(l)) = count[l]
      /\ Elements(l)[i] = value[c[l][i]] /\ value[c[l][i]] \in Values
  BY <1>1, <1>3, ElementsAre DEF Filled
<1>8. QED
  BY <1>2, <1>3, <1>6, <1>7

(* The loop meets what is in the list.                                      *)
LEMMA MetIsIn ==
  ASSUME NEW c, Shape(c), NEW l \in Lists
  PROVE  \A p \in Entries : p \in Cells(Chain(l)) <=> In(c, l, p)
<1>1. Along(l, c[l], count[l])
  BY PlaceFacts
<1>2. Cells(Chain(l)) = {c[l][i] : i \in 1..count[l]}
  BY ChainIs
<1>3. ASSUME NEW p \in Entries, NEW i \in 1..count[l], c[l][i] = p PROVE In(c, l, p)
  <2>1. i \in Nat
    BY <1>1 DEF Along
  <2>2. QED
    BY <1>3, <2>1 DEF In
<1>4. ASSUME NEW p \in Entries, In(c, l, p) PROVE \E i \in 1..count[l] : c[l][i] = p
  BY <1>1, <1>4, NullAssumption DEF Along, In
<1>5. QED
  BY <1>2, <1>3, <1>4

(* list_find *)
LEMMA FindDone ==
  ASSUME NEW c, Shape(c), Filled, NEW l \in Lists, NEW v, Find(l, v)
  PROVE  /\ Becomes(l, Elements(l))
         /\ call' = <<"find", l, v, v \in ToSet(Elements(l))>> /\ ret' = NULL
<1>1. /\ fault' = ~Sound(Chain(l)) /\ UNCHANGED <<alloc, next, prev, value, head, tail, count, oneway>>
      /\ call' = <<"find", l, v, \E e \in Cells(Chain(l)) : value[e] = v>> /\ ret' = NULL
  BY DEF Find, Returns, ReturnsOr
<1>2. Sound(Chain(l)) /\ Cells(Chain(l)) = {c[l][i] : i \in 1..count[l]}
  BY ChainIs
<1>3. Becomes(l, Elements(l))
  BY <1>1, <1>2, NothingDone
<1>4. PICK E : E = Elements(l)
  OBVIOUS
<1>5. E \in Seq(Values) /\ Len(E) = count[l] /\ \A i \in 1..count[l] : E[i] = value[c[l][i]]
  BY <1>4, ElementsAre
<1>6. ToSet(E) = {E[i] : i \in 1..count[l]}
  BY <1>5 DEF ToSet
<1>7. (\E e \in Cells(Chain(l)) : value[e] = v) <=> v \in ToSet(E)
  BY <1>2, <1>5, <1>6
<1>8. <<"find", l, v, \E e \in Cells(Chain(l)) : value[e] = v>> = <<"find", l, v, v \in ToSet(E)>>
  <2>1. CASE v \in ToSet(E)
    BY <1>7, <2>1
  <2>2. CASE v \notin ToSet(E)
    <3>1. (\E e \in Cells(Chain(l)) : value[e] = v) = FALSE
      BY ONLY <1>7, <2>2
    <3>2. (v \in ToSet(E)) = FALSE
      BY ONLY <2>2
    <3>3. QED
      BY ONLY <3>1, <3>2
  <2>3. QED
    BY <2>1, <2>2
<1>9. QED
  BY <1>1, <1>3, <1>4, <1>8

(* list_compare: the lists agree, and are not both empty.                   *)
LEMMA CompareDone ==
  ASSUME NEW c, Shape(c), Filled, NEW l \in Lists, NEW s \in Lists, Compare(l, s)
  PROVE  /\ Becomes(l, Elements(l))
         /\ call' = <<"compare", l, s, Elements(s) # <<>> /\ Elements(s) = Elements(l)>> /\ ret' = NULL
<1>1. /\ fault' = ~Sound(Chain(l)) /\ UNCHANGED <<alloc, next, prev, value, head, tail, count, oneway>>
      /\ call' = <<"compare", l, s, Same(l, Elements(s))>> /\ ret' = NULL
  BY DEF Compare, Returns, ReturnsOr
<1>2. Becomes(l, Elements(l))
  BY <1>1, ChainIs, NothingDone
<1>3. PICK E : E = Elements(l)
  OBVIOUS
<1>4. PICK a : a = Elements(s)
  OBVIOUS
<1>5. PICK n : n = count[l]
  OBVIOUS
<1>6. E \in Seq(Values) /\ Len(E) = n /\ n \in Nat /\ \A i \in 1..n : E[i] = value[c[l][i]]
  BY <1>3, <1>5, ElementsAre
<1>7. a \in Seq(Values)
  BY <1>4, ElementsAre
<1>8. \A i \in 1..n : EntryGet(l, i) = c[l][i]
  <2>1. \A i \in 1..n : i \in Nat /\ i > 0 /\ i <= n
    BY <1>6
  <2>2. QED
    BY <1>5, <2>1, EntryGetIs
<1>9. Same(l, a) <=> a # <<>> /\ a = E
  <2>1. Same(l, a) <=> /\ a = <<>> => n = 0
                       /\ n > 0
                       /\ \A i \in 1..Len(a) : i <= n /\ value[EntryGet(l, i)] = a[i]
                       /\ Len(a) = n
    BY <1>5 DEF Same
  <2>2. ASSUME Same(l, a) PROVE a # <<>> /\ a = E
    <3>1. Len(a) = n /\ n > 0
      BY <2>1, <2>2
    <3>2. \A i \in 1..n : a[i] = E[i]
      BY <1>6, <1>8, <2>1, <2>2, <3>1
    <3>3. a = E
      BY <1>6, <1>7, <3>1, <3>2
    <3>4. QED
      BY <1>6, <3>1, <3>3
  <2>3. ASSUME a # <<>>, a = E PROVE Same(l, a)
    <3>1. Len(a) = n /\ n > 0
      BY <1>6, <2>3
    <3>2. \A i \in 1..Len(a) : i <= n /\ value[EntryGet(l, i)] = a[i]
      BY <1>6, <1>8, <2>3
    <3>3. QED
      BY <2>1, <2>3, <3>1, <3>2
  <2>4. QED
    BY <2>2, <2>3
<1>10. Same(l, a) \in BOOLEAN
  BY DEF Same
<1>11. Same(l, a) = (a # <<>> /\ a = E)
  BY <1>9, <1>10
<1>12. QED
  BY <1>1, <1>2, <1>3, <1>4, <1>11

(* list_truncate *)
LEMMA TruncateDone ==
  ASSUME NEW c, Shape(c), Filled, NEW l \in Lists, Truncate(l)
  PROVE  Becomes(l, <<>>)
<1>1. PICK g : g = [i \in Nat |-> NULL]
  OBVIOUS
<1>2. g \in [Nat -> Ptr] /\ \A i \in Nat : g[i] = NULL
  BY <1>1 DEF Ptr
<1>3. Pointers
  BY PlaceFacts
<1> DEFINE met == Cells(Chain(l))
<1>4. \A p \in Entries : p \in met <=> In(c, l, p)
  BY MetIsIn
<1>5. /\ next' = Cleared(next, met) /\ prev' = Cleared(prev, met) /\ alloc' = alloc \ met
      /\ head' = [head EXCEPT ![l] = NULL] /\ tail' = [tail EXCEPT ![l] = NULL]
      /\ count' = [count EXCEPT ![l] = 0] /\ oneway' = oneway \ {l}
  BY DEF Truncate, Freed
<1>6. ~fault'
  BY ChainIs DEF Truncate
<1> HIDE DEF met
<1>7. next' \in [Entries -> Ptr] /\ prev' \in [Entries -> Ptr]
  BY <1>3, <1>5 DEF Cleared, Pointers, Ptr
<1>8. Blank(alloc', next', prev')
  BY <1>3, <1>5 DEF Cleared, Pointers, Blank
<1>9. \A p \in alloc : ~In(c, l, p) => next'[p] = next[p] /\ prev'[p] = prev[p]
  BY <1>3, <1>4, <1>5 DEF Cleared, Pointers
<1>10. \A p \in Entries : p \in alloc' <=> p \in alloc /\ ~In(c, l, p)
  BY <1>4, <1>5
<1>11. 1..0 = {}
  OBVIOUS
<1>12. Rearranged(c, l, 0, g)
  BY <1>2, <1>3, <1>5, <1>6, <1>7, <1>8, <1>9, <1>10, <1>11 DEF Rearranged, Pointers
<1>13. value' = Cleared(value, met)
  BY DEF Truncate, Freed, met
<1>14. /\ value' \in [Entries -> Values \cup {NULL}]
       /\ \A p \in alloc : ~In(c, l, p) => value'[p] = value[p]
  BY <1>3, <1>4, <1>13 DEF Cleared, Pointers, Filled
<1>15. PICK F : F = <<>>
  OBVIOUS
<1>16. F \in Seq(Values) /\ Len(F) = 0
  BY <1>15
<1>17. Refilled(c, l, 0, g, F)
  BY <1>11, <1>12, <1>14, <1>16 DEF Refilled
<1>18. QED
  BY <1>15, <1>17, OneListBecomes

(* list_reverse *)
LEMMA ReverseDone ==
  ASSUME NEW c, Shape(c), Filled, NEW l \in Lists, ListReverse(l), ~derailed'
  PROVE  Becomes(l, Reverse(Elements(l)))
<1> DEFINE n == count[l]
           b == c[l]
           w == Walk(tail[l], prev)
<1>1. Along(l, b, n) /\ Pointers
  BY PlaceFacts
<1>2. \A i \in 1..n : prev[b[i]] = b[i - 1]
  <2>1. \A i \in 1..count[l] : LeadsBack(l, i)
    BY DEF ListReverse, ReturnsOr
  <2>2. QED
    BY <2>1, LeadsBackIs
<1>3. Cells(w) = {b[i] : i \in 1..n} /\ Sound(w)
  BY <1>2, BackIs
<1>4. /\ next' = [e \in Entries |-> IF e \in Cells(w) THEN prev[e] ELSE next[e]]
      /\ prev' = [e \in Entries |-> IF e \in Cells(w) THEN next[e] ELSE prev[e]]
      /\ ~fault' /\ alloc' = alloc /\ count' = count /\ oneway' = oneway
      /\ head' = [head EXCEPT ![l] = tail[l]] /\ tail' = [tail EXCEPT ![l] = head[l]]
  BY <1>3 DEF ListReverse
<1>5. \A p : In(c, l, p) <=> \E j \in Nat : b[j] = p
  BY DEF In
<1>6. count' = [count EXCEPT ![l] = n]
  BY <1>1, <1>4 DEF Pointers
<1> HIDE DEF n, b, w
<1> USE DEF Along, Pointers
<1>7. PICK g : g = [i \in Nat |-> IF i \in 1..n THEN b[n + 1 - i] ELSE NULL]
  OBVIOUS
<1>8. /\ \A i \in 1..n : i \in Nat /\ n + 1 - i \in 1..n /\ n + 1 - i \in Nat /\ g[i] = b[n + 1 - i]
      /\ \A i \in Nat : i \notin 1..n => g[i] = NULL
  BY <1>1, <1>7
<1>9. \A i \in 1..n : b[i] # NULL /\ b[i] \in alloc /\ b[i] \in Entries /\ b[i] \in Cells(w)
  <2>1. \A i \in 1..n : i \in Nat
    BY <1>1
  <2>2. QED
    BY <1>1, <1>3, <2>1
<1>10. g \in [Nat -> Ptr]
  <2>1. \A i \in Nat : g[i] \in Ptr
    BY <1>8, <1>9 DEF Ptr
  <2>2. QED
    BY <1>7, <2>1
<1>11. \A i \in Nat : g[i] # NULL <=> i \in 1..n
  BY <1>8, <1>9
<1>12. ASSUME NEW i \in 1..n, NEW j \in 1..n, g[i] = g[j] PROVE i = j
  <2>1. n + 1 - i = n + 1 - j
    BY <1>1, <1>8, <1>9, <1>12
  <2>2. QED
    BY <1>1, <2>1
<1>13. ASSUME NEW i \in 1..n PROVE In(c, l, g[i]) /\ g[i] \in Entries /\ g[i] \in Cells(w)
  BY <1>5, <1>8, <1>9
<1>14. ASSUME NEW p \in Entries
       PROVE  p \in alloc' <=> (p \in alloc /\ ~In(c, l, p)) \/ \E i \in 1..n : g[i] = p
  <2>1. ASSUME p \in alloc, In(c, l, p) PROVE \E i \in 1..n : g[i] = p
    <3>1. PICK j \in Nat : b[j] = p
      BY <1>5, <2>1
    <3>2. j \in 1..n
      BY <1>1, <3>1, NullAssumption
    <3>3. n + 1 - j \in 1..n /\ n + 1 - (n + 1 - j) = j
      BY <1>1, <3>2
    <3>4. g[n + 1 - j] = p
      BY <1>8, <3>1, <3>3
    <3>5. QED
      BY <3>3, <3>4
  <2>2. ASSUME NEW i \in 1..n, g[i] = p PROVE p \in alloc
    BY <1>8, <1>9, <2>2
  <2>3. QED
    BY <1>4, <2>1, <2>2
<1>15. head' = [head EXCEPT ![l] = g[1]] /\ tail' = [tail EXCEPT ![l] = g[n]]
  <2>1. CASE n = 0
    <3>1. 0 \notin 1..n /\ 1 \notin 1..n /\ n + 1 = 1
      BY <2>1
    <3>2. g[1] = NULL /\ g[n] = NULL
      BY <1>8, <2>1, <3>1
    <3>3. b[n] = NULL /\ b[1] = NULL
      BY <1>1, <2>1, <3>1
    <3>4. QED
      BY <1>1, <1>4, <3>2, <3>3
  <2>2. CASE n # 0
    <3>1. 1 \in 1..n /\ n \in 1..n /\ n + 1 - 1 = n /\ n + 1 - n = 1
      BY <1>1, <2>2
    <3>2. g[1] = b[n] /\ g[n] = b[1]
      BY <1>8, <3>1
    <3>3. QED
      BY <1>1, <1>4, <3>2
  <2>3. QED
    BY <2>1, <2>2
<1>16. next' \in [Entries -> Ptr] /\ prev' \in [Entries -> Ptr]
  BY <1>1, <1>4
<1>17. ASSUME NEW p \in alloc, ~In(c, l, p) PROVE next'[p] = next[p] /\ prev'[p] = prev[p]
  <2>1. p \notin Cells(w)
    <3>1. \A i \in 1..n : i \in Nat
      BY <1>1
    <3>2. QED
      BY <1>3, <1>5, <1>17, <3>1
  <2>2. QED
    BY <1>1, <1>4, <2>1
<1>18. ASSUME NEW i \in 1..n PROVE next'[g[i]] = g[i + 1]
  <2>1. n + 1 - i \in 1..n /\ (n + 1 - i) - 1 = n - i /\ n - i \in Nat /\ i + 1 \in Nat
    BY <1>1
  <2>2. next'[g[i]] = b[n - i]
    <3>1. next'[g[i]] = prev[g[i]] /\ g[i] = b[n + 1 - i]
      BY <1>4, <1>8, <1>13
    <3>2. prev[b[n + 1 - i]] = b[(n + 1 - i) - 1]
      BY <1>1, <1>2, <2>1
    <3>3. QED
      BY <2>1, <3>1, <3>2
  <2>3. CASE i = n
    <3>1. n - i = 0 /\ i + 1 \notin 1..n
      BY <1>1, <2>3
    <3>2. QED
      BY <1>1, <1>8, <2>1, <2>2, <3>1
  <2>4. CASE i # n
    <3>1. i + 1 \in 1..n /\ n + 1 - (i + 1) = n - i
      BY <1>1, <2>4
    <3>2. QED
      BY <1>8, <2>2, <3>1
  <2>5. QED
    BY <2>3, <2>4
<1>19. ASSUME NEW i \in 1..n PROVE prev'[g[i]] = g[i - 1]
  <2>1. n + 1 - i \in 1..n /\ (n + 1 - i) + 1 = n + 2 - i /\ n + 2 - i \in Nat /\ i - 1 \in Nat
    BY <1>1
  <2>2. prev'[g[i]] = b[n + 2 - i]
    <3>1. prev'[g[i]] = next[g[i]] /\ g[i] = b[n + 1 - i]
      BY <1>4, <1>8, <1>13
    <3>2. next[b[n + 1 - i]] = b[(n + 1 - i) + 1]
      BY <1>1, <2>1
    <3>3. QED
      BY <2>1, <3>1, <3>2
  <2>3. CASE i = 1
    <3>1. n + 2 - i = n + 1 /\ i - 1 \notin 1..n
      BY <1>1, <2>3
    <3>2. QED
      BY <1>1, <1>8, <2>1, <2>2, <3>1
  <2>4. CASE i # 1
    <3>1. i - 1 \in 1..n /\ n + 1 - (i - 1) = n + 2 - i
      BY <1>1, <2>4
    <3>2. QED
      BY <1>8, <2>2, <3>1
  <2>5. QED
    BY <2>3, <2>4
<1>20. Blank(alloc', next', prev')
  <2>1. ASSUME NEW p \in Entries \ alloc PROVE p \notin Cells(w)
    BY <1>3, <1>9
  <2>2. QED
    BY <1>1, <1>4, <2>1 DEF Blank
<1>21. Rearranged(c, l, n, g)
  BY <1>1, <1>4, <1>6, <1>10, <1>11, <1>12, <1>13, <1>14, <1>15, <1>16, <1>17, <1>18, <1>19, <1>20
  DEF Rearranged
<1>22. PICK E : E = Elements(l)
  OBVIOUS
<1>23. E \in Seq(Values) /\ Len(E) = n /\ \A i \in 1..n : E[i] = value[b[i]]
  BY <1>22, ElementsAre DEF n, b
<1>24. PICK F : F = Reverse(E)
  OBVIOUS
<1>25. F = [i \in 1..n |-> E[(n - i) + 1]]
  BY <1>23, <1>24 DEF Reverse
<1>26. \A i \in 1..n : (n - i) + 1 = n + 1 - i /\ (n - i) + 1 \in 1..n
  BY <1>1
<1>27. F \in Seq(Values) /\ Len(F) = n /\ \A i \in 1..n : F[i] = E[n + 1 - i]
  BY <1>1, <1>23, <1>25, <1>26
<1>28. value' = value
  BY DEF ListReverse
<1>29. \A i \in 1..n : value'[g[i]] = F[i]
  BY <1>8, <1>23, <1>27, <1>28
<1>30. Refilled(c, l, n, g, F)
  BY <1>21, <1>27, <1>28, <1>29 DEF Refilled, Filled
<1>31. QED
  BY <1>22, <1>24, <1>30, OneListBecomes

(* There are m different cells in a finite set of at least m.               *)
LEMMA CellsFound ==
  ASSUME NEW S, IsFiniteSet(S), NEW m \in 0..Cardinality(S)
  PROVE  \E f \in [1..m -> S] : \A i, j \in 1..m : f[i] = f[j] => i = j
<1>1. Cardinality(S) \in Nat /\ ExistsBijection(1..Cardinality(S), S)
  BY FS_CardinalityType
<1>2. PICK h \in [1..Cardinality(S) -> S] : \A i, j \in 1..Cardinality(S) : h[i] = h[j] => i = j
  BY <1>1 DEF ExistsBijection, Bijection, Injection, IsInjective
<1> DEFINE f == [i \in 1..m |-> h[i]]
<1>3. \A i \in 1..m : i \in 1..Cardinality(S)
  BY <1>1
<1>4. f \in [1..m -> S] /\ \A i, j \in 1..m : f[i] = f[j] => i = j
  BY <1>2, <1>3
<1>5. QED
  BY <1>4

(* list_copy, list_from_char and the calls that read a text fill the list   *)
(* with cells that are free once the list has been truncated.               *)
LEMMA RefillDone ==
  ASSUME NEW c, Shape(c), Filled, NEW l \in Lists, NEW src \in Seq(Values), Refill(l, src), ~fault'
  PROVE  Becomes(l, src)
<1> DEFINE m == Len(src)
           old == Cells(Chain(l))
           free == (Entries \ alloc) \cup old
           n == CHOOSE f \in [1..m -> free] : \A i, j \in 1..m : f[i] = f[j] => i = j
           at(i) == IF i \in 1..m THEN n[i] ELSE NULL
           place(e) == CHOOSE i \in 1..m : n[i] = e
<1>1. /\ m \in 0..Cardinality(free)
      /\ alloc' = (alloc \ old) \cup Cells(n)
      /\ next' = [e \in Entries |-> IF e \in Cells(n) THEN at(place(e) + 1) ELSE Cleared(next, old)[e]]
      /\ prev' = [e \in Entries |-> IF e \in Cells(n) THEN at(place(e) - 1) ELSE Cleared(prev, old)[e]]
      /\ value' = [e \in Entries |-> IF e \in Cells(n) THEN src[place(e)] ELSE Cleared(value, old)[e]]
      /\ head' = [head EXCEPT ![l] = at(1)]
      /\ tail' = [tail EXCEPT ![l] = at(m)]
      /\ count' = [count EXCEPT ![l] = m]
      /\ oneway' = oneway \ {l}
  BY DEF Refill
<1>2. Along(l, c[l], count[l]) /\ Pointers /\ \A p \in Entries : p \in old <=> In(c, l, p)
  BY PlaceFacts, MetIsIn
<1>3. old \subseteq Entries
  <2>1. old = {c[l][i] : i \in 1..count[l]} /\ \A i \in 1..count[l] : c[l][i] \in alloc
    BY ChainIs
  <2>2. QED
    BY <1>2, <2>1 DEF Pointers
<1> HIDE DEF old
<1>4. free \subseteq Entries /\ IsFiniteSet(free)
  BY <1>3, EntriesAssumption, FS_Subset
<1>5. m \in Nat
  <2>1. Cardinality(free) \in Nat
    BY <1>4, FS_CardinalityType
  <2>2. QED
    BY <1>1, <2>1
<1> HIDE DEF m, free
<1>6. n \in [1..m -> free] /\ \A i, j \in 1..m : n[i] = n[j] => i = j
  <2>1. \E f \in [1..m -> free] : \A i, j \in 1..m : f[i] = f[j] => i = j
    BY <1>1, <1>4, CellsFound
  <2>2. QED
    BY <2>1
<1> HIDE DEF n
<1>7. Cells(n) = {n[i] : i \in 1..m}
  <2>1. Len(n) = m
    BY <1>5, <1>6
  <2>2. QED
    BY <2>1 DEF Cells
<1>8. ASSUME NEW i \in 1..m
      PROVE  /\ i \in Nat /\ i + 1 \in Nat /\ i - 1 \in Nat
             /\ n[i] \in Entries /\ n[i] # NULL /\ n[i] \in Cells(n) /\ n[i] \in free /\ place(n[i]) = i
  <2>1. n[i] \in Entries /\ n[i] # NULL /\ n[i] \in Cells(n) /\ n[i] \in free
    BY <1>4, <1>6, <1>7, NullAssumption
  <2>2. place(n[i]) \in 1..m /\ n[place(n[i])] = n[i]
    OBVIOUS
  <2>3. QED
    BY <1>5, <1>6, <2>1, <2>2
<1>9. \A p \in Cells(n) : place(p) \in Nat /\ p \in Entries
  BY <1>7, <1>8
<1>10. PICK g : g = [i \in Nat |-> IF i \in 1..m THEN n[i] ELSE NULL]
  OBVIOUS
<1>11. \A i \in Nat : g[i] = at(i) /\ at(i) \in Ptr
  BY <1>8, <1>10 DEF Ptr
<1>12. \A i \in 1..m : g[i] = n[i]
  BY <1>8, <1>11
<1>13. g \in [Nat -> Ptr] /\ \A i \in Nat : g[i] # NULL <=> i \in 1..m
  BY <1>8, <1>10, <1>11
<1>14. ASSUME NEW p \in Entries
       PROVE  p \in alloc' <=> (p \in alloc /\ ~In(c, l, p)) \/ \E i \in 1..m : g[i] = p
  BY <1>1, <1>2, <1>7, <1>12
<1>15. ASSUME NEW i \in 1..m, g[i] \in alloc PROVE In(c, l, g[i])
  <2>1. g[i] \in free /\ g[i] \in Entries
    BY <1>8, <1>12
  <2>2. g[i] \in old
    BY <1>15, <2>1 DEF free
  <2>3. QED
    BY <1>2, <2>1, <2>2
<1>16. head' = [head EXCEPT ![l] = g[1]] /\ tail' = [tail EXCEPT ![l] = g[m]]
  BY <1>1, <1>5, <1>11
<1>17. ASSUME NEW i \in 1..m PROVE next'[g[i]] = g[i + 1] /\ prev'[g[i]] = g[i - 1]
  <2>1. g[i] = n[i] /\ place(n[i]) = i /\ g[i + 1] = at(i + 1) /\ g[i - 1] = at(i - 1)
        /\ n[i] \in Entries /\ n[i] \in Cells(n)
    BY <1>8, <1>11, <1>12
  <2> HIDE DEF at, place
  <2>2. QED
    BY <1>1, <2>1
<1>18. ASSUME NEW p \in Entries
       PROVE  /\ p \notin Cells(n) /\ p \in old => next'[p] = NULL /\ prev'[p] = NULL
              /\ p \notin Cells(n) /\ p \notin old => next'[p] = next[p] /\ prev'[p] = prev[p]
  <2> HIDE DEF at, place
  <2>1. QED
    BY <1>1 DEF Cleared
<1>19. next' \in [Entries -> Ptr] /\ prev' \in [Entries -> Ptr]
  <2>1. ASSUME NEW p \in Entries PROVE next'[p] \in Ptr /\ prev'[p] \in Ptr
    <3>1. CASE p \in Cells(n)
      <4>1. PICK i \in 1..m : n[i] = p
        BY <1>7, <3>1
      <4>2. next'[p] = g[i + 1] /\ prev'[p] = g[i - 1] /\ i + 1 \in Nat /\ i - 1 \in Nat
        BY <1>8, <1>12, <1>17, <4>1
      <4>3. QED
        BY <1>13, <4>2
    <3>2. CASE p \notin Cells(n)
      BY <1>2, <1>18, <3>2 DEF Pointers, Ptr
    <3>3. QED
      BY <3>1, <3>2
  <2> HIDE DEF at, place
  <2>2. next' = [p \in Entries |-> next'[p]] /\ prev' = [p \in Entries |-> prev'[p]]
    BY <1>1
  <2>3. QED
    BY <2>1, <2>2
<1>20. ASSUME NEW p \in alloc, ~In(c, l, p) PROVE next'[p] = next[p] /\ prev'[p] = prev[p]
  <2>1. p \in Entries /\ p \notin old
    BY <1>2, <1>20 DEF Pointers
  <2>2. p \notin Cells(n)
    BY <1>7, <1>8, <1>20, <2>1 DEF free
  <2>3. QED
    BY <1>18, <2>1, <2>2
<1>21. Blank(alloc', next', prev')
  <2>1. ASSUME NEW p \in Entries \ alloc' PROVE next'[p] = NULL /\ prev'[p] = NULL
    <3>1. p \notin Cells(n) /\ (p \in old \/ p \in Entries \ alloc)
      BY <1>1
    <3>2. QED
      BY <1>2, <1>18, <3>1 DEF Pointers
  <2>2. QED
    BY <2>1 DEF Blank
<1>22. /\ alloc' \subseteq Entries /\ oneway' \subseteq Lists
       /\ \A k \in Lists \ {l} : k \in oneway' <=> k \in oneway
  BY <1>1, <1>2, <1>9 DEF Pointers
<1>23. \A i, j \in 1..m : g[i] = g[j] => i = j
  BY <1>6, <1>12
<1> HIDE DEF at, place
<1>24. count' = [count EXCEPT ![l] = m]
  BY <1>1
<1>25. Rearranged(c, l, m, g)
  BY <1>5, <1>13, <1>14, <1>15, <1>16, <1>17, <1>19, <1>20, <1>21, <1>22, <1>23, <1>24 DEF Rearranged
<1>26. Len(src) = m /\ \A i \in 1..m : src[i] \in Values
  BY DEF m
<1>27. ASSUME NEW i \in 1..m PROVE value'[g[i]] = src[i]
  BY <1>1, <1>8, <1>12
<1>28. ASSUME NEW p \in Entries, p \notin Cells(n)
       PROVE  value'[p] = IF p \in old THEN NULL ELSE value[p]
  BY <1>1, <1>28 DEF Cleared
<1>29. value' \in [Entries -> Values \cup {NULL}]
  <2>1. ASSUME NEW p \in Entries PROVE value'[p] \in Values \cup {NULL}
    <3>1. CASE p \in Cells(n)
      <4>1. PICK i \in 1..m : n[i] = p
        BY <1>7, <3>1
      <4>2. QED
        BY <1>12, <1>26, <1>27, <4>1
    <3>2. CASE p \notin Cells(n)
      BY <1>28, <3>2 DEF Filled
    <3>3. QED
      BY <3>1, <3>2
  <2>2. value' = [p \in Entries |-> value'[p]]
    BY <1>1
  <2>3. QED
    BY <2>1, <2>2
<1>30. ASSUME NEW p \in alloc, ~In(c, l, p) PROVE value'[p] = value[p]
  <2>1. p \in Entries /\ p \notin old
    BY <1>2, <1>30 DEF Pointers
  <2>2. p \notin Cells(n)
    BY <1>7, <1>8, <1>30, <2>1 DEF free
  <2>3. QED
    BY <1>28, <2>1, <2>2
<1>31. Refilled(c, l, m, g, src)
  BY <1>25, <1>26, <1>27, <1>29, <1>30 DEF Refilled
<1>32. QED
  BY <1>31, OneListBecomes

-----------------------------------------------------------------------------
(* A call on two lists: x gets the n cells that g names, all of its own or  *)
(* of s, and s is left empty.                                               *)
TakenOver(c, x, s, n, g) ==
  /\ n \in Nat /\ g \in [Nat -> Ptr]
  /\ \A i \in Nat : g[i] # NULL <=> i \in 1..n
  /\ \A i, j \in 1..n : g[i] = g[j] => i = j
  /\ \A i \in 1..n : In(c, x, g[i]) \/ In(c, s, g[i])
  /\ alloc' \subseteq Entries
  /\ \A e \in Entries : e \in alloc' <=> \/ e \in alloc /\ ~In(c, x, e) /\ ~In(c, s, e)
                                         \/ \E i \in 1..n : g[i] = e
  /\ count' = [count EXCEPT ![x] = n, ![s] = 0]
  /\ head' = [head EXCEPT ![x] = g[1], ![s] = NULL]
  /\ tail' = [tail EXCEPT ![x] = g[n], ![s] = NULL]
  /\ next' \in [Entries -> Ptr] /\ prev' \in [Entries -> Ptr] /\ oneway' \subseteq Lists
  /\ \A m \in Lists \ {x, s} : m \in oneway' <=> m \in oneway
  /\ \A e \in alloc : ~In(c, x, e) /\ ~In(c, s, e) => next'[e] = next[e] /\ prev'[e] = prev[e]
  /\ \A i \in 1..n : next'[g[i]] = g[i + 1]
  /\ \A i \in 1..n : x \notin oneway' \/ i = 1 => prev'[g[i]] = g[i - 1]
  /\ Blank(alloc', next', prev') /\ ~fault'

(* The cells c, but x has the cells g and s has none.                       *)
PlaceBoth(c, x, s, g) ==
  [m \in Lists |-> IF m = x THEN g ELSE IF m = s THEN [i \in Nat |-> NULL] ELSE c[m]]

(* Such a call keeps the shape.                                             *)
LEMMA TwoListsKept ==
  ASSUME NEW c, Shape(c), NEW x \in Lists, NEW s \in Lists \ {x}, NEW n, NEW g, TakenOver(c, x, s, n, g)
  PROVE  Arranged' /\ Shape(PlaceBoth(c, x, s, g))'
<1> USE DEF TakenOver
<1>0. PICK d : d = PlaceBoth(c, x, s, g)
  OBVIOUS
<1>1. d = [m \in Lists |-> IF m = x THEN g ELSE IF m = s THEN [i \in Nat |-> NULL] ELSE c[m]]
  BY <1>0 DEF PlaceBoth
<1>2. d[x] = g /\ (\A i \in Nat : d[s][i] = NULL) /\ \A m \in Lists \ {x, s} : d[m] = c[m]
  BY <1>1
<1>3. d \in [Lists -> [Nat -> Ptr]]
  <2>1. [i \in Nat |-> NULL] \in [Nat -> Ptr]
    BY DEF Ptr
  <2>2. c \in [Lists -> [Nat -> Ptr]]
    BY DEF Shape, Placed
  <2>3. QED
    BY <1>1, <2>1, <2>2
<1>4. /\ count' \in [Lists -> Nat] /\ count'[x] = n /\ count'[s] = 0
      /\ \A m \in Lists \ {x, s} : count'[m] = count[m]
  BY DEF Shape, Placed
<1>5. ASSUME NEW m \in Lists \ {x, s}, NEW i \in Nat, c[m][i] # NULL
      PROVE  c[m][i] \in alloc /\ c[m][i] \in Entries /\ ~In(c, x, c[m][i]) /\ ~In(c, s, c[m][i])
  <2>1. c[m][i] \in alloc /\ c[m][i] \in Entries
    BY <1>5, PlaceFacts DEF Along
  <2>2. QED
    BY <1>5, <2>1 DEF Shape, Placed, In
<1>6. ASSUME NEW m \in Lists \ {x, s}, NEW i \in Nat, NEW j \in Nat, c[m][i] # NULL PROVE c[m][i] # g[j]
  BY <1>5, <1>6
<1>7. Placed(d, alloc', count')
  <2>1. ASSUME NEW m \in Lists, NEW i \in Nat PROVE d[m][i] # NULL <=> i \in 1..count'[m]
    <3>1. CASE m = x
      BY <1>2, <1>4, <3>1
    <3>2. CASE m = s
      <4>1. i \notin 1..0
        OBVIOUS
      <4>2. QED
        BY <1>2, <1>4, <3>2, <4>1
    <3>3. CASE m # x /\ m # s
      BY <1>2, <1>4, <3>3, PlaceFacts DEF Along
    <3>4. QED
      BY <3>1, <3>2, <3>3
  <2>2. ASSUME NEW m \in Lists, NEW k \in Lists, NEW i \in Nat, NEW j \in Nat,
               d[m][i] = d[k][j], d[m][i] # NULL
        PROVE  m = k /\ i = j
    <3>1. m # s /\ k # s
      BY <1>2, <2>2
    <3>2. CASE m = x /\ k = x
      BY <1>2, <2>2, <3>2
    <3>3. CASE m # x /\ k = x
      BY <1>2, <1>6, <2>2, <3>1, <3>3
    <3>4. CASE m = x /\ k # x
      BY <1>2, <1>6, <2>2, <3>1, <3>4
    <3>5. CASE m # x /\ k # x
      BY <1>2, <2>2, <3>1, <3>5 DEF Shape, Placed
    <3>6. QED
      BY <3>2, <3>3, <3>4, <3>5
  <2>3. ASSUME NEW e \in Entries, e \in alloc' PROVE \E m \in Lists : \E i \in Nat : d[m][i] = e
    <3>1. CASE \E i \in 1..n : g[i] = e
      <4>1. \A i \in 1..n : i \in Nat
        OBVIOUS
      <4>2. QED
        BY <1>2, <3>1, <4>1
    <3>2. CASE e \in alloc /\ ~In(c, x, e) /\ ~In(c, s, e)
      <4>1. PICK m \in Lists, i \in Nat : c[m][i] = e
        BY <3>2 DEF Shape, Placed
      <4>2. m # x /\ m # s
        BY <3>2, <4>1 DEF In
      <4>3. QED
        BY <1>2, <4>1, <4>2
    <3>3. QED
      BY <2>3, <3>1, <3>2
  <2>4. ASSUME NEW e \in Entries, NEW m \in Lists, NEW i \in Nat, d[m][i] = e PROVE e \in alloc'
    <3>1. e # NULL
      BY NullAssumption
    <3>2. m # s
      BY <1>2, <2>4, <3>1
    <3>3. CASE m = x
      <4>1. i \in 1..n
        BY <1>2, <2>4, <3>1, <3>3
      <4>2. QED
        BY <1>2, <2>4, <3>3, <4>1
    <3>4. CASE m # x
      BY <1>2, <1>5, <2>4, <3>1, <3>2, <3>4
    <3>5. QED
      BY <3>3, <3>4
  <2>5. alloc' \subseteq Entries
    OBVIOUS
  <2> HIDE DEF TakenOver
  <2>6. QED
    BY <1>3, <1>4, <2>1, <2>2, <2>3, <2>4, <2>5 DEF Placed
<1>8. ASSUME NEW m \in Lists \ {x, s}, NEW i \in 1..count[m]
      PROVE  i \in Nat /\ next'[c[m][i]] = next[c[m][i]] /\ prev'[c[m][i]] = prev[c[m][i]]
  <2>1. i \in Nat /\ c[m][i] # NULL
    BY PlaceFacts DEF Along
  <2>2. QED
    BY <1>5, <2>1
<1>9. \A i \in 1..count'[s] : FALSE
  BY <1>4
<1>10. Threaded(d, next', head', tail', count')
  <2>1. head' \in [Lists -> Ptr] /\ tail' \in [Lists -> Ptr]
    BY DEF Shape, Threaded, Ptr
  <2>2. ASSUME NEW m \in Lists PROVE head'[m] = d[m][1] /\ tail'[m] = d[m][count'[m]]
    <3>1. CASE m = x
      BY <1>2, <1>4, <3>1 DEF Shape, Threaded
    <3>2. CASE m = s
      BY <1>2, <1>4, <3>2 DEF Shape, Threaded
    <3>3. CASE m # x /\ m # s
      BY <1>2, <1>4, <3>3 DEF Shape, Threaded
    <3>4. QED
      BY <3>1, <3>2, <3>3
  <2>3. ASSUME NEW m \in Lists, NEW i \in 1..count'[m] PROVE next'[d[m][i]] = d[m][i + 1]
    <3>1. CASE m = x
      BY <1>2, <1>4, <3>1
    <3>2. CASE m # x
      BY <1>2, <1>4, <1>8, <1>9, <3>2, PlaceFacts DEF Along
    <3>3. QED
      BY <3>1, <3>2
  <2>4. QED
    BY <2>1, <2>2, <2>3 DEF Threaded
<1>11. Backed(d, prev', count', oneway')
  <2>1. ASSUME NEW m \in Lists, NEW i \in 1..count'[m], m \notin oneway' \/ i = 1
        PROVE  prev'[d[m][i]] = d[m][i - 1]
    <3>1. CASE m = x
      BY <1>2, <1>4, <2>1, <3>1
    <3>2. CASE m # x
      <4>1. m # s
        BY <1>9
      <4>2. i \in 1..count[m] /\ (m \notin oneway \/ i = 1)
        BY <1>4, <2>1, <3>2, <4>1
      <4>3. prev[c[m][i]] = c[m][i - 1]
        BY <4>2, PlaceFacts DEF Along
      <4>4. QED
        BY <1>2, <1>8, <3>2, <4>1, <4>2, <4>3
    <3>3. QED
      BY <3>1, <3>2
  <2>2. QED
    BY <2>1 DEF Backed
<1>12. Shape(d)'
  BY <1>7, <1>10, <1>11 DEF Shape
<1>13. Arranged'
  BY <1>3, <1>12 DEF Arranged
<1>14. QED
  BY <1>0, <1>12, <1>13

(* A call leaves the strings q in list x and none in list s.                *)
BothBecome(x, s, q) ==
  /\ Arranged' /\ Filled'
  /\ \A m \in Lists : Elements(m)' = IF m = x THEN q ELSE IF m = s THEN <<>> ELSE Elements(m)

(* It does when the cells that x gets hold the strings q.                   *)
BothRefilled(c, x, s, n, g, q) ==
  /\ TakenOver(c, x, s, n, g) /\ q \in Seq(Values) /\ Len(q) = n
  /\ \A i \in 1..n : value'[g[i]] = q[i]
  /\ \A e \in alloc : ~In(c, x, e) /\ ~In(c, s, e) => value'[e] = value[e]
  /\ value' \in [Entries -> Values \cup {NULL}]

LEMMA TwoListsBecome ==
  ASSUME NEW c, Shape(c), Filled, NEW x \in Lists, NEW s \in Lists \ {x}, NEW n, NEW g, NEW q,
         BothRefilled(c, x, s, n, g, q)
  PROVE  BothBecome(x, s, q)
<1>1. PICK d : d = PlaceBoth(c, x, s, g)
  OBVIOUS
<1>2. Arranged' /\ Shape(d)'
  BY <1>1, TwoListsKept DEF BothRefilled
<1>3. d[x] = g /\ \A m \in Lists \ {x, s} : d[m] = c[m]
  BY <1>1 DEF PlaceBoth
<1>4. /\ n \in Nat /\ count'[x] = n /\ count'[s] = 0 /\ \A m \in Lists \ {x, s} : count'[m] = count[m]
      /\ alloc' \subseteq Entries
      /\ \A e \in Entries : e \in alloc' <=> \/ e \in alloc /\ ~In(c, x, e) /\ ~In(c, s, e)
                                            \/ \E i \in 1..n : g[i] = e
  BY DEF BothRefilled, TakenOver, Shape, Placed
<1>5. Elements(x)' = q
  <2>1. Elements(x)' = [i \in 1..n |-> value'[g[i]]]
    BY <1>2, <1>3, <1>4, ElementsThen
  <2>2. [i \in 1..n |-> value'[g[i]]] = [i \in 1..n |-> q[i]]
    BY DEF BothRefilled
  <2>3. q = [i \in 1..n |-> q[i]]
    BY DEF BothRefilled
  <2>4. QED
    BY <2>1, <2>2, <2>3
<1>6. Elements(s)' = <<>>
  <2>1. Elements(s)' = [i \in 1..count'[s] |-> value'[d[s][i]]]
    BY <1>2, ElementsThen
  <2>2. QED
    BY <1>4, <2>1
<1>7. ASSUME NEW m \in Lists \ {x, s} PROVE Elements(m)' = Elements(m)
  <2>1. Elements(m)' = [i \in 1..count[m] |-> value'[c[m][i]]]
    <3>1. Elements(m)' = [i \in 1..count'[m] |-> value'[d[m][i]]]
      BY <1>2, ElementsThen
    <3>2. QED
      BY <1>3, <1>4, <3>1
  <2>2. ASSUME NEW i \in 1..count[m] PROVE value'[c[m][i]] = value[c[m][i]]
    <3>1. i \in Nat /\ c[m][i] # NULL /\ c[m][i] \in alloc
      BY PlaceFacts DEF Along
    <3>2. ~In(c, x, c[m][i]) /\ ~In(c, s, c[m][i])
      BY <3>1 DEF Shape, Placed, In
    <3>3. QED
      BY <3>1, <3>2 DEF BothRefilled
  <2>3. /\ Elements(m) \in Seq(Values) /\ Len(Elements(m)) = count[m]
        /\ \A i \in 1..count[m] : Elements(m)[i] = value[c[m][i]]
    BY ElementsAre
  <2>4. PICK E : E = Elements(m)
    OBVIOUS
  <2>5. E = [i \in 1..count[m] |-> value[c[m][i]]]
    BY <2>3, <2>4
  <2>6. QED
    BY <2>1, <2>2, <2>4, <2>5
<1>8. Filled'
  <2>1. ASSUME NEW e \in alloc' PROVE value'[e] \in Values
    <3>1. CASE e \in alloc /\ ~In(c, x, e) /\ ~In(c, s, e)
      BY <3>1 DEF BothRefilled, Filled
    <3>2. CASE \E i \in 1..n : g[i] = e
      <4>1. PICK i \in 1..n : g[i] = e
        BY <3>2
      <4>2. q[i] \in Values /\ value'[g[i]] = q[i]
        BY <4>1, ElementOfSeq DEF BothRefilled
      <4>3. QED
        BY <4>1, <4>2
    <3>3. QED
      BY <1>4, <3>1, <3>2
  <2>2. QED
    BY <2>1 DEF Filled, BothRefilled
<1>9. QED
  BY <1>2, <1>5, <1>6, <1>7, <1>8 DEF BothBecome

(* list_move *)
LEMMA MoveDone ==
  ASSUME NEW c, Shape(c), Filled, NEW x \in Lists, NEW s \in Lists \ {x}, Move(x, s)
  PROVE  BothBecome(x, s, Elements(s))
<1> DEFINE met == Cells(Chain(x))
           a == c[s]
           n == count[s]
<1>1. /\ next' = Cleared(next, met) /\ prev' = Cleared(prev, met) /\ alloc' = alloc \ met
      /\ head' = [head EXCEPT ![x] = head[s], ![s] = NULL]
      /\ tail' = [tail EXCEPT ![x] = tail[s], ![s] = NULL]
      /\ count' = [count EXCEPT ![x] = n, ![s] = 0]
      /\ oneway' = IF s \in oneway THEN (oneway \cup {x}) \ {s} ELSE oneway \ {x}
      /\ ~fault'
  BY ChainIs DEF Move, Freed
<1>2. Along(s, a, n) /\ Pointers
  BY PlaceFacts
<1>3. \A p \in Entries : p \in met <=> In(c, x, p)
  BY MetIsIn
<1>4. \A p : In(c, s, p) <=> \E j \in Nat : a[j] = p
  BY DEF In
<1>5. ASSUME NEW i \in Nat, a[i] # NULL PROVE ~In(c, x, a[i])
  BY <1>5 DEF Shape, Placed, In
<1> HIDE DEF met, a, n
<1> USE DEF Along, Pointers
<1>6. ASSUME NEW i \in 1..n
      PROVE  i \in Nat /\ a[i] \in alloc /\ a[i] \in Entries /\ a[i] \notin met /\ In(c, s, a[i])
  BY <1>2, <1>3, <1>4, <1>5
<1>7. next' \in [Entries -> Ptr] /\ prev' \in [Entries -> Ptr]
  BY <1>1, <1>2 DEF Cleared, Ptr
<1>8. ASSUME NEW p \in Entries, p \notin met PROVE next'[p] = next[p] /\ prev'[p] = prev[p]
  BY <1>1, <1>8 DEF Cleared
<1>9. ASSUME NEW p \in Entries
      PROVE  p \in alloc' <=> \/ p \in alloc /\ ~In(c, x, p) /\ ~In(c, s, p)
                              \/ \E i \in 1..n : a[i] = p
  <2>1. In(c, s, p) => \E i \in 1..n : a[i] = p
    BY <1>2, <1>4, NullAssumption
  <2>2. QED
    BY <1>1, <1>3, <1>6, <2>1
<1>10. Blank(alloc', next', prev')
  BY <1>1, <1>2 DEF Cleared, Blank
<1>11. /\ oneway' \subseteq Lists /\ (x \in oneway' <=> s \in oneway)
       /\ \A m \in Lists \ {x, s} : m \in oneway' <=> m \in oneway
  BY <1>1, <1>2
<1>12. \A i \in 1..n : next'[a[i]] = a[i + 1]
  BY <1>2, <1>6, <1>8
<1>13. \A i \in 1..n : x \notin oneway' \/ i = 1 => prev'[a[i]] = a[i - 1]
  BY <1>2, <1>6, <1>8, <1>11
<1>14. \A p \in alloc : ~In(c, x, p) /\ ~In(c, s, p) => next'[p] = next[p] /\ prev'[p] = prev[p]
  BY <1>2, <1>3, <1>8
<1>15. \A i, j \in 1..n : a[i] = a[j] => i = j
  <2>1. \A i \in 1..n : i \in Nat /\ a[i] # NULL
    BY <1>2, <1>6
  <2>2. QED
    BY <1>2, <2>1
<1>16. alloc' \subseteq Entries /\ head' = [head EXCEPT ![x] = a[1], ![s] = NULL]
       /\ tail' = [tail EXCEPT ![x] = a[n], ![s] = NULL]
  BY <1>1, <1>2
<1>17. TakenOver(c, x, s, n, a)
  BY <1>1, <1>2, <1>6, <1>7, <1>9, <1>10, <1>11, <1>12, <1>13, <1>14, <1>15, <1>16 DEF TakenOver
<1>18. PICK E : E = Elements(s)
  OBVIOUS
<1>19. E \in Seq(Values) /\ Len(E) = n /\ \A i \in 1..n : E[i] = value[a[i]]
  BY <1>18, ElementsAre DEF n, a
<1>20. value' = Cleared(value, met)
  BY DEF Move, Freed, met
<1>21. /\ value' \in [Entries -> Values \cup {NULL}]
       /\ \A p \in Entries : p \notin met => value'[p] = value[p]
  BY <1>20 DEF Cleared, Filled
<1>22. \A i \in 1..n : value'[a[i]] = E[i]
  BY <1>6, <1>19, <1>21
<1>23. \A p \in alloc : ~In(c, x, p) /\ ~In(c, s, p) => value'[p] = value[p]
  BY <1>2, <1>3, <1>21
<1>24. BothRefilled(c, x, s, n, a, E)
  BY <1>17, <1>19, <1>21, <1>22, <1>23 DEF BothRefilled
<1>25. QED
  BY <1>18, <1>24, TwoListsBecome

(* list_merge, unless only the source is empty: the entries of s follow     *)
(* those of x.                                                              *)
LEMMA MergeDone ==
  ASSUME NEW c, Shape(c), Filled, NEW x \in Lists, NEW s \in Lists \ {x}, Merge(x, s), ~derailed'
  PROVE  BothBecome(x, s, Elements(x) \o Elements(s))
<1> DEFINE b == c[x]
           n == count[x]
           a == c[s]
           k == count[s]
<1>1. /\ head' = [head EXCEPT ![x] = IF n = 0 THEN head[s] ELSE head[x], ![s] = NULL]
      /\ next' = [e \in Entries |-> IF n > 0 /\ e = tail[x] THEN head[s] ELSE next[e]]
      /\ tail' = [tail EXCEPT ![x] = tail[s], ![s] = NULL]
      /\ count' = [count EXCEPT ![x] = n + k, ![s] = 0]
      /\ oneway' = IF n > 0 \/ s \in oneway THEN (oneway \cup {x}) \ {s} ELSE oneway
      /\ fault' = (n > 0 /\ ~Valid(tail[x]))
      /\ alloc' = alloc /\ prev' = prev /\ ~(n > 0 /\ k = 0)
  BY DEF Merge, ReturnsOr
<1>2. Along(x, b, n) /\ Along(s, a, k) /\ Pointers
  BY PlaceFacts
<1>3. \A p : In(c, x, p) <=> \E j \in Nat : b[j] = p
  BY DEF In
<1>4. \A p : In(c, s, p) <=> \E j \in Nat : a[j] = p
  BY DEF In
<1>5. \A i, j \in Nat : b[i] # NULL => b[i] # a[j]
  BY DEF Shape, Placed
<1> HIDE DEF a, b, k, n
<1> USE DEF Along, Pointers
<1>6. n \in Nat /\ k \in Nat /\ n + k \in Nat /\ (n = 0 \/ k > 0) /\ n + 1 \in Nat
  BY <1>1, <1>2
<1>7. PICK g : g = [i \in Nat |-> IF i <= n THEN b[i] ELSE a[i - n]]
  OBVIOUS
<1>8. /\ \A i \in Nat : i <= n => g[i] = b[i]
      /\ \A i \in Nat : i > n => i - n \in Nat /\ g[i] = a[i - n]
  BY <1>6, <1>7
<1>9. g \in [Nat -> Ptr]
  <2>1. \A i \in Nat : g[i] \in Ptr
    BY <1>2, <1>6, <1>8
  <2>2. QED
    BY <1>7, <2>1
<1>10. ASSUME NEW i \in Nat PROVE g[i] # NULL <=> i \in 1..(n + k)
  <2>1. CASE i <= n
    <3>1. i \in 1..n <=> i \in 1..(n + k)
      BY <1>6, <2>1
    <3>2. QED
      BY <1>2, <1>8, <2>1, <3>1
  <2>2. CASE i > n
    <3>1. i - n \in 1..k <=> i \in 1..(n + k)
      BY <1>6, <2>2
    <3>2. QED
      BY <1>2, <1>8, <2>2, <3>1
  <2>3. QED
    BY <1>6, <2>1, <2>2
<1>11. ASSUME NEW i \in 1..(n + k)
       PROVE  i \in Nat /\ g[i] # NULL /\ (i <= n \/ i > n) /\ g[i] \in alloc /\ g[i] \in Entries
  <2>1. i \in Nat /\ g[i] # NULL /\ (i <= n \/ i > n)
    BY <1>6, <1>10
  <2>2. QED
    BY <1>2, <1>8, <2>1
<1>12. ASSUME NEW i \in 1..(n + k), NEW j \in 1..(n + k), g[i] = g[j] PROVE i = j
  <2>1. i \in Nat /\ j \in Nat /\ g[i] # NULL /\ g[j] # NULL
    BY <1>11
  <2>2. CASE i <= n /\ j <= n
    BY <1>2, <1>8, <1>12, <2>1, <2>2
  <2>3. CASE i > n /\ j > n
    <3>1. i - n = j - n
      BY <1>2, <1>8, <1>12, <2>1, <2>3
    <3>2. QED
      BY <1>6, <2>1, <3>1
  <2>4. CASE i <= n /\ j > n
    BY <1>5, <1>8, <1>12, <2>1, <2>4
  <2>5. CASE i > n /\ j <= n
    BY <1>5, <1>8, <1>12, <2>1, <2>5
  <2>6. QED
    BY <1>11, <2>2, <2>3, <2>4, <2>5
<1>13. ASSUME NEW i \in 1..(n + k) PROVE In(c, x, g[i]) \/ In(c, s, g[i])
  BY <1>3, <1>4, <1>8, <1>11
<1>14. ASSUME NEW p \in Entries
       PROVE  p \in alloc' <=> \/ p \in alloc /\ ~In(c, x, p) /\ ~In(c, s, p)
                               \/ \E i \in 1..(n + k) : g[i] = p
  <2>1. p # NULL
    BY NullAssumption
  <2>2. ASSUME In(c, x, p) PROVE \E i \in 1..(n + k) : g[i] = p
    <3>1. PICK j \in Nat : b[j] = p
      BY <1>3, <2>2
    <3>2. j \in 1..n
      BY <1>2, <2>1, <3>1
    <3>3. j \in 1..(n + k) /\ j <= n
      BY <1>6, <3>2
    <3>4. QED
      BY <1>8, <3>1, <3>3
  <2>3. ASSUME In(c, s, p) PROVE \E i \in 1..(n + k) : g[i] = p
    <3>1. PICK j \in Nat : a[j] = p
      BY <1>4, <2>3
    <3>2. j \in 1..k
      BY <1>2, <2>1, <3>1
    <3>3. n + j \in 1..(n + k) /\ n + j \in Nat /\ n + j > n /\ (n + j) - n = j
      BY <1>6, <3>2
    <3>4. g[n + j] = p
      BY <1>8, <3>1, <3>3
    <3>5. QED
      BY <3>3, <3>4
  <2>4. QED
    BY <1>1, <1>11, <2>2, <2>3
<1>15. head' = [head EXCEPT ![x] = g[1], ![s] = NULL]
  <2>1. g[1] = IF n = 0 THEN head[s] ELSE head[x]
    <3>1. CASE n = 0
      <4>1. 1 > n /\ 1 - n = 1
        BY <3>1
      <4>2. QED
        BY <1>2, <1>8, <3>1, <4>1
    <3>2. CASE n # 0
      <4>1. 1 <= n
        BY <1>6, <3>2
      <4>2. QED
        BY <1>2, <1>8, <3>2, <4>1
    <3>3. QED
      BY <3>1, <3>2
  <2>2. QED
    BY <1>1, <2>1
<1>16. tail' = [tail EXCEPT ![x] = g[n + k], ![s] = NULL]
  <2>1. ASSUME k > 0 PROVE g[n + k] = tail[s]
    <3>1. n + k > n /\ (n + k) - n = k
      BY <1>6, <2>1
    <3>2. QED
      BY <1>2, <1>6, <1>8, <3>1
  <2>2. ASSUME k = 0 PROVE g[n + k] = tail[s]
    <3>1. n = 0 /\ n + k = 0
      BY <1>6, <2>2
    <3>2. QED
      BY <1>2, <1>6, <1>8, <2>2, <3>1
  <2>3. g[n + k] = tail[s]
    BY <1>6, <2>1, <2>2
  <2>4. QED
    BY <1>1, <2>3
<1>17. next' \in [Entries -> Ptr] /\ prev' \in [Entries -> Ptr]
  BY <1>1, <1>2
<1>18. n > 0 => tail[x] = b[n] /\ b[n] \in alloc /\ b[n] # NULL
  <2>1. n > 0 => n \in 1..n
    BY <1>6
  <2>2. QED
    BY <1>2, <1>6, <2>1
<1>19. ASSUME NEW p \in alloc, ~In(c, x, p) PROVE next'[p] = next[p] /\ prev'[p] = prev[p]
  <2>1. p \in Entries /\ (n > 0 => p # tail[x])
    BY <1>2, <1>3, <1>6, <1>18, <1>19
  <2>2. QED
    BY <1>1, <2>1
<1>20. ASSUME NEW i \in 1..(n + k) PROVE next'[g[i]] = g[i + 1]
  <2>1. i \in Nat /\ i + 1 \in Nat /\ g[i] \in Entries /\ g[i] # NULL
    BY <1>11
  <2>2. next'[g[i]] = IF n > 0 /\ g[i] = tail[x] THEN head[s] ELSE next[g[i]]
    BY <1>1, <2>1
  <2>3. CASE i < n
    <3>1. i \in 1..n /\ i <= n /\ i + 1 <= n /\ i # n
      BY <1>6, <2>1, <2>3
    <3>2. g[i] = b[i] /\ g[i + 1] = b[i + 1] /\ next[b[i]] = b[i + 1]
      BY <1>2, <1>8, <2>1, <3>1
    <3>3. b[i] # b[n]
      BY <1>2, <1>6, <2>1, <3>1, <3>2
    <3>4. QED
      BY <1>18, <2>2, <3>2, <3>3
  <2>4. CASE i = n
    <3>1. n > 0 /\ n <= n /\ n + 1 > n /\ (n + 1) - n = 1
      BY <1>6, <2>1, <2>4
    <3>2. g[n] = b[n] /\ g[n + 1] = a[1] /\ head[s] = a[1]
      BY <1>2, <1>6, <1>8, <3>1
    <3>3. QED
      BY <1>18, <2>2, <2>4, <3>1, <3>2
  <2>5. CASE i > n
    <3>1. i - n \in 1..k /\ i + 1 > n /\ (i + 1) - n = (i - n) + 1
      BY <1>6, <2>1, <2>5
    <3>2. g[i] = a[i - n] /\ g[i + 1] = a[(i - n) + 1] /\ next[a[i - n]] = a[(i - n) + 1] /\ i - n \in Nat
      BY <1>2, <1>8, <2>1, <2>5, <3>1
    <3>3. n > 0 => g[i] # tail[x]
      BY <1>5, <1>6, <1>18, <3>2
    <3>4. QED
      BY <2>2, <3>2, <3>3
  <2>6. QED
    BY <1>6, <2>1, <2>3, <2>4, <2>5
<1>21. ASSUME NEW i \in 1..(n + k), x \notin oneway' \/ i = 1 PROVE prev'[g[i]] = g[i - 1]
  <2>1. i \in Nat /\ i - 1 \in Nat /\ i >= 1
    BY <1>6
  <2>2. g[0] = NULL
    BY <1>2, <1>6, <1>8
  <2>3. CASE n > 0
    <3>1. i = 1 /\ i \in 1..n /\ i <= n /\ i - 1 = 0
      BY <1>1, <1>6, <1>21, <2>1, <2>3
    <3>2. g[i] = b[i] /\ prev[b[i]] = b[0] /\ b[0] = NULL
      BY <1>2, <1>8, <2>1, <3>1
    <3>3. QED
      BY <1>1, <2>2, <3>1, <3>2
  <2>4. CASE n = 0
    <3>1. i > n /\ i - n = i /\ i \in 1..k /\ (x \notin oneway' => s \notin oneway)
      BY <1>1, <1>6, <2>1, <2>4
    <3>2. g[i] = a[i] /\ prev[a[i]] = a[i - 1]
      BY <1>2, <1>8, <1>21, <2>1, <3>1
    <3>3. g[i - 1] = a[i - 1]
      <4>1. CASE i = 1
        BY <1>2, <2>2, <4>1
      <4>2. CASE i # 1
        <5>1. i - 1 > n /\ (i - 1) - n = i - 1
          BY <2>1, <2>4, <4>2
        <5>2. QED
          BY <1>8, <2>1, <5>1
      <4>3. QED
        BY <4>1, <4>2
    <3>4. QED
      BY <1>1, <3>2, <3>3
  <2>5. QED
    BY <1>6, <2>3, <2>4
<1>22. Blank(alloc', next', prev')
  <2>1. ASSUME NEW p \in Entries \ alloc PROVE n > 0 => p # tail[x]
    BY <1>18
  <2>2. QED
    BY <1>1, <1>2, <2>1 DEF Blank
<1>23. /\ alloc' \subseteq Entries /\ oneway' \subseteq Lists /\ ~fault'
       /\ \A m \in Lists \ {x, s} : m \in oneway' <=> m \in oneway
  BY <1>1, <1>2, <1>18 DEF Valid
<1>24. count' = [count EXCEPT ![x] = n + k, ![s] = 0]
  BY <1>1
<1>25. TakenOver(c, x, s, n + k, g)
  BY <1>6, <1>9, <1>10, <1>12, <1>13, <1>14, <1>15, <1>16, <1>17, <1>19, <1>20, <1>21, <1>22, <1>23,
     <1>24 DEF TakenOver
<1>26. PICK E : E = Elements(x)
  OBVIOUS
<1>27. PICK F : F = Elements(s)
  OBVIOUS
<1>28. /\ E \in Seq(Values) /\ Len(E) = n /\ \A i \in 1..n : E[i] = value[b[i]]
       /\ F \in Seq(Values) /\ Len(F) = k /\ \A i \in 1..k : F[i] = value[a[i]]
  BY <1>26, <1>27, ElementsAre DEF n, b, k, a
<1>29. PICK q : q = E \o F
  OBVIOUS
<1>30. /\ q \in Seq(Values) /\ Len(q) = n + k /\ \A i \in 1..n : q[i] = E[i]
       /\ \A i \in 1..(n + k) : i > n => q[i] = F[i - n]
  BY <1>28, <1>29, ConcatIs
<1>31. value' = value
  BY DEF Merge
<1>32. ASSUME NEW i \in 1..(n + k) PROVE value'[g[i]] = q[i]
  <2>1. i \in Nat /\ (i <= n \/ i > n)
    BY <1>11
  <2>2. CASE i <= n
    <3>1. i \in 1..n
      BY <1>6, <2>1, <2>2
    <3>2. g[i] = b[i] /\ q[i] = E[i] /\ E[i] = value[b[i]]
      BY <1>8, <1>28, <1>30, <2>1, <2>2, <3>1
    <3>3. QED
      BY <1>31, <3>2
  <2>3. CASE i > n
    <3>1. i - n \in 1..k
      BY <1>6, <2>1, <2>3
    <3>2. g[i] = a[i - n]
      BY <1>8, <2>1, <2>3
    <3>3. q[i] = F[i - n]
      BY <1>30, <2>3
    <3>4. F[i - n] = value[a[i - n]]
      BY <1>28, <3>1
    <3>5. QED
      BY <1>31, <3>2, <3>3, <3>4
  <2>4. QED
    BY <2>1, <2>2, <2>3
<1>33. BothRefilled(c, x, s, n + k, g, q)
  BY <1>25, <1>30, <1>31, <1>32 DEF BothRefilled, Filled
<1>34. QED
  BY <1>26, <1>27, <1>29, <1>33, TwoListsBecome

-----------------------------------------------------------------------------
(* list_sort. *)

(* The strings s with the first one moved to the end.                       *)
Rotated(s) == [i \in 1..Len(s) |-> IF i < Len(s) THEN s[i + 1] ELSE s[1]]

(* h holds the strings after each step of the inner loop.                   *)
Passes(h, s, order) ==
  h = [i \in 1..Len(s) |->
         IF i = 1 \/ ~OutOfOrder(s, order) THEN s
         ELSE [h[i-1] EXCEPT ![i-1] = h[i-1][i], ![i] = h[i-1][i-1]]]

(* The strings s after i - 1 swaps: the first one is at place i.            *)
Swapped(s, i) ==
  [j \in 1..Len(s) |-> IF j < i THEN s[j + 1] ELSE IF j = i THEN s[1] ELSE s[j]]

(* One more swap.                                                           *)
LEMMA SwappedNext ==
  ASSUME NEW s, NEW n \in Nat, n = Len(s), NEW i \in 1..n, i # 1, NEW t, t = Swapped(s, i - 1)
  PROVE  [t EXCEPT ![i-1] = t[i], ![i] = t[i-1]] = Swapped(s, i)
<1>1. i \in Nat /\ i - 1 \in 1..n /\ (i - 1) + 1 = i
  OBVIOUS
<1>2. t = [j \in 1..n |-> IF j < i - 1 THEN s[j + 1] ELSE IF j = i - 1 THEN s[1] ELSE s[j]]
  BY DEF Swapped
<1>3. t[i] = s[i] /\ t[i - 1] = s[1]
  BY <1>1, <1>2
<1>4. PICK r : r = [t EXCEPT ![i-1] = t[i], ![i] = t[i-1]]
  OBVIOUS
<1>5. r = [j \in 1..n |-> IF j = i THEN s[1] ELSE IF j = i - 1 THEN s[i] ELSE t[j]]
  BY <1>1, <1>2, <1>3, <1>4
<1>6. ASSUME NEW j \in 1..n
      PROVE  (IF j = i THEN s[1] ELSE IF j = i - 1 THEN s[i] ELSE t[j])
             = IF j < i THEN s[j + 1] ELSE IF j = i THEN s[1] ELSE s[j]
  <2>1. CASE j = i
    BY <1>1, <2>1
  <2>2. CASE j = i - 1
    BY <1>1, <2>2
  <2>3. CASE j < i - 1
    BY <1>1, <1>2, <2>3
  <2>4. CASE j > i
    BY <1>1, <1>2, <2>4
  <2>5. QED
    BY <1>1, <2>1, <2>2, <2>3, <2>4
<1>7. r = [j \in 1..n |-> IF j < i THEN s[j + 1] ELSE IF j = i THEN s[1] ELSE s[j]]
  BY <1>5, <1>6
<1>8. QED
  BY <1>4, <1>7 DEF Swapped

(* A pass over strings that are in order leaves them; another pass compares *)
(* the same two strings at every step, and so takes the first to the end.   *)
LEMMA SortPassIs ==
  ASSUME NEW S, NEW s \in Seq(S), Len(s) > 0, NEW order
  PROVE  SortPass(s, order) = IF OutOfOrder(s, order) THEN Rotated(s) ELSE s
<1>1. PICK n \in Nat : n = Len(s) /\ n > 0
  OBVIOUS
<1>2. PICK h : h = CHOOSE k : Passes(k, s, order)
  OBVIOUS
<1>3. SortPass(s, order) = h[n]
  BY <1>1, <1>2 DEF SortPass, Passes
<1>4. CASE ~OutOfOrder(s, order)
  <2>1. PICK k : k = [i \in 1..n |-> s]
    OBVIOUS
  <2>2. Passes(k, s, order)
    BY <1>1, <1>4, <2>1 DEF Passes
  <2>3. Passes(h, s, order)
    BY <1>2, <2>2
  <2>4. n \in 1..n
    BY <1>1
  <2>5. h[n] = s
    BY <1>1, <1>4, <2>3, <2>4 DEF Passes
  <2>6. QED
    BY <1>3, <1>4, <2>5
<1>5. CASE OutOfOrder(s, order)
  <2>1. PICK k : k = [i \in 1..n |-> Swapped(s, i)]
    OBVIOUS
  <2>2. Swapped(s, 1) = s
    <3>1. s = [j \in 1..n |-> s[j]]
      BY <1>1
    <3>2. \A j \in 1..n : (IF j < 1 THEN s[j + 1] ELSE IF j = 1 THEN s[1] ELSE s[j]) = s[j]
      BY <1>1
    <3>3. QED
      BY <1>1, <3>1, <3>2 DEF Swapped
  <2>3. ASSUME NEW i \in 1..n
        PROVE  Swapped(s, i) = IF i = 1 THEN s
                               ELSE [k[i-1] EXCEPT ![i-1] = k[i-1][i], ![i] = k[i-1][i-1]]
    <3>1. CASE i = 1
      BY <2>2, <3>1
    <3>2. CASE i # 1
      <4>1. i - 1 \in 1..n
        BY <1>1, <3>2
      <4>2. PICK t : t = k[i - 1]
        OBVIOUS
      <4>3. t = Swapped(s, i - 1)
        BY <2>1, <4>1, <4>2
      <4>4. [t EXCEPT ![i-1] = t[i], ![i] = t[i-1]] = Swapped(s, i)
        BY <1>1, <3>2, <4>3, SwappedNext
      <4>5. QED
        BY <3>2, <4>2, <4>4
    <3>3. QED
      BY <3>1, <3>2
  <2>4. k = [i \in 1..n |-> IF i = 1 \/ ~OutOfOrder(s, order) THEN s
                            ELSE [k[i-1] EXCEPT ![i-1] = k[i-1][i], ![i] = k[i-1][i-1]]]
    BY <1>5, <2>1, <2>3
  <2>5. Passes(k, s, order)
    BY <1>1, <2>4 DEF Passes
  <2>6. Passes(h, s, order)
    BY <1>2, <2>5
  <2>7. \A i \in 1..n : h[i] = IF i = 1 THEN s
                               ELSE [h[i-1] EXCEPT ![i-1] = h[i-1][i], ![i] = h[i-1][i-1]]
    BY <1>1, <1>5, <2>6 DEF Passes
  <2> DEFINE T == {m \in Nat : m + 1 <= n => h[m + 1] = Swapped(s, m + 1)}
  <2>8. 0 \in T
    <3>1. 1 \in 1..n /\ 0 + 1 = 1
      BY <1>1
    <3>2. QED
      BY <2>2, <2>7, <3>1
  <2>9. ASSUME NEW m \in T PROVE m + 1 \in T
    <3>1. m \in Nat /\ m + 1 \in Nat
      OBVIOUS
    <3>2. ASSUME (m + 1) + 1 <= n PROVE h[(m + 1) + 1] = Swapped(s, (m + 1) + 1)
      <4>1. PICK i : i = (m + 1) + 1
        OBVIOUS
      <4>2. i \in 1..n /\ i # 1 /\ i - 1 = m + 1 /\ m + 1 <= n
        BY <1>1, <3>1, <3>2, <4>1
      <4>3. PICK t : t = h[i - 1]
        OBVIOUS
      <4>4. t = Swapped(s, i - 1)
        BY <4>2, <4>3
      <4>5. [t EXCEPT ![i-1] = t[i], ![i] = t[i-1]] = Swapped(s, i)
        BY <1>1, <4>2, <4>4, SwappedNext
      <4>6. h[i] = [t EXCEPT ![i-1] = t[i], ![i] = t[i-1]]
        BY <2>7, <4>2, <4>3
      <4>7. QED
        BY <4>1, <4>5, <4>6
    <3>3. QED
      BY <3>1, <3>2
  <2>10. T \in SUBSET Nat
    OBVIOUS
  <2>11. T = Nat
    <3> HIDE DEF T
    <3>1. QED
      BY <2>8, <2>9, <2>10, SetInduction
  <2>12. h[n] = Swapped(s, n)
    <3>1. n - 1 \in Nat /\ (n - 1) + 1 = n /\ n <= n
      BY <1>1
    <3>2. n - 1 \in T
      BY <2>11, <3>1
    <3>3. (n - 1) + 1 <= n => h[(n - 1) + 1] = Swapped(s, (n - 1) + 1)
      BY <3>2
    <3>4. QED
      BY <3>1, <3>3
  <2>13. Swapped(s, n) = Rotated(s)
    <3>1. \A j \in 1..n : (IF j < n THEN s[j + 1] ELSE IF j = n THEN s[1] ELSE s[j])
                          = IF j < n THEN s[j + 1] ELSE s[1]
      BY <1>1
    <3>2. QED
      BY <1>1, <3>1 DEF Swapped, Rotated
  <2>14. QED
    BY <1>3, <1>5, <2>12, <2>13
<1>6. QED
  BY <1>4, <1>5

(* The strings E with the first j moved to the end.                         *)
Rotation(E, j) == SubSeq(E, j + 1, Len(E)) \o SubSeq(E, 1, j)

(* R holds these n strings.                                                 *)
Turned(R, E, n, j) ==
  Len(R) = n /\ \A i \in 1..n : R[i] = IF i <= n - j THEN E[j + i] ELSE E[i - (n - j)]

(* It does.                                                                 *)
LEMMA RotationIs ==
  ASSUME NEW S, NEW E \in Seq(S), NEW n, n = Len(E), NEW j \in 0..n, NEW R, R = Rotation(E, j)
  PROVE  R \in Seq(S) /\ Turned(R, E, n, j)
<1>1. n \in Nat /\ j \in Nat /\ j <= n
  OBVIOUS
<1>2. PICK A : A = SubSeq(E, j + 1, n)
  OBVIOUS
<1>3. PICK B : B = SubSeq(E, 1, j)
  OBVIOUS
<1>4. A \in Seq(S) /\ Len(A) = n - j /\ \A i \in 1..(n - j) : A[i] = E[j + i]
  BY <1>1, <1>2
<1>5. B \in Seq(S) /\ Len(B) = j /\ \A i \in 1..j : B[i] = E[i]
  BY <1>1, <1>3
<1>6. R = A \o B
  BY <1>2, <1>3 DEF Rotation
<1>7. PICK a : a = n - j
  OBVIOUS
<1>8. a \in Nat /\ a + j = n
  BY <1>1, <1>7
<1>9. /\ A \o B \in Seq(S) /\ Len(A \o B) = a + j /\ \A i \in 1..a : (A \o B)[i] = A[i]
      /\ \A i \in 1..(a + j) : i > a => (A \o B)[i] = B[i - a]
  <2>1. A \in Seq(S) /\ B \in Seq(S) /\ a = Len(A) /\ j = Len(B)
    BY <1>4, <1>5, <1>7
  <2>2. QED
    BY ONLY <2>1, ConcatIs
<1>10. ASSUME NEW i \in 1..n PROVE (A \o B)[i] = IF i <= n - j THEN E[j + i] ELSE E[i - (n - j)]
  <2>1. CASE i <= a
    <3>1. i \in 1..a /\ i \in 1..(n - j) /\ i <= n - j
      BY <1>1, <1>7, <2>1
    <3>2. QED
      BY <1>4, <1>9, <3>1
  <2>2. CASE i > a
    <3>1. i \in 1..(a + j) /\ i - a \in 1..j /\ ~(i <= n - j) /\ i - a = i - (n - j)
      BY <1>1, <1>7, <1>8, <2>2
    <3>2. QED
      BY <1>5, <1>9, <2>2, <3>1
  <2>3. i <= a \/ i > a
    BY <1>1, <1>7
  <2>4. QED
    BY <2>1, <2>2, <2>3
<1>11. QED
  BY <1>6, <1>8, <1>9, <1>10 DEF Turned

(* One string more is moved.                                                *)
LEMMA RotationNext ==
  ASSUME NEW S, NEW E \in Seq(S), NEW n, n = Len(E), NEW j \in 0..n, j < n
  PROVE  Rotated(Rotation(E, j)) = Rotation(E, j + 1)
<1>1. n \in Nat /\ j \in Nat /\ j + 1 \in 0..n
  OBVIOUS
<1>2. PICK R : R = Rotation(E, j)
  OBVIOUS
<1>3. PICK Q : Q = Rotation(E, j + 1)
  OBVIOUS
<1>4. /\ R \in Seq(S) /\ Len(R) = n
      /\ \A i \in 1..n : R[i] = IF i <= n - j THEN E[j + i] ELSE E[i - (n - j)]
  <2>1. R \in Seq(S) /\ Turned(R, E, n, j)
    BY <1>2, RotationIs
  <2>2. QED
    BY <2>1 DEF Turned
<1>5. /\ Q \in Seq(S) /\ Len(Q) = n
      /\ \A i \in 1..n : Q[i] = IF i <= n - (j + 1) THEN E[(j + 1) + i] ELSE E[i - (n - (j + 1))]
  <2>1. PICK k : k = j + 1
    OBVIOUS
  <2>2. k \in 0..n /\ Q = Rotation(E, k)
    BY <1>1, <1>3, <2>1
  <2>3. Q \in Seq(S) /\ Turned(Q, E, n, k)
    BY <2>2, RotationIs
  <2>4. QED
    BY <2>1, <2>3 DEF Turned
<1>6. ASSUME NEW i \in 1..n PROVE (IF i < n THEN R[i + 1] ELSE R[1]) = Q[i]
  <2>1. CASE i = n
    <3>1. 1 \in 1..n /\ 1 <= n - j /\ ~(n <= n - (j + 1)) /\ n - (n - (j + 1)) = j + 1 /\ n \in 1..n
      BY <1>1
    <3>2. R[1] = E[j + 1]
      BY <1>4, <3>1
    <3>3. Q[n] = E[n - (n - (j + 1))]
      BY <1>5, <3>1
    <3>4. ~(i < n)
      BY <1>1, <2>1
    <3>5. QED
      BY <2>1, <3>1, <3>2, <3>3, <3>4
  <2>2. CASE i < n /\ i + 1 <= n - j
    <3>1. i + 1 \in 1..n /\ i <= n - (j + 1) /\ j + (i + 1) = (j + 1) + i
      BY <1>1, <2>2
    <3>2. QED
      BY <1>4, <1>5, <2>2, <3>1
  <2>3. CASE i < n /\ ~(i + 1 <= n - j)
    <3>1. i + 1 \in 1..n /\ ~(i <= n - (j + 1)) /\ (i + 1) - (n - j) = i - (n - (j + 1))
      BY <1>1, <2>3
    <3>2. QED
      BY <1>4, <1>5, <2>3, <3>1
  <2>4. QED
    BY <1>1, <2>1, <2>2, <2>3
<1>7. Q = [i \in 1..n |-> Q[i]]
  BY <1>5
<1>8. Rotated(R) = [i \in 1..n |-> IF i < n THEN R[i + 1] ELSE R[1]]
  BY <1>4 DEF Rotated
<1>9. QED
  BY <1>2, <1>3, <1>6, <1>7, <1>8

(* p holds the strings after each of n passes.                              *)
Sorts(p, E, order, n) == p = [k \in 0..n |-> IF k = 0 THEN E ELSE SortPass(p[k-1], order)]

(* There is such a function.                                                *)
LEMMA SortsExists ==
  ASSUME NEW E, NEW order, NEW n \in Nat
  PROVE  \E p : Sorts(p, E, order, n)
<1> DEFINE T == {m \in Nat : \E p : Sorts(p, E, order, m)}
<1>1. 0 \in T
  <2>1. PICK p : p = [k \in 0..0 |-> E]
    OBVIOUS
  <2>2. \A k \in 0..0 : k = 0
    OBVIOUS
  <2>3. p = [k \in 0..0 |-> IF k = 0 THEN E ELSE SortPass(p[k-1], order)]
    BY <2>1, <2>2
  <2>4. QED
    BY <2>3 DEF Sorts
<1>2. ASSUME NEW m \in T PROVE m + 1 \in T
  <2>1. m \in Nat /\ m + 1 \in Nat
    OBVIOUS
  <2>2. PICK p : Sorts(p, E, order, m)
    OBVIOUS
  <2>3. PICK q : q = [k \in 0..(m + 1) |-> IF k = m + 1 THEN SortPass(p[m], order) ELSE p[k]]
    OBVIOUS
  <2>4. /\ \A k \in 0..m : p[k] = IF k = 0 THEN E ELSE SortPass(p[k-1], order)
        /\ \A k \in 0..m : k # m + 1 /\ k \in 0..(m + 1) /\ q[k] = p[k]
    BY <2>1, <2>2, <2>3 DEF Sorts
  <2>5. ASSUME NEW k \in 0..(m + 1)
        PROVE  (IF k = m + 1 THEN SortPass(p[m], order) ELSE p[k])
               = IF k = 0 THEN E ELSE SortPass(q[k-1], order)
    <3>1. CASE k = m + 1
      <4>1. k # 0 /\ k - 1 = m /\ m \in 0..m
        BY <2>1, <3>1
      <4>2. QED
        BY <2>4, <3>1, <4>1
    <3>2. CASE k # m + 1
      <4>1. k \in 0..m /\ (k # 0 => k - 1 \in 0..m)
        BY <2>1, <3>2
      <4>2. QED
        BY <2>4, <3>2, <4>1
    <3>3. QED
      BY <3>1, <3>2
  <2>6. q = [k \in 0..(m + 1) |-> IF k = 0 THEN E ELSE SortPass(q[k-1], order)]
    BY <2>3, <2>5
  <2>7. QED
    BY <2>1, <2>6 DEF Sorts
<1>3. T \in SUBSET Nat
  OBVIOUS
<1>4. T = Nat
  <2> HIDE DEF T
  <2>1. QED
    BY <1>1, <1>2, <1>3, SetInduction
<1>5. n \in T
  BY <1>4
<1>6. QED
  BY <1>5

(* The passes make a rotation of the strings.                               *)
LEMMA PassesRotate ==
  ASSUME NEW S, NEW E \in Seq(S), NEW n, n = Len(E), NEW order, NEW p, Sorts(p, E, order, n),
         NEW k \in 0..n
  PROVE  \E j \in 0..n : p[k] = Rotation(E, j)
<1> DEFINE T == {m \in Nat : m <= n => \E j \in 0..m : p[m] = Rotation(E, j)}
<1>1. n \in Nat /\ \A m \in 0..n : p[m] = IF m = 0 THEN E ELSE SortPass(p[m-1], order)
  BY DEF Sorts
<1>2. 0 \in T
  <2>1. 0 \in 0..n /\ 0 \in 0..0
    BY <1>1
  <2>2. PICK R : R = Rotation(E, 0)
    OBVIOUS
  <2>3. R \in Seq(S) /\ Len(R) = n /\ \A i \in 1..n : R[i] = IF i <= n - 0 THEN E[0 + i] ELSE E[i - (n - 0)]
    BY <2>1, <2>2, RotationIs DEF Turned
  <2>4. \A i \in 1..n : i <= n - 0 /\ 0 + i = i
    BY <1>1
  <2>5. R = E
    BY <2>3, <2>4
  <2>6. QED
    BY <1>1, <2>1, <2>2, <2>5
<1>3. ASSUME NEW m \in T PROVE m + 1 \in T
  <2>1. m \in Nat /\ m + 1 \in Nat
    OBVIOUS
  <2>2. ASSUME m + 1 <= n PROVE \E j \in 0..(m + 1) : p[m + 1] = Rotation(E, j)
    <3>1. m <= n /\ m + 1 \in 0..n /\ m + 1 # 0 /\ (m + 1) - 1 = m /\ n > 0
      BY <1>1, <2>1, <2>2
    <3>2. PICK j \in 0..m : p[m] = Rotation(E, j)
      BY <3>1
    <3>3. j \in 0..n /\ j < n /\ j \in 0..(m + 1) /\ j + 1 \in 0..(m + 1)
      BY <1>1, <2>1, <2>2
    <3>4. PICK R : R = Rotation(E, j)
      OBVIOUS
    <3>5. R \in Seq(S) /\ Len(R) = n
      BY <3>3, <3>4, RotationIs DEF Turned
    <3>6. p[m + 1] = SortPass(R, order)
      BY <1>1, <3>1, <3>2, <3>4
    <3>7. SortPass(R, order) = IF OutOfOrder(R, order) THEN Rotated(R) ELSE R
      BY <3>1, <3>5, SortPassIs
    <3>8. Rotated(R) = Rotation(E, j + 1)
      BY <3>3, <3>4, RotationNext
    <3>9. QED
      BY <3>3, <3>4, <3>6, <3>7, <3>8
  <2>3. QED
    BY <2>1, <2>2
<1>4. T \in SUBSET Nat
  OBVIOUS
<1>5. T = Nat
  <2> HIDE DEF T
  <2>1. QED
    BY <1>2, <1>3, <1>4, SetInduction
<1>6. k \in Nat /\ k <= n
  BY <1>1
<1>7. \E j \in 0..k : p[k] = Rotation(E, j)
  BY <1>5, <1>6
<1>8. \A j \in 0..k : j \in 0..n
  BY <1>1, <1>6
<1>9. QED
  BY <1>7, <1>8

(* Of the strings F, the first two are in order; or they are not numbers.   *)
InOrder(F, o) ==
  Len(F) < 2 \/ (IF o[1] = "descending" THEN Rank(F[1], o) >= Rank(F[2], o)
                                        ELSE Rank(F[1], o) <= Rank(F[2], o))
NoNumbers(F, o) == o[2] = "numeric" /\ Len(F) >= 2 /\ {F[1], F[2]} \cap NotNumeric # {}

(* What list_sort stores for the strings F that it leaves.                  *)
Sorted(l, o, F) ==
  \/ InOrder(F, o) /\ call' = <<"sort", l, o>>
  \/ NoNumbers(F, o) /\ call' = <<"sort_fails", l, o>>

(* How list_sort changes the cells w, when P holds the strings after each   *)
(* pass.                                                                    *)
SortsCells(P, w, l, o) ==
  LET Throws(n) == o[2] = "numeric" /\ {P[n][1], P[n][2]} \cap NotNumeric # {}
      Ends(n) == Len(w) < 2 \/ Throws(n) \/ ~OutOfOrder(P[n], o)
  IN \E n \in {k \in 0..Len(w) : Ends(k) /\ \A m \in 0..(k - 1) : ~Ends(m)} :
       /\ value' = [e \in Entries |->
                      IF e \in Cells(w) THEN P[n][CHOOSE i \in 1..Len(w) : w[i] = e]
                      ELSE value[e]]
       /\ Returns(<<IF Len(w) >= 2 /\ Throws(n) THEN "sort_fails" ELSE "sort", l, o>>, NULL)

(* list_sort                                                                *)
LEMMA SortDone ==
  ASSUME NEW c, Shape(c), Filled, NEW l \in Lists, NEW o \in Flags, Sort(l, o)
  PROVE  /\ ret' = NULL
         /\ \E j \in 0..Len(Elements(l)) : \E F :
              F = Rotation(Elements(l), j) /\ Becomes(l, F) /\ Sorted(l, o, F)
<1>1. PICK w : w = Chain(l)
  OBVIOUS
<1>2. PICK E : E = Elements(l)
  OBVIOUS
<1>3. PICK n : n = count[l]
  OBVIOUS
<1>4. PICK P : P = CHOOSE p : Sorts(p, E, o, Len(w))
  OBVIOUS
<1>5. /\ n \in Nat /\ Len(w) = n /\ Sound(w) /\ \A i \in 1..n : w[i] = c[l][i]
      /\ Cells(w) = {c[l][i] : i \in 1..n}
  BY <1>1, <1>3, ChainIs
<1>6. E \in Seq(Values) /\ Len(E) = n /\ n = Len(E)
  BY <1>2, <1>3, ElementsAre
<1>7. Sorts(P, E, o, n)
  <2>1. \E p : Sorts(p, E, o, n)
    BY <1>5, SortsExists
  <2>2. QED
    BY <1>4, <1>5, <2>1
<1> DEFINE Throws(k) == o[2] = "numeric" /\ {P[k][1], P[k][2]} \cap NotNumeric # {}
<1>8. PICK k \in 0..n :
        /\ n < 2 \/ Throws(k) \/ ~OutOfOrder(P[k], o)
        /\ value' = [e \in Entries |-> IF e \in Cells(w) THEN P[k][CHOOSE i \in 1..n : w[i] = e]
                                       ELSE value[e]]
        /\ Returns(<<IF n >= 2 /\ Throws(k) THEN "sort_fails" ELSE "sort", l, o>>, NULL)
  <2>1. \E k \in 0..Len(w) :
          /\ Len(w) < 2 \/ Throws(k) \/ ~OutOfOrder(P[k], o)
          /\ value' = [e \in Entries |-> IF e \in Cells(w) THEN P[k][CHOOSE i \in 1..Len(w) : w[i] = e]
                                         ELSE value[e]]
          /\ Returns(<<IF Len(w) >= 2 /\ Throws(k) THEN "sort_fails" ELSE "sort", l, o>>, NULL)
    <3>1. SortsCells(CHOOSE p : Sorts(p, Elements(l), o, Len(Chain(l))), Chain(l), l, o)
      BY Zenon DEF Sort, Sorts, SortsCells
    <3>2. SortsCells(P, w, l, o)
      BY <1>1, <1>2, <1>4, <3>1
    <3>3. QED
      BY <3>2, Zenon DEF SortsCells
  <2>2. QED
    BY <1>5, <2>1
<1>9. PICK j \in 0..n : P[k] = Rotation(E, j)
  BY <1>6, <1>7, PassesRotate
<1>10. PICK F : F = P[k]
  OBVIOUS
<1>11. F \in Seq(Values) /\ Len(F) = n
  BY <1>6, <1>9, <1>10, RotationIs DEF Turned
<1>12. ~fault' /\ UNCHANGED <<alloc, next, prev, head, tail, count, oneway>>
  BY <1>1, <1>5 DEF Sort
<1>13. Rearranged(c, l, n, c[l])
  BY <1>3, <1>12, SameCells
<1>14. Along(l, c[l], n) /\ Pointers /\ \A p : In(c, l, p) <=> \E i \in Nat : c[l][i] = p
  BY <1>3, PlaceFacts DEF In
<1>15. ASSUME NEW i \in 1..n PROVE value'[c[l][i]] = F[i]
  <2>1. c[l][i] \in Cells(w) /\ c[l][i] \in Entries /\ w[i] = c[l][i]
    BY <1>5, <1>14 DEF Along, Pointers
  <2>2. ASSUME NEW m \in 1..n, w[m] = c[l][i] PROVE m = i
    <3>1. m \in Nat /\ i \in Nat /\ w[m] = c[l][m] /\ c[l][m] # NULL
      BY <1>5, <1>14 DEF Along
    <3>2. \A i1, i2 \in Nat : c[l][i1] = c[l][i2] /\ c[l][i1] # NULL => i1 = i2
      BY <1>14 DEF Along
    <3>3. QED
      BY <2>2, <3>1, <3>2
  <2>3. (CHOOSE m \in 1..n : w[m] = c[l][i]) = i
    BY <2>1, <2>2
  <2>4. QED
    BY <1>8, <1>10, <2>1, <2>3
<1>16. ASSUME NEW e \in alloc, ~In(c, l, e) PROVE value'[e] = value[e]
  <2>1. e \notin Cells(w) /\ e \in Entries
    BY <1>5, <1>14, <1>16 DEF Pointers
  <2>2. QED
    BY <1>8, <2>1
<1>17. value' \in [Entries -> Values \cup {NULL}]
  <2>1. ASSUME NEW e \in Cells(w) PROVE P[k][CHOOSE i \in 1..n : w[i] = e] \in Values
    <3>1. \E i \in 1..n : w[i] = e
      BY <1>5
    <3>2. (CHOOSE i \in 1..n : w[i] = e) \in 1..n
      BY <3>1
    <3>3. QED
      BY <1>10, <1>11, <3>2
  <2>2. QED
    BY <1>8, <2>1 DEF Filled
<1>18. Refilled(c, l, n, c[l], F)
  BY <1>11, <1>13, <1>15, <1>16, <1>17 DEF Refilled
<1>19. Becomes(l, F)
  BY <1>18, OneListBecomes
<1>20. Sorted(l, o, F)
  <2>1. CASE n >= 2 /\ Throws(k)
    <3>1. NoNumbers(F, o)
      BY <1>10, <1>11, <2>1 DEF NoNumbers
    <3>2. call' = <<"sort_fails", l, o>>
      BY <1>8, <2>1 DEF Returns, ReturnsOr
    <3>3. QED
      BY <3>1, <3>2 DEF Sorted
  <2>2. CASE ~(n >= 2 /\ Throws(k))
    <3>1. call' = <<"sort", l, o>>
      BY <1>8, <2>2 DEF Returns, ReturnsOr
    <3>2. n < 2 \/ ~OutOfOrder(F, o)
      <4>1. n < 2 \/ n >= 2
        BY <1>5
      <4>2. n < 2 \/ Throws(k) \/ ~OutOfOrder(P[k], o)
        BY <1>8
      <4> HIDE DEF Throws
      <4>3. QED
        BY <1>10, <2>2, <4>1, <4>2
    <3>3. n >= 2 => Rank(F[1], o) \in Nat /\ Rank(F[2], o) \in Nat
      <4>1. ASSUME n >= 2 PROVE 1 \in 1..n /\ 2 \in 1..n
        BY <1>5, <4>1
      <4>2. \A i \in 1..n : F[i] \in Values
        BY <1>11
      <4>3. QED
        BY <4>1, <4>2, ValuesAssumption DEF Rank
    <3>4. InOrder(F, o)
      BY <1>5, <1>11, <3>2, <3>3 DEF InOrder, OutOfOrder
    <3>5. QED
      BY <3>1, <3>4 DEF Sorted
  <2>3. QED
    BY <2>1, <2>2
<1>21. ret' = NULL
  BY <1>8 DEF Returns, ReturnsOr
<1>22. QED
  BY <1>2, <1>6, <1>9, <1>10, <1>19, <1>20, <1>21

-----------------------------------------------------------------------------
(* The lists as texts.                                                      *)

(* The characters of strings, the string without any, and the strings that  *)
(* are read when the list E was written, as lines or as words.              *)
Characters == (1..255) \ {LF, CR}
NoText == ValueOf(<<>>)
Lines(E) == IF E = <<>> THEN <<NoText>> ELSE E
Words(E) == IF E = <<NoText>> THEN <<>> ELSE [i \in 1..Len(E) |-> LastFull(E, NoText, i)]

(* The texts T of the strings E.                                            *)
Written(T, E) == T = [i \in 1..Len(E) |-> TextOf[E[i]]]

(* A text is that of one string.                                            *)
LEMMA ValueOfText ==
  /\ \A v \in Values : ValueOf(TextOf[v]) = v /\ TextOf[v] \in Seq(Characters)
  /\ NoText \in Values /\ TextOf[NoText] = <<>>
  /\ \A v \in Values : TextOf[v] = <<>> <=> v = NoText
<1>1. ASSUME NEW v \in Values PROVE ValueOf(TextOf[v]) = v /\ TextOf[v] \in Seq(Characters)
  <2>1. \A w \in Values : TextOf[w] = TextOf[v] => w = v
    BY TextAssumption
  <2>2. QED
    BY <2>1, TextAssumption DEF ValueOf, Characters
<1>2. NoText \in Values /\ TextOf[NoText] = <<>>
  BY TextAssumption DEF NoText, ValueOf
<1>3. QED
  BY <1>1, <1>2, TextAssumption

(* Strings have texts of characters.                                        *)
LEMMA WrittenIs ==
  ASSUME NEW E \in Seq(Values), NEW T, Written(T, E)
  PROVE  /\ T \in Seq(Seq(Characters)) /\ Len(T) = Len(E) /\ (T = <<>> <=> E = <<>>)
         /\ \A i \in 1..Len(E) : E[i] \in Values /\ T[i] = TextOf[E[i]]
<1>1. PICK n \in Nat : n = Len(E)
  OBVIOUS
<1>2. \A i \in 1..n : E[i] \in Values
  BY <1>1
<1>3. T = [i \in 1..n |-> TextOf[E[i]]]
  BY <1>1 DEF Written
<1>4. \A i \in 1..n : TextOf[E[i]] \in Seq(Characters)
  BY <1>2, ValueOfText
<1>5. T \in [1..n -> Seq(Characters)]
  BY <1>3, <1>4
<1>6. T \in Seq(Seq(Characters)) /\ Len(T) = n
  BY <1>1, <1>5
<1>7. T = <<>> <=> E = <<>>
  BY <1>1, <1>6
<1>8. QED
  BY <1>1, <1>2, <1>3, <1>6, <1>7

(* Lines are read as they were written.                                     *)
LEMMA LinesAre ==
  ASSUME NEW E \in Seq(Values), NEW T, Written(T, E)
  PROVE  /\ ValuesOf(str_split(str_join(T, LF), LF)) = Lines(E)
         /\ Lines(E) \in Seq(Values)
<1>1. LF \notin Characters /\ CR \notin Characters
  BY DEF Characters
<1>2. /\ T \in Seq(Seq(Characters)) /\ Len(T) = Len(E) /\ (T = <<>> <=> E = <<>>)
      /\ \A i \in 1..Len(E) : E[i] \in Values /\ T[i] = TextOf[E[i]]
  BY WrittenIs
<1>3. PICK R : R = str_split(str_join(T, LF), LF)
  OBVIOUS
<1>4. R = IF T = <<>> THEN << <<>> >> ELSE T
  BY <1>1, <1>2, <1>3, LinesRead
<1>5. CASE E = <<>>
  <2>1. R = << <<>> >> /\ Lines(E) = <<NoText>>
    BY <1>2, <1>4, <1>5 DEF Lines
  <2>2. ValuesOf(R) = <<NoText>>
    <3>1. Len(R) = 1 /\ R[1] = <<>>
      BY <2>1
    <3>2. ValuesOf(R) = [i \in 1..1 |-> ValueOf(R[i])]
      BY <3>1 DEF ValuesOf
    <3>3. \A i \in 1..1 : i = 1
      OBVIOUS
    <3>4. ValuesOf(R) = [i \in 1..1 |-> NoText]
      BY <3>1, <3>2, <3>3 DEF NoText
    <3>5. <<NoText>> = [i \in 1..1 |-> NoText]
      OBVIOUS
    <3>6. QED
      BY <3>4, <3>5
  <2>3. QED
    BY <1>3, <2>1, <2>2, ValueOfText
<1>6. CASE E # <<>>
  <2>1. R = T /\ Lines(E) = E
    BY <1>2, <1>4, <1>6 DEF Lines
  <2>2. \A i \in 1..Len(E) : ValueOf(T[i]) = E[i]
    BY <1>2, ValueOfText
  <2>3. ValuesOf(T) = [i \in 1..Len(E) |-> E[i]]
    BY <1>2, <2>2 DEF ValuesOf
  <2>4. E = [i \in 1..Len(E) |-> E[i]]
    OBVIOUS
  <2>5. QED
    BY <1>3, <2>1, <2>3, <2>4
<1>7. QED
  BY <1>5, <1>6

(* The last string that is not empty has the last text that is not.         *)
LEMMA LastFullIs ==
  ASSUME NEW E \in Seq(Values), NEW T, Written(T, E), NEW k \in 0..Len(E)
  PROVE  /\ LastFull(E, NoText, k) \in Values
         /\ ValueOf(LastFull(T, <<>>, k)) = LastFull(E, NoText, k)
<1>1. PICK n \in Nat : n = Len(E)
  OBVIOUS
<1>2. \A i \in 1..n : E[i] \in Values /\ T[i] = TextOf[E[i]]
  BY <1>1, WrittenIs
<1> DEFINE Alike(i) == /\ LastFull(E, NoText, i) \in Values
                      /\ ValueOf(LastFull(T, <<>>, i)) = LastFull(E, NoText, i)
           N == {i \in Nat : i <= n => Alike(i)}
<1>3. 0 \in N
  <2>1. LastFull(E, NoText, 0) = NoText /\ LastFull(T, <<>>, 0) = <<>>
    BY LastFullNext
  <2>2. Alike(0)
    BY <2>1, ValueOfText DEF NoText
  <2>3. QED
    BY <2>2
<1>4. ASSUME NEW i \in N PROVE i + 1 \in N
  <2>1. i \in Nat /\ i + 1 \in Nat
    OBVIOUS
  <2>2. ASSUME i + 1 <= n PROVE Alike(i + 1)
    <3>1. i <= n /\ i + 1 \in 1..n
      BY <1>1, <2>1, <2>2
    <3>2. PICK j : j = i + 1
      OBVIOUS
    <3>3. E[j] \in Values /\ T[j] = TextOf[E[j]]
      BY <1>2, <3>1, <3>2
    <3>4. /\ LastFull(E, NoText, j) = IF E[j] = NoText THEN LastFull(E, NoText, i) ELSE E[j]
          /\ LastFull(T, <<>>, j) = IF T[j] = <<>> THEN LastFull(T, <<>>, i) ELSE T[j]
      BY <2>1, <3>2, LastFullNext
    <3>5. Alike(i)
      BY <3>1
    <3>6. T[j] = <<>> <=> E[j] = NoText
      BY <3>3, ValueOfText
    <3>7. ValueOf(T[j]) = E[j]
      BY <3>3, ValueOfText
    <3>8. Alike(j)
      BY <3>3, <3>4, <3>5, <3>6, <3>7
    <3>9. QED
      BY <3>2, <3>8
  <2>3. QED
    BY <2>1, <2>2
<1>5. N \in SUBSET Nat
  OBVIOUS
<1>6. N = Nat
  <2> HIDE DEF N
  <2>1. QED
    BY <1>3, <1>4, <1>5, SetInduction
<1>7. k \in Nat /\ k <= n
  BY <1>1
<1>8. k \in N
  BY <1>6, <1>7
<1>9. QED
  BY <1>7, <1>8

(* Words are read as they were written, but for the empty ones.             *)
LEMMA WordsAre ==
  ASSUME NEW E \in Seq(Values), NEW T, Written(T, E)
  PROVE  /\ ValuesOf(list_deserialize(list_serialize(T))) = Words(E)
         /\ Words(E) \in Seq(Values)
<1>1. PICK n \in Nat : n = Len(E)
  OBVIOUS
<1>2. /\ T \in Seq(Seq(Characters)) /\ Len(T) = n
      /\ \A i \in 1..n : E[i] \in Values /\ T[i] = TextOf[E[i]]
  BY <1>1, WrittenIs
<1>3. PICK R : R = list_deserialize(list_serialize(T))
  OBVIOUS
<1>4. R = TextsRead(T)
  <2>1. ASSUME NEW x \in Seq(Characters) PROVE x \in Seq(ByteValues)
    <3>1. \A i \in 1..Len(x) : x[i] \in Characters
      OBVIOUS
    <3>2. \A b \in Characters : b \in ByteValues
      BY DEF ByteValues, Characters
    <3>3. \A i \in 1..Len(x) : x[i] \in ByteValues
      BY <3>1, <3>2
    <3>4. QED
      BY <3>3
  <2>2. \A i \in 1..n : T[i] \in Seq(ByteValues)
    BY <1>2, <2>1
  <2>3. T \in Seq(Seq(ByteValues))
    BY <1>2, <2>2
  <2>4. QED
    BY <1>3, <2>3, ListReread
<1>5. T = << <<>> >> <=> E = <<NoText>>
  <2>1. ASSUME n = 1 PROVE T[1] = <<>> <=> E[1] = NoText
    <3>1. 1 \in 1..n
      BY <2>1
    <3>2. QED
      BY <1>2, <3>1, ValueOfText
  <2>2. T = << <<>> >> <=> n = 1 /\ T[1] = <<>>
    <3>1. PICK e : e = <<>>
      OBVIOUS
    <3>2. T = <<e>> <=> n = 1 /\ T[1] = e
      BY <1>2
    <3>3. QED
      BY <3>1, <3>2
  <2>3. E = <<NoText>> <=> n = 1 /\ E[1] = NoText
    BY <1>1
  <2>4. QED
    BY <2>1, <2>2, <2>3
<1>6. CASE E = <<NoText>>
  <2>1. R = <<>> /\ Words(E) = <<>>
    BY <1>4, <1>5, <1>6 DEF TextsRead, Words
  <2>2. ValuesOf(R) = <<>>
    BY <2>1 DEF ValuesOf
  <2>3. QED
    BY <1>3, <2>1, <2>2
<1>7. CASE E # <<NoText>>
  <2>1. R = [i \in 1..n |-> LastFull(T, <<>>, i)]
    BY <1>2, <1>4, <1>5, <1>7 DEF TextsRead
  <2>2. Words(E) = [i \in 1..n |-> LastFull(E, NoText, i)]
    BY <1>1, <1>7 DEF Words
  <2>3. \A i \in 1..n : /\ LastFull(E, NoText, i) \in Values
                        /\ ValueOf(LastFull(T, <<>>, i)) = LastFull(E, NoText, i)
    BY <1>1, LastFullIs
  <2>4. Len(R) = n /\ \A i \in 1..n : R[i] = LastFull(T, <<>>, i)
    BY <2>1
  <2>5. ValuesOf(R) = [i \in 1..n |-> LastFull(E, NoText, i)]
    BY <2>3, <2>4 DEF ValuesOf
  <2>6. Words(E) \in Seq(Values)
    BY <2>2, <2>3
  <2>7. QED
    BY <1>3, <2>2, <2>5, <2>6
<1>8. QED
  BY <1>6, <1>7

(* list_copy, list_from_char, str_join with str_split, and list_serialize   *)
(* with list_deserialize                                                    *)
LEMMA CopyDone ==
  ASSUME NEW c, Shape(c), Filled, NEW x \in Lists, NEW s \in Lists, Copy(x, s)
  PROVE  Becomes(x, Elements(s)) /\ call' = <<"copy", x, s>> /\ ret' = NULL
<1>1. /\ Refill(x, Elements(s)) /\ fault' = ~(Sound(Chain(x)) /\ Sound(Chain(s)))
      /\ call' = <<"copy", x, s>> /\ ret' = NULL
  BY DEF Copy, Returns, ReturnsOr
<1>2. ~fault'
  BY <1>1, ChainIs
<1>3. Elements(s) \in Seq(Values)
  BY ElementsAre
<1>4. QED
  BY <1>1, <1>2, <1>3, RefillDone

LEMMA FromCharDone ==
  ASSUME NEW c, Shape(c), Filled, NEW l \in Lists, NEW v \in Values, NEW w \in Values,
         FromChar(l, v, w)
  PROVE  Becomes(l, <<v, w>>) /\ call' = <<"from", l, v, w>> /\ ret' = NULL
<1>1. Refill(l, <<v, w>>) /\ fault' = ~Sound(Chain(l)) /\ call' = <<"from", l, v, w>> /\ ret' = NULL
  BY DEF FromChar, Returns, ReturnsOr
<1>2. ~fault'
  BY <1>1, ChainIs
<1>3. PICK s : s = <<v, w>>
  OBVIOUS
<1>4. s \in Seq(Values) /\ Refill(l, s)
  BY <1>1, <1>3
<1>5. Becomes(l, s)
  BY <1>2, <1>4, RefillDone
<1>6. QED
  BY <1>1, <1>3, <1>5

LEMMA JoinSplitDone ==
  ASSUME NEW c, Shape(c), Filled, NEW x \in Lists, NEW s \in Lists, JoinSplit(x, s)
  PROVE  Becomes(x, Lines(Elements(s))) /\ call' = <<"join_split", x, s>> /\ ret' = NULL
<1>1. /\ Refill(x, ValuesOf(str_split(str_join(Texts(s), LF), LF)))
      /\ fault' = ~(Sound(Chain(x)) /\ Sound(Chain(s)))
      /\ call' = <<"join_split", x, s>> /\ ret' = NULL
  BY DEF JoinSplit, Returns, ReturnsOr
<1>2. ~fault'
  BY <1>1, ChainIs
<1>3. PICK E : E = Elements(s)
  OBVIOUS
<1>4. PICK T : T = Texts(s)
  OBVIOUS
<1>5. E \in Seq(Values) /\ Written(T, E)
  BY <1>3, <1>4, ElementsAre DEF Texts, Written
<1>6. Refill(x, Lines(E)) /\ Lines(E) \in Seq(Values)
  BY <1>1, <1>4, <1>5, LinesAre
<1>7. QED
  BY <1>1, <1>2, <1>3, <1>6, RefillDone

LEMMA TransferDone ==
  ASSUME NEW c, Shape(c), Filled, NEW x \in Lists, NEW s \in Lists, Transfer(x, s)
  PROVE  Becomes(x, Words(Elements(s))) /\ call' = <<"transfer", x, s>> /\ ret' = NULL
<1>1. /\ Refill(x, ValuesOf(list_deserialize(list_serialize(Texts(s)))))
      /\ fault' = ~(Sound(Chain(x)) /\ Sound(Chain(s)))
      /\ call' = <<"transfer", x, s>> /\ ret' = NULL
  BY DEF Transfer, Returns, ReturnsOr
<1>2. ~fault'
  BY <1>1, ChainIs
<1>3. PICK E : E = Elements(s)
  OBVIOUS
<1>4. PICK T : T = Texts(s)
  OBVIOUS
<1>5. E \in Seq(Values) /\ Written(T, E)
  BY <1>3, <1>4, ElementsAre DEF Texts, Written
<1>6. Refill(x, Words(E)) /\ Words(E) \in Seq(Values)
  BY <1>1, <1>4, <1>5, WordsAre
<1>7. QED
  BY <1>1, <1>2, <1>3, <1>6, RefillDone

-----------------------------------------------------------------------------
(* At first every list is empty.                                            *)
LEMMA InitArranged == Init => Arranged
<1> SUFFICES ASSUME Init PROVE Arranged
  OBVIOUS
<1> USE DEF Init
<1>1. PICK c : c = [l \in Lists |-> [i \in Nat |-> NULL]]
  OBVIOUS
<1>2. c \in [Lists -> [Nat -> Ptr]] /\ \A l \in Lists : \A i \in Nat : c[l][i] = NULL
  BY <1>1 DEF Ptr
<1>3. \A i \in Nat : i \notin 1..0
  OBVIOUS
<1>4. Placed(c, alloc, count)
  BY <1>2, <1>3, NullAssumption DEF Placed
<1>5. Threaded(c, next, head, tail, count)
  BY <1>2, <1>3 DEF Threaded, Ptr
<1>6. Backed(c, prev, count, oneway) /\ Blank(alloc, next, prev)
  BY <1>3 DEF Backed, Blank, Ptr
<1>7. QED
  BY <1>2, <1>4, <1>5, <1>6 DEF Arranged, Shape

-----------------------------------------------------------------------------
(* The inductive invariant: the cells are arranged, those in use hold       *)
(* strings, and the last call was one of these.                             *)
Calls ==
  {<<"new">>} \cup ({"pop", "shift", "truncate", "reverse"} \X Lists)
  \cup ({"push", "unshift"} \X Lists \X Values)
  \cup ({"get", "delete"} \X Lists \X (1..Steps))
  \cup ({"copy", "move", "merge", "join_split", "transfer"} \X Lists \X Lists)
  \cup ({"find"} \X Lists \X Values \X BOOLEAN)
  \cup ({"compare"} \X Lists \X Lists \X BOOLEAN)
  \cup ({"from"} \X Lists \X Values \X Values)
  \cup ({"sort", "sort_fails"} \X Lists \X Flags)
ListInv == Arranged /\ Filled /\ call \in Calls /\ ret \in Values \cup {NULL}

(* The calls that name one list, or one list and a string or place.         *)
LEMMA CallsOfOne ==
  ASSUME NEW l \in Lists
  PROVE  /\ {<<"pop", l>>, <<"shift", l>>, <<"truncate", l>>, <<"reverse", l>>} \subseteq Calls
         /\ \A v \in Values : {<<"push", l, v>>, <<"unshift", l, v>>} \subseteq Calls
         /\ \A i \in 1..Steps : {<<"get", l, i>>, <<"delete", l, i>>} \subseteq Calls
         /\ \A o \in Flags : {<<"sort", l, o>>, <<"sort_fails", l, o>>} \subseteq Calls
         /\ \A v, w \in Values : <<"from", l, v, w>> \in Calls
         /\ \A v \in Values, b \in BOOLEAN : <<"find", l, v, b>> \in Calls
<1>1. {<<"pop", l>>, <<"shift", l>>, <<"truncate", l>>, <<"reverse", l>>} \subseteq Calls
  BY DEF Calls
<1>2. \A v \in Values : {<<"push", l, v>>, <<"unshift", l, v>>} \subseteq Calls
  BY DEF Calls
<1>3. \A i \in 1..Steps : {<<"get", l, i>>, <<"delete", l, i>>} \subseteq Calls
  BY DEF Calls
<1>4. \A o \in Flags : {<<"sort", l, o>>, <<"sort_fails", l, o>>} \subseteq Calls
  BY DEF Calls
<1>5. \A v, w \in Values : <<"from", l, v, w>> \in Calls
  BY DEF Calls
<1>6. \A v \in Values, b \in BOOLEAN : <<"find", l, v, b>> \in Calls
  BY DEF Calls
<1>7. QED
  BY <1>1, <1>2, <1>3, <1>4, <1>5, <1>6

(* The calls that name two lists.                                           *)
LEMMA CallsOfTwo ==
  ASSUME NEW x \in Lists, NEW s \in Lists
  PROVE  /\ {<<"copy", x, s>>, <<"move", x, s>>, <<"merge", x, s>>} \subseteq Calls
         /\ {<<"join_split", x, s>>, <<"transfer", x, s>>} \subseteq Calls
         /\ \A b \in BOOLEAN : <<"compare", x, s, b>> \in Calls
<1>1. {<<"copy", x, s>>, <<"move", x, s>>, <<"merge", x, s>>} \subseteq Calls
  BY DEF Calls
<1>2. {<<"join_split", x, s>>, <<"transfer", x, s>>} \subseteq Calls
  BY DEF Calls
<1>3. \A b \in BOOLEAN : <<"compare", x, s, b>> \in Calls
  BY DEF Calls
<1>4. QED
  BY <1>1, <1>2, <1>3

(* The sequences that the lists hold.                                       *)
Held == [m \in Lists |-> Elements(m)]

(* A call that makes list l hold s changes one of the sequences.            *)
LEMMA OneHeld ==
  ASSUME NEW l \in Lists, NEW s, Becomes(l, s)
  PROVE  Held' = [Held EXCEPT ![l] = s]
<1>1. \A m \in Lists : Elements(m)' = IF m = l THEN s ELSE Elements(m)
  BY DEF Becomes
<1>2. Held' = [m \in Lists |-> Elements(m)']
  BY DEF Held
<1>3. QED
  BY <1>1, <1>2 DEF Held

(* Or, when it moves strings, two of them.                                  *)
LEMMA TwoHeld ==
  ASSUME NEW x \in Lists, NEW s \in Lists \ {x}, NEW q, BothBecome(x, s, q)
  PROVE  Held' = [Held EXCEPT ![x] = q, ![s] = <<>>]
<1>1. \A m \in Lists : Elements(m)' = IF m = x THEN q ELSE IF m = s THEN <<>> ELSE Elements(m)
  BY DEF BothBecome
<1>2. Held' = [m \in Lists |-> Elements(m)']
  BY DEF Held
<1>3. QED
  BY <1>1, <1>2 DEF Held

(* Such a call is one of the abstract lists, and keeps the invariant.       *)
LEMMA SetDone ==
  ASSUME NEW l \in Lists, NEW s, Becomes(l, s), NEW k \in Calls, call' = k, ret' = NULL
  PROVE  ListInv' /\ ADT!Set(l, k, s)
<1>1. ListInv'
  <2>1. Arranged' /\ Filled'
    BY DEF Becomes
  <2>2. call' \in Calls /\ ret' \in Values \cup {NULL}
    OBVIOUS
  <2>3. QED
    BY <2>1, <2>2 DEF ListInv
<1>2. Held' = [Held EXCEPT ![l] = s]
  BY OneHeld
<1>3. QED
  BY <1>1, <1>2 DEF ADT!Set, ADT!Returns, Held

(* The calls that name one list.                                            *)
LEMMA FillStep ==
  ASSUME NEW c, Shape(c), ListInv, NEW l \in Lists, NEW v \in Values, Push(l, v) \/ Unshift(l, v)
  PROVE  ListInv' /\ (ADT!Push(l, v) \/ ADT!Unshift(l, v))
<1>1. ~fault /\ Filled
  BY DEF ListInv, Arranged
<1>2. PICK E : E = Elements(l)
  OBVIOUS
<1>3. E = [m \in Lists |-> Elements(m)][l]
  BY <1>2
<1>4. CASE Push(l, v)
  <2>1. Becomes(l, Append(E, v))
    BY <1>1, <1>2, <1>4, PushDone
  <2>2. call' = <<"push", l, v>> /\ ret' = NULL /\ <<"push", l, v>> \in Calls
    BY <1>4, CallsOfOne DEF Push, Returns, ReturnsOr
  <2>3. ListInv' /\ ADT!Set(l, <<"push", l, v>>, Append(E, v))
    BY <2>1, <2>2, SetDone
  <2>4. QED
    BY <1>3, <2>3 DEF ADT!Push
<1>5. CASE Unshift(l, v)
  <2>1. Becomes(l, <<v>> \o E)
    BY <1>1, <1>2, <1>5, UnshiftDone
  <2>2. call' = <<"unshift", l, v>> /\ ret' = NULL /\ <<"unshift", l, v>> \in Calls
    BY <1>5, CallsOfOne DEF Unshift, Returns, ReturnsOr
  <2>3. ListInv' /\ ADT!Set(l, <<"unshift", l, v>>, <<v>> \o E)
    BY <2>1, <2>2, SetDone
  <2>4. QED
    BY <1>3, <2>3 DEF ADT!Unshift
<1>6. QED
  BY <1>4, <1>5

LEMMA ClearStep ==
  ASSUME NEW c, Shape(c), ListInv, NEW l \in Lists, Truncate(l) \/ ListReverse(l), ~derailed'
  PROVE  ListInv' /\ (ADT!Truncate(l) \/ ADT!ReverseAll(l))
<1>1. Filled
  BY DEF ListInv
<1>2. PICK E : E = Elements(l)
  OBVIOUS
<1>3. E = [m \in Lists |-> Elements(m)][l]
  BY <1>2
<1>4. CASE Truncate(l)
  <2>1. Becomes(l, <<>>)
    BY <1>1, <1>4, TruncateDone
  <2>2. call' = <<"truncate", l>> /\ ret' = NULL /\ <<"truncate", l>> \in Calls
    BY <1>4, CallsOfOne DEF Truncate, Returns, ReturnsOr
  <2>3. ListInv' /\ ADT!Set(l, <<"truncate", l>>, <<>>)
    BY <2>1, <2>2, SetDone
  <2>4. QED
    BY <2>3 DEF ADT!Truncate
<1>5. CASE ListReverse(l)
  <2>1. Becomes(l, Reverse(E))
    BY <1>1, <1>2, <1>5, ReverseDone
  <2>2. call' = <<"reverse", l>> /\ ret' = NULL /\ <<"reverse", l>> \in Calls
    BY <1>5, CallsOfOne DEF ListReverse, Returns, ReturnsOr
  <2>3. ListInv' /\ ADT!Set(l, <<"reverse", l>>, Reverse(E))
    BY <2>1, <2>2, SetDone
  <2>4. ADT!Reverse(E) = Reverse(E)
    BY DEF ADT!Reverse, Reverse
  <2>5. ADT!Set(l, <<"reverse", l>>, ADT!Reverse(E))
    BY <2>3, <2>4
  <2>6. QED
    BY <1>3, <2>3, <2>5 DEF ADT!ReverseAll
<1>6. QED
  BY <1>4, <1>5

LEMMA TakeStep ==
  ASSUME NEW c, Shape(c), ListInv, NEW l \in Lists, Pop(l) \/ Shift(l), ~derailed'
  PROVE  ListInv' /\ (ADT!Pop(l) \/ ADT!Shift(l))
<1>1. Filled
  BY DEF ListInv
<1>2. PICK E : E = Elements(l)
  OBVIOUS
<1>3. E = [m \in Lists |-> Elements(m)][l]
  BY <1>2
<1>4. CASE Pop(l)
  <2>1. /\ E # <<>> /\ Becomes(l, Front(E)) /\ call' = <<"pop", l>> /\ ret' = Last(E)
        /\ ret' \in Values
    BY <1>1, <1>2, <1>4, PopDone
  <2>2. ListInv'
    BY <2>1, CallsOfOne DEF ListInv, Becomes
  <2>3. Held' = [Held EXCEPT ![l] = Front(E)]
    BY <2>1, OneHeld
  <2>4. ADT!Front(E) = Front(E) /\ ADT!Last(E) = Last(E)
    BY DEF ADT!Front, ADT!Last, Front, Last
  <2>5. Held' = [Held EXCEPT ![l] = ADT!Front(Held[l])] /\ Held[l] = E
    BY <1>3, <2>3, <2>4 DEF Held
  <2>6. QED
    BY <2>1, <2>2, <2>4, <2>5 DEF ADT!Pop, ADT!Returns, Held
<1>5. CASE Shift(l)
  <2>1. /\ E # <<>> /\ Becomes(l, Tail(E)) /\ call' = <<"shift", l>> /\ ret' = Head(E)
        /\ ret' \in Values
    BY <1>1, <1>2, <1>5, ShiftDone
  <2>2. ListInv'
    BY <2>1, CallsOfOne DEF ListInv, Becomes
  <2>3. Held' = [Held EXCEPT ![l] = Tail(E)]
    BY <2>1, OneHeld
  <2>4. Held' = [Held EXCEPT ![l] = Tail(Held[l])] /\ Held[l] = E
    BY <1>3, <2>3 DEF Held
  <2>5. QED
    BY <2>1, <2>2, <2>4 DEF ADT!Shift, ADT!Returns, Held
<1>6. QED
  BY <1>4, <1>5

LEMMA PlaceStep ==
  ASSUME NEW c, Shape(c), ListInv, NEW l \in Lists, NEW i \in 1..Steps,
         Get(l, i) \/ Delete(l, i), ~derailed'
  PROVE  /\ ListInv'
         /\ \/ /\ i \in 1..Len([m \in Lists |-> Elements(m)][l])
               /\ ADT!Get(l, i) \/ ADT!Delete(l, i)
            \/ ADT!DeletePastEnd(l)
<1>1. Filled /\ i \in Nat /\ i > 0
  BY StepsType DEF ListInv
<1>2. PICK E : E = Elements(l)
  OBVIOUS
<1>3. E = [m \in Lists |-> Elements(m)][l]
  BY <1>2
<1>4. CASE Get(l, i)
  <2>1. /\ i \in 1..Len(E) /\ Becomes(l, E) /\ call' = <<"get", l, i>> /\ ret' = E[i]
        /\ ret' \in Values
    BY <1>1, <1>2, <1>4, GetDone
  <2>2. ListInv'
    BY <2>1, CallsOfOne DEF ListInv, Becomes
  <2>3. Held' = [Held EXCEPT ![l] = E]
    BY <2>1, OneHeld
  <2>4. Held' = Held
    BY <1>2, <2>3 DEF Held
  <2>5. QED
    BY <1>3, <2>1, <2>2, <2>4 DEF ADT!Get, ADT!Returns, Held
<1>5. CASE Delete(l, i)
  <2>1. \/ i \in 1..Len(E) /\ Becomes(l, RemoveAt(E, i))
        \/ i = Len(E) + 1 /\ Becomes(l, E)
    BY <1>1, <1>2, <1>5, DeleteDone
  <2>2. call' = <<"delete", l, i>> /\ ret' = NULL /\ <<"delete", l, i>> \in Calls
    BY <1>5, CallsOfOne DEF Delete, Returns, ReturnsOr
  <2>3. CASE i \in 1..Len(E) /\ Becomes(l, RemoveAt(E, i))
    <3>1. ListInv' /\ ADT!Set(l, <<"delete", l, i>>, RemoveAt(E, i))
      BY <2>2, <2>3, SetDone
    <3>2. ADT!RemoveAt(E, i) = RemoveAt(E, i)
      BY DEF ADT!RemoveAt, RemoveAt
    <3>3. ADT!Set(l, <<"delete", l, i>>, ADT!RemoveAt(E, i))
      BY <3>1, <3>2
    <3>4. QED
      BY <1>3, <2>3, <3>1, <3>3 DEF ADT!Delete
  <2>4. CASE i = Len(E) + 1 /\ Becomes(l, E)
    <3>1. ListInv' /\ ADT!Set(l, <<"delete", l, i>>, E)
      BY <2>2, <2>4, SetDone
    <3>2. QED
      BY <1>3, <2>4, <3>1 DEF ADT!DeletePastEnd
  <2>5. QED
    BY <2>1, <2>3, <2>4
<1>6. QED
  BY <1>4, <1>5

LEMMA FindStep ==
  ASSUME NEW c, Shape(c), ListInv, NEW l \in Lists, NEW v \in Values, Find(l, v)
  PROVE  ListInv' /\ ADT!Find(l, v)
<1>1. Filled
  BY DEF ListInv
<1>2. PICK E : E = Elements(l)
  OBVIOUS
<1>3. E = [m \in Lists |-> Elements(m)][l]
  BY <1>2
<1>4. PICK b \in BOOLEAN : b = (v \in ToSet(E))
  <2>1. CASE v \in ToSet(E)
    <3>1. TRUE = (v \in ToSet(E))
      BY ONLY <2>1
    <3>2. QED
      BY <3>1
  <2>2. CASE v \notin ToSet(E)
    <3>1. FALSE = (v \in ToSet(E))
      BY ONLY <2>2
    <3>2. QED
      BY <3>1
  <2>3. QED
    BY <2>1, <2>2
<1>5. Becomes(l, E) /\ call' = <<"find", l, v, b>> /\ ret' = NULL
  BY <1>1, <1>2, <1>4, FindDone
<1>6. <<"find", l, v, b>> \in Calls
  BY CallsOfOne
<1>7. ListInv'
  BY <1>5, <1>6 DEF ListInv, Becomes
<1>8. Held' = [Held EXCEPT ![l] = E]
  BY <1>5, OneHeld
<1>9. Held' = Held
  BY <1>2, <1>8 DEF Held
<1>10. ADT!ToSet(E) = ToSet(E)
  BY DEF ADT!ToSet, ToSet
<1>11. <<"find", l, v, b>> = <<"find", l, v, v \in ADT!ToSet(E)>>
  BY <1>4, <1>10
<1>12. QED
  BY <1>3, <1>5, <1>7, <1>9, <1>11 DEF ADT!Find, ADT!Returns, Held

(* A rotation has the same strings in another order.                        *)
LEMMA RotationArranges ==
  ASSUME NEW S, NEW E \in Seq(S), NEW j \in 0..Len(E), NEW R, R = Rotation(E, j)
  PROVE  R \in ADT!Arrangements(E)
<1>1. PICK n : n = Len(E) /\ n \in Nat
  OBVIOUS
<1>2. j \in Nat /\ j <= n /\ DOMAIN E = 1..n /\ n - j \in Nat
  BY <1>1
<1>3. R \in Seq(S) /\ Len(R) = n
      /\ \A i \in 1..n : R[i] = IF i <= n - j THEN E[j + i] ELSE E[i - (n - j)]
  <2>1. R \in Seq(S) /\ Turned(R, E, n, j)
    BY <1>1, RotationIs
  <2>2. QED
    BY <2>1 DEF Turned
<1>4. PICK p : p = [i \in 1..n |-> IF i <= n - j THEN j + i ELSE i - (n - j)]
  OBVIOUS
<1>5. p \in [1..n -> 1..n]
  <2>1. ASSUME NEW i \in 1..n PROVE (IF i <= n - j THEN j + i ELSE i - (n - j)) \in 1..n
    BY <1>1, <1>2
  <2>2. QED
    BY <1>4, <2>1
<1>6. ASSUME NEW w \in 1..n PROVE \E v \in 1..n : p[v] = w
  <2>1. CASE w > j
    <3>1. w - j \in 1..n /\ w - j <= n - j /\ j + (w - j) = w
      BY <1>1, <1>2, <2>1
    <3>2. p[w - j] = w
      BY <1>4, <3>1
    <3>3. QED
      BY <3>1, <3>2
  <2>2. CASE w <= j
    <3>1. w + (n - j) \in 1..n /\ ~(w + (n - j) <= n - j) /\ (w + (n - j)) - (n - j) = w
      BY <1>1, <1>2, <2>2
    <3>2. p[w + (n - j)] = w
      BY <1>4, <3>1
    <3>3. QED
      BY <3>1, <3>2
  <2>3. QED
    BY <1>1, <1>2, <2>1, <2>2
<1>7. p \in ADT!Surjection(DOMAIN E, DOMAIN E)
  BY <1>2, <1>5, <1>6 DEF ADT!Surjection
<1>8. \A i \in 1..n : R[i] = E[p[i]]
  BY <1>3, <1>4
<1>9. R = [i \in DOMAIN E |-> E[p[i]]]
  BY <1>2, <1>3, <1>8
<1>10. QED
  BY <1>7, <1>9 DEF ADT!Arrangements

(* Two strings are sorted when they are in order, and more are rotated.     *)
LEMMA SortStep ==
  ASSUME NEW c, Shape(c), ListInv, NEW l \in Lists, NEW o \in Flags, Sort(l, o)
  PROVE  ListInv' /\ (ADT!Sort(l, o) \/ ADT!SortRotates(l, o))
<1>1. Filled
  BY DEF ListInv
<1>2. PICK E : E = Elements(l)
  OBVIOUS
<1>3. E = [m \in Lists |-> Elements(m)][l] /\ E \in Seq(Values) /\ Len(E) \in Nat
  BY <1>1, <1>2, ElementsAre
<1>4. PICK j \in 0..Len(E) :
        ret' = NULL /\ \E F : F = Rotation(E, j) /\ Becomes(l, F) /\ Sorted(l, o, F)
  BY <1>1, <1>2, SortDone
<1>5. PICK F : ret' = NULL /\ F = Rotation(E, j) /\ Becomes(l, F) /\ Sorted(l, o, F)
  BY <1>4
<1>6. F \in ADT!Rotations(E) /\ F \in ADT!Arrangements(E)
  BY <1>3, <1>5, RotationArranges DEF ADT!Rotations, Rotation
<1>7. F \in Seq(Values) /\ Len(F) = Len(E)
  BY <1>3, <1>5, RotationIs DEF Turned
<1>8. CASE InOrder(F, o) /\ call' = <<"sort", l, o>>
  <2>1. ListInv' /\ ADT!Set(l, <<"sort", l, o>>, F)
    BY <1>5, <1>8, CallsOfOne, SetDone
  <2>2. Len(F) >= 2 => ADT!MayPrecede(F[1], F[2], o)
    BY <1>7, <1>8 DEF InOrder, ADT!MayPrecede, ADT!Rank, Rank
  <2>3. CASE Len(E) > 2
    <3>1. ADT!MayPrecede(F[1], F[2], o)
      BY <1>3, <1>7, <2>2, <2>3
    <3>2. QED
      BY <1>3, <1>6, <2>1, <2>3, <3>1 DEF ADT!SortRotates
  <2>4. CASE Len(E) <= 2
    <3>1. ASSUME NEW i \in 1..Len(F), NEW k \in 1..Len(F), i < k PROVE ADT!MayPrecede(F[i], F[k], o)
      <4>1. i = 1 /\ k = 2 /\ Len(F) >= 2
        BY <1>3, <1>7, <2>4, <3>1
      <4>2. QED
        BY <2>2, <4>1
    <3>2. ADT!Ordered(F, o)
      BY <3>1 DEF ADT!Ordered
    <3>3. QED
      BY <1>3, <1>6, <2>1, <3>2 DEF ADT!Sort
  <2>5. QED
    BY <1>3, <2>3, <2>4
<1>9. CASE NoNumbers(F, o) /\ call' = <<"sort_fails", l, o>>
  <2>1. ListInv' /\ ADT!Set(l, <<"sort_fails", l, o>>, F)
    BY <1>5, <1>9, CallsOfOne, SetDone
  <2>2. F[1] \in ADT!ToSet(F) /\ F[2] \in ADT!ToSet(F)
    BY <1>7, <1>9 DEF ADT!ToSet, NoNumbers
  <2>3. o[2] = "numeric" /\ ADT!ToSet(F) \cap NotNumeric # {}
    BY <1>9, <2>2 DEF NoNumbers
  <2>4. QED
    BY <1>3, <1>6, <2>1, <2>3 DEF ADT!Sort
<1>10. QED
  BY <1>5, <1>8, <1>9 DEF Sorted

LEMMA FromStep ==
  ASSUME NEW c, Shape(c), ListInv, NEW l \in Lists, NEW v \in Values, NEW w \in Values,
         FromChar(l, v, w)
  PROVE  ListInv' /\ ADT!FromChar(l, v, w)
<1>1. Filled
  BY DEF ListInv
<1>2. Becomes(l, <<v, w>>) /\ call' = <<"from", l, v, w>> /\ ret' = NULL
  BY <1>1, FromCharDone
<1>3. <<"from", l, v, w>> \in Calls
  BY CallsOfOne
<1>4. ListInv' /\ ADT!Set(l, <<"from", l, v, w>>, <<v, w>>)
  BY <1>2, <1>3, SetDone
<1>5. QED
  BY <1>4 DEF ADT!FromChar

(* Words of which none is empty are read as they are.                       *)
LEMMA FullWords ==
  ASSUME NEW E \in Seq(Values), \A i \in 1..Len(E) : E[i] # NoText
  PROVE  Words(E) = E
<1>1. PICK n \in Nat : n = Len(E)
  OBVIOUS
<1>2. E # <<NoText>>
  <2>1. ASSUME E = <<NoText>> PROVE FALSE
    <3>1. Len(E) = 1 /\ E[1] = NoText
      BY <2>1
    <3>2. QED
      BY <3>1
  <2>2. QED
    BY <2>1
<1>3. ASSUME NEW i \in 1..n PROVE LastFull(E, NoText, i) = E[i]
  <2>1. i - 1 \in Nat /\ (i - 1) + 1 = i
    BY <1>1
  <2>2. LastFull(E, NoText, (i - 1) + 1)
        = IF E[(i - 1) + 1] = NoText THEN LastFull(E, NoText, i - 1) ELSE E[(i - 1) + 1]
    BY <2>1, LastFullNext
  <2>3. QED
    BY <1>1, <2>1, <2>2
<1>4. Words(E) = [i \in 1..n |-> LastFull(E, NoText, i)]
  BY <1>1, <1>2 DEF Words
<1>5. QED
  BY <1>1, <1>3, <1>4

(* The calls that name two lists.                                           *)
LEMMA ReadStep ==
  ASSUME NEW c, Shape(c), ListInv, NEW x \in Lists, NEW s \in Lists \ {x},
         Copy(x, s) \/ JoinSplit(x, s) \/ Transfer(x, s)
  PROVE  /\ ListInv'
         /\ \/ ADT!Copy(x, s) \/ ADT!JoinSplit(x, s) \/ ADT!Transfer(x, s)
            \/ ADT!NoLines(x, s) \/ ADT!EmptyWords(x, s)
<1>1. Filled
  BY DEF ListInv
<1>2. PICK E : E = Elements(s)
  OBVIOUS
<1>3. E = [m \in Lists |-> Elements(m)][s]
  BY <1>2
<1>4. {<<"copy", x, s>>, <<"join_split", x, s>>, <<"transfer", x, s>>} \subseteq Calls
  BY CallsOfTwo
<1>5. CASE Copy(x, s)
  <2>1. Becomes(x, E) /\ call' = <<"copy", x, s>> /\ ret' = NULL
    BY <1>1, <1>2, <1>5, CopyDone
  <2>2. ListInv' /\ ADT!Set(x, <<"copy", x, s>>, E)
    BY <1>4, <2>1, SetDone
  <2>3. QED
    BY <1>3, <2>2 DEF ADT!Copy
<1>6. CASE JoinSplit(x, s)
  <2>1. Becomes(x, Lines(E)) /\ call' = <<"join_split", x, s>> /\ ret' = NULL
    BY <1>1, <1>2, <1>6, JoinSplitDone
  <2>2. ListInv' /\ ADT!Set(x, <<"join_split", x, s>>, Lines(E))
    BY <1>4, <2>1, SetDone
  <2>3. CASE E = <<>>
    <3>1. Lines(E) = <<ValueOf(<<>>)>>
      BY <2>3 DEF Lines, NoText
    <3>2. ADT!Set(x, <<"join_split", x, s>>, <<ValueOf(<<>>)>>)
      BY <2>2, <3>1
    <3>3. QED
      BY <1>3, <2>2, <2>3, <3>2 DEF ADT!NoLines
  <2>4. CASE E # <<>>
    <3>1. Lines(E) = E
      BY <2>4 DEF Lines
    <3>2. ADT!Set(x, <<"join_split", x, s>>, E)
      BY <2>2, <3>1
    <3>3. QED
      BY <1>3, <2>2, <3>2 DEF ADT!JoinSplit
  <2>5. QED
    BY <2>3, <2>4
<1>7. CASE Transfer(x, s)
  <2>1. Becomes(x, Words(E)) /\ call' = <<"transfer", x, s>> /\ ret' = NULL
    BY <1>1, <1>2, <1>7, TransferDone
  <2>2. ListInv' /\ ADT!Set(x, <<"transfer", x, s>>, Words(E))
    BY <1>4, <2>1, SetDone
  <2>3. ADT!AsWords(E) = Words(E)
    BY DEF ADT!AsWords, Words, NoText, LastFull, ADT!Max, Max
  <2>4. ADT!Set(x, <<"transfer", x, s>>, ADT!AsWords(E))
    BY <2>2, <2>3
  <2>5. CASE ValueOf(<<>>) \in ADT!ToSet(E)
    BY <1>3, <2>2, <2>4, <2>5 DEF ADT!EmptyWords
  <2>6. CASE ValueOf(<<>>) \notin ADT!ToSet(E)
    <3>1. E \in Seq(Values)
      BY <1>1, <1>2, ElementsAre
    <3>2. \A i \in 1..Len(E) : E[i] # NoText
      BY <2>6, <3>1 DEF ADT!ToSet, NoText
    <3>3. Words(E) = E
      BY <3>1, <3>2, FullWords
    <3>4. ADT!Set(x, <<"transfer", x, s>>, E)
      BY <2>2, <3>3
    <3>5. QED
      BY <1>3, <2>2, <3>4 DEF ADT!Transfer
  <2>7. QED
    BY <2>5, <2>6
<1>8. QED
  BY <1>5, <1>6, <1>7

LEMMA GiveStep ==
  ASSUME NEW c, Shape(c), ListInv, NEW x \in Lists, NEW s \in Lists \ {x}, Move(x, s) \/ Merge(x, s),
         ~derailed'
  PROVE  ListInv' /\ (ADT!Move(x, s) \/ ADT!Merge(x, s))
<1>1. Filled
  BY DEF ListInv
<1>2. PICK E : E = Elements(s)
  OBVIOUS
<1>3. PICK D : D = Elements(x)
  OBVIOUS
<1>4. E = [m \in Lists |-> Elements(m)][s] /\ D = [m \in Lists |-> Elements(m)][x]
  BY <1>2, <1>3
<1>5. CASE Move(x, s)
  <2>1. BothBecome(x, s, E)
    BY <1>1, <1>2, <1>5, MoveDone
  <2>2. call' = <<"move", x, s>> /\ ret' = NULL /\ <<"move", x, s>> \in Calls
    BY <1>5, CallsOfTwo DEF Move, Returns, ReturnsOr
  <2>3. ListInv'
    BY <2>1, <2>2 DEF ListInv, BothBecome
  <2>4. Held' = [Held EXCEPT ![x] = E, ![s] = <<>>]
    BY <2>1, TwoHeld
  <2>5. QED
    BY <1>4, <2>2, <2>3, <2>4 DEF ADT!Move, ADT!Returns, Held
<1>6. CASE Merge(x, s)
  <2>1. BothBecome(x, s, D \o E)
    BY <1>1, <1>2, <1>3, <1>6, MergeDone
  <2>2. call' = <<"merge", x, s>> /\ ret' = NULL /\ <<"merge", x, s>> \in Calls
    BY <1>6, CallsOfTwo DEF Merge, Returns, ReturnsOr
  <2>3. ListInv'
    BY <2>1, <2>2 DEF ListInv, BothBecome
  <2>4. Held' = [Held EXCEPT ![x] = D \o E, ![s] = <<>>]
    BY <2>1, TwoHeld
  <2>5. Held' = [Held EXCEPT ![x] = Held[x] \o E, ![s] = <<>>]
    BY <1>3, <2>4 DEF Held
  <2>6. QED
    BY <1>4, <2>2, <2>3, <2>5 DEF ADT!Merge, ADT!Returns, Held
<1>7. QED
  BY <1>5, <1>6

LEMMA CompareStep ==
  ASSUME NEW c, Shape(c), ListInv, NEW x \in Lists, NEW s \in Lists \ {x}, Compare(x, s)
  PROVE  ListInv' /\ (ADT!Compare(x, s) \/ ADT!EmptyUnequal(x, s))
<1>1. Filled
  BY DEF ListInv
<1>2. PICK E : E = Elements(s)
  OBVIOUS
<1>3. PICK D : D = Elements(x)
  OBVIOUS
<1>4. E = [m \in Lists |-> Elements(m)][s] /\ D = [m \in Lists |-> Elements(m)][x]
  BY <1>2, <1>3
<1>5. PICK b \in BOOLEAN : b = (E # <<>> /\ E = D)
  OBVIOUS
<1>6. Becomes(x, D) /\ call' = <<"compare", x, s, b>> /\ ret' = NULL
  BY <1>1, <1>2, <1>3, <1>5, CompareDone
<1>7. <<"compare", x, s, b>> \in Calls
  BY CallsOfTwo
<1>8. ListInv'
  BY <1>6, <1>7 DEF ListInv, Becomes
<1>9. Held' = [Held EXCEPT ![x] = D]
  BY <1>6, OneHeld
<1>10. Held' = Held
  BY <1>3, <1>9 DEF Held
<1>11. CASE E = <<>> /\ D = <<>>
  <2>1. b = FALSE
    BY <1>5, <1>11
  <2>2. QED
    BY <1>4, <1>6, <1>8, <1>10, <1>11, <2>1 DEF ADT!EmptyUnequal, ADT!Returns, Held
<1>12. CASE ~(E = <<>> /\ D = <<>>)
  <2>1. b = (E = D)
    BY <1>5, <1>12
  <2>2. QED
    BY <1>4, <1>6, <1>8, <1>10, <2>1 DEF ADT!Compare, ADT!Returns, Held
<1>13. QED
  BY <1>11, <1>12

(* A call that does not derail keeps the invariant and is a call of the     *)
(* abstract lists or one of the departures from them.                       *)
Allowed == ADT!Next \/ ADT!Departure

LEMMA StepKept ==
  ASSUME ListInv, Next, ~derailed'
  PROVE  ListInv' /\ Allowed
<1>1. PICK c : Shape(c)
  BY DEF ListInv, Arranged
<1>2. ASSUME NEW l \in Lists, NEW v \in Values, Push(l, v) \/ Unshift(l, v)
      PROVE  ListInv' /\ Allowed
  BY <1>1, <1>2, FillStep DEF Allowed, ADT!Next
<1>3. ASSUME NEW l \in Lists, Pop(l) \/ Shift(l) PROVE ListInv' /\ Allowed
  BY <1>1, <1>3, TakeStep DEF Allowed, ADT!Next
<1>4. ASSUME NEW l \in Lists, Truncate(l) \/ ListReverse(l) PROVE ListInv' /\ Allowed
  BY <1>1, <1>4, ClearStep DEF Allowed, ADT!Next
<1>5. ASSUME NEW l \in Lists, NEW i \in 1..Steps, Get(l, i) \/ Delete(l, i)
      PROVE  ListInv' /\ Allowed
  BY <1>1, <1>5, PlaceStep DEF Allowed, ADT!Next, ADT!Departure
<1>6. ASSUME NEW l \in Lists, NEW v \in Values, NEW w \in Values, FromChar(l, v, w)
      PROVE  ListInv' /\ Allowed
  BY <1>1, <1>6, FromStep DEF Allowed, ADT!Next
<1>7. ASSUME NEW l \in Lists, NEW o \in Flags, Sort(l, o)
      PROVE  ListInv' /\ Allowed
  BY <1>1, <1>7, SortStep DEF Allowed, ADT!Next, ADT!Departure, Flags
<1>8. ASSUME NEW l \in Lists, NEW v \in Values, Find(l, v) PROVE ListInv' /\ Allowed
  BY <1>1, <1>8, FindStep DEF Allowed, ADT!Next
<1>9. ASSUME NEW l \in Lists, NEW s \in Lists \ {l}, Copy(l, s) \/ JoinSplit(l, s) \/ Transfer(l, s)
      PROVE  ListInv' /\ Allowed
  BY <1>1, <1>9, ReadStep DEF Allowed, ADT!Next, ADT!Departure
<1>10. ASSUME NEW l \in Lists, NEW s \in Lists \ {l}, Move(l, s) \/ Merge(l, s)
       PROVE  ListInv' /\ Allowed
  BY <1>1, <1>10, GiveStep DEF Allowed, ADT!Next
<1>11. ASSUME NEW l \in Lists, NEW s \in Lists \ {l}, Compare(l, s) PROVE ListInv' /\ Allowed
  BY <1>1, <1>11, CompareStep DEF Allowed, ADT!Next, ADT!Departure
<1>12. QED
  BY <1>2, <1>3, <1>4, <1>5, <1>6, <1>7, <1>8, <1>9, <1>10, <1>11 DEF Next

(* What leaves the lists alone keeps it, and the sequences they hold.       *)
LEMMA StillKept ==
  ASSUME ListInv, UNCHANGED vars
  PROVE  ListInv' /\ UNCHANGED <<Held, call, ret>>
<1>1. /\ UNCHANGED <<alloc, next, prev, value, head, tail, count, oneway>>
      /\ fault' = fault /\ call' = call /\ ret' = ret
  BY DEF vars
<1>2. ListInv'
  BY <1>1 DEF ListInv, Arranged, Shape, Filled
<1>3. ASSUME NEW m \in Lists PROVE Elements(m)' = Elements(m)
  BY <1>1 DEF Elements, Chain, Walk
<1>4. Held' = [m \in Lists |-> Elements(m)']
  BY DEF Held
<1>5. Held' = Held
  BY <1>3, <1>4 DEF Held
<1>6. QED
  BY <1>1, <1>2, <1>5

(* The invariant holds at first, and the abstract lists are empty.          *)
LEMMA InitDone ==
  ASSUME Init
  PROVE  ListInv /\ ADT!Init
<1>1. Arranged
  BY InitArranged
<1>2. Filled /\ call \in Calls /\ ret \in Values \cup {NULL}
  BY DEF Init, Filled, Calls
<1>3. PICK c : Shape(c)
  BY <1>1 DEF Arranged
<1>4. ASSUME NEW l \in Lists PROVE Elements(l) = <<>>
  <2>1. count[l] = 0
    BY DEF Init
  <2>2. Elements(l) \in Seq(Values) /\ Len(Elements(l)) = 0
    BY <1>2, <1>3, <2>1, ElementsAre
  <2>3. QED
    BY <2>2
<1>5. ADT!Init
  BY <1>4 DEF Init, ADT!Init
<1>6. QED
  BY <1>1, <1>2, <1>5 DEF ListInv

(* fault and derailed are truth values.                                     *)
FaultType == fault \in BOOLEAN /\ derailed \in BOOLEAN

LEMMA FaultKept ==
  ASSUME FaultType, [Next]_vars
  PROVE  FaultType'
<1> USE DEF FaultType, Returns, ReturnsOr
<1>1. CASE UNCHANGED vars
  BY <1>1 DEF vars
<1>2. ASSUME NEW l \in Lists, NEW v \in Values, Push(l, v) \/ Unshift(l, v) \/ Find(l, v)
      PROVE  FaultType'
  BY <1>2 DEF Push, Unshift, Find
<1>3. ASSUME NEW l \in Lists, NEW e, EntryDelete(l, e) PROVE fault' \in BOOLEAN
  BY <1>3 DEF EntryDelete
<1>4. ASSUME NEW l \in Lists, Pop(l) \/ Shift(l) PROVE FaultType'
  BY <1>3, <1>4 DEF Pop, Shift
<1>5. ASSUME NEW l \in Lists, Truncate(l) \/ ListReverse(l) PROVE FaultType'
  BY <1>5 DEF Truncate, ListReverse
<1>6. ASSUME NEW l \in Lists, NEW i, Get(l, i) \/ Delete(l, i) PROVE FaultType'
  BY <1>3, <1>6 DEF Get, Delete
<1>7. ASSUME NEW l \in Lists, NEW v, NEW w, FromChar(l, v, w) PROVE FaultType'
  BY <1>7 DEF FromChar
<1>8. ASSUME NEW l \in Lists, NEW o, Sort(l, o) PROVE FaultType'
  BY <1>8 DEF Sort
<1>9. ASSUME NEW l \in Lists, NEW s, Copy(l, s) \/ JoinSplit(l, s) \/ Transfer(l, s)
      PROVE  FaultType'
  BY <1>9 DEF Copy, JoinSplit, Transfer
<1>10. ASSUME NEW l \in Lists, NEW s, Move(l, s) \/ Merge(l, s) \/ Compare(l, s)
       PROVE  FaultType'
  BY <1>10 DEF Move, Merge, Compare
<1>11. QED
  BY <1>1, <1>2, <1>4, <1>5, <1>6, <1>7, <1>8, <1>9, <1>10 DEF Next

(* The invariant gives the types.                                           *)
LEMMA ListInvTypes == ListInv /\ FaultType => TypeOK
<1> SUFFICES ASSUME ListInv, FaultType PROVE TypeOK
  OBVIOUS
<1>1. PICK c : Shape(c)
  BY DEF ListInv, Arranged
<1>2. /\ alloc \in SUBSET Entries /\ count \in [Lists -> Nat]
      /\ next \in [Entries -> Ptr] /\ prev \in [Entries -> Ptr]
      /\ head \in [Lists -> Ptr] /\ tail \in [Lists -> Ptr] /\ oneway \in SUBSET Lists
  BY <1>1 DEF Shape, Placed, Threaded, Backed, Blank
<1>3. value \in [Entries -> Values \cup {NULL}] /\ call \in Calls /\ ret \in Values \cup {NULL}
  BY DEF ListInv, Filled
<1>4. QED
  BY <1>2, <1>3 DEF TypeOK, Calls, FaultType

-----------------------------------------------------------------------------
(* A call that derails.                                                     *)

(* The types of the pointers, the strings and the counts.                   *)
HeapType ==
  /\ alloc \in SUBSET Entries /\ count \in [Lists -> Nat] /\ oneway \in SUBSET Lists
  /\ next \in [Entries -> Ptr] /\ prev \in [Entries -> Ptr]
  /\ head \in [Lists -> Ptr] /\ tail \in [Lists -> Ptr]
  /\ value \in [Entries -> Values \cup {NULL}]

(* list_entry_delete keeps them, whatever the prev pointers are.            *)
LEMMA EntryDeleteTypes ==
  ASSUME HeapType, NEW l \in Lists, NEW e \in Entries, count[l] > 0, EntryDelete(l, e)
  PROVE  HeapType'
<1> USE DEF HeapType
<1>1. alloc' \in SUBSET Entries /\ oneway' \in SUBSET Lists /\ count' \in [Lists -> Nat]
  BY DEF EntryDelete, CountDown
<1>2. next' \in [Entries -> Ptr] /\ prev' \in [Entries -> Ptr]
  BY DEF EntryDelete, PrevWithout, Cleared, Ptr
<1>3. head' \in [Lists -> Ptr] /\ tail' \in [Lists -> Ptr]
  BY DEF EntryDelete
<1>4. value' \in [Entries -> Values \cup {NULL}]
  BY DEF EntryDelete, Cleared
<1>5. QED
  BY <1>1, <1>2, <1>3, <1>4

(* So does every call that can derail, and it is one of the calls.          *)
LEMMA DerailedTypes ==
  ASSUME ListInv, FaultType, Next, derailed', FaultType'
  PROVE  TypeOK'
<1>1. PICK c : Shape(c)
  BY DEF ListInv, Arranged
<1>2. TypeOK
  BY ListInvTypes
<1>3. HeapType
  BY <1>2 DEF TypeOK, HeapType
<1>4. ASSUME HeapType', call' \in Calls, ret' \in Values \cup {NULL} PROVE TypeOK'
  BY <1>4 DEF HeapType, Calls, TypeOK, FaultType
<1>5. ASSUME NEW l \in Lists, Pop(l) PROVE TypeOK'
  <2>1. tail[l] \in Entries /\ count[l] > 0
    <3>1. Along(l, c[l], count[l])
      BY <1>1, PlaceFacts
    <3>2. QED
      BY <1>5, <3>1 DEF Pop, Along
  <2>2. HeapType'
    BY <1>3, <1>5, <2>1, EntryDeleteTypes DEF Pop
  <2>3. call' = <<"pop", l>> /\ ret' = value[tail[l]]
    BY <1>5 DEF Pop, ReturnsOr
  <2>4. QED
    BY <1>3, <1>4, <2>1, <2>2, <2>3, CallsOfOne DEF HeapType
<1>6. ASSUME NEW l \in Lists, NEW i \in 1..Steps, Delete(l, i) PROVE TypeOK'
  <2>1. PICK e : e = EntryGet(l, i)
    OBVIOUS
  <2>2. e # NULL /\ EntryDelete(l, e) /\ call' = <<"delete", l, i>> /\ ret' = NULL
    BY <1>6, <2>1 DEF Delete, Returns, ReturnsOr
  <2>3. i \in Nat /\ i > 0
    BY StepsType
  <2>4. Along(l, c[l], count[l])
    BY <1>1, PlaceFacts
  <2>5. i <= count[l] /\ e = c[l][i]
    BY <1>1, <2>1, <2>2, <2>3, <2>4, EntryGetIs DEF Along
  <2>6. e \in Entries /\ count[l] > 0
    BY <2>2, <2>3, <2>4, <2>5 DEF Along
  <2>7. HeapType'
    BY <1>3, <2>2, <2>6, EntryDeleteTypes
  <2>8. QED
    BY <1>4, <2>2, <2>7, CallsOfOne
<1>7. ASSUME NEW l \in Lists, ListReverse(l) PROVE TypeOK'
  <2>1. call' = <<"reverse", l>> /\ ret' = NULL
    BY <1>7 DEF ListReverse, ReturnsOr
  <2>2. HeapType'
    BY <1>3, <1>7 DEF ListReverse, HeapType
  <2>3. QED
    BY <1>4, <2>1, <2>2, CallsOfOne
<1>8. ASSUME NEW l \in Lists, NEW s \in Lists \ {l}, Merge(l, s) PROVE TypeOK'
  <2>1. call' = <<"merge", l, s>> /\ ret' = NULL
    BY <1>8 DEF Merge, ReturnsOr
  <2>2. HeapType'
    BY <1>3, <1>8 DEF Merge, HeapType, Ptr
  <2>3. QED
    BY <1>4, <2>1, <2>2, CallsOfTwo
<1>9. QED
  <2> USE DEF Returns, ReturnsOr
  <2>1. ASSUME NEW l \in Lists, NEW v \in Values, Push(l, v) \/ Unshift(l, v) \/ Find(l, v) PROVE FALSE
    BY <2>1 DEF Push, Unshift, Find
  <2>2. ASSUME NEW l \in Lists, Shift(l) \/ Truncate(l) PROVE FALSE
    BY <2>2 DEF Shift, Truncate
  <2>3. ASSUME NEW l \in Lists, NEW i, Get(l, i) PROVE FALSE
    BY <2>3 DEF Get
  <2>4. ASSUME NEW l \in Lists, NEW v, NEW w, FromChar(l, v, w) PROVE FALSE
    BY <2>4 DEF FromChar
  <2>5. ASSUME NEW l \in Lists, NEW o, Sort(l, o) PROVE FALSE
    BY <2>5 DEF Sort
  <2>6. ASSUME NEW l \in Lists, NEW s, Copy(l, s) \/ JoinSplit(l, s) \/ Transfer(l, s) PROVE FALSE
    BY <2>6 DEF Copy, JoinSplit, Transfer
  <2>7. ASSUME NEW l \in Lists, NEW s, Move(l, s) \/ Compare(l, s) PROVE FALSE
    BY <2>7 DEF Move, Compare
  <2>8. QED
    BY <1>5, <1>6, <1>7, <1>8, <2>1, <2>2, <2>3, <2>4, <2>5, <2>6, <2>7 DEF Next

-----------------------------------------------------------------------------
(* No call is made after one that derailed. *)
LEMMA NextUsable ==
  ASSUME Next
  PROVE  ~derailed
<1>1. ASSUME NEW l \in Lists, NEW v, Push(l, v) \/ Unshift(l, v) \/ Find(l, v) PROVE ~derailed
  BY <1>1 DEF Push, Unshift, Find, Usable
<1>2. ASSUME NEW l \in Lists, Pop(l) \/ Shift(l) \/ Truncate(l) \/ ListReverse(l) PROVE ~derailed
  BY <1>2 DEF Pop, Shift, Truncate, ListReverse, Usable
<1>3. ASSUME NEW l \in Lists, NEW i, Get(l, i) \/ Delete(l, i) PROVE ~derailed
  BY <1>3 DEF Get, Delete, Usable
<1>4. ASSUME NEW l \in Lists, NEW v, NEW w, FromChar(l, v, w) PROVE ~derailed
  BY <1>4 DEF FromChar, Usable
<1>5. ASSUME NEW l \in Lists, NEW o, Sort(l, o) PROVE ~derailed
  BY <1>5 DEF Sort, Usable
<1>6. ASSUME NEW l \in Lists, NEW s, Copy(l, s) \/ JoinSplit(l, s) \/ Transfer(l, s) PROVE ~derailed
  BY <1>6 DEF Copy, JoinSplit, Transfer, Usable
<1>7. ASSUME NEW l \in Lists, NEW s, Move(l, s) \/ Merge(l, s) \/ Compare(l, s) PROVE ~derailed
  BY <1>7 DEF Move, Merge, Compare, Usable
<1>8. QED
  BY <1>1, <1>2, <1>3, <1>4, <1>5, <1>6, <1>7 DEF Next

(* The invariant of the specification: ListInv until a call derails, and    *)
(* then the types only.                                                     *)
Kept == FaultType /\ (derailed => TypeOK) /\ (~derailed => ListInv)

(* It is kept, and so are the abstract lists until then.                    *)
LEMMA KeptStep ==
  ASSUME Kept, [Next]_vars
  PROVE  /\ Kept'
         /\ [derailed' \/ Allowed]_<<Held, call, ret>>
<1>1. FaultType'
  BY FaultKept DEF Kept
<1>2. CASE Next
  <2>1. ~derailed
    BY <1>2, NextUsable
  <2>2. ListInv /\ FaultType
    BY <2>1 DEF Kept
  <2>3. CASE derailed'
    BY <1>1, <1>2, <2>2, <2>3, DerailedTypes DEF Kept
  <2>4. CASE ~derailed'
    <3>1. ListInv' /\ Allowed
      BY <1>2, <2>2, <2>4, StepKept
    <3>2. QED
      BY <1>1, <2>4, <3>1 DEF Kept
  <2>5. QED
    BY <2>3, <2>4
<1>3. CASE UNCHANGED vars
  <2>2. CASE derailed
    <3>1. derailed'
      BY <1>3, <2>2 DEF vars
    <3>2. TypeOK'
      BY <1>3, <2>2 DEF Kept, TypeOK, vars
    <3>3. QED
      BY <1>1, <3>1, <3>2 DEF Kept
  <2>3. CASE ~derailed
    <3>1. ListInv' /\ UNCHANGED <<Held, call, ret>>
      BY <1>3, <2>3, StillKept DEF Kept
    <3>2. ~derailed'
      BY <1>3, <2>3 DEF vars
    <3>3. QED
      BY <1>1, <3>1, <3>2 DEF Kept
  <2>4. QED
    BY <2>2, <2>3
<1>4. QED
  BY <1>2, <1>3

LEMMA KeptAtFirst ==
  ASSUME Init
  PROVE  Kept /\ ADT!Init
<1>1. ListInv /\ ADT!Init
  BY InitDone
<1>2. FaultType
  BY DEF Init, FaultType
<1>3. QED
  BY <1>1, <1>2 DEF Kept, Init

(* Until a call of list.c derails (it follows the prev pointer that         *)
(* list_unshift or list_merge left unset, or merges an empty list into one  *)
(* that is not), and whatever the number of lists and entries and the texts *)
(* of the strings, the lists are linked in both directions (oneway ones     *)
(* forward), count and tail are right, no entry leaks or is on two lists,   *)
(* and no operation has followed a NULL or freed pointer.                   *)
THEOREM ListsIntact == Spec => []HeapIntact
<1>1. Init => Kept
  BY KeptAtFirst
<1>2. Kept /\ [Next]_vars => Kept'
  BY KeptStep
<1>3. Kept => HeapIntact
  <2>1. ASSUME Kept, ~derailed PROVE HeapIntact
    BY <2>1, ArrangedIntact DEF Kept, ListInv
  <2>2. derailed => HeapIntact
    BY DEF HeapIntact
  <2>3. QED
    BY <2>1, <2>2
<1>4. QED
  BY <1>1, <1>2, <1>3, PTL DEF Spec

(* No operation of list.c, one that derails included, leaves a pointer that *)
(* leads to anything but an entry, a count below zero or a value that is no *)
(* string, and each stores a string or nothing for its caller.              *)
THEOREM ListTypes == Spec => []TypeOK
<1>1. Init => Kept
  BY KeptAtFirst
<1>2. Kept /\ [Next]_vars => Kept'
  BY KeptStep
<1>3. Kept => TypeOK
  BY ListInvTypes DEF Kept
<1>4. QED
  BY <1>1, <1>2, <1>3, PTL DEF Spec

(* The pointers of list.c implement sequences, for any lists, strings and   *)
(* heap: until a call derails, every operation has the effect on the        *)
(* elements, in their order, and returns the element or answer that its     *)
(* comment promises, or it is one of the departures: a sort of more than    *)
(* two strings, the deletion behind the last element, the text of an empty  *)
(* list, the text of a list with an empty string, and the comparison of two *)
(* empty lists.                                                             *)
THEOREM ListImplemented == Spec => ImplementsList
<1>1. Init => Kept /\ ADT!Init
  BY KeptAtFirst
<1>2. Kept /\ [Next]_vars
      => Kept' /\ [derailed' \/ ADT!Next \/ ADT!Departure]_<<[l \in Lists |-> Elements(l)], call, ret>>
  <2>1. ASSUME Kept, [Next]_vars PROVE Kept' /\ [derailed' \/ Allowed]_<<Held, call, ret>>
    BY <2>1, KeptStep
  <2>2. QED
    BY <2>1 DEF Held, Allowed
<1>3. QED
  BY <1>1, <1>2, PTL DEF Spec, ImplementsList
=============================================================================
