-------------------------- MODULE StringBufProofs --------------------------
(***************************************************************************)
(* Proofs about the buffers of string.c, for any number of strings and any *)
(* sizes.                                                                  *)
(***************************************************************************)
EXTENDS StringBuf, TLAPS

(* A string from str_new owns its buffer, which is not the array; without a*)
(* buffer its size is 0, and with one the header agrees with it.           *)
Fits(s) ==
  kind[s] = "heap" =>
    /\ owner[s] /\ value[s] # Array
    /\ value[s] = NULL => size[s] = 0
    /\ value[s] # NULL => /\ size[s] = cap[value[s]]
                          /\ len[s] < size[s] /\ nul[value[s]] <= len[s]

(* A local variable that is aliased points to the array, which nobody      *)
(* writes to.                                                              *)
Aliased(s) ==
  kind[s] = "stack" => value[s] = Array /\ size[s] = ArrayLen + 1 /\ len[s] = ArrayLen
Layout ==
  /\ ~fault
  /\ cap[Array] = ArrayLen + 1 /\ nul[Array] = ArrayLen
  /\ \A s \in Strs : Fits(s) /\ Aliased(s)

NoLeak ==
  \A b \in Bufs : cap[b] # 0 => \E s \in Strs : kind[s] = "heap" /\ value[s] = b
NotShared ==
  \A s, t \in Strs :
    kind[s] = "heap" /\ kind[t] = "heap" /\ value[s] = value[t] /\ value[s] # NULL => s = t

IInv == TypeOK /\ Layout /\ NoLeak /\ NotShared

LEMMA InitIInv == Init => IInv
<1> SUFFICES ASSUME Init PROVE IInv
  OBVIOUS
<1> USE SizeAssumption, CellAssumption DEF Init, Cells
<1>1. TypeOK
  <2>1. owner \in [Strs -> BOOLEAN] /\ fault \in BOOLEAN
    BY Zenon
  <2> QED
    BY <2>1 DEF TypeOK
<1>2. Layout
  BY DEF Layout, Fits, Aliased
<1>3. NoLeak
  BY DEF NoLeak
<1>4. NotShared
  BY DEF NotShared
<1> QED
  BY <1>1, <1>2, <1>3, <1>4 DEF IInv

(* The invariant gives the two properties. *)
LEMMA IInvSafe == IInv => InBounds /\ BuffersOwned
<1> USE SizeAssumption, CellAssumption DEF IInv, TypeOK, Layout, Cells
<1>1. IInv => InBounds
  BY DEF InBounds, Fits, Aliased
<1>2. IInv => BuffersOwned
  BY DEF BuffersOwned, NoLeak, NotShared, Aliased
<1> QED
  BY <1>1, <1>2

-----------------------------------------------------------------------------
(* What a string from str_new may do with its memory, under the invariant. *)
LEMMA HeapFacts ==
  ASSUME IInv, NEW s \in Strs, kind[s] = "heap"
  PROVE  /\ ~BadFree(s) /\ Replaced(s) = value[s]
         /\ value[s] = NULL <=> size[s] = 0
         /\ value[s] # NULL => /\ value[s] \in Bufs /\ ~BadWrite(s)
                               /\ size[s] = cap[value[s]] /\ len[s] < size[s]
                               /\ nul[value[s]] <= len[s]
BY SizeAssumption, CellAssumption
   DEF IInv, TypeOK, Layout, Fits, BadFree, BadWrite, Replaced, Cells

(* A string keeps its buffer, and gets a text that fits. *)
LEMMA KeepStep ==
  ASSUME IInv, NEW s \in Strs, Usable(s),
         NEW n \in 0..StringMax, NEW z \in 0..n, n < size[s],
         len' = [len EXCEPT ![s] = n],
         nul' = [c \in Cells |-> IF c = value[s] THEN z ELSE nul[c]],
         fault' = FALSE,
         UNCHANGED <<kind, value, size, owner, cap>>
  PROVE  IInv'
<1> USE SizeAssumption, CellAssumption, HeapFacts DEF Usable, Mutable, Cells
<1>1. TypeOK'
  <2>1. owner' \in [Strs -> BOOLEAN] /\ fault' \in BOOLEAN
    BY Zenon DEF IInv, TypeOK
  <2> QED
    BY <2>1 DEF IInv, TypeOK
<1>2. Layout'
  <2>1. ~fault' /\ (cap[Array] = ArrayLen + 1 /\ nul[Array] = ArrayLen)'
    BY DEF IInv, TypeOK, Layout
  <2>2. ASSUME NEW t \in Strs PROVE Fits(t)' /\ Aliased(t)'
    BY DEF IInv, TypeOK, Layout, Fits, Aliased, NotShared
  <2> QED
    BY <2>1, <2>2 DEF Layout
<1>3. NoLeak' /\ NotShared'
  BY DEF IInv, NoLeak, NotShared
<1> QED
  BY <1>1, <1>2, <1>3 DEF IInv

(* A string gets a buffer b of m bytes instead of the one it had, if any. *)
LEMMA ReplaceStep ==
  ASSUME IInv, NEW s \in Strs, Mutable(s),
         NEW b \in Bufs, Available(b, value[s]),
         NEW m \in 1..(StringMax + 1), NEW n \in 0..StringMax, NEW z \in 0..n, n < m,
         value' = [value EXCEPT ![s] = b],
         size' = [size EXCEPT ![s] = m],
         len' = [len EXCEPT ![s] = n],
         cap' = Allocated(value[s], b, m),
         nul' = [nul EXCEPT ![b] = z],
         fault' = FALSE,
         UNCHANGED <<kind, owner>>
  PROVE  IInv'
<1> USE SizeAssumption, CellAssumption, HeapFacts DEF Mutable, Cells
<1>1. TypeOK'
  <2>1. owner' \in [Strs -> BOOLEAN] /\ fault' \in BOOLEAN
    BY Zenon DEF IInv, TypeOK
  <2> QED
    BY <2>1 DEF IInv, TypeOK, Allocated
<1>0. \A t \in Strs \ {s} : kind[t] = "heap" => value[t] # b
  BY DEF IInv, TypeOK, NotShared, Available
<1>2. Layout'
  <2>1. ~fault' /\ (cap[Array] = ArrayLen + 1 /\ nul[Array] = ArrayLen)'
    BY DEF IInv, TypeOK, Layout, Allocated
  <2>2. ASSUME NEW t \in Strs PROVE Fits(t)'
    BY <1>0 DEF IInv, TypeOK, Layout, Fits, NotShared, Allocated
  <2>3. ASSUME NEW t \in Strs PROVE Aliased(t)'
    BY DEF IInv, TypeOK, Layout, Aliased
  <2> QED
    BY <2>1, <2>2, <2>3 DEF Layout
<1>3. NoLeak'
  BY <1>0 DEF IInv, TypeOK, NoLeak, Allocated
<1>4. NotShared'
  BY <1>0 DEF IInv, TypeOK, NotShared
<1> QED
  BY <1>1, <1>2, <1>3, <1>4 DEF IInv

(* A string is left without a buffer, or ends. *)
LEMMA DropStep ==
  ASSUME IInv, NEW s \in Strs, Mutable(s),
         value' = [value EXCEPT ![s] = NULL],
         cap' = [c \in Cells |-> IF c = value[s] THEN 0 ELSE cap[c]],
         \/ kind' = [kind EXCEPT ![s] = "none"] /\ UNCHANGED size
         \/ UNCHANGED kind /\ size' = [size EXCEPT ![s] = 0],
         len' \in [Strs -> 0..StringMax], \A t \in Strs \ {s} : len'[t] = len[t],
         fault' = FALSE,
         UNCHANGED <<owner, nul>>
  PROVE  IInv'
<1> USE SizeAssumption, CellAssumption, HeapFacts DEF Mutable, Cells
<1>1. TypeOK'
  <2>1. owner' \in [Strs -> BOOLEAN] /\ fault' \in BOOLEAN
    BY Zenon DEF IInv, TypeOK
  <2>2. kind' \in [Strs -> {"none", "heap", "stack"}] /\ size' \in [Strs -> 0..(StringMax + 1)]
    BY DEF IInv, TypeOK
  <2>3. value' \in [Strs -> Cells \cup {NULL}]
    BY DEF IInv, TypeOK
  <2>4. cap' \in [Cells -> 0..(StringMax + 1)] /\ nul' \in [Cells -> 0..StringMax]
    BY DEF IInv, TypeOK
  <2> QED
    BY <2>1, <2>2, <2>3, <2>4 DEF TypeOK
<1>2. Layout'
  <2>1. ~fault' /\ (cap[Array] = ArrayLen + 1 /\ nul[Array] = ArrayLen)'
    BY DEF IInv, TypeOK, Layout
  <2>2. ASSUME NEW t \in Strs PROVE Fits(t)'
    BY DEF IInv, TypeOK, Layout, Fits, NotShared
  <2>3. ASSUME NEW t \in Strs PROVE Aliased(t)'
    BY DEF IInv, TypeOK, Layout, Aliased
  <2> QED
    BY <2>1, <2>2, <2>3 DEF Layout
<1>3. NoLeak'
  BY DEF IInv, TypeOK, NoLeak, NotShared
<1>4. NotShared'
  BY DEF IInv, TypeOK, NotShared
<1> QED
  BY <1>1, <1>2, <1>3, <1>4 DEF IInv

(* What may be copied from a string that is not empty. *)
LEMMA SourceFacts ==
  ASSUME IInv, NEW s \in Strs, kind[s] # "none", size[s] # 0
  PROVE  /\ value[s] \in Cells
         /\ size[s] = cap[value[s]] /\ len[s] < size[s] /\ nul[value[s]] <= len[s]
         /\ size[s] \in 1..(StringMax + 1) /\ len[s] \in 0..StringMax
         /\ nul[value[s]] \in 0..StringMax
BY SizeAssumption, CellAssumption
   DEF IInv, TypeOK, Layout, Fits, Aliased, Cells

(* A string from str_new is an owner already. *)
LEMMA OwnerSame ==
  ASSUME IInv, NEW s \in Strs, kind[s] = "heap"
  PROVE  [owner EXCEPT ![s] = TRUE] = owner
<1>1. owner \in [Strs -> BOOLEAN] /\ owner[s] = TRUE
  BY DEF IInv, TypeOK, Layout, Fits
<1> QED
  BY <1>1

-----------------------------------------------------------------------------
(* The operations, one by one. *)
LEMMA NewStep ==
  ASSUME IInv, NEW s \in Strs, str_new(s) PROVE IInv'
<1> USE SizeAssumption, CellAssumption DEF Cells
<1> PICK b \in Bufs :
      /\ cap[b] = 0
      /\ value' = [value EXCEPT ![s] = b]
      /\ cap' = [cap EXCEPT ![b] = InitialSize]
      /\ nul' = [nul EXCEPT ![b] = 0]
  BY DEF str_new
<1>0. \A t \in Strs \ {s} : kind[t] = "heap" => value[t] # b
  BY DEF IInv, TypeOK, Layout, Fits
<1>1. TypeOK'
  <2>1. owner' \in [Strs -> BOOLEAN] /\ fault' \in BOOLEAN
    BY Zenon DEF IInv, TypeOK, str_new
  <2> QED
    BY <2>1 DEF IInv, TypeOK, str_new
<1>2. Layout'
  <2>1. ~fault' /\ (cap[Array] = ArrayLen + 1 /\ nul[Array] = ArrayLen)'
    BY DEF IInv, TypeOK, Layout, str_new
  <2>2. ASSUME NEW t \in Strs PROVE Fits(t)'
    BY <1>0 DEF IInv, TypeOK, Layout, Fits, str_new
  <2>3. ASSUME NEW t \in Strs PROVE Aliased(t)'
    BY DEF IInv, TypeOK, Layout, Aliased, str_new
  <2> QED
    BY <2>1, <2>2, <2>3 DEF Layout
<1>3. NoLeak'
  BY <1>0 DEF IInv, TypeOK, NoLeak, str_new
<1>4. NotShared'
  BY <1>0 DEF IInv, TypeOK, NotShared, str_new
<1> QED
  BY <1>1, <1>2, <1>3, <1>4 DEF IInv

LEMMA LocalStep ==
  ASSUME IInv, NEW s \in Strs, AliasLocal(s) \/ EndLocal(s) PROVE IInv'
<1> USE SizeAssumption, CellAssumption DEF Cells, AliasLocal, EndLocal
<1>1. TypeOK'
  <2>1. owner' \in [Strs -> BOOLEAN] /\ fault' \in BOOLEAN
    BY Zenon DEF IInv, TypeOK
  <2> QED
    BY <2>1 DEF IInv, TypeOK, Layout
<1>2. Layout'
  BY DEF IInv, TypeOK, Layout, Fits, Aliased
<1>3. NoLeak' /\ NotShared'
  BY DEF IInv, TypeOK, NoLeak, NotShared
<1> QED
  BY <1>1, <1>2, <1>3 DEF IInv

LEMMA DestroyStep ==
  ASSUME IInv, NEW s \in Strs, str_destroy(s) PROVE IInv'
<1>1. fault' = FALSE
  BY HeapFacts DEF str_destroy, Mutable
<1> QED
  BY <1>1, DropStep DEF str_destroy, IInv, TypeOK

(* A shorter text, or one that ends in the same buffer. *)
LEMMA ShortenStep ==
  ASSUME IInv, NEW s \in Strs, Usable(s), NEW n \in 0..StringMax, n < size[s],
         Shorten(s, n), fault' = FALSE,
         UNCHANGED <<kind, value, size, owner, cap>>
  PROVE  IInv'
<1>1. Smaller(nul[value[s]], n) \in 0..n
  BY HeapFacts, SizeAssumption DEF Smaller, IInv, TypeOK, Usable, Mutable, Cells
<1>2. nul' = [c \in Cells |-> IF c = value[s] THEN Smaller(nul[value[s]], n) ELSE nul[c]]
  BY DEF Shorten
<1>3. len' = [len EXCEPT ![s] = n]
  BY DEF Shorten
<1> QED
  BY <1>1, <1>2, <1>3, KeepStep

(* A text of the same length or shorter, if there is a buffer. *)
LEMMA EmptyStep ==
  ASSUME IInv, NEW s \in Strs, Mutable(s), Shorten(s, 0),
         fault' = (size[s] > 0 /\ BadWrite(s)),
         UNCHANGED <<kind, value, size, owner, cap>>
  PROVE  IInv'
<1> USE SizeAssumption, CellAssumption
<1>0. fault' = FALSE
  <2>1. size[s] \in Nat
    BY DEF IInv, TypeOK
  <2>2. ~(size[s] > 0 /\ BadWrite(s))
    BY <2>1, HeapFacts DEF Mutable
  <2> QED
    BY <2>2
<1>1. CASE value[s] # NULL
  <2>0. size[s] \in Nat /\ size[s] # 0
    BY <1>1, HeapFacts DEF Mutable, IInv, TypeOK
  <2>1. 0 < size[s]
    BY <2>0
  <2>2. Usable(s) /\ 0 \in 0..StringMax
    BY <1>1 DEF Usable
  <2> QED
    BY <1>0, <2>1, <2>2, ShortenStep, Zenon
<1>2. CASE value[s] = NULL
  <2>1. nul' = nul
    BY <1>2 DEF Shorten, IInv, TypeOK, Cells
  <2>2. size[s] = 0
    BY <1>2, HeapFacts DEF Mutable
  <2>3. len' \in [Strs -> 0..StringMax] /\ \A t \in Strs \ {s} : len'[t] = len[t]
    BY DEF Shorten, IInv, TypeOK
  <2>4. TypeOK'
    <3>1. fault' \in BOOLEAN
      BY <1>0
    <3> QED
      BY <3>1, <2>1, <2>3 DEF IInv, TypeOK
  <2>5. Layout'
    BY <1>0, <1>2, <2>1, <2>3 DEF IInv, Layout, Fits, Aliased, Mutable
  <2> QED
    BY <2>1, <2>4, <2>5 DEF IInv, NoLeak, NotShared
<1> QED
  BY <1>1, <1>2

LEMMA TruncateStep ==
  ASSUME IInv, NEW s \in Strs, str_truncate(s) \/ ResizeFails(s) PROVE IInv'
<1>1. CASE str_truncate(s)
  BY <1>1, EmptyStep DEF str_truncate
<1>2. CASE ResizeFails(s)
  <2>1. CASE UNCHANGED <<len, nul, fault>>
    BY <1>2, <2>1 DEF ResizeFails, IInv, TypeOK, Layout, Fits, Aliased, NoLeak, NotShared
  <2>2. CASE Shorten(s, 0) /\ fault' = (size[s] > 0 /\ BadWrite(s))
    BY <1>2, <2>2, EmptyStep DEF ResizeFails, Usable
  <2> QED
    BY <1>2, <2>1, <2>2 DEF ResizeFails
<1> QED
  BY <1>1, <1>2

LEMMA SetLenStep ==
  ASSUME IInv, NEW s \in Strs, NEW n \in 0..StringMax,
         str_set_len(s, n) \/ str_truncate_at(s, n) \/ str_chomp(s, n)
  PROVE  IInv'
<1> USE SizeAssumption
<1>1. ASSUME NEW k \in 0..StringMax, str_truncate_at(s, k) PROVE IInv'
  <2>1. Usable(s) /\ kind[s] = "heap" /\ value[s] # NULL
    BY <1>1 DEF str_truncate_at, Usable, Mutable
  <2>a. /\ size[s] \in Nat /\ len[s] \in Nat /\ len[s] < size[s]
        /\ size[s] = cap[value[s]] /\ ~BadWrite(s)
    BY <2>1, HeapFacts DEF IInv, TypeOK
  <2>b. k < size[s]
    BY <1>1, <2>a DEF str_truncate_at
  <2>c. ~(BadWrite(s) \/ k >= cap[value[s]])
    BY <2>a, <2>b
  <2>2. k < size[s] /\ fault' = FALSE
    BY <1>1, <2>b, <2>c DEF str_truncate_at
  <2> QED
    BY <1>1, <2>1, <2>2, ShortenStep DEF str_truncate_at
<1>2. CASE str_set_len(s, n)
  <2>1. Usable(s) /\ kind[s] = "heap" /\ value[s] # NULL
    BY <1>2 DEF str_set_len, Usable, Mutable
  <2>a. /\ size[s] \in Nat /\ len[s] \in Nat /\ len[s] < size[s]
        /\ size[s] = cap[value[s]] /\ ~BadWrite(s)
    BY <2>1, HeapFacts DEF IInv, TypeOK
  <2>b. n < size[s]
    BY <1>2, <2>a DEF str_set_len, Settable
  <2>c. ~(BadWrite(s) \/ n >= cap[value[s]])
    BY <2>a, <2>b
  <2>2. n < size[s] /\ fault' = FALSE
    BY <1>2, <2>b, <2>c DEF str_set_len
  <2> QED
    BY <1>2, <2>1, <2>2, ShortenStep DEF str_set_len
<1>3. CASE str_chomp(s, n)
  <2>1. len[s] - n \in 0..StringMax
    BY <1>3 DEF str_chomp, IInv, TypeOK
  <2> QED
    BY <1>1, <1>3, <2>1 DEF str_chomp
<1> QED
  BY <1>1, <1>2, <1>3

LEMMA InPlaceStep ==
  ASSUME IInv, NEW s \in Strs,
         InPlace(s) \/ \E terminator \in {"NUL", "character"} :
                         str_set_terminator(s, terminator)
  PROVE  IInv'
<1> USE SizeAssumption, CellAssumption DEF Cells
<1>0. Usable(s) /\ kind[s] = "heap" /\ value[s] # NULL
  BY DEF InPlace, str_set_terminator, Usable, Mutable
<1>1. /\ size[s] \in Nat /\ len[s] \in 0..StringMax /\ len[s] < size[s]
      /\ nul[value[s]] \in 0..len[s]
      /\ size[s] = cap[value[s]] /\ ~BadWrite(s)
  BY <1>0, HeapFacts DEF IInv, TypeOK
<1>2. CASE InPlace(s)
  <2>1. fault' = FALSE
    <3>1. ~(BadWrite(s) \/ len[s] > cap[value[s]] \/ nul[value[s]] >= cap[value[s]])
      BY <1>1
    <3> QED
      BY <1>2, <3>1 DEF InPlace
  <2>2. /\ len' = [len EXCEPT ![s] = len[s]]
        /\ nul' = [c \in Cells |-> IF c = value[s] THEN nul[value[s]] ELSE nul[c]]
    BY <1>2 DEF InPlace, IInv, TypeOK
  <2> QED
    BY <1>0, <1>1, <1>2, <2>1, <2>2, KeepStep DEF InPlace
<1>3. ASSUME NEW terminator \in {"NUL", "character"}, str_set_terminator(s, terminator)
      PROVE  IInv'
  <2>1. fault' = FALSE
    <3>1. ~(BadWrite(s) \/ len[s] > cap[value[s]])
      BY <1>1
    <3> QED
      BY <1>3, <3>1 DEF str_set_terminator
  <2>2. CASE terminator = "NUL"
    <3>1. len[s] - 1 \in 0..StringMax /\ len[s] - 1 < size[s]
      BY <1>1, <1>3 DEF str_set_terminator
    <3> QED
      BY <1>0, <1>3, <2>1, <2>2, <3>1, ShortenStep DEF str_set_terminator
  <2>3. CASE terminator # "NUL"
    <3> DEFINE z == IF nul[value[s]] = len[s] - 1 THEN len[s] ELSE nul[value[s]]
    <3>1. z \in 0..len[s]
      BY <1>1
    <3>2. /\ len' = [len EXCEPT ![s] = len[s]]
          /\ nul' = [c \in Cells |-> IF c = value[s] THEN z ELSE nul[c]]
      BY <1>3, <2>3 DEF str_set_terminator, IInv, TypeOK
    <3> HIDE DEF z
    <3> QED
      BY <1>0, <1>1, <1>3, <2>1, <3>1, <3>2, KeepStep DEF str_set_terminator
  <2> QED
    BY <2>2, <2>3
<1> QED
  BY <1>2, <1>3

(* A text of length n, in a buffer that str_resize has made m bytes at     *)
(* least.                                                                  *)
LEMMA ResizedStep ==
  ASSUME IInv, NEW s \in Strs, Usable(s),
         NEW m \in 1..(StringMax + 1), NEW n \in 0..StringMax, NEW z \in 0..n, n < m,
         NEW b \in Cells, Resized(s, m, b),
         nul' = [c \in Cells |-> IF c = b THEN z ELSE nul[c]],
         len' = [len EXCEPT ![s] = n],
         ~BadFree(s) /\ b \in Bufs /\ cap'[b] >= m => fault' = FALSE,
         UNCHANGED <<kind, owner>>
  PROVE  IInv'
<1> USE SizeAssumption, CellAssumption DEF Cells
<1>0. /\ Mutable(s) /\ kind[s] = "heap" /\ value[s] # NULL
      /\ size[s] \in Nat /\ value[s] \in Bufs /\ ~BadFree(s)
      /\ size[s] = cap[value[s]] /\ cap \in [Cells -> Nat]
  BY HeapFacts DEF IInv, TypeOK, Usable, Mutable
<1>1. CASE size[s] >= m
  <2>1. b = value[s] /\ value' = value /\ size' = size /\ cap' = cap
    BY <1>0, <1>1 DEF Resized, IInv, TypeOK
  <2>2. ~BadFree(s) /\ b \in Bufs /\ cap'[b] >= m
    BY <1>0, <1>1, <2>1
  <2>3. fault' = FALSE
    BY <2>2
  <2>4. n < size[s]
    BY <1>0, <1>1
  <2> QED
    BY <2>1, <2>3, <2>4, KeepStep
<1>2. CASE size[s] < m
  <2>1. /\ b \in Bufs /\ Available(b, value[s])
        /\ value' = [value EXCEPT ![s] = b]
        /\ size' = [size EXCEPT ![s] = m]
        /\ cap' = Allocated(value[s], b, m)
    BY <1>0, <1>2 DEF Resized, IInv, TypeOK
  <2>2. ~BadFree(s) /\ b \in Bufs /\ cap'[b] >= m
    BY <1>0, <2>1 DEF Allocated
  <2>3. fault' = FALSE
    BY <2>2
  <2>4. nul' = [nul EXCEPT ![b] = z]
    BY DEF IInv, TypeOK
  <2> QED
    BY <1>0, <2>1, <2>3, <2>4, ReplaceStep
<1> QED
  BY <1>0, <1>1, <1>2

LEMMA FillStep ==
  ASSUME IInv, NEW s \in Strs, Usable(s),
         NEW n \in 0..StringMax, NEW z \in 0..n, Fill(s, n, z), UNCHANGED <<kind, owner>>
  PROVE  IInv'
<1> USE SizeAssumption
<1> DEFINE m == n + 1
<1>0. m \in 1..(StringMax + 1) /\ n < m
  OBVIOUS
<1>1. PICK b \in Cells :
        /\ Resized(s, m, b)
        /\ nul' = [c \in Cells |-> IF c = b THEN z ELSE nul[c]]
        /\ len' = [len EXCEPT ![s] = n]
        /\ fault' = \/ size[s] < m /\ BadFree(s)
                    \/ b \notin Bufs \/ cap'[b] <= n
  BY DEF Fill, Room
<1>2. cap'[b] \in Nat
  BY <1>0, <1>1 DEF Resized, Allocated, IInv, TypeOK
<1>3. ASSUME ~BadFree(s), b \in Bufs, cap'[b] >= m PROVE fault' = FALSE
  <2>1. ~(cap'[b] <= n)
    BY <1>2, <1>3
  <2> QED
    BY <1>1, <1>3, <2>1
<1> HIDE DEF m
<1> QED
  BY <1>0, <1>1, <1>3, ResizedStep

LEMMA CatStep ==
  ASSUME IInv, NEW s \in Strs, NEW n \in Nat, str_cat(s, n) PROVE IInv'
<1> USE SizeAssumption
<1> DEFINE z == IF nul[value[s]] < len[s] THEN nul[value[s]] ELSE len[s] + n
<1>0. Usable(s) /\ kind[s] = "heap" /\ value[s] # NULL
  BY DEF str_cat, Usable, Mutable
<1>1. /\ size[s] \in 0..(StringMax + 1) /\ len[s] \in Nat /\ nul[value[s]] \in Nat
  BY <1>0, HeapFacts DEF IInv, TypeOK, Cells
<1>2. len[s] + n \in 0..StringMax
  BY <1>1 DEF str_cat, Room
<1>3. z \in 0..(len[s] + n)
  BY <1>1
<1>4. Fill(s, len[s] + n, z) /\ UNCHANGED <<kind, owner>>
  BY DEF str_cat
<1> HIDE DEF z
<1> QED
  BY <1>0, <1>2, <1>3, <1>4, FillStep

LEMMA AppendStep ==
  ASSUME IInv, NEW s \in Strs, NEW t \in Strs, str_append(s, t) PROVE IInv'
<1>1. value[t] \in Cells
  BY DEF str_append, IInv, TypeOK
<1>2. nul[value[t]] \in Nat
  BY <1>1, SizeAssumption DEF IInv, TypeOK
<1> QED
  BY <1>2, CatStep DEF str_append

LEMMA NcpyStep ==
  ASSUME IInv, NEW s \in Strs, NEW n \in 0..StringMax, str_ncpy(s, n) PROVE IInv'
<1>1. Usable(s) /\ kind[s] = "heap"
  BY DEF str_ncpy, Usable, Mutable
<1>2. owner' = owner
  BY <1>1, OwnerSame DEF str_ncpy
<1>3. n \in 0..n
  BY SizeAssumption
<1> QED
  BY <1>1, <1>2, <1>3, FillStep DEF str_ncpy

LEMMA ReadStep ==
  ASSUME IInv, NEW s \in Strs, NEW n \in 0..StringMax, NEW got \in 0..n, NEW z \in 0..n,
         str_read(s, n, got, z)
  PROVE  IInv'
<1> USE SizeAssumption
<1> DEFINE m == n + 1
<1>0. /\ Usable(s) /\ got \in 0..StringMax /\ z \in 0..got
      /\ m \in 1..(StringMax + 1) /\ got < m
  BY DEF str_read
<1>1. PICK b \in Cells :
        /\ Resized(s, m, b)
        /\ nul' = [c \in Cells |-> IF c = b THEN z ELSE nul[c]]
        /\ fault' = \/ size[s] < m /\ BadFree(s)
                    \/ b \notin Bufs \/ cap'[b] <= n
  BY DEF str_read, Room
<1>2. cap'[b] \in Nat
  BY <1>0, <1>1 DEF Resized, Allocated, IInv, TypeOK
<1>3. ASSUME ~BadFree(s), b \in Bufs, cap'[b] >= m PROVE fault' = FALSE
  <2>1. ~(cap'[b] <= n)
    BY <1>2, <1>3
  <2> QED
    BY <1>1, <1>3, <2>1
<1>4. len' = [len EXCEPT ![s] = got] /\ UNCHANGED <<kind, owner>>
  BY DEF str_read
<1> HIDE DEF m
<1> QED
  BY <1>0, <1>1, <1>3, <1>4, ResizedStep

LEMMA ResizeStep ==
  ASSUME IInv, NEW s \in Strs, NEW n \in 0..StringMax, str_resize(s, n) PROVE IInv'
<1> USE SizeAssumption, CellAssumption DEF Cells
<1>0. Usable(s) /\ Mutable(s) /\ kind[s] = "heap" /\ value[s] # NULL
  BY DEF str_resize, Usable, Mutable
<1>1. /\ size[s] \in Nat /\ len[s] \in 0..StringMax /\ len[s] < size[s]
      /\ nul[value[s]] \in 0..len[s] /\ value[s] \in Bufs
  BY <1>0, HeapFacts DEF IInv, TypeOK
<1>2. fault' = FALSE
  <2>1. ~(size[s] < n /\ BadFree(s))
    BY <1>0, HeapFacts
  <2> QED
    BY <2>1 DEF str_resize
<1>3. len' = [len EXCEPT ![s] = len[s]]
  BY DEF str_resize, IInv, TypeOK
<1>4. PICK b \in Cells :
        /\ Resized(s, n, b)
        /\ nul' = [c \in Cells |-> IF c = b /\ size[s] < n
                                     THEN Smaller(nul[value[s]], n - 1) ELSE nul[c]]
  BY DEF str_resize
<1>5. CASE size[s] >= n
  <2>1. value' = value /\ size' = size /\ cap' = cap
    BY <1>1, <1>4, <1>5 DEF Resized, IInv, TypeOK
  <2>2. nul' = [c \in Cells |-> IF c = value[s] THEN nul[value[s]] ELSE nul[c]]
    BY <1>1, <1>4, <1>5
  <2> QED
    BY <1>0, <1>1, <1>2, <1>3, <2>1, <2>2, KeepStep DEF str_resize
<1>6. CASE size[s] < n
  <2>1. /\ b \in Bufs /\ Available(b, value[s])
        /\ value' = [value EXCEPT ![s] = b]
        /\ size' = [size EXCEPT ![s] = n]
        /\ cap' = Allocated(value[s], b, n)
    BY <1>1, <1>4, <1>6 DEF Resized, IInv, TypeOK
  <2>2. Smaller(nul[value[s]], n - 1) = nul[value[s]]
    BY <1>1, <1>6 DEF Smaller
  <2>3. nul' = [nul EXCEPT ![b] = nul[value[s]]]
    BY <1>4, <1>6, <2>2 DEF IInv, TypeOK
  <2>4. n \in 1..(StringMax + 1) /\ len[s] < n
    BY <1>1, <1>6
  <2> QED
    BY <1>0, <1>1, <1>2, <1>3, <2>1, <2>3, <2>4, ReplaceStep DEF str_resize
<1> QED
  BY <1>1, <1>5, <1>6

LEMMA VprintfStep ==
  ASSUME IInv, NEW s \in Strs, NEW n \in 0..(StringMax + 1), str_vprintf(s, n) PROVE IInv'
<1> USE SizeAssumption, CellAssumption
<1> DEFINE old == IF size[s] > 0 THEN value[s] ELSE NULL
<1>0. Mutable(s) /\ kind[s] = "heap"
  BY DEF str_vprintf, Mutable
<1>1. old = value[s]
  <2>1. size[s] \in Nat
    BY DEF IInv, TypeOK
  <2> QED
    BY <1>0, <2>1, HeapFacts
<1>2. n \in 0..StringMax /\ n \in 0..n /\ n + 1 \in 1..(StringMax + 1) /\ n < n + 1
  BY DEF str_vprintf, Printable
<1>3. fault' = FALSE
  <2>1. ~(size[s] > 0 /\ BadFree(s))
    BY <1>0, HeapFacts
  <2> QED
    BY <2>1 DEF str_vprintf
<1>4. PICK b \in Bufs :
        /\ Available(b, value[s])
        /\ value' = [value EXCEPT ![s] = b]
        /\ cap' = Allocated(value[s], b, n + 1)
        /\ nul' = [nul EXCEPT ![b] = n]
  BY <1>1 DEF str_vprintf
<1>5. /\ len' = [len EXCEPT ![s] = n] /\ size' = [size EXCEPT ![s] = n + 1]
      /\ UNCHANGED <<kind, owner>>
  BY DEF str_vprintf
<1> HIDE DEF old
<1> QED
  BY <1>0, <1>2, <1>3, <1>4, <1>5, ReplaceStep

(* An allocation that fails. *)
LEMMA FailStep ==
  ASSUME IInv, NEW s \in Strs, VprintfFails(s) \/ \E t \in Strs : CopyFails(s, t)
  PROVE  IInv'
<1> USE SizeAssumption, CellAssumption
<1>0. /\ Mutable(s) /\ kind[s] = "heap"
      /\ value' = [value EXCEPT ![s] = NULL]
      /\ size' = [size EXCEPT ![s] = 0] /\ UNCHANGED <<kind, owner, nul>>
  BY DEF VprintfFails, CopyFails, MayCopy, Mutable
<1>1. /\ ~BadFree(s) /\ Replaced(s) = value[s]
      /\ value[s] = NULL <=> size[s] = 0
      /\ size[s] \in Nat
  BY <1>0, HeapFacts DEF IInv, TypeOK
<1>2. fault' = FALSE
  <2>1. ~(owner[s] /\ BadFree(s)) /\ ~(size[s] > 0 /\ BadFree(s))
    BY <1>1
  <2> QED
    BY <2>1 DEF VprintfFails, CopyFails
<1>3. cap' = [c \in Cells |-> IF c = value[s] THEN 0 ELSE cap[c]]
  <2>1. CASE VprintfFails(s)
    <3>1. \A c \in Cells : (size[s] > 0 /\ c = value[s]) <=> c = value[s]
      BY <1>1 DEF Cells
    <3> QED
      BY <2>1, <3>1 DEF VprintfFails
  <2>2. ASSUME NEW t \in Strs, CopyFails(s, t)
        PROVE  cap' = [c \in Cells |-> IF c = value[s] THEN 0 ELSE cap[c]]
    BY <1>1, <2>2 DEF CopyFails
  <2> QED
    BY <2>1, <2>2
<1>4. len' \in [Strs -> 0..StringMax] /\ \A u \in Strs \ {s} : len'[u] = len[u]
  BY DEF VprintfFails, CopyFails, IInv, TypeOK
<1> QED
  BY <1>0, <1>2, <1>3, <1>4, DropStep

LEMMA CopyStep ==
  ASSUME IInv, NEW d \in Strs, NEW s \in Strs, str_copy(d, s) PROVE IInv'
<1> USE SizeAssumption, CellAssumption
<1>0. Mutable(d) /\ kind[d] = "heap" /\ kind[s] # "none" /\ size[s] # 0
  BY DEF str_copy, MayCopy, Mutable
<1>1. ~BadFree(d) /\ Replaced(d) = value[d]
  BY <1>0, HeapFacts
<1>2. /\ value[s] \in Cells /\ len[s] < size[s]
      /\ size[s] \in 1..(StringMax + 1) /\ len[s] \in 0..StringMax
      /\ nul[value[s]] \in 0..len[s]
  BY <1>0, SourceFacts
<1>3. fault' = FALSE
  <2>1. ~(owner[d] /\ BadFree(d)) /\ ~(value[s] \notin Cells \/ CopySize(s) <= len[s])
    BY <1>1, <1>2 DEF CopySize
  <2> QED
    BY <2>1 DEF str_copy, Copied
<1>4. owner' = owner
  BY <1>0, OwnerSame DEF str_copy, Copied
<1>5. PICK b \in Bufs :
        /\ Available(b, value[d])
        /\ value' = [value EXCEPT ![d] = b]
        /\ cap' = Allocated(value[d], b, size[s])
        /\ nul' = [nul EXCEPT ![b] = nul[value[s]]]
  BY <1>1 DEF str_copy, Copied, CopySize
<1>6. /\ len' = [len EXCEPT ![d] = len[s]] /\ size' = [size EXCEPT ![d] = size[s]]
      /\ UNCHANGED kind
  BY DEF str_copy, Copied
<1> QED
  BY <1>0, <1>2, <1>3, <1>4, <1>5, <1>6, ReplaceStep

LEMMA PrependStep ==
  ASSUME IInv, NEW d \in Strs, NEW s \in Strs, str_prepend(d, s) PROVE IInv'
<1> USE SizeAssumption, CellAssumption
<1> DEFINE saved == nul[value[d]]
           bytes == IF saved = 0 THEN size[s] ELSE Larger(size[s], len[s] + saved + 1)
           n == len[s] + saved
           z == IF nul[value[s]] < len[s] THEN nul[value[s]] ELSE len[s] + saved
<1>0. /\ Mutable(d) /\ kind[d] = "heap" /\ value[d] # NULL
      /\ kind[s] # "none" /\ size[s] # 0
  BY DEF str_prepend, MayCopy, Mutable
<1>1. ~BadFree(d) /\ Replaced(d) = value[d] /\ saved \in Nat
  BY <1>0, HeapFacts DEF IInv, TypeOK, Cells
<1>2. /\ len[s] < size[s] /\ size[s] \in 1..(StringMax + 1) /\ len[s] \in 0..StringMax
      /\ nul[value[s]] \in 0..len[s]
  BY <1>0, SourceFacts
<1>3. bytes <= StringMax
  BY DEF str_prepend, Room
<1>4. /\ bytes \in 1..(StringMax + 1) /\ n \in 0..StringMax /\ n < bytes /\ z \in 0..n
  BY <1>1, <1>2, <1>3 DEF Larger
<1>5. fault' = FALSE
  <2>1. ~((owner[d] /\ BadFree(d)) \/ CopySize(s) <= len[s])
    BY <1>1, <1>2 DEF CopySize
  <2> QED
    BY <2>1 DEF str_prepend
<1>6. owner' = owner
  BY <1>0, OwnerSame DEF str_prepend
<1>7. PICK b \in Bufs :
        /\ Available(b, value[d])
        /\ value' = [value EXCEPT ![d] = b]
        /\ cap' = Allocated(value[d], b, bytes)
        /\ nul' = [nul EXCEPT ![b] = z]
  BY <1>1 DEF str_prepend, Room
<1>8. /\ len' = [len EXCEPT ![d] = n] /\ size' = [size EXCEPT ![d] = bytes]
      /\ UNCHANGED kind
  BY DEF str_prepend, Room
<1> HIDE DEF bytes, n, z
<1> QED
  BY <1>0, <1>4, <1>5, <1>6, <1>7, <1>8, ReplaceStep

LEMMA RebuildStep ==
  ASSUME IInv, NEW d \in Strs, NEW n \in 0..StringMax, Rebuild(d, n) PROVE IInv'
<1> USE SizeAssumption, CellAssumption
<1> DEFINE bytes == Larger(InitialSize, n + 1)
<1>0. Mutable(d) /\ kind[d] = "heap"
  BY DEF Rebuild, Usable, Mutable
<1>1. ~BadFree(d) /\ Replaced(d) = value[d]
  BY <1>0, HeapFacts
<1>2. bytes \in 1..(StringMax + 1) /\ n < bytes /\ n \in 0..n
  BY DEF Larger
<1>3. fault' = FALSE
  <2>1. ~(owner[d] /\ BadFree(d))
    BY <1>1
  <2> QED
    BY <2>1 DEF Rebuild
<1>4. owner' = owner
  BY <1>0, OwnerSame DEF Rebuild
<1>5. PICK b \in Bufs :
        /\ Available(b, value[d])
        /\ value' = [value EXCEPT ![d] = b]
        /\ cap' = Allocated(value[d], b, bytes)
        /\ nul' = [nul EXCEPT ![b] = n]
  BY <1>1 DEF Rebuild, Room
<1>6. /\ len' = [len EXCEPT ![d] = n] /\ size' = [size EXCEPT ![d] = bytes]
      /\ UNCHANGED kind
  BY DEF Rebuild, Room
<1> HIDE DEF bytes
<1> QED
  BY <1>0, <1>2, <1>3, <1>4, <1>5, <1>6, ReplaceStep

(* str_move changes two strings at once, which do not share a buffer. *)
LEMMA MoveStep ==
  ASSUME IInv, NEW d \in Strs, NEW s \in Strs, str_move(d, s) PROVE IInv'
<1> USE SizeAssumption, CellAssumption DEF Cells
<1>0. /\ kind[d] = "heap" /\ kind[s] = "heap" /\ d # s /\ size[s] # 0
  BY DEF str_move, MayCopy, Mutable
<1>1. ~BadFree(d) /\ Replaced(d) = value[d]
  BY <1>0, HeapFacts
<1>2. /\ value[s] \in Bufs /\ size[s] = cap[value[s]] /\ len[s] < size[s]
      /\ size[s] \in 1..(StringMax + 1) /\ len[s] \in 0..StringMax
      /\ nul[value[s]] \in 0..len[s]
  BY <1>0, SourceFacts, HeapFacts
<1>3. fault' = FALSE
  <2>1. ~(owner[d] /\ BadFree(d)) /\ ~(value[s] \notin Cells \/ CopySize(s) <= len[s])
    BY <1>1, <1>2 DEF CopySize
  <2> QED
    BY <2>1 DEF str_move, Copied
<1>4. owner' = owner
  BY <1>0, OwnerSame DEF str_move, Copied
<1>5. PICK b \in Bufs :
        /\ Available(b, value[d])
        /\ value' = [value EXCEPT ![d] = b]
        /\ cap' = Allocated(value[d], b, size[s])
        /\ nul' = [nul EXCEPT ![b] = nul[value[s]], ![value[s]] = 0]
  BY <1>1 DEF str_move, Copied, CopySize
<1>6. /\ len' = [len EXCEPT ![d] = len[s], ![s] = 0]
      /\ size' = [size EXCEPT ![d] = size[s]] /\ UNCHANGED kind
  BY DEF str_move, Copied
<1>7. \A t \in Strs \ {d} : kind[t] = "heap" => value[t] # b
  BY <1>0, <1>5, HeapFacts DEF IInv, TypeOK, NotShared, Available
<1>8. TypeOK'
  <2>1. owner' \in [Strs -> BOOLEAN] /\ fault' \in BOOLEAN
    BY <1>3, <1>4, Zenon DEF IInv, TypeOK
  <2>2. nul[value[s]] \in 0..StringMax
    BY <1>2
  <2>3. nul' \in [Cells -> 0..StringMax]
    BY <1>2, <1>5, <2>2 DEF IInv, TypeOK
  <2>4. len' \in [Strs -> 0..StringMax]
    BY <1>2, <1>6 DEF IInv, TypeOK
  <2>5. size' \in [Strs -> 0..(StringMax + 1)] /\ cap' \in [Cells -> 0..(StringMax + 1)]
    BY <1>2, <1>5, <1>6 DEF IInv, TypeOK, Allocated
  <2>6. value' \in [Strs -> Cells \cup {NULL}] /\ kind' \in [Strs -> {"none", "heap", "stack"}]
    BY <1>5, <1>6 DEF IInv, TypeOK
  <2> QED
    BY <2>1, <2>3, <2>4, <2>5, <2>6 DEF TypeOK
<1>9. Layout'
  <2>1. ~fault' /\ (cap[Array] = ArrayLen + 1 /\ nul[Array] = ArrayLen)'
    BY <1>0, <1>2, <1>3, <1>5, HeapFacts DEF IInv, TypeOK, Layout, Allocated
  <2>2. Fits(d)'
    BY <1>0, <1>2, <1>4, <1>5, <1>6, <1>7 DEF IInv, TypeOK, Layout, Fits, Allocated
  <2>3. ASSUME NEW t \in Strs \ {d} PROVE Fits(t)'
    BY <1>0, <1>2, <1>4, <1>5, <1>6, <1>7, HeapFacts
       DEF IInv, TypeOK, Layout, Fits, NotShared, Allocated
  <2>4. ASSUME NEW t \in Strs PROVE Aliased(t)'
    BY <1>0, <1>5, <1>6 DEF IInv, TypeOK, Layout, Aliased
  <2> QED
    BY <2>1, <2>2, <2>3, <2>4 DEF Layout
<1>10. NoLeak'
  BY <1>0, <1>5, <1>6, <1>7 DEF IInv, TypeOK, NoLeak, Allocated
<1>11. NotShared'
  BY <1>0, <1>5, <1>6, <1>7 DEF IInv, TypeOK, NotShared
<1> QED
  BY <1>8, <1>9, <1>10, <1>11 DEF IInv

LEMMA SwapStep ==
  ASSUME IInv, NEW s \in Strs, NEW t \in Strs, str_swap(s, t) PROVE IInv'
<1> USE SizeAssumption, CellAssumption DEF Cells, str_swap, Mutable
<1>0. owner[s] = TRUE /\ owner[t] = TRUE /\ owner \in [Strs -> BOOLEAN]
  BY DEF IInv, TypeOK, Layout, Fits
<1>1. owner' = owner
  BY <1>0
<1>2. TypeOK'
  <2>1. owner' \in [Strs -> BOOLEAN] /\ fault' \in BOOLEAN
    BY <1>1, Zenon DEF IInv, TypeOK
  <2> QED
    BY <2>1 DEF IInv, TypeOK
<1>3. Layout'
  <2>1. ~fault' /\ (cap[Array] = ArrayLen + 1 /\ nul[Array] = ArrayLen)'
    BY DEF IInv, Layout
  <2>2. ASSUME NEW u \in Strs PROVE Fits(u)'
    BY <1>1 DEF IInv, TypeOK, Layout, Fits
  <2>3. ASSUME NEW u \in Strs PROVE Aliased(u)'
    BY DEF IInv, TypeOK, Layout, Aliased
  <2> QED
    BY <2>1, <2>2, <2>3 DEF Layout
<1>4. NoLeak'
  BY DEF IInv, TypeOK, NoLeak
<1>5. NotShared'
  BY DEF IInv, TypeOK, NotShared
<1> QED
  BY <1>2, <1>3, <1>4, <1>5 DEF IInv

-----------------------------------------------------------------------------
LEMMA NextStep ==
  ASSUME IInv, [Next]_vars PROVE IInv'
<1>1. CASE UNCHANGED vars
  BY <1>1 DEF vars, IInv, TypeOK, Layout, Fits, Aliased, NoLeak, NotShared
<1>2. ASSUME NEW s \in Strs,
             \/ str_new(s) \/ str_destroy(s) \/ AliasLocal(s) \/ EndLocal(s)
             \/ str_truncate(s) \/ ResizeFails(s) \/ VprintfFails(s)
             \/ InPlace(s) \/ str_putc(s)
             \/ \E terminator \in {"NUL", "character"} : str_set_terminator(s, terminator)
      PROVE  IInv'
  BY <1>2, NewStep, DestroyStep, LocalStep, TruncateStep, FailStep, InPlaceStep, CatStep
     DEF str_putc
<1>3. ASSUME NEW s \in Strs, NEW n \in 0..StringMax,
             \/ str_set_len(s, n) \/ str_truncate_at(s, n) \/ str_chomp(s, n)
             \/ str_resize(s, n) \/ str_cat(s, n) \/ str_ncpy(s, n) \/ Rebuild(s, n)
             \/ \E got, z \in 0..n : str_read(s, n, got, z)
      PROVE  IInv'
  <2>1. n \in Nat
    BY SizeAssumption
  <2> QED
    BY <1>3, <2>1, SetLenStep, ResizeStep, CatStep, NcpyStep, RebuildStep, ReadStep
<1>4. ASSUME NEW s \in Strs, NEW n \in 0..(StringMax + 1), str_vprintf(s, n) PROVE IInv'
  BY <1>4, VprintfStep
<1>5. ASSUME NEW s \in Strs, NEW t \in Strs,
             \/ str_append(s, t) \/ str_copy(s, t) \/ CopyFails(s, t)
             \/ str_prepend(s, t) \/ str_move(s, t) \/ str_swap(s, t)
      PROVE  IInv'
  BY <1>5, AppendStep, CopyStep, FailStep, PrependStep, MoveStep, SwapStep
<1> QED
  BY <1>1, <1>2, <1>3, <1>4, <1>5 DEF Next

(* The header and the buffer of every string agree, and no operation of    *)
(* string.c touches memory that is not its own, for any number of strings  *)
(* and any STRING_MAX.                                                     *)
THEOREM StringsInBounds == Spec => []InBounds
<1>1. IInv /\ [Next]_vars => IInv'
  BY NextStep
<1> QED
  BY <1>1, InitIInv, IInvSafe, PTL DEF Spec

(* No operation of string.c leaks a buffer or leaves it to two strings. *)
THEOREM BuffersHaveOneOwner == Spec => []BuffersOwned
<1>1. IInv /\ [Next]_vars => IInv'
  BY NextStep
<1> QED
  BY <1>1, InitIInv, IInvSafe, PTL DEF Spec

=============================================================================
