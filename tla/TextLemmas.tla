----------------------------- MODULE TextLemmas -----------------------------
(***************************************************************************)
(* What the operators of Text compute, for every text: the lemmas that the *)
(* proofs about socket_readline, hash tables and lists rest on.            *)
(*                                                                         *)
(* strsep and FlattenSeq are defined by recursion.  Each is characterised  *)
(* by what one more character, or one more sequence, does to its result    *)
(* (StrsepAppend, FlattenAppend); statements about all texts follow by     *)
(* induction over their length (SetInduction, AppendInduction).            *)
(***************************************************************************)
EXTENDS Text, SequenceTheorems, FiniteSetTheorems, WellFoundedInduction, TLAPS

(* Induction, over the set of the numbers for which a statement holds.      *)
LEMMA SetInduction ==
  ASSUME NEW T \in SUBSET Nat, 0 \in T, \A n \in T : n + 1 \in T
  PROVE  T = Nat
<1>1. SUFFICES ASSUME T # Nat PROVE FALSE
  OBVIOUS
<1> DEFINE R == OpToRel(<, Nat)
           F == Nat \ T
<1>2. IsWellFoundedOn(R, Nat)
  BY NatLessThanWellFounded
<1>3. F \subseteq Nat /\ F # {}
  BY <1>1
<1>4. \A x, y \in Nat : y < x => <<y, x>> \in R
  BY DEF OpToRel
<1> HIDE DEF F, R
<1>5. PICK x \in F : \A y \in F : ~(<<y, x>> \in R)
  BY <1>2, <1>3, WFMin
<1>6. x \in Nat
  BY <1>3
<1>7. x # 0
  BY DEF F
<1>8. x - 1 \in Nat /\ x - 1 < x /\ (x - 1) + 1 = x
  BY <1>6, <1>7
<1>9. x - 1 \notin F
  BY <1>4, <1>5, <1>6, <1>8
<1>10. QED
  BY <1>8, <1>9 DEF F

-----------------------------------------------------------------------------
(* What strsep computes. *)

(* One more character: it begins a new piece or goes to the end of the last.*)
Take(t, c, d) == IF c = d THEN Append(t, <<>>) ELSE [t EXCEPT ![Len(t)] = Append(@, c)]

(* f is the function that strsep defines, on the first m characters of s.   *)
Splits(f, s, d, m) ==
  f = [n \in 0..m |-> IF n = 0 THEN << <<>> >> ELSE Take(f[n-1], s[n], d)]

(* There is such a function, on every prefix of s.                          *)
LEMMA SplitsExists ==
  ASSUME NEW s, NEW d, NEW k \in Nat
  PROVE  \E f : Splits(f, s, d, k)
<1> DEFINE T == {m \in Nat : \E f : Splits(f, s, d, m)}
<1>1. 0 \in T
  <2> DEFINE f == [n \in 0..0 |-> << <<>> >>]
  <2>1. Splits(f, s, d, 0)
    BY DEF Splits
  <2>2. QED
    BY <2>1
<1>2. ASSUME NEW m \in T PROVE m + 1 \in T
  <2>1. m \in Nat /\ m + 1 \in Nat
    OBVIOUS
  <2>2. PICK f : Splits(f, s, d, m)
    OBVIOUS
  <2> DEFINE g == [n \in 0..(m+1) |-> IF n = m + 1 THEN Take(f[m], s[m+1], d) ELSE f[n]]
  <2>3. \A n \in 0..(m+1) : g[n] = IF n = 0 THEN << <<>> >> ELSE Take(g[n-1], s[n], d)
    <3>1. g[m+1] = Take(g[m], s[m+1], d) /\ m + 1 # 0 /\ (m + 1) - 1 = m
      BY <2>1
    <3>2. ASSUME NEW n \in 0..m PROVE g[n] = IF n = 0 THEN << <<>> >> ELSE Take(g[n-1], s[n], d)
      <4>1. f[n] = IF n = 0 THEN << <<>> >> ELSE Take(f[n-1], s[n], d)
        BY <2>2 DEF Splits
      <4>2. g[n] = f[n] /\ (n # 0 => g[n-1] = f[n-1])
        BY <2>1
      <4>3. QED
        BY <4>1, <4>2
    <3> HIDE DEF g
    <3>3. \A n \in 0..(m + 1) : n = m + 1 \/ n \in 0..m
      BY <2>1
    <3>4. QED
      BY <3>1, <3>2, <3>3
  <2>4. g = [n \in 0..(m+1) |-> g[n]]
    OBVIOUS
  <2> HIDE DEF g
  <2>5. Splits(g, s, d, m + 1)
    BY <2>3, <2>4 DEF Splits
  <2>6. QED
    BY <2>1, <2>5
<1>3. T \in SUBSET Nat
  OBVIOUS
<1> HIDE DEF T
<1>4. T = Nat
  BY <1>1, <1>2, <1>3, SetInduction
<1>5. QED
  BY <1>4 DEF T

(* The same first m elements.                                               *)
Agree(s, r, m) == \A i \in 1..m : s[i] = r[i]

(* It is unique, and for a prefix of r it gives the same.                   *)
LEMMA SplitsUnique ==
  ASSUME NEW r, NEW s, NEW d, NEW f, NEW g, NEW m \in Nat, NEW k \in Nat,
         m <= k, Agree(s, r, m), Splits(f, s, d, m), Splits(g, r, d, k)
  PROVE  f[m] = g[m]
<1> DEFINE T == {n \in Nat : n <= m => f[n] = g[n]}
<1>1. 0 \in T
  BY DEF Splits
<1>2. ASSUME NEW n \in T PROVE n + 1 \in T
  <2>1. SUFFICES ASSUME n + 1 <= m PROVE f[n + 1] = g[n + 1]
    OBVIOUS
  <2>2. f[n] = g[n] /\ s[n + 1] = r[n + 1]
    BY <2>1 DEF Agree
  <2>3. n + 1 \in 0..m /\ n + 1 \in 0..k /\ n + 1 # 0 /\ (n + 1) - 1 = n
    BY <2>1
  <2>4. f[n + 1] = Take(f[n], s[n + 1], d)
    BY <2>3 DEF Splits
  <2>5. g[n + 1] = Take(g[n], r[n + 1], d)
    BY <2>3 DEF Splits
  <2>6. QED
    BY <2>2, <2>4, <2>5
<1> HIDE DEF T
<1>3. T \in SUBSET Nat
  BY DEF T
<1>4. T = Nat
  BY <1>1, <1>2, <1>3, SetInduction
<1>5. QED
  BY <1>4 DEF T

(* strsep returns the value of that function.                               *)
LEMMA StrsepSplits ==
  ASSUME NEW A, NEW s \in Seq(A), NEW d
  PROVE  \E f : Splits(f, s, d, Len(s)) /\ strsep(s, d) = f[Len(s)]
<1> DEFINE tok == CHOOSE g : Splits(g, s, d, Len(s))
<1>1. Len(s) \in Nat
  OBVIOUS
<1>2. Splits(tok, s, d, Len(s))
  BY <1>1, SplitsExists
<1>3. strsep(s, d) = tok[Len(s)]
  BY DEF strsep, Splits, Take
<1> HIDE DEF tok
<1>4. QED
  BY <1>2, <1>3

(* No character, no delimiter: one piece.                                   *)
LEMMA StrsepEmpty ==
  ASSUME NEW d
  PROVE  strsep(<<>>, d) = << <<>> >>
<1> DEFINE e == <<>>
<1>1. e \in Seq({}) /\ Len(e) = 0
  OBVIOUS
<1> HIDE DEF e
<1>2. PICK f : Splits(f, e, d, Len(e)) /\ strsep(e, d) = f[Len(e)]
  BY <1>1, StrsepSplits
<1>3. strsep(e, d) = << <<>> >>
  BY <1>1, <1>2 DEF Splits
<1>4. QED
  BY <1>3 DEF e

(* One more character.                                                      *)
LEMMA StrsepAppend ==
  ASSUME NEW A, NEW s \in Seq(A), NEW c \in A, NEW d
  PROVE  strsep(Append(s, c), d) = Take(strsep(s, d), c, d)
<1> DEFINE r == Append(s, c)
           l == Len(s)
<1>1. /\ r \in Seq(A) /\ Len(r) = l + 1 /\ r[l + 1] = c /\ \A i \in 1..l : s[i] = r[i]
      /\ l \in Nat /\ l + 1 \in Nat /\ l <= l + 1
  OBVIOUS
<1> HIDE DEF r
<1>2. PICK f : Splits(f, s, d, l) /\ strsep(s, d) = f[l]
  BY StrsepSplits
<1> HIDE DEF l
<1>3. PICK k \in Nat : k = l + 1 /\ l <= k /\ Len(r) = k
  BY <1>1
<1>4. PICK g : Splits(g, r, d, k) /\ strsep(r, d) = g[k]
  BY <1>1, <1>3, StrsepSplits
<1>5. f[l] = g[l]
  <2>1. Agree(s, r, l) /\ l \in Nat
    BY <1>1 DEF Agree
  <2>2. QED
    BY <1>2, <1>3, <1>4, <2>1, SplitsUnique
<1>6. g[k] = Take(g[l], c, d)
  <2>1. k \in 0..k /\ k # 0 /\ k - 1 = l /\ r[k] = c
    BY <1>1, <1>3
  <2>2. QED
    BY <1>4, <2>1 DEF Splits
<1>7. QED
  BY <1>2, <1>4, <1>5, <1>6 DEF r

(* Induction over sequences, from the front to the end.                     *)
LEMMA AppendInduction ==
  ASSUME NEW A, NEW T \in SUBSET Seq(A), <<>> \in T,
         \A s \in T, c \in A : Append(s, c) \in T
  PROVE  T = Seq(A)
<1> DEFINE N == {n \in Nat : \A s \in Seq(A) : Len(s) = n => s \in T}
<1>1. 0 \in N
  <2>1. \A s \in Seq(A) : Len(s) = 0 => s = <<>>
    BY EmptySeq
  <2>2. QED
    BY <2>1
<1>2. ASSUME NEW n \in N PROVE n + 1 \in N
  <2>1. SUFFICES ASSUME NEW s \in Seq(A), Len(s) = n + 1 PROVE s \in T
    OBVIOUS
  <2>2. s # <<>>
    BY <2>1, EmptySeq
  <2>3. PICK r \in Seq(A), c \in A : s = Append(r, c)
    BY <2>2, SequenceEmptyOrAppend
  <2>4. Len(r) = n
    BY <2>1, <2>3, AppendProperties
  <2>5. r \in T
    BY <2>4
  <2>6. QED
    BY <2>3, <2>5
<1>3. N \in SUBSET Nat
  OBVIOUS
<1> HIDE DEF N
<1>4. N = Nat
  BY <1>1, <1>2, <1>3, SetInduction
<1>5. QED
  BY <1>4, LenProperties DEF N

-----------------------------------------------------------------------------
(* Front, Last and FlattenSeq. *)

(* Front drops the last element.                                            *)
LEMMA FrontLast ==
  ASSUME NEW S, NEW s \in Seq(S), s # <<>>
  PROVE  /\ Front(s) \in Seq(S)
         /\ Last(s) \in S /\ Last(s) = s[Len(s)]
         /\ Len(s) \in Nat \ {0} /\ Len(Front(s)) = Len(s) - 1
         /\ \A i \in 1..(Len(s) - 1) : Front(s)[i] = s[i]
<1>1. Len(s) \in Nat \ {0}
  BY EmptySeq
<1>2. \A i \in 1..Len(s) : s[i] \in S
  BY ElementOfSeq
<1>3. \A i \in 1..(Len(s) - 1) : s[i] \in S
  BY <1>1, <1>2
<1>4. Last(s) = s[Len(s)] /\ Last(s) \in S
  BY <1>1, <1>2 DEF Last
<1> DEFINE n == Len(s) - 1
<1>5. n \in Nat
  BY <1>1
<1> HIDE DEF n
<1>6. /\ SubSeq(s, 1, n) \in Seq(S)
      /\ Len(SubSeq(s, 1, n)) = n
      /\ \A i \in 1..n : SubSeq(s, 1, n)[i] = s[1 + i - 1]
  <2>1. /\ SubSeq(s, 1, n) \in Seq(S)
        /\ Len(SubSeq(s, 1, n)) = IF 1 <= n THEN n - 1 + 1 ELSE 0
        /\ \A i \in 1..(n - 1 + 1) : SubSeq(s, 1, n)[i] = s[1 + i - 1]
    BY <1>3, <1>5, SubSeqProperties DEF n
  <2>2. n - 1 + 1 = n /\ (~(1 <= n) => n = 0)
    BY <1>5
  <2>3. QED
    BY <2>1, <2>2
<1>7. \A i \in 1..n : 1 + i - 1 = i
  BY <1>5
<1>8. Front(s) = SubSeq(s, 1, n)
  BY DEF Front, n
<1>9. \A i \in 1..n : Front(s)[i] = s[i]
  BY <1>6, <1>7, <1>8
<1>10. QED
  BY <1>1, <1>4, <1>6, <1>8, <1>9 DEF n

(* ... and Append puts one behind.                                          *)
LEMMA AppendFront ==
  ASSUME NEW S, NEW s \in Seq(S), NEW c \in S
  PROVE  Front(Append(s, c)) = s /\ Last(Append(s, c)) = c /\ Append(s, c) \in Seq(S)
<1> DEFINE t == Append(s, c)
<1>1. /\ t \in Seq(S) /\ t # <<>> /\ Len(t) = Len(s) + 1 /\ t[Len(s) + 1] = c
      /\ \A i \in 1..Len(s) : t[i] = s[i]
      /\ Len(s) \in Nat
  BY AppendProperties, LenProperties
<1> HIDE DEF t
<1>2. /\ Front(t) \in Seq(S) /\ Last(t) = t[Len(t)] /\ Len(Front(t)) = Len(t) - 1
      /\ \A i \in 1..(Len(t) - 1) : Front(t)[i] = t[i]
  BY <1>1, FrontLast
<1>3. Len(t) - 1 = Len(s)
  BY <1>1
<1>4. Len(Front(t)) = Len(s) /\ \A i \in 1..Len(s) : Front(t)[i] = s[i]
  BY <1>1, <1>2, <1>3
<1>5. Front(t) = s
  BY <1>2, <1>4, SeqEqual
<1>6. QED
  BY <1>1, <1>2, <1>5 DEF t

(* f is the function that FlattenSeq defines, on the first m sequences.     *)
Flattens(f, S, m) == f = [i \in 1..m |-> IF i = 1 THEN S[i] ELSE f[i-1] \o S[i]]

(* There is such a function.                                                *)
LEMMA FlattensExists ==
  ASSUME NEW S, NEW k \in Nat
  PROVE  \E f : Flattens(f, S, k)
<1> DEFINE T == {m \in Nat : \E f : Flattens(f, S, m)}
<1>1. 0 \in T
  <2> DEFINE f == [n \in 1..0 |-> IF n = 1 THEN S[n] ELSE S[n]]
  <2>1. Flattens(f, S, 0)
    BY DEF Flattens
  <2>2. QED
    BY <2>1
<1>2. ASSUME NEW m \in T PROVE m + 1 \in T
  <2>1. m \in Nat /\ m + 1 \in Nat
    OBVIOUS
  <2>2. PICK f : Flattens(f, S, m)
    OBVIOUS
  <2> DEFINE g == [n \in 1..(m+1) |-> IF n = 1 THEN S[1]
                                      ELSE IF n = m + 1 THEN f[m] \o S[m+1] ELSE f[n]]
  <2>3. \A n \in 1..(m+1) : g[n] = IF n = 1 THEN S[n] ELSE g[n-1] \o S[n]
    <3>0. \A n \in 1..m : f[n] = IF n = 1 THEN S[n] ELSE f[n-1] \o S[n]
      BY <2>2 DEF Flattens
    <3>1. \A n \in 1..m : g[n] = f[n]
      BY <2>1, <3>0
    <3>2. g[1] = S[1]
      BY <2>1
    <3>3. ASSUME NEW n \in 1..(m+1), n # 1 PROVE g[n] = g[n-1] \o S[n]
      <4>1. n - 1 \in 1..m /\ (n = m + 1 => n - 1 = m) /\ (n # m + 1 => n \in 1..m)
        BY <2>1, <3>3
      <4>2. g[n-1] = f[n-1]
        BY <3>1, <4>1
      <4>3. CASE n = m + 1
        <5>1. g[n] = f[m] \o S[n]
          BY <3>3, <4>3
        <5> HIDE DEF g
        <5>2. QED
          BY <4>1, <4>2, <4>3, <5>1
      <4>4. CASE n # m + 1
        <5>1. g[n] = f[n] /\ f[n] = f[n-1] \o S[n]
          BY <3>0, <3>1, <3>3, <4>1, <4>4
        <5> HIDE DEF g
        <5>2. QED
          BY <4>2, <5>1
      <4>5. QED
        BY <4>3, <4>4
    <3> HIDE DEF g
    <3>4. QED
      BY <3>2, <3>3
  <2>4. g = [n \in 1..(m+1) |-> g[n]]
    OBVIOUS
  <2> HIDE DEF g
  <2>5. Flattens(g, S, m + 1)
    BY <2>3, <2>4 DEF Flattens
  <2>6. QED
    BY <2>1, <2>5
<1>3. T \in SUBSET Nat
  OBVIOUS
<1> HIDE DEF T
<1>4. T = Nat
  BY <1>1, <1>2, <1>3, SetInduction
<1>5. QED
  BY <1>4 DEF T

(* It is unique, and for a prefix of R it gives the same.                   *)
LEMMA FlattensUnique ==
  ASSUME NEW S, NEW R, NEW f, NEW g, NEW m \in Nat, NEW k \in Nat,
         m <= k, Agree(S, R, m), Flattens(f, S, m), Flattens(g, R, k), m # 0
  PROVE  f[m] = g[m]
<1> DEFINE T == {n \in Nat : n # 0 /\ n <= m => f[n] = g[n]}
<1>1. 0 \in T
  OBVIOUS
<1>2. ASSUME NEW n \in T PROVE n + 1 \in T
  <2>1. SUFFICES ASSUME n + 1 <= m PROVE f[n + 1] = g[n + 1]
    OBVIOUS
  <2>2. n + 1 \in 1..m /\ n + 1 \in 1..k /\ (n + 1) - 1 = n /\ (n + 1 = 1 <=> n = 0) /\ n \in Nat
    BY <2>1
  <2>3. S[n + 1] = R[n + 1]
    BY <2>2 DEF Agree
  <2>4. f[n + 1] = IF n = 0 THEN S[n + 1] ELSE f[n] \o S[n + 1]
    BY <2>2 DEF Flattens
  <2>5. g[n + 1] = IF n = 0 THEN R[n + 1] ELSE g[n] \o R[n + 1]
    BY <2>2 DEF Flattens
  <2>6. n # 0 => f[n] = g[n]
    BY <2>1, <2>2
  <2>7. QED
    BY <2>3, <2>4, <2>5, <2>6
<1> HIDE DEF T
<1>3. T \in SUBSET Nat
  BY DEF T
<1>4. T = Nat
  BY <1>1, <1>2, <1>3, SetInduction
<1>5. QED
  BY <1>4 DEF T

(* FlattenSeq is its last value.                                            *)
LEMMA FlattenIs ==
  ASSUME NEW A, NEW S \in Seq(A), Len(S) # 0
  PROVE  \E f : Flattens(f, S, Len(S)) /\ FlattenSeq(S) = f[Len(S)]
<1> DEFINE flatten == CHOOSE g : Flattens(g, S, Len(S))
<1>1. Len(S) \in Nat
  OBVIOUS
<1>2. Flattens(flatten, S, Len(S))
  BY <1>1, FlattensExists
<1>3. FlattenSeq(S) = flatten[Len(S)]
  BY DEF FlattenSeq, Flattens
<1> HIDE DEF flatten
<1>4. QED
  BY <1>2, <1>3

(* One more sequence.                                                       *)
LEMMA FlattenAppend ==
  ASSUME NEW A, NEW S \in Seq(Seq(A)), NEW x \in Seq(A)
  PROVE  FlattenSeq(Append(S, x)) = FlattenSeq(S) \o x
<1> DEFINE R == Append(S, x)
           l == Len(S)
<1>1. /\ R \in Seq(Seq(A)) /\ Len(R) = l + 1 /\ R[l + 1] = x /\ \A i \in 1..l : S[i] = R[i]
      /\ l \in Nat
  OBVIOUS
<1> HIDE DEF R
<1>2. S = <<>> <=> l = 0
  BY EmptySeq
<1>3. PICK k \in Nat : k = l + 1 /\ l <= k /\ Len(R) = k /\ k # 0
  BY <1>1
<1>4. PICK g : Flattens(g, R, k) /\ FlattenSeq(R) = g[k]
  BY <1>1, <1>3, FlattenIs
<1>5. k \in 1..k /\ k - 1 = l /\ R[k] = x
  BY <1>1, <1>3
<1>6. CASE l = 0
  <2>1. FlattenSeq(S) = S
    BY <1>6 DEF FlattenSeq
  <2>2. FlattenSeq(R) = x
    BY <1>3, <1>4, <1>5, <1>6 DEF Flattens
  <2>3. QED
    BY <1>2, <1>6, <2>1, <2>2, ConcatEmptySeq DEF R
<1>7. CASE l # 0
  <2>1. PICK f : Flattens(f, S, l) /\ FlattenSeq(S) = f[l]
    BY <1>7, FlattenIs
  <2>2. Agree(S, R, l)
    BY <1>1 DEF Agree
  <2> HIDE DEF l
  <2>3. f[l] = g[l]
    <3>1. l \in Nat /\ l <= k /\ l # 0
      BY <1>1, <1>3, <1>7
    <3>2. Flattens(f, S, l) /\ Flattens(g, R, k)
      BY <1>4, <2>1
    <3>3. QED
      BY <2>2, <3>1, <3>2, FlattensUnique
  <2>4. g[k] = g[l] \o x
    <3>1. k # 1
      BY <1>3, <1>7, <1>1
    <3>2. QED
      BY <1>4, <1>5, <3>1 DEF Flattens
  <2>5. QED
    BY <1>4, <2>1, <2>3, <2>4 DEF R
<1>8. QED
  BY <1>6, <1>7

-----------------------------------------------------------------------------
(* Words put together with a delimiter, and taken apart again. *)

(* A sequence with s before and c at the end.                               *)
LEMMA AppendIs ==
  ASSUME NEW S, NEW s \in Seq(S), NEW c \in S, NEW t \in Seq(S), NEW n, n = Len(s),
         Len(t) = n + 1, t[n + 1] = c, \A i \in 1..n : t[i] = s[i]
  PROVE  t = Append(s, c)
<1> DEFINE r == Append(s, c)
<1>1. /\ r \in Seq(S) /\ Len(r) = n + 1 /\ r[n + 1] = c /\ n \in Nat
      /\ \A i \in 1..n : r[i] = s[i]
  BY AppendProperties, LenProperties
<1> HIDE DEF r
<1>2. \A i \in 1..(n + 1) : i = n + 1 \/ i \in 1..n
  BY <1>1
<1>3. \A i \in 1..Len(t) : t[i] = r[i]
  BY <1>1, <1>2
<1>4. t = r
  BY <1>1, <1>3, SeqEqual
<1>5. QED
  BY <1>4 DEF r

(* d is a character that the words over B do not contain.                   *)
Delimits(d, B, A) == B \subseteq A /\ d \in A /\ d \notin B

(* Words are texts.                                                         *)
LEMMA WordsAreTexts ==
  ASSUME NEW A, NEW B, NEW d, Delimits(d, B, A)
  PROVE  Seq(B) \subseteq Seq(A) /\ Seq(Seq(B)) \subseteq Seq(Seq(A))
BY SeqMonotonic DEF Delimits

(* The pieces of u are those of R and one that is empty.                    *)
Open(u, R, d, A) == u \in Seq(A) /\ R \in Seq(Seq(A)) /\ strsep(u, d) = Append(R, <<>>)

(* Characters other than the delimiter make the last piece longer.          *)
LEMMA PieceFilled ==
  ASSUME NEW A, NEW B, NEW d, Delimits(d, B, A), NEW u, NEW R, Open(u, R, d, A), NEW x \in Seq(B)
  PROVE  u \o x \in Seq(A) /\ strsep(u \o x, d) = Append(R, x)
<1> DEFINE T == {y \in Seq(B) : strsep(u \o y, d) = Append(R, y)}
<1>0. u \in Seq(A) /\ R \in Seq(Seq(A)) /\ strsep(u, d) = Append(R, <<>>) /\ Seq(B) \subseteq Seq(A)
  BY WordsAreTexts DEF Open
<1>1. <<>> \in T
  <2>1. <<>> \in Seq(B) /\ u \o <<>> = u
    BY <1>0, ConcatEmptySeq
  <2>2. QED
    BY <1>0, <2>1
<1>2. ASSUME NEW y \in T, NEW c \in B PROVE Append(y, c) \in T
  <2>1. y \in Seq(B) /\ y \in Seq(A) /\ c \in A /\ c # d /\ strsep(u \o y, d) = Append(R, y)
    BY <1>0 DEF Delimits
  <2>2. u \o y \in Seq(A) /\ u \o Append(y, c) = Append(u \o y, c)
    BY <1>0, <2>1
  <2>3. strsep(u \o Append(y, c), d) = Take(Append(R, y), c, d)
    BY <2>1, <2>2, StrsepAppend
  <2> DEFINE r == Append(R, y)
  <2>4. /\ r \in Seq(Seq(A)) /\ Len(r) = Len(R) + 1 /\ r[Len(R) + 1] = y
        /\ Len(R) \in Nat /\ \A i \in 1..Len(R) : r[i] = R[i]
    BY <1>0, <2>1
  <2>5. Take(r, c, d) = [r EXCEPT ![Len(R) + 1] = Append(y, c)]
    BY <2>1, <2>4 DEF Take
  <2>6. [r EXCEPT ![Len(R) + 1] = Append(y, c)] = Append(R, Append(y, c))
    <3>1. PICK n : n = Len(R)
      OBVIOUS
    <3>2. PICK z : z = Append(y, c)
      OBVIOUS
    <3>3. z \in Seq(A) /\ n \in Nat /\ n + 1 \in 1..Len(r)
      BY <2>1, <2>4, <3>1, <3>2
    <3>4. PICK t : t = [r EXCEPT ![n + 1] = z]
      OBVIOUS
    <3> HIDE DEF r
    <3>5. /\ t \in Seq(Seq(A)) /\ Len(t) = n + 1 /\ t[n + 1] = z
          /\ \A i \in 1..n : t[i] = R[i]
      BY <2>4, <3>1, <3>3, <3>4, ExceptSeq
    <3>6. t = Append(R, z)
      BY <1>0, <3>1, <3>3, <3>5, AppendIs
    <3>7. QED
      BY <3>1, <3>2, <3>4, <3>6
  <2>7. Append(y, c) \in Seq(B)
    BY <2>1
  <2>8. QED
    BY <2>3, <2>5, <2>6, <2>7
<1>3. T \in SUBSET Seq(B)
  OBVIOUS
<1> HIDE DEF T
<1>4. T = Seq(B)
  BY <1>1, <1>2, <1>3, AppendInduction
<1>5. u \o x \in Seq(A)
  BY <1>0
<1>6. QED
  BY <1>4, <1>5 DEF T

(* The words with a delimiter after each.                                   *)
Delimited(W, d) == [i \in 1..Len(W) |-> Append(W[i], d)]

(* One more word.                                                           *)
LEMMA DelimitedAppend ==
  ASSUME NEW A, NEW B, NEW d, Delimits(d, B, A), NEW W \in Seq(Seq(B)), NEW x \in Seq(B)
  PROVE  /\ Delimited(W, d) \in Seq(Seq(A)) /\ Len(Delimited(W, d)) = Len(W)
         /\ Delimited(Append(W, x), d) = Append(Delimited(W, d), Append(x, d))
<1> DEFINE D == Delimited(W, d)
           V == Append(W, x)
           n == Len(W)
<1>1. /\ V \in Seq(Seq(B)) /\ Len(V) = n + 1 /\ V[n + 1] = x /\ n \in Nat
      /\ \A i \in 1..n : V[i] = W[i] /\ W[i] \in Seq(B)
  OBVIOUS
<1>2. \A y \in Seq(B) : Append(y, d) \in Seq(A)
  BY WordsAreTexts DEF Delimits
<1>3. D \in Seq(Seq(A)) /\ Len(D) = n /\ \A i \in 1..n : D[i] = Append(W[i], d)
  BY <1>1, <1>2 DEF Delimited
<1> HIDE DEF V, D
<1>4. PICK t : t = Delimited(V, d)
  OBVIOUS
<1>5. PICK z : z = Append(x, d)
  OBVIOUS
<1>6. z \in Seq(A) /\ \A i \in 1..(n + 1) : V[i] \in Seq(B) /\ Append(V[i], d) \in Seq(A)
  BY <1>1, <1>2, <1>5
<1>7. t \in Seq(Seq(A)) /\ Len(t) = n + 1 /\ \A i \in 1..(n + 1) : t[i] = Append(V[i], d)
  BY <1>1, <1>4, <1>6 DEF Delimited
<1>8. t[n + 1] = z /\ \A i \in 1..n : t[i] = D[i]
  <2>1. n + 1 \in 1..(n + 1) /\ \A i \in 1..n : i \in 1..(n + 1)
    BY <1>1
  <2> HIDE DEF n
  <2>2. QED
    BY <1>1, <1>3, <1>5, <1>7, <2>1
<1> HIDE DEF n
<1>9. t = Append(D, z)
  BY <1>3, <1>6, <1>7, <1>8, AppendIs
<1>10. QED
  BY <1>3, <1>4, <1>5, <1>9 DEF D, V, n

(* The words come apart, and nothing stands after the last delimiter.       *)
LEMMA DelimitedSplit ==
  ASSUME NEW A, NEW B, NEW d, Delimits(d, B, A), NEW W \in Seq(Seq(B))
  PROVE  Open(FlattenSeq(Delimited(W, d)), W, d, A)
<1> DEFINE F(V) == FlattenSeq(Delimited(V, d))
           T == {V \in Seq(Seq(B)) : Open(F(V), V, d, A)}
<1>1. <<>> \in T
  <2>1. Delimited(<<>>, d) = <<>>
    BY DEF Delimited
  <2>2. F(<<>>) = <<>>
    BY <2>1 DEF FlattenSeq
  <2>3. strsep(<<>>, d) = << <<>> >> /\ Append(<<>>, <<>>) = << <<>> >>
    BY StrsepEmpty
  <2>4. <<>> \in Seq(A) /\ <<>> \in Seq(Seq(B)) /\ <<>> \in Seq(Seq(A))
    OBVIOUS
  <2> HIDE DEF F
  <2>5. Open(F(<<>>), <<>>, d, A)
    BY <2>2, <2>3, <2>4 DEF Open
  <2>6. QED
    BY <2>4, <2>5
<1>2. ASSUME NEW V \in T, NEW x \in Seq(B) PROVE Append(V, x) \in T
  <2>1. V \in Seq(Seq(B)) /\ Open(F(V), V, d, A)
    OBVIOUS
  <2>2. x \in Seq(A) /\ V \in Seq(Seq(A)) /\ d \in A /\ Append(x, d) \in Seq(A)
    BY <2>1, WordsAreTexts DEF Delimits
  <2>3. /\ Delimited(V, d) \in Seq(Seq(A))
        /\ Delimited(Append(V, x), d) = Append(Delimited(V, d), Append(x, d))
    BY <2>1, DelimitedAppend
  <2>4. F(Append(V, x)) = F(V) \o Append(x, d)
    BY <2>2, <2>3, FlattenAppend
  <2> HIDE DEF F
  <2>5. F(V) \o x \in Seq(A) /\ strsep(F(V) \o x, d) = Append(V, x)
    BY <2>1, PieceFilled
  <2>6. F(V) \o Append(x, d) = Append(F(V) \o x, d) /\ Append(F(V) \o x, d) \in Seq(A)
    <3>1. F(V) \in Seq(A)
      BY <2>1 DEF Open
    <3>2. QED
      BY <2>2, <3>1
  <2>7. strsep(Append(F(V) \o x, d), d) = Take(Append(V, x), d, d)
    BY <2>2, <2>5, StrsepAppend
  <2>8. Append(V, x) \in Seq(Seq(B)) /\ Append(V, x) \in Seq(Seq(A))
    BY <2>1, <2>2
  <2>9. Open(F(Append(V, x)), Append(V, x), d, A)
    BY <2>4, <2>6, <2>7, <2>8 DEF Take, Open
  <2>10. QED
    BY <2>8, <2>9
<1>3. T \in SUBSET Seq(Seq(B))
  OBVIOUS
<1> HIDE DEF T
<1>4. T = Seq(Seq(B))
  BY <1>1, <1>2, <1>3, AppendInduction
<1>5. QED
  BY <1>4 DEF T

(* The words with delimiters between them, as str_join puts them.           *)
Joined(W, d) == FlattenSeq([i \in 1..Len(W) |-> IF i < Len(W) THEN Append(W[i], d) ELSE W[i]])

(* They come apart as they were.                                            *)
LEMMA JoinedSplit ==
  ASSUME NEW A, NEW B, NEW d, Delimits(d, B, A), NEW W \in Seq(Seq(B)), W # <<>>
  PROVE  Joined(W, d) \in Seq(A) /\ strsep(Joined(W, d), d) = W
<1> DEFINE n == Len(W) - 1
<1>1. PICK V : V = Front(W)
  OBVIOUS
<1>2. PICK x : x = Last(W)
  OBVIOUS
<1>3. /\ V \in Seq(Seq(B)) /\ x \in Seq(B) /\ x = W[Len(W)] /\ Len(W) \in Nat \ {0}
      /\ Len(V) = n /\ \A i \in 1..n : V[i] = W[i]
  BY <1>1, <1>2, FrontLast
<1>4. n \in Nat /\ Len(W) = n + 1
  BY <1>3
<1> HIDE DEF n
<1>5. W = Append(V, x)
  BY <1>3, <1>4, AppendIs
<1>6. PICK D : D = Delimited(V, d)
  OBVIOUS
<1>7. D \in Seq(Seq(A)) /\ Len(D) = n
  BY <1>3, <1>6, DelimitedAppend
<1>8. ASSUME NEW i \in 1..n PROVE D[i] = Append(W[i], d) /\ D[i] \in Seq(A)
  <2>1. i \in 1..Len(V)
    BY <1>3
  <2>2. D[i] = Append(V[i], d)
    BY <1>6, <2>1 DEF Delimited
  <2>3. QED
    BY <1>3, <1>7, <2>2, ElementOfSeq
<1>9. x \in Seq(A)
  BY <1>3, WordsAreTexts
<1>10. PICK J : J = [i \in 1..Len(W) |-> IF i < Len(W) THEN Append(W[i], d) ELSE W[i]]
  OBVIOUS
<1>11. ASSUME NEW i \in 1..(n + 1)
       PROVE  (IF i < Len(W) THEN Append(W[i], d) ELSE W[i]) = IF i = n + 1 THEN x ELSE D[i]
  <2>1. CASE i = n + 1
    BY <1>3, <1>4, <2>1
  <2>2. CASE i # n + 1
    <3>1. i < Len(W) /\ i \in 1..n
      BY <1>4, <2>2
    <3>2. QED
      BY <1>8, <2>2, <3>1
  <2>3. QED
    BY <2>1, <2>2
<1>12. J = [i \in 1..(n + 1) |-> IF i = n + 1 THEN x ELSE D[i]]
  BY <1>4, <1>10, <1>11
<1>13. J \in Seq(Seq(A)) /\ Len(J) = n + 1 /\ J[n + 1] = x /\ \A i \in 1..n : J[i] = D[i]
  BY <1>4, <1>8, <1>9, <1>12
<1>14. J = Append(D, x)
  BY <1>7, <1>9, <1>13, AppendIs
<1>15. Open(FlattenSeq(D), V, d, A)
  BY <1>3, <1>6, DelimitedSplit
<1>16. Joined(W, d) = FlattenSeq(D) \o x
  <2>1. FlattenSeq(Append(D, x)) = FlattenSeq(D) \o x
    BY <1>7, <1>9, FlattenAppend
  <2>2. QED
    BY <1>10, <1>14, <2>1 DEF Joined
<1>17. FlattenSeq(D) \o x \in Seq(A) /\ strsep(FlattenSeq(D) \o x, d) = Append(V, x)
  BY <1>3, <1>15, PieceFilled
<1>18. QED
  BY <1>5, <1>16, <1>17

(* Nothing is made of no words, and of one word that is empty.              *)
LEMMA JoinedEmpty ==
  ASSUME NEW A, NEW B, NEW d, Delimits(d, B, A), NEW W \in Seq(Seq(B))
  PROVE  Joined(W, d) = <<>> <=> (W = <<>> \/ W = << <<>> >>)
<1>1. ASSUME W = <<>> PROVE Joined(W, d) = <<>>
  BY <1>1 DEF Joined, FlattenSeq
<1>2. ASSUME W = << <<>> >> PROVE Joined(W, d) = <<>>
  <2>1. [i \in 1..Len(W) |-> IF i < Len(W) THEN Append(W[i], d) ELSE W[i]] = Append(<<>>, <<>>)
    BY <1>2
  <2>2. <<>> \in Seq(Seq(B)) /\ <<>> \in Seq(B)
    OBVIOUS
  <2>3. FlattenSeq(Append(<<>>, <<>>)) = FlattenSeq(<<>>) \o <<>>
    BY <2>2, FlattenAppend
  <2>4. FlattenSeq(<<>>) = <<>>
    BY DEF FlattenSeq
  <2>5. <<>> \o <<>> = <<>>
    BY <2>2, ConcatEmptySeq
  <2>6. QED
    BY <2>1, <2>3, <2>4, <2>5 DEF Joined
<1>3. ASSUME Joined(W, d) = <<>>, W # <<>> PROVE W = << <<>> >>
  <2>1. strsep(Joined(W, d), d) = W
    BY <1>3, JoinedSplit
  <2>2. QED
    BY <1>3, <2>1, StrsepEmpty
<1>4. QED
  BY <1>1, <1>2, <1>3

(* A text without line feeds and carriage returns has nothing to be chomped.*)
LEMMA NothingToChomp ==
  ASSUME NEW B, LF \notin B, CR \notin B, NEW s \in Seq(B)
  PROVE  str_chomp(s) = s
<1>1. s # <<>> => Last(s) \in B
  BY FrontLast
<1>2. QED
  BY <1>1 DEF str_chomp

(* What str_join makes of lines, str_split takes apart; of no lines it makes *)
(* an empty one.                                                             *)
LEMMA LinesRead ==
  ASSUME NEW B, LF \notin B, CR \notin B, NEW W \in Seq(Seq(B))
  PROVE  str_split(str_join(W, LF), LF) = IF W = <<>> THEN << <<>> >> ELSE W
<1> DEFINE A == B \cup {LF}
<1>0. Delimits(LF, B, A)
  BY DEF Delimits
<1>1. PICK u : u = Joined(W, LF)
  OBVIOUS
<1>2. str_join(W, LF) = u \o <<LF>>
  BY <1>1 DEF str_join, Joined
<1>3. u \in Seq(A) /\ strsep(u, LF) = IF W = <<>> THEN << <<>> >> ELSE W
  <2> HIDE DEF A
  <2>1. CASE W = <<>>
    <3>1. u = <<>>
      BY <1>0, <1>1, <2>1, JoinedEmpty
    <3>2. QED
      BY <2>1, <3>1, StrsepEmpty
  <2>2. CASE W # <<>>
    BY <1>0, <1>1, <2>2, JoinedSplit
  <2>3. QED
    BY <2>1, <2>2
<1>4. u \o <<LF>> = Append(u, LF) /\ LF \in A
  BY <1>3
<1>5. Append(u, LF) # <<>> /\ Last(Append(u, LF)) = LF /\ Front(Append(u, LF)) = u
  BY <1>3, <1>4, AppendFront, AppendProperties
<1>6. u # <<>> => Last(u) # CR
  <2>1. CR \notin A
    BY DEF CR, LF
  <2>2. QED
    BY <1>3, <2>1, FrontLast
<1>7. str_chomp(Append(u, LF)) = u
  BY <1>5, <1>6 DEF str_chomp
<1>8. PICK tok : tok = strsep(u, LF)
  OBVIOUS
<1>9. tok \in Seq(Seq(B))
  <2>1. << <<>> >> \in Seq(Seq(B))
    OBVIOUS
  <2>2. QED
    BY <1>3, <1>8, <2>1
<1>10. \A n \in 1..Len(tok) : str_chomp(tok[n]) = tok[n]
  BY <1>9, NothingToChomp
<1>11. [n \in 1..Len(tok) |-> str_chomp(tok[n])] = tok
  BY <1>9, <1>10
<1>12. str_split(Append(u, LF), LF) = [n \in 1..Len(tok) |-> str_chomp(tok[n])]
  BY <1>5, <1>7, <1>8 DEF str_split
<1>13. QED
  BY <1>2, <1>3, <1>4, <1>8, <1>11, <1>12

-----------------------------------------------------------------------------
(* Texts escaped, and unescaped again. *)

ByteValues == 1..255
EscChars == Unreserved \cup {PERCENT}

(* What str_escape writes for a character.                                  *)
Escaped(c) == IF c \in Unreserved THEN <<c>>
              ELSE <<PERCENT, HexDigit(c \div 16), HexDigit(c % 16)>>

(* A hexadecimal digit is read as what it was written for.                  *)
LEMMA HexRead ==
  ASSUME NEW n \in 0..15
  PROVE  /\ HexDigit(n) \in EscChars /\ IsHex(HexDigit(n)) /\ HexValue(HexDigit(n)) = n
<1>1. CASE n < 10
  <2>1. HexDigit(n) \in Digits
    BY <1>1 DEF HexDigit, Digits
  <2>2. HexValue(HexDigit(n)) = n
    BY <1>1 DEF HexDigit, HexValue, Digits
  <2>3. QED
    BY <2>1, <2>2 DEF EscChars, Unreserved, IsHex
<1>2. CASE n >= 10
  <2>1. HexDigit(n) \in 97..102
    BY <1>2 DEF HexDigit
  <2>2. HexDigit(n) \in Letters
    BY <2>1 DEF Letters
  <2>3. HexValue(HexDigit(n)) = n
    BY <1>2, <2>1 DEF HexDigit, HexValue, Digits
  <2>4. QED
    BY <2>1, <2>2, <2>3 DEF EscChars, Unreserved, IsHex
<1>3. QED
  BY <1>1, <1>2

(* A byte has two hexadecimal digits.                                       *)
LEMMA ByteDigits ==
  ASSUME NEW c \in ByteValues
  PROVE  c \div 16 \in 0..15 /\ c % 16 \in 0..15 /\ c = 16 * (c \div 16) + (c % 16)
BY SMTT(30) DEF ByteValues

(* What is written for a character, and no blank is.                        *)
LEMMA EscapedIs ==
  ASSUME NEW c \in ByteValues
  PROVE  /\ Escaped(c) \in Seq(EscChars) /\ Len(Escaped(c)) \in {1, 3}
         /\ SPACE \notin EscChars /\ LF \notin EscChars /\ CR \notin EscChars
         /\ \/ Len(Escaped(c)) = 1 /\ Escaped(c)[1] = c /\ c # PERCENT
            \/ /\ Len(Escaped(c)) = 3 /\ Escaped(c)[1] = PERCENT
               /\ IsHex(Escaped(c)[2]) /\ IsHex(Escaped(c)[3])
               /\ 16 * HexValue(Escaped(c)[2]) + HexValue(Escaped(c)[3]) = c
<1>1. SPACE \notin EscChars /\ LF \notin EscChars /\ CR \notin EscChars /\ PERCENT \notin Unreserved
  BY DEF SPACE, LF, CR, PERCENT, EscChars, Unreserved, Digits, Letters
<1>2. CASE c \in Unreserved
  <2>1. Escaped(c) = <<c>> /\ c \in EscChars /\ c # PERCENT
    BY <1>1, <1>2 DEF Escaped, EscChars
  <2>2. QED
    BY <1>1, <2>1
<1>3. CASE c \notin Unreserved
  <2>1. PICK h : h = HexDigit(c \div 16)
    OBVIOUS
  <2>2. PICK l : l = HexDigit(c % 16)
    OBVIOUS
  <2>3. Escaped(c) = <<PERCENT, h, l>>
    BY <1>3, <2>1, <2>2 DEF Escaped
  <2>4. /\ h \in EscChars /\ IsHex(h) /\ HexValue(h) = c \div 16
        /\ l \in EscChars /\ IsHex(l) /\ HexValue(l) = c % 16
    BY <2>1, <2>2, ByteDigits, HexRead
  <2>5. PERCENT \in EscChars
    BY DEF EscChars
  <2>6. Escaped(c) \in Seq(EscChars) /\ Len(Escaped(c)) = 3
    BY <2>3, <2>4, <2>5
  <2>7. 16 * HexValue(h) + HexValue(l) = c
    BY <2>4, ByteDigits
  <2>8. Escaped(c)[1] = PERCENT /\ Escaped(c)[2] = h /\ Escaped(c)[3] = l
    BY <2>3
  <2>9. QED
    BY <1>1, <2>4, <2>6, <2>7, <2>8
<1>4. QED
  BY <1>2, <1>3

(* One more character.                                                      *)
LEMMA EscapeAppend ==
  ASSUME NEW x \in Seq(ByteValues), NEW c \in ByteValues
  PROVE  str_escape(Append(x, c)) = str_escape(x) \o Escaped(c)
<1> DEFINE n == Len(x)
           y == Append(x, c)
           E(z) == [i \in 1..Len(z) |-> Escaped(z[i])]
<1>1. \A z : str_escape(z) = FlattenSeq(E(z))
  BY DEF str_escape, Escaped
<1>2. /\ n \in Nat /\ y \in Seq(ByteValues) /\ Len(y) = n + 1 /\ y[n + 1] = c
      /\ \A i \in 1..n : y[i] = x[i] /\ x[i] \in ByteValues
  OBVIOUS
<1>3. PICK S : S = E(x)
  OBVIOUS
<1>4. PICK R : R = E(y)
  OBVIOUS
<1>5. \A b \in ByteValues : Escaped(b) \in Seq(EscChars)
  BY EscapedIs
<1>6. S \in Seq(Seq(EscChars)) /\ Len(S) = n /\ \A i \in 1..n : S[i] = Escaped(x[i])
  BY <1>2, <1>3, <1>5
<1> HIDE DEF y
<1>7. /\ R \in Seq(Seq(EscChars)) /\ Len(R) = n + 1 /\ R[n + 1] = Escaped(c)
      /\ \A i \in 1..n : R[i] = S[i]
  <2>1. R = [i \in 1..(n + 1) |-> Escaped(y[i])]
    BY <1>2, <1>4
  <2>2. \A i \in 1..(n + 1) : y[i] \in ByteValues /\ Escaped(y[i]) \in Seq(EscChars)
    BY <1>2, <1>5
  <2> HIDE DEF n
  <2>3. R \in Seq(Seq(EscChars)) /\ Len(R) = n + 1 /\ \A i \in 1..(n + 1) : R[i] = Escaped(y[i])
    BY <1>2, <2>1, <2>2
  <2>4. n + 1 \in 1..(n + 1) /\ \A i \in 1..n : i \in 1..(n + 1)
    BY <1>2
  <2>5. QED
    BY <1>2, <1>6, <2>3, <2>4
<1>8. Escaped(c) \in Seq(EscChars)
  BY <1>5
<1>9. R = Append(S, Escaped(c))
  BY <1>6, <1>7, <1>8, AppendIs
<1>10. FlattenSeq(Append(S, Escaped(c))) = FlattenSeq(S) \o Escaped(c)
  BY <1>6, <1>8, FlattenAppend
<1>11. QED
  BY <1>1, <1>3, <1>4, <1>9, <1>10 DEF y

(* What is written for x[k] begins in s after off[k - 1] characters.        *)
Laid(s, x, off) ==
  LET n == Len(x) IN
  /\ off \in [0..n -> Nat] /\ off[0] = 0 /\ off[n] = Len(s)
  /\ \A k \in 0..n : off[k] <= Len(s)
  /\ \A k \in 1..n : /\ off[k] = off[k - 1] + Len(Escaped(x[k]))
                     /\ \A j \in 1..Len(Escaped(x[k])) : s[off[k - 1] + j] = Escaped(x[k])[j]

Lays(x) == str_escape(x) \in Seq(EscChars) /\ \E off : Laid(str_escape(x), x, off)

(* One more character.                                                      *)
LEMMA LaidAppend ==
  ASSUME NEW x \in Seq(ByteValues), NEW c \in ByteValues, Lays(x)
  PROVE  Lays(Append(x, c))
<1> DEFINE n == Len(x)
           y == Append(x, c)
<1>1. PICK s : s = str_escape(x)
  OBVIOUS
<1>2. PICK e : e = Escaped(c)
  OBVIOUS
<1>3. PICK t : t = str_escape(y)
  OBVIOUS
<1>4. PICK off : Laid(s, x, off)
  BY <1>1 DEF Lays
<1>5. s \in Seq(EscChars) /\ e \in Seq(EscChars) /\ t = s \o e
  BY <1>1, <1>2, <1>3, EscapeAppend, EscapedIs DEF Lays
<1>6. /\ n \in Nat /\ y \in Seq(ByteValues) /\ Len(y) = n + 1 /\ y[n + 1] = c
      /\ \A i \in 1..n : y[i] = x[i] /\ x[i] \in ByteValues
  OBVIOUS
<1>7. /\ t \in Seq(EscChars) /\ Len(t) = Len(s) + Len(e) /\ Len(s) \in Nat /\ Len(e) \in Nat
      /\ \A i \in 1..Len(s) : t[i] = s[i]
      /\ \A i \in 1..Len(e) : t[Len(s) + i] = e[i]
  BY <1>5
<1> HIDE DEF n, y
<1>8. /\ off \in [0..n -> Nat] /\ off[0] = 0 /\ off[n] = Len(s)
      /\ \A k \in 0..n : off[k] <= Len(s)
      /\ \A k \in 1..n : /\ off[k] = off[k - 1] + Len(Escaped(x[k]))
                         /\ \A j \in 1..Len(Escaped(x[k])) : s[off[k - 1] + j] = Escaped(x[k])[j]
  BY <1>4 DEF Laid, n
<1>9. PICK o : o = [k \in 0..(n + 1) |-> IF k = n + 1 THEN Len(t) ELSE off[k]]
  OBVIOUS
<1>10. /\ o \in [0..(n + 1) -> Nat] /\ o[n + 1] = Len(t)
       /\ \A k \in 0..n : o[k] = off[k] /\ o[k] \in Nat
  BY <1>6, <1>7, <1>8, <1>9
<1>11. ASSUME NEW k \in 1..(n + 1)
       PROVE  /\ o[k] = o[k - 1] + Len(Escaped(y[k]))
              /\ \A j \in 1..Len(Escaped(y[k])) : t[o[k - 1] + j] = Escaped(y[k])[j]
  <2>1. CASE k = n + 1
    <3>1. k - 1 = n /\ n \in 0..n /\ y[k] = c
      BY <1>6, <2>1
    <3>2. o[k - 1] = Len(s) /\ o[k] = Len(s) + Len(e)
      BY <1>7, <1>8, <1>10, <2>1, <3>1
    <3>3. QED
      BY <1>2, <1>7, <3>1, <3>2
  <2>2. CASE k # n + 1
    <3>1. k \in 1..n /\ k - 1 \in 0..n /\ k \in 0..n
      BY <1>6, <2>2
    <3>2. y[k] = x[k] /\ o[k] = off[k] /\ o[k - 1] = off[k - 1] /\ off[k - 1] \in Nat /\ off[k] \in Nat
      BY <1>6, <1>8, <1>10, <3>1
    <3>3. PICK f : f = Escaped(x[k])
      OBVIOUS
    <3>4. Len(f) \in Nat
      BY <1>6, <3>1, <3>3, EscapedIs
    <3>5. ASSUME NEW j \in 1..Len(f) PROVE t[off[k - 1] + j] = f[j]
      <4>1. off[k] = off[k - 1] + Len(f) /\ off[k] <= Len(s) /\ s[off[k - 1] + j] = f[j]
        BY <1>8, <3>1, <3>3
      <4>2. PICK i : i = off[k - 1] + j
        OBVIOUS
      <4>3. i \in 1..Len(s) /\ s[i] = f[j]
        <5>1. PICK a : a = off[k - 1]
          OBVIOUS
        <5>2. a \in Nat /\ a + Len(f) <= Len(s) /\ Len(s) \in Nat
          BY <1>7, <3>2, <4>1, <5>1
        <5>3. i = a + j
          BY <4>2, <5>1
        <5>4. i \in 1..Len(s)
          BY ONLY <3>4, <5>2, <5>3, j \in 1..Len(f)
        <5>5. QED
          BY <4>1, <4>2, <5>4
      <4>4. t[i] = s[i]
        BY ONLY <1>7, <4>3
      <4>5. QED
        BY <4>2, <4>3, <4>4
    <3>6. off[k] = off[k - 1] + Len(f)
      BY <1>8, <3>1, <3>3
    <3>7. QED
      BY <3>2, <3>3, <3>5, <3>6
  <2>3. QED
    BY <2>1, <2>2
<1>12. ASSUME NEW k \in 0..(n + 1) PROVE o[k] <= Len(t)
  <2>1. CASE k = n + 1
    BY <1>7, <1>10, <2>1
  <2>2. CASE k # n + 1
    <3>1. k \in 0..n
      BY <1>6, <2>2
    <3>2. o[k] \in Nat /\ o[k] <= Len(s)
      BY <1>8, <1>10, <3>1
    <3>3. QED
      BY <1>7, <3>2
  <2>3. QED
    BY <2>1, <2>2
<1>13. o[0] = 0
  BY <1>6, <1>8, <1>10
<1>14. Laid(t, y, o)
  BY <1>6, <1>10, <1>11, <1>12, <1>13 DEF Laid
<1>15. QED
  BY <1>3, <1>7, <1>14 DEF Lays, y

(* So it is with every text.                                                *)
LEMMA Layout == \A x \in Seq(ByteValues) : Lays(x)
<1> DEFINE T == {x \in Seq(ByteValues) : Lays(x)}
<1>1. <<>> \in T
  <2>1. str_escape(<<>>) = <<>>
    BY DEF str_escape, FlattenSeq
  <2>2. PICK off : off = [k \in 0..0 |-> 0]
    OBVIOUS
  <2>3. off \in [0..0 -> Nat] /\ off[0] = 0 /\ 1..0 = {} /\ Len(<<>>) = 0
    BY <2>2
  <2>4. PICK e : e = <<>>
    OBVIOUS
  <2>5. Len(e) = 0 /\ e \in Seq(ByteValues) /\ e \in Seq(EscChars)
    BY <2>4
  <2>6. Laid(e, e, off)
    BY <2>3, <2>5 DEF Laid
  <2>7. QED
    BY <2>1, <2>4, <2>5, <2>6 DEF Lays
<1>2. \A x \in T, c \in ByteValues : Append(x, c) \in T
  BY LaidAppend, AppendProperties
<1>3. T \in SUBSET Seq(ByteValues)
  OBVIOUS
<1> HIDE DEF T
<1>4. T = Seq(ByteValues)
  BY <1>1, <1>2, <1>3, AppendInduction
<1>5. QED
  BY <1>4 DEF T

(* One step of the loop of str_unescape at position i; r holds what the     *)
(* later positions give.                                                    *)
CodeAt(s, i) == IF i + 2 <= Len(s) /\ IsHex(s[i+2])
                  THEN 16 * HexValue(s[i+1]) + HexValue(s[i+2])
                  ELSE HexValue(s[i+1])
ReadAt(s, r, i) ==
  IF i > Len(s) THEN <<>>
  ELSE IF s[i] = PERCENT /\ i < Len(s) /\ IsHex(s[i+1])
         THEN <<CodeAt(s, i)>> \o r[i+3]
         ELSE <<s[i]>> \o r[i+1]

(* r is what the loop gives from position a on.                             *)
Unescapes(r, s, a) == r = [i \in a..(Len(s) + 3) |-> ReadAt(s, r, i)]

(* The loop ends, whatever the text.                                        *)
LEMMA UnescapesExists ==
  ASSUME NEW s, Len(s) \in Nat
  PROVE  \E r : Unescapes(r, s, 1)
<1> DEFINE N == Len(s)
           T == {m \in Nat : m <= N => \E r : Unescapes(r, s, (N + 1) - m)}
<1>1. 0 \in T
  <2>1. PICK r : r = [i \in (N + 1)..(N + 3) |-> <<>>]
    OBVIOUS
  <2>2. \A i \in (N + 1)..(N + 3) : i > Len(s)
    OBVIOUS
  <2>3. \A i \in (N + 1)..(N + 3) : ReadAt(s, r, i) = <<>>
    BY <2>2 DEF ReadAt
  <2>4. r = [i \in (N + 1)..(N + 3) |-> ReadAt(s, r, i)]
    BY <2>1, <2>3
  <2>5. (N + 1) - 0 = N + 1
    OBVIOUS
  <2>6. Unescapes(r, s, (N + 1) - 0)
    BY <2>4, <2>5 DEF Unescapes
  <2>7. QED
    BY <2>6
<1>2. ASSUME NEW m \in T PROVE m + 1 \in T
  <2>1. m \in Nat /\ m + 1 \in Nat
    OBVIOUS
  <2>2. ASSUME m + 1 <= N PROVE \E q : Unescapes(q, s, (N + 1) - (m + 1))
    <3>1. PICK a : a = (N + 1) - m
      OBVIOUS
    <3>2. PICK r : Unescapes(r, s, a)
      BY <2>1, <2>2, <3>1
    <3>3. PICK b : b = a - 1
      OBVIOUS
    <3>4. /\ a \in Nat /\ b \in Nat /\ b >= 1 /\ a = b + 1 /\ b <= N /\ b = (N + 1) - (m + 1)
          /\ a <= N + 1
      BY <2>1, <2>2, <3>1, <3>3
    <3>5. PICK q : q = [i \in b..(N + 3) |-> IF i = b THEN ReadAt(s, r, b) ELSE r[i]]
      OBVIOUS
    <3>6. \A i \in a..(N + 3) : i \in b..(N + 3) /\ i # b /\ q[i] = r[i]
      BY <3>4, <3>5
    <3>7. ASSUME NEW i \in b..(N + 3) PROVE ReadAt(s, q, i) = ReadAt(s, r, i)
      <4>1. i <= N => i + 1 \in a..(N + 3) /\ i + 3 \in a..(N + 3)
        BY <3>4
      <4>2. i <= N => q[i + 1] = r[i + 1] /\ q[i + 3] = r[i + 3]
        BY <3>6, <4>1
      <4>3. i > N \/ i <= N
        BY <3>4
      <4>4. QED
        BY <4>2, <4>3 DEF ReadAt
    <3>8. \A i \in a..(N + 3) : r[i] = ReadAt(s, r, i)
      BY <3>2 DEF Unescapes
    <3>9. \A i \in b..(N + 3) : i = b \/ i \in a..(N + 3)
      BY <3>4
    <3>10. ASSUME NEW i \in b..(N + 3)
           PROVE  (IF i = b THEN ReadAt(s, r, b) ELSE r[i]) = ReadAt(s, q, i)
      BY <3>7, <3>8, <3>9
    <3>11. q = [i \in b..(N + 3) |-> ReadAt(s, q, i)]
      BY <3>5, <3>10
    <3>12. Unescapes(q, s, b)
      BY <3>11 DEF Unescapes
    <3>13. QED
      BY <3>4, <3>12
  <2>3. QED
    BY <2>1, <2>2
<1>3. T \in SUBSET Nat
  OBVIOUS
<1>4. T = Nat
  <2> HIDE DEF T
  <2>1. QED
    BY <1>1, <1>2, <1>3, SetInduction
<1>5. N \in T /\ N <= N /\ (N + 1) - N = 1
  BY <1>4
<1>6. QED
  BY <1>5

(* The loop of str_unescape gives what r holds at its first position.       *)
LEMMA UnescapeIs ==
  ASSUME NEW s, Len(s) \in Nat, NEW dest, s # <<>>
  PROVE  \E r : Unescapes(r, s, 1) /\ str_unescape(dest, s) = r[1]
<1> DEFINE rest == CHOOSE r : Unescapes(r, s, 1)
<1>1. Unescapes(rest, s, 1)
  BY UnescapesExists
<1>2. str_unescape(dest, s) = rest[1]
  BY DEF str_unescape, Unescapes, ReadAt, CodeAt
<1> HIDE DEF rest
<1>3. QED
  BY <1>1, <1>2

(* What was written for a character is read as that character.              *)
LEMMA ReadOne ==
  ASSUME NEW x \in Seq(ByteValues), NEW s \in Seq(EscChars), NEW off, Laid(s, x, off), NEW r,
         NEW k \in 1..Len(x)
  PROVE  /\ off[k - 1] + 1 \in 1..(Len(s) + 3) /\ off[k] + 1 \in 1..(Len(s) + 3)
         /\ ReadAt(s, r, off[k - 1] + 1) = <<x[k]>> \o r[off[k] + 1]
<1> DEFINE n == Len(x)
<1>1. n \in Nat /\ x[k] \in ByteValues /\ Len(s) \in Nat /\ k - 1 \in 0..n /\ k \in 0..n
  OBVIOUS
<1>2. PICK e : e = Escaped(x[k])
  OBVIOUS
<1>3. PICK a : a = off[k - 1]
  OBVIOUS
<1>4. PICK b : b = off[k]
  OBVIOUS
<1>5. /\ a \in Nat /\ b \in Nat /\ b <= Len(s) /\ b = a + Len(e)
      /\ \A j \in 1..Len(e) : s[a + j] = e[j]
  BY <1>1, <1>2, <1>3, <1>4 DEF Laid
<1>6. /\ Len(e) \in {1, 3}
      /\ \/ Len(e) = 1 /\ e[1] = x[k] /\ x[k] # PERCENT
         \/ /\ Len(e) = 3 /\ e[1] = PERCENT /\ IsHex(e[2]) /\ IsHex(e[3])
            /\ 16 * HexValue(e[2]) + HexValue(e[3]) = x[k]
  BY <1>1, <1>2, EscapedIs
<1> HIDE DEF n
<1>7. a + 1 \in 1..(Len(s) + 3) /\ b + 1 \in 1..(Len(s) + 3) /\ ~(a + 1 > Len(s))
  BY <1>1, <1>5, <1>6
<1>8. CASE Len(e) = 1
  <2>1. s[a + 1] = x[k] /\ x[k] # PERCENT /\ (a + 1) + 1 = b + 1
    BY <1>5, <1>6, <1>8
  <2>2. ReadAt(s, r, a + 1) = <<x[k]>> \o r[b + 1]
    BY <1>7, <2>1 DEF ReadAt
  <2>3. QED
    BY <1>3, <1>4, <1>7, <2>2
<1>9. CASE Len(e) = 3
  <2>1. 1 \in 1..Len(e) /\ 2 \in 1..Len(e) /\ 3 \in 1..Len(e)
    BY <1>9
  <2>2. s[a + 1] = e[1] /\ s[a + 2] = e[2] /\ s[a + 3] = e[3]
    BY <1>5, <2>1
  <2>3. (a + 1) + 1 = a + 2 /\ (a + 1) + 2 = a + 3 /\ (a + 1) + 3 = b + 1 /\ a + 3 <= Len(s) /\ a + 1 < Len(s)
    BY <1>5, <1>9
  <2>4. CodeAt(s, a + 1) = x[k]
    BY <1>6, <1>9, <2>2, <2>3 DEF CodeAt
  <2>5. ReadAt(s, r, a + 1) = <<x[k]>> \o r[b + 1]
    BY <1>6, <1>7, <1>9, <2>2, <2>3, <2>4 DEF ReadAt
  <2>6. QED
    BY <1>3, <1>4, <1>7, <2>5
<1>10. QED
  BY <1>6, <1>8, <1>9

(* What is left to be read after k characters are the others.               *)
LEMMA ReadRest ==
  ASSUME NEW x \in Seq(ByteValues), NEW s \in Seq(EscChars), NEW off, Laid(s, x, off), NEW r,
         Unescapes(r, s, 1)
  PROVE  \A k \in 0..Len(x) : r[off[k] + 1] = SubSeq(x, k + 1, Len(x))
<1> DEFINE n == Len(x)
           T == {m \in Nat : m <= n => r[off[n - m] + 1] = SubSeq(x, (n - m) + 1, n)}
<1>0. n \in Nat /\ Len(s) \in Nat
  OBVIOUS
<1>1. \A i \in 1..(Len(s) + 3) : r[i] = ReadAt(s, r, i)
  BY DEF Unescapes
<1>2. 0 \in T
  <2>1. off[n] = Len(s) /\ n - 0 = n
    BY <1>0 DEF Laid
  <2>2. Len(s) + 1 \in 1..(Len(s) + 3) /\ Len(s) + 1 > Len(s)
    BY <1>0
  <2>3. r[Len(s) + 1] = <<>>
    BY <1>1, <2>2 DEF ReadAt
  <2>4. SubSeq(x, n + 1, n) = <<>>
    BY <1>0
  <2>5. QED
    BY <2>1, <2>3, <2>4
<1>3. ASSUME NEW m \in T PROVE m + 1 \in T
  <2>1. m \in Nat /\ m + 1 \in Nat
    OBVIOUS
  <2>2. ASSUME m + 1 <= n PROVE r[off[n - (m + 1)] + 1] = SubSeq(x, (n - (m + 1)) + 1, n)
    <3>1. PICK k : k = n - m
      OBVIOUS
    <3>2. k \in 1..n /\ n - (m + 1) = k - 1 /\ (k - 1) + 1 = k
      BY <1>0, <2>1, <2>2, <3>1
    <3>3. r[off[k] + 1] = SubSeq(x, k + 1, n)
      BY <1>0, <2>1, <2>2, <3>1
    <3>4. /\ off[k - 1] + 1 \in 1..(Len(s) + 3)
          /\ ReadAt(s, r, off[k - 1] + 1) = <<x[k]>> \o r[off[k] + 1]
      BY <3>2, ReadOne
    <3>5. r[off[k - 1] + 1] = <<x[k]>> \o SubSeq(x, k + 1, n)
      BY <1>1, <3>3, <3>4
    <3>6. <<x[k]>> \o SubSeq(x, k + 1, n) = SubSeq(x, k, n)
      BY <1>0, <3>2
    <3>7. QED
      BY <3>2, <3>5, <3>6
  <2>3. QED
    BY <2>1, <2>2
<1>4. T \in SUBSET Nat
  OBVIOUS
<1>5. T = Nat
  <2> HIDE DEF T
  <2>1. QED
    BY <1>2, <1>3, <1>4, SetInduction
<1>6. ASSUME NEW k \in 0..n PROVE r[off[k] + 1] = SubSeq(x, k + 1, n)
  <2>1. n - k \in Nat /\ n - k <= n /\ n - (n - k) = k
    BY <1>0
  <2>2. n - k \in T
    BY <1>5, <2>1
  <2>3. n - k <= n => r[off[n - (n - k)] + 1] = SubSeq(x, (n - (n - k)) + 1, n)
    BY <2>2
  <2>4. QED
    BY <2>1, <2>3
<1>7. QED
  BY <1>6

(* str_unescape undoes str_escape, except that an empty text leaves the     *)
(* destination as it is.                                                    *)
LEMMA EscapeRead ==
  ASSUME NEW x \in Seq(ByteValues), NEW dest
  PROVE  /\ str_escape(x) \in Seq(EscChars) /\ (str_escape(x) = <<>> <=> x = <<>>)
         /\ str_unescape(dest, str_escape(x)) = IF x = <<>> THEN dest ELSE x
<1>1. PICK s : s = str_escape(x)
  OBVIOUS
<1>2. s \in Seq(EscChars) /\ \E off : Laid(s, x, off)
  BY <1>1, Layout DEF Lays
<1>3. PICK off : Laid(s, x, off)
  BY <1>2
<1>4. Len(x) \in Nat /\ Len(s) \in Nat /\ off[0] = 0 /\ 0 \in 0..Len(x)
  BY <1>2, <1>3 DEF Laid
<1>5. CASE x = <<>>
  <2>1. s = <<>>
    BY <1>1, <1>5 DEF str_escape, FlattenSeq
  <2>2. str_unescape(dest, s) = dest
    BY <2>1 DEF str_unescape
  <2>3. QED
    BY <1>1, <1>2, <1>5, <2>1, <2>2
<1>6. CASE x # <<>>
  <2>1. 1 \in 1..Len(x) /\ Len(x) > 0
    BY <1>6
  <2>2. off[0] + 1 \in 1..(Len(s) + 3)
    BY <1>4
  <2>3. s # <<>>
    <3>1. off[1] <= Len(s) /\ off[1] = off[1 - 1] + Len(Escaped(x[1])) /\ x[1] \in ByteValues
      BY <1>3, <2>1 DEF Laid
    <3>2. Len(Escaped(x[1])) \in {1, 3}
      BY <3>1, EscapedIs
    <3>3. PICK m : m = Len(Escaped(x[1]))
      OBVIOUS
    <3>4. m \in {1, 3} /\ 1 - 1 = 0 /\ off[1] = 0 + m /\ off[1] <= Len(s)
      BY <1>4, <3>1, <3>2, <3>3
    <3>5. Len(s) > 0
      BY <1>4, <3>4
    <3>6. QED
      BY <3>5
  <2>4. PICK r : Unescapes(r, s, 1) /\ str_unescape(dest, s) = r[1]
    BY <1>4, <2>3, UnescapeIs
  <2>5. r[off[0] + 1] = SubSeq(x, 0 + 1, Len(x))
    BY <1>2, <1>3, <1>4, <2>4, ReadRest
  <2>6. SubSeq(x, 1, Len(x)) = x
    BY <1>4
  <2>7. QED
    BY <1>1, <1>2, <1>4, <1>6, <2>3, <2>4, <2>5, <2>6
<1>7. QED
  BY <1>5, <1>6

-----------------------------------------------------------------------------
(* Lists as text. *)

(* The last of the first i elements that is not empty, that is, not e.  An  *)
(* empty text is read as this one, which buf still holds.                   *)
LastFull(T, e, i) ==
  LET full == {j \in 1..i : T[j] # e} IN IF full = {} THEN e ELSE T[Max(full)]

(* The texts that are read when the list T was written.                     *)
TextsRead(T) ==
  IF T = << <<>> >> THEN <<>> ELSE [i \in 1..Len(T) |-> LastFull(T, <<>>, i)]

(* One more element.                                                           *)
LEMMA LastFullNext ==
  ASSUME NEW T, NEW e, NEW i \in Nat
  PROVE  /\ LastFull(T, e, 0) = e
         /\ LastFull(T, e, i + 1) = IF T[i + 1] = e THEN LastFull(T, e, i) ELSE T[i + 1]
<1>1. LastFull(T, e, 0) = e
  <2>1. {j \in 1..0 : T[j] # e} = {}
    OBVIOUS
  <2>2. QED
    BY <2>1 DEF LastFull
<1>2. PICK F : F = {j \in 1..i : T[j] # e}
  OBVIOUS
<1>3. PICK G : G = {j \in 1..(i + 1) : T[j] # e}
  OBVIOUS
<1>4. CASE T[i + 1] = e
  <2>1. G = F
    BY <1>2, <1>3, <1>4
  <2>2. QED
    BY <1>1, <1>2, <1>3, <1>4, <2>1 DEF LastFull
<1>5. CASE T[i + 1] # e
  <2>1. i + 1 \in G /\ \A j \in G : j <= i + 1
    BY <1>3, <1>5
  <2>2. G # {} /\ G \subseteq Nat
    BY <1>3, <2>1
  <2>3. Max(G) = i + 1
    <3>1. \A m \in G : (\A j \in G : m >= j) => m = i + 1
      BY <2>1, <2>2
    <3>2. \A j \in G : i + 1 >= j
      BY <2>1, <2>2
    <3>3. QED
      BY <2>1, <3>1, <3>2 DEF Max
  <2>4. LastFull(T, e, i + 1) = T[Max(G)]
    BY <1>3, <2>2 DEF LastFull
  <2>5. QED
    BY <1>1, <1>5, <2>3, <2>4
<1>6. QED
  BY <1>4, <1>5

(* b is what buf holds after each of the tokens.                            *)
Buffers(b, tok) ==
  b = [i \in 0..Len(tok) |-> IF i = 0 THEN <<>> ELSE str_unescape(b[i-1], tok[i])]

(* The tokens that were written for T leave in buf the last of the texts    *)
(* that is not empty.                                                       *)
LEMMA BufferIs ==
  ASSUME NEW T \in Seq(Seq(ByteValues)), NEW tok, Len(tok) = Len(T),
         \A i \in 1..Len(T) : tok[i] = str_escape(T[i])
  PROVE  \E b : Buffers(b, tok) /\ \A i \in 0..Len(T) : b[i] = LastFull(T, <<>>, i)
<1> DEFINE n == Len(T)
<1>1. n \in Nat
  OBVIOUS
<1>2. PICK b : b = [i \in 0..n |-> LastFull(T, <<>>, i)]
  OBVIOUS
<1>3. ASSUME NEW i \in 0..n
      PROVE  LastFull(T, <<>>, i) = IF i = 0 THEN <<>> ELSE str_unescape(b[i-1], tok[i])
  <2>1. CASE i = 0
    BY <1>1, <2>1, LastFullNext
  <2>2. CASE i # 0
    <3>1. i - 1 \in Nat /\ i - 1 \in 0..n /\ (i - 1) + 1 = i /\ i \in 1..n
      BY <1>1, <2>2
    <3>2. LastFull(T, <<>>, i) = IF T[i] = <<>> THEN LastFull(T, <<>>, i - 1) ELSE T[i]
      <4>1. PICK k \in Nat : k = i - 1 /\ k + 1 = i
        BY <3>1
      <4>2. LastFull(T, <<>>, k + 1) = IF T[k + 1] = <<>> THEN LastFull(T, <<>>, k) ELSE T[k + 1]
        BY LastFullNext
      <4>3. QED
        BY <4>1, <4>2
    <3>3. b[i - 1] = LastFull(T, <<>>, i - 1) /\ tok[i] = str_escape(T[i])
      BY <1>2, <3>1
    <3>4. T[i] \in Seq(ByteValues)
      BY <3>1, ElementOfSeq
    <3>5. str_unescape(b[i - 1], str_escape(T[i])) = IF T[i] = <<>> THEN b[i - 1] ELSE T[i]
      BY <3>4, EscapeRead
    <3>6. QED
      BY <2>2, <3>2, <3>3, <3>5
  <2>3. QED
    BY <2>1, <2>2
<1>4. b = [i \in 0..n |-> IF i = 0 THEN <<>> ELSE str_unescape(b[i-1], tok[i])]
  BY <1>2, <1>3
<1>5. Buffers(b, tok)
  BY <1>4 DEF Buffers
<1>6. \A i \in 0..n : b[i] = LastFull(T, <<>>, i)
  BY <1>2
<1>7. QED
  BY <1>5, <1>6

(* What buf holds is determined by the tokens.                              *)
LEMMA BuffersUnique ==
  ASSUME NEW tok, Len(tok) \in Nat, NEW a, NEW b, Buffers(a, tok), Buffers(b, tok)
  PROVE  a = b
<1> DEFINE n == Len(tok)
           T == {i \in Nat : i <= n => a[i] = b[i]}
<1>1. /\ \A i \in 0..n : a[i] = IF i = 0 THEN <<>> ELSE str_unescape(a[i-1], tok[i])
      /\ \A i \in 0..n : b[i] = IF i = 0 THEN <<>> ELSE str_unescape(b[i-1], tok[i])
  BY DEF Buffers
<1>2. 0 \in T
  <2>1. 0 \in 0..n
    OBVIOUS
  <2>2. QED
    BY <1>1, <2>1
<1>3. ASSUME NEW i \in T PROVE i + 1 \in T
  <2>1. i \in Nat /\ i + 1 \in Nat
    OBVIOUS
  <2>2. ASSUME i + 1 <= n PROVE a[i + 1] = b[i + 1]
    <3>1. i + 1 \in 0..n /\ i + 1 # 0 /\ (i + 1) - 1 = i /\ i <= n
      BY <2>1, <2>2
    <3>2. a[i] = b[i]
      BY <3>1
    <3>3. a[i + 1] = str_unescape(a[i], tok[i + 1]) /\ b[i + 1] = str_unescape(b[i], tok[i + 1])
      BY <1>1, <3>1
    <3>4. QED
      BY <3>2, <3>3
  <2>3. QED
    BY <2>1, <2>2
<1>4. T \in SUBSET Nat
  OBVIOUS
<1>5. T = Nat
  <2> HIDE DEF T
  <2>1. QED
    BY <1>2, <1>3, <1>4, SetInduction
<1>6. \A i \in 0..n : a[i] = b[i]
  <2>1. \A i \in 0..n : i \in Nat /\ i <= n
    OBVIOUS
  <2>2. QED
    BY <1>5, <2>1
<1>7. QED
  BY <1>6 DEF Buffers

(* A list that is serialized and deserialized is the same list, except for  *)
(* the empty strings in it.                                                 *)
LEMMA ListReread ==
  ASSUME NEW T \in Seq(Seq(ByteValues))
  PROVE  list_deserialize(list_serialize(T)) = TextsRead(T)
<1> DEFINE n == Len(T)
           A == EscChars \cup {SPACE}
<1>1. PICK W : W = [i \in 1..n |-> str_escape(T[i])]
  OBVIOUS
<1>2. n \in Nat /\ \A i \in 1..n : T[i] \in Seq(ByteValues)
  BY ElementOfSeq
<1>3. \A x \in Seq(ByteValues) : str_escape(x) \in Seq(EscChars) /\ (str_escape(x) = <<>> <=> x = <<>>)
  BY EscapeRead
<1>4. W \in Seq(Seq(EscChars)) /\ Len(W) = n /\ \A i \in 1..n : W[i] = str_escape(T[i])
  BY <1>1, <1>2, <1>3
<1>5. 65 \in ByteValues
  BY DEF ByteValues
<1>6. SPACE \notin EscChars /\ LF \notin A /\ CR \notin A /\ SPACE # LF
  <2>1. SPACE \notin EscChars /\ LF \notin EscChars /\ CR \notin EscChars
    BY <1>5, EscapedIs
  <2>2. SPACE # LF /\ SPACE # CR
    BY DEF SPACE, LF, CR
  <2>3. QED
    BY <2>1, <2>2
<1>7. Delimits(SPACE, EscChars, A)
  BY <1>6 DEF Delimits
<1>8. PICK s : s = Joined(W, SPACE)
  OBVIOUS
<1> HIDE DEF A
<1>9. s \in Seq(A) /\ (W # <<>> => strsep(s, SPACE) = W) /\ (s = <<>> <=> W = <<>> \/ W = << <<>> >>)
  <2>1. W = <<>> => s = <<>>
    BY <1>4, <1>7, <1>8, JoinedEmpty
  <2>2. <<>> \in Seq(A)
    OBVIOUS
  <2>3. QED
    BY <1>4, <1>7, <1>8, <2>1, <2>2, JoinedEmpty, JoinedSplit
<1>10. list_serialize(T) = s
  <2>1. list_serialize(T) = str_join(W, SPACE)
    BY <1>1 DEF list_serialize
  <2>2. str_join(W, SPACE) = s \o <<>>
    BY <1>6, <1>8 DEF str_join, Joined
  <2>3. QED
    BY <1>9, <2>1, <2>2, ConcatEmptySeq
<1>11. PICK tok : tok = str_split(s, SPACE)
  OBVIOUS
<1>12. list_deserialize(s) = [i \in 1..Len(tok) |-> (CHOOSE b : Buffers(b, tok))[i]]
  BY <1>11 DEF list_deserialize, Buffers
<1>13. CASE s = <<>>
  <2>1. tok = <<>>
    BY <1>11, <1>13 DEF str_split
  <2>2. list_deserialize(s) = <<>>
    BY <1>12, <2>1
  <2>3. T = <<>> \/ T = << <<>> >>
    <3>1. CASE W = <<>>
      BY <1>4, <3>1
    <3>2. CASE W = << <<>> >>
      <4>1. n = 1 /\ W[1] = <<>>
        BY <1>4, <3>2
      <4>2. T[1] = <<>>
        BY <1>2, <1>3, <1>4, <4>1
      <4>3. QED
        BY <4>1, <4>2
    <3>3. QED
      BY <1>9, <1>13, <3>1, <3>2
  <2>4. TextsRead(T) = <<>>
    BY <2>3 DEF TextsRead
  <2>5. QED
    BY <1>10, <2>2, <2>4
<1>14. CASE s # <<>>
  <2>1. W # <<>> /\ W # << <<>> >>
    BY <1>9, <1>14
  <2>2. str_chomp(s) = s
    BY <1>6, <1>9, NothingToChomp
  <2>3. tok = [i \in 1..Len(W) |-> W[i]]
    BY <1>6, <1>9, <1>11, <1>14, <2>1, <2>2 DEF str_split
  <2>4. tok = W
    BY <1>4, <2>3
  <2>5. Len(tok) = Len(T) /\ \A i \in 1..Len(T) : tok[i] = str_escape(T[i])
    BY <1>4, <2>4
  <2>6. PICK b : Buffers(b, tok) /\ \A i \in 0..Len(T) : b[i] = LastFull(T, <<>>, i)
    BY <2>5, BufferIs
  <2>7. PICK a : a = CHOOSE d : Buffers(d, tok)
    OBVIOUS
  <2>8. Buffers(a, tok)
    BY <2>6, <2>7
  <2>9. a = b
    BY <1>2, <2>5, <2>6, <2>8, BuffersUnique
  <2>10. \A i \in 1..n : i \in 0..n
    BY <1>2
  <2>11. list_deserialize(s) = [i \in 1..n |-> LastFull(T, <<>>, i)]
    BY <1>12, <2>5, <2>6, <2>7, <2>9, <2>10
  <2>12. T # << <<>> >>
    <3>1. SUFFICES ASSUME T = << <<>> >> PROVE FALSE
      OBVIOUS
    <3>2. n = 1 /\ T[1] = <<>>
      BY <3>1
    <3>3. Len(W) = 1 /\ W[1] = <<>>
      BY <1>2, <1>3, <1>4, <3>2
    <3>4. W = << <<>> >>
      BY <1>4, <3>3
    <3>5. QED
      BY <2>1, <3>4
  <2>13. QED
    BY <1>10, <2>11, <2>12 DEF TextsRead
<1>15. QED
  BY <1>13, <1>14
=============================================================================
