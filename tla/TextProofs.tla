----------------------------- MODULE TextProofs -----------------------------
(***************************************************************************)
(* The theorems about the two components that take texts apart:            *)
(* socket_readline and the hash table.  They share what strsep makes of a  *)
(* text that grows by a character (TextLemmas).                            *)
(*                                                                         *)
(* For socket_readline that is continued to two texts one after the other: *)
(* the last piece of the first text and the first piece of the second      *)
(* become one piece (Glue), and taking away the carriage returns commutes  *)
(* with that as long as a "\r" occurs in "\r\n" only.  The invariant of the*)
(* calls (Exact) says of which bytes the lines in read_buf and the lines   *)
(* returned are made.                                                      *)
(*                                                                         *)
(* For the hash table it is continued to the lines of a serialized table   *)
(* and to the parser of hash_deserialize, which reads the pairs back       *)
(* (RoundTrip).  The invariant of the calls (TableInv) says that every     *)
(* bucket is a list of pairs.  The refinement of MapADT compares the pairs *)
(* in the buckets with the function they stand for, and each call with the *)
(* operation on that function (StepRefined).                               *)
(*                                                                         *)
(* Statements about all texts are proved by induction over their length,   *)
(* for the set of the lengths for which they hold (SetInduction).          *)
(***************************************************************************)
EXTENDS Readline, HashTable, TextLemmas

-----------------------------------------------------------------------------
(* The pieces of the bytes that a socket receives. *)

Pieces == Seq(Seq(Alphabet)) \ {<<>>}

(* The pieces grow by a character at a time.                                *)
LEMMA TakeType ==
  ASSUME NEW t \in Pieces, NEW c \in Alphabet, NEW d
  PROVE  Take(t, c, d) \in Pieces
<1>1. Len(t) \in Nat \ {0} /\ t \in Seq(Seq(Alphabet)) /\ t[Len(t)] \in Seq(Alphabet)
  BY EmptySeq DEF Pieces
<1>2. CASE c = d
  BY <1>1, <1>2 DEF Take, Pieces
<1>3. CASE c # d
  <2>1. Append(t[Len(t)], c) \in Seq(Alphabet)
    BY <1>1
  <2>2. /\ [t EXCEPT ![Len(t)] = Append(@, c)] \in Seq(Seq(Alphabet))
        /\ Len([t EXCEPT ![Len(t)] = Append(@, c)]) = Len(t)
    BY <1>1, <2>1, ExceptSeq
  <2>3. QED
    BY <1>1, <1>3, <2>2 DEF Take, Pieces
<1>4. QED
  BY <1>2, <1>3

(* Which piece changes.                                                     *)
LEMMA TakeElements ==
  ASSUME NEW t \in Pieces, NEW c \in Alphabet, NEW d
  PROVE  LET u == Take(t, c, d)
             k == Len(t)
         IN  /\ k \in Nat \ {0} /\ \A i \in 1..k : t[i] \in Seq(Alphabet)
             /\ c = d => Len(u) = k + 1 /\ u[k + 1] = <<>> /\ \A i \in 1..k : u[i] = t[i]
             /\ c # d => Len(u) = k /\ u[k] = Append(t[k], c) /\ \A i \in 1..k : i # k => u[i] = t[i]
<1>1. Len(t) \in Nat \ {0} /\ t \in Seq(Seq(Alphabet)) /\ \A i \in 1..Len(t) : t[i] \in Seq(Alphabet)
  BY EmptySeq, ElementOfSeq DEF Pieces
<1> DEFINE u == Take(t, c, d)
           k == Len(t)
<1>2. ASSUME c = d PROVE Len(u) = k + 1 /\ u[k + 1] = <<>> /\ \A i \in 1..k : u[i] = t[i]
  <2>1. <<>> \in Seq(Alphabet) /\ u = Append(t, <<>>)
    BY <1>2 DEF Take
  <2>2. QED
    BY <1>1, <2>1, AppendProperties
<1>3. ASSUME c # d
      PROVE  Len(u) = k /\ u[k] = Append(t[k], c) /\ \A i \in 1..k : i # k => u[i] = t[i]
  <2>1. t[k] \in Seq(Alphabet) /\ Append(t[k], c) \in Seq(Alphabet) /\ k \in 1..k
    BY <1>1
  <2>2. u = [t EXCEPT ![k] = Append(t[k], c)]
    BY <1>3 DEF Take
  <2>3. QED
    BY <1>1, <2>1, <2>2, ExceptSeq
<1>4. QED
  BY <1>1, <1>2, <1>3

(* strsep is a nonempty sequence of pieces.                                 *)
LEMMA StrsepType ==
  ASSUME NEW s \in Seq(Alphabet), NEW d
  PROVE  strsep(s, d) \in Pieces
<1> DEFINE T == {r \in Seq(Alphabet) : strsep(r, d) \in Pieces}
<1>1. <<>> \in T
  <2>1. << <<>> >> \in Pieces
    BY DEF Pieces
  <2>2. QED
    BY <2>1, StrsepEmpty
<1>2. ASSUME NEW r \in T, NEW c \in Alphabet PROVE Append(r, c) \in T
  <2>1. r \in Seq(Alphabet) /\ Append(r, c) \in Seq(Alphabet)
    OBVIOUS
  <2>2. strsep(Append(r, c), d) = Take(strsep(r, d), c, d)
    BY <2>1, StrsepAppend
  <2>3. strsep(Append(r, c), d) \in Pieces
    BY <2>2, TakeType
  <2>4. QED
    BY <2>1, <2>3
<1> HIDE DEF T
<1>3. T \in SUBSET Seq(Alphabet)
  BY DEF T
<1>4. T = Seq(Alphabet)
  BY <1>1, <1>2, <1>3, AppendInduction
<1>5. QED
  BY <1>4 DEF T

(* What every piece is made of.                                             *)
PieceFacts(s, d) ==
  LET t == strsep(s, d) IN
  /\ \A i \in 1..Len(t) : Len(t[i]) <= Len(s) /\ \A j \in 1..Len(t[i]) : t[i][j] # d
  /\ (\E j \in 1..Len(s) : s[j] = d) => Len(t) > 1
  /\ s # <<>> /\ t[Len(t)] # <<>> => t[Len(t)][Len(t[Len(t)])] = s[Len(s)]
  /\ s = <<>> => t[Len(t)] = <<>>

(* PieceFacts is kept by one more character.                                *)
LEMMA PieceFactsAppend ==
  ASSUME NEW r \in Seq(Alphabet), NEW c \in Alphabet, NEW d, PieceFacts(r, d)
  PROVE  PieceFacts(Append(r, c), d)
<1> DEFINE t == strsep(r, d)
           u == Take(t, c, d)
           k == Len(t)
<1>0. t \in Pieces
  BY StrsepType
<1>1. t \in Seq(Seq(Alphabet)) /\ k \in Nat \ {0}
  BY StrsepType, EmptySeq DEF Pieces
<1>2. strsep(Append(r, c), d) = u /\ u \in Seq(Seq(Alphabet))
  BY <1>1, StrsepAppend, StrsepType, TakeType DEF Pieces
<1>3. /\ Append(r, c) \in Seq(Alphabet) /\ Append(r, c) # <<>> /\ Len(Append(r, c)) = Len(r) + 1
      /\ Append(r, c)[Len(r) + 1] = c /\ \A i \in 1..Len(r) : Append(r, c)[i] = r[i]
      /\ Len(r) \in Nat
  BY AppendProperties, LenProperties
<1>4. \A i \in 1..k : /\ t[i] \in Seq(Alphabet) /\ Len(t[i]) \in Nat /\ Len(t[i]) <= Len(r)
                      /\ \A j \in 1..Len(t[i]) : t[i][j] # d
  BY <1>1, LenProperties, ElementOfSeq DEF PieceFacts
<1>5. (\E j \in 1..Len(r) : r[j] = d) => k > 1
  BY <1>1 DEF PieceFacts
<1>6. /\ c = d => Len(u) = k + 1 /\ u[k + 1] = <<>> /\ \A i \in 1..k : u[i] = t[i]
      /\ c # d => Len(u) = k /\ u[k] = Append(t[k], c) /\ \A i \in 1..k : i # k => u[i] = t[i]
  <2> HIDE DEF t
  <2>1. QED
    BY <1>0, TakeElements
<1> HIDE DEF t, k
<1>7. CASE c = d
  <2>1. Len(u) = k + 1 /\ u[k + 1] = <<>> /\ \A i \in 1..k : u[i] = t[i]
    BY <1>7, <1>6
  <2> HIDE DEF u
  <2>2. ASSUME NEW i \in 1..Len(u)
        PROVE  Len(u[i]) <= Len(r) + 1 /\ \A j \in 1..Len(u[i]) : u[i][j] # d
    <3>1. CASE i = k + 1
      BY <1>3, <2>1, <3>1
    <3>2. CASE i # k + 1
      <4>1. i \in 1..k
        BY <1>1, <2>1, <3>2
      <4>2. QED
        BY <1>3, <1>4, <2>1, <4>1
    <3>3. QED
      BY <3>1, <3>2
  <2>3. Len(u) > 1
    BY <1>1, <2>1
  <2>4. QED
    BY <1>2, <1>3, <2>1, <2>2, <2>3 DEF PieceFacts
<1>8. CASE c # d
  <2>1. Len(u) = k /\ u[k] = Append(t[k], c) /\ \A i \in 1..k : i # k => u[i] = t[i]
    BY <1>8, <1>6
  <2> HIDE DEF u
  <2>2. /\ t[k] \in Seq(Alphabet) /\ Len(t[k]) \in Nat /\ Len(t[k]) <= Len(r)
        /\ \A j \in 1..Len(t[k]) : t[k][j] # d
    BY <1>1, <1>4
  <2>3. /\ u[k] # <<>> /\ Len(u[k]) = Len(t[k]) + 1 /\ u[k][Len(t[k]) + 1] = c
        /\ \A j \in 1..Len(t[k]) : u[k][j] = t[k][j]
    BY <2>1, <2>2, AppendProperties
  <2>4. ASSUME NEW i \in 1..Len(u)
        PROVE  Len(u[i]) <= Len(r) + 1 /\ \A j \in 1..Len(u[i]) : u[i][j] # d
    <3>1. CASE i = k
      <4>1. \A j \in 1..Len(u[k]) : j \in 1..Len(t[k]) \/ j = Len(t[k]) + 1
        BY <2>2, <2>3
      <4>2. \A j \in 1..Len(u[k]) : u[k][j] # d
        BY <1>8, <2>2, <2>3, <4>1
      <4>3. Len(u[k]) <= Len(r) + 1
        BY <1>3, <2>2, <2>3
      <4>4. QED
        BY <3>1, <4>2, <4>3
    <3>2. CASE i # k
      <4>1. i \in 1..k /\ u[i] = t[i]
        BY <2>1, <3>2
      <4>2. QED
        BY <1>3, <1>4, <4>1
    <3>3. QED
      BY <3>1, <3>2
  <2>5. (\E j \in 1..(Len(r) + 1) : Append(r, c)[j] = d) => Len(u) > 1
    BY <1>3, <1>5, <1>8, <2>1
  <2>6. u[Len(u)][Len(u[Len(u)])] = c
    BY <2>1, <2>3
  <2>7. QED
    BY <1>2, <1>3, <2>4, <2>5, <2>6 DEF PieceFacts
<1>9. QED
  BY <1>7, <1>8

(* A piece is no longer than the text and holds no delimiter; there are two *)
(* of them where the text has one; and the last ends like the text.         *)
LEMMA Piecewise ==
  ASSUME NEW s \in Seq(Alphabet), NEW d
  PROVE  PieceFacts(s, d)
<1> DEFINE T == {r \in Seq(Alphabet) : PieceFacts(r, d)}
<1>1. <<>> \in T
  <2> DEFINE e == <<>>
             t == strsep(e, d)
  <2>1. e \in Seq(Alphabet) /\ Len(e) = 0
    OBVIOUS
  <2>2. Len(t) = 1 /\ t[1] = e
    BY StrsepEmpty
  <2> HIDE DEF e
  <2>3. PieceFacts(e, d)
    <3>1. t[Len(t)] = e /\ \A i \in 1..Len(t) : t[i] = e
      BY <2>2
    <3> HIDE DEF t
    <3>2. /\ \A i \in 1..Len(t) : Len(t[i]) <= Len(e) /\ \A j \in 1..Len(t[i]) : t[i][j] # d
          /\ ~\E j \in 1..Len(e) : e[j] = d
      BY <2>1, <3>1
    <3>3. QED
      BY <3>1, <3>2 DEF PieceFacts, t, e
  <2>4. QED
    BY <2>1, <2>3 DEF e
<1>2. ASSUME NEW r \in T, NEW c \in Alphabet PROVE Append(r, c) \in T
  BY PieceFactsAppend, AppendProperties
<1>3. T \in SUBSET Seq(Alphabet)
  OBVIOUS
<1> HIDE DEF T
<1>4. T = Seq(Alphabet)
  BY <1>1, <1>2, <1>3, AppendInduction
<1>5. QED
  BY <1>4 DEF T

-----------------------------------------------------------------------------
(* What strsep does to a concatenation: the last piece of the first text    *)
(* and the first piece of the second become one. *)

Glue(x, y) ==
  [i \in 1..(Len(x) + Len(y) - 1) |->
     IF i < Len(x) THEN x[i] ELSE IF i = Len(x) THEN x[i] \o y[1] ELSE y[i - Len(x) + 1]]

(* Gluing two sequences of pieces gives a sequence of pieces.               *)
LEMMA GlueType ==
  ASSUME NEW x \in Pieces, NEW y \in Pieces
  PROVE  /\ Glue(x, y) \in Pieces
         /\ Len(Glue(x, y)) = Len(x) + Len(y) - 1
         /\ Len(x) \in Nat \ {0} /\ Len(y) \in Nat \ {0}
         /\ \A i \in 1..Len(x) : x[i] \in Seq(Alphabet)
         /\ \A i \in 1..Len(y) : y[i] \in Seq(Alphabet)
<1>1. /\ Len(x) \in Nat \ {0} /\ Len(y) \in Nat \ {0}
      /\ \A i \in 1..Len(x) : x[i] \in Seq(Alphabet)
      /\ \A i \in 1..Len(y) : y[i] \in Seq(Alphabet)
  BY EmptySeq, ElementOfSeq DEF Pieces
<1> DEFINE n == Len(x) + Len(y) - 1
<1>2. n \in Nat \ {0}
  BY <1>1
<1>3. x[Len(x)] \o y[1] \in Seq(Alphabet)
  BY <1>1, ConcatProperties
<1>4. \A i \in 1..n : Glue(x, y)[i] \in Seq(Alphabet)
  <2>1. SUFFICES ASSUME NEW i \in 1..n PROVE Glue(x, y)[i] \in Seq(Alphabet)
    OBVIOUS
  <2>2. CASE i < Len(x)
    BY <1>1, <2>2 DEF Glue
  <2>3. CASE i = Len(x)
    BY <1>1, <1>3, <2>3 DEF Glue
  <2>4. CASE i > Len(x)
    BY <1>1, <2>4 DEF Glue
  <2>5. QED
    BY <1>1, <2>2, <2>3, <2>4
<1>5. Glue(x, y) \in [1..n -> Seq(Alphabet)]
  BY <1>4 DEF Glue
<1>6. Glue(x, y) \in Seq(Seq(Alphabet)) /\ Len(Glue(x, y)) = n
  BY <1>2, <1>5
<1>7. QED
  BY <1>1, <1>2, <1>6 DEF Pieces

(* Which piece comes from which sequence.                                   *)
LEMMA GlueElements ==
  ASSUME NEW p \in Pieces, NEW q \in Pieces,
         NEW j \in 1..(Len(p) + Len(q) - 1)
  PROVE  /\ j < Len(p) => Glue(p, q)[j] = p[j]
         /\ j = Len(p) => Glue(p, q)[j] = p[j] \o q[1]
         /\ j > Len(p) => Glue(p, q)[j] = q[j - Len(p) + 1] /\ j - Len(p) + 1 \in 2..Len(q)
<1>1. Len(p) \in Nat \ {0} /\ Len(q) \in Nat \ {0}
  BY GlueType
<1>2. Glue(p, q)[j] = IF j < Len(p) THEN p[j]
                      ELSE IF j = Len(p) THEN p[j] \o q[1] ELSE q[j - Len(p) + 1]
  BY DEF Glue
<1>3. j > Len(p) => j - Len(p) + 1 \in 2..Len(q) /\ ~(j < Len(p)) /\ j # Len(p)
  BY <1>1
<1>4. j = Len(p) => ~(j < Len(p))
  BY <1>1
<1>5. QED
  BY <1>2, <1>3, <1>4

(* A character after a concatenation is after its second part.              *)
LEMMA AppendConcat ==
  ASSUME NEW p \in Seq(Alphabet), NEW q \in Seq(Alphabet), NEW e \in Alphabet
  PROVE  Append(p \o q, e) = p \o Append(q, e)
<1>1. p \o q \in Seq(Alphabet) /\ <<e>> \in Seq(Alphabet)
  BY ConcatProperties
<1>2. Append(p \o q, e) = (p \o q) \o <<e>> /\ Append(q, e) = q \o <<e>>
  BY <1>1, AppendIsConcat
<1>3. QED
  BY <1>1, <1>2, ConcatAssociative

(* A character after the second text goes where it went without the first.  *)
LEMMA TakeGlue ==
  ASSUME NEW x \in Pieces, NEW y \in Pieces, NEW c \in Alphabet, NEW d
  PROVE  Take(Glue(x, y), c, d) = Glue(x, Take(y, c, d))
<1> DEFINE g == Glue(x, y)
           u == Take(y, c, d)
           h == Glue(x, u)
           v == Take(g, c, d)
           m == Len(x)
           k == Len(y)
           n == m + k - 1
<1>1. g \in Pieces /\ u \in Pieces /\ v \in Pieces /\ h \in Pieces
  BY GlueType, TakeType
<1>2. m \in Nat \ {0} /\ k \in Nat \ {0} /\ Len(g) = n /\ n = m + k - 1
  BY GlueType
<1>3. Len(h) = m + Len(u) - 1 /\ Len(u) \in Nat \ {0}
  <2> HIDE DEF u
  <2>1. QED
    BY <1>1, GlueType
<1>4. \A i \in 1..n : /\ i < m => g[i] = x[i]
                      /\ i = m => g[i] = x[i] \o y[1]
                      /\ i > m => g[i] = y[i - m + 1] /\ i - m + 1 \in 2..k
  BY GlueElements
<1>5. \A i \in 1..(m + Len(u) - 1) : /\ i < m => h[i] = x[i]
                                     /\ i = m => h[i] = x[i] \o u[1]
                                     /\ i > m => h[i] = u[i - m + 1]
  <2> HIDE DEF u
  <2>1. SUFFICES ASSUME NEW i \in 1..(m + Len(u) - 1)
                 PROVE  /\ i < m => h[i] = x[i]
                        /\ i = m => h[i] = x[i] \o u[1]
                        /\ i > m => h[i] = u[i - m + 1]
    OBVIOUS
  <2>2. QED
    BY <1>1, GlueElements
<1>6. /\ c = d => Len(u) = k + 1 /\ u[k + 1] = <<>> /\ \A i \in 1..k : u[i] = y[i]
      /\ c # d => Len(u) = k /\ u[k] = Append(y[k], c) /\ \A i \in 1..k : i # k => u[i] = y[i]
  BY TakeElements
<1>7. /\ c = d => Len(v) = n + 1 /\ v[n + 1] = <<>> /\ \A i \in 1..n : v[i] = g[i]
      /\ c # d => Len(v) = n /\ v[n] = Append(g[n], c) /\ \A i \in 1..n : i # n => v[i] = g[i]
  <2> HIDE DEF g, n
  <2>1. /\ c = d => /\ Len(v) = Len(g) + 1 /\ v[Len(g) + 1] = <<>>
                   /\ \A i \in 1..Len(g) : v[i] = g[i]
        /\ c # d => /\ Len(v) = Len(g) /\ v[Len(g)] = Append(g[Len(g)], c)
                   /\ \A i \in 1..Len(g) : i # Len(g) => v[i] = g[i]
    BY <1>1, TakeElements
  <2>2. QED
    BY <1>2, <2>1
<1>8. (\A i \in 1..m : x[i] \in Seq(Alphabet)) /\ (\A i \in 1..k : y[i] \in Seq(Alphabet))
  BY GlueType
<1> HIDE DEF g, u, h, v, m, k, n
<1>9. Len(h) = Len(v)
  <2>1. CASE c = d
    <3>1. Len(u) = k + 1 /\ Len(v) = n + 1
      BY <1>6, <1>7, <2>1
    <3>2. QED
      BY <1>2, <1>3, <3>1
  <2>2. CASE c # d
    <3>1. Len(u) = k /\ Len(v) = n
      BY <1>6, <1>7, <2>2
    <3>2. QED
      BY <1>2, <1>3, <3>1
  <2>3. QED
    BY <2>1, <2>2
<1>10. ASSUME NEW i \in 1..Len(v), c = d PROVE v[i] = h[i]
  <2>1. Len(v) = n + 1 /\ Len(h) = n + 1
    BY <1>7, <1>9, <1>10
  <2>2. CASE i = n + 1
    <3>1. i > m /\ i - m + 1 = k + 1 /\ i \in 1..(m + Len(u) - 1)
      BY <1>2, <1>6, <1>10, <2>2
    <3>2. h[i] = u[k + 1]
      BY <1>5, <3>1
    <3>3. QED
      BY <1>6, <1>7, <1>10, <2>2, <3>2
  <2>3. CASE i # n + 1
    <3>1. i \in 1..n /\ i \in 1..(m + Len(u) - 1)
      BY <1>2, <1>6, <1>10, <2>1, <2>3
    <3>2. v[i] = g[i]
      BY <1>7, <1>10, <3>1
    <3>3. CASE i < m
      BY <1>4, <1>5, <3>1, <3>2, <3>3
    <3>4. CASE i = m
      <4>1. 1 \in 1..k
        BY <1>2
      <4>2. u[1] = y[1]
        BY <1>6, <1>10, <4>1
      <4>3. g[i] = x[i] \o y[1]
        BY <1>4, <3>1, <3>4
      <4>4. h[i] = x[i] \o u[1]
        BY <1>5, <3>1, <3>4
      <4>5. QED
        BY <3>2, <4>2, <4>3, <4>4
    <3>5. CASE i > m
      <4>1. i - m + 1 \in 1..k
        BY <1>2, <3>1, <3>5
      <4>2. u[i - m + 1] = y[i - m + 1]
        BY <1>6, <1>10, <4>1
      <4>3. QED
        BY <1>4, <1>5, <3>1, <3>2, <3>5, <4>2
    <3>6. QED
      BY <1>2, <3>1, <3>3, <3>4, <3>5
  <2>4. QED
    BY <2>2, <2>3
<1>11. ASSUME NEW i \in 1..Len(v), c # d PROVE v[i] = h[i]
  <2>1. Len(v) = n /\ Len(h) = n /\ Len(u) = k /\ i \in 1..n /\ i \in 1..(m + Len(u) - 1)
    BY <1>2, <1>6, <1>7, <1>9, <1>11
  <2>2. CASE i = n /\ k = 1
    <3>1. i = m /\ m \in 1..m /\ 1 \in 1..k
      BY <1>2, <2>2
    <3>2. v[i] = Append(g[i], c) /\ u[1] = Append(y[1], c)
      BY <1>6, <1>7, <1>11, <2>2
    <3>3. g[i] = x[m] \o y[1] /\ h[i] = x[m] \o u[1]
      BY <1>4, <1>5, <2>1, <3>1
    <3>4. x[m] \in Seq(Alphabet) /\ y[1] \in Seq(Alphabet)
      BY <1>8, <3>1
    <3>5. \A p, q \in Seq(Alphabet) : Append(p \o q, c) = p \o Append(q, c)
      BY AppendConcat
    <3>6. Append(x[m] \o y[1], c) = x[m] \o Append(y[1], c)
      BY <3>4, <3>5
    <3>7. QED
      BY <3>2, <3>3, <3>6
  <2>3. CASE i = n /\ k # 1
    <3>1. i > m /\ i - m + 1 = k
      BY <1>2, <2>3
    <3>2. g[i] = y[k] /\ h[i] = u[k]
      BY <1>4, <1>5, <2>1, <3>1
    <3>3. QED
      BY <1>6, <1>7, <1>11, <2>3, <3>2
  <2>4. CASE i # n
    <3>1. v[i] = g[i]
      BY <1>7, <1>11, <2>1, <2>4
    <3>2. CASE i < m
      BY <1>4, <1>5, <2>1, <3>1, <3>2
    <3>3. CASE i = m
      <4>1. 1 \in 1..k /\ 1 # k
        BY <1>2, <2>4, <3>3
      <4>2. u[1] = y[1]
        BY <1>6, <1>11, <4>1
      <4>3. g[i] = x[i] \o y[1]
        BY <1>4, <2>1, <3>3
      <4>4. h[i] = x[i] \o u[1]
        BY <1>5, <2>1, <3>3
      <4>5. QED
        BY <3>1, <4>2, <4>3, <4>4
    <3>4. CASE i > m
      <4>1. i - m + 1 \in 1..k /\ i - m + 1 # k
        BY <1>2, <2>1, <2>4, <3>4
      <4>2. u[i - m + 1] = y[i - m + 1]
        BY <1>6, <1>11, <4>1
      <4>3. QED
        BY <1>4, <1>5, <2>1, <3>1, <3>4, <4>2
    <3>5. QED
      BY <1>2, <2>1, <3>2, <3>3, <3>4
  <2>5. QED
    BY <2>2, <2>3, <2>4
<1>12. v = h
  BY <1>1, <1>9, <1>10, <1>11, SeqEqual DEF Pieces
<1>13. QED
  BY <1>12 DEF v, h, g, u

(* strsep of a concatenation glues what strsep gives for its parts.         *)
LEMMA StrsepConcat ==
  ASSUME NEW a \in Seq(Alphabet), NEW b \in Seq(Alphabet), NEW d
  PROVE  strsep(a \o b, d) = Glue(strsep(a, d), strsep(b, d))
<1> DEFINE T == {r \in Seq(Alphabet) : strsep(a \o r, d) = Glue(strsep(a, d), strsep(r, d))}
           x == strsep(a, d)
<1>0. x \in Pieces
  BY StrsepType
<1>1. <<>> \in T
  <2> DEFINE y == << <<>> >>
  <2>1. y \in Pieces /\ Len(y) = 1 /\ y[1] = <<>>
    BY DEF Pieces
  <2>2. /\ Glue(x, y) \in Seq(Seq(Alphabet)) /\ x \in Seq(Seq(Alphabet)) /\ Len(x) \in Nat \ {0}
        /\ Len(Glue(x, y)) = Len(x) + Len(y) - 1 /\ \A i \in 1..Len(x) : x[i] \in Seq(Alphabet)
    BY <1>0, <2>1, GlueType DEF Pieces
  <2> HIDE DEF x, y
  <2>3. Len(Glue(x, y)) = Len(x)
    BY <2>1, <2>2
  <2>4. ASSUME NEW i \in 1..Len(x) PROVE Glue(x, y)[i] = x[i]
    <3>1. i \in 1..(Len(x) + Len(y) - 1) /\ i <= Len(x)
      BY <2>1, <2>2
    <3>2. i < Len(x) \/ i = Len(x)
      BY <2>2, <3>1
    <3>3. x[i] \o <<>> = x[i]
      BY <2>2, ConcatEmptySeq
    <3>4. /\ i < Len(x) => Glue(x, y)[i] = x[i]
          /\ i = Len(x) => Glue(x, y)[i] = x[i] \o y[1]
      BY <1>0, <2>1, <3>1, GlueElements
    <3>5. QED
      BY <2>1, <3>2, <3>3, <3>4
  <2>5. Glue(x, y) = x
    BY <2>2, <2>3, <2>4, SeqEqual
  <2>6. a \o <<>> = a /\ strsep(<<>>, d) = y /\ <<>> \in Seq(Alphabet)
    BY ConcatEmptySeq, StrsepEmpty DEF y
  <2>7. QED
    BY <2>5, <2>6 DEF x
<1>2. ASSUME NEW r \in T, NEW c \in Alphabet PROVE Append(r, c) \in T
  <2>1. r \in Seq(Alphabet) /\ strsep(a \o r, d) = Glue(x, strsep(r, d))
    OBVIOUS
  <2>2. Append(r, c) \in Seq(Alphabet) /\ a \o r \in Seq(Alphabet) /\ a \o Append(r, c) = Append(a \o r, c)
    BY <2>1
  <2>3. strsep(a \o Append(r, c), d) = Take(Glue(x, strsep(r, d)), c, d)
    <3>1. \A w \in Seq(Alphabet) : strsep(Append(w, c), d) = Take(strsep(w, d), c, d)
      BY StrsepAppend
    <3>2. strsep(Append(a \o r, c), d) = Take(strsep(a \o r, d), c, d)
      BY <2>2, <3>1
    <3>3. QED
      BY <2>1, <2>2, <3>2
  <2>4. strsep(Append(r, c), d) = Take(strsep(r, d), c, d)
    BY <2>1, StrsepAppend
  <2>5. strsep(r, d) \in Pieces
    BY <2>1, StrsepType
  <2>6. Take(Glue(x, strsep(r, d)), c, d) = Glue(x, Take(strsep(r, d), c, d))
    BY <1>0, <2>5, TakeGlue
  <2>7. QED
    BY <2>2, <2>3, <2>4, <2>6
<1>3. T \in SUBSET Seq(Alphabet)
  OBVIOUS
<1> HIDE DEF T
<1>4. T = Seq(Alphabet)
  BY <1>1, <1>2, <1>3, AppendInduction
<1>5. QED
  BY <1>4 DEF T

-----------------------------------------------------------------------------
(* Front, Last and Tail of the sequences at hand. *)

(* A text that ends with a certain character is a shorter one and that.     *)
LEMMA FrontAppend ==
  ASSUME NEW s \in Seq(Alphabet), s # <<>>
  PROVE  /\ Front(s) \in Seq(Alphabet) /\ Last(s) \in Alphabet
         /\ s = Append(Front(s), Last(s))
<1>1. /\ Front(s) \in Seq(Alphabet) /\ Last(s) \in Alphabet /\ Last(s) = s[Len(s)]
      /\ Len(s) \in Nat \ {0} /\ Len(Front(s)) = Len(s) - 1
      /\ \A i \in 1..(Len(s) - 1) : Front(s)[i] = s[i]
  BY FrontLast
<1> DEFINE f == Front(s)
           l == Last(s)
           t == Append(f, l)
<1> HIDE DEF f, l
<1>2. /\ t \in Seq(Alphabet) /\ Len(t) = Len(f) + 1 /\ t[Len(f) + 1] = l
      /\ \A i \in 1..Len(f) : t[i] = f[i]
  BY <1>1, AppendProperties DEF f, l
<1> HIDE DEF t
<1>3. Len(t) = Len(s) /\ Len(f) + 1 = Len(s) /\ Len(f) = Len(s) - 1
  BY <1>1, <1>2 DEF f
<1>4. \A i \in 1..Len(s) : i = Len(s) \/ i \in 1..(Len(s) - 1)
  BY <1>1
<1>5. \A i \in 1..Len(s) : s[i] = t[i]
  BY <1>1, <1>2, <1>3, <1>4 DEF f, l
<1>6. s = t
  BY <1>2, <1>3, <1>5, SeqEqual
<1>7. QED
  BY <1>1, <1>6 DEF t, f, l

-----------------------------------------------------------------------------
(* Lines without their carriage returns. *)

Strip(p) == IF p # <<>> /\ Last(p) = CR THEN Front(p) ELSE p

(* Strip shortens a text by a character at most.                            *)
LEMMA StripType ==
  ASSUME NEW p \in Seq(Alphabet)
  PROVE  Strip(p) \in Seq(Alphabet) /\ Len(Strip(p)) <= Len(p)
<1>1. Len(p) \in Nat
  BY LenProperties
<1>2. CASE p # <<>> /\ Last(p) = CR
  <2>1. Front(p) \in Seq(Alphabet) /\ Len(Front(p)) = Len(p) - 1
    BY <1>2, FrontLast
  <2>2. QED
    BY <1>1, <1>2, <2>1 DEF Strip
<1>3. CASE ~(p # <<>> /\ Last(p) = CR)
  BY <1>1, <1>3 DEF Strip
<1>4. QED
  BY <1>2, <1>3

(* A carriage return at the end of a concatenation is one at the end of the *)
(* second part.                                                             *)
LEMMA StripConcat ==
  ASSUME NEW p \in Seq(Alphabet), NEW q \in Seq(Alphabet),
         p # <<>> /\ Last(p) = CR => q = <<>>
  PROVE  Strip(p \o q) = Strip(p) \o Strip(q)
<1>1. CASE q = <<>>
  <2>1. p \o q = p /\ Strip(q) = <<>>
    BY <1>1, ConcatEmptySeq DEF Strip
  <2>2. Strip(p) \o <<>> = Strip(p)
    BY StripType, ConcatEmptySeq
  <2>3. QED
    BY <2>1, <2>2
<1>2. CASE q # <<>>
  <2>1. Strip(p) = p
    BY <1>2 DEF Strip
  <2>2. Front(q) \in Seq(Alphabet) /\ Last(q) \in Alphabet /\ q = Append(Front(q), Last(q))
    BY <1>2, FrontAppend
  <2> DEFINE f == Front(q)
             l == Last(q)
  <2> HIDE DEF f, l
  <2>3. p \o f \in Seq(Alphabet) /\ p \o q = Append(p \o f, l)
    <3>1. p \o f \in Seq(Alphabet)
      BY <2>2, ConcatProperties DEF f
    <3>2. Append(p \o f, l) = p \o Append(f, l)
      BY <2>2, AppendConcat DEF f, l
    <3>3. QED
      BY <2>2, <3>1, <3>2 DEF f, l
  <2>4. Front(p \o q) = p \o f /\ Last(p \o q) = l /\ p \o q # <<>>
    <3>1. l \in Alphabet
      BY <2>2 DEF l
    <3> DEFINE w == p \o f
    <3>2. w \in Seq(Alphabet) /\ p \o q = Append(w, l)
      BY <2>3
    <3> HIDE DEF w
    <3>3. Front(Append(w, l)) = w /\ Last(Append(w, l)) = l /\ Append(w, l) # <<>>
      BY <3>1, <3>2, AppendFront, AppendProperties
    <3>4. QED
      BY <3>2, <3>3 DEF w
  <2>5. CASE l = CR
    BY <1>2, <2>1, <2>4, <2>5 DEF Strip, l, f
  <2>6. CASE l # CR
    BY <1>2, <2>1, <2>4, <2>6 DEF Strip, l
  <2>7. QED
    BY <2>5, <2>6
<1>3. QED
  BY <1>1, <1>2

(* str_chomp takes the carriage return of a piece.                          *)
LEMMA ChompPiece ==
  ASSUME NEW p \in Seq(Alphabet), \A j \in 1..Len(p) : p[j] # LF
  PROVE  str_chomp(p) = Strip(p)
<1>1. ~(p # <<>> /\ Last(p) = LF)
  <2>1. p # <<>> => Last(p) = p[Len(p)] /\ Len(p) \in Nat \ {0}
    BY FrontLast
  <2>2. QED
    BY <2>1
<1>2. QED
  BY <1>1 DEF str_chomp, Strip

(* The pieces of a text without their carriage returns.                     *)
All(s) == [n \in 1..Len(strsep(s, LF)) |-> Strip(strsep(s, LF)[n])]

(* They are texts no longer than s.                                         *)
LEMMA AllType ==
  ASSUME NEW s \in Seq(Alphabet)
  PROVE  /\ All(s) \in Pieces /\ All(s) \in Seq(Seq(Alphabet))
         /\ Len(All(s)) \in Nat \ {0} /\ Len(All(s)) = Len(strsep(s, LF))
         /\ \A i \in 1..Len(All(s)) :
              All(s)[i] = Strip(strsep(s, LF)[i]) /\ Len(All(s)[i]) <= Len(s)
<1> DEFINE t == strsep(s, LF)
<1>1. t \in Seq(Seq(Alphabet)) /\ Len(t) \in Nat \ {0}
  BY StrsepType, EmptySeq DEF Pieces
<1>2. \A i \in 1..Len(t) : t[i] \in Seq(Alphabet)
  BY <1>1, ElementOfSeq
<1>3. \A i \in 1..Len(t) : Len(t[i]) <= Len(s)
  BY Piecewise DEF PieceFacts
<1>4. \A i \in 1..Len(t) : All(s)[i] = Strip(t[i])
  BY DEF All
<1>5. \A i \in 1..Len(t) : All(s)[i] \in Seq(Alphabet)
  BY <1>2, <1>4, StripType
<1>6. All(s) \in [1..Len(t) -> Seq(Alphabet)]
  BY <1>5 DEF All
<1>7. All(s) \in Seq(Seq(Alphabet)) /\ Len(All(s)) = Len(t)
  <2> DEFINE n == Len(t)
             w == All(s)
  <2>1. n \in Nat /\ w \in [1..n -> Seq(Alphabet)]
    BY <1>1, <1>6
  <2> HIDE DEF n, w
  <2>2. w \in Seq(Seq(Alphabet)) /\ Len(w) = n
    BY <2>1
  <2>3. QED
    BY <2>2 DEF n, w
<1>8. ASSUME NEW i \in 1..Len(t) PROVE Len(All(s)[i]) <= Len(s)
  <2>1. Len(Strip(t[i])) <= Len(t[i]) /\ Len(t[i]) \in Nat /\ Strip(t[i]) \in Seq(Alphabet)
    BY <1>2, StripType, LenProperties
  <2>2. Len(Strip(t[i])) \in Nat /\ Len(s) \in Nat /\ Len(t[i]) <= Len(s)
    BY <1>3, <2>1, LenProperties
  <2>3. QED
    BY <1>4, <2>1, <2>2
<1> HIDE DEF t
<1>9. All(s) # <<>>
  BY <1>1, <1>7
<1>10. QED
  BY <1>1, <1>4, <1>7, <1>8, <1>9 DEF Pieces, t

(* LinesOf in terms of All.                                                 *)
LEMMA LinesOfAll ==
  ASSUME NEW s
  PROVE  LinesOf(s) = IF s = <<>> \/ Last(s) = LF THEN Front(All(s)) ELSE All(s)
BY DEF LinesOf, All, Strip

(* A line feed at the end adds an empty piece.                              *)
LEMMA AllLF ==
  ASSUME NEW u \in Seq(Alphabet), LF \in Alphabet
  PROVE  All(Append(u, LF)) = Append(All(u), <<>>)
<1> DEFINE s == Append(u, LF)
           k == Len(All(u))
           v == Append(All(u), <<>>)
<1>1. s \in Seq(Alphabet) /\ strsep(s, LF) = Take(strsep(u, LF), LF, LF) /\ strsep(u, LF) \in Pieces
  BY StrsepAppend, StrsepType, AppendProperties
<1>2. /\ Len(strsep(s, LF)) = k + 1 /\ strsep(s, LF)[k + 1] = <<>>
      /\ \A i \in 1..k : strsep(s, LF)[i] = strsep(u, LF)[i]
  <2>1. k = Len(strsep(u, LF))
    BY AllType
  <2>2. QED
    BY <1>1, <2>1, TakeElements
<1>3. All(s) \in Seq(Seq(Alphabet)) /\ Len(All(s)) = k + 1
  BY <1>1, <1>2, AllType
<1>4. All(u) \in Seq(Seq(Alphabet)) /\ <<>> \in Seq(Alphabet) /\ k \in Nat \ {0}
  BY AllType
<1>5. /\ v \in Seq(Seq(Alphabet)) /\ Len(v) = k + 1 /\ v[k + 1] = <<>>
      /\ \A i \in 1..k : v[i] = All(u)[i]
  BY <1>4, AppendProperties
<1>6. ASSUME NEW i \in 1..(k + 1) PROVE All(s)[i] = v[i]
  <2>1. All(s)[i] = Strip(strsep(s, LF)[i])
    BY <1>1, <1>3, AllType
  <2>2. CASE i = k + 1
    BY <1>2, <1>5, <2>1, <2>2 DEF Strip
  <2>3. CASE i \in 1..k
    <3>1. All(u)[i] = Strip(strsep(u, LF)[i])
      BY <2>3, AllType
    <3>2. QED
      BY <1>2, <1>5, <2>1, <2>3, <3>1
  <2>4. QED
    BY <1>4, <2>2, <2>3
<1> HIDE DEF s, v, k
<1>7. All(s) = v
  BY <1>3, <1>5, <1>6, SeqEqual
<1>8. QED
  BY <1>7 DEF s, v

(* Carriage returns come before line feeds only.                            *)
PairedCR(s) == \A i \in 1..(Len(s) - 1) : s[i] = CR => s[i + 1] = LF

(* With those, a carriage return at the end makes no difference.            *)
LEMMA AllStrip ==
  ASSUME NEW u \in Seq(Alphabet), PairedCR(u)
  PROVE  All(Strip(u)) = All(u) /\ Strip(u) \in Seq(Alphabet)
<1>1. CASE ~(u # <<>> /\ Last(u) = CR)
  BY <1>1 DEF Strip
<1>2. CASE u # <<>> /\ Last(u) = CR
  <2> DEFINE v == Front(u)
             x == strsep(v, LF)
             y == strsep(u, LF)
             k == Len(x)
  <2>1. v \in Seq(Alphabet) /\ CR \in Alphabet /\ u = Append(v, CR) /\ Strip(u) = v
    BY <1>2, FrontAppend DEF Strip
  <2>2. x \in Pieces /\ y = Take(x, CR, LF) /\ CR # LF
    <3>1. CR # LF
      BY DEF CR, LF
    <3>2. QED
      BY <2>1, <3>1, StrsepType, StrsepAppend
  <2> HIDE DEF v
  <2>3. /\ k \in Nat \ {0} /\ Len(y) = k /\ y[k] = Append(x[k], CR) /\ x[k] \in Seq(Alphabet)
        /\ \A i \in 1..k : i # k => y[i] = x[i]
    <3>1. /\ k \in Nat \ {0} /\ Len(y) = k /\ y[k] = Append(x[k], CR)
          /\ \A i \in 1..k : x[i] \in Seq(Alphabet)
          /\ \A i \in 1..k : i # k => y[i] = x[i]
      <4> HIDE DEF x
      <4>1. QED
        BY <2>1, <2>2, TakeElements
    <3>2. QED
      BY <3>1
  <2>4. ~(x[k] # <<>> /\ Last(x[k]) = CR)
    <3>1. SUFFICES ASSUME x[k] # <<>>, Last(x[k]) = CR PROVE FALSE
      OBVIOUS
    <3>2. Last(x[k]) = x[k][Len(x[k])]
      BY <2>3, <3>1, FrontLast
    <3>3. v # <<>> /\ x[k][Len(x[k])] = v[Len(v)]
      BY <2>1, <3>1, Piecewise DEF PieceFacts
    <3>4. Len(v) \in Nat \ {0}
      BY <2>1, <3>3, EmptySeq
    <3>5. Len(u) = Len(v) + 1 /\ u[Len(v)] = CR /\ u[Len(v) + 1] = CR
      <4>1. Len(v) \in 1..Len(v)
        BY <3>4
      <4>2. Len(u) = Len(v) + 1 /\ u[Len(v)] = v[Len(v)] /\ u[Len(v) + 1] = CR
        BY <2>1, <4>1, AppendProperties
      <4>3. QED
        BY <3>1, <3>2, <3>3, <4>2
    <3>6. Len(v) \in 1..(Len(u) - 1)
      BY <3>4, <3>5
    <3>7. u[Len(v) + 1] = LF
      BY <3>5, <3>6 DEF PairedCR
    <3>8. QED
      BY <2>2, <3>5, <3>7
  <2>5. Strip(y[k]) = x[k] /\ Strip(x[k]) = x[k]
    <3>1. y[k] # <<>> /\ Front(y[k]) = x[k] /\ Last(y[k]) = CR
      BY <2>1, <2>3, AppendFront, AppendProperties
    <3>2. QED
      BY <2>4, <3>1 DEF Strip
  <2>6. \A i \in 1..k : Strip(y[i]) = Strip(x[i])
    BY <2>3, <2>5
  <2>7. /\ All(v) \in Seq(Seq(Alphabet)) /\ Len(All(v)) = k /\ All(u) \in Seq(Seq(Alphabet))
        /\ Len(All(u)) = k /\ \A i \in 1..k : All(v)[i] = Strip(x[i]) /\ All(u)[i] = Strip(y[i])
    BY <2>1, <2>3, AllType
  <2>8. All(v) = All(u)
    BY <2>6, <2>7, SeqEqual
  <2>9. QED
    BY <2>1, <2>8
<1>3. QED
  BY <1>1, <1>2

(* str_split takes a text apart into its lines.                             *)
LEMMA SplitIsLines ==
  ASSUME NEW s \in Seq(Alphabet), s # <<>>, PairedCR(s)
  PROVE  str_split(s, LF) = LinesOf(s)
<1>1. ASSUME NEW w \in Seq(Alphabet), str_chomp(s) = w
      PROVE  str_split(s, LF) = All(w)
  <2> DEFINE t == strsep(w, LF)
  <2>1. str_split(s, LF) = [n \in 1..Len(t) |-> str_chomp(t[n])]
    BY <1>1 DEF str_split
  <2>2. \A n \in 1..Len(t) : t[n] \in Seq(Alphabet) /\ \A j \in 1..Len(t[n]) : t[n][j] # LF
    <3>1. t \in Seq(Seq(Alphabet))
      BY StrsepType DEF Pieces
    <3>2. \A n \in 1..Len(t) : t[n] \in Seq(Alphabet)
      BY <3>1, ElementOfSeq
    <3>3. PieceFacts(w, LF)
      BY Piecewise
    <3>4. \A n \in 1..Len(t) : \A j \in 1..Len(t[n]) : t[n][j] # LF
      BY <3>3 DEF PieceFacts
    <3>5. QED
      BY <3>2, <3>4
  <2>3. \A n \in 1..Len(t) : str_chomp(t[n]) = Strip(t[n])
    BY <2>2, ChompPiece
  <2>4. QED
    BY <2>1, <2>3 DEF All
<1>2. CASE Last(s) = LF
  <2> DEFINE u == Front(s)
  <2>1. u \in Seq(Alphabet) /\ LF \in Alphabet /\ s = Append(u, LF) /\ str_chomp(s) = Strip(u)
    BY <1>2, FrontAppend DEF str_chomp, Strip
  <2> HIDE DEF u
  <2>2. PairedCR(u)
    <3>1. Len(u) \in Nat /\ Len(s) = Len(u) + 1 /\ \A i \in 1..Len(u) : s[i] = u[i]
      BY <2>1, AppendProperties, LenProperties
    <3>2. \A i \in 1..(Len(u) - 1) : i \in 1..(Len(s) - 1) /\ i \in 1..Len(u) /\ i + 1 \in 1..Len(u)
      BY <3>1
    <3>3. QED
      BY <3>1, <3>2 DEF PairedCR
  <2>3. All(Strip(u)) = All(u) /\ Strip(u) \in Seq(Alphabet)
    BY <2>1, <2>2, AllStrip
  <2>4. str_split(s, LF) = All(u)
    BY <1>1, <2>1, <2>3
  <2>5. LinesOf(s) = Front(All(s)) /\ All(s) = Append(All(u), <<>>)
    BY <1>2, <2>1, LinesOfAll, AllLF
  <2>6. Front(Append(All(u), <<>>)) = All(u)
    <3>1. All(u) \in Seq(Seq(Alphabet)) /\ <<>> \in Seq(Alphabet)
      BY <2>1, AllType
    <3>2. QED
      BY <3>1, AppendFront
  <2>7. QED
    BY <2>4, <2>5, <2>6
<1>3. CASE Last(s) # LF
  <2>1. str_chomp(s) = Strip(s)
    BY <1>3 DEF str_chomp, Strip
  <2>2. QED
    BY <1>1, <1>3, <2>1, AllStrip, LinesOfAll
<1>4. QED
  BY <1>2, <1>3

-----------------------------------------------------------------------------
(* The lines of a stream that comes in two parts. *)

(* A line feed at the beginning ends an empty piece.                        *)
LEMMA FirstPiece ==
  ASSUME NEW b \in Seq(Alphabet), b # <<>>, b[1] = LF
  PROVE  strsep(b, LF)[1] = <<>>
<1> DEFINE T == {r \in Seq(Alphabet) : r # <<>> /\ r[1] = LF => strsep(r, LF)[1] = <<>>}
<1>1. <<>> \in T
  OBVIOUS
<1>2. ASSUME NEW r \in T, NEW c \in Alphabet PROVE Append(r, c) \in T
  <2> DEFINE t == strsep(r, LF)
             u == strsep(Append(r, c), LF)
             k == Len(t)
  <2>1. r \in Seq(Alphabet)
    OBVIOUS
  <2>2. t \in Pieces /\ u = Take(t, c, LF)
    BY <2>1, StrsepType, StrsepAppend
  <2>3. /\ k \in Nat \ {0}
        /\ c = LF => \A i \in 1..k : u[i] = t[i]
        /\ c # LF => \A i \in 1..k : i # k => u[i] = t[i]
    <3> HIDE DEF t
    <3>1. QED
      BY <2>2, TakeElements
  <2>4. /\ Append(r, c) \in Seq(Alphabet) /\ Len(r) \in Nat
        /\ \A i \in 1..Len(r) : Append(r, c)[i] = r[i]
        /\ Append(r, c)[Len(r) + 1] = c
    BY <2>1, AppendProperties, LenProperties
  <2>5. SUFFICES ASSUME Append(r, c)[1] = LF PROVE u[1] = <<>>
    BY <2>4
  <2>6. CASE r = <<>>
    <3>1. t = << <<>> >> /\ Len(r) = 0 /\ c = LF
      BY <2>4, <2>5, <2>6, StrsepEmpty
    <3>2. t[1] = <<>> /\ 1 \in 1..k
      BY <2>3, <3>1
    <3>3. QED
      BY <2>3, <3>1, <3>2
  <2>7. CASE r # <<>>
    <3>1. Len(r) \in Nat \ {0}
      BY <2>1, <2>7, EmptySeq
    <3>2. 1 \in 1..Len(r) /\ 1 \in 1..k
      BY <2>3, <3>1
    <3>3. r[1] = LF
      BY <2>4, <2>5, <3>2
    <3>4. t[1] = <<>>
      BY <2>7, <3>3
    <3>5. PieceFacts(r, LF) /\ \E j \in 1..Len(r) : r[j] = LF
      BY <2>1, <3>2, <3>3, Piecewise
    <3>6. k > 1
      BY <3>5 DEF PieceFacts
    <3>7. 1 # k
      BY <2>3, <3>6
    <3>8. QED
      BY <2>3, <3>2, <3>4, <3>7
  <2>8. QED
    BY <2>6, <2>7
<1>3. T \in SUBSET Seq(Alphabet)
  OBVIOUS
<1> HIDE DEF T
<1>4. T = Seq(Alphabet)
  BY <1>1, <1>2, <1>3, AppendInduction
<1>5. QED
  BY <1>4 DEF T

(* b may follow a, whose carriage return at the end it completes.           *)
Follows(a, b) == a # <<>> /\ Last(a) = CR /\ b # <<>> => b[1] = LF

(* Then stripping the pieces and gluing them commute.                       *)
LEMMA AllConcat ==
  ASSUME NEW a \in Seq(Alphabet), NEW b \in Seq(Alphabet), Follows(a, b)
  PROVE  All(a \o b) = Glue(All(a), All(b)) /\ a \o b \in Seq(Alphabet)
<1> DEFINE x == strsep(a, LF)
           y == strsep(b, LF)
           X == All(a)
           Y == All(b)
           Z == All(a \o b)
           m == Len(x)
           n == Len(x) + Len(y) - 1
<1>1. a \o b \in Seq(Alphabet) /\ strsep(a \o b, LF) = Glue(x, y) /\ x \in Pieces /\ y \in Pieces
  BY ConcatProperties, StrsepConcat, StrsepType
<1>2. /\ X \in Pieces /\ Len(X) = m /\ \A i \in 1..m : X[i] = Strip(x[i])
      /\ Y \in Pieces /\ Len(Y) = Len(y) /\ \A i \in 1..Len(y) : Y[i] = Strip(y[i])
  BY AllType
<1>3. Glue(X, Y) \in Seq(Seq(Alphabet)) /\ Len(Glue(X, Y)) = n
  <2> HIDE DEF X, Y, x, y
  <2>1. QED
    BY <1>2, GlueType DEF Pieces
<1>4. /\ m \in Nat \ {0} /\ Len(y) \in Nat \ {0} /\ Len(Glue(x, y)) = n
      /\ \A i \in 1..m : x[i] \in Seq(Alphabet)
      /\ \A i \in 1..Len(y) : y[i] \in Seq(Alphabet)
  <2> HIDE DEF x, y
  <2>1. QED
    BY <1>1, GlueType
<1>5. Z \in Seq(Seq(Alphabet)) /\ Len(Z) = n /\ \A i \in 1..n : Z[i] = Strip(Glue(x, y)[i])
  <2> DEFINE w == a \o b
  <2>1. /\ All(w) \in Seq(Seq(Alphabet)) /\ Len(All(w)) = Len(strsep(w, LF))
        /\ \A i \in 1..Len(All(w)) : All(w)[i] = Strip(strsep(w, LF)[i])
    <3> HIDE DEF w
    <3>1. w \in Seq(Alphabet)
      BY <1>1 DEF w
    <3>2. QED
      BY <3>1, AllType
  <2>2. QED
    BY <1>1, <1>4, <2>1
<1>6. \A i \in 1..n : /\ i < m => Glue(x, y)[i] = x[i]
                      /\ i = m => Glue(x, y)[i] = x[i] \o y[1]
                      /\ i > m => Glue(x, y)[i] = y[i - m + 1] /\ i - m + 1 \in 2..Len(y)
  <2> HIDE DEF x, y
  <2>1. QED
    BY <1>1, GlueElements
<1>7. \A i \in 1..n : /\ i < m => Glue(X, Y)[i] = X[i]
                      /\ i = m => Glue(X, Y)[i] = X[i] \o Y[1]
                      /\ i > m => Glue(X, Y)[i] = Y[i - m + 1]
  <2> HIDE DEF X, Y
  <2>1. \A i \in 1..(Len(X) + Len(Y) - 1) :
           /\ i < Len(X) => Glue(X, Y)[i] = X[i]
           /\ i = Len(X) => Glue(X, Y)[i] = X[i] \o Y[1]
           /\ i > Len(X) => Glue(X, Y)[i] = Y[i - Len(X) + 1]
    BY <1>2, GlueElements
  <2>2. QED
    BY <1>2, <2>1
<1>8. Strip(x[m] \o y[1]) = Strip(x[m]) \o Strip(y[1])
  <2>1. x[m] \in Seq(Alphabet) /\ y[1] \in Seq(Alphabet)
    BY <1>4
  <2>2. ASSUME x[m] # <<>>, Last(x[m]) = CR PROVE y[1] = <<>>
    <3>1. Last(x[m]) = x[m][Len(x[m])]
      BY <2>1, <2>2, FrontLast
    <3>2. PieceFacts(a, LF)
      BY Piecewise
    <3>3. a # <<>> /\ x[m][Len(x[m])] = a[Len(a)]
      BY <2>2, <3>2 DEF PieceFacts
    <3>4. Last(a) = CR
      BY <2>2, <3>1, <3>3, FrontLast
    <3>5. CASE b = <<>>
      BY <3>5, StrsepEmpty
    <3>6. CASE b # <<>>
      <4>1. b[1] = LF
        BY <3>3, <3>4, <3>6 DEF Follows
      <4>2. QED
        BY <3>6, <4>1, FirstPiece
    <3>7. QED
      BY <3>5, <3>6
  <2> HIDE DEF x, y, m
  <2>3. QED
    BY <2>1, <2>2, StripConcat
<1> HIDE DEF x, y, X, Y, Z, m, n
<1>9. ASSUME NEW i \in 1..n PROVE Z[i] = Glue(X, Y)[i]
  <2>1. i \in Int /\ n \in Int /\ 1 <= i /\ i <= n
    BY <1>4 DEF n, m
  <2>2. CASE i < m
    <3>1. i \in 1..m
      BY <1>4, <2>1, <2>2
    <3>2. Glue(x, y)[i] = x[i] /\ Glue(X, Y)[i] = X[i]
      BY <1>6, <1>7, <2>2
    <3>3. Z[i] = Strip(Glue(x, y)[i]) /\ X[i] = Strip(x[i])
      BY <1>2, <1>5, <3>1
    <3>4. QED
      BY <3>2, <3>3
  <2>3. CASE i = m
    <3>1. m \in 1..m /\ 1 \in 1..Len(y)
      BY <1>4
    <3>2. X[m] = Strip(x[m]) /\ Y[1] = Strip(y[1])
      BY <1>2, <3>1
    <3>3. Glue(x, y)[i] = x[m] \o y[1] /\ Glue(X, Y)[i] = X[m] \o Y[1]
      BY <1>6, <1>7, <2>3
    <3>4. Z[i] = Strip(Glue(x, y)[i])
      BY <1>5
    <3>5. QED
      BY <1>8, <3>2, <3>3, <3>4
  <2>4. CASE i > m
    <3>1. Glue(x, y)[i] = y[i - m + 1] /\ i - m + 1 \in 2..Len(y) /\ Glue(X, Y)[i] = Y[i - m + 1]
      BY <1>6, <1>7, <2>4
    <3>2. i - m + 1 \in 1..Len(y)
      BY <1>4, <3>1
    <3>3. Y[i - m + 1] = Strip(y[i - m + 1])
      BY <1>2, <3>2
    <3>4. QED
      BY <1>5, <3>1, <3>3
  <2>5. QED
    BY <1>4, <2>1, <2>2, <2>3, <2>4
<1>10. Z = Glue(X, Y)
  BY <1>3, <1>5, <1>9, SeqEqual
<1>11. QED
  BY <1>1, <1>10 DEF Z, X, Y

(* Gluing to a sequence that ends in an empty piece only drops this.        *)
LEMMA GlueToEmpty ==
  ASSUME NEW x \in Pieces, NEW y \in Pieces, x[Len(x)] = <<>>
  PROVE  Glue(x, y) = Front(x) \o y
<1> DEFINE m == Len(x)
           k == Len(y)
           g == Glue(x, y)
           h == Front(x) \o y
<1>1. /\ g \in Seq(Seq(Alphabet)) /\ Len(g) = m + k - 1 /\ m \in Nat \ {0} /\ k \in Nat \ {0}
      /\ y \in Seq(Seq(Alphabet))
  BY GlueType DEF Pieces
<1>2. /\ Front(x) \in Seq(Seq(Alphabet)) /\ Len(Front(x)) = m - 1
      /\ \A i \in 1..(m - 1) : Front(x)[i] = x[i]
  BY FrontLast DEF Pieces
<1>3. /\ h \in Seq(Seq(Alphabet)) /\ Len(h) = m - 1 + k
      /\ \A i \in 1..(m - 1 + k) : h[i] = IF i <= m - 1 THEN Front(x)[i] ELSE y[i - (m - 1)]
  <2> DEFINE f == Front(x)
  <2>1. f \in Seq(Seq(Alphabet)) /\ Len(f) = m - 1
    BY <1>2
  <2> HIDE DEF f
  <2>2. /\ f \o y \in Seq(Seq(Alphabet)) /\ Len(f \o y) = Len(f) + k
        /\ \A i \in 1..(Len(f) + k) : (f \o y)[i] = IF i <= Len(f) THEN f[i] ELSE y[i - Len(f)]
    BY <1>1, <2>1, ConcatProperties
  <2>3. QED
    BY <2>1, <2>2 DEF f
<1>4. \A i \in 1..(m + k - 1) : /\ i < m => g[i] = x[i]
                                /\ i = m => g[i] = x[i] \o y[1]
                                /\ i > m => g[i] = y[i - m + 1]
  BY GlueElements
<1>5. x[m] \o y[1] = y[1]
  <2>1. 1 \in 1..k
    BY <1>1
  <2>2. y[1] \in Seq(Alphabet)
    BY <1>1, <2>1, ElementOfSeq
  <2>3. QED
    BY <2>2, ConcatEmptySeq
<1>6. m + k - 1 = m - 1 + k
  BY <1>1
<1> HIDE DEF g, h, m, k
<1>7. ASSUME NEW i \in 1..(m + k - 1) PROVE g[i] = h[i]
  <2>1. CASE i < m
    <3>1. i <= m - 1 /\ i \in 1..(m - 1) /\ i \in 1..(m - 1 + k)
      BY <1>1, <2>1
    <3>2. QED
      BY <1>2, <1>3, <1>4, <2>1, <3>1
  <2>2. CASE i = m
    <3>1. ~(i <= m - 1) /\ i - (m - 1) = 1 /\ i \in 1..(m - 1 + k)
      BY <1>1, <2>2
    <3>2. h[i] = y[1]
      BY <1>3, <3>1
    <3>3. QED
      BY <1>4, <1>5, <2>2, <3>2
  <2>3. CASE i > m
    <3>1. ~(i <= m - 1) /\ i - (m - 1) = i - m + 1 /\ i \in 1..(m - 1 + k)
      BY <1>1, <2>3
    <3>2. h[i] = y[i - m + 1]
      BY <1>3, <3>1
    <3>3. QED
      BY <1>4, <2>3, <3>2
  <2>4. QED
    BY <1>1, <2>1, <2>2, <2>3
<1>8. g = h
  BY <1>1, <1>3, <1>6, <1>7, SeqEqual
<1>9. QED
  BY <1>8 DEF g, h

(* Front reaches into the second part of a concatenation.                   *)
LEMMA FrontConcat ==
  ASSUME NEW f \in Seq(Seq(Alphabet)), NEW y \in Pieces
  PROVE  Front(f \o y) = f \o Front(y)
<1> DEFINE h == f \o y
           e == Front(y)
           m == Len(f)
           k == Len(y)
<1>1. y \in Seq(Seq(Alphabet)) /\ y # <<>> /\ m \in Nat
  BY LenProperties DEF Pieces
<1>2. /\ e \in Seq(Seq(Alphabet)) /\ k \in Nat \ {0} /\ Len(e) = k - 1
      /\ \A i \in 1..(k - 1) : e[i] = y[i]
  BY <1>1, FrontLast
<1>3. /\ h \in Seq(Seq(Alphabet)) /\ Len(h) = m + k
      /\ \A i \in 1..(m + k) : h[i] = IF i <= m THEN f[i] ELSE y[i - m]
  BY <1>1, ConcatProperties
<1>4. h # <<>>
  <2>1. Len(h) # 0
    BY <1>1, <1>2, <1>3
  <2>2. QED
    BY <1>3, <2>1, EmptySeq
<1> HIDE DEF h, e
<1>5. /\ Front(h) \in Seq(Seq(Alphabet)) /\ Len(Front(h)) = Len(h) - 1
      /\ \A i \in 1..(Len(h) - 1) : Front(h)[i] = h[i]
  BY <1>3, <1>4, FrontLast
<1>6. /\ f \o e \in Seq(Seq(Alphabet)) /\ Len(f \o e) = m + Len(e)
      /\ \A i \in 1..(m + Len(e)) : (f \o e)[i] = IF i <= m THEN f[i] ELSE e[i - m]
  BY <1>2, ConcatProperties
<1> DEFINE v == f \o e
           w == Front(h)
<1> HIDE DEF v, w, m, k
<1>7. Len(h) - 1 = m + k - 1 /\ m + Len(e) = m + k - 1
  BY <1>1, <1>2, <1>3
<1>8. /\ v \in Seq(Seq(Alphabet)) /\ w \in Seq(Seq(Alphabet)) /\ Len(v) = Len(w)
      /\ Len(v) = m + k - 1
  BY <1>5, <1>6, <1>7 DEF v, w
<1>9. ASSUME NEW i \in 1..(m + k - 1) PROVE v[i] = w[i]
  <2>1. i \in 1..(Len(h) - 1) /\ i \in 1..(m + Len(e)) /\ i \in 1..(m + k)
    BY <1>1, <1>2, <1>7
  <2>2. w[i] = IF i <= m THEN f[i] ELSE y[i - m]
    BY <1>3, <1>5, <2>1 DEF w
  <2>3. v[i] = IF i <= m THEN f[i] ELSE e[i - m]
    BY <1>6, <2>1 DEF v
  <2>4. ~(i <= m) => i - m \in 1..(k - 1)
    BY <1>1, <1>2
  <2>5. QED
    BY <1>2, <2>2, <2>3, <2>4
<1>10. v = w
  BY <1>8, <1>9, SeqEqual
<1>11. QED
  BY <1>10 DEF v, w, h, e

(* And of sequences glued together, if anything is left of the second.      *)
LEMMA FrontGlue ==
  ASSUME NEW x \in Pieces, NEW y \in Pieces, Len(y) > 1
  PROVE  Front(y) \in Pieces /\ Front(Glue(x, y)) = Glue(x, Front(y))
<1> DEFINE g == Glue(x, y)
           e == Front(y)
           m == Len(x)
           k == Len(y)
<1>1. /\ g \in Pieces /\ Len(g) = m + k - 1 /\ m \in Nat \ {0} /\ k \in Nat \ {0}
  BY GlueType
<1>2. /\ e \in Seq(Seq(Alphabet)) /\ Len(e) = k - 1
      /\ \A i \in 1..(k - 1) : e[i] = y[i]
  BY FrontLast DEF Pieces
<1>3. e \in Pieces
  <2>1. Len(e) # 0
    BY <1>1, <1>2
  <2>2. QED
    BY <1>2, <2>1, EmptySeq DEF Pieces
<1>4. \A i \in 1..(m + k - 1) : /\ i < m => g[i] = x[i]
                                /\ i = m => g[i] = x[i] \o y[1]
                                /\ i > m => g[i] = y[i - m + 1]
  BY GlueElements
<1> HIDE DEF g, e
<1>5. /\ Front(g) \in Seq(Seq(Alphabet)) /\ Len(Front(g)) = Len(g) - 1
      /\ \A i \in 1..(Len(g) - 1) : Front(g)[i] = g[i]
  BY <1>1, FrontLast DEF Pieces
<1>6. /\ Glue(x, e) \in Pieces /\ Len(Glue(x, e)) = m + Len(e) - 1
  BY <1>3, GlueType
<1>7. \A i \in 1..(m + Len(e) - 1) : /\ i < m => Glue(x, e)[i] = x[i]
                                     /\ i = m => Glue(x, e)[i] = x[i] \o e[1]
                                     /\ i > m => Glue(x, e)[i] = e[i - m + 1]
  BY <1>3, GlueElements
<1> DEFINE v == Glue(x, e)
           w == Front(g)
<1> HIDE DEF v, w, m, k
<1>8. Len(g) - 1 = m + k - 2 /\ m + Len(e) - 1 = m + k - 2
  BY <1>1, <1>2
<1>9. /\ v \in Seq(Seq(Alphabet)) /\ w \in Seq(Seq(Alphabet)) /\ Len(v) = Len(w)
      /\ Len(v) = m + k - 2
  BY <1>5, <1>6, <1>8 DEF v, w, Pieces
<1>10. ASSUME NEW i \in 1..(m + k - 2) PROVE v[i] = w[i]
  <2>1. i \in 1..(Len(g) - 1) /\ i \in 1..(m + Len(e) - 1) /\ i \in 1..(m + k - 1)
    BY <1>1, <1>8
  <2>2. w[i] = g[i]
    BY <1>5, <2>1 DEF w
  <2>3. e[1] = y[1]
    <3>1. 1 \in 1..(k - 1)
      BY <1>1 DEF k
    <3>2. QED
      BY <1>2, <3>1
  <2>4. i > m => e[i - m + 1] = y[i - m + 1]
    <3>1. i > m => i - m + 1 \in 1..(k - 1)
      BY <1>1
    <3>2. QED
      BY <1>2, <3>1
  <2>5. /\ i < m => v[i] = x[i]
        /\ i = m => v[i] = x[i] \o e[1]
        /\ i > m => v[i] = e[i - m + 1]
    BY <1>7, <2>1 DEF v
  <2>6. /\ i < m => g[i] = x[i]
        /\ i = m => g[i] = x[i] \o y[1]
        /\ i > m => g[i] = y[i - m + 1]
    BY <1>4, <2>1
  <2>7. i < m \/ i = m \/ i > m
    BY <1>1
  <2>8. QED
    BY <2>2, <2>3, <2>4, <2>5, <2>6, <2>7
<1>11. v = w
  BY <1>9, <1>10, SeqEqual
<1>12. QED
  BY <1>3, <1>11 DEF v, w, g, e

(* Gluing does not concern what comes before.                               *)
LEMMA GlueAssoc ==
  ASSUME NEW f \in Seq(Seq(Alphabet)), NEW x \in Pieces, NEW y \in Pieces
  PROVE  f \o x \in Pieces /\ Glue(f \o x, y) = f \o Glue(x, y)
<1> DEFINE h == f \o x
           g == Glue(x, y)
           l == Len(f)
           m == Len(x)
           k == Len(y)
<1>1. /\ g \in Pieces /\ Len(g) = m + k - 1 /\ m \in Nat \ {0} /\ k \in Nat \ {0}
  BY GlueType
<1>2. /\ h \in Seq(Seq(Alphabet)) /\ Len(h) = l + m /\ l \in Nat
      /\ \A i \in 1..(l + m) : h[i] = IF i <= l THEN f[i] ELSE x[i - l]
  BY ConcatProperties, LenProperties DEF Pieces
<1>3. h \in Pieces
  <2>1. Len(h) # 0
    BY <1>1, <1>2
  <2>2. QED
    BY <1>2, <2>1, EmptySeq DEF Pieces
<1>4. \A i \in 1..(m + k - 1) : /\ i < m => g[i] = x[i]
                                /\ i = m => g[i] = x[i] \o y[1]
                                /\ i > m => g[i] = y[i - m + 1]
  BY GlueElements
<1> HIDE DEF g, h
<1>5. /\ f \o g \in Seq(Seq(Alphabet)) /\ Len(f \o g) = l + Len(g)
      /\ \A i \in 1..(l + Len(g)) : (f \o g)[i] = IF i <= l THEN f[i] ELSE g[i - l]
  BY <1>1, ConcatProperties DEF Pieces
<1>6. /\ Glue(h, y) \in Pieces /\ Len(Glue(h, y)) = Len(h) + k - 1
  BY <1>3, GlueType
<1>7. \A i \in 1..(Len(h) + k - 1) : /\ i < Len(h) => Glue(h, y)[i] = h[i]
                                     /\ i = Len(h) => Glue(h, y)[i] = h[i] \o y[1]
                                     /\ i > Len(h) => Glue(h, y)[i] = y[i - Len(h) + 1]
  BY <1>3, GlueElements
<1> DEFINE v == Glue(h, y)
           w == f \o g
           n == l + m + k - 1
<1> HIDE DEF v, w, m, k, l
<1>8. Len(h) + k - 1 = n /\ l + Len(g) = n
  BY <1>1, <1>2
<1>9. /\ v \in Seq(Seq(Alphabet)) /\ w \in Seq(Seq(Alphabet)) /\ Len(v) = Len(w)
      /\ Len(v) = n
  BY <1>5, <1>6, <1>8 DEF v, w, Pieces
<1>10. ASSUME NEW i \in 1..n PROVE v[i] = w[i]
  <2>1. i \in 1..(Len(h) + k - 1) /\ i \in 1..(l + Len(g)) /\ i \in Nat
    BY <1>8
  <2>2. w[i] = IF i <= l THEN f[i] ELSE g[i - l]
    BY <1>5, <2>1 DEF w
  <2>3. /\ i < l + m => v[i] = h[i]
        /\ i = l + m => v[i] = h[i] \o y[1]
        /\ i > l + m => v[i] = y[i - (l + m) + 1]
    BY <1>2, <1>7, <2>1 DEF v
  <2>4. CASE i <= l
    <3>1. i < l + m /\ i \in 1..(l + m)
      BY <1>1, <1>2, <2>4
    <3>2. QED
      BY <1>2, <2>2, <2>3, <2>4, <3>1
  <2>5. CASE i > l /\ i < l + m
    <3>1. ~(i <= l) /\ i \in 1..(l + m) /\ i - l \in 1..(m + k - 1) /\ i - l < m
      BY <1>1, <1>2, <2>5
    <3>2. w[i] = x[i - l]
      BY <1>4, <2>2, <3>1
    <3>3. v[i] = x[i - l]
      BY <1>2, <2>3, <2>5, <3>1
    <3>4. QED
      BY <3>2, <3>3
  <2>6. CASE i = l + m
    <3>1. ~(i <= l) /\ i \in 1..(l + m) /\ i - l \in 1..(m + k - 1) /\ i - l = m
      BY <1>1, <1>2, <2>6
    <3>2. w[i] = x[m] \o y[1]
      BY <1>4, <2>2, <3>1
    <3>3. h[i] = x[m]
      BY <1>2, <3>1
    <3>4. QED
      BY <2>3, <2>6, <3>2, <3>3
  <2>7. CASE i > l + m
    <3>1. ~(i <= l) /\ i - l \in 1..(m + k - 1) /\ i - l > m /\ i - l - m + 1 = i - (l + m) + 1
      BY <1>1, <1>2, <2>7
    <3>2. w[i] = y[i - (l + m) + 1]
      BY <1>4, <2>2, <3>1
    <3>3. QED
      BY <2>3, <2>7, <3>2
  <2>8. QED
    BY <1>1, <1>2, <2>4, <2>5, <2>6, <2>7
<1>11. v = w
  BY <1>9, <1>10, SeqEqual
<1>12. QED
  BY <1>3, <1>11 DEF v, w, g, h

(* The way in which socket_readline completes a fragment is gluing.         *)
LEMMA GlueForm ==
  ASSUME NEW x \in Pieces, NEW y \in Pieces
  PROVE  Append(Front(x), Last(x) \o Head(y)) \o Tail(y) = Glue(x, y)
<1> DEFINE e == Front(x)
           c == Last(x) \o Head(y)
           r == Tail(y)
           g == Glue(x, y)
           m == Len(x)
           k == Len(y)
<1>1. /\ g \in Pieces /\ Len(g) = m + k - 1 /\ m \in Nat \ {0} /\ k \in Nat \ {0}
  BY GlueType
<1>2. /\ e \in Seq(Seq(Alphabet)) /\ Len(e) = m - 1 /\ Last(x) = x[m]
      /\ \A i \in 1..(m - 1) : e[i] = x[i]
  BY FrontLast DEF Pieces
<1>3. /\ r \in Seq(Seq(Alphabet)) /\ Len(r) = k - 1 /\ Head(y) = y[1]
      /\ \A i \in 1..(k - 1) : r[i] = y[i + 1]
  <2>1. y \in Seq(Seq(Alphabet)) /\ y # <<>>
    BY DEF Pieces
  <2>2. Len(r) = k - 1 /\ \A i \in 1..Len(r) : r[i] = y[i + 1]
    BY <2>1, HeadTailProperties
  <2>3. QED
    BY <2>1, <2>2, HeadTailProperties
<1>4. c \in Seq(Alphabet) /\ c = x[m] \o y[1]
  <2>1. m \in 1..m /\ 1 \in 1..k
    BY <1>1
  <2>2. x[m] \in Seq(Alphabet) /\ y[1] \in Seq(Alphabet)
    BY <2>1, ElementOfSeq DEF Pieces
  <2>3. x[m] \o y[1] \in Seq(Alphabet)
    BY <2>2, ConcatProperties
  <2>4. QED
    BY <1>2, <1>3, <2>3
<1>5. \A i \in 1..(m + k - 1) : /\ i < m => g[i] = x[i]
                                /\ i = m => g[i] = x[i] \o y[1]
                                /\ i > m => g[i] = y[i - m + 1]
  BY GlueElements
<1> HIDE DEF g, e, c, r
<1> DEFINE a == Append(e, c)
<1>6. /\ a \in Seq(Seq(Alphabet)) /\ Len(a) = m /\ a[m] = c
      /\ \A i \in 1..(m - 1) : a[i] = x[i]
  <2>1. Len(e) + 1 = m
    BY <1>1, <1>2
  <2>2. a \in Seq(Seq(Alphabet)) /\ Len(a) = Len(e) + 1 /\ a[Len(e) + 1] = c
        /\ \A i \in 1..Len(e) : a[i] = e[i]
    <3>1. e \in Seq(Seq(Alphabet)) /\ c \in Seq(Alphabet)
      BY <1>2, <1>4
    <3>2. QED
      BY <3>1, AppendProperties
  <2>3. QED
    BY <1>2, <2>1, <2>2
<1> HIDE DEF a
<1>7. /\ a \o r \in Seq(Seq(Alphabet)) /\ Len(a \o r) = Len(a) + Len(r)
      /\ \A i \in 1..(Len(a) + Len(r)) : (a \o r)[i] = IF i <= Len(a) THEN a[i] ELSE r[i - Len(a)]
  <2>1. a \in Seq(Seq(Alphabet)) /\ r \in Seq(Seq(Alphabet))
    BY <1>3, <1>6
  <2>2. QED
    BY <2>1, ConcatProperties
<1> DEFINE v == a \o r
<1> HIDE DEF v, m, k
<1>8. Len(a) + Len(r) = m + k - 1
  BY <1>1, <1>3, <1>6
<1>9. ASSUME NEW i \in 1..(m + k - 1) PROVE v[i] = g[i]
  <2>1. v[i] = IF i <= m THEN a[i] ELSE r[i - m]
    BY <1>6, <1>7, <1>8 DEF v
  <2>2. CASE i < m
    <3>1. i <= m /\ i \in 1..(m - 1)
      BY <1>1, <2>2
    <3>2. QED
      BY <1>5, <1>6, <2>1, <2>2, <3>1
  <2>3. CASE i = m
    <3>1. i <= m
      BY <1>1, <2>3
    <3>2. v[i] = c
      BY <1>6, <2>1, <2>3, <3>1
    <3>3. QED
      BY <1>4, <1>5, <2>3, <3>2
  <2>4. CASE i > m
    <3>1. ~(i <= m) /\ i - m \in 1..(k - 1)
      BY <1>1, <2>4
    <3>2. v[i] = y[i - m + 1]
      BY <1>3, <2>1, <3>1
    <3>3. QED
      BY <1>5, <2>4, <3>2
  <2>5. QED
    BY <1>1, <2>2, <2>3, <2>4
<1>10. v \in Seq(Seq(Alphabet)) /\ Len(v) = m + k - 1 /\ Len(g) = m + k - 1 /\ g \in Seq(Seq(Alphabet))
  BY <1>1, <1>7, <1>8 DEF v, Pieces
<1>11. v = g
  BY <1>9, <1>10, SeqEqual
<1>12. QED
  BY <1>11 DEF v, g, a, c, e, r

(* The line that a call returns moves from the buffer to the lines given.   *)
LEMMA HeadTail ==
  ASSUME NEW f \in Seq(Seq(Alphabet)), NEW x \in Pieces
  PROVE  /\ Append(f, Head(x)) \o Tail(x) = f \o x
         /\ Append(f, Head(x)) \in Seq(Seq(Alphabet)) /\ Tail(x) \in Seq(Seq(Alphabet))
         /\ Len(Tail(x)) = Len(x) - 1 /\ Len(x) \in Nat \ {0}
<1> DEFINE h == Head(x)
           r == Tail(x)
<1>1. /\ x \in Seq(Seq(Alphabet)) /\ x # <<>>
  BY DEF Pieces
<1>2. h \in Seq(Alphabet) /\ r \in Seq(Seq(Alphabet)) /\ Len(r) = Len(x) - 1 /\ Len(x) \in Nat \ {0}
  BY <1>1, HeadTailProperties, EmptySeq
<1>3. x = <<h>> \o r
  <2> DEFINE w == <<h>> \o r
  <2>1. h = x[1] /\ \A i \in 1..(Len(x) - 1) : r[i] = x[i + 1]
    BY <1>1, <1>2, HeadTailProperties
  <2> HIDE DEF h, r
  <2>2. /\ w \in Seq(Seq(Alphabet)) /\ Len(w) = 1 + Len(r)
        /\ \A i \in 1..(1 + Len(r)) : w[i] = IF i <= 1 THEN <<h>>[i] ELSE r[i - 1]
    BY <1>2, ConcatProperties
  <2> HIDE DEF w
  <2>3. Len(w) = Len(x)
    BY <1>2, <2>2
  <2>4. ASSUME NEW i \in 1..Len(w) PROVE w[i] = x[i]
    <3>1. CASE i = 1
      BY <2>1, <2>2, <3>1
    <3>2. CASE i > 1
      <4>1. i - 1 \in 1..(Len(x) - 1) /\ (i - 1) + 1 = i /\ ~(i <= 1)
        BY <1>2, <2>3, <3>2
      <4>2. r[i - 1] = x[i]
        BY <2>1, <4>1
      <4>3. QED
        BY <2>2, <4>1, <4>2
    <3>3. QED
      BY <3>1, <3>2
  <2>5. w = x
    BY <1>1, <2>2, <2>3, <2>4, SeqEqual
  <2>6. QED
    BY <2>5 DEF w
<1> HIDE DEF h, r
<1>4. <<h>> \in Seq(Seq(Alphabet)) /\ Append(f, h) = f \o <<h>> /\ Append(f, h) \in Seq(Seq(Alphabet))
  BY <1>2, AppendIsConcat, AppendProperties
<1>5. (f \o <<h>>) \o r = f \o (<<h>> \o r)
  BY <1>2, <1>4, ConcatAssociative
<1>6. QED
  BY <1>2, <1>3, <1>4, <1>5 DEF h, r

(* A concatenation ends as its second part does.                            *)
LEMMA LastConcat ==
  ASSUME NEW a \in Seq(Alphabet), NEW b \in Seq(Alphabet), b # <<>>
  PROVE  /\ a \o b \in Seq(Alphabet) /\ a \o b # <<>> /\ Last(a \o b) = Last(b)
         /\ Last(b) = b[Len(b)] /\ Len(b) \in Nat \ {0}
<1> DEFINE h == a \o b
<1>1. /\ h \in Seq(Alphabet) /\ Len(h) = Len(a) + Len(b)
      /\ \A i \in 1..(Len(a) + Len(b)) : h[i] = IF i <= Len(a) THEN a[i] ELSE b[i - Len(a)]
  BY ConcatProperties
<1>2. Len(a) \in Nat /\ Len(b) \in Nat \ {0} /\ Last(b) = b[Len(b)]
  BY LenProperties, FrontLast
<1> HIDE DEF h
<1>3. h # <<>>
  <2>1. Len(h) # 0
    BY <1>1, <1>2
  <2>2. QED
    BY <2>1, EmptySeq
<1>4. Last(h) = h[Len(h)]
  BY <1>1, <1>3, FrontLast
<1>5. Len(h) \in 1..(Len(a) + Len(b)) /\ ~(Len(h) <= Len(a)) /\ Len(h) - Len(a) = Len(b)
  BY <1>1, <1>2
<1>6. h[Len(h)] = b[Len(b)]
  BY <1>1, <1>5
<1>7. QED
  BY <1>1, <1>2, <1>3, <1>4, <1>6 DEF h

(* The last piece of a text that does not end within a line is empty.       *)
LEMMA LastEmpty ==
  ASSUME NEW a \in Seq(Alphabet), a = <<>> \/ Last(a) = LF
  PROVE  All(a)[Len(All(a))] = <<>>
<1>1. CASE a = <<>>
  <2>1. strsep(a, LF) = << <<>> >>
    BY <1>1, StrsepEmpty
  <2>2. Len(All(a)) = 1 /\ All(a)[1] = Strip(strsep(a, LF)[1])
    <3>1. Len(All(a)) = Len(strsep(a, LF))
      BY AllType
    <3>2. Len(All(a)) = 1 /\ 1 \in 1..Len(All(a))
      BY <2>1, <3>1
    <3>3. QED
      BY <3>2, AllType
  <2>3. strsep(a, LF)[1] = <<>>
    BY <2>1
  <2>4. QED
    BY <2>2, <2>3 DEF Strip
<1>2. CASE a # <<>> /\ Last(a) = LF
  <2> DEFINE u == Front(a)
             x == All(u)
  <2>1. u \in Seq(Alphabet) /\ LF \in Alphabet /\ a = Append(u, LF)
    BY <1>2, FrontAppend
  <2> HIDE DEF u
  <2>2. All(a) = Append(x, <<>>) /\ x \in Seq(Seq(Alphabet))
    BY <2>1, AllLF, AllType
  <2> HIDE DEF x
  <2>3. <<>> \in Seq(Alphabet)
    BY EmptySeq
  <2>4. Len(Append(x, <<>>)) = Len(x) + 1 /\ Append(x, <<>>)[Len(x) + 1] = <<>>
    BY <2>2, <2>3, AppendProperties
  <2>5. QED
    BY <2>2, <2>4
<1>3. QED
  BY <1>1, <1>2

(* A text has lines, at least two if it goes on after a line feed.          *)
LEMMA LinesType ==
  ASSUME NEW s \in Seq(Alphabet)
  PROVE  /\ LinesOf(s) \in Seq(Seq(Alphabet))
         /\ \A i \in 1..Len(LinesOf(s)) : Len(LinesOf(s)[i]) <= Len(s)
         /\ s # <<>> => LinesOf(s) \in Pieces
         /\ s # <<>> /\ Last(s) # LF /\ (\E j \in 1..Len(s) : s[j] = LF) => Len(LinesOf(s)) > 1
         /\ (\E j \in 1..Len(s) : s[j] = LF) => Len(All(s)) > 1
<1> DEFINE x == All(s)
           l == LinesOf(s)
<1>1. /\ x \in Pieces /\ x \in Seq(Seq(Alphabet)) /\ Len(x) \in Nat \ {0}
      /\ \A i \in 1..Len(x) : Len(x[i]) <= Len(s)
  BY AllType
<1>2. (\E j \in 1..Len(s) : s[j] = LF) => Len(x) > 1
  <2>1. PieceFacts(s, LF)
    BY Piecewise
  <2>2. (\E j \in 1..Len(s) : s[j] = LF) => Len(strsep(s, LF)) > 1
    BY <2>1 DEF PieceFacts
  <2>3. Len(x) = Len(strsep(s, LF))
    BY AllType
  <2>4. QED
    BY <2>2, <2>3
<1> HIDE DEF x, l
<1>3. CASE s = <<>> \/ Last(s) = LF
  <2>1. l = Front(x)
    BY <1>3, LinesOfAll DEF l, x
  <2>2. /\ Front(x) \in Seq(Seq(Alphabet)) /\ Len(Front(x)) = Len(x) - 1
        /\ \A i \in 1..(Len(x) - 1) : Front(x)[i] = x[i]
    BY <1>1, FrontLast DEF Pieces
  <2>3. \A i \in 1..(Len(x) - 1) : i \in 1..Len(x)
    BY <1>1
  <2>4. l \in Seq(Seq(Alphabet)) /\ \A i \in 1..Len(l) : Len(l[i]) <= Len(s)
    BY <1>1, <2>1, <2>2, <2>3
  <2>5. s # <<>> => Len(l) # 0
    <3>1. ASSUME s # <<>> PROVE \E j \in 1..Len(s) : s[j] = LF
      <4>1. Last(s) = s[Len(s)] /\ Len(s) \in Nat \ {0}
        BY <3>1, FrontLast
      <4>2. Len(s) \in 1..Len(s) /\ s[Len(s)] = LF
        BY <1>3, <3>1, <4>1
      <4>3. QED
        BY <4>2
    <3>2. s # <<>> => Len(x) > 1
      BY <1>2, <3>1
    <3>3. Len(l) = Len(x) - 1
      BY <2>1, <2>2
    <3>4. PICK a \in Nat : a = Len(x)
      BY <1>1
    <3>5. a > 1 => a - 1 # 0
      OBVIOUS
    <3>6. QED
      BY <3>2, <3>3, <3>4, <3>5
  <2>6. QED
    BY <1>2, <1>3, <2>4, <2>5, EmptySeq DEF Pieces, l, x
<1>4. CASE ~(s = <<>> \/ Last(s) = LF)
  <2>1. l = x
    BY <1>4, LinesOfAll DEF l, x
  <2>2. QED
    BY <1>1, <1>2, <2>1 DEF l, x
<1>5. QED
  BY <1>3, <1>4

(* The lines of a text that goes on: new ones, or the last one goes on.     *)
LEMMA LinesConcat ==
  ASSUME NEW a \in Seq(Alphabet), NEW b \in Seq(Alphabet), b # <<>>, Follows(a, b)
  PROVE  LinesOf(a \o b) = IF a = <<>> \/ Last(a) = LF THEN LinesOf(a) \o LinesOf(b)
                                                       ELSE Glue(LinesOf(a), LinesOf(b))
<1> DEFINE w == a \o b
           X == All(a)
           Y == All(b)
<1>1. /\ w \in Seq(Alphabet) /\ w # <<>> /\ Last(w) = Last(b)
      /\ Last(b) = b[Len(b)] /\ Len(b) \in Nat \ {0}
  BY LastConcat
<1>2. /\ X \in Pieces /\ Y \in Pieces /\ X \in Seq(Seq(Alphabet)) /\ All(w) = Glue(X, Y)
  BY AllType, AllConcat
<1>3. Last(b) = LF => Len(Y) > 1
  <2>1. Len(b) \in 1..Len(b)
    BY <1>1
  <2>2. QED
    BY <1>1, <2>1, LinesType
<1>4. /\ LinesOf(a) = IF a = <<>> \/ Last(a) = LF THEN Front(X) ELSE X
      /\ LinesOf(b) = IF Last(b) = LF THEN Front(Y) ELSE Y
      /\ LinesOf(w) = IF Last(b) = LF THEN Front(Glue(X, Y)) ELSE Glue(X, Y)
  <2> HIDE DEF w, X, Y
  <2>1. LinesOf(w) = IF w = <<>> \/ Last(w) = LF THEN Front(All(w)) ELSE All(w)
    BY LinesOfAll
  <2>2. LinesOf(a) = IF a = <<>> \/ Last(a) = LF THEN Front(All(a)) ELSE All(a)
    BY LinesOfAll
  <2>3. LinesOf(b) = IF b = <<>> \/ Last(b) = LF THEN Front(All(b)) ELSE All(b)
    BY LinesOfAll
  <2>4. QED
    BY <1>1, <1>2, <2>1, <2>2, <2>3 DEF X, Y
<1>5. CASE a = <<>> \/ Last(a) = LF
  <2>1. X[Len(X)] = <<>>
    BY <1>5, LastEmpty
  <2> HIDE DEF w, X, Y
  <2>2. Glue(X, Y) = Front(X) \o Y
    BY <1>2, <2>1, GlueToEmpty
  <2> DEFINE f == Front(X)
  <2>3. f \in Seq(Seq(Alphabet))
    BY <1>2, FrontLast DEF Pieces
  <2> HIDE DEF f
  <2>4. Front(f \o Y) = f \o Front(Y)
    BY <1>2, <2>3, FrontConcat
  <2>5. LinesOf(a) = f /\ Glue(X, Y) = f \o Y
    BY <1>4, <1>5, <2>2 DEF f
  <2>6. LinesOf(w) = LinesOf(a) \o LinesOf(b)
    BY <1>4, <2>4, <2>5
  <2>7. QED
    BY <1>5, <2>6 DEF w
<1>6. CASE ~(a = <<>> \/ Last(a) = LF)
  <2> HIDE DEF w, X, Y
  <2>1. LinesOf(a) = X
    BY <1>4, <1>6
  <2>2. Last(b) = LF => Front(Glue(X, Y)) = Glue(X, Front(Y))
    BY <1>2, <1>3, FrontGlue
  <2>3. LinesOf(w) = Glue(X, LinesOf(b))
    BY <1>4, <2>2
  <2>4. QED
    BY <1>6, <2>1, <2>3 DEF w
<1>7. QED
  BY <1>5, <1>6

-----------------------------------------------------------------------------
(* The bytes of the connection. *)

(* A text with its carriage returns in order may go on.                     *)
LEMMA PairedAppend ==
  ASSUME NEW s \in Seq(Alphabet), NEW c \in Alphabet, PairedCR(s),
         s # <<>> /\ Last(s) = CR => c = LF
  PROVE  PairedCR(Append(s, c))
<1> DEFINE t == Append(s, c)
<1>1. /\ t \in Seq(Alphabet) /\ Len(t) = Len(s) + 1 /\ t[Len(s) + 1] = c
      /\ \A i \in 1..Len(s) : t[i] = s[i]
      /\ Len(s) \in Nat
  BY AppendProperties, LenProperties
<1> HIDE DEF t
<1>2. ASSUME NEW i \in 1..(Len(t) - 1), t[i] = CR PROVE t[i + 1] = LF
  <2>1. i \in 1..Len(s) /\ t[i] = s[i]
    BY <1>1
  <2>2. CASE i = Len(s)
    <3>1. s # <<>>
      BY <2>1, EmptySeq
    <3>2. Last(s) = s[Len(s)]
      BY <3>1, FrontLast
    <3>3. c = LF
      BY <1>2, <2>1, <2>2, <3>1, <3>2
    <3>4. QED
      BY <1>1, <2>2, <3>3
  <2>3. CASE i # Len(s)
    <3>1. i \in 1..(Len(s) - 1) /\ i + 1 \in 1..Len(s)
      BY <1>1, <2>1, <2>3
    <3>2. s[i + 1] = LF
      BY <1>2, <2>1, <3>1 DEF PairedCR
    <3>3. QED
      BY <1>1, <3>1, <3>2
  <2>4. QED
    BY <2>2, <2>3
<1>3. PairedCR(t)
  BY <1>2 DEF PairedCR
<1>4. QED
  BY <1>3 DEF t

(* The parts of such a text are such texts and fit together.                *)
LEMMA PairedParts ==
  ASSUME NEW a \in Seq(Alphabet), NEW b \in Seq(Alphabet), PairedCR(a \o b)
  PROVE  PairedCR(a) /\ PairedCR(b) /\ Follows(a, b)
<1> DEFINE h == a \o b
<1>1. /\ h \in Seq(Alphabet) /\ Len(h) = Len(a) + Len(b)
      /\ \A i \in 1..(Len(a) + Len(b)) : h[i] = IF i <= Len(a) THEN a[i] ELSE b[i - Len(a)]
  BY ConcatProperties
<1>2. Len(a) \in Nat /\ Len(b) \in Nat
  BY LenProperties
<1>3. \A i \in 1..(Len(h) - 1) : h[i] = CR => h[i + 1] = LF
  BY DEF PairedCR
<1> HIDE DEF h
<1>4. ASSUME NEW i \in 1..(Len(a) - 1), a[i] = CR PROVE a[i + 1] = LF
  <2>1. /\ i \in 1..(Len(h) - 1) /\ i \in 1..(Len(a) + Len(b)) /\ i <= Len(a)
        /\ i + 1 \in 1..(Len(a) + Len(b)) /\ i + 1 <= Len(a)
    BY <1>1, <1>2
  <2>2. h[i] = a[i] /\ h[i + 1] = a[i + 1]
    BY <1>1, <2>1
  <2>3. QED
    BY <1>3, <1>4, <2>1, <2>2
<1>5. ASSUME NEW i \in 1..(Len(b) - 1), b[i] = CR PROVE b[i + 1] = LF
  <2> DEFINE j == Len(a) + i
  <2>1. /\ j \in 1..(Len(h) - 1) /\ j \in 1..(Len(a) + Len(b)) /\ ~(j <= Len(a))
        /\ j + 1 \in 1..(Len(a) + Len(b)) /\ ~(j + 1 <= Len(a))
        /\ j - Len(a) = i /\ j + 1 - Len(a) = i + 1
    BY <1>1, <1>2
  <2> HIDE DEF j
  <2>2. h[j] = b[i] /\ h[j + 1] = b[i + 1]
    BY <1>1, <2>1
  <2>3. QED
    BY <1>3, <1>5, <2>1, <2>2
<1>6. ASSUME a # <<>>, Last(a) = CR, b # <<>> PROVE b[1] = LF
  <2> DEFINE j == Len(a)
  <2>1. Last(a) = a[j] /\ j \in Nat \ {0} /\ Len(b) \in Nat \ {0}
    BY <1>6, FrontLast, EmptySeq
  <2>2. /\ j \in 1..(Len(h) - 1) /\ j \in 1..(Len(a) + Len(b)) /\ j <= Len(a)
        /\ j + 1 \in 1..(Len(a) + Len(b)) /\ ~(j + 1 <= Len(a)) /\ j + 1 - Len(a) = 1
    BY <1>1, <2>1
  <2>3. h[j] = a[j] /\ h[j + 1] = b[1]
    BY <1>1, <2>2
  <2>4. QED
    BY <1>3, <1>6, <2>1, <2>2, <2>3
<1>7. QED
  BY <1>4, <1>5, <1>6 DEF PairedCR, Follows

(* What read(2) returns and what it leaves behind are what had arrived.     *)
LEMMA ReadSplits ==
  ASSUME NEW n \in Nat \ {0}, arrived \in Seq(Alphabet), n <= Len(arrived)
  PROVE  /\ Received(n) \in Seq(Alphabet) /\ Unread(n) \in Seq(Alphabet)
         /\ Received(n) # <<>> /\ Received(n) \o Unread(n) = arrived
         /\ Len(Received(n)) + Len(Unread(n)) = Len(arrived)
<1> DEFINE k == Len(arrived)
           r == SubSeq(arrived, 1, n)
           u == SubSeq(arrived, n + 1, k)
<1>1. k \in Nat /\ \A i \in 1..k : arrived[i] \in Alphabet
  BY LenProperties, ElementOfSeq
<1>2. r \in Seq(Alphabet) /\ Len(r) = n
  <2>1. \A i \in 1..n : arrived[i] \in Alphabet
    BY <1>1
  <2>2. r \in Seq(Alphabet) /\ Len(r) = IF 1 <= n THEN n - 1 + 1 ELSE 0
    BY <2>1, SubSeqProperties
  <2>3. QED
    BY <2>2
<1>3. u \in Seq(Alphabet) /\ Len(u) = k - n
  <2>1. \A i \in (n + 1)..k : arrived[i] \in Alphabet
    BY <1>1
  <2>2. u \in Seq(Alphabet) /\ Len(u) = IF n + 1 <= k THEN k - (n + 1) + 1 ELSE 0
    BY <1>1, <2>1, SubSeqProperties
  <2>3. QED
    BY <1>1, <2>2
<1>4. r \o u = arrived
  <2>1. 1 \in 1..(k + 1) /\ n \in (1 - 1)..k /\ k \in n..k
    BY <1>1
  <2>2. r \o u = SubSeq(arrived, 1, k)
    BY <2>1, ConcatAdjacentSubSeq
  <2>3. SubSeq(arrived, 1, k) = arrived
    BY SubSeqFull
  <2>4. QED
    BY <2>2, <2>3
<1> HIDE DEF r, u
<1>5. r # <<>>
  BY <1>2, EmptySeq
<1>6. Len(r) + Len(u) = k
  BY <1>1, <1>2, <1>3
<1>7. QED
  BY <1>2, <1>3, <1>4, <1>5, <1>6 DEF Received, Unread, r, u

-----------------------------------------------------------------------------
(* The inductive invariant of socket_readline. *)

(* The bytes that have reached this side and have not been dropped.         *)
Stream == (taken \o line) \o arrived

(* The variables have values of their types.                                *)
Typed ==
  /\ sent \in Seq(Alphabet) /\ arrived \in Seq(Alphabet)
  /\ line \in Seq(Alphabet) /\ taken \in Seq(Alphabet)
  /\ readbuf \in Seq(Seq(Alphabet)) /\ given \in Seq(Seq(Alphabet))
  /\ pc \in {"idle", "read"}
  /\ closed \in BOOLEAN /\ tail \in BOOLEAN /\ fragmented \in BOOLEAN
  /\ connected \in BOOLEAN /\ failed \in BOOLEAN

(* These bytes are in order, and were sent.  What is in line has no line    *)
(* feed yet; nothing is left when the connection is down.                   *)
Streaming ==
  /\ PairedCR(Stream)
  /\ Stream # <<>> /\ Last(Stream) = CR => sent # <<>> /\ Last(sent) = CR
  /\ Len(taken) + Len(line) + Len(arrived) <= Len(sent) /\ Len(sent) <= MaxBytes
  /\ \A i \in 1..Len(line) : line[i] # LF
  /\ pc = "idle" => line = <<>>
  /\ ~connected => closed /\ arrived = <<>> /\ line = <<>>

(* fragmented tells whether the bytes taken end within a line, and then the *)
(* line is in read_buf, at its end, where tail points to it.                *)
Buffering ==
  /\ fragmented <=> (taken # <<>> /\ Last(taken) # LF)
  /\ fragmented /\ connected => readbuf # <<>> /\ tail
  /\ given \o readbuf = LinesOf(taken)

Exact == Typed /\ Streaming /\ Buffering

(* The part of a call after the read loop keeps the lines in order, and     *)
(* does not fail, if it has bytes that follow the ones taken before.        *)
LEMMA FinishKeeps ==
  ASSUME Typed, Buffering, connected, connected' \in BOOLEAN,
         NEW s \in Seq(Alphabet), s # <<>>, PairedCR(s), Follows(taken, s),
         connected' => \E j \in 1..Len(s) : s[j] = LF,
         Finish(s)
  PROVE  /\ Buffering'
         /\ pc' = "idle" /\ line' = <<>> /\ failed' = failed /\ taken' = taken \o s
         /\ readbuf' \in Seq(Seq(Alphabet)) /\ given' \in Seq(Seq(Alphabet))
         /\ tail' \in BOOLEAN /\ fragmented' \in BOOLEAN
<1> DEFINE tok == LinesOf(s)
           new == IF fragmented THEN Tail(tok) ELSE tok
           buf == IF fragmented
                    THEN Append(Front(readbuf), Last(readbuf) \o Head(tok)) \o new
                    ELSE readbuf \o new
<1>1. /\ tok \in Pieces /\ tok = str_split(s, LF)
      /\ Last(s) # LF /\ connected' => Len(tok) > 1
  BY LinesType, SplitIsLines
<1>2. fragmented => readbuf \in Pieces /\ tail
  BY DEF Buffering, Typed, Pieces
<1>3. /\ pc' = "idle" /\ line' = <<>> /\ failed' = failed /\ taken' = taken \o s
      /\ given' = Append(given, Head(buf)) /\ readbuf' = Tail(buf)
      /\ tail' = (new # <<>> /\ Len(buf) > 1) /\ fragmented' = (Last(s) # LF)
  <2>1. ~(fragmented /\ ~tail)
    BY <1>2
  <2>2. QED
    BY <1>1, <2>1 DEF Finish, Unterminated
<1> HIDE DEF tok
<1>4. /\ buf \in Pieces /\ given \o buf = LinesOf(taken \o s)
      /\ Last(s) # LF /\ connected' => Len(buf) > 1 /\ new # <<>>
  <2>1. LinesOf(taken \o s) = IF taken = <<>> \/ Last(taken) = LF THEN LinesOf(taken) \o tok
                                                                  ELSE Glue(LinesOf(taken), tok)
    BY LinesConcat DEF tok, Typed
  <2>2. CASE fragmented
    <3>1. buf = Glue(readbuf, tok)
      BY <1>1, <1>2, <2>2, GlueForm
    <3>2. given \o Glue(readbuf, tok) = Glue(given \o readbuf, tok)
      BY <1>1, <1>2, <2>2, GlueAssoc DEF Typed
    <3>3. LinesOf(taken \o s) = Glue(given \o readbuf, tok)
      BY <2>1, <2>2 DEF Buffering
    <3>4. /\ Glue(readbuf, tok) \in Pieces /\ Len(Glue(readbuf, tok)) = Len(readbuf) + Len(tok) - 1
          /\ Len(readbuf) \in Nat \ {0} /\ Len(tok) \in Nat \ {0}
      BY <1>1, <1>2, <2>2, GlueType
    <3>5. Len(tok) > 1 => Len(Glue(readbuf, tok)) > 1 /\ Len(tok) - 1 # 0
      <4> DEFINE k == Len(tok)
                 m == Len(readbuf)
                 l == Len(Glue(readbuf, tok))
      <4>1. l = m + k - 1 /\ m \in Nat \ {0} /\ k \in Nat \ {0}
        BY <3>4
      <4> HIDE DEF k, l, m
      <4>2. k > 1 => l > 1 /\ k - 1 # 0
        BY <4>1
      <4>3. QED
        BY <4>2 DEF k, l
    <3>6. Len(Tail(tok)) = Len(tok) - 1
      BY <1>1, HeadTailProperties DEF Pieces
    <3>7. Len(tok) > 1 => new # <<>>
      BY <2>2, <3>5, <3>6, EmptySeq
    <3> HIDE DEF buf, new
    <3>8. QED
      BY <1>1, <3>1, <3>2, <3>3, <3>4, <3>5, <3>7
  <2>3. CASE ~fragmented
    <3>1. buf = readbuf \o tok /\ new = tok
      BY <2>3
    <3> HIDE DEF buf, new
    <3>2. tok \in Seq(Seq(Alphabet)) /\ readbuf \in Seq(Seq(Alphabet)) /\ given \in Seq(Seq(Alphabet))
      BY <1>1 DEF Typed, Pieces
    <3>3. (given \o readbuf) \o tok = given \o (readbuf \o tok)
      BY ONLY <3>2, ConcatAssociative
    <3>4. LinesOf(taken \o s) = (given \o readbuf) \o tok
      BY <2>1, <2>3 DEF Buffering
    <3>5. readbuf \o tok \in Seq(Seq(Alphabet)) /\ Len(readbuf \o tok) = Len(readbuf) + Len(tok)
      BY <3>2, ConcatProperties
    <3>6. Len(readbuf) \in Nat /\ Len(tok) \in Nat \ {0}
      BY <1>1, <3>2, LenProperties, EmptySeq DEF Pieces
    <3>7. Len(readbuf \o tok) # 0 /\ (Len(tok) > 1 => Len(readbuf \o tok) > 1)
      BY <3>5, <3>6
    <3>8. readbuf \o tok # <<>>
      BY <3>7, EmptySeq
    <3>9. new # <<>>
      BY <1>1, <3>1 DEF Pieces
    <3>10. QED
      BY <1>1, <3>1, <3>3, <3>4, <3>5, <3>7, <3>8, <3>9 DEF Pieces
  <2>4. QED
    BY <2>2, <2>3
<1> HIDE DEF buf, new
<1>5. /\ Append(given, Head(buf)) \o Tail(buf) = given \o buf
      /\ Append(given, Head(buf)) \in Seq(Seq(Alphabet)) /\ Tail(buf) \in Seq(Seq(Alphabet))
      /\ Len(Tail(buf)) = Len(buf) - 1 /\ Len(buf) \in Nat \ {0}
  BY <1>4, HeadTail DEF Typed
<1>6. given' \o readbuf' = LinesOf(taken')
  BY <1>3, <1>4, <1>5
<1>7. fragmented' /\ connected' => readbuf' # <<>> /\ tail'
  <2>1. Len(buf) > 1 => Len(Tail(buf)) # 0
    <3> DEFINE k == Len(buf)
               l == Len(Tail(buf))
    <3>1. l = k - 1 /\ k \in Nat \ {0}
      BY <1>5
    <3> HIDE DEF k, l
    <3>2. k > 1 => l # 0
      BY <3>1
    <3>3. QED
      BY <3>2 DEF k, l
  <2>2. Len(buf) > 1 => Tail(buf) # <<>>
    BY <2>1, EmptySeq
  <2>3. QED
    BY <1>3, <1>4, <2>2
<1>8. fragmented' <=> (taken' # <<>> /\ Last(taken') # LF)
  <2>1. taken \o s # <<>> /\ Last(taken \o s) = Last(s)
    BY LastConcat DEF Typed
  <2>2. QED
    BY <1>3, <2>1
<1>9. fragmented' \in BOOLEAN /\ tail' \in BOOLEAN
  BY <1>3
<1>10. QED
  BY <1>3, <1>5, <1>6, <1>7, <1>8, <1>9 DEF Buffering

(* The bytes of a call that reads, wherever the call stands.                *)
LEMMA StreamParts ==
  ASSUME Typed, Streaming
  PROVE  /\ taken \o line \in Seq(Alphabet) /\ Stream \in Seq(Alphabet)
         /\ PairedCR(taken \o line) /\ PairedCR(taken) /\ Follows(taken, line)
         /\ Stream = taken \o (line \o arrived) /\ line \o arrived \in Seq(Alphabet)
         /\ PairedCR(line \o arrived) /\ Follows(taken, line \o arrived)
<1>1. taken \in Seq(Alphabet) /\ line \in Seq(Alphabet) /\ arrived \in Seq(Alphabet)
  BY DEF Typed
<1>2. taken \o line \in Seq(Alphabet) /\ line \o arrived \in Seq(Alphabet)
  BY <1>1, ConcatProperties
<1>3. Stream = taken \o (line \o arrived)
  BY <1>1, ConcatAssociative DEF Stream
<1>4. PairedCR((taken \o line) \o arrived) /\ PairedCR(taken \o (line \o arrived))
  BY <1>3 DEF Streaming, Stream
<1>5. PairedCR(taken \o line)
  <2> DEFINE w == taken \o line
  <2>1. w \in Seq(Alphabet) /\ PairedCR(w \o arrived)
    BY <1>2, <1>4
  <2> HIDE DEF w
  <2>2. PairedCR(w)
    BY <1>1, <2>1, PairedParts
  <2>3. QED
    BY <2>2 DEF w
<1>6. PairedCR(taken) /\ Follows(taken, line)
  BY <1>1, <1>5, PairedParts
<1>7. PairedCR(line \o arrived) /\ Follows(taken, line \o arrived)
  <2> DEFINE w == line \o arrived
  <2>1. w \in Seq(Alphabet) /\ PairedCR(taken \o w)
    BY <1>2, <1>4
  <2> HIDE DEF w
  <2>2. PairedCR(w) /\ Follows(taken, w)
    BY <1>1, <2>1, PairedParts
  <2>3. QED
    BY <2>2 DEF w
<1>8. Stream \in Seq(Alphabet)
  <2> DEFINE w == taken \o line
  <2> HIDE DEF w
  <2>1. w \o arrived \in Seq(Alphabet)
    BY <1>1, <1>2, ConcatProperties DEF w
  <2>2. QED
    BY <2>1 DEF w, Stream
<1>9. QED
  BY <1>2, <1>3, <1>5, <1>6, <1>7, <1>8

(* A byte sent.                                                             *)
LEMMA SendKeeps ==
  ASSUME Exact, NEW c \in Alphabet, Send(c)
  PROVE  Exact'
<1> USE DEF Exact
<1>1. /\ ~closed /\ Len(sent) < MaxBytes
      /\ c # LF /\ sent # <<>> => Last(sent) # CR
      /\ sent' = Append(sent, c) /\ arrived' = Append(arrived, c)
      /\ UNCHANGED <<closed, pc, line, readbuf, tail, fragmented, connected, taken, given, failed>>
  BY DEF Send
<1>2. /\ sent' \in Seq(Alphabet) /\ Len(sent') = Len(sent) + 1 /\ Last(sent') = c /\ sent' # <<>>
      /\ arrived' \in Seq(Alphabet) /\ Len(arrived') = Len(arrived) + 1
  <2>1. /\ Append(sent, c) \in Seq(Alphabet) /\ Len(Append(sent, c)) = Len(sent) + 1
        /\ Append(sent, c) # <<>>
        /\ Append(arrived, c) \in Seq(Alphabet) /\ Len(Append(arrived, c)) = Len(arrived) + 1
    BY AppendProperties DEF Typed
  <2>2. Last(Append(sent, c)) = c
    BY AppendFront DEF Typed
  <2>3. QED
    BY <1>1, <2>1, <2>2
<1>3. Stream' = Append(Stream, c)
  <2> DEFINE w == taken \o line
  <2>1. w \in Seq(Alphabet) /\ w' = w
    BY <1>1, StreamParts
  <2> HIDE DEF w
  <2>2. Append(w \o arrived, c) = w \o Append(arrived, c)
    BY <2>1, AppendConcat DEF Typed
  <2>3. Stream = w \o arrived /\ Stream' = w \o Append(arrived, c)
    BY <1>1, <2>1 DEF w, Stream
  <2>4. QED
    BY <2>2, <2>3
<1>4. PairedCR(Stream') /\ (Last(Stream') = CR => sent' # <<>> /\ Last(sent') = CR)
  <2>1. Stream \in Seq(Alphabet)
    BY StreamParts
  <2>2. Stream # <<>> /\ Last(Stream) = CR => c = LF
    BY <1>1 DEF Streaming
  <2> DEFINE w == Stream
  <2>3. w \in Seq(Alphabet) /\ PairedCR(w) /\ (w # <<>> /\ Last(w) = CR => c = LF)
    BY <2>1, <2>2 DEF Streaming
  <2> HIDE DEF w
  <2>4. PairedCR(Append(w, c)) /\ Last(Append(w, c)) = c
    BY <2>3, PairedAppend, AppendFront
  <2>5. QED
    BY <1>2, <1>3, <2>4 DEF w
<1>5. Len(taken') + Len(line') + Len(arrived') <= Len(sent') /\ Len(sent') <= MaxBytes
  <2>1. Len(taken) \in Nat /\ Len(line) \in Nat /\ Len(arrived) \in Nat /\ Len(sent) \in Nat
    BY LenProperties DEF Typed
  <2>2. Len(taken) + Len(line) + Len(arrived) <= Len(sent)
    BY DEF Streaming
  <2>3. Len(taken') = Len(taken) /\ Len(line') = Len(line)
    BY <1>1
  <2>4. QED
    BY <1>1, <1>2, <2>1, <2>2, <2>3, BoundAssumption
<1>6. Streaming'
  <2>1. /\ \A i \in 1..Len(line') : line'[i] # LF
        /\ pc' = "idle" => line' = <<>>
        /\ ~connected' => closed' /\ arrived' = <<>> /\ line' = <<>>
    BY <1>1 DEF Streaming
  <2>2. QED
    BY <1>4, <1>5, <2>1 DEF Streaming
<1>7. Typed' /\ Buffering'
  BY <1>1, <1>2 DEF Typed, Buffering
<1>8. QED
  BY <1>6, <1>7

(* The end of the stream, and the calls that read nothing.                  *)
LEMMA IdleKeeps ==
  ASSUME Exact, Close \/ CallBuffered \/ CallRead
  PROVE  Exact'
<1> USE DEF Exact
<1>1. CASE Close
  <2>1. /\ closed' = TRUE
        /\ UNCHANGED <<sent, arrived, pc, line, readbuf, tail, fragmented, connected, taken, given, failed>>
    BY <1>1 DEF Close
  <2>2. Stream' = Stream
    BY <2>1 DEF Stream
  <2>3. QED
    BY <2>1, <2>2 DEF Typed, Streaming, Buffering
<1>2. CASE CallRead
  <2>1. /\ pc' = "read" /\ line' = line
        /\ UNCHANGED <<sent, closed, arrived, readbuf, tail, fragmented, connected, taken, given, failed>>
    BY <1>2 DEF CallRead, Streaming
  <2>2. Stream' = Stream
    BY <2>1 DEF Stream
  <2>3. QED
    BY <2>1, <2>2 DEF Typed, Streaming, Buffering
<1>3. CASE CallBuffered
  <2>1. /\ readbuf # <<>> /\ ~fragmented
        /\ given' = Append(given, Head(readbuf)) /\ readbuf' = Tail(readbuf)
        /\ tail' = (tail /\ Len(readbuf) > 1)
        /\ UNCHANGED <<sent, closed, arrived, pc, line, fragmented, connected, taken, failed>>
    BY <1>3 DEF CallBuffered, Buffered
  <2>2. Stream' = Stream
    BY <2>1 DEF Stream
  <2>3. /\ Append(given, Head(readbuf)) \o Tail(readbuf) = given \o readbuf
        /\ Append(given, Head(readbuf)) \in Seq(Seq(Alphabet)) /\ Tail(readbuf) \in Seq(Seq(Alphabet))
    BY <2>1, HeadTail DEF Typed, Pieces
  <2>4. Typed'
    BY <2>1, <2>3 DEF Typed
  <2>5. Streaming'
    BY <2>1, <2>2 DEF Streaming
  <2>6. Buffering'
    BY <2>1, <2>3 DEF Buffering
  <2>7. QED
    BY <2>4, <2>5, <2>6
<1>4. QED
  BY <1>1, <1>2, <1>3

(* A read(2) that returns bytes.                                            *)
LEMMA ReadBytesKeeps ==
  ASSUME Exact, NEW n \in 1..BufSize, ReadBytes(n)
  PROVE  Exact'
<1> USE DEF Exact
<1> DEFINE r == Received(n)
           u == Unread(n)
           s == line \o r
<1>1. /\ n \in Nat \ {0} /\ pc = "read" /\ n <= Len(arrived) /\ arrived' = u
      /\ UNCHANGED <<sent, closed, connected>>
  BY BoundAssumption DEF ReadBytes
<1>2. /\ r \in Seq(Alphabet) /\ u \in Seq(Alphabet) /\ r # <<>> /\ r \o u = arrived
      /\ Len(r) + Len(u) = Len(arrived)
  BY <1>1, ReadSplits DEF Typed
<1>3. IF LF \in ToSet(s)
        THEN Finish(s)
        ELSE line' = s /\ UNCHANGED <<pc, readbuf, tail, fragmented, taken, given, failed>>
  BY DEF ReadBytes
<1> HIDE DEF r, u
<1>4. connected
  <2>1. arrived # <<>>
    BY <1>1, EmptySeq
  <2>2. QED
    BY <2>1 DEF Streaming
<1>5. /\ s \in Seq(Alphabet) /\ s # <<>> /\ Len(s) = Len(line) + Len(r)
      /\ line \o arrived = s \o u
  <2>1. line \in Seq(Alphabet)
    BY DEF Typed
  <2>2. s \in Seq(Alphabet) /\ s # <<>> /\ Len(s) = Len(line) + Len(r)
    BY <1>2, <2>1, LastConcat, ConcatProperties
  <2>3. (line \o r) \o u = line \o (r \o u)
    <3>1. r \in Seq(Alphabet) /\ u \in Seq(Alphabet)
      BY <1>2
    <3>2. QED
      BY ONLY <2>1, <3>1, ConcatAssociative, SMTT(30)
  <2>4. QED
    BY <1>2, <2>2, <2>3
<1> HIDE DEF s
<1>6. taken \o s \in Seq(Alphabet) /\ Stream = (taken \o s) \o u
  <2>1. taken \in Seq(Alphabet)
    BY DEF Typed
  <2>2. taken \o s \in Seq(Alphabet) /\ (taken \o s) \o u = taken \o (s \o u)
    <3>1. s \in Seq(Alphabet) /\ u \in Seq(Alphabet)
      BY <1>2, <1>5
    <3>2. taken \o s \in Seq(Alphabet)
      BY <2>1, <3>1, ConcatProperties
    <3>3. (taken \o s) \o u = taken \o (s \o u)
      BY <2>1, <3>1, ConcatAssociative
    <3>4. QED
      BY <3>2, <3>3
  <2>3. Stream = taken \o (line \o arrived)
    BY StreamParts
  <2>4. QED
    BY <1>5, <2>2, <2>3
<1>7. PairedCR(s) /\ Follows(taken, s)
  <2> DEFINE w == taken \o s
  <2>1. w \in Seq(Alphabet) /\ PairedCR(w \o u)
    BY <1>6 DEF Streaming
  <2> HIDE DEF w
  <2>2. PairedCR(w)
    BY <1>2, <2>1, PairedParts
  <2>3. QED
    BY <1>5, <2>2, PairedParts DEF w, Typed
<1>8. DOMAIN s = 1..Len(s) /\ (LF \in ToSet(s) <=> \E j \in 1..Len(s) : s[j] = LF)
  <2>1. DOMAIN s = 1..Len(s)
    BY <1>5, LenProperties
  <2>2. QED
    BY <2>1 DEF ToSet
<1>9. /\ Len(taken) \in Nat /\ Len(line) \in Nat /\ Len(r) \in Nat /\ Len(u) \in Nat
      /\ Len(taken) + Len(line) + Len(arrived) <= Len(sent) /\ Len(sent) <= MaxBytes
      /\ Len(sent) \in Nat
  BY <1>2, LenProperties DEF Typed, Streaming
<1>10. (taken \o s) \o <<>> = taken \o s /\ Len(taken \o s) = Len(taken) + Len(s)
  <2>1. taken \in Seq(Alphabet) /\ s \in Seq(Alphabet)
    BY <1>5 DEF Typed
  <2>2. Len(taken \o s) = Len(taken) + Len(s)
    BY <2>1, ConcatProperties
  <2> DEFINE w == taken \o s
  <2>3. w \in Seq(Alphabet)
    BY <1>6
  <2> HIDE DEF w
  <2>4. w \o <<>> = w
    BY <2>3, ConcatEmptySeq
  <2>5. QED
    BY <2>2, <2>4 DEF w
<1>11. CASE LF \in ToSet(s)
  <2>1. connected' \in BOOLEAN
    BY <1>1, <1>4
  <2>2. Finish(s) /\ \E j \in 1..Len(s) : s[j] = LF
    BY <1>3, <1>8, <1>11
  <2>3. /\ Buffering'
        /\ pc' = "idle" /\ line' = <<>> /\ failed' = failed /\ taken' = taken \o s
        /\ readbuf' \in Seq(Seq(Alphabet)) /\ given' \in Seq(Seq(Alphabet))
        /\ tail' \in BOOLEAN /\ fragmented' \in BOOLEAN
    BY <1>4, <1>5, <1>7, <2>1, <2>2, FinishKeeps
  <2>4. Stream' = Stream
    BY <1>1, <1>6, <1>10, <2>3 DEF Stream
  <2>5. Len(taken') + Len(line') + Len(arrived') <= Len(sent')
    <3>1. Len(taken') = Len(taken) + (Len(line) + Len(r)) /\ Len(line') = 0 /\ Len(arrived') = Len(u)
      BY <1>1, <1>5, <1>10, <2>3, EmptySeq
    <3>2. Len(sent') = Len(sent)
      BY <1>1
    <3>3. QED
      BY <1>2, <1>9, <3>1, <3>2
  <2>6. Streaming'
    <3>1. \A i \in 1..Len(line') : line'[i] # LF
      BY <2>3, EmptySeq
    <3>2. sent' = sent /\ connected'
      BY <1>1, <1>4
    <3>3. PairedCR(Stream') /\ (Stream' # <<>> /\ Last(Stream') = CR => sent' # <<>> /\ Last(sent') = CR)
      BY <2>4, <3>2 DEF Streaming
    <3>4. QED
      BY <1>9, <2>3, <2>5, <3>1, <3>2, <3>3 DEF Streaming
  <2>7. Typed'
    <3>1. line' \in Seq(Alphabet)
      BY <2>3, EmptySeq
    <3>2. QED
      BY <1>1, <1>2, <1>6, <2>3, <3>1 DEF Typed
  <2>8. QED
    BY <2>3, <2>6, <2>7
<1>12. CASE LF \notin ToSet(s)
  <2>1. line' = s /\ UNCHANGED <<pc, readbuf, tail, fragmented, taken, given, failed>>
    BY <1>3, <1>12
  <2>2. Stream' = Stream
    BY <1>1, <1>6, <2>1 DEF Stream
  <2>3. Len(taken') + Len(line') + Len(arrived') <= Len(sent')
    <3>1. Len(taken') = Len(taken) /\ Len(line') = Len(line) + Len(r) /\ Len(arrived') = Len(u)
      BY <1>1, <1>5, <2>1
    <3>2. Len(sent') = Len(sent)
      BY <1>1
    <3>3. QED
      BY <1>2, <1>9, <3>1, <3>2
  <2>4. Streaming'
    <3>1. \A i \in 1..Len(line') : line'[i] # LF
      BY <1>8, <1>12, <2>1
    <3>2. sent' = sent /\ connected' /\ pc' = "read"
      BY <1>1, <1>4, <2>1
    <3>3. PairedCR(Stream') /\ (Stream' # <<>> /\ Last(Stream') = CR => sent' # <<>> /\ Last(sent') = CR)
      BY <2>2, <3>2 DEF Streaming
    <3>4. QED
      BY <1>9, <2>3, <3>1, <3>2, <3>3 DEF Streaming
  <2>5. Typed'
    BY <1>1, <1>2, <1>5, <2>1 DEF Typed
  <2>6. Buffering'
    BY <1>1, <2>1 DEF Buffering
  <2>7. QED
    BY <2>4, <2>5, <2>6
<1>13. QED
  BY <1>11, <1>12

(* A read(2) that times out, or finds the stream at its end.                *)
LEMMA ReadNothingKeeps ==
  ASSUME Exact, ReadTimeout \/ ReadEnd
  PROVE  Exact'
<1> USE DEF Exact
<1>1. /\ arrived = <<>> /\ arrived' = <<>> /\ sent' = sent /\ closed' = closed /\ pc = "read"
      /\ taken \in Seq(Alphabet) /\ line \in Seq(Alphabet)
  BY DEF ReadTimeout, ReadEnd, Typed
<1>2. /\ taken \o line \in Seq(Alphabet) /\ PairedCR(taken \o line) /\ PairedCR(taken)
      /\ Follows(taken, line)
  BY StreamParts
<1>3. Stream = taken \o line
  <2> DEFINE w == taken \o line
  <2>1. w \in Seq(Alphabet)
    BY <1>2
  <2> HIDE DEF w
  <2>2. w \o <<>> = w
    BY <2>1, ConcatEmptySeq
  <2>3. QED
    BY <1>1, <2>2 DEF w, Stream
<1>4. (taken \o <<>>) \o <<>> = taken
  BY <1>1, ConcatEmptySeq
<1>5. /\ Len(taken) \in Nat /\ Len(line) \in Nat /\ Len(arrived) = 0 /\ Len(sent) \in Nat
      /\ Len(taken) + Len(line) + Len(arrived) <= Len(sent) /\ Len(sent) <= MaxBytes
      /\ Len(taken \o line) = Len(taken) + Len(line)
  <2>1. Len(taken) \in Nat /\ Len(line) \in Nat /\ Len(sent) \in Nat
    BY LenProperties DEF Typed
  <2>2. Len(taken \o line) = Len(taken) + Len(line)
    BY <1>1, ConcatProperties
  <2>3. QED
    BY <1>1, <2>1, <2>2, EmptySeq DEF Streaming
<1>6. CASE ReadTimeout
  <2>1. /\ pc' = "idle" /\ line' = <<>> /\ ~closed
        /\ UNCHANGED <<sent, closed, arrived, readbuf, tail, fragmented, connected, taken, given, failed>>
    BY <1>6 DEF ReadTimeout
  <2>2. Stream' = taken
    BY <1>1, <1>4, <2>1 DEF Stream
  <2>3. taken # <<>> /\ Last(taken) = CR => sent # <<>> /\ Last(sent) = CR
    <3>1. ASSUME taken # <<>>, Last(taken) = CR PROVE Stream = taken
      <4>1. line # <<>> => line[1] = LF
        BY <1>2, <3>1 DEF Follows
      <4>2. line = <<>>
        <5>1. line # <<>> => 1 \in 1..Len(line)
          BY <1>1, EmptySeq
        <5>2. QED
          BY <4>1, <5>1 DEF Streaming
      <4>3. QED
        BY <1>1, <1>3, <4>2, ConcatEmptySeq
    <3>2. QED
      BY <3>1 DEF Streaming
  <2>4. Len(taken') + Len(line') + Len(arrived') <= Len(sent')
    <3>1. Len(taken') = Len(taken) /\ Len(line') = 0 /\ Len(arrived') = 0 /\ Len(sent') = Len(sent)
      BY <1>1, <2>1, EmptySeq
    <3>2. QED
      BY <1>5, <3>1
  <2>5. Streaming'
    <3>1. \A i \in 1..Len(line') : line'[i] # LF
      BY <2>1, EmptySeq
    <3>2. ~connected' => closed' /\ arrived' = <<>> /\ line' = <<>>
      BY <2>1 DEF Streaming
    <3>3. PairedCR(Stream') /\ (Stream' # <<>> /\ Last(Stream') = CR => sent' # <<>> /\ Last(sent') = CR)
      BY <1>2, <2>1, <2>2, <2>3
    <3>4. QED
      BY <1>5, <2>1, <2>4, <3>1, <3>2, <3>3 DEF Streaming
  <2>6. Typed'
    <3>1. line' \in Seq(Alphabet)
      BY <2>1, EmptySeq
    <3>2. QED
      BY <2>1, <3>1 DEF Typed
  <2>7. Buffering'
    BY <2>1 DEF Buffering
  <2>8. QED
    BY <2>5, <2>6, <2>7
<1>7. CASE ReadEnd /\ line = <<>>
  <2>1. /\ closed /\ connected' = FALSE /\ failed' = TRUE /\ pc' = "idle"
        /\ UNCHANGED <<sent, closed, arrived, line, readbuf, tail, fragmented, taken, given>>
    BY <1>7 DEF ReadEnd
  <2>2. Stream' = Stream
    BY <2>1 DEF Stream
  <2>3. QED
    <3>1. Typed'
      BY <2>1 DEF Typed
    <3>2. Streaming'
      BY <1>1, <1>7, <2>1, <2>2 DEF Streaming
    <3>3. Buffering'
      BY <2>1 DEF Buffering
    <3>4. QED
      BY <3>1, <3>2, <3>3
<1>8. CASE ReadEnd /\ line # <<>>
  <2>1. closed /\ connected' = FALSE /\ Finish(line)
    BY <1>8 DEF ReadEnd
  <2>2. connected
    BY <1>8 DEF Streaming
  <2>3. PairedCR(line)
    BY <1>1, <1>2, PairedParts
  <2>4. /\ Buffering'
        /\ pc' = "idle" /\ line' = <<>> /\ failed' = failed /\ taken' = taken \o line
        /\ readbuf' \in Seq(Seq(Alphabet)) /\ given' \in Seq(Seq(Alphabet))
        /\ tail' \in BOOLEAN /\ fragmented' \in BOOLEAN
    BY <1>1, <1>2, <1>8, <2>1, <2>2, <2>3, FinishKeeps
  <2>5. Stream' = Stream
    <3> DEFINE w == taken \o line
    <3>1. w \in Seq(Alphabet) /\ Stream = w /\ Stream' = (w \o <<>>) \o <<>>
      BY <1>1, <1>2, <1>3, <2>4 DEF Stream
    <3> HIDE DEF w
    <3>2. QED
      BY <3>1, ConcatEmptySeq
  <2>6. Len(taken') + Len(line') + Len(arrived') <= Len(sent')
    <3>1. Len(taken') = Len(taken) + Len(line) /\ Len(line') = 0 /\ Len(arrived') = 0
          /\ Len(sent') = Len(sent)
      BY <1>1, <1>5, <2>4, EmptySeq
    <3>2. QED
      BY <1>5, <3>1
  <2>7. Streaming'
    <3>1. \A i \in 1..Len(line') : line'[i] # LF
      BY <2>4, EmptySeq
    <3>2. closed' /\ arrived' = <<>> /\ line' = <<>> /\ sent' = sent
      BY <1>1, <2>1, <2>4
    <3>3. PairedCR(Stream') /\ (Stream' # <<>> /\ Last(Stream') = CR => sent' # <<>> /\ Last(sent') = CR)
      BY <2>5, <3>2 DEF Streaming
    <3>4. QED
      BY <1>5, <2>4, <2>6, <3>1, <3>2, <3>3 DEF Streaming
  <2>8. Typed'
    <3>1. line' \in Seq(Alphabet)
      BY <2>4, EmptySeq
    <3>2. QED
      BY <1>1, <1>2, <2>1, <2>4, <3>1, EmptySeq DEF Typed
  <2>9. QED
    BY <2>4, <2>7, <2>8
<1>9. QED
  BY <1>6, <1>7, <1>8

(* Nothing has been sent at first.                                          *)
LEMMA InitExact == Init => Exact
<1> SUFFICES ASSUME Init PROVE Exact
  OBVIOUS
<1> DEFINE e == <<>>
<1>1. /\ e \in Seq(Alphabet) /\ Len(e) = 0 /\ e \in Seq(Seq(Alphabet)) /\ e \o e = e
  BY EmptySeq, ConcatEmptySeq
<1>2. LinesOf(e) = e
  <2>1. strsep(e, LF) = << <<>> >>
    BY StrsepEmpty
  <2>2. All(e) \in Seq(Seq(Alphabet)) /\ All(e) \in Pieces /\ Len(All(e)) = 1
    <3>1. All(e) \in Pieces /\ All(e) \in Seq(Seq(Alphabet)) /\ Len(All(e)) = Len(strsep(e, LF))
      BY <1>1, AllType
    <3>2. QED
      BY <2>1, <3>1
  <2> DEFINE x == All(e)
  <2>3. LinesOf(e) = Front(x)
    BY LinesOfAll
  <2> HIDE DEF x
  <2>4. Front(x) \in Seq(Seq(Alphabet)) /\ Len(Front(x)) = Len(x) - 1
    BY <2>2, FrontLast DEF x, Pieces
  <2>5. Len(Front(x)) = 0
    BY <2>2, <2>4 DEF x
  <2>6. QED
    BY <2>3, <2>4, <2>5, EmptySeq
<1>3. /\ sent = e /\ arrived = e /\ line = e /\ taken = e /\ readbuf = e /\ given = e
      /\ pc = "idle" /\ closed = FALSE /\ tail = FALSE /\ fragmented = FALSE
      /\ connected = TRUE /\ failed = FALSE
  BY DEF Init
<1> HIDE DEF e
<1>4. Typed
  BY <1>1, <1>3 DEF Typed
<1>5. Stream = e
  BY <1>1, <1>3 DEF Stream
<1>6. Streaming
  <2>1. PairedCR(e) /\ \A i \in 1..Len(e) : e[i] # LF
    BY <1>1 DEF PairedCR
  <2>2. Len(e) + Len(e) + Len(e) <= Len(e) /\ Len(e) <= MaxBytes
    BY <1>1, BoundAssumption
  <2>3. QED
    BY <1>3, <1>5, <2>1, <2>2 DEF Streaming, e
<1>7. Buffering
  BY <1>1, <1>2, <1>3 DEF Buffering, e
<1>8. QED
  BY <1>4, <1>6, <1>7 DEF Exact

(* The invariant is inductive.                                              *)
LEMMA ExactKept == Exact /\ [Next]_vars => Exact'
<1> SUFFICES ASSUME Exact, [Next]_vars PROVE Exact'
  OBVIOUS
<1>1. CASE \E c \in Alphabet : Send(c)
  BY <1>1, SendKeeps
<1>2. CASE Close \/ CallBuffered \/ CallRead
  BY <1>2, IdleKeeps
<1>3. CASE \E n \in 1..BufSize : ReadBytes(n)
  BY <1>3, ReadBytesKeeps
<1>4. CASE ReadTimeout \/ ReadEnd
  BY <1>4, ReadNothingKeeps
<1>5. CASE UNCHANGED vars
  BY <1>5 DEF vars, Exact, Typed, Streaming, Buffering, Stream
<1>6. QED
  BY <1>1, <1>2, <1>3, <1>4, <1>5 DEF Next

(* The bytes in the lines given and in read_buf are bytes of the stream.    *)
LEMMA ExactBytes ==
  ASSUME Exact
  PROVE  TypeOK
<1> USE DEF Exact
<1>1. ASSUME NEW s \in Seq(Alphabet), Len(s) <= MaxBytes PROVE Bytes(s)
  <2>1. \A i \in 1..Len(s) : s[i] \in Alphabet
    BY ElementOfSeq
  <2>2. DOMAIN s = 1..Len(s)
    BY LenProperties
  <2>3. QED
    BY <1>1, <2>1, <2>2 DEF Bytes, ToSet
<1>2. /\ Len(taken) \in Nat /\ Len(line) \in Nat /\ Len(arrived) \in Nat /\ Len(sent) \in Nat
      /\ Len(taken) + Len(line) + Len(arrived) <= Len(sent) /\ Len(sent) <= MaxBytes
  BY LenProperties DEF Typed, Streaming
<1>3. Len(taken) <= MaxBytes /\ Len(line) <= MaxBytes /\ Len(arrived) <= MaxBytes
  BY <1>2, BoundAssumption
<1>4. Bytes(taken) /\ Bytes(line) /\ Bytes(arrived) /\ Bytes(sent)
  BY <1>1, <1>2, <1>3 DEF Typed
<1> DEFINE h == given \o readbuf
           m == Len(given)
           k == Len(readbuf)
<1>5. /\ given \in Seq(Seq(Alphabet)) /\ readbuf \in Seq(Seq(Alphabet)) /\ m \in Nat /\ k \in Nat
      /\ DOMAIN given = 1..m /\ DOMAIN readbuf = 1..k
  BY LenProperties DEF Typed
<1>6. /\ h \in Seq(Seq(Alphabet)) /\ Len(h) = m + k
      /\ \A i \in 1..(m + k) : h[i] = IF i <= m THEN given[i] ELSE readbuf[i - m]
  BY <1>5, ConcatProperties
<1>7. \A i \in 1..Len(h) : Len(h[i]) <= Len(taken)
  <2>1. \A i \in 1..Len(LinesOf(taken)) : Len(LinesOf(taken)[i]) <= Len(taken)
    BY LinesType DEF Typed
  <2>2. QED
    BY <2>1 DEF Buffering
<1> HIDE DEF h
<1>8. ASSUME NEW i \in 1..(m + k) PROVE Bytes(h[i])
  <2> DEFINE s == h[i]
  <2>1. s \in Seq(Alphabet) /\ Len(s) <= Len(taken)
    BY <1>6, <1>7, ElementOfSeq
  <2>2. Len(s) \in Nat
    BY <2>1, LenProperties
  <2>3. Len(s) <= MaxBytes
    BY <1>2, <1>3, <2>1, <2>2, BoundAssumption
  <2> HIDE DEF s
  <2>4. Bytes(s)
    BY <1>1, <2>1, <2>3
  <2>5. QED
    BY <2>4 DEF s
<1> HIDE DEF m, k
<1>9. \A s \in ToSet(given) : Bytes(s)
  <2>1. ASSUME NEW i \in 1..m PROVE Bytes(given[i])
    <3>1. i \in 1..(m + k) /\ i <= m
      BY <1>5
    <3>2. h[i] = given[i]
      BY <1>6, <3>1
    <3>3. QED
      BY <1>8, <3>1, <3>2
  <2>2. QED
    BY <1>5, <2>1 DEF ToSet
<1>10. \A s \in ToSet(readbuf) : Bytes(s)
  <2>1. ASSUME NEW i \in 1..k PROVE Bytes(readbuf[i])
    <3> DEFINE j == m + i
    <3>1. j \in 1..(m + k) /\ ~(j <= m) /\ j - m = i
      BY <1>5
    <3> HIDE DEF j
    <3>2. h[j] = readbuf[i]
      BY <1>6, <3>1
    <3>3. QED
      BY <1>8, <3>1, <3>2
  <2>2. QED
    BY <1>5, <2>1 DEF ToSet
<1>11. QED
  BY <1>4, <1>9, <1>10 DEF TypeOK, Typed

(* LinesPreserved, for streams of any length over any alphabet, and reads   *)
(* of any size: socket_readline neither loses, nor duplicates, nor reorders *)
(* a line, nor tears one apart, of the bytes that a call has put into       *)
(* read_buf, wherever read(2) and the timeouts cut the stream.              *)
THEOREM LinesKept == Spec => []LinesPreserved
<1>1. Exact => LinesPreserved
  BY DEF Exact, Buffering, LinesPreserved
<1>2. QED
  BY <1>1, InitExact, ExactKept, PTL DEF Spec

(* FragmentPresent: the entry that a fragment is appended to is there and   *)
(* tail points to it, so the "logic error" branch of socket_readline is not *)
(* taken.                                                                   *)
THEOREM FragmentFound == Spec => []FragmentPresent
<1>1. Exact => FragmentPresent
  <2> SUFFICES ASSUME Exact PROVE FragmentPresent
    OBVIOUS
  <2>1. TypeOK
    BY ExactBytes
  <2>2. QED
    BY <2>1 DEF Exact, Buffering, FragmentPresent
<1>2. QED
  BY <1>1, InitExact, ExactKept, PTL DEF Spec

-----------------------------------------------------------------------------
(* The hash table: buckets. *)

(* The bucket s is the list b of n pairs.                                   *)
Paired(b, s, n) ==
  /\ n \in Nat /\ b \in Seq(Strings) /\ Len(b) = 2 * n
  /\ \A i \in 1..n : /\ b[2*i-1] \in Keys /\ HashOf[b[2*i-1]] = s
                     /\ b[2*i] \in Values /\ (b[2*i] \in Keys => HashOf[b[2*i]] # s)
  /\ \A i, j \in 1..n : b[2*i-1] = b[2*j-1] => i = j

(* An even length is that of pairs.                                         *)
LEMMA Halved ==
  ASSUME NEW n \in Nat
  PROVE  (2 * n) \div 2 = n /\ (2 * n) % 2 = 0
OBVIOUS

(* A position is the first or the second of a pair.                         *)
LEMMA OddOrEven ==
  ASSUME NEW n \in Nat, NEW j \in 1..(2 * n)
  PROVE  \E i \in 1..n : j = 2*i-1 \/ j = 2*i
<1> DEFINE i == (j + 1) \div 2
<1>1. i \in 1..n /\ (j = 2*i-1 \/ j = 2*i)
  OBVIOUS
<1>2. QED
  BY <1>1

(* The search finds a key where a pair begins, and no value in its place.   *)
LEMMA SearchFinds ==
  ASSUME NEW b, NEW k \in Keys, NEW n, Paired(b, HashOf[k], n)
  PROVE  \/ Search(b, k) = 0 /\ \A i \in 1..n : b[2*i-1] # k
         \/ \E i \in 1..n : Search(b, k) = 2*i-1 /\ b[2*i-1] = k
<1>1. n \in Nat /\ Len(b) = 2 * n
  BY DEF Paired
<1>2. ASSUME NEW j \in 1..Len(b), b[j] = k
      PROVE  \E i \in 1..n : j = 2*i-1
  <2>1. PICK i \in 1..n : j = 2*i-1 \/ j = 2*i
    BY <1>1, OddOrEven
  <2>2. j # 2*i
    BY <1>2, <2>1 DEF Paired
  <2>3. QED
    BY <2>1, <2>2
<1>3. CASE \E j \in 1..Len(b) : b[j] = k
  <2>1. PICK j \in 1..Len(b) : b[j] = k
    BY <1>3
  <2>2. PICK i \in 1..n : j = 2*i-1
    BY <1>2, <2>1
  <2>3. \A l \in 1..Len(b) : b[l] = k => l = j
    <3>1. SUFFICES ASSUME NEW l \in 1..Len(b), b[l] = k PROVE l = j
      OBVIOUS
    <3>2. PICK m \in 1..n : l = 2*m-1
      BY <1>2, <3>1
    <3>3. b[2*m-1] = b[2*i-1]
      BY <2>1, <2>2, <3>1, <3>2
    <3>4. m = i
      BY <3>3 DEF Paired
    <3>5. QED
      BY <2>2, <3>2, <3>4
  <2>4. j \in 1..Len(b) /\ b[j] = k /\ \A l \in 1..(j-1) : b[l] # k
    BY <1>1, <2>1, <2>3
  <2>5. Search(b, k) = j
    BY <1>3, <2>3, <2>4 DEF Search
  <2>6. QED
    BY <2>1, <2>2, <2>5
<1>4. CASE ~\E j \in 1..Len(b) : b[j] = k
  <2>1. Search(b, k) = 0
    BY <1>4 DEF Search
  <2>2. \A i \in 1..n : 2*i-1 \in 1..Len(b)
    BY <1>1
  <2>3. QED
    BY <1>4, <2>1, <2>2
<1>5. QED
  BY <1>3, <1>4

(* The key and the value of pair i.                                         *)
KeyAt(b, i) == b[2*i-1]
ValueAt(b, i) == b[2*i]

(* The same in these words.                                                 *)
LEMMA KeySearched ==
  ASSUME NEW b, NEW k \in Keys, NEW n, Paired(b, HashOf[k], n)
  PROVE  \/ Search(b, k) = 0 /\ \A i \in 1..n : KeyAt(b, i) # k
         \/ \E i \in 1..n : Search(b, k) = 2*i-1 /\ KeyAt(b, i) = k
BY SearchFinds DEF KeyAt

(* A new pair at the end.                                                   *)
LEMMA PairAdded ==
  ASSUME NEW b, NEW s, NEW n, Paired(b, s, n), NEW k \in Keys, NEW v \in Values, HashOf[k] = s,
         v \in Keys => HashOf[v] # s, \A i \in 1..n : b[2*i-1] # k
  PROVE  Paired(b \o <<k, v>>, s, n + 1)
<1>1. n \in Nat /\ b \in Seq(Strings) /\ Len(b) = 2 * n
  BY DEF Paired
<1> DEFINE c == b \o <<k, v>>
<1>2. k \in Strings /\ v \in Strings
  BY DEF Strings
<1>3. c \in Seq(Strings) /\ Len(c) = 2 * (n + 1) /\ c[2*n+1] = k /\ c[2*n+2] = v
  BY <1>1, <1>2
<1>4. \A j \in 1..(2*n) : c[j] = b[j]
  BY <1>1, <1>2
<1>5. \A i \in 1..(n+1) : i = n + 1 \/ (i \in 1..n /\ 2*i-1 \in 1..(2*n) /\ 2*i \in 1..(2*n))
  BY <1>1
<1>6. 2*(n+1)-1 = 2*n+1 /\ 2*(n+1) = 2*n+2
  BY <1>1
<1> HIDE DEF c
<1>7. \A i \in 1..n : c[2*i-1] = b[2*i-1] /\ c[2*i] = b[2*i]
  BY <1>1, <1>4
<1>8. ASSUME NEW i \in 1..(n+1)
      PROVE  /\ c[2*i-1] \in Keys /\ HashOf[c[2*i-1]] = s
             /\ c[2*i] \in Values /\ (c[2*i] \in Keys => HashOf[c[2*i]] # s)
  <2>1. CASE i = n + 1
    BY <1>3, <1>6, <2>1
  <2>2. CASE i \in 1..n
    BY <1>7, <2>2 DEF Paired
  <2>3. QED
    BY <1>5, <2>1, <2>2
<1>9. ASSUME NEW i \in 1..(n+1), NEW j \in 1..(n+1), c[2*i-1] = c[2*j-1]
      PROVE  i = j
  <2>1. CASE i \in 1..n /\ j \in 1..n
    BY <1>7, <1>9, <2>1 DEF Paired
  <2>2. CASE i = n + 1 /\ j \in 1..n
    BY <1>3, <1>6, <1>7, <1>9, <2>2
  <2>3. CASE j = n + 1 /\ i \in 1..n
    BY <1>3, <1>6, <1>7, <1>9, <2>3
  <2>4. QED
    BY <1>5, <2>1, <2>2, <2>3
<1>10. QED
  BY <1>1, <1>3, <1>8, <1>9 DEF Paired, c

(* Another value for a key.                                                 *)
LEMMA ValueReplaced ==
  ASSUME NEW b, NEW s, NEW n, Paired(b, s, n), NEW m \in 1..n, NEW v \in Values,
         v \in Keys => HashOf[v] # s
  PROVE  Paired([b EXCEPT ![(2*m-1)+1] = v], s, n)
<1>1. n \in Nat /\ b \in Seq(Strings) /\ Len(b) = 2 * n
  BY DEF Paired
<1> DEFINE c == [b EXCEPT ![2*m] = v]
<1>2. v \in Strings /\ 2*m \in 1..Len(b) /\ (2*m-1)+1 = 2*m
  BY <1>1 DEF Strings
<1>3. c \in Seq(Strings) /\ Len(c) = 2 * n /\ \A j \in 1..(2*n) : c[j] = IF j = 2*m THEN v ELSE b[j]
  BY <1>1, <1>2, ExceptSeq
<1> HIDE DEF c
<1>4. \A i \in 1..n : c[2*i-1] = b[2*i-1] /\ c[2*i] = IF i = m THEN v ELSE b[2*i]
  <2>1. SUFFICES ASSUME NEW i \in 1..n
                 PROVE  c[2*i-1] = b[2*i-1] /\ c[2*i] = IF i = m THEN v ELSE b[2*i]
    OBVIOUS
  <2>2. 2*i-1 \in 1..(2*n) /\ 2*i \in 1..(2*n) /\ 2*i-1 # 2*m /\ (2*i = 2*m <=> i = m)
    BY <1>1
  <2>3. QED
    BY <1>3, <2>2
<1>5. \A i \in 1..n : /\ c[2*i-1] \in Keys /\ HashOf[c[2*i-1]] = s
                      /\ c[2*i] \in Values /\ (c[2*i] \in Keys => HashOf[c[2*i]] # s)
  BY <1>4 DEF Paired
<1>6. \A i, j \in 1..n : c[2*i-1] = c[2*j-1] => i = j
  BY <1>4 DEF Paired
<1>7. Paired(c, s, n)
  BY <1>1, <1>3, <1>5, <1>6 DEF Paired
<1>8. QED
  BY <1>2, <1>7 DEF c

(* Pair i when pair m is left out.                                          *)
Skip(i, m) == IF i <= m - 1 THEN i ELSE i + 1

(* Where the pairs are after pair m is taken out.                           *)
LEMMA PairKept ==
  ASSUME NEW b, NEW s, NEW n, Paired(b, s, n), NEW m \in 1..n
  PROVE  /\ WithoutPair(b, 2*m-1) \in Seq(Strings) /\ Len(WithoutPair(b, 2*m-1)) = 2 * (n - 1)
         /\ \A i \in 1..(n-1) : /\ Skip(i, m) \in 1..n
                               /\ KeyAt(WithoutPair(b, 2*m-1), i) = KeyAt(b, Skip(i, m))
                               /\ ValueAt(WithoutPair(b, 2*m-1), i) = ValueAt(b, Skip(i, m))
<1>1. n \in Nat /\ b \in Seq(Strings) /\ Len(b) = 2 * n /\ n - 1 \in Nat
  BY DEF Paired
<1> DEFINE x == SubSeq(b, 1, (2*m-1) - 1)
           y == SubSeq(b, (2*m-1) + 2, Len(b))
           c == x \o y
<1>2. /\ x \in Seq(Strings) /\ Len(x) = 2 * (m - 1)
      /\ \A j \in 1..(2*(m-1)) : x[j] = b[j]
  <2>1. (2*m-1)-1 = 2*(m-1) /\ 2*(m-1) \in Int /\ \A j \in 1..(2*(m-1)) : b[j] \in Strings
    BY <1>1
  <2>2. QED
    BY <2>1, <1>1, SubSeqProperties
<1>3. /\ y \in Seq(Strings) /\ Len(y) = 2 * (n - m)
      /\ \A j \in 1..(2*(n-m)) : y[j] = b[2*m+j]
  <2>1. (2*m-1)+2 = 2*m+1 /\ 2*m+1 \in Int /\ Len(b) \in Int /\ \A j \in (2*m+1)..Len(b) : b[j] \in Strings
    BY <1>1
  <2>2. /\ y \in Seq(Strings) /\ Len(y) = IF 2*m+1 <= Len(b) THEN Len(b)-(2*m+1)+1 ELSE 0
        /\ \A j \in 1..(Len(b)-(2*m+1)+1) : y[j] = b[(2*m+1)+j-1]
    BY <2>1, SubSeqProperties, SMTT(30)
  <2>3. Len(b)-(2*m+1)+1 = 2*(n-m) /\ (~(2*m+1 <= Len(b)) => 2*(n-m) = 0)
    BY <1>1
  <2>4. \A j \in 1..(2*(n-m)) : (2*m+1)+j-1 = 2*m+j
    BY <1>1
  <2> HIDE DEF y
  <2>5. QED
    BY <2>2, <2>3, <2>4
<1> HIDE DEF x, y
<1>4. /\ c \in Seq(Strings) /\ Len(c) = 2 * (n - 1)
      /\ \A j \in 1..(2*(n-1)) : c[j] = IF j <= 2*(m-1) THEN b[j] ELSE b[j+2]
  <2>1. /\ c \in Seq(Strings) /\ Len(c) = 2*(m-1) + 2*(n-m)
        /\ \A j \in 1..(2*(m-1) + 2*(n-m)) : c[j] = IF j <= 2*(m-1) THEN x[j] ELSE y[j - 2*(m-1)]
    BY <1>2, <1>3, ConcatProperties
  <2>2. 2*(m-1) + 2*(n-m) = 2*(n-1)
    BY <1>1
  <2>3. ASSUME NEW j \in 1..(2*(n-1)) PROVE c[j] = IF j <= 2*(m-1) THEN b[j] ELSE b[j+2]
    <3>1. CASE j <= 2*(m-1)
      <4>1. j \in 1..(2*(m-1))
        BY <1>1, <3>1
      <4>2. QED
        BY <1>2, <2>1, <2>2, <3>1, <4>1
    <3>2. CASE ~(j <= 2*(m-1))
      <4>1. j - 2*(m-1) \in 1..(2*(n-m)) /\ 2*m + (j - 2*(m-1)) = j + 2
        BY <1>1, <3>2
      <4>2. QED
        BY <1>3, <2>1, <2>2, <3>2, <4>1
    <3>3. QED
      BY <3>1, <3>2
  <2>4. QED
    BY <2>1, <2>2, <2>3
<1> HIDE DEF c
<1> DEFINE o(i) == IF i <= m - 1 THEN i ELSE i + 1
<1>5. \A i \in 1..(n-1) : /\ o(i) \in 1..n
                          /\ c[2*i-1] = b[2*o(i)-1] /\ c[2*i] = b[2*o(i)]
  <2>1. SUFFICES ASSUME NEW i \in 1..(n-1)
                 PROVE  o(i) \in 1..n /\ c[2*i-1] = b[2*o(i)-1] /\ c[2*i] = b[2*o(i)]
    OBVIOUS
  <2>2. 2*i-1 \in 1..(2*(n-1)) /\ 2*i \in 1..(2*(n-1)) /\ o(i) \in 1..n
    BY <1>1
  <2>3. CASE i <= m - 1
    <3>1. 2*i-1 <= 2*(m-1) /\ 2*i <= 2*(m-1) /\ o(i) = i
      BY <2>3
    <3>2. QED
      BY <1>4, <2>2, <3>1
  <2>4. CASE ~(i <= m - 1)
    <3>1. ~(2*i-1 <= 2*(m-1)) /\ ~(2*i <= 2*(m-1)) /\ o(i) = i + 1
      BY <2>4
    <3>2. (2*i-1)+2 = 2*(i+1)-1 /\ 2*i+2 = 2*(i+1)
      OBVIOUS
    <3>3. c[2*i-1] = b[2*(i+1)-1] /\ c[2*i] = b[2*(i+1)]
      BY <1>4, <2>2, <3>1, <3>2
    <3>4. QED
      BY <2>2, <3>1, <3>3
  <2>5. QED
    BY <2>3, <2>4
<1>6. c = WithoutPair(b, 2*m-1)
  BY DEF WithoutPair, c, x, y
<1>7. \A i : Skip(i, m) = o(i)
  BY DEF Skip, o
<1> HIDE DEF o
<1>8. \A i \in 1..(n-1) : /\ Skip(i, m) \in 1..n
                          /\ c[2*i-1] = b[2*Skip(i, m)-1] /\ c[2*i] = b[2*Skip(i, m)]
  BY <1>5, <1>7
<1>9. \A i \in 1..(n-1) : /\ Skip(i, m) \in 1..n
                          /\ KeyAt(c, i) = KeyAt(b, Skip(i, m))
                          /\ ValueAt(c, i) = ValueAt(b, Skip(i, m))
  BY <1>8 DEF KeyAt, ValueAt
<1>10. c \in Seq(Strings) /\ Len(c) = 2*(n-1)
  BY <1>4
<1>11. QED
  BY <1>6, <1>9, <1>10

(* A pair taken out.                                                        *)
LEMMA PairRemoved ==
  ASSUME NEW b, NEW s, NEW n, Paired(b, s, n), NEW m \in 1..n
  PROVE  Paired(WithoutPair(b, 2*m-1), s, n - 1)
<1> DEFINE c == WithoutPair(b, 2*m-1)
           o(i) == IF i <= m - 1 THEN i ELSE i + 1
<1>1. n \in Nat /\ b \in Seq(Strings) /\ Len(b) = 2 * n /\ n - 1 \in Nat
  BY DEF Paired
<1>4. c \in Seq(Strings) /\ Len(c) = 2 * (n - 1)
  BY PairKept
<1>5. \A i \in 1..(n-1) : o(i) \in 1..n /\ c[2*i-1] = b[2*o(i)-1] /\ c[2*i] = b[2*o(i)]
  <2>1. \A i \in 1..(n-1) : /\ Skip(i, m) \in 1..n /\ KeyAt(c, i) = KeyAt(b, Skip(i, m))
                            /\ ValueAt(c, i) = ValueAt(b, Skip(i, m))
    BY PairKept
  <2>2. \A i : Skip(i, m) = o(i)
    BY DEF Skip
  <2> HIDE DEF c, o
  <2>3. QED
    BY <2>1, <2>2 DEF KeyAt, ValueAt
<1> HIDE DEF c
<1>6. \A i, j \in 1..(n-1) : o(i) = o(j) => i = j
  OBVIOUS
<1> HIDE DEF o
<1>6a. /\ \A l \in 1..n : /\ b[2*l-1] \in Keys /\ HashOf[b[2*l-1]] = s
                          /\ b[2*l] \in Values /\ (b[2*l] \in Keys => HashOf[b[2*l]] # s)
       /\ \A l, j \in 1..n : b[2*l-1] = b[2*j-1] => l = j
  BY DEF Paired
<1>7. ASSUME NEW i \in 1..(n-1)
      PROVE  /\ c[2*i-1] \in Keys /\ HashOf[c[2*i-1]] = s
             /\ c[2*i] \in Values /\ (c[2*i] \in Keys => HashOf[c[2*i]] # s)
  <2>1. PICK l \in 1..n : c[2*i-1] = b[2*l-1] /\ c[2*i] = b[2*l]
    BY <1>5
  <2>2. QED
    BY <1>6a, <2>1
<1>8. ASSUME NEW i \in 1..(n-1), NEW j \in 1..(n-1), c[2*i-1] = c[2*j-1] PROVE i = j
  <2>1. PICK l \in 1..n : l = o(i) /\ c[2*i-1] = b[2*l-1]
    BY <1>5
  <2>2. PICK q \in 1..n : q = o(j) /\ c[2*j-1] = b[2*q-1]
    BY <1>5
  <2>3. l = q
    BY <1>6a, <1>8, <2>1, <2>2
  <2>4. QED
    BY <1>6, <2>1, <2>2, <2>3
<1>9. Paired(c, s, n - 1)
  BY <1>1, <1>4, <1>7, <1>8 DEF Paired
<1>10. QED
  BY <1>9 DEF c

-----------------------------------------------------------------------------
(* Tables. *)

(* The entries of a bucket, and the places of the pairs, of any table.      *)
Ent(B, s) == IF B[s] = NULL THEN <<>> ELSE B[s]
Places(B) == UNION {{s} \X (1..(Len(Ent(B, s)) \div 2)) : s \in Slots}

(* The invariant: buckets of pairs, and as many pairs as counted.           *)
TableOK(t) ==
  /\ t \in [bucket : [Slots -> {NULL} \cup Seq(Strings)], count : Nat]
  /\ \A s \in Slots : \E n \in Nat : Paired(Ent(t.bucket, s), s, n)
  /\ IsFiniteSet(Places(t.bucket)) /\ t.count = Cardinality(Places(t.bucket))

(* What a place is.                                                         *)
LEMMA PlaceIs ==
  ASSUME NEW B, NEW p
  PROVE  p \in Places(B) <=> \E s \in Slots : \E i \in 1..(Len(Ent(B, s)) \div 2) : p = <<s, i>>
BY DEF Places

(* No list is NULL.                                                         *)
LEMMA ListNotNull == \A b \in Seq(Strings) : b # NULL
BY NullAssumption DEF Strings

(* No pairs at all.                                                         *)
LEMMA NoPairs ==
  ASSUME NEW B \in [Slots -> {NULL} \cup Seq(Strings)], \A s \in Slots : Ent(B, s) = <<>>
  PROVE  TableOK([bucket |-> B, count |-> 0])
<1>1. \A s \in Slots : Paired(Ent(B, s), s, 0)
  <2>1. SUFFICES ASSUME NEW s \in Slots PROVE Paired(<<>>, s, 0)
    OBVIOUS
  <2>2. <<>> \in Seq(Strings) /\ Len(<<>>) = 2 * 0
    OBVIOUS
  <2>3. QED
    BY <2>2 DEF Paired
<1>2. Places(B) = {}
  <2>1. \A s \in Slots : Len(Ent(B, s)) \div 2 = 0
    OBVIOUS
  <2>2. \A p : p \notin Places(B)
    BY <2>1, PlaceIs
  <2>3. QED
    BY <2>2
<1>3. QED
  BY <1>1, <1>2, FS_EmptySet DEF TableOK

(* Another list of pairs in one bucket, with one pair more or less, or none.*)
LEMMA BucketChanged ==
  ASSUME NEW t, TableOK(t), NEW s \in Slots, NEW n \in Nat, Paired(Ent(t.bucket, s), s, n),
         NEW m \in Nat, NEW c, Paired(c, s, m), m = n \/ m = n + 1 \/ m = n - 1
  PROVE  TableOK([bucket |-> [t.bucket EXCEPT ![s] = c], count |-> t.count + (m - n)])
<1> DEFINE B == t.bucket
           C == [B EXCEPT ![s] = c]
           u == [bucket |-> C, count |-> t.count + (m - n)]
<1>1. /\ B \in [Slots -> {NULL} \cup Seq(Strings)] /\ t.count \in Nat
      /\ \A r \in Slots : \E i \in Nat : Paired(Ent(B, r), r, i)
      /\ IsFiniteSet(Places(B)) /\ t.count = Cardinality(Places(B))
  BY DEF TableOK
<1>2. c \in Seq(Strings) /\ Len(c) = 2 * m /\ c # NULL /\ Len(c) \div 2 = m
  BY ListNotNull, Halved DEF Paired
<1>3. C \in [Slots -> {NULL} \cup Seq(Strings)]
  BY <1>1, <1>2
<1>4. Ent(C, s) = c /\ \A r \in Slots : r # s => Ent(C, r) = Ent(B, r)
  BY <1>1, <1>2 DEF Ent
<1>5. Len(Ent(B, s)) \div 2 = n
  BY Halved DEF Paired
<1> HIDE DEF B, C
<1>6. \A r \in Slots : \E i \in Nat : Paired(Ent(C, r), r, i)
  BY <1>1, <1>4
<1>7. \A r \in Slots : \A i : <<r, i>> \in Places(B) <=> i \in 1..(Len(Ent(B, r)) \div 2)
  BY PlaceIs
<1>8. \A r \in Slots : \A i : <<r, i>> \in Places(C) <=> i \in 1..(Len(Ent(C, r)) \div 2)
  BY PlaceIs
<1>9. \A p : p \in Places(B) \/ p \in Places(C) => \E r \in Slots, i \in Nat : p = <<r, i>>
  <2>1. SUFFICES ASSUME NEW p, NEW D, p \in Places(D), D = B \/ D = C
                 PROVE  \E r \in Slots, i \in Nat : p = <<r, i>>
    OBVIOUS
  <2>2. PICK r \in Slots : \E i \in 1..(Len(Ent(D, r)) \div 2) : p = <<r, i>>
    BY <2>1, PlaceIs
  <2>3. QED
    BY <2>2
<1>10. \A r \in Slots, i \in Nat : r # s => (<<r, i>> \in Places(B) <=> <<r, i>> \in Places(C))
  BY <1>4, <1>7, <1>8
<1>11. \A i \in Nat : /\ <<s, i>> \in Places(B) <=> i \in 1..n
                      /\ <<s, i>> \in Places(C) <=> i \in 1..m
  BY <1>2, <1>4, <1>5, <1>7, <1>8
<1>12. IsFiniteSet(Places(C)) /\ Cardinality(Places(C)) = Cardinality(Places(B)) + (m - n)
  <2>1. CASE m = n
    <3>1. \A p : p \in Places(B) <=> p \in Places(C)
      BY <1>9, <1>10, <1>11, <2>1
    <3>2. Places(C) = Places(B)
      BY <3>1
    <3>3. QED
      BY <1>1, <2>1, <3>2
  <2>2. CASE m = n + 1
    <3>1. \A p : p \in Places(C) <=> p \in Places(B) \cup {<<s, m>>}
      <4>1. <<s, m>> \in Places(C)
        BY <1>11, <2>2
      <4>2. \A i \in Nat : i # m => (i \in 1..n <=> i \in 1..m)
        BY <2>2
      <4>3. \A r \in Slots, i \in Nat : <<r, i>> # <<s, m>> =>
              (<<r, i>> \in Places(C) <=> <<r, i>> \in Places(B))
        BY <1>10, <1>11, <4>2
      <4>4. QED
        BY <1>9, <4>1, <4>3
    <3>2. Places(C) = Places(B) \cup {<<s, m>>} /\ <<s, m>> \notin Places(B)
      BY <1>11, <2>2, <3>1
    <3> DEFINE q == <<s, m>>
    <3>3. /\ IsFiniteSet(Places(B) \cup {q})
          /\ Cardinality(Places(B) \cup {q}) =
               IF q \in Places(B) THEN Cardinality(Places(B)) ELSE Cardinality(Places(B)) + 1
      <4> HIDE DEF q
      <4>1. QED
        BY <1>1, FS_AddElement
    <3>4. QED
      BY <2>2, <3>2, <3>3
  <2>3. CASE m = n - 1
    <3>1. \A p : p \in Places(C) <=> p \in Places(B) \ {<<s, n>>}
      <4>1. <<s, n>> \notin Places(C)
        BY <1>11, <2>3
      <4>2. \A i \in Nat : i # n => (i \in 1..n <=> i \in 1..m)
        BY <2>3
      <4>3. \A r \in Slots, i \in Nat : <<r, i>> # <<s, n>> =>
              (<<r, i>> \in Places(C) <=> <<r, i>> \in Places(B))
        BY <1>10, <1>11, <4>2
      <4>4. QED
        BY <1>9, <4>1, <4>3
    <3>2. Places(C) = Places(B) \ {<<s, n>>} /\ <<s, n>> \in Places(B)
      BY <1>11, <2>3, <3>1
    <3> DEFINE q == <<s, n>>
    <3>3. /\ IsFiniteSet(Places(B) \ {q})
          /\ Cardinality(Places(B) \ {q}) =
               IF q \in Places(B) THEN Cardinality(Places(B)) - 1 ELSE Cardinality(Places(B))
      <4> HIDE DEF q
      <4>1. QED
        BY <1>1, FS_RemoveElement
    <3>4. QED
      BY <1>1, <2>3, <3>2, <3>3
  <2>4. QED
    BY <2>1, <2>2, <2>3
<1>13. Cardinality(Places(C)) \in Nat
  BY <1>12, FS_CardinalityType
<1>14. u \in [bucket : [Slots -> {NULL} \cup Seq(Strings)], count : Nat]
  BY <1>1, <1>3, <1>12, <1>13
<1>15. TableOK(u)
  BY <1>1, <1>6, <1>12, <1>14 DEF TableOK
<1>16. QED
  BY <1>15 DEF B, C

(* A hash_set that succeeds.                                                *)
LEMMA StoredOK ==
  ASSUME NEW t, TableOK(t), NEW k \in Keys, NEW v \in Values, Storable(k, v)
  PROVE  TableOK(Stored(t, k, v))
<1> DEFINE s == HashOf[k]
           b == Ent(t.bucket, s)
           i == Search(b, k)
<1>1. s \in Slots /\ (v \in Keys => HashOf[v] # s)
  BY HashAssumption DEF Storable
<1>2. PICK n \in Nat : Paired(b, s, n)
  BY <1>1 DEF TableOK
<1>3. t.count \in Nat
  BY DEF TableOK
<1>4. Stored(t, k, v) =
        [bucket |-> [t.bucket EXCEPT ![s] = IF i = 0 THEN b \o <<k, v>> ELSE [b EXCEPT ![i+1] = v]],
         count  |-> IF i = 0 THEN t.count + 1 ELSE t.count]
  BY DEF Stored, Ent, Counted
<1> HIDE DEF b, i
<1>5. \/ i = 0 /\ \A j \in 1..n : b[2*j-1] # k
      \/ \E j \in 1..n : i = 2*j-1 /\ b[2*j-1] = k
  BY <1>2, SearchFinds DEF i
<1>6. CASE i = 0 /\ \A j \in 1..n : b[2*j-1] # k
  <2> DEFINE c == b \o <<k, v>>
  <2>1. Paired(c, s, n + 1)
    BY <1>1, <1>2, <1>6, PairAdded
  <2> HIDE DEF c
  <2>2. TableOK([bucket |-> [t.bucket EXCEPT ![s] = c], count |-> t.count + ((n + 1) - n)])
    BY <1>1, <1>2, <2>1, BucketChanged DEF b
  <2>3. t.count + ((n + 1) - n) = t.count + 1
    BY <1>3
  <2>4. QED
    BY <1>4, <1>6, <2>2, <2>3 DEF c
<1>7. CASE \E j \in 1..n : i = 2*j-1 /\ b[2*j-1] = k
  <2>1. PICK j \in 1..n : i = 2*j-1
    BY <1>7
  <2> DEFINE c == [b EXCEPT ![(2*j-1)+1] = v]
  <2>2. Paired(c, s, n)
    BY <1>1, <1>2, ValueReplaced
  <2> HIDE DEF c
  <2>3. TableOK([bucket |-> [t.bucket EXCEPT ![s] = c], count |-> t.count + (n - n)])
    BY <1>1, <1>2, <2>2, BucketChanged DEF b
  <2>4. t.count + (n - n) = t.count /\ i # 0
    BY <1>3, <2>1
  <2>5. QED
    BY <1>4, <2>1, <2>3, <2>4 DEF c
<1>8. QED
  BY <1>5, <1>6, <1>7

(* The key that is pushed and deleted again leaves the list as it was.      *)
LEMMA KeyGone ==
  ASSUME NEW b \in Seq(Strings), NEW k \in Keys
  PROVE  KeyRemoved(b, k) = b
<1> DEFINE c == Append(b, k)
<1>1. k \in Strings /\ Len(b) \in Nat
  BY DEF Strings
<1>2. c \in Seq(Strings) /\ Len(c) = Len(b) + 1 /\ \A i \in 1..Len(b) : c[i] = b[i] /\ c[i] \in Strings
  BY <1>1
<1> HIDE DEF c
<1>3. Len(c) - 1 = Len(b)
  BY <1>1, <1>2
<1>4. /\ SubSeq(c, 1, Len(b)) \in Seq(Strings) /\ Len(SubSeq(c, 1, Len(b))) = Len(b)
      /\ \A i \in 1..Len(b) : SubSeq(c, 1, Len(b))[i] = c[i]
  BY <1>1, <1>2
<1>5. SubSeq(c, 1, Len(b)) = b
  BY <1>2, <1>4, SeqEqual
<1>6. QED
  BY <1>3, <1>5 DEF KeyRemoved, c

(* A key is not the empty string, which any key may therefore have.         *)
LEMMA EmptyStorable == <<>> \in Values /\ \A k \in Keys : Storable(k, <<>>)
BY TextAssumption DEF Storable

(* A hash_set that fails: an update leaves the empty value.                 *)
LEMMA FailedUpdate ==
  ASSUME NEW t, NEW k, Has(t, k), NEW v, NEW u \in Failed(t, k, v)
  PROVE  u = Stored(t, k, <<>>)
BY DEF Failed

(* A hash_set that fails.                                                   *)
LEMMA FailedOK ==
  ASSUME NEW t, TableOK(t), NEW k \in Keys, NEW v, NEW u \in Failed(t, k, v)
  PROVE  TableOK(u)
<1>20. CASE Has(t, k)
  <2>1. u = Stored(t, k, <<>>)
    BY <1>20, FailedUpdate
  <2>2. QED
    BY <2>1, EmptyStorable, StoredOK
<1>21. SUFFICES ASSUME ~Has(t, k)
                PROVE  TableOK(u)
  BY <1>20
<1> DEFINE s == HashOf[k]
           b == Ent(t.bucket, s)
<1>1. s \in Slots /\ t.count \in Nat /\ t \in [bucket : [Slots -> {NULL} \cup Seq(Strings)], count : Nat]
  BY HashAssumption DEF TableOK
<1>2. PICK n \in Nat : Paired(b, s, n)
  BY <1>1 DEF TableOK
<1>3. b \in Seq(Strings)
  BY <1>2 DEF Paired
<1>4. u = t \/ u = [t EXCEPT !.bucket[s] = b] \/ u = [t EXCEPT !.bucket[s] = KeyRemoved(b, k)]
  BY <1>21 DEF Failed, Ent
<1> HIDE DEF b
<1>5. KeyRemoved(b, k) = b
  BY <1>3, KeyGone
<1>6. [t EXCEPT !.bucket[s] = b] = [bucket |-> [t.bucket EXCEPT ![s] = b], count |-> t.count + (n - n)]
  <2>1. t.count + (n - n) = t.count
    BY <1>1
  <2>2. t = [bucket |-> t.bucket, count |-> t.count]
    BY <1>1
  <2>3. QED
    BY <1>1, <2>1, <2>2
<1>7. TableOK([bucket |-> [t.bucket EXCEPT ![s] = b], count |-> t.count + (n - n)])
  BY <1>1, <1>2, BucketChanged DEF b
<1>8. QED
  BY <1>4, <1>5, <1>6, <1>7

(* The table of the state.                                                  *)
LEMMA TheTable ==
  ASSUME TableOK(Table)
  PROVE  /\ bucket \in [Slots -> {NULL} \cup Seq(Strings)] /\ count \in Nat
         /\ \A s \in Slots : Entries(s) = Ent(bucket, s) /\ \E n \in Nat : Paired(Entries(s), s, n)
BY DEF TableOK, Table, Ent, Entries

(* hash_truncate.                                                           *)
LEMMA EmptiedOK ==
  ASSUME TableOK(Table)
  PROVE  TableOK(Emptied)
<1> DEFINE B == [s \in Slots |-> IF bucket[s] = NULL THEN NULL ELSE <<>>]
<1>1. <<>> \in Seq(Strings) /\ <<>> # NULL
  <2>1. <<>> \in Seq(Strings)
    BY EmptySeq
  <2>2. QED
    BY <2>1, ListNotNull
<1>2. B \in [Slots -> {NULL} \cup Seq(Strings)]
  BY <1>1
<1>3. \A s \in Slots : Ent(B, s) = <<>>
  BY <1>1 DEF Ent
<1> HIDE DEF B
<1>4. TableOK([bucket |-> B, count |-> 0])
  BY <1>2, <1>3, NoPairs
<1>5. QED
  BY <1>4 DEF Emptied, B

-----------------------------------------------------------------------------
(* The lists of all keys and of all values. *)

(* There is an order of the buckets.                                        *)
LEMMA OrderType == Order \in Seq(Slots) /\ Len(Order) \in Nat
<1> DEFINE N == Cardinality(Slots)
<1>1. N \in Nat /\ ExistsBijection(1..N, Slots)
  BY HashAssumption, FS_CardinalityType
<1>2. PICK o : o \in Bijection(1..N, Slots)
  BY <1>1 DEF ExistsBijection
<1>3. o \in [1..N -> Slots] /\ \A i, j \in 1..N : o[i] = o[j] => i = j
  BY <1>2 DEF Bijection, Injection, IsInjective
<1>4. Order \in [1..N -> Slots]
  BY <1>3 DEF Order
<1> HIDE DEF N
<1>5. QED
  BY <1>1, <1>4

(* f is the function that EverySecond defines, on the first m buckets.      *)
Gathers(f, from, order, m) ==
  f = [n \in 0..m |-> IF n = 0 THEN <<>> ELSE f[n-1] \o Halves(Entries(order[n]), from)]

(* There is such a function.                                                *)
LEMMA GathersExists ==
  ASSUME NEW from, NEW order, NEW k \in Nat
  PROVE  \E f : Gathers(f, from, order, k)
<1> DEFINE T == {m \in Nat : \E f : Gathers(f, from, order, m)}
           Step(x, n) == x \o Halves(Entries(order[n]), from)
<1>1. 0 \in T
  <2> DEFINE f == [n \in 0..0 |-> <<>>]
  <2>1. Gathers(f, from, order, 0)
    BY DEF Gathers
  <2>2. QED
    BY <2>1
<1>2. ASSUME NEW m \in T PROVE m + 1 \in T
  <2>1. m \in Nat /\ m + 1 \in Nat
    OBVIOUS
  <2>2. PICK f : Gathers(f, from, order, m)
    OBVIOUS
  <2>3. f = [n \in 0..m |-> IF n = 0 THEN <<>> ELSE Step(f[n-1], n)]
    BY <2>2 DEF Gathers
  <2> HIDE DEF Step
  <2> DEFINE g == [n \in 0..(m+1) |-> IF n = m + 1 THEN Step(f[m], m + 1) ELSE f[n]]
  <2>4. \A n \in 0..(m+1) : g[n] = IF n = 0 THEN <<>> ELSE Step(g[n-1], n)
    <3>1. g[m+1] = Step(g[m], m + 1) /\ m + 1 # 0 /\ (m + 1) - 1 = m
      BY <2>1
    <3>2. ASSUME NEW n \in 0..m PROVE g[n] = IF n = 0 THEN <<>> ELSE Step(g[n-1], n)
      <4>1. f[n] = IF n = 0 THEN <<>> ELSE Step(f[n-1], n)
        BY <2>3
      <4>2. g[n] = f[n] /\ (n # 0 => g[n-1] = f[n-1])
        BY <2>1
      <4>3. QED
        BY <4>1, <4>2
    <3> HIDE DEF g
    <3>3. \A n \in 0..(m + 1) : n = m + 1 \/ n \in 0..m
      BY <2>1
    <3>4. QED
      BY <3>1, <3>2, <3>3
  <2>5. g = [n \in 0..(m+1) |-> IF n = 0 THEN <<>> ELSE Step(g[n-1], n)]
    <3>1. g = [n \in 0..(m+1) |-> g[n]]
      OBVIOUS
    <3> HIDE DEF g
    <3>2. QED
      BY <2>4, <3>1
  <2>6. Gathers(g, from, order, m + 1)
    BY <2>5 DEF Gathers, Step
  <2> HIDE DEF g
  <2>7. QED
    BY <2>1, <2>6
<1>3. T \in SUBSET Nat
  OBVIOUS
<1> HIDE DEF T
<1>4. T = Nat
  BY <1>1, <1>2, <1>3, SetInduction
<1>5. QED
  BY <1>4 DEF T

(* k and v list keys and values that stand next to each other.              *)
Besides(x, y) ==
  \E s \in Slots, n \in Nat : \E i \in 1..n :
    Paired(Entries(s), s, n) /\ x = Entries(s)[2*i-1] /\ y = Entries(s)[2*i]
TwoLists(k, v) ==
  /\ k \in Seq(Strings) /\ v \in Seq(Strings) /\ Len(k) = Len(v)
  /\ \A m \in 1..Len(k) : Besides(k[m], v[m])

(* One more bucket.                                                         *)
LEMMA GatherStep ==
  ASSUME NEW k, NEW v, TwoLists(k, v), NEW s \in Slots, NEW n \in Nat, Paired(Entries(s), s, n)
  PROVE  TwoLists(k \o Halves(Entries(s), 1), v \o Halves(Entries(s), 2))
<1> DEFINE b == Entries(s)
           x == Halves(b, 1)
           y == Halves(b, 2)
<1>1. b \in Seq(Strings) /\ Len(b) = 2 * n /\ Len(b) \div 2 = n
  BY Halved DEF Paired
<1>2. ASSUME NEW i \in 1..n
      PROVE  2*i-2+1 = 2*i-1 /\ 2*i-2+2 = 2*i /\ 2*i-1 \in 1..Len(b) /\ 2*i \in 1..Len(b)
             /\ b[2*i-1] \in Strings /\ b[2*i] \in Strings
  <2>1. 2*i-2+1 = 2*i-1 /\ 2*i-2+2 = 2*i /\ 2*i-1 \in 1..Len(b) /\ 2*i \in 1..Len(b)
    BY <1>1
  <2>2. QED
    BY <1>1, <2>1, ElementOfSeq
<1>3. x = [i \in 1..n |-> b[2*i-1]] /\ y = [i \in 1..n |-> b[2*i]]
  BY <1>1, <1>2 DEF Halves
<1>4. x \in Seq(Strings) /\ y \in Seq(Strings) /\ Len(x) = n /\ Len(y) = n
  <2>1. x \in [1..n -> Strings] /\ y \in [1..n -> Strings]
    BY <1>2, <1>3
  <2> HIDE DEF x, y
  <2>2. QED
    BY <2>1
<1>5. \A i \in 1..n : Besides(x[i], y[i])
  <2>1. SUFFICES ASSUME NEW i \in 1..n PROVE Besides(x[i], y[i])
    OBVIOUS
  <2>2. x[i] = b[2*i-1] /\ y[i] = b[2*i]
    BY <1>3
  <2>3. QED
    BY <2>2 DEF Besides
<1> HIDE DEF x, y
<1>6. /\ k \o x \in Seq(Strings) /\ v \o y \in Seq(Strings)
      /\ Len(k \o x) = Len(k) + n /\ Len(v \o y) = Len(k) + n
      /\ Len(k) \in Nat
      /\ \A m \in 1..(Len(k) + n) : (k \o x)[m] = IF m <= Len(k) THEN k[m] ELSE x[m - Len(k)]
      /\ \A m \in 1..(Len(k) + n) : (v \o y)[m] = IF m <= Len(k) THEN v[m] ELSE y[m - Len(k)]
  BY <1>4, ConcatProperties, LenProperties DEF TwoLists
<1>7. ASSUME NEW m \in 1..(Len(k) + n) PROVE Besides((k \o x)[m], (v \o y)[m])
  <2>1. CASE m <= Len(k)
    <3>1. m \in 1..Len(k)
      BY <1>6, <2>1
    <3>2. QED
      BY <1>6, <2>1, <3>1 DEF TwoLists
  <2>2. CASE ~(m <= Len(k))
    <3>1. m - Len(k) \in 1..n
      BY <1>6, <2>2
    <3>2. QED
      BY <1>5, <1>6, <2>2, <3>1
  <2>3. QED
    BY <2>1, <2>2
<1>8. QED
  BY <1>6, <1>7 DEF TwoLists, x, y

(* All the buckets.                                                         *)
LEMMA KeysAndValues ==
  ASSUME TableOK(Table)
  PROVE  TwoLists(EverySecond(1, Order), EverySecond(2, Order))
<1> DEFINE N == Len(Order)
           f == CHOOSE h : Gathers(h, 1, Order, N)
           g == CHOOSE h : Gathers(h, 2, Order, N)
<1>1. N \in Nat /\ \A n \in 1..N : Order[n] \in Slots
  BY OrderType, ElementOfSeq
<1>2. Gathers(f, 1, Order, N) /\ Gathers(g, 2, Order, N)
  BY <1>1, GathersExists
<1>3. EverySecond(1, Order) = f[N] /\ EverySecond(2, Order) = g[N]
  BY DEF EverySecond, Gathers
<1> HIDE DEF f, g
<1> DEFINE T == {n \in Nat : n <= N => TwoLists(f[n], g[n])}
<1>4. 0 \in T
  <2>1. f[0] = <<>> /\ g[0] = <<>>
    BY <1>1, <1>2 DEF Gathers
  <2> DEFINE e == <<>>
  <2>2. e \in Seq(Strings) /\ Len(e) = 0
    BY EmptySeq
  <2> HIDE DEF e
  <2>3. TwoLists(e, e)
    BY <2>2 DEF TwoLists
  <2>4. QED
    BY <2>1, <2>3 DEF e
<1>5. ASSUME NEW n \in T PROVE n + 1 \in T
  <2>1. SUFFICES ASSUME n + 1 <= N PROVE TwoLists(f[n+1], g[n+1])
    OBVIOUS
  <2>2. n \in Nat /\ n + 1 \in 1..N /\ n + 1 \in 0..N /\ n + 1 # 0 /\ (n + 1) - 1 = n /\ n <= N
    BY <1>1, <2>1
  <2>3. TwoLists(f[n], g[n])
    BY <2>2
  <2> DEFINE s == Order[n+1]
  <2>4. /\ f[n+1] = f[n] \o Halves(Entries(s), 1)
        /\ g[n+1] = g[n] \o Halves(Entries(s), 2)
    BY <1>2, <2>2 DEF Gathers
  <2>5. s \in Slots
    BY <1>1, <2>2
  <2> HIDE DEF s
  <2>6. PICK q \in Nat : Paired(Entries(s), s, q)
    BY <2>5, TheTable
  <2>7. QED
    BY <2>3, <2>4, <2>5, <2>6, GatherStep
<1>6. T \in SUBSET Nat
  OBVIOUS
<1> HIDE DEF T
<1>7. T = Nat
  BY <1>4, <1>5, <1>6, SetInduction
<1>8. QED
  BY <1>1, <1>3, <1>7 DEF T

-----------------------------------------------------------------------------
(* Texts made of lines. *)

(* The characters of a text without "\r", of a line, and of a line that does*)
(* not look as if another followed.                                         *)
Plain == (1..255) \ {CR}
Inline == Plain \ {LF}
Clean == Inline \ {BACKSLASH}

(* The text s is the lines L, each ended by a line feed.                    *)
Reads(s, L) ==
  /\ s \in Seq(Plain) /\ L \in Seq(Seq(Inline))
  /\ \/ s = <<>> /\ L = <<>>
     \/ \E u \in Seq(Plain) : s = Append(u, LF) /\ strsep(u, LF) = L

(* The kinds of characters.                                                 *)
LEMMA Characters ==
  /\ LF \in Plain /\ Inline \subseteq Plain /\ Clean \subseteq Inline
  /\ BACKSLASH \in Inline /\ COLON \in Inline /\ SPACE \in Inline
  /\ KeyChars \subseteq Clean /\ COLON \notin KeyChars /\ LF \notin KeyChars
  /\ CR \notin Plain /\ LF \notin Inline /\ BACKSLASH \notin Clean
BY DEF Plain, Inline, Clean, LF, CR, BACKSLASH, COLON, SPACE, KeyChars, Digits, Letters

(* An element goes to the end of the second of two sequences.               *)
LEMMA ConcatAppend ==
  ASSUME NEW S, NEW s \in Seq(S), NEW x \in Seq(S), NEW e \in S
  PROVE  s \o Append(x, e) = Append(s \o x, e)
OBVIOUS

(* A line is read character by character.                                   *)
LEMMA StrsepInline ==
  ASSUME NEW s \in Seq(Plain), NEW L \in Seq(Seq(Inline)), strsep(s, LF) = Append(L, <<>>),
         NEW y \in Seq(Inline)
  PROVE  strsep(s \o y, LF) = Append(L, y)
<1> DEFINE T == {x \in Seq(Inline) : strsep(s \o x, LF) = Append(L, x)}
<1>1. <<>> \in T
  BY ConcatEmptySeq, EmptySeq
<1>2. ASSUME NEW x \in T, NEW c \in Inline PROVE Append(x, c) \in T
  <2>1. x \in Seq(Inline) /\ x \in Seq(Plain) /\ c \in Plain /\ c # LF /\ Append(x, c) \in Seq(Inline)
    BY Characters, SeqMonotonic
  <2>2. s \o Append(x, c) = Append(s \o x, c) /\ s \o x \in Seq(Plain)
    BY <2>1, ConcatAppend
  <2>3. strsep(s \o Append(x, c), LF) = Take(Append(L, x), c, LF)
    BY <2>1, <2>2, StrsepAppend
  <2> DEFINE t == Append(L, x)
             n == Len(t)
  <2>4. t \in Seq(Seq(Inline)) /\ n = Len(L) + 1 /\ Len(L) \in Nat /\ t[n] = x /\ \A i \in 1..Len(L) : t[i] = L[i]
    BY <2>1
  <2>5. Take(t, c, LF) = [t EXCEPT ![n] = Append(x, c)]
    BY <2>1, <2>4 DEF Take
  <2> HIDE DEF t
  <2> DEFINE u == [t EXCEPT ![n] = Append(x, c)]
             w == Append(L, Append(x, c))
  <2>6. /\ u \in Seq(Seq(Inline)) /\ Len(u) = n
        /\ \A i \in 1..n : u[i] = IF i = n THEN Append(x, c) ELSE t[i]
    BY <2>1, <2>4, ExceptSeq
  <2>7. /\ w \in Seq(Seq(Inline)) /\ Len(w) = n /\ w[n] = Append(x, c)
        /\ \A i \in 1..Len(L) : w[i] = L[i]
    BY <2>1, <2>4
  <2> HIDE DEF u, w, n
  <2>8. \A i \in 1..n : u[i] = w[i]
    <3>1. SUFFICES ASSUME NEW i \in 1..n PROVE u[i] = w[i]
      OBVIOUS
    <3>2. CASE i = n
      BY <2>6, <2>7, <3>2
    <3>3. CASE i # n
      <4>1. i \in 1..Len(L)
        BY <2>4, <3>3
      <4>2. u[i] = t[i]
        BY <2>6, <3>3
      <4>3. QED
        BY <2>4, <2>7, <4>1, <4>2
    <3>4. QED
      BY <3>2, <3>3
  <2>9. u = w
    BY <2>6, <2>7, <2>8, SeqEqual
  <2>10. QED
    BY <2>1, <2>3, <2>5, <2>9 DEF u, w, t
<1>3. T \in SUBSET Seq(Inline)
  OBVIOUS
<1> HIDE DEF T
<1>4. T = Seq(Inline)
  BY <1>1, <1>2, <1>3, AppendInduction
<1>5. QED
  BY <1>4 DEF T

(* After the lines an empty piece is left.                                  *)
LEMMA ReadsStrsep ==
  ASSUME NEW s, NEW L, Reads(s, L)
  PROVE  strsep(s, LF) = Append(L, <<>>)
<1>1. CASE s = <<>> /\ L = <<>>
  BY <1>1, StrsepEmpty
<1>2. CASE \E u \in Seq(Plain) : s = Append(u, LF) /\ strsep(u, LF) = L
  <2>1. PICK u \in Seq(Plain) : s = Append(u, LF) /\ strsep(u, LF) = L
    BY <1>2
  <2>2. strsep(s, LF) = Take(L, LF, LF)
    BY <2>1, Characters, StrsepAppend
  <2>3. QED
    BY <2>2 DEF Take
<1>3. QED
  BY <1>1, <1>2 DEF Reads

(* One more line.                                                           *)
LEMMA LineAdded ==
  ASSUME NEW s, NEW L, Reads(s, L), NEW x \in Seq(Inline)
  PROVE  Reads(s \o Append(x, LF), Append(L, x))
<1>1. s \in Seq(Plain) /\ L \in Seq(Seq(Inline)) /\ LF \in Plain /\ x \in Seq(Plain)
  BY Characters, SeqMonotonic DEF Reads
<1>2. strsep(s \o x, LF) = Append(L, x)
  BY <1>1, ReadsStrsep, StrsepInline
<1>3. s \o Append(x, LF) = Append(s \o x, LF) /\ s \o x \in Seq(Plain) /\ s \o Append(x, LF) \in Seq(Plain)
  BY <1>1, ConcatAppend
<1>4. Append(L, x) \in Seq(Seq(Inline))
  BY <1>1
<1>5. QED
  BY <1>2, <1>3, <1>4 DEF Reads

(* Nothing is cut off a line.                                               *)
LEMMA ChompLine ==
  ASSUME NEW x \in Seq(Inline)
  PROVE  str_chomp(x) = x
<1>1. x # <<>> => Last(x) \in Inline
  BY EmptySeq, ElementOfSeq DEF Last
<1>2. x # <<>> => Last(x) # LF /\ Last(x) # CR
  BY <1>1, Characters
<1>3. QED
  BY <1>2 DEF str_chomp

(* str_split finds the lines.                                               *)
LEMMA SplitReads ==
  ASSUME NEW s, NEW L, Reads(s, L)
  PROVE  str_split(s, LF) = L
<1>1. CASE s = <<>> /\ L = <<>>
  BY <1>1 DEF str_split
<1>2. CASE \E u \in Seq(Plain) : s = Append(u, LF) /\ strsep(u, LF) = L
  <2>1. PICK u \in Seq(Plain) : s = Append(u, LF) /\ strsep(u, LF) = L
    BY <1>2
  <2>2. /\ s \in Seq(Plain) /\ s # <<>> /\ Len(s) = Len(u) + 1 /\ Len(u) \in Nat /\ s[Len(s)] = LF
        /\ \A i \in 1..Len(u) : s[i] = u[i]
    BY <2>1, Characters, AppendProperties
  <2>3. Last(s) = LF /\ Front(s) = u
    <3>1. Len(s) - 1 = Len(u) /\ \A i \in 1..Len(u) : s[i] \in Plain
      BY <2>2
    <3>2. /\ SubSeq(s, 1, Len(u)) \in Seq(Plain) /\ Len(SubSeq(s, 1, Len(u))) = Len(u)
          /\ \A i \in 1..Len(u) : SubSeq(s, 1, Len(u))[i] = u[i]
      BY <2>2, <3>1
    <3>3. SubSeq(s, 1, Len(u)) = u
      BY <3>2, SeqEqual
    <3>4. QED
      BY <2>2, <3>1, <3>3 DEF Last, Front
  <2>4. u # <<>> => Last(u) # CR
    <3>1. u # <<>> => Last(u) \in Plain
      BY EmptySeq, ElementOfSeq DEF Last
    <3>2. QED
      BY <3>1, Characters
  <2>5. str_chomp(s) = u
    BY <2>2, <2>3, <2>4 DEF str_chomp
  <2>6. L \in Seq(Seq(Inline))
    BY DEF Reads
  <2>7. \A n \in 1..Len(L) : str_chomp(L[n]) = L[n]
    BY <2>6, ChompLine, ElementOfSeq
  <2>8. str_split(s, LF) = [n \in 1..Len(L) |-> str_chomp(L[n])]
    BY <2>1, <2>2, <2>5 DEF str_split
  <2>9. [n \in 1..Len(L) |-> str_chomp(L[n])] = [n \in 1..Len(L) |-> L[n]]
    BY <2>7
  <2>10. QED
    BY <2>6, <2>8, <2>9
<1>3. QED
  BY <1>1, <1>2 DEF Reads

-----------------------------------------------------------------------------
(* The parser of hash_deserialize. *)

(* Between two pairs, and in the middle of the value of key k.              *)
St(k, v, b, ps, f) == [key |-> k, val |-> v, multiline |-> b, pairs |-> ps, failed |-> f]
Idle(ps) == St(<<>>, <<>>, FALSE, ps, FALSE)
Within(k, v, ps) == St(k, v, TRUE, ps, FALSE)

(* f is the function that hash_deserialize defines, on the first m lines.   *)
Parses(f, L, m) ==
  f = [n \in 0..m |-> IF n = 0 THEN Idle(<<>>) ELSE TakeLine(f[n-1], L[n])]

(* The state of hash_deserialize after the lines L.                         *)
Parse(L) ==
  LET after[n \in 0..Len(L)] == IF n = 0 THEN Idle(<<>>) ELSE TakeLine(after[n-1], L[n])
  IN  after[Len(L)]

(* There is such a function.                                                *)
LEMMA ParsesExists ==
  ASSUME NEW L, NEW k \in Nat
  PROVE  \E f : Parses(f, L, k)
<1> DEFINE T == {m \in Nat : \E f : Parses(f, L, m)}
<1>1. 0 \in T
  <2> DEFINE f == [n \in 0..0 |-> Idle(<<>>)]
  <2>1. Parses(f, L, 0)
    BY DEF Parses
  <2>2. QED
    BY <2>1
<1>2. ASSUME NEW m \in T PROVE m + 1 \in T
  <2>1. m \in Nat /\ m + 1 \in Nat
    OBVIOUS
  <2>2. PICK f : Parses(f, L, m)
    OBVIOUS
  <2> DEFINE g == [n \in 0..(m+1) |-> IF n = m + 1 THEN TakeLine(f[m], L[m+1]) ELSE f[n]]
  <2>3. \A n \in 0..(m+1) : g[n] = IF n = 0 THEN Idle(<<>>) ELSE TakeLine(g[n-1], L[n])
    <3>1. g[m+1] = TakeLine(g[m], L[m+1]) /\ m + 1 # 0 /\ (m + 1) - 1 = m
      BY <2>1
    <3>2. ASSUME NEW n \in 0..m PROVE g[n] = IF n = 0 THEN Idle(<<>>) ELSE TakeLine(g[n-1], L[n])
      <4>1. f[n] = IF n = 0 THEN Idle(<<>>) ELSE TakeLine(f[n-1], L[n])
        BY <2>2 DEF Parses
      <4>2. g[n] = f[n] /\ (n # 0 => g[n-1] = f[n-1])
        BY <2>1
      <4>3. QED
        BY <4>1, <4>2
    <3> HIDE DEF g
    <3>3. \A n \in 0..(m + 1) : n = m + 1 \/ n \in 0..m
      BY <2>1
    <3>4. QED
      BY <3>1, <3>2, <3>3
  <2>4. g = [n \in 0..(m+1) |-> g[n]]
    OBVIOUS
  <2> HIDE DEF g
  <2>5. Parses(g, L, m + 1)
    BY <2>3, <2>4 DEF Parses
  <2>6. QED
    BY <2>1, <2>5
<1>3. T \in SUBSET Nat
  OBVIOUS
<1> HIDE DEF T
<1>4. T = Nat
  BY <1>1, <1>2, <1>3, SetInduction
<1>5. QED
  BY <1>4 DEF T

(* It is unique, and for a prefix of M it gives the same.                   *)
LEMMA ParsesUnique ==
  ASSUME NEW L, NEW M, NEW f, NEW g, NEW m \in Nat, NEW k \in Nat,
         m <= k, Agree(L, M, m), Parses(f, L, m), Parses(g, M, k)
  PROVE  f[m] = g[m]
<1> DEFINE T == {n \in Nat : n <= m => f[n] = g[n]}
<1>1. 0 \in T
  BY DEF Parses
<1>2. ASSUME NEW n \in T PROVE n + 1 \in T
  <2>1. SUFFICES ASSUME n + 1 <= m PROVE f[n + 1] = g[n + 1]
    OBVIOUS
  <2>2. f[n] = g[n] /\ L[n + 1] = M[n + 1]
    BY <2>1 DEF Agree
  <2>3. n + 1 \in 0..m /\ n + 1 \in 0..k /\ n + 1 # 0 /\ (n + 1) - 1 = n
    BY <2>1
  <2>4. f[n + 1] = TakeLine(f[n], L[n + 1])
    BY <2>3 DEF Parses
  <2>5. g[n + 1] = TakeLine(g[n], M[n + 1])
    BY <2>3 DEF Parses
  <2>6. QED
    BY <2>2, <2>4, <2>5
<1> HIDE DEF T
<1>3. T \in SUBSET Nat
  BY DEF T
<1>4. T = Nat
  BY <1>1, <1>2, <1>3, SetInduction
<1>5. QED
  BY <1>4 DEF T

(* Parse is its last value.                                                 *)
LEMMA ParseIs ==
  ASSUME NEW A, NEW L \in Seq(A)
  PROVE  \E f : Parses(f, L, Len(L)) /\ Parse(L) = f[Len(L)]
<1> DEFINE after == CHOOSE g : Parses(g, L, Len(L))
<1>1. Len(L) \in Nat
  OBVIOUS
<1>2. Parses(after, L, Len(L))
  BY <1>1, ParsesExists
<1>3. Parse(L) = after[Len(L)]
  BY DEF Parse, Parses
<1> HIDE DEF after
<1>4. QED
  BY <1>2, <1>3

(* No line.                                                                 *)
LEMMA ParseEmpty == Parse(<<>>) = Idle(<<>>)
<1> DEFINE e == <<>>
<1>1. e \in Seq({}) /\ Len(e) = 0
  OBVIOUS
<1> HIDE DEF e
<1>2. PICK f : Parses(f, e, Len(e)) /\ Parse(e) = f[Len(e)]
  BY <1>1, ParseIs
<1>3. Parse(e) = Idle(<<>>)
  BY <1>1, <1>2 DEF Parses
<1>4. QED
  BY <1>3 DEF e

(* One more line.                                                           *)
LEMMA ParseAppend ==
  ASSUME NEW A, NEW L \in Seq(A), NEW x \in A
  PROVE  Parse(Append(L, x)) = TakeLine(Parse(L), x)
<1> DEFINE M == Append(L, x)
           l == Len(L)
<1>1. /\ M \in Seq(A) /\ Len(M) = l + 1 /\ M[l + 1] = x /\ \A i \in 1..l : L[i] = M[i]
      /\ l \in Nat /\ l + 1 \in Nat /\ l <= l + 1
  OBVIOUS
<1> HIDE DEF M
<1>2. PICK f : Parses(f, L, l) /\ Parse(L) = f[l]
  BY ParseIs
<1> HIDE DEF l
<1>3. PICK k \in Nat : k = l + 1 /\ l <= k /\ Len(M) = k
  BY <1>1
<1>4. PICK g : Parses(g, M, k) /\ Parse(M) = g[k]
  BY <1>1, <1>3, ParseIs
<1>5. f[l] = g[l]
  <2>1. Agree(L, M, l) /\ l \in Nat
    BY <1>1 DEF Agree
  <2>2. QED
    BY <1>2, <1>3, <1>4, <2>1, ParsesUnique
<1>6. g[k] = TakeLine(g[l], x)
  <2>1. k \in 0..k /\ k # 0 /\ k - 1 = l /\ M[k] = x
    BY <1>1, <1>3
  <2>2. QED
    BY <1>4, <2>1 DEF Parses
<1>7. QED
  BY <1>2, <1>4, <1>5, <1>6 DEF M

(* The first line of a pair, up to its value.                               *)
Header(k) == k \o <<COLON, SPACE>>

(* Where its parts are.                                                     *)
LEMMA HeaderIs ==
  ASSUME NEW k \in Seq(KeyChars), k # <<>>
  PROVE  /\ Header(k) \in Seq(Inline) /\ Len(k) \in Nat \ {0} /\ Len(Header(k)) = Len(k) + 2
         /\ \A i \in 1..Len(k) : Header(k)[i] = k[i] /\ k[i] \in KeyChars
         /\ Header(k)[Len(k) + 1] = COLON /\ Header(k)[Len(k) + 2] = SPACE
<1> DEFINE c == <<COLON, SPACE>>
<1>1. k \in Seq(Inline) /\ Len(k) \in Nat \ {0}
  <2>1. KeyChars \subseteq Inline
    BY Characters
  <2>2. QED
    BY <2>1, SeqMonotonic, EmptySeq
<1>2. c \in Seq(Inline) /\ Len(c) = 2 /\ c[1] = COLON /\ c[2] = SPACE
  BY Characters
<1> HIDE DEF c
<1>3. /\ k \o c \in Seq(Inline) /\ Len(k \o c) = Len(k) + Len(c)
      /\ \A i \in 1..(Len(k) + Len(c)) : (k \o c)[i] = IF i <= Len(k) THEN k[i] ELSE c[i - Len(k)]
  BY <1>1, <1>2, ConcatProperties
<1>4. (Len(k) + 1) - Len(k) = 1 /\ (Len(k) + 2) - Len(k) = 2
  BY <1>1
<1>5. \A i \in 1..Len(k) : (k \o c)[i] = k[i] /\ k[i] \in KeyChars
  BY <1>1, <1>2, <1>3
<1>6. (k \o c)[Len(k) + 1] = COLON /\ (k \o c)[Len(k) + 2] = SPACE
  BY <1>1, <1>2, <1>3, <1>4
<1>7. QED
  BY <1>1, <1>2, <1>3, <1>5, <1>6 DEF Header, c

(* The leftmost match of the parser is the header, whatever the value is.   *)
LEMMA KeyFound ==
  ASSUME NEW k \in Seq(KeyChars), k # <<>>, NEW r \in Seq(Inline)
  PROVE  LET x == Header(k) \o r
             m == Leftmost(x)
         IN  /\ x \in Seq(Inline) /\ x # <<>> /\ KeyStarts(x) # {}
             /\ SubSeq(x, m[1], m[2]) = k /\ SubSeq(x, m[2] + 3, Len(x)) = r
<1> DEFINE h == Header(k)
           x == h \o r
           l == Len(k)
           n == Len(x)
           m == Leftmost(x)
<1>1. /\ h \in Seq(Inline) /\ l \in Nat \ {0} /\ Len(h) = l + 2
      /\ \A i \in 1..l : h[i] = k[i] /\ k[i] \in KeyChars
      /\ h[l + 1] = COLON /\ h[l + 2] = SPACE
  BY HeaderIs
<1> HIDE DEF h
<1>2. /\ x \in Seq(Inline) /\ n = (l + 2) + Len(r) /\ Len(r) \in Nat /\ n \in Nat
      /\ \A i \in 1..((l + 2) + Len(r)) : x[i] = IF i <= l + 2 THEN h[i] ELSE r[i - (l + 2)]
  <2>1. /\ x \in Seq(Inline) /\ Len(x) = Len(h) + Len(r)
        /\ \A i \in 1..(Len(h) + Len(r)) : x[i] = IF i <= Len(h) THEN h[i] ELSE r[i - Len(h)]
    BY <1>1, ConcatProperties
  <2>2. Len(r) \in Nat
    OBVIOUS
  <2> HIDE DEF x, l
  <2>3. QED
    BY <1>1, <2>1, <2>2
<1> HIDE DEF x, l, n
<1>3. /\ \A i \in 1..l : x[i] = k[i] /\ x[i] \in KeyChars
      /\ x[l + 1] = COLON /\ x[l + 2] = SPACE
      /\ \A i \in 1..Len(r) : x[(l + 2) + i] = r[i]
  <2>1. ASSUME NEW i \in 1..l PROVE x[i] = k[i] /\ x[i] \in KeyChars
    <3>1. i \in 1..((l + 2) + Len(r)) /\ i <= l + 2
      BY <1>1, <1>2
    <3>2. QED
      BY <1>1, <1>2, <3>1
  <2>2. x[l + 1] = COLON /\ x[l + 2] = SPACE
    <3>1. l + 1 \in 1..((l + 2) + Len(r)) /\ l + 2 \in 1..((l + 2) + Len(r)) /\ l + 1 <= l + 2
      BY <1>1, <1>2
    <3>2. QED
      BY <1>1, <1>2, <3>1
  <2>3. ASSUME NEW i \in 1..Len(r) PROVE x[(l + 2) + i] = r[i]
    <3>1. /\ (l + 2) + i \in 1..((l + 2) + Len(r)) /\ ~((l + 2) + i <= l + 2)
          /\ ((l + 2) + i) - (l + 2) = i
      BY <1>1, <1>2
    <3>2. QED
      BY <1>2, <3>1
  <2>4. QED
    BY <2>1, <2>2, <2>3
<1>4. <<1, l>> \in KeyStarts(x)
  <2>1. 1 \in 1..n /\ l \in 1..n /\ 1 <= l /\ l + 2 <= n
    BY <1>1, <1>2
  <2>2. QED
    BY <1>3, <2>1 DEF KeyStarts, n
<1>5. m \in KeyStarts(x) /\ \A o \in KeyStarts(x) : m[1] <= o[1]
  <2>1. \A o \in KeyStarts(x) : o[1] \in 1..n
    BY DEF KeyStarts, n
  <2>2. <<1, l>>[1] = 1
    OBVIOUS
  <2>3. \A o \in KeyStarts(x) : <<1, l>>[1] <= o[1]
    BY <1>2, <2>1, <2>2
  <2>4. QED
    BY <1>4, <2>3 DEF Leftmost
<1>6. /\ m[1] \in 1..n /\ m[2] \in 1..n /\ m[1] <= m[2] /\ m[2] + 2 <= n
      /\ \A i \in m[1]..m[2] : x[i] \in KeyChars
      /\ x[m[2] + 1] = COLON
  BY <1>5 DEF KeyStarts, n
<1>7. m[1] = 1
  <2>1. m[1] <= <<1, l>>[1]
    BY <1>4, <1>5
  <2>2. QED
    BY <1>6, <2>1
<1> HIDE DEF m
<1>8. m[2] = l
  <2>1. ASSUME m[2] < l PROVE FALSE
    <3>1. m[2] + 1 \in 1..l
      BY <1>1, <1>6, <2>1
    <3>2. x[m[2] + 1] \in KeyChars
      BY <1>3, <3>1
    <3>3. QED
      BY <1>6, <3>2, Characters
  <2>2. ASSUME m[2] > l PROVE FALSE
    <3>1. l + 1 \in m[1]..m[2]
      BY <1>1, <1>6, <1>7, <2>2
    <3>2. x[l + 1] \in KeyChars
      BY <1>6, <3>1
    <3>3. QED
      BY <1>3, <3>2, Characters
  <2>3. QED
    BY <1>1, <1>6, <2>1, <2>2
<1>9. SubSeq(x, 1, l) = k
  <2>1. k \in Seq(KeyChars) /\ Len(k) = l /\ \A i \in 1..l : x[i] \in KeyChars
    BY <1>3 DEF l
  <2>2. /\ SubSeq(x, 1, l) \in Seq(KeyChars) /\ Len(SubSeq(x, 1, l)) = l
        /\ \A i \in 1..l : SubSeq(x, 1, l)[i] = x[i]
    BY <1>1, <2>1
  <2>3. QED
    BY <1>3, <2>1, <2>2, SeqEqual
<1>10. SubSeq(x, l + 3, n) = r
  <2> DEFINE y == SubSeq(x, l + 3, n)
  <2>1. l + 3 \in Int /\ n \in Int /\ \A i \in (l + 3)..n : x[i] \in Inline
    BY <1>1, <1>2, ElementOfSeq DEF n
  <2>2. /\ y \in Seq(Inline) /\ Len(y) = IF l + 3 <= n THEN n - (l + 3) + 1 ELSE 0
        /\ \A i \in 1..(n - (l + 3) + 1) : y[i] = x[(l + 3) + i - 1]
    BY <2>1, SubSeqProperties
  <2> HIDE DEF y
  <2>3. n - (l + 3) + 1 = Len(r) /\ (~(l + 3 <= n) => Len(r) = 0)
    BY <1>1, <1>2
  <2>4. \A i \in 1..Len(r) : (l + 3) + i - 1 = (l + 2) + i
    BY <1>1, <1>2
  <2>5. Len(y) = Len(r) /\ \A i \in 1..Len(r) : y[i] = r[i]
    BY <1>3, <2>2, <2>3, <2>4
  <2>6. QED
    BY <2>2, <2>5, SeqEqual DEF y
<1>11. x # <<>>
  BY <1>1, <1>2, EmptySeq DEF n
<1>12. QED
  BY <1>2, <1>4, <1>7, <1>8, <1>9, <1>10, <1>11 DEF x, n, m, h

(* The last character of a line, and of two lines together.                 *)
LEMMA LastIs ==
  ASSUME NEW S, NEW x \in Seq(S), NEW e \in S
  PROVE  /\ Append(x, e) # <<>> /\ Last(Append(x, e)) = e /\ Front(Append(x, e)) = x
         /\ \A w \in Seq(S) : x # <<>> => Last(w \o x) = Last(x) /\ Last(x) \in S /\ w \o x # <<>>
<1>1. Append(x, e) # <<>> /\ Last(Append(x, e)) = e
  BY DEF Last
<1>2. Front(Append(x, e)) = x
  <2> DEFINE y == Append(x, e)
  <2>1. y \in Seq(S) /\ Len(y) = Len(x) + 1 /\ Len(x) \in Nat /\ \A i \in 1..Len(x) : y[i] = x[i] /\ y[i] \in S
    OBVIOUS
  <2> HIDE DEF y
  <2>2. Len(y) - 1 = Len(x)
    BY <2>1
  <2>3. /\ SubSeq(y, 1, Len(x)) \in Seq(S) /\ Len(SubSeq(y, 1, Len(x))) = Len(x)
        /\ \A i \in 1..Len(x) : SubSeq(y, 1, Len(x))[i] = x[i]
    BY <2>1
  <2>4. SubSeq(y, 1, Len(x)) = x
    BY <2>3, SeqEqual
  <2>5. QED
    BY <2>2, <2>4 DEF Front, y
<1>3. ASSUME NEW w \in Seq(S), x # <<>>
      PROVE  Last(w \o x) = Last(x) /\ Last(x) \in S /\ w \o x # <<>>
  <2>1. Len(x) \in Nat \ {0} /\ Len(w) \in Nat
    BY <1>3, EmptySeq, LenProperties
  <2>2. /\ w \o x \in Seq(S) /\ Len(w \o x) = Len(w) + Len(x)
        /\ \A i \in 1..(Len(w) + Len(x)) : (w \o x)[i] = IF i <= Len(w) THEN w[i] ELSE x[i - Len(w)]
    BY ConcatProperties
  <2>3. /\ Len(w) + Len(x) \in 1..(Len(w) + Len(x)) /\ ~(Len(w) + Len(x) <= Len(w))
        /\ (Len(w) + Len(x)) - Len(w) = Len(x) /\ Len(x) \in 1..Len(x)
    BY <2>1
  <2>4. (w \o x)[Len(w) + Len(x)] = x[Len(x)]
    BY <2>2, <2>3
  <2>5. x[Len(x)] \in S
    BY <2>3, ElementOfSeq
  <2>6. w \o x # <<>>
    BY <2>1, <2>2, EmptySeq
  <2>7. QED
    BY <2>2, <2>4, <2>5, <2>6 DEF Last
<1>4. QED
  BY <1>1, <1>2, <1>3

(* A parser state, updated: within a pair, and after it.                    *)
GoOn(st, k, v, b) == [st EXCEPT !.key = k, !.val = v, !.multiline = b]
Finished(st, k, v, b, ps) == [st EXCEPT !.key = k, !.val = v, !.multiline = b, !.pairs = ps]

(* The state within a pair.                                                 *)
LEMMA GoesOn ==
  ASSUME NEW a, NEW b, NEW c, NEW d, NEW e, NEW p, NEW q, NEW r
  PROVE  GoOn(St(a, b, c, d, e), p, q, r) = St(p, q, r, d, e)
<1> DEFINE x == GoOn(St(a, b, c, d, e), p, q, r)
<1>1. x \in [key : {p}, val : {q}, multiline : {r}, pairs : {d}, failed : {e}]
  BY DEF St, GoOn
<1> HIDE DEF x
<1>2. x = [key |-> p, val |-> q, multiline |-> r, pairs |-> d, failed |-> e]
  BY <1>1
<1>3. QED
  BY <1>2 DEF x, St

(* The pair is complete.                                                    *)
LEMMA Updated ==
  ASSUME NEW a, NEW b, NEW c, NEW d, NEW e, NEW p, NEW q, NEW r, NEW s
  PROVE  Finished(St(a, b, c, d, e), p, q, r, s) = St(p, q, r, s, e)
<1> DEFINE x == Finished(St(a, b, c, d, e), p, q, r, s)
<1>1. x \in [key : {p}, val : {q}, multiline : {r}, pairs : {s}, failed : {e}]
  BY DEF St, Finished
<1> HIDE DEF x
<1>2. x = [key |-> p, val |-> q, multiline |-> r, pairs |-> s, failed |-> e]
  BY <1>1
<1>3. QED
  BY <1>2 DEF x, St

(* The first line of a pair, with a value of one line.                      *)
LEMMA TakeOnly ==
  ASSUME NEW k \in Seq(KeyChars), k # <<>>, NEW r \in Seq(Clean), NEW ps
  PROVE  TakeLine(Idle(ps), Header(k) \o r) = Idle(Append(ps, <<k, r>>))
<1> DEFINE x == Header(k) \o r
           m == Leftmost(x)
           st == Idle(ps)
<1>1. /\ x # <<>> /\ KeyStarts(x) # {} /\ SubSeq(x, m[1], m[2]) = k
      /\ SubSeq(x, m[2] + 3, Len(x)) = r
  <2>1. r \in Seq(Inline)
    BY Characters, SeqMonotonic
  <2>2. QED
    BY <2>1, KeyFound
<1>2. ~(r # <<>> /\ Last(r) = BACKSLASH)
  <2>1. r # <<>> => Last(r) \in Clean
    BY EmptySeq, ElementOfSeq DEF Last
  <2>2. QED
    BY <2>1, Characters
<1>3. st.key = <<>> /\ st.failed = FALSE /\ st.multiline = FALSE /\ st.pairs = ps
  BY DEF Idle, St
<1>4. Ended([st EXCEPT !.val = r]) = r
  BY DEF Ended, Idle, St
<1> HIDE DEF x, m, st
<1>5. TakeLine(st, x) = [st EXCEPT !.key = <<>>, !.val = <<>>, !.multiline = FALSE,
                                   !.pairs = Append(ps, <<k, Ended([st EXCEPT !.val = r])>>)]
  BY <1>1, <1>2, <1>3 DEF TakeLine, m
<1>6. [st EXCEPT !.key = <<>>, !.val = <<>>, !.multiline = FALSE, !.pairs = Append(ps, <<k, r>>)]
        = Idle(Append(ps, <<k, r>>))
  <2> DEFINE no == FALSE
             qs == Append(ps, <<k, r>>)
  <2> HIDE DEF no, qs
  <2>1. Finished(St(<<>>, <<>>, no, ps, no), <<>>, <<>>, no, qs) = St(<<>>, <<>>, no, qs, no)
    BY Updated
  <2>2. QED
    BY <2>1 DEF Idle, Finished, st, no, qs
<1>7. QED
  BY <1>4, <1>5, <1>6 DEF x, st

(* The first line of a pair, with a value that goes on.                     *)
LEMMA TakeFirst ==
  ASSUME NEW k \in Seq(KeyChars), k # <<>>, NEW a \in Seq(Clean), NEW ps
  PROVE  TakeLine(Idle(ps), Header(k) \o Append(a, BACKSLASH)) = Within(k, Append(a, LF), ps)
<1> DEFINE r == Append(a, BACKSLASH)
           x == Header(k) \o r
           m == Leftmost(x)
           st == Idle(ps)
<1>1. a \in Seq(Inline) /\ BACKSLASH \in Inline
  BY Characters, SeqMonotonic
<1>2. r \in Seq(Inline) /\ r # <<>> /\ Last(r) = BACKSLASH /\ Front(r) = a
  BY <1>1, LastIs
<1> HIDE DEF r
<1>3. /\ x # <<>> /\ KeyStarts(x) # {} /\ SubSeq(x, m[1], m[2]) = k
      /\ SubSeq(x, m[2] + 3, Len(x)) = r
  BY <1>2, KeyFound
<1>4. st.key = <<>> /\ st.failed = FALSE
  BY DEF Idle, St
<1> HIDE DEF x, m, st
<1>5. TakeLine(st, x) = [st EXCEPT !.key = k, !.val = Append(Front(r), LF), !.multiline = TRUE]
  BY <1>2, <1>3, <1>4 DEF TakeLine, m
<1>6. [st EXCEPT !.key = k, !.val = Append(a, LF), !.multiline = TRUE] = Within(k, Append(a, LF), ps)
  <2> DEFINE no == FALSE
             yes == TRUE
             w == Append(a, LF)
  <2> HIDE DEF no, yes, w
  <2>1. GoOn(St(<<>>, <<>>, no, ps, no), k, w, yes) = St(k, w, yes, ps, no)
    BY GoesOn
  <2>2. QED
    BY <2>1 DEF Idle, Within, GoOn, st, no, yes, w
<1>7. QED
  BY <1>2, <1>5, <1>6 DEF x, st, r

(* The second line.                                                         *)
LEMMA TakeSecond ==
  ASSUME NEW k, k # <<>>, NEW w \in Seq(Plain), NEW b \in Seq(Clean), b # <<>>, NEW ps
  PROVE  TakeLine(Within(k, w, ps), b) = Idle(Append(ps, <<k, Append(w \o b, LF)>>))
<1> DEFINE st == Within(k, w, ps)
           v == w \o b
<1>1. v # <<>> /\ Last(v) # BACKSLASH
  <2>1. b \in Seq(Plain) /\ LF \in Plain
    BY Characters, SeqMonotonic
  <2>2. Last(v) = Last(b) /\ v # <<>>
    BY <2>1, LastIs
  <2>3. Last(b) \in Clean
    BY EmptySeq, ElementOfSeq DEF Last
  <2>4. QED
    BY <2>2, <2>3, Characters
<1> HIDE DEF v
<1>2. st.key = k /\ st.val = w /\ st.failed = FALSE /\ st.multiline = TRUE /\ st.pairs = ps
  BY DEF Within, St
<1>3. Ended([st EXCEPT !.val = v]) = Append(v, LF)
  BY DEF Ended, Within, St
<1> HIDE DEF st
<1>4. TakeLine(st, b) = [st EXCEPT !.key = <<>>, !.val = <<>>, !.multiline = FALSE,
                                   !.pairs = Append(ps, <<k, Ended([st EXCEPT !.val = v])>>)]
  BY <1>1, <1>2 DEF TakeLine, v
<1>5. [st EXCEPT !.key = <<>>, !.val = <<>>, !.multiline = FALSE, !.pairs = Append(ps, <<k, Append(v, LF)>>)]
        = Idle(Append(ps, <<k, Append(v, LF)>>))
  <2> DEFINE no == FALSE
             yes == TRUE
             qs == Append(ps, <<k, Append(v, LF)>>)
  <2> HIDE DEF no, yes, qs
  <2>1. Finished(St(k, w, yes, ps, no), <<>>, <<>>, no, qs) = St(<<>>, <<>>, no, qs, no)
    BY Updated
  <2>2. QED
    BY <2>1 DEF Idle, Within, Finished, st, no, yes, qs
<1>6. QED
  BY <1>3, <1>4, <1>5 DEF v, st

(* An empty line.                                                           *)
LEMMA TakeEmpty ==
  ASSUME NEW st
  PROVE  TakeLine(st, <<>>) = st
BY DEF TakeLine

-----------------------------------------------------------------------------
(* Values as text. *)

(* A sequence cut at one of its elements.                                   *)
LEMMA CutAt ==
  ASSUME NEW S, NEW v \in Seq(S), NEW i \in 1..Len(v)
  PROVE  LET a == SubSeq(v, 1, i - 1)
             b == SubSeq(v, i + 1, Len(v))
         IN  /\ a \in Seq(S) /\ Len(a) = i - 1 /\ \A j \in 1..(i - 1) : a[j] = v[j]
             /\ b \in Seq(S) /\ Len(b) = Len(v) - i /\ \A j \in 1..(Len(v) - i) : b[j] = v[i + j]
             /\ v = Append(a, v[i]) \o b
<1> DEFINE n == Len(v)
           a == SubSeq(v, 1, i - 1)
           b == SubSeq(v, i + 1, n)
<1>1. n \in Nat /\ i \in 1..n /\ \A j \in 1..n : v[j] \in S
  BY LenProperties, ElementOfSeq
<1>2. a \in Seq(S) /\ Len(a) = i - 1 /\ \A j \in 1..(i - 1) : a[j] = v[j]
  <2>1. i - 1 \in Int /\ 1 \in Int /\ \A j \in 1..(i - 1) : v[j] \in S
    BY <1>1
  <2>2. /\ a \in Seq(S) /\ Len(a) = IF 1 <= i - 1 THEN (i - 1) - 1 + 1 ELSE 0
        /\ \A j \in 1..((i - 1) - 1 + 1) : a[j] = v[1 + j - 1]
    BY <2>1, SubSeqProperties
  <2> HIDE DEF a
  <2>3. (i - 1) - 1 + 1 = i - 1 /\ (~(1 <= i - 1) => i - 1 = 0) /\ \A j \in 1..(i - 1) : 1 + j - 1 = j
    BY <1>1
  <2>4. QED
    BY <2>2, <2>3
<1>3. b \in Seq(S) /\ Len(b) = n - i /\ \A j \in 1..(n - i) : b[j] = v[i + j]
  <2>1. i + 1 \in Int /\ n \in Int /\ \A j \in (i + 1)..n : v[j] \in S
    BY <1>1
  <2>2. /\ b \in Seq(S) /\ Len(b) = IF i + 1 <= n THEN n - (i + 1) + 1 ELSE 0
        /\ \A j \in 1..(n - (i + 1) + 1) : b[j] = v[(i + 1) + j - 1]
    BY <2>1, SubSeqProperties
  <2> HIDE DEF b
  <2>3. n - (i + 1) + 1 = n - i /\ (~(i + 1 <= n) => n - i = 0) /\ \A j \in 1..(n - i) : (i + 1) + j - 1 = i + j
    BY <1>1
  <2>4. QED
    BY <2>2, <2>3
<1> HIDE DEF a, b, n
<1> DEFINE c == Append(a, v[i])
           w == c \o b
<1>4. c \in Seq(S) /\ Len(c) = i /\ c[i] = v[i] /\ \A j \in 1..(i - 1) : c[j] = v[j]
  <2>1. v[i] \in S /\ Len(a) + 1 = i
    BY <1>1, <1>2
  <2>2. /\ c \in Seq(S) /\ Len(c) = Len(a) + 1 /\ c[Len(a) + 1] = v[i]
        /\ \A j \in 1..Len(a) : c[j] = a[j]
    BY <1>2, <2>1, AppendProperties
  <2> HIDE DEF c
  <2>3. QED
    BY <1>2, <2>1, <2>2
<1> HIDE DEF c
<1>5. /\ w \in Seq(S) /\ Len(w) = n
      /\ \A j \in 1..n : w[j] = IF j <= i THEN c[j] ELSE b[j - i]
  <2>1. /\ w \in Seq(S) /\ Len(w) = Len(c) + Len(b)
        /\ \A j \in 1..(Len(c) + Len(b)) : w[j] = IF j <= Len(c) THEN c[j] ELSE b[j - Len(c)]
    BY <1>3, <1>4, ConcatProperties
  <2> HIDE DEF w
  <2>2. Len(c) + Len(b) = n
    BY <1>1, <1>3, <1>4
  <2>3. QED
    BY <1>4, <2>1, <2>2
<1> HIDE DEF w
<1>6. \A j \in 1..n : w[j] = v[j]
  <2>1. SUFFICES ASSUME NEW j \in 1..n PROVE w[j] = v[j]
    OBVIOUS
  <2>2. CASE j = i
    BY <1>1, <1>4, <1>5, <2>2
  <2>3. CASE j < i
    <3>1. j \in 1..(i - 1) /\ j <= i
      BY <1>1, <2>3
    <3>2. QED
      BY <1>4, <1>5, <3>1
  <2>4. CASE j > i
    <3>1. j - i \in 1..(n - i) /\ ~(j <= i) /\ i + (j - i) = j
      BY <1>1, <2>4
    <3>2. QED
      BY <1>3, <1>5, <3>1
  <2>5. QED
    BY <1>1, <2>2, <2>3, <2>4
<1>7. w = v
  BY <1>5, <1>6, SeqEqual DEF n
<1>8. QED
  BY <1>2, <1>3, <1>7 DEF a, b, c, w, n

(* The values that the text represents.                                     *)
Writable == {v \in Values : Representable(v)}

(* What a value of two lines is made of, and what its text is.              *)
TwoLines(v, a, b) ==
  /\ a \in Seq(Clean) /\ b \in Seq(Clean) /\ b # <<>>
  /\ Reread(v) = Append(Append(a, LF) \o b, LF)
  /\ \/ EscapeLF(v) = Append(Append(a, BACKSLASH), LF) \o b
     \/ EscapeLF(v) = Append(Append(a, BACKSLASH), LF) \o Append(b, LF)

(* A value has one line, which is its text, or two.                         *)
LEMMA ValueForms ==
  ASSUME NEW v \in Writable
  PROVE  \/ v \in Seq(Clean) /\ EscapeLF(v) = v /\ Reread(v) = v
         \/ \E a, b : TwoLines(v, a, b)
<1> DEFINE n == Len(v)
           lf == {j \in 1..n : v[j] = LF}
<1>1. v \in Seq(1..255) /\ Representable(v)
  BY TextAssumption DEF Writable
<1>2. n \in Nat /\ DOMAIN v = 1..n /\ \A j \in 1..n : v[j] \in 1..255
  BY <1>1, LenProperties, ElementOfSeq
<1>3. CR \notin ToSet(v) /\ BACKSLASH \notin ToSet(v)
  BY <1>1 DEF Representable
<1>4. lf = {} \/ \E i \in lf : i < n /\ i + 1 \notin lf /\ lf \subseteq {i, n}
  BY <1>1 DEF Representable
<1>5. LF \in ToSet(v) <=> lf # {}
  BY <1>2 DEF ToSet
<1>6. \A j \in 1..n : v[j] # CR /\ v[j] # BACKSLASH
  BY <1>2, <1>3 DEF ToSet
<1>7. \A j \in 1..n : j \notin lf => v[j] \in Clean
  BY <1>2, <1>6 DEF Clean, Inline, Plain
<1>8. CASE lf = {}
  <2>1. \A j \in 1..n : v[j] \in Clean
    BY <1>7, <1>8
  <2>2. v \in Seq(Clean)
    <3>1. v \in [1..n -> 1..255]
      BY <1>1, LenProperties
    <3>2. v \in [1..n -> Clean]
      BY <2>1, <3>1
    <3>3. QED
      BY <1>2, <3>2
  <2>3. LF \notin ToSet(v)
    BY <1>5, <1>8
  <2>4. QED
    BY <2>2, <2>3 DEF EscapeLF, Reread
<1>9. CASE \E i \in lf : i < n /\ i + 1 \notin lf /\ lf \subseteq {i, n}
  <2>1. PICK i \in lf : i < n /\ i + 1 \notin lf /\ lf \subseteq {i, n}
    BY <1>9
  <2>2. i \in 1..n /\ v[i] = LF /\ LF \in ToSet(v)
    BY <1>5, <2>1
  <2>3. SelectInSeq(v, LAMBDA c : c = LF) = i
    <3>1. Min(lf) = i
      <4>1. i \in lf /\ \A j \in lf : i <= j
        BY <1>2, <2>1, <2>2
      <4>2. \A x \in lf : x \in Nat
        BY <1>2
      <4> HIDE DEF lf
      <4>3. \A x \in lf : (\A j \in lf : x <= j) => x = i
        BY <4>1, <4>2
      <4>4. QED
        BY <4>1, <4>3 DEF Min
    <3>2. SelectInSeq(v, LAMBDA c : c = LF) = IF lf # {} THEN Min(lf) ELSE 0
      BY DEF SelectInSeq
    <3> HIDE DEF lf
    <3>3. QED
      BY <2>1, <3>1, <3>2
  <2> DEFINE a == SubSeq(v, 1, i - 1)
             d == SubSeq(v, i + 1, n)
  <2>4. EscapeLF(v) = a \o <<BACKSLASH, LF>> \o d
    BY <2>2, <2>3 DEF EscapeLF
  <2>5. /\ a \in Seq(1..255) /\ Len(a) = i - 1 /\ \A j \in 1..(i - 1) : a[j] = v[j]
        /\ d \in Seq(1..255) /\ Len(d) = n - i /\ \A j \in 1..(n - i) : d[j] = v[i + j]
        /\ v = Append(a, LF) \o d
    <3>1. /\ a \in Seq(1..255) /\ Len(a) = i - 1 /\ \A j \in 1..(i - 1) : a[j] = v[j]
          /\ d \in Seq(1..255) /\ Len(d) = Len(v) - i /\ \A j \in 1..(Len(v) - i) : d[j] = v[i + j]
          /\ v = Append(a, v[i]) \o d
      <4>1. i \in 1..Len(v)
        BY <2>2
      <4> HIDE DEF lf
      <4>2. QED
        BY <1>1, <4>1, CutAt, ZenonT(60)
    <3> HIDE DEF a, d
    <3>2. QED
      BY <2>2, <3>1
  <2>i. n \in Nat /\ i \in Nat /\ 1 <= i /\ i < n /\ lf \subseteq {i, n}
    BY <1>2, <2>1, <2>2
  <2>e. i \in lf /\ i + 1 \notin lf /\ \A j \in lf : v[j] = LF
    BY <2>1
  <2>n. \A j \in 1..n : v[j] = LF => j \in lf
    OBVIOUS
  <2> HIDE DEF a, d, n, lf
  <2>6. a \in Seq(Clean)
    <3>1. \A j \in 1..(i - 1) : j \in 1..n /\ j # i /\ j # n
      BY <2>i
    <3>2. ASSUME NEW j \in 1..(i - 1) PROVE a[j] \in Clean
      <4>1. j \in 1..n /\ j # i /\ j # n
        BY <3>1
      <4>2. a[j] = v[j]
        BY <2>5
      <4>3. QED
        BY <1>7, <2>i, <4>1, <4>2
    <3>3. a \in [1..(i - 1) -> 1..255] /\ i - 1 \in Nat
      <4>1. a \in Seq(1..255) /\ Len(a) = i - 1
        BY <2>5
      <4>2. a \in [1..Len(a) -> 1..255] /\ Len(a) \in Nat
        BY <4>1, LenProperties
      <4>3. QED
        BY <4>1, <4>2
    <3>4. a \in [1..(i - 1) -> Clean]
      BY <3>2, <3>3
    <3>5. QED
      BY <3>3, <3>4
  <2>7. a \o <<BACKSLASH, LF>> = Append(Append(a, BACKSLASH), LF)
    <3>1. BACKSLASH \in Plain /\ LF \in Plain /\ a \in Seq(Plain)
      BY <2>6, Characters, SeqMonotonic
    <3>2. QED
      BY <3>1
  <2>8. CASE n \notin lf
    <3>1. d \in Seq(Clean) /\ d # <<>>
      <4>1. \A j \in 1..(n - i) : i + j \in 1..n /\ i + j # i
        BY <2>i
      <4>2. \A j \in 1..(n - i) : d[j] \in Clean
        BY <1>7, <2>i, <2>5, <2>8, <4>1
      <4>3. d \in [1..(n - i) -> 1..255] /\ n - i \in Nat \ {0}
        <5>1. n - i \in Nat \ {0}
          BY <2>i
        <5>2. QED
          <6>1. d \in Seq(1..255) /\ Len(d) = n - i
            BY <2>5
          <6>2. d \in [1..Len(d) -> 1..255]
            BY ONLY <6>1, LenProperties
          <6>3. QED
            BY ONLY <5>1, <6>1, <6>2
      <4>4. d \in [1..(n - i) -> Clean]
        BY <4>2, <4>3
      <4>5. d \in Seq(Clean)
        BY <4>3, <4>4
      <4>6. QED
        BY <2>5, <4>3, <4>5
    <3>2. Last(v) # LF
      <4>1. n \in 1..n
        BY <2>i
      <4>2. QED
        BY <2>8, <2>n, <4>1 DEF Last, n
    <3>3. Reread(v) = Append(v, LF)
      BY <2>2, <3>2 DEF Reread
    <3>4. TwoLines(v, a, d)
      BY <2>4, <2>5, <2>6, <2>7, <3>1, <3>3 DEF TwoLines
    <3>5. QED
      BY <3>4
  <2>9. CASE n \in lf
    <3> DEFINE m == n - i
               b == SubSeq(d, 1, m - 1)
    <3>1. m \in Nat /\ m > 1 /\ m \in 1..m /\ d[m] = LF
      <4>1. n # i + 1 /\ v[n] = LF
        BY <2>e, <2>9
      <4>2. m \in Nat /\ m > 1 /\ m \in 1..m /\ i + m = n
        BY <2>i, <4>1
      <4>3. QED
        BY <2>5, <4>1, <4>2
    <3>2. Len(d) = m
      BY <2>5
    <3>3. /\ b \in Seq(1..255) /\ Len(b) = m - 1 /\ \A j \in 1..(m - 1) : b[j] = d[j]
          /\ d = Append(b, LF) \o SubSeq(d, m + 1, m)
      <4> HIDE DEF m
      <4>1. /\ b \in Seq(1..255) /\ Len(b) = m - 1 /\ \A j \in 1..(m - 1) : b[j] = d[j]
            /\ d = Append(b, d[m]) \o SubSeq(d, m + 1, Len(d))
        <5>1. m \in 1..Len(d)
          BY <3>1, <3>2
        <5>2. d \in Seq(1..255)
          BY <2>5
        <5> DEFINE S == 1..255
        <5>3. d \in Seq(S)
          BY <5>2
        <5> HIDE DEF S
        <5>4. LET z == SubSeq(d, 1, m - 1)
                  w == SubSeq(d, m + 1, Len(d))
              IN  /\ z \in Seq(S) /\ Len(z) = m - 1 /\ \A j \in 1..(m - 1) : z[j] = d[j]
                  /\ w \in Seq(S) /\ Len(w) = Len(d) - m /\ \A j \in 1..(Len(d) - m) : w[j] = d[m + j]
                  /\ d = Append(z, d[m]) \o w
          BY ONLY <5>1, <5>3, CutAt
        <5>5. QED
          BY <5>4 DEF S
      <4>2. QED
        BY <3>1, <3>2, <4>1
    <3>4. d = Append(b, LF)
      <4>1. SubSeq(d, m + 1, m) = <<>>
        BY <3>1, SubSeqEmpty
      <4>2. Append(b, LF) \in Seq(1..255)
        BY <3>3 DEF LF
      <4>3. QED
        BY <3>3, <4>1, <4>2, ConcatEmptySeq
    <3> HIDE DEF b
    <3>5. b \in Seq(Clean) /\ b # <<>>
      <4>1. \A j \in 1..(m - 1) : j \in 1..m /\ i + j \in 1..n /\ i + j # i /\ i + j # n
        BY <2>i
      <4>2. \A j \in 1..(m - 1) : b[j] = v[i + j]
        BY <2>5, <3>3, <4>1
      <4>3. \A j \in 1..(m - 1) : b[j] \in Clean
        BY <1>7, <2>i, <4>1, <4>2
      <4>4. b \in [1..(m - 1) -> 1..255] /\ m - 1 \in Nat \ {0}
        <5>1. m - 1 \in Nat \ {0}
          BY <3>1
        <5>2. QED
          <6>1. b \in Seq(1..255) /\ Len(b) = m - 1
            BY <3>3
          <6>2. b \in [1..Len(b) -> 1..255]
            BY ONLY <6>1, LenProperties
          <6>3. QED
            BY ONLY <5>1, <6>1, <6>2
      <4>5. b \in [1..(m - 1) -> Clean]
        BY <4>3, <4>4
      <4>6. b \in Seq(Clean)
        BY <4>4, <4>5
      <4>7. QED
        BY <3>3, <4>4, <4>6
    <3>6. Reread(v) = v
      BY <2>e, <2>9 DEF Reread, Last, n
    <3>7. Append(a, LF) \o Append(b, LF) = Append(Append(a, LF) \o b, LF)
      <4>1. Append(a, LF) \in Seq(Plain) /\ b \in Seq(Plain) /\ LF \in Plain
        <5>1. a \in Seq(Plain) /\ b \in Seq(Plain) /\ LF \in Plain
          BY <2>6, <3>5, Characters, SeqMonotonic
        <5>2. QED
          BY <5>1
      <4>2. QED
        BY <4>1, ConcatAppend
    <3>8. TwoLines(v, a, b)
      BY <2>4, <2>5, <2>6, <2>7, <3>4, <3>5, <3>6, <3>7 DEF TwoLines
    <3>9. QED
      BY <3>8
  <2>10. QED
    BY <2>8, <2>9
<1>10. QED
  BY <1>4, <1>8, <1>9

-----------------------------------------------------------------------------
(* Tables as text. *)

(* The lines that a pair is written in.                                     *)
Lines(q) == Header(q[1]) \o EscapeLF(q[2]) \o <<LF>>

(* The end of a line, moved.                                                *)
LEMMA Regroup ==
  ASSUME NEW h \in Seq(Plain), NEW y \in Seq(Plain), NEW b \in Seq(Plain)
  PROVE  (h \o (Append(y, LF) \o b)) \o <<LF>> = Append(h \o y, LF) \o Append(b, LF)
<1>0. LF \in Plain
  BY Characters
<1> DEFINE u == Append(y, LF)
<1>1. u \in Seq(Plain) /\ h \o u = Append(h \o y, LF) /\ h \o u \in Seq(Plain)
  BY <1>0, ConcatAppend
<1> HIDE DEF u
<1>2. h \o (u \o b) = (h \o u) \o b
  <2>1. u \in Seq(Plain)
    BY <1>1
  <2>2. (h \o u) \o b = h \o (u \o b)
    BY <2>1, ConcatAssociative, SMTT(30)
  <2>3. QED
    BY <2>2
<1> DEFINE w == h \o u
<1>3. w \in Seq(Plain) /\ w \o b \in Seq(Plain)
  BY <1>1
<1> HIDE DEF w
<1>4. (w \o b) \o <<LF>> = Append(w \o b, LF) /\ w \o Append(b, LF) = Append(w \o b, LF)
  BY <1>0, <1>3, AppendIsConcat, ConcatAppend
<1>5. QED
  BY <1>1, <1>2, <1>4 DEF u, w

(* A pair is written and read.                                              *)
LEMMA PairText ==
  ASSUME NEW s, NEW L, NEW ps, Reads(s, L), Parse(L) = Idle(ps), NEW k \in Keys, NEW v \in Writable
  PROVE  \E M : /\ Reads(s \o Lines(<<k, v>>), M)
                /\ Parse(M) = Idle(Append(ps, <<k, Reread(v)>>))
<1> DEFINE h == Header(k)
           E == EscapeLF(v)
<1>1. k \in Seq(KeyChars) /\ k # <<>>
  BY TextAssumption
<1>2. h \in Seq(Inline) /\ h \in Seq(Plain)
  BY <1>1, HeaderIs, Characters, SeqMonotonic
<1>3. s \in Seq(Plain) /\ L \in Seq(Seq(Inline)) /\ LF \in Plain
  BY Characters DEF Reads
<1>4. Lines(<<k, v>>) = (h \o E) \o <<LF>>
  BY DEF Lines
<1>5. ASSUME v \in Seq(Clean), E = v, Reread(v) = v
      PROVE  \E M : /\ Reads(s \o Lines(<<k, v>>), M)
                    /\ Parse(M) = Idle(Append(ps, <<k, Reread(v)>>))
  <2> DEFINE x == h \o v
  <2>1. v \in Seq(Inline)
    BY <1>5, Characters, SeqMonotonic
  <2>2. x \in Seq(Inline)
    BY <1>2, <2>1
  <2>3. TakeLine(Idle(ps), x) = Idle(Append(ps, <<k, v>>))
    BY <1>1, <1>5, TakeOnly
  <2> HIDE DEF h, E
  <2>4. Lines(<<k, v>>) = Append(x, LF)
    <3>1. x \in Seq(Plain)
      BY <2>2, Characters, SeqMonotonic
    <3>2. Append(x, LF) = x \o <<LF>>
      <4> HIDE DEF x
      <4>1. QED
        BY <1>3, <3>1, AppendIsConcat
    <3>3. QED
      BY <1>4, <1>5, <3>2
  <2> HIDE DEF x
  <2>5. Reads(s \o Append(x, LF), Append(L, x))
    BY <2>2, LineAdded
  <2>6. Parse(Append(L, x)) = TakeLine(Parse(L), x)
    BY <1>3, <2>2, ParseAppend
  <2>7. QED
    BY <1>5, <2>3, <2>4, <2>5, <2>6
<1>6. ASSUME NEW a, NEW b, TwoLines(v, a, b)
      PROVE  \E M : /\ Reads(s \o Lines(<<k, v>>), M)
                    /\ Parse(M) = Idle(Append(ps, <<k, Reread(v)>>))
  <2> DEFINE y == Append(a, BACKSLASH)
             z == h \o y
             w == Append(a, LF)
             P == Append(z, LF)
             Q == Append(b, LF)
             qs == Append(ps, <<k, Reread(v)>>)
             M == Append(Append(L, z), b)
  <2>1. /\ a \in Seq(Clean) /\ b \in Seq(Clean) /\ b # <<>> /\ Reread(v) = Append(w \o b, LF)
        /\ E = Append(y, LF) \o b \/ E = Append(y, LF) \o Q
    BY <1>6 DEF TwoLines
  <2>2. a \in Seq(Inline) /\ b \in Seq(Inline) /\ a \in Seq(Plain) /\ b \in Seq(Plain)
    BY <2>1, Characters, SeqMonotonic
  <2>3. y \in Seq(Inline) /\ w \in Seq(Plain) /\ Q \in Seq(Plain)
    BY <2>2, Characters
  <2>4. z \in Seq(Inline) /\ z \in Seq(Plain) /\ y \in Seq(Plain)
    <3> HIDE DEF y, h
    <3>1. z \in Seq(Inline)
      BY <1>2, <2>3
    <3> HIDE DEF z
    <3>2. QED
      BY <2>3, <3>1, Characters, SeqMonotonic
  <2>5. TakeLine(Idle(ps), z) = Within(k, w, ps)
    BY <1>1, <2>1, TakeFirst
  <2>6. TakeLine(Within(k, w, ps), b) = Idle(qs)
    <3> HIDE DEF w
    <3>1. QED
      BY <1>1, <2>1, <2>3, TakeSecond
  <2> HIDE DEF h, E, y
  <2>7. P \in Seq(Plain)
    BY <1>3, <2>4
  <2>8. /\ (h \o (Append(y, LF) \o b)) \o <<LF>> = P \o Q
        /\ (h \o (Append(y, LF) \o Q)) \o <<LF>> = P \o Append(Q, LF)
    <3>1. (h \o (Append(y, LF) \o b)) \o <<LF>> = P \o Q
      <4>1. h \in Seq(Plain) /\ y \in Seq(Plain) /\ b \in Seq(Plain) /\ LF \in Plain
        BY <1>2, <1>3, <2>2, <2>4
      <4> HIDE DEF z, P, Q, w, qs, M
      <4>2. (h \o (Append(y, LF) \o b)) \o <<LF>> = Append(h \o y, LF) \o Append(b, LF)
        BY ONLY <4>1, Regroup
      <4>3. QED
        BY <4>2 DEF z, P, Q
    <3>2. (h \o (Append(y, LF) \o Q)) \o <<LF>> = P \o Append(Q, LF)
      <4>1. h \in Seq(Plain) /\ y \in Seq(Plain) /\ Q \in Seq(Plain) /\ LF \in Plain
        BY <1>2, <1>3, <2>3, <2>4
      <4> HIDE DEF z, P, Q, w, qs, M
      <4>2. (h \o (Append(y, LF) \o Q)) \o <<LF>> = Append(h \o y, LF) \o Append(Q, LF)
        BY ONLY <4>1, Regroup
      <4>3. QED
        BY <4>2 DEF z, P
    <3>3. QED
      BY <3>1, <3>2
  <2> HIDE DEF z, w, P, Q, qs
  <2>9. Reads(s \o P, Append(L, z))
    BY <2>4, LineAdded DEF P
  <2>10. Reads((s \o P) \o Q, M)
    <3> DEFINE sp == s \o P
               N == Append(L, z)
    <3>1. Reads(sp, N)
      BY <2>9
    <3> HIDE DEF sp, N
    <3>2. Reads(sp \o Append(b, LF), Append(N, b))
      BY <2>2, <3>1, LineAdded
    <3>3. QED
      BY <3>2 DEF sp, N, Q
  <2>11. Parse(M) = Idle(qs)
    <3>1. Parse(Append(L, z)) = Within(k, w, ps)
      BY <1>3, <2>4, <2>5, ParseAppend
    <3> DEFINE N == Append(L, z)
    <3>2. N \in Seq(Seq(Inline))
      BY <1>3, <2>4
    <3> HIDE DEF N
    <3>3. Parse(Append(N, b)) = TakeLine(Parse(N), b)
      BY <2>2, <3>2, ParseAppend
    <3>4. QED
      BY <2>6, <3>1, <3>3 DEF N
  <2>12. s \o (P \o Q) = (s \o P) \o Q
    <3>1. s \in Seq(Plain) /\ P \in Seq(Plain) /\ Q \in Seq(Plain)
      BY <1>3, <2>3, <2>7
    <3>2. (s \o P) \o Q = s \o (P \o Q)
      BY <3>1, ConcatAssociative
    <3>3. QED
      BY <3>2
  <2>13. CASE E = Append(y, LF) \o b
    <3>1. s \o Lines(<<k, v>>) = (s \o P) \o Q
      BY <1>4, <2>8, <2>12, <2>13
    <3> HIDE DEF M
    <3>2. QED
      BY <2>10, <2>11, <3>1 DEF qs
  <2>14. CASE E = Append(y, LF) \o Q
    <3> DEFINE t == (s \o P) \o Q
               e == <<>>
    <3>1. Reads(t, M)
      BY <2>10
    <3>2. e \in Seq(Inline)
      OBVIOUS
    <3>3. Parse(Append(M, e)) = Idle(qs)
      <4>1. M \in Seq(Seq(Inline))
        BY <3>1 DEF Reads
      <4> HIDE DEF M, e
      <4>2. Parse(Append(M, e)) = TakeLine(Parse(M), e)
        BY <3>2, <4>1, ParseAppend
      <4>3. TakeLine(Parse(M), e) = Parse(M)
        BY TakeEmpty DEF e
      <4>4. QED
        BY <2>11, <4>2, <4>3
    <3>4. s \o Lines(<<k, v>>) = t \o Append(e, LF)
      <4>1. Append(e, LF) = <<LF>>
        OBVIOUS
      <4> HIDE DEF e
      <4>2. P \o Append(Q, LF) = Append(P \o Q, LF) /\ P \o Q \in Seq(Plain)
        BY <1>3, <2>3, <2>7, ConcatAppend
      <4>3. s \o Append(P \o Q, LF) = Append(s \o (P \o Q), LF) /\ s \o (P \o Q) \in Seq(Plain)
        <5> DEFINE pq == P \o Q
        <5>1. pq \in Seq(Plain)
          BY <4>2
        <5> HIDE DEF pq
        <5>2. s \o Append(pq, LF) = Append(s \o pq, LF) /\ s \o pq \in Seq(Plain)
          BY <1>3, <5>1, ConcatAppend
        <5>3. QED
          BY <5>2 DEF pq
      <4>4. t \in Seq(Plain) /\ s \o Lines(<<k, v>>) = Append(t, LF)
        BY <1>4, <2>8, <2>12, <2>14, <4>2, <4>3
      <4> HIDE DEF t
      <4>5. Append(t, LF) = t \o <<LF>>
        BY <1>3, <4>4, AppendIsConcat
      <4>6. QED
        BY <4>1, <4>4, <4>5
    <3> HIDE DEF t, M, e
    <3>5. Reads(t \o Append(e, LF), Append(M, e))
      BY <3>1, <3>2, LineAdded
    <3>6. QED
      BY <3>3, <3>4, <3>5 DEF qs
  <2>15. QED
    BY <2>1, <2>13, <2>14
<1>7. QED
  BY <1>5, <1>6, ValueForms

(* The lines of a pair are text.                                            *)
LEMMA PairLines ==
  ASSUME NEW k \in Keys, NEW v \in Writable
  PROVE  Lines(<<k, v>>) \in Seq(Plain)
<1> DEFINE h == Header(k)
           E == EscapeLF(v)
<1>1. k \in Seq(KeyChars) /\ k # <<>>
  BY TextAssumption
<1>2. h \in Seq(Plain)
  BY <1>1, HeaderIs, Characters, SeqMonotonic
<1>3. E \in Seq(Plain)
  <2>1. CASE v \in Seq(Clean) /\ E = v
    BY <2>1, Characters, SeqMonotonic
  <2>2. ASSUME NEW a, NEW b, TwoLines(v, a, b) PROVE E \in Seq(Plain)
    <3>1. a \in Seq(Plain) /\ b \in Seq(Plain) /\ BACKSLASH \in Plain /\ LF \in Plain
      <4>1. a \in Seq(Clean) /\ b \in Seq(Clean)
        BY <2>2 DEF TwoLines
      <4>2. Clean \subseteq Plain /\ BACKSLASH \in Plain /\ LF \in Plain
        BY Characters
      <4>3. QED
        BY <4>1, <4>2, SeqMonotonic
    <3> DEFINE x == Append(Append(a, BACKSLASH), LF)
               y == Append(b, LF)
    <3>2. x \in Seq(Plain) /\ y \in Seq(Plain)
      BY <3>1
    <3>3. E = x \o b \/ E = x \o y
      BY <2>2 DEF TwoLines
    <3> HIDE DEF x, y, E
    <3>4. x \o b \in Seq(Plain) /\ x \o y \in Seq(Plain)
      BY <3>1, <3>2, ConcatProperties
    <3>5. QED
      BY <3>3, <3>4
  <2>3. QED
    BY <2>1, <2>2, ValueForms
<1> HIDE DEF h, E
<1>4. (h \o E) \o <<LF>> \in Seq(Plain)
  BY <1>2, <1>3, Characters
<1>5. QED
  BY <1>4 DEF Lines, h, E

(* The pairs of a table, and those that are written.                        *)
Items == Keys \X Values
Written == Keys \X Writable

(* One pair more is some lines more.                                        *)
LEMMA SerializeAppend ==
  ASSUME NEW p \in Seq(Written), NEW q \in Written
  PROVE  hash_serialize(Append(p, q)) = hash_serialize(p) \o Lines(q)
<1> DEFINE F(s) == [i \in 1..Len(s) |-> Lines(s[i])]
           r == Append(p, q)
<1>1. \A x \in Written : Lines(x) \in Seq(Plain)
  <2>1. TAKE x \in Written
  <2>2. PICK k \in Keys, v \in Writable : x = <<k, v>>
    BY DEF Written
  <2>3. QED
    BY <2>2, PairLines
<1>2. ASSUME NEW s \in Seq(Written) PROVE F(s) \in Seq(Seq(Plain)) /\ Len(F(s)) = Len(s)
  <2>1. Len(s) \in Nat /\ \A i \in 1..Len(s) : s[i] \in Written
    OBVIOUS
  <2>2. F(s) \in [1..Len(s) -> Seq(Plain)]
    BY <1>1, <2>1
  <2>3. QED
    BY <2>1, <2>2
<1>3. r \in Seq(Written) /\ Len(r) = Len(p) + 1 /\ r[Len(p) + 1] = q
      /\ \A i \in 1..Len(p) : r[i] = p[i]
  OBVIOUS
<1> HIDE DEF r
<1>4. F(r) = Append(F(p), Lines(q))
  <2> DEFINE y == F(r)
             x == F(p)
             z == Append(x, Lines(q))
             n == Len(p)
  <2>1. /\ n \in Nat /\ Lines(q) \in Seq(Plain) /\ x \in Seq(Seq(Plain)) /\ Len(x) = n
        /\ y \in Seq(Seq(Plain)) /\ Len(y) = n + 1
    BY <1>1, <1>2, <1>3
  <2>2. (\A i \in 1..n : y[i] = x[i]) /\ y[n + 1] = Lines(q)
    BY <1>3, <2>1
  <2> HIDE DEF x, y, n
  <2>3. z \in Seq(Seq(Plain)) /\ Len(z) = n + 1 /\ z[n + 1] = Lines(q) /\ \A i \in 1..n : z[i] = x[i]
    <3> DEFINE e == Lines(q)
               S == Seq(Plain)
    <3>1. x \in Seq(S) /\ e \in S /\ Len(x) = n
      BY <2>1
    <3> HIDE DEF e, S
    <3>2. Append(x, e) \in Seq(S) /\ Len(Append(x, e)) = n + 1 /\ Append(x, e)[n + 1] = e
          /\ \A i \in 1..n : Append(x, e)[i] = x[i]
      BY <3>1, AppendProperties
    <3>3. QED
      BY <3>2 DEF e, S
  <2> HIDE DEF z
  <2>4. \A i \in 1..(n + 1) : y[i] = z[i]
    BY <2>1, <2>2, <2>3
  <2>5. y = z
    <3>1. Len(y) = Len(z) /\ \A i \in 1..Len(y) : y[i] = z[i]
      BY <2>1, <2>3, <2>4
    <3>2. QED
      BY ONLY <2>1, <2>3, <3>1, SeqEqual
  <2>6. QED
    BY <2>5 DEF x, y, z
<1>5. ASSUME NEW s \in Seq(Written) PROVE hash_serialize(s) = FlattenSeq(F(s))
  BY DEF hash_serialize, Lines, Header
<1> HIDE DEF F
<1>6. FlattenSeq(Append(F(p), Lines(q))) = FlattenSeq(F(p)) \o Lines(q)
  <2>1. F(p) \in Seq(Seq(Plain)) /\ Lines(q) \in Seq(Plain)
    BY <1>1, <1>2
  <2>2. QED
    BY <2>1, FlattenAppend
<1>7. QED
  BY <1>3, <1>4, <1>5, <1>6 DEF r

(* The pairs that are read back.                                            *)
Again(q) == <<q[1], Reread(q[2])>>
Back(p) == [n \in 1..Len(p) |-> Again(p[n])]

(* They are pairs of a table too.                                           *)
LEMMA BackType ==
  ASSUME NEW p \in Seq(Written)
  PROVE  Back(p) \in Seq(Items) /\ Len(Back(p)) = Len(p)
<1>1. Len(p) \in Nat /\ \A i \in 1..Len(p) : p[i] \in Written
  OBVIOUS
<1>2. \A x \in Written : Again(x) \in Items
  BY TextAssumption DEF Items, Written, Writable, Again
<1>3. Back(p) \in [1..Len(p) -> Items]
  BY <1>1, <1>2 DEF Back
<1>4. QED
  BY <1>1, <1>3

(* One pair more to read back.                                              *)
LEMMA BackAppend ==
  ASSUME NEW p \in Seq(Written), NEW q \in Written
  PROVE  Back(Append(p, q)) = Append(Back(p), Again(q))
<1> DEFINE r == Append(p, q)
           n == Len(p)
           x == Back(p)
           y == Back(r)
           e == Again(q)
           z == Append(x, e)
<1>1. e \in Items
  BY TextAssumption DEF Items, Written, Writable, Again
<1>2. r \in Seq(Written) /\ Len(r) = n + 1 /\ r[n + 1] = q /\ n \in Nat
      /\ \A i \in 1..n : r[i] = p[i]
  OBVIOUS
<1> HIDE DEF r, e
<1>3. /\ x \in Seq(Items) /\ Len(x) = n /\ \A i \in 1..n : x[i] = Again(p[i])
  BY BackType DEF Back
<1>4. y \in Seq(Items) /\ Len(y) = n + 1 /\ \A i \in 1..(n + 1) : y[i] = Again(r[i])
  BY <1>2, BackType DEF Back
<1> HIDE DEF x, y, n
<1>5. /\ z \in Seq(Items) /\ Len(z) = n + 1 /\ z[n + 1] = e
      /\ \A i \in 1..n : z[i] = x[i]
  BY <1>1, <1>3, AppendProperties
<1> HIDE DEF z
<1>6. \A i \in 1..(n + 1) : y[i] = z[i]
  <2>1. TAKE i \in 1..(n + 1)
  <2>2. CASE i = n + 1
    BY <1>2, <1>4, <1>5, <2>2 DEF e
  <2>3. CASE i # n + 1
    <3>1. i \in 1..n
      BY <1>2, <2>3
    <3>2. QED
      BY <1>2, <1>3, <1>4, <1>5, <3>1
  <2>4. QED
    BY <2>2, <2>3
<1>7. Len(y) = Len(z) /\ \A i \in 1..Len(y) : y[i] = z[i]
  BY <1>4, <1>5, <1>6
<1>8. y = z
  BY ONLY <1>4, <1>5, <1>7, SeqEqual
<1>9. QED
  BY <1>8 DEF r, x, y, z, e

(* The text of p is read as lines from which its pairs are parsed.          *)
ReadBack(p) == \E L : Reads(hash_serialize(p), L) /\ Parse(L) = Idle(Back(p))

(* So is the text of every list of pairs.                                   *)
LEMMA RoundTrip ==
  ASSUME NEW p \in Seq(Written)
  PROVE  ReadBack(p)
<1> DEFINE T == {s \in Seq(Written) : ReadBack(s)}
<1>1. <<>> \in T
  <2> DEFINE e == <<>>
  <2>1. e \in Seq(Written) /\ Len(e) = 0 /\ 1..Len(e) = {}
    OBVIOUS
  <2>2. hash_serialize(e) = <<>>
    <3> DEFINE y == [i \in 1..Len(e) |-> e[i][1] \o <<COLON, SPACE>> \o EscapeLF(e[i][2]) \o <<LF>>]
    <3>1. y = <<>>
      BY <2>1
    <3>2. FlattenSeq(y) = y
      BY <3>1 DEF FlattenSeq
    <3>3. QED
      BY <3>1, <3>2 DEF hash_serialize
  <2>3. Back(e) = <<>>
    BY <2>1 DEF Back
  <2>4. Reads(<<>>, <<>>)
    BY DEF Reads
  <2> HIDE DEF e
  <2>5. ReadBack(e)
    BY <2>2, <2>3, <2>4, ParseEmpty DEF ReadBack
  <2>6. QED
    BY <2>1, <2>5 DEF e
<1>2. ASSUME NEW s \in T, NEW q \in Written PROVE Append(s, q) \in T
  <2>1. s \in Seq(Written) /\ Append(s, q) \in Seq(Written)
    OBVIOUS
  <2>2. PICK L : Reads(hash_serialize(s), L) /\ Parse(L) = Idle(Back(s))
    BY <1>2 DEF ReadBack
  <2>3. PICK k \in Keys, v \in Writable : q = <<k, v>>
    BY DEF Written
  <2> DEFINE u == hash_serialize(s)
             ps == Back(s)
  <2>4. Reads(u, L) /\ Parse(L) = Idle(ps)
    BY <2>2
  <2> HIDE DEF T, u, ps
  <2>5. PICK M : Reads(u \o Lines(<<k, v>>), M) /\ Parse(M) = Idle(Append(ps, <<k, Reread(v)>>))
    BY <2>4, PairText
  <2>6. hash_serialize(Append(s, q)) = u \o Lines(q)
    BY <2>1, SerializeAppend DEF u
  <2>7. Back(Append(s, q)) = Append(ps, <<k, Reread(v)>>)
    <3>1. Again(q) = <<k, Reread(v)>>
      BY <2>3 DEF Again
    <3>2. QED
      BY <2>1, <3>1, BackAppend DEF ps
  <2>8. ReadBack(Append(s, q))
    BY <2>3, <2>5, <2>6, <2>7 DEF ReadBack
  <2>9. QED
    BY <2>1, <2>8 DEF T
<1> HIDE DEF T
<1>3. T \in SUBSET Seq(Written)
  BY DEF T
<1>4. T = Seq(Written)
  BY <1>1, <1>2, <1>3, AppendInduction
<1>5. QED
  BY <1>4 DEF T

(* What is written to a text and read from it is the same pairs, each value *)
(* as Reread says, and no failure.                                          *)
LEMMA TextRead ==
  ASSUME NEW p \in Seq(Written)
  PROVE  /\ hash_deserialize(hash_serialize(p)).pairs = Back(p)
         /\ ~hash_deserialize(hash_serialize(p)).failed
<1> DEFINE s == hash_serialize(p)
<1>1. PICK L : Reads(s, L) /\ Parse(L) = Idle(Back(p))
  BY RoundTrip DEF ReadBack
<1> HIDE DEF s
<1>2. str_split(s, LF) = L
  BY <1>1, SplitReads
<1>3. hash_deserialize(s) = [pairs |-> Parse(L).pairs, failed |-> Parse(L).failed \/ Parse(L).key # <<>>]
  BY <1>2 DEF hash_deserialize, Parse, Idle, St
<1>4. Parse(L).pairs = Back(p) /\ ~Parse(L).failed /\ Parse(L).key = <<>>
  BY <1>1 DEF Idle, St
<1> DEFINE f == Parse(L).failed \/ Parse(L).key # <<>>
<1>5. ~f
  BY <1>4
<1>6. hash_deserialize(s) = [pairs |-> Parse(L).pairs, failed |-> f]
  BY <1>3
<1> HIDE DEF f
<1>7. hash_deserialize(s).pairs = Parse(L).pairs /\ hash_deserialize(s).failed = f
  BY <1>6
<1>8. QED
  BY <1>4, <1>5, <1>7 DEF s

-----------------------------------------------------------------------------
(* A table filled from a list of pairs. *)

(* Pairs that a caller may store.                                           *)
Admissible(p) == p \in Seq(Items) /\ \A n \in 1..Len(p) : Storable(p[n][1], p[n][2])

(* A value that is read back is no key where the value was none.            *)
LEMMA RereadStorable ==
  ASSUME NEW k \in Keys, NEW v \in Values, Storable(k, v)
  PROVE  Storable(k, Reread(v))
<1>1. CASE Reread(v) = v
  BY <1>1
<1>2. CASE Reread(v) = Append(v, LF)
  <2> DEFINE x == Append(v, LF)
  <2>1. v \in Seq(1..255) /\ LF \in 1..255
    BY TextAssumption DEF LF
  <2>2. Len(x) \in Nat \ {0} /\ x[Len(x)] = LF
    <3>1. Len(x) = Len(v) + 1 /\ x[Len(v) + 1] = LF /\ Len(v) \in Nat
      BY <2>1, AppendProperties
    <3> HIDE DEF x
    <3>2. QED
      BY <3>1
  <2> HIDE DEF x
  <2>3. x \notin Seq(KeyChars)
    <3>1. ASSUME x \in Seq(KeyChars) PROVE FALSE
      <4>1. Len(x) \in 1..Len(x)
        BY <2>2
      <4>2. x[Len(x)] \in KeyChars
        BY <3>1, <4>1, ElementOfSeq
      <4>3. QED
        BY <2>2, <4>2, Characters
    <3>2. QED
      BY <3>1
  <2>4. x \notin Keys
    BY <2>3, TextAssumption
  <2>5. QED
    BY <1>2, <2>4 DEF Storable, x
<1>3. QED
  BY <1>1, <1>2 DEF Reread

(* So the pairs read back may be stored.                                    *)
LEMMA BackAdmissible ==
  ASSUME NEW p \in Seq(Written), Admissible(p)
  PROVE  Admissible(Back(p))
<1>1. p \in Seq(Items) /\ Back(p) \in Seq(Items) /\ Len(Back(p)) = Len(p)
  BY BackType DEF Admissible
<1>2. ASSUME NEW n \in 1..Len(Back(p)) PROVE Storable(Back(p)[n][1], Back(p)[n][2])
  <2>1. n \in 1..Len(p) /\ p[n] \in Items
    BY <1>1, ElementOfSeq
  <2>2. PICK k \in Keys, v \in Values : p[n] = <<k, v>>
    BY <2>1 DEF Items
  <2>3. Storable(k, v)
    BY <2>1, <2>2 DEF Admissible
  <2>4. Back(p)[n] = <<k, Reread(v)>>
    BY <2>1, <2>2 DEF Back, Again
  <2>5. QED
    BY <2>3, <2>4, RereadStorable
<1>3. QED
  BY <1>1, <1>2 DEF Admissible

(* The pairs of the table are pairs that were stored.                       *)
LEMMA PairsAdmissible ==
  ASSUME TableOK(Table)
  PROVE  Admissible(Pairs)
<1> DEFINE k == EverySecond(1, Order)
           v == EverySecond(2, Order)
<1>1. TwoLists(k, v)
  BY KeysAndValues
<1>2. Pairs = [n \in 1..Len(k) |-> <<k[n], v[n]>>]
  BY DEF Pairs
<1> HIDE DEF k, v
<1>3. Len(k) \in Nat
  BY <1>1 DEF TwoLists
<1>4. ASSUME NEW n \in 1..Len(k)
      PROVE  k[n] \in Keys /\ v[n] \in Values /\ Storable(k[n], v[n])
  <2>1. Besides(k[n], v[n])
    BY <1>1 DEF TwoLists
  <2>2. PICK s \in Slots, m \in Nat : \E i \in 1..m :
          Paired(Entries(s), s, m) /\ k[n] = Entries(s)[2*i-1] /\ v[n] = Entries(s)[2*i]
    BY <2>1 DEF Besides
  <2>3. PICK i \in 1..m :
          Paired(Entries(s), s, m) /\ k[n] = Entries(s)[2*i-1] /\ v[n] = Entries(s)[2*i]
    BY <2>2
  <2>4. QED
    BY <2>3 DEF Paired, Storable
<1>5. Pairs \in [1..Len(k) -> Items]
  BY <1>2, <1>4 DEF Items
<1>6. Pairs \in Seq(Items) /\ Len(Pairs) = Len(k)
  BY <1>3, <1>5
<1>7. QED
  BY <1>2, <1>4, <1>6 DEF Admissible

(* What upto of Loaded is, for a function f with m as last argument.        *)
Blank == [bucket |-> [s \in Slots |-> NULL], count |-> 0]
Loads(f, p, m) ==
  f = [n \in 0..m |-> IF n = 0 THEN Blank ELSE Stored(f[n-1], p[n][1], p[n][2])]

(* There is such a function.                                                *)
LEMMA LoadsExists ==
  ASSUME NEW p, NEW k \in Nat
  PROVE  \E f : Loads(f, p, k)
<1> DEFINE T == {m \in Nat : \E f : Loads(f, p, m)}
           Put(t, q) == Stored(t, q[1], q[2])
<1>1. 0 \in T
  <2> DEFINE f == [n \in 0..0 |-> Blank]
  <2>1. Loads(f, p, 0)
    BY DEF Loads
  <2>2. QED
    BY <2>1
<1>2. ASSUME NEW m \in T PROVE m + 1 \in T
  <2>1. m \in Nat /\ m + 1 \in Nat
    OBVIOUS
  <2>2. PICK f : Loads(f, p, m)
    OBVIOUS
  <2> DEFINE g == [n \in 0..(m+1) |-> IF n = m + 1 THEN Put(f[m], p[m+1]) ELSE f[n]]
  <2>3. \A n \in 0..(m+1) : g[n] = IF n = 0 THEN Blank ELSE Put(g[n-1], p[n])
    <3>1. ASSUME NEW n \in 0..m PROVE f[n] = IF n = 0 THEN Blank ELSE Put(f[n-1], p[n])
      BY <2>2 DEF Loads
    <3> HIDE DEF Put
    <3>2. g[m+1] = Put(g[m], p[m+1]) /\ m + 1 # 0 /\ (m + 1) - 1 = m
      BY <2>1
    <3>3. ASSUME NEW n \in 0..m PROVE g[n] = IF n = 0 THEN Blank ELSE Put(g[n-1], p[n])
      <4>1. g[n] = f[n] /\ (n # 0 => g[n-1] = f[n-1])
        BY <2>1
      <4>2. QED
        BY <3>1, <4>1
    <3> HIDE DEF g
    <3>4. \A n \in 0..(m + 1) : n = m + 1 \/ n \in 0..m
      BY <2>1
    <3>5. QED
      BY <3>2, <3>3, <3>4
  <2>4. g = [n \in 0..(m+1) |-> g[n]]
    OBVIOUS
  <2> HIDE DEF g
  <2>5. Loads(g, p, m + 1)
    BY <2>3, <2>4 DEF Loads
  <2>6. QED
    BY <2>1, <2>5
<1>3. T \in SUBSET Nat
  OBVIOUS
<1> HIDE DEF T
<1>4. T = Nat
  BY <1>1, <1>2, <1>3, SetInduction
<1>5. QED
  BY <1>4 DEF T

(* Filling a new table makes a table.                                       *)
LEMMA LoadedOK ==
  ASSUME NEW p, Admissible(p)
  PROVE  TableOK(Loaded(p))
<1> DEFINE f == CHOOSE g : Loads(g, p, Len(p))
           N == Len(p)
<1>1. N \in Nat /\ p \in Seq(Items)
  BY DEF Admissible
<1>2. Loads(f, p, N)
  BY <1>1, LoadsExists
<1>3. Loaded(p) = f[N]
  BY DEF Loaded, Loads, Blank
<1> HIDE DEF f
<1> DEFINE T == {n \in Nat : n <= N => TableOK(f[n])}
<1>4. 0 \in T
  <2>1. f[0] = Blank
    BY <1>1, <1>2 DEF Loads
  <2> DEFINE B == [s \in Slots |-> NULL]
  <2>2. B \in [Slots -> {NULL} \cup Seq(Strings)] /\ \A s \in Slots : Ent(B, s) = <<>>
    BY DEF Ent
  <2>3. Blank = [bucket |-> B, count |-> 0]
    BY DEF Blank
  <2> HIDE DEF B
  <2>4. TableOK(Blank)
    BY <2>2, <2>3, NoPairs
  <2>5. QED
    BY <2>1, <2>4
<1>5. ASSUME NEW n \in T PROVE n + 1 \in T
  <2>1. SUFFICES ASSUME n + 1 <= N PROVE TableOK(f[n+1])
    OBVIOUS
  <2>2. n \in Nat /\ n + 1 \in 1..N /\ n + 1 \in 0..N /\ n + 1 # 0 /\ (n + 1) - 1 = n /\ n <= N
    BY <1>1, <2>1
  <2>3. TableOK(f[n])
    BY <2>2
  <2> DEFINE q == p[n+1]
  <2>4. f[n+1] = Stored(f[n], q[1], q[2])
    BY <1>2, <2>2 DEF Loads
  <2>5. q \in Items /\ Storable(q[1], q[2])
    BY <1>1, <2>2, ElementOfSeq DEF Admissible
  <2>6. q[1] \in Keys /\ q[2] \in Values
    BY <2>5 DEF Items
  <2> HIDE DEF q, T
  <2>7. QED
    BY <2>3, <2>4, <2>5, <2>6, StoredOK
<1>6. T \in SUBSET Nat
  OBVIOUS
<1> HIDE DEF T
<1>7. T = Nat
  BY <1>4, <1>5, <1>6, SetInduction
<1>8. QED
  BY <1>1, <1>3, <1>7 DEF T

-----------------------------------------------------------------------------
(* The inductive invariant of the hash table. *)

(* The table that the variables hold is one of pairs, of at most MaxCount.  *)
Holding ==
  /\ bucket \in [Slots -> {NULL} \cup Seq(Strings)] /\ count \in 0..MaxCount
  /\ TableOK(Table)

(* A NULL pointer is followed by hash_copy, or where a value is lost.        *)
Marks ==
  /\ lost \in SUBSET Keys /\ fault \in BOOLEAN /\ spoilt \in BOOLEAN
  /\ fault => call = <<"copy">> \/ lost # {}

TableInv == HashTypeOK /\ TableOK(Table) /\ (fault => call = <<"copy">> \/ lost # {})

(* The tables that are followed.                                            *)
Followed == spoilt \/ TableInv

(* The calls and their arguments.                                           *)
Calls ==
  {<<"new">>, <<"truncate">>, <<"get_keys">>, <<"get_values">>, <<"copy">>, <<"print">>}
    \cup ({"reload"} \X BOOLEAN)
    \cup ({"get", "delete", "key_exists", "from_odd"} \X Keys)
    \cup ({"value_exists"} \X Values) \cup ({"set"} \X Keys \X Values)
    \cup ({"from_char"} \X Keys \X Values \X (1..4) \X BOOLEAN)
    \cup {<<"from_list", g[1], g[2], g[3], g[4]>> : g \in Given}

(* What a call reports is what its caller expects to find.                  *)
Texts == Strings \cup {NULL}
Answered ==
  call \in Calls /\ rc \in {0, -1} /\ value \in Values \cup {NULL} /\ found \in BOOLEAN
  /\ list \in Seq(Texts)

(* The end of a call.                                                       *)
LEMMA ReturnsOK ==
  ASSUME NEW c \in Calls, NEW r \in {0, -1}, NEW v \in Values \cup {NULL}, NEW f \in BOOLEAN,
         NEW l \in Seq(Texts), Returns(c, r, v, f, l)
  PROVE  Answered' /\ call' = c
<1>1. call' = c /\ rc' = r /\ value' = v /\ found' = f /\ list' = l
  BY DEF Returns
<1>2. QED
  BY <1>1 DEF Answered

(* The end of a call that returns no more than a code.                      *)
LEMMA ReturnedOK ==
  ASSUME NEW c \in Calls, NEW r \in {0, -1}, Returned(c, r)
  PROVE  Answered' /\ call' = c
<1> DEFINE e == <<>>
<1>1. e \in Seq(Texts) /\ FALSE \in BOOLEAN /\ NULL \in Values \cup {NULL}
  OBVIOUS
<1>2. Returns(c, r, NULL, FALSE, e)
  BY DEF Returned
<1> DEFINE no == FALSE
<1>3. no \in BOOLEAN /\ Returns(c, r, NULL, no, e)
  BY <1>2
<1> HIDE DEF e, no
<1>4. QED
  BY <1>1, <1>3, ReturnsOK

(* The parts of the invariant.                                              *)
LEMMA InvParts == TableInv <=> Holding /\ Answered /\ Marks
BY DEF TableInv, Holding, Answered, Marks, Calls, Texts, HashTypeOK

(* The parts before a call.                                                 *)
LEMMA InvBefore ==
  ASSUME TableInv, Usable
  PROVE  /\ Holding /\ TableOK(Table) /\ lost \in SUBSET Keys /\ fault = FALSE /\ spoilt = FALSE
<1>1. Holding /\ TableOK(Table) /\ lost \in SUBSET Keys /\ fault \in BOOLEAN /\ spoilt \in BOOLEAN
  BY InvParts DEF TableInv, Marks
<1>2. ~fault /\ ~spoilt
  BY DEF Usable
<1>3. QED
  BY <1>1, <1>2

(* The parts after a step.                                                  *)
LEMMA InvAfter ==
  ASSUME Holding', Answered', lost' \in SUBSET Keys, fault' \in BOOLEAN, spoilt' \in BOOLEAN,
         fault' => call' = <<"copy">> \/ lost' # {}
  PROVE  TableInv'
<1>1. HashTypeOK'
  BY DEF Holding, Answered, Calls, Texts, HashTypeOK
<1>2. TableOK(Table)'
  BY DEF Holding
<1>3. QED
  BY <1>1, <1>2 DEF TableInv

(* A search that is blocked meets a value that is lost.                     *)
LEMMA BlockedLost ==
  ASSUME NEW t, TableOK(t), NEW gone, NEW k \in Keys, Blocked(t, gone, k)
  PROVE  gone # {}
<1> DEFINE s == HashOf[k]
           b == Ent(t.bucket, s)
           i == Search(b, k)
<1>1. s \in Slots
  BY HashAssumption
<1>2. PICK n \in Nat : Paired(b, s, n)
  BY <1>1 DEF TableOK
<1>3. \/ i # 0 /\ i = Len(b)
      \/ \E p \in 1..(Len(b) - 1) : b[p] \in gone
  BY DEF Blocked, Ent
<1> HIDE DEF b, i
<1>4. Len(b) = 2 * n
  BY <1>2 DEF Paired
<1>5. i = 0 \/ \E m \in 1..n : i = 2*m-1
  BY <1>2, SearchFinds DEF i
<1>6. ~(i # 0 /\ i = Len(b))
  BY <1>4, <1>5
<1>7. QED
  BY <1>3, <1>6

(* It is blocked or not.                                                    *)
LEMMA BlockedBool ==
  ASSUME NEW t, NEW gone, NEW k
  PROVE  Blocked(t, gone, k) \in BOOLEAN
BY DEF Blocked

(* The keys that are lost after a hash_set are keys.                        *)
LEMMA LostKeys ==
  ASSUME NEW gone \in SUBSET Keys, NEW t, NEW k \in Keys, NEW v
  PROVE  Mended(gone, k, v) \in SUBSET Keys /\ Losing(gone, t, k) \in SUBSET Keys
BY DEF Mended, Losing

(* A call that fills the variables with a table.                            *)
LEMMA Became ==
  ASSUME NEW t, TableOK(t), Becomes(t)
  PROVE  Holding'
<1>1. t \in [bucket : [Slots -> {NULL} \cup Seq(Strings)], count : Nat]
  BY DEF TableOK
<1>2. /\ bucket' = t.bucket /\ count' = t.count /\ t.count <= MaxCount
      /\ t.count \in Nat /\ t.bucket \in [Slots -> {NULL} \cup Seq(Strings)]
  BY <1>1 DEF Becomes
<1>3. t = [bucket |-> bucket', count |-> count']
  BY <1>1, <1>2
<1>4. Table' = t
  BY <1>3 DEF Table
<1>5. TableOK(Table')
  BY <1>4
<1>6. TableOK(Table)'
  BY <1>5 DEF TableOK, Ent, Places, Paired, Strings
<1>7. count' \in 0..MaxCount
  BY <1>2, CountAssumption
<1>8. (bucket \in [Slots -> {NULL} \cup Seq(Strings)])'
  BY <1>2 DEF Strings
<1>9. QED
  BY <1>6, <1>7, <1>8 DEF Holding

(* A call that leaves them alone.                                           *)
LEMMA Kept ==
  ASSUME Holding, UNCHANGED table
  PROVE  Holding'
<1>1. bucket' = bucket /\ count' = count
  BY DEF table
<1>2. Table' = Table
  BY <1>1 DEF Table
<1>3. TableOK(Table')
  BY <1>2 DEF Holding
<1>4. TableOK(Table)'
  BY <1>3 DEF TableOK, Ent, Places, Paired, Strings
<1>5. (bucket \in [Slots -> {NULL} \cup Seq(Strings)] /\ count \in 0..MaxCount)'
  BY <1>1 DEF Holding, Strings
<1>6. QED
  BY <1>4, <1>5 DEF Holding

(* A search ends before the bucket does.                                    *)
LEMMA SearchEnds ==
  ASSUME TableOK(Table), NEW k \in Keys, NEW b, b = Entries(HashOf[k]), NEW i, i = Search(b, k)
  PROVE  /\ i \in Nat /\ Len(b) \in Nat /\ (i # 0 => i # Len(b) /\ i < Len(b) /\ b[i+1] \in Values)
         /\ (i = 0 \/ \E n \in Nat : \E m \in 1..n : Paired(b, HashOf[k], n) /\ i = 2*m-1)
<1>1. HashOf[k] \in Slots
  BY HashAssumption
<1>2. PICK n \in Nat : Paired(b, HashOf[k], n)
  BY <1>1, TheTable
<1>3. Len(b) = 2 * n /\ \A m \in 1..n : b[2*m] \in Values
  BY <1>2 DEF Paired
<1>4. CASE i = 0
  BY <1>3, <1>4
<1>5. ASSUME NEW m \in 1..n, i = 2*m-1
      PROVE  /\ i \in Nat /\ i # Len(b) /\ i < Len(b) /\ b[i+1] \in Values
  <2>1. i + 1 = 2 * m /\ i \in Nat /\ i < 2 * n
    BY <1>5
  <2>2. QED
    BY <1>3, <2>1
<1>6. QED
  BY <1>2, <1>3, <1>4, <1>5, SearchFinds

(* The walks by two entries end.                                            *)
LEMMA AlwaysEven ==
  ASSUME TableOK(Table)
  PROVE  Even
<1>1. ASSUME NEW s \in Slots PROVE Len(Entries(s)) % 2 = 0
  <2>1. PICK n \in Nat : Paired(Entries(s), s, n)
    BY TheTable
  <2>2. QED
    BY <2>1, Halved DEF Paired
<1>2. QED
  BY <1>1 DEF Even

(* The pair at position i is removed from the bucket of k.                  *)
LEMMA RemovedOK ==
  ASSUME Holding, NEW k \in Keys, NEW s, s = HashOf[k], NEW b, b = Entries(s),
         NEW n \in Nat, NEW m \in 1..n, Paired(b, s, n)
  PROVE  /\ TableOK([bucket |-> [bucket EXCEPT ![s] = WithoutPair(b, 2*m-1)], count |-> count - 1])
         /\ count - 1 <= MaxCount
<1>1. s \in Slots
  BY HashAssumption
<1>2. TableOK(Table) /\ Table.bucket = bucket /\ Table.count = count /\ count \in 0..MaxCount
  BY DEF Holding, Table
<1>3. Ent(Table.bucket, s) = b
  BY <1>1, <1>2, TheTable
<1>4. n - 1 \in Nat /\ Paired(WithoutPair(b, 2*m-1), s, n - 1)
  <2>1. Paired(WithoutPair(b, 2*m-1), s, n - 1)
    BY PairRemoved
  <2>2. QED
    BY <2>1
<1> DEFINE c == WithoutPair(b, 2*m-1)
           t == Table
           j == n - 1
<1>5. TableOK(t) /\ Paired(Ent(t.bucket, s), s, n) /\ Paired(c, s, j) /\ j \in Nat /\ j = n - 1
  BY <1>2, <1>3, <1>4
<1> HIDE DEF c, t, j
<1>6. TableOK([bucket |-> [t.bucket EXCEPT ![s] = c], count |-> t.count + (j - n)])
  BY <1>1, <1>5, BucketChanged
<1>7. t.count + (j - n) = count - 1 /\ count - 1 <= MaxCount
  <2>1. t.count = count /\ count \in Nat /\ count <= MaxCount /\ MaxCount \in Nat
    BY <1>2, CountAssumption DEF t
  <2>2. QED
    BY <1>5, <2>1
<1>8. QED
  BY <1>2, <1>6, <1>7 DEF t, c

(* hash_get and hash_key_exists.                                            *)
LEMMA GetInv ==
  ASSUME TableInv, NEW k \in Keys, hash_get(k) \/ hash_key_exists(k)
  PROVE  TableInv'
<1> DEFINE b == Entries(HashOf[k])
           i == Search(b, k)
           x == Blocked(Table, lost, k)
<1>1. Holding /\ TableOK(Table) /\ lost \in SUBSET Keys /\ spoilt = FALSE
  BY InvBefore DEF hash_get, hash_key_exists
<1>2. i \in Nat /\ Len(b) \in Nat /\ (i # 0 => i # Len(b) /\ i < Len(b) /\ b[i+1] \in Values)
  BY <1>1, SearchEnds
<1>3. Holding'
  BY <1>1, Kept DEF hash_get, hash_key_exists
<1>4. fault' = x /\ lost' = lost /\ spoilt' = spoilt
  BY DEF hash_get, hash_key_exists
<1>5. x \in BOOLEAN /\ (x => lost # {})
  BY <1>1, BlockedLost, BlockedBool
<1> HIDE DEF x
<1>6. CASE hash_get(k)
  <2> DEFINE c == <<"get", k>>
             r == IF i = 0 THEN -1 ELSE 0
             v == IF i # 0 /\ i < Len(b) THEN b[i+1] ELSE NULL
             no == FALSE
             e == <<>>
  <2>1. Returns(c, r, v, no, e)
    BY <1>6 DEF hash_get
  <2>2. c \in Calls /\ no \in BOOLEAN /\ e \in Seq(Texts)
    BY DEF Calls
  <2> HIDE DEF b, i
  <2>3. r \in {0, -1} /\ v \in Values \cup {NULL}
    BY <1>2
  <2> HIDE DEF c, r, v, no, e
  <2>4. Answered'
    BY <2>1, <2>2, <2>3, ReturnsOK
  <2>5. QED
    BY <1>1, <1>3, <1>4, <1>5, <2>4, InvAfter
<1>7. CASE hash_key_exists(k)
  <2> DEFINE c == <<"key_exists", k>>
             f == Has(Table, k)
             e == <<>>
  <2>1. Returns(c, 0, NULL, f, e)
    BY <1>7 DEF hash_key_exists
  <2>2. c \in Calls /\ e \in Seq(Texts) /\ 0 \in {0, -1} /\ NULL \in Values \cup {NULL}
    BY DEF Calls
  <2>3. f \in BOOLEAN
    BY DEF Has
  <2> HIDE DEF b, i, c, e, f
  <2>5. Answered'
    BY <2>1, <2>2, <2>3, ReturnsOK
  <2>6. QED
    BY <1>1, <1>3, <1>4, <1>5, <2>5, InvAfter
<1>8. QED
  BY <1>6, <1>7

(* hash_set.                                                                *)
LEMMA SetInv ==
  ASSUME TableInv, NEW k \in Keys, NEW v \in Values, hash_set(k, v), ~spoilt'
  PROVE  TableInv'
<1> DEFINE c == <<"set", k, v>>
           x == Blocked(Table, lost, k)
<1>1. Holding /\ TableOK(Table) /\ lost \in SUBSET Keys /\ fault = FALSE /\ spoilt = FALSE
  BY InvBefore DEF hash_set
<1>2. c \in Calls /\ 0 \in {0, -1} /\ -1 \in {0, -1}
  BY DEF Calls
<1>3. CASE /\ x /\ fault' = TRUE /\ UNCHANGED <<table, lost, spoilt>> /\ Returned(c, 0)
  <2>1. lost # {}
    BY <1>1, <1>3, BlockedLost
  <2>2. Holding'
    BY <1>1, <1>3, Kept
  <2> HIDE DEF c, x
  <2>3. Answered'
    BY <1>2, <1>3, ReturnedOK
  <2>4. QED
    BY <1>1, <1>3, <2>1, <2>2, <2>3, InvAfter
<1>4. CASE /\ Becomes(Stored(Table, k, v)) /\ lost' = Mended(lost, k, v)
           /\ spoilt' = ~Storable(k, v) /\ UNCHANGED fault /\ Returned(c, 0)
  <2>1. Storable(k, v) /\ spoilt' \in BOOLEAN
    BY <1>4
  <2>2. Holding'
    BY <1>1, <1>4, <2>1, StoredOK, Became
  <2>3. lost' \in SUBSET Keys
    BY <1>1, <1>4, LostKeys
  <2> HIDE DEF c, x
  <2>4. Answered'
    BY <1>2, <1>4, ReturnedOK
  <2>5. fault' = FALSE
    BY <1>1, <1>4
  <2>6. QED
    BY <2>1, <2>2, <2>3, <2>4, <2>5, InvAfter
<1>5. CASE /\ \E t \in Failed(Table, k, v) : Becomes(t)
           /\ lost' = Losing(lost, Table, k) /\ UNCHANGED <<fault, spoilt>> /\ Returned(c, -1)
  <2>1. Holding'
    BY <1>1, <1>5, FailedOK, Became
  <2>2. lost' \in SUBSET Keys
    BY <1>1, <1>5, LostKeys
  <2> HIDE DEF c, x
  <2>3. Answered'
    BY <1>2, <1>5, ReturnedOK
  <2>4. fault' = FALSE /\ spoilt' = FALSE
    BY <1>1, <1>5
  <2>5. QED
    BY <2>1, <2>2, <2>3, <2>4, InvAfter
<1>6. QED
  BY <1>3, <1>4, <1>5 DEF hash_set

(* hash_delete.                                                             *)
LEMMA DeleteInv ==
  ASSUME TableInv, NEW k \in Keys, hash_delete(k)
  PROVE  TableInv'
<1> DEFINE s == HashOf[k]
           b == Entries(s)
           i == Search(b, k)
           x == Blocked(Table, lost, k)
           there == i # 0 /\ ~x
           c == <<"delete", k>>
           r == IF i = 0 THEN -1 ELSE 0
<1>1. Holding /\ TableOK(Table) /\ c \in Calls /\ lost \in SUBSET Keys /\ spoilt = FALSE
  BY InvBefore DEF Calls, hash_delete
<1>2. /\ i \in Nat /\ Len(b) \in Nat /\ (i # 0 => i # Len(b) /\ i < Len(b) /\ b[i+1] \in Values)
      /\ (i = 0 \/ \E n \in Nat : \E m \in 1..n : Paired(b, HashOf[k], n) /\ i = 2*m-1)
  BY <1>1, SearchEnds
<1>3. /\ bucket' = IF there THEN [bucket EXCEPT ![s] = WithoutPair(b, i)] ELSE bucket
      /\ count' = IF there THEN count - 1 ELSE count
      /\ lost' = IF there THEN lost \ {k} ELSE lost
      /\ fault' = x /\ spoilt' = spoilt /\ Returned(c, r)
  BY DEF hash_delete
<1>9. x \in BOOLEAN /\ (x => lost # {})
  BY <1>1, BlockedLost, BlockedBool
<1> HIDE DEF b, i, c, x
<1>4. r \in {0, -1}
  OBVIOUS
<1> HIDE DEF r
<1>5. Answered'
  BY <1>1, <1>3, <1>4, ReturnedOK
<1>6. lost' \in SUBSET Keys /\ fault' \in BOOLEAN /\ (fault' => lost' # {}) /\ spoilt' = FALSE
  BY <1>1, <1>3, <1>9
<1>7. Holding'
  <2>1. CASE i = 0 \/ x
    <3>1. UNCHANGED table
      BY <1>3, <2>1 DEF table
    <3>2. QED
      BY <1>1, <3>1, Kept
  <2>2. ASSUME ~x, NEW n \in Nat, NEW m \in 1..n, Paired(b, s, n), i = 2*m-1 PROVE Holding'
    <3> DEFINE B == [bucket EXCEPT ![s] = WithoutPair(b, i)]
               t == [bucket |-> B, count |-> count - 1]
    <3>1. there
      <4>1. i # 0
        BY <2>2
      <4>2. QED
        BY <2>2, <4>1
    <3> HIDE DEF there
    <3>2. bucket' = B /\ count' = count - 1
      BY <1>3, <3>1
    <3>3. TableOK(t) /\ count - 1 <= MaxCount
      <4>1. TableOK([bucket |-> [bucket EXCEPT ![s] = WithoutPair(b, 2*m-1)], count |-> count - 1])
            /\ count - 1 <= MaxCount
        BY <1>1, <2>2, RemovedOK DEF b
      <4>2. QED
        BY <2>2, <4>1
    <3> HIDE DEF B
    <3>4. t.bucket = B /\ t.count = count - 1
      OBVIOUS
    <3> HIDE DEF t
    <3>5. Becomes(t)
      BY <3>2, <3>3, <3>4 DEF Becomes
    <3>6. QED
      BY <3>3, <3>5, Became
  <2>3. QED
    BY <1>2, <2>1, <2>2
<1>8. QED
  BY <1>5, <1>6, <1>7, InvAfter

(* hash_truncate.                                                           *)
LEMMA TruncateInv ==
  ASSUME TableInv, hash_truncate
  PROVE  TableInv'
<1> DEFINE c == <<"truncate">>
<1>1. TableOK(Table) /\ c \in Calls /\ fault' = FALSE /\ spoilt' = FALSE /\ lost' = {}
  BY InvBefore DEF Calls, hash_truncate
<1>2. Holding'
  BY <1>1, EmptiedOK, Became DEF hash_truncate
<1>3. Returned(c, 0)
  BY DEF hash_truncate
<1> HIDE DEF c
<1>4. Answered'
  BY <1>1, <1>3, ReturnedOK
<1>5. QED
  BY <1>1, <1>2, <1>4, InvAfter

(* hash_copy, which may follow a NULL pointer.                              *)
LEMMA CopyInv ==
  ASSUME TableInv, hash_copy
  PROVE  TableInv'
<1> DEFINE c == <<"copy">>
<1>1. Holding /\ c \in Calls /\ lost \in SUBSET Keys /\ spoilt = FALSE
  BY InvBefore DEF Calls, hash_copy
<1>2. Holding'
  BY <1>1, Kept DEF hash_copy
<1>3. Returned(c, 0) /\ fault' \in BOOLEAN /\ lost' = lost /\ spoilt' = spoilt
  BY DEF hash_copy
<1> HIDE DEF c
<1>4. Answered' /\ call' = c
  BY <1>1, <1>3, ReturnedOK
<1>5. QED
  BY <1>1, <1>2, <1>3, <1>4, InvAfter DEF c

(* hash_from_char.                                                          *)
LEMMA FromCharInv ==
  ASSUME TableInv, NEW k \in Keys, NEW v \in Values, NEW n \in 1..4, NEW mem \in BOOLEAN,
         hash_from_char(k, v, n, mem), ~spoilt'
  PROVE  TableInv'
<1> DEFINE c == <<"from_char", k, v, n, mem>>
           r == IF n = 3 THEN 0 ELSE -1
<1>1. TableOK(Table) /\ c \in Calls /\ fault' = FALSE /\ lost' = {} /\ spoilt = FALSE
  BY InvBefore DEF Calls, hash_from_char
<1>2. TableOK(Emptied)
  BY <1>1, EmptiedOK
<1>3. r \in {0, -1} /\ -1 \in {0, -1}
  OBVIOUS
<1>4. \/ Becomes(Emptied) /\ UNCHANGED spoilt /\ Returned(c, -1)
      \/ Becomes(Stored(Emptied, k, v)) /\ spoilt' = ~Storable(k, v) /\ Returned(c, r)
      \/ (\E t \in Failed(Emptied, k, v) : Becomes(t)) /\ UNCHANGED spoilt /\ Returned(c, -1)
  BY DEF hash_from_char
<1> HIDE DEF c, r
<1>5. Answered'
  BY <1>1, <1>3, <1>4, ReturnedOK
<1>6. CASE Becomes(Emptied) /\ UNCHANGED spoilt
  <2>1. Holding'
    BY <1>2, <1>6, Became
  <2>2. QED
    BY <1>1, <1>5, <1>6, <2>1, InvAfter
<1>7. CASE Becomes(Stored(Emptied, k, v)) /\ spoilt' = ~Storable(k, v)
  <2>1. Storable(k, v) /\ spoilt' \in BOOLEAN
    BY <1>7
  <2>2. Holding'
    BY <1>2, <1>7, <2>1, StoredOK, Became
  <2>3. QED
    BY <1>1, <1>5, <2>1, <2>2, InvAfter
<1>8. CASE (\E t \in Failed(Emptied, k, v) : Becomes(t)) /\ UNCHANGED spoilt
  <2>1. Holding'
    BY <1>2, <1>8, FailedOK, Became
  <2>2. QED
    BY <1>1, <1>5, <1>8, <2>1, InvAfter
<1>9. QED
  BY <1>4, <1>6, <1>7, <1>8

(* hash_from_list of two pairs.                                             *)
LEMMA FromListInv ==
  ASSUME TableInv, NEW g \in Given, NEW k, k = g[1], NEW v, v = g[2], NEW l, l = g[3],
         NEW w, w = g[4], hash_from_list(k, v, l, w), ~spoilt'
  PROVE  TableInv'
<1> DEFINE c == <<"from_list", k, v, l, w>>
           one == Stored(Table, k, v)
           gone == Mended(lost, k, v)
           x == Blocked(Table, lost, k)
           y == Blocked(one, gone, l)
           Ends(r, args) == Returns(c, r, NULL, FALSE, args)
           A == <<k, v, l, w>>
           B == <<NULL, v, l, w>>
           D == <<k, v, NULL, w>>
<1>1. k \in Keys /\ v \in Values /\ l \in Keys /\ w \in Values
  BY ListAssumption
<1>2. Holding /\ TableOK(Table) /\ lost \in SUBSET Keys /\ fault = FALSE /\ spoilt = FALSE
  BY InvBefore DEF hash_from_list
<1>3. c \in Calls
  BY DEF Calls
<1>4. A \in Seq(Texts) /\ B \in Seq(Texts) /\ D \in Seq(Texts)
  BY <1>1 DEF Texts, Strings
<1>5. gone \in SUBSET Keys
  BY <1>1, <1>2, LostKeys
<1>6. Storable(k, v) => TableOK(one)
  BY <1>1, <1>2, StoredOK
<1>7. \/ /\ x /\ fault' = TRUE /\ UNCHANGED <<table, lost, spoilt>> /\ Ends(0, A)
      \/ /\ \E t \in Failed(Table, k, v) : Becomes(t)
         /\ lost' = Losing(lost, Table, k) /\ UNCHANGED <<fault, spoilt>> /\ Ends(-1, B)
      \/ /\ Storable(k, v) /\ y /\ Becomes(one)
         /\ lost' = gone /\ fault' = TRUE /\ UNCHANGED spoilt /\ Ends(0, A)
      \/ /\ Storable(k, v) /\ Becomes(Stored(one, l, w)) /\ lost' = Mended(gone, l, w)
         /\ spoilt' = ~Storable(l, w) /\ UNCHANGED fault /\ Ends(0, D)
      \/ /\ Storable(k, v) /\ \E t \in Failed(one, l, w) : Becomes(t)
         /\ lost' = Losing(gone, one, l) /\ UNCHANGED <<fault, spoilt>> /\ Ends(-1, D)
  BY DEF hash_from_list
<1>8. Answered'
  <2> DEFINE no == FALSE
  <2>1. no \in BOOLEAN /\ 0 \in {0, -1} /\ -1 \in {0, -1} /\ NULL \in Values \cup {NULL}
    OBVIOUS
  <2>2. \E r \in {0, -1}, a \in {A, B, D} : Returns(c, r, NULL, no, a)
    BY <1>7
  <2> HIDE DEF c, A, B, D, no
  <2>3. QED
    BY <1>3, <1>4, <2>1, <2>2, ReturnsOK
<1> HIDE DEF c, A, B, D, one, gone, Ends
<1>9. CASE x /\ fault' = TRUE /\ UNCHANGED <<table, lost, spoilt>>
  <2>1. Holding' /\ lost # {}
    BY <1>1, <1>2, <1>9, Kept, BlockedLost
  <2> HIDE DEF x
  <2>2. QED
    BY <1>2, <1>8, <1>9, <2>1, InvAfter
<1>10. CASE /\ \E t \in Failed(Table, k, v) : Becomes(t)
            /\ lost' = Losing(lost, Table, k) /\ UNCHANGED <<fault, spoilt>>
  <2>1. Holding' /\ lost' \in SUBSET Keys
    BY <1>1, <1>2, <1>10, FailedOK, Became, LostKeys
  <2>2. QED
    BY <1>2, <1>8, <1>10, <2>1, InvAfter
<1>11. CASE Storable(k, v) /\ y /\ Becomes(one) /\ lost' = gone /\ fault' = TRUE /\ UNCHANGED spoilt
  <2>1. Holding' /\ gone # {}
    BY <1>1, <1>6, <1>11, Became, BlockedLost
  <2> HIDE DEF y
  <2>2. QED
    BY <1>2, <1>5, <1>8, <1>11, <2>1, InvAfter
<1>12. CASE /\ Storable(k, v) /\ Becomes(Stored(one, l, w)) /\ lost' = Mended(gone, l, w)
            /\ spoilt' = ~Storable(l, w) /\ UNCHANGED fault
  <2>1. Storable(l, w) /\ spoilt' \in BOOLEAN /\ TableOK(one)
    BY <1>6, <1>12
  <2>2. Holding'
    BY <1>1, <1>12, <2>1, StoredOK, Became
  <2>3. lost' \in SUBSET Keys /\ fault' = FALSE
    BY <1>1, <1>2, <1>5, <1>12, LostKeys
  <2>4. QED
    BY <1>8, <2>1, <2>2, <2>3, InvAfter
<1>13. CASE /\ Storable(k, v) /\ \E t \in Failed(one, l, w) : Becomes(t)
            /\ lost' = Losing(gone, one, l) /\ UNCHANGED <<fault, spoilt>>
  <2>1. Holding' /\ lost' \in SUBSET Keys
    BY <1>1, <1>5, <1>6, <1>13, FailedOK, Became, LostKeys
  <2>2. QED
    BY <1>2, <1>8, <1>13, <2>1, InvAfter
<1> HIDE DEF x, y
<1>14. QED
  BY <1>7, <1>9, <1>10, <1>11, <1>12, <1>13

(* hash_from_list of a list that is not one of pairs.                       *)
LEMMA FromOddInv ==
  ASSUME TableInv, NEW k \in Keys, hash_from_odd(k)
  PROVE  TableInv'
<1> DEFINE c == <<"from_odd", k>>
           e == <<k>>
           no == FALSE
<1>1. Holding /\ lost \in SUBSET Keys /\ fault = FALSE /\ spoilt = FALSE
  BY InvBefore DEF hash_from_odd
<1>2. c \in Calls /\ e \in Seq(Texts) /\ no \in BOOLEAN /\ -1 \in {0, -1}
      /\ NULL \in Values \cup {NULL}
  BY DEF Calls, Texts, Strings
<1>3. Returns(c, -1, NULL, no, e) /\ UNCHANGED <<table, lost, fault, spoilt>>
  BY DEF hash_from_odd
<1> HIDE DEF c, e, no
<1>4. Answered' /\ Holding'
  BY <1>1, <1>2, <1>3, ReturnsOK, Kept
<1>5. QED
  BY <1>1, <1>3, <1>4, InvAfter

(* The lists that the walks through the buckets give.                       *)
LEMMA WalkType ==
  ASSUME TableOK(Table)
  PROVE  EverySecond(1, Order) \in Seq(Texts) /\ EverySecond(2, Order) \in Seq(Texts)
<1>1. Strings \subseteq Texts
  BY DEF Texts
<1>2. EverySecond(1, Order) \in Seq(Strings) /\ EverySecond(2, Order) \in Seq(Strings)
  BY KeysAndValues DEF TwoLists
<1>3. QED
  BY <1>1, <1>2, SeqMonotonic

(* hash_get_keys and hash_get_values.                                       *)
LEMMA ListsInv ==
  ASSUME TableInv, hash_get_keys \/ hash_get_values
  PROVE  TableInv'
<1> DEFINE c == <<"get_keys">>
           d == <<"get_values">>
           x == EverySecond(1, Order)
           y == EverySecond(2, Order)
           no == FALSE
<1>1. /\ TableOK(Table) /\ Holding /\ lost \in SUBSET Keys /\ spoilt = FALSE
      /\ c \in Calls /\ d \in Calls /\ no \in BOOLEAN
  BY InvBefore DEF Calls, hash_get_keys, hash_get_values
<1>2. /\ fault' = ~Even /\ UNCHANGED <<table, lost, spoilt>>
      /\ Returns(c, 0, NULL, no, x) \/ Returns(d, 0, NULL, no, y)
  BY DEF hash_get_keys, hash_get_values
<1>3. Even /\ x \in Seq(Texts) /\ y \in Seq(Texts)
  BY <1>1, AlwaysEven, WalkType
<1>4. 0 \in {0, -1} /\ NULL \in Values \cup {NULL}
  OBVIOUS
<1> HIDE DEF c, d, x, y, no
<1>5. Answered'
  BY <1>1, <1>2, <1>3, <1>4, ReturnsOK
<1>6. fault' = FALSE /\ Holding' /\ lost' = lost /\ spoilt' = FALSE
  BY <1>1, <1>2, <1>3, Kept
<1>7. QED
  BY <1>1, <1>5, <1>6, InvAfter

(* hash_value_exists.                                                       *)
LEMMA ValueExistsInv ==
  ASSUME TableInv, NEW v \in Values, hash_value_exists(v)
  PROVE  TableInv'
<1> DEFINE c == <<"value_exists", v>>
           y == EverySecond(2, Order)
           f == \E i \in 1..Len(y) : y[i] = v
           e == <<>>
<1>1. /\ TableOK(Table) /\ Holding /\ lost \in SUBSET Keys /\ spoilt = FALSE
      /\ c \in Calls /\ e \in Seq(Texts)
  BY InvBefore DEF Calls, hash_value_exists
<1>2. fault' = ~Even /\ UNCHANGED <<table, lost, spoilt>> /\ Returns(c, 0, NULL, f, e)
  BY DEF hash_value_exists
<1>3. Even
  BY <1>1, AlwaysEven
<1>4. 0 \in {0, -1} /\ NULL \in Values \cup {NULL}
  OBVIOUS
<1>5. f \in BOOLEAN
  OBVIOUS
<1> HIDE DEF c, y, f, e
<1>6. Answered'
  BY <1>1, <1>2, <1>4, <1>5, ReturnsOK
<1>7. fault' = FALSE /\ Holding' /\ lost' = lost /\ spoilt' = FALSE
  BY <1>1, <1>2, <1>3, Kept
<1>8. QED
  BY <1>1, <1>6, <1>7, InvAfter

(* The keys of that list are keys of the table.                             *)
LEMMA KeyThere ==
  ASSUME TableOK(Table), NEW n \in 1..Len(EverySecond(1, Order)), NEW k,
         k = EverySecond(1, Order)[n]
  PROVE  k \in Keys
<1> DEFINE x == EverySecond(1, Order)
           y == EverySecond(2, Order)
<1>1. TwoLists(x, y)
  BY KeysAndValues
<1>2. Besides(k, y[n])
  BY <1>1 DEF TwoLists
<1>3. QED
  BY <1>2 DEF Besides, Paired

(* hash_print.                                                              *)
LEMMA PrintInv ==
  ASSUME TableInv, hash_print
  PROVE  TableInv'
<1> DEFINE c == <<"print">>
           keys == EverySecond(1, Order)
           bad == \E n \in 1..Len(keys) : Blocked(Table, lost, keys[n])
           r == IF \E n \in 1..Len(keys) : ~Has(Table, keys[n]) THEN -1 ELSE 0
<1>1. TableOK(Table) /\ Holding /\ lost \in SUBSET Keys /\ spoilt = FALSE /\ c \in Calls
  BY InvBefore DEF Calls, hash_print
<1>2. fault' = (~Even \/ bad) /\ UNCHANGED <<table, lost, spoilt>> /\ Returned(c, r)
  BY DEF hash_print
<1>3. Even
  BY <1>1, AlwaysEven
<1>4. bad \in BOOLEAN /\ (bad => lost # {})
  <2>1. ASSUME NEW n \in 1..Len(keys), Blocked(Table, lost, keys[n]) PROVE lost # {}
    <3>1. keys[n] \in Keys
      BY <1>1, KeyThere
    <3> HIDE DEF keys
    <3>2. QED
      BY <1>1, <2>1, <3>1, BlockedLost
  <2>2. QED
    BY <2>1
<1>5. r \in {0, -1}
  OBVIOUS
<1> HIDE DEF c, bad, r
<1>6. Answered'
  BY <1>1, <1>2, <1>5, ReturnedOK
<1>7. Holding' /\ lost' = lost /\ spoilt' = FALSE
  BY <1>1, <1>2, Kept
<1>8. fault' \in BOOLEAN /\ (fault' => lost # {})
  BY <1>2, <1>3, <1>4
<1>9. QED
  BY <1>1, <1>6, <1>7, <1>8, InvAfter

(* The pairs of a table that the text can represent are read back.          *)
LEMMA PairsWritten ==
  ASSUME TableOK(Table), \A n \in 1..Len(Pairs) : Representable(Pairs[n][2])
  PROVE  Pairs \in Seq(Written) /\ Admissible(Pairs)
<1> DEFINE p == Pairs
<1>1. Admissible(p) /\ p \in Seq(Items)
  BY PairsAdmissible DEF Admissible
<1>2. Len(p) \in Nat /\ \A n \in 1..Len(p) : p[n] \in Items /\ Representable(p[n][2])
  BY <1>1
<1>3. DOMAIN p = 1..Len(p) /\ p = [n \in 1..Len(p) |-> p[n]]
  BY <1>1
<1> HIDE DEF p
<1>4. \A n \in 1..Len(p) : p[n] \in Written
  BY <1>2 DEF Items, Written, Writable
<1>5. p \in [1..Len(p) -> Written]
  BY <1>3, <1>4
<1>6. QED
  BY <1>1, <1>2, <1>5 DEF p

(* A table written to a text and read back.                                 *)
LEMMA ReloadInv ==
  ASSUME TableInv, NEW mem \in BOOLEAN, Reload(mem), ~spoilt'
  PROVE  TableInv'
<1> DEFINE c == <<"reload", mem>>
           d == hash_deserialize(hash_serialize(Pairs))
           readable == \A n \in 1..Len(Pairs) : Representable(Pairs[n][2])
           any == Pairs # <<>>
           t == IF d.failed THEN Table ELSE Loaded(d.pairs)
           r == IF d.failed THEN -1 ELSE 0
<1>1. /\ Holding /\ TableOK(Table) /\ lost \in SUBSET Keys /\ fault = FALSE /\ spoilt = FALSE
      /\ c \in Calls
  BY InvBefore DEF Reload, Calls
<1>2. Even
  BY <1>1, AlwaysEven
<1>3. /\ lost' = lost
      /\ \/ /\ ~Even \/ lost # {}
            /\ fault' = TRUE /\ UNCHANGED <<table, spoilt>> /\ Returned(c, 0)
         \/ /\ readable /\ Becomes(t)
            /\ spoilt' = (d.failed /\ any) /\ UNCHANGED fault /\ Returned(c, r)
         \/ spoilt' = TRUE
         \/ /\ spoilt' \in {FALSE, any} /\ UNCHANGED <<table, fault>> /\ Returned(c, -1)
  BY DEF Reload
<1>4. ASSUME readable PROVE TableOK(t)
  <2>1. Pairs \in Seq(Written) /\ Admissible(Pairs)
    BY <1>1, <1>4, PairsWritten
  <2>2. d.pairs = Back(Pairs)
    BY <2>1, TextRead
  <2>3. TableOK(Loaded(d.pairs))
    BY <2>1, <2>2, BackAdmissible, LoadedOK
  <2> HIDE DEF d
  <2>4. QED
    BY <1>1, <2>3
<1>5. r \in {0, -1} /\ 0 \in {0, -1} /\ -1 \in {0, -1}
  OBVIOUS
<1>6. any \in BOOLEAN
  OBVIOUS
<1> HIDE DEF c, t, r, readable, any
<1>7. CASE (~Even \/ lost # {}) /\ fault' = TRUE /\ UNCHANGED <<table, spoilt>> /\ Returned(c, 0)
  <2>1. Holding' /\ Answered'
    BY <1>1, <1>5, <1>7, Kept, ReturnedOK
  <2>2. QED
    BY <1>1, <1>2, <1>3, <1>7, <2>1, InvAfter
<1>8. CASE /\ readable /\ Becomes(t)
           /\ spoilt' = (d.failed /\ any) /\ UNCHANGED fault /\ Returned(c, r)
  <2>1. Holding' /\ Answered'
    BY <1>1, <1>4, <1>5, <1>8, Became, ReturnedOK
  <2>2. spoilt' \in BOOLEAN
    BY <1>8
  <2>3. QED
    BY <1>1, <1>3, <1>8, <2>1, <2>2, InvAfter
<1>9. CASE /\ spoilt' \in {FALSE, any} /\ UNCHANGED <<table, fault>> /\ Returned(c, -1)
  <2>1. Holding' /\ Answered'
    BY <1>1, <1>5, <1>9, Kept, ReturnedOK
  <2>2. spoilt' \in BOOLEAN
    BY <1>6, <1>9
  <2>3. QED
    BY <1>1, <1>3, <1>9, <2>1, <2>2, InvAfter
<1>10. QED
  BY <1>3, <1>7, <1>8, <1>9

(* A new hash table.                                                        *)
LEMMA NewInv == HashInit => TableInv
<1> SUFFICES ASSUME HashInit PROVE TableInv
  OBVIOUS
<1>1. TableOK(Table)
  <2> DEFINE B == [s \in Slots |-> NULL]
  <2>1. B \in [Slots -> {NULL} \cup Seq(Strings)] /\ \A s \in Slots : Ent(B, s) = <<>>
    BY DEF Ent
  <2>2. Table = [bucket |-> B, count |-> 0]
    BY DEF HashInit, Table
  <2> HIDE DEF B
  <2>3. QED
    BY <2>1, <2>2, NoPairs
<1>2. Holding
  BY <1>1, CountAssumption DEF HashInit, Holding
<1>3. call \in Calls
  BY DEF HashInit, Calls
<1>4. Answered
  <2>1. list \in Seq(Texts)
    BY DEF HashInit
  <2>2. rc \in {0, -1} /\ value \in Values \cup {NULL}
    BY DEF HashInit
  <2>3. found \in BOOLEAN
    BY DEF HashInit
  <2>4. QED
    BY <1>3, <2>1, <2>2, <2>3 DEF Answered
<1>5. Marks
  BY DEF HashInit, Marks
<1>6. QED
  BY <1>2, <1>4, <1>5, InvParts

(* Every call of a table that is followed keeps the invariant.              *)
LEMMA TableStep == Followed /\ [HashNext]_hashvars => Followed'
<1> SUFFICES ASSUME Followed, [HashNext]_hashvars, ~spoilt' PROVE TableInv'
  BY DEF Followed
<1>1. CASE UNCHANGED hashvars
  <2>1. /\ bucket' = bucket /\ count' = count /\ call' = call /\ rc' = rc /\ value' = value
        /\ found' = found /\ list' = list /\ lost' = lost /\ fault' = fault /\ spoilt' = spoilt
    BY <1>1 DEF hashvars
  <2>2. TableInv
    BY <2>1 DEF Followed
  <2>3. Holding /\ Answered /\ Marks
    BY <2>2, InvParts
  <2>4. Holding'
    BY <2>1, <2>3, Kept DEF table
  <2>5. Answered'
    BY <2>1, <2>3 DEF Answered
  <2>6. /\ lost' \in SUBSET Keys /\ fault' \in BOOLEAN /\ spoilt' \in BOOLEAN
        /\ fault' => call' = <<"copy">> \/ lost' # {}
    BY <2>1, <2>3 DEF Marks
  <2>7. QED
    BY <2>4, <2>5, <2>6, InvAfter
<1>2. ASSUME NEW k \in Keys, \/ hash_get(k) \/ hash_delete(k) \/ hash_key_exists(k)
                             \/ hash_from_odd(k) \/ \E v \in Values : hash_set(k, v)
      PROVE  TableInv'
  <2>1. TableInv
    BY <1>2 DEF Followed, Usable, hash_get, hash_delete, hash_key_exists, hash_from_odd, hash_set
  <2>2. QED
    BY <1>2, <2>1, GetInv, DeleteInv, SetInv, FromOddInv
<1>3. ASSUME NEW k \in Keys, NEW v \in Values, NEW n \in 1..4, NEW mem \in BOOLEAN,
             hash_from_char(k, v, n, mem)
      PROVE  TableInv'
  <2>1. TableInv
    BY <1>3 DEF Followed, Usable, hash_from_char
  <2>2. QED
    BY <1>3, <2>1, FromCharInv
<1>4. ASSUME NEW g \in Given, hash_from_list(g[1], g[2], g[3], g[4]) PROVE TableInv'
  <2>1. TableInv
    BY <1>4 DEF Followed, Usable, hash_from_list
  <2>2. QED
    BY <1>4, <2>1, FromListInv
<1>5. ASSUME NEW v \in Values, hash_value_exists(v) PROVE TableInv'
  <2>1. TableInv
    BY <1>5 DEF Followed, Usable, hash_value_exists
  <2>2. QED
    BY <1>5, <2>1, ValueExistsInv
<1>6. CASE hash_truncate \/ hash_get_keys \/ hash_get_values \/ hash_copy \/ hash_print
  <2>1. TableInv
    BY <1>6 DEF Followed, Usable, hash_truncate, hash_get_keys, hash_get_values, hash_copy,
                hash_print
  <2>2. QED
    BY <1>6, <2>1, TruncateInv, ListsInv, CopyInv, PrintInv
<1>7. ASSUME NEW mem \in BOOLEAN, Reload(mem) PROVE TableInv'
  <2>1. TableInv
    BY <1>7 DEF Followed, Usable, Reload
  <2>2. QED
    BY <1>7, <2>1, ReloadInv
<1>8. QED
  BY <1>1, <1>2, <1>3, <1>4, <1>5, <1>6, <1>7 DEF HashNext

(* The invariant says that the pairs are intact.                            *)
LEMMA InvPairs == Followed => PairsIntact
<1> SUFFICES ASSUME TableInv PROVE PairsIntact
  BY DEF Followed, PairsIntact
<1> DEFINE pairs == UNION {{s} \X (1..(Len(Entries(s)) \div 2)) : s \in Slots}
           key(p) == Entries(p[1])[2 * p[2] - 1]
<1>1. HashTypeOK /\ TableOK(Table) /\ (fault => call = <<"copy">> \/ lost # {}) /\ Even
  BY AlwaysEven DEF TableInv
<1>2. pairs = Places(bucket)
  BY DEF Places, Ent, Entries
<1>3. count = Cardinality(pairs)
  BY <1>1, <1>2 DEF TableOK, Table
<1> HIDE DEF pairs
<1>4. ASSUME NEW p \in pairs
      PROVE  \E n \in Nat : /\ p[1] \in Slots /\ p[2] \in 1..n /\ p = <<p[1], p[2]>>
                            /\ Paired(Entries(p[1]), p[1], n)
  <2>1. PICK s \in Slots : \E i \in 1..(Len(Ent(bucket, s)) \div 2) : p = <<s, i>>
    BY <1>2, <1>4, PlaceIs
  <2>2. PICK i \in 1..(Len(Ent(bucket, s)) \div 2) : p = <<s, i>>
    BY <2>1
  <2>3. PICK n \in Nat : Paired(Entries(s), s, n)
    BY <1>1, TheTable
  <2>4. Ent(bucket, s) = Entries(s)
    BY <1>1, TheTable
  <2>5. Len(Ent(bucket, s)) \div 2 = n
    BY <2>3, <2>4, Halved DEF Paired
  <2>6. QED
    BY <2>2, <2>3, <2>5
<1>5. ASSUME NEW p \in pairs PROVE key(p) \in Keys /\ HashOf[key(p)] = p[1]
  <2>1. PICK n \in Nat : p[2] \in 1..n /\ Paired(Entries(p[1]), p[1], n)
    BY <1>4
  <2>2. QED
    BY <2>1 DEF Paired
<1>6. ASSUME NEW p \in pairs, NEW q \in pairs, key(p) = key(q) PROVE p = q
  <2>1. p[1] = q[1]
    BY <1>5, <1>6
  <2>2. PICK n \in Nat : /\ p[1] \in Slots /\ p[2] \in 1..n /\ p = <<p[1], p[2]>>
                         /\ Paired(Entries(p[1]), p[1], n)
    BY <1>4
  <2>3. PICK m \in Nat : /\ q[1] \in Slots /\ q[2] \in 1..m /\ q = <<q[1], q[2]>>
                         /\ Paired(Entries(q[1]), q[1], m)
    BY <1>4
  <2>4. m = n
    BY <2>1, <2>2, <2>3 DEF Paired
  <2>5. p[2] = q[2]
    BY <1>6, <2>1, <2>2, <2>3, <2>4 DEF Paired
  <2>6. QED
    BY <2>1, <2>2, <2>3, <2>5
<1>7. QED
  BY <1>1, <1>3, <1>5, <1>6 DEF PairsIntact, pairs

(* However keys collide and whichever allocations fail, a table that is not *)
(* spoilt has lists of pairs for buckets, each pair under a key of its own  *)
(* and in the bucket of that key, hash->count is their number, and a NULL   *)
(* pointer is followed by hash_copy or after an update that failed, and     *)
(* never otherwise.                                                         *)
THEOREM PairsStay == HashSpec => []PairsIntact
<1>1. HashInit => Followed
  BY NewInv DEF Followed
<1>2. QED
  BY <1>1, InvPairs, TableStep, PTL DEF HashSpec

-----------------------------------------------------------------------------
(* The values of the keys. *)

(* The value of key k in the buckets B.                                     *)
Look(B, k) ==
  LET b == Ent(B, HashOf[k])
      at == {n \in 1..(Len(b) \div 2) : b[2 * n - 1] = k}
  IN IF at = {} THEN NULL ELSE b[2 * (CHOOSE n \in at : TRUE)]

(* Where the key is, its value stands behind it.                            *)
LEMMA LookFound ==
  ASSUME NEW B, NEW k \in Keys, NEW b, b = Ent(B, HashOf[k]), NEW n, Paired(b, HashOf[k], n),
         NEW i \in 1..n, KeyAt(b, i) = k
  PROVE  Look(B, k) = ValueAt(b, i) /\ Look(B, k) \in Values
<1> USE DEF KeyAt, ValueAt
<1> DEFINE at == {j \in 1..(Len(b) \div 2) : b[2 * j - 1] = k}
<1>1. n \in Nat /\ Len(b) \div 2 = n
  BY Halved DEF Paired
<1>2. Look(B, k) = IF at = {} THEN NULL ELSE b[2 * (CHOOSE j \in at : TRUE)]
  BY DEF Look
<1>3. at = {j \in 1..n : b[2 * j - 1] = k}
  BY <1>1
<1> HIDE DEF at
<1>4. (\A j \in at : j = i) /\ i \in at
  BY <1>3 DEF Paired
<1>5. (CHOOSE j \in at : TRUE) = i
  BY <1>4
<1>6. Look(B, k) = b[2*i]
  BY <1>2, <1>4, <1>5
<1>7. QED
  BY <1>6 DEF Paired

(* Where it is not, there is no value.                                      *)
LEMMA LookNone ==
  ASSUME NEW B, NEW k \in Keys, NEW b, b = Ent(B, HashOf[k]), NEW n, Paired(b, HashOf[k], n),
         \A i \in 1..n : KeyAt(b, i) # k
  PROVE  Look(B, k) = NULL
<1> USE DEF KeyAt
<1> DEFINE at == {j \in 1..(Len(b) \div 2) : b[2 * j - 1] = k}
<1>1. n \in Nat /\ Len(b) \div 2 = n
  BY Halved DEF Paired
<1>2. Look(B, k) = IF at = {} THEN NULL ELSE b[2 * (CHOOSE j \in at : TRUE)]
  BY DEF Look
<1>3. at = {j \in 1..n : b[2 * j - 1] = k}
  BY <1>1
<1> HIDE DEF at
<1>4. QED
  BY <1>2, <1>3

(* No value is NULL.                                                        *)
LEMMA ValueNotNull == \A v \in Values : v # NULL
BY NullAssumption

(* Two buckets with the same pairs for k.                                   *)
LEMMA SameLook ==
  ASSUME NEW B, NEW C, NEW k \in Keys, Ent(B, HashOf[k]) = Ent(C, HashOf[k])
  PROVE  Look(B, k) = Look(C, k)
BY DEF Look

(* hash_set that succeeds changes the value of its key and no other.        *)
LEMMA StoredLook ==
  ASSUME NEW t, TableOK(t), NEW k \in Keys, NEW v \in Values, Storable(k, v), NEW j \in Keys
  PROVE  Look(Stored(t, k, v).bucket, j) = IF j = k THEN v ELSE Look(t.bucket, j)
<1> DEFINE s == HashOf[k]
           b == Ent(t.bucket, s)
           i == Search(b, k)
           c == IF i = 0 THEN b \o <<k, v>> ELSE [b EXCEPT ![i+1] = v]
           C == Stored(t, k, v).bucket
<1>1. s \in Slots /\ (v \in Keys => HashOf[v] # s) /\ HashOf[j] \in Slots
  BY HashAssumption DEF Storable
<1>2. PICK n \in Nat : Paired(b, s, n)
  BY <1>1 DEF TableOK
<1>3. C = [t.bucket EXCEPT ![s] = c] /\ t.bucket \in [Slots -> {NULL} \cup Seq(Strings)]
  BY DEF Stored, Ent, TableOK
<1>4. TableOK(Stored(t, k, v))
  BY StoredOK
<1>5. PICK m \in Nat : Paired(Ent(C, HashOf[j]), HashOf[j], m)
  BY <1>1, <1>4 DEF TableOK
<1> HIDE DEF C
<1>6. CASE HashOf[j] # s
  <2>1. Ent(C, HashOf[j]) = Ent(t.bucket, HashOf[j])
    BY <1>1, <1>3, <1>6 DEF Ent
  <2>2. QED
    BY <1>6, <2>1, SameLook DEF C
<1>7. CASE HashOf[j] = s
  <2>1. b \in Seq(Strings) /\ Len(b) = 2 * n /\ k \in Strings /\ v \in Strings
    BY <1>2 DEF Paired, Strings
  <2>2. c \in Seq(Strings) => Ent(C, s) = c
    BY <1>1, <1>3, ListNotNull DEF Ent
  <2>3. \/ i = 0 /\ \A l \in 1..n : KeyAt(b, l) # k
        \/ \E l \in 1..n : i = 2*l-1 /\ KeyAt(b, l) = k
    BY <1>2, SearchFinds DEF KeyAt
  <2>3a. Paired(b, HashOf[j], n) /\ b = Ent(t.bucket, HashOf[j])
    BY <1>2, <1>7
  <2> HIDE DEF b, i
  <2>4. CASE i = 0 /\ \A l \in 1..n : KeyAt(b, l) # k
    <3>1. c = b \o <<k, v>> /\ c \in Seq(Strings) /\ Len(c) = 2 * (n + 1)
      BY <2>1, <2>4
    <3>2. KeyAt(c, n + 1) = k /\ ValueAt(c, n + 1) = v
      BY <2>1, <3>1 DEF KeyAt, ValueAt
    <3>3. \A l \in 1..n : KeyAt(c, l) = KeyAt(b, l) /\ ValueAt(c, l) = ValueAt(b, l)
      <4>1. \A h \in 1..(2*n) : c[h] = b[h]
        BY <2>1, <3>1
      <4> HIDE DEF c
      <4>2. \A l \in 1..n : 2*l-1 \in 1..(2*n) /\ 2*l \in 1..(2*n)
        OBVIOUS
      <4>3. QED
        BY <4>1, <4>2 DEF KeyAt, ValueAt
    <3> HIDE DEF c
    <3>4. Ent(C, s) = c /\ Paired(c, s, m) /\ m = n + 1
      <4>1. Ent(C, s) = c /\ Paired(c, s, m)
        BY <1>5, <1>7, <2>2, <3>1
      <4>2. QED
        BY <3>1, <4>1 DEF Paired
    <3>5. CASE j = k
      <4>1. PICK l \in 1..m : l = n + 1
        BY <3>4
      <4>2. KeyAt(c, l) = j /\ ValueAt(c, l) = v
        BY <3>2, <3>5, <4>1
      <4>3. Look(C, j) = ValueAt(c, l)
        BY <1>7, <3>4, <4>2, LookFound
      <4>4. QED
        BY <3>5, <4>2, <4>3 DEF C
    <3>6. CASE j # k
      <4>1. ASSUME NEW l \in 1..n, KeyAt(b, l) = j PROVE Look(C, j) = Look(t.bucket, j)
        <5>1. l \in 1..m /\ KeyAt(c, l) = j /\ ValueAt(c, l) = ValueAt(b, l)
          BY <3>3, <3>4, <4>1
        <5>2. Paired(c, HashOf[j], m) /\ c = Ent(C, HashOf[j])
          BY <1>7, <3>4
        <5>2a. Look(C, j) = ValueAt(c, l)
          BY <5>1, <5>2, LookFound
        <5>3. Look(t.bucket, j) = ValueAt(b, l)
          BY <2>3a, <4>1, LookFound
        <5>4. QED
          BY <5>1, <5>2a, <5>3
      <4>2. ASSUME \A l \in 1..n : KeyAt(b, l) # j PROVE Look(C, j) = Look(t.bucket, j)
        <5>1. \A l \in 1..m : KeyAt(c, l) # j
          <6>1. \A l \in 1..m : l = n + 1 \/ l \in 1..n
            BY <3>4
          <6>2. QED
            BY <3>2, <3>3, <3>6, <4>2, <6>1
        <5>2. Look(C, j) = NULL
          BY <1>7, <3>4, <5>1, LookNone
        <5>3. Look(t.bucket, j) = NULL
          BY <2>3a, <4>2, LookNone
        <5>4. QED
          BY <5>2, <5>3
      <4>3. QED
        BY <3>6, <4>1, <4>2 DEF C
    <3>7. QED
      BY <3>5, <3>6
  <2>5. ASSUME NEW h \in 1..n, i = 2*h-1, KeyAt(b, h) = k
        PROVE  Look(C, j) = IF j = k THEN v ELSE Look(t.bucket, j)
    <3>1. i # 0 /\ i + 1 = 2*h /\ 2*h \in 1..Len(b)
      BY <2>1, <2>5
    <3>2. c = [b EXCEPT ![2*h] = v]
      BY <3>1
    <3>3. c \in Seq(Strings) /\ Len(c) = 2 * n /\ \A l \in 1..(2*n) : c[l] = IF l = 2*h THEN v ELSE b[l]
      BY <2>1, <3>1, <3>2, ExceptSeq
    <3> HIDE DEF c
    <3>4. \A l \in 1..n : KeyAt(c, l) = KeyAt(b, l) /\ ValueAt(c, l) = IF l = h THEN v ELSE ValueAt(b, l)
      <4>1. \A l \in 1..n : 2*l-1 \in 1..(2*n) /\ 2*l \in 1..(2*n) /\ 2*l-1 # 2*h /\ (2*l = 2*h <=> l = h)
        OBVIOUS
      <4>2. QED
        BY <3>3, <4>1 DEF KeyAt, ValueAt
    <3>5. Ent(C, s) = c /\ Paired(c, s, m) /\ m = n
      <4>1. Ent(C, s) = c /\ Paired(c, s, m)
        BY <1>5, <1>7, <2>2, <3>3
      <4>2. QED
        BY <3>3, <4>1 DEF Paired
    <3>6. ASSUME NEW l \in 1..n, KeyAt(b, l) = j PROVE Look(C, j) = IF j = k THEN v ELSE Look(t.bucket, j)
      <4>1. Look(C, j) = ValueAt(c, l) /\ Look(t.bucket, j) = ValueAt(b, l)
        <5>1. KeyAt(c, l) = j /\ l \in 1..m
          BY <3>4, <3>5, <3>6
        <5>2. Paired(c, HashOf[j], m) /\ c = Ent(C, HashOf[j])
          BY <1>7, <3>5
        <5>2a. Look(C, j) = ValueAt(c, l)
          BY <5>1, <5>2, LookFound
        <5>3. Look(t.bucket, j) = ValueAt(b, l)
          BY <2>3a, <3>6, LookFound
        <5>4. QED
          BY <5>2a, <5>3
      <4>2. l = h <=> j = k
        BY <1>2, <2>5, <3>6 DEF Paired, KeyAt
      <4>3. QED
        BY <3>4, <4>1, <4>2
    <3>7. ASSUME \A l \in 1..n : KeyAt(b, l) # j PROVE Look(C, j) = IF j = k THEN v ELSE Look(t.bucket, j)
      <4>1. j # k
        BY <2>5, <3>7
      <4>2. \A l \in 1..m : KeyAt(c, l) # j
        BY <3>4, <3>5, <3>7
      <4>3. Look(C, j) = NULL
        BY <1>7, <3>5, <4>2, LookNone
      <4>4. Look(t.bucket, j) = NULL
        BY <2>3a, <3>7, LookNone
      <4>5. QED
        BY <4>1, <4>3, <4>4
    <3>8. QED
      BY <3>6, <3>7
  <2>6. QED
    BY <2>3, <2>4, <2>5 DEF C
<1>8. QED
  BY <1>6, <1>7

(* A hash_set that fails to insert changes no value.                        *)
LEMMA FailedLook ==
  ASSUME NEW t, TableOK(t), NEW k \in Keys, ~Has(t, k), NEW v, NEW u \in Failed(t, k, v),
         NEW j \in Keys
  PROVE  Look(u.bucket, j) = Look(t.bucket, j)
<1> DEFINE s == HashOf[k]
           b == Ent(t.bucket, s)
<1>1. s \in Slots /\ HashOf[j] \in Slots /\ t \in [bucket : [Slots -> {NULL} \cup Seq(Strings)], count : Nat]
  BY HashAssumption DEF TableOK
<1>2. PICK n \in Nat : Paired(b, s, n)
  BY <1>1 DEF TableOK
<1>3. b \in Seq(Strings)
  BY <1>2 DEF Paired
<1>4. u = t \/ u = [t EXCEPT !.bucket[s] = b] \/ u = [t EXCEPT !.bucket[s] = KeyRemoved(b, k)]
  BY DEF Failed, Ent
<1>5. KeyRemoved(b, k) = b
  BY <1>3, KeyGone
<1>6. u = t \/ u.bucket = [t.bucket EXCEPT ![s] = b]
  BY <1>1, <1>4, <1>5
<1>7. b # NULL
  BY <1>3, ListNotNull
<1>8. Ent(u.bucket, HashOf[j]) = Ent(t.bucket, HashOf[j])
  <2>1. CASE u = t
    BY <2>1
  <2>2. CASE u.bucket = [t.bucket EXCEPT ![s] = b]
    <3>1. CASE HashOf[j] = s
      <4>1. u.bucket[s] = b
        BY <1>1, <2>2
      <4>2. Ent(u.bucket, s) = b
        BY <1>7, <4>1 DEF Ent
      <4>3. QED
        BY <3>1, <4>2
    <3>2. CASE HashOf[j] # s
      <4>1. u.bucket[HashOf[j]] = t.bucket[HashOf[j]]
        BY <1>1, <2>2, <3>2
      <4>2. QED
        BY <4>1 DEF Ent
    <3>3. QED
      BY <3>1, <3>2
  <2>3. QED
    BY <1>6, <2>1, <2>2
<1>9. QED
  BY <1>8, SameLook

(* Empty buckets hold no values.                                            *)
LEMMA EmptyLook ==
  ASSUME NEW B, \A s \in Slots : Ent(B, s) = <<>>, NEW j \in Keys
  PROVE  Look(B, j) = NULL
<1> DEFINE b == Ent(B, HashOf[j])
<1>1. HashOf[j] \in Slots
  BY HashAssumption
<1>2. b = <<>> /\ Len(<<>>) \div 2 = 0
  BY <1>1
<1>3. {n \in 1..(Len(b) \div 2) : b[2 * n - 1] = j} = {}
  BY <1>2
<1>4. QED
  BY <1>3 DEF Look

(* hash_truncate leaves no values.                                          *)
LEMMA EmptiedLook ==
  ASSUME TableOK(Table), NEW j \in Keys
  PROVE  Look(Emptied.bucket, j) = NULL
<1> DEFINE B == [s \in Slots |-> IF bucket[s] = NULL THEN NULL ELSE <<>>]
<1>1. <<>> \in Seq(Strings) /\ <<>> # NULL
  <2>1. <<>> \in Seq(Strings)
    BY EmptySeq
  <2>2. QED
    BY <2>1, ListNotNull
<1>2. \A s \in Slots : Ent(B, s) = <<>>
  BY <1>1 DEF Ent
<1>3. Emptied.bucket = B
  BY DEF Emptied
<1> HIDE DEF B
<1>4. QED
  BY <1>2, <1>3, EmptyLook

(* The search for a key finds its value, in one bucket ...                  *)
LEMMA BucketSearched ==
  ASSUME NEW B, NEW k \in Keys, NEW b, b = Ent(B, HashOf[k]), NEW n, Paired(b, HashOf[k], n)
  PROVE  \/ Search(b, k) = 0 /\ Look(B, k) = NULL
         \/ /\ Search(b, k) # 0 /\ Look(B, k) # NULL
            /\ b[Search(b, k) + 1] = Look(B, k) /\ Look(B, k) \in Values
<1>1. \/ Search(b, k) = 0 /\ \A l \in 1..n : KeyAt(b, l) # k
      \/ \E l \in 1..n : Search(b, k) = 2*l-1 /\ KeyAt(b, l) = k
  BY KeySearched
<1>2. CASE Search(b, k) = 0 /\ \A l \in 1..n : KeyAt(b, l) # k
  BY <1>2, LookNone
<1>3. CASE \E l \in 1..n : Search(b, k) = 2*l-1 /\ KeyAt(b, l) = k
  <2>1. PICK l \in 1..n : Search(b, k) = 2*l-1 /\ KeyAt(b, l) = k
    BY <1>3
  <2>2. (2*l-1) + 1 = 2*l /\ 2*l-1 # 0
    OBVIOUS
  <2>3. KeyAt(b, l) = k
    BY <2>1
  <2>4. Look(B, k) = ValueAt(b, l) /\ Look(B, k) \in Values
    BY <2>3, LookFound
  <2>5. QED
    BY <2>1, <2>2, <2>4, ValueNotNull DEF ValueAt
<1>4. QED
  BY <1>1, <1>2, <1>3

(* ... and in the table.                                                    *)
LEMMA SearchLook ==
  ASSUME TableOK(Table), NEW k \in Keys, NEW b, b = Entries(HashOf[k]), NEW i, i = Search(b, k)
  PROVE  /\ i = 0 <=> Look(bucket, k) = NULL
         /\ i # 0 => /\ i < Len(b) /\ i # Len(b)
                     /\ b[i+1] = Look(bucket, k) /\ Look(bucket, k) \in Values
<1>1. HashOf[k] \in Slots
  BY HashAssumption
<1>2. PICK n \in Nat : Paired(b, HashOf[k], n)
  BY <1>1, TheTable
<1>3. b = Ent(bucket, HashOf[k])
  BY <1>1, TheTable
<1>4. i # 0 => i < Len(b) /\ i # Len(b)
  BY SearchEnds
<1>5. QED
  BY <1>2, <1>3, <1>4, BucketSearched

(* A table has a key if it has a value for it.                              *)
LEMMA HasLook ==
  ASSUME NEW t, TableOK(t), NEW k \in Keys
  PROVE  Has(t, k) <=> Look(t.bucket, k) # NULL
<1> DEFINE b == Ent(t.bucket, HashOf[k])
<1>1. HashOf[k] \in Slots
  BY HashAssumption
<1>2. PICK n \in Nat : Paired(b, HashOf[k], n)
  BY <1>1 DEF TableOK
<1>3. Search(b, k) # 0 <=> Look(t.bucket, k) # NULL
  BY <1>2, BucketSearched
<1>4. CASE t.bucket[HashOf[k]] = NULL
  <2>1. b = <<>> /\ ~Has(t, k)
    BY <1>4 DEF Ent, Has
  <2>2. Search(<<>>, k) = 0
    BY DEF Search
  <2>3. QED
    BY <1>3, <2>1, <2>2
<1>5. CASE t.bucket[HashOf[k]] # NULL
  BY <1>3, <1>5 DEF Ent, Has
<1>6. QED
  BY <1>4, <1>5

(* hash_delete takes away the value of its key and no other.                *)
LEMMA RemovedLook ==
  ASSUME TableOK(Table), NEW k \in Keys, NEW s, s = HashOf[k], NEW b, b = Entries(s),
         NEW n \in Nat, NEW m \in 1..n, Paired(b, s, n), KeyAt(b, m) = k, NEW j \in Keys
  PROVE  Look([bucket EXCEPT ![s] = WithoutPair(b, 2*m-1)], j)
           = IF j = k THEN NULL ELSE Look(bucket, j)
<1> DEFINE c == WithoutPair(b, 2*m-1)
           C == [bucket EXCEPT ![s] = c]
           o(i) == Skip(i, m)
<1>1. s \in Slots /\ HashOf[j] \in Slots /\ bucket \in [Slots -> {NULL} \cup Seq(Strings)]
      /\ b = Ent(bucket, s)
  BY HashAssumption, TheTable
<1>2. Paired(c, s, n - 1) /\ c \in Seq(Strings)
  <2>1. Paired(c, s, n - 1)
    BY PairRemoved
  <2> HIDE DEF c
  <2>2. QED
    BY <2>1 DEF Paired
<1>3. Ent(C, s) = c
  BY <1>1, <1>2, ListNotNull DEF Ent
<1>4. HashOf[j] # s => Ent(C, HashOf[j]) = Ent(bucket, HashOf[j])
  BY <1>1 DEF Ent
<1>5. CASE HashOf[j] # s
  BY <1>4, <1>5, SameLook
<1>6. CASE HashOf[j] = s
  <2>1. \A i \in 1..(n-1) : o(i) \in 1..n /\ KeyAt(c, i) = KeyAt(b, o(i)) /\ ValueAt(c, i) = ValueAt(b, o(i))
    BY PairKept
  <2>2. \A i \in 1..(n-1) : o(i) # m
    BY DEF Skip
  <2>3. \A l \in 1..n : l # m => \E i \in 1..(n-1) : o(i) = l
    <3>1. SUFFICES ASSUME NEW l \in 1..n, l # m PROVE \E i \in 1..(n-1) : o(i) = l
      OBVIOUS
    <3>2. CASE l < m
      <4>1. l \in 1..(n-1) /\ o(l) = l
        BY <3>2 DEF Skip
      <4>2. QED
        BY <4>1
    <3>3. CASE l > m
      <4>1. l - 1 \in 1..(n-1) /\ o(l - 1) = l
        BY <3>3 DEF Skip
      <4>2. QED
        BY <4>1
    <3>4. QED
      BY <3>1, <3>2, <3>3
  <2>4. Paired(c, HashOf[j], n - 1) /\ c = Ent(C, HashOf[j])
        /\ Paired(b, HashOf[j], n) /\ b = Ent(bucket, HashOf[j])
    BY <1>1, <1>2, <1>3, <1>6
  <2>5. \A i, l \in 1..n : KeyAt(b, i) = KeyAt(b, l) => i = l
    BY DEF Paired, KeyAt
  <2>6. PICK q : q = n - 1
    OBVIOUS
  <2> HIDE DEF o, c, C
  <2>7. CASE j = k
    <3>1. \A i \in 1..q : KeyAt(c, i) # j
      BY <2>1, <2>2, <2>5, <2>6, <2>7
    <3>2. Look(C, j) = NULL
      BY <2>4, <2>6, <3>1, LookNone
    <3>3. QED
      BY <2>7, <3>2 DEF C, c
  <2>8. CASE j # k
    <3>1. ASSUME NEW l \in 1..n, KeyAt(b, l) = j PROVE Look(C, j) = Look(bucket, j)
      <4>1. l # m
        BY <2>8, <3>1
      <4>2. PICK i \in 1..q : o(i) = l
        BY <2>3, <2>6, <4>1
      <4>3. KeyAt(c, i) = j /\ ValueAt(c, i) = ValueAt(b, l)
        BY <2>1, <2>6, <3>1, <4>2
      <4>4. Look(C, j) = ValueAt(c, i)
        BY <2>4, <2>6, <4>3, LookFound
      <4>5. Look(bucket, j) = ValueAt(b, l)
        BY <2>4, <3>1, LookFound
      <4>6. QED
        BY <4>3, <4>4, <4>5
    <3>2. ASSUME \A l \in 1..n : KeyAt(b, l) # j PROVE Look(C, j) = Look(bucket, j)
      <4>1. \A i \in 1..q : KeyAt(c, i) # j
        BY <2>1, <2>6, <3>2
      <4>2. Look(C, j) = NULL /\ Look(bucket, j) = NULL
        BY <2>4, <2>6, <3>2, <4>1, LookNone
      <4>3. QED
        BY <4>2
    <3>3. QED
      BY <2>8, <3>1, <3>2 DEF C, c
  <2>9. QED
    BY <2>7, <2>8
<1>7. QED
  BY <1>5, <1>6

-----------------------------------------------------------------------------
(* The keys that hash_get_keys lists. *)

(* The order of the buckets leaves none out.                                *)
LEMMA OrderCovers ==
  LET N == Cardinality(Slots)
  IN /\ N \in Nat /\ Len(Order) = N /\ Order \in [1..N -> Slots]
     /\ \A i, j \in 1..N : Order[i] = Order[j] => i = j
     /\ \A s \in Slots : \E i \in 1..N : Order[i] = s
<1> DEFINE N == Cardinality(Slots)
<1>1. N \in Nat /\ ExistsBijection(1..N, Slots) /\ IsFiniteSet(Slots)
  BY HashAssumption, FS_CardinalityType
<1>2. PICK o : o \in Bijection(1..N, Slots)
  BY <1>1 DEF ExistsBijection
<1>3. o \in [1..N -> Slots] /\ \A i, j \in 1..N : o[i] = o[j] => i = j
  BY <1>2 DEF Bijection, Injection, IsInjective
<1>4. Order \in [1..N -> Slots] /\ \A i, j \in 1..N : Order[i] = Order[j] => i = j
  BY <1>3 DEF Order
<1> HIDE DEF N
<1>5. Len(Order) = N
  BY <1>1, <1>4
<1>6. Order \in Injection(1..N, Slots)
  BY <1>4 DEF Injection, IsInjective
<1>7. Cardinality(1..N) = N
  <2>1. 1 \in Int /\ N \in Int /\ (IF 1 > N THEN 0 ELSE N - 1 + 1) = N
    BY <1>1
  <2>2. Cardinality(1..N) = IF 1 > N THEN 0 ELSE N - 1 + 1
    BY <2>1, FS_Interval
  <2>3. QED
    BY <2>1, <2>2
<1>8. Cardinality(1..N) = Cardinality(Slots)
  BY <1>7 DEF N
<1>9. Order \in Surjection(1..N, Slots)
  BY <1>1, <1>6, <1>8, FS_Injection
<1>10. \A s \in Slots : \E i \in 1..N : Order[i] = s
  BY <1>9 DEF Surjection
<1>11. QED
  BY <1>1, <1>4, <1>5, <1>10 DEF N

(* x lists, once each, the keys of the buckets in S.                        *)
Lists(x, S) ==
  /\ x \in Seq(Strings)
  /\ \A m \in 1..Len(x) : x[m] \in Keys /\ HashOf[x[m]] \in S /\ Look(bucket, x[m]) # NULL
  /\ \A l, m \in 1..Len(x) : x[l] = x[m] => l = m
  /\ \A k \in Keys : HashOf[k] \in S /\ Look(bucket, k) # NULL => \E m \in 1..Len(x) : x[m] = k

(* The keys of one bucket.                                                  *)
LEMMA BucketLists ==
  ASSUME TableOK(Table), NEW s \in Slots
  PROVE  Lists(Halves(Entries(s), 1), {s})
<1> DEFINE b == Entries(s)
           x == Halves(b, 1)
<1>1. PICK n \in Nat : Paired(b, s, n)
  BY TheTable
<1>2. b = Ent(bucket, s)
  BY TheTable
<1>3. b \in Seq(Strings) /\ Len(b) = 2 * n /\ Len(b) \div 2 = n
  BY <1>1, Halved DEF Paired
<1> HIDE DEF b
<1>4. \A i \in 1..n : 2*i-2+1 = 2*i-1 /\ 2*i-1 \in 1..Len(b)
  BY <1>3
<1>5. x = [i \in 1..n |-> KeyAt(b, i)]
  BY <1>3, <1>4 DEF Halves, KeyAt
<1>6. \A i \in 1..n : KeyAt(b, i) \in Keys /\ HashOf[KeyAt(b, i)] = s
  BY <1>1 DEF Paired, KeyAt
<1>7. \A i, j \in 1..n : KeyAt(b, i) = KeyAt(b, j) => i = j
  BY <1>1 DEF Paired, KeyAt
<1>8. x \in Seq(Strings) /\ Len(x) = n /\ \A i \in 1..n : x[i] = KeyAt(b, i)
  <2>1. x \in [1..n -> Strings]
    BY <1>5, <1>6 DEF Strings
  <2>2. \A i \in 1..n : x[i] = KeyAt(b, i)
    BY <1>5
  <2> HIDE DEF x
  <2>3. QED
    BY <2>1, <2>2
<1> HIDE DEF x
<1>9. ASSUME NEW k \in Keys, HashOf[k] = s
      PROVE  Look(bucket, k) # NULL <=> \E i \in 1..n : KeyAt(b, i) = k
  <2>1. b = Ent(bucket, HashOf[k]) /\ Paired(b, HashOf[k], n)
    BY <1>1, <1>2, <1>9
  <2>2. ASSUME NEW i \in 1..n, KeyAt(b, i) = k PROVE Look(bucket, k) # NULL
    BY <2>1, <2>2, LookFound, ValueNotNull
  <2>3. ASSUME \A i \in 1..n : KeyAt(b, i) # k PROVE Look(bucket, k) = NULL
    BY <2>1, <2>3, LookNone
  <2>4. QED
    BY <2>2, <2>3
<1>10. \A m \in 1..n : x[m] \in Keys /\ HashOf[x[m]] = s /\ Look(bucket, x[m]) # NULL
  BY <1>6, <1>8, <1>9
<1>11. \A k \in Keys : HashOf[k] = s /\ Look(bucket, k) # NULL => \E m \in 1..n : x[m] = k
  BY <1>8, <1>9
<1>12. \A l, m \in 1..n : x[l] = x[m] => l = m
  BY <1>7, <1>8
<1>13. Lists(x, {s})
  BY <1>8, <1>10, <1>11, <1>12 DEF Lists
<1>14. QED
  BY <1>13 DEF x, b

(* The keys of more buckets, one list after the other.                      *)
LEMMA ListsJoined ==
  ASSUME NEW x, NEW y, NEW S, NEW T, Lists(x, S), Lists(y, T), S \cap T = {}
  PROVE  Lists(x \o y, S \cup T)
<1> DEFINE z == x \o y
           p == Len(x)
           q == Len(y)
<1>1. /\ x \in Seq(Strings) /\ y \in Seq(Strings) /\ p \in Nat /\ q \in Nat
  BY DEF Lists
<1>2. /\ z \in Seq(Strings) /\ Len(z) = p + q
      /\ \A m \in 1..(p + q) : z[m] = IF m <= p THEN x[m] ELSE y[m - p]
  BY <1>1, ConcatProperties
<1> HIDE DEF z, p, q
<1>3. /\ \A m \in 1..p : m \in 1..(p + q) /\ z[m] = x[m]
      /\ \A m \in 1..q : m + p \in 1..(p + q) /\ z[m + p] = y[m]
  BY <1>1, <1>2
<1>4. \A m \in 1..(p + q) : m \in 1..p \/ \E l \in 1..q : m = l + p
  <2>1. SUFFICES ASSUME NEW m \in 1..(p + q), m \notin 1..p PROVE m - p \in 1..q /\ m = (m - p) + p
    OBVIOUS
  <2>2. QED
    BY <1>1, <2>1
<1>5. \A m \in 1..(p + q) : \/ m \in 1..p /\ z[m] = x[m]
                           \/ \E l \in 1..q : m = l + p /\ z[m] = y[l]
  BY <1>3, <1>4
<1>6. /\ \A m \in 1..p : x[m] \in Keys /\ HashOf[x[m]] \in S /\ Look(bucket, x[m]) # NULL
      /\ \A l, m \in 1..p : x[l] = x[m] => l = m
      /\ \A k \in Keys : HashOf[k] \in S /\ Look(bucket, k) # NULL => \E m \in 1..p : x[m] = k
  BY DEF Lists, p
<1>7. /\ \A m \in 1..q : y[m] \in Keys /\ HashOf[y[m]] \in T /\ Look(bucket, y[m]) # NULL
      /\ \A l, m \in 1..q : y[l] = y[m] => l = m
      /\ \A k \in Keys : HashOf[k] \in T /\ Look(bucket, k) # NULL => \E m \in 1..q : y[m] = k
  BY DEF Lists, q
<1>8. \A m \in 1..(p + q) : z[m] \in Keys /\ HashOf[z[m]] \in S \cup T /\ Look(bucket, z[m]) # NULL
  BY <1>5, <1>6, <1>7
<1>9. ASSUME NEW l \in 1..(p + q), NEW m \in 1..(p + q), z[l] = z[m] PROVE l = m
  <2>1. CASE l \in 1..p /\ z[l] = x[l]
    <3>0. z[m] \in Keys /\ HashOf[z[m]] \in S
      BY <1>6, <1>9, <2>1
    <3>1. m \in 1..p /\ z[m] = x[m]
      <4>1. ASSUME NEW i \in 1..q, z[m] = y[i] PROVE FALSE
        <5>1. HashOf[z[m]] \in T
          BY <1>7, <4>1
        <5>2. QED
          BY <3>0, <5>1
      <4>2. QED
        BY <1>5, <4>1
    <3>2. QED
      BY <1>6, <1>9, <2>1, <3>1
  <2>2. ASSUME NEW i \in 1..q, l = i + p, z[l] = y[i] PROVE l = m
    <3>0. z[m] \in Keys /\ HashOf[z[m]] \in T
      BY <1>7, <1>9, <2>2
    <3>1. PICK j \in 1..q : m = j + p /\ z[m] = y[j]
      <4>1. ASSUME m \in 1..p, z[m] = x[m] PROVE FALSE
        <5>1. HashOf[z[m]] \in S
          BY <1>6, <4>1
        <5>2. QED
          BY <3>0, <5>1
      <4>2. QED
        BY <1>5, <4>1
    <3>2. i = j
      BY <1>7, <1>9, <2>2, <3>1
    <3>3. QED
      BY <2>2, <3>1, <3>2
  <2>3. QED
    BY <1>5, <2>1, <2>2
<1>10. ASSUME NEW k \in Keys, HashOf[k] \in S \cup T, Look(bucket, k) # NULL
       PROVE  \E m \in 1..(p + q) : z[m] = k
  <2>1. CASE HashOf[k] \in S
    <3>1. PICK m \in 1..p : x[m] = k
      BY <1>6, <1>10, <2>1
    <3>2. QED
      BY <1>3, <3>1
  <2>2. CASE HashOf[k] \in T
    <3>1. PICK m \in 1..q : y[m] = k
      BY <1>7, <1>10, <2>2
    <3>2. QED
      BY <1>3, <3>1
  <2>3. QED
    BY <1>10, <2>1, <2>2
<1>11. Lists(z, S \cup T)
  BY <1>2, <1>8, <1>9, <1>10 DEF Lists
<1>12. QED
  BY <1>11 DEF z

(* hash_get_keys lists every key of the table once.                         *)
LEMMA AllKeysListed ==
  ASSUME TableOK(Table)
  PROVE  Lists(EverySecond(1, Order), Slots)
<1> DEFINE N == Len(Order)
           f == CHOOSE h : Gathers(h, 1, Order, N)
           S(n) == {Order[i] : i \in 1..n}
<1>1. /\ N \in Nat /\ \A i \in 1..N : Order[i] \in Slots
      /\ \A i, j \in 1..N : Order[i] = Order[j] => i = j
      /\ \A s \in Slots : \E i \in 1..N : Order[i] = s
  BY OrderCovers
<1>2. Gathers(f, 1, Order, N)
  BY <1>1, GathersExists
<1>3. EverySecond(1, Order) = f[N]
  BY DEF EverySecond, Gathers
<1> HIDE DEF f, N
<1> DEFINE T == {n \in Nat : n <= N => Lists(f[n], S(n))}
<1>4. 0 \in T
  <2>1. f[0] = <<>>
    BY <1>1, <1>2 DEF Gathers
  <2>2. 1..0 = {} /\ S(0) = {}
    OBVIOUS
  <2> DEFINE e == <<>>
  <2>3. e \in Seq(Strings) /\ Len(e) = 0
    BY EmptySeq
  <2> HIDE DEF e
  <2>4. Lists(e, {})
    BY <2>2, <2>3 DEF Lists
  <2>5. QED
    BY <2>1, <2>2, <2>4 DEF e
<1>5. ASSUME NEW n \in T PROVE n + 1 \in T
  <2>1. SUFFICES ASSUME n + 1 <= N PROVE Lists(f[n+1], S(n+1))
    OBVIOUS
  <2>2. /\ n \in Nat /\ n + 1 \in 1..N /\ n + 1 \in 0..N /\ n + 1 # 0 /\ (n + 1) - 1 = n /\ n <= N
        /\ 1..(n+1) = (1..n) \cup {n+1} /\ 1..n \subseteq 1..N /\ n + 1 \notin 1..n
    BY <1>1, <2>1
  <2>3. Lists(f[n], S(n))
    BY <2>2
  <2> DEFINE s == Order[n+1]
  <2>4. f[n+1] = f[n] \o Halves(Entries(s), 1)
    BY <1>2, <2>2 DEF Gathers
  <2>5. s \in Slots
    BY <1>1, <2>2
  <2>6. Lists(Halves(Entries(s), 1), {s})
    BY <2>5, BucketLists
  <2>7. s \notin S(n)
    <3>1. SUFFICES ASSUME NEW i \in 1..n, Order[i] = Order[n+1] PROVE FALSE
      OBVIOUS
    <3>2. i \in 1..N
      BY <2>2
    <3>3. QED
      BY <1>1, <2>2, <3>1, <3>2
  <2>8. S(n+1) = S(n) \cup {s}
    <3>1. \A o : (\E i \in 1..(n+1) : o = Order[i]) <=> (\E i \in 1..n : o = Order[i]) \/ o = Order[n+1]
      BY <2>2
    <3>2. QED
      BY <3>1
  <2> HIDE DEF s, T
  <2>9. S(n) \cap {s} = {}
    BY <2>7
  <2> HIDE DEF S
  <2>10. QED
    BY <2>3, <2>4, <2>6, <2>8, <2>9, ListsJoined
<1>6. T \in SUBSET Nat
  OBVIOUS
<1> HIDE DEF T
<1>7. T = Nat
  BY <1>4, <1>5, <1>6, SetInduction
<1>8. Lists(f[N], S(N))
  <2>1. N \in T /\ N <= N
    BY <1>1, <1>7
  <2> HIDE DEF S
  <2>2. QED
    BY <2>1 DEF T
<1>9. S(N) = Slots
  BY <1>1
<1>10. QED
  BY <1>3, <1>8, <1>9

-----------------------------------------------------------------------------
(* The hash table implements a map. *)

(* The map that buckets stand for.                                          *)
MapOf(B) == [k \in Keys |-> Look(B, k)]

(* It is the map of the refinement, before and after a step.                *)
LEMMA TheMap ==
  /\ [k \in Keys |-> Lookup(k)] = MapOf(bucket)
  /\ [k \in Keys |-> Lookup(k)]' = MapOf(bucket')
<1>1. \A k \in Keys : Lookup(k) = Look(bucket, k)
  BY DEF Lookup, Look, Entries, Ent
<1>2. \A k \in Keys : Lookup(k)' = Look(bucket', k)
  BY DEF Lookup, Look, Entries, Ent
<1>3. QED
  BY <1>1, <1>2 DEF MapOf

(* x lists the elements of D, once each, at the places 1..n.                *)
Enumerates(x, n, D) ==
  /\ n \in Nat /\ \A i \in 1..n : x[i] \in D
  /\ \A i, j \in 1..n : x[i] = x[j] => i = j
  /\ \A d \in D : \E i \in 1..n : x[i] = d

(* The places A are those of the elements in C.                             *)
Matches(A, C, x, n, D) ==
  A \subseteq 1..n /\ C \subseteq D /\ \A i \in 1..n : i \in A <=> x[i] \in C

(* There are as many places as elements.                                    *)
LEMMA SameNumber ==
  ASSUME NEW D, NEW n, NEW x, Enumerates(x, n, D), NEW A, NEW C, Matches(A, C, x, n, D)
  PROVE  Cardinality(A) = Cardinality(C)
<1> DEFINE f == [i \in A |-> x[i]]
<1> USE DEF Matches
<1>1. f \in [A -> C] /\ (\A i, j \in A : f[i] = f[j] => i = j) /\ \A c \in C : \E i \in A : f[i] = c
  BY DEF Enumerates
<1>2. f \in Bijection(A, C)
  <2> HIDE DEF f
  <2>1. f \in Injection(A, C) /\ f \in Surjection(A, C)
    BY <1>1 DEF Injection, IsInjective, Surjection
  <2>2. QED
    BY <2>1 DEF Bijection
<1>3. IsFiniteSet(1..n)
  BY FS_Interval DEF Enumerates
<1>4. IsFiniteSet(A)
  BY <1>3, FS_Subset
<1>5. QED
  BY <1>2, <1>4, FS_Bijection DEF ExistsBijection

(* MapADT counts as this module does.                                       *)
LEMMA MapCounts ==
  ASSUME NEW S
  PROVE  Map!Cardinality(S) = Cardinality(S)
BY DEF Map!Cardinality, Cardinality

(* The lists of keys and of values, element by element.                     *)
LEMMA ListedKeys ==
  ASSUME TableOK(Table), NEW x, x = EverySecond(1, Order), NEW y, y = EverySecond(2, Order)
  PROVE  /\ x \in Seq(Strings) /\ y \in Seq(Strings) /\ Len(x) \in Nat /\ Len(y) = Len(x)
         /\ \A m \in 1..Len(x) : x[m] \in Keys /\ Look(bucket, x[m]) # NULL /\ y[m] = Look(bucket, x[m])
         /\ \A l, m \in 1..Len(x) : x[l] = x[m] => l = m
         /\ \A k \in Keys : Look(bucket, k) # NULL => \E m \in 1..Len(x) : x[m] = k
<1>1. TwoLists(x, y) /\ Lists(x, Slots)
  BY KeysAndValues, AllKeysListed
<1>2. ASSUME NEW m \in 1..Len(x) PROVE y[m] = Look(bucket, x[m])
  <2>1. Besides(x[m], y[m])
    BY <1>1 DEF TwoLists
  <2>2. PICK s \in Slots, n \in Nat : \E i \in 1..n :
          Paired(Entries(s), s, n) /\ x[m] = Entries(s)[2*i-1] /\ y[m] = Entries(s)[2*i]
    BY <2>1 DEF Besides
  <2>3. PICK i \in 1..n :
          Paired(Entries(s), s, n) /\ x[m] = Entries(s)[2*i-1] /\ y[m] = Entries(s)[2*i]
    BY <2>2
  <2>4. x[m] \in Keys /\ HashOf[x[m]] = s
    BY <2>3 DEF Paired
  <2>5. PICK b : b = Entries(s)
    OBVIOUS
  <2>6. b = Ent(bucket, HashOf[x[m]]) /\ Paired(b, HashOf[x[m]], n)
    BY <2>3, <2>4, <2>5, TheTable
  <2>7. KeyAt(b, i) = x[m] /\ ValueAt(b, i) = y[m]
    BY <2>3, <2>5 DEF KeyAt, ValueAt
  <2>8. QED
    BY <2>4, <2>6, <2>7, LookFound
<1>3. \A k \in Keys : HashOf[k] \in Slots
  BY HashAssumption
<1>4. x \in Seq(Strings) /\ y \in Seq(Strings) /\ Len(x) \in Nat /\ Len(y) = Len(x)
  BY <1>1 DEF TwoLists
<1>5. QED
  BY <1>1, <1>2, <1>3, <1>4 DEF Lists

(* The keys that have values.                                               *)
Having(B) == {k \in Keys : Look(B, k) # NULL}

(* They are the keys that are listed.                                       *)
LEMMA KeysEnumerated ==
  ASSUME TableOK(Table), NEW x, x = EverySecond(1, Order)
  PROVE  Enumerates(x, Len(x), Having(bucket)) /\ Len(x) = Cardinality(Having(bucket))
<1>1. Enumerates(x, Len(x), Having(bucket))
  BY ListedKeys DEF Enumerates, Having
<1>2. Cardinality(1..Len(x)) = Cardinality(Having(bucket))
  <2>1. PICK A, D : A = 1..Len(x) /\ D = Having(bucket)
    OBVIOUS
  <2>2. Matches(A, D, x, Len(x), D)
    BY <1>1, <2>1 DEF Enumerates, Matches
  <2>3. QED
    BY <1>1, <2>1, <2>2, SameNumber
<1>3. Cardinality(1..Len(x)) = Len(x)
  BY <1>1, FS_Interval DEF Enumerates
<1>4. QED
  BY <1>1, <1>2, <1>3

(* The keys with a value, in the words of MapADT.                           *)
LEMMA MapDefined == Map!Defined = Having(bucket)
<1>1. Map!Defined = {k \in Keys : MapOf(bucket)[k] # NULL}
  BY TheMap DEF Map!Defined
<1>2. QED
  BY <1>1 DEF MapOf, Having

(* hash_get_keys.                                                           *)
LEMMA KeysRefined ==
  ASSUME TableOK(Table), hash_get_keys
  PROVE  Map!GetKeys
<1> DEFINE x == EverySecond(1, Order)
           D == Having(bucket)
<1>1. call' = <<"get_keys">> /\ rc' = 0 /\ list' = x /\ bucket' = bucket
  BY DEF hash_get_keys, Returns, table
<1>2. Enumerates(x, Len(x), D) /\ Len(x) = Cardinality(D)
  BY KeysEnumerated
<1> HIDE DEF x, D
<1>3. ASSUME NEW v \in Keys \cup Values
      PROVE  Cardinality({i \in 1..Len(x) : x[i] = v}) = Cardinality({k \in D : k = v})
  <2> DEFINE A == {i \in 1..Len(x) : x[i] = v}
             C == {k \in D : k = v}
  <2>1. Matches(A, C, x, Len(x), D)
    BY <1>2 DEF Enumerates, Matches
  <2> HIDE DEF A, C
  <2>2. Cardinality(A) = Cardinality(C)
    BY <1>2, <2>1, SameNumber
  <2>3. QED
    BY <2>2 DEF A, C
<1>4. UNCHANGED [k \in Keys |-> Lookup(k)]
  BY <1>1, TheMap
<1>5. Map!Defined = D
  BY MapDefined DEF D
<1>6. QED
  BY <1>1, <1>2, <1>3, <1>4, <1>5, MapCounts DEF Map!GetKeys, Map!Listed

(* hash_get_values.                                                         *)
LEMMA ValuesRefined ==
  ASSUME TableOK(Table), hash_get_values
  PROVE  Map!GetValues
<1> DEFINE x == EverySecond(1, Order)
           y == EverySecond(2, Order)
           D == Having(bucket)
           M == MapOf(bucket)
<1>1. call' = <<"get_values">> /\ rc' = 0 /\ list' = y /\ bucket' = bucket
  BY DEF hash_get_values, Returns, table
<1>2. Enumerates(x, Len(x), D) /\ Len(x) = Cardinality(D)
  BY KeysEnumerated
<1>3. Len(y) = Len(x) /\ \A m \in 1..Len(x) : x[m] \in Keys /\ y[m] = M[x[m]]
  BY ListedKeys DEF MapOf
<1>4. [k \in Keys |-> Lookup(k)] = M
  BY TheMap
<1> HIDE DEF x, y, D, M
<1>5. ASSUME NEW v \in Keys \cup Values
      PROVE  Cardinality({i \in 1..Len(y) : y[i] = v}) = Cardinality({k \in D : M[k] = v})
  <2> DEFINE A == {i \in 1..Len(y) : y[i] = v}
             C == {k \in D : M[k] = v}
  <2>1. Matches(A, C, x, Len(x), D)
    BY <1>2, <1>3 DEF Enumerates, Matches
  <2> HIDE DEF A, C
  <2>2. Cardinality(A) = Cardinality(C)
    BY <1>2, <2>1, SameNumber
  <2>3. QED
    BY <2>2 DEF A, C
<1>6. UNCHANGED [k \in Keys |-> Lookup(k)]
  BY <1>1, TheMap
<1>7. Map!Defined = D
  BY MapDefined DEF D
<1>8. \A v \in Keys \cup Values :
        Cardinality({i \in 1..Len(y) : y[i] = v})
          = Cardinality({k \in D : [j \in Keys |-> Lookup(j)][k] = v})
  BY <1>4, <1>5
<1>9. QED
  BY <1>1, <1>2, <1>3, <1>6, <1>7, <1>8, MapCounts DEF Map!GetValues, Map!Listed

-----------------------------------------------------------------------------
(* A table filled from pairs, and the steps of the map. *)

(* B holds the first n pairs of p.                                          *)
Filled(B, p, n) ==
  \A j \in Keys : /\ \A m \in 1..n : p[m][1] = j => Look(B, j) = p[m][2]
                  /\ (\A m \in 1..n : p[m][1] # j) => Look(B, j) = NULL

(* One pair more.                                                           *)
LEMMA FilledMore ==
  ASSUME NEW t, TableOK(t), NEW p, NEW n \in Nat, Filled(t.bucket, p, n),
         NEW k \in Keys, NEW v \in Values, Storable(k, v), p[n+1] = <<k, v>>,
         \A m \in 1..n : p[m][1] # k
  PROVE  Filled(Stored(t, k, v).bucket, p, n + 1)
<1> DEFINE C == Stored(t, k, v).bucket
           B == t.bucket
<1>1. \A j \in Keys : Look(C, j) = IF j = k THEN v ELSE Look(B, j)
  BY StoredLook
<1>2. \A m \in 1..(n+1) : m \in 1..n \/ m = n + 1
  OBVIOUS
<1>3. \A m \in 1..n : m \in 1..(n+1)
  OBVIOUS
<1>4. n + 1 \in 1..(n+1) /\ p[n+1][1] = k /\ p[n+1][2] = v
  OBVIOUS
<1>5. \A j \in Keys : /\ \A m \in 1..n : p[m][1] = j => Look(B, j) = p[m][2]
                      /\ (\A m \in 1..n : p[m][1] # j) => Look(B, j) = NULL
  BY DEF Filled
<1> HIDE DEF C, B
<1>6. SUFFICES ASSUME NEW j \in Keys
               PROVE  /\ \A m \in 1..(n+1) : p[m][1] = j => Look(C, j) = p[m][2]
                      /\ (\A m \in 1..(n+1) : p[m][1] # j) => Look(C, j) = NULL
  BY DEF Filled, C
<1>7. ASSUME NEW m \in 1..(n+1), p[m][1] = j PROVE Look(C, j) = p[m][2]
  <2>1. CASE m = n + 1
    BY <1>1, <1>4, <1>7, <2>1
  <2>2. CASE m \in 1..n
    <3>1. j # k
      BY <1>7, <2>2
    <3>2. QED
      BY <1>1, <1>5, <1>7, <2>2, <3>1
  <2>3. QED
    BY <1>2, <2>1, <2>2
<1>8. ASSUME \A m \in 1..(n+1) : p[m][1] # j PROVE Look(C, j) = NULL
  <2>1. j # k /\ \A m \in 1..n : p[m][1] # j
    BY <1>3, <1>4, <1>8
  <2>2. QED
    BY <1>1, <1>5, <2>1
<1>9. QED
  BY <1>7, <1>8

(* A new table filled with pairs of different keys holds these pairs.       *)
LEMMA LoadedFilled ==
  ASSUME NEW p, Admissible(p), \A m, n \in 1..Len(p) : p[m][1] = p[n][1] => m = n
  PROVE  Filled(Loaded(p).bucket, p, Len(p))
<1> DEFINE f == CHOOSE g : Loads(g, p, Len(p))
           N == Len(p)
<1>1. N \in Nat /\ p \in Seq(Items)
  BY DEF Admissible
<1>2. Loads(f, p, N)
  BY <1>1, LoadsExists
<1>3. Loaded(p) = f[N]
  BY DEF Loaded, Loads, Blank
<1> HIDE DEF f
<1> DEFINE T == {n \in Nat : n <= N => TableOK(f[n]) /\ Filled(f[n].bucket, p, n)}
<1>4. 0 \in T
  <2>1. f[0] = Blank
    BY <1>1, <1>2 DEF Loads
  <2> DEFINE B == [s \in Slots |-> NULL]
  <2>2. B \in [Slots -> {NULL} \cup Seq(Strings)] /\ \A s \in Slots : Ent(B, s) = <<>>
    BY DEF Ent
  <2>3. Blank = [bucket |-> B, count |-> 0] /\ Blank.bucket = B
    BY DEF Blank
  <2> HIDE DEF B
  <2>4. TableOK(Blank)
    BY <2>2, <2>3, NoPairs
  <2>5. \A j \in Keys : Look(B, j) = NULL
    BY <2>2, EmptyLook
  <2>6. Filled(B, p, 0)
    BY <2>5 DEF Filled
  <2>7. QED
    BY <2>1, <2>3, <2>4, <2>6
<1>5. ASSUME NEW n \in T PROVE n + 1 \in T
  <2>1. SUFFICES ASSUME n + 1 <= N PROVE TableOK(f[n+1]) /\ Filled(f[n+1].bucket, p, n + 1)
    OBVIOUS
  <2>2. n \in Nat /\ n + 1 \in 1..N /\ n + 1 \in 0..N /\ n + 1 # 0 /\ (n + 1) - 1 = n /\ n <= N
    BY <1>1, <2>1
  <2>3. TableOK(f[n]) /\ Filled(f[n].bucket, p, n)
    BY <2>2
  <2> DEFINE q == p[n+1]
  <2>4. f[n+1] = Stored(f[n], q[1], q[2])
    BY <1>2, <2>2 DEF Loads
  <2>5. q \in Items /\ Storable(q[1], q[2])
    BY <1>1, <2>2, ElementOfSeq DEF Admissible
  <2>6. q[1] \in Keys /\ q[2] \in Values /\ q = <<q[1], q[2]>>
    BY <2>5 DEF Items
  <2>7. \A m \in 1..n : p[m][1] # q[1]
    <3>1. \A m \in 1..n : m \in 1..N /\ m # n + 1
      BY <1>1, <2>2
    <3>2. QED
      BY <2>2, <3>1
  <2>8. PICK k, v : k = q[1] /\ v = q[2]
    OBVIOUS
  <2>9. /\ p[n+1] = <<k, v>> /\ k \in Keys /\ v \in Values /\ Storable(k, v)
        /\ \A m \in 1..n : p[m][1] # k
    BY <2>5, <2>6, <2>7, <2>8
  <2>10. f[n+1] = Stored(f[n], k, v)
    BY <2>4, <2>8
  <2> HIDE DEF q, T
  <2>11. TableOK(Stored(f[n], k, v))
    BY <2>3, <2>9, StoredOK
  <2>12. Filled(Stored(f[n], k, v).bucket, p, n + 1)
    BY <2>2, <2>3, <2>9, FilledMore
  <2>13. QED
    BY <2>10, <2>11, <2>12
<1>6. T \in SUBSET Nat
  OBVIOUS
<1> HIDE DEF T
<1>7. T = Nat
  BY <1>4, <1>5, <1>6, SetInduction
<1>8. N \in T /\ N <= N
  BY <1>1, <1>7
<1>9. QED
  BY <1>3, <1>8 DEF T

(* The table that is read back has every key, with its value reread.        *)
LEMMA ReloadedLook ==
  ASSUME TableOK(Table), NEW j \in Keys, \A n \in 1..Len(Pairs) : Representable(Pairs[n][2])
  PROVE  Look(Loaded(Back(Pairs)).bucket, j)
           = IF Look(bucket, j) = NULL THEN NULL ELSE Reread(Look(bucket, j))
<1> DEFINE x == EverySecond(1, Order)
           y == EverySecond(2, Order)
           p == Back(Pairs)
           B == Loaded(p).bucket
<1>1. /\ Len(x) \in Nat
      /\ \A m \in 1..Len(x) : x[m] \in Keys /\ Look(bucket, x[m]) # NULL /\ y[m] = Look(bucket, x[m])
      /\ \A l, m \in 1..Len(x) : x[l] = x[m] => l = m
      /\ \A k \in Keys : Look(bucket, k) # NULL => \E m \in 1..Len(x) : x[m] = k
  BY ListedKeys
<1>2. Pairs \in Seq(Written) /\ Admissible(Pairs) /\ Admissible(p)
  BY PairsWritten, BackAdmissible
<1>3. Pairs = [n \in 1..Len(x) |-> <<x[n], y[n]>>]
  BY DEF Pairs
<1> HIDE DEF x, y
<1>4. Len(Pairs) = Len(x) /\ Len(p) = Len(x)
  <2>1. Pairs \in Seq(Items)
    BY <1>2 DEF Admissible
  <2>2. Len(p) = Len(Pairs)
    BY <1>2, BackType
  <2>3. DOMAIN Pairs = 1..Len(x) /\ DOMAIN Pairs = 1..Len(Pairs) /\ Len(Pairs) \in Nat
    <3>1. DOMAIN Pairs = 1..Len(x)
      BY <1>3
    <3>2. QED
      BY <2>1, <3>1, LenProperties
  <2>4. QED
    BY <1>1, <2>2, <2>3
<1>5. \A n \in 1..Len(x) : p[n][1] = x[n] /\ p[n][2] = Reread(y[n])
  <2>1. \A n \in 1..Len(x) : Pairs[n][1] = x[n] /\ Pairs[n][2] = y[n]
    BY <1>3
  <2>2. \A n \in 1..Len(x) : p[n] = Again(Pairs[n])
    BY <1>4 DEF Back
  <2> HIDE DEF p
  <2>3. QED
    BY <2>1, <2>2 DEF Again
<1> HIDE DEF p
<1>6. Filled(B, p, Len(x))
  <2>1. \A m, n \in 1..Len(p) : p[m][1] = p[n][1] => m = n
    BY <1>1, <1>4, <1>5
  <2>2. QED
    BY <1>2, <1>4, <2>1, LoadedFilled
<1> HIDE DEF B
<1>7. CASE Look(bucket, j) = NULL
  <2>1. \A m \in 1..Len(x) : p[m][1] # j
    BY <1>1, <1>5, <1>7
  <2>2. QED
    BY <1>6, <1>7, <2>1 DEF Filled, B, p
<1>8. CASE Look(bucket, j) # NULL
  <2>1. PICK m \in 1..Len(x) : x[m] = j
    BY <1>1, <1>8
  <2>2. p[m][1] = j /\ p[m][2] = Reread(Look(bucket, j))
    BY <1>1, <1>5, <2>1
  <2>3. Look(B, j) = Reread(Look(bucket, j))
    BY <1>6, <2>2 DEF Filled
  <2>4. QED
    BY <1>8, <2>3 DEF B, p
<1>9. QED
  BY <1>7, <1>8

(* The map M with another value for k.                                      *)
With(M, k, v) == [M EXCEPT ![k] = v]

(* The map after hash_set.                                                  *)
LEMMA MapStored ==
  ASSUME NEW t, TableOK(t), NEW k \in Keys, NEW v \in Values, Storable(k, v)
  PROVE  MapOf(Stored(t, k, v).bucket) = With(MapOf(t.bucket), k, v)
<1> DEFINE C == Stored(t, k, v).bucket
<1>1. \A j \in Keys : Look(C, j) = IF j = k THEN v ELSE Look(t.bucket, j)
  BY StoredLook
<1> HIDE DEF C
<1>2. MapOf(C) = [MapOf(t.bucket) EXCEPT ![k] = v]
  BY <1>1 DEF MapOf
<1>3. QED
  BY <1>2 DEF C, With

(* The map after a hash_set that fails.                                     *)
LEMMA MapFailed ==
  ASSUME NEW t, TableOK(t), NEW k \in Keys, NEW v, NEW u \in Failed(t, k, v), NEW M,
         M = MapOf(t.bucket)
  PROVE  MapOf(u.bucket) = IF M[k] = NULL THEN M ELSE With(M, k, <<>>)
<1>1. M[k] = Look(t.bucket, k)
  BY DEF MapOf
<1>2. CASE Has(t, k)
  <2>1. u = Stored(t, k, <<>>)
    BY <1>2, FailedUpdate
  <2>2. MapOf(u.bucket) = With(M, k, <<>>)
    BY <2>1, EmptyStorable, MapStored
  <2>3. QED
    BY <1>1, <1>2, <2>2, HasLook
<1>3. CASE ~Has(t, k)
  <2>1. \A j \in Keys : Look(u.bucket, j) = Look(t.bucket, j)
    BY <1>3, FailedLook
  <2>2. MapOf(u.bucket) = M
    BY <2>1 DEF MapOf
  <2>3. QED
    BY <1>1, <1>3, <2>2, HasLook
<1>4. QED
  BY <1>2, <1>3

(* The map after hash_truncate.                                             *)
LEMMA MapEmptied ==
  ASSUME TableOK(Table)
  PROVE  MapOf(Emptied.bucket) = [j \in Keys |-> NULL]
BY EmptiedLook DEF MapOf

(* The map after hash_delete.                                               *)
LEMMA MapRemoved ==
  ASSUME TableOK(Table), NEW k \in Keys, NEW s, s = HashOf[k], NEW b, b = Entries(s),
         NEW n \in Nat, NEW m \in 1..n, Paired(b, s, n), KeyAt(b, m) = k
  PROVE  MapOf(With(bucket, s, WithoutPair(b, 2*m-1))) = With(MapOf(bucket), k, NULL)
<1> DEFINE C == [bucket EXCEPT ![s] = WithoutPair(b, 2*m-1)]
<1>1. \A j \in Keys : Look(C, j) = IF j = k THEN NULL ELSE Look(bucket, j)
  BY RemovedLook
<1> HIDE DEF C
<1>2. MapOf(C) = [MapOf(bucket) EXCEPT ![k] = NULL]
  BY <1>1 DEF MapOf
<1>3. QED
  BY <1>2 DEF C, With

(* The map of the table that the variables take over.                       *)
LEMMA MapBecomes ==
  ASSUME NEW t, Becomes(t)
  PROVE  [j \in Keys |-> Lookup(j)]' = MapOf(t.bucket)
BY TheMap DEF Becomes

(* A key has a value in the map if it has one in the buckets.               *)
LEMMA MapHas ==
  ASSUME NEW k \in Keys
  PROVE  /\ [j \in Keys |-> Lookup(j)][k] = Look(bucket, k)
         /\ k \in Map!Defined <=> Look(bucket, k) # NULL
<1>1. [j \in Keys |-> Lookup(j)] = MapOf(bucket)
  BY TheMap
<1>2. MapOf(bucket)[k] = Look(bucket, k)
  BY DEF MapOf
<1>3. QED
  BY <1>1, <1>2, MapDefined DEF Having

(* hash_get.                                                                *)
LEMMA GetRefined ==
  ASSUME TableOK(Table), NEW k \in Keys, hash_get(k)
  PROVE  Map!Get(k)
<1> DEFINE b == Entries(HashOf[k])
           i == Search(b, k)
<1>1. /\ call' = <<"get", k>> /\ rc' = IF i = 0 THEN -1 ELSE 0
      /\ value' = IF i # 0 /\ i < Len(b) THEN b[i+1] ELSE NULL
      /\ bucket' = bucket
  BY DEF hash_get, Returns, table
<1>2. /\ i = 0 <=> Look(bucket, k) = NULL
      /\ i # 0 => i < Len(b) /\ b[i+1] = Look(bucket, k)
  BY SearchLook
<1> HIDE DEF b, i
<1>3. UNCHANGED [j \in Keys |-> Lookup(j)]
  BY <1>1, TheMap
<1>4. value' = Look(bucket, k) /\ rc' = IF Look(bucket, k) # NULL THEN 0 ELSE -1
  BY <1>1, <1>2
<1>5. QED
  BY <1>1, <1>3, <1>4, MapHas DEF Map!Get

(* hash_key_exists.                                                         *)
LEMMA KeyExistsRefined ==
  ASSUME TableOK(Table), NEW k \in Keys, hash_key_exists(k)
  PROVE  Map!KeyExists(k)
<1>1. call' = <<"key_exists", k>> /\ rc' = 0 /\ found' = Has(Table, k) /\ bucket' = bucket
  BY DEF hash_key_exists, Returns, table
<1>2. Table.bucket = bucket
  BY DEF Table
<1>3. Has(Table, k) <=> Look(bucket, k) # NULL
  BY <1>2, HasLook
<1>4. Has(Table, k) \in BOOLEAN
  BY DEF Has
<1>5. UNCHANGED [j \in Keys |-> Lookup(j)]
  BY <1>1, TheMap
<1>6. found' = (k \in Map!Defined)
  BY <1>1, <1>3, <1>4, MapHas
<1>7. QED
  BY <1>1, <1>5, <1>6 DEF Map!KeyExists

(* hash_set: an update that fails empties the value.                        *)
LEMMA SetRefined ==
  ASSUME TableOK(Table), NEW k \in Keys, NEW v \in Values, hash_set(k, v), ~fault', ~spoilt'
  PROVE  Map!Set(k, v) \/ Map!UpdateEmpties(k, v)
<1> DEFINE c == <<"set", k, v>>
           M == [j \in Keys |-> Lookup(j)]
<1>1. \/ /\ Becomes(Stored(Table, k, v)) /\ spoilt' = ~Storable(k, v)
         /\ call' = c /\ rc' = 0
      \/ /\ \E t \in Failed(Table, k, v) : Becomes(t)
         /\ call' = c /\ rc' = -1
  BY DEF hash_set, Returned, Returns
<1>2. Table.bucket = bucket /\ M = MapOf(bucket) /\ M = MapOf(Table.bucket)
  BY TheMap DEF Table
<1> HIDE DEF c
<1>3. CASE Becomes(Stored(Table, k, v)) /\ spoilt' = ~Storable(k, v) /\ call' = c /\ rc' = 0
  <2>1. Storable(k, v)
    BY <1>3
  <2>2. M' = With(M, k, v)
    BY <1>2, <1>3, <2>1, MapBecomes, MapStored
  <2>3. QED
    BY <1>3, <2>2 DEF Map!Set, c, With
<1>4. ASSUME NEW t \in Failed(Table, k, v), Becomes(t), call' = c, rc' = -1
      PROVE  Map!Set(k, v) \/ Map!UpdateEmpties(k, v)
  <2>1. MapOf(t.bucket) = IF M[k] = NULL THEN M ELSE With(M, k, <<>>)
    BY <1>2, MapFailed
  <2>2. M' = MapOf(t.bucket)
    BY <1>4, MapBecomes
  <2>3. M[k] # NULL => k \in Map!Defined
    BY MapHas
  <2> HIDE DEF M
  <2>4. CASE M[k] = NULL
    BY <1>4, <2>1, <2>2, <2>4 DEF Map!Set, c, M
  <2>5. CASE M[k] # NULL
    BY <1>4, <2>1, <2>2, <2>3, <2>5 DEF Map!UpdateEmpties, c, With, M
  <2>6. QED
    BY <2>4, <2>5
<1>5. QED
  BY <1>1, <1>3, <1>4

(* hash_delete.                                                             *)
LEMMA DeleteRefined ==
  ASSUME TableOK(Table), NEW k \in Keys, hash_delete(k), ~fault'
  PROVE  Map!Delete(k)
<1> DEFINE s == HashOf[k]
           b == Entries(s)
           i == Search(b, k)
<1>1. /\ bucket' = IF i # 0 THEN [bucket EXCEPT ![s] = WithoutPair(b, i)] ELSE bucket
      /\ call' = <<"delete", k>> /\ rc' = IF i = 0 THEN -1 ELSE 0
  BY DEF hash_delete, Returned, Returns
<1>2. /\ i = 0 <=> Look(bucket, k) = NULL
      /\ i # 0 => i < Len(b)
  BY SearchLook
<1>3. s \in Slots
  BY HashAssumption
<1>4. PICK n \in Nat : Paired(b, s, n)
  BY <1>3, TheTable
<1>5. \/ i = 0
      \/ \E m \in 1..n : i = 2*m-1 /\ KeyAt(b, m) = k
  BY <1>4, KeySearched
<1> HIDE DEF b, i
<1>6. [j \in Keys |-> Lookup(j)] = MapOf(bucket) /\ [j \in Keys |-> Lookup(j)]' = MapOf(bucket')
  BY TheMap
<1>7. MapOf(bucket') = [MapOf(bucket) EXCEPT ![k] = NULL]
  <2>1. CASE i = 0
    <3>1. bucket' = bucket /\ Look(bucket, k) = NULL
      BY <1>1, <1>2, <2>1
    <3>2. [MapOf(bucket) EXCEPT ![k] = NULL] = MapOf(bucket)
      BY <3>1 DEF MapOf
    <3>3. QED
      BY <3>1, <3>2
  <2>2. ASSUME NEW m \in 1..n, i = 2*m-1, KeyAt(b, m) = k
        PROVE  MapOf(bucket') = [MapOf(bucket) EXCEPT ![k] = NULL]
    <3>1. i # 0
      BY <2>2
    <3>2. bucket' = With(bucket, s, WithoutPair(b, 2*m-1))
      BY <1>1, <2>2, <3>1 DEF With
    <3>3. MapOf(With(bucket, s, WithoutPair(b, 2*m-1))) = With(MapOf(bucket), k, NULL)
      BY <1>4, <2>2, MapRemoved DEF b
    <3>4. QED
      BY <3>2, <3>3 DEF With
  <2>3. QED
    BY <1>5, <2>1, <2>2
<1>8. rc' = IF k \in Map!Defined THEN 0 ELSE -1
  BY <1>1, <1>2, MapHas
<1>9. QED
  BY <1>1, <1>6, <1>7, <1>8 DEF Map!Delete

(* hash_truncate.                                                           *)
LEMMA TruncateRefined ==
  ASSUME TableOK(Table), hash_truncate
  PROVE  Map!Truncate
<1>1. Becomes(Emptied) /\ call' = <<"truncate">> /\ rc' = 0
  BY DEF hash_truncate, Returned, Returns
<1>2. [j \in Keys |-> Lookup(j)]' = [j \in Keys |-> NULL]
  BY <1>1, MapBecomes, MapEmptied
<1>3. QED
  BY <1>1, <1>2 DEF Map!Truncate

(* hash_copy, of a table that never had a pair.                             *)
LEMMA CopyRefined ==
  ASSUME hash_copy, ~fault'
  PROVE  Map!Copy
<1> DEFINE x == <<>>
<1>1. bucket' = bucket /\ call' = <<"copy">> /\ rc' = 0 /\ list' = x
  BY DEF hash_copy, Returned, Returns, table
<1>2. \A s \in Slots : bucket[s] = NULL
  BY DEF hash_copy
<1>3. \A s \in Slots : Ent(bucket, s) = <<>>
  BY <1>2 DEF Ent
<1>4. \A j \in Keys : Look(bucket, j) = NULL
  BY <1>3, EmptyLook
<1>5. Map!Defined = {}
  BY <1>4, MapDefined DEF Having
<1>6. Len(x) = 0 /\ Cardinality({}) = 0
  BY FS_EmptySet
<1> HIDE DEF x
<1>7. ASSUME NEW v \in Keys \cup Values
      PROVE  Cardinality({i \in 1..Len(x) : x[i] = v}) = Cardinality({k \in {} : k = v})
  <2>1. {i \in 1..Len(x) : x[i] = v} = {}
    BY <1>6
  <2>2. {k \in {} : k = v} = {}
    OBVIOUS
  <2>3. QED
    BY <2>1, <2>2
<1>8. UNCHANGED [k \in Keys |-> Lookup(k)]
  BY <1>1, TheMap
<1>9. QED
  BY <1>1, <1>5, <1>6, <1>7, <1>8, MapCounts DEF Map!Copy, Map!Listed

(* hash_value_exists.                                                       *)
LEMMA ValueExistsRefined ==
  ASSUME TableOK(Table), NEW v \in Values, hash_value_exists(v)
  PROVE  Map!ValueExists(v)
<1> DEFINE x == EverySecond(1, Order)
           y == EverySecond(2, Order)
<1>1. /\ call' = <<"value_exists", v>> /\ rc' = 0 /\ bucket' = bucket
      /\ found' = \E i \in 1..Len(y) : y[i] = v
  BY DEF hash_value_exists, Returns, table
<1>2. /\ Len(y) = Len(x)
      /\ \A m \in 1..Len(x) : x[m] \in Keys /\ Look(bucket, x[m]) # NULL /\ y[m] = Look(bucket, x[m])
      /\ \A k \in Keys : Look(bucket, k) # NULL => \E m \in 1..Len(x) : x[m] = k
  BY ListedKeys
<1> HIDE DEF x, y
<1>3. (\E i \in 1..Len(y) : y[i] = v) <=> \E k \in Having(bucket) : Look(bucket, k) = v
  BY <1>2 DEF Having
<1>4. \A k \in Having(bucket) : k \in Keys
  BY DEF Having
<1>5. (\E k \in Having(bucket) : Look(bucket, k) = v)
        <=> \E k \in Map!Defined : [j \in Keys |-> Lookup(j)][k] = v
  BY <1>4, MapDefined, MapHas
<1>6. found' = (\E k \in Map!Defined : [j \in Keys |-> Lookup(j)][k] = v)
  BY <1>1, <1>3, <1>5
<1>7. UNCHANGED [j \in Keys |-> Lookup(j)]
  BY <1>1, TheMap
<1>8. QED
  BY <1>1, <1>6, <1>7 DEF Map!ValueExists

(* hash_from_char.                                                          *)
LEMMA FromCharRefined ==
  ASSUME TableOK(Table), NEW k \in Keys, NEW v \in Values, NEW n \in 1..4, NEW mem \in BOOLEAN,
         hash_from_char(k, v, n, mem), ~spoilt'
  PROVE  Map!FromChar(k, v, n, mem) \/ (n \in 2..4 /\ Map!ThirdStored(k, v, n))
<1> DEFINE t == Emptied
           none == [j \in Keys |-> NULL]
           M == [j \in Keys |-> Lookup(j)]
           c == <<"from_char", k, v, n, mem>>
<1>1. /\ call' = c
      /\ \/ n < 3 /\ Becomes(t) /\ rc' = -1
         \/ /\ n >= 3 /\ mem /\ Becomes(Stored(t, k, v)) /\ spoilt' = ~Storable(k, v)
            /\ rc' = IF n = 3 THEN 0 ELSE -1
         \/ n >= 3 /\ ~mem /\ (\E u \in Failed(t, k, v) : Becomes(u)) /\ rc' = -1
  BY DEF hash_from_char, Returned, Returns
<1>2. TableOK(t) /\ MapOf(t.bucket) = none /\ none[k] = NULL
  BY EmptiedOK, MapEmptied
<1> HIDE DEF t
<1>3. Map!Nothing = none /\ Map!Only(k, v) = With(none, k, v)
  BY DEF Map!Nothing, Map!Only, With
<1>4. <<>> \in Values
  BY EmptyStorable
<1> HIDE DEF c
<1>5. ASSUME M' = none, rc' = -1, n = 1 \/ ~mem PROVE Map!FromChar(k, v, n, mem)
  <2>1. M' \in {Map!Nothing, Map!Only(k, <<>>)}
    BY <1>3, <1>5
  <2>2. \/ n \in {1, 3} /\ rc' = -1 /\ M' \in {Map!Nothing, Map!Only(k, <<>>)}
        \/ ~mem /\ rc' = -1 /\ M' \in {Map!Nothing, Map!Only(k, <<>>)}
    BY <1>5, <2>1
  <2>3. QED
    BY <1>1, <1>4, <2>2 DEF Map!FromChar, c
<1>6. CASE n < 3 /\ Becomes(t) /\ rc' = -1
  <2>1. M' = none
    BY <1>2, <1>6, MapBecomes
  <2>2. CASE n = 1 \/ ~mem
    BY <1>5, <1>6, <2>1, <2>2
  <2>3. CASE n = 2 /\ mem = TRUE
    <3>1. M' = Map!Nothing
      BY <1>3, <2>1
    <3>2. call' = <<"from_char", k, v, n, TRUE>>
      BY <1>1, <2>3 DEF c
    <3>3. Map!ThirdStored(k, v, n)
      BY <1>6, <2>3, <3>1, <3>2, Zenon DEF Map!ThirdStored
    <3>4. n \in 2..4
      BY <2>3
    <3>5. QED
      BY <3>3, <3>4
  <2>4. n = 1 \/ n = 2
    BY <1>6
  <2>5. mem = TRUE \/ ~mem
    OBVIOUS
  <2>6. QED
    BY <2>2, <2>3, <2>4, <2>5
<1>7. CASE /\ n >= 3 /\ mem /\ Becomes(Stored(t, k, v)) /\ spoilt' = ~Storable(k, v)
           /\ rc' = IF n = 3 THEN 0 ELSE -1
  <2>1. Storable(k, v)
    BY <1>7
  <2>2. M' = Map!Only(k, v)
    BY <1>2, <1>3, <1>7, <2>1, MapBecomes, MapStored
  <2>3. call' = <<"from_char", k, v, n, TRUE>>
    <3>1. mem = TRUE
      BY <1>7
    <3>2. QED
      BY <1>1, <3>1 DEF c
  <2>4. (n = 3 /\ rc' = 0) \/ (n = 4 /\ rc' = -1)
    BY <1>7
  <2>5. Map!ThirdStored(k, v, n)
    BY <2>2, <2>3, <2>4, Zenon DEF Map!ThirdStored
  <2>6. n \in 2..4
    BY <2>4
  <2>7. QED
    BY <2>5, <2>6
<1>8. ASSUME NEW u \in Failed(t, k, v), Becomes(u), rc' = -1, ~mem
      PROVE  Map!FromChar(k, v, n, mem)
  <2>1. M' = none
    <3> HIDE DEF none
    <3>1. MapOf(u.bucket) = none
      BY <1>2, MapFailed
    <3>2. QED
      BY <1>8, <3>1, MapBecomes
  <2>2. rc' = -1 /\ (n = 1 \/ ~mem)
    BY <1>8
  <2>3. QED
    BY ONLY <1>5, <2>1, <2>2, Zenon
<1>9. QED
  BY <1>1, <1>6, <1>7, <1>8

(* hash_from_list of two pairs.                                             *)
LEMMA FromListRefined ==
  ASSUME TableOK(Table), NEW k \in Keys, NEW v \in Values, NEW l \in Keys, NEW w \in Values,
         hash_from_list(k, v, l, w), ~fault', ~spoilt'
  PROVE  Map!KeyFreed(k, v, l, w)
<1> DEFINE t == Table
           one == Stored(t, k, v)
           M == [j \in Keys |-> Lookup(j)]
           N == [M EXCEPT ![k] = v]
           c == <<"from_list", k, v, l, w>>
           B == <<NULL, v, l, w>>
           D == <<k, v, NULL, w>>
<1>1. /\ call' = c
      /\ \/ (\E u \in Failed(t, k, v) : Becomes(u)) /\ rc' = -1 /\ list' = B
         \/ /\ Storable(k, v) /\ Becomes(Stored(one, l, w)) /\ spoilt' = ~Storable(l, w)
            /\ rc' = 0 /\ list' = D
         \/ /\ Storable(k, v) /\ \E u \in Failed(one, l, w) : Becomes(u)
            /\ rc' = -1 /\ list' = D
  BY DEF hash_from_list, Returns
<1>2. TableOK(t) /\ M = MapOf(t.bucket)
  BY TheMap DEF Table
<1> HIDE DEF t
<1>3. ASSUME Storable(k, v) PROVE TableOK(one) /\ N = MapOf(one.bucket)
  <2>1. TableOK(one) /\ MapOf(one.bucket) = With(M, k, v)
    BY <1>2, <1>3, StoredOK, MapStored
  <2>2. QED
    BY <2>1 DEF With
<1> HIDE DEF one, c, B, D
<1>4. ASSUME NEW u \in Failed(t, k, v), Becomes(u), rc' = -1, list' = B
      PROVE  Map!KeyFreed(k, v, l, w)
  <2>1. M' = IF M[k] = NULL THEN M ELSE With(M, k, <<>>)
    BY <1>2, <1>4, MapBecomes, MapFailed
  <2>2. QED
    BY <1>1, <1>4, <2>1 DEF Map!KeyFreed, With, c, B
<1>5. CASE /\ Storable(k, v) /\ Becomes(Stored(one, l, w)) /\ spoilt' = ~Storable(l, w)
           /\ rc' = 0 /\ list' = D
  <2>1. Storable(l, w)
    BY <1>5
  <2>2. TableOK(one) /\ N = MapOf(one.bucket)
    BY <1>3, <1>5
  <2> HIDE DEF N
  <2>3. M' = With(N, l, w)
    BY <1>5, <2>1, <2>2, MapBecomes, MapStored
  <2>4. QED
    BY <1>1, <1>5, <2>3 DEF Map!KeyFreed, With, N, c, D
<1>6. ASSUME Storable(k, v), NEW u \in Failed(one, l, w), Becomes(u), rc' = -1, list' = D
      PROVE  Map!KeyFreed(k, v, l, w)
  <2>1. TableOK(one) /\ N = MapOf(one.bucket)
    BY <1>3, <1>6
  <2> HIDE DEF N
  <2>2. M' = IF N[l] = NULL THEN N ELSE With(N, l, <<>>)
    BY <1>6, <2>1, MapBecomes, MapFailed
  <2>3. QED
    BY <1>1, <1>6, <2>2 DEF Map!KeyFreed, With, N, c, D
<1>7. QED
  BY <1>1, <1>4, <1>5, <1>6

(* hash_from_list of a list that is not one of pairs.                       *)
LEMMA FromOddRefined ==
  ASSUME NEW k \in Keys, hash_from_odd(k)
  PROVE  Map!FromOdd(k)
<1>1. call' = <<"from_odd", k>> /\ rc' = -1 /\ list' = <<k>> /\ bucket' = bucket
  BY DEF hash_from_odd, Returns, table
<1>2. QED
  BY <1>1, TheMap DEF Map!FromOdd

(* hash_print.                                                              *)
LEMMA PrintRefined ==
  ASSUME TableOK(Table), hash_print
  PROVE  Map!Show
<1> DEFINE keys == EverySecond(1, Order)
<1>1. /\ call' = <<"print">> /\ bucket' = bucket
      /\ rc' = IF \E n \in 1..Len(keys) : ~Has(Table, keys[n]) THEN -1 ELSE 0
  BY DEF hash_print, Returned, Returns, table
<1>2. \A m \in 1..Len(keys) : keys[m] \in Keys /\ Look(bucket, keys[m]) # NULL
  BY ListedKeys
<1> HIDE DEF keys
<1>3. Table.bucket = bucket
  BY DEF Table
<1>4. ASSUME NEW n \in 1..Len(keys) PROVE Has(Table, keys[n])
  BY <1>2, <1>3, HasLook
<1>5. rc' = 0
  BY <1>1, <1>4
<1>6. QED
  BY <1>1, <1>5, TheMap DEF Map!Show

(* A table written to a text and read back.                                 *)
LEMMA ReloadRefined ==
  ASSUME TableOK(Table), NEW mem \in BOOLEAN, Reload(mem), ~fault', ~spoilt'
  PROVE  Map!Reload(mem)
<1> DEFINE d == hash_deserialize(hash_serialize(Pairs))
           readable == \A n \in 1..Len(Pairs) : Representable(Pairs[n][2])
           M == [j \in Keys |-> Lookup(j)]
<1>1. /\ call' = <<"reload", mem>>
      /\ \/ /\ mem /\ readable /\ Becomes(IF d.failed THEN Table ELSE Loaded(d.pairs))
            /\ rc' = IF d.failed THEN -1 ELSE 0
         \/ ~mem /\ UNCHANGED table /\ rc' = -1
  BY DEF Reload, Returned, Returns
<1>2. ASSUME readable PROVE d.pairs = Back(Pairs) /\ ~d.failed
  BY <1>2, PairsWritten, TextRead
<1> HIDE DEF d
<1>4. CASE mem = TRUE
  <2> DEFINE B == Loaded(Back(Pairs)).bucket
  <2>1. readable /\ Becomes(Loaded(Back(Pairs))) /\ rc' = 0
    BY <1>1, <1>2, <1>4
  <2>2. M' = MapOf(B)
    BY <2>1, MapBecomes
  <2>3. \A j \in Keys : Look(B, j) = IF Look(bucket, j) = NULL THEN NULL ELSE Reread(Look(bucket, j))
    BY <2>1, ReloadedLook
  <2>4. \A j \in Keys : Look(B, j) = IF j \in Map!Defined THEN Map!EndsLine(M[j]) ELSE NULL
    <3>1. \A u : Map!EndsLine(u) = IF LF \in {u[i] : i \in 1..Len(u)} /\ u[Len(u)] # LF
                                     THEN Append(u, LF) ELSE u
      BY DEF Map!EndsLine
    <3>2. ASSUME NEW u \in Values PROVE Map!EndsLine(u) = Reread(u)
      <4>1. u \in Seq(1..255)
        BY TextAssumption
      <4>2. DOMAIN u = 1..Len(u)
        BY <4>1
      <4>3. QED
        BY <3>1, <4>2 DEF Reread, ToSet, Last
    <3>3. ASSUME NEW j \in Keys, Look(bucket, j) # NULL PROVE Look(bucket, j) \in Values
      BY <3>3, SearchLook
    <3> HIDE DEF B, M
    <3>4. \A j \in Keys : M[j] = Look(bucket, j) /\ (j \in Map!Defined <=> Look(bucket, j) # NULL)
      BY MapHas DEF M
    <3>5. QED
      BY <2>3, <3>2, <3>3, <3>4
  <2> HIDE DEF B
  <2>5. M' = [j \in Keys |-> IF j \in Map!Defined THEN Map!EndsLine(M[j]) ELSE NULL]
    BY <2>2, <2>4 DEF MapOf
  <2>6. QED
    BY <1>1, <1>4, <2>1, <2>5 DEF Map!Reload
<1>5. CASE mem = FALSE
  <2>1. UNCHANGED table /\ rc' = -1
    BY <1>1, <1>5
  <2>2. M' = M
    BY <2>1, TheMap DEF table
  <2>3. QED
    BY <1>1, <1>5, <2>1, <2>2 DEF Map!Reload
<1>6. QED
  BY <1>4, <1>5

(* A new hash table is an empty map.                                        *)
LEMMA NewRefined == HashInit => Map!Init
<1> SUFFICES ASSUME HashInit PROVE Map!Init
  OBVIOUS
<1> DEFINE B == [s \in Slots |-> NULL]
<1>1. \A s \in Slots : Ent(B, s) = <<>>
  BY DEF Ent
<1>2. bucket = B
  BY DEF HashInit
<1> HIDE DEF B
<1>3. \A j \in Keys : Look(bucket, j) = NULL
  BY <1>1, <1>2, EmptyLook
<1>4. [j \in Keys |-> Lookup(j)] = [j \in Keys |-> NULL]
  BY <1>3, TheMap DEF MapOf
<1>5. QED
  BY <1>4 DEF HashInit, Map!Init

(* What a step does to the map.                                             *)
MapStep == Map!Next \/ Map!Departure
Refined == fault' \/ spoilt' \/ MapStep

(* Every call that returns is the call of the map, or a departure from it.  *)
LEMMA StepRefined == Followed /\ [HashNext]_hashvars => [Refined]_(Map!vars)
<1> SUFFICES ASSUME Followed, [HashNext]_hashvars, ~fault', ~spoilt'
             PROVE  MapStep \/ UNCHANGED Map!vars
  BY DEF Refined
<1>1. CASE UNCHANGED hashvars
  <2>1. /\ bucket' = bucket /\ call' = call /\ rc' = rc /\ value' = value
        /\ found' = found /\ list' = list
    BY <1>1 DEF hashvars
  <2>2. UNCHANGED [j \in Keys |-> Lookup(j)]
    BY <2>1, TheMap
  <2>3. QED
    BY <2>1, <2>2 DEF Map!vars
<1>2. ASSUME Usable PROVE TableOK(Table)
  BY <1>2 DEF Followed, TableInv, Usable
<1>3. ASSUME NEW k \in Keys, hash_get(k) \/ hash_delete(k) \/ hash_key_exists(k) \/ hash_from_odd(k)
      PROVE  MapStep
  <2>1. TableOK(Table)
    BY <1>2, <1>3 DEF hash_get, hash_delete, hash_key_exists, hash_from_odd
  <2>2. Map!Get(k) \/ Map!Delete(k) \/ Map!KeyExists(k) \/ Map!FromOdd(k)
    BY <1>3, <2>1, GetRefined, DeleteRefined, KeyExistsRefined, FromOddRefined
  <2>3. QED
    BY <2>2 DEF MapStep, Map!Next
<1>4. ASSUME NEW k \in Keys, NEW v \in Values, hash_set(k, v) PROVE MapStep
  <2>1. TableOK(Table)
    BY <1>2, <1>4 DEF hash_set
  <2>2. Map!Set(k, v) \/ Map!UpdateEmpties(k, v)
    BY <1>4, <2>1, SetRefined
  <2>3. QED
    BY <2>2 DEF MapStep, Map!Next, Map!Departure
<1>5. ASSUME NEW k \in Keys, NEW v \in Values, NEW n \in 1..4, NEW mem \in BOOLEAN,
             hash_from_char(k, v, n, mem)
      PROVE  MapStep
  <2>1. TableOK(Table)
    BY <1>2, <1>5 DEF hash_from_char
  <2>2. Map!FromChar(k, v, n, mem) \/ (n \in 2..4 /\ Map!ThirdStored(k, v, n))
    BY <1>5, <2>1, FromCharRefined
  <2>3. QED
    BY <2>2 DEF MapStep, Map!Next, Map!Departure
<1>6. ASSUME NEW g \in Given, hash_from_list(g[1], g[2], g[3], g[4]) PROVE MapStep
  <2>1. TableOK(Table)
    BY <1>2, <1>6 DEF hash_from_list
  <2>2. g[1] \in Keys /\ g[2] \in Values /\ g[3] \in Keys /\ g[4] \in Values
    BY ListAssumption
  <2>3. Map!KeyFreed(g[1], g[2], g[3], g[4])
    BY <1>6, <2>1, <2>2, FromListRefined
  <2>4. QED
    BY <2>3 DEF MapStep, Map!Departure
<1>7. ASSUME NEW v \in Values, hash_value_exists(v) PROVE MapStep
  <2>1. TableOK(Table)
    BY <1>2, <1>7 DEF hash_value_exists
  <2>2. QED
    BY <1>7, <2>1, ValueExistsRefined DEF MapStep, Map!Next
<1>8. CASE hash_truncate \/ hash_get_keys \/ hash_get_values \/ hash_copy \/ hash_print
  <2>1. TableOK(Table)
    BY <1>2, <1>8 DEF hash_truncate, hash_get_keys, hash_get_values, hash_copy, hash_print
  <2>2. Map!Truncate \/ Map!GetKeys \/ Map!GetValues \/ Map!Copy \/ Map!Show
    BY <1>8, <2>1, TruncateRefined, KeysRefined, ValuesRefined, CopyRefined, PrintRefined
  <2>3. QED
    BY <2>2 DEF MapStep, Map!Next
<1>9. ASSUME NEW mem \in BOOLEAN, Reload(mem) PROVE MapStep
  <2>1. TableOK(Table)
    BY <1>2, <1>9 DEF Reload
  <2>2. QED
    BY <1>9, <2>1, ReloadRefined DEF MapStep, Map!Next
<1>10. QED
  BY <1>1, <1>3, <1>4, <1>5, <1>6, <1>7, <1>8, <1>9 DEF HashNext

(* The hash table implements a map: whichever keys share a bucket and       *)
(* whatever allocation fails, a call that returns and spoils nothing has    *)
(* the effect and the result that the comments of hash.c promise, or is one *)
(* of the departures that MapADT names, and a table survives hash_serialize *)
(* and hash_deserialize.                                                    *)
THEOREM MapImplemented == HashSpec => ImplementsMap
<1>1. HashInit => Map!Init
  BY NewRefined
<1>2. HashInit => Followed
  BY NewInv DEF Followed
<1>3. Followed /\ [HashNext]_hashvars
        => [fault' \/ spoilt' \/ Map!Next \/ Map!Departure]_(Map!vars)
  BY StepRefined DEF Refined, MapStep
<1>4. QED
  BY <1>1, <1>2, <1>3, TableStep, PTL DEF HashSpec, ImplementsMap
=============================================================================
