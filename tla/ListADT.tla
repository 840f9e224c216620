------------------------------ MODULE ListADT ------------------------------
(***************************************************************************)
(* The lists that the comments in list.c describe: finite sequences of     *)
(* values, with the operations of a Perl array.                            *)
(***************************************************************************)
EXTENDS Naturals, Sequences, SequencesExt

CONSTANTS Lists, Values, NotNumeric, NumberOf, Empty, None

VARIABLES
  list,   \* the elements of each list
  call,   \* the last call and its arguments
  ret     \* the value that it stored for its caller

Init ==
  /\ list = [l \in Lists |-> <<>>]
  /\ call = <<"new">> /\ ret = None

Returns(c, v) == call' = c /\ ret' = v

(* A call that leaves the sequence s in list l. *)
Set(l, c, s) == Returns(c, None) /\ list' = [list EXCEPT ![l] = s]

Push(l, v)    == Set(l, <<"push", l, v>>, Append(list[l], v))
Unshift(l, v) == Set(l, <<"unshift", l, v>>, <<v>> \o list[l])
Delete(l, i)  == Set(l, <<"delete", l, i>>, RemoveAt(list[l], i))
Truncate(l)   == Set(l, <<"truncate", l>>, <<>>)
ReverseAll(l) == Set(l, <<"reverse", l>>, Reverse(list[l]))
FromChar(l, v, w) == Set(l, <<"from", l, v, w>>, <<v, w>>)
Copy(d, s)    == Set(d, <<"copy", d, s>>, list[s])

Pop(l) ==
  /\ list[l] # <<>>
  /\ Returns(<<"pop", l>>, Last(list[l]))
  /\ list' = [list EXCEPT ![l] = Front(@)]
Shift(l) ==
  /\ list[l] # <<>>
  /\ Returns(<<"shift", l>>, Head(list[l]))
  /\ list' = [list EXCEPT ![l] = Tail(@)]
Get(l, i) == Returns(<<"get", l, i>>, list[l][i]) /\ UNCHANGED list

Move(d, s) ==
  /\ Returns(<<"move", d, s>>, None)
  /\ list' = [list EXCEPT ![d] = list[s], ![s] = <<>>]
Merge(d, s) ==
  /\ Returns(<<"merge", d, s>>, None)
  /\ list' = [list EXCEPT ![d] = @ \o list[s], ![s] = <<>>]

(* A sorted list has the same strings, each in front of those it may       *)
(* precede.  A numeric sort fails when a string is no number, and then the *)
(* list has its strings in any order.                                      *)
Arrangements(s) == {[i \in DOMAIN s |-> s[p[i]]] : p \in Surjection(DOMAIN s, DOMAIN s)}
Rank(v, flags) == IF flags[2] = "numeric" THEN NumberOf[v] ELSE v
MayPrecede(v, w, flags) ==
  IF flags[1] = "descending" THEN Rank(v, flags) >= Rank(w, flags)
                             ELSE Rank(v, flags) <= Rank(w, flags)
Ordered(s, flags) ==
  \A i, j \in 1..Len(s) : i < j => MayPrecede(s[i], s[j], flags)
Sort(l, flags) ==
  \E s \in Arrangements(list[l]) :
    \/ Ordered(s, flags) /\ Set(l, <<"sort", l, flags>>, s)
    \/ /\ flags[2] = "numeric" /\ ToSet(s) \cap NotNumeric # {}
       /\ Set(l, <<"sort_fails", l, flags>>, s)

(* A list that is written as text and read again, as lines or in the form  *)
(* of list_serialize, is the same list.                                    *)
JoinSplit(d, s) == Set(d, <<"join_split", d, s>>, list[s])
Transfer(d, s)  == Set(d, <<"transfer", d, s>>, list[s])

Find(l, v) ==
  Returns(<<"find", l, v, v \in ToSet(list[l])>>, None) /\ UNCHANGED list

Compare(l, s) ==
  /\ Returns(<<"compare", l, s, list[s] = list[l]>>, None)
  /\ UNCHANGED list

Next ==
  \E l \in Lists :
    \/ \E v \in Values : Push(l, v) \/ Unshift(l, v)
    \/ Pop(l) \/ Shift(l) \/ Truncate(l) \/ ReverseAll(l)
    \/ \E i \in 1..Len(list[l]) : Get(l, i) \/ Delete(l, i)
    \/ \E v, w \in Values : FromChar(l, v, w)
    \/ \E flags \in {"ascending", "descending"} \X {"lexicographic", "numeric"} :
         Sort(l, flags)
    \/ \E v \in Values : Find(l, v)
    \/ \E s \in Lists \ {l} : \/ Copy(l, s) \/ Move(l, s) \/ Merge(l, s)
                            \/ JoinSplit(l, s) \/ Transfer(l, s) \/ Compare(l, s)

Spec == Init /\ [][Next]_<<list, call, ret>>

-----------------------------------------------------------------------------
(* Where list.c does something else.  None of these is a step of Next; the *)
(* README quotes the comment or the test that each goes against.           *)

(* A list of more than two strings is only rotated, until its first two    *)
(* strings are in order: the strings compared are not updated (list.c:493).*)
Rotations(s) == {SubSeq(s, k + 1, Len(s)) \o SubSeq(s, 1, k) : k \in 0..Len(s)}
SortRotates(l, flags) ==
  /\ Len(list[l]) > 2
  /\ \E s \in Rotations(list[l]) :
       MayPrecede(s[1], s[2], flags) /\ Set(l, <<"sort", l, flags>>, s)

(* The offset behind the last element is accepted (list.c:832). *)
DeletePastEnd(l) == Set(l, <<"delete", l, Len(list[l]) + 1>>, list[l])

(* No lines are read back as one empty line. *)
NoLines(d, s) ==
  /\ list[s] = <<>>
  /\ Set(d, <<"join_split", d, s>>, <<Empty>>)

(* An empty string is read back as what stands before it (the buffer of    *)
(* str_unescape is not cleared), and a single one is no text at all.       *)
AsWords(s) ==
  IF s = <<Empty>> THEN <<>>
  ELSE [i \in 1..Len(s) |->
          LET full == {j \in 1..i : s[j] # Empty}
          IN  IF full = {} THEN Empty ELSE s[Max(full)]]
EmptyWords(d, s) ==
  /\ Empty \in ToSet(list[s])
  /\ Set(d, <<"transfer", d, s>>, AsWords(list[s]))

(* Two empty lists are not found equal: the first element is fetched before*)
(* any argument is looked at (list.c:549).                                 *)
EmptyUnequal(l, s) ==
  /\ list[l] = <<>> /\ list[s] = <<>>
  /\ Returns(<<"compare", l, s, FALSE>>, None)
  /\ UNCHANGED list

Departure ==
  \E l \in Lists :
    \/ \E flags \in {"ascending", "descending"} \X {"lexicographic", "numeric"} :
         SortRotates(l, flags)
    \/ DeletePastEnd(l)
    \/ \E s \in Lists \ {l} : NoLines(l, s) \/ EmptyWords(l, s) \/ EmptyUnequal(l, s)
=============================================================================
