------------------------------- MODULE NcList -------------------------------
(***************************************************************************)
(* The doubly linked lists of list.c at the level of their pointers: one   *)
(* action per public operation, on a heap of list entries.                 *)
(*                                                                         *)
(* A string is abstracted to a value, and TextOf gives the characters that *)
(* the operations on texts work with.  A call that would follow a NULL or  *)
(* a freed pointer sets fault, and nothing is said about the program after *)
(* that.                                                                   *)
(*                                                                         *)
(* list_unshift and list_merge do not set every prev pointer, and merging  *)
(* an empty list into one that is not loses the tail.  A call that follows *)
(* such a prev pointer, or that loses the tail, is a step of the model and *)
(* sets derailed; as after a fault, nothing is said of the later calls.    *)
(***************************************************************************)
EXTENDS Text, FiniteSets

CONSTANTS
  Entries,   \* the heap cells for list entries (a bound)
  Lists,     \* the list_t objects
  Values,    \* the strings, as numbers in the order strcmp gives them
  NotNumeric,\* the strings that str_to_uint32 rejects
  NumberOf,  \* the number that str_to_uint32 makes of each other string
  TextOf,    \* the characters of each string
  NULL

ASSUME NullAssumption == NULL \notin Entries
ASSUME EntriesAssumption == IsFiniteSet(Entries)
ASSUME ValuesAssumption ==
  Values \subseteq Nat /\ NotNumeric \subseteq Values /\ NumberOf \in [Values -> Nat]
ASSUME TextAssumption ==
  /\ TextOf \in [Values -> Seq((1..255) \ {LF, CR})]
  /\ \A v, w \in Values : TextOf[v] = TextOf[w] => v = w
  /\ \E v \in Values : TextOf[v] = <<>>

VARIABLES
  alloc,     \* the entries that are allocated
  next,      \* list_entry_t.next
  prev,      \* list_entry_t.prev
  value,     \* list_entry_t.value
  head,      \* list.head
  tail,      \* list.tail
  count,     \* list.count
  call,      \* the last call and its arguments
  ret,       \* the value that it stored for the caller: pop, shift and get
  oneway,    \* the lists with prev pointers that were never set
  derailed,  \* a prev pointer that was never set was followed, or a tail lost
  fault      \* an invalid pointer has been followed

vars == <<alloc, next, prev, value, head, tail, count, call, ret, oneway, derailed, fault>>
Flags == {"ascending", "descending"} \X {"lexicographic", "numeric"}
Ptr == Entries \cup {NULL}
Steps == Cardinality(Entries) + 1

(* Pointers lead to entries or are NULL, and counts never go below zero.   *)
TypeOK ==
  /\ alloc \in SUBSET Entries
  /\ next \in [Entries -> Ptr]
  /\ prev \in [Entries -> Ptr]
  /\ value \in [Entries -> Values \cup {NULL}]
  /\ head \in [Lists -> Ptr]
  /\ tail \in [Lists -> Ptr]
  /\ count \in [Lists -> Nat]
  /\ call \in {<<"new">>} \cup ({"pop", "shift", "truncate", "reverse"} \X Lists)
             \cup ({"push", "unshift"} \X Lists \X Values)
             \cup ({"get", "delete"} \X Lists \X (1..Steps))
             \cup ({"copy", "move", "merge", "join_split", "transfer"} \X Lists \X Lists)
             \cup ({"find"} \X Lists \X Values \X BOOLEAN)
             \cup ({"compare"} \X Lists \X Lists \X BOOLEAN)
             \cup ({"from"} \X Lists \X Values \X Values)
             \cup ({"sort", "sort_fails"} \X Lists \X Flags)
  /\ ret \in Values \cup {NULL}
  /\ oneway \in SUBSET Lists
  /\ derailed \in BOOLEAN
  /\ fault \in BOOLEAN

Init ==
  /\ alloc = {}
  /\ next = [e \in Entries |-> NULL]
  /\ prev = [e \in Entries |-> NULL]
  /\ value = [e \in Entries |-> NULL]
  /\ head = [l \in Lists |-> NULL]
  /\ tail = [l \in Lists |-> NULL]
  /\ count = [l \in Lists |-> 0]
  /\ call = <<"new">> /\ ret = NULL
  /\ oneway = {}
  /\ derailed = FALSE /\ fault = FALSE

(* p may be followed. *)
Valid(p) == p \in alloc

(* The entries that a loop from e along the pointers f meets before NULL.  *)
(* A loop that ends meets each entry at most once.                         *)
Walk(e, f) ==
  LET at[i \in 1..Steps] ==
        IF i = 1 THEN e
        ELSE IF at[i-1] = NULL THEN NULL ELSE f[at[i-1]]
      met == {i \in 1..Steps : at[i] # NULL}
  IN  [i \in 1..Cardinality(met) |-> at[i]]

Cells(w) == {w[i] : i \in 1..Len(w)}

(* The loop ends and meets allocated entries only. *)
Sound(w) == Len(w) < Steps /\ Cells(w) \subseteq alloc

Chain(l) == Walk(head[l], next)

-----------------------------------------------------------------------------
(* Nothing is said about calls after these. *)
Usable == ~fault /\ ~derailed

(* The prev pointer of the i-th entry leads to the entry before it. *)
LeadsBack(l, i) ==
  LET c == Chain(l) IN prev[c[i]] = IF i = 1 THEN NULL ELSE c[i - 1]

(* The call c stores v for its caller, and derails if bad. *)
ReturnsOr(c, v, bad) == call' = c /\ ret' = v /\ derailed' = bad
Returns(c, v) == ReturnsOr(c, v, FALSE)

(* free() of the entries in D: their contents are gone. *)
Cleared(f, D) == [e \in Entries |-> IF e \in D THEN NULL ELSE f[e]]

(* list_push, by list_entry_new and list_entry_append *)
Push(l, v) ==
  /\ Usable
  /\ \E e \in Entries \ alloc :
       /\ alloc' = alloc \cup {e}
       /\ value' = [value EXCEPT ![e] = v]
       /\ prev' = [prev EXCEPT ![e] = tail[l]]
       /\ next' = [p \in Entries |-> IF p = tail[l] THEN e ELSE next[p]]
       /\ head' = [head EXCEPT ![l] = IF @ = NULL THEN e ELSE @]
       /\ tail' = [tail EXCEPT ![l] = e]
  /\ count' = [count EXCEPT ![l] = @ + 1]
  /\ fault' = (tail[l] # NULL /\ ~Valid(tail[l]))
  /\ Returns(<<"push", l, v>>, NULL)
  /\ UNCHANGED oneway

(* list_unshift: the prev pointer of the old head is not updated. *)
Unshift(l, v) ==
  /\ Usable
  /\ \E e \in Entries \ alloc :
       /\ alloc' = alloc \cup {e}
       /\ value' = [value EXCEPT ![e] = v]
       /\ next' = [next EXCEPT ![e] = IF count[l] > 0 THEN head[l] ELSE NULL]
       /\ tail' = [tail EXCEPT ![l] = IF count[l] > 0 THEN @ ELSE e]
       /\ head' = [head EXCEPT ![l] = e]
  /\ count' = [count EXCEPT ![l] = @ + 1]
  /\ oneway' = IF count[l] > 0 THEN oneway \cup {l} ELSE oneway
  /\ Returns(<<"unshift", l, v>>, NULL)
  /\ UNCHANGED <<prev, fault>>

(* Mutants: an update of list_entry_delete is missing, or the caller makes *)
(* it again.                                                               *)
PrevKept(e) == prev
CountDownTwice(l) == count' = [count EXCEPT ![l] = @ - 2]

(* The parts of list_entry_delete: the prev pointers and the count. *)
PrevWithout(e) == [p \in Entries |-> IF p = next[e] THEN prev[e] ELSE prev[p]]
CountDown(l) == count' = [count EXCEPT ![l] = @ - 1]

(* list_entry_delete *)
EntryDelete(l, e) ==
  /\ prev' = Cleared(PrevWithout(e), {e})
  /\ next' = Cleared([p \in Entries |-> IF p = prev[e] THEN next[e] ELSE next[p]], {e})
  /\ value' = Cleared(value, {e})
  /\ head' = [head EXCEPT ![l] = IF @ = e THEN next[e] ELSE @]
  /\ tail' = [tail EXCEPT ![l] = IF @ = e THEN prev[e] ELSE @]
  /\ CountDown(l)
  /\ alloc' = alloc \ {e}
  /\ UNCHANGED oneway
  /\ fault' = (\E p \in {e, next[e], prev[e]} \ {NULL} : ~Valid(p))

(* list_pop *)
Pop(l) ==
  /\ Usable
  /\ tail[l] # NULL
  /\ ReturnsOr(<<"pop", l>>, value[tail[l]], ~LeadsBack(l, count[l]))
  /\ EntryDelete(l, tail[l])

(* list_entry_get with a valid offset: the entry, or NULL where it aborts  *)
(* because the list is shorter than its count.  Offsets count from 1 here. *)
EntryGet(l, i) == IF i <= Len(Chain(l)) THEN Chain(l)[i] ELSE NULL

(* Mutant: the value returned is not that of the entry deleted. *)
ShiftReturnsTail(l) ==
  /\ Usable
  /\ count[l] > 0
  /\ Returns(<<"shift", l>>, value[tail[l]])
  /\ EntryDelete(l, head[l])

(* list_shift *)
Shift(l) ==
  /\ Usable
  /\ count[l] > 0
  /\ LET e == EntryGet(l, 1) IN
       IF e = NULL
         THEN /\ fault' = TRUE
              /\ Returns(<<"shift", l>>, NULL)
              /\ UNCHANGED <<alloc, next, prev, value, head, tail, count, oneway>>
         ELSE Returns(<<"shift", l>>, value[e]) /\ EntryDelete(l, e)

(* list_get *)
Get(l, i) ==
  /\ Usable
  /\ i <= count[l]
  /\ LET e == EntryGet(l, i) IN
       /\ fault' = (e = NULL \/ ~(Cells(SubSeq(Chain(l), 1, i)) \subseteq alloc))
       /\ Returns(<<"get", l, i>>, IF e = NULL THEN NULL ELSE value[e])
  /\ UNCHANGED <<alloc, next, prev, value, head, tail, count, oneway>>

(* list_delete: it accepts an offset equal to the count, and then finds no *)
(* entry to delete.                                                        *)
Delete(l, i) ==
  /\ Usable
  /\ i <= count[l] + 1
  /\ LET e == EntryGet(l, i) IN
       \/ /\ e # NULL
          /\ EntryDelete(l, e)
          /\ ReturnsOr(<<"delete", l, i>>, NULL, ~LeadsBack(l, i))
       \/ /\ e = NULL
          /\ fault' = ~Sound(Chain(l))
          /\ Returns(<<"delete", l, i>>, NULL)
          /\ UNCHANGED <<alloc, next, prev, value, head, tail, count, oneway>>

(* list_truncate frees what it meets from the head on. *)
Freed(l) ==
  LET met == Cells(Chain(l)) IN
    /\ next' = Cleared(next, met)
    /\ prev' = Cleared(prev, met)
    /\ value' = Cleared(value, met)
    /\ alloc' = alloc \ met

Truncate(l) ==
  /\ Usable
  /\ Freed(l)
  /\ head' = [head EXCEPT ![l] = NULL]
  /\ tail' = [tail EXCEPT ![l] = NULL]
  /\ count' = [count EXCEPT ![l] = 0]
  /\ fault' = ~Sound(Chain(l))
  /\ oneway' = oneway \ {l}
  /\ Returns(<<"truncate", l>>, NULL)

(* list_reverse swaps the pointers of what it meets from the old tail back.*)
ListReverse(l) ==
  /\ Usable
  /\ LET w == Walk(tail[l], prev) IN
       /\ next' = [e \in Entries |-> IF e \in Cells(w) THEN prev[e] ELSE next[e]]
       /\ prev' = [e \in Entries |-> IF e \in Cells(w) THEN next[e] ELSE prev[e]]
       /\ fault' = ~Sound(w)
  /\ head' = [head EXCEPT ![l] = tail[l]]
  /\ tail' = [tail EXCEPT ![l] = head[l]]
  /\ ReturnsOr(<<"reverse", l>>, NULL, \E i \in 1..count[l] : ~LeadsBack(l, i))
  /\ UNCHANGED <<alloc, value, count, oneway>>

(* Truncate the list d, then push each string of src.  The new entries, n, *)
(* are cells that are free by then; which of them makes no difference.     *)
Refill(d, src) ==
  LET m == Len(src)
      old == Cells(Chain(d))
      free == (Entries \ alloc) \cup old
      n == CHOOSE f \in [1..m -> free] : \A i, j \in 1..m : f[i] = f[j] => i = j
      at(i) == IF i \in 1..m THEN n[i] ELSE NULL
      Fill(f, g(_)) ==
        [e \in Entries |-> IF e \in Cells(n)
                             THEN g(CHOOSE i \in 1..m : n[i] = e)
                             ELSE Cleared(f, old)[e]]
  IN /\ m \in 0..Cardinality(free)
     /\ alloc' = (alloc \ old) \cup Cells(n)
     /\ next' = Fill(next, LAMBDA i : at(i + 1))
     /\ prev' = Fill(prev, LAMBDA i : at(i - 1))
     /\ value' = Fill(value, LAMBDA i : src[i])
     /\ head' = [head EXCEPT ![d] = at(1)]
     /\ tail' = [tail EXCEPT ![d] = at(m)]
     /\ count' = [count EXCEPT ![d] = m]
     /\ oneway' = oneway \ {d}

Elements(l) == LET c == Chain(l) IN [i \in 1..Len(c) |-> value[c[i]]]

(* list_copy *)
Copy(d, s) ==
  /\ Usable
  /\ Refill(d, Elements(s))
  /\ fault' = ~(Sound(Chain(d)) /\ Sound(Chain(s)))
  /\ Returns(<<"copy", d, s>>, NULL)

(* list_from_char, with two strings *)
FromChar(l, v, w) ==
  /\ Usable
  /\ Refill(l, <<v, w>>)
  /\ fault' = ~Sound(Chain(l))
  /\ Returns(<<"from", l, v, w>>, NULL)

(* list_move: truncate the destination and take over the structure. *)
Move(d, s) ==
  /\ Usable
  /\ Freed(d)
  /\ head' = [head EXCEPT ![d] = head[s], ![s] = NULL]
  /\ tail' = [tail EXCEPT ![d] = tail[s], ![s] = NULL]
  /\ count' = [count EXCEPT ![d] = count[s], ![s] = 0]
  /\ oneway' = IF s \in oneway THEN (oneway \cup {d}) \ {s} ELSE oneway \ {d}
  /\ fault' = ~Sound(Chain(d))
  /\ Returns(<<"move", d, s>>, NULL)

(* The test before the swap of two entries, of the strings or of their     *)
(* numbers: str1 and str2 are the strings that were first and second when  *)
(* the pass began.                                                         *)
Rank(v, flags) == IF flags[2] = "numeric" THEN NumberOf[v] ELSE v
OutOfOrder(s, flags) ==
  IF flags[1] = "descending" THEN Rank(s[1], flags) < Rank(s[2], flags)
                             ELSE Rank(s[1], flags) > Rank(s[2], flags)

(* One pass of the inner loop of list_sort over the strings s. *)
SortPass(s, flags) ==
  LET after[i \in 1..Len(s)] ==
        IF i = 1 \/ ~OutOfOrder(s, flags) THEN s
        ELSE [after[i-1] EXCEPT ![i-1] = after[i-1][i], ![i] = after[i-1][i-1]]
  IN  after[Len(s)]

(* list_sort: passes are made until one swaps nothing; with SORT_NUMERIC a *)
(* string that is no number throws, which leaves the list as it then is.   *)
Sort(l, flags) ==
  /\ Usable
  /\ LET c == Chain(l)
         pass[n \in 0..Len(c)] ==
           IF n = 0 THEN Elements(l) ELSE SortPass(pass[n-1], flags)
         Throws(n) == flags[2] = "numeric" /\ {pass[n][1], pass[n][2]} \cap NotNumeric # {}
         Ends(n) == Len(c) < 2 \/ Throws(n) \/ ~OutOfOrder(pass[n], flags)
     IN \E n \in {k \in 0..Len(c) : Ends(k) /\ \A m \in 0..(k - 1) : ~Ends(m)} :
          /\ value' = [e \in Entries |->
                         IF e \in Cells(c)
                           THEN pass[n][CHOOSE i \in 1..Len(c) : c[i] = e]
                           ELSE value[e]]
          /\ Returns(<<IF Len(c) >= 2 /\ Throws(n) THEN "sort_fails" ELSE "sort", l, flags>>,
                     NULL)
  /\ fault' = ~Sound(Chain(l))
  /\ UNCHANGED <<alloc, next, prev, head, tail, count, oneway>>

(* list_merge: the tail of the destination becomes the tail of the source, *)
(* also when the source is empty, and src->head->prev is not updated.      *)
Merge(d, s) ==
  /\ Usable
  /\ head' = [head EXCEPT ![d] = IF count[d] = 0 THEN head[s] ELSE @, ![s] = NULL]
  /\ next' = [e \in Entries |->
                IF count[d] > 0 /\ e = tail[d] THEN head[s] ELSE next[e]]
  /\ tail' = [tail EXCEPT ![d] = tail[s], ![s] = NULL]
  /\ count' = [count EXCEPT ![d] = @ + count[s], ![s] = 0]
  /\ oneway' = IF count[d] > 0 \/ s \in oneway THEN (oneway \cup {d}) \ {s} ELSE oneway
  /\ fault' = (count[d] > 0 /\ ~Valid(tail[d]))
  /\ ReturnsOr(<<"merge", d, s>>, NULL, count[d] > 0 /\ count[s] = 0)
  /\ UNCHANGED <<alloc, prev, value>>

-----------------------------------------------------------------------------
(* The lists as texts. *)
Texts(l) == LET s == Elements(l) IN [i \in 1..Len(s) |-> TextOf[s[i]]]
ValueOf(t) == CHOOSE v \in Values : TextOf[v] = t
ValuesOf(texts) == [i \in 1..Len(texts) |-> ValueOf(texts[i])]

(* str_join with line feeds into a string, and str_split of the string.    *)
(* str_split truncates the destination, as Refill does.                    *)
JoinSplit(d, s) ==
  /\ Usable
  /\ Refill(d, ValuesOf(str_split(str_join(Texts(s), LF), LF)))
  /\ fault' = ~(Sound(Chain(d)) /\ Sound(Chain(s)))
  /\ Returns(<<"join_split", d, s>>, NULL)

(* list_serialize into a string, and list_deserialize of the string. *)
Transfer(d, s) ==
  /\ Usable
  /\ Refill(d, ValuesOf(list_deserialize(list_serialize(Texts(s)))))
  /\ fault' = ~(Sound(Chain(d)) /\ Sound(Chain(s)))
  /\ Returns(<<"transfer", d, s>>, NULL)

(* list_find *)
Find(l, v) ==
  /\ Usable
  /\ fault' = ~Sound(Chain(l))
  /\ Returns(<<"find", l, v, \E e \in Cells(Chain(l)) : value[e] = v>>, NULL)
  /\ UNCHANGED <<alloc, next, prev, value, head, tail, count, oneway>>

(* list_compare with the arguments a, the strings of another list: the     *)
(* first list_get is made before any argument is looked at, and fails on an*)
(* empty list.                                                             *)
Same(l, a) ==
  /\ a = <<>> => count[l] = 0
  /\ count[l] > 0
  /\ \A i \in 1..Len(a) : i <= count[l] /\ value[EntryGet(l, i)] = a[i]
  /\ Len(a) = count[l]
Compare(l, s) ==
  /\ Usable
  /\ fault' = ~Sound(Chain(l))
  /\ Returns(<<"compare", l, s, Same(l, Elements(s))>>, NULL)
  /\ UNCHANGED <<alloc, next, prev, value, head, tail, count, oneway>>

Next ==
  \E l \in Lists :
    \/ \E v \in Values : Push(l, v) \/ Unshift(l, v)
    \/ Pop(l) \/ Shift(l) \/ Truncate(l) \/ ListReverse(l)
    \/ \E i \in 1..Steps : Get(l, i) \/ Delete(l, i)
    \/ \E v, w \in Values : FromChar(l, v, w)
    \/ \E flags \in Flags : Sort(l, flags)
    \/ \E v \in Values : Find(l, v)
    \/ \E s \in Lists \ {l} : \/ Copy(l, s) \/ Move(l, s) \/ Merge(l, s)
                            \/ JoinSplit(l, s) \/ Transfer(l, s) \/ Compare(l, s)

Spec == Init /\ [][Next]_vars

-----------------------------------------------------------------------------
(* Properties. *)

(* The struct's comment calls it a doubly linked list: along the list the  *)
(* prev pointers undo the next pointers, from the head, which has no       *)
(* predecessor, to the tail, and count is the number of entries.  On a     *)
(* oneway list all but the prev pointers are right.                        *)
DoublyLinked ==
  \A l \in Lists :
    LET c == Chain(l) IN
      /\ Sound(c)
      /\ count[l] = Len(c)
      /\ head[l] = IF c = <<>> THEN NULL ELSE c[1]
      /\ tail[l] = IF c = <<>> THEN NULL ELSE c[Len(c)]
      /\ l \notin oneway => \A i \in 1..Len(c) : LeadsBack(l, i)

(* Every allocated entry is on exactly one list: none leaks, none is shared.*)
EntriesOwned ==
  \A e \in alloc :
    \E l \in Lists : /\ e \in Cells(Chain(l))
                     /\ \A m \in Lists \ {l} : e \notin Cells(Chain(m))

(* Until a call derails, the lists are linked as they should be, they share *)
(* the heap without leaks, and no operation has followed a NULL or freed    *)
(* pointer.  Three things derail: list_pop or list_delete of an entry whose *)
(* own prev pointer list_unshift or list_merge left unset, list_reverse of  *)
(* a list with such an entry, and list_merge of an empty list into one that *)
(* is not.                                                                  *)
HeapIntact == derailed \/ (~fault /\ DoublyLinked /\ EntriesOwned)

(* The pointer structure implements sequences: but for the calls that       *)
(* derail, every call has the effect and the result its comment promises,   *)
(* or departs from it in one of the ways that ListADT lists, under the      *)
(* condition stated there.                                                  *)
ADT == INSTANCE ListADT WITH
         None <- NULL,
         Empty <- ValueOf(<<>>),
         list <- [l \in Lists |-> Elements(l)]
ImplementsList ==
  /\ ADT!Init
  /\ [][derailed' \/ ADT!Next \/ ADT!Departure]_<<[l \in Lists |-> Elements(l)], call, ret>>
=============================================================================
