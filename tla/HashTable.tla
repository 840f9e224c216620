----------------------------- MODULE HashTable -----------------------------
(***************************************************************************)
(* The hash table of hash.c.  A bucket is a list in which keys and values  *)
(* take turns, and the search for a key compares it with every entry of    *)
(* the list, the values included.  Keys and values are strings; a value    *)
(* may be equal to a key.  The hash function is any function from keys to  *)
(* buckets.                                                                *)
(*                                                                         *)
(* An update that runs out of memory has freed the old value already and   *)
(* leaves a string without a buffer, whose key is then in lost: copied, it *)
(* is the empty string; compared, it is a NULL pointer that is followed.   *)
(* The model goes on until a call follows one (fault) or leaves a table    *)
(* that it does not follow further (spoilt): one in which a value equals a *)
(* key of its bucket, so that searches take the value for the key; one of  *)
(* which hash_serialize has freed an entry; one read from a text that does *)
(* not represent its values.                                               *)
(***************************************************************************)
EXTENDS Text, FiniteSets

CONSTANTS
  Keys,        \* the keys the program uses
  Values,      \* the values it stores
  Given,       \* the lists of two pairs that it converts
  Slots,       \* the buckets
  HashOf,      \* hash_function, as a function from Keys to Slots
  NULL,        \* the bucket does not exist; also: no value, or a string that is freed
  MaxCount     \* the number of pairs the table may hold (a bound)

(* A value of one line, or of two, the second not empty: the text marks    *)
(* only the first line feed, and an empty line is skipped.                 *)
Representable(v) ==
  LET lf == {i \in 1..Len(v) : v[i] = LF} IN
    /\ CR \notin ToSet(v) /\ BACKSLASH \notin ToSet(v)
    /\ lf = {} \/ \E i \in lf : i < Len(v) /\ i + 1 \notin lf /\ lf \subseteq {i, Len(v)}

(* What a value is after hash_serialize and hash_deserialize. *)
Reread(v) ==
  IF LF \in ToSet(v) /\ Last(v) # LF THEN Append(v, LF) ELSE v

ASSUME TextAssumption ==
  /\ Keys \subseteq Seq(KeyChars) \ {<<>>}
  /\ Values \subseteq Seq(1..255) /\ <<>> \in Values
  /\ \A v \in Values : Representable(v) => Reread(v) \in Values
ASSUME ListAssumption == Given \subseteq Keys \X Values \X Keys \X Values
ASSUME HashAssumption == HashOf \in [Keys -> Slots] /\ IsFiniteSet(Slots)
ASSUME NullAssumption == NULL \notin Keys \cup Values \cup Seq(Keys \cup Values)
ASSUME CountAssumption == MaxCount \in Nat

VARIABLES
  bucket,   \* hash->bucket
  count,    \* hash->count
  call,     \* the last call and its arguments
  rc,       \* its return value
  value,    \* the string that it stored, if it is hash_get
  found,    \* the answer that it gave, if it is an existence test
  list,     \* the list that it stored, if it is hash_get_keys or _values; the keys of
            \* the copy, if it is hash_copy; its argument, if it is hash_from_list
  lost,     \* the keys whose value has no buffer
  fault,    \* a NULL pointer has been followed
  spoilt    \* the table is one that the model does not follow further

hashvars == <<bucket, count, call, rc, value, found, list, lost, fault, spoilt>>
table == <<bucket, count>>

Strings == Keys \cup Values

HashTypeOK ==
  /\ bucket \in [Slots -> {NULL} \cup Seq(Strings)]
  /\ count \in 0..MaxCount
  /\ call \in {<<"new">>, <<"truncate">>, <<"get_keys">>, <<"get_values">>, <<"copy">>,
               <<"print">>}
             \cup ({"reload"} \X BOOLEAN)
             \cup ({"get", "delete", "key_exists", "from_odd"} \X Keys)
             \cup ({"value_exists"} \X Values) \cup ({"set"} \X Keys \X Values)
             \cup ({"from_char"} \X Keys \X Values \X (1..4) \X BOOLEAN)
             \cup {<<"from_list", g[1], g[2], g[3], g[4]>> : g \in Given}
  /\ rc \in {0, -1}
  /\ value \in Values \cup {NULL}
  /\ found \in BOOLEAN
  /\ list \in Seq(Strings \cup {NULL})
  /\ lost \subseteq Keys
  /\ fault \in BOOLEAN /\ spoilt \in BOOLEAN

(* hash_new *)
HashInit ==
  /\ bucket = [s \in Slots |-> NULL]
  /\ count = 0
  /\ call = <<"new">> /\ rc = 0
  /\ value = NULL /\ found = FALSE /\ list = <<>>
  /\ lost = {} /\ fault = FALSE /\ spoilt = FALSE

(* The calls that are modelled. *)
Usable == ~fault /\ ~spoilt

-----------------------------------------------------------------------------
(* The end of call c: what it returns, and what it stores for the caller.  *)
Returns(c, r, v, f, l) ==
  call' = c /\ rc' = r /\ value' = v /\ found' = f /\ list' = l
Returned(c, r) == Returns(c, r, NULL, FALSE, <<>>)

(* The entries of a bucket; none if it does not exist. *)
Entries(s) == IF bucket[s] = NULL THEN <<>> ELSE bucket[s]

(* The search for a key in a bucket: the position of the first entry equal *)
(* to it, 0 if there is none.                                              *)
Search(b, k) ==
  IF \E i \in 1..Len(b) : b[i] = k
    THEN CHOOSE i \in 1..Len(b) : b[i] = k /\ \A j \in 1..(i-1) : b[j] # k
    ELSE 0

(* Mutant: the failed insertion leaves the key behind. *)
KeyKept(b, k) == Append(b, k)

(* What the bucket is after list_push of the key and a failing list_push   *)
(* of the value: the tail, which is the key, is deleted.                   *)
KeyRemoved(b, k) == LET c == Append(b, k) IN SubSeq(c, 1, Len(c) - 1)

(* hash->count after hash_set found its key at position i, or did not. *)
Counted(n, i) == IF i = 0 THEN n + 1 ELSE n

(* No key of the bucket that v goes to with key k is equal to v. *)
Storable(k, v) == v \in Keys => HashOf[v] # HashOf[k]

(* The table as one value, and the table after a hash_set that succeeds. *)
Table == [bucket |-> bucket, count |-> count]
Stored(t, k, v) ==
  LET s == HashOf[k]
      b == IF t.bucket[s] = NULL THEN <<>> ELSE t.bucket[s]
      i == Search(b, k)
  IN [bucket |-> [t.bucket EXCEPT ![s] = IF i = 0 THEN b \o <<k, v>> ELSE [b EXCEPT ![i+1] = v]],
      count  |-> Counted(t.count, i)]
Becomes(t) == t.count <= MaxCount /\ bucket' = t.bucket /\ count' = t.count

(* What a hash_set leaves of table t when memory runs out.  An insertion   *)
(* fails with the bucket, the key's entry or the value's entry; an update  *)
(* fails with the copy of a value that is not empty, and the old value is  *)
(* gone (and the key lost).                                                *)
Has(t, k) == t.bucket[HashOf[k]] # NULL /\ Search(t.bucket[HashOf[k]], k) # 0
Failed(t, k, v) ==
  LET s == HashOf[k]
      b == IF t.bucket[s] = NULL THEN <<>> ELSE t.bucket[s]
  IN IF Has(t, k) THEN {u \in {Stored(t, k, <<>>)} : v # <<>>}
     ELSE {t} \cup {[t EXCEPT !.bucket[s] = c] : c \in {b, KeyRemoved(b, k)}}

(* The keys whose values are lost after a hash_set that fails, and after   *)
(* one that succeeds: copying an empty string allocates nothing.           *)
Losing(gone, t, k) == IF Has(t, k) THEN gone \cup {k} ELSE gone
Mended(gone, k, v) == IF v = <<>> THEN gone ELSE gone \ {k}

(* The search for k in table t meets a value that is lost, or the key is   *)
(* found in the last entry and cur->next is NULL.                          *)
Blocked(t, gone, k) ==
  LET b == IF t.bucket[HashOf[k]] = NULL THEN <<>> ELSE t.bucket[HashOf[k]]
      i == Search(b, k)
  IN \/ i # 0 /\ i = Len(b)
     \/ \E p \in 1..(Len(b) - 1) : p % 2 = 1 /\ b[p] \in gone /\ (i = 0 \/ p + 1 < i)

hash_set(k, v) ==
  /\ Usable
  /\ \/ /\ Blocked(Table, lost, k)
        /\ fault' = TRUE /\ UNCHANGED <<table, lost, spoilt>>
        /\ Returned(<<"set", k, v>>, 0)
     \/ /\ ~Blocked(Table, lost, k)
        /\ Becomes(Stored(Table, k, v))
        /\ lost' = Mended(lost, k, v) /\ spoilt' = ~Storable(k, v) /\ UNCHANGED fault
        /\ Returned(<<"set", k, v>>, 0)
     \/ /\ ~Blocked(Table, lost, k)
        /\ \E t \in Failed(Table, k, v) : Becomes(t)
        /\ lost' = Losing(lost, Table, k) /\ UNCHANGED <<fault, spoilt>>
        /\ Returned(<<"set", k, v>>, -1)

hash_get(k) ==
  /\ Usable
  /\ LET b == Entries(HashOf[k])
         i == Search(b, k)
     IN Returns(<<"get", k>>, IF i = 0 THEN -1 ELSE 0,
                IF i # 0 /\ i < Len(b) THEN b[i+1] ELSE NULL, FALSE, <<>>)
  /\ fault' = Blocked(Table, lost, k)
  /\ UNCHANGED <<table, lost, spoilt>>

(* Mutant: the pair deleted is the first one. *)
FirstPairRemoved(b, i) == SubSeq(b, 3, Len(b))

(* The bucket without the entry at position i and the one after it. *)
WithoutPair(b, i) == SubSeq(b, 1, i - 1) \o SubSeq(b, i + 2, Len(b))

hash_delete(k) ==
  /\ Usable
  /\ LET s == HashOf[k]
         b == Entries(s)
         i == Search(b, k)
         there == i # 0 /\ ~Blocked(Table, lost, k)
     IN /\ bucket' = IF there THEN [bucket EXCEPT ![s] = WithoutPair(b, i)] ELSE bucket
        /\ count' = IF there THEN count - 1 ELSE count
        /\ lost' = IF there THEN lost \ {k} ELSE lost
        /\ Returned(<<"delete", k>>, IF i = 0 THEN -1 ELSE 0)
  /\ fault' = Blocked(Table, lost, k)
  /\ UNCHANGED spoilt

(* The table after hash_truncate. *)
Emptied == [bucket |-> [s \in Slots |-> IF bucket[s] = NULL THEN NULL ELSE <<>>],
            count  |-> 0]

hash_truncate ==
  /\ Usable
  /\ Becomes(Emptied) /\ lost' = {}
  /\ Returned(<<"truncate">>, 0)
  /\ UNCHANGED <<fault, spoilt>>

(* hash_key_exists asks hash_get, with a string of its own. *)
hash_key_exists(k) ==
  /\ Usable
  /\ Returns(<<"key_exists", k>>, 0, NULL, Has(Table, k), <<>>)
  /\ fault' = Blocked(Table, lost, k)
  /\ UNCHANGED <<table, lost, spoilt>>

(* The buckets one after the other, every second entry of each from the    *)
(* first entry (hash_get_keys) or the second (hash_get_values) on.         *)
Halves(b, from) == [n \in 1..(Len(b) \div 2) |-> b[2 * n - 2 + from]]
EverySecond(from, order) ==
  LET upto[n \in 0..Len(order)] ==
        IF n = 0 THEN <<>> ELSE upto[n-1] \o Halves(Entries(order[n]), from)
  IN  upto[Len(order)]

(* An order of the buckets. *)
Order == CHOOSE o \in [1..Cardinality(Slots) -> Slots] :
           \A i, j \in 1..Cardinality(Slots) : o[i] = o[j] => i = j

(* The walk ent->next->next ends in all buckets. *)
Even == \A s \in Slots : Len(Entries(s)) % 2 = 0

hash_get_keys ==
  /\ Usable
  /\ fault' = ~Even
  /\ Returns(<<"get_keys">>, 0, NULL, FALSE, EverySecond(1, Order))
  /\ UNCHANGED <<table, lost, spoilt>>

hash_get_values ==
  /\ Usable
  /\ fault' = ~Even
  /\ Returns(<<"get_values">>, 0, NULL, FALSE, EverySecond(2, Order))
  /\ UNCHANGED <<table, lost, spoilt>>

(* hash_get_values into a list of its own, and list_find *)
hash_value_exists(v) ==
  /\ Usable
  /\ fault' = ~Even
  /\ LET l == EverySecond(2, Order) IN
       Returns(<<"value_exists", v>>, 0, NULL, \E i \in 1..Len(l) : l[i] = v, <<>>)
  /\ UNCHANGED <<table, lost, spoilt>>

(* hash_copy to a new hash table: the buckets of the copy are NULL, and    *)
(* list_copy is called on them.  Of a table without buckets, the copy has  *)
(* none either, and no keys.                                               *)
hash_copy ==
  /\ Usable
  /\ fault' = (\E s \in Slots : bucket[s] # NULL)
  /\ Returned(<<"copy">>, 0)
  /\ UNCHANGED <<table, lost, spoilt>>

(* hash_from_char with n arguments, of which k is the first and v, if n is *)
(* 3 or more, the third: the loop reads a second value before it stores the*)
(* first pair, and then needs no further argument or two.                  *)
hash_from_char(k, v, n, mem) ==
  /\ Usable
  /\ \/ /\ n < 3
        /\ Becomes(Emptied) /\ UNCHANGED spoilt
        /\ Returned(<<"from_char", k, v, n, mem>>, -1)
     \/ /\ n >= 3 /\ mem
        /\ Becomes(Stored(Emptied, k, v)) /\ spoilt' = ~Storable(k, v)
        /\ Returned(<<"from_char", k, v, n, mem>>, IF n = 3 THEN 0 ELSE -1)
     \/ /\ n >= 3 /\ ~mem
        /\ \E t \in Failed(Emptied, k, v) : Becomes(t)
        /\ Returned(<<"from_char", k, v, n, mem>>, -1) /\ UNCHANGED spoilt
  /\ lost' = {}
  /\ UNCHANGED fault

(* hash_from_list of two pairs: one hash_set after the other, the first of *)
(* which may fail.  The string that held the last key used is destroyed    *)
(* with the automatic variable key, and the caller's list still has it.    *)
hash_from_list(k, v, l, w) ==
  LET one == Stored(Table, k, v)
      gone == Mended(lost, k, v)
      Ends(r, args) == Returns(<<"from_list", k, v, l, w>>, r, NULL, FALSE, args)
  IN /\ Usable
     /\ \/ /\ Blocked(Table, lost, k)
           /\ fault' = TRUE /\ UNCHANGED <<table, lost, spoilt>>
           /\ Ends(0, <<k, v, l, w>>)
        \/ /\ ~Blocked(Table, lost, k)
           /\ \E t \in Failed(Table, k, v) : Becomes(t)
           /\ lost' = Losing(lost, Table, k) /\ UNCHANGED <<fault, spoilt>>
           /\ Ends(-1, <<NULL, v, l, w>>)
        \/ /\ ~Blocked(Table, lost, k) /\ ~Storable(k, v)
           /\ Becomes(one)
           /\ lost' = gone /\ spoilt' = TRUE /\ UNCHANGED fault
           /\ Ends(0, <<k, v, l, w>>)
        \/ /\ ~Blocked(Table, lost, k) /\ Storable(k, v) /\ Blocked(one, gone, l)
           /\ Becomes(one)
           /\ lost' = gone /\ fault' = TRUE /\ UNCHANGED spoilt
           /\ Ends(0, <<k, v, l, w>>)
        \/ /\ ~Blocked(Table, lost, k) /\ Storable(k, v) /\ ~Blocked(one, gone, l)
           /\ Becomes(Stored(one, l, w))
           /\ lost' = Mended(gone, l, w) /\ spoilt' = ~Storable(l, w) /\ UNCHANGED fault
           /\ Ends(0, <<k, v, NULL, w>>)
        \/ /\ ~Blocked(Table, lost, k) /\ Storable(k, v) /\ ~Blocked(one, gone, l)
           /\ \E t \in Failed(one, l, w) : Becomes(t)
           /\ lost' = Losing(gone, one, l) /\ UNCHANGED <<fault, spoilt>>
           /\ Ends(-1, <<k, v, NULL, w>>)

(* hash_from_list of a list of one element, an odd number. *)
hash_from_odd(k) ==
  /\ Usable
  /\ Returns(<<"from_odd", k>>, -1, NULL, FALSE, <<k>>)
  /\ UNCHANGED <<table, lost, fault, spoilt>>

(* hash_print: hash_get_keys, and hash_get of every key in the list. *)
hash_print ==
  LET keys == EverySecond(1, Order) IN
    /\ Usable
    /\ fault' = (~Even \/ \E n \in 1..Len(keys) : Blocked(Table, lost, keys[n]))
    /\ Returned(<<"print">>, IF \E n \in 1..Len(keys) : ~Has(Table, keys[n]) THEN -1 ELSE 0)
    /\ UNCHANGED <<table, lost, spoilt>>

(* The pairs of all the buckets, and a new table after hash_set of each of *)
(* the pairs in turn.                                                      *)
Pairs == LET k == EverySecond(1, Order)
             v == EverySecond(2, Order)
         IN  [n \in 1..Len(k) |-> <<k[n], v[n]>>]
Loaded(pairs) ==
  LET upto[n \in 0..Len(pairs)] ==
        IF n = 0 THEN [bucket |-> [s \in Slots |-> NULL], count |-> 0]
                 ELSE Stored(upto[n-1], pairs[n][1], pairs[n][2])
  IN  upto[Len(pairs)]

(* hash_serialize of the table into a new string, and hash_deserialize of  *)
(* the string into a new table, with which the program goes on.  The last  *)
(* value of the old table is destroyed with the automatic variable ptr of  *)
(* hash_serialize; where memory runs out there or later, any entry or none *)
(* is, and the program is left with the old table.                         *)
Reload(mem) ==
  LET r == hash_deserialize(hash_serialize(Pairs))
      readable == \A n \in 1..Len(Pairs) : Representable(Pairs[n][2])
      c == <<"reload", mem>>
  IN /\ Usable
     /\ \/ /\ mem /\ (~Even \/ lost # {})        \* strchr of NULL
           /\ fault' = TRUE /\ UNCHANGED <<table, spoilt>>
           /\ Returned(c, 0)
        \/ /\ mem /\ Even /\ lost = {} /\ readable
           /\ Becomes(IF r.failed THEN Table ELSE Loaded(r.pairs))
           /\ spoilt' = (r.failed /\ Pairs # <<>>) /\ UNCHANGED fault
           /\ Returned(c, IF r.failed THEN -1 ELSE 0)
        \/ /\ mem /\ Even /\ lost = {} /\ ~readable
           /\ spoilt' = TRUE /\ UNCHANGED <<table, fault>>
           /\ Returned(c, 0)
        \/ /\ ~mem
           /\ spoilt' \in {FALSE, Pairs # <<>>} /\ UNCHANGED <<table, fault>>
           /\ Returned(c, -1)
     /\ UNCHANGED lost

HashNext ==
  \/ \E k \in Keys : \/ hash_get(k) \/ hash_delete(k) \/ hash_key_exists(k) \/ hash_from_odd(k)
                     \/ \E v \in Values : hash_set(k, v)
                     \/ \E v \in Values, n \in 1..4, mem \in BOOLEAN : hash_from_char(k, v, n, mem)
  \/ \E g \in Given : hash_from_list(g[1], g[2], g[3], g[4])
  \/ \E v \in Values : hash_value_exists(v)
  \/ hash_truncate \/ hash_get_keys \/ hash_get_values \/ hash_copy \/ hash_print
  \/ \E mem \in BOOLEAN : Reload(mem)

HashSpec == HashInit /\ [][HashNext]_hashvars

-----------------------------------------------------------------------------
(* Properties. *)

(* The buckets stay paired up, whatever fails: each is a list of pairs, the*)
(* first of each pair is a key that belongs to the bucket and occurs in no *)
(* other pair, and hash->count is the number of pairs in all of them.  A   *)
(* NULL pointer is followed by hash_copy, or after an update has failed,   *)
(* and otherwise never.  (Until the table is spoilt: a value equal to a key*)
(* of its bucket is stored, hash_serialize frees an entry that stays, or a *)
(* value goes through a text that cannot represent it.)                    *)
PairsIntact ==
  LET pairs == UNION {{s} \X (1..(Len(Entries(s)) \div 2)) : s \in Slots}
      key(p) == Entries(p[1])[2 * p[2] - 1]
  IN \/ spoilt
     \/ /\ HashTypeOK
        /\ Even
        /\ fault => call = <<"copy">> \/ lost # {}
        /\ count = Cardinality(pairs)
        /\ \A p \in pairs : key(p) \in Keys /\ HashOf[key(p)] = p[1]
        /\ \A p, q \in pairs : key(p) = key(q) => p = q

(* The value that belongs to a key: the entry after its odd position. *)
Lookup(k) ==
  LET b == Entries(HashOf[k])
      at == {n \in 1..(Len(b) \div 2) : b[2 * n - 1] = k}
  IN IF at = {} THEN NULL ELSE b[2 * (CHOOSE n \in at : TRUE)]

Map == INSTANCE MapADT WITH NoValue <- NULL, LineFeed <- LF, map <- [k \in Keys |-> Lookup(k)]

(* The hash table implements a map: whichever keys share a bucket and      *)
(* whatever allocation fails, a call that returns has the effect and the   *)
(* result its comment promises, and a table survives the way into a text   *)
(* and back; or it is one of the departures: a failed update empties the   *)
(* value, hash_from_char stores its third argument under the first, and    *)
(* hash_from_list frees a string of its argument.                          *)
ImplementsMap ==
  Map!Init /\ [][fault' \/ spoilt' \/ Map!Next \/ Map!Departure]_(Map!vars)
=============================================================================
