------------------------------- MODULE MapADT -------------------------------
(***************************************************************************)
(* The hash table that the comments in hash.c describe: a finite map from  *)
(* keys to values.  Next is what the functions promise, Departure what     *)
(* some of them do instead.                                                *)
(***************************************************************************)
EXTENDS Integers, Sequences, FiniteSets

CONSTANTS Keys, Values, Given, LineFeed, NoValue

VARIABLES
  map,     \* the value of each key, NoValue where there is none
  call,    \* the last call and its arguments
  rc,      \* its return value
  value,   \* the value that it stored, if it is hash_get
  found,   \* the answer that it gave, if it is an existence test
  list     \* the list that it stored, if it is hash_get_keys or _values; the keys of
           \* the copy, if it is hash_copy; its argument, if it is hash_from_list

vars == <<map, call, rc, value, found, list>>

Defined == {k \in Keys : map[k] # NoValue}

Init ==
  /\ map = [k \in Keys |-> NoValue]
  /\ call = <<"new">> /\ rc = 0
  /\ value = NoValue /\ found = FALSE /\ list = <<>>

(* A failure of memory allocation leaves the map as it was. *)
Set(k, v) ==
  /\ call' = <<"set", k, v>>
  /\ \/ rc' = 0 /\ map' = [map EXCEPT ![k] = v]
     \/ rc' = -1 /\ UNCHANGED map

Get(k) ==
  /\ call' = <<"get", k>>
  /\ rc' = IF k \in Defined THEN 0 ELSE -1
  /\ value' = map[k]
  /\ UNCHANGED map

Delete(k) ==
  /\ call' = <<"delete", k>>
  /\ rc' = IF k \in Defined THEN 0 ELSE -1
  /\ map' = [map EXCEPT ![k] = NoValue]

Truncate ==
  /\ call' = <<"truncate">> /\ rc' = 0
  /\ map' = [k \in Keys |-> NoValue]

KeyExists(k) ==
  /\ call' = <<"key_exists", k>> /\ rc' = 0
  /\ found' = (k \in Defined)
  /\ UNCHANGED map

ValueExists(v) ==
  /\ call' = <<"value_exists", v>> /\ rc' = 0
  /\ found' = (\E k \in Defined : map[k] = v)
  /\ UNCHANGED map

(* Every key, or the value of every key, once each and in any order. *)
Listed(Of(_)) ==
  /\ rc' = 0
  /\ Len(list') = Cardinality(Defined)
  /\ \A v \in Keys \cup Values :
       Cardinality({i \in 1..Len(list') : list'[i] = v})
         = Cardinality({k \in Defined : Of(k) = v})
  /\ UNCHANGED map
GetKeys == call' = <<"get_keys">> /\ Listed(LAMBDA k : k)
GetValues == call' = <<"get_values">> /\ Listed(LAMBDA k : map[k])

(* "Copy all elements from one hash table into another hash table": the    *)
(* copy has every key.                                                     *)
Copy == call' = <<"copy">> /\ Listed(LAMBDA k : k)

(* "Convert one or more char_t parameters into a hash": n of them, keys and*)
(* values in turn, of which the call records the first and the third.      *)
Nothing == [j \in Keys |-> NoValue]
Only(k, v) == [Nothing EXCEPT ![k] = v]
FromChar(k, v, n, mem) ==
  /\ call' = <<"from_char", k, v, n, mem>>
  /\ \E w, x \in Values :
       \/ n = 2 /\ mem /\ rc' = 0 /\ map' = Only(k, w)
       \/ n = 4 /\ mem /\ rc' = 0 /\ v \in Keys /\ map' = [Only(k, w) EXCEPT ![v] = x]
       \/ n \in {1, 3} /\ rc' = -1 /\ map' \in {Nothing, Only(k, w)}
       \/ ~mem /\ rc' = -1 /\ map' \in {Nothing, Only(k, w)}

(* "Coerce a list of values into a hash table." *)
FromList(k, v, l, w) ==
  /\ call' = <<"from_list", k, v, l, w>> /\ list' = <<k, v, l, w>>
  /\ \/ rc' = 0 /\ map' = [map EXCEPT ![k] = v, ![l] = w]
     \/ rc' = -1 /\ map' \in {map, [map EXCEPT ![k] = v]}
FromOdd(k) ==
  /\ call' = <<"from_odd", k>> /\ list' = <<k>>
  /\ rc' = -1 /\ UNCHANGED map

(* hash_print finds all the keys. *)
Show == call' = <<"print">> /\ rc' = 0 /\ UNCHANGED map

(* A map that is written as text and read again is the same map, and       *)
(* "multiline values should be newline-terminated".                        *)
EndsLine(v) ==
  IF LineFeed \in {v[i] : i \in 1..Len(v)} /\ v[Len(v)] # LineFeed
    THEN Append(v, LineFeed) ELSE v
Reload(mem) ==
  /\ call' = <<"reload", mem>>
  /\ rc' = IF mem THEN 0 ELSE -1
  /\ map' = IF mem THEN [k \in Keys |-> IF k \in Defined THEN EndsLine(map[k]) ELSE NoValue]
                   ELSE map

Next ==
  \/ \E k \in Keys :
       Get(k) \/ Delete(k) \/ KeyExists(k) \/ FromOdd(k) \/ \E v \in Values : Set(k, v)
  \/ \E k \in Keys, v \in Values, n \in 1..4, mem \in BOOLEAN : FromChar(k, v, n, mem)
  \/ \E g \in Given : FromList(g[1], g[2], g[3], g[4])
  \/ \E v \in Values : ValueExists(v)
  \/ GetKeys \/ GetValues \/ Truncate \/ Copy \/ Show
  \/ \E mem \in BOOLEAN : Reload(mem)

-----------------------------------------------------------------------------
(* What hash.c does instead. *)

(* An update that fails leaves the empty string. *)
UpdateEmpties(k, v) ==
  /\ call' = <<"set", k, v>> /\ rc' = -1
  /\ k \in Defined /\ map' = [map EXCEPT ![k] = <<>>]

(* Two arguments are too few; of three or four, the third is stored under  *)
(* the first, and three are accepted.                                      *)
ThirdStored(k, v, n) ==
  /\ call' = <<"from_char", k, v, n, TRUE>>
  /\ \/ n = 2 /\ rc' = -1 /\ map' = Nothing
     \/ n = 3 /\ rc' = 0 /\ map' = Only(k, v)
     \/ n = 4 /\ rc' = -1 /\ map' = Only(k, v)

(* The string of the last key used is freed and left in the list. *)
KeyFreed(k, v, l, w) ==
  LET one == [map EXCEPT ![k] = v] IN
    /\ call' = <<"from_list", k, v, l, w>>
    /\ \/ /\ rc' = 0 /\ list' = <<k, v, NoValue, w>>
          /\ map' = [one EXCEPT ![l] = w]
       \/ /\ rc' = -1 /\ list' = <<k, v, NoValue, w>>
          /\ map' = IF one[l] = NoValue THEN one ELSE [one EXCEPT ![l] = <<>>]
       \/ /\ rc' = -1 /\ list' = <<NoValue, v, l, w>>
          /\ map' = IF map[k] = NoValue THEN map ELSE [map EXCEPT ![k] = <<>>]

Departure ==
  \/ \E k \in Keys, v \in Values :
       UpdateEmpties(k, v) \/ \E n \in 2..4 : ThirdStored(k, v, n)
  \/ \E g \in Given : KeyFreed(g[1], g[2], g[3], g[4])
=============================================================================
