------------------------------ MODULE MCNcList ------------------------------
(* Instances of NcList for TLC. *)
EXTENDS NcList

(* The empty string; " 12", a number whose first character, the separator   *)
(* of list_serialize, is escaped and a digit follows it; and "9", which is   *)
(* the smaller number and the greater string.                               *)
EmptyAndNumbers == 1 :> <<>> @@ 2 :> <<32, 49, 50>> @@ 3 :> <<57>>
Numbers == 1 :> 0 @@ 2 :> 12 @@ 3 :> 9

(* Heap cells are interchangeable, and so are the two lists. *)
Symmetry == Permutations(Entries) \cup Permutations(Lists)
=============================================================================
