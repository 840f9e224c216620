---------------------------- MODULE MCHashTable ----------------------------
(* Instances of HashTable for TLC. *)
EXTENDS HashTable

(* "a", "b" and "c"; the first two share a bucket. *)
Letter(n) == <<96 + n>>
ThreeKeys == {Letter(n) : n \in 1..3}
Shared == Letter(1) :> 0 @@ Letter(2) :> 0 @@ Letter(3) :> 1

(* The empty value, a value that is a key too, values of two lines, and one*)
(* that no text represents.                                                *)
FirstAgain == {Letter(1)} \X {<<120, LF, 121>>} \X ThreeKeys \X {<<>>, Letter(3), <<120, LF, 121>>}
FiveValues == {<<>>, Letter(3), <<120, LF, 121>>, <<120, LF, 121, LF>>, <<LF>>}
=============================================================================
