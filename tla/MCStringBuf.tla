---------------------------- MODULE MCStringBuf ----------------------------
(* Instances of StringBuf for TLC. *)
EXTENDS StringBuf, TLC

(* Strings are interchangeable, and so are buffers. *)
Symmetry == Permutations(Strs) \cup Permutations(Bufs)
=============================================================================
