----------------------------- MODULE MCFileOps -----------------------------
(* FileOps with buffers of different sizes, one of which is too large for  *)
(* file_read.                                                              *)
EXTENDS FileOps, TLC

CONSTANTS w1, w2

MCSize == [i \in Inodes |-> CASE i = w1 -> 1 [] i = w2 -> 3 [] OTHER -> 2]
=============================================================================
