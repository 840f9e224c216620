-------------------------- MODULE MCSessionServer --------------------------
(* Instances of SessionServer for TLC. *)
EXTENDS SessionServer, TLC

(* Connections and sessions are interchangeable. *)
Symmetry == Permutations(Conns) \cup Permutations(Sessions)
=============================================================================
