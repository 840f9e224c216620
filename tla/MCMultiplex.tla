---------------------------- MODULE MCMultiplex ----------------------------
(* ServerStart with a server on a reserved port, which root may bind and     *)
(* which moves for everyone else.                                            *)
EXTENDS ServerStart, TLC

MCPort == 1 :> 25
=============================================================================
