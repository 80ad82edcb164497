--------------------------- MODULE MCConnections ---------------------------
(***************************************************************************)
(* Instances of Connections for TLC.                                       *)
(***************************************************************************)
EXTENDS Connections, TLC

ConnectionSymmetry == Permutations(Conns) \union Permutations(Windows)
=============================================================================
