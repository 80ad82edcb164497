------------------------- MODULE MCInstanceIdentity -------------------------
(***************************************************************************)
(* InstanceIdentity for TLC: a file, its copies, and the windows opened    *)
(* for them.                                                               *)
(***************************************************************************)
EXTENDS InstanceIdentity, TLC

PathSymmetry == Permutations(Paths)
=============================================================================
