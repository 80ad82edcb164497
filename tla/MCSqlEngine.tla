---------------------------- MODULE MCSqlEngine ----------------------------
(***************************************************************************)
(* SqlEngine for TLC: every client and every change is interchangeable,    *)
(* and so are the transaction ids.                                         *)
(***************************************************************************)
EXTENDS SqlEngine, TLC

Symmetry == Permutations(Clients) \union Permutations(Tokens) \union Permutations(Writes)
=============================================================================
