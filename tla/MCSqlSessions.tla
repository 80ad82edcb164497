--------------------------- MODULE MCSqlSessions ---------------------------
(***************************************************************************)
(* Instances of SqlSessions for TLC.  The liveness properties rule         *)
(* symmetry out.                                                           *)
(***************************************************************************)
EXTENDS SqlSessions
=============================================================================
