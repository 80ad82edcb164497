---------------------------- MODULE MCVaultSlots ----------------------------
(***************************************************************************)
(* VaultSlots for TLC: one window and two slots, with one key.             *)
(***************************************************************************)
EXTENDS VaultSlots
=============================================================================
