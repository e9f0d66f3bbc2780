----------------------------- MODULE GlobalSyncMC -----------------------------
(***************************************************************************)
(* GlobalSync for TLC: constants only, all numbers given in the .cfg.      *)
(***************************************************************************)
EXTENDS GlobalSync
=============================================================================
