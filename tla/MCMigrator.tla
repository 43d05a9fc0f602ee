----------------------------- MODULE MCMigrator -----------------------------
(* Instances of Migrator for TLC. *)
EXTENDS Migrator
=============================================================================
