-------------------------- MODULE MCLegacyMigration --------------------------
(* Two tools of either kind on a store of two pages beside one writer. *)
EXTENDS LegacyMigration
=============================================================================
