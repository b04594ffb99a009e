----------------------------- MODULE MCMigration -----------------------------
(* One legacy home with an interrupted receipt write or none, two          *)
(* destinations, two invocations.                                          *)
EXTENDS Migration
=============================================================================
