----------------------------- MODULE MCMigration ----------------------------
(***************************************************************************)
(* Three who may migrate one database at the same time.                    *)
(***************************************************************************)
EXTENDS Migration

MCRunner == {"deployment", "pipeline", "developer"}
=============================================================================
