----------------------------- MODULE MCMigrations -----------------------------
(***************************************************************************)
(* The tables and revisions of the source, every earlier database, and     *)
(* processes killed up to three times.                                     *)
(***************************************************************************)
EXTENDS Migrations
=============================================================================
