---------------------------- MODULE MCMigrations ----------------------------
(***************************************************************************)
(* TLC instances of Migrations: binaries with the repository's two         *)
(* migrations, and older and newer releases; Processes picks among them.   *)
(***************************************************************************)
EXTENDS Migrations

CONSTANTS old, new, next

\* A release with the first migration only, the current one, and a later one.
Releases == [p \in Processes |-> CASE p = old -> {1} [] p = new -> {1, 2} [] p = next -> {1, 2, 3}]
=============================================================================
