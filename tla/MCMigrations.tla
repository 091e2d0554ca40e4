---------------------------- MODULE MCMigrations ----------------------------
(* TLC instance of the migrations.                                           *)
EXTENDS MigrationsProperties

CONSTANTS j1, j2, v1, v2

\* Each job has a video of its own.
MCVideoOf == [j \in {j1, j2} |-> IF j = j1 THEN v1 ELSE v2]

=============================================================================
