------------------------- MODULE MCMigrationRunner -------------------------
(* Model-checking instances of MigrationRunner.  The directory of the      *)
(* repository holds four files of version 3 and two of version 6.          *)
EXTENDS MigrationRunner

CONSTANTS r1, r2

OneRunner == {r1}
TwoRunners == {r1, r2}
SharedVersion == <<1, 1, 2>>
RepositoryFiles == <<1, 2, 3, 3, 3, 3, 4, 5, 6, 6>>
=============================================================================
