------------------------------ MODULE Database ------------------------------
(* One database: blocks read and write its rows, and migrations change its *)
(* columns.  SqlStorage.ts has the one and versioned.ts with Version.ts    *)
(* the other; they share no variable here.                                 *)
EXTENDS SqlRows, Migrate

databaseVars == <<sqlAll, migrateVars>>

DatabaseInit == SqlInit /\ MigrateInit

DatabaseNext ==
  \/ SqlNext /\ UNCHANGED migrateVars
  \/ MigrateNext /\ UNCHANGED sqlAll

DatabaseSpec == DatabaseInit /\ [][DatabaseNext]_databaseVars

(* What the variables of the two are, one type invariant for both.         *)
DatabaseTypeOK == SqlTypeOK /\ MigrateTypeOK
=============================================================================
