------------------------------- MODULE MCSql -------------------------------
(* One database asked two questions: what blocks do to its rows while it   *)
(* serves, and what migrations do to its columns when none runs.  A run    *)
(* begins with one or with the other, so that they add up, not multiply:   *)
(* empty blocks that all stand open the second.                            *)
EXTENDS MCSqlRows, MCMigrate, Database

Idle(t) == block[t] = <<>>

ServingOrNot ==
  /\ DatabaseInit
  /\ \A t, u \in Callers : Idle(t) <=> Idle(u)

Serving ==
  \/ SqlNext /\ UNCHANGED migrateVars
  \/ /\ \A t \in Callers : outcome[t] = "stands" /\ Idle(t)
     /\ MigrateNext /\ UNCHANGED sqlAll

ServingSpec == ServingOrNot /\ [][Serving]_databaseVars /\ SqlFairness
=============================================================================
