----------------------------- MODULE MCMigrate -----------------------------
EXTENDS Migrate

CONSTANTS n1, n2, n3, n4, m1, m2
MCNames == {n1, n2, n3, n4}
MCMigrators == {m1, m2}
=============================================================================
