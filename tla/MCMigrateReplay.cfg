SPECIFICATION MigrateSpec
CONSTANTS
  n1 = n1
  n2 = n2
  n3 = n3
  n4 = n4
  m1 = m1
  m2 = m2
  Names <- MCNames
  First = n1
  Migrators <- MCMigrators
  Latest = FALSE
  NamesReturn = TRUE
  MaxEdits = 3
  MaxDeploys = 3
  MaxTightened = 1
PROPERTIES
  NothingDeclaredIsDestroyed
CHECK_DEADLOCK FALSE
