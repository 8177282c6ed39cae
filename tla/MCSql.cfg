SPECIFICATION ServingSpec
CONSTANTS
  t1 = t1
  t2 = t2
  t3 = t3
  none = none
  Callers <- MCCallers
  Keys <- MCKeys
  NoCaller <- none
  Programs <- TurnsFirst
  n1 = n1
  n2 = n2
  n3 = n3
  n4 = n4
  m1 = m1
  m2 = m2
  Names <- MCNames
  First = n1
  Migrators <- MCMigrators
  Latest = TRUE
  NamesReturn = FALSE
  MaxEdits = 3
  MaxDeploys = 3
  MaxTightened = 1
INVARIANTS
  DatabaseTypeOK
  NoRaceForALock
  ChangeLandsOnWhatItRead
  DataFollowsItsField
PROPERTIES
  BlocksAreAtomic
  EveryBlockEnds
  NothingDeclaredIsDestroyed
  LeavesNothingToPlan
CHECK_DEADLOCK FALSE
