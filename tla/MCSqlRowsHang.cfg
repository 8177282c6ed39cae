SPECIFICATION SqlFairSpec
CONSTANTS
  t1 = t1
  t2 = t2
  t3 = t3
  none = none
  Callers <- TwoCallers
  Keys <- MCKeys
  NoCaller <- none
  Programs <- InKeyOrder
PROPERTIES
  EveryBlockEnds
CHECK_DEADLOCK FALSE
