SPECIFICATION FactsSpec
CONSTANTS
  l = l
  a1 = a1
  a2 = a2
  s = s
  F = F
  G = G
  c1 = c1
  nothing = nothing
  Remotes <- MCRemotes
  Addresses <- MCAddresses
  FactNames = {F, G}
  NoFact = nothing
  Announcements = {1, 2, 3}
  Calls = {c1}
  Worlds <- RingWorlds
  MaxSilent = 1
INVARIANT
  NoFactCausesItself
CHECK_DEADLOCK FALSE
