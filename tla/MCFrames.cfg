SPECIFICATION FramesFirstSpec
CONSTANTS
  f1 = f1
  f2 = f2
  none = none
  Frames = {f1, f2}
  NoFrame = none
  Rows <- MCRows
  Gestures <- MCGestures
  MaxGestures <- MCMost
  MaxFaults = 1
  Announcers = {f2}
  l = l
  a1 = a1
  a2 = a2
  s = s
  F = F
  G = G
  c1 = c1
  nothing = nothing
  Remotes <- MCRemotes
  Addresses <- MCAddresses
  FactNames = {F}
  NoFact = nothing
  Announcements = {1, 2}
  Calls = {c1}
  Worlds <- MCWorlds
  MaxSilent = 1
INVARIANTS
  ProcessTypeOK
  AllOrNothing
  NothingSaidOfWhatFell
  EveryoneAnswered
  NotedOnce
  NotFoundIsSo
PROPERTIES
  UpdatesUndoneSpareOthers
  EveryoneGetsThrough
CHECK_DEADLOCK FALSE
