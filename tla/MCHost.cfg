SPECIFICATION PartSpec
CONSTANTS
  t1 = t1
  t2 = t2
  none = none
  Callers <- MCCallers
  Keys <- MCKeys
  NoCaller = none
  q1 = q1
  q2 = q2
  r1 = r1
  r2 = r2
  Requests = {q1, q2}
  Reloads = {r1, r2}
  MaxBoots = 4
  MaxConfigs = 1
  MaxLate = 1
  connection = connection
  repository = repository
  cache = cache
  session = session
  root = root
  frond = frond
  frame = frame
  Scopes = {root, frond, frame}
  Root = root
  Above <- MCAbove
  FrameScopes = {frame}
  Instances = {connection, repository, cache, session}
  Home <- MCHome
  Needs <- MCNeeds
  Members = 2
  MaxRefusals = 1
INVARIANTS
  AppTypeOK
  CallsStandOnAnApp
  HandleServes
  HeldOnce
  DependentsFirst
  ReleasedInReverse
  NeverCrossing
  HeldRowsUnmoved
PROPERTIES
  LetGoOnlyDisposed
  ReloadsEnd
  EverythingCloses
  SectionsExclusive
  EveryCallerServed
CHECK_DEADLOCK FALSE
