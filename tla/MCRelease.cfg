SPECIFICATION PartSpec
CONSTANTS
  web = web
  blog = blog
  solo = solo
  soloRuns = soloRuns
  x = x
  y = y
  u = u
  post = post
  comment = comment
  badge = badge
  invoice = invoice
  team = team
  member = member
  nobody = nobody
  Procs = {web, blog, solo}
  Users = {x, y}
  Rows = {u, post, comment, badge, invoice, team, member}
  Entity <- MCEntity
  Fields <- MCFields
  Declares <- MCDeclares
  Hosts <- MCHosts
  Peers <- MCPeers
  JournalOf <- MCJournals
  Names <- MCNames
  Requests <- MCRequests
  Nobody <- nobody
  MaxCrashes = 2
  MaxFaults = 1
  MaxOvertaken = 0
  MaxFrames = 7
  Nodes = {1, 2, 3, 4}
  Edges <- MCEdges
  MaxEdges = 4
  Processes = {web, blog}
  References <- MCReferences
  Hostings <- MCHostings
  Keyed = {1, 2}
  Lines = 2
  MaxBreaks = 1
  MaxStops = 1
  c1 = c1
  c2 = c2
  b1 = b1
  b2 = b2
  Calls = {c1, c2}
  Beats = {b1, b2}
  NoCall = nobody
  MaxMade = 2
  MaxThrows = 1
  MaxSlow = 1
INVARIANTS
  WorkflowTypeOK
  OrphansWereBegun
  OrderIsSound
  KnotsAreExact
  SeedsPlantedOnce
  DeletedOnceMade
PROPERTIES
  EveryDeleteAnswered
  BegunIsFinished
  OrphansGo
  EveryBootComesUp
  EveryKeptCallMade
CHECK_DEADLOCK FALSE
