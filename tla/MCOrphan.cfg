SPECIFICATION FairSpec
CONSTANTS
  web = web
  blog = blog
  x = x
  y = y
  u = u
  post = post
  invoice = invoice
  nobody = nobody
  webRuns = webRuns
  Procs = {web, blog}
  Users = {x, y}
  Rows <- MCRows
  Entity <- MCEntity
  Fields <- MCFields
  Declares <- MCDeclares
  Hosts <- MCHosts
  Peers <- MCPeers
  JournalOf <- MCJournals
  Names <- MCNames
  Requests <- MCRequests
  Nobody <- nobody
  MaxCrashes = 1
  MaxFaults = 0
  MaxOvertaken = 0
  MaxFrames = 6
PROPERTIES
  OrphansGo
CHECK_DEADLOCK FALSE
