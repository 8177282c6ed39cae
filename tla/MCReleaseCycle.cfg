SPECIFICATION Spec
CONSTANTS
  web = web
  x = x
  a = a
  b = b
  nobody = nobody
  Procs = {web}
  Users = {x}
  Rows <- MCRows
  Entity <- MCEntity
  Fields <- MCFields
  Declares <- MCHosts
  Hosts <- MCHosts
  Peers <- MCPeers
  JournalOf <- MCNoJournal
  Names <- MCNames
  Requests <- MCRequests
  Nobody <- nobody
  MaxCrashes = 0
  MaxFaults = 0
  MaxOvertaken = 0
  MaxFrames = 6
INVARIANTS
  VisitedOnce
CHECK_DEADLOCK FALSE
