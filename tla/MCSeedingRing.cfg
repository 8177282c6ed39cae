SPECIFICATION SeedSpec
CONSTANTS
  web = web
  blog = blog
  Nodes = {1, 2, 3}
  Edges <- MCEdges
  MaxEdges = 2
  Processes = {web, blog}
  References <- MCReferences
  Hostings <- MCHostings
  Keyed = {1}
  Lines = 1
  MaxBreaks = 0
PROPERTIES
  PlantedInProcessOrSplit
CHECK_DEADLOCK FALSE
