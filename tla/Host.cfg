CONSTANTS
  Keys = {k, l}
  Callers = {c, d}
  MaxHosts = 2
  Pids = {p, q}
  Sources = {"day", "unit", "e2e"}
  Date <- Dates
  Kind <- Kinds
  Room <- Rooms
  Lines = {1, 2}
  MonthEnd = 1
  LastDay = 2
  Days = 2
  MaxTotal = 1
  MaxAlive = 1
  Worlds = {"w", "v"}
  Home = "w"
  CommandLine = {"create", "adopt", "backup", "delete"}
  MaxBirths = 3
  MaxFailures = 1
SPECIFICATION SceneSpec
INVARIANTS WaitersWake  NoLineLost OwnedStands
SYMMETRY SamePids
CHECK_DEADLOCK FALSE
