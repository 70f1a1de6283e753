CONSTANTS
  Calls = {k1}
  Commands = {f1}
  Deciders = {d1, d2}
  MaxCrashes = 1
  Roles = {a, b, c}
  Spaces = {s, t}
  Requests = {r1, r2}
  Alone = a
  MaxGens = 2
  MaxSingle = 3
  MaxGroup = 2
  MaxFaults = 1
SPECIFICATION PartSpec
INVARIANTS RunsApproved RunsWhereBound AppointedRun
PROPERTIES RunsAuthorized BoundWhileIdle
SYMMETRY Alike
CHECK_DEADLOCK FALSE
