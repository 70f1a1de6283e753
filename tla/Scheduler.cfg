SPECIFICATION SceneSpec
CONSTANTS
  a = a  b = b  c1 = c1  c2 = c2  conv = conv  shared = shared  NoJob = NoJob
  Jobs = {a, b}
  Chains = {c1, c2}
  ChainJobs <- TwoChains
  Lanes = {conv, shared}
  Shared = shared
  Slots = {"p1"}
  LaneOf <- Mixed
  Ticked = {c2}
  Stoppers = {}
  MaxWakes = 2
  MaxFaults = 1
  MaxStarts = 2
  MayCrash = TRUE
INVARIANTS SettledTogether OneReplyPerJob StopReachesRunner
PROPERTIES ImplementsLedger StopEnds
CHECK_DEADLOCK FALSE
