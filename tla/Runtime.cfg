SPECIFICATION SceneSpec
CONSTANTS
  cmd = cmd  web = web  world = world  chat = chat  port = port
  Entries = {cmd, web}
  Services = {web}
  Ports = {port}
  PortOf <- OnePort
  Scopes = {world, chat}
  World = world
  Members <- Nested
  Limits = {1, 2}
  DefaultLimit = 1
  None = None
  SlowReads = FALSE
  MaxEvents = 2
INVARIANTS ReleasedIsGone BodyIsAlone
PROPERTIES StopMeansStopped
CHECK_DEADLOCK FALSE
