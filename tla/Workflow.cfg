CONSTANTS
  draft = draft
  check = check
  sign = sign
  side = side
  rework = rework
  run1 = run1
  plan = plan
  summary = summary
  Runs = {1, 2}
  Order <- Path
  Kind <- PathKind
  Inputs <- PathInputs
  MaxEvents = 2
SPECIFICATION PartSpec
INVARIANTS PathIsFresh QuietWhenSettled NoStaleInput
PROPERTIES StopHolds HeldByFeedback
CHECK_DEADLOCK FALSE
