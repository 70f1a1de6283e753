CONSTANTS
  Decisions = 2
  Width = 2
  Limits = {3, 4, 6}
  Msgs = {1, 2}
  Jobs = {1, 2}
  MaxRounds = 2
  Limit = 3
  MaxEvents = 2
SPECIFICATION ExecSpec
INVARIANTS EndsClosed EffectIsTold SummaryIsFaithful
PROPERTIES CancelIsKept
CHECK_DEADLOCK FALSE
