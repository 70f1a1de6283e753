CONSTANTS
  na = na nb = nb nc = nc np = np ne = ne
  L1 = L1 L2 = L2
  Order <- MCOrder
  Wiring <- MCWiring
  Body <- MCBody
  Decision <- MCDecision
  Writes <- MCWrites
  Start <- MCStart
  Joins = {ne}
  Opinions = {na}
  Fails = {nc}
  MaxEdits = 2
  MaxEvents = 1
SPECIFICATION Spec
INVARIANTS WaitingMoves
PROPERTIES AdoptedAtBoundary
CHECK_DEADLOCK FALSE
