CONSTANTS
  present = present  absent = absent
  Tasks = {t1, t2, t3, t4}
  Sizes = {1, 2}
  Capacity = 2
  Waiting = 2
  ByteLimit = 3
  Calls = {c1, c2}
  Paths = {present, absent}
  Requests <- Asked
  Initial <- OneOld
  None = None
  Torn = Torn
  Outside = Outside
  MaxFaults = 2
  MaxItems = 2
SPECIFICATION PartSpec
INVARIANTS SlotsOwned WorkConserving ReportIsTrue NoLostUpdate
CHECK_DEADLOCK FALSE
