SPECIFICATION FairPkiSpec
CONSTANTS
  Server = server
  t1 = t1
  t2 = t2
  Locals = {t1, t2}
  None = None
  Shifts <- MCShifts
  Renewals = TRUE
  MaxGen = 3
INVARIANTS
  CoherentAtRest
PROPERTIES
  RetiredIsProven
  MaterialIsRetired
CHECK_DEADLOCK FALSE
