\* Deadlock: every message stored and every build used up.
CHECK_DEADLOCK FALSE
SPECIFICATION Spec
CONSTANTS
  monday = monday  tuesday = tuesday
  b1 = b1  b2 = b2
  Msgs = {1, 2, 3, 4}
  Early = {1, 2, 3, 4}
  Units = {monday, tuesday}
  UnitOf <- MCUnitOf
  NoUnit = NoUnit
  Builders = {b1}
  MaxBuilds = 1
  MaxRunes = 2
  Overlap = 1
INVARIANT DayUnitComplete
