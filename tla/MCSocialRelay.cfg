SPECIFICATION Spec
CONSTANTS
  r1 = r1
  r2 = r2
  Last = 2
  Runs = {r1, r2}
  PageLimit = 1
  MaxTries = 1
  MaxCrashes = 1
INVARIANTS
  CursorSkipsNothing
PROPERTIES
  LostIsRedelivered
