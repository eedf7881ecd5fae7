SPECIFICATION Spec
CONSTANTS
  o1 = o1
  o2 = o2
  finance = finance
  Opps = {o1, o2}
  Roi <- MCRoi
  Floor = 2
  TopN = 1
  MinPackets = 1
  Departments = {finance}
  Finance = finance
INVARIANTS
  RulingTakesEffect
  LiveStageEarned
PROPERTIES
  FreeSlotIsUsed
