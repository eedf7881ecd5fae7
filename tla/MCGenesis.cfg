SPECIFICATION Spec
CONSTANTS
  o1 = o1
  o2 = o2
  Opps = {o1, o2}
  Recommended <- MCRecommended
  Researched <- MCResearched
  Suppliers = {o1}
  PerCall = 2
  PerDay = 2
  PortfolioCap = 3
  MaxSpawns = 1
  MaxShells = 1
  MaxCrashes = 1
INVARIANTS
  SpawnCapHolds
  FundingWithinCaps
  TriggerTellsOutcome
PROPERTIES
  KeepsContract
  TriggerResolves
