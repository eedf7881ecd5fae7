SPECIFICATION FleetSpec
CONSTANTS
  Companies = {c1}
  Unborn = {c1}
  Passes = {s1, s2}
  Routes = {r1}
  Instances = {i1, i2}
  Owners <- OneOrTwo
  MaxRestarts = 2
  Nobody = Nobody
INVARIANTS
  KillHolds
  RestartBudget
  PassesTakeTurns
PROPERTIES
  DeadIsRestarted
