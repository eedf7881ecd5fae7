SPECIFICATION ColonySpec
CONSTANTS
  g1 = g1
  t1 = t1
  t2 = t2
  a1 = a1
  a2 = a2
  Goals = {g1}
  Tasks = {t1, t2}
  Agents = {a1, a2}
  NoGoal = NoGoal
  NoAgent = NoAgent
  NoTask = NoTask
  MaxRetries = 1
INVARIANTS
  HealKeepsGraph
PROPERTIES
  UnheardIsMoved
