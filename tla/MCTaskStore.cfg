\* One goal can come and go; three tasks are enough for a chain, a fan-in and
\* a fan-out of dependencies, two decompositions and one retry each.
CONSTANTS
  Goals = {g1, g2}
  Tasks = {t1, t2, t3}
  Agents = {a1}
  NoAgent = NoAgent
  MaxRetries = 1
  NoGoal = NoGoal
SPECIFICATION Spec
SYMMETRY Symmetry
INVARIANTS
  TypeOk
  GraphIsSound
  BlockedIsWaiting
  AssignedAfterDeps
  CompletedGoalIsDone
  ActiveGoalCanMove
PROPERTIES
  DoneIsFinal
