\* Liveness with one child and no crash or cancellation: a child that may be
\* declared failed, contradictory results, one retry, no replan.
CONSTANTS
  Goals = {g1}
  Tasks = {t1, t2}
  NoGoal = NoGoal
  NoAgent = NoAgent
  NoTask = NoTask
  MaxRetries = 1
  MaxReplans = 0
  Self = self
  Locals = {}
  Sandboxes = {}
  Children = {c1}
  Agents = {self, c1}
  Copies = {1}
  HealthReports = {"failed"}
  Cancellable = {}
  MaxCrashes = 0
SPECIFICATION FairSpec
CHECK_DEADLOCK FALSE
PROPERTY
  GoalsMakeProgress
