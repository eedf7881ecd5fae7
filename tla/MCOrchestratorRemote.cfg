\* A child started earlier and a sandbox spawned on the way: contradictory
\* results, lost and failed transfers, health checks and a crash.
CONSTANTS
  Goals = {g1, g2}
  Tasks = {t1, t2}
  NoGoal = NoGoal
  NoAgent = NoAgent
  NoTask = NoTask
  MaxRetries = 0
  MaxReplans = 1
  Self = self
  Locals = {}
  Sandboxes = {s1}
  Children = {c1}
  Agents = {self, s1, c1}
  Copies = {1}
  HealthReports = {"healthy", "failed"}
  Cancellable = {g1}
  MaxCrashes = 1
SPECIFICATION Spec
SYMMETRY Symmetry
CHECK_DEADLOCK FALSE
INVARIANTS
  PaysForCurrentTask
