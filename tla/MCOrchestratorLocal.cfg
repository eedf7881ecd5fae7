\* Local workers and a sandbox the orchestrator can spawn: two tasks make a
\* dependency, one retry and one replan make every failure path.
CONSTANTS
  Goals = {g1, g2}
  Tasks = {t1, t2}
  NoGoal = NoGoal
  NoAgent = NoAgent
  NoTask = NoTask
  MaxRetries = 1
  MaxReplans = 1
  Self = self
  Locals = {l1, l2}
  Sandboxes = {s1}
  Children = {}
  Agents = {self, l1, l2, s1}
  Copies = {1}
  HealthReports = {"healthy", "failed"}
  Cancellable = {g1, g2}
  MaxCrashes = 1
SPECIFICATION Spec
SYMMETRY Symmetry
CHECK_DEADLOCK FALSE
INVARIANTS
  PhaseFitsGraph
PROPERTIES
  RefinesStore
  FirstCycleKeepsTask
