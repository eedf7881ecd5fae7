-------------------------- MODULE OrchestratorProofs --------------------------
(***************************************************************************)
(* The orchestrator implements the task store, for any number of goals,    *)
(* tasks, workers, children, retries, replans, wake cycles, crashes; and   *)
(* until the agent sleeps, workers and paid agents keep their tasks.       *)
(***************************************************************************)
EXTENDS Orchestrator, TaskGraphProofs

\* Rows do not vanish, keep their goal and dependencies, and a task with one of
\* the statuses `kept' keeps it.
Grows(d, e, kept) ==
  /\ \A t \in Present(d) :
       /\ t \in Present(e) /\ e.of[t] = d.of[t] /\ e.deps[t] = d.deps[t]
       /\ d.status[t] \in kept => e.status[t] = d.status[t]
  /\ \A g \in Goals : d.goal[g] # "none" => e.goal[g] # "none"

\* A step of the orchestrator as the task store sees it.
GraphStep(kept) ==
  /\ Store!Next \/ UNCHANGED db
  /\ Consistent(db)'
  /\ Grows(db, db', kept)

\* All steps but the reset before a replan keep both.
Lasting == {"completed", "failed"}

\* The store's copies of the queries both modules share.
USE DEF Store!Present, Store!TasksOf, Store!With, Store!AllDone,
        Store!DepsSatisfied, Store!ReadyTasks, Store!Terminal, Store!CanFinish,
        Store!AcyclicOn
--------------------------------------------------------------------------------
(* The store's transitions are those of TaskGraph *)

\* The store's operators, with the orchestrator's tables, are TaskGraph's.
LEMMA SameTransitions ==
  ASSUME NEW d, NEW g, NEW t, NEW a, NEW S, NEW new, NEW ds
  PROVE  /\ Store!ValidDecomposition(d, g, new, ds) <=> ValidDecomposition(d, g, new, ds)
         /\ Store!DecomposeGoal(d, g, new, ds) = DecomposeGoal(d, g, new, ds)
         /\ Store!SetGoal(d, g, a) = SetGoal(d, g, a)
         /\ Store!AssignTask(d, t, a) = AssignTask(d, t, a)
         /\ Store!CompleteTask(d, t) = CompleteTask(d, t)
         /\ Store!FailTask(d, t) = FailTask(d, t)
         /\ Store!RecoverStale(d, S) = RecoverStale(d, S)
         /\ Store!ResetForReplan(d, g) = ResetForReplan(d, g)
         /\ Store!CancelGoal(d, g) = CancelGoal(d, g)
<1> USE DEF Store!Refresh, Refresh, Store!Unblock, Unblock, Store!GoalStatusFor, GoalStatusFor,
       Store!SetGoal, SetGoal, Store!RecoverStale, RecoverStale,
       Present, TasksOf, With, AllDone, DepsSatisfied
<1>1. Store!ValidDecomposition(d, g, new, ds) <=> ValidDecomposition(d, g, new, ds)
  BY DEF Store!ValidDecomposition, ValidDecomposition, AcyclicOn
<1>2. Store!DecomposeGoal(d, g, new, ds) = DecomposeGoal(d, g, new, ds)
  BY DEF Store!DecomposeGoal, DecomposeGoal, Store!Insert, Insert
<1>3. Store!SetGoal(d, g, a) = SetGoal(d, g, a)
  OBVIOUS
<1>4. Store!AssignTask(d, t, a) = AssignTask(d, t, a)
  BY DEF Store!AssignTask, AssignTask
<1>5. Store!CompleteTask(d, t) = CompleteTask(d, t)
  BY DEF Store!CompleteTask, CompleteTask
<1>6. Store!FailTask(d, t) = FailTask(d, t)
  BY DEF Store!FailTask, FailTask, Store!RetryTask, RetryTask, Store!FailForGood, FailForGood,
     Store!BlockDependents, BlockDependents
<1>7. Store!RecoverStale(d, S) = RecoverStale(d, S)
  OBVIOUS
<1>8. Store!ResetForReplan(d, g) = ResetForReplan(d, g)
  BY DEF Store!ResetForReplan, ResetForReplan
<1>9. Store!CancelGoal(d, g) = CancelGoal(d, g)
  BY DEF Store!CancelGoal, CancelGoal
<1> QED BY <1>1, <1>2, <1>3, <1>4, <1>5, <1>6, <1>7, <1>8, <1>9
--------------------------------------------------------------------------------
(* Each change of the graph is a step of the store *)

\* decomposeGoal adds rows, and changes among the old ones only blocked ones.
LEMMA DecomposeGrows ==
  ASSUME NEW d \in Db, NEW g \in Goals, NEW new \in SUBSET Tasks,
         NEW ds \in [new -> SUBSET Tasks], new \cap Present(d) = {}
  PROVE  Grows(d, DecomposeGoal(d, g, new, ds), Lasting)
<1> DEFINE a == Insert(d, g, new, ds)
           b == Unblock(a)
           e == Refresh(b, g)
<1>1. /\ a \in Db /\ a.goal = d.goal
      /\ \A t \in Present(d) : a.status[t] = d.status[t] /\ a.of[t] = d.of[t] /\ a.deps[t] = d.deps[t]
  BY InsertFacts DEF Present
<1> HIDE DEF a
<1>2. /\ b \in Db /\ b.goal = a.goal /\ b.of = a.of /\ b.deps = a.deps
      /\ \A t \in Tasks : a.status[t] # "blocked" => b.status[t] = a.status[t]
      /\ \A t \in Tasks : a.status[t] = "blocked" => b.status[t] # "absent"
  BY <1>1, UnblockFacts
<1> HIDE DEF b
<1>3. /\ e.status = b.status /\ e.of = b.of /\ e.deps = b.deps
      /\ \A h \in Goals : b.goal[h] # "none" => e.goal[h] # "none"
  BY <1>2, RefreshFacts DEF GoalStatusFor
<1>4. e = DecomposeGoal(d, g, new, ds)
  BY DEF a, b, DecomposeGoal
<1> HIDE DEF e
<1> QED BY <1>1, <1>2, <1>3, <1>4 DEF Grows, Present, Lasting

\* decomposeGoal is the store's Decompose.
LEMMA DecomposeStep ==
  ASSUME Consistent(db), NEW g \in Goals, NEW new \in SUBSET Tasks,
         NEW ds \in [new -> SUBSET Tasks], ValidDecomposition(db, g, new, ds),
         db' = DecomposeGoal(db, g, new, ds)
  PROVE  GraphStep(Lasting)
<1>1. Store!Decompose(g, new, ds)
  BY SameTransitions DEF Store!Decompose
<1>2. Consistent(db)'
  <2>1. ConsistentBut(db, g)
    BY GoalsOk DEF Consistent, ConsistentBut
  <2>2. Consistent(db')
    BY <2>1, DecomposePreserves
  <2> QED BY <2>2 DEF Consistent
<1>3. Grows(db, db', Lasting)
  BY DecomposeGrows DEF Consistent, WellTyped, ValidDecomposition
<1> QED BY <1>1, <1>2, <1>3 DEF GraphStep, Store!Next

\* The reset before a replan and the decomposition are the store's Replan.
LEMMA ReplanStep ==
  ASSUME Consistent(db), NEW g \in Goals, NEW new \in SUBSET Tasks,
         NEW ds \in [new -> SUBSET Tasks], ValidDecomposition(db, g, new, ds),
         db' = DecomposeGoal(ResetForReplan(db, g), g, new, ds)
  PROVE  GraphStep({"completed"})
<1> DEFINE r == ResetForReplan(db, g)
<1>1. Store!Replan(g, new, ds)
  BY SameTransitions DEF Store!Replan
<1>2. Consistent(db)'
  <2>1. Consistent(db')
    BY ReplanPreserves
  <2> QED BY <2>1 DEF Consistent
<1>3. db \in Db
  BY DEF Consistent, WellTyped
<1>4. r \in Db /\ Present(r) = Present(db)
  BY <1>3, ResetKeeps
<1>5. r.of = db.of /\ r.deps = db.deps /\ \A h \in Goals : db.goal[h] # "none" => r.goal[h] # "none"
  BY <1>3 DEF ResetForReplan, RecoverStale, SetGoal, Db, GoalStatus
<1>6. Grows(r, DecomposeGoal(r, g, new, ds), Lasting)
  <2> HIDE DEF r
  <2> QED BY <1>4, DecomposeGrows DEF ValidDecomposition
<1>7. \A t \in Present(db) : db.status[t] = "completed" => r.status[t] = "completed"
  BY <1>3, ResetKeeps DEF Present
<1>8. Grows(db, db', {"completed"})
  <2>1. db' = DecomposeGoal(r, g, new, ds)
    OBVIOUS
  <2> HIDE DEF r
  <2> QED BY <1>4, <1>5, <1>6, <1>7, <2>1 DEF Grows, Lasting
<1> QED BY <1>1, <1>2, <1>8 DEF GraphStep, Store!Next

\* AssignTask, on a pending task whose dependencies are done, is Assign.
LEMMA AssignStep ==
  ASSUME Consistent(db), NEW t \in Tasks, NEW a \in Agents, db.status[t] = "pending",
         DepsSatisfied(db, t), db' = AssignTask(db, t, a)
  PROVE  GraphStep(Lasting)
<1>1. t \in ReadyTasks(db)
  BY DEF ReadyTasks
<1>2. Store!Assign(t, a)
  BY <1>1, SameTransitions DEF Store!Assign, ReadyTasks, DepsSatisfied
<1>3. Consistent(db)'
  <2>1. Consistent(db')
    BY <1>1, AssignPreserves
  <2> QED BY <2>1 DEF Consistent
<1>4. Grows(db, db', Lasting)
  BY DEF Consistent, WellTyped, Db, AssignTask, Grows, Present, Lasting
<1> QED BY <1>2, <1>3, <1>4 DEF GraphStep, Store!Next

\* CompleteTask is Complete.
LEMMA CompleteStep ==
  ASSUME Consistent(db), NEW t \in Tasks, CanFinish(db, t), db' = CompleteTask(db, t)
  PROVE  GraphStep(Lasting)
<1> DEFINE a == [db EXCEPT !.status[t] = "completed"]
           b == Unblock(a)
<1>1. Store!Complete(t)
  BY SameTransitions DEF Store!Complete, CanFinish, Terminal
<1>2. Consistent(db)'
  <2>1. Consistent(db')
    BY CompletePreserves
  <2> QED BY <2>1 DEF Consistent
<1>3. db \in Db /\ db.of[t] \in Goals
  BY DEF Consistent, WellTyped, CanFinish, Db
<1>4. /\ a \in Db /\ a.goal = db.goal /\ a.of = db.of /\ a.deps = db.deps
      /\ \A x \in Tasks : a.status[x] = IF x = t THEN "completed" ELSE db.status[x]
  BY <1>3 DEF Db, TaskStatus
<1>5. /\ b \in Db /\ b.goal = a.goal /\ b.of = a.of /\ b.deps = a.deps
      /\ \A x \in Tasks : a.status[x] # "blocked" => b.status[x] = a.status[x]
      /\ \A x \in Tasks : a.status[x] = "blocked" => b.status[x] # "absent"
  <2> HIDE DEF a
  <2> QED BY <1>4, UnblockFacts
<1>6. /\ db'.status = b.status /\ db'.of = b.of /\ db'.deps = b.deps
      /\ \A h \in Goals : b.goal[h] # "none" => db'.goal[h] # "none"
  <2>1. db' = Refresh(b, db.of[t])
    BY DEF CompleteTask
  <2> HIDE DEF b
  <2> QED BY <1>3, <1>5, <2>1, RefreshFacts DEF GoalStatusFor
<1>7. Grows(db, db', Lasting)
  <2> HIDE DEF a, b
  <2> QED BY <1>4, <1>5, <1>6 DEF Grows, Present, CanFinish, Terminal, Lasting
<1> QED BY <1>1, <1>2, <1>7 DEF GraphStep, Store!Next

\* What failTask does to the old rows: only the task and its open dependents change.
LEMMA FailGrows ==
  ASSUME NEW d, Consistent(d), NEW t \in Tasks, CanFinish(d, t)
  PROVE  Grows(d, FailTask(d, t), Lasting)
<1> DEFINE a == [d EXCEPT !.status[t] = "failed", !.to[t] = NoAgent]
           b == BlockDependents(a, t)
           e == Refresh(b, d.of[t])
<1>1. d \in Db /\ d.of[t] \in Goals /\ d.status[t] \notin Lasting
  BY DEF Consistent, WellTyped, CanFinish, Terminal, Lasting, Db
<1>2. Grows(d, RetryTask(d, t), Lasting)
  BY <1>1 DEF RetryTask, Grows, Present, Db
<1>3. /\ a \in Db /\ a.goal = d.goal /\ a.of = d.of /\ a.deps = d.deps
      /\ \A x \in Tasks : a.status[x] = IF x = t THEN "failed" ELSE d.status[x]
  BY <1>1 DEF Db, TaskStatus
<1> HIDE DEF a
<1>4. /\ b \in Db /\ b.goal = a.goal /\ b.of = a.of /\ b.deps = a.deps
      /\ \A x \in Tasks : b.status[x] =
           IF t \in a.deps[x] /\ a.status[x] \in {"pending", "assigned"}
           THEN "blocked" ELSE a.status[x]
  BY <1>3, BlockDependentsFacts
<1> HIDE DEF b
<1>5. /\ e.status = b.status /\ e.of = b.of /\ e.deps = b.deps
      /\ \A h \in Goals : b.goal[h] # "none" => e.goal[h] # "none"
  BY <1>1, <1>4, RefreshFacts DEF GoalStatusFor
<1>6. e = FailForGood(d, t)
  BY DEF a, b, FailForGood
<1> HIDE DEF e
<1>7. Grows(d, e, Lasting)
  BY <1>1, <1>3, <1>4, <1>5 DEF Grows, Present, Lasting
<1> QED BY <1>2, <1>6, <1>7 DEF FailTask

\* failTask is Fail.
LEMMA FailStep ==
  ASSUME Consistent(db), NEW t \in Tasks, CanFinish(db, t), db' = FailTask(db, t)
  PROVE  GraphStep(Lasting)
<1>1. Store!Fail(t)
  BY SameTransitions DEF Store!Fail, CanFinish, Terminal
<1>2. Consistent(db')
  BY FailPreserves
<1>3. Grows(db, db', Lasting)
  BY FailGrows
<1> QED BY <1>1, <1>2, <1>3 DEF GraphStep, Store!Next, Consistent

\* A goal's verdict is no row's.
LEMMA SetGoalGrows ==
  ASSUME NEW d \in Db, NEW g \in Goals, NEW v \in GoalStatus \ {"none"}
  PROVE  Grows(d, SetGoal(d, g, v), Lasting)
BY DEF SetGoal, Grows, Present, Db

\* A task failed for good and the goal reopened for a replan: FailAndReopen.
LEMMA ReopenStep ==
  ASSUME Consistent(db), NEW t \in Tasks, CanFinish(db, t),
         FailTask(db, t).status[t] = "failed",
         db' = SetGoal(FailTask(db, t), FailTask(db, t).of[t], "active")
  PROVE  GraphStep(Lasting)
<1> DEFINE d == FailTask(db, t)
<1>1. Consistent(d) /\ Grows(db, d, Lasting)
  BY FailPreserves, FailGrows
<1>2. t \in Present(db) /\ db.of[t] \in Goals
  BY DEF Consistent, WellTyped, CanFinish, Present, Db
<1>3. d.of[t] = db.of[t]
  BY <1>1, <1>2 DEF Grows
<1>4. Store!FailAndReopen(t)
  BY <1>3, SameTransitions DEF Store!FailAndReopen, CanFinish, Terminal
<1>5. Consistent(db')
  BY <1>3, FailAndReopenPreserves
<1>6. Grows(db, db', Lasting)
  <2> HIDE DEF d
  <2>1. Grows(d, SetGoal(d, d.of[t], "active"), Lasting)
    BY <1>1, <1>2, <1>3, SetGoalGrows DEF Consistent, WellTyped, GoalStatus
  <2>2. db' = SetGoal(d, d.of[t], "active")
    BY DEF d
  <2> QED BY <1>1, <2>1, <2>2 DEF Grows
<1> QED BY <1>2, <1>4, <1>5, <1>6 DEF GraphStep, Store!Next, Consistent

\* Stale recovery is Recover, or nothing when nothing is stale.
LEMMA RecoverStep ==
  ASSUME Consistent(db), NEW S \in SUBSET Tasks, \A t \in S : db.status[t] = "assigned",
         db' = RecoverStale(db, S)
  PROVE  GraphStep(Lasting)
<1>1. db \in Db
  BY DEF Consistent, WellTyped
<1>2. Store!Next \/ UNCHANGED db
  <2>1. CASE S = {}
    BY <1>1, <2>1 DEF RecoverStale, Db
  <2>2. CASE S # {}
    <3>1. Store!Recover(S)
      BY <2>2, SameTransitions DEF Store!Recover
    <3> QED BY <3>1 DEF Store!Next
  <2> QED BY <2>1, <2>2
<1>3. Consistent(db')
  BY RecoverPreserves
<1>4. Grows(db, db', Lasting)
  BY <1>1 DEF RecoverStale, Grows, Present, Lasting, Db
<1> QED BY <1>2, <1>3, <1>4 DEF GraphStep, Consistent

\* The verdict `failed', from a tick that threw or from the failed phase: FailGoal.
LEMMA FailGoalStep ==
  ASSUME Consistent(db), NEW g \in Goals, db.goal[g] # "none", db' = SetGoal(db, g, "failed")
  PROVE  GraphStep(Lasting)
<1>1. db \in Db
  BY DEF Consistent, WellTyped
<1>2. Store!FailGoal(g)
  BY SameTransitions DEF Store!FailGoal
<1>3. Consistent(db')
  BY <1>1, SetGoalFacts, SetGoalPreserves DEF GoalStatus
<1>4. Grows(db, db', Lasting)
  BY <1>1, SetGoalGrows DEF GoalStatus
<1> QED BY <1>2, <1>3, <1>4 DEF GraphStep, Store!Next, Consistent

\* The verdict `completed' at the end of an executing tick: FinishGoal.
LEMMA FinishStep ==
  ASSUME Consistent(db), NEW g \in Goals, db.goal[g] # "none", TasksOf(db, g) # {},
         AllDone(db, g), db' = SetGoal(db, g, "completed")
  PROVE  GraphStep(Lasting)
<1>1. db \in Db
  BY DEF Consistent, WellTyped
<1>2. Store!FinishGoal(g)
  BY SameTransitions DEF Store!FinishGoal, TasksOf, AllDone, With, Present
<1>3. Consistent(db')
  BY <1>1, SetGoalFacts, SetGoalPreserves DEF GoalStatus
<1>4. Grows(db, db', Lasting)
  BY <1>1, SetGoalGrows DEF GoalStatus
<1> QED BY <1>2, <1>3, <1>4 DEF GraphStep, Store!Next, Consistent

\* The create_goal tool is CreateGoal.
LEMMA CreateStep ==
  ASSUME Consistent(db), NEW g \in Goals, db.goal[g] = "none", db' = SetGoal(db, g, "active")
  PROVE  GraphStep(Lasting)
<1>1. db \in Db
  BY DEF Consistent, WellTyped
<1>2. Store!CreateGoal(g)
  BY SameTransitions DEF Store!CreateGoal
<1>3. Consistent(db')
  BY CreatePreserves
<1>4. Grows(db, db', Lasting)
  BY <1>1, SetGoalGrows DEF GoalStatus
<1> QED BY <1>2, <1>3, <1>4 DEF GraphStep, Store!Next, Consistent

\* The cancel_goal tool is Cancel.
LEMMA CancelStep ==
  ASSUME Consistent(db), NEW g \in Goals, db.goal[g] = "active", db' = CancelGoal(db, g)
  PROVE  GraphStep(Lasting)
<1>1. db \in Db
  BY DEF Consistent, WellTyped
<1>2. Store!Cancel(g)
  BY SameTransitions DEF Store!Cancel
<1>3. Consistent(db')
  BY CancelPreserves
<1>4. Grows(db, db', Lasting)
  BY <1>1 DEF CancelGoal, Grows, Present, With, Lasting, Db
<1> QED BY <1>2, <1>3, <1>4 DEF GraphStep, Store!Next, Consistent

\* A step that leaves the tables alone is a stuttering step of the store.
LEMMA SameDb ==
  ASSUME Consistent(db), db' = db
  PROVE  GraphStep(Lasting)
BY DEF GraphStep, Grows, Consistent, Present
--------------------------------------------------------------------------------
(* The invariant *)

TickRecord == [at : Awaits, goal : Goals \cup {NoGoal}, task : Tasks \cup {NoTask},
               to : Agents \cup {NoAgent}, ready : SUBSET Tasks, events : SUBSET Results,
               claimed : SUBSET Results]
SavedState == [phase : Phases, goal : Goals \cup {NoGoal}, replans : 0..MaxReplans]

\* The tasks a tick still has to hand over: they are rows, and whatever happens
\* while it awaits a spawn, what they depend on is completed.
Hand(n) == n.ready \cup (IF n.at = "spawn" THEN {n.task} ELSE {})
TickFits(n, d) ==
  /\ n \in TickRecord
  /\ n.at \in {"spawn", "fund", "start"} => n.task \in Tasks
  /\ n.at \in {"fund", "start"} => n.to \in Remote
  /\ \A t \in Hand(n) : t \in Present(d) /\ DepsSatisfied(d, t)

\* The saved state has a goal outside idle; past planning, in phase or in the
\* tick's own progress, the goal has tasks; replanning has replans left and,
\* where PhaseFitsGraph asks for it, a failed task.  The goal a tick works on is
\* the saved one until, in an executing tick, a task of another goal fails.
HasTasks(o, d) == TasksOf(d, o.goal) # {}
Executes == {"dispatch", "spawn", "fund", "start", "apply"}
GoalFits(o, n, d) ==
  n.at # "nothing" =>
    /\ n.goal \in Goals /\ d.goal[n.goal] # "none"
    /\ IF n.at \in Executes THEN TasksOf(d, n.goal) # {} ELSE n.goal = o.goal
StateFits(o, n, d, crashed) ==
  /\ o \in SavedState
  /\ o.phase # "idle" => o.goal \in Goals /\ d.goal[o.goal] # "none"
  /\ n.at # "nothing" => o.phase # "idle"
  /\ GoalFits(o, n, d)
  /\ o.phase \in {"plan_review", "executing", "replanning", "complete"} => HasTasks(o, d)
  /\ n.at \notin {"nothing", "classify", "plan"} => HasTasks(o, d)
  /\ o.phase = "replanning" =>
       /\ o.replans < MaxReplans
       /\ crashed = 0 /\ n.at \in {"nothing", "replan"} => With(d, o.goal, {"failed"}) # {}

\* The workers run rows of the table.
WorkFits(w, d) == \A l \in Locals : w[l] # NoTask => w[l] \in Present(d)

RestTyped ==
  /\ child \in [Agents -> ChildStatus]
  /\ inbox \subseteq Results
  /\ work \in [Locals -> Tasks \cup {NoTask}]
  /\ pool \subseteq Live
  /\ told \subseteq Remote \X Tasks /\ slept \in BOOLEAN /\ crashes \in 0..MaxCrashes

OInv == /\ Consistent(db)
        /\ TickFits(tick, db)
        /\ StateFits(orch, tick, db, crashes)
        /\ WorkFits(work, db)
        /\ RestTyped

\* The invariant is stronger than the two invariants the runs check.
LEMMA InvImplies == OInv => TypeOk /\ PhaseFitsGraph
<1> SUFFICES ASSUME OInv PROVE TypeOk /\ PhaseFitsGraph
  OBVIOUS
<1>1. TypeOk
  BY TaskGraphAssumption DEF OInv, TypeOk, Consistent, TickFits, TickRecord, StateFits, GoalFits, Executes, SavedState, RestTyped
<1>2. PhaseFitsGraph
  BY DEF OInv, PhaseFitsGraph, StateFits, GoalFits, Executes, HasTasks
<1> QED BY <1>1, <1>2

\* What a step of the store that keeps `kept' leaves true of the old rows.
LEMMA Carried ==
  ASSUME Consistent(db), NEW kept, "completed" \in kept, GraphStep(kept)
  PROVE  /\ \A t \in Present(db) : /\ t \in Present(db')
                                   /\ DepsSatisfied(db, t) => DepsSatisfied(db', t)
         /\ \A g : TasksOf(db, g) \subseteq TasksOf(db', g)
         /\ "failed" \in kept => \A g : With(db, g, {"failed"}) \subseteq With(db', g, {"failed"})
<1>1. /\ Grows(db, db', kept)
      /\ \A t \in Present(db) : db.deps[t] \subseteq Tasks /\ t \in Tasks
  BY DEF GraphStep, Consistent, WellTyped, Db, Present
<1>2. \A t \in Present(db) : DepsSatisfied(db, t) => DepsSatisfied(db', t)
  BY <1>1 DEF Grows, DepsSatisfied, Present
<1>3. \A g : TasksOf(db, g) \subseteq TasksOf(db', g)
  BY <1>1 DEF Grows, TasksOf
<1>4. "failed" \in kept => \A g : With(db, g, {"failed"}) \subseteq With(db', g, {"failed"})
  BY <1>1, <1>3 DEF Grows, With, TasksOf
<1> QED BY <1>1, <1>2, <1>3, <1>4 DEF Grows

\* A tick's and a worker's view of the tables survives any step.
LEMMA ViewsCarried ==
  ASSUME Consistent(db), NEW kept, "completed" \in kept, GraphStep(kept), NEW n, NEW w
  PROVE  /\ TickFits(n, db) => TickFits(n, db')
         /\ WorkFits(w, db) => WorkFits(w, db')
BY Carried DEF TickFits, WorkFits

\* The saved state survives any step that keeps failed tasks failed.
LEMMA StateCarried ==
  ASSUME Consistent(db), GraphStep(Lasting), NEW o, NEW n, NEW c, StateFits(o, n, db, c)
  PROVE  StateFits(o, n, db', c)
<1>1. HasTasks(o, db) => HasTasks(o, db')
  BY Carried DEF Lasting, HasTasks
<1>2. With(db, o.goal, {"failed"}) # {} => With(db', o.goal, {"failed"}) # {}
  BY Carried DEF Lasting
<1>3. \A g \in Goals : db.goal[g] # "none" => db'.goal[g] # "none"
  BY DEF GraphStep, Grows
<1>4. TasksOf(db, n.goal) # {} => TasksOf(db', n.goal) # {}
  BY Carried DEF Lasting
<1>5. GoalFits(o, n, db) => GoalFits(o, n, db')
  BY <1>3, <1>4 DEF GoalFits
<1> QED BY <1>1, <1>2, <1>3, <1>5 DEF StateFits

\* So a step is right if its new tick, state and workers fit the tables as they
\* were before it.
LEMMA FitsBefore ==
  ASSUME OInv, GraphStep(Lasting), RestTyped', TickFits(tick', db),
         StateFits(orch', tick', db, crashes'), WorkFits(work', db)
  PROVE  OInv'
<1>1. TickFits(tick', db') /\ WorkFits(work', db')
  BY ViewsCarried DEF OInv, Lasting
<1>2. StateFits(orch', tick', db', crashes')
  BY StateCarried DEF OInv
<1>3. Consistent(db)'
  BY DEF GraphStep
<1> QED BY <1>1, <1>2, <1>3 DEF OInv, TickFits, StateFits, GoalFits, Executes, WorkFits, HasTasks, Hand, DepsSatisfied, Present, TasksOf, With
--------------------------------------------------------------------------------
(* Every step keeps the invariant and is a step of the store *)

Good == OInv' /\ (Store!Next \/ UNCHANGED db)

\* What a handler may leave behind when it goes on as `next'.
GoesOn(next) == /\ TickFits(next, db)
                /\ next.at \in {"dispatch", "fund", "start", "apply"}
                /\ next.goal = tick.goal

\* A step of the running tick that keeps the tables' rows.
LEMMA TickGood ==
  ASSUME OInv, GraphStep(Lasting), TickFits(tick', db), StateFits(orch', tick', db, crashes),
         inbox' \subseteq inbox, quiet' = quiet
  PROVE  Good
<1>1. RestTyped' /\ WorkFits(work', db) /\ crashes' = crashes
  BY DEF OInv, RestTyped, quiet, Live
<1> QED BY <1>1, FitsBefore DEF Good, GraphStep

\* A task of some goal has failed for good, and the saved state says so.
FailsTo(t, phase) ==
  /\ orch' = [orch EXCEPT !.phase = phase, !.goal = db.of[t]]
  /\ CanFinish(db, t)

\* handleFailure: a retry, a failure for good with or without a replan, or the
\* throw on a finished task, which fails the goal.
LEMMA FailureStep ==
  ASSUME OInv, tick.at \notin {"nothing", "classify", "plan"}, NEW t \in Tasks, NEW next,
         HandleFailure(t, next)
  PROVE  /\ GraphStep(Lasting)
         /\ \/ tick' = NoTick /\ orch' = [orch EXCEPT !.phase = "failed", !.goal = tick.goal]
               /\ inbox' = inbox \ tick.claimed
            \/ /\ tick' = next /\ inbox' = inbox
               /\ \/ orch' = orch
                  \/ FailsTo(t, "failed")
                  \/ FailsTo(t, "replanning") /\ orch.replans < MaxReplans
<1>0. Consistent(db) /\ tick.goal \in Goals /\ db.goal[tick.goal] # "none"
  BY DEF OInv, StateFits, GoalFits
<1>1. CASE ~CanFinish(db, t)
  BY <1>0, <1>1, FailGoalStep DEF HandleFailure, Throw, Enter, EndTick
<1>2. CASE CanFinish(db, t)
  <2> DEFINE d == FailTask(db, t)
  <2>1. CASE d.status[t] # "failed"
    BY <1>0, <1>2, <2>1, FailStep DEF HandleFailure
  <2>0. d.of[t] = db.of[t]
    BY <1>0, <1>2, FailGrows DEF Grows, CanFinish, Terminal, Present
  <2>2. CASE d.status[t] = "failed" /\ orch.replans < MaxReplans
    <3>1. db' = SetGoal(d, d.of[t], "active")
      BY <1>2, <2>2 DEF HandleFailure
    <3>2. GraphStep(Lasting)
      BY <1>0, <1>2, <2>2, <3>1, ReopenStep
    <3> QED BY <1>2, <2>0, <2>2, <3>2 DEF HandleFailure, FailsTo
  <2>3. CASE d.status[t] = "failed" /\ ~(orch.replans < MaxReplans)
    BY <1>0, <1>2, <2>0, <2>3, FailStep DEF HandleFailure, FailsTo
  <2> QED BY <2>1, <2>2, <2>3
<1> QED BY <1>1, <1>2

\* The tick that goes on, and the one that ends, fit.
LEMMA EndFits ==
  ASSUME OInv
  PROVE  /\ TickFits(NoTick, db)
         /\ inbox \ tick.claimed \subseteq inbox
BY DEF TickFits, TickRecord, NoTick, Awaits, Hand

\* A row has a goal that exists and so has tasks.
LEMMA OwnedFact ==
  ASSUME OInv, NEW t \in Tasks, CanFinish(db, t)
  PROVE  db.of[t] \in Goals /\ db.goal[db.of[t]] # "none" /\ TasksOf(db, db.of[t]) # {}
BY DEF OInv, Consistent, WellTyped, GraphSound, CanFinish, Terminal, Present, TasksOf, Db

LEMMA FailureFits ==
  ASSUME OInv, tick.at \notin {"nothing", "classify", "plan"}, NEW t \in Tasks, NEW next,
         GoesOn(next), HandleFailure(t, next)
  PROVE  /\ GraphStep(Lasting) /\ inbox' \subseteq inbox
         /\ TickFits(tick', db) /\ StateFits(orch', tick', db, crashes)
<1>1. CASE /\ tick' = NoTick /\ orch' = [orch EXCEPT !.phase = "failed", !.goal = tick.goal]
           /\ inbox' = inbox \ tick.claimed
  <2>1. StateFits(orch', tick', db, crashes)
    BY <1>1 DEF OInv, StateFits, GoalFits, SavedState, Phases, NoTick
  <2> QED BY <1>1, <2>1, EndFits, FailureStep
<1>2. CASE /\ tick' = next /\ inbox' = inbox
           /\ \/ orch' = orch
              \/ FailsTo(t, "failed")
              \/ FailsTo(t, "replanning") /\ orch.replans < MaxReplans
  <2>0. /\ tick'.at \in {"dispatch", "fund", "start", "apply"} /\ tick'.at \in Executes
        /\ tick'.goal = tick.goal
    BY <1>2 DEF GoesOn, Executes
  <2>1. tick.goal \in Goals /\ db.goal[tick.goal] # "none" /\ HasTasks(orch, db)
    BY DEF OInv, StateFits, GoalFits
  <2>2. TasksOf(db, tick.goal) # {}
    BY DEF OInv, StateFits, GoalFits, HasTasks
  <2>3. \A o : GoalFits(o, tick', db)
    BY <2>0, <2>1, <2>2 DEF GoalFits
  <2>4. ASSUME orch' = orch PROVE StateFits(orch', tick', db, crashes)
    <3>1. GoalFits(orch, tick', db)
      BY <2>3
    <3>2. StateFits(orch, tick, db, crashes) /\ orch.phase # "idle"
      BY DEF OInv, StateFits
    <3>3. StateFits(orch, tick', db, crashes)
      BY <2>0, <2>1, <3>1, <3>2 DEF StateFits
    <3> QED BY <2>4, <3>3
  <2>5. ASSUME NEW phase \in {"failed", "replanning"}, FailsTo(t, phase),
               phase = "replanning" => orch.replans < MaxReplans
        PROVE  StateFits(orch', tick', db, crashes)
    <3>1. /\ db.of[t] \in Goals /\ db.goal[db.of[t]] # "none"
          /\ TasksOf(db, db.of[t]) # {}
      BY <2>5, OwnedFact DEF FailsTo
    <3>2. orch \in SavedState
      BY DEF OInv, StateFits
    <3>3. orch' \in SavedState /\ orch'.phase = phase /\ orch'.goal = db.of[t]
          /\ orch'.replans = orch.replans
      BY <2>5, <3>1, <3>2 DEF FailsTo, SavedState, Phases
    <3> QED BY <2>0, <2>3, <2>5, <3>1, <3>3 DEF StateFits, HasTasks
  <2> QED BY <1>2, <2>4, <2>5, FailureStep DEF GoesOn
<1> QED BY <1>1, <1>2, FailureStep

\* assignTask, or its throw on a task that is not pending any more.
LEMMA HandOverFits ==
  ASSUME OInv, tick.at \notin {"nothing", "classify", "plan"}, NEW t \in Tasks, NEW a \in Agents,
         DepsSatisfied(db, t), NEW next, GoesOn(next), next.at = "dispatch",
         NEW spawned, HandOver(t, a, next, spawned)
  PROVE  /\ GraphStep(Lasting) /\ inbox' \subseteq inbox
         /\ TickFits(tick', db) /\ StateFits(orch', tick', db, crashes)
<1>1. CASE db.status[t] # "pending"
  BY <1>1, FailureFits DEF HandOver
<1>2. CASE db.status[t] = "pending"
  <2>1. GraphStep(Lasting)
    BY <1>2, AssignStep DEF HandOver, OInv
  <2> DEFINE at == IF spawned THEN "start" ELSE "fund"
  <2>2. /\ tick' = IF a \in Remote THEN [next EXCEPT !.at = at, !.task = t, !.to = a] ELSE next
        /\ orch' = orch /\ inbox' = inbox /\ at \in {"start", "fund"}
    BY <1>2 DEF HandOver
  <2> HIDE DEF at
  <2>3. next \in TickRecord /\ next.at = "dispatch" /\ \A x \in next.ready : x \in Present(db) /\ DepsSatisfied(db, x)
    BY DEF GoesOn, TickFits, Hand
  <2>4. TickFits(tick', db)
    <3>1. tick' \in TickRecord
      BY <2>2, <2>3 DEF TickRecord, Awaits
    <3> QED BY <2>2, <2>3, <3>1 DEF TickFits, TickRecord, Hand
  <2>5. tick'.goal = tick.goal /\ tick'.at \in {"dispatch", "start", "fund"}
    BY <2>2, <2>3 DEF GoesOn, TickRecord
  <2>6. GoalFits(orch, tick, db) /\ HasTasks(orch, db)
    BY DEF OInv, StateFits
  <2>7. GoalFits(orch, tick', db)
    BY <2>5, <2>6 DEF GoalFits, Executes, HasTasks
  <2>8. StateFits(orch', tick', db, crashes)
    BY <2>2, <2>5, <2>6, <2>7 DEF OInv, StateFits
  <2> QED BY <2>1, <2>2, <2>4, <2>8
<1> QED BY <1>1, <1>2

\* Ends of a tick that leave the tables alone.
LEMMA TickEnds ==
  ASSUME OInv, UNCHANGED <<db, quiet>>,
         \/ ClassifiedComplex \/ Persisted \/ Recalled
         \/ \E phase \in {"executing", "planning", "plan_review"} : Reviewed(phase)
  PROVE  Good
<1>1. GraphStep(Lasting)
  BY SameDb DEF OInv
<1>2. tick' = NoTick /\ inbox' = inbox \ tick.claimed
  BY DEF ClassifiedComplex, Persisted, Recalled, Reviewed, Enter, EndTick
<1>3. ASSUME ClassifiedComplex PROVE StateFits(orch', NoTick, db, crashes)
  BY <1>3 DEF ClassifiedComplex, Enter, EndTick, OInv, StateFits, GoalFits, Executes, SavedState, Phases, NoTick
<1>4. ASSUME Persisted PROVE StateFits(orch', NoTick, db, crashes)
  <2> DEFINE n == IF orch.phase = "replanning" THEN orch.replans + 1 ELSE orch.replans
  <2>1. orch' = [orch EXCEPT !.phase = "plan_review", !.replans = n]
    BY <1>4 DEF Persisted, EndTick, OInv, StateFits, GoalFits, Executes, SavedState
  <2>2. n \in 0..MaxReplans
    BY OrchestratorAssumption DEF OInv, StateFits, GoalFits, Executes, SavedState
  <2> HIDE DEF n
  <2> QED BY <1>4, <2>1, <2>2 DEF Persisted, OInv, StateFits, GoalFits, Executes, SavedState, Phases, NoTick, HasTasks
<1>5. ASSUME Recalled PROVE StateFits(orch', NoTick, db, crashes)
  BY <1>5, OrchestratorAssumption
     DEF Recalled, EndTick, DefaultState, StateFits, GoalFits, Executes, SavedState, Phases, NoTick
<1>6. ASSUME NEW phase \in {"executing", "planning", "plan_review"}, Reviewed(phase)
      PROVE  StateFits(orch', NoTick, db, crashes)
  BY <1>6 DEF Reviewed, Enter, EndTick, OInv, StateFits, GoalFits, Executes, SavedState, Phases, NoTick, HasTasks
<1>7. StateFits(orch', tick', db, crashes)
  BY <1>2, <1>3, <1>4, <1>5, <1>6
<1> QED BY <1>1, <1>2, <1>7, EndFits, TickGood

\* Beginnings of a phase that awaits at once.
LEMMA PhaseBegins ==
  ASSUME OInv, NEW phase, NEW at, BeginPhase(phase, at),
         <<phase, at>> \in {<<"classifying", "classify">>, <<"planning", "plan">>,
            <<"plan_review", "review">>, <<"replanning", "replan">>, <<"complete", "recall">>}
  PROVE  Good
<1>1. GraphStep(Lasting) /\ inbox' = inbox /\ orch' = orch /\ quiet' = quiet
  BY SameDb DEF OInv, BeginPhase
<1>2. PICK c \in SUBSET inbox : tick' = [NoTick EXCEPT !.at = at, !.goal = orch.goal, !.claimed = c]
  BY DEF BeginPhase, Claims
<1>0. orch.goal \in Goals \cup {NoGoal}
  BY DEF OInv, StateFits, SavedState
<1>3. TickFits(tick', db)
  BY <1>0, <1>2 DEF OInv, RestTyped, TickFits, TickRecord, NoTick, Awaits, Hand
<1>4. StateFits(orch', tick', db, crashes)
  BY <1>1, <1>2 DEF BeginPhase, OInv, StateFits, GoalFits, Executes, NoTick
<1> QED BY <1>1, <1>3, <1>4, TickGood

\* Phases that are over without an await.
LEMMA AtOnce ==
  ASSUME OInv, IdlePhase \/ ClassifyStarted \/ FailedPhase
  PROVE  Good
<1>1. ASSUME IdlePhase PROVE Good
  <2>1. GraphStep(Lasting) /\ inbox' \subseteq inbox /\ tick' = tick /\ quiet' = quiet
    BY <1>1, SameDb DEF OInv, IdlePhase
  <2>2. StateFits(orch', tick', db, crashes)
    BY <1>1 DEF IdlePhase, OInv, StateFits, GoalFits, Executes, SavedState, Phases, ActiveGoals
  <2> QED BY <2>1, <2>2, TickGood DEF OInv
<1>2. ASSUME ClassifyStarted PROVE Good
  <2>1. GraphStep(Lasting) /\ inbox' \subseteq inbox /\ tick' = tick /\ quiet' = quiet
    BY <1>2, SameDb DEF OInv, ClassifyStarted
  <2>2. StateFits(orch', tick', db, crashes)
    BY <1>2 DEF ClassifyStarted, OInv, StateFits, GoalFits, Executes, SavedState, Phases, HasTasks
  <2> QED BY <2>1, <2>2, TickGood DEF OInv
<1>3. ASSUME FailedPhase PROVE Good
  <2>1. GraphStep(Lasting)
    BY <1>3, FailGoalStep DEF FailedPhase, OInv, StateFits, GoalFits, Executes
  <2>2. inbox' \subseteq inbox /\ tick' = tick /\ quiet' = quiet
    BY <1>3 DEF FailedPhase
  <2>3. StateFits(orch', tick', db, crashes)
    BY <1>3, OrchestratorAssumption
       DEF FailedPhase, DefaultState, OInv, StateFits, GoalFits, Executes, SavedState, Phases
  <2> QED BY <2>1, <2>2, <2>3, TickGood DEF OInv
<1> QED BY <1>1, <1>2, <1>3

\* New tasks for the goal at hand: it has tasks from here on.
LEMMA NewTasks ==
  ASSUME OInv, tick.at \in {"classify", "plan", "replan"}, NEW kept, "completed" \in kept,
         GraphStep(kept), HasTasks(orch, db'), TickFits(tick', db), UNCHANGED quiet,
         inbox' \subseteq inbox,
         \/ tick' = NoTick /\ orch' = [orch EXCEPT !.phase = "executing", !.goal = tick.goal]
         \/ tick'.at = "persist" /\ tick'.goal = tick.goal /\ orch' = orch
  PROVE  Good
<1>1. TickFits(tick', db') /\ WorkFits(work', db')
  BY ViewsCarried DEF OInv, quiet
<1>2. crashes' = crashes /\ RestTyped'
  BY DEF quiet, OInv, RestTyped, Live
<1>3. \A g \in Goals : db.goal[g] # "none" => db'.goal[g] # "none"
  BY DEF GraphStep, Grows
<1>4. StateFits(orch', tick', db', crashes')
  <2>1. CASE tick' = NoTick /\ orch' = [orch EXCEPT !.phase = "executing", !.goal = tick.goal]
    BY <1>2, <1>3, <2>1 DEF OInv, StateFits, GoalFits, Executes, SavedState, Phases, HasTasks, NoTick
  <2>2. CASE tick'.at = "persist" /\ tick'.goal = tick.goal /\ orch' = orch
    BY <1>2, <1>3, <2>2 DEF OInv, StateFits, GoalFits, Executes, SavedState, HasTasks
  <2> QED BY <2>1, <2>2
<1>5. Consistent(db)'
  BY DEF GraphStep
<1>6. OInv'
  BY <1>1, <1>2, <1>4, <1>5
     DEF OInv, TickFits, StateFits, GoalFits, Executes, WorkFits, HasTasks, Hand, DepsSatisfied, Present, TasksOf, With
<1> QED BY <1>6 DEF Good, GraphStep

\* decomposeGoal leaves its goal with tasks.
LEMMA Decomposed ==
  ASSUME NEW d \in Db, NEW g \in Goals, NEW new \in SUBSET Tasks, new # {},
         NEW ds \in [new -> SUBSET Tasks]
  PROVE  TasksOf(DecomposeGoal(d, g, new, ds), g) # {}
<1> DEFINE a == Insert(d, g, new, ds)
           b == Unblock(a)
           e == Refresh(b, g)
<1>1. PICK t \in new : TRUE
  OBVIOUS
<1>2. a \in Db /\ a.of[t] = g /\ a.status[t] # "absent"
  BY InsertFacts
<1> HIDE DEF a
<1>3. b \in Db /\ b.of[t] = g /\ b.status[t] # "absent"
  BY <1>2, UnblockFacts
<1> HIDE DEF b
<1>4. e.of[t] = g /\ e.status[t] # "absent"
  BY <1>3, RefreshFacts
<1>5. DecomposeGoal(d, g, new, ds) = e
  BY DEF a, b, DecomposeGoal
<1> HIDE DEF e
<1> QED BY <1>4, <1>5 DEF TasksOf, Present

\* The three places where the tick writes a plan into the graph.
LEMMA PlanWritten ==
  ASSUME OInv,
         \/ \E t \in Tasks : ClassifiedSimple(t)
         \/ \E new \in SUBSET (Tasks \ Present(db)) : \E ds \in [new -> SUBSET new] :
              Planned(new, ds) \/ Replanned(new, ds)
  PROVE  Good
<1>0. Consistent(db) /\ db \in Db
  BY DEF OInv, Consistent, WellTyped
<1>1. ASSUME NEW t \in Tasks, ClassifiedSimple(t) PROVE Good
  <2> DEFINE ds == [x \in {t} |-> {}]
  <2>1. ds \in [{t} -> SUBSET Tasks] /\ orch.goal \in Goals
    BY <1>1 DEF ClassifiedSimple, OInv, StateFits, GoalFits, Executes
  <2>2. GraphStep(Lasting)
    BY <1>0, <1>1, <2>1, DecomposeStep DEF ClassifiedSimple
  <2>3. HasTasks(orch, db')
    BY <1>0, <1>1, <2>1, Decomposed DEF ClassifiedSimple, HasTasks
  <2> QED BY <1>1, <2>2, <2>3, EndFits, NewTasks DEF ClassifiedSimple, Enter, EndTick, Lasting
<1>2. ASSUME NEW new \in SUBSET (Tasks \ Present(db)), NEW ds \in [new -> SUBSET new], Planned(new, ds)
      PROVE  Good
  <2>1. ds \in [new -> SUBSET Tasks] /\ orch.goal \in Goals /\ new # {}
    BY <1>2 DEF Planned, ValidDecomposition, OInv, StateFits, GoalFits, Executes
  <2>2. GraphStep(Lasting)
    BY <1>0, <1>2, <2>1, DecomposeStep DEF Planned
  <2>3. HasTasks(orch, db')
    BY <1>0, <1>2, <2>1, Decomposed DEF Planned, HasTasks
  <2>4. TickFits(tick', db) /\ tick'.at = "persist" /\ tick'.goal = tick.goal
    BY <1>2 DEF Planned, OInv, TickFits, TickRecord, Awaits, Hand
  <2> QED BY <1>2, <2>2, <2>3, <2>4, NewTasks DEF Planned, Lasting
<1>3. ASSUME NEW new \in SUBSET (Tasks \ Present(db)), NEW ds \in [new -> SUBSET new], Replanned(new, ds)
      PROVE  Good
  <2>1. ds \in [new -> SUBSET Tasks] /\ orch.goal \in Goals /\ new # {}
    BY <1>3 DEF Replanned, ValidDecomposition, OInv, StateFits, GoalFits, Executes
  <2>2. GraphStep({"completed"})
    BY <1>0, <1>3, <2>1, ReplanStep DEF Replanned
  <2>3. HasTasks(orch, db')
    BY <1>0, <1>3, <2>1, ResetKeeps, Decomposed DEF Replanned, HasTasks
  <2>4. TickFits(tick', db) /\ tick'.at = "persist" /\ tick'.goal = tick.goal
    BY <1>3 DEF Replanned, OInv, TickFits, TickRecord, Awaits, Hand
  <2> QED BY <1>3, <2>2, <2>3, <2>4, NewTasks DEF Replanned
<1> QED BY <1>1, <1>2, <1>3

\* The executing tick: recovery and the ready list, then one task after another.
LEMMA Dispatching ==
  ASSUME OInv,
         \/ Execute \/ Collect \/ SpawnFailed
         \/ \E t \in Tasks : Spawn(t) \/ \E a \in Agents : DispatchIdle(t, a)
  PROVE  Good
<1>0. Consistent(db) /\ db \in Db /\ tick \in TickRecord
  BY DEF OInv, Consistent, WellTyped, TickFits
<1>1. ASSUME Execute PROVE Good
  <2> DEFINE stale == {t \in With(db, orch.goal, {"assigned"}) : ~Alive(db.to[t])}
             d == RecoverStale(db, stale)
             n == [NoTick EXCEPT !.at = "dispatch", !.goal = orch.goal,
                                 !.ready = ReadyTasks(d) \cap TasksOf(d, orch.goal)]
  <2>1. stale \in SUBSET Tasks /\ \A t \in stale : db.status[t] = "assigned"
    BY DEF With, TasksOf, Present
  <2>2. db' = d /\ tick' = n /\ orch' = orch /\ inbox' = inbox /\ quiet' = quiet
    BY <1>1 DEF Execute
  <2>3. GraphStep(Lasting)
    BY <1>0, <2>1, <2>2, RecoverStep
  <2> HIDE DEF d
  <2>4. \A t \in ReadyTasks(d) \cap TasksOf(d, orch.goal) : t \in Present(d) /\ DepsSatisfied(d, t)
    BY DEF ReadyTasks, Present
  <2>0. orch.goal \in Goals \cup {NoGoal}
    BY DEF OInv, StateFits, SavedState
  <2>5. TickFits(n, d)
    BY <2>0, <2>4 DEF TickFits, TickRecord, NoTick, Awaits, Hand, ReadyTasks
  <2>6. n.at = "dispatch" /\ n.goal = orch.goal
    BY DEF NoTick
  <2> HIDE DEF n
  <2>7. TickFits(tick', db')
    BY <2>2, <2>5
  <2>8. StateFits(orch', tick', db, crashes)
    BY <1>1, <2>2, <2>6 DEF Execute, OInv, StateFits, GoalFits, Executes, HasTasks
  <2>9. StateFits(orch', tick', db', crashes)
    BY <1>0, <2>3, <2>8, StateCarried
  <2>10. RestTyped' /\ crashes' = crashes /\ WorkFits(work', db')
    BY <2>2, <2>3, ViewsCarried DEF OInv, RestTyped, quiet, Live, Lasting
  <2>11. OInv'
    BY <2>3, <2>7, <2>9, <2>10 DEF GraphStep, OInv, TickFits, StateFits, GoalFits, Executes, WorkFits, HasTasks, Hand,
       DepsSatisfied, Present, TasksOf, With
  <2> QED BY <2>3, <2>11 DEF Good, GraphStep
<1>2. ASSUME Collect PROVE Good
  <2>1. /\ tick' = [tick EXCEPT !.at = "apply", !.events = {m \in inbox : Authorized(m)}]
        /\ inbox' = {} /\ db' = db /\ orch' = orch /\ quiet' = quiet /\ tick.at = "dispatch"
    BY <1>2 DEF Collect
  <2>2. TickFits(tick', db)
    BY <1>0, <2>1 DEF OInv, RestTyped, TickFits, TickRecord, Awaits, Hand
  <2>3. StateFits(orch', tick', db, crashes)
    BY <1>0, <2>1 DEF TickRecord, OInv, StateFits, GoalFits, Executes
  <2> QED BY <1>0, <2>1, <2>2, <2>3, SameDb, TickGood
<1>3. ASSUME SpawnFailed PROVE Good
  <2>1. /\ tick.at = "spawn" /\ quiet' = quiet
        /\ \E a \in {x \in Agents : Usable(x)} \cup {Self} : HandOver(tick.task, a, NextTask, FALSE)
    BY <1>3 DEF SpawnFailed
  <2>2. PICK a \in Agents : HandOver(tick.task, a, NextTask, FALSE)
    BY <2>1, OrchestratorAssumption
  <2>3. tick.task \in Tasks /\ DepsSatisfied(db, tick.task)
    BY <2>1 DEF OInv, TickFits, Hand
  <2>4. GoesOn(NextTask) /\ NextTask.at = "dispatch"
    BY <1>0 DEF OInv, TickFits, TickRecord, Awaits, Hand, NextTask, GoesOn
  <2>5. /\ GraphStep(Lasting) /\ inbox' \subseteq inbox
        /\ TickFits(tick', db) /\ StateFits(orch', tick', db, crashes)
    BY <2>1, <2>2, <2>3, <2>4, HandOverFits
  <2> QED BY <2>1, <2>5, TickGood
<1>4. ASSUME NEW t \in Tasks, Spawn(t) PROVE Good
  <2>1. /\ tick' = [tick EXCEPT !.at = "spawn", !.task = t, !.ready = tick.ready \ {t}]
        /\ t \in tick.ready /\ inbox' = inbox /\ db' = db /\ orch' = orch /\ quiet' = quiet
        /\ tick.at = "dispatch"
    BY <1>0, <1>4 DEF Spawn, TickRecord
  <2>2. TickFits(tick', db)
    BY <1>0, <2>1 DEF OInv, TickFits, TickRecord, Awaits, Hand
  <2>3. StateFits(orch', tick', db, crashes)
    BY <1>0, <2>1 DEF TickRecord, OInv, StateFits, GoalFits, Executes
  <2> QED BY <1>0, <2>1, <2>2, <2>3, SameDb, TickGood
<1>5. ASSUME NEW t \in Tasks, NEW a \in Agents, DispatchIdle(t, a) PROVE Good
  <2> DEFINE n == [tick EXCEPT !.ready = tick.ready \ {t}]
  <2>1. /\ tick.at = "dispatch" /\ t \in tick.ready /\ HandOver(t, a, n, FALSE) /\ quiet' = quiet
    BY <1>0, <1>5 DEF DispatchIdle, TickRecord
  <2>2. DepsSatisfied(db, t)
    BY <2>1 DEF OInv, TickFits, Hand
  <2>3. GoesOn(n) /\ n.at = "dispatch"
    BY <1>0, <2>1 DEF OInv, TickFits, TickRecord, Awaits, Hand, GoesOn
  <2> HIDE DEF n
  <2>4. /\ GraphStep(Lasting) /\ inbox' \subseteq inbox
        /\ TickFits(tick', db) /\ StateFits(orch', tick', db, crashes)
    BY <2>1, <2>2, <2>3, HandOverFits
  <2> QED BY <2>1, <2>4, TickGood
<1> QED BY <1>1, <1>2, <1>3, <1>4, <1>5

\* A spawn comes back, for a local worker or a sandbox.
LEMMA Spawned ==
  ASSUME OInv, \/ \E l \in Locals : SpawnedLocal(l)
               \/ \E s \in Sandboxes : SpawnedSandbox(s)
  PROVE  Good
<1>1. tick.at = "spawn"
  BY DEF SpawnedLocal, SpawnedSandbox
<1>2. tick.task \in Tasks /\ DepsSatisfied(db, tick.task) /\ tick.task \in Present(db)
  BY <1>1 DEF OInv, TickFits, Hand
<1>3. GoesOn(NextTask) /\ NextTask.at = "dispatch"
  BY DEF OInv, TickFits, TickRecord, Awaits, Hand, NextTask, GoesOn
<1>4. ASSUME NEW a \in Agents, HandOver(tick.task, a, NextTask, TRUE)
      PROVE  /\ GraphStep(Lasting) /\ inbox' \subseteq inbox
             /\ TickFits(tick', db) /\ StateFits(orch', tick', db, crashes)
  BY <1>1, <1>2, <1>3, <1>4, HandOverFits
<1>5. ASSUME NEW l \in Locals, SpawnedLocal(l) PROVE Good
  <2>1. HandOver(tick.task, l, NextTask, TRUE) /\ l \in Agents
    BY <1>5, OrchestratorAssumption DEF SpawnedLocal
  <2>2. /\ work' = [work EXCEPT ![l] = tick.task] /\ pool' = pool \cup {l}
        /\ child' = [child EXCEPT ![l] = "running"]
        /\ told' = told /\ slept' = slept /\ crashes' = crashes
    BY <1>5 DEF SpawnedLocal
  <2>3. RestTyped'
    <3>1. work' \in [Locals -> Tasks \cup {NoTask}] /\ pool' \subseteq Live'
      BY <1>2, <2>2, OrchestratorAssumption DEF OInv, RestTyped, Live
    <3>2. child' \in [Agents -> ChildStatus] /\ inbox' \subseteq Results
      BY <1>4, <2>1, <2>2 DEF OInv, RestTyped, ChildStatus
    <3> QED BY <2>2, <3>1, <3>2 DEF OInv, RestTyped
  <2>4. WorkFits(work', db)
    BY <1>2, <2>2 DEF OInv, RestTyped, WorkFits
  <2> QED BY <1>4, <2>1, <2>2, <2>3, <2>4, FitsBefore DEF Good, GraphStep
<1>6. ASSUME NEW s \in Sandboxes, SpawnedSandbox(s) PROVE Good
  <2>1. HandOver(tick.task, s, NextTask, TRUE) /\ s \in Agents
    BY <1>6, OrchestratorAssumption DEF SpawnedSandbox
  <2>2. /\ child' = [child EXCEPT ![s] = "running"]
        /\ UNCHANGED <<work, pool, told, slept, crashes>>
    BY <1>6 DEF SpawnedSandbox
  <2>3. RestTyped' /\ WorkFits(work', db)
    BY <1>4, <2>1, <2>2 DEF OInv, RestTyped, ChildStatus, Live
  <2> QED BY <1>4, <2>1, <2>2, <2>3, FitsBefore DEF Good, GraphStep
<1> QED BY <1>5, <1>6

\* A transfer and its message come back.
LEMMA Funded == ASSUME OInv, Sent \/ NotSent PROVE Good
<1>0. GoesOn(NextTask) /\ NextTask.at = "dispatch" /\ NextTask \in TickRecord
  BY DEF OInv, TickFits, TickRecord, Awaits, Hand, NextTask, GoesOn
<1>1. ASSUME Sent PROVE Good
  <2>1. tick.task \in Tasks /\ tick.to \in Remote /\ tick.to \in Agents
    BY <1>1, OrchestratorAssumption DEF Sent, OInv, TickFits, Remote
  <2>2. RestTyped' /\ WorkFits(work', db) /\ GraphStep(Lasting)
    BY <1>1, <2>1, SameDb DEF Sent, OInv, RestTyped, ChildStatus, Live
  <2>3. /\ tick' = NextTask /\ orch' = orch /\ crashes' = crashes
        /\ tick.at = "fund" /\ tick'.at = "dispatch" /\ tick'.goal = tick.goal
    BY <1>0, <1>1 DEF Sent, GoesOn
  <2>4. StateFits(orch', tick', db, crashes')
    BY <2>3 DEF OInv, StateFits, GoalFits, Executes
  <2> QED BY <1>0, <1>1, <2>2, <2>4, FitsBefore DEF Sent, Good, GraphStep, GoesOn
<1>2. ASSUME NotSent PROVE Good
  <2>1. tick.at \in {"fund", "start"} /\ tick.task \in Tasks /\ quiet' = quiet
    BY <1>2 DEF NotSent, OInv, TickFits
  <2>2. /\ GraphStep(Lasting) /\ inbox' \subseteq inbox
        /\ TickFits(tick', db) /\ StateFits(orch', tick', db, crashes)
    BY <1>0, <1>2, <2>1, FailureFits DEF NotSent
  <2> QED BY <2>1, <2>2, TickGood
<1> QED BY <1>1, <1>2

\* Results are applied, and the tick ends.
LEMMA Applied ==
  ASSUME OInv, Progress \/ \E m \in tick.events : ApplySuccess(m) \/ ApplyFailure(m)
  PROVE  Good
<1>0. Consistent(db) /\ tick \in TickRecord
  BY DEF OInv, TickFits
<1>1. ASSUME NEW m \in tick.events, tick.at = "apply"
      PROVE  m.task \in Tasks /\ GoesOn(Rest(m)) /\ Rest(m) \in TickRecord /\ Rest(m).at = "apply"
  BY <1>0, <1>1 DEF OInv, TickFits, TickRecord, Awaits, Hand, Rest, GoesOn, Results
<1>2. ASSUME NEW m \in tick.events, ApplyFailure(m) PROVE Good
  <2>1. tick.at = "apply" /\ HandleFailure(m.task, Rest(m)) /\ quiet' = quiet
    BY <1>2 DEF ApplyFailure
  <2>2. /\ GraphStep(Lasting) /\ inbox' \subseteq inbox
        /\ TickFits(tick', db) /\ StateFits(orch', tick', db, crashes)
    BY <1>1, <2>1, FailureFits
  <2> QED BY <2>1, <2>2, TickGood
<1>3. ASSUME NEW m \in tick.events, ApplySuccess(m), ~CanFinish(db, m.task) PROVE Good
  <2>1. /\ tick.at = "apply" /\ HandleFailure(m.task, Rest(m)) /\ quiet' = quiet
    BY <1>3 DEF ApplySuccess, quiet
  <2>2. /\ GraphStep(Lasting) /\ inbox' \subseteq inbox
        /\ TickFits(tick', db) /\ StateFits(orch', tick', db, crashes)
    BY <1>1, <2>1, FailureFits
  <2> QED BY <2>1, <2>2, TickGood
<1>4. ASSUME NEW m \in tick.events, ApplySuccess(m), CanFinish(db, m.task) PROVE Good
  <2>1. /\ tick.at = "apply" /\ db' = CompleteTask(db, m.task) /\ tick' = Rest(m)
        /\ child' = [a \in Agents |-> IF a = db.to[m.task] /\ child[a] # "none"
                                      THEN "healthy" ELSE child[a]]
        /\ UNCHANGED <<orch, inbox, work, pool, told, slept, crashes>>
    BY <1>4 DEF ApplySuccess
  <2>2. GraphStep(Lasting)
    BY <1>0, <1>1, <1>4, <2>1, CompleteStep
  <2>3. RestTyped' /\ WorkFits(work', db)
    BY <2>1 DEF OInv, RestTyped, ChildStatus, Live
  <2>4. TickFits(tick', db) /\ StateFits(orch', tick', db, crashes')
    BY <1>1, <2>1 DEF GoesOn, OInv, StateFits, GoalFits, Executes
  <2> QED BY <2>2, <2>3, <2>4, FitsBefore DEF Good, GraphStep
<1>5. ASSUME Progress PROVE Good
  <2> DEFINE g == tick.goal
             done == TasksOf(db, g) # {} /\ AllDone(db, g)
             failed == With(db, g, {"failed"}) # {}
             phase == CASE done   -> "complete"
                        [] failed -> IF orch.replans < MaxReplans THEN "replanning" ELSE "failed"
                        [] OTHER  -> "executing"
  <2>1. /\ tick.at = "apply" /\ db' = IF done THEN SetGoal(db, g, "completed") ELSE db
        /\ orch' = [orch EXCEPT !.phase = phase, !.goal = g] /\ tick' = NoTick
        /\ inbox' = inbox \ tick.claimed /\ quiet' = quiet
    BY <1>5 DEF Progress, Enter, EndTick
  <2>2. g \in Goals /\ db.goal[g] # "none" /\ TasksOf(db, g) # {} /\ orch \in SavedState
    BY <2>1 DEF OInv, StateFits, GoalFits, Executes
  <2>3. GraphStep(Lasting)
    BY <1>0, <2>1, <2>2, FinishStep, SameDb
  <2>4. /\ phase \in {"complete", "replanning", "failed", "executing"}
        /\ phase = "replanning" => orch.replans < MaxReplans /\ failed
    BY <2>2 DEF HasTasks
  <2> HIDE DEF phase
  <2>5. StateFits(orch', tick', db, crashes)
    BY <2>1, <2>2, <2>4 DEF StateFits, GoalFits, Executes, SavedState, Phases, NoTick, HasTasks
  <2> QED BY <2>1, <2>3, <2>5, EndFits, TickGood
<1> QED BY <1>2, <1>3, <1>4, <1>5

\* A step of somebody beside the tick.
LEMMA OtherGood ==
  ASSUME OInv, GraphStep(Lasting), RestTyped', WorkFits(work', db), UNCHANGED <<orch, tick, crashes>>
  PROVE  Good
<1>1. TickFits(tick', db) /\ StateFits(orch', tick', db, crashes')
  BY DEF OInv
<1> QED BY <1>1, FitsBefore DEF Good, GraphStep

\* A local worker ends, or delegates more tasks of its goal.
LEMMA WorkersStep ==
  ASSUME OInv,
         \/ WorkerStep
         \/ \E l \in Locals, t \in Tasks, deps \in SUBSET Tasks : Delegate(l, t, deps)
  PROVE  Good
<1>0. Consistent(db)
  BY DEF OInv
<1>1. ASSUME NEW l \in Locals, NEW ok \in BOOLEAN, WorkerEnds(l, ok) PROVE Good
  <2>1. /\ l \in Live /\ work[l] \in Tasks
        /\ work' = [work EXCEPT ![l] = NoTask] /\ pool' = pool \ {l}
        /\ UNCHANGED <<child, inbox, orch, tick, told, slept, crashes>>
    BY <1>1 DEF WorkerEnds, rest, Live, OInv, RestTyped
  <2>2. GraphStep(Lasting)
    BY <1>0, <1>1, <2>1, SameDb, CompleteStep, FailStep DEF WorkerEnds
  <2>3. RestTyped' /\ WorkFits(work', db)
    BY <2>1 DEF OInv, RestTyped, WorkFits, Live
  <2> QED BY <2>1, <2>2, <2>3, OtherGood
<1>2. ASSUME NEW l \in Locals, NEW t \in Tasks, NEW deps \in SUBSET Tasks, Delegate(l, t, deps)
      PROVE  Good
  <2> DEFINE g == db.of[work[l]]
             ds == [x \in {t} |-> deps]
  <2>1. work[l] \in Present(db)
    BY <1>2 DEF Delegate, Live, OInv, WorkFits
  <2>2. g \in Goals /\ ds \in [{t} -> SUBSET Tasks]
    BY <1>0, <2>1 DEF Consistent, WellTyped, Present, Db
  <2>3. ValidDecomposition(db, g, {t}, ds) /\ db' = DecomposeGoal(db, g, {t}, ds)
    BY <1>2 DEF Delegate
  <2> HIDE DEF g, ds
  <2>4. GraphStep(Lasting)
    BY <1>0, <2>2, <2>3, DecomposeStep
  <2>5. UNCHANGED <<child, inbox, work, pool, orch, tick, told, slept, crashes>>
    BY <1>2 DEF Delegate, rest
  <2>6. RestTyped' /\ WorkFits(work', db)
    BY <2>5 DEF OInv, RestTyped, Live
  <2> QED BY <2>4, <2>5, <2>6, OtherGood
<1> QED BY <1>1, <1>2 DEF WorkerStep

\* Results come in, health checks write, the parent uses its tools.
LEMMA OthersStep ==
  ASSUME OInv,
         \/ \E m \in Results : Report(m)
         \/ \E a \in Children, status \in HealthReports : CheckChild(a, status)
         \/ \E g \in Goals : CreateGoal(g) \/ CancelByTool(g)
         \/ \E t \in Tasks : CompleteByTool(t)
  PROVE  Good
<1>0. Consistent(db)
  BY DEF OInv
<1>1. UNCHANGED <<orch, tick, told, slept, crashes, work, pool>>
  BY DEF Report, CheckChild, CreateGoal, CancelByTool, CompleteByTool, rest
<1>2. GraphStep(Lasting)
  <2>1. ASSUME db' = db PROVE GraphStep(Lasting)
    BY <1>0, <2>1, SameDb
  <2>2. ASSUME NEW g \in Goals, CreateGoal(g) PROVE GraphStep(Lasting)
    BY <1>0, <2>2, CreateStep DEF CreateGoal
  <2>3. ASSUME NEW g \in Goals, CancelByTool(g) PROVE GraphStep(Lasting)
    BY <1>0, <2>3, CancelStep DEF CancelByTool
  <2>4. ASSUME NEW t \in Tasks, CompleteByTool(t) PROVE GraphStep(Lasting)
    BY <1>0, <2>4, CompleteStep DEF CompleteByTool
  <2> QED BY <2>1, <2>2, <2>3, <2>4 DEF Report, CheckChild
<1>3. inbox' \subseteq Results /\ child' \in [Agents -> ChildStatus]
  <2>1. ASSUME NEW m \in Results, Report(m) PROVE inbox' \subseteq Results /\ child' = child
    BY <2>1 DEF Report, OInv, RestTyped
  <2>2. ASSUME NEW a \in Children, NEW status \in HealthReports, CheckChild(a, status)
        PROVE  inbox' = inbox /\ child' \in [Agents -> ChildStatus]
    BY <2>2, OrchestratorAssumption DEF CheckChild, OInv, RestTyped, ChildStatus
  <2>3. ASSUME NEW g \in Goals, CreateGoal(g) \/ CancelByTool(g) PROVE inbox' = inbox /\ child' = child
    BY <2>3 DEF CreateGoal, CancelByTool
  <2>4. ASSUME NEW t \in Tasks, CompleteByTool(t) PROVE inbox' = inbox /\ child' = child
    BY <2>4 DEF CompleteByTool
  <2> QED BY <2>1, <2>2, <2>3, <2>4 DEF OInv, RestTyped
<1>4. RestTyped' /\ WorkFits(work', db)
  BY <1>1, <1>3 DEF OInv, RestTyped, Live
<1> QED BY <1>1, <1>2, <1>4, OtherGood

\* The process dies, or a wake cycle ends: the tables and the saved state stay.
LEMMA Restarts == ASSUME OInv, Crash \/ NewCycle PROVE Good
<1>0. GraphStep(Lasting)
  BY SameDb DEF OInv, Crash, NewCycle
<1>1. ASSUME Crash PROVE Good
  <2>1. crashes \in Nat /\ crashes' = crashes + 1 /\ crashes' \in 0..MaxCrashes /\ crashes' # 0
    BY <1>1, OrchestratorAssumption DEF Crash, OInv, RestTyped
  <2>2. RestTyped' /\ WorkFits(work', db)
    BY <1>1, <2>1 DEF Crash, OInv, RestTyped, WorkFits, Live
  <2>3. TickFits(tick', db)
    BY <1>1, EndFits DEF Crash
  <2>4. StateFits(orch', tick', db, crashes')
    BY <1>1, <2>1 DEF Crash, OInv, StateFits, GoalFits, Executes, NoTick
  <2> QED BY <1>0, <2>2, <2>3, <2>4, FitsBefore DEF Good, GraphStep
<1>2. ASSUME NewCycle PROVE Good
  <2>1. RestTyped' /\ WorkFits(work', db) /\ UNCHANGED <<orch, tick, crashes>>
    BY <1>2 DEF NewCycle, OInv, RestTyped, Live
  <2> QED BY <1>0, <2>1, OtherGood
<1> QED BY <1>1, <1>2

\* Every step.
LEMMA StepGood == ASSUME OInv, Next PROVE Good
<1>1. ASSUME TickStep PROVE Good
  <2>1. ASSUME Classify \/ Plan \/ Review \/ Replanning \/ Complete PROVE Good
    BY <2>1, PhaseBegins DEF Classify, Plan, Review, Replanning, Complete
  <2>2. ASSUME ClassifiedComplex \/ Persisted \/ Recalled PROVE Good
    BY <2>2, TickEnds DEF ClassifiedComplex, Persisted, Recalled
  <2>3. ASSUME NEW phase \in {"executing", "planning", "plan_review"}, Reviewed(phase) PROVE Good
    BY <2>3, TickEnds DEF Reviewed
  <2> QED BY <1>1, <2>1, <2>2, <2>3, AtOnce, PlanWritten, Dispatching, Spawned, Funded, Applied
          DEF TickStep
<1>2. ASSUME WorkerStep PROVE Good
  BY <1>2, WorkersStep
<1>3. ASSUME Others PROVE Good
  BY <1>3, WorkersStep, OthersStep, Restarts DEF Others
<1> QED BY <1>1, <1>2, <1>3 DEF Next

\* A stuttering step.
LEMMA StutterGood == ASSUME OInv, UNCHANGED vars PROVE Good
<1>1. GraphStep(Lasting) /\ UNCHANGED <<orch, tick, crashes>>
  BY SameDb DEF OInv, vars
<1>2. RestTyped' /\ WorkFits(work', db)
  BY DEF vars, OInv, RestTyped, Live
<1> QED BY <1>1, <1>2, OtherGood

\* An agent that has never run.
LEMMA InitGood == Init => OInv
<1> SUFFICES ASSUME Init PROVE OInv
  OBVIOUS
<1>1. EmptyDb \in Db /\ Present(EmptyDb) = {}
  BY TaskGraphAssumption DEF EmptyDb, Db, GoalStatus, TaskStatus, Present
<1>2. \A g \in Goals : EmptyDb.goal[g] = "none"
  BY DEF EmptyDb
<1>3. \A t \in Tasks : EmptyDb.status[t] = "absent" /\ EmptyDb.of[t] = NoGoal
  BY DEF EmptyDb
<1>4. Consistent(db)
  BY <1>1, <1>2, <1>3 DEF Init, Consistent, WellTyped, GraphSound, AcyclicOn, BlockedWaits,
     AssignedHasDeps, CompletedIsDone, ActiveHasOpenWork
<1>5. TickFits(tick, db) /\ StateFits(orch, tick, db, crashes)
  BY OrchestratorAssumption DEF Init, TickFits, TickRecord, NoTick, Awaits, Hand, StateFits, GoalFits, Executes,
     SavedState, DefaultState, Phases
<1>6. WorkFits(work, db) /\ RestTyped
  <2>1. WorkFits(work, db) /\ work \in [Locals -> Tasks \cup {NoTask}]
    BY DEF Init, WorkFits
  <2>2. child \in [Agents -> ChildStatus]
    BY DEF Init, ChildStatus
  <2>3. /\ inbox \subseteq Results /\ pool \subseteq Live
        /\ told \subseteq Remote \X Tasks /\ slept \in BOOLEAN
    BY DEF Init
  <2>4. crashes \in 0..MaxCrashes
    BY OrchestratorAssumption DEF Init
  <2> QED BY <2>1, <2>2, <2>3, <2>4 DEF RestTyped
<1> QED BY <1>4, <1>5, <1>6 DEF OInv
--------------------------------------------------------------------------------
(* What a local worker, a transfer and a tick hold on to *)

Done == {"completed", "cancelled"}

\* From d to e finished rows stay as they are; outside F an assigned task stays
\* with its agent and a ready one stays pending.
Steady(d, e, F) ==
  \A t \in Tasks :
    /\ d.status[t] \in Done => e.status[t] = d.status[t]
    /\ t \notin F /\ d.status[t] = "assigned" => e.status[t] = "assigned" /\ e.to[t] = d.to[t]
    /\ t \notin F /\ d.status[t] = "pending" /\ DepsSatisfied(d, t) => e.status[t] = "pending"

\* A task is in a worker's hands, or was completed or cancelled over its head.
Held(d, t, a) == \/ d.status[t] = "assigned" /\ d.to[t] = a
                 \/ d.status[t] \in Done

\* Every live worker is of this cycle's pool and holds its task.
WorkersHold(w, p, d) ==
  \A l \in Locals : w[l] # NoTask => l \in p /\ Held(d, w[l], l)

\* What the tick has in hand: the tasks still to be handed over are pending, the
\* one a transfer is for is with the agent that is paid, and the results taken
\* from the inbox are about no live worker's task.
Dispatches == {"dispatch", "spawn", "fund", "start"}
TickHolds(n, w, d) ==
  /\ n.at \in Dispatches => \A t \in Hand(n) : d.status[t] = "pending"
  /\ n.at = "spawn" => n.task \notin n.ready
  /\ n.at \in {"fund", "start"} => d.status[n.task] = "assigned" /\ d.to[n.task] = n.to
  /\ n.at = "apply" => \A m \in n.events : \A l \in Locals : w[l] = NoTask \/ w[l] # m.task

\* The strengthening: in the cycles before the agent has slept with workers at work.
HoldInv == ~slept => WorkersHold(work, pool, db) /\ TickHolds(tick, work, db)

\* updateGoalStatus touches no task.
LEMMA GoalSteady ==
  ASSUME NEW d \in Db, NEW g \in Goals, NEW v
  PROVE  Steady(d, SetGoal(d, g, v), {})
BY DEF SetGoal, Db, Steady

\* decomposeGoal touches only new rows and blocked ones.
LEMMA DecomposeSteady ==
  ASSUME NEW d \in Db, NEW g \in Goals, NEW new, new \cap Present(d) = {}, NEW ds
  PROVE  Steady(d, DecomposeGoal(d, g, new, ds), {})
<1> DEFINE a == Insert(d, g, new, ds)
           b == Unblock(a)
<1>1. \A t \in Tasks : t \notin new => a.status[t] = d.status[t] /\ a.to[t] = d.to[t]
  BY DEF Insert, Db
<1>2. /\ \A t \in Tasks : b.status[t] =
           IF a.status[t] = "blocked" /\ DepsSatisfied(a, t) THEN "pending" ELSE a.status[t]
      /\ b.to = a.to
  BY DEF Insert, Unblock, Db
<1>3. DecomposeGoal(d, g, new, ds).status = b.status /\ DecomposeGoal(d, g, new, ds).to = b.to
  BY DEF DecomposeGoal, Refresh, Unblock, Insert, Db
<1> HIDE DEF a, b
<1>4. \A t \in Tasks : d.status[t] # "absent" => t \notin new
  BY DEF Present
<1> QED BY <1>1, <1>2, <1>3, <1>4 DEF Steady, Done

\* The reset before a replan touches failed and blocked tasks, then decomposes.
LEMMA ReplanSteady ==
  ASSUME NEW d \in Db, NEW g \in Goals, NEW new, new \cap Present(d) = {}, NEW ds
  PROVE  Steady(d, DecomposeGoal(ResetForReplan(d, g), g, new, ds), {})
<1> DEFINE r == ResetForReplan(d, g)
           S == With(d, g, {"failed", "blocked"})
           e == DecomposeGoal(r, g, new, ds)
<1>1. r \in Db /\ Present(r) = Present(d)
  BY ResetKeeps
<1>2. /\ \A t \in Tasks : t \notin S => r.status[t] = d.status[t] /\ r.to[t] = d.to[t]
      /\ r.deps = d.deps
  BY DEF ResetForReplan, RecoverStale, SetGoal, Db
<1>3. \A t \in S : d.status[t] \in {"failed", "blocked"}
  BY DEF With
<1>4. Steady(r, e, {})
  <2> HIDE DEF r
  <2> QED BY <1>1, DecomposeSteady
<1>5. \A t \in Tasks : DepsSatisfied(d, t) => DepsSatisfied(r, t)
  <2> HIDE DEF r, S
  <2> QED BY <1>2, <1>3 DEF DepsSatisfied, Db
<1> HIDE DEF r, S, e
<1>6. Steady(d, e, {})
  BY <1>2, <1>3, <1>4, <1>5 DEF Steady, Done
<1> QED BY <1>6 DEF e, r

\* assignTask touches one task.
LEMMA AssignSteady ==
  ASSUME NEW d \in Db, NEW t \in Tasks, NEW a, d.status[t] = "pending"
  PROVE  /\ Steady(d, AssignTask(d, t, a), {t})
         /\ AssignTask(d, t, a).status[t] = "assigned" /\ AssignTask(d, t, a).to[t] = a
BY DEF AssignTask, Db, Steady, Done

\* completeTask changes its task and wakes blocked ones.
LEMMA CompleteSteady ==
  ASSUME NEW d \in Db, NEW t \in Tasks, CanFinish(d, t)
  PROVE  /\ Steady(d, CompleteTask(d, t), {t})
         /\ CompleteTask(d, t).status[t] = "completed"
<1> DEFINE a == [d EXCEPT !.status[t] = "completed"]
<1>1. a.to = d.to /\ \A x \in Tasks : a.status[x] = IF x = t THEN "completed" ELSE d.status[x]
  BY DEF Db
<1>2. CompleteTask(d, t).status = Unblock(a).status /\ CompleteTask(d, t).to = a.to
  BY DEF CompleteTask, Refresh, Unblock, Db
<1>3. \A x \in Tasks : Unblock(a).status[x] =
         IF a.status[x] = "blocked" /\ DepsSatisfied(a, x) THEN "pending" ELSE a.status[x]
  BY DEF Unblock, Db
<1> HIDE DEF a
<1> QED BY <1>1, <1>2, <1>3 DEF Steady, Done, CanFinish, Terminal

\* failTask changes its task and the open tasks that depend on it: none of those
\* is assigned or ready, since the task they wait for is not completed.
LEMMA FailSteady ==
  ASSUME NEW d, Consistent(d), NEW t \in Tasks, CanFinish(d, t)
  PROVE  Steady(d, FailTask(d, t), {t})
<1>1. d \in Db /\ AssignedHasDeps(d) /\ d.status[t] \notin Done /\ d.status[t] # "completed"
  BY DEF Consistent, WellTyped, CanFinish, Terminal, Done
<1>2. Steady(d, RetryTask(d, t), {t})
  BY <1>1 DEF RetryTask, Steady, Db
<1>3. Steady(d, FailForGood(d, t), {t})
  <2> DEFINE a == [d EXCEPT !.status[t] = "failed", !.to[t] = NoAgent]
             b == BlockDependents(a, t)
  <2>1. /\ \A x \in Tasks : x # t => a.status[x] = d.status[x] /\ a.to[x] = d.to[x]
        /\ a.deps = d.deps
    BY <1>1 DEF Db
  <2>2. FailForGood(d, t).status = b.status /\ FailForGood(d, t).to = b.to
    BY <1>1 DEF FailForGood, Refresh, BlockDependents, Db
  <2>3. \A x \in Tasks :
          ~(t \in a.deps[x] /\ a.status[x] \in {"pending", "assigned"}) =>
             b.status[x] = a.status[x] /\ b.to[x] = a.to[x]
    BY <1>1 DEF BlockDependents, Db
  <2> HIDE DEF a, b
  <2>4. ASSUME NEW x \in Tasks, x # t, DepsSatisfied(d, x) \/ d.status[x] \in Done
        PROVE  ~(t \in a.deps[x] /\ a.status[x] \in {"pending", "assigned"})
    BY <1>1, <2>1, <2>4 DEF DepsSatisfied, Done
  <2>5. ASSUME NEW x \in Tasks, x # t,
               d.status[x] = "assigned" \/ d.status[x] \in Done
                 \/ (d.status[x] = "pending" /\ DepsSatisfied(d, x))
        PROVE  b.status[x] = d.status[x] /\ b.to[x] = d.to[x]
    BY <1>1, <2>1, <2>3, <2>4, <2>5 DEF AssignedHasDeps
  <2> QED BY <1>1, <2>2, <2>5 DEF Steady
<1> QED BY <1>2, <1>3 DEF FailTask

\* Stale recovery touches what it recovers.
LEMMA RecoverSteady ==
  ASSUME NEW d \in Db, NEW S \in SUBSET Tasks, \A t \in S : d.status[t] = "assigned"
  PROVE  Steady(d, RecoverStale(d, S), S)
BY DEF RecoverStale, Db, Steady, Done

\* cancel_goal touches the goal's open tasks and cancels them.
LEMMA CancelSteady ==
  ASSUME NEW d \in Db, NEW g \in Goals
  PROVE  \E F \in SUBSET Tasks : /\ Steady(d, CancelGoal(d, g), F)
                                 /\ \A t \in F : CancelGoal(d, g).status[t] = "cancelled"
<1> DEFINE open == With(d, g, {"pending", "assigned", "blocked"})
<1>1. \A t \in Tasks : CancelGoal(d, g).status[t] = IF t \in open THEN "cancelled" ELSE d.status[t]
  BY DEF CancelGoal, Db
<1>2. CancelGoal(d, g).to = d.to
  BY DEF CancelGoal, Db
<1>3. open \in SUBSET Tasks /\ \A t \in open : d.status[t] \notin Done
  BY DEF With, TasksOf, Present, Done
<1> HIDE DEF open
<1>4. Steady(d, CancelGoal(d, g), open)
  BY <1>1, <1>2, <1>3 DEF Steady
<1> QED BY <1>1, <1>3, <1>4

\* handleFailure throws, and leaves every task alone, or fails the one task.
LEMMA FailureSteady ==
  ASSUME OInv, tick.at \notin {"nothing", "classify", "plan"}, NEW t \in Tasks, NEW next,
         HandleFailure(t, next)
  PROVE  \/ ~CanFinish(db, t) /\ Steady(db, db', {}) /\ tick' = NoTick
         \/ CanFinish(db, t) /\ Steady(db, db', {t}) /\ tick' = next
<1>0. Consistent(db) /\ db \in Db /\ tick.goal \in Goals
  BY DEF OInv, StateFits, GoalFits, Executes, Consistent, WellTyped
<1>1. CASE ~CanFinish(db, t)
  BY <1>0, <1>1, GoalSteady DEF HandleFailure, Throw, Enter, EndTick
<1>2. CASE CanFinish(db, t)
  <2> DEFINE d == FailTask(db, t)
  <2>1. Steady(db, d, {t}) /\ Consistent(d) /\ Grows(db, d, Lasting)
    BY <1>0, <1>2, FailSteady, FailPreserves, FailGrows
  <2>2. tick' = next /\ (db' = d \/ db' = SetGoal(d, d.of[t], "active"))
    BY <1>2 DEF HandleFailure
  <2> HIDE DEF d
  <2>3. d \in Db
    BY <2>1 DEF Consistent, WellTyped
  <2>4. ASSUME db' = SetGoal(d, d.of[t], "active")
        PROVE  db'.status = d.status /\ db'.to = d.to
    BY <2>3, <2>4 DEF SetGoal, Db
  <2>5. Steady(db, db', {t})
    BY <2>1, <2>2, <2>4 DEF Steady
  <2> QED BY <1>2, <2>2, <2>5
<1> QED BY <1>1, <1>2

\* A state in which that applies.
Awake == ~slept /\ WorkersHold(work, pool, db) /\ TickHolds(tick, work, db)

\* What a step has to leave behind.
Kept == /\ ~slept' => WorkersHold(work', pool', db') /\ TickHolds(tick', work', db')
        /\ ~slept => \A l \in Locals : KeepsTask(l)

\* A step keeps the workers' hold if each worker ended, or has taken up another
\* task, or had a task the step left to it or finished.
LEMMA KeepsWorkers ==
  ASSUME OInv, Awake, NEW F, Steady(db, db', F), slept' = slept,
         \A l \in Locals :
            \/ work'[l] = NoTask
            \/ /\ work'[l] = work[l] /\ (l \in pool => l \in pool')
               /\ work[l] \notin F \/ db'.status[work[l]] \in Done
            \/ work'[l] # work[l] /\ l \in pool' /\ Held(db', work'[l], l),
         TickHolds(tick', work', db')
  PROVE  Kept
<1>0. /\ work \in [Locals -> Tasks \cup {NoTask}] /\ NoTask \notin Tasks
      /\ \A l \in Locals : work[l] # NoTask => l \in pool /\ Held(db, work[l], l)
  BY OrchestratorAssumption DEF OInv, RestTyped, Awake, WorkersHold
<1>1. ASSUME NEW l \in Locals, work'[l] # NoTask PROVE l \in pool' /\ Held(db', work'[l], l)
  <2>1. CASE work'[l] # work[l] /\ l \in pool' /\ Held(db', work'[l], l)
    BY <2>1
  <2>2. CASE /\ work'[l] = work[l] /\ (l \in pool => l \in pool')
             /\ work[l] \notin F \/ db'.status[work[l]] \in Done
    <3>1. work[l] \in Tasks /\ l \in pool /\ Held(db, work[l], l)
      BY <1>0, <1>1, <2>2
    <3>2. Held(db', work[l], l)
      BY <2>2, <3>1 DEF Held, Steady
    <3> QED BY <2>2, <3>1, <3>2
  <2> QED BY <1>1, <2>1, <2>2
<1>2. ASSUME NEW l \in Locals PROVE KeepsTask(l)
  <2> SUFFICES ASSUME l \in Live, work'[l] = work[l],
                      db.status[work[l]] = "assigned", db.to[work[l]] = l
               PROVE  \/ db'.status[work[l]] = "assigned" /\ db'.to[work[l]] = l
                      \/ db'.status[work[l]] \in Done
    BY DEF KeepsTask, Done
  <2>1. work[l] \in Tasks
    BY <1>0 DEF Live
  <2>2. work[l] \notin F \/ db'.status[work[l]] \in Done
    BY <1>0, <2>1
  <2> QED BY <2>1, <2>2 DEF Steady
<1> QED BY <1>1, <1>2 DEF Kept, WorkersHold

\* What a tick has in hand stays in hand when a step leaves it alone.
LEMMA TickCarries ==
  ASSUME NEW F, NEW n, NEW w, NEW v, NEW d, NEW e,
         TickFits(n, d), TickHolds(n, w, d), Steady(d, e, F),
         n.at \in Dispatches => F \cap Hand(n) = {},
         n.at \in {"fund", "start"} => n.task \notin F,
         \A l \in Locals : v[l] = NoTask \/ v[l] = w[l]
  PROVE  TickHolds(n, v, e)
<1>1. \A t \in Hand(n) : t \in Tasks /\ DepsSatisfied(d, t)
  BY DEF TickFits, Present
<1>2. n.at \in {"fund", "start"} => n.task \in Tasks
  BY DEF TickFits
<1>3. n.at \in Dispatches => \A t \in Hand(n) : e.status[t] = "pending"
  BY <1>1 DEF TickHolds, Steady
<1>4. n.at \in {"fund", "start"} => e.status[n.task] = "assigned" /\ e.to[n.task] = n.to
  BY <1>2 DEF TickHolds, Steady
<1>5. n.at = "apply" => \A m \in n.events : \A l \in Locals : v[l] = NoTask \/ v[l] # m.task
  BY DEF TickHolds
<1> QED BY <1>3, <1>4, <1>5 DEF TickHolds

\* A step that leaves every task and the workers alone, to an await where the
\* tick has nothing in hand.
LEMMA EmptyHanded ==
  ASSUME OInv, Awake, Steady(db, db', {}), quiet' = quiet,
         tick'.at \notin Dispatches \cup {"apply"}
  PROVE  Kept
<1>1. TickHolds(tick', work', db')
  BY DEF TickHolds, Dispatches
<1>2. work' = work /\ pool' = pool /\ slept' = slept
  BY DEF quiet
<1> QED BY <1>1, <1>2, KeepsWorkers

\* handleFailure on a task no live worker has and the tick has not in hand any more.
LEMMA FailureKeeps ==
  ASSUME OInv, Awake, tick.at \notin {"nothing", "classify", "plan"},
         NEW t \in Tasks, NEW next, HandleFailure(t, next),
         work' = work, pool' = pool, slept' = slept,
         CanFinish(db, t) => /\ \A l \in Locals : work[l] # t
                             /\ TickFits(next, db) /\ TickHolds(next, work, db)
                             /\ next.at = "apply" \/ (next.at = "dispatch" /\ t \notin Hand(next))
  PROVE  Kept
<1>1. CASE ~CanFinish(db, t) /\ Steady(db, db', {}) /\ tick' = NoTick
  <2>1. TickHolds(tick', work', db')
    BY <1>1 DEF TickHolds, Dispatches, NoTick
  <2> QED BY <1>1, <2>1, KeepsWorkers
<1>2. CASE CanFinish(db, t) /\ Steady(db, db', {t}) /\ tick' = next
  <2>1. TickHolds(next, work', db')
    BY <1>2, TickCarries DEF Dispatches
  <2> QED BY <1>2, <2>1, KeepsWorkers
<1> QED BY <1>1, <1>2, FailureSteady

\* No live worker has a task that is pending, or assigned to somebody remote.
LEMMA NotWorked ==
  ASSUME OInv, Awake, NEW t \in Tasks,
         db.status[t] = "pending" \/ (db.status[t] = "assigned" /\ db.to[t] \notin Locals)
  PROVE  \A l \in Locals : work[l] # t
BY OrchestratorAssumption DEF Awake, WorkersHold, Held, Done

\* The phases whose handler does not hand tasks over.
LEMMA PhasesKeep ==
  ASSUME OInv, Awake,
         \/ IdlePhase \/ ClassifyStarted \/ Classify \/ ClassifiedComplex
         \/ Plan \/ Persisted \/ Review \/ Progress \/ Replanning \/ Complete \/ Recalled
         \/ FailedPhase
         \/ \E t \in Tasks : ClassifiedSimple(t)
         \/ \E new \in SUBSET (Tasks \ Present(db)) : \E ds \in [new -> SUBSET new] :
              Planned(new, ds) \/ Replanned(new, ds)
         \/ \E phase \in {"executing", "planning", "plan_review"} : Reviewed(phase)
  PROVE  Kept
<1>0. db \in Db /\ tick \in TickRecord
  BY DEF OInv, Consistent, WellTyped, TickFits
<1>1. ASSUME db' = db PROVE Steady(db, db', {})
  BY <1>1 DEF Steady
<1>2. ASSUME \/ IdlePhase \/ ClassifyStarted \/ Classify \/ ClassifiedComplex
             \/ Plan \/ Persisted \/ Review \/ Replanning \/ Complete \/ Recalled
             \/ \E phase \in {"executing", "planning", "plan_review"} : Reviewed(phase)
      PROVE  db' = db /\ quiet' = quiet /\ tick'.at \notin Dispatches \cup {"apply"}
  <2>1. ASSUME NEW phase, NEW at, at \notin Dispatches \cup {"apply"},
               BeginPhase(phase, at)
        PROVE  db' = db /\ quiet' = quiet /\ tick'.at \notin Dispatches \cup {"apply"}
    BY <2>1 DEF BeginPhase, NoTick
  <2>2. CASE Classify \/ Plan \/ Review \/ Replanning \/ Complete
    BY <2>1, <2>2 DEF Classify, Plan, Review, Replanning, Complete, Dispatches
  <2>3. CASE IdlePhase \/ ClassifyStarted
    BY <2>3 DEF IdlePhase, ClassifyStarted, Dispatches
  <2>4. CASE ClassifiedComplex \/ Persisted \/ Recalled
    BY <2>4 DEF ClassifiedComplex, Persisted, Recalled, Enter, EndTick, NoTick, Dispatches
  <2>5. ASSUME NEW phase, Reviewed(phase)
        PROVE  db' = db /\ quiet' = quiet /\ tick'.at \notin Dispatches \cup {"apply"}
    BY <2>5 DEF Reviewed, Enter, EndTick, NoTick, Dispatches
  <2> QED BY <1>2, <2>2, <2>3, <2>4, <2>5
<1>3. ASSUME Progress \/ FailedPhase
      PROVE  Steady(db, db', {}) /\ quiet' = quiet /\ tick'.at \notin Dispatches \cup {"apply"}
  <2>1. orch.goal \in Goals /\ (Progress => tick.goal \in Goals)
    BY <1>3 DEF Progress, FailedPhase, OInv, StateFits, GoalFits, Executes
  <2>2. \/ db' = db \/ db' = SetGoal(db, orch.goal, "failed")
        \/ Progress /\ db' = SetGoal(db, tick.goal, "completed")
    BY <1>3 DEF Progress, FailedPhase
  <2>3. quiet' = quiet /\ tick'.at = "nothing"
    BY <1>3 DEF Progress, FailedPhase, Enter, EndTick, NoTick
  <2> QED BY <1>0, <1>1, <2>1, <2>2, <2>3, GoalSteady DEF Dispatches
<1>4. ASSUME NEW t \in Tasks, ClassifiedSimple(t)
      PROVE  Steady(db, db', {}) /\ quiet' = quiet /\ tick'.at \notin Dispatches \cup {"apply"}
  <2>1. {t} \cap Present(db) = {} /\ orch.goal \in Goals
    BY <1>4 DEF ClassifiedSimple, ValidDecomposition, OInv, StateFits, GoalFits, Executes
  <2>2. Steady(db, db', {})
    BY <1>0, <1>4, <2>1, DecomposeSteady DEF ClassifiedSimple
  <2> QED BY <1>4, <2>2 DEF ClassifiedSimple, Enter, EndTick, NoTick, Dispatches
<1>5. ASSUME NEW new \in SUBSET (Tasks \ Present(db)), NEW ds \in [new -> SUBSET new],
             Planned(new, ds) \/ Replanned(new, ds)
      PROVE  Steady(db, db', {}) /\ quiet' = quiet /\ tick'.at \notin Dispatches \cup {"apply"}
  <2>1. new \cap Present(db) = {} /\ orch.goal \in Goals
    BY <1>5 DEF Planned, Replanned, OInv, StateFits, GoalFits, Executes
  <2>2. Steady(db, db', {})
    BY <1>0, <1>5, <2>1, DecomposeSteady, ReplanSteady DEF Planned, Replanned
  <2>3. quiet' = quiet /\ tick'.at = "persist"
    BY <1>0, <1>5 DEF Planned, Replanned, TickRecord
  <2> QED BY <2>2, <2>3 DEF Dispatches
<1> QED BY <1>1, <1>2, <1>3, <1>4, <1>5, EmptyHanded

\* An executing tick begins: a live worker is alive for isWorkerAlive, so its
\* task is not recovered, and what is ready after the recovery is pending.
LEMMA ExecuteKeeps == ASSUME OInv, Awake, Execute PROVE Kept
<1> DEFINE stale == {t \in With(db, orch.goal, {"assigned"}) : ~Alive(db.to[t])}
           d == RecoverStale(db, stale)
           n == [NoTick EXCEPT !.at = "dispatch", !.goal = orch.goal,
                               !.ready = ReadyTasks(d) \cap TasksOf(d, orch.goal)]
<1>0. db \in Db
  BY DEF OInv, Consistent, WellTyped
<1>1. stale \in SUBSET Tasks /\ \A t \in stale : db.status[t] = "assigned" /\ ~Alive(db.to[t])
  BY DEF With, TasksOf, Present
<1>2. db' = d /\ tick' = n /\ quiet' = quiet
  BY DEF Execute
<1>3. Steady(db, db', stale)
  BY <1>0, <1>1, <1>2, RecoverSteady
<1>4. ASSUME NEW l \in Locals, work[l] # NoTask PROVE work[l] \notin stale
  <2>1. l \in pool /\ Held(db, work[l], l)
    BY <1>4 DEF Awake, WorkersHold
  <2> HIDE DEF stale
  <2> QED BY <1>1, <2>1 DEF Held, Done, Alive
<1>5. TickHolds(tick', work', db')
  <2>1. \A t \in ReadyTasks(d) : d.status[t] = "pending"
    BY DEF ReadyTasks
  <2>2. n.at = "dispatch" /\ n.ready \subseteq ReadyTasks(d)
    BY DEF NoTick
  <2> HIDE DEF d, n
  <2> QED BY <1>2, <2>1, <2>2 DEF TickHolds, Hand
<1>6. work' = work /\ pool' = pool /\ slept' = slept
  BY <1>2 DEF quiet
<1> HIDE DEF stale, d, n
<1> QED BY <1>3, <1>4, <1>5, <1>6, KeepsWorkers

\* What the dispatch loop goes on with once it has handed over t.
GoesOnAfter(next, t) == /\ next \in TickRecord /\ next.at = "dispatch"
                        /\ next.ready \subseteq Hand(tick) \ {t}

\* HandOver, after a spawn or not.
HandsOver(t, a, next) == HandOver(t, a, next, TRUE) \/ HandOver(t, a, next, FALSE)

\* A task is handed over: it was pending, and so with no live worker.
LEMMA HandOverKeeps ==
  ASSUME OInv, Awake, NEW t \in Tasks, t \in Hand(tick), NEW a \in Agents,
         NEW next, tick.at \in {"dispatch", "spawn"}, GoesOnAfter(next, t),
         HandsOver(t, a, next), NEW v
  PROVE  /\ Steady(db, db', {t}) /\ db'.status[t] = "assigned" /\ db'.to[t] = a
         /\ \A l \in Locals : work[l] # t
         /\ TickHolds(tick', v, db')
<1>1. /\ db \in Db /\ t \in Tasks /\ db.status[t] = "pending"
      /\ \A x \in next.ready : x \in Tasks /\ x # t /\ db.status[x] = "pending" /\ DepsSatisfied(db, x)
  BY DEF OInv, Consistent, WellTyped, Awake, TickHolds, Dispatches, TickFits, Present, GoesOnAfter
<1>2. /\ db' = AssignTask(db, t, a)
      /\ \E at \in {"start", "fund"} :
           tick' = IF a \in Remote THEN [next EXCEPT !.at = at, !.task = t, !.to = a] ELSE next
  BY <1>1 DEF HandOver, HandsOver
<1>3. Steady(db, db', {t}) /\ db'.status[t] = "assigned" /\ db'.to[t] = a
  BY <1>1, <1>2, AssignSteady
<1>4. \A l \in Locals : work[l] # t
  BY <1>1, NotWorked
<1>5. \A x \in next.ready : db'.status[x] = "pending"
  BY <1>1, <1>3 DEF Steady
<1>6. TickHolds(tick', v, db')
  <2>1. CASE a \notin Remote
    BY <1>2, <1>5, <2>1 DEF TickHolds, Hand, GoesOnAfter
  <2>2. CASE a \in Remote
    <3>1. /\ tick'.at \in {"start", "fund"} /\ tick'.task = t /\ tick'.to = a
          /\ tick'.ready = next.ready
      BY <1>2, <2>2 DEF TickRecord, GoesOnAfter
    <3> QED BY <1>3, <1>5, <3>1 DEF TickHolds, Hand
  <2> QED BY <2>1, <2>2
<1> QED BY <1>3, <1>4, <1>6

\* The dispatch loop, up to the transfer.
LEMMA DispatchKeeps ==
  ASSUME OInv, Awake,
         \/ Collect \/ SpawnFailed
         \/ \E t \in Tasks : Spawn(t) \/ \E a \in Agents : DispatchIdle(t, a)
         \/ \E l \in Locals : SpawnedLocal(l)
         \/ \E s \in Sandboxes : SpawnedSandbox(s)
  PROVE  Kept
<1>0. /\ tick \in TickRecord /\ TickFits(tick, db) /\ TickHolds(tick, work, db)
      /\ work \in [Locals -> Tasks \cup {NoTask}]
  BY DEF OInv, TickFits, Awake, RestTyped
<1>1. ASSUME db' = db PROVE Steady(db, db', {})
  BY <1>1 DEF Steady
<1>2. ASSUME NEW t \in Tasks, t \in Hand(tick), NEW a \in Agents, NEW next,
             tick.at \in {"dispatch", "spawn"}, GoesOnAfter(next, t),
             HandsOver(t, a, next), quiet' = quiet
      PROVE  Kept
  <2>1. /\ Steady(db, db', {t}) /\ TickHolds(tick', work', db')
        /\ \A l \in Locals : work[l] # t
    BY <1>2, HandOverKeeps
  <2> QED BY <1>2, <2>1, KeepsWorkers DEF quiet
<1>3. ASSUME Collect PROVE Kept
  <2>1. /\ tick'.at = "apply" /\ tick'.events = {m \in inbox : Authorized(m)}
        /\ db' = db /\ quiet' = quiet
    BY <1>0, <1>3 DEF Collect, TickRecord
  <2>2. ASSUME NEW m \in tick'.events PROVE \A l \in Locals : work[l] # m.task
    <3>1. /\ m \in Results /\ db.status[m.task] = "assigned" /\ db.to[m.task] = m.from
      BY <2>1, <2>2 DEF Authorized, OInv, RestTyped
    <3>2. m.task \in Tasks /\ m.from \notin Locals
      BY <3>1, OrchestratorAssumption DEF Results
    <3> QED BY <3>1, <3>2, NotWorked
  <2>3. TickHolds(tick', work', db')
    BY <2>1, <2>2 DEF TickHolds, Dispatches, quiet
  <2> QED BY <1>1, <2>1, <2>3, KeepsWorkers DEF quiet
<1>4. ASSUME NEW t \in Tasks, Spawn(t) PROVE Kept
  <2>1. /\ tick.at = "dispatch" /\ t \in tick.ready /\ db' = db /\ quiet' = quiet
        /\ tick'.at = "spawn" /\ tick'.task = t /\ tick'.ready = tick.ready \ {t}
    BY <1>0, <1>4 DEF Spawn, TickRecord
  <2>2. TickHolds(tick', work', db')
    BY <1>0, <2>1 DEF TickHolds, Dispatches, Hand
  <2> QED BY <1>1, <2>1, <2>2, KeepsWorkers DEF quiet
<1>5. ASSUME NEW t \in Tasks, NEW a \in Agents, DispatchIdle(t, a) PROVE Kept
  <2> DEFINE n == [tick EXCEPT !.ready = tick.ready \ {t}]
  <2>1. /\ tick.at = "dispatch" /\ t \in tick.ready /\ HandsOver(t, a, n) /\ quiet' = quiet
    BY <1>0, <1>5 DEF DispatchIdle, TickRecord, HandsOver
  <2>2. GoesOnAfter(n, t) /\ t \in Hand(tick)
    BY <1>0, <2>1 DEF TickRecord, Hand, GoesOnAfter
  <2> HIDE DEF n
  <2> QED BY <1>2, <2>1, <2>2
<1>6. ASSUME tick.at = "spawn"
      PROVE  tick.task \in Tasks /\ tick.task \in Hand(tick) /\ GoesOnAfter(NextTask, tick.task)
  BY <1>0, <1>6 DEF TickRecord, Awaits, Hand, NextTask, TickHolds, GoesOnAfter, TickFits
<1>7. ASSUME SpawnFailed PROVE Kept
  <2>1. /\ tick.at = "spawn" /\ quiet' = quiet
        /\ \E a \in {x \in Agents : Usable(x)} \cup {Self} : HandsOver(tick.task, a, NextTask)
    BY <1>7 DEF SpawnFailed, HandsOver
  <2>2. PICK a \in Agents : HandsOver(tick.task, a, NextTask)
    BY <2>1, OrchestratorAssumption
  <2> QED BY <1>2, <1>6, <2>1, <2>2
<1>8. ASSUME NEW l \in Locals, SpawnedLocal(l) PROVE Kept
  <2>1. /\ tick.at = "spawn" /\ HandsOver(tick.task, l, NextTask) /\ l \in Agents
        /\ work' = [work EXCEPT ![l] = tick.task] /\ pool' = pool \cup {l} /\ slept' = slept
    BY <1>8, OrchestratorAssumption DEF SpawnedLocal, HandsOver
  <2>2. /\ Steady(db, db', {tick.task}) /\ db'.status[tick.task] = "assigned"
        /\ db'.to[tick.task] = l /\ TickHolds(tick', work', db')
        /\ \A k \in Locals : work[k] # tick.task
    BY <1>6, <2>1, HandOverKeeps
  <2>3. ASSUME NEW k \in Locals
        PROVE  \/ /\ work'[k] = work[k] /\ (k \in pool => k \in pool')
                  /\ work[k] \notin {tick.task}
               \/ work'[k] # work[k] /\ k \in pool' /\ Held(db', work'[k], k)
    <3>1. CASE k = l
      BY <1>0, <2>1, <2>2, <3>1 DEF Held
    <3>2. CASE k # l
      BY <1>0, <2>1, <2>2, <3>2
    <3> QED BY <3>1, <3>2
  <2> QED BY <2>1, <2>2, <2>3, KeepsWorkers
<1>9. ASSUME NEW s \in Sandboxes, SpawnedSandbox(s) PROVE Kept
  <2>1. tick.at = "spawn" /\ HandsOver(tick.task, s, NextTask) /\ s \in Agents
    BY <1>9, OrchestratorAssumption DEF SpawnedSandbox, HandsOver
  <2>2. work' = work /\ pool' = pool /\ slept' = slept
    BY <1>9 DEF SpawnedSandbox
  <2>3. /\ Steady(db, db', {tick.task}) /\ TickHolds(tick', work', db')
        /\ \A k \in Locals : work[k] # tick.task
    BY <1>6, <2>1, HandOverKeeps
  <2> QED BY <2>2, <2>3, KeepsWorkers
<1> QED BY <1>3, <1>4, <1>5, <1>7, <1>8, <1>9

\* A transfer comes back: its task is in a remote agent's hands, with no worker.
LEMMA FundingKeeps == ASSUME OInv, Awake, Sent \/ NotSent PROVE Kept
<1>0. /\ tick \in TickRecord /\ TickFits(tick, db) /\ TickHolds(tick, work, db)
      /\ tick.at \in {"fund", "start"} /\ tick.task \in Tasks
  BY DEF OInv, TickFits, Awake, Sent, NotSent
<1>1. /\ db.status[tick.task] = "assigned" /\ db.to[tick.task] \in Remote
      /\ \A t \in Hand(tick) : db.status[t] = "pending"
  BY <1>0 DEF TickHolds, TickFits, Dispatches
<1>2. \A l \in Locals : work[l] # tick.task
  BY <1>0, <1>1, NotWorked, OrchestratorAssumption DEF Remote
<1>3. /\ NextTask.at = "dispatch" /\ NextTask.ready = tick.ready /\ Hand(NextTask) = tick.ready
      /\ tick.ready \subseteq Hand(tick)
  BY <1>0 DEF NextTask, TickRecord, Hand
<1>4. TickFits(NextTask, db) /\ TickHolds(NextTask, work, db) /\ tick.task \notin Hand(NextTask)
  <2>1. NextTask \in TickRecord
    BY <1>0 DEF NextTask, TickRecord, Awaits
  <2>2. TickFits(NextTask, db)
    BY <1>0, <1>3, <2>1 DEF TickFits
  <2>3. TickHolds(NextTask, work, db)
    BY <1>1, <1>3 DEF TickHolds
  <2> QED BY <1>1, <1>3, <2>2, <2>3
<1>5. ASSUME Sent PROVE Kept
  <2>1. db' = db /\ tick' = NextTask /\ work' = work /\ pool' = pool /\ slept' = slept
    BY <1>5 DEF Sent
  <2>2. Steady(db, db', {}) /\ TickHolds(tick', work', db')
    BY <1>4, <2>1 DEF Steady
  <2> QED BY <2>1, <2>2, KeepsWorkers
<1>6. ASSUME NotSent PROVE Kept
  <2>1. HandleFailure(tick.task, NextTask) /\ work' = work /\ pool' = pool /\ slept' = slept
    BY <1>6 DEF NotSent, quiet
  <2> QED BY <1>0, <1>2, <1>3, <1>4, <2>1, FailureKeeps
<1> QED BY <1>5, <1>6

\* A result is applied: it is about no live worker's task.
LEMMA ApplyKeeps ==
  ASSUME OInv, Awake, NEW m \in tick.events, ApplySuccess(m) \/ ApplyFailure(m)
  PROVE  Kept
<1>0. /\ tick \in TickRecord /\ TickFits(tick, db) /\ TickHolds(tick, work, db)
      /\ tick.at = "apply" /\ work \in [Locals -> Tasks \cup {NoTask}] /\ db \in Db
  BY DEF OInv, TickFits, Awake, RestTyped, ApplySuccess, ApplyFailure, Consistent, WellTyped
<1>1. m.task \in Tasks /\ \A l \in Locals : work[l] # m.task
  BY <1>0, OrchestratorAssumption DEF TickHolds, TickRecord, Results
<1>2. /\ Rest(m).at = "apply" /\ Rest(m).ready = tick.ready /\ Rest(m).events \subseteq tick.events
      /\ Rest(m) \in TickRecord
  BY <1>0 DEF Rest, TickRecord
<1>3. TickFits(Rest(m), db) /\ TickHolds(Rest(m), work, db)
  BY <1>0, <1>2 DEF TickFits, TickHolds, Hand, Dispatches
<1>4. work' = work /\ pool' = pool /\ slept' = slept
  BY DEF ApplySuccess, ApplyFailure, quiet
<1>5. ASSUME HandleFailure(m.task, Rest(m)) PROVE Kept
  BY <1>0, <1>1, <1>2, <1>3, <1>4, <1>5, FailureKeeps
<1>6. ASSUME CanFinish(db, m.task), db' = CompleteTask(db, m.task), tick' = Rest(m) PROVE Kept
  <2>1. Steady(db, db', {m.task}) /\ db'.status[m.task] = "completed"
    BY <1>0, <1>1, <1>6, CompleteSteady
  <2>2. TickHolds(tick', work', db')
    BY <1>2, <1>3, <1>4, <1>6, <2>1, TickCarries DEF Dispatches
  <2> QED BY <1>1, <1>4, <2>1, <2>2, KeepsWorkers
<1> QED BY <1>5, <1>6 DEF ApplySuccess, ApplyFailure

\* A worker ends or delegates.
LEMMA WorkersKeep ==
  ASSUME OInv, Awake,
         \/ WorkerStep
         \/ \E l \in Locals, t \in Tasks, deps \in SUBSET Tasks : Delegate(l, t, deps)
  PROVE  Kept
<1>0. /\ db \in Db /\ Consistent(db) /\ TickFits(tick, db) /\ TickHolds(tick, work, db)
      /\ work \in [Locals -> Tasks \cup {NoTask}]
  BY DEF OInv, Awake, RestTyped, Consistent, WellTyped
<1>1. ASSUME NEW l \in Locals, NEW ok \in BOOLEAN, WorkerEnds(l, ok) PROVE Kept
  <2>1. /\ work[l] \in Tasks /\ Held(db, work[l], l) /\ slept' = slept /\ tick' = tick
        /\ work' = [work EXCEPT ![l] = NoTask] /\ pool' = pool \ {l}
    BY <1>0, <1>1 DEF WorkerEnds, Live, rest, Awake, WorkersHold
  <2>2. \E F \in SUBSET {work[l]} :
           Steady(db, db', F) /\ (F # {} => CanFinish(db, work[l]))
    <3>1. CASE ~CanFinish(db, work[l])
      <4>1. db' = db
        BY <1>1, <3>1 DEF WorkerEnds
      <4> QED BY <4>1 DEF Steady
    <3>2. CASE CanFinish(db, work[l])
      <4>1. db' = CompleteTask(db, work[l]) \/ db' = FailTask(db, work[l])
        BY <1>1, <3>2 DEF WorkerEnds
      <4>2. Steady(db, db', {work[l]})
        BY <1>0, <2>1, <3>2, <4>1, CompleteSteady, FailSteady
      <4> QED BY <3>2, <4>2
    <3> QED BY <3>1, <3>2
  <2>3. PICK F \in SUBSET {work[l]} :
           Steady(db, db', F) /\ (F # {} => CanFinish(db, work[l]))
    BY <2>2
  <2>4. CanFinish(db, work[l]) =>
           db.status[work[l]] = "assigned" /\ db.to[work[l]] = l /\ l \notin Remote
    BY <2>1, OrchestratorAssumption DEF Held, Done, CanFinish, Terminal, Remote
  <2>5. ASSUME NEW k \in Locals
        PROVE  work'[k] = NoTask \/ (work'[k] = work[k] /\ (k \in pool => k \in pool') /\ work[k] \notin F)
    <3>1. CASE k = l
      BY <1>0, <2>1, <3>1
    <3>2. CASE k # l /\ work[k] # NoTask
      <4>1. Held(db, work[k], k) /\ work'[k] = work[k] /\ (k \in pool => k \in pool')
        BY <1>0, <2>1, <3>2 DEF Awake, WorkersHold
      <4>2. CanFinish(db, work[l]) => work[k] # work[l]
        BY <2>4, <3>2, <4>1 DEF Held, Done
      <4> QED BY <2>3, <4>1, <4>2
    <3>3. CASE k # l /\ work[k] = NoTask
      BY <1>0, <2>1, <3>3
    <3> QED BY <3>1, <3>2, <3>3
  <2>6. TickHolds(tick', work', db')
    <3>1. tick.at \in Dispatches => F \cap Hand(tick) = {}
      BY <1>0, <2>3, <2>4 DEF TickHolds
    <3>2. tick.at \in {"fund", "start"} => tick.task \notin F
      BY <1>0, <2>3, <2>4 DEF TickHolds, TickFits
    <3>3. TickHolds(tick, work', db')
      BY <1>0, <2>3, <2>5, <3>1, <3>2, TickCarries
    <3> QED BY <2>1, <3>3
  <2> QED BY <2>1, <2>3, <2>5, <2>6, KeepsWorkers
<1>2. ASSUME NEW l \in Locals, NEW t \in Tasks, NEW deps \in SUBSET Tasks, Delegate(l, t, deps)
      PROVE  Kept
  <2> DEFINE g == db.of[work[l]]
             ds == [x \in {t} |-> deps]
  <2>1. work[l] \in Present(db)
    BY <1>2 DEF Delegate, Live, OInv, WorkFits
  <2>2. g \in Goals
    BY <1>0, <2>1 DEF Consistent, WellTyped, Present, Db
  <2>3. {t} \cap Present(db) = {} /\ db' = DecomposeGoal(db, g, {t}, ds)
    BY <1>2 DEF Delegate, ValidDecomposition
  <2>4. tick' = tick /\ work' = work /\ pool' = pool /\ slept' = slept
    BY <1>2 DEF Delegate, rest
  <2> HIDE DEF g, ds
  <2>5. Steady(db, db', {})
    BY <1>0, <2>2, <2>3, DecomposeSteady
  <2>6. TickHolds(tick', work', db')
    BY <1>0, <2>4, <2>5, TickCarries
  <2> QED BY <2>4, <2>5, <2>6, KeepsWorkers
<1> QED BY <1>1, <1>2 DEF WorkerStep

\* Results come in, health checks write, the parent uses its tools between ticks.
LEMMA OthersKeep ==
  ASSUME OInv, Awake,
         \/ \E m \in Results : Report(m)
         \/ \E a \in Children, status \in HealthReports : CheckChild(a, status)
         \/ \E g \in Goals : CreateGoal(g) \/ CancelByTool(g)
         \/ \E t \in Tasks : CompleteByTool(t)
  PROVE  Kept
<1>0. /\ db \in Db /\ TickFits(tick, db) /\ TickHolds(tick, work, db)
      /\ UNCHANGED <<tick, slept, work, pool>>
  BY DEF OInv, Awake, Consistent, WellTyped, Report, CheckChild, CreateGoal, CancelByTool,
     CompleteByTool, rest
<1>1. ASSUME NEW F, Steady(db, db', F), F = {} \/ tick.at = "nothing",
             \A t \in F : db'.status[t] \in Done
      PROVE  Kept
  <2>1. TickHolds(tick, work', db')
    BY <1>0, <1>1, TickCarries DEF Dispatches
  <2> QED BY <1>0, <1>1, <2>1, KeepsWorkers
<1>2. ASSUME db' = db PROVE Kept
  <2>1. Steady(db, db', {})
    BY <1>2 DEF Steady
  <2> QED BY <1>1, <2>1
<1>3. ASSUME NEW g \in Goals, CreateGoal(g) PROVE Kept
  <2>1. Steady(db, db', {})
    BY <1>0, <1>3, GoalSteady DEF CreateGoal
  <2> QED BY <1>1, <2>1
<1>4. ASSUME NEW g \in Goals, CancelByTool(g) PROVE Kept
  <2>1. tick.at = "nothing" /\ db' = CancelGoal(db, g)
    BY <1>4 DEF CancelByTool
  <2>2. PICK F \in SUBSET Tasks : Steady(db, db', F) /\ \A t \in F : db'.status[t] = "cancelled"
    BY <1>0, <2>1, CancelSteady
  <2> QED BY <1>1, <2>1, <2>2 DEF Done
<1>5. ASSUME NEW t \in Tasks, CompleteByTool(t) PROVE Kept
  <2>1. tick.at = "nothing" /\ CanFinish(db, t) /\ db' = CompleteTask(db, t)
    BY <1>5 DEF CompleteByTool
  <2>2. Steady(db, db', {t}) /\ db'.status[t] = "completed"
    BY <1>0, <2>1, CompleteSteady
  <2> QED BY <1>1, <2>1, <2>2 DEF Done
<1> QED BY <1>2, <1>3, <1>4, <1>5 DEF Report, CheckChild

\* A crash ends the workers and the tick; after a wake cycle nothing is claimed.
LEMMA RestartsKeep == ASSUME OInv, Crash \/ NewCycle PROVE Kept
<1>1. ASSUME Crash PROVE Kept
  <2>1. /\ \A l \in Locals : work'[l] = NoTask
        /\ tick' = NoTick
    BY <1>1 DEF Crash
  <2>2. WorkersHold(work', pool', db') /\ TickHolds(tick', work', db')
    BY <2>1 DEF WorkersHold, TickHolds, NoTick, Dispatches
  <2>3. \A l \in Locals : KeepsTask(l)
    BY <2>1 DEF KeepsTask, Live
  <2> QED BY <2>2, <2>3 DEF Kept
<1>2. ASSUME NewCycle PROVE Kept
  <2>1. slept' /\ db' = db
    BY <1>2 DEF NewCycle
  <2>2. \A l \in Locals : KeepsTask(l)
    BY <2>1 DEF KeepsTask
  <2> QED BY <2>1, <2>2 DEF Kept
<1> QED BY <1>1, <1>2

\* Only a crash and a new wake cycle write `slept'.
LEMMA SleepsOn == ASSUME [Next]_vars PROVE slept' = slept \/ Crash \/ NewCycle
<1>1. ASSUME TickStep PROVE slept' = slept
  <2>1. ASSUME quiet' = quiet PROVE slept' = slept
    BY <2>1 DEF quiet
  <2>2. ASSUME NEW phase, NEW at, BeginPhase(phase, at) PROVE quiet' = quiet
    BY <2>2 DEF BeginPhase
  <2>3. CASE \/ IdlePhase \/ ClassifyStarted \/ Classify \/ ClassifiedComplex
             \/ Plan \/ Persisted \/ Review \/ Execute \/ SpawnFailed \/ NotSent \/ Collect
    BY <2>1, <2>2, <2>3 DEF IdlePhase, ClassifyStarted, Classify, ClassifiedComplex, Plan,
       Persisted, Review, Execute, SpawnFailed, NotSent, Collect
  <2>4. CASE Progress \/ Replanning \/ Complete \/ Recalled \/ FailedPhase
    BY <2>1, <2>2, <2>4 DEF Progress, Replanning, Complete, Recalled, FailedPhase
  <2>5. CASE \E t \in Tasks : ClassifiedSimple(t) \/ Spawn(t) \/ \E a \in Agents : DispatchIdle(t, a)
    BY <2>1, <2>5 DEF ClassifiedSimple, Spawn, DispatchIdle
  <2>6. ASSUME NEW new, NEW ds, Planned(new, ds) \/ Replanned(new, ds) PROVE slept' = slept
    BY <2>1, <2>6 DEF Planned, Replanned
  <2>7. CASE \E phase \in {"executing", "planning", "plan_review"} : Reviewed(phase)
    BY <2>1, <2>7 DEF Reviewed
  <2>8. CASE \/ Sent \/ \E l \in Locals : SpawnedLocal(l)
             \/ \E s \in Sandboxes : SpawnedSandbox(s)
    BY <2>8 DEF Sent, SpawnedLocal, SpawnedSandbox
  <2>9. CASE \E m \in tick.events : ApplySuccess(m) \/ ApplyFailure(m)
    BY <2>1, <2>9 DEF ApplySuccess, ApplyFailure
  <2> QED BY <1>1, <2>3, <2>4, <2>5, <2>6, <2>7, <2>8, <2>9 DEF TickStep
<1>2. ASSUME WorkerStep \/ Others PROVE slept' = slept \/ Crash \/ NewCycle
  BY <1>2 DEF WorkerStep, WorkerEnds, Others, Delegate, Report, CheckChild, CreateGoal,
     CancelByTool, CompleteByTool, rest
<1>3. ASSUME UNCHANGED vars PROVE slept' = slept
  BY <1>3 DEF vars
<1> QED BY <1>1, <1>2, <1>3 DEF Next

\* Every step; once the agent has slept, only a crash makes the claim again.
LEMMA StepKeeps == ASSUME OInv, HoldInv, [Next]_vars PROVE Kept
<1>1. CASE ~slept
  <2>1. Awake
    BY <1>1 DEF HoldInv, Awake
  <2>2. ASSUME TickStep PROVE Kept
    BY <2>1, <2>2, PhasesKeep, ExecuteKeeps, DispatchKeeps, FundingKeeps, ApplyKeeps DEF TickStep
  <2>3. ASSUME WorkerStep \/ Others PROVE Kept
    BY <2>1, <2>3, WorkersKeep, OthersKeep, RestartsKeep DEF Others
  <2>4. ASSUME UNCHANGED vars PROVE Kept
    <3>1. Steady(db, db', {}) /\ tick'= tick /\ UNCHANGED <<work, pool, slept>>
      BY <2>4 DEF vars, Steady
    <3>2. TickHolds(tick', work', db')
      BY <2>1, <3>1, TickCarries DEF Awake, OInv
    <3> QED BY <2>1, <3>1, <3>2, KeepsWorkers
  <2> QED BY <2>2, <2>3, <2>4 DEF Next
<1>2. CASE slept
  <2>1. CASE Crash \/ NewCycle
    BY <2>1, RestartsKeep
  <2>2. CASE slept' = slept
    BY <1>2, <2>2 DEF Kept
  <2>3. slept' = slept \/ Crash \/ NewCycle
    BY SleepsOn
  <2> QED BY <2>1, <2>2, <2>3
<1> QED BY <1>1, <1>2
--------------------------------------------------------------------------------
(* The theorems *)

\* The conjunction of everything below, in every reachable state.
THEOREM Invariant == Spec => []OInv
<1>1. OInv /\ [Next]_vars => OInv'
  BY StepGood, StutterGood DEF Good
<1> QED BY <1>1, InitGood, PTL DEF Spec

\* Every variable has its type, the saved goal exists outside idle, and no ended
\* worker is in the pool.
THEOREM TypeCorrect == Spec => []TypeOk
BY Invariant, InvImplies, PTL

\* The saved phase fits the graph at every await, whoever wrote the graph while
\* the tick awaited, and after any number of crashes.
THEOREM PhaseFits == Spec => []PhaseFitsGraph
BY Invariant, InvImplies, PTL

\* However the tick, the workers, the children's results, the tools, the health
\* checks and crashes interleave, the tables only change the way the task store
\* allows; so all that TaskStoreProofs proves of the store holds here too.
THEOREM ImplementsStore == Spec => RefinesStore
<1>1. Init => Store!Init
  BY DEF Init, Store!Init, EmptyDb, Store!EmptyDb
<1>2. OInv /\ [Next]_vars => [Store!Next]_db
  BY StepGood, StutterGood DEF Good
<1> QED BY <1>1, <1>2, Invariant, PTL DEF Spec, RefinesStore, Store!Spec

\* In particular the graph is sound, nothing is asleep for nothing or assigned before
\* its dependencies, a completed goal has no open task, and an active one can move,
\* at every await of the tick and after any crash.
THEOREM GraphStaysConsistent ==
  Spec => [](/\ GraphSound(db) /\ BlockedWaits(db) /\ AssignedHasDeps(db) /\ CompletedIsDone(db)
             /\ \A g \in Goals : db.goal[g] = "active" /\ TasksOf(db, g) # {} =>
                  \/ TasksOf(db, g) \cap ReadyTasks(db) # {}
                  \/ With(db, g, {"assigned", "failed", "cancelled"}) # {})
<1> DEFINE Moves == \A g \in Goals : db.goal[g] = "active" /\ TasksOf(db, g) # {} =>
                      \/ TasksOf(db, g) \cap ReadyTasks(db) # {}
                      \/ With(db, g, {"assigned", "failed", "cancelled"}) # {}
<1>1. OInv => GraphSound(db) /\ BlockedWaits(db) /\ AssignedHasDeps(db) /\ CompletedIsDone(db)
  BY DEF OInv, Consistent
<1>2. OInv => Moves
  BY OpenWorkMoves DEF OInv
<1> HIDE DEF Moves
<1>3. OInv => /\ GraphSound(db) /\ BlockedWaits(db) /\ AssignedHasDeps(db) /\ CompletedIsDone(db)
              /\ Moves
  BY <1>1, <1>2
<1> QED BY <1>3, Invariant, PTL DEF Moves

\* In the cycles before the agent has slept with workers at work, every live
\* worker is in the pool isWorkerAlive asks and holds the task it runs, what a
\* tick is about to hand over is pending, and what it pays for is assigned.
THEOREM HandsHold == Spec => []HoldInv
<1>1. Init => HoldInv
  BY DEF Init, HoldInv, WorkersHold, TickHolds, NoTick, Dispatches
<1>2. OInv /\ HoldInv /\ [Next]_vars => HoldInv'
  <2> SUFFICES ASSUME OInv, HoldInv, [Next]_vars PROVE HoldInv'
    OBVIOUS
  <2>1. Kept
    BY StepKeeps
  <2> QED BY <2>1 DEF Kept, HoldInv, WorkersHold, TickHolds, Held, Hand
<1> QED BY <1>1, <1>2, Invariant, PTL DEF Spec

\* Whatever happens while a transfer or a message to an agent is under way, the
\* task it is for stays in that agent's hands.
THEOREM PaysForCurrent == Spec => []PaysForCurrentTask
<1>1. HoldInv => PaysForCurrentTask
  BY DEF HoldInv, TickHolds, PaysForCurrentTask
<1> QED BY <1>1, HandsHold, PTL

\* Until the agent has slept, nobody takes a task from a live worker: not stale
\* recovery, not a failure upstream, not a replan, not a late result.
THEOREM FirstCycleKeeps == Spec => FirstCycleKeepsTask
<1>1. OInv /\ HoldInv /\ [Next]_vars => [~slept => \A l \in Locals : KeepsTask(l)]_vars
  BY StepKeeps DEF Kept
<1> QED BY <1>1, HandsHold, Invariant, PTL DEF Spec, FirstCycleKeepsTask
================================================================================
