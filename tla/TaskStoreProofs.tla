------------------------- MODULE TaskStoreProofs -------------------------
(***************************************************************************)
(* The task graph keeps its promises for any number of goals, tasks,       *)
(* agents and retries; and the health monitor, which writes past them, does *)
(* not break them (module ColonyHealth, last section).                     *)
(***************************************************************************)
EXTENDS ColonyHealth, TaskGraphProofs

\* The strengthening; see Consistent.
IInv == Consistent(db)
---------------------------------------------------------------------------
(* The invariant *)

\* The empty database is consistent.
LEMMA InitConsistent == Init => IInv
<1> SUFFICES Consistent(EmptyDb)
  BY DEF Init, IInv
<1>1. EmptyDb \in Db /\ Present(EmptyDb) = {}
  BY TaskGraphAssumption DEF EmptyDb, Db, GoalStatus, TaskStatus, Present
<1>2. \A g \in Goals : EmptyDb.goal[g] = "none"
  BY DEF EmptyDb
<1>3. \A t \in Tasks : EmptyDb.status[t] = "absent" /\ EmptyDb.of[t] = NoGoal
  BY DEF EmptyDb
<1> QED BY <1>1, <1>2, <1>3 DEF Consistent, WellTyped, GraphSound, AcyclicOn, BlockedWaits,
                               AssignedHasDeps, CompletedIsDone, ActiveHasOpenWork

\* Every operation of the task store keeps the database consistent.
LEMMA StepConsistent == IInv /\ [Next]_db => IInv'
<1> SUFFICES ASSUME IInv, [Next]_db PROVE Consistent(db')
  BY DEF IInv, Consistent
<1>0. Consistent(db) /\ db \in Db
  BY DEF IInv, Consistent, WellTyped
<1>1. ASSUME NEW g \in Goals, CreateGoal(g) PROVE Consistent(db')
  BY <1>0, <1>1, CreatePreserves DEF CreateGoal
<1>2. ASSUME NEW g \in Goals, FinishGoal(g) PROVE Consistent(db')
  <2>1. GoalOk(SetGoal(db, g, "completed"), g)
    BY <1>0, <1>2, SetGoalFacts DEF FinishGoal
  <2> QED BY <1>0, <1>2, <2>1, SetGoalPreserves DEF FinishGoal, GoalStatus
<1>3. ASSUME NEW g \in Goals, FailGoal(g) PROVE Consistent(db')
  <2>1. GoalOk(SetGoal(db, g, "failed"), g)
    BY <1>0, SetGoalFacts
  <2> QED BY <1>0, <1>3, <2>1, SetGoalPreserves DEF FailGoal, GoalStatus
<1>4. ASSUME NEW g \in Goals, Cancel(g) PROVE Consistent(db')
  BY <1>0, <1>4, CancelPreserves DEF Cancel
<1>5. ASSUME NEW g \in Goals, Prune(g) PROVE Consistent(db')
  BY <1>0, <1>5, PrunePreserves DEF Prune
<1>6. ASSUME NEW g \in Goals, NEW new \in SUBSET Tasks, NEW ds \in [new -> SUBSET Tasks],
             Decompose(g, new, ds)
      PROVE  Consistent(db')
  <2>1. ConsistentBut(db, g)
    BY <1>0, GoalsOk DEF Consistent, ConsistentBut
  <2> QED BY <1>6, <2>1, DecomposePreserves DEF Decompose
<1>7. ASSUME NEW g \in Goals, NEW new \in SUBSET Tasks, NEW ds \in [new -> SUBSET Tasks],
             Replan(g, new, ds)
      PROVE  Consistent(db')
  BY <1>0, <1>7, ReplanPreserves DEF Replan
<1>8. ASSUME NEW t \in Tasks, Complete(t) PROVE Consistent(db')
  BY <1>0, <1>8, CompletePreserves DEF Complete
<1>9. ASSUME NEW t \in Tasks, Fail(t) PROVE Consistent(db')
  BY <1>0, <1>9, FailPreserves DEF Fail
<1>10. ASSUME NEW t \in Tasks, FailAndReopen(t) PROVE Consistent(db')
  BY <1>0, <1>10, FailAndReopenPreserves DEF FailAndReopen
<1>11. ASSUME NEW t \in Tasks, NEW a \in Agents, Assign(t, a) PROVE Consistent(db')
  BY <1>0, <1>11, AssignPreserves DEF Assign
<1>12. ASSUME NEW S \in SUBSET Tasks, Recover(S) PROVE Consistent(db')
  BY <1>0, <1>12, RecoverPreserves DEF Recover
<1>13. CASE UNCHANGED db
  BY <1>0, <1>13
<1> QED BY <1>1, <1>2, <1>3, <1>4, <1>5, <1>6, <1>7, <1>8, <1>9, <1>10, <1>11, <1>12, <1>13
        DEF Next

\* The conjunction of everything below, in every reachable state.
THEOREM Invariant == Spec => []IInv
BY InitConsistent, StepConsistent, PTL DEF Spec

\* Every value of the two tables is one the schema and the code allow.
THEOREM TypeCorrect == Spec => []TypeOk
<1>1. IInv => TypeOk
  BY DEF IInv, Consistent, TypeOk
<1> QED BY <1>1, Invariant, PTL

\* decomposeGoal's checks keep dependencies inside one goal and free of cycles,
\* over any number of decompositions of any number of goals.
THEOREM GraphStaysSound == Spec => []GraphIsSound
<1>1. IInv => GraphIsSound
  BY DEF IInv, Consistent, GraphIsSound
<1> QED BY <1>1, Invariant, PTL

\* No task is left blocked once everything it waits for is completed.
THEOREM NoLostWakeUp == Spec => []BlockedIsWaiting
<1>1. IInv => BlockedIsWaiting
  BY DEF IInv, Consistent, BlockedIsWaiting
<1> QED BY <1>1, Invariant, PTL

\* A task is in an agent's hands only after all its dependencies.
THEOREM DependencyOrder == Spec => []AssignedAfterDeps
<1>1. IInv => AssignedAfterDeps
  BY DEF IInv, Consistent, AssignedAfterDeps
<1> QED BY <1>1, Invariant, PTL

\* A goal is called completed only while no task of it is open.
THEOREM CompletedMeansDone == Spec => []CompletedGoalIsDone
<1>1. IInv => CompletedGoalIsDone
  BY DEF IInv, Consistent, CompletedGoalIsDone
<1> QED BY <1>1, Invariant, PTL

\* The orchestrator of an active goal is never left without a next move.
THEOREM ActiveGoalsMove == Spec => []ActiveGoalCanMove
<1>1. IInv => ActiveGoalCanMove
  BY OpenWorkMoves DEF IInv, ActiveGoalCanMove
<1> QED BY <1>1, Invariant, PTL
---------------------------------------------------------------------------
(* Finished work stays finished *)

\* Every operation leaves finished work alone.
LEMMA StepKeepsDone == IInv /\ Next => KeepsDone(db, db')
<1> SUFFICES ASSUME IInv, Next PROVE KeepsDone(db, db')
  OBVIOUS
<1>0. db \in Db
  BY DEF IInv, Consistent, WellTyped
<1>1. ASSUME NEW g \in Goals, CreateGoal(g) \/ FinishGoal(g) \/ FailGoal(g)
      PROVE  KeepsDone(db, db')
  BY <1>0, <1>1, SetGoalKeeps DEF CreateGoal, FinishGoal, FailGoal, KeepsDone
<1>2. ASSUME NEW g \in Goals, Cancel(g) PROVE KeepsDone(db, db')
  BY <1>0, <1>2 DEF Cancel, CancelGoal, KeepsDone, With, Db
<1>3. ASSUME NEW g \in Goals, Prune(g) PROVE KeepsDone(db, db')
  BY <1>0, <1>3 DEF Prune, PruneGoal, KeepsDone
<1>4. ASSUME NEW g \in Goals, NEW new \in SUBSET Tasks, NEW ds \in [new -> SUBSET Tasks],
             Decompose(g, new, ds)
      PROVE  KeepsDone(db, db')
  BY <1>0, <1>4, DecomposeKeeps DEF Decompose, ValidDecomposition
<1>5. ASSUME NEW g \in Goals, NEW new \in SUBSET Tasks, NEW ds \in [new -> SUBSET Tasks],
             Replan(g, new, ds)
      PROVE  KeepsDone(db, db')
  <2> DEFINE r == ResetForReplan(db, g)
  <2>1. r \in Db /\ new \cap Present(r) = {}
    BY <1>0, <1>5, ResetKeeps DEF Replan, ValidDecomposition
  <2>2. KeepsDone(r, DecomposeGoal(r, g, new, ds))
    BY <2>1, DecomposeKeeps
  <2> QED BY <1>0, <1>5, <2>2, ResetKeeps DEF Replan, KeepsDone
<1>6. ASSUME NEW t \in Tasks, Complete(t) PROVE KeepsDone(db, db')
  BY <1>0, <1>6, CompleteKeeps DEF Complete
<1>7. ASSUME NEW t \in Tasks, Fail(t) PROVE KeepsDone(db, db')
  BY <1>0, <1>7, FailKeeps DEF Fail
<1>8. ASSUME NEW t \in Tasks, FailAndReopen(t) PROVE KeepsDone(db, db')
  <2>1. KeepsDone(db, FailTask(db, t))
    BY <1>0, <1>8, FailKeeps DEF FailAndReopen
  <2>2. SetGoal(FailTask(db, t), db.of[t], "active").status = FailTask(db, t).status
    BY DEF SetGoal, FailTask, RetryTask, FailForGood, Refresh, BlockDependents
  <2> QED BY <1>8, <2>1, <2>2 DEF FailAndReopen, KeepsDone
<1>9. ASSUME NEW t \in Tasks, NEW a \in Agents, Assign(t, a) PROVE KeepsDone(db, db')
  BY <1>0, <1>9 DEF Assign, AssignTask, ReadyTasks, KeepsDone, Db
<1>10. ASSUME NEW S \in SUBSET Tasks, Recover(S) PROVE KeepsDone(db, db')
  BY <1>0, <1>10 DEF Recover, RecoverStale, KeepsDone, Db
<1> QED BY <1>1, <1>2, <1>3, <1>4, <1>5, <1>6, <1>7, <1>8, <1>9, <1>10 DEF Next

\* A completed or cancelled task is never reopened, by any caller in any order.
THEOREM DoneStaysDone == Spec => DoneIsFinal
<1>1. IInv /\ [Next]_db =>
        [\A t \in Tasks : db.status[t] \in {"completed", "cancelled"} =>
            db'.status[t] \in {db.status[t], "absent"}]_db
  BY StepKeepsDone DEF KeepsDone
<1> QED BY <1>1, Invariant, PTL DEF Spec, DoneIsFinal
---------------------------------------------------------------------------
(* The health monitor beside the task store's callers *)

\* The values of the monitor's own variables.
MonitorTyped ==
  /\ up \subseteq Agents
  /\ report \in [Agents -> Tasks \cup {NoTask}]
  /\ misled \in BOOLEAN

\* No task is reported for two children.
ReportsDiffer ==
  \A a, b \in Agents : report[a] # NoTask /\ report[a] = report[b] => a = b

\* A reported task nobody touched still lies with the child it was reported for.
ReportHolds ==
  \A a \in Agents : report[a] \in Tasks \ touched =>
    db.status[report[a]] = "assigned" /\ db.to[report[a]] = a

\* HealKeepsGraph is not inductive: a heal is harmless because of what the report
\* still says of its task, and because the whole of Consistent held before.
ColonyInv ==
  /\ MonitorTyped /\ ReportsDiffer
  /\ misled \/ (Consistent(db) /\ ReportHolds)

\* reassignTask on a task that is assigned, whoever the replacement is, leaves the
\* database as consistent as it was, although it looks at no dependency and
\* refreshes no goal.
LEMMA ReassignPreserves ==
  ASSUME NEW d, Consistent(d), NEW t \in Tasks, d.status[t] = "assigned",
         NEW b \in Agents \cup {NoAgent}
  PROVE  /\ Consistent(ReassignTask(d, t, b))
         /\ \A x \in Tasks \ {t} :
              /\ ReassignTask(d, t, b).status[x] = d.status[x]
              /\ ReassignTask(d, t, b).to[x] = d.to[x]
<1> DEFINE e == ReassignTask(d, t, b)
<1>0. d \in Db /\ d.retries[t] \in 0 .. MaxRetries
  BY DEF Consistent, WellTyped, Db
<1>1. /\ e \in Db
      /\ e.goal = d.goal /\ e.of = d.of /\ e.deps = d.deps
      /\ e.status[t] \in {"pending", "assigned", "failed"}
      /\ \A x \in Tasks \ {t} : e.status[x] = d.status[x] /\ e.to[x] = d.to[x]
  <2>1. CASE d.retries[t] + 1 > MaxRetries
    <3>1. e = [d EXCEPT !.status[t] = "failed"]
      BY <2>1 DEF ReassignTask
    <3> HIDE DEF e
    <3> QED BY <1>0, <3>1 DEF Db, TaskStatus
  <2>2. CASE ~(d.retries[t] + 1 > MaxRetries)
    <3> DEFINE s == IF b = NoAgent THEN "pending" ELSE "assigned"
    <3>1. e = [d EXCEPT !.status[t] = s, !.to[t] = b, !.retries[t] = @ + 1]
      BY <2>2 DEF ReassignTask
    <3>2. d.retries[t] + 1 \in 0 .. MaxRetries
      BY <1>0, <2>2, TaskGraphAssumption
    <3>3. s \in {"pending", "assigned"} /\ s \in TaskStatus
      BY DEF TaskStatus
    <3> HIDE DEF s, e
    <3> QED BY <1>0, <3>1, <3>2, <3>3 DEF Db
  <2> QED BY <2>1, <2>2
<1>2. DepsSatisfied(d, t)
  BY DEF Consistent, AssignedHasDeps
<1> HIDE DEF e
<1>3. Consistent(e)
  BY <1>0, <1>1, <1>2, StatusStep
<1> QED BY <1>1, <1>3 DEF e

\* The monitor starts with an empty report on a consistent database.
LEMMA InitColony == ColonyInit => ColonyInv
<1> SUFFICES ASSUME ColonyInit PROVE ColonyInv
  OBVIOUS
<1>1. Consistent(db)
  BY InitConsistent DEF ColonyInit, IInv
<1>2. \A a \in Agents : report[a] = NoTask
  BY DEF ColonyInit
<1>3. MonitorTyped
  BY DEF ColonyInit, MonitorTyped
<1> QED BY <1>1, <1>2, <1>3, ColonyAssumption DEF ColonyInv, ReportsDiffer, ReportHolds

\* A pass that only drops entries of its report.
LEMMA ReportShrinks ==
  ASSUME ColonyInv, UNCHANGED <<db, misled>>, up' \subseteq Agents,
         report' \in [Agents -> Tasks \cup {NoTask}],
         \A a \in Agents : report'[a] \in {report[a], NoTask},
         \A a \in Agents : report'[a] \in Tasks \cap touched => report'[a] \in touched'
  PROVE  ColonyInv'
<1>1. MonitorTyped' /\ ReportsDiffer'
  BY DEF ColonyInv, MonitorTyped, ReportsDiffer
<1>2. ASSUME ReportHolds PROVE ReportHolds'
  BY <1>2, ColonyAssumption DEF ReportHolds
<1> QED BY <1>1, <1>2 DEF ColonyInv

LEMMA StepColony == ColonyInv /\ [ColonyNext]_vars => ColonyInv'
<1> SUFFICES ASSUME ColonyInv, [ColonyNext]_vars PROVE ColonyInv'
  OBVIOUS
<1>0. /\ MonitorTyped /\ ReportsDiffer
      /\ ~misled => Consistent(db) /\ ReportHolds
  BY DEF ColonyInv
<1>1. CASE Others
  <2>1. MonitorTyped' /\ ReportsDiffer' /\ misled' = misled /\ report' = report
    BY <1>0, <1>1 DEF Others, MonitorTyped, ReportsDiffer
  <2>2. ASSUME ~misled PROVE Consistent(db')
    BY <1>0, <1>1, <2>2, StepConsistent DEF IInv, Others
  <2>3. ASSUME ~misled PROVE ReportHolds'
    <3> SUFFICES ASSUME NEW a \in Agents, report[a] \in Tasks \ touched'
                 PROVE  db'.status[report[a]] = "assigned" /\ db'.to[report[a]] = a
      BY <2>1 DEF ReportHolds
    <3>1. report[a] \in Reported
      BY ColonyAssumption DEF Reported
    <3>2. report[a] \notin Changed /\ report[a] \notin touched
      BY <1>1, <3>1 DEF Others
    <3> QED BY <1>0, <2>3, <3>2 DEF ReportHolds, Changed
  <2> QED BY <2>1, <2>2, <2>3 DEF ColonyInv
<1>2. CASE Abandon
  BY <1>0, <1>2, ReportShrinks, ColonyAssumption DEF Abandon, MonitorTyped, graph
<1>3. ASSUME NEW S \in SUBSET Agents, CheckAll(S) PROVE ColonyInv'
  <2>1. \A a \in Agents : report'[a] = IF a \in S THEN ActiveTask(a) ELSE NoTask
    BY <1>3 DEF CheckAll
  <2>2. \A a \in Agents : report'[a] # NoTask =>
          /\ report'[a] \in Tasks
          /\ db.status[report'[a]] = "assigned" /\ db.to[report'[a]] = a
    <3> SUFFICES ASSUME NEW a \in Agents, ActiveTask(a) # NoTask
                 PROVE  ActiveTask(a) \in ActiveTasks(a)
      BY <2>1 DEF ActiveTasks
    <3> QED BY DEF ActiveTask
  <2>3. MonitorTyped'
    <3>1. report' = [a \in Agents |-> IF a \in S THEN ActiveTask(a) ELSE NoTask]
      BY <1>3 DEF CheckAll
    <3>2. \A a \in Agents : report'[a] \in Tasks \cup {NoTask}
      BY <2>2
    <3>3. report' \in [Agents -> Tasks \cup {NoTask}]
      BY <3>1, <3>2
    <3> QED BY <1>0, <1>3, <3>3 DEF CheckAll, MonitorTyped
  <2>4. ReportsDiffer'
    BY <2>2 DEF ReportsDiffer
  <2>5. ReportHolds' /\ UNCHANGED <<db, misled>>
    BY <1>3, <2>2, ColonyAssumption DEF ReportHolds, CheckAll
  <2> QED BY <1>0, <2>3, <2>4, <2>5 DEF ColonyInv
<1>4. ASSUME NEW a \in Agents, ChildStatus(a) PROVE ColonyInv'
  BY <1>0, <1>4, ReportShrinks DEF ChildStatus, MonitorTyped, graph
<1>5. ASSUME NEW a \in Agents, HealGone(a) \/ StopAgent(a) PROVE ColonyInv'
  <2>1. /\ UNCHANGED <<db, misled>> /\ up' \subseteq Agents
        /\ report' = [report EXCEPT ![a] = NoTask]
        /\ touched' = touched \ {report[a]} /\ report[a] # NoTask
    BY <1>0, <1>5, ColonyAssumption DEF HealGone, StopAgent, MonitorTyped, graph
  <2>2. /\ report' \in [Agents -> Tasks \cup {NoTask}]
        /\ \A b \in Agents : report'[b] = IF b = a THEN NoTask ELSE report[b]
    BY <1>0, <2>1 DEF MonitorTyped
  <2>3. \A b \in Agents : report'[b] \in Tasks \cap touched => report'[b] \in touched'
    BY <1>0, <2>1, <2>2, ColonyAssumption DEF ReportsDiffer
  <2> QED BY <2>1, <2>2, <2>3, ReportShrinks
<1>6. ASSUME NEW a \in Agents, Heal(a) PROVE ColonyInv'
  <2> DEFINE t == report[a]
  <2>1. t \in Tasks /\ t # NoTask
    BY <1>6, ColonyAssumption DEF Heal, Present
  <2>2. /\ report' \in [Agents -> Tasks \cup {NoTask}]
        /\ \A b \in Agents : report'[b] = IF b = a THEN NoTask ELSE report[b]
    BY <1>0, <1>6 DEF MonitorTyped, Heal
  <2>3. MonitorTyped' /\ ReportsDiffer'
    BY <1>0, <1>6, <2>2 DEF MonitorTyped, ReportsDiffer, Heal
  <2>4. ASSUME ~misled' PROVE Consistent(db') /\ ReportHolds'
    <3>1. ~misled /\ t \notin touched
      BY <1>0, <1>6, <2>4 DEF Heal, MonitorTyped
    <3>2. Consistent(db) /\ ReportHolds /\ db.status[t] = "assigned"
      BY <1>0, <2>1, <3>1 DEF ReportHolds
    <3>3. PICK b \in Replacements(a) : db' = ReassignTask(db, t, b)
      BY <1>6 DEF Heal
    <3>4. b \in Agents \cup {NoAgent}
      BY <1>0, <3>3 DEF Replacements, MonitorTyped
    <3>5. /\ Consistent(db')
          /\ \A x \in Tasks \ {t} : db'.status[x] = db.status[x] /\ db'.to[x] = db.to[x]
      BY <2>1, <3>2, <3>3, <3>4, ReassignPreserves
    <3>6. ReportHolds'
      <4> SUFFICES ASSUME NEW c \in Agents, report'[c] \in Tasks \ touched'
                   PROVE  db'.status[report'[c]] = "assigned" /\ db'.to[report'[c]] = c
        BY DEF ReportHolds
      <4>1. c # a /\ report'[c] = report[c]
        BY <2>2, ColonyAssumption
      <4>2. report[c] \in Tasks \ {t}
        BY <1>0, <2>1, <4>1 DEF ReportsDiffer
      <4>3. report[c] \notin touched
        BY <1>6, <4>1, <4>2 DEF Heal
      <4> QED BY <3>2, <3>5, <4>1, <4>2, <4>3 DEF ReportHolds
    <3> QED BY <3>5, <3>6
  <2> QED BY <2>3, <2>4 DEF ColonyInv, MonitorTyped
<1>7. CASE UNCHANGED vars
  BY <1>0, <1>7 DEF vars, ColonyInv, MonitorTyped, ReportsDiffer, ReportHolds
<1> QED BY <1>1, <1>2, <1>3, <1>4, <1>5, <1>6, <1>7 DEF ColonyNext

\* What a heal rests on, in every reachable state: the report, as long as nobody
\* overtook it.
THEOREM ColonyInvariant == ColonySpec => []ColonyInv
BY InitColony, StepColony, PTL DEF ColonySpec

\* The monitor's unchecked UPDATEs leave the graph as sound as the graph's own
\* functions do, unless a heal fell on a task somebody touched after the report.
THEOREM HealsKeepGraph == ColonySpec => []HealKeepsGraph
<1>1. ColonyInv => HealKeepsGraph
  BY DEF ColonyInv, HealKeepsGraph, Consistent
<1> QED BY <1>1, ColonyInvariant, PTL
===========================================================================
