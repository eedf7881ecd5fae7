---------------------------- MODULE TaskStore ----------------------------
(***************************************************************************)
(* What the task graph promises to whoever calls it.  The callers (the     *)
(* orchestrator's tick, the local workers, the goal tools of the parent    *)
(* agent) are left free to call any operation at any time its code lets    *)
(* through; module Orchestrator is shown to implement this specification.  *)
(***************************************************************************)
EXTENDS TaskGraph

VARIABLE db

Init == db = EmptyDb

\* createGoal; the one-goal-at-a-time rule belongs to its caller, the tool.
CreateGoal(g) == /\ db.goal[g] = "none"
                 /\ db' = SetGoal(db, g, "active")

\* decomposeGoal, for the planner's output and for a worker's delegate_task.
Decompose(g, new, ds) == /\ ValidDecomposition(db, g, new, ds)
                         /\ db' = DecomposeGoal(db, g, new, ds)

\* assignTask on a task the ready query returned.
Assign(t, a) == /\ t \in ReadyTasks(db)
                /\ db' = AssignTask(db, t, a)

Complete(t) == /\ CanFinish(db, t)
               /\ db' = CompleteTask(db, t)

Fail(t) == /\ CanFinish(db, t)
           /\ db' = FailTask(db, t)

\* Orchestrator.handleFailure with replans left: the goal is reopened.
FailAndReopen(t) == /\ CanFinish(db, t)
                    /\ FailTask(db, t).status[t] = "failed"
                    /\ db' = SetGoal(FailTask(db, t), db.of[t], "active")

Recover(S) == /\ S # {}
              /\ \A t \in S : db.status[t] = "assigned"
              /\ db' = RecoverStale(db, S)

\* handleReplanningPhase: reset, reopen and decompose without an await between.
Replan(g, new, ds) == /\ ValidDecomposition(db, g, new, ds)
                      /\ db' = DecomposeGoal(ResetForReplan(db, g), g, new, ds)

\* handleExecutingPhase, once every task of the goal is completed.
FinishGoal(g) == /\ db.goal[g] # "none" /\ TasksOf(db, g) # {} /\ AllDone(db, g)
                 /\ db' = SetGoal(db, g, "completed")

\* The orchestrator gives up: a tick threw, or the failed phase.
FailGoal(g) == /\ db.goal[g] # "none"
               /\ db' = SetGoal(db, g, "failed")

Cancel(g) == /\ db.goal[g] = "active"
             /\ db' = CancelGoal(db, g)

Prune(g) == /\ db.goal[g] = "completed"
            /\ db' = PruneGoal(db, g)

Next == \/ \E g \in Goals : CreateGoal(g) \/ FinishGoal(g) \/ FailGoal(g)
                            \/ Cancel(g) \/ Prune(g)
        \/ \E g \in Goals, new \in SUBSET Tasks :
             \E ds \in [new -> SUBSET Tasks] : Decompose(g, new, ds) \/ Replan(g, new, ds)
        \/ \E t \in Tasks : Complete(t) \/ Fail(t) \/ FailAndReopen(t)
        \/ \E t \in Tasks, a \in Agents : Assign(t, a)
        \/ \E S \in SUBSET Tasks : Recover(S)

Spec == Init /\ [][Next]_db
---------------------------------------------------------------------------
(* What must never go wrong *)

\* Every value of the tables is one the schema and the code allow.
TypeOk == WellTyped(db)

\* decomposeGoal's validation: a task's dependencies are rows of its own goal,
\* that goal exists, and no chain of dependencies closes on itself.
GraphIsSound == GraphSound(db)

\* No lost wake-up: unblockReadyBlockedTasks runs after every completion, so a
\* task is never left blocked once everything it waits for is completed.
BlockedIsWaiting == BlockedWaits(db)

\* A task is in an agent's hands only when all it depends on is completed,
\* whatever failed, was retried, recovered or replanned in between.
AssignedAfterDeps == AssignedHasDeps(db)

\* refreshGoalStatus and the orchestrator call a goal completed only when no
\* task of it is open, and a late decomposition takes the verdict back.
CompletedGoalIsDone == CompletedIsDone(db)

\* An active goal with tasks always offers its orchestrator a next move: a
\* ready task, an agent to wait for, a failure to replan, or a cancellation.
ActiveGoalCanMove ==
  \A g \in Goals : db.goal[g] = "active" /\ TasksOf(db, g) # {} =>
    \/ TasksOf(db, g) \cap ReadyTasks(db) # {}
    \/ With(db, g, {"assigned", "failed", "cancelled"}) # {}

\* A completed or cancelled task is never reopened: not by a late failure, not
\* by stale recovery, not by the reset before a replan (only pruning removes it).
DoneIsFinal ==
  [][\A t \in Tasks : db.status[t] \in {"completed", "cancelled"} =>
       db'.status[t] \in {db.status[t], "absent"}]_db
===========================================================================
