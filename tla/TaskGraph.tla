---------------------------- MODULE TaskGraph ----------------------------
(***************************************************************************)
(* The goals and task_graph tables of the agent runtime and the functions  *)
(* of src/agent/src/orchestration/task-graph.ts that change them.  Every   *)
(* function of that file runs in one SQLite transaction, so each is one    *)
(* operator from a database record to the database record it leaves.       *)
(*                                                                         *)
(* Left out: titles, roles, priorities, costs and time stamps (no          *)
(* transition depends on them), parent_id (checked by detectCycles as one  *)
(* more edge, read by nothing else), goal status 'paused' and task status  *)
(* 'running' (declared, and never written by the runtime).                 *)
(***************************************************************************)
EXTENDS Naturals, FiniteSets

CONSTANTS Goals, Tasks,   \* the identifiers (ulids) that can be drawn
          Agents,         \* addresses a task can be assigned to
          NoGoal, NoAgent,   \* NULL in goal_id and in assigned_to
          MaxRetries      \* max_retries, 3 by default in insertTask

ASSUME TaskGraphAssumption == /\ NoGoal \notin Goals
                              /\ NoAgent \notin Agents
                              /\ MaxRetries \in Nat
                              /\ IsFiniteSet(Tasks)

GoalStatus == {"none", "active", "completed", "failed"}
TaskStatus == {"absent", "pending", "assigned", "blocked",
               "completed", "failed", "cancelled"}
Terminal   == {"completed", "failed", "cancelled"}

Db == [goal    : [Goals -> GoalStatus],          \* "none": no such row
       status  : [Tasks -> TaskStatus],          \* "absent": no such row
       of      : [Tasks -> Goals \cup {NoGoal}],               \* goal_id
       deps    : [Tasks -> SUBSET Tasks],        \* dependencies
       to      : [Tasks -> Agents \cup {NoAgent}],  \* assigned_to
       retries : [Tasks -> 0..MaxRetries]]       \* retry_count

EmptyDb == [goal    |-> [g \in Goals |-> "none"],
            status  |-> [t \in Tasks |-> "absent"],
            of      |-> [t \in Tasks |-> NoGoal],
            deps    |-> [t \in Tasks |-> {}],
            to      |-> [t \in Tasks |-> NoAgent],
            retries |-> [t \in Tasks |-> 0]]
---------------------------------------------------------------------------
(* Queries *)

Present(d)     == {t \in Tasks : d.status[t] # "absent"}
TasksOf(d, g)  == {t \in Present(d) : d.of[t] = g}
With(d, g, ss) == {t \in TasksOf(d, g) : d.status[t] \in ss}
AllDone(d, g)  == With(d, g, {"completed"}) = TasksOf(d, g)

DepsSatisfied(d, t) == \A x \in d.deps[t] : d.status[x] = "completed"
\* Variant: the ready query trusts the status and forgets the dependencies.
ReadyByStatus(d) == {t \in Tasks : d.status[t] = "pending"}
ReadyTasks(d) == {t \in Tasks : d.status[t] = "pending" /\ DepsSatisfied(d, t)}

\* Variant: completeTask and failTask only check that the row exists.
CanFinishPresent(d, t) == d.status[t] # "absent"
\* completeTask and failTask throw on a missing row and on a terminal one.
CanFinish(d, t) == d.status[t] \notin Terminal \cup {"absent"}

\* No task waits, through any chain of dependencies, for itself.
AcyclicOn(S, deps) == \A C \in SUBSET S : C # {} => \E t \in C : deps[t] \cap C = {}
---------------------------------------------------------------------------
(* The private helpers every transition ends with *)

Unblock(d) ==
  [d EXCEPT !.status = [t \in Tasks |->
     IF d.status[t] = "blocked" /\ DepsSatisfied(d, t) THEN "pending" ELSE d.status[t]]]

BlockDependents(d, f) ==
  LET hit == {t \in Tasks : f \in d.deps[t] /\ d.status[t] \in {"pending", "assigned"}}
  IN  [d EXCEPT !.status = [t \in Tasks |-> IF t \in hit THEN "blocked" ELSE d.status[t]],
                !.to     = [t \in Tasks |-> IF t \in hit THEN NoAgent ELSE d.to[t]]]

GoalStatusFor(d, g) ==
  IF TasksOf(d, g) = {} THEN "active"
  ELSE IF With(d, g, {"failed"}) # {} THEN "failed"
  ELSE IF AllDone(d, g) THEN "completed"
  ELSE "active"

Refresh(d, g) ==
  [d EXCEPT !.goal[g] = IF d.goal[g] = "none" THEN "none" ELSE GoalStatusFor(d, g)]
---------------------------------------------------------------------------
(* The transitions *)

SetGoal(d, g, s) == [d EXCEPT !.goal[g] = s]

\* Variant: references are checked, cycles are not.
ValidReferences(d, g, new, ds) ==
  /\ d.goal[g] # "none"
  /\ new # {} /\ new \cap Present(d) = {}
  /\ \A t \in new : ds[t] \subseteq (TasksOf(d, g) \cup new)

\* A decomposition decomposeGoal accepts: known goal, every reference resolves
\* to a task of the same goal (new or old), and detectCycles finds no cycle.
ValidDecomposition(d, g, new, ds) ==
  /\ d.goal[g] # "none"
  /\ new # {} /\ new \cap Present(d) = {}
  /\ \A t \in new : ds[t] \subseteq (TasksOf(d, g) \cup new)
  /\ AcyclicOn(new, ds)

Insert(d, g, new, ds) ==
  [d EXCEPT
     !.status  = [t \in Tasks |-> IF t \notin new THEN d.status[t]
                                  ELSE IF \A x \in ds[t] : d.status[x] = "completed"
                                       THEN "pending" ELSE "blocked"],
     !.of      = [t \in Tasks |-> IF t \in new THEN g ELSE d.of[t]],
     !.deps    = [t \in Tasks |-> IF t \in new THEN ds[t] ELSE d.deps[t]],
     !.to      = [t \in Tasks |-> IF t \in new THEN NoAgent ELSE d.to[t]],
     !.retries = [t \in Tasks |-> IF t \in new THEN 0 ELSE d.retries[t]]]

\* Variant: adding tasks leaves the goal's status alone.
DecomposeUnrefreshed(d, g, new, ds) == Unblock(Insert(d, g, new, ds))
DecomposeGoal(d, g, new, ds) == Refresh(Unblock(Insert(d, g, new, ds)), g)

AssignTask(d, t, a) == [d EXCEPT !.status[t] = "assigned", !.to[t] = a]

\* Variants: a completion wakes nobody; a completion leaves the goal's status.
CompleteSilently(d, t)    == Refresh([d EXCEPT !.status[t] = "completed"], d.of[t])
CompleteUnrefreshed(d, t) == Unblock([d EXCEPT !.status[t] = "completed"])
CompleteTask(d, t) ==
  Refresh(Unblock([d EXCEPT !.status[t] = "completed"]), d.of[t])

RetryTask(d, t) ==
  [d EXCEPT !.status[t]  = IF DepsSatisfied(d, t) THEN "pending" ELSE "blocked",
            !.retries[t] = d.retries[t] + 1,
            !.to[t]      = NoAgent]

FailForGood(d, t) ==
  Refresh(BlockDependents([d EXCEPT !.status[t] = "failed", !.to[t] = NoAgent], t), d.of[t])

\* Variant: one retry too many.
FailTaskLate(d, t) ==
  IF d.retries[t] <= MaxRetries THEN RetryTask(d, t) ELSE FailForGood(d, t)

\* Every caller in the runtime passes shouldRetry = true.
FailTask(d, t) ==
  IF d.retries[t] < MaxRetries THEN RetryTask(d, t) ELSE FailForGood(d, t)

\* pruneCompletedGoals deletes the goal's rows.
PruneGoal(d, g) ==
  LET gone == TasksOf(d, g)
      Wipe(f, null) == [t \in Tasks |-> IF t \in gone THEN null ELSE f[t]]
  IN  [goal    |-> [d.goal EXCEPT ![g] = "none"],
       status  |-> Wipe(d.status, "absent"),  of |-> Wipe(d.of, NoGoal),
       deps    |-> Wipe(d.deps, {}),          to |-> Wipe(d.to, NoAgent),
       retries |-> Wipe(d.retries, 0)]

\* The cancel_goal tool: the goal fails, its unfinished tasks are cancelled.
CancelGoal(d, g) ==
  LET open == With(d, g, {"pending", "assigned", "blocked"})
  IN  [d EXCEPT !.goal[g] = "failed",
                !.status  = [t \in Tasks |-> IF t \in open THEN "cancelled" ELSE d.status[t]]]

\* The orchestrator's own UPDATE statements on task_graph: stale recovery ...
RecoverStale(d, S) ==
  [d EXCEPT !.status = [t \in Tasks |-> IF t \in S THEN "pending" ELSE d.status[t]],
            !.to     = [t \in Tasks |-> IF t \in S THEN NoAgent ELSE d.to[t]]]

\* ... and the reset before a replan, which does not look at dependencies.
ResetForReplan(d, g) ==
  LET S == With(d, g, {"failed", "blocked"})
  IN  SetGoal(RecoverStale(d, S), g, "active")
---------------------------------------------------------------------------
(* What a consistent database is *)

\* Every value is one the schema and the code allow.
WellTyped(d) == /\ d \in Db
                /\ \A t \in Tasks : d.of[t] = NoGoal <=> d.status[t] = "absent"

\* A task's dependencies are rows of its own, existing goal, and no chain of
\* dependencies closes on itself.
GraphSound(d) ==
  /\ \A t \in Present(d) : /\ d.goal[d.of[t]] # "none"
                           /\ d.deps[t] \subseteq TasksOf(d, d.of[t])
  /\ AcyclicOn(Present(d), d.deps)

BlockedWaits(d) ==
  \A t \in Tasks : d.status[t] = "blocked" => ~DepsSatisfied(d, t)

AssignedHasDeps(d) ==
  \A t \in Tasks : d.status[t] = "assigned" => DepsSatisfied(d, t)

CompletedIsDone(d) ==
  \A g \in Goals : d.goal[g] = "completed" => AllDone(d, g)

ActiveHasOpenWork(d) ==
  \A g \in Goals : d.goal[g] = "active" /\ TasksOf(d, g) # {} => ~AllDone(d, g)
===========================================================================
