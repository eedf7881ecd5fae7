--------------------------- MODULE TaskGraphProofs ---------------------------
(***************************************************************************)
(* What the transitions of the task graph do to a database record, and     *)
(* that each keeps it consistent.  No variables: the facts serve the task  *)
(* store and the orchestrator alike.                                       *)
(***************************************************************************)
EXTENDS TaskGraph, TLAPS

\* What the task store keeps of the tables after every step.  ActiveGoalCanMove
\* is not inductive; the facts it follows from are.
Consistent(d) == /\ WellTyped(d)
                 /\ GraphSound(d)
                 /\ BlockedWaits(d)
                 /\ AssignedHasDeps(d)
                 /\ CompletedIsDone(d)
                 /\ ActiveHasOpenWork(d)

---------------------------------------------------------------------------
(* What the helpers do to each field *)

\* decomposeGoal's INSERTs write the rows of the new tasks and no other.
LEMMA InsertFacts ==
  ASSUME NEW d \in Db, NEW g \in Goals, NEW new \in SUBSET Tasks,
         NEW ds \in [new -> SUBSET Tasks]
  PROVE  /\ Insert(d, g, new, ds) \in Db
         /\ Insert(d, g, new, ds).goal = d.goal
         /\ \A x \in Tasks :
              /\ Insert(d, g, new, ds).status[x] =
                   IF x \notin new THEN d.status[x]
                   ELSE IF \A y \in ds[x] : d.status[y] = "completed"
                        THEN "pending" ELSE "blocked"
              /\ Insert(d, g, new, ds).of[x] = IF x \in new THEN g ELSE d.of[x]
              /\ Insert(d, g, new, ds).deps[x] = IF x \in new THEN ds[x] ELSE d.deps[x]
<1> DEFINE a == Insert(d, g, new, ds)
           st == [x \in Tasks |-> IF x \notin new THEN d.status[x]
                                  ELSE IF \A y \in ds[x] : d.status[y] = "completed"
                                       THEN "pending" ELSE "blocked"]
           of == [x \in Tasks |-> IF x \in new THEN g ELSE d.of[x]]
           de == [x \in Tasks |-> IF x \in new THEN ds[x] ELSE d.deps[x]]
           to == [x \in Tasks |-> IF x \in new THEN NoAgent ELSE d.to[x]]
           re == [x \in Tasks |-> IF x \in new THEN 0 ELSE d.retries[x]]
<1>1. a = [d EXCEPT !.status = st, !.of = of, !.deps = de, !.to = to, !.retries = re]
  BY DEF Insert
<1>2. st \in [Tasks -> TaskStatus] /\ of \in [Tasks -> Goals \cup {NoGoal}]
  BY DEF Db, TaskStatus
<1>3. de \in [Tasks -> SUBSET Tasks] /\ to \in [Tasks -> Agents \cup {NoAgent}]
  BY DEF Db
<1>4. re \in [Tasks -> 0..MaxRetries] /\ d.goal \in [Goals -> GoalStatus]
  BY TaskGraphAssumption DEF Db
<1>5. a \in Db /\ a.goal = d.goal /\ a.status = st /\ a.of = of /\ a.deps = de
  <2> HIDE DEF a, st, of, de, to, re
  <2> QED BY <1>1, <1>2, <1>3, <1>4 DEF Db
<1> QED BY <1>5

\* unblockReadyBlockedTasks wakes exactly the blocked tasks whose dependencies
\* are completed and touches no other field.
LEMMA UnblockFacts ==
  ASSUME NEW d \in Db
  PROVE  /\ Unblock(d) \in Db
         /\ Unblock(d).goal = d.goal
         /\ Unblock(d).of = d.of
         /\ Unblock(d).deps = d.deps
         /\ Unblock(d).to = d.to
         /\ \A t \in Tasks : Unblock(d).status[t] =
               IF d.status[t] = "blocked" /\ DepsSatisfied(d, t)
               THEN "pending" ELSE d.status[t]
BY DEF Unblock, Db, TaskStatus

\* blockDependentsForFailedTask blocks the open dependents of the failed task.
LEMMA BlockDependentsFacts ==
  ASSUME NEW d \in Db, NEW f \in Tasks
  PROVE  /\ BlockDependents(d, f) \in Db
         /\ BlockDependents(d, f).goal = d.goal
         /\ BlockDependents(d, f).of = d.of
         /\ BlockDependents(d, f).deps = d.deps
         /\ \A t \in Tasks : BlockDependents(d, f).status[t] =
               IF f \in d.deps[t] /\ d.status[t] \in {"pending", "assigned"}
               THEN "blocked" ELSE d.status[t]
BY DEF BlockDependents, Db, TaskStatus

\* refreshGoalStatus writes one goal row and nothing else.
LEMMA RefreshFacts ==
  ASSUME NEW d \in Db, NEW g \in Goals
  PROVE  /\ Refresh(d, g) \in Db
         /\ Refresh(d, g).of = d.of
         /\ Refresh(d, g).deps = d.deps
         /\ Refresh(d, g).to = d.to
         /\ Refresh(d, g).status = d.status
         /\ \A h \in Goals : Refresh(d, g).goal[h] =
               IF h = g /\ d.goal[g] # "none" THEN GoalStatusFor(d, g) ELSE d.goal[h]
BY DEF Refresh, GoalStatusFor, Db, GoalStatus
---------------------------------------------------------------------------
(* The parts of the invariant, carried from one record to the next *)

GoalOk(d, g) == /\ d.goal[g] = "completed" => AllDone(d, g)
                /\ d.goal[g] = "active" /\ TasksOf(d, g) # {} => ~AllDone(d, g)

\* The two facts about goals, regrouped goal by goal.
LEMMA GoalsOk ==
  ASSUME NEW d
  PROVE  (CompletedIsDone(d) /\ ActiveHasOpenWork(d)) <=> \A g \in Goals : GoalOk(d, g)
BY DEF GoalOk, CompletedIsDone, ActiveHasOpenWork

\* A step that neither adds nor removes rows keeps the graph sound.
LEMMA SameGraph ==
  ASSUME NEW d \in Db, NEW e \in Db, GraphSound(d), WellTyped(d),
         e.of = d.of, e.deps = d.deps, Present(e) = Present(d),
         \A g \in Goals : e.goal[g] = "none" => d.goal[g] = "none"
  PROVE  GraphSound(e) /\ WellTyped(e)
<1>1. WellTyped(e)
  BY DEF WellTyped, Present
<1>2. ASSUME NEW t \in Present(e)
      PROVE  e.goal[e.of[t]] # "none" /\ e.deps[t] \subseteq TasksOf(e, e.of[t])
  <2>1. t \in Tasks /\ d.of[t] \in Goals
    BY <1>2 DEF WellTyped, Present, Db
  <2> QED BY <1>2, <2>1 DEF GraphSound, TasksOf
<1>3. AcyclicOn(Present(e), e.deps)
  BY DEF GraphSound
<1> QED BY <1>1, <1>2, <1>3 DEF GraphSound

\* A goal whose row and whose tasks' completion a step leaves alone stays right.
LEMMA GoalKept ==
  ASSUME NEW d \in Db, NEW e \in Db, NEW g \in Goals,
         e.goal[g] = d.goal[g], TasksOf(e, g) = TasksOf(d, g),
         \A t \in TasksOf(d, g) : e.status[t] = "completed" <=> d.status[t] = "completed",
         GoalOk(d, g)
  PROVE  GoalOk(e, g)
BY DEF GoalOk, AllDone, With

\* refreshGoalStatus leaves the goal it refreshes right, whatever it was.
LEMMA RefreshedGoalOk ==
  ASSUME NEW d \in Db, NEW g \in Goals
  PROVE  GoalOk(Refresh(d, g), g)
<1> DEFINE e == Refresh(d, g)
<1>1. e.of = d.of /\ e.status = d.status
  BY RefreshFacts
<1>2. TasksOf(e, g) = TasksOf(d, g) /\ (AllDone(e, g) <=> AllDone(d, g))
  BY <1>1 DEF TasksOf, Present, AllDone, With
<1>3. e.goal[g] = IF d.goal[g] = "none" THEN "none" ELSE GoalStatusFor(d, g)
  BY RefreshFacts
<1>4. AllDone(d, g) /\ TasksOf(d, g) # {} => With(d, g, {"failed"}) = {}
  BY DEF AllDone, With
<1> SUFFICES GoalOk(e, g)
  OBVIOUS
<1> HIDE DEF e
<1> QED BY <1>2, <1>3, <1>4 DEF GoalOk, GoalStatusFor
---------------------------------------------------------------------------
(* One lemma per transition *)

\* completeTask: the woken tasks are the ones whose last dependency this was.
LEMMA CompletePreserves ==
  ASSUME NEW d, Consistent(d), NEW t \in Tasks, CanFinish(d, t)
  PROVE  Consistent(CompleteTask(d, t))
<1> DEFINE a == [d EXCEPT !.status[t] = "completed"]
           b == Unblock(a)
           g == d.of[t]
           e == Refresh(b, g)
<1>1. d \in Db /\ g \in Goals /\ t \in Present(d)
  BY DEF Consistent, WellTyped, CanFinish, Present, Db
<1>2. /\ a \in Db /\ a.goal = d.goal /\ a.of = d.of /\ a.deps = d.deps
      /\ \A x \in Tasks : a.status[x] = IF x = t THEN "completed" ELSE d.status[x]
  BY <1>1 DEF Db, TaskStatus
<1> HIDE DEF a
<1>3. /\ b \in Db /\ b.goal = a.goal /\ b.of = a.of /\ b.deps = a.deps
      /\ \A x \in Tasks : b.status[x] =
           IF a.status[x] = "blocked" /\ DepsSatisfied(a, x) THEN "pending" ELSE a.status[x]
  BY <1>2, UnblockFacts
<1> HIDE DEF b
<1>4. /\ e \in Db /\ e.of = b.of /\ e.deps = b.deps /\ e.status = b.status
      /\ \A h \in Goals : e.goal[h] =
           IF h = g /\ b.goal[g] # "none" THEN GoalStatusFor(b, g) ELSE b.goal[h]
  BY <1>1, <1>3, RefreshFacts
<1>5. GoalOk(e, g)
  BY <1>1, <1>3, RefreshedGoalOk
<1> HIDE DEF e
<1>6. \A x \in Tasks : /\ e.status[x] = "completed" <=> (x = t \/ d.status[x] = "completed")
                       /\ e.status[x] = "absent" <=> d.status[x] = "absent"
                       /\ e.status[x] = "assigned" => d.status[x] = "assigned"
                       /\ e.status[x] = "blocked" => a.status[x] = "blocked"
                       /\ e.status[x] = "blocked" => ~DepsSatisfied(a, x)
  BY <1>1, <1>2, <1>3, <1>4 DEF CanFinish, Present
<1>7. \A x \in Tasks : DepsSatisfied(e, x) <=> DepsSatisfied(a, x)
  BY <1>1, <1>2, <1>3, <1>4, <1>6 DEF DepsSatisfied, Db
<1>8. GraphSound(e) /\ WellTyped(e)
  <2>1. Present(e) = Present(d)
    BY <1>6 DEF Present
  <2>2. \A h \in Goals : e.goal[h] = "none" => d.goal[h] = "none"
    BY <1>1, <1>2, <1>3, <1>4 DEF GoalStatusFor
  <2> QED BY <1>1, <1>2, <1>3, <1>4, <2>1, <2>2, SameGraph DEF Consistent
<1>9. BlockedWaits(e)
  BY <1>6, <1>7 DEF BlockedWaits
<1>10. AssignedHasDeps(e)
  BY <1>1, <1>2, <1>3, <1>4, <1>6 DEF AssignedHasDeps, DepsSatisfied, Consistent, Db
<1>11. \A h \in Goals : GoalOk(e, h)
  <2> SUFFICES ASSUME NEW h \in Goals, h # g PROVE GoalOk(e, h)
    BY <1>5
  <2>1. TasksOf(e, h) = TasksOf(d, h)
    BY <1>2, <1>3, <1>4, <1>6 DEF TasksOf, Present
  <2>2. \A x \in TasksOf(d, h) : e.status[x] = "completed" <=> d.status[x] = "completed"
    BY <1>6 DEF TasksOf, Present
  <2>3. e.goal[h] = d.goal[h]
    BY <1>2, <1>3, <1>4
  <2>4. GoalOk(d, h)
    BY GoalsOk DEF Consistent
  <2> QED BY <1>1, <1>4, <2>1, <2>2, <2>3, <2>4, GoalKept
<1>12. Consistent(e)
  BY <1>8, <1>9, <1>10, <1>11, GoalsOk DEF Consistent
<1> QED BY <1>12 DEF e, b, a, CompleteTask

\* The steps that complete nothing and add or remove no row.
LEMMA StatusStep ==
  ASSUME NEW d, Consistent(d), NEW e \in Db,
         e.of = d.of, e.deps = d.deps,
         \A g \in Goals : e.goal[g] = "none" <=> d.goal[g] = "none",
         \A x \in Tasks :
            /\ e.status[x] = "completed" <=> d.status[x] = "completed"
            /\ e.status[x] = "absent" <=> d.status[x] = "absent"
            /\ e.status[x] = "assigned" => d.status[x] = "assigned" \/ DepsSatisfied(d, x)
            /\ e.status[x] = "blocked" => d.status[x] = "blocked" \/ ~DepsSatisfied(d, x),
         \A g \in Goals : \/ e.goal[g] = d.goal[g]
                          \/ GoalOk(e, g)
  PROVE  Consistent(e)
<1>1. d \in Db
  BY DEF Consistent, WellTyped
<1>2. Present(e) = Present(d)
  BY DEF Present
<1>3. \A x \in Tasks : DepsSatisfied(e, x) <=> DepsSatisfied(d, x)
  BY <1>1 DEF DepsSatisfied, Db
<1>4. GraphSound(e) /\ WellTyped(e)
  BY <1>1, <1>2, SameGraph DEF Consistent
<1>5. BlockedWaits(e) /\ AssignedHasDeps(e)
  BY <1>3 DEF BlockedWaits, AssignedHasDeps, Consistent
<1>6. ASSUME NEW g \in Goals, e.goal[g] = d.goal[g]
      PROVE  GoalOk(e, g)
  <2>1. TasksOf(e, g) = TasksOf(d, g)
    BY <1>2 DEF TasksOf
  <2>2. \A x \in TasksOf(d, g) : e.status[x] = "completed" <=> d.status[x] = "completed"
    BY DEF TasksOf, Present
  <2>3. GoalOk(d, g)
    BY GoalsOk DEF Consistent
  <2> QED BY <1>1, <1>6, <2>1, <2>2, <2>3, GoalKept
<1> QED BY <1>4, <1>5, <1>6, GoalsOk DEF Consistent

\* assignTask on a task the ready query returned.
LEMMA AssignPreserves ==
  ASSUME NEW d, Consistent(d), NEW t \in ReadyTasks(d), NEW a \in Agents
  PROVE  Consistent(AssignTask(d, t, a))
<1> DEFINE e == AssignTask(d, t, a)
<1>1. d \in Db /\ t \in Tasks /\ d.status[t] = "pending" /\ DepsSatisfied(d, t)
  BY DEF Consistent, WellTyped, ReadyTasks
<1>2. /\ e \in Db /\ e.goal = d.goal /\ e.of = d.of /\ e.deps = d.deps
      /\ \A x \in Tasks : e.status[x] = IF x = t THEN "assigned" ELSE d.status[x]
  BY <1>1 DEF AssignTask, Db, TaskStatus
<1> HIDE DEF e
<1> SUFFICES Consistent(e)
  BY DEF e
<1> QED BY <1>1, <1>2, StatusStep

\* failTask with retries left: the task waits again if its dependencies do.
LEMMA RetryPreserves ==
  ASSUME NEW d, Consistent(d), NEW t \in Tasks, CanFinish(d, t),
         d.retries[t] < MaxRetries
  PROVE  Consistent(RetryTask(d, t))
<1> DEFINE e == RetryTask(d, t)
<1>1. d \in Db /\ d.status[t] \notin Terminal \cup {"absent"}
  BY DEF Consistent, WellTyped, CanFinish
<1>2. d.retries[t] + 1 \in 0..MaxRetries
  BY <1>1, TaskGraphAssumption DEF Db
<1>3. /\ e \in Db /\ e.goal = d.goal /\ e.of = d.of /\ e.deps = d.deps
      /\ \A x \in Tasks : e.status[x] = IF x # t THEN d.status[x]
                                        ELSE IF DepsSatisfied(d, t) THEN "pending" ELSE "blocked"
  BY <1>1, <1>2 DEF RetryTask, Db, TaskStatus
<1> HIDE DEF e
<1> SUFFICES Consistent(e)
  BY DEF e
<1> QED BY <1>1, <1>3, StatusStep DEF Terminal

\* failTask with no retry left: the task is failed, its dependents blocked.
LEMMA FailForGoodPreserves ==
  ASSUME NEW d, Consistent(d), NEW t \in Tasks, CanFinish(d, t)
  PROVE  /\ Consistent(FailForGood(d, t))
         /\ FailForGood(d, t).status[t] = "failed"
         /\ FailForGood(d, t).of = d.of
         /\ t \in TasksOf(FailForGood(d, t), d.of[t])
<1> DEFINE a == [d EXCEPT !.status[t] = "failed", !.to[t] = NoAgent]
           b == BlockDependents(a, t)
           g == d.of[t]
           e == Refresh(b, g)
<1>1. d \in Db /\ g \in Goals /\ t \in Present(d) /\ d.status[t] \notin Terminal
  BY DEF Consistent, WellTyped, CanFinish, Present, Db
<1>2. /\ a \in Db /\ a.goal = d.goal /\ a.of = d.of /\ a.deps = d.deps
      /\ \A x \in Tasks : a.status[x] = IF x = t THEN "failed" ELSE d.status[x]
  BY <1>1 DEF Db, TaskStatus
<1> HIDE DEF a
<1>3. /\ b \in Db /\ b.goal = a.goal /\ b.of = a.of /\ b.deps = a.deps
      /\ \A x \in Tasks : b.status[x] =
           IF t \in a.deps[x] /\ a.status[x] \in {"pending", "assigned"}
           THEN "blocked" ELSE a.status[x]
  BY <1>2, BlockDependentsFacts
<1> HIDE DEF b
<1>4. /\ e \in Db /\ e.of = b.of /\ e.deps = b.deps /\ e.status = b.status
      /\ \A h \in Goals : e.goal[h] =
           IF h = g /\ b.goal[g] # "none" THEN GoalStatusFor(b, g) ELSE b.goal[h]
  BY <1>1, <1>3, RefreshFacts
<1>5. GoalOk(e, g)
  BY <1>1, <1>3, RefreshedGoalOk
<1> HIDE DEF e
<1>6. \A x \in Tasks : t \in d.deps[x] => ~DepsSatisfied(d, x)
  BY <1>1 DEF DepsSatisfied, Terminal
<1>7. \A x \in Tasks :
        /\ e.status[x] = "completed" <=> d.status[x] = "completed"
        /\ e.status[x] = "absent" <=> d.status[x] = "absent"
        /\ e.status[x] = "assigned" => d.status[x] = "assigned"
        /\ e.status[x] = "blocked" => d.status[x] = "blocked" \/ ~DepsSatisfied(d, x)
  BY <1>1, <1>2, <1>3, <1>4, <1>6 DEF Terminal, Present
<1>8. \A h \in Goals : e.goal[h] = "none" <=> d.goal[h] = "none"
  BY <1>1, <1>2, <1>3, <1>4 DEF GoalStatusFor
<1>9. Consistent(e)
  BY <1>1, <1>2, <1>3, <1>4, <1>5, <1>7, <1>8, StatusStep
<1>10. e.status[t] = "failed" /\ e.of = d.of
  BY <1>1, <1>2, <1>3, <1>4
<1>11. t \in TasksOf(e, g)
  BY <1>10 DEF TasksOf, Present
<1> QED BY <1>9, <1>10, <1>11 DEF e, b, a, FailForGood

\* A verdict on one goal that is right for its tasks.
LEMMA SetGoalPreserves ==
  ASSUME NEW d, Consistent(d), NEW g \in Goals, d.goal[g] # "none",
         NEW v \in GoalStatus \ {"none"}, GoalOk(SetGoal(d, g, v), g)
  PROVE  Consistent(SetGoal(d, g, v))
<1> DEFINE e == SetGoal(d, g, v)
<1>1. d \in Db
  BY DEF Consistent, WellTyped
<1>2. /\ e \in Db /\ e.of = d.of /\ e.deps = d.deps /\ e.status = d.status
      /\ \A h \in Goals : e.goal[h] = IF h = g THEN v ELSE d.goal[h]
  BY <1>1 DEF SetGoal, Db
<1>3. GoalOk(e, g)
  OBVIOUS
<1> HIDE DEF e
<1> SUFFICES Consistent(e)
  BY DEF e
<1> QED BY <1>1, <1>2, <1>3, StatusStep

\* Reopening or failing a goal that has an open task, or failing any goal.
LEMMA SetGoalFacts ==
  ASSUME NEW d \in Db, NEW g \in Goals
  PROVE  /\ GoalOk(SetGoal(d, g, "failed"), g)
         /\ AllDone(d, g) => GoalOk(SetGoal(d, g, "completed"), g)
         /\ ~AllDone(d, g) => GoalOk(SetGoal(d, g, "active"), g)
<1>1. ASSUME NEW v \in GoalStatus
      PROVE  /\ SetGoal(d, g, v).goal[g] = v
             /\ SetGoal(d, g, v).status = d.status
             /\ SetGoal(d, g, v).of = d.of
  BY DEF SetGoal, Db
<1>2. ASSUME NEW v \in GoalStatus
      PROVE  AllDone(SetGoal(d, g, v), g) <=> AllDone(d, g)
  BY <1>1 DEF AllDone, With, TasksOf, Present
<1> QED BY <1>1, <1>2 DEF GoalOk, GoalStatus

\* Stale recovery puts assigned tasks back among the ready ones.
LEMMA RecoverPreserves ==
  ASSUME NEW d, Consistent(d), NEW S \in SUBSET Tasks,
         \A t \in S : d.status[t] = "assigned"
  PROVE  Consistent(RecoverStale(d, S))
<1> DEFINE e == RecoverStale(d, S)
<1>1. d \in Db
  BY DEF Consistent, WellTyped
<1>2. /\ e \in Db /\ e.goal = d.goal /\ e.of = d.of /\ e.deps = d.deps
      /\ \A x \in Tasks : e.status[x] = IF x \in S THEN "pending" ELSE d.status[x]
  BY <1>1 DEF RecoverStale, Db, TaskStatus
<1> HIDE DEF e
<1> SUFFICES Consistent(e)
  BY DEF e
<1> QED BY <1>1, <1>2, StatusStep

\* cancel_goal: a failed goal is owed nothing, and nobody's dependency comes undone.
LEMMA CancelPreserves ==
  ASSUME NEW d, Consistent(d), NEW g \in Goals, d.goal[g] = "active"
  PROVE  Consistent(CancelGoal(d, g))
<1> DEFINE e == CancelGoal(d, g)
<1>1. d \in Db
  BY DEF Consistent, WellTyped
<1>2. /\ e \in Db /\ e.of = d.of /\ e.deps = d.deps
      /\ \A h \in Goals : e.goal[h] = IF h = g THEN "failed" ELSE d.goal[h]
      /\ \A x \in Tasks : e.status[x] =
           IF x \in With(d, g, {"pending", "assigned", "blocked"})
           THEN "cancelled" ELSE d.status[x]
  BY <1>1 DEF CancelGoal, Db, TaskStatus, GoalStatus
<1> HIDE DEF e
<1> SUFFICES Consistent(e)
  BY DEF e
<1>3. \A x \in With(d, g, {"pending", "assigned", "blocked"}) :
         d.status[x] \in {"pending", "assigned", "blocked"}
  BY DEF With
<1>4. GoalOk(e, g)
  BY <1>2 DEF GoalOk
<1> QED BY <1>1, <1>2, <1>3, <1>4, StatusStep

\* createGoal: a new row, so far without tasks.
LEMMA CreatePreserves ==
  ASSUME NEW d, Consistent(d), NEW g \in Goals, d.goal[g] = "none"
  PROVE  Consistent(SetGoal(d, g, "active"))
<1> DEFINE e == SetGoal(d, g, "active")
<1>1. d \in Db
  BY DEF Consistent, WellTyped
<1>2. /\ e \in Db /\ e.of = d.of /\ e.deps = d.deps /\ e.status = d.status
      /\ \A h \in Goals : e.goal[h] = IF h = g THEN "active" ELSE d.goal[h]
  BY <1>1 DEF SetGoal, Db, GoalStatus
<1> HIDE DEF e
<1> SUFFICES Consistent(e)
  BY DEF e
<1>3. TasksOf(d, g) = {} /\ \A h \in Goals : TasksOf(e, h) = TasksOf(d, h)
  <2>1. TasksOf(d, g) = {}
    BY DEF Consistent, GraphSound, TasksOf
  <2> QED BY <1>2, <2>1 DEF TasksOf, Present
<1>4. GraphSound(e) /\ WellTyped(e)
  BY <1>1, <1>2, SameGraph DEF Consistent, Present
<1>5. BlockedWaits(e) /\ AssignedHasDeps(e)
  BY <1>2 DEF BlockedWaits, AssignedHasDeps, DepsSatisfied, Consistent
<1>6. \A h \in Goals : GoalOk(e, h)
  <2>1. GoalOk(e, g)
    BY <1>2, <1>3 DEF GoalOk
  <2>2. ASSUME NEW h \in Goals, h # g
        PROVE  GoalOk(e, h)
    BY <1>1, <1>2, <1>3, <2>2, GoalsOk, GoalKept DEF Consistent
  <2> QED BY <2>1, <2>2
<1> QED BY <1>4, <1>5, <1>6, GoalsOk DEF Consistent

\* pruneCompletedGoals: nothing outside the goal depended on what goes.
LEMMA PrunePreserves ==
  ASSUME NEW d, Consistent(d), NEW g \in Goals, d.goal[g] = "completed"
  PROVE  Consistent(PruneGoal(d, g))
<1> DEFINE e == PruneGoal(d, g)
           gone == TasksOf(d, g)
<1>1. d \in Db
  BY DEF Consistent, WellTyped
<1>2. /\ e \in Db
      /\ \A h \in Goals : e.goal[h] = IF h = g THEN "none" ELSE d.goal[h]
      /\ \A x \in Tasks : /\ e.status[x] = IF x \in gone THEN "absent" ELSE d.status[x]
                          /\ e.of[x] = IF x \in gone THEN NoGoal ELSE d.of[x]
                          /\ e.deps[x] = IF x \in gone THEN {} ELSE d.deps[x]
  BY <1>1, TaskGraphAssumption DEF PruneGoal, Db, TaskStatus, GoalStatus
<1> HIDE DEF e
<1> SUFFICES Consistent(e)
  BY DEF e
<1>3. /\ Present(e) = Present(d) \ gone
      /\ \A h \in Goals : h # g => TasksOf(e, h) = TasksOf(d, h)
      /\ TasksOf(e, g) = {}
  BY <1>1, <1>2 DEF Present, TasksOf
<1>4. \A x \in Present(e) : d.of[x] \in Goals /\ d.of[x] # g /\ e.of[x] = d.of[x]
                            /\ e.deps[x] = d.deps[x] /\ e.status[x] = d.status[x]
                            /\ d.deps[x] \cap gone = {} /\ x \in Present(d)
  <2> TAKE x \in Present(e)
  <2>1. x \in Present(d) /\ x \in Tasks /\ x \notin gone
    BY <1>3 DEF Present
  <2>2. d.of[x] \in Goals /\ d.of[x] # g
    BY <1>1, <2>1 DEF Consistent, WellTyped, Present, TasksOf, Db
  <2>3. d.deps[x] \subseteq TasksOf(d, d.of[x])
    BY <2>1 DEF Consistent, GraphSound
  <2> QED BY <1>2, <2>1, <2>2, <2>3 DEF TasksOf
<1>5. WellTyped(e)
  BY <1>2, <1>1, TaskGraphAssumption DEF WellTyped, Consistent
<1>6. GraphSound(e)
  <2>1. ASSUME NEW x \in Present(e)
        PROVE  e.goal[e.of[x]] # "none" /\ e.deps[x] \subseteq TasksOf(e, e.of[x])
    BY <1>2, <1>3, <1>4 DEF Consistent, GraphSound
  <2>2. AcyclicOn(Present(e), e.deps)
    BY <1>3, <1>4 DEF Consistent, GraphSound, AcyclicOn
  <2> QED BY <2>1, <2>2 DEF GraphSound
<1>7. \A x \in Present(e) : DepsSatisfied(e, x) <=> DepsSatisfied(d, x)
  <2> TAKE x \in Present(e)
  <2>1. \A y \in d.deps[x] : y \in Tasks /\ e.status[y] = d.status[y]
    BY <1>1, <1>2, <1>4 DEF Db, Present
  <2> QED BY <1>4, <2>1 DEF DepsSatisfied
<1>8. BlockedWaits(e) /\ AssignedHasDeps(e)
  BY <1>4, <1>7 DEF BlockedWaits, AssignedHasDeps, Consistent, Present
<1>9. \A h \in Goals : GoalOk(e, h)
  <2>1. GoalOk(e, g)
    BY <1>2 DEF GoalOk
  <2>2. ASSUME NEW h \in Goals, h # g
        PROVE  GoalOk(e, h)
    <3>1. e.goal[h] = d.goal[h] /\ TasksOf(e, h) = TasksOf(d, h) /\ GoalOk(d, h)
      BY <1>2, <1>3, <2>2, GoalsOk DEF Consistent
    <3>2. \A x \in TasksOf(d, h) : e.status[x] = "completed" <=> d.status[x] = "completed"
      BY <1>4, <3>1 DEF TasksOf
    <3> QED BY <1>1, <1>2, <3>1, <3>2, GoalKept
  <2> QED BY <2>1, <2>2
<1> QED BY <1>5, <1>6, <1>8, <1>9, GoalsOk DEF Consistent

\* decomposeGoal refreshes the goal it extends, so nothing is asked of that
\* goal beforehand: the replanning phase relies on it.
ConsistentBut(d, g) == /\ WellTyped(d)
                       /\ GraphSound(d)
                       /\ BlockedWaits(d)
                       /\ AssignedHasDeps(d)
                       /\ \A h \in Goals \ {g} : GoalOk(d, h)

\* decomposeGoal mends the goal it decomposes, whatever its verdict was before.
LEMMA DecomposePreserves ==
  ASSUME NEW d, NEW g \in Goals, ConsistentBut(d, g),
         NEW new \in SUBSET Tasks, NEW ds \in [new -> SUBSET Tasks],
         ValidDecomposition(d, g, new, ds)
  PROVE  Consistent(DecomposeGoal(d, g, new, ds))
<1> DEFINE a == Insert(d, g, new, ds)
           b == Unblock(a)
           e == Refresh(b, g)
<1>1. /\ d \in Db /\ new \cap Present(d) = {} /\ d.goal[g] # "none"
      /\ \A x \in new : ds[x] \subseteq (TasksOf(d, g) \cup new)
      /\ AcyclicOn(new, ds)
  BY DEF ConsistentBut, WellTyped, ValidDecomposition
<1>2. /\ a \in Db /\ a.goal = d.goal
      /\ \A x \in Tasks :
           /\ a.status[x] = IF x \notin new THEN d.status[x]
                            ELSE IF \A y \in ds[x] : d.status[y] = "completed"
                                 THEN "pending" ELSE "blocked"
           /\ a.of[x] = IF x \in new THEN g ELSE d.of[x]
           /\ a.deps[x] = IF x \in new THEN ds[x] ELSE d.deps[x]
  BY <1>1, InsertFacts
<1> HIDE DEF a
<1>3. /\ b \in Db /\ b.goal = a.goal /\ b.of = a.of /\ b.deps = a.deps
      /\ \A x \in Tasks : b.status[x] =
           IF a.status[x] = "blocked" /\ DepsSatisfied(a, x) THEN "pending" ELSE a.status[x]
  BY <1>2, UnblockFacts
<1> HIDE DEF b
<1>4. /\ e \in Db /\ e.of = b.of /\ e.deps = b.deps /\ e.status = b.status
      /\ \A h \in Goals : e.goal[h] =
           IF h = g /\ b.goal[g] # "none" THEN GoalStatusFor(b, g) ELSE b.goal[h]
  BY <1>3, RefreshFacts
<1>5. GoalOk(e, g)
  BY <1>3, RefreshedGoalOk
<1> HIDE DEF e
<1>6. \A x \in Tasks : /\ e.status[x] = "completed" <=> x \notin new /\ d.status[x] = "completed"
                       /\ e.status[x] = "completed" <=> a.status[x] = "completed"
                       /\ e.status[x] = "absent" <=> x \notin new /\ d.status[x] = "absent"
                       /\ e.status[x] = "assigned" => x \notin new /\ d.status[x] = "assigned"
                       /\ e.status[x] = "blocked" => ~DepsSatisfied(a, x)
  BY <1>2, <1>3, <1>4
<1>7. /\ Present(e) = Present(d) \cup new
      /\ TasksOf(e, g) = TasksOf(d, g) \cup new
      /\ \A h \in Goals : h # g => TasksOf(e, h) = TasksOf(d, h)
  BY <1>1, <1>2, <1>3, <1>4, <1>6 DEF Present, TasksOf
<1>8. \A x \in Present(d) : /\ x \in Tasks /\ x \notin new
                            /\ e.of[x] = d.of[x] /\ d.of[x] \in Goals
                            /\ e.deps[x] = d.deps[x]
                            /\ d.deps[x] \subseteq TasksOf(d, d.of[x])
                            /\ d.deps[x] \cap new = {}
  <2> TAKE x \in Present(d)
  <2>1. x \in Tasks /\ x \notin new
    BY <1>1 DEF Present
  <2>2. d.of[x] \in Goals
    BY <1>1, <2>1 DEF ConsistentBut, WellTyped, Present, Db
  <2>3. d.deps[x] \subseteq TasksOf(d, d.of[x])
    BY DEF ConsistentBut, GraphSound
  <2> QED BY <1>1, <1>2, <1>3, <1>4, <2>1, <2>2, <2>3 DEF TasksOf
<1>9. WellTyped(e)
  BY <1>2, <1>3, <1>4, <1>6, TaskGraphAssumption DEF WellTyped, ConsistentBut
<1>10. GraphSound(e)
  <2>1. ASSUME NEW x \in Present(e)
        PROVE  e.goal[e.of[x]] # "none" /\ e.deps[x] \subseteq TasksOf(e, e.of[x])
    <3>1. \A h \in Goals : d.goal[h] # "none" => e.goal[h] # "none"
      BY <1>2, <1>3, <1>4 DEF GoalStatusFor
    <3>2. CASE x \in new
      BY <1>1, <1>2, <1>3, <1>4, <1>7, <3>1, <3>2
    <3>3. CASE x \in Present(d)
      BY <1>7, <1>8, <3>1, <3>3 DEF ConsistentBut, GraphSound
    <3> QED BY <1>7, <3>2, <3>3
  <2>2. ASSUME NEW C \in SUBSET Present(e), C # {}
        PROVE  \E x \in C : e.deps[x] \cap C = {}
    <3>1. CASE C \subseteq new
      <4>1. PICK x \in C : ds[x] \cap C = {}
        BY <1>1, <2>2, <3>1 DEF AcyclicOn
      <4> QED BY <1>2, <1>3, <1>4, <3>1, <4>1
    <3>2. CASE ~(C \subseteq new)
      <4>1. C \ new # {} /\ C \ new \subseteq Present(d)
        BY <1>7, <3>2
      <4>2. PICK x \in C \ new : d.deps[x] \cap (C \ new) = {}
        BY <4>1 DEF ConsistentBut, GraphSound, AcyclicOn
      <4> QED BY <1>8, <4>1, <4>2
    <3> QED BY <3>1, <3>2
  <2> QED BY <2>1, <2>2 DEF GraphSound, AcyclicOn
<1>11. \A x \in Tasks : DepsSatisfied(e, x) <=> DepsSatisfied(a, x)
  BY <1>2, <1>3, <1>4, <1>6 DEF DepsSatisfied, Db
<1>12. BlockedWaits(e)
  BY <1>6, <1>11 DEF BlockedWaits
<1>13. AssignedHasDeps(e)
  <2> SUFFICES ASSUME NEW x \in Tasks, e.status[x] = "assigned"
               PROVE  DepsSatisfied(e, x)
    BY DEF AssignedHasDeps
  <2>1. x \in Present(d) /\ DepsSatisfied(d, x)
    BY <1>6 DEF Present, ConsistentBut, AssignedHasDeps
  <2> QED BY <1>6, <1>8, <2>1 DEF DepsSatisfied, TasksOf, Present
<1>14. \A h \in Goals : GoalOk(e, h)
  <2> SUFFICES ASSUME NEW h \in Goals, h # g PROVE GoalOk(e, h)
    BY <1>5
  <2>1. e.goal[h] = d.goal[h] /\ TasksOf(e, h) = TasksOf(d, h) /\ GoalOk(d, h)
    BY <1>2, <1>3, <1>4, <1>7 DEF ConsistentBut
  <2>2. \A x \in TasksOf(d, h) : e.status[x] = "completed" <=> d.status[x] = "completed"
    BY <1>6, <1>8 DEF TasksOf
  <2> QED BY <1>1, <1>4, <2>1, <2>2, GoalKept
<1>15. Consistent(e)
  BY <1>9, <1>10, <1>12, <1>13, <1>14, GoalsOk DEF Consistent
<1> QED BY <1>15 DEF e, b, a, DecomposeGoal

\* Reset, reopen, decompose: the reset alone may leave the goal active with
\* every task done, the decomposition that follows repairs it.
LEMMA ReplanPreserves ==
  ASSUME NEW d, Consistent(d), NEW g \in Goals,
         NEW new \in SUBSET Tasks, NEW ds \in [new -> SUBSET Tasks],
         ValidDecomposition(d, g, new, ds)
  PROVE  Consistent(DecomposeGoal(ResetForReplan(d, g), g, new, ds))
<1> DEFINE S == With(d, g, {"failed", "blocked"})
           e == ResetForReplan(d, g)
<1>1. d \in Db /\ d.goal[g] # "none" /\ S \subseteq Tasks
  BY DEF Consistent, WellTyped, ValidDecomposition, With, TasksOf, Present
<1>2. /\ e \in Db /\ e.of = d.of /\ e.deps = d.deps
      /\ \A h \in Goals : e.goal[h] = IF h = g THEN "active" ELSE d.goal[h]
      /\ \A x \in Tasks : e.status[x] = IF x \in S THEN "pending" ELSE d.status[x]
  BY <1>1 DEF ResetForReplan, RecoverStale, SetGoal, Db, TaskStatus, GoalStatus
<1>3. \A x \in S : d.status[x] \in {"failed", "blocked"}
  BY DEF With
<1> HIDE DEF e, S
<1>4. \A x \in Tasks : /\ e.status[x] = "completed" <=> d.status[x] = "completed"
                       /\ e.status[x] = "absent" <=> d.status[x] = "absent"
                       /\ e.status[x] = "assigned" => d.status[x] = "assigned"
                       /\ e.status[x] = "blocked" => d.status[x] = "blocked"
  BY <1>2, <1>3
<1>5. Present(e) = Present(d) /\ \A h \in Goals : TasksOf(e, h) = TasksOf(d, h)
  BY <1>2, <1>4 DEF Present, TasksOf
<1>6. GraphSound(e) /\ WellTyped(e)
  BY <1>1, <1>2, <1>5, SameGraph DEF Consistent
<1>7. \A x \in Tasks : DepsSatisfied(e, x) <=> DepsSatisfied(d, x)
  BY <1>1, <1>2, <1>4 DEF DepsSatisfied, Db
<1>8. BlockedWaits(e) /\ AssignedHasDeps(e)
  BY <1>4, <1>7 DEF BlockedWaits, AssignedHasDeps, Consistent
<1>9. ASSUME NEW h \in Goals, h # g
      PROVE  GoalOk(e, h)
  <2>1. e.goal[h] = d.goal[h] /\ GoalOk(d, h)
    BY <1>2, <1>9, GoalsOk DEF Consistent
  <2>2. \A x \in TasksOf(d, h) : e.status[x] = "completed" <=> d.status[x] = "completed"
    BY <1>4 DEF TasksOf, Present
  <2> QED BY <1>1, <1>2, <1>5, <2>1, <2>2, GoalKept
<1>10. ConsistentBut(e, g)
  BY <1>6, <1>8, <1>9 DEF ConsistentBut
<1>11. ValidDecomposition(e, g, new, ds)
  BY <1>2, <1>5 DEF ValidDecomposition
<1>12. Consistent(DecomposeGoal(e, g, new, ds))
  BY <1>10, <1>11, DecomposePreserves
<1> QED BY <1>12 DEF e

\* failTask, whichever way it goes.
LEMMA FailPreserves ==
  ASSUME NEW d, Consistent(d), NEW t \in Tasks, CanFinish(d, t)
  PROVE  Consistent(FailTask(d, t))
BY RetryPreserves, FailForGoodPreserves, TaskGraphAssumption
   DEF FailTask, Consistent, WellTyped, Db

\* handleFailure with replans left: the goal it reopens has a failed task.
LEMMA FailAndReopenPreserves ==
  ASSUME NEW d, Consistent(d), NEW t \in Tasks, CanFinish(d, t),
         FailTask(d, t).status[t] = "failed"
  PROVE  Consistent(SetGoal(FailTask(d, t), d.of[t], "active"))
<1>1. d \in Db /\ d.of[t] \in Goals
  BY DEF Consistent, WellTyped, CanFinish, Db
<1>2. CASE d.retries[t] < MaxRetries
  <2>1. RetryTask(d, t).status[t] # "failed"
    BY <1>1 DEF RetryTask, Db
  <2> QED BY <1>2, <2>1 DEF FailTask
<1>3. CASE ~(d.retries[t] < MaxRetries)
  <2> DEFINE e == FailForGood(d, t)
             g == d.of[t]
  <2>1. Consistent(e) /\ e.status[t] = "failed" /\ t \in TasksOf(e, g)
    BY FailForGoodPreserves
  <2> HIDE DEF e
  <2>2. e \in Db /\ e.goal[g] # "none"
    BY <2>1 DEF Consistent, WellTyped, GraphSound, TasksOf
  <2>3. ~AllDone(e, g)
    BY <2>1 DEF AllDone, With
  <2>4. Consistent(SetGoal(e, g, "active"))
    BY <1>1, <2>1, <2>2, <2>3, SetGoalFacts, SetGoalPreserves DEF GoalStatus
  <2> QED BY <1>3, <2>4 DEF FailTask, e
<1> QED BY <1>2, <1>3
---------------------------------------------------------------------------
(* Finished work stays finished *)

KeepsDone(d, e) ==
  \A t \in Tasks : d.status[t] \in {"completed", "cancelled"} =>
     e.status[t] \in {d.status[t], "absent"}

\* updateGoalStatus changes no task.
LEMMA SetGoalKeeps ==
  ASSUME NEW d \in Db, NEW g \in Goals, NEW v
  PROVE  SetGoal(d, g, v).status = d.status
BY DEF SetGoal, Db

\* decomposeGoal inserts new rows and wakes blocked ones only.
LEMMA DecomposeKeeps ==
  ASSUME NEW d \in Db, NEW g \in Goals, NEW new, new \cap Present(d) = {}, NEW ds
  PROVE  KeepsDone(d, DecomposeGoal(d, g, new, ds))
<1> DEFINE a == Insert(d, g, new, ds)
           b == Unblock(a)
<1>1. \A t \in Tasks : t \notin new => a.status[t] = d.status[t]
  BY DEF Insert, Db
<1>2. \A t \in Tasks : b.status[t] =
         IF a.status[t] = "blocked" /\ DepsSatisfied(a, t) THEN "pending" ELSE a.status[t]
  BY DEF Insert, Unblock, Db
<1>3. DecomposeGoal(d, g, new, ds).status = b.status
  BY DEF DecomposeGoal, Refresh, Unblock, Insert, Db
<1> HIDE DEF a, b
<1>4. \A t \in Tasks : d.status[t] # "absent" => t \notin new
  BY DEF Present
<1> QED BY <1>1, <1>2, <1>3, <1>4 DEF KeepsDone

\* The reset before a replan touches failed and blocked tasks only.
LEMMA ResetKeeps ==
  ASSUME NEW d \in Db, NEW g \in Goals
  PROVE  /\ ResetForReplan(d, g) \in Db
         /\ Present(ResetForReplan(d, g)) = Present(d)
         /\ \A t \in Tasks : d.status[t] \in {"completed", "cancelled"} =>
               ResetForReplan(d, g).status[t] = d.status[t]
<1> DEFINE S == With(d, g, {"failed", "blocked"})
           e == ResetForReplan(d, g)
<1>1. e \in Db /\ \A x \in Tasks : e.status[x] = IF x \in S THEN "pending" ELSE d.status[x]
  BY DEF ResetForReplan, RecoverStale, SetGoal, Db, TaskStatus, GoalStatus
<1>2. \A x \in S : d.status[x] \in {"failed", "blocked"}
  BY DEF With
<1> HIDE DEF e, S
<1>3. Present(e) = Present(d)
  BY <1>1, <1>2 DEF Present
<1> QED BY <1>1, <1>2, <1>3 DEF e

\* completeTask throws on finished tasks, so it changes an open one.
LEMMA CompleteKeeps ==
  ASSUME NEW d \in Db, NEW t \in Tasks, CanFinish(d, t)
  PROVE  KeepsDone(d, CompleteTask(d, t))
<1> DEFINE a == [d EXCEPT !.status[t] = "completed"]
<1>1. \A x \in Tasks : a.status[x] = IF x = t THEN "completed" ELSE d.status[x]
  BY DEF Db
<1>2. CompleteTask(d, t).status = Unblock(a).status
  BY DEF CompleteTask, Refresh, Unblock, Db
<1>3. \A x \in Tasks : Unblock(a).status[x] =
         IF a.status[x] = "blocked" /\ DepsSatisfied(a, x) THEN "pending" ELSE a.status[x]
  BY DEF Unblock, Db
<1> HIDE DEF a
<1> QED BY <1>1, <1>2, <1>3 DEF KeepsDone, CanFinish, Terminal

\* failTask throws on finished tasks, and blocks only open dependents.
LEMMA FailKeeps ==
  ASSUME NEW d \in Db, NEW t \in Tasks, CanFinish(d, t)
  PROVE  KeepsDone(d, FailTask(d, t))
<1>1. KeepsDone(d, RetryTask(d, t))
  BY DEF RetryTask, KeepsDone, CanFinish, Terminal, Db
<1>2. KeepsDone(d, FailForGood(d, t))
  <2> DEFINE a == [d EXCEPT !.status[t] = "failed", !.to[t] = NoAgent]
  <2>1. \A x \in Tasks : a.status[x] = IF x = t THEN "failed" ELSE d.status[x]
    BY DEF Db
  <2>2. FailForGood(d, t).status = BlockDependents(a, t).status
    BY DEF FailForGood, Refresh, BlockDependents, Db
  <2>3. \A x \in Tasks : BlockDependents(a, t).status[x] =
           IF t \in a.deps[x] /\ a.status[x] \in {"pending", "assigned"}
           THEN "blocked" ELSE a.status[x]
    BY DEF BlockDependents, Db
  <2> HIDE DEF a
  <2> QED BY <2>1, <2>2, <2>3 DEF KeepsDone, CanFinish, Terminal
<1> QED BY <1>1, <1>2 DEF FailTask

--------------------------------------------------------------------------------
(* What consistency gives *)

\* Among the open tasks of a goal one waits for no other open task, since no
\* chain of dependencies closes on itself.
LEMMA OpenWorkMoves ==
  ASSUME NEW d, Consistent(d), NEW g \in Goals, d.goal[g] = "active", TasksOf(d, g) # {}
  PROVE  \/ TasksOf(d, g) \cap ReadyTasks(d) # {}
         \/ With(d, g, {"assigned", "failed", "cancelled"}) # {}
<1> DEFINE C == {t \in TasksOf(d, g) : d.status[t] # "completed"}
<1>1. d \in Db /\ C # {} /\ C \in SUBSET Present(d)
  BY DEF Consistent, WellTyped, ActiveHasOpenWork, AllDone, With, TasksOf
<1>2. PICK t \in C : d.deps[t] \cap C = {}
  BY <1>1 DEF Consistent, GraphSound, AcyclicOn
<1>3. t \in TasksOf(d, g) /\ t \in Tasks /\ d.status[t] \notin {"absent", "completed"}
  BY <1>2 DEF TasksOf, Present
<1>4. DepsSatisfied(d, t)
  <2>1. d.deps[t] \subseteq TasksOf(d, g)
    BY <1>3 DEF Consistent, GraphSound, TasksOf
  <2> QED BY <1>2, <2>1 DEF DepsSatisfied
<1>5. d.status[t] # "blocked"
  BY <1>3, <1>4 DEF Consistent, BlockedWaits
<1>6. d.status[t] \in {"pending", "assigned", "failed", "cancelled"}
  BY <1>1, <1>3, <1>5 DEF Db, TaskStatus
<1> QED BY <1>3, <1>4, <1>6 DEF ReadyTasks, With
==============================================================================
