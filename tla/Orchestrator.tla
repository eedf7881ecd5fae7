--------------------------- MODULE Orchestrator ---------------------------
(***************************************************************************)
(* The orchestrator of one agent process: its tick, cut at every point     *)
(* where it awaits something that may take time (a model call, a spawn, a  *)
(* transfer, the inbox), and everybody who writes the task graph           *)
(* meanwhile: the local workers it spawned (async tasks of the process),   *)
(* the child agents' results, the parent agent's own goal tools, a         *)
(* process crash, and the end of a wake cycle, after which runAgentLoop    *)
(* starts over with a new LocalWorkerPool.                                 *)
(*                                                                         *)
(* External: what the model answers, whether a transfer succeeds, when a   *)
(* child reports, what the health checks write into children.status.       *)
(* Left out: prompts, roles, budgets and result texts; failedTaskId, which *)
(* only feeds the replanner's prompt; the plan row of kv, always there in  *)
(* plan_review; writes of a stuck task by HealthMonitor.                   *)
(***************************************************************************)
EXTENDS TaskGraph

CONSTANTS Self,        \* the parent's own address
          Locals,      \* local://... addresses of workers in this process
          Sandboxes,   \* addresses of children the orchestrator can spawn
          Children,    \* addresses of children started earlier, by the parent
          NoTask,
          MaxReplans,
          Copies,      \* how often one result can be in the inbox at a time
          HealthReports,  \* what the health checks write into children.status
          Cancellable, \* goals the parent may think better of
          MaxCrashes   \* bound on process crashes

ASSUME OrchestratorAssumption ==
  /\ Agents = {Self} \cup Locals \cup Sandboxes \cup Children
  /\ Self \notin Locals \cup Sandboxes \cup Children
  /\ Locals \cap (Sandboxes \cup Children) = {} /\ Sandboxes \cap Children = {}
  /\ HealthReports \subseteq {"healthy", "unhealthy", "failed"}
  /\ NoTask \notin Tasks /\ MaxReplans \in Nat /\ MaxCrashes \in Nat

VARIABLES
  db,         \* the goals and task_graph tables
  orch,       \* kv "orchestrator.state"
  child,      \* children.status of the row updateStatus writes, per address
  inbox,      \* unprocessed task_result messages
  tick,       \* where the running tick awaits, and its local variables
  work,       \* the task each live local worker runs
  pool,       \* activeWorkers of the current cycle's LocalWorkerPool
  told,       \* assignments a child has been sent
  slept,      \* workers of an earlier wake cycle may have been at work
  crashes

vars == <<db, orch, child, inbox, tick, work, pool, told, slept, crashes>>

Remote  == Sandboxes \cup Children
Phases  == {"idle", "classifying", "planning", "plan_review", "executing",
            "replanning", "complete", "failed"}
\* Of the declared statuses those that decide something; "none": no such row.
ChildStatus == {"none", "running", "healthy", "unhealthy", "failed"}
Results == [task : Tasks, from : Children, ok : BOOLEAN, copy : Copies]
Awaits  == {"nothing", "classify", "plan", "review", "dispatch", "spawn", "fund",
            "start", "apply", "replan", "persist", "recall"}

NoTick == [at |-> "nothing", goal |-> NoGoal, task |-> NoTask, to |-> NoAgent,
           ready |-> {}, events |-> {}, claimed |-> {}]
DefaultState == [phase |-> "idle", goal |-> NoGoal, replans |-> 0]

Init == /\ db = EmptyDb
        /\ orch = DefaultState
        /\ child = [a \in Agents |-> IF a \in Children THEN "healthy" ELSE "none"]
        /\ inbox = {} /\ tick = NoTick
        /\ work = [l \in Locals |-> NoTask] /\ pool = {}
        /\ told = {} /\ slept = FALSE /\ crashes = 0
---------------------------------------------------------------------------
(* Queries *)

Live == {l \in Locals : work[l] # NoTask}
ActiveGoals == {g \in Goals : db.goal[g] = "active"}

\* Variant: only the children table is asked.
AliveChild(a) == \/ a \in Sandboxes /\ child[a] # "none"
                 \/ a \in Children /\ child[a] # "failed"

\* isWorkerAlive: the pool of this cycle for local workers, the first row with
\* the address for the others (a spawned sandbox's stays 'wallet_verified').
Alive(a) == \/ a \in pool
            \/ a \in Sandboxes /\ child[a] # "none"
            \/ a \in Children /\ child[a] # "failed"

Usable(a) == child[a] \in {"running", "healthy"}
Idle == {a \in Agents : /\ Usable(a)
                        /\ ~\E t \in Tasks : db.status[t] = "assigned" /\ db.to[t] = a}

\* What collectResults accepts: a result from the very agent the task is with.
Authorized(m) == db.status[m.task] = "assigned" /\ db.to[m.task] = m.from
---------------------------------------------------------------------------
(* How a tick proceeds and ends *)

\* saveState, and the end of the turn the tick ran in: what the turn claimed
\* from the inbox before the tick is marked processed after it.
EndTick(state) == /\ orch' = state
                  /\ tick' = NoTick
                  /\ inbox' = inbox \ tick.claimed
Enter(phase) == EndTick([orch EXCEPT !.phase = phase, !.goal = tick.goal])

\* tick's catch: the goal fails with the tick.
Throw == /\ db' = SetGoal(db, tick.goal, "failed")
         /\ Enter("failed")

\* handleFailure.  failTask throws on a terminal task and ends the tick;
\* otherwise the tick goes on as `next', and a task failed for good changes
\* the saved state at once, to that task's goal (the tick's own end writes the
\* state it began with over it, which only a crash prevents).
HandleFailure(t, next) ==
  \/ /\ ~CanFinish(db, t)
     /\ Throw
  \/ /\ CanFinish(db, t)
     /\ LET d == FailTask(db, t)
            replan == orch.replans < MaxReplans
        IN  IF d.status[t] # "failed"
            THEN db' = d /\ orch' = orch
            ELSE /\ db' = IF replan THEN SetGoal(d, d.of[t], "active") ELSE d
                 /\ orch' = [orch EXCEPT !.phase = IF replan THEN "replanning" ELSE "failed",
                                         !.goal = d.of[t]]
     /\ tick' = next /\ UNCHANGED inbox

\* The next turn of the dispatch loop.
NextTask == [tick EXCEPT !.at = "dispatch", !.task = NoTask, !.to = NoAgent]

\* Variants: assignTask takes a task in any status; the transfer is begun
\* before the task is assigned.
HandOverUnchecked(t, a, next, spawned) ==
  /\ db' = AssignTask(db, t, a)
  /\ tick' = IF a \in Remote
             THEN [next EXCEPT !.at = IF spawned THEN "start" ELSE "fund", !.task = t, !.to = a]
             ELSE next
  /\ UNCHANGED <<orch, inbox>>
HandOverUnassigned(t, a, next, spawned) ==
  /\ db' = IF a \in Remote THEN db ELSE AssignTask(db, t, a)
  /\ tick' = IF a \in Remote
             THEN [next EXCEPT !.at = IF spawned THEN "start" ELSE "fund", !.task = t, !.to = a]
             ELSE next
  /\ UNCHANGED <<orch, inbox>>

\* assignTask, after matchTaskToAgent; a remote agent is then funded and sent
\* its task (a local worker's row already says running, Self has no row).
HandOver(t, a, next, spawned) ==
  \/ /\ db.status[t] = "pending"
     /\ db' = AssignTask(db, t, a)
     /\ tick' = IF a \in Remote
                THEN [next EXCEPT !.at = IF spawned THEN "start" ELSE "fund",
                                  !.task = t, !.to = a]
                ELSE next
     /\ UNCHANGED <<orch, inbox>>
  \/ /\ db.status[t] # "pending"
     /\ HandleFailure(t, next)
---------------------------------------------------------------------------
(* The tick.  Each action begins where the code resumes and ends where it  *)
(* awaits again.                                                           *)

quiet == <<child, work, pool, told, slept, crashes>>

\* The turn claims what has arrived when it starts, some of it perhaps just
\* before its tick resumes from resolving approvals.
Claims == SUBSET inbox

IdlePhase ==
  /\ tick.at = "nothing" /\ orch.phase = "idle"
  /\ \E c \in Claims : inbox' = inbox \ c
  /\ \/ ActiveGoals = {} /\ UNCHANGED orch
     \/ \E g \in ActiveGoals : orch' = [orch EXCEPT !.phase = "classifying", !.goal = g]
  /\ UNCHANGED <<db, tick, quiet>>

\* The phases whose handler awaits a model (or the credit recall) first.
BeginPhase(phase, at) ==
  /\ tick.at = "nothing" /\ orch.phase = phase
  /\ \E c \in Claims : tick' = [NoTick EXCEPT !.at = at, !.goal = orch.goal, !.claimed = c]
  /\ UNCHANGED <<db, orch, inbox, quiet>>

ClassifyStarted ==
  /\ tick.at = "nothing" /\ orch.phase = "classifying"
  /\ TasksOf(db, orch.goal) # {}
  /\ orch' = [orch EXCEPT !.phase = "executing"]
  /\ \E c \in Claims : inbox' = inbox \ c
  /\ UNCHANGED <<db, tick, quiet>>

Classify == /\ TasksOf(db, orch.goal) = {}
            /\ BeginPhase("classifying", "classify")

ClassifiedComplex == /\ tick.at = "classify"
                     /\ Enter("planning")
                     /\ UNCHANGED <<db, quiet>>

ClassifiedSimple(t) ==
  /\ tick.at = "classify"
  /\ ValidDecomposition(db, orch.goal, {t}, [x \in {t} |-> {}])
  /\ db' = DecomposeGoal(db, orch.goal, {t}, [x \in {t} |-> {}])
  /\ Enter("executing")
  /\ UNCHANGED quiet

Plan == BeginPhase("planning", "plan")

Planned(new, ds) ==
  /\ tick.at = "plan"
  /\ ValidDecomposition(db, orch.goal, new, ds)
  /\ db' = DecomposeGoal(db, orch.goal, new, ds)
  /\ tick' = [tick EXCEPT !.at = "persist"]
  /\ UNCHANGED <<orch, inbox, quiet>>

\* The plan's files are written; only then is the new phase saved.
Persisted ==
  /\ tick.at = "persist"
  /\ EndTick([orch EXCEPT !.phase = "plan_review",
                          !.replans = IF orch.phase = "replanning" THEN @ + 1 ELSE @])
  /\ UNCHANGED <<db, quiet>>

Review == BeginPhase("plan_review", "review")

\* Approved, rejected (as often as there are ids left for another plan), or
\* awaiting supervised approval.
Reviewed(phase) == /\ tick.at = "review"
                   /\ phase = "planning" => Tasks # Present(db)
                   /\ Enter(phase)
                   /\ UNCHANGED <<db, quiet>>

\* Variant: an executing tick that recovers nothing.
ExecuteUnrecovered ==
  /\ tick.at = "nothing" /\ orch.phase = "executing"
  /\ tick' = [NoTick EXCEPT !.at = "dispatch", !.goal = orch.goal,
                            !.ready = ReadyTasks(db) \cap TasksOf(db, orch.goal)]
  /\ UNCHANGED <<db, orch, inbox, quiet>>

\* Recovers tasks of dead workers and reads the ready list, in one go.
Execute ==
  /\ tick.at = "nothing" /\ orch.phase = "executing"
  /\ LET stale == {t \in With(db, orch.goal, {"assigned"}) : ~Alive(db.to[t])}
         d == RecoverStale(db, stale)
     IN  /\ db' = d
         /\ tick' = [NoTick EXCEPT !.at = "dispatch", !.goal = orch.goal,
                                   !.ready = ReadyTasks(d) \cap TasksOf(d, orch.goal)]
  /\ UNCHANGED <<orch, inbox, quiet>>

DispatchIdle(t, a) ==
  /\ tick.at = "dispatch" /\ t \in tick.ready /\ a \in Idle
  /\ HandOver(t, a, [tick EXCEPT !.ready = @ \ {t}], FALSE)
  /\ UNCHANGED quiet

Spawn(t) ==
  /\ tick.at = "dispatch" /\ t \in tick.ready /\ Idle = {}
  /\ tick' = [tick EXCEPT !.at = "spawn", !.task = t, !.ready = @ \ {t}]
  /\ UNCHANGED <<db, orch, inbox, quiet>>

\* LocalWorkerPool.spawn: the worker runs from here on, assigned or not.
SpawnedLocal(l) ==
  /\ tick.at = "spawn" /\ child[l] = "none"
  /\ work' = [work EXCEPT ![l] = tick.task]
  /\ pool' = pool \cup {l}
  /\ child' = [child EXCEPT ![l] = "running"]
  /\ HandOver(tick.task, l, NextTask, TRUE)
  /\ UNCHANGED <<told, slept, crashes>>

SpawnedSandbox(s) ==
  /\ tick.at = "spawn" /\ child[s] = "none"
  /\ child' = [child EXCEPT ![s] = "running"]
  /\ HandOver(tick.task, s, NextTask, TRUE)
  /\ UNCHANGED <<work, pool, told, slept, crashes>>

\* Nothing could be spawned: a busy child, or the parent itself.
SpawnFailed ==
  /\ tick.at = "spawn"
  /\ LET busy == {a \in Agents : Usable(a)} \ Idle
     IN  \E a \in IF busy # {} THEN busy ELSE {Self} :
           HandOver(tick.task, a, NextTask, FALSE)
  /\ UNCHANGED quiet

\* The transfer went through and the assignment message is written.
Sent == /\ tick.at = "fund"
        /\ told' = told \cup {<<tick.to, tick.task>>}
        /\ child' = [child EXCEPT ![tick.to] = "running"]
        /\ tick' = NextTask
        /\ UNCHANGED <<db, orch, inbox, work, pool, slept, crashes>>

\* The transfer or the message failed; or the child is a sandbox spawned by
\* this tick: startAgent finds the row register added, which has no lifecycle
\* events, and throws whether or not the transfer went through.
NotSent == /\ tick.at \in {"fund", "start"}
           /\ HandleFailure(tick.task, NextTask)
           /\ UNCHANGED quiet

\* The whole batch is marked processed before any of it is applied.
Collect == /\ tick.at = "dispatch" /\ tick.ready = {}
           /\ tick' = [tick EXCEPT !.at = "apply",
                                   !.events = {m \in inbox : Authorized(m)}]
           /\ inbox' = {}
           /\ UNCHANGED <<db, orch, quiet>>

Rest(m) == [tick EXCEPT !.events = @ \ {m}]

ApplySuccess(m) ==
  /\ tick.at = "apply" /\ m \in tick.events /\ m.ok
  /\ \/ /\ CanFinish(db, m.task)
        /\ db' = CompleteTask(db, m.task)
        /\ child' = [a \in Agents |-> IF a = db.to[m.task] /\ child[a] # "none"
                                      THEN "healthy" ELSE child[a]]
        /\ tick' = Rest(m) /\ UNCHANGED <<orch, inbox>>
     \/ /\ ~CanFinish(db, m.task)
        /\ HandleFailure(m.task, Rest(m)) /\ UNCHANGED child
  /\ UNCHANGED <<work, pool, told, slept, crashes>>

ApplyFailure(m) ==
  /\ tick.at = "apply" /\ m \in tick.events /\ ~m.ok
  /\ HandleFailure(m.task, Rest(m))
  /\ UNCHANGED quiet

\* Variant: a failed task always sends the goal back to replanning.
ProgressForEver ==
  /\ tick.at = "apply" /\ tick.events = {}
  /\ LET g == tick.goal
         done == TasksOf(db, g) # {} /\ AllDone(db, g)
     IN  /\ db' = IF done THEN SetGoal(db, g, "completed") ELSE db
         /\ Enter(CASE done -> "complete"
                    [] With(db, g, {"failed"}) # {} -> "replanning"
                    [] OTHER -> "executing")
  /\ UNCHANGED quiet

Progress ==
  /\ tick.at = "apply" /\ tick.events = {}
  /\ LET g == tick.goal
         done == TasksOf(db, g) # {} /\ AllDone(db, g)
         failed == With(db, g, {"failed"}) # {}
     IN  /\ db' = IF done THEN SetGoal(db, g, "completed") ELSE db
         /\ Enter(CASE done   -> "complete"
                    [] failed -> IF orch.replans < MaxReplans THEN "replanning" ELSE "failed"
                    [] OTHER  -> "executing")
  /\ UNCHANGED quiet

Replanning == BeginPhase("replanning", "replan")

Replanned(new, ds) ==
  /\ tick.at = "replan"
  /\ ValidDecomposition(db, orch.goal, new, ds)
  /\ db' = DecomposeGoal(ResetForReplan(db, orch.goal), orch.goal, new, ds)
  /\ tick' = [tick EXCEPT !.at = "persist"]
  /\ UNCHANGED <<orch, inbox, quiet>>

Complete == BeginPhase("complete", "recall")

Recalled == /\ tick.at = "recall"
            /\ EndTick(DefaultState)
            /\ UNCHANGED <<db, quiet>>

FailedPhase == /\ tick.at = "nothing" /\ orch.phase = "failed"
               /\ db' = SetGoal(db, orch.goal, "failed")
               /\ orch' = DefaultState
               /\ \E c \in Claims : inbox' = inbox \ c
               /\ UNCHANGED <<tick, quiet>>
---------------------------------------------------------------------------
(* Everybody else *)

rest == <<orch, tick, told, slept, crashes>>

\* LocalWorkerPool.runWorker ends; it never checks whose task it is.
WorkerEnds(l, ok) ==
  /\ l \in Live
  /\ LET t == work[l] IN
       db' = IF ~CanFinish(db, t) THEN db
             ELSE IF ok THEN CompleteTask(db, t) ELSE FailTask(db, t)
  /\ work' = [work EXCEPT ![l] = NoTask]
  /\ pool' = pool \ {l}
  /\ UNCHANGED <<child, inbox, rest>>

\* delegate_task of an orchestrator harness: one more task of the same goal.
Delegate(l, t, deps) ==
  /\ l \in Live
  /\ LET g == db.of[work[l]] IN
       /\ ValidDecomposition(db, g, {t}, [x \in {t} |-> deps])
       /\ db' = DecomposeGoal(db, g, {t}, [x \in {t} |-> deps])
  /\ UNCHANGED <<child, inbox, work, pool, rest>>

\* A child reports, as often as it likes, on whatever it was ever sent.
Report(m) ==
  /\ <<m.from, m.task>> \in told /\ m \notin inbox
  /\ inbox' = inbox \cup {m}
  /\ UNCHANGED <<db, child, work, pool, rest>>

\* The health checks of the heartbeat, at any time.
CheckChild(a, status) ==
  /\ child[a] # status
  /\ child' = [child EXCEPT ![a] = status]
  /\ UNCHANGED <<db, inbox, work, pool, rest>>

\* The parent's tools, in the turn that follows a tick.
CreateGoal(g) ==
  /\ tick.at = "nothing" /\ db.goal[g] = "none" /\ ActiveGoals = {}
  /\ db' = SetGoal(db, g, "active")
  /\ UNCHANGED <<child, inbox, work, pool, rest>>

CancelByTool(g) ==
  /\ tick.at = "nothing" /\ g \in Cancellable /\ db.goal[g] = "active"
  /\ db' = CancelGoal(db, g)
  /\ UNCHANGED <<child, inbox, work, pool, rest>>

CompleteByTool(t) ==
  /\ tick.at = "nothing" /\ CanFinish(db, t)
  /\ db' = CompleteTask(db, t)
  /\ UNCHANGED <<child, inbox, work, pool, rest>>

\* The process dies and restarts: workers and the tick are gone, tables stay.
Crash ==
  /\ tick' = NoTick /\ pool' = {} /\ work' = [l \in Locals |-> NoTask]
  /\ slept' = FALSE /\ crashes < MaxCrashes /\ crashes' = crashes + 1
  /\ UNCHANGED <<db, orch, child, inbox, told>>

\* The agent sleeps and runAgentLoop is called again: a new pool, old workers
\* still running.
NewCycle ==
  /\ tick.at = "nothing" /\ pool # {}
  /\ pool' = {} /\ slept' = TRUE
  /\ UNCHANGED <<db, orch, child, inbox, tick, work, told, crashes>>
---------------------------------------------------------------------------
TickStep ==
  \/ IdlePhase \/ ClassifyStarted \/ Classify \/ ClassifiedComplex
  \/ Plan \/ Persisted \/ Review \/ Execute \/ SpawnFailed \/ Sent \/ NotSent \/ Collect
  \/ Progress \/ Replanning \/ Complete \/ Recalled \/ FailedPhase
  \/ \E t \in Tasks : ClassifiedSimple(t) \/ Spawn(t) \/ \E a \in Agents : DispatchIdle(t, a)
  \/ \E new \in SUBSET (Tasks \ Present(db)) : \E ds \in [new -> SUBSET new] :
       Planned(new, ds) \/ Replanned(new, ds)
  \/ \E phase \in {"executing", "planning", "plan_review"} : Reviewed(phase)
  \/ \E l \in Locals : SpawnedLocal(l)
  \/ \E s \in Sandboxes : SpawnedSandbox(s)
  \/ \E m \in tick.events : ApplySuccess(m) \/ ApplyFailure(m)

WorkerStep == \E l \in Locals, ok \in BOOLEAN : WorkerEnds(l, ok)

Others ==
  \/ \E l \in Locals, t \in Tasks, deps \in SUBSET Tasks : Delegate(l, t, deps)
  \/ \E m \in Results : Report(m)
  \/ \E a \in Children, status \in HealthReports : CheckChild(a, status)
  \/ \E g \in Goals : CreateGoal(g) \/ CancelByTool(g)
  \/ \E t \in Tasks : CompleteByTool(t)
  \/ Crash \/ NewCycle

Next == TickStep \/ WorkerStep \/ Others
Spec == Init /\ [][Next]_vars

\* The loop keeps calling tick and every call returns; workers end; a plan is
\* approved some day; a child not known to have failed reports on what it was
\* sent; the parent does, in its turns, the tasks it assigned to itself.
DoesOwn(t) == db.to[t] = Self /\ CompleteByTool(t)
ReportsOn(r, t) ==
  child[r] # "failed" /\ \E m \in Results : m.from = r /\ m.task = t /\ Report(m)
Fairness == /\ WF_vars(TickStep) /\ WF_vars(WorkerStep)
            /\ SF_vars(Reviewed("executing"))
            /\ \A t \in Tasks : SF_vars(DoesOwn(t))
            /\ \A r \in Children, t \in Tasks : WF_vars(ReportsOn(r, t))
FairSpec == Spec /\ Fairness
---------------------------------------------------------------------------
(* What must never go wrong *)

TypeOk ==
  /\ WellTyped(db)
  /\ orch \in [phase : Phases, goal : Goals \cup {NoGoal}, replans : 0..MaxReplans]
  /\ orch.phase # "idle" => orch.goal # NoGoal /\ db.goal[orch.goal] # "none"
  /\ child \in [Agents -> ChildStatus]
  /\ inbox \subseteq Results
  /\ tick \in [at : Awaits, goal : Goals \cup {NoGoal}, task : Tasks \cup {NoTask},
               to : Agents \cup {NoAgent}, ready : SUBSET Tasks, events : SUBSET Results,
               claimed : SUBSET Results]
  /\ work \in [Locals -> Tasks \cup {NoTask}]
  /\ pool \subseteq Live
  /\ told \subseteq Remote \X Tasks /\ slept \in BOOLEAN /\ crashes \in 0..MaxCrashes

\* Whatever the tick, the workers, the tools and a crash interleave, the graph
\* only ever changes the way the task store allows.
Store == INSTANCE TaskStore
RefinesStore == Store!Spec

\* The saved phase fits the graph, also after a crash in the middle of a tick:
\* past planning there are tasks; replanning is entered only with replans left;
\* and a replanning tick begins, and asks the model, with a failed task at hand
\* unless a crash made it forget a replan it had begun.
PhaseFitsGraph ==
  /\ orch.phase \in {"plan_review", "executing", "replanning", "complete"} =>
       TasksOf(db, orch.goal) # {}
  /\ orch.phase = "replanning" =>
       /\ orch.replans < MaxReplans
       /\ crashes = 0 /\ tick.at \in {"nothing", "replan"} =>
            With(db, orch.goal, {"failed"}) # {}

\* Until the agent has slept, nobody takes a task from a live worker: it stays
\* assigned to it until it is completed or cancelled.
KeepsTask(l) ==
  LET t == work[l] IN
    (l \in Live /\ work'[l] = t /\ db.status[t] = "assigned" /\ db.to[t] = l) =>
      \/ db'.status[t] = "assigned" /\ db'.to[t] = l
      \/ db'.status[t] \in {"completed", "cancelled"}
FirstCycleKeepsTask == [][~slept => \A l \in Locals : KeepsTask(l)]_vars

\* ... and while a transfer or a message to an agent is under way, the task it
\* is for is in that agent's hands.
PaysForCurrentTask ==
  ~slept /\ tick.at \in {"fund", "start"} =>
    db.status[tick.task] = "assigned" /\ db.to[tick.task] = tick.to

\* No goal stays active for ever: it is completed, or given up.
GoalsMakeProgress ==
  \A g \in Goals : db.goal[g] = "active" ~> db.goal[g] # "active"
===========================================================================
