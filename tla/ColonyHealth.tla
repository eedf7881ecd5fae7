------------------------------ MODULE ColonyHealth ------------------------------
(***************************************************************************)
(* The heartbeat's colony_health_check (orchestration/health-monitor.ts)    *)
(* beside everybody else who uses the task graph.  Those are TaskStore's    *)
(* free callers; an assignment is followed by its message or not, for the   *)
(* sender may die in between.                                               *)
(*                                                                         *)
(* checkAll looks at all the children's tasks at once and then awaits their *)
(* balances; autoHeal acts on that report, child by child, with an await    *)
(* around each.  Funding and the messages to the child change no table      *)
(* modelled here.                                                          *)
(***************************************************************************)
EXTENDS TaskStore

CONSTANT NoTask   \* no entry in the report

ASSUME ColonyAssumption == NoTask \notin Tasks

VARIABLES
  up,       \* children whose status is running or healthy
  report,   \* the stuck task of each child the pass has yet to heal
  told,     \* history: assigned tasks whose assignee was sent them
  touched,  \* history: reported tasks somebody changed since the report
  misled    \* history: a heal fell on a task that was touched

graph == <<db, told>>
vars == <<db, up, report, told, touched, misled>>

ColonyInit ==
  /\ Init
  /\ up = {} /\ told = {} /\ touched = {}
  /\ report = [a \in Agents |-> NoTask]
  /\ misled = FALSE

--------------------------------------------------------------------------------
(* The others *)

\* The tasks the pass in flight has yet to come to.
Reported == {report[a] : a \in Agents} \ {NoTask}

\* Tasks that lie with another agent, or in another state, than before.
Changed == {t \in Tasks : db'.status[t] # db.status[t] \/ db'.to[t] # db.to[t]}

\* Whoever else uses the graph; a new assignment may reach its agent.
Others ==
  /\ Next
  /\ \E heard \in SUBSET {t \in Changed : db'.status[t] = "assigned"} :
       told' = (told \ Changed) \cup heard
  /\ touched' = touched \cup (Changed \cap Reported)
  /\ UNCHANGED <<up, report, misled>>

\* Spawning, health checks, the monitor's own stop and restart.
ChildStatus(a) ==
  /\ up' = IF a \in up THEN up \ {a} ELSE up \cup {a}
  /\ UNCHANGED <<graph, report, touched, misled>>

--------------------------------------------------------------------------------
(* checkAll *)

\* Variant: whatever the table names the child for, finished or not.
ActiveTasksOfAnyStatus(a) == {t \in Present(db) : db.to[t] = a}

\* Variant: tasks that were started; the runtime never marks one so.
RunningTasks(a) == {t \in Tasks : db.status[t] = "running" /\ db.to[t] = a}

\* What getActiveTask chooses from.
ActiveTasks(a) == {t \in Tasks : db.status[t] = "assigned" /\ db.to[t] = a}

\* getActiveTask; which of two was created first is left open.
ActiveTask(a) ==
  IF ActiveTasks(a) = {} THEN NoTask ELSE CHOOSE t \in ActiveTasks(a) : TRUE

\* The report of a new pass: the children in S have been silent for too long, or
\* their task was created too long ago.  A pass that finds none does nothing.
CheckAll(S) ==
  /\ Reported = {}
  /\ S # {} /\ \A a \in S : ActiveTask(a) # NoTask
  /\ report' = [a \in Agents |-> IF a \in S THEN ActiveTask(a) ELSE NoTask]
  /\ touched' = {}
  /\ UNCHANGED <<db, up, told, misled>>

--------------------------------------------------------------------------------
(* autoHeal *)

\* selectReplacementAgent: an idle child other than a, or nobody.
Replacements(a) ==
  LET idle == {b \in up \ {a} : ActiveTasks(b) = {}}
  IN IF idle = {} THEN {NoAgent} ELSE idle

\* reassignTask's two UPDATEs.  They look at nothing but the retry count, and
\* nobody sends the replacement its task.
ReassignTask(d, t, b) ==
  IF d.retries[t] + 1 > MaxRetries
  THEN [d EXCEPT !.status[t] = "failed"]
  ELSE [d EXCEPT !.status[t] = IF b = NoAgent THEN "pending" ELSE "assigned",
                 !.to[t] = b,
                 !.retries[t] = @ + 1]

\* The pass comes to child a.
Heal(a) ==
  /\ report[a] \in Present(db)
  /\ \E b \in Replacements(a) : db' = ReassignTask(db, report[a], b)
  /\ told' = told \ {report[a]}
  /\ touched' = touched \ {report[a]}
  /\ misled' = (misled \/ report[a] \in touched)
  /\ report' = [report EXCEPT ![a] = NoTask]
  /\ UNCHANGED up

\* The task's row is gone.
HealGone(a) ==
  /\ report[a] \in Tasks \ Present(db)
  /\ report' = [report EXCEPT ![a] = NoTask]
  /\ touched' = touched \ {report[a]}
  /\ UNCHANGED <<graph, up, misled>>

\* The child is in an error loop: it is stopped, and nothing else is done.
StopAgent(a) ==
  /\ report[a] # NoTask
  /\ up' = up \ {a}
  /\ report' = [report EXCEPT ![a] = NoTask]
  /\ touched' = touched \ {report[a]}
  /\ UNCHANGED <<graph, misled>>

\* The pass fails, or the agent dies.
Abandon ==
  /\ Reported # {}
  /\ report' = [a \in Agents |-> NoTask] /\ touched' = {}
  /\ UNCHANGED <<graph, up, misled>>

--------------------------------------------------------------------------------

ColonyNext ==
  \/ Others \/ Abandon
  \/ \E S \in SUBSET Agents : CheckAll(S)
  \/ \E a \in Agents : ChildStatus(a) \/ Heal(a) \/ HealGone(a) \/ StopAgent(a)

\* The heartbeat runs its check and time passes, so a child that keeps its task
\* is found stuck; and a pass is not always abandoned before it comes to it.
Fairness ==
  \A a \in Agents :
    /\ SF_vars(\E S \in SUBSET Agents : a \in S /\ CheckAll(S))
    /\ SF_vars(Heal(a) \/ HealGone(a) \/ StopAgent(a))

ColonySpec == ColonyInit /\ [][ColonyNext]_vars /\ Fairness

--------------------------------------------------------------------------------
(* Properties *)

\* The monitor writes past every check the task graph makes, and yet as long as
\* no report was overtaken it leaves the graph as the graph's own functions do:
\* nothing assigned before its dependencies, nothing asleep for nothing, no
\* completed goal with open tasks.
HealKeepsGraph ==
  misled \/ /\ WellTyped(db) /\ GraphSound(db)
            /\ AssignedHasDeps(db) /\ BlockedWaits(db) /\ CompletedIsDone(db)

\* A child whose only task it was never sent, because the sender died after the
\* assignment, is relieved of it, unless the child is stopped.
UnheardIsMoved ==
  \A a \in Agents :
    LET Unheard == \E t \in Tasks \ told :
          {x \in Tasks : db.status[x] = "assigned" /\ db.to[x] = a} = {t}
    IN  Unheard ~> ~Unheard \/ a \notin up
================================================================================
