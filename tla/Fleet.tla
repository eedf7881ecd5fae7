--------------------------------- MODULE Fleet ---------------------------------
(***************************************************************************)
(* The processes of the companies on the backend: spawning and killing them *)
(* (orchestrator.ts), the health sweep that restarts them under its job     *)
(* lease (healthCheck.ts, scheduler.ts), and whoever stops a company: the   *)
(* kill switches (expansionKillSwitch.ts, rootKillSwitch.ts) and the quota  *)
(* sweep (resourceQuotas.ts).                                              *)
(*                                                                         *)
(* A pass of the sweep is a tick of some backend instance.  It takes a      *)
(* snapshot of every row and then visits the companies; it awaits at        *)
(*   stat   the state file's age                                           *)
(*   exit   the end of the process it has just killed, for at most 2 s     *)
(* and is at "loop" between two companies.  The restart route is a process  *)
(* too.  Everything else is one step.  Freezing funds, which starts and     *)
(* stops nothing, and the audit rows are left out; so is what an earlier    *)
(* process still does when a later one is spawned before it is gone.        *)
(***************************************************************************)
EXTENDS Naturals, FiniteSets

CONSTANTS
  Companies,   \* agents with a row in agent_processes
  Unborn,      \* those whose genesis has yet to start them
  Passes,      \* passes of the health sweep that may be in flight
  Routes,      \* calls of POST /:address/health/restart
  Instances,   \* instances of the backend
  Owners,      \* which of them may run which pass
  MaxRestarts, \* agentMaxRestartsPerWindow
  Nobody       \* no lease holder, no company

ASSUME FleetAssumption ==
  /\ Unborn \subseteq Companies /\ Nobody \notin Companies
  /\ Passes \cap Routes = {}
  /\ Nobody \notin Instances /\ Owners \subseteq [Passes -> Instances]
  /\ MaxRestarts \in Nat

Restarters == Passes \cup Routes

VARIABLES
  row,       \* agent_processes.status, or "none"
  live,      \* the process of the row's pid exists
  stale,     \* the state file is older than agentHangTimeoutMs
  count,     \* restart_count
  quiet,     \* last_restart_at is older than agentRestartWindowMs
  due,       \* companies whose genesis has yet to start them
  at, on,    \* where a restarter awaits, and its company
  sawUp,     \* companies the pass has yet to visit and saw running
  sawDown,   \* the same, and saw crashed
  tracked,   \* the restart_count a restarter read
  owner,     \* the instance that runs a pass, once and for all
  holder,    \* scheduled_jobs.locked_by of health_check
  lapsed,    \* lease_expires_at is past
  word,      \* history: the last order given for the company
  excused,   \* history: companies whose last kill met what KillHolds names
  launches,  \* history: its health restarts since a quiet window, those made
             \* while another one waited for its exit left out
  term,      \* history: the pass the lease was last given to
  overdue,   \* history: passes in flight that outlived their lease
  slipped    \* history: a pass gave back the lease of another

process == <<row, live, stale>>
tracking == <<count, quiet, launches>>
sweep == <<at, on, sawUp, sawDown, tracked>>
lease == <<owner, holder, lapsed, term, overdue, slipped>>
fleetVars == <<process, tracking, sweep, lease, due, word, excused>>

\* Types.
FleetTypeOk ==
  /\ row \in [Companies -> {"none", "running", "killed", "crashed"}]
  /\ live \in [Companies -> BOOLEAN]
  /\ stale \in [Companies -> BOOLEAN]
  /\ count \in [Companies -> Nat] /\ quiet \in [Companies -> BOOLEAN]
  /\ due \subseteq Companies /\ excused \subseteq Companies
  /\ at \in [Restarters -> {"idle", "loop", "stat", "exit"}]
  /\ on \in [Restarters -> Companies \cup {Nobody}]
  /\ sawUp \in [Passes -> SUBSET Companies]
  /\ sawDown \in [Passes -> SUBSET Companies]
  /\ tracked \in [Restarters -> Nat]
  /\ owner \in [Passes -> Instances] /\ holder \in Instances \cup {Nobody}
  /\ lapsed \in BOOLEAN /\ slipped \in BOOLEAN
  /\ word \in [Companies -> {"none", "up", "down"}]
  /\ launches \in [Companies -> Nat]
  /\ term \in Passes \cup {Nobody} /\ overdue \subseteq Passes

FleetInit ==
  /\ row = [c \in Companies |-> "none"]
  /\ live = [c \in Companies |-> FALSE]
  /\ stale = [c \in Companies |-> FALSE]
  /\ count = [c \in Companies |-> 0] /\ quiet = [c \in Companies |-> TRUE]
  /\ due = Unborn
  /\ at = [p \in Restarters |-> "idle"] /\ on = [p \in Restarters |-> Nobody]
  /\ sawUp = [s \in Passes |-> {}] /\ sawDown = [s \in Passes |-> {}]
  /\ tracked = [p \in Restarters |-> 0]
  /\ owner \in Owners /\ holder = Nobody /\ lapsed = FALSE
  /\ word = [c \in Companies |-> "none"] /\ excused = {}
  /\ launches = [c \in Companies |-> 0]
  /\ term = Nobody /\ overdue = {} /\ slipped = FALSE

--------------------------------------------------------------------------------
(* Processes *)

\* Variant: the row is believed.
RowOnly(c) == row[c]

\* getAgentProcessStatus: a running row whose process is gone reads (and is
\* written back) as crashed.
Reading(c) == IF row[c] = "running" /\ ~live[c] THEN "crashed" ELSE row[c]

\* spawnAgentProcess, when the row does not read as running.  Whatever process
\* the row named before is forgotten; it may still be on its way out.
Launch(c) ==
  /\ row' = [row EXCEPT ![c] = "running"]
  /\ live' = [live EXCEPT ![c] = TRUE]
  /\ UNCHANGED stale

\* The same, refused: all it does is bring the row up to date.
Observe(c) ==
  /\ row' = [row EXCEPT ![c] = Reading(c)]
  /\ UNCHANGED <<live, stale>>

\* POST /:address/spawn.
Spawn(c) ==
  /\ Reading(c) # "running"
  /\ Launch(c)
  /\ word' = [word EXCEPT ![c] = "up"]
  /\ UNCHANGED <<tracking, sweep, lease, due, excused>>

\* killAgentProcess: a signal, and the row is killed; the process is not yet
\* gone.
Signal(c) ==
  /\ row' = [row EXCEPT ![c] = "killed"]
  /\ UNCHANGED <<live, stale>>

\* What may have been under way when c was killed: a restart of c, a pass that
\* had seen it, its genesis; or there was nothing to kill.
Overtaken(c) ==
  \/ c \in due \/ Reading(c) \notin {"running", "killed"}
  \/ \E p \in Restarters : on[p] = c
  \/ \E s \in Passes : c \in sawUp[s] \cup sawDown[s]

Ordered(c) ==
  /\ word' = [word EXCEPT ![c] = "down"]
  /\ excused' = IF Overtaken(c) THEN excused \cup {c} ELSE excused \ {c}

\* POST /:address/kill, which refuses when nothing runs.
Kill(c) ==
  /\ Reading(c) = "running"
  /\ Signal(c)
  /\ Ordered(c)
  /\ UNCHANGED <<tracking, sweep, lease, due>>

\* shutdownAgentServer: a company that does not run needs no signal, and the
\* kill switch reports success.
Shutdown(c) ==
  /\ IF Reading(c) = "running" THEN Signal(c) ELSE Observe(c)
  /\ Ordered(c)
  /\ UNCHANGED <<tracking, sweep, lease, due>>

\* enforceResourceQuotas: a quota is exceeded, and after the checks' awaits the
\* company still runs.
EnforceQuota(c) == Kill(c)

\* adminKillAgent: a company without a row has no process to signal.
AdminKill(c) == row[c] # "none" /\ Shutdown(c)

\* The genesis executor activates the company and starts it.
Activate(c) ==
  /\ c \in due
  /\ due' = due \ {c}
  /\ IF Reading(c) = "running" THEN Observe(c) ELSE Launch(c)
  /\ UNCHANGED <<tracking, sweep, lease, word, excused>>

\* A process ends, by itself or by a signal.
Exit(c) ==
  /\ live[c]
  /\ live' = [live EXCEPT ![c] = FALSE]
  /\ UNCHANGED <<row, stale, tracking, sweep, lease, due, word, excused>>

\* The state file grows old, or a live process writes it.
StateFile(c) ==
  /\ \/ row[c] = "running" /\ stale' = [stale EXCEPT ![c] = TRUE]
     \/ live[c] /\ stale' = [stale EXCEPT ![c] = FALSE]
  /\ UNCHANGED <<row, live, tracking, sweep, lease, due, word, excused>>

--------------------------------------------------------------------------------
(* restartAgentProcess *)

\* Variant: the count is reset however recent the last restart.
AlwaysReset(c) == 0

\* resetRestartTrackingIfStale.
Current(c) == IF quiet[c] THEN 0 ELSE count[c]

\* recordRestartAttempt.
Record(c, n) ==
  /\ count' = [count EXCEPT ![c] = n]
  /\ quiet' = [quiet EXCEPT ![c] = FALSE]

\* Restarts of c that wait for its exit.
Leaving(c) == {p \in Restarters : at[p] = "exit" /\ on[p] = c}

Launched(p, c) ==
  launches' = IF Leaving(c) \subseteq {p} THEN [launches EXCEPT ![c] = @ + 1]
              ELSE launches

\* Restarter p is done with its company.
Back(p) ==
  /\ at' = [at EXCEPT ![p] = IF p \in Passes THEN "loop" ELSE "idle"]
  /\ on' = [on EXCEPT ![p] = Nobody]
  /\ tracked' = [tracked EXCEPT ![p] = 0]

\* The circuit is open: too many restarts in this window.
CircuitOpen(p, c) ==
  /\ Current(c) >= MaxRestarts
  /\ count' = [count EXCEPT ![c] = Current(c)]
  /\ Back(p)
  /\ UNCHANGED <<process, quiet, launches>>

\* Nothing runs: spawn at once.
RestartDead(p, c) ==
  /\ Current(c) < MaxRestarts /\ Reading(c) # "running"
  /\ Launch(c) /\ Launched(p, c)
  /\ Record(c, Current(c) + 1)
  /\ Back(p)

\* SIGKILL, and the end of the process is awaited.
RestartRunning(p, c) ==
  /\ Current(c) < MaxRestarts /\ Reading(c) = "running"
  /\ Signal(c)
  /\ count' = [count EXCEPT ![c] = Current(c)]
  /\ at' = [at EXCEPT ![p] = "exit"]
  /\ on' = [on EXCEPT ![p] = c]
  /\ tracked' = [tracked EXCEPT ![p] = Current(c)]
  /\ UNCHANGED <<quiet, launches>>

Restart(p, c) == CircuitOpen(p, c) \/ RestartDead(p, c) \/ RestartRunning(p, c)

\* waitForExit is over.  The company is spawned unless somebody was faster; the
\* count written is the one read before the wait.
AfterExit(p) ==
  /\ at[p] = "exit"
  /\ LET c == on[p] IN
       /\ \/ Reading(c) # "running" /\ Launch(c) /\ Launched(p, c)
          \/ Reading(c) = "running" /\ Observe(c) /\ UNCHANGED launches
       /\ Record(c, tracked[p] + 1)
  /\ Back(p)
  /\ UNCHANGED <<sawUp, sawDown, lease, due, word, excused>>

\* POST /:address/health/restart.
RestartRoute(p, c) ==
  /\ p \in Routes /\ at[p] = "idle"
  /\ Restart(p, c)
  /\ word' = [word EXCEPT ![c] = "up"]
  /\ UNCHANGED <<sawUp, sawDown, lease, due, excused>>

\* A restart window ends quietly; it is long against the 2 s of an exit.
WindowPasses(c) ==
  /\ Leaving(c) = {}
  /\ quiet' = [quiet EXCEPT ![c] = TRUE]
  /\ launches' = [launches EXCEPT ![c] = 0]
  /\ UNCHANGED <<process, count, sweep, lease, due, word, excused>>

--------------------------------------------------------------------------------
(* sweepAgentHealth under its lease *)

\* leaseIsAcquirable.
Acquirable == holder = Nobody \/ lapsed

\* Variant: killed companies are looked after as well.
NotKilled(s) ==
  /\ sawUp' = [sawUp EXCEPT ![s] = {c \in Companies : Reading(c) = "running"}]
  /\ sawDown' = [sawDown EXCEPT ![s] =
                   {c \in Companies : Reading(c) \in {"crashed", "killed"}}]

\* listAgentProcesses: what the pass will act on.
Snapshot(s) ==
  /\ sawUp' = [sawUp EXCEPT ![s] = {c \in Companies : Reading(c) = "running"}]
  /\ sawDown' = [sawDown EXCEPT ![s] = {c \in Companies : Reading(c) = "crashed"}]

\* A tick that gets the lease takes its snapshot.
Tick(s) ==
  /\ at[s] = "idle" /\ Acquirable
  /\ holder' = owner[s] /\ lapsed' = FALSE /\ term' = s
  /\ Snapshot(s)
  /\ row' = [c \in Companies |-> Reading(c)]
  /\ at' = [at EXCEPT ![s] = "loop"]
  /\ UNCHANGED <<live, stale, tracking, on, tracked, owner, overdue, slipped,
                 due, word, excused>>

\* A company the pass saw crashed.
VisitCrashed(s, c) ==
  /\ at[s] = "loop" /\ c \in sawDown[s]
  /\ sawDown' = [sawDown EXCEPT ![s] = @ \ {c}]
  /\ Restart(s, c)
  /\ UNCHANGED <<sawUp, lease, due, word, excused>>

\* A company it saw running: the state file's age is asked for.
VisitRunning(s, c) ==
  /\ at[s] = "loop" /\ c \in sawUp[s]
  /\ sawUp' = [sawUp EXCEPT ![s] = @ \ {c}]
  /\ at' = [at EXCEPT ![s] = "stat"]
  /\ on' = [on EXCEPT ![s] = c]
  /\ UNCHANGED <<process, tracking, sawDown, tracked, lease, due, word, excused>>

StatHung(s) ==
  /\ at[s] = "stat" /\ stale[on[s]]
  /\ Restart(s, on[s])
  /\ UNCHANGED <<sawUp, sawDown, lease, due, word, excused>>

StatHealthy(s) ==
  /\ at[s] = "stat" /\ ~stale[on[s]]
  /\ count' = [count EXCEPT ![on[s]] = Current(on[s])]
  /\ Back(s)
  /\ UNCHANGED <<process, quiet, launches, sawUp, sawDown, lease, due, word, excused>>

\* Variant: the lease is given back whoever holds it.
ReleaseAny(s) ==
  /\ holder' = Nobody /\ lapsed' = FALSE /\ term' = Nobody
  /\ UNCHANGED slipped

\* releaseJobLease: only the instance that holds the lease gives it back; it
\* does not know for which of its passes.
Release(s) ==
  \/ /\ holder = owner[s]
     /\ holder' = Nobody /\ lapsed' = FALSE /\ term' = Nobody
     /\ slipped' = (slipped \/ term # s)
  \/ /\ holder # owner[s]
     /\ UNCHANGED <<holder, lapsed, term, slipped>>

\* The pass ends.
Finish(s) ==
  /\ at[s] = "loop" /\ sawUp[s] = {} /\ sawDown[s] = {}
  /\ Release(s)
  /\ at' = [at EXCEPT ![s] = "idle"]
  /\ overdue' = overdue \ {s}
  /\ UNCHANGED <<process, tracking, on, sawUp, sawDown, tracked, owner, due, word,
                 excused>>

\* lease_expires_at passes.
LeaseExpires ==
  /\ holder # Nobody /\ ~lapsed
  /\ lapsed' = TRUE
  /\ overdue' = IF at[term] = "idle" THEN overdue ELSE overdue \cup {term}
  /\ UNCHANGED <<process, tracking, sweep, owner, holder, term, slipped, due, word, excused>>

--------------------------------------------------------------------------------

Pass(s) ==
  \/ \E c \in Companies : VisitCrashed(s, c) \/ VisitRunning(s, c)
  \/ StatHung(s) \/ StatHealthy(s) \/ AfterExit(s) \/ Finish(s)

FleetNext ==
  \/ \E c \in Companies :
       \/ Spawn(c) \/ Kill(c) \/ EnforceQuota(c) \/ Shutdown(c) \/ AdminKill(c)
       \/ Activate(c)
       \/ Exit(c) \/ StateFile(c) \/ WindowPasses(c)
       \/ \E p \in Routes : RestartRoute(p, c)
  \/ \E s \in Passes : Tick(s) \/ Pass(s)
  \/ \E p \in Routes : AfterExit(p)
  \/ LeaseExpires

\* The timers of the backend fire and its awaits end.
FleetFairness ==
  /\ WF_fleetVars(\E s \in Passes : Tick(s))
  /\ \A s \in Passes : WF_fleetVars(Pass(s))
  /\ \A p \in Routes : WF_fleetVars(AfterExit(p))
  /\ WF_fleetVars(LeaseExpires)

FleetSpec == FleetInit /\ [][FleetNext]_fleetVars /\ FleetFairness

--------------------------------------------------------------------------------
(* Properties *)

\* A kill that reached its process holds until somebody orders otherwise,
\* unless a restart of the company, a pass that had seen it, or its genesis was
\* already under way.
KillHolds ==
  \A c \in Companies : word[c] = "down" /\ c \notin excused => row[c] = "killed"

\* The health restarts of one window stay within the budget, although the count
\* is read before an await and written back after it: what a restart adds over
\* the budget, it adds while another one waits for the company's exit.  A healthy
\* reading ends no window.
RestartBudget == \A c \in Companies : launches[c] <= MaxRestarts

\* Two passes run at once only when one of them outlived its lease, or a pass
\* of the same instance gave the lease of the other back.
PassesTakeTurns ==
  slipped \/
    \A s, t \in Passes :
      s # t /\ at[s] # "idle" /\ at[t] # "idle" => s \in overdue \/ t \in overdue

\* A company that died without an order is started again, unless it is out of
\* restarts.
DeadIsRestarted ==
  \A c \in Companies :
    row[c] \in {"running", "crashed"} /\ ~live[c]
      ~> live[c] \/ row[c] = "killed" \/ count[c] >= MaxRestarts
================================================================================
