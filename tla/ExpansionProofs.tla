----------------------------- MODULE ExpansionProofs -----------------------------
(***************************************************************************)
(* The expansion pipeline of a root agent with any number of opportunities,  *)
(* departments, slots and dry-run packets, over any executor that keeps the  *)
(* contract of GenesisTriggers; and, in the sections named after it, the     *)
(* fleet of companies that come of it: any number of companies, sweeps,     *)
(* backend instances and restart routes.                                   *)
(***************************************************************************)
EXTENDS Expansion, Fleet, FiniteSetTheorems, TLAPS

\* An executor in flight has a trigger.
RunningFired == \A o \in running : trigger[o] # "none"

IInv == TypeOk /\ RunningFired /\ RulingTakesEffect /\ LiveStageEarned

--------------------------------------------------------------------------------
(* Packets *)

\* Packets are never deleted, so what was earned stays earned.
LEMMA PacketsEarn ==
  ASSUME packets \subseteq Opps, NEW o \in Opps, Cardinality(packets) >= MinPackets
  PROVE  Cardinality(packets \cup {o}) >= MinPackets
<1>1. IsFiniteSet(packets)
  BY FS_Subset, ExpansionAssumption
<1>2. Cardinality(packets) \in Nat
  BY <1>1, FS_CardinalityType
<1>3. Cardinality(packets \cup {o}) \in {Cardinality(packets), Cardinality(packets) + 1}
  BY <1>1, FS_AddElement
<1>4. MinPackets \in Nat
  BY ExpansionAssumption
<1> QED BY <1>2, <1>3, <1>4

--------------------------------------------------------------------------------
(* Steps by what they touch *)

\* Steps that rule nothing and fire nothing.
LEMMA MarksStep ==
  ASSUME IInv, TypeOk', UNCHANGED <<outcome, triggerVars>>,
         \A o \in Opps : status[o] = "rejected" => status'[o] = "rejected"
  PROVE  IInv'
BY DEF IInv, RunningFired, RulingTakesEffect, LiveStageEarned, outcome, triggerVars

\* Steps of the executors.
LEMMA ExecutorStep ==
  ASSUME IInv, Executor
  PROVE  IInv'
<1> USE ExpansionAssumption
    DEF IInv, marks, dossier, config, outcome
<1>1. TypeOk'
  BY DEF Executor, Complete, Fail, Return, Halt, HaltInterrupted, Crash, TypeOk,
     TriggerTypeOk, TriggerStatus
<1>2. /\ \A o \in Opps : trigger'[o] = "none" <=> trigger[o] = "none"
      /\ stage' = "live" => stage = "live"
      /\ running' \subseteq running
  BY DEF Executor, Complete, Fail, Return, Halt, HaltInterrupted, Crash, TypeOk,
     TriggerTypeOk, TriggerStatus, RunningFired
<1>3. UNCHANGED <<marks, dossier, config, outcome>>
  BY DEF Executor
<1>4. RunningFired' /\ RulingTakesEffect'
  BY <1>2, <1>3 DEF RunningFired, RulingTakesEffect, TypeOk, TriggerTypeOk
<1>5. LiveStageEarned'
  BY <1>2, <1>3 DEF LiveStageEarned
<1> QED BY <1>1, <1>4, <1>5

\* A ruling that has its effect in the same step, or is torn from it.
LEMMA RulingStep ==
  ASSUME IInv, NEW o \in Opps,
         \/ Defer(o) \/ DecideRejected(o) \/ ApproveDry(o) \/ ApproveLive(o)
         \/ \E decision \in {"approved", "rejected"} : RuleInterrupted(o, decision)
  PROVE  IInv'
<1> USE ExpansionAssumption
    DEF IInv, TypeOk, TriggerTypeOk, TriggerStatus, marks, dossier, config, outcome, triggerVars
<1>1. /\ o \notin packets /\ trigger[o] = "none" /\ ruling[o] \in {"none", "deferred"}
      /\ \A p \in Opps \ {o} : ruling'[p] = ruling[p]
      /\ ruling' \in [Opps -> {"none", "deferred", "approved", "rejected"}]
  BY DEF Defer, DecideRejected, ApproveDry, ApproveLive, RuleInterrupted, Rule, Undecided,
     RulingTakesEffect
<1>2. CASE Defer(o)
  BY <1>1, <1>2 DEF Defer, Rule, RunningFired, RulingTakesEffect, LiveStageEarned
<1>3. CASE DecideRejected(o)
  BY <1>1, <1>3 DEF DecideRejected, Rule, SetStatus, RunningFired, RulingTakesEffect,
     LiveStageEarned
<1>4. CASE ApproveDry(o)
  <2>1. Cardinality(packets) >= MinPackets => Cardinality(packets') >= MinPackets
    BY <1>4, PacketsEarn DEF ApproveDry
  <2>2. LiveStageEarned'
    BY <1>4, <2>1 DEF ApproveDry, LiveStageEarned
  <2>3. TypeOk'
    BY <1>1, <1>4 DEF ApproveDry, Rule
  <2>4. RunningFired' /\ RulingTakesEffect'
    BY <1>1, <1>4 DEF ApproveDry, Rule, RunningFired, RulingTakesEffect
  <2> QED BY <2>2, <2>3, <2>4
<1>5. CASE ApproveLive(o)
  <2>1. /\ trigger' \in {[trigger EXCEPT ![o] = "pending"], [trigger EXCEPT ![o] = "failed"]}
        /\ running' \subseteq running \cup {o}
        /\ stage = "live" /\ ruling'[o] = "approved"
        /\ UNCHANGED <<marks, dossier, config, packets, torn, halted, stage>>
    BY <1>5 DEF ApproveLive, Rule, Fire, FireRefused, DryRunEffective
  <2>2. TypeOk'
    BY <1>1, <2>1
  <2>3. RunningFired' /\ RulingTakesEffect'
    BY <1>1, <2>1 DEF RunningFired, RulingTakesEffect
  <2>4. LiveStageEarned'
    BY <2>1 DEF LiveStageEarned
  <2> QED BY <2>2, <2>3, <2>4
<1>6. ASSUME NEW decision \in {"approved", "rejected"}, RuleInterrupted(o, decision)
      PROVE  IInv'
  BY <1>1, <1>6 DEF RuleInterrupted, Rule, Crash, RunningFired, RulingTakesEffect, LiveStageEarned
<1> QED BY <1>2, <1>3, <1>4, <1>5, <1>6

--------------------------------------------------------------------------------
(* The invariant *)

LEMMA InitInvariant == Init => IInv
<1> SUFFICES ASSUME Init PROVE IInv
  OBVIOUS
<1>1. TypeOk
  BY DEF Init, TriggerInit, TypeOk, TriggerTypeOk, TriggerStatus
<1>2. RunningFired /\ RulingTakesEffect /\ LiveStageEarned
  BY DEF Init, TriggerInit, RunningFired, RulingTakesEffect, LiveStageEarned
<1> QED BY <1>1, <1>2 DEF IInv

LEMMA StepInvariant ==
  ASSUME IInv, [Next]_vars
  PROVE  IInv'
<1> USE ExpansionAssumption
<1>1. CASE TopNJob
  <2>1. /\ archived' \subseteq Opps
        /\ status' = status \/ \E o \in Opps : /\ status[o] = "open"
                                            /\ status' = [status EXCEPT ![o] = "selected"]
        /\ UNCHANGED <<late, dossier, config, outcome, triggerVars>>
    BY <1>1 DEF TopNJob, Best, Eligible, Killed, IInv, TypeOk
  <2>2. TypeOk'
    BY <2>1 DEF IInv, TypeOk, TriggerTypeOk, dossier, config, outcome, triggerVars
  <2>3. \A o \in Opps : status[o] = "rejected" => status'[o] = "rejected"
    BY <2>1 DEF IInv, TypeOk
  <2> QED BY <2>1, <2>2, <2>3, MarksStep
<1>2. CASE GraduateRoot
  BY <1>2 DEF GraduateRoot, Graduate, IInv, TypeOk, TriggerTypeOk, RunningFired,
     RulingTakesEffect, LiveStageEarned, marks, dossier, config, outcome
<1>3. CASE Executor
  BY <1>3, ExecutorStep
<1>4. ASSUME NEW value \in BOOLEAN, SetDeliberation(value) \/ SetDryRun(value) PROVE IInv'
  <2>1. TypeOk'
    BY <1>4 DEF SetDeliberation, SetDryRun, IInv, TypeOk, TriggerTypeOk, marks, dossier,
       outcome, triggerVars
  <2> QED BY <1>4, <2>1, MarksStep DEF SetDeliberation, SetDryRun, marks
<1>5. ASSUME NEW o \in Opps,
             \/ ScoreOpportunity(o) \/ Promote(o) \/ Demote(o) \/ Reject(o)
             \/ DeadlinePasses(o) \/ RejectForFailedRunway(o)
      PROVE  IInv'
  <2> USE <1>5 DEF ScoreOpportunity, Promote, Demote, Reject, DeadlinePasses,
        RejectForFailedRunway, SetStatus
  <2>1. TypeOk'
    BY DEF IInv, TypeOk, TriggerTypeOk, dossier, config, outcome, triggerVars
  <2>2. \A p \in Opps : status[p] = "rejected" => status'[p] = "rejected"
    BY DEF IInv, TypeOk
  <2> QED BY <2>1, <2>2, MarksStep
<1>6. ASSUME NEW o \in Opps, NEW verdict \in {"passes", "fails"}, RecordRunwayCheck(o, verdict)
      PROVE  IInv'
  <2>1. TypeOk'
    BY <1>6 DEF RecordRunwayCheck, IInv, TypeOk, TriggerTypeOk, marks, config, outcome,
       triggerVars
  <2> QED BY <1>6, <2>1, MarksStep DEF RecordRunwayCheck, marks
<1>7. ASSUME NEW o \in Opps, NEW d \in Departments, FileFinding(o, d) \/ Respond(o, d) \/ Vote(o, d)
      PROVE  IInv'
  <2>1. TypeOk'
    BY <1>7 DEF FileFinding, Respond, Vote, IInv, TypeOk, TriggerTypeOk, marks, config,
       outcome, triggerVars
  <2> QED BY <1>7, <2>1, MarksStep DEF FileFinding, Respond, Vote, marks
<1>8. ASSUME NEW o \in Opps,
             \/ Defer(o) \/ DecideRejected(o) \/ ApproveDry(o) \/ ApproveLive(o)
             \/ \E decision \in {"approved", "rejected"} : RuleInterrupted(o, decision)
      PROVE  IInv'
  BY <1>8, RulingStep
<1>9. CASE UNCHANGED vars
  BY <1>9 DEF vars, marks, dossier, config, outcome, triggerVars, IInv, TypeOk, TriggerTypeOk,
     RunningFired, RulingTakesEffect, LiveStageEarned
<1> QED BY <1>1, <1>2, <1>3, <1>4, <1>5, <1>6, <1>7, <1>8, <1>9 DEF Next

\* Nobody's step, be it a route, a department, the CEO, an executor that keeps the
\* contract, or a crash, leaves the inductive invariant.
THEOREM Invariant == Spec => []IInv
BY InitInvariant, StepInvariant, PTL DEF Spec

\* For any executor that keeps the contract, any number of opportunities and
\* departments, and crashes between any two statements: a final ruling has its one
\* effect, unless torn from it by a crash.
THEOREM RulingsTakeEffect == Spec => []RulingTakesEffect
<1>1. IInv => RulingTakesEffect
  BY DEF IInv
<1> QED BY <1>1, Invariant, PTL

\* However rulings, dry-run switches, halts and demotions alternate, no root is live
\* and no trigger is fired before the packets graduation asks for were recorded.
THEOREM LiveIsEarned == Spec => []LiveStageEarned
<1>1. IInv => LiveStageEarned
  BY DEF IInv
<1> QED BY <1>1, Invariant, PTL

--------------------------------------------------------------------------------
(* The fleet: what is under way *)

\* A restarter that waits has a company, and a lease that is held its pass.
NamesFit ==
  /\ \A p \in Restarters : at[p] \in {"stat", "exit"} => on[p] \in Companies
  /\ holder # Nobody => term \in Passes

\* A company that was killed for good: nothing that was under way will start it.
KillIsFinal(c) ==
  /\ row[c] = "killed" /\ c \notin due
  /\ \A p \in Restarters : on[p] # c
  /\ \A s \in Passes : c \notin sawUp[s] \cup sawDown[s]

KillsFit == \A c \in Companies : word[c] = "down" /\ c \notin excused => KillIsFinal(c)

\* The count in the row, and every count a restarter holds across its await, is
\* no lower than the restarts made while nobody else waited.
CountFits(c) ==
  /\ quiet[c] => launches[c] = 0
  /\ launches[c] <= MaxRestarts /\ launches[c] <= Current(c)
  /\ \A p \in Leaving(c) : launches[c] <= tracked[p] /\ tracked[p] < MaxRestarts

BudgetFits == \A c \in Companies : CountFits(c)

\* A pass in flight that has not outlived its lease has it.
LeaseFits ==
  slipped \/ \A s \in Passes : at[s] # "idle" /\ s \notin overdue =>
               term = s /\ holder = owner[s] /\ ~lapsed

FleetInv ==
  /\ FleetTypeOk /\ NamesFit
  /\ KillsFit /\ BudgetFits /\ LeaseFits

LEMMA InitFleet == FleetInit => FleetInv
<1> SUFFICES ASSUME FleetInit PROVE FleetInv
  OBVIOUS
<1>1. FleetTypeOk
  BY FleetAssumption DEF FleetInit, FleetTypeOk
<1>2. NamesFit
  BY DEF FleetInit, NamesFit
<1>4. KillsFit
  BY DEF FleetInit, KillsFit
<1>5. LeaseFits
  BY DEF FleetInit, LeaseFits, Restarters
<1>3. BudgetFits
  <2>1. ASSUME NEW c \in Companies
        PROVE  launches[c] = 0 /\ Current(c) = 0 /\ Leaving(c) = {}
    BY DEF FleetInit, Current, Leaving
  <2> QED BY <2>1, FleetAssumption DEF BudgetFits, CountFits
<1> QED BY <1>1, <1>2, <1>3, <1>4, <1>5 DEF FleetInv

--------------------------------------------------------------------------------
(* The fleet: restarts *)

\* What any end of restartAgentProcess up to its await does to the restarter.
LEMMA RestartMoves ==
  ASSUME FleetTypeOk, NEW p \in Restarters, NEW c \in Companies, Restart(p, c)
  PROVE  /\ at' \in [Restarters -> {"idle", "loop", "stat", "exit"}]
         /\ on' \in [Restarters -> Companies \cup {Nobody}]
         /\ \A q \in Restarters \ {p} : at'[q] = at[q] /\ on'[q] = on[q] /\ tracked'[q] = tracked[q]
         /\ at'[p] \in {"idle", "loop", "exit"}
         /\ p \in Passes => at'[p] # "idle"
         /\ at'[p] = "exit" => on'[p] = c
         /\ on'[p] \in {c, Nobody}
<1>1. CASE Back(p)
  BY <1>1 DEF Back, FleetTypeOk
<1>2. CASE RestartRunning(p, c)
  BY <1>2 DEF RestartRunning, FleetTypeOk
<1> QED BY <1>1, <1>2 DEF Restart, CircuitOpen, RestartDead

\* What it does to the tables and to the history.
LEMMA RestartWrites ==
  ASSUME FleetTypeOk, NEW p \in Restarters, NEW c \in Companies, Restart(p, c)
  PROVE  /\ row' \in [Companies -> {"none", "running", "killed", "crashed"}]
         /\ live' \in [Companies -> BOOLEAN] /\ stale' = stale
         /\ count' \in [Companies -> Nat] /\ quiet' \in [Companies -> BOOLEAN]
         /\ tracked' \in [Restarters -> Nat]
         /\ launches' \in [Companies -> Nat]
         /\ \A d \in Companies \ {c} :
              /\ row'[d] = row[d] /\ count'[d] = count[d] /\ quiet'[d] = quiet[d]
              /\ launches'[d] = launches[d]
<1>0. Current(c) \in Nat
  BY DEF Current, FleetTypeOk
<1>1. CASE CircuitOpen(p, c)
  BY <1>0, <1>1 DEF CircuitOpen, Back, process, FleetTypeOk
<1>2. CASE RestartDead(p, c)
  <2>2. /\ launches' \in [Companies -> Nat]
        /\ \A d \in Companies \ {c} : launches'[d] = launches[d]
    BY <1>2 DEF RestartDead, Launched, FleetTypeOk
  <2>3. /\ row' = [row EXCEPT ![c] = "running"] /\ live' = [live EXCEPT ![c] = TRUE]
        /\ count' = [count EXCEPT ![c] = Current(c) + 1]
        /\ quiet' = [quiet EXCEPT ![c] = FALSE] /\ stale' = stale
        /\ tracked' = [tracked EXCEPT ![p] = 0]
    BY <1>2 DEF RestartDead, Launch, Record, Back
  <2> QED BY <1>0, <2>2, <2>3 DEF FleetTypeOk
<1>3. CASE RestartRunning(p, c)
  <2>2. /\ row' = [row EXCEPT ![c] = "killed"] /\ count' = [count EXCEPT ![c] = Current(c)]
        /\ tracked' = [tracked EXCEPT ![p] = Current(c)]
        /\ UNCHANGED <<live, stale, quiet, launches>>
    BY <1>3 DEF RestartRunning, Signal
  <2> QED BY <1>0, <2>2 DEF FleetTypeOk
<1> QED BY <1>1, <1>2, <1>3 DEF Restart

\* The same for the end of the await.
LEMMA AfterExitWrites ==
  ASSUME FleetTypeOk, NamesFit, NEW p \in Restarters, AfterExit(p)
  PROVE  /\ on[p] \in Companies
         /\ row' \in [Companies -> {"none", "running", "killed", "crashed"}]
         /\ live' \in [Companies -> BOOLEAN] /\ stale' = stale
         /\ count' \in [Companies -> Nat] /\ quiet' \in [Companies -> BOOLEAN]
         /\ tracked' \in [Restarters -> Nat]
         /\ launches' \in [Companies -> Nat]
         /\ at' \in [Restarters -> {"idle", "loop", "stat", "exit"}]
         /\ on' \in [Restarters -> Companies \cup {Nobody}]
         /\ at'[p] \in {"idle", "loop"} /\ on'[p] = Nobody
         /\ p \in Passes => at'[p] = "loop"
         /\ \A q \in Restarters \ {p} : at'[q] = at[q] /\ on'[q] = on[q] /\ tracked'[q] = tracked[q]
         /\ \A d \in Companies \ {on[p]} :
              /\ row'[d] = row[d] /\ count'[d] = count[d] /\ quiet'[d] = quiet[d]
              /\ launches'[d] = launches[d]
         /\ count'[on[p]] = tracked[p] + 1 /\ quiet'[on[p]] = FALSE
         /\ launches'[on[p]] \in {launches[on[p]], launches[on[p]] + 1}
<1> DEFINE c == on[p]
<1>1. c \in Companies /\ tracked[p] + 1 \in Nat
  BY DEF AfterExit, NamesFit, FleetTypeOk
<1>2. /\ at' \in [Restarters -> {"idle", "loop", "stat", "exit"}]
      /\ on' \in [Restarters -> Companies \cup {Nobody}]
      /\ tracked' \in [Restarters -> Nat]
      /\ at'[p] \in {"idle", "loop"} /\ on'[p] = Nobody
      /\ p \in Passes => at'[p] = "loop"
      /\ \A q \in Restarters \ {p} : at'[q] = at[q] /\ on'[q] = on[q] /\ tracked'[q] = tracked[q]
  BY DEF AfterExit, Back, FleetTypeOk
<1>3. /\ count' = [count EXCEPT ![c] = tracked[p] + 1]
      /\ quiet' = [quiet EXCEPT ![c] = FALSE]
  BY DEF AfterExit, Record
<1>4. /\ row' \in [Companies -> {"none", "running", "killed", "crashed"}]
      /\ live' \in [Companies -> BOOLEAN] /\ stale' = stale
      /\ launches' \in [Companies -> Nat]
      /\ \A d \in Companies \ {c} : row'[d] = row[d] /\ launches'[d] = launches[d]
      /\ launches'[c] \in {launches[c], launches[c] + 1}
  <2>1. CASE Launch(c) /\ Launched(p, c)
    BY <1>1, <2>1 DEF Launch, Launched, FleetTypeOk
  <2>2. CASE Observe(c) /\ UNCHANGED launches
    BY <1>1, <2>2 DEF Observe, Reading, FleetTypeOk
  <2> QED BY <2>1, <2>2 DEF AfterExit
<1> HIDE DEF c
<1>5. /\ count' \in [Companies -> Nat] /\ quiet' \in [Companies -> BOOLEAN]
      /\ count'[c] = tracked[p] + 1 /\ quiet'[c] = FALSE
      /\ \A d \in Companies \ {c} : count'[d] = count[d] /\ quiet'[d] = quiet[d]
  BY <1>1, <1>3 DEF FleetTypeOk
<1> QED BY <1>1, <1>2, <1>3, <1>4, <1>5 DEF c

--------------------------------------------------------------------------------
(* The fleet: types *)

\* Killing, however it is asked for.
Stops(c) == Kill(c) \/ Shutdown(c)

LEMMA StopsAre ==
  ASSUME NEW c, EnforceQuota(c) \/ AdminKill(c) PROVE Stops(c)
BY DEF EnforceQuota, AdminKill, Stops

LEMMA StopWrites ==
  ASSUME FleetTypeOk, NEW c \in Companies, Stops(c)
  PROVE  /\ row' \in [Companies -> {"none", "running", "killed", "crashed"}]
         /\ \A d \in Companies \ {c} :
              /\ row'[d] = row[d] /\ word'[d] = word[d]
              /\ d \in excused' <=> d \in excused
         /\ UNCHANGED <<live, stale, tracking, sweep, lease, due>>
         /\ word' \in [Companies -> {"none", "up", "down"}] /\ excused' \in SUBSET Companies
         /\ ~Overtaken(c) => row'[c] = "killed"
         /\ c \notin excused' => ~Overtaken(c)
<1>1. /\ \/ Signal(c) 
         \/ Observe(c) /\ Reading(c) # "running"
      /\ Ordered(c)
      /\ UNCHANGED <<tracking, sweep, lease, due>>
  BY DEF Stops, Kill, Shutdown
<1>2. /\ row' \in [Companies -> {"none", "running", "killed", "crashed"}]
      /\ \A d \in Companies \ {c} : row'[d] = row[d]
      /\ UNCHANGED <<live, stale>>
      /\ ~Overtaken(c) => row'[c] = "killed"
  <2>1. CASE Signal(c)
    BY <2>1 DEF Signal, FleetTypeOk
  <2>2. CASE Observe(c) /\ Reading(c) # "running"
    BY <2>2 DEF Observe, Reading, Overtaken, FleetTypeOk
  <2> QED BY <1>1, <2>1, <2>2
<1>3. /\ word' \in [Companies -> {"none", "up", "down"}] /\ excused' \in SUBSET Companies
      /\ c \notin excused' => ~Overtaken(c)
      /\ \A d \in Companies \ {c} : word'[d] = word[d] /\ (d \in excused' <=> d \in excused)
  BY <1>1 DEF Ordered, FleetTypeOk
<1> QED BY <1>1, <1>2, <1>3

LEMMA TypesStep ==
  FleetTypeOk /\ NamesFit /\ [FleetNext]_fleetVars
    => FleetTypeOk' /\ NamesFit'
<1> SUFFICES ASSUME FleetTypeOk, NamesFit, [FleetNext]_fleetVars
             PROVE  FleetTypeOk' /\ NamesFit'
  OBVIOUS
<1> USE DEF process, tracking, sweep, lease
<1>1. ASSUME NEW c \in Companies, Spawn(c) PROVE FleetTypeOk' /\ NamesFit'
  BY <1>1 DEF Spawn, Launch, FleetTypeOk, NamesFit
<1>2. ASSUME NEW c \in Companies, Stops(c) PROVE FleetTypeOk' /\ NamesFit'
  BY <1>2, StopWrites DEF FleetTypeOk, NamesFit
<1>3. ASSUME NEW c \in Companies, Activate(c) PROVE FleetTypeOk' /\ NamesFit'
  BY <1>3 DEF Activate, Launch, Observe, Reading, FleetTypeOk, NamesFit
<1>4. ASSUME NEW c \in Companies, Exit(c) \/ StateFile(c) \/ WindowPasses(c)
      PROVE  FleetTypeOk' /\ NamesFit'
  <2>1. NamesFit' /\ UNCHANGED <<row, count, sweep, lease, due, word, excused>>
    BY <1>4 DEF Exit, StateFile, WindowPasses, NamesFit
  <2>2. /\ live' \in [Companies -> BOOLEAN] /\ stale' \in [Companies -> BOOLEAN]
        /\ quiet' \in [Companies -> BOOLEAN] /\ launches' \in [Companies -> Nat]
    <3>1. CASE Exit(c)
      BY <3>1 DEF Exit, FleetTypeOk
    <3>2. CASE StateFile(c)
      BY <3>2 DEF StateFile, FleetTypeOk
    <3>3. CASE WindowPasses(c)
      BY <3>3 DEF WindowPasses, FleetTypeOk
    <3> QED BY <1>4, <3>1, <3>2, <3>3
  <2> QED BY <2>1, <2>2 DEF FleetTypeOk
<1>5. ASSUME NEW p \in Restarters, NEW c \in Companies, Restart(p, c),
             sawUp' \in [Passes -> SUBSET Companies], sawDown' \in [Passes -> SUBSET Companies],
             word' \in [Companies -> {"none", "up", "down"}],
             UNCHANGED <<lease, due, excused>>
      PROVE  FleetTypeOk' /\ NamesFit'
  <2>1. FleetTypeOk'
    BY <1>5, RestartMoves, RestartWrites DEF FleetTypeOk
  <2>2. NamesFit'
    BY <1>5, RestartMoves DEF NamesFit
  <2> QED BY <2>1, <2>2
<1>6. ASSUME NEW p \in Routes, NEW c \in Companies, RestartRoute(p, c)
      PROVE  FleetTypeOk' /\ NamesFit'
  <2>1. word' \in [Companies -> {"none", "up", "down"}]
    BY <1>6 DEF RestartRoute, FleetTypeOk
  <2> QED BY <1>5, <1>6, <2>1 DEF RestartRoute, FleetTypeOk, Restarters
<1>7. ASSUME NEW s \in Passes, Tick(s) PROVE FleetTypeOk' /\ NamesFit'
  <2>1. /\ row' \in [Companies -> {"none", "running", "killed", "crashed"}]
        /\ holder' \in Instances \cup {Nobody} /\ lapsed' = FALSE
        /\ term' = s
        /\ UNCHANGED <<live, stale, tracking, on, tracked, owner, overdue, slipped, due, word, excused>>
    BY <1>7 DEF Tick, Reading, FleetTypeOk
  <2>2. /\ sawUp' \in [Passes -> SUBSET Companies] /\ sawDown' \in [Passes -> SUBSET Companies]
    BY <1>7 DEF Tick, Snapshot, FleetTypeOk
  <2>3. /\ at' \in [Restarters -> {"idle", "loop", "stat", "exit"}]
        /\ \A p \in Restarters : at'[p] \in {at[p], "loop"}
    BY <1>7 DEF Tick, FleetTypeOk
  <2> QED BY <2>1, <2>2, <2>3 DEF FleetTypeOk, NamesFit
<1>8. ASSUME NEW s \in Passes, NEW c \in Companies, VisitCrashed(s, c)
      PROVE  FleetTypeOk' /\ NamesFit'
  <2>1. sawDown' \in [Passes -> SUBSET Companies]
    BY <1>8 DEF VisitCrashed, FleetTypeOk
  <2> QED BY <1>5, <1>8, <2>1 DEF VisitCrashed, FleetTypeOk, Restarters
<1>9. ASSUME NEW s \in Passes, NEW c \in Companies, VisitRunning(s, c)
      PROVE  FleetTypeOk' /\ NamesFit'
  <2>1. /\ sawUp' \in [Passes -> SUBSET Companies]
        /\ at' = [at EXCEPT ![s] = "stat"] /\ on' = [on EXCEPT ![s] = c]
        /\ UNCHANGED <<process, tracking, sawDown, tracked, lease, due, word, excused>>
    BY <1>9 DEF VisitRunning, FleetTypeOk
  <2>2. /\ at' \in [Restarters -> {"idle", "loop", "stat", "exit"}]
        /\ on' \in [Restarters -> Companies \cup {Nobody}]
        /\ \A p \in Restarters : /\ at'[p] = IF p = s THEN "stat" ELSE at[p]
                                 /\ on'[p] = IF p = s THEN c ELSE on[p]
    BY <2>1 DEF FleetTypeOk, Restarters
  <2>3. NamesFit'
    BY <2>1, <2>2 DEF NamesFit
  <2> QED BY <2>1, <2>2, <2>3 DEF FleetTypeOk
<1>10. ASSUME NEW s \in Passes, StatHung(s) PROVE FleetTypeOk' /\ NamesFit'
  <2>1. s \in Restarters /\ on[s] \in Companies
    BY <1>10 DEF StatHung, NamesFit, Restarters
  <2> QED BY <1>5, <1>10, <2>1 DEF StatHung, FleetTypeOk
<1>11. ASSUME NEW s \in Passes, StatHealthy(s) PROVE FleetTypeOk' /\ NamesFit'
  <2>1. s \in Restarters /\ on[s] \in Companies
    BY <1>11 DEF StatHealthy, NamesFit, Restarters
  <2>2. count' \in [Companies -> Nat]
    BY <1>11, <2>1 DEF StatHealthy, Current, FleetTypeOk
  <2> QED BY <1>11, <2>1, <2>2 DEF StatHealthy, Back, FleetTypeOk, NamesFit
<1>12. ASSUME NEW p \in Restarters, AfterExit(p) PROVE FleetTypeOk' /\ NamesFit'
  <2>1. UNCHANGED <<sawUp, sawDown, lease, due, word, excused>>
    BY <1>12 DEF AfterExit
  <2>2. FleetTypeOk'
    BY <1>12, <2>1, AfterExitWrites DEF FleetTypeOk
  <2>3. NamesFit'
    BY <1>12, <2>1, AfterExitWrites DEF NamesFit
  <2> QED BY <2>2, <2>3
<1>13. ASSUME NEW s \in Passes, Finish(s) PROVE FleetTypeOk' /\ NamesFit'
  <2>1. /\ holder' \in {holder, Nobody} /\ lapsed' \in {lapsed, FALSE}
        /\ term' \in {term, Nobody} /\ slipped' \in BOOLEAN
        /\ holder' # Nobody => holder' = holder /\ term' = term
    BY <1>13 DEF Finish, Release, FleetTypeOk
  <2>2. /\ at' \in [Restarters -> {"idle", "loop", "stat", "exit"}]
        /\ \A p \in Restarters : at'[p] \in {at[p], "idle"}
        /\ overdue' \subseteq Passes
        /\ UNCHANGED <<process, tracking, on, sawUp, sawDown, tracked, owner, due, word, excused>>
    BY <1>13 DEF Finish, FleetTypeOk
  <2>3. NamesFit'
    BY <2>1, <2>2 DEF NamesFit
  <2> QED BY <2>1, <2>2, <2>3 DEF FleetTypeOk
<1>14. CASE LeaseExpires
  <2>1. /\ overdue' \subseteq Passes /\ lapsed' = TRUE
        /\ UNCHANGED <<process, tracking, sweep, owner, holder, term, slipped, due, word, excused>>
    BY <1>14 DEF LeaseExpires, FleetTypeOk, NamesFit
  <2> QED BY <2>1 DEF FleetTypeOk, NamesFit
<1>15. CASE UNCHANGED fleetVars
  BY <1>15 DEF fleetVars, FleetTypeOk, NamesFit
<1>16. \A p \in Passes \cup Routes : p \in Restarters
  BY DEF Restarters
<1>17. ASSUME NEW c \in Companies, Kill(c) \/ EnforceQuota(c) \/ Shutdown(c) \/ AdminKill(c)
       PROVE  FleetTypeOk' /\ NamesFit'
  BY <1>2, <1>17, StopsAre DEF Stops
<1>18. ASSUME NEW s \in Passes, Pass(s) PROVE FleetTypeOk' /\ NamesFit'
  BY <1>8, <1>9, <1>10, <1>11, <1>12, <1>13, <1>16, <1>18 DEF Pass
<1> QED BY <1>1, <1>3, <1>4, <1>6, <1>7, <1>12, <1>14, <1>15, <1>16, <1>17, <1>18 DEF FleetNext

--------------------------------------------------------------------------------
(* The fleet: the lease *)

\* A step that leaves the lease alone and starts no pass.
LEMMA LeaseKept ==
  ASSUME LeaseFits, UNCHANGED lease, \A s \in Passes : at'[s] # "idle" => at[s] # "idle"
  PROVE  LeaseFits'
BY DEF LeaseFits, lease

LEMMA LeaseStep ==
  FleetTypeOk /\ NamesFit /\ LeaseFits /\ [FleetNext]_fleetVars => LeaseFits'
<1> SUFFICES ASSUME FleetTypeOk, NamesFit, LeaseFits, [FleetNext]_fleetVars
             PROVE  LeaseFits'
  OBVIOUS
<1>0. \A s \in Passes : s \in Restarters /\ s \notin Routes
  BY FleetAssumption DEF Restarters
<1>1. ASSUME UNCHANGED <<lease, at>> PROVE LeaseFits'
  BY <1>1, LeaseKept
<1>2. ASSUME NEW c \in Companies,
             \/ Spawn(c) \/ Kill(c) \/ EnforceQuota(c) \/ Shutdown(c) \/ AdminKill(c)
             \/ Activate(c) \/ Exit(c) \/ StateFile(c) \/ WindowPasses(c)
      PROVE  LeaseFits'
  BY <1>1, <1>2 DEF Spawn, Kill, EnforceQuota, Shutdown, AdminKill, Activate, Exit, StateFile,
                    WindowPasses, sweep
<1>3. ASSUME NEW p \in Restarters, NEW c \in Companies, Restart(p, c), UNCHANGED lease,
             p \in Passes => at[p] # "idle"
      PROVE  LeaseFits'
  BY <1>0, <1>3, RestartMoves, LeaseKept
<1>4. ASSUME NEW p \in Routes, NEW c \in Companies, RestartRoute(p, c) PROVE LeaseFits'
  BY <1>0, <1>3, <1>4 DEF RestartRoute, Restarters
<1>5. ASSUME NEW s \in Passes, NEW c \in Companies, VisitCrashed(s, c) PROVE LeaseFits'
  BY <1>0, <1>3, <1>5 DEF VisitCrashed
<1>6. ASSUME NEW s \in Passes, NEW c \in Companies, VisitRunning(s, c) PROVE LeaseFits'
  <2>1. UNCHANGED lease /\ at[s] = "loop" /\ at' = [at EXCEPT ![s] = "stat"]
    BY <1>6 DEF VisitRunning
  <2> QED BY <1>0, <2>1, LeaseKept DEF FleetTypeOk
<1>7. ASSUME NEW s \in Passes, StatHung(s) PROVE LeaseFits'
  <2>1. on[s] \in Companies /\ Restart(s, on[s]) /\ UNCHANGED lease /\ at[s] # "idle"
    BY <1>0, <1>7 DEF StatHung, NamesFit
  <2> QED BY <1>0, <1>3, <2>1
<1>8. ASSUME NEW s \in Passes, StatHealthy(s) PROVE LeaseFits'
  <2>1. UNCHANGED lease /\ at[s] = "stat" /\ at' = [at EXCEPT ![s] = "loop"]
    BY <1>8 DEF StatHealthy, Back
  <2> QED BY <1>0, <2>1, LeaseKept DEF FleetTypeOk
<1>9. ASSUME NEW p \in Restarters, AfterExit(p) PROVE LeaseFits'
  <2>1. UNCHANGED lease /\ at[p] = "exit"
    BY <1>9 DEF AfterExit
  <2>2. \A s \in Passes : at'[s] # "idle" => at[s] # "idle"
    BY <1>0, <1>9, <2>1, AfterExitWrites
  <2> QED BY <2>1, <2>2, LeaseKept
<1>10. ASSUME NEW s \in Passes, Tick(s) PROVE LeaseFits'
  <2>1. /\ holder = Nobody \/ lapsed
        /\ holder' = owner[s] /\ lapsed' = FALSE /\ term' = s
        /\ owner' = owner /\ overdue' = overdue /\ slipped' = slipped
    BY <1>10 DEF Tick, Acquirable
  <2>2. \A r \in Passes : at'[r] = IF r = s THEN "loop" ELSE at[r]
    BY <1>0, <1>10 DEF Tick, FleetTypeOk
  <2>3. \A r \in Passes : owner[r] # Nobody
    BY FleetAssumption DEF FleetTypeOk
  <2> QED BY <2>1, <2>2, <2>3 DEF LeaseFits
<1>11. ASSUME NEW s \in Passes, Finish(s) PROVE LeaseFits'
  <2>1. \A r \in Passes : at'[r] = IF r = s THEN "idle" ELSE at[r]
    BY <1>0, <1>11 DEF Finish, FleetTypeOk
  <2>2. owner' = owner /\ overdue' = overdue \ {s} /\ Release(s)
    BY <1>11 DEF Finish
  <2>3. CASE holder # owner[s]
    BY <2>1, <2>2, <2>3 DEF LeaseFits, Release
  <2>4. CASE holder = owner[s]
    <3>1. slipped' = (slipped \/ term # s)
      BY <2>2, <2>4 DEF Release
    <3> QED BY <2>1, <2>2, <3>1 DEF LeaseFits
  <2> QED BY <2>3, <2>4
<1>12. CASE LeaseExpires
  <2>1. /\ term \in Passes /\ at' = at /\ slipped' = slipped /\ term' = term /\ holder' = holder
        /\ owner' = owner
        /\ overdue' = IF at[term] = "idle" THEN overdue ELSE overdue \cup {term}
    BY <1>12 DEF LeaseExpires, NamesFit, sweep
  <2> QED BY <2>1 DEF LeaseFits
<1>13. CASE UNCHANGED fleetVars
  BY <1>1, <1>13 DEF fleetVars, sweep
<1>14. ASSUME NEW s \in Passes, Pass(s) PROVE LeaseFits'
  BY <1>0, <1>5, <1>6, <1>7, <1>8, <1>9, <1>11, <1>14 DEF Pass
<1>15. \A p \in Routes : p \in Restarters
  BY DEF Restarters
<1> QED BY <1>2, <1>4, <1>9, <1>10, <1>12, <1>13, <1>14, <1>15 DEF FleetNext

--------------------------------------------------------------------------------
(* The fleet: kills *)

\* A step that gives no order and starts nothing that was killed.
LEMMA KillKept ==
  ASSUME KillsFit, UNCHANGED <<word, excused>>, due' \subseteq due,
         \A c \in Companies : KillIsFinal(c) =>
           /\ row'[c] = "killed"
           /\ \A p \in Restarters : on'[p] # c
           /\ \A s \in Passes : c \notin sawUp'[s] \cup sawDown'[s]
  PROVE  KillsFit'
BY DEF KillsFit, KillIsFinal

LEMMA KillsStep ==
  FleetTypeOk /\ NamesFit /\ KillsFit /\ [FleetNext]_fleetVars => KillsFit'
<1> SUFFICES ASSUME FleetTypeOk, NamesFit, KillsFit, [FleetNext]_fleetVars
             PROVE  KillsFit'
  OBVIOUS
<1>0. (\A s \in Passes : s \in Restarters) /\ Nobody \notin Companies
  BY FleetAssumption DEF Restarters
<1>1. ASSUME UNCHANGED <<row, due, on, sawUp, sawDown, word, excused>> PROVE KillsFit'
  BY <1>1, KillKept DEF KillIsFinal
<1>2. ASSUME NEW c \in Companies, Exit(c) \/ StateFile(c) \/ WindowPasses(c) PROVE KillsFit'
  BY <1>1, <1>2 DEF Exit, StateFile, WindowPasses, process, sweep
<1>3. ASSUME NEW c \in Companies, Spawn(c) PROVE KillsFit'
  <2>1. /\ word' = [word EXCEPT ![c] = "up"] /\ row' = [row EXCEPT ![c] = "running"]
        /\ UNCHANGED <<due, on, sawUp, sawDown, excused>>
    BY <1>3 DEF Spawn, Launch, sweep
  <2> QED BY <2>1 DEF KillsFit, KillIsFinal, FleetTypeOk
<1>4. ASSUME NEW c \in Companies, Stops(c) PROVE KillsFit'
  <2>1. UNCHANGED <<due, at, on, sawUp, sawDown>>
    BY <1>4, StopWrites DEF sweep
  <2>2. c \notin excused' => KillIsFinal(c)'
    <3> SUFFICES ASSUME c \notin excused' PROVE KillIsFinal(c)'
      OBVIOUS
    <3>1. ~Overtaken(c) /\ row'[c] = "killed"
      BY <1>4, StopWrites
    <3> QED BY <2>1, <3>1 DEF Overtaken, KillIsFinal
  <2>3. ASSUME NEW d \in Companies \ {c}, word'[d] = "down" /\ d \notin excused'
        PROVE  KillIsFinal(d)'
    <3>1. KillIsFinal(d) /\ row'[d] = row[d]
      BY <1>4, <2>3, StopWrites DEF KillsFit
    <3> QED BY <2>1, <3>1 DEF KillIsFinal
  <2> QED BY <2>2, <2>3 DEF KillsFit
<1>5. ASSUME NEW c \in Companies, Activate(c) PROVE KillsFit'
  <2>1. /\ c \in due /\ due' \subseteq due /\ UNCHANGED <<on, sawUp, sawDown, word, excused>>
        /\ \A d \in Companies \ {c} : row'[d] = row[d]
    BY <1>5 DEF Activate, Launch, Observe, FleetTypeOk, sweep
  <2> QED BY <2>1, KillKept DEF KillIsFinal
<1>6. ASSUME NEW p \in Restarters, NEW c \in Companies, Restart(p, c), ~KillIsFinal(c),
             UNCHANGED <<due, word, excused>>,
             \A s \in Passes : sawUp'[s] \subseteq sawUp[s] /\ sawDown'[s] \subseteq sawDown[s]
      PROVE  KillsFit'
  <2>1. ASSUME NEW d \in Companies, KillIsFinal(d)
        PROVE  /\ row'[d] = "killed"
               /\ \A q \in Restarters : on'[q] # d
               /\ \A s \in Passes : d \notin sawUp'[s] \cup sawDown'[s]
    <3>1. d # c /\ row'[d] = row[d]
      BY <1>6, <2>1, RestartWrites
    <3>2. \A q \in Restarters : on'[q] # d
      BY <1>0, <1>6, <2>1, <3>1, RestartMoves DEF KillIsFinal
    <3> QED BY <1>6, <2>1, <3>1, <3>2 DEF KillIsFinal
  <2> QED BY <1>6, <2>1, KillKept
<1>7. ASSUME NEW p \in Routes, NEW c \in Companies, RestartRoute(p, c) PROVE KillsFit'
  <2>1. p \in Restarters /\ Restart(p, c) /\ word' = [word EXCEPT ![c] = "up"]
        /\ UNCHANGED <<sawUp, sawDown, due, excused>>
    BY <1>7 DEF RestartRoute, Restarters
  <2> SUFFICES ASSUME NEW d \in Companies, word'[d] = "down", d \notin excused
               PROVE  KillIsFinal(d)'
    BY <2>1 DEF KillsFit
  <2>2. d # c /\ KillIsFinal(d)
    BY <2>1 DEF KillsFit, FleetTypeOk
  <2>3. row'[d] = row[d] /\ \A q \in Restarters : on'[q] # d
    BY <1>0, <2>1, <2>2, RestartWrites, RestartMoves DEF KillIsFinal
  <2> QED BY <2>1, <2>2, <2>3 DEF KillIsFinal
<1>8. ASSUME NEW s \in Passes, Tick(s) PROVE KillsFit'
  <2>1. /\ UNCHANGED <<on, due, word, excused>>
        /\ \A c \in Companies : row'[c] = Reading(c)
        /\ \A r \in Passes, c \in Companies : c \in sawUp'[r] \cup sawDown'[r] =>
             c \in sawUp[r] \cup sawDown[r] \/ Reading(c) \in {"running", "crashed"}
    BY <1>8 DEF Tick, Snapshot, FleetTypeOk
  <2>2. \A c \in Companies : row[c] = "killed" => Reading(c) = "killed"
    BY DEF Reading
  <2> QED BY <2>1, <2>2, KillKept DEF KillIsFinal
<1>9. ASSUME NEW s \in Passes, NEW c \in Companies, VisitCrashed(s, c) PROVE KillsFit'
  <2>1. /\ Restart(s, c) /\ UNCHANGED <<due, word, excused, sawUp>> /\ c \in sawDown[s]
        /\ \A r \in Passes : sawDown'[r] \subseteq sawDown[r]
    BY <1>9 DEF VisitCrashed, FleetTypeOk
  <2> QED BY <1>0, <1>6, <2>1 DEF KillIsFinal
<1>10. ASSUME NEW s \in Passes, NEW c \in Companies, VisitRunning(s, c) PROVE KillsFit'
  <2>1. /\ UNCHANGED <<row, due, word, excused, sawDown>> /\ c \in sawUp[s]
        /\ \A r \in Passes : sawUp'[r] \subseteq sawUp[r]
        /\ \A p \in Restarters : on'[p] \in {on[p], c}
    BY <1>10 DEF VisitRunning, process, FleetTypeOk
  <2> QED BY <2>1, KillKept DEF KillIsFinal
<1>11. ASSUME NEW s \in Passes, StatHung(s) PROVE KillsFit'
  <2>1. /\ on[s] \in Companies /\ Restart(s, on[s])
        /\ UNCHANGED <<due, word, excused, sawUp, sawDown>>
    BY <1>0, <1>11 DEF StatHung, NamesFit
  <2>2. ~KillIsFinal(on[s])
    BY <1>0 DEF KillIsFinal
  <2> QED BY <1>0, <1>6, <2>1, <2>2
<1>12. ASSUME NEW s \in Passes, StatHealthy(s) PROVE KillsFit'
  <2>1. /\ UNCHANGED <<row, due, word, excused, sawUp, sawDown>>
        /\ \A p \in Restarters : on'[p] \in {on[p], Nobody}
    BY <1>12 DEF StatHealthy, Back, process, FleetTypeOk
  <2> QED BY <1>0, <2>1, KillKept DEF KillIsFinal
<1>13. ASSUME NEW p \in Restarters, AfterExit(p) PROVE KillsFit'
  <2>1. UNCHANGED <<due, word, excused, sawUp, sawDown>>
    BY <1>13 DEF AfterExit
  <2>2. ASSUME NEW d \in Companies, KillIsFinal(d)
        PROVE  /\ row'[d] = "killed"
               /\ \A q \in Restarters : on'[q] # d
               /\ \A s \in Passes : d \notin sawUp'[s] \cup sawDown'[s]
    <3>1. d # on[p] /\ row'[d] = row[d]
      BY <1>13, <2>2, AfterExitWrites DEF KillIsFinal
    <3>2. \A q \in Restarters : on'[q] # d
      <4>1. \A q \in Restarters : on'[q] \in {on[q], Nobody}
        BY <1>13, AfterExitWrites
      <4> QED BY <1>0, <2>2, <4>1 DEF KillIsFinal
    <3> QED BY <2>1, <2>2, <3>1, <3>2 DEF KillIsFinal
  <2> QED BY <2>1, <2>2, KillKept
<1>14. ASSUME NEW s \in Passes, Finish(s) PROVE KillsFit'
  BY <1>1, <1>14 DEF Finish, process
<1>15. CASE LeaseExpires
  BY <1>1, <1>15 DEF LeaseExpires, process, sweep
<1>16. CASE UNCHANGED fleetVars
  BY <1>1, <1>16 DEF fleetVars, process, sweep
<1>17. ASSUME NEW s \in Passes, Pass(s) PROVE KillsFit'
  BY <1>0, <1>9, <1>10, <1>11, <1>12, <1>13, <1>14, <1>17 DEF Pass
<1>18. ASSUME NEW c \in Companies, Kill(c) \/ EnforceQuota(c) \/ Shutdown(c) \/ AdminKill(c)
       PROVE  KillsFit'
  BY <1>4, <1>18, StopsAre DEF Stops
<1>19. \A p \in Routes : p \in Restarters
  BY DEF Restarters
<1> QED BY <1>2, <1>3, <1>5, <1>7, <1>8, <1>13, <1>15, <1>16, <1>17, <1>18, <1>19 DEF FleetNext

--------------------------------------------------------------------------------
(* The fleet: the restart budget *)

\* A company whose restarts a step leaves alone.
CompanyKept(c) ==
  /\ launches'[c] = launches[c]
  /\ quiet'[c] = quiet[c] /\ count'[c] \in {count[c], Current(c)}
  /\ \A p \in Restarters : at'[p] = "exit" /\ on'[p] = c =>
       at[p] = "exit" /\ on[p] = c /\ tracked'[p] = tracked[p]

LEMMA BudgetKept ==
  ASSUME NEW c \in Companies, CompanyKept(c), CountFits(c)
  PROVE  CountFits(c)'
<1>1. Current(c)' = Current(c)
  BY DEF CompanyKept, Current
<1>2. \A p \in Leaving(c)' : p \in Leaving(c) /\ tracked'[p] = tracked[p]
  BY DEF CompanyKept, Leaving
<1> QED BY <1>1, <1>2 DEF CompanyKept, CountFits

LEMMA AllKept ==
  ASSUME BudgetFits, \A c \in Companies : CompanyKept(c)
  PROVE  BudgetFits'
BY BudgetKept DEF BudgetFits

\* A restart is counted for the budget only when nobody else waits.
LEMMA LaunchCounts ==
  ASSUME FleetTypeOk, NEW p \in Restarters, NEW c \in Companies, Launched(p, c)
  PROVE  \/ launches'[c] = launches[c]
         \/ launches'[c] = launches[c] + 1 /\ Leaving(c) \subseteq {p}
BY DEF Launched, FleetTypeOk

\* restartAgentProcess up to its await keeps to the budget of its company, and
\* leaves that of the others alone.
LEMMA RestartBudgets ==
  ASSUME FleetTypeOk, BudgetFits, NEW p \in Restarters, NEW c \in Companies,
         Restart(p, c), at[p] # "exit"
  PROVE  BudgetFits'
<1> SUFFICES ASSUME NEW d \in Companies PROVE CountFits(d)'
  BY DEF BudgetFits
<1>0. CountFits(d)
  BY DEF BudgetFits
<1>1. CASE d # c
  <2>1. \A q \in Restarters : at'[q] = "exit" /\ on'[q] = d => q # p
    BY <1>1, RestartMoves
  <2>2. CompanyKept(d)
    BY <1>1, <2>1, RestartMoves, RestartWrites DEF CompanyKept
  <2> QED BY <1>0, <2>2, BudgetKept
<1>2. CASE d = c
  <2>0. Current(c) \in Nat /\ launches[c] \in Nat /\ MaxRestarts \in Nat /\ tracked[p] \in Nat
    BY FleetAssumption DEF Current, FleetTypeOk
  <2>1. CASE CircuitOpen(p, c)
    <3>1. \A q \in Restarters : at'[q] = "exit" => q # p
      BY <2>1 DEF CircuitOpen, Back, FleetTypeOk
    <3>2. CompanyKept(c)
      BY <2>1, <3>1, RestartMoves, RestartWrites DEF CompanyKept, CircuitOpen, FleetTypeOk
    <3> QED BY <1>0, <1>2, <3>2, BudgetKept
  <2>2. CASE RestartDead(p, c)
    <3>1. Current(c) < MaxRestarts /\ Current(c)' = Current(c) + 1 /\ quiet'[c] = FALSE
      BY <2>2 DEF RestartDead, Record, Current, FleetTypeOk
    <3>2. \A q \in Leaving(c)' : q # p /\ q \in Leaving(c) /\ tracked'[q] = tracked[q]
      <4>1. \A q \in Restarters : at'[q] = "exit" => q # p
        BY <2>2 DEF RestartDead, Back, FleetTypeOk
      <4> QED BY <4>1, RestartMoves DEF Leaving
    <3>3. \/ launches'[c] = launches[c]
          \/ launches'[c] = launches[c] + 1 /\ Leaving(c) \subseteq {p}
      BY <2>2, LaunchCounts DEF RestartDead
    <3>4. launches'[c] <= MaxRestarts /\ launches'[c] <= Current(c)'
      BY <1>0, <1>2, <2>0, <3>1, <3>3 DEF CountFits
    <3>5. \A q \in Leaving(c)' : launches'[c] <= tracked'[q] /\ tracked'[q] < MaxRestarts
      BY <1>0, <1>2, <3>2, <3>3 DEF CountFits
    <3> QED BY <1>2, <3>1, <3>4, <3>5 DEF CountFits
  <2>3. CASE RestartRunning(p, c)
    <3>1. /\ Current(c) < MaxRestarts /\ count'[c] = Current(c) /\ tracked'[p] = Current(c)
          /\ quiet' = quiet /\ launches' = launches
      BY <2>3 DEF RestartRunning, FleetTypeOk
    <3>2. \A q \in Leaving(c)' : q = p \/ (q \in Leaving(c) /\ tracked'[q] = tracked[q])
      BY RestartMoves DEF Leaving
    <3>3. Current(c)' = Current(c)
      BY <3>1 DEF Current
    <3>4. \A q \in Leaving(c)' : launches'[c] <= tracked'[q] /\ tracked'[q] < MaxRestarts
      BY <1>0, <1>2, <3>1, <3>2 DEF CountFits
    <3> QED BY <1>0, <1>2, <3>1, <3>3, <3>4 DEF CountFits
  <2> QED BY <2>1, <2>2, <2>3 DEF Restart
<1> QED BY <1>1, <1>2

\* The count written after the await is one more than the count read before it,
\* and that was no lower than the restarts made while nobody else waited.
LEMMA AfterExitBudgets ==
  ASSUME FleetTypeOk, NamesFit, BudgetFits, NEW p \in Restarters, AfterExit(p)
  PROVE  BudgetFits'
<1> SUFFICES ASSUME NEW d \in Companies PROVE CountFits(d)'
  BY DEF BudgetFits
<1>0. CountFits(d)
  BY DEF BudgetFits
<1>1. \A q \in Restarters : at'[q] = "exit" => q # p
  BY AfterExitWrites
<1>2. CASE d # on[p]
  <2>1. CompanyKept(d)
    BY <1>1, <1>2, AfterExitWrites DEF CompanyKept
  <2> QED BY <1>0, <2>1, BudgetKept
<1>3. CASE d = on[p]
  <2>1. Current(d)' = tracked[p] + 1 /\ quiet'[d] = FALSE
    BY <1>3, AfterExitWrites DEF Current
  <2>2. \/ launches'[d] = launches[d]
        \/ launches'[d] = launches[d] + 1 /\ Leaving(d) \subseteq {p}
    BY <1>3, LaunchCounts DEF AfterExit
  <2>3. p \in Leaving(d)
    BY <1>3 DEF Leaving, AfterExit
  <2>4. launches[d] <= tracked[p] /\ tracked[p] < MaxRestarts
    BY <1>0, <2>3 DEF CountFits
  <2>5. launches[d] \in Nat /\ tracked[p] \in Nat /\ MaxRestarts \in Nat
    BY FleetAssumption DEF FleetTypeOk
  <2>6. launches'[d] <= tracked[p] + 1 /\ launches'[d] <= MaxRestarts
    BY <2>2, <2>4, <2>5
  <2>7. \A q \in Leaving(d)' : q # p /\ q \in Leaving(d) /\ tracked'[q] = tracked[q]
    BY <1>1, AfterExitWrites DEF Leaving
  <2>8. \A q \in Leaving(d)' : launches'[d] <= tracked'[q] /\ tracked'[q] < MaxRestarts
    BY <1>0, <2>2, <2>7 DEF CountFits
  <2> QED BY <2>1, <2>6, <2>8 DEF CountFits
<1> QED BY <1>2, <1>3

LEMMA BudgetStep ==
  FleetTypeOk /\ NamesFit /\ BudgetFits /\ [FleetNext]_fleetVars => BudgetFits'
<1> SUFFICES ASSUME FleetTypeOk, NamesFit, BudgetFits, [FleetNext]_fleetVars
             PROVE  BudgetFits'
  OBVIOUS
<1>0. \A s \in Passes : s \in Restarters
  BY DEF Restarters
<1>1. ASSUME UNCHANGED tracking,
             \A p \in Restarters : at'[p] = "exit" =>
               at[p] = "exit" /\ on'[p] = on[p] /\ tracked'[p] = tracked[p]
      PROVE  BudgetFits'
  BY <1>1, AllKept DEF CompanyKept, tracking
<1>2. ASSUME NEW c \in Companies,
             \/ Spawn(c) \/ Kill(c) \/ EnforceQuota(c) \/ Shutdown(c) \/ AdminKill(c)
             \/ Activate(c) \/ Exit(c) \/ StateFile(c)
      PROVE  BudgetFits'
  BY <1>1, <1>2 DEF Spawn, Kill, EnforceQuota, Shutdown, AdminKill, Activate, Exit, StateFile,
                    sweep
<1>3. ASSUME NEW c \in Companies, WindowPasses(c) PROVE BudgetFits'
  <2>1. /\ Leaving(c) = {} /\ Leaving(c)' = {}
        /\ UNCHANGED <<count, at, on, tracked>>
        /\ quiet' = [quiet EXCEPT ![c] = TRUE] /\ launches' = [launches EXCEPT ![c] = 0]
    BY <1>3 DEF WindowPasses, Leaving, sweep
  <2>2. ASSUME NEW d \in Companies \ {c} PROVE CompanyKept(d)
    BY <2>1 DEF CompanyKept, FleetTypeOk
  <2>3. launches'[c] = 0 /\ Current(c)' = 0
    BY <2>1 DEF Current, FleetTypeOk
  <2>4. CountFits(c)'
    BY <2>1, <2>3, FleetAssumption DEF CountFits
  <2> QED BY <2>2, <2>3, <2>4, BudgetKept DEF BudgetFits
<1>4. ASSUME NEW p \in Routes, NEW c \in Companies, RestartRoute(p, c) PROVE BudgetFits'
  BY <1>4, RestartBudgets DEF RestartRoute, Restarters
<1>5. ASSUME NEW s \in Passes, NEW c \in Companies, VisitCrashed(s, c) PROVE BudgetFits'
  BY <1>0, <1>5, RestartBudgets DEF VisitCrashed
<1>6. ASSUME NEW s \in Passes, NEW c \in Companies, VisitRunning(s, c) PROVE BudgetFits'
  <2>1. /\ UNCHANGED <<tracking, tracked>>
        /\ \A p \in Restarters : at'[p] = "exit" => at[p] = "exit" /\ on'[p] = on[p]
    BY <1>6 DEF VisitRunning, FleetTypeOk
  <2> QED BY <1>1, <2>1
<1>7. ASSUME NEW s \in Passes, StatHung(s) PROVE BudgetFits'
  BY <1>0, <1>7, RestartBudgets DEF StatHung, NamesFit
<1>8. ASSUME NEW s \in Passes, StatHealthy(s) PROVE BudgetFits'
  <2>1. /\ UNCHANGED <<quiet, launches>>
        /\ count' = [count EXCEPT ![on[s]] = Current(on[s])]
        /\ \A p \in Restarters : at'[p] = "exit" =>
             at[p] = "exit" /\ on'[p] = on[p] /\ tracked'[p] = tracked[p]
    BY <1>8 DEF StatHealthy, Back, FleetTypeOk
  <2>2. \A c \in Companies : count'[c] \in {count[c], Current(c)}
    BY <2>1 DEF FleetTypeOk
  <2> QED BY <2>1, <2>2, AllKept DEF CompanyKept
<1>9. ASSUME NEW p \in Restarters, AfterExit(p) PROVE BudgetFits'
  BY <1>9, AfterExitBudgets
<1>10. ASSUME NEW s \in Passes, Tick(s) \/ Finish(s) PROVE BudgetFits'
  <2>1. /\ UNCHANGED <<tracking, on, tracked>>
        /\ \A p \in Restarters : at'[p] = "exit" => at[p] = "exit"
    BY <1>10 DEF Tick, Finish, FleetTypeOk
  <2> QED BY <1>1, <2>1
<1>11. CASE LeaseExpires
  BY <1>1, <1>11 DEF LeaseExpires, sweep
<1>12. CASE UNCHANGED fleetVars
  BY <1>1, <1>12 DEF fleetVars, sweep
<1>13. ASSUME NEW s \in Passes, Pass(s) PROVE BudgetFits'
  BY <1>0, <1>5, <1>6, <1>7, <1>8, <1>9, <1>10, <1>13 DEF Pass
<1>14. \A p \in Routes : p \in Restarters
  BY DEF Restarters
<1> QED BY <1>2, <1>3, <1>4, <1>9, <1>10, <1>11, <1>12, <1>13, <1>14 DEF FleetNext

--------------------------------------------------------------------------------
(* The fleet: theorems *)

\* Everything the fleet's promises rest on, in every reachable state.
THEOREM FleetInvariant == FleetSpec => []FleetInv
<1>1. FleetInv /\ [FleetNext]_fleetVars => FleetInv'
  BY TypesStep, LeaseStep, KillsStep, BudgetStep DEF FleetInv
<1> QED BY InitFleet, <1>1, PTL DEF FleetSpec

\* Types, for any number of companies, sweeps, instances and restart routes.
THEOREM FleetTypeCorrect == FleetSpec => []FleetTypeOk
<1>1. FleetInv => FleetTypeOk
  BY DEF FleetInv
<1> QED BY <1>1, FleetInvariant, PTL

\* A company killed while nothing of its restart or birth was under way stays
\* killed until somebody orders otherwise, whatever sweeps and instances run.
THEOREM KillStands == FleetSpec => []KillHolds
<1>1. FleetInv => KillHolds
  BY DEF FleetInv, KillsFit, KillIsFinal, KillHolds
<1> QED BY <1>1, FleetInvariant, PTL

\* restart_count, read before an await and written back after it, by any number of
\* sweeps and routes at once, bounds the restarts of a window, those aside that
\* are made while another one waits.
THEOREM BudgetKeeps == FleetSpec => []RestartBudget
<1>1. FleetInv => RestartBudget
  BY DEF FleetInv, BudgetFits, CountFits, RestartBudget
<1> QED BY <1>1, FleetInvariant, PTL

\* The job lease lets one sweep run at a time, over any number of instances,
\* except beside a sweep that outlived its lease or was robbed of it by a pass of
\* its own instance.
THEOREM PassesAlternate == FleetSpec => []PassesTakeTurns
<1>1. FleetInv => PassesTakeTurns
  BY DEF FleetInv, LeaseFits, PassesTakeTurns
<1> QED BY <1>1, FleetInvariant, PTL
================================================================================
