------------------------------- MODULE Expansion -------------------------------
(***************************************************************************)
(* One root agent's expansion pipeline (backend expansion.ts and its routes *)
(* in expansionRoutes.ts): opportunities are scored, killed with their      *)
(* report, selected, researched, deliberated on and voted on, and ruled on  *)
(* by the CEO, whose approval yields a dry-run packet or fires genesis.     *)
(* The executor is the contract of GenesisTriggers.                        *)
(*                                                                         *)
(* Every handler here is synchronous, so each is one step, with a second    *)
(* action where a crash between two of its statements matters.  The         *)
(* contents of reports, the duplicate check over titles, notifications and  *)
(* audit rows are left out.                                                *)
(***************************************************************************)
EXTENDS GenesisTriggers, Naturals, FiniteSets

CONSTANTS
  Roi,          \* Roi[o]: the ROI score of o
  Floor,        \* expansionMinRoiFloor
  TopN,         \* expansionTopNOpenOpportunities
  MinPackets,   \* rolloutGraduationMinDryRunPackets
  Departments,  \* the departments that report, deliberate and vote
  Finance       \* the one that checks the runway

ASSUME ExpansionAssumption ==
  /\ Roi \in [Opps -> Nat] /\ Floor \in Nat
  /\ TopN \in Nat /\ MinPackets \in Nat
  /\ Finance \in Departments
  /\ IsFiniteSet(Opps)

VARIABLES
  status,       \* opportunities.status, or "absent"
  archived,     \* opportunities of archived reports; the rest share the draft
  filed,        \* departments with a current finding on o
  responded,    \* departments with a deliberation response on o
  voted,        \* departments with a vote on o
  late,         \* selected opportunities whose voting deadline has passed
  runway,       \* verdict of the runway check in o's finance finding
  deliberation, \* expansion_pipeline_config.deliberation_enabled
  dryRun,       \* expansion_pipeline_config.dry_run_mode
  ruling,       \* the latest CEO decision on o, or "none"
  packets,      \* opportunities with a dry_run_genesis_packets row
  torn          \* history: a crash fell between a ruling and its effect

marks == <<status, archived, late>>
dossier == <<filed, responded, voted, runway>>
config == <<deliberation, dryRun>>
outcome == <<ruling, packets, torn>>
vars == <<marks, dossier, config, outcome, triggerVars>>

\* Types, and that only a selected opportunity has a deadline.
TypeOk ==
  /\ TriggerTypeOk
  /\ status \in [Opps -> {"absent", "open", "selected", "rejected"}]
  /\ archived \subseteq Opps /\ packets \subseteq Opps /\ torn \subseteq Opps
  /\ late \subseteq {o \in Opps : status[o] = "selected"}
  /\ filed \in [Opps -> SUBSET Departments]
  /\ responded \in [Opps -> SUBSET Departments]
  /\ voted \in [Opps -> SUBSET Departments]
  /\ runway \in [Opps -> {"none", "passes", "fails"}]
  /\ deliberation \in BOOLEAN /\ dryRun \in BOOLEAN
  /\ ruling \in [Opps -> {"none", "deferred", "approved", "rejected"}]

Init ==
  /\ TriggerInit
  /\ status = [o \in Opps |-> "absent"]
  /\ archived = {} /\ late = {} /\ packets = {} /\ torn = {}
  /\ filed = [o \in Opps |-> {}]
  /\ responded = [o \in Opps |-> {}]
  /\ voted = [o \in Opps |-> {}]
  /\ runway = [o \in Opps |-> "none"]
  /\ deliberation = FALSE /\ dryRun = FALSE
  /\ ruling = [o \in Opps |-> "none"]

--------------------------------------------------------------------------------
(* Opportunities and their selection *)

Known(o) == status[o] # "absent"

Selected == {o \in Opps : status[o] = "selected"}

\* POST /opportunities/score-opportunity: into the root's draft report.
ScoreOpportunity(o) ==
  /\ status[o] = "absent"
  /\ status' = [status EXCEPT ![o] = "open"]
  /\ UNCHANGED <<archived, late, dossier, config, outcome, triggerVars>>

\* evaluateKillCondition: the draft report goes when none of its opportunities
\* reaches the floor, whatever their status.
Killed ==
  LET draft == {o \in Opps : Known(o) /\ o \notin archived}
  IN IF \A o \in draft : Roi[o] < Floor THEN draft ELSE {}

\* What selectTopOpenOpportunities chooses from, given the archived ones.
Eligible(gone) == {o \in Opps : status[o] = "open" /\ o \notin gone}

\* Variant: the last slot is never given.
BestOneShort(gone) ==
  IF Cardinality(Selected) + 1 >= TopN THEN {}
  ELSE {o \in Eligible(gone) : \A p \in Eligible(gone) : Roi[p] <= Roi[o]}

\* The row its query may return first: the best score, if there is a free slot.
Best(gone) ==
  IF Cardinality(Selected) >= TopN THEN {}
  ELSE {o \in Eligible(gone) : \A p \in Eligible(gone) : Roi[p] <= Roi[o]}

\* The expansion_top_n_selection job: the kill sweep, then one selection.
TopNJob ==
  LET gone == archived \cup Killed
  IN /\ archived' = gone
     /\ \/ \E o \in Best(gone) : status' = [status EXCEPT ![o] = "selected"]
        \/ Best(gone) = {} /\ UNCHANGED status
     /\ UNCHANGED <<late, dossier, config, outcome, triggerVars>>

\* setOpportunityStatus writes selected_at again, so a deadline goes with it.
SetStatus(o, s) ==
  /\ status' = [status EXCEPT ![o] = s]
  /\ late' = late \ {o}

\* POST /opportunities/:id/status, promote.
Promote(o) ==
  /\ status[o] = "open" /\ o \notin archived
  /\ Cardinality(Selected) < TopN
  /\ SetStatus(o, "selected")
  /\ UNCHANGED <<archived, dossier, config, outcome, triggerVars>>

\* Variant: a rejected opportunity can be taken back.
DemoteAny(o) ==
  /\ status[o] \in {"selected", "rejected"}
  /\ SetStatus(o, "open")
  /\ UNCHANGED <<archived, dossier, config, outcome, triggerVars>>

\* POST /opportunities/:id/status, demote.
Demote(o) ==
  /\ status[o] = "selected"
  /\ SetStatus(o, "open")
  /\ UNCHANGED <<archived, dossier, config, outcome, triggerVars>>

\* POST /opportunities/:id/status, reject.
Reject(o) ==
  /\ status[o] \in {"open", "selected"}
  /\ SetStatus(o, "rejected")
  /\ UNCHANGED <<archived, dossier, config, outcome, triggerVars>>

\* The voting deadline, counted from selected_at, passes.
DeadlinePasses(o) ==
  /\ status[o] = "selected"
  /\ late' = late \cup {o}
  /\ UNCHANGED <<status, archived, dossier, config, outcome, triggerVars>>

--------------------------------------------------------------------------------
(* The departments; none of these routes looks at the opportunity's status *)

\* A department files a finding, or files it again.
FileFinding(o, d) ==
  /\ Known(o)
  /\ filed' = [filed EXCEPT ![o] = @ \cup {d}]
  /\ UNCHANGED <<marks, responded, voted, runway, config, outcome, triggerVars>>

\* recordRunwayCheck merges its verdict into the finance finding.
RecordRunwayCheck(o, verdict) ==
  /\ Known(o)
  /\ runway' = [runway EXCEPT ![o] = verdict]
  /\ filed' = [filed EXCEPT ![o] = @ \cup {Finance}]
  /\ UNCHANGED <<marks, responded, voted, config, outcome, triggerVars>>

\* POST /opportunities/:id/finance/reject-for-failed-runway.
RejectForFailedRunway(o) ==
  /\ Known(o) /\ runway[o] = "fails"
  /\ SetStatus(o, "rejected")
  /\ UNCHANGED <<archived, dossier, config, outcome, triggerVars>>

\* POST /opportunities/:id/deliberation.
Respond(o, d) ==
  /\ Known(o)
  /\ responded' = [responded EXCEPT ![o] = @ \cup {d}]
  /\ UNCHANGED <<marks, filed, voted, runway, config, outcome, triggerVars>>

\* POST /opportunities/:id/vote.
Vote(o, d) ==
  /\ Known(o)
  /\ voted' = [voted EXCEPT ![o] = @ \cup {d}]
  /\ UNCHANGED <<marks, filed, responded, runway, config, outcome, triggerVars>>

\* POST /agents/:agentAddress/deliberation-config.
SetDeliberation(on) ==
  /\ deliberation' = on
  /\ UNCHANGED <<marks, dossier, dryRun, outcome, triggerVars>>

\* POST /agents/:agentAddress/dry-run-config.
SetDryRun(on) ==
  /\ dryRun' = on
  /\ UNCHANGED <<marks, dossier, deliberation, outcome, triggerVars>>

--------------------------------------------------------------------------------
(* The CEO's ruling *)

\* requireDecidableCommitteePacket: complete, locked, and voted on or late.
Decidable(o) ==
  /\ filed[o] = Departments
  /\ deliberation => responded[o] = Departments
  /\ voted[o] = Departments \/ o \in late

\* No terminal ruling yet: a deferral leaves the question open.
Undecided(o) == ruling[o] \in {"none", "deferred"}

\* isDryRunModeEffective, read at ruling time.
DryRunEffective == stage = "dry" \/ dryRun

\* The expansion_decisions row.
Rule(o, decision) ==
  /\ Known(o) /\ Undecided(o) /\ Decidable(o)
  /\ ruling' = [ruling EXCEPT ![o] = decision]

Defer(o) ==
  /\ Rule(o, "deferred")
  /\ UNCHANGED <<marks, dossier, config, packets, torn, triggerVars>>

DecideRejected(o) ==
  /\ Rule(o, "rejected")
  /\ SetStatus(o, "rejected")
  /\ UNCHANGED <<archived, dossier, config, packets, torn, triggerVars>>

\* Approval in dry-run mode: recordDryRunGenesisPacket.
ApproveDry(o) ==
  /\ Rule(o, "approved") /\ DryRunEffective
  /\ packets' = packets \cup {o}
  /\ UNCHANGED <<marks, dossier, config, torn, triggerVars>>

\* Approval of a graduated root: fireGenesisTrigger.  The opportunity's status
\* stays as it is.
ApproveLive(o) ==
  /\ Rule(o, "approved") /\ ~DryRunEffective
  /\ Fire(o) \/ FireRefused(o)
  /\ UNCHANGED <<marks, dossier, config, packets, torn>>

\* The backend dies after the decision's row and before its effect.
RuleInterrupted(o, decision) ==
  /\ decision # "deferred"
  /\ Rule(o, decision)
  /\ torn' = torn \cup {o}
  /\ Crash
  /\ UNCHANGED <<marks, dossier, config, packets>>

\* Variant: graduation does not count the packets.
GraduateUnearned ==
  /\ Graduate
  /\ UNCHANGED <<marks, dossier, config, outcome>>

\* graduateToLiveGenesis; the root's profit is the world's to decide.
GraduateRoot ==
  /\ Cardinality(packets) >= MinPackets
  /\ Graduate
  /\ UNCHANGED <<marks, dossier, config, outcome>>

\* The executors go on, or the backend dies between two requests.
Executor ==
  /\ \/ \E o \in Opps :
          \/ Complete(o) \/ Fail(o) \/ Return(o) \/ Halt(o) \/ HaltInterrupted(o)
     \/ Crash
  /\ UNCHANGED <<marks, dossier, config, outcome>>

--------------------------------------------------------------------------------

Next ==
  \/ TopNJob \/ GraduateRoot \/ Executor
  \/ \E on \in BOOLEAN : SetDeliberation(on) \/ SetDryRun(on)
  \/ \E o \in Opps :
       \/ ScoreOpportunity(o) \/ Promote(o) \/ Demote(o) \/ Reject(o)
       \/ DeadlinePasses(o) \/ RejectForFailedRunway(o)
       \/ \E verdict \in {"passes", "fails"} : RecordRunwayCheck(o, verdict)
       \/ \E d \in Departments : FileFinding(o, d) \/ Respond(o, d) \/ Vote(o, d)
       \/ Defer(o) \/ DecideRejected(o) \/ ApproveDry(o) \/ ApproveLive(o)
       \/ \E decision \in {"approved", "rejected"} : RuleInterrupted(o, decision)

\* The job runs every two minutes under its lease.
Fairness == WF_vars(TopNJob)

Spec == Init /\ [][Next]_vars /\ Fairness
--------------------------------------------------------------------------------
(* Properties *)

\* A final ruling has its effect once and no other: an approval yields a
\* dry-run packet or a genesis trigger, never both, and a rejected opportunity
\* is out for good.  A crash between the two statements is the one exception.
RulingTakesEffect ==
  \A o \in Opps :
    /\ ~(o \in packets /\ trigger[o] # "none")
    /\ o \in packets \/ trigger[o] # "none" => ruling[o] = "approved"
    /\ o \in torn \/
         /\ ruling[o] = "approved" => o \in packets \/ trigger[o] # "none"
         /\ ruling[o] = "rejected" => status[o] = "rejected"

\* A root spends money only after it earned that: it is live, or has ever
\* fired a trigger, only with the dry-run packets graduation asks for.
LiveStageEarned ==
  stage = "live" \/ (\E o \in Opps : trigger[o] # "none")
    => Cardinality(packets) >= MinPackets

\* While an opportunity could be selected and none is, one will be.
FreeSlotIsUsed ==
  Selected = {} /\ Eligible(archived) # {}
    ~> Selected # {} \/ Eligible(archived) = {}
================================================================================
