-------------------------------- MODULE Genesis --------------------------------
(***************************************************************************)
(* The genesis executor of one root agent (backend genesis.ts): from the   *)
(* CEO's approval to a company that is funded, tested and started.         *)
(*                                                                         *)
(* An approval runs an executor of its own, so several may be in flight;   *)
(* each stops where the code awaits:                                       *)
(*   shell     createCloneShell: office directory and sandbox              *)
(*   wallet    createClonedAgentWallet, before the agents row              *)
(*   manifest  the same, after it                                          *)
(*   identity  the runtime identity's files                                *)
(*   prompt    the genesis prompt's file                                   *)
(*   sign      signPaymentAuthorization                                    *)
(*   check     settleAuthorization: signature and balance                  *)
(*   chain     settleAuthorization: writeContract                          *)
(*   tick      the first-tick smoke test                                   *)
(*   register  registerGenesisIdentity                                     *)
(* Whatever throws on the way marks the trigger failed.  Of what a company *)
(* is born with, only its presence is modelled.                            *)
(***************************************************************************)
EXTENDS Naturals, FiniteSets, FiniteSetsExt

CONSTANTS
  Opps,          \* opportunities the CEO may approve
  Recommended,   \* Recommended[o]: the funding finance recommends
  Researched,    \* Researched[o]: the sections o's findings have
  Suppliers,     \* recommended as suppliers of a sibling with a listing
  PerCall,       \* maxCloneFundingUsdcPerCall
  PerDay,        \* maxCloneFundingUsdcPerAgentPerDay
  PortfolioCap,  \* the revenue's fraction, as checkPortfolioSpendCapacity has it
  MaxSpawns,     \* MAX_GENESIS_SPAWNS_PER_WINDOW
  MaxShells,     \* maxPendingCloneShellsPerAgent
  MaxCrashes     \* bound: crashes of the backend

ASSUME GenesisAssumption ==
  /\ IsFiniteSet(Opps)
  /\ Recommended \in [Opps -> Nat]
  /\ Researched \in [Opps -> SUBSET {"market", "competition", "customers", "technology"}]
  /\ Suppliers \subseteq Opps
  /\ PerCall \in Nat /\ PerDay \in Nat /\ PortfolioCap \in Nat
  /\ MaxSpawns \in Nat /\ MaxShells \in Nat /\ MaxCrashes \in Nat

VARIABLES
  trigger,     \* status of the genesis_triggers row, or "none"
  halted,      \* the expansion_circuit_breaker row
  stage,       \* the root's rollout stage
  at,          \* where the executor awaits, or "idle"
  shell,       \* the clone_shells row; "claimed" when claimed_at is set
  company,     \* the agents row: "untagged", then its activation status
  born,        \* what the company has been given
  recent,      \* companies whose row is less than 24 hours old
  pay,         \* status of the clone-funding payments row, or "none"
  amount,      \* its value
  today,       \* payments rows of the current day
  started,     \* companies whose process the executor started
  sent,        \* history: the transfer is on chain
  passed,      \* history: companies that passed both tests
  crowded,     \* history: an approval came before an earlier one tagged its row
  raced,       \* history: a funding was cut to size before an earlier one's row
  cut,         \* history: executors a crash ended
  crashes

contract == <<trigger, halted, stage>>
birth == <<shell, company, born, recent>>
money == <<pay, amount, today, sent>>
history == <<crowded, raced, cut, crashes>>
vars == <<contract, at, birth, money, started, passed, history>>

Places == {"idle", "shell", "wallet", "manifest", "identity", "prompt", "sign",
           "check", "chain", "tick", "register"}

InFlight == {o \in Opps : at[o] # "idle"}

Contract == INSTANCE GenesisTriggers WITH running <- InFlight

\* What is written between the prompt's file and the funding: the mission, and
\* one knowledge row for each section there is.
Brief(o) == {"prompt", "mission"} \cup Researched[o]

\* scopeGenesisToolGrants, after the funding.
Grants(o) == IF o \in Suppliers THEN {"grant"} ELSE {}

\* All a company is given.
Outfit(o) == {"identity"} \cup Brief(o) \cup Grants(o)

\* Types, and that a company is given nothing that is not its own.
TypeOk ==
  /\ Contract!TriggerTypeOk
  /\ at \in [Opps -> Places]
  /\ shell \in [Opps -> {"none", "creating", "failed", "claimed"}]
  /\ company \in [Opps -> {"none", "untagged", "pending", "active", "failed"}]
  /\ \A o \in Opps : born[o] \subseteq Outfit(o)
  /\ pay \in [Opps -> {"none", "pending", "settled", "failed"}]
  /\ amount \in [Opps -> Nat]
  /\ recent \subseteq Opps /\ today \subseteq Opps /\ started \subseteq Opps
  /\ sent \subseteq Opps /\ passed \subseteq Opps /\ cut \subseteq Opps
  /\ crowded \in BOOLEAN /\ raced \in BOOLEAN
  /\ crashes \in 0 .. MaxCrashes

Init ==
  /\ trigger = [o \in Opps |-> "none"] /\ halted = FALSE /\ stage = "dry"
  /\ at = [o \in Opps |-> "idle"]
  /\ shell = [o \in Opps |-> "none"]
  /\ company = [o \in Opps |-> "none"]
  /\ born = [o \in Opps |-> {}]
  /\ pay = [o \in Opps |-> "none"]
  /\ amount = [o \in Opps |-> 0]
  /\ recent = {} /\ today = {} /\ started = {} /\ sent = {} /\ passed = {}
  /\ cut = {} /\ crowded = FALSE /\ raced = FALSE /\ crashes = 0

--------------------------------------------------------------------------------
(* The caps *)

Goto(o, place) == at' = [at EXCEPT ![o] = place]

\* Rows of the parent that carry the lineage tag, whatever became of them.
Tagged == {o \in Opps : company[o] \notin {"none", "untagged"}}

\* Variant: only companies that were activated count.
ActiveSpawns == Cardinality({o \in recent : company[o] = "active"})

\* What checkGenesisSpawnCapacity counts.
SpawnedInWindow == Cardinality(recent \cap Tagged)

\* Shells that are neither failed nor claimed.
PendingShells == Cardinality({o \in Opps : shell[o] = "creating"})

\* getTotalPipelineFundingDisbursedUsdc, of the rows in S.
Disbursed(S) ==
  MapThenSumSet(LAMBDA o : amount[o],
                {o \in S : pay[o] \in {"pending", "settled"}})

\* Subtraction that stops at zero.
Room(cap, used) == IF used >= cap THEN 0 ELSE cap - used

Smaller(a, b) == IF a < b THEN a ELSE b

\* Variant: the portfolio's room is not looked at.
FundingPerCallAndDay(o) ==
  Smaller(Smaller(Recommended[o], PerCall), Room(PerDay, Disbursed(today)))

\* fundGenesisCompany's clamp: per call, per day, portfolio.
Funding(o) ==
  Smaller(Smaller(Recommended[o], PerCall),
          Smaller(Room(PerDay, Disbursed(today)),
                  Room(PortfolioCap, Disbursed(Opps))))

\* The checks before the executor's first await.
Refused ==
  \/ halted
  \/ SpawnedInWindow >= MaxSpawns
  \/ Disbursed(Opps) >= PortfolioCap
  \/ PendingShells >= MaxShells

--------------------------------------------------------------------------------
(* From the approval to the company's row *)

\* graduateToLiveGenesis, of module Expansion.
Graduate ==
  /\ stage = "dry" /\ ~halted
  /\ stage' = "live"
  /\ UNCHANGED <<trigger, halted, at, birth, money, started, passed, history>>

\* fireGenesisTrigger writes its row; the executor refuses.
ApproveRefused(o) ==
  /\ stage = "live" /\ trigger[o] = "none"
  /\ Refused
  /\ trigger' = [trigger EXCEPT ![o] = "failed"]
  /\ UNCHANGED <<halted, stage, at, birth, money, started, passed, history>>

\* fireGenesisTrigger, and the executor up to createCloneShell's first await.
Approve(o) ==
  /\ stage = "live" /\ trigger[o] = "none"
  /\ ~Refused
  /\ trigger' = [trigger EXCEPT ![o] = "pending"]
  /\ shell' = [shell EXCEPT ![o] = "creating"]
  /\ Goto(o, "shell")
  /\ crowded' = (crowded \/ \E p \in Opps : at[p] \in {"shell", "wallet", "manifest"})
  /\ UNCHANGED <<halted, stage, company, born, recent, money, started, passed,
                 raced, cut, crashes>>

\* The shell stands; createClonedAgentWallet claims it.
ShellReady(o) ==
  /\ at[o] = "shell"
  /\ shell' = [shell EXCEPT ![o] = "claimed"]
  /\ Goto(o, "wallet")
  /\ UNCHANGED <<contract, company, born, recent, money, started, passed, history>>

\* The agents row, not yet tagged with its lineage.
WriteAgentRow(o) ==
  /\ at[o] = "wallet"
  /\ company' = [company EXCEPT ![o] = "untagged"]
  /\ recent' = recent \cup {o}
  /\ Goto(o, "manifest")
  /\ UNCHANGED <<contract, shell, born, money, started, passed, history>>

\* tagCompanyLineage and markGenesisPending, then the identity's files.
TagLineage(o) ==
  /\ at[o] = "manifest"
  /\ company' = [company EXCEPT ![o] = "pending"]
  /\ Goto(o, "identity")
  /\ UNCHANGED <<contract, shell, born, recent, money, started, passed, history>>

Give(o, things) == born' = [born EXCEPT ![o] = @ \cup things]

\* provisionAgentRuntimeIdentity is done; the prompt is written next.
WriteIdentity(o) ==
  /\ at[o] = "identity"
  /\ Give(o, {"identity"})
  /\ Goto(o, "prompt")
  /\ UNCHANGED <<contract, shell, company, recent, money, started, passed, history>>

\* A row leaves the 24-hour window.
WindowPasses(o) ==
  /\ o \in recent
  /\ recent' = recent \ {o}
  /\ UNCHANGED <<contract, at, shell, company, born, money, started, passed, history>>

--------------------------------------------------------------------------------
(* Funding *)

\* markGenesisTriggerCompleted, then the smoke test.
CompleteTrigger(o) ==
  /\ trigger' = [trigger EXCEPT ![o] = "completed"]
  /\ Goto(o, "tick")
  /\ UNCHANGED <<halted, stage>>

\* Nothing recommended, or no room left.
SkipFunding(o) ==
  /\ at[o] = "prompt" /\ Funding(o) = 0
  /\ Give(o, Brief(o) \cup Grants(o))
  /\ CompleteTrigger(o)
  /\ UNCHANGED <<shell, company, recent, money, started, passed, history>>

\* The amount is settled on; the signature is awaited.
ClampFunding(o) ==
  /\ at[o] = "prompt" /\ Funding(o) > 0
  /\ Give(o, Brief(o))
  /\ amount' = [amount EXCEPT ![o] = Funding(o)]
  /\ Goto(o, "sign")
  /\ raced' = (raced \/ \E p \in Opps : at[p] \in {"sign", "check"})
  /\ UNCHANGED <<contract, shell, company, recent, pay, today, sent, started,
                 passed, crowded, cut, crashes>>

Signed(o) ==
  /\ at[o] = "sign"
  /\ Goto(o, "check")
  /\ UNCHANGED <<contract, birth, money, started, passed, history>>

\* verifyAuthorization accepts: the payments row, then the transfer.
WritePayment(o) ==
  /\ at[o] = "check"
  /\ pay' = [pay EXCEPT ![o] = "pending"]
  /\ today' = today \cup {o}
  /\ Goto(o, "chain")
  /\ UNCHANGED <<contract, birth, amount, sent, started, passed, history>>

Settled(o) ==
  /\ at[o] = "chain"
  /\ pay' = [pay EXCEPT ![o] = "settled"]
  /\ sent' = sent \cup {o}
  /\ Give(o, Grants(o))
  /\ CompleteTrigger(o)
  /\ UNCHANGED <<shell, company, recent, amount, today, started, passed, history>>

\* writeContract throws, whether or not the transfer was broadcast.
SettleFailed(o) ==
  /\ at[o] = "chain"
  /\ pay' = [pay EXCEPT ![o] = "failed"]
  /\ sent' \in {sent, sent \cup {o}}
  /\ trigger' = [trigger EXCEPT ![o] = "failed"]
  /\ Goto(o, "idle")
  /\ UNCHANGED <<halted, stage, birth, amount, today, started, passed, history>>

\* The UTC day ends.
NewDay ==
  /\ today' = {}
  /\ UNCHANGED <<contract, at, birth, pay, amount, sent, started, passed, history>>

--------------------------------------------------------------------------------
(* Tests, activation, and the ways out *)

\* Variant: a failed test halts the pipeline but leaves the rollout stage.
HaltOnly ==
  /\ halted' = TRUE
  /\ UNCHANGED stage

\* haltExpansionPipeline, which demotes the root as well.
HaltPipeline ==
  /\ halted' = TRUE
  /\ stage' = "dry"

\* The smoke test or the constitution check fails.
FailTests(o) ==
  /\ at[o] = "tick"
  /\ HaltPipeline
  /\ company' = [company EXCEPT ![o] = "failed"]
  /\ Goto(o, "idle")
  /\ UNCHANGED <<trigger, shell, born, recent, money, started, passed, history>>

\* activateGenesisAgent: a pending company passed both tests.
ActivateGenesisAgent(o) ==
  /\ passed' = passed \cup {o}
  /\ company' = [company EXCEPT ![o] = "active"]

\* Both pass: the company is active and its process starts.
Activate(o) ==
  /\ at[o] = "tick"
  /\ ActivateGenesisAgent(o)
  /\ started' = started \cup {o}
  /\ Goto(o, "register")
  /\ UNCHANGED <<contract, shell, born, recent, money, history>>

\* Variant: a company whose process does not start is no failure.
IgnoreStartFailure(o) ==
  /\ at[o] = "tick"
  /\ ActivateGenesisAgent(o)
  /\ Goto(o, "idle")
  /\ UNCHANGED <<contract, shell, born, recent, money, started, history>>

\* Both pass but spawnAgentProcess does not launch, so the adapter throws; or it
\* launches and schedulePostLaunchReview throws.
ActivateThrows(o) ==
  /\ at[o] = "tick"
  /\ ActivateGenesisAgent(o)
  /\ started' \in {started, started \cup {o}}
  /\ trigger' = [trigger EXCEPT ![o] = "failed"]
  /\ Goto(o, "idle")
  /\ UNCHANGED <<halted, stage, shell, born, recent, money, history>>

\* registerGenesisIdentity records what the chain answers, errors included.
Registered(o) ==
  /\ at[o] = "register"
  /\ Goto(o, "idle")
  /\ UNCHANGED <<contract, birth, money, started, passed, history>>

\* Variant: a rejected promise is not caught.
ThrowUncaught(o) ==
  /\ at[o] \in Places \ {"idle", "chain"}
  /\ Goto(o, "idle")
  /\ UNCHANGED <<contract, birth, money, started, passed, history>>

\* Anything else throws, the database or a key in registerGenesisIdentity among
\* them: fireGenesisTrigger's catch marks the trigger; the shell's own catch marks
\* the shell; the knowledge rows may not read back.
Throw(o) ==
  /\ at[o] \in Places \ {"idle", "chain"}
  /\ trigger' = [trigger EXCEPT ![o] = "failed"]
  /\ shell' = [shell EXCEPT ![o] = IF at[o] = "shell" THEN "failed" ELSE @]
  /\ \/ UNCHANGED born
     \/ at[o] = "prompt" /\ Give(o, Brief(o))
  /\ Goto(o, "idle")
  /\ UNCHANGED <<halted, stage, company, recent, money, started, passed, history>>

\* The backend dies; no executor comes back.
Die ==
  /\ crashes < MaxCrashes
  /\ crashes' = crashes + 1
  /\ cut' = cut \cup InFlight
  /\ at' = [o \in Opps |-> "idle"]
  /\ UNCHANGED <<birth, money, started, passed, crowded, raced>>

Crash == Die /\ UNCHANGED contract

\* It dies between the breaker's row and the demotion.
CrashInHalt(o) ==
  /\ at[o] = "tick"
  /\ halted' = TRUE
  /\ Die
  /\ UNCHANGED <<trigger, stage>>

--------------------------------------------------------------------------------

Executor(o) ==
  \/ ShellReady(o) \/ WriteAgentRow(o) \/ TagLineage(o) \/ WriteIdentity(o)
  \/ SkipFunding(o) \/ ClampFunding(o) \/ Signed(o) \/ WritePayment(o)
  \/ Settled(o) \/ SettleFailed(o)
  \/ FailTests(o) \/ Activate(o) \/ ActivateThrows(o) \/ Registered(o)
  \/ Throw(o)

Next ==
  \/ Graduate \/ NewDay \/ Crash
  \/ \E o \in Opps :
       \/ ApproveRefused(o) \/ Approve(o) \/ WindowPasses(o)
       \/ Executor(o) \/ CrashInHalt(o)

\* Every await of an executor ends, with an answer or an error.
Fairness == \A o \in Opps : WF_vars(Executor(o))

Spec == Init /\ [][Next]_vars /\ Fairness

--------------------------------------------------------------------------------
(* Properties *)

\* The executor keeps the contract the pipeline is built on.
KeepsContract == Contract!TriggerSpec

\* The daily cap on companies, which is checked several awaits before the row
\* it counts is tagged, holds unless approvals overlapped.
SpawnCapHolds == crowded \/ SpawnedInWindow <= MaxSpawns

\* So does what leaves the root's wallet, unless fundings overlapped or a
\* transfer that was reported failed went through.
FundingWithinCaps ==
  LET spent == sent \cup {o \in Opps : pay[o] \in {"pending", "settled"}}
  IN \/ raced \/ \E o \in sent : pay[o] = "failed"
     \/ /\ MapThenSumSet(LAMBDA o : amount[o], spent) <= PortfolioCap
        /\ MapThenSumSet(LAMBDA o : amount[o], spent \cap today) <= PerDay

\* A company that passed its tests, with its process started and all it is given.
InOperation(o) ==
  company[o] = "active" /\ o \in started \cap passed /\ born[o] = Outfit(o)

\* A trigger's last word is true: completed means a company in operation with
\* everything the findings had for it, or one that failed its tests and took
\* the pipeline down with it; failed means that nothing was started, or that all
\* there is to a company stands and its executor threw after starting it.
\* Executors that died tell nothing.
TriggerTellsOutcome ==
  \A o \in Opps \ (InFlight \cup cut) :
    /\ trigger[o] = "completed" =>
         \/ InOperation(o)
         \/ company[o] = "failed" /\ halted /\ o \notin started
    /\ trigger[o] = "failed" => o \notin started \/ InOperation(o)
    /\ trigger[o] # "pending"

\* Every trigger that a crash does not strand is answered.
TriggerResolves ==
  \A o \in Opps : trigger[o] = "pending" ~> trigger[o] # "pending" \/ o \in cut
================================================================================
