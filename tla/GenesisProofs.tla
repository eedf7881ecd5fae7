------------------------------ MODULE GenesisProofs ------------------------------
(***************************************************************************)
(* The genesis executor keeps the contract Expansion is built on, its      *)
(* triggers tell the truth, its daily cap holds and so do the caps on its  *)
(* funding, for any number of approvals, crashes and caps.                 *)
(***************************************************************************)
EXTENDS Genesis, FiniteSetTheorems, WellFoundedInduction, TLAPS

\* All a company can be given.
Things == {"identity", "prompt", "mission", "market", "competition", "customers",
           "technology", "grant"}

Typed ==
  /\ Contract!TriggerTypeOk
  /\ at \in [Opps -> Places]
  /\ company \in [Opps -> {"none", "untagged", "pending", "active", "failed"}]
  /\ born \in [Opps -> SUBSET Things]
  /\ recent \subseteq Opps /\ started \subseteq Opps /\ passed \subseteq Opps
  /\ cut \subseteq Opps /\ crowded \in BOOLEAN

\* The awaits before the trigger is completed.
Early == {"shell", "wallet", "manifest", "identity", "prompt", "sign", "check", "chain"}

\* The trigger of an executor in flight waits for it, or is completed for the
\* tests; its company's row is pending from the tag to the end of the tests.
TriggersFit ==
  \A o \in Opps :
    /\ at[o] \in Early => trigger[o] = "pending"
    /\ at[o] \in {"tick", "register"} => trigger[o] = "completed"
    /\ at[o] \in {"identity", "prompt", "sign", "check", "chain", "tick"} =>
         company[o] = "pending"

USE DEF Contract!TriggerTypeOk, Contract!TriggerStatus

--------------------------------------------------------------------------------
(* Types, and the triggers *)

Fits == Typed /\ TriggersFit

LEMMA BriefTyped ==
  ASSUME NEW o \in Opps
  PROVE  Brief(o) \in SUBSET Things /\ Grants(o) \in SUBSET Things
BY GenesisAssumption DEF Brief, Grants, Things

LEMMA InitFits == Init => Fits
<1> SUFFICES ASSUME Init PROVE Fits
  OBVIOUS
<1>1. Contract!TriggerTypeOk
  BY DEF Init, InFlight
<1>2. at \in [Opps -> Places] /\ TriggersFit
  BY DEF Init, Places, TriggersFit, Early
<1>3. /\ company \in [Opps -> {"none", "untagged", "pending", "active", "failed"}]
      /\ born \in [Opps -> SUBSET Things]
      /\ recent \subseteq Opps /\ started \subseteq Opps /\ passed \subseteq Opps
      /\ cut \subseteq Opps /\ crowded \in BOOLEAN
  BY DEF Init
<1> QED BY <1>1, <1>2, <1>3 DEF Fits, Typed

\* An executor's step.
LEMMA ExecutorFits ==
  ASSUME Fits, NEW o \in Opps, Executor(o)
  PROVE  Fits'
<1> USE BriefTyped
<1> USE DEF Fits, Typed, TriggersFit, Places, Early, Goto, Give, CompleteTrigger, contract,
      birth, money, history, InFlight
<1>1. CASE ShellReady(o)
  BY <1>1 DEF ShellReady
<1>2. CASE WriteAgentRow(o)
  BY <1>2 DEF WriteAgentRow
<1>3. CASE TagLineage(o)
  BY <1>3 DEF TagLineage
<1>4. CASE WriteIdentity(o)
  BY <1>4 DEF WriteIdentity, Things
<1>5. CASE SkipFunding(o)
  BY <1>5 DEF SkipFunding
<1>6. CASE ClampFunding(o)
  BY <1>6 DEF ClampFunding
<1>7. CASE Signed(o)
  BY <1>7 DEF Signed
<1>8. CASE WritePayment(o)
  BY <1>8 DEF WritePayment
<1>9. CASE Settled(o)
  BY <1>9 DEF Settled
<1>10. CASE SettleFailed(o)
  BY <1>10 DEF SettleFailed
<1>11. CASE FailTests(o)
  BY <1>11 DEF FailTests, HaltPipeline
<1>12. CASE Activate(o)
  BY <1>12 DEF Activate, ActivateGenesisAgent
<1>13. CASE ActivateThrows(o)
  BY <1>13 DEF ActivateThrows, ActivateGenesisAgent
<1>14. CASE Registered(o)
  BY <1>14 DEF Registered
<1>15. CASE Throw(o)
  BY <1>15 DEF Throw
<1> QED BY <1>1, <1>2, <1>3, <1>4, <1>5, <1>6, <1>7, <1>8, <1>9, <1>10, <1>11, <1>12,
        <1>13, <1>14, <1>15 DEF Executor

LEMMA StepFits ==
  ASSUME Fits, [Next]_vars
  PROVE  Fits'
<1> USE DEF Fits, Typed, TriggersFit, Places, Early, Goto, contract, birth, money, history,
      InFlight
<1>1. CASE Graduate
  BY <1>1 DEF Graduate
<1>2. CASE NewDay
  BY <1>2 DEF NewDay
<1>3. CASE Crash
  BY <1>3 DEF Crash, Die
<1>4. ASSUME NEW o \in Opps, ApproveRefused(o) PROVE Fits'
  BY <1>4 DEF ApproveRefused
<1>5. ASSUME NEW o \in Opps, Approve(o) PROVE Fits'
  BY <1>5 DEF Approve
<1>6. ASSUME NEW o \in Opps, WindowPasses(o) PROVE Fits'
  BY <1>6 DEF WindowPasses
<1>7. ASSUME NEW o \in Opps, CrashInHalt(o) PROVE Fits'
  BY <1>7 DEF CrashInHalt, Die
<1>8. CASE UNCHANGED vars
  BY <1>8 DEF vars
<1> HIDE DEF Fits
<1> QED BY <1>1, <1>2, <1>3, <1>4, <1>5, <1>6, <1>7, <1>8, ExecutorFits DEF Next

--------------------------------------------------------------------------------
(* The contract *)

\* Steps the contract does not see.
LEMMA Unseen ==
  ASSUME UNCHANGED contract, InFlight' = InFlight
  PROVE  [Contract!TriggerNext]_(Contract!triggerVars)
BY DEF contract, Contract!triggerVars

LEMMA ExecutorKeeps ==
  ASSUME Fits, NEW o \in Opps, Executor(o)
  PROVE  [Contract!TriggerNext]_(Contract!triggerVars)
<1> USE DEF Fits, Typed, TriggersFit, Places, Early, Goto, contract
<1>1. ASSUME UNCHANGED contract, at[o] # "idle", NEW place \in Places \ {"idle"}, Goto(o, place)
      PROVE  [Contract!TriggerNext]_(Contract!triggerVars)
  BY <1>1, Unseen DEF InFlight
<1>2. ASSUME at[o] # "idle", Goto(o, "idle") PROVE o \in InFlight /\ InFlight' = InFlight \ {o}
  BY <1>2 DEF InFlight
<1>3. CASE \/ ShellReady(o) \/ WriteAgentRow(o) \/ TagLineage(o) \/ WriteIdentity(o)
           \/ ClampFunding(o) \/ Signed(o) \/ WritePayment(o) \/ Activate(o)
  BY <1>1, <1>3 DEF ShellReady, WriteAgentRow, TagLineage, WriteIdentity, ClampFunding,
     Signed, WritePayment, Activate
<1>4. CASE SkipFunding(o) \/ Settled(o)
  <2>1. at[o] \in Early /\ CompleteTrigger(o)
    BY <1>4 DEF SkipFunding, Settled
  <2>2. o \in InFlight /\ InFlight' = InFlight
    BY <2>1 DEF InFlight, CompleteTrigger
  <2>3. Contract!Complete(o)
    BY <2>1, <2>2 DEF Contract!Complete, CompleteTrigger
  <2> QED BY <2>3 DEF Contract!TriggerNext
<1>5. CASE SettleFailed(o) \/ ActivateThrows(o) \/ Throw(o)
  <2>1. /\ at[o] # "idle" /\ Goto(o, "idle") /\ UNCHANGED <<halted, stage>>
        /\ trigger' = [trigger EXCEPT ![o] = "failed"]
    BY <1>5 DEF SettleFailed, ActivateThrows, Throw
  <2>2. Contract!Fail(o)
    BY <2>1, <1>2 DEF Contract!Fail
  <2> QED BY <2>2 DEF Contract!TriggerNext
<1>6. CASE FailTests(o)
  <2>1. Contract!Halt(o)
    BY <1>6, <1>2 DEF FailTests, HaltPipeline, Contract!Halt
  <2> QED BY <2>1 DEF Contract!TriggerNext
<1>7. CASE Registered(o)
  <2>1. Contract!Return(o)
    BY <1>7, <1>2 DEF Registered, Contract!Return
  <2> QED BY <2>1 DEF Contract!TriggerNext
<1> QED BY <1>3, <1>4, <1>5, <1>6, <1>7 DEF Executor

LEMMA StepKeeps ==
  ASSUME Fits, [Next]_vars
  PROVE  [Contract!TriggerNext]_(Contract!triggerVars)
<1> USE DEF Fits, Typed, TriggersFit, Places, Early, Goto, contract
<1>1. CASE Graduate
  <2>1. Contract!Graduate
    BY <1>1 DEF Graduate, Contract!Graduate, InFlight
  <2> QED BY <2>1 DEF Contract!TriggerNext
<1>2. CASE NewDay
  BY <1>2, Unseen DEF NewDay, InFlight
<1>3. CASE Crash
  <2>1. Contract!Crash
    BY <1>3 DEF Crash, Die, Contract!Crash, InFlight
  <2> QED BY <2>1 DEF Contract!TriggerNext
<1>4. ASSUME NEW o \in Opps, ApproveRefused(o)
      PROVE  [Contract!TriggerNext]_(Contract!triggerVars)
  <2>1. Contract!FireRefused(o)
    BY <1>4 DEF ApproveRefused, Contract!FireRefused, InFlight
  <2> QED BY <2>1 DEF Contract!TriggerNext
<1>5. ASSUME NEW o \in Opps, Approve(o)
      PROVE  [Contract!TriggerNext]_(Contract!triggerVars)
  <2>1. InFlight' = InFlight \cup {o}
    BY <1>5 DEF Approve, InFlight
  <2>2. ~halted
    BY <1>5 DEF Approve, Refused
  <2>3. Contract!Fire(o)
    BY <1>5, <2>1, <2>2 DEF Approve, Contract!Fire
  <2> QED BY <2>3 DEF Contract!TriggerNext
<1>6. ASSUME NEW o \in Opps, WindowPasses(o)
      PROVE  [Contract!TriggerNext]_(Contract!triggerVars)
  BY <1>6, Unseen DEF WindowPasses, InFlight
<1>7. ASSUME NEW o \in Opps, CrashInHalt(o)
      PROVE  [Contract!TriggerNext]_(Contract!triggerVars)
  <2>1. o \in InFlight /\ InFlight' = {}
    BY <1>7 DEF CrashInHalt, Die, InFlight
  <2>2. Contract!HaltInterrupted(o)
    BY <1>7, <2>1 DEF CrashInHalt, Contract!HaltInterrupted
  <2> QED BY <2>2 DEF Contract!TriggerNext
<1>8. CASE UNCHANGED vars
  BY <1>8, Unseen DEF vars, InFlight
<1> HIDE DEF Fits
<1> QED BY <1>1, <1>2, <1>3, <1>4, <1>5, <1>6, <1>7, <1>8, ExecutorKeeps DEF Next

\* Executors side by side, cut at their awaits, failing and dying anywhere, do to
\* triggers, breaker and rollout stage only what the contract says: what is shown of
\* Expansion over the contract holds over this executor.
THEOREM ExecutorKeepsContract == Spec => KeepsContract
<1>1. Init => Contract!TriggerInit
  <2> SUFFICES ASSUME Init PROVE Contract!TriggerInit
    OBVIOUS
  <2>1. InFlight = {}
    BY DEF Init, InFlight
  <2> QED BY <2>1 DEF Init, Contract!TriggerInit
<1> QED BY <1>1, InitFits, StepFits, StepKeeps, PTL DEF Spec, KeepsContract, Contract!TriggerSpec

--------------------------------------------------------------------------------
(* The daily cap on companies *)

\* Executors that passed the cap and have not yet tagged the row it counts.
Uncounted == {o \in Opps : at[o] \in {"shell", "wallet", "manifest"}}

\* As long as approvals do not overlap there is at most one of those, and with it
\* the cap is kept too.
SpawnsFit ==
  crowded \/ Cardinality(recent \cap Tagged) + Cardinality(Uncounted) <= MaxSpawns

LEMMA OppsCounted ==
  ASSUME NEW S \in SUBSET Opps
  PROVE  IsFiniteSet(S) /\ Cardinality(S) \in Nat
BY GenesisAssumption, FS_Subset, FS_CardinalityType

\* Steps that tag nothing and approve nothing.
LEMMA SpawnsShrink ==
  ASSUME Fits, SpawnsFit, crowded' = crowded, recent' \cap Tagged' \subseteq recent \cap Tagged,
         Uncounted' \subseteq Uncounted
  PROVE  SpawnsFit'
<1>1. /\ recent \cap Tagged \in SUBSET Opps /\ recent' \cap Tagged' \in SUBSET Opps
      /\ Uncounted \in SUBSET Opps /\ Uncounted' \in SUBSET Opps
  BY DEF Tagged, Uncounted
<1>2. /\ Cardinality(recent' \cap Tagged') <= Cardinality(recent \cap Tagged)
      /\ Cardinality(Uncounted') <= Cardinality(Uncounted)
  BY <1>1, OppsCounted, FS_Subset
<1>3. /\ Cardinality(recent \cap Tagged) \in Nat /\ Cardinality(recent' \cap Tagged') \in Nat
      /\ Cardinality(Uncounted) \in Nat /\ Cardinality(Uncounted') \in Nat
  BY <1>1, OppsCounted
<1> QED BY <1>2, <1>3, GenesisAssumption DEF SpawnsFit

\* An approval finds the cap free and, unless it is crowded, nobody uncounted.
LEMMA ApproveCounted ==
  ASSUME Fits, NEW o \in Opps, Approve(o)
  PROVE  SpawnsFit'
<1> USE DEF Fits, Typed, Goto, birth
<1>1. SUFFICES ASSUME ~crowded' PROVE SpawnsFit'
  BY DEF SpawnsFit
<1>2. Uncounted' = {o}
  BY <1>1 DEF Approve, Uncounted
<1>3. recent' \cap Tagged' = recent \cap Tagged
  BY DEF Approve, Tagged
<1>4. recent \cap Tagged \in SUBSET Opps
  BY DEF Tagged
<1>5. Cardinality(recent \cap Tagged) \in Nat /\ Cardinality(Uncounted') = 1
  BY <1>2, <1>4, OppsCounted, FS_Singleton
<1>6. Cardinality(recent \cap Tagged) < MaxSpawns
  <2>1. ~(Cardinality(recent \cap Tagged) >= MaxSpawns)
    BY DEF Approve, Refused, SpawnedInWindow
  <2> QED BY <2>1, <1>5, GenesisAssumption
<1>7. /\ Cardinality(recent' \cap Tagged') \in Nat
      /\ Cardinality(recent' \cap Tagged') < MaxSpawns
  BY <1>3, <1>5, <1>6
<1>8. Cardinality(recent' \cap Tagged') + Cardinality(Uncounted') <= MaxSpawns
  BY <1>5, <1>7, GenesisAssumption
<1> QED BY <1>8 DEF SpawnsFit

\* The uncounted company is counted in the same step.
LEMMA TagCounted ==
  ASSUME Fits, SpawnsFit, NEW o \in Opps, TagLineage(o)
  PROVE  SpawnsFit'
<1> USE DEF Fits, Typed, Goto, history
<1>1. o \in Uncounted /\ Uncounted' = Uncounted \ {o}
  BY DEF TagLineage, Uncounted
<1>2. recent' \cap Tagged' \subseteq (recent \cap Tagged) \cup {o}
  BY DEF TagLineage, Tagged
<1>3. Uncounted \in SUBSET Opps /\ recent \cap Tagged \in SUBSET Opps
  BY DEF Uncounted, Tagged
<1>4. Cardinality(Uncounted') = Cardinality(Uncounted) - 1
  BY <1>1, <1>3, OppsCounted, FS_RemoveElement
<1>5. /\ IsFiniteSet((recent \cap Tagged) \cup {o})
      /\ Cardinality((recent \cap Tagged) \cup {o}) <= Cardinality(recent \cap Tagged) + 1
  <2>1. IsFiniteSet(recent \cap Tagged) /\ Cardinality(recent \cap Tagged) \in Nat
    BY <1>3, OppsCounted
  <2>2. /\ IsFiniteSet((recent \cap Tagged) \cup {o})
        /\ Cardinality((recent \cap Tagged) \cup {o}) \in
             {Cardinality(recent \cap Tagged), Cardinality(recent \cap Tagged) + 1}
    BY <2>1, FS_AddElement
  <2> QED BY <2>1, <2>2
<1>6. Cardinality(recent' \cap Tagged') <= Cardinality((recent \cap Tagged) \cup {o})
  BY <1>2, <1>5, FS_Subset
<1>7. /\ Cardinality(Uncounted) \in Nat /\ Cardinality(recent \cap Tagged) \in Nat
      /\ Cardinality(recent' \cap Tagged') \in Nat
      /\ Cardinality((recent \cap Tagged) \cup {o}) \in Nat
  BY <1>2, <1>3, <1>5, OppsCounted, FS_CardinalityType, FS_Subset
<1>8. crowded' = crowded
  BY DEF TagLineage
<1> QED BY <1>4, <1>5, <1>6, <1>7, <1>8, GenesisAssumption DEF SpawnsFit

LEMMA StepCounted ==
  ASSUME Fits, SpawnsFit, [Next]_vars
  PROVE  SpawnsFit'
<1> USE DEF Fits, Typed, Places, Goto, birth, money, history, contract
<1>1. ASSUME NEW o \in Opps, Executor(o), ~TagLineage(o) PROVE SpawnsFit'
  <2> USE DEF Uncounted, Tagged
  <2>1. CASE \/ ShellReady(o) \/ WriteAgentRow(o)
    BY <2>1, SpawnsShrink DEF ShellReady, WriteAgentRow
  <2>2. CASE WriteIdentity(o) \/ SkipFunding(o) \/ ClampFunding(o) \/ Signed(o)
    BY <2>2, SpawnsShrink DEF WriteIdentity, SkipFunding, ClampFunding, Signed, CompleteTrigger
  <2>3. CASE WritePayment(o) \/ Settled(o) \/ SettleFailed(o)
    BY <2>3, SpawnsShrink DEF WritePayment, Settled, SettleFailed, CompleteTrigger
  <2>4. CASE FailTests(o) \/ Activate(o) \/ ActivateThrows(o)
    <3>1. company[o] = "pending"
      BY <2>4 DEF TriggersFit, FailTests, Activate, ActivateThrows
    <3> QED BY <2>4, <3>1, SpawnsShrink
            DEF FailTests, Activate, ActivateThrows, ActivateGenesisAgent
  <2>5. CASE Registered(o) \/ Throw(o)
    BY <2>5, SpawnsShrink DEF Registered, Throw
  <2> QED BY <1>1, <2>1, <2>2, <2>3, <2>4, <2>5 DEF Executor
<1>2. CASE Graduate \/ NewDay \/ Crash \/ UNCHANGED vars
  BY <1>2, SpawnsShrink DEF Graduate, NewDay, Crash, Die, vars, Uncounted, Tagged
<1>3. ASSUME NEW o \in Opps, ApproveRefused(o) \/ WindowPasses(o) \/ CrashInHalt(o)
      PROVE  SpawnsFit'
  BY <1>3, SpawnsShrink DEF ApproveRefused, WindowPasses, CrashInHalt, Die, Uncounted, Tagged
<1> HIDE DEF Fits
<1> QED BY <1>1, <1>2, <1>3, ApproveCounted, TagCounted DEF Next, Executor

\* The cap is checked three awaits before the row it counts is tagged, and still holds
\* as long as no approval comes in between.
THEOREM SpawnCapKept == Spec => []SpawnCapHolds
<1>1. Init => SpawnsFit
  <2> SUFFICES ASSUME Init PROVE SpawnsFit
    OBVIOUS
  <2>1. recent \cap Tagged = {} /\ Uncounted = {}
    BY DEF Init, Uncounted
  <2> QED BY <2>1, FS_EmptySet, GenesisAssumption DEF SpawnsFit
<1>2. Fits /\ SpawnsFit => SpawnCapHolds
  <2> SUFFICES ASSUME Fits, SpawnsFit PROVE SpawnCapHolds
    OBVIOUS
  <2>1. recent \cap Tagged \in SUBSET Opps /\ Uncounted \in SUBSET Opps
    BY DEF Tagged, Uncounted
  <2>2. Cardinality(recent \cap Tagged) \in Nat /\ Cardinality(Uncounted) \in Nat
    BY <2>1, OppsCounted
  <2> QED BY <2>2, GenesisAssumption DEF SpawnsFit, SpawnCapHolds, SpawnedInWindow
<1> QED BY <1>1, <1>2, InitFits, StepFits, StepCounted, PTL DEF Spec

--------------------------------------------------------------------------------
(* What a trigger tells *)

\* What is true of o at each await, and of what is left when its executor ended.
OutcomeFits(o) ==
  /\ at[o] \notin {"idle", "register"} \/ trigger[o] = "none" => o \notin started
  /\ at[o] \in {"prompt", "sign", "check", "chain", "tick", "register"} => "identity" \in born[o]
  /\ at[o] \in {"sign", "check", "chain", "tick", "register"} => Brief(o) \subseteq born[o]
  /\ at[o] \in {"tick", "register"} => Grants(o) \subseteq born[o]
  /\ born[o] \subseteq Outfit(o)
  /\ at[o] = "register" => company[o] = "active" /\ o \in started \cap passed
  /\ at[o] = "idle" /\ o \notin cut =>
       /\ trigger[o] = "completed" =>
            \/ InOperation(o)
            \/ company[o] = "failed" /\ halted /\ o \notin started
       /\ trigger[o] = "failed" => o \notin started \/ InOperation(o)
       /\ trigger[o] # "pending"

\* A step of one executor leaves what the others have and does not lift a halt.
LEMMA OthersFit ==
  ASSUME NEW o \in Opps, OutcomeFits(o), halted => halted', cut \subseteq cut',
         at'[o] = at[o], trigger'[o] = trigger[o], born'[o] = born[o],
         company'[o] = company[o], o \in started' <=> o \in started,
         o \in passed => o \in passed'
  PROVE  OutcomeFits(o)'
BY DEF OutcomeFits, InOperation, Outfit, Brief, Grants

LEMMA ExecutorTells ==
  ASSUME Fits, NEW o \in Opps, OutcomeFits(o), Executor(o)
  PROVE  OutcomeFits(o)'
<1> USE DEF Fits, Typed, Places, Goto, Give, CompleteTrigger, contract, birth, money, history
<1>1. CASE ShellReady(o) \/ WriteAgentRow(o) \/ TagLineage(o)
  BY <1>1 DEF ShellReady, WriteAgentRow, TagLineage, OutcomeFits
<1>2. CASE WriteIdentity(o)
  BY <1>2 DEF WriteIdentity, OutcomeFits, InOperation, Outfit
<1>3. CASE SkipFunding(o)
  BY <1>3, BriefTyped DEF SkipFunding, OutcomeFits, InOperation, Outfit
<1>4. CASE ClampFunding(o)
  BY <1>4, BriefTyped DEF ClampFunding, OutcomeFits, InOperation, Outfit
<1>5. CASE Signed(o) \/ WritePayment(o)
  BY <1>5 DEF Signed, WritePayment, OutcomeFits
<1>6. CASE Settled(o)
  BY <1>6, BriefTyped DEF Settled, OutcomeFits, InOperation, Outfit
<1>7. CASE SettleFailed(o)
  BY <1>7 DEF SettleFailed, OutcomeFits
<1>8. CASE FailTests(o)
  BY <1>8 DEF FailTests, HaltPipeline, OutcomeFits, InOperation, TriggersFit
<1>9. CASE Activate(o)
  BY <1>9 DEF Activate, ActivateGenesisAgent, OutcomeFits, InOperation, TriggersFit
<1>10. CASE ActivateThrows(o)
  BY <1>10 DEF ActivateThrows, ActivateGenesisAgent, OutcomeFits, InOperation, Outfit, TriggersFit
<1>11. CASE Registered(o)
  BY <1>11 DEF Registered, OutcomeFits, InOperation, TriggersFit, Outfit
<1>12. CASE Throw(o)
  BY <1>12, BriefTyped DEF Throw, OutcomeFits, InOperation, Outfit
<1> QED BY <1>1, <1>2, <1>3, <1>4, <1>5, <1>6, <1>7, <1>8, <1>9, <1>10, <1>11, <1>12
        DEF Executor

\* An executor changes nothing of another.
LEMMA ExecutorAlone ==
  ASSUME Fits, NEW o \in Opps, NEW p \in Opps \ {o}, OutcomeFits(p), Executor(o)
  PROVE  OutcomeFits(p)'
<1> USE DEF Fits, Typed, Places, Goto, Give, CompleteTrigger, contract, birth, money, history
<1>1. CASE ShellReady(o) \/ WriteAgentRow(o) \/ TagLineage(o) \/ WriteIdentity(o)
  BY <1>1, OthersFit DEF ShellReady, WriteAgentRow, TagLineage, WriteIdentity
<1>2. CASE SkipFunding(o) \/ ClampFunding(o) \/ Signed(o) \/ WritePayment(o)
  BY <1>2, OthersFit DEF SkipFunding, ClampFunding, Signed, WritePayment
<1>3. CASE Settled(o) \/ SettleFailed(o) \/ Registered(o) \/ Throw(o)
  BY <1>3, OthersFit DEF Settled, SettleFailed, Registered, Throw
<1>4. CASE FailTests(o) \/ Activate(o) \/ ActivateThrows(o)
  BY <1>4, OthersFit DEF FailTests, HaltPipeline, Activate, ActivateThrows,
     ActivateGenesisAgent
<1> QED BY <1>1, <1>2, <1>3, <1>4 DEF Executor

LEMMA StepTells ==
  ASSUME Fits, \A p \in Opps : OutcomeFits(p), [Next]_vars
  PROVE  \A p \in Opps : OutcomeFits(p)'
<1> SUFFICES ASSUME NEW p \in Opps PROVE OutcomeFits(p)'
  OBVIOUS
<1> USE DEF Fits, Typed, Places, Goto, contract, birth, money, history
<1>1. ASSUME NEW o \in Opps, Executor(o) PROVE OutcomeFits(p)'
  <2> HIDE DEF Fits
  <2>1. CASE p = o
    BY <1>1, <2>1, ExecutorTells
  <2>2. CASE p # o
    BY <1>1, <2>2, ExecutorAlone
  <2> QED BY <2>1, <2>2
<1>2. CASE Graduate \/ NewDay \/ UNCHANGED vars
  BY <1>2, OthersFit DEF Graduate, NewDay, vars
<1>3. ASSUME Die, UNCHANGED trigger, halted => halted' PROVE OutcomeFits(p)'
  <2>1. CASE at[p] = "idle"
    BY <1>3, <2>1, OthersFit DEF Die
  <2>2. CASE at[p] # "idle"
    BY <1>3, <2>2 DEF Die, InFlight, OutcomeFits, InOperation, TriggersFit, Early, Outfit
  <2> QED BY <2>1, <2>2
<1>4. CASE Crash
  BY <1>3, <1>4 DEF Crash
<1>5. ASSUME NEW o \in Opps, CrashInHalt(o) PROVE OutcomeFits(p)'
  BY <1>3, <1>5 DEF CrashInHalt
<1>6. ASSUME NEW o \in Opps, ApproveRefused(o) PROVE OutcomeFits(p)'
  <2>1. CASE p = o
    BY <1>6, <2>1 DEF ApproveRefused, OutcomeFits, InOperation, TriggersFit, Early, Outfit
  <2>2. CASE p # o
    BY <1>6, <2>2, OthersFit DEF ApproveRefused
  <2> QED BY <2>1, <2>2
<1>7. ASSUME NEW o \in Opps, Approve(o) PROVE OutcomeFits(p)'
  <2>1. CASE p = o
    BY <1>7, <2>1 DEF Approve, OutcomeFits, InOperation, Outfit
  <2>2. CASE p # o
    BY <1>7, <2>2, OthersFit DEF Approve
  <2> QED BY <2>1, <2>2
<1>8. ASSUME NEW o \in Opps, WindowPasses(o) PROVE OutcomeFits(p)'
  BY <1>8, OthersFit DEF WindowPasses
<1> QED BY <1>1, <1>2, <1>4, <1>5, <1>6, <1>7, <1>8 DEF Next

\* Whichever of its awaits an executor fails at, and whatever the others do, the
\* trigger's last status tells what became of the company.
THEOREM TriggersTell == Spec => []TriggerTellsOutcome
<1>1. Init => \A p \in Opps : OutcomeFits(p)
  BY DEF Init, OutcomeFits
<1>2. (\A p \in Opps : OutcomeFits(p)) => TriggerTellsOutcome
  BY DEF OutcomeFits, InOperation, TriggerTellsOutcome, InFlight
<1> DEFINE Tell == \A p \in Opps : OutcomeFits(p)
<1>3. Fits /\ Tell /\ [Next]_vars => Tell'
  BY StepTells
<1> HIDE DEF Tell
<1> QED BY <1>1, <1>2, <1>3, InitFits, StepFits, PTL DEF Spec, Tell

--------------------------------------------------------------------------------
(* Sums of amounts.  MapThenSumSet is a fold over CHOSEn elements; induction *)
(* over the size of a set shows that the order does not matter.              *)

Pick(s) == CHOOSE x \in s : TRUE
Total(A, S) == MapThenSumSet(LAMBDA o : A[o], S)

\* The function the fold is an application of.
Sums(A, S, f) ==
  f = [s \in SUBSET S |-> IF s = {} THEN 0 ELSE A[Pick(s)] + f[s \ {Pick(s)}]]

\* Induction on the natural numbers, as a fact about sets.
LEMMA Induction ==
  ASSUME NEW T \in SUBSET Nat, 0 \in T, \A n \in T : n + 1 \in T
  PROVE  T = Nat
<1> DEFINE R == {ss \in Nat \X Nat : ss[1] < ss[2]}
           F == Nat \ T
<1>1. IsWellFoundedOn(R, Nat)
  BY NatLessThanWellFounded DEF OpToRel
<1>2. SUFFICES ASSUME F # {} PROVE FALSE
  OBVIOUS
<1>3. PICK m \in F : \A k \in F : <<k, m>> \notin R
  <2>1. F \subseteq Nat
    OBVIOUS
  <2> HIDE DEF R, F
  <2> QED BY <1>1, <1>2, <2>1, WFMin
<1>4. m # 0 /\ m - 1 \in Nat /\ m - 1 < m
  BY <1>3
<1>5. m - 1 \in T
  BY <1>3, <1>4
<1> QED BY <1>3, <1>4, <1>5

\* A subset of the opportunities and what is left when one is picked.
LEMMA Picked ==
  ASSUME NEW s \in SUBSET Opps
  PROVE  /\ IsFiniteSet(s) /\ Cardinality(s) \in Nat
         /\ s # {} => Pick(s) \in s
         /\ \A x \in s : Cardinality(s \ {x}) = Cardinality(s) - 1 /\ Cardinality(s) # 0
<1>1. IsFiniteSet(s) /\ Cardinality(s) \in Nat
  BY OppsCounted
<1>2. ASSUME NEW x \in s PROVE Cardinality(s \ {x}) = Cardinality(s) - 1 /\ Cardinality(s) # 0
  <2>1. Cardinality(s \ {x}) = Cardinality(s) - 1
    BY <1>1, FS_RemoveElement
  <2>2. Cardinality(s) # 0
    BY <1>1, FS_EmptySet
  <2> QED BY <2>1, <2>2
<1> QED BY <1>1, <1>2 DEF Pick

LEMMA NoneLeft ==
  ASSUME NEW s \in SUBSET Opps, Cardinality(s) <= 0
  PROVE  s = {}
<1>1. IsFiniteSet(s) /\ Cardinality(s) = 0
  BY OppsCounted
<1> QED BY <1>1, FS_EmptySet

\* The recursion of the fold has a solution.
LEMMA SumsExist ==
  ASSUME NEW A \in [Opps -> Nat], NEW S \in SUBSET Opps
  PROVE  \E f \in [SUBSET S -> Nat] : Sums(A, S, f)
<1> DEFINE Eq(f, s) == f[s] = IF s = {} THEN 0 ELSE A[Pick(s)] + f[s \ {Pick(s)}]
           T == {n \in Nat : \E f \in [SUBSET S -> Nat] :
                   \A s \in SUBSET S : Cardinality(s) <= n => Eq(f, s)}
<1>1. 0 \in T
  <2> DEFINE f == [s \in SUBSET S |-> 0]
  <2>1. \A s \in SUBSET S : Cardinality(s) <= 0 => s = {}
    BY NoneLeft
  <2>2. \A s \in SUBSET S : Cardinality(s) <= 0 => Eq(f, s)
    BY <2>1
  <2>3. f \in [SUBSET S -> Nat]
    OBVIOUS
  <2> HIDE DEF f, Eq
  <2> QED BY <2>2, <2>3
<1>2. ASSUME NEW n \in T PROVE n + 1 \in T
  <2>1. PICK f \in [SUBSET S -> Nat] : \A s \in SUBSET S : Cardinality(s) <= n => Eq(f, s)
    OBVIOUS
  <2> DEFINE g == [s \in SUBSET S |-> IF s = {} THEN 0 ELSE A[Pick(s)] + f[s \ {Pick(s)}]]
  <2>2. g \in [SUBSET S -> Nat]
    <3>1. \A s \in SUBSET S : s # {} => A[Pick(s)] \in Nat /\ f[s \ {Pick(s)}] \in Nat
      BY Picked
    <3> QED BY <3>1
  <2>3. ASSUME NEW s \in SUBSET S, Cardinality(s) <= n + 1 PROVE Eq(g, s)
    <3>1. CASE s = {}
      BY <3>1
    <3>2. CASE s # {}
      <4> DEFINE r == s \ {Pick(s)}
      <4>1. r \in SUBSET S /\ Cardinality(r) <= n
        BY <2>3, <3>2, Picked
      <4>2. g[r] = f[r]
        BY <2>1, <4>1
      <4>3. g[s] = A[Pick(s)] + f[r]
        BY <3>2
      <4> QED BY <3>2, <4>2, <4>3
    <3> QED BY <3>1, <3>2
  <2> HIDE DEF g, Eq
  <2> QED BY <2>2, <2>3
<1>3. T = Nat
  <2>1. T \subseteq Nat
    OBVIOUS
  <2> HIDE DEF T
  <2> QED BY <1>1, <1>2, <2>1, Induction
<1>4. \A s \in SUBSET S : Cardinality(s) <= Cardinality(S)
  BY OppsCounted, FS_Subset
<1>5. PICK f \in [SUBSET S -> Nat] : \A s \in SUBSET S : Eq(f, s)
  <2>1. Cardinality(S) \in T
    BY <1>3, OppsCounted
  <2> HIDE DEF Eq
  <2> QED BY <1>4, <2>1
<1> QED BY <1>5 DEF Sums

\* Two solutions agree where both are defined.
LEMMA SumsAgree ==
  ASSUME NEW A \in [Opps -> Nat], NEW S \in SUBSET Opps, NEW R \in SUBSET S,
         NEW f, NEW g, Sums(A, S, f), Sums(A, R, g)
  PROVE  \A s \in SUBSET R : f[s] = g[s]
<1> DEFINE T == {n \in Nat : \A s \in SUBSET R : Cardinality(s) <= n => f[s] = g[s]}
<1>1. /\ \A s \in SUBSET R : f[s] = IF s = {} THEN 0 ELSE A[Pick(s)] + f[s \ {Pick(s)}]
      /\ \A s \in SUBSET R : g[s] = IF s = {} THEN 0 ELSE A[Pick(s)] + g[s \ {Pick(s)}]
  <2>1. \A s \in SUBSET S : f[s] = IF s = {} THEN 0 ELSE A[Pick(s)] + f[s \ {Pick(s)}]
    BY DEF Sums
  <2>2. \A s \in SUBSET R : g[s] = IF s = {} THEN 0 ELSE A[Pick(s)] + g[s \ {Pick(s)}]
    BY DEF Sums
  <2> QED BY <2>1, <2>2
<1>2. 0 \in T
  <2>1. \A s \in SUBSET R : Cardinality(s) <= 0 => s = {}
    BY NoneLeft
  <2> QED BY <1>1, <2>1
<1>3. ASSUME NEW n \in T PROVE n + 1 \in T
  <2>1. ASSUME NEW s \in SUBSET R, Cardinality(s) <= n + 1 PROVE f[s] = g[s]
    <3>1. CASE s = {}
      BY <1>1, <3>1
    <3>2. CASE s # {}
      <4> DEFINE r == s \ {Pick(s)}
      <4>1. r \in SUBSET R /\ Cardinality(r) <= n
        BY <2>1, <3>2, Picked
      <4>2. f[r] = g[r]
        BY <4>1
      <4> QED BY <1>1, <3>2, <4>2
    <3> QED BY <3>1, <3>2
  <2> QED BY <2>1
<1>4. T = Nat
  <2>1. T \subseteq Nat
    OBVIOUS
  <2> HIDE DEF T
  <2> QED BY <1>2, <1>3, <2>1, Induction
<1>5. SUFFICES ASSUME NEW s \in SUBSET R PROVE f[s] = g[s]
  OBVIOUS
<1>6. Cardinality(s) \in Nat /\ Cardinality(s) <= Cardinality(s)
  BY Picked
<1> QED BY <1>4, <1>6

\* What the fold computes: nothing for nothing, else the picked amount and the
\* total of the rest.
LEMMA TotalUnfolds ==
  ASSUME NEW A \in [Opps -> Nat], NEW S \in SUBSET Opps
  PROVE  /\ Total(A, S) \in Nat
         /\ S = {} => Total(A, S) = 0
         /\ S # {} => Total(A, S) = A[Pick(S)] + Total(A, S \ {Pick(S)})
<1> DEFINE F(R) == CHOOSE f : Sums(A, R, f)
<1>1. \A R : Total(A, R) = F(R)[R]
  BY DEF Total, Sums, Pick, MapThenSumSet, MapThenFoldSet
<1>2. \A R \in SUBSET Opps : Sums(A, R, F(R))
  BY SumsExist
<1> HIDE DEF F
<1>3. PICK f \in [SUBSET S -> Nat] : Sums(A, S, f)
  BY SumsExist
<1>4. ASSUME NEW R \in SUBSET S PROVE Total(A, R) = f[R]
  <2>1. f[R] = F(R)[R]
    BY <1>2, <1>3, SumsAgree
  <2> QED BY <1>1, <2>1
<1>5. f[S] = IF S = {} THEN 0 ELSE A[Pick(S)] + f[S \ {Pick(S)}]
  BY <1>3 DEF Sums
<1>6. Total(A, S) = f[S] /\ Total(A, S \ {Pick(S)}) = f[S \ {Pick(S)}] /\ f[S] \in Nat
  BY <1>3, <1>4
<1> QED BY <1>5, <1>6

\* Any element may be taken out first.
LEMMA TotalTakes ==
  ASSUME NEW A \in [Opps -> Nat]
  PROVE  \A S \in SUBSET Opps : \A x \in S : Total(A, S) = A[x] + Total(A, S \ {x})
<1> DEFINE T == {n \in Nat : \A S \in SUBSET Opps : Cardinality(S) <= n =>
                    \A x \in S : Total(A, S) = A[x] + Total(A, S \ {x})}
<1>1. 0 \in T
  <2>1. \A S \in SUBSET Opps : Cardinality(S) <= 0 => S = {}
    BY NoneLeft
  <2> QED BY <2>1
<1>2. ASSUME NEW n \in T PROVE n + 1 \in T
  <2>1. ASSUME NEW S \in SUBSET Opps, Cardinality(S) <= n + 1, NEW x \in S
        PROVE  Total(A, S) = A[x] + Total(A, S \ {x})
    <3> DEFINE p == Pick(S)
    <3>1. p \in S /\ Total(A, S) = A[p] + Total(A, S \ {p})
      BY TotalUnfolds, Picked
    <3> HIDE DEF p
    <3>2. CASE p = x
      BY <3>1, <3>2
    <3>3. CASE p # x
      <4> DEFINE R == (S \ {p}) \ {x}
      <4>1. /\ Cardinality(S \ {p}) <= n /\ Cardinality(S \ {x}) <= n
        BY <2>1, <3>1, Picked
      <4>2. Total(A, S \ {p}) = A[x] + Total(A, R)
        BY <3>3, <4>1
      <4>3. (S \ {x}) \ {p} = R /\ S \ {x} \in SUBSET Opps /\ p \in S \ {x}
        BY <3>1, <3>3
      <4>4. Total(A, S \ {x}) = A[p] + Total(A, (S \ {x}) \ {p})
        BY <4>1, <4>3
      <4>5. A[x] \in Nat /\ A[p] \in Nat /\ Total(A, R) \in Nat
        BY <3>1, TotalUnfolds
      <4>6. Total(A, S \ {x}) = A[p] + Total(A, R)
        BY <4>3, <4>4
      <4> HIDE DEF R
      <4> QED BY <3>1, <4>2, <4>5, <4>6
    <3> QED BY <3>2, <3>3
  <2> QED BY <2>1
<1>3. T = Nat
  <2>1. T \subseteq Nat
    OBVIOUS
  <2> HIDE DEF T
  <2> QED BY <1>1, <1>2, <2>1, Induction
<1>4. SUFFICES ASSUME NEW S \in SUBSET Opps, NEW x \in S
               PROVE  Total(A, S) = A[x] + Total(A, S \ {x})
  OBVIOUS
<1>5. Cardinality(S) \in Nat /\ Cardinality(S) <= Cardinality(S)
  BY Picked
<1> QED BY <1>3, <1>5

\* One more.
LEMMA TotalAdds ==
  ASSUME NEW A \in [Opps -> Nat], NEW S \in SUBSET Opps, NEW x \in Opps, x \notin S
  PROVE  Total(A, S \cup {x}) = A[x] + Total(A, S)
<1>1. S \cup {x} \in SUBSET Opps /\ x \in S \cup {x} /\ (S \cup {x}) \ {x} = S
  OBVIOUS
<1> QED BY <1>1, TotalTakes

\* Fewer cost no more, and only the amounts of the set count.
LEMMA TotalShrinks ==
  ASSUME NEW A \in [Opps -> Nat], NEW B \in [Opps -> Nat], NEW R \in SUBSET Opps,
         \A x \in R : A[x] = B[x]
  PROVE  \A S \in SUBSET R : Total(A, S) <= Total(B, R)
<1> DEFINE T == {n \in Nat : \A Q \in SUBSET R : Cardinality(Q) <= n =>
                    \A S \in SUBSET Q : Total(A, S) <= Total(B, Q)}
<1>1. 0 \in T
  <2>1. ASSUME NEW Q \in SUBSET R, Cardinality(Q) <= 0, NEW S \in SUBSET Q
        PROVE  Total(A, S) <= Total(B, Q)
    <3>1. Q = {} /\ S = {}
      BY <2>1, NoneLeft
    <3>2. Total(A, S) = 0 /\ Total(B, Q) = 0
      BY <3>1, TotalUnfolds
    <3> QED BY <3>2
  <2> QED BY <2>1
<1>2. ASSUME NEW n \in T PROVE n + 1 \in T
  <2>1. ASSUME NEW Q \in SUBSET R, Cardinality(Q) <= n + 1, NEW S \in SUBSET Q
        PROVE  Total(A, S) <= Total(B, Q)
    <3>1. CASE Q = {}
      <4>1. S = {}
        BY <3>1
      <4>2. Total(A, S) = 0 /\ Total(B, Q) = 0
        BY <3>1, <4>1, TotalUnfolds
      <4> QED BY <4>2
    <3>2. ASSUME NEW x \in Q PROVE Total(A, S) <= Total(B, Q)
      <4>1. Total(B, Q) = B[x] + Total(B, Q \ {x}) /\ Cardinality(Q \ {x}) <= n
        BY <2>1, <3>2, TotalTakes, Picked
      <4>2. Total(A, S \ {x}) <= Total(B, Q \ {x})
        BY <4>1
      <4>3. /\ Total(A, S \ {x}) \in Nat /\ Total(B, Q \ {x}) \in Nat
            /\ A[x] \in Nat /\ B[x] = A[x]
        BY TotalUnfolds
      <4>4. CASE x \in S
        <5>1. Total(A, S) = A[x] + Total(A, S \ {x})
          BY <4>4, TotalTakes
        <5> QED BY <4>1, <4>2, <4>3, <5>1
      <4>5. CASE x \notin S
        <5>1. S \ {x} = S
          BY <4>5
        <5> QED BY <4>1, <4>2, <4>3, <5>1
      <4> QED BY <4>4, <4>5
    <3> QED BY <3>1, <3>2
  <2> QED BY <2>1
<1>3. T = Nat
  <2>1. T \subseteq Nat
    OBVIOUS
  <2> HIDE DEF T
  <2> QED BY <1>1, <1>2, <2>1, Induction
<1>4. Cardinality(R) \in Nat /\ Cardinality(R) <= Cardinality(R)
  BY Picked
<1> QED BY <1>3, <1>4

--------------------------------------------------------------------------------
(* What leaves the root's wallet *)

\* What getTotalPipelineFundingDisbursedUsdc counts, and the fundings cut to size
\* whose payments row is not yet there.
Paid == {o \in Opps : pay[o] \in {"pending", "settled"}}
Clamped == {o \in Opps : at[o] \in {"sign", "check"}}

MoneyTyped ==
  /\ pay \in [Opps -> {"none", "pending", "settled", "failed"}]
  /\ amount \in [Opps -> Nat]
  /\ sent \subseteq Opps /\ today \subseteq Opps

\* The payments row is written after the checks of the signature, once, and the
\* transfer after it.
PaymentFits(o) ==
  /\ pay[o] # "none" => trigger[o] # "none" /\ at[o] \in {"idle", "chain", "tick", "register"}
  /\ at[o] = "chain" => pay[o] = "pending"
  /\ o \in sent => pay[o] \in {"settled", "failed"}

PaymentsFit == MoneyTyped /\ \A o \in Opps : PaymentFits(o)

\* Within both caps if every funding that was cut to size is paid.
CapsFit ==
  \/ raced
  \/ /\ Total(amount, Paid \cup Clamped) <= PortfolioCap
     /\ Total(amount, (Paid \cap today) \cup Clamped) <= PerDay

\* What fundGenesisCompany settles on.
LEMMA FundingTyped ==
  ASSUME amount \in [Opps -> Nat], today \subseteq Opps, NEW o \in Opps
  PROVE  /\ Funding(o) \in Nat
         /\ Funding(o) <= Room(PortfolioCap, Total(amount, Paid))
         /\ Funding(o) <= Room(PerDay, Total(amount, Paid \cap today))
<1>1. /\ Disbursed(Opps) = Total(amount, Paid)
      /\ Disbursed(today) = Total(amount, {p \in today : pay[p] \in {"pending", "settled"}})
  BY DEF Disbursed, Total, Paid
<1>2. {p \in today : pay[p] \in {"pending", "settled"}} = Paid \cap today
  BY DEF Paid
<1>3. Paid \in SUBSET Opps /\ Paid \cap today \in SUBSET Opps
  BY DEF Paid
<1>4. Total(amount, Paid) \in Nat /\ Total(amount, Paid \cap today) \in Nat
  BY <1>3, TotalUnfolds
<1> DEFINE a == Room(PortfolioCap, Total(amount, Paid))
           b == Room(PerDay, Total(amount, Paid \cap today))
           c == Smaller(Recommended[o], PerCall)
<1>5. a \in Nat /\ b \in Nat /\ c \in Nat
  BY <1>4, GenesisAssumption DEF Room, Smaller
<1>6. Funding(o) = Smaller(c, Smaller(b, a))
  BY <1>1, <1>2 DEF Funding
<1> HIDE DEF a, b, c
<1>7. Funding(o) \in Nat /\ Funding(o) <= a /\ Funding(o) <= b
  BY <1>5, <1>6 DEF Smaller
<1> QED BY <1>7 DEF a, b

LEMMA InitPays == Init => PaymentsFit /\ CapsFit
<1> SUFFICES ASSUME Init PROVE PaymentsFit /\ CapsFit
  OBVIOUS
<1>1. PaymentsFit
  BY DEF Init, PaymentsFit, MoneyTyped, PaymentFits
<1>2. Paid \cup Clamped = {} /\ (Paid \cap today) \cup Clamped = {} /\ {} \in SUBSET Opps
  BY DEF Init, Paid, Clamped
<1>3. amount \in [Opps -> Nat]
  BY <1>1 DEF PaymentsFit, MoneyTyped
<1>4. /\ Total(amount, Paid \cup Clamped) = 0
      /\ Total(amount, (Paid \cap today) \cup Clamped) = 0
  BY <1>2, <1>3, TotalUnfolds
<1>5. 0 <= PortfolioCap /\ 0 <= PerDay
  BY GenesisAssumption
<1> QED BY <1>1, <1>4, <1>5 DEF CapsFit

LEMMA ExecutorPays ==
  ASSUME Fits, PaymentsFit, NEW o \in Opps, Executor(o)
  PROVE  PaymentsFit'
<1> USE DEF Fits, Typed, TriggersFit, Early, Places, Goto, Give, CompleteTrigger, contract,
      birth, money, history, PaymentsFit, MoneyTyped, PaymentFits
<1>1. CASE ShellReady(o) \/ WriteAgentRow(o) \/ TagLineage(o) \/ WriteIdentity(o)
  BY <1>1 DEF ShellReady, WriteAgentRow, TagLineage, WriteIdentity
<1>2. CASE SkipFunding(o)
  BY <1>2 DEF SkipFunding
<1>3. CASE ClampFunding(o)
  <2>1. Funding(o) \in Nat
    BY <1>3, FundingTyped
  <2> QED BY <1>3, <2>1 DEF ClampFunding
<1>4. CASE Signed(o)
  BY <1>4 DEF Signed
<1>5. CASE WritePayment(o)
  BY <1>5 DEF WritePayment
<1>6. CASE Settled(o)
  BY <1>6 DEF Settled
<1>7. CASE SettleFailed(o)
  BY <1>7 DEF SettleFailed
<1>8. CASE FailTests(o) \/ Registered(o)
  BY <1>8 DEF FailTests, HaltPipeline, Registered
<1>9. CASE Activate(o) \/ ActivateThrows(o)
  BY <1>9 DEF Activate, ActivateThrows, ActivateGenesisAgent
<1>10. CASE Throw(o)
  BY <1>10 DEF Throw
<1> QED BY <1>1, <1>2, <1>3, <1>4, <1>5, <1>6, <1>7, <1>8, <1>9, <1>10 DEF Executor

LEMMA StepPays ==
  ASSUME Fits, PaymentsFit, [Next]_vars
  PROVE  PaymentsFit'
<1> USE DEF Fits, Typed, TriggersFit, Early, Places, Goto, contract, birth, money, history,
      PaymentsFit, MoneyTyped, PaymentFits
<1>1. CASE Graduate \/ NewDay \/ UNCHANGED vars
  BY <1>1 DEF Graduate, NewDay, vars
<1>2. CASE Crash
  BY <1>2 DEF Crash, Die
<1>3. ASSUME NEW o \in Opps, ApproveRefused(o) PROVE PaymentsFit'
  BY <1>3 DEF ApproveRefused
<1>4. ASSUME NEW o \in Opps, Approve(o) PROVE PaymentsFit'
  BY <1>4 DEF Approve
<1>5. ASSUME NEW o \in Opps, WindowPasses(o) PROVE PaymentsFit'
  BY <1>5 DEF WindowPasses
<1>6. ASSUME NEW o \in Opps, CrashInHalt(o) PROVE PaymentsFit'
  BY <1>6 DEF CrashInHalt, Die
<1> HIDE DEF Fits, PaymentsFit
<1> QED BY <1>1, <1>2, <1>3, <1>4, <1>5, <1>6, ExecutorPays DEF Next

\* Steps that cut no funding to size and add to neither sum.
LEMMA CapsShrink ==
  ASSUME PaymentsFit, CapsFit, raced' = raced, amount' = amount,
         Paid' \cup Clamped' \subseteq Paid \cup Clamped,
         (Paid' \cap today') \cup Clamped' \subseteq (Paid \cap today) \cup Clamped
  PROVE  CapsFit'
<1> DEFINE All == Paid \cup Clamped
           Now == (Paid \cap today) \cup Clamped
           NewAll == Paid' \cup Clamped'
           NewNow == (Paid' \cap today') \cup Clamped'
<1>1. amount \in [Opps -> Nat] /\ All \in SUBSET Opps /\ Now \in SUBSET Opps
  BY DEF PaymentsFit, MoneyTyped, Paid, Clamped
<1>2. NewAll \in SUBSET All /\ NewNow \in SUBSET Now
  OBVIOUS
<1>3. CapsFit' <=> (raced' \/ (Total(amount', NewAll) <= PortfolioCap
                               /\ Total(amount', NewNow) <= PerDay))
  BY DEF CapsFit
<1>4. raced \/ (Total(amount, All) <= PortfolioCap /\ Total(amount, Now) <= PerDay)
  BY DEF CapsFit
<1> HIDE DEF All, Now, NewAll, NewNow
<1>5. Total(amount, NewAll) <= Total(amount, All) /\ Total(amount, NewNow) <= Total(amount, Now)
  BY <1>1, <1>2, TotalShrinks
<1>6. /\ Total(amount, NewAll) \in Nat /\ Total(amount, All) \in Nat
      /\ Total(amount, NewNow) \in Nat /\ Total(amount, Now) \in Nat
  BY <1>1, <1>2, TotalUnfolds
<1>7. CASE raced
  BY <1>3, <1>7
<1>8. CASE Total(amount, All) <= PortfolioCap /\ Total(amount, Now) <= PerDay
  <2>1. Total(amount', NewAll) = Total(amount, NewAll)
        /\ Total(amount', NewNow) = Total(amount, NewNow)
    OBVIOUS
  <2>2. Total(amount, NewAll) <= PortfolioCap /\ Total(amount, NewNow) <= PerDay
    BY <1>5, <1>6, <1>8, GenesisAssumption
  <2> QED BY <1>3, <2>1, <2>2
<1> QED BY <1>4, <1>7, <1>8

\* A cap and what is added below it.
LEMMA RoomFits ==
  ASSUME NEW used \in Nat, NEW more \in Nat, NEW cap \in Nat, NEW given \in Nat,
         given > 0, given <= Room(cap, used), more <= used
  PROVE  given + more <= cap
BY DEF Room

\* Only what is cut to size now is outside what the caps counted, unless fundings
\* race.
LEMMA ClampPays ==
  ASSUME Fits, PaymentsFit, NEW o \in Opps, ClampFunding(o)
  PROVE  CapsFit'
<1> SUFFICES ASSUME ~raced' PROVE CapsFit'
  BY DEF CapsFit
<1> DEFINE Now == Paid \cap today
<1>1. /\ amount \in [Opps -> Nat] /\ Paid \in SUBSET Opps /\ Now \in SUBSET Opps
      /\ at \in [Opps -> Places]
  BY DEF Fits, Typed, PaymentsFit, MoneyTyped, Paid
<1>2. o \notin Paid /\ o \notin Now
  BY DEF ClampFunding, PaymentsFit, PaymentFits, Paid
<1>3. Clamped' = {o}
  BY <1>1 DEF ClampFunding, Clamped, Goto
<1>4. Paid' = Paid /\ today' = today
  BY DEF ClampFunding, Paid
<1>5. /\ Funding(o) \in Nat /\ Funding(o) > 0
      /\ Funding(o) <= Room(PortfolioCap, Total(amount, Paid))
      /\ Funding(o) <= Room(PerDay, Total(amount, Now))
  <2>1. amount \in [Opps -> Nat] /\ today \subseteq Opps
    BY DEF PaymentsFit, MoneyTyped
  <2>2. Funding(o) > 0
    BY DEF ClampFunding
  <2> QED BY <2>1, <2>2, FundingTyped
<1>6. /\ amount' = [amount EXCEPT ![o] = Funding(o)]
  BY DEF ClampFunding
<1>7. amount' \in [Opps -> Nat] /\ amount'[o] = Funding(o)
  BY <1>1, <1>5, <1>6
<1>8. /\ \A x \in Paid : amount'[x] = amount[x]
      /\ \A x \in Now : amount'[x] = amount[x]
  BY <1>1, <1>2, <1>6
<1>9. CapsFit' <=> (raced' \/ (Total(amount', Paid \cup {o}) <= PortfolioCap
                               /\ Total(amount', Now \cup {o}) <= PerDay))
  BY <1>3, <1>4 DEF CapsFit
<1> HIDE DEF Now
<1>10. /\ Total(amount', Paid \cup {o}) = amount'[o] + Total(amount', Paid)
       /\ Total(amount', Now \cup {o}) = amount'[o] + Total(amount', Now)
  BY <1>1, <1>2, <1>7, TotalAdds
<1>11. /\ Total(amount', Paid) <= Total(amount, Paid)
       /\ Total(amount', Now) <= Total(amount, Now)
  BY <1>1, <1>7, <1>8, TotalShrinks
<1>12. /\ Total(amount', Paid) \in Nat /\ Total(amount, Paid) \in Nat
       /\ Total(amount', Now) \in Nat /\ Total(amount, Now) \in Nat
  BY <1>1, <1>7, TotalUnfolds
<1>13. Funding(o) + Total(amount', Paid) <= PortfolioCap
  BY <1>5, <1>11, <1>12, RoomFits, GenesisAssumption
<1>14. Funding(o) + Total(amount', Now) <= PerDay
  BY <1>5, <1>11, <1>12, RoomFits, GenesisAssumption
<1> QED BY <1>7, <1>9, <1>10, <1>13, <1>14

LEMMA StepFunds ==
  ASSUME Fits, PaymentsFit, CapsFit, [Next]_vars
  PROVE  CapsFit'
<1> USE DEF Goto, contract, birth, money, history, Paid, Clamped
<1>1. at \in [Opps -> Places] /\ MoneyTyped
  BY DEF Fits, Typed, PaymentsFit
<1> USE DEF MoneyTyped, Places
<1>2. ASSUME NEW o \in Opps, Executor(o), ~ClampFunding(o) PROVE CapsFit'
  <2>1. CASE ShellReady(o) \/ WriteAgentRow(o) \/ TagLineage(o) \/ WriteIdentity(o)
    BY <1>1, <2>1, CapsShrink DEF ShellReady, WriteAgentRow, TagLineage, WriteIdentity
  <2>2. CASE SkipFunding(o) \/ Signed(o)
    BY <1>1, <2>2, CapsShrink DEF SkipFunding, Signed, CompleteTrigger
  <2>3. CASE WritePayment(o)
    BY <1>1, <2>3, CapsShrink DEF WritePayment
  <2>4. CASE Settled(o)
    <3>1. pay[o] = "pending"
      BY <2>4 DEF Settled, PaymentsFit, PaymentFits
    <3> QED BY <1>1, <2>4, <3>1, CapsShrink DEF Settled, CompleteTrigger
  <2>5. CASE SettleFailed(o)
    BY <1>1, <2>5, CapsShrink DEF SettleFailed
  <2>6. CASE FailTests(o) \/ Activate(o) \/ ActivateThrows(o) \/ Registered(o)
    BY <1>1, <2>6, CapsShrink DEF FailTests, HaltPipeline, Activate, ActivateThrows,
       ActivateGenesisAgent, Registered
  <2>7. CASE Throw(o)
    BY <1>1, <2>7, CapsShrink DEF Throw
  <2> QED BY <1>2, <2>1, <2>2, <2>3, <2>4, <2>5, <2>6, <2>7 DEF Executor
<1>3. CASE Graduate \/ NewDay \/ UNCHANGED vars
  BY <1>1, <1>3, CapsShrink DEF Graduate, NewDay, vars
<1>4. CASE Crash
  BY <1>1, <1>4, CapsShrink DEF Crash, Die
<1>5. ASSUME NEW o \in Opps, ApproveRefused(o) \/ Approve(o) \/ WindowPasses(o)
      PROVE  CapsFit'
  BY <1>1, <1>5, CapsShrink DEF ApproveRefused, Approve, WindowPasses
<1>6. ASSUME NEW o \in Opps, CrashInHalt(o) PROVE CapsFit'
  BY <1>1, <1>6, CapsShrink DEF CrashInHalt, Die
<1> QED BY <1>2, <1>3, <1>4, <1>5, <1>6, ClampPays DEF Next, Executor

\* The caps are read before two awaits and the row they count is written after them;
\* what leaves the wallet, however it ends and whatever crashes, keeps within both
\* unless fundings overlapped or a transfer reported failed went through.
THEOREM FundingKept == Spec => []FundingWithinCaps
<1>1. Fits /\ PaymentsFit /\ CapsFit => FundingWithinCaps
  <2> SUFFICES ASSUME Fits, PaymentsFit, CapsFit, ~raced, ~ \E o \in sent : pay[o] = "failed"
               PROVE  FundingWithinCaps
    BY DEF FundingWithinCaps
  <2> DEFINE All == Paid \cup Clamped
             Now == (Paid \cap today) \cup Clamped
  <2>1. sent \cup {o \in Opps : pay[o] \in {"pending", "settled"}} = Paid
    BY DEF PaymentsFit, MoneyTyped, PaymentFits, Paid
  <2>2. /\ amount \in [Opps -> Nat] /\ All \in SUBSET Opps /\ Now \in SUBSET Opps
        /\ Paid \in SUBSET All /\ Paid \cap today \in SUBSET Now
    BY DEF PaymentsFit, MoneyTyped, Paid, Clamped
  <2>3. Total(amount, All) <= PortfolioCap /\ Total(amount, Now) <= PerDay
    BY DEF CapsFit
  <2> HIDE DEF All, Now
  <2>4. /\ Total(amount, Paid) <= Total(amount, All)
        /\ Total(amount, Paid \cap today) <= Total(amount, Now)
    BY <2>2, TotalShrinks
  <2>5. /\ Total(amount, Paid) \in Nat /\ Total(amount, All) \in Nat
        /\ Total(amount, Paid \cap today) \in Nat /\ Total(amount, Now) \in Nat
    BY <2>2, TotalUnfolds
  <2>6. Total(amount, Paid) <= PortfolioCap /\ Total(amount, Paid \cap today) <= PerDay
    BY <2>3, <2>4, <2>5, GenesisAssumption
  <2> QED BY <2>1, <2>6 DEF FundingWithinCaps, Total
<1> QED BY <1>1, InitFits, InitPays, StepFits, StepPays, StepFunds, PTL DEF Spec

--------------------------------------------------------------------------------
(* The whole type invariant *)

RestTyped ==
  /\ shell \in [Opps -> {"none", "creating", "failed", "claimed"}]
  /\ raced \in BOOLEAN
  /\ crashes \in 0 .. MaxCrashes

LEMMA RestKeepsType == RestTyped /\ [Next]_vars => RestTyped'
<1> SUFFICES ASSUME RestTyped, [Next]_vars PROVE RestTyped'
  OBVIOUS
<1> USE DEF RestTyped, birth, history
<1>1. ASSUME NEW o \in Opps, Executor(o) PROVE RestTyped'
  <2>1. CASE ShellReady(o) \/ WriteAgentRow(o) \/ TagLineage(o) \/ WriteIdentity(o)
    BY <2>1 DEF ShellReady, WriteAgentRow, TagLineage, WriteIdentity
  <2>2. CASE SkipFunding(o) \/ ClampFunding(o) \/ Signed(o) \/ WritePayment(o)
    BY <2>2 DEF SkipFunding, ClampFunding, Signed, WritePayment
  <2>3. CASE Settled(o) \/ SettleFailed(o) \/ FailTests(o) \/ Activate(o)
    BY <2>3 DEF Settled, SettleFailed, FailTests, Activate
  <2>4. CASE ActivateThrows(o) \/ Registered(o) \/ Throw(o)
    BY <2>4 DEF ActivateThrows, Registered, Throw
  <2> QED BY <1>1, <2>1, <2>2, <2>3, <2>4 DEF Executor
<1>2. CASE Graduate \/ NewDay \/ UNCHANGED vars
  BY <1>2 DEF Graduate, NewDay, vars
<1>3. ASSUME Die PROVE RestTyped'
  BY <1>3, GenesisAssumption DEF Die
<1>4. ASSUME NEW o \in Opps, ApproveRefused(o) \/ Approve(o) \/ WindowPasses(o)
      PROVE  RestTyped'
  BY <1>4 DEF ApproveRefused, Approve, WindowPasses
<1> QED BY <1>1, <1>2, <1>3, <1>4 DEF Next, Crash, CrashInHalt

\* Types, and no step of an executor gives a company what is not its own.
THEOREM TypeCorrect == Spec => []TypeOk
<1> DEFINE Tell == \A p \in Opps : OutcomeFits(p)
<1>1. Init => Tell /\ RestTyped
  <2>1. Init => Tell
    BY DEF Init, OutcomeFits
  <2>2. Init => shell \in [Opps -> {"none", "creating", "failed", "claimed"}] /\ raced \in BOOLEAN
    BY DEF Init
  <2>3. Init => crashes \in 0 .. MaxCrashes
    <3>1. 0 \in 0 .. MaxCrashes
      BY GenesisAssumption
    <3> QED BY <3>1 DEF Init
  <2> QED BY <2>1, <2>2, <2>3 DEF RestTyped
<1>2. Fits /\ PaymentsFit /\ RestTyped /\ Tell => TypeOk
  BY DEF Fits, Typed, PaymentsFit, MoneyTyped, RestTyped, OutcomeFits, TypeOk
<1>3. Fits /\ Tell /\ [Next]_vars => Tell'
  BY StepTells
<1> HIDE DEF Tell
<1> QED BY <1>1, <1>2, <1>3, InitFits, InitPays, StepFits, StepPays, RestKeepsType, PTL
        DEF Spec
================================================================================
