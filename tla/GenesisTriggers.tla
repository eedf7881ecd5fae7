---------------------------- MODULE GenesisTriggers ----------------------------
(***************************************************************************)
(* What a root agent's genesis triggers promise the rest of the backend:   *)
(* one trigger for an opportunity, fired by the CEO's approval, in flight   *)
(* while its executor runs, then completed or failed; and a circuit breaker *)
(* that takes the root back to dry runs.  Module Expansion is composed with *)
(* this contract; module Genesis is the executor that implements it.       *)
(*                                                                         *)
(* A step ends where the code awaits.  Only a crash falls between two      *)
(* statements.                                                             *)
(***************************************************************************)
CONSTANTS
  Opps         \* the opportunities of one root agent

VARIABLES
  trigger,     \* status of the opportunity's genesis_triggers row, or "none"
  running,     \* opportunities whose executor is in flight
  halted,      \* the root has an expansion_circuit_breaker row
  stage        \* rollout_stage of the root, "dry" or "live"

triggerVars == <<trigger, running, halted, stage>>

TriggerStatus == {"none", "pending", "completed", "failed"}

\* Types of the contract's state.
TriggerTypeOk ==
  /\ trigger \in [Opps -> TriggerStatus]
  /\ running \subseteq Opps
  /\ halted \in BOOLEAN
  /\ stage \in {"dry", "live"}

TriggerInit ==
  /\ trigger = [o \in Opps |-> "none"]
  /\ running = {}
  /\ halted = FALSE
  /\ stage = "dry"

--------------------------------------------------------------------------------

\* POST /agents/:agentAddress/graduate, its part of the contract.
Graduate ==
  /\ stage = "dry" /\ ~halted
  /\ stage' = "live"
  /\ UNCHANGED <<trigger, running, halted>>

\* fireGenesisTrigger: the row, then the executor up to its first await; it
\* begins with the circuit breaker.
Fire(o) ==
  /\ stage = "live" /\ trigger[o] = "none" /\ ~halted
  /\ trigger' = [trigger EXCEPT ![o] = "pending"]
  /\ running' = running \cup {o}
  /\ UNCHANGED <<halted, stage>>

\* The executor refuses before its first await: halted, or the spawn cap.
FireRefused(o) ==
  /\ stage = "live" /\ trigger[o] = "none"
  /\ trigger' = [trigger EXCEPT ![o] = "failed"]
  /\ UNCHANGED <<running, halted, stage>>

\* markGenesisTriggerCompleted: the company stands, the executor goes on to
\* test it.
Complete(o) ==
  /\ o \in running /\ trigger[o] = "pending"
  /\ trigger' = [trigger EXCEPT ![o] = "completed"]
  /\ UNCHANGED <<running, halted, stage>>

\* An executor that throws, before or after it completed the trigger.
Fail(o) ==
  /\ o \in running
  /\ trigger' = [trigger EXCEPT ![o] = "failed"]
  /\ running' = running \ {o}
  /\ UNCHANGED <<halted, stage>>

\* The executor ends: the company was activated.
Return(o) ==
  /\ o \in running /\ trigger[o] = "completed"
  /\ running' = running \ {o}
  /\ UNCHANGED <<trigger, halted, stage>>

\* The executor ends: the company failed its tests, so haltExpansionPipeline
\* writes the breaker's row and demotes the root.
Halt(o) ==
  /\ o \in running /\ trigger[o] = "completed"
  /\ running' = running \ {o}
  /\ halted' = TRUE /\ stage' = "dry"
  /\ UNCHANGED trigger

\* The backend dies between the breaker's row and the demotion.
HaltInterrupted(o) ==
  /\ o \in running /\ trigger[o] = "completed"
  /\ running' = {}
  /\ halted' = TRUE
  /\ UNCHANGED <<trigger, stage>>

\* The backend dies: no executor comes back, and nothing resumes a trigger.
Crash ==
  /\ running' = {}
  /\ UNCHANGED <<trigger, halted, stage>>

TriggerNext ==
  \/ Graduate
  \/ \E o \in Opps :
       \/ Fire(o) \/ FireRefused(o) \/ Complete(o) \/ Fail(o) \/ Return(o)
       \/ Halt(o) \/ HaltInterrupted(o)
  \/ Crash

TriggerSpec == TriggerInit /\ [][TriggerNext]_triggerVars
================================================================================
