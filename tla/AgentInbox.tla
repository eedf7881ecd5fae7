------------------------------- MODULE AgentInbox -------------------------------
(***************************************************************************)
(* The inbox of an agent and its two readers.  The agent loop               *)
(* (agent/loop.ts) claims rows by status and tells the model their text; the *)
(* orchestrator's tick, made in the same turn, takes the task results among  *)
(* the oldest rows without a processed_at (orchestration/messaging.ts).      *)
(* Neither looks at what the other goes by.                                  *)
(*                                                                         *)
(* What the model answers decides how a turn goes on and is left free.       *)
(* Spending, tools, memory and the building of the prompt are left out.      *)
(***************************************************************************)
EXTENDS Naturals, FiniteSets

CONSTANTS
  LastRow,     \* rows are numbered 1 .. LastRow in the order of received_at
  Results,     \* the rows that are task results of the agent's own workers
  ClaimLimit,  \* rows one turn claims
  Batch,       \* MAX_INBOX_BATCH
  MaxRetries,  \* max_retries
  MaxErrors,   \* MAX_CONSECUTIVE_ERRORS
  MaxDeaths    \* bound: crashes of the agent

Rows == 1 .. LastRow

ASSUME InboxAssumption ==
  /\ LastRow \in Nat /\ Results \subseteq Rows
  /\ ClaimLimit \in Nat \ {0} /\ Batch \in Nat \ {0}
  /\ MaxRetries \in Nat /\ MaxErrors \in Nat /\ MaxDeaths \in Nat

\* What pendingInput holds besides texts of messages: a prompt of the loop.
Prompt == 0

VARIABLES
  rowStatus, \* inbox_messages.status, or "absent"
  retries,  \* retry_count
  done,     \* the rows with a processed_at
  turn,     \* how far the turn is, or "asleep"
  pending,  \* pendingInput: the texts it holds, none if undefined
  claimed,  \* claimedMessages
  errors,   \* consecutiveErrors
  deaths,
  told      \* history: how often the model was told the text

table == <<rowStatus, retries, done>>
loop == <<turn, pending, claimed, errors>>
inboxVars == <<table, loop, deaths, told>>

InboxTypeOk ==
  /\ rowStatus \in [Rows -> {"absent", "received", "in_progress", "processed", "failed"}]
  /\ retries \in [Rows -> Nat] /\ told \in [Rows -> Nat]
  /\ done \subseteq Rows /\ claimed \subseteq Rows
  /\ turn \in {"asleep", "open", "claimed", "ticked", "thinking", "stored"}
  /\ pending \subseteq Rows \cup {Prompt}
  /\ errors \in Nat /\ deaths \in Nat

InboxInit ==
  /\ rowStatus = [m \in Rows |-> "absent"]
  /\ retries = [m \in Rows |-> 0] /\ told = [m \in Rows |-> 0]
  /\ done = {} /\ claimed = {} /\ pending = {}
  /\ turn = "asleep" /\ errors = 0 /\ deaths = 0

\* The first n rows of S.
FirstRows(S, n) == {m \in S : Cardinality({k \in S : k < m}) < n}

SetStatus(S, st) == [m \in Rows |-> IF m \in S THEN st ELSE rowStatus[m]]

--------------------------------------------------------------------------------
(* Arrivals and the cycles of the loop *)

\* insertInboxMessage, or a deliver of the agent's own workers.
Arrive(m) ==
  /\ rowStatus[m] = "absent"
  /\ rowStatus' = [rowStatus EXCEPT ![m] = "received"]
  /\ UNCHANGED <<retries, done, loop, deaths, told>>

Wake ==
  /\ turn = "asleep"
  /\ turn' = "open" /\ pending' = {Prompt} /\ errors' = 0
  /\ UNCHANGED <<table, claimed, deaths, told>>

\* What the loop holds is gone; the rows stay as they are.
Sleep ==
  /\ turn' = "asleep" /\ pending' = {} /\ claimed' = {} /\ errors' = 0

AgentDies ==
  /\ deaths < MaxDeaths /\ turn # "asleep"
  /\ deaths' = deaths + 1
  /\ Sleep
  /\ UNCHANGED <<table, told>>

--------------------------------------------------------------------------------
(* One turn *)

\* Variant: a claim does not count as a try.
UncountedTries(S) == retries

\* The tries once S is claimed.
TriesAfterClaim(S) == [m \in Rows |-> IF m \in S THEN retries[m] + 1 ELSE retries[m]]

\* claimInboxMessages.
ClaimMail ==
  /\ turn = "open" /\ pending = {}
  /\ LET S == FirstRows({m \in Rows : rowStatus[m] = "received" /\ retries[m] < MaxRetries},
                        ClaimLimit)
     IN  /\ rowStatus' = SetStatus(S, "in_progress")
         /\ retries' = TriesAfterClaim(S)
         /\ claimed' = S /\ pending' = S
  /\ turn' = "claimed"
  /\ UNCHANGED <<done, errors, deaths, told>>

\* A turn with an input claims nothing.
KeepInput ==
  /\ turn = "open" /\ pending # {}
  /\ turn' = "claimed"
  /\ UNCHANGED <<table, pending, claimed, errors, deaths, told>>

\* The tick of a goal that is executing: processInbox takes the results of a
\* batch.
Collect ==
  /\ turn = "claimed"
  /\ LET batch == FirstRows({m \in Rows : rowStatus[m] # "absent" /\ m \notin done}, Batch)
     IN  done' = done \cup (batch \cap Results)
  /\ turn' = "ticked"
  /\ UNCHANGED <<rowStatus, retries, pending, claimed, errors, deaths, told>>

\* A tick in another phase.
TickElsewhere ==
  /\ turn = "claimed"
  /\ turn' = "ticked"
  /\ UNCHANGED <<table, pending, claimed, errors, deaths, told>>

\* The tick leaves nothing to do: the loop sleeps, with what it has claimed.
Rest ==
  /\ turn = "ticked"
  /\ Sleep
  /\ UNCHANGED <<table, deaths, told>>

Tell(S) == [m \in Rows |-> IF m \in S THEN told[m] + 1 ELSE told[m]]

\* pendingInput goes to the model.
Think ==
  /\ turn = "ticked"
  /\ told' = Tell(pending)
  /\ pending' = {}
  /\ turn' = "thinking"
  /\ UNCHANGED <<table, claimed, errors, deaths>>

\* Variant: only the status is written.
StatusOnly(S) == done

\* The rows with a processed_at once S is marked.
DoneAfterTurn(S) == done \cup S

\* The turn is stored and its messages are marked, in one transaction.
StoreTurn ==
  /\ turn = "thinking"
  /\ rowStatus' = SetStatus(claimed, "processed")
  /\ done' = DoneAfterTurn(claimed)
  /\ turn' = "stored"
  /\ UNCHANGED <<retries, pending, claimed, errors, deaths, told>>

\* The next turn, which a warning of the loop may open.
GoOn(input) ==
  /\ turn = "stored"
  /\ turn' = "open" /\ pending' = input /\ claimed' = {} /\ errors' = 0
  /\ UNCHANGED <<table, deaths, told>>

EndCycle ==
  /\ turn = "stored"
  /\ Sleep
  /\ UNCHANGED <<table, deaths, told>>

\* An error, anywhere in the turn: what it claimed is failed or received again.
Fail ==
  /\ turn # "asleep"
  /\ rowStatus' = [m \in Rows |->
                  IF m \notin claimed THEN rowStatus[m]
                  ELSE IF retries[m] >= MaxRetries THEN "failed" ELSE "received"]
  /\ IF errors + 1 >= MaxErrors
       THEN Sleep
       ELSE turn' = "open" /\ claimed' = {} /\ errors' = errors + 1 /\ UNCHANGED pending
  /\ UNCHANGED <<retries, done, deaths, told>>

--------------------------------------------------------------------------------

InboxNext ==
  \/ \E m \in Rows : Arrive(m)
  \/ Wake \/ AgentDies
  \/ ClaimMail \/ KeepInput \/ Collect \/ TickElsewhere \/ Rest \/ Think
  \/ StoreTurn \/ GoOn({}) \/ GoOn({Prompt}) \/ EndCycle \/ Fail

\* The agent wakes and its turns go on.  Not every turn fails or rests, some are
\* not the last of their cycle, and a goal is executing.
InboxFairness ==
  /\ WF_inboxVars(Wake)
  /\ SF_inboxVars(KeepInput) /\ SF_inboxVars(ClaimMail) /\ SF_inboxVars(Collect)
  /\ SF_inboxVars(Think) /\ SF_inboxVars(StoreTurn) /\ SF_inboxVars(GoOn({}))

InboxSpec == InboxInit /\ [][InboxNext]_inboxVars /\ InboxFairness

--------------------------------------------------------------------------------
(* Properties *)

\* The model is told a message no more often than the message was tried, nor
\* than max_retries, whatever turns fail, and where.
ToldWithinRetries ==
  \A m \in Rows : told[m] <= retries[m] /\ retries[m] <= MaxRetries

\* Rows without a processed_at that no turn will touch again: failed, or
\* claimed by a turn that slept or died.
Stuck ==
  {m \in Rows :
     /\ m \notin done
     /\ rowStatus[m] = "failed" \/ (rowStatus[m] = "in_progress" /\ m \notin claimed)}

\* A worker's result is taken, by one reader or the other, unless stuck rows
\* before it fill the batch.
ResultIsTaken ==
  \A m \in Results :
    rowStatus[m] # "absent" ~>
      m \in done \/ Cardinality({k \in Stuck : k < m}) >= Batch
================================================================================
