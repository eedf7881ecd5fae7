# Formal verification of Nova-bot

TLA+ models of the parts of this repository whose correctness depends on the
order in which several actors act, the TLC configurations that check them on
small instances, and TLAPS proofs of the central properties for every value of
the constants.

Paths below are relative to the repository root; `orchestration/` stands for
`src/agent/src/orchestration/`.

## 1. The system

Two TypeScript programs.

**The agent runtime** (`src/agent`). One Node process per agent. A ReAct loop
(`agent/loop.ts`) runs turns; each turn first runs one *tick* of the
orchestrator, then lets the model call tools. A heartbeat runs cron tasks beside
it. Everything durable is one SQLite database per agent.

**The platform backend** (`src/backend`). An Express service shared by all
agents: it runs their containers, keeps their wallets, sells inference against
signed USDC authorizations, and hosts marketplace, departments, channels and the
expansion pipeline.

### Components

Agent runtime:

| Component | State it keeps | Operations | What makes it correct |
|---|---|---|---|
| Task graph (`orchestration/task-graph.ts`, `state/database.ts`) | `goals`, `task_graph` rows | createGoal, decomposeGoal, assignTask, completeTask, failTask, pruneCompletedGoals; cancel and reset UPDATEs | dependencies inside a goal and acyclic, nobody assigned before its dependencies, no lost wake-up, finished work final, a goal's verdict right |
| Orchestrator (`orchestration/orchestrator.ts`, `plan-mode.ts`, `planner.ts`) | kv `orchestrator.state`: phase, goal, replan count | tick: eight phase handlers; collectResults, handleFailure, recallCredits | implements the task graph's rules whatever interleaves with its awaits; saved phase fits the graph; progress |
| Local workers (`orchestration/local-worker.ts`, `agent/harnesses/`) | in-memory map of active workers | spawn, runWorker, delegate_task | one owner per task |
| Agent tracker, funding (`orchestration/simple-tracker.ts`) | `children.status` | getIdle, register, updateStatus, fundChild, recallCredits | idle means able to take work; money follows tasks |
| Messaging, inbox (`orchestration/messaging.ts`) | `inbox_messages` | send, processInbox | no result lost, none applied twice |
| Agent loop (`agent/loop.ts`, `index.ts`) | agent state, claimed messages, error count | a turn, errors, sleep, wake | a message is told to the model within its retries; claimed ones are processed or given back |
| Parent's tools (`agent/tools.ts`) | - | create_goal, cancel_goal, complete_task, ... | do not contradict the orchestrator's state |
| Health monitor (`orchestration/health-monitor.ts`) | - | checkAll, autoHeal | heals only what is ill, and leaves the graph sound |
| Heartbeat (`heartbeat/`) | schedule, leases, history, dedup nonces | tick, executeTask, the tasks | one run per lease, timeouts |
| Social client (`social/client.ts`) | replay nonces | poll, send | every relayed message stored once |
| Replication (`replication/`) | `children`, lifecycle events | spawn, transition, cleanup | legal transitions only |
| Policy engine, spend tracker (`agent/policy-*`) | spend rows | evaluate, recordSpend | limits hold |
| Self-modification, memory, soul, inference client, registry, skills, infra, identity, setup | files, caches, rows | mostly I/O and text | - |

Backend:

| Component | State it keeps | Operations | What makes it correct |
|---|---|---|---|
| Paid inference (`inferenceGateway.ts`, `facilitator.ts`) | nonce reservations, orphaned settlements, usage log, payments | POST /chat, reconciliation sweep, settle | one completion per nonce, debited once, nothing stranded, every orphan settled |
| Leased jobs (`scheduler.ts`) | `scheduled_jobs` | acquire, release, run | passes take turns |
| Processes (`orchestrator.ts`, `healthCheck.ts`) | `agent_processes` | spawn, kill, restart, health sweep | a kill holds, the dead come back, restarts have a budget |
| Expansion (`expansion.ts`, `expansionRoutes.ts`) | reports, opportunities, findings, votes, decisions, dry-run packets, rollout stage | score, select, file, vote, rule, graduate | a ruling has its one effect, money only after graduation |
| Genesis (`genesis.ts`, `genesisActivation.ts`, `cloning.ts`, `wallet.ts`) | triggers, clone shells, agents, payments | approve, create, fund, test, activate | caps, a trigger that tells what happened |
| Circuit breaker, kill switches, quotas (`expansionCircuitBreaker.ts`, `expansionKillSwitch.ts`, `rootKillSwitch.ts`, `resourceQuotas.ts`) | breaker rows, audit rows | halt, shut down, admin kill, enforce | a halted root spends nothing; a kill holds |
| Marketplace (`marketplace.ts`) | listings, versions, files, signature nonces, invocations, usage log, download tokens | create, update, upload, invoke, download | budget, one write per nonce, rows for money, files for tokens |
| Social relay (`socialRelay.ts`) | `social_messages` | send, poll | nothing passed over, what is lost is offered again |
| Channels, departments (`channelService.ts`, `departments.ts`) | ledgers, rows | synchronous routes | legal transitions |
| VM, wallet, domains, tools, reports | rows, containers | mostly I/O | - |

`PROJECT.json` lists each with its files, its status and what is modelled of it.

### How they interact, and what is hard

The tick is an `async` function. At each `await` (a model call, a spawn, a
transfer, a message, a file) anything else in the process may run: local workers
(promises started by earlier ticks) write the same tables, heartbeat tasks write
`children.status`, messages arrive. Between ticks, the parent agent's tools
change goals and tasks. The tick decides from values read before an await.

Every function of task-graph.ts is synchronous and runs in one SQLite
transaction, so it is atomic. Everything built from two of them is not.

The process may die at any await; the database stays. The saved state is written
at the end of a tick, its effects on the graph before. When the agent sleeps,
`runAgentLoop` returns; when it wakes, it is called again in the same process
and builds a new, empty `LocalWorkerPool`, while the old pool's workers go on.

On the backend every handler is a coroutine over one SQLite connection: what it
does between two awaits is atomic, except for a crash between two statements,
because few of them use a transaction. Budgets, caps, nonces and restart counts
are read before the awaits and written after them. Jobs run under leases that
can lapse under a running pass. A genesis executor is a promise nobody awaits.
The chain answers late, or not at all, about what it has executed.

Between the two programs, and between agents, messages go through the relay,
which claims a page before the answer has arrived, and a client that saves its
cursor before the messages. A heartbeat task that exceeds its time is not
stopped, so two copies of it may run.

The list of hazards, each at its line, is in `PROJECT.json`.

## 2. Modules

| Module | Models |
|---|---|
| `TaskGraph` | the two tables as one record, every transition of task-graph.ts as an operator on it; no variables |
| `TaskStore` | the task graph as a component: one variable, one action per function, callers unconstrained; the abstract specification |
| `TaskGraphProofs` | lemmas about the transitions of TaskGraph, used by the two modules of proofs below |
| `TaskStoreProofs` | theorems about TaskStore, and about ColonyHealth, which works on the same tables |
| `Orchestrator` | the orchestrator with everybody around it; shown to implement TaskStore |
| `OrchestratorProofs` | theorems about Orchestrator, among them that it implements TaskStore |
| `ColonyHealth` | the health monitor beside all callers of TaskStore, which it EXTENDS: any step of the store is a step of its environment |
| `AgentInbox` | the inbox with its two readers, the loop and the orchestrator's tick |
| `SocialRelay` | relay, client and heartbeat task, for one recipient |
| `SocialRelayProofs` | theorems about the two ends of a message's way: SocialRelay's cursor and AgentInbox |
| `AuthorizationLife` | what paid inference promises of a signed authorization under one spelling of its nonce; the abstract specification |
| `PaidInference` | the backend's inference gateway, settlement and reconciliation sweep; shown to implement AuthorizationLife |
| `PaidInferenceProofs` | theorems about PaidInference |
| `GenesisTriggers` | what an executor promises the expansion pipeline; the contract between the next two |
| `Expansion` | the pipeline from a scored opportunity to the CEO's ruling, composed with GenesisTriggers |
| `ExpansionProofs` | theorems about Expansion, over any executor that keeps the contract, and about Fleet, where its companies run |
| `Genesis` | the executor at its awaits; shown to implement GenesisTriggers |
| `GenesisProofs` | theorems about Genesis, among them that it implements GenesisTriggers |
| `Fleet` | processes of the companies: spawn, kill, restart, the leased health sweep, quotas and kill switches |
| `Marketplace` | listings with their signed writes, invocations with their two legs, download tokens |
| `MarketplaceProofs` | theorems about Marketplace |
| `MC...` | TLC instances |

### TaskGraph

`Db` is a record of functions: `goal` (status per goal id), and per task id
`status`, `of` (goal_id), `deps`, `to` (assigned_to), `retries`. An id that was
never drawn has status "none" or "absent". Each transition is a function from a
record to a record: `CompleteTask(d, t)` sets the status, wakes blocked tasks
(`Unblock`) and recomputes the goal's status (`Refresh`), as completeTask does in
its transaction. The throwing paths are the guards `CanFinish` and
`ValidDecomposition`.

Details that matter and are kept: failTask's retry branch puts the task back to
`blocked` if its dependencies are not done; its final branch blocks pending and
assigned dependents and clears their assignee; `Unblock` looks at every goal's
tasks; refreshGoalStatus says `active` for a goal without tasks and `failed`
before `completed`; the reset before a replan ignores dependencies and retries.

Left out: titles, roles, priorities, costs, times; `parent_id` (one more edge
for detectCycles); the statuses `paused` and `running`, which nothing writes.

### Orchestrator

| Variable | Code |
|---|---|
| `db` | goals, task_graph |
| `orch` | kv `orchestrator.state` (phase, goalId, replanCount) |
| `child` | `children.status` per address |
| `inbox` | unprocessed task_result messages |
| `tick` | where the running tick awaits, with its local variables: the task in hand, the assignee, the rest of the ready list, the batch of results, the messages the turn claimed |
| `work`, `pool` | what each live worker runs; the current LocalWorkerPool's map |
| `told` | assignments sent (what a child can report on) |
| `slept`, `crashes` | history, for the properties and the bound |

An action of the tick starts where the code resumes and ends where it awaits
again; between, it is everything the code does, saves included. `Execute` is
stale recovery and the ready query; then `DispatchIdle` or `Spawn`/`Spawned*`/
`SpawnFailed`, `Sent` or `NotSent` per task; `Collect` marks the batch processed;
`ApplySuccess`/`ApplyFailure` per result; `Progress` decides the phase.
`Planned` and `Replanned` stop at "persist", the awaited writes of the plan's
files, because the tasks are then in the graph and the phase is not yet saved.

Two effects were easy to miss and are in the model. A sandbox spawned by the
orchestrator can never be started: the tracker registers it a second time, under
a new id that has no lifecycle events, and startAgent throws after the transfer
(`start` leads only to `NotSent`). And `isWorkerAlive` asks the first `children`
row with the address, which for such a sandbox keeps the status the spawn gave
it, so its tasks are never judged stale.

External parts: the model's answers (any complexity, any valid plan, any review
verdict), whether a transfer or a message succeeds, a child's reports
(`Report`: any time, repeated, contradictory, but only on what it was sent), and
the health checks' writes (`CheckChild`). No code in `src/` sends a task_result:
children are told to by their system prompt.

`Goals` and the saved state may name different goals: a tick works for the goal it
read at its start (`tick.goal`), and handleFailure saves the goal of the failed task
(orchestrator.ts:349-355), which `orchestrator_remote` checks with two goals.

An invalid plan never reaches decomposeGoal: validatePlannerOutput
(planner.ts:493-705) rejects it and the planner falls back to a plan of one task, so
`ValidDecomposition` is a guard of `Planned` and `Replanned`. reviewPlan answers
reject when the consensus fails (plan-mode.ts:446-470), and throws only to wait for
a supervisor. Errors of the database itself are left out.

### PaidInference

| Variable | Code |
|---|---|
| `reserved` | `inference_nonce_reservations` |
| `orphan` | status of the row in `orphaned_inference_settlements` |
| `usage` | how many rows of `usage_log` a nonce has |
| `auth` | which authorization a nonce, as a request spells it, belongs to; fixed at the start |
| `chain`, `funds`, `expired` | the outside: each transfer on chain, the payers' balances, the clock against `validBefore` |
| `at`, `on`, `todo` | where each request and each pass of the sweep awaits, with which nonce; the rows a pass has left |
| `made` | completions produced |
| `lost`, `chances`, `crashes` | history |

A request runs `Post`, `Claim`, `ProviderAnswered`, then settleAuthorization:
`Broadcast` (signature and balance are good, the transaction is out), `Sent`
(writeContract returned its hash). A pass joins at settleAuthorization through
`SweepRetry`. Success and failure mean different things to the two callers
(`OnSuccess`, `OnFailure`).

Five facts of the code shape the model.

- The tables are keyed by the nonce as the request's JSON spells it
  (inferenceGateway.ts:219-229, 473-482), while verifyTypedData reads 32 bytes,
  whatever the case of their hex digits. So the tables go by `Keys`, the signature and
  the chain by `Auths`, and `auth` maps one to the other: the run has the instance in
  which two spellings are one authorization, and the one in which they are two.
- The sweep's lease lasts five minutes, a tick comes every 90 seconds, and a pass that
  takes longer is not stopped (scheduler.ts:106-123, 177-200): `SweepStart` may start a
  pass while others are under way, and both then have the same rows. The lease only
  decides when, so it is not a variable.
- writeContract returns when the transaction is broadcast, so mining is a step of the
  outside that may come late and may revert.
- It can throw although the transaction went out (`AnswerLost`: a lost RPC answer, or
  an exception in the bookkeeping after it inside the same `try`).
- The orphan row holds a foreign key to the reservation, so `ReleaseNonce` fails while
  one exists (`Referenced`).

The foreign key, which contradicts the documentation (section 4), is also what
makes `OneCompletion` true. With the release as documented, a request that has
its good verdict and is slow to reserve can find the nonce free again after an
earlier request failed to settle, its authorization expired and the sweep wrote
it off: expiry is checked before the claim, not with it. TLC finds this in the
variant without the key.

`chances` counts, for each nonce, how often a second entry in usage_log became
possible: a pass selected a row that another pass still had, or a crash fell between a
pass's INSERT and the row's UPDATE. `DebitedOnce` says that nothing else makes one.

Amounts are abstracted to one price per authorization. Several authorizations of
one payer share a balance. The daily budget is left out, which is to say that every
call passes it.

### ColonyHealth

`Others` is any step of TaskStore's `Next` on its variable `db`: the orchestrator, the
workers and the tools. `told` remembers which assigned tasks were sent, because the
sender can die between assignTask and the message. `CheckAll` builds the whole report
at once, as checkAll does before it awaits balances; `Heal` then acts on one entry of
it, however old. `ReassignTask` is the monitor's own pair of UPDATEs: it asks neither
the task's status nor its dependencies. `touched` and `misled` (history) say whether a
heal fell on a task somebody had changed since the report. One pass is under way at a
time; a heartbeat run that was given up on may overlap the next (H19 in
`PROJECT.json`), which makes the reports of both old ones, the case `misled` names.

### AgentInbox

`rowStatus` and `retries` are what the loop goes by, `done` (`processed_at`) what
processInbox goes by. A turn is cut at `open`, `claimed`, `ticked`, `thinking`,
`stored`; `Fail` may happen at each. `pending` is pendingInput, which survives an
early error: this is how a message is told again. `Collect` marks its batch in one
step; the code marks it row by row, with an await before each, and marks the rows it
cannot parse too (messaging.ts:177-228), which the model has none of.

### SocialRelay

One recipient. A message is named by its place in the order the relay pages by,
`(created_at, id)`. That is not the order of the inserts: the id is a ulid(), which is
not monotonic within a millisecond, the clock may step back, and two processes of the
backend race from Date.now() to the INSERT (socialRelay.ts:227-233). So `Send` inserts
any message that is not there yet, and `belated` remembers those that came in below a
key already handed out. A run of
check_social_inbox is idle, has asked, or has an answer; `TimeOut` marks a run the
scheduler has given up on, which goes on. `Receive` is the synchronous stretch
that stores a page; `CrashInReceive` cuts it after the nonces, or after the cursor
and some of the rows. Nonces are kept only for messages that are not stored: for
stored ones the row itself decides.

### GenesisTriggers, Expansion, Genesis

`GenesisTriggers` is the interface: the trigger rows, which executors are in
flight, the circuit breaker and the rollout stage. `Expansion` EXTENDS it, so
whatever it shows holds for every executor that keeps the contract. `Genesis`
INSTANCEs it with `running <- InFlight` and keeps it (`KeepsContract`). Together
they are the composition of pipeline and executor, without the product of their
state spaces. What crosses the interface both ways is `ApproveLive` (Fire) and
`Halt`, which demotes the root while rulings are being made.

In `Expansion` each route is one action. `Killed` looks at the draft report as a
whole; `Best` counts slots over all reports and candidates over live ones;
`RuleInterrupted` is a crash between the decision's row and its effect, and `torn`
remembers it. In `Genesis` the awaits of the executor are the values of `at`.
`Throw` may happen at each (the transfer's own errors are `SettleFailed`), and is what
the catch in fireGenesisTrigger does (expansion.ts:8567-8573); `ActivateThrows` is a
throw between two of them, before the company's process was started or after it.
`raced`, `crowded` and `cut` (history) say whether two executors overlapped between
a cap's check and the row it counts, and whether a crash ended one.

### Fleet

`row` is what `agent_processes` says, `live` whether the process exists:
getAgentProcessStatus reconciles them (`Reading`). A pass of the sweep carries a
snapshot (`sawUp`, `sawDown`) over its awaits; `Restart` is restartAgentProcess,
which kills, waits and spawns (`AfterExit`) with the count it read before. The
lease has a holder and may lapse; `Release` gives back what the instance holds,
not what the pass got. `owner`, fixed at the start, says which instance runs which
pass: both belong to one, or each to its own. `word` is the last order given for a
company, `excused` says whether something was under way when it was killed. `launches`
counts the health restarts of a window, without those made while another restart of
the company waits for its exit (`Leaving`): these are what the code loses count of.

Left out: spawnAgentProcess refuses an agent that is not active (orchestrator.ts:168-173),
and a launch may fail (healthCheck.ts:208-213). Both only start less.

### Marketplace

A handler's `at` is where it awaits; `deal` is the listing row it read and the two
authorizations it came with. `rows` are invocations by the settlements they name,
`sent` and `mined` the chain. A file is named by the version that brought it, `doomed`
are unlinks under way. Nonces are spellings, as in PaidInference: the lookup and the
key of `listing_auth_nonces` compare strings, `SignedBy` says which signature covers
which. A write with the backend's key (`Authorized(NoLeg)`) burns nothing. A nonce
conflict in the insert rejects an async Express 4 handler without a catch, which ends
the process: `BurnConflict`.

## 3. Runs

| Run | Instance | Shows |
|---|---|---|
| `task_store` | 2 goals, 3 tasks, 1 agent, 1 retry | the seven properties of TaskStore |
| `orchestrator_local` | 2 goals, 2 tasks, 2 local workers, 1 sandbox, 1 retry, 1 replan, 1 crash | `RefinesStore`, `PhaseFitsGraph`, `FirstCycleKeepsTask` |
| `orchestrator_remote` | 2 goals, 2 tasks, 1 child, 1 sandbox, 0 retries, 1 replan, 1 crash | `PaysForCurrentTask`, with results, transfers and health checks |
| `orchestrator_progress` | 1 goal, 2 tasks, 1 child that may be declared failed | `GoalsMakeProgress` |
| `colony_health` | 1 goal, 2 tasks, 2 children, 1 retry | `HealKeepsGraph`, `UnheardIsMoved` |
| `agent_inbox` | 2 rows, the second a result; batch 1, 3 tries, 2 errors in a row, 1 crash | `ToldWithinRetries`, `ResultIsTaken` |
| `social_relay` | 2 messages, 2 overlapping runs, pages of 1, any order of inserts, 1 retry, 1 crash | `CursorSkipsNothing`, `LostIsRedelivered` |
| `paid_inference` | 2 nonces that are 2 authorizations of one agent or 2 spellings of one, money for one, 2 requests, 2 passes of the sweep, 1 crash | `KeepsPromise`, `OneCompletion`, `DebitedOnce`, `NothingStranded`, `ForfeitedUnpaid`, `OrphansSettle` |
| `expansion` | 2 opportunities, one below the floor, 1 slot, 1 department, graduation after 1 packet | `RulingTakesEffect`, `LiveStageEarned`, `FreeSlotIsUsed` |
| `genesis` | 2 approvals, 1 company a day, funding for one and a half, 1 crash | `KeepsContract`, `SpawnCapHolds`, `FundingWithinCaps`, `TriggerTellsOutcome`, `TriggerResolves` |
| `fleet` | 1 company, 2 passes of one instance or of two, 1 restart route, 2 restarts a window | `KillHolds`, `RestartBudget`, `PassesTakeTurns`, `DeadIsRestarted` |
| `marketplace` | 1 zip and 1 url listing, 2 invocations, 2 writers, 1 signature in 2 spellings, 1 pair of legs, budget 1, 2 versions, 1 crash | `BudgetHolds`, `SignatureOnce`, `SettledIsEvidenced`, `TokenServes` |

The properties, in words.

*Task graph and orchestrator.* `GraphIsSound` (dependencies stay inside one goal
and acyclic), `BlockedIsWaiting` (no lost wake-up), `AssignedAfterDeps`,
`CompletedGoalIsDone`, `ActiveGoalCanMove` (an active goal always offers a next
move), `DoneIsFinal`; `RefinesStore` (the orchestrator with its awaits, workers,
tools and crashes changes the graph only by steps TaskStore allows, so everything
proved of TaskStore holds of it); `PhaseFitsGraph` (the saved phase is never one
the graph contradicts, crashes included); `FirstCycleKeepsTask` (until the agent
has slept, a live worker loses its task only by completion or cancellation);
`PaysForCurrentTask` (a transfer is in flight only for a task in that agent's
hands); `GoalsMakeProgress`.

*Colony.* `HealKeepsGraph`: the monitor writes past every check of the task graph, yet
keeps its invariants as long as no report was overtaken. `UnheardIsMoved`: a child
whose only task never reached it is relieved of it. `ToldWithinRetries`: the model is
told a message no more often than it was tried. `ResultIsTaken`: a worker's result is
taken by one reader or the other, unless stuck rows fill the batch before it.
`CursorSkipsNothing`: the client's cursor passes only what is stored, about to be, was
lost, or was inserted below a key already handed out. `LostIsRedelivered`: a lost page
is claimed again, unless the cursor passed it meanwhile.

*Money.* `KeepsPromise` (under each spelling of its nonce the gateway implements
AuthorizationLife: fresh, held, owed, then paid or forfeited, with a way back only
while the provider has produced nothing), `OneCompletion` (per spelling), `DebitedOnce`
(requests and overlapping passes enter a completion once; each further entry had its
own chance, a row two passes had at once or a crash between a pass's two statements),
`NothingStranded` (only a crash leaves a reservation without keeper), `ForfeitedUnpaid`
(written off but paid only if an answer was lost, is awaited, or was debited under
another spelling), `OrphansSettle`. In the marketplace:
`BudgetHolds` (overspent by at most one sale for each other invocation),
`SignatureOnce` (one write for each spelling of the nonce at most),
`SettledIsEvidenced`, `TokenServes`.

*Expansion.* `RulingTakesEffect` (a final ruling has one effect, once, unless torn
by a crash), `LiveStageEarned` (a live root, and any trigger, needs the dry-run
packets graduation asks for), `FreeSlotIsUsed`; `KeepsContract`, `SpawnCapHolds`
and `FundingWithinCaps` (unless executors overlapped where the code checks early,
or a transfer reported as failed went through), `TriggerTellsOutcome` (completed
means a tested, equipped and started company, or one that failed its tests and
halted the pipeline; failed means nothing was started, or a complete company whose
executor threw after starting it), `TriggerResolves`.

*Fleet.* `KillHolds`, `RestartBudget` (the restarts of one window, which is what the
code counts by), `PassesTakeTurns`: each names exactly the overlaps in which the code
does not keep it. `DeadIsRestarted`.

**Bounds.** Ids are the bound on the graph: three tasks give chains, fan-in and
fan-out and two decompositions; two tasks give a dependency, which is all that the
interaction of ticks and workers distinguishes. `MaxRetries`, `MaxReplans` 0 or 1
reach both sides of each comparison. One crash can fall into any await. `Copies` is
the number of equal results in the inbox at once; success and failure for one task are
different results, so contradictions are there with one copy. `HealthReports` and
`Cancellable` choose which external events an instance has. In `paid_inference` two
requests are what it takes to race for one authorization or for one balance, and two
passes for one orphan; funds 1 makes the balance bite. `MaxShares` bounds how often
passes overlap over one row: past one chance of a second entry no pass selects a row
that another has. In `genesis` the caps admit one company, or one and a half fundings,
so that both the refusal and the clamp happen and two executors can overlap over
either. In `expansion` one slot and one department keep the dossier small: what the
departments do to one another is independent, and the second opportunity takes or
gives up the slot. In `fleet` the two passes belong to two instances, where the lease
keeps them apart, or to one, where a pass can give back the lease of the other
(`slipped`); that a third then starts beside it is too large for TLC and is what
`PassesTakeTurns` excepts. In `social_relay` and `agent_inbox` two messages make
order, page and batch bite. In `marketplace` both invocations carry the same pair of
legs and both writers the same signature: the collisions are the point. Ids are
interchangeable, so safety runs use symmetry; the runs with liveness do not.

Deadlock is checked for every run but the orchestrator's (a program that has used
up its ids has nothing left to do), the gateway's (it may rest when every
authorization has expired) and the marketplace's (its versions and crashes are
bounded).

**Fairness.**

- *Orchestrator* (`FairSpec`). The loop calls tick again after every turn and every
  await returns (model calls and HTTP have timeouts): weak fairness on `TickStep`
  and on the workers. A plan that is reviewed again and again is approved some
  day: strong fairness on that answer (with supervised review and a critic that
  never approves, the code loops for ever, and the model agrees). The parent does
  the tasks it assigned to itself: strong fairness, since the tool is only
  available between ticks. A child not known to have failed reports on what it
  was sent, the recovery of a failed child's tasks being the code's: weak fairness
  per child and task. The last three are assumptions on models and on other
  processes, not facts of the code.
- *ColonyHealth*. The check is on the heartbeat's schedule and tasks grow old:
  strong fairness on a report that has the child in it, since the condition comes
  and goes as other callers change the graph; strong fairness on the heal, since
  not every pass is abandoned before it comes to the child.
- *AgentInbox*. The agent wakes (weak). Strong fairness on the steps of a turn says
  that not every turn fails or rests and that a goal is executing.
- *SocialRelay*. Polls go on and claims age (weak); not every request is lost, nor
  every answer (strong).
- *PaidInference*. Weak fairness says of the passes together that some pass goes on
  (90 second schedule, and not every one hangs in an await), and that time passes
  until every authorization has expired. Nothing is assumed of requests, the
  provider or the chain.
- *Expansion*. The selection job runs every two minutes (weak). Nothing is assumed
  of departments or of the CEO.
- *Genesis*. Every await of an executor ends, with an answer or an error (weak).
- *Fleet*. Ticks of the sweep, the awaits of a pass and of a route, and the lease's
  expiry (weak).

`orchestrator_progress` has no crash because one loses liveness for good inside the
orchestrator: a crash after assignTask and before the message is sent leaves a task
with a child that is alive and never hears of it. That the health monitor gets it
out of there is `UnheardIsMoved`. It has no cancellation because that blocks the
next goal, and no local workers because a task may be given to one that has ended
(section 4).

`TypeOk` of TaskStore is checked and proved; those of Orchestrator, PaidInference,
Marketplace, Expansion, Genesis, Fleet and AgentInbox are proved, as theorems of
their own or as a conjunct of the inductive invariant. TLC checked them while the
modules were written; no run spends itself on them.

## 4. Observations

What the models show the code to do, where a document, a comment or a reader
would expect something else. Each is a behaviour of the modules, and where a
property would not hold because of it, the property names it as an exception.

Task graph and orchestrator:

- A local worker that has ended keeps its `children` row, so getIdle offers its
  address; the task given to it is never run, is reset by the next tick's stale
  recovery and is given to it again (orchestrator.ts:951).
- Stale recovery asks the pool of the current wake cycle, and workers outlive
  their cycle (loop.ts:193): after a sleep it takes tasks from live workers.
- cancel_goal (tools.ts:3764) leaves the saved state pointing to a goal that is
  neither completed nor failed, so the orchestrator stays in `executing`.
- The health monitor's report is older than the heals that act on it
  (health-monitor.ts:368-452): a task that was completed, reset or given away in between
  is assigned again, dependencies met or not (`misled`).
- The health monitor judges a task that was never started by its creation time, so
  a task created long ago is stuck as soon as it is assigned. Nobody sends a
  reassigned task to its replacement. A child in an error loop is stopped at each
  pass and keeps its task.
- Inbox rows claimed by a turn that rests or dies stay `in_progress`; failed and
  stranded rows keep `processed_at` NULL and can fill every batch the tick reads.
  An error before the model call keeps the text, so the model is told it twice; an
  error after the turn was stored sets processed rows back to received. A cycle
  whose turns each end the cycle claims no mail.

Relay:

- When an answer is lost and a later message is stored first, the cursor has passed
  the lost one: the relay takes its claim back but no poll asks for it, contrary to
  the retry the comment at socialRelay.ts:279-282 describes. The client never
  acknowledges.
- The comment at socialRelay.ts:296 calls the paging "stable under concurrent
  inserts". Its key is Date.now() and a ulid(), which is not monotonic within a
  millisecond (socialRelay.ts:227-233): a message inserted after a page was handed out,
  with a smaller id in the same millisecond, after a clock step back or by a slower
  process, lies below that page's cursor and no later poll asks for it (`belated`).

Paid inference:

- inferenceGateway.ts:211-219 and 478-482 say that one signed authorization cannot be
  served to two requests. The reservation is keyed by the nonce as the request spells
  it, and nothing normalizes it; the signature check and the chain read its bytes. One
  authorization in two spellings is reserved, served and, if both are answered before
  the transfer is mined, debited twice, for one transfer. `OneCompletion`, `DebitedOnce`
  and `KeepsPromise` are therefore stated per spelling.
- The comment at inferenceGateway.ts:310-314 says that under the lease "a slow
  reconciliation pass can't overlap itself across a restart or a second process". It can
  from the first tick after the lease's five minutes, in the same process too. Two
  passes with one orphan may both settle it and both write a usage_log row: the second
  transfer is a copy of one not yet mined. A pass may also write off or resolve a row
  that the other has just resolved or written off.
- A write-off never releases its nonce: the DELETE violates the orphan row's
  foreign key (inferenceGateway.ts:335) and ends the pass in an exception, where the
  notes at the head of the file say the nonce is freed.
- Settlement counts as confirmed when the transaction is broadcast
  (facilitator.ts:239), so a debit can stand for a transfer that reverted.

Expansion and genesis:

- payments.value_usdc holds atomic units (facilitator.ts:188-198 and the comment at
  genesis.ts:371-378); isEligibleForExpansion (expansion.ts:5295-5301) and the
  portfolio cap (expansionCircuitBreaker.ts:149-153) take it for USDC, so
  graduation's profit and the cap are too large by 10^6. In the models the profit is
  nondeterministic and the cap a constant.
- An approved opportunity keeps the status `selected` and holds its slot.
- A crash between a ruling and its effect (expansion.ts:8272-8304) leaves a ruling
  that is final and without effect. A crash of an executor leaves a `pending`
  trigger that nothing resumes, and a shell in `creating` counts against the parent
  for ever (cloning.ts:100). A crash between the breaker's row and the demotion
  leaves the root live and halted; the executor's first check then refuses.
- Comments in genesis.ts say that a throw leaves the trigger `pending`;
  fireGenesisTrigger marks it `failed`.
- An executor that throws after it started the company (schedulePostLaunchReview at
  genesis.ts:1818, or the database and the key in registerGenesisIdentity,
  genesisErc8004.ts:100-110) turns the completed trigger of a company in operation into a
  `failed` one. The source calls such a throw a harness bug (genesis.ts:1760-1764).
- resumeExpansionPipeline has no caller.
- Findings are read again when the executor runs, and may differ from those the CEO
  ruled on. A payment to the new company's address before its funding makes the
  funding throw (channelService.ts:572-584).

Processes:

- A company killed before its activation is started by it. One that had crashed and
  is then killed keeps its `crashed` row, the kill switch reports success, and the
  sweep starts it again (expansionKillSwitch.ts:38-45 promises otherwise).
- healthCheck.ts:67-76 (and 150-151) says that restart_count means restarts "without an
  intervening healthy tick" and is reset as soon as a sweep finds the agent healthy.
  resetRestartTrackingIfStale (156-162) looks at the window only: a company that is
  healthy between its crashes still runs out of restarts, and its circuit opens.
  `RestartBudget` is about the count the code keeps.
- Two restarts of one company that overlap count as one: the second writes what the
  first read before it waited for the exit.
- A restarted process may be judged hung by the state file of its predecessor.
- A pass that outlives its lease gives back, when it ends, the lease a later pass of
  the same instance holds (scheduler.ts:188).

Marketplace:

- The comments at marketplace.ts:795-797 and db.ts:545-547 say that a signature is good
  for one write. The nonce is looked up and stored as the string the request sent
  (marketplace.ts:771-800), the signature covers its bytes: each spelling of the hex
  digits is good for a write of its own.
- A row is recorded as `delivered` also when the fee or the seller's share was not
  settled (marketplace.ts:1731 and 1757); reputationFor's comment takes delivered for
  settled. The fee is kept when the seller's leg fails.
- One authorization can be presented to several invocations while its transfer is
  not mined.
- A download serves the listing's current file, not the one of the version sold.

## 5. Proofs

`TaskStoreProofs` proves, for any number of goals, tasks, agents and retries,
from `TaskGraphAssumption` alone (NULLs are not ids, the task ids are finitely
many, MaxRetries is a number):

- `TypeCorrect`, `GraphStaysSound`, `NoLostWakeUp`, `DependencyOrder`,
  `CompletedMeansDone`, `ActiveGoalsMove`: the six invariants of `task_store`;
- `DoneStaysDone`: its action property.

The inductive invariant `IInv` is the conjunction of five of the invariants with
`ActiveHasOpenWork` (an active goal with tasks is not all done) in place of
`ActiveGoalCanMove`, which is not inductive: that a next move exists follows
from it, from acyclicity (the set of open tasks has a task without open
dependencies) and from `BlockedWaits` (that task is not blocked).

In `TaskGraphProofs`, one lemma per transition shows that it keeps the record
`Consistent`. Transitions
that complete nothing and add no row share `StatusStep`. Replanning needs a
weaker starting point, `ConsistentBut`: the reset may leave its goal active with
every task done, and the decomposition that follows in the same step refreshes
it. The two facts about acyclicity, that inserting a validated decomposition and
removing a whole goal keep it, are the heart of `DecomposePreserves` and
`PrunePreserves`.

`OrchestratorProofs` proves, for any number of goals, tasks, workers, children,
replans, wake cycles and crashes, from `TaskGraphAssumption` and
`OrchestratorAssumption` (the kinds of agents are disjoint, health checks write
child statuses, the limits are numbers):

- `ImplementsStore`: the refinement to `TaskStore`, so that the theorems about the
  store hold of the orchestrator; `GraphStaysConsistent` states its invariants there;
- `PhaseFits` (`PhaseFitsGraph`) and `TypeCorrect`;
- `FirstCycleKeeps`, `PaysForCurrent`: the action property of `orchestrator_local` and
  the invariant of `orchestrator_remote`, from a second invariant, `HoldInv`.

The refinement hangs on one fact: whatever the tick hands over has its
dependencies completed. The ready list is read once and used across spawns and
transfers, while workers and tools write the graph. So the invariant `OInv` says of
every task still in the tick's hands (`Hand`: the rest of the ready list, the task a
spawn is awaited for) that it is a row and its dependencies are completed
(`TickFits`); no step of anybody undoes this, because rows keep their dependencies
and completed tasks stay completed (`Grows`). `StateFits` adds what the saved state
and the running tick know of their goals, which may differ: a goal exists, from the first plan on it has
tasks, and `replanning` is entered with replans left and a failed task, which stays
failed until the replan resets it. `WorkFits` says that workers run rows of the
table (the rows' goal is where `delegate_task` adds tasks). Each change of the graph
is shown once to be a step of the store that keeps old rows (`GraphStep`); a step of
the orchestrator then only has to fit the tables as they were before it
(`FitsBefore`). The reset before a replan keeps completed tasks but not failed ones,
so the steps that write a plan have a lemma of their own (`NewTasks`).

`FirstCycleKeepsTask` says that no step takes a task from a live worker, and
`PaysForCurrentTask` that a transfer is for a task its agent has: both about what
somebody read earlier and still relies on. `HoldInv` ties the two together, as long
as the agent has not slept with workers at work: every live worker is in the pool
and holds its task, assigned to it or finished or cancelled since (`WorkersHold`);
what the tick has still to hand over is pending, so giving it away takes it from
nobody, and the task of a transfer is with the agent that is paid (`TickHolds`); no
result the tick has collected is about a live worker's task. It needs `OInv`: a
failure blocks the assigned dependents of the failed task, and that there are none
follows from `AssignedHasDeps`, since an assigned task's dependencies are completed
and not failed (`FailSteady`). Recovery takes tasks only from agents that are not in
the pool, and that is where the hypothesis on sleep is used (`RecoverSteady`): after
a sleep there is a new pool and the code does take them (section 4). Every
transition of the graph is shown once to be `Steady`, leaving the tasks of a set of
holders alone, and each step of the orchestrator then has to name the transition.

`PaidInferenceProofs` proves, for any number of nonces, authorizations and ways to
spell them, agents, requests in flight, overlapping passes and crashes, from
`PaidInferenceAssumption` (requests and passes are different processes, the passes
finitely many, every nonce has an authorization and every authorization a payer, the
limits are numbers):

- `PromiseKept`: the refinement to `AuthorizationLife`. Each step moves one
  nonce along an allowed edge (`OnlyMoves`) or none (`Rests`); a crash is
  the abstract `Die`.
- `TypeCorrect`, `OneCompletionEver`, `DebitedOnceOnly`, `NothingStrandedYet`,
  `ForfeitedMeansUnpaid`: the invariants of `paid_inference`.

None of these is inductive. The invariant `IInv` is `Fits` and `DebitsFit`. `Fits` adds
what a request at work knows of its nonce (reserved, no debit, no orphan row yet, no
completion while it waits for the provider: `RequestsFit`), that no two requests are at
work on one (`Exclusive`), that a pass's rows exist and the one in its hands is visited
once (`SweepFits`; that it is still unresolved cannot be said, since another pass may
have resolved it), that an unreserved nonce has left no trace (`TablesFit`), and that a
transfer on its way or mined has its answer entered, lost or awaited under some
spelling (`TransfersAccounted`).

`DebitsFit` carries `DebitedOnce`: each pass that has a row may still debit it, so the
entries and the passes that have the row (`Holders`) together are at most one more than
its chances. A pass that selects a row becomes a holder; it is the first one, of a row
without debit or with a chance for each, or it takes a chance with it. A pass that
settles a row turns from a holder into an entry; one that dies between its two
statements leaves the row to be selected again, and a chance.

`MarketplaceProofs` proves, for any number of listings, invocations, writers,
signatures, authorizations, versions and crashes, from `MarketplaceAssumption` (the
handlers are finitely many, the two kinds of listings and of legs are disjoint, a
listing row is not NULL, the budget is positive):

- `TypeCorrect`, `BudgetOverdraftBounded`, `SignatureOncePerSpelling`,
  `SettlementsEvidenced`, `TokensServe`: the four invariants of `marketplace`.

`SettledIsEvidenced` and `TokenServes` need a companion, the other two are not
inductive. `BudgetFits` says that spent sales and invocations in flight together stay
within the bound: each invocation in flight may still debit once, and it was let in
below the budget. `SignaturesFit`: a signature was accepted exactly once for each of
its spellings that is burnt. `LegsFit`: past each broadcast, the leg is with the
chain, so a row never names a share without its fee. `FilesFit`: the current file is
there, only earlier ones are unlinked, and no invocation holds a version to come, so
that an upload between sale and download leaves something to serve.

`ExpansionProofs` proves, for any number of opportunities, departments, slots and
packets, any executor that keeps the contract of GenesisTriggers, and crashes
between any two statements, from `ExpansionAssumption` (finitely many opportunities
and departments, the limits are numbers):

- `RulingsTakeEffect`, `LiveIsEarned`: the two invariants of `expansion`.

Both are nearly inductive. `IInv` adds the types and `RunningFired` (an executor in
flight has a trigger), without which the contract's steps could be taken to fire
one. That a stage once earned stays earned rests on packets never being deleted
(`PacketsEarn`). The steps are grouped by what they touch: marks and dossiers
(`MarksStep`), executors (`ExecutorStep`), rulings (`RulingStep`).

`GenesisProofs` proves, for any number of approvals, executors in flight, caps and
crashes, from `GenesisAssumption`:

- `ExecutorKeepsContract`: the refinement to GenesisTriggers, so that what is
  proved of Expansion over the contract holds over this executor;
- `SpawnCapKept`, `TriggersTell`: the daily cap on spawns, and that a trigger's
  status tells what became of its company.

The refinement rests on `TriggersFit`: up to the settlement the trigger of an
executor in flight is pending, in the tests it is completed, and the company's row
is pending from the tag to the end of the tests. `SpawnsFit` counts, beside the
tagged rows of the last day, the executors that were let in and have not tagged
theirs (`Uncounted`): the sum stays within the cap until an approval comes while an
earlier executor is still before its tag, the exception `SpawnCapHolds` names.
`OutcomeFits` says for each place of an executor what its company has been given so
far. What an executor does to another's company, nothing, is a lemma
(`ExecutorAlone`).

- `FundingKept`: `FundingWithinCaps`, the portfolio's and the day's cap on what leaves
  the root's wallet; `TypeCorrect`: the whole type invariant.

The caps are read before two awaits and the row they count is written after them, so
the invariant counts, beside the rows, the fundings that were cut to size and have no
row yet: `CapsFit` bounds the total over `Paid \cup Clamped`, and over its part of
the day. Without a race `Clamped` is empty when an amount is settled on, and the
room it was cut to is what that total leaves (`ClampPays`); writing the row moves an
opportunity from one part of the union to the other; a failure, a throw, a crash
or a new day takes some out (`CapsShrink`). `PaymentsFit` says that the row is
written once and that a transfer has one.

The sums are folds over sets (`MapThenSumSet`), of which the library has no theorem.
`Total` names them, and three lemmas are all that is used: adding an element adds
its amount (`TotalAdds`), a subset totals no more and only the amounts of the set
count (`TotalShrinks`), and totals are numbers (`TotalUnfolds`). They rest on an
induction over the size of a set. The library's induction theorems take an operator,
which the provers cannot instantiate; `Induction` states it of a set of numbers
instead (a set with 0 that is closed under + 1 is all of them) and has it from the
well-foundedness of < on the numbers. By it the fold's recursion has a solution
(`SumsExist`), the solutions agree (`SumsAgree`), and any element may be taken first
(`TotalTakes`).

`SocialRelayProofs` proves `CursorKeeps` (`CursorSkipsNothing` of `social_relay`) for
any number of messages, runs in flight, retries and crashes and any length of a page,
from `SocialAssumption`. Call a message covered when it is stored, in the page of a
run, was lost with its answer, or came in belated. The invariant says what is covered:
every message that was ever claimed (`RelayFits`), everything up to the cursor, up to
the cursor a run asked with, and before a message of a page (`CursorsFit`). The last
holds because a page holds the first candidates (`PageIsPrefix`): what an answer jumps
over had been claimed before, or was not there, and is belated if it comes. A nonce
without its row exists only after a crash in the middle of storing (`NoncesFit`), so
that a message the replay check refuses is one whose answer was lost.

Its second part proves `ToldNoOftenerThanTried` (`ToldWithinRetries` of
`agent_inbox`), from `InboxAssumption`. A message in a turn's input is about to be told,
so the invariant `InboxInv` keeps one try in hand for it (`InputUntold`), through
errors after which the input survives, rests and crashes.

`TaskStoreProofs` goes on to ColonyHealth, whose environment is any step of the store:
`HealsKeepGraph` (`HealKeepsGraph` of `colony_health`). The monitor's two UPDATEs check
nothing, so what makes a heal harmless is what its report still says of the task:
unless somebody touched the task since (`misled`), it lies assigned with the child it
was reported for (`ReportHolds`), and giving an assigned task to somebody else keeps
the record consistent (`ReassignPreserves`). `ColonyInv` adds that no task is reported
for two children, so that healing one entry does not touch another.

`ExpansionProofs` goes on to Fleet, for any number of companies, instances, passes and
restarters, from `FleetAssumption`: `KillStands`, `BudgetKeeps`, `PassesAlternate`,
the three invariants of `fleet`, and `FleetTypeCorrect`. `KillHolds` says a killed row
stays killed; the invariant (`KillIsFinal`) that, outside the overlaps it excepts,
nothing under way is about to start the company: no restarter waits with it, no pass
has it in a snapshot, and its genesis is not yet to start it. For the budget, neither
the count in the row nor one that a restarter carries across its await is below the
launches counted, and what it carries is below the budget (`CountFits`). A launch is
counted only when no other restarter of the company waits, so no count that is older
than the launch can be written back after it. A pass that has not outlived its lease
holds it (`LeaseFits`), so two of them are one.

Every invariant and every action property that a run checks, and each of the three
refinements, is proved. Only model-checked is liveness, which is beyond TLAPS:
`GoalsMakeProgress`, `OrphansSettle`, `FreeSlotIsUsed`, `TriggerResolves`,
`DeadIsRestarted`, `UnheardIsMoved`, `LostIsRedelivered`, `ResultIsTaken`.

## 6. Not modelled

- *Policy engine and spend tracker, replication and lifecycle, credits and
  survival.* Predicates over one call and transition tables with unit tests, without
  steps of several actors that are not already in the modules above. Of the
  lifecycle, Orchestrator keeps what the tick meets: a child the tracker registered
  twice cannot be started.
- *Inference client, memory, soul, skills, self-modification, registry, browser,
  infra, distribution, identity, setup, CLI.* Text and adapters to outside services;
  little state that several actors share.
- *Of the expansion pipeline*: the contents of reports, scores and findings, the
  duplicate check over titles, post-launch reviews, and the cooperative part of the
  kill switches (freezing funds, exit flags polled by the agent: an `Exit` of Fleet).
- *Of paid inference*: the 24 hour budget, whose check has the marketplace's shape
  (`BudgetHolds`), prices, tokens, the payments log.
- *Of the marketplace*: search, ratings, flags, storage arithmetic, prices.
- *Channels and departments.* Their routes are synchronous: each call is one step
  on one row, checked where it is made.
- *VM, wallet files, domains, DNS, reports, tools.* I/O.

## 7. Plan

1. Proofs: bounds for the exceptions that `raced` and `crowded` name, that is, how
   far overlapping fundings and approvals can pass their caps.
2. `ChildLifecycle`: the legal transitions of `replication/lifecycle.ts` under
   concurrent spawn, health check and cleanup.
3. `SpendWindows`: the policy engine's sums, read before a tool call and written
   after it.
