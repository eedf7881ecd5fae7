----------------------------- MODULE PaidInference -----------------------------
(***************************************************************************)
(* The backend's paid inference: POST /inference/chat (inferenceGateway.ts),*)
(* settleAuthorization (facilitator.ts), the orphaned settlements the route *)
(* records and the sweep that retries them.                                *)
(*                                                                         *)
(* A request and a pass of the sweep are processes that stop at each await: *)
(* "verify" (the facilitator's verdict), "infer" (the provider), "settle"  *)
(* and "sent" (settleAuthorization before and after the transfer is         *)
(* broadcast).  "row" is a pass between two rows.  From one await to the    *)
(* next a step is atomic, since Node runs it without interruption and      *)
(* better-sqlite3 is synchronous; only a crash can fall between two of its *)
(* statements.                                                             *)
(*                                                                         *)
(* The tables go by the nonce as the request's JSON spells it; signature    *)
(* and chain go by the authorization.  A nonce has several spellings (the  *)
(* signature does not tell them apart), so one authorization may stand      *)
(* under several keys.                                                      *)
(*                                                                         *)
(* Every authorization is for the price of one completion.  The payments   *)
(* table (a log that nothing here reads), prices and tokens are left out,  *)
(* and so is the budget of 24 hours: the model lets every call through.    *)
(***************************************************************************)
EXTENDS Naturals, FiniteSets

CONSTANTS
  Keys,        \* nonces as requests spell them: the tables' keys
  Auths,       \* signed authorizations
  Namings,     \* the ways in which keys may stand for authorizations
  Requests,    \* calls of POST /chat
  Sweepers,    \* passes of the reconciliation sweep that can overlap
  Agents,      \* paying agents
  Payer,       \* Payer[a]: the agent that signed a
  Funds,       \* completions an agent's wallet can pay for
  MaxCrashes,  \* bound: crashes of the backend process
  MaxShares,   \* bound: chances of a second debit, past which no passes overlap
  NoKey        \* a process that holds no key

ASSUME PaidInferenceAssumption ==
  /\ Sweepers \cap Requests = {} /\ IsFiniteSet(Sweepers)
  /\ NoKey \notin Keys
  /\ Namings \subseteq [Keys -> Auths]
  /\ Payer \in [Auths -> Agents]
  /\ Funds \in Nat /\ MaxCrashes \in Nat /\ MaxShares \in Nat

Processes == Requests \cup Sweepers

VARIABLES
  reserved,    \* inference_nonce_reservations: the keys that have a row
  orphan,      \* status of a key's orphaned_inference_settlements row, or "none"
  usage,       \* number of usage_log rows for a key
  auth,        \* the authorization a key stands for; it never changes
  chain,       \* an authorization's transfer on chain
  funds,       \* the payers' balances on chain
  expired,     \* authorizations past their validBefore
  at, on,      \* where each process awaits, and its key
  todo,        \* rows a pass of the sweep has still to visit
  made,        \* completions the provider produced for a key
  lost,        \* history: a transfer's answer never reached the backend
  chances,     \* history: times a second debit of a key became possible, by a
               \* pass selecting a row another still has or by a crash
               \* between a pass's debit and the row's resolution
  crashes

tables == <<reserved, orphan, usage>>
world == <<auth, chain, funds, expired>>
procs == <<at, on, todo>>
history == <<made, lost, chances, crashes>>
vars == <<tables, world, procs, history>>

OrphanStatus == {"none", "unresolved", "resolved", "expired_writeoff"}
Settling == {"settle", "sent"}
Places == {"idle", "verify", "infer", "row", "over"} \cup Settling

\* Types, and the counters' ranges.
TypeOk ==
  /\ reserved \subseteq Keys
  /\ orphan \in [Keys -> OrphanStatus]
  /\ usage \in [Keys -> Nat] /\ made \in [Keys -> Nat]
  /\ auth \in [Keys -> Auths]
  /\ chain \in [Auths -> {"unused", "pending", "paid"}]
  /\ funds \in [Agents -> Nat]
  /\ expired \subseteq Auths
  /\ at \in [Processes -> Places]
  /\ on \in [Processes -> Keys \cup {NoKey}]
  /\ todo \in [Sweepers -> SUBSET Keys]
  /\ lost \subseteq Keys
  /\ chances \in [Keys -> Nat] /\ crashes \in 0 .. MaxCrashes

Init ==
  /\ reserved = {} /\ expired = {} /\ lost = {} /\ crashes = 0
  /\ orphan = [k \in Keys |-> "none"]
  /\ usage = [k \in Keys |-> 0]
  /\ made = [k \in Keys |-> 0] /\ chances = [k \in Keys |-> 0]
  /\ auth \in Namings
  /\ chain = [a \in Auths |-> "unused"]
  /\ funds = [g \in Agents |-> Funds]
  /\ at = [p \in Processes |-> "idle"]
  /\ on = [p \in Processes |-> NoKey]
  /\ todo = [s \in Sweepers |-> {}]

--------------------------------------------------------------------------------
(* Helpers *)

\* Process p goes on to await "place" with key k; a request's end and a pass's
\* return to its loop let the key go.
Await(p, place, k) ==
  /\ at' = [at EXCEPT ![p] = place]
  /\ on' = [on EXCEPT ![p] = k]

\* Variant: no foreign key.
Unreferenced(k) == FALSE

\* The foreign key of the orphan table: a reservation with an orphan row, of
\* whatever status, cannot be deleted.
Referenced(k) == orphan[k] # "none"

\* The DELETE of releaseNonce, which throws when the reservation is referenced.
ReleaseNonce(k) ==
  reserved' = IF Referenced(k) THEN reserved ELSE reserved \ {k}

\* The usage_log row.
Debit(k) == usage' = [usage EXCEPT ![k] = @ + 1]

\* The authorization's payer has the price.
CanPay(a) == funds[Payer[a]] > 0

\* writeContract can succeed: it estimates gas first, which reverts when the
\* authorization is used or expired or the balance is gone.
WouldTransfer(a) == chain[a] # "paid" /\ a \notin expired /\ CanPay(a)

--------------------------------------------------------------------------------
(* POST /chat up to the settlement *)

\* The quote is checked; the facilitator is asked to verify. Its
\* verdict may be overtaken by the authorization's expiry, by the balance and by
\* other requests. Neither ever improves, so only a call whose authorization is
\* good at this point can get a good one; any other gets its 402 and is left out.
Post(r, k) ==
  /\ at[r] = "idle"
  /\ auth[k] \notin expired /\ CanPay(auth[k])
  /\ Await(r, "verify", k)
  /\ UNCHANGED <<tables, world, todo, history>>

\* 402: by the time of the verdict expired, or without the balance.
PaymentInvalid(r) ==
  /\ at[r] = "verify"
  /\ auth[on[r]] \in expired \/ ~CanPay(auth[on[r]])
  /\ Await(r, "over", NoKey)
  /\ UNCHANGED <<tables, world, todo, history>>

\* Variant: a reservation already there is taken for one's own.
ClaimAnyway(r) ==
  /\ at[r] = "verify"
  /\ reserved' = reserved \cup {on[r]}
  /\ Await(r, "infer", on[r])
  /\ UNCHANGED <<orphan, usage, world, todo, history>>

\* claimNonce: the INSERT wins, no row has this spelling of the nonce.
Claim(r) ==
  /\ at[r] = "verify"
  /\ on[r] \notin reserved
  /\ reserved' = reserved \cup {on[r]}
  /\ Await(r, "infer", on[r])
  /\ UNCHANGED <<orphan, usage, world, todo, history>>

\* 409: the INSERT hits the primary key.
AlreadyUsed(r) ==
  /\ at[r] = "verify"
  /\ on[r] \in reserved
  /\ Await(r, "over", NoKey)
  /\ UNCHANGED <<tables, world, todo, history>>

\* Variant: the reservation is kept when the provider fails.
ProviderFailedKeeping(r) ==
  /\ at[r] = "infer"
  /\ Await(r, "over", NoKey)
  /\ UNCHANGED <<tables, world, todo, history>>

\* 502: neither the local model nor the fallback answered.
ProviderFailed(r) ==
  /\ at[r] = "infer"
  /\ ReleaseNonce(on[r])
  /\ Await(r, "over", NoKey)
  /\ UNCHANGED <<orphan, usage, world, todo, history>>

\* recordOrphanedSettlement, whose row refers to the reservation.
RecordOrphan(k) == orphan' = [orphan EXCEPT ![k] = "unresolved"]

\* The completion is there; settleAuthorization is called, which returns at
\* once for an expired authorization.
ProviderAnswered(r) ==
  LET k == on[r] IN
  /\ at[r] = "infer"
  /\ made' = [made EXCEPT ![k] = @ + 1]
  /\ IF auth[k] \in expired
       THEN RecordOrphan(k) /\ Await(r, "over", NoKey)
       ELSE UNCHANGED orphan /\ Await(r, "settle", k)
  /\ UNCHANGED <<reserved, usage, world, todo, lost, chances, crashes>>

--------------------------------------------------------------------------------
(* settleAuthorization, awaited by a request or by a pass of the sweep *)

\* Variant: the sweep ignores a success.
OnSuccessOfRequest(p, k) ==
  /\ IF p \in Sweepers
       THEN UNCHANGED usage /\ Await(p, "row", NoKey)
       ELSE Debit(k) /\ Await(p, "over", NoKey)
  /\ UNCHANGED <<reserved, orphan>>

\* What the caller does with success: the request debits and answers 200; the
\* sweep debits, resolves the row, whatever it says by now, and goes on.
OnSuccess(p, k) ==
  /\ Debit(k)
  /\ IF p \in Sweepers
       THEN orphan' = [orphan EXCEPT ![k] = "resolved"] /\ Await(p, "row", NoKey)
       ELSE UNCHANGED orphan /\ Await(p, "over", NoKey)
  /\ UNCHANGED reserved

\* ... and with failure: the request records an orphan and answers 402; the
\* sweep counts the attempt and goes on.
OnFailure(p, k) ==
  /\ IF p \in Sweepers
       THEN UNCHANGED orphan /\ Await(p, "row", NoKey)
       ELSE RecordOrphan(k) /\ Await(p, "over", NoKey)
  /\ UNCHANGED <<reserved, usage>>

\* Signature and balance are good and the transfer is broadcast; a second copy of
\* one under way changes nothing.
Broadcast(p) ==
  /\ at[p] = "settle"
  /\ WouldTransfer(auth[on[p]])
  /\ chain' = [chain EXCEPT ![auth[on[p]]] = "pending"]
  /\ Await(p, "sent", on[p])
  /\ UNCHANGED <<tables, auth, funds, expired, todo, history>>

\* writeContract returns a transaction hash: broadcast, not known to be mined.
Sent(p) ==
  /\ at[p] = "sent"
  /\ OnSuccess(p, on[p])
  /\ UNCHANGED <<world, todo, history>>

\* The balance is gone, or a call on the way throws (which settleAuthorization or
\* the sweep catches): nothing was broadcast.
NotSent(p) ==
  /\ at[p] = "settle"
  /\ OnFailure(p, on[p])
  /\ UNCHANGED <<world, todo, history>>

\* writeContract throws although the transaction was broadcast: its answer is
\* lost.
AnswerLost(p) ==
  /\ at[p] = "sent"
  /\ lost' = lost \cup {on[p]}
  /\ OnFailure(p, on[p])
  /\ UNCHANGED <<world, todo, made, chances, crashes>>

--------------------------------------------------------------------------------
(* reconcileOrphanedSettlements.  Its job lease (scheduler.ts) lasts five    *)
(* minutes and does not end a pass that takes longer, and a tick comes     *)
(* every 90 seconds.  A lease that is held may have lapsed by the next tick, *)
(* so that the lease decides when a pass starts, and never whether.        *)

\* Pass s has the row of key k before it or in its hands.
Has(s, k) == k \in todo[s] \/ (at[s] \in Settling /\ on[s] = k)

\* The lease is free or has lapsed, and these rows are selected; a pass that finds
\* none does nothing.
StartWith(s, rows) ==
  LET shared == {k \in rows : \E q \in Sweepers : Has(q, k)} IN
  /\ at[s] = "idle"
  /\ rows # {}
  /\ shared # {} => \A k \in Keys : chances[k] < MaxShares
  /\ todo' = [todo EXCEPT ![s] = rows]
  /\ chances' = [k \in Keys |-> IF k \in shared THEN chances[k] + 1 ELSE chances[k]]
  /\ Await(s, "row", NoKey)
  /\ UNCHANGED <<tables, world, made, lost, crashes>>

\* Variant: every row is selected.
SweepStartAll(s) == StartWith(s, {k \in Keys : orphan[k] # "none"})

\* A tick's pass starts with the unresolved rows, whoever else has them.
SweepStart(s) == StartWith(s, {k \in Keys : orphan[k] = "unresolved"})

\* A row whose authorization is still valid: settlement is retried.
SweepRetry(s, k) ==
  /\ at[s] = "row"
  /\ k \in todo[s] /\ auth[k] \notin expired
  /\ todo' = [todo EXCEPT ![s] = @ \ {k}]
  /\ Await(s, "settle", k)
  /\ UNCHANGED <<tables, world, history>>

\* The pass is over, by its last row or by an exception.
PassEnds(s) ==
  /\ todo' = [todo EXCEPT ![s] = {}]
  /\ Await(s, "idle", NoKey)

\* Variant: the reservation is released first, and the exception comes before
\* the row's UPDATE.
SweepReleaseFirst(s, k) ==
  /\ at[s] = "row"
  /\ k \in todo[s] /\ auth[k] \in expired
  /\ ReleaseNonce(k)
  /\ IF Referenced(k)
       THEN PassEnds(s) /\ UNCHANGED orphan
       ELSE /\ todo' = [todo EXCEPT ![s] = @ \ {k}] /\ UNCHANGED <<at, on>>
            /\ orphan' = [orphan EXCEPT ![k] = "expired_writeoff"]
  /\ UNCHANGED <<usage, world, history>>

\* A row whose authorization has expired is written off, whatever it says by
\* now, and its reservation released; the DELETE throws if the row still refers
\* to it, which ends the pass and leaves the other rows to the next one.
SweepWriteOff(s, k) ==
  /\ at[s] = "row"
  /\ k \in todo[s] /\ auth[k] \in expired
  /\ orphan' = [orphan EXCEPT ![k] = "expired_writeoff"]
  /\ ReleaseNonce(k)
  /\ IF Referenced(k)
       THEN PassEnds(s)
       ELSE todo' = [todo EXCEPT ![s] = @ \ {k}] /\ UNCHANGED <<at, on>>
  /\ UNCHANGED <<usage, world, history>>

\* The rows are done.
SweepEnd(s) ==
  /\ at[s] = "row"
  /\ todo[s] = {}
  /\ PassEnds(s)
  /\ UNCHANGED <<tables, world, history>>

--------------------------------------------------------------------------------
(* The chain, the clock and crashes *)

\* The transfer is mined: it succeeds if the payer still has the money, and else
\* reverts, which leaves the authorization unused.
Mined(a) ==
  /\ chain[a] = "pending"
  /\ IF CanPay(a)
       THEN /\ chain' = [chain EXCEPT ![a] = "paid"]
            /\ funds' = [funds EXCEPT ![Payer[a]] = @ - 1]
       ELSE chain' = [chain EXCEPT ![a] = "unused"] /\ UNCHANGED funds
  /\ UNCHANGED <<tables, auth, expired, procs, history>>

\* The transfer reaches a block only after validBefore.
MinedTooLate(a) ==
  /\ chain[a] = "pending" /\ a \in expired
  /\ chain' = [chain EXCEPT ![a] = "unused"]
  /\ UNCHANGED <<tables, auth, funds, expired, procs, history>>

\* validBefore passes.
Expire(a) ==
  /\ a \notin expired
  /\ expired' = expired \cup {a}
  /\ UNCHANGED <<tables, auth, chain, funds, procs, history>>

\* Every request and every pass is gone.
ProcessGone ==
  /\ crashes < MaxCrashes
  /\ crashes' = crashes + 1
  /\ at' = [p \in Processes |-> IF p \in Requests /\ at[p] # "idle" THEN "over" ELSE "idle"]
  /\ on' = [p \in Processes |-> NoKey]
  /\ todo' = [s \in Sweepers |-> {}]

\* The process dies (also of an RPC error inside /facilitator/verify or in a
\* request's own reading of the balance, which nothing catches), and with it the
\* answers of the transfers under way.
Crash ==
  /\ ProcessGone
  /\ lost' = lost \cup {on[p] : p \in {q \in Processes : at[q] = "sent"}}
  /\ UNCHANGED <<tables, world, made, chances>>

\* The process dies between a pass's INSERT into usage_log and its UPDATE of the
\* orphan's row.
CrashBeforeResolved(s) ==
  LET k == on[s] IN
  /\ at[s] = "sent"
  /\ Debit(k)
  /\ chances' = [chances EXCEPT ![k] = @ + 1]
  /\ ProcessGone
  /\ lost' = lost \cup {on[p] : p \in {q \in Processes \ {s} : at[q] = "sent"}}
  /\ UNCHANGED <<reserved, orphan, world, made>>

Request(r) ==
  \/ \E k \in Keys : Post(r, k)
  \/ PaymentInvalid(r) \/ Claim(r) \/ AlreadyUsed(r)
  \/ ProviderFailed(r) \/ ProviderAnswered(r)

Settlement(p) ==
  Broadcast(p) \/ Sent(p) \/ NotSent(p) \/ AnswerLost(p)

Sweep(s) ==
  \/ SweepStart(s) \/ SweepEnd(s)
  \/ \E k \in Keys : SweepRetry(s, k) \/ SweepWriteOff(s, k)

Outside == \E a \in Auths : Mined(a) \/ MinedTooLate(a) \/ Expire(a)

Die == Crash \/ \E s \in Sweepers : CrashBeforeResolved(s)

Next ==
  \/ \E r \in Requests : Request(r)
  \/ \E p \in Processes : Settlement(p)
  \/ \E s \in Sweepers : Sweep(s)
  \/ Outside
  \/ Die

Spec == Init /\ [][Next]_vars

\* The sweep ticks every 90 seconds, and not every pass hangs in an await; time
\* passes.
Fairness ==
  /\ WF_vars(\E s \in Sweepers : Sweep(s) \/ Settlement(s))
  /\ WF_vars(\E a \in Auths : Expire(a))

FairSpec == Spec /\ Fairness

--------------------------------------------------------------------------------
(* Properties *)

\* Some request awaits at one of these places with key k.
InHand(k, places) == \E r \in Requests : on[r] = k /\ at[r] \in places

\* A key's stage, seen from the tables and the requests in flight.
Life(k) ==
  IF usage[k] > 0 THEN "paid"
  ELSE IF orphan[k] = "expired_writeoff" THEN "forfeited"
  ELSE IF orphan[k] = "unresolved" \/ InHand(k, Settling) THEN "owed"
  ELSE IF InHand(k, {"infer"}) THEN "held"
  ELSE IF k \in reserved THEN "stranded"
  ELSE "fresh"

Promise == INSTANCE AuthorizationLife WITH life <- [k \in Keys |-> Life(k)]

\* The gateway with its concurrent requests, overlapping passes, crashes and late
\* chain answers implements the abstract life of a nonce as spelled: no
\* interleaving makes it fresh again once its completion was produced.
KeepsPromise == Promise!Spec

\* The provider is asked for at most one completion per spelling of a nonce,
\* however many requests carry it.  (The comments of claimNonce say so of the
\* signed authorization, which may come in several spellings.)
OneCompletion == \A k \in Keys : made[k] <= 1

\* A completion is entered in usage_log once, by the request or by one pass;
\* every further entry is owed to a chance of its own: a pass that outlived its
\* lease while the next one selected the row, or a crash before the resolution.
DebitedOnce == \A k \in Keys : usage[k] <= 1 + chances[k]

\* Without a crash nobody forgets a reservation: it is held by a request at
\* work, or its debit or its orphan row accounts for it.
NothingStranded == crashes = 0 => \A k \in Keys : Life(k) # "stranded"

\* The answer to a transfer of the authorization is entered, lost or awaited.
Answered(a) ==
  \E k \in Keys :
    /\ auth[k] = a
    /\ usage[k] > 0 \/ k \in lost \/ \E p \in Processes : at[p] = "sent" /\ on[p] = k

\* A settlement is written off although its authorization was paid only if that
\* payment's answer is under way to the backend or never reached it, or another
\* spelling of the same nonce has been debited for it.
ForfeitedUnpaid ==
  \A k \in Keys : Life(k) = "forfeited" /\ chain[auth[k]] = "paid" => Answered(auth[k])

\* No orphaned settlement stays unresolved for ever, although a write-off ends the
\* pass in an exception: each is resolved or written off in the end.
OrphansSettle == \A k \in Keys : []<>(orphan[k] # "unresolved")
================================================================================
