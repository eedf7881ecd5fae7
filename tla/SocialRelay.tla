------------------------------- MODULE SocialRelay -------------------------------
(***************************************************************************)
(* Mail between agents: the relay's table (backend socialRelay.ts), the     *)
(* client's poll (agent social/client.ts) and the heartbeat task            *)
(* check_social_inbox that stores what it brings (heartbeat/tasks.ts), for  *)
(* one recipient.                                                          *)
(*                                                                         *)
(* A run of the task asks, the relay claims a page and answers, and the run *)
(* stores it; the last is one synchronous stretch that only a crash cuts.   *)
(* The scheduler does not stop a run that exceeds its time, it goes on to   *)
(* the next (heartbeat/scheduler.ts).  Authentication, rate limits, the     *)
(* acknowledgement route, which the client never calls, and the pruning of  *)
(* failed rows are left out, and so is the back-off after an error.         *)
(*                                                                         *)
(* A message is named by its place in the order of (created_at, id).  That  *)
(* is not the order of the inserts: ulid() is not monotonic within a        *)
(* millisecond, the clock may step back, and handlers of two processes race *)
(* from Date.now() to the INSERT.                                          *)
(***************************************************************************)
EXTENDS Naturals, FiniteSets

CONSTANTS
  Last,        \* messages have the keys 1 .. Last
  Runs,        \* runs of check_social_inbox that may be in flight
  PageLimit,   \* messages of one answer
  MaxTries,    \* socialMaxDeliveryRetries
  MaxCrashes   \* bound: crashes of the recipient

ASSUME SocialAssumption ==
  /\ Last \in Nat /\ PageLimit \in Nat \ {0}
  /\ MaxTries \in Nat /\ MaxCrashes \in Nat

Messages == 1 .. Last

VARIABLES
  status,   \* social_messages.status, or "unsent"
  tries,    \* retry_count
  aged,     \* claimed longer ago than socialClaimTimeoutMs
  at,       \* "idle", "asked" or "answered"
  since,    \* the cursor the run asked with
  page,     \* the messages of the answer
  late,     \* runs the scheduler has given up on
  cursor,   \* social_inbox_cursor
  nonces,   \* messages not in the inbox that heartbeat_dedup holds
  inbox,    \* messages with a row in inbox_messages
  crashes,
  dropped,  \* history: messages whose answer was lost, or cut by a crash
  belated   \* history: messages inserted below a key handed out before

relay == <<status, tries, aged>>
runs == <<at, since, page, late>>
store == <<cursor, nonces, inbox>>
vars == <<relay, runs, store, crashes, dropped, belated>>

Init ==
  /\ status = [m \in Messages |-> "unsent"]
  /\ tries = [m \in Messages |-> 0]
  /\ aged = {}
  /\ at = [r \in Runs |-> "idle"] /\ late = {}
  /\ since = [r \in Runs |-> 0] /\ page = [r \in Runs |-> {}]
  /\ cursor = 0 /\ nonces = {} /\ inbox = {}
  /\ crashes = 0 /\ dropped = {} /\ belated = {}

--------------------------------------------------------------------------------
(* The relay *)

\* A cursor on its way, or a page that will bring one, is past the key of m.
Passed(m) ==
  \/ m <= cursor
  \/ \E r \in Runs : m <= since[r] \/ \E k \in page[r] : m < k

\* POST /v1/messages.
Send(m) ==
  /\ status[m] = "unsent"
  /\ status' = [status EXCEPT ![m] = "received"]
  /\ belated' = IF Passed(m) THEN belated \cup {m} ELSE belated
  /\ UNCHANGED <<tries, aged, runs, store, crashes, dropped>>

ClaimAges(m) ==
  /\ status[m] = "in_progress"
  /\ aged' = aged \cup {m}
  /\ UNCHANGED <<status, tries, runs, store, crashes, dropped, belated>>

\* Variant: a claim is never taken back.
KeptClaims == status

\* The claims a poll takes back before it looks: old ones, as often as allowed.
Reclaimed ==
  [m \in Messages |->
     IF m \notin aged THEN status[m]
     ELSE IF tries[m] >= MaxTries THEN "failed" ELSE "received"]

\* Variant: the newest messages come first.
NewestPage(S) == {m \in S : Cardinality({k \in S : k > m}) < PageLimit}

\* The first messages of S, as many as fit.
FirstPage(S) == {m \in S : Cardinality({k \in S : k < m}) < PageLimit}

\* POST /v1/messages/poll: reclaim, select past the cursor, claim.
RelayAnswers(r) ==
  /\ at[r] = "asked"
  /\ LET found == FirstPage({m \in Messages : Reclaimed[m] = "received" /\ m > since[r]})
     IN  /\ page' = [page EXCEPT ![r] = found]
         /\ status' = [m \in Messages |->
                         IF m \in found THEN "in_progress" ELSE Reclaimed[m]]
  /\ tries' = [m \in Messages |->
                 IF m \in aged /\ tries[m] < MaxTries THEN tries[m] + 1 ELSE tries[m]]
  /\ aged' = {}
  /\ at' = [at EXCEPT ![r] = "answered"]
  /\ UNCHANGED <<since, late, store, crashes, dropped, belated>>

--------------------------------------------------------------------------------
(* check_social_inbox *)

\* The scheduler starts a run when none holds the task's lease; it reads the
\* cursor and asks.
Ask(r) ==
  /\ at[r] = "idle" /\ \A q \in Runs : at[q] = "idle" \/ q \in late
  /\ at' = [at EXCEPT ![r] = "asked"]
  /\ since' = [since EXCEPT ![r] = cursor]
  /\ UNCHANGED <<relay, page, late, store, crashes, dropped, belated>>

\* The run exceeds its time: its lease is released, and it goes on.
TimeOut(r) ==
  /\ at[r] # "idle" /\ r \notin late
  /\ late' = late \cup {r}
  /\ UNCHANGED <<relay, at, since, page, store, crashes, dropped, belated>>

Ended(r) ==
  /\ at' = [at EXCEPT ![r] = "idle"]
  /\ since' = [since EXCEPT ![r] = 0] /\ page' = [page EXCEPT ![r] = {}]
  /\ late' = late \ {r}

\* next_cursor, the last message of the page.
NextCursor(r) ==
  IF page[r] = {} THEN cursor ELSE CHOOSE m \in page[r] : \A k \in page[r] : k <= m

\* The answer is stored: nonces, cursor, then one row for each message that
\* checkReplayNonce lets through.  The nonce of a stored message decides nothing
\* more: inbox_seen does.
Receive(r) ==
  /\ at[r] = "answered"
  /\ inbox' = inbox \cup (page[r] \ nonces)
  /\ cursor' = NextCursor(r)
  /\ Ended(r)
  /\ UNCHANGED <<relay, nonces, crashes, dropped, belated>>

\* The request fails, before the relay has seen it or after.
Lose(r) ==
  /\ at[r] # "idle"
  /\ dropped' = dropped \cup (page[r] \ inbox)
  /\ Ended(r)
  /\ UNCHANGED <<relay, store, crashes, belated>>

\* The agent dies, with answers in flight.
Die ==
  /\ crashes < MaxCrashes
  /\ crashes' = crashes + 1
  /\ at' = [r \in Runs |-> "idle"] /\ late' = {}
  /\ since' = [r \in Runs |-> 0] /\ page' = [r \in Runs |-> {}]
  /\ dropped' = dropped \cup ((UNION {page[r] : r \in Runs}) \ inbox)
  /\ UNCHANGED <<relay, belated>>

Crash == Die /\ UNCHANGED store

\* It dies while it stores an answer: after the nonces, or after the cursor and
\* some of the rows.
CrashInReceive(r) ==
  /\ at[r] = "answered" /\ page[r] # {}
  /\ \/ UNCHANGED <<cursor, inbox>>
     \/ /\ cursor' = NextCursor(r)
        /\ \E done \in SUBSET (page[r] \ nonces) :
             /\ \A m \in done, k \in page[r] \ nonces : k < m => k \in done
             /\ inbox' = inbox \cup done
  /\ nonces' = (nonces \cup page[r]) \ inbox'
  /\ Die

\* A nonce expires.
NonceExpires(m) ==
  /\ m \in nonces
  /\ nonces' = nonces \ {m}
  /\ UNCHANGED <<relay, runs, cursor, inbox, crashes, dropped, belated>>

--------------------------------------------------------------------------------

Next ==
  \/ Crash
  \/ \E m \in Messages : Send(m) \/ ClaimAges(m) \/ NonceExpires(m)
  \/ \E r \in Runs : Ask(r) \/ RelayAnswers(r) \/ Receive(r)
                    \/ TimeOut(r) \/ Lose(r) \/ CrashInReceive(r)

\* The heartbeat polls again and again, claims age, and neither is every request
\* lost nor every answer.
Fairness ==
  /\ WF_vars(\E r \in Runs : Ask(r))
  /\ \A m \in Messages : WF_vars(ClaimAges(m))
  /\ \A r \in Runs : SF_vars(RelayAnswers(r)) /\ SF_vars(Receive(r))

Spec == Init /\ [][Next]_vars /\ Fairness

--------------------------------------------------------------------------------
(* Properties *)

\* The cursor passes over no message that is not stored, or about to be, however
\* runs overtake each other; except one whose answer was lost, and one inserted
\* below a key that had been handed out.
CursorSkipsNothing ==
  \A m \in Messages :
    status[m] # "unsent" /\ m <= cursor =>
      m \in inbox \cup dropped \cup belated \/ \E r \in Runs : m \in page[r]

\* A message whose answer is lost is delivered again, unless the cursor passed
\* it meanwhile or it was tried too often: none is left waiting for ever.
LostIsRedelivered ==
  \A m \in Messages :
    []<>(status[m] \in {"unsent", "failed"} \/ m \in inbox \/ m <= cursor)
================================================================================
