---------------------------- MODULE SocialRelayProofs ----------------------------
(***************************************************************************)
(* The cursor of the recipient's mail, for any number of messages, runs in  *)
(* flight, retries and crashes and any length of a page; and, in the last   *)
(* section, what the loop that reads the inbox tells the model of it.       *)
(***************************************************************************)
EXTENDS SocialRelay, AgentInbox, FiniteSetTheorems, WellFoundedInduction, TLAPS

Typed ==
  /\ status \in [Messages -> {"unsent", "received", "in_progress", "failed"}]
  /\ tries \in [Messages -> Nat]
  /\ aged \subseteq Messages
  /\ at \in [Runs -> {"idle", "asked", "answered"}]
  /\ since \in [Runs -> Nat] /\ page \in [Runs -> SUBSET Messages]
  /\ cursor \in Nat /\ nonces \subseteq Messages
  /\ inbox \subseteq Messages /\ dropped \subseteq Messages /\ belated \subseteq Messages

\* What the client holds, is about to store, has lost the answer of, or what came
\* too late for a key handed out.
Covered == inbox \cup dropped \cup belated \cup UNION {page[r] : r \in Runs}

\* Claims are aged, and what was claimed once is covered.
RelayFits ==
  /\ \A m \in aged : status[m] = "in_progress"
  /\ \A m \in Messages : status[m] \in {"in_progress", "failed"} => m \in Covered

\* So is what a cursor has passed, that of a run included, and what an answer has
\* jumped over, once it is there.
CursorsFit ==
  \A m \in Messages : status[m] # "unsent" /\ Passed(m) => m \in Covered

\* Only a crash leaves a nonce without its row.
NoncesFit == nonces \subseteq dropped

\* Only an answer has a page.
PagesFit == \A r \in Runs : at[r] # "answered" => page[r] = {}

IInv == Typed /\ RelayFits /\ CursorsFit /\ NoncesFit /\ PagesFit

--------------------------------------------------------------------------------
(* Pages *)

LEMMA MessagesCounted ==
  ASSUME NEW S \in SUBSET Messages
  PROVE  IsFiniteSet(S) /\ Cardinality(S) \in Nat
<1>1. IsFiniteSet(Messages)
  BY FS_Interval, SocialAssumption DEF Messages
<1> QED BY <1>1, FS_Subset, FS_CardinalityType

\* A page holds every candidate before each of its messages.
LEMMA PageIsPrefix ==
  ASSUME NEW S \in SUBSET Messages, NEW k \in FirstPage(S), NEW m \in S, m < k
  PROVE  m \in FirstPage(S)
<1> DEFINE Below(n) == {j \in S : j < n}
<1>1. Below(m) \subseteq Below(k) /\ Below(k) \subseteq Messages
  <2>1. k \in Int /\ m \in Int /\ S \subseteq Int
    BY SocialAssumption DEF FirstPage, Messages
  <2>2. \A j \in S : j < m => j < k
    BY <2>1
  <2> QED BY <2>2
<1>2. Cardinality(Below(k)) < PageLimit
  BY DEF FirstPage
<1>3. IsFiniteSet(Below(k)) /\ Cardinality(Below(k)) \in Nat /\ Cardinality(Below(m)) \in Nat
  BY <1>1, MessagesCounted
<1>4. Cardinality(Below(m)) <= Cardinality(Below(k))
  <2> HIDE DEF Below
  <2> QED BY <1>1, <1>3, FS_Subset
<1>5. Cardinality(Below(m)) < PageLimit
  <2> HIDE DEF Below
  <2> QED BY <1>2, <1>3, <1>4, SocialAssumption
<1> QED BY <1>5 DEF FirstPage

LEMMA Least ==
  ASSUME NEW T \in SUBSET Nat, T # {}
  PROVE  \E m \in T : \A k \in T : m <= k
<1> DEFINE R == {ss \in Nat \X Nat : ss[1] < ss[2]}
<1>1. IsWellFoundedOn(R, Nat)
  BY NatLessThanWellFounded DEF OpToRel
<1>2. PICK m \in T : \A k \in T : <<k, m>> \notin R
  <2> HIDE DEF R
  <2> QED BY <1>1, WFMin
<1>3. \A k \in T : ~(k < m)
  BY <1>2
<1> QED BY <1>3

\* The next cursor is the last message of a page that has one.
LEMMA NextCursorLast ==
  ASSUME NEW r \in Runs, page \in [Runs -> SUBSET Messages], cursor \in Nat
  PROVE  /\ page[r] = {} => NextCursor(r) = cursor
         /\ page[r] # {} =>
              NextCursor(r) \in page[r] /\ \A k \in page[r] : k <= NextCursor(r)
<1> DEFINE T == {Last - k : k \in page[r]}
<1>1. ASSUME page[r] # {} PROVE \E m \in page[r] : \A k \in page[r] : k <= m
  <2>1. T \subseteq Nat /\ T # {}
    BY <1>1, SocialAssumption DEF Messages
  <2>2. PICK t \in T : \A u \in T : t <= u
    <3> HIDE DEF T
    <3> QED BY <2>1, Least
  <2>3. PICK m \in page[r] : t = Last - m
    BY <2>2
  <2>4. \A k \in page[r] : Last - m <= Last - k
    BY <2>2, <2>3
  <2>5. \A k \in page[r] : k <= m
    BY <2>4, SocialAssumption DEF Messages
  <2> QED BY <2>5
<1> QED BY <1>1 DEF NextCursor

--------------------------------------------------------------------------------
(* Steps *)

LEMMA InitInvariant == Init => IInv
<1> SUFFICES ASSUME Init PROVE IInv
  OBVIOUS
<1>1. Typed /\ RelayFits /\ NoncesFit /\ PagesFit
  BY DEF Init, Typed, RelayFits, NoncesFit, PagesFit
<1>2. CursorsFit
  BY SocialAssumption DEF Init, CursorsFit, Messages
<1> QED BY <1>1, <1>2 DEF IInv

\* What is covered stays so; with it everything the relay's table says.
LEMMA ClientStep ==
  ASSUME IInv, Typed', UNCHANGED relay, Covered \subseteq Covered'
  PROVE  RelayFits'
BY DEF IInv, Typed, RelayFits, relay

\* The cursors of runs that end go back to nothing.
LEMMA RunsStep ==
  ASSUME IInv, Covered \subseteq Covered', UNCHANGED status,
         \A m \in Messages : status[m] # "unsent" /\ m <= cursor' => m \in Covered',
         \A r \in Runs : since'[r] \in {0, since[r], cursor} /\ page'[r] \in {{}, page[r]}
  PROVE  CursorsFit'
<1>1. \A m \in Messages : ~(m <= 0)
  BY SocialAssumption DEF Messages
<1>2. \A m \in Messages : Passed(m)' => m <= cursor' \/ Passed(m)
  BY <1>1 DEF Passed
<1> QED BY <1>2 DEF IInv, CursorsFit

\* The relay's poll: what it passes over was not there to be found.
LEMMA AnswerStep ==
  ASSUME IInv, NEW r \in Runs, RelayAnswers(r)
  PROVE  IInv'
<1> DEFINE Sent == {m \in Messages : Reclaimed[m] = "received" /\ m > since[r]}
           found == FirstPage(Sent)
<1> USE DEF IInv, Typed
<1>1. /\ found \subseteq Sent /\ Sent \subseteq Messages
      /\ page' = [page EXCEPT ![r] = found]
      /\ status' = [m \in Messages |-> IF m \in found THEN "in_progress" ELSE Reclaimed[m]]
      /\ aged' = {} /\ UNCHANGED <<since, store, dropped, belated>>
  BY DEF RelayAnswers, FirstPage
<1>2. Reclaimed \in [Messages -> {"unsent", "received", "in_progress", "failed"}]
  BY DEF Reclaimed
<1>3. Typed'
  <2>1. tries' \in [Messages -> Nat]
    BY DEF RelayAnswers
  <2>2. at' \in [Runs -> {"idle", "asked", "answered"}]
    BY DEF RelayAnswers
  <2> QED BY <1>1, <1>2, <2>1, <2>2 DEF store
<1>4. Covered' = Covered \cup found
  <2>1. page[r] = {}
    BY DEF RelayAnswers, PagesFit
  <2>2. UNION {page'[q] : q \in Runs} = found \cup UNION {page[q] : q \in Runs}
    <3> HIDE DEF found
    <3> QED BY <1>1, <2>1
  <2> HIDE DEF found
  <2> QED BY <1>1, <2>2 DEF Covered, store
\* What was not there had been claimed, or was never sent.
<1>5. \A m \in Messages : Reclaimed[m] \in {"in_progress", "failed"} => m \in Covered
  BY DEF Reclaimed, RelayFits
<1>6. \A m \in Messages : Reclaimed[m] = "unsent" <=> status[m] = "unsent"
  BY DEF Reclaimed, RelayFits
<1>11. \A m \in Messages : status'[m] = "unsent" <=> status[m] = "unsent"
  <2>1. \A m \in found : Reclaimed[m] # "unsent"
    BY <1>1
  <2> HIDE DEF found
  <2> QED BY <1>1, <1>6, <2>1
<1>7. RelayFits'
  <2>2. \A m \in Messages : status'[m] \in {"in_progress", "failed"} => m \in Covered'
    <3> HIDE DEF found
    <3> QED BY <1>1, <1>4, <1>5
  <2> HIDE DEF found
  <2> QED BY <1>1, <2>2 DEF RelayFits
<1>8. ASSUME NEW k \in found, NEW m \in Messages, m < k, status[m] # "unsent"
      PROVE  m \in Covered'
  <2>1. k \in Messages /\ k > since[r]
    BY <1>1
  <2>2. Reclaimed[m] # "unsent"
    <3> HIDE DEF found
    <3> QED BY <1>6, <1>8
  <2>3. CASE m <= since[r]
    BY <2>3, <1>4, <1>8 DEF CursorsFit, Passed
  <2>4. CASE m > since[r] /\ Reclaimed[m] = "received"
    <3>1. m \in Sent
      BY <2>4
    <3>2. m \in found
      <4> HIDE DEF Sent
      <4> QED BY <1>1, <1>8, <3>1, PageIsPrefix
    <3> QED BY <3>2, <1>4
  <2>5. CASE Reclaimed[m] \in {"in_progress", "failed"}
    BY <2>5, <1>4, <1>5
  <2>6. since[r] \in Nat /\ m \in Int
    BY SocialAssumption DEF Messages
  <2> QED BY <2>2, <2>3, <2>4, <2>5, <2>6, <1>2
<1>9. CursorsFit'
  <2> HIDE DEF found
  <2> SUFFICES ASSUME NEW m \in Messages, status[m] # "unsent", Passed(m)'
               PROVE  m \in Covered'
    BY <1>11 DEF CursorsFit
  <2>1. CASE Passed(m)
    BY <1>4, <2>1 DEF CursorsFit
  <2>2. CASE ~Passed(m)
    <3>1. \E k \in found : m < k
      BY <1>1, <2>2 DEF Passed, store
    <3> QED BY <1>8, <3>1
  <2> QED BY <2>1, <2>2
<1>10. NoncesFit' /\ PagesFit'
  BY <1>1 DEF NoncesFit, PagesFit, RelayAnswers, store
<1> QED BY <1>3, <1>7, <1>9, <1>10

\* An answer is stored, in full or up to the cursor: everything to the new cursor is
\* in the page or before one of its messages.
LEMMA CursorStep ==
  ASSUME IInv, NEW r \in Runs, NEW m \in Messages, m <= NextCursor(r), status[m] # "unsent"
  PROVE  m \in Covered
<1> USE DEF IInv, Typed, CursorsFit, Passed
<1>1. CASE page[r] = {}
  BY <1>1, NextCursorLast
<1>2. CASE page[r] # {}
  <2>1. NextCursor(r) \in page[r] /\ NextCursor(r) \in Int /\ m \in Int
    <3>1. NextCursor(r) \in page[r] /\ NextCursor(r) \in Messages
      BY <1>2, NextCursorLast
    <3> QED BY <3>1, SocialAssumption DEF Messages
  <2>2. CASE m = NextCursor(r)
    BY <2>1, <2>2 DEF Covered
  <2>3. CASE m < NextCursor(r)
    BY <2>1, <2>3
  <2> QED BY <2>1, <2>2, <2>3
<1> QED BY <1>1, <1>2

LEMMA NextCursorNat ==
  ASSUME IInv, NEW r \in Runs
  PROVE  NextCursor(r) \in Nat
<1>1. page \in [Runs -> SUBSET Messages] /\ cursor \in Nat
  BY DEF IInv, Typed
<1>2. NextCursor(r) \in Messages \cup {cursor}
  BY <1>1, NextCursorLast
<1> QED BY <1>1, <1>2, SocialAssumption DEF Messages

LEMMA ReceiveStep ==
  ASSUME IInv, NEW r \in Runs, Receive(r)
  PROVE  IInv'
<1> USE DEF IInv, Typed, Receive, Ended, relay
<1>1. Typed'
  BY NextCursorNat
<1>2. Covered \subseteq Covered'
  <2>1. page[r] \subseteq inbox' \cup dropped'
    BY DEF NoncesFit
  <2>2. \A q \in Runs \ {r} : page'[q] = page[q]
    OBVIOUS
  <2>3. inbox \subseteq inbox' /\ dropped' = dropped
    OBVIOUS
  <2> QED BY <2>1, <2>2, <2>3 DEF Covered
<1>3. RelayFits'
  BY <1>1, <1>2, ClientStep
<1>4. \A m \in Messages : status[m] # "unsent" /\ m <= cursor' => m \in Covered'
  BY <1>2, CursorStep
<1>5. \A q \in Runs : since'[q] \in {0, since[q], cursor} /\ page'[q] \in {{}, page[q]}
  OBVIOUS
<1>6. CursorsFit'
  BY <1>2, <1>4, <1>5, RunsStep
<1>7. NoncesFit' /\ PagesFit'
  BY DEF NoncesFit, PagesFit
<1> QED BY <1>1, <1>3, <1>6, <1>7

\* A crash drops the answers in flight.
LEMMA DieStep ==
  ASSUME IInv, Crash \/ \E r \in Runs : CrashInReceive(r)
  PROVE  IInv'
<1> USE DEF IInv, Typed, relay
<1>1. /\ Die /\ inbox \subseteq inbox' /\ inbox' \subseteq Messages
      /\ cursor' = cursor \/ \E r \in Runs : cursor' = NextCursor(r)
      /\ nonces' \subseteq nonces \cup ((UNION {page[r] : r \in Runs}) \ inbox')
  <2>1. CASE Crash
    BY <2>1 DEF Crash, store
  <2>2. ASSUME NEW r \in Runs, CrashInReceive(r)
        PROVE  /\ Die /\ inbox \subseteq inbox' /\ inbox' \subseteq Messages
               /\ cursor' = cursor \/ cursor' = NextCursor(r)
               /\ nonces' \subseteq nonces \cup (page[r] \ inbox')
    <3>1. Die /\ nonces' = (nonces \cup page[r]) \ inbox'
      BY <2>2 DEF CrashInReceive
    <3>2. CASE UNCHANGED <<cursor, inbox>>
      BY <3>1, <3>2
    <3>3. CASE /\ cursor' = NextCursor(r)
               /\ \E kept \in SUBSET (page[r] \ nonces) : inbox' = inbox \cup kept
      <4>1. PICK kept \in SUBSET (page[r] \ nonces) : inbox' = inbox \cup kept
        BY <3>3
      <4>2. kept \subseteq Messages
        BY <4>1
      <4> QED BY <3>1, <3>3, <4>1, <4>2
    <3> QED BY <2>2, <3>2, <3>3 DEF CrashInReceive
  <2>3. \A r \in Runs : page[r] \subseteq UNION {page[q] : q \in Runs}
    OBVIOUS
  <2>4. ASSUME NEW r \in Runs, CrashInReceive(r)
        PROVE  nonces' \subseteq nonces \cup ((UNION {page[q] : q \in Runs}) \ inbox')
    BY <2>2, <2>3, <2>4
  <2> HIDE DEF IInv, Typed
  <2> QED BY <2>1, <2>2, <2>4
<1>2. Typed'
  <2>1. cursor' \in Nat
    BY <1>1, NextCursorNat
  <2>2. nonces' \subseteq Messages /\ dropped' \subseteq Messages
    BY <1>1 DEF Die
  <2> QED BY <1>1, <2>1, <2>2 DEF Die
<1>3. Covered \subseteq Covered' /\ dropped \subseteq dropped'
  <2>1. dropped' = dropped \cup ((UNION {page[q] : q \in Runs}) \ inbox) /\ belated' = belated
    BY <1>1 DEF Die
  <2> HIDE DEF IInv, Typed
  <2> QED BY <1>1, <2>1 DEF Covered
<1>4. RelayFits'
  BY <1>1, <1>2, <1>3, ClientStep DEF Die
<1>5. \A m \in Messages : status[m] # "unsent" /\ m <= cursor' => m \in Covered'
  BY <1>1, <1>3, CursorStep DEF CursorsFit, Passed
<1>6. \A q \in Runs : since'[q] \in {0, since[q], cursor} /\ page'[q] \in {{}, page[q]}
  BY <1>1 DEF Die
<1>7. CursorsFit'
  BY <1>1, <1>3, <1>5, <1>6, RunsStep DEF Die
<1>8. NoncesFit'
  <2>1. (UNION {page[r] : r \in Runs}) \ inbox \subseteq dropped'
    BY <1>1 DEF Die
  <2> QED BY <1>1, <1>3, <2>1 DEF NoncesFit
<1>9. PagesFit'
  BY <1>1 DEF PagesFit, Die
<1> QED BY <1>2, <1>4, <1>7, <1>8, <1>9

\* The other steps of a run.
LEMMA RunStep ==
  ASSUME IInv, NEW r \in Runs, Ask(r) \/ TimeOut(r) \/ Lose(r)
  PROVE  IInv'
<1> USE DEF IInv, Typed, relay, store
<1>1. /\ UNCHANGED <<relay, store, belated>> /\ dropped \subseteq dropped'
      /\ \A q \in Runs : since'[q] \in {0, since[q], cursor}
  BY DEF Ask, TimeOut, Lose, Ended
<1>2. /\ Typed'
      /\ \A q \in Runs : page'[q] \in {{}, page[q]}
  BY DEF Ask, TimeOut, Lose, Ended
<1>3. Covered \subseteq Covered'
  <2>1. CASE Ask(r) \/ TimeOut(r)
    BY <2>1 DEF Ask, TimeOut, Covered
  <2>2. CASE Lose(r)
    <3>1. page[r] \subseteq inbox' \cup dropped'
      BY <2>2 DEF Lose
    <3>2. \A q \in Runs \ {r} : page'[q] = page[q]
      BY <2>2 DEF Lose, Ended
    <3> QED BY <1>1, <3>1, <3>2 DEF Covered
  <2> QED BY <2>1, <2>2
<1>4. RelayFits'
  BY <1>1, <1>2, <1>3, ClientStep
<1>5. CursorsFit'
  BY <1>1, <1>2, <1>3, RunsStep DEF CursorsFit, Passed
<1>6. NoncesFit' /\ PagesFit'
  BY <1>1 DEF NoncesFit, PagesFit, Ask, TimeOut, Lose, Ended
<1> QED BY <1>2, <1>4, <1>5, <1>6

\* The relay's other steps, and time.
LEMMA MessageStep ==
  ASSUME IInv, NEW m \in Messages, Send(m) \/ ClaimAges(m) \/ NonceExpires(m)
  PROVE  IInv'
<1> USE DEF IInv, Typed, relay, runs, store
<1>1. Typed' /\ NoncesFit' /\ PagesFit' /\ Covered \subseteq Covered'
  BY DEF Send, ClaimAges, NonceExpires, NoncesFit, PagesFit, Covered
<1>2. CursorsFit'
  <2>1. \A k \in Messages : Passed(k)' <=> Passed(k)
    BY DEF Send, ClaimAges, NonceExpires, Passed
  <2>2. CASE Send(m)
    <3>1. \A k \in Messages : k # m => status'[k] = status[k]
      BY <2>2 DEF Send
    <3>2. Passed(m) => m \in Covered'
      BY <2>2 DEF Send, Covered
    <3> QED BY <1>1, <2>1, <3>1, <3>2 DEF CursorsFit
  <2>3. CASE ClaimAges(m) \/ NonceExpires(m)
    BY <1>1, <2>1, <2>3 DEF ClaimAges, NonceExpires, CursorsFit
  <2> QED BY <2>2, <2>3
<1>3. RelayFits'
  <2>1. CASE Send(m)
    BY <1>1, <2>1 DEF Send, RelayFits
  <2>2. CASE ClaimAges(m)
    BY <1>1, <2>2 DEF ClaimAges, RelayFits
  <2>3. CASE NonceExpires(m)
    BY <1>1, <2>3 DEF NonceExpires, RelayFits
  <2> QED BY <2>1, <2>2, <2>3
<1> QED BY <1>1, <1>2, <1>3

LEMMA StepInvariant ==
  ASSUME IInv, [Next]_vars
  PROVE  IInv'
<1>1. CASE UNCHANGED vars
  BY <1>1 DEF vars, relay, runs, store, IInv, Typed, RelayFits, CursorsFit, NoncesFit, PagesFit,
     Passed, Covered
<1> QED BY <1>1, AnswerStep, ReceiveStep, DieStep, RunStep, MessageStep DEF Next

\* However polls, lost answers, late runs and crashes overtake each other, and in
\* whatever order messages get their keys, the cursor passes over no message that
\* is not stored or on its way, but what was lost with its answer or inserted
\* below a key handed out before.
THEOREM CursorKeeps == Spec => []CursorSkipsNothing
<1>1. IInv => CursorSkipsNothing
  BY DEF IInv, CursorsFit, Passed, CursorSkipsNothing, Covered
<1> QED BY <1>1, InitInvariant, StepInvariant, PTL DEF Spec

--------------------------------------------------------------------------------
(* The recipient's loop: what the model is told *)

\* ToldWithinRetries is not inductive: a message in the input of a turn is about to
\* be told, so one of its tries has not been told yet.
InputUntold ==
  \A m \in Rows : m \in pending => told[m] < retries[m]

InboxInv == InboxTypeOk /\ ToldWithinRetries /\ InputUntold

LEMMA InitInbox == InboxInit => InboxInv
<1> SUFFICES ASSUME InboxInit PROVE InboxInv
  OBVIOUS
<1>1. InboxTypeOk
  BY DEF InboxInit, InboxTypeOk
<1>2. ToldWithinRetries /\ InputUntold
  BY InboxAssumption DEF InboxInit, ToldWithinRetries, InputUntold
<1> QED BY <1>1, <1>2 DEF InboxInv

LEMMA PromptIsNoRow == Prompt \notin Rows
BY InboxAssumption DEF Prompt, Rows

\* A step that tells nothing, tries nothing and adds no message to the input.
LEMMA InboxKept ==
  ASSUME InboxInv, UNCHANGED <<retries, told>>, pending' \subseteq pending \cup {Prompt}
  PROVE  ToldWithinRetries' /\ InputUntold'
<1>1. ToldWithinRetries'
  BY DEF InboxInv, ToldWithinRetries
<1>2. InputUntold'
  BY PromptIsNoRow DEF InboxInv, InputUntold
<1> QED BY <1>1, <1>2

LEMMA StepInbox == InboxInv /\ [InboxNext]_inboxVars => InboxInv'
<1> SUFFICES ASSUME InboxInv, [InboxNext]_inboxVars PROVE InboxInv'
  OBVIOUS
<1>0. InboxTypeOk /\ ToldWithinRetries /\ InputUntold /\ {} \subseteq Rows
  BY DEF InboxInv
<1> USE DEF table, loop
<1>1. ASSUME NEW m \in Rows, Arrive(m) PROVE InboxInv'
  <2>1. InboxTypeOk' /\ UNCHANGED <<retries, told, pending>>
    BY <1>0, <1>1 DEF Arrive, InboxTypeOk
  <2> QED BY <2>1, InboxKept DEF InboxInv
<1>2. CASE Wake \/ AgentDies \/ Rest \/ EndCycle \/ GoOn({}) \/ GoOn({Prompt}) \/ KeepInput
           \/ Collect \/ TickElsewhere
  <2>1. /\ UNCHANGED <<retries, told, rowStatus>> /\ pending' \subseteq pending \cup {Prompt}
        /\ done' \subseteq Rows /\ claimed' \subseteq Rows /\ errors' \in Nat /\ deaths' \in Nat
        /\ turn' \in {"asleep", "open", "claimed", "ticked", "thinking", "stored"}
    <3>1. CASE Wake \/ GoOn({}) \/ GoOn({Prompt})
      BY <1>0, <3>1 DEF Wake, GoOn, InboxTypeOk
    <3>2. CASE AgentDies \/ Rest \/ EndCycle
      BY <1>0, <3>2 DEF AgentDies, Rest, EndCycle, Sleep, InboxTypeOk
    <3>3. CASE KeepInput \/ TickElsewhere
      BY <1>0, <3>3 DEF KeepInput, TickElsewhere, InboxTypeOk
    <3>4. CASE Collect
      <4>1. done' \subseteq Rows
        BY <1>0, <3>4 DEF Collect, FirstRows, InboxTypeOk
      <4> QED BY <1>0, <3>4, <4>1 DEF Collect, InboxTypeOk
    <3> QED BY <1>2, <3>1, <3>2, <3>3, <3>4
  <2>2. InboxTypeOk'
    BY <1>0, <2>1 DEF InboxTypeOk
  <2> QED BY <2>1, <2>2, InboxKept DEF InboxInv
<1>3. CASE ClaimMail
  <2> DEFINE S == FirstRows({m \in Rows : rowStatus[m] = "received" /\ retries[m] < MaxRetries},
                            ClaimLimit)
  <2>1. S \subseteq Rows /\ \A m \in S : retries[m] < MaxRetries
    BY DEF FirstRows
  <2>2. /\ rowStatus' = SetStatus(S, "in_progress")
        /\ retries' = TriesAfterClaim(S)
        /\ claimed' = S /\ pending' = S /\ turn' = "claimed"
        /\ UNCHANGED <<done, errors, deaths, told>>
    BY <1>3 DEF ClaimMail
  <2> HIDE DEF S
  <2>3. \A m \in Rows : retries[m] \in Nat /\ told[m] \in Nat
    BY <1>0 DEF InboxTypeOk
  <2>4. /\ retries' \in [Rows -> Nat]
        /\ \A m \in Rows : retries'[m] = IF m \in S THEN retries[m] + 1 ELSE retries[m]
    BY <2>2, <2>3 DEF TriesAfterClaim
  <2>5. rowStatus' \in [Rows -> {"absent", "received", "in_progress", "processed", "failed"}]
    BY <1>0, <2>2 DEF SetStatus, InboxTypeOk
  <2>6. InboxTypeOk'
    BY <1>0, <2>1, <2>2, <2>4, <2>5 DEF InboxTypeOk
  <2>7. ToldWithinRetries'
    BY <1>0, <2>1, <2>2, <2>3, <2>4, InboxAssumption DEF ToldWithinRetries
  <2>8. InputUntold'
    BY <1>0, <2>2, <2>3, <2>4 DEF ToldWithinRetries, InputUntold
  <2> QED BY <2>6, <2>7, <2>8 DEF InboxInv
<1>4. CASE Think
  <2>1. /\ told' = [m \in Rows |-> IF m \in pending THEN told[m] + 1 ELSE told[m]]
        /\ pending' = {} /\ turn' = "thinking"
        /\ UNCHANGED <<rowStatus, retries, done, claimed, errors, deaths>>
    BY <1>4 DEF Think, Tell
  <2>2. \A m \in Rows : retries[m] \in Nat /\ told[m] \in Nat
    BY <1>0 DEF InboxTypeOk
  <2>3. InboxTypeOk'
    BY <1>0, <2>1, <2>2 DEF InboxTypeOk
  <2>4. ToldWithinRetries'
    BY <1>0, <2>1, <2>2 DEF ToldWithinRetries, InputUntold
  <2>5. InputUntold'
    BY <2>1 DEF InputUntold
  <2> QED BY <2>3, <2>4, <2>5 DEF InboxInv
<1>5. CASE StoreTurn \/ Fail
  <2>1. /\ UNCHANGED <<retries, told>> /\ pending' \subseteq pending
        /\ done' \subseteq Rows /\ claimed' \subseteq Rows /\ errors' \in Nat /\ deaths' = deaths
        /\ turn' \in {"asleep", "open", "stored"}
    BY <1>0, <1>5 DEF StoreTurn, Fail, Sleep, DoneAfterTurn, InboxTypeOk
  <2>2. rowStatus' \in [Rows -> {"absent", "received", "in_progress", "processed", "failed"}]
    BY <1>0, <1>5 DEF StoreTurn, Fail, SetStatus, InboxTypeOk
  <2>3. InboxTypeOk'
    BY <1>0, <2>1, <2>2 DEF InboxTypeOk
  <2> QED BY <2>1, <2>3, InboxKept DEF InboxInv
<1>6. CASE UNCHANGED inboxVars
  BY <1>0, <1>6 DEF inboxVars, InboxInv, InboxTypeOk, ToldWithinRetries, InputUntold
<1> QED BY <1>1, <1>2, <1>3, <1>4, <1>5, <1>6 DEF InboxNext

\* The invariant behind it, in every reachable state.
THEOREM InboxInvariant == InboxSpec => []InboxInv
BY InitInbox, StepInbox, PTL DEF InboxSpec

\* Whatever turns fail, rest or die, and wherever, the model is told a message no
\* more often than the message was tried, and it is tried max_retries times at most.
THEOREM ToldNoOftenerThanTried == InboxSpec => []ToldWithinRetries
<1>1. InboxInv => ToldWithinRetries
  BY DEF InboxInv
<1> QED BY <1>1, InboxInvariant, PTL
================================================================================
