-------------------------- MODULE PaidInferenceProofs --------------------------
(***************************************************************************)
(* The paid inference gateway keeps its promise for any number of nonces   *)
(* and of their spellings, of agents, concurrent requests, overlapping     *)
(* passes of the sweep and crashes.                                        *)
(***************************************************************************)
EXTENDS PaidInference, FiniteSetTheorems, TLAPS

\* A key nobody reserved has left no trace.
Untouched(k) == made[k] = 0 /\ usage[k] = 0 /\ orphan[k] = "none"

\* What the tables say of a key fits together.
TablesFit ==
  \A k \in Keys :
    /\ k \notin reserved => Untouched(k)
    /\ made[k] <= 1
    /\ orphan[k] = "none" => usage[k] <= 1
    /\ orphan[k] = "unresolved" => usage[k] <= chances[k]
    /\ orphan[k] = "resolved" => usage[k] > 0

\* Where a request holds a reservation.
AtWork == {"infer", "settle", "sent"}

\* A request at work has its key reserved, and no other trace of it but the
\* completion is there yet.
RequestsFit ==
  \A r \in Requests :
    /\ at[r] # "row"
    /\ at[r] \notin {"idle", "over"} => on[r] \in Keys
    /\ at[r] \in AtWork =>
         on[r] \in reserved /\ usage[on[r]] = 0 /\ orphan[on[r]] = "none"
    /\ at[r] = "infer" => made[on[r]] = 0

\* No two requests are at work on one key.
Exclusive ==
  \A r, q \in Requests :
    r # q /\ at[r] \in AtWork /\ at[q] \in AtWork => on[r] # on[q]

\* The rows of a pass exist, and the one in its hands is visited once.
SweepFits ==
  \A s \in Sweepers :
    /\ at[s] \in {"idle", "row", "settle", "sent"}
    /\ \A k \in Keys : Has(s, k) => orphan[k] # "none"
    /\ at[s] \in Settling => on[s] \in Keys \ todo[s]
    /\ at[s] = "idle" => todo[s] = {}

\* The passes that have key k's row.
Holders(k) == {s \in Sweepers : Has(s, k)}

\* Each pass that has a row may still debit it, and each but one of these debits
\* has its chance on record.
DebitsFit == \A k \in Keys : usage[k] + Cardinality(Holders(k)) <= 1 + chances[k]

\* A transfer that was broadcast has its answer entered, lost or under way.
TransfersAccounted ==
  \A a \in Auths : chain[a] \in {"pending", "paid"} => Answered(a)

\* Before the first crash every reservation has a keeper.
ReservationsKept ==
  crashes = 0 =>
    \A k \in reserved : \/ usage[k] > 0 \/ orphan[k] # "none"
                        \/ \E r \in Requests : on[r] = k /\ at[r] \in AtWork

\* Everything but the count of the passes.
Fits ==
  /\ TypeOk
  /\ TablesFit
  /\ RequestsFit
  /\ Exclusive
  /\ SweepFits
  /\ TransfersAccounted
  /\ ReservationsKept

IInv == Fits /\ DebitsFit

USE DEF Processes, Settling, AtWork, Untouched
--------------------------------------------------------------------------------
(* The passes that have a row *)

LEMMA HoldersFinite ==
  \A k : IsFiniteSet(Holders(k)) /\ Cardinality(Holders(k)) \in Nat
BY PaidInferenceAssumption, FS_Subset, FS_CardinalityType DEF Holders

\* As long as no pass takes up a row and nothing is debited, the count holds.
LEMMA DebitsKept ==
  ASSUME TypeOk, DebitsFit, usage' = usage, chances' = chances,
         \A k \in Keys : Holders(k)' \subseteq Holders(k)
  PROVE  DebitsFit'
<1> SUFFICES ASSUME NEW k \in Keys
             PROVE  usage[k] + Cardinality(Holders(k)') <= 1 + chances[k]
  BY DEF DebitsFit
<1>1. Cardinality(Holders(k)') \in Nat /\ Cardinality(Holders(k)') <= Cardinality(Holders(k))
  BY HoldersFinite, FS_Subset, FS_CardinalityType
<1>2. usage[k] + Cardinality(Holders(k)) <= 1 + chances[k]
  BY DEF DebitsFit
<1> QED BY <1>1, <1>2, HoldersFinite DEF TypeOk

--------------------------------------------------------------------------------
(* The invariant is inductive *)

LEMMA InitFits == Init => IInv
<1> SUFFICES ASSUME Init PROVE IInv
  OBVIOUS
<1>1. Fits
  BY PaidInferenceAssumption
     DEF Init, Fits, TypeOk, TablesFit, RequestsFit, Exclusive, SweepFits, Has,
         TransfersAccounted, ReservationsKept, OrphanStatus, Places
<1>2. \A k \in Keys : Holders(k) = {}
  BY DEF Init, Holders, Has
<1>3. DebitsFit
  BY <1>2, FS_EmptySet DEF Init, DebitsFit
<1> QED BY <1>1, <1>3 DEF IInv

\* An answer that is entered, lost or under way does not go unaccounted for.
LEMMA AnswersStay ==
  ASSUME TransfersAccounted, auth' = auth, chain' = chain, lost \subseteq lost',
         \A k \in Keys : usage[k] > 0 => usage'[k] > 0,
         \A q \in Processes : at[q] = "sent" =>
            (at'[q] = "sent" /\ on'[q] = on[q]) \/ on[q] \in lost'
  PROVE  TransfersAccounted'
<1> SUFFICES ASSUME NEW a \in Auths, Answered(a) PROVE Answered(a)'
  BY DEF TransfersAccounted
<1> QED BY DEF Answered

LEMMA RequestFits ==
  ASSUME IInv, NEW r \in Requests, Request(r)
  PROVE  IInv'
<1> USE PaidInferenceAssumption
<1>1. Fits'
  <2> USE DEF IInv, Fits, TypeOk, TablesFit, RequestsFit, Exclusive, SweepFits, Has,
         TransfersAccounted, Answered, ReservationsKept, OrphanStatus, Places,
         Await, tables, world, procs, history
  <2>1. ASSUME NEW k \in Keys, Post(r, k) PROVE Fits'
    BY <2>1 DEF Post
  <2>2. CASE PaymentInvalid(r)
    BY <2>2 DEF PaymentInvalid
  <2>3. CASE Claim(r)
    BY <2>3 DEF Claim
  <2>4. CASE AlreadyUsed(r)
    BY <2>4 DEF AlreadyUsed
  <2>5. CASE ProviderFailed(r)
    BY <2>5 DEF ProviderFailed, ReleaseNonce, Referenced
  <2>6. CASE ProviderAnswered(r)
    <3>1. TypeOk'
      BY <2>6 DEF ProviderAnswered, RecordOrphan
    <3>2. TablesFit'
      BY <2>6 DEF ProviderAnswered, RecordOrphan
    <3>3. RequestsFit'
      BY <2>6 DEF ProviderAnswered, RecordOrphan
    <3>4. Exclusive'
      BY <2>6 DEF ProviderAnswered, RecordOrphan
    <3>5. SweepFits'
      BY <2>6 DEF ProviderAnswered, RecordOrphan
    <3>6. TransfersAccounted'
      BY <2>6 DEF ProviderAnswered, RecordOrphan
    <3>7. ReservationsKept'
      <4>1. crashes' = crashes /\ reserved' = reserved /\ usage' = usage
        BY <2>6 DEF ProviderAnswered
      <4>2. \A k \in Keys : k # on[r] => orphan'[k] = orphan[k]
        BY <2>6 DEF ProviderAnswered, RecordOrphan
      <4>3. \A q \in Requests : q # r => at'[q] = at[q] /\ on'[q] = on[q]
        BY <2>6 DEF ProviderAnswered
      <4>4. \/ orphan'[on[r]] # "none"
            \/ on'[r] = on[r] /\ at'[r] = "settle"
        BY <2>6 DEF ProviderAnswered, RecordOrphan
      <4> SUFFICES ASSUME crashes = 0, NEW k \in reserved
                   PROVE  \/ usage[k] > 0 \/ orphan'[k] # "none"
                          \/ \E q \in Requests : on'[q] = k /\ at'[q] \in AtWork
        BY <4>1
      <4>5. CASE k = on[r]
        BY <4>4, <4>5
      <4>6. CASE k # on[r]
        BY <4>2, <4>3, <4>6
      <4> QED BY <4>5, <4>6
    <3> QED BY <3>1, <3>2, <3>3, <3>4, <3>5, <3>6, <3>7
  <2> QED BY <2>1, <2>2, <2>3, <2>4, <2>5, <2>6 DEF Request
<1>2. usage' = usage /\ chances' = chances /\ todo' = todo
  BY DEF Request, Post, PaymentInvalid, Claim, AlreadyUsed, ProviderFailed,
         ProviderAnswered, tables, world, history
<1>3. \A s \in Sweepers : at'[s] = at[s] /\ on'[s] = on[s]
  BY DEF IInv, Fits, TypeOk, Request, Post, PaymentInvalid, Claim, AlreadyUsed,
         ProviderFailed, ProviderAnswered, Await
<1>4. \A k \in Keys : Holders(k)' \subseteq Holders(k)
  BY <1>2, <1>3 DEF Holders, Has
<1> QED BY <1>1, <1>2, <1>4, DebitsKept DEF IInv, Fits

LEMMA SettlementFits ==
  ASSUME IInv, NEW p \in Processes, Settlement(p)
  PROVE  IInv'
<1> USE PaidInferenceAssumption
<1>1. Fits'
  <2> USE DEF IInv, Fits, TypeOk, TablesFit, RequestsFit, Exclusive, SweepFits, Has,
         TransfersAccounted, Answered, ReservationsKept, OrphanStatus, Places,
         Await, tables, world, procs, history
  <2>1. CASE Broadcast(p)
    BY <2>1 DEF Broadcast
  <2>2. CASE Sent(p)
    BY SMTT(30), <2>2 DEF Sent, OnSuccess, Debit
  <2>3. CASE NotSent(p)
    <3>1. TypeOk'
      BY SMTT(30), <2>3 DEF NotSent, OnFailure, RecordOrphan
    <3>2. TablesFit'
      BY <2>3 DEF NotSent, OnFailure, RecordOrphan
    <3>3. RequestsFit'
      BY <2>3 DEF NotSent, OnFailure, RecordOrphan
    <3>4. Exclusive'
      BY <2>3 DEF NotSent, OnFailure, RecordOrphan
    <3>5. SweepFits'
      BY <2>3 DEF NotSent, OnFailure, RecordOrphan
    <3>6. TransfersAccounted'
      <4> HIDE DEF TransfersAccounted, Answered
      <4> QED BY <2>3, AnswersStay DEF NotSent, OnFailure, RecordOrphan
    <3>7. ReservationsKept'
      BY <2>3 DEF NotSent, OnFailure, RecordOrphan
    <3> QED BY <3>1, <3>2, <3>3, <3>4, <3>5, <3>6, <3>7
  <2>4. CASE AnswerLost(p)
    <3>1. TypeOk'
      BY SMTT(30), <2>4 DEF AnswerLost, OnFailure, RecordOrphan
    <3>2. TablesFit'
      BY <2>4 DEF AnswerLost, OnFailure, RecordOrphan
    <3>3. RequestsFit'
      BY <2>4 DEF AnswerLost, OnFailure, RecordOrphan
    <3>4. Exclusive'
      BY <2>4 DEF AnswerLost, OnFailure, RecordOrphan
    <3>5. SweepFits'
      BY <2>4 DEF AnswerLost, OnFailure, RecordOrphan
    <3>6. TransfersAccounted'
      <4> HIDE DEF TransfersAccounted, Answered
      <4> QED BY <2>4, AnswersStay DEF AnswerLost, OnFailure, RecordOrphan
    <3>7. ReservationsKept'
      BY <2>4 DEF AnswerLost, OnFailure, RecordOrphan
    <3> QED BY <3>1, <3>2, <3>3, <3>4, <3>5, <3>6, <3>7
  <2> QED BY <2>1, <2>2, <2>3, <2>4 DEF Settlement
<1>2. \A k \in Keys : Holders(k)' \subseteq Holders(k)
  BY DEF IInv, Fits, TypeOk, Settlement, Broadcast, Sent, NotSent, AnswerLost,
         OnSuccess, OnFailure, Await, Holders, Has
<1>3. CASE ~Sent(p)
  <2>1. usage' = usage /\ chances' = chances
    BY <1>3 DEF Settlement, Broadcast, NotSent, AnswerLost, OnFailure, tables, history
  <2> QED BY <1>1, <1>2, <2>1, DebitsKept DEF IInv, Fits
<1>4. CASE Sent(p)
  <2>1. on[p] \in Keys /\ chances' = chances /\ usage' = [usage EXCEPT ![on[p]] = @ + 1]
    BY <1>4 DEF IInv, Fits, RequestsFit, SweepFits, Sent, OnSuccess, Debit, history
  <2> SUFFICES ASSUME NEW k \in Keys
               PROVE  usage'[k] + Cardinality(Holders(k)') <= 1 + chances[k]
    BY <1>1, <2>1 DEF IInv, DebitsFit
  <2>2. /\ usage[k] \in Nat /\ chances[k] \in Nat
        /\ usage[k] + Cardinality(Holders(k)) <= 1 + chances[k]
        /\ Cardinality(Holders(k)) \in Nat
    BY HoldersFinite DEF IInv, Fits, TypeOk, DebitsFit
  <2>3. CASE k # on[p]
    <3>1. usage'[k] = usage[k]
      BY <2>1, <2>3 DEF IInv, Fits, TypeOk
    <3>2. Cardinality(Holders(k)') \in Nat /\ Cardinality(Holders(k)') <= Cardinality(Holders(k))
      BY <1>2, HoldersFinite, FS_Subset, FS_CardinalityType
    <3> QED BY <2>2, <3>1, <3>2
  <2>4. CASE k = on[p] /\ p \in Requests
    <3>1. usage[k] = 0 /\ orphan[k] = "none"
      BY <1>4, <2>4 DEF Sent, IInv, Fits, RequestsFit
    <3>2. Holders(k) = {}
      BY <3>1 DEF IInv, Fits, SweepFits, Holders
    <3>3. Cardinality(Holders(k)') = 0
      BY <1>2, <3>2, FS_EmptySet
    <3>4. usage'[k] = 1
      BY <2>1, <2>4, <3>1 DEF IInv, Fits, TypeOk
    <3> QED BY <2>2, <3>3, <3>4
  <2>5. CASE k = on[p] /\ p \in Sweepers
    <3>1. p \in Holders(k)
      BY <1>4, <2>5 DEF Sent, Holders, Has
    <3>2. p \notin Holders(k)'
      BY <1>4, <2>5 DEF Sent, OnSuccess, Await, IInv, Fits, TypeOk, SweepFits, Holders, Has
    <3>3. /\ Cardinality(Holders(k) \ {p}) = Cardinality(Holders(k)) - 1
          /\ IsFiniteSet(Holders(k) \ {p})
      BY <3>1, HoldersFinite, FS_RemoveElement
    <3>4. Holders(k)' \subseteq Holders(k) \ {p}
      BY <1>2, <3>2
    <3>5. Cardinality(Holders(k)') \in Nat /\ Cardinality(Holders(k)') <= Cardinality(Holders(k) \ {p})
      BY <3>3, <3>4, FS_Subset, FS_CardinalityType
    <3>6. usage'[k] = usage[k] + 1
      BY <2>1, <2>5 DEF IInv, Fits, TypeOk
    <3> QED BY <2>2, <3>3, <3>5, <3>6
  <2> QED BY <2>3, <2>4, <2>5
<1> QED BY <1>3, <1>4

LEMMA StartFits ==
  ASSUME IInv, NEW s \in Sweepers, SweepStart(s)
  PROVE  IInv'
<1> USE PaidInferenceAssumption
<1>1. Fits'
  BY DEF IInv, Fits, TypeOk, TablesFit, RequestsFit, Exclusive, SweepFits, Has,
         TransfersAccounted, Answered, ReservationsKept, OrphanStatus, Places,
         Await, tables, world, procs, history, SweepStart, StartWith
<1>2. usage' = usage
  BY DEF SweepStart, StartWith, tables
<1> SUFFICES ASSUME NEW k \in Keys
             PROVE  usage[k] + Cardinality(Holders(k)') <= 1 + chances'[k]
  BY <1>1, <1>2 DEF IInv, DebitsFit
<1>3. /\ usage[k] \in Nat /\ chances[k] \in Nat
      /\ usage[k] + Cardinality(Holders(k)) <= 1 + chances[k]
      /\ Cardinality(Holders(k)) \in Nat
  BY HoldersFinite DEF IInv, Fits, TypeOk, DebitsFit
<1>4. s \notin Holders(k)
  BY DEF IInv, Fits, SweepFits, SweepStart, StartWith, Holders, Has
<1>5. CASE orphan[k] # "unresolved"
  <2>1. Holders(k)' = Holders(k)
    BY <1>4, <1>5 DEF IInv, Fits, TypeOk, SweepStart, StartWith, Await, Holders, Has
  <2>2. chances'[k] = chances[k]
    BY <1>5 DEF SweepStart, StartWith
  <2> QED BY <1>3, <2>1, <2>2
<1>6. CASE orphan[k] = "unresolved"
  <2>1. Holders(k)' = Holders(k) \cup {s}
    BY <1>6 DEF IInv, Fits, TypeOk, SweepStart, StartWith, Await, Holders, Has
  <2>2. Cardinality(Holders(k)') = Cardinality(Holders(k)) + 1
    BY <1>4, <2>1, HoldersFinite, FS_AddElement
  <2>3. CASE Holders(k) = {}
    <3>1. Cardinality(Holders(k)) = 0
      BY <2>3, FS_EmptySet
    <3>2. usage[k] <= chances[k] /\ chances'[k] = chances[k]
      BY <1>6, <2>3 DEF IInv, Fits, TablesFit, SweepStart, StartWith, Holders
    <3> QED BY <1>3, <2>2, <3>1, <3>2
  <2>4. CASE Holders(k) # {}
    <3>1. chances'[k] = chances[k] + 1
      BY <1>6, <2>4 DEF SweepStart, StartWith, Holders
    <3> QED BY <1>3, <2>2, <3>1
  <2> QED BY <2>3, <2>4
<1> QED BY <1>5, <1>6

LEMMA SweepFitsAgain ==
  ASSUME IInv, NEW s \in Sweepers, Sweep(s)
  PROVE  IInv'
<1> USE PaidInferenceAssumption
<1>1. CASE SweepStart(s)
  BY <1>1, StartFits
<1>2. CASE SweepEnd(s) \/ \E k \in Keys : SweepRetry(s, k) \/ SweepWriteOff(s, k)
  <2>1. Fits'
    <3> USE DEF IInv, Fits, TypeOk, TablesFit, RequestsFit, Exclusive, SweepFits, Has,
           TransfersAccounted, Answered, ReservationsKept, OrphanStatus, Places,
           Await, PassEnds, tables, world, procs, history
    <3>1. CASE SweepEnd(s)
      BY <3>1 DEF SweepEnd
    <3>2. ASSUME NEW k \in Keys, SweepRetry(s, k) PROVE Fits'
      BY <3>2 DEF SweepRetry
    <3>3. ASSUME NEW k \in Keys, SweepWriteOff(s, k) PROVE Fits'
      <4>1. TypeOk'
        BY SMTT(30), <3>3 DEF SweepWriteOff, ReleaseNonce, Referenced
      <4>2. TablesFit'
        BY <3>3 DEF SweepWriteOff, ReleaseNonce, Referenced
      <4>3. RequestsFit'
        BY <3>3 DEF SweepWriteOff, ReleaseNonce, Referenced
      <4>4. Exclusive'
        BY <3>3 DEF SweepWriteOff, ReleaseNonce, Referenced
      <4>5. SweepFits'
        BY <3>3 DEF SweepWriteOff, ReleaseNonce, Referenced
      <4>6. TransfersAccounted'
        <5>1. /\ UNCHANGED <<auth, chain, lost, usage>>
              /\ \A q \in Processes : at[q] = "sent" => at'[q] = "sent" /\ on'[q] = on[q]
          BY <3>3 DEF SweepWriteOff
        <5> HIDE DEF TransfersAccounted, Answered
        <5> QED BY <5>1, AnswersStay
      <4>7. ReservationsKept'
        <5>1. /\ UNCHANGED <<crashes, usage>> /\ reserved' \subseteq reserved
              /\ \A j \in Keys : orphan[j] # "none" => orphan'[j] # "none"
              /\ \A r \in Requests : at'[r] = at[r] /\ on'[r] = on[r]
          BY <3>3 DEF SweepWriteOff, ReleaseNonce
        <5> QED BY <5>1
      <4> QED BY <4>1, <4>2, <4>3, <4>4, <4>5, <4>6, <4>7
    <3> QED BY <1>2, <3>1, <3>2, <3>3
  <2>2. usage' = usage /\ chances' = chances
    BY <1>2 DEF SweepEnd, SweepRetry, SweepWriteOff, tables, history
  <2>3. \A k \in Keys : Holders(k)' \subseteq Holders(k)
    BY <1>2 DEF IInv, Fits, TypeOk, SweepEnd, SweepRetry, SweepWriteOff, PassEnds,
       Await, Holders, Has
  <2> QED BY <2>1, <2>2, <2>3, DebitsKept DEF IInv, Fits
<1> QED BY <1>1, <1>2 DEF Sweep

LEMMA OutsideFits ==
  ASSUME IInv, Outside
  PROVE  IInv'
<1> USE PaidInferenceAssumption
<1>1. Fits'
  <2> USE DEF IInv, Fits, TypeOk, TablesFit, RequestsFit, Exclusive, SweepFits, Has,
         TransfersAccounted, Answered, ReservationsKept, OrphanStatus, Places,
         Await, tables, world, procs, history
  <2>1. ASSUME NEW a \in Auths, Mined(a) PROVE Fits'
    BY <2>1 DEF Mined, CanPay
  <2>2. ASSUME NEW a \in Auths, MinedTooLate(a) PROVE Fits'
    BY <2>2 DEF MinedTooLate
  <2>3. ASSUME NEW a \in Auths, Expire(a) PROVE Fits'
    BY <2>3 DEF Expire
  <2> QED BY <2>1, <2>2, <2>3 DEF Outside
<1>2. UNCHANGED <<usage, chances, at, on, todo>>
  BY DEF Outside, Mined, MinedTooLate, Expire, tables, procs, history
<1>3. \A k \in Keys : Holders(k)' \subseteq Holders(k)
  BY <1>2 DEF Holders, Has
<1> QED BY <1>1, <1>2, <1>3, DebitsKept DEF IInv, Fits

LEMMA CrashFits ==
  ASSUME IInv, Die
  PROVE  IInv'
<1> USE PaidInferenceAssumption
<1>1. \A k \in Keys : Holders(k)' = {}
  BY DEF IInv, Fits, TypeOk, Die, Crash, CrashBeforeResolved, ProcessGone, Holders, Has
<1>2. \A k \in Keys : Cardinality(Holders(k)') = 0
  BY <1>1, FS_EmptySet
<1>3. CASE Crash
  <2>1. Fits'
    BY <1>3 DEF IInv, Fits, TypeOk, TablesFit, RequestsFit, Exclusive, SweepFits, Has,
       TransfersAccounted, Answered, ReservationsKept, OrphanStatus, Places,
       tables, world, procs, history, Crash, ProcessGone
  <2>2. usage' = usage /\ chances' = chances
    BY <1>3 DEF Crash, tables
  <2> QED BY <1>1, <2>1, <2>2, DebitsKept DEF IInv, Fits
<1>4. ASSUME NEW s \in Sweepers, CrashBeforeResolved(s) PROVE IInv'
  <2> DEFINE k == on[s]
  <2>1. k \in Keys /\ s \in Holders(k) /\ orphan[k] # "none"
    BY <1>4 DEF CrashBeforeResolved, IInv, Fits, SweepFits, Holders, Has
  <2>2. /\ Cardinality(Holders(k)) \in Nat \ {0}
        /\ usage[k] \in Nat /\ chances[k] \in Nat
    BY <2>1, HoldersFinite, FS_EmptySet DEF IInv, Fits, TypeOk
  <2>3. usage[k] + Cardinality(Holders(k)) <= 1 + chances[k]
    BY <2>1 DEF IInv, DebitsFit
  <2>4. usage[k] <= chances[k]
    BY <2>2, <2>3
  <2>5. /\ usage' = [usage EXCEPT ![k] = @ + 1]
        /\ chances' = [chances EXCEPT ![k] = @ + 1]
    BY <1>4 DEF CrashBeforeResolved, Debit
  <2>6. Fits'
    <3> USE DEF IInv, Fits, TypeOk, TablesFit, RequestsFit, Exclusive, SweepFits, Has,
       TransfersAccounted, Answered, ReservationsKept, OrphanStatus, Places,
       tables, world, procs, history
    <3>1. TypeOk'
      BY <1>4, <2>1, <2>4 DEF CrashBeforeResolved, ProcessGone, Debit
    <3>2. TablesFit'
      BY <1>4, <2>1, <2>4 DEF CrashBeforeResolved, ProcessGone, Debit
    <3>3. RequestsFit'
      BY <1>4, <2>1, <2>4 DEF CrashBeforeResolved, ProcessGone, Debit
    <3>4. Exclusive'
      BY <1>4, <2>1, <2>4 DEF CrashBeforeResolved, ProcessGone, Debit
    <3>5. SweepFits'
      BY <1>4, <2>1, <2>4 DEF CrashBeforeResolved, ProcessGone, Debit
    <3>6. TransfersAccounted'
      BY <1>4, <2>1, <2>4 DEF CrashBeforeResolved, ProcessGone, Debit
    <3>7. ReservationsKept'
      BY <1>4, <2>1, <2>4 DEF CrashBeforeResolved, ProcessGone, Debit
    <3> QED BY <3>1, <3>2, <3>3, <3>4, <3>5, <3>6, <3>7
  <2>7. ASSUME NEW j \in Keys
        PROVE  usage'[j] + Cardinality(Holders(j)') <= 1 + chances'[j]
    <3>1. /\ Cardinality(Holders(j)) \in Nat /\ usage[j] \in Nat /\ chances[j] \in Nat
          /\ usage[j] + Cardinality(Holders(j)) <= 1 + chances[j]
      BY HoldersFinite DEF IInv, Fits, TypeOk, DebitsFit
    <3>2. CASE j = k
      BY <1>2, <2>4, <2>5, <3>1, <3>2 DEF IInv, Fits, TypeOk
    <3>3. CASE j # k
      BY <1>2, <2>5, <3>1, <3>3 DEF IInv, Fits, TypeOk
    <3> QED BY <3>2, <3>3
  <2> QED BY <2>6, <2>7 DEF IInv, DebitsFit
<1> QED BY <1>3, <1>4 DEF Die

LEMMA StepFits == IInv /\ [Next]_vars => IInv'
<1> SUFFICES ASSUME IInv, [Next]_vars PROVE IInv'
  OBVIOUS
<1>1. CASE UNCHANGED vars
  BY <1>1 DEF vars, tables, world, procs, history, IInv, Fits, TypeOk, TablesFit,
     RequestsFit, Exclusive, SweepFits, DebitsFit, Holders, Has, TransfersAccounted,
     Answered, ReservationsKept
<1>2. CASE Next
  BY <1>2, RequestFits, SettlementFits, SweepFitsAgain, OutsideFits, CrashFits
     DEF Next
<1> QED BY <1>1, <1>2

\* The inductive invariant holds throughout.
THEOREM AlwaysFits == Spec => []IInv
BY InitFits, StepFits, PTL DEF Spec
--------------------------------------------------------------------------------
(* The properties that follow *)

\* Every variable keeps its type and its range.
THEOREM TypeCorrect == Spec => []TypeOk
<1>1. IInv => TypeOk
  BY DEF IInv, Fits
<1> QED BY <1>1, AlwaysFits, PTL

\* However many requests carry a nonce in one spelling, and whatever fails, the
\* provider produces at most one completion for it.
THEOREM OneCompletionEver == Spec => []OneCompletion
<1>1. IInv => OneCompletion
  BY DEF IInv, Fits, TablesFit, OneCompletion
<1> QED BY <1>1, AlwaysFits, PTL

\* However many passes of the sweep overlap and whenever the process dies, each
\* debit beyond a completion's first goes back to one pass that took up a row
\* another still had, or to one crash before the resolution.
THEOREM DebitedOnceOnly == Spec => []DebitedOnce
<1>1. IInv => DebitedOnce
  <2> SUFFICES ASSUME IInv, NEW k \in Keys PROVE usage[k] <= 1 + chances[k]
    BY DEF DebitedOnce
  <2>1. usage[k] + Cardinality(Holders(k)) <= 1 + chances[k]
    BY DEF IInv, DebitsFit
  <2> QED BY <2>1, HoldersFinite DEF IInv, Fits, TypeOk
<1> QED BY <1>1, AlwaysFits, PTL

\* Until the process crashes, each reservation is being worked on, debited, or
\* recorded as an orphan.
THEOREM NothingStrandedYet == Spec => []NothingStranded
<1>1. IInv => NothingStranded
  BY DEF IInv, Fits, TypeOk, OrphanStatus, ReservationsKept, TablesFit,
     NothingStranded, Life, InHand
<1> QED BY <1>1, AlwaysFits, PTL

\* Who paid for a completion that was written off paid through a transfer whose
\* answer the backend never got or is still to get, or which another spelling of
\* the same nonce was debited for.
THEOREM ForfeitedMeansUnpaid == Spec => []ForfeitedUnpaid
<1>1. IInv => ForfeitedUnpaid
  BY DEF IInv, Fits, TypeOk, TransfersAccounted, ForfeitedUnpaid
<1> QED BY <1>1, AlwaysFits, PTL
--------------------------------------------------------------------------------
(* The gateway implements the life of an authorization *)

LifeOf == [k \in Keys |-> Life(k)]

\* Key k is the only one that moves, from a stage in "from" to "to".
OnlyMoves(k, from, to) ==
  /\ Life(k) \in from
  /\ \A j \in Keys : Life(j)' = IF j = k THEN to ELSE Life(j)

\* Nothing moves.
Rests == \A j \in Keys : Life(j)' = Life(j)

\* A move of one key, in the gateway's terms and in the promise's.
LEMMA OneMove ==
  ASSUME NEW k \in Keys, NEW from, NEW to, OnlyMoves(k, from, to)
  PROVE  Promise!Move(k, from, to)
BY DEF OnlyMoves, Promise!Move

LEMMA RequestMoves ==
  ASSUME IInv, IInv', NEW r \in Requests, Request(r)
  PROVE  Promise!Next \/ Rests
<1> USE PaidInferenceAssumption
<1> USE DEF IInv, Fits, TypeOk, TablesFit, RequestsFit, Exclusive,
       OrphanStatus, Places, Await, tables, world, procs, history, InHand, Life
<1>1. ASSUME NEW k \in Keys, Post(r, k) PROVE Rests
  BY <1>1 DEF Post, Rests
<1>2. CASE PaymentInvalid(r)
  <2>1. Rests
    BY <1>2 DEF PaymentInvalid, Rests
  <2> QED BY <2>1
<1>3. CASE Claim(r)
  <2>1. on[r] \in Keys /\ OnlyMoves(on[r], {"fresh"}, "held")
    BY <1>3 DEF Claim, OnlyMoves
  <2> QED BY <2>1, OneMove DEF Promise!Next, Promise!Hold
<1>4. CASE AlreadyUsed(r)
  <2>1. Rests
    BY <1>4 DEF AlreadyUsed, Rests
  <2> QED BY <2>1
<1>5. CASE ProviderFailed(r)
  <2>1. on[r] \in Keys /\ OnlyMoves(on[r], {"held"}, "fresh")
    BY <1>5 DEF ProviderFailed, ReleaseNonce, Referenced, OnlyMoves
  <2> QED BY <2>1, OneMove DEF Promise!Next, Promise!GiveBack
<1>6. CASE ProviderAnswered(r)
  <2>1. on[r] \in Keys /\ OnlyMoves(on[r], {"held"}, "owed")
    BY <1>6 DEF ProviderAnswered, RecordOrphan, OnlyMoves
  <2> QED BY <2>1, OneMove DEF Promise!Next, Promise!Owe
<1> QED BY <1>1, <1>2, <1>3, <1>4, <1>5, <1>6 DEF Request

LEMMA SettlementMoves ==
  ASSUME IInv, IInv', NEW p \in Processes, Settlement(p)
  PROVE  Promise!Next \/ Rests
<1> USE PaidInferenceAssumption
<1> USE DEF IInv, Fits, TypeOk, TablesFit, RequestsFit, Exclusive, SweepFits, Has,
       OrphanStatus, Places, Await, tables, world, procs, history, InHand, Life
<1>1. CASE Broadcast(p)
  <2>1. Rests
    BY <1>1 DEF Broadcast, Rests
  <2> QED BY <2>1
<1>2. CASE Sent(p)
  <2>1. PICK k \in Keys : k = on[p]
    BY <1>2 DEF Sent
  <2>2. ASSUME NEW j \in Keys, j # k PROVE Life(j)' = Life(j)
    BY SMTT(30), <1>2, <2>1, <2>2 DEF Sent, OnSuccess, Debit
  <2>3. usage'[k] > 0
    BY <1>2, <2>1 DEF Sent, OnSuccess, Debit
  <2>4. Life(k)' = "paid"
    BY <2>3
  <2>5. Life(k) \in {"owed", "forfeited", "paid"}
    BY <1>2, <2>1 DEF Sent
  <2>6. CASE Life(k) \in {"owed", "forfeited"}
    <3> HIDE DEF Life
    <3>1. OnlyMoves(k, {"owed", "forfeited"}, "paid")
      BY <2>2, <2>4, <2>6 DEF OnlyMoves
    <3> QED BY <3>1, OneMove DEF Promise!Next, Promise!Pay
  <2>7. CASE Life(k) = "paid"
    <3> HIDE DEF Life
    <3>1. Rests
      BY <2>2, <2>4, <2>7 DEF Rests
    <3> QED BY <3>1
  <2> QED BY <2>5, <2>6, <2>7
<1>3. CASE NotSent(p)
  <2>1. Rests
    BY <1>3 DEF NotSent, OnFailure, RecordOrphan, Rests
  <2> QED BY <2>1
<1>4. CASE AnswerLost(p)
  <2>1. Rests
    BY <1>4 DEF AnswerLost, OnFailure, RecordOrphan, Rests
  <2> QED BY <2>1
<1> QED BY <1>1, <1>2, <1>3, <1>4 DEF Settlement

LEMMA SweepMoves ==
  ASSUME IInv, IInv', NEW s \in Sweepers, Sweep(s)
  PROVE  Promise!Next \/ Rests
<1> USE PaidInferenceAssumption
<1> USE DEF IInv, Fits, TypeOk, TablesFit, RequestsFit, Exclusive, SweepFits, Has,
       OrphanStatus, Places, Await, PassEnds, tables, world, procs, history, InHand, Life
<1>1. CASE SweepStart(s)
  <2>1. Rests
    BY <1>1 DEF SweepStart, StartWith, Rests
  <2> QED BY <2>1
<1>2. CASE SweepEnd(s)
  <2>1. Rests
    BY <1>2 DEF SweepEnd, Rests
  <2> QED BY <2>1
<1>3. ASSUME NEW k \in Keys, SweepRetry(s, k) PROVE Rests
  BY <1>3 DEF SweepRetry, Rests
<1>4. ASSUME NEW k \in Keys, SweepWriteOff(s, k) PROVE Promise!Next \/ Rests
  <2>1. OnlyMoves(k, {"owed"}, "forfeited") \/ Rests
    BY SMTT(30), <1>4 DEF SweepWriteOff, ReleaseNonce, Referenced, OnlyMoves, Rests
  <2> QED BY <2>1, OneMove DEF Promise!Next, Promise!Forfeit
<1> QED BY <1>1, <1>2, <1>3, <1>4 DEF Sweep

LEMMA OutsideMoves ==
  ASSUME IInv, IInv', Outside
  PROVE  Rests
BY DEF Outside, Mined, MinedTooLate, Expire, tables, world, procs, history,
   Rests, Life, InHand

\* What a crash may do to key k.
MovesInCrash(k) ==
  /\ Life(k)' \in Promise!Stages
  /\ \/ Life(k)' = Life(k)
     \/ Life(k) \in {"held", "owed"} /\ Life(k)' = "stranded"
     \/ Life(k) \in {"owed", "forfeited"} /\ Life(k)' = "paid"

LEMMA CrashMoves ==
  ASSUME IInv, IInv', Die
  PROVE  Promise!Die
<1> USE PaidInferenceAssumption
<1>1. ASSUME NEW k \in Keys PROVE MovesInCrash(k)
  <2> USE DEF IInv, Fits, TypeOk, TablesFit, RequestsFit, Exclusive, SweepFits, Has,
       OrphanStatus, Places, tables, world, procs, history, InHand, Life,
       Promise!Stages, ProcessGone, MovesInCrash
  <2>1. CASE Crash
    BY <2>1 DEF Crash
  <2>2. ASSUME NEW s \in Sweepers, CrashBeforeResolved(s) PROVE MovesInCrash(k)
    BY <2>2 DEF CrashBeforeResolved, Debit
  <2> QED BY <2>1, <2>2 DEF Die
<1> QED BY <1>1 DEF Promise!Die, MovesInCrash

\* The concurrent gateway, with its overlapping passes, its crashes and a chain whose
\* answers are late or lost, implements the life of each nonce as it is spelled.
THEOREM PromiseKept == Spec => KeepsPromise
<1>1. Init => Promise!Init
  BY DEF Init, Promise!Init, Life, InHand
<1>2. IInv /\ IInv' /\ [Next]_vars => [Promise!Next]_LifeOf
  <2> SUFFICES ASSUME IInv, IInv', [Next]_vars
               PROVE  Promise!Next \/ Rests
    BY DEF Rests, LifeOf
  <2>1. CASE UNCHANGED vars
    BY <2>1 DEF vars, tables, world, procs, history, Rests, Life, InHand
  <2>2. CASE Next
    BY <2>2, RequestMoves, SettlementMoves, SweepMoves, OutsideMoves, CrashMoves
       DEF Next, Promise!Next
  <2> QED BY <2>1, <2>2
<1> QED BY <1>1, <1>2, AlwaysFits, PTL DEF Spec, KeepsPromise, Promise!Spec, LifeOf
================================================================================
