---------------------------- MODULE MarketplaceProofs ----------------------------
(***************************************************************************)
(* The marketplace keeps budgets, signatures, invocation rows and tokens    *)
(* together for any number of listings, invocations, writers, signatures,   *)
(* authorizations and crashes.                                             *)
(***************************************************************************)
EXTENDS Marketplace, FiniteSetTheorems, TLAPS

\* Every invocation in flight was let in below the budget and will debit at
\* most one sale more.
BudgetFits == spent + Cardinality(InFlight) <= Budget - 1 + Cardinality(Handlers)

\* A signature has been accepted once for each of its spellings that is burnt.
SignaturesFit ==
  \A s \in Signatures : accepted[s] = Cardinality(Spellings(s) \cap burnt)

\* Past the broadcast of its fee, an invocation has a fee that was broadcast;
\* the same of the seller's share.
LegsFit ==
  \A h \in Handlers :
    /\ FeeActive /\ at[h] \in {"feeSent", "pay", "paySent"} => deal[h].fee \in sent
    /\ at[h] = "paySent" => deal[h].pay \in sent

\* The current file of a zip listing is there, only files of earlier versions
\* are unlinked, and no invocation holds a version that is yet to come.
FilesFit ==
  /\ \A z \in Zips : version[z] \in disk[z]
  /\ \A d \in doomed : d[2] < version[d[1]]
  /\ \A h \in Handlers :
       deal[h] # NoLeg /\ deal[h].listing \in Zips
         => deal[h].version <= version[deal[h].listing]

IInv == TypeOk /\ BudgetFits /\ SignaturesFit /\ LegsFit /\ SettledIsEvidenced
          /\ FilesFit /\ TokenServes

USE DEF Listings, Legs, Deals
--------------------------------------------------------------------------------
(* Types *)

LEMMA InitTyped == Init => TypeOk
BY MarketplaceAssumption DEF Init, TypeOk, Places

LEMMA WriteTyped ==
  ASSUME TypeOk, NEW w \in Writers, Write(w)
  PROVE  TypeOk'
<1> USE MarketplaceAssumption DEF TypeOk, Places, sales, chain, shop, Burn
<1>1. ASSUME NEW n \in Nonces, Sign(w, n) PROVE TypeOk'
  BY <1>1 DEF Sign
<1>2. CASE UpdateFields(w)
  BY <1>2 DEF UpdateFields
<1>3. CASE BadSignature(w)
  BY <1>3 DEF BadSignature
<1>4. CASE BurnConflict(w)
  BY <1>4 DEF BurnConflict, Down
<1> QED BY <1>1, <1>2, <1>3, <1>4 DEF Write

LEMMA ChangeTyped ==
  ASSUME TypeOk, NEW w \in Writers \cup {NoLeg}, Change(w)
  PROVE  TypeOk'
<1> USE MarketplaceAssumption DEF TypeOk, Places, sales, chain, shop, Authorized, Burn
<1>1. ASSUME NEW z \in Zips, UpdateZip(w, z) PROVE TypeOk'
  BY <1>1 DEF UpdateZip, Replaced
<1>2. ASSUME NEW l \in Listings, SetListingStatus(w, l) PROVE TypeOk'
  BY <1>2 DEF SetListingStatus
<1> QED BY <1>1, <1>2 DEF Change

LEMMA SellTyped ==
  ASSUME TypeOk, NEW h \in Handlers, Sell(h)
  PROVE  TypeOk'
<1> USE MarketplaceAssumption
<1> USE DEF TypeOk, Places, shop, chain, End, Goto, Record, FeeLeg, FirstLeg, Offered
<1>1. ASSUME NEW l \in Listings, NEW f \in Fees, NEW p \in Pays, Invoke(h, l, f, p)
      PROVE  TypeOk'
  <2>1. [listing |-> l, version |-> Offered(l), fee |-> f, pay |-> p] # NoLeg
    BY <1>1
  <2> QED BY <1>1, <2>1 DEF Invoke
<1>2. CASE Refused(h)
  BY <1>2 DEF Refused
<1>3. CASE Verified(h)
  BY <1>3 DEF Verified
<1>4. CASE SellerAnswers(h)
  BY <1>4 DEF SellerAnswers
<1>5. CASE SellerFails(h)
  BY <1>5 DEF SellerFails
<1>6. CASE SendFee(h)
  BY <1>6 DEF SendFee
<1>7. CASE FeeSettled(h)
  BY <1>7 DEF FeeSettled
<1>8. CASE FeeFailed(h)
  BY <1>8 DEF FeeFailed
<1>9. CASE SendPay(h)
  BY <1>9 DEF SendPay
<1>10. CASE Settled(h)
  BY <1>10 DEF Settled
<1>11. CASE PayFailed(h)
  BY <1>11 DEF PayFailed
<1>12. ASSUME NEW d \in BOOLEAN, CrashInSettled(h, d) PROVE TypeOk'
  BY <1>12 DEF CrashInSettled, Down
<1> QED BY <1>1, <1>2, <1>3, <1>4, <1>5, <1>6, <1>7, <1>8, <1>9, <1>10, <1>11, <1>12
        DEF Sell

LEMMA StepTyped ==
  ASSUME TypeOk, [Next]_vars
  PROVE  TypeOk'
<1> USE MarketplaceAssumption DEF TypeOk, Places, shop, sales, chain
<1>1. CASE Crash
  BY <1>1 DEF Crash, Down
<1>2. CASE Age
  BY <1>2 DEF Age
<1>3. ASSUME NEW l \in Listings, Deactivate(l) PROVE TypeOk'
  BY <1>3 DEF Deactivate
<1>4. ASSUME NEW z \in Zips, NEW v \in 1 .. MaxVersion, Unlink(z, v) PROVE TypeOk'
  BY <1>4 DEF Unlink
<1>5. ASSUME NEW z \in Zips, NEW v \in 1 .. MaxVersion, Download(z, v) PROVE TypeOk'
  BY <1>5 DEF Download
<1>6. ASSUME NEW a \in Legs, Mined(a) PROVE TypeOk'
  BY <1>6 DEF Mined
<1>7. CASE UNCHANGED vars
  BY <1>7 DEF vars
<1> QED BY <1>1, <1>2, <1>3, <1>4, <1>5, <1>6, <1>7, WriteTyped, ChangeTyped, SellTyped DEF Next

\* The type invariant: an idle handler carries no deal, and a handler at an await
\* carries the row it read and two legs.
THEOREM TypeCorrect == Spec => []TypeOk
BY InitTyped, StepTyped, PTL DEF Spec

--------------------------------------------------------------------------------
(* Budgets *)

LEMMA HandlersCounted ==
  ASSUME NEW S \in SUBSET Handlers
  PROVE  /\ IsFiniteSet(S) /\ Cardinality(S) \in Nat
         /\ Cardinality(Handlers) \in Nat /\ Cardinality(S) <= Cardinality(Handlers)
BY MarketplaceAssumption, FS_Subset, FS_CardinalityType

LEMMA InFlightShrinks ==
  ASSUME TypeOk, BudgetFits, spent' \in Nat, spent' <= spent, InFlight' \subseteq InFlight
  PROVE  BudgetFits'
<1>1. InFlight \in SUBSET Handlers /\ InFlight' \in SUBSET InFlight
  BY DEF InFlight
<1>2. Cardinality(InFlight') <= Cardinality(InFlight)
  BY <1>1, HandlersCounted, FS_Subset
<1> QED BY <1>1, <1>2, HandlersCounted, MarketplaceAssumption DEF BudgetFits, TypeOk

LEMMA InFlightDebits ==
  ASSUME TypeOk, BudgetFits, NEW h \in InFlight, spent' \in {spent, spent + 1},
         InFlight' \subseteq InFlight \ {h}
  PROVE  BudgetFits'
<1>1. InFlight \in SUBSET Handlers
  BY DEF InFlight
<1>2. IsFiniteSet(InFlight \ {h}) /\ Cardinality(InFlight \ {h}) = Cardinality(InFlight) - 1
  BY <1>1, HandlersCounted, FS_RemoveElement
<1>3. Cardinality(InFlight') <= Cardinality(InFlight) - 1
  BY <1>2, FS_Subset
<1>4. Cardinality(InFlight) \in Nat /\ Cardinality(InFlight') \in Nat
  <2>1. InFlight' \in SUBSET Handlers
    BY <1>1
  <2> QED BY <1>1, <2>1, HandlersCounted
<1> QED BY <1>3, <1>4, HandlersCounted, <1>1, MarketplaceAssumption DEF BudgetFits, TypeOk

\* An invocation is let in below the budget, and there are no more invocations
\* in flight than handlers.
LEMMA InvokeFits ==
  ASSUME TypeOk, spent' = spent, WithinBudget
  PROVE  BudgetFits'
<1>1. InFlight' \in SUBSET Handlers
  BY DEF InFlight
<1> QED BY <1>1, HandlersCounted, MarketplaceAssumption
        DEF BudgetFits, TypeOk, WithinBudget

LEMMA BudgetStep ==
  ASSUME TypeOk, BudgetFits, [Next]_vars
  PROVE  BudgetFits'
<1> USE DEF shop, sales, chain
<1>1. TypeOk'
  BY StepTyped
<1>2. ASSUME spent' <= spent, \A h \in Handlers : at'[h] \in {at[h], "idle"}
      PROVE  BudgetFits'
  BY <1>1, <1>2, InFlightShrinks DEF InFlight, TypeOk
<1>3. ASSUME UNCHANGED <<spent, at>> PROVE BudgetFits'
  BY <1>2, <1>3 DEF TypeOk
<1>4. ASSUME spent' = spent, Down PROVE BudgetFits'
  BY <1>2, <1>4 DEF TypeOk, Down
<1>5. CASE Crash
  BY <1>4, <1>5 DEF Crash
<1>6. CASE Age
  BY <1>2, <1>6 DEF Age, TypeOk
<1>7. ASSUME NEW w \in Writers, Write(w) PROVE BudgetFits'
  <2>1. CASE BurnConflict(w)
    BY <2>1, <1>4 DEF BurnConflict
  <2>2. CASE ~BurnConflict(w)
    BY <2>2, <1>3, <1>7 DEF Write, Sign, UpdateFields, BadSignature
  <2> QED BY <2>1, <2>2
<1>8. ASSUME NEW h \in Handlers, Sell(h) PROVE BudgetFits'
  <2> USE DEF TypeOk, Goto, End
  <2>1. ASSUME NEW l \in Listings, NEW f \in Fees, NEW p \in Pays, Invoke(h, l, f, p)
        PROVE  BudgetFits'
    BY <2>1, InvokeFits DEF Invoke
  <2>2. ASSUME spent' = spent, at[h] # "idle", NEW place, Goto(h, place) PROVE BudgetFits'
    BY <2>2, <1>1, InFlightShrinks DEF InFlight
  <2>3. CASE Refused(h) \/ SellerFails(h) \/ FeeFailed(h) \/ PayFailed(h)
    BY <2>2, <2>3 DEF Refused, SellerFails, FeeFailed, PayFailed
  <2>4. CASE Verified(h)
    BY <2>2, <2>4 DEF Verified
  <2>5. CASE SellerAnswers(h) \/ SendFee(h) \/ FeeSettled(h) \/ SendPay(h)
    BY <2>2, <2>5 DEF SellerAnswers, SendFee, FeeSettled, SendPay
  <2>6. CASE Settled(h)
    <3>1. h \in InFlight /\ InFlight' \subseteq InFlight \ {h} /\ spent' = spent + 1
      BY <2>6 DEF Settled, InFlight
    <3> QED BY <3>1, InFlightDebits
  <2>7. ASSUME NEW d \in BOOLEAN, CrashInSettled(h, d) PROVE BudgetFits'
    <3>1. h \in InFlight /\ InFlight' = {} /\ spent' \in {spent, spent + 1}
      BY <2>7 DEF CrashInSettled, Down, InFlight
    <3> QED BY <3>1, InFlightDebits
  <2> QED BY <1>8, <2>1, <2>3, <2>4, <2>5, <2>6, <2>7 DEF Sell
<1>9. ASSUME NEW l \in Listings, Deactivate(l) PROVE BudgetFits'
  BY <1>3, <1>9 DEF Deactivate
<1>10. ASSUME NEW z \in Zips, NEW v \in 1 .. MaxVersion, Unlink(z, v) \/ Download(z, v)
       PROVE  BudgetFits'
  BY <1>3, <1>10 DEF Unlink, Download
<1>11. ASSUME NEW a \in Legs, Mined(a) PROVE BudgetFits'
  BY <1>3, <1>11 DEF Mined
<1>12. CASE UNCHANGED vars
  BY <1>3, <1>12 DEF vars
<1>13. ASSUME NEW w \in Writers \cup {NoLeg}, Change(w) PROVE BudgetFits'
  BY <1>3, <1>13 DEF Change, UpdateZip, SetListingStatus
<1> QED BY <1>5, <1>6, <1>7, <1>8, <1>9, <1>10, <1>11, <1>12, <1>13 DEF Next

--------------------------------------------------------------------------------
(* Signatures *)

LEMMA SignaturesStep ==
  ASSUME TypeOk, SignaturesFit, [Next]_vars
  PROVE  SignaturesFit'
<1> USE DEF TypeOk, SignaturesFit, shop, sales, chain
<1>1. ASSUME UNCHANGED <<accepted, burnt>> PROVE SignaturesFit'
  BY <1>1 DEF Spellings
<1>2. ASSUME NEW w \in Writers, Burn(w) PROVE SignaturesFit'
  <2> DEFINE n == signing[w]
             s == SignedBy[n]
  <2>1. n \in Nonces \ burnt /\ s \in Signatures
    BY <1>2, MarketplaceAssumption DEF Burn, Burnable
  <2>2. accepted' = [accepted EXCEPT ![s] = @ + 1] /\ burnt' = burnt \cup {n}
    BY <1>2 DEF Burn
  <2> HIDE DEF n, s
  <2>3. \A r \in Signatures : IsFiniteSet(Spellings(r) \cap burnt)
    <3>1. \A r \in Signatures : Spellings(r) \cap burnt \in SUBSET Nonces
      BY DEF Spellings
    <3> QED BY <3>1, MarketplaceAssumption, FS_Subset
  <2>4. SUFFICES ASSUME NEW r \in Signatures
                 PROVE  accepted'[r] = Cardinality(Spellings(r) \cap burnt')
    BY DEF Spellings
  <2>5. CASE r = s
    <3>1. Spellings(r) \cap burnt' = (Spellings(r) \cap burnt) \cup {n}
      BY <2>1, <2>2, <2>5 DEF Spellings, n, s
    <3>2. n \notin Spellings(r) \cap burnt
      BY <2>1
    <3>3. Cardinality((Spellings(r) \cap burnt) \cup {n}) = Cardinality(Spellings(r) \cap burnt) + 1
      BY <2>3, <3>2, FS_AddElement
    <3> QED BY <2>1, <2>2, <2>5, <3>1, <3>3
  <2>6. CASE r # s
    <3>1. Spellings(r) \cap burnt' = Spellings(r) \cap burnt
      BY <2>1, <2>2, <2>6 DEF Spellings, n, s
    <3> QED BY <2>1, <2>2, <2>6, <3>1
  <2> QED BY <2>5, <2>6
<1>3. ASSUME NEW w \in Writers, Write(w) PROVE SignaturesFit'
  BY <1>1, <1>2, <1>3 DEF Write, Sign, UpdateFields, BadSignature, BurnConflict
<1>4. ASSUME NEW h \in Handlers, Sell(h) PROVE SignaturesFit'
  BY <1>1, <1>4 DEF Sell, Invoke, Refused, Verified, SellerAnswers, SellerFails, SendFee,
    FeeSettled, FeeFailed, SendPay, Settled, PayFailed, CrashInSettled
<1>5. CASE Crash \/ Age \/ UNCHANGED vars
  BY <1>1, <1>5 DEF Crash, Age, vars
<1>6. ASSUME NEW l \in Listings, Deactivate(l) PROVE SignaturesFit'
  BY <1>1, <1>6 DEF Deactivate
<1>7. ASSUME NEW z \in Zips, NEW v \in 1 .. MaxVersion, Unlink(z, v) \/ Download(z, v)
      PROVE  SignaturesFit'
  BY <1>1, <1>7 DEF Unlink, Download
<1>8. ASSUME NEW a \in Legs, Mined(a) PROVE SignaturesFit'
  BY <1>1, <1>8 DEF Mined
<1>9. ASSUME NEW w \in Writers \cup {NoLeg}, Change(w) PROVE SignaturesFit'
  <2>1. \/ UNCHANGED <<accepted, burnt>>
        \/ w \in Writers /\ Burn(w)
    BY <1>9 DEF Change, UpdateZip, SetListingStatus, Authorized
  <2> QED BY <1>1, <1>2, <2>1
<1> QED BY <1>3, <1>4, <1>5, <1>6, <1>7, <1>8, <1>9 DEF Next

--------------------------------------------------------------------------------
(* The two legs of an invocation *)

\* A handler stays where it is, goes on, or ends; what the chain has been told stays.
LEMMA LegsStep ==
  ASSUME TypeOk, LegsFit, [Next]_vars
  PROVE  LegsFit'
<1> USE DEF TypeOk, LegsFit, shop, sales, chain
<1>1. ASSUME sent \subseteq sent',
             \A h \in Handlers : at'[h] = "idle" \/ (at'[h] = at[h] /\ deal'[h] = deal[h])
      PROVE  LegsFit'
  BY <1>1
<1>2. ASSUME NEW w \in Writers, Write(w) PROVE LegsFit'
  <2>1. CASE BurnConflict(w)
    BY <1>1, <2>1 DEF BurnConflict, Down
  <2>2. CASE ~BurnConflict(w)
    BY <1>1, <1>2, <2>2 DEF Write, Sign, UpdateFields, BadSignature
  <2> QED BY <2>1, <2>2
<1>3. ASSUME NEW h \in Handlers, Sell(h) PROVE LegsFit'
  <2> USE DEF Goto, End
  <2>1. ASSUME NEW l \in Listings, NEW f \in Fees, NEW p \in Pays, Invoke(h, l, f, p)
        PROVE  LegsFit'
    BY <2>1 DEF Invoke
  <2>2. CASE Refused(h) \/ SellerFails(h) \/ FeeFailed(h) \/ PayFailed(h) \/ Settled(h)
    BY <1>1, <2>2 DEF Refused, SellerFails, FeeFailed, PayFailed, Settled
  <2>3. CASE Verified(h) \/ SellerAnswers(h)
    <3>1. /\ UNCHANGED <<deal, sent>>
          /\ Goto(h, "seller") \/ Goto(h, "fee") \/ (~FeeActive /\ Goto(h, "pay"))
      BY <2>3 DEF Verified, SellerAnswers, FirstLeg
    <3>2. \A k \in Handlers : k # h => at'[k] = at[k] /\ deal'[k] = deal[k]
      BY <3>1
    <3>3. at'[h] \in {"seller", "fee"} \/ (~FeeActive /\ at'[h] = "pay")
      BY <3>1
    <3>4. UNCHANGED <<deal, sent>>
      BY <3>1
    <3> HIDE DEF shop, sales, chain, Goto, End
    <3> QED BY <3>2, <3>3, <3>4
  <2>4. CASE SendFee(h)
    BY <2>4 DEF SendFee
  <2>5. CASE FeeSettled(h)
    BY <2>5 DEF FeeSettled
  <2>6. CASE SendPay(h)
    BY <2>6 DEF SendPay
  <2>7. ASSUME NEW d \in BOOLEAN, CrashInSettled(h, d) PROVE LegsFit'
    BY <1>1, <2>7 DEF CrashInSettled, Down
  <2> QED BY <1>3, <2>1, <2>2, <2>3, <2>4, <2>5, <2>6, <2>7 DEF Sell
<1>4. CASE Crash \/ Age \/ UNCHANGED vars
  BY <1>1, <1>4 DEF Crash, Down, Age, vars
<1>5. ASSUME NEW l \in Listings, Deactivate(l) PROVE LegsFit'
  BY <1>1, <1>5 DEF Deactivate
<1>6. ASSUME NEW z \in Zips, NEW v \in 1 .. MaxVersion, Unlink(z, v) \/ Download(z, v)
      PROVE  LegsFit'
  BY <1>1, <1>6 DEF Unlink, Download
<1>7. ASSUME NEW a \in Legs, Mined(a) PROVE LegsFit'
  BY <1>1, <1>7 DEF Mined
<1>8. ASSUME NEW w \in Writers \cup {NoLeg}, Change(w) PROVE LegsFit'
  BY <1>1, <1>8 DEF Change, UpdateZip, SetListingStatus
<1> QED BY <1>2, <1>3, <1>4, <1>5, <1>6, <1>7, <1>8 DEF Next

\* The part of SettledIsEvidenced about one seller's leg, and the part about rows.
Evidenced(p) ==
  \/ p \in unheard
  \/ \E r \in rows : r.pay = p
  \/ \E h \in Handlers : at[h] = "paySent" /\ deal[h].pay = p

RowsFit == FeeActive => \A r \in rows : r.fee \in sent

LEMMA Evidence == SettledIsEvidenced <=> RowsFit /\ \A p \in Pays \cap sent : Evidenced(p)
BY DEF SettledIsEvidenced, RowsFit, Evidenced

\* When all handlers end at once, what they had broadcast is counted as unheard.
LEMMA DownEvidenced ==
  ASSUME TypeOk, NEW p \in Pays, Evidenced(p), Down, rows \subseteq rows'
  PROVE  Evidenced(p)'
BY DEF TypeOk, Evidenced, Down

LEMMA EvidenceStep ==
  ASSUME TypeOk, LegsFit, SettledIsEvidenced, [Next]_vars
  PROVE  SettledIsEvidenced'
<1> USE DEF TypeOk, shop, sales, chain
<1>1. RowsFit /\ \A p \in Pays \cap sent : Evidenced(p)
  BY Evidence
<1>2. SUFFICES RowsFit' /\ \A p \in Pays \cap sent' : Evidenced(p)'
  BY DEF SettledIsEvidenced, RowsFit, Evidenced
<1> DEFINE Goal == RowsFit' /\ \A p \in Pays \cap sent' : Evidenced(p)'
<1>3. ASSUME UNCHANGED <<rows, sent, at, deal, unheard>> PROVE Goal
  BY <1>1, <1>3 DEF RowsFit, Evidenced
<1>4. ASSUME Down, UNCHANGED <<rows, sent>> PROVE Goal
  BY <1>1, <1>4, DownEvidenced DEF RowsFit
<1>5. ASSUME NEW w \in Writers, Write(w) PROVE Goal
  <2>1. CASE BurnConflict(w)
    BY <1>4, <2>1 DEF BurnConflict
  <2>2. CASE ~BurnConflict(w)
    BY <1>3, <1>5, <2>2 DEF Write, Sign, UpdateFields, BadSignature
  <2> QED BY <2>1, <2>2
<1>6. ASSUME NEW h \in Handlers, Sell(h) PROVE Goal
  <2> USE DEF Goto, End
  <2>1. ASSUME at[h] # "paySent", UNCHANGED <<rows, sent, unheard>>,
               \A k \in Handlers \ {h} : at'[k] = at[k] /\ deal'[k] = deal[k]
        PROVE  Goal
    BY <1>1, <2>1 DEF RowsFit, Evidenced
  <2>2. ASSUME NEW l \in Listings, NEW f \in Fees, NEW p \in Pays, Invoke(h, l, f, p)
        PROVE  Goal
    BY <2>1, <2>2 DEF Invoke
  <2>3. CASE Refused(h) \/ Verified(h) \/ SellerAnswers(h) \/ FeeSettled(h)
    BY <2>1, <2>3 DEF Refused, Verified, SellerAnswers, FeeSettled
  <2>4. CASE SellerFails(h) \/ FeeFailed(h)
    BY <1>1, <2>4 DEF SellerFails, FeeFailed, Record, RowsFit, Evidenced
  <2>5. CASE SendFee(h)
    BY <1>1, <2>5, MarketplaceAssumption DEF SendFee, RowsFit, Evidenced
  <2>6. CASE SendPay(h)
    BY <1>1, <2>6 DEF SendPay, RowsFit, Evidenced
  <2>7. CASE PayFailed(h)
    <3>1. RowsFit' /\ sent' = sent /\ rows' = rows
      BY <1>1, <2>7 DEF PayFailed, Record, RowsFit
    <3>2. ASSUME NEW p \in Pays \cap sent PROVE Evidenced(p)'
      <4>1. /\ unheard \subseteq unheard'
            /\ at[h] = "paySent" => deal[h].pay \in unheard'
            /\ \A k \in Handlers : k # h => at'[k] = at[k] /\ deal'[k] = deal[k]
        BY <2>7 DEF PayFailed
      <4>2. Evidenced(p)
        BY <1>1
      <4> QED BY <3>1, <4>1, <4>2 DEF Evidenced
    <3> QED BY <3>1, <3>2
  <2>8. CASE Settled(h)
    <3>1. FeeActive => FeeLeg(h) \in sent
      BY <2>8 DEF LegsFit, Settled, FeeLeg
    <3>2. RowsFit'
      BY <1>1, <2>8, <3>1 DEF Settled, Record, RowsFit
    <3>3. ASSUME NEW p \in Pays \cap sent PROVE Evidenced(p)'
      <4>1. CASE p = deal[h].pay
        <5> DEFINE row == [fee |-> FeeLeg(h), pay |-> deal[h].pay]
        <5>1. row \in rows' /\ row.pay = p
          BY <2>8, <4>1, MarketplaceAssumption DEF Settled, Record
        <5> QED BY <5>1 DEF Evidenced
      <4>2. CASE p # deal[h].pay
        <5>1. Evidenced(p)
          BY <1>1
        <5>2. rows \subseteq rows' /\ unheard' = unheard
          BY <2>8 DEF Settled, Record
        <5>3. \A k \in Handlers : k # h => at'[k] = at[k] /\ deal'[k] = deal[k]
          BY <2>8 DEF Settled
        <5> QED BY <4>2, <5>1, <5>2, <5>3 DEF Evidenced
      <4> QED BY <4>1, <4>2
    <3> QED BY <2>8, <3>2, <3>3 DEF Settled
  <2>9. ASSUME NEW d \in BOOLEAN, CrashInSettled(h, d) PROVE Goal
    <3>1. FeeActive => FeeLeg(h) \in sent
      BY <2>9 DEF LegsFit, CrashInSettled, FeeLeg
    <3>2. RowsFit' /\ sent' = sent /\ rows \subseteq rows' /\ Down
      BY <1>1, <2>9, <3>1 DEF CrashInSettled, Record, RowsFit
    <3> QED BY <1>1, <3>2, DownEvidenced
  <2> QED BY <1>6, <2>2, <2>3, <2>4, <2>5, <2>6, <2>7, <2>8, <2>9 DEF Sell
<1>7. CASE Crash \/ Age \/ UNCHANGED vars
  BY <1>3, <1>4, <1>7 DEF Crash, Age, vars
<1>8. ASSUME NEW l \in Listings, Deactivate(l) PROVE Goal
  BY <1>3, <1>8 DEF Deactivate
<1>9. ASSUME NEW z \in Zips, NEW v \in 1 .. MaxVersion, Unlink(z, v) \/ Download(z, v)
      PROVE  Goal
  BY <1>3, <1>9 DEF Unlink, Download
<1>10. ASSUME NEW a \in Legs, Mined(a) PROVE Goal
  BY <1>3, <1>10 DEF Mined
<1>11. ASSUME NEW w \in Writers \cup {NoLeg}, Change(w) PROVE Goal
  BY <1>3, <1>11 DEF Change, UpdateZip, SetListingStatus
<1> QED BY <1>5, <1>6, <1>7, <1>8, <1>9, <1>10, <1>11 DEF Next

--------------------------------------------------------------------------------
(* Files and tokens *)

LEMMA FilesStep ==
  ASSUME TypeOk, FilesFit, TokenServes, [Next]_vars
  PROVE  FilesFit' /\ TokenServes'
<1> USE DEF TypeOk, FilesFit, TokenServes, shop, sales, chain
<1> DEFINE Goal == FilesFit' /\ TokenServes'
<1>1. ASSUME UNCHANGED <<version, disk, tokens>>, doomed' \subseteq doomed,
             \A h \in Handlers : deal'[h] \in {deal[h], NoLeg}
      PROVE  Goal
  BY <1>1
<1>2. ASSUME NEW w \in Writers, Write(w) PROVE Goal
  <2>1. CASE BurnConflict(w)
    BY <1>1, <2>1 DEF BurnConflict, Down
  <2>2. CASE UpdateFields(w) \/ BadSignature(w) \/ \E n \in Nonces : Sign(w, n)
    BY <1>1, <2>2 DEF UpdateFields, BadSignature, Sign
  <2> QED BY <1>2, <2>1, <2>2 DEF Write
<1>3. ASSUME NEW h \in Handlers, Sell(h) PROVE Goal
  <2> USE DEF Goto, End
  <2>1. ASSUME NEW l \in Listings, NEW f \in Fees, NEW p \in Pays, Invoke(h, l, f, p)
        PROVE  Goal
    BY <2>1 DEF Invoke, Offered
  <2>2. CASE Settled(h)
    <3>1. deal[h] # NoLeg
          /\ (deal[h].listing \in Zips => deal[h].version <= version[deal[h].listing])
      BY <2>2 DEF Settled
    <3> QED BY <2>2, <3>1 DEF Settled
  <2>3. CASE Refused(h) \/ SellerFails(h) \/ FeeFailed(h) \/ PayFailed(h)
    BY <1>1, <2>3 DEF Refused, SellerFails, FeeFailed, PayFailed
  <2>4. CASE Verified(h) \/ SellerAnswers(h) \/ SendFee(h) \/ FeeSettled(h) \/ SendPay(h)
    BY <1>1, <2>4 DEF Verified, SellerAnswers, SendFee, FeeSettled, SendPay
  <2>5. ASSUME NEW d \in BOOLEAN, CrashInSettled(h, d) PROVE Goal
    BY <1>1, <2>5 DEF CrashInSettled, Down
  <2> QED BY <1>3, <2>1, <2>2, <2>3, <2>4, <2>5 DEF Sell
<1>4. CASE Crash \/ Age \/ UNCHANGED vars
  BY <1>1, <1>4 DEF Crash, Down, Age, vars
<1>5. ASSUME NEW l \in Listings, Deactivate(l) PROVE Goal
  BY <1>1, <1>5 DEF Deactivate
<1>6. ASSUME NEW z \in Zips, NEW v \in 1 .. MaxVersion, Unlink(z, v) PROVE Goal
  BY <1>6 DEF Unlink
<1>7. ASSUME NEW z \in Zips, NEW v \in 1 .. MaxVersion, Download(z, v) PROVE Goal
  BY <1>7 DEF Download
<1>8. ASSUME NEW a \in Legs, Mined(a) PROVE Goal
  BY <1>1, <1>8 DEF Mined
<1>9. ASSUME NEW w \in Writers \cup {NoLeg}, Change(w) PROVE Goal
  <2>1. ASSUME NEW z \in Zips, UpdateZip(w, z) PROVE Goal
    BY <2>1 DEF UpdateZip, Replaced
  <2>2. ASSUME NEW l \in Listings, SetListingStatus(w, l) PROVE Goal
    BY <1>1, <2>2 DEF SetListingStatus
  <2> QED BY <1>9, <2>1, <2>2 DEF Change
<1> QED BY <1>2, <1>3, <1>4, <1>5, <1>6, <1>7, <1>8, <1>9 DEF Next

--------------------------------------------------------------------------------
(* The invariant and what follows from it *)

LEMMA InitInvariant == Init => IInv
<1> SUFFICES ASSUME Init PROVE IInv
  OBVIOUS
<1>1. InFlight = {}
  BY DEF Init, InFlight
<1>2. BudgetFits
  <2>1. Cardinality(Handlers) \in Nat /\ Cardinality({}) = 0
    BY HandlersCounted, FS_EmptySet
  <2> QED BY <1>1, <2>1, MarketplaceAssumption DEF Init, BudgetFits
<1>3. SignaturesFit /\ LegsFit /\ SettledIsEvidenced
  <2>1. \A s \in Signatures : Spellings(s) \cap {} = {}
    OBVIOUS
  <2> QED BY <2>1, FS_EmptySet DEF Init, SignaturesFit, LegsFit, SettledIsEvidenced
<1>4. FilesFit /\ TokenServes
  BY DEF Init, FilesFit, TokenServes
<1> QED BY <1>2, <1>3, <1>4, InitTyped DEF IInv

\* The parts together are inductive: every step of a handler, of another writer,
\* of the chain's answer or of a crash keeps each of them.
THEOREM Invariant == Spec => []IInv
<1>1. IInv /\ [Next]_vars => IInv'
  BY StepTyped, BudgetStep, SignaturesStep, LegsStep, EvidenceStep, FilesStep DEF IInv
<1> QED BY <1>1, InitInvariant, PTL DEF Spec

\* However many invocations of one buyer overlap between the budget's check and
\* the debit, the buyer overspends by at most one sale for each other handler.
THEOREM BudgetOverdraftBounded == Spec => []BudgetHolds
<1>1. IInv => BudgetHolds
  <2> SUFFICES ASSUME IInv PROVE BudgetHolds
    OBVIOUS
  <2>1. InFlight \in SUBSET Handlers
    BY DEF InFlight
  <2> QED BY <2>1, HandlersCounted, MarketplaceAssumption
          DEF IInv, TypeOk, BudgetFits, BudgetHolds
<1> QED BY <1>1, Invariant, PTL

\* However many requests carry one signature past verifySellerSignature's check
\* together, it is accepted no more often than spellings of its nonce are burnt.
THEOREM SignatureOncePerSpelling == Spec => []SignatureOnce
<1>1. IInv => SignatureOnce
  <2>1. \A s \in Signatures : Spellings(s) \cap burnt \in SUBSET Nonces
    BY DEF Spellings
  <2>2. \A s \in Signatures : Cardinality(Spellings(s) \cap burnt) \in Nat
    BY <2>1, MarketplaceAssumption, FS_Subset, FS_CardinalityType
  <2> QED BY <2>2 DEF IInv, SignaturesFit, SignatureOnce
<1> QED BY <1>1, Invariant, PTL

\* No broadcast of a seller's share is forgotten unless its answer was lost, and no
\* row names a seller's share whose fee was not broadcast.
THEOREM SettlementsEvidenced == Spec => []SettledIsEvidenced
<1>1. IInv => SettledIsEvidenced
  BY DEF IInv
<1> QED BY <1>1, Invariant, PTL

\* A token sold before any number of uploads, with their unlinks under way or lost
\* in a crash, still finds a file.
THEOREM TokensServe == Spec => []TokenServes
<1>1. IInv => TokenServes
  BY DEF IInv
<1> QED BY <1>1, Invariant, PTL

================================================================================
