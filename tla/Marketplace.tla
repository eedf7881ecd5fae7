------------------------------- MODULE Marketplace -------------------------------
(***************************************************************************)
(* The backend's marketplace (marketplace.ts): sellers write listings under *)
(* a signature of their own, buyers invoke them.  An invocation is paid in  *)
(* two legs, the platform's fee and then the seller's share, and delivers   *)
(* the answer of the seller's endpoint or a token for a zip file.           *)
(*                                                                         *)
(* A handler stops at its awaits: "verify" (both legs are verified),        *)
(* "seller" (the endpoint), "fee" and "pay" (settleAuthorization until the  *)
(* transfer is broadcast) and "feeSent", "paySent" (until the answer).      *)
(* Between two awaits a step is atomic, except for a crash.                 *)
(*                                                                         *)
(* A signature is over the 32 bytes of a nonce, while the table of used      *)
(* nonces compares the strings of the requests: one signature is good for   *)
(* each spelling of its nonce.                                             *)
(*                                                                         *)
(* One buyer and one seller are enough: budgets and signatures are counted  *)
(* for each address alone.  Every sale has one price.  A file of a listing  *)
(* is named by the version that brought it.  What verification, the chain   *)
(* and the endpoint answer is left free; validation on chain, the storage   *)
(* cap's arithmetic, the fields of a listing and the versions of one with   *)
(* an endpoint are left out.                                               *)
(***************************************************************************)
EXTENDS Naturals, FiniteSets

CONSTANTS
  Zips, Urls,   \* listings by delivery type
  Handlers,     \* invocations that can be in flight at once
  Writers,      \* listing writes that can be in flight at once
  Signatures,   \* the seller's signatures
  Nonces,       \* their nonces, as a request may spell them
  SignedBy,     \* the signature that covers a spelling
  Fees, Pays,   \* the buyer's authorizations to the platform, to the seller
  NoLeg,        \* no settlement, no deal, no signature
  FeeActive,    \* a founder wallet and a fee are configured
  Budget,       \* sales a buyer may make per 24 hours
  MaxVersion,   \* bound: versions of a zip listing
  MaxCrashes    \* bound: crashes of the backend

Listings == Zips \cup Urls
Legs == Fees \cup Pays

\* What an invocation carries over its awaits: the listing row it read, and the
\* two authorizations it came with.
Deals == [listing : Listings, version : Nat, fee : Fees, pay : Pays]

ASSUME MarketplaceAssumption ==
  /\ IsFiniteSet(Handlers) /\ Zips \cap Urls = {}
  /\ IsFiniteSet(Nonces) /\ SignedBy \in [Nonces -> Signatures]
  /\ NoLeg \notin Legs \cup Nonces \cup Deals \cup Writers /\ Fees \cap Pays = {}
  /\ FeeActive \in BOOLEAN /\ Budget \in Nat \ {0}
  /\ MaxVersion \in Nat /\ MaxCrashes \in Nat

VARIABLES
  active,    \* listings offered for sale
  version,   \* version of a zip listing
  disk,      \* the files of a zip listing
  doomed,    \* files whose unlink is under way
  burnt,     \* listing_auth_nonces
  signing,   \* the nonce a writer's signature check awaits, or NoLeg
  at, deal,  \* where a handler awaits; its listing row and its two legs
  rows,      \* invocations that name a seller's share
  spent,     \* the buyer's usage_log rows of the last 24 hours
  tokens,    \* unused downloads: the listing and the version sold
  sent,      \* legs broadcast to the chain
  mined,     \* legs the chain has executed
  crashes,
  accepted,  \* history: how often a signature was accepted
  unheard    \* history: seller legs broadcast without an answer

shop == <<active, version, disk, doomed, burnt, signing, accepted>>
sales == <<at, deal, rows, spent, tokens, unheard>>
chain == <<sent, mined>>
vars == <<shop, sales, chain, crashes>>

Places == {"idle", "verify", "seller", "fee", "feeSent", "pay", "paySent"}

TypeOk ==
  /\ active \subseteq Listings /\ version \in [Zips -> Nat]
  /\ disk \in [Zips -> SUBSET Nat] /\ doomed \subseteq Zips \X Nat
  /\ burnt \subseteq Nonces /\ signing \in [Writers -> Nonces \cup {NoLeg}]
  /\ accepted \in [Signatures -> Nat]
  /\ at \in [Handlers -> Places]
  /\ deal \in [Handlers -> {NoLeg} \cup Deals]
  /\ \A h \in Handlers : deal[h] = NoLeg <=> at[h] = "idle"
  /\ rows \subseteq [fee : Fees \cup {NoLeg}, pay : Pays]
  /\ spent \in Nat /\ tokens \subseteq Zips \X Nat
  /\ sent \subseteq Legs /\ mined \subseteq Legs /\ unheard \subseteq Pays
  /\ crashes \in Nat

Init ==
  /\ active = Listings /\ version = [z \in Zips |-> 1]
  /\ disk = [z \in Zips |-> {1}] /\ doomed = {}
  /\ burnt = {} /\ signing = [w \in Writers |-> NoLeg] /\ accepted = [s \in Signatures |-> 0]
  /\ at = [h \in Handlers |-> "idle"]
  /\ deal = [h \in Handlers |-> NoLeg]
  /\ rows = {} /\ spent = 0 /\ tokens = {} /\ unheard = {}
  /\ sent = {} /\ mined = {} /\ crashes = 0

InFlight == {h \in Handlers : at[h] # "idle"}

Goto(h, place) == at' = [at EXCEPT ![h] = place]

\* The answer is given.
End(h) == Goto(h, "idle") /\ deal' = [deal EXCEPT ![h] = NoLeg]

--------------------------------------------------------------------------------
(* Crashes *)

\* What handlers, writers and unlinks under way held is gone.
Down ==
  /\ at' = [h \in Handlers |-> "idle"] /\ deal' = [h \in Handlers |-> NoLeg]
  /\ signing' = [w \in Writers |-> NoLeg]
  /\ doomed' = {}
  /\ unheard' = unheard \cup {deal[h].pay : h \in {k \in Handlers : at[k] = "paySent"}}

Crash ==
  /\ crashes < MaxCrashes
  /\ crashes' = crashes + 1
  /\ Down
  /\ UNCHANGED <<active, version, disk, burnt, accepted, rows, spent, tokens, chain>>

--------------------------------------------------------------------------------
(* The seller's writes *)

\* verifySellerSignature up to its await: the nonce, so spelled, was not used.
Sign(w, n) ==
  /\ signing[w] = NoLeg /\ n \notin burnt
  /\ signing' = [signing EXCEPT ![w] = n]
  /\ UNCHANGED <<active, version, disk, doomed, burnt, accepted, sales, chain, crashes>>

\* Variant: a nonce already there is no conflict.
Overwritten(n) == TRUE

\* The primary key of listing_auth_nonces lets the spelling in.
Burnable(n) == n \notin burnt

\* The signature is good and its nonce is burnt.
Burn(w) ==
  /\ signing[w] # NoLeg /\ Burnable(signing[w])
  /\ burnt' = burnt \cup {signing[w]}
  /\ accepted' = [accepted EXCEPT ![SignedBy[signing[w]]] = @ + 1]
  /\ signing' = [signing EXCEPT ![w] = NoLeg]

\* requireSellerAuth: a writer's signature, or the backend's key (NoLeg), which
\* is compared without an await and burns nothing.
Authorized(w) ==
  IF w = NoLeg THEN UNCHANGED <<burnt, signing, accepted>> ELSE Burn(w)

\* Variant: the row is read again after its update.
UnlinkReread(z) == version[z] + 1

\* The file an upload replaces.
Replaced(z) == version[z]

\* New fields or a new endpoint, or an upload over the cap: of what is kept here
\* only the nonce is new.
UpdateFields(w) ==
  /\ Burn(w)
  /\ UNCHANGED <<active, version, disk, doomed, sales, chain, crashes>>

\* An upload: a new version and its file.
UpdateZip(w, z) ==
  /\ Authorized(w)
  /\ version[z] < MaxVersion
  /\ version' = [version EXCEPT ![z] = @ + 1]
  /\ disk' = [disk EXCEPT ![z] = @ \cup {version[z] + 1}]
  /\ doomed' = doomed \cup {<<z, Replaced(z)>>}
  /\ UNCHANGED <<active, sales, chain, crashes>>

SetListingStatus(w, l) ==
  /\ Authorized(w)
  /\ active' = IF l \in active THEN active \ {l} ELSE active \cup {l}
  /\ UNCHANGED <<version, disk, doomed, sales, chain, crashes>>

\* The signature is bad.
BadSignature(w) ==
  /\ signing[w] # NoLeg
  /\ signing' = [signing EXCEPT ![w] = NoLeg]
  /\ UNCHANGED <<active, version, disk, doomed, burnt, accepted, sales, chain, crashes>>

\* The insert fails in a handler without a catch, which ends the process.
BurnConflict(w) ==
  /\ signing[w] # NoLeg /\ ~Burnable(signing[w])
  /\ Down
  /\ UNCHANGED <<active, version, disk, burnt, accepted, rows, spent, tokens, chain, crashes>>

\* The operator takes a listing down.
Deactivate(l) ==
  /\ l \in active
  /\ active' = active \ {l}
  /\ UNCHANGED <<version, disk, doomed, burnt, signing, accepted, sales, chain, crashes>>

Unlink(z, v) ==
  /\ <<z, v>> \in doomed
  /\ doomed' = doomed \ {<<z, v>>}
  /\ disk' = [disk EXCEPT ![z] = @ \ {v}]
  /\ UNCHANGED <<active, version, burnt, signing, accepted, sales, chain, crashes>>

--------------------------------------------------------------------------------
(* An invocation *)

\* Variant: the cap itself may be spent again.
UpToBudget == spent <= Budget

\* checkMarketplaceBudget.
WithinBudget == spent < Budget

\* The file of a listing that has one.
Offered(l) == IF l \in Zips THEN version[l] ELSE 0

\* The row is read once, and the two legs come with the request.
Invoke(h, l, f, p) ==
  /\ at[h] = "idle"
  /\ WithinBudget /\ l \in active
  /\ deal' = [deal EXCEPT ![h] = [listing |-> l, version |-> Offered(l), fee |-> f, pay |-> p]]
  /\ Goto(h, "verify")
  /\ UNCHANGED <<shop, rows, spent, tokens, unheard, chain, crashes>>

\* 402, or the file went while the legs were verified.
Refused(h) ==
  /\ at[h] = "verify"
  /\ End(h)
  /\ UNCHANGED <<shop, rows, spent, tokens, unheard, chain, crashes>>

FirstLeg == IF FeeActive THEN "fee" ELSE "pay"

Verified(h) ==
  /\ at[h] = "verify"
  /\ IF deal[h].listing \in Zips
       THEN deal[h].version \in disk[deal[h].listing] /\ Goto(h, FirstLeg)
       ELSE Goto(h, "seller")
  /\ UNCHANGED <<shop, deal, rows, spent, tokens, unheard, chain, crashes>>

\* recordInvocation; a row without a seller's share is left out.
Record(f, p) ==
  rows' = IF p = NoLeg THEN rows ELSE rows \cup {[fee |-> f, pay |-> p]}

SellerAnswers(h) ==
  /\ at[h] = "seller"
  /\ Goto(h, FirstLeg)
  /\ UNCHANGED <<shop, deal, rows, spent, tokens, unheard, chain, crashes>>

SellerFails(h) ==
  /\ at[h] = "seller"
  /\ End(h) /\ Record(NoLeg, NoLeg)
  /\ UNCHANGED <<shop, spent, tokens, unheard, chain, crashes>>

\* Gas estimation lets a leg through that the chain has not executed.
SendFee(h) ==
  /\ at[h] = "fee" /\ deal[h].fee \notin mined
  /\ sent' = sent \cup {deal[h].fee}
  /\ Goto(h, "feeSent")
  /\ UNCHANGED <<shop, deal, rows, spent, tokens, unheard, mined, crashes>>

SendPay(h) ==
  /\ at[h] = "pay" /\ deal[h].pay \notin mined
  /\ sent' = sent \cup {deal[h].pay}
  /\ Goto(h, "paySent")
  /\ UNCHANGED <<shop, deal, rows, spent, tokens, unheard, mined, crashes>>

FeeSettled(h) ==
  /\ at[h] = "feeSent"
  /\ Goto(h, "pay")
  /\ UNCHANGED <<shop, deal, rows, spent, tokens, unheard, chain, crashes>>

\* Variant: the seller is paid all the same.
FeeSkipped(h) ==
  /\ at[h] \in {"fee", "feeSent"}
  /\ Goto(h, "pay")
  /\ UNCHANGED <<shop, deal, rows, spent, tokens, unheard, chain, crashes>>

\* The fee is not settled, or so the answer says.
FeeFailed(h) ==
  /\ at[h] \in {"fee", "feeSent"}
  /\ End(h) /\ Record(NoLeg, NoLeg)
  /\ UNCHANGED <<shop, spent, tokens, unheard, chain, crashes>>

FeeLeg(h) == IF FeeActive THEN deal[h].fee ELSE NoLeg

\* The same of the seller's share, with the fee paid.
PayFailed(h) ==
  /\ at[h] \in {"pay", "paySent"}
  /\ End(h) /\ Record(FeeLeg(h), NoLeg)
  /\ unheard' = IF at[h] = "paySent" THEN unheard \cup {deal[h].pay} ELSE unheard
  /\ UNCHANGED <<shop, spent, tokens, chain, crashes>>

\* The row, the debit and, for a file, the token.
Settled(h) ==
  /\ at[h] = "paySent"
  /\ End(h) /\ Record(FeeLeg(h), deal[h].pay)
  /\ spent' = spent + 1
  /\ tokens' = IF deal[h].listing \in Zips
                 THEN tokens \cup {<<deal[h].listing, deal[h].version>>} ELSE tokens
  /\ UNCHANGED <<shop, unheard, chain, crashes>>

\* A crash after the row, or after the debit too.
CrashInSettled(h, debited) ==
  /\ at[h] = "paySent" /\ crashes < MaxCrashes
  /\ crashes' = crashes + 1
  /\ Down /\ Record(FeeLeg(h), deal[h].pay)
  /\ spent' = IF debited THEN spent + 1 ELSE spent
  /\ UNCHANGED <<active, version, disk, burnt, accepted, tokens, chain>>

\* The token is used, or it expires.
Download(z, v) ==
  /\ <<z, v>> \in tokens
  /\ tokens' = tokens \ {<<z, v>>}
  /\ UNCHANGED <<shop, at, deal, rows, spent, unheard, chain, crashes>>

Mined(a) ==
  /\ a \in sent \ mined
  /\ mined' = mined \cup {a}
  /\ UNCHANGED <<shop, sales, sent, crashes>>

\* The oldest debit leaves the 24 hours.
Age ==
  /\ spent > 0
  /\ spent' = spent - 1
  /\ UNCHANGED <<shop, at, deal, rows, tokens, unheard, chain, crashes>>

--------------------------------------------------------------------------------

Write(w) ==
  \/ \E n \in Nonces : Sign(w, n)
  \/ UpdateFields(w) \/ BadSignature(w) \/ BurnConflict(w)

Change(w) ==
  \/ \E z \in Zips : UpdateZip(w, z)
  \/ \E l \in Listings : SetListingStatus(w, l)

Sell(h) ==
  \/ \E l \in Listings, f \in Fees, p \in Pays : Invoke(h, l, f, p)
  \/ Refused(h) \/ Verified(h) \/ SellerAnswers(h) \/ SellerFails(h)
  \/ SendFee(h) \/ FeeSettled(h) \/ FeeFailed(h)
  \/ SendPay(h) \/ Settled(h) \/ PayFailed(h)
  \/ \E debited \in BOOLEAN : CrashInSettled(h, debited)

Next ==
  \/ Crash \/ Age
  \/ \E w \in Writers : Write(w)
  \/ \E w \in Writers \cup {NoLeg} : Change(w)
  \/ \E h \in Handlers : Sell(h)
  \/ \E l \in Listings : Deactivate(l)
  \/ \E z \in Zips, v \in 1 .. MaxVersion : Unlink(z, v) \/ Download(z, v)
  \/ \E a \in Legs : Mined(a)

Spec == Init /\ [][Next]_vars

--------------------------------------------------------------------------------
(* Properties *)

\* The budget is read before the awaits and the debit written after them: the
\* buyer spends at most one sale for each other invocation in flight over it.
BudgetHolds == spent <= Budget - 1 + Cardinality(Handlers)

Spellings(s) == {n \in Nonces : SignedBy[n] = s}

\* A signature of the seller is accepted at most once for each spelling of its
\* nonce that is burnt, although requests with the same spelling can pass the
\* check together, and whatever crashes come between; sent in one spelling
\* only, it is good for one write.
SignatureOnce == \A s \in Signatures : accepted[s] <= Cardinality(Spellings(s) \cap burnt)

\* A seller's share on its way over the chain is in an invocation row, unless
\* its answer is still awaited or was lost; and that row names a fee that was
\* broadcast too.
SettledIsEvidenced ==
  /\ \A p \in Pays \cap sent :
       \/ p \in unheard
       \/ \E r \in rows : r.pay = p
       \/ \E h \in Handlers : at[h] = "paySent" /\ deal[h].pay = p
  /\ FeeActive => \A r \in rows : r.fee \in sent

\* An unused token has a file to serve: that of the version sold or of a later
\* one, whatever uploads and unlinks ran since the sale.
TokenServes ==
  \A t \in tokens : version[t[1]] \in disk[t[1]] /\ t[2] <= version[t[1]]
================================================================================
