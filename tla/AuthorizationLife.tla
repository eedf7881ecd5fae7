--------------------------- MODULE AuthorizationLife ---------------------------
(***************************************************************************)
(* What the backend's paid inference promises of each nonce, as a signed   *)
(* payment authorization spells it, with everything hidden that makes it   *)
(* hard to keep (concurrent requests, awaited calls, a chain that answers  *)
(* late or never, overlapping sweeps, crashes).  It buys one completion:   *)
(* once the provider has answered it is never fresh again, whatever        *)
(* becomes of the payment.                                                  *)
(***************************************************************************)
CONSTANT Keys           \* nonces, as they are spelled

VARIABLE life           \* life[k]: how far the authorization under k has come

Stages == {"fresh", "held", "owed", "paid", "forfeited", "stranded"}

Init == life = [k \in Keys |-> "fresh"]

\* Key k moves from one of the stages "from" to the stage "to".
Move(k, from, to) ==
  /\ life[k] \in from
  /\ life' = [life EXCEPT ![k] = to]

\* A request takes the authorization in hand.
Hold(k) == Move(k, {"fresh"}, "held")

\* The provider gave nothing: the authorization may be tried again.
GiveBack(k) == Move(k, {"held"}, "fresh")

\* The provider answered: the completion is there and its price is owed.
Owe(k) == Move(k, {"held"}, "owed")

\* The price is entered in the usage log, if need be after it was written off.
Pay(k) == Move(k, {"owed", "forfeited"}, "paid")

\* The authorization expired before the price could be collected.
Forfeit(k) == Move(k, {"owed"}, "forfeited")

\* The process dies. Of the authorizations in hand some are stranded, nobody
\* acting on them again; the price of some may just have been entered.
Die ==
  /\ life' \in [Keys -> Stages]
  /\ \A k \in Keys :
       \/ life'[k] = life[k]
       \/ life[k] \in {"held", "owed"} /\ life'[k] = "stranded"
       \/ life[k] \in {"owed", "forfeited"} /\ life'[k] = "paid"

Next ==
  \/ \E k \in Keys : Hold(k) \/ GiveBack(k) \/ Owe(k) \/ Pay(k) \/ Forfeit(k)
  \/ Die

Spec == Init /\ [][Next]_life
================================================================================
