----------------------------- MODULE MCMarketplace -----------------------------
(* Instances of Marketplace for TLC. *)
EXTENDS Marketplace, TLC

\* One signature, whose nonce is sent in one spelling or in two.
OneSignature == [n \in Nonces |-> CHOOSE s \in Signatures : TRUE]

Symmetry == Permutations(Handlers) \cup Permutations(Writers) \cup Permutations(Nonces)
================================================================================
