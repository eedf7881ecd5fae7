---------------------------- MODULE MCPaidInference ----------------------------
(* Instances of PaidInference for TLC. *)
EXTENDS PaidInference

CONSTANTS alice, a1, a2, k1, k2

\* One agent signs every authorization.
OnePayer == [a \in Auths |-> alice]

\* Two nonces, or one nonce in two spellings.
OneOrTwo == {[k \in Keys |-> a1], [k \in Keys |-> IF k = k1 THEN a1 ELSE a2]}
================================================================================
