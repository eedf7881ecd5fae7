------------------------------- MODULE MCGenesis -------------------------------
(* Module Genesis with two approvals of one root, a daily cap of one company *)
(* and funding for one and a half.                                           *)
EXTENDS Genesis, TLC

CONSTANTS o1, o2

MCRecommended == (o1 :> 3) @@ (o2 :> 2)
MCResearched == (o1 :> {"market", "technology"}) @@ (o2 :> {})
================================================================================
