----------------------------- MODULE MCColonyHealth -----------------------------
(* Module ColonyHealth with one goal, two tasks and two children.            *)
EXTENDS ColonyHealth, TLC

CONSTANTS g1, t1, t2, a1, a2
================================================================================
