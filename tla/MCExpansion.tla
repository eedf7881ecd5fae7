------------------------------ MODULE MCExpansion ------------------------------
(* Module Expansion on two opportunities, one of them below the floor, with  *)
(* one slot and one dry-run packet before graduation.                        *)
EXTENDS Expansion, TLC

CONSTANTS o1, o2, finance

MCRoi == (o1 :> 1) @@ (o2 :> 3)
================================================================================
