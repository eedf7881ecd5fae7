-------------------------------- MODULE MCFleet --------------------------------
(* Instances of Fleet for TLC. *)
EXTENDS Fleet

\* Two passes of one instance, or of two.
OneOrTwo == CHOOSE S \in SUBSET [Passes -> Instances] :
              /\ Cardinality(S) = 2
              /\ \E f, g \in S : /\ \A s, t \in Passes : f[s] = f[t]
                               /\ \A s, t \in Passes : s # t => g[s] # g[t]
================================================================================
