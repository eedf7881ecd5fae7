--------------------------- MODULE MCTaskStore ---------------------------
(* TLC instance of TaskStore: the pool of ids is what bounds the graph.    *)
EXTENDS TaskStore, TLC

Symmetry == Permutations(Tasks) \cup Permutations(Goals)
===========================================================================
