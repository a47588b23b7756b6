---------------------------- MODULE MCBatchSaga ----------------------------
(* BatchSaga on small sets of model values. *)
EXTENDS BatchSaga

Symmetry == Permutations(Collector) \cup Permutations(Rule) \cup Permutations(Request)

============================================================================
