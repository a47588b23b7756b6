--------------------------- MODULE MCReadingStore ---------------------------
(* ReadingStore on small sets of model values. *)
EXTENDS ReadingStore, TLC

Symmetry == Permutations(Reading) \cup Permutations(Appender)

============================================================================
