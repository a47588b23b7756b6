--------------------------- MODULE MCIngestQueue ---------------------------
(* IngestQueue on small sets of model values. *)
EXTENDS IngestQueue, TLC

(* Workers are alike, and so are the items whose payload decodes. *)
Symmetry == Permutations(Worker) \cup Permutations(Item \ Malformed)

============================================================================
