---------------------------- MODULE MCIngestPath ----------------------------
(* IngestPath with items, one worker, one exporter, and model values. *)
EXTENDS IngestPath

CONSTANTS i1, i2, w1, e1

============================================================================
