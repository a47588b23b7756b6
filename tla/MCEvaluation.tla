---------------------------- MODULE MCEvaluation ----------------------------
(* Evaluation with three collectors on a page of two: the oldest one sends  *)
(* readings, the other two push it off the page or cannot be read.          *)
EXTENDS Evaluation

CONSTANTS c1, c2, c3

MCOrder == <<c3, c2, c1>>

============================================================================
