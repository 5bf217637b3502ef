---------------------------- MODULE MCEvalRunner ----------------------------
(* Two worker processes on one output directory: one has the suite, of two   *)
(* runs on a dataset each, the other only its first run.                     *)
EXTENDS EvalRunner

CONSTANTS p, q, d, e, r1, r2

MCDatasetOf == [r \in Runs |-> IF r = r1 THEN d ELSE e]
MCAssigned == [x \in Procs |-> IF x = p THEN Runs ELSE {r1}]
=============================================================================
