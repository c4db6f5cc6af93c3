----------------------------- MODULE MCVerifyRun -----------------------------
(***************************************************************************)
(* A queue of five findings for batches of two: three requests a run, one  *)
(* more than the throttle lets through in a minute.                        *)
(***************************************************************************)
EXTENDS VerifyRun

MCFinding == 1 .. 5
MCOpinion == [f \in MCFinding |-> IF f = 5 THEN null ELSE f % 2 = 1]
=============================================================================
