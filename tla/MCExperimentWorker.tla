-------------------------- MODULE MCExperimentWorker --------------------------
(***************************************************************************)
(* Instances of the workers for TLC: the slots of two workers, and jobs    *)
(* whose estimates make the ceiling bite.                                  *)
(***************************************************************************)
EXTENDS ExperimentWorker, TLC

CONSTANTS j1, j2, w1, w2, s1, s2, s3

MCEstimate == (j1 :> 200) @@ (j2 :> 300)
MCWorkerOf == (s1 :> w1) @@ (s2 :> w2)
MCSharedWorkerOf == (s1 :> w1) @@ (s2 :> w1) @@ (s3 :> w2)

(***************************************************************************)
(* Exchanging the two workers together with their slots.                   *)
(***************************************************************************)
MCSwapWorkers ==
  {[x \in {s1, s2, w1, w2} |-> x],
   (s1 :> s2) @@ (s2 :> s1) @@ (w1 :> w2) @@ (w2 :> w1)}

=============================================================================
