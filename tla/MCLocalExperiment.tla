-------------------------- MODULE MCLocalExperiment --------------------------
(***************************************************************************)
(* Two sessions, the two tasks of one worker, and three manifests          *)
(* submitted under one id: a large budget whose evaluation failures are    *)
(* fatal, a small one that records them and knows only one of the          *)
(* sessions, and one without evaluation.                                   *)
(***************************************************************************)
EXTENDS LocalExperiment, TLC

CONSTANTS j1, j2, w1, s1, s2, wide, narrow, plain

MCConfigured == (wide :> {j1, j2}) @@ (narrow :> {j1}) @@ (plain :> {j1, j2})
MCEstimate   == (wide :> ((j1 :> 2) @@ (j2 :> 3))) @@ (narrow :> ((j1 :> 1) @@ (j2 :> 0)))
                  @@ (plain :> ((j1 :> 2) @@ (j2 :> 2)))
MCCeiling    == (wide :> 4) @@ (narrow :> 3) @@ (plain :> 4)
MCEvaluator  == (wide :> "fail_job") @@ (narrow :> "record_error") @@ (plain :> "none")
MCWorkerOf   == (s1 :> w1) @@ (s2 :> w1)

=============================================================================
