-------------------------- MODULE MCProofAgentReview --------------------------
(***************************************************************************)
(* Two sessions, two attempts at a time, two controls: security may be met *)
(* on a document and an approved check, oversight at most partial on what  *)
(* the run shows.  One edit of the files.                                  *)
(***************************************************************************)
EXTENDS ProofAgentReview, TLC

CONSTANTS security, oversight, model, role, audit, s1, s2, a1, a2

MCCheckId == (audit :> "independent_audit")

MCRules ==
  (security :> [ceiling |-> "met", required |-> {<<"document", model>>,
                                                 <<"readiness", "independent_audit">>}])
  @@ (oversight :> [ceiling |-> "partial",
                    required |-> {<<"runtime", "bounded_read_only_retrieval">>}])

MCSettings ==
  {[assess |-> TRUE, registry |-> TRUE, profile |-> TRUE, policy |-> "fail_job"],
   [assess |-> TRUE, registry |-> FALSE, profile |-> FALSE, policy |-> "record_error"],
   [assess |-> FALSE, registry |-> FALSE, profile |-> FALSE, policy |-> "record_error"]}

Calm(rows) ==
  [status |-> "WAITING_FOR_HUMAN_REVIEW", signed |-> FALSE, blocked |-> FALSE,
   chained |-> TRUE, controlled |-> TRUE, minimized |-> TRUE,
   calls |-> {[authorized |-> TRUE, rows |-> rows]}]

MCRuns == {Calm(250), Calm(501)}

Says(status, proof) == [status |-> status, proof |-> proof]

ReportOf(verdicts, zero, decision) ==
  [verdicts |-> verdicts, zero |-> zero, decision |-> decision]

MCReports ==
  {ReportOf(<<>>, FALSE, "pass"),
   ReportOf(<<>>, TRUE, "block"),
   ReportOf((security :> Says("met", FALSE)) @@ (oversight :> Says("partial", FALSE)),
           FALSE, "pass"),
   ReportOf((security :> Says("attention", TRUE)) @@ (oversight :> Says("met", FALSE)),
           FALSE, "review"),
   ReportOf((security :> Says("partial", FALSE)) @@ (oversight :> Says("attention", TRUE)),
           FALSE, "block")}

MCSwapAttempts == {(a1 :> a2) @@ (a2 :> a1)}
MCSwap ==
  MCSwapAttempts \cup {(s1 :> s2) @@ (s2 :> s1)}
  \cup {(a1 :> a2) @@ (a2 :> a1) @@ (s1 :> s2) @@ (s2 :> s1)}

=============================================================================
