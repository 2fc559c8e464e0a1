---------------------------- MODULE SessionHandler ----------------------------
(***************************************************************************)
(* DefaultExperimentJobHandler: what one attempt at a session comes to.    *)
(* The handler keeps no state of its own, so this module is operators: the *)
(* circumstances an attempt meets, and Handle, what the handler makes of   *)
(* them: a result, an error the worker retries, or one it does not.        *)
(***************************************************************************)

(***************************************************************************)
(* What stops the handler before the graph: the kill switch, a manifest    *)
(* that no longer has the configuration, a scenario outside its pack, a    *)
(* missing key file in research, a model client that refuses its settings. *)
(***************************************************************************)
Obstacles ==
  {"kill_switch", "no_configuration", "other_pack", "no_artifact_key", "no_client"}

(***************************************************************************)
(* How the model's endpoint answers: a recommendation, text that does not  *)
(* match the schema, an HTTP status, or nothing.                           *)
(***************************************************************************)
Rejections  == {"400", "404", "422"}
Denials     == {"401", "403"}
Statuses    == Rejections \cup Denials \cup {"429", "500"}
Unanswered  == {"timeout", "unreachable"}
Replies     == {"recommendation", "malformed"} \cup Statuses \cup Unanswered

(***************************************************************************)
(* recommend: the exception EdenStructuredLLM raises for a reply.          *)
(***************************************************************************)
InferenceError(reply) ==
  CASE reply = "malformed"    -> "ValidationError"
    [] reply \in Rejections   -> "InferenceConfigurationError"
    [] reply \in Denials      -> "InferenceAuthenticationError"
    [] reply = "429"          -> "InferenceRateLimitError"
    [] OTHER                  -> "InferenceServiceError"

(***************************************************************************)
(* Errors of the other stages, by the name of their class: record_failure  *)
(* keeps the name only.  A subclass has another name.                      *)
(***************************************************************************)
StageErrors == {"TimeoutError", "ConnectionError", "ConnectionResetError", "RuntimeError"}

(***************************************************************************)
(* How the graph of an attempt ends.  error is errors[-1].error_type of a  *)
(* FAILED run, "none" of any other; drafted says that the run has a        *)
(* recommendation, which a run that fails after its draft has as well.     *)
(***************************************************************************)
GraphEnds ==
  {[error |-> "none", drafted |-> TRUE]} \cup
  {[error |-> InferenceError(r), drafted |-> FALSE] : r \in Replies \ {"recommendation"}} \cup
  [error : StageErrors, drafted : BOOLEAN]

(***************************************************************************)
(* What ProofAgent does when it is asked: a report, or an exception, of    *)
(* which the worker knows two classes (and their subclasses) as transient. *)
(***************************************************************************)
EvaluatorEnds == {"report", "TimeoutError", "ConnectionError", "RuntimeError"}
Transient     == {"TimeoutError", "ConnectionError"}

Policies == {"none", "fail_job", "record_error"}

(***************************************************************************)
(* How an attempt ends: with a result, which says whether the run failed   *)
(* (safe) and what became of the evaluation, or with an exception.         *)
(***************************************************************************)
Raises(retryable) ==
  [ends |-> IF retryable THEN "retryable" ELSE "terminal", safe |-> FALSE, proof |-> "none"]
Returns(graph, proof) ==
  [ends |-> "result", safe |-> graph.error # "none", proof |-> proof]

Outcomes ==
  [ends : {"result", "retryable", "terminal"}, safe : BOOLEAN,
   proof : {"none", "evaluated", "error"}]

(***************************************************************************)
(* The evaluation of a run: without a recommendation the handler raises a  *)
(* RuntimeError itself.  What an exception does is the manifest's choice.  *)
(* Mutant: the exception swallowed.                                        *)
(***************************************************************************)
EvaluationError(graph, evaluator) == IF graph.drafted THEN evaluator ELSE "RuntimeError"

MutantRecordsErrors(graph, evaluator, policy) ==
  CASE policy = "none"                                -> Returns(graph, "none")
    [] EvaluationError(graph, evaluator) = "report"   -> Returns(graph, "evaluated")
    [] OTHER                                          -> Returns(graph, "error")

Evaluated(graph, evaluator, policy) ==
  LET error == EvaluationError(graph, evaluator) IN
  CASE policy = "none"          -> Returns(graph, "none")
    [] policy # "none" /\ error = "report" -> Returns(graph, "evaluated")
    [] policy = "fail_job" /\ error # "report"     -> Raises(error \in Transient)
    [] policy = "record_error" /\ error # "report" -> Returns(graph, "error")

(***************************************************************************)
(* __call__ after the graph: a failure that is transient by its name is    *)
(* raised again for the queue to retry, every other run is evaluated.      *)
(***************************************************************************)
Handle(graph, evaluator, policy) ==
  IF graph.error \in Transient THEN Raises(TRUE) ELSE Evaluated(graph, evaluator, policy)

HandlerOutcomes(policy) ==
  {Handle(g, e, policy) : g \in GraphEnds, e \in EvaluatorEnds}

=============================================================================
