------------------------- MODULE ComplianceValidation -------------------------
(***************************************************************************)
(* What becomes of the compliance verdicts of ProofAgent's model: each is  *)
(* validated against the rule of its control and the evidence at hand, and *)
(* the verdicts of all sessions are summarized for triage.                 *)
(***************************************************************************)
EXTENDS Integers, FiniteSets

CONSTANTS
  Controls,      \* <framework, control> pairs
  NoRule,        \* the registry has no validation rule for a control
  Rules          \* [Controls -> Rule \cup {NoRule}]

Status  == {"met", "partial", "attention", "not_evaluated"}
Assessed == Status \ {"not_evaluated"}

(***************************************************************************)
(* An item of evidence is a pair of its kind and its id or field.          *)
(***************************************************************************)
Kinds == {"document", "runtime", "readiness"}
Items(kind, ids) == {<<kind, i>> : i \in ids}

ASSUME ValidationAssumption ==
  \A c \in Controls : Rules[c] # NoRule =>
    /\ Rules[c].ceiling \in {"met", "partial", "not_evaluated"}
    /\ \A item \in Rules[c].required : item[1] \in Kinds

(***************************************************************************)
(* A report names some controls, each with a verdict and perhaps proof.    *)
(***************************************************************************)
Verdict == [status : Status, proof : BOOLEAN]

(***************************************************************************)
(* _available_evidence: every loaded document, whatever its approval       *)
(* status, every true field of the run, every check that passes.           *)
(***************************************************************************)
Available(documents, fields, passing) ==
  Items("document", documents) \cup Items("runtime", fields) \cup Items("readiness", passing)

(***************************************************************************)
(* _capped_status.  Mutant: the missing evidence of a verdict overlooked.  *)
(***************************************************************************)
MutantTrustsVerdict(raw, ceiling, complete, proof) ==
  IF raw = "met" /\ ceiling = "partial" THEN "partial" ELSE raw

CappedStatus(raw, ceiling, complete, proof) ==
  CASE raw = "not_evaluated"                              -> raw
    [] raw = "attention"                                  -> IF complete /\ proof THEN raw
                                                             ELSE "not_evaluated"
    [] raw \in {"met", "partial"}
         /\ (~complete \/ ceiling = "not_evaluated")      -> "not_evaluated"
    [] raw = "met" /\ complete /\ ceiling = "partial"     -> "partial"
    [] OTHER                                              -> raw

(***************************************************************************)
(* validate_compliance.  A control without a rule requires nothing and     *)
(* may be nothing.                                                         *)
(***************************************************************************)
Required(c) == IF Rules[c] = NoRule THEN {} ELSE Rules[c].required
CeilingOf(c) == IF Rules[c] = NoRule THEN "not_evaluated" ELSE Rules[c].ceiling

ValidatedStatus(c, verdict, available) ==
  CappedStatus(verdict.status, CeilingOf(c), Required(c) \subseteq available, verdict.proof)

Validated(report, available) ==
  [c \in DOMAIN report |->
     [raw |-> report[c].status, proof |-> report[c].proof,
      status |-> ValidatedStatus(c, report[c], available)]]

(***************************************************************************)
(* Without validation the verdicts stand as the model gave them.           *)
(***************************************************************************)
Unvalidated(report) ==
  [c \in DOMAIN report |->
     [raw |-> report[c].status, proof |-> report[c].proof, status |-> report[c].status]]

(***************************************************************************)
(* hard_block: some "met" did not survive.  Mutant: only one that was      *)
(* dropped altogether counts.                                              *)
(***************************************************************************)
MutantBlocksDropped(verdicts) ==
  \E c \in DOMAIN verdicts :
    verdicts[c].raw = "met" /\ verdicts[c].status = "not_evaluated"
Unsupported(verdicts) ==
  \E c \in DOMAIN verdicts : verdicts[c].raw = "met" /\ verdicts[c].status # "met"

(***************************************************************************)
(* summarize_compliance_coverage: the worst verdict any session assessed.  *)
(* Mutant: the best.                                                       *)
(***************************************************************************)
Priority(status) ==
  CASE status = "attention"     -> 0
    [] status = "partial"       -> 1
    [] status = "met"           -> 2
    [] status = "not_evaluated" -> 3

MutantBest(statuses) ==
  IF statuses \cap Assessed = {} THEN "not_evaluated"
  ELSE CHOOSE s \in statuses \cap Assessed :
         \A t \in statuses \cap Assessed : Priority(s) >= Priority(t)

Worst(statuses) ==
  IF statuses \cap Assessed = {} THEN "not_evaluated"
  ELSE CHOOSE s \in statuses \cap Assessed :
         \A t \in statuses \cap Assessed : Priority(s) <= Priority(t)

=============================================================================
