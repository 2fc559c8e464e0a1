------------------------- MODULE GovernanceReadiness -------------------------
(***************************************************************************)
(* governance/readiness.py: what a finished run shows of its own control,  *)
(* and what the two configuration files of the repository say the          *)
(* organization has approved.  People edit the files while sessions are    *)
(* evaluated, so their content is state; the functions that read them are  *)
(* operators.                                                              *)
(***************************************************************************)
EXTENDS Integers, FiniteSets

CONSTANTS
  Roles,         \* roles under ownership in profile.yaml
  Entries,       \* entries of the checks list of organizational_controls.yaml
  CheckId,       \* [Entries -> check ids]
  Demanded       \* the entries with production_blocking: true

OwnersCheck  == "accountable_owners_assigned"
ReleaseCheck == "human_release_controls_configured"

ASSUME ReadinessAssumption ==
  /\ DOMAIN CheckId = Entries
  /\ Demanded \subseteq Entries

VARIABLES
  ownership,       \* [Roles -> how the role is filled in]
  releaseControls, \* oversight and release of profile.yaml demand a human
  approved         \* the entries with status implemented_and_approved

filesVars == <<ownership, releaseControls, approved>>

Filled == {"named", "TBD", "missing"}

-----------------------------------------------------------------------------
(***************************************************************************)
(* evaluate_governance_readiness.  A role that is not in the file is not   *)
(* unassigned.  Two built-in checks precede the configured ones; a check   *)
(* passes when any check of its id does, and production is ready when      *)
(* every blocking one passes.  Mutant: the built-in checks left out.       *)
(***************************************************************************)
Unassigned == {r \in Roles : ownership[r] = "TBD"}

BuiltinPassing ==
  {k \in {OwnersCheck, ReleaseCheck} :
     IF k = OwnersCheck THEN Unassigned = {} ELSE releaseControls}

Passing == BuiltinPassing \cup {CheckId[e] : e \in approved}
Blocking == {OwnersCheck, ReleaseCheck} \cup {CheckId[e] : e \in Demanded}

MutantConfiguredOnly == {CheckId[e] : e \in Demanded} \subseteq Passing
ProductionReady == Blocking \subseteq Passing

Readiness == [passing |-> Passing, ready |-> ProductionReady]

-----------------------------------------------------------------------------
(***************************************************************************)
(* build_runtime_governance_evidence: the fields that are true of a run.   *)
(* calls are its tool calls: allowed or not, and the rows they asked for.  *)
(* Mutant: fields that are present but false counted.                      *)
(***************************************************************************)
MaxRows == 500

Run ==
  [status : {"WAITING_FOR_HUMAN_REVIEW", "FAILED", "COMPLETED"}, signed : BOOLEAN,
   blocked : BOOLEAN, chained : BOOLEAN, controlled : BOOLEAN, minimized : BOOLEAN,
   calls : SUBSET [authorized : BOOLEAN, rows : Nat]]

Shows(run, field) ==
  CASE field = "human_review_required"          -> TRUE
    [] field = "human_signoff_present"          -> run.signed
    [] field = "release_gate_enforced"          -> run.status # "COMPLETED" \/ run.signed
    [] field = "controls_evaluated"             -> run.controlled
    [] field = "hard_blocks_clear"              -> ~run.blocked
    [] field = "audit_chain_valid"              -> run.chained
    [] field = "bounded_read_only_retrieval"    -> \A c \in run.calls :
                                                     c.authorized /\ c.rows <= MaxRows
    [] field = "data_minimization_instructions" -> run.minimized

Fields ==
  {"human_review_required", "human_signoff_present", "release_gate_enforced",
   "controls_evaluated", "hard_blocks_clear", "audit_chain_valid",
   "bounded_read_only_retrieval", "data_minimization_instructions"}

MutantCountsFalse(run) == Fields \cup {"prohibited_action_tools_available"}
RuntimeEvidence(run) == {f \in Fields : Shows(run, f)}

-----------------------------------------------------------------------------
(***************************************************************************)
(* The people who keep the files.                                          *)
(***************************************************************************)
FillRole(r, how) ==
  /\ ownership[r] # how
  /\ ownership' = [ownership EXCEPT ![r] = how]
  /\ UNCHANGED <<releaseControls, approved>>

ChangeRelease ==
  /\ releaseControls' = ~releaseControls
  /\ UNCHANGED <<ownership, approved>>

Approve(e) ==
  /\ e \notin approved
  /\ approved' = approved \cup {e}
  /\ UNCHANGED <<ownership, releaseControls>>

Withdraw(e) ==
  /\ e \in approved
  /\ approved' = approved \ {e}
  /\ UNCHANGED <<ownership, releaseControls>>

=============================================================================
