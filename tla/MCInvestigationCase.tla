-------------------------- MODULE MCInvestigationCase --------------------------
(***************************************************************************)
(* Small instances of InvestigationCase.                                   *)
(***************************************************************************)
EXTENDS InvestigationCase, TLC

CONSTANTS r1, r2

Symmetry == Permutations(Requests)

=============================================================================
