------------------------------ MODULE MCCaseDesk ------------------------------
(***************************************************************************)
(* A small instance of CaseDesk: an investigator who may also review, an   *)
(* independent reviewer, an administrator, and a researcher of another     *)
(* tenant.                                                                 *)
(***************************************************************************)
EXTENDS CaseDesk, TLC

CONSTANTS ann, bob, root, kim, t1, t2, k1

MCRoles ==
  (ann :> {"analyst", "reviewer"}) @@ (bob :> {"reviewer"})
    @@ (root :> {"administrator"}) @@ (kim :> {"researcher"})
MCTenant == (ann :> t1) @@ (bob :> t1) @@ (root :> t1) @@ (kim :> t2)

=============================================================================
