------------------------------ MODULE ReleaseGate ------------------------------
(***************************************************************************)
(* What an investigation promises about its outcome: a reviewer decides on *)
(* a version only after the controls passed it, once; the case is released *)
(* only on an approval; decisions are kept until the case is discarded.    *)
(***************************************************************************)
CONSTANTS Actions, Approvals

VARIABLES
  passed,          \* the versions that passed the controls
  decided,         \* the decisions: [version, action]
  released         \* the case is approved and complete

gate == <<passed, decided, released>>

GateInit == passed = {} /\ decided = {} /\ released = FALSE

Pass ==
  /\ \E v \in passed' : passed' = passed \cup {v}
  /\ released' = FALSE
  /\ UNCHANGED decided

Decide ==
  /\ \E v \in passed, a \in Actions :
       /\ \A d \in decided : d.version # v
       /\ decided' = decided \cup {[version |-> v, action |-> a]}
  /\ UNCHANGED <<passed, released>>

Release ==
  /\ \E d \in decided : d.action \in Approvals
  /\ released' = TRUE
  /\ UNCHANGED <<passed, decided>>

Withdraw ==
  /\ released' = FALSE
  /\ UNCHANGED <<passed, decided>>

Discard == passed' = {} /\ decided' = {} /\ released' = FALSE

GateNext == Pass \/ Decide \/ Release \/ Withdraw \/ Discard

GateSpec == GateInit /\ [][GateNext]_gate

=============================================================================
