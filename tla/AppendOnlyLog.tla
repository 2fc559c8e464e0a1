---------------------------- MODULE AppendOnlyLog ----------------------------
(***************************************************************************)
(* What the audit trail promises: a log numbered from 1 without gaps, in   *)
(* which nothing changes or disappears and no event appears twice.         *)
(***************************************************************************)
EXTENDS Integers

CONSTANT Events

VARIABLE log       \* a function from 1..n to Events

LogInit == log = [i \in 1..0 |-> CHOOSE e \in Events : TRUE]

Append(n, e) ==
  /\ DOMAIN log = 1..n
  /\ \A i \in 1..n : log[i] # e
  /\ log' = [i \in 1..(n + 1) |-> IF i = n + 1 THEN e ELSE log[i]]

LogNext == \E n \in {0} \cup DOMAIN log, e \in Events : Append(n, e)

LogSpec == LogInit /\ [][LogNext]_log

=============================================================================
