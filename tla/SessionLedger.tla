---------------------------- MODULE SessionLedger ----------------------------
(***************************************************************************)
(* What the experiment queue promises about money and results: a session   *)
(* key gets at most one result and keeps it, and a result is recorded only *)
(* in a step that charges for it without passing the ceiling.              *)
(***************************************************************************)
EXTENDS Integers

CONSTANTS
  Keys,          \* session keys
  NoResult,      \* the key has no result
  Limit          \* the most that may be spent

VARIABLES result, spent

TypeOK ==
  /\ result \in [Keys -> Nat \cup {NoResult}]
  /\ spent \in 0..Limit

LedgerInit ==
  /\ result = [k \in Keys |-> NoResult]
  /\ spent = 0

(***************************************************************************)
(* Money only accumulates, up to the limit.                                *)
(***************************************************************************)
Charge == spent' \in Int /\ spent <= spent' /\ spent' <= Limit

Record(k) ==
  /\ result[k] = NoResult
  /\ result'[k] \in Nat
  /\ result' = [result EXCEPT ![k] = result'[k]]
  /\ Charge

(***************************************************************************)
(* A completion of a key that has its result may still be charged.         *)
(***************************************************************************)
ChargeAgain == UNCHANGED result /\ Charge

LedgerNext == ChargeAgain \/ \E k \in Keys : Record(k)

LedgerSpec == LedgerInit /\ [][LedgerNext]_<<result, spent>>

=============================================================================
