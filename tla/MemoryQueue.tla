----------------------------- MODULE MemoryQueue -----------------------------
(***************************************************************************)
(* InMemoryExperimentQueue: the dictionaries of one experiment, as the API *)
(* without a database, the command line and the tests use it.  A method    *)
(* never gives way to the event loop, so each is one step; nothing is      *)
(* rolled back when it raises, so each operator below says what a call     *)
(* leaves behind when it returns and when it raises.                       *)
(*                                                                         *)
(* The methods are operators on the primed variables they assign.  Where   *)
(* the caller goes on without giving way (a refused reservation is failed  *)
(* in the same step) LocalExperiment composes them.                        *)
(***************************************************************************)
EXTENDS Integers, FiniteSets, Functions

CONSTANTS
  Jobs,          \* session keys: configuration x scenario x repetition
  Workers,       \* the values lease_owner can take
  NoWorker,      \* lease_owner is None
  NoManifest,    \* the experiment was never scheduled
  NoResult,      \* no entry in results
  NoReservation, \* no entry in reservations
  Manifests,     \* the manifests submitted under the experiment's id
  Configured,    \* [Manifests -> SUBSET Jobs]: keys of its configurations
  Estimate,      \* [Manifests -> [Jobs -> Nat]]: estimated_job_cost
  Ceiling,       \* [Manifests -> Nat]: cost_ceiling_eur
  MaxAttempts    \* max_attempts of a job (3 by default)

ASSUME MemoryAssumption ==
  /\ NoWorker \notin Workers
  /\ IsFiniteSet(Jobs)
  /\ NoManifest \notin Manifests
  /\ NoReservation \notin Nat
  /\ Configured \in [Manifests -> SUBSET Jobs]
  /\ Estimate \in [Manifests -> [Jobs -> Nat]]
  /\ Ceiling \in [Manifests -> Nat \ {0}]
  /\ MaxAttempts \in Nat \ {0}

VARIABLES
  manifest,      \* manifests[experiment_id]
  job,           \* jobs: [Jobs -> Job]
  result,        \* results
  stopped,       \* experiment_id \in stopped
  spent,         \* costs[experiment_id]
  reservation    \* reservations

memoryVars == <<manifest, job, result, stopped, spent, reservation>>

JobStatus == {"ABSENT", "PENDING", "LEASED", "RETRY_WAIT", "SUCCEEDED", "FAILED"}

Job ==
  [status : JobStatus, owner : Workers \cup {NoWorker},
   lease : {"none", "live", "expired"}, due : BOOLEAN,
   attempts : Nat, estimate : Nat]

NoJobYet ==
  [status |-> "ABSENT", owner |-> NoWorker, lease |-> "none",
   due |-> FALSE, attempts |-> 0, estimate |-> 0]

Due(j)         == job[j].status \in {"PENDING", "RETRY_WAIT"} /\ job[j].due
Abandoned(j)   == job[j].status = "LEASED" /\ job[j].lease = "expired"
Settled(j)     == job[j].status \in {"SUCCEEDED", "FAILED"}
Reserved(j)    == reservation[j] # NoReservation
TotalReserved  == SumFunction([j \in Jobs |-> IF Reserved(j) THEN reservation[j] ELSE 0])

-----------------------------------------------------------------------------
(***************************************************************************)
(* schedule: the manifest is replaced, whatever it said; jobs are added    *)
(* for the keys that have none, with the estimate of this manifest.        *)
(***************************************************************************)
schedule(m, js) ==
  /\ js \subseteq Configured[m]
  /\ manifest' = m
  /\ job' = [j \in Jobs |->
               IF j \in js /\ job[j].status = "ABSENT"
               THEN [NoJobYet EXCEPT !.status = "PENDING", !.due = TRUE,
                                     !.estimate = Estimate[m][j]]
               ELSE job[j]]
  /\ UNCHANGED <<result, stopped, spent, reservation>>

(***************************************************************************)
(* claim: the loop over the jobs sets the abandoned ones it meets back to  *)
(* PENDING and returns the first that is due.  The order of the dictionary *)
(* is left open: passed are the abandoned jobs met before.  The loop does  *)
(* not come back to them.                                                  *)
(***************************************************************************)
Recovered(j) == [job[j] EXCEPT !.status = "PENDING", !.owner = NoWorker]

claim(j, w, passed) ==
  /\ ~stopped
  /\ Due(j)
  /\ passed \subseteq {k \in Jobs : Abandoned(k)}
  /\ job' = [k \in Jobs |->
               IF k = j THEN [job[j] EXCEPT !.status = "LEASED", !.owner = w,
                                            !.lease = "live", !.attempts = @ + 1]
               ELSE IF k \in passed THEN Recovered(k) ELSE job[k]]
  /\ UNCHANGED <<manifest, result, stopped, spent, reservation>>

claimsNothing ==
  /\ ~stopped
  /\ \A j \in Jobs : ~Due(j)
  /\ \E j \in Jobs : Abandoned(j)
  /\ job' = [j \in Jobs |-> IF Abandoned(j) THEN Recovered(j) ELSE job[j]]
  /\ UNCHANGED <<manifest, result, stopped, spent, reservation>>

(***************************************************************************)
(* heartbeat: refused for another owner; the status is not looked at.      *)
(***************************************************************************)
Owns(j, w) == job[j].owner = w
Extended(j) == [job EXCEPT ![j].lease = "live"]

(***************************************************************************)
(* reserve_cost: returns when the key holds a reservation, whoever made    *)
(* it.  A refusal stops the experiment before it raises, and that stays.   *)
(***************************************************************************)
MutantOverlooksReserved(j) == ~Reserved(j) /\ spent + job[j].estimate > Ceiling[manifest]
ReservationRefused(j) ==
  ~Reserved(j) /\ spent + TotalReserved + job[j].estimate > Ceiling[manifest]
WithReservation(j) ==
  IF Reserved(j) THEN reservation ELSE [reservation EXCEPT ![j] = job[j].estimate]

(***************************************************************************)
(* What complete and fail do first.  Mutant: the release forgotten.        *)
(***************************************************************************)
MutantKeepsReservation(j) == reservation
WithoutReservation(j) == [reservation EXCEPT ![j] = NoReservation]

(***************************************************************************)
(* complete: charges cost unless that passes the ceiling of the manifest   *)
(* of the moment, keeps the first result of the key.  Neither stopped nor  *)
(* the owner nor the status is looked at.                                  *)
(***************************************************************************)
MutantNeverOver(cost) == FALSE
CompletionRefused(cost) == spent + cost > Ceiling[manifest]

MutantLastResult(j, r) == [result EXCEPT ![j] = r]
WithResult(j, r) == IF result[j] = NoResult THEN [result EXCEPT ![j] = r] ELSE result

completes(j, r, cost) ==
  /\ ~CompletionRefused(cost)
  /\ spent' = spent + cost
  /\ result' = WithResult(j, r)
  /\ reservation' = WithoutReservation(j)
  /\ job' = [job EXCEPT ![j].status = "SUCCEEDED"]
  /\ UNCHANGED <<manifest, stopped>>

(***************************************************************************)
(* fail: the attempts counted are those of the row, not of the caller.     *)
(* halt says whether the call that raised had stopped the experiment.      *)
(***************************************************************************)
MutantLeavesStatus(j, retryable) ==
  IF retryable /\ job[j].attempts < MaxAttempts THEN "RETRY_WAIT" ELSE job[j].status
FailedStatus(j, retryable) ==
  IF retryable /\ job[j].attempts < MaxAttempts THEN "RETRY_WAIT" ELSE "FAILED"

fails(j, retryable, halt) ==
  /\ reservation' = WithoutReservation(j)
  /\ job' = [job EXCEPT ![j].status = FailedStatus(j, retryable), ![j].due = FALSE,
                        ![j].owner = NoWorker, ![j].lease = "none"]
  /\ stopped' = (stopped \/ halt)
  /\ UNCHANGED <<manifest, result, spent>>

stop   == stopped' = TRUE  /\ UNCHANGED <<manifest, job, result, spent, reservation>>
resume == stopped' = FALSE /\ UNCHANGED <<manifest, job, result, spent, reservation>>

-----------------------------------------------------------------------------
(***************************************************************************)
(* The clock.                                                              *)
(***************************************************************************)
backoffElapses(j) ==
  /\ job[j].status = "RETRY_WAIT" /\ ~job[j].due
  /\ job' = [job EXCEPT ![j].due = TRUE]
  /\ UNCHANGED <<manifest, result, stopped, spent, reservation>>

leaseExpires(j) ==
  /\ job[j].status = "LEASED" /\ job[j].lease = "live"
  /\ job' = [job EXCEPT ![j].lease = "expired"]
  /\ UNCHANGED <<manifest, result, stopped, spent, reservation>>

memoryInit ==
  /\ manifest = NoManifest
  /\ job = [j \in Jobs |-> NoJobYet]
  /\ result = [j \in Jobs |-> NoResult]
  /\ stopped = FALSE
  /\ spent = 0
  /\ reservation = [j \in Jobs |-> NoReservation]

=============================================================================
