--------------------------- MODULE ExperimentQueue ---------------------------
(***************************************************************************)
(* The PostgreSQL experiment queue: the rows of experiment.manifests,      *)
(* experiment.jobs and experiment.sessions that belong to one experiment,  *)
(* and one action per transaction of PostgresExperimentQueue.              *)
(*                                                                         *)
(* Every transaction but the heartbeat locks the manifest row before it    *)
(* reads what it depends on (claim skips locked rows, stop and resume      *)
(* update that row), and the heartbeat is one UPDATE of one job row, so    *)
(* each method is one atomic step.  Database.session rolls back when the   *)
(* method raises: a refused call changes nothing, whatever it assigned     *)
(* before raising.                                                         *)
(*                                                                         *)
(* The callers are not modelled here: QueueSpec lets any worker call any   *)
(* method on any job it could hold a snapshot of.  ExperimentWorker        *)
(* restricts the callers to the worker loop.                               *)
(***************************************************************************)
EXTENDS Integers, FiniteSets, Functions

CONSTANTS
  Jobs,          \* the session keys of the experiment, one job row each
  Workers,       \* the values lease_owner can take
  NoWorker,      \* lease_owner IS NULL
  NoResult,      \* no experiment.sessions row for the key
  Estimate,      \* estimated_cost_eur of each job, in millionths of a euro
  Ceiling,       \* cost_ceiling_eur of the manifest, in millionths of a euro
  MaxAttempts,   \* max_attempts of every job (3 in the schema)
  ClaimBound     \* bound of the model: claims of one job

(***************************************************************************)
(* Job costs have six decimals, the manifest's totals have four.           *)
(***************************************************************************)
Cent == 100

ASSUME QueueAssumption ==
  /\ NoWorker \notin Workers
  /\ IsFiniteSet(Jobs)
  /\ Estimate \in [Jobs -> Nat]
  /\ Ceiling \in Nat /\ Ceiling % Cent = 0
  /\ MaxAttempts \in Nat \ {0}
  /\ ClaimBound \in Nat
  /\ NoResult \notin Nat

VARIABLES
  manifest,      \* [status, stop, spent, reserved]
  job,           \* [Jobs -> [status, owner, lease, due, attempts, reserved]]
  session        \* [Jobs -> the attempt whose result is stored, or NoResult]

queueVars == <<manifest, job, session>>

ManifestStatus == {"ABSENT", "CREATED", "RUNNING", "STOPPED"}
JobStatus ==
  {"ABSENT", "PENDING", "LEASED", "RUNNING", "RETRY_WAIT", "SUCCEEDED", "FAILED"}

Cents == {n \in Int : n % Cent = 0}
Manifest ==
  [status : ManifestStatus, stop : BOOLEAN, spent : Cents, reserved : Cents]
Job ==
  [status : JobStatus, owner : Workers \cup {NoWorker},
   lease : {"none", "live", "expired"}, due : BOOLEAN,
   attempts : Nat, reserved : Nat]

(***************************************************************************)
(* Storing a value in a Numeric(14,4) column: round to the nearest unit,   *)
(* halves away from zero.                                                  *)
(***************************************************************************)
ToCents(x) ==
  IF x >= 0 THEN ((x + Cent \div 2) \div Cent) * Cent
            ELSE -(((Cent \div 2 - x) \div Cent) * Cent)

Waiting(j) == job[j].status \in {"PENDING", "RETRY_WAIT"}
Leased(j)  == job[j].status \in {"LEASED", "RUNNING"}
Settled(j) == job[j].status \in {"SUCCEEDED", "FAILED"}

(***************************************************************************)
(* Mutants of Claimable: a query that forgets to reclaim RUNNING rows, and *)
(* one that does not look at lease_expires_at.                             *)
(***************************************************************************)
MutantClaimsNoRunning(j) ==
  /\ ~manifest.stop
  /\ \/ Waiting(j) /\ job[j].due
     \/ job[j].status = "LEASED" /\ job[j].lease = "expired"

MutantClaimsLiveLease(j) == ~manifest.stop /\ (Leased(j) \/ (Waiting(j) /\ job[j].due))

(***************************************************************************)
(* The rows a claim's candidate query selects.                             *)
(***************************************************************************)
Claimable(j) ==
  /\ ~manifest.stop
  /\ \/ Waiting(j) /\ job[j].due
     \/ Leased(j) /\ job[j].lease = "expired"

OverCeilingToReserve(j) ==
  manifest.spent + manifest.reserved + Estimate[j] > Ceiling

MutantChecksOnlySpent(j) == manifest.spent > Ceiling
OverCeilingToComplete(j) == manifest.spent + Estimate[j] > Ceiling

-----------------------------------------------------------------------------
(***************************************************************************)
(* schedule: the manifest row if there is none, and a job row for every    *)
(* key that has none.  A different payload under the same id is refused    *)
(* and changes nothing.                                                    *)
(***************************************************************************)
Schedule(js) ==
  /\ \E j \in js : job[j].status = "ABSENT"
  /\ manifest' = IF manifest.status = "ABSENT"
                 THEN [manifest EXCEPT !.status = "CREATED"]
                 ELSE manifest
  /\ job' = [j \in Jobs |->
               IF j \in js /\ job[j].status = "ABSENT"
               THEN [job[j] EXCEPT !.status = "PENDING", !.due = TRUE]
               ELSE job[j]]
  /\ UNCHANGED session

(***************************************************************************)
(* claim: a new lease on a due or abandoned job.  Neither max_attempts nor *)
(* the reservation of the earlier attempt is looked at.                    *)
(***************************************************************************)
MutantReclaimKeepsAttempt(j) == job[j].attempts + (IF Waiting(j) THEN 1 ELSE 0)
NextAttempt(j) == job[j].attempts + 1

Claim(j, w) ==
  /\ Claimable(j)
  /\ job[j].attempts < ClaimBound
  /\ job' = [job EXCEPT ![j].status = "LEASED", ![j].owner = w,
                        ![j].lease = "live", ![j].attempts = NextAttempt(j)]
  /\ UNCHANGED <<manifest, session>>

(***************************************************************************)
(* heartbeat: the WHERE clause compares the owner and nothing else, so it  *)
(* sets RUNNING whatever the status was.                                   *)
(***************************************************************************)
MutantOwnsAnything(j, w) == TRUE
Owns(j, w) == job[j].owner = w

Heartbeat(j, w) ==
  /\ Owns(j, w)
  /\ job' = [job EXCEPT ![j].status = "RUNNING", ![j].lease = "live"]
  /\ UNCHANGED <<manifest, session>>

(***************************************************************************)
(* reserve_cost: returns early when the row already holds a reservation,   *)
(* raises when stopped or over the ceiling, reserves otherwise.            *)
(***************************************************************************)
HoldsReservation(j) == job[j].reserved # 0

ReserveRefused(j) ==
  /\ ~HoldsReservation(j)
  /\ manifest.stop \/ OverCeilingToReserve(j)
  /\ UNCHANGED queueVars

ReserveGranted(j) ==
  /\ ~HoldsReservation(j)
  /\ ~manifest.stop
  /\ ~OverCeilingToReserve(j)
  /\ manifest' = [manifest EXCEPT !.reserved = ToCents(@ + Estimate[j])]
  /\ job' = [job EXCEPT ![j].reserved = Estimate[j]]
  /\ UNCHANGED session

(***************************************************************************)
(* The totals after a completion: the row's reservation is released and    *)
(* the cost spent.  Mutants: releasing the cost instead of what the row    *)
(* holds, and charging what the row holds instead of the cost.             *)
(***************************************************************************)
MutantReleasesCost(j) ==
  [manifest EXCEPT !.reserved = ToCents(@ - Estimate[j]), !.spent = ToCents(@ + Estimate[j])]

MutantChargesReservation(j) ==
  [manifest EXCEPT !.reserved = ToCents(@ - job[j].reserved),
                   !.spent = ToCents(@ + job[j].reserved)]

Charged(j) ==
  [manifest EXCEPT !.reserved = ToCents(@ - job[j].reserved),
                   !.spent = ToCents(@ + Estimate[j])]

(***************************************************************************)
(* The session row after a completion of attempt a.  Mutants: the last     *)
(* result wins; a result is stored only for a RUNNING row.                 *)
(***************************************************************************)
MutantLastResultWins(j, a) == a
MutantStoresWhenRunning(j, a) ==
  IF session[j] = NoResult /\ job[j].status = "RUNNING" THEN a ELSE session[j]
StoredResult(j, a) == IF session[j] = NoResult THEN a ELSE session[j]

(***************************************************************************)
(* complete: releases the row's reservation, charges the cost, stores the  *)
(* result of attempt a unless the key has one.  Neither the caller nor the *)
(* status of the row is looked at, and the lease fields are left alone.    *)
(***************************************************************************)
CompleteRefused(j) ==
  /\ manifest.stop \/ OverCeilingToComplete(j)
  /\ UNCHANGED queueVars

MutantCompletesWhenStopped(j, a) ==
  /\ ~OverCeilingToComplete(j)
  /\ manifest' = Charged(j)
  /\ session' = [session EXCEPT ![j] = StoredResult(j, a)]
  /\ job' = [job EXCEPT ![j].status = "SUCCEEDED", ![j].reserved = 0]

Complete(j, a) ==
  /\ ~manifest.stop
  /\ ~OverCeilingToComplete(j)
  /\ manifest' = Charged(j)
  /\ session' = [session EXCEPT ![j] = StoredResult(j, a)]
  /\ job' = [job EXCEPT ![j].status = "SUCCEEDED", ![j].reserved = 0]

(***************************************************************************)
(* fail: a is the attempt_count of the caller's snapshot, not the row's.   *)
(* The status and owner of the row are not looked at.                      *)
(***************************************************************************)
MutantKeepsTotal(j) == manifest
MutantRefunds(j) ==
  [manifest EXCEPT !.reserved = ToCents(@ - job[j].reserved),
                   !.spent = IF session[j] = NoResult THEN @ ELSE ToCents(@ - Estimate[j])]
Released(j) == [manifest EXCEPT !.reserved = ToCents(@ - job[j].reserved)]

MutantLeavesStatus(j, a, retryable) ==
  IF retryable /\ a < MaxAttempts THEN "RETRY_WAIT" ELSE job[j].status
MutantCancels(j, a, retryable) ==
  IF manifest.stop THEN "CANCELLED" ELSE IF retryable THEN "RETRY_WAIT" ELSE "FAILED"
FailedStatus(j, a, retryable) ==
  IF retryable /\ a < MaxAttempts THEN "RETRY_WAIT" ELSE "FAILED"

Fail(j, a, retryable) ==
  /\ manifest' = Released(j)
  /\ job' = [job EXCEPT
               ![j].status = FailedStatus(j, a, retryable),
               ![j].owner = NoWorker, ![j].lease = "none",
               ![j].due = FALSE, ![j].reserved = 0]
  /\ UNCHANGED session

(***************************************************************************)
(* stop and resume: an UPDATE by id, without effect before the schedule.   *)
(***************************************************************************)
Stop ==
  /\ manifest.status # "ABSENT"
  /\ manifest' = [manifest EXCEPT !.stop = TRUE, !.status = "STOPPED"]
  /\ UNCHANGED <<job, session>>

Resume ==
  /\ manifest.status # "ABSENT"
  /\ manifest' = [manifest EXCEPT !.stop = FALSE, !.status = "RUNNING"]
  /\ UNCHANGED <<job, session>>

(***************************************************************************)
(* The clock: not_before and lease_expires_at pass.                        *)
(***************************************************************************)
BackoffElapses(j) ==
  /\ job[j].status = "RETRY_WAIT"
  /\ ~job[j].due
  /\ job' = [job EXCEPT ![j].due = TRUE]
  /\ UNCHANGED <<manifest, session>>

LeaseExpires(j) ==
  /\ Leased(j)
  /\ job[j].lease = "live"
  /\ job' = [job EXCEPT ![j].lease = "expired"]
  /\ UNCHANGED <<manifest, session>>

-----------------------------------------------------------------------------
QueueInit ==
  /\ manifest = [status |-> "ABSENT", stop |-> FALSE, spent |-> 0, reserved |-> 0]
  /\ job = [j \in Jobs |-> [status |-> "ABSENT", owner |-> NoWorker, lease |-> "none",
                            due |-> FALSE, attempts |-> 0, reserved |-> 0]]
  /\ session = [j \in Jobs |-> NoResult]

(***************************************************************************)
(* What a caller holding a claimed job can do to its row.                  *)
(***************************************************************************)
CallOn(j) ==
  \/ \E w \in Workers : Heartbeat(j, w)
  \/ ReserveGranted(j)
  \/ \E a \in 1..job[j].attempts : Complete(j, a)
  \/ \E a \in 1..job[j].attempts, r \in BOOLEAN : Fail(j, a, r)

QueueNext ==
  \/ \E js \in SUBSET Jobs : Schedule(js)
  \/ \E j \in Jobs, w \in Workers : Claim(j, w)
  \/ \E j \in Jobs : CallOn(j)
  \/ Stop
  \/ Resume
  \/ \E j \in Jobs : BackoffElapses(j) \/ LeaseExpires(j)

QueueSpec == QueueInit /\ [][QueueNext]_queueVars

-----------------------------------------------------------------------------
(***************************************************************************)
(* Properties.                                                             *)
(***************************************************************************)

(***************************************************************************)
(* Type invariant of the three tables.                                     *)
(***************************************************************************)
QueueTypeOK ==
  /\ manifest \in Manifest
  /\ job \in [Jobs -> Job]
  /\ session \in [Jobs -> Nat \cup {NoResult}]

(***************************************************************************)
(* The ceiling is a hard cap on what complete charges, however many        *)
(* attempts complete and whatever else is reserved (queue.py 381-385).     *)
(***************************************************************************)
SpentWithinCeiling == manifest.spent \in 0..Ceiling

(***************************************************************************)
(* The manifest's reservation is exactly what the job rows hold, through   *)
(* abandoned attempts, repeated completions and stale failures, when every *)
(* estimate has at most four decimals (queue.py 359-360, 384, 401, 420).   *)
(***************************************************************************)
WholeCents == \A j \in Jobs : Estimate[j] % Cent = 0

HeldByRows == SumFunction([j \in Jobs |-> job[j].reserved])

ReservationsBacked == WholeCents => manifest.reserved = HeldByRows

(***************************************************************************)
(* No result is kept without having been paid for: what is spent covers    *)
(* the estimate of every session row (queue.py 385-398).                   *)
(***************************************************************************)
WorthOfResults ==
  SumFunction([j \in Jobs |-> IF session[j] = NoResult THEN 0 ELSE Estimate[j]])

ResultsPaidFor == WholeCents => manifest.spent >= WorthOfResults

(***************************************************************************)
(* The books balance: the manifest's totals are backed by the rows they    *)
(* were computed for, through abandoned attempts, repeated completions and *)
(* stale failures (queue.py 359-360, 384-398, 420).                        *)
(***************************************************************************)
BooksBalance == ReservationsBacked /\ ResultsPaidFor

(***************************************************************************)
(* A job is only reported SUCCEEDED when its result is stored: a late      *)
(* fail or heartbeat may take the status away, never the result            *)
(* (queue.py 386-399).                                                     *)
(***************************************************************************)
SuccessHasResult ==
  \A j \in Jobs : job[j].status = "SUCCEEDED" => session[j] # NoResult

(***************************************************************************)
(* No job is stranded: a row that says LEASED or RUNNING has an owner and  *)
(* a lease, without which neither its owner nor a claim could move it      *)
(* again (queue.py 271-281, 318-327, 422-426).                             *)
(***************************************************************************)
LeasedHasLease ==
  \A j \in Jobs : Leased(j) => job[j].owner \in Workers /\ job[j].lease # "none"

(***************************************************************************)
(* The inductive invariant.                                                *)
(***************************************************************************)
QueueInv ==
  /\ QueueTypeOK
  /\ SpentWithinCeiling
  /\ SuccessHasResult
  /\ LeasedHasLease

(***************************************************************************)
(* A stored result is never replaced by the result of another attempt      *)
(* (queue.py 386-398): one session per key, the first.                     *)
(***************************************************************************)
ResultsKept ==
  [][\A j \in Jobs : session[j] # NoResult => session'[j] = session[j]]_queueVars

(***************************************************************************)
(* While an experiment is stopped no job is started and no result or cost  *)
(* is recorded, whatever is still in flight (queue.py 269, 350, 371).      *)
(***************************************************************************)
StoppedStaysQuiet ==
  [][manifest.stop =>
       /\ session' = session
       /\ manifest'.spent = manifest.spent
       /\ manifest'.reserved <= manifest.reserved
       /\ \A j \in Jobs : job'[j].attempts = job[j].attempts]_queueVars

(***************************************************************************)
(* The queue keeps the promise of the session ledger.                      *)
(***************************************************************************)
Ledger == INSTANCE SessionLedger
            WITH Keys <- Jobs, Limit <- Ceiling, result <- session, spent <- manifest.spent

LedgerSpec == Ledger!LedgerSpec

=============================================================================
