------------------------ MODULE ExperimentWorker_proofs ------------------------
(***************************************************************************)
(* Proofs about the experiment queue and its workers, for every finite set *)
(* of jobs, every set of workers, every estimate and every ceiling.        *)
(*                                                                         *)
(* The first part is about QueueSpec, whatever the callers do: the rows    *)
(* and the ceiling (QueueInv), the books, results and the ledger.  In the  *)
(* second part every step of a worker is shown to be a step of the queue,  *)
(* so what the queue promises to all callers it promises to them; the      *)
(* argument needs that a busy task holds a snapshot of a claimed row.      *)
(***************************************************************************)
EXTENDS ExperimentWorker, SumLemmas

(***************************************************************************)
(* Rounding to a column's four decimals stays in the column and never      *)
(* passes a value that the column can hold.                                *)
(***************************************************************************)
LEMMA RoundingLemma ==
  ASSUME NEW x \in Int
  PROVE  /\ ToCents(x) \in Cents
         /\ \A c \in Cents : x <= c => ToCents(x) <= c
         /\ \A c \in Cents : c <= x => c <= ToCents(x)
BY DEF ToCents, Cents, Cent

(***************************************************************************)
(* The totals after a completion and after a failure.                      *)
(***************************************************************************)
LEMMA ChargedLemma ==
  ASSUME QueueTypeOK, SpentWithinCeiling, NEW j \in Jobs, ~OverCeilingToComplete(j)
  PROVE  /\ Charged(j) \in Manifest
         /\ Charged(j).spent \in 0..Ceiling
         /\ manifest.spent <= Charged(j).spent
         /\ Charged(j).stop = manifest.stop
<1> DEFINE s == ToCents(manifest.spent + Estimate[j])
           r == ToCents(manifest.reserved - job[j].reserved)
<1>1. /\ manifest \in Manifest
      /\ manifest.spent \in Cents /\ manifest.reserved \in Cents
      /\ manifest.spent \in 0..Ceiling /\ manifest.reserved \in Int
      /\ job[j].reserved \in Nat /\ Estimate[j] \in Nat /\ Ceiling \in Nat
  BY QueueAssumption DEF QueueTypeOK, SpentWithinCeiling, Manifest, Job, Cents
<1>2. Ceiling \in Cents
  BY QueueAssumption DEF Cents
<1>3. manifest.spent <= manifest.spent + Estimate[j] /\ manifest.spent + Estimate[j] <= Ceiling
  BY <1>1 DEF OverCeilingToComplete
<1>4. s \in Cents /\ s <= Ceiling /\ manifest.spent <= s
  BY <1>1, <1>2, <1>3, RoundingLemma
<1>5. s \in 0..Ceiling
  BY <1>1, <1>4 DEF Cents
<1>6. r \in Cents
  BY <1>1, RoundingLemma
<1>7. Charged(j) = [manifest EXCEPT !.reserved = r, !.spent = s]
  BY DEF Charged
<1> HIDE DEF r, s
<1> QED BY <1>1, <1>4, <1>5, <1>6, <1>7 DEF Manifest

LEMMA ReleasedLemma ==
  ASSUME QueueTypeOK, NEW j \in Jobs
  PROVE  /\ Released(j) \in Manifest
         /\ Released(j).spent = manifest.spent
         /\ Released(j).reserved <= manifest.reserved
<1> USE DEF QueueTypeOK, Manifest, Job
<1>1. manifest.reserved \in Cents /\ manifest.reserved \in Int /\ job[j].reserved \in Nat
  BY DEF Cents
<1>2. /\ ToCents(manifest.reserved - job[j].reserved) \in Cents
      /\ ToCents(manifest.reserved - job[j].reserved) <= manifest.reserved
  BY <1>1, RoundingLemma
<1> QED BY <1>1, <1>2 DEF Released

-----------------------------------------------------------------------------
LEMMA QueueInitInv == QueueInit => QueueInv
BY QueueAssumption
   DEF QueueInit, QueueInv, QueueTypeOK, SpentWithinCeiling, SuccessHasResult, LeasedHasLease,
       Manifest, Job, ManifestStatus, JobStatus, Cents, Cent, Leased

(***************************************************************************)
(* Every step keeps the types of the three tables.                         *)
(***************************************************************************)
(***************************************************************************)
(* The rows keep their type when one of them is replaced by another.       *)
(***************************************************************************)
LEMMA RowTyped ==
  ASSUME job \in [Jobs -> Job], NEW j \in Jobs, NEW row \in Job, job' = [job EXCEPT ![j] = row]
  PROVE  job' \in [Jobs -> Job]
OBVIOUS

LEMMA QueueStepType == QueueInv /\ [QueueNext]_queueVars => QueueTypeOK'
<1> SUFFICES ASSUME QueueInv, [QueueNext]_queueVars PROVE QueueTypeOK'
  OBVIOUS
<1>0. /\ QueueTypeOK /\ SpentWithinCeiling
      /\ manifest \in Manifest
      /\ job \in [Jobs -> Job]
      /\ session \in [Jobs -> Nat \cup {NoResult}]
  BY DEF QueueInv, QueueTypeOK
<1>a. job \in [Jobs -> Job]
  BY <1>0
<1>1. ASSUME NEW js \in SUBSET Jobs, Schedule(js) PROVE QueueTypeOK'
  <2>1. manifest' \in Manifest
    BY <1>0, <1>1 DEF Schedule, Manifest, ManifestStatus
  <2>2. job' \in [Jobs -> Job]
    BY <1>a, <1>1 DEF Schedule, Job, JobStatus
  <2> QED BY <1>0, <1>1, <2>1, <2>2 DEF Schedule, QueueTypeOK
<1>2. ASSUME NEW j \in Jobs, NEW w \in Workers, Claim(j, w) PROVE QueueTypeOK'
  <2>1. job' \in [Jobs -> Job]
    <3> DEFINE row == [job[j] EXCEPT !.status = "LEASED", !.owner = w, !.lease = "live",
                                     !.attempts = NextAttempt(j)]
    <3>1. job[j] \in Job /\ NextAttempt(j) \in Nat
      BY <1>a DEF NextAttempt, Job
    <3>2. row \in Job
      BY <3>1 DEF Job, JobStatus
    <3>3. job' = [job EXCEPT ![j] = row]
      BY <1>2 DEF Claim
    <3> HIDE DEF row
    <3> QED BY <1>a, <3>2, <3>3, RowTyped
  <2> QED BY <1>0, <1>2, <2>1 DEF Claim, QueueTypeOK
<1>3. ASSUME NEW j \in Jobs, NEW w \in Workers, Heartbeat(j, w) PROVE QueueTypeOK'
  <2>1. job' \in [Jobs -> Job]
    <3> DEFINE row == [job[j] EXCEPT !.status = "RUNNING", !.lease = "live"]
    <3>1. row \in Job
      BY <1>a DEF Job, JobStatus
    <3>2. job' = [job EXCEPT ![j] = row]
      BY <1>3 DEF Heartbeat
    <3> HIDE DEF row
    <3> QED BY <1>a, <3>1, <3>2, RowTyped
  <2> QED BY <1>0, <1>3, <2>1 DEF Heartbeat, QueueTypeOK
<1>4. ASSUME NEW j \in Jobs, ReserveGranted(j) PROVE QueueTypeOK'
  <2>1. manifest.reserved \in Int /\ Estimate[j] \in Nat
    BY <1>0, QueueAssumption DEF Manifest, Cents
  <2>2. ToCents(manifest.reserved + Estimate[j]) \in Cents
    BY <2>1, RoundingLemma
  <2>3. manifest' \in Manifest
    BY <1>0, <1>4, <2>2 DEF ReserveGranted, Manifest
  <2>4. job' \in [Jobs -> Job]
    <3> DEFINE row == [job[j] EXCEPT !.reserved = Estimate[j]]
    <3>1. row \in Job
      BY <1>a, <2>1 DEF Job
    <3>2. job' = [job EXCEPT ![j] = row]
      BY <1>4 DEF ReserveGranted
    <3> HIDE DEF row
    <3> QED BY <1>a, <3>1, <3>2, RowTyped
  <2> QED BY <1>0, <1>4, <2>3, <2>4 DEF ReserveGranted, QueueTypeOK
<1>5. ASSUME NEW j \in Jobs, NEW a \in 1..job[j].attempts, Complete(j, a) PROVE QueueTypeOK'
  <2>1. manifest' \in Manifest
    BY <1>0, <1>5, ChargedLemma DEF Complete
  <2>2. StoredResult(j, a) \in Nat \cup {NoResult}
    BY <1>0 DEF StoredResult
  <2>3. session' \in [Jobs -> Nat \cup {NoResult}]
    BY <1>0, <1>5, <2>2 DEF Complete
  <2>4. job' \in [Jobs -> Job]
    <3> DEFINE row == [job[j] EXCEPT !.status = "SUCCEEDED", !.reserved = 0]
    <3>1. row \in Job
      BY <1>a DEF Job, JobStatus
    <3>2. job' = [job EXCEPT ![j] = row]
      BY <1>5 DEF Complete
    <3> HIDE DEF row
    <3> QED BY <1>a, <3>1, <3>2, RowTyped
  <2> QED BY <2>1, <2>3, <2>4 DEF QueueTypeOK
<1>6. ASSUME NEW j \in Jobs, NEW a \in 1..job[j].attempts, NEW r \in BOOLEAN, Fail(j, a, r)
      PROVE QueueTypeOK'
  <2>1. manifest' \in Manifest
    BY <1>0, <1>6, ReleasedLemma DEF Fail
  <2>2. FailedStatus(j, a, r) \in JobStatus
    BY DEF FailedStatus, JobStatus
  <2> DEFINE row == [job[j] EXCEPT !.status = FailedStatus(j, a, r), !.owner = NoWorker,
                                   !.lease = "none", !.due = FALSE, !.reserved = 0]
  <2>a. row \in Job
    <3>1. \A s \in JobStatus : [job[j] EXCEPT !.status = s, !.owner = NoWorker, !.lease = "none",
                                             !.due = FALSE, !.reserved = 0] \in Job
      BY <1>a DEF Job
    <3> QED BY <2>2, <3>1
  <2>b. job' = [job EXCEPT ![j] = row]
    BY <1>6 DEF Fail
  <2>3. job' \in [Jobs -> Job]
    <3> HIDE DEF row
    <3> QED BY <1>a, <2>a, <2>b, RowTyped
  <2> QED BY <1>0, <1>6, <2>1, <2>3 DEF Fail, QueueTypeOK
<1>7. ASSUME Stop \/ Resume PROVE QueueTypeOK'
  <2>1. manifest' \in Manifest
    BY <1>0, <1>7 DEF Stop, Resume, Manifest, ManifestStatus
  <2> QED BY <1>0, <1>7, <2>1 DEF Stop, Resume, QueueTypeOK
<1>8. ASSUME NEW j \in Jobs, BackoffElapses(j) \/ LeaseExpires(j) PROVE QueueTypeOK'
  <2>1. job' \in [Jobs -> Job]
    <3> DEFINE waited == [job[j] EXCEPT !.due = TRUE]
               lapsed == [job[j] EXCEPT !.lease = "expired"]
    <3>1. waited \in Job /\ lapsed \in Job
      BY <1>a DEF Job
    <3>2. job' = [job EXCEPT ![j] = waited] \/ job' = [job EXCEPT ![j] = lapsed]
      BY <1>8 DEF BackoffElapses, LeaseExpires
    <3> HIDE DEF waited, lapsed
    <3> QED BY <1>a, <3>1, <3>2, RowTyped
  <2> QED BY <1>0, <1>8, <2>1 DEF BackoffElapses, LeaseExpires, QueueTypeOK
<1>9. CASE UNCHANGED queueVars
  BY <1>0, <1>9 DEF queueVars, QueueTypeOK
<1> QED BY <1>1, <1>2, <1>3, <1>4, <1>5, <1>6, <1>7, <1>8, <1>9 DEF QueueNext, CallOn

(***************************************************************************)
(* Only complete changes what is spent, and it stays within the ceiling.   *)
(***************************************************************************)
LEMMA QueueStepSpent ==
  QueueInv /\ [QueueNext]_queueVars
    => SpentWithinCeiling' /\ manifest.spent <= manifest'.spent
<1> SUFFICES ASSUME QueueInv, [QueueNext]_queueVars
             PROVE  SpentWithinCeiling' /\ manifest.spent <= manifest'.spent
  OBVIOUS
<1>0. QueueTypeOK /\ SpentWithinCeiling /\ manifest \in Manifest /\ manifest.spent \in 0..Ceiling
  BY DEF QueueInv, QueueTypeOK, SpentWithinCeiling
<1>1. ASSUME manifest'.spent = manifest.spent
      PROVE  SpentWithinCeiling' /\ manifest.spent <= manifest'.spent
  BY <1>0, <1>1 DEF SpentWithinCeiling
<1>2. ASSUME NEW j \in Jobs, NEW a \in 1..job[j].attempts, Complete(j, a)
      PROVE  SpentWithinCeiling' /\ manifest.spent <= manifest'.spent
  BY <1>0, <1>2, ChargedLemma DEF Complete, SpentWithinCeiling
<1>3. ASSUME NEW j \in Jobs, NEW a \in 1..job[j].attempts, NEW r \in BOOLEAN, Fail(j, a, r)
      PROVE  manifest'.spent = manifest.spent
  BY <1>0, <1>3, ReleasedLemma DEF Fail
<1>4. ASSUME NEW js \in SUBSET Jobs, Schedule(js) PROVE manifest'.spent = manifest.spent
  BY <1>0, <1>4 DEF Schedule, Manifest
<1>5. ASSUME NEW j \in Jobs, ReserveGranted(j) PROVE manifest'.spent = manifest.spent
  BY <1>0, <1>5 DEF ReserveGranted, Manifest
<1>6. ASSUME Stop \/ Resume PROVE manifest'.spent = manifest.spent
  BY <1>0, <1>6 DEF Stop, Resume, Manifest
<1>7. ASSUME NEW j \in Jobs, NEW w \in Workers,
             Claim(j, w) \/ Heartbeat(j, w) \/ BackoffElapses(j) \/ LeaseExpires(j)
      PROVE  manifest'.spent = manifest.spent
  BY <1>7 DEF Claim, Heartbeat, BackoffElapses, LeaseExpires
<1>8. ASSUME NEW j \in Jobs, BackoffElapses(j) \/ LeaseExpires(j)
      PROVE  manifest'.spent = manifest.spent
  BY <1>8 DEF BackoffElapses, LeaseExpires
<1>9. CASE UNCHANGED queueVars
  BY <1>1, <1>9 DEF queueVars
<1> QED
  BY <1>1, <1>2, <1>3, <1>4, <1>5, <1>6, <1>7, <1>8, <1>9 DEF QueueNext, CallOn

(***************************************************************************)
(* A job that becomes SUCCEEDED has its result, and a job that becomes     *)
(* LEASED or RUNNING has its lease.                                        *)
(***************************************************************************)
LEMMA QueueStepRows ==
  QueueInv /\ [QueueNext]_queueVars => SuccessHasResult' /\ LeasedHasLease'
<1> SUFFICES ASSUME QueueInv, [QueueNext]_queueVars, NEW i \in Jobs
             PROVE  /\ job'[i].status = "SUCCEEDED" => session'[i] # NoResult
                    /\ job'[i].status \in {"LEASED", "RUNNING"}
                         => job'[i].owner \in Workers /\ job'[i].lease # "none"
  BY DEF SuccessHasResult, LeasedHasLease, Leased
<1> DEFINE Goal == /\ job'[i].status = "SUCCEEDED" => session'[i] # NoResult
                   /\ job'[i].status \in {"LEASED", "RUNNING"}
                        => job'[i].owner \in Workers /\ job'[i].lease # "none"
<1>0. /\ job \in [Jobs -> Job]
      /\ session \in [Jobs -> Nat \cup {NoResult}]
      /\ job[i].status = "SUCCEEDED" => session[i] # NoResult
      /\ job[i].status \in {"LEASED", "RUNNING"}
           => job[i].owner \in Workers /\ job[i].lease # "none"
  BY DEF QueueInv, QueueTypeOK, SuccessHasResult, LeasedHasLease, Leased
<1>1. ASSUME NEW js \in SUBSET Jobs, Schedule(js) PROVE Goal
  BY <1>0, <1>1 DEF Schedule, Job
<1>2. ASSUME NEW j \in Jobs, NEW w \in Workers, Claim(j, w) PROVE Goal
  BY <1>0, <1>2 DEF Claim, Job
<1>3. ASSUME NEW j \in Jobs, NEW w \in Workers, Heartbeat(j, w) PROVE Goal
  BY <1>0, <1>3 DEF Heartbeat, Owns, Job
<1>4. ASSUME NEW j \in Jobs, ReserveGranted(j) PROVE Goal
  BY <1>0, <1>4 DEF ReserveGranted, Job
<1>5. ASSUME NEW j \in Jobs, NEW a \in 1..job[j].attempts, Complete(j, a) PROVE Goal
  <2>1. StoredResult(j, a) # NoResult
    BY <1>0, QueueAssumption DEF StoredResult, Job
  <2>2. session[i] # NoResult => session'[i] # NoResult
    BY <1>0, <1>5, <2>1 DEF Complete
  <2>3. i = j => session'[i] # NoResult
    BY <1>0, <1>5, <2>1 DEF Complete
  <2> QED BY <1>0, <1>5, <2>2, <2>3 DEF Complete, Job
<1>6. ASSUME NEW j \in Jobs, NEW a \in 1..job[j].attempts, NEW r \in BOOLEAN, Fail(j, a, r)
      PROVE Goal
  <2>1. FailedStatus(j, a, r) \in {"RETRY_WAIT", "FAILED"}
    BY DEF FailedStatus
  <2>2. i # j => job'[i] = job[i]
    BY <1>0, <1>6 DEF Fail
  <2>3. i = j => job'[i].status \in {"RETRY_WAIT", "FAILED"}
    BY <1>0, <1>6, <2>1 DEF Fail, Job
  <2>4. UNCHANGED session
    BY <1>6 DEF Fail
  <2> QED BY <1>0, <2>2, <2>3, <2>4
<1>7. ASSUME UNCHANGED <<job, session>> PROVE Goal
  BY <1>0, <1>7
<1>8. ASSUME NEW j \in Jobs, BackoffElapses(j) \/ LeaseExpires(j) PROVE Goal
  BY <1>0, <1>8 DEF BackoffElapses, LeaseExpires, Job
<1> QED
  BY <1>1, <1>2, <1>3, <1>4, <1>5, <1>6, <1>7, <1>8
     DEF QueueNext, CallOn, Stop, Resume, queueVars

(***************************************************************************)
(* The queue keeps its types, charges at most the ceiling, reports success *)
(* only with a result and strands no job, whatever its callers do and in   *)
(* whatever order (queue.py 200-442).                                      *)
(***************************************************************************)
THEOREM QueueInvariant == QueueSpec => []QueueInv
<1>1. QueueInit => QueueInv
  BY QueueInitInv
<1>2. QueueInv /\ [QueueNext]_queueVars => QueueInv'
  BY QueueStepType, QueueStepSpent, QueueStepRows DEF QueueInv
<1> QED BY <1>1, <1>2, PTL DEF QueueSpec

(***************************************************************************)
(* The ceiling is never passed by what complete charges.                   *)
(***************************************************************************)
THEOREM QueueSpentWithinCeiling == QueueSpec => []SpentWithinCeiling
<1>1. QueueInv => SpentWithinCeiling
  BY DEF QueueInv
<1> QED BY <1>1, QueueInvariant, PTL

(***************************************************************************)
(* SUCCEEDED means that the result is stored.                              *)
(***************************************************************************)
THEOREM QueueSuccessHasResult == QueueSpec => []SuccessHasResult
<1>1. QueueInv => SuccessHasResult
  BY DEF QueueInv
<1> QED BY <1>1, QueueInvariant, PTL

(***************************************************************************)
(* A leased job can always be taken up again: it has a lease to expire.    *)
(***************************************************************************)
THEOREM QueueLeasedHasLease == QueueSpec => []LeasedHasLease
<1>1. QueueInv => LeasedHasLease
  BY DEF QueueInv
<1> QED BY <1>1, QueueInvariant, PTL

-----------------------------------------------------------------------------
(***************************************************************************)
(* The books.  A row holds nothing or its estimate, so with estimates in   *)
(* whole cents no total is ever rounded and every step moves manifest and  *)
(* rows by the same amount.                                                *)
(***************************************************************************)
HoldsEstimate == \A j \in Jobs : job[j].reserved \in {0, Estimate[j]}

BooksInv == HoldsEstimate /\ BooksBalance

LEMMA WholeLemma ==
  ASSUME NEW x \in Cents, NEW y \in Int, y % Cent = 0
  PROVE  ToCents(x + y) = x + y /\ ToCents(x - y) = x - y
<1>1. x + y \in Cents /\ x - y \in Cents
  BY DEF Cents, Cent
<1>2. x + y \in Int /\ x - y \in Int /\ x + y <= x + y /\ x - y <= x - y
  BY DEF Cents
<1>3. \A c \in Cents : ToCents(c) \in Int /\ ToCents(c) <= c /\ c <= ToCents(c)
  BY RoundingLemma DEF Cents
<1>4. \A c \in Cents : ToCents(c) = c
  BY <1>3 DEF Cents
<1> QED
  BY <1>1, <1>4

(***************************************************************************)
(* A step that touches the reservation of one row at most moves the total  *)
(* of the rows by as much, and a result of one key its worth.              *)
(***************************************************************************)
LEMMA HeldMoves ==
  ASSUME QueueTypeOK, QueueTypeOK', NEW j \in Jobs,
         \A i \in Jobs \ {j} : job'[i].reserved = job[i].reserved
  PROVE  /\ HeldByRows \in Int
         /\ HeldByRows' = HeldByRows - job[j].reserved + job'[j].reserved
<1> DEFINE f == [i \in Jobs |-> job[i].reserved]
           g == [i \in Jobs |-> job'[i].reserved]
<1>1. f \in [Jobs -> Int] /\ g \in [Jobs -> Int]
  BY DEF QueueTypeOK, Job
<1>2. \A i \in Jobs \ {j} : f[i] = g[i]
  OBVIOUS
<1>3. f[j] = job[j].reserved /\ g[j] = job'[j].reserved
  OBVIOUS
<1>4. HeldByRows = SumFunction(f) /\ HeldByRows' = SumFunction(g)
  BY DEF HeldByRows
<1> HIDE DEF f, g
<1>5. SumFunction(f) \in Int
  BY <1>1, QueueAssumption, TotalInt
<1>6. SumFunction(g) = SumFunction(f) - f[j] + g[j]
  BY <1>1, <1>2, QueueAssumption, TotalChange
<1> QED
  BY <1>3, <1>4, <1>5, <1>6

LEMMA WorthMoves ==
  ASSUME QueueTypeOK, QueueTypeOK', NEW j \in Jobs, session'[j] # NoResult,
         \A i \in Jobs \ {j} : session'[i] = session[i]
  PROVE  /\ WorthOfResults \in Int /\ WorthOfResults' \in Int
         /\ WorthOfResults' <= WorthOfResults + Estimate[j]
         /\ session[j] = NoResult => WorthOfResults' = WorthOfResults + Estimate[j]
<1> DEFINE f == [i \in Jobs |-> IF session[i] = NoResult THEN 0 ELSE Estimate[i]]
           g == [i \in Jobs |-> IF session'[i] = NoResult THEN 0 ELSE Estimate[i]]
<1>1. f \in [Jobs -> Int] /\ g \in [Jobs -> Int]
  BY QueueAssumption
<1>2. \A i \in Jobs \ {j} : f[i] = g[i]
  OBVIOUS
<1>3. /\ f[j] >= 0 /\ g[j] = Estimate[j] /\ f[j] \in Int /\ Estimate[j] \in Int
      /\ session[j] = NoResult => f[j] = 0
  BY QueueAssumption
<1>4. WorthOfResults = SumFunction(f) /\ WorthOfResults' = SumFunction(g)
  BY DEF WorthOfResults
<1> HIDE DEF f, g
<1>5. SumFunction(f) \in Int
  BY <1>1, QueueAssumption, TotalInt
<1>6. SumFunction(g) = SumFunction(f) - f[j] + g[j]
  BY <1>1, <1>2, QueueAssumption, TotalChange
<1> QED
  BY <1>3, <1>4, <1>5, <1>6

LEMMA BooksInit == QueueInit => BooksInv
<1> SUFFICES ASSUME QueueInit PROVE BooksInv
  OBVIOUS
<1> DEFINE f == [i \in Jobs |-> job[i].reserved]
           g == [i \in Jobs |-> IF session[i] = NoResult THEN 0 ELSE Estimate[i]]
<1>1. /\ f \in [Jobs -> Int] /\ \A j \in Jobs : f[j] = 0
      /\ g \in [Jobs -> Int] /\ \A j \in Jobs : g[j] = 0
  BY DEF QueueInit
<1>2. HeldByRows = SumFunction(f) /\ WorthOfResults = SumFunction(g)
  BY DEF HeldByRows, WorthOfResults
<1>3. HoldsEstimate
  BY DEF QueueInit, HoldsEstimate
<1>4. manifest.reserved = 0 /\ manifest.spent = 0
  BY DEF QueueInit
<1> HIDE DEF f, g
<1>5. SumFunction(f) = 0 /\ SumFunction(g) = 0
  BY <1>1, QueueAssumption, TotalZero
<1> QED
  BY <1>2, <1>3, <1>4, <1>5 DEF BooksInv, BooksBalance, ReservationsBacked, ResultsPaidFor

(***************************************************************************)
(* Every step keeps the books.  In general a step touches the reservation  *)
(* of no row; granting, completing and failing touch one.                  *)
(***************************************************************************)
LEMMA BooksUntouched ==
  ASSUME BooksInv, \A j \in Jobs : job'[j].reserved = job[j].reserved, UNCHANGED session,
         manifest'.reserved = manifest.reserved, manifest'.spent = manifest.spent
  PROVE  BooksInv'
<1>1. HeldByRows' = HeldByRows
  BY DEF HeldByRows
<1>2. WorthOfResults' = WorthOfResults
  BY DEF WorthOfResults
<1> QED
  BY <1>1, <1>2
     DEF BooksInv, HoldsEstimate, BooksBalance, ReservationsBacked, ResultsPaidFor, WholeCents

LEMMA BooksGranted ==
  ASSUME QueueTypeOK, QueueTypeOK', BooksInv, NEW j \in Jobs, ReserveGranted(j)
  PROVE  BooksInv'
<1>0. manifest \in Manifest /\ Estimate[j] \in Int
  BY QueueAssumption DEF QueueTypeOK
<1>1. /\ manifest.reserved \in Cents /\ Estimate[j] \in Int
      /\ manifest' = [manifest EXCEPT !.reserved = ToCents(manifest.reserved + Estimate[j])]
      /\ manifest \in Manifest
  BY <1>0 DEF ReserveGranted, Manifest
<1>2. manifest'.reserved = ToCents(manifest.reserved + Estimate[j])
      /\ manifest'.spent = manifest.spent
  BY <1>1 DEF Manifest
<1>3. /\ job[j].reserved = 0 /\ job'[j].reserved = Estimate[j]
      /\ \A i \in Jobs \ {j} : job'[i].reserved = job[i].reserved
  BY DEF ReserveGranted, HoldsReservation, QueueTypeOK, Job
<1>4. HeldByRows \in Int /\ HeldByRows' = HeldByRows - job[j].reserved + job'[j].reserved
  BY <1>3, HeldMoves
<1>5. WorthOfResults' = WorthOfResults
  BY DEF ReserveGranted, WorthOfResults
<1>6. HoldsEstimate'
  BY <1>3 DEF BooksInv, HoldsEstimate
<1>7. ReservationsBacked'
  <2> SUFFICES ASSUME WholeCents PROVE manifest'.reserved = HeldByRows'
    BY DEF ReservationsBacked, WholeCents
  <2>1. ToCents(manifest.reserved + Estimate[j]) = manifest.reserved + Estimate[j]
    BY <1>1, WholeLemma DEF WholeCents
  <2>2. manifest.reserved = HeldByRows
    BY DEF BooksInv, BooksBalance, ReservationsBacked
  <2> QED
    BY <1>1, <1>2, <1>3, <1>4, <2>1, <2>2
<1>8. ResultsPaidFor'
  BY <1>2, <1>5 DEF BooksInv, BooksBalance, ResultsPaidFor, WholeCents
<1> QED
  BY <1>6, <1>7, <1>8 DEF BooksInv, BooksBalance

(***************************************************************************)
(* What completing and failing do to a row's reservation.                  *)
(***************************************************************************)
LEMMA BooksReleased ==
  ASSUME QueueTypeOK, QueueTypeOK', BooksInv, NEW j \in Jobs,
         manifest'.reserved = ToCents(manifest.reserved - job[j].reserved),
         job'[j].reserved = 0,
         \A i \in Jobs \ {j} : job'[i].reserved = job[i].reserved
  PROVE  HoldsEstimate' /\ ReservationsBacked'
<1>1. HeldByRows \in Int /\ HeldByRows' = HeldByRows - job[j].reserved + job'[j].reserved
  BY HeldMoves
<1>2. HoldsEstimate'
  BY DEF BooksInv, HoldsEstimate
<1>3. manifest.reserved \in Cents /\ manifest.reserved \in Int /\ job[j].reserved \in Int
  BY DEF QueueTypeOK, Manifest, Job, Cents
<1>4. ReservationsBacked'
  <2> SUFFICES ASSUME WholeCents PROVE manifest'.reserved = HeldByRows'
    BY DEF ReservationsBacked, WholeCents
  <2>1. job[j].reserved % Cent = 0
    BY DEF WholeCents, BooksInv, HoldsEstimate, Cent
  <2>2. ToCents(manifest.reserved - job[j].reserved) = manifest.reserved - job[j].reserved
    BY <1>3, <2>1, WholeLemma
  <2>3. manifest.reserved = HeldByRows
    BY DEF BooksInv, BooksBalance, ReservationsBacked
  <2> QED
    BY <1>1, <1>3, <2>2, <2>3
<1> QED
  BY <1>2, <1>4

LEMMA BooksCompleted ==
  ASSUME QueueTypeOK, QueueTypeOK', BooksInv, NEW j \in Jobs, NEW a \in 1..job[j].attempts,
         Complete(j, a)
  PROVE  BooksInv'
<1>1. /\ manifest \in Manifest
      /\ manifest.spent \in Cents /\ manifest.spent \in Int /\ Estimate[j] \in Int
      /\ job[j].attempts \in Nat
  BY QueueAssumption DEF QueueTypeOK, Manifest, Job, Cents
<1>2. /\ manifest'.reserved = ToCents(manifest.reserved - job[j].reserved)
      /\ manifest'.spent = ToCents(manifest.spent + Estimate[j])
  BY <1>1 DEF Complete, Charged, Manifest
<1>3. /\ job'[j].reserved = 0
      /\ \A i \in Jobs \ {j} : job'[i].reserved = job[i].reserved
  BY DEF Complete, QueueTypeOK, Job
<1>4. HoldsEstimate' /\ ReservationsBacked'
  BY <1>2, <1>3, BooksReleased
<1>5. /\ session'[j] # NoResult
      /\ \A i \in Jobs \ {j} : session'[i] = session[i]
  <2>1. StoredResult(j, a) # NoResult
    BY <1>1, QueueAssumption DEF StoredResult
  <2>2. session' = [session EXCEPT ![j] = StoredResult(j, a)]
    BY DEF Complete
  <2> QED
    BY <2>1, <2>2 DEF QueueTypeOK
<1>6. /\ WorthOfResults \in Int /\ WorthOfResults' \in Int
      /\ WorthOfResults' <= WorthOfResults + Estimate[j]
  BY <1>5, WorthMoves
<1>7. ResultsPaidFor'
  <2> SUFFICES ASSUME WholeCents PROVE manifest'.spent >= WorthOfResults'
    BY DEF ResultsPaidFor, WholeCents
  <2>1. ToCents(manifest.spent + Estimate[j]) = manifest.spent + Estimate[j]
    BY <1>1, WholeLemma DEF WholeCents
  <2>2. manifest.spent >= WorthOfResults
    BY DEF BooksInv, BooksBalance, ResultsPaidFor
  <2> QED
    BY <1>1, <1>2, <1>6, <2>1, <2>2
<1> QED
  BY <1>4, <1>7 DEF BooksInv, BooksBalance

LEMMA BooksFailed ==
  ASSUME QueueTypeOK, QueueTypeOK', BooksInv, NEW j \in Jobs, NEW a, NEW r \in BOOLEAN,
         Fail(j, a, r)
  PROVE  BooksInv'
<1>1. manifest \in Manifest
  BY DEF QueueTypeOK
<1>2. /\ manifest'.reserved = ToCents(manifest.reserved - job[j].reserved)
      /\ manifest'.spent = manifest.spent
  BY <1>1 DEF Fail, Released, Manifest
<1>3. /\ job'[j].reserved = 0
      /\ \A i \in Jobs \ {j} : job'[i].reserved = job[i].reserved
  BY DEF Fail, QueueTypeOK, Job
<1>4. HoldsEstimate' /\ ReservationsBacked'
  BY <1>2, <1>3, BooksReleased
<1>5. WorthOfResults' = WorthOfResults
  BY DEF Fail, WorthOfResults
<1>6. ResultsPaidFor'
  BY <1>2, <1>5 DEF BooksInv, BooksBalance, ResultsPaidFor, WholeCents
<1> QED
  BY <1>4, <1>6 DEF BooksInv, BooksBalance

LEMMA BooksStep ==
  ASSUME QueueInv, QueueInv', BooksInv, [QueueNext]_queueVars
  PROVE  BooksInv'
<1>0. /\ QueueTypeOK /\ QueueTypeOK'
      /\ manifest \in Manifest /\ job \in [Jobs -> Job]
  BY DEF QueueInv, QueueTypeOK
<1>1. ASSUME NEW js \in SUBSET Jobs, Schedule(js) PROVE BooksInv'
  <2>1. \A j \in Jobs : job'[j].reserved = job[j].reserved
    BY <1>0, <1>1 DEF Schedule, Job
  <2>2. manifest'.reserved = manifest.reserved /\ manifest'.spent = manifest.spent
    BY <1>0, <1>1 DEF Schedule, Manifest
  <2> QED
    BY <1>1, <2>1, <2>2, BooksUntouched DEF Schedule
<1>2. ASSUME NEW j \in Jobs, NEW w \in Workers, Claim(j, w) \/ Heartbeat(j, w)
      PROVE  BooksInv'
  <2>1. \A i \in Jobs : job'[i].reserved = job[i].reserved
    BY <1>0, <1>2 DEF Claim, Heartbeat, Job
  <2> QED
    BY <1>2, <2>1, BooksUntouched DEF Claim, Heartbeat
<1>3. ASSUME NEW j \in Jobs, BackoffElapses(j) \/ LeaseExpires(j) PROVE BooksInv'
  <2>1. \A i \in Jobs : job'[i].reserved = job[i].reserved
    BY <1>0, <1>3 DEF BackoffElapses, LeaseExpires, Job
  <2> QED
    BY <1>3, <2>1, BooksUntouched DEF BackoffElapses, LeaseExpires
<1>4. ASSUME Stop \/ Resume PROVE BooksInv'
  <2>1. manifest'.reserved = manifest.reserved /\ manifest'.spent = manifest.spent
    BY <1>0, <1>4 DEF Stop, Resume, Manifest
  <2> QED
    BY <1>4, <2>1, BooksUntouched DEF Stop, Resume
<1>5. CASE UNCHANGED queueVars
  BY <1>5, BooksUntouched DEF queueVars
<1> QED
  BY <1>0, <1>1, <1>2, <1>3, <1>4, <1>5, BooksGranted, BooksCompleted, BooksFailed
     DEF QueueNext, CallOn

(***************************************************************************)
(* The books balance, for every finite set of jobs and all estimates in    *)
(* whole cents: what the manifest has reserved is the total of the rows,   *)
(* and what it has spent covers every stored result (queue.py 359-420).    *)
(***************************************************************************)
THEOREM QueueBooksBalance == QueueSpec => []BooksBalance
<1>1. QueueInv /\ [QueueNext]_queueVars => QueueInv'
  BY QueueStepType, QueueStepSpent, QueueStepRows DEF QueueInv
<1>2. QueueInv /\ BooksInv /\ [QueueNext]_queueVars => BooksInv'
  BY <1>1, BooksStep
<1>3. BooksInv => BooksBalance
  BY DEF BooksInv
<1> QED
  BY <1>2, <1>3, BooksInit, QueueInvariant, PTL DEF QueueSpec

-----------------------------------------------------------------------------
(***************************************************************************)
(* A step stores at most the result of one job, in an empty place.         *)
(***************************************************************************)
LEMMA QueueStepSession ==
  ASSUME QueueInv, [QueueNext]_queueVars
  PROVE  \/ UNCHANGED session
         \/ \E j \in Jobs : /\ session[j] = NoResult
                            /\ session'[j] \in Nat
                            /\ session' = [session EXCEPT ![j] = session'[j]]
<1>0. /\ job \in [Jobs -> Job]
      /\ session \in [Jobs -> Nat \cup {NoResult}]
  BY DEF QueueInv, QueueTypeOK
<1>1. ASSUME NEW j \in Jobs, NEW a \in 1..job[j].attempts, Complete(j, a)
      PROVE  \/ UNCHANGED session
             \/ /\ session[j] = NoResult
                /\ session'[j] \in Nat
                /\ session' = [session EXCEPT ![j] = session'[j]]
  <2>1. session' = [session EXCEPT ![j] = StoredResult(j, a)]
    BY <1>1 DEF Complete
  <2>2. CASE session[j] = NoResult
    <3>1. StoredResult(j, a) = a /\ a \in Nat
      BY <1>0, <2>2 DEF StoredResult, Job
    <3> QED BY <1>0, <2>1, <2>2, <3>1
  <2>3. CASE session[j] # NoResult
    BY <1>0, <2>1, <2>3 DEF StoredResult
  <2> QED BY <2>2, <2>3
<1>2. \/ UNCHANGED session
      \/ \E j \in Jobs : \E a \in 1..job[j].attempts : Complete(j, a)
  <2>1. CASE UNCHANGED queueVars
    BY <2>1 DEF queueVars
  <2>2. CASE \E js \in SUBSET Jobs : Schedule(js)
    BY <2>2 DEF Schedule
  <2>3. CASE \E j \in Jobs, w \in Workers : Claim(j, w)
    BY <2>3 DEF Claim
  <2>4. CASE Stop \/ Resume
    BY <2>4 DEF Stop, Resume
  <2>5. CASE \E j \in Jobs : BackoffElapses(j) \/ LeaseExpires(j)
    BY <2>5 DEF BackoffElapses, LeaseExpires
  <2>6. ASSUME NEW j \in Jobs, CallOn(j)
        PROVE  UNCHANGED session \/ \E a \in 1..job[j].attempts : Complete(j, a)
    BY <2>6 DEF CallOn, Heartbeat, ReserveGranted, Fail
  <2> QED BY <2>1, <2>2, <2>3, <2>4, <2>5, <2>6 DEF QueueNext
<1> QED BY <1>1, <1>2

(***************************************************************************)
(* The first stored result of a session key is the one that is kept.       *)
(***************************************************************************)
THEOREM QueueResultsKept == QueueSpec => ResultsKept
<1> DEFINE StayedSo == \A j \in Jobs : session[j] # NoResult => session'[j] = session[j]
<1>1. ASSUME QueueInv, [QueueNext]_queueVars PROVE StayedSo
  <2>1. session \in [Jobs -> Nat \cup {NoResult}]
    BY <1>1 DEF QueueInv, QueueTypeOK
  <2> QED BY <1>1, <2>1, QueueStepSession
<1> QED BY <1>1, QueueInvariant, PTL DEF QueueSpec, ResultsKept

(***************************************************************************)
(* The step relation of the ledger, under the substitution of Ledger:      *)
(* money accumulates up to the ceiling and results are written once.       *)
(***************************************************************************)
THEOREM QueueImplementsLedger == QueueSpec => LedgerSpec
<1>1. QueueInit => Ledger!LedgerInit
  BY DEF QueueInit, Ledger!LedgerInit
<1>2. ASSUME QueueInv, [QueueNext]_queueVars
      PROVE  [Ledger!LedgerNext]_<<session, manifest.spent>>
  <2>1. QueueInv'
    BY <1>2, QueueStepType, QueueStepSpent, QueueStepRows DEF QueueInv
  <2>2. manifest.spent <= manifest'.spent /\ manifest'.spent \in 0..Ceiling
    BY <1>2, <2>1, QueueStepSpent DEF QueueInv, SpentWithinCeiling
  <2>3. Ledger!Charge
    BY <2>2, QueueAssumption DEF Ledger!Charge
  <2>4. CASE UNCHANGED session
    BY <2>3, <2>4 DEF Ledger!LedgerNext, Ledger!ChargeAgain
  <2>5. CASE ~UNCHANGED session
    <3>1. PICK j \in Jobs : /\ session[j] = NoResult
                            /\ session'[j] \in Nat
                            /\ session' = [session EXCEPT ![j] = session'[j]]
      BY <1>2, <2>5, QueueStepSession
    <3> QED BY <2>3, <3>1 DEF Ledger!LedgerNext, Ledger!Record
  <2> QED BY <2>4, <2>5
<1> QED BY <1>1, <1>2, QueueInvariant, PTL DEF QueueSpec, LedgerSpec, Ledger!LedgerSpec

(***************************************************************************)
(* While an experiment is stopped, nothing starts and nothing is recorded. *)
(***************************************************************************)
THEOREM QueueStoppedStaysQuiet == QueueSpec => StoppedStaysQuiet
<1> DEFINE Quiet == manifest.stop =>
                      /\ session' = session
                      /\ manifest'.spent = manifest.spent
                      /\ manifest'.reserved <= manifest.reserved
                      /\ \A j \in Jobs : job'[j].attempts = job[j].attempts
<1>1. ASSUME QueueInv, [QueueNext]_queueVars PROVE Quiet
  <2> SUFFICES ASSUME manifest.stop PROVE Quiet
    OBVIOUS
  <2>0. QueueTypeOK /\ manifest \in Manifest /\ job \in [Jobs -> Job]
    BY <1>1 DEF QueueInv, QueueTypeOK
  <2>1. manifest.reserved <= manifest.reserved
    BY <2>0 DEF Manifest, Cents
  <2>2. ASSUME NEW js \in SUBSET Jobs, Schedule(js) PROVE Quiet
    <3>1. manifest'.spent = manifest.spent /\ manifest'.reserved = manifest.reserved
      BY <2>0, <2>2 DEF Schedule, Manifest
    <3> QED BY <2>0, <2>1, <2>2, <3>1 DEF Schedule, Job
  <2>3. ASSUME NEW j \in Jobs, NEW w \in Workers, Claim(j, w) \/ Heartbeat(j, w)
        PROVE  Quiet
    BY <2>0, <2>1, <2>3 DEF Claim, Claimable, Heartbeat, Job
  <2>4. ASSUME NEW j \in Jobs, NEW a \in 1..job[j].attempts, NEW r \in BOOLEAN, Fail(j, a, r)
        PROVE  Quiet
    <3>1. manifest'.spent = manifest.spent /\ manifest'.reserved <= manifest.reserved
      BY <2>0, <2>4, ReleasedLemma DEF Fail
    <3>2. \A i \in Jobs : job'[i].attempts = job[i].attempts
      BY <2>0, <2>4 DEF Fail, Job
    <3> QED BY <2>4, <3>1, <3>2 DEF Fail
  <2>5. ASSUME Stop \/ Resume PROVE Quiet
    BY <2>0, <2>1, <2>5 DEF Stop, Resume, Manifest
  <2>6. ASSUME NEW j \in Jobs, BackoffElapses(j) \/ LeaseExpires(j) PROVE Quiet
    BY <2>0, <2>1, <2>6 DEF BackoffElapses, LeaseExpires, Job
  <2>7. ASSUME NEW j \in Jobs PROVE ~ReserveGranted(j) /\ \A a : ~Complete(j, a)
    BY DEF ReserveGranted, Complete
  <2>8. CASE UNCHANGED queueVars
    BY <2>1, <2>8 DEF queueVars
  <2> QED BY <1>1, <2>2, <2>3, <2>4, <2>5, <2>6, <2>7, <2>8 DEF QueueNext, CallOn
<1> QED BY <1>1, QueueInvariant, PTL DEF QueueSpec, StoppedStaysQuiet

-----------------------------------------------------------------------------
(***************************************************************************)
(* A busy task works on a job, with the count of a claim that happened; an *)
(* idle slot beats no heart.                                               *)
(***************************************************************************)
SnapshotsTaken ==
  \A s \in Slots :
    /\ Busy(s) => task[s].job \in Jobs /\ task[s].attempt \in Nat \ {0}
    /\ ~Busy(s) => task[s].beat = "off"

WorkerInv ==
  /\ QueueInv
  /\ TypeOK
  /\ SnapshotsTaken
  /\ NewestSnapshotOwns

-----------------------------------------------------------------------------
(***************************************************************************)
(* Rows never forget an attempt, and only a claim gives a row to a worker. *)
(***************************************************************************)
LEMMA RowsAdvance ==
  ASSUME QueueInv, [QueueNext]_queueVars, NEW i \in Jobs
  PROVE  /\ job[i].attempts <= job'[i].attempts
         /\ job'[i].attempts = job[i].attempts
              => job'[i].owner \in {job[i].owner, NoWorker}
<1> DEFINE Goal == /\ job[i].attempts <= job'[i].attempts
                   /\ job'[i].attempts = job[i].attempts
                        => job'[i].owner \in {job[i].owner, NoWorker}
<1>0. job \in [Jobs -> Job] /\ job[i].attempts \in Nat
  BY DEF QueueInv, QueueTypeOK, Job
<1>1. ASSUME NEW js \in SUBSET Jobs, Schedule(js) PROVE Goal
  <2>1. job'[i] = job[i] \/ job'[i] = [job[i] EXCEPT !.status = "PENDING", !.due = TRUE]
    BY <1>0, <1>1 DEF Schedule
  <2>2. job'[i].attempts = job[i].attempts /\ job'[i].owner = job[i].owner
    BY <1>0, <2>1 DEF Job
  <2> QED BY <1>0, <2>2
<1>2. ASSUME NEW j \in Jobs, NEW w \in Workers, Claim(j, w) PROVE Goal
  <2>1. i # j => job'[i] = job[i]
    BY <1>0, <1>2 DEF Claim
  <2>2. i = j => job'[i].attempts = job[i].attempts + 1
    BY <1>0, <1>2 DEF Claim, NextAttempt, Job
  <2> QED BY <1>0, <2>1, <2>2
<1>3. ASSUME NEW j \in Jobs, NEW w \in Workers, Heartbeat(j, w) PROVE Goal
  BY <1>0, <1>3 DEF Heartbeat, Job
<1>4. ASSUME NEW j \in Jobs, ReserveGranted(j) PROVE Goal
  BY <1>0, <1>4 DEF ReserveGranted, Job
<1>5. ASSUME NEW j \in Jobs, NEW a \in 1..job[j].attempts, Complete(j, a) PROVE Goal
  BY <1>0, <1>5 DEF Complete, Job
<1>6. ASSUME NEW j \in Jobs, NEW a \in 1..job[j].attempts, NEW r \in BOOLEAN, Fail(j, a, r)
      PROVE Goal
  <2>1. i # j => job'[i] = job[i]
    BY <1>0, <1>6 DEF Fail
  <2>2. i = j => job'[i].attempts = job[i].attempts /\ job'[i].owner = NoWorker
    BY <1>0, <1>6 DEF Fail, Job
  <2> QED BY <1>0, <2>1, <2>2
<1>7. ASSUME UNCHANGED job PROVE Goal
  BY <1>0, <1>7
<1>8. ASSUME NEW j \in Jobs, BackoffElapses(j) \/ LeaseExpires(j) PROVE Goal
  BY <1>0, <1>8 DEF BackoffElapses, LeaseExpires, Job
<1> QED
  BY <1>1, <1>2, <1>3, <1>4, <1>5, <1>6, <1>7, <1>8
     DEF QueueNext, CallOn, Stop, Resume, queueVars

(***************************************************************************)
(* Calls a task makes are calls the queue offers.                          *)
(***************************************************************************)
LEMMA TaskCalls ==
  ASSUME WorkerInv, NEW s \in Slots, Busy(s)
  PROVE  /\ task[s].job \in Jobs
         /\ task[s].attempt \in 1..job[task[s].job].attempts
         /\ WorkerOf[s] \in Workers
<1>1. task[s].job \in Jobs /\ task[s].attempt \in Nat \ {0} /\ WorkerOf[s] \in Workers
  BY WorkerAssumption DEF WorkerInv, SnapshotsTaken
<1>2. task[s].attempt <= job[task[s].job].attempts /\ job[task[s].job].attempts \in Nat
  BY <1>1 DEF WorkerInv, NewestSnapshotOwns, QueueInv, QueueTypeOK, Job
<1> QED BY <1>1, <1>2

(***************************************************************************)
(* Every step of the workers is a step of the queue or leaves it alone.    *)
(***************************************************************************)
LEMMA WorkerStepQueue == WorkerInv /\ [Next]_vars => [QueueNext]_queueVars
<1> SUFFICES ASSUME WorkerInv, [Next]_vars PROVE QueueNext \/ UNCHANGED queueVars
  OBVIOUS
<1>1. CASE Environment
  BY <1>1 DEF Environment, QueueNext
<1>2. ASSUME NEW s \in Slots, NEW j \in Jobs, ClaimJob(s, j) PROVE QueueNext
  BY <1>2, WorkerAssumption DEF ClaimJob, QueueNext
<1>3. ASSUME NEW s \in Slots, TaskStep(s) \/ HeartbeatTurn(s) \/ TaskMishap(s), Busy(s)
      PROVE  QueueNext \/ UNCHANGED queueVars
  <2> DEFINE j == task[s].job
             a == task[s].attempt
  <2>1. j \in Jobs /\ a \in 1..job[j].attempts /\ WorkerOf[s] \in Workers
    BY <1>3, TaskCalls
  <2>2. (task[s].error = "transient") \in BOOLEAN
    OBVIOUS
  <2>3. \/ UNCHANGED queueVars
        \/ Heartbeat(j, WorkerOf[s])
        \/ ReserveGranted(j)
        \/ Complete(j, a)
        \/ Fail(j, a, task[s].error = "transient")
    BY <1>3 DEF TaskStep, TaskMishap, ReserveCost, FirstHeartbeat, HandlerReturns, HandlerRaises,
                CompleteJob, Settle, FailJob, HeartbeatTurn, HeartbeatError, DatabaseError,
                CommitUnacknowledged, ReserveRefused, CompleteRefused
  <2> HIDE DEF j, a
  <2>4. CallOn(j) \/ UNCHANGED queueVars
    BY <2>1, <2>2, <2>3 DEF CallOn
  <2> QED BY <2>1, <2>4 DEF QueueNext
<1>4. ASSUME NEW s \in Slots, TaskStep(s) \/ HeartbeatTurn(s) \/ TaskMishap(s), ~Busy(s)
      PROVE  QueueNext \/ UNCHANGED queueVars
  BY <1>4 DEF Busy, TaskStep, TaskMishap, ReserveCost, FirstHeartbeat, HandlerReturns,
              HandlerRaises, CompleteJob, Settle, FailJob, HeartbeatTurn, HeartbeatError,
              DatabaseError, CommitUnacknowledged, WorkerInv, SnapshotsTaken
<1>5. ASSUME NEW w \in Workers, Crash(w) PROVE UNCHANGED queueVars
  BY <1>5 DEF Crash
<1>6. ASSUME NEW j \in Jobs, LeaseRunsOut(j) PROVE QueueNext
  BY <1>6 DEF LeaseRunsOut, QueueNext
<1>7. CASE UNCHANGED vars
  BY <1>7 DEF vars, queueVars
<1> QED BY <1>1, <1>2, <1>3, <1>4, <1>5, <1>6, <1>7 DEF Next

-----------------------------------------------------------------------------
(***************************************************************************)
(* What a step does to a slot: it claims, or it becomes idle, or it keeps  *)
(* its job and its snapshot.                                               *)
(***************************************************************************)
Claims(s) ==
  /\ task'[s].pc # "idle"
  /\ task'[s].job \in Jobs
  /\ task'[s].attempt = job[task'[s].job].attempts + 1
  /\ job'[task'[s].job].attempts = task'[s].attempt
  /\ job'[task'[s].job].owner = WorkerOf[s]

Goes(s) == task'[s].pc = "idle" /\ task'[s].beat = "off"

Keeps(s) ==
  \/ task'[s] = task[s]
  \/ /\ task[s].pc # "idle" /\ task'[s].pc # "idle"
     /\ task'[s].job = task[s].job
     /\ task'[s].attempt = task[s].attempt

LEMMA SlotStep ==
  ASSUME WorkerInv, [Next]_vars
  PROVE  /\ task' \in [Slots -> Task]
         /\ \A t \in Slots : Claims(t) \/ Goes(t) \/ Keeps(t)
<1> DEFINE Goal == /\ task' \in [Slots -> Task]
                   /\ \A t \in Slots : Claims(t) \/ Goes(t) \/ Keeps(t)
<1>0. /\ task \in [Slots -> Task] /\ job \in [Jobs -> Job]
      /\ IdleTask \in Task /\ IdleTask.pc = "idle" /\ IdleTask.beat = "off"
  BY DEF WorkerInv, TypeOK, QueueTypeOK, IdleTask, Task, Pc, Errors
<1>1. ASSUME UNCHANGED task PROVE Goal
  BY <1>0, <1>1 DEF Keeps
<1>2. ASSUME NEW s \in Slots, NEW j \in Jobs, ClaimJob(s, j) PROVE Goal
  <2> DEFINE row == [pc |-> "reserve", job |-> j, attempt |-> job'[j].attempts,
                     error |-> "none", beat |-> "off"]
  <2>1. /\ job'[j].attempts = job[j].attempts + 1 /\ job'[j].owner = WorkerOf[s]
        /\ job[j].attempts \in Nat
    BY <1>0, <1>2 DEF ClaimJob, Claim, NextAttempt, Job
  <2>2. row \in Task /\ row.job = j /\ row.attempt = job'[j].attempts /\ row.pc # "idle"
    BY <2>1 DEF Task, Pc, Errors
  <2>3. task' = [task EXCEPT ![s] = row]
    BY <1>2 DEF ClaimJob
  <2> HIDE DEF row
  <2>4. task'[s] = row /\ \A t \in Slots \ {s} : task'[t] = task[t]
    BY <1>0, <2>3
  <2>5. Claims(s)
    BY <2>1, <2>2, <2>4 DEF Claims
  <2> QED BY <1>0, <2>2, <2>3, <2>4, <2>5 DEF Keeps
<1>3. ASSUME NEW s \in Slots, Busy(s), NEW p \in Pc \ {"idle"}, NEW e \in Errors,
             NEW b \in {"off", "alive", "dead"},
             task' = [task EXCEPT ![s] = [task[s] EXCEPT !.pc = p, !.error = e, !.beat = b]]
      PROVE  Goal
  BY <1>0, <1>3 DEF Keeps, Busy, Task
<1>4. ASSUME NEW s \in Slots, task' = [task EXCEPT ![s] = IdleTask] PROVE Goal
  BY <1>0, <1>4 DEF Goes, Keeps
<1>5. ASSUME NEW s \in Slots, TaskStep(s) \/ HeartbeatTurn(s) \/ TaskMishap(s) PROVE Goal
  <2> DEFINE Moved(p, e, b) ==
        task' = [task EXCEPT ![s] = [task[s] EXCEPT !.pc = p, !.error = e, !.beat = b]]
  <2>1. /\ task[s] \in Task /\ task[s].error \in Errors /\ task[s].pc \in Pc
        /\ task[s].beat \in {"off", "alive", "dead"}
    BY <1>0 DEF Task
  <2>2. ASSUME NEW p \in Pc, Goto(s, p) PROVE Moved(p, task[s].error, task[s].beat)
    BY <1>0, <2>1, <2>2 DEF Goto, Task
  <2>3. ASSUME NEW e \in Errors, Raise(s, e) PROVE Moved("fail", e, task[s].beat)
    BY <1>0, <2>1, <2>3 DEF Raise, Task
  <2>4. ASSUME NEW p \in Pc, NEW b \in {"alive", "dead"},
               task' = [task EXCEPT ![s].pc = p, ![s].beat = b]
        PROVE  Moved(p, task[s].error, b)
    BY <1>0, <2>1, <2>4 DEF Task
  <2>5. ASSUME task' = [task EXCEPT ![s].beat = "dead"]
        PROVE  Moved(task[s].pc, task[s].error, "dead")
    BY <1>0, <2>1, <2>5 DEF Task
  <2>6. Busy(s)
    BY <1>5 DEF Busy, TaskStep, TaskMishap, ReserveCost, FirstHeartbeat, HandlerReturns,
                HandlerRaises, CompleteJob, Settle, FailJob, HeartbeatTurn, HeartbeatError,
                DatabaseError, CommitUnacknowledged, WorkerInv, SnapshotsTaken
  <2>7. \/ UNCHANGED task
        \/ task' = [task EXCEPT ![s] = IdleTask]
        \/ \E p \in Pc \ {"idle"} : Goto(s, p)
        \/ \E e \in Errors : Raise(s, e)
        \/ task' = [task EXCEPT ![s].pc = "handle", ![s].beat = "alive"]
        \/ task' = [task EXCEPT ![s].beat = "dead"]
    BY <1>5, <2>6
       DEF TaskStep, TaskMishap, ReserveCost, FirstHeartbeat, HandlerReturns, HandlerRaises,
           CompleteJob, Settle, FailJob, HeartbeatTurn, HeartbeatError, DatabaseError,
           CommitUnacknowledged, Pc, Errors
  <2>8. \A p \in Pc \ {"idle"}, e \in Errors, b \in {"off", "alive", "dead"} :
          Moved(p, e, b) => Goal
    BY <1>3, <2>6
  <2>9. task[s].pc \in Pc \ {"idle"} /\ {"fail", "handle"} \subseteq Pc \ {"idle"}
    BY <2>1, <2>6 DEF Busy, Pc
  <2> HIDE DEF Moved, Goal
  <2>10. CASE \E p \in Pc \ {"idle"} : Goto(s, p)
    BY <2>1, <2>2, <2>8, <2>10
  <2>11. CASE \E e \in Errors : Raise(s, e)
    BY <2>1, <2>3, <2>8, <2>9, <2>11
  <2> QED BY <1>1, <1>4, <2>1, <2>4, <2>5, <2>7, <2>8, <2>9, <2>10, <2>11
<1>6. ASSUME NEW w \in Workers, Crash(w) PROVE Goal
  BY <1>0, <1>6 DEF Crash, Goes, Keeps
<1> QED
  BY <1>1, <1>2, <1>5, <1>6 DEF Next, Environment, LeaseRunsOut, vars

-----------------------------------------------------------------------------
LEMMA WorkerInitInv == Init => WorkerInv
<1> SUFFICES ASSUME Init PROVE WorkerInv
  OBVIOUS
<1>1. QueueInv
  BY QueueInitInv DEF Init
<1>2. IdleTask \in Task /\ IdleTask.pc = "idle" /\ IdleTask.beat = "off"
  BY DEF IdleTask, Task, Pc, Errors
<1> QED
  BY <1>1, <1>2
     DEF Init, WorkerInv, QueueInv, TypeOK, SnapshotsTaken, NewestSnapshotOwns, Busy

LEMMA WorkerStepInv == WorkerInv /\ [Next]_vars => WorkerInv'
<1> SUFFICES ASSUME WorkerInv, [Next]_vars PROVE WorkerInv'
  OBVIOUS
<1>1. [QueueNext]_queueVars
  BY WorkerStepQueue
<1>2. QueueInv'
  BY <1>1, QueueStepType, QueueStepSpent, QueueStepRows DEF WorkerInv, QueueInv
<1>3. mishaps' \in Nat
  <2>0. mishaps \in Nat /\ (Mishap => mishaps' \in Nat)
    BY DEF WorkerInv, TypeOK, Mishap
  <2>1. ASSUME NEW s \in Slots, TaskStep(s) \/ HeartbeatTurn(s) \/ TaskMishap(s)
        PROVE  Mishap \/ UNCHANGED mishaps
    BY <2>1 DEF TaskStep, TaskMishap, ReserveCost, FirstHeartbeat, HandlerReturns, HandlerRaises,
                CompleteJob, Settle, FailJob, HeartbeatTurn, HeartbeatError, DatabaseError,
                CommitUnacknowledged
  <2>2. ASSUME NEW s \in Slots, NEW j \in Jobs, ClaimJob(s, j) PROVE UNCHANGED mishaps
    BY <2>2 DEF ClaimJob
  <2>3. ASSUME NEW w \in Workers, Crash(w) PROVE Mishap
    BY <2>3 DEF Crash
  <2> QED BY <2>0, <2>1, <2>2, <2>3 DEF Next, Environment, LeaseRunsOut, vars
<1>4. TypeOK'
  BY <1>2, <1>3, SlotStep DEF QueueInv, TypeOK
<1>5. ASSUME NEW s \in Slots
      PROVE  /\ Busy(s)' => /\ task'[s].job \in Jobs /\ task'[s].attempt \in Nat \ {0}
                            /\ task'[s].attempt <= job'[task'[s].job].attempts
                            /\ task'[s].attempt = job'[task'[s].job].attempts
                                 => job'[task'[s].job].owner \in {WorkerOf[s], NoWorker}
             /\ ~Busy(s)' => task'[s].beat = "off"
  <2>0. \A j \in Jobs : job[j].attempts \in Nat /\ job'[j].attempts \in Nat
    BY <1>2 DEF WorkerInv, QueueInv, QueueTypeOK, Job
  <2>1. CASE Claims(s)
    BY <2>0, <2>1 DEF Claims, Busy
  <2>2. CASE Goes(s)
    BY <2>2 DEF Goes, Busy
  <2>3. CASE Keeps(s) /\ Busy(s)
    <3> DEFINE j == task[s].job
    <3>1. /\ j \in Jobs /\ task[s].attempt \in Nat \ {0}
          /\ task[s].attempt <= job[j].attempts
          /\ task[s].attempt = job[j].attempts => job[j].owner \in {WorkerOf[s], NoWorker}
      BY <2>3 DEF WorkerInv, SnapshotsTaken, NewestSnapshotOwns
    <3>2. /\ job[j].attempts <= job'[j].attempts
          /\ job'[j].attempts = job[j].attempts => job'[j].owner \in {job[j].owner, NoWorker}
      BY <1>1, <3>1, RowsAdvance DEF WorkerInv
    <3>3. task'[s].job = j /\ task'[s].attempt = task[s].attempt /\ Busy(s)'
      BY <2>3 DEF Keeps, Busy
    <3> HIDE DEF j
    <3> QED BY <2>0, <3>1, <3>2, <3>3
  <2>4. CASE Keeps(s) /\ ~Busy(s)
    BY <2>4 DEF Keeps, Busy, WorkerInv, SnapshotsTaken
  <2> QED BY <2>1, <2>2, <2>3, <2>4, SlotStep
<1>6. SnapshotsTaken' /\ NewestSnapshotOwns'
  BY <1>5 DEF SnapshotsTaken, NewestSnapshotOwns
<1> QED BY <1>2, <1>4, <1>6 DEF WorkerInv

THEOREM WorkerInvariant == Spec => []WorkerInv
<1> QED BY WorkerInitInv, WorkerStepInv, PTL DEF Spec

(***************************************************************************)
(* The tables and the tasks keep their types (models.py 199-251).          *)
(***************************************************************************)
THEOREM WorkerTypeOK == Spec => []TypeOK
<1>1. WorkerInv => TypeOK
  BY DEF WorkerInv
<1> QED BY <1>1, WorkerInvariant, PTL

(***************************************************************************)
(* A task whose snapshot is the newest owns its row until a fail clears    *)
(* it, however many tasks of however many workers hold older snapshots     *)
(* (queue.py 278-281, worker.py 256-294).                                  *)
(***************************************************************************)
THEOREM WorkerNewestSnapshotOwns == Spec => []NewestSnapshotOwns
<1>1. WorkerInv => NewestSnapshotOwns
  BY DEF WorkerInv
<1> QED BY <1>1, WorkerInvariant, PTL

(***************************************************************************)
(* The workers use the queue as QueueSpec lets its callers use it.         *)
(***************************************************************************)
THEOREM WorkerImplementsQueue == Spec => QueueSpec
<1>1. Init => QueueInit
  BY DEF Init
<1> QED BY <1>1, WorkerStepQueue, WorkerInvariant, PTL DEF Spec, QueueSpec

(***************************************************************************)
(* With crashes, database errors, expired leases and stale tasks, no       *)
(* completion charges past the ceiling (queue.py 381-385).                 *)
(***************************************************************************)
THEOREM WorkerSpentWithinCeiling == Spec => []SpentWithinCeiling
<1> QED BY WorkerImplementsQueue, QueueSpentWithinCeiling, PTL

(***************************************************************************)
(* No worker ever leaves a row SUCCEEDED without its result.               *)
(***************************************************************************)
THEOREM WorkerSuccessHasResult == Spec => []SuccessHasResult
<1> QED BY WorkerImplementsQueue, QueueSuccessHasResult, PTL

(***************************************************************************)
(* Whatever goes wrong with a worker, its row can be claimed again.        *)
(***************************************************************************)
THEOREM WorkerLeasedHasLease == Spec => []LeasedHasLease
<1> QED BY WorkerImplementsQueue, QueueLeasedHasLease, PTL

(***************************************************************************)
(* Crashes, lost answers and outdated tasks leave the books balanced.      *)
(***************************************************************************)
THEOREM WorkerBooksBalance == Spec => []BooksBalance
<1> QED BY WorkerImplementsQueue, QueueBooksBalance, PTL

(***************************************************************************)
(* Late and outdated tasks leave the rows sound.                           *)
(***************************************************************************)
THEOREM WorkerRowsSound == Spec => []RowsSound
<1>1. SuccessHasResult /\ LeasedHasLease /\ NewestSnapshotOwns => RowsSound
  BY DEF RowsSound
<1> QED BY <1>1, WorkerSuccessHasResult, WorkerLeasedHasLease, WorkerNewestSnapshotOwns, PTL

(***************************************************************************)
(* A stale task that completes late does not replace the stored result.    *)
(***************************************************************************)
THEOREM WorkerResultsKept == Spec => ResultsKept
<1> QED BY WorkerImplementsQueue, QueueResultsKept, PTL

(***************************************************************************)
(* Tasks in flight when the experiment is stopped record nothing.          *)
(***************************************************************************)
THEOREM WorkerStoppedStaysQuiet == Spec => StoppedStaysQuiet
<1> QED BY WorkerImplementsQueue, QueueStoppedStaysQuiet, PTL

(***************************************************************************)
(* Workers and queue together implement the session ledger.                *)
(***************************************************************************)
THEOREM WorkerImplementsLedger == Spec => LedgerSpec
<1> QED BY WorkerImplementsQueue, QueueImplementsLedger, PTL

-----------------------------------------------------------------------------
(***************************************************************************)
(* What the lease gives while nothing has gone wrong: a busy slot holds a  *)
(* live lease on its row until the row is SUCCEEDED or failed.             *)
(***************************************************************************)
Holds(s) ==
  IF task[s].pc = "settle"
  THEN job[task[s].job].status = "SUCCEEDED"
  ELSE /\ Leased(task[s].job) /\ Owns(task[s].job, WorkerOf[s])
       /\ job[task[s].job].lease = "live" /\ task[s].beat # "dead"

AllHold == \A s \in Slots : Busy(s) => Holds(s)
AllApart == \A s, t \in Slots : s # t /\ Busy(s) /\ Busy(t) => task[s].job # task[t].job

LoneInv == HeartbeatsTimely /\ mishaps = 0 => AllHold /\ AllApart

(***************************************************************************)
(* A slot that works on its own row, or ends, leaves the others alone.     *)
(***************************************************************************)
LEMMA LoneSlot ==
  ASSUME WorkerInv, AllHold, AllApart, NEW s \in Slots, Busy(s),
         \A t \in Slots \ {s} : task'[t] = task[t],
         \A i \in Jobs \ {task[s].job} : job'[i] = job[i],
         Busy(s)' => task'[s].job = task[s].job /\ Holds(s)'
  PROVE  AllHold' /\ AllApart'
<1>1. ASSUME NEW t \in Slots \ {s}, Busy(t)'
      PROVE  Holds(t)' /\ task'[t].job # task[s].job /\ Busy(t)
  <2>1. Busy(t) /\ task[t].job \in Jobs \ {task[s].job} /\ Holds(t)
    BY <1>1 DEF Busy, WorkerInv, SnapshotsTaken, AllHold, AllApart
  <2>2. task'[t] = task[t] /\ job'[task[t].job] = job[task[t].job]
    BY <2>1
  <2> QED BY <2>1, <2>2 DEF Holds, Leased, Owns
<1>2. AllHold'
  BY <1>1 DEF AllHold
<1>3. ASSUME NEW t \in Slots, NEW u \in Slots, t # u, Busy(t)', Busy(u)'
      PROVE  task'[t].job # task'[u].job
  <2>1. CASE t = s
    BY <1>1, <1>3, <2>1
  <2>2. CASE u = s
    BY <1>1, <1>3, <2>2
  <2>3. CASE t # s /\ u # s
    BY <1>1, <1>3, <2>3 DEF AllApart
  <2> QED BY <2>1, <2>2, <2>3
<1> QED BY <1>2, <1>3 DEF AllApart

LEMMA LoneTask ==
  ASSUME WorkerInv, AllHold, AllApart, NEW s \in Slots, TaskStep(s) \/ HeartbeatTurn(s), ~Mishap
  PROVE  AllHold' /\ AllApart'
<1> DEFINE j == task[s].job
<1>0. task \in [Slots -> Task] /\ job \in [Jobs -> Job]
  BY DEF WorkerInv, TypeOK, QueueTypeOK
<1>1. Busy(s) /\ j \in Jobs /\ Holds(s)
  BY DEF Busy, TaskStep, ReserveCost, FirstHeartbeat, HandlerReturns, HandlerRaises, CompleteJob,
         Settle, FailJob, HeartbeatTurn, WorkerInv, SnapshotsTaken, AllHold
<1>2. task[s] \in Task /\ job[j] \in Job
  BY <1>0, <1>1
<1> DEFINE Stays(p) == /\ \A t \in Slots \ {s} : task'[t] = task[t]
                      /\ task'[s].job = j /\ task'[s].pc = p /\ task'[s].beat = task[s].beat
           Row == job'[j].status = job[j].status /\ job'[j].owner = job[j].owner
                    /\ job'[j].lease = job[j].lease
           Rest == \A i \in Jobs \ {j} : job'[i] = job[i]
           Goal == AllHold' /\ AllApart'
<1> SUFFICES Goal
  OBVIOUS
<1>3. \A p : Goto(s, p) => Stays(p)
  BY <1>0, <1>2 DEF Goto, Task
<1>4. \A e : Raise(s, e) => Stays("fail")
  BY <1>0, <1>2 DEF Raise, Task
<1>5. UNCHANGED queueVars => Row /\ Rest
  BY DEF queueVars
<1>6. ReserveGranted(j) => Row /\ Rest
  BY <1>0, <1>1, <1>2 DEF ReserveGranted, Job
<1>7. ASSUME NEW w, Heartbeat(j, w)
      PROVE  /\ job'[j].status = "RUNNING" /\ job'[j].owner = job[j].owner
             /\ job'[j].lease = "live" /\ Rest
  BY <1>0, <1>1, <1>2, <1>7 DEF Heartbeat, Job
<1>8. ASSUME NEW p \in Pc \ {"settle"}, Stays(p), task[s].pc # "settle", Row, Rest
      PROVE  Goal
  <2>1. Holds(s)'
    BY <1>1, <1>8 DEF Holds, Leased, Owns
  <2> QED BY <1>1, <1>8, <2>1, LoneSlot
<1>9. ASSUME task' = [task EXCEPT ![s] = IdleTask], Rest
      PROVE  Goal
  <2>1. ~Busy(s)' /\ \A t \in Slots \ {s} : task'[t] = task[t]
    BY <1>0, <1>9 DEF Busy, IdleTask
  <2> QED BY <1>1, <1>9, <2>1, LoneSlot
<1>10. ASSUME Heartbeat(j, WorkerOf[s]), task[s].pc # "settle",
              \A t \in Slots \ {s} : task'[t] = task[t], task'[s].job = j,
              task'[s].pc # "settle", task'[s].beat # "dead"
       PROVE  Goal
  <2>1. Holds(s)'
    BY <1>1, <1>7, <1>10 DEF Holds, Leased, Owns
  <2> QED BY <1>1, <1>7, <1>10, <2>1, LoneSlot
<1> HIDE DEF Goal, Stays, Row, Rest
<1>11. CASE ReserveCost(s)
  BY <1>3, <1>4, <1>5, <1>6, <1>8, <1>11 DEF ReserveCost, ReserveRefused, Pc
<1>12. CASE FirstHeartbeat(s)
  <2>1. Heartbeat(j, WorkerOf[s]) /\ task' = [task EXCEPT ![s].pc = "handle", ![s].beat = "alive"]
    BY <1>1, <1>12 DEF FirstHeartbeat, Holds
  <2>2. /\ \A t \in Slots \ {s} : task'[t] = task[t]
        /\ task'[s].job = j /\ task'[s].pc = "handle" /\ task'[s].beat = "alive"
    BY <1>0, <1>2, <2>1 DEF Task
  <2>3. task[s].pc # "settle"
    BY <1>12 DEF FirstHeartbeat
  <2> QED BY <1>10, <2>1, <2>2, <2>3
<1>13. CASE HandlerReturns(s) \/ HandlerRaises(s)
  BY <1>3, <1>4, <1>5, <1>8, <1>13 DEF HandlerReturns, HandlerRaises, Pc
<1>14. CASE CompleteJob(s)
  <2>1. CASE Complete(j, task[s].attempt) /\ Goto(s, "settle")
    <3>1. job'[j].status = "SUCCEEDED" /\ \A i \in Jobs \ {j} : job'[i] = job[i]
      BY <1>0, <1>1, <1>2, <2>1 DEF Complete, Job
    <3>2. Stays("settle")
      BY <1>3, <2>1
    <3>3. Holds(s)'
      BY <3>1, <3>2 DEF Holds, Stays
    <3> QED BY <1>1, <3>1, <3>2, <3>3, LoneSlot DEF Stays, Goal
  <2>2. CASE CompleteRefused(j) /\ \E e : Raise(s, e)
    BY <1>4, <1>5, <1>8, <1>14, <2>2 DEF CompleteRefused, CompleteJob, Pc
  <2> QED BY <1>14, <2>1, <2>2 DEF CompleteJob
<1>15. CASE Settle(s)
  BY <1>5, <1>9, <1>15 DEF Settle
<1>16. CASE FailJob(s)
  <2>1. Rest
    BY <1>0, <1>1, <1>16 DEF FailJob, Fail, Rest
  <2> QED BY <1>9, <1>16, <2>1 DEF FailJob
<1>17. CASE HeartbeatTurn(s)
  <2>1. task[s].pc # "settle" /\ Heartbeat(j, WorkerOf[s]) /\ UNCHANGED task
    BY <1>1, <1>17 DEF HeartbeatTurn, Holds
  <2> QED BY <1>1, <1>10, <2>1 DEF Holds
<1>18. Goal
  BY <1>11, <1>12, <1>13, <1>14, <1>15, <1>16, <1>17 DEF TaskStep
<1> QED BY <1>18 DEF Goal

(***************************************************************************)
(* Mishaps are only ever counted up.                                       *)
(***************************************************************************)
LEMMA LoneFromStart ==
  ASSUME WorkerInv, [Next]_vars, mishaps' = 0
  PROVE  mishaps = 0
<1>0. mishaps \in Nat /\ ~Mishap
  BY DEF WorkerInv, TypeOK, Mishap
<1>1. ASSUME NEW s \in Slots, TaskStep(s) \/ HeartbeatTurn(s) \/ TaskMishap(s)
      PROVE  UNCHANGED mishaps
  BY <1>0, <1>1 DEF TaskStep, TaskMishap, ReserveCost, FirstHeartbeat, HandlerReturns,
     HandlerRaises, CompleteJob, Settle, FailJob, HeartbeatTurn, HeartbeatError, DatabaseError,
     CommitUnacknowledged
<1>2. ASSUME NEW s \in Slots, NEW j \in Jobs, ClaimJob(s, j) PROVE UNCHANGED mishaps
  BY <1>2 DEF ClaimJob
<1>3. ASSUME NEW w \in Workers, Crash(w) PROVE UNCHANGED mishaps
  BY <1>0, <1>3 DEF Crash
<1> QED BY <1>1, <1>2, <1>3 DEF Next, Environment, LeaseRunsOut, vars

LEMMA LoneNext == WorkerInv /\ LoneInv /\ [Next]_vars => LoneInv'
<1> SUFFICES ASSUME WorkerInv, LoneInv, [Next]_vars, HeartbeatsTimely, mishaps' = 0
             PROVE  AllHold' /\ AllApart'
  BY DEF LoneInv
<1>0. mishaps \in Nat /\ ~Mishap
  BY DEF WorkerInv, TypeOK, Mishap
<1>1. mishaps = 0
  BY LoneFromStart
<1>2. AllHold /\ AllApart
  BY <1>1 DEF LoneInv
<1>3. task \in [Slots -> Task] /\ job \in [Jobs -> Job]
  BY DEF WorkerInv, TypeOK, QueueTypeOK
<1>4. ASSUME UNCHANGED task,
             \A s \in Slots : Busy(s) =>
               /\ job'[task[s].job].status = job[task[s].job].status
               /\ job'[task[s].job].owner = job[task[s].job].owner
               /\ job'[task[s].job].lease = job[task[s].job].lease
      PROVE  AllHold' /\ AllApart'
  BY <1>2, <1>4 DEF AllHold, AllApart, Busy, Holds, Leased, Owns
<1>5. ASSUME NEW s \in Slots, Busy(s)
      PROVE  /\ task[s].job \in Jobs
             /\ job[task[s].job].status \in {"LEASED", "RUNNING", "SUCCEEDED"}
             /\ Leased(task[s].job) => Kept(task[s].job) /\ job[task[s].job].lease = "live"
  BY <1>2, <1>5 DEF WorkerInv, SnapshotsTaken, AllHold, Holds, Leased, Kept
<1>6. CASE Environment
  <2>1. ASSUME NEW i \in Jobs, job[i].status \in {"LEASED", "RUNNING", "SUCCEEDED"}
        PROVE  job'[i] = job[i]
    BY <1>3, <1>6, <2>1 DEF Environment, Schedule, Stop, Resume, BackoffElapses
  <2> QED BY <1>4, <1>5, <1>6, <2>1 DEF Environment
<1>7. ASSUME NEW j \in Jobs, LeaseRunsOut(j) PROVE AllHold' /\ AllApart'
  <2>1. ASSUME NEW s \in Slots, Busy(s) PROVE task[s].job # j
    BY <1>5, <1>7, <2>1 DEF LeaseRunsOut, LeaseExpires
  <2>2. \A i \in Jobs \ {j} : job'[i] = job[i]
    BY <1>3, <1>7 DEF LeaseRunsOut, LeaseExpires
  <2> QED BY <1>4, <1>5, <1>7, <2>1, <2>2 DEF LeaseRunsOut
<1>8. ASSUME NEW s \in Slots, NEW j \in Jobs, ClaimJob(s, j) PROVE AllHold' /\ AllApart'
  <2> DEFINE row == [pc |-> "reserve", job |-> j, attempt |-> job'[j].attempts,
                     error |-> "none", beat |-> "off"]
  <2>1. row.pc = "reserve" /\ row.job = j /\ row.beat = "off"
    OBVIOUS
  <2>2. task' = [task EXCEPT ![s] = row] /\ Claimable(j) /\ ~Busy(s)
    BY <1>8 DEF ClaimJob, Claim, Busy
  <2> HIDE DEF row
  <2>3. task'[s] = row /\ \A t \in Slots \ {s} : task'[t] = task[t]
    BY <1>3, <2>2
  <2>4. /\ job'[j].status = "LEASED" /\ job'[j].owner = WorkerOf[s] /\ job'[j].lease = "live"
        /\ \A i \in Jobs \ {j} : job'[i] = job[i]
    BY <1>3, <1>8 DEF ClaimJob, Claim, Job
  <2>5. ASSUME NEW t \in Slots, Busy(t) PROVE task[t].job \in Jobs \ {j}
    BY <1>5, <2>2, <2>5 DEF Claimable, Waiting, Leased
  <2>6. ASSUME NEW t \in Slots \ {s}, Busy(t)'
        PROVE  Busy(t) /\ task'[t].job = task[t].job /\ task'[t].job # j /\ Holds(t)'
    <3>1. Busy(t) /\ task'[t] = task[t]
      BY <2>3, <2>6 DEF Busy
    <3>2. Holds(t) /\ job'[task[t].job] = job[task[t].job] /\ task[t].job # j
      BY <1>2, <2>4, <2>5, <3>1 DEF AllHold
    <3> QED BY <3>1, <3>2 DEF Holds, Leased, Owns
  <2>7. Holds(s)' /\ task'[s].job = j
    BY <2>1, <2>3, <2>4 DEF Holds, Leased, Owns
  <2>8. AllHold'
    BY <2>6, <2>7 DEF AllHold
  <2>9. ASSUME NEW t \in Slots, NEW u \in Slots, t # u, Busy(t)', Busy(u)'
        PROVE  task'[t].job # task'[u].job
    BY <1>2, <2>6, <2>7, <2>9 DEF AllApart
  <2> QED BY <2>8, <2>9 DEF AllApart
<1>9. ASSUME NEW s \in Slots, TaskMishap(s) PROVE FALSE
  BY <1>0, <1>9 DEF TaskMishap, HeartbeatError, DatabaseError, CommitUnacknowledged
<1>10. ASSUME NEW w \in Workers, Crash(w) PROVE FALSE
  BY <1>0, <1>10 DEF Crash
<1>11. ASSUME NEW s \in Slots, TaskStep(s) \/ HeartbeatTurn(s) PROVE AllHold' /\ AllApart'
  BY <1>0, <1>2, <1>11, LoneTask
<1>12. CASE UNCHANGED vars
  BY <1>4, <1>12 DEF vars
<1> QED BY <1>6, <1>7, <1>8, <1>9, <1>10, <1>11, <1>12 DEF Next

(***************************************************************************)
(* Two tasks never work on one job as long as no crash, database error or  *)
(* late beat happens and heartbeats are timely, for any number of workers, *)
(* slots and jobs (queue.py 271-282, worker.py 256-266).                   *)
(***************************************************************************)
THEOREM WorkerOneTaskPerJob == Spec => []OneTaskPerJob
<1>1. Init => LoneInv
  BY DEF Init, LoneInv, AllHold, AllApart, Busy, IdleTask
<1>2. LoneInv => OneTaskPerJob
  BY DEF LoneInv, AllApart, OneTaskPerJob
<1> QED BY <1>1, <1>2, LoneNext, WorkerInvariant, PTL DEF Spec

(***************************************************************************)
(* When a completed session is not run again: without mishaps and with     *)
(* timely heartbeats, since the lease lets no second task near the row     *)
(* (queue.py 271-282, 318-327).  SucceededIsFinal, which drops the         *)
(* premise, does not hold.                                                 *)
(***************************************************************************)
SucceededStays ==
  HeartbeatsTimely /\ mishaps' = 0 =>
    \A j \in Jobs : job[j].status = "SUCCEEDED" => job'[j].status = "SUCCEEDED"

(***************************************************************************)
(* While nothing has gone wrong a task that has not completed yet holds a  *)
(* leased row, so no step of it takes SUCCEEDED away.                      *)
(***************************************************************************)
LEMMA LoneStays == WorkerInv /\ LoneInv /\ [Next]_vars => SucceededStays
<1> SUFFICES ASSUME WorkerInv, LoneInv, [Next]_vars, HeartbeatsTimely, mishaps' = 0,
                    NEW j \in Jobs, job[j].status = "SUCCEEDED"
             PROVE  job'[j].status = "SUCCEEDED"
  BY DEF SucceededStays
<1>0. mishaps \in Nat /\ ~Mishap
  BY DEF WorkerInv, TypeOK, Mishap
<1>1. AllHold
  BY LoneFromStart DEF LoneInv
<1>2. job \in [Jobs -> Job] /\ ~Claimable(j) /\ ~Leased(j)
  BY DEF WorkerInv, TypeOK, QueueTypeOK, Claimable, Waiting, Leased
<1>3. ASSUME NEW s \in Slots, Busy(s), task[s].pc # "settle"
      PROVE  task[s].job \in Jobs \ {j}
  BY <1>1, <1>2, <1>3 DEF AllHold, Holds, WorkerInv, SnapshotsTaken
<1>4. CASE Environment
  BY <1>2, <1>4 DEF Environment, Schedule, Stop, Resume, BackoffElapses
<1>5. ASSUME NEW s \in Slots, NEW i \in Jobs, ClaimJob(s, i)
      PROVE  job'[j] = job[j]
  BY <1>2, <1>5 DEF ClaimJob, Claim
<1>6. ASSUME NEW s \in Slots, TaskStep(s) \/ HeartbeatTurn(s)
      PROVE  job'[j] = job[j]
  <2>1. CASE Settle(s) \/ HandlerReturns(s) \/ HandlerRaises(s)
    BY <2>1 DEF Settle, HandlerReturns, HandlerRaises, queueVars
  <2>2. ASSUME ~Settle(s) PROVE Busy(s) /\ task[s].pc # "settle"
    BY <1>0, <1>6, <2>2 DEF TaskStep, Busy, ReserveCost, FirstHeartbeat, HandlerReturns,
       HandlerRaises, CompleteJob, FailJob, HeartbeatTurn, WorkerInv, SnapshotsTaken
  <2>3. CASE ~Settle(s)
    BY <1>2, <1>3, <1>6, <2>2, <2>3 DEF TaskStep, ReserveCost, FirstHeartbeat, HandlerReturns,
       HandlerRaises, CompleteJob, FailJob, HeartbeatTurn, ReserveGranted, ReserveRefused,
       Heartbeat, Complete, CompleteRefused, Fail, queueVars
  <2> QED BY <2>1, <2>3
<1>7. ASSUME NEW i \in Jobs, LeaseRunsOut(i)
      PROVE  job'[j] = job[j]
  BY <1>2, <1>7 DEF LeaseRunsOut, LeaseExpires
<1>8. ASSUME NEW s \in Slots, TaskMishap(s) PROVE FALSE
  BY <1>0, <1>8 DEF TaskMishap, HeartbeatError, DatabaseError, CommitUnacknowledged
<1>9. ASSUME NEW w \in Workers, Crash(w) PROVE FALSE
  BY <1>0, <1>9 DEF Crash
<1>10. CASE UNCHANGED vars
  BY <1>10 DEF vars
<1> QED BY <1>4, <1>5, <1>6, <1>7, <1>8, <1>9, <1>10 DEF Next

(***************************************************************************)
(* A completed session is not run again while nothing goes wrong, whatever *)
(* is stopped, resumed or scheduled meanwhile, for any number of workers,  *)
(* slots and jobs (queue.py 271-282, 318-327; docs/research_protocol.md    *)
(* 214).                                                                   *)
(***************************************************************************)
THEOREM WorkerSucceededStays == Spec => [][SucceededStays]_vars
<1>1. Init => LoneInv
  BY DEF Init, LoneInv, AllHold, AllApart, Busy, IdleTask
<1> QED BY <1>1, LoneNext, LoneStays, WorkerInvariant, PTL DEF Spec

(***************************************************************************)
(* With whole cents, what is spent is what the results are worth, and a    *)
(* key has a result exactly when its job is SUCCEEDED: every session is    *)
(* run to its end and charged once.  ResultsPaidFor keeps only the half of *)
(* it that mishaps leave (queue.py 369-401).                               *)
(***************************************************************************)
ChargedOnce ==
  HeartbeatsTimely /\ mishaps = 0 =>
    /\ \A j \in Jobs : session[j] # NoResult <=> job[j].status = "SUCCEEDED"
    /\ WholeCents => manifest.spent = WorthOfResults

(***************************************************************************)
(* Money is spent and results are stored only where a task completes.      *)
(***************************************************************************)
LEMMA OnlyCompleted ==
  ASSUME WorkerInv, [Next]_vars
  PROVE  \/ UNCHANGED session /\ manifest'.spent = manifest.spent
         \/ \E s \in Slots : /\ Busy(s) /\ task[s].pc = "complete"
                            /\ Complete(task[s].job, task[s].attempt)
<1> DEFINE Quiet == UNCHANGED session /\ manifest'.spent = manifest.spent
           Goal == Quiet \/ \E s \in Slots : /\ Busy(s) /\ task[s].pc = "complete"
                                          /\ Complete(task[s].job, task[s].attempt)
<1>0. manifest \in Manifest
  BY DEF WorkerInv, TypeOK, QueueTypeOK
<1>1. UNCHANGED queueVars => Quiet
  BY DEF queueVars
<1>2. ASSUME NEW j, ReserveGranted(j) \/ \E w : Heartbeat(j, w) PROVE Quiet
  BY <1>0, <1>2 DEF ReserveGranted, Heartbeat, Manifest
<1>3. ASSUME NEW j, NEW a, NEW r, Fail(j, a, r) PROVE Quiet
  BY <1>0, <1>3 DEF Fail, Released, Manifest
<1>4. CASE Environment
  BY <1>0, <1>4 DEF Environment, Schedule, Stop, Resume, BackoffElapses, Manifest
<1>5. ASSUME NEW s \in Slots, NEW j \in Jobs, ClaimJob(s, j) PROVE Quiet
  BY <1>5 DEF ClaimJob, Claim
<1>6. ASSUME NEW j \in Jobs, LeaseRunsOut(j) PROVE Quiet
  BY <1>6 DEF LeaseRunsOut, LeaseExpires
<1>7. ASSUME NEW w \in Workers, Crash(w) PROVE Quiet
  BY <1>1, <1>7 DEF Crash
<1>8. ASSUME NEW s \in Slots, TaskStep(s) \/ HeartbeatTurn(s) \/ TaskMishap(s) PROVE Goal
  <2> DEFINE Completes == /\ Busy(s) /\ task[s].pc = "complete"
                          /\ Complete(task[s].job, task[s].attempt)
  <2>1. ASSUME NEW j, Heartbeat(j, WorkerOf[s]) PROVE Quiet
    BY <1>2, <2>1
  <2> HIDE DEF Quiet
  <2>2. CASE ReserveCost(s) \/ FirstHeartbeat(s) \/ HandlerReturns(s) \/ HandlerRaises(s)
               \/ Settle(s) \/ FailJob(s) \/ HeartbeatTurn(s) \/ HeartbeatError(s)
               \/ DatabaseError(s)
    BY <1>1, <1>2, <1>3, <2>1, <2>2
       DEF ReserveCost, ReserveRefused, FirstHeartbeat, HandlerReturns, HandlerRaises, Settle,
           FailJob, HeartbeatTurn, HeartbeatError, DatabaseError
  <2>3. CASE CompleteJob(s) \/ CommitUnacknowledged(s)
    <3>1. Completes \/ Quiet
      BY <1>1, <1>2, <2>3 DEF CompleteJob, CommitUnacknowledged, CompleteRefused, Busy
    <3> QED BY <3>1
  <2> QED BY <1>8, <2>2, <2>3 DEF TaskStep, TaskMishap
<1>9. CASE UNCHANGED vars
  BY <1>9 DEF vars
<1> QED
  BY <1>4, <1>5, <1>6, <1>7, <1>8, <1>9 DEF Next

LEMMA OnceNext ==
  WorkerInv /\ WorkerInv' /\ LoneInv /\ ChargedOnce /\ SuccessHasResult' /\ [Next]_vars
    => ChargedOnce'
<1> SUFFICES ASSUME WorkerInv, WorkerInv', LoneInv, ChargedOnce, SuccessHasResult', [Next]_vars,
                    HeartbeatsTimely, mishaps' = 0
             PROVE  /\ \A j \in Jobs : session'[j] # NoResult <=> job'[j].status = "SUCCEEDED"
                    /\ WholeCents => manifest'.spent = WorthOfResults'
  BY DEF ChargedOnce, WholeCents
<1>1. mishaps = 0 /\ AllHold
  BY LoneFromStart DEF LoneInv
<1>2. /\ \A j \in Jobs : session[j] # NoResult => job[j].status = "SUCCEEDED"
      /\ WholeCents => manifest.spent = WorthOfResults
  BY <1>1 DEF ChargedOnce
<1>3. \A j \in Jobs : job[j].status = "SUCCEEDED" => job'[j].status = "SUCCEEDED"
  BY LoneStays DEF SucceededStays
<1>4. \A j \in Jobs : job'[j].status = "SUCCEEDED" => session'[j] # NoResult
  BY DEF SuccessHasResult
<1>5. CASE UNCHANGED session /\ manifest'.spent = manifest.spent
  <2>1. WorthOfResults' = WorthOfResults
    BY <1>5 DEF WorthOfResults
  <2> QED BY <1>2, <1>3, <1>4, <1>5, <2>1
<1>6. ASSUME NEW s \in Slots, Busy(s), task[s].pc = "complete",
             Complete(task[s].job, task[s].attempt)
      PROVE  /\ \A j \in Jobs : session'[j] # NoResult => job'[j].status = "SUCCEEDED"
             /\ WholeCents => manifest'.spent = WorthOfResults'
  <2>1. PICK j \in Jobs : j = task[s].job
    BY <1>6, TaskCalls
  <2>2. PICK a \in 1..job[j].attempts : a = task[s].attempt
    BY <1>6, <2>1, TaskCalls
  <2>3. Complete(j, a) /\ session[j] = NoResult
    <3>1. Leased(j)
      BY <1>1, <1>6, <2>1 DEF AllHold, Holds
    <3> QED BY <1>2, <1>6, <2>1, <2>2, <3>1 DEF Leased
  <2>4. QueueTypeOK /\ QueueTypeOK' /\ job[j].attempts \in Nat
    BY DEF WorkerInv, TypeOK, QueueTypeOK, Job
  <2>5. /\ job'[j].status = "SUCCEEDED" /\ session'[j] = a /\ a # NoResult
        /\ \A i \in Jobs \ {j} : session'[i] = session[i]
    BY <2>3, <2>4, QueueAssumption DEF Complete, StoredResult, QueueTypeOK, Job
  <2>6. WorthOfResults \in Int /\ WorthOfResults' = WorthOfResults + Estimate[j]
    BY <2>3, <2>4, <2>5, WorthMoves
  <2>7. ASSUME WholeCents PROVE manifest'.spent = manifest.spent + Estimate[j]
    <3>1. manifest \in Manifest /\ manifest.spent \in Cents /\ Estimate[j] \in Int
      BY <2>4, QueueAssumption DEF QueueTypeOK, Manifest
    <3>2. manifest'.spent = ToCents(manifest.spent + Estimate[j])
      BY <2>3, <3>1 DEF Complete, Charged, Manifest
    <3> QED BY <2>7, <3>1, <3>2, WholeLemma DEF WholeCents
  <2> QED BY <1>2, <1>3, <2>5, <2>6, <2>7
<1> QED BY <1>4, <1>5, <1>6, OnlyCompleted

(***************************************************************************)
(* Every session is charged once while nothing goes wrong: what is spent   *)
(* is the worth of the results, and only SUCCEEDED jobs have one, for any  *)
(* finite set of jobs with estimates in whole cents (queue.py 369-401).    *)
(***************************************************************************)
THEOREM WorkerChargedOnce == Spec => []ChargedOnce
<1>1. Init => LoneInv
  BY DEF Init, LoneInv, AllHold, AllApart, Busy, IdleTask
<1>2. Init => ChargedOnce
  <2> SUFFICES ASSUME Init PROVE ChargedOnce
    OBVIOUS
  <2> DEFINE g == [i \in Jobs |-> IF session[i] = NoResult THEN 0 ELSE Estimate[i]]
  <2>1. /\ g \in [Jobs -> Int] /\ \A j \in Jobs : g[j] = 0
        /\ manifest.spent = 0
        /\ \A j \in Jobs : session[j] = NoResult /\ job[j].status = "ABSENT"
    BY DEF Init, QueueInit
  <2>2. WorthOfResults = SumFunction(g)
    BY DEF WorthOfResults
  <2> HIDE DEF g
  <2>3. SumFunction(g) = 0
    BY <2>1, QueueAssumption, TotalZero
  <2> QED BY <2>1, <2>2, <2>3 DEF ChargedOnce
<1> QED
  BY <1>1, <1>2, LoneNext, OnceNext, WorkerInvariant, WorkerSuccessHasResult, PTL DEF Spec

-----------------------------------------------------------------------------
(***************************************************************************)
(* How many attempts a job can have, and what pays for them.  A claim is   *)
(* owed for a row that waits, and for a leased one that no task minds any  *)
(* more; the numbers of attempts that could still have been retried but    *)
(* whose task is gone are spent.                                           *)
(***************************************************************************)
Minds(s, j) ==
  /\ Busy(s) /\ task[s].pc # "settle" /\ task[s].job = j
  /\ task[s].beat # "dead" /\ Owns(j, WorkerOf[s])

Minded(j) == \E s \in Slots : Minds(s, j)
Stray(j) == Leased(j) /\ ~Minded(j)
Owed(j) == IF Waiting(j) \/ Stray(j) THEN 1 ELSE 0

Works(s, j, a) == Busy(s) /\ task[s].job = j /\ task[s].attempt = a
Gone(j) ==
  {a \in 1..(MaxAttempts - 1) : a <= job[j].attempts /\ \A s \in Slots : ~Works(s, j, a)}

Distinct ==
  \A s, t \in Slots :
    s # t /\ Busy(s) /\ Busy(t) /\ task[s].job = task[t].job => task[s].attempt # task[t].attempt

Tally(j) ==
  /\ job[j].attempts + Owed(j) <= 1 + Cardinality(Gone(j)) + mishaps
  /\ Leased(j) /\ job[j].lease = "expired" => ~Minded(j)
  /\ job[j].status = "ABSENT" => job[j].attempts = 0

TallyInv == HeartbeatsTimely => Distinct /\ \A j \in Jobs : Tally(j)

(***************************************************************************)
(* Counting the spent numbers.                                             *)
(***************************************************************************)
LEMMA GoneCounted ==
  ASSUME NEW j \in Jobs
  PROVE  /\ IsFiniteSet(Gone(j)) /\ Cardinality(Gone(j)) \in 0..(MaxAttempts - 1)
         /\ IsFiniteSet(Gone(j)') /\ Cardinality(Gone(j)') \in 0..(MaxAttempts - 1)
<1>1. MaxAttempts - 1 \in Nat
  BY QueueAssumption
<1>2. IsFiniteSet(1..(MaxAttempts - 1)) /\ Cardinality(1..(MaxAttempts - 1)) = MaxAttempts - 1
  BY <1>1, FS_Interval
<1>3. ASSUME NEW S, S \subseteq 1..(MaxAttempts - 1)
      PROVE  IsFiniteSet(S) /\ Cardinality(S) \in 0..(MaxAttempts - 1)
  <2>1. IsFiniteSet(S) /\ Cardinality(S) <= MaxAttempts - 1
    BY <1>2, <1>3, FS_Subset
  <2> QED
    BY <1>1, <2>1, FS_CardinalityType
<1>4. Gone(j) \subseteq 1..(MaxAttempts - 1) /\ Gone(j)' \subseteq 1..(MaxAttempts - 1)
  BY DEF Gone
<1> QED
  BY <1>3, <1>4

LEMMA OneMore ==
  ASSUME NEW S, NEW T, IsFiniteSet(T), S \subseteq T, NEW a \in T, a \notin S
  PROVE  Cardinality(S) + 1 <= Cardinality(T)
<1>1. IsFiniteSet(S) /\ Cardinality(S) \in Nat
  BY FS_Subset, FS_CardinalityType
<1>2. Cardinality(S \cup {a}) = Cardinality(S) + 1
  BY <1>1, FS_AddElement
<1>3. S \cup {a} \subseteq T
  OBVIOUS
<1> QED
  BY <1>2, <1>3, FS_Subset

(***************************************************************************)
(* What a step that claims nothing does to the tasks: they keep their jobs *)
(* and attempts, or end.                                                   *)
(***************************************************************************)
Carries ==
  /\ \A s \in Slots :
       Busy(s)' => Busy(s) /\ task'[s].job = task[s].job /\ task'[s].attempt = task[s].attempt
  /\ \A j \in Jobs : job'[j].attempts = job[j].attempts

LEMMA GoneGrows ==
  ASSUME NEW j \in Jobs, Carries
  PROVE  Gone(j) \subseteq Gone(j)' /\ Cardinality(Gone(j)) <= Cardinality(Gone(j)')
<1>1. Gone(j) \subseteq Gone(j)'
  BY DEF Carries, Gone, Works
<1> QED
  BY <1>1, GoneCounted, FS_Subset

LEMMA DistinctCarries ==
  ASSUME Distinct, Carries
  PROVE  Distinct'
  BY DEF Distinct, Carries

(***************************************************************************)
(* The account of a job is balanced when nothing is owed that was not, or  *)
(* a mishap or a spent attempt pays for it.                                *)
(***************************************************************************)
LEMMA Balanced ==
  ASSUME WorkerInv, WorkerInv', NEW j \in Jobs, Tally(j), Carries,
         mishaps' >= mishaps,
         \/ Owed(j)' <= Owed(j)
         \/ mishaps' = mishaps + 1
         \/ job[j].status = "ABSENT"
         \/ \E a \in Gone(j)' : a \notin Gone(j)
  PROVE  job'[j].attempts + Owed(j)' <= 1 + Cardinality(Gone(j)') + mishaps'
<1>1. /\ job'[j].attempts = job[j].attempts /\ job[j].attempts \in Nat
      /\ mishaps \in Nat /\ mishaps' \in Nat
  BY DEF Carries, WorkerInv, TypeOK, QueueTypeOK, Job
<1>2. Owed(j) \in 0..1 /\ Owed(j)' \in 0..1
  BY DEF Owed
<1>3. /\ Cardinality(Gone(j)) \in Nat /\ Cardinality(Gone(j)') \in Nat
      /\ Cardinality(Gone(j)) <= Cardinality(Gone(j)')
  BY GoneCounted, GoneGrows, QueueAssumption
<1>4. job[j].attempts + Owed(j) <= 1 + Cardinality(Gone(j)) + mishaps
  BY DEF Tally
<1>5. CASE Owed(j)' <= Owed(j) \/ mishaps' = mishaps + 1
  BY <1>1, <1>2, <1>3, <1>4, <1>5
<1>6. CASE job[j].status = "ABSENT"
  <2>1. job[j].attempts = 0
    BY <1>6 DEF Tally
  <2> QED
    BY <1>1, <1>2, <1>3, <2>1
<1>7. CASE \E a \in Gone(j)' : a \notin Gone(j)
  <2>1. Cardinality(Gone(j)) + 1 <= Cardinality(Gone(j)')
    BY <1>7, GoneCounted, GoneGrows, OneMore
  <2> QED
    BY <1>1, <1>2, <1>3, <1>4, <2>1
<1> QED
  BY <1>5, <1>6, <1>7

SlotTurn(s) == TaskStep(s) \/ HeartbeatTurn(s) \/ TaskMishap(s)

LEMMA SlotBusy ==
  ASSUME WorkerInv, NEW s \in Slots, SlotTurn(s)
  PROVE  Busy(s) /\ task[s].job \in Jobs /\ task[s].attempt \in Nat \ {0}
         /\ task[s].attempt <= job[task[s].job].attempts
<1>1. Busy(s)
  BY DEF Busy, SlotTurn, TaskStep, ReserveCost, FirstHeartbeat, HandlerReturns, HandlerRaises,
     CompleteJob, Settle, FailJob, HeartbeatTurn, TaskMishap, HeartbeatError, DatabaseError,
     CommitUnacknowledged, WorkerInv, SnapshotsTaken
<1> QED
  BY <1>1 DEF WorkerInv, SnapshotsTaken, NewestSnapshotOwns

(***************************************************************************)
(* A step of a slot changes that slot, and the row of its job only.        *)
(***************************************************************************)
LEMMA SlotTask ==
  ASSUME WorkerInv, NEW s \in Slots, SlotTurn(s)
  PROVE  /\ \A t \in Slots \ {s} : task'[t] = task[t]
         /\ Busy(s)' => task'[s].job = task[s].job /\ task'[s].attempt = task[s].attempt
<1>1. task \in [Slots -> Task] /\ task[s] \in Task
  BY DEF WorkerInv, TypeOK
<1>2. \/ UNCHANGED task
      \/ task' = [task EXCEPT ![s] = IdleTask]
      \/ \E p : Goto(s, p)
      \/ \E e : Raise(s, e)
      \/ task' = [task EXCEPT ![s].pc = "handle", ![s].beat = "alive"]
      \/ task' = [task EXCEPT ![s].beat = "dead"]
  BY DEF SlotTurn, TaskStep, ReserveCost, FirstHeartbeat, HandlerReturns, HandlerRaises,
     CompleteJob, Settle, FailJob, HeartbeatTurn, TaskMishap, HeartbeatError, DatabaseError,
     CommitUnacknowledged
<1>3. CASE UNCHANGED task \/ task' = [task EXCEPT ![s] = IdleTask]
  BY <1>1, <1>3 DEF Busy, IdleTask
<1>4. ASSUME NEW p, Goto(s, p) PROVE /\ \A t \in Slots \ {s} : task'[t] = task[t]
                                    /\ task'[s].job = task[s].job /\ task'[s].attempt = task[s].attempt
  BY <1>1, <1>4 DEF Goto, Task
<1>5. ASSUME NEW e, Raise(s, e) PROVE /\ \A t \in Slots \ {s} : task'[t] = task[t]
                                     /\ task'[s].job = task[s].job /\ task'[s].attempt = task[s].attempt
  BY <1>1, <1>5 DEF Raise, Task
<1>6. CASE \/ task' = [task EXCEPT ![s].pc = "handle", ![s].beat = "alive"]
           \/ task' = [task EXCEPT ![s].beat = "dead"]
  BY <1>1, <1>6 DEF Task
<1> QED
  BY <1>2, <1>3, <1>4, <1>5, <1>6

LEMMA CallRow ==
  ASSUME job \in [Jobs -> Job], NEW j \in Jobs, NEW w, NEW a, NEW r,
         \/ UNCHANGED queueVars
         \/ Heartbeat(j, w)
         \/ ReserveGranted(j)
         \/ Complete(j, a)
         \/ Fail(j, a, r)
  PROVE  /\ \A i \in Jobs \ {j} : job'[i] = job[i]
         /\ \A i \in Jobs : job'[i].attempts = job[i].attempts
<1>1. CASE UNCHANGED queueVars
  BY <1>1 DEF queueVars
<1>2. CASE Heartbeat(j, w)
  BY <1>2 DEF Heartbeat, Job
<1>3. CASE ReserveGranted(j)
  BY <1>3 DEF ReserveGranted, Job
<1>4. CASE Complete(j, a)
  BY <1>4 DEF Complete, Job
<1>5. CASE Fail(j, a, r)
  <2> DEFINE failed == FailedStatus(j, a, r)
  <2>1. job' = [job EXCEPT ![j].status = failed, ![j].owner = NoWorker, ![j].lease = "none",
                           ![j].due = FALSE, ![j].reserved = 0]
    BY <1>5 DEF Fail
  <2> HIDE DEF failed
  <2> QED
    BY <2>1 DEF Job
<1> QED
  BY <1>1, <1>2, <1>3, <1>4, <1>5

LEMMA SlotRow ==
  ASSUME WorkerInv, NEW s \in Slots, SlotTurn(s)
  PROVE  /\ \A i \in Jobs \ {task[s].job} : job'[i] = job[i]
         /\ \A i \in Jobs : job'[i].attempts = job[i].attempts
<1> DEFINE j == task[s].job
<1>1. j \in Jobs /\ job \in [Jobs -> Job] /\ job[j] \in Job
  BY SlotBusy DEF WorkerInv, TypeOK, QueueTypeOK
<1>2. \/ UNCHANGED queueVars
      \/ Heartbeat(j, WorkerOf[s])
      \/ ReserveGranted(j)
      \/ Complete(j, task[s].attempt)
      \/ Fail(j, task[s].attempt, task[s].error = "transient")
  BY DEF SlotTurn, TaskStep, ReserveCost, ReserveRefused, FirstHeartbeat, HandlerReturns,
     HandlerRaises, CompleteJob, CompleteRefused, Settle, FailJob, HeartbeatTurn, TaskMishap,
     HeartbeatError, DatabaseError, CommitUnacknowledged, queueVars
<1> HIDE DEF j
<1>3. /\ \A i \in Jobs \ {j} : job'[i] = job[i]
      /\ \A i \in Jobs : job'[i].attempts = job[i].attempts
  BY <1>1, <1>2, CallRow
<1> QED
  BY <1>3 DEF j

LEMMA SlotCarries ==
  ASSUME WorkerInv, NEW s \in Slots, SlotTurn(s)
  PROVE  Carries
<1>1. ASSUME NEW t \in Slots, Busy(t)'
      PROVE  Busy(t) /\ task'[t].job = task[t].job /\ task'[t].attempt = task[t].attempt
  <2>1. CASE t = s
    BY <1>1, <2>1, SlotBusy, SlotTask
  <2>2. CASE t # s
    BY <1>1, <2>2, SlotTask DEF Busy
  <2> QED
    BY <2>1, <2>2
<1> QED
  BY <1>1, SlotRow DEF Carries

LEMMA ElseCarries ==
  ASSUME WorkerInv,
         Environment \/ (\E w \in Workers : Crash(w)) \/ (\E j \in Jobs : LeaseRunsOut(j))
           \/ UNCHANGED vars
  PROVE  Carries
<1>1. job \in [Jobs -> Job] /\ task \in [Slots -> Task]
  BY DEF WorkerInv, TypeOK, QueueTypeOK
<1>2. CASE Environment
  <2>1. UNCHANGED task
    BY <1>2 DEF Environment
  <2>2. \A j \in Jobs : job'[j].attempts = job[j].attempts
    <3>1. CASE \E js \in SUBSET Jobs : Schedule(js)
      <4> SUFFICES ASSUME NEW j \in Jobs PROVE job'[j].attempts = job[j].attempts
        OBVIOUS
      <4>1. job[j] \in Job
        BY <1>1
      <4>2. \/ job'[j] = job[j]
            \/ job'[j] = [job[j] EXCEPT !.status = "PENDING", !.due = TRUE]
        BY <3>1 DEF Schedule
      <4> QED
        BY <4>1, <4>2 DEF Job
    <3>2. CASE Stop \/ Resume
      BY <3>2 DEF Stop, Resume
    <3>3. CASE \E j \in Jobs : BackoffElapses(j)
      BY <1>1, <3>3 DEF BackoffElapses, Job
    <3> QED
      BY <1>2, <3>1, <3>2, <3>3 DEF Environment
  <2> QED
    BY <2>1, <2>2 DEF Carries, Busy
<1>3. CASE \E w \in Workers : Crash(w)
  BY <1>1, <1>3 DEF Crash, Carries, Busy, IdleTask, queueVars
<1>4. CASE \E j \in Jobs : LeaseRunsOut(j)
  <2>1. UNCHANGED task
    BY <1>4 DEF LeaseRunsOut
  <2>2. \A j \in Jobs : job'[j].attempts = job[j].attempts
    BY <1>1, <1>4 DEF LeaseRunsOut, LeaseExpires, Job
  <2> QED
    BY <2>1, <2>2 DEF Carries, Busy
<1>5. CASE UNCHANGED vars
  BY <1>5 DEF vars, Carries, Busy
<1> QED
  BY <1>2, <1>3, <1>4, <1>5

(***************************************************************************)
(* A mishap pays for whatever it leaves behind; every other step of a slot *)
(* or of the environment leaves a leased row with the task that minds it.  *)
(***************************************************************************)
LEMMA MindedStays ==
  ASSUME NEW j \in Jobs, job'[j].owner = job[j].owner, Minded(j),
         \A t \in Slots : task'[t] = task[t] \/ ~Minds(t, j) \/ Minds(t, j)'
  PROVE  Minded(j)'
  BY DEF Minded, Minds, Busy, Owns

LEMMA MindedBefore ==
  ASSUME NEW j \in Jobs, job'[j].owner = job[j].owner, ~Minded(j),
         \A t \in Slots : task'[t] = task[t] \/ ~Minds(t, j)' \/ Minds(t, j)
  PROVE  ~Minded(j)'
  BY DEF Minded, Minds, Busy, Owns

(***************************************************************************)
(* What a row can have become: fit to be paid for, and not expired under   *)
(* a task that minds it.                                                   *)
(***************************************************************************)
Sound(j) ==
  /\ \/ Owed(j)' <= Owed(j)
     \/ mishaps' = mishaps + 1
     \/ job[j].status = "ABSENT"
     \/ \E a \in Gone(j)' : a \notin Gone(j)
  /\ Leased(j)' /\ job'[j].lease = "expired" => ~Minded(j)'
  /\ job'[j].status = "ABSENT" => job[j].status = "ABSENT"

LEMMA TallySound ==
  ASSUME WorkerInv, WorkerInv', NEW j \in Jobs, Tally(j), Carries, mishaps' >= mishaps, Sound(j)
  PROVE  Tally(j)'
<1>1. job'[j].attempts + Owed(j)' <= 1 + Cardinality(Gone(j)') + mishaps'
  BY Balanced DEF Sound
<1>2. job'[j].status = "ABSENT" => job'[j].attempts = 0
  BY DEF Sound, Tally, Carries
<1> QED
  BY <1>1, <1>2 DEF Sound, Tally

(***************************************************************************)
(* The rows the slot does not work on.                                     *)
(***************************************************************************)
LEMMA OtherRow ==
  ASSUME WorkerInv, NEW s \in Slots, SlotTurn(s), NEW i \in Jobs, i # task[s].job, Tally(i)
  PROVE  Sound(i)
<1>1. job'[i] = job[i]
  BY SlotRow
<1>2. ~Minds(s, i) /\ ~Minds(s, i)'
  BY SlotTask DEF Minds
<1>3. \A t \in Slots \ {s} : task'[t] = task[t]
  BY SlotTask
<1>4. Minded(i) => Minded(i)'
  BY <1>1, <1>2, <1>3, MindedStays
<1>5. ~Minded(i) => ~Minded(i)'
  BY <1>1, <1>2, <1>3, MindedBefore
<1>6. (Leased(i)' <=> Leased(i)) /\ (Waiting(i)' <=> Waiting(i))
  BY <1>1 DEF Leased, Waiting
<1>7. Owed(i)' <= Owed(i)
  BY <1>4, <1>6 DEF Owed, Stray
<1> QED
  BY <1>1, <1>5, <1>6, <1>7 DEF Sound, Tally

(***************************************************************************)
(* The row the slot works on.  First the steps that leave its status,      *)
(* owner and lease alone while the slot goes on as it was.                 *)
(***************************************************************************)
LEMMA RowLeft ==
  ASSUME NEW j \in Jobs, Tally(j),
         job'[j].status = job[j].status, job'[j].owner = job[j].owner,
         job'[j].lease = job[j].lease,
         \A t \in Slots : Minds(t, j)' => Minds(t, j),
         (\A t \in Slots : Minds(t, j) => Minds(t, j)') \/ mishaps' = mishaps + 1
  PROVE  Sound(j)
<1>1. ~Minded(j) => ~Minded(j)'
  BY DEF Minded
<1>2. (Leased(j)' <=> Leased(j)) /\ (Waiting(j)' <=> Waiting(j))
  BY DEF Leased, Waiting
<1>3. CASE \A t \in Slots : Minds(t, j) => Minds(t, j)'
  <2>1. Minded(j) => Minded(j)'
    BY <1>3 DEF Minded
  <2>2. Owed(j)' <= Owed(j)
    BY <1>2, <2>1 DEF Owed, Stray
  <2> QED
    BY <1>1, <1>2, <2>2 DEF Sound, Tally
<1>4. CASE mishaps' = mishaps + 1
  BY <1>1, <1>2, <1>4 DEF Sound, Tally
<1> QED
  BY <1>3, <1>4

(***************************************************************************)
(* A row that is not leased and does not wait owes nothing.                *)
(***************************************************************************)
LEMMA RowEnds ==
  ASSUME NEW j \in Jobs, job'[j].status \in {"SUCCEEDED", "FAILED"}
  PROVE  Sound(j)
<1>1. ~Leased(j)' /\ ~Waiting(j)'
  BY DEF Leased, Waiting
<1>2. Owed(j)' = 0 /\ Owed(j) \in 0..1
  BY <1>1 DEF Owed, Stray
<1> QED
  BY <1>1, <1>2 DEF Sound

(***************************************************************************)
(* A row its heartbeat just renewed is minded, or a mishap.                *)
(***************************************************************************)
LEMMA RowBeats ==
  ASSUME NEW j \in Jobs, job'[j].status = "RUNNING", job'[j].lease = "live",
         NEW s \in Slots, Minds(s, j)' \/ mishaps' = mishaps + 1
  PROVE  Sound(j)
<1>1. ~Waiting(j)'
  BY DEF Waiting
<1>2. Minds(s, j)' => Owed(j)' = 0
  BY <1>1 DEF Owed, Stray, Minded
<1>3. Owed(j) \in 0..1
  BY DEF Owed
<1> QED
  BY <1>2, <1>3 DEF Sound

(***************************************************************************)
(* A retry spends the number of the attempt that failed: no other task has *)
(* it.                                                                     *)
(***************************************************************************)
LEMMA FailRow ==
  ASSUME job \in [Jobs -> Job], NEW j \in Jobs, NEW a, NEW r, Fail(j, a, r)
  PROVE  /\ job'[j].status \in {"RETRY_WAIT", "FAILED"}
         /\ job'[j].status = "RETRY_WAIT" => a < MaxAttempts
<1> DEFINE failed == FailedStatus(j, a, r)
<1>1. job' = [job EXCEPT ![j].status = failed, ![j].owner = NoWorker, ![j].lease = "none",
                         ![j].due = FALSE, ![j].reserved = 0]
  BY DEF Fail
<1>2. failed \in {"RETRY_WAIT", "FAILED"} /\ (failed = "RETRY_WAIT" => a < MaxAttempts)
  BY DEF FailedStatus
<1> HIDE DEF failed
<1>3. job'[j].status = failed
  BY <1>1 DEF Job
<1> QED
  BY <1>2, <1>3

LEMMA RowFails ==
  ASSUME WorkerInv, Distinct, NEW s \in Slots, NEW j \in Jobs, NEW a,
         j = task[s].job, a = task[s].attempt, FailJob(s)
  PROVE  Sound(j)
<1>1. Busy(s) /\ a \in Nat \ {0} /\ a <= job[j].attempts /\ SlotTurn(s)
  BY SlotBusy DEF SlotTurn, TaskStep
<1>2. job \in [Jobs -> Job] /\ task \in [Slots -> Task]
  BY DEF WorkerInv, TypeOK, QueueTypeOK
<1>3. Fail(j, a, task[s].error = "transient") /\ task' = [task EXCEPT ![s] = IdleTask]
  BY DEF FailJob
<1>4. ~Busy(s)' /\ \A t \in Slots \ {s} : task'[t] = task[t]
  BY <1>2, <1>3 DEF Busy, IdleTask
<1>5. job'[j].attempts = job[j].attempts
  BY <1>1, SlotRow
<1>6. /\ job'[j].status \in {"RETRY_WAIT", "FAILED"}
      /\ job'[j].status = "RETRY_WAIT" => a < MaxAttempts
  BY <1>2, <1>3, FailRow
<1>7. CASE job'[j].status = "RETRY_WAIT"
  <2>1. a \in 1..(MaxAttempts - 1)
    BY <1>1, <1>6, <1>7, QueueAssumption
  <2>2. a \notin Gone(j)
    BY <1>1 DEF Gone, Works
  <2>3. ASSUME NEW t \in Slots PROVE ~Works(t, j, a)'
    <3>1. CASE t = s
      BY <1>4, <3>1 DEF Works
    <3>2. CASE t # s
      <4>1. task'[t] = task[t]
        BY <1>4, <3>2
      <4>2. ~Works(t, j, a)
        BY <1>1, <3>2 DEF Works, Distinct
      <4> QED
        BY <4>1, <4>2 DEF Works, Busy
    <3> QED
      BY <3>1, <3>2
  <2>4. a \in Gone(j)'
    BY <1>1, <1>5, <2>1, <2>3 DEF Gone
  <2>5. ~Leased(j)' /\ job'[j].status # "ABSENT"
    BY <1>7 DEF Leased
  <2> QED
    BY <2>2, <2>4, <2>5 DEF Sound
<1>8. CASE job'[j].status = "FAILED"
  BY <1>1, <1>8, RowEnds
<1> QED
  BY <1>6, <1>7, <1>8

LEMMA OwnRow ==
  ASSUME WorkerInv, Distinct, NEW s \in Slots, SlotTurn(s), NEW j \in Jobs, j = task[s].job, Tally(j)
  PROVE  Sound(j)
<1>1. Busy(s) /\ task \in [Slots -> Task] /\ task[s] \in Task /\ job \in [Jobs -> Job] /\ job[j] \in Job
  BY SlotBusy DEF WorkerInv, TypeOK, QueueTypeOK
<1>2. \A t \in Slots \ {s} : task'[t] = task[t]
  BY SlotTask
<1> DEFINE Kept1 == /\ job'[j].status = job[j].status /\ job'[j].owner = job[j].owner
                    /\ job'[j].lease = job[j].lease
           Mishap1 == mishaps' = mishaps + 1
<1>3. ASSUME Kept1, NEW p \in Pc \ {"idle", "settle"}, task[s].pc # "settle",
             task'[s].pc = p, task'[s].job = j, task'[s].beat = task[s].beat
      PROVE  Sound(j)
  <2>1. \A t \in Slots : Minds(t, j)' <=> Minds(t, j)
    BY <1>1, <1>2, <1>3 DEF Minds, Busy, Owns
  <2> QED
    BY <1>3, <2>1, RowLeft
<1>4. ASSUME Kept1, ~Minds(s, j)', ~Minds(s, j) \/ Mishap1 PROVE Sound(j)
  <2>1. \A t \in Slots \ {s} : Minds(t, j)' <=> Minds(t, j)
    BY <1>2, <1>4 DEF Minds, Busy, Owns
  <2> QED
    BY <1>4, <2>1, RowLeft
<1>5. ASSUME NEW e, Raise(s, e)
      PROVE  task'[s].pc = "fail" /\ task'[s].job = j /\ task'[s].beat = task[s].beat
  BY <1>1, <1>5 DEF Raise, Task
<1>6. ASSUME NEW q, Goto(s, q)
      PROVE  task'[s].pc = q /\ task'[s].job = j /\ task'[s].beat = task[s].beat
  BY <1>1, <1>6 DEF Goto, Task
<1>7. UNCHANGED queueVars => Kept1
  BY DEF queueVars
<1>8. ReserveGranted(j) => Kept1
  BY <1>1 DEF ReserveGranted, Job
<1>9. ASSUME NEW a, Complete(j, a) PROVE Sound(j)
  <2>1. job'[j].status = "SUCCEEDED"
    BY <1>1, <1>9 DEF Complete, Job
  <2> QED
    BY <2>1, RowEnds
<1>10. ASSUME Heartbeat(j, WorkerOf[s])
       PROVE  job'[j].status = "RUNNING" /\ job'[j].lease = "live" /\ job'[j].owner = WorkerOf[s]
  BY <1>1, <1>10 DEF Heartbeat, Owns, Job
<1>11. ASSUME task' = [task EXCEPT ![s] = IdleTask] PROVE ~Minds(s, j)'
  BY <1>1, <1>11 DEF Minds, Busy, IdleTask
<1> HIDE DEF Kept1
<1>12. CASE ReserveCost(s)
  BY <1>3, <1>5, <1>6, <1>7, <1>8, <1>12 DEF ReserveCost, ReserveRefused, Pc
<1>13. CASE FirstHeartbeat(s)
  <2>1. CASE Heartbeat(j, WorkerOf[s]) /\ task' = [task EXCEPT ![s].pc = "handle", ![s].beat = "alive"]
    <3>1. task'[s].pc = "handle" /\ task'[s].job = j /\ task'[s].beat = "alive"
      BY <1>1, <2>1 DEF Task
    <3>2. Minds(s, j)'
      BY <1>10, <2>1, <3>1 DEF Minds, Busy, Owns
    <3> QED
      BY <1>10, <2>1, <3>2, RowBeats
  <2>2. CASE UNCHANGED queueVars /\ Raise(s, "not_owner")
    BY <1>3, <1>5, <1>7, <1>13, <2>2 DEF FirstHeartbeat, Pc
  <2> QED
    BY <1>13, <2>1, <2>2 DEF FirstHeartbeat
<1>14. CASE HandlerReturns(s) \/ HandlerRaises(s)
  BY <1>3, <1>5, <1>6, <1>7, <1>14 DEF HandlerReturns, HandlerRaises, Pc
<1>15. CASE CompleteJob(s)
  BY <1>3, <1>5, <1>7, <1>9, <1>15 DEF CompleteJob, CompleteRefused, Pc
<1>16. CASE Settle(s)
  BY <1>4, <1>7, <1>11, <1>16 DEF Settle, Minds
<1>17. CASE FailJob(s)
  BY <1>17, RowFails
<1>18. CASE HeartbeatTurn(s)
  <2>1. CASE Heartbeat(j, WorkerOf[s]) /\ UNCHANGED task
    <3>1. task[s].pc # "settle" => Minds(s, j)'
      BY <1>1, <1>10, <1>18, <2>1 DEF HeartbeatTurn, Minds, Busy, Owns
    <3>2. task[s].pc = "settle" => mishaps' = mishaps + 1
      BY <1>18 DEF HeartbeatTurn, Mishap
    <3> QED
      BY <1>10, <2>1, <3>1, <3>2, RowBeats
  <2>2. CASE ~Owns(j, WorkerOf[s]) /\ task' = [task EXCEPT ![s].beat = "dead"] /\ UNCHANGED queueVars
    <3>1. task'[s].beat = "dead"
      BY <1>1, <2>2 DEF Task
    <3>2. ~Minds(s, j) /\ ~Minds(s, j)'
      BY <2>2, <3>1 DEF Minds
    <3> QED
      BY <1>4, <1>7, <2>2, <3>2
  <2> QED
    BY <1>18, <2>1, <2>2 DEF HeartbeatTurn
<1>19. CASE HeartbeatError(s)
  <2>1. task'[s].beat = "dead"
    BY <1>1, <1>19 DEF HeartbeatError, Task
  <2>2. ~Minds(s, j)'
    BY <2>1 DEF Minds
  <2> QED
    BY <1>4, <1>7, <1>19, <2>2 DEF HeartbeatError, Mishap
<1>20. CASE DatabaseError(s)
  <2>1. Mishap1 /\ Kept1
    BY <1>7, <1>20 DEF DatabaseError, Mishap
  <2>2. CASE task[s].pc \in {"reserve", "beat", "complete"} /\ \E e : Raise(s, e)
    BY <1>3, <1>5, <2>1, <2>2 DEF Pc
  <2>3. CASE task' = [task EXCEPT ![s] = IdleTask]
    BY <1>4, <1>11, <2>1, <2>3
  <2> QED
    BY <1>20, <2>2, <2>3 DEF DatabaseError
<1>21. CASE CommitUnacknowledged(s)
  <2>1. CASE task[s].pc = "reserve" /\ ReserveGranted(j)
    BY <1>3, <1>5, <1>8, <1>21, <2>1 DEF CommitUnacknowledged, Pc
  <2>2. CASE Complete(j, task[s].attempt)
    BY <1>9, <2>2
  <2> QED
    BY <1>21, <2>1, <2>2 DEF CommitUnacknowledged
<1> QED
  BY <1>12, <1>13, <1>14, <1>15, <1>16, <1>17, <1>18, <1>19, <1>20, <1>21
  DEF SlotTurn, TaskStep, TaskMishap

LEMMA EnvironmentRow ==
  ASSUME WorkerInv, NEW j \in Jobs, Tally(j), Environment
  PROVE  Sound(j)
<1>1. job \in [Jobs -> Job] /\ job[j] \in Job /\ UNCHANGED task
  BY DEF WorkerInv, TypeOK, QueueTypeOK, Environment
<1>2. \/ job'[j] = job[j]
      \/ job[j].status = "ABSENT" /\ job'[j] = [job[j] EXCEPT !.status = "PENDING", !.due = TRUE]
      \/ job[j].status = "RETRY_WAIT" /\ job'[j] = [job[j] EXCEPT !.due = TRUE]
  BY <1>1 DEF Environment, Schedule, Stop, Resume, BackoffElapses
<1>3. CASE job[j].status = "ABSENT" /\ job'[j] = [job[j] EXCEPT !.status = "PENDING", !.due = TRUE]
  BY <1>1, <1>3 DEF Sound, Leased, Job
<1>4. CASE job'[j] = job[j] \/ job'[j] = [job[j] EXCEPT !.due = TRUE]
  <2>1. /\ job'[j].status = job[j].status /\ job'[j].owner = job[j].owner
        /\ job'[j].lease = job[j].lease
    BY <1>1, <1>4 DEF Job
  <2>2. \A t \in Slots : Minds(t, j)' <=> Minds(t, j)
    BY <1>1, <2>1 DEF Minds, Busy, Owns
  <2> QED
    BY <2>1, <2>2, RowLeft
<1> QED
  BY <1>2, <1>3, <1>4

LEMMA LeaseRow ==
  ASSUME WorkerInv, HeartbeatsTimely, NEW j \in Jobs, Tally(j), NEW i \in Jobs, LeaseRunsOut(i)
  PROVE  Sound(j)
<1>1. job \in [Jobs -> Job] /\ job[i] \in Job /\ UNCHANGED task
  BY DEF WorkerInv, TypeOK, QueueTypeOK, LeaseRunsOut
<1>2. job' = [job EXCEPT ![i].lease = "expired"]
  BY DEF LeaseRunsOut, LeaseExpires
<1>3. job'[j].status = job[j].status /\ job'[j].owner = job[j].owner
  BY <1>1, <1>2 DEF Job
<1>4. \A t \in Slots : Minds(t, j)' <=> Minds(t, j)
  BY <1>1, <1>3 DEF Minds, Busy, Owns
<1>5. CASE j = i
  <2>1. ~Minded(i)
    BY DEF LeaseRunsOut, Kept, Minded, Minds
  <2>2. ~Minded(j)'
    BY <1>4, <1>5, <2>1 DEF Minded
  <2>3. Owed(j)' <= Owed(j)
    BY <1>3, <1>5, <2>1 DEF Owed, Stray, Waiting, Leased
  <2> QED
    BY <1>3, <2>2, <2>3 DEF Sound
<1>6. CASE j # i
  <2>1. job'[j].lease = job[j].lease
    BY <1>1, <1>2, <1>6
  <2> QED
    BY <1>3, <1>4, <2>1, RowLeft
<1> QED
  BY <1>5, <1>6

LEMMA CrashRow ==
  ASSUME WorkerInv, NEW j \in Jobs, Tally(j), NEW w \in Workers, Crash(w)
  PROVE  Sound(j)
<1>1. task \in [Slots -> Task] /\ UNCHANGED queueVars /\ mishaps' = mishaps + 1
  BY DEF WorkerInv, TypeOK, Crash, Mishap
<1>2. \A t \in Slots : task'[t] = task[t] \/ task'[t] = IdleTask
  BY DEF Crash
<1>3. \A t \in Slots : Minds(t, j)' => Minds(t, j)
  BY <1>1, <1>2 DEF Minds, Busy, Owns, IdleTask, queueVars
<1>4. /\ job'[j].status = job[j].status /\ job'[j].owner = job[j].owner
      /\ job'[j].lease = job[j].lease
  BY <1>1 DEF queueVars
<1> QED
  BY <1>1, <1>3, <1>4, RowLeft

(***************************************************************************)
(* A claim takes what is owed.                                             *)
(***************************************************************************)
LEMMA ClaimTally ==
  ASSUME WorkerInv, WorkerInv', Distinct, \A j \in Jobs : Tally(j),
         NEW s \in Slots, NEW i \in Jobs, ClaimJob(s, i)
  PROVE  Distinct' /\ \A j \in Jobs : Tally(j)'
<1>1. /\ task \in [Slots -> Task] /\ job \in [Jobs -> Job] /\ job[i] \in Job
      /\ mishaps' = mishaps /\ mishaps \in Nat /\ ~Busy(s) /\ Claimable(i)
  BY DEF WorkerInv, TypeOK, QueueTypeOK, ClaimJob, Claim, Busy
<1>2. /\ job'[i].status = "LEASED" /\ job'[i].owner = WorkerOf[s] /\ job'[i].lease = "live"
      /\ job'[i].attempts = job[i].attempts + 1
      /\ \A j \in Jobs \ {i} : job'[j] = job[j]
  BY <1>1 DEF ClaimJob, Claim, NextAttempt, Job
<1> DEFINE row == [pc |-> "reserve", job |-> i, attempt |-> job'[i].attempts,
                   error |-> "none", beat |-> "off"]
<1>3. /\ row.pc = "reserve" /\ row.job = i /\ row.beat = "off"
      /\ row.attempt = job[i].attempts + 1
  BY <1>2
<1>4. task' = [task EXCEPT ![s] = row]
  BY DEF ClaimJob
<1> HIDE DEF row
<1>5. /\ task'[s].pc = "reserve" /\ task'[s].job = i /\ task'[s].beat = "off"
      /\ task'[s].attempt = job[i].attempts + 1
      /\ \A t \in Slots \ {s} : task'[t] = task[t]
  BY <1>1, <1>3, <1>4
<1>6. \A t \in Slots : Busy(t) => task[t].attempt <= job[task[t].job].attempts
                                 /\ task[t].attempt \in Nat /\ task[t].job \in Jobs
  BY DEF WorkerInv, NewestSnapshotOwns, SnapshotsTaken
<1>7. job[i].attempts \in Nat
  BY <1>1 DEF Job
<1>8. \A t \in Slots \ {s} : Busy(t)' => Busy(t) /\ (task[t].job = i => task[t].attempt # job[i].attempts + 1)
  BY <1>5, <1>6, <1>7 DEF Busy
<1>9. Distinct'
  BY <1>5, <1>8 DEF Distinct
<1>10. Tally(i)'
  <2>1. Owed(i) = 1
    BY <1>1 DEF Claimable, Tally, Owed, Stray
  <2>2. Minds(s, i)'
    BY <1>2, <1>5 DEF Minds, Busy, Owns
  <2>3. Owed(i)' = 0
    BY <1>2, <2>2 DEF Owed, Stray, Waiting, Minded
  <2>4. Gone(i) \subseteq Gone(i)'
    <3> SUFFICES ASSUME NEW a \in Gone(i) PROVE a \in Gone(i)'
      OBVIOUS
    <3>1. a \in 1..(MaxAttempts - 1) /\ a <= job[i].attempts /\ a <= job'[i].attempts
      BY <1>2, <1>7 DEF Gone
    <3>2. ASSUME NEW t \in Slots PROVE ~Works(t, i, a)'
      <4>1. CASE t = s
        BY <1>5, <1>7, <3>1, <4>1 DEF Works
      <4>2. CASE t # s
        <5>1. task'[t] = task[t] /\ ~Works(t, i, a)
          BY <1>5, <4>2 DEF Gone
        <5> QED
          BY <5>1 DEF Works, Busy
      <4> QED
        BY <4>1, <4>2
    <3> QED
      BY <3>1, <3>2 DEF Gone
  <2>5. Cardinality(Gone(i)) <= Cardinality(Gone(i)')
        /\ Cardinality(Gone(i)) \in Nat /\ Cardinality(Gone(i)') \in Nat
    BY <2>4, GoneCounted, FS_Subset, FS_CardinalityType
  <2>6. job[i].attempts + 1 <= 1 + Cardinality(Gone(i)) + mishaps
    BY <2>1 DEF Tally
  <2>7. job'[i].attempts + Owed(i)' <= 1 + Cardinality(Gone(i)') + mishaps'
    BY <1>1, <1>2, <1>7, <2>3, <2>5, <2>6
  <2> QED
    BY <1>2, <2>7 DEF Tally
<1>11. ASSUME NEW j \in Jobs \ {i} PROVE Tally(j)'
  <2>1. job'[j] = job[j]
    BY <1>2
  <2>2. \A t \in Slots : Minds(t, j)' <=> Minds(t, j)
    BY <1>1, <1>5, <2>1 DEF Minds, Busy, Owns
  <2>3. Owed(j)' = Owed(j)
    BY <2>1, <2>2 DEF Owed, Stray, Minded, Waiting, Leased
  <2>4. \A t \in Slots : \A a : Works(t, j, a)' <=> Works(t, j, a)
    BY <1>1, <1>5 DEF Works, Busy
  <2>5. Gone(j)' = Gone(j)
    BY <2>1, <2>4 DEF Gone
  <2>6. Minded(j)' <=> Minded(j)
    BY <2>2 DEF Minded
  <2> QED
    BY <1>1, <2>1, <2>3, <2>5, <2>6 DEF Tally, Leased
<1> QED
  BY <1>9, <1>10, <1>11

LEMMA TallyNext == WorkerInv /\ WorkerInv' /\ TallyInv /\ [Next]_vars => TallyInv'
<1> SUFFICES ASSUME WorkerInv, WorkerInv', HeartbeatsTimely, Distinct, \A j \in Jobs : Tally(j),
                    [Next]_vars
             PROVE  Distinct' /\ \A j \in Jobs : Tally(j)'
  BY DEF TallyInv
<1>1. mishaps \in Nat
  BY DEF WorkerInv, TypeOK
<1>2. ASSUME NEW s \in Slots, NEW i \in Jobs, ClaimJob(s, i)
      PROVE  Distinct' /\ \A j \in Jobs : Tally(j)'
  BY <1>2, ClaimTally
<1>3. ASSUME NEW s \in Slots, SlotTurn(s) PROVE Distinct' /\ \A j \in Jobs : Tally(j)'
  <2>1. Carries
    BY <1>3, SlotCarries
  <2>2. mishaps' >= mishaps
    BY <1>1, <1>3 DEF SlotTurn, TaskStep, ReserveCost, FirstHeartbeat, HandlerReturns, HandlerRaises,
       CompleteJob, Settle, FailJob, HeartbeatTurn, TaskMishap, HeartbeatError, DatabaseError,
       CommitUnacknowledged, Mishap
  <2>3. ASSUME NEW j \in Jobs PROVE Sound(j)
    <3>1. CASE j = task[s].job
      BY <1>3, <3>1, OwnRow
    <3>2. CASE j # task[s].job
      BY <1>3, <3>2, OtherRow
    <3> QED
      BY <3>1, <3>2
  <2> QED
    BY <2>1, <2>2, <2>3, DistinctCarries, TallySound
<1>4. CASE Environment
  BY <1>1, <1>4, ElseCarries, DistinctCarries, EnvironmentRow, TallySound DEF Environment
<1>5. ASSUME NEW w \in Workers, Crash(w) PROVE Distinct' /\ \A j \in Jobs : Tally(j)'
  <2>1. mishaps' >= mishaps
    BY <1>1, <1>5 DEF Crash, Mishap
  <2> QED
    BY <1>5, <2>1, ElseCarries, DistinctCarries, CrashRow, TallySound
<1>6. ASSUME NEW i \in Jobs, LeaseRunsOut(i) PROVE Distinct' /\ \A j \in Jobs : Tally(j)'
  <2>1. mishaps' >= mishaps
    BY <1>1, <1>6 DEF LeaseRunsOut
  <2> QED
    BY <1>6, <2>1, ElseCarries, DistinctCarries, LeaseRow, TallySound
<1>7. CASE UNCHANGED vars
  BY <1>7 DEF vars, Distinct, Tally, Owed, Stray, Minded, Minds, Gone, Works, Busy, Owns,
     Waiting, Leased
<1> QED
  BY <1>2, <1>3, <1>4, <1>5, <1>6, <1>7 DEF Next, SlotTurn

(***************************************************************************)
(* A job is attempted at most max_attempts times, and once more for every  *)
(* crash, database error or late beat: with timely heartbeats nothing else *)
(* exceeds the limit the queue checks only when an attempt fails           *)
(* (queue.py 269-282, 404-426).                                            *)
(***************************************************************************)
THEOREM WorkerAttemptsPaidFor == Spec => []AttemptsPaidFor
<1>1. Init => TallyInv
  <2> SUFFICES ASSUME Init PROVE TallyInv
    OBVIOUS
  <2>1. Distinct
    BY DEF Init, Distinct, Busy, IdleTask
  <2>2. ASSUME NEW j \in Jobs PROVE Tally(j)
    <3>1. job[j].status = "ABSENT" /\ job[j].attempts = 0 /\ mishaps = 0
      BY DEF Init, QueueInit
    <3>2. Owed(j) = 0 /\ ~Leased(j)
      BY <3>1 DEF Owed, Stray, Waiting, Leased
    <3>3. Cardinality(Gone(j)) \in Nat
      BY GoneCounted, FS_CardinalityType
    <3> QED
      BY <3>1, <3>2, <3>3 DEF Tally
  <2> QED
    BY <2>1, <2>2 DEF TallyInv
<1>2. WorkerInv /\ TallyInv => AttemptsPaidFor
  <2> SUFFICES ASSUME WorkerInv, TallyInv, HeartbeatsTimely, NEW j \in Jobs
               PROVE  job[j].attempts <= MaxAttempts + mishaps
    BY DEF AttemptsPaidFor
  <2>1. job[j].attempts \in Nat /\ mishaps \in Nat
    BY DEF WorkerInv, TypeOK, QueueTypeOK, Job
  <2>2. Owed(j) \in 0..1 /\ Cardinality(Gone(j)) \in 0..(MaxAttempts - 1)
    BY GoneCounted DEF Owed
  <2>3. job[j].attempts + Owed(j) <= 1 + Cardinality(Gone(j)) + mishaps
    BY DEF TallyInv, Tally
  <2> QED
    BY <2>1, <2>2, <2>3, QueueAssumption
<1> QED
  BY <1>1, <1>2, TallyNext, WorkerInvariant, PTL DEF Spec

(***************************************************************************)
(* Both halves together: with timely heartbeats the attempts of a job come *)
(* one after the other and within the limit, but for mishaps (queue.py     *)
(* 269-282, 403-426; worker.py 256-266).                                   *)
(***************************************************************************)
THEOREM WorkerAttemptsApart == Spec => []AttemptsApart
<1>1. OneTaskPerJob /\ AttemptsPaidFor => AttemptsApart
  BY DEF AttemptsApart
<1> QED
  BY <1>1, WorkerOneTaskPerJob, WorkerAttemptsPaidFor, PTL

=============================================================================
