----------------------- MODULE LocalExperiment_proofs -----------------------
(***************************************************************************)
(* Proofs about an experiment inside one process, for every number of      *)
(* sessions, tasks, workers and manifests.                                 *)
(*                                                                         *)
(* QueueOK and TaskOK together are inductive: types, and that nothing is   *)
(* at work before a manifest was scheduled, so that every comparison with  *)
(* a ceiling is one with a number.                                         *)
(***************************************************************************)
EXTENDS LocalExperiment, SumLemmas

QueueOK ==
  /\ manifest \in Manifests \cup {NoManifest}
  /\ job \in [Jobs -> Job]
  /\ result \in [Jobs -> Result \cup {NoResult}]
  /\ stopped \in BOOLEAN
  /\ spent \in 0..HighestCeiling
  /\ reservation \in [Jobs -> Nat \cup {NoReservation}]
  /\ \A j \in Jobs : job[j].status # "ABSENT" => manifest \in Manifests

TaskOK ==
  /\ task \in [Slots -> Task]
  /\ \A s \in Slots : task[s].pc # "idle" => task[s].job \in Jobs /\ manifest \in Manifests
  /\ \A s \in Slots : task[s].pc = "handle" => task[s].plan \in Manifests
  /\ lapses \in Nat
  /\ replaced \in BOOLEAN

LocalInv == QueueOK /\ TaskOK

-----------------------------------------------------------------------------
(***************************************************************************)
(* What the handler returns is a result with the evaluation that the       *)
(* policy demands.                                                         *)
(***************************************************************************)
LEMMA HandlerResults ==
  ASSUME NEW policy \in Policies, NEW o \in HandlerOutcomes(policy)
  PROVE  /\ o \in Outcomes
         /\ o.ends = "result" => o.proof \in ProofDemanded(policy)
<1>1. PICK g \in GraphEnds, e \in EvaluatorEnds : o = Handle(g, e, policy)
  BY DEF HandlerOutcomes
<1> DEFINE error == EvaluationError(g, e)
<1>2. CASE g.error \in Transient
  BY <1>1, <1>2 DEF Handle, Raises, Outcomes
<1>3. CASE g.error \notin Transient
  <2>1. o = Evaluated(g, e, policy)
    BY <1>1, <1>3 DEF Handle
  <2>2. CASE policy = "none"
    BY <2>1, <2>2 DEF Evaluated, Returns, Outcomes, ProofDemanded
  <2>3. CASE policy # "none" /\ error = "report"
    <3>1. o = Returns(g, "evaluated")
      BY <2>1, <2>3 DEF Evaluated
    <3>2. policy = "fail_job" \/ policy = "record_error"
      BY <2>3 DEF Policies
    <3> QED BY <3>1, <3>2 DEF Returns, Outcomes, ProofDemanded
  <2>4. CASE policy = "fail_job" /\ error # "report"
    BY <2>1, <2>4 DEF Evaluated, Raises, Outcomes
  <2>5. CASE policy = "record_error" /\ error # "report"
    BY <2>1, <2>5 DEF Evaluated, Returns, Outcomes, ProofDemanded
  <2> QED BY <2>2, <2>3, <2>4, <2>5 DEF Policies
<1> QED BY <1>2, <1>3

-----------------------------------------------------------------------------
(***************************************************************************)
(* The operations of the queue keep QueueOK.                               *)
(***************************************************************************)
LEMMA ScheduleOK ==
  ASSUME QueueOK, NEW m \in Manifests, NEW js, schedule(m, js)
  PROVE  QueueOK'
<1> USE MemoryAssumption
<1>1. Estimate[m] \in [Jobs -> Nat]
  OBVIOUS
<1>2. \A j \in Jobs : job'[j] \in Job
  BY <1>1 DEF QueueOK, schedule, NoJobYet, Job, JobStatus
<1>3. job' \in [Jobs -> Job]
  BY <1>2 DEF schedule
<1> QED BY <1>3 DEF QueueOK, schedule

LEMMA ClaimOK ==
  ASSUME QueueOK, NEW j \in Jobs, NEW w \in Workers, NEW passed, claim(j, w, passed)
  PROVE  QueueOK' /\ manifest \in Manifests /\ job[j].attempts \in Nat
<1>1. /\ job[j].status # "ABSENT"
      /\ job[j] \in Job
  BY DEF QueueOK, claim, Due
<1>2. ASSUME NEW k \in Jobs PROVE job'[k] \in Job
  <2>1. job[k] \in Job
    BY DEF QueueOK
  <2>2. Recovered(k) \in Job
    BY <2>1 DEF Recovered, Job, JobStatus
  <2>3. job[k].attempts + 1 \in Nat
    BY <2>1 DEF Job
  <2>4. \A n \in Nat : [job[k] EXCEPT !.status = "LEASED", !.owner = w,
                                     !.lease = "live", !.attempts = n] \in Job
    BY <2>1 DEF Job, JobStatus
  <2>5. [job[k] EXCEPT !.status = "LEASED", !.owner = w,
                       !.lease = "live", !.attempts = @ + 1] \in Job
    BY <2>3, <2>4
  <2> QED BY <2>1, <2>2, <2>5 DEF claim
<1>3. job' \in [Jobs -> Job]
  BY <1>2 DEF claim
<1>4. manifest \in Manifests
  BY <1>1 DEF QueueOK
<1> QED BY <1>1, <1>3, <1>4 DEF QueueOK, claim, Job

LEMMA ClaimsNothingOK ==
  ASSUME QueueOK, claimsNothing
  PROVE  QueueOK'
<1>1. ASSUME NEW k \in Jobs PROVE job'[k] \in Job
  <2>1. job[k] \in Job
    BY DEF QueueOK
  <2>2. Recovered(k) \in Job
    BY <2>1 DEF Recovered, Job, JobStatus
  <2>3. job'[k] = Recovered(k) \/ job'[k] = job[k]
    BY DEF claimsNothing
  <2> QED BY <2>1, <2>2, <2>3
<1>2. job' \in [Jobs -> Job]
  BY <1>1 DEF claimsNothing
<1>3. \A k \in Jobs : job'[k].status # "ABSENT" => manifest' \in Manifests
  BY DEF QueueOK, claimsNothing, Abandoned
<1> QED BY <1>2, <1>3 DEF QueueOK, claimsNothing

LEMMA FailsOK ==
  ASSUME QueueOK, manifest \in Manifests, NEW j \in Jobs,
         NEW retryable \in BOOLEAN, NEW halt \in BOOLEAN, fails(j, retryable, halt)
  PROVE  QueueOK' /\ UNCHANGED manifest
<1>1. FailedStatus(j, retryable) \in JobStatus
  BY DEF FailedStatus, JobStatus
<1> DEFINE row == [job[j] EXCEPT !.status = FailedStatus(j, retryable), !.due = FALSE,
                                 !.owner = NoWorker, !.lease = "none"]
<1>2. row \in Job
  <2>1. job[j] \in Job
    BY DEF QueueOK
  <2>2. \A s \in JobStatus : [job[j] EXCEPT !.status = s, !.due = FALSE,
                                            !.owner = NoWorker, !.lease = "none"] \in Job
    BY <2>1 DEF Job
  <2> QED BY <1>1, <2>2
<1>3. job' \in [Jobs -> Job]
  <2>1. job' = [job EXCEPT ![j] = row] /\ job \in [Jobs -> Job]
    BY DEF fails, QueueOK
  <2> HIDE DEF row
  <2> QED BY <1>2, <2>1
<1>4. reservation' \in [Jobs -> Nat \cup {NoReservation}]
  BY DEF fails, WithoutReservation, QueueOK
<1> QED BY <1>3, <1>4 DEF QueueOK, fails

LEMMA CompletesOK ==
  ASSUME QueueOK, manifest \in Manifests, NEW j \in Jobs, NEW r \in Result,
         NEW cost \in Nat, completes(j, r, cost)
  PROVE  QueueOK' /\ UNCHANGED manifest
<1> USE MemoryAssumption, LocalAssumption
<1>1. Ceiling[manifest] \in Nat /\ Ceiling[manifest] <= HighestCeiling
  OBVIOUS
<1>2. spent' \in 0..HighestCeiling
  BY <1>1 DEF completes, CompletionRefused, QueueOK
<1> DEFINE row == [job[j] EXCEPT !.status = "SUCCEEDED"]
<1>3. row \in Job
  <2>1. job[j] \in Job
    BY DEF QueueOK
  <2> QED BY <2>1 DEF Job, JobStatus
<1>4. job' \in [Jobs -> Job]
  <2>1. job' = [job EXCEPT ![j] = row] /\ job \in [Jobs -> Job]
    BY DEF completes, QueueOK
  <2> HIDE DEF row
  <2> QED BY <1>3, <2>1
<1>5. /\ reservation' \in [Jobs -> Nat \cup {NoReservation}]
      /\ result' \in [Jobs -> Result \cup {NoResult}]
  BY DEF completes, WithoutReservation, WithResult, QueueOK
<1> QED BY <1>2, <1>4, <1>5 DEF QueueOK, completes

LEMMA ExtendedOK ==
  ASSUME QueueOK, NEW j \in Jobs, job' = Extended(j)
  PROVE  /\ job' \in [Jobs -> Job]
         /\ \A k \in Jobs : job'[k].status = job[k].status
<1>1. \A k \in Jobs : job'[k] \in Job /\ job'[k].status = job[k].status
  BY DEF QueueOK, Extended, Job
<1> QED BY <1>1 DEF Extended, QueueOK

LEMMA ClockOK ==
  ASSUME QueueOK, NEW j \in Jobs, backoffElapses(j) \/ leaseExpires(j)
  PROVE  QueueOK' /\ \A k \in Jobs : job'[k].status = job[k].status
<1>1. ASSUME NEW k \in Jobs
      PROVE  job'[k] \in Job /\ job'[k].status = job[k].status
  <2>1. job[k] \in Job
    BY DEF QueueOK
  <2>2. job'[k] \in {job[k], [job[k] EXCEPT !.due = TRUE], [job[k] EXCEPT !.lease = "expired"]}
    BY DEF QueueOK, backoffElapses, leaseExpires
  <2> QED BY <2>1, <2>2 DEF Job
<1>2. job' \in [Jobs -> Job]
  BY <1>1 DEF backoffElapses, leaseExpires, QueueOK
<1> QED BY <1>1, <1>2 DEF QueueOK, backoffElapses, leaseExpires

-----------------------------------------------------------------------------
(***************************************************************************)
(* What a task does to its slot.                                           *)
(***************************************************************************)
LEMMA LeaveOK ==
  ASSUME TaskOK, NEW s \in Slots, Leave(s), UNCHANGED <<manifest, history>>
  PROVE  TaskOK'
<1>1. Idle \in Task /\ Idle.pc = "idle"
  BY DEF Idle, Task
<1>2. task' \in [Slots -> Task]
  BY <1>1 DEF Leave, TaskOK
<1>3. \A t \in Slots : task'[t] = task[t] \/ task'[t] = Idle
  BY DEF Leave, TaskOK
<1> QED BY <1>1, <1>2, <1>3 DEF TaskOK, history

(***************************************************************************)
(* A task that is under way, with the manifest its handler has read.       *)
(***************************************************************************)
LEMMA AtWork ==
  ASSUME LocalInv, NEW s \in Slots, task[s].pc # "idle"
  PROVE  /\ task[s] \in Task
         /\ task[s].job \in Jobs
         /\ manifest \in Manifests
         /\ task[s].pc = "handle" => task[s].plan \in Manifests
BY DEF LocalInv, TaskOK

LEMMA FinishTyped ==
  ASSUME LocalInv, NEW s \in Slots, task[s].pc = "handle",
         NEW o \in PossibleEnds[task[s].plan]
  PROVE  /\ Cost(s) \in Nat
         /\ ResultOf(s, o) \in Result
         /\ o.ends = "result" => ResultOf(s, o).proof \in ProofDemanded(Evaluator[task[s].plan])
         /\ (o.ends = "retryable") \in BOOLEAN
<1>1. /\ task[s].plan \in Manifests
      /\ task[s].job \in Jobs
      /\ task[s].attempt \in Nat
  BY AtWork DEF Task
<1>2. Evaluator[task[s].plan] \in Policies
  BY <1>1, LocalAssumption
<1>3. o \in HandlerOutcomes(Evaluator[task[s].plan])
  BY <1>1 DEF PossibleEnds
<1>4. /\ o \in Outcomes
      /\ o.ends = "result" => o.proof \in ProofDemanded(Evaluator[task[s].plan])
  BY <1>2, <1>3, HandlerResults
<1>5. Cost(s) \in Nat
  BY <1>1, MemoryAssumption DEF Cost
<1>6. ResultOf(s, o) \in Result
  BY <1>1, <1>4 DEF ResultOf, Result, Outcomes
<1>7. ResultOf(s, o).proof = o.proof
  BY DEF ResultOf
<1> QED BY <1>4, <1>5, <1>6, <1>7

LEMMA FinishOK ==
  ASSUME LocalInv, NEW s \in Slots, Finish(s)
  PROVE  LocalInv'
<1>1. PICK o \in PossibleEnds[task[s].plan] :
         FinishCompleted(s, o) \/ FinishRefused(s, o) \/ FinishFailed(s, o)
  BY DEF Finish
<1>2. task[s].pc = "handle" /\ task[s].pc # "idle"
  BY DEF Finish
<1>3. task[s].job \in Jobs /\ manifest \in Manifests
  BY <1>2, AtWork
<1>4. /\ Cost(s) \in Nat
      /\ ResultOf(s, o) \in Result
      /\ (o.ends = "retryable") \in BOOLEAN
  BY <1>2, FinishTyped
<1>5. Leave(s) /\ UNCHANGED history
  BY <1>1 DEF FinishCompleted, FinishRefused, FinishFailed
<1>6. QueueOK' /\ UNCHANGED manifest
  <2>1. CASE FinishCompleted(s, o)
    BY <1>3, <1>4, <2>1, CompletesOK DEF FinishCompleted, LocalInv
  <2>2. CASE FinishRefused(s, o)
    BY <1>3, <2>2, FailsOK DEF FinishRefused, LocalInv
  <2>3. CASE FinishFailed(s, o)
    BY <1>3, <1>4, <2>3, FailsOK DEF FinishFailed, LocalInv
  <2> QED BY <1>1, <2>1, <2>2, <2>3
<1> QED BY <1>5, <1>6, LeaveOK DEF LocalInv, history

LEMMA StartOK ==
  ASSUME LocalInv, NEW s \in Slots, StartRefused(s) \/ StartFails(s) \/ StartHandler(s)
  PROVE  LocalInv'
<1>0. task[s].pc # "idle"
  BY DEF StartRefused, StartFails, StartHandler
<1>1. task[s] \in Task /\ task[s].job \in Jobs /\ manifest \in Manifests
  BY <1>0, AtWork
<1>2. CASE StartRefused(s) \/ StartFails(s)
  <2>1. Leave(s) /\ UNCHANGED history
    BY <1>2 DEF StartRefused, StartFails
  <2>2. QueueOK' /\ UNCHANGED manifest
    BY <1>1, <1>2, FailsOK DEF StartRefused, StartFails, LocalInv
  <2> QED BY <2>1, <2>2, LeaveOK DEF LocalInv, history
<1>3. CASE StartHandler(s)
  <2> DEFINE j == task[s].job
  <2>1. /\ job' = Extended(j)
        /\ reservation' = WithReservation(j)
        /\ UNCHANGED <<manifest, result, stopped, spent, history>>
        /\ task' = [task EXCEPT ![s].pc = "handle", ![s].plan = manifest, ![s].beat = TRUE]
    BY <1>3 DEF StartHandler
  <2>2. /\ job' \in [Jobs -> Job]
        /\ \A k \in Jobs : job'[k].status = job[k].status
    BY <1>1, <2>1, ExtendedOK DEF LocalInv
  <2>3. job[j].estimate \in Nat
    BY <1>1 DEF LocalInv, QueueOK, Job
  <2>4. reservation' \in [Jobs -> Nat \cup {NoReservation}]
    BY <1>1, <2>1, <2>3 DEF WithReservation, LocalInv, QueueOK
  <2>5. QueueOK'
    BY <2>1, <2>2, <2>4 DEF LocalInv, QueueOK
  <2> DEFINE new == [task[s] EXCEPT !.pc = "handle", !.plan = manifest, !.beat = TRUE]
  <2>6. task' = [task EXCEPT ![s] = new]
    BY <2>1 DEF LocalInv, TaskOK
  <2>7. new \in Task /\ new.job = j /\ new.plan = manifest
    BY <1>1 DEF Task
  <2> HIDE DEF new
  <2>8. task' \in [Slots -> Task]
    BY <2>6, <2>7 DEF LocalInv, TaskOK
  <2>9. \A t \in Slots : task'[t] = IF t = s THEN new ELSE task[t]
    BY <2>6 DEF LocalInv, TaskOK
  <2> QED BY <1>1, <2>1, <2>5, <2>7, <2>8, <2>9 DEF LocalInv, TaskOK, history
<1> QED BY <1>2, <1>3

LEMMA BeatOK ==
  ASSUME LocalInv, NEW s \in Slots, Beat(s)
  PROVE  LocalInv'
<1>0. task[s].pc # "idle" /\ UNCHANGED <<manifest, result, stopped, spent, reservation, history>>
  BY DEF Beat
<1>1. task[s] \in Task /\ task[s].job \in Jobs
  BY <1>0, AtWork
<1>2. CASE Owns(task[s].job, WorkerOf[s])
  <2>1. job' = Extended(task[s].job) /\ UNCHANGED task
    BY <1>2 DEF Beat
  <2>2. /\ job' \in [Jobs -> Job]
        /\ \A k \in Jobs : job'[k].status = job[k].status
    BY <1>1, <2>1, ExtendedOK DEF LocalInv
  <2> QED BY <1>0, <2>1, <2>2 DEF LocalInv, QueueOK, TaskOK, history
<1>3. CASE ~Owns(task[s].job, WorkerOf[s])
  <2>1. task' = [task EXCEPT ![s].beat = FALSE] /\ UNCHANGED job
    BY <1>3 DEF Beat
  <2>2. \A t \in Slots : /\ task'[t] \in Task
                         /\ task'[t].pc = task[t].pc
                         /\ task'[t].job = task[t].job
                         /\ task'[t].plan = task[t].plan
    BY <1>1, <2>1 DEF LocalInv, TaskOK, Task
  <2>3. task' \in [Slots -> Task]
    BY <2>1, <2>2 DEF LocalInv, TaskOK
  <2> QED BY <1>0, <2>1, <2>2, <2>3 DEF LocalInv, QueueOK, TaskOK, history
<1> QED BY <1>2, <1>3

LEMMA ClaimJobOK ==
  ASSUME LocalInv, NEW s \in Slots, NEW j \in Jobs, NEW passed, ClaimJob(s, j, passed)
  PROVE  LocalInv'
<1>1. QueueOK' /\ manifest \in Manifests /\ job[j].attempts \in Nat
  BY ClaimOK, LocalAssumption DEF ClaimJob, LocalInv
<1>2. manifest' = manifest /\ UNCHANGED history
  BY DEF ClaimJob, claim
<1> DEFINE new == [Idle EXCEPT !.pc = "claimed", !.job = j, !.attempt = job[j].attempts + 1]
<1>3. new \in Task /\ new.job = j /\ new.pc = "claimed"
  <2>1. \A n \in Nat : [Idle EXCEPT !.pc = "claimed", !.job = j, !.attempt = n] \in Task
    BY DEF Idle, Task
  <2>2. job[j].attempts + 1 \in Nat
    BY <1>1
  <2> QED BY <2>1, <2>2 DEF Idle
<1>4. task' = [task EXCEPT ![s] = new]
  BY DEF ClaimJob
<1> HIDE DEF new
<1>5. task' \in [Slots -> Task] /\ \A t \in Slots : task'[t] = IF t = s THEN new ELSE task[t]
  BY <1>3, <1>4 DEF LocalInv, TaskOK
<1> QED BY <1>1, <1>2, <1>3, <1>5 DEF LocalInv, TaskOK, history

(***************************************************************************)
(* The invariant of queue and tasks.                                       *)
(***************************************************************************)
LEMMA LocalInvInit ==
  ASSUME Init
  PROVE  LocalInv
<1>1. NoJobYet \in Job /\ NoJobYet.status = "ABSENT"
  BY DEF NoJobYet, Job, JobStatus
<1>2. job \in [Jobs -> Job] /\ \A j \in Jobs : job[j].status = "ABSENT"
  BY <1>1 DEF Init, memoryInit
<1>3. /\ result \in [Jobs -> Result \cup {NoResult}]
      /\ reservation \in [Jobs -> Nat \cup {NoReservation}]
  BY DEF Init, memoryInit
<1>4. spent \in 0..HighestCeiling /\ manifest = NoManifest /\ stopped = FALSE
  BY LocalAssumption DEF Init, memoryInit
<1>5. QueueOK
  BY <1>2, <1>3, <1>4 DEF QueueOK
<1>6. Idle \in Task /\ Idle.pc = "idle"
  BY DEF Idle, Task
<1> QED BY <1>5, <1>6 DEF Init, LocalInv, TaskOK

LEMMA LocalInvStep ==
  ASSUME LocalInv, [Next]_vars
  PROVE  LocalInv'
<1>1. ASSUME NEW m \in Manifests, NEW js \in SUBSET Configured[m], Schedule(m, js)
      PROVE  LocalInv'
  <2>1. QueueOK' /\ manifest' \in Manifests
    BY <1>1, ScheduleOK DEF Schedule, LocalInv, schedule
  <2>2. UNCHANGED <<task, lapses>> /\ replaced' \in BOOLEAN
    BY <1>1 DEF Schedule, LocalInv, TaskOK
  <2> QED BY <2>1, <2>2 DEF LocalInv, TaskOK
<1>2. ASSUME NEW s \in Slots, NEW j \in Jobs, NEW passed \in SUBSET Jobs,
             ClaimJob(s, j, passed)
      PROVE  LocalInv'
  BY <1>2, ClaimJobOK
<1>3. CASE FindNothing
  BY <1>3, ClaimsNothingOK DEF FindNothing, claimsNothing, LocalInv, TaskOK, history
<1>4. ASSUME NEW s \in Slots, TaskStep(s) PROVE LocalInv'
  BY <1>4, StartOK, FinishOK DEF TaskStep
<1>5. ASSUME NEW s \in Slots, Beat(s) PROVE LocalInv'
  BY <1>5, BeatOK
<1>6. CASE Stop \/ Resume
  BY <1>6 DEF Stop, Resume, stop, resume, LocalInv, QueueOK, TaskOK, history
<1>7. ASSUME NEW j \in Jobs, BackoffElapses(j) \/ LeaseRunsOut(j) PROVE LocalInv'
  <2>1. QueueOK' /\ UNCHANGED <<manifest, task, replaced>>
    BY <1>7, ClockOK
       DEF BackoffElapses, LeaseRunsOut, backoffElapses, leaseExpires, LocalInv, history
  <2>2. lapses' \in Nat
    BY <1>7 DEF BackoffElapses, LeaseRunsOut, LocalInv, TaskOK, history
  <2> QED BY <2>1, <2>2 DEF LocalInv, TaskOK
<1>8. CASE UNCHANGED vars
  BY <1>8 DEF vars, memoryVars, LocalInv, QueueOK, TaskOK, history
<1> QED BY <1>1, <1>2, <1>3, <1>4, <1>5, <1>6, <1>7, <1>8 DEF Next

THEOREM LocalInvariant == Spec => []LocalInv
<1>1. LocalInv /\ [Next]_vars => LocalInv'
  BY LocalInvStep
<1> QED BY <1>1, LocalInvInit, PTL DEF Spec

(***************************************************************************)
(* The dictionaries and the tasks keep their types; what is spent stays    *)
(* under the highest ceiling.                                              *)
(***************************************************************************)
THEOREM LocalTypeOK == Spec => []TypeOK
<1>1. LocalInv => TypeOK
  BY DEF LocalInv, QueueOK, TaskOK, TypeOK
<1> QED BY <1>1, LocalInvariant, PTL

-----------------------------------------------------------------------------
(***************************************************************************)
(* A step completes the job of a task whose handler came back, or it       *)
(* leaves results and costs alone and no job becomes SUCCEEDED.            *)
(***************************************************************************)
CompletesWith(s, o) ==
  /\ task[s].pc = "handle"
  /\ o.ends = "result"
  /\ completes(task[s].job, ResultOf(s, o), Cost(s))

NothingCompleted ==
  /\ UNCHANGED <<result, spent>>
  /\ \A k \in Jobs : job'[k].status = "SUCCEEDED" => job[k].status = "SUCCEEDED"

LEMMA FailsCompletesNothing ==
  ASSUME QueueOK, NEW j \in Jobs, NEW retryable, NEW halt, fails(j, retryable, halt)
  PROVE  NothingCompleted
<1>1. FailedStatus(j, retryable) # "SUCCEEDED"
  BY DEF FailedStatus
<1>2. \A k \in Jobs : job[k] \in Job
  BY DEF QueueOK
<1> QED BY <1>1, <1>2 DEF fails, QueueOK, NothingCompleted, Job

LEMMA StepCompletes ==
  ASSUME LocalInv, [Next]_vars
  PROVE  \/ NothingCompleted
         \/ \E s \in Slots : \E o \in PossibleEnds[task[s].plan] : CompletesWith(s, o)
<1> DEFINE Completed == \E s \in Slots :
                          \E o \in PossibleEnds[task[s].plan] : CompletesWith(s, o)
<1>0. QueueOK
  BY DEF LocalInv
<1>1. ASSUME NEW m \in Manifests, NEW js \in SUBSET Configured[m], Schedule(m, js)
      PROVE  NothingCompleted
  BY <1>0, <1>1 DEF Schedule, schedule, NoJobYet, NothingCompleted
<1>2. ASSUME NEW s \in Slots, NEW j \in Jobs, NEW passed \in SUBSET Jobs,
             ClaimJob(s, j, passed)
      PROVE  NothingCompleted
  <2>1. \A k \in Jobs : job[k] \in Job /\ Recovered(k).status = "PENDING"
    BY <1>0 DEF QueueOK, Recovered, Job
  <2>2. ASSUME NEW k \in Jobs PROVE k = j => job'[k].status = "LEASED"
    BY <1>2, <2>1 DEF ClaimJob, claim, Job
  <2>3. ASSUME NEW k \in Jobs, k # j
        PROVE  job'[k] = Recovered(k) \/ job'[k] = job[k]
    BY <1>2, <2>3 DEF ClaimJob, claim
  <2>4. UNCHANGED <<result, spent>>
    BY <1>2 DEF ClaimJob, claim
  <2> QED BY <2>1, <2>2, <2>3, <2>4 DEF NothingCompleted
<1>3. CASE FindNothing
  <2>1. \A k \in Jobs : job[k] \in Job /\ Recovered(k).status = "PENDING"
    BY <1>0 DEF QueueOK, Recovered, Job
  <2> QED BY <1>3, <2>1 DEF FindNothing, claimsNothing, NothingCompleted
<1>4. ASSUME NEW s \in Slots, TaskStep(s) PROVE NothingCompleted \/ Completed
  <2>0. task[s].pc # "idle"
    BY <1>4 DEF TaskStep, StartRefused, StartFails, StartHandler, Finish
  <2>1. task[s].job \in Jobs
    BY <2>0, AtWork
  <2>2. CASE StartRefused(s) \/ StartFails(s)
    BY <1>0, <2>1, <2>2, FailsCompletesNothing DEF StartRefused, StartFails
  <2>3. CASE StartHandler(s)
    BY <1>0, <2>1, <2>3, ExtendedOK DEF StartHandler, NothingCompleted
  <2>4. CASE Finish(s)
    <3>1. PICK o \in PossibleEnds[task[s].plan] :
            FinishCompleted(s, o) \/ FinishRefused(s, o) \/ FinishFailed(s, o)
      BY <2>4 DEF Finish
    <3>2. CASE FinishCompleted(s, o)
      BY <3>1, <3>2 DEF FinishCompleted, CompletesWith
    <3>3. CASE FinishRefused(s, o) \/ FinishFailed(s, o)
      BY <1>0, <2>1, <3>3, FailsCompletesNothing DEF FinishRefused, FinishFailed
    <3> QED BY <3>1, <3>2, <3>3
  <2> QED BY <1>4, <2>2, <2>3, <2>4 DEF TaskStep
<1>5. ASSUME NEW s \in Slots, Beat(s) PROVE NothingCompleted
  <2>1. task[s].job \in Jobs /\ UNCHANGED <<result, spent>>
    BY <1>5, AtWork DEF Beat
  <2>2. UNCHANGED job \/ job' = Extended(task[s].job)
    BY <1>5 DEF Beat
  <2> QED BY <1>0, <2>1, <2>2, ExtendedOK DEF NothingCompleted
<1>6. CASE Stop \/ Resume
  BY <1>6 DEF Stop, Resume, stop, resume, NothingCompleted
<1>7. ASSUME NEW j \in Jobs, BackoffElapses(j) \/ LeaseRunsOut(j) PROVE NothingCompleted
  BY <1>0, <1>7, ClockOK
     DEF BackoffElapses, LeaseRunsOut, backoffElapses, leaseExpires, NothingCompleted
<1>8. CASE UNCHANGED vars
  BY <1>8 DEF vars, memoryVars, NothingCompleted
<1> QED BY <1>1, <1>2, <1>3, <1>4, <1>5, <1>6, <1>7, <1>8 DEF Next

(***************************************************************************)
(* What a completion does: it charges within the highest ceiling and gives *)
(* the key a result if it has none.                                        *)
(***************************************************************************)
LEMMA CompletionRecords ==
  ASSUME LocalInv, NEW s \in Slots, NEW o \in PossibleEnds[task[s].plan], CompletesWith(s, o)
  PROVE  /\ task[s].job \in Jobs
         /\ ResultOf(s, o) \in Result
         /\ ResultOf(s, o).proof \in ProofDemanded(Evaluator[ResultOf(s, o).plan])
         /\ result' = WithResult(task[s].job, ResultOf(s, o))
         /\ job' = [job EXCEPT ![task[s].job].status = "SUCCEEDED"]
         /\ spent <= spent'
<1>1. task[s].pc = "handle" /\ task[s].pc # "idle"
  BY DEF CompletesWith
<1>2. task[s].job \in Jobs
  BY <1>1, AtWork
<1>3. /\ Cost(s) \in Nat
      /\ ResultOf(s, o) \in Result
      /\ ResultOf(s, o).proof \in ProofDemanded(Evaluator[task[s].plan])
  BY <1>1, FinishTyped DEF CompletesWith
<1>4. ResultOf(s, o).plan = task[s].plan
  BY DEF ResultOf
<1>5. spent \in Nat /\ spent' = spent + Cost(s)
  BY DEF LocalInv, QueueOK, CompletesWith, completes
<1>6. spent <= spent'
  BY <1>3, <1>5
<1> QED BY <1>2, <1>3, <1>4, <1>6 DEF CompletesWith, completes

(***************************************************************************)
(* A SUCCEEDED job has its result, and a result the evaluation that the    *)
(* manifest its handler read demands: for every set of manifests and       *)
(* whatever model and evaluator do.                                        *)
(***************************************************************************)
THEOREM LocalComparisonsComplete == Spec => []ComparisonsComplete
<1>1. ASSUME Init PROVE ComparisonsComplete
  <2>1. \A j \in Jobs : job[j].status = "ABSENT" /\ result[j] = NoResult
    BY <1>1 DEF Init, memoryInit, NoJobYet
  <2> QED BY <2>1 DEF ComparisonsComplete
<1>2. ASSUME LocalInv, ComparisonsComplete, [Next]_vars PROVE ComparisonsComplete'
  <2>1. CASE NothingCompleted
    BY <1>2, <2>1 DEF ComparisonsComplete, NothingCompleted
  <2>2. ASSUME NEW s \in Slots, NEW o \in PossibleEnds[task[s].plan], CompletesWith(s, o)
        PROVE  ComparisonsComplete'
    <3> DEFINE r == ResultOf(s, o)
               j == task[s].job
    <3>1. /\ j \in Jobs /\ r \in Result
          /\ r.proof \in ProofDemanded(Evaluator[r.plan])
          /\ result' = WithResult(j, r)
          /\ job' = [job EXCEPT ![j].status = "SUCCEEDED"]
      BY <1>2, <2>2, CompletionRecords
    <3>2. r # NoResult
      BY <3>1, ResultAssumption
    <3> HIDE DEF r, j
    <3>3. ASSUME NEW k \in Jobs
          PROVE  /\ k # j => result'[k] = result[k] /\ job'[k] = job[k]
                 /\ k = j => result'[k] # NoResult /\ result'[k] \in {r, result[k]}
      BY <1>2, <3>1, <3>2 DEF WithResult, LocalInv, QueueOK
    <3> QED BY <1>2, <3>1, <3>3 DEF ComparisonsComplete
  <2> QED BY <1>2, <2>1, <2>2, StepCompletes
<1>3. UNCHANGED vars /\ ComparisonsComplete => ComparisonsComplete'
  BY DEF vars, memoryVars, ComparisonsComplete
<1> QED BY <1>1, <1>2, LocalInvariant, PTL DEF Spec

(***************************************************************************)
(* The in-memory queue implements the session ledger: the first result of  *)
(* a key stays, whatever is replaced, lapses or fails, and what is spent   *)
(* stays under the highest ceiling.                                        *)
(***************************************************************************)
THEOREM LocalImplementsLedger == Spec => LedgerSpec
<1> DEFINE recorded == [j \in Jobs |-> AttemptOf(j)]
<1>1. Init => Ledger!LedgerInit
  BY DEF Init, memoryInit, AttemptOf, Ledger!LedgerInit
<1>2. ASSUME LocalInv, [Next]_vars PROVE [Ledger!LedgerNext]_<<recorded, spent>>
  <2>1. spent' \in 0..HighestCeiling /\ spent \in 0..HighestCeiling
    BY <1>2, LocalInvStep DEF LocalInv, QueueOK
  <2>2. CASE NothingCompleted
    BY <2>2 DEF NothingCompleted, AttemptOf
  <2>3. ASSUME NEW s \in Slots, NEW o \in PossibleEnds[task[s].plan], CompletesWith(s, o)
        PROVE  Ledger!LedgerNext
    <3> DEFINE r == ResultOf(s, o)
               j == task[s].job
    <3>1. /\ j \in Jobs /\ r \in Result
          /\ result' = WithResult(j, r)
          /\ spent <= spent'
      BY <1>2, <2>3, CompletionRecords
    <3>2. r # NoResult /\ r.attempt \in Nat
      BY <3>1, ResultAssumption DEF Result
    <3>3. Ledger!Charge
      BY <2>1, <3>1, LocalAssumption DEF Ledger!Charge
    <3> HIDE DEF r, j
    <3>4. CASE result[j] = NoResult
      <4>1. \A k \in Jobs : result'[k] = IF k = j THEN r ELSE result[k]
        BY <1>2, <3>1, <3>4 DEF WithResult, LocalInv, QueueOK
      <4>2. recorded[j] = NoResult /\ recorded'[j] = r.attempt
        BY <3>1, <3>2, <3>4, <4>1 DEF AttemptOf
      <4>3. recorded' = [recorded EXCEPT ![j] = recorded'[j]]
        BY <3>1, <3>2, <4>1, <4>2 DEF AttemptOf
      <4> QED BY <3>1, <3>2, <3>3, <4>2, <4>3 DEF Ledger!LedgerNext, Ledger!Record
    <3>5. CASE result[j] # NoResult
      <4>1. result' = result
        BY <3>1, <3>5 DEF WithResult
      <4> QED BY <3>3, <4>1 DEF AttemptOf, Ledger!LedgerNext, Ledger!ChargeAgain
    <3> QED BY <3>4, <3>5
  <2> QED BY <1>2, <2>2, <2>3, StepCompletes
<1> QED BY <1>1, <1>2, LocalInvariant, PTL DEF Spec, LedgerSpec, Ledger!LedgerSpec

-----------------------------------------------------------------------------
(***************************************************************************)
(* A task that leaves returns the reservation of its key; those of other   *)
(* keys have tasks of their own.                                           *)
(***************************************************************************)
LEMMA LeavingReleases ==
  ASSUME LocalInv, ReservationsWorked, NEW s \in Slots, Leave(s),
         task[s].job \in Jobs, reservation' = WithoutReservation(task[s].job)
  PROVE  ReservationsWorked'
<1> SUFFICES ASSUME NEW k \in Jobs, reservation'[k] # NoReservation
             PROVE  \E t \in Slots : task'[t].pc = "handle" /\ task'[t].job = k
  BY DEF ReservationsWorked, Reserved
<1>1. k # task[s].job /\ reservation[k] = reservation'[k]
  BY DEF WithoutReservation, LocalInv, QueueOK
<1>2. PICK t \in Slots : task[t].pc = "handle" /\ task[t].job = k
  BY <1>1 DEF ReservationsWorked, Reserved
<1>3. t # s
  BY <1>1, <1>2
<1>4. task'[t] = task[t]
  BY <1>3 DEF Leave, LocalInv, TaskOK
<1> QED BY <1>2, <1>4

(***************************************************************************)
(* No reservation outlives the work it was made for, however many attempts *)
(* share it and whatever becomes of them (queue.py 130, 141-160).          *)
(***************************************************************************)
THEOREM LocalReservationsWorked == Spec => []ReservationsWorked
<1>1. Init => ReservationsWorked
  BY DEF Init, memoryInit, ReservationsWorked, Reserved
<1>2. ASSUME LocalInv, ReservationsWorked, [Next]_vars PROVE ReservationsWorked'
  <2>1. CASE UNCHANGED <<reservation, task>>
    BY <1>2, <2>1 DEF ReservationsWorked, Reserved
  <2>2. ASSUME NEW s \in Slots, NEW j \in Jobs, NEW passed \in SUBSET Jobs,
               ClaimJob(s, j, passed)
        PROVE  ReservationsWorked'
    <3>1. UNCHANGED reservation /\ \A t \in Slots : task[t].pc = "handle" => task'[t] = task[t]
      BY <1>2, <2>2 DEF ClaimJob, claim, LocalInv, TaskOK
    <3> QED BY <1>2, <3>1 DEF ReservationsWorked, Reserved
  <2>3. ASSUME NEW s \in Slots, TaskStep(s) PROVE ReservationsWorked'
    <3>0. task[s].pc # "idle"
      BY <2>3 DEF TaskStep, StartRefused, StartFails, StartHandler, Finish
    <3>1. task[s].job \in Jobs /\ task[s] \in Task
      BY <1>2, <3>0, AtWork
    <3>2. CASE StartRefused(s) \/ StartFails(s) \/ Finish(s)
      <4>1. Leave(s) /\ reservation' = WithoutReservation(task[s].job)
        BY <3>2 DEF StartRefused, StartFails, Finish, FinishCompleted, FinishRefused,
                    FinishFailed, fails, completes
      <4> QED BY <1>2, <3>1, <4>1, LeavingReleases
    <3>3. CASE StartHandler(s)
      <4> DEFINE j == task[s].job
      <4>1. \A t \in Slots : /\ task'[t].job = task[t].job
                             /\ task[t].pc = "handle" => task'[t].pc = "handle"
        BY <1>2, <3>1, <3>3 DEF StartHandler, LocalInv, TaskOK, Task
      <4>2. task'[s].pc = "handle"
        BY <1>2, <3>1, <3>3 DEF StartHandler, LocalInv, TaskOK, Task
      <4>3. \A k \in Jobs : k # j => reservation'[k] = reservation[k]
        BY <1>2, <3>1, <3>3 DEF StartHandler, WithReservation, LocalInv, QueueOK
      <4> QED BY <1>2, <4>1, <4>2, <4>3 DEF ReservationsWorked, Reserved
    <3> QED BY <2>3, <3>2, <3>3 DEF TaskStep
  <2>4. ASSUME NEW s \in Slots, Beat(s) PROVE ReservationsWorked'
    <3>1. \A t \in Slots : task'[t].pc = task[t].pc /\ task'[t].job = task[t].job
      BY <1>2, <2>4 DEF Beat, LocalInv, TaskOK, Task
    <3>2. UNCHANGED reservation
      BY <2>4 DEF Beat
    <3> QED BY <1>2, <3>1, <3>2 DEF ReservationsWorked, Reserved
  <2>5. \/ UNCHANGED <<reservation, task>>
        \/ \E s \in Slots, j \in Jobs, passed \in SUBSET Jobs : ClaimJob(s, j, passed)
        \/ \E s \in Slots : TaskStep(s) \/ Beat(s)
    BY <1>2 DEF Next, vars, memoryVars, Schedule, schedule, FindNothing, claimsNothing,
                Stop, stop, Resume, resume, BackoffElapses, backoffElapses,
                LeaseRunsOut, leaseExpires
  <2> QED BY <2>1, <2>2, <2>3, <2>4, <2>5
<1> QED BY <1>1, <1>2, LocalInvariant, PTL DEF Spec

-----------------------------------------------------------------------------
(***************************************************************************)
(* As long as no lease has run out, a task that is under way has its job   *)
(* to itself, and a handler at work its reservation.                       *)
(***************************************************************************)
UnderWay(s) == task[s].pc # "idle"

Undisturbed ==
  lapses = 0 =>
    /\ \A j \in Jobs : job[j].lease # "expired"
    /\ \A s \in Slots : UnderWay(s) => job[task[s].job].status = "LEASED"
    /\ \A s, t \in Slots : s # t /\ UnderWay(s) /\ UnderWay(t) => task[s].job # task[t].job
    /\ \A s \in Slots : task[s].pc = "handle" => Reserved(task[s].job)

(***************************************************************************)
(* A task gives up: its job is failed and the slot is free again.          *)
(***************************************************************************)
GivesUp(s) ==
  /\ UnderWay(s)
  /\ Leave(s)
  /\ \E retryable, halt \in BOOLEAN : fails(task[s].job, retryable, halt)
  /\ UNCHANGED history

Delivers(s) ==
  /\ Leave(s)
  /\ \E o \in PossibleEnds[task[s].plan] : CompletesWith(s, o)
  /\ UNCHANGED history

LEMMA TaskStepCases ==
  ASSUME NEW s \in Slots, TaskStep(s)
  PROVE  UnderWay(s) /\ (GivesUp(s) \/ Delivers(s) \/ StartHandler(s))
<1>1. CASE StartRefused(s) \/ StartFails(s)
  BY <1>1 DEF StartRefused, StartFails, GivesUp, UnderWay
<1>2. CASE StartHandler(s)
  BY <1>2 DEF StartHandler, UnderWay
<1>3. CASE Finish(s)
  <2>1. PICK o \in PossibleEnds[task[s].plan] :
          FinishCompleted(s, o) \/ FinishRefused(s, o) \/ FinishFailed(s, o)
    BY <1>3 DEF Finish
  <2>2. (o.ends = "retryable") \in BOOLEAN
    OBVIOUS
  <2>3. CASE FinishCompleted(s, o)
    BY <2>3 DEF FinishCompleted, Delivers, CompletesWith, UnderWay
  <2>4. CASE FinishRefused(s, o) \/ FinishFailed(s, o)
    BY <2>2, <2>4 DEF FinishRefused, FinishFailed, GivesUp, UnderWay
  <2> QED
    BY <2>1, <2>3, <2>4
<1> QED
  BY <1>1, <1>2, <1>3 DEF TaskStep

(***************************************************************************)
(* A slot that leaves: its own job may change, and loses its reservation.  *)
(***************************************************************************)
LEMMA SlotLeaves ==
  ASSUME LocalInv, NEW s \in Slots, GivesUp(s) \/ Delivers(s)
  PROVE  LET j == task[s].job IN
         /\ j \in Jobs /\ UnderWay(s)
         /\ reservation' = WithoutReservation(j)
         /\ \A k \in Jobs \ {j} : job'[k] = job[k] /\ reservation'[k] = reservation[k]
         /\ reservation'[j] = NoReservation
         /\ job'[j].estimate = job[j].estimate
         /\ job'[j].lease = "none" \/ job'[j].lease = job[j].lease
         /\ \A t \in Slots \ {s} : task'[t] = task[t]
         /\ task'[s].pc = "idle"
         /\ UNCHANGED <<manifest, lapses, replaced>>
<1> DEFINE j == task[s].job
<1>1. UnderWay(s)
  BY DEF GivesUp, Delivers, CompletesWith, UnderWay
<1>2. j \in Jobs /\ job \in [Jobs -> Job] /\ reservation \in [Jobs -> Nat \cup {NoReservation}]
  BY <1>1, AtWork DEF UnderWay, LocalInv, QueueOK
<1>3. task' = [task EXCEPT ![s] = Idle] /\ task \in [Slots -> Task]
  BY DEF GivesUp, Delivers, Leave, LocalInv, TaskOK
<1>4. reservation' = WithoutReservation(j) /\ UNCHANGED <<manifest, lapses, replaced>>
  BY DEF GivesUp, Delivers, CompletesWith, completes, fails, history
<1>5. \/ job' = [job EXCEPT ![j].status = "SUCCEEDED"]
      \/ \E status : job' = [job EXCEPT ![j].status = status, ![j].due = FALSE,
                                        ![j].owner = NoWorker, ![j].lease = "none"]
  BY DEF GivesUp, Delivers, CompletesWith, completes, fails
<1> HIDE DEF j
<1>6. \A k \in Jobs \ {j} : job'[k] = job[k] /\ reservation'[k] = reservation[k]
  BY <1>2, <1>4, <1>5 DEF WithoutReservation
<1>7. /\ job'[j].estimate = job[j].estimate
      /\ job'[j].lease = "none" \/ job'[j].lease = job[j].lease
      /\ reservation'[j] = NoReservation
  <2>1. job[j] \in Job
    BY <1>2
  <2>2. CASE job' = [job EXCEPT ![j].status = "SUCCEEDED"]
    <3>1. job'[j] = [job[j] EXCEPT !.status = "SUCCEEDED"]
      BY <1>2, <2>2
    <3> QED
      BY <1>2, <1>4, <2>1, <3>1 DEF WithoutReservation, Job
  <2>3. ASSUME NEW status,
               job' = [job EXCEPT ![j].status = status, ![j].due = FALSE,
                                  ![j].owner = NoWorker, ![j].lease = "none"]
        PROVE  job'[j].estimate = job[j].estimate /\ job'[j].lease = "none"
    <3>1. job'[j] = [job[j] EXCEPT !.status = status, !.due = FALSE,
                                   !.owner = NoWorker, !.lease = "none"]
      BY <1>2, <2>3
    <3> QED
      BY <2>1, <3>1 DEF Job
  <2> QED
    BY <1>2, <1>4, <1>5, <2>2, <2>3 DEF WithoutReservation
<1>8. /\ \A t \in Slots \ {s} : task'[t] = task[t]
      /\ task'[s].pc = "idle"
  BY <1>3 DEF Idle
<1> QED
  BY <1>1, <1>2, <1>4, <1>6, <1>7, <1>8 DEF j

(***************************************************************************)
(* The start of a handler.                                                 *)
(***************************************************************************)
LEMMA HandlerStarts ==
  ASSUME LocalInv, NEW s \in Slots, StartHandler(s)
  PROVE  LET j == task[s].job IN
         /\ j \in Jobs /\ UnderWay(s) /\ manifest \in Manifests
         /\ ~ReservationRefused(j)
         /\ reservation' = WithReservation(j)
         /\ \A k \in Jobs : /\ job'[k].status = job[k].status
                            /\ job'[k].estimate = job[k].estimate
                            /\ job'[k].lease = "live" \/ job'[k].lease = job[k].lease
         /\ \A t \in Slots \ {s} : task'[t] = task[t]
         /\ task'[s].job = j /\ task'[s].plan = manifest /\ task'[s].pc = "handle"
         /\ UNCHANGED <<manifest, spent, lapses, replaced>>
<1> DEFINE j == task[s].job
<1>1. task[s].pc = "claimed"
  BY DEF StartHandler
<1>2. UnderWay(s) /\ j \in Jobs /\ manifest \in Manifests /\ task[s] \in Task
  BY <1>1, AtWork DEF UnderWay
<1>3. /\ ~ReservationRefused(j)
      /\ reservation' = WithReservation(j)
      /\ job' = Extended(j)
      /\ task' = [task EXCEPT ![s].pc = "handle", ![s].plan = manifest, ![s].beat = TRUE]
      /\ UNCHANGED <<manifest, spent, lapses, replaced>>
  BY DEF StartHandler, history
<1>4. task \in [Slots -> Task] /\ job \in [Jobs -> Job]
  BY DEF LocalInv, TaskOK, QueueOK
<1>5. /\ \A t \in Slots \ {s} : task'[t] = task[t]
      /\ task'[s] = [task[s] EXCEPT !.pc = "handle", !.plan = manifest, !.beat = TRUE]
  BY <1>3, <1>4
<1>6. task'[s].job = j /\ task'[s].plan = manifest /\ task'[s].pc = "handle"
  BY <1>2, <1>5 DEF Task
<1> HIDE DEF j
<1>7. \A k \in Jobs : /\ job'[k].status = job[k].status
                      /\ job'[k].estimate = job[k].estimate
                      /\ job'[k].lease = "live" \/ job'[k].lease = job[k].lease
  BY <1>2, <1>3, <1>4 DEF Extended, Job
<1> QED
  BY <1>2, <1>3, <1>5, <1>6, <1>7 DEF j

(***************************************************************************)
(* A claim without an abandoned job takes a job that nobody works on.      *)
(***************************************************************************)
LEMMA CalmClaim ==
  ASSUME LocalInv, Undisturbed, lapses = 0,
         NEW s \in Slots, NEW j \in Jobs, NEW passed \in SUBSET Jobs, ClaimJob(s, j, passed)
  PROVE  Undisturbed'
<1>1. /\ job \in [Jobs -> Job] /\ task \in [Slots -> Task] /\ Due(j)
      /\ task[s].pc = "idle"
      /\ \A k \in Jobs : job[k].lease # "expired"
      /\ \A t \in Slots : UnderWay(t) => job[task[t].job].status = "LEASED"
      /\ \A t, u \in Slots : t # u /\ UnderWay(t) /\ UnderWay(u) => task[t].job # task[u].job
      /\ \A t \in Slots : task[t].pc = "handle" => Reserved(task[t].job)
      /\ \A t \in Slots : UnderWay(t) => task[t].job \in Jobs
  BY AtWork DEF ClaimJob, claim, LocalInv, TaskOK, QueueOK, Undisturbed, UnderWay
<1>2. passed = {}
  BY <1>1 DEF ClaimJob, claim, Abandoned
<1>3. /\ \A k \in Jobs \ {j} : job'[k] = job[k]
      /\ job'[j] = [job[j] EXCEPT !.status = "LEASED", !.owner = WorkerOf[s],
                                  !.lease = "live", !.attempts = @ + 1]
  BY <1>2 DEF ClaimJob, claim
<1>4. job'[j].status = "LEASED" /\ job'[j].lease = "live"
  BY <1>1, <1>3 DEF Job
<1>5. /\ \A t \in Slots \ {s} : task'[t] = task[t]
      /\ task'[s].job = j /\ task'[s].pc = "claimed"
  BY <1>1 DEF ClaimJob, Idle
<1>6. \A t \in Slots : UnderWay(t) => task[t].job # j /\ t # s
  BY <1>1 DEF Due, UnderWay
<1>7. UNCHANGED reservation
  BY DEF ClaimJob, claim
<1>8. \A k \in Jobs : job'[k].lease # "expired"
  BY <1>1, <1>3, <1>4
<1>9. ASSUME NEW t \in Slots, UnderWay(t)' PROVE job'[task'[t].job].status = "LEASED"
  <2>1. CASE t = s
    BY <1>4, <1>5, <2>1
  <2>2. CASE t # s
    <3>1. UnderWay(t) /\ task'[t] = task[t]
      BY <1>5, <1>9, <2>2 DEF UnderWay
    <3> QED
      BY <1>1, <1>3, <1>6, <3>1
  <2> QED
    BY <2>1, <2>2
<1>10. ASSUME NEW t \in Slots, NEW u \in Slots, t # u, UnderWay(t)', UnderWay(u)'
       PROVE  task'[t].job # task'[u].job
  BY <1>1, <1>5, <1>6, <1>10 DEF UnderWay
<1>11. ASSUME NEW t \in Slots, task'[t].pc = "handle" PROVE reservation'[task'[t].job] # NoReservation
  BY <1>1, <1>5, <1>7, <1>11 DEF Reserved
<1> QED
  BY <1>8, <1>9, <1>10, <1>11 DEF Undisturbed, Reserved

(***************************************************************************)
(* A step of a task disturbs none of the others.                           *)
(***************************************************************************)
LEMMA CalmTask ==
  ASSUME LocalInv, Undisturbed, lapses = 0, NEW s \in Slots, TaskStep(s)
  PROVE  Undisturbed'
<1> DEFINE j == task[s].job
<1>1. /\ \A k \in Jobs : job[k].lease # "expired"
      /\ \A t \in Slots : UnderWay(t) => job[task[t].job].status = "LEASED"
      /\ \A t, u \in Slots : t # u /\ UnderWay(t) /\ UnderWay(u) => task[t].job # task[u].job
      /\ \A t \in Slots : task[t].pc = "handle" => Reserved(task[t].job)
      /\ \A t \in Slots : UnderWay(t) => task[t].job \in Jobs
      /\ reservation \in [Jobs -> Nat \cup {NoReservation}]
  BY AtWork DEF LocalInv, QueueOK, Undisturbed, UnderWay
<1>2. CASE GivesUp(s) \/ Delivers(s)
  <2>1. /\ j \in Jobs /\ UnderWay(s)
        /\ \A k \in Jobs \ {j} : job'[k] = job[k] /\ reservation'[k] = reservation[k]
        /\ job'[j].lease = "none" \/ job'[j].lease = job[j].lease
        /\ \A t \in Slots \ {s} : task'[t] = task[t]
        /\ task'[s].pc = "idle"
    BY <1>2, SlotLeaves
  <2>2. \A t \in Slots : UnderWay(t)' => t # s /\ UnderWay(t) /\ task'[t] = task[t]
                                         /\ task[t].job \in Jobs \ {j}
    BY <1>1, <2>1 DEF UnderWay
  <2> HIDE DEF j
  <2>3. \A k \in Jobs : job'[k].lease # "expired"
    BY <1>1, <2>1
  <2>4. \A t \in Slots : UnderWay(t)' => job'[task'[t].job].status = "LEASED"
    BY <1>1, <2>1, <2>2
  <2>5. \A t, u \in Slots : t # u /\ UnderWay(t)' /\ UnderWay(u)' => task'[t].job # task'[u].job
    BY <1>1, <2>2
  <2>6. \A t \in Slots : task'[t].pc = "handle" => reservation'[task'[t].job] # NoReservation
    <3> SUFFICES ASSUME NEW t \in Slots, task'[t].pc = "handle"
                 PROVE  reservation'[task'[t].job] # NoReservation
      OBVIOUS
    <3>1. UnderWay(t)'
      BY DEF UnderWay
    <3> QED
      BY <1>1, <2>1, <2>2, <3>1 DEF Reserved
  <2> QED
    BY <2>3, <2>4, <2>5, <2>6 DEF Undisturbed, Reserved
<1>3. CASE StartHandler(s)
  <2>1. /\ j \in Jobs /\ UnderWay(s)
        /\ reservation' = WithReservation(j)
        /\ \A k \in Jobs : /\ job'[k].status = job[k].status
                           /\ job'[k].lease = "live" \/ job'[k].lease = job[k].lease
        /\ \A t \in Slots \ {s} : task'[t] = task[t]
        /\ task'[s].job = j /\ task'[s].pc = "handle"
    BY <1>3, HandlerStarts
  <2>2. \A t \in Slots : task'[t].job = task[t].job /\ (UnderWay(t)' <=> UnderWay(t))
    BY <2>1 DEF UnderWay
  <2>3. job[j].estimate # NoReservation
    BY <2>1, MemoryAssumption DEF LocalInv, QueueOK, Job
  <2> HIDE DEF j
  <2>4. /\ reservation'[j] # NoReservation
        /\ \A k \in Jobs \ {j} : reservation'[k] = reservation[k]
    BY <1>1, <2>1, <2>3 DEF WithReservation, Reserved
  <2>5. \A k \in Jobs : job'[k].lease # "expired"
    BY <1>1, <2>1
  <2>6. \A t \in Slots : UnderWay(t)' => job'[task'[t].job].status = "LEASED"
    BY <1>1, <2>1, <2>2
  <2>7. \A t, u \in Slots : t # u /\ UnderWay(t)' /\ UnderWay(u)' => task'[t].job # task'[u].job
    BY <1>1, <2>2
  <2>8. \A t \in Slots : task'[t].pc = "handle" => reservation'[task'[t].job] # NoReservation
    <3> SUFFICES ASSUME NEW t \in Slots, task'[t].pc = "handle"
                 PROVE  reservation'[task'[t].job] # NoReservation
      OBVIOUS
    <3>1. CASE t = s
      BY <2>1, <2>4, <3>1
    <3>2. CASE t # s
      <4>1. task'[t] = task[t] /\ UnderWay(t) /\ Reserved(task[t].job) /\ task[t].job \in Jobs
        BY <1>1, <2>1, <3>2 DEF UnderWay
      <4> QED
        BY <2>4, <4>1 DEF Reserved
    <3> QED
      BY <3>1, <3>2
  <2> QED
    BY <2>5, <2>6, <2>7, <2>8 DEF Undisturbed, Reserved
<1> QED
  BY <1>2, <1>3, TaskStepCases

LEMMA UndisturbedStep ==
  ASSUME LocalInv, Undisturbed, [Next]_vars
  PROVE  Undisturbed'
<1> SUFFICES ASSUME lapses' = 0 PROVE Undisturbed'
  BY DEF Undisturbed
<1>0. lapses \in Nat
  BY DEF LocalInv, TaskOK
<1>1. \A j \in Jobs : ~LeaseRunsOut(j)
  BY <1>0 DEF LeaseRunsOut
<1>2. lapses = 0
  BY <1>1 DEF Next, vars, history, Schedule, ClaimJob, FindNothing, TaskStep, StartRefused,
              StartFails, StartHandler, Finish, FinishCompleted, FinishRefused, FinishFailed,
              Beat, Stop, Resume, BackoffElapses
<1>3. /\ \A k \in Jobs : job[k].lease # "expired"
      /\ \A t \in Slots : UnderWay(t) => job[task[t].job].status = "LEASED"
      /\ \A t, u \in Slots : t # u /\ UnderWay(t) /\ UnderWay(u) => task[t].job # task[u].job
      /\ \A t \in Slots : task[t].pc = "handle" => Reserved(task[t].job)
      /\ \A t \in Slots : UnderWay(t) => task[t].job \in Jobs
  BY <1>2, AtWork DEF Undisturbed, UnderWay
<1>4. job \in [Jobs -> Job] /\ task \in [Slots -> Task]
  BY DEF LocalInv, QueueOK, TaskOK
<1>5. ASSUME \A k \in Jobs : /\ job'[k].lease # "expired"
                             /\ job[k].status = "LEASED" => job'[k].status = "LEASED",
             \A t \in Slots : task'[t].pc = task[t].pc /\ task'[t].job = task[t].job,
             UNCHANGED reservation
      PROVE  Undisturbed'
  BY <1>3, <1>5 DEF Undisturbed, UnderWay, Reserved
<1>6. ASSUME NEW m \in Manifests, NEW js \in SUBSET Configured[m], Schedule(m, js)
      PROVE  Undisturbed'
  <2>1. \A k \in Jobs : \/ job'[k] = job[k]
                        \/ job[k].status = "ABSENT" /\ job'[k].lease = "none"
    BY <1>6 DEF Schedule, schedule, NoJobYet
  <2>2. UNCHANGED <<task, reservation>>
    BY <1>6 DEF Schedule, schedule
  <2> QED
    BY <1>3, <1>5, <2>1, <2>2
<1>7. ASSUME NEW s \in Slots, Beat(s) PROVE Undisturbed'
  <2>1. task[s].job \in Jobs
    BY <1>7, AtWork DEF Beat
  <2>2. UNCHANGED job \/ job' = Extended(task[s].job)
    BY <1>7 DEF Beat
  <2>3. \A k \in Jobs : /\ job'[k].status = job[k].status
                        /\ job'[k].lease = "live" \/ job'[k].lease = job[k].lease
    BY <1>4, <2>1, <2>2 DEF Extended, Job
  <2>4. \A t \in Slots : task'[t].pc = task[t].pc /\ task'[t].job = task[t].job
    BY <1>4, <1>7 DEF Beat, Task
  <2>5. UNCHANGED reservation
    BY <1>7 DEF Beat
  <2> QED
    BY <1>3, <1>5, <2>3, <2>4, <2>5
<1>8. CASE FindNothing
  <2>1. \A k \in Jobs : ~Abandoned(k)
    BY <1>3 DEF Abandoned
  <2> QED
    BY <1>8, <2>1 DEF FindNothing, claimsNothing
<1>9. CASE Stop \/ Resume
  BY <1>3, <1>5, <1>9 DEF Stop, Resume, stop, resume
<1>10. ASSUME NEW j \in Jobs, BackoffElapses(j) PROVE Undisturbed'
  <2>1. \A k \in Jobs : job'[k].status = job[k].status /\ job'[k].lease = job[k].lease
    BY <1>4, <1>10 DEF BackoffElapses, backoffElapses, Job
  <2>2. UNCHANGED <<task, reservation>>
    BY <1>10 DEF BackoffElapses, backoffElapses
  <2> QED
    BY <1>3, <1>5, <2>1, <2>2
<1>11. CASE UNCHANGED vars
  BY <1>3, <1>5, <1>11 DEF vars, memoryVars
<1> QED
  BY <1>1, <1>2, <1>6, <1>7, <1>8, <1>9, <1>10, <1>11, CalmClaim, CalmTask DEF Next

-----------------------------------------------------------------------------
(***************************************************************************)
(* Before a manifest is scheduled there is nothing to account for; as long *)
(* as it has not been replaced every job, reservation and handler goes by  *)
(* its estimates.                                                          *)
(***************************************************************************)
Unscheduled == manifest = NoManifest => spent = 0 /\ \A j \in Jobs : ~Reserved(j)

ByTheManifest ==
  manifest # NoManifest /\ ~replaced =>
    /\ \A j \in Jobs : job[j].status # "ABSENT" => job[j].estimate = Estimate[manifest][j]
    /\ \A j \in Jobs : Reserved(j) => reservation[j] = Estimate[manifest][j]
    /\ \A s \in Slots : task[s].pc = "handle" => task[s].plan = manifest

Amount(j) == IF Reserved(j) THEN reservation[j] ELSE 0

LEMMA ReservedMoves ==
  ASSUME QueueOK, QueueOK', NEW j \in Jobs,
         \A k \in Jobs \ {j} : reservation'[k] = reservation[k]
  PROVE  /\ TotalReserved \in Int
         /\ TotalReserved' = TotalReserved - Amount(j) + Amount(j)'
<1> DEFINE f == [k \in Jobs |-> IF Reserved(k) THEN reservation[k] ELSE 0]
           g == [k \in Jobs |-> IF reservation'[k] # NoReservation THEN reservation'[k] ELSE 0]
<1>1. f \in [Jobs -> Int] /\ g \in [Jobs -> Int]
  BY DEF QueueOK, Reserved
<1>2. \A k \in Jobs \ {j} : f[k] = g[k]
  BY DEF Reserved
<1>3. f[j] = Amount(j) /\ g[j] = Amount(j)'
  BY DEF Amount, Reserved
<1>4. TotalReserved = SumFunction(f) /\ TotalReserved' = SumFunction(g)
  BY DEF TotalReserved, Reserved
<1> HIDE DEF f, g
<1>5. SumFunction(f) \in Int
  BY <1>1, MemoryAssumption, TotalInt
<1>6. SumFunction(g) = SumFunction(f) - f[j] + g[j]
  BY <1>1, <1>2, MemoryAssumption, TotalChange
<1> QED
  BY <1>3, <1>4, <1>5, <1>6

LEMMA NothingReserved ==
  ASSUME QueueOK, \A j \in Jobs : ~Reserved(j)
  PROVE  TotalReserved = 0
<1> DEFINE f == [k \in Jobs |-> IF Reserved(k) THEN reservation[k] ELSE 0]
<1>1. f \in [Jobs -> Int] /\ \A k \in Jobs : f[k] = 0
  OBVIOUS
<1>2. TotalReserved = SumFunction(f)
  BY DEF TotalReserved
<1> HIDE DEF f
<1> QED
  BY <1>1, <1>2, MemoryAssumption, TotalZero

(***************************************************************************)
(* A job stays with the estimate it was scheduled with, and only a job     *)
(* that was scheduled is worked on.                                        *)
(***************************************************************************)
Known == \A s \in Slots : UnderWay(s) => job[task[s].job].status # "ABSENT"

JobStays(k) ==
  /\ job[k].status # "ABSENT" => job'[k].status # "ABSENT"
  /\ job'[k].status # "ABSENT" =>
       \/ job[k].status # "ABSENT" /\ job'[k].estimate = job[k].estimate
       \/ job'[k].estimate = Estimate[manifest'][k]

LEMMA JobsStay ==
  ASSUME LocalInv, Known, [Next]_vars, NEW k \in Jobs
  PROVE  JobStays(k)
<1>0. job \in [Jobs -> Job] /\ task \in [Slots -> Task] /\ job[k] \in Job
  BY DEF LocalInv, QueueOK, TaskOK
<1>1. ASSUME NEW m \in Manifests, NEW js \in SUBSET Configured[m], Schedule(m, js)
      PROVE  JobStays(k)
  <2>1. manifest' = m
    BY <1>1 DEF Schedule, schedule
  <2>2. CASE job'[k] = job[k]
    BY <2>2 DEF JobStays
  <2>3. CASE job'[k] # job[k]
    <3>1. /\ job[k].status = "ABSENT"
          /\ job'[k] = [NoJobYet EXCEPT !.status = "PENDING", !.due = TRUE,
                                        !.estimate = Estimate[m][k]]
      BY <1>1, <2>3 DEF Schedule, schedule
    <3>2. job'[k].estimate = Estimate[m][k]
      BY <3>1 DEF NoJobYet
    <3> QED
      BY <2>1, <3>1, <3>2 DEF JobStays
  <2> QED
    BY <2>2, <2>3
<1>2. ASSUME NEW s \in Slots, NEW j \in Jobs, NEW passed \in SUBSET Jobs, ClaimJob(s, j, passed)
      PROVE  JobStays(k)
  <2>1. CASE k = j
    <3>1. job[k].status # "ABSENT"
      BY <1>2, <2>1 DEF ClaimJob, claim, Due
    <3>2. job'[k] = [job[k] EXCEPT !.status = "LEASED", !.owner = WorkerOf[s],
                                   !.lease = "live", !.attempts = @ + 1]
      BY <1>2, <2>1 DEF ClaimJob, claim
    <3>3. job'[k].status = "LEASED" /\ job'[k].estimate = job[k].estimate
      BY <1>0, <3>2 DEF Job
    <3> QED
      BY <3>1, <3>3 DEF JobStays
  <2>2. CASE k # j /\ k \in passed
    <3>1. Abandoned(k) /\ job'[k] = Recovered(k)
      BY <1>2, <2>2 DEF ClaimJob, claim
    <3> QED
      BY <1>0, <3>1 DEF Abandoned, Recovered, Job, JobStays
  <2>3. CASE k # j /\ k \notin passed
    <3>1. job'[k] = job[k]
      BY <1>2, <2>3 DEF ClaimJob, claim
    <3> QED
      BY <3>1 DEF JobStays
  <2> QED
    BY <2>1, <2>2, <2>3
<1>3. CASE FindNothing
  <2>1. job'[k] = IF Abandoned(k) THEN Recovered(k) ELSE job[k]
    BY <1>3 DEF FindNothing, claimsNothing
  <2> QED
    BY <1>0, <2>1 DEF Abandoned, Recovered, Job, JobStays
<1>4. ASSUME NEW s \in Slots, TaskStep(s) PROVE JobStays(k)
  <2>1. UnderWay(s) /\ (GivesUp(s) \/ Delivers(s) \/ StartHandler(s))
    BY <1>4, TaskStepCases
  <2>2. job[task[s].job].status # "ABSENT"
    BY <2>1 DEF Known
  <2>3. CASE StartHandler(s)
    BY <2>3, HandlerStarts DEF JobStays
  <2>4. CASE GivesUp(s) \/ Delivers(s)
    <3>1. /\ k # task[s].job => job'[k] = job[k]
          /\ k = task[s].job => job'[k].estimate = job[k].estimate
      BY <2>4, SlotLeaves
    <3>2. k = task[s].job => job'[k].status # "ABSENT"
      <4>1. ASSUME Delivers(s), k = task[s].job PROVE job'[k].status # "ABSENT"
        BY <1>0, <4>1 DEF Delivers, CompletesWith, completes
      <4>2. ASSUME NEW retryable \in BOOLEAN, NEW halt \in BOOLEAN, k = task[s].job,
                   fails(task[s].job, retryable, halt)
            PROVE  job'[k].status # "ABSENT"
        <5>1. job'[k].status = FailedStatus(k, retryable)
          BY <1>0, <4>2 DEF fails
        <5> QED
          BY <5>1 DEF FailedStatus
      <4> QED
        BY <2>4, <4>1, <4>2 DEF GivesUp
    <3> QED
      BY <2>2, <3>1, <3>2 DEF JobStays
  <2> QED
    BY <2>1, <2>3, <2>4
<1>5. ASSUME NEW s \in Slots, Beat(s) PROVE JobStays(k)
  <2>1. task[s].job \in Jobs /\ (UNCHANGED job \/ job' = Extended(task[s].job))
    BY <1>5, AtWork DEF Beat
  <2>2. job'[k].status = job[k].status /\ job'[k].estimate = job[k].estimate
    BY <1>0, <2>1 DEF Extended, Job
  <2> QED
    BY <2>2 DEF JobStays
<1>6. CASE Stop \/ Resume
  BY <1>6 DEF Stop, Resume, stop, resume, JobStays
<1>7. ASSUME NEW j \in Jobs, BackoffElapses(j) \/ LeaseRunsOut(j) PROVE JobStays(k)
  <2>1. job'[k].status = job[k].status /\ job'[k].estimate = job[k].estimate
    BY <1>0, <1>7 DEF BackoffElapses, backoffElapses, LeaseRunsOut, leaseExpires, Job
  <2> QED
    BY <2>1 DEF JobStays
<1>8. CASE UNCHANGED vars
  BY <1>8 DEF vars, memoryVars, JobStays
<1> QED
  BY <1>1, <1>2, <1>3, <1>4, <1>5, <1>6, <1>7, <1>8 DEF Next

(***************************************************************************)
(* A step schedules, works on the budget, or leaves the budget alone.      *)
(***************************************************************************)
LeavesAccounts ==
  /\ UNCHANGED <<manifest, replaced, spent, reservation>>
  /\ lapses <= lapses'
  /\ \A t \in Slots :
       \/ /\ task'[t].pc # "handle"
          /\ UnderWay(t)' => job'[task'[t].job].status # "ABSENT"
       \/ /\ task'[t].pc = task[t].pc /\ task'[t].job = task[t].job
          /\ task'[t].plan = task[t].plan

LEMMA AccountCases ==
  ASSUME LocalInv, [Next]_vars
  PROVE  \/ \E m \in Manifests : \E js \in SUBSET Configured[m] : Schedule(m, js)
         \/ \E s \in Slots : TaskStep(s)
         \/ LeavesAccounts
<1>0. job \in [Jobs -> Job] /\ task \in [Slots -> Task] /\ lapses \in Nat
  BY DEF LocalInv, QueueOK, TaskOK
<1>1. ASSUME NEW s \in Slots, NEW j \in Jobs, NEW passed \in SUBSET Jobs, ClaimJob(s, j, passed)
      PROVE  LeavesAccounts
  <2>1. \A t \in Slots \ {s} : task'[t] = task[t]
    BY <1>0, <1>1 DEF ClaimJob
  <2>2. task'[s].pc = "claimed" /\ task'[s].job = j
    BY <1>0, <1>1 DEF ClaimJob, Idle
  <2>3. job'[j].status = "LEASED"
    BY <1>0, <1>1 DEF ClaimJob, claim, Job
  <2>4. UNCHANGED <<manifest, replaced, spent, reservation, lapses>>
    BY <1>1 DEF ClaimJob, claim, history
  <2> QED
    BY <1>0, <2>1, <2>2, <2>3, <2>4 DEF LeavesAccounts
<1>2. ASSUME NEW s \in Slots, Beat(s) PROVE LeavesAccounts
  <2>1. \A t \in Slots : /\ task'[t].pc = task[t].pc /\ task'[t].job = task[t].job
                         /\ task'[t].plan = task[t].plan
    BY <1>0, <1>2 DEF Beat, Task
  <2>2. UNCHANGED <<manifest, replaced, spent, reservation, lapses>>
    BY <1>2 DEF Beat, history
  <2> QED
    BY <1>0, <2>1, <2>2 DEF LeavesAccounts
<1>3. CASE FindNothing \/ Stop \/ Resume \/ UNCHANGED vars
  BY <1>0, <1>3 DEF FindNothing, claimsNothing, Stop, stop, Resume, resume, vars, memoryVars,
                    LeavesAccounts, history
<1>4. ASSUME NEW j \in Jobs, BackoffElapses(j) \/ LeaseRunsOut(j) PROVE LeavesAccounts
  BY <1>0, <1>4 DEF BackoffElapses, backoffElapses, LeaseRunsOut, leaseExpires, LeavesAccounts,
                    history
<1> QED
  BY <1>1, <1>2, <1>3, <1>4 DEF Next

BudgetInv == Known /\ Undisturbed /\ Unscheduled /\ ByTheManifest /\ NothingOverdrawn

LEMMA BudgetInit == Init => BudgetInv
<1> SUFFICES ASSUME Init PROVE BudgetInv
  OBVIOUS
<1>1. /\ \A s \in Slots : task[s].pc = "idle"
      /\ \A j \in Jobs : job[j].lease = "none" /\ ~Reserved(j)
      /\ manifest = NoManifest /\ spent = 0
  BY DEF Init, memoryInit, Idle, NoJobYet, Reserved
<1> QED
  BY <1>1 DEF BudgetInv, Known, Undisturbed, Unscheduled, ByTheManifest, NothingOverdrawn, UnderWay

LEMMA KnownStep ==
  ASSUME LocalInv, Known, [Next]_vars
  PROVE  Known'
<1> SUFFICES ASSUME NEW t \in Slots, UnderWay(t)'
             PROVE  job'[task'[t].job].status # "ABSENT"
  BY DEF Known
<1>1. ASSUME UnderWay(t), task'[t].job = task[t].job
      PROVE  job'[task'[t].job].status # "ABSENT"
  <2>1. task[t].job \in Jobs /\ job[task[t].job].status # "ABSENT"
    BY <1>1, AtWork DEF UnderWay, Known
  <2> QED
    BY <1>1, <2>1, JobsStay DEF JobStays
<1>2. ASSUME NEW m \in Manifests, NEW js \in SUBSET Configured[m], Schedule(m, js)
      PROVE  UnderWay(t) /\ task'[t].job = task[t].job
  BY <1>2 DEF Schedule, UnderWay
<1>3. ASSUME NEW s \in Slots, TaskStep(s)
      PROVE  UnderWay(t) /\ task'[t].job = task[t].job
  BY <1>3, TaskStepCases, SlotLeaves, HandlerStarts DEF UnderWay
<1> QED
  BY <1>1, <1>2, <1>3, AccountCases DEF LeavesAccounts, UnderWay

(***************************************************************************)
(* The first manifest finds empty books; the same one again changes none.  *)
(***************************************************************************)
LEMMA ScheduleBudget ==
  ASSUME LocalInv, BudgetInv, NEW m \in Manifests, NEW js \in SUBSET Configured[m],
         Schedule(m, js), \A k \in Jobs : JobStays(k)
  PROVE  Unscheduled' /\ ByTheManifest' /\ NothingOverdrawn'
<1>1. /\ manifest' = m /\ m # NoManifest
      /\ UNCHANGED <<spent, reservation, task, lapses>>
      /\ ~replaced' => manifest \in {m, NoManifest} /\ ~replaced
  BY MemoryAssumption DEF Schedule, schedule
<1>2. TotalReserved' = TotalReserved /\ \A k \in Jobs : Reserved(k)' <=> Reserved(k)
  BY <1>1 DEF TotalReserved, Reserved
<1>3. CASE replaced'
  BY <1>1, <1>3 DEF Unscheduled, ByTheManifest, NothingOverdrawn
<1>4. CASE ~replaced' /\ manifest = m
  <2>1. ByTheManifest'
    BY <1>1, <1>2, <1>4 DEF BudgetInv, ByTheManifest, JobStays
  <2>2. NothingOverdrawn'
    BY <1>1, <1>2, <1>4 DEF BudgetInv, NothingOverdrawn
  <2> QED
    BY <1>1, <2>1, <2>2 DEF Unscheduled
<1>5. CASE ~replaced' /\ manifest = NoManifest
  <2>1. /\ \A k \in Jobs : job[k].status = "ABSENT"
        /\ \A s \in Slots : task[s].pc = "idle"
    BY <1>5, MemoryAssumption DEF LocalInv, QueueOK, TaskOK
  <2>2. spent = 0 /\ \A k \in Jobs : ~Reserved(k)
    BY <1>5 DEF BudgetInv, Unscheduled
  <2>3. ByTheManifest'
    BY <1>1, <1>2, <2>1, <2>2 DEF ByTheManifest, JobStays
  <2>4. TotalReserved = 0
    BY <2>2, NothingReserved DEF LocalInv
  <2>5. Ceiling[m] \in Nat
    BY MemoryAssumption
  <2>6. NothingOverdrawn'
    BY <1>1, <1>2, <2>2, <2>4, <2>5 DEF NothingOverdrawn
  <2> QED
    BY <1>1, <2>3, <2>6 DEF Unscheduled
<1> QED
  BY <1>1, <1>3, <1>4, <1>5

LEMMA AloneBudget ==
  ASSUME LocalInv, LocalInv', BudgetInv, LeavesAccounts, \A k \in Jobs : JobStays(k)
  PROVE  Unscheduled' /\ ByTheManifest' /\ NothingOverdrawn'
<1>1. /\ UNCHANGED <<manifest, replaced, spent, reservation>>
      /\ lapses' = 0 => lapses = 0
  BY DEF LeavesAccounts, LocalInv, TaskOK
<1>2. TotalReserved' = TotalReserved /\ \A k \in Jobs : Reserved(k)' <=> Reserved(k)
  BY <1>1 DEF TotalReserved, Reserved
<1>3. Unscheduled' /\ NothingOverdrawn'
  BY <1>1, <1>2 DEF BudgetInv, Unscheduled, NothingOverdrawn
<1>4. ByTheManifest'
  BY <1>1, <1>2 DEF BudgetInv, ByTheManifest, JobStays, LeavesAccounts
<1> QED
  BY <1>3, <1>4

(***************************************************************************)
(* A handler starts on a reservation that fits, and delivers at the cost   *)
(* that was reserved.                                                      *)
(***************************************************************************)
LEMMA StartBudget ==
  ASSUME LocalInv, LocalInv', BudgetInv, NEW s \in Slots, StartHandler(s),
         \A k \in Jobs : JobStays(k)
  PROVE  Unscheduled' /\ ByTheManifest' /\ NothingOverdrawn'
<1>0. PICK j \in Jobs : j = task[s].job
  BY HandlerStarts
<1>1. /\ UnderWay(s) /\ manifest \in Manifests
      /\ ~ReservationRefused(j)
      /\ reservation' = WithReservation(j)
      /\ \A t \in Slots \ {s} : task'[t] = task[t]
      /\ task'[s].plan = manifest
      /\ UNCHANGED <<manifest, spent, lapses, replaced>>
  BY <1>0, HandlerStarts
<1>2. job[j].status # "ABSENT"
  BY <1>0, <1>1 DEF BudgetInv, Known
<1>3. /\ reservation \in [Jobs -> Nat \cup {NoReservation}]
      /\ job[j].estimate \in Nat /\ spent \in Nat
      /\ NoReservation \notin Nat /\ manifest # NoManifest
      /\ Ceiling[manifest] \in Nat
  BY <1>1, MemoryAssumption DEF LocalInv, QueueOK, Job
<1>4. \A k \in Jobs \ {j} : reservation'[k] = reservation[k]
  BY <1>1, <1>3 DEF WithReservation
<1>5. /\ Reserved(j) => reservation' = reservation
      /\ ~Reserved(j) => reservation'[j] = job[j].estimate
  BY <1>1, <1>3 DEF WithReservation
<1>6. Unscheduled'
  BY <1>1, <1>3 DEF Unscheduled
<1>7. ByTheManifest'
  <2> SUFFICES ASSUME ~replaced
               PROVE  /\ \A k \in Jobs : job'[k].status # "ABSENT" =>
                           job'[k].estimate = Estimate[manifest][k]
                      /\ \A k \in Jobs : reservation'[k] # NoReservation =>
                           reservation'[k] = Estimate[manifest][k]
                      /\ \A t \in Slots : task'[t].pc = "handle" => task'[t].plan = manifest
    BY <1>1 DEF ByTheManifest, Reserved
  <2>1. /\ \A k \in Jobs : job[k].status # "ABSENT" => job[k].estimate = Estimate[manifest][k]
        /\ \A k \in Jobs : Reserved(k) => reservation[k] = Estimate[manifest][k]
        /\ \A t \in Slots : task[t].pc = "handle" => task[t].plan = manifest
    BY <1>3 DEF BudgetInv, ByTheManifest
  <2>2. ASSUME NEW k \in Jobs, reservation'[k] # NoReservation
        PROVE  reservation'[k] = Estimate[manifest][k]
    BY <1>1, <1>2, <1>4, <1>5, <2>1, <2>2 DEF Reserved
  <2> QED
    BY <1>1, <2>1, <2>2 DEF JobStays
<1>8. NothingOverdrawn'
  <2> SUFFICES ASSUME ~replaced, lapses = 0
               PROVE  spent + TotalReserved' <= Ceiling[manifest]
    BY <1>1 DEF NothingOverdrawn
  <2>1. spent + TotalReserved <= Ceiling[manifest]
    BY <1>3 DEF BudgetInv, NothingOverdrawn
  <2>2. /\ TotalReserved \in Int
        /\ TotalReserved' = TotalReserved - Amount(j) + Amount(j)'
    BY <1>1, <1>4, ReservedMoves DEF LocalInv
  <2>3. CASE Reserved(j)
    <3>1. Amount(j)' = Amount(j) /\ Amount(j) \in Nat
      BY <1>1, <1>3, <1>5, <2>3 DEF Amount, Reserved
    <3> QED
      BY <1>3, <2>1, <2>2, <3>1
  <2>4. CASE ~Reserved(j)
    <3>1. Amount(j) = 0 /\ Amount(j)' = job[j].estimate
      BY <1>3, <1>5, <2>4 DEF Amount, Reserved
    <3>2. ~(spent + TotalReserved + job[j].estimate > Ceiling[manifest])
      BY <1>1, <2>4 DEF ReservationRefused
    <3> QED
      BY <1>3, <2>2, <3>1, <3>2
  <2> QED
    BY <2>3, <2>4
<1> QED
  BY <1>6, <1>7, <1>8

LEMMA LeaveBudget ==
  ASSUME LocalInv, LocalInv', BudgetInv, NEW s \in Slots, GivesUp(s) \/ Delivers(s),
         \A k \in Jobs : JobStays(k)
  PROVE  Unscheduled' /\ ByTheManifest' /\ NothingOverdrawn'
<1>0. PICK j \in Jobs : j = task[s].job
  BY SlotLeaves
<1>1. /\ UnderWay(s)
      /\ \A k \in Jobs \ {j} : reservation'[k] = reservation[k]
      /\ reservation'[j] = NoReservation
      /\ \A t \in Slots \ {s} : task'[t] = task[t]
      /\ task'[s].pc = "idle"
      /\ UNCHANGED <<manifest, lapses, replaced>>
  BY <1>0, SlotLeaves
<1>2. manifest \in Manifests /\ manifest # NoManifest /\ Ceiling[manifest] \in Nat
  BY <1>1, AtWork, MemoryAssumption DEF UnderWay
<1>3. reservation \in [Jobs -> Nat \cup {NoReservation}] /\ spent \in Nat /\ NoReservation \notin Nat
  BY MemoryAssumption DEF LocalInv, QueueOK
<1>4. Unscheduled'
  BY <1>1, <1>2 DEF Unscheduled
<1>5. ByTheManifest'
  BY <1>1, <1>2 DEF BudgetInv, ByTheManifest, Reserved, JobStays
<1>6. NothingOverdrawn'
  <2> SUFFICES ASSUME ~replaced, lapses = 0
               PROVE  spent' + TotalReserved' <= Ceiling[manifest]
    BY <1>1 DEF NothingOverdrawn
  <2>1. spent + TotalReserved <= Ceiling[manifest]
    BY <1>2 DEF BudgetInv, NothingOverdrawn
  <2>2. /\ TotalReserved \in Int
        /\ TotalReserved' = TotalReserved - Amount(j) + Amount(j)'
    BY <1>1, ReservedMoves DEF LocalInv
  <2>3. Amount(j)' = 0 /\ Amount(j) \in Nat
    BY <1>1, <1>3 DEF Amount, Reserved
  <2>4. CASE GivesUp(s)
    <3>1. spent' = spent
      BY <2>4 DEF GivesUp, fails
    <3> QED
      BY <1>2, <1>3, <2>1, <2>2, <2>3, <3>1
  <2>5. CASE Delivers(s)
    <3>1. task[s].pc = "handle" /\ spent' = spent + Cost(s)
      BY <2>5 DEF Delivers, CompletesWith, completes
    <3>2. Reserved(j) /\ task[s].plan = manifest /\ reservation[j] = Estimate[manifest][j]
      BY <1>0, <1>1, <1>2, <3>1 DEF BudgetInv, Undisturbed, ByTheManifest
    <3>3. Cost(s) = Amount(j)
      BY <1>0, <3>2 DEF Cost, Amount
    <3> QED
      BY <1>2, <1>3, <2>1, <2>2, <2>3, <3>1, <3>3
  <2> QED
    BY <2>4, <2>5
<1> QED
  BY <1>4, <1>5, <1>6

LEMMA BudgetStep ==
  ASSUME LocalInv, BudgetInv, [Next]_vars
  PROVE  BudgetInv'
<1>1. LocalInv'
  BY LocalInvStep
<1>2. Known' /\ Undisturbed'
  BY KnownStep, UndisturbedStep DEF BudgetInv
<1>3. \A k \in Jobs : JobStays(k)
  BY JobsStay DEF BudgetInv
<1>4. ASSUME NEW s \in Slots, TaskStep(s)
      PROVE  Unscheduled' /\ ByTheManifest' /\ NothingOverdrawn'
  BY <1>1, <1>3, <1>4, TaskStepCases, StartBudget, LeaveBudget
<1>5. Unscheduled' /\ ByTheManifest' /\ NothingOverdrawn'
  BY <1>1, <1>3, <1>4, AccountCases, ScheduleBudget, AloneBudget
<1> QED
  BY <1>2, <1>5 DEF BudgetInv

(***************************************************************************)
(* No two tasks work on one session as long as no lease runs out, whatever *)
(* fails, is stopped or rescheduled (queue.py 99-118).                     *)
(***************************************************************************)
THEOREM LocalUndisturbed == Spec => []Undisturbed
<1>1. LocalInv /\ BudgetInv /\ [Next]_vars => BudgetInv'
  BY BudgetStep
<1>2. BudgetInv => Undisturbed
  BY DEF BudgetInv
<1> QED
  BY <1>1, <1>2, BudgetInit, LocalInvariant, PTL DEF Spec

(***************************************************************************)
(* Commitments are covered, for every finite set of sessions and all       *)
(* budgets: a reservation belongs to a handler at work, and what is spent  *)
(* and reserved together stays under the ceiling of the manifest it was    *)
(* made under (queue.py 130-131, 141-160).                                 *)
(***************************************************************************)
THEOREM LocalCommitmentsCovered == Spec => []CommitmentsCovered
<1>1. LocalInv /\ BudgetInv /\ [Next]_vars => BudgetInv'
  BY BudgetStep
<1>2. BudgetInv /\ ReservationsWorked => CommitmentsCovered
  BY DEF BudgetInv, CommitmentsCovered
<1> QED
  BY <1>1, <1>2, BudgetInit, LocalInvariant, LocalReservationsWorked, PTL DEF Spec

-----------------------------------------------------------------------------
(***************************************************************************)
(* How many attempts a job can have.  What could still be claimed has an   *)
(* attempt to spare: a job that waits for a retry is below the limit, one  *)
(* that is claimed again beyond it lost a lease, and lapses counts those.  *)
(***************************************************************************)
Counted(row, n) ==
  /\ row.attempts <= MaxAttempts + n
  /\ row.status = "PENDING" \/ (row.status = "LEASED" /\ row.lease = "expired")
       => row.attempts < MaxAttempts + n
  /\ row.status = "RETRY_WAIT" => row.attempts < MaxAttempts

AttemptsCounted == \A j \in Jobs : Counted(job[j], lapses)

AttemptsPaidFor == \A j \in Jobs : job[j].attempts <= MaxAttempts + lapses

(***************************************************************************)
(* What keeps a row counted: its attempts stay, and it does not come to    *)
(* wait for a claim.                                                       *)
(***************************************************************************)
LEMMA StaysCounted ==
  ASSUME NEW row \in Job, NEW new \in Job, NEW n \in Nat, Counted(row, n),
         new.attempts = row.attempts,
         \/ new.status \in {"SUCCEEDED", "FAILED"}
         \/ new.status = row.status /\ (new.lease = row.lease \/ new.lease = "live")
         \/ new.status = "RETRY_WAIT" /\ row.attempts < MaxAttempts
  PROVE  Counted(new, n)
BY MemoryAssumption DEF Counted, Job

LEMMA NewCounted ==
  ASSUME NEW row, NEW n \in Nat, row.attempts = 0, row.status = "PENDING"
  PROVE  Counted(row, n)
<1>1. MaxAttempts \in Nat /\ MaxAttempts > 0
  BY MemoryAssumption
<1>2. 0 < MaxAttempts + n
  BY <1>1
<1> QED BY <1>1, <1>2 DEF Counted

LEMMA ClaimCounted ==
  ASSUME LocalInv, AttemptsCounted, NEW k \in Jobs,
         NEW w, NEW j \in Jobs, NEW passed \in SUBSET Jobs, claim(j, w, passed)
  PROVE  Counted(job'[k], lapses)
<1>0. /\ job[k] \in Job /\ Counted(job[k], lapses)
      /\ lapses \in Nat /\ MaxAttempts \in Nat /\ job[k].attempts \in Nat
  BY MemoryAssumption DEF LocalInv, QueueOK, TaskOK, AttemptsCounted, Job
<1>1. CASE k = j
  <2>1. job'[k] = [job[k] EXCEPT !.status = "LEASED", !.owner = w,
                                 !.lease = "live", !.attempts = @ + 1]
    BY <1>1 DEF claim
  <2>2. /\ job'[k].status = "LEASED" /\ job'[k].lease = "live"
        /\ job'[k].attempts = job[k].attempts + 1
    BY <1>0, <2>1 DEF Job
  <2>3. job[k].attempts < MaxAttempts + lapses
    BY <1>0, <1>1 DEF claim, Due, Counted
  <2> QED BY <1>0, <2>2, <2>3 DEF Counted
<1>2. CASE k # j /\ k \in passed
  <2>1. job'[k] = Recovered(k) /\ Abandoned(k)
    BY <1>2 DEF claim
  <2>2. job'[k].status = "PENDING" /\ job'[k].attempts = job[k].attempts
    BY <1>0, <2>1 DEF Recovered, Job
  <2> QED BY <1>0, <2>1, <2>2 DEF Counted, Abandoned
<1>3. CASE k # j /\ k \notin passed
  <2>1. job'[k] = job[k]
    BY <1>3 DEF claim
  <2> QED BY <1>0, <2>1
<1> QED BY <1>1, <1>2, <1>3

LEMMA FailsCounted ==
  ASSUME LocalInv, AttemptsCounted, NEW k \in Jobs, NEW j \in Jobs,
         NEW retryable \in BOOLEAN, NEW halt \in BOOLEAN, fails(j, retryable, halt)
  PROVE  Counted(job'[k], lapses)
<1>0. job \in [Jobs -> Job] /\ job[k] \in Job /\ Counted(job[k], lapses) /\ lapses \in Nat
  BY DEF LocalInv, QueueOK, TaskOK, AttemptsCounted
<1>1. CASE k # j
  <2>1. job'[k] = job[k]
    BY <1>0, <1>1 DEF fails
  <2> QED BY <1>0, <2>1
<1>2. CASE k = j
  <2>1. job'[k] = [job[k] EXCEPT !.status = FailedStatus(k, retryable), !.due = FALSE,
                                 !.owner = NoWorker, !.lease = "none"]
    BY <1>0, <1>2 DEF fails
  <2>2. job'[k].status = FailedStatus(k, retryable) /\ job'[k].attempts = job[k].attempts
    BY <1>0, <2>1 DEF Job
  <2>3. \/ FailedStatus(k, retryable) = "FAILED"
        \/ FailedStatus(k, retryable) = "RETRY_WAIT" /\ job[k].attempts < MaxAttempts
    BY DEF FailedStatus
  <2> QED BY <1>0, <2>2, <2>3 DEF Counted
<1> QED BY <1>1, <1>2

LEMMA CountedStep ==
  ASSUME LocalInv, AttemptsCounted, [Next]_vars
  PROVE  AttemptsCounted'
<1> SUFFICES ASSUME NEW k \in Jobs PROVE Counted(job'[k], lapses')
  BY DEF AttemptsCounted
<1>0. /\ job \in [Jobs -> Job] /\ job[k] \in Job /\ job'[k] \in Job
      /\ Counted(job[k], lapses) /\ lapses \in Nat
  BY LocalInvStep DEF LocalInv, QueueOK, TaskOK, AttemptsCounted
<1>1. ASSUME job'[k].attempts = job[k].attempts, job'[k].status = job[k].status,
             job'[k].lease = job[k].lease \/ job'[k].lease = "live", lapses' = lapses
      PROVE  Counted(job'[k], lapses')
  BY <1>0, <1>1, StaysCounted
<1>2. ASSUME NEW m \in Manifests, NEW js \in SUBSET Configured[m], Schedule(m, js)
      PROVE  Counted(job'[k], lapses')
  <2>1. lapses' = lapses
    BY <1>2 DEF Schedule
  <2>2. CASE job'[k] = job[k]
    BY <1>1, <2>1, <2>2
  <2>3. CASE job'[k] # job[k]
    <3>1. /\ job[k].status = "ABSENT"
          /\ job'[k] = [NoJobYet EXCEPT !.status = "PENDING", !.due = TRUE,
                                        !.estimate = Estimate[m][k]]
      BY <1>2, <2>3 DEF Schedule, schedule
    <3>2. \A e : LET new == [NoJobYet EXCEPT !.status = "PENDING", !.due = TRUE,
                                             !.estimate = e]
                 IN  new.attempts = 0 /\ new.status = "PENDING"
      BY DEF NoJobYet
    <3>3. job'[k].attempts = 0 /\ job'[k].status = "PENDING"
      BY <3>1, <3>2
    <3> QED BY <1>0, <2>1, <3>3, NewCounted
  <2> QED BY <2>2, <2>3
<1>3. ASSUME NEW s \in Slots, NEW j \in Jobs, NEW passed \in SUBSET Jobs, ClaimJob(s, j, passed)
      PROVE  Counted(job'[k], lapses')
  <2>1. claim(j, WorkerOf[s], passed) /\ lapses' = lapses
    BY <1>3 DEF ClaimJob, history
  <2> QED BY <2>1, ClaimCounted
<1>4. CASE FindNothing
  <2>1. lapses' = lapses /\ job'[k] = IF Abandoned(k) THEN Recovered(k) ELSE job[k]
    BY <1>4 DEF FindNothing, claimsNothing, history
  <2>2. Recovered(k).status = "PENDING" /\ Recovered(k).attempts = job[k].attempts
    BY <1>0 DEF Recovered, Job
  <2>3. CASE Abandoned(k)
    BY <1>0, <2>1, <2>2, <2>3 DEF Counted, Abandoned
  <2>4. CASE ~Abandoned(k)
    BY <1>1, <2>1, <2>4
  <2> QED BY <2>3, <2>4
<1>5. ASSUME NEW s \in Slots, TaskStep(s) PROVE Counted(job'[k], lapses')
  <2>1. UnderWay(s) /\ task[s].job \in Jobs
    BY <1>5, TaskStepCases, AtWork DEF UnderWay
  <2>2. CASE GivesUp(s)
    <3>1. PICK retryable \in BOOLEAN, halt \in BOOLEAN : fails(task[s].job, retryable, halt)
      BY <2>2 DEF GivesUp
    <3>2. lapses' = lapses
      BY <2>2 DEF GivesUp, history
    <3> QED BY <2>1, <3>1, <3>2, FailsCounted
  <2>3. CASE Delivers(s)
    <3>1. job' = [job EXCEPT ![task[s].job].status = "SUCCEEDED"] /\ lapses' = lapses
      BY <2>3 DEF Delivers, CompletesWith, completes, history
    <3>2. CASE k = task[s].job
      <4>1. job'[k] = [job[k] EXCEPT !.status = "SUCCEEDED"]
        BY <1>0, <3>1, <3>2
      <4>2. job'[k].status = "SUCCEEDED" /\ job'[k].attempts = job[k].attempts
        BY <1>0, <4>1 DEF Job
      <4> QED BY <1>0, <3>1, <4>2, StaysCounted
    <3>3. CASE k # task[s].job
      <4>1. job'[k] = job[k]
        BY <1>0, <3>1, <3>3
      <4> QED BY <1>1, <3>1, <4>1
    <3> QED BY <3>2, <3>3
  <2>4. CASE StartHandler(s)
    <3>1. job' = Extended(task[s].job) /\ lapses' = lapses
      BY <2>4 DEF StartHandler, history
    <3> QED BY <1>0, <1>1, <2>1, <3>1 DEF Extended, Job
  <2> QED BY <1>5, <2>2, <2>3, <2>4, TaskStepCases
<1>6. ASSUME NEW s \in Slots, Beat(s) PROVE Counted(job'[k], lapses')
  <2>1. /\ task[s].job \in Jobs /\ lapses' = lapses
        /\ UNCHANGED job \/ job' = Extended(task[s].job)
    BY <1>6, AtWork DEF Beat, history
  <2> QED BY <1>0, <1>1, <2>1 DEF Extended, Job
<1>7. CASE Stop \/ Resume \/ UNCHANGED vars
  <2>1. UNCHANGED <<job, lapses>>
    BY <1>7 DEF Stop, Resume, stop, resume, history, vars, memoryVars
  <2> QED BY <1>1, <2>1
<1>8. ASSUME NEW j \in Jobs, BackoffElapses(j) PROVE Counted(job'[k], lapses')
  <2>1. job' = [job EXCEPT ![j].due = TRUE] /\ lapses' = lapses
    BY <1>8 DEF BackoffElapses, backoffElapses, history
  <2> QED BY <1>0, <1>1, <2>1 DEF Job
<1>9. ASSUME NEW j \in Jobs, LeaseRunsOut(j) PROVE Counted(job'[k], lapses')
  <2>1. job' = [job EXCEPT ![j].lease = "expired"] /\ lapses' = lapses + 1
    BY <1>9 DEF LeaseRunsOut, leaseExpires
  <2>2. job'[k].attempts = job[k].attempts /\ job'[k].status = job[k].status
    BY <1>0, <2>1 DEF Job
  <2>3. job[k].attempts \in Nat /\ MaxAttempts \in Nat
    BY <1>0, MemoryAssumption DEF Job
  <2> QED BY <1>0, <2>1, <2>2, <2>3 DEF Counted
<1> QED
  BY <1>2, <1>3, <1>4, <1>5, <1>6, <1>7, <1>8, <1>9 DEF Next

(***************************************************************************)
(* A job has one attempt more than max_attempts for every lease that       *)
(* lapsed at the most, for any number of sessions and tasks: claim takes   *)
(* an abandoned job back whatever its attempts, and only fail looks at     *)
(* them (queue.py 99-118, 162-167).                                        *)
(***************************************************************************)
THEOREM LocalAttemptsPaidFor == Spec => []AttemptsPaidFor
<1>1. ASSUME Init PROVE AttemptsCounted
  <2>1. lapses = 0 /\ \A j \in Jobs : job[j].attempts = 0 /\ job[j].status = "ABSENT"
    BY <1>1 DEF Init, memoryInit, NoJobYet
  <2> QED BY <2>1, MemoryAssumption DEF AttemptsCounted, Counted
<1>2. LocalInv /\ AttemptsCounted /\ [Next]_vars => AttemptsCounted'
  BY CountedStep
<1>3. AttemptsCounted => AttemptsPaidFor
  BY DEF AttemptsCounted, AttemptsPaidFor, Counted
<1> QED
  BY <1>1, <1>2, <1>3, LocalInvariant, PTL DEF Spec

-----------------------------------------------------------------------------
(***************************************************************************)
(* What the results are worth: a session costs what the manifest its       *)
(* handler read estimates, whatever manifest is in force by now.           *)
(***************************************************************************)
Price(j) == IF result[j] = NoResult THEN 0 ELSE Estimate[result[j].plan][j]
WorthOfResults == SumFunction([j \in Jobs |-> Price(j)])

ResultsPaidFor == WorthOfResults \in Int /\ spent >= WorthOfResults

ChargedOnce ==
  lapses = 0 =>
    /\ \A j \in Jobs : result[j] # NoResult <=> job[j].status = "SUCCEEDED"
    /\ spent = WorthOfResults

LEMMA PriceIsNat ==
  ASSUME QueueOK, NEW j \in Jobs
  PROVE  Price(j) \in Nat
<1>1. CASE result[j] = NoResult
  BY <1>1 DEF Price
<1>2. CASE result[j] # NoResult
  <2>1. result[j].plan \in Manifests
    BY <1>2 DEF QueueOK, Result
  <2> QED BY <1>2, <2>1, MemoryAssumption DEF Price
<1> QED BY <1>1, <1>2

LEMMA WorthMoves ==
  ASSUME QueueOK, QueueOK', NEW j \in Jobs, \A k \in Jobs \ {j} : result'[k] = result[k]
  PROVE  /\ WorthOfResults \in Int
         /\ WorthOfResults' = WorthOfResults - Price(j) + Price(j)'
<1> DEFINE f == [k \in Jobs |-> Price(k)]
           g == [k \in Jobs |-> Price(k)']
<1>1. f \in [Jobs -> Int] /\ g \in [Jobs -> Int]
  <2>1. ASSUME NEW k \in Jobs, result'[k] # NoResult PROVE Estimate[result'[k].plan][k] \in Nat
    <3>1. result'[k].plan \in Manifests
      BY <2>1 DEF QueueOK, Result
    <3> QED BY <3>1, MemoryAssumption
  <2>2. \A k \in Jobs : Price(k) \in Nat
    BY PriceIsNat
  <2>3. \A k \in Jobs : Price(k)' \in Nat
    BY <2>1 DEF Price
  <2> QED BY <2>2, <2>3
<1>2. \A k \in Jobs \ {j} : f[k] = g[k]
  BY DEF Price
<1>3. f[j] = Price(j) /\ g[j] = Price(j)'
  OBVIOUS
<1>4. WorthOfResults = SumFunction(f) /\ WorthOfResults' = SumFunction(g)
  BY DEF WorthOfResults
<1> HIDE DEF f, g
<1>5. SumFunction(f) \in Int
  BY <1>1, MemoryAssumption, TotalInt
<1>6. SumFunction(g) = SumFunction(f) - f[j] + g[j]
  BY <1>1, <1>2, MemoryAssumption, TotalChange
<1> QED
  BY <1>3, <1>4, <1>5, <1>6

LEMMA NothingEarned ==
  ASSUME \A j \in Jobs : result[j] = NoResult
  PROVE  WorthOfResults = 0
<1> DEFINE f == [k \in Jobs |-> Price(k)]
<1>1. f \in [Jobs -> Int] /\ \A k \in Jobs : f[k] = 0
  BY DEF Price
<1>2. WorthOfResults = SumFunction(f)
  BY DEF WorthOfResults
<1> HIDE DEF f
<1> QED
  BY <1>1, <1>2, MemoryAssumption, TotalZero

(***************************************************************************)
(* A completion charges what its result is worth, and the results are      *)
(* worth that much more if the session had none.                           *)
(***************************************************************************)
LEMMA CompletionCharges ==
  ASSUME LocalInv, LocalInv', NEW s \in Slots, NEW o \in PossibleEnds[task[s].plan],
         CompletesWith(s, o)
  PROVE  LET j == task[s].job IN
         /\ j \in Jobs
         /\ Cost(s) \in Nat /\ spent' = spent + Cost(s)
         /\ WorthOfResults \in Int
         /\ WorthOfResults' = IF result[j] = NoResult THEN WorthOfResults + Cost(s)
                              ELSE WorthOfResults
         /\ result'[j] # NoResult
         /\ \A k \in Jobs \ {j} : result'[k] = result[k]
<1> DEFINE r == ResultOf(s, o)
<1>1. task[s].pc = "handle"
  BY DEF CompletesWith
<1>2. PICK j \in Jobs : j = task[s].job
  BY <1>1, AtWork
<1>3. PICK m \in Manifests : m = task[s].plan
  BY <1>1, AtWork
<1>4. Cost(s) = Estimate[m][j] /\ r.plan = m
  BY <1>2, <1>3 DEF Cost, ResultOf
<1>5. r \in Result /\ r # NoResult /\ result' = WithResult(j, r)
  BY <1>2, CompletionRecords, ResultAssumption
<1>6. Cost(s) \in Nat /\ spent' = spent + Cost(s)
  BY <1>4, MemoryAssumption DEF CompletesWith, completes
<1> HIDE DEF r
<1>7. /\ QueueOK /\ QueueOK'
      /\ result \in [Jobs -> Result \cup {NoResult}]
  BY DEF LocalInv, QueueOK
<1>8. /\ result'[j] = IF result[j] = NoResult THEN r ELSE result[j]
      /\ \A k \in Jobs \ {j} : result'[k] = result[k]
  BY <1>5, <1>7 DEF WithResult
<1>9. WorthOfResults \in Int /\ WorthOfResults' = WorthOfResults - Price(j) + Price(j)'
  BY <1>7, <1>8, WorthMoves
<1>10. Price(j) \in Nat
  BY <1>7, PriceIsNat
<1>11. CASE result[j] = NoResult
  <2>1. Price(j) = 0 /\ Price(j)' = Cost(s)
    BY <1>4, <1>5, <1>8, <1>11 DEF Price
  <2> QED BY <1>2, <1>5, <1>6, <1>8, <1>9, <1>11, <2>1
<1>12. CASE result[j] # NoResult
  <2>1. Price(j)' = Price(j)
    BY <1>8, <1>12 DEF Price
  <2> QED BY <1>2, <1>6, <1>8, <1>9, <1>10, <1>12, <2>1
<1> QED BY <1>11, <1>12

LEMMA LapsesGrow ==
  ASSUME LocalInv, [Next]_vars
  PROVE  lapses' = 0 => lapses = 0
<1> SUFFICES ASSUME lapses' = 0 PROVE lapses = 0
  OBVIOUS
<1>1. lapses \in Nat
  BY DEF LocalInv, TaskOK
<1>2. \A j \in Jobs : ~LeaseRunsOut(j)
  BY <1>1 DEF LeaseRunsOut
<1> QED
  BY <1>1, <1>2 DEF Next, vars, history, Schedule, ClaimJob, FindNothing, TaskStep, StartRefused,
     StartFails, StartHandler, Finish, FinishCompleted, FinishRefused, FinishFailed, Beat, Stop,
     Resume, BackoffElapses

(***************************************************************************)
(* A SUCCEEDED job stays so while no lease lapses: only the task of a      *)
(* leased job reports on it.                                               *)
(***************************************************************************)
LEMMA SuccessStays ==
  ASSUME LocalInv, Undisturbed, lapses = 0, [Next]_vars,
         NEW k \in Jobs, job[k].status = "SUCCEEDED"
  PROVE  job'[k].status = "SUCCEEDED"
<1>0. job \in [Jobs -> Job] /\ job[k] \in Job
  BY DEF LocalInv, QueueOK
<1>1. job'[k] = job[k] => job'[k].status = "SUCCEEDED"
  OBVIOUS
<1>2. ASSUME NEW m \in Manifests, NEW js \in SUBSET Configured[m], Schedule(m, js)
      PROVE  job'[k].status = "SUCCEEDED"
  BY <1>2 DEF Schedule, schedule
<1>3. ASSUME NEW s \in Slots, NEW j \in Jobs, NEW passed \in SUBSET Jobs, ClaimJob(s, j, passed)
      PROVE  job'[k].status = "SUCCEEDED"
  <2>1. k # j /\ k \notin passed
    BY <1>3 DEF ClaimJob, claim, Due, Abandoned
  <2> QED BY <1>1, <1>3, <2>1 DEF ClaimJob, claim
<1>4. CASE FindNothing
  BY <1>1, <1>4 DEF FindNothing, claimsNothing, Abandoned
<1>5. ASSUME NEW s \in Slots, TaskStep(s) PROVE job'[k].status = "SUCCEEDED"
  <2>1. UnderWay(s) /\ task[s].job # k
    BY <1>5, TaskStepCases DEF Undisturbed
  <2>2. CASE GivesUp(s) \/ Delivers(s)
    BY <1>1, <2>1, <2>2, SlotLeaves
  <2>3. CASE StartHandler(s)
    BY <2>3, HandlerStarts
  <2> QED BY <1>5, <2>2, <2>3, TaskStepCases
<1>6. ASSUME NEW s \in Slots, Beat(s) PROVE job'[k].status = "SUCCEEDED"
  <2>1. task[s].job \in Jobs /\ (UNCHANGED job \/ job' = Extended(task[s].job))
    BY <1>6, AtWork DEF Beat
  <2> QED BY <1>0, <2>1 DEF Extended, Job
<1>7. CASE Stop \/ Resume \/ UNCHANGED vars
  BY <1>1, <1>7 DEF Stop, Resume, stop, resume, vars, memoryVars
<1>8. ASSUME NEW j \in Jobs, BackoffElapses(j) \/ LeaseRunsOut(j)
      PROVE  job'[k].status = "SUCCEEDED"
  BY <1>0, <1>8 DEF BackoffElapses, backoffElapses, LeaseRunsOut, leaseExpires, Job
<1> QED
  BY <1>2, <1>3, <1>4, <1>5, <1>6, <1>7, <1>8 DEF Next

LEMMA ChargedStep ==
  ASSUME LocalInv, LocalInv', Undisturbed, ResultsPaidFor, ChargedOnce, [Next]_vars
  PROVE  ResultsPaidFor' /\ ChargedOnce'
<1>0. spent \in Nat /\ spent' \in Nat /\ result \in [Jobs -> Result \cup {NoResult}]
  BY LocalAssumption DEF LocalInv, QueueOK
<1>1. CASE NothingCompleted
  <2>1. WorthOfResults' = WorthOfResults /\ spent' = spent /\ result' = result
    BY <1>1 DEF NothingCompleted, WorthOfResults, Price
  <2>2. \A j \in Jobs : job'[j].status = "SUCCEEDED" => job[j].status = "SUCCEEDED"
    BY <1>1 DEF NothingCompleted
  <2>3. lapses' = 0 => lapses = 0 /\ \A j \in Jobs : job[j].status = "SUCCEEDED"
                                                     => job'[j].status = "SUCCEEDED"
    BY LapsesGrow, SuccessStays
  <2> QED BY <2>1, <2>2, <2>3 DEF ResultsPaidFor, ChargedOnce
<1>2. ASSUME NEW s \in Slots, NEW o \in PossibleEnds[task[s].plan], CompletesWith(s, o)
      PROVE  ResultsPaidFor' /\ ChargedOnce'
  <2>1. PICK j \in Jobs : j = task[s].job
    BY <1>2, CompletionCharges
  <2>2. /\ Cost(s) \in Nat /\ spent' = spent + Cost(s)
        /\ WorthOfResults \in Int
        /\ WorthOfResults' = IF result[j] = NoResult THEN WorthOfResults + Cost(s)
                             ELSE WorthOfResults
        /\ result'[j] # NoResult
        /\ \A k \in Jobs \ {j} : result'[k] = result[k]
    BY <1>2, <2>1, CompletionCharges
  <2>3. ResultsPaidFor'
    <3> DEFINE cost == Cost(s)
               worth == WorthOfResults
    <3>1. cost \in Nat /\ worth \in Int /\ spent >= worth /\ spent' = spent + cost
      BY <2>2 DEF ResultsPaidFor
    <3>2. WorthOfResults' = worth + cost \/ WorthOfResults' = worth
      BY <2>2
    <3> HIDE DEF cost, worth
    <3> QED BY <1>0, <3>1, <3>2 DEF ResultsPaidFor
  <2>4. ASSUME lapses' = 0
        PROVE  /\ \A k \in Jobs : result'[k] # NoResult <=> job'[k].status = "SUCCEEDED"
               /\ spent' = WorthOfResults'
    <3>1. /\ lapses = 0
          /\ \A k \in Jobs : result[k] # NoResult <=> job[k].status = "SUCCEEDED"
          /\ spent = WorthOfResults
      BY <2>4, LapsesGrow DEF ChargedOnce
    <3>2. job[j].status = "LEASED"
      BY <1>2, <2>1, <3>1 DEF Undisturbed, UnderWay, CompletesWith
    <3>3. result[j] = NoResult
      BY <3>1, <3>2
    <3>4. job' = [job EXCEPT ![j].status = "SUCCEEDED"] /\ job \in [Jobs -> Job]
      BY <1>2, <2>1 DEF CompletesWith, completes, LocalInv, QueueOK
    <3>5. /\ job'[j].status = "SUCCEEDED"
          /\ \A k \in Jobs \ {j} : job'[k] = job[k]
      BY <3>4 DEF Job
    <3>6. spent' = WorthOfResults'
      BY <2>2, <3>1, <3>3
    <3> QED BY <2>2, <3>1, <3>5, <3>6
  <2> QED BY <2>3, <2>4 DEF ChargedOnce
<1> QED BY <1>1, <1>2, StepCompletes

(***************************************************************************)
(* Every result is paid for, and while no lease lapses each is paid for    *)
(* exactly once, at the price of the manifest it was made under, and a job *)
(* is SUCCEEDED exactly when it has its result: for any sessions, tasks    *)
(* and manifests, however often they are replaced (queue.py 127-139).      *)
(***************************************************************************)
THEOREM LocalChargedOnce == Spec => [](ResultsPaidFor /\ ChargedOnce)
<1>1. ASSUME Init PROVE ResultsPaidFor /\ ChargedOnce
  <2>1. /\ spent = 0
        /\ \A j \in Jobs : job[j].status = "ABSENT" /\ result[j] = NoResult
    BY <1>1 DEF Init, memoryInit, NoJobYet
  <2>2. WorthOfResults = 0
    BY <2>1, NothingEarned
  <2> QED BY <2>1, <2>2 DEF ResultsPaidFor, ChargedOnce
<1>2. LocalInv /\ LocalInv' /\ Undisturbed /\ ResultsPaidFor /\ ChargedOnce /\ [Next]_vars
        => ResultsPaidFor' /\ ChargedOnce'
  BY ChargedStep
<1> QED
  BY <1>1, <1>2, LocalInvariant, LocalUndisturbed, PTL DEF Spec

=============================================================================
