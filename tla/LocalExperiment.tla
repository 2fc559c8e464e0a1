---------------------------- MODULE LocalExperiment ----------------------------
(***************************************************************************)
(* An experiment inside one process: the tasks of ExperimentWorker and the *)
(* experiment endpoints of the API share an InMemoryExperimentQueue and an *)
(* event loop.                                                             *)
(*                                                                         *)
(* The queue never gives way, so a task has two steps: Start runs          *)
(* reserve_cost, the first heartbeat and the handler up to the graph; the  *)
(* handler gives way while graph and evaluator run; Finish runs the rest   *)
(* of the handler with complete or fail.  Between claim and Start, and     *)
(* while the handler is away, everything else goes on.                     *)
(***************************************************************************)
EXTENDS MemoryQueue, SessionHandler, FiniteSets

CONSTANTS
  Slots,         \* the tasks the workers may have at a time
  WorkerOf,      \* [Slots -> Workers]
  NoJob,         \* the job of an idle slot
  Evaluator,     \* [Manifests -> Policies]: is there a proofagent, and its policy
  HighestCeiling, \* a bound on the ceilings of the manifests
  MaxLapses      \* bound of the model: leases that run out under a task

ASSUME LocalAssumption ==
  /\ WorkerOf \in [Slots -> Workers]
  /\ NoJob \notin Jobs
  /\ Evaluator \in [Manifests -> Policies]
  /\ HighestCeiling \in Nat
  /\ \A m \in Manifests : Ceiling[m] <= HighestCeiling
  /\ MaxLapses \in Nat

VARIABLES
  task,          \* [Slots -> Task]
  lapses,        \* of the model: leases that ran out
  replaced       \* of the model: a manifest took the place of another

history == <<lapses, replaced>>
vars == <<memoryVars, task, history>>

(***************************************************************************)
(* plan is the manifest the handler has read, beat says that the task of   *)
(* the heartbeat is alive.                                                 *)
(***************************************************************************)
Task ==
  [pc : {"idle", "claimed", "handle"}, job : Jobs \cup {NoJob},
   attempt : Nat, plan : Manifests \cup {NoManifest}, beat : BOOLEAN]

Idle == [pc |-> "idle", job |-> NoJob, attempt |-> 0, plan |-> NoManifest, beat |-> FALSE]

Result == [attempt : Nat, plan : Manifests, safe : BOOLEAN, proof : {"none", "evaluated", "error"}]

ASSUME ResultAssumption == NoResult \notin Result

(***************************************************************************)
(* What the handler can make of an attempt under each manifest.            *)
(***************************************************************************)
PossibleEnds == [m \in Manifests |-> HandlerOutcomes(Evaluator[m])]

Working(s, j) == task[s].pc # "idle" /\ task[s].job = j

-----------------------------------------------------------------------------
(***************************************************************************)
(* The loop of a worker: claim until nothing is due, one task for each.    *)
(***************************************************************************)
ClaimJob(s, j, passed) ==
  /\ task[s].pc = "idle"
  /\ claim(j, WorkerOf[s], passed)
  /\ task' = [task EXCEPT ![s] = [Idle EXCEPT !.pc = "claimed", !.job = j,
                                              !.attempt = job[j].attempts + 1]]
  /\ UNCHANGED history

FindNothing ==
  /\ \E s \in Slots : task[s].pc = "idle"
  /\ claimsNothing
  /\ UNCHANGED <<task, history>>

Leave(s) == task' = [task EXCEPT ![s] = Idle]

(***************************************************************************)
(* _process up to the first await that gives way: refused for the ceiling, *)
(* disowned by the first heartbeat, stopped by an obstacle of the handler, *)
(* or under way.  What raises is failed at once.                           *)
(***************************************************************************)
StartRefused(s) ==
  /\ task[s].pc = "claimed"
  /\ ReservationRefused(task[s].job)
  /\ fails(task[s].job, FALSE, TRUE)
  /\ Leave(s)
  /\ UNCHANGED history

(***************************************************************************)
(* The PermissionError of a lost lease and the obstacles of the handler    *)
(* are failures the worker does not retry.                                 *)
(***************************************************************************)
MissesConfiguration(j) == j \notin Configured[manifest]

StartFails(s) ==
  /\ task[s].pc = "claimed"
  /\ ~ReservationRefused(task[s].job)
  /\ \/ ~Owns(task[s].job, WorkerOf[s])
     \/ MissesConfiguration(task[s].job)
     \/ \E o \in Obstacles : TRUE
  /\ fails(task[s].job, FALSE, FALSE)
  /\ Leave(s)
  /\ UNCHANGED history

StartHandler(s) ==
  LET j == task[s].job IN
  /\ task[s].pc = "claimed"
  /\ ~ReservationRefused(j)
  /\ Owns(j, WorkerOf[s])
  /\ ~MissesConfiguration(j)
  /\ reservation' = WithReservation(j)
  /\ job' = Extended(j)
  /\ task' = [task EXCEPT ![s].pc = "handle", ![s].plan = manifest, ![s].beat = TRUE]
  /\ UNCHANGED <<manifest, result, stopped, spent, history>>

(***************************************************************************)
(* The heartbeat task: extends the lease, or dies of a PermissionError.    *)
(***************************************************************************)
Beat(s) ==
  LET j == task[s].job IN
  /\ task[s].pc = "handle" /\ task[s].beat
  /\ IF Owns(j, WorkerOf[s])
     THEN /\ job[j].lease # "live"
          /\ job' = Extended(j)
          /\ UNCHANGED task
     ELSE /\ task' = [task EXCEPT ![s].beat = FALSE]
          /\ UNCHANGED job
  /\ UNCHANGED <<manifest, result, stopped, spent, reservation, history>>

(***************************************************************************)
(* The handler comes back.  The cost is that of the manifest it has read,  *)
(* the ceiling that of the manifest of the moment.                         *)
(***************************************************************************)
Cost(s) == Estimate[task[s].plan][task[s].job]
ResultOf(s, o) ==
  [attempt |-> task[s].attempt, plan |-> task[s].plan, safe |-> o.safe, proof |-> o.proof]

FinishCompleted(s, o) ==
  /\ task[s].pc = "handle"
  /\ o.ends = "result"
  /\ completes(task[s].job, ResultOf(s, o), Cost(s))
  /\ Leave(s)
  /\ UNCHANGED history

FinishRefused(s, o) ==
  /\ task[s].pc = "handle"
  /\ o.ends = "result"
  /\ CompletionRefused(Cost(s))
  /\ fails(task[s].job, FALSE, TRUE)
  /\ Leave(s)
  /\ UNCHANGED history

FinishFailed(s, o) ==
  /\ task[s].pc = "handle"
  /\ o.ends # "result"
  /\ fails(task[s].job, o.ends = "retryable", FALSE)
  /\ Leave(s)
  /\ UNCHANGED history

Finish(s) ==
  /\ task[s].pc = "handle"
  /\ \E o \in PossibleEnds[task[s].plan] :
       FinishCompleted(s, o) \/ FinishRefused(s, o) \/ FinishFailed(s, o)

TaskStep(s) == StartRefused(s) \/ StartFails(s) \/ StartHandler(s) \/ Finish(s)

(***************************************************************************)
(* The researcher, through the API, and the clock.  A lease runs out under *)
(* a task when the event loop is blocked for its 120 seconds.              *)
(***************************************************************************)
Schedule(m, js) ==
  /\ schedule(m, js)
  /\ replaced' = (replaced \/ manifest \notin {m, NoManifest})
  /\ UNCHANGED <<task, lapses>>

Stop   == stop   /\ UNCHANGED <<task, history>>
Resume == resume /\ UNCHANGED <<task, history>>

BackoffElapses(j) == backoffElapses(j) /\ UNCHANGED <<task, history>>

LeaseRunsOut(j) ==
  /\ lapses < MaxLapses
  /\ leaseExpires(j)
  /\ lapses' = lapses + 1
  /\ UNCHANGED <<task, replaced>>

-----------------------------------------------------------------------------
Init ==
  /\ memoryInit
  /\ task = [s \in Slots |-> Idle]
  /\ lapses = 0
  /\ replaced = FALSE

Next ==
  \/ \E m \in Manifests : \E js \in SUBSET Configured[m] : Schedule(m, js)
  \/ \E s \in Slots, j \in Jobs, passed \in SUBSET Jobs : ClaimJob(s, j, passed)
  \/ FindNothing
  \/ \E s \in Slots : TaskStep(s) \/ Beat(s)
  \/ Stop
  \/ Resume
  \/ \E j \in Jobs : BackoffElapses(j) \/ LeaseRunsOut(j)

Spec == Init /\ [][Next]_vars

(***************************************************************************)
(* The event loop goes on with every task, the loops of the workers keep   *)
(* polling, time passes.  Nothing is assumed of the researcher.            *)
(***************************************************************************)
Fairness ==
  /\ \A s \in Slots : WF_vars(TaskStep(s))
  /\ WF_vars(\E s \in Slots, j \in Jobs, passed \in SUBSET Jobs : ClaimJob(s, j, passed))
  /\ WF_vars(FindNothing)
  /\ \A j \in Jobs : WF_vars(BackoffElapses(j))

FairSpec == Spec /\ Fairness

-----------------------------------------------------------------------------
(***************************************************************************)
(* Properties.                                                             *)
(***************************************************************************)

(***************************************************************************)
(* Type invariant of the dictionaries and the tasks.                       *)
(***************************************************************************)
TypeOK ==
  /\ manifest \in Manifests \cup {NoManifest}
  /\ job \in [Jobs -> Job]
  /\ result \in [Jobs -> Result \cup {NoResult}]
  /\ stopped \in BOOLEAN
  /\ spent \in 0..HighestCeiling
  /\ reservation \in [Jobs -> Nat \cup {NoReservation}]
  /\ task \in [Slots -> Task]
  /\ lapses \in Nat /\ replaced \in BOOLEAN

(***************************************************************************)
(* The queue without a database keeps the promise of the one with it: the  *)
(* first result of a key stays and is paid for, and no ceiling that was    *)
(* ever in force is passed by more than the highest (queue.py 127-139).    *)
(***************************************************************************)
AttemptOf(j) == IF result[j] = NoResult THEN NoResult ELSE result[j].attempt

Ledger == INSTANCE SessionLedger
            WITH Keys <- Jobs, Limit <- HighestCeiling,
                 result <- [j \in Jobs |-> AttemptOf(j)]

LedgerSpec == Ledger!LedgerSpec

(***************************************************************************)
(* No reservation outlives the work it was made for: whoever returns its   *)
(* key's reservation, and whatever attempts share it, a reservation is     *)
(* held only while a handler of the key is at work (queue.py 130, 141-160).*)
(***************************************************************************)
ReservationsWorked ==
  \A j \in Jobs : Reserved(j) =>
    \E s \in Slots : task[s].pc = "handle" /\ task[s].job = j

(***************************************************************************)
(* What is spent and reserved together stays under the ceiling, so no      *)
(* finished session is thrown away, as long as every attempt has its lease *)
(* and the manifest is the one the reservations were made under            *)
(* (queue.py 131, 144-156).                                                *)
(***************************************************************************)
NothingOverdrawn ==
  (manifest # NoManifest /\ ~replaced /\ lapses = 0)
    => spent + TotalReserved <= Ceiling[manifest]

CommitmentsCovered == ReservationsWorked /\ NothingOverdrawn

(***************************************************************************)
(* A job is reported SUCCEEDED only with its result, and a result carries  *)
(* what the manifest its handler read demands: with failure_policy         *)
(* fail_job a ProofAgent evaluation, without a proofagent none, whichever  *)
(* manifest and attempt won (worker.py 159-198, queue.py 135-139).         *)
(***************************************************************************)
ProofDemanded(policy) ==
  CASE policy = "none"         -> {"none"}
    [] policy = "fail_job"     -> {"evaluated"}
    [] policy = "record_error" -> {"evaluated", "error"}

ComparisonsComplete ==
  \A j \in Jobs :
    /\ job[j].status = "SUCCEEDED" => result[j] # NoResult
    /\ result[j] # NoResult => result[j].proof \in ProofDemanded(Evaluator[result[j].plan])

(***************************************************************************)
(* An experiment that is not kept stopped comes to an end: every session   *)
(* that was scheduled ends SUCCEEDED or FAILED for good, whatever its      *)
(* handler raises and whatever leases were lost (queue.py 92-118, 158-170).*)
(***************************************************************************)
SessionsSettle ==
  <>[]~stopped => <>[](\A j \in Jobs : job[j].status = "ABSENT" \/ Settled(j))

=============================================================================
