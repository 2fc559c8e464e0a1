--------------------------- MODULE ExperimentWorker ---------------------------
(***************************************************************************)
(* The experiment workers and the queue they share.  A worker process runs *)
(* up to `concurrency' _process tasks, one per slot, and each task runs a  *)
(* heartbeat task of its own while the handler works.                      *)
(*                                                                         *)
(* A slot goes through                                                     *)
(*    idle -> reserve -> beat -> handle -> complete -> settle -> idle      *)
(* and any exception on the way leads to "fail", the except branch.        *)
(***************************************************************************)
EXTENDS ExperimentQueue

CONSTANTS
  Slots,             \* the task slots of all workers
  WorkerOf,          \* the worker of each slot
  NoJob,             \* an idle slot
  HeartbeatsTimely,  \* does a live heartbeat task always beat its lease?
  MaxMishaps         \* bound of the model: crashes, database errors, late beats

ASSUME WorkerAssumption ==
  /\ WorkerOf \in [Slots -> Workers]
  /\ NoJob \notin Jobs
  /\ HeartbeatsTimely \in BOOLEAN
  /\ MaxMishaps \in Nat

VARIABLES
  task,              \* [Slots -> [pc, job, attempt, error, beat]]
  mishaps            \* how many mishaps have happened

vars == <<manifest, job, session, task, mishaps>>

Pc == {"idle", "reserve", "beat", "handle", "complete", "settle", "fail"}

(***************************************************************************)
(* The exception a task is handling, as far as `fail' and the properties   *)
(* tell them apart.  Only "transient" (TimeoutError, ConnectionError) is   *)
(* retryable.                                                              *)
(***************************************************************************)
Errors == {"none", "refused", "ceiling", "not_owner", "transient", "fatal"}

Task ==
  [pc : Pc, job : Jobs \cup {NoJob}, attempt : Nat, error : Errors,
   beat : {"off", "alive", "dead"}]

IdleTask ==
  [pc |-> "idle", job |-> NoJob, attempt |-> 0, error |-> "none", beat |-> "off"]

Busy(s) == task[s].pc # "idle"

Goto(s, pc) == task' = [task EXCEPT ![s].pc = pc]
Raise(s, e) == task' = [task EXCEPT ![s].pc = "fail", ![s].error = e]
Mishap == mishaps < MaxMishaps /\ mishaps' = mishaps + 1

-----------------------------------------------------------------------------
(***************************************************************************)
(* The worker loop claims while it has a free slot.                        *)
(***************************************************************************)
ClaimJob(s, j) ==
  /\ task[s].pc = "idle"
  /\ Claim(j, WorkerOf[s])
  /\ task' = [task EXCEPT ![s] =
       [pc |-> "reserve", job |-> j, attempt |-> job'[j].attempts,
        error |-> "none", beat |-> "off"]]
  /\ UNCHANGED mishaps

ReserveCost(s) ==
  /\ task[s].pc = "reserve"
  /\ LET j == task[s].job IN
     \/ HoldsReservation(j) /\ UNCHANGED queueVars /\ Goto(s, "beat")
     \/ ReserveGranted(j) /\ Goto(s, "beat")
     \/ ReserveRefused(j) /\ Raise(s, IF manifest.stop THEN "refused" ELSE "ceiling")
  /\ UNCHANGED mishaps

(***************************************************************************)
(* The heartbeat before the handler; then the heartbeat task is created.   *)
(***************************************************************************)
FirstHeartbeat(s) ==
  /\ task[s].pc = "beat"
  /\ LET j == task[s].job IN
     \/ /\ Heartbeat(j, WorkerOf[s])
        /\ task' = [task EXCEPT ![s].pc = "handle", ![s].beat = "alive"]
     \/ ~Owns(j, WorkerOf[s]) /\ UNCHANGED queueVars /\ Raise(s, "not_owner")
  /\ UNCHANGED mishaps

(***************************************************************************)
(* One turn of the heartbeat task.  PermissionError, or any other error,   *)
(* ends that task alone: the handler goes on without a heartbeat.  A beat  *)
(* already under way when complete commits arrives after it: those turns   *)
(* are counted as mishaps.                                                 *)
(***************************************************************************)
HeartbeatTurn(s) ==
  /\ task[s].beat = "alive"
  /\ LET j == task[s].job IN
     \/ Heartbeat(j, WorkerOf[s]) /\ UNCHANGED task
     \/ /\ ~Owns(j, WorkerOf[s])
        /\ task' = [task EXCEPT ![s].beat = "dead"]
        /\ UNCHANGED queueVars
  /\ IF task[s].pc = "settle" THEN Mishap ELSE UNCHANGED mishaps

HeartbeatError(s) ==
  /\ task[s].beat = "alive"
  /\ Mishap
  /\ task' = [task EXCEPT ![s].beat = "dead"]
  /\ UNCHANGED queueVars

(***************************************************************************)
(* The job handler returns a result or raises.                             *)
(***************************************************************************)
HandlerReturns(s) ==
  /\ task[s].pc = "handle"
  /\ Goto(s, "complete")
  /\ UNCHANGED <<queueVars, mishaps>>

HandlerRaises(s) ==
  /\ task[s].pc = "handle"
  /\ \E e \in {"transient", "fatal"} : Raise(s, e)
  /\ UNCHANGED <<queueVars, mishaps>>

CompleteJob(s) ==
  /\ task[s].pc = "complete"
  /\ LET j == task[s].job IN
     \/ Complete(j, task[s].attempt) /\ Goto(s, "settle")
     \/ CompleteRefused(j) /\ Raise(s, IF manifest.stop THEN "refused" ELSE "ceiling")
  /\ UNCHANGED mishaps

(***************************************************************************)
(* The finally clause of a task that completed: its heartbeat is           *)
(* cancelled and the slot is free.                                         *)
(***************************************************************************)
Settle(s) ==
  /\ task[s].pc = "settle"
  /\ task' = [task EXCEPT ![s] = IdleTask]
  /\ UNCHANGED <<queueVars, mishaps>>

(***************************************************************************)
(* The except branch: fail, with the snapshot of the claim, and the        *)
(* finally clause behind it.                                               *)
(***************************************************************************)
FailJob(s) ==
  /\ task[s].pc = "fail"
  /\ Fail(task[s].job, task[s].attempt, task[s].error = "transient")
  /\ task' = [task EXCEPT ![s] = IdleTask]
  /\ UNCHANGED mishaps

-----------------------------------------------------------------------------
(***************************************************************************)
(* Mishaps.  A transaction fails before it commits: an error of connecting *)
(* is a ConnectionError, every other is not.  When fail itself raises, the *)
(* task ends and the row keeps its lease.                                  *)
(***************************************************************************)
DatabaseError(s) ==
  /\ Mishap
  /\ UNCHANGED queueVars
  /\ \/ /\ task[s].pc \in {"reserve", "beat", "complete"}
        /\ \E e \in {"transient", "fatal"} : Raise(s, e)
     \/ /\ task[s].pc = "fail"
        /\ task' = [task EXCEPT ![s] = IdleTask]

(***************************************************************************)
(* The transaction commits and the connection breaks before the answer:    *)
(* the task sees an error and fails a job it has completed.                *)
(***************************************************************************)
CommitUnacknowledged(s) ==
  /\ Mishap
  /\ \/ task[s].pc = "reserve" /\ ReserveGranted(task[s].job)
     \/ task[s].pc = "complete" /\ Complete(task[s].job, task[s].attempt)
  /\ Raise(s, "fatal")

(***************************************************************************)
(* The process dies with all its tasks and comes back under its name.      *)
(***************************************************************************)
Crash(w) ==
  /\ Mishap
  /\ \E s \in Slots : WorkerOf[s] = w /\ Busy(s)
  /\ task' = [s \in Slots |-> IF WorkerOf[s] = w THEN IdleTask ELSE task[s]]
  /\ UNCHANGED queueVars

(***************************************************************************)
(* A lease of 120 s expires.  The heartbeat task renews it every 30 s:     *)
(* with timely heartbeats only a lease that no live task of its owner is   *)
(* keeping can expire.                                                     *)
(***************************************************************************)
Kept(j) ==
  \E s \in Slots :
    Busy(s) /\ task[s].job = j /\ task[s].beat # "dead" /\ Owns(j, WorkerOf[s])

LeaseRunsOut(j) ==
  /\ HeartbeatsTimely => ~Kept(j)
  /\ LeaseExpires(j)
  /\ UNCHANGED <<task, mishaps>>

-----------------------------------------------------------------------------
Init ==
  /\ QueueInit
  /\ task = [s \in Slots |-> IdleTask]
  /\ mishaps = 0

(***************************************************************************)
(* The steps of the researcher and of the clock leave the tasks alone.     *)
(***************************************************************************)
Environment ==
  /\ \/ \E js \in SUBSET Jobs : Schedule(js)
     \/ Stop
     \/ Resume
     \/ \E j \in Jobs : BackoffElapses(j)
  /\ UNCHANGED <<task, mishaps>>

TaskStep(s) ==
  \/ ReserveCost(s)
  \/ FirstHeartbeat(s)
  \/ HandlerReturns(s)
  \/ HandlerRaises(s)
  \/ CompleteJob(s)
  \/ Settle(s)
  \/ FailJob(s)

TaskMishap(s) ==
  \/ HeartbeatError(s)
  \/ DatabaseError(s)
  \/ CommitUnacknowledged(s)

Next ==
  \/ Environment
  \/ \E s \in Slots, j \in Jobs : ClaimJob(s, j)
  \/ \E s \in Slots : TaskStep(s) \/ HeartbeatTurn(s) \/ TaskMishap(s)
  \/ \E w \in Workers : Crash(w)
  \/ \E j \in Jobs : LeaseRunsOut(j)

Spec == Init /\ [][Next]_vars

(***************************************************************************)
(* Every task runs on, the worker loop keeps polling, and time passes.     *)
(* The loop claims some job, not a given one.                              *)
(***************************************************************************)
Fairness ==
  /\ \A s \in Slots : WF_vars(TaskStep(s))
  /\ \A w \in Workers :
       WF_vars(\E s \in Slots, j \in Jobs : WorkerOf[s] = w /\ ClaimJob(s, j))
  /\ \A j \in Jobs : WF_vars(BackoffElapses(j) /\ UNCHANGED <<task, mishaps>>)
  /\ \A j \in Jobs : WF_vars(LeaseRunsOut(j))

FairSpec == Spec /\ Fairness

-----------------------------------------------------------------------------
(***************************************************************************)
(* Properties.                                                             *)
(***************************************************************************)

(***************************************************************************)
(* Type invariant: the tables and the tasks.                               *)
(***************************************************************************)
TypeOK ==
  /\ QueueTypeOK
  /\ task \in [Slots -> Task]
  /\ mishaps \in Nat

(***************************************************************************)
(* Without a crash, a database error or a late beat, and with timely       *)
(* heartbeats, no two tasks work on one job: the lease does its work       *)
(* (queue.py 271-282, worker.py 256-266).                                  *)
(***************************************************************************)
OneTaskPerJob ==
  HeartbeatsTimely /\ mishaps = 0 =>
    \A s, t \in Slots :
      s # t /\ Busy(s) /\ Busy(t) => task[s].job # task[t].job

(***************************************************************************)
(* The snapshot a task fails with never claims more attempts than the row  *)
(* has seen, and a task whose snapshot is the newest owns the row until it *)
(* is failed: `fail' by an outdated task is the only way to lose it        *)
(* (worker.py 290-294).                                                    *)
(***************************************************************************)
NewestSnapshotOwns ==
  \A s \in Slots :
    Busy(s) => /\ task[s].attempt <= job[task[s].job].attempts
               /\ task[s].attempt = job[task[s].job].attempts
                    => job[task[s].job].owner \in {WorkerOf[s], NoWorker}

(***************************************************************************)
(* The rows stay sound under late and outdated tasks: a SUCCEEDED job has  *)
(* its result, a leased one an owner and a lease by which it can move      *)
(* again, and the newest snapshot owns its row until a fail clears it      *)
(* (queue.py 318-327, 386-399, 403-426).                                   *)
(***************************************************************************)
RowsSound == SuccessHasResult /\ LeasedHasLease /\ NewestSnapshotOwns

(***************************************************************************)
(* Refused for the ceiling means paused: both methods set stop_requested   *)
(* before they raise, and the protocol asks for an automatic stop          *)
(* (queue.py 352-358, 381-383; docs/research_protocol.md 146).             *)
(***************************************************************************)
CeilingPauses ==
  [][\A s \in Slots :
       task[s].error # "ceiling" /\ task'[s].error = "ceiling" => manifest'.stop]_vars

(***************************************************************************)
(* A completed session is not run again: SUCCEEDED is final                *)
(* (docs/research_protocol.md 214, docs/threat_model.md 93).               *)
(***************************************************************************)
SucceededIsFinal ==
  [][\A j \in Jobs : job[j].status = "SUCCEEDED" => job'[j].status = "SUCCEEDED"]_vars

(***************************************************************************)
(* A job is attempted at most max_attempts times (queue.py 404;            *)
(* docs/research_protocol.md 141).                                         *)
(***************************************************************************)
AttemptsWithinLimit == \A j \in Jobs : job[j].attempts <= MaxAttempts

(***************************************************************************)
(* What does hold of the limit, which claim never looks at: with timely    *)
(* heartbeats a job has one attempt more than max_attempts for every       *)
(* crash, database error or late beat at the most, although an outdated    *)
(* task may put the job of a newer one back to RETRY_WAIT (queue.py        *)
(* 269-282, 403-426).                                                      *)
(***************************************************************************)
AttemptsPaidFor ==
  HeartbeatsTimely => \A j \in Jobs : job[j].attempts <= MaxAttempts + mishaps

(***************************************************************************)
(* With timely heartbeats the attempts of a job come one after the other   *)
(* and within the limit, and only mishaps make exceptions of both          *)
(* (queue.py 269-282, 403-426; worker.py 256-266).                         *)
(***************************************************************************)
AttemptsApart == OneTaskPerJob /\ AttemptsPaidFor

(***************************************************************************)
(* Unless the experiment is stopped again and again, every scheduled job   *)
(* ends SUCCEEDED or FAILED and stays there, and no reservation is left    *)
(* behind: abandoned leases are reclaimed, retries end.                    *)
(***************************************************************************)
JobsSettle ==
  <>[]~manifest.stop =>
    <>[](/\ \A j \in Jobs : job[j].status = "ABSENT" \/ Settled(j)
         /\ manifest.reserved = 0)

=============================================================================
