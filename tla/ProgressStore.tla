---------------------------- MODULE ProgressStore ----------------------------
(***************************************************************************)
(* InvestigationJobStore: the progress records of the user interface, one  *)
(* dictionary of jobs and one from graph runs to jobs.  The run of a case  *)
(* has the id of the case.  Methods run without an await: one step each.   *)
(*                                                                         *)
(* Jobs are numbered in the order in which they are created, which is the  *)
(* order of the dictionary.  The six stages of a job are reduced to one:   *)
(* the stage the graph is in.                                              *)
(***************************************************************************)
EXTENDS Integers, FiniteSets

CONSTANTS
  MaxCases,        \* bound of the model: cases created
  MaxJobs,         \* bound of the model: jobs created
  JobLimit,        \* jobs the store keeps before it prunes: 500
  PruneBatch       \* jobs it prunes at most: 100

ASSUME StoreAssumption ==
  MaxCases \in Nat /\ MaxJobs \in Nat /\ JobLimit \in Nat /\ PruneBatch \in Nat

CaseIds == 1..MaxCases
JobIds == 1..MaxJobs

VARIABLES
  jobs,            \* [JobIds -> [case, status, stage]]; status "none": not stored
  jobs_by_run,     \* [CaseIds -> the job that shows the run, 0 if none]
  created          \* jobs created so far

storeVars == <<jobs, jobs_by_run, created>>

JobRecord ==
  [case: {0} \cup CaseIds,
   status: {"none", "running", "completed", "failed"},
   stage: {"pending", "active", "completed", "failed"}]

Stored(j) == jobs[j].status # "none"
Running(j) == jobs[j].status = "running"

(***************************************************************************)
(* The store without the jobs of a set: their runs are popped too.         *)
(* Mutants: they are not; the runs of all jobs are.                        *)
(***************************************************************************)
Drop(table, js) ==
  [j \in JobIds |-> [case |-> table[j].case, stage |-> table[j].stage,
                     status |-> IF j \in js THEN "none" ELSE table[j].status]]

MutantKeepsIndex(table, index, js) == index
MutantClearsIndex(table, index, js) ==
  [c \in CaseIds |-> IF js = {} THEN index[c] ELSE 0]

Unmap(table, index, js) ==
  [c \in CaseIds |-> IF \E j \in js : table[j].case = c THEN 0 ELSE index[c]]

(***************************************************************************)
(* _prune: the first jobs that have ended.  A mutant: the first jobs.      *)
(***************************************************************************)
MutantPrunesOldest(table) ==
  LET stored == {j \in JobIds : table[j].status # "none"} IN
  IF Cardinality(stored) <= JobLimit THEN {}
  ELSE {j \in stored : Cardinality({i \in stored : i < j}) < PruneBatch}

Pruned(table) ==
  LET stored == {j \in JobIds : table[j].status # "none"}
      terminal == {j \in stored : table[j].status # "running"}
  IN IF Cardinality(stored) <= JobLimit THEN {}
     ELSE {j \in terminal : Cardinality({i \in terminal : i < j}) < PruneBatch}

create(c) ==
  LET j == created + 1
      table == [jobs EXCEPT ![j] = [case |-> c, status |-> "running", stage |-> "pending"]]
      index == [jobs_by_run EXCEPT ![c] = j]
  IN /\ created < MaxJobs
     /\ created' = j
     /\ jobs' = Drop(table, Pruned(table))
     /\ jobs_by_run' = Unmap(table, index, Pruned(table))

(***************************************************************************)
(* stage_hook; an error in it is suppressed by the graph.                  *)
(***************************************************************************)
stage_hook(c, stage) ==
  /\ jobs' = LET j == jobs_by_run[c] IN
             IF j = 0 \/ ~Stored(j) THEN jobs ELSE [jobs EXCEPT ![j].stage = stage]
  /\ UNCHANGED <<jobs_by_run, created>>

(***************************************************************************)
(* complete and fail: the job ends, with the stage that was active; a job  *)
(* that is not stored is a KeyError and changes nothing.                   *)
(***************************************************************************)
finish(j, status) ==
  /\ jobs' = IF ~Stored(j) THEN jobs
             ELSE [jobs EXCEPT ![j] =
                    [case |-> jobs[j].case, status |-> status,
                     stage |-> IF jobs[j].stage = "active" THEN status ELSE jobs[j].stage]]
  /\ UNCHANGED <<jobs_by_run, created>>

complete(j) == finish(j, "completed")
fail(j) == finish(j, "failed")

discard_case(c) ==
  LET gone == {j \in JobIds : Stored(j) /\ jobs[j].case = c} IN
  /\ jobs' = Drop(jobs, gone)
  /\ jobs_by_run' = Unmap(jobs, jobs_by_run, gone)
  /\ UNCHANGED created

(***************************************************************************)
(* The store is in the memory of the process.                              *)
(***************************************************************************)
Forget ==
  /\ jobs' = Drop(jobs, JobIds)
  /\ jobs_by_run' = [c \in CaseIds |-> 0]
  /\ UNCHANGED created

StoreInit ==
  /\ jobs = [j \in JobIds |-> [case |-> 0, status |-> "none", stage |-> "pending"]]
  /\ jobs_by_run = [c \in CaseIds |-> 0]
  /\ created = 0

(***************************************************************************)
(* Type invariant of the store.                                            *)
(***************************************************************************)
StoreTypeOK ==
  /\ jobs \in [JobIds -> JobRecord]
  /\ jobs_by_run \in [CaseIds -> {0} \cup JobIds]
  /\ created \in 0..MaxJobs
  /\ \A j \in JobIds : j > created => ~Stored(j)

(***************************************************************************)
(* The index never points at a job that was pruned or discarded, or at the *)
(* job of another case: stage_hook does not raise and does not report a    *)
(* stage to the wrong page (progress.py 77-97, 129-137).                   *)
(***************************************************************************)
IndexSound ==
  \A c \in CaseIds :
    jobs_by_run[c] # 0 => Stored(jobs_by_run[c]) /\ jobs[jobs_by_run[c]].case = c

=============================================================================
