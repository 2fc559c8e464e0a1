---------------------------- MODULE CaseDesk_proofs ----------------------------
(***************************************************************************)
(* Proofs about the case desk, for any actors and roles, and any number of *)
(* cases, jobs, handlers, requests and outages.                            *)
(***************************************************************************)
EXTENDS CaseDesk, TLAPS

USE StoreAssumption, DeskAssumption DEF CaseIds, JobIds

-----------------------------------------------------------------------------
(***************************************************************************)
(* The store.                                                              *)
(***************************************************************************)
StoreOps ==
  \/ \E c \in CaseIds \cup {0} : create(c)
  \/ \E c \in CaseIds \cup {0}, stage \in {"pending", "active", "completed", "failed"} :
       stage_hook(c, stage)
  \/ \E j \in JobIds : complete(j) \/ fail(j)
  \/ \E c \in CaseIds \cup {0} : discard_case(c)
  \/ Forget
  \/ UNCHANGED storeVars

LEMMA DropTyped ==
  ASSUME NEW table \in [JobIds -> JobRecord], NEW js
  PROVE  /\ Drop(table, js) \in [JobIds -> JobRecord]
         /\ \A j \in JobIds :
              /\ Drop(table, js)[j].case = table[j].case
              /\ j \in js => Drop(table, js)[j].status = "none"
              /\ j \notin js => Drop(table, js)[j].status = table[j].status
BY DEF Drop, JobRecord

LEMMA UnmapTyped ==
  ASSUME NEW table, NEW index \in [CaseIds -> {0} \cup JobIds], NEW js
  PROVE  /\ Unmap(table, index, js) \in [CaseIds -> {0} \cup JobIds]
         /\ \A c \in CaseIds : Unmap(table, index, js)[c] # 0 =>
              /\ Unmap(table, index, js)[c] = index[c]
              /\ \A j \in js : table[j].case # c
BY DEF Unmap

(***************************************************************************)
(* _prune takes jobs that have ended.                                      *)
(***************************************************************************)
LEMMA PrunesEnded ==
  ASSUME NEW table, NEW j \in Pruned(table)
  PROVE  j \in JobIds /\ table[j].status \notin {"none", "running"}
BY DEF Pruned

(***************************************************************************)
(* A store without some of its jobs is as sound as the store it came from. *)
(***************************************************************************)
LEMMA DropSound ==
  ASSUME NEW table \in [JobIds -> JobRecord], NEW index \in [CaseIds -> {0} \cup JobIds],
         NEW js \in SUBSET JobIds,
         \A c \in CaseIds : index[c] # 0 =>
           table[index[c]].status # "none" /\ table[index[c]].case = c,
         jobs' = Drop(table, js), jobs_by_run' = Unmap(table, index, js)
  PROVE  IndexSound'
<1> SUFFICES ASSUME NEW c \in CaseIds, jobs_by_run'[c] # 0
             PROVE  /\ jobs'[jobs_by_run'[c]].status # "none"
                    /\ jobs'[jobs_by_run'[c]].case = c
  BY DEF IndexSound, Stored
<1>1. jobs_by_run'[c] = index[c] /\ \A j \in js : table[j].case # c
  BY UnmapTyped
<1>2. index[c] \in JobIds /\ index[c] \notin js
  BY <1>1
<1> QED
  BY <1>1, <1>2, DropTyped

LEMMA StoreSound ==
  ASSUME StoreTypeOK, IndexSound, StoreOps
  PROVE  StoreTypeOK' /\ IndexSound'
<1>1. ASSUME NEW c \in CaseIds \cup {0}, create(c)
      PROVE  StoreTypeOK' /\ IndexSound'
  <2> DEFINE new == [case |-> c, status |-> "running", stage |-> "pending"]
             table == [jobs EXCEPT ![created + 1] = new]
             index == [jobs_by_run EXCEPT ![c] = created + 1]
  <2>1. created + 1 \in JobIds /\ created' = created + 1 /\ created' \in 0..MaxJobs
    BY <1>1 DEF create, StoreTypeOK
  <2>2. new \in JobRecord
    BY DEF JobRecord
  <2>3. /\ table \in [JobIds -> JobRecord]
        /\ table[created + 1] = new
        /\ \A j \in JobIds \ {created + 1} : table[j] = jobs[j]
    BY <2>1, <2>2 DEF StoreTypeOK
  <2>4. /\ index \in [CaseIds -> {0} \cup JobIds]
        /\ c \in CaseIds => index[c] = created + 1
        /\ \A d \in CaseIds \ {c} : index[d] = jobs_by_run[d]
    BY <2>1 DEF StoreTypeOK
  <2>5. jobs' = Drop(table, Pruned(table)) /\ jobs_by_run' = Unmap(table, index, Pruned(table))
    BY <1>1 DEF create
  <2>6. Pruned(table) \in SUBSET JobIds
    BY PrunesEnded
  <2>7. ASSUME NEW d \in CaseIds, index[d] # 0
        PROVE  table[index[d]].status # "none" /\ table[index[d]].case = d
    <3>1. CASE d = c
      BY <2>3, <2>4, <3>1
    <3>2. CASE d # c
      <4>1. Stored(jobs_by_run[d]) /\ jobs[jobs_by_run[d]].case = d
        BY <2>4, <2>7, <3>2 DEF IndexSound
      <4>2. jobs_by_run[d] \in JobIds \ {created + 1}
        BY <2>1, <2>4, <2>7, <3>2, <4>1 DEF StoreTypeOK
      <4> QED
        BY <2>3, <2>4, <3>2, <4>1, <4>2 DEF Stored
    <3> QED
      BY <3>1, <3>2
  <2>8. \A j \in JobIds : j > created + 1 => table[j].status = "none"
    BY <2>1, <2>3 DEF StoreTypeOK, Stored
  <2> HIDE DEF table, index, new
  <2>9. IndexSound'
    BY <2>3, <2>4, <2>5, <2>6, <2>7, DropSound
  <2>10. StoreTypeOK'
    BY <2>1, <2>3, <2>4, <2>5, <2>8, DropTyped, UnmapTyped DEF StoreTypeOK, Stored
  <2> QED
    BY <2>9, <2>10
<1>2. ASSUME NEW c \in CaseIds \cup {0},
             NEW stage \in {"pending", "active", "completed", "failed"}, stage_hook(c, stage)
      PROVE  StoreTypeOK' /\ IndexSound'
  <2>1. /\ jobs' \in [JobIds -> JobRecord]
        /\ \A j \in JobIds : jobs'[j].status = jobs[j].status /\ jobs'[j].case = jobs[j].case
    <3>1. ASSUME NEW j \in JobIds PROVE [jobs[j] EXCEPT !.stage = stage] \in JobRecord
      BY <3>1 DEF StoreTypeOK, JobRecord
    <3>2. PICK j : jobs' = jobs \/ jobs' = [jobs EXCEPT ![j].stage = stage]
      BY <1>2 DEF stage_hook
    <3>3. jobs \in [JobIds -> JobRecord]
      BY DEF StoreTypeOK
    <3>4. /\ [jobs EXCEPT ![j].stage = stage] \in [JobIds -> JobRecord]
          /\ \A i \in JobIds : /\ [jobs EXCEPT ![j].stage = stage][i].status = jobs[i].status
                              /\ [jobs EXCEPT ![j].stage = stage][i].case = jobs[i].case
      <4>1. CASE j \in JobIds
        <5> DEFINE row == [jobs[j] EXCEPT !.stage = stage]
        <5>1. row \in JobRecord /\ row.status = jobs[j].status /\ row.case = jobs[j].case
          BY <3>1, <3>3, <4>1 DEF JobRecord
        <5>2. [jobs EXCEPT ![j].stage = stage] = [jobs EXCEPT ![j] = row]
          OBVIOUS
        <5> HIDE DEF row
        <5> QED BY <3>3, <4>1, <5>1, <5>2
      <4>2. CASE j \notin JobIds
        BY <3>3, <4>2
      <4> QED BY <4>1, <4>2
    <3> QED BY <3>2, <3>3, <3>4
  <2> QED
    BY <1>2, <2>1 DEF stage_hook, StoreTypeOK, IndexSound, Stored
<1>3. ASSUME NEW j \in JobIds, complete(j) \/ fail(j)
      PROVE  StoreTypeOK' /\ IndexSound'
  <2>1. /\ jobs' \in [JobIds -> JobRecord]
        /\ \A i \in JobIds : /\ Stored(i)' <=> Stored(i)
                             /\ jobs'[i].case = jobs[i].case
    BY <1>3 DEF complete, fail, finish, StoreTypeOK, JobRecord, Stored
  <2>2. UNCHANGED <<jobs_by_run, created>>
    BY <1>3 DEF complete, fail, finish
  <2> QED
    BY <2>1, <2>2 DEF StoreTypeOK, IndexSound, Stored
<1>4. ASSUME NEW c \in CaseIds \cup {0}, discard_case(c)
      PROVE  StoreTypeOK' /\ IndexSound'
  <2> DEFINE js == {j \in JobIds : Stored(j) /\ jobs[j].case = c}
  <2>1. /\ jobs' = Drop(jobs, js) /\ jobs_by_run' = Unmap(jobs, jobs_by_run, js)
        /\ created' = created
    BY <1>4 DEF discard_case
  <2>2. js \in SUBSET JobIds
    OBVIOUS
  <2> HIDE DEF js
  <2>3. IndexSound'
    BY <2>1, <2>2, DropSound DEF StoreTypeOK, IndexSound, Stored
  <2>4. StoreTypeOK'
    BY <2>1, <2>2, DropTyped, UnmapTyped DEF StoreTypeOK, Stored
  <2> QED
    BY <2>3, <2>4
<1>5. CASE Forget
  <2>1. jobs' \in [JobIds -> JobRecord] /\ \A j \in JobIds : jobs'[j].status = "none"
    BY <1>5, DropTyped DEF Forget, StoreTypeOK
  <2> QED
    BY <1>5, <2>1 DEF Forget, StoreTypeOK, IndexSound, Stored
<1>6. CASE UNCHANGED storeVars
  BY <1>6 DEF storeVars, StoreTypeOK, IndexSound, Stored
<1> QED
  BY <1>1, <1>2, <1>3, <1>4, <1>5, <1>6 DEF StoreOps

-----------------------------------------------------------------------------
(***************************************************************************)
(* How the process that makes a step changes.                              *)
(***************************************************************************)
LEMMA IdleTyped == Idle \in Proc /\ Idle.pc = "idle"
BY DEF Idle, Proc, Pc, Kind

LEMMA GotoOK ==
  ASSUME ProcOK, NEW p \in Procs, ~At(p, "idle"), NEW pc \in Pc \ {"idle"},
         proc[p].kind = "ui" => pc \in UiPc, proc[p].kind = "task" => pc \in TaskPc,
         Goto(p, pc)
  PROVE  ProcOK'
<1>1. proc' \in [Procs -> Proc]
  BY DEF ProcOK, Goto, Proc
<1>2. \A q \in Procs : q # p => proc'[q] = proc[q]
  BY DEF ProcOK, Goto
<1>3. /\ proc'[p].pc = pc /\ proc'[p].kind = proc[p].kind
      /\ proc'[p].actor = proc[p].actor
  BY DEF ProcOK, Goto, Proc
<1> QED
  BY <1>1, <1>2, <1>3 DEF ProcOK, At, Actor

LEMMA TakesOK ==
  ASSUME ProcOK, NEW p \in Procs, ~At(p, "idle"), NEW pc \in Pc \ {"idle"},
         NEW c \in {0} \cup CaseIds,
         proc[p].kind = "ui" => pc \in UiPc, proc[p].kind = "task" => pc \in TaskPc,
         Takes(p, c, pc)
  PROVE  ProcOK'
<1> DEFINE new == [pc |-> pc, kind |-> proc[p].kind, actor |-> Actor(p),
                   key |-> proc[p].key, case |-> c]
<1>1. /\ new \in Proc /\ new.pc = pc /\ new.kind = proc[p].kind
      /\ new.actor = proc[p].actor
  BY DEF ProcOK, Proc, Actor
<1>2. proc' = [proc EXCEPT ![p] = new]
  BY DEF Takes
<1> HIDE DEF new
<1>3. proc' \in [Procs -> Proc] /\ proc'[p] = new /\ \A q \in Procs : q # p => proc'[q] = proc[q]
  BY <1>1, <1>2 DEF ProcOK
<1> QED
  BY <1>1, <1>3 DEF ProcOK, At, Actor

LEMMA EndsOK ==
  ASSUME ProcOK, NEW p \in Procs, Ends(p)
  PROVE  ProcOK'
<1>1. proc' \in [Procs -> Proc] /\ proc'[p] = Idle /\ \A q \in Procs : q # p => proc'[q] = proc[q]
  BY IdleTyped DEF ProcOK, Ends
<1> QED
  BY <1>1, IdleTyped DEF ProcOK, At, Actor

LEMMA RaisesOK ==
  ASSUME ProcOK, NEW p \in Procs, ~At(p, "idle"), Raises(p)
  PROVE  ProcOK'
<1>1. CASE proc[p].kind = "task"
  BY <1>1, GotoOK DEF Raises, Pc, UiPc, TaskPc
<1>2. CASE proc[p].kind # "task"
  BY <1>2, EndsOK DEF Raises
<1> QED
  BY <1>1, <1>2

LEMMA BeginsOK ==
  ASSUME ProcOK, NEW p \in Requests, NEW kind \in Kind \ {"task"}, NEW a \in Actors,
         NEW k \in Keys \cup {Nobody}, NEW c \in {0} \cup CaseIds, NEW pc \in Pc \ {"idle"},
         kind = "ui" => pc \in UiPc, Begins(p, kind, a, k, c, pc)
  PROVE  ProcOK'
<1> DEFINE new == [pc |-> pc, kind |-> kind, actor |-> a, key |-> k, case |-> c]
<1>1. new \in Proc /\ new.pc = pc /\ new.kind = kind /\ new.actor = a
  BY DEF Proc
<1>2. p \in Procs /\ p \notin JobIds
  BY DEF Procs, Requests
<1>3. proc' = [proc EXCEPT ![p] = new]
  BY DEF Begins
<1> HIDE DEF new
<1>4. proc' \in [Procs -> Proc] /\ proc'[p] = new /\ \A q \in Procs : q # p => proc'[q] = proc[q]
  BY <1>1, <1>2, <1>3 DEF ProcOK
<1> QED
  BY <1>1, <1>2, <1>4 DEF ProcOK, At, Actor

LEMMA CaseTyped ==
  ASSUME ProcOK, NEW p \in Procs
  PROVE  Case(p) \in {0} \cup CaseIds
BY DEF ProcOK, Case, Proc

LEMMA FieldTyped ==
  ASSUME cases \in [CaseIds -> CaseRecord], NEW c
  PROVE  /\ \A s \in CaseStatus \cup {"DELETED"} :
              [cases EXCEPT ![c].status = s] \in [CaseIds -> CaseRecord]
         /\ \A r \in Actors : [cases EXCEPT ![c].reviewer = r] \in [CaseIds -> CaseRecord]
<1>1. ASSUME NEW s \in CaseStatus \cup {"DELETED"}
      PROVE  [cases EXCEPT ![c].status = s] \in [CaseIds -> CaseRecord]
  <2> DEFINE row == [cases[c] EXCEPT !.status = s]
  <2>1. c \in CaseIds => row \in CaseRecord
    BY <1>1 DEF CaseRecord
  <2>2. [cases EXCEPT ![c].status = s] = [cases EXCEPT ![c] = row]
    OBVIOUS
  <2> HIDE DEF row
  <2> QED BY <2>1, <2>2
<1>2. ASSUME NEW r \in Actors
      PROVE  [cases EXCEPT ![c].reviewer = r] \in [CaseIds -> CaseRecord]
  <2> DEFINE row == [cases[c] EXCEPT !.reviewer = r]
  <2>1. c \in CaseIds => row \in CaseRecord
    BY <1>2 DEF CaseRecord
  <2>2. [cases EXCEPT ![c].reviewer = r] = [cases EXCEPT ![c] = row]
    OBVIOUS
  <2> HIDE DEF row
  <2> QED BY <2>1, <2>2
<1> QED
  BY <1>1, <1>2

LEMMA StatusTyped ==
  ASSUME cases \in [CaseIds -> CaseRecord], opened \in 0..MaxCases, NEW c,
         NEW s \in CaseStatus, SetStatus(c, s)
  PROVE  cases' \in [CaseIds -> CaseRecord] /\ opened' \in 0..MaxCases
BY FieldTyped DEF SetStatus

(***************************************************************************)
(* Every step does at most one operation of the store.                     *)
(***************************************************************************)
LEMMA StoreStep ==
  ASSUME ProcOK, [Next]_vars
  PROVE  StoreOps
<1> USE DEF StoreOps
<1>1. ASSUME NEW p \in Requests, Arrives(p)
      PROVE  StoreOps
  BY <1>1 DEF Arrives, start_investigation, ui_start_investigation, _case_for_action
<1>2. ASSUME NEW p \in Procs, ProcStep(p)
      PROVE  StoreOps
  <2>0. Case(p) \in CaseIds \cup {0}
    BY CaseTyped
  <2>1. CASE Select(p) \/ Insert(p) \/ FoundCase(p) \/ ReadRow(p) \/ Respond(p)
             \/ assign_reviewer(p) \/ Check(p) \/ delete_case(p)
    BY <2>1 DEF Select, Insert, FoundCase, ReadRow, Respond, assign_reviewer, Check, delete_case
  <2>2. CASE Spawn(p)
    BY <2>0, <2>2 DEF Spawn
  <2>3. CASE BeginRun(p)
    BY <2>0, <2>3 DEF BeginRun
  <2>4. CASE EndRun(p)
    BY <2>0, <2>4 DEF EndRun, Outcomes
  <2>5. CASE EndTask(p)
    BY <2>5 DEF EndTask
  <2>6. CASE Resume(p)
    BY <2>0, <2>6 DEF Resume, Decides, Informs, Misfits, NothingLeft
  <2>7. CASE ForgetCase(p)
    BY <2>0, <2>7 DEF ForgetCase
  <2> QED
    BY <1>2, <2>1, <2>2, <2>3, <2>4, <2>5, <2>6, <2>7 DEF ProcStep
<1>3. ASSUME NEW p \in Procs, RunRaises(p)
      PROVE  StoreOps
  BY <1>3, CaseTyped DEF RunRaises
<1>4. CASE Restart
  BY <1>4 DEF Restart
<1>5. CASE UNCHANGED vars
  BY <1>5 DEF vars
<1> QED
  BY <1>1, <1>2, <1>3, <1>4, <1>5 DEF Next

(***************************************************************************)
(* The types of the desk.                                                  *)
(***************************************************************************)
DeskOK ==
  /\ cases \in [CaseIds -> CaseRecord]
  /\ opened \in 0..MaxCases
  /\ idempotency \in [Actors \X Keys -> {0} \cup CaseIds]
  /\ ProcOK

LEMMA TypedArrives ==
  ASSUME DeskOK, NEW p \in Requests, Arrives(p)
  PROVE  DeskOK'
<1> PICK a \in Actors :
      \/ \E k \in Keys : start_investigation(p, a, k)
      \/ ui_start_investigation(p, a)
      \/ \E action \in {"claim_review", "review", "supply_information", "reset"}, c \in CaseIds :
           _case_for_action(p, a, action, c)
  BY DEF Arrives
<1>1. ASSUME NEW k \in Keys, start_investigation(p, a, k)
      PROVE  DeskOK'
  <2>1. ProcOK'
    BY <1>1, BeginsOK DEF start_investigation, DeskOK, Kind, Pc
  <2> QED
    BY <1>1, <2>1 DEF start_investigation, DeskOK, rows
<1>2. CASE ui_start_investigation(p, a)
  <2>1. ProcOK'
    BY <1>2, BeginsOK DEF ui_start_investigation, DeskOK, Kind, Pc, UiPc
  <2> QED
    BY <1>2, <2>1 DEF ui_start_investigation, DeskOK, rows
<1>3. ASSUME NEW action \in {"claim_review", "review", "supply_information", "reset"},
             NEW c \in CaseIds, _case_for_action(p, a, action, c)
      PROVE  DeskOK'
  <2>1. ProcOK'
    BY <1>3, BeginsOK DEF _case_for_action, DeskOK, Kind, Pc
  <2> QED
    BY <1>3, <2>1 DEF _case_for_action, DeskOK, rows
<1> QED
  BY <1>1, <1>2, <1>3

LEMMA TypedStep ==
  ASSUME DeskOK, StoreTypeOK, NEW p \in Procs, ProcStep(p) \/ RunRaises(p)
  PROVE  DeskOK'
<1> USE DEF At
<1>1. CASE Select(p)
  <2>1. ProcOK'
    <3>1. CASE Goto(p, "insert")
      BY <1>1, <3>1, GotoOK DEF Select, DeskOK, Pc, UiPc, TaskPc, ProcOK
    <3>2. CASE Ends(p)
      BY <3>2, EndsOK DEF DeskOK
    <3>3. ASSUME NEW c \in CaseIds,
                 Takes(p, c, IF proc[p].kind = "start" THEN "read" ELSE "found")
          PROVE  ProcOK'
      BY <1>1, <3>3, TakesOK DEF Select, DeskOK, Pc, UiPc, TaskPc, ProcOK
    <3> QED
      BY <1>1, <3>1, <3>2, <3>3 DEF Select, Existing
  <2> QED
    BY <1>1, <2>1 DEF Select, DeskOK, rows
<1>2. CASE Insert(p)
  <2>1. CASE Ends(p) /\ UNCHANGED rows
    BY <1>2, <2>1, EndsOK DEF Insert, DeskOK, rows
  <2>2. CASE ~(Ends(p) /\ UNCHANGED rows)
    <3>0. /\ At(p, "insert") /\ opened < MaxCases /\ opened' = opened + 1
          /\ cases' = [cases EXCEPT ![opened + 1] =
               [status |-> "OPEN", tenant |-> Tenant[Actor(p)], investigator |-> Actor(p),
                reviewer |-> Nobody]]
          /\ Takes(p, opened + 1, IF proc[p].kind = "start" THEN "run" ELSE "spawn")
          /\ idempotency' = idempotency
      BY <1>2, <2>2 DEF Insert
    <3>1. opened + 1 \in CaseIds /\ opened' \in 0..MaxCases
      BY <3>0 DEF DeskOK
    <3>2. Actor(p) \in Actors
      BY <3>0 DEF DeskOK, ProcOK
    <3>3. cases' \in [CaseIds -> CaseRecord]
      BY <3>0, <3>1, <3>2 DEF DeskOK, CaseRecord, CaseStatus, Active
    <3>6. ProcOK'
      BY <3>0, <3>1, TakesOK DEF DeskOK, Pc, UiPc, TaskPc, ProcOK
    <3> QED
      BY <3>0, <3>1, <3>3, <3>6 DEF DeskOK
  <2> QED
    BY <1>2, <2>1, <2>2 DEF Insert
<1>3. CASE FoundCase(p)
  <2>1. ProcOK'
    BY <1>3, GotoOK, EndsOK DEF FoundCase, DeskOK, Pc, UiPc, TaskPc, ProcOK
  <2> QED
    BY <1>3, <2>1 DEF FoundCase, DeskOK, rows
<1>4. CASE Spawn(p)
  <2> DEFINE j == created + 1
             new == [proc[p] EXCEPT !.kind = "task", !.pc = "run"]
  <2>1. j \in JobIds /\ j \in Procs
    BY <1>4 DEF Spawn, create, StoreTypeOK, Procs
  <2>2. new \in Proc /\ new.pc = "run" /\ new.kind = "task" /\ new.actor = proc[p].actor
    <3>1. proc[p] \in Proc
      BY DEF DeskOK, ProcOK
    <3> QED BY <3>1 DEF Proc, Pc, Kind
  <2>3. proc' = [proc EXCEPT ![p] = Idle, ![j] = new]
    BY <1>4 DEF Spawn
  <2>4. proc[p].actor \in Actors /\ p # j
    BY <1>4, <2>1 DEF Spawn, DeskOK, ProcOK, TaskPc, Actor
  <2> HIDE DEF j, new
  <2>5. /\ proc' \in [Procs -> Proc] /\ proc'[p] = Idle /\ proc'[j] = new
        /\ \A q \in Procs \ {p, j} : proc'[q] = proc[q]
    BY <2>1, <2>2, <2>3, <2>4, IdleTyped DEF DeskOK, ProcOK
  <2>6. ProcOK'
    BY <2>1, <2>2, <2>4, <2>5, IdleTyped DEF DeskOK, ProcOK, Actor, TaskPc
  <2> QED
    BY <1>4, <2>6 DEF Spawn, DeskOK, rows
<1>5. CASE BeginRun(p)
  <2>1. ProcOK'
    BY <1>5, GotoOK, RaisesOK DEF BeginRun, DeskOK, Pc, UiPc, TaskPc, ProcOK
  <2>2. cases' \in [CaseIds -> CaseRecord] /\ opened' \in 0..MaxCases
    BY <1>5, StatusTyped DEF BeginRun, DeskOK, rows, CaseStatus, Active
  <2> QED
    BY <1>5, <2>1, <2>2 DEF BeginRun, DeskOK
<1>6. CASE EndRun(p)
  <2>1. ProcOK'
    BY <1>6, GotoOK, EndsOK, RaisesOK DEF EndRun, DeskOK, Pc, UiPc, TaskPc, ProcOK
  <2>2. cases' \in [CaseIds -> CaseRecord] /\ opened' \in 0..MaxCases
    BY <1>6, StatusTyped DEF EndRun, DeskOK, rows, CaseStatus
  <2> QED
    BY <1>6, <2>1, <2>2 DEF EndRun, DeskOK
<1>7. CASE RunRaises(p)
  <2>1. ProcOK'
    BY <1>7, RaisesOK DEF RunRaises, DeskOK
  <2> QED
    BY <1>7, <2>1 DEF RunRaises, DeskOK, rows
<1>8. CASE ReadRow(p)
  <2>1. ProcOK'
    BY <1>8, GotoOK, RaisesOK DEF ReadRow, DeskOK, Pc, UiPc, TaskPc, ProcOK
  <2> QED
    BY <1>8, <2>1 DEF ReadRow, DeskOK, rows
<1>9. CASE Respond(p)
  <2>1. idempotency' \in [Actors \X Keys -> {0} \cup CaseIds]
    BY <1>9, CaseTyped DEF Respond, DeskOK
  <2> QED
    BY <1>9, <2>1, EndsOK DEF Respond, DeskOK, rows
<1>10. CASE EndTask(p)
  BY <1>10, EndsOK DEF EndTask, DeskOK, rows
<1>11. CASE assign_reviewer(p)
  <2>1. Actor(p) \in Actors
    BY <1>11 DEF assign_reviewer, DeskOK, ProcOK
  <2>2. cases' \in [CaseIds -> CaseRecord]
    <3>1. CASE cases' = cases
      BY <3>1 DEF DeskOK
    <3>2. CASE cases' = [cases EXCEPT ![Case(p)].reviewer = Actor(p)]
      BY <2>1, <3>2, FieldTyped DEF DeskOK
    <3> QED
      BY <1>11, <3>1, <3>2 DEF assign_reviewer
  <2> QED
    BY <1>11, <2>2, EndsOK DEF assign_reviewer, DeskOK
<1>12. CASE Check(p)
  <2>1. ProcOK'
    BY <1>12, GotoOK, EndsOK DEF Check, DeskOK, Pc, UiPc, TaskPc, ProcOK
  <2> QED
    BY <1>12, <2>1 DEF Check, DeskOK, rows
<1>13. CASE Resume(p)
  <2>1. ProcOK'
    BY <1>13, GotoOK, EndsOK
       DEF Resume, Decides, Informs, Misfits, NothingLeft, DeskOK, Pc, UiPc, TaskPc, ProcOK
  <2>2. cases' \in [CaseIds -> CaseRecord] /\ opened' \in 0..MaxCases
    BY <1>13, StatusTyped
       DEF Resume, Decides, Informs, Misfits, NothingLeft, DeskOK, rows, CaseStatus, Active, Outcomes
  <2> QED
    BY <1>13, <2>1, <2>2 DEF Resume, DeskOK
<1>14. CASE delete_case(p)
  <2>1. ProcOK'
    BY <1>14, GotoOK, EndsOK DEF delete_case, DeskOK, Pc, UiPc, TaskPc, ProcOK
  <2>2. cases' \in [CaseIds -> CaseRecord]
    <3>1. CASE cases' = cases
      BY <3>1 DEF DeskOK
    <3>2. CASE cases' = [cases EXCEPT ![Case(p)].status = "DELETED"]
      BY <3>2, FieldTyped DEF DeskOK
    <3> QED
      BY <1>14, <3>1, <3>2 DEF delete_case
  <2> QED
    BY <1>14, <2>1, <2>2 DEF delete_case, DeskOK
<1>15. CASE ForgetCase(p)
  BY <1>15, EndsOK DEF ForgetCase, Purged, DeskOK, rows
<1> QED
  BY <1>1, <1>2, <1>3, <1>4, <1>5, <1>6, <1>7, <1>8, <1>9, <1>10, <1>11, <1>12, <1>13, <1>14,
     <1>15 DEF ProcStep

LEMMA TypedInit == Init => TypeOK /\ IndexSound
<1> SUFFICES ASSUME Init PROVE TypeOK /\ IndexSound
  OBVIOUS
<1>1. StoreTypeOK /\ IndexSound
  BY DEF Init, StoreInit, StoreTypeOK, JobRecord, Stored, IndexSound
<1>2. cases \in [CaseIds -> CaseRecord] /\ opened \in 0..MaxCases
  BY DEF Init, CaseRecord
<1>3. idempotency \in [Actors \X Keys -> {0} \cup CaseIds]
  BY DEF Init
<1>4. ProcOK
  BY IdleTyped DEF Init, ProcOK, At
<1> QED
  BY <1>1, <1>2, <1>3, <1>4 DEF TypeOK

LEMMA TypedNext ==
  ASSUME TypeOK, IndexSound, [Next]_vars
  PROVE  TypeOK' /\ IndexSound'
<1>1. StoreTypeOK' /\ IndexSound'
  BY StoreStep, StoreSound DEF TypeOK
<1>2. DeskOK'
  <2>0. DeskOK
    BY DEF TypeOK, DeskOK
  <2>1. ASSUME NEW p \in Requests, Arrives(p)
        PROVE  DeskOK'
    BY <2>0, <2>1, TypedArrives
  <2>2. ASSUME NEW p \in Procs, ProcStep(p) \/ RunRaises(p)
        PROVE  DeskOK'
    BY <2>0, <2>2, TypedStep DEF TypeOK
  <2>3. CASE Restart
    BY <2>0, <2>3, IdleTyped DEF Restart, DeskOK, rows, ProcOK, At
  <2>4. CASE UNCHANGED vars
    BY <2>0, <2>4 DEF vars, DeskOK, rows, ProcOK, At, Actor
  <2> QED
    BY <2>1, <2>2, <2>3, <2>4 DEF Next
<1> QED
  BY <1>1, <1>2 DEF TypeOK, DeskOK

(***************************************************************************)
(* Every state of the desk has its types, whatever the interleaving, and   *)
(* each kind of process is where that kind can be (app.py 219-250,         *)
(* 568-612).                                                               *)
(***************************************************************************)
THEOREM Typed == Spec => []TypeOK
<1>1. TypeOK /\ IndexSound /\ [Next]_vars => TypeOK' /\ IndexSound'
  BY TypedNext
<1> QED
  BY TypedInit, <1>1, PTL DEF Spec

(***************************************************************************)
(* The index of the progress store never points at a job that is gone, or  *)
(* of another case (progress.py 77-97, 129-137).                           *)
(***************************************************************************)
THEOREM Sound == Spec => []IndexSound
<1>1. TypeOK /\ IndexSound /\ [Next]_vars => TypeOK' /\ IndexSound'
  BY TypedNext
<1> QED
  BY TypedInit, <1>1, PTL DEF Spec

-----------------------------------------------------------------------------
(***************************************************************************)
(* The cases that handlers and tasks hold exist, and the case of a reset   *)
(* that has deleted it stays deleted.                                      *)
(***************************************************************************)
Known ==
  /\ \A c \in CaseIds : c > opened => cases[c].status = "ABSENT" /\ cases[c].reviewer = Nobody
  /\ \A p \in Procs :
       /\ proc[p].pc \notin {"idle", "look", "insert"} => Case(p) \in 1..opened
       /\ At(p, "forget") => ~Live(Case(p))

(***************************************************************************)
(* The invariant of review: the actor of a claim under way, and every      *)
(* assigned reviewer, may review; the actor of a review under way, and of  *)
(* every decision, is also the one assigned.                               *)
(***************************************************************************)
Admin(a) == "administrator" \in Roles[a]

MayReview(a, c) ==
  Admin(a) \/ ("reviewer" \in Roles[a] /\ cases[c].tenant = Tenant[a] /\ cases[c].investigator # a)

Reviews(a, c) == Admin(a) \/ (MayReview(a, c) /\ cases[c].reviewer = a)

Reviewing(p) == proc[p].kind = "review" /\ proc[p].pc \in {"check", "resume"}

ReviewInv ==
  /\ \A c \in CaseIds : cases[c].reviewer # Nobody => MayReview(cases[c].reviewer, c)
  /\ \A p \in Procs :
       /\ At(p, "assign") => MayReview(Actor(p), Case(p))
       /\ Reviewing(p) => Reviews(Actor(p), Case(p))
  /\ \A d \in decisions :
       d.case \in 1..opened /\ d.actor \in Actors /\ Reviews(d.actor, d.case)

LEMMA ReviewIndependent == ReviewInv => IndependentReview
BY DEF ReviewInv, Reviews, MayReview, Admin, IndependentReview

(***************************************************************************)
(* A step that leaves who reviews what alone, and brings a process to a    *)
(* point where it neither claims nor reviews nor resets.                   *)
(***************************************************************************)
SameRows ==
  /\ opened' = opened
  /\ \A c \in CaseIds :
       /\ cases'[c].tenant = cases[c].tenant
       /\ cases'[c].investigator = cases[c].investigator
       /\ cases'[c].reviewer = cases[c].reviewer
       /\ ~Live(c) => cases'[c].status = cases[c].status

PlainPc == {"idle", "look", "insert", "found", "spawn", "run", "running", "read", "respond",
            "complete", "error"}

PlainStep(ps) ==
  /\ SameRows
  /\ decisions' = decisions
  /\ \A q \in Procs \ ps : proc'[q] = proc[q]
  /\ \A q \in ps : /\ proc'[q].pc \in PlainPc
                   /\ proc'[q].pc \notin {"idle", "look", "insert"} => proc'[q].case \in 1..opened

LEMMA Plain ==
  ASSUME TypeOK, Known, ReviewInv, NEW ps \in SUBSET Procs, PlainStep(ps)
  PROVE  Known' /\ ReviewInv'
<1>1. opened \in 0..MaxCases /\ opened' = opened
  BY DEF TypeOK, PlainStep, SameRows
<1>2. ASSUME NEW c \in CaseIds
      PROVE  /\ ~Live(c) => ~Live(c)'
             /\ \A a : (MayReview(a, c))' <=> MayReview(a, c)
             /\ \A a : (Reviews(a, c))' <=> Reviews(a, c)
  BY DEF PlainStep, SameRows, Live, MayReview, Reviews, Admin
<1>3. Known'
  <2>1. ASSUME NEW c \in CaseIds, c > opened
        PROVE  cases'[c].status = "ABSENT" /\ cases'[c].reviewer = Nobody
    BY <2>1 DEF PlainStep, SameRows, Known, Live, CaseStatus, Active, Outcomes
  <2>2. ASSUME NEW q \in Procs
        PROVE  /\ proc'[q].pc \notin {"idle", "look", "insert"} => proc'[q].case \in 1..opened
               /\ proc'[q].pc = "forget" => cases'[proc'[q].case].status \notin CaseStatus
    <3>1. CASE q \in ps
      BY <3>1 DEF PlainStep, PlainPc
    <3>2. CASE q \notin ps
      <4>1. proc'[q] = proc[q]
        BY <3>2 DEF PlainStep
      <4>2. proc[q].pc = "forget" => proc[q].case \in CaseIds /\ ~Live(proc[q].case)
        BY <1>1 DEF Known, At, Case
      <4> QED
        BY <1>2, <4>1, <4>2 DEF Known, At, Case, Live
    <3> QED
      BY <3>1, <3>2
  <2> QED
    BY <1>1, <2>1, <2>2 DEF Known, At, Case, Live
<1>4. ReviewInv'
  <2>1. ASSUME NEW c \in CaseIds, cases'[c].reviewer # Nobody
        PROVE  (MayReview(cases[c].reviewer, c))'
    BY <1>2, <2>1 DEF PlainStep, SameRows, ReviewInv, MayReview, Admin
  <2>2. ASSUME NEW q \in Procs
        PROVE  /\ (At(q, "assign"))' => (MayReview(Actor(q), Case(q)))'
               /\ (Reviewing(q))' => (Reviews(Actor(q), Case(q)))'
    <3>1. CASE q \in ps
      BY <3>1 DEF PlainStep, PlainPc, At, Reviewing
    <3>2. CASE q \notin ps
      <4>1. proc'[q] = proc[q]
        BY <3>2 DEF PlainStep
      <4>2. At(q, "assign") \/ Reviewing(q) => Case(q) \in CaseIds
        BY <1>1 DEF Known, At, Reviewing
      <4> QED
        BY <1>2, <4>1, <4>2 DEF ReviewInv, At, Case, Actor, Reviewing, MayReview, Reviews, Admin,
           PlainStep, SameRows
    <3> QED
      BY <3>1, <3>2
  <2>3. ASSUME NEW d \in decisions'
        PROVE  d.case \in 1..opened' /\ d.actor \in Actors /\ (Reviews(d.actor, d.case))'
    BY <1>1, <1>2, <2>3 DEF PlainStep, ReviewInv, Reviews, MayReview, Admin
  <2> QED
    BY <2>1, <2>2, <2>3 DEF ReviewInv
<1> QED
  BY <1>3, <1>4

LEMMA Moves ==
  ASSUME ProcOK, NEW p \in Procs
  PROVE  /\ \A pc : Goto(p, pc) => /\ proc'[p].pc = pc /\ proc'[p].case = proc[p].case
                                   /\ proc'[p].kind = proc[p].kind
                                   /\ proc'[p].actor = proc[p].actor
                                   /\ \A q \in Procs \ {p} : proc'[q] = proc[q]
         /\ Ends(p) => /\ proc'[p] = Idle /\ proc'[p].pc = "idle"
                       /\ \A q \in Procs \ {p} : proc'[q] = proc[q]
         /\ Raises(p) => /\ proc'[p].pc \in {"idle", "error"}
                         /\ proc'[p].pc = "error" => proc'[p].case = proc[p].case
                         /\ \A q \in Procs \ {p} : proc'[q] = proc[q]
<1>1. ASSUME NEW pc, Goto(p, pc)
      PROVE  /\ proc'[p].pc = pc /\ proc'[p].case = proc[p].case
             /\ proc'[p].kind = proc[p].kind /\ proc'[p].actor = proc[p].actor
             /\ \A q \in Procs \ {p} : proc'[q] = proc[q]
  BY <1>1 DEF ProcOK, Goto, Proc
<1>2. Ends(p) => /\ proc'[p] = Idle /\ proc'[p].pc = "idle"
                 /\ \A q \in Procs \ {p} : proc'[q] = proc[q]
  BY IdleTyped DEF ProcOK, Ends
<1> QED
  BY <1>1, <1>2 DEF Raises

(***************************************************************************)
(* SetStatus on a case that exists.                                        *)
(***************************************************************************)
LEMMA StatusSame ==
  ASSUME TypeOK, NEW c, NEW s, SetStatus(c, s), c \in CaseIds => Live(c)
  PROVE  SameRows
BY DEF SetStatus, TypeOK, CaseRecord, SameRows

LEMMA ReviewPlain ==
  ASSUME TypeOK, Known, ReviewInv, NEW p \in Procs,
         \/ Select(p) \/ FoundCase(p) \/ BeginRun(p) \/ EndRun(p) \/ RunRaises(p) \/ ReadRow(p)
         \/ Respond(p) \/ EndTask(p) \/ ForgetCase(p)
  PROVE  Known' /\ ReviewInv'
<1> SUFFICES PlainStep({p})
  BY Plain
<1>0. ProcOK /\ opened \in 0..MaxCases
  BY DEF TypeOK
<1>1. Known /\ proc[p].pc \notin {"idle", "look", "insert"} => proc[p].case \in 1..opened
  BY DEF Known, Case
<1> USE DEF PlainStep, PlainPc, At
<1>2. CASE Select(p)
  <2>1. SameRows /\ decisions' = decisions
    BY <1>2 DEF Select, rows, history, SameRows
  <2>2. ASSUME NEW c \in Existing(Actor(p)), NEW pc \in {"read", "found"}, Takes(p, c, pc)
        PROVE  PlainStep({p})
    <3>1. c \in 1..opened
      BY <1>0 DEF Existing, Known, Live, CaseStatus, Active, Outcomes
    <3>2. proc'[p].pc = pc /\ proc'[p].case = c /\ \A q \in Procs \ {p} : proc'[q] = proc[q]
      BY <1>0, <2>2 DEF Takes, ProcOK
    <3> QED
      BY <1>0, <2>1, <3>1, <3>2 DEF SameRows
  <2> QED
    BY <1>0, <1>2, <2>1, <2>2, Moves DEF Select
<1>3. CASE FoundCase(p)
  BY <1>0, <1>1, <1>3, Moves DEF FoundCase, rows, history, SameRows
<1>4. CASE BeginRun(p)
  <2>1. SameRows
    BY <1>4, StatusSame DEF BeginRun, rows, SameRows
  <2> QED
    BY <1>0, <1>1, <1>4, <2>1, Moves DEF BeginRun, SameRows
<1>5. CASE EndRun(p)
  <2>1. SameRows
    BY <1>5, StatusSame DEF EndRun, rows, SameRows
  <2> QED
    BY <1>0, <1>1, <1>5, <2>1, Moves DEF EndRun, SameRows
<1>6. CASE RunRaises(p)
  BY <1>0, <1>1, <1>6, Moves DEF RunRaises, rows, history, SameRows
<1>7. CASE ReadRow(p)
  BY <1>0, <1>1, <1>7, Moves DEF ReadRow, rows, history, SameRows
<1>8. CASE Respond(p)
  BY <1>0, <1>8, Moves DEF Respond, rows, history, SameRows
<1>9. CASE EndTask(p)
  BY <1>0, <1>9, Moves DEF EndTask, rows, history, SameRows
<1>10. CASE ForgetCase(p)
  BY <1>0, <1>10, Moves DEF ForgetCase, rows, SameRows
<1> QED
  BY <1>2, <1>3, <1>4, <1>5, <1>6, <1>7, <1>8, <1>9, <1>10

(***************************************************************************)
(* A request is authorised on a case that exists.                          *)
(***************************************************************************)
LEMMA Authorised ==
  ASSUME NEW a \in Actors, NEW c \in CaseIds, ReviewInv
  PROVE  /\ Allowed(a, c, "claim_review") => MayReview(a, c)
         /\ Allowed(a, c, "review") => Reviews(a, c)
BY DEF Allowed, authorize_case, MayReview, Reviews, Admin, ReviewInv

LEMMA ReviewArrives ==
  ASSUME TypeOK, Known, ReviewInv, NEW p \in Requests, Arrives(p)
  PROVE  Known' /\ ReviewInv'
<1>0. ProcOK /\ opened \in 0..MaxCases /\ p \in Procs
  BY DEF TypeOK, Procs
<1>2. ASSUME NEW a \in Actors, NEW kind, NEW k, Begins(p, kind, a, k, 0, "look"),
             UNCHANGED <<cases, opened, decisions>>
      PROVE  Known' /\ ReviewInv'
  <2>1. proc'[p].pc = "look" /\ \A q \in Procs \ {p} : proc'[q] = proc[q]
    BY <1>0, <1>2 DEF Begins, ProcOK
  <2>2. PlainStep({p})
    BY <1>2, <2>1 DEF PlainStep, PlainPc, SameRows
  <2> QED
    BY <1>0, <2>2, Plain
<1>3. ASSUME NEW a \in Actors,
             (\E k \in Keys : start_investigation(p, a, k)) \/ ui_start_investigation(p, a)
      PROVE  Known' /\ ReviewInv'
  BY <1>2, <1>3 DEF start_investigation, ui_start_investigation, rows, history
<1>4. ASSUME NEW a \in Actors,
             NEW action \in {"claim_review", "review", "supply_information", "reset"},
             NEW c \in CaseIds, _case_for_action(p, a, action, c)
      PROVE  Known' /\ ReviewInv'
  <2> DEFINE pc == IF action = "claim_review" THEN "assign" ELSE "check"
  <2>1. /\ Live(c) /\ Allowed(a, c, action)
        /\ UNCHANGED <<cases, opened, decisions>>
        /\ Begins(p, action, a, Nobody, c, pc)
    BY <1>4 DEF _case_for_action, rows, history
  <2>2. /\ proc'[p].pc = pc /\ proc'[p].kind = action /\ proc'[p].actor = a /\ proc'[p].case = c
        /\ \A q \in Procs \ {p} : proc'[q] = proc[q]
    BY <1>0, <2>1 DEF Begins, ProcOK
  <2>3. c \in 1..opened
    BY <1>0, <2>1 DEF Known, Live, CaseStatus, Active, Outcomes
  <2>4. Known'
    <3>1. ASSUME NEW q \in Procs
          PROVE  /\ proc'[q].pc \notin {"idle", "look", "insert"} => proc'[q].case \in 1..opened
                 /\ proc'[q].pc = "forget" => cases[proc'[q].case].status \notin CaseStatus
      <4>1. CASE q = p
        BY <2>2, <2>3, <4>1
      <4>2. CASE q # p
        BY <2>2, <4>2 DEF Known, At, Case, Live
      <4> QED
        BY <4>1, <4>2
    <3> QED
      BY <2>1, <3>1 DEF Known, At, Case, Live
  <2>5. ASSUME NEW q \in Procs
        PROVE  /\ (At(q, "assign"))' => (MayReview(Actor(q), Case(q)))'
               /\ (Reviewing(q))' => (Reviews(Actor(q), Case(q)))'
    <3>1. CASE q = p
      BY <2>1, <2>2, <3>1, Authorised
         DEF At, Reviewing, Actor, Case, MayReview, Reviews, Admin
    <3>2. CASE q # p
      BY <2>1, <2>2, <3>2 DEF ReviewInv, At, Reviewing, Actor, Case, MayReview, Reviews, Admin
    <3> QED
      BY <3>1, <3>2
  <2>6. ReviewInv'
    BY <2>1, <2>5 DEF ReviewInv, MayReview, Reviews, Admin
  <2> QED
    BY <2>4, <2>6
<1> QED
  BY <1>2, <1>3, <1>4 DEF Arrives

LEMMA ReviewSpawn ==
  ASSUME TypeOK, Known, ReviewInv, NEW p \in Procs, Spawn(p)
  PROVE  Known' /\ ReviewInv'
<1> DEFINE j == created + 1
           new == [proc[p] EXCEPT !.kind = "task", !.pc = "run"]
<1>1. j \in JobIds /\ j \in Procs
  BY DEF Spawn, create, TypeOK, StoreTypeOK, Procs
<1>2. new.pc = "run" /\ new.case = proc[p].case
  BY DEF TypeOK, ProcOK, Proc
<1>3. proc' = [proc EXCEPT ![p] = Idle, ![j] = new]
  BY DEF Spawn
<1>4. proc[p].case \in 1..opened
  BY DEF Spawn, At, Known, Case
<1>5. SameRows /\ decisions' = decisions
  BY DEF Spawn, rows, history, SameRows
<1> HIDE DEF j, new
<1>6. /\ \A q \in Procs \ {p, j} : proc'[q] = proc[q]
      /\ proc'[j] = new
      /\ p # j => proc'[p] = Idle
  BY <1>1, <1>3 DEF TypeOK, ProcOK
<1>7. PlainStep({p, j})
  BY <1>1, <1>2, <1>4, <1>5, <1>6, IdleTyped DEF PlainStep, PlainPc, SameRows
<1> QED
  BY <1>1, <1>7, Plain

LEMMA ReviewInsert ==
  ASSUME TypeOK, Known, ReviewInv, NEW p \in Procs, Insert(p)
  PROVE  Known' /\ ReviewInv'
<1>0. ProcOK /\ opened \in 0..MaxCases
  BY DEF TypeOK
<1>1. CASE Ends(p) /\ UNCHANGED rows
  <2>1. PlainStep({p})
    BY <1>0, <1>1, Moves DEF Insert, PlainStep, PlainPc, rows, history, SameRows
  <2> QED
    BY <2>1, Plain
<1>2. CASE ~(Ends(p) /\ UNCHANGED rows)
  <2> DEFINE n == opened + 1
             row == [status |-> "OPEN", tenant |-> Tenant[Actor(p)],
                     investigator |-> Actor(p), reviewer |-> Nobody]
             pc == IF proc[p].kind = "start" THEN "run" ELSE "spawn"
  <2>1. /\ At(p, "insert") /\ opened < MaxCases /\ opened' = n
        /\ cases' = [cases EXCEPT ![n] = row] /\ Takes(p, n, pc) /\ decisions' = decisions
    BY <1>2 DEF Insert, history
  <2>2. n \in CaseIds /\ n = opened + 1
    BY <1>0, <2>1
  <2>3. row.reviewer = Nobody
    OBVIOUS
  <2>4. /\ proc'[p].pc \in {"run", "spawn"} /\ proc'[p].case = n
        /\ \A q \in Procs \ {p} : proc'[q] = proc[q]
    BY <1>0, <2>1 DEF Takes, ProcOK
  <2> HIDE DEF n, row, pc
  <2>5. cases'[n] = row /\ \A c \in CaseIds \ {n} : cases'[c] = cases[c]
    BY <2>1, <2>2 DEF TypeOK
  <2>6. ASSUME NEW q \in Procs, q # p,
               proc[q].pc \notin {"idle", "look", "insert"}
        PROVE  Case(q) \in CaseIds \ {n} /\ Case(q) \in 1..opened
    BY <1>0, <2>2, <2>6 DEF Known
  <2>7. Known'
    <3>1. ASSUME NEW c \in CaseIds, c > opened'
          PROVE  cases'[c].status = "ABSENT" /\ cases'[c].reviewer = Nobody
      BY <1>0, <2>1, <2>2, <2>5, <3>1 DEF Known
    <3>2. ASSUME NEW q \in Procs
          PROVE  /\ proc'[q].pc \notin {"idle", "look", "insert"} => proc'[q].case \in 1..opened'
                 /\ proc'[q].pc = "forget" => cases'[proc'[q].case].status \notin CaseStatus
      <4>1. CASE q = p
        BY <1>0, <2>1, <2>2, <2>4, <4>1
      <4>2. CASE q # p
        BY <1>0, <2>1, <2>2, <2>4, <2>5, <2>6, <4>2 DEF Known, At, Case, Live
      <4> QED
        BY <4>1, <4>2
    <3> QED
      BY <3>1, <3>2 DEF Known, At, Case, Live
  <2>8. ASSUME NEW c \in CaseIds, cases'[c].reviewer # Nobody
        PROVE  (MayReview(cases[c].reviewer, c))'
    BY <2>3, <2>5, <2>8 DEF ReviewInv, MayReview, Admin
  <2>9. ASSUME NEW q \in Procs
        PROVE  /\ (At(q, "assign"))' => (MayReview(Actor(q), Case(q)))'
               /\ (Reviewing(q))' => (Reviews(Actor(q), Case(q)))'
    <3>1. CASE q = p
      BY <2>4, <3>1 DEF At, Reviewing
    <3>2. CASE q # p
      BY <2>4, <2>5, <2>6, <3>2
         DEF ReviewInv, At, Reviewing, Actor, Case, MayReview, Reviews, Admin
    <3> QED
      BY <3>1, <3>2
  <2>10. ASSUME NEW d \in decisions'
         PROVE  d.case \in 1..opened' /\ d.actor \in Actors /\ (Reviews(d.actor, d.case))'
    <3>1. d.case \in 1..opened /\ d.actor \in Actors /\ Reviews(d.actor, d.case)
      BY <2>1, <2>10 DEF ReviewInv
    <3>2. d.case \in CaseIds \ {n} /\ d.case \in 1..opened'
      BY <1>0, <2>1, <2>2, <3>1
    <3> QED
      BY <2>5, <3>1, <3>2 DEF Reviews, MayReview, Admin
  <2> QED
    BY <2>7, <2>8, <2>9, <2>10 DEF ReviewInv
<1> QED
  BY <1>1, <1>2

(***************************************************************************)
(* A claim: the reviewer of the row becomes the claimant, if it was        *)
(* nobody, or stays.                                                       *)
(***************************************************************************)
LEMMA ReviewAssign ==
  ASSUME TypeOK, Known, ReviewInv, NEW p \in Procs, assign_reviewer(p)
  PROVE  Known' /\ ReviewInv'
<1>0. ProcOK /\ opened \in 0..MaxCases
  BY DEF TypeOK
<1>1. At(p, "assign") /\ Ends(p) /\ UNCHANGED <<opened, decisions>>
  BY DEF assign_reviewer, history
<1>2. CASE cases' = cases
  <2>1. PlainStep({p})
    BY <1>0, <1>1, <1>2, Moves DEF PlainStep, PlainPc, SameRows
  <2> QED
    BY <2>1, Plain
<1>3. CASE cases' # cases
  <2> DEFINE n == Case(p)
             a == Actor(p)
  <2>1. /\ cases' = [cases EXCEPT ![n].reviewer = a]
        /\ cases[n].reviewer \in {Nobody, a}
    BY <1>3 DEF assign_reviewer, Assignable
  <2>2. n \in 1..opened /\ n \in CaseIds /\ a \in Actors /\ a # Nobody
    BY <1>0, <1>1 DEF Known, At, ProcOK
  <2>3. MayReview(a, n)
    BY <1>1 DEF ReviewInv
  <2> HIDE DEF n, a
  <2>4. \A c \in CaseIds : /\ cases'[c].status = cases[c].status
                          /\ cases'[c].tenant = cases[c].tenant
                          /\ cases'[c].investigator = cases[c].investigator
                          /\ cases'[c].reviewer = IF c = n THEN a ELSE cases[c].reviewer
    BY <2>1, <2>2 DEF TypeOK, CaseRecord
  <2>5. ASSUME NEW c \in CaseIds, NEW b
        PROVE  /\ (MayReview(b, c))' <=> MayReview(b, c)
               /\ b # Nobody /\ Reviews(b, c) => (Reviews(b, c))'
    BY <2>1, <2>4 DEF MayReview, Reviews, Admin
  <2>6. proc'[p].pc = "idle" /\ \A q \in Procs \ {p} : proc'[q] = proc[q]
    BY <1>0, <1>1, Moves
  <2>7. Known'
    BY <1>0, <1>1, <2>2, <2>4, <2>6 DEF Known, At, Case, Live
  <2>8. ASSUME NEW c \in CaseIds, cases'[c].reviewer # Nobody
        PROVE  (MayReview(cases[c].reviewer, c))'
    BY <2>3, <2>4, <2>8 DEF ReviewInv, MayReview, Admin
  <2>9. ASSUME NEW q \in Procs
        PROVE  /\ (At(q, "assign"))' => (MayReview(Actor(q), Case(q)))'
               /\ (Reviewing(q))' => (Reviews(Actor(q), Case(q)))'
    <3>1. CASE q = p
      BY <2>6, <3>1 DEF At, Reviewing
    <3>2. CASE q # p
      <4>1. proc'[q] = proc[q]
        BY <2>6, <3>2
      <4>2. ASSUME At(q, "assign") \/ Reviewing(q)
            PROVE  Case(q) \in CaseIds /\ Actor(q) \in Actors /\ Actor(q) # Nobody
        BY <1>0, <4>2 DEF Known, At, Reviewing, ProcOK
      <4>3. (At(q, "assign"))' => (MayReview(Actor(q), Case(q)))'
        BY <2>4, <4>1, <4>2 DEF ReviewInv, At, Actor, Case, MayReview, Admin
      <4>4. (Reviewing(q))' => (Reviews(Actor(q), Case(q)))'
        BY <2>1, <2>4, <4>1, <4>2 DEF ReviewInv, Reviewing, Actor, Case, Reviews, MayReview, Admin
      <4> QED
        BY <4>3, <4>4
    <3> QED
      BY <3>1, <3>2
  <2>10. ASSUME NEW d \in decisions'
         PROVE  d.case \in 1..opened' /\ d.actor \in Actors /\ (Reviews(d.actor, d.case))'
    <3>1. d.case \in 1..opened /\ d.actor \in Actors /\ Reviews(d.actor, d.case)
      BY <1>1, <2>10 DEF ReviewInv
    <3>2. d.case \in CaseIds
      BY <1>0, <3>1
    <3>3. Admin(d.actor) \/ cases[d.case].reviewer = d.actor
      BY <3>1 DEF Reviews
    <3> QED
      BY <1>1, <2>1, <2>4, <3>1, <3>2, <3>3 DEF Reviews, MayReview, Admin, Known
  <2> QED
    BY <2>7, <2>8, <2>9, <2>10 DEF ReviewInv
<1> QED
  BY <1>2, <1>3

(***************************************************************************)
(* The checks of the engine, which leave the request where it was          *)
(* authorised, and the end of a reset.                                     *)
(***************************************************************************)
LEMMA ReviewCheck ==
  ASSUME TypeOK, Known, ReviewInv, NEW p \in Procs, Check(p) \/ delete_case(p)
  PROVE  Known' /\ ReviewInv'
<1>0. ProcOK /\ opened \in 0..MaxCases
  BY DEF TypeOK
<1>1. CASE Ends(p) /\ UNCHANGED <<cases, opened, decisions>>
  <2>1. PlainStep({p})
    BY <1>0, <1>1, Moves DEF PlainStep, PlainPc, SameRows
  <2> QED
    BY <2>1, Plain
<1>2. CASE At(p, "check") /\ (Goto(p, "resume") \/ Goto(p, "delete")) /\ UNCHANGED <<cases, opened, decisions>>
  <2>1. /\ proc'[p].pc \in {"resume", "delete"} /\ proc'[p].case = proc[p].case
        /\ proc'[p].kind = proc[p].kind /\ proc'[p].actor = proc[p].actor
        /\ \A q \in Procs \ {p} : proc'[q] = proc[q]
    BY <1>0, <1>2, Moves
  <2>2. Known'
    <3>1. ASSUME NEW q \in Procs
          PROVE  /\ proc'[q].pc \notin {"idle", "look", "insert"} => proc'[q].case \in 1..opened
                 /\ proc'[q].pc = "forget" => cases[proc'[q].case].status \notin CaseStatus
      BY <1>2, <2>1 DEF Known, At, Case, Live
    <3> QED
      BY <1>2, <3>1 DEF Known, At, Case, Live
  <2>3. ASSUME NEW q \in Procs
        PROVE  /\ (At(q, "assign"))' => (MayReview(Actor(q), Case(q)))'
               /\ (Reviewing(q))' => (Reviews(Actor(q), Case(q)))'
    <3>1. CASE q = p
      BY <1>2, <2>1, <3>1 DEF ReviewInv, At, Reviewing, Actor, Case, MayReview, Reviews, Admin
    <3>2. CASE q # p
      BY <1>2, <2>1, <3>2 DEF ReviewInv, At, Reviewing, Actor, Case, MayReview, Reviews, Admin
    <3> QED
      BY <3>1, <3>2
  <2>4. ReviewInv'
    BY <1>2, <2>3 DEF ReviewInv, MayReview, Reviews, Admin
  <2> QED
    BY <2>2, <2>4
<1>3. CASE delete_case(p) /\ Live(Case(p))
  <2>1. /\ At(p, "delete") /\ Goto(p, "forget") /\ opened' = opened /\ decisions' = decisions
        /\ cases' = [cases EXCEPT ![Case(p)].status = "DELETED"]
    BY <1>3 DEF delete_case, history
  <2>2. Case(p) \in 1..opened /\ Case(p) \in CaseIds
    BY <1>0, <2>1 DEF Known, At
  <2>3. \A c \in CaseIds :
          /\ cases'[c].status = IF c = Case(p) THEN "DELETED" ELSE cases[c].status
          /\ cases'[c].tenant = cases[c].tenant
          /\ cases'[c].investigator = cases[c].investigator
          /\ cases'[c].reviewer = cases[c].reviewer
    BY <2>1, <2>2 DEF TypeOK, CaseRecord
  <2>4. /\ proc'[p].pc = "forget" /\ proc'[p].case = proc[p].case
        /\ \A q \in Procs \ {p} : proc'[q] = proc[q]
    BY <1>0, <2>1, Moves
  <2>5. Known'
    <3>1. ASSUME NEW q \in Procs
          PROVE  /\ proc'[q].pc \notin {"idle", "look", "insert"} => proc'[q].case \in 1..opened
                 /\ proc'[q].pc = "forget" => cases'[proc'[q].case].status \notin CaseStatus
      <4>1. CASE q = p
        BY <2>2, <2>3, <2>4, <4>1 DEF Case, CaseStatus, Active, Outcomes
      <4>2. CASE q # p
        <5>1. proc[q].pc = "forget" => proc[q].case \in CaseIds /\ ~Live(proc[q].case)
          BY <1>0 DEF Known, At, Case
        <5> QED
          BY <2>3, <2>4, <4>2, <5>1 DEF Known, At, Case, Live, CaseStatus, Active, Outcomes
      <4> QED
        BY <4>1, <4>2
    <3>2. ASSUME NEW c \in CaseIds, c > opened
          PROVE  cases'[c].status = "ABSENT" /\ cases'[c].reviewer = Nobody
      BY <1>0, <2>2, <2>3, <3>2 DEF Known
    <3> QED
      BY <2>1, <3>1, <3>2 DEF Known, At, Case, Live
  <2>6. ASSUME NEW c \in CaseIds, NEW b
        PROVE  ((MayReview(b, c))' <=> MayReview(b, c)) /\ ((Reviews(b, c))' <=> Reviews(b, c))
    BY <2>3 DEF MayReview, Reviews, Admin
  <2>7. ASSUME NEW c \in CaseIds, cases'[c].reviewer # Nobody
        PROVE  (MayReview(cases[c].reviewer, c))'
    BY <2>3, <2>7 DEF ReviewInv, MayReview, Admin
  <2>8. ASSUME NEW q \in Procs
        PROVE  /\ (At(q, "assign"))' => (MayReview(Actor(q), Case(q)))'
               /\ (Reviewing(q))' => (Reviews(Actor(q), Case(q)))'
    <3>1. CASE q = p
      BY <2>4, <3>1 DEF At, Reviewing
    <3>2. CASE q # p
      <4>1. At(q, "assign") \/ Reviewing(q) => Case(q) \in CaseIds
        BY <1>0 DEF Known, At, Reviewing
      <4> QED
        BY <2>3, <2>4, <3>2, <4>1
           DEF ReviewInv, At, Reviewing, Actor, Case, MayReview, Reviews, Admin
    <3> QED
      BY <3>1, <3>2
  <2>9. ASSUME NEW d \in decisions'
        PROVE  d.case \in 1..opened' /\ d.actor \in Actors /\ (Reviews(d.actor, d.case))'
    BY <1>0, <2>1, <2>3, <2>9 DEF ReviewInv, MayReview, Reviews, Admin
  <2> QED
    BY <2>5, <2>7, <2>8, <2>9 DEF ReviewInv
<1> QED
  BY <1>1, <1>2, <1>3 DEF Check, delete_case, rows, history

LEMMA ReviewResume ==
  ASSUME TypeOK, Known, ReviewInv, NEW p \in Procs, Resume(p)
  PROVE  Known' /\ ReviewInv'
<1>0. ProcOK /\ opened \in 0..MaxCases /\ At(p, "resume")
  BY DEF TypeOK, Resume
<1>1. proc[p].case \in 1..opened /\ Case(p) \in 1..opened /\ Case(p) \in CaseIds
  BY <1>0 DEF Known, At, Case
<1>2. SameRows
  BY StatusSame
     DEF Resume, Decides, Informs, Misfits, NothingLeft, rows, SameRows, Live, CaseStatus, Outcomes
<1>3. /\ proc'[p].pc \in {"idle", "running"}
      /\ proc'[p].pc = "running" => proc'[p].case = proc[p].case
      /\ \A q \in Procs \ {p} : proc'[q] = proc[q]
  BY <1>0, Moves DEF Resume, Decides, Informs, Misfits, NothingLeft
<1>4. CASE decisions' = decisions
  <2>1. PlainStep({p})
    BY <1>1, <1>2, <1>3, <1>4 DEF PlainStep, PlainPc
  <2> QED
    BY <2>1, Plain
<1>5. CASE decisions' # decisions
  <2>1. /\ proc[p].kind = "review"
        /\ decisions' = decisions \cup {[case |-> Case(p), actor |-> Actor(p)]}
    BY <1>5 DEF Resume, Decides, Informs, Misfits, NothingLeft
  <2>2. Reviews(Actor(p), Case(p)) /\ Actor(p) \in Actors
    BY <1>0, <2>1 DEF ReviewInv, Reviewing, At, ProcOK
  <2>3. ASSUME NEW c \in CaseIds
        PROVE  /\ ~Live(c) => ~Live(c)'
               /\ \A b : (MayReview(b, c))' <=> MayReview(b, c)
               /\ \A b : (Reviews(b, c))' <=> Reviews(b, c)
    BY <1>2 DEF SameRows, Live, MayReview, Reviews, Admin
  <2>4. Known'
    <3>1. ASSUME NEW q \in Procs
          PROVE  /\ proc'[q].pc \notin {"idle", "look", "insert"} => proc'[q].case \in 1..opened
                 /\ proc'[q].pc = "forget" => cases'[proc'[q].case].status \notin CaseStatus
      <4>1. CASE q = p
        BY <1>1, <1>3, <4>1
      <4>2. CASE q # p
        <5>1. proc[q].pc = "forget" => proc[q].case \in CaseIds /\ ~Live(proc[q].case)
          BY <1>0 DEF Known, At, Case
        <5> QED
          BY <1>3, <2>3, <4>2, <5>1 DEF Known, At, Case, Live
      <4> QED
        BY <4>1, <4>2
    <3>2. ASSUME NEW c \in CaseIds, c > opened
          PROVE  cases'[c].status = "ABSENT" /\ cases'[c].reviewer = Nobody
      BY <1>2, <3>2 DEF Known, SameRows, Live, CaseStatus, Active, Outcomes
    <3> QED
      BY <1>2, <3>1, <3>2 DEF Known, At, Case, Live, SameRows
  <2>5. ASSUME NEW c \in CaseIds, cases'[c].reviewer # Nobody
        PROVE  (MayReview(cases[c].reviewer, c))'
    BY <1>2, <2>5 DEF ReviewInv, SameRows, MayReview, Admin
  <2>6. ASSUME NEW q \in Procs
        PROVE  /\ (At(q, "assign"))' => (MayReview(Actor(q), Case(q)))'
               /\ (Reviewing(q))' => (Reviews(Actor(q), Case(q)))'
    <3>1. CASE q = p
      BY <1>3, <3>1 DEF At, Reviewing
    <3>2. CASE q # p
      <4>1. At(q, "assign") \/ Reviewing(q) => Case(q) \in CaseIds
        BY <1>0 DEF Known, At, Reviewing
      <4> QED
        BY <1>2, <1>3, <3>2, <4>1
           DEF SameRows, ReviewInv, At, Reviewing, Actor, Case, MayReview, Reviews, Admin
    <3> QED
      BY <3>1, <3>2
  <2>7. ASSUME NEW d \in decisions'
        PROVE  d.case \in 1..opened' /\ d.actor \in Actors /\ (Reviews(d.actor, d.case))'
    <3>1. d.case \in 1..opened /\ d.actor \in Actors /\ Reviews(d.actor, d.case)
      BY <1>1, <2>1, <2>2, <2>7 DEF ReviewInv
    <3> QED
      BY <1>0, <1>2, <3>1 DEF SameRows, MayReview, Reviews, Admin
  <2> QED
    BY <2>4, <2>5, <2>6, <2>7 DEF ReviewInv
<1> QED
  BY <1>4, <1>5

LEMMA ReviewNext ==
  ASSUME TypeOK, Known, ReviewInv, [Next]_vars
  PROVE  Known' /\ ReviewInv'
<1>1. ASSUME NEW p \in Procs, ProcStep(p) \/ RunRaises(p)
      PROVE  Known' /\ ReviewInv'
  BY <1>1, ReviewPlain, ReviewInsert, ReviewSpawn, ReviewAssign, ReviewCheck, ReviewResume
     DEF ProcStep
<1>2. CASE Restart
  <2>1. \A q \in Procs : proc'[q] = Idle
    BY <1>2 DEF Restart
  <2>2. PlainStep(Procs)
    BY <1>2, <2>1, IdleTyped DEF Restart, PlainStep, PlainPc, rows, history, SameRows
  <2> QED
    BY <2>2, Plain
<1>3. CASE UNCHANGED vars
  <2>1. PlainStep({})
    BY <1>3 DEF vars, PlainStep, rows, history, SameRows
  <2> QED
    BY <2>1, Plain
<1> QED
  BY <1>1, <1>2, <1>3, ReviewArrives DEF Next

LEMMA ReviewInit == Init => Known /\ ReviewInv
<1> SUFFICES ASSUME Init PROVE Known /\ ReviewInv
  OBVIOUS
<1>1. \A p \in Procs : proc[p].pc = "idle"
  BY IdleTyped DEF Init
<1> QED
  BY <1>1 DEF Init, Known, ReviewInv, At, Reviewing

(***************************************************************************)
(* However claims, reviews, starts and resets interleave, whoever decides  *)
(* on a case is an administrator, or the assigned reviewer, of the tenant  *)
(* of the case, who did not investigate it (docs/architecture.md 100-101). *)
(***************************************************************************)
THEOREM Independent == Spec => []IndependentReview
<1>1. /\ TypeOK /\ IndexSound /\ Known /\ ReviewInv /\ [Next]_vars
      => (TypeOK /\ IndexSound /\ Known /\ ReviewInv)'
  BY TypedNext, ReviewNext
<1>2. Init => TypeOK /\ IndexSound /\ Known /\ ReviewInv
  BY TypedInit, ReviewInit
<1> QED
  BY <1>1, <1>2, ReviewIndependent, PTL DEF Spec

LEMMA StaysNext ==
  ASSUME TypeOK, Known, [Next]_vars, NEW c \in CaseIds, cases[c].reviewer # Nobody
  PROVE  cases'[c].reviewer = cases[c].reviewer
<1>0. cases \in [CaseIds -> CaseRecord]
  BY DEF TypeOK
<1>1. ASSUME NEW d, NEW s, SetStatus(d, s)
      PROVE  cases'[c].reviewer = cases[c].reviewer
  BY <1>0, <1>1 DEF SetStatus, CaseRecord
<1>2. ASSUME NEW p \in Procs, ProcStep(p) \/ RunRaises(p)
      PROVE  cases'[c].reviewer = cases[c].reviewer
  <2>1. CASE Insert(p)
    <3>1. c <= opened
      BY DEF Known, TypeOK
    <3> QED
      BY <1>0, <2>1, <3>1 DEF Insert, rows, TypeOK
  <2>2. CASE assign_reviewer(p)
    BY <1>0, <2>2 DEF assign_reviewer, Assignable, CaseRecord
  <2>3. CASE delete_case(p)
    BY <1>0, <2>3 DEF delete_case, CaseRecord
  <2>4. CASE BeginRun(p) \/ EndRun(p) \/ Resume(p)
    BY <1>1, <2>4 DEF BeginRun, EndRun, Resume, Decides, Informs, Misfits, NothingLeft, rows
  <2>5. CASE Select(p) \/ FoundCase(p) \/ Spawn(p) \/ RunRaises(p) \/ ReadRow(p) \/ Respond(p)
             \/ EndTask(p) \/ Check(p) \/ ForgetCase(p)
    BY <2>5 DEF Select, FoundCase, Spawn, RunRaises, ReadRow, Respond, EndTask, Check, ForgetCase, rows
  <2> QED
    BY <1>2, <2>1, <2>2, <2>3, <2>4, <2>5 DEF ProcStep
<1>3. ASSUME NEW p \in Requests, Arrives(p)
      PROVE  cases' = cases
  BY <1>3 DEF Arrives, start_investigation, ui_start_investigation, _case_for_action, rows
<1> QED
  BY <1>2, <1>3 DEF Next, Restart, rows, vars

(***************************************************************************)
(* A case keeps the reviewer it was assigned (postgres_repository.py       *)
(* 312-322).                                                               *)
(***************************************************************************)
THEOREM Stays == Spec => ReviewerStays
<1>1. /\ TypeOK /\ IndexSound /\ Known /\ ReviewInv /\ [Next]_vars
      => (TypeOK /\ IndexSound /\ Known /\ ReviewInv)'
  BY TypedNext, ReviewNext
<1>2. Init => TypeOK /\ IndexSound /\ Known /\ ReviewInv
  BY TypedInit, ReviewInit
<1>3. TypeOK /\ Known /\ [Next]_vars =>
      [\A c \in CaseIds :
         cases[c].reviewer # Nobody => cases'[c].reviewer = cases[c].reviewer]_vars
  BY StaysNext
<1> QED
  BY <1>1, <1>2, <1>3, PTL DEF Spec, ReviewerStays

-----------------------------------------------------------------------------
(***************************************************************************)
(* Jobs and tasks.                                                         *)
(***************************************************************************)
JobsKept ==
  \A j \in JobIds : /\ jobs'[j].status = jobs[j].status
                    /\ jobs'[j].case = jobs[j].case

TasksKept ==
  \A j \in JobIds : /\ proc'[j].pc = "idle" <=> proc[j].pc = "idle"
                    /\ proc[j].pc # "idle" => proc'[j].case = proc[j].case

StayDead == \A c \in 1..opened : ~Live(c) => ~Live(c)'

LEMMA TaskKnown ==
  ASSUME TypeOK, Known, NEW j \in JobIds, ~At(j, "idle")
  PROVE  proc[j].pc \in TaskPc /\ Case(j) \in 1..opened
<1>1. j \in Procs
  BY DEF Procs
<1> QED
  BY <1>1 DEF TypeOK, ProcOK, Known, TaskPc, At

LEMMA Kept ==
  ASSUME TypeOK, Known, JobsHaveTasks, JobsKept, TasksKept, StayDead
  PROVE  JobsHaveTasks'
<1> SUFFICES ASSUME NEW j \in JobIds
             PROVE  /\ Running(j)' => ~At(j, "idle")' /\ Case(j)' = jobs'[j].case
                    /\ ~At(j, "idle")' => Running(j)' \/ (~Stored(j)' /\ ~Live(Case(j))')
  BY DEF JobsHaveTasks
<1>1. ~At(j, "idle") => Case(j) \in 1..opened
  BY TaskKnown
<1> QED
  BY <1>1 DEF JobsHaveTasks, JobsKept, TasksKept, StayDead, Running, Stored, At, Case, Live

LEMMA HookKeeps ==
  ASSUME StoreTypeOK, NEW c, NEW stage, stage_hook(c, stage)
  PROVE  JobsKept
BY DEF stage_hook, StoreTypeOK, JobRecord, JobsKept

LEMMA RowsStayDead ==
  ASSUME TypeOK, Known, [Next]_vars
  PROVE  StayDead
<1> SUFFICES ASSUME NEW c \in 1..opened, ~Live(c) PROVE ~Live(c)'
  BY DEF StayDead
<1>0. cases \in [CaseIds -> CaseRecord] /\ c \in CaseIds /\ opened \in 0..MaxCases
  BY DEF TypeOK
<1>1. ASSUME NEW d, NEW s, SetStatus(d, s), d = c => Live(c)
      PROVE  ~Live(c)'
  <2>1. d # c /\ cases' = [cases EXCEPT ![d].status = s]
    BY <1>1 DEF SetStatus
  <2>2. cases'[c] = cases[c]
    BY <1>0, <2>1
  <2> QED
    BY <2>2 DEF Live
<1>2. ASSUME NEW p \in Procs, ProcStep(p) \/ RunRaises(p)
      PROVE  ~Live(c)'
  <2>1. CASE Insert(p)
    BY <1>0, <2>1 DEF Insert, rows, Live
  <2>2. CASE assign_reviewer(p)
    BY <1>0, <2>2 DEF assign_reviewer, CaseRecord, Live
  <2>3. CASE delete_case(p)
    BY <1>0, <2>3 DEF delete_case, CaseRecord, Live, CaseStatus, Active, Outcomes
  <2>4. CASE BeginRun(p) \/ EndRun(p)
    BY <1>1, <2>4 DEF BeginRun, EndRun, rows, Live
  <2>5. CASE Resume(p)
    BY <1>1, <2>5 DEF Resume, Decides, Informs, Misfits, NothingLeft, rows, Live, CaseStatus, Outcomes
  <2>6. CASE Select(p) \/ FoundCase(p) \/ Spawn(p) \/ RunRaises(p) \/ ReadRow(p) \/ Respond(p)
             \/ EndTask(p) \/ Check(p) \/ ForgetCase(p)
    BY <2>6 DEF Select, FoundCase, Spawn, RunRaises, ReadRow, Respond, EndTask, Check,
       ForgetCase, rows, Live
  <2> QED
    BY <1>2, <2>1, <2>2, <2>3, <2>4, <2>5, <2>6 DEF ProcStep
<1>3. ASSUME NEW p \in Requests, Arrives(p)
      PROVE  cases' = cases
  BY <1>3 DEF Arrives, start_investigation, ui_start_investigation, _case_for_action, rows
<1> QED
  BY <1>2, <1>3 DEF Next, Restart, rows, vars, Live

LEMMA JobsSpawn ==
  ASSUME TypeOK, Known, JobsHaveTasks, StayDead, NEW p \in Procs, Spawn(p)
  PROVE  JobsHaveTasks'
<1> DEFINE k == created + 1
           job == [case |-> Case(p), status |-> "running", stage |-> "pending"]
           table == [jobs EXCEPT ![k] = job]
           new == [proc[p] EXCEPT !.kind = "task", !.pc = "run"]
<1>1. k \in JobIds /\ k \in Procs /\ jobs' = Drop(table, Pruned(table))
  BY DEF Spawn, create, TypeOK, StoreTypeOK, Procs
<1>2. p \notin JobIds
  BY TaskKnown DEF Spawn, At, TaskPc
<1>3. new.pc = "run" /\ new.case = Case(p)
  BY DEF TypeOK, ProcOK, Proc, Case
<1>4. proc' = [proc EXCEPT ![p] = Idle, ![k] = new]
  BY DEF Spawn
<1>5. Case(p) \in {0} \cup CaseIds
  BY CaseTyped DEF TypeOK
<1>6. /\ table \in [JobIds -> JobRecord] /\ table[k] = job
      /\ \A j \in JobIds \ {k} : table[j] = jobs[j]
  BY <1>1, <1>5 DEF TypeOK, StoreTypeOK, JobRecord
<1>7. job.status = "running" /\ job.case = Case(p)
  OBVIOUS
<1>8. ~Stored(k)
  BY <1>1 DEF TypeOK, StoreTypeOK
<1> HIDE DEF k, job, table, new
<1>9. proc'[k] = new /\ \A j \in JobIds \ {k} : proc'[j] = proc[j]
  BY <1>1, <1>2, <1>4 DEF TypeOK, ProcOK, Procs
<1>10. ASSUME NEW j \in JobIds
       PROVE  /\ jobs'[j].case = table[j].case
              /\ table[j].status = "running" => jobs'[j].status = "running"
              /\ table[j].status # "running" => jobs'[j].status # "running"
              /\ table[j].status = "none" => jobs'[j].status = "none"
  BY <1>1, <1>6, DropTyped, PrunesEnded
<1> SUFFICES ASSUME NEW j \in JobIds
             PROVE  /\ jobs'[j].status = "running" =>
                         proc'[j].pc # "idle" /\ proc'[j].case = jobs'[j].case
                    /\ proc'[j].pc # "idle" =>
                         \/ jobs'[j].status = "running"
                         \/ jobs'[j].status = "none" /\ cases'[proc'[j].case].status \notin CaseStatus
  BY DEF JobsHaveTasks, Running, Stored, At, Case, Live
<1>11. CASE j = k
  BY <1>1, <1>3, <1>6, <1>7, <1>9, <1>10, <1>11
<1>12. CASE j # k
  <2>1. table[j] = jobs[j] /\ proc'[j] = proc[j]
    BY <1>6, <1>9, <1>12
  <2>2. cases' = cases
    BY DEF Spawn, rows
  <2> QED
    BY <1>10, <2>1, <2>2 DEF JobsHaveTasks, Running, Stored, At, Case, Live
<1> QED
  BY <1>11, <1>12

LEMMA JobsForget ==
  ASSUME TypeOK, Known, JobsHaveTasks, NEW p \in Procs, ForgetCase(p)
  PROVE  JobsHaveTasks'
<1> DEFINE c == Case(p)
           gone == {j \in JobIds : Stored(j) /\ jobs[j].case = c}
<1>1. jobs' = Drop(jobs, gone) /\ cases' = cases /\ Ends(p) /\ At(p, "forget")
  BY DEF ForgetCase, discard_case, rows
<1>2. p \notin JobIds
  BY <1>1, TaskKnown DEF At, TaskPc
<1>3. \A j \in JobIds : proc'[j] = proc[j]
  BY <1>1, <1>2, Moves DEF TypeOK, Procs
<1>4. ~Live(c)
  BY <1>1 DEF Known
<1>5. jobs \in [JobIds -> JobRecord]
  BY DEF TypeOK, StoreTypeOK
<1> SUFFICES ASSUME NEW j \in JobIds
             PROVE  /\ jobs'[j].status = "running" =>
                         proc'[j].pc # "idle" /\ proc'[j].case = jobs'[j].case
                    /\ proc'[j].pc # "idle" =>
                         \/ jobs'[j].status = "running"
                         \/ jobs'[j].status = "none" /\ cases'[proc'[j].case].status \notin CaseStatus
  BY DEF JobsHaveTasks, Running, Stored, At, Case, Live
<1>6. CASE j \in gone
  <2>1. jobs'[j].status = "none" /\ jobs[j].case = c /\ Stored(j)
    BY <1>1, <1>5, <1>6, DropTyped
  <2>2. proc[j].pc # "idle" => proc[j].case = c
    BY <2>1 DEF JobsHaveTasks, At, Case
  <2> QED
    BY <1>1, <1>3, <1>4, <2>1, <2>2 DEF Live
<1>7. CASE j \notin gone
  <2>1. jobs'[j].status = jobs[j].status /\ jobs'[j].case = jobs[j].case
    BY <1>1, <1>5, <1>7, DropTyped
  <2> QED
    BY <1>1, <1>3, <2>1 DEF JobsHaveTasks, Running, Stored, At, Case, Live
<1> QED
  BY <1>6, <1>7

LEMMA JobsEndTask ==
  ASSUME TypeOK, Known, JobsHaveTasks, NEW p \in Procs, EndTask(p)
  PROVE  JobsHaveTasks'
<1>1. p \in JobIds /\ (complete(p) \/ fail(p)) /\ Ends(p) /\ cases' = cases
  BY DEF EndTask, rows
<1>2. proc'[p].pc = "idle" /\ \A q \in JobIds \ {p} : proc'[q] = proc[q]
  BY <1>1, Moves DEF TypeOK, Procs
<1>3. /\ jobs'[p].status # "running"
      /\ \A j \in JobIds \ {p} : jobs'[j] = jobs[j]
  <2>1. jobs \in [JobIds -> JobRecord]
    BY DEF TypeOK, StoreTypeOK
  <2> QED
    BY <1>1, <2>1 DEF complete, fail, finish, JobRecord, Stored
<1> QED
  BY <1>1, <1>2, <1>3 DEF JobsHaveTasks, Running, Stored, At, Case, Live

LEMMA JobsNext ==
  ASSUME TypeOK, Known, JobsHaveTasks, [Next]_vars
  PROVE  JobsHaveTasks'
<1>0. ProcOK /\ StoreTypeOK /\ StayDead
  BY RowsStayDead DEF TypeOK
<1>1. ASSUME NEW p \in Requests, Arrives(p)
      PROVE  JobsHaveTasks'
  <2>1. jobs' = jobs /\ \E new : proc' = [proc EXCEPT ![p] = new]
    BY <1>1 DEF Arrives, start_investigation, ui_start_investigation, _case_for_action, Begins, storeVars
  <2>2. p \notin JobIds
    BY DEF Requests
  <2>3. JobsKept /\ TasksKept
    BY <1>0, <2>1, <2>2 DEF JobsKept, TasksKept, ProcOK, Procs
  <2> QED
    BY <1>0, <2>3, Kept
<1>2. ASSUME NEW p \in Procs, ProcStep(p) \/ RunRaises(p)
      PROVE  JobsHaveTasks'
  <2>1. CASE Select(p) \/ Insert(p) \/ FoundCase(p) \/ Respond(p) \/ assign_reviewer(p)
             \/ Check(p) \/ Resume(p) \/ delete_case(p)
    <3>1. p \notin JobIds
      BY <2>1, TaskKnown DEF Select, Insert, FoundCase, Respond, assign_reviewer, Check,
         Resume, delete_case, At, TaskPc
    <3>2. \E new : proc' = [proc EXCEPT ![p] = new]
      BY <2>1 DEF Select, Insert, FoundCase, Respond, assign_reviewer, Check, Resume, Decides,
         Informs, Misfits, NothingLeft, delete_case, Takes, Ends, Goto
    <3>3. TasksKept
      BY <1>0, <3>1, <3>2 DEF TasksKept, ProcOK, Procs
    <3>4. JobsKept
      <4>1. CASE Resume(p)
        BY <1>0, <4>1, HookKeeps
           DEF Resume, Decides, Informs, Misfits, NothingLeft, JobsKept, storeVars
      <4>2. CASE ~Resume(p)
        BY <2>1, <4>2 DEF Select, Insert, FoundCase, Respond, assign_reviewer, Check,
           delete_case, JobsKept, storeVars
      <4> QED
        BY <4>1, <4>2
    <3> QED
      BY <1>0, <3>3, <3>4, Kept
  <2>2. CASE BeginRun(p) \/ EndRun(p) \/ RunRaises(p) \/ ReadRow(p)
    <3>1. JobsKept
      BY <1>0, <2>2, HookKeeps DEF BeginRun, EndRun, RunRaises, ReadRow, JobsKept, storeVars
    <3>2. /\ \A q \in Procs \ {p} : proc'[q] = proc[q]
          /\ p \in JobIds => proc[p].pc # "idle" /\ proc'[p].pc # "idle"
                             /\ proc'[p].case = proc[p].case
      <4>1. p \in JobIds /\ proc[p].pc # "idle" => proc[p].kind = "task"
        BY <1>0 DEF ProcOK, At
      <4>2. proc[p].pc # "idle"
        BY <2>2 DEF BeginRun, EndRun, RunRaises, ReadRow, At
      <4>3. proc[p].kind = "task" /\ Raises(p) => Goto(p, "error")
        BY DEF Raises
      <4> QED
        BY <1>0, <2>2, <4>1, <4>2, <4>3, Moves DEF BeginRun, EndRun, RunRaises, ReadRow
    <3>3. TasksKept
      BY <3>2 DEF TasksKept, Procs
    <3> QED
      BY <1>0, <3>1, <3>3, Kept
  <2> QED
    BY <1>0, <1>2, <2>1, <2>2, JobsSpawn, JobsForget, JobsEndTask DEF ProcStep
<1>3. CASE Restart
  <2>1. \A j \in JobIds : proc'[j].pc = "idle" /\ jobs'[j].status = "none"
    BY <1>3, IdleTyped, DropTyped DEF Restart, Forget, TypeOK, StoreTypeOK, Procs
  <2> QED
    BY <2>1 DEF JobsHaveTasks, Running, Stored, At
<1>4. CASE UNCHANGED vars
  BY <1>4 DEF vars, storeVars, rows, JobsHaveTasks, Running, Stored, At, Case, Live
<1> QED
  BY <1>1, <1>2, <1>3, <1>4 DEF Next

(***************************************************************************)
(* A progress page shows a job as running exactly while a task works on    *)
(* it, through prunes, resets and restarts (app.py 219-250).               *)
(***************************************************************************)
THEOREM JobsAreTasks == Spec => []JobsHaveTasks
<1>1. /\ TypeOK /\ IndexSound /\ Known /\ ReviewInv /\ JobsHaveTasks /\ [Next]_vars
      => (TypeOK /\ IndexSound /\ Known /\ ReviewInv /\ JobsHaveTasks)'
  BY TypedNext, ReviewNext, JobsNext
<1>2. Init => TypeOK /\ IndexSound /\ Known /\ ReviewInv /\ JobsHaveTasks
  <2>1. Init => JobsHaveTasks
    BY IdleTyped DEF Init, StoreInit, JobsHaveTasks, Running, Stored, At, Procs
  <2> QED
    BY <2>1, TypedInit, ReviewInit
<1> QED
  BY <1>1, <1>2, PTL DEF Spec

(***************************************************************************)
(* The index is sound and running jobs have tasks, at the same time.       *)
(***************************************************************************)
THEOREM ProgressIsSound == Spec => []ProgressSound
<1>1. IndexSound /\ JobsHaveTasks => ProgressSound
  BY DEF ProgressSound
<1> QED
  BY <1>1, Sound, JobsAreTasks, PTL

-----------------------------------------------------------------------------
(***************************************************************************)
(* How the rows and the processes of a step are related to those before:   *)
(* what the theorems below need of it.                                     *)
(***************************************************************************)
Arises(q, c) ==
  /\ At(q, "insert") /\ ~Refused(Actor(q))
  /\ c = opened + 1 /\ opened' = c
  /\ cases'[c].tenant = Tenant[Actor(q)] /\ cases'[c].investigator = Actor(q)

LEMMA RowsMove ==
  ASSUME TypeOK, Known, [Next]_vars, NEW c \in CaseIds
  PROVE  /\ opened' = opened \/ opened' = opened + 1
         /\ c <= opened => /\ cases'[c].tenant = cases[c].tenant
                           /\ cases'[c].investigator = cases[c].investigator
         /\ ~Live(c) /\ Live(c)' => \E q \in Procs : Arises(q, c)
<1>0. cases \in [CaseIds -> CaseRecord] /\ opened \in 0..MaxCases
  BY DEF TypeOK
<1> DEFINE Quiet == /\ opened' = opened
                    /\ cases'[c].tenant = cases[c].tenant
                    /\ cases'[c].investigator = cases[c].investigator
                    /\ Live(c)' => Live(c)
           Goal == /\ opened' = opened \/ opened' = opened + 1
                   /\ c <= opened => /\ cases'[c].tenant = cases[c].tenant
                                     /\ cases'[c].investigator = cases[c].investigator
                   /\ ~Live(c) /\ Live(c)' => \E q \in Procs : Arises(q, c)
<1> SUFFICES Goal
  OBVIOUS
<1>1. Quiet => Goal
  BY <1>0
<1>2. UNCHANGED rows => Quiet
  BY DEF rows, Live
<1>3. ASSUME NEW d, NEW s, SetStatus(d, s), d = c => Live(c)
      PROVE  Quiet
  BY <1>0, <1>3 DEF SetStatus, CaseRecord, Live
<1>4. ASSUME NEW p \in Procs, ProcStep(p) \/ RunRaises(p)
      PROVE  Goal
  <2>1. CASE Insert(p)
    <3>1. CASE UNCHANGED rows
      BY <1>1, <1>2, <3>1
    <3>2. CASE ~UNCHANGED rows
      <4> DEFINE row == [status |-> "OPEN", tenant |-> Tenant[Actor(p)],
                         investigator |-> Actor(p), reviewer |-> Nobody]
      <4>1. /\ At(p, "insert") /\ ~Refused(Actor(p))
            /\ opened < MaxCases /\ opened' = opened + 1
            /\ cases' = [cases EXCEPT ![opened + 1] = row]
        BY <2>1, <3>2 DEF Insert
      <4>2. row.tenant = Tenant[Actor(p)] /\ row.investigator = Actor(p)
        OBVIOUS
      <4> HIDE DEF row
      <4>3. cases'[c] = IF c = opened + 1 THEN row ELSE cases[c]
        BY <1>0, <4>1
      <4>4. CASE c = opened + 1
        <5>1. Arises(p, c)
          BY <4>1, <4>2, <4>3, <4>4 DEF Arises
        <5> QED BY <1>0, <4>1, <4>4, <5>1
      <4>5. CASE c # opened + 1
        BY <1>0, <4>1, <4>3, <4>5 DEF Live
      <4> QED BY <4>4, <4>5
    <3> QED BY <3>1, <3>2
  <2>2. CASE assign_reviewer(p)
    <3>1. Quiet
      BY <1>0, <2>2 DEF assign_reviewer, CaseRecord, Live
    <3> QED BY <1>1, <3>1
  <2>3. CASE delete_case(p)
    <3>1. opened' = opened
      BY <2>3 DEF delete_case
    <3>2. cases' = cases \/ cases' = [cases EXCEPT ![Case(p)].status = "DELETED"]
      BY <2>3 DEF delete_case
    <3>3. "DELETED" \notin CaseStatus
      BY DEF CaseStatus, Active, Outcomes
    <3>4. CASE cases' = cases
      BY <3>1, <3>4 DEF Live
    <3>5. CASE cases' = [cases EXCEPT ![Case(p)].status = "DELETED"]
      <4>1. CASE c = Case(p)
        <5>1. cases'[c] = [cases[c] EXCEPT !.status = "DELETED"]
          BY <1>0, <3>5, <4>1
        <5>2. cases[c] \in CaseRecord
          BY <1>0
        <5> QED
          BY <3>1, <3>3, <5>1, <5>2 DEF CaseRecord, Live
      <4>2. CASE c # Case(p)
        <5>1. cases'[c] = cases[c]
          BY <1>0, <3>5, <4>2
        <5> QED
          BY <3>1, <5>1 DEF Live
      <4> QED
        BY <4>1, <4>2
    <3> QED BY <3>2, <3>4, <3>5
  <2>4. CASE BeginRun(p) \/ EndRun(p)
    <3>1. Quiet
      BY <1>2, <1>3, <2>4 DEF BeginRun, EndRun
    <3> QED BY <1>1, <3>1
  <2>5. CASE Resume(p)
    <3>1. Quiet
      BY <1>2, <1>3, <2>5
         DEF Resume, Decides, Informs, Misfits, NothingLeft, Live, CaseStatus, Outcomes
    <3> QED BY <1>1, <3>1
  <2>6. CASE Select(p) \/ FoundCase(p) \/ Spawn(p) \/ RunRaises(p) \/ ReadRow(p) \/ Respond(p)
             \/ EndTask(p) \/ Check(p) \/ ForgetCase(p)
    <3>1. UNCHANGED rows
      BY <2>6 DEF Select, FoundCase, Spawn, RunRaises, ReadRow, Respond, EndTask, Check, ForgetCase
    <3> QED BY <1>1, <1>2, <3>1
  <2> HIDE DEF Goal
  <2> QED
    BY <1>4, <2>1, <2>2, <2>3, <2>4, <2>5, <2>6 DEF ProcStep
<1>5. ASSUME NEW p \in Requests, Arrives(p)
      PROVE  UNCHANGED rows
  BY <1>5 DEF Arrives, start_investigation, ui_start_investigation, _case_for_action
<1>6. ASSUME Restart \/ UNCHANGED vars
      PROVE  UNCHANGED rows
  BY <1>6 DEF Restart, vars
<1> HIDE DEF Goal, Quiet
<1> QED
  BY <1>1, <1>2, <1>4, <1>5, <1>6 DEF Next

(***************************************************************************)
(* A step moves one process; another one ends at most.                     *)
(***************************************************************************)
Same(q) ==
  /\ proc'[q].kind = proc[q].kind
  /\ proc'[q].actor = proc[q].actor
  /\ proc'[q].case = proc[q].case

Launched(q) ==
  \/ At(q, "found") /\ Same(q) /\ StartsAgain(Case(q)) /\ proc'[q].pc = "spawn"
  \/ /\ At(q, "insert") /\ opened' = opened + 1 /\ proc'[q].case = opened'
     /\ proc'[q].pc \in {"run", "spawn"}
     /\ cases'[opened'].investigator = proc'[q].actor
  \/ /\ proc'[q].kind = "task" /\ proc'[q].pc = "run"
     /\ \E p \in Procs \ {q} :
          At(p, "spawn") /\ Case(p) = proc'[q].case /\ proc'[p].pc = "idle"

Moved(q) ==
  \/ proc'[q].pc \in {"idle", "look", "insert", "found", "complete", "error", "assign", "check",
                      "resume", "delete"}
  \/ Launched(q)
  \/ Same(q) /\ At(q, "run") /\ proc'[q].pc = "running"
  \/ Same(q) /\ At(q, "resume") /\ proc'[q].pc = "running"
       /\ proc[q].kind \in {"review", "supply_information"}
  \/ Same(q) /\ At(q, "running") /\ proc'[q].pc = "read" /\ proc[q].kind \in {"start", "task"}
  \/ /\ At(q, "look") /\ proc'[q].pc = "read" /\ proc'[q].kind = "start"
     /\ proc'[q].case \in 1..opened /\ cases[proc'[q].case].investigator = proc'[q].actor
     /\ cases' = cases
  \/ /\ Same(q) /\ At(q, "read") /\ proc'[q].pc = "respond" /\ proc[q].kind # "task"
     /\ Live(Case(q)) /\ cases' = cases
  \/ Same(q) /\ At(q, "delete") /\ proc'[q].pc = "forget" /\ ~Live(Case(q))'

OneMoves(p) ==
  /\ \A q \in Procs \ {p} : proc'[q] = proc[q] \/ proc'[q].pc = "idle"
  /\ Moved(p)

LEMMA ProcMoves ==
  ASSUME TypeOK, Known, [Next]_vars
  PROVE  \/ \A q \in Procs : proc'[q] = proc[q] \/ proc'[q].pc = "idle"
         \/ \E p \in Procs : OneMoves(p)
<1>0. ProcOK /\ opened \in 0..MaxCases
  BY DEF TypeOK
<1> DEFINE Quiet == \A q \in Procs : proc'[q] = proc[q] \/ proc'[q].pc = "idle"
           Alone(p) == \A q \in Procs \ {p} : proc'[q] = proc[q] \/ proc'[q].pc = "idle"
           Goal == Quiet \/ \E p \in Procs : OneMoves(p)
<1> SUFFICES Goal
  OBVIOUS
<1>1. ASSUME NEW p \in Procs, ProcStep(p) \/ RunRaises(p)
      PROVE  Goal
  <2>1. (\E pc : Goto(p, pc)) \/ Ends(p) \/ Raises(p) => Alone(p)
    BY <1>0, Moves
  <2>2. Ends(p) => Quiet
    BY <1>0, Moves
  <2>3. Raises(p) => OneMoves(p)
    BY <1>0, Moves DEF OneMoves, Moved
  <2>4. ASSUME NEW pc \in {"complete", "error", "resume", "delete"}, Goto(p, pc)
        PROVE  OneMoves(p)
    BY <1>0, <2>4, Moves DEF OneMoves, Moved
  <2>5. CASE Select(p)
    <3>1. ASSUME NEW c \in Existing(Actor(p)), cases[c].investigator = Actor(p),
                 Takes(p, c, IF proc[p].kind = "start" THEN "read" ELSE "found")
          PROVE  OneMoves(p)
      <4>1. c \in 1..opened
        BY <1>0 DEF Existing, Known, Live, CaseStatus, Active, Outcomes
      <4>2. /\ proc'[p].pc = IF proc[p].kind = "start" THEN "read" ELSE "found"
            /\ proc'[p].kind = proc[p].kind /\ proc'[p].case = c
            /\ proc'[p].actor = Actor(p)
            /\ \A q \in Procs \ {p} : proc'[q] = proc[q]
        BY <1>0, <3>1 DEF Takes, ProcOK
      <4>3. At(p, "look") /\ cases' = cases
        BY <2>5 DEF Select, rows
      <4> QED BY <3>1, <4>1, <4>2, <4>3 DEF OneMoves, Moved
    <3>2. ASSUME Goto(p, "insert") PROVE OneMoves(p)
      BY <1>0, <3>2, Moves DEF OneMoves, Moved
    <3> QED BY <2>2, <2>5, <3>1, <3>2 DEF Select
  <2>6. CASE Insert(p)
    <3>1. CASE Ends(p)
      BY <2>2, <3>1
    <3>2. CASE ~Ends(p)
      <4> DEFINE row == [status |-> "OPEN", tenant |-> Tenant[Actor(p)],
                         investigator |-> Actor(p), reviewer |-> Nobody]
                 pc == IF proc[p].kind = "start" THEN "run" ELSE "spawn"
      <4>1. /\ At(p, "insert") /\ opened < MaxCases /\ opened' = opened + 1
            /\ cases' = [cases EXCEPT ![opened + 1] = row]
            /\ Takes(p, opened + 1, pc)
        BY <2>6, <3>2 DEF Insert
      <4>2. row.investigator = Actor(p) /\ pc \in {"run", "spawn"}
        OBVIOUS
      <4> HIDE DEF row, pc
      <4>3. cases'[opened'] = row
        BY <1>0, <4>1 DEF TypeOK
      <4>4. /\ proc'[p].pc = pc /\ proc'[p].case = opened + 1 /\ proc'[p].actor = Actor(p)
            /\ \A q \in Procs \ {p} : proc'[q] = proc[q]
        BY <1>0, <4>1 DEF Takes, ProcOK
      <4> QED BY <4>1, <4>2, <4>3, <4>4 DEF OneMoves, Moved, Launched
    <3> QED BY <3>1, <3>2
  <2>7. CASE FoundCase(p)
    <3>1. ASSUME StartsAgain(Case(p)), Goto(p, "spawn") PROVE OneMoves(p)
      BY <1>0, <2>7, <3>1, Moves DEF OneMoves, Moved, Launched, Same, FoundCase
    <3> QED BY <2>2, <2>7, <3>1 DEF FoundCase
  <2>8. CASE Spawn(p)
    <3> DEFINE j == created + 1
               new == [proc[p] EXCEPT !.kind = "task", !.pc = "run"]
    <3>1. j \in JobIds /\ j \in Procs
      BY <2>8 DEF Spawn, create, TypeOK, StoreTypeOK, Procs
    <3>2. new.pc = "run" /\ new.kind = "task" /\ new.case = Case(p)
      BY <1>0 DEF ProcOK, Proc, Case
    <3>3. proc' = [proc EXCEPT ![p] = Idle, ![j] = new] /\ At(p, "spawn")
      BY <2>8 DEF Spawn
    <3>4. p \notin JobIds
      BY <3>3, TaskKnown DEF At, TaskPc
    <3> HIDE DEF j, new
    <3>5. /\ \A q \in Procs \ {p, j} : proc'[q] = proc[q]
          /\ proc'[j] = new /\ proc'[p] = Idle /\ p # j
      BY <1>0, <3>1, <3>3, <3>4 DEF ProcOK
    <3>6. OneMoves(j)
      BY <3>1, <3>2, <3>3, <3>5, IdleTyped DEF OneMoves, Moved, Launched
    <3> QED BY <3>1, <3>6
  <2>9. CASE BeginRun(p)
    <3>1. ASSUME Goto(p, "running") PROVE OneMoves(p)
      BY <1>0, <2>9, <3>1, Moves DEF OneMoves, Moved, Same, BeginRun
    <3> QED BY <2>3, <2>9, <3>1 DEF BeginRun
  <2>10. CASE EndRun(p)
    <3>1. ASSUME proc[p].kind \in {"start", "task"}, Goto(p, "read") PROVE OneMoves(p)
      BY <1>0, <2>10, <3>1, Moves DEF OneMoves, Moved, Same, EndRun
    <3> QED BY <2>2, <2>3, <2>10, <3>1 DEF EndRun
  <2>11. CASE RunRaises(p)
    BY <2>3, <2>11 DEF RunRaises
  <2>12. CASE ReadRow(p)
    <3>1. ASSUME proc[p].kind # "task", Live(Case(p)), Goto(p, "respond") PROVE OneMoves(p)
      BY <1>0, <2>12, <3>1, Moves DEF OneMoves, Moved, Same, ReadRow, rows
    <3> QED BY <2>3, <2>4, <2>12, <3>1 DEF ReadRow
  <2>13. CASE Respond(p) \/ EndTask(p) \/ assign_reviewer(p) \/ ForgetCase(p)
    BY <2>2, <2>13 DEF Respond, EndTask, assign_reviewer, ForgetCase
  <2>14. CASE Check(p)
    BY <2>2, <2>4, <2>14 DEF Check
  <2>15. CASE Resume(p)
    <3>1. ASSUME proc[p].kind \in {"review", "supply_information"}, Goto(p, "running")
          PROVE  OneMoves(p)
      BY <1>0, <2>15, <3>1, Moves DEF OneMoves, Moved, Same, Resume
    <3> QED BY <2>2, <2>15, <3>1 DEF Resume, Decides, Informs, Misfits, NothingLeft
  <2>16. CASE delete_case(p)
    <3>1. ASSUME Live(Case(p)), cases' = [cases EXCEPT ![Case(p)].status = "DELETED"],
                 Goto(p, "forget"), At(p, "delete")
          PROVE  OneMoves(p)
      <4>1. /\ proc'[p].pc = "forget" /\ Same(p)
            /\ \A q \in Procs \ {p} : proc'[q] = proc[q]
        BY <1>0, <3>1, Moves DEF Same
      <4>2. Case(p) \in CaseIds
        BY <1>0, <3>1 DEF Known, At
      <4>3. cases'[Case(p)].status \notin CaseStatus
        BY <3>1, <4>2 DEF TypeOK, CaseRecord, CaseStatus, Active, Outcomes
      <4>4. Case(p)' = Case(p)
        BY <4>1 DEF Same, Case
      <4> QED BY <3>1, <4>1, <4>3, <4>4 DEF OneMoves, Moved, Live
    <3> QED BY <2>2, <2>16, <3>1 DEF delete_case
  <2> HIDE DEF Goal
  <2>17. (\E q \in Procs : OneMoves(q)) \/ Quiet => Goal
    BY DEF Goal
  <2> HIDE DEF Quiet
  <2> QED
    BY <1>1, <2>5, <2>6, <2>7, <2>8, <2>9, <2>10, <2>11, <2>12, <2>13, <2>14, <2>15, <2>16
       DEF ProcStep
<1>2. ASSUME NEW p \in Requests, Arrives(p)
      PROVE  Goal
  <2>1. p \in Procs
    BY DEF Procs
  <2>2. ASSUME NEW kind, NEW a, NEW k, NEW c, NEW pc \in {"look", "assign", "check"},
               Begins(p, kind, a, k, c, pc)
        PROVE  OneMoves(p)
    <3>1. proc'[p].pc = pc /\ \A q \in Procs \ {p} : proc'[q] = proc[q]
      BY <1>0, <2>1, <2>2 DEF Begins, ProcOK
    <3> QED BY <3>1 DEF OneMoves, Moved
  <2>3. ASSUME NEW a \in Actors,
               \/ \E k \in Keys : start_investigation(p, a, k)
               \/ ui_start_investigation(p, a)
        PROVE  OneMoves(p)
    BY <2>2, <2>3 DEF start_investigation, ui_start_investigation
  <2>4. ASSUME NEW a \in Actors, NEW c \in CaseIds,
               NEW action \in {"claim_review", "review", "supply_information", "reset"},
               _case_for_action(p, a, action, c)
        PROVE  OneMoves(p)
    BY <2>2, <2>4 DEF _case_for_action
  <2>5. OneMoves(p)
    BY <1>2, <2>3, <2>4 DEF Arrives
  <2> QED BY <2>1, <2>5
<1>3. CASE Restart
  BY <1>3, IdleTyped DEF Restart
<1>4. CASE UNCHANGED vars
  BY <1>4 DEF vars
<1> HIDE DEF Goal
<1> QED
  BY <1>1, <1>2, <1>3, <1>4 DEF Next

-----------------------------------------------------------------------------
(***************************************************************************)
(* The tenant of a case is that of who started it.                         *)
(***************************************************************************)
Investigated ==
  \A c \in CaseIds :
    Live(c) => cases[c].investigator \in Actors /\ cases[c].tenant = Tenant[cases[c].investigator]

LEMMA LiveOpened ==
  ASSUME TypeOK, Known, NEW c \in CaseIds, Live(c)
  PROVE  c \in 1..opened
BY DEF TypeOK, Known, Live, CaseStatus, Active, Outcomes

LEMMA InvestigatedNext ==
  ASSUME TypeOK, Known, Investigated, [Next]_vars
  PROVE  Investigated'
<1> SUFFICES ASSUME NEW c \in CaseIds, Live(c)'
             PROVE  /\ cases'[c].investigator \in Actors
                    /\ cases'[c].tenant = Tenant[cases'[c].investigator]
  BY DEF Investigated
<1>1. CASE Live(c)
  <2>1. c <= opened
    BY <1>1, LiveOpened DEF TypeOK
  <2> QED BY <1>1, <2>1, RowsMove DEF Investigated
<1>2. CASE ~Live(c)
  <2>1. PICK q \in Procs : Arises(q, c)
    BY <1>2, RowsMove
  <2>2. Actor(q) \in Actors
    BY <2>1 DEF Arises, TypeOK, ProcOK, At
  <2> QED BY <2>1, <2>2 DEF Arises
<1> QED BY <1>1, <1>2

LEMMA AccessSound ==
  ASSUME TypeOK, ReviewInv, Investigated
  PROVE  AccessAsDocumented
<1> SUFFICES ASSUME NEW c \in CaseIds, Live(c), NEW a \in Actors,
                    NEW action \in {"reset", "read_case", "supply_information",
                                    "claim_review", "review", "read_trace"}
             PROVE  Allowed(a, c, action) <=> Documented(a, cases[c], action)
  BY DEF AccessAsDocumented
<1>1. Roles[a] \subseteq RoleNames /\ a # Nobody
  OBVIOUS
<1>2. cases[c].tenant = Tenant[cases[c].investigator]
  BY DEF Investigated
<1>3. a = cases[c].reviewer => Admin(a) \/ cases[c].tenant = Tenant[a]
  BY <1>1 DEF ReviewInv, MayReview, Admin
<1>4. CASE Admin(a)
  BY <1>4 DEF Admin, Allowed, require_roles, authorize_case, Documented
<1>5. CASE ~Admin(a)
  <2>1. a \in {cases[c].investigator, cases[c].reviewer} => cases[c].tenant = Tenant[a]
    BY <1>2, <1>3, <1>5
  <2> DEFINE case == cases[c]
             T == Tenant[a] = case.tenant
             I == a = case.investigator
             R == a = case.reviewer
             has(role) == role \in Roles[a]
  <2>2. CASE action = "reset"
    <3>1. Allowed(a, c, action) <=> (has("analyst") \/ has("reviewer")) /\ T /\ I
      BY <1>5, <2>2 DEF Admin, Allowed, require_roles, RouteRoles, authorize_case
    <3>2. Documented(a, case, action) <=> (has("analyst") \/ has("reviewer")) /\ I
      BY <1>5, <2>2 DEF Admin, Documented
    <3> QED BY <2>1, <3>1, <3>2
  <2>3. CASE action = "read_case"
    <3>1. Allowed(a, c, action) <=>
            (has("analyst") \/ has("reviewer") \/ has("researcher")) /\ T
              /\ (has("researcher") \/ I \/ R)
      BY <1>5, <2>3 DEF Admin, Allowed, require_roles, RouteRoles, authorize_case
    <3>2. Documented(a, case, action) <=>
            (has("researcher") /\ T) \/ ((has("analyst") \/ has("reviewer")) /\ (I \/ R))
      BY <1>1, <1>5, <2>3 DEF Admin, Documented, RoleNames
    <3> QED BY <2>1, <3>1, <3>2
  <2>4. CASE action = "supply_information"
    <3>1. Allowed(a, c, action) <=> (has("analyst") \/ has("reviewer")) /\ T /\ (I \/ R)
      BY <1>5, <2>4 DEF Admin, Allowed, require_roles, RouteRoles, authorize_case
    <3>2. Documented(a, case, action) <=> (has("analyst") \/ has("reviewer")) /\ (I \/ R)
      BY <1>5, <2>4 DEF Admin, Documented
    <3> QED BY <2>1, <3>1, <3>2
  <2>5. CASE action = "claim_review"
    BY <1>5, <2>5
       DEF Admin, Allowed, require_roles, RouteRoles, authorize_case, Documented
  <2>6. CASE action = "review"
    <3>1. Allowed(a, c, action) <=> has("reviewer") /\ T /\ R
      BY <1>5, <2>6 DEF Admin, Allowed, require_roles, RouteRoles, authorize_case
    <3>2. Documented(a, case, action) <=> has("reviewer") /\ R
      BY <1>5, <2>6 DEF Admin, Documented
    <3> QED BY <2>1, <3>1, <3>2
  <2>7. CASE action = "read_trace"
    BY <1>5, <2>7
       DEF Admin, Allowed, require_roles, RouteRoles, authorize_case, Documented
  <2> QED BY <2>2, <2>3, <2>4, <2>5, <2>6, <2>7
<1> QED BY <1>4, <1>5

(***************************************************************************)
(* One case per tenant, and what is needed of the processes that start its *)
(* graph: whoever starts a case beside another one starts a FAILED one.    *)
(***************************************************************************)
OnePerTenant ==
  \A c, d \in CaseIds : c # d /\ Live(c) /\ Live(d) => cases[c].tenant # cases[d].tenant

FailedNoted == \A c \in CaseIds : cases[c].status = "FAILED" => c \in failed

Launching(p) ==
  \/ proc[p].pc \in {"spawn", "run"}
  \/ proc[p].pc = "running" /\ proc[p].kind \in {"start", "task"}

LaunchedOnce ==
  \A p, q \in Procs :
    p # q /\ Launching(p) /\ Launching(q) /\ Case(p) = Case(q) => Case(p) \in failed

LEMMA TenantNext ==
  ASSUME TypeOK, Known, OnePerTenant, [Next]_vars
  PROVE  OnePerTenant'
<1>1. ASSUME NEW c \in CaseIds, NEW d \in CaseIds, c # d, Live(c)', Live(d)', Live(d)
      PROVE  cases'[c].tenant # cases'[d].tenant
  <2>1. d <= opened
    BY <1>1, LiveOpened DEF TypeOK
  <2>2. cases'[d].tenant = cases[d].tenant
    BY <2>1, RowsMove
  <2>3. CASE Live(c)
    <3>1. c <= opened
      BY <2>3, LiveOpened DEF TypeOK
    <3> QED BY <1>1, <2>2, <2>3, <3>1, RowsMove DEF OnePerTenant
  <2>4. CASE ~Live(c)
    <3>1. PICK q \in Procs : Arises(q, c)
      BY <1>1, <2>4, RowsMove
    <3>2. d \notin Existing(Actor(q))
      BY <3>1 DEF Arises, Refused
    <3> QED BY <1>1, <2>2, <3>1, <3>2 DEF Arises, Existing
  <2> QED BY <2>3, <2>4
<1> SUFFICES ASSUME NEW c \in CaseIds, NEW d \in CaseIds, c # d, Live(c)', Live(d)'
             PROVE  cases'[c].tenant # cases'[d].tenant
  BY DEF OnePerTenant
<1>2. CASE Live(c) \/ Live(d)
  BY <1>1, <1>2
<1>3. CASE ~Live(c) /\ ~Live(d)
  <2>1. c = opened + 1 /\ d = opened + 1
    BY <1>3, RowsMove DEF Arises
  <2> QED BY <2>1
<1> QED BY <1>2, <1>3

LEMMA FailedNext ==
  ASSUME TypeOK, FailedNoted, [Next]_vars
  PROVE  FailedNoted' /\ failed \subseteq failed'
<1>0. cases \in [CaseIds -> CaseRecord]
  BY DEF TypeOK
<1> DEFINE Goal == FailedNoted' /\ failed \subseteq failed'
<1> SUFFICES Goal
  OBVIOUS
<1>1. ASSUME NEW d, NEW s, SetStatus(d, s)
      PROVE  Goal
  BY <1>0, <1>1 DEF SetStatus, FailedNoted, CaseRecord
<1>2. UNCHANGED <<cases, failed>> => Goal
  BY DEF FailedNoted
<1>3. ASSUME NEW p \in Procs, ProcStep(p) \/ RunRaises(p)
      PROVE  Goal
  <2>1. CASE Insert(p)
    <3>1. failed' = failed
      BY <2>1 DEF Insert, history
    <3>2. UNCHANGED cases \/ \E row : row.status = "OPEN" /\ cases' = [cases EXCEPT ![opened + 1] = row]
      <4> DEFINE row == [status |-> "OPEN", tenant |-> Tenant[Actor(p)],
                         investigator |-> Actor(p), reviewer |-> Nobody]
      <4>1. row.status = "OPEN"
        OBVIOUS
      <4>2. UNCHANGED cases \/ cases' = [cases EXCEPT ![opened + 1] = row]
        BY <2>1 DEF Insert, rows
      <4> HIDE DEF row
      <4> QED BY <4>1, <4>2
    <3> QED BY <1>0, <3>1, <3>2 DEF FailedNoted
  <2>2. CASE assign_reviewer(p)
    <3>1. \A c \in CaseIds : cases'[c].status = cases[c].status
      BY <1>0, <2>2 DEF assign_reviewer, CaseRecord
    <3> QED BY <2>2, <3>1 DEF assign_reviewer, history, FailedNoted
  <2>3. CASE delete_case(p)
    <3>1. \A c \in CaseIds : cases'[c].status \in {cases[c].status, "DELETED"}
      BY <1>0, <2>3 DEF delete_case, CaseRecord
    <3> QED BY <2>3, <3>1 DEF delete_case, history, FailedNoted
  <2>4. CASE BeginRun(p) \/ EndRun(p) \/ Resume(p)
    BY <1>1, <1>2, <2>4 DEF BeginRun, EndRun, Resume, Decides, Informs, Misfits, NothingLeft, rows
  <2>5. CASE Select(p) \/ FoundCase(p) \/ Spawn(p) \/ RunRaises(p) \/ ReadRow(p) \/ Respond(p)
             \/ EndTask(p) \/ Check(p) \/ ForgetCase(p)
    BY <1>2, <2>5 DEF Select, FoundCase, Spawn, RunRaises, ReadRow, Respond, EndTask, Check,
       ForgetCase, rows, history
  <2> HIDE DEF Goal
  <2> QED
    BY <1>3, <2>1, <2>2, <2>3, <2>4, <2>5 DEF ProcStep
<1>4. ASSUME NEW p \in Requests, Arrives(p)
      PROVE  UNCHANGED <<cases, failed>>
  BY <1>4 DEF Arrives, start_investigation, ui_start_investigation, _case_for_action, rows, history
<1>5. ASSUME Restart \/ UNCHANGED vars
      PROVE  UNCHANGED <<cases, failed>>
  BY <1>5 DEF Restart, vars, rows, history
<1> HIDE DEF Goal
<1> QED BY <1>2, <1>3, <1>4, <1>5 DEF Next

(***************************************************************************)
(* A process that starts a case after the step did so before it, opened    *)
(* it, or follows one that did; or the case has FAILED.                    *)
(***************************************************************************)
LEMMA LaunchNext ==
  ASSUME TypeOK, Known, FailedNoted, LaunchedOnce, [Next]_vars
  PROVE  LaunchedOnce'
<1>0. opened \in 0..MaxCases
  BY DEF TypeOK
<1>1. ASSUME NEW p \in Procs, NEW q \in Procs, p # q, Launching(p)', Launching(q)',
             Case(p)' = Case(q)', proc'[q] = proc[q]
      PROVE  Case(p)' \in failed'
  <2>1. Launching(q) /\ Case(q) = Case(q)' /\ Case(q) \in 1..opened
    BY <1>0, <1>1 DEF Launching, Case, Known
  <2>2. proc'[q].pc # "idle" /\ proc'[p].pc # "idle"
    BY <1>1 DEF Launching
  <2>3. failed \subseteq failed'
    BY FailedNext
  <2>4. CASE proc'[p] = proc[p]
    BY <1>1, <2>1, <2>3, <2>4 DEF LaunchedOnce, Launching, Case
  <2>5. CASE proc'[p] # proc[p]
    <3>1. Moved(p)
      BY <2>2, <2>5, ProcMoves DEF OneMoves
    <3>2. CASE At(p, "found") /\ Same(p) /\ StartsAgain(Case(p))
      <4>1. Case(p) \in CaseIds /\ Case(p)' = Case(p)
        BY <1>0, <3>2 DEF Known, At, Same, Case
      <4> QED BY <2>3, <3>2, <4>1 DEF FailedNoted, StartsAgain
    <3>3. CASE At(p, "insert") /\ opened' = opened + 1 /\ proc'[p].case = opened'
      BY <1>0, <1>1, <2>1, <3>3 DEF Case
    <3>4. ASSUME NEW r \in Procs \ {p}, At(r, "spawn"), Case(r) = proc'[p].case,
                 proc'[r].pc = "idle"
          PROVE  Case(p)' \in failed'
      <4>1. r # q /\ Launching(r) /\ Case(r) = Case(q)
        BY <1>1, <2>1, <2>2, <3>4 DEF Launching, At, Case
      <4>2. Case(r) \in failed
        BY <2>1, <4>1 DEF LaunchedOnce
      <4> QED BY <2>3, <3>4, <4>2 DEF Case
    <3>5. CASE Same(p) /\ At(p, "run") /\ proc'[p].pc = "running"
      <4>1. Launching(p) /\ Case(p) = Case(p)'
        BY <3>5 DEF Launching, At, Same, Case
      <4> QED BY <1>1, <2>1, <2>3, <4>1 DEF LaunchedOnce
    <3> QED
      BY <1>1, <3>1, <3>2, <3>3, <3>4, <3>5 DEF Moved, Launched, Launching, Same, At
  <2> QED BY <2>4, <2>5
<1> SUFFICES ASSUME NEW p \in Procs, NEW q \in Procs, p # q, Launching(p)', Launching(q)',
                    Case(p)' = Case(q)'
             PROVE  Case(p)' \in failed'
  BY DEF LaunchedOnce
<1>2. proc'[q] = proc[q] \/ proc'[p] = proc[p]
  <2>1. proc'[q].pc # "idle" /\ proc'[p].pc # "idle"
    BY DEF Launching
  <2> QED BY <2>1, ProcMoves DEF OneMoves
<1> QED BY <1>1, <1>2

(***************************************************************************)
(* What the cache needs: who starts a case owns it, and a response that is *)
(* about to be cached is of a case that is there, is being reset, or was   *)
(* reset beside it.                                                        *)
(***************************************************************************)
Starts(p) == proc[p].kind = "start" /\ proc[p].pc \in {"run", "running", "read", "respond"}

Excused(c) ==
  \/ Live(c)
  \/ c \in raced
  \/ \E p \in Requests : At(p, "forget") /\ Case(p) = c

CacheInv ==
  /\ \A p \in Procs :
       /\ Starts(p) => cases[Case(p)].investigator = Actor(p)
       /\ At(p, "read") => proc[p].kind \in {"start", "task"}
       /\ At(p, "respond") => proc[p].kind = "start" /\ Excused(Case(p))
  /\ \A a \in Actors, k \in Keys :
       LET c == idempotency[<<a, k>>] IN
       c # 0 => c \in 1..opened /\ cases[c].investigator = a /\ Excused(c)

LEMMA CacheIsFresh == CacheInv => CacheFresh
BY DEF CacheInv, CacheFresh, Excused

(***************************************************************************)
(* An excuse holds, or the step is the end of a reset, or of the process,  *)
(* that leaves no response of the case.                                    *)
(***************************************************************************)
LEMMA LiveStays ==
  ASSUME TypeOK, NEW c \in CaseIds, Live(c), [Next]_vars,
         \A p \in Procs : ~(delete_case(p) /\ Case(p) = c)
  PROVE  Live(c)'
<1>0. cases \in [CaseIds -> CaseRecord]
  BY DEF TypeOK
<1>1. ASSUME NEW d, NEW s \in CaseStatus, SetStatus(d, s) PROVE Live(c)'
  BY <1>0, <1>1 DEF SetStatus, CaseRecord, Live
<1>2. UNCHANGED cases => Live(c)'
  BY DEF Live
<1>3. ASSUME NEW p \in Procs, ProcStep(p) \/ RunRaises(p)
      PROVE  Live(c)'
  <2>1. CASE Insert(p)
    <3> DEFINE row == [status |-> "OPEN", tenant |-> Tenant[Actor(p)],
                       investigator |-> Actor(p), reviewer |-> Nobody]
    <3>1. row.status \in CaseStatus
      BY DEF CaseStatus, Active
    <3>2. UNCHANGED cases \/ cases' = [cases EXCEPT ![opened + 1] = row]
      BY <2>1 DEF Insert, rows
    <3> HIDE DEF row
    <3> QED BY <1>0, <3>1, <3>2 DEF Live
  <2>2. CASE assign_reviewer(p)
    BY <1>0, <2>2 DEF assign_reviewer, CaseRecord, Live
  <2>3. CASE delete_case(p)
    <3>1. c # Case(p)
      BY <2>3
    <3> QED BY <1>0, <2>3, <3>1 DEF delete_case, Live
  <2>4. CASE BeginRun(p) \/ EndRun(p)
    BY <1>1, <1>2, <2>4 DEF BeginRun, EndRun, rows, CaseStatus, Active
  <2>5. CASE Resume(p)
    BY <1>1, <1>2, <2>5
       DEF Resume, Decides, Informs, Misfits, NothingLeft, rows, CaseStatus, Active, Outcomes
  <2>6. CASE Select(p) \/ FoundCase(p) \/ Spawn(p) \/ RunRaises(p) \/ ReadRow(p) \/ Respond(p)
             \/ EndTask(p) \/ Check(p) \/ ForgetCase(p)
    BY <1>2, <2>6 DEF Select, FoundCase, Spawn, RunRaises, ReadRow, Respond, EndTask, Check,
       ForgetCase, rows
  <2> QED BY <1>3, <2>1, <2>2, <2>3, <2>4, <2>5, <2>6 DEF ProcStep
<1>4. ASSUME NEW p \in Requests, Arrives(p)
      PROVE  UNCHANGED cases
  BY <1>4 DEF Arrives, start_investigation, ui_start_investigation, _case_for_action, rows
<1>5. ASSUME Restart \/ UNCHANGED vars
      PROVE  UNCHANGED cases
  BY <1>5 DEF Restart, vars, rows
<1> QED BY <1>2, <1>3, <1>4, <1>5 DEF Next

NoResponse(c) ==
  /\ \A a \in Actors, k \in Keys : idempotency'[<<a, k>>] # c
  /\ \A p \in Procs : proc'[p].pc = "respond" => proc'[p].case # c

(***************************************************************************)
(* raced grows only, and a reset under way goes on to its end.             *)
(***************************************************************************)
LEMMA RacedGrows ==
  ASSUME [Next]_vars
  PROVE  raced \subseteq raced'
<1>1. ASSUME NEW p \in Procs, ProcStep(p) \/ RunRaises(p) PROVE raced \subseteq raced'
  BY <1>1 DEF ProcStep, Select, Insert, FoundCase, Spawn, BeginRun, EndRun, ReadRow, Respond,
     EndTask, assign_reviewer, Check, Resume, delete_case, ForgetCase, RunRaises, history
<1>2. ASSUME NEW p \in Requests, Arrives(p) PROVE raced \subseteq raced'
  BY <1>2 DEF Arrives, start_investigation, ui_start_investigation, _case_for_action, history
<1> QED BY <1>1, <1>2 DEF Next, Restart, history, vars

LEMMA ForgetterStays ==
  ASSUME TypeOK, Known, [Next]_vars, NEW p \in Procs, At(p, "forget")
  PROVE  proc'[p] = proc[p] \/ ForgetCase(p) \/ Restart
<1>0. ProcOK
  BY DEF TypeOK
<1>1. ASSUME NEW q \in Procs, ProcStep(q) \/ RunRaises(q)
      PROVE  proc'[p] = proc[p] \/ ForgetCase(p)
  <2>1. CASE q = p
    BY <1>1, <2>1 DEF ProcStep, Select, Insert, FoundCase, Spawn, BeginRun, EndRun, ReadRow,
       Respond, EndTask, assign_reviewer, Check, Resume, delete_case, RunRaises, At
  <2>2. CASE q # p /\ Spawn(q)
    <3>1. p \notin JobIds
      BY TaskKnown DEF At, TaskPc
    <3>2. created + 1 \in JobIds
      BY <2>2 DEF Spawn, create, TypeOK, StoreTypeOK
    <3> QED BY <1>0, <2>2, <3>1, <3>2 DEF Spawn, ProcOK
  <2>3. CASE q # p /\ ~Spawn(q)
    <3>1. \E new : proc' = [proc EXCEPT ![q] = new]
      <4>1. ASSUME NEW pc, Goto(q, pc) PROVE \E new : proc' = [proc EXCEPT ![q] = new]
        BY <4>1 DEF Goto
      <4>2. ASSUME NEW pc, NEW c, Takes(q, c, pc) PROVE \E new : proc' = [proc EXCEPT ![q] = new]
        BY <4>2 DEF Takes
      <4>3. Ends(q) => \E new : proc' = [proc EXCEPT ![q] = new]
        BY DEF Ends
      <4>4. Raises(q) => \E new : proc' = [proc EXCEPT ![q] = new]
        BY <4>1, <4>3 DEF Raises
      <4>5. \/ \E pc : Goto(q, pc)
            \/ \E c, pc : Takes(q, c, pc)
            \/ Ends(q)
            \/ Raises(q)
        BY <1>1, <2>3 DEF ProcStep, Select, Insert, FoundCase, BeginRun, EndRun, ReadRow,
           Respond, EndTask, assign_reviewer, Check, Resume, Decides, Informs, Misfits,
           NothingLeft, delete_case, ForgetCase, RunRaises
      <4> QED BY <4>1, <4>2, <4>3, <4>4, <4>5
    <3> QED BY <1>0, <2>3, <3>1 DEF ProcOK
  <2> QED BY <2>1, <2>2, <2>3
<1>2. ASSUME NEW q \in Requests, Arrives(q)
      PROVE  proc'[p] = proc[p]
  <2>1. At(q, "idle") /\ q \in Procs
    BY <1>2 DEF Arrives, start_investigation, ui_start_investigation, _case_for_action, Begins,
       FirstFree, Procs
  <2>2. q # p
    BY <2>1 DEF At
  <2>3. \E new : proc' = [proc EXCEPT ![q] = new]
    BY <1>2 DEF Arrives, start_investigation, ui_start_investigation, _case_for_action, Begins
  <2> QED BY <1>0, <2>1, <2>2, <2>3 DEF ProcOK
<1> QED BY <1>1, <1>2 DEF Next, vars

LEMMA ExcuseStays ==
  ASSUME TypeOK, Known, CacheInv, [Next]_vars, NEW c \in CaseIds, Excused(c)
  PROVE  Excused(c)' \/ NoResponse(c)
<1>0. ProcOK
  BY DEF TypeOK
<1>1. CASE c \in raced
  BY <1>1, RacedGrows DEF Excused
<1>2. CASE Live(c)
  <2>1. CASE \A p \in Procs : ~(delete_case(p) /\ Case(p) = c)
    BY <1>2, <2>1, LiveStays DEF Excused
  <2>2. ASSUME NEW p \in Procs, delete_case(p), Case(p) = c
        PROVE  Excused(c)'
    <3>1. Goto(p, "forget") /\ At(p, "delete")
      BY <1>2, <2>2 DEF delete_case
    <3>2. p \in Requests
      BY <3>1, TaskKnown DEF At, TaskPc, Procs
    <3>3. At(p, "forget")' /\ Case(p)' = c
      BY <1>0, <2>2, <3>1, Moves DEF At, Case
    <3> QED BY <3>2, <3>3 DEF Excused
  <2> QED BY <2>1, <2>2
<1>3. ASSUME NEW p \in Requests, At(p, "forget"), Case(p) = c
      PROVE  Excused(c)' \/ NoResponse(c)
  <2>0. p \in Procs
    BY DEF Procs
  <2>1. CASE proc'[p] = proc[p]
    BY <1>3, <2>1 DEF Excused, At, Case
  <2>2. CASE ForgetCase(p)
    <3>1. CASE \E q \in Requests : At(q, "respond") /\ Case(q) = c
      <4>1. c \in raced'
        BY <1>3, <2>2, <3>1 DEF ForgetCase
      <4> QED BY <4>1 DEF Excused
    <3>2. CASE ~\E q \in Requests : At(q, "respond") /\ Case(q) = c
      <4>1. \A a \in Actors, k \in Keys : idempotency'[<<a, k>>] # c
        BY <1>3, <2>2 DEF ForgetCase, Purged
      <4>2. ASSUME NEW q \in Procs, proc'[q].pc = "respond" PROVE proc'[q].case # c
        <5>1. Ends(p)
          BY <2>2 DEF ForgetCase
        <5>2. q # p /\ proc'[q] = proc[q]
          BY <1>0, <2>0, <4>2, <5>1, Moves
        <5>3. q \notin JobIds
          BY <4>2, <5>2, TaskKnown DEF At, TaskPc
        <5>4. q \in Requests
          BY <5>3 DEF Procs
        <5> QED BY <3>2, <4>2, <5>2, <5>4 DEF At, Case
      <4> QED BY <4>1, <4>2 DEF NoResponse
    <3> QED BY <3>1, <3>2
  <2>3. CASE Restart
    BY <2>3, IdleTyped DEF Restart, NoResponse
  <2> QED BY <1>3, <2>0, <2>1, <2>2, <2>3, ForgetterStays
<1> QED BY <1>1, <1>2, <1>3 DEF Excused

(***************************************************************************)
(* What the cache holds was there, or is the response of this step.        *)
(***************************************************************************)
LEMMA CacheStep ==
  ASSUME TypeOK, [Next]_vars, NEW a \in Actors, NEW k \in Keys
  PROVE  \/ idempotency'[<<a, k>>] \in {0, idempotency[<<a, k>>]}
         \/ \E p \in Procs : /\ At(p, "respond") /\ Actor(p) = a
                             /\ idempotency'[<<a, k>>] = Case(p)
<1>0. idempotency \in [Actors \X Keys -> {0} \cup CaseIds] /\ <<a, k>> \in Actors \X Keys
  BY DEF TypeOK
<1>1. ASSUME NEW p \in Procs, Respond(p)
      PROVE  \/ idempotency'[<<a, k>>] = idempotency[<<a, k>>]
             \/ /\ At(p, "respond") /\ Actor(p) = a
                /\ idempotency'[<<a, k>>] = Case(p)
  BY <1>0, <1>1 DEF Respond
<1>2. ASSUME NEW p \in Procs, ForgetCase(p)
      PROVE  idempotency'[<<a, k>>] \in {0, idempotency[<<a, k>>]}
  BY <1>0, <1>2 DEF ForgetCase, Purged
<1>3. ASSUME NEW p \in Procs, ProcStep(p) \/ RunRaises(p), ~Respond(p), ~ForgetCase(p)
      PROVE  idempotency' = idempotency
  BY <1>3 DEF ProcStep, Select, Insert, FoundCase, Spawn, BeginRun, EndRun, ReadRow,
     EndTask, assign_reviewer, Check, Resume, delete_case, RunRaises
<1>4. ASSUME NEW p \in Requests, Arrives(p)
      PROVE  idempotency' = idempotency
  BY <1>4 DEF Arrives, start_investigation, ui_start_investigation, _case_for_action
<1>5. Restart => idempotency'[<<a, k>>] = 0
  BY <1>0 DEF Restart
<1> QED BY <1>1, <1>2, <1>3, <1>4, <1>5 DEF Next, vars

LEMMA CacheNext ==
  ASSUME TypeOK, Known, CacheInv, [Next]_vars
  PROVE  CacheInv'
<1>0. opened \in 0..MaxCases /\ ProcOK
  BY DEF TypeOK
<1>1. ASSUME NEW p \in Procs, proc[p].pc \notin {"idle", "look", "insert"}
      PROVE  /\ Case(p) \in CaseIds
             /\ cases'[Case(p)].investigator = cases[Case(p)].investigator
  <2>1. Case(p) \in CaseIds /\ Case(p) <= opened
    BY <1>0, <1>1 DEF Known
  <2> QED BY <2>1, RowsMove
<1>2. ASSUME NEW p \in Procs, proc'[p] # proc[p], proc'[p].pc # "idle"
      PROVE  Moved(p)
  BY <1>2, ProcMoves DEF OneMoves
<1>3. ASSUME NEW p \in Procs, Starts(p)'
      PROVE  cases'[Case(p)'].investigator = Actor(p)'
  <2>1. CASE proc'[p] = proc[p] \/ (Same(p) /\ proc[p].pc \in {"run", "running", "read"})
    <3>1. Starts(p) /\ Case(p)' = Case(p) /\ Actor(p)' = Actor(p)
      BY <1>3, <2>1 DEF Starts, Same, Case, Actor
    <3>2. proc[p].pc \notin {"idle", "look", "insert"}
      BY <3>1 DEF Starts
    <3> QED BY <1>1, <3>1, <3>2 DEF CacheInv
  <2>2. CASE Launched(p)
    BY <1>3, <2>2 DEF Launched, Starts, Case, Actor
  <2>3. CASE /\ At(p, "look") /\ proc'[p].case \in 1..opened
             /\ cases[proc'[p].case].investigator = proc'[p].actor /\ cases' = cases
    BY <2>3 DEF Case, Actor
  <2>4. proc'[p] # proc[p] => Moved(p)
    BY <1>2, <1>3 DEF Starts
  <2> QED BY <1>3, <2>1, <2>2, <2>3, <2>4 DEF Moved, Starts, At, Same
<1>4. ASSUME NEW p \in Procs, proc'[p].pc = "read"
      PROVE  proc'[p].kind \in {"start", "task"}
  BY <1>2, <1>4 DEF Moved, Launched, CacheInv, At, Same
<1>5. ASSUME NEW p \in Procs, proc'[p].pc = "respond"
      PROVE  proc'[p].kind = "start" /\ Excused(Case(p))'
  <2>1. CASE proc'[p] = proc[p]
    <3>1. At(p, "respond") /\ Case(p)' = Case(p)
      BY <1>5, <2>1 DEF At, Case
    <3>2. PICK c \in CaseIds : c = Case(p)
      BY <1>1, <3>1 DEF At
    <3>3. proc[p].kind = "start" /\ Excused(c)
      BY <3>1, <3>2 DEF CacheInv
    <3>4. ~NoResponse(c)
      BY <1>5, <3>1, <3>2 DEF NoResponse, Case
    <3>5. Excused(c)'
      BY <3>3, <3>4, ExcuseStays
    <3> QED BY <2>1, <3>1, <3>2, <3>3, <3>5 DEF Excused, Case
  <2>2. CASE proc'[p] # proc[p]
    <3>1. /\ Same(p) /\ At(p, "read") /\ proc[p].kind # "task"
          /\ Live(Case(p)) /\ cases' = cases
      BY <1>2, <1>5, <2>2 DEF Moved, Launched
    <3>2. proc'[p].kind = "start"
      BY <3>1 DEF Same, CacheInv
    <3>3. Live(Case(p))'
      BY <3>1 DEF Same, Case, Live
    <3> QED BY <3>2, <3>3 DEF Excused
  <2> QED BY <2>1, <2>2
<1>6. ASSUME NEW a \in Actors, NEW k \in Keys, NEW c, c = idempotency'[<<a, k>>], c # 0
      PROVE  c \in 1..opened' /\ cases'[c].investigator = a /\ Excused(c)'
  <2>1. c \in 1..opened /\ cases[c].investigator = a /\ Excused(c)
    <3>1. CASE c = idempotency[<<a, k>>]
      BY <1>6, <3>1 DEF CacheInv
    <3>2. ASSUME NEW p \in Procs, At(p, "respond"), Actor(p) = a, c = Case(p)
          PROVE  c \in 1..opened /\ cases[c].investigator = a /\ Excused(c)
      BY <3>2 DEF CacheInv, Starts, Known, At
    <3> QED BY <1>6, <3>1, <3>2, CacheStep
  <2>2. c \in CaseIds /\ c <= opened
    BY <1>0, <2>1
  <2>3. cases'[c].investigator = a /\ c \in 1..opened'
    BY <1>0, <2>1, <2>2, RowsMove
  <2>4. Excused(c)' \/ NoResponse(c)
    BY <2>1, <2>2, ExcuseStays
  <2>5. ~NoResponse(c)
    BY <1>6 DEF NoResponse
  <2> QED BY <2>3, <2>4, <2>5
<1> QED BY <1>3, <1>4, <1>5, <1>6 DEF CacheInv, At

-----------------------------------------------------------------------------
LEMMA DeskInit ==
  Init => Investigated /\ OnePerTenant /\ FailedNoted /\ LaunchedOnce /\ CacheInv
<1> SUFFICES ASSUME Init
             PROVE  Investigated /\ OnePerTenant /\ FailedNoted /\ LaunchedOnce /\ CacheInv
  OBVIOUS
<1>1. \A c \in CaseIds : cases[c].status = "ABSENT" /\ ~Live(c)
  BY DEF Init, Live, CaseStatus, Active, Outcomes
<1>2. \A p \in Procs : proc[p].pc = "idle"
  BY IdleTyped DEF Init
<1>3. \A a \in Actors, k \in Keys : idempotency[<<a, k>>] = 0
  BY DEF Init
<1>4. Investigated /\ OnePerTenant /\ FailedNoted
  BY <1>1 DEF Investigated, OnePerTenant, FailedNoted
<1>5. LaunchedOnce
  BY <1>2 DEF LaunchedOnce, Launching
<1>6. CacheInv
  BY <1>2, <1>3 DEF CacheInv, Starts, At
<1> QED BY <1>4, <1>5, <1>6

(***************************************************************************)
(* In every reachable state the two layers of authorisation allow exactly  *)
(* what the documented matrix does, for all roles, tenants and actors      *)
(* (docs/architecture.md 600-616; access.py 15-48).                        *)
(***************************************************************************)
THEOREM DeskAccess == Spec => []AccessAsDocumented
<1> DEFINE I == TypeOK /\ IndexSound /\ Known /\ ReviewInv /\ Investigated
<1>1. I /\ [Next]_vars => I'
  BY TypedNext, ReviewNext, InvestigatedNext
<1>2. Init => I
  BY TypedInit, ReviewInit, DeskInit
<1>3. I => AccessAsDocumented
  BY AccessSound
<1> QED
  BY <1>1, <1>2, <1>3, PTL DEF Spec

(***************************************************************************)
(* One case of the alert per tenant, and one process at a time that starts *)
(* its graph unless it has FAILED, whatever the number of handlers, keys   *)
(* and tenants (app.py 568-612, 819-850).                                  *)
(***************************************************************************)
THEOREM DeskStartedOnce == Spec => []StartedOnce
<1> DEFINE I == /\ TypeOK /\ IndexSound /\ Known /\ ReviewInv
                /\ OnePerTenant /\ FailedNoted /\ LaunchedOnce
<1>1. I /\ [Next]_vars => I'
  BY TypedNext, ReviewNext, TenantNext, FailedNext, LaunchNext
<1>2. Init => I
  BY TypedInit, ReviewInit, DeskInit
<1>3. I => StartedOnce
  BY DEF StartedOnce, OnePerTenant, LaunchedOnce, Launching, Starting
<1> QED
  BY <1>1, <1>2, <1>3, PTL DEF Spec

(***************************************************************************)
(* A cached response is the actor's own case, and one that is there, but   *)
(* for the reset under way or beside the start (app.py 700-709, 827-848).  *)
(***************************************************************************)
THEOREM DeskCacheFresh == Spec => []CacheFresh
<1> DEFINE I == TypeOK /\ IndexSound /\ Known /\ ReviewInv /\ CacheInv
<1>1. I /\ [Next]_vars => I'
  BY TypedNext, ReviewNext, CacheNext
<1>2. Init => I
  BY TypedInit, ReviewInit, DeskInit
<1>3. I => CacheFresh
  BY CacheIsFresh
<1> QED
  BY <1>1, <1>2, <1>3, PTL DEF Spec

-----------------------------------------------------------------------------
(***************************************************************************)
(* What a step does to the store, and to who works on a case: whoever      *)
(* stops working on one reports a stage that is not active.                *)
(***************************************************************************)
Fresh == \A j \in JobIds : j > created => At(j, "idle") /\ jobs[j].case = 0

GoesOn(q) == At(q, "running") => At(q, "running")' /\ Case(q)' = Case(q)
AllGoOn == \A q \in Procs : GoesOn(q)

Reports(p, stage) ==
  /\ Case(p) \in CaseIds /\ stage_hook(Case(p), stage)
  /\ \A q \in Procs \ {p} : GoesOn(q)
  /\ stage = "active" => At(p, "running")' /\ Case(p)' = Case(p)

StoreMoves ==
  \/ UNCHANGED storeVars /\ AllGoOn
  \/ \E c \in CaseIds : create(c) /\ AllGoOn
  \/ \E p \in Procs, stage \in {"active", "completed", "failed"} : Reports(p, stage)
  \/ \E j \in JobIds : (complete(j) \/ fail(j)) /\ AllGoOn
  \/ \E c \in CaseIds : discard_case(c) /\ AllGoOn
  \/ Forget

FreshRests == \A j \in JobIds : j > created' /\ At(j, "idle") => At(j, "idle")'

LEMMA StoreMoved ==
  ASSUME TypeOK, Known, Fresh, [Next]_vars
  PROVE  StoreMoves /\ FreshRests
<1>0. ProcOK /\ opened \in 0..MaxCases /\ created \in 0..MaxJobs
  BY DEF TypeOK, StoreTypeOK
<1> DEFINE Others(p) == \A q \in Procs \ {p} : proc'[q] = proc[q]
           Goal == StoreMoves /\ FreshRests
<1> SUFFICES Goal
  OBVIOUS
<1>1. ASSUME NEW p \in Procs, Others(p), p \in JobIds => ~At(p, "idle"),
             created' = created
      PROVE  /\ \A q \in Procs \ {p} : GoesOn(q)
             /\ ~At(p, "running") => AllGoOn
             /\ FreshRests
  <2>1. \A q \in Procs \ {p} : GoesOn(q)
    BY <1>1 DEF GoesOn, At, Case
  <2>2. ~At(p, "running") => AllGoOn
    BY <2>1 DEF AllGoOn, GoesOn
  <2>3. FreshRests
    BY <1>1 DEF FreshRests, At, Procs
  <2> QED BY <2>1, <2>2, <2>3
<1>2. ASSUME NEW p \in Procs, ProcStep(p) \/ RunRaises(p)
      PROVE  Goal
  <2>0. ~At(p, "idle") /\ (~At(p, "look") /\ ~At(p, "insert") => Case(p) \in CaseIds)
    BY <1>0, <1>2
       DEF ProcStep, Select, Insert, FoundCase, Spawn, BeginRun, EndRun, ReadRow, Respond,
           EndTask, assign_reviewer, Check, Resume, delete_case, ForgetCase, RunRaises, At, Known
  <2>1. (\E pc : Goto(p, pc)) \/ Ends(p) \/ Raises(p) \/ (\E c, pc : Takes(p, c, pc)) => Others(p)
    BY <1>0, Moves DEF Takes, ProcOK
  <2>2. CASE Select(p) \/ Insert(p) \/ FoundCase(p) \/ ReadRow(p) \/ Respond(p)
             \/ assign_reviewer(p) \/ Check(p) \/ delete_case(p)
    <3>1. Others(p) /\ UNCHANGED storeVars /\ ~At(p, "running")
      BY <2>1, <2>2 DEF Select, Insert, FoundCase, ReadRow, Respond, assign_reviewer, Check,
         delete_case, At
    <3>2. created' = created
      BY <3>1 DEF storeVars
    <3> HIDE DEF Others
    <3> QED BY <1>1, <2>0, <3>1, <3>2 DEF StoreMoves
  <2>3. CASE Spawn(p)
    <3> DEFINE j == created + 1
               new == [proc[p] EXCEPT !.kind = "task", !.pc = "run"]
    <3>1. /\ j \in JobIds /\ j \in Procs /\ created' = j /\ create(Case(p)) /\ At(p, "spawn")
          /\ proc' = [proc EXCEPT ![p] = Idle, ![j] = new]
      BY <2>3 DEF Spawn, create, TypeOK, StoreTypeOK, Procs
    <3>2. p \notin JobIds
      BY <3>1, TaskKnown DEF At, TaskPc
    <3>3. At(j, "idle")
      BY <1>0, <3>1 DEF Fresh
    <3> HIDE DEF j, new
    <3>4. \A q \in Procs \ {p, j} : proc'[q] = proc[q]
      BY <1>0, <3>1 DEF ProcOK
    <3>5. AllGoOn
      BY <3>1, <3>3, <3>4 DEF AllGoOn, GoesOn, At, Case
    <3>6. FreshRests
      <4>1. ASSUME NEW i \in JobIds, i > j PROVE proc'[i] = proc[i]
        <5>1. i # j /\ i # p /\ i \in Procs
          BY <3>1, <3>2, <4>1 DEF Procs
        <5> QED BY <3>4, <5>1
      <4> QED BY <3>1, <4>1 DEF FreshRests, At
    <3>7. Case(p) \in CaseIds
      BY <2>0, <3>1 DEF At
    <3> QED BY <3>1, <3>5, <3>6, <3>7 DEF StoreMoves
  <2>4. ASSUME BeginRun(p) \/ EndRun(p) \/ RunRaises(p) \/ (Resume(p) /\ ~NothingLeft(p))
        PROVE  Goal
    <3>1. Case(p) \in CaseIds /\ Others(p)
      BY <2>0, <2>1, <2>4
         DEF BeginRun, EndRun, RunRaises, Resume, Decides, Informs, Misfits, At
    <3>2. \E stage \in {"active", "completed", "failed"} :
            stage_hook(Case(p), stage) /\ (stage = "active" => Goto(p, "running"))
      BY <2>4 DEF BeginRun, EndRun, RunRaises, Resume, Decides, Informs, Misfits
    <3>3. created' = created
      BY <3>2 DEF stage_hook
    <3>4. Goto(p, "running") => At(p, "running")' /\ Case(p)' = Case(p)
      BY <1>0, Moves DEF At, Case
    <3> HIDE DEF Others
    <3>5. FreshRests /\ \A q \in Procs \ {p} : GoesOn(q)
      BY <1>1, <2>0, <3>1, <3>3
    <3>6. \E stage \in {"active", "completed", "failed"} : Reports(p, stage)
      BY <3>1, <3>2, <3>4, <3>5 DEF Reports
    <3> QED BY <3>5, <3>6 DEF StoreMoves
  <2>5. CASE Resume(p) /\ NothingLeft(p)
    <3>1. Others(p) /\ UNCHANGED storeVars /\ ~At(p, "running") /\ created' = created
      BY <2>1, <2>5 DEF Resume, NothingLeft, At, storeVars
    <3> HIDE DEF Others
    <3> QED BY <1>1, <2>0, <3>1 DEF StoreMoves
  <2>6. CASE EndTask(p)
    <3>1. /\ Others(p) /\ p \in JobIds /\ (complete(p) \/ fail(p)) /\ ~At(p, "running")
          /\ created' = created
      BY <2>1, <2>6 DEF EndTask, At, complete, fail, finish
    <3> HIDE DEF Others
    <3> QED BY <1>1, <2>0, <3>1 DEF StoreMoves
  <2>7. CASE ForgetCase(p)
    <3>1. /\ Others(p) /\ discard_case(Case(p)) /\ ~At(p, "running") /\ Case(p) \in CaseIds
          /\ created' = created
      BY <2>0, <2>1, <2>7 DEF ForgetCase, At, discard_case
    <3> HIDE DEF Others
    <3> QED BY <1>1, <2>0, <3>1 DEF StoreMoves
  <2> HIDE DEF Goal
  <2> QED BY <1>2, <2>2, <2>3, <2>4, <2>5, <2>6, <2>7 DEF ProcStep
<1>3. ASSUME NEW p \in Requests, Arrives(p)
      PROVE  Goal
  <2>1. At(p, "idle") /\ (\E new : proc' = [proc EXCEPT ![p] = new]) /\ UNCHANGED storeVars
    BY <1>3 DEF Arrives, start_investigation, ui_start_investigation, _case_for_action, Begins,
       FirstFree
  <2>2. p \in Procs /\ p \notin JobIds
    BY DEF Requests, Procs
  <2>3. Others(p) /\ created' = created /\ ~At(p, "running")
    BY <1>0, <2>1, <2>2 DEF ProcOK, storeVars, At
  <2> HIDE DEF Others
  <2> QED BY <1>1, <2>1, <2>2, <2>3 DEF StoreMoves
<1>4. CASE Restart
  <2>1. Forget /\ \A j \in JobIds : At(j, "idle")'
    BY <1>4, IdleTyped DEF Restart, At, Procs
  <2> QED BY <2>1 DEF StoreMoves, FreshRests
<1>5. CASE UNCHANGED vars
  BY <1>5 DEF vars, storeVars, StoreMoves, AllGoOn, GoesOn, FreshRests, At, Case
<1> HIDE DEF Goal
<1> QED BY <1>2, <1>3, <1>4, <1>5 DEF Next

(***************************************************************************)
(* A job that shares its run with no other one is the job of the run, and  *)
(* has a process behind its active stage.                                  *)
(***************************************************************************)
AloneIn(j) == \A i \in JobIds \ {j} : jobs[i].case # jobs[j].case
Worked(c) == \E p \in Procs : At(p, "running") /\ Case(p) = c

JobShown(j) ==
  Stored(j) =>
    /\ jobs[j].case \in CaseIds
    /\ AloneIn(j) =>
         /\ jobs_by_run[jobs[j].case] = j
         /\ jobs[j].stage = "active" => Worked(jobs[j].case)

StageInv == Fresh /\ \A j \in JobIds : JobShown(j)

LEMMA StageIsShown == StageInv => StageShown
BY DEF StageInv, JobShown, AloneIn, Worked, StageShown

LEMMA StillWorked ==
  ASSUME NEW c, Worked(c), \A q \in Procs : Case(q) = c => GoesOn(q)
  PROVE  Worked(c)'
BY DEF Worked, GoesOn, At, Case

LEMMA StageCreate ==
  ASSUME StoreTypeOK, StageInv, AllGoOn, NEW c \in CaseIds, create(c), NEW j \in JobIds
  PROVE  JobShown(j)' /\ (j > created' => jobs'[j].case = 0)
<1> DEFINE k == created + 1
           new == [case |-> c, status |-> "running", stage |-> "pending"]
           table == [jobs EXCEPT ![k] = new]
           index == [jobs_by_run EXCEPT ![c] = k]
<1>1. /\ k \in JobIds /\ created' = k /\ jobs' = Drop(table, Pruned(table))
      /\ jobs_by_run' = Unmap(table, index, Pruned(table))
  BY DEF create, StoreTypeOK
<1>2. new \in JobRecord /\ new.case = c /\ new.status = "running" /\ new.stage = "pending"
  BY DEF JobRecord
<1> HIDE DEF new
<1>3. /\ table \in [JobIds -> JobRecord] /\ table[k] = new
      /\ \A i \in JobIds \ {k} : table[i] = jobs[i]
  BY <1>1, <1>2 DEF StoreTypeOK
<1>4. /\ index \in [CaseIds -> {0} \cup JobIds] /\ index[c] = k
      /\ \A d \in CaseIds \ {c} : index[d] = jobs_by_run[d]
  BY <1>1 DEF StoreTypeOK
<1>5. k > created /\ created \in Nat /\ jobs[k].case = 0
  BY <1>1 DEF StoreTypeOK, StageInv, Fresh
<1>6. k = created + 1
  OBVIOUS
<1> HIDE DEF table, index, k
<1>7. \A i \in JobIds : /\ jobs'[i].case = table[i].case /\ jobs'[i].stage = table[i].stage
                        /\ jobs'[i].status # "none" =>
                             i \notin Pruned(table) /\ table[i].status # "none"
  BY <1>1, <1>3, DropTyped DEF Drop
<1>8. j > created' => jobs'[j].case = 0
  BY <1>1, <1>3, <1>5, <1>7 DEF StageInv, Fresh
<1>9. ASSUME NEW d \in CaseIds, \A i \in Pruned(table) : table[i].case # d
      PROVE  jobs_by_run'[d] = index[d]
  BY <1>1, <1>9 DEF Unmap
<1>10. ASSUME Stored(j)'
       PROVE  /\ jobs'[j].case \in CaseIds
              /\ AloneIn(j)' => /\ jobs_by_run'[jobs'[j].case] = j
                                /\ jobs'[j].stage = "active" => Worked(jobs[j].case)'
  <2>1. j \notin Pruned(table) /\ table[j].status # "none"
    BY <1>7, <1>10 DEF Stored
  <2>2. ASSUME AloneIn(j)', table[j].case \in CaseIds
        PROVE  jobs_by_run'[table[j].case] = index[table[j].case]
    <3>1. ASSUME NEW i \in Pruned(table) PROVE table[i].case # table[j].case
      BY <1>7, <2>1, <2>2, PrunesEnded DEF AloneIn
    <3> QED BY <1>9, <2>2, <3>1
  <2>3. CASE j = k
    BY <1>2, <1>3, <1>4, <1>7, <2>2, <2>3
  <2>4. CASE j # k
    <3>1. table[j] = jobs[j] /\ Stored(j)
      BY <1>3, <2>1, <2>4 DEF Stored
    <3>2. jobs[j].case \in CaseIds
      BY <3>1 DEF StageInv, JobShown
    <3>3. ASSUME AloneIn(j)'
          PROVE  AloneIn(j) /\ jobs[j].case # c
      <4>1. \A i \in JobIds \ {j} : table[i].case # jobs[j].case
        BY <1>7, <3>1, <3>3 DEF AloneIn
      <4>2. jobs[j].case # c
        BY <1>1, <1>2, <1>3, <2>4, <4>1
      <4>3. AloneIn(j)
        BY <1>3, <1>5, <3>2, <4>1 DEF AloneIn
      <4> QED BY <4>2, <4>3
    <3>4. ASSUME AloneIn(j)', jobs[j].stage = "active"
          PROVE  Worked(jobs[j].case)'
      <4>1. PICK d \in CaseIds : d = jobs[j].case
        BY <3>2
      <4>2. Worked(d)
        BY <3>1, <3>3, <3>4, <4>1 DEF StageInv, JobShown
      <4>3. Worked(d)'
        BY <4>2, StillWorked DEF AllGoOn
      <4>4. jobs'[j].case = d
        BY <1>7, <3>1, <4>1
      <4> QED BY <4>3, <4>4 DEF Worked, At, Case
    <3>5. jobs'[j].case = jobs[j].case /\ jobs'[j].stage = jobs[j].stage
      BY <1>7, <3>1
    <3>6. AloneIn(j)' => jobs_by_run'[jobs[j].case] = j
      BY <1>4, <2>2, <3>1, <3>2, <3>3 DEF StageInv, JobShown
    <3> QED BY <3>2, <3>4, <3>5, <3>6
  <2> QED BY <2>3, <2>4
<1> QED BY <1>8, <1>10 DEF JobShown

(***************************************************************************)
(* A step that keeps every job's case, and the index of the jobs that      *)
(* stay, keeps the shown stages, if whoever worked on their case still     *)
(* does, or their stage is not active.                                     *)
(***************************************************************************)
LEMMA StageSame ==
  ASSUME StageInv, NEW j \in JobIds,
         \A i \in JobIds : jobs'[i].case = jobs[i].case,
         Stored(j)' => Stored(j),
         Stored(j)' => jobs_by_run'[jobs[j].case] = jobs_by_run[jobs[j].case],
         Stored(j)' /\ AloneIn(j) /\ jobs'[j].stage = "active" => Worked(jobs[j].case)'
  PROVE  JobShown(j)'
<1>1. AloneIn(j)' <=> AloneIn(j)
  BY DEF AloneIn
<1>2. Worked(jobs[j].case)' <=> \E p \in Procs : proc'[p].pc = "running" /\ proc'[p].case = jobs[j].case
  BY DEF Worked, At, Case
<1> QED BY <1>1 DEF StageInv, JobShown

LEMMA StageNext ==
  ASSUME TypeOK, IndexSound, Known, StageInv, [Next]_vars
  PROVE  StageInv'
<1>0. StoreTypeOK /\ StoreMoves /\ FreshRests
  BY StoreMoved DEF TypeOK, StageInv
<1>1. ASSUME \A j \in JobIds : JobShown(j)' /\ (j > created' => jobs'[j].case = 0),
             created' = created \/ created' = created + 1
      PROVE  StageInv'
  <2>1. ASSUME NEW j \in JobIds, j > created' PROVE At(j, "idle")'
    BY <1>0, <1>1, <2>1 DEF StoreTypeOK, StageInv, Fresh, FreshRests
  <2> QED BY <1>1, <2>1 DEF StageInv, Fresh
<1>2. ASSUME NEW c \in CaseIds, create(c), AllGoOn
      PROVE  StageInv'
  <2>1. created' = created + 1
    BY <1>2 DEF create
  <2> QED BY <1>0, <1>1, <1>2, <2>1, StageCreate
<1>3. ASSUME \A i \in JobIds : jobs'[i].case = jobs[i].case, created' = created,
             \A j \in JobIds : JobShown(j)'
      PROVE  StageInv'
  BY <1>1, <1>3 DEF StageInv, Fresh
<1>4. ASSUME NEW j \in JobIds, Stored(j), AloneIn(j), jobs[j].stage = "active",
             \A q \in Procs : Case(q) = jobs[j].case => GoesOn(q)
      PROVE  \E p \in Procs : At(p, "running")' /\ Case(p)' = jobs[j].case
  BY <1>4 DEF StageInv, JobShown, Worked, GoesOn
<1>5. ASSUME UNCHANGED storeVars, AllGoOn
      PROVE  StageInv'
  <2>1. ASSUME NEW j \in JobIds PROVE JobShown(j)'
    <3>1. jobs' = jobs /\ jobs_by_run' = jobs_by_run /\ (Stored(j)' <=> Stored(j))
      BY <1>5 DEF storeVars, Stored
    <3>2. ASSUME Stored(j), AloneIn(j), jobs'[j].stage = "active" PROVE Worked(jobs[j].case)'
      BY <1>4, <1>5, <3>1, <3>2 DEF AllGoOn, Worked
    <3> QED BY <3>1, <3>2, StageSame
  <2> QED BY <1>3, <1>5, <2>1 DEF storeVars
<1>6. ASSUME NEW p \in Procs, NEW stage \in {"active", "completed", "failed"}, Reports(p, stage)
      PROVE  StageInv'
  <2>1. /\ Case(p) \in CaseIds /\ UNCHANGED <<jobs_by_run, created>>
        /\ \A q \in Procs \ {p} : GoesOn(q)
        /\ stage = "active" => At(p, "running")' /\ Case(p)' = Case(p)
    BY <1>6 DEF Reports, stage_hook
  <2>2. \A i \in JobIds :
          /\ jobs'[i].case = jobs[i].case /\ (Stored(i)' <=> Stored(i))
          /\ i # jobs_by_run[Case(p)] => jobs'[i].stage = jobs[i].stage
          /\ i = jobs_by_run[Case(p)] /\ Stored(i) => jobs'[i].stage = stage
    BY <1>0, <1>6 DEF Reports, stage_hook, StoreTypeOK, JobRecord, Stored
  <2>3. ASSUME NEW j \in JobIds PROVE JobShown(j)'
    <3>1. ASSUME Stored(j), AloneIn(j), jobs'[j].stage = "active"
          PROVE  \E q \in Procs : At(q, "running")' /\ Case(q)' = jobs[j].case
      <4>1. jobs[j].case \in CaseIds /\ jobs_by_run[jobs[j].case] = j
        BY <3>1 DEF StageInv, JobShown
      <4>2. CASE jobs[j].case = Case(p)
        BY <2>1, <2>2, <3>1, <4>1, <4>2
      <4>3. CASE jobs[j].case # Case(p)
        <5>1. j # jobs_by_run[Case(p)]
          BY <2>1, <4>1, <4>3 DEF IndexSound
        <5>2. jobs[j].stage = "active"
          BY <2>2, <3>1, <5>1
        <5>3. \A q \in Procs : Case(q) = jobs[j].case => GoesOn(q)
          BY <2>1, <4>3
        <5> QED BY <1>4, <3>1, <5>2, <5>3
      <4> QED BY <4>2, <4>3
    <3>2. Stored(j) /\ AloneIn(j) /\ jobs'[j].stage = "active" => Worked(jobs[j].case)'
      BY <2>2, <3>1 DEF Worked
    <3> QED BY <2>1, <2>2, <3>2, StageSame
  <2> QED BY <1>3, <2>1, <2>2, <2>3
<1>7. ASSUME NEW k \in JobIds, complete(k) \/ fail(k), AllGoOn
      PROVE  StageInv'
  <2>1. UNCHANGED <<jobs_by_run, created>>
    BY <1>7 DEF complete, fail, finish
  <2>2. \A i \in JobIds : /\ jobs'[i].case = jobs[i].case /\ (Stored(i)' <=> Stored(i))
                          /\ jobs'[i].stage = "active" => jobs[i].stage = "active"
    BY <1>0, <1>7 DEF complete, fail, finish, StoreTypeOK, JobRecord, Stored
  <2>3. ASSUME NEW j \in JobIds PROVE JobShown(j)'
    <3>1. Stored(j) /\ AloneIn(j) /\ jobs'[j].stage = "active" => Worked(jobs[j].case)'
      BY <1>4, <1>7, <2>2 DEF AllGoOn, Worked
    <3> QED BY <2>1, <2>2, <3>1, StageSame
  <2> QED BY <1>3, <2>1, <2>2, <2>3
<1>8. ASSUME NEW c \in CaseIds, discard_case(c), AllGoOn
      PROVE  StageInv'
  <2> DEFINE gone == {j \in JobIds : Stored(j) /\ jobs[j].case = c}
  <2>1. /\ jobs' = Drop(jobs, gone) /\ jobs_by_run' = Unmap(jobs, jobs_by_run, gone)
        /\ created' = created
    BY <1>8 DEF discard_case
  <2>2. \A i \in JobIds : /\ jobs'[i].case = jobs[i].case /\ jobs'[i].stage = jobs[i].stage
                          /\ Stored(i)' => Stored(i) /\ jobs[i].case # c
    BY <1>0, <2>1, DropTyped DEF Drop, StoreTypeOK, Stored
  <2>3. ASSUME NEW j \in JobIds PROVE JobShown(j)'
    <3>1. Stored(j)' => jobs_by_run'[jobs[j].case] = jobs_by_run[jobs[j].case]
      BY <2>1, <2>2 DEF Unmap, StageInv, JobShown
    <3>2. Stored(j) /\ AloneIn(j) /\ jobs'[j].stage = "active" => Worked(jobs[j].case)'
      BY <1>4, <1>8, <2>2 DEF AllGoOn, Worked
    <3> QED BY <2>2, <3>1, <3>2, StageSame
  <2> QED BY <1>3, <2>1, <2>2, <2>3
<1>9. CASE Forget
  <2>1. created' = created /\ jobs' = Drop(jobs, JobIds)
    BY <1>9 DEF Forget
  <2>2. \A i \in JobIds : jobs'[i].case = jobs[i].case /\ ~Stored(i)'
    BY <1>0, <2>1, DropTyped DEF StoreTypeOK, Stored
  <2> QED BY <1>3, <2>1, <2>2 DEF JobShown
<1> QED BY <1>0, <1>2, <1>5, <1>6, <1>7, <1>8, <1>9 DEF StoreMoves

(***************************************************************************)
(* A stage reaches the page of the running job, and a page that shows it   *)
(* as active has a process working on the case, whatever the limits of the *)
(* store, unless two jobs share the run (progress.py 61-62, 77-97).        *)
(***************************************************************************)
THEOREM DeskStageShown == Spec => []StageShown
<1> DEFINE I == TypeOK /\ IndexSound /\ Known /\ ReviewInv /\ StageInv
<1>1. I /\ [Next]_vars => I'
  BY TypedNext, ReviewNext, StageNext
<1>2. Init => I
  <2>1. Init => StageInv
    BY IdleTyped DEF Init, StoreInit, StageInv, Fresh, JobShown, Stored, At, Procs
  <2> QED BY <2>1, TypedInit, ReviewInit
<1>3. I => StageShown
  BY StageIsShown
<1> QED
  BY <1>1, <1>2, <1>3, PTL DEF Spec

=============================================================================
