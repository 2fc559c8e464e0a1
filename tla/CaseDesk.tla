------------------------------- MODULE CaseDesk -------------------------------
(***************************************************************************)
(* The investigation endpoints of one API process: who may do what, the    *)
(* cases of one alert as they are opened, claimed, reviewed, reset and     *)
(* opened again, the idempotency cache and the progress jobs.              *)
(*                                                                         *)
(* A handler is a coroutine: it reads the case, is authorised, and acts    *)
(* after further awaits, when other handlers and the background tasks of   *)
(* the user interface have moved on.  What the graph does inside a case is *)
(* InvestigationCase; here a run of it begins, ends with some status, or   *)
(* raises.                                                                 *)
(***************************************************************************)
EXTENDS ProgressStore

CONSTANTS
  Actors,
  Roles,           \* [Actors -> SUBSET RoleNames]
  Tenant,          \* [Actors -> tenants], the tenant claim
  Keys,            \* Idempotency-Key values
  Handlers,        \* bound of the model: requests under way at the same time
  Nobody,          \* assigned_reviewer_id IS NULL, or no actor
  MaxRequests,     \* bound of the model: requests made in all
  MaxOutages       \* bound of the model: runs that raise, restarts

RoleNames == {"analyst", "reviewer", "researcher", "administrator"}

ASSUME DeskAssumption ==
  /\ Roles \in [Actors -> SUBSET RoleNames]
  /\ DOMAIN Tenant = Actors
  /\ Handlers \in Nat
  /\ Nobody \notin Actors
  /\ MaxRequests \in Nat /\ MaxOutages \in Nat

VARIABLES
  cases,           \* [CaseIds -> [status, tenant, investigator, reviewer]]
  opened,          \* cases opened so far
  idempotency,     \* [Actors \X Keys -> the case of the cached response, 0 if none]
  proc,            \* [Requests \cup JobIds -> what a handler, or the task of a job, does]
  requests,
  outages,
  decisions,       \* history: who decided on which case
  failed,          \* history: the cases that have been FAILED
  raced            \* history: cases whose reset ended beside a start about to respond

rows == <<cases, opened>>
bounds == <<requests, outages>>
history == <<decisions, failed, raced>>
vars == <<storeVars, rows, idempotency, proc, bounds, history>>

Requests == (MaxJobs + 1)..(MaxJobs + Handlers)
Procs == Requests \cup JobIds
Active == {"OPEN", "RUNNING", "REWORK_REQUIRED"}
Outcomes ==
  {"WAITING_FOR_INFORMATION", "WAITING_FOR_HUMAN_REVIEW", "HARD_BLOCKED", "FAILED"}
CaseStatus == Active \cup Outcomes \cup {"COMPLETED"}

Live(c) == cases[c].status \in CaseStatus

-----------------------------------------------------------------------------
(***************************************************************************)
(* require_roles of each route.                                            *)
(***************************************************************************)
RouteRoles(action) ==
  CASE action \in {"start", "supply_information", "reset"} -> {"analyst", "reviewer"}
    [] action \in {"claim_review", "review"} -> {"reviewer"}
    [] action = "read_case" -> {"analyst", "reviewer", "researcher"}
    [] action = "read_trace" -> {"researcher"}

require_roles(a, action) ==
  "administrator" \in Roles[a] \/ Roles[a] \cap RouteRoles(action) # {}

(***************************************************************************)
(* authorize_case; mutants that forget the investigator, and that take a   *)
(* participant for the assigned reviewer.                                  *)
(***************************************************************************)
MutantSelfClaim(a, case, action) ==
  \/ "administrator" \in Roles[a]
  \/ /\ Tenant[a] = case.tenant
     /\ CASE action = "claim_review" -> "reviewer" \in Roles[a]
          [] action = "review" -> "reviewer" \in Roles[a] /\ a = case.reviewer
          [] action = "read_trace" -> "researcher" \in Roles[a]
          [] action = "read_case" ->
               "researcher" \in Roles[a] \/ a \in {case.investigator, case.reviewer}
          [] action = "supply_information" -> a \in {case.investigator, case.reviewer}
          [] action = "reset" -> a = case.investigator

MutantResetByReviewer(a, case, action) ==
  \/ "administrator" \in Roles[a]
  \/ /\ Tenant[a] = case.tenant
     /\ CASE action = "claim_review" -> "reviewer" \in Roles[a] /\ a # case.investigator
          [] action = "review" -> "reviewer" \in Roles[a] /\ a = case.reviewer
          [] action = "read_trace" -> "researcher" \in Roles[a]
          [] action = "read_case" ->
               "researcher" \in Roles[a] \/ a \in {case.investigator, case.reviewer}
          [] action \in {"supply_information", "reset"} ->
               a \in {case.investigator, case.reviewer}

authorize_case(a, case, action) ==
  \/ "administrator" \in Roles[a]
  \/ /\ Tenant[a] = case.tenant
     /\ CASE action = "claim_review" -> "reviewer" \in Roles[a] /\ a # case.investigator
          [] action = "review" -> "reviewer" \in Roles[a] /\ a = case.reviewer
          [] action = "read_trace" -> "researcher" \in Roles[a]
          [] action = "read_case" ->
               "researcher" \in Roles[a] \/ a \in {case.investigator, case.reviewer}
          [] action = "supply_information" -> a \in {case.investigator, case.reviewer}
          [] action = "reset" -> a = case.investigator

Allowed(a, c, action) == require_roles(a, action) /\ authorize_case(a, cases[c], action)

-----------------------------------------------------------------------------
Pc == {"idle", "look", "insert", "found", "spawn", "run", "running", "read", "respond",
       "complete", "error", "assign", "check", "resume", "delete", "forget"}
Kind == {"start", "ui", "task", "claim_review", "review", "supply_information", "reset"}
Proc ==
  [pc: Pc, kind: Kind, actor: Actors \cup {Nobody}, key: Keys \cup {Nobody},
   case: {0} \cup CaseIds]

Idle == [pc |-> "idle", kind |-> "start", actor |-> Nobody, key |-> Nobody, case |-> 0]

At(p, pc) == proc[p].pc = pc
Actor(p) == proc[p].actor
Case(p) == proc[p].case
Goto(p, pc) == proc' = [proc EXCEPT ![p].pc = pc]
Takes(p, c, pc) ==
  proc' = [proc EXCEPT ![p] = [pc |-> pc, kind |-> proc[p].kind, actor |-> Actor(p),
                              key |-> proc[p].key, case |-> c]]
Ends(p) == proc' = [proc EXCEPT ![p] = Idle]

(***************************************************************************)
(* Handlers are alike: a request takes the first that is free.             *)
(***************************************************************************)
FirstFree(p) == At(p, "idle") /\ \A q \in Requests : q < p => ~At(q, "idle")

(***************************************************************************)
(* An exception: the handler answers 500, the task of a job reports it; a  *)
(* mutant: nobody does.                                                    *)
(***************************************************************************)
MutantUnreported(p) == Ends(p)
Raises(p) == IF proc[p].kind = "task" THEN Goto(p, "error") ELSE Ends(p)

Begins(p, kind, a, key, c, pc) ==
  /\ FirstFree(p)
  /\ requests < MaxRequests
  /\ requests' = requests + 1
  /\ proc' = [proc EXCEPT ![p] = [pc |-> pc, kind |-> kind, actor |-> a, key |-> key, case |-> c]]

SetStatus(c, s) ==
  /\ cases' = [cases EXCEPT ![c].status = s]
  /\ opened' = opened
  /\ failed' = IF s = "FAILED" THEN failed \cup {c} ELSE failed

-----------------------------------------------------------------------------
(***************************************************************************)
(* POST /investigations: a cached response is returned at once.  The form  *)
(* of the user interface has no key.                                       *)
(***************************************************************************)
start_investigation(p, a, k) ==
  /\ require_roles(a, "start")
  /\ idempotency[<<a, k>>] = 0
  /\ Begins(p, "start", a, k, 0, "look")
  /\ UNCHANGED <<storeVars, rows, idempotency, outages, history>>

ui_start_investigation(p, a) ==
  /\ require_roles(a, "start")
  /\ Begins(p, "ui", a, Nobody, 0, "look")
  /\ UNCHANGED <<storeVars, rows, idempotency, outages, history>>

(***************************************************************************)
(* create_case: SELECT the case of the alert and the tenant, then INSERT,  *)
(* which the unique constraint refuses when another one was quicker.  A    *)
(* mutant without the constraint.                                          *)
(***************************************************************************)
Existing(a) == {c \in CaseIds : Live(c) /\ cases[c].tenant = Tenant[a]}

Select(p) ==
  /\ At(p, "look")
  /\ \/ Existing(Actor(p)) = {} /\ Goto(p, "insert")
     \/ \E c \in Existing(Actor(p)) :
          IF cases[c].investigator # Actor(p) THEN Ends(p)
          ELSE Takes(p, c, IF proc[p].kind = "start" THEN "read" ELSE "found")
  /\ UNCHANGED <<storeVars, rows, idempotency, bounds, history>>

MutantNoConstraint(a) == FALSE
Refused(a) == Existing(a) # {}

Insert(p) ==
  /\ At(p, "insert")
  /\ \/ /\ Refused(Actor(p))
        /\ Ends(p)
        /\ UNCHANGED rows
     \/ /\ ~Refused(Actor(p))
        /\ opened < MaxCases
        /\ opened' = opened + 1
        /\ cases' = [cases EXCEPT ![opened + 1] =
             [status |-> "OPEN", tenant |-> Tenant[Actor(p)], investigator |-> Actor(p),
              reviewer |-> Nobody]]
        /\ Takes(p, opened + 1, IF proc[p].kind = "start" THEN "run" ELSE "spawn")
  /\ UNCHANGED <<storeVars, idempotency, bounds, history>>

(***************************************************************************)
(* The user interface starts an existing case again only when it FAILED,   *)
(* and runs the graph in a background task.  Mutants: whatever the status  *)
(* is; in the handler itself.                                              *)
(***************************************************************************)
MutantStartsAgain(c) == Live(c)
StartsAgain(c) == cases[c].status = "FAILED"

FoundCase(p) ==
  /\ At(p, "found")
  /\ IF StartsAgain(Case(p)) THEN Goto(p, "spawn") ELSE Ends(p)
  /\ UNCHANGED <<storeVars, rows, idempotency, bounds, history>>

MutantAwaits(p) ==
  /\ At(p, "spawn")
  /\ create(Case(p))
  /\ Goto(p, "run")
  /\ UNCHANGED <<rows, idempotency, bounds, history>>

Spawn(p) ==
  /\ At(p, "spawn")
  /\ create(Case(p))
  /\ proc' = [proc EXCEPT
       ![p] = Idle,
       ![created + 1] = [proc[p] EXCEPT !.kind = "task", !.pc = "run"]]
  /\ UNCHANGED <<rows, idempotency, bounds, history>>

-----------------------------------------------------------------------------
(***************************************************************************)
(* A run of the graph, of a start, a task or a resume.  It begins with     *)
(* set_status, which raises when the row is gone.                          *)
(***************************************************************************)
BeginRun(p) ==
  /\ At(p, "run")
  /\ \/ /\ Live(Case(p))
        /\ SetStatus(Case(p), "RUNNING")
        /\ stage_hook(Case(p), "active")
        /\ Goto(p, "running")
     \/ /\ ~Live(Case(p))
        /\ stage_hook(Case(p), "failed")
        /\ Raises(p)
        /\ UNCHANGED <<rows, failed>>
  /\ UNCHANGED <<idempotency, bounds, decisions, raced>>

EndRun(p) ==
  /\ At(p, "running")
  /\ \/ /\ Live(Case(p))
        /\ \E s \in Outcomes :
             /\ SetStatus(Case(p), s)
             /\ stage_hook(Case(p), IF s = "FAILED" THEN "failed" ELSE "completed")
        /\ IF proc[p].kind \in {"start", "task"} THEN Goto(p, "read") ELSE Ends(p)
     \/ /\ ~Live(Case(p))
        /\ stage_hook(Case(p), "failed")
        /\ Raises(p)
        /\ UNCHANGED <<rows, failed>>
  /\ UNCHANGED <<idempotency, bounds, decisions, raced>>

(***************************************************************************)
(* The database fails where the graph cannot record it.                    *)
(***************************************************************************)
RunRaises(p) ==
  /\ At(p, "running")
  /\ outages < MaxOutages
  /\ outages' = outages + 1
  /\ stage_hook(Case(p), "failed")
  /\ Raises(p)
  /\ UNCHANGED <<rows, idempotency, requests, history>>

(***************************************************************************)
(* _to_run reads the row, then the checkpoint.                             *)
(***************************************************************************)
ReadRow(p) ==
  /\ At(p, "read")
  /\ IF ~Live(Case(p)) THEN Raises(p)
     ELSE Goto(p, IF proc[p].kind = "task" THEN "complete" ELSE "respond")
  /\ UNCHANGED <<storeVars, rows, idempotency, bounds, history>>

Respond(p) ==
  /\ At(p, "respond")
  /\ idempotency' = [idempotency EXCEPT ![<<Actor(p), proc[p].key>>] = Case(p)]
  /\ Ends(p)
  /\ UNCHANGED <<storeVars, rows, bounds, history>>

EndTask(p) ==
  /\ p \in JobIds
  /\ \/ At(p, "complete") /\ complete(p)
     \/ At(p, "error") /\ fail(p)
  /\ Ends(p)
  /\ UNCHANGED <<rows, idempotency, bounds, history>>

-----------------------------------------------------------------------------
(***************************************************************************)
(* The other endpoints: _case_for_action reads the row and authorises the  *)
(* actor; a claim also looks at the status it has read.                    *)
(***************************************************************************)
_case_for_action(p, a, action, c) ==
  /\ Live(c)
  /\ Allowed(a, c, action)
  /\ action = "claim_review" => cases[c].status = "WAITING_FOR_HUMAN_REVIEW"
  /\ Begins(p, action, a, Nobody, c, IF action = "claim_review" THEN "assign" ELSE "check")
  /\ UNCHANGED <<storeVars, rows, idempotency, outages, history>>

(***************************************************************************)
(* assign_reviewer locks the row; a mutant that does not compare.          *)
(***************************************************************************)
MutantReassigns(p) == TRUE
Assignable(p) == cases[Case(p)].reviewer \in {Nobody, Actor(p)}

assign_reviewer(p) ==
  /\ At(p, "assign")
  /\ cases' = IF Live(Case(p)) /\ Assignable(p)
              THEN [cases EXCEPT ![Case(p)].reviewer = Actor(p)] ELSE cases
  /\ Ends(p)
  /\ UNCHANGED <<storeVars, opened, idempotency, bounds, history>>

(***************************************************************************)
(* The checks of review, supply_information and reset in the engine, which *)
(* reads the row again.                                                    *)
(***************************************************************************)
Accepted(p) ==
  LET s == cases[Case(p)].status IN
  CASE proc[p].kind = "review" -> Live(Case(p)) /\ s # "HARD_BLOCKED"
    [] proc[p].kind = "supply_information" -> s = "WAITING_FOR_INFORMATION"
    [] proc[p].kind = "reset" -> Live(Case(p)) /\ s \notin {"OPEN", "RUNNING"}

Check(p) ==
  /\ At(p, "check")
  /\ IF ~Accepted(p) THEN Ends(p)
     ELSE Goto(p, IF proc[p].kind = "reset" THEN "delete" ELSE "resume")
  /\ UNCHANGED <<storeVars, rows, idempotency, bounds, history>>

(***************************************************************************)
(* The graph is resumed.  A review may decide when the case waits for it,  *)
(* or is by now being worked on; rework and information run on.            *)
(***************************************************************************)
Decides(p) ==
  /\ proc[p].kind = "review"
  /\ cases[Case(p)].status \in Active \cup {"WAITING_FOR_HUMAN_REVIEW"}
  /\ decisions' = decisions \cup {[case |-> Case(p), actor |-> Actor(p)]}
  /\ \/ /\ SetStatus(Case(p), "COMPLETED")
        /\ stage_hook(Case(p), "completed")
        /\ Ends(p)
     \/ /\ SetStatus(Case(p), "REWORK_REQUIRED")
        /\ stage_hook(Case(p), "active")
        /\ Goto(p, "running")

Informs(p) ==
  /\ proc[p].kind = "supply_information"
  /\ cases[Case(p)].status \in Active \cup {"WAITING_FOR_INFORMATION"}
  /\ SetStatus(Case(p), "RUNNING")
  /\ stage_hook(Case(p), "active")
  /\ Goto(p, "running")
  /\ UNCHANGED decisions

Misfits(p) ==
  /\ <<proc[p].kind, cases[Case(p)].status>> \in
       {<<"review", "WAITING_FOR_INFORMATION">>,
        <<"supply_information", "WAITING_FOR_HUMAN_REVIEW">>}
  /\ SetStatus(Case(p), "FAILED")
  /\ stage_hook(Case(p), "failed")
  /\ Ends(p)
  /\ UNCHANGED decisions

NothingLeft(p) ==
  /\ cases[Case(p)].status \notin
       Active \cup {"WAITING_FOR_INFORMATION", "WAITING_FOR_HUMAN_REVIEW"}
  /\ Ends(p)
  /\ UNCHANGED <<storeVars, rows, decisions, failed>>

Resume(p) ==
  /\ At(p, "resume")
  /\ Decides(p) \/ Informs(p) \/ Misfits(p) \/ NothingLeft(p)
  /\ UNCHANGED <<idempotency, bounds, raced>>

(***************************************************************************)
(* reset: the row is deleted, then the checkpoint; then the jobs and the   *)
(* cached responses of the case are dropped.                               *)
(***************************************************************************)
delete_case(p) ==
  /\ At(p, "delete")
  /\ IF Live(Case(p))
     THEN /\ cases' = [cases EXCEPT ![Case(p)].status = "DELETED"]
          /\ Goto(p, "forget")
     ELSE Ends(p) /\ UNCHANGED cases
  /\ UNCHANGED <<storeVars, opened, idempotency, bounds, history>>

MutantKeepsCache(c) == idempotency
Purged(c) == [x \in Actors \X Keys |-> IF idempotency[x] = c THEN 0 ELSE idempotency[x]]

ForgetCase(p) ==
  LET c == Case(p) IN
  /\ At(p, "forget")
  /\ discard_case(c)
  /\ idempotency' = Purged(c)
  /\ raced' = IF \E q \in Requests : At(q, "respond") /\ Case(q) = c
              THEN raced \cup {c} ELSE raced
  /\ Ends(p)
  /\ UNCHANGED <<rows, bounds, decisions, failed>>

(***************************************************************************)
(* The process ends, its tasks are cancelled, and comes back.              *)
(***************************************************************************)
Restart ==
  /\ \E p \in Procs : ~At(p, "idle")
  /\ outages < MaxOutages
  /\ outages' = outages + 1
  /\ Forget
  /\ idempotency' = [x \in Actors \X Keys |-> 0]
  /\ proc' = [p \in Procs |-> Idle]
  /\ UNCHANGED <<rows, requests, history>>

-----------------------------------------------------------------------------
Init ==
  /\ StoreInit
  /\ cases = [c \in CaseIds |-> [status |-> "ABSENT", tenant |-> Nobody,
                                 investigator |-> Nobody, reviewer |-> Nobody]]
  /\ opened = 0
  /\ idempotency = [x \in Actors \X Keys |-> 0]
  /\ proc = [p \in Procs |-> Idle]
  /\ requests = 0 /\ outages = 0
  /\ decisions = {} /\ failed = {} /\ raced = {}

Arrives(p) ==
  \E a \in Actors :
    \/ \E k \in Keys : start_investigation(p, a, k)
    \/ ui_start_investigation(p, a)
    \/ \E action \in {"claim_review", "review", "supply_information", "reset"}, c \in CaseIds :
         _case_for_action(p, a, action, c)

ProcStep(p) ==
  \/ Select(p) \/ Insert(p) \/ FoundCase(p) \/ Spawn(p)
  \/ BeginRun(p) \/ EndRun(p) \/ ReadRow(p) \/ Respond(p) \/ EndTask(p)
  \/ assign_reviewer(p) \/ Check(p) \/ Resume(p)
  \/ delete_case(p) \/ ForgetCase(p)

Next ==
  \/ \E p \in Requests : Arrives(p)
  \/ \E p \in Procs : ProcStep(p) \/ RunRaises(p)
  \/ Restart

Spec == Init /\ [][Next]_vars

(***************************************************************************)
(* The event loop goes on with every task it has begun; of the handlers    *)
(* nothing is assumed.                                                     *)
(***************************************************************************)
FairSpec == Spec /\ \A j \in JobIds : WF_vars(ProcStep(j))

-----------------------------------------------------------------------------
(***************************************************************************)
(* Properties.                                                             *)
(***************************************************************************)

(***************************************************************************)
(* Type invariant, with what each kind of process does: the graph runs in  *)
(* a task, or for the handler of a start or a resume, never in the handler *)
(* of the user interface's start (app.py 219-250, 568-612).                *)
(***************************************************************************)
CaseRecord ==
  [status: CaseStatus \cup {"ABSENT", "DELETED"},
   tenant: {Nobody} \cup {Tenant[a] : a \in Actors},
   investigator: Actors \cup {Nobody}, reviewer: Actors \cup {Nobody}]

UiPc == {"look", "insert", "found", "spawn"}
TaskPc == {"run", "running", "read", "complete", "error"}

ProcOK ==
  /\ proc \in [Procs -> Proc]
  /\ \A p \in Procs :
       IF At(p, "idle") THEN proc[p] = Idle
       ELSE /\ Actor(p) \in Actors
            /\ proc[p].kind = "task" <=> p \in JobIds
            /\ proc[p].kind = "ui" => proc[p].pc \in UiPc
            /\ proc[p].kind = "task" => proc[p].pc \in TaskPc

TypeOK ==
  /\ StoreTypeOK
  /\ cases \in [CaseIds -> CaseRecord]
  /\ opened \in 0..MaxCases
  /\ idempotency \in [Actors \X Keys -> {0} \cup CaseIds]
  /\ ProcOK

(***************************************************************************)
(* Review is independent: whoever has decided on a case is an              *)
(* administrator, or a reviewer of its tenant to whom the review is        *)
(* assigned and who did not start the case, however claims, reviews and    *)
(* resets interleave (docs/architecture.md 100-101; app.py 744, 902).      *)
(***************************************************************************)
IndependentReview ==
  \A d \in decisions :
    \/ "administrator" \in Roles[d.actor]
    \/ /\ "reviewer" \in Roles[d.actor]
       /\ cases[d.case].tenant = Tenant[d.actor]
       /\ cases[d.case].reviewer = d.actor
       /\ cases[d.case].investigator # d.actor

(***************************************************************************)
(* A case keeps its reviewer: of two claims that have both seen the case   *)
(* unassigned only one succeeds (postgres_repository.py 312-322).          *)
(***************************************************************************)
ReviewerStays ==
  [][\A c \in CaseIds :
       cases[c].reviewer # Nobody => cases'[c].reviewer = cases[c].reviewer]_vars

(***************************************************************************)
(* One alert has one case per tenant, and its graph is started once, by a  *)
(* request or by a task, unless it has FAILED: concurrent starts with the  *)
(* same key or without one do not run it twice (app.py 568-612, 819-850).  *)
(***************************************************************************)
Starting(p) == proc[p].kind \in {"start", "task"} /\ proc[p].pc \in {"run", "running"}

StartedOnce ==
  /\ \A c, d \in CaseIds :
       c # d /\ Live(c) /\ Live(d) => cases[c].tenant # cases[d].tenant
  /\ \A p, q \in Procs :
       p # q /\ Starting(p) /\ Starting(q) /\ Case(p) = Case(q) => Case(p) \in failed

(***************************************************************************)
(* A progress page never waits for nobody: a job is running exactly as     *)
(* long as its task is, through prunes and restarts; only a reset takes    *)
(* the job away from its task (app.py 219-250, progress.py 122-137).       *)
(***************************************************************************)
JobsHaveTasks ==
  \A j \in JobIds :
    /\ Running(j) => ~At(j, "idle") /\ Case(j) = jobs[j].case
    /\ ~At(j, "idle") => Running(j) \/ (~Stored(j) /\ ~Live(Case(j)))

(***************************************************************************)
(* Progress is sound: the index of runs points at jobs of its run, and a   *)
(* running job has the task that will end it, through prunes, resets and   *)
(* restarts (progress.py 61-137, app.py 219-250).                          *)
(***************************************************************************)
ProgressSound == IndexSound /\ JobsHaveTasks

(***************************************************************************)
(* The stages of the graph reach the page of the running job, and no page  *)
(* shows a stage as active when nobody works on the case, unless the case  *)
(* was started again: two jobs then share one run, and the end of one      *)
(* unmaps the other (progress.py 61-62, 77-97).                            *)
(***************************************************************************)
StageShown ==
  \A j \in JobIds :
    Stored(j) /\ (\A i \in JobIds \ {j} : jobs[i].case # jobs[j].case) =>
      /\ Running(j) => jobs_by_run[jobs[j].case] = j
      /\ jobs[j].stage = "active" =>
           \E p \in Procs : At(p, "running") /\ Case(p) = jobs[j].case

(***************************************************************************)
(* A cached response is the actor's own case, and not of a case that was   *)
(* reset, unless a start was about to respond as the reset purged the      *)
(* cache (app.py 700-709, 827-848).                                        *)
(***************************************************************************)
CacheFresh ==
  \A a \in Actors, k \in Keys :
    LET c == idempotency[<<a, k>>] IN
    c # 0 => /\ cases[c].investigator = a
             /\ \/ Live(c)
                \/ c \in raced
                \/ \E p \in Requests : At(p, "forget") /\ Case(p) = c

(***************************************************************************)
(* The two layers of authorisation, roles per route and the case, allow    *)
(* what the authorisation matrix says (docs/architecture.md 600-616).      *)
(***************************************************************************)
Documented(a, case, action) ==
  LET assigned == a \in {case.investigator, case.reviewer}
      tenant == Tenant[a] = case.tenant
      cell(role) ==
        CASE action = "reset" -> role \in {"analyst", "reviewer"} /\ a = case.investigator
          [] action = "read_case" -> IF role = "researcher" THEN tenant ELSE assigned
          [] action = "supply_information" -> role \in {"analyst", "reviewer"} /\ assigned
          [] action = "claim_review" -> role = "reviewer" /\ tenant /\ a # case.investigator
          [] action = "review" -> role = "reviewer" /\ a = case.reviewer
          [] action = "read_trace" -> role = "researcher" /\ tenant
  IN \E role \in Roles[a] : role = "administrator" \/ cell(role)

AccessAsDocumented ==
  \A c \in CaseIds :
    Live(c) =>
      \A a \in Actors, action \in {"reset", "read_case", "supply_information",
                                   "claim_review", "review", "read_trace"} :
        Allowed(a, c, action) <=> Documented(a, cases[c], action)

(***************************************************************************)
(* Every progress job ends.                                                *)
(***************************************************************************)
JobsEnd == \A j \in JobIds : Running(j) ~> ~Running(j)

=============================================================================
