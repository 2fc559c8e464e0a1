# A TLA+ model of AMLGuard-EU

AMLGuard-EU is a research platform in which a language model drafts anti-money-laundering
recommendations and people decide on them. It is one asyncio API process, experiment worker
processes, and a PostgreSQL database that all of them share. This directory models the parts of
it in which several actors touch the same state: the experiment queue and its workers, the audit
chain, the life of one investigation case, the endpoints that open, claim, review and reset cases,
what the recommendations of concurrent cases rest on (tools, policies and evidence), an experiment
run inside one process, and the compliance evaluation of its sessions. TLC checks the models on
small instances; TLAPS proves the most important results for every value of the constants.

Paths below are relative to `src/`, `amlguard/` stands for `src/amlguard/`.

## 1. Inventory

| Component | State | Operations | Hard because | What makes it correct |
|---|---|---|---|---|
| **Experiment queue** `experiments/queue.py` | rows of `experiment.manifests`, `jobs`, `sessions` | schedule, claim, heartbeat, reserve_cost, complete, fail, stop, resume | leases lapse under live tasks; calls carry old snapshots; a call that raises rolls back what it assigned | the ceiling is a hard cap, a result is kept and was paid for, reservations are what the rows hold, no job is stranded |
| **Experiment worker** `experiments/worker.py` | up to `concurrency` tasks, a heartbeat task each | claim loop, `_process`, heartbeat loop | crashes between any two calls, lost acknowledgements, a heartbeat task that dies alone | one task per job while nothing goes wrong; every job ends; every reservation is returned |
| **Audit chain** `governance/audit_chain.py`, `tools/postgres_repository.py: audit` | `audit.events` | audit, verify_chain | READ COMMITTED: a call that waited for the lock goes on with the row it found first; an empty table has no row to lock | the chain never forks, always verifies, flags an altered row, loses nothing it acknowledged |
| **Investigation graph** `graph/builder.py` | a checkpoint, the graph's state, the rows of the case | the nodes, their guard, the routes | nodes work on the state they were called with; a checkpoint is written after the row | nothing is decided that the controls have not passed |
| **Investigation service** `graph/service.py` | the case row, the checkpoint | start, review, supply_information, record_security_event, reset | requests are coroutines and nothing serialises two invocations on one case | a case at rest can be resumed; a block holds; requests leave no case stuck |
| **Hard blocks** `governance/hard_blocks.py` | none | evaluate | | a failed control or a critical event blocks |
| **HTTP API** `api/app.py` | idempotency cache, progress jobs, background tasks | the investigation endpoints of the API and of the user interface | the cache and the case are read before an await and used after it; tasks outlive their request | an alert is started once per tenant; a cached response is the actor's own, of a case that is there |
| **Case access** `auth/case_access.py`, `auth/dependencies.py` | none; the assignments of the case | authorize_case, require_roles, claim | one person may hold several roles; the row is read before the claim is written | nobody decides on a case they started; the documented matrix is what the two layers allow |
| **Progress store** `api/progress.py` | jobs, jobs by run | create, stage_hook, complete, fail, discard_case, prune, shutdown | a job is pruned or discarded while its run goes on | a job runs exactly as long as its task; its page shows the stage of its run |
| **Tools** `tools/service.py` | one list of executions for the whole graph | the four reads, `_record` | the list is read by one case while others append | evidence is the case's own; its trajectory has all its reads, all of them audited |
| **Policy catalogue** `policy/*` | none | loaders, facts, search, search_for_alert, citations | conditions, dates and the limit meet; facts change with each submission | every mapped policy called for is retrieved or the case fails; only those may be cited |
| **Evidence ledger** `evidence/ledger.py` | the evidence in the graph's state | add, validate_recommendation | the ledger grows while drafts cite it | released recommendations cite what is there |
| **In-memory queue** `experiments/queue.py: InMemoryExperimentQueue` | dictionaries of one process | the methods of the PostgreSQL queue | nothing is rolled back when a method raises; a manifest may be replaced under its jobs; attempts of one key share its reservation | the same session ledger; no reservation outlives its work; every session ends |
| **Session handler** `experiments/worker.py: DefaultExperimentJobHandler`, `llm/providers.py` | none | one attempt at a session | errors are told apart by the name of their class, kept in the run | what is stored as a result is what the manifest asks for |
| **ProofAgent evaluation** `evaluation/proofagent_adapter/*`, `evaluation/compliance_summary.py` | the result of each session | evaluate, validate_compliance, summarize_compliance_coverage | runs in a thread for minutes, reads files people edit, attempts of one session race | the summary turns no missing evidence into a pass; no hard block means ready files |
| **Governance readiness** `governance/readiness.py` | `profile.yaml`, `organizational_controls.yaml` | evaluate_governance_readiness, build_runtime_governance_evidence | read once per session, at another moment each time | production is ready only when all it demands is approved |
| Repositories, monitoring, simulation, configuration, scores, templates | see `PROJECT.json` and section 7 | | | |

`PROJECT.json` lists the same components with their status, and under `hazards` every place where
something can go wrong that a test hardly reaches, with the properties that cover it.

## 2. Modules

| Module | Models |
|---|---|
| `SessionLedger` | abstract: one result per key, kept, paid for within a limit |
| `ExperimentQueue` | the queue's tables, one action per transaction |
| `ExperimentWorker` | the workers on top of it (EXTENDS ExperimentQueue) |
| `AppendOnlyLog` | abstract: a gapless log without repetitions |
| `AuditChain` | concurrent calls of `audit` |
| `ReleaseGate` | abstract: pass, decide, release |
| `InvestigationCase` | one case, its checkpoint, concurrent requests |
| `ProgressStore` | the progress records, as operators on two dictionaries |
| `CaseDesk` | the investigation endpoints of one API process (EXTENDS ProgressStore) |
| `CitationLedger` | abstract: evidence is only added, what is put forward stands with what grounds it |
| `PolicyIndex` | the policy catalogue: loaders, facts, retrieval, citations, as operators on sets |
| `CaseGrounding` | what the recommendations of concurrent cases rest on (EXTENDS PolicyIndex) |
| `MemoryQueue` | the in-memory queue: what each method leaves behind, returned or raised |
| `SessionHandler` | what one attempt at a session comes to, as operators |
| `LocalExperiment` | an experiment inside one process (EXTENDS MemoryQueue, SessionHandler) |
| `GovernanceReadiness` | the governance files, their readers, and the people who edit them |
| `ComplianceValidation` | the validation of verdicts and their summary, as operators |
| `ProofAgentReview` | the evaluation of the sessions of an experiment (EXTENDS the last two) |
| `SumLemmas` | theorems about the sums of functions over finite sets |
| `*_proofs` | the theorems of `ExperimentQueue`, `ExperimentWorker`, `AuditChain`, `InvestigationCase`, `CaseDesk`, `CaseGrounding`, `LocalExperiment`, `ProofAgentReview` |
| `MC*` | small instances for TLC |

### 2.1 ExperimentQueue and ExperimentWorker

`manifest`, `job` and `session` are the three tables of one experiment. Every transaction but the
heartbeat locks the manifest row first and the heartbeat is a single UPDATE, so each method is one
atomic action: `Schedule`, `Claim`, `Heartbeat`, `ReserveGranted`/`ReserveRefused`, `Complete`/
`CompleteRefused`, `Fail`, `Stop`, `Resume`. `Database.session` rolls back when the method
raises, hence the refused calls change nothing although the code assigns before it raises. Money
is in millionths of a euro; `ToCents` is the rounding of a `Numeric(14,4)` column. Leases are
`none`, `live` or `expired`, the backoff is `due` or not: the clock moves them with
`LeaseExpires` and `BackoffElapses`.

`task` is the program counter of each slot: `idle → reserve → beat → handle → complete → settle`,
with `fail` as the except branch. The heartbeat task is the field `beat`; a `PermissionError` or a
database error kills it alone. Mishaps are bounded by `MaxMishaps`: `Crash` (all tasks of a
process), `DatabaseError` (the transaction fails, in any call, `fail` included),
`CommitUnacknowledged` (it commits, the caller sees an error), a beat that arrives after the
completion. `HeartbeatsTimely` says whether a live heartbeat task always beats its lease (120 s
against 30 s); with FALSE a lease may lapse under a live task.

What the handler computes is left out here: it returns or raises an error that is retryable or
not; which of the three it does is `SessionHandler`.
The claim order, the backoff delays and the session payload are left out: no property tells them
apart.

### 2.2 AuditChain

A call goes through `Select` (the last row FOR UPDATE), `wait` for its lock, `Insert`, `Commit`.
`top` is the row a call has read and keeps; the unique index on `sequence` makes an insert wait
for a pending one of the same sequence and raise after a committed one. `Sha256` is a constant
operator; the proofs assume nothing of it, the run takes an injective one. The in-memory trail
appends in one step without an await and is therefore the abstract log itself.

### 2.3 InvestigationCase

`status`, `version`, `reviews` are the rows of the case; `thread` is its last checkpoint, with the
node that wrote it and the channels of `InvestigationState` that decide what happens; `run[r]` is
what request `r` is doing, with its own copy of that state. Each node is one action or, where it
writes several rows, one action per write (`save_review`, `SaveEdit`, `Decide`), followed by
`Checkpoint`. `guarded` is `Misfit`/`StageRaises` and `record_failure`. LangGraph itself is
external: a resume goes on at the node that follows the last checkpoint, the payload goes to the
interrupt of that node, a checkpoint follows every node, `aupdate_state` writes in the name of the
last node.

Abstractions: evidence, policies and the text of a recommendation are reduced to what the controls
tell apart (`uncited`, `information`, `final`). The model calls and tools are part of their node
and may raise. Audit calls and trajectory hooks are possible errors of their stage. `get_case` and
the versions it reads are one step. Who may call is decided elsewhere: any request may come from an
administrator. A reset case is not created anew (a new case has a new id). A start that finds a
case which has not FAILED reads only.

### 2.4 ProgressStore and CaseDesk

`proc[p]` is the coroutine `p`: the handler of a request, or the background task of job `p`. Its
`pc` is the await it has reached; between two of them other coroutines go on. A handler reads the
case and is authorised in one step (`_case_for_action`) and acts in a later one
(`assign_reviewer`, `Check` and `Resume`, `delete_case` and `ForgetCase`).
`start_investigation` looks into the idempotency cache, `Select` and `Insert` are the two halves
of `create_case` with the unique constraint between them (`Refused`), `Respond` writes the cache.
`ui_start_investigation` goes on with `FoundCase` and `Spawn`, which creates the job and its task
without an await; the task runs the graph (`BeginRun`, `EndRun`), reads the row and ends its job
(`EndTask`). `create` prunes as the code does. `Restart` empties what a process holds in memory.
The graph is one run that ends with a status `InvestigationCase` can give, or raises.

Which roles and tenant an actor has are constants (`Roles`, `Tenant`). The six stages of a
progress record are reduced to the current one. Pages and read-only endpoints change nothing; the
experiment endpoints are one call of the queue each.

### 2.5 PolicyIndex and CaseGrounding

`PolicyIndex` has no variables. What `load_corpus` and `load_alert_policy_mappings` refuse to
start without is its assumption; `derive_policy_applicability_facts`, `search` and
`search_for_alert` are operators with the code's names. The score of a policy for a query is any
ranking: only the order of the results depends on it. Of the bank's records a `Profile` keeps
what the facts look at; of a submitted value, whether it is absent, blank, null or a text.

`CaseGrounding` takes the nodes of `graph/builder.py` for several cases over one graph, and so
over one list `executions`, since `InvestigationTools` is built once. A tool is two steps,
`_record` (read and append) and `audit`, which is awaited. `select_policies` is part of
`load_and_retrieve` and again of `collect_information`. `trail[c]` is what the trajectory of a
case holds: the executions it reported, how many retrievals, the policies of the last one. The
model writes any recommendation of `Recommendations`. `edited` remembers the cases whose
recommendation a reviewer replaced.

`InvestigationCase` follows when a node runs and what requests do to it; `CaseGrounding` takes the
nodes in their order and follows the data. They share the routes of the graph.

`CitationLedger` is what a case promises about its evidence: `Learn` only adds, `PutForward` makes
a recommendation stand with evidence and policies that cover what it cites, `Approve` freezes all
three, `Replace` stands for the edit of a reviewer, which nothing checks, `Revise` and `Abandon`
take a draft back. The mapping at the end of `CaseGrounding` takes for `known` the evidence ledger,
for `quotable` the policies of the last retrieval that were in force when the alert was created
(`InForce`), and lets a recommendation stand from the moment the validation lets it through: while
the case waits for information or for its reviewer, and once it is completed (`standing`).

### 2.6 MemoryQueue, SessionHandler and LocalExperiment

The API without a database, the command `proofagent evaluate` and the tests use
`InMemoryExperimentQueue`. Its methods are coroutines that never await, so each is one step; they
assign before they raise and nothing rolls back, so `MemoryQueue` says of each what it leaves
behind either way (`CompletionRefused` stops the experiment and returns the reservation).
`claim` meets the jobs in the order of a dictionary: `passed` is the set of abandoned jobs it set
back on its way.

`SessionHandler` has no state. `Obstacles` stop an attempt before the graph; `InferenceError` is
the exception `EdenStructuredLLM` makes of a reply; `GraphEnds` is what `errors[-1]` of a failed
run can name; `Handle` is `__call__` after the graph, with the manifest's `failure_policy`.

`LocalExperiment` puts the worker's tasks and the experiment endpoints on one event loop. A task
has two steps because only the graph and the evaluator give way: `Start*` runs `reserve_cost`,
the first heartbeat and the handler up to the graph, `Finish*` the rest with `complete` or `fail`.
No shipped command runs the worker's loop on this queue; tests do, `test_worker_queue.py` for
one, and the `ExperimentQueue` protocol promises that the two implementations can be exchanged,
which is what the run asks. A lease lapses under a task when the event loop is blocked for as long
as it lasts (`MaxLapses`).

### 2.7 GovernanceReadiness, ComplianceValidation and ProofAgentReview

`GovernanceReadiness` keeps the content of the two files as variables; `ProductionReady` and
`RuntimeEvidence` read them and a finished run. `ComplianceValidation` has no variables:
`CappedStatus`, `Validated`, `Unsupported`, `Worst` are the functions of `compliance_validation.py`
and `compliance_summary.py`. `ProofAgentReview` runs `evaluate` for several attempts at once:
`Begin` (the run's own evidence), `ReadDocuments`, `ReadReadiness`, then `Report` or, from any of
them, `Raise`. Between two steps the files are edited and other attempts, of the same session
too, go on; the first stored evaluation of a session is kept (`Kept`). `seen` remembers what the
files said when they were read. The harness is external and reports anything of `Reports`. Texts,
hashes, prompts, scores and the package written for the harness are left out.

## 3. Runs

| Run | Asks | Bounds |
|---|---|---|
| `worker_safety` | do money, results, reservations and ownership stay consistent, and is the ledger implemented? | two workers of one slot, two jobs (200 and 300 under a ceiling of 700, so that two completions of one job exhaust it), two claims per job, one mishap, untimely heartbeats |
| `worker_liveness` | one task at a time per job without mishaps, and attempts beyond the limit only for mishaps; every job ends and every reservation is returned after one | three slots on two workers, four claims per job, more than two attempts and one reclaim can use |
| `ceiling_pause` | does a refusal for the ceiling pause the experiment? **No** | ceiling 400: the second reservation is refused |
| `succeeded_final` | is SUCCEEDED final? **No** | untimely heartbeats, no mishap |
| `attempts_limit` | is a job attempted at most `max_attempts` times? **No** | `max_attempts` 1, one crash |
| `audit_chain` | does the chain survive racing calls and one broken connection? | four calls: two race for the empty table while a third waits and a fourth comes late |
| `case_safety` | release gate, blocks, resumability, termination | three requests, two at a time, one stage error, one outage |
| `hard_block` | does a recorded block hold whatever is under way? **No** | four requests, no errors |
| `case_desk` | independent review, one start per alert, honest progress pages, a fresh cache, the matrix of access | four actors of two tenants, one of them analyst and reviewer; two handlers and two tasks at a time, three requests, two cases, two jobs with room for one, one restart or failing run |
| `case_grounding` | complete retrieval, accountable trajectories, submissions that only answer; is the ledger of citations implemented? | two cases side by side, the shipped 27 excerpts and mappings, limits 15 and 20, four profiles, two submissions, two rankings |
| `local_experiment` | does the queue without a database keep the same ledger, and does every session end? | two sessions, the two tasks of one worker, three manifests under one id (of different ceilings, estimates, policies and sessions), two attempts, one lapsed lease |
| `compliance_review` | does the summary stay conservative, and does a clear evaluation rest on ready files? | two sessions, two attempts at a time, two controls (one that may be met, one at most partial), three settings, two runs, five reports, one edit |

Each property of a passing run has a mutant in `PROJECT.json`: a definition replaced by what a
plausible bug would make of it, under which TLC finds the property violated.

The bounds are enough in the sense that every action fires in a passing run, every interleaving
of two actors around a lock, a checkpoint or a lease is in them, and the counterexamples found
(by mutants, and by the violation runs) need fewer actors and steps than the bounds allow. The
case was also explored with four requests, one error and one outage (2.3 million states) without
another outcome.

Left out of `case_desk` for its size: cases of the second tenant (its researcher is there to be
refused) and an administrator of another tenant; the theorems about the desk hold for any actors.
In `case_grounding` the profiles call for 7 to 18 mapped policies, so that limit 15 is passed both
at its boundary and above it and limit 20 leaves room for contextual policies; one excerpt is not
yet in force. Two cases are what it takes to share the list of executions.
In `local_experiment` the ceilings refuse a second reservation and, after a manifest was replaced,
a completion; a second attempt of a key, while the first is still away, needs one lapse. In
`compliance_review` an attempt needs one edit between its two readings, or between it and another,
to see different files.

Deadlock is not checked where the system stops: when all calls have ended, or the model's
requests are used up.

### What the violation runs show

* **Ceiling** (`queue.py` 352-358, 381-383): `stop_requested = True` is assigned and then the
  method raises; the session rolls both back. The job fails, the experiment goes on, while
  `docs/research_protocol.md` 146 asks for an automatic stop.
* **Late heartbeat** (`queue.py` 318-327): the UPDATE compares the owner only, and `complete`
  leaves `lease_owner`. When a job was reclaimed and the first task completes late, a beat of the
  second task makes the SUCCEEDED job RUNNING; it is run and charged again. The stored result
  survives (`ResultsKept`, proved), and without mishaps and late beats SUCCEEDED is final
  (`WorkerSucceededStays`, proved).
* **Attempts** (`queue.py` 271-281): an expired lease is reclaimed without a look at
  `max_attempts`. What does hold is `AttemptsPaidFor`: one attempt more for every mishap.
* **Blocks under way** (`builder.py` 367): `validate` sets the status it computed from its own
  copy of the state and so overwrites a `HARD_BLOCKED` recorded meanwhile. A block recorded while
  nothing is under way does hold (`BlockAtRestHolds`).

### Other disagreements met while modelling

These are exceptions in the properties, or behaviours the models show, not runs of their own.

* **Review of a waiting case** (`service.py` 123): a review is accepted while the case waits for
  information, resumes `collect_information` with the wrong payload and leaves the case FAILED,
  which `docs/architecture.md` 439 reserves for technical errors.
* **Reset beside a run** (`service.py` 163): a graph that still runs writes its checkpoint after
  `adelete_thread`, while `docs/architecture.md` 607 says that the checkpoint is deleted.
* **Two jobs of one run** (`progress.py` 61-62, 129-137): `jobs_by_run` has one job per run. When
  a FAILED case is started twice, or an older job of its run is pruned, the running job loses its
  entry and its page stays at the stage it showed (`StageShown` excludes it).
* **A response cached after a reset** (`app.py` 705, 848): a start that is about to respond while
  the reset purges the cache leaves a response of a deleted case, which the purge is there to
  prevent; the same key then answers with a case that does not exist (`raced` in `CacheFresh`).
* **Executions of other cases** (`builder.py` 66, 197): the list of executions is never reset, so
  the trajectory of a case reports the tool calls of all cases before it, while
  `docs/observability.md` 97-99 describes a trajectory as the record of one investigation.
  `TrailAccounts` says what does hold: its own reads are all there.
* **Edits are not validated** (`builder.py` 495-508): the recommendation a reviewer edits is saved
  and the case completed without the controls `docs/architecture.md` 417-420 lists
  (`Replace` in `CitationLedger` lets an edit put anything in its place).
* **A null purpose** (`applicability.py` 135): `str(None)` is not blank, so null counts as a
  purpose that was supplied (`PurposeKnown`).
* **Draft documents** (`compliance_validation.py` 55-59): every registered document counts as
  evidence, whatever its approval status; `docs/proofagent.md` 139-144 says that a draft caps a
  verdict.
* **Attention without evidence** (`CappedStatus`): an `attention` without proof or with missing
  evidence becomes `not_evaluated`, which the summary ignores, so dropping it can improve the
  status of a control, while the docstring of `validate_compliance` promises to cap positive
  verdicts. `SummaryFaithful` asks for the proof.
* **Duplicate checks and absent roles** (`readiness.py` 113): a check passes when any entry with
  its id is approved, and a role absent from `ownership` counts as assigned, while the docstring
  says that missing approvals are not invented (`ReadyFiles`, and the premise of
  `ClearMeansReady`).
* **Readiness of another moment**: the files are read before a harness call of minutes, so a
  stored evaluation may be clear of files that are no longer ready (`seen`).
* **Retries of provider timeouts** (`providers.py` 245-248, `worker.py` 115-120): a timeout of the
  endpoint is an `InferenceServiceError`, and the handler compares class names, so it is stored as
  a failed session and never retried; `docs/architecture.md` 471 and `docs/research_protocol.md`
  141 describe retries.
* **A refused reservation** stops the experiment in the in-memory queue and is rolled back by
  PostgreSQL: the two implementations differ in what `ceiling_pause` is about.

## 4. Fairness

`ExperimentWorker!Fairness`: a task goes on (asyncio), the loop of each worker keeps polling and
claims some job when it can, backoffs and leases run out (time passes). Nothing is assumed of the
researcher: `JobsSettle` is conditional on the experiment not being stopped again and again.
Mishaps are not fair.
`LocalExperiment!Fairness`: every task goes on (`TaskStep`), the loops keep claiming (`ClaimJob`,
`FindNothing`), backoffs pass. Nothing is assumed of the researcher, who may replace the manifest
for ever; `SessionsSettle` is conditional on the experiment not being stopped for ever or again
and again.
`AuditChain!FairSpec`: PostgreSQL goes on with a transaction that waits for nothing.
`InvestigationCase!FairSpec`: the event loop goes on with every request it has begun; requests
need not arrive, stages need not fail. `ComesToRest` holds for executions without an outage; with
one the case may stay OPEN or RUNNING, and no request takes it up again.
`CaseDesk!FairSpec`: the event loop goes on with every background task, the graph included; requests
need not arrive, nor handlers go on. `CaseGrounding` and `ProofAgentReview` state no fairness: a
case may wait for ever for its user, and no promise is made about the harness returning.

## 5. Proofs

The theorems hold for any number of jobs, workers, slots, calls, requests, and any bounds; the
assumptions are those named in the modules (`QueueAssumption`, `WorkerAssumption`,
`ChainAssumption`, `CaseAssumption`, `StoreAssumption`, `DeskAssumption`, `PolicyAssumption`,
`GroundingAssumption`, `MemoryAssumption`, `LocalAssumption`, `ResultAssumption`,
`ReadinessAssumption`, `ValidationAssumption`, `ReviewAssumption`), which TLC evaluates in the runs.

* **Queue.** `QueueInv` adds to the cap on `spent` that success has its result and a leased row
  its owner and lease. It is inductive by itself; the arithmetic of rounding is in
  `RoundingLemma`, `ChargedLemma`, `ReleasedLemma`: a cost that fits under a ceiling of whole
  cents fits after rounding. `QueueImplementsLedger` follows from the invariant and one case per
  action. `QueueBooksBalance` takes `BooksInv`, which adds that a row holds nothing or its
  estimate: with estimates in whole cents (a premise of the property) no total is rounded
  (`WholeLemma`), and each call moves the totals by what it moves in one row (`HeldMoves`,
  `WorthMoves`). A manifest has finitely many jobs, hence `IsFiniteSet(Jobs)` in
  `QueueAssumption`.
* **Sums.** `SumLemmas` proves of the community modules' `SumFunction` what the books need: a sum
  is an integer, changes by what one summand changes, and is zero when all summands are. The fold
  is defined by recursion over finite sets; instead of induction each proof takes a smallest
  counterexample (`Smallest`, from well-foundedness of strict inclusion) and refutes it.
* **Worker.** `WorkerInv` says that a task's snapshot is not newer than its row and that the newest
  snapshot owns it; it is what makes every call of a task a call `QueueNext` allows, and so
  `WorkerImplementsQueue`. All safety properties of the queue carry over from there, the ledger
  included. `WorkerOneTaskPerJob` needs more: `LoneInv`, while nothing went wrong and heartbeats are
  timely, says that a busy slot owns its row with a live lease until the row is SUCCEEDED or failed,
  so that no claim can take the job from it. With `LoneInv`, `WorkerSucceededStays` and
  `WorkerChargedOnce` follow: without mishaps a completed row stays completed and each result is
  charged exactly once, the two things the violation runs show to be lost otherwise.
  `WorkerAttemptsPaidFor` needs a count, `TallyInv`: the attempts of a job, and one more if a claim
  is owed (`Owed`: the row waits, or is leased and minded by no task), are at most one, plus the
  attempt numbers below `max_attempts` that no task works on any more (`Gone`), plus the mishaps. A
  claim uses what was owed; a task that sets its row to RETRY_WAIT adds its own number to `Gone`; a
  crash, a failed transaction or a late beat pays with a mishap. Without counting per attempt number
  the invariant is not inductive, since an outdated task may set the row of a newer one back to
  RETRY_WAIT.
* **Audit chain.** `ChainInv`: every row continues its predecessor, and of the calls whose insert
  was accepted at most one stands at the end of the table. The second half is why a commit cannot
  fork the chain although several calls have read the same row.
* **Case.** `GateInv`: whatever is about to enter the review (the checkpoint, or a running copy)
  has a version that passed the controls, and an edit or decision follows a saved review of its
  version. `CaseImplementsGate` is the refinement of `ReleaseGate`. `CaseRestIsResumable` rests on
  `SeqInv`: as long as requests came one after the other, without an outage, at most one is under
  way (`Sequential`), what it carries is on its way to a place the checkpoint allows (`Going`,
  `Outgoing`), and at rest row and checkpoint agree (`Rests`). `CaseBlockAtRestHolds` starts from a
  blocked case at rest: from there only security events and a reset are let in (`Held`), none of
  which enters the graph, which is what a block recorded beside a running graph lacks.
  `CaseReleasesCurrent` says that a completed case has released its last version: the approved
  one, or the edit saved with its approval. Unlike `CaseRestIsResumable` it holds through outages
  and crashes, after which row and checkpoint may disagree, so it has an invariant of its own,
  `ReleaseInv`: the checkpoint enters the review, or the controls unless they are going to block,
  only with the last version or one that has its review already (`Enterable`), which no review
  decides on again; a running request works on what the checkpoint says (`InStep`); and the
  checkpoint of a completed case enters nothing but the review it has behind it (`Closed`). The
  theorem is about requests that come one after the other: two that overlap may both run the
  graph, and the case then ends COMPLETED with a later draft of the other.
* **Desk.** `ReviewInv`: whoever is about to be assigned, or is assigned, may review the case, and
  whoever is about to decide is the one assigned. It needs `Known`: the case a coroutine holds
  exists, and a deleted one stays deleted. `Independent`, `Stays`, `Sound` and `JobsAreTasks`
  follow with one lemma per group of steps. `DeskStartedOnce` needs `OnePerTenant` (the unique
  constraint), `FailedNoted` and `LaunchedOnce`: of the processes about to start a case that has
  not FAILED there is one. `DeskCacheFresh` takes `CacheInv`, which names the three excuses a
  response of a deleted case can have; `DeskStageShown` takes `StageInv`: a job number that was not
  given out yet is unused (`Fresh`), a job that is alone with its run is the one its run reports to
  (`JobShown`), and `StoreMoves` bounds what a step does to the store.
* **Local experiment.** `LocalInv` is the types of the dictionaries and tasks, with what a task
  knows of its job and its manifest. From it follow `LocalComparisonsComplete` (through
  `HandlerResults`: whatever the handler returns has the evaluation its policy demands),
  `LocalReservationsWorked` and `LocalImplementsLedger`, the refinement of the same
  `SessionLedger` the PostgreSQL queue implements.
  `LocalCommitmentsCovered` takes `BudgetInv`: as long as no lease has lapsed, a task has its job to
  itself and a handler at work its reservation (`Undisturbed`); as long as no manifest was replaced,
  jobs, reservations and handlers go by its estimates (`ByTheManifest`); only scheduled jobs are
  worked on (`Known`), and before the schedule there is nothing to account for (`Unscheduled`). The
  totals then move with the rows as in `BooksInv`. `LocalAttemptsPaidFor` counts the
  lapses, row by row (`AttemptsCounted`): a row that a claim can take has fewer attempts than
  `max_attempts` and the lapses so far, since the lapse that lets a leased row be taken back
  counts; `claim_job` itself does not look at the attempts, only `fail` does. `LocalChargedOnce` adds up the prices of the
  results (`WorthOfResults`): `spent` is never less, and while no lease lapses a completion finds
  its job without a result (`Undisturbed`) and charges it once, by the manifest its handler read.
* **Compliance review.** `ReviewInv` adds to the types that an attempt past its readings knows
  what the files it saw say (`AttemptsSound`) and that a stored evaluation is one made of some
  report and such an attempt (`EvaluationsSound`). `WorstIsWorst` characterises the summary;
  `ReviewTriageOnlyWorsens` follows since stored evaluations are never replaced.
* **Grounding.** `IInv`: past the load, facts, policies and trajectory of a case are those of its
  present evidence (`Retrieved`), what is released was checked against them, and a refusal means
  more mapped policies than the limit. `Same` says that a step of one case leaves the others
  alone but for the two lists, which only grow. `FactsTrue` shows that merging the submissions
  in order derives exactly the facts that are so; it takes the last submission of a field by
  well-foundedness (`Largest`). `GroundingRetrievalComplete` also counts:
  `FirstCounts` says that the first n of a ranked finite set are n or all of it, by the bijection
  between its elements and their ranks; `SearchFills` uses that no configured limit passes the 20
  results `search_for_alert` asks `search` for (`config.py` 48, `retrieval.py` 174).
  `GroundingImplementsCitations` is the refinement of `CitationLedger` for any number of cases,
  profiles and submissions. It needs `Shelf`: nothing is known before the load, what the tools
  read is the case's own, and only a completed case was edited. A step of one case must leave the
  entries of the others alone (`EntryFrame`, `EntryKept`), whatever it appends to the list all
  cases share.

Only model-checked: liveness (`JobsSettle`, `EveryCallEnds`, `ComesToRest`, `JobsEnd`,
`SessionsSettle`), since fairness and ENABLED are out of the prover's reach. Every invariant and
every action property of a passing run is a theorem.

## 6. Plan

Next, in this order:

1. a composition of `CaseDesk` and `InvestigationCase`, to carry `BlockAtRestHolds` over resets and
   new cases;
2. denied and prohibited tool calls, and the in-memory repository.

## 7. Not modelled

* **Scores and analysis** (`evaluation/deterministic.py`, `analysis.py`, `capability.py`,
  `judges.py`): floating-point arithmetic on finished sessions, without state.
* **Simulation** (`simulation/*`): one seeded computation of synthetic records. The API and the
  command line inject several scenarios into one bank, where a later scenario of a customer can
  replace the KYC record of an earlier one; workers generate a bank per session.
* **Configuration and command line**: settings are read once and the commands call the other parts
  once. `get_settings` is cached, so the kill switch a worker looks at (`worker.py` 319) never
  changes while the process runs; there is no behaviour to check beyond that constant.
* **Manifest validation** other than the coherence of the proofagent section and the costs: each
  field on its own.
* **Templates, migrations, logs, metrics, redaction**: presentation or observational; the
  constraints of the schema are in the models that rely on them.
* **The language model, the harness, LangGraph, PostgreSQL** are external: any recommendation, any
  report, checkpoints and transactions as the code relies on them.
