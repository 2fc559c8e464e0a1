--------------------------- MODULE InvestigationCase ---------------------------
(***************************************************************************)
(* One investigation case: its rows in PostgreSQL, the checkpoint of its   *)
(* graph, and the requests of LangGraphInvestigationEngine that work on    *)
(* them in one API process (start, review, supply_information, reset,      *)
(* record_security_event).                                                 *)
(*                                                                         *)
(* The requests are coroutines: between two awaits any other request may   *)
(* run, and nothing serialises two invocations of the graph on one case.   *)
(* An invocation reads the checkpoint once, works on its own copy of the   *)
(* graph's state, and writes a checkpoint after every node.                *)
(***************************************************************************)
EXTENDS Integers

CONSTANTS
  Requests,        \* the requests that may be under way at the same time
  MaxRequests,     \* bound of the model: requests made in all
  MaxErrors,       \* bound of the model: errors that stages raise
  MaxOutages       \* bound of the model: crashes, and errors that escape a stage

ASSUME CaseAssumption ==
  /\ MaxErrors \in Nat /\ MaxOutages \in Nat /\ MaxRequests \in Nat

VARIABLES
  status,          \* cases.status; ABSENT before the row exists, DELETED after
  version,         \* the last version in recommendations
  reviews,         \* human_reviews: [version, action]
  thread,          \* the last checkpoint: [last: the node that wrote it, st: state]
  run,             \* [Requests -> what the request is doing]
  requests,        \* requests made so far
  errors,
  outages,
  passed,          \* history: the versions that passed the controls
  overlapped,      \* history: two requests were under way at the same time
  settled          \* history: a security event, a reset that returned

case == <<status, version, reviews>>
faults == <<errors, outages>>
history == <<passed, overlapped, settled>>
vars == <<case, thread, run, requests, faults, history>>

Approvals == {"APPROVE", "EDIT_AND_APPROVE"}
ReviewAction == Approvals \cup {"REJECT_AND_REQUEST_REWORK"}
CaseStatus ==
  {"OPEN", "RUNNING", "WAITING_FOR_INFORMATION", "WAITING_FOR_HUMAN_REVIEW",
   "REWORK_REQUIRED", "COMPLETED", "FAILED", "HARD_BLOCKED"}
Nodes == {"load", "draft", "validate", "collect", "review"}

(***************************************************************************)
(* What validate_controls tells apart of a recommendation: a citation that *)
(* is unknown or missing, a request for information, any other.            *)
(***************************************************************************)
RecommendationKind == {"uncited", "information", "final"}

(***************************************************************************)
(* InvestigationState, reduced to the channels that decide what happens.   *)
(***************************************************************************)
State ==
  [status: CaseStatus, version: Nat, kind: RecommendationKind \cup {"none"},
   security: BOOLEAN]

NoThread ==
  [last |-> "none",
   st |-> [status |-> "OPEN", version |-> 0, kind |-> "none", security |-> FALSE]]

Pc == {"idle", "invoke", "resume", "node", "edit", "decide", "checkpoint", "failing",
       "security", "block", "reset", "forget"}
Quiet == \A r \in Requests : run[r].pc = "idle"
Exists == status \in CaseStatus

-----------------------------------------------------------------------------
(***************************************************************************)
(* The edges of the graph, the route functions of builder.py.              *)
(***************************************************************************)
route_after_stage(st, next) == IF st.status = "FAILED" THEN "end" ELSE next

route_after_validation(st) ==
  IF st.status \in {"FAILED", "HARD_BLOCKED"} THEN "end"
  ELSE IF st.status = "WAITING_FOR_INFORMATION" THEN "collect" ELSE "review"

route_after_review(st) == IF st.status = "REWORK_REQUIRED" THEN "draft" ELSE "end"

Route(last, st) ==
  CASE last = "start"               -> "load"
    [] last \in {"load", "collect"} -> route_after_stage(st, "draft")
    [] last = "draft"               -> route_after_stage(st, "validate")
    [] last = "validate"            -> route_after_validation(st)
    [] last = "review"              -> route_after_review(st)
    [] OTHER                        -> "none"

Interrupts == {"collect", "review"}

-----------------------------------------------------------------------------
(***************************************************************************)
(* The steps of a request.                                                 *)
(***************************************************************************)
At(r, pc) == run[r].pc = pc
Goto(r, pc) == run' = [run EXCEPT ![r].pc = pc]

RequestType ==
  [pc: Pc, arg: ReviewAction \cup {"none", "start", "information", "security", "reset"},
   at: Nodes, st: State, out: State]
Idle ==
  [pc |-> "idle", arg |-> "none", at |-> "load", st |-> NoThread.st, out |-> NoThread.st]
Ends(r) == run' = [run EXCEPT ![r] = Idle]
Settles(r, arg) == Ends(r) /\ settled' = settled \cup {arg}

Enters(r, node, st) ==
  run' = [run EXCEPT ![r] = [Idle EXCEPT !.pc = "node", !.arg = run[r].arg,
                                         !.at = node, !.st = st]]

Begin(r, arg, pc) ==
  /\ At(r, "idle")
  /\ requests < MaxRequests
  /\ requests' = requests + 1
  /\ overlapped' = (overlapped \/ ~Quiet)
  /\ run' = [run EXCEPT ![r] = [@ EXCEPT !.pc = pc, !.arg = arg]]

(***************************************************************************)
(* The node has done its last write; out is the state it returns.          *)
(***************************************************************************)
Returns(r, out) == run' = [run EXCEPT ![r] = [@ EXCEPT !.pc = "checkpoint", !.out = out]]

Fails(r) == run' = [run EXCEPT ![r] = [@ EXCEPT !.pc = "failing", !.out = NoThread.st]]

InNode(r, node) == At(r, "node") /\ run[r].at = node
St(r) == run[r].st

(***************************************************************************)
(* prepare: the case is created, or is there and, for the form of the user *)
(* interface, is started again when it has FAILED.                         *)
(***************************************************************************)
Start(r) ==
  /\ status \in {"ABSENT", "FAILED"}
  /\ Begin(r, "start", "invoke")
  /\ status' = IF status = "ABSENT" THEN "OPEN" ELSE status
  /\ UNCHANGED <<version, reviews, thread, faults, passed, settled>>

(***************************************************************************)
(* run_prepared: a fresh input for the thread of the case; the channels it *)
(* does not name keep their values.                                        *)
(***************************************************************************)
Invoke(r) ==
  LET input == [thread.st EXCEPT !.status = "OPEN", !.security = FALSE] IN
  /\ At(r, "invoke")
  /\ thread' = [last |-> "start", st |-> input]
  /\ Enters(r, "load", input)
  /\ UNCHANGED <<case, requests, faults, history>>

(***************************************************************************)
(* review: refused for a blocked case and for a stale version; the client  *)
(* names a version, any but the last one is refused.  The case is reviewed *)
(* by an administrator, or by the reviewer who has claimed it.             *)
(***************************************************************************)
MutantReviewsBlocked(r, action) ==
  /\ Exists
  /\ version > 0
  /\ Begin(r, action, "resume")
  /\ UNCHANGED <<case, thread, faults, passed, settled>>

Review(r, action) ==
  /\ Exists /\ status # "HARD_BLOCKED"
  /\ version > 0
  /\ Begin(r, action, "resume")
  /\ UNCHANGED <<case, thread, faults, passed, settled>>

supply_information(r) ==
  /\ status = "WAITING_FOR_INFORMATION"
  /\ Begin(r, "information", "resume")
  /\ UNCHANGED <<case, thread, faults, passed, settled>>

(***************************************************************************)
(* ainvoke(Command(resume=...)): the invocation goes on from the last      *)
(* checkpoint, at whatever node that is; the thread may have ended (a      *)
(* no-op) or be gone (an error).                                           *)
(***************************************************************************)
Resume(r) ==
  LET next == Route(thread.last, thread.st) IN
  /\ At(r, "resume")
  /\ IF next \in {"none", "end"} THEN Ends(r) ELSE Enters(r, next, thread.st)
  /\ UNCHANGED <<case, thread, requests, faults, history>>

-----------------------------------------------------------------------------
(***************************************************************************)
(* The nodes.  The row of the case must be there for their writes.         *)
(*                                                                         *)
(* load_and_retrieve marks the case RUNNING and then calls its tools.      *)
(***************************************************************************)
load_and_retrieve(r) ==
  /\ InNode(r, "load") /\ Exists
  /\ status' = "RUNNING"
  /\ Returns(r, [St(r) EXCEPT !.status = "RUNNING"])
  /\ UNCHANGED <<version, reviews, thread, requests, faults, history>>

(***************************************************************************)
(* draft: the model recommends something, save_recommendation numbers it.  *)
(***************************************************************************)
MutantDraftKeepsVersion(r, kind) ==
  /\ InNode(r, "draft") /\ Exists
  /\ version' = version + 1
  /\ Returns(r, [St(r) EXCEPT !.kind = kind])
  /\ UNCHANGED <<status, reviews, thread, requests, faults, history>>

draft(r, kind) ==
  /\ InNode(r, "draft") /\ Exists
  /\ version' = version + 1
  /\ Returns(r, [St(r) EXCEPT !.version = version + 1, !.kind = kind])
  /\ UNCHANGED <<status, reviews, thread, requests, faults, history>>

(***************************************************************************)
(* validate, with HardBlockEvaluator.  A mutant that does not save the     *)
(* status.                                                                 *)
(***************************************************************************)
MutantIgnoresCitations(st) == st.security
Blocked(st) == st.kind = "uncited" \/ st.security

MutantWritesDecision(st) == IF Blocked(st) THEN "BLOCKED" ELSE "READY"

Outcome(st) ==
  IF Blocked(st) THEN "HARD_BLOCKED"
  ELSE IF st.kind = "information" THEN "WAITING_FOR_INFORMATION"
  ELSE "WAITING_FOR_HUMAN_REVIEW"

(***************************************************************************)
(* The result of the node, and the history of the versions without a       *)
(* failed control or a critical event.                                     *)
(***************************************************************************)
Controlled(r) ==
  /\ Returns(r, [St(r) EXCEPT !.status = Outcome(St(r))])
  /\ passed' = IF St(r).kind = "uncited" \/ St(r).security THEN passed
               ELSE passed \cup {St(r).version}

MutantSavesNoStatus(r) ==
  /\ InNode(r, "validate") /\ Exists
  /\ Controlled(r)
  /\ UNCHANGED <<case, thread, requests, faults, overlapped, settled>>

validate(r) ==
  /\ InNode(r, "validate") /\ Exists
  /\ status' = Outcome(St(r))
  /\ Controlled(r)
  /\ UNCHANGED <<version, reviews, thread, requests, faults, overlapped, settled>>

(***************************************************************************)
(* collect_information, after its interrupt; the audit comes first.        *)
(***************************************************************************)
collect_information(r) ==
  /\ InNode(r, "collect") /\ Exists
  /\ run[r].arg = "information"
  /\ status' = "RUNNING"
  /\ Returns(r, [St(r) EXCEPT !.status = "RUNNING"])
  /\ UNCHANGED <<version, reviews, thread, requests, faults, history>>

(***************************************************************************)
(* human_review, after its interrupt: save_review of the version of the    *)
(* graph's state, the edited recommendation, the status.                   *)
(***************************************************************************)
Reviewed(v) == \E d \in reviews : d.version = v

save_review(r) ==
  /\ InNode(r, "review") /\ Exists
  /\ run[r].arg \in ReviewAction
  /\ ~Reviewed(St(r).version)
  /\ reviews' = reviews \cup {[version |-> St(r).version, action |-> run[r].arg]}
  /\ Goto(r, IF run[r].arg = "EDIT_AND_APPROVE" THEN "edit" ELSE "decide")
  /\ UNCHANGED <<status, version, thread, requests, faults, history>>

SaveEdit(r) ==
  /\ At(r, "edit") /\ Exists
  /\ version' = version + 1
  /\ Goto(r, "decide")
  /\ UNCHANGED <<status, reviews, thread, requests, faults, history>>

Decision(action) == IF action \in Approvals THEN "COMPLETED" ELSE "REWORK_REQUIRED"

Decide(r) ==
  /\ At(r, "decide") /\ Exists
  /\ status' = Decision(run[r].arg)
  /\ Returns(r, [St(r) EXCEPT !.status = Decision(run[r].arg)])
  /\ UNCHANGED <<version, reviews, thread, requests, faults, history>>

(***************************************************************************)
(* A resume that does not fit its interrupt (a review without information, *)
(* information without a review), or the second review of a version.       *)
(***************************************************************************)
Misfit(r) ==
  /\ \/ InNode(r, "collect") /\ run[r].arg # "information"
     \/ InNode(r, "review") /\ run[r].arg \notin ReviewAction
     \/ InNode(r, "review") /\ Reviewed(St(r).version)
  /\ Fails(r)
  /\ UNCHANGED <<case, thread, requests, faults, history>>

(***************************************************************************)
(* Any other error of a stage, before or after its writes.                 *)
(***************************************************************************)
StageRaises(r) ==
  /\ run[r].pc \in {"node", "edit", "decide", "checkpoint"}
  /\ errors < MaxErrors
  /\ errors' = errors + 1
  /\ Fails(r)
  /\ UNCHANGED <<case, thread, requests, outages, history>>

(***************************************************************************)
(* guarded calls record_failure, and the node returns FAILED.              *)
(***************************************************************************)
record_failure(r) ==
  /\ At(r, "failing") /\ Exists
  /\ status' = "FAILED"
  /\ Returns(r, [St(r) EXCEPT !.status = "FAILED"])
  /\ UNCHANGED <<version, reviews, thread, requests, faults, history>>

(***************************************************************************)
(* The graph writes its checkpoint and goes to the next node; it returns   *)
(* at an interrupt and at the end.                                         *)
(***************************************************************************)
Checkpoint(r) ==
  LET next == Route(run[r].at, run[r].out) IN
  /\ At(r, "checkpoint")
  /\ thread' = [last |-> run[r].at, st |-> run[r].out]
  /\ IF next \in Interrupts \cup {"end"} THEN Ends(r)
     ELSE Enters(r, next, run[r].out)
  /\ UNCHANGED <<case, requests, faults, history>>

-----------------------------------------------------------------------------
(***************************************************************************)
(* record_security_event: the last checkpoint is updated in the name of    *)
(* its node, then the row.                                                 *)
(***************************************************************************)
record_security_event(r) ==
  /\ Exists
  /\ Begin(r, "security", "security")
  /\ UNCHANGED <<case, thread, faults, passed, settled>>

UpdateState(r) ==
  /\ At(r, "security")
  /\ thread' = [last |-> IF thread.last = "none" THEN "start" ELSE thread.last,
                st |-> [thread.st EXCEPT !.status = "HARD_BLOCKED", !.security = TRUE]]
  /\ Goto(r, "block")
  /\ UNCHANGED <<case, requests, faults, history>>

Block(r) ==
  /\ At(r, "block") /\ Exists
  /\ status' = "HARD_BLOCKED"
  /\ Settles(r, "security")
  /\ UNCHANGED <<version, reviews, thread, requests, faults, passed, overlapped>>

(***************************************************************************)
(* reset: refused while the case is OPEN or RUNNING; delete_case, then     *)
(* adelete_thread, whose errors are suppressed.                            *)
(***************************************************************************)
reset(r) ==
  /\ Exists /\ status \notin {"OPEN", "RUNNING"}
  /\ Begin(r, "reset", "reset")
  /\ UNCHANGED <<case, thread, faults, passed, settled>>

delete_case(r) ==
  /\ At(r, "reset") /\ Exists
  /\ status' = "DELETED" /\ version' = 0 /\ reviews' = {} /\ passed' = {}
  /\ Goto(r, "forget")
  /\ UNCHANGED <<thread, requests, faults, overlapped, settled>>

MutantKeepsThread(r) ==
  /\ At(r, "forget")
  /\ Settles(r, "reset")
  /\ UNCHANGED <<case, thread, requests, faults, passed, overlapped>>

adelete_thread(r) ==
  /\ At(r, "forget")
  /\ thread' = NoThread
  /\ Settles(r, "reset")
  /\ UNCHANGED <<case, requests, faults, passed, overlapped>>

-----------------------------------------------------------------------------
(***************************************************************************)
(* The row is gone: the write raises, and so does record_failure.          *)
(***************************************************************************)
RowIsGone(r) ==
  /\ ~Exists
  /\ run[r].pc \in {"node", "edit", "decide", "failing", "block", "reset"}
  /\ Ends(r)
  /\ UNCHANGED <<case, thread, requests, faults, history>>

(***************************************************************************)
(* The database fails where nothing handles it (adelete_thread is where    *)
(* something does), or the process crashes.                                *)
(***************************************************************************)
OutageHits(r) ==
  /\ ~At(r, "idle") /\ outages < MaxOutages
  /\ outages' = outages + 1
  /\ Ends(r)
  /\ UNCHANGED <<case, thread, requests, errors, history>>

Crash ==
  /\ ~Quiet /\ outages < MaxOutages
  /\ outages' = outages + 1
  /\ run' = [r \in Requests |-> Idle]
  /\ UNCHANGED <<case, thread, requests, errors, history>>

-----------------------------------------------------------------------------
Init ==
  /\ status = "ABSENT" /\ version = 0 /\ reviews = {}
  /\ thread = NoThread
  /\ run = [r \in Requests |-> Idle]
  /\ requests = 0 /\ errors = 0 /\ outages = 0
  /\ passed = {} /\ overlapped = FALSE /\ settled = {}

Arrives(r) ==
  \/ Start(r)
  \/ \E action \in ReviewAction : Review(r, action)
  \/ supply_information(r)
  \/ record_security_event(r)
  \/ reset(r)

GraphStep(r) ==
  \/ Invoke(r) \/ Resume(r)
  \/ load_and_retrieve(r)
  \/ \E kind \in RecommendationKind : draft(r, kind)
  \/ validate(r)
  \/ collect_information(r)
  \/ save_review(r) \/ SaveEdit(r) \/ Decide(r)
  \/ Misfit(r) \/ record_failure(r)
  \/ Checkpoint(r)

RequestStep(r) ==
  \/ GraphStep(r)
  \/ UpdateState(r) \/ Block(r)
  \/ delete_case(r) \/ adelete_thread(r)
  \/ RowIsGone(r)

Next ==
  \/ \E r \in Requests : Arrives(r) \/ RequestStep(r) \/ StageRaises(r) \/ OutageHits(r)
  \/ Crash

Spec == Init /\ [][Next]_vars

(***************************************************************************)
(* The event loop goes on with every request it has begun; requests need   *)
(* not arrive and stages need not fail.                                    *)
(***************************************************************************)
FairSpec == Spec /\ \A r \in Requests : WF_vars(RequestStep(r))

-----------------------------------------------------------------------------
(***************************************************************************)
(* Properties.                                                             *)
(***************************************************************************)

(***************************************************************************)
(* Type invariant.                                                         *)
(***************************************************************************)
TypeOK ==
  /\ status \in CaseStatus \cup {"ABSENT", "DELETED"}
  /\ version \in Nat
  /\ \A d \in reviews : d.version \in Nat /\ d.action \in ReviewAction
  /\ thread \in [last: Nodes \cup {"none", "start"}, st: State]
  /\ run \in [Requests -> RequestType]
  /\ requests \in Nat /\ errors \in Nat /\ outages \in Nat
  /\ passed \subseteq Nat /\ overlapped \in BOOLEAN
  /\ settled \subseteq {"security", "reset"}

(***************************************************************************)
(* The case implements the release gate: whatever requests race, no        *)
(* version is decided before the controls passed it, none twice, and the   *)
(* case is COMPLETED only on an approval (builder.py 261-511).             *)
(***************************************************************************)
Gate == INSTANCE ReleaseGate
          WITH Actions <- ReviewAction, decided <- reviews, released <- status = "COMPLETED"

GateSpec == Gate!GateSpec

(***************************************************************************)
(* A block holds when nothing was under way as it was recorded: no later   *)
(* request brings the case to another status, but for its reset            *)
(* (service.py 123-131, 142, 185-230).                                     *)
(***************************************************************************)
BlockAtRestHolds ==
  [](status = "HARD_BLOCKED" /\ Quiet => [](status \in {"HARD_BLOCKED", "DELETED"}))

(***************************************************************************)
(* Without outages, and with requests one after the other, row and         *)
(* checkpoint agree whenever nothing is under way: a case that waits can   *)
(* be resumed at the interrupt it waits for, with its last version; a      *)
(* failed or completed one has no node left to run, a blocked one nobody   *)
(* to ask; a case that was reset has no checkpoint (service.py 123-183).   *)
(***************************************************************************)
NextNode == Route(thread.last, thread.st)

RestIsResumable ==
  Quiet /\ outages = 0 /\ ~overlapped =>
    /\ Exists => status = thread.st.status
    /\ status = "WAITING_FOR_INFORMATION" => NextNode = "collect"
    /\ status = "WAITING_FOR_HUMAN_REVIEW" => NextNode = "review"
    /\ status = "HARD_BLOCKED" => NextNode \notin Interrupts
    /\ status \in {"FAILED", "COMPLETED"} => NextNode = "end"
    /\ NextNode \in Interrupts => thread.st.version = version /\ ~Reviewed(version)
    /\ status = "DELETED" => NextNode = "none"

(***************************************************************************)
(* Without outages the requests end, and leave the case neither OPEN nor   *)
(* RUNNING nor in REWORK_REQUIRED, where it could not be reset or would be *)
(* waiting for a draft that nobody makes.                                  *)
(***************************************************************************)
ComesToRest ==
  [](outages = 0) =>
    <>[](Quiet /\ status \notin {"OPEN", "RUNNING", "REWORK_REQUIRED"})

(***************************************************************************)
(* Recording a critical event changes the case to HARD_BLOCKED, a          *)
(* non-reviewable decision: from then on the case neither waits for a      *)
(* review nor is it approved (docs/architecture.md 417-427).               *)
(***************************************************************************)
HardBlockHolds ==
  "security" \in settled => status \notin {"WAITING_FOR_HUMAN_REVIEW", "COMPLETED"}

=============================================================================
