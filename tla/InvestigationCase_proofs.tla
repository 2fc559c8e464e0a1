------------------------ MODULE InvestigationCase_proofs ------------------------
(***************************************************************************)
(* Proofs about an investigation case, for any number of requests under    *)
(* way and any number of errors, outages and crashes.                      *)
(***************************************************************************)
EXTENDS InvestigationCase, TLAPS

(***************************************************************************)
(* The types that a step relies on: those of the checkpoint and of the     *)
(* requests.                                                               *)
(***************************************************************************)
Typed ==
  /\ status \in CaseStatus \cup {"ABSENT", "DELETED"}
  /\ version \in Nat
  /\ thread \in [last: Nodes \cup {"none", "start"}, st: State]
  /\ run \in [Requests -> RequestType]

USE DEF Approvals, ReviewAction, CaseStatus, Nodes, RecommendationKind, Pc

LEMMA NoThreadTyped == NoThread \in [last: Nodes \cup {"none", "start"}, st: State]
BY DEF NoThread, State

LEMMA IdleTyped == Idle \in RequestType
BY NoThreadTyped DEF Idle, RequestType, NoThread, State

LEMMA RouteTyped ==
  ASSUME NEW last, NEW st
  PROVE  Route(last, st) \in Nodes \cup {"none", "end"}
BY DEF Route, route_after_stage, route_after_validation, route_after_review

(***************************************************************************)
(* How the request that makes a step changes.                              *)
(***************************************************************************)
LEMMA RunTyped ==
  ASSUME Typed, NEW r \in Requests
  PROVE  /\ \A pc \in Pc : Goto(r, pc) => run' \in [Requests -> RequestType]
         /\ Ends(r) => run' \in [Requests -> RequestType]
         /\ Fails(r) => run' \in [Requests -> RequestType]
         /\ \A out \in State : Returns(r, out) => run' \in [Requests -> RequestType]
         /\ \A node \in Nodes, st \in State :
              Enters(r, node, st) => run' \in [Requests -> RequestType]
<1>0. run \in [Requests -> RequestType] /\ Idle \in RequestType /\ NoThread.st \in State
  BY IdleTyped DEF Typed, NoThread, State
<1>1. \A pc \in Pc : Goto(r, pc) => run' \in [Requests -> RequestType]
  BY <1>0 DEF Goto, RequestType
<1>2. Ends(r) => run' \in [Requests -> RequestType]
  BY <1>0 DEF Ends
<1>3. Fails(r) => run' \in [Requests -> RequestType]
  <2>1. [run[r] EXCEPT !.pc = "failing", !.out = NoThread.st] \in RequestType
    <3> DEFINE none == NoThread.st
    <3>1. none \in State /\ run[r] \in RequestType
      BY <1>0
    <3> HIDE DEF none
    <3>2. [run[r] EXCEPT !.pc = "failing", !.out = none] \in RequestType
      BY <3>1 DEF RequestType
    <3> QED BY <3>2 DEF none
  <2> QED BY <1>0, <2>1 DEF Fails
<1>4. ASSUME NEW out \in State, Returns(r, out) PROVE run' \in [Requests -> RequestType]
  <2>1. [run[r] EXCEPT !.pc = "checkpoint", !.out = out] \in RequestType
    <3>1. run[r] \in RequestType
      BY <1>0
    <3> QED BY <3>1 DEF RequestType
  <2> QED BY <1>0, <1>4, <2>1 DEF Returns
<1>5. ASSUME NEW node \in Nodes, NEW st \in State, Enters(r, node, st)
      PROVE  run' \in [Requests -> RequestType]
  <2>1. [Idle EXCEPT !.pc = "node", !.arg = run[r].arg, !.at = node, !.st = st] \in RequestType
    BY <1>0 DEF RequestType
  <2> QED BY <1>0, <1>5, <2>1 DEF Enters
<1> QED BY <1>1, <1>2, <1>3, <1>4, <1>5

(***************************************************************************)
(* The state of the graph that a step of a node writes.                    *)
(***************************************************************************)
LEMMA StateTyped ==
  ASSUME NEW st \in State, NEW s \in CaseStatus, NEW v \in Nat,
         NEW kind \in RecommendationKind, NEW b \in BOOLEAN
  PROVE  /\ [st EXCEPT !.status = s] \in State
         /\ [st EXCEPT !.status = s, !.security = b] \in State
         /\ [st EXCEPT !.version = v, !.kind = kind] \in State
BY DEF State

LEMMA TypedInit == Init => Typed
BY NoThreadTyped, IdleTyped DEF Init, Typed

(***************************************************************************)
(* Arrivals, and the steps outside the graph.                              *)
(***************************************************************************)
LEMMA TypedArrives ==
  ASSUME Typed, NEW r \in Requests, Arrives(r)
  PROVE  Typed'
<1>1. ASSUME NEW arg \in ReviewAction \cup {"start", "information", "security", "reset"},
             NEW pc \in Pc, Begin(r, arg, pc)
      PROVE  run' \in [Requests -> RequestType]
  <2>1. [run[r] EXCEPT !.pc = pc, !.arg = arg] \in RequestType
    <3>1. run[r] \in RequestType
      BY DEF Typed
    <3> QED BY <3>1 DEF RequestType
  <2> QED BY <1>1, <2>1 DEF Begin, Typed
<1>2. CASE Start(r)
  BY <1>1, <1>2 DEF Start, Typed
<1>3. ASSUME NEW action \in ReviewAction, Review(r, action) PROVE Typed'
  BY <1>1, <1>3 DEF Review, Typed, case
<1>4. CASE supply_information(r)
  BY <1>1, <1>4 DEF supply_information, Typed, case
<1>5. CASE record_security_event(r)
  BY <1>1, <1>5 DEF record_security_event, Typed, case
<1>6. CASE reset(r)
  BY <1>1, <1>6 DEF reset, Typed, case
<1> QED BY <1>2, <1>3, <1>4, <1>5, <1>6 DEF Arrives

LEMMA TypedRequestStep ==
  ASSUME Typed, NEW r \in Requests, RequestStep(r)
  PROVE  Typed'
<1>0. /\ St(r) \in State /\ run[r].out \in State /\ run[r].at \in Nodes
      /\ thread.st \in State /\ thread.last \in Nodes \cup {"none", "start"}
      /\ version \in Nat /\ version + 1 \in Nat
      /\ thread \in [last: Nodes \cup {"none", "start"}, st: State]
      /\ status \in CaseStatus \cup {"ABSENT", "DELETED"}
  BY DEF Typed, RequestType, St
<1>1. CASE Invoke(r)
  <2> DEFINE input == [thread.st EXCEPT !.status = "OPEN", !.security = FALSE]
  <2>1. input \in State
    BY <1>0, StateTyped
  <2>2. thread' = [last |-> "start", st |-> input] /\ Enters(r, "load", input)
        /\ UNCHANGED <<status, version>>
    BY <1>1 DEF Invoke, case
  <2> HIDE DEF input
  <2>3. run' \in [Requests -> RequestType]
    BY <2>1, <2>2, RunTyped
  <2> QED BY <1>0, <2>1, <2>2, <2>3 DEF Typed
<1>2. CASE Resume(r)
  <2>1. UNCHANGED <<status, version, thread>>
    BY <1>2 DEF Resume, case
  <2>2. Ends(r) \/ \E node \in Nodes : Enters(r, node, thread.st)
    BY <1>2, RouteTyped DEF Resume
  <2>3. run' \in [Requests -> RequestType]
    BY <1>0, <2>2, RunTyped
  <2> QED BY <1>0, <2>1, <2>3 DEF Typed
<1>3. CASE load_and_retrieve(r) \/ collect_information(r) \/ validate(r) \/ Decide(r)
           \/ record_failure(r)
  <2>1. \E s \in CaseStatus : Returns(r, [St(r) EXCEPT !.status = s]) /\ status' = s
    BY <1>3 DEF load_and_retrieve, collect_information, validate, Controlled, Outcome, Decide,
                Decision, record_failure
  <2>2. run' \in [Requests -> RequestType]
    BY <1>0, <2>1, StateTyped, RunTyped
  <2>3. UNCHANGED <<version, thread>>
    BY <1>3 DEF load_and_retrieve, collect_information, validate, Decide, record_failure
  <2> QED BY <1>0, <2>1, <2>2, <2>3 DEF Typed
<1>4. ASSUME NEW kind \in RecommendationKind, draft(r, kind) PROVE Typed'
  <2>1. Returns(r, [St(r) EXCEPT !.version = version + 1, !.kind = kind])
        /\ version' = version + 1 /\ UNCHANGED <<status, thread>>
    BY <1>4 DEF draft
  <2>2. [St(r) EXCEPT !.version = version + 1, !.kind = kind] \in State
    BY <1>0, StateTyped
  <2>3. run' \in [Requests -> RequestType]
    BY <2>1, <2>2, RunTyped
  <2> QED BY <1>0, <2>1, <2>3 DEF Typed
<1>5. CASE save_review(r) \/ SaveEdit(r) \/ Misfit(r)
  <2>1. /\ Fails(r) \/ \E pc \in Pc : Goto(r, pc)
        /\ version' \in {version, version + 1} /\ UNCHANGED <<status, thread>>
    BY <1>5 DEF save_review, SaveEdit, Misfit, case
  <2>2. run' \in [Requests -> RequestType]
    BY <2>1, RunTyped
  <2> QED BY <1>0, <2>1, <2>2 DEF Typed
<1>6. CASE Checkpoint(r)
  <2>1. UNCHANGED <<status, version>> /\ thread' = [last |-> run[r].at, st |-> run[r].out]
    BY <1>6 DEF Checkpoint, case
  <2>2. Route(run[r].at, run[r].out) # "none"
    BY <1>0 DEF Route, route_after_stage, route_after_validation, route_after_review
  <2>3. Ends(r) \/ \E node \in Nodes : Enters(r, node, run[r].out)
    BY <1>6, <2>2, RouteTyped DEF Checkpoint
  <2>4. run' \in [Requests -> RequestType]
    BY <1>0, <2>3, RunTyped
  <2> QED BY <1>0, <2>1, <2>4 DEF Typed
<1>7. CASE UpdateState(r)
  <2>1. [thread.st EXCEPT !.status = "HARD_BLOCKED", !.security = TRUE] \in State
    BY <1>0, StateTyped
  <2>2. run' \in [Requests -> RequestType]
    BY <1>7, RunTyped DEF UpdateState
  <2>3. thread' \in [last: Nodes \cup {"none", "start"}, st: State]
    BY <1>0, <1>7, <2>1 DEF UpdateState
  <2>4. UNCHANGED <<status, version>>
    BY <1>7 DEF UpdateState, case
  <2> QED BY <1>0, <2>2, <2>3, <2>4 DEF Typed
<1>8. CASE Block(r) \/ delete_case(r) \/ adelete_thread(r) \/ RowIsGone(r)
  <2>1. /\ Ends(r) \/ Goto(r, "forget")
        /\ thread' \in {thread, NoThread}
        /\ status' \in {status, "HARD_BLOCKED", "DELETED"}
        /\ version' \in {version, 0}
    BY <1>8 DEF Block, delete_case, adelete_thread, RowIsGone, Settles, case
  <2>2. run' \in [Requests -> RequestType]
    BY <2>1, RunTyped
  <2> QED BY <1>0, <2>1, <2>2, NoThreadTyped DEF Typed
<1> QED BY <1>1, <1>2, <1>3, <1>4, <1>5, <1>6, <1>7, <1>8 DEF RequestStep, GraphStep

LEMMA TypedFaults ==
  ASSUME Typed, Crash \/ \E r \in Requests : StageRaises(r) \/ OutageHits(r)
  PROVE  Typed'
<1>1. UNCHANGED <<status, version, thread>>
  BY DEF Crash, StageRaises, OutageHits, case
<1>2. run' \in [Requests -> RequestType]
  BY RunTyped, IdleTyped DEF Crash, StageRaises, OutageHits
<1> QED BY <1>1, <1>2 DEF Typed

LEMMA TypedNext == Typed /\ [Next]_vars => Typed'
<1> SUFFICES ASSUME Typed, [Next]_vars PROVE Typed'
  OBVIOUS
<1>1. CASE UNCHANGED vars
  BY <1>1 DEF vars, case, Typed
<1> QED BY <1>1, TypedArrives, TypedRequestStep, TypedFaults DEF Next

-----------------------------------------------------------------------------
(***************************************************************************)
(* The inductive invariant of the gate.  Wherever the graph is about to    *)
(* enter the review, in the checkpoint or in the copy of a request, the    *)
(* version of its state has passed the controls; and a request that is     *)
(* about to write the outcome of a review has saved the review.            *)
(***************************************************************************)
Work(r) ==
  /\ InNode(r, "review") => St(r).version \in passed
  /\ At(r, "checkpoint") /\ Route(run[r].at, run[r].out) = "review"
       => run[r].out.version \in passed
  /\ run[r].pc \in {"edit", "decide"}
       => /\ run[r].at = "review" /\ run[r].arg \in ReviewAction
          /\ \E d \in reviews : d.action = run[r].arg

ThreadReady == NextNode = "review" => thread.st.version \in passed

GateInv ==
  /\ Typed
  /\ status # "DELETED" => ThreadReady /\ \A r \in Requests : Work(r)

LEMMA GateInitInv == Init => GateInv
<1> SUFFICES ASSUME Init PROVE GateInv
  OBVIOUS
<1>1. Typed
  BY TypedInit
<1>2. ThreadReady
  BY DEF Init, ThreadReady, NextNode, NoThread, Route
<1>3. \A r \in Requests : Work(r)
  BY DEF Init, Work, Idle, InNode, At
<1> QED BY <1>1, <1>2, <1>3 DEF GateInv

(***************************************************************************)
(* What is enough for a step of one request, or of none, to keep it.       *)
(***************************************************************************)
LEMMA GateKept ==
  ASSUME GateInv, Typed', NEW r \in Requests,
         \A q \in Requests \ {r} : run'[q] = run[q],
         status' # "DELETED" =>
           /\ status # "DELETED"
           /\ passed \subseteq passed' /\ reviews \subseteq reviews'
           /\ UNCHANGED thread \/ ThreadReady'
           /\ Work(r)'
  PROVE  GateInv'
<1> SUFFICES ASSUME status' # "DELETED" PROVE ThreadReady' /\ \A q \in Requests : Work(q)'
  BY DEF GateInv
<1>1. ThreadReady'
  BY DEF GateInv, ThreadReady, NextNode
<1>2. ASSUME NEW q \in Requests \ {r} PROVE Work(q)'
  <2>1. Work(q) /\ run'[q] = run[q] /\ passed \subseteq passed' /\ reviews \subseteq reviews'
    BY DEF GateInv
  <2> QED BY <2>1 DEF Work, InNode, At, St
<1> QED BY <1>1, <1>2

(***************************************************************************)
(* How the other requests stay, and what becomes of the one that steps.    *)
(***************************************************************************)
LEMMA RunFrame ==
  ASSUME Typed, NEW r \in Requests
  PROVE  /\ \A pc : Goto(r, pc) =>
              /\ \A q \in Requests \ {r} : run'[q] = run[q]
              /\ run'[r].pc = pc /\ run'[r].at = run[r].at /\ run'[r].arg = run[r].arg
         /\ Ends(r) =>
              /\ \A q \in Requests \ {r} : run'[q] = run[q]
              /\ run'[r].pc = "idle"
         /\ Fails(r) =>
              /\ \A q \in Requests \ {r} : run'[q] = run[q]
              /\ run'[r].pc = "failing"
         /\ \A out : Returns(r, out) =>
              /\ \A q \in Requests \ {r} : run'[q] = run[q]
              /\ run'[r].pc = "checkpoint" /\ run'[r].out = out /\ run'[r].at = run[r].at
         /\ \A node, st : Enters(r, node, st) =>
              /\ \A q \in Requests \ {r} : run'[q] = run[q]
              /\ run'[r].pc = "node" /\ run'[r].at = node /\ run'[r].st = st
         /\ \A arg, pc : Begin(r, arg, pc) =>
              /\ \A q \in Requests \ {r} : run'[q] = run[q]
              /\ run'[r].pc = pc
<1>1. run \in [Requests -> RequestType]
  BY DEF Typed
<1>2. ASSUME NEW pc, Goto(r, pc)
      PROVE  /\ \A q \in Requests \ {r} : run'[q] = run[q]
             /\ run'[r].pc = pc /\ run'[r].at = run[r].at /\ run'[r].arg = run[r].arg
  BY <1>1, <1>2 DEF Goto, RequestType
<1>3. ASSUME Ends(r)
      PROVE  /\ \A q \in Requests \ {r} : run'[q] = run[q]
             /\ run'[r].pc = "idle"
  BY <1>1, <1>3 DEF Ends, Idle
<1>4. ASSUME Fails(r)
      PROVE  /\ \A q \in Requests \ {r} : run'[q] = run[q]
             /\ run'[r].pc = "failing"
  BY <1>1, <1>4 DEF Fails, RequestType
<1>5. ASSUME NEW out, Returns(r, out)
      PROVE  /\ \A q \in Requests \ {r} : run'[q] = run[q]
             /\ run'[r].pc = "checkpoint" /\ run'[r].out = out /\ run'[r].at = run[r].at
  BY <1>1, <1>5 DEF Returns, RequestType
<1>6. ASSUME NEW node, NEW st, Enters(r, node, st)
      PROVE  /\ \A q \in Requests \ {r} : run'[q] = run[q]
             /\ run'[r].pc = "node" /\ run'[r].at = node /\ run'[r].st = st
  BY <1>1, <1>6 DEF Enters, Idle
<1>7. ASSUME NEW arg, NEW pc, Begin(r, arg, pc)
      PROVE  /\ \A q \in Requests \ {r} : run'[q] = run[q]
             /\ run'[r].pc = pc
  BY <1>1, <1>7 DEF Begin, RequestType
<1> QED BY <1>2, <1>3, <1>4, <1>5, <1>6, <1>7

-----------------------------------------------------------------------------
(***************************************************************************)
(* The steps keep the invariant.  A step that leaves the request idle,     *)
(* failing, or at a point the invariant says nothing of.                   *)
(***************************************************************************)
LEMMA GateQuietStep ==
  ASSUME GateInv, Typed', NEW r \in Requests,
         \A q \in Requests \ {r} : run'[q] = run[q],
         run'[r].pc \in {"idle", "failing", "invoke", "resume", "security", "block", "reset",
                         "forget"},
         status' # "DELETED" => status # "DELETED" /\ UNCHANGED <<passed, reviews>>,
         status' # "DELETED" => UNCHANGED thread \/ ThreadReady'
  PROVE  GateInv'
<1>1. Work(r)'
  BY DEF Work, InNode, At
<1> QED BY <1>1, GateKept

LEMMA GateArrives ==
  ASSUME GateInv, Typed', NEW r \in Requests, Arrives(r)
  PROVE  GateInv'
<1>1. /\ UNCHANGED <<passed, reviews, thread>>
      /\ status' # "DELETED" => status # "DELETED"
      /\ \E arg, pc : Begin(r, arg, pc) /\ pc \in {"invoke", "resume", "security", "reset"}
  <2>1. CASE Start(r)
    BY <2>1 DEF Start
  <2>2. ASSUME NEW action \in ReviewAction, Review(r, action)
        PROVE  /\ UNCHANGED <<passed, reviews, thread, status>>
               /\ Begin(r, action, "resume")
    BY <2>2 DEF Review, case
  <2>3. CASE supply_information(r)
    BY <2>3 DEF supply_information, case
  <2>4. CASE record_security_event(r)
    BY <2>4 DEF record_security_event, case
  <2>5. CASE reset(r)
    BY <2>5 DEF reset, case
  <2> QED BY <2>1, <2>2, <2>3, <2>4, <2>5 DEF Arrives
<1>2. Typed
  BY DEF GateInv
<1>3. /\ \A q \in Requests \ {r} : run'[q] = run[q]
      /\ run'[r].pc \in {"invoke", "resume", "security", "reset"}
  BY <1>1, <1>2, RunFrame
<1> QED BY <1>1, <1>3, GateQuietStep

(***************************************************************************)
(* The steps that write the checkpoint, or go on from it.                  *)
(***************************************************************************)
LEMMA GateThreadStep ==
  ASSUME GateInv, Typed', NEW r \in Requests,
         Invoke(r) \/ Resume(r) \/ Checkpoint(r) \/ UpdateState(r)
  PROVE  GateInv'
<1>0. /\ Typed
      /\ UNCHANGED <<status, passed, reviews>>
      /\ status # "DELETED" => ThreadReady /\ Work(r)
  BY DEF GateInv, Invoke, Resume, Checkpoint, UpdateState, case, history
<1>1. CASE Invoke(r)
  <2>1. thread'.last = "start"
    BY <1>1 DEF Invoke
  <2>2. ThreadReady'
    BY <2>1 DEF ThreadReady, NextNode, Route
  <2>3. /\ \A q \in Requests \ {r} : run'[q] = run[q]
        /\ run'[r].pc = "node" /\ run'[r].at = "load"
    BY <1>0, <1>1, RunFrame DEF Invoke
  <2>4. Work(r)'
    BY <2>3 DEF Work, InNode, At
  <2> QED BY <1>0, <2>2, <2>3, <2>4, GateKept
<1>2. CASE Resume(r)
  <2>1. UNCHANGED thread
    BY <1>2 DEF Resume
  <2>2. CASE Ends(r)
    BY <1>0, <2>1, <2>2, RunFrame, GateQuietStep
  <2>3. CASE Enters(r, NextNode, thread.st)
    <3>1. /\ \A q \in Requests \ {r} : run'[q] = run[q]
          /\ run'[r].pc = "node" /\ run'[r].at = NextNode /\ run'[r].st = thread.st
      BY <1>0, <2>3, RunFrame
    <3>2. status # "DELETED" => Work(r)'
      BY <1>0, <3>1 DEF ThreadReady, Work, InNode, At, St
    <3> QED BY <1>0, <2>1, <3>1, <3>2, GateKept
  <2> QED BY <1>2, <2>2, <2>3 DEF Resume, NextNode
<1>3. CASE Checkpoint(r)
  <2>1. thread' = [last |-> run[r].at, st |-> run[r].out] /\ run[r].pc = "checkpoint"
    BY <1>3 DEF Checkpoint, At
  <2>2. NextNode' = Route(run[r].at, run[r].out)
    BY <2>1 DEF NextNode, Route, route_after_stage, route_after_validation, route_after_review
  <2>3. status # "DELETED" => ThreadReady'
    BY <1>0, <2>1, <2>2 DEF ThreadReady, Work, At
  <2>4. CASE Ends(r)
    BY <1>0, <2>3, <2>4, RunFrame, GateQuietStep
  <2>5. ASSUME NEW node, node # "review", Enters(r, node, run[r].out) PROVE GateInv'
    <3>1. /\ \A q \in Requests \ {r} : run'[q] = run[q]
          /\ run'[r].pc = "node" /\ run'[r].at # "review"
      BY <1>0, <2>5, RunFrame
    <3>2. Work(r)'
      BY <3>1 DEF Work, InNode, At
    <3> QED BY <1>0, <2>3, <3>1, <3>2, GateKept
  <2> QED BY <1>3, <2>4, <2>5 DEF Checkpoint, Interrupts
<1>4. CASE UpdateState(r)
  <2>1. thread.st \in State
    BY <1>0 DEF Typed
  <2> DEFINE st == [thread.st EXCEPT !.status = "HARD_BLOCKED", !.security = TRUE]
             last == IF thread.last = "none" THEN "start" ELSE thread.last
  <2>2. st.status = "HARD_BLOCKED"
    BY <2>1 DEF State
  <2>3. thread' = [last |-> last, st |-> st]
    BY <1>4 DEF UpdateState
  <2>4. thread'.st.status = "HARD_BLOCKED"
    BY <2>2, <2>3
  <2> HIDE DEF st, last
  <2>5. ThreadReady'
    BY <2>4
       DEF ThreadReady, NextNode, Route, route_after_stage, route_after_validation,
           route_after_review
  <2>6. Goto(r, "block")
    BY <1>4 DEF UpdateState
  <2>7. /\ \A q \in Requests \ {r} : run'[q] = run[q]
        /\ run'[r].pc = "block"
    BY <1>0, <2>6, RunFrame DEF Typed, RequestType
  <2> QED BY <1>0, <2>5, <2>7, GateQuietStep
<1> QED BY <1>1, <1>2, <1>3, <1>4

(***************************************************************************)
(* The steps inside a node.                                                *)
(***************************************************************************)
LEMMA ReviewRoute ==
  ASSUME NEW node, NEW st, Route(node, st) = "review"
  PROVE  node = "validate" /\ st.status \notin {"FAILED", "HARD_BLOCKED"}
BY DEF Route, route_after_stage, route_after_validation, route_after_review

LEMMA GateNodeStep ==
  ASSUME GateInv, Typed', NEW r \in Requests,
         \/ load_and_retrieve(r) \/ collect_information(r) \/ validate(r)
         \/ \E kind \in RecommendationKind : draft(r, kind)
         \/ save_review(r) \/ SaveEdit(r) \/ Decide(r) \/ Misfit(r) \/ record_failure(r)
  PROVE  GateInv'
<1>0. /\ Typed
      /\ run[r] \in RequestType /\ St(r) \in State
      /\ status # "DELETED" => Work(r)
  BY DEF GateInv, Typed, RequestType, St
<1>1. UNCHANGED thread
  BY DEF load_and_retrieve, collect_information, validate, draft, save_review, SaveEdit, Decide,
         Misfit, record_failure
<1>2. CASE load_and_retrieve(r) \/ collect_information(r) \/ Decide(r)
           \/ \E kind \in RecommendationKind : draft(r, kind)
  <2>1. /\ UNCHANGED <<passed, reviews>> /\ status # "DELETED"
        /\ \E out : Returns(r, out)
    BY <1>2 DEF load_and_retrieve, collect_information, Decide, draft, history, Exists
  <2>2. run[r].at # "validate"
    BY <1>0, <1>2, <2>1 DEF load_and_retrieve, collect_information, Decide, draft, InNode, At, Work
  <2>3. /\ \A q \in Requests \ {r} : run'[q] = run[q]
        /\ run'[r].pc = "checkpoint" /\ run'[r].at # "validate"
    BY <1>0, <2>1, <2>2, RunFrame
  <2>4. Work(r)'
    BY <2>3, ReviewRoute DEF Work, InNode, At
  <2> QED BY <1>1, <2>1, <2>3, <2>4, GateKept
<1>3. CASE validate(r)
  <2> DEFINE out == [St(r) EXCEPT !.status = Outcome(St(r))]
  <2>1. /\ UNCHANGED reviews /\ status # "DELETED" /\ Returns(r, out)
        /\ passed' = IF St(r).kind = "uncited" \/ St(r).security THEN passed
                     ELSE passed \cup {St(r).version}
    BY <1>3 DEF validate, Controlled, Exists
  <2>2. out.version = St(r).version /\ out.status = Outcome(St(r))
    BY <1>0 DEF State
  <2> HIDE DEF out
  <2>3. /\ \A q \in Requests \ {r} : run'[q] = run[q]
        /\ run'[r].pc = "checkpoint" /\ run'[r].out = out
    BY <1>0, <2>1, RunFrame
  <2>4. ASSUME Route(run'[r].at, run'[r].out) = "review" PROVE out.version \in passed'
    <3>1. Outcome(St(r)) # "HARD_BLOCKED"
      BY <2>2, <2>3, <2>4, ReviewRoute
    <3> QED BY <2>1, <2>2, <3>1 DEF Outcome, Blocked
  <2>5. Work(r)'
    BY <2>3, <2>4 DEF Work, InNode, At
  <2>6. passed \subseteq passed'
    BY <2>1
  <2> QED BY <1>1, <2>1, <2>3, <2>5, <2>6, GateKept
<1>4. CASE save_review(r)
  <2>1. /\ status # "DELETED" /\ UNCHANGED passed
        /\ run[r].at = "review" /\ run[r].arg \in ReviewAction
        /\ reviews' = reviews \cup {[version |-> St(r).version, action |-> run[r].arg]}
        /\ Goto(r, "edit") \/ Goto(r, "decide")
    BY <1>4 DEF save_review, Exists, InNode, history
  <2>2. /\ \A q \in Requests \ {r} : run'[q] = run[q]
        /\ run'[r].pc \in {"edit", "decide"}
        /\ run'[r].at = run[r].at /\ run'[r].arg = run[r].arg
    BY <1>0, <2>1, RunFrame
  <2>3. \E d \in reviews' : d.action = run[r].arg
    <3> DEFINE review == [version |-> St(r).version, action |-> run[r].arg]
    <3>1. review \in reviews' /\ review.action = run[r].arg
      BY <2>1
    <3> QED BY <3>1
  <2>4. Work(r)'
    BY <2>1, <2>2, <2>3 DEF Work, InNode, At
  <2> QED BY <1>1, <2>1, <2>2, <2>4, GateKept
<1>5. CASE SaveEdit(r)
  <2>1. /\ status # "DELETED" /\ UNCHANGED <<passed, reviews>>
        /\ run[r].pc = "edit" /\ Goto(r, "decide")
    BY <1>5 DEF SaveEdit, Exists, At, history
  <2>2. /\ \A q \in Requests \ {r} : run'[q] = run[q]
        /\ run'[r].pc = "decide" /\ run'[r].at = run[r].at /\ run'[r].arg = run[r].arg
    BY <1>0, <2>1, RunFrame
  <2>3. Work(r)'
    BY <1>0, <2>1, <2>2 DEF Work, InNode, At
  <2> QED BY <1>1, <2>1, <2>2, <2>3, GateKept
<1>6. CASE Misfit(r)
  <2>1. UNCHANGED <<status, passed, reviews>> /\ Fails(r)
    BY <1>6 DEF Misfit, case, history
  <2> QED BY <1>0, <1>1, <2>1, RunFrame, GateQuietStep
<1>7. CASE record_failure(r)
  <2> DEFINE out == [St(r) EXCEPT !.status = "FAILED"]
  <2>1. /\ UNCHANGED <<passed, reviews>> /\ status # "DELETED" /\ Returns(r, out)
    BY <1>7 DEF record_failure, Exists, history
  <2>2. out.status = "FAILED"
    BY <1>0 DEF State
  <2> HIDE DEF out
  <2>3. /\ \A q \in Requests \ {r} : run'[q] = run[q]
        /\ run'[r].pc = "checkpoint" /\ run'[r].out = out
    BY <1>0, <2>1, RunFrame
  <2>4. Work(r)'
    BY <2>2, <2>3, ReviewRoute DEF Work, InNode, At
  <2> QED BY <1>1, <2>1, <2>3, <2>4, GateKept
<1> QED BY <1>2, <1>3, <1>4, <1>5, <1>6, <1>7

LEMMA GateRowStep ==
  ASSUME GateInv, Typed', NEW r \in Requests,
         \/ Block(r) \/ delete_case(r) \/ adelete_thread(r) \/ RowIsGone(r)
         \/ StageRaises(r) \/ OutageHits(r)
  PROVE  GateInv'
<1>0. Typed
  BY DEF GateInv
<1>1. Ends(r) \/ Fails(r) \/ Goto(r, "forget")
  BY DEF Block, delete_case, adelete_thread, RowIsGone, StageRaises, OutageHits, Settles
<1>2. /\ \A q \in Requests \ {r} : run'[q] = run[q]
      /\ run'[r].pc \in {"idle", "failing", "forget"}
  BY <1>0, <1>1, RunFrame
<1>3. status' # "DELETED" => status # "DELETED" /\ UNCHANGED <<passed, reviews>>
  BY DEF Block, delete_case, adelete_thread, RowIsGone, StageRaises, OutageHits, Exists, case,
         history
<1>4. UNCHANGED thread \/ thread' = NoThread
  BY DEF Block, delete_case, adelete_thread, RowIsGone, StageRaises, OutageHits
<1>5. thread' = NoThread => ThreadReady'
  BY DEF NoThread, ThreadReady, NextNode, Route
<1> QED BY <1>2, <1>3, <1>4, <1>5, GateQuietStep

LEMMA GateStepInv == GateInv /\ [Next]_vars => GateInv'
<1> SUFFICES ASSUME GateInv, [Next]_vars PROVE GateInv'
  OBVIOUS
<1>1. Typed'
  BY TypedNext DEF GateInv
<1>2. CASE UNCHANGED vars
  <2>1. UNCHANGED <<status, reviews, thread, run, passed>>
    BY <1>2 DEF vars, case, history
  <2>2. ThreadReady <=> ThreadReady'
    BY <2>1 DEF ThreadReady, NextNode, Route, route_after_stage, route_after_validation,
                route_after_review
  <2>3. ASSUME NEW r \in Requests PROVE Work(r) => Work(r)'
    BY <2>1 DEF Work, InNode, At, St, Route, route_after_stage, route_after_validation,
                route_after_review
  <2> QED BY <1>1, <2>1, <2>2, <2>3 DEF GateInv
<1>3. CASE Crash
  <2>1. /\ UNCHANGED <<status, reviews, thread, passed>>
        /\ run' = [r \in Requests |-> Idle]
    BY <1>3 DEF Crash, case, history
  <2>2. ThreadReady <=> ThreadReady'
    BY <2>1 DEF ThreadReady, NextNode, Route, route_after_stage, route_after_validation,
                route_after_review
  <2>3. \A r \in Requests : run'[r].pc = "idle"
    BY <2>1 DEF Idle
  <2>4. \A r \in Requests : Work(r)'
    BY <2>3 DEF Work, InNode, At
  <2> QED BY <1>1, <2>1, <2>2, <2>4 DEF GateInv
<1>4. ASSUME NEW r \in Requests,
             Arrives(r) \/ RequestStep(r) \/ StageRaises(r) \/ OutageHits(r)
      PROVE  GateInv'
  BY <1>1, <1>4, GateArrives, GateThreadStep, GateNodeStep, GateRowStep
     DEF RequestStep, GraphStep
<1> QED BY <1>2, <1>3, <1>4 DEF Next

(***************************************************************************)
(* Whatever is about to enter the review has passed the controls.          *)
(***************************************************************************)
THEOREM GateInvariant == Spec => []GateInv
<1> QED BY GateInitInv, GateStepInv, PTL DEF Spec

-----------------------------------------------------------------------------
(***************************************************************************)
(* The steps of the case are steps of the gate.  A step that leaves the    *)
(* decisions alone and does not complete the case is one.                  *)
(***************************************************************************)
LEMMA GateIdle ==
  ASSUME UNCHANGED <<passed, reviews>>, status' # "COMPLETED" \/ UNCHANGED status
  PROVE  [Gate!GateNext]_(Gate!gate)
<1>1. CASE UNCHANGED status
  BY <1>1 DEF Gate!gate
<1>2. CASE status' # "COMPLETED"
  BY <1>2 DEF Gate!GateNext, Gate!Withdraw
<1> QED BY <1>1, <1>2

LEMMA GateSimulation == GateInv /\ [Next]_vars => [Gate!GateNext]_(Gate!gate)
<1> SUFFICES ASSUME GateInv, [Next]_vars PROVE [Gate!GateNext]_(Gate!gate)
  OBVIOUS
<1>1. CASE UNCHANGED vars
  BY <1>1, GateIdle DEF vars, case, history
<1>2. CASE Crash
  BY <1>2, GateIdle DEF Crash, case, history
<1>3. ASSUME NEW r \in Requests, Arrives(r) PROVE [Gate!GateNext]_(Gate!gate)
  <2>1. CASE Start(r)
    BY <2>1, GateIdle DEF Start
  <2>2. ASSUME NEW action \in ReviewAction, Review(r, action)
        PROVE  [Gate!GateNext]_(Gate!gate)
    BY <2>2, GateIdle DEF Review, case
  <2>3. CASE supply_information(r)
    BY <2>3, GateIdle DEF supply_information, case
  <2>4. CASE record_security_event(r)
    BY <2>4, GateIdle DEF record_security_event, case
  <2>5. CASE reset(r)
    BY <2>5, GateIdle DEF reset, case
  <2> QED BY <1>3, <2>1, <2>2, <2>3, <2>4, <2>5 DEF Arrives
<1>4. ASSUME NEW r \in Requests,
             \/ Invoke(r) \/ Resume(r) \/ Misfit(r) \/ Checkpoint(r) \/ UpdateState(r)
             \/ adelete_thread(r) \/ RowIsGone(r) \/ StageRaises(r) \/ OutageHits(r)
      PROVE  [Gate!GateNext]_(Gate!gate)
  BY <1>4, GateIdle
     DEF Invoke, Resume, Misfit, Checkpoint, UpdateState, adelete_thread, RowIsGone, StageRaises,
         OutageHits, case, history
<1>5. ASSUME NEW r \in Requests,
             \/ load_and_retrieve(r) \/ collect_information(r) \/ SaveEdit(r)
             \/ \E kind \in RecommendationKind : draft(r, kind)
             \/ record_failure(r) \/ Block(r)
      PROVE  [Gate!GateNext]_(Gate!gate)
  BY <1>5, GateIdle
     DEF load_and_retrieve, collect_information, SaveEdit, draft, record_failure, Block, history
<1>6. ASSUME NEW r \in Requests, validate(r) PROVE [Gate!GateNext]_(Gate!gate)
  <2>1. /\ UNCHANGED reviews /\ status' # "COMPLETED"
        /\ \/ UNCHANGED passed
           \/ passed' = passed \cup {St(r).version}
    BY <1>6 DEF validate, Controlled, Outcome
  <2>2. CASE UNCHANGED passed
    BY <2>1, <2>2, GateIdle
  <2>3. CASE passed' = passed \cup {St(r).version}
    BY <2>1, <2>3 DEF Gate!GateNext, Gate!Pass
  <2> QED BY <2>1, <2>2, <2>3
<1>7. ASSUME NEW r \in Requests, save_review(r) PROVE [Gate!GateNext]_(Gate!gate)
  <2>1. /\ InNode(r, "review") /\ Exists /\ ~Reviewed(St(r).version)
        /\ run[r].arg \in ReviewAction
        /\ reviews' = reviews \cup {[version |-> St(r).version, action |-> run[r].arg]}
        /\ UNCHANGED <<status, passed>>
    BY <1>7 DEF save_review, history
  <2>2. St(r).version \in passed
    BY <2>1 DEF GateInv, Work, Exists
  <2> QED BY <2>1, <2>2 DEF Reviewed, Gate!GateNext, Gate!Decide
<1>8. ASSUME NEW r \in Requests, Decide(r) PROVE [Gate!GateNext]_(Gate!gate)
  <2>1. /\ run[r].pc = "decide" /\ Exists
        /\ status' = Decision(run[r].arg)
        /\ UNCHANGED <<passed, reviews>>
    BY <1>8 DEF Decide, At, history
  <2>2. \E d \in reviews : d.action = run[r].arg
    BY <2>1 DEF GateInv, Work, Exists
  <2>3. CASE run[r].arg \in Approvals
    <3>1. status' = "COMPLETED" /\ \E d \in reviews : d.action \in Approvals
      BY <2>1, <2>2, <2>3 DEF Decision
    <3> QED BY <2>1, <3>1 DEF Gate!GateNext, Gate!Release
  <2>4. CASE run[r].arg \notin Approvals
    BY <2>1, <2>4, GateIdle DEF Decision
  <2> QED BY <2>3, <2>4
<1>9. ASSUME NEW r \in Requests, delete_case(r) PROVE [Gate!GateNext]_(Gate!gate)
  BY <1>9 DEF delete_case, Gate!GateNext, Gate!Discard
<1> QED BY <1>1, <1>2, <1>3, <1>4, <1>5, <1>6, <1>7, <1>8, <1>9 DEF Next, RequestStep, GraphStep

(***************************************************************************)
(* An investigation case implements the release gate: no version is        *)
(* decided before the controls passed it, none twice, and the case is      *)
(* COMPLETED only on an approval, whatever requests race, whatever stages  *)
(* fail and wherever the process crashes (builder.py 261-511).             *)
(***************************************************************************)
THEOREM CaseImplementsGate == Spec => GateSpec
<1>1. Init => Gate!GateInit
  BY DEF Init, Gate!GateInit
<1> QED BY <1>1, GateInvariant, GateSimulation, PTL DEF Spec, GateSpec, Gate!GateSpec

-----------------------------------------------------------------------------
(***************************************************************************)
(* The remaining types.                                                    *)
(***************************************************************************)
Counted ==
  /\ \A d \in reviews : d.version \in Nat /\ d.action \in ReviewAction
  /\ requests \in Nat /\ errors \in Nat /\ outages \in Nat
  /\ passed \subseteq Nat /\ overlapped \in BOOLEAN
  /\ settled \subseteq {"security", "reset"}

LEMMA CountedInit == Init => Counted
<1> SUFFICES ASSUME Init PROVE Counted
  OBVIOUS
<1>1. /\ reviews = {} /\ passed = {} /\ settled = {} /\ overlapped = FALSE
      /\ requests = 0 /\ errors = 0 /\ outages = 0
  BY DEF Init
<1> QED BY <1>1 DEF Counted

LEMMA CountedStep == Typed /\ Counted /\ [Next]_vars => Counted'
<1> SUFFICES ASSUME Typed, Counted, [Next]_vars PROVE Counted'
  OBVIOUS
<1>1. CASE UNCHANGED vars
  BY <1>1 DEF vars, case, faults, history, Counted
<1>2. CASE Crash
  BY <1>2 DEF Crash, case, history, Counted
<1>3. ASSUME NEW r \in Requests, Arrives(r) PROVE Counted'
  <2>1. /\ requests' = requests + 1 /\ overlapped' \in BOOLEAN
        /\ UNCHANGED <<reviews, errors, outages, passed, settled>>
    BY <1>3
       DEF Arrives, Start, Review, supply_information, record_security_event, reset, Begin, case,
           faults
  <2> QED BY <2>1 DEF Counted
<1>4. ASSUME NEW r \in Requests,
             \/ Invoke(r) \/ Resume(r) \/ load_and_retrieve(r)
             \/ \E kind \in RecommendationKind : draft(r, kind)
             \/ collect_information(r) \/ SaveEdit(r) \/ Decide(r)
             \/ Misfit(r) \/ record_failure(r) \/ Checkpoint(r) \/ UpdateState(r) \/ RowIsGone(r)
      PROVE  Counted'
  <2>1. UNCHANGED <<reviews, requests, errors, outages, passed, overlapped, settled>>
    BY <1>4
       DEF Invoke, Resume, load_and_retrieve, draft, collect_information, SaveEdit, Decide, Misfit,
           record_failure, Checkpoint, UpdateState, RowIsGone, case, faults, history
  <2> QED BY <2>1 DEF Counted
<1>5. ASSUME NEW r \in Requests, validate(r) \/ save_review(r) PROVE Counted'
  <2>1. St(r).version \in Nat
    BY DEF Typed, RequestType, State, St
  <2>2. CASE validate(r)
    <3>1. /\ UNCHANGED <<reviews, requests, errors, outages, overlapped, settled>>
          /\ passed' \in {passed, passed \cup {St(r).version}}
      BY <2>2 DEF validate, Controlled, faults
    <3> QED BY <2>1, <3>1 DEF Counted
  <2>3. CASE save_review(r)
    <3>1. /\ UNCHANGED <<requests, errors, outages, passed, overlapped, settled>>
          /\ run[r].arg \in ReviewAction
          /\ reviews' = reviews \cup {[version |-> St(r).version, action |-> run[r].arg]}
      BY <2>3 DEF save_review, faults, history
    <3> QED BY <2>1, <3>1 DEF Counted
  <2> QED BY <1>5, <2>2, <2>3
<1>6. ASSUME NEW r \in Requests, Block(r) \/ delete_case(r) \/ adelete_thread(r) PROVE Counted'
  <2>1. /\ UNCHANGED <<requests, errors, outages, overlapped>>
        /\ reviews' \in {reviews, {}} /\ passed' \in {passed, {}}
        /\ settled' \in {settled, settled \cup {"security"}, settled \cup {"reset"}}
    BY <1>6 DEF Block, delete_case, adelete_thread, Settles, case, faults
  <2> QED BY <2>1 DEF Counted
<1>7. ASSUME NEW r \in Requests, StageRaises(r) \/ OutageHits(r) PROVE Counted'
  <2>1. /\ UNCHANGED <<reviews, requests, passed, overlapped, settled>>
        /\ errors' \in {errors, errors + 1} /\ outages' \in {outages, outages + 1}
    BY <1>7 DEF StageRaises, OutageHits, case, history
  <2> QED BY <2>1 DEF Counted
<1> QED BY <1>1, <1>2, <1>3, <1>4, <1>5, <1>6, <1>7 DEF Next, RequestStep, GraphStep

(***************************************************************************)
(* Rows, checkpoint and requests keep their types.                         *)
(***************************************************************************)
THEOREM CaseTypeOK == Spec => []TypeOK
<1>1. Typed /\ Counted => TypeOK
  BY DEF Typed, Counted, TypeOK
<1> QED BY <1>1, TypedInit, TypedNext, CountedInit, CountedStep, PTL DEF Spec

-----------------------------------------------------------------------------
(***************************************************************************)
(* The case while its requests come one after the other and nothing fails  *)
(* outside of a stage: what holds at rest, of the state with which a node  *)
(* ends, and of the one request under way.                                 *)
(***************************************************************************)
Current(v) == v = version /\ ~Reviewed(v)

Rests(last, st) ==
  /\ Exists => status = st.status
  /\ status \notin {"OPEN", "RUNNING", "REWORK_REQUIRED"}
  /\ status = "WAITING_FOR_INFORMATION" => Route(last, st) = "collect"
  /\ status = "WAITING_FOR_HUMAN_REVIEW" => Route(last, st) = "review"
  /\ status = "HARD_BLOCKED" => Route(last, st) \notin Interrupts
  /\ status \in {"FAILED", "COMPLETED"} => Route(last, st) = "end"
  /\ status \in {"ABSENT", "DELETED"} => Route(last, st) = "none"
  /\ Route(last, st) \in Interrupts => Current(st.version)

Rest == Rests(thread.last, thread.st)

Outgoing(last, st) ==
  /\ Route(last, st) \in Interrupts \cup {"end"} => Rests(last, st)
  /\ Route(last, st) = "validate" => Current(st.version)

Going(r) ==
  /\ At(r, "invoke") => status \in {"OPEN", "FAILED"}
  /\ At(r, "resume") => Rest /\ Exists /\ status # "HARD_BLOCKED"
  /\ run[r].pc \in {"node", "edit", "decide", "checkpoint", "failing", "security", "block", "reset"}
       => Exists
  /\ InNode(r, "draft") => St(r).status # "FAILED"
  /\ InNode(r, "validate") => Current(St(r).version)
  /\ InNode(r, "review") => St(r).version = version
  /\ run[r].pc \in {"edit", "decide"} => run[r].at = "review" /\ run[r].arg \in ReviewAction
  /\ At(r, "checkpoint") => Outgoing(run[r].at, run[r].out)
  /\ At(r, "block") => thread.st.status = "HARD_BLOCKED"
  /\ At(r, "forget") => status = "DELETED" /\ reviews = {}

Numbered == \A d \in reviews : d.version \in Nat /\ d.version <= version

Sequential ==
  /\ Numbered
  /\ Quiet => Rest
  /\ \A r \in Requests :
       ~At(r, "idle") => Going(r) /\ \A q \in Requests \ {r} : At(q, "idle")

SeqInv == outages = 0 /\ ~overlapped => Sequential

LEMMA SeqKept ==
  ASSUME NEW r \in Requests,
         \A q \in Requests \ {r} : run'[q] = run[q] /\ run[q].pc = "idle",
         Numbered', run'[r].pc = "idle" => Rest', run'[r].pc # "idle" => Going(r)'
  PROVE  Sequential'
<1>1. \A q \in Requests \ {r} : At(q, "idle")'
  BY DEF At
<1>2. Quiet' => Rest'
  BY DEF Quiet
<1>3. ASSUME NEW q \in Requests, ~At(q, "idle")'
      PROVE  Going(q)' /\ \A p \in Requests \ {q} : At(p, "idle")'
  <2>1. q = r
    BY <1>1, <1>3
  <2> QED BY <1>1, <1>3, <2>1 DEF At
<1> QED BY <1>2, <1>3 DEF Sequential

LEMMA SeqArrives ==
  ASSUME Typed, Sequential, NEW r \in Requests, Arrives(r), ~overlapped'
  PROVE  Sequential'
<1>1. PICK arg, pc : Begin(r, arg, pc)
  BY DEF Arrives, Start, Review, supply_information, record_security_event, reset
<1>2. Quiet /\ Rest
  BY <1>1 DEF Begin, Sequential
<1>3. /\ \A q \in Requests \ {r} : run'[q] = run[q] /\ run[q].pc = "idle"
      /\ UNCHANGED <<version, reviews, thread>>
  BY <1>1, <1>2, RunFrame
     DEF Arrives, Start, Review, supply_information, record_security_event, reset, Quiet, case
<1>4. Numbered'
  BY <1>3 DEF Sequential, Numbered
<1>5. CASE Start(r)
  <2>1. run'[r].pc = "invoke" /\ status' \in {"OPEN", "FAILED"}
    BY <1>5, RunFrame DEF Start
  <2>2. Going(r)'
    BY <2>1 DEF Going, At, InNode
  <2> QED BY <1>3, <1>4, <2>1, <2>2, SeqKept
<1>6. CASE supply_information(r) \/ \E action \in ReviewAction : Review(r, action)
  <2>1. run'[r].pc = "resume" /\ UNCHANGED status /\ Exists /\ status # "HARD_BLOCKED"
    BY <1>6, RunFrame DEF supply_information, Review, Exists, case
  <2>2. Rest'
    BY <1>2, <1>3, <2>1 DEF Rest, Rests, Current, Reviewed, Exists, Route, route_after_stage,
       route_after_validation, route_after_review
  <2>3. Going(r)'
    BY <2>1, <2>2 DEF Going, At, InNode, Exists
  <2> QED BY <1>3, <1>4, <2>1, <2>3, SeqKept
<1>7. CASE record_security_event(r) \/ reset(r)
  <2>1. run'[r].pc \in {"security", "reset"} /\ UNCHANGED status /\ Exists
    BY <1>7, RunFrame DEF record_security_event, reset, case
  <2>2. Going(r)'
    BY <2>1 DEF Going, At, InNode, Exists
  <2> QED BY <1>3, <1>4, <2>1, <2>2, SeqKept
<1> QED BY <1>5, <1>6, <1>7 DEF Arrives

(***************************************************************************)
(* The nodes.                                                              *)
(***************************************************************************)
LEMMA SeqNodeStep ==
  ASSUME Typed, Sequential, NEW r \in Requests,
         \/ load_and_retrieve(r)
         \/ \E kind \in RecommendationKind : draft(r, kind)
         \/ validate(r) \/ collect_information(r)
         \/ save_review(r) \/ SaveEdit(r) \/ Decide(r)
         \/ Misfit(r) \/ record_failure(r) \/ StageRaises(r)
  PROVE  Sequential'
<1> USE DEF At, InNode
<1>0. run[r].pc # "idle"
  BY DEF load_and_retrieve, draft, validate, collect_information, save_review, SaveEdit, Decide,
     Misfit, record_failure, StageRaises
<1>1. Numbered /\ Going(r) /\ \A q \in Requests \ {r} : run[q].pc = "idle"
  BY <1>0 DEF Sequential
<1>2. run[r].at \in Nodes /\ St(r) \in State /\ version \in Nat
  BY DEF Typed, RequestType, St
<1>a. PICK at \in Nodes : at = run[r].at
  BY <1>2
<1>3. ASSUME NEW out, Returns(r, out), Numbered', Exists', Outgoing(at, out)'
      PROVE  Sequential'
  <2>1. /\ \A q \in Requests \ {r} : run'[q] = run[q]
        /\ run'[r].pc = "checkpoint" /\ run'[r].out = out /\ run'[r].at = run[r].at
    BY <1>3, RunFrame
  <2>3. Outgoing(run[r].at, run[r].out)'
    BY <1>a, <1>3, <2>1 DEF Outgoing, Rests, Current, Reviewed, Exists
  <2>4. Going(r)'
    BY <1>3, <2>1, <2>3 DEF Going
  <2> QED BY <1>1, <1>3, <2>1, <2>4, SeqKept
<1>4. CASE load_and_retrieve(r) \/ collect_information(r)
  <2>0. PICK out : out = [St(r) EXCEPT !.status = "RUNNING"]
    OBVIOUS
  <2>1. /\ Returns(r, out) /\ status' = "RUNNING" /\ UNCHANGED <<version, reviews>>
        /\ run[r].at \in {"load", "collect"}
    BY <2>0, <1>4 DEF load_and_retrieve, collect_information
  <2>2. out.status = "RUNNING"
    BY <1>2, <2>0 DEF State
  <2>3. Route(at, out) = "draft"
    BY <1>a, <2>1, <2>2 DEF Route, route_after_stage
  <2>4. Outgoing(at, out)'
    BY <1>a, <2>3 DEF Outgoing, Interrupts
  <2> QED BY <1>1, <1>3, <2>1, <2>4 DEF Numbered, Exists
<1>5. ASSUME NEW kind \in RecommendationKind, draft(r, kind) PROVE Sequential'
  <2>0. PICK out : out = [St(r) EXCEPT !.version = version + 1, !.kind = kind]
    OBVIOUS
  <2>1. /\ Returns(r, out) /\ version' = version + 1 /\ UNCHANGED <<status, reviews>>
        /\ run[r].at = "draft" /\ Exists /\ St(r).status # "FAILED"
    BY <2>0, <1>1, <1>5 DEF draft, Going
  <2>2. out.status = St(r).status /\ out.version = version + 1
    BY <1>2, <2>0 DEF State
  <2>3. Route(at, out) = "validate"
    BY <1>a, <2>1, <2>2 DEF Route, route_after_stage
  <2>4. Current(out.version)'
    BY <1>1, <1>2, <2>1, <2>2 DEF Current, Reviewed, Numbered
  <2>5. Outgoing(at, out)'
    BY <1>a, <2>3, <2>4 DEF Outgoing, Interrupts
  <2>6. Numbered'
    BY <1>1, <1>2, <2>1 DEF Numbered
  <2> QED BY <1>3, <2>1, <2>5, <2>6 DEF Exists
<1>6. CASE validate(r)
  <2>0. PICK out : out = [St(r) EXCEPT !.status = Outcome(St(r))]
    OBVIOUS
  <2>1. /\ Returns(r, out) /\ status' = Outcome(St(r)) /\ UNCHANGED <<version, reviews>>
        /\ run[r].at = "validate" /\ Current(St(r).version)
    BY <2>0, <1>1, <1>6 DEF validate, Controlled, Going
  <2>2. out.status = Outcome(St(r)) /\ out.version = St(r).version
    BY <1>2, <2>0 DEF State
  <2>3. Outcome(St(r)) \in {"HARD_BLOCKED", "WAITING_FOR_INFORMATION", "WAITING_FOR_HUMAN_REVIEW"}
    BY DEF Outcome
  <2>4. Current(out.version)'
    BY <2>1, <2>2 DEF Current, Reviewed
  <2>5. Route(at, out) = CASE out.status = "HARD_BLOCKED" -> "end"
                                  [] out.status = "WAITING_FOR_INFORMATION" -> "collect"
                                  [] out.status = "WAITING_FOR_HUMAN_REVIEW" -> "review"
    BY <1>a, <2>1, <2>2, <2>3 DEF Route, route_after_validation
  <2>6. Outgoing(at, out)'
    BY <1>a, <2>1, <2>2, <2>3, <2>4, <2>5 DEF Outgoing, Rests, Interrupts
  <2> QED BY <1>1, <1>3, <2>1, <2>3, <2>6 DEF Numbered, Exists
<1>7. CASE save_review(r)
  <2>1. /\ reviews' = reviews \cup {[version |-> St(r).version, action |-> run[r].arg]}
        /\ UNCHANGED <<status, version>> /\ Exists
        /\ run[r].at = "review" /\ run[r].arg \in ReviewAction /\ St(r).version = version
        /\ \E pc \in {"edit", "decide"} : Goto(r, pc)
    BY <1>1, <1>7 DEF save_review, Going
  <2>2. /\ \A q \in Requests \ {r} : run'[q] = run[q]
        /\ run'[r].pc \in {"edit", "decide"} /\ run'[r].at = run[r].at /\ run'[r].arg = run[r].arg
    BY <2>1, RunFrame
  <2>3. Numbered'
    BY <1>1, <1>2, <2>1 DEF Numbered
  <2>4. Going(r)'
    BY <2>1, <2>2 DEF Going, Exists
  <2> QED BY <1>1, <2>2, <2>3, <2>4, SeqKept
<1>8. CASE SaveEdit(r)
  <2>1. /\ version' = version + 1 /\ UNCHANGED <<status, reviews>> /\ Exists
        /\ run[r].at = "review" /\ run[r].arg \in ReviewAction /\ Goto(r, "decide")
    BY <1>1, <1>8 DEF SaveEdit, Going
  <2>2. /\ \A q \in Requests \ {r} : run'[q] = run[q]
        /\ run'[r].pc = "decide" /\ run'[r].at = run[r].at /\ run'[r].arg = run[r].arg
    BY <2>1, RunFrame
  <2>3. Numbered'
    BY <1>1, <1>2, <2>1 DEF Numbered
  <2>4. Going(r)'
    BY <2>1, <2>2 DEF Going, Exists
  <2> QED BY <1>1, <2>2, <2>3, <2>4, SeqKept
<1>9. CASE Decide(r)
  <2>0. PICK s, out : s = Decision(run[r].arg) /\ out = [St(r) EXCEPT !.status = s]
    OBVIOUS
  <2>1. /\ Returns(r, out) /\ status' = s /\ UNCHANGED <<version, reviews>>
        /\ run[r].at = "review"
    BY <2>0, <1>1, <1>9 DEF Decide, Going
  <2>2. out.status = s /\ s \in {"COMPLETED", "REWORK_REQUIRED"}
    BY <1>2, <2>0 DEF State, Decision
  <2>3. Route(at, out) = IF s = "COMPLETED" THEN "end" ELSE "draft"
    BY <1>a, <2>1, <2>2 DEF Route, route_after_review
  <2>4. Outgoing(at, out)'
    BY <1>a, <2>1, <2>2, <2>3 DEF Outgoing, Rests, Interrupts
  <2> QED BY <1>1, <1>3, <2>1, <2>2, <2>4 DEF Numbered, Exists
<1>10. CASE Misfit(r) \/ StageRaises(r)
  <2>1. UNCHANGED <<status, version, reviews>> /\ Fails(r) /\ Exists
    BY <1>1, <1>10 DEF Misfit, StageRaises, case, Going
  <2>2. (\A q \in Requests \ {r} : run'[q] = run[q]) /\ run'[r].pc = "failing"
    BY <2>1, RunFrame
  <2>3. Going(r)' /\ Numbered'
    BY <1>1, <2>1, <2>2 DEF Going, Exists, Numbered
  <2> QED BY <1>1, <2>2, <2>3, SeqKept
<1>11. CASE record_failure(r)
  <2>0. PICK out : out = [St(r) EXCEPT !.status = "FAILED"]
    OBVIOUS
  <2>1. Returns(r, out) /\ status' = "FAILED" /\ UNCHANGED <<version, reviews>>
    BY <2>0, <1>11 DEF record_failure
  <2>2. out.status = "FAILED"
    BY <1>2, <2>0 DEF State
  <2>3. Route(at, out) = "end"
    BY <1>a, <1>2, <2>2 DEF Route, route_after_stage, route_after_validation, route_after_review
  <2>4. Outgoing(at, out)'
    BY <1>a, <2>1, <2>2, <2>3 DEF Outgoing, Rests, Interrupts
  <2> QED BY <1>1, <1>3, <2>1, <2>4 DEF Numbered, Exists
<1> QED BY <1>4, <1>5, <1>6, <1>7, <1>8, <1>9, <1>10, <1>11

(***************************************************************************)
(* The invocation of the graph, its checkpoints, and the steps outside it. *)
(***************************************************************************)
LEMMA SeqOtherStep ==
  ASSUME Typed, Sequential, NEW r \in Requests,
         \/ Invoke(r) \/ Resume(r) \/ Checkpoint(r) \/ UpdateState(r) \/ Block(r)
         \/ delete_case(r) \/ adelete_thread(r) \/ RowIsGone(r)
  PROVE  Sequential'
<1> USE DEF At, InNode
<1>0. run[r].pc # "idle"
  BY DEF Invoke, Resume, Checkpoint, UpdateState, Block, delete_case, adelete_thread, RowIsGone
<1>1. Numbered /\ Going(r) /\ \A q \in Requests \ {r} : run[q].pc = "idle"
  BY <1>0 DEF Sequential
<1>2. /\ run[r].at \in Nodes /\ thread.st \in State /\ version \in Nat
      /\ thread \in [last: Nodes \cup {"none", "start"}, st: State]
  BY DEF Typed, RequestType
<1>3. CASE Invoke(r)
  <2>1. UNCHANGED <<status, version, reviews>> /\ status \in {"OPEN", "FAILED"}
    BY <1>1, <1>3 DEF Invoke, case, Going
  <2>2. /\ \A q \in Requests \ {r} : run'[q] = run[q]
        /\ run'[r].pc = "node" /\ run'[r].at = "load"
    BY <1>3, RunFrame DEF Invoke
  <2>3. Going(r)' /\ Numbered'
    BY <1>1, <2>1, <2>2 DEF Going, Exists, Numbered
  <2> QED BY <1>1, <2>2, <2>3, SeqKept
<1>4. CASE Resume(r)
  <2> DEFINE next == Route(thread.last, thread.st)
  <2>1. /\ UNCHANGED <<status, version, reviews, thread>>
        /\ Rest /\ Exists /\ status # "HARD_BLOCKED"
        /\ IF next \in {"none", "end"} THEN Ends(r) ELSE Enters(r, next, thread.st)
    BY <1>1, <1>4 DEF Resume, case, Going
  <2>2. next \in {"collect", "review", "end"} /\ (next \in Interrupts => Current(thread.st.version))
    BY <2>1 DEF Rest, Rests, Exists
  <2>3. Numbered' /\ (Rest <=> Rest')
    BY <1>1, <2>1 DEF Numbered, Rest, Rests, Current, Reviewed, Exists, Route, route_after_stage,
       route_after_validation, route_after_review
  <2> HIDE DEF next
  <2>4. CASE Ends(r)
    BY <1>1, <2>1, <2>3, <2>4, RunFrame, SeqKept
  <2>5. CASE next # "end" /\ Enters(r, next, thread.st)
    <3>1. /\ \A q \in Requests \ {r} : run'[q] = run[q]
          /\ run'[r].pc = "node" /\ run'[r].at = next /\ run'[r].st = thread.st
      BY <2>5, RunFrame
    <3>2. Going(r)'
      BY <2>1, <2>2, <2>5, <3>1 DEF Going, Exists, St, Current, Interrupts
    <3> QED BY <1>1, <2>3, <3>1, <3>2, SeqKept
  <2> QED BY <2>1, <2>2, <2>4, <2>5
<1>5. CASE Checkpoint(r)
  <2> DEFINE last == run[r].at
             out == run[r].out
             next == Route(last, out)
  <2>1. /\ UNCHANGED <<status, version, reviews>> /\ thread' = [last |-> last, st |-> out]
        /\ Exists /\ Outgoing(last, out)
        /\ IF next \in Interrupts \cup {"end"} THEN Ends(r) ELSE Enters(r, next, out)
    BY <1>1, <1>5 DEF Checkpoint, case, Going
  <2>2. Numbered'
    BY <1>1, <2>1 DEF Numbered
  <2>3. CASE next \in Interrupts \cup {"end"}
    <3>1. Rests(last, out) /\ Ends(r)
      BY <2>1, <2>3 DEF Outgoing
    <3>2. thread'.last = last /\ thread'.st = out
      BY <2>1
    <3> HIDE DEF last, out, next
    <3>3. Rest'
      BY <2>1, <3>1, <3>2 DEF Rest, Rests, Current, Reviewed, Exists, Route, route_after_stage,
         route_after_validation, route_after_review
    <3> QED BY <1>1, <2>2, <3>1, <3>3, RunFrame, SeqKept
  <2>4. CASE next \notin Interrupts \cup {"end"}
    <3>1. next \in {"draft", "validate"} /\ (next = "draft" => out.status # "FAILED")
      BY <1>2, <2>4 DEF Route, route_after_stage, route_after_validation, route_after_review,
         Interrupts
    <3>2. next = "validate" => Current(out.version)
      BY <2>1 DEF Outgoing
    <3>3. /\ \A q \in Requests \ {r} : run'[q] = run[q]
          /\ run'[r].pc = "node" /\ run'[r].at = next /\ run'[r].st = out
      BY <2>1, <2>4, RunFrame
    <3> HIDE DEF last, out, next
    <3>4. Going(r)'
      BY <2>1, <3>1, <3>2, <3>3 DEF Going, Exists, St, Current, Reviewed
    <3> QED BY <1>1, <2>2, <3>3, <3>4, SeqKept
  <2> QED BY <2>3, <2>4
<1>6. CASE UpdateState(r)
  <2> DEFINE st == [thread.st EXCEPT !.status = "HARD_BLOCKED", !.security = TRUE]
  <2>1. /\ UNCHANGED <<status, version, reviews>> /\ Exists /\ Goto(r, "block")
        /\ thread'.st = st
    BY <1>1, <1>6 DEF UpdateState, case, Going
  <2>2. st.status = "HARD_BLOCKED"
    BY <1>2 DEF State
  <2> HIDE DEF st
  <2>3. (\A q \in Requests \ {r} : run'[q] = run[q]) /\ run'[r].pc = "block"
    BY <2>1, RunFrame
  <2>4. Going(r)' /\ Numbered'
    BY <1>1, <2>1, <2>2, <2>3 DEF Going, Exists, Numbered
  <2> QED BY <1>1, <2>3, <2>4, SeqKept
<1>7. CASE Block(r)
  <2>1. /\ UNCHANGED <<version, reviews, thread>> /\ status' = "HARD_BLOCKED" /\ Ends(r)
        /\ thread.st.status = "HARD_BLOCKED"
    BY <1>1, <1>7 DEF Block, Settles, Going
  <2>2. Route(thread.last, thread.st) \notin Interrupts
    BY <2>1 DEF Route, route_after_stage, route_after_validation, route_after_review, Interrupts
  <2>3. Rest'
    BY <2>1, <2>2 DEF Rest, Rests, Exists, Route, route_after_stage, route_after_validation,
       route_after_review
  <2>4. Numbered'
    BY <1>1, <2>1 DEF Numbered
  <2> QED BY <1>1, <2>1, <2>3, <2>4, RunFrame, SeqKept
<1>8. CASE delete_case(r)
  <2>1. status' = "DELETED" /\ reviews' = {} /\ Goto(r, "forget")
    BY <1>8 DEF delete_case
  <2>2. (\A q \in Requests \ {r} : run'[q] = run[q]) /\ run'[r].pc = "forget"
    BY <2>1, RunFrame
  <2>3. Going(r)' /\ Numbered'
    BY <2>1, <2>2 DEF Going, Numbered
  <2> QED BY <1>1, <2>2, <2>3, SeqKept
<1>9. CASE adelete_thread(r)
  <2>1. /\ status' = "DELETED" /\ reviews' = {} /\ Ends(r)
        /\ thread'.last = "none"
    BY <1>1, <1>9 DEF adelete_thread, Settles, case, Going, NoThread
  <2>2. Rest' /\ Numbered'
    BY <2>1 DEF Rest, Rests, Exists, Route, Interrupts, Numbered
  <2> QED BY <1>1, <2>1, <2>2, RunFrame, SeqKept
<1>10. CASE RowIsGone(r)
  BY <1>1, <1>10 DEF RowIsGone, Going
<1> QED BY <1>3, <1>4, <1>5, <1>6, <1>7, <1>8, <1>9, <1>10

LEMMA SeqNext == Typed /\ Counted /\ SeqInv /\ [Next]_vars => SeqInv'
<1> SUFFICES ASSUME Typed, Counted, SeqInv, [Next]_vars, outages' = 0, ~overlapped'
             PROVE  Sequential'
  BY DEF SeqInv
<1>1. outages \in Nat /\ overlapped \in BOOLEAN
  BY DEF Counted
<1>2. CASE UNCHANGED vars
  <2>1. UNCHANGED <<status, version, reviews, thread, run, outages, overlapped>>
    BY <1>2 DEF vars, case, faults, history
  <2>2. Sequential
    BY <2>1 DEF SeqInv
  <2>3. (Rest <=> Rest') /\ (Quiet <=> Quiet') /\ Numbered'
    BY <2>1, <2>2 DEF Sequential, Quiet, Numbered, Rest, Rests, Current, Reviewed, Exists, Route,
       route_after_stage, route_after_validation, route_after_review
  <2>4. ASSUME NEW r \in Requests, Going(r) PROVE Going(r)'
    <3>1. Exists' = Exists /\ (\A v \in Nat : Current(v)' <=> Current(v))
      BY <2>1 DEF Exists, Current, Reviewed
    <3>2. ASSUME Outgoing(run[r].at, run[r].out) PROVE Outgoing(run[r].at, run[r].out)'
      BY <2>1, <3>2 DEF Outgoing, Rests, Current, Reviewed, Exists,
         Route, route_after_stage, route_after_validation, route_after_review
    <3>3. Current(St(r).version)' <=> Current(St(r).version)
      BY <2>1 DEF Current, Reviewed, St
    <3> QED BY <2>1, <2>3, <2>4, <3>1, <3>2, <3>3 DEF Going, At, InNode, St
  <2> QED BY <2>1, <2>2, <2>3, <2>4 DEF Sequential, At
<1>3. CASE Crash
  BY <1>1, <1>3 DEF Crash
<1>4. ASSUME NEW r \in Requests, OutageHits(r) PROVE FALSE
  BY <1>1, <1>4 DEF OutageHits
<1>5. ASSUME NEW r \in Requests, Arrives(r) PROVE Sequential'
  <2>1. outages' = outages /\ (overlapped => overlapped')
    BY <1>5 DEF Arrives, Start, Review, supply_information, record_security_event, reset, Begin,
       faults
  <2> QED BY <1>5, <2>1, SeqArrives DEF SeqInv
<1>6. ASSUME NEW r \in Requests, RequestStep(r) \/ StageRaises(r) PROVE Sequential'
  <2>1. UNCHANGED <<outages, overlapped>>
    BY <1>6
       DEF RequestStep, GraphStep, Invoke, Resume, load_and_retrieve, draft, validate, Controlled,
           collect_information, save_review, SaveEdit, Decide, Misfit, record_failure, Checkpoint,
           UpdateState, Block, delete_case, adelete_thread, RowIsGone, StageRaises, Settles, faults,
           history
  <2>2. Sequential
    BY <2>1 DEF SeqInv
  <2> QED BY <1>6, <2>2, SeqNodeStep, SeqOtherStep DEF RequestStep, GraphStep
<1> QED BY <1>2, <1>3, <1>4, <1>5, <1>6 DEF Next

(***************************************************************************)
(* Row and checkpoint agree whenever the case is at rest, after any number *)
(* of requests one after the other and any errors of stages                *)
(* (service.py 123-183, builder.py 261-511).                               *)
(***************************************************************************)
THEOREM CaseRestIsResumable == Spec => []RestIsResumable
<1>1. Init => SeqInv
  <2> SUFFICES ASSUME Init PROVE Sequential
    BY DEF SeqInv
  <2>1. \A r \in Requests : run[r].pc = "idle"
    BY DEF Init, Idle
  <2>2. Rest
    BY DEF Init, Rest, Rests, NoThread, Route, Exists, Interrupts
  <2> QED BY <2>1, <2>2 DEF Init, Sequential, Numbered, At
<1>2. SeqInv => RestIsResumable
  BY DEF SeqInv, Sequential, Rest, Rests, RestIsResumable, NextNode, Current
<1> QED BY <1>1, <1>2, TypedInit, TypedNext, CountedInit, CountedStep, SeqNext, PTL DEF Spec

-----------------------------------------------------------------------------
(***************************************************************************)
(* Once a blocked case is at rest, only requests arrive that never enter   *)
(* the graph: security events and a reset.                                 *)
(***************************************************************************)
Held ==
  /\ status \in {"HARD_BLOCKED", "DELETED"}
  /\ \A r \in Requests : run[r].pc \in {"idle", "security", "block", "reset", "forget"}

LEMMA HeldStep == Typed /\ Held /\ [Next]_vars => Held'
<1> SUFFICES ASSUME Typed, Held, [Next]_vars PROVE Held'
  OBVIOUS
<1>1. CASE UNCHANGED vars
  BY <1>1 DEF vars, case, Held
<1>2. CASE Crash
  BY <1>2 DEF Crash, case, Held, Idle
<1>3. ASSUME NEW r \in Requests,
             Arrives(r) \/ RequestStep(r) \/ StageRaises(r) \/ OutageHits(r)
      PROVE  Held'
  <2>1. run[r].pc \in {"idle", "security", "block", "reset", "forget"}
    BY DEF Held
  <2>2. \/ record_security_event(r) \/ reset(r) \/ UpdateState(r) \/ Block(r)
        \/ delete_case(r) \/ adelete_thread(r) \/ RowIsGone(r) \/ OutageHits(r)
    <3>1. ~Start(r) /\ ~supply_information(r) /\ \A action \in ReviewAction : ~Review(r, action)
      BY DEF Held, Start, supply_information, Review, Exists
    <3>2. ~GraphStep(r) /\ ~StageRaises(r)
      BY <2>1
         DEF GraphStep, Invoke, Resume, load_and_retrieve, draft, validate, collect_information,
             save_review, SaveEdit, Decide, Misfit, record_failure, Checkpoint, StageRaises, At,
             InNode
    <3> QED BY <1>3, <3>1, <3>2 DEF Arrives, RequestStep
  <2>3. status' \in {"HARD_BLOCKED", "DELETED"}
    BY <2>2
       DEF record_security_event, reset, UpdateState, Block, delete_case, adelete_thread, RowIsGone,
           OutageHits, case, Held
  <2>4. /\ \A q \in Requests \ {r} : run'[q] = run[q]
        /\ run'[r].pc \in {"idle", "security", "block", "reset", "forget"}
    BY <2>2, RunFrame
       DEF record_security_event, reset, UpdateState, Block, delete_case, adelete_thread, RowIsGone,
           OutageHits, Settles
  <2> QED BY <2>3, <2>4 DEF Held
<1> QED BY <1>1, <1>2, <1>3 DEF Next

(***************************************************************************)
(* A block that was recorded while nothing was under way holds until the   *)
(* reset of the case, whatever requests, errors, outages and crashes       *)
(* follow (service.py 123-131, 142, 185-230).                              *)
(***************************************************************************)
THEOREM CaseBlockAtRestHolds == Spec => BlockAtRestHolds
<1>1. status = "HARD_BLOCKED" /\ Quiet => Held
  BY DEF Quiet, Held
<1>2. Held => status \in {"HARD_BLOCKED", "DELETED"}
  BY DEF Held
<1> QED BY <1>1, <1>2, TypedInit, TypedNext, HeldStep, PTL DEF Spec, BlockAtRestHolds

-----------------------------------------------------------------------------
(***************************************************************************)
(* The version that is released.  A decision approves the version it       *)
(* names, or the edited one that follows it.                               *)
(***************************************************************************)
Approves(d) ==
  \/ d.action = "APPROVE" /\ d.version = version
  \/ d.action = "EDIT_AND_APPROVE" /\ version = d.version + 1

Approved == \E d \in reviews : Approves(d)

ReleaseCurrent == ~overlapped /\ status = "COMPLETED" => Approved

(***************************************************************************)
(* Outages may leave row and checkpoint apart, so Sequential is of no use  *)
(* here.  What outages leave: a checkpoint at the review has the last      *)
(* version or one that was reviewed, which no review decides on again; the *)
(* same for the controls, unless they are going to block; a request in     *)
(* the graph works on what the checkpoint says; and the checkpoint of a    *)
(* completed case enters nothing but the review it has behind it.          *)
(***************************************************************************)
UpToDate(v) == v = version \/ Reviewed(v)

Enterable(node, st) ==
  /\ node = "review" => UpToDate(st.version)
  /\ node = "validate" => UpToDate(st.version) \/ st.security

Closed ==
  /\ thread.last \in {"validate", "review"}
  /\ NextNode = "end" \/ (NextNode = "review" /\ Reviewed(thread.st.version))

InGraph == {"node", "edit", "decide", "checkpoint", "failing"}

InStep(r) ==
  /\ ~At(r, "forget")
  /\ At(r, "invoke") => status \in {"OPEN", "FAILED"}
  /\ run[r].pc \in InGraph => run[r].at = NextNode /\ run[r].st = thread.st
  /\ At(r, "edit") =>
       /\ status # "COMPLETED" /\ Reviewed(version) /\ run[r].arg = "EDIT_AND_APPROVE"
       /\ \E d \in reviews : d.action = "EDIT_AND_APPROVE" /\ d.version = version
  /\ At(r, "decide") /\ run[r].arg \in Approvals => Approved
  /\ run[r].pc \in {"edit", "decide"} => run[r].at = "review" /\ Reviewed(thread.st.version)
  /\ At(r, "checkpoint") =>
       /\ Enterable(Route(run[r].at, run[r].out), run[r].out)
       /\ status = "COMPLETED" => Route(run[r].at, run[r].out) = "end"

Standing ==
  /\ Enterable(NextNode, thread.st)
  /\ status = "COMPLETED" => Approved /\ Closed
  /\ \A r \in Requests :
       ~At(r, "idle") => InStep(r) /\ \A q \in Requests \ {r} : At(q, "idle")

ReleaseInv == ~overlapped /\ status # "DELETED" => Standing

LEMMA StandingKept ==
  ASSUME NEW r \in Requests,
         \A q \in Requests \ {r} : run'[q] = run[q] /\ run[q].pc = "idle",
         Enterable(NextNode, thread.st)', status' = "COMPLETED" => Approved' /\ Closed',
         run'[r].pc # "idle" => InStep(r)'
  PROVE  Standing'
<1>1. \A q \in Requests \ {r} : At(q, "idle")'
  BY DEF At
<1>2. ASSUME NEW q \in Requests, ~At(q, "idle")'
      PROVE  InStep(q)' /\ \A p \in Requests \ {q} : At(p, "idle")'
  <2>1. q = r
    BY <1>1, <1>2
  <2> QED BY <1>1, <1>2, <2>1 DEF At
<1> QED BY <1>2 DEF Standing

(***************************************************************************)
(* The checkpoint stays what it was when it and the version stay.          *)
(***************************************************************************)
LEMMA CheckpointStays ==
  ASSUME UNCHANGED thread, reviews \subseteq reviews'
  PROVE  /\ NextNode' = NextNode
         /\ \A v : Reviewed(v) => Reviewed(v)'
         /\ Closed => Closed'
         /\ UNCHANGED version =>
              /\ Approved => Approved'
              /\ Enterable(NextNode, thread.st) => Enterable(NextNode, thread.st)'
<1>1. NextNode' = NextNode
  BY DEF NextNode
<1>2. \A v : Reviewed(v) => Reviewed(v)'
  BY DEF Reviewed
<1>3. Closed => Closed'
  BY <1>1, <1>2 DEF Closed, Reviewed
<1>4. UNCHANGED version /\ Approved => Approved'
  BY DEF Approved, Approves
<1>5. UNCHANGED version /\ Enterable(NextNode, thread.st) => Enterable(NextNode, thread.st)'
  BY <1>1, <1>2 DEF Enterable, UpToDate, Reviewed
<1> QED BY <1>1, <1>2, <1>3, <1>4, <1>5

(***************************************************************************)
(* A request in the graph keeps its node and its copy of the state.        *)
(***************************************************************************)
LEMMA NodeFrame ==
  ASSUME Typed, NEW r \in Requests
  PROVE  /\ \A pc : Goto(r, pc) => run'[r].st = run[r].st
         /\ \A out : Returns(r, out) => run'[r].st = run[r].st
         /\ Fails(r) => run'[r].at = run[r].at /\ run'[r].st = run[r].st
<1>1. run \in [Requests -> RequestType] /\ run[r] \in RequestType
  BY DEF Typed
<1>2. ASSUME NEW pc, Goto(r, pc) PROVE run'[r].st = run[r].st
  BY <1>1, <1>2 DEF Goto, RequestType
<1>3. ASSUME NEW out, Returns(r, out) PROVE run'[r].st = run[r].st
  BY <1>1, <1>3 DEF Returns, RequestType
<1>4. ASSUME Fails(r) PROVE run'[r].at = run[r].at /\ run'[r].st = run[r].st
  BY <1>1, <1>4 DEF Fails, RequestType
<1> QED BY <1>2, <1>3, <1>4

(***************************************************************************)
(* A node that returns: what it returns may be entered next, and the row   *)
(* agrees with it.                                                         *)
(***************************************************************************)
LEMMA StandingNodeStep ==
  ASSUME Typed, Counted, Standing, NEW r \in Requests,
         \/ load_and_retrieve(r)
         \/ \E kind \in RecommendationKind : draft(r, kind)
         \/ validate(r) \/ collect_information(r)
         \/ save_review(r) \/ SaveEdit(r) \/ Decide(r)
         \/ Misfit(r) \/ record_failure(r) \/ StageRaises(r)
  PROVE  Standing'
<1>0. run[r].pc # "idle" /\ run[r].pc \in InGraph
  BY DEF load_and_retrieve, draft, validate, collect_information, save_review, SaveEdit, Decide,
     Misfit, record_failure, StageRaises, At, InNode, InGraph
<1>1. InStep(r) /\ \A q \in Requests \ {r} : run[q].pc = "idle"
  BY <1>0 DEF Standing, At
<1>2. PICK at \in Nodes, st \in State : at = run[r].at /\ st = run[r].st
  BY DEF Typed, RequestType
<1>3. NextNode = at /\ thread.st = st /\ St(r) = st /\ version \in Nat
  BY <1>0, <1>1, <1>2 DEF InStep, St, Typed
<1>4. Enterable(at, st) /\ (status = "COMPLETED" => Approved /\ Closed)
  BY <1>3 DEF Standing
<1>5. UNCHANGED thread
  BY DEF load_and_retrieve, draft, validate, collect_information, save_review, SaveEdit, Decide,
     Misfit, record_failure, StageRaises
<1>6. NextNode' = at /\ thread'.st = st
  BY <1>3, <1>5, CheckpointStays DEF NextNode
<1>7. status = "COMPLETED" => at = "review"
  BY <1>2, <1>3, <1>4 DEF Closed
<1>8. ASSUME NEW out, Returns(r, out), Enterable(at, st)', Enterable(Route(at, out), out)',
             status' = "COMPLETED" => Approved' /\ Closed' /\ Route(at, out) = "end"
      PROVE  Standing'
  <2>1. /\ \A q \in Requests \ {r} : run'[q] = run[q]
        /\ run'[r].pc = "checkpoint" /\ run'[r].out = out
        /\ run'[r].at = at /\ run'[r].st = st
    BY <1>2, <1>8, RunFrame, NodeFrame
  <2>2. (Enterable(Route(run[r].at, run[r].out), run[r].out))'
    BY <1>8, <2>1 DEF Enterable, UpToDate, Reviewed
  <2>3. InStep(r)'
    BY <1>6, <1>8, <2>1, <2>2 DEF InStep, At, InGraph
  <2>4. Enterable(NextNode, thread.st)'
    BY <1>6, <1>8 DEF Enterable, UpToDate, Reviewed
  <2> QED BY <1>1, <1>8, <2>1, <2>3, <2>4, StandingKept
<1>9. CASE load_and_retrieve(r) \/ collect_information(r)
  <2>0. PICK out : out = [st EXCEPT !.status = "RUNNING"]
    OBVIOUS
  <2>1. Returns(r, out) /\ status' = "RUNNING" /\ UNCHANGED <<version, reviews>>
    BY <1>3, <1>9, <2>0 DEF load_and_retrieve, collect_information
  <2>2. out.status = "RUNNING" /\ at \in {"load", "collect"}
    BY <1>2, <1>9, <2>0 DEF State, load_and_retrieve, collect_information, InNode
  <2>3. Route(at, out) = "draft"
    BY <2>2 DEF Route, route_after_stage
  <2>4. Enterable(at, st)' /\ Enterable(Route(at, out), out)'
    BY <2>2, <2>3 DEF Enterable
  <2> QED BY <1>8, <2>1, <2>4
<1>10. ASSUME NEW kind \in RecommendationKind, draft(r, kind) PROVE Standing'
  <2>0. PICK out : out = [st EXCEPT !.version = version + 1, !.kind = kind]
    OBVIOUS
  <2>1. /\ Returns(r, out) /\ version' = version + 1 /\ UNCHANGED <<status, reviews>>
        /\ at = "draft"
    BY <1>2, <1>3, <1>10, <2>0 DEF draft, InNode
  <2>2. out.version = version'
    BY <1>2, <2>0, <2>1 DEF State
  <2>3. Enterable(at, st)' /\ Enterable(Route(at, out), out)'
    BY <2>1, <2>2 DEF Enterable, UpToDate
  <2> QED BY <1>7, <1>8, <2>1, <2>3
<1>11. CASE validate(r)
  <2>0. PICK out : out = [st EXCEPT !.status = Outcome(st)]
    OBVIOUS
  <2>1. /\ Returns(r, out) /\ status' = Outcome(st) /\ UNCHANGED <<version, reviews>>
        /\ at = "validate"
    BY <1>2, <1>3, <1>11, <2>0 DEF validate, Controlled, InNode
  <2>2. out.version = st.version /\ out.status = Outcome(st)
    BY <1>2, <2>0 DEF State
  <2>3. Enterable(at, st)'
    BY <1>4, <2>1 DEF Enterable, UpToDate, Reviewed
  <2>4. Route(at, out) # "validate"
    BY <2>1 DEF Route, route_after_validation
  <2>5. Route(at, out) = "review" => ~st.security
    BY <2>1, <2>2 DEF Route, route_after_validation, Outcome, Blocked
  <2>6. Enterable(Route(at, out), out)'
    BY <1>4, <2>1, <2>2, <2>4, <2>5 DEF Enterable, UpToDate, Reviewed
  <2>7. status' # "COMPLETED"
    BY <2>1 DEF Outcome
  <2> QED BY <1>8, <2>1, <2>3, <2>6, <2>7
<1>12. CASE save_review(r)
  <2>1. /\ at = "review" /\ run[r].pc = "node" /\ run[r].arg \in ReviewAction
        /\ ~Reviewed(st.version)
        /\ reviews' = reviews \cup {[version |-> st.version, action |-> run[r].arg]}
        /\ Goto(r, IF run[r].arg = "EDIT_AND_APPROVE" THEN "edit" ELSE "decide")
        /\ UNCHANGED <<status, version>>
    BY <1>2, <1>3, <1>12 DEF save_review, InNode, At
  <2>2. st.version = version
    BY <1>4, <2>1 DEF Enterable, UpToDate
  <2>3. status # "COMPLETED"
    BY <1>3, <1>4, <2>1 DEF Closed
  <2>4. PICK arg \in ReviewAction : arg = run[r].arg
    BY <2>1
  <2>5. /\ \A q \in Requests \ {r} : run'[q] = run[q]
        /\ run'[r].pc = IF arg = "EDIT_AND_APPROVE" THEN "edit" ELSE "decide"
        /\ run'[r].at = at /\ run'[r].arg = arg /\ run'[r].st = st
    BY <1>2, <2>1, <2>4, RunFrame, NodeFrame
  <2>6. PICK d \in reviews' : d = [version |-> version, action |-> arg]
    BY <2>1, <2>2, <2>4
  <2>7. d.version = version /\ d.action = arg /\ Reviewed(version)' /\ Reviewed(st.version)'
    BY <2>2, <2>1, <2>6 DEF Reviewed
  <2>8. arg = "APPROVE" => Approved'
    BY <2>1, <2>6, <2>7 DEF Approved, Approves
  <2>9. InStep(r)'
    BY <1>6, <2>1, <2>3, <2>5, <2>6, <2>7, <2>8 DEF InStep, At, InGraph, Reviewed
  <2>10. Enterable(NextNode, thread.st)'
    BY <1>6, <2>1, <2>7 DEF Enterable, UpToDate, Reviewed
  <2> QED BY <1>1, <2>1, <2>3, <2>5, <2>9, <2>10, StandingKept
<1>13. CASE SaveEdit(r)
  <2>1. /\ run[r].pc = "edit" /\ version' = version + 1 /\ Goto(r, "decide")
        /\ UNCHANGED <<status, reviews>>
    BY <1>13 DEF SaveEdit, At
  <2>2. /\ status # "COMPLETED" /\ run[r].arg = "EDIT_AND_APPROVE"
        /\ at = "review" /\ Reviewed(st.version)
        /\ \E d \in reviews : d.action = "EDIT_AND_APPROVE" /\ d.version = version
    BY <1>1, <1>2, <1>3, <2>1 DEF InStep, At
  <2>3. Approved'
    BY <2>1, <2>2 DEF Approved, Approves
  <2>4. /\ \A q \in Requests \ {r} : run'[q] = run[q]
        /\ run'[r].pc = "decide" /\ run'[r].at = at
        /\ run'[r].arg = run[r].arg /\ run'[r].st = st
    BY <1>2, <2>1, RunFrame, NodeFrame
  <2>5. Reviewed(st.version)'
    BY <2>1, <2>2 DEF Reviewed
  <2>6. InStep(r)'
    BY <1>6, <2>2, <2>3, <2>4, <2>5 DEF InStep, At, InGraph, Reviewed
  <2>7. Enterable(NextNode, thread.st)'
    BY <1>6, <2>2, <2>5 DEF Enterable, UpToDate, Reviewed
  <2> QED BY <1>1, <2>1, <2>2, <2>4, <2>6, <2>7, StandingKept
<1>14. CASE Decide(r)
  <2>0. PICK arg \in ReviewAction \cup {"none", "start", "information", "security", "reset"} :
          arg = run[r].arg
    BY DEF Typed, RequestType
  <2>a. PICK out : out = [st EXCEPT !.status = Decision(arg)]
    OBVIOUS
  <2>1. /\ run[r].pc = "decide" /\ status' = Decision(arg) /\ Returns(r, out)
        /\ UNCHANGED <<version, reviews>>
    BY <1>3, <1>14, <2>0, <2>a DEF Decide, At
  <2>2. /\ at = "review" /\ Reviewed(st.version)
        /\ arg \in Approvals => Approved
    BY <1>1, <1>2, <1>3, <2>0, <2>1 DEF InStep, At
  <2>3. out.status = Decision(arg)
    BY <1>2, <2>a DEF State
  <2>4. Route(at, out) = IF arg \in Approvals THEN "end" ELSE "draft"
    BY <2>2, <2>3 DEF Route, route_after_review, Decision
  <2>5. Enterable(at, st)' /\ Enterable(Route(at, out), out)'
    BY <2>1, <2>2, <2>4 DEF Enterable, UpToDate, Reviewed
  <2>6. status' = "COMPLETED" => arg \in Approvals
    BY <2>1 DEF Decision
  <2>7. Closed'
    <3>1. thread.last \in {"validate", "review"}
      BY <1>3, <2>2 DEF NextNode, Route, route_after_stage, route_after_validation,
         route_after_review
    <3>2. Reviewed(st.version)'
      BY <2>1, <2>2 DEF Reviewed
    <3> QED BY <1>5, <1>6, <2>2, <3>1, <3>2 DEF Closed, Reviewed
  <2>8. Approved => Approved'
    BY <1>5, <2>1, CheckpointStays
  <2> QED BY <1>8, <2>1, <2>2, <2>4, <2>5, <2>6, <2>7, <2>8
<1>15. CASE Misfit(r) \/ StageRaises(r)
  <2>1. Fails(r) /\ UNCHANGED case
    BY <1>15 DEF Misfit, StageRaises
  <2>2. /\ \A q \in Requests \ {r} : run'[q] = run[q]
        /\ run'[r].pc = "failing" /\ run'[r].at = at /\ run'[r].st = st
    BY <1>2, <2>1, RunFrame, NodeFrame
  <2>3. InStep(r)'
    BY <1>6, <2>2 DEF InStep, At, InGraph
  <2>4. /\ Enterable(NextNode, thread.st)'
        /\ status' = "COMPLETED" => Approved' /\ Closed'
    BY <1>5, <2>1, CheckpointStays DEF Standing, case
  <2> QED BY <1>1, <2>2, <2>3, <2>4, StandingKept
<1>16. CASE record_failure(r)
  <2>0. PICK out : out = [st EXCEPT !.status = "FAILED"]
    OBVIOUS
  <2>1. Returns(r, out) /\ status' = "FAILED" /\ UNCHANGED <<version, reviews>>
    BY <1>3, <1>16, <2>0 DEF record_failure
  <2>2. out.status = "FAILED"
    BY <1>2, <2>0 DEF State
  <2>3. Route(at, out) = "end"
    BY <1>2, <2>2 DEF Route, route_after_stage, route_after_validation, route_after_review
  <2>4. Enterable(at, st)' /\ Enterable(Route(at, out), out)'
    BY <1>4, <2>1, <2>3 DEF Enterable, UpToDate, Reviewed
  <2> QED BY <1>8, <2>1, <2>4
<1> QED BY <1>9, <1>10, <1>11, <1>12, <1>13, <1>14, <1>15, <1>16

(***************************************************************************)
(* A request that arrives finds the case at rest.                          *)
(***************************************************************************)
LEMMA StandingArrives ==
  ASSUME Typed, Standing, NEW r \in Requests, Arrives(r), ~overlapped'
  PROVE  Standing'
<1>1. PICK arg, pc : Begin(r, arg, pc) /\ pc \in {"invoke", "resume", "security", "reset"}
  BY DEF Arrives, Start, Review, supply_information, record_security_event, reset
<1>2. Quiet
  BY <1>1 DEF Begin
<1>3. /\ \A q \in Requests \ {r} : run'[q] = run[q] /\ run[q].pc = "idle"
      /\ run'[r].pc = pc
  BY <1>1, <1>2, RunFrame DEF Quiet
<1>4. UNCHANGED <<version, reviews, thread>>
  BY DEF Arrives, Start, Review, supply_information, record_security_event, reset, case
<1>5. status' = status \/ (status = "ABSENT" /\ status' = "OPEN")
  BY DEF Arrives, Start, Review, supply_information, record_security_event, reset, case
<1>6. pc = "invoke" => status' \in {"OPEN", "FAILED"}
  <2>1. CASE Start(r)
    BY <2>1 DEF Start
  <2>2. CASE supply_information(r) \/ \E action \in ReviewAction : Review(r, action)
    <3>1. run'[r].pc = "resume"
      BY <2>2, RunFrame DEF supply_information, Review
    <3> QED BY <1>3, <3>1
  <2>3. CASE record_security_event(r) \/ reset(r)
    <3>1. run'[r].pc \in {"security", "reset"}
      BY <2>3, RunFrame DEF record_security_event, reset
    <3> QED BY <1>3, <3>1
  <2> QED BY <2>1, <2>2, <2>3 DEF Arrives
<1>7. InStep(r)'
  BY <1>1, <1>3, <1>6 DEF InStep, At, InGraph
<1>8. /\ Enterable(NextNode, thread.st)'
      /\ status' = "COMPLETED" => Approved' /\ Closed'
  BY <1>4, <1>5, CheckpointStays DEF Standing
<1> QED BY <1>3, <1>7, <1>8, StandingKept

(***************************************************************************)
(* The invocation of the graph, its checkpoints, and the steps outside it  *)
(* that leave the row there.                                               *)
(***************************************************************************)
LEMMA StandingOtherStep ==
  ASSUME Typed, Standing, NEW r \in Requests,
         \/ Invoke(r) \/ Resume(r) \/ Checkpoint(r) \/ UpdateState(r) \/ Block(r)
         \/ adelete_thread(r) \/ RowIsGone(r) \/ OutageHits(r)
  PROVE  Standing'
<1>0. run[r].pc # "idle"
  BY DEF Invoke, Resume, Checkpoint, UpdateState, Block, adelete_thread, RowIsGone, OutageHits, At
<1>1. InStep(r) /\ \A q \in Requests \ {r} : run[q].pc = "idle"
  BY <1>0 DEF Standing, At
<1>2. /\ run[r].at \in Nodes /\ run[r].out \in State /\ thread.st \in State
      /\ thread.last \in Nodes \cup {"none", "start"}
  BY DEF Typed, RequestType
<1>3. /\ Enterable(NextNode, thread.st)
      /\ status = "COMPLETED" => Approved /\ Closed
  BY DEF Standing
<1>4. CASE Invoke(r)
  <2>0. PICK input : input = [thread.st EXCEPT !.status = "OPEN", !.security = FALSE]
    OBVIOUS
  <2>1. /\ status \in {"OPEN", "FAILED"} /\ UNCHANGED <<status, version, reviews>>
        /\ thread' = [last |-> "start", st |-> input] /\ Enters(r, "load", input)
    BY <1>1, <1>4, <2>0 DEF Invoke, case, InStep
  <2>2. /\ \A q \in Requests \ {r} : run'[q] = run[q]
        /\ run'[r].pc = "node" /\ run'[r].at = "load" /\ run'[r].st = input
    BY <2>1, RunFrame
  <2>3. NextNode' = "load" /\ thread'.st = input
    BY <2>1 DEF NextNode, Route
  <2>4. InStep(r)' /\ Enterable(NextNode, thread.st)'
    BY <2>2, <2>3 DEF InStep, At, InGraph, Enterable
  <2> QED BY <1>1, <2>1, <2>2, <2>4, StandingKept
<1>5. CASE Resume(r)
  <2>1. /\ UNCHANGED <<status, version, reviews, thread>>
        /\ IF NextNode \in {"none", "end"} THEN Ends(r) ELSE Enters(r, NextNode, thread.st)
    BY <1>5 DEF Resume, case, NextNode
  <2>2. /\ NextNode' = NextNode /\ Enterable(NextNode, thread.st)'
        /\ status' = "COMPLETED" => Approved' /\ Closed'
    BY <1>3, <2>1, CheckpointStays
  <2>3. CASE Ends(r)
    BY <1>1, <2>2, <2>3, RunFrame, StandingKept
  <2>4. CASE Enters(r, NextNode, thread.st)
    <3>1. /\ \A q \in Requests \ {r} : run'[q] = run[q]
          /\ run'[r].pc = "node" /\ run'[r].at = NextNode /\ run'[r].st = thread.st
      BY <2>4, RunFrame
    <3>2. InStep(r)'
      BY <2>1, <2>2, <3>1 DEF InStep, At, InGraph
    <3> QED BY <1>1, <2>2, <3>1, <3>2, StandingKept
  <2> QED BY <2>1, <2>3, <2>4
<1>6. CASE Checkpoint(r)
  <2>0. PICK last \in Nodes, out \in State : last = run[r].at /\ out = run[r].out
    BY <1>2
  <2>1. /\ UNCHANGED <<status, version, reviews>> /\ thread' = [last |-> last, st |-> out]
        /\ IF Route(last, out) \in Interrupts \cup {"end"} THEN Ends(r)
           ELSE Enters(r, Route(last, out), out)
    BY <1>6, <2>0 DEF Checkpoint, case
  <2>2. /\ Enterable(Route(last, out), out)
        /\ status = "COMPLETED" => Route(last, out) = "end"
        /\ last = NextNode
    BY <1>1, <1>6, <2>0 DEF InStep, Checkpoint, At, InGraph
  <2>3. NextNode' = Route(last, out) /\ thread'.st = out /\ thread'.last = last
    BY <2>1 DEF NextNode
  <2>4. Enterable(NextNode, thread.st)'
    BY <2>1, <2>2, <2>3 DEF Enterable, UpToDate, Reviewed
  <2>5. status = "COMPLETED" => Approved' /\ Closed'
    <3>1. SUFFICES ASSUME status = "COMPLETED" PROVE Approved' /\ Closed'
      OBVIOUS
    <3>2. Approved'
      BY <1>3, <2>1, <3>1 DEF Approved, Approves
    <3>3. last = "review"
      BY <1>3, <2>0, <2>2, <3>1 DEF Closed
    <3>4. Closed'
      BY <2>2, <2>3, <3>1, <3>3 DEF Closed
    <3> QED BY <3>2, <3>4
  <2>6. CASE Ends(r)
    BY <1>1, <2>1, <2>4, <2>5, <2>6, RunFrame, StandingKept
  <2>7. CASE Enters(r, Route(last, out), out)
    <3>1. /\ \A q \in Requests \ {r} : run'[q] = run[q]
          /\ run'[r].pc = "node" /\ run'[r].at = Route(last, out) /\ run'[r].st = out
      BY <2>7, RunFrame
    <3>2. InStep(r)'
      BY <2>3, <3>1 DEF InStep, At, InGraph
    <3> QED BY <1>1, <2>1, <2>4, <2>5, <3>1, <3>2, StandingKept
  <2> QED BY <2>1, <2>6, <2>7
<1>7. CASE UpdateState(r)
  <2>0. PICK st : st = [thread.st EXCEPT !.status = "HARD_BLOCKED", !.security = TRUE]
    OBVIOUS
  <2>a. st.status = "HARD_BLOCKED" /\ st.security = TRUE
    BY <1>2, <2>0 DEF State
  <2>b. PICK last : last = IF thread.last = "none" THEN "start" ELSE thread.last
    OBVIOUS
  <2>1. /\ UNCHANGED <<status, version, reviews>> /\ Goto(r, "block")
        /\ thread' = [last |-> last, st |-> st]
    BY <1>7, <2>0, <2>b DEF UpdateState, case
  <2>2. /\ \A q \in Requests \ {r} : run'[q] = run[q]
        /\ run'[r].pc = "block"
    BY <2>1, RunFrame
  <2>3. NextNode' = Route(last, st) /\ thread'.st = st /\ thread'.last = last
    BY <2>1 DEF NextNode
  <2>4. Route(last, st) # "review" /\ (last \in {"validate", "review"} => Route(last, st) = "end")
    BY <2>a DEF Route, route_after_stage, route_after_validation, route_after_review
  <2>5. Enterable(NextNode, thread.st)'
    BY <2>a, <2>3, <2>4 DEF Enterable
  <2>6. status = "COMPLETED" => Approved' /\ Closed'
    <3>1. SUFFICES ASSUME status = "COMPLETED" PROVE Approved' /\ Closed'
      OBVIOUS
    <3>2. Approved'
      BY <1>3, <2>1, <3>1 DEF Approved, Approves
    <3>3. last \in {"validate", "review"}
      BY <1>3, <2>b, <3>1 DEF Closed
    <3> QED BY <2>3, <2>4, <3>2, <3>3 DEF Closed
  <2>7. InStep(r)'
    BY <2>2 DEF InStep, At, InGraph
  <2> QED BY <1>1, <2>1, <2>2, <2>5, <2>6, <2>7, StandingKept
<1>8. CASE Block(r)
  <2>1. UNCHANGED <<version, reviews, thread>> /\ status' = "HARD_BLOCKED" /\ Ends(r)
    BY <1>8 DEF Block, Settles
  <2>2. Enterable(NextNode, thread.st)'
    BY <1>3, <2>1, CheckpointStays
  <2> QED BY <1>1, <2>1, <2>2, RunFrame, StandingKept
<1>9. CASE adelete_thread(r)
  BY <1>1, <1>9 DEF adelete_thread, InStep
<1>10. CASE RowIsGone(r) \/ OutageHits(r)
  <2>1. UNCHANGED <<status, version, reviews, thread>> /\ Ends(r)
    BY <1>10 DEF RowIsGone, OutageHits, case
  <2>2. /\ Enterable(NextNode, thread.st)'
        /\ status' = "COMPLETED" => Approved' /\ Closed'
    BY <1>3, <2>1, CheckpointStays
  <2> QED BY <1>1, <2>1, <2>2, RunFrame, StandingKept
<1> QED BY <1>4, <1>5, <1>6, <1>7, <1>8, <1>9, <1>10

LEMMA ReleaseStep == Typed /\ Counted /\ ReleaseInv /\ [Next]_vars => ReleaseInv'
<1> SUFFICES ASSUME Typed, Counted, ReleaseInv, [Next]_vars, ~overlapped', status' # "DELETED"
             PROVE  Standing'
  BY DEF ReleaseInv
<1>1. CASE UNCHANGED vars
  <2>1. UNCHANGED <<status, version, reviews, thread, run, overlapped>>
    BY <1>1 DEF vars, case, history
  <2>2. Standing
    BY <2>1 DEF ReleaseInv
  <2>3. /\ NextNode' = NextNode /\ Enterable(NextNode, thread.st)'
        /\ status' = "COMPLETED" => Approved' /\ Closed'
    BY <2>1, <2>2, CheckpointStays DEF Standing
  <2>4. (Approved => Approved') /\ \A v : Reviewed(v)' <=> Reviewed(v)
    BY <2>1 DEF Approved, Approves, Reviewed
  <2>5. ASSUME NEW r \in Requests, InStep(r) PROVE InStep(r)'
    <3>1. (Enterable(Route(run[r].at, run[r].out), run[r].out))'
          <=> Enterable(Route(run[r].at, run[r].out), run[r].out)
      BY <2>1 DEF Enterable, UpToDate, Reviewed, Route, route_after_stage,
         route_after_validation, route_after_review
    <3> QED BY <2>1, <2>3, <2>4, <2>5, <3>1 DEF InStep, At, InGraph, Reviewed
  <2> QED BY <2>1, <2>2, <2>3, <2>5 DEF Standing, At
<1>2. CASE Crash
  <2>1. /\ UNCHANGED <<status, version, reviews, thread, overlapped>>
        /\ \A r \in Requests : run'[r].pc = "idle"
    BY <1>2 DEF Crash, case, history, Idle
  <2>2. /\ Enterable(NextNode, thread.st)'
        /\ status' = "COMPLETED" => Approved' /\ Closed'
    BY <2>1, CheckpointStays DEF ReleaseInv, Standing
  <2> QED BY <2>1, <2>2 DEF Standing, At
<1>3. ASSUME NEW r \in Requests, Arrives(r) PROVE Standing'
  <2>1. ~overlapped /\ status # "DELETED"
    BY <1>3 DEF Arrives, Start, Review, supply_information, record_security_event, reset, Begin,
       Exists, case
  <2> QED BY <1>3, <2>1, StandingArrives DEF ReleaseInv
<1>4. ASSUME NEW r \in Requests, RequestStep(r) \/ StageRaises(r) \/ OutageHits(r)
      PROVE  Standing'
  <2>1. UNCHANGED overlapped
    BY <1>4
       DEF RequestStep, GraphStep, Invoke, Resume, load_and_retrieve, draft, validate, Controlled,
           collect_information, save_review, SaveEdit, Decide, Misfit, record_failure, Checkpoint,
           UpdateState, Block, delete_case, adelete_thread, RowIsGone, StageRaises, OutageHits,
           Settles, history
  <2>2. ~delete_case(r)
    BY DEF delete_case
  <2>3. status # "DELETED"
    BY <1>4
       DEF RequestStep, GraphStep, Invoke, Resume, load_and_retrieve, draft, validate,
           collect_information, save_review, SaveEdit, Decide, Misfit, record_failure, Checkpoint,
           UpdateState, Block, delete_case, adelete_thread, RowIsGone, StageRaises, OutageHits,
           Exists, case
  <2>4. Standing
    BY <2>1, <2>3 DEF ReleaseInv
  <2> QED BY <1>4, <2>2, <2>4, StandingNodeStep, StandingOtherStep DEF RequestStep, GraphStep
<1> QED BY <1>1, <1>2, <1>3, <1>4 DEF Next

(***************************************************************************)
(* As long as requests come one after the other, a completed case has      *)
(* released its last version: the one that was approved, or the edit that  *)
(* was saved with its approval.  Errors of stages, outages, crashes, late  *)
(* security events and resumed reviews do not change that (builder.py      *)
(* 261-511, service.py 123-183).                                           *)
(***************************************************************************)
THEOREM CaseReleasesCurrent == Spec => []ReleaseCurrent
<1>1. Init => ReleaseInv
  <2> SUFFICES ASSUME Init PROVE Standing
    BY DEF ReleaseInv
  <2>1. /\ status = "ABSENT" /\ NextNode = "none"
        /\ \A r \in Requests : run[r].pc = "idle"
    BY DEF Init, Idle, NoThread, NextNode, Route
  <2> QED BY <2>1 DEF Standing, Enterable, At
<1>2. ReleaseInv => ReleaseCurrent
  BY DEF ReleaseInv, ReleaseCurrent, Standing
<1> QED BY <1>1, <1>2, TypedInit, TypedNext, CountedInit, CountedStep, ReleaseStep, PTL DEF Spec

=============================================================================
