--------------------------- MODULE ProofAgentReview ---------------------------
(***************************************************************************)
(* ProofAgentArtifactEvaluator under the sessions of one experiment: each  *)
(* attempt at a session reads the governance files, asks the harness, and  *)
(* leaves an evaluation; the results endpoint summarizes them.             *)
(*                                                                         *)
(* evaluate runs in a thread: between its steps the files may be edited    *)
(* and other attempts, of the same session too, go on.  The three readings *)
(* take moments, the harness minutes.  The harness is external: it returns *)
(* any report, or raises.                                                  *)
(***************************************************************************)
EXTENDS GovernanceReadiness, ComplianceValidation

CONSTANTS
  Sessions,      \* session keys of the experiment
  Attempts,      \* the tasks that evaluate at a time
  NoSession,     \* the session of an idle task
  NoEvaluation,  \* the session has no result
  Documents,     \* document ids people may register
  Settings,      \* the proofagent sections a manifest may have
  Runs,          \* the finished runs with a recommendation
  Reports,       \* what the harness may report: verdicts, zero tolerance, gate
  MaxEdits       \* bound of the model: edits of the files

Setting ==
  [assess : BOOLEAN, registry : BOOLEAN, profile : BOOLEAN,
   policy : {"fail_job", "record_error"}]

Decisions == {"pass", "review", "block"}

ASSUME ReviewAssumption ==
  /\ NoSession \notin Sessions
  /\ Settings \subseteq Setting
  /\ \A s \in Settings : s.registry => s.assess
  /\ Runs \subseteq Run
  /\ Reports \subseteq
       [verdicts : UNION {[C -> Verdict] : C \in SUBSET Controls},
        zero : BOOLEAN, decision : Decisions]
  /\ MaxEdits \in Nat

VARIABLES
  setting,       \* the manifest's proofagent section, frozen
  registered,    \* documents in proofagent_evidence.yaml
  attempt,       \* [Attempts -> Attempt]
  evaluation,    \* [Sessions -> Evaluation \cup {NoEvaluation}]
  edits          \* of the model: edits so far

reviewVars == <<attempt, evaluation>>
vars == <<filesVars, setting, registered, attempt, evaluation, edits>>

CheckIds == {OwnersCheck, ReleaseCheck} \cup {CheckId[e] : e \in Entries}
Reading == [passing : SUBSET CheckIds, ready : BOOLEAN]
FilesSeen ==
  [ownership : [Roles -> Filled], releaseControls : BOOLEAN, approved : SUBSET Entries]

Attempt ==
  [pc : {"idle", "documents", "readiness", "harness"}, session : Sessions \cup {NoSession},
   fields : SUBSET Fields, documents : SUBSET Documents, readiness : Reading,
   seen : FilesSeen]

(***************************************************************************)
(* What an attempt has gathered.  seen is of the model: what the files     *)
(* said when they were read.                                               *)
(***************************************************************************)
NothingRead == [passing |-> {}, ready |-> FALSE]
Files == [ownership |-> ownership, releaseControls |-> releaseControls, approved |-> approved]

Unread == [ownership |-> [r \in Roles |-> "missing"], releaseControls |-> FALSE, approved |-> {}]

Idle ==
  [pc |-> "idle", session |-> NoSession, fields |-> {}, documents |-> {},
   readiness |-> NothingRead, seen |-> Unread]

AskedForCompliance == setting.assess
Validates == setting.assess /\ setting.registry /\ \E c \in Controls : Rules[c] # NoRule

-----------------------------------------------------------------------------
(***************************************************************************)
(* The handler of a session that has no result yet comes to its evaluation *)
(* with the governance evidence of its run.                                *)
(***************************************************************************)
Begin(a, s, run) ==
  /\ attempt[a].pc = "idle"
  /\ evaluation[s] = NoEvaluation
  /\ attempt' = [attempt EXCEPT ![a] = [Idle EXCEPT !.pc = "documents", !.session = s,
                                                    !.fields = RuntimeEvidence(run)]]
  /\ UNCHANGED <<filesVars, setting, registered, evaluation, edits>>

(***************************************************************************)
(* load_documentary_evidence: only with a registry.                        *)
(***************************************************************************)
ReadDocuments(a) ==
  /\ attempt[a].pc = "documents"
  /\ attempt' = [attempt EXCEPT
                   ![a].pc = "readiness",
                   ![a].documents = IF setting.registry THEN registered ELSE {}]
  /\ UNCHANGED <<filesVars, setting, registered, evaluation, edits>>

ReadReadiness(a) ==
  /\ attempt[a].pc = "readiness"
  /\ attempt' = [attempt EXCEPT ![a].pc = "harness", ![a].readiness = Readiness,
                                ![a].seen = Files]
  /\ UNCHANGED <<filesVars, setting, registered, evaluation, edits>>

(***************************************************************************)
(* The evaluation made of a report: the verdicts, validated when there are *)
(* rules, and the hard blocks.                                             *)
(***************************************************************************)
EvidenceOf(t) == Available(t.documents, t.fields, t.readiness.passing)

Verdicts(t, report) ==
  IF Validates THEN Validated(report.verdicts, EvidenceOf(t)) ELSE Unvalidated(report.verdicts)

HardBlocks(t, report) ==
  {b \in {"zero_tolerance", "production_not_approved", "unsupported_positive_verdict",
          "governance_gate"} :
     CASE b = "zero_tolerance"               -> report.zero
       [] b = "production_not_approved"      -> ~t.readiness.ready
       [] b = "unsupported_positive_verdict" -> Validates /\ Unsupported(Verdicts(t, report))
       [] b = "governance_gate"              -> setting.profile /\ report.decision = "block"}

EvaluationOf(t, report) ==
  [kind |-> "report", verdicts |-> Verdicts(t, report),
   blocks |-> HardBlocks(t, report), zero |-> report.zero,
   evidence |-> EvidenceOf(t), seen |-> t.seen]

ErrorOf(t) ==
  [kind |-> "error", verdicts |-> <<>>, blocks |-> {}, zero |-> FALSE,
   evidence |-> {}, seen |-> t.seen]

(***************************************************************************)
(* The queue keeps the first result of a session.  Mutant: the last.       *)
(***************************************************************************)
MutantLastEvaluation(s, e) == [evaluation EXCEPT ![s] = e]
Kept(s, e) ==
  IF evaluation[s] = NoEvaluation THEN [evaluation EXCEPT ![s] = e] ELSE evaluation

Leave(a) == attempt' = [attempt EXCEPT ![a] = Idle]

Report(a, report) ==
  /\ attempt[a].pc = "harness"
  /\ AskedForCompliance \/ DOMAIN report.verdicts = {}
  /\ evaluation' = Kept(attempt[a].session, EvaluationOf(attempt[a], report))
  /\ Leave(a)
  /\ UNCHANGED <<filesVars, setting, registered, edits>>

(***************************************************************************)
(* A file that does not load or a harness that raises: without a result,   *)
(* or with one that only names the error.                                  *)
(***************************************************************************)
Raise(a) ==
  /\ attempt[a].pc # "idle"
  /\ evaluation' = IF setting.policy = "record_error"
                   THEN Kept(attempt[a].session, ErrorOf(attempt[a]))
                   ELSE evaluation
  /\ Leave(a)
  /\ UNCHANGED <<filesVars, setting, registered, edits>>

(***************************************************************************)
(* The people who edit the files.                                          *)
(***************************************************************************)
Edited == edits < MaxEdits /\ edits' = edits + 1 /\ UNCHANGED <<setting, attempt, evaluation>>

EditGovernance ==
  /\ Edited
  /\ \/ \E r \in Roles, how \in Filled : FillRole(r, how)
     \/ ChangeRelease
     \/ \E e \in Entries : Approve(e) \/ Withdraw(e)
  /\ UNCHANGED registered

EditRegistry ==
  /\ Edited
  /\ \E d \in Documents :
       registered' = IF d \in registered THEN registered \ {d} ELSE registered \cup {d}
  /\ UNCHANGED filesVars

-----------------------------------------------------------------------------
Init ==
  /\ ownership \in [Roles -> Filled]
  /\ releaseControls \in BOOLEAN
  /\ approved \in SUBSET Entries
  /\ setting \in Settings
  /\ registered \in SUBSET Documents
  /\ attempt = [a \in Attempts |-> Idle]
  /\ evaluation = [s \in Sessions |-> NoEvaluation]
  /\ edits = 0

Next ==
  \/ \E a \in Attempts, s \in Sessions, run \in Runs : Begin(a, s, run)
  \/ \E a \in Attempts : ReadDocuments(a) \/ ReadReadiness(a) \/ Raise(a)
  \/ \E a \in Attempts, report \in Reports : Report(a, report)
  \/ EditGovernance
  \/ EditRegistry

Spec == Init /\ [][Next]_vars

-----------------------------------------------------------------------------
(***************************************************************************)
(* Properties.                                                             *)
(***************************************************************************)
Evidence == Available(Documents, Fields, CheckIds)

Judged == [raw : Status, proof : BOOLEAN, status : Status]

Evaluation ==
  [kind : {"report", "error"}, verdicts : UNION {[C -> Judged] : C \in SUBSET Controls},
   blocks : SUBSET {"zero_tolerance", "production_not_approved",
                    "unsupported_positive_verdict", "governance_gate"},
   zero : BOOLEAN, evidence : SUBSET Evidence, seen : FilesSeen]

(***************************************************************************)
(* Type invariant of the files, the attempts and the stored evaluations.   *)
(***************************************************************************)
TypeOK ==
  /\ ownership \in [Roles -> Filled]
  /\ releaseControls \in BOOLEAN
  /\ approved \in SUBSET Entries
  /\ setting \in Settings
  /\ registered \in SUBSET Documents
  /\ attempt \in [Attempts -> Attempt]
  /\ \A a \in Attempts : attempt[a].pc # "idle" => attempt[a].session \in Sessions
  /\ evaluation \in [Sessions -> Evaluation \cup {NoEvaluation}]
  /\ edits \in 0..MaxEdits

(***************************************************************************)
(* summarize_compliance_coverage over the results of the moment: the       *)
(* sessions that report on a control, and its status for triage.           *)
(***************************************************************************)
Reporting(c) ==
  {s \in Sessions : evaluation[s] # NoEvaluation /\ c \in DOMAIN evaluation[s].verdicts}

Aggregate(c) == Worst({evaluation[s].verdicts[c].status : s \in Reporting(c)})

(***************************************************************************)
(* The summary turns no missing evidence into a pass (compliance_summary   *)
(* 30, proofagent.md 139-146): a control shown met or partial has a rule   *)
(* that allows it and a session that held the evidence when it read the    *)
(* files, and no session with the evidence judged it worse.                *)
(***************************************************************************)
Stands(s, c) == Required(c) \subseteq evaluation[s].evidence
Judges(s, c, status) == evaluation[s].verdicts[c].raw = status

SummaryFaithful ==
  Validates => \A c \in Controls :
    /\ Aggregate(c) \in {"met", "partial"} =>
         /\ Aggregate(c) = CeilingOf(c) \/ CeilingOf(c) = "met"
         /\ \E s \in Reporting(c) : Stands(s, c) /\ ~Judges(s, c, "not_evaluated")
         /\ \A s \in Reporting(c) :
              Stands(s, c) /\ evaluation[s].verdicts[c].proof => ~Judges(s, c, "attention")
    /\ Aggregate(c) = "met" =>
         \A s \in Reporting(c) : Stands(s, c) => ~Judges(s, c, "partial")

(***************************************************************************)
(* An evaluation without a hard block can be relied on (evaluator.py       *)
(* 361-402): no zero-tolerance cap, no met verdict that validation         *)
(* lowered, and when its attempt read the files every role had an owner,   *)
(* the release demanded a human, and all that production demands was       *)
(* approved.  A configured check with the id of a built-in one would pass  *)
(* for it.                                                                 *)
(***************************************************************************)
ReadyFiles(files) ==
  /\ \A r \in Roles : files.ownership[r] # "TBD"
  /\ files.releaseControls
  /\ \A e \in Demanded : \E k \in files.approved : CheckId[k] = CheckId[e]

ClearMeansReady ==
  (\A e \in Entries : CheckId[e] \notin {OwnersCheck, ReleaseCheck}) =>
    \A s \in Sessions :
      (evaluation[s] # NoEvaluation /\ evaluation[s].kind = "report"
         /\ evaluation[s].blocks = {}) =>
        /\ ReadyFiles(evaluation[s].seen)
        /\ ~evaluation[s].zero
        /\ Validates => \A c \in DOMAIN evaluation[s].verdicts :
             Judges(s, c, "met") => evaluation[s].verdicts[c].status = "met"

(***************************************************************************)
(* The status shown for triage only gets worse as sessions report: once a  *)
(* control is assessed, nothing a later session, a late attempt or an edit *)
(* of the files does improves it or hides it (proofagent.md 163-168,       *)
(* compliance_summary 73-88).                                              *)
(***************************************************************************)
TriageOnlyWorsens ==
  [][\A c \in Controls : Aggregate(c) \in Assessed =>
       Priority(Aggregate(c)') <= Priority(Aggregate(c))]_vars

=============================================================================
