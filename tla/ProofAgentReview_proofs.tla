----------------------- MODULE ProofAgentReview_proofs -----------------------
(***************************************************************************)
(* Proofs about the evaluation of sessions, for every registry of rules,   *)
(* every number of sessions and attempts, any edits of the files and any   *)
(* reports.                                                                *)
(*                                                                         *)
(* The properties speak of what is stored; each stored evaluation was made *)
(* in one step from what its attempt had read, so the invariant says what  *)
(* an attempt knows of the files it has read (AttemptsSound) and what a    *)
(* stored evaluation is made of (EvaluationsSound).                        *)
(***************************************************************************)
EXTENDS ProofAgentReview, TLAPS

NoClash == \A e \in Entries : CheckId[e] \notin {OwnersCheck, ReleaseCheck}

Capped(e, c) ==
  e.verdicts[c].status =
    CappedStatus(e.verdicts[c].raw, CeilingOf(c), Required(c) \subseteq e.evidence,
                 e.verdicts[c].proof)

Clear(e) ==
  /\ NoClash => ReadyFiles(e.seen)
  /\ ~e.zero
  /\ Validates => \A c \in DOMAIN e.verdicts :
       e.verdicts[c].raw = "met" => e.verdicts[c].status = "met"

EvaluationSound(e) ==
  /\ Validates => \A c \in DOMAIN e.verdicts : Capped(e, c)
  /\ (e.kind = "report" /\ e.blocks = {}) => Clear(e)

AttemptSound(t) ==
  (t.pc = "harness" /\ t.readiness.ready /\ NoClash) => ReadyFiles(t.seen)

AttemptsSound == \A a \in Attempts : AttemptSound(attempt[a])
EvaluationsSound ==
  \A s \in Sessions : evaluation[s] # NoEvaluation => EvaluationSound(evaluation[s])

-----------------------------------------------------------------------------
(***************************************************************************)
(* The worst of some verdicts is one of them, and none is worse.           *)
(***************************************************************************)
LEMMA WorstIsWorst ==
  ASSUME NEW S, S \cap Assessed # {}
  PROVE  /\ Worst(S) \in S \cap Assessed
         /\ \A t \in S \cap Assessed : Priority(Worst(S)) <= Priority(t)
<1>1. Assessed = {"met", "partial", "attention"}
  BY DEF Assessed, Status
<1>2. /\ Priority("attention") = 0
      /\ Priority("partial") = 1
      /\ Priority("met") = 2
  BY DEF Priority
<1>3. \E s \in S \cap Assessed : \A t \in S \cap Assessed : Priority(s) <= Priority(t)
  <2>1. CASE "attention" \in S
    BY <1>1, <1>2, <2>1
  <2>2. CASE "attention" \notin S /\ "partial" \in S
    BY <1>1, <1>2, <2>2
  <2>3. CASE "attention" \notin S /\ "partial" \notin S
    BY <1>1, <1>2, <2>3
  <2> QED BY <2>1, <2>2, <2>3
<1>4. Worst(S) = CHOOSE s \in S \cap Assessed :
                   \A t \in S \cap Assessed : Priority(s) <= Priority(t)
  BY DEF Worst
<1> QED BY <1>3, <1>4

(***************************************************************************)
(* More verdicts make the worst no better.                                 *)
(***************************************************************************)
LEMMA WorstOfMore ==
  ASSUME NEW S, NEW T, S \subseteq T, Worst(S) \in Assessed
  PROVE  Priority(Worst(T)) <= Priority(Worst(S))
<1>1. S \cap Assessed # {}
  BY DEF Worst, Assessed, Status
<1>2. Worst(S) \in T \cap Assessed
  BY <1>1, WorstIsWorst
<1> QED BY <1>2, WorstIsWorst

(***************************************************************************)
(* A capped verdict that is still positive had its evidence and a rule.    *)
(***************************************************************************)
LEMMA CeilingTyped ==
  ASSUME NEW c \in Controls
  PROVE  CeilingOf(c) \in {"met", "partial", "not_evaluated"}
BY ValidationAssumption DEF CeilingOf

(***************************************************************************)
(* The built-in checks and what production demands, as the files say.      *)
(***************************************************************************)
LEMMA ReadyMeansReady ==
  ASSUME NoClash, ProductionReady, approved \subseteq Entries
  PROVE  ReadyFiles(Files)
<1>1. OwnersCheck # ReleaseCheck
  BY DEF OwnersCheck, ReleaseCheck
<1>2. Blocking \subseteq Passing
  BY DEF ProductionReady
<1>3. OwnersCheck \in BuiltinPassing /\ ReleaseCheck \in BuiltinPassing
  BY <1>2 DEF Blocking, Passing, NoClash
<1>4. Unassigned = {} /\ releaseControls
  BY <1>1, <1>3 DEF BuiltinPassing
<1>5. ASSUME NEW e \in Demanded PROVE \E k \in approved : CheckId[k] = CheckId[e]
  <2>1. CheckId[e] \in Passing
    BY <1>2 DEF Blocking
  <2>2. CheckId[e] \notin BuiltinPassing
    BY ReadinessAssumption DEF NoClash, BuiltinPassing
  <2> QED BY <2>1, <2>2 DEF Passing
<1> QED BY <1>4, <1>5 DEF ReadyFiles, Files, Unassigned

-----------------------------------------------------------------------------
(***************************************************************************)
(* What an attempt makes of a report is sound, and of the right type.      *)
(***************************************************************************)
LEMMA VerdictsTyped ==
  ASSUME NEW t \in Attempt, NEW report \in Reports
  PROVE  /\ Verdicts(t, report) \in UNION {[C -> Judged] : C \in SUBSET Controls}
         /\ DOMAIN Verdicts(t, report) = DOMAIN report.verdicts
         /\ DOMAIN report.verdicts \subseteq Controls
<1>1. PICK C \in SUBSET Controls : report.verdicts \in [C -> Verdict]
  BY ReviewAssumption
<1>2. DOMAIN report.verdicts = C
  BY <1>1
<1>3. \A c \in C : /\ report.verdicts[c].status \in Status
                  /\ report.verdicts[c].proof \in BOOLEAN
  BY <1>1 DEF Verdict
<1>4. ASSUME NEW c \in C PROVE ValidatedStatus(c, report.verdicts[c], EvidenceOf(t)) \in Status
  BY <1>3, <1>4 DEF ValidatedStatus, CappedStatus, Status
<1>5. Validated(report.verdicts, EvidenceOf(t)) \in [C -> Judged]
  BY <1>2, <1>3, <1>4 DEF Validated, Judged
<1>6. Unvalidated(report.verdicts) \in [C -> Judged]
  BY <1>2, <1>3 DEF Unvalidated, Judged
<1>7. Verdicts(t, report) \in [C -> Judged]
  BY <1>5, <1>6 DEF Verdicts
<1>8. DOMAIN Verdicts(t, report) = C
  BY <1>7
<1> QED BY <1>2, <1>7, <1>8

LEMMA EvidenceTyped ==
  ASSUME NEW t \in Attempt
  PROVE  EvidenceOf(t) \subseteq Evidence
<1>1. /\ t.documents \subseteq Documents
      /\ t.fields \subseteq Fields
      /\ t.readiness.passing \subseteq CheckIds
  BY DEF Attempt, Reading
<1> HIDE DEF Fields, CheckIds
<1> QED BY <1>1 DEF EvidenceOf, Evidence, Available, Items

LEMMA EvaluationTyped ==
  ASSUME NEW t \in Attempt, NEW report \in Reports
  PROVE  EvaluationOf(t, report) \in Evaluation
<1>1. report.zero \in BOOLEAN
  BY ReviewAssumption
<1>2. HardBlocks(t, report) \in SUBSET {"zero_tolerance", "production_not_approved",
                                       "unsupported_positive_verdict", "governance_gate"}
  BY DEF HardBlocks
<1>3. t.seen \in FilesSeen
  BY DEF Attempt
<1> QED BY <1>1, <1>2, <1>3, VerdictsTyped, EvidenceTyped DEF EvaluationOf, Evaluation

LEMMA ErrorTyped ==
  ASSUME NEW t \in Attempt
  PROVE  ErrorOf(t) \in Evaluation
<1>1. t.seen \in FilesSeen
  BY DEF Attempt
<1>2. << >> \in [{} -> Judged]
  OBVIOUS
<1>3. << >> \in UNION {[C -> Judged] : C \in SUBSET Controls}
  BY <1>2
<1> QED BY <1>1, <1>3 DEF ErrorOf, Evaluation

LEMMA ReportSound ==
  ASSUME NEW t \in Attempt, t.pc = "harness", AttemptSound(t), NEW report \in Reports
  PROVE  EvaluationSound(EvaluationOf(t, report))
<1> DEFINE e == EvaluationOf(t, report)
<1>1. /\ e.verdicts = Verdicts(t, report)
      /\ e.evidence = EvidenceOf(t)
      /\ e.blocks = HardBlocks(t, report)
      /\ e.zero = report.zero
      /\ e.seen = t.seen
  BY DEF EvaluationOf
<1> HIDE DEF e
<1>2. ASSUME Validates, NEW c \in DOMAIN e.verdicts PROVE Capped(e, c)
  <2>1. e.verdicts = Validated(report.verdicts, EvidenceOf(t))
    BY <1>1, <1>2 DEF Verdicts
  <2>2. c \in DOMAIN report.verdicts
    BY <1>2, <2>1 DEF Validated
  <2>3. /\ e.verdicts[c].status = ValidatedStatus(c, report.verdicts[c], EvidenceOf(t))
        /\ e.verdicts[c].raw = report.verdicts[c].status
        /\ e.verdicts[c].proof = report.verdicts[c].proof
    BY <2>1, <2>2 DEF Validated
  <2> QED BY <1>1, <2>3 DEF Capped, ValidatedStatus
<1>3. ASSUME e.blocks = {} PROVE Clear(e)
  <2>1. /\ "zero_tolerance" \notin HardBlocks(t, report)
        /\ "production_not_approved" \notin HardBlocks(t, report)
        /\ "unsupported_positive_verdict" \notin HardBlocks(t, report)
    BY <1>1, <1>3
  <2>2. ~report.zero
    BY <2>1 DEF HardBlocks
  <2>3. t.readiness.ready
    BY <2>1 DEF HardBlocks
  <2>4. ~(Validates /\ Unsupported(Verdicts(t, report)))
    BY <2>1 DEF HardBlocks
  <2>5. NoClash => ReadyFiles(e.seen)
    BY <1>1, <2>3 DEF AttemptSound
  <2>6. Validates => \A c \in DOMAIN e.verdicts :
          e.verdicts[c].raw = "met" => e.verdicts[c].status = "met"
    BY <1>1, <2>4 DEF Unsupported
  <2> QED BY <1>1, <2>2, <2>5, <2>6 DEF Clear
<1> QED BY <1>2, <1>3 DEF EvaluationSound, e

LEMMA ErrorSound ==
  ASSUME NEW t
  PROVE  EvaluationSound(ErrorOf(t))
<1>1. ErrorOf(t).kind = "error" /\ ErrorOf(t).verdicts = << >>
  BY DEF ErrorOf
<1>2. DOMAIN << >> = {}
  OBVIOUS
<1> QED BY <1>1, <1>2 DEF EvaluationSound

-----------------------------------------------------------------------------
(***************************************************************************)
(* What is stored stays: a step stores at most one evaluation, that of an  *)
(* attempt at a session without one.                                       *)
(***************************************************************************)
StepStores ==
  \/ UNCHANGED evaluation
  \/ \E a \in Attempts, report \in Reports :
       /\ attempt[a].pc = "harness"
       /\ evaluation' = Kept(attempt[a].session, EvaluationOf(attempt[a], report))
  \/ \E a \in Attempts : evaluation' = Kept(attempt[a].session, ErrorOf(attempt[a]))

LEMMA StepStoresLemma ==
  ASSUME [Next]_vars
  PROVE  StepStores /\ UNCHANGED setting
<1>1. ASSUME NEW a \in Attempts, NEW s \in Sessions, NEW run \in Runs, Begin(a, s, run)
      PROVE  UNCHANGED <<evaluation, setting>>
  BY <1>1 DEF Begin
<1>2. ASSUME NEW a \in Attempts, ReadDocuments(a) \/ ReadReadiness(a)
      PROVE  UNCHANGED <<evaluation, setting>>
  BY <1>2 DEF ReadDocuments, ReadReadiness
<1>3. ASSUME NEW a \in Attempts, Raise(a) PROVE StepStores /\ UNCHANGED setting
  BY <1>3 DEF Raise, StepStores
<1>4. ASSUME NEW a \in Attempts, NEW report \in Reports, Report(a, report)
      PROVE  StepStores /\ UNCHANGED setting
  BY <1>4 DEF Report, StepStores
<1>5. CASE EditGovernance \/ EditRegistry
  BY <1>5 DEF EditGovernance, EditRegistry, Edited, StepStores
<1>6. CASE UNCHANGED vars
  BY <1>6 DEF vars, StepStores
<1> QED BY <1>1, <1>2, <1>3, <1>4, <1>5, <1>6 DEF Next, StepStores

(***************************************************************************)
(* Type correctness.                                                       *)
(***************************************************************************)
LEMMA AttemptWith ==
  ASSUME TypeOK, NEW a \in Attempts, NEW t \in Attempt,
         t.pc # "idle" => t.session \in Sessions,
         attempt' = [attempt EXCEPT ![a] = t]
  PROVE  /\ attempt' \in [Attempts -> Attempt]
         /\ \A b \in Attempts : attempt'[b].pc # "idle" => attempt'[b].session \in Sessions
<1>1. \A b \in Attempts : attempt'[b] = IF b = a THEN t ELSE attempt[b]
  BY DEF TypeOK
<1> QED BY <1>1 DEF TypeOK

LEMMA IdleTyped == Idle \in Attempt /\ Idle.pc = "idle"
<1>1. NothingRead \in Reading
  BY DEF NothingRead, Reading
<1>2. Unread \in FilesSeen
  BY DEF Unread, FilesSeen, Filled
<1> QED BY <1>1, <1>2 DEF Idle, Attempt

LEMMA ReadinessTyped ==
  ASSUME TypeOK
  PROVE  Readiness \in Reading
<1>1. Passing \subseteq CheckIds
  BY DEF TypeOK, Passing, BuiltinPassing, CheckIds
<1>2. ProductionReady \in BOOLEAN
  BY DEF ProductionReady
<1> QED BY <1>1, <1>2 DEF Readiness, Reading

LEMMA StoredTyped ==
  ASSUME TypeOK, StepStores
  PROVE  evaluation' \in [Sessions -> Evaluation \cup {NoEvaluation}]
<1>1. CASE UNCHANGED evaluation
  BY <1>1 DEF TypeOK
<1>2. ASSUME NEW a \in Attempts, NEW report \in Reports,
             evaluation' = Kept(attempt[a].session, EvaluationOf(attempt[a], report))
      PROVE  evaluation' \in [Sessions -> Evaluation \cup {NoEvaluation}]
  <2>1. EvaluationOf(attempt[a], report) \in Evaluation
    BY EvaluationTyped DEF TypeOK
  <2> QED BY <1>2, <2>1 DEF TypeOK, Kept
<1>3. ASSUME NEW a \in Attempts,
             evaluation' = Kept(attempt[a].session, ErrorOf(attempt[a]))
      PROVE  evaluation' \in [Sessions -> Evaluation \cup {NoEvaluation}]
  <2>1. ErrorOf(attempt[a]) \in Evaluation
    BY ErrorTyped DEF TypeOK
  <2> QED BY <1>3, <2>1 DEF TypeOK, Kept
<1> QED BY <1>1, <1>2, <1>3 DEF StepStores

LEMMA TypeStep ==
  ASSUME TypeOK, [Next]_vars
  PROVE  TypeOK'
<1>0. /\ evaluation' \in [Sessions -> Evaluation \cup {NoEvaluation}]
      /\ UNCHANGED setting
  BY StepStoresLemma, StoredTyped
<1> DEFINE FilesOK == /\ ownership \in [Roles -> Filled]
                      /\ releaseControls \in BOOLEAN
                      /\ approved \in SUBSET Entries
                      /\ registered \in SUBSET Documents
                      /\ edits \in 0..MaxEdits
           AttemptsOK == /\ attempt \in [Attempts -> Attempt]
                         /\ \A a \in Attempts :
                              attempt[a].pc # "idle" => attempt[a].session \in Sessions
<1>1. FilesOK /\ AttemptsOK
  BY DEF TypeOK
<1>2. ASSUME NEW a \in Attempts, NEW s \in Sessions, NEW run \in Runs, Begin(a, s, run)
      PROVE  FilesOK' /\ AttemptsOK'
  <2> DEFINE t == [Idle EXCEPT !.pc = "documents", !.session = s, !.fields = RuntimeEvidence(run)]
  <2>1. t \in Attempt /\ t.session = s
    BY IdleTyped DEF Attempt, RuntimeEvidence
  <2>2. attempt' = [attempt EXCEPT ![a] = t]
    BY <1>2 DEF Begin
  <2>3. UNCHANGED <<ownership, releaseControls, approved, registered, edits>>
    BY <1>2 DEF Begin, filesVars
  <2> HIDE DEF t
  <2> QED BY <1>1, <2>1, <2>2, <2>3, AttemptWith
<1>3. ASSUME NEW a \in Attempts, ReadDocuments(a) PROVE FilesOK' /\ AttemptsOK'
  <2> DEFINE t == [attempt[a] EXCEPT !.pc = "readiness",
                                     !.documents = IF setting.registry THEN registered ELSE {}]
  <2>1. t \in Attempt /\ t.session = attempt[a].session /\ attempt[a].pc # "idle"
    BY <1>1, <1>3 DEF Attempt, ReadDocuments
  <2>2. attempt' = [attempt EXCEPT ![a] = t]
    BY <1>1, <1>3 DEF ReadDocuments
  <2>3. UNCHANGED <<ownership, releaseControls, approved, registered, edits>>
    BY <1>3 DEF ReadDocuments, filesVars
  <2> HIDE DEF t
  <2> QED BY <1>1, <2>1, <2>2, <2>3, AttemptWith
<1>4. ASSUME NEW a \in Attempts, ReadReadiness(a) PROVE FilesOK' /\ AttemptsOK'
  <2> DEFINE t == [attempt[a] EXCEPT !.pc = "harness", !.readiness = Readiness, !.seen = Files]
  <2>0. Readiness \in Reading /\ Files \in FilesSeen
    BY <1>1, ReadinessTyped DEF Files, FilesSeen
  <2>1. t \in Attempt /\ t.session = attempt[a].session /\ attempt[a].pc # "idle"
    BY <1>1, <1>4, <2>0 DEF Attempt, ReadReadiness
  <2>2. attempt' = [attempt EXCEPT ![a] = t]
    BY <1>1, <1>4 DEF ReadReadiness
  <2>3. UNCHANGED <<ownership, releaseControls, approved, registered, edits>>
    BY <1>4 DEF ReadReadiness, filesVars
  <2> HIDE DEF t
  <2> QED BY <1>1, <2>1, <2>2, <2>3, AttemptWith
<1>5. ASSUME NEW a \in Attempts, Leave(a), UNCHANGED <<filesVars, registered, edits>>
      PROVE  FilesOK' /\ AttemptsOK'
  <2>1. attempt' = [attempt EXCEPT ![a] = Idle]
    BY <1>5 DEF Leave
  <2>2. AttemptsOK'
    BY <2>1, IdleTyped, AttemptWith
  <2>3. UNCHANGED <<ownership, releaseControls, approved, registered, edits>>
    BY <1>5 DEF filesVars
  <2> QED BY <1>1, <2>2, <2>3
<1>6. ASSUME EditGovernance PROVE FilesOK' /\ AttemptsOK'
  <2>1. UNCHANGED attempt /\ UNCHANGED registered /\ edits' \in 0..MaxEdits
    BY <1>1, <1>6, ReviewAssumption DEF EditGovernance, Edited
  <2>2. /\ ownership' \in [Roles -> Filled]
        /\ releaseControls' \in BOOLEAN
        /\ approved' \in SUBSET Entries
    BY <1>1, <1>6 DEF EditGovernance, FillRole, ChangeRelease, Approve, Withdraw
  <2>3. FilesOK'
    BY <1>1, <2>1, <2>2
  <2>4. AttemptsOK'
    BY <1>1, <2>1
  <2> QED BY <2>3, <2>4
<1>7. ASSUME EditRegistry PROVE FilesOK' /\ AttemptsOK'
  <2>1. /\ UNCHANGED attempt
        /\ UNCHANGED <<ownership, releaseControls, approved>>
        /\ edits' \in 0..MaxEdits
    BY <1>1, <1>7, ReviewAssumption DEF EditRegistry, Edited, filesVars
  <2>2. registered' \in SUBSET Documents
    BY <1>1, <1>7 DEF EditRegistry
  <2>3. FilesOK'
    BY <1>1, <2>1, <2>2
  <2>4. AttemptsOK'
    BY <1>1, <2>1
  <2> QED BY <2>3, <2>4
<1>8. ASSUME UNCHANGED vars PROVE FilesOK' /\ AttemptsOK'
  <2>1. /\ UNCHANGED attempt
        /\ UNCHANGED <<ownership, releaseControls, approved, registered, edits>>
    BY <1>8 DEF vars, filesVars
  <2>2. FilesOK'
    BY <1>1, <2>1
  <2>3. AttemptsOK'
    BY <1>1, <2>1
  <2> QED BY <2>2, <2>3
<1> HIDE DEF FilesOK, AttemptsOK
<1>9. ASSUME NEW a \in Attempts, Raise(a) PROVE FilesOK' /\ AttemptsOK'
  BY <1>5, <1>9 DEF Raise
<1>10. ASSUME NEW a \in Attempts, NEW report \in Reports, Report(a, report)
       PROVE  FilesOK' /\ AttemptsOK'
  BY <1>5, <1>10 DEF Report
<1>11. FilesOK' /\ AttemptsOK'
  BY <1>2, <1>3, <1>4, <1>6, <1>7, <1>8, <1>9, <1>10 DEF Next
<1> QED BY <1>0, <1>11 DEF TypeOK, FilesOK, AttemptsOK

-----------------------------------------------------------------------------
(***************************************************************************)
(* What an attempt knows, and what a stored evaluation is made of.         *)
(***************************************************************************)
LEMMA AttemptsStep ==
  ASSUME TypeOK, AttemptsSound, [Next]_vars
  PROVE  AttemptsSound'
<1> SUFFICES ASSUME NEW b \in Attempts PROVE AttemptSound(attempt'[b])
  BY DEF AttemptsSound
<1>1. AttemptSound(attempt[b])
  BY DEF AttemptsSound
<1>2. ASSUME NEW a \in Attempts, NEW t, t.pc # "harness", attempt' = [attempt EXCEPT ![a] = t]
      PROVE  AttemptSound(attempt'[b])
  <2>1. attempt'[b] = IF b = a THEN t ELSE attempt[b]
    BY <1>2 DEF TypeOK
  <2>2. AttemptSound(t)
    BY <1>2 DEF AttemptSound
  <2> QED BY <1>1, <2>1, <2>2
<1>3. ASSUME NEW a \in Attempts, NEW s \in Sessions, NEW run \in Runs, Begin(a, s, run)
      PROVE  AttemptSound(attempt'[b])
  <2> DEFINE t == [Idle EXCEPT !.pc = "documents", !.session = s, !.fields = RuntimeEvidence(run)]
  <2>1. t.pc # "harness"
    BY DEF Idle
  <2>2. attempt' = [attempt EXCEPT ![a] = t]
    BY <1>3 DEF Begin
  <2> HIDE DEF t
  <2> QED BY <1>2, <2>1, <2>2
<1>4. ASSUME NEW a \in Attempts, ReadDocuments(a) PROVE AttemptSound(attempt'[b])
  <2> DEFINE t == [attempt[a] EXCEPT !.pc = "readiness",
                                     !.documents = IF setting.registry THEN registered ELSE {}]
  <2>1. t.pc # "harness"
    BY DEF TypeOK, Attempt
  <2>2. attempt' = [attempt EXCEPT ![a] = t]
    BY <1>4 DEF ReadDocuments, TypeOK
  <2> HIDE DEF t
  <2> QED BY <1>2, <2>1, <2>2
<1>5. ASSUME NEW a \in Attempts, ReadReadiness(a) PROVE AttemptSound(attempt'[b])
  <2> DEFINE t == [attempt[a] EXCEPT !.pc = "harness", !.readiness = Readiness, !.seen = Files]
  <2>1. t.seen = Files /\ t.readiness = Readiness
    BY DEF TypeOK, Attempt
  <2>2. Readiness.ready = ProductionReady
    BY DEF Readiness
  <2>3. AttemptSound(t)
    BY <2>1, <2>2, ReadyMeansReady DEF AttemptSound, TypeOK
  <2>4. attempt' = [attempt EXCEPT ![a] = t]
    BY <1>5 DEF ReadReadiness, TypeOK
  <2>5. attempt'[b] = IF b = a THEN t ELSE attempt[b]
    BY <2>4 DEF TypeOK
  <2> HIDE DEF t
  <2> QED BY <1>1, <2>3, <2>5
<1>6. ASSUME NEW a \in Attempts, Leave(a) PROVE AttemptSound(attempt'[b])
  <2>1. attempt' = [attempt EXCEPT ![a] = Idle]
    BY <1>6 DEF Leave
  <2> QED BY <1>2, <2>1, IdleTyped
<1>7. CASE UNCHANGED attempt
  BY <1>1, <1>7
<1>8. CASE EditGovernance \/ EditRegistry
  BY <1>7, <1>8 DEF EditGovernance, EditRegistry, Edited
<1>9. CASE UNCHANGED vars
  BY <1>7, <1>9 DEF vars
<1> QED BY <1>3, <1>4, <1>5, <1>6, <1>8, <1>9 DEF Next, Report, Raise

(***************************************************************************)
(* A step leaves a stored evaluation alone; a session that had none has    *)
(* none, that of a report an attempt was waiting for, or an error's.       *)
(***************************************************************************)
LEMMA StepStoresOne ==
  ASSUME TypeOK, StepStores, NEW s \in Sessions
  PROVE  \/ evaluation'[s] = evaluation[s]
         \/ /\ evaluation[s] = NoEvaluation
            /\ \/ \E a \in Attempts, report \in Reports :
                    attempt[a].pc = "harness" /\ evaluation'[s] = EvaluationOf(attempt[a], report)
               \/ \E a \in Attempts : evaluation'[s] = ErrorOf(attempt[a])
<1>1. ASSUME NEW r, NEW e, evaluation' = Kept(r, e)
      PROVE  \/ evaluation'[s] = evaluation[s]
             \/ evaluation[s] = NoEvaluation /\ evaluation'[s] = e
  BY <1>1 DEF Kept, TypeOK
<1>2. CASE UNCHANGED evaluation
  BY <1>2
<1>3. ASSUME NEW a \in Attempts, NEW report \in Reports, attempt[a].pc = "harness",
             evaluation' = Kept(attempt[a].session, EvaluationOf(attempt[a], report))
      PROVE  \/ evaluation'[s] = evaluation[s]
             \/ /\ evaluation[s] = NoEvaluation
                /\ evaluation'[s] = EvaluationOf(attempt[a], report)
  BY <1>1, <1>3
<1>4. ASSUME NEW a \in Attempts, evaluation' = Kept(attempt[a].session, ErrorOf(attempt[a]))
      PROVE  \/ evaluation'[s] = evaluation[s]
             \/ evaluation[s] = NoEvaluation /\ evaluation'[s] = ErrorOf(attempt[a])
  BY <1>1, <1>4
<1> QED BY <1>2, <1>3, <1>4 DEF StepStores

LEMMA EvaluationsStep ==
  ASSUME TypeOK, AttemptsSound, EvaluationsSound, [Next]_vars
  PROVE  EvaluationsSound'
<1>0. StepStores /\ UNCHANGED setting
  BY StepStoresLemma
<1> SUFFICES ASSUME NEW s \in Sessions, evaluation'[s] # NoEvaluation
             PROVE  EvaluationSound(evaluation[s])'
  BY DEF EvaluationsSound
<1> DEFINE e == evaluation'[s]
<1>1. EvaluationSound(e)
  <2>1. CASE e = evaluation[s]
    BY <2>1 DEF EvaluationsSound
  <2>2. ASSUME NEW a \in Attempts, NEW report \in Reports, attempt[a].pc = "harness",
               e = EvaluationOf(attempt[a], report)
        PROVE  EvaluationSound(e)
    <3>1. attempt[a] \in Attempt
      BY DEF TypeOK
    <3> QED BY <2>2, <3>1, ReportSound DEF AttemptsSound
  <2>3. ASSUME NEW a \in Attempts, e = ErrorOf(attempt[a]) PROVE EvaluationSound(e)
    BY <2>3, ErrorSound
  <2> QED BY <1>0, <2>1, <2>2, <2>3, StepStoresOne
<1>2. Validates' = Validates
  BY <1>0 DEF Validates
<1> QED BY <1>1, <1>2 DEF EvaluationSound, Clear, Capped

-----------------------------------------------------------------------------
ReviewInv == TypeOK /\ AttemptsSound /\ EvaluationsSound

LEMMA ReviewInit == Init => ReviewInv
<1> SUFFICES ASSUME Init PROVE ReviewInv
  OBVIOUS
<1>1. 0 \in 0..MaxEdits
  BY ReviewAssumption
<1>2. attempt \in [Attempts -> Attempt] /\ \A a \in Attempts : attempt[a] = Idle
  BY IdleTyped DEF Init
<1>3. TypeOK
  BY <1>1, <1>2, IdleTyped DEF Init, TypeOK
<1>4. AttemptsSound
  BY <1>2, IdleTyped DEF AttemptsSound, AttemptSound
<1>5. EvaluationsSound
  BY DEF Init, EvaluationsSound
<1> QED BY <1>3, <1>4, <1>5 DEF ReviewInv

(***************************************************************************)
(* The inductive invariant of the evaluation of sessions: types, what an   *)
(* attempt knows of the files it read, what a stored evaluation is made of.*)
(***************************************************************************)
THEOREM ReviewInvariant == Spec => []ReviewInv
<1>1. ReviewInv /\ [Next]_vars => ReviewInv'
  BY TypeStep, AttemptsStep, EvaluationsStep DEF ReviewInv
<1> QED BY ReviewInit, <1>1, PTL DEF Spec

(***************************************************************************)
(* Files, attempts and stored evaluations keep their types.                *)
(***************************************************************************)
THEOREM ReviewTypeOK == Spec => []TypeOK
<1>1. ReviewInv => TypeOK
  BY DEF ReviewInv
<1> QED BY ReviewInvariant, <1>1, PTL

(***************************************************************************)
(* An evaluation without a hard block was made when the files named every  *)
(* owner and approved all that production demands, and lost no met verdict *)
(* to validation (evaluator.py 361-402).                                   *)
(***************************************************************************)
THEOREM ReviewClearMeansReady == Spec => []ClearMeansReady
<1>1. ReviewInv => ClearMeansReady
  BY DEF ReviewInv, EvaluationsSound, EvaluationSound, ClearMeansReady, Clear, NoClash, Judges
<1> QED BY ReviewInvariant, <1>1, PTL

-----------------------------------------------------------------------------
(***************************************************************************)
(* What a validated status says of the raw one.                            *)
(***************************************************************************)
LEMMA CapKeeps ==
  ASSUME NEW raw \in Status, NEW ceiling \in {"met", "partial", "not_evaluated"},
         NEW complete \in BOOLEAN, NEW proof \in BOOLEAN
  PROVE  LET status == CappedStatus(raw, ceiling, complete, proof)
         IN  /\ status \in {"met", "partial"} =>
                  /\ raw # "not_evaluated" /\ complete
                  /\ ceiling # "not_evaluated" /\ (status = ceiling \/ ceiling = "met")
             /\ raw = "attention" /\ complete /\ proof => status = "attention"
             /\ raw = "partial" /\ complete /\ ceiling # "not_evaluated" => status = "partial"
BY DEF CappedStatus, Status

(***************************************************************************)
(* The worst assessed status is some session's, which CapKeeps explains;   *)
(* any worse raw verdict that stood would have made the worst worse.       *)
(***************************************************************************)
LEMMA SoundSummary ==
  ASSUME TypeOK, EvaluationsSound
  PROVE  SummaryFaithful
<1> SUFFICES ASSUME Validates, NEW c \in Controls, Aggregate(c) \in {"met", "partial"}
             PROVE  /\ Aggregate(c) = CeilingOf(c) \/ CeilingOf(c) = "met"
                    /\ \E s \in Reporting(c) : Stands(s, c) /\ ~Judges(s, c, "not_evaluated")
                    /\ \A s \in Reporting(c) :
                         Stands(s, c) /\ evaluation[s].verdicts[c].proof =>
                           ~Judges(s, c, "attention")
                    /\ Aggregate(c) = "met" =>
                         \A s \in Reporting(c) : Stands(s, c) => ~Judges(s, c, "partial")
  BY DEF SummaryFaithful
<1> DEFINE S == {evaluation[s].verdicts[c].status : s \in Reporting(c)}
<1>1. Aggregate(c) = Worst(S)
  BY DEF Aggregate
<1>2. S \cap Assessed # {}
  BY <1>1 DEF Worst
<1>3. /\ Worst(S) \in S
      /\ \A t \in S \cap Assessed : Priority(Worst(S)) <= Priority(t)
  <2> HIDE DEF S
  <2> QED BY <1>2, WorstIsWorst
<1>4. ASSUME NEW s \in Reporting(c)
      PROVE  LET v == evaluation[s].verdicts[c]
             IN  /\ v.raw \in Status /\ v.proof \in BOOLEAN
                 /\ v.status = CappedStatus(v.raw, CeilingOf(c), Stands(s, c), v.proof)
  <2>1. s \in Sessions /\ evaluation[s] # NoEvaluation /\ c \in DOMAIN evaluation[s].verdicts
    BY DEF Reporting
  <2>2. evaluation[s] \in Evaluation
    BY <2>1 DEF TypeOK
  <2>3. PICK C \in SUBSET Controls : evaluation[s].verdicts \in [C -> Judged]
    BY <2>2 DEF Evaluation
  <2>4. evaluation[s].verdicts[c] \in Judged
    BY <2>1, <2>3
  <2>5. Capped(evaluation[s], c)
    BY <2>1 DEF EvaluationsSound, EvaluationSound
  <2> QED BY <2>4, <2>5 DEF Judged, Capped, Stands
<1>5. ASSUME NEW s \in Reporting(c)
      PROVE  LET v == evaluation[s].verdicts[c]
             IN  /\ v.status \in {"met", "partial"} =>
                      /\ v.raw # "not_evaluated" /\ Stands(s, c)
                      /\ CeilingOf(c) # "not_evaluated"
                      /\ v.status = CeilingOf(c) \/ CeilingOf(c) = "met"
                 /\ v.raw = "attention" /\ Stands(s, c) /\ v.proof => v.status = "attention"
                 /\ v.raw = "partial" /\ Stands(s, c) /\ CeilingOf(c) # "not_evaluated"
                      => v.status = "partial"
  <2>1. Stands(s, c) \in BOOLEAN
    BY DEF Stands
  <2> QED BY <1>4, <2>1, CeilingTyped, CapKeeps
<1>6. PICK w \in Reporting(c) : evaluation[w].verdicts[c].status = Aggregate(c)
  BY <1>1, <1>3
<1>7. /\ evaluation[w].verdicts[c].raw # "not_evaluated" /\ Stands(w, c)
      /\ CeilingOf(c) # "not_evaluated"
      /\ Aggregate(c) = CeilingOf(c) \/ CeilingOf(c) = "met"
  BY <1>5, <1>6
<1>8. ASSUME NEW s \in Reporting(c), evaluation[s].verdicts[c].status \in Assessed
      PROVE  Priority(Aggregate(c)) <= Priority(evaluation[s].verdicts[c].status)
  BY <1>1, <1>3, <1>8
<1>9. /\ Priority("attention") = 0
      /\ Priority("partial") = 1
      /\ Priority("met") = 2
      /\ {"attention", "partial"} \subseteq Assessed
  BY DEF Priority, Assessed, Status
<1> HIDE DEF S
<1>10. ASSUME NEW s \in Reporting(c), Stands(s, c), evaluation[s].verdicts[c].proof
       PROVE  ~Judges(s, c, "attention")
  <2> SUFFICES ASSUME Judges(s, c, "attention") PROVE FALSE
    OBVIOUS
  <2>1. evaluation[s].verdicts[c].status = "attention"
    BY <1>5, <1>10 DEF Judges
  <2>2. Priority(Aggregate(c)) <= 0
    BY <1>8, <1>9, <2>1
  <2> QED BY <1>9, <2>2
<1>11. ASSUME Aggregate(c) = "met", NEW s \in Reporting(c), Stands(s, c)
       PROVE  ~Judges(s, c, "partial")
  <2> SUFFICES ASSUME Judges(s, c, "partial") PROVE FALSE
    OBVIOUS
  <2>1. evaluation[s].verdicts[c].status = "partial"
    BY <1>5, <1>7, <1>11 DEF Judges
  <2>2. Priority("met") <= 1
    BY <1>8, <1>9, <1>11, <2>1
  <2> QED BY <1>9, <2>2
<1> QED BY <1>6, <1>7, <1>10, <1>11 DEF Judges

(***************************************************************************)
(* The summary turns no missing evidence into a pass (compliance_summary   *)
(* 30, proofagent.md 139-146).                                             *)
(***************************************************************************)
THEOREM ReviewSummaryFaithful == Spec => []SummaryFaithful
<1>1. ReviewInv => SummaryFaithful
  BY SoundSummary DEF ReviewInv
<1> QED BY ReviewInvariant, <1>1, PTL

(***************************************************************************)
(* The status shown for triage only gets worse as sessions report          *)
(* (proofagent.md 163-168): no stored evaluation is replaced, so what is   *)
(* summarized only grows.                                                  *)
(***************************************************************************)
THEOREM ReviewTriageOnlyWorsens == Spec => TriageOnlyWorsens
<1>1. ASSUME TypeOK, [Next]_vars, NEW c \in Controls, Aggregate(c) \in Assessed
      PROVE  Priority(Aggregate(c)') <= Priority(Aggregate(c))
  <2> DEFINE S == {evaluation[s].verdicts[c].status : s \in Reporting(c)}
             T == {evaluation'[s].verdicts[c].status : s \in Reporting(c)'}
  <2>1. ASSUME NEW s \in Reporting(c)
        PROVE  s \in Reporting(c)' /\ evaluation'[s] = evaluation[s]
    <3>1. s \in Sessions /\ evaluation[s] # NoEvaluation
      BY DEF Reporting
    <3>2. evaluation'[s] = evaluation[s]
      BY <1>1, <3>1, StepStoresLemma, StepStoresOne
    <3> QED BY <3>1, <3>2 DEF Reporting
  <2>2. S \subseteq T
    BY <2>1
  <2>3. Aggregate(c) = Worst(S) /\ Aggregate(c)' = Worst(T)
    BY DEF Aggregate
  <2> HIDE DEF S, T
  <2> QED BY <1>1, <2>2, <2>3, WorstOfMore
<1>2. TypeOK /\ [Next]_vars =>
        [\A c \in Controls : Aggregate(c) \in Assessed =>
           Priority(Aggregate(c)') <= Priority(Aggregate(c))]_vars
  BY <1>1
<1> QED BY ReviewTypeOK, <1>2, PTL DEF Spec, TriageOnlyWorsens

=============================================================================
