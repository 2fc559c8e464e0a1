------------------------- MODULE CaseGrounding_proofs -------------------------
(***************************************************************************)
(* Proofs about the grounding of cases, for any corpus and mappings the    *)
(* loaders accept, any cases, submissions, rankings and recommendations.   *)
(***************************************************************************)
EXTENDS CaseGrounding, FiniteSetTheorems, FunctionTheorems, SequenceTheorems,
  WellFoundedInduction, TLAPS

-----------------------------------------------------------------------------
(***************************************************************************)
(* Submissions.                                                            *)
(***************************************************************************)
LEMMA Largest ==
  ASSUME NEW n \in Nat, NEW S \in SUBSET (1..n), S # {}
  PROVE  \E i \in S : \A j \in S : j <= i
<1> DEFINE T == {n - i : i \in S}
<1>1. \A i \in S : i \in Int /\ n - i \in Nat
  OBVIOUS
<1>2. T \subseteq Nat
  BY <1>1
<1>3. T # {}
  <2>1. PICK i \in S : TRUE
    OBVIOUS
  <2>2. n - i \in T
    OBVIOUS
  <2> QED
    BY <2>2
<1>4. PICK x \in T : \A y \in T : <<y, x>> \notin OpToRel(<, Nat)
  <2> HIDE DEF T
  <2> QED
    BY <1>2, <1>3, WFMin, NatLessThanWellFounded, Zenon
<1>5. \A y \in T : ~(y < x)
  BY <1>2, <1>4 DEF OpToRel
<1>6. PICK i \in S : x = n - i
  OBVIOUS
<1>7. \A j \in S : ~(n - j < n - i)
  BY <1>5, <1>6
<1> QED
  BY <1>1, <1>7

(***************************************************************************)
(* The merged value of a field is that of the last submission that has it. *)
(***************************************************************************)
Latest(sub, f, i) ==
  /\ i \in DOMAIN sub /\ sub[i][f] # "absent"
  /\ \A j \in DOMAIN sub : j > i => sub[j][f] = "absent"

LEMMA Merged ==
  ASSUME NEW sub \in Seq(Submission), NEW f \in Fields
  PROVE  LET v == supplemental_information(sub)[f] IN
         \/ v = "absent" /\ \A i \in DOMAIN sub : sub[i][f] = "absent"
         \/ \E i \in DOMAIN sub : Latest(sub, f, i) /\ v = sub[i][f]
<1> DEFINE given == {i \in DOMAIN sub : sub[i][f] # "absent"}
           last == CHOOSE i \in given : \A j \in given : j <= i
<1>1. supplemental_information(sub)[f] = IF given = {} THEN "absent" ELSE sub[last][f]
  BY DEF supplemental_information
<1>2. CASE given = {}
  BY <1>1, <1>2
<1>3. CASE given # {}
  <2>1. Len(sub) \in Nat /\ DOMAIN sub = 1..Len(sub)
    OBVIOUS
  <2>2. \E i \in given : \A j \in given : j <= i
    BY <1>3, <2>1, Largest
  <2>3. last \in given /\ \A j \in given : j <= last
    BY <2>2
  <2>4. Latest(sub, f, last)
    BY <2>1, <2>3 DEF Latest
  <2> QED
    BY <1>1, <1>3, <2>3, <2>4
<1> QED
  BY <1>2, <1>3

(***************************************************************************)
(* The facts derived for a case are those that are so in it.               *)
(***************************************************************************)
LEMMA FieldsKnown ==
  ASSUME NEW c \in Cases, sent[c] \in Seq(Submission), NEW f \in Fields
  PROVE  supplemental_information(sent[c])[f] = "absent" <=> ~Given(c, f)
BY Merged DEF Latest, Given

LEMMA PurposeMerged ==
  ASSUME NEW c \in Cases, sent[c] \in Seq(Submission)
  PROVE  (~profile[c].purpose
            /\ supplemental_information(sent[c])["purpose"] \in {"absent", "blank"})
         <=> ~PurposeKnown(c)
<1> DEFINE v == supplemental_information(sent[c])["purpose"]
<1>1. \A i \in DOMAIN sent[c] :
        i \in Int /\ sent[c][i]["purpose"] \in {"absent", "blank", "null", "text"}
  BY DEF Submission, Fields
<1>2. \/ v = "absent" /\ \A i \in DOMAIN sent[c] : sent[c][i]["purpose"] = "absent"
      \/ \E i \in DOMAIN sent[c] : Latest(sent[c], "purpose", i) /\ v = sent[c][i]["purpose"]
  BY Merged DEF Fields
<1> HIDE DEF v
<1>3. CASE v = "absent" /\ \A i \in DOMAIN sent[c] : sent[c][i]["purpose"] = "absent"
  BY <1>3 DEF PurposeKnown, v
<1>4. ASSUME NEW i \in DOMAIN sent[c], Latest(sent[c], "purpose", i), v = sent[c][i]["purpose"]
      PROVE  (~profile[c].purpose /\ v \in {"absent", "blank"}) <=> ~PurposeKnown(c)
  <2>1. CASE v \in {"null", "text"}
    BY <1>1, <1>4, <2>1 DEF PurposeKnown, Latest
  <2>2. CASE v = "blank"
    <3>1. \A j \in DOMAIN sent[c] :
            sent[c][j]["purpose"] \in {"null", "text"} => i > j
      <4> SUFFICES ASSUME NEW j \in DOMAIN sent[c], sent[c][j]["purpose"] \in {"null", "text"}
                   PROVE  i > j
        OBVIOUS
      <4>1. i \in Int /\ j \in Int /\ i # j
        BY <1>1, <1>4, <2>2
      <4>2. ~(j > i)
        BY <1>4 DEF Latest
      <4> QED
        BY <4>1, <4>2
    <3>2. ~\E j \in DOMAIN sent[c] :
             /\ sent[c][j]["purpose"] \in {"null", "text"}
             /\ \A k \in DOMAIN sent[c] : k > j => sent[c][k]["purpose"] # "blank"
      <4> SUFFICES ASSUME NEW j \in DOMAIN sent[c],
                          sent[c][j]["purpose"] \in {"null", "text"},
                          \A k \in DOMAIN sent[c] : k > j => sent[c][k]["purpose"] # "blank"
                   PROVE  FALSE
        OBVIOUS
      <4>1. i > j
        BY <3>1
      <4> QED
        BY <1>4, <2>2, <4>1
    <3> QED
      BY <2>2, <3>2 DEF PurposeKnown
  <2> QED
    BY <1>1, <1>4, <2>1, <2>2 DEF Latest
<1> QED
  BY <1>2, <1>3, <1>4 DEF v

LEMMA FactsTrue ==
  ASSUME NEW c \in Cases, sent[c] \in Seq(Submission)
  PROVE  Derived(c, sent[c]) = TrueOf(c)
<1> DEFINE info == supplemental_information(sent[c])
<1>1. \A f \in Fields : info[f] = "absent" <=> ~Given(c, f)
  BY FieldsKnown
<1>2. (~profile[c].purpose /\ info["purpose"] \in {"absent", "blank"}) <=> ~PurposeKnown(c)
  BY PurposeMerged
<1> HIDE DEF info
<1>3. MissingFacts(profile[c], info) =
        {x \in DOMAIN Asked :
            /\ ~Given(c, Asked[x])
            /\ Asked[x] = "beneficial_owner" => profile[c].business}
          \cup When(~PurposeKnown(c), "relationship_purpose_unavailable")
  <2> DEFINE asked ==
        {x \in DOMAIN Asked :
            /\ ~Given(c, Asked[x])
            /\ Asked[x] = "beneficial_owner" => profile[c].business}
  <2>1. \A f \in {"pep_status", "sanctions_screening_status", "counterparty_country_code",
                  "beneficial_owner"} : info[f] = "absent" <=> ~Given(c, f)
    BY <1>1 DEF Fields
  <2>2. asked = When(~Given(c, "pep_status"), "pep_status_unavailable")
          \cup When(~Given(c, "sanctions_screening_status"),
                    "sanctions_screening_status_unavailable")
          \cup When(~Given(c, "counterparty_country_code"),
                    "counterparty_geography_unavailable")
          \cup When(profile[c].business /\ ~Given(c, "beneficial_owner"),
                    "beneficial_owner_data_unavailable")
    <3>1. DOMAIN Asked = {"pep_status_unavailable", "sanctions_screening_status_unavailable",
                          "counterparty_geography_unavailable",
                          "beneficial_owner_data_unavailable"}
      BY DEF Asked
    <3>2. /\ Asked["pep_status_unavailable"] = "pep_status"
          /\ Asked["sanctions_screening_status_unavailable"] = "sanctions_screening_status"
          /\ Asked["counterparty_geography_unavailable"] = "counterparty_country_code"
          /\ Asked["beneficial_owner_data_unavailable"] = "beneficial_owner"
      BY DEF Asked
    <3> QED
      BY <3>1, <3>2 DEF When
  <2> HIDE DEF asked
  <2>3. MissingFacts(profile[c], info) =
          asked \cup When(~PurposeKnown(c), "relationship_purpose_unavailable")
    BY <1>2, <2>1, <2>2 DEF MissingFacts, When
  <2> QED
    BY <2>3 DEF asked
<1> QED
  BY <1>3 DEF Derived, derive_policy_applicability_facts, TrueOf, info

-----------------------------------------------------------------------------
(***************************************************************************)
(* What a retrieval returns.                                               *)
(***************************************************************************)
LEMMA FactsTyped ==
  ASSUME NEW p \in Profile, NEW s
  PROVE  derive_policy_applicability_facts(p, s) \subseteq POLICY_FACT_IDS
<1>1. PatternFacts(p.rule) \subseteq POLICY_FACT_IDS
  BY DEF Profile, AlertRules, PatternFacts, POLICY_FACT_IDS
<1>2. ProfileFacts(p) \subseteq POLICY_FACT_IDS
  BY DEF ProfileFacts, When, POLICY_FACT_IDS
<1>3. MissingFacts(p, supplemental_information(s)) \subseteq POLICY_FACT_IDS
  BY DEF MissingFacts, When, POLICY_FACT_IDS
<1> QED
  BY <1>1, <1>2, <1>3 DEF derive_policy_applicability_facts

LEMMA EligibleRulesTyped ==
  ASSUME NEW a \in AlertRules, NEW date, NEW fs
  PROVE  EligibleRules(a, date, fs) \subseteq RulesOf(a) /\ RulesOf(a) \subseteq MappedPolicyRule
BY PolicyAssumption DEF EligibleRules, RulesOf, load_alert_policy_mappings

LEMMA ContextualSound ==
  ASSUME NEW place, NEW date, NEW mapped, NEW room
  PROVE  Contextual(place, date, mapped, room) \subseteq Eligible(date) \ mapped
BY DEF Contextual, First, search

LEMMA RetrievalTyped ==
  ASSUME NEW place, NEW a \in AlertRules, NEW date, NEW fs \in SUBSET POLICY_FACT_IDS, NEW n
  PROVE  /\ search_for_alert(place, a, date, fs, n) \in Retrieval
         /\ PoliciesOf(search_for_alert(place, a, date, fs, n)) \subseteq Policies
<1> DEFINE rules == EligibleRules(a, date, fs)
           mapped == {Match(r, fs) : r \in rules}
           rest == Contextual(place, date, {r.policy : r \in rules}, n - Cardinality(rules))
<1>1. \A r \in rules : Match(r, fs) \in [policy: Policies, facts: SUBSET POLICY_FACT_IDS]
  BY EligibleRulesTyped DEF Match, MappedPolicyRule
<1>2. rest \subseteq Policies
  BY ContextualSound DEF Eligible
<1>3. search_for_alert(place, a, date, fs, n) = [mapped |-> mapped, contextual |-> rest]
  BY DEF search_for_alert
<1> HIDE DEF rules, rest
<1> QED
  BY <1>1, <1>2, <1>3 DEF Retrieval, PoliciesOf

LEMMA FoundTyped ==
  ASSUME TypeOK, NEW c \in Cases, NEW place, NEW s
  PROVE  /\ Derived(c, s) \in SUBSET POLICY_FACT_IDS
         /\ Found(c, place, s) \in Retrieval
         /\ PoliciesOf(Found(c, place, s)) \subseteq Policies
<1>1. profile[c] \in Profile /\ profile[c].rule \in AlertRules
  BY DEF TypeOK, Profile
<1> QED
  BY <1>1, FactsTyped, RetrievalTyped DEF Derived, Found

-----------------------------------------------------------------------------
(***************************************************************************)
(* Types.                                                                  *)
(***************************************************************************)
LEMMA TypedInit == Init => TypeOK
<1> SUFFICES ASSUME Init PROVE TypeOK
  OBVIOUS
<1>1. profile \in [Cases -> Profile]
  BY GroundingAssumption DEF Init
<1>2. policies \in [Cases -> Retrieval]
  BY DEF Init, Nothing, Retrieval
<1>3. trail \in [Cases -> [executions: SUBSET Executions,
                           count: 0..(MaxSubmissions + 1), shown: SUBSET Policies]]
  BY GroundingAssumption DEF Init
<1>4. stage \in [Cases -> Stages] /\ calls \in [Cases -> 0..Len(Tools)]
  BY DEF Init, Stages, Tools
<1>5. sent \in [Cases -> Seq(Submissions)] /\ \A c \in Cases : Len(sent[c]) <= MaxSubmissions
  BY GroundingAssumption DEF Init
<1> QED
  BY <1>1, <1>2, <1>3, <1>4, <1>5 DEF Init, TypeOK

LEMMA ToolsRead ==
  /\ Len(Tools) = 4 /\ DOMAIN Tools = 1..4
  /\ \A i \in 1..4 : Tools[i] \in Read
BY DEF Tools, Read

LEMMA TypedSelect ==
  ASSUME TypeOK, NEW c \in Cases, NEW s \in Seq(Submissions),
         NEW reported \in SUBSET Executions,
         trail[c].count <= MaxSubmissions,
         select_policies(c, s, reported)
  PROVE  /\ facts' \in [Cases -> SUBSET POLICY_FACT_IDS]
         /\ policies' \in [Cases -> Retrieval]
         /\ trail' \in [Cases -> [executions: SUBSET Executions,
                             count: 0..(MaxSubmissions + 1), shown: SUBSET Policies]]
         /\ stage' \in [Cases -> Stages]
<1>1. PICK place \in Rankings :
        /\ facts' = [facts EXCEPT ![c] = Derived(c, s)]
        /\ policies' = [policies EXCEPT ![c] = Found(c, place, s)]
        /\ trail' = [trail EXCEPT
             ![c] = [executions |-> reported, count |-> trail[c].count + 1,
                     shown |-> PoliciesOf(Found(c, place, s))]]
        /\ Goto(c, "draft")
  BY DEF select_policies
<1>2. /\ Derived(c, s) \in SUBSET POLICY_FACT_IDS
      /\ Found(c, place, s) \in Retrieval
      /\ PoliciesOf(Found(c, place, s)) \subseteq Policies
  BY FoundTyped
<1>3. trail[c].count + 1 \in 0..(MaxSubmissions + 1)
  BY GroundingAssumption DEF TypeOK
<1>4. /\ facts' \in [Cases -> SUBSET POLICY_FACT_IDS]
      /\ policies' \in [Cases -> Retrieval]
  BY <1>1, <1>2 DEF TypeOK
<1>5. trail' \in [Cases -> [executions: SUBSET Executions,
                             count: 0..(MaxSubmissions + 1), shown: SUBSET Policies]]
  BY <1>1, <1>2, <1>3 DEF TypeOK
<1>6. stage' \in [Cases -> Stages]
  BY <1>1 DEF TypeOK, Goto, Stages
<1> QED
  BY <1>4, <1>5, <1>6

(***************************************************************************)
(* What is so of a case in every state, beyond the types.                  *)
(***************************************************************************)
Retrieved(c) ==
  /\ ~Refuses(c, sent[c])
  /\ facts[c] = Derived(c, sent[c])
  /\ \E place \in Rankings : policies[c] = Found(c, place, sent[c])
  /\ trail[c].shown = PoliciesOf(policies[c])
  /\ trail[c].count = 1 + Len(sent[c])
  /\ {c} \X Read \subseteq trail[c].executions \cap audits

Released(c) == stage[c] \in {"information", "review", "completed"} /\ c \notin edited

Held(c) ==
  /\ \A i \in 1..calls[c] : <<c, Tools[i]>> \in executions
  /\ stage[c] = "load" => sent[c] = <<>> /\ trail[c].count = 0
  /\ Settled(c) => Retrieved(c)
  /\ Released(c) => ~Ungrounded(c, draft[c])
  /\ RefusedForSize(c)

(***************************************************************************)
(* A step of one case leaves what is kept of the others as it was.         *)
(***************************************************************************)
Same(c) ==
  /\ limit' = limit /\ profile' = profile
  /\ stage'[c] = stage[c] /\ calls'[c] = calls[c]
  /\ executions \subseteq executions' /\ audits \subseteq audits'
  /\ evidence'[c] = evidence[c] /\ sent'[c] = sent[c]
  /\ facts'[c] = facts[c] /\ policies'[c] = policies[c]
  /\ draft'[c] = draft[c] /\ trail'[c] = trail[c]
  /\ c \in edited' <=> c \in edited

LEMMA HeldFrame ==
  ASSUME NEW c \in Cases, Same(c), Held(c)
  PROVE  Held(c)'
<1>1. Settled(c)' = Settled(c)
  BY DEF Same, Settled
<1>2. Retrieved(c) => Retrieved(c)'
  <2>1. Derived(c, sent[c])' = Derived(c, sent[c])
    BY DEF Same, Derived
  <2>2. \A place : Found(c, place, sent[c])' = Found(c, place, sent[c])
    BY <2>1 DEF Same, Found
  <2>3. Refuses(c, sent[c])' <=> Refuses(c, sent[c])
    BY <2>1 DEF Same, Refuses
  <2> QED
    BY <2>1, <2>2, <2>3 DEF Same, Retrieved
<1>3. Ungrounded(c, draft[c])' = Ungrounded(c, draft[c])
  BY DEF Same, Ungrounded, Ledger, validate_recommendation
<1>4. Released(c)' <=> Released(c)
  BY DEF Same, Released
<1>5. RefusedForSize(c)' <=> RefusedForSize(c)
  BY DEF Same, RefusedForSize
<1>6. \A i \in 1..calls'[c] : <<c, Tools[i]>> \in executions'
  BY DEF Same, Held
<1>7. stage'[c] = "load" => sent'[c] = <<>> /\ trail'[c].count = 0
  BY DEF Same, Held
<1> QED
  BY <1>1, <1>2, <1>3, <1>4, <1>5, <1>6, <1>7 DEF Held

CaseStep(c) ==
  \/ _record(c) \/ audit(c) \/ load_and_retrieve(c)
  \/ draft_recommendation(c) \/ validate_controls(c)
  \/ collect_information(c) \/ human_review(c)
  \/ StageRaises(c)

LEMMA Elsewhere ==
  ASSUME TypeOK, NEW c \in Cases, CaseStep(c), NEW d \in Cases, d # c
  PROVE  Same(d)
<1> USE DEF TypeOK, Same, Goto, grounds, tooling
<1>1. CASE _record(c)
  BY <1>1 DEF _record, Recorded
<1>2. CASE audit(c)
  BY <1>2 DEF audit
<1>3. CASE load_and_retrieve(c)
  BY <1>3 DEF load_and_retrieve, Refused, select_policies
<1>4. CASE draft_recommendation(c)
  BY <1>4 DEF draft_recommendation
<1>5. CASE validate_controls(c)
  BY <1>5 DEF validate_controls
<1>6. CASE collect_information(c)
  BY <1>6 DEF collect_information, Refused, select_policies
<1>7. CASE human_review(c)
  BY <1>7 DEF human_review
<1>8. CASE StageRaises(c)
  BY <1>8 DEF StageRaises
<1> QED
  BY <1>1, <1>2, <1>3, <1>4, <1>5, <1>6, <1>7, <1>8 DEF CaseStep

(***************************************************************************)
(* Only a limit below the size of the alert rule's mapping refuses a case: *)
(* no policy is mapped twice for one rule.                                 *)
(***************************************************************************)
LEMMA RefusalMeansSize ==
  ASSUME TypeOK, NEW c \in Cases, NEW s, Refuses(c, s)
  PROVE  Cardinality(Mapped(profile[c].rule)) > limit
<1> DEFINE a == profile[c].rule
           rules == EligibleRules(a, profile[c].created, Derived(c, s))
           F == [r \in rules |-> r.policy]
<1>1. a \in AlertRules /\ limit \in Nat
  BY GroundingAssumption DEF TypeOK, Profile
<1>2. rules \subseteq RulesOf(a) /\ RulesOf(a) \subseteq MappedPolicyRule
  BY <1>1, EligibleRulesTyped
<1>3. Cardinality(rules) > limit
  BY DEF Refuses, TooMany
<1>4. Mapped(a) \subseteq Policies
  BY <1>2 DEF Mapped, MappedPolicyRule
<1>5. IsFiniteSet(Mapped(a))
  BY <1>4, PolicyAssumption, FS_Subset DEF load_corpus
<1>6. \A r, t \in rules : r.policy = t.policy => r = t
  BY <1>1, <1>2, PolicyAssumption DEF load_alert_policy_mappings
<1>7. F \in [rules -> Mapped(a)]
  BY <1>2 DEF Mapped
<1>8. \A r, t \in rules : F[r] = F[t] => r = t
  BY <1>6
<1>9. IsFiniteSet(rules) /\ Cardinality(rules) <= Cardinality(Mapped(a))
  <2> HIDE DEF F, rules
  <2>1. F \in Injection(rules, Mapped(a))
    BY <1>7, <1>8, Fun_IsInj
  <2> QED
    BY <1>5, <2>1, FS_Injection
<1>10. Cardinality(Mapped(a)) \in Nat /\ Cardinality(rules) \in Nat
  BY <1>5, <1>9, FS_CardinalityType
<1> QED
  BY <1>1, <1>3, <1>9, <1>10

LEMMA HeldInit == Init => \A c \in Cases : Held(c)
<1> SUFFICES ASSUME Init, NEW c \in Cases PROVE Held(c)
  OBVIOUS
<1>1. /\ stage[c] = "load" /\ calls[c] = 0 /\ sent[c] = <<>> /\ trail[c].count = 0
  BY DEF Init
<1> QED
  BY <1>1 DEF Held, Settled, Released, RefusedForSize

(***************************************************************************)
(* The case that takes the step.                                           *)
(***************************************************************************)
LEMMA HeldTools ==
  ASSUME TypeOK, NEW c \in Cases, Held(c), _record(c) \/ audit(c)
  PROVE  Held(c)'
<1>1. stage[c] = "load" /\ stage' = stage /\ sent' = sent /\ trail' = trail
  BY DEF _record, audit, grounds
<1>2. \A i \in 1..calls'[c] : <<c, Tools[i]>> \in executions'
  <2>1. CASE _record(c)
    <3>1. calls[c] \in Nat /\ calls'[c] = calls[c] + 1
      BY <2>1 DEF _record, TypeOK
    <3>2. \A i \in 1..(calls[c] + 1) : i \in 1..calls[c] \/ i = calls[c] + 1
      BY <3>1
    <3> QED
      BY <2>1, <3>1, <3>2 DEF _record, Recorded, Held
  <2>2. CASE audit(c)
    BY <2>2 DEF audit, Held
  <2> QED
    BY <2>1, <2>2
<1> QED
  BY <1>1, <1>2 DEF Held, Settled, Released, RefusedForSize

LEMMA HeldSelect ==
  ASSUME TypeOK, NEW c \in Cases, Held(c),
         NEW s \in Seq(Submissions), NEW reported \in SUBSET Executions, ~Refuses(c, s),
         select_policies(c, s, reported), sent'[c] = s,
         trail[c].count = Len(s), {c} \X Read \subseteq reported \cap audits,
         limit' = limit, profile' = profile,
         UNCHANGED tooling
  PROVE  Held(c)'
<1>1. PICK place \in Rankings :
        /\ facts' = [facts EXCEPT ![c] = Derived(c, s)]
        /\ policies' = [policies EXCEPT ![c] = Found(c, place, s)]
        /\ trail' = [trail EXCEPT
             ![c] = [executions |-> reported, count |-> trail[c].count + 1,
                     shown |-> PoliciesOf(Found(c, place, s))]]
        /\ Goto(c, "draft")
  BY DEF select_policies
<1>2. stage'[c] = "draft"
  BY <1>1 DEF Goto, TypeOK
<1>3. /\ facts'[c] = Derived(c, s) /\ policies'[c] = Found(c, place, s)
      /\ trail'[c] = [executions |-> reported, count |-> Len(s) + 1,
                      shown |-> PoliciesOf(Found(c, place, s))]
  BY <1>1 DEF TypeOK
<1>4. Derived(c, s)' = Derived(c, s) /\ Found(c, place, s)' = Found(c, place, s)
  BY DEF Derived, Found
<1>5. Retrieved(c)'
  <2>1. Len(s) + 1 = 1 + Len(s)
    OBVIOUS
  <2>2. facts'[c] = Derived(c, sent[c])' /\ policies'[c] = Found(c, place, sent[c])'
    BY <1>3, <1>4 DEF Derived, Found
  <2>3. ~Refuses(c, sent[c])'
    BY <1>4 DEF Refuses, Derived
  <2> QED
    BY <1>3, <2>1, <2>2, <2>3 DEF Retrieved, tooling
<1> QED
  BY <1>2, <1>5 DEF Held, Released, RefusedForSize, tooling

LEMMA HeldLoad ==
  ASSUME TypeOK, NEW c \in Cases, Held(c), load_and_retrieve(c)
  PROVE  Held(c)'
<1>1. {c} \X Read \subseteq executions \cap audits
  <2>1. calls[c] = 4 /\ Audited(c)
    BY ToolsRead DEF load_and_retrieve
  <2>2. \A t \in Read : \E i \in 1..4 : t = Tools[i]
    BY ToolsRead DEF Read
  <2>3. \A t \in Read : <<c, t>> \in executions /\ <<c, t>> \in audits
    BY <2>1, <2>2 DEF Held, Audited
  <2> QED
    BY <2>3
<1>2. CASE Refuses(c, <<>>)
  <2>1. Refused(c) /\ UNCHANGED <<limit, profile, calls, executions>>
    BY <1>2 DEF load_and_retrieve, tooling
  <2>2. stage'[c] = "refused"
    BY <2>1 DEF Refused, Goto, TypeOK
  <2>3. Cardinality(Mapped(profile[c].rule)) > limit
    BY <1>2, RefusalMeansSize
  <2> QED
    BY <2>1, <2>2, <2>3 DEF Held, Settled, Released, RefusedForSize
<1>3. CASE ~Refuses(c, <<>>)
  <2>1. /\ select_policies(c, <<>>, executions) /\ sent' = sent
        /\ limit' = limit /\ profile' = profile /\ UNCHANGED tooling
    BY <1>3 DEF load_and_retrieve
  <2>2. sent'[c] = <<>> /\ trail[c].count = Len(<<>>)
    BY <2>1 DEF load_and_retrieve, Held
  <2>3. <<>> \in Seq(Submissions) /\ executions \in SUBSET Executions
    BY DEF TypeOK
  <2> QED
    BY <1>1, <1>3, <2>1, <2>2, <2>3, HeldSelect
<1> QED
  BY <1>2, <1>3

LEMMA HeldDraft ==
  ASSUME TypeOK, NEW c \in Cases, Held(c), draft_recommendation(c)
  PROVE  Held(c)'
<1>1. stage[c] = "draft" /\ stage'[c] = "validate"
  BY DEF draft_recommendation, Goto, TypeOK
<1>2. UNCHANGED <<limit, profile, tooling, grounds>>
  BY DEF draft_recommendation
<1>3. Retrieved(c)
  BY <1>1 DEF Held, Settled
<1>4. Retrieved(c)'
  BY <1>2, <1>3 DEF Retrieved, Refuses, Derived, Found, tooling, grounds
<1> QED
  BY <1>1, <1>2, <1>4 DEF Held, Released, RefusedForSize, tooling

LEMMA HeldValidate ==
  ASSUME TypeOK, NEW c \in Cases, Held(c), validate_controls(c)
  PROVE  Held(c)'
<1>1. stage[c] = "validate"
  BY DEF validate_controls
<1>2. stage'[c] = IF Ungrounded(c, draft[c]) THEN "blocked"
                  ELSE IF draft[c].informs THEN "information" ELSE "review"
  BY DEF validate_controls, Goto, TypeOK
<1>3. UNCHANGED <<limit, profile, tooling, grounds, draft, edited>>
  BY DEF validate_controls
<1>4. Retrieved(c)
  BY <1>1 DEF Held, Settled
<1>5. Retrieved(c)'
  BY <1>3, <1>4 DEF Retrieved, Refuses, Derived, Found, tooling, grounds
<1>6. Ungrounded(c, draft[c])' = Ungrounded(c, draft[c])
  BY <1>3 DEF Ungrounded, Ledger, validate_recommendation, grounds
<1>7. Released(c)' => ~Ungrounded(c, draft[c])'
  BY <1>2, <1>6 DEF Released
<1>8. stage'[c] \notin {"load", "refused"}
  BY <1>2
<1>9. \A i \in 1..calls'[c] : <<c, Tools[i]>> \in executions'
  BY <1>3 DEF Held, tooling
<1> QED
  BY <1>5, <1>7, <1>8, <1>9 DEF Held, RefusedForSize

LEMMA HeldCollect ==
  ASSUME TypeOK, NEW c \in Cases, Held(c), collect_information(c)
  PROVE  Held(c)'
<1>1. stage[c] = "information"
  BY DEF collect_information
<1>2. Retrieved(c)
  BY <1>1 DEF Held, Settled
<1>3. PICK s \in Submissions :
        IF Refuses(c, Append(sent[c], s)) THEN Refused(c)
        ELSE /\ select_policies(c, Append(sent[c], s), trail[c].executions)
             /\ sent' = [sent EXCEPT ![c] = Append(sent[c], s)]
             /\ UNCHANGED evidence
  BY DEF collect_information
<1>4. UNCHANGED <<limit, profile, tooling, draft, edited>>
  BY DEF collect_information
<1>5. sent[c] \in Seq(Submissions) /\ trail[c].executions \in SUBSET Executions
  BY DEF TypeOK
<1>6. CASE Refuses(c, Append(sent[c], s))
  <2>1. stage'[c] = "refused"
    BY <1>3, <1>6 DEF Refused, Goto, TypeOK
  <2>2. Cardinality(Mapped(profile[c].rule)) > limit
    BY <1>6, RefusalMeansSize
  <2>3. \A i \in 1..calls'[c] : <<c, Tools[i]>> \in executions'
    BY <1>4 DEF Held, tooling
  <2> QED
    BY <1>4, <2>1, <2>2, <2>3 DEF Held, Settled, Released, RefusedForSize
<1>7. CASE ~Refuses(c, Append(sent[c], s))
  <2> DEFINE all == Append(sent[c], s)
  <2>1. all \in Seq(Submissions) /\ Len(all) = Len(sent[c]) + 1 /\ Len(sent[c]) \in Nat
    BY <1>5
  <2>2. trail[c].count = Len(all)
    BY <1>2, <2>1 DEF Retrieved
  <2>3. {c} \X Read \subseteq trail[c].executions \cap audits
    BY <1>2 DEF Retrieved
  <2>4. select_policies(c, all, trail[c].executions) /\ sent'[c] = all
    BY <1>3, <1>7 DEF TypeOK
  <2>5. ~Refuses(c, all)
    BY <1>7
  <2> HIDE DEF all
  <2> QED
    BY <1>4, <1>5, <2>1, <2>2, <2>3, <2>4, <2>5, HeldSelect
<1> QED
  BY <1>6, <1>7

LEMMA HeldEnd ==
  ASSUME TypeOK, NEW c \in Cases, Held(c), human_review(c) \/ StageRaises(c)
  PROVE  Held(c)'
<1>1. UNCHANGED <<limit, profile, tooling, grounds>>
  BY DEF human_review, StageRaises
<1>2. \A i \in 1..calls'[c] : <<c, Tools[i]>> \in executions'
  BY <1>1 DEF Held, tooling
<1>3. Retrieved(c) => Retrieved(c)'
  BY <1>1 DEF Retrieved, Refuses, Derived, Found, tooling, grounds
<1>4. CASE human_review(c)
  <2>1. stage[c] = "review" /\ stage'[c] \in {"completed", "draft"}
    BY <1>4 DEF human_review, Goto, TypeOK
  <2>2. Released(c)' => Released(c) /\ draft'[c] = draft[c]
    BY <1>4, <2>1 DEF human_review, Goto, Released, TypeOK
  <2>3. Released(c)' => ~Ungrounded(c, draft[c])'
    <3>1. (Ungrounded(c, draft[c]))' = Ungrounded(c, draft'[c])
      BY <1>1 DEF Ungrounded, Ledger, validate_recommendation, grounds
    <3> QED
      BY <2>2, <3>1 DEF Held
  <2> QED
    BY <1>2, <1>3, <2>1, <2>3 DEF Held, Settled, RefusedForSize
<1>5. CASE StageRaises(c)
  <2>1. stage'[c] = "failed"
    BY <1>5 DEF StageRaises, Goto, TypeOK
  <2> QED
    BY <1>2, <2>1 DEF Held, Settled, Released, RefusedForSize
<1> QED
  BY <1>4, <1>5

-----------------------------------------------------------------------------
(***************************************************************************)
(* The inductive invariant.                                                *)
(***************************************************************************)
IInv == TypeOK /\ \A c \in Cases : Held(c)

LEMMA HeldNext == IInv /\ [Next]_vars => \A c \in Cases : Held(c)'
<1> SUFFICES ASSUME IInv, [Next]_vars, NEW d \in Cases PROVE Held(d)'
  OBVIOUS
<1>1. CASE UNCHANGED vars
  <2>1. Same(d)
    BY <1>1 DEF vars, grounds, tooling, Same
  <2> QED
    BY <2>1, HeldFrame DEF IInv
<1>2. ASSUME NEW c \in Cases, CaseStep(c)
      PROVE  Held(d)'
  <2>1. CASE d # c
    BY <1>2, <2>1, Elsewhere, HeldFrame DEF IInv
  <2>2. CASE d = c
    BY <1>2, <2>2, HeldTools, HeldLoad, HeldDraft, HeldValidate, HeldCollect, HeldEnd
       DEF CaseStep, IInv
  <2> QED
    BY <2>1, <2>2
<1> QED
  BY <1>1, <1>2 DEF Next, CaseStep

LEMMA TypedStep ==
  ASSUME TypeOK, NEW c \in Cases, Held(c), CaseStep(c)
  PROVE  TypeOK'
<1>1. CASE _record(c)
  <2>1. calls[c] + 1 \in 1..4 /\ calls[c] + 1 \in 0..Len(Tools)
    BY <1>1, ToolsRead DEF _record, TypeOK
  <2>2. executions' \subseteq Executions
    BY <1>1, <2>1, ToolsRead DEF _record, Recorded, TypeOK, Executions
  <2> QED
    BY <1>1, <2>1, <2>2 DEF _record, TypeOK, grounds
<1>2. CASE audit(c)
  <2>1. calls[c] \in 1..4
    BY <1>2, ToolsRead DEF audit, Audited, TypeOK
  <2>2. audits' \subseteq Executions
    BY <1>2, <2>1, ToolsRead DEF audit, TypeOK, Executions
  <2> QED
    BY <1>2, <2>2 DEF audit, TypeOK, grounds
<1>3. CASE load_and_retrieve(c)
  <2>1. UNCHANGED <<limit, profile, tooling, draft, edited>>
    BY <1>3 DEF load_and_retrieve
  <2>2. CASE Refuses(c, <<>>)
    <3>1. Refused(c)
      BY <1>3, <2>2 DEF load_and_retrieve
    <3>2. stage' \in [Cases -> Stages]
      BY <3>1 DEF Refused, Goto, TypeOK, Stages, Ended
    <3> QED
      BY <2>1, <3>1, <3>2 DEF Refused, grounds, tooling, TypeOK
  <2>3. CASE ~Refuses(c, <<>>)
    <3>1. /\ select_policies(c, <<>>, executions)
          /\ evidence' = [evidence EXCEPT ![c] = {c} \X Read] /\ sent' = sent
      BY <1>3, <2>3 DEF load_and_retrieve, Gathered
    <3>2. trail[c].count = 0
      BY <1>3 DEF load_and_retrieve, Held
    <3>3. trail[c].count <= MaxSubmissions /\ <<>> \in Seq(Submissions)
      BY <3>2, GroundingAssumption
    <3>4. /\ facts' \in [Cases -> SUBSET POLICY_FACT_IDS]
          /\ policies' \in [Cases -> Retrieval]
          /\ trail' \in [Cases -> [executions: SUBSET Executions,
                              count: 0..(MaxSubmissions + 1), shown: SUBSET Policies]]
          /\ stage' \in [Cases -> Stages]
      <4>1. executions \in SUBSET Executions
        BY DEF TypeOK
      <4> QED
        BY <3>1, <3>3, <4>1, TypedSelect
    <3>5. DOMAIN evidence' = Cases /\ \A d \in Cases : evidence'[d] \subseteq {d} \X Read
      BY <3>1 DEF TypeOK
    <3> QED
      BY <2>1, <3>1, <3>4, <3>5 DEF TypeOK, tooling
  <2> QED
    BY <2>2, <2>3
<1>4. CASE draft_recommendation(c)
  <2>1. PICK r \in Recommendations[c] : draft' = [draft EXCEPT ![c] = r]
    BY <1>4 DEF draft_recommendation
  <2>2. r \in Recommendation
    BY <2>1, GroundingAssumption
  <2>3. stage' \in [Cases -> Stages]
    BY <1>4 DEF draft_recommendation, Goto, TypeOK, Stages
  <2> QED
    BY <1>4, <2>1, <2>2, <2>3 DEF draft_recommendation, TypeOK, grounds, tooling
<1>5. CASE validate_controls(c)
  <2>1. stage' \in [Cases -> Stages]
    BY <1>5 DEF validate_controls, Goto, TypeOK, Stages, Ended
  <2> QED
    BY <1>5, <2>1 DEF validate_controls, TypeOK, grounds, tooling
<1>6. CASE collect_information(c)
  <2>1. UNCHANGED <<limit, profile, tooling, draft, edited>> /\ Len(sent[c]) < MaxSubmissions
    BY <1>6 DEF collect_information
  <2>2. PICK s \in Submissions :
          IF Refuses(c, Append(sent[c], s)) THEN Refused(c)
          ELSE /\ select_policies(c, Append(sent[c], s), trail[c].executions)
               /\ sent' = [sent EXCEPT ![c] = Append(sent[c], s)]
               /\ UNCHANGED evidence
    BY <1>6 DEF collect_information
  <2>3. CASE Refuses(c, Append(sent[c], s))
    <3>1. Refused(c)
      BY <2>2, <2>3
    <3>2. stage' \in [Cases -> Stages]
      BY <3>1 DEF Refused, Goto, TypeOK, Stages, Ended
    <3> QED
      BY <2>1, <3>1, <3>2 DEF Refused, grounds, tooling, TypeOK
  <2>4. CASE ~Refuses(c, Append(sent[c], s))
    <3> DEFINE all == Append(sent[c], s)
    <3>1. sent[c] \in Seq(Submissions) /\ trail[c].executions \in SUBSET Executions
      BY DEF TypeOK
    <3>2. all \in Seq(Submissions) /\ Len(all) = Len(sent[c]) + 1 /\ Len(sent[c]) \in Nat
      BY <3>1
    <3>3. trail[c].count = 1 + Len(sent[c])
      BY <1>6 DEF collect_information, Held, Settled, Retrieved
    <3>4. trail[c].count <= MaxSubmissions /\ Len(all) <= MaxSubmissions
      BY <2>1, <3>2, <3>3, GroundingAssumption
    <3>5. select_policies(c, all, trail[c].executions)
      BY <2>2, <2>4
    <3>6. sent' = [sent EXCEPT ![c] = all] /\ evidence' = evidence
      BY <2>2, <2>4
    <3> HIDE DEF all
    <3>7. /\ facts' \in [Cases -> SUBSET POLICY_FACT_IDS]
          /\ policies' \in [Cases -> Retrieval]
          /\ trail' \in [Cases -> [executions: SUBSET Executions,
                              count: 0..(MaxSubmissions + 1), shown: SUBSET Policies]]
          /\ stage' \in [Cases -> Stages]
      BY <3>1, <3>2, <3>4, <3>5, TypedSelect
    <3>8. sent' \in [Cases -> Seq(Submissions)] /\ \A d \in Cases : Len(sent'[d]) <= MaxSubmissions
      BY <3>2, <3>4, <3>6 DEF TypeOK
    <3> QED
      BY <2>1, <3>6, <3>7, <3>8 DEF TypeOK, tooling
  <2> QED
    BY <2>3, <2>4
<1>7. CASE human_review(c)
  <2>1. stage' \in [Cases -> Stages]
    <3>1. Goto(c, "completed") \/ Goto(c, "draft")
      BY <1>7 DEF human_review
    <3>2. {"completed", "draft"} \subseteq Stages /\ stage \in [Cases -> Stages]
      BY DEF Stages, Ended, TypeOK
    <3> QED BY <3>1, <3>2 DEF Goto
  <2>2. draft' \in [Cases -> {NoDraft} \cup Recommendation]
    <3>1. draft' = draft \/ \E r \in Recommendations[c] : draft' = [draft EXCEPT ![c] = r]
      BY <1>7 DEF human_review
    <3>2. draft \in [Cases -> {NoDraft} \cup Recommendation] /\ Recommendations[c] \subseteq Recommendation
      BY GroundingAssumption DEF TypeOK
    <3> QED BY <3>1, <3>2
  <2>3. edited' \subseteq Cases
    BY <1>7 DEF human_review, TypeOK
  <2> QED
    BY <1>7, <2>1, <2>2, <2>3 DEF human_review, TypeOK, grounds, tooling
<1>8. CASE StageRaises(c)
  <2>1. stage' \in [Cases -> Stages]
    BY <1>8 DEF StageRaises, Goto, TypeOK, Stages, Ended
  <2> QED
    BY <1>8, <2>1 DEF StageRaises, TypeOK, grounds, tooling
<1> QED
  BY <1>1, <1>2, <1>3, <1>4, <1>5, <1>6, <1>7, <1>8 DEF CaseStep

LEMMA Inductive == Spec => []IInv
<1>1. Init => IInv
  BY TypedInit, HeldInit DEF IInv
<1>2. IInv /\ [Next]_vars => IInv'
  <2> SUFFICES ASSUME IInv, [Next]_vars PROVE IInv'
    OBVIOUS
  <2>1. TypeOK'
    <3>1. CASE UNCHANGED vars
      BY <3>1 DEF IInv, TypeOK, vars, grounds, tooling
    <3>2. CASE Next
      BY <3>2, TypedStep DEF Next, CaseStep, IInv
    <3> QED
      BY <3>1, <3>2
  <2>2. \A c \in Cases : Held(c)'
    BY HeldNext
  <2> QED
    BY <2>1, <2>2 DEF IInv
<1> QED
  BY <1>1, <1>2, PTL DEF Spec

-----------------------------------------------------------------------------
(***************************************************************************)
(* Theorems.                                                               *)
(***************************************************************************)

(***************************************************************************)
(* The types are kept by every step of every handler: the ledger of a case *)
(* holds evidence of the case only (tools/service.py 32-120).              *)
(***************************************************************************)
THEOREM GroundingTypeOK == Spec => []TypeOK
BY Inductive, PTL DEF IInv

(***************************************************************************)
(* A case has exactly the mapped policies that are called for by what is   *)
(* so in it, and only a limit below the size of a mapping refuses a case   *)
(* (the parts of RetrievalComplete about mapped policies; retrieval.py     *)
(* 93-178).                                                                *)
(***************************************************************************)
LEMMA MappedIsComplete ==
  ASSUME TypeOK, NEW c \in Cases, Retrieved(c)
  PROVE  MappedComplete(c)
<1> DEFINE a == profile[c].rule
           date == profile[c].created
           fs == TrueOf(c)
           rules == EligibleRules(a, date, fs)
<1>1. a \in AlertRules /\ sent[c] \in Seq(Submission)
  <2>1. profile[c].rule \in AlertRules /\ sent[c] \in Seq(Submissions)
    BY DEF TypeOK, Profile
  <2> QED
    BY <2>1, GroundingAssumption, SeqMonotonic
<1>2. Derived(c, sent[c]) = fs
  BY <1>1, FactsTrue
<1>3. PICK place \in Rankings : policies[c] = search_for_alert(place, a, date, fs, limit)
  BY <1>2 DEF Retrieved, Found
<1> DEFINE found == policies[c]
           names == {r.policy : r \in rules}
<1>4. /\ found.mapped = {Match(r, fs) : r \in rules}
      /\ found.contextual = Contextual(place, date, names, limit - Cardinality(rules))
  BY <1>3 DEF search_for_alert
<1>5. rules = {r \in RulesOf(a) : Needed(c, r) /\ r.policy \in Eligible(date)}
  <2>1. \A r \in Mapping[a].always : r.all \cup r.any = {}
    BY <1>1, PolicyAssumption DEF load_alert_policy_mappings
  <2>2. \A r : _rule_applies(r, fs) <=> Needed(c, r)
    BY DEF _rule_applies, Needed
  <2>3. \A r \in Mapping[a].always : r.all = {} /\ r.any = {}
    BY <2>1
  <2>4. \A r \in Mapping[a].always : Needed(c, r)
    BY <2>3 DEF Needed
  <2> HIDE DEF fs, a, date
  <2> QED
    BY <2>2, <2>4 DEF EligibleRules, RulesOf
<1> HIDE DEF rules, fs
<1>6. {m.policy : m \in found.mapped} = names
  <2>1. \A r : Match(r, fs).policy = r.policy
    BY DEF Match
  <2>2. \A m : m \in found.mapped <=> \E r \in rules : m = Match(r, fs)
    BY <1>4
  <2> HIDE DEF found
  <2> QED
    BY <2>1, <2>2
<1>7. names = {r.policy : r \in {s \in RulesOf(a) : Needed(c, s)}} \cap Eligible(date)
  <2> DEFINE needed == {s \in RulesOf(a) : Needed(c, s)}
  <2>1. rules = {r \in needed : r.policy \in Eligible(date)}
    BY <1>5
  <2>2. names = {r.policy : r \in needed} \cap Eligible(date)
    <3> HIDE DEF needed, a, date
    <3> QED
      BY <2>1
  <2> QED
    BY <2>2
<1>8. \A m \in found.mapped : m.facts \subseteq fs
  <2>1. \A r \in rules : r.all \subseteq fs
    BY <1>5 DEF Needed, fs
  <2> QED
    BY <1>4, <2>1 DEF Match
<1>9. found.contextual \subseteq Eligible(date) \ names
  BY <1>4, ContextualSound
<1> QED
  BY <1>6, <1>7, <1>8, <1>9 DEF MappedComplete, fs

(***************************************************************************)
(* The first n of a finite set in the order of their places are n, or all  *)
(* of them: an element has its rank, the number of those before it, and no *)
(* two have the same.                                                      *)
(***************************************************************************)
Before(place, S, p) == {q \in S : place[q] < place[p]}

LEMMA RankIsSmaller ==
  ASSUME NEW S, IsFiniteSet(S), NEW place, \A p \in S : place[p] \in Nat, NEW p \in S
  PROVE  Cardinality(Before(place, S, p)) \in 0..(Cardinality(S) - 1)
<1> DEFINE B == Before(place, S, p)
<1>1. B \subseteq S \ {p}
  BY DEF Before
<1>2. IsFiniteSet(S \ {p}) /\ Cardinality(S \ {p}) = Cardinality(S) - 1
  BY FS_RemoveElement
<1>3. IsFiniteSet(B) /\ Cardinality(B) <= Cardinality(S \ {p})
  BY <1>1, <1>2, FS_Subset
<1>4. Cardinality(B) \in Nat /\ Cardinality(S) \in Nat
  BY <1>3, FS_CardinalityType
<1> QED
  BY <1>2, <1>3, <1>4

LEMMA RankGrows ==
  ASSUME NEW S, IsFiniteSet(S), NEW place, \A p \in S : place[p] \in Nat,
         NEW p \in S, NEW q \in S, place[p] < place[q]
  PROVE  Cardinality(Before(place, S, p)) < Cardinality(Before(place, S, q))
<1> DEFINE B == Before(place, S, p)
           C == Before(place, S, q)
<1>1. /\ B \subseteq S /\ C \subseteq S
      /\ B \cup {p} \subseteq C /\ p \notin B
  BY DEF Before
<1>2. IsFiniteSet(B) /\ IsFiniteSet(C)
  BY <1>1, FS_Subset
<1>3. Cardinality(B \cup {p}) = Cardinality(B) + 1
  BY <1>1, <1>2, FS_AddElement
<1>4. Cardinality(B \cup {p}) <= Cardinality(C)
  BY <1>1, <1>2, FS_Subset
<1>5. Cardinality(B) \in Nat /\ Cardinality(C) \in Nat
  BY <1>2, FS_CardinalityType
<1> QED
  BY <1>3, <1>4, <1>5

LEMMA FirstCounts ==
  ASSUME NEW S, IsFiniteSet(S), NEW n \in Nat, NEW place, \A p \in S : place[p] \in Nat,
         \A p, q \in S : place[p] = place[q] => p = q
  PROVE  /\ Cardinality(S) <= n => First(place, S, n) = S
         /\ Cardinality(S) >= n => Cardinality(First(place, S, n)) = n
<1> DEFINE rank == [p \in S |-> Cardinality(Before(place, S, p))]
           m == Cardinality(S)
           T == First(place, S, n)
<1>1. m \in Nat
  BY FS_CardinalityType
<1>2. rank \in [S -> 0..(m - 1)]
  BY RankIsSmaller
<1>3. T = {p \in S : rank[p] < n}
  BY DEF First, Before
<1>4. \A p, q \in S : rank[p] = rank[q] => p = q
  <2> SUFFICES ASSUME NEW p \in S, NEW q \in S, p # q PROVE rank[p] # rank[q]
    OBVIOUS
  <2>1. place[p] < place[q] \/ place[q] < place[p]
    BY SMT
  <2>2. \A k \in S : rank[k] = Cardinality(Before(place, S, k)) /\ rank[k] \in Nat
    BY <1>1, <1>2
  <2>3. CASE place[p] < place[q]
    BY <2>2, <2>3, RankGrows
  <2>4. CASE place[q] < place[p]
    BY <2>2, <2>4, RankGrows
  <2> QED
    BY <2>1, <2>3, <2>4
<1> HIDE DEF rank, m, T
<1>5. rank \in Surjection(S, 0..(m - 1))
  <2>1. rank \in Injection(S, 0..(m - 1))
    BY <1>2, <1>4, Fun_IsInj
  <2>2. IsFiniteSet(0..(m - 1)) /\ Cardinality(0..(m - 1)) = m
    BY <1>1, FS_Interval
  <2> QED
    BY <2>1, <2>2, FS_Injection DEF m
<1>6. CASE m <= n
  BY <1>1, <1>2, <1>3, <1>6 DEF T, m
<1>7. CASE m >= n
  <2> DEFINE g == [p \in T |-> rank[p]]
  <2>1. g \in [T -> 0..(n - 1)]
    BY <1>1, <1>2, <1>3
  <2>2. \A p, q \in T : g[p] = g[q] => p = q
    BY <1>3, <1>4
  <2>3. \A k \in 0..(n - 1) : \E p \in T : g[p] = k
    <3> SUFFICES ASSUME NEW k \in 0..(n - 1) PROVE \E p \in T : g[p] = k
      OBVIOUS
    <3>1. k \in 0..(m - 1) /\ k < n
      BY <1>1, <1>7
    <3>2. PICK p \in S : rank[p] = k
      BY <1>5, <3>1 DEF Surjection
    <3> QED
      BY <1>3, <3>1, <3>2
  <2> HIDE DEF g
  <2>4. g \in Injection(T, 0..(n - 1)) /\ g \in Surjection(T, 0..(n - 1))
    BY <2>1, <2>2, <2>3, Fun_IsInj, Fun_IsSurj
  <2>5. IsFiniteSet(0..(n - 1)) /\ Cardinality(0..(n - 1)) = n
    BY FS_Interval
  <2>6. Cardinality(T) = n
    BY <2>4, <2>5, FS_Injection
  <2>7. m <= n => T = S
    BY <1>1, <1>2, <1>3
  <2> QED
    BY <2>6, <2>7 DEF T, m
<1> QED
  BY <1>1, <1>6, <1>7 DEF m

(***************************************************************************)
(* What search_for_alert finds fills the room: as many policies as the     *)
(* limit allows, or all that have a place.                                 *)
(***************************************************************************)
LEMMA SearchFills ==
  ASSUME NEW place \in Ranking, NEW date, NEW names \in SUBSET Policies,
         NEW n \in Nat, n <= SearchLimit, Cardinality(names) <= n
  PROVE  LET rest == Contextual(place, date, names, n - Cardinality(names))
             found == names \cup rest
             placed == {p \in Eligible(date) : place[p] > 0}
         IN  \/ Cardinality(found) = n
             \/ Cardinality(found) < n /\ placed \subseteq found
<1> DEFINE placed == {p \in Eligible(date) : place[p] > 0}
           hits == search(place, date, SearchLimit)
           open == hits \ names
           k == Cardinality(names)
           room == n - k
           rest == Contextual(place, date, names, room)
           found == names \cup rest
<1>1. IsFiniteSet(placed) /\ IsFiniteSet(names) /\ placed \subseteq Policies
  <2>1. placed \subseteq Policies /\ names \subseteq Policies
    BY DEF Eligible
  <2> QED
    BY <2>1, PolicyAssumption, FS_Subset DEF load_corpus
<1>2. hits \subseteq placed /\ hits = First(place, placed, SearchLimit)
  BY DEF search, First
<1>3. /\ IsFiniteSet(hits) /\ IsFiniteSet(open) /\ k \in Nat
      /\ Cardinality(hits) \in Nat /\ Cardinality(open) \in Nat
      /\ Cardinality(hits) <= Cardinality(open) + k
  <2>1. IsFiniteSet(hits)
    BY <1>1, <1>2, FS_Subset
  <2>2. /\ IsFiniteSet(hits \cap names) /\ Cardinality(hits \cap names) <= k
        /\ IsFiniteSet(open) /\ Cardinality(open) = Cardinality(hits) - Cardinality(hits \cap names)
    BY <1>1, <2>1, FS_Difference, FS_Intersection, FS_Subset
  <2>3. /\ Cardinality(hits) \in Nat /\ Cardinality(open) \in Nat /\ k \in Nat
        /\ Cardinality(hits \cap names) \in Nat
    BY <1>1, <2>1, <2>2, FS_CardinalityType
  <2> QED
    BY <2>1, <2>2, <2>3
<1>4. /\ \A p \in placed : place[p] \in Nat
      /\ \A p, q \in placed : place[p] = place[q] => p = q
  BY <1>1 DEF Ranking
<1>5. room \in Nat /\ rest = First(place, open, room)
  BY <1>3 DEF Contextual
<1>6. /\ Cardinality(open) <= room => rest = open
      /\ Cardinality(open) >= room => Cardinality(rest) = room
  <2>1. /\ \A p \in open : place[p] \in Nat
        /\ \A p, q \in open : place[p] = place[q] => p = q
    BY <1>2, <1>4
  <2> HIDE DEF open, room, rest
  <2> QED
    BY <1>3, <1>5, <2>1, FirstCounts
<1>7. rest \subseteq open
  BY <1>5 DEF First
<1>8. IsFiniteSet(rest) /\ Cardinality(rest) \in Nat /\ Cardinality(found) = k + Cardinality(rest)
  <2>1. IsFiniteSet(rest) /\ names \cap rest = {}
    BY <1>3, <1>7, FS_Subset
  <2> HIDE DEF rest
  <2>2. Cardinality(found) = k + Cardinality(rest) - Cardinality({})
    BY <1>1, <2>1, FS_Union
  <2> QED
    BY <1>3, <2>1, <2>2, FS_EmptySet, FS_CardinalityType
<1>9. CASE Cardinality(open) >= room
  <2>1. Cardinality(found) = n
    <3> HIDE DEF rest, open, found
    <3> QED
      BY <1>3, <1>6, <1>8, <1>9
  <2> QED
    BY <2>1
<1>10. CASE Cardinality(open) < room
  <2>1. Cardinality(hits) < SearchLimit
    BY <1>3, <1>10, PolicyAssumption
  <2>2. hits = placed
    <3>1. /\ Cardinality(placed) <= SearchLimit => hits = placed
          /\ Cardinality(placed) >= SearchLimit => Cardinality(hits) = SearchLimit
      <4> HIDE DEF placed, hits
      <4> QED
        BY <1>1, <1>2, <1>4, FirstCounts, PolicyAssumption
    <3>2. Cardinality(placed) \in Nat
      BY <1>1, FS_CardinalityType
    <3> QED
      BY <1>3, <2>1, <3>1, <3>2, PolicyAssumption
  <2>3. rest = open
    BY <1>3, <1>5, <1>6, <1>10
  <2>4. placed \subseteq found
    BY <2>2, <2>3
  <2>5. Cardinality(found) < n
    <3> HIDE DEF rest, open, found
    <3> QED
      BY <1>3, <1>8, <1>10, <2>3
  <2> QED
    BY <2>4, <2>5
<1> QED
  BY <1>3, <1>5, <1>9, <1>10

LEMMA RetrievedIsFilled ==
  ASSUME TypeOK, NEW c \in Cases, Retrieved(c)
  PROVE  Filled(c)
<1> DEFINE a == profile[c].rule
           date == profile[c].created
           fs == Derived(c, sent[c])
           rules == EligibleRules(a, date, fs)
           names == {r.policy : r \in rules}
<1>1. a \in AlertRules /\ limit \in Nat /\ limit <= SearchLimit
  BY GroundingAssumption DEF TypeOK, Profile
<1>2. PICK place \in Rankings : policies[c] = search_for_alert(place, a, date, fs, limit)
  BY DEF Retrieved, Found
<1>3. place \in Ranking
  BY GroundingAssumption
<1>4. rules \subseteq RulesOf(a) /\ RulesOf(a) \subseteq MappedPolicyRule
  BY <1>1, EligibleRulesTyped
<1>5. names \in SUBSET Policies
  BY <1>4 DEF MappedPolicyRule
<1>6. IsFiniteSet(names) /\ Cardinality(names) = Cardinality(rules)
  <2> DEFINE F == [r \in rules |-> r.policy]
  <2>1. \A r, t \in rules : r.policy = t.policy => r = t
    BY <1>1, <1>4, PolicyAssumption DEF load_alert_policy_mappings
  <2>2. /\ F \in [rules -> names]
        /\ \A r, t \in rules : F[r] = F[t] => r = t
        /\ \A p \in names : \E r \in rules : F[r] = p
    BY <2>1
  <2>3. IsFiniteSet(names)
    BY <1>5, PolicyAssumption, FS_Subset DEF load_corpus
  <2> HIDE DEF F, rules, names
  <2>4. F \in Injection(rules, names) /\ F \in Surjection(rules, names)
    BY <2>2, Fun_IsInj, Fun_IsSurj
  <2> QED
    BY <2>3, <2>4, FS_Injection
<1>7. Cardinality(names) \in Nat /\ Cardinality(names) <= limit
  <2>1. ~(Cardinality(rules) > limit)
    BY DEF Retrieved, Refuses, TooMany
  <2>2. Cardinality(names) \in Nat
    BY <1>6, FS_CardinalityType
  <2> QED
    BY <1>1, <1>6, <2>1, <2>2
<1> DEFINE rest == Contextual(place, date, names, limit - Cardinality(names))
<1>8. PoliciesOf(policies[c]) = names \cup rest
  <2>1. /\ policies[c].mapped = {Match(r, fs) : r \in rules}
        /\ policies[c].contextual = rest
    BY <1>2, <1>6 DEF search_for_alert
  <2>2. {m.policy : m \in policies[c].mapped} = names
    <3>1. \A r : Match(r, fs).policy = r.policy
      BY DEF Match
    <3>2. \A m : m \in policies[c].mapped <=> \E r \in rules : m = Match(r, fs)
      BY <2>1
    <3> HIDE DEF rules, fs
    <3> QED
      BY <3>1, <3>2
  <2> QED
    BY <2>1, <2>2 DEF PoliciesOf
<1>9. \/ Cardinality(names \cup rest) = limit
      \/ /\ Cardinality(names \cup rest) < limit
         /\ {p \in Eligible(date) : place[p] > 0} \subseteq names \cup rest
  <2> HIDE DEF names, date
  <2> QED
    BY <1>1, <1>3, <1>5, <1>7, SearchFills
<1> HIDE DEF rest, names
<1> QED
  BY <1>8, <1>9 DEF Filled

(***************************************************************************)
(* Retrieval fails closed, and leaves no room that a policy could fill     *)
(* (retrieval.py 93-178; docs/architecture.md 326-338).                    *)
(***************************************************************************)
THEOREM GroundingRetrievalComplete == Spec => []RetrievalComplete
<1>1. IInv => RetrievalComplete
  BY MappedIsComplete, RetrievedIsFilled DEF IInv, Held, RetrievalComplete
<1> QED
  BY <1>1, Inductive, PTL

(***************************************************************************)
(* The mapped policies alone.                                              *)
(***************************************************************************)
THEOREM MappedPoliciesComplete ==
  Spec => [](\A c \in Cases : (Settled(c) => MappedComplete(c)) /\ RefusedForSize(c))
<1>1. IInv => \A c \in Cases : (Settled(c) => MappedComplete(c)) /\ RefusedForSize(c)
  BY MappedIsComplete DEF IInv, Held
<1> QED
  BY <1>1, Inductive, PTL

(***************************************************************************)
(* What waits for a user or a reviewer, or was approved as it stood, cites *)
(* only what the tools read for this case or its users submitted, and      *)
(* policies of the last retrieval that were in force on the day of the     *)
(* alert, at least one of them if there were any (builder.py 257-342).     *)
(***************************************************************************)
Grounded(c) ==
  /\ \A e \in draft[c].evidence :
       e \in {c} \X Read \/ e \in {c} \X {"information"} \X (1..Len(sent[c]))
  /\ \A p \in draft[c].policies :
       p \in trail[c].shown /\ Chunk[p].from <= profile[c].created /\ profile[c].created <= Chunk[p].to
  /\ trail[c].shown # {} => draft[c].policies # {}

ReleasedGrounded ==
  \A c \in Cases :
    stage[c] \in {"information", "review", "completed"} /\ c \notin edited => Grounded(c)

(***************************************************************************)
(* What was released is grounded (builder.py 257-342).                     *)
(***************************************************************************)
THEOREM GroundingReleasedGrounded == Spec => []ReleasedGrounded
<1>1. IInv => ReleasedGrounded
  <2> SUFFICES ASSUME IInv, NEW c \in Cases, Released(c) PROVE Grounded(c)
    BY DEF ReleasedGrounded, Released
  <2>1. TypeOK /\ Retrieved(c) /\ ~Ungrounded(c, draft[c])
    BY DEF IInv, Held, Released, Settled
  <2>2. draft[c].evidence \subseteq Ledger(c)
    BY <2>1 DEF Ungrounded, validate_recommendation
  <2>3. Len(sent[c]) \in Nat /\ DOMAIN sent[c] = 1..Len(sent[c])
    BY <2>1 DEF TypeOK
  <2>4. \A e \in draft[c].evidence :
          e \in {c} \X Read \/ e \in {c} \X {"information"} \X (1..Len(sent[c]))
    BY <2>1, <2>2, <2>3 DEF Ledger, TypeOK
  <2>5. draft[c].policies \subseteq PoliciesOf(policies[c])
    BY <2>1 DEF Ungrounded, validate_policy_citations
  <2>6. PoliciesOf(policies[c]) \subseteq Eligible(profile[c].created)
    BY <2>1, MappedIsComplete DEF MappedComplete, PoliciesOf
  <2>7. trail[c].shown = PoliciesOf(policies[c])
    BY <2>1 DEF Retrieved
  <2>8. trail[c].shown # {} => draft[c].policies # {}
    BY <2>1, <2>7 DEF Ungrounded
  <2>9. \A p \in draft[c].policies :
          p \in trail[c].shown /\ Chunk[p].from <= profile[c].created
            /\ profile[c].created <= Chunk[p].to
    BY <2>5, <2>6, <2>7 DEF Eligible
  <2> QED
    BY <2>4, <2>8, <2>9 DEF Grounded
<1> QED
  BY <1>1, Inductive, PTL

(***************************************************************************)
(* The trajectory accounts for the case whatever the other cases do to the *)
(* shared list (builder.py 188-216; tools/service.py 165-187).             *)
(***************************************************************************)
THEOREM GroundingTrailAccounts == Spec => []TrailAccounts
<1>1. IInv => TrailAccounts
  BY DEF IInv, Held, Retrieved, TrailAccounts
<1> QED
  BY <1>1, Inductive, PTL

(***************************************************************************)
(* A submission never makes a fact true that was not, except by blanking   *)
(* the purpose: what is asked for stays answered (builder.py 398-473).     *)
(***************************************************************************)
FactsHold == \A c \in Cases : Settled(c) => facts[c] = TrueOf(c)

LEMMA FactsHoldAlways == IInv => FactsHold
<1> SUFFICES ASSUME IInv, NEW c \in Cases, Settled(c) PROVE facts[c] = TrueOf(c)
  BY DEF FactsHold
<1>1. facts[c] = Derived(c, sent[c])
  BY DEF IInv, Held, Retrieved
<1>2. sent[c] \in Seq(Submissions)
  BY DEF IInv, TypeOK
<1>3. sent[c] \in Seq(Submission)
  BY <1>2, GroundingAssumption, SeqMonotonic
<1> QED
  BY <1>1, <1>3, FactsTrue

LEMMA AnswersStay ==
  ASSUME TypeOK, NEW c \in Cases, NEW s \in Submissions,
         sent'[c] = Append(sent[c], s), profile' = profile
  PROVE  \A x \in TrueOf(c)' \ TrueOf(c) :
           x = "relationship_purpose_unavailable" /\ s["purpose"] = "blank"
<1> DEFINE n == Len(sent[c])
<1>1. /\ n \in Nat /\ DOMAIN sent[c] = 1..n /\ DOMAIN sent'[c] = 1..(n + 1)
      /\ \A i \in 1..n : sent'[c][i] = sent[c][i]
      /\ sent'[c][n + 1] = s
  <2>1. sent[c] \in Seq(Submissions)
    BY DEF TypeOK
  <2> QED
    BY <2>1
<1> HIDE DEF n
<1>2. \A f : Given(c, f) => Given(c, f)'
  BY <1>1 DEF Given
<1>3. PurposeKnown(c) /\ s["purpose"] # "blank" => PurposeKnown(c)'
  <2> SUFFICES ASSUME PurposeKnown(c), s["purpose"] # "blank", ~profile[c].purpose
               PROVE  PurposeKnown(c)'
    BY DEF PurposeKnown
  <2>1. PICK i \in DOMAIN sent[c] :
          /\ sent[c][i]["purpose"] \in {"null", "text"}
          /\ \A j \in DOMAIN sent[c] : j > i => sent[c][j]["purpose"] # "blank"
    BY DEF PurposeKnown
  <2>2. i \in DOMAIN sent'[c] /\ sent'[c][i]["purpose"] \in {"null", "text"}
    BY <1>1, <2>1
  <2>3. \A j \in DOMAIN sent'[c] : j > i => sent'[c][j]["purpose"] # "blank"
    <3>1. \A j \in 1..(n + 1) : j \in 1..n \/ j = n + 1
      BY <1>1
    <3> QED
      BY <1>1, <2>1, <3>1
  <2> QED
    BY <2>2, <2>3 DEF PurposeKnown
<1>4. \A x \in TrueOf(c)' : x \in TrueOf(c) \/ (x = "relationship_purpose_unavailable"
                                                 /\ PurposeKnown(c) /\ ~PurposeKnown(c)')
  BY <1>2 DEF TrueOf, When
<1> QED
  BY <1>3, <1>4

LEMMA NarrowStep ==
  ASSUME IInv, FactsHold, FactsHold', [Next]_vars
  PROVE  \A c \in Cases :
           sent'[c] # sent[c] =>
             \A x \in facts'[c] \ facts[c] :
               /\ x = "relationship_purpose_unavailable"
               /\ sent'[c][Len(sent'[c])]["purpose"] = "blank"
<1> SUFFICES ASSUME NEW c \in Cases, sent'[c] # sent[c],
                    NEW x \in facts'[c] \ facts[c]
             PROVE  /\ x = "relationship_purpose_unavailable"
                    /\ sent'[c][Len(sent'[c])]["purpose"] = "blank"
  OBVIOUS
<1>1. PICK d \in Cases : CaseStep(d)
  BY DEF vars, grounds, Next, CaseStep
<1>2. d = c
  BY <1>1, Elsewhere DEF Same, IInv
<1>3. collect_information(c)
  BY <1>1, <1>2 DEF CaseStep, _record, audit, load_and_retrieve, Refused, draft_recommendation,
     validate_controls, human_review, StageRaises, grounds
<1>4. PICK s \in Submissions :
        IF Refuses(c, Append(sent[c], s)) THEN Refused(c)
        ELSE /\ select_policies(c, Append(sent[c], s), trail[c].executions)
             /\ sent' = [sent EXCEPT ![c] = Append(sent[c], s)]
             /\ UNCHANGED evidence
  BY <1>3 DEF collect_information
<1>5. ~Refuses(c, Append(sent[c], s))
  BY <1>4 DEF Refused, grounds
<1>6. sent'[c] = Append(sent[c], s) /\ sent[c] \in Seq(Submissions) /\ stage'[c] = "draft"
  BY <1>4, <1>5 DEF IInv, TypeOK, select_policies, Goto
<1>7. Settled(c) /\ Settled(c)' /\ profile' = profile
  BY <1>3, <1>6 DEF collect_information, Settled
<1>8. facts[c] = TrueOf(c) /\ facts'[c] = TrueOf(c)'
  BY <1>7 DEF FactsHold
<1>9. x = "relationship_purpose_unavailable" /\ s["purpose"] = "blank"
  BY <1>6, <1>7, <1>8, AnswersStay DEF IInv
<1>10. sent'[c][Len(sent'[c])] = s
  BY <1>6
<1> QED
  BY <1>9, <1>10

THEOREM GroundingInformationNarrows == Spec => InformationNarrows
<1>1. IInv /\ FactsHold /\ FactsHold' /\ [Next]_vars =>
        [\A c \in Cases :
           sent'[c] # sent[c] =>
             \A x \in facts'[c] \ facts[c] :
               /\ x = "relationship_purpose_unavailable"
               /\ sent'[c][Len(sent'[c])]["purpose"] = "blank"]_vars
  BY NarrowStep
<1> QED
  BY <1>1, Inductive, FactsHoldAlways, PTL DEF Spec, InformationNarrows

-----------------------------------------------------------------------------
(***************************************************************************)
(* The ledger of citations.  Beyond IInv: the tools' evidence is there     *)
(* from the end of the load on, and only a case that is complete was       *)
(* edited.                                                                 *)
(***************************************************************************)
Shelf(c) ==
  /\ stage[c] = "load" => evidence[c] = {}
  /\ Settled(c) => evidence[c] = {c} \X Read
  /\ c \in edited => stage[c] = "completed"

LEMMA ShelfFrame ==
  ASSUME NEW c \in Cases, Same(c), Shelf(c)
  PROVE  Shelf(c)'
  BY DEF Same, Shelf, Settled

LEMMA ShelfInit == Init => \A c \in Cases : Shelf(c)
  BY DEF Init, Shelf, Settled

LEMMA ShelfOwn ==
  ASSUME TypeOK, NEW c \in Cases, Shelf(c), CaseStep(c)
  PROVE  Shelf(c)'
<1> USE DEF TypeOK, Shelf, Settled, Goto, grounds, tooling
<1>1. CASE _record(c)
  BY <1>1 DEF _record
<1>2. CASE audit(c)
  BY <1>2 DEF audit
<1>3. CASE load_and_retrieve(c)
  BY <1>3 DEF load_and_retrieve, Refused, select_policies, Gathered
<1>4. CASE draft_recommendation(c)
  BY <1>4 DEF draft_recommendation
<1>5. CASE validate_controls(c)
  BY <1>5 DEF validate_controls
<1>6. CASE collect_information(c)
  BY <1>6 DEF collect_information, Refused, select_policies
<1>7. CASE human_review(c)
  BY <1>7 DEF human_review
<1>8. CASE StageRaises(c)
  BY <1>8 DEF StageRaises, Ended
<1> QED
  BY <1>1, <1>2, <1>3, <1>4, <1>5, <1>6, <1>7, <1>8 DEF CaseStep

LEMMA ShelfNext ==
  ASSUME TypeOK, \A c \in Cases : Shelf(c), [Next]_vars
  PROVE  \A c \in Cases : Shelf(c)'
<1> SUFFICES ASSUME NEW c \in Cases PROVE Shelf(c)'
  OBVIOUS
<1>1. CASE UNCHANGED vars
  BY <1>1, ShelfFrame DEF vars, grounds, Same
<1>2. CASE Next
  <2>1. PICK d \in Cases : CaseStep(d)
    BY <1>2 DEF Next, CaseStep
  <2>2. CASE d = c
    BY <2>1, <2>2, ShelfOwn
  <2>3. CASE d # c
    BY <2>1, <2>3, Elsewhere, ShelfFrame
  <2> QED
    BY <2>2, <2>3
<1> QED
  BY <1>1, <1>2

(***************************************************************************)
(* The ledger of a case holds evidence of that case only.                  *)
(***************************************************************************)
LEMMA OwnEvidence ==
  ASSUME TypeOK, NEW c \in Cases, NEW e \in Ledger(c)
  PROVE  e[1] = c
<1>1. evidence[c] \subseteq {c} \X Read
  BY DEF TypeOK
<1>2. CASE e \in evidence[c]
  BY <1>1, <1>2
<1>3. CASE e \in {c} \X {"information"} \X DOMAIN sent[c]
  BY <1>3
<1> QED
  BY <1>2, <1>3 DEF Ledger

LEMMA OwnEvidenceLater ==
  ASSUME TypeOK', NEW c \in Cases, NEW e, e \in Ledger(c)'
  PROVE  e[1] = c
<1>1. evidence'[c] \subseteq {c} \X Read
  BY DEF TypeOK
<1>2. CASE e \in evidence'[c]
  BY <1>1, <1>2
<1>3. CASE e \in {c} \X {"information"} \X DOMAIN sent'[c]
  BY <1>3
<1> QED
  BY <1>2, <1>3 DEF Ledger

(***************************************************************************)
(* A step of one case leaves the entries of the others as they were.       *)
(***************************************************************************)
LEMMA EntryFrame ==
  ASSUME NEW c \in Cases, Same(c)
  PROVE  Ledger(c)' = Ledger(c) /\ InForce(c)' = InForce(c) /\ Stands(c)' = Stands(c)
  BY DEF Same, Ledger, InForce, Stands, Becomes, Cited

(***************************************************************************)
(* What a step does to the ledger when it changes one case's entry only.   *)
(***************************************************************************)
Alone(c) ==
  \A d \in Cases \ {c} :
    Ledger(d)' = Ledger(d) /\ InForce(d)' = InForce(d) /\ Stands(d)' = Stands(d)

LEMMA EntryMoves ==
  ASSUME NEW c \in Cases, Alone(c)
  PROVE  /\ known' = [known EXCEPT ![c] = Ledger(c)']
         /\ quotable' = [quotable EXCEPT ![c] = InForce(c)']
         /\ standing' = [standing EXCEPT ![c] = Stands(c)']
  BY DEF Alone, known, quotable, standing

LEMMA EntryKept ==
  ASSUME NEW c \in Cases, Alone(c), Ledger(c)' = Ledger(c), InForce(c)' = InForce(c)
  PROVE  UNCHANGED <<known, quotable>>
  BY DEF Alone, known, quotable

LEMMA Entries ==
  ASSUME NEW c \in Cases
  PROVE  /\ known[c] = Ledger(c) /\ quotable[c] = InForce(c) /\ standing[c] = Stands(c)
         /\ known'[c] = Ledger(c)' /\ quotable'[c] = InForce(c)' /\ standing'[c] = Stands(c)'
  BY DEF known, quotable, standing

LEMMA StandsAs ==
  ASSUME NEW c \in Cases
  PROVE  standing[c].is = Becomes(c)
<1>1. Stands(c).is = Becomes(c)
  BY DEF Stands
<1> QED
  BY <1>1, Entries

(***************************************************************************)
(* The tools' executions and the drafting leave the ledger alone.          *)
(***************************************************************************)
LEMMA QuietStep ==
  ASSUME TypeOK, NEW c \in Cases, Alone(c), _record(c) \/ audit(c) \/ draft_recommendation(c)
  PROVE  UNCHANGED <<known, quotable, standing>>
<1>1. UNCHANGED <<profile, grounds, edited>>
  BY DEF _record, audit, draft_recommendation
<1>2. Ledger(c)' = Ledger(c) /\ InForce(c)' = InForce(c)
  BY <1>1 DEF grounds, Ledger, InForce
<1>3. Stands(c)' = Stands(c)
  <2>1. CASE _record(c) \/ audit(c)
    BY <2>1 DEF _record, audit, Stands, Becomes, Cited
  <2>2. CASE draft_recommendation(c)
    BY <2>2 DEF TypeOK, draft_recommendation, Goto, Stands, Becomes, Cited
  <2> QED
    BY <2>1, <2>2
<1> QED
  BY <1>2, <1>3 DEF Alone, known, quotable, standing

(***************************************************************************)
(* A failure, a refusal or a block abandons the case.                      *)
(***************************************************************************)
LEMMA AbandonStep ==
  ASSUME NEW c \in Cases, Alone(c), stage[c] \notin Ended,
         stage'[c] \in {"blocked", "failed", "refused"},
         UNCHANGED <<profile, grounds>>
  PROVE  Citations!Abandon(c)
<1>1. Ledger(c)' = Ledger(c) /\ InForce(c)' = InForce(c)
  BY DEF grounds, Ledger, InForce
<1>2. Stands(c)' = Citations!Without("abandoned")
  BY DEF Stands, Becomes, Cited, Citations!Without
<1>3. ~Citations!Final(c)
  <2>1. Becomes(c) \in {"asking", "waiting", "open"}
    BY DEF Becomes, Ended
  <2> QED
    BY <2>1, StandsAs DEF Citations!Final
<1> QED
  BY <1>1, <1>2, <1>3, EntryMoves, EntryKept DEF Citations!Abandon, Citations!Moves

(***************************************************************************)
(* The load, and an answer: evidence of the case that was not there.       *)
(***************************************************************************)
LEMMA LearnStep ==
  ASSUME TypeOK, TypeOK', NEW c \in Cases, Alone(c),
         \/ stage[c] = "load" /\ Ledger(c) = {}
         \/ stage[c] = "information",
         stage'[c] = "draft",
         Ledger(c) \subseteq Ledger(c)', NEW e, e \in Ledger(c)', e \notin Ledger(c)
  PROVE  Citations!Learn(c)
<1>1. Stands(c)' = Citations!Without("open")
  BY DEF Stands, Becomes, Cited, Citations!Without
<1>2. \/ standing[c].is = "open" /\ known[c] = {}
      \/ standing[c].is = "asking"
  <2>1. stage[c] = "load" => Becomes(c) = "open"
    BY DEF Becomes
  <2>2. stage[c] = "information" => Becomes(c) = "asking"
    BY DEF Becomes
  <2> QED
    BY <2>1, <2>2, Entries, StandsAs
<1>3. \A d \in Cases \ {c} : known'[c] \cap known[d] = {}
  <2> SUFFICES ASSUME NEW d \in Cases \ {c}, NEW x \in Ledger(c)', x \in Ledger(d) PROVE FALSE
    BY Entries
  <2>1. x[1] = d
    BY OwnEvidence
  <2>2. x[1] = c
    BY OwnEvidenceLater
  <2> QED
    BY <2>1, <2>2
<1> QED
  BY <1>1, <1>2, <1>3, Entries, EntryMoves DEF Citations!Learn, Citations!Moves

LEMMA LoadStep ==
  ASSUME TypeOK, TypeOK', NEW c \in Cases, Alone(c), Held(c), Shelf(c), load_and_retrieve(c)
  PROVE  Citations!Abandon(c) \/ Citations!Learn(c)
<1>1. stage[c] = "load" /\ UNCHANGED <<limit, profile, tooling, draft, edited>>
  BY DEF load_and_retrieve
<1>2. CASE Refuses(c, <<>>)
  <2>1. Refused(c)
    BY <1>2 DEF load_and_retrieve
  <2>2. stage'[c] = "refused" /\ UNCHANGED grounds
    BY <2>1 DEF Refused, Goto, TypeOK
  <2> QED
    BY <1>1, <2>2, AbandonStep DEF Ended
<1>3. CASE ~Refuses(c, <<>>)
  <2>1. select_policies(c, <<>>, executions) /\ evidence' = [evidence EXCEPT ![c] = Gathered(c)]
        /\ UNCHANGED sent
    BY <1>3 DEF load_and_retrieve
  <2>2. stage'[c] = "draft" /\ evidence'[c] = {c} \X Read
    BY <2>1 DEF select_policies, Goto, Gathered, TypeOK
  <2>3. sent[c] = <<>>
    BY <1>1 DEF Held
  <2>4. Ledger(c) = {}
    BY <1>1, <2>3 DEF Shelf, Ledger
  <2>5. <<c, Tools[1]>> \in Ledger(c)'
    BY <2>2, ToolsRead DEF Ledger
  <2> QED
    BY <1>1, <2>2, <2>4, <2>5, LearnStep
<1> QED
  BY <1>2, <1>3

LEMMA InformationIsNew ==
  ASSUME TypeOK, NEW c \in Cases, NEW n, <<c, "information", n>> \in Ledger(c)
  PROVE  n \in DOMAIN sent[c]
<1>1. evidence[c] \subseteq {c} \X Read
  BY DEF TypeOK
<1>2. "information" \notin Read
  BY DEF Read, Tools
<1>3. <<c, "information", n>> \notin {c} \X Read
  BY <1>2
<1> QED
  BY <1>1, <1>3 DEF Ledger

LEMMA CollectStep ==
  ASSUME TypeOK, TypeOK', NEW c \in Cases, Alone(c), collect_information(c)
  PROVE  Citations!Abandon(c) \/ Citations!Learn(c)
<1>1. stage[c] = "information" /\ UNCHANGED <<limit, profile, tooling, draft, edited>>
  BY DEF collect_information
<1>2. PICK s \in Submissions :
        IF Refuses(c, Append(sent[c], s)) THEN Refused(c)
        ELSE /\ select_policies(c, Append(sent[c], s), trail[c].executions)
             /\ sent' = [sent EXCEPT ![c] = Append(sent[c], s)]
             /\ UNCHANGED evidence
  BY DEF collect_information
<1>3. CASE Refuses(c, Append(sent[c], s))
  <2>1. stage'[c] = "refused" /\ UNCHANGED grounds
    BY <1>2, <1>3 DEF Refused, Goto, TypeOK
  <2> QED
    BY <1>1, <2>1, AbandonStep DEF Ended
<1>4. CASE ~Refuses(c, Append(sent[c], s))
  <2> DEFINE n == Len(sent[c]) + 1
  <2>1. stage'[c] = "draft" /\ evidence' = evidence /\ sent'[c] = Append(sent[c], s)
    BY <1>2, <1>4 DEF select_policies, Goto, TypeOK
  <2>2. sent[c] \in Seq(Submissions)
    BY DEF TypeOK
  <2>3. /\ DOMAIN sent[c] = 1..Len(sent[c]) /\ Len(sent[c]) \in Nat
        /\ DOMAIN sent'[c] = 1..(Len(sent[c]) + 1)
    BY <2>1, <2>2
  <2>4. n \in DOMAIN sent'[c] /\ n \notin DOMAIN sent[c] /\ DOMAIN sent[c] \subseteq DOMAIN sent'[c]
    BY <2>3
  <2> HIDE DEF n
  <2>5. Ledger(c) \subseteq Ledger(c)'
    BY <2>1, <2>4 DEF Ledger
  <2>6. <<c, "information", n>> \in Ledger(c)'
    BY <2>4 DEF Ledger
  <2>7. <<c, "information", n>> \notin Ledger(c)
    BY <2>4, InformationIsNew
  <2> QED
    BY <1>1, <2>1, <2>5, <2>6, <2>7, LearnStep
<1> QED
  BY <1>3, <1>4

(***************************************************************************)
(* The controls let through what is grounded: everything the trajectory    *)
(* shows is in force, so what is quotable is what was retrieved.           *)
(***************************************************************************)
LEMMA ShownInForce ==
  ASSUME TypeOK, NEW c \in Cases, Retrieved(c), Settled(c), Held(c)
  PROVE  InForce(c) = PoliciesOf(policies[c])
<1>1. PoliciesOf(policies[c]) \subseteq Eligible(profile[c].created)
  BY MappedIsComplete DEF MappedComplete, PoliciesOf
<1>2. trail[c].shown = PoliciesOf(policies[c])
  BY DEF Retrieved
<1> QED
  BY <1>1, <1>2 DEF Eligible, InForce

LEMMA ValidateStep ==
  ASSUME TypeOK, NEW c \in Cases, Alone(c), Held(c), Shelf(c), validate_controls(c)
  PROVE  Citations!Abandon(c) \/ Citations!PutForward(c)
<1>1. stage[c] = "validate" /\ UNCHANGED <<limit, profile, tooling, grounds, draft, edited>>
  BY DEF validate_controls
<1>2. stage'[c] = IF Ungrounded(c, draft[c]) THEN "blocked"
                  ELSE IF draft[c].informs THEN "information" ELSE "review"
  BY DEF validate_controls, Goto, TypeOK
<1>3. CASE Ungrounded(c, draft[c])
  BY <1>1, <1>2, <1>3, AbandonStep DEF Ended
<1>4. CASE ~Ungrounded(c, draft[c])
  <2>1. stage'[c] \in {"information", "review"}
    BY <1>2, <1>4
  <2>2. Settled(c) /\ Retrieved(c)
    BY <1>1 DEF Settled, Held
  <2>3. draft[c].evidence \subseteq Ledger(c)
    BY <1>4 DEF Ungrounded, validate_recommendation
  <2>4. /\ draft[c].policies \subseteq InForce(c)
        /\ InForce(c) # {} => draft[c].policies # {}
    BY <1>4, <2>2, ShownInForce DEF Ungrounded, validate_policy_citations
  <2>5. /\ Stands(c)'.is \in {"asking", "waiting"}
        /\ Stands(c)'.cites = draft[c].evidence /\ Stands(c)'.quotes = draft[c].policies
    BY <1>1, <2>1 DEF Stands, Becomes, Cited
  <2>6. Becomes(c) = "open"
    BY <1>1 DEF Becomes
  <2>7. <<c, Tools[1]>> \in Ledger(c)
    BY <2>2, ToolsRead DEF Ledger, Shelf
  <2>8. Ledger(c)' = Ledger(c) /\ InForce(c)' = InForce(c)
    BY <1>1 DEF grounds, Ledger, InForce
  <2> QED
    BY <2>3, <2>4, <2>5, <2>6, <2>7, <2>8, StandsAs, Entries, EntryMoves, EntryKept
    DEF Citations!PutForward, Citations!Moves
<1> QED
  BY <1>3, <1>4

(***************************************************************************)
(* The reviewer approves, replaces or sends back what waits.               *)
(***************************************************************************)
LEMMA ReviewStep ==
  ASSUME TypeOK, TypeOK', NEW c \in Cases, Alone(c), Shelf(c), human_review(c)
  PROVE  Citations!Approve(c) \/ Citations!Replace(c) \/ Citations!Revise(c)
<1>1. stage[c] = "review" /\ UNCHANGED <<limit, profile, tooling, grounds>>
  BY DEF human_review
<1>2. c \notin edited
  BY <1>1 DEF Shelf
<1>3. standing[c].is = "waiting"
  <2>1. Becomes(c) = "waiting"
    BY <1>1 DEF Becomes
  <2> QED
    BY <2>1, StandsAs
<1>4. UNCHANGED <<known, quotable>>
  <2>1. Ledger(c)' = Ledger(c) /\ InForce(c)' = InForce(c)
    BY <1>1 DEF grounds, Ledger, InForce
  <2> QED
    BY <2>1, EntryKept
<1>5. CASE Goto(c, "completed") /\ UNCHANGED <<draft, edited>>
  <2>1. stage'[c] = "completed"
    BY <1>5 DEF Goto, TypeOK
  <2>2. Stands(c) = [is |-> "waiting", cites |-> draft[c].evidence, quotes |-> draft[c].policies]
    BY <1>1 DEF Stands, Becomes, Cited
  <2>3. Stands(c)' = [is |-> "approved", cites |-> draft[c].evidence, quotes |-> draft[c].policies]
    BY <1>2, <1>5, <2>1 DEF Stands, Becomes, Cited
  <2>4. Stands(c)' = [Stands(c) EXCEPT !.is = "approved"]
    BY <2>2, <2>3
  <2> QED
    BY <1>3, <1>4, <2>4, Entries, EntryMoves DEF Citations!Approve, Citations!Moves
<1>6. CASE Goto(c, "completed") /\ edited' = edited \cup {c}
           /\ \E r \in Recommendations[c] : draft' = [draft EXCEPT ![c] = r]
  <2>1. stage'[c] = "completed" /\ c \in edited'
    BY <1>6 DEF Goto, TypeOK
  <2>2. draft'[c] \in Recommendation
    <3>1. PICK r \in Recommendations[c] : draft' = [draft EXCEPT ![c] = r]
      BY <1>6
    <3>2. Recommendations[c] \subseteq Recommendation
      BY GroundingAssumption
    <3> QED
      BY <3>1, <3>2 DEF TypeOK
  <2>3. Stands(c)' = [is |-> "replaced", cites |-> draft'[c].evidence, quotes |-> draft'[c].policies]
    BY <2>1 DEF Stands, Becomes, Cited
  <2>4. draft'[c].evidence \subseteq EvidenceIds /\ draft'[c].policies \subseteq Policies
    BY <2>2 DEF Recommendation
  <2>5. Stands(c)' \in Citations!Standing /\ Stands(c)'.is = "replaced"
    BY <2>3, <2>4 DEF Citations!Standing
  <2> QED
    BY <1>3, <1>4, <2>5, Entries, EntryMoves DEF Citations!Replace, Citations!Moves
<1>7. CASE Goto(c, "draft")
  <2>1. stage'[c] = "draft"
    BY <1>7 DEF Goto, TypeOK
  <2>2. Stands(c)' = Citations!Without("open")
    BY <2>1 DEF Stands, Becomes, Cited, Citations!Without
  <2> QED
    BY <1>3, <1>4, <2>2, EntryMoves DEF Citations!Revise, Citations!Moves
<1> QED
  BY <1>5, <1>6, <1>7 DEF human_review

LEMMA CitationInit == Init => Citations!CitationInit
<1> SUFFICES ASSUME Init PROVE Citations!CitationInit
  OBVIOUS
<1>1. \A c \in Cases : Ledger(c) = {} /\ InForce(c) = {}
  BY DEF Init, Ledger, InForce
<1>2. \A c \in Cases : Stands(c) = Citations!Without("open")
  BY DEF Init, Stands, Becomes, Cited, Citations!Without
<1> QED
  BY <1>1, <1>2 DEF Citations!CitationInit, known, quotable, standing

LEMMA CitationStep ==
  ASSUME IInv, IInv', \A c \in Cases : Shelf(c), [Next]_vars
  PROVE  [Citations!CitationNext]_<<known, quotable, standing>>
<1>1. CASE UNCHANGED vars
  BY <1>1 DEF vars, grounds, known, quotable, standing, Ledger, InForce, Stands, Becomes, Cited
<1>2. CASE Next
  <2>1. PICK c \in Cases : CaseStep(c)
    BY <1>2 DEF Next, CaseStep
  <2>2. TypeOK /\ TypeOK' /\ Held(c) /\ Shelf(c)
    BY DEF IInv
  <2>3. Alone(c)
    BY <2>1, <2>2, Elsewhere, EntryFrame DEF Alone
  <2>4. CASE _record(c) \/ audit(c) \/ draft_recommendation(c)
    BY <2>2, <2>3, <2>4, QuietStep
  <2>5. CASE load_and_retrieve(c)
    BY <2>2, <2>3, <2>5, LoadStep DEF Citations!CitationNext
  <2>6. CASE validate_controls(c)
    BY <2>2, <2>3, <2>6, ValidateStep DEF Citations!CitationNext
  <2>7. CASE collect_information(c)
    BY <2>2, <2>3, <2>7, CollectStep DEF Citations!CitationNext
  <2>8. CASE human_review(c)
    BY <2>2, <2>3, <2>8, ReviewStep DEF Citations!CitationNext
  <2>9. CASE StageRaises(c)
    <3>1. stage[c] \notin Ended /\ stage'[c] = "failed" /\ UNCHANGED <<profile, grounds>>
      BY <2>2, <2>9 DEF StageRaises, Goto, TypeOK
    <3> QED
      BY <2>3, <3>1, AbandonStep DEF Citations!CitationNext
  <2> QED
    BY <2>1, <2>4, <2>5, <2>6, <2>7, <2>8, <2>9 DEF CaseStep
<1> QED
  BY <1>1, <1>2

(***************************************************************************)
(* Cases implement the ledger of citations: evidence is only added, no     *)
(* case learns another's, and a recommendation that was put forward stands *)
(* as it was grounded until it is decided on (builder.py 186-224, 257-364, *)
(* 398-524).                                                               *)
(***************************************************************************)
THEOREM GroundingImplementsCitations == Spec => CitationSpec
<1> DEFINE Shelves == \A c \in Cases : Shelf(c)
<1>1. Init => Shelves
  BY ShelfInit
<1>2. IInv /\ Shelves /\ [Next]_vars => Shelves'
  BY ShelfNext DEF IInv
<1>3. IInv /\ IInv' /\ Shelves /\ [Next]_vars
        => [Citations!CitationNext]_<<known, quotable, standing>>
  BY CitationStep
<1> HIDE DEF Shelves
<1>4. Spec => []Shelves
  BY <1>1, <1>2, Inductive, PTL DEF Spec
<1> QED
  BY <1>3, <1>4, CitationInit, Inductive, PTL
  DEF Spec, CitationSpec, Citations!CitationSpec, Citations!ledger

=============================================================================
