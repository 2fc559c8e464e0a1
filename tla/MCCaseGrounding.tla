--------------------------- MODULE MCCaseGrounding ---------------------------
(***************************************************************************)
(* Two cases over the corpus and the mappings the repository ships: 27     *)
(* excerpts of which one is not yet in force (approved_excerpts/           *)
(* initial.yaml), with the years of effect that tell the alerts' day       *)
(* apart, and the rules of alert_policy_mappings.yaml.                     *)
(***************************************************************************)
EXTENDS CaseGrounding, TLC

CONSTANTS c1, c2

MCAlways == {"ONGOING-MONITORING", "ATYPICAL-ANALYSIS", "REPORT-BASIS", "RECORD-RETENTION"}
MCTracfin ==
  {"TRACFIN-NO-THRESHOLD", "TRACFIN-NO-PROOF", "TRACFIN-ANALYSIS", "STR-CONFIDENTIALITY"}
MCConditional ==
  {"KYC-UPDATE", "RELATION-PURPOSE", "BENEFICIAL-OWNER", "PEP-ADDITIONAL-DD",
   "HIGH-RISK-COUNTRY", "SANCTIONS-ESCALATION", "ENHANCED-EXAM", "FUNDS-PURPOSE",
   "RISK-BASED", "FUNDS-TRACEABILITY", "TAX-FRAUD-INDICATORS"}
MCUnmapped ==
  {"CUSTOMER-ID", "CDD-INCOMPLETE", "REPORT-NEW-INFO", "ATTEMPTED-TRANSACTION",
   "ANONYMITY-RISK", "CRYPTO-TRACEABILITY", "AMLR-FUTURE"}

MCPolicies == MCAlways \cup MCTracfin \cup {"RISK-FACTORS"} \cup MCConditional \cup MCUnmapped

MCChunk ==
  [p \in MCPolicies |->
     [approved |-> TRUE, rejected |-> FALSE, to |-> Forever,
      jurisdiction |-> IF p \in {"FUNDS-TRACEABILITY", "CRYPTO-TRACEABILITY", "AMLR-FUTURE"}
                       THEN "EU" ELSE "FR",
      from |-> IF p = "AMLR-FUTURE" THEN 2027 ELSE 2016]]

MCRule(p, all, any) == [policy |-> p, all |-> all, any |-> any]
MCUnconditional(S) == {MCRule(p, {}, {}) : p \in S}

MCCollection ==
  {MCRule("KYC-UPDATE", {}, {"kyc_missing", "kyc_not_current"}),
   MCRule("BENEFICIAL-OWNER", {"business_customer", "beneficial_owner_data_unavailable"}, {}),
   MCRule("PEP-ADDITIONAL-DD", {}, {"pep_status_unavailable"}),
   MCRule("HIGH-RISK-COUNTRY", {}, {"counterparty_geography_unavailable"}),
   MCRule("SANCTIONS-ESCALATION", {}, {"sanctions_screening_status_unavailable"})}

MCExamination(pattern) ==
  {MCRule("ENHANCED-EXAM", {}, {"potential_enhanced_examination_pattern"}),
   MCRule("FUNDS-PURPOSE", {}, {"potential_enhanced_examination_pattern"}),
   MCRule("RISK-BASED", {},
          {"high_risk_customer", "causal_amount_exceeds_expected_monthly_turnover"}),
   MCRule("FUNDS-TRACEABILITY", {}, {pattern})}

MCMapping ==
  [EXPECTED_ACTIVITY_VARIANCE |->
     [always |-> MCUnconditional(MCAlways \cup {"RISK-FACTORS"}),
      conditional |-> MCCollection \cup
        {MCRule("RELATION-PURPOSE", {}, {"relationship_purpose_unavailable"})}],
   RAPID_FUNDS_MOVEMENT |->
     [always |-> MCUnconditional(MCAlways \cup MCTracfin),
      conditional |-> MCCollection \cup MCExamination("rapid_funds_movement_pattern")],
   STRUCTURING_LIKE_REPEATED_CREDITS |->
     [always |-> MCUnconditional(MCAlways \cup MCTracfin),
      conditional |-> MCCollection \cup MCExamination("repeated_credit_pattern") \cup
        {MCRule("TAX-FRAUD-INDICATORS", {"business_customer", "repeated_credit_pattern"}, {})}]]

(***************************************************************************)
(* Two queries: one that ranks the mapped policies first, one that shares  *)
(* words with the unmapped ones only.                                      *)
(***************************************************************************)
MCOrder ==
  <<"ONGOING-MONITORING", "ATYPICAL-ANALYSIS", "REPORT-BASIS", "RECORD-RETENTION",
    "TRACFIN-NO-THRESHOLD", "TRACFIN-NO-PROOF", "TRACFIN-ANALYSIS", "STR-CONFIDENTIALITY",
    "RISK-FACTORS", "KYC-UPDATE", "RELATION-PURPOSE", "BENEFICIAL-OWNER", "PEP-ADDITIONAL-DD",
    "HIGH-RISK-COUNTRY", "SANCTIONS-ESCALATION", "ENHANCED-EXAM", "FUNDS-PURPOSE",
    "RISK-BASED", "FUNDS-TRACEABILITY", "TAX-FRAUD-INDICATORS", "CUSTOMER-ID",
    "CDD-INCOMPLETE", "REPORT-NEW-INFO", "ATTEMPTED-TRANSACTION", "ANONYMITY-RISK",
    "CRYPTO-TRACEABILITY", "AMLR-FUTURE">>
MCPlace == [p \in MCPolicies |-> CHOOSE i \in DOMAIN MCOrder : MCOrder[i] = p]
MCRankings == {MCPlace, [p \in MCPolicies |-> IF p \in MCUnmapped THEN MCPlace[p] ELSE 0]}

(***************************************************************************)
(* The first case calls for from 7 to all 18 policies of its rule's        *)
(* mapping; the second one for 15; alerts are of 2026.                     *)
(***************************************************************************)
MCProfile(rule, business, risky, kyc, purpose) ==
  [rule |-> rule, created |-> 2026, business |-> business, high |-> risky, kyc |-> kyc,
   purpose |-> purpose, exceeds |-> risky]

MCProfiles ==
  (c1 :> {MCProfile("EXPECTED_ACTIVITY_VARIANCE", TRUE, FALSE, "other", FALSE),
          MCProfile("RAPID_FUNDS_MOVEMENT", FALSE, FALSE, "missing", TRUE),
          MCProfile("STRUCTURING_LIKE_REPEATED_CREDITS", TRUE, TRUE, "missing", TRUE)})
    @@ (c2 :> {MCProfile("RAPID_FUNDS_MOVEMENT", FALSE, TRUE, "current", TRUE)})

MCSubmit(answers, purpose) ==
  [f \in Fields |-> IF f = "purpose" THEN purpose ELSE IF f \in answers THEN "text" ELSE "absent"]

MCSubmissions ==
  {MCSubmit({"pep_status", "sanctions_screening_status"}, "text"),
   MCSubmit({"beneficial_owner", "counterparty_country_code"}, "blank")}

(***************************************************************************)
(* A sound recommendation, one that asks for information, and of the first *)
(* case recommendations with foreign evidence, a policy that is not in     *)
(* force, information that may not have been given, and no policy.         *)
(***************************************************************************)
MCWrites(informs, shown, cited) ==
  [informs |-> informs, evidence |-> shown, policies |-> cited]

MCRecommendations ==
  (c1 :> {MCWrites(TRUE, {<<c1, "get_kyc_profile">>}, {"ONGOING-MONITORING"}),
          MCWrites(FALSE, {<<c1, "information", 1>>}, {"PEP-ADDITIONAL-DD"}),
          MCWrites(FALSE, {<<c1, "get_alert">>, <<c2, "get_alert">>}, {"REPORT-BASIS"}),
          MCWrites(FALSE, {<<c1, "get_alert">>}, {"AMLR-FUTURE"}),
          MCWrites(FALSE, {<<c1, "get_alert">>}, {})})
    @@ (c2 :> {MCWrites(FALSE, {<<c2, "get_alert">>}, {"ONGOING-MONITORING"})})

=============================================================================
