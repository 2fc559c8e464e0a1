----------------------------- MODULE PolicyIndex -----------------------------
(***************************************************************************)
(* The policy catalogue: the mapping from alert rules to policies, the     *)
(* facts that activate its conditional rules, and the retrieval for one    *)
(* alert, as operators on sets.                                            *)
(***************************************************************************)
EXTENDS Naturals, FiniteSets, Sequences

CONSTANTS
  Policies,        \* policy IDs of the corpus: load_corpus refuses duplicates
  Chunk,           \* [Policies -> [approved, jurisdiction, from, to, rejected]]
  Mapping,         \* [AlertRules -> [always, conditional: SUBSET MappedPolicyRule]]
  Jurisdiction,    \* settings.policy_jurisdiction
  Dates,           \* a set of numbers; effective_from None is 0
  Forever,         \* effective_to None
  SearchLimit      \* the limit search_for_alert gives to search, 20 in the code

AlertRules ==
  {"EXPECTED_ACTIVITY_VARIANCE", "RAPID_FUNDS_MOVEMENT", "STRUCTURING_LIKE_REPEATED_CREDITS"}

POLICY_FACT_IDS ==
  {"activity_variance_pattern", "beneficial_owner_data_unavailable", "business_customer",
   "causal_amount_exceeds_expected_monthly_turnover", "counterparty_geography_unavailable",
   "high_risk_customer", "kyc_missing", "kyc_not_current", "pep_status_unavailable",
   "potential_enhanced_examination_pattern", "rapid_funds_movement_pattern",
   "relationship_purpose_unavailable", "repeated_credit_pattern",
   "sanctions_screening_status_unavailable"}

MappedPolicyRule == [policy: Policies, all: SUBSET POLICY_FACT_IDS, any: SUBSET POLICY_FACT_IDS]
PolicyChunk ==
  [approved: BOOLEAN, rejected: BOOLEAN, jurisdiction: STRING, from: Nat, to: Nat]

RulesOf(a) == Mapping[a].always \cup Mapping[a].conditional
Mapped(a) == {r.policy : r \in RulesOf(a)}

(***************************************************************************)
(* What the loaders refuse to start without: "rejected" is the status of   *)
(* the source of an excerpt.                                               *)
(***************************************************************************)
load_corpus ==
  /\ IsFiniteSet(Policies)
  /\ \A p \in Policies :
       /\ Chunk[p] \in PolicyChunk
       /\ Chunk[p].approved => ~Chunk[p].rejected

load_alert_policy_mappings ==
  /\ DOMAIN Mapping = AlertRules
  /\ \A a \in AlertRules :
       /\ Mapping[a].always # {}
       /\ RulesOf(a) \subseteq MappedPolicyRule
       /\ \A r, s \in RulesOf(a) : r.policy = s.policy => r = s
       /\ \A r \in RulesOf(a) : Chunk[r.policy].approved /\ r.all \cap r.any = {}
       /\ \A r \in Mapping[a].always : r.all \cup r.any = {}
       /\ \A r \in Mapping[a].conditional : r.all \cup r.any # {}

ASSUME PolicyAssumption ==
  /\ load_corpus /\ load_alert_policy_mappings
  /\ Dates \subseteq Nat
  /\ SearchLimit \in Nat

-----------------------------------------------------------------------------
(***************************************************************************)
(* What the evidence says of a case: the alert, the customer, the KYC      *)
(* record and whether a causal transaction exceeds the expected turnover.  *)
(* The records hold neither a PEP status, nor a screening result, nor an   *)
(* owner, nor a counterparty's country: a submission may supply them.  Of  *)
(* a supplied value the facts tell apart "", null and a text.              *)
(***************************************************************************)
Profile ==
  [rule: AlertRules, created: Dates, business: BOOLEAN, high: BOOLEAN,
   kyc: {"missing", "current", "other"}, purpose: BOOLEAN, exceeds: BOOLEAN]

Fields ==
  {"beneficial_owner", "pep_status", "sanctions_screening_status",
   "counterparty_country_code", "purpose"}
Submission == [Fields -> {"absent", "blank", "null", "text"}]

(***************************************************************************)
(* Submissions are merged, the last value of a field wins.  A mutant: the  *)
(* last submission only.                                                   *)
(***************************************************************************)
MutantLastOnly(sent) ==
  [f \in Fields |-> IF sent = <<>> THEN "absent" ELSE sent[Len(sent)][f]]

supplemental_information(sent) ==
  [f \in Fields |->
     LET given == {i \in DOMAIN sent : sent[i][f] # "absent"}
     IN IF given = {} THEN "absent"
        ELSE sent[CHOOSE i \in given : \A j \in given : j <= i][f]]

When(condition, fact) == IF condition THEN {fact} ELSE {}

PatternFacts(rule) ==
  CASE rule = "EXPECTED_ACTIVITY_VARIANCE" -> {"activity_variance_pattern"}
    [] rule = "RAPID_FUNDS_MOVEMENT" ->
         {"rapid_funds_movement_pattern", "potential_enhanced_examination_pattern"}
    [] rule = "STRUCTURING_LIKE_REPEATED_CREDITS" ->
         {"repeated_credit_pattern", "potential_enhanced_examination_pattern"}

ProfileFacts(p) ==
  When(p.high, "high_risk_customer")
    \cup When(p.business, "business_customer")
    \cup When(p.kyc = "missing", "kyc_missing")
    \cup When(p.kyc = "other", "kyc_not_current")
    \cup When(p.exceeds, "causal_amount_exceeds_expected_monthly_turnover")

(***************************************************************************)
(* str(None).strip() is not empty: a null purpose counts as one.           *)
(***************************************************************************)
MissingFacts(p, info) ==
  When(p.business /\ info["beneficial_owner"] = "absent", "beneficial_owner_data_unavailable")
    \cup When(~p.purpose /\ info["purpose"] \in {"absent", "blank"},
              "relationship_purpose_unavailable")
    \cup When(info["pep_status"] = "absent", "pep_status_unavailable")
    \cup When(info["sanctions_screening_status"] = "absent",
              "sanctions_screening_status_unavailable")
    \cup When(info["counterparty_country_code"] = "absent",
              "counterparty_geography_unavailable")

derive_policy_applicability_facts(p, sent) ==
  PatternFacts(p.rule) \cup ProfileFacts(p)
    \cup MissingFacts(p, supplemental_information(sent))

-----------------------------------------------------------------------------
(***************************************************************************)
(* Retrieval.  A mutant that ignores the day an excerpt takes effect.      *)
(***************************************************************************)
MutantNotYet(date) ==
  {p \in Policies : /\ Chunk[p].approved
                    /\ Chunk[p].jurisdiction \in {Jurisdiction, "EU", "INTL"}
                    /\ date <= Chunk[p].to}

Eligible(date) ==
  {p \in Policies : /\ Chunk[p].approved
                    /\ Chunk[p].jurisdiction \in {Jurisdiction, "EU", "INTL"}
                    /\ Chunk[p].from <= date
                    /\ date <= Chunk[p].to}

_rule_applies(r, facts) == r.all \subseteq facts /\ (r.any = {} \/ r.any \cap facts # {})

EligibleRules(a, date, facts) ==
  {r \in Mapping[a].always \cup {c \in Mapping[a].conditional : _rule_applies(c, facts)} :
     r.policy \in Eligible(date)}

(***************************************************************************)
(* A ranking gives each policy its place for a query, by score and then by *)
(* ID, and 0 when they share no word.                                      *)
(***************************************************************************)
Ranking == {place \in [Policies -> Nat] :
              \A p, q \in Policies : p # q /\ place[p] = place[q] => place[p] = 0}

First(place, S, n) ==
  {p \in S : Cardinality({q \in S : place[q] < place[p]}) < n}

search(place, date, n) == First(place, {p \in Eligible(date) : place[p] > 0}, n)

(***************************************************************************)
(* The mapped policies with the facts that matched, and the contextual     *)
(* ones in the room that is left.  A mutant cuts before it leaves out the  *)
(* mapped ones.                                                            *)
(***************************************************************************)
Match(r, facts) == [policy |-> r.policy, facts |-> r.all \cup (r.any \cap facts)]

MutantCutsFirst(place, date, mapped, room) ==
  First(place, search(place, date, SearchLimit), room) \ mapped

Contextual(place, date, mapped, room) ==
  First(place, search(place, date, SearchLimit) \ mapped, room)

TooMany(a, date, facts, limit) == Cardinality(EligibleRules(a, date, facts)) > limit

search_for_alert(place, a, date, facts, limit) ==
  LET rules == EligibleRules(a, date, facts) IN
  [mapped |-> {Match(r, facts) : r \in rules},
   contextual |-> Contextual(place, date, {r.policy : r \in rules}, limit - Cardinality(rules))]

PoliciesOf(found) == {m.policy : m \in found.mapped} \cup found.contextual
Nothing == [mapped |-> {}, contextual |-> {}]

(***************************************************************************)
(* A mutant: any policy of the corpus may be cited.                        *)
(***************************************************************************)
MutantWholeCorpus(cited, retrieved) == cited \ Policies
validate_policy_citations(cited, retrieved) == cited \ retrieved

=============================================================================
