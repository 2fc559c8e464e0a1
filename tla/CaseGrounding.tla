---------------------------- MODULE CaseGrounding ----------------------------
(***************************************************************************)
(* What a recommendation rests on: the reads of the tools with their       *)
(* executions and audit events, the retrieval of policies for the alert    *)
(* and again for every submission of the user, the check of the citations, *)
(* and the trajectory.  Several cases run at the same time over one graph, *)
(* whose tools keep one list of executions.                                *)
(*                                                                         *)
(* A stage of the graph that only computes is one step; a tool is two, its *)
(* execution and its audit event, since others come in between.            *)
(***************************************************************************)
EXTENDS PolicyIndex

CONSTANTS
  Cases,
  Profiles,          \* [Cases -> SUBSET Profile]: what the bank may hold of a case
  Submissions,       \* what users may submit
  MaxSubmissions,    \* bound of the model: submissions per case
  Rankings,          \* the places a query may give to the policies
  Limits,            \* settings.policy_result_limit: 15 to 20
  Recommendations,   \* [Cases -> what the model, or a reviewer who edits, may write]
  NoDraft

Tools == <<"get_alert", "get_customer_profile", "get_kyc_profile", "get_transactions">>
Read == {Tools[i] : i \in DOMAIN Tools}

Executions == Cases \X Read
ToolEvidence == Cases \X Read
Supplements == Cases \X {"information"} \X (1..MaxSubmissions)
EvidenceIds == ToolEvidence \cup Supplements
Recommendation ==
  [informs: BOOLEAN, evidence: SUBSET EvidenceIds, policies: SUBSET Policies]

ASSUME GroundingAssumption ==
  /\ Profiles \in [Cases -> SUBSET Profile]
  /\ Submissions \subseteq Submission
  /\ \A s \in Submissions : \E f \in Fields : s[f] = "text"   \* ResumeInvestigationRequest
  /\ MaxSubmissions \in Nat
  /\ Rankings \subseteq Ranking
  /\ Limits \subseteq 15..20
  /\ \A n \in Limits : n <= SearchLimit
  /\ Recommendations \in [Cases -> SUBSET Recommendation]
  /\ NoDraft \notin Recommendation

VARIABLES
  limit,             \* the configured policy_result_limit
  profile,           \* [Cases -> Profile]: the records of the bank
  stage,             \* [Cases -> Stages]: the node that is next, or how the case ended
  calls,             \* [Cases -> 0..4]: the tools called so far
  executions,        \* tools.executions, of all cases
  audits,            \* the tool_access events of the audit trail
  evidence,          \* [Cases -> SUBSET ToolEvidence]: the evidence of the tools
  sent,              \* [Cases -> Seq(Submission)]: the supplemental evidence
  facts,             \* [Cases -> SUBSET POLICY_FACT_IDS]
  policies,          \* [Cases -> what search_for_alert found]
  draft,             \* [Cases -> the recommendation]
  trail,             \* [Cases -> the trajectory: executions reported, retrievals, the last one]
  edited             \* history: the cases whose recommendation a reviewer replaced

vars == <<limit, profile, stage, calls, executions, audits, evidence, sent, facts, policies,
          draft, trail, edited>>
grounds == <<evidence, sent, facts, policies, trail>>
tooling == <<calls, executions, audits>>

(***************************************************************************)
(* "refused" is FAILED with the ValueError of the retrieval.               *)
(***************************************************************************)
Ended == {"blocked", "failed", "refused", "completed"}
Stages == {"load", "draft", "validate", "information", "review"} \cup Ended

Settled(c) == stage[c] \notin {"load", "refused", "failed"}
Goto(c, s) == stage' = [stage EXCEPT ![c] = s]

-----------------------------------------------------------------------------
(***************************************************************************)
(* load_and_retrieve.  A tool reads, appends its execution to the list of  *)
(* the graph and writes its audit event.  A mutant: the first tool of a    *)
(* case empties the list.                                                  *)
(***************************************************************************)
Audited(c) == \A i \in 1..calls[c] : <<c, Tools[i]>> \in audits

MutantFreshList(c) ==
  IF calls[c] = 0 THEN {<<c, Tools[1]>>} ELSE executions \cup {<<c, Tools[calls[c] + 1]>>}
Recorded(c) == executions \cup {<<c, Tools[calls[c] + 1]>>}

_record(c) ==
  /\ stage[c] = "load" /\ calls[c] < Len(Tools) /\ Audited(c)
  /\ executions' = Recorded(c)
  /\ calls' = [calls EXCEPT ![c] = @ + 1]
  /\ UNCHANGED <<limit, profile, stage, audits, grounds, draft, edited>>

audit(c) ==
  /\ stage[c] = "load" /\ ~Audited(c)
  /\ audits' = audits \cup {<<c, Tools[calls[c]]>>}
  /\ UNCHANGED <<limit, profile, stage, calls, executions, grounds, draft, edited>>

(***************************************************************************)
(* select_policies, for the submissions of the argument.  It raises when   *)
(* the mapped policies that apply are more than the limit.  A mutant looks *)
(* at the evidence without the new submission.                             *)
(***************************************************************************)
Derived(c, s) == derive_policy_applicability_facts(profile[c], s)

MutantOldEvidence(c, place, s) ==
  search_for_alert(place, profile[c].rule, profile[c].created, Derived(c, sent[c]), limit)

Found(c, place, s) ==
  search_for_alert(place, profile[c].rule, profile[c].created, Derived(c, s), limit)

Refuses(c, s) == TooMany(profile[c].rule, profile[c].created, Derived(c, s), limit)

select_policies(c, s, reported) ==
  \E place \in Rankings :
    LET found == Found(c, place, s) IN
    /\ facts' = [facts EXCEPT ![c] = Derived(c, s)]
    /\ policies' = [policies EXCEPT ![c] = found]
    /\ trail' = [trail EXCEPT
         ![c] = [executions |-> reported, count |-> @.count + 1, shown |-> PoliciesOf(found)]]
    /\ Goto(c, "draft")

Refused(c) == Goto(c, "refused") /\ UNCHANGED grounds

(***************************************************************************)
(* The evidence of the tools.  A mutant takes every execution of the list  *)
(* for one of the case.                                                    *)
(***************************************************************************)
MutantGathersAll(c) == executions
Gathered(c) == {c} \X Read

load_and_retrieve(c) ==
  /\ stage[c] = "load" /\ calls[c] = Len(Tools) /\ Audited(c)
  /\ IF Refuses(c, <<>>) THEN Refused(c)
     ELSE /\ select_policies(c, <<>>, executions)
          /\ evidence' = [evidence EXCEPT ![c] = Gathered(c)]
          /\ UNCHANGED sent
  /\ UNCHANGED <<limit, profile, tooling, draft, edited>>

(***************************************************************************)
(* draft_recommendation: the model writes anything.                        *)
(***************************************************************************)
draft_recommendation(c) ==
  /\ stage[c] = "draft"
  /\ \E r \in Recommendations[c] : draft' = [draft EXCEPT ![c] = r]
  /\ Goto(c, "validate")
  /\ UNCHANGED <<limit, profile, tooling, grounds, edited>>

(***************************************************************************)
(* validate_controls: evidence and policies that are not there, no policy  *)
(* although some were retrieved, or evidence of another case block it.     *)
(***************************************************************************)
Ledger(c) == evidence[c] \cup ({c} \X {"information"} \X DOMAIN sent[c])

MutantAnyEvidence(c, r) == r.evidence \ EvidenceIds
validate_recommendation(c, r) == r.evidence \ Ledger(c)

Ungrounded(c, r) ==
  LET retrieved == PoliciesOf(policies[c]) IN
  \/ validate_recommendation(c, r) # {}
  \/ validate_policy_citations(r.policies, retrieved) # {}
  \/ retrieved # {} /\ r.policies = {}
  \/ \E e \in Ledger(c) : e[1] # c

validate_controls(c) ==
  /\ stage[c] = "validate"
  /\ Goto(c, IF Ungrounded(c, draft[c]) THEN "blocked"
             ELSE IF draft[c].informs THEN "information" ELSE "review")
  /\ UNCHANGED <<limit, profile, tooling, grounds, draft, edited>>

(***************************************************************************)
(* collect_information: the submission becomes evidence, and the policies  *)
(* are retrieved again.                                                    *)
(***************************************************************************)
collect_information(c) ==
  /\ stage[c] = "information" /\ Len(sent[c]) < MaxSubmissions
  /\ \E s \in Submissions :
       LET all == Append(sent[c], s) IN
       IF Refuses(c, all) THEN Refused(c)
       ELSE /\ select_policies(c, all, trail[c].executions)
            /\ sent' = [sent EXCEPT ![c] = all]
            /\ UNCHANGED evidence
  /\ UNCHANGED <<limit, profile, tooling, draft, edited>>

(***************************************************************************)
(* human_review: an edit takes the place of the recommendation, unchecked. *)
(***************************************************************************)
human_review(c) ==
  /\ stage[c] = "review"
  /\ \/ /\ Goto(c, "completed")
        /\ UNCHANGED <<draft, edited>>
     \/ /\ \E r \in Recommendations[c] : draft' = [draft EXCEPT ![c] = r]
        /\ edited' = edited \cup {c}
        /\ Goto(c, "completed")
     \/ /\ Goto(c, "draft")
        /\ UNCHANGED <<draft, edited>>
  /\ UNCHANGED <<limit, profile, tooling, grounds>>

(***************************************************************************)
(* A read, an audit or the model fails.                                    *)
(***************************************************************************)
StageRaises(c) ==
  /\ stage[c] \notin Ended
  /\ Goto(c, "failed")
  /\ UNCHANGED <<limit, profile, tooling, grounds, draft, edited>>

-----------------------------------------------------------------------------
Init ==
  /\ limit \in Limits
  /\ profile \in [Cases -> UNION {Profiles[c] : c \in Cases}]
  /\ \A c \in Cases : profile[c] \in Profiles[c]
  /\ stage = [c \in Cases |-> "load"]
  /\ calls = [c \in Cases |-> 0]
  /\ executions = {} /\ audits = {}
  /\ evidence = [c \in Cases |-> {}]
  /\ sent = [c \in Cases |-> <<>>]
  /\ facts = [c \in Cases |-> {}]
  /\ policies = [c \in Cases |-> Nothing]
  /\ draft = [c \in Cases |-> NoDraft]
  /\ trail = [c \in Cases |-> [executions |-> {}, count |-> 0, shown |-> {}]]
  /\ edited = {}

Next ==
  \E c \in Cases :
    \/ _record(c) \/ audit(c) \/ load_and_retrieve(c)
    \/ draft_recommendation(c) \/ validate_controls(c)
    \/ collect_information(c) \/ human_review(c)
    \/ StageRaises(c)

Spec == Init /\ [][Next]_vars

-----------------------------------------------------------------------------
(***************************************************************************)
(* Properties.                                                             *)
(***************************************************************************)

(***************************************************************************)
(* Type invariant: the evidence of a case is the case's, the facts are     *)
(* known ones, and a case past the load stage has called every tool.       *)
(***************************************************************************)
Retrieval ==
  [mapped: SUBSET [policy: Policies, facts: SUBSET POLICY_FACT_IDS],
   contextual: SUBSET Policies]

TypeOK ==
  /\ limit \in Limits
  /\ profile \in [Cases -> Profile]
  /\ stage \in [Cases -> Stages]
  /\ calls \in [Cases -> 0..Len(Tools)]
  /\ executions \subseteq Executions /\ audits \subseteq Executions
  /\ DOMAIN evidence = Cases /\ \A c \in Cases : evidence[c] \subseteq {c} \X Read
  /\ sent \in [Cases -> Seq(Submissions)]
  /\ \A c \in Cases : Len(sent[c]) <= MaxSubmissions
  /\ facts \in [Cases -> SUBSET POLICY_FACT_IDS]
  /\ policies \in [Cases -> Retrieval]
  /\ draft \in [Cases -> {NoDraft} \cup Recommendation]
  /\ trail \in [Cases -> [executions: SUBSET Executions,
                       count: 0..(MaxSubmissions + 1), shown: SUBSET Policies]]
  /\ edited \subseteq Cases

(***************************************************************************)
(* What is so in a case, said without merging the submissions: a field is  *)
(* known once some submission has named it, and the purpose until a later  *)
(* submission blanks it (applicability.py 42-51, 100-186).                 *)
(***************************************************************************)
Given(c, f) == \E i \in DOMAIN sent[c] : sent[c][i][f] # "absent"

PurposeKnown(c) ==
  \/ profile[c].purpose
  \/ \E i \in DOMAIN sent[c] :
       /\ sent[c][i]["purpose"] \in {"null", "text"}
       /\ \A j \in DOMAIN sent[c] : j > i => sent[c][j]["purpose"] # "blank"

Asked ==
  [pep_status_unavailable |-> "pep_status",
   sanctions_screening_status_unavailable |-> "sanctions_screening_status",
   counterparty_geography_unavailable |-> "counterparty_country_code",
   beneficial_owner_data_unavailable |-> "beneficial_owner"]

TrueOf(c) ==
  PatternFacts(profile[c].rule) \cup ProfileFacts(profile[c])
    \cup {x \in DOMAIN Asked :
            /\ ~Given(c, Asked[x])
            /\ Asked[x] = "beneficial_owner" => profile[c].business}
    \cup When(~PurposeKnown(c), "relationship_purpose_unavailable")

(***************************************************************************)
(* Retrieval fails closed: whatever was read and submitted, in whatever    *)
(* order, a case has every mapped policy in force that is called for, no   *)
(* mapped policy whose reason is not there, and no more than the limit;    *)
(* room that is left is filled.  Only a limit below the size of the alert  *)
(* rule's mapping can refuse a case (docs/architecture.md 326-338;         *)
(* retrieval.py 93-178).                                                   *)
(***************************************************************************)
Needed(c, r) == r.all \subseteq TrueOf(c) /\ (r.any = {} \/ \E x \in r.any : x \in TrueOf(c))

MappedComplete(c) ==
  LET found == policies[c] IN
  /\ {m.policy : m \in found.mapped} =
       {r.policy : r \in {s \in RulesOf(profile[c].rule) : Needed(c, s)}}
         \cap Eligible(profile[c].created)
  /\ \A m \in found.mapped : m.facts \subseteq TrueOf(c)
  /\ found.contextual \subseteq Eligible(profile[c].created) \ {m.policy : m \in found.mapped}

Filled(c) ==
  LET n == Cardinality(PoliciesOf(policies[c])) IN
  \/ n = limit
  \/ n < limit /\ \E place \in Rankings :
                    {p \in Eligible(profile[c].created) : place[p] > 0} \subseteq PoliciesOf(policies[c])

RefusedForSize(c) == stage[c] = "refused" => Cardinality(Mapped(profile[c].rule)) > limit

RetrievalComplete ==
  \A c \in Cases :
    /\ Settled(c) => MappedComplete(c) /\ Filled(c)
    /\ RefusedForSize(c)

(***************************************************************************)
(* What becomes of a case implements the ledger of citations: evidence is  *)
(* only added, in the load and in answer to a question; a recommendation   *)
(* is put forward grounded in the evidence and the policies in force that  *)
(* the trajectory shows, and stands as it is until it is approved,         *)
(* replaced by a reviewer, sent back or abandoned (builder.py 186-224,     *)
(* 257-364, 398-524).                                                      *)
(***************************************************************************)
InForce(c) ==
  {p \in trail[c].shown : Chunk[p].from <= profile[c].created /\ profile[c].created <= Chunk[p].to}

Becomes(c) ==
  CASE stage[c] = "information" -> "asking"
    [] stage[c] = "review" -> "waiting"
    [] stage[c] = "completed" -> IF c \in edited THEN "replaced" ELSE "approved"
    [] stage[c] \in {"blocked", "failed", "refused"} -> "abandoned"
    [] OTHER -> "open"

Cited(c) == stage[c] \in {"information", "review", "completed"}

Stands(c) ==
  [is |-> Becomes(c),
   cites |-> IF Cited(c) THEN draft[c].evidence ELSE {},
   quotes |-> IF Cited(c) THEN draft[c].policies ELSE {}]

known == [c \in Cases |-> Ledger(c)]
quotable == [c \in Cases |-> InForce(c)]
standing == [c \in Cases |-> Stands(c)]

Citations == INSTANCE CitationLedger WITH Evidence <- EvidenceIds

CitationSpec == Citations!CitationSpec

(***************************************************************************)
(* The trajectory accounts for the case although all cases share one list  *)
(* of executions: it reports the four reads of the case, each of them in   *)
(* the audit trail, and one retrieval for the load and each submission,    *)
(* the last of them with the policies the case has (builder.py 188-216,    *)
(* 447-461; tools/service.py 165-187).                                     *)
(***************************************************************************)
TrailAccounts ==
  \A c \in Cases :
    Settled(c) =>
      /\ {c} \X Read \subseteq trail[c].executions \cap audits
      /\ trail[c].count = 1 + Len(sent[c])
      /\ trail[c].shown = PoliciesOf(policies[c])

(***************************************************************************)
(* A submission only answers: it never makes a fact true that was not,     *)
(* except by blanking the purpose (tests/unit/test_policy.py 185-207).     *)
(***************************************************************************)
InformationNarrows ==
  [][\A c \in Cases :
       sent'[c] # sent[c] =>
         \A x \in facts'[c] \ facts[c] :
           /\ x = "relationship_purpose_unavailable"
           /\ sent'[c][Len(sent'[c])]["purpose"] = "blank"]_vars

=============================================================================
