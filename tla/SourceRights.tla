----------------------------- MODULE SourceRights -----------------------------
(***************************************************************************)
(* Who may do what with which source: local API key identities, the policy *)
(* sets the builders of authorization.py and formal_source_rights.py make  *)
(* for an identity, the resolution of an intent against a set, and the     *)
(* re-evaluation of an earlier collection decision against the set in      *)
(* force when the data are read.  Everything is a function of its          *)
(* arguments; PriceSupply calls it from its processes.                     *)
(*                                                                         *)
(* A version is its own content, so a set that cites a version cites its   *)
(* content.  A policy dataset has one distribution, named like it.         *)
(***************************************************************************)
EXTENDS Naturals, FiniteSets, Sequences, FiniteSetsExt

CONSTANTS
    Distributions,   \* policy datasets of the provider's distributions
    MaxLifetime      \* thirty days, in ticks

ASSUME RightsAssumption ==
    /\ MaxLifetime \in Nat \ {0}
    /\ Distributions \cap {"price-research-eligibility", "source-credential-metadata",
                           "model-governance-ledger", "production-research-catalog",
                           "manifest"} = {}

Collect == "market_data.collect"
Read == "price_research_eligibility.read"
Publishing == {"research_prediction.read", "production_forecast.publish",
               "production_notification.deliver"}
Fixture == {"fixture_pipeline.execute", "research_prediction.read"}
Governing == {"model_governance.read", "model_governance.approve"}
Administering == {"source_credential.read", "source_credential.manage"}
Operating == Publishing \cup {"production_operations.read"}
Actions == {Collect, Read, "price_qualification.govern"}
             \cup Publishing \cup Operating \cup Fixture \cup Governing \cup Administering

\* PRICE_RESEARCH_REQUIRED_USES and REQUIRED_SOURCE_USES are the same six: show
\* is internal_display and model, keep the other four.
RequiredUses == {"keep", "show"}
LocalEnvironments == {"local", "development"}

-----------------------------------------------------------------------------
(* Identities *)

\* What LocalApiKeyVerifier.issue accepts and LocalApiKeyIdentity.load checks.
Issuable(id) ==
    /\ id.environment \in LocalEnvironments
    /\ id.scopes # {} /\ id.scopes \subseteq Actions
    /\ id.classes # {}
    /\ id.issued < id.expires
    /\ id.expires - id.issued <= MaxLifetime

Live(version, t) == version.from <= t /\ t < version.to

\* A key of a request: the first check that fails is the reason.
Authenticates(id, key, loopback, environment, t) ==
    /\ key.principal = id.principal
    /\ loopback
    /\ environment \in LocalEnvironments /\ environment = id.environment
    /\ ~id.revoked
    /\ id.issued <= t /\ t < id.expires
    /\ key.secret = id.secret

\* A key file is authenticated at its own issue time when it is loaded: a
\* revoked one is refused, an expired one is not.
Loadable(id) ==
    /\ Issuable(id)
    /\ Authenticates(id, [principal |-> id.principal, secret |-> id.secret],
                     TRUE, id.environment, id.issued)

-----------------------------------------------------------------------------
(* The sets the builders make for an identity *)

\* Every version of a built set is valid for as long as the identity is.
Grant(id, actions) ==
    [principal |-> id.principal, actions |-> actions,
     environment |-> id.environment, from |-> id.issued, to |-> id.expires]

Policy(id, dataset, actions, purpose, class, uses) ==
    [dataset |-> dataset, actions |-> actions, purposes |-> {purpose},
     environments |-> {id.environment}, class |-> class, states |-> {"active"},
     from |-> id.issued, to |-> id.expires, uses |-> uses,
     access |-> "principal_entitlement", basis |-> "none",
     distributions |-> {}, classification |-> "none"]

Entitlement(id, dataset, status, actions, purposes, uses) ==
    [principal |-> id.principal, dataset |-> dataset, status |-> status,
     actions |-> actions, purposes |-> purposes,
     environments |-> {id.environment}, from |-> id.issued, to |-> id.expires,
     uses |-> uses]

\* What SourcePolicyVersion requires of the evidence of each access basis.
EvidenceValid(policy) ==
    CASE policy.access = "principal_entitlement" ->
            policy.basis = "none" /\ policy.distributions = {}
                /\ policy.classification = "none"
      [] policy.access = "open_data_terms" ->
            policy.distributions # {} /\ policy.classification = "none"
      [] policy.access = "zero_fee_plan" ->
            policy.basis # "none" /\ policy.distributions # {}
                /\ policy.classification # "none"
      [] policy.access = "engineering_contract" ->
            policy.basis = "engineering" /\ policy.distributions # {}
                /\ policy.classification = "none"

Resource(id, dataset, actions, purpose, class, uses) ==
    [policies |-> {Policy(id, dataset, actions, purpose, class, uses)},
     entitlements |-> {Entitlement(id, dataset, "active", actions, {purpose}, uses)}]

NoResource == [policies |-> {}, entitlements |-> {}]

PolicySet(grant, resources) ==
    [grants |-> {grant},
     policies |-> UNION {r.policies : r \in resources},
     entitlements |-> UNION {r.entitlements : r \in resources}]

FixtureMarkets == {"xtai-fixture-eod", "xnas-fixture-eod"}

\* status and purposes are those of the XTAI entitlement, known the markets
\* with a policy; the catalog of fixture sets varies one of them at a time.
FixtureSet(id, status, purposes, actions, known) ==
    LET governance == Governing \cap id.scopes
        market(m) ==
            [policies |-> IF m \in known
                          THEN {Policy(id, m, Fixture, "fixture_research", "internal", {})}
                          ELSE {},
             entitlements |->
                 {Entitlement(id, m, IF m = "xtai-fixture-eod" THEN status ELSE "active",
                              Fixture,
                              IF m = "xtai-fixture-eod" THEN purposes ELSE {"fixture_research"},
                              {})}]
        ledger == Resource(id, "model-governance-ledger", governance,
                           "model_governance", "internal", {})
    IN  PolicySet(Grant(id, actions \cap (Fixture \cup governance)),
                  {market(m) : m \in FixtureMarkets}
                    \cup (IF governance = {} THEN {} ELSE {ledger}))

BlockedSet(id) ==
    PolicySet(Grant(id, {Collect, Read, "source_credential.read"}),
              {Resource(id, "price-research-eligibility", {Read},
                        "price_research", "internal", {}),
               Resource(id, "source-credential-metadata", {"source_credential.read"},
                        "source_administration", "restricted", {})})

\* The operator's set while the providers' answers are pending: no policy of
\* a distribution, so nothing can be collected.
PendingSet(id) ==
    LET actions == id.scopes \cap ({Collect, Read} \cup Administering
                                     \cup Governing \cup Operating)
        resource(dataset, wanted, purpose, class, uses) ==
            IF wanted \cap actions = {} THEN NoResource
            ELSE Resource(id, dataset, wanted \cap actions, purpose, class, uses)
    IN  PolicySet(Grant(id, actions),
            {resource("price-research-eligibility", {Read}, "price_research", "internal", {}),
             resource("source-credential-metadata", Administering,
                      "source_administration", "restricted", {}),
             resource("model-governance-ledger", Governing,
                      "model_governance", "internal", {}),
             resource("production-research-catalog", Operating, "price_research",
                      "internal", {"show"})})

\* A policy of a distribution: engineering_contract admits only a double.
CollectPolicy(id, d, access, basis, classification) ==
    [Policy(id, d, {Collect}, "price_research", "licensed", RequiredUses)
        EXCEPT !.access = access, !.basis = basis, !.distributions = {d},
               !.classification = classification]

EngineeringSet(id) ==
    LET actions == id.scopes \cap ({Collect, Read} \cup Administering)
        entitled(dataset, wanted, purpose, uses) ==
            IF wanted \cap actions = {} THEN {}
            ELSE {Entitlement(id, dataset, "active", wanted \cap actions, {purpose}, uses)}
    IN  PolicySet(Grant(id, actions),
            {[policies |-> {CollectPolicy(id, d, "engineering_contract", "engineering", "none")},
              entitlements |-> entitled(d, {Collect}, "price_research", RequiredUses)]
                : d \in Distributions}
            \cup {[policies |-> {Policy(id, "price-research-eligibility", {Read},
                                        "price_research", "licensed", {})},
                   entitlements |-> entitled("price-research-eligibility", {Read},
                                             "price_research", {})],
                  [policies |-> {Policy(id, "source-credential-metadata", Administering,
                                        "source_administration", "restricted", {})},
                   entitlements |-> entitled("source-credential-metadata", Administering,
                                             "source_administration", {})]})

\* The pending set, and for every distribution the providers' answers name a
\* zero-fee policy bound to the manifest of those answers.
Qualifies(id) == id.classification = "individual_non_commercial"
QualifiedSet(id) ==
    LET pending == PendingSet(id)
        producing == Publishing \cap id.scopes
        production ==
            IF producing = {} THEN NoResource
            ELSE [policies |-> {Policy(id, "manifest", producing, "price_research",
                                       "licensed", RequiredUses)},
                  entitlements |-> {Entitlement(id, "manifest", "active", producing,
                                                {"price_research"}, RequiredUses)}]
    IN  [pending EXCEPT
            !.policies = @ \cup production.policies
                \cup {CollectPolicy(id, d, "zero_fee_plan", "manifest",
                                    "individual_non_commercial") : d \in Distributions},
            !.entitlements = @ \cup production.entitlements
                \cup (IF Collect \notin id.scopes THEN {}
                      ELSE {Entitlement(id, d, "active", {Collect}, {"price_research"},
                                        RequiredUses) : d \in Distributions})]

SetNames == {"blocked", "pending", "engineering", "qualified"}
Build(name, id) ==
    CASE name = "blocked" -> BlockedSet(id)
      [] name = "pending" -> PendingSet(id)
      [] name = "engineering" -> EngineeringSet(id)
      [] name = "qualified" -> QualifiedSet(id)

Buildable(name, id) == name = "qualified" => Qualifies(id)

-----------------------------------------------------------------------------
(* Resolution of an intent *)

\* checks is a sequence of <<reason, holds>>: the first that holds decides.
FirstOf(checks, otherwise) ==
    LET hits == {i \in DOMAIN checks : checks[i][2]}
    IN  IF hits = {} THEN otherwise ELSE checks[Min(hits)][1]
Reason(checks) == FirstOf(checks, "authorized")

Several(versions) == \E v, w \in versions : v # w
LiveVersions(versions, t) == {v \in versions : Live(v, t)}

\* The part of a set that is about a principal and a dataset.
GrantsOf(set, principal) == {g \in set.grants : g.principal = principal}
PoliciesOf(set, dataset) == {p \in set.policies : p.dataset = dataset}
EntitlementsOf(set, principal, dataset) ==
    {e \in set.entitlements : e.principal = principal /\ e.dataset = dataset}

Distributed == {"open_data_terms", "zero_fee_plan", "engineering_contract"}

\* The entitlement is not looked at when one open-data policy applies.
OpenData(policies) == Cardinality(policies) = 1 /\ \E p \in policies : p.access = "open_data_terms"

GrantChecks(grants, history, intent) == <<
    <<"action_grant_conflict", Several(grants)>>,
    <<"action_grant_expired", grants = {} /\ history # {}>>,
    <<"action_grant_missing", ~\E g \in grants : intent.action \in g.actions>>,
    <<"action_grant_environment_denied",
        \E g \in grants : g.environment # intent.environment>> >>

PolicyChecks(policies, history, intent, classification) ==
    LET some(Denies(_)) == \E p \in policies : Denies(p)
    IN  << <<"source_policy_conflict", Several(policies)>>,
           <<"source_policy_expired", policies = {} /\ history # {}>>,
           <<"source_policy_unknown", policies = {}>>,
           <<"source_policy_action_denied", some(LAMBDA p : intent.action \notin p.actions)>>,
           <<"source_policy_purpose_denied", some(LAMBDA p : intent.purpose \notin p.purposes)>>,
           <<"source_policy_environment_denied",
               some(LAMBDA p : intent.environment \notin p.environments)>>,
           <<"source_policy_resource_state_denied",
               some(LAMBDA p : intent.state \notin p.states)>>,
           <<"source_policy_use_denied", some(LAMBDA p : ~(intent.uses \subseteq p.uses))>>,
           <<"source_policy_principal_classification_denied",
               some(LAMBDA p : p.access = "zero_fee_plan"
                                 /\ p.classification # classification)>> >>

\* A plausible slip: only the distribution is looked at.
AnyCollectionChecks(policies, intent) == <<
    <<"source_distribution_not_authorized",
        /\ intent.action = Collect
        /\ \E p \in policies : intent.distribution \notin p.distributions>> >>

\* A collection: an engineering contract admits a double only, and a policy of
\* distributions only those it names.
CollectionChecks(policies, intent) == <<
    <<"engineering_contract_live_provider_denied",
        /\ intent.action = Collect /\ intent.mode # "engineering_double"
        /\ \E p \in policies : p.access = "engineering_contract">>,
    <<"source_distribution_not_authorized",
        /\ intent.action = Collect
        /\ \E p \in policies : p.access \in Distributed
                                 /\ intent.distribution \notin p.distributions>> >>

EntitlementChecks(entitlements, history, intent) ==
    LET some(Denies(_)) == \E e \in entitlements : Denies(e)
    IN  << <<"source_entitlement_conflict", Several(entitlements)>>,
           <<"source_entitlement_expired", entitlements = {} /\ history # {}>>,
           <<"source_entitlement_missing", entitlements = {}>>,
           <<"source_entitlement_inactive", some(LAMBDA e : e.status # "active")>>,
           <<"source_entitlement_action_denied",
               some(LAMBDA e : intent.action \notin e.actions)>>,
           <<"source_entitlement_purpose_denied",
               some(LAMBDA e : intent.purpose \notin e.purposes)>>,
           <<"source_entitlement_environment_denied",
               some(LAMBDA e : intent.environment \notin e.environments)>>,
           <<"source_entitlement_use_denied",
               some(LAMBDA e : ~(intent.uses \subseteq e.uses))>> >>

ResolveRights(set, principal, intent, classes, classification) ==
    LET grantHistory == GrantsOf(set, principal)
        grants == LiveVersions(grantHistory, intent.at)
        policyHistory == PoliciesOf(set, intent.dataset)
        policies == LiveVersions(policyHistory, intent.at)
        history == EntitlementsOf(set, principal, intent.dataset)
        entitlements == IF OpenData(policies) THEN {} ELSE LiveVersions(history, intent.at)
    IN  [grants |-> grants, policies |-> policies, entitlements |-> entitlements,
         reason |-> Reason(
             GrantChecks(grants, grantHistory, intent)
               \o PolicyChecks(policies, policyHistory, intent, classification)
               \o CollectionChecks(policies, intent)
               \o << <<"data_protection_class_denied",
                         \E p \in policies : p.class \notin classes>> >>
               \o (IF OpenData(policies) THEN <<>>
                   ELSE EntitlementChecks(entitlements, history, intent)))]

\* An allowed decision holds until the first of its versions ends.
ValidUntil(intent, allowed, limits, rights) ==
    IF ~allowed THEN intent.at
    ELSE Min(limits \cup {v.to : v \in rights.grants \cup rights.policies \cup rights.entitlements})

\* A denied decision is valid at no time: until is its own instant.
Decision(principal, intent, reason, limits, rights) ==
    [principal |-> principal, dataset |-> intent.dataset, action |-> intent.action,
     purpose |-> intent.purpose, environment |-> intent.environment,
     uses |-> intent.uses, distribution |-> intent.distribution, mode |-> intent.mode,
     basis |-> IF Cardinality(rights.policies) = 1
               THEN (CHOOSE p \in rights.policies : TRUE).basis ELSE "none",
     reason |-> reason, allowed |-> reason = "authorized", at |-> intent.at,
     until |-> ValidUntil(intent, reason = "authorized", limits, rights)]

\* AuthorizationPolicy.evaluate: the identity is looked at before the rights.
Evaluate(set, id, intent) ==
    LET rights == ResolveRights(set, id.principal, intent, id.classes, id.classification)
    IN  Decision(id.principal, intent,
          Reason(<< <<"identity_expired", ~(id.issued <= intent.at /\ intent.at < id.expires)>>,
                    <<"identity_environment_mismatch", id.environment # intent.environment>>,
                    <<"identity_scope_missing", intent.action \notin id.scopes>>,
                    <<rights.reason, rights.reason # "authorized">> >>),
          {id.expires}, rights)

CollectIntent(d, environment, distribution, mode, t) ==
    [action |-> Collect, dataset |-> d, purpose |-> "price_research",
     environment |-> environment, state |-> "active", uses |-> RequiredUses,
     distribution |-> distribution, mode |-> mode, at |-> t]

ReadIntent(id, t) ==
    [action |-> Read, dataset |-> "price-research-eligibility", purpose |-> "price_research",
     environment |-> id.environment, state |-> "active", uses |-> {},
     distribution |-> "none", mode |-> "live_provider", at |-> t]

-----------------------------------------------------------------------------
(* The rights of data already collected *)

\* The audited decision the data cite must be an allowed collection of them.
PriorMatches(prior, d) ==
    /\ prior.allowed /\ prior.reason = "authorized"
    /\ prior.action = Collect /\ prior.purpose = "price_research"
    /\ prior.dataset = d
    /\ prior.uses = RequiredUses

\* subject holds the attributes the running process can verify of the
\* principal of prior, or nobody's: it knows its own two identities.
SubjectDenied(subject, prior, environment, t) ==
    \/ subject.principal # prior.principal
    \/ subject.environment # environment
    \/ ~(subject.issued <= t /\ t < subject.expires)

Denied(prior, reason, t) ==
    [reason |-> reason, allowed |-> FALSE, at |-> t, until |-> t,
     principal |-> prior.principal, dataset |-> prior.dataset]

\* evaluate_current_source_rights and its failures in _apply_current_source_
\* rights: sets and subjects are singletons or empty.
CurrentRights(prior, d, sets, subjects, environment, t) ==
    IF sets = {} THEN Denied(prior, "source_rights_policy_unavailable", t)
    ELSE IF subjects = {}
    THEN Denied(prior, "source_rights_subject_attributes_unavailable", t)
    ELSE LET set == CHOOSE s \in sets : TRUE
             subject == CHOOSE s \in subjects : TRUE
             intent == CollectIntent(d, environment, prior.distribution, prior.mode, t)
             rights == ResolveRights(set, prior.principal, intent, subject.classes,
                                     subject.classification)
             reason == Reason(<<
               <<"source_rights_prior_evidence_mismatch", ~PriorMatches(prior, d)>>,
               <<"source_rights_prior_evidence_invalid",
                   prior.until <= prior.at \/ prior.at > t>>,
               <<"source_rights_subject_attributes_invalid",
                   SubjectDenied(subject, prior, environment, t)>>,
               <<"source_workload_evidence_expired", t >= prior.until>>,
               <<rights.reason, rights.reason # "authorized">> >>)
             allowed == reason = "authorized"
         IN  [reason |-> reason, allowed |-> allowed, at |-> t,
              until |-> ValidUntil(intent, allowed, {prior.until, subject.expires}, rights),
              principal |-> prior.principal, dataset |-> d]
=============================================================================
