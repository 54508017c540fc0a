--------------------------- MODULE PriceSupplyProofs ---------------------------
(***************************************************************************)
(* Proofs about PriceSupply, for any workers, identities, commands,        *)
(* revisions and bounds.                                                   *)
(***************************************************************************)
EXTENDS PriceSupply, SequenceTheorems, FiniteSetTheorems,
        WellFoundedInduction, TLAPS

-----------------------------------------------------------------------------
(* The first check that holds.                                             *)

\* A non-empty set of numbers up to n has a greatest and a least member.
LEMMA MaxIn ==
    ASSUME NEW n \in Nat, NEW S \in SUBSET (1..n), S # {}
    PROVE  Max(S) \in S /\ \A y \in S : Max(S) >= y
<1> DEFINE Above(s) == {k \in 1..n : k > s}
           T == {Above(s) : s \in S}
           R == StrictSubsetOrdering(1..n)
<1>1. T \subseteq FiniteSubsetsOf(1..n) /\ T # {}
  <2>1. IsFiniteSet(1..n)
    BY FS_Interval
  <2>2. ASSUME NEW s \in S
        PROVE  Above(s) \in SUBSET (1..n) /\ IsFiniteSet(Above(s))
    BY <2>1, FS_Subset
  <2> QED
    BY <2>2 DEF FiniteSubsetsOf
<1>2. \E x \in T : \A y \in T : ~(<<y, x>> \in R)
  <2>1. IsWellFoundedOn(R, FiniteSubsetsOf(1..n))
    BY FS_StrictSubsetOrderingWellFounded
  <2> HIDE DEF T, R
  <2> QED
    BY <1>1, <2>1, WFMin
<1>3. PICK s \in S : \A y \in S : ~(<<Above(y), Above(s)>> \in R)
  BY <1>2
<1>4. ASSUME NEW y \in S PROVE s >= y
  <2> SUFFICES ASSUME ~(s >= y) PROVE FALSE
    OBVIOUS
  <2>1. Above(y) \subseteq Above(s)
    OBVIOUS
  <2>2. y \in Above(s) /\ y \notin Above(y)
    OBVIOUS
  <2> QED
    BY <1>3, <2>1, <2>2 DEF StrictSubsetOrdering
<1>5. \E x \in S : \A y \in S : x >= y
  BY <1>4
<1> QED
  BY <1>5 DEF Max

LEMMA MinIn ==
    ASSUME NEW n \in Nat, NEW S \in SUBSET (1..n), S # {}
    PROVE  Min(S) \in S
<1> DEFINE M == {n + 1 - s : s \in S}
<1>1. M \in SUBSET (1..n) /\ M # {}
  <2>1. \A s \in S : n + 1 - s \in 1..n
    OBVIOUS
  <2> QED
    BY <2>1
<1>2. Max(M) \in M /\ \A y \in M : Max(M) >= y
  BY <1>1, MaxIn
<1>3. PICK s \in S : Max(M) = n + 1 - s
  BY <1>2
<1>4. ASSUME NEW y \in S PROVE s <= y
  <2>1. n + 1 - s >= n + 1 - y
    BY <1>2, <1>3
  <2> QED
    BY <2>1
<1>5. \E x \in S : \A y \in S : x =< y
  BY <1>4
<1> QED
  BY <1>5 DEF Min

\* Why a resolution denies.
Reasons ==
    {"action_grant_conflict", "action_grant_expired", "action_grant_missing",
     "action_grant_environment_denied", "source_policy_conflict",
     "source_policy_expired", "source_policy_unknown",
     "source_policy_action_denied", "source_policy_purpose_denied",
     "source_policy_environment_denied", "source_policy_resource_state_denied",
     "source_policy_use_denied", "source_policy_principal_classification_denied",
     "engineering_contract_live_provider_denied",
     "source_distribution_not_authorized", "data_protection_class_denied",
     "source_entitlement_conflict", "source_entitlement_expired",
     "source_entitlement_missing", "source_entitlement_inactive",
     "source_entitlement_action_denied", "source_entitlement_purpose_denied",
     "source_entitlement_environment_denied", "source_entitlement_use_denied"}

Named(checks) == checks \in Seq(Reasons \X BOOLEAN)
NoneHolds(checks) == \A i \in DOMAIN checks : ~checks[i][2]

LEMMA OtherwisePasses ==
    ASSUME NEW checks, NEW otherwise, NEW n \in Nat, DOMAIN checks = 1..n,
           \A i \in DOMAIN checks : checks[i][2] => checks[i][1] # otherwise,
           FirstOf(checks, otherwise) = otherwise
    PROVE  NoneHolds(checks)
<1> DEFINE hits == {i \in DOMAIN checks : checks[i][2]}
<1>1. CASE hits = {}
  BY <1>1 DEF NoneHolds
<1>2. CASE hits # {}
  <2>1. Min(hits) \in hits
    <3>1. hits \in SUBSET (1..n)
      OBVIOUS
    <3> HIDE DEF hits
    <3> QED
      BY <1>2, <3>1, MinIn
  <2>2. FirstOf(checks, otherwise) = checks[Min(hits)][1]
    BY <1>2 DEF FirstOf
  <2> QED
    BY <2>1, <2>2
<1> QED
  BY <1>1, <1>2

LEMMA JoinedChecks ==
    ASSUME NEW a, NEW b, Named(a), Named(b)
    PROVE  Named(a \o b) /\ (NoneHolds(a \o b) => NoneHolds(a) /\ NoneHolds(b))
<1>1. /\ a \in Seq(Reasons \X BOOLEAN) /\ b \in Seq(Reasons \X BOOLEAN)
      /\ a \o b \in Seq(Reasons \X BOOLEAN)
      /\ Len(a) \in Nat /\ Len(b) \in Nat
      /\ DOMAIN a = 1..Len(a) /\ DOMAIN b = 1..Len(b)
      /\ DOMAIN (a \o b) = 1..(Len(a) + Len(b))
      /\ \A i \in 1..(Len(a) + Len(b)) :
            (a \o b)[i] = IF i <= Len(a) THEN a[i] ELSE b[i - Len(a)]
  BY ConcatProperties, LenProperties DEF Named
<1>2. ASSUME NEW i \in DOMAIN a
      PROVE  i \in DOMAIN (a \o b) /\ (a \o b)[i] = a[i]
  BY <1>1
<1>3. ASSUME NEW i \in DOMAIN b
      PROVE  i + Len(a) \in DOMAIN (a \o b) /\ (a \o b)[i + Len(a)] = b[i]
  <2>1. i + Len(a) \in 1..(Len(a) + Len(b)) /\ ~(i + Len(a) <= Len(a))
        /\ i + Len(a) - Len(a) = i
    BY <1>1
  <2> QED
    BY <1>1, <2>1
<1>4. ASSUME NoneHolds(a \o b)
      PROVE  NoneHolds(a) /\ NoneHolds(b)
  <2>1. ASSUME NEW i \in DOMAIN a PROVE ~a[i][2]
    BY <1>2, <1>4 DEF NoneHolds
  <2>2. ASSUME NEW i \in DOMAIN b PROVE ~b[i][2]
    <3>1. ~((a \o b)[i + Len(a)][2])
      BY <1>3, <1>4 DEF NoneHolds
    <3> QED
      BY <1>3, <3>1
  <2> QED
    BY <2>1, <2>2 DEF NoneHolds
<1> QED
  BY <1>1, <1>4 DEF Named

\* A resolution that denies nothing has no check that holds.
LEMMA NamedPasses ==
    ASSUME NEW checks, Named(checks), Reason(checks) = "authorized"
    PROVE  NoneHolds(checks)
<1>1. PICK n \in Nat : DOMAIN checks = 1..n
  BY LenProperties DEF Named
<1>2. \A i \in DOMAIN checks : checks[i][1] \in Reasons
  BY ElementOfSeq, LenProperties DEF Named
<1>3. "authorized" \notin Reasons
  BY DEF Reasons
<1> QED
  BY <1>1, <1>2, <1>3, OtherwisePasses DEF Reason

LEMMA GrantNames ==
    ASSUME NEW grants, NEW history, NEW intent
    PROVE  Named(GrantChecks(grants, history, intent))
<1>1. PICK b1 \in BOOLEAN : b1 = Several(grants)
  BY DEF Several
<1>2. PICK b2 \in BOOLEAN : b2 = (grants = {} /\ history # {})
  OBVIOUS
<1>3. PICK b3 \in BOOLEAN : b3 = (~\E g \in grants : intent.action \in g.actions)
  OBVIOUS
<1>4. PICK b4 \in BOOLEAN : b4 = (\E g \in grants : g.environment # intent.environment)
  OBVIOUS
<1>5. GrantChecks(grants, history, intent) =
          <<<<"action_grant_conflict", b1>>, <<"action_grant_expired", b2>>,
          <<"action_grant_missing", b3>>,
          <<"action_grant_environment_denied", b4>>>>
  BY <1>1, <1>2, <1>3, <1>4 DEF GrantChecks
<1>6. Named(<<<<"action_grant_conflict", b1>>, <<"action_grant_expired", b2>>,
          <<"action_grant_missing", b3>>,
          <<"action_grant_environment_denied", b4>>>>)
  BY DEF Named, Reasons
<1> QED
  BY <1>5, <1>6

LEMMA PolicyNames ==
    ASSUME NEW policies, NEW history, NEW intent, NEW classification
    PROVE  Named(PolicyChecks(policies, history, intent, classification))
<1>1. PICK b1 \in BOOLEAN : b1 = Several(policies)
  BY DEF Several
<1>2. PICK b2 \in BOOLEAN : b2 = (policies = {} /\ history # {})
  OBVIOUS
<1>3. PICK b3 \in BOOLEAN : b3 = (policies = {})
  OBVIOUS
<1>4. PICK b4 \in BOOLEAN : b4 = (\E p \in policies : intent.action \notin p.actions)
  OBVIOUS
<1>5. PICK b5 \in BOOLEAN : b5 = (\E p \in policies : intent.purpose \notin p.purposes)
  OBVIOUS
<1>6. PICK b6 \in BOOLEAN : b6 = (\E p \in policies : intent.environment \notin p.environments)
  OBVIOUS
<1>7. PICK b7 \in BOOLEAN : b7 = (\E p \in policies : intent.state \notin p.states)
  OBVIOUS
<1>8. PICK b8 \in BOOLEAN : b8 = (\E p \in policies : ~(intent.uses \subseteq p.uses))
  OBVIOUS
<1>9. PICK b9 \in BOOLEAN : b9 = (\E p \in policies : p.access = "zero_fee_plan" /\ p.classification # classification)
  OBVIOUS
<1>10. PolicyChecks(policies, history, intent, classification) =
          <<<<"source_policy_conflict", b1>>, <<"source_policy_expired",
          b2>>, <<"source_policy_unknown", b3>>,
          <<"source_policy_action_denied", b4>>,
          <<"source_policy_purpose_denied", b5>>,
          <<"source_policy_environment_denied", b6>>,
          <<"source_policy_resource_state_denied", b7>>,
          <<"source_policy_use_denied", b8>>,
          <<"source_policy_principal_classification_denied", b9>>>>
  BY <1>1, <1>2, <1>3, <1>4, <1>5, <1>6, <1>7, <1>8, <1>9 DEF PolicyChecks
<1>11. Named(<<<<"source_policy_conflict", b1>>, <<"source_policy_expired",
          b2>>, <<"source_policy_unknown", b3>>,
          <<"source_policy_action_denied", b4>>,
          <<"source_policy_purpose_denied", b5>>,
          <<"source_policy_environment_denied", b6>>,
          <<"source_policy_resource_state_denied", b7>>,
          <<"source_policy_use_denied", b8>>,
          <<"source_policy_principal_classification_denied", b9>>>>)
  BY DEF Named, Reasons
<1> QED
  BY <1>10, <1>11

LEMMA CollectionNames ==
    ASSUME NEW policies, NEW intent
    PROVE  Named(CollectionChecks(policies, intent))
<1>1. PICK b1 \in BOOLEAN : b1 = (/\ intent.action = Collect /\ intent.mode # "engineering_double"
          /\ \E p \in policies : p.access = "engineering_contract")
  OBVIOUS
<1>2. PICK b2 \in BOOLEAN : b2 = (/\ intent.action = Collect
          /\ \E p \in policies : p.access \in Distributed
                                  /\ intent.distribution \notin p.distributions)
  OBVIOUS
<1>3. CollectionChecks(policies, intent) =
          <<<<"engineering_contract_live_provider_denied", b1>>,
          <<"source_distribution_not_authorized", b2>>>>
  BY <1>1, <1>2 DEF CollectionChecks
<1>4. Named(<<<<"engineering_contract_live_provider_denied", b1>>,
          <<"source_distribution_not_authorized", b2>>>>)
  BY DEF Named, Reasons
<1> QED
  BY <1>3, <1>4

LEMMA EntitlementNames ==
    ASSUME NEW entitlements, NEW history, NEW intent
    PROVE  Named(EntitlementChecks(entitlements, history, intent))
<1>1. PICK b1 \in BOOLEAN : b1 = Several(entitlements)
  BY DEF Several
<1>2. PICK b2 \in BOOLEAN : b2 = (entitlements = {} /\ history # {})
  OBVIOUS
<1>3. PICK b3 \in BOOLEAN : b3 = (entitlements = {})
  OBVIOUS
<1>4. PICK b4 \in BOOLEAN : b4 = (\E e \in entitlements : e.status # "active")
  OBVIOUS
<1>5. PICK b5 \in BOOLEAN : b5 = (\E e \in entitlements : intent.action \notin e.actions)
  OBVIOUS
<1>6. PICK b6 \in BOOLEAN : b6 = (\E e \in entitlements : intent.purpose \notin e.purposes)
  OBVIOUS
<1>7. PICK b7 \in BOOLEAN : b7 = (\E e \in entitlements : intent.environment \notin e.environments)
  OBVIOUS
<1>8. PICK b8 \in BOOLEAN : b8 = (\E e \in entitlements : ~(intent.uses \subseteq e.uses))
  OBVIOUS
<1>9. EntitlementChecks(entitlements, history, intent) =
          <<<<"source_entitlement_conflict", b1>>,
          <<"source_entitlement_expired", b2>>,
          <<"source_entitlement_missing", b3>>,
          <<"source_entitlement_inactive", b4>>,
          <<"source_entitlement_action_denied", b5>>,
          <<"source_entitlement_purpose_denied", b6>>,
          <<"source_entitlement_environment_denied", b7>>,
          <<"source_entitlement_use_denied", b8>>>>
  BY <1>1, <1>2, <1>3, <1>4, <1>5, <1>6, <1>7, <1>8 DEF EntitlementChecks
<1>10. Named(<<<<"source_entitlement_conflict", b1>>,
          <<"source_entitlement_expired", b2>>,
          <<"source_entitlement_missing", b3>>,
          <<"source_entitlement_inactive", b4>>,
          <<"source_entitlement_action_denied", b5>>,
          <<"source_entitlement_purpose_denied", b6>>,
          <<"source_entitlement_environment_denied", b7>>,
          <<"source_entitlement_use_denied", b8>>>>)
  BY DEF Named, Reasons
<1> QED
  BY <1>9, <1>10

-----------------------------------------------------------------------------
(* What an allowed collection needs.                                       *)

\* No check of a resolution that authorizes a collection holds: it has policies,
\* which admit its mode and its distribution.
LEMMA RightsGranted ==
    ASSUME NEW set, NEW principal, NEW intent, NEW classes, NEW classification,
           intent.action = Collect,
           ResolveRights(set, principal, intent, classes, classification).reason = "authorized"
    PROVE  LET policies == LiveVersions(PoliciesOf(set, intent.dataset), intent.at)
           IN  /\ ResolveRights(set, principal, intent, classes, classification).policies
                     = policies
               /\ policies # {}
               /\ \A p \in policies :
                    /\ p.access = "engineering_contract" => intent.mode = "engineering_double"
                    /\ p.access \in Distributed => intent.distribution \in p.distributions
<1> DEFINE rights == ResolveRights(set, principal, intent, classes, classification)
           grantHistory == GrantsOf(set, principal)
           grants == LiveVersions(grantHistory, intent.at)
           policyHistory == PoliciesOf(set, intent.dataset)
           policies == LiveVersions(policyHistory, intent.at)
           history == EntitlementsOf(set, principal, intent.dataset)
           entitlements == IF OpenData(policies) THEN {} ELSE LiveVersions(history, intent.at)
           forGrants == GrantChecks(grants, grantHistory, intent)
           forPolicies == PolicyChecks(policies, policyHistory, intent, classification)
           forCollection == CollectionChecks(policies, intent)
           forClass == << <<"data_protection_class_denied",
                            \E p \in policies : p.class \notin classes>> >>
           forEntitlement == IF OpenData(policies) THEN <<>>
                             ELSE EntitlementChecks(entitlements, history, intent)
<1>1. /\ rights.policies = policies
      /\ rights.reason = Reason(forGrants \o forPolicies \o forCollection
                                   \o forClass \o forEntitlement)
  BY DEF ResolveRights
<1>2. Named(forGrants) /\ Named(forPolicies) /\ Named(forCollection)
  BY GrantNames, PolicyNames, CollectionNames
<1>3. Named(forClass)
  <2>1. PICK b \in BOOLEAN : b = (\E p \in policies : p.class \notin classes)
    OBVIOUS
  <2>2. forClass = << <<"data_protection_class_denied", b>> >>
    BY <2>1
  <2>3. Named(<< <<"data_protection_class_denied", b>> >>)
    BY DEF Named, Reasons
  <2> HIDE DEF forClass
  <2> QED
    BY <2>2, <2>3
<1>4. Named(forEntitlement)
  <2>1. CASE OpenData(policies)
    <3>1. Named(<<>>)
      BY EmptySeq DEF Named
    <3> QED
      BY <2>1, <3>1
  <2>2. CASE ~OpenData(policies)
    BY <2>2, EntitlementNames
  <2> QED
    BY <2>1, <2>2
<1> HIDE DEF forGrants, forPolicies, forCollection, forClass, forEntitlement
<1>5. /\ Named(forGrants \o forPolicies)
      /\ Named(forGrants \o forPolicies \o forCollection)
      /\ Named(forGrants \o forPolicies \o forCollection \o forClass)
      /\ Named(forGrants \o forPolicies \o forCollection \o forClass \o forEntitlement)
  BY <1>2, <1>3, <1>4, JoinedChecks
<1>6. NoneHolds(forGrants \o forPolicies \o forCollection \o forClass \o forEntitlement)
  BY <1>1, <1>5, NamedPasses
<1>7. NoneHolds(forPolicies) /\ NoneHolds(forCollection)
  <2>1. NoneHolds(forGrants \o forPolicies \o forCollection \o forClass)
    BY <1>4, <1>5, <1>6, JoinedChecks
  <2>2. NoneHolds(forGrants \o forPolicies \o forCollection)
    BY <1>3, <1>5, <2>1, JoinedChecks
  <2>3. NoneHolds(forGrants \o forPolicies) /\ NoneHolds(forCollection)
    BY <1>2, <1>5, <2>2, JoinedChecks
  <2> QED
    BY <1>2, <2>3, JoinedChecks
<1> HIDE DEF policies, policyHistory
<1>8. policies # {}
  <2>1. DOMAIN forPolicies = 1..9 /\ (forPolicies[3][2] <=> policies = {})
    <3>1. DOMAIN PolicyChecks(policies, policyHistory, intent, classification) = 1..9
      BY DEF PolicyChecks
    <3>2. PolicyChecks(policies, policyHistory, intent, classification)[3][2] <=> policies = {}
      BY DEF PolicyChecks
    <3> QED
      BY <3>1, <3>2 DEF forPolicies
  <2>2. 3 \in DOMAIN forPolicies
    BY <2>1
  <2> QED
    BY <1>7, <2>1, <2>2 DEF NoneHolds
<1>9. ASSUME NEW p \in policies
      PROVE  /\ p.access = "engineering_contract" => intent.mode = "engineering_double"
             /\ p.access \in Distributed => intent.distribution \in p.distributions
  <2>1. DOMAIN forCollection = 1..2
    BY DEF forCollection, CollectionChecks
  <2>2. ~forCollection[1][2] /\ ~forCollection[2][2]
    BY <1>7, <2>1 DEF NoneHolds
  <2>3. forCollection[1][2] <=>
          /\ intent.action = Collect /\ intent.mode # "engineering_double"
          /\ \E q \in policies : q.access = "engineering_contract"
    BY DEF forCollection, CollectionChecks
  <2>4. forCollection[2][2] <=>
          /\ intent.action = Collect
          /\ \E q \in policies : q.access \in Distributed
                                   /\ intent.distribution \notin q.distributions
    BY DEF forCollection, CollectionChecks
  <2> QED
    BY <2>2, <2>3, <2>4
<1> QED
  BY <1>1, <1>8, <1>9 DEF policies, policyHistory

-----------------------------------------------------------------------------
(* What the sets say of a distribution.                                    *)

LEMMA ResourceDataset ==
    ASSUME NEW id, NEW dataset, NEW actions, NEW purpose, NEW class, NEW uses,
           NEW p \in Resource(id, dataset, actions, purpose, class, uses).policies
    PROVE  p.dataset = dataset
BY DEF Resource, Policy

LEMMA PendingPolicies ==
    ASSUME NEW id, NEW p \in PendingSet(id).policies
    PROVE  p.dataset \notin Distributions
<1> DEFINE actions == id.scopes \cap ({Collect, Read} \cup Administering
                                         \cup Governing \cup Operating)
           resource(dataset, wanted, purpose, class, uses) ==
               IF wanted \cap actions = {} THEN NoResource
               ELSE Resource(id, dataset, wanted \cap actions, purpose, class, uses)
<1>1. ASSUME NEW dataset, NEW wanted, NEW purpose, NEW class, NEW uses,
             p \in resource(dataset, wanted, purpose, class, uses).policies
      PROVE  p.dataset = dataset
  BY <1>1, ResourceDataset DEF NoResource
<1>2. p \in UNION {r.policies : r \in
          {resource("price-research-eligibility", {Read}, "price_research", "internal", {}),
           resource("source-credential-metadata", Administering,
                    "source_administration", "restricted", {}),
           resource("model-governance-ledger", Governing,
                    "model_governance", "internal", {}),
           resource("production-research-catalog", Operating, "price_research",
                    "internal", {"show"})}}
  BY DEF PendingSet, PolicySet
<1> HIDE DEF resource
<1>3. p.dataset \in {"price-research-eligibility", "source-credential-metadata",
                     "model-governance-ledger", "production-research-catalog"}
  BY <1>1, <1>2
<1> QED
  BY <1>3, RightsAssumption

LEMMA BlockedPolicies ==
    ASSUME NEW id, NEW p \in BlockedSet(id).policies
    PROVE  p.dataset \notin Distributions
<1>1. p.dataset \in {"price-research-eligibility", "source-credential-metadata"}
  BY ResourceDataset DEF BlockedSet, PolicySet
<1> QED
  BY <1>1, RightsAssumption

LEMMA CollectPolicyFields ==
    ASSUME NEW id, NEW d, NEW access, NEW basis, NEW classification
    PROVE  LET p == CollectPolicy(id, d, access, basis, classification)
           IN  /\ p.dataset = d /\ p.access = access /\ p.basis = basis
               /\ p.distributions = {d} /\ p.to = id.expires
BY DEF CollectPolicy, Policy

LEMMA EngineeringPolicies ==
    ASSUME NEW id, NEW d \in Distributions, NEW p \in EngineeringSet(id).policies,
           p.dataset = d
    PROVE  p = CollectPolicy(id, d, "engineering_contract", "engineering", "none")
<1>1. \/ \E e \in Distributions :
            p = CollectPolicy(id, e, "engineering_contract", "engineering", "none")
      \/ p = Policy(id, "price-research-eligibility", {Read},
                                        "price_research", "licensed", {})
      \/ p = Policy(id, "source-credential-metadata", Administering,
                                        "source_administration", "restricted", {})
  BY DEF EngineeringSet, PolicySet
<1>2. CASE \E e \in Distributions :
              p = CollectPolicy(id, e, "engineering_contract", "engineering", "none")
  BY <1>2, CollectPolicyFields
<1>3. CASE \/ p = Policy(id, "price-research-eligibility", {Read},
                         "price_research", "licensed", {})
           \/ p = Policy(id, "source-credential-metadata", Administering,
                         "source_administration", "restricted", {})
  <2>1. p.dataset \in {"price-research-eligibility", "source-credential-metadata"}
    BY <1>3 DEF Policy
  <2> QED
    BY <2>1, RightsAssumption
<1> QED
  BY <1>1, <1>2, <1>3

LEMMA QualifiedPolicies ==
    ASSUME NEW id, NEW d \in Distributions, NEW p \in QualifiedSet(id).policies,
           p.dataset = d
    PROVE  p = CollectPolicy(id, d, "zero_fee_plan", "manifest", "individual_non_commercial")
<1>1. \/ p \in PendingSet(id).policies
      \/ p.dataset = "manifest"
      \/ \E e \in Distributions :
            p = CollectPolicy(id, e, "zero_fee_plan", "manifest", "individual_non_commercial")
  BY DEF QualifiedSet, NoResource, Policy, PendingSet, PolicySet
<1>2. p.dataset # "manifest"
  BY RightsAssumption
<1>3. p \notin PendingSet(id).policies
  BY PendingPolicies
<1> QED
  BY <1>1, <1>2, <1>3, CollectPolicyFields

\* Only an engineering or a qualified set has a policy of a distribution, one of
\* each, and either admits only the distribution it names.
LEMMA DistributionPolicies ==
    ASSUME NEW name \in SetNames, NEW id, NEW d \in Distributions,
           NEW p \in PoliciesOf(Build(name, id), d)
    PROVE  \/ /\ name = "engineering"
              /\ p = CollectPolicy(id, d, "engineering_contract", "engineering", "none")
           \/ /\ name = "qualified"
              /\ p = CollectPolicy(id, d, "zero_fee_plan", "manifest",
                                   "individual_non_commercial")
<1>1. p \in Build(name, id).policies /\ p.dataset = d
  BY DEF PoliciesOf
<1>2. CASE name = "blocked"
  BY <1>1, <1>2, BlockedPolicies DEF Build
<1>3. CASE name = "pending"
  BY <1>1, <1>3, PendingPolicies DEF Build
<1>4. CASE name = "engineering"
  BY <1>1, <1>4, EngineeringPolicies DEF Build
<1>5. CASE name = "qualified"
  BY <1>1, <1>5, QualifiedPolicies DEF Build
<1> QED
  BY <1>2, <1>3, <1>4, <1>5 DEF SetNames

\* The decision to collect for a set that was built for the identity.
LEMMA CollectAllowed ==
    ASSUME NEW name \in SetNames, NEW id, NEW d \in Distributions,
           NEW environment, NEW distribution, NEW mode, NEW t,
           Evaluate(Build(name, id), id,
                    CollectIntent(d, environment, distribution, mode, t)).allowed
    PROVE  LET decision == Evaluate(Build(name, id), id,
                               CollectIntent(d, environment, distribution, mode, t))
           IN  /\ name \in {"engineering", "qualified"}
               /\ distribution = d
               /\ name = "engineering" => mode = "engineering_double"
               /\ name = "qualified" => decision.basis = "manifest"
<1> DEFINE intent == CollectIntent(d, environment, distribution, mode, t)
           set == Build(name, id)
           rights == ResolveRights(set, id.principal, intent, id.classes, id.classification)
           checks == << <<"identity_expired", ~(id.issued <= intent.at /\ intent.at < id.expires)>>,
                        <<"identity_environment_mismatch", id.environment # intent.environment>>,
                        <<"identity_scope_missing", intent.action \notin id.scopes>>,
                        <<rights.reason, rights.reason # "authorized">> >>
           decision == Evaluate(set, id, intent)
<1>1. /\ intent.action = Collect /\ intent.dataset = d /\ intent.mode = mode
      /\ intent.distribution = distribution
  BY DEF CollectIntent
<1>2. /\ decision.allowed <=> Reason(checks) = "authorized"
      /\ decision.basis = IF Cardinality(rights.policies) = 1
                          THEN (CHOOSE p \in rights.policies : TRUE).basis ELSE "none"
  BY DEF Evaluate, Decision
<1> HIDE DEF rights, intent, set
<1>3. rights.reason = "authorized"
  <2>1. DOMAIN checks = 1..4
    OBVIOUS
  <2>2. /\ checks[4][1] = rights.reason
        /\ checks[4][2] <=> rights.reason # "authorized"
        /\ checks[1][1] # "authorized" /\ checks[2][1] # "authorized"
        /\ checks[3][1] # "authorized"
    OBVIOUS
  <2> HIDE DEF checks
  <2>3. \A i \in DOMAIN checks : checks[i][2] => checks[i][1] # "authorized"
    <3>1. \A i \in 1..4 : i = 1 \/ i = 2 \/ i = 3 \/ i = 4
      OBVIOUS
    <3> QED
      BY <2>1, <2>2, <3>1
  <2>4. FirstOf(checks, "authorized") = "authorized"
    BY <1>2 DEF Reason, intent, set
  <2>5. NoneHolds(checks)
    BY <2>1, <2>3, <2>4, OtherwisePasses
  <2> QED
    BY <2>1, <2>2, <2>5 DEF NoneHolds
<1> DEFINE policies == LiveVersions(PoliciesOf(set, intent.dataset), intent.at)
<1>4. /\ rights.policies = policies /\ policies # {}
      /\ \A p \in policies :
            /\ p.access = "engineering_contract" => intent.mode = "engineering_double"
            /\ p.access \in Distributed => intent.distribution \in p.distributions
  BY <1>1, <1>3, RightsGranted DEF rights
<1>5. policies \subseteq PoliciesOf(Build(name, id), d)
  BY <1>1 DEF LiveVersions, set
<1> HIDE DEF policies
<1>6. PICK p \in policies : TRUE
  BY <1>4
<1>7. CASE name = "engineering"
  <2>1. /\ p.access = "engineering_contract" /\ p.distributions = {d}
    BY <1>5, <1>6, <1>7, DistributionPolicies, CollectPolicyFields
  <2> QED
    BY <1>1, <1>4, <1>6, <1>7, <2>1 DEF Distributed
<1>8. CASE name = "qualified"
  <2> DEFINE q == CollectPolicy(id, d, "zero_fee_plan", "manifest",
                                "individual_non_commercial")
  <2>1. policies = {q}
    BY <1>4, <1>5, <1>8, DistributionPolicies
  <2>2. q.access = "zero_fee_plan" /\ q.distributions = {d} /\ q.basis = "manifest"
    BY CollectPolicyFields
  <2> HIDE DEF q
  <2>3. Cardinality(policies) = 1
    BY <2>1, FS_Singleton
  <2>4. decision.basis = "manifest"
    BY <1>2, <1>4, <2>1, <2>2, <2>3
  <2>5. distribution = d
    BY <1>1, <1>4, <2>1, <2>2 DEF Distributed
  <2> QED
    BY <1>8, <2>4, <2>5 DEF intent, set
<1> QED
  BY <1>5, <1>6, <1>7, <1>8, DistributionPolicies

-----------------------------------------------------------------------------
(* How long a decision holds.                                              *)

\* Every version of a built set ends with the identity it was built for.
EndsWith(set, id) ==
    /\ \A g \in set.grants : g.to = id.expires
    /\ \A p \in set.policies : p.to = id.expires
    /\ \A e \in set.entitlements : e.to = id.expires

LEMMA PolicyEnds ==
    ASSUME NEW id, NEW dataset, NEW actions, NEW purpose, NEW class, NEW uses
    PROVE  Policy(id, dataset, actions, purpose, class, uses).to = id.expires
BY DEF Policy

LEMMA EntitlementEnds ==
    ASSUME NEW id, NEW dataset, NEW status, NEW actions, NEW purposes, NEW uses
    PROVE  Entitlement(id, dataset, status, actions, purposes, uses).to = id.expires
BY DEF Entitlement

LEMMA PolicySetEnds ==
    ASSUME NEW id, NEW actions, NEW resources,
           \A r \in resources : /\ \A p \in r.policies : p.to = id.expires
                                /\ \A e \in r.entitlements : e.to = id.expires
    PROVE  EndsWith(PolicySet(Grant(id, actions), resources), id)
BY DEF EndsWith, PolicySet, Grant

LEMMA ResourceEnds ==
    ASSUME NEW id, NEW dataset, NEW actions, NEW purpose, NEW class, NEW uses
    PROVE  LET r == Resource(id, dataset, actions, purpose, class, uses)
           IN  /\ \A p \in r.policies : p.to = id.expires
               /\ \A e \in r.entitlements : e.to = id.expires
BY DEF Resource, Policy, Entitlement

LEMMA BuiltEnds ==
    ASSUME NEW name \in SetNames, NEW id
    PROVE  EndsWith(Build(name, id), id)
<1>1. EndsWith(BlockedSet(id), id)
  BY PolicySetEnds, ResourceEnds DEF BlockedSet
<1>2. EndsWith(PendingSet(id), id)
  <2>1. /\ \A p \in NoResource.policies : p.to = id.expires
        /\ \A e \in NoResource.entitlements : e.to = id.expires
    BY DEF NoResource
  <2> QED
    BY <2>1, PolicySetEnds, ResourceEnds DEF PendingSet
<1>3. EndsWith(EngineeringSet(id), id)
  <2>1. \A g \in EngineeringSet(id).grants : g.to = id.expires
    BY DEF EngineeringSet, PolicySet, Grant
  <2>2. \A p \in EngineeringSet(id).policies : p.to = id.expires
    <3>1. ASSUME NEW p \in EngineeringSet(id).policies
          PROVE  \/ \E e \in Distributions :
                      p = CollectPolicy(id, e, "engineering_contract", "engineering", "none")
                 \/ p = Policy(id, "price-research-eligibility", {Read},
                               "price_research", "licensed", {})
                 \/ p = Policy(id, "source-credential-metadata", Administering,
                               "source_administration", "restricted", {})
      BY DEF EngineeringSet, PolicySet
    <3> QED
      BY <3>1, CollectPolicyFields, PolicyEnds
  <2>3. \A e \in EngineeringSet(id).entitlements : e.to = id.expires
    <3> DEFINE actions == id.scopes \cap ({Collect, Read} \cup Administering)
               entitled(dataset, wanted, purpose, uses) ==
                   IF wanted \cap actions = {} THEN {}
                   ELSE {Entitlement(id, dataset, "active", wanted \cap actions,
                                     {purpose}, uses)}
    <3>1. ASSUME NEW dataset, NEW wanted, NEW purpose, NEW uses,
                 NEW e \in entitled(dataset, wanted, purpose, uses)
          PROVE  e.to = id.expires
      BY EntitlementEnds
    <3>2. ASSUME NEW e \in EngineeringSet(id).entitlements
          PROVE  \/ \E d \in Distributions :
                      e \in entitled(d, {Collect}, "price_research", RequiredUses)
                 \/ e \in entitled("price-research-eligibility", {Read}, "price_research", {})
                 \/ e \in entitled("source-credential-metadata", Administering,
                                   "source_administration", {})
      BY SMTT(30) DEF EngineeringSet, PolicySet
    <3> HIDE DEF entitled
    <3> QED
      BY <3>1, <3>2
  <2> QED
    BY <2>1, <2>2, <2>3 DEF EndsWith
<1>4. EndsWith(QualifiedSet(id), id)
  <2>1. /\ QualifiedSet(id).grants = PendingSet(id).grants
        /\ \A p \in QualifiedSet(id).policies :
             \/ p \in PendingSet(id).policies
             \/ \E dataset, actions, purpose, class, uses :
                  p = Policy(id, dataset, actions, purpose, class, uses)
             \/ \E d : p = CollectPolicy(id, d, "zero_fee_plan", "manifest",
                                        "individual_non_commercial")
        /\ \A e \in QualifiedSet(id).entitlements :
             \/ e \in PendingSet(id).entitlements
             \/ \E dataset, status, actions, purposes, uses :
                  e = Entitlement(id, dataset, status, actions, purposes, uses)
    BY DEF QualifiedSet, NoResource, PendingSet, PolicySet
  <2> QED
    BY <1>2, <2>1, CollectPolicyFields, PolicyEnds, EntitlementEnds DEF EndsWith
<1> QED
  BY <1>1, <1>2, <1>3, <1>4 DEF Build, SetNames

LEMMA DecisionTimes ==
    ASSUME NEW name \in SetNames, NEW id, id.expires \in Nat, NEW intent, intent.at \in Nat
    PROVE  LET decision == Evaluate(Build(name, id), id, intent)
           IN  decision.at = intent.at /\ decision.until \in Nat
<1> DEFINE set == Build(name, id)
           rights == ResolveRights(set, id.principal, intent, id.classes, id.classification)
           decision == Evaluate(set, id, intent)
           ends == {id.expires} \cup
                     {v.to : v \in rights.grants \cup rights.policies \cup rights.entitlements}
<1>1. ends = {id.expires}
  <2>1. /\ rights.grants \subseteq set.grants
        /\ rights.policies \subseteq set.policies
        /\ rights.entitlements \subseteq set.entitlements
    BY DEF ResolveRights, LiveVersions, GrantsOf, PoliciesOf, EntitlementsOf
  <2>2. EndsWith(set, id)
    BY BuiltEnds
  <2> HIDE DEF set, rights
  <2> QED
    BY <2>1, <2>2 DEF EndsWith
<1>2. Min(ends) \in Nat
  <2>1. \E x \in {id.expires} : \A y \in {id.expires} : x =< y
    OBVIOUS
  <2> QED
    BY <1>1, <2>1 DEF Min
<1>3. decision.at = intent.at /\ (decision.until = intent.at \/ decision.until = Min(ends))
  BY DEF Evaluate, Decision, ValidUntil
<1> QED
  BY <1>2, <1>3

-----------------------------------------------------------------------------
(* The inductive invariant.                                                *)

\* What a worker may decide, and what it and the rows hold of it.
Decisions ==
    {Evaluate(Build(name, id), id, CollectIntent(d, id.environment, x, mode, t)) :
        name \in Names, id \in Adapters, d \in Distributions, x \in Distributions,
        mode \in Modes, t \in 0..Horizon}
Bases == {SourceBasis(Build(name, id), decision) :
             name \in Names, id \in Adapters, decision \in Decisions}
Stages == {"authorized", "blocked", "loading", "loaded"}
Checkpoints == Revisions \cup {None}

Work == [stage : Stages, command : Commands, expected : Checkpoints,
         decision : Decisions, basis : Bases, revision : Checkpoints,
         good : BOOLEAN,
         todo : SUBSET ({"raw", "member", "normalized"} \X Revisions)]

RowType == [feed : Feeds, trace : {c.trace : c \in Commands},
            status : Refusals \cup Kept \cup {"policy_blocked"},
            decision : Decisions, before : Checkpoints, checkpoint : Checkpoints,
            basis : Bases]

Typed ==
    /\ now \in 0..Horizon
    /\ rows \in Seq(RowType)
    /\ work \in [Workers -> Work \cup {Idle}]

\* A qualified set is installed for an adapter only by one that qualifies.
InstalledOK ==
    /\ \A i \in installed : i[1] \in Names
    /\ \A name \in Names, principal \in {a.principal : a \in Adapters} :
        <<name, principal>> \in installed /\ name = "qualified" =>
            \E id \in Adapters : id.principal = principal /\ Qualifies(id)

\* What a live provider may be called under.
Granted(d) ==
    /\ d.allowed
    /\ d.mode = "live_provider" =>
          /\ d.basis = "manifest" /\ d.distribution = Primary
          /\ \E id \in Adapters : id.principal = d.principal /\ Qualifies(id)

\* What a loaded partition still has to store is all that is missing.
WorkOK(k) ==
    /\ k.stage = "authorized" => Granted(k.decision)
    /\ k.stage = "loaded" =>
          /\ k.revision \in Revisions
          /\ {"raw", "member"} \X {k.revision} \subseteq objects \cup k.todo
          /\ k.good => <<"normalized", k.revision>> \in objects \cup k.todo

WorkersOK == \A w \in Workers : WorkOK(work[w])

IInv ==
    /\ Typed /\ InstalledOK /\ WorkersOK
    /\ CheckpointBacked /\ LiveCallsAreGranted /\ QualifiedIsUsable

LEMMA IdleWork == Idle.stage = "idle" /\ WorkOK(Idle)
BY DEF Idle, WorkOK

LEMMA BusyWork ==
    ASSUME Typed, NEW w \in Workers, work[w].stage # "idle"
    PROVE  work[w] \in Work
BY IdleWork DEF Typed

LEMMA SetBuilt ==
    ASSUME NEW name \in Names, NEW id \in Adapters \cup {Reader}
    PROVE  Sets[name][id] = Build(name, id) /\ name \in SetNames
BY SupplyAssumption DEF Sets, Identities

LEMMA DecisionAt ==
    ASSUME NEW d \in Decisions
    PROVE  d.at \in Nat /\ d.until \in Nat
<1>1. PICK name \in Names, id \in Adapters, e \in Distributions, x \in Distributions,
           mode \in Modes, t \in 0..Horizon :
          d = Evaluate(Build(name, id), id, CollectIntent(e, id.environment, x, mode, t))
  BY DEF Decisions
<1>2. CollectIntent(e, id.environment, x, mode, t).at \in Nat
  BY SupplyAssumption DEF CollectIntent
<1>3. name \in SetNames /\ id.expires \in Nat
  BY SupplyAssumption
<1> QED
  BY <1>1, <1>2, <1>3, DecisionTimes

-----------------------------------------------------------------------------
(* A worker's steps.                                                       *)

\* A worker moves on and publishes nothing.
LEMMA WorkStep ==
    ASSUME IInv, NEW w \in Workers, NEW k \in Work \cup {Idle},
           work' = [work EXCEPT ![w] = k], WorkOK(k)',
           UNCHANGED <<now, installed, rows, artifacts>>,
           objects \subseteq objects', LiveCallsAreGranted', answer' = Idle
    PROVE  IInv'
<1>1. /\ work' \in [Workers -> Work \cup {Idle}] /\ work'[w] = k
      /\ \A x \in Workers \ {w} : work'[x] = work[x]
  BY DEF IInv, Typed
<1>2. Typed' /\ InstalledOK'
  BY <1>1 DEF IInv, Typed, InstalledOK
<1>3. WorkersOK'
  <2>1. ASSUME NEW x \in Workers \ {w}
        PROVE  WorkOK(work[x])'
    <3>1. WorkOK(work[x]) /\ work'[x] = work[x]
      BY <1>1 DEF IInv, WorkersOK
    <3> QED
      BY <3>1 DEF WorkOK, Granted
  <2> QED
    BY <1>1, <2>1 DEF WorkersOK
<1>4. CheckpointBacked'
  BY DEF IInv, CheckpointBacked
<1>5. QualifiedIsUsable'
  BY IdleWork DEF QualifiedIsUsable
<1> QED
  BY <1>2, <1>3, <1>4, <1>5 DEF IInv

\* A worker publishes a row, which must be backed by what is stored, and is done.
LEMMA PublishStep ==
    ASSUME IInv, NEW w \in Workers, work[w] \in Work,
           NEW status \in Refusals \cup Kept \cup {"policy_blocked"},
           NEW after \in Checkpoints, NEW made, Publish(w, status, after, made),
           UNCHANGED <<installed, objects, egress, now>>, answer' = Idle,
           after # None =>
             /\ {"raw", "member"} \X {after} \subseteq objects
             /\ <<"retrieval_receipt", after>> \in made
             /\ status = "published" => /\ <<"normalized", after>> \in objects
                                       /\ <<"dataset_version", after>> \in made
    PROVE  IInv'
<1> DEFINE row == Row(w, status, after)
<1>1. /\ row \in RowType /\ row.checkpoint = after /\ row.status = status
  <2>1. /\ work[w].command \in Commands /\ work[w].decision \in Decisions
        /\ work[w].expected \in Checkpoints /\ work[w].basis \in Bases
    BY DEF Work
  <2>2. work[w].command.feed \in Feeds
    BY <2>1, SupplyAssumption
  <2> QED
    BY <2>1, <2>2 DEF Row, RowType
<1>2. /\ rows' = Append(rows, row) /\ artifacts' = artifacts \cup made
      /\ work' = [work EXCEPT ![w] = Idle]
  BY DEF Publish
<1> HIDE DEF row
<1>3. rows \in Seq(RowType)
  BY DEF IInv, Typed
<1>4. /\ rows' \in Seq(RowType) /\ Len(rows) \in Nat
      /\ DOMAIN rows = 1..Len(rows) /\ DOMAIN rows' = 1..(Len(rows) + 1)
      /\ \A i \in DOMAIN rows : rows'[i] = rows[i]
      /\ rows'[Len(rows) + 1] = row
  BY <1>1, <1>2, <1>3, AppendProperties, LenProperties
<1>5. /\ work' \in [Workers -> Work \cup {Idle}] /\ work'[w] = Idle
      /\ \A x \in Workers \ {w} : work'[x] = work[x]
  BY <1>2 DEF IInv, Typed
<1>6. Typed' /\ InstalledOK'
  BY <1>4, <1>5 DEF IInv, Typed, InstalledOK
<1>7. WorkersOK'
  <2>1. ASSUME NEW x \in Workers \ {w}
        PROVE  WorkOK(work[x])'
    <3>1. WorkOK(work[x]) /\ work'[x] = work[x]
      BY <1>5 DEF IInv, WorkersOK
    <3> QED
      BY <3>1 DEF WorkOK, Granted
  <2>2. WorkOK(Idle)'
    BY DEF WorkOK, Idle
  <2> QED
    BY <1>5, <2>1, <2>2 DEF WorkersOK
<1>8. CheckpointBacked'
  <2> SUFFICES ASSUME NEW i \in DOMAIN rows', rows'[i].checkpoint # None
               PROVE  /\ {"raw", "member"} \X {rows'[i].checkpoint} \subseteq objects
                      /\ <<"retrieval_receipt", rows'[i].checkpoint>> \in artifacts'
                      /\ rows'[i].status = "published" =>
                           /\ <<"normalized", rows'[i].checkpoint>> \in objects
                           /\ <<"dataset_version", rows'[i].checkpoint>> \in artifacts'
    BY DEF CheckpointBacked
  <2>1. CASE i \in DOMAIN rows
    BY <1>2, <1>4, <2>1 DEF IInv, CheckpointBacked
  <2>2. CASE i \notin DOMAIN rows
    <3>1. rows'[i] = row
      BY <1>4, <2>2
    <3> QED
      BY <1>1, <1>2, <3>1
  <2> QED
    BY <2>1, <2>2
<1>9. LiveCallsAreGranted' /\ QualifiedIsUsable'
  BY IdleWork DEF IInv, LiveCallsAreGranted, QualifiedIsUsable
<1> QED
  BY <1>6, <1>7, <1>8, <1>9 DEF IInv

\* The rights of the source and of the bundle member, for the set and the
\* identity the worker was started with.
LEMMA BeginIInv ==
    ASSUME IInv, NEW w \in Workers, NEW name \in Names, NEW id \in Adapters,
           NEW command \in Commands, NEW expected \in Expectable,
           Begin(w, name, id, command, expected)
    PROVE  IInv'
<1> DEFINE set == Sets[name][id]
           intent(d, distribution) ==
               CollectIntent(d, id.environment, distribution, command.mode, now)
           primary == Evaluate(set, id, intent(Primary, command.distribution))
           member == Evaluate(set, id, intent(Member, Member))
           decision == IF primary.allowed /\ ~member.allowed THEN member ELSE primary
           begun1 == [stage |-> IF decision.allowed THEN "authorized" ELSE "blocked",
                      command |-> command, expected |-> expected, decision |-> decision,
                      basis |-> SourceBasis(set, decision),
                      revision |-> None, good |-> FALSE, todo |-> {}]
<1>1. /\ <<name, id.principal>> \in installed
      /\ work' = [work EXCEPT ![w] = begun1]
      /\ UNCHANGED <<installed, rows, artifacts, objects, egress, now>>
      /\ answer' = Idle
  BY DEF Begin, Forget
<1>2. set = Build(name, id) /\ name \in SetNames
  BY SetBuilt
<1>3. /\ command.mode \in Modes /\ command.distribution \in Distributions
      /\ Primary \in Distributions /\ Member \in Distributions
      /\ now \in 0..Horizon
  BY SupplyAssumption DEF IInv, Typed
<1>4. decision \in Decisions
  <2>1. primary \in Decisions
    BY <1>2, <1>3 DEF Decisions
  <2>2. member \in Decisions
    BY <1>2, <1>3 DEF Decisions
  <2> QED
    BY <2>1, <2>2
<1>5. /\ primary.mode = command.mode /\ primary.distribution = command.distribution
      /\ primary.principal = id.principal
  BY DEF Evaluate, Decision, CollectIntent
<1>6. ASSUME decision.allowed
      PROVE  Granted(decision)
  <2>1. decision = primary /\ primary.allowed
    BY <1>6
  <2>2. /\ name \in {"engineering", "qualified"} /\ command.distribution = Primary
        /\ name = "engineering" => command.mode = "engineering_double"
        /\ name = "qualified" => primary.basis = "manifest"
    BY <1>2, <1>3, <2>1, CollectAllowed
  <2> HIDE DEF primary, decision
  <2>3. ASSUME primary.mode = "live_provider"
        PROVE  /\ primary.basis = "manifest"
               /\ \E a \in Adapters : a.principal = primary.principal /\ Qualifies(a)
    <3>1. name = "qualified"
      BY <1>5, <2>2, <2>3
    <3> QED
      BY <1>1, <1>5, <2>2, <3>1 DEF IInv, InstalledOK
  <2> QED
    BY <1>5, <2>1, <2>2, <2>3 DEF Granted
<1> HIDE DEF decision
<1>7. expected \in Checkpoints
  <2>1. \A i \in DOMAIN rows : rows[i] \in RowType
    BY ElementOfSeq, LenProperties DEF IInv, Typed
  <2> QED
    BY <2>1 DEF Expectable, Checkpoints, RowType
<1>8. PICK k \in Work : /\ work' = [work EXCEPT ![w] = k]
                        /\ k.decision = decision /\ k.stage \in {"authorized", "blocked"}
                        /\ k.stage = "authorized" => decision.allowed
  <2>1. SourceBasis(set, decision) \in Bases
    BY <1>2, <1>4 DEF Bases
  <2>2. /\ begun1 \in Work /\ begun1.decision = decision
        /\ begun1.stage \in {"authorized", "blocked"}
        /\ begun1.stage = "authorized" => decision.allowed
    BY <1>4, <1>7, <2>1 DEF Work, Stages, Checkpoints
  <2> QED
    BY <1>1, <2>2
<1>9. WorkOK(k)'
  BY <1>6, <1>8 DEF WorkOK, Granted
<1>10. LiveCallsAreGranted'
  BY <1>1 DEF IInv, LiveCallsAreGranted
<1> QED
  BY <1>1, <1>8, <1>9, <1>10, WorkStep

LEMMA PublishPolicyBlockedIInv ==
    ASSUME IInv, NEW w \in Workers, PublishPolicyBlocked(w)
    PROVE  IInv'
<1>1. /\ Publish(w, "policy_blocked", None, {}) /\ answer' = Idle
      /\ UNCHANGED <<installed, objects, egress, now>>
  BY DEF PublishPolicyBlocked, Forget
<1>2. work[w] \in Work
  BY BusyWork DEF PublishPolicyBlocked, Ingesting, IInv
<1>3. None \in Checkpoints /\ "policy_blocked" \in Refusals \cup Kept \cup {"policy_blocked"}
  BY DEF Checkpoints
<1> QED
  BY <1>1, <1>2, <1>3, PublishStep

LEMMA LoadRefusedIInv ==
    ASSUME IInv, NEW w \in Workers, NEW status \in Refusals, LoadRefused(w, status)
    PROVE  IInv'
<1>1. /\ Publish(w, status, None, {}) /\ answer' = Idle
      /\ UNCHANGED <<installed, objects, egress, now>>
  BY DEF LoadRefused, Forget
<1>2. work[w] \in Work
  BY BusyWork DEF LoadRefused, Ingesting, IInv
<1>3. None \in Checkpoints /\ status \in Refusals \cup Kept \cup {"policy_blocked"}
  BY DEF Checkpoints
<1> QED
  BY <1>1, <1>2, <1>3, PublishStep

LEMMA PublishPartitionIInv ==
    ASSUME IInv, NEW w \in Workers, PublishPartition(w)
    PROVE  IInv'
<1> DEFINE after == work[w].revision
           status == IF work[w].good THEN "published" ELSE "quarantined"
           made == Receipts(w) \cup Versions(w)
<1>1. /\ Publish(w, status, after, made) /\ answer' = Idle
      /\ UNCHANGED <<installed, objects, egress, now>>
      /\ work[w].stage = "loaded" /\ work[w].todo = {}
  BY DEF PublishPartition, Forget, Ingesting
<1>2. work[w] \in Work
  BY <1>1, BusyWork DEF IInv
<1>3. /\ after \in Revisions
      /\ {"raw", "member"} \X {after} \subseteq objects
      /\ work[w].good => <<"normalized", after>> \in objects
  BY <1>1 DEF IInv, WorkersOK, WorkOK
<1>4. /\ <<"retrieval_receipt", after>> \in made
      /\ status = "published" => /\ work[w].good
                                /\ <<"dataset_version", after>> \in made
  BY DEF Receipts, Versions
<1>5. after \in Checkpoints /\ status \in Refusals \cup Kept \cup {"policy_blocked"}
  BY <1>3 DEF Checkpoints, Kept
<1> HIDE DEF made, status, after
<1> QED
  BY <1>1, <1>2, <1>3, <1>4, <1>5, PublishStep

\* The command ends without a row.
LEMMA EndIInv ==
    ASSUME IInv, NEW w \in Workers, CheckpointMismatch(w) \/ Die(w)
    PROVE  IInv'
<1>1. /\ work' = [work EXCEPT ![w] = Idle] /\ answer' = Idle
      /\ UNCHANGED <<now, installed, rows, artifacts, objects, egress>>
  BY DEF CheckpointMismatch, Die, Forget, durable
<1>2. WorkOK(Idle)' /\ LiveCallsAreGranted'
  BY <1>1 DEF WorkOK, Idle, IInv, LiveCallsAreGranted
<1> QED
  BY <1>1, <1>2, WorkStep

LEMMA ContinueFromCheckpointIInv ==
    ASSUME IInv, NEW w \in Workers, ContinueFromCheckpoint(w)
    PROVE  IInv'
<1> DEFINE loading == [work[w] EXCEPT !.stage = "loading"]
<1>1. work[w] \in Work /\ work[w].stage = "authorized"
  BY BusyWork DEF ContinueFromCheckpoint, Ingesting, IInv
<1>2. loading \in Work /\ loading.stage = "loading"
  BY <1>1 DEF Work, Stages
<1>3. /\ work' = [work EXCEPT ![w] = loading] /\ answer' = Idle
      /\ UNCHANGED <<now, installed, rows, artifacts, objects>>
      /\ egress' = IF work[w].decision.mode = "live_provider"
                   THEN egress \cup {work[w].decision} ELSE egress
  BY DEF ContinueFromCheckpoint, Forget, IInv, Typed
<1>4. LiveCallsAreGranted'
  BY <1>1, <1>3 DEF IInv, WorkersOK, WorkOK, Granted, LiveCallsAreGranted
<1> HIDE DEF loading
<1>5. PICK k \in Work : k = loading /\ k.stage = "loading"
  BY <1>2
<1>6. WorkOK(k)'
  BY <1>5 DEF WorkOK
<1> QED
  BY <1>3, <1>4, <1>5, <1>6, WorkStep

LEMMA LoadIInv ==
    ASSUME IInv, NEW w \in Workers, NEW r \in Revisions, NEW good \in BOOLEAN,
           Load(w, r, good)
    PROVE  IInv'
<1> DEFINE parts == {<<"raw", r>>, <<"member", r>>}
                      \cup (IF good THEN {<<"normalized", r>>} ELSE {})
           loaded == [work[w] EXCEPT !.stage = "loaded", !.revision = r,
                                     !.good = good, !.todo = parts]
<1>1. work[w] \in Work
  BY BusyWork DEF Load, Ingesting, IInv
<1>2. /\ parts \in SUBSET ({"raw", "member", "normalized"} \X Revisions)
      /\ {"raw", "member"} \X {r} \subseteq parts
      /\ good => <<"normalized", r>> \in parts
  OBVIOUS
<1>3. /\ work' = [work EXCEPT ![w] = loaded] /\ answer' = Idle
      /\ UNCHANGED <<now, installed, rows, artifacts, objects, egress>>
  BY DEF Load, Forget, durable, IInv, Typed
<1> HIDE DEF parts
<1>4. /\ loaded \in Work /\ loaded.stage = "loaded" /\ loaded.revision = r
      /\ loaded.good = good /\ loaded.todo = parts
  BY <1>1, <1>2 DEF Work, Stages, Checkpoints
<1> HIDE DEF loaded
<1>5. PICK k \in Work : /\ k = loaded /\ k.stage = "loaded" /\ k.revision = r
                        /\ k.good = good /\ k.todo = parts
  BY <1>4
<1>6. WorkOK(k)'
  BY <1>2, <1>5 DEF WorkOK
<1>7. LiveCallsAreGranted'
  BY <1>3 DEF IInv, LiveCallsAreGranted
<1> QED
  BY <1>3, <1>5, <1>6, <1>7, WorkStep

LEMMA PutVerifiedIInv ==
    ASSUME IInv, NEW w \in Workers, PutVerified(w)
    PROVE  IInv'
<1>1. PICK o : /\ objects' = objects \cup {o}
               /\ work' = [work EXCEPT ![w].todo = @ \ {o}]
  BY DEF PutVerified
<1> DEFINE stored == [work[w] EXCEPT !.todo = @ \ {o}]
<1>2. work[w] \in Work /\ work[w].stage = "loaded"
  BY BusyWork DEF PutVerified, Ingesting, IInv
<1>3. /\ stored \in Work /\ stored.stage = "loaded" /\ stored.revision = work[w].revision
      /\ stored.good = work[w].good /\ stored.todo = work[w].todo \ {o}
  BY <1>2 DEF Work
<1>4. /\ work' = [work EXCEPT ![w] = stored] /\ answer' = Idle
      /\ UNCHANGED <<now, installed, rows, artifacts, egress>>
  BY <1>1 DEF PutVerified, Forget, IInv, Typed
<1> HIDE DEF stored
<1>5. PICK k \in Work : /\ k = stored /\ k.stage = "loaded"
                        /\ k.revision = work[w].revision
                        /\ k.good = work[w].good /\ k.todo = work[w].todo \ {o}
  BY <1>3
<1>6. WorkOK(k)'
  <2>1. /\ work[w].revision \in Revisions
        /\ {"raw", "member"} \X {work[w].revision} \subseteq objects \cup work[w].todo
        /\ work[w].good => <<"normalized", work[w].revision>> \in objects \cup work[w].todo
    BY <1>2 DEF IInv, WorkersOK, WorkOK
  <2>2. objects \cup work[w].todo \subseteq objects' \cup k.todo
    BY <1>1, <1>5
  <2>3. /\ k.revision \in Revisions
        /\ {"raw", "member"} \X {k.revision} \subseteq objects' \cup k.todo
        /\ k.good => <<"normalized", k.revision>> \in objects' \cup k.todo
    BY <1>5, <2>1, <2>2
  <2> QED
    BY <1>5, <2>3 DEF WorkOK
<1>7. LiveCallsAreGranted' /\ objects \subseteq objects'
  BY <1>1, <1>4 DEF IInv, LiveCallsAreGranted
<1> QED
  BY <1>4, <1>5, <1>6, <1>7, WorkStep

-----------------------------------------------------------------------------
(* The other steps.                                                        *)

\* Nothing but the clock and the installed sets moves.
LEMMA StillStep ==
    ASSUME IInv, now' \in 0..Horizon, InstalledOK',
           UNCHANGED <<rows, artifacts, objects, egress, work>>, QualifiedIsUsable'
    PROVE  IInv'
<1>1. Typed' /\ CheckpointBacked' /\ LiveCallsAreGranted'
  BY DEF IInv, Typed, CheckpointBacked, LiveCallsAreGranted
<1>2. WorkersOK'
  BY DEF IInv, WorkersOK, WorkOK, Granted
<1> QED
  BY <1>1, <1>2 DEF IInv

LEMMA TickIInv ==
    ASSUME IInv, Tick
    PROVE  IInv'
<1>1. now' \in 0..Horizon
  BY SupplyAssumption DEF Tick, IInv, Typed
<1>2. InstalledOK' /\ QualifiedIsUsable'
  BY IdleWork DEF Tick, Forget, durable, IInv, InstalledOK, QualifiedIsUsable
<1> QED
  BY <1>1, <1>2, StillStep DEF Tick, durable

LEMMA InitializeIInv ==
    ASSUME IInv, NEW name \in Names, NEW a \in Adapters, NEW both \in BOOLEAN,
           Initialize(name, a, both)
    PROVE  IInv'
<1>1. /\ installed' = installed \cup {<<name, Reader.principal>>}
                        \cup (IF both THEN {<<name, a.principal>>} ELSE {})
      /\ both /\ name = "qualified" => Qualifies(a)
      /\ answer' = Idle
      /\ UNCHANGED <<now, rows, artifacts, objects, egress, work>>
  BY DEF Initialize, Installable, Buildable, Forget
<1>2. \A x \in Adapters : x.principal # Reader.principal
  BY SupplyAssumption
<1>3. InstalledOK'
  <2>1. \A i \in installed' : i[1] \in Names
    BY <1>1 DEF IInv, InstalledOK
  <2>2. ASSUME NEW n \in Names, NEW x \in Adapters, <<n, x.principal>> \in installed',
               n = "qualified"
        PROVE  \E id \in Adapters : id.principal = x.principal /\ Qualifies(id)
    <3>1. CASE <<n, x.principal>> \in installed
      BY <2>2, <3>1 DEF IInv, InstalledOK
    <3>2. CASE <<n, x.principal>> \notin installed
      <4>1. both /\ n = name /\ x.principal = a.principal
        BY <1>1, <1>2, <2>2, <3>2
      <4> QED
        BY <1>1, <2>2, <4>1
    <3> QED
      BY <3>1, <3>2
  <2> QED
    BY <2>1, <2>2 DEF InstalledOK
<1>4. QualifiedIsUsable' /\ now' \in 0..Horizon
  BY <1>1, IdleWork DEF QualifiedIsUsable, IInv, Typed
<1> QED
  BY <1>1, <1>3, <1>4, StillStep

-----------------------------------------------------------------------------
(* The answer to a query.                                                  *)

\* Rights that hold at t: the prior decision's own window is open, and the set
\* they are resolved in has a policy of the distribution.
LEMMA RightsNow ==
    ASSUME NEW prior, NEW d \in Distributions, NEW sets, NEW subjects, NEW environment,
           NEW t \in Nat, prior.at \in Nat, prior.until \in Nat,
           NEW name \in SetNames, \A s \in sets : \E id : s = Build(name, id),
           CurrentRights(prior, d, sets, subjects, environment, t).allowed
    PROVE  /\ prior.at <= t /\ t < prior.until
           /\ name \in {"engineering", "qualified"}
           /\ name = "engineering" => prior.mode = "engineering_double"
<1> DEFINE set == CHOOSE s \in sets : TRUE
           subject == CHOOSE s \in subjects : TRUE
           intent == CollectIntent(d, environment, prior.distribution, prior.mode, t)
           rights == ResolveRights(set, prior.principal, intent, subject.classes,
                                   subject.classification)
           checks == <<
             <<"source_rights_prior_evidence_mismatch", ~PriorMatches(prior, d)>>,
             <<"source_rights_prior_evidence_invalid",
                 prior.until <= prior.at \/ prior.at > t>>,
             <<"source_rights_subject_attributes_invalid",
                 SubjectDenied(subject, prior, environment, t)>>,
             <<"source_workload_evidence_expired", t >= prior.until>>,
             <<rights.reason, rights.reason # "authorized">> >>
<1>1. sets # {} /\ Reason(checks) = "authorized"
  <2>1. sets # {} /\ subjects # {}
    BY DEF CurrentRights, Denied
  <2> QED
    BY <2>1 DEF CurrentRights
<1>2. set \in sets
  BY <1>1
<1>3. PICK id : set = Build(name, id)
  BY <1>2
<1>4. intent.action = Collect /\ intent.dataset = d /\ intent.mode = prior.mode
  BY DEF CollectIntent
<1> HIDE DEF set, subject, intent, rights
<1>5. DOMAIN checks = 1..5
  OBVIOUS
<1>6. /\ checks[1][1] # "authorized" /\ checks[2][1] # "authorized"
      /\ checks[3][1] # "authorized" /\ checks[4][1] # "authorized"
      /\ checks[5][1] = rights.reason
      /\ checks[2][2] <=> (prior.until <= prior.at \/ prior.at > t)
      /\ checks[4][2] <=> t >= prior.until
      /\ checks[5][2] <=> rights.reason # "authorized"
  OBVIOUS
<1> HIDE DEF checks
<1>7. \A i \in DOMAIN checks : checks[i][2] => checks[i][1] # "authorized"
  <2>1. \A i \in 1..5 : i = 1 \/ i = 2 \/ i = 3 \/ i = 4 \/ i = 5
    OBVIOUS
  <2> QED
    BY <1>5, <1>6, <2>1
<1>8. NoneHolds(checks)
  <2>1. FirstOf(checks, "authorized") = "authorized"
    BY <1>1 DEF Reason
  <2> QED
    BY <1>5, <1>7, <2>1, OtherwisePasses
<1>9. prior.at <= t /\ t < prior.until /\ rights.reason = "authorized"
  <2>1. ~checks[2][2] /\ ~checks[4][2] /\ ~checks[5][2]
    BY <1>5, <1>8 DEF NoneHolds
  <2> QED
    BY <1>6, <2>1
<1> DEFINE policies == LiveVersions(PoliciesOf(set, intent.dataset), intent.at)
<1>10. /\ policies # {}
       /\ \A p \in policies :
             p.access = "engineering_contract" => intent.mode = "engineering_double"
  BY <1>4, <1>9, RightsGranted DEF rights
<1>11. policies \subseteq PoliciesOf(Build(name, id), d)
  BY <1>3, <1>4 DEF LiveVersions
<1> HIDE DEF policies
<1>12. PICK p \in policies : TRUE
  BY <1>10
<1>13. /\ name \in {"engineering", "qualified"}
       /\ name = "engineering" => p.access = "engineering_contract"
  BY <1>11, <1>12, DistributionPolicies, CollectPolicyFields
<1> QED
  BY <1>4, <1>9, <1>10, <1>12, <1>13

\* A listing is qualified only when no check of its status holds.
LEMMA QualifiedStatus ==
    ASSUME NEW found, NEW withdrawn \in BOOLEAN, NEW valid \in BOOLEAN,
           NEW evidence \in BOOLEAN,
           ListingStatus(found, withdrawn, valid, evidence) = "qualified"
    PROVE  /\ ~withdrawn /\ {r.feed : r \in found} = Feeds
           /\ \A r \in found : r.status \notin {"policy_blocked", "credential_required",
                                 "unavailable", "deferred", "quarantined"}
<1> DEFINE has(status) == \E r \in found : r.status = status
           checks == << <<"policy_blocked", withdrawn \/ has("policy_blocked")>>,
                   <<"credential_required", ~valid \/ has("credential_required")>>,
                   <<"unavailable", has("unavailable")>>,
                   <<"deferred", has("deferred")>>,
                   <<"policy_blocked", {r.feed : r \in found} # Feeds>>,
                   <<"quarantined", has("quarantined")>>,
                   <<"policy_blocked", ~evidence>> >>
<1>1. FirstOf(checks, "qualified") = "qualified"
  BY DEF ListingStatus
<1> HIDE DEF has
<1>2. DOMAIN checks = 1..7
  OBVIOUS
<1>3. /\ checks[1][1] # "qualified" /\ checks[2][1] # "qualified"
      /\ checks[3][1] # "qualified" /\ checks[4][1] # "qualified"
      /\ checks[5][1] # "qualified" /\ checks[6][1] # "qualified"
      /\ checks[7][1] # "qualified"
  OBVIOUS
<1>4. /\ checks[1][2] <=> withdrawn \/ has("policy_blocked")
      /\ checks[2][2] <=> ~valid \/ has("credential_required")
      /\ checks[3][2] <=> has("unavailable")
      /\ checks[4][2] <=> has("deferred")
      /\ checks[5][2] <=> {r.feed : r \in found} # Feeds
      /\ checks[6][2] <=> has("quarantined")
  BY DEF has
<1> HIDE DEF checks
<1>5. \A i \in DOMAIN checks : checks[i][2] => checks[i][1] # "qualified"
  <2>1. \A i \in 1..7 : \/ i = 1 \/ i = 2 \/ i = 3 \/ i = 4 \/ i = 5 \/ i = 6 \/ i = 7
    OBVIOUS
  <2> QED
    BY <1>2, <1>3, <2>1
<1>6. NoneHolds(checks)
  BY <1>1, <1>2, <1>5, OtherwisePasses
<1>7. /\ ~checks[1][2] /\ ~checks[2][2] /\ ~checks[3][2] /\ ~checks[4][2]
      /\ ~checks[5][2] /\ ~checks[6][2]
  BY <1>2, <1>6 DEF NoneHolds
<1> QED
  BY <1>4, <1>7 DEF has

\* The newest row of a feed is a row.
LEMMA LatestRows ==
    ASSUME NEW ledger \in Seq(RowType), NEW r \in Latest(ledger)
    PROVE  r \in RowType
<1>1. PICK f \in {ledger[i].feed : i \in DOMAIN ledger} :
          r = ledger[Max({i \in DOMAIN ledger : ledger[i].feed = f})]
  BY DEF Latest
<1> DEFINE S == {i \in DOMAIN ledger : ledger[i].feed = f}
<1>2. Len(ledger) \in Nat /\ DOMAIN ledger = 1..Len(ledger)
  BY LenProperties
<1>3. S # {} /\ S \in SUBSET (1..Len(ledger))
  BY <1>2
<1> HIDE DEF S
<1>4. Max(S) \in 1..Len(ledger)
  BY <1>2, <1>3, MaxIn
<1> QED
  BY <1>1, <1>2, <1>4, ElementOfSeq DEF S

LEMMA GetListingIInv ==
    ASSUME IInv, NEW name \in Names, NEW a \in Adapters, GetListing(name, a)
    PROVE  IInv'
<1> DEFINE found == Latest(rows)
           withdrawn == \E r \in found : Withdrawn(r, name, a, now)
<1>1. PICK valid \in BOOLEAN, evidence \in BOOLEAN :
          answer' = [stage |-> ListingStatus(found, withdrawn, valid, evidence),
                     name |-> name, at |-> now, rows |-> found]
  BY DEF GetListing
<1>2. UNCHANGED <<now, installed, rows, artifacts, objects, egress, work>>
  BY DEF GetListing, durable
<1>3. name \in SetNames /\ now \in Nat
  BY SetBuilt, SupplyAssumption DEF IInv, Typed
<1>4. \A r \in found : r \in RowType
  BY LatestRows DEF IInv, Typed
<1>5. \A r \in found : ~Withdrawn(r, name, a, now) /\ r.status # "policy_blocked" =>
          /\ r.decision.at <= now /\ now < r.decision.until
          /\ name \in {"engineering", "qualified"}
          /\ name = "engineering" => r.decision.mode = "engineering_double"
  <2> SUFFICES ASSUME NEW r \in found, ~Withdrawn(r, name, a, now),
                      r.status # "policy_blocked"
               PROVE  /\ r.decision.at <= now /\ now < r.decision.until
                      /\ name \in {"engineering", "qualified"}
                      /\ name = "engineering" => r.decision.mode = "engineering_double"
    OBVIOUS
  <2> DEFINE sets == {Sets[name][id] : id \in {x \in Identities :
                         x.principal = r.decision.principal
                           /\ <<name, x.principal>> \in installed}}
             subjects == Subject(r.decision.principal, a)
  <2>1. CurrentRights(r.decision, Primary, sets, subjects, Reader.environment, now).allowed
    BY DEF Withdrawn, RowRights
  <2>2. \A s \in sets : \E id : s = Build(name, id)
    BY SetBuilt DEF Identities
  <2>3. r.decision.at \in Nat /\ r.decision.until \in Nat
    BY <1>4, DecisionAt DEF RowType
  <2>4. Primary \in Distributions
    BY SupplyAssumption
  <2> HIDE DEF sets, subjects
  <2> QED
    BY <1>3, <2>1, <2>2, <2>3, <2>4, RightsNow
<1> HIDE DEF found
<1>6. QualifiedIsUsable'
  <2> SUFFICES ASSUME answer'.stage = "qualified"
               PROVE  /\ {r.feed : r \in answer'.rows} = Feeds
                      /\ \A r \in answer'.rows :
                           /\ r.status = "published"
                           /\ r.decision.at <= answer'.at /\ answer'.at < r.decision.until
                           /\ answer'.name \in {"engineering", "qualified"}
                           /\ answer'.name = "engineering" =>
                                  r.decision.mode = "engineering_double"
    BY DEF QualifiedIsUsable
  <2> HIDE DEF withdrawn
  <2>1. ListingStatus(found, withdrawn, valid, evidence) = "qualified"
    BY <1>1
  <2>2. /\ ~withdrawn /\ {r.feed : r \in found} = Feeds
        /\ \A r \in found : r.status \notin {"policy_blocked", "credential_required",
                              "unavailable", "deferred", "quarantined"}
    <3>1. withdrawn \in BOOLEAN
      BY DEF withdrawn
    <3> QED
      BY <2>1, <3>1, QualifiedStatus
  <2>3. \A r \in found : r.status = "published"
    BY <1>4, <2>2 DEF RowType, Refusals, Kept
  <2>4. \A r \in found : ~Withdrawn(r, name, a, now)
    BY <2>2 DEF withdrawn
  <2>5. answer'.name = name /\ answer'.at = now /\ answer'.rows = found
    BY <1>1
  <2> QED
    BY <1>5, <2>2, <2>3, <2>4, <2>5
<1>7. InstalledOK' /\ now' \in 0..Horizon
  BY <1>2 DEF IInv, InstalledOK, Typed
<1> QED
  BY <1>2, <1>6, <1>7, StillStep

-----------------------------------------------------------------------------
(* The theorems.                                                           *)

LEMMA InitIInv == Init => IInv
<1> SUFFICES ASSUME Init PROVE IInv
  OBVIOUS
<1>1. Typed
  BY SupplyAssumption, EmptySeq DEF Init, Typed
<1>2. InstalledOK /\ CheckpointBacked /\ LiveCallsAreGranted
  BY DEF Init, InstalledOK, CheckpointBacked, LiveCallsAreGranted
<1>3. WorkersOK /\ QualifiedIsUsable
  BY IdleWork DEF Init, WorkersOK, QualifiedIsUsable
<1> QED
  BY <1>1, <1>2, <1>3 DEF IInv

LEMMA StutterIInv ==
    ASSUME IInv, UNCHANGED vars
    PROVE  IInv'
<1>1. /\ UNCHANGED <<now, installed, rows, artifacts, objects, egress, work, answer>>
  BY DEF vars
<1>2. InstalledOK' /\ QualifiedIsUsable' /\ now' \in 0..Horizon
  BY <1>1 DEF IInv, InstalledOK, QualifiedIsUsable, Typed
<1> QED
  BY <1>1, <1>2, StillStep

LEMMA NextIInv == IInv /\ [Next]_vars => IInv'
<1> SUFFICES ASSUME IInv, [Next]_vars PROVE IInv'
  OBVIOUS
<1>1. CASE Tick
  BY <1>1, TickIInv
<1>2. CASE \E name \in Names, a \in Adapters, both \in BOOLEAN : Initialize(name, a, both)
  BY <1>2, InitializeIInv
<1>3. ASSUME NEW w \in Workers,
             \/ \E name \in Names, id \in Adapters, c \in Commands, expected \in Expectable :
                  Begin(w, name, id, c, expected)
             \/ PublishPolicyBlocked(w)
             \/ CheckpointMismatch(w)
             \/ ContinueFromCheckpoint(w)
             \/ \E status \in Refusals : LoadRefused(w, status)
             \/ \E r \in Revisions, good \in BOOLEAN : Load(w, r, good)
             \/ PutVerified(w)
             \/ PublishPartition(w)
             \/ Die(w)
      PROVE  IInv'
  BY <1>3, BeginIInv, PublishPolicyBlockedIInv, EndIInv, ContinueFromCheckpointIInv,
     LoadRefusedIInv, LoadIInv, PutVerifiedIInv, PublishPartitionIInv
<1>4. CASE \E name \in Names, a \in Adapters : GetListing(name, a)
  BY <1>4, GetListingIInv
<1>5. CASE UNCHANGED vars
  BY <1>5, StutterIInv
<1> QED
  BY <1>1, <1>2, <1>3, <1>4, <1>5 DEF Next

LEMMA Invariance == Spec => []IInv
<1> QED
  BY InitIInv, NextIInv, PTL DEF Spec

\* Whatever process died where, a checkpoint is never ahead of its objects:
\* materialize stores the partition before the row that moves the checkpoint.
THEOREM CheckpointsBacked == Spec => []CheckpointBacked
<1>1. IInv => CheckpointBacked
  BY DEF IInv
<1> QED
  BY <1>1, Invariance, PTL

\* materialize calls a live provider only under the basis the providers' own
\* answers gave, with whatever policy set the worker was started.
THEOREM LiveCallsGranted == Spec => []LiveCallsAreGranted
<1>1. IInv => LiveCallsAreGranted
  BY DEF IInv
<1> QED
  BY <1>1, Invariance, PTL

\* What get_listing calls qualified may be used at the time of the answer.
THEOREM QualifiedUsable == Spec => []QualifiedIsUsable
<1>1. IInv => QualifiedIsUsable
  BY DEF IInv
<1> QED
  BY <1>1, Invariance, PTL

================================================================================
