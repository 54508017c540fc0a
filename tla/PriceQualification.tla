-------------------------- MODULE PriceQualification --------------------------
(***************************************************************************)
(* TaiwanPriceQualificationWorkflow beside the historical evidence         *)
(* workflow: the evidence of a source's terms, the formal gate over a      *)
(* claim and that evidence, and whether a query may call the published     *)
(* history formally qualified.  The manifest's own source archive is one   *)
(* object, put there before.                                               *)
(***************************************************************************)
EXTENDS HistoricalEvidence

CONSTANTS
    TermsContents,   \* documents that can be handed in as a source's terms
    Archive,         \* the archived selection sources of the manifest
    ManifestUrls     \* [access -> distributions the manifest lists for it]

ASSUME QualificationAssumption ==
    /\ Archive \notin Contents \cup TermsContents
    /\ \A p \in Policies : p.access \in DOMAIN ManifestUrls
    \* An id is the hash of its policy; those of one basis share its terms.
    /\ \A p, q \in Policies :
          q.id \in p.members => q.access = p.access /\ q.terms = p.terms

VARIABLES
    bases,   \* source basis evidence: [access, policies, terms, urls]
    gates    \* taiwan_price_qualification_gate, in sequence

vars == <<clock, policy, store, receipts, drawn, attestations, verifications, judges,
          claims, derived, reports, impacts, work, begun, setting, bases, gates>>

Init ==
    /\ setting \in Settings
    /\ clock = 0 /\ policy \in setting.policies
    /\ store = [o \in Contents \cup TermsContents \cup {Archive} |->
                    IF o = Archive THEN "intact" ELSE "absent"]
    /\ receipts = <<>> /\ drawn = 0 /\ reports = <<>> /\ impacts = <<>> /\ gates = <<>>
    /\ attestations = {} /\ verifications = {} /\ judges = {} /\ claims = {}
    /\ derived = {} /\ bases = {}
    /\ work = [t \in Traces |-> Idle] /\ begun = 0

Intact(object) == store[object] = "intact"

\* register_open_data_source_basis_evidence and its zero-fee counterpart: the
\* terms handed in are those the policy in force pins.
RegisterBasis(principal, terms) ==
    /\ setting.gates > 0
    /\ Authorized(Governors, principal)
    /\ policy.access \in {"open_data_terms", "zero_fee_plan"}
    /\ ToSet(policy.urls) = ManifestUrls[policy.access]
    /\ terms = policy.terms
    /\ store' = Stored({terms})
    /\ bases' = bases \cup {[access |-> policy.access, policies |-> policy.members,
                             terms |-> terms, urls |-> ToSet(policy.urls)]}
    /\ UNCHANGED <<clock, policy, receipts, drawn, attestations, verifications, judges,
                   claims, derived, reports, impacts, work, begun, setting, gates>>

\* _validate_source_basis_evidence without, and with, an authorization.
BasisHolds(basis) ==
    basis \in bases /\ Intact(basis.terms) /\ basis.urls = ManifestUrls[basis.access]

BasisInForce(basis) ==
    /\ policy.access = basis.access
    /\ policy.id \in basis.policies
    /\ policy.terms = basis.terms
    /\ ToSet(policy.urls) = basis.urls

\* Mutant: any usable claim will do.
BasisCoversAny(basis, claim) == basis \in bases

\* The claim was qualified under a policy this evidence is about.
BasisCovers(basis, claim) == claim.verification.attestation.policy.id \in basis.policies

RegisterGate(t, principal, claim, basis) ==
    /\ Len(gates) < setting.gates
    /\ Authorized(Governors, principal)
    /\ Intact(Archive)
    /\ IsFormallyReconstructable(claim, clock)
    /\ BasisHolds(basis) /\ BasisInForce(basis) /\ BasisCovers(basis, claim)
    /\ gates' = Referenced(gates, [trace |-> t, claim |-> claim, basis |-> basis])
    /\ UNCHANGED <<clock, policy, store, receipts, drawn, attestations, verifications,
                   judges, claims, derived, reports, impacts, work, begun, setting, bases>>

\* formal_qualification_available of the manifest that the latest gate
\* completes, for a published history that names the claim served; at is None
\* for a workflow that was given no clock.
FormalQualificationAvailable(served, at) ==
    /\ gates # <<>> /\ at # None
    /\ LET gate == Last(gates)
       IN  /\ served = gate.claim
           /\ Intact(Archive)
           /\ IsFormallyReconstructable(gate.claim, at)
           /\ BasisHolds(gate.basis) /\ BasisCovers(gate.basis, gate.claim)

\* The eligibility query composes the workflow without a clock.
QueryClock == None

Next ==
    \/ EvidenceNext /\ UNCHANGED <<setting, bases, gates>>
    \/ \E principal \in Principals, terms \in TermsContents : RegisterBasis(principal, terms)
    \/ \E t \in setting.traces, principal \in Principals, claim \in claims, basis \in bases :
           RegisterGate(t, principal, claim, basis)

Spec == Init /\ [][Next]_vars

-----------------------------------------------------------------------------
(* Properties *)

\* An insert of the same observation drew a lower place and has not committed.
Outstanding(i) ==
    \E t \in Traces : /\ work[t].job = "commit" /\ work[t].place < i
                      /\ SameObservation(Receipt(t), receipts[i])

\* An issuer read another receipt as the first, and has not attested it yet.
OtherwiseRead(i) ==
    \E t \in Traces : /\ work[t].job = "attest" /\ work[t].place # i
                      /\ SameObservation(receipts[work[t].place], receipts[i])

\* The i-th receipt is the first of its observation, none can come before, and
\* nobody takes another one for it.
Settled(i) ==
    /\ i \in DOMAIN receipts
    /\ ~\E j \in DOMAIN receipts : j < i /\ SameObservation(receipts[j], receipts[i])
    /\ ~Outstanding(i) /\ ~OtherwiseRead(i)

\* While inserts of one content at one distribution overlap, issuers may read
\* different receipts as its first.  Once none with a lower place is open, and
\* no issuer has yet to attest another that it read, the first is settled for
\* good: whatever issuers do from then on, with clocks that lag, repeated
\* commands or commands that die between insert and commit, every attestation
\* names it; none ever names a receipt that was rolled back, or one later than
\* itself (find_first_source_retrieval_receipt, issue).
FirstObservationSettles ==
    [][/\ \A i \in DOMAIN receipts : Settled(i) => Settled(i)'
       /\ \A a \in attestations' \ attestations :
             /\ a.receipt \in Range(receipts) /\ a.receipt.at <= a.at
             /\ \A i \in DOMAIN receipts :
                   (Settled(i) /\ SameObservation(a.receipt, receipts[i]))
                       => a.receipt = receipts[i]]_vars

\* A listing the projection shows as qualified has, at that moment, a claim
\* the verifier accepts, every artifact its report names, and mature labels at
\* the exact endpoints of every horizon: the two readers of the ledger agree
\* while commands are half way and after processes died
\* (historical_qualification_projections, is_usable, _build_reconstruction).
ShownQualifiedIsWhole ==
    \A listing \in Listings :
        LET shown == Shown(listing, clock)
        IN  shown.status = "qualified" =>
                /\ IsUsable(shown.claim, clock)
                /\ \A kind \in ToSet(DerivedKinds) : <<kind, shown.claim>> \in derived
                /\ \A h \in Horizons : LabelStatus(Evidence(shown.claim), h) = "mature"

JudgesOf(claim) == {p \in Principals : <<claim.verification, p>> \in judges}

\* Formal use is earned under one policy from collection to gate: the claim a
\* history may formally be used under was qualified from evidence collected
\* under terms that the gate's basis archives, never under an engineering
\* contract's, and of those the audit says judged it none collected it
\* (_validated_evidence, _validate_source_basis_evidence,
\* formal_qualification_available).
FormalUseIsEarned ==
    \A claim \in claims :
        FormalQualificationAvailable(claim, clock) =>
            LET attestation == claim.verification.attestation
            IN  /\ attestation.policy.access \in {"open_data_terms", "zero_fee_plan"}
                /\ attestation.policy.terms = Last(gates).basis.terms
                /\ Exclusions(attestation.evidence) = {}
                /\ ~\E i \in DOMAIN impacts : impacts[i].prior = claim
                /\ JudgesOf(claim) # {} /\ attestation.collector \notin JudgesOf(claim)

\* A claim whose time had come and that stopped counting never counts again:
\* not when what replaced it is itself revoked, not when a dead command's work
\* is repeated, nor when the policy of its evidence is put in force again
\* (is_usable over the append-only impacts).
EndedStaysEnded ==
    [][\A claim \in claims :
          (clock >= Evidence(claim).from /\ ~IsUsable(claim, clock)
              /\ "historical_reconstruction" \in claim.verification.scope)
          => ~IsUsable(claim, clock)']_vars

\* What the workflow with a clock calls available the eligibility query calls
\* available too.
QueryAgrees ==
    \A claim \in claims :
        FormalQualificationAvailable(claim, clock)
            => FormalQualificationAvailable(claim, QueryClock)
=============================================================================
