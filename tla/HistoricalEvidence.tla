-------------------------- MODULE HistoricalEvidence --------------------------
(***************************************************************************)
(* HistoricalEvidenceAttestationIssuer, HistoricalEvidenceWorkflow, the    *)
(* claim verifier and the qualification projection, over one database and  *)
(* one object repository.  A trace is a command in progress; any number    *)
(* run at once, each artifact is published in a transaction of its own,    *)
(* and a process may stop between two of them.                             *)
(*                                                                         *)
(* An artifact's id is the hash of its content, so artifacts are sets of   *)
(* contents; where the code reads the references to artifacts of a kind in *)
(* their order their place is kept, and their trace.  The database draws   *)
(* the place of a reference when the row is inserted and shows it when the *)
(* transaction commits: for receipts, where the first one matters, these   *)
(* are two steps.  Reports and impacts take place and appear in one; what  *)
(* is stated of them holds of every entry, wherever it stands.             *)
(*                                                                         *)
(* Every artifact derived from a claim has its content fixed by the claim: *)
(* derived holds <<kind, claim>>.  One source.  Of the audit records only  *)
(* those of the principals that judged a verification are kept.            *)
(***************************************************************************)
EXTENDS HistoricalDocuments

CONSTANTS
    Traces,        \* command traces
    Listings,
    Submissions,   \* [evidence, calendar, reference], documents there are
    Policies,      \* source policies that may be in force
    Principals,
    Collectors,    \* principals granted market_data.collect
    Governors,     \* principals granted price_qualification.govern
    ComposedAt,    \* bound: times workflows are composed at
    Horizon,       \* bound: ticks of the clock
    Settings,      \* bounds of a behaviour, see setting
    None

Contents == UNION {{d.evidence, d.calendar, d.reference} : d \in Submissions}

ASSUME HistoryAssumption ==
    /\ Collectors \subseteq Principals /\ Governors \subseteq Principals
    /\ \A p \in Policies : p.urls # <<>> /\ p.id \in p.members
    /\ \A d \in Submissions :
          LET e == d.evidence
          IN  e.listing \in Listings /\ {e.from, e.observed, e.until} \subseteq Nat
    /\ ComposedAt \subseteq Nat /\ Horizon \in Nat
    /\ None \notin Policies \cup Listings
    /\ \A s \in Settings : /\ s.traces \subseteq Traces
                          /\ s.documents \subseteq Submissions
                          /\ s.policies \subseteq Policies \cup {None}

VARIABLES
    clock,
    policy,         \* the one source policy in force, None when there is not one
    store,          \* [object -> "absent" | "intact" | "altered" | "lost"]
    receipts,       \* source_retrieval_receipt by sequence number, committed
    drawn,          \* the last sequence number drawn for a receipt
    attestations,
    verifications,
    judges,         \* <<verification, principal>>, of the audit
    claims,
    derived,        \* <<kind, claim>>: artifacts of the reconstructions
    reports,        \* historical_qualification_report, in sequence
    impacts,        \* historical_claim_impact, in sequence
    work,           \* [trace]: the command it runs
    begun,          \* commands begun
    setting         \* [traces that are used, documents collected, policies
                    \* deployed, objects whose file may change or disappear,
                    \* commands and gates at most, no source basis without
                    \* a gate]

Idle == [job |-> "idle"]
\* A trace that runs nothing begins a command.
Begins(t) ==
    /\ work[t] = Idle
    /\ begun < setting.commands
    /\ begun' = begun + 1

DerivedKinds == <<"dataset", "adjustment", "labels", "features", "folds">>

\* _publish_trace_artifact: one reference for a trace and a content.
Referenced(log, entry) == IF entry \in ToSet(log) THEN log ELSE Append(log, entry)

Evidence(claim) == claim.verification.attestation.evidence

-----------------------------------------------------------------------------
(* What the readers see *)

\* Mutant: a replacement that was revoked itself no longer replaces.
ImpactsInForce(claim) ==
    {i \in DOMAIN impacts : impacts[i].prior = claim
        /\ ~\E j \in DOMAIN impacts : impacts[j].prior = impacts[i].replacement}

\* list_historical_claim_impacts; readers select references by their place.
ImpactsOn(claim) == {i \in DOMAIN impacts : impacts[i].prior = claim}

IsUsable(claim, at) ==
    /\ claim \in claims /\ claim.verification \in verifications
    /\ "historical_reconstruction" \in claim.verification.scope
    /\ Evidence(claim).from <= at /\ at < Evidence(claim).until
    /\ ImpactsOn(claim) = {}

ReportsOn(claim) == {i \in DOMAIN reports : reports[i].claim = claim}

IsFormallyReconstructable(claim, at) ==
    /\ IsUsable(claim, at)
    /\ \E i \in DOMAIN reports : ReportsOn(claim) = {i} /\ reports[i].exclusions = {}
    /\ \A kind \in ToSet(DerivedKinds) : <<kind, claim>> \in derived

\* The status of a listing: its latest report, as its claim stands.
ReportStatus(report, at) ==
    LET claim == report.claim
        on == ImpactsOn(claim)
    IN  IF report.status # "qualified" THEN report.status
        ELSE IF on # {}
        THEN LET last == impacts[Max(on)]
             IN  IF last.event = "superseded" THEN "expired" ELSE last.event
        ELSE IF at >= Evidence(claim).until THEN "expired"
        ELSE IF \E e \in report.exclusions : e[1] = "invalid_endpoint"
        THEN "invalid_endpoint"
        ELSE IF report.exclusions # {} THEN "quarantined" ELSE "qualified"

ReportsFor(listing) == {i \in DOMAIN reports : reports[i].listing = listing}

Shown(listing, at) ==
    LET its == ReportsFor(listing)
        latest == reports[Max(its)]
    IN  IF its = {} THEN [status |-> "none", claim |-> None]
        ELSE [status |-> ReportStatus(latest, at), claim |-> latest.claim]

-----------------------------------------------------------------------------
(* Attestation *)

\* _authorize_historical_evidence: exactly one policy and the grant.
Authorized(granted, principal) == policy # None /\ principal \in granted

\* put_verified keeps an object that is there, whatever it holds.
Stored(objects) ==
    [o \in DOMAIN store |->
        IF o \in objects /\ store[o] \in {"absent", "lost"} THEN "intact" ELSE store[o]]

\* The distribution the evidence was observed at, or the policy's first.
ReceiptUrl(evidence, urls) ==
    IF evidence.reference \in ToSet(urls) THEN evidence.reference ELSE urls[1]

\* issue: the clock is read, the collection authorized, the documents stored.
\* The place of a command is the one its receipt drew, then that of the receipt
\* it read as the first.
Issue(t, principal, documents) ==
    /\ Begins(t)
    /\ Authorized(Collectors, principal)
    /\ store' = Stored({documents.evidence, documents.calendar, documents.reference})
    /\ work' = [work EXCEPT ![t] =
           [job |-> "observe", documents |-> documents, principal |-> principal,
            policy |-> policy, at |-> clock, place |-> 0]]
    /\ UNCHANGED <<clock, policy, receipts, drawn, attestations,
                   verifications, judges, claims, derived, reports, impacts>>

Receipt(t) ==
    LET evidence == work[t].documents.evidence
    IN  [trace |-> t, object |-> evidence, at |-> work[t].at,
         mode |-> ModeOf(LevelOf(evidence.kind)),
         url |-> ReceiptUrl(evidence, work[t].policy.urls)]

\* The receipt is inserted, unless it is there already: its place is drawn.
Observe(t) ==
    /\ work[t].job = "observe"
    /\ \/ /\ Receipt(t) \in Range(receipts)
          /\ work' = [work EXCEPT ![t].job = "read"]
          /\ UNCHANGED drawn
       \/ /\ Receipt(t) \notin Range(receipts)
          /\ drawn' = drawn + 1
          /\ work' = [work EXCEPT ![t].job = "commit", ![t].place = drawn + 1]
    /\ UNCHANGED <<clock, policy, store, receipts, attestations, verifications,
                   judges, claims, derived, reports, impacts, begun>>

\* The transaction commits; only now do others see the receipt.
Commit(t) ==
    /\ work[t].job = "commit"
    /\ receipts' = [i \in DOMAIN receipts \cup {work[t].place} |->
                       IF i = work[t].place THEN Receipt(t) ELSE receipts[i]]
    /\ work' = [work EXCEPT ![t].job = "read"]
    /\ UNCHANGED <<clock, policy, store, drawn, attestations, verifications,
                   judges, claims, derived, reports, impacts, begun>>

SameObservation(receipt, other) ==
    receipt.object = other.object /\ receipt.url = other.url

\* Mutant: the first is the one with the earliest time instead of place.
EarliestReceipt(receipt) ==
    CHOOSE i \in DOMAIN receipts :
        /\ SameObservation(receipts[i], receipt)
        /\ \A j \in DOMAIN receipts :
              SameObservation(receipts[j], receipt) => receipts[i].at <= receipts[j].at

\* find_first_source_retrieval_receipt: where the first one stands.
FirstReceipt(receipt) ==
    Min({i \in DOMAIN receipts : SameObservation(receipts[i], receipt)})

\* An issuer whose clock was read before the first receipt's gives up.
ReadFirst(t) ==
    /\ work[t].job = "read"
    /\ LET first == FirstReceipt(Receipt(t))
       IN  work' = [work EXCEPT ![t] =
               IF @.at < receipts[first].at THEN Idle
               ELSE [@ EXCEPT !.job = "attest", !.place = first]]
    /\ UNCHANGED <<clock, policy, store, receipts, drawn, attestations,
                   verifications, judges, claims, derived, reports, impacts, begun>>

Attestation(t) ==
    LET documents == work[t].documents
    IN  [evidence |-> documents.evidence, calendar |-> documents.calendar,
         reference |-> documents.reference, level |-> LevelOf(documents.evidence.kind),
         policy |-> work[t].policy, collector |-> work[t].principal,
         receipt |-> receipts[work[t].place], at |-> work[t].at]

Attest(t) ==
    /\ work[t].job = "attest"
    /\ attestations' = attestations \cup {Attestation(t)}
    /\ work' = [work EXCEPT ![t] = Idle]
    /\ UNCHANGED <<clock, policy, store, receipts, drawn, verifications, judges,
                   claims, derived, reports, impacts, begun>>

-----------------------------------------------------------------------------
(* Qualification *)

Report(t, listing, status, exclusions, at) ==
    [trace |-> t, listing |-> listing, status |-> status, claim |-> None,
     exclusions |-> exclusions, at |-> at]

Reports(report) ==
    /\ reports' = Referenced(reports, report)
    /\ UNCHANGED <<clock, policy, store, receipts, drawn, attestations,
                   verifications, judges, claims, derived, impacts>>

\* Anyone may ask: a refused command leaves a report too.
Blocked(t, principal, listing, observed) ==
    /\ Begins(t)
    /\ ~Authorized(Governors, principal)
    /\ Reports(Report(t, listing, "policy_blocked", {"policy"}, observed))
    /\ UNCHANGED work

\* A level that the caller claims is never taken at its word.
SelfAsserted(t, principal, listing, observed) ==
    /\ Begins(t)
    /\ Authorized(Governors, principal)
    /\ Reports(Report(t, listing, "quarantined", {"self_asserted"}, observed))
    /\ UNCHANGED work

\* _verified_observation_receipt.
ReceiptHolds(attestation) ==
    /\ attestation.receipt \in Range(receipts)
    /\ attestation.receipt.object = attestation.evidence
    /\ attestation.receipt.mode = ModeOf(attestation.level)
    /\ attestation.receipt.url \in ToSet(attestation.policy.urls)

\* The first of the documents that does not open with its checksum.
Opened(attestation) ==
    LET opens(o) == <<store[o] = "intact", store[o]>>
    IN  FirstFailure(<<opens(attestation.evidence), opens(attestation.calendar),
                       opens(attestation.reference)>>)

\* _validated_evidence: why an attestation is refused, "none" if it is not.
Refusal(attestation, principal, listing, observed) ==
    LET evidence == attestation.evidence
        urls == ToSet(attestation.policy.urls)
        unfit == ListingFailure(listing, evidence, attestation.calendar,
                                attestation.reference)
    IN  IF attestation = None THEN "attestation_required"
        ELSE FirstFailure(<<
          <<attestation.policy = policy /\ evidence.listing = listing, "scope_mismatch">>,
          <<principal # attestation.collector, "separation_of_duties_required">>,
          <<Opened(attestation) = "none", Opened(attestation)>>,
          <<attestation.level # "unknown", "attestation_invalid">>,
          <<ReceiptHolds(attestation), "observation_receipt_invalid">>,
          <<evidence.terms = attestation.policy.terms, "source_policy_mismatch">>,
          <<IF attestation.level = "archive_attested" THEN evidence.reference \in urls
            ELSE evidence.reference = Platform, "distribution_mismatch">>,
          <<attestation.calendar.source \in urls /\ attestation.reference.source \in urls,
            "distribution_mismatch">>,
          <<evidence.from <= evidence.observed /\ evidence.from < evidence.until,
            "validity_invalid">>,
          <<evidence.observed <= attestation.receipt.at
              /\ attestation.receipt.at <= attestation.at /\ attestation.at <= observed,
            "observation_chronology_invalid">>,
          <<unfit = "none", unfit>>,
          <<attestation.level = "archive_attested" => ReconstructionReady(evidence),
            "reconstruction_contract_incomplete">> >>)

\* A prior claim must be there and of the same listing; that it still counts
\* is not asked.
Supersedable(prior, listing) ==
    prior = None \/ (prior \in claims /\ Evidence(prior).listing = listing)

\* A lost document raises out of the workflow and leaves no report.
Quarantine(t, principal, listing, attestation, prior, observed) ==
    LET reason == Refusal(attestation, principal, listing, observed)
    IN  /\ Begins(t)
        /\ Authorized(Governors, principal)
        /\ Supersedable(prior, listing)
        /\ reason \notin {"none", "lost"}
        /\ Reports(Report(t, listing, "quarantined", {reason}, observed))
        /\ UNCHANGED work

Claim(attestation, prior, observed) ==
    [verification |-> [attestation |-> attestation, verified |-> observed,
                       scope |-> UseScope(attestation.level, attestation.evidence)],
     supersedes |-> prior]

\* A plausible slip: the report before what it names.
ReportFirst(claim) ==
    <<"verification", "claim">>
        \o (IF ReconstructionReady(Evidence(claim))
            THEN <<"report">> \o DerivedKinds ELSE <<>>)

\* What is published for a claim, in the order it is published in.
Publications(claim) ==
    <<"verification", "claim">>
        \o (IF ReconstructionReady(Evidence(claim))
            THEN DerivedKinds \o <<"report">> ELSE <<>>)
        \o (IF claim.supersedes = None THEN <<>> ELSE <<"impact">>)

Qualify(t, principal, listing, attestation, prior, observed) ==
    /\ Begins(t)
    /\ Authorized(Governors, principal)
    /\ Supersedable(prior, listing)
    /\ Refusal(attestation, principal, listing, observed) = "none"
    /\ LET claim == Claim(attestation, prior, observed)
       IN  work' = [work EXCEPT ![t] =
               [job |-> "publish", claim |-> claim, judge |-> principal,
                todo |-> Publications(claim)]]
    /\ UNCHANGED <<clock, policy, store, receipts, drawn, attestations,
                   verifications, judges, claims, derived, reports, impacts>>

\* _affected_artifact_ids: what the latest report on the claim names.
Affected(claim) ==
    IF ReportsOn(claim) = {} THEN {} ELSE ToSet(DerivedKinds) \cup {"report"}

Impact(t, event, prior, replacement, observed) ==
    [trace |-> t, event |-> event, prior |-> prior, replacement |-> replacement,
     at |-> observed, affected |-> Affected(prior)]

QualifiedReport(t, claim) ==
    [trace |-> t, listing |-> Evidence(claim).listing, status |-> "qualified",
     claim |-> claim, exclusions |-> Exclusions(Evidence(claim)),
     at |-> claim.verification.verified]

\* The next artifact of the command, in a transaction of its own that audits
\* who publishes it.
Publish(t) ==
    /\ work[t].job = "publish"
    /\ LET claim == work[t].claim
           kind == Head(work[t].todo)
           rest == Tail(work[t].todo)
       IN  /\ verifications' = IF kind = "verification"
                               THEN verifications \cup {claim.verification} ELSE verifications
           /\ judges' = IF kind = "verification"
                        THEN judges \cup {<<claim.verification, work[t].judge>>} ELSE judges
           /\ claims' = IF kind = "claim" THEN claims \cup {claim} ELSE claims
           /\ derived' = IF kind \in ToSet(DerivedKinds)
                         THEN derived \cup {<<kind, claim>>} ELSE derived
           /\ reports' = IF kind = "report"
                         THEN Referenced(reports, QualifiedReport(t, claim)) ELSE reports
           /\ impacts' = IF kind = "impact"
                         THEN Referenced(impacts,
                                  Impact(t, "superseded", claim.supersedes, claim,
                                         claim.verification.verified))
                         ELSE impacts
           /\ work' = [work EXCEPT ![t] =
                  IF rest = <<>> THEN Idle ELSE [@ EXCEPT !.todo = rest]]
    /\ UNCHANGED <<clock, policy, store, receipts, drawn, attestations, begun>>

\* _record_claim_status: revoke and expire.
RecordStatus(t, principal, prior, event, observed) ==
    /\ Begins(t)
    /\ Authorized(Governors, principal)
    /\ prior.verification.attestation.policy = policy
    /\ impacts' = Referenced(impacts, Impact(t, event, prior, None, observed))
    /\ UNCHANGED <<clock, policy, store, receipts, drawn, attestations,
                   verifications, judges, claims, derived, reports, work>>

-----------------------------------------------------------------------------
(* The environment *)

Crash(t) ==
    /\ work[t] # Idle
    /\ work' = [work EXCEPT ![t] = Idle]
    /\ UNCHANGED <<clock, policy, store, receipts, drawn, attestations,
                   verifications, judges, claims, derived, reports, impacts, begun>>

Tick ==
    /\ clock < Horizon
    /\ clock' = clock + 1
    /\ UNCHANGED <<policy, store, receipts, drawn, attestations,
                   verifications, judges, claims, derived, reports, impacts, work, begun>>

\* Processes are started with another policy set.
Deploy(p) ==
    /\ policy' = p
    /\ UNCHANGED <<clock, store, receipts, drawn, attestations,
                   verifications, judges, claims, derived, reports, impacts, work, begun>>

\* The file of an object changes or disappears.
Fault(object, state) ==
    /\ store[object] = "intact"
    /\ store' = [store EXCEPT ![object] = state]
    /\ UNCHANGED <<clock, policy, receipts, drawn, attestations,
                   verifications, judges, claims, derived, reports, impacts, work, begun>>

\* A workflow judges as of the time it was composed at.
Composed == {at \in ComposedAt : at <= clock}

EvidenceNext ==
    \/ \E t \in setting.traces :
           \/ Observe(t) \/ Commit(t) \/ ReadFirst(t) \/ Attest(t)
           \/ Publish(t) \/ Crash(t)
    \/ \E t \in setting.traces, principal \in Principals, documents \in setting.documents :
           Issue(t, principal, documents)
    \/ \E t \in setting.traces, principal \in Principals, listing \in Listings, at \in Composed :
           \/ Blocked(t, principal, listing, at)
           \/ SelfAsserted(t, principal, listing, at)
           \/ \E attestation \in attestations \cup {None}, prior \in claims \cup {None} :
                 \/ Quarantine(t, principal, listing, attestation, prior, at)
                 \/ Qualify(t, principal, listing, attestation, prior, at)
    \/ \E t \in setting.traces, principal \in Principals, prior \in claims,
          event \in {"revoked", "expired"}, at \in Composed :
           RecordStatus(t, principal, prior, event, at)
    \/ Tick
    \/ \E p \in setting.policies \ {policy} : Deploy(p)
    \/ \E object \in setting.breakable, state \in {"altered", "lost"} : Fault(object, state)
=============================================================================
