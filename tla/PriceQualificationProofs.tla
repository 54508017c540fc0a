------------------------ MODULE PriceQualificationProofs ------------------------
(***************************************************************************)
(* Proofs about PriceQualification and the historical evidence it judges,  *)
(* for any traces, submissions, policies, principals and bounds.           *)
(***************************************************************************)
EXTENDS PriceQualification, SequenceTheorems, FiniteSetTheorems,
        WellFoundedInduction, TLAPS

-----------------------------------------------------------------------------
(* Sets of places, and logs that grow.                                     *)

\* A non-empty set of numbers up to n has a greatest and a least member.
LEMMA MaxIn ==
    ASSUME NEW n \in Nat, NEW S \in SUBSET (1..n), S # {}
    PROVE  Max(S) \in S /\ \A y \in S : Max(S) >= y
<1> DEFINE Above(s) == {k \in 1..n : k > s}
           T == {Above(s) : s \in S}
           R == StrictSubsetOrdering(1..n)
<1>1. T \subseteq FiniteSubsetsOf(1..n) /\ T # {}
  <2>1. IsFiniteSet(1..n)
    BY FS_Interval
  <2>2. ASSUME NEW s \in S
        PROVE  Above(s) \in SUBSET (1..n) /\ IsFiniteSet(Above(s))
    BY <2>1, FS_Subset
  <2> QED
    BY <2>2 DEF FiniteSubsetsOf
<1>2. \E x \in T : \A y \in T : ~(<<y, x>> \in R)
  <2>1. IsWellFoundedOn(R, FiniteSubsetsOf(1..n))
    BY FS_StrictSubsetOrderingWellFounded
  <2> HIDE DEF T, R
  <2> QED
    BY <1>1, <2>1, WFMin
<1>3. PICK s \in S : \A y \in S : ~(<<Above(y), Above(s)>> \in R)
  BY <1>2
<1>4. ASSUME NEW y \in S PROVE s >= y
  <2> SUFFICES ASSUME ~(s >= y) PROVE FALSE
    OBVIOUS
  <2>1. Above(y) \subseteq Above(s)
    OBVIOUS
  <2>2. y \in Above(s) /\ y \notin Above(y)
    OBVIOUS
  <2> QED
    BY <1>3, <2>1, <2>2 DEF StrictSubsetOrdering
<1>5. \E x \in S : \A y \in S : x >= y
  BY <1>4
<1> QED
  BY <1>5 DEF Max

LEMMA MinIn ==
    ASSUME NEW n \in Nat, NEW S \in SUBSET (1..n), S # {}
    PROVE  Min(S) \in S /\ \A y \in S : Min(S) <= y
<1> DEFINE M == {n + 1 - s : s \in S}
<1>1. M \in SUBSET (1..n) /\ M # {}
  <2>1. \A s \in S : n + 1 - s \in 1..n
    OBVIOUS
  <2> QED
    BY <2>1
<1>2. Max(M) \in M /\ \A y \in M : Max(M) >= y
  BY <1>1, MaxIn
<1>3. PICK s \in S : Max(M) = n + 1 - s
  BY <1>2
<1>4. ASSUME NEW y \in S PROVE s <= y
  <2>1. n + 1 - s >= n + 1 - y
    BY <1>2, <1>3
  <2> QED
    BY <2>1
<1>5. \E x \in S : \A y \in S : x =< y
  BY <1>4
<1> QED
  BY <1>5 DEF Min

IsLog(log) == log \in Seq(ToSet(log))

\* new is old, perhaps with entries e behind it.
Extends(old, new, e) ==
    /\ \E m, n \in Nat : DOMAIN old = 1..m /\ DOMAIN new = 1..n /\ m <= n
    /\ \A i \in DOMAIN old : new[i] = old[i]
    /\ \A i \in DOMAIN new : i \notin DOMAIN old => new[i] = e

LEMMA SameLog ==
    ASSUME NEW log, IsLog(log), NEW e
    PROVE  Extends(log, log, e)
<1>1. PICK n \in Nat : DOMAIN log = 1..n
  BY LenProperties DEF IsLog
<1> QED
  BY <1>1 DEF Extends

LEMMA ReferencedGrows ==
    ASSUME NEW log, IsLog(log), NEW e
    PROVE  LET new == Referenced(log, e)
           IN  /\ IsLog(new) /\ Extends(log, new, e)
               /\ ToSet(new) = ToSet(log) \cup {e}
<1>1. CASE e \in ToSet(log)
  BY <1>1, SameLog DEF Referenced
<1>2. CASE e \notin ToSet(log)
  <2> DEFINE S == ToSet(log) \cup {e}
  <2>1. PICK n \in Nat : n = Len(log)
    BY LenProperties DEF IsLog
  <2>2. PICK new \in Seq(S) :
          /\ new = Append(log, e) /\ Len(new) = n + 1
          /\ \A i \in 1..n : new[i] = log[i]
          /\ new[n + 1] = e
          /\ DOMAIN log = 1..n /\ DOMAIN new = 1..(n + 1)
    <3> HIDE DEF S
    <3>1. log \in Seq(S) /\ e \in S
      <4>1. ToSet(log) \subseteq S
        BY DEF S
      <4> QED
        BY <4>1 DEF IsLog, S
    <3>2. Append(log, e) \in Seq(S) /\ Len(Append(log, e)) = n + 1
          /\ Append(log, e)[n + 1] = e
          /\ \A i \in 1..n : Append(log, e)[i] = log[i]
      BY <2>1, <3>1, AppendProperties
    <3> QED
      BY <2>1, <3>1, <3>2, LenProperties
  <2>3. ToSet(new) = S
    <3>1. ToSet(new) \subseteq S
      BY <2>2, ElementOfSeq DEF ToSet
    <3>2. \A x \in ToSet(log) : x \in ToSet(new)
      BY <2>2 DEF ToSet
    <3>3. e \in ToSet(new)
      BY <2>2 DEF ToSet
    <3> QED
      BY <3>1, <3>2, <3>3
  <2>4. IsLog(new) /\ Extends(log, new, e)
    BY <2>2, <2>3 DEF IsLog, Extends
  <2> QED
    BY <1>2, <2>2, <2>3, <2>4 DEF Referenced
<1> QED
  BY <1>1, <1>2

-----------------------------------------------------------------------------
(* What a qualified attestation passed.                                    *)

LEMMA NoneFails ==
    ASSUME NEW checks, NEW n \in Nat, DOMAIN checks = 1..n,
           \A i \in DOMAIN checks : ~checks[i][1] => checks[i][2] # "none",
           FirstFailure(checks) = "none"
    PROVE  \A i \in DOMAIN checks : checks[i][1]
<1> DEFINE failed == {i \in DOMAIN checks : ~checks[i][1]}
<1>1. CASE failed = {}
  BY <1>1
<1>2. CASE failed # {}
  <2>1. \E i \in failed : \A j \in failed : i <= j
    <3>1. failed \in SUBSET (1..n)
      OBVIOUS
    <3> HIDE DEF failed
    <3> QED
      BY <1>2, <3>1, MinIn
  <2>2. PICK k \in failed : k = CHOOSE i \in failed : \A j \in failed : i <= j
    BY <2>1
  <2>3. FirstFailure(checks) = checks[k][2]
    BY <1>2, <2>2 DEF FirstFailure
  <2> QED
    BY <2>2, <2>3
<1> QED
  BY <1>1, <1>2

\* Who judges did not collect, and the evidence was in force when it was
\* observed, no later than the instant the workflow was composed at.
LEMMA InForceByNow ==
    ASSUME NEW attestation, NEW principal, NEW listing, NEW observed,
           Refusal(attestation, principal, listing, observed) = "none"
    PROVE  /\ attestation # None /\ principal # attestation.collector
           /\ attestation.evidence.from <= attestation.evidence.observed
           /\ attestation.evidence.observed <= attestation.receipt.at
           /\ attestation.receipt.at <= attestation.at /\ attestation.at <= observed
<1> DEFINE evidence == attestation.evidence
           urls == ToSet(attestation.policy.urls)
           unfit == ListingFailure(listing, evidence, attestation.calendar,
                                   attestation.reference)
           checks == <<
             <<attestation.policy = policy /\ evidence.listing = listing, "scope_mismatch">>,
             <<principal # attestation.collector, "separation_of_duties_required">>,
             <<Opened(attestation) = "none", Opened(attestation)>>,
             <<attestation.level # "unknown", "attestation_invalid">>,
             <<ReceiptHolds(attestation), "observation_receipt_invalid">>,
             <<evidence.terms = attestation.policy.terms, "source_policy_mismatch">>,
             <<IF attestation.level = "archive_attested" THEN evidence.reference \in urls
               ELSE evidence.reference = Platform, "distribution_mismatch">>,
             <<attestation.calendar.source \in urls /\ attestation.reference.source \in urls,
               "distribution_mismatch">>,
             <<evidence.from <= evidence.observed /\ evidence.from < evidence.until,
               "validity_invalid">>,
             <<evidence.observed <= attestation.receipt.at
                 /\ attestation.receipt.at <= attestation.at /\ attestation.at <= observed,
               "observation_chronology_invalid">>,
             <<unfit = "none", unfit>>,
             <<attestation.level = "archive_attested" => ReconstructionReady(evidence),
               "reconstruction_contract_incomplete">> >>
<1>1. attestation # None /\ FirstFailure(checks) = "none"
  BY DEF Refusal
<1> HIDE DEF evidence, urls, unfit
<1>2. DOMAIN checks = 1..12
  OBVIOUS
<1>3. /\ checks[1][2] # "none" /\ checks[2][2] # "none" /\ checks[4][2] # "none"
      /\ checks[5][2] # "none" /\ checks[6][2] # "none" /\ checks[7][2] # "none"
      /\ checks[8][2] # "none" /\ checks[9][2] # "none" /\ checks[10][2] # "none"
      /\ checks[12][2] # "none"
  OBVIOUS
<1>4. /\ checks[11][1] <=> unfit = "none"
      /\ checks[11][2] = unfit
      /\ checks[3][1] <=> Opened(attestation) = "none"
      /\ checks[3][2] = Opened(attestation)
  OBVIOUS
<1>5. /\ checks[2][1] <=> principal # attestation.collector
      /\ checks[9][1] <=> evidence.from <= evidence.observed /\ evidence.from < evidence.until
      /\ checks[10][1] <=> evidence.observed <= attestation.receipt.at
                 /\ attestation.receipt.at <= attestation.at /\ attestation.at <= observed
  OBVIOUS
<1> HIDE DEF checks
<1>6. \A i \in DOMAIN checks : ~checks[i][1] => checks[i][2] # "none"
  <2>1. \A i \in 1..12 : \/ i = 1 \/ i = 2 \/ i = 3 \/ i = 4 \/ i = 5 \/ i = 6
                         \/ i = 7 \/ i = 8 \/ i = 9 \/ i = 10 \/ i = 11 \/ i = 12
    OBVIOUS
  <2> QED
    BY <1>2, <1>3, <1>4, <2>1
<1>7. \A i \in DOMAIN checks : checks[i][1]
  BY <1>1, <1>2, <1>6, NoneFails
<1>8. checks[2][1] /\ checks[9][1] /\ checks[10][1]
  BY <1>2, <1>7
<1> QED
  BY <1>1, <1>5, <1>8 DEF evidence

-----------------------------------------------------------------------------
(* The inductive invariant.                                                *)

Typed ==
    /\ setting \in Settings /\ clock \in Nat /\ policy \in Policies \cup {None}
    /\ IsLog(reports) /\ IsLog(impacts)
    /\ drawn \in Nat /\ DOMAIN receipts \subseteq 1..drawn
    /\ \A i \in DOMAIN receipts : receipts[i].at \in Nat
    /\ work = [t \in Traces |-> work[t]]

\* An insert that has not committed holds a place that nobody else has.
PlacesOK ==
    \A t \in Traces : work[t].job = "commit" =>
        /\ work[t].place \in 1..drawn /\ work[t].place \notin DOMAIN receipts
        /\ \A u \in Traces \ {t} : work[u].job = "commit" => work[u].place # work[t].place

AttestationOK(a) ==
    /\ a.at \in Nat /\ a.receipt.at \in Nat /\ a.receipt.at <= a.at
    /\ a.policy \in Policies
    /\ \E d \in Submissions : a.evidence = d.evidence
    /\ a.receipt.object = a.evidence
    /\ \E i \in DOMAIN receipts : receipts[i] = a.receipt

\* A claim is of an attestation, whose evidence is by now in force.
ClaimOK(c) ==
    LET a == c.verification.attestation
    IN  /\ a \in attestations
        /\ c.verification.scope = UseScope(a.level, a.evidence)
        /\ a.evidence.from <= clock

Complete(c) ==
    /\ ClaimOK(c) /\ c \in claims
    /\ "historical_reconstruction" \in c.verification.scope
    /\ \A kind \in ToSet(DerivedKinds) : <<kind, c>> \in derived

\* What a command that has published a kind of artifact leaves behind.
Done(kind, c) ==
    /\ kind = "verification" => c.verification \in verifications
    /\ kind = "claim" => c \in claims
    /\ kind \in ToSet(DerivedKinds) => <<kind, c>> \in derived

Kinds == {"verification", "claim", "report", "impact",
          "dataset", "adjustment", "labels", "features", "folds"}

\* A command has published a prefix of its publications.
Publishing(k) ==
    LET P == Publications(k.claim)
    IN  \E n \in 0..(Len(P) - 1) :
            /\ k = [job |-> "publish", claim |-> k.claim, judge |-> k.judge,
                    todo |-> SubSeq(P, n + 1, Len(P))]
            /\ \A i \in 1..n : Done(P[i], k.claim)

AttestingJobs == {"observe", "commit", "read", "attest"}
Attesting == [job : AttestingJobs, documents : Submissions,
              principal : Principals, policy : Policies, at : Nat, place : Nat]

WorkOK(k) ==
    /\ k.job \in AttestingJobs => k \in Attesting
    /\ k.job = "attest" =>
          /\ k.place \in DOMAIN receipts /\ receipts[k.place].at <= k.at
          /\ receipts[k.place].object = k.documents.evidence
    /\ k.job = "read" =>
          \E i \in DOMAIN receipts :
              /\ receipts[i].object = k.documents.evidence
              /\ receipts[i].url = ReceiptUrl(k.documents.evidence, k.policy.urls)
    /\ k.job = "publish" =>
          /\ ClaimOK(k.claim) /\ Publishing(k) /\ k.judge \in Principals
          /\ k.judge # k.claim.verification.attestation.collector

ReportOK(r) ==
    IF r.status = "qualified"
    THEN Complete(r.claim) /\ r.exclusions = Exclusions(Evidence(r.claim))
    ELSE r.exclusions # {}

\* A basis is about a policy whose terms were archived.
BasisOK(b) ==
    \E p \in Policies :
        /\ p.access \in {"open_data_terms", "zero_fee_plan"}
        /\ b.policies = p.members /\ b.terms = p.terms

AttestationsOK == \A a \in attestations : AttestationOK(a)
ClaimsOK == \A c \in claims : ClaimOK(c) /\ c.verification \in verifications
WorkersOK == \A t \in Traces : WorkOK(work[t])
JudgesOK ==
    /\ \A v \in verifications : \E p \in Principals : <<v, p>> \in judges
    /\ \A j \in judges : j[2] # j[1].attestation.collector
ReportsOK == \A r \in ToSet(reports) : ReportOK(r)
ImpactsOK == \A i \in ToSet(impacts) : i.event \in {"superseded", "revoked", "expired"}
BasesOK == \A b \in bases : BasisOK(b)

IInv == /\ Typed /\ PlacesOK /\ AttestationsOK /\ ClaimsOK /\ WorkersOK
        /\ JudgesOK /\ ReportsOK /\ ImpactsOK /\ BasesOK

LEMMA PublicationsOrder ==
    ASSUME NEW c
    PROVE  LET P == Publications(c)
           IN  /\ P \in Seq(Kinds) /\ Len(P) \in Nat /\ Len(P) >= 2
               /\ P[1] = "verification"
               /\ \A j \in 1..Len(P) : P[j] = "claim" => j = 2
               /\ \A j \in 1..Len(P) : P[j] = "report" =>
                     /\ j = 8 /\ ReconstructionReady(Evidence(c))
                     /\ P[1] = "verification" /\ P[2] = "claim"
                     /\ \A kind \in ToSet(DerivedKinds) : \E i \in 1..7 : P[i] = kind
<1> DEFINE A == <<"verification", "claim">>
           B == IF ReconstructionReady(Evidence(c))
                THEN DerivedKinds \o <<"report">> ELSE <<>>
           C == IF c.supersedes = None THEN <<>> ELSE <<"impact">>
           P == Publications(c)
<1>1. A \in Seq(Kinds) /\ Len(A) = 2 /\ A[1] = "verification" /\ A[2] = "claim"
  BY DEF Kinds
<1>2. /\ DerivedKinds \in Seq(Kinds) /\ Len(DerivedKinds) = 5
      /\ \A i \in 1..5 : DerivedKinds[i] \notin {"claim", "report"}
      /\ DOMAIN DerivedKinds = 1..5
  BY DEF DerivedKinds, Kinds
<1>3. <<"report">> \in Seq(Kinds) /\ Len(<<"report">>) = 1 /\ <<"report">>[1] = "report"
  BY DEF Kinds
<1>4. <<>> \in Seq(Kinds) /\ Len(<<>>) = 0
  BY EmptySeq
<1>5. /\ DerivedKinds \o <<"report">> \in Seq(Kinds)
      /\ Len(DerivedKinds \o <<"report">>) = 6
      /\ \A i \in 1..5 : (DerivedKinds \o <<"report">>)[i] = DerivedKinds[i]
      /\ (DerivedKinds \o <<"report">>)[6] = "report"
  <2> HIDE DEF Kinds
  <2> DEFINE D == DerivedKinds
             R == <<"report">>
  <2>1. D \in Seq(Kinds) /\ R \in Seq(Kinds) /\ Len(D) = 5 /\ Len(R) = 1 /\ R[1] = "report"
    BY <1>2, <1>3
  <2> HIDE DEF D, R
  <2>2. /\ D \o R \in Seq(Kinds) /\ Len(D \o R) = Len(D) + Len(R)
        /\ \A i \in 1..(Len(D) + Len(R)) : (D \o R)[i] =
              IF i <= Len(D) THEN D[i] ELSE R[i - Len(D)]
    BY <2>1, ConcatProperties
  <2>3. /\ D \o R \in Seq(Kinds) /\ Len(D \o R) = 6
        /\ \A i \in 1..5 : (D \o R)[i] = D[i]
        /\ (D \o R)[6] = "report"
    BY <2>1, <2>2
  <2> QED
    BY <2>3 DEF D, R
<1>6. /\ B \in Seq(Kinds) /\ Len(B) \in {0, 6}
      /\ Len(B) = 6 => /\ ReconstructionReady(Evidence(c)) /\ B[6] = "report"
                       /\ \A i \in 1..5 : B[i] = DerivedKinds[i]
  BY <1>4, <1>5
<1>7. C \in Seq(Kinds) /\ Len(C) \in {0, 1} /\ (Len(C) = 1 => C[1] = "impact")
  <2>1. <<"impact">> \in Seq(Kinds) /\ Len(<<"impact">>) = 1 /\ <<"impact">>[1] = "impact"
    BY DEF Kinds
  <2> QED
    BY <1>4, <2>1
<1>8. P = A \o B \o C
  BY DEF Publications
<1> HIDE DEF A, B, C, P
<1>9. /\ A \o B \in Seq(Kinds) /\ Len(A \o B) = 2 + Len(B)
      /\ \A i \in 1..(2 + Len(B)) : (A \o B)[i] = IF i <= 2 THEN A[i] ELSE B[i - 2]
  <2>1. /\ A \o B \in Seq(Kinds) /\ Len(A \o B) = Len(A) + Len(B)
        /\ \A i \in 1..(Len(A) + Len(B)) : (A \o B)[i] =
              IF i <= Len(A) THEN A[i] ELSE B[i - Len(A)]
    BY <1>1, <1>6, ConcatProperties
  <2> QED
    BY <1>1, <2>1
<1>10. /\ P \in Seq(Kinds) /\ Len(P) = 2 + Len(B) + Len(C)
       /\ \A i \in 1..Len(P) :
             P[i] = IF i <= 2 + Len(B) THEN (A \o B)[i] ELSE C[i - (2 + Len(B))]
  BY <1>7, <1>8, <1>9, ConcatProperties
<1>11. Len(P) \in Nat /\ Len(P) >= 2 /\ P[1] = "verification" /\ P[2] = "claim"
  BY <1>1, <1>6, <1>7, <1>9, <1>10, SMTT(30)
<1>12. \A j \in 1..Len(P) :
          \/ j <= 2
          \/ j \in 3..7 /\ Len(B) = 6 /\ P[j] = DerivedKinds[j - 2]
          \/ j = 8 /\ Len(B) = 6 /\ P[j] = "report"
          \/ P[j] = "impact"
  <2> SUFFICES ASSUME NEW j \in 1..Len(P), j > 2
               PROVE  \/ j \in 3..7 /\ Len(B) = 6 /\ P[j] = DerivedKinds[j - 2]
                      \/ j = 8 /\ Len(B) = 6 /\ P[j] = "report"
                      \/ P[j] = "impact"
    BY <1>11
  <2>1. CASE j <= 2 + Len(B)
    <3>1. Len(B) = 6 /\ j \in 3..8 /\ P[j] = B[j - 2]
      BY <1>6, <1>9, <1>10, <2>1
    <3> QED
      BY <1>6, <3>1
  <2>2. CASE j > 2 + Len(B)
    <3>1. Len(C) = 1 /\ j = 3 + Len(B)
      BY <1>6, <1>7, <1>10, <2>2
    <3>2. P[j] = C[1]
      BY <1>6, <1>10, <2>2, <3>1
    <3> QED
      BY <1>7, <3>1, <3>2
  <2> QED
    BY <1>6, <2>1, <2>2
<1>13. ASSUME NEW j \in 1..Len(P), P[j] = "claim"
       PROVE  j = 2
  BY <1>2, <1>11, <1>12, <1>13
<1>14. ASSUME NEW j \in 1..Len(P), P[j] = "report"
       PROVE  /\ j = 8 /\ ReconstructionReady(Evidence(c))
              /\ \A kind \in ToSet(DerivedKinds) : \E i \in 1..7 : P[i] = kind
  <2>1. j = 8 /\ Len(B) = 6
    BY <1>2, <1>11, <1>12, <1>14
  <2>2. ASSUME NEW i \in 1..5
        PROVE  P[i + 2] = DerivedKinds[i]
    <3>1. i + 2 \in 3..7 /\ i + 2 \in 1..Len(P) /\ i + 2 - 2 = i
      BY <1>6, <1>7, <1>10, <2>1
    <3>2. i + 2 <= 2 + Len(B)
      BY <2>1
    <3>3. P[i + 2] = B[i + 2 - 2]
      BY <1>9, <1>10, <3>1, <3>2
    <3> QED
      BY <1>6, <2>1, <3>1, <3>3
  <2>3. ASSUME NEW kind \in ToSet(DerivedKinds)
        PROVE  \E i \in 1..7 : P[i] = kind
    <3>1. PICK i \in 1..5 : kind = DerivedKinds[i]
      BY <1>2 DEF ToSet
    <3> QED
      BY <2>2, <3>1
  <2> QED
    BY <1>6, <2>1, <2>3
<1> QED
  BY <1>10, <1>11, <1>13, <1>14 DEF P

-----------------------------------------------------------------------------
(* What a step leaves as it was.                                           *)

\* Nothing is taken back, and the clock does not go back.
Grown ==
    /\ clock <= clock' /\ Typed'
    /\ \A i \in DOMAIN receipts : i \in DOMAIN receipts' /\ receipts'[i] = receipts[i]
    /\ attestations \subseteq attestations' /\ verifications \subseteq verifications'
    /\ claims \subseteq claims' /\ derived \subseteq derived'

LEMMA AttestationStays ==
    ASSUME Grown, NEW a, AttestationOK(a)
    PROVE  AttestationOK(a)'
<1>1. PICK i \in DOMAIN receipts : receipts[i] = a.receipt
  BY DEF AttestationOK
<1>2. i \in DOMAIN receipts' /\ receipts'[i] = a.receipt
  BY <1>1 DEF Grown
<1> QED
  BY <1>2 DEF AttestationOK

LEMMA ClaimStays ==
    ASSUME IInv, Grown, NEW c, ClaimOK(c)
    PROVE  ClaimOK(c)'
<1> DEFINE a == c.verification.attestation
<1>1. a \in attestations /\ a.evidence.from <= clock
  BY DEF ClaimOK
<1>2. a.evidence.from \in Nat
  BY <1>1, HistoryAssumption DEF IInv, AttestationsOK, AttestationOK
<1>3. clock \in Nat /\ clock' \in Nat /\ clock <= clock'
  BY DEF IInv, Typed, Grown
<1>4. a.evidence.from <= clock'
  BY <1>1, <1>2, <1>3
<1> QED
  BY <1>1, <1>4 DEF ClaimOK, Grown

LEMMA WorkStays ==
    ASSUME IInv, Grown, NEW k, WorkOK(k)
    PROVE  WorkOK(k)'
<1>1. CASE k.job = "publish"
  <2>1. ClaimOK(k.claim)'
    BY <1>1, ClaimStays DEF WorkOK
  <2>2. \A kind : Done(kind, k.claim) => Done(kind, k.claim)'
    BY DEF Grown, Done
  <2>3. Publishing(k)'
    BY <1>1, <2>2 DEF WorkOK, Publishing
  <2> QED
    BY <1>1, <2>1, <2>3 DEF WorkOK
<1>2. CASE k.job = "read"
  <2>1. PICK i \in DOMAIN receipts :
          /\ receipts[i].object = k.documents.evidence
          /\ receipts[i].url = ReceiptUrl(k.documents.evidence, k.policy.urls)
    BY <1>2 DEF WorkOK
  <2>2. i \in DOMAIN receipts' /\ receipts'[i] = receipts[i]
    BY DEF Grown
  <2> QED
    BY <1>2, <2>1, <2>2 DEF WorkOK
<1>3. CASE k.job = "attest"
  BY <1>3 DEF WorkOK, Grown
<1>4. CASE k.job \notin {"publish", "read", "attest"}
  BY <1>4 DEF WorkOK
<1> QED
  BY <1>1, <1>2, <1>3, <1>4

\* What holds of the artifacts and commands that a step does not touch.
LEMMA Kept ==
    ASSUME IInv, Grown
    PROVE  /\ attestations' = attestations => AttestationsOK'
           /\ claims' = claims => ClaimsOK'
           /\ \A c : Complete(c) => Complete(c)'
           /\ \A r \in ToSet(reports) : ReportOK(r)'
           /\ reports' = reports => ReportsOK'
           /\ impacts' = impacts => ImpactsOK'
           /\ bases' = bases => BasesOK'
           /\ verifications' = verifications /\ judges' = judges => JudgesOK'
           /\ work' = work /\ receipts' = receipts /\ drawn' = drawn => PlacesOK'
           /\ \A k : WorkOK(k) => WorkOK(k)'
           /\ work' = work => WorkersOK'
<1>1. attestations' = attestations => AttestationsOK'
  BY AttestationStays DEF IInv, AttestationsOK
<1>2. claims' = claims => ClaimsOK'
  BY ClaimStays DEF IInv, ClaimsOK, Grown
<1>3. \A c : Complete(c) => Complete(c)'
  BY ClaimStays DEF Complete, Grown
<1>4. \A r \in ToSet(reports) : ReportOK(r)'
  BY <1>3 DEF IInv, ReportsOK, ReportOK
<1>5. \A k : WorkOK(k) => WorkOK(k)'
  BY WorkStays
<1> QED
  BY <1>1, <1>2, <1>3, <1>4, <1>5
     DEF IInv, ReportsOK, ImpactsOK, BasesOK, BasisOK, JudgesOK, PlacesOK, WorkersOK

LEMMA IdleOK == WorkOK(Idle)
BY DEF WorkOK, Idle, AttestingJobs

\* A step moves the command of one trace at most.
LEMMA WorkStep ==
    ASSUME IInv, Grown, NEW t \in Traces, NEW k, work' = [work EXCEPT ![t] = k], WorkOK(k)'
    PROVE  WorkersOK'
<1>1. work'[t] = k /\ \A x \in Traces \ {t} : work'[x] = work[x]
  BY DEF IInv, Typed
<1>2. ASSUME NEW x \in Traces
      PROVE  WorkOK(work[x])'
  <2>1. CASE x = t
    <3>1. work'[x] = k
      BY <1>1, <2>1
    <3> QED
      BY <3>1 DEF WorkOK, Publishing
  <2>2. CASE x # t
    <3>1. PICK y : y = work[x]
      OBVIOUS
    <3>2. WorkOK(y)'
      BY <3>1, Kept DEF IInv, WorkersOK
    <3>3. work'[x] = y
      BY <1>1, <2>2, <3>1
    <3> QED
      BY <3>2, <3>3 DEF WorkOK, Publishing
  <2> QED
    BY <2>1, <2>2
<1> QED
  BY <1>2 DEF WorkersOK

LEMMA WorkTyped ==
    ASSUME Typed, NEW t, NEW k, work' = [work EXCEPT ![t] = k]
    PROVE  work' = [x \in Traces |-> work'[x]]
BY DEF Typed

\* A trace whose command is not, or no longer, in an open insert.
LEMMA PlacesStay ==
    ASSUME Typed, PlacesOK, NEW t \in Traces, NEW k, k.job # "commit",
           work' = [work EXCEPT ![t] = k], UNCHANGED <<receipts, drawn>>
    PROVE  PlacesOK'
<1>1. work'[t] = k /\ \A x \in Traces \ {t} : work'[x] = work[x]
  BY DEF Typed
<1> QED
  BY <1>1 DEF PlacesOK

-----------------------------------------------------------------------------
(* The steps of an issuer.                                                 *)

\* Only the command of a trace, and objects, change.
LEMMA OnlyWork ==
    ASSUME IInv, NEW t \in Traces, NEW k, work' = [work EXCEPT ![t] = k],
           UNCHANGED <<clock, policy, receipts, drawn, attestations, verifications,
                       judges, claims, derived, reports, impacts, setting, bases>>,
           k.job # "commit", WorkOK(k)
    PROVE  IInv'
<1>1. Typed'
  BY WorkTyped DEF IInv, Typed
<1>2. Grown
  BY <1>1 DEF Grown, IInv, Typed
<1>3. WorkersOK'
  BY <1>2, Kept, WorkStep
<1>4. PlacesOK'
  BY PlacesStay DEF IInv
<1> QED
  BY <1>1, <1>2, <1>3, <1>4, Kept DEF IInv

LEMMA IssueIInv ==
    ASSUME IInv, UNCHANGED <<setting, bases>>, NEW t \in Traces,
           NEW principal \in Principals, NEW documents \in Submissions,
           Issue(t, principal, documents)
    PROVE  IInv'
<1> DEFINE k == [job |-> "observe", documents |-> documents, principal |-> principal,
                 policy |-> policy, at |-> clock, place |-> 0]
<1>1. policy \in Policies /\ clock \in Nat
  BY DEF Issue, Authorized, IInv, Typed
<1>2. WorkOK(k) /\ k.job # "commit"
  BY <1>1 DEF WorkOK, Attesting, AttestingJobs
<1>3. /\ work' = [work EXCEPT ![t] = k]
      /\ UNCHANGED <<clock, policy, receipts, drawn, attestations, verifications,
                     judges, claims, derived, reports, impacts>>
  BY DEF Issue
<1> HIDE DEF k
<1> QED
  BY <1>2, <1>3, OnlyWork

LEMMA CrashIInv ==
    ASSUME IInv, UNCHANGED <<setting, bases>>, NEW t \in Traces, Crash(t)
    PROVE  IInv'
<1>1. Idle.job # "commit"
  BY DEF Idle
<1> QED
  BY <1>1, IdleOK, OnlyWork DEF Crash

Moved(k, job, place) == [k EXCEPT !.job = job, !.place = place]

LEMMA MovedOn ==
    ASSUME NEW k \in Attesting, NEW job \in AttestingJobs, NEW place \in Nat
    PROVE  \E m \in Attesting :
              /\ m = Moved(k, job, place) /\ m.job = job /\ m.place = place
              /\ m.documents = k.documents /\ m.policy = k.policy /\ m.at = k.at
<1> DEFINE m == Moved(k, job, place)
<1>1. /\ m \in Attesting /\ m.job = job /\ m.place = place
      /\ m.documents = k.documents /\ m.policy = k.policy /\ m.at = k.at
  BY DEF Attesting, Moved
<1> HIDE DEF m
<1>2. m = Moved(k, job, place)
  BY DEF m
<1> QED
  BY <1>1, <1>2

LEMMA Reading ==
    ASSUME NEW k \in Attesting
    PROVE  \E m \in Attesting :
              /\ m = [k EXCEPT !.job = "read"] /\ m.job = "read"
              /\ m.documents = k.documents /\ m.policy = k.policy
<1>1. PICK place \in Nat : place = k.place
  BY DEF Attesting
<1>2. [k EXCEPT !.job = "read"] = Moved(k, "read", place)
  BY <1>1 DEF Attesting, Moved
<1>3. "read" \in AttestingJobs
  BY DEF AttestingJobs
<1> QED
  BY <1>2, <1>3, MovedOn

\* A receipt that is not there yet is inserted: its place is drawn.
LEMMA ObserveIInv ==
    ASSUME IInv, UNCHANGED <<setting, bases>>, NEW t \in Traces, Observe(t)
    PROVE  IInv'
<1>1. PICK k \in Attesting : k = work[t] /\ k.job = "observe"
  BY DEF Observe, AttestingJobs, IInv, WorkersOK, WorkOK
<1> DEFINE r == Receipt(t)
<1>2. /\ r.object = k.documents.evidence
      /\ r.url = ReceiptUrl(k.documents.evidence, k.policy.urls)
  BY <1>1 DEF Receipt
<1> HIDE DEF r
<1>3. UNCHANGED <<clock, policy, receipts, attestations, verifications, judges,
                  claims, derived, reports, impacts, setting, bases>>
  BY DEF Observe
<1>4. CASE r \in Range(receipts)
  <2>1. PICK m \in Attesting : /\ m = [k EXCEPT !.job = "read"] /\ m.job = "read"
                               /\ m.documents = k.documents /\ m.policy = k.policy
    BY Reading
  <2>2. work' = [work EXCEPT ![t] = m] /\ UNCHANGED drawn
    BY <1>1, <1>4, <2>1 DEF Observe, r, IInv, Typed
  <2>3. WorkOK(m) /\ m.job # "commit"
    BY <1>2, <1>4, <2>1 DEF WorkOK, Range
  <2> QED
    BY <1>3, <2>2, <2>3, OnlyWork
<1>5. CASE r \notin Range(receipts)
  <2>1. drawn \in Nat /\ drawn + 1 \in Nat
    BY DEF IInv, Typed
  <2>2. PICK m \in Attesting : /\ m = Moved(k, "commit", drawn + 1)
                               /\ m.job = "commit" /\ m.place = drawn + 1
    BY <2>1, MovedOn DEF AttestingJobs
  <2>3. work' = [work EXCEPT ![t] = m] /\ drawn' = drawn + 1
    BY <1>1, <1>5, <2>2 DEF Observe, r, Moved, IInv, Typed
  <2>4. /\ work'[t] = m /\ \A x \in Traces \ {t} : work'[x] = work[x]
        /\ work' = [x \in Traces |-> work'[x]]
    BY <2>3, WorkTyped DEF IInv, Typed
  <2>5. DOMAIN receipts \subseteq 1..drawn /\ 1..drawn \subseteq 1..drawn'
    BY <2>1, <2>3 DEF IInv, Typed
  <2>6. Typed'
    BY <1>3, <2>1, <2>3, <2>4, <2>5 DEF IInv, Typed
  <2>7. Grown
    BY <1>3, <2>6 DEF Grown, IInv, Typed
  <2>8. PlacesOK'
    <3>1. drawn' \in 1..drawn' /\ drawn' \notin 1..drawn
      BY <2>1, <2>3
    <3>2. \A x \in Traces \ {t} : work[x].job = "commit" =>
              work[x].place \in 1..drawn /\ work[x].place # drawn'
      BY <3>1 DEF IInv, PlacesOK
    <3> QED
      BY <1>3, <2>2, <2>3, <2>4, <2>5, <3>1, <3>2, SMTT(30) DEF IInv, PlacesOK
  <2>9. WorkOK(m)'
    BY <2>2 DEF WorkOK
  <2>10. WorkersOK'
    BY <2>3, <2>7, <2>9, WorkStep
  <2> QED
    BY <1>3, <2>6, <2>7, <2>8, <2>10, Kept DEF IInv
<1> QED
  BY <1>4, <1>5

\* The place a receipt is committed at was nobody's.
LEMMA CommitIInv ==
    ASSUME IInv, UNCHANGED <<setting, bases>>, NEW t \in Traces, Commit(t)
    PROVE  IInv'
<1>1. PICK k \in Attesting : k = work[t] /\ k.job = "commit"
  BY DEF Commit, AttestingJobs, IInv, WorkersOK, WorkOK
<1> DEFINE r == Receipt(t)
<1>2. /\ r.object = k.documents.evidence /\ r.at = k.at
      /\ r.url = ReceiptUrl(k.documents.evidence, k.policy.urls)
  BY <1>1 DEF Receipt
<1>3. PICK m \in Attesting : /\ m = [k EXCEPT !.job = "read"] /\ m.job = "read"
                             /\ m.documents = k.documents /\ m.policy = k.policy
  BY Reading
<1>4. /\ receipts' = [i \in DOMAIN receipts \cup {k.place} |->
                         IF i = k.place THEN r ELSE receipts[i]]
      /\ work' = [work EXCEPT ![t] = m]
      /\ UNCHANGED <<clock, policy, drawn, attestations, verifications, judges,
                     claims, derived, reports, impacts>>
  BY <1>1, <1>3 DEF Commit, IInv, Typed
<1> HIDE DEF r
<1>5. k.place \in 1..drawn /\ k.place \notin DOMAIN receipts
  BY <1>1 DEF IInv, PlacesOK
<1>6. /\ DOMAIN receipts' = DOMAIN receipts \cup {k.place} /\ receipts'[k.place] = r
      /\ \A i \in DOMAIN receipts : receipts'[i] = receipts[i]
  BY <1>4, <1>5
<1>7. /\ work'[t] = m /\ \A x \in Traces \ {t} : work'[x] = work[x]
      /\ work' = [x \in Traces |-> work'[x]]
  BY <1>4, WorkTyped DEF IInv, Typed
<1>8. Typed'
  <2>1. k.at \in Nat
    BY DEF Attesting
  <2> QED
    BY <1>2, <1>4, <1>5, <1>6, <1>7, <2>1 DEF IInv, Typed
<1>9. Grown
  <2>1. clock <= clock'
    BY <1>4 DEF IInv, Typed
  <2> QED
    BY <1>4, <1>6, <1>8, <2>1 DEF Grown
<1>10. PlacesOK'
  <2>1. ASSUME NEW u \in Traces, work'[u].job = "commit"
        PROVE  /\ u # t /\ work'[u] = work[u]
               /\ work[u].place \in 1..drawn /\ work[u].place \notin DOMAIN receipts'
    <3>1. u # t /\ work'[u] = work[u]
      BY <1>3, <1>7, <2>1
    <3>2. work[u].place # k.place
      BY <1>1, <2>1, <3>1 DEF IInv, PlacesOK
    <3> QED
      BY <1>6, <2>1, <3>1, <3>2 DEF IInv, PlacesOK
  <2> QED
    BY <1>4, <2>1 DEF IInv, PlacesOK
<1>11. WorkOK(m)'
  BY <1>2, <1>3, <1>6 DEF WorkOK
<1>12. WorkersOK'
  BY <1>4, <1>9, <1>11, WorkStep
<1> QED
  BY <1>4, <1>8, <1>9, <1>10, <1>12, Kept DEF IInv

\* What an issuer reads as the first receipt of its observation.
LEMMA FirstOf ==
    ASSUME Typed, NEW receipt, \E i \in DOMAIN receipts : SameObservation(receipts[i], receipt)
    PROVE  LET first == FirstReceipt(receipt)
           IN  /\ first \in DOMAIN receipts /\ first \in Nat
               /\ SameObservation(receipts[first], receipt)
               /\ \A j \in DOMAIN receipts : SameObservation(receipts[j], receipt) => first <= j
<1> DEFINE S == {i \in DOMAIN receipts : SameObservation(receipts[i], receipt)}
<1>1. S # {} /\ S \in SUBSET (1..drawn) /\ drawn \in Nat
  BY DEF Typed
<1>2. FirstReceipt(receipt) = Min(S)
  BY DEF FirstReceipt
<1>3. Min(S) \in S /\ \A j \in S : Min(S) <= j
  <2> HIDE DEF S
  <2> QED
    BY <1>1, MinIn
<1> QED
  BY <1>1, <1>2, <1>3

\* A command that reads the first receipt finds one of its own observation.
LEMMA ReadsFirst ==
    ASSUME IInv, NEW t \in Traces, ReadFirst(t)
    PROVE  \E k \in Attesting, first \in DOMAIN receipts :
              /\ k = work[t] /\ k.job = "read" /\ first \in Nat
              /\ SameObservation(receipts[first], Receipt(t))
              /\ Receipt(t).object = k.documents.evidence
              /\ \A j \in DOMAIN receipts :
                    SameObservation(receipts[j], Receipt(t)) => first <= j
              /\ work' = [work EXCEPT ![t] = IF k.at < receipts[first].at THEN Idle
                                            ELSE Moved(k, "attest", first)]
<1>1. PICK k \in Attesting : k = work[t] /\ k.job = "read" /\ WorkOK(k)
  BY DEF ReadFirst, AttestingJobs, IInv, WorkersOK, WorkOK
<1>2. PICK own : own = Receipt(t)
  OBVIOUS
<1>3. /\ own.object = k.documents.evidence
      /\ own.url = ReceiptUrl(k.documents.evidence, k.policy.urls)
  BY <1>1, <1>2 DEF Receipt
<1>4. \E i \in DOMAIN receipts : SameObservation(receipts[i], own)
  BY <1>1, <1>3 DEF WorkOK, SameObservation
<1>5. PICK first \in DOMAIN receipts :
         /\ first = FirstReceipt(own) /\ first \in Nat
         /\ SameObservation(receipts[first], own)
         /\ \A j \in DOMAIN receipts : SameObservation(receipts[j], own) => first <= j
  BY <1>4, FirstOf DEF IInv
<1>6. work' = [work EXCEPT ![t] = IF k.at < receipts[first].at THEN Idle
                                ELSE Moved(k, "attest", first)]
  BY <1>1, <1>2, <1>5 DEF ReadFirst, Moved, IInv, Typed
<1> QED
  BY <1>1, <1>2, <1>3, <1>5, <1>6

LEMMA ReadFirstIInv ==
    ASSUME IInv, UNCHANGED <<setting, bases>>, NEW t \in Traces, ReadFirst(t)
    PROVE  IInv'
<1>1. PICK k \in Attesting, first \in DOMAIN receipts :
          /\ k = work[t] /\ first \in Nat /\ receipts[first].object = k.documents.evidence
          /\ work' = [work EXCEPT ![t] = IF k.at < receipts[first].at THEN Idle
                                        ELSE Moved(k, "attest", first)]
  BY ReadsFirst DEF SameObservation
<1>2. UNCHANGED <<clock, policy, receipts, drawn, attestations, verifications, judges,
                  claims, derived, reports, impacts, setting, bases>>
  BY DEF ReadFirst
<1>3. CASE k.at < receipts[first].at
  <2>1. Idle.job # "commit"
    BY DEF Idle
  <2> QED
    BY <1>1, <1>2, <1>3, <2>1, IdleOK, OnlyWork
<1>4. CASE ~(k.at < receipts[first].at)
  <2>1. PICK m \in Attesting : /\ m = Moved(k, "attest", first) /\ m.job = "attest"
                               /\ m.place = first /\ m.documents = k.documents /\ m.at = k.at
    <3>1. first \in Nat /\ "attest" \in AttestingJobs
      BY <1>1 DEF AttestingJobs
    <3> QED
      BY <3>1, MovedOn
  <2>2. receipts[first].at <= k.at
    <3>1. receipts[first].at \in Nat /\ k.at \in Nat
      BY DEF IInv, Typed, Attesting
    <3> QED
      BY <1>4, <3>1
  <2>3. WorkOK(m) /\ m.job # "commit"
    BY <1>1, <2>1, <2>2 DEF WorkOK
  <2>4. work' = [work EXCEPT ![t] = m]
    BY <1>1, <1>4, <2>1
  <2> QED
    BY <1>2, <2>3, <2>4, OnlyWork
<1> QED
  BY <1>3, <1>4

\* The receipt that is cited is of this observation, and committed.
LEMMA AttestIInv ==
    ASSUME IInv, UNCHANGED <<setting, bases>>, NEW t \in Traces, Attest(t)
    PROVE  IInv'
<1>1. PICK k \in Attesting : k = work[t] /\ k.job = "attest" /\ WorkOK(k)
  BY DEF Attest, AttestingJobs, IInv, WorkersOK, WorkOK
<1> DEFINE new == Attestation(t)
<1>2. new.evidence = k.documents.evidence /\ new.policy = k.policy
      /\ new.receipt = receipts[k.place] /\ new.at = k.at
  BY <1>1 DEF Attestation
<1>3. /\ attestations' = attestations \cup {new}
      /\ work' = [work EXCEPT ![t] = Idle]
      /\ UNCHANGED <<clock, policy, receipts, drawn, verifications, judges, claims,
                     derived, reports, impacts>>
  BY DEF Attest
<1> HIDE DEF new
<1>4. AttestationOK(new)
  <2>1. k.at \in Nat /\ k.policy \in Policies /\ k.documents \in Submissions
    BY DEF Attesting
  <2>2. /\ k.place \in DOMAIN receipts /\ receipts[k.place].at <= k.at
        /\ receipts[k.place].object = k.documents.evidence /\ receipts[k.place].at \in Nat
    BY <1>1 DEF WorkOK, IInv, Typed
  <2>3. \E d \in Submissions : new.evidence = d.evidence
    BY <1>2, <2>1
  <2> QED
    BY <1>2, <2>1, <2>2, <2>3 DEF AttestationOK
<1>5. Typed'
  BY <1>3, WorkTyped DEF IInv, Typed
<1>6. Grown
  BY <1>3, <1>5 DEF Grown, IInv, Typed
<1>7. AttestationsOK'
  <2>1. ASSUME NEW a \in attestations' PROVE AttestationOK(a)
    BY <1>3, <1>4, <2>1 DEF IInv, AttestationsOK
  <2> QED
    BY <1>6, <2>1, AttestationStays DEF AttestationsOK
<1>8. WorkersOK'
  <2>1. WorkOK(Idle)'
    BY DEF WorkOK, Idle, AttestingJobs
  <2> QED
    BY <1>3, <1>6, <2>1, WorkStep
<1>9. PlacesOK'
  <2>1. Idle.job # "commit"
    BY DEF Idle
  <2> QED
    BY <1>3, <2>1, PlacesStay DEF IInv
<1> QED
  BY <1>3, <1>5, <1>6, <1>7, <1>8, <1>9, Kept DEF IInv

-----------------------------------------------------------------------------
(* The steps of the qualification.                                         *)

\* A command that is refused leaves a report that says why.
LEMMA RefusedIInv ==
    ASSUME IInv, UNCHANGED <<setting, bases, work>>, NEW t, NEW listing,
           NEW status, status # "qualified", NEW exclusions, exclusions # {}, NEW at,
           Reports(Report(t, listing, status, exclusions, at))
    PROVE  IInv'
<1> DEFINE report == Report(t, listing, status, exclusions, at)
<1>1. report.status # "qualified" /\ report.exclusions # {}
  BY DEF Report
<1>2. /\ reports' = Referenced(reports, report)
      /\ UNCHANGED <<clock, policy, receipts, drawn, attestations, verifications,
                     judges, claims, derived, impacts>>
  BY DEF Reports
<1> HIDE DEF report
<1>3. IsLog(reports') /\ ToSet(reports') = ToSet(reports) \cup {report}
  BY <1>2, ReferencedGrows DEF IInv, Typed
<1>4. Typed'
  BY <1>2, <1>3 DEF IInv, Typed
<1>5. Grown
  BY <1>2, <1>4 DEF Grown, IInv, Typed
<1>6. ReportsOK'
  <2>1. ReportOK(report)'
    BY <1>1 DEF ReportOK
  <2> QED
    BY <1>3, <1>5, <2>1, Kept DEF ReportsOK
<1> QED
  BY <1>2, <1>4, <1>5, <1>6, Kept DEF IInv

LEMMA QualifyIInv ==
    ASSUME IInv, UNCHANGED <<setting, bases>>, NEW t \in Traces,
           NEW principal \in Principals, NEW listing,
           NEW attestation \in attestations \cup {None}, NEW prior,
           NEW observed \in Composed, Qualify(t, principal, listing, attestation, prior, observed)
    PROVE  IInv'
<1> DEFINE claim == Claim(attestation, prior, observed)
           k == [job |-> "publish", claim |-> claim, judge |-> principal,
                 todo |-> Publications(claim)]
<1>1. Refusal(attestation, principal, listing, observed) = "none"
  BY DEF Qualify
<1>2. /\ attestation \in attestations /\ principal # attestation.collector
      /\ attestation.evidence.from <= attestation.evidence.observed
      /\ attestation.evidence.observed <= attestation.receipt.at
      /\ attestation.receipt.at <= attestation.at /\ attestation.at <= observed
  BY <1>1, InForceByNow
<1>3. /\ claim.verification.attestation = attestation
      /\ claim.verification.scope = UseScope(attestation.level, attestation.evidence)
  BY DEF Claim
<1>4. ClaimOK(claim)
  <2>1. AttestationOK(attestation)
    BY <1>2 DEF IInv, AttestationsOK
  <2>2. /\ attestation.evidence.from \in Nat /\ attestation.evidence.observed \in Nat
        /\ attestation.receipt.at \in Nat /\ attestation.at \in Nat
    BY <2>1, HistoryAssumption DEF AttestationOK
  <2>3. observed \in Nat /\ clock \in Nat /\ observed <= clock
    BY HistoryAssumption DEF Composed, IInv, Typed
  <2>4. attestation.evidence.from <= clock
    BY <1>2, <2>2, <2>3
  <2> QED
    BY <1>2, <1>3, <2>4 DEF ClaimOK
<1> HIDE DEF claim
<1>5. Publishing(k)
  <2> DEFINE P == Publications(claim)
  <2>1. P \in Seq(Kinds) /\ Len(P) \in Nat /\ Len(P) >= 2
    BY PublicationsOrder
  <2>2. P = SubSeq(P, 1, Len(P))
    BY <2>1, SubSeqFull
  <2> HIDE DEF P
  <2>3. 0 \in 0..(Len(P) - 1) /\ P = SubSeq(P, 0 + 1, Len(P))
    BY <2>1, <2>2
  <2>4. k.claim = claim /\ k = [job |-> "publish", claim |-> k.claim, judge |-> k.judge,
                                todo |-> SubSeq(P, 0 + 1, Len(P))]
    BY <2>3 DEF P
  <2>5. \A i \in 1..0 : Done(P[i], k.claim)
    OBVIOUS
  <2> QED
    BY <2>3, <2>4, <2>5 DEF Publishing, P
<1>6. WorkOK(k) /\ k.job # "commit"
  BY <1>2, <1>3, <1>4, <1>5 DEF WorkOK, AttestingJobs
<1>7. /\ work' = [work EXCEPT ![t] = k]
      /\ UNCHANGED <<clock, policy, receipts, drawn, attestations, verifications,
                     judges, claims, derived, reports, impacts>>
  BY DEF Qualify, claim
<1> HIDE DEF k
<1> QED
  BY <1>6, <1>7, OnlyWork

\* The report comes after everything it names, the claim after its verification.
LEMMA PublishIInv ==
    ASSUME IInv, UNCHANGED <<setting, bases>>, NEW t \in Traces, Publish(t)
    PROVE  IInv'
<1>1. PICK k : k = work[t] /\ k.job = "publish" /\ WorkOK(k)
  BY DEF Publish, IInv, WorkersOK
<1>2. PICK claim, judge :
          /\ claim = k.claim /\ judge = k.judge /\ ClaimOK(claim)
          /\ judge \in Principals /\ judge # claim.verification.attestation.collector
  BY <1>1 DEF WorkOK
<1> DEFINE P == Publications(claim)
<1>3. PICK n \in 0..(Len(P) - 1) :
          /\ k = [job |-> "publish", claim |-> claim, judge |-> judge,
                  todo |-> SubSeq(P, n + 1, Len(P))]
          /\ \A i \in 1..n : Done(P[i], claim)
  BY <1>1, <1>2 DEF WorkOK, Publishing
<1>4. /\ P \in Seq(Kinds) /\ Len(P) \in Nat /\ Len(P) >= 2
      /\ P[1] = "verification"
      /\ \A j \in 1..Len(P) : P[j] = "claim" => j = 2
      /\ \A j \in 1..Len(P) : P[j] = "report" =>
            /\ j = 8 /\ ReconstructionReady(Evidence(claim))
            /\ P[1] = "verification" /\ P[2] = "claim"
            /\ \A kind \in ToSet(DerivedKinds) : \E i \in 1..7 : P[i] = kind
  BY PublicationsOrder
<1>5. PICK kind : kind = P[n + 1]
  OBVIOUS
<1>6. PICK rest : rest = SubSeq(P, n + 2, Len(P))
  OBVIOUS
<1>7. n + 1 \in 1..Len(P) /\ n + 1 + 1 = n + 2
  BY <1>3, <1>4
<1> HIDE DEF P
<1>8. Head(work[t].todo) = kind /\ Tail(work[t].todo) = rest
      /\ work[t].claim = claim /\ work[t].judge = judge
  <2>1. /\ work[t].todo = SubSeq(P, n + 1, Len(P))
        /\ work[t].claim = claim /\ work[t].judge = judge
    BY <1>1, <1>3
  <2>2. /\ Head(SubSeq(P, n + 1, Len(P))) = P[n + 1]
        /\ Tail(SubSeq(P, n + 1, Len(P))) = SubSeq(P, n + 1 + 1, Len(P))
    <3>1. Len(P) \in (n + 1)..Len(P)
      BY <1>4, <1>7
    <3> QED
      BY <1>4, <1>7, <3>1, HeadTailOfSubSeq
  <2> QED
    BY <1>5, <1>6, <1>7, <2>1, <2>2
<1>9. /\ verifications' = IF kind = "verification"
                         THEN verifications \cup {claim.verification} ELSE verifications
      /\ judges' = IF kind = "verification"
                   THEN judges \cup {<<claim.verification, judge>>} ELSE judges
      /\ claims' = IF kind = "claim" THEN claims \cup {claim} ELSE claims
      /\ derived' = IF kind \in ToSet(DerivedKinds)
                   THEN derived \cup {<<kind, claim>>} ELSE derived
      /\ reports' = IF kind = "report"
                   THEN Referenced(reports, QualifiedReport(t, claim)) ELSE reports
      /\ impacts' = IF kind = "impact"
                   THEN Referenced(impacts,
                            Impact(t, "superseded", claim.supersedes, claim,
                                   claim.verification.verified))
                   ELSE impacts
      /\ work' = [work EXCEPT ![t] = IF rest = <<>> THEN Idle ELSE [@ EXCEPT !.todo = rest]]
      /\ UNCHANGED <<clock, policy, receipts, drawn, attestations>>
  BY <1>8 DEF Publish
<1> DEFINE moved == IF rest = <<>> THEN Idle ELSE [k EXCEPT !.todo = rest]
<1>10. work' = [work EXCEPT ![t] = moved]
  BY <1>1, <1>9
<1>11. moved = Idle \/ (n + 1 \in 0..(Len(P) - 1)
            /\ moved = [job |-> "publish", claim |-> claim, judge |-> judge,
                        todo |-> SubSeq(P, n + 1 + 1, Len(P))])
  <2>1. CASE n + 1 = Len(P)
    <3>1. SubSeq(P, n + 2, Len(P)) = <<>>
      BY <1>4, <1>7, <2>1, SubSeqEmpty
    <3> QED
      BY <1>6, <3>1
  <2>2. CASE n + 1 # Len(P)
    <3>1. n + 1 \in 0..(Len(P) - 1)
      BY <1>3, <1>4, <1>7, <2>2
    <3>2. [k EXCEPT !.todo = rest] =
              [job |-> "publish", claim |-> claim, judge |-> judge, todo |-> rest]
      <4>1. PICK was :
              k = [job |-> "publish", claim |-> claim, judge |-> judge, todo |-> was]
        BY <1>3
      <4> QED
        BY <4>1
    <3> QED
      BY <1>6, <1>7, <3>1, <3>2
  <2> QED
    BY <2>1, <2>2
<1> HIDE DEF moved
<1>12. Typed'
  <2>1. IsLog(reports')
    <3>1. PICK e : e = QualifiedReport(t, claim)
      OBVIOUS
    <3> QED
      BY <1>9, <3>1, ReferencedGrows DEF IInv, Typed
  <2>2. IsLog(impacts')
    <3>1. PICK e : e = Impact(t, "superseded", claim.supersedes, claim,
                              claim.verification.verified)
      OBVIOUS
    <3> QED
      BY <1>9, <3>1, ReferencedGrows DEF IInv, Typed
  <2>3. work' = [x \in Traces |-> work'[x]]
    BY <1>10, WorkTyped DEF IInv
  <2> QED
    BY <1>9, <2>1, <2>2, <2>3 DEF IInv, Typed
<1>13. Grown
  BY <1>9, <1>12 DEF Grown, IInv, Typed
<1>14. ClaimOK(claim)'
  BY <1>2, <1>13, ClaimStays
<1>15. Done(kind, claim)' /\ \A i \in 1..n : Done(P[i], claim)'
  <2>1. Done(kind, claim)'
    BY <1>9 DEF Done
  <2> QED
    BY <1>3, <1>13, <2>1 DEF Done, Grown
<1>16. WorkersOK'
  <2>1. WorkOK(moved)'
    <3>1. CASE moved = Idle
      BY <3>1 DEF WorkOK, Idle, AttestingJobs
    <3>2. CASE n + 1 \in 0..(Len(P) - 1)
               /\ moved = [job |-> "publish", claim |-> claim, judge |-> judge,
                           todo |-> SubSeq(P, n + 1 + 1, Len(P))]
      <4>1. \A i \in 1..(n + 1) : Done(P[i], claim)'
        <5>1. \A i \in 1..(n + 1) : i \in 1..n \/ i = n + 1
          BY <1>3, <1>4
        <5> QED
          BY <1>5, <1>15, <5>1
      <4>2. PICK m \in 0..(Len(P) - 1) : m = n + 1
        BY <3>2
      <4>3. /\ moved = [job |-> "publish", claim |-> moved.claim, judge |-> moved.judge,
                        todo |-> SubSeq(P, m + 1, Len(P))]
            /\ moved.claim = claim /\ moved.judge = judge
        BY <3>2, <4>2
      <4>4. Publishing(moved)'
        BY <4>1, <4>2, <4>3 DEF Publishing, P
      <4> QED
        BY <1>2, <1>14, <3>2, <4>3, <4>4 DEF WorkOK, AttestingJobs
    <3> QED
      BY <1>11, <3>1, <3>2
  <2> QED
    BY <1>10, <1>13, <2>1, WorkStep
<1>17. ClaimsOK'
  <2>1. CASE kind = "claim"
    <3>1. n + 1 = 2
      BY <1>4, <1>5, <1>7, <2>1
    <3>2. claim.verification \in verifications
      <4>1. 1 \in 1..n /\ P[1] = "verification"
        BY <1>3, <1>4, <3>1
      <4> QED
        BY <1>3, <4>1 DEF Done
    <3>3. ASSUME NEW c \in claims' PROVE ClaimOK(c)' /\ c.verification \in verifications'
      <4>1. CASE c = claim
        BY <1>13, <1>14, <3>2, <4>1 DEF Grown
      <4>2. CASE c # claim
        BY <1>9, <1>13, <4>2, ClaimStays DEF Grown, IInv, ClaimsOK
      <4> QED
        BY <4>1, <4>2
    <3> QED
      BY <3>3 DEF ClaimsOK
  <2>2. CASE kind # "claim"
    BY <1>9, <1>13, <2>2, Kept
  <2> QED
    BY <2>1, <2>2
<1>18. ReportsOK'
  <2>1. CASE kind = "report"
    <3>1. n = 7 /\ ReconstructionReady(Evidence(claim)) /\ P[2] = "claim"
          /\ \A d \in ToSet(DerivedKinds) : \E i \in 1..7 : P[i] = d
      <4>1. n + 1 \in 1..Len(P) /\ P[n + 1] = "report"
        BY <1>5, <1>7, <2>1
      <4>2. /\ n + 1 = 8 /\ ReconstructionReady(Evidence(claim)) /\ P[2] = "claim"
            /\ \A d \in ToSet(DerivedKinds) : \E i \in 1..7 : P[i] = d
        BY <1>4, <4>1
      <4>3. n \in Int
        BY <1>4
      <4> QED
        BY <4>2, <4>3
    <3>2. claim \in claims'
      <4>1. 2 \in 1..n
        BY <3>1
      <4> QED
        BY <1>15, <3>1, <4>1 DEF Done
    <3>3. \A d \in ToSet(DerivedKinds) : <<d, claim>> \in derived'
      BY <1>15, <3>1 DEF Done
    <3>4. "historical_reconstruction" \in claim.verification.scope
      BY <1>2, <3>1 DEF ClaimOK, UseScope, Evidence
    <3>5. Complete(claim)'
      BY <1>14, <3>2, <3>3, <3>4 DEF Complete
    <3> DEFINE report == QualifiedReport(t, claim)
    <3>6. ReportOK(report)'
      <4>1. report.claim = claim /\ report.exclusions = Exclusions(Evidence(claim))
        BY DEF QualifiedReport
      <4> QED
        BY <3>5, <4>1 DEF ReportOK, QualifiedReport
    <3> HIDE DEF report
    <3>7. ToSet(reports') = ToSet(reports) \cup {report}
      BY <1>9, <2>1, ReferencedGrows DEF IInv, Typed, report
    <3> QED
      BY <1>13, <3>6, <3>7, Kept DEF ReportsOK
  <2>2. CASE kind # "report"
    BY <1>9, <1>13, <2>2, Kept
  <2> QED
    BY <2>1, <2>2
<1>19. ImpactsOK'
  <2>1. CASE kind = "impact"
    <3>1. PICK e : e = Impact(t, "superseded", claim.supersedes, claim,
                              claim.verification.verified)
      OBVIOUS
    <3>2. e.event = "superseded"
      BY <3>1 DEF Impact
    <3>3. ToSet(impacts') = ToSet(impacts) \cup {e}
      BY <1>9, <2>1, <3>1, ReferencedGrows DEF IInv, Typed
    <3> QED
      BY <3>2, <3>3 DEF IInv, ImpactsOK
  <2>2. CASE kind # "impact"
    BY <1>9, <1>13, <2>2, Kept
  <2> QED
    BY <2>1, <2>2
<1>20. JudgesOK'
  <2>1. CASE kind = "verification"
    <3>1. /\ verifications' = verifications \cup {claim.verification}
          /\ judges' = judges \cup {<<claim.verification, judge>>}
      BY <1>9, <2>1
    <3>2. \A v \in verifications' : \E p \in Principals : <<v, p>> \in judges'
      BY <1>2, <3>1 DEF IInv, JudgesOK
    <3>3. \A j \in judges' : j[2] # j[1].attestation.collector
      BY <1>2, <3>1 DEF IInv, JudgesOK
    <3> QED
      BY <3>2, <3>3 DEF JudgesOK
  <2>2. CASE kind # "verification"
    BY <1>9, <1>13, <2>2, Kept
  <2> QED
    BY <2>1, <2>2
<1>21. PlacesOK'
  <2>1. moved.job # "commit"
    BY <1>11 DEF Idle
  <2> QED
    BY <1>9, <1>10, <2>1, PlacesStay DEF IInv
<1> QED
  BY <1>9, <1>12, <1>13, <1>16, <1>17, <1>18, <1>19, <1>20, <1>21, Kept DEF IInv

LEMMA RecordStatusIInv ==
    ASSUME IInv, UNCHANGED <<setting, bases>>, NEW t, NEW principal, NEW prior,
           NEW event \in {"revoked", "expired"}, NEW observed,
           RecordStatus(t, principal, prior, event, observed)
    PROVE  IInv'
<1> DEFINE impact == Impact(t, event, prior, None, observed)
<1>1. impact.event = event
  BY DEF Impact
<1>2. /\ impacts' = Referenced(impacts, impact)
      /\ UNCHANGED <<clock, policy, receipts, drawn, attestations, verifications,
                     judges, claims, derived, reports, work>>
  BY DEF RecordStatus
<1> HIDE DEF impact
<1>3. IsLog(impacts') /\ ToSet(impacts') = ToSet(impacts) \cup {impact}
  BY <1>2, ReferencedGrows DEF IInv, Typed
<1>4. Typed'
  BY <1>2, <1>3 DEF IInv, Typed
<1>5. Grown
  BY <1>2, <1>4 DEF Grown, IInv, Typed
<1>6. ImpactsOK'
  BY <1>1, <1>3 DEF IInv, ImpactsOK
<1> QED
  BY <1>2, <1>4, <1>5, <1>6, Kept DEF IInv

-----------------------------------------------------------------------------
(* The environment, the bases and the gates.                               *)

\* No artifact of the ledger and no command changes.
LEMMA OtherStep ==
    ASSUME IInv, clock' \in Nat, clock <= clock', policy' \in Policies \cup {None},
           UNCHANGED <<receipts, drawn, attestations, verifications, judges, claims,
                       derived, reports, impacts, work, setting>>,
           BasesOK'
    PROVE  IInv'
<1>1. Typed'
  BY DEF IInv, Typed
<1>2. Grown
  BY <1>1 DEF Grown
<1> QED
  BY <1>1, <1>2, Kept DEF IInv

LEMMA EnvironmentIInv ==
    ASSUME IInv, UNCHANGED <<setting, bases>>,
           \/ Tick
           \/ \E p \in setting.policies \ {policy} : Deploy(p)
           \/ \E object \in setting.breakable, state \in {"altered", "lost"} :
                Fault(object, state)
    PROVE  IInv'
<1>1. clock \in Nat /\ policy \in Policies \cup {None} /\ BasesOK'
  BY DEF IInv, Typed, BasesOK, BasisOK
<1>2. CASE Tick
  <2>1. clock' \in Nat /\ clock <= clock'
    BY <1>1, <1>2 DEF Tick
  <2> QED
    BY <1>1, <1>2, <2>1, OtherStep DEF Tick
<1>3. ASSUME NEW p \in setting.policies, Deploy(p)
      PROVE  IInv'
  <2>1. p \in Policies \cup {None}
    BY HistoryAssumption DEF IInv, Typed
  <2>2. clock' \in Nat /\ clock <= clock'
    BY <1>1, <1>3 DEF Deploy
  <2> QED
    BY <1>1, <1>3, <2>1, <2>2, OtherStep DEF Deploy
<1>4. ASSUME NEW object, NEW state, Fault(object, state)
      PROVE  IInv'
  <2>1. clock' \in Nat /\ clock <= clock'
    BY <1>1, <1>4 DEF Fault
  <2> QED
    BY <1>1, <1>4, <2>1, OtherStep DEF Fault
<1> QED
  BY <1>2, <1>3, <1>4

LEMMA RegisterIInv ==
    ASSUME IInv,
           \/ \E principal \in Principals, terms \in TermsContents :
                RegisterBasis(principal, terms)
           \/ \E t \in setting.traces, principal \in Principals, claim \in claims,
                basis \in bases : RegisterGate(t, principal, claim, basis)
           \/ UNCHANGED vars
    PROVE  IInv'
<1>1. clock \in Nat /\ policy \in Policies \cup {None}
  BY DEF IInv, Typed
<1>2. ASSUME NEW principal, NEW terms, RegisterBasis(principal, terms)
      PROVE  IInv'
  <2> DEFINE b == [access |-> policy.access, policies |-> policy.members,
                   terms |-> terms, urls |-> ToSet(policy.urls)]
  <2>1. policy \in Policies
    BY <1>1, <1>2 DEF RegisterBasis, Authorized
  <2>2. BasisOK(b)
    BY <1>2, <2>1 DEF RegisterBasis, BasisOK
  <2>3. bases' = bases \cup {b}
    BY <1>2 DEF RegisterBasis
  <2>4. BasesOK'
    BY <2>2, <2>3 DEF IInv, BasesOK, BasisOK
  <2>5. clock <= clock' /\ clock' \in Nat /\ policy' = policy
    BY <1>1, <1>2 DEF RegisterBasis
  <2> QED
    BY <1>1, <1>2, <2>4, <2>5, OtherStep DEF RegisterBasis
<1>3. ASSUME NEW t, NEW principal, NEW claim, NEW basis, RegisterGate(t, principal, claim, basis)
      PROVE  IInv'
  <2>1. UNCHANGED <<clock, policy, receipts, drawn, attestations, verifications, judges,
                    claims, derived, reports, impacts, work, setting, bases>> /\ clock <= clock'
    BY <1>1, <1>3 DEF RegisterGate
  <2>2. BasesOK'
    BY <2>1 DEF IInv, BasesOK, BasisOK
  <2> QED
    BY <1>1, <2>1, <2>2, OtherStep
<1>4. CASE UNCHANGED vars
  <2>1. UNCHANGED <<clock, policy, receipts, drawn, attestations, verifications, judges,
                    claims, derived, reports, impacts, work, setting, bases>> /\ clock <= clock'
    BY <1>1, <1>4 DEF vars
  <2>2. BasesOK'
    BY <2>1 DEF IInv, BasesOK, BasisOK
  <2> QED
    BY <1>1, <2>1, <2>2, OtherStep
<1> QED
  BY <1>2, <1>3, <1>4

-----------------------------------------------------------------------------
(* The theorems.                                                           *)

LEMMA InitIInv == Init => IInv
<1> SUFFICES ASSUME Init PROVE IInv
  OBVIOUS
<1>1. IsLog(<<>>) /\ ToSet(<<>>) = {}
  BY EmptySeq DEF IsLog, ToSet
<1>2. policy \in Policies \cup {None}
  BY HistoryAssumption DEF Init
<1>3. Typed
  BY <1>1, <1>2 DEF Init, Typed
<1>4. WorkersOK
  BY IdleOK DEF Init, WorkersOK
<1>5. PlacesOK
  BY DEF Init, PlacesOK, Idle
<1> QED
  BY <1>1, <1>3, <1>4, <1>5
     DEF Init, IInv, AttestationsOK, ClaimsOK, JudgesOK, ReportsOK, ImpactsOK, BasesOK

LEMMA EvidenceNextIInv ==
    ASSUME IInv, EvidenceNext, UNCHANGED <<setting, bases>>
    PROVE  IInv'
<1>1. setting.traces \subseteq Traces /\ setting.documents \subseteq Submissions
  BY HistoryAssumption DEF IInv, Typed
<1>2. ASSUME NEW t \in setting.traces,
             \/ Observe(t) \/ Commit(t) \/ ReadFirst(t) \/ Attest(t)
             \/ Publish(t) \/ Crash(t)
      PROVE  IInv'
  BY <1>1, <1>2, ObserveIInv, CommitIInv, ReadFirstIInv, AttestIInv, PublishIInv, CrashIInv
<1>3. ASSUME NEW t \in setting.traces, NEW principal \in Principals,
             NEW documents \in setting.documents, Issue(t, principal, documents)
      PROVE  IInv'
  BY <1>1, <1>3, IssueIInv
<1>4. ASSUME NEW t \in setting.traces, NEW principal \in Principals,
             NEW listing \in Listings, NEW at \in Composed,
             NEW attestation \in attestations \cup {None}, NEW prior \in claims \cup {None},
             \/ Blocked(t, principal, listing, at)
             \/ SelfAsserted(t, principal, listing, at)
             \/ Quarantine(t, principal, listing, attestation, prior, at)
             \/ Qualify(t, principal, listing, attestation, prior, at)
      PROVE  IInv'
  <2>1. CASE Blocked(t, principal, listing, at)
    <3>1. {"policy"} # {} /\ "policy_blocked" # "qualified"
      OBVIOUS
    <3> QED
      BY <2>1, <3>1, RefusedIInv DEF Blocked
  <2>2. CASE SelfAsserted(t, principal, listing, at)
    <3>1. {"self_asserted"} # {} /\ "quarantined" # "qualified"
      OBVIOUS
    <3> QED
      BY <2>2, <3>1, RefusedIInv DEF SelfAsserted
  <2>3. CASE Quarantine(t, principal, listing, attestation, prior, at)
    <3>1. {Refusal(attestation, principal, listing, at)} # {} /\ "quarantined" # "qualified"
      OBVIOUS
    <3> QED
      BY <2>3, <3>1, RefusedIInv DEF Quarantine
  <2>4. CASE Qualify(t, principal, listing, attestation, prior, at)
    BY <1>1, <2>4, QualifyIInv
  <2> QED
    BY <1>4, <2>1, <2>2, <2>3, <2>4
<1>5. ASSUME NEW t \in setting.traces, NEW principal \in Principals, NEW prior \in claims,
             NEW event \in {"revoked", "expired"}, NEW at \in Composed,
             RecordStatus(t, principal, prior, event, at)
      PROVE  IInv'
  BY <1>5, RecordStatusIInv
<1>6. CASE \/ Tick
           \/ \E p \in setting.policies \ {policy} : Deploy(p)
           \/ \E object \in setting.breakable, state \in {"altered", "lost"} :
                Fault(object, state)
  BY <1>6, EnvironmentIInv
<1>7. None \in attestations \cup {None} /\ None \in claims \cup {None}
  OBVIOUS
<1> QED
  BY <1>2, <1>3, <1>4, <1>5, <1>6, <1>7, SMTT(30) DEF EvidenceNext

LEMMA NextIInv == IInv /\ [Next]_vars => IInv'
BY EvidenceNextIInv, RegisterIInv DEF Next

LEMMA Invariance == Spec => []IInv
<1> QED
  BY InitIInv, NextIInv, PTL DEF Spec

\* A log of n entries that is not empty has a last one of every non-empty set.
LEMMA LastOf ==
    ASSUME NEW log, IsLog(log), NEW S \in SUBSET DOMAIN log, S # {}
    PROVE  Max(S) \in DOMAIN log /\ log[Max(S)] \in ToSet(log)
<1>1. PICK n \in Nat : DOMAIN log = 1..n
  BY LenProperties DEF IsLog
<1>2. Max(S) \in S
  BY <1>1, MaxIn
<1> QED
  BY <1>2 DEF ToSet

\* A receipt that is settled as the first of its observation stays so.
LEMMA SettledStays ==
    ASSUME IInv, [Next]_vars, NEW i \in DOMAIN receipts, Settled(i)
    PROVE  Settled(i)'
<1>1. ASSUME UNCHANGED <<receipts, drawn>>,
             \A u \in Traces : work'[u].job \in {"commit", "attest"} => work'[u] = work[u]
      PROVE  Settled(i)'
  <2>1. \A u \in Traces : work'[u].job = "commit" => Receipt(u)' = Receipt(u)
    BY <1>1 DEF Receipt
  <2>2. ~Outstanding(i)'
    BY <1>1, <2>1 DEF Settled, Outstanding, SameObservation
  <2>3. ~OtherwiseRead(i)'
    BY <1>1 DEF Settled, OtherwiseRead, SameObservation
  <2> QED
    BY <1>1, <2>2, <2>3 DEF Settled, SameObservation
<1>2. ASSUME NEW t \in Traces, Observe(t)
      PROVE  Settled(i)'
  <2>1. PICK k : /\ work' = [work EXCEPT ![t] = k] /\ k.job # "attest"
                 /\ k.job = "commit" => k.place = drawn + 1
                 /\ receipts' = receipts
    <3>1. PICK w \in Attesting : w = work[t] /\ w.job = "observe"
      BY <1>2 DEF Observe, AttestingJobs, IInv, WorkersOK, WorkOK
    <3>2. PICK m : /\ m \in {[w EXCEPT !.job = "read"], Moved(w, "commit", drawn + 1)}
                   /\ work' = [work EXCEPT ![t] = m] /\ receipts' = receipts
      BY <1>2, <3>1 DEF Observe, Moved, IInv, Typed
    <3>3. [w EXCEPT !.job = "read"].job = "read"
      BY DEF Attesting
    <3>4. /\ Moved(w, "commit", drawn + 1).job = "commit"
          /\ Moved(w, "commit", drawn + 1).place = drawn + 1
      BY DEF Moved, Attesting
    <3> QED
      BY <3>2, <3>3, <3>4
  <2>2. work'[t] = k /\ \A x \in Traces \ {t} : work'[x] = work[x]
    BY <2>1 DEF IInv, Typed
  <2>3. ~(drawn + 1 < i)
    BY DEF IInv, Typed
  <2>4. \A u \in Traces \ {t} : Receipt(u)' = Receipt(u)
    BY <2>2 DEF Receipt
  <2>5. ~Outstanding(i)'
    BY <2>1, <2>2, <2>3, <2>4 DEF Settled, Outstanding, SameObservation
  <2>6. ~OtherwiseRead(i)'
    BY <2>1, <2>2 DEF Settled, OtherwiseRead, SameObservation
  <2> QED
    BY <2>1, <2>5, <2>6 DEF Settled, SameObservation
<1>3. ASSUME NEW t \in Traces, Commit(t)
      PROVE  Settled(i)'
  <2>1. PICK k \in Attesting : k = work[t] /\ k.job = "commit"
    BY <1>3 DEF Commit, AttestingJobs, IInv, WorkersOK, WorkOK
  <2>2. PICK p : p = work[t].place
    OBVIOUS
  <2>3. /\ receipts' = [j \in DOMAIN receipts \cup {p} |->
                           IF j = p THEN Receipt(t) ELSE receipts[j]]
        /\ work' = [work EXCEPT ![t] = [k EXCEPT !.job = "read"]]
    BY <1>3, <2>1, <2>2 DEF Commit, IInv, Typed
  <2>4. p \notin DOMAIN receipts
    BY <2>1, <2>2 DEF IInv, PlacesOK
  <2>5. work'[t].job = "read" /\ \A x \in Traces \ {t} : work'[x] = work[x]
    BY <2>1, <2>3 DEF IInv, Typed, Attesting
  <2>6. \A u \in Traces \ {t} : Receipt(u)' = Receipt(u)
    BY <2>5 DEF Receipt
  <2>7. ~(p < i /\ SameObservation(Receipt(t), receipts[i]))
    BY <2>1, <2>2 DEF Settled, Outstanding
  <2>8. /\ DOMAIN receipts' = DOMAIN receipts \cup {p} /\ receipts'[p] = Receipt(t)
        /\ \A j \in DOMAIN receipts : receipts'[j] = receipts[j]
    BY <2>3, <2>4
  <2>9. ~\E j \in DOMAIN receipts' : j < i /\ SameObservation(receipts'[j], receipts'[i])
    BY <2>7, <2>8 DEF Settled
  <2>10. ~Outstanding(i)'
    <3> SUFFICES ASSUME NEW u \in Traces, work'[u].job = "commit", work'[u].place < i,
                        SameObservation(Receipt(u)', receipts'[i])
                 PROVE  FALSE
      BY DEF Outstanding, SameObservation
    <3>1. u # t /\ work'[u] = work[u]
      BY <2>5
    <3> QED
      BY <2>6, <2>8, <3>1 DEF Settled, Outstanding
  <2>11. ~OtherwiseRead(i)'
    <3> SUFFICES ASSUME NEW u \in Traces, work'[u].job = "attest", work'[u].place # i,
                        SameObservation(receipts'[work'[u].place], receipts'[i])
                 PROVE  FALSE
      BY DEF OtherwiseRead, SameObservation
    <3>1. u # t /\ work'[u] = work[u]
      BY <2>5
    <3>2. work[u].place \in DOMAIN receipts
      BY <3>1 DEF IInv, WorkersOK, WorkOK
    <3> QED
      BY <2>8, <3>1, <3>2 DEF Settled, OtherwiseRead
  <2> QED
    BY <2>8, <2>9, <2>10, <2>11 DEF Settled, SameObservation
<1>4. ASSUME NEW t \in Traces, NEW k, k.job \notin {"commit", "attest"},
             work' = [work EXCEPT ![t] = k], UNCHANGED <<receipts, drawn>>
      PROVE  Settled(i)'
  <2>1. work'[t] = k /\ \A x \in Traces \ {t} : work'[x] = work[x]
    BY <1>4 DEF IInv, Typed
  <2> QED
    BY <1>1, <1>4, <2>1
<1>5. Idle.job \notin {"commit", "attest"}
  BY DEF Idle
<1>6. ASSUME NEW t \in Traces, ReadFirst(t)
      PROVE  Settled(i)'
  <2>1. PICK k \in Attesting, first \in DOMAIN receipts :
            /\ first \in Nat /\ SameObservation(receipts[first], Receipt(t))
            /\ \A j \in DOMAIN receipts :
                  SameObservation(receipts[j], Receipt(t)) => first <= j
            /\ work' = [work EXCEPT ![t] = IF k.at < receipts[first].at THEN Idle
                                          ELSE Moved(k, "attest", first)]
    BY <1>6, ReadsFirst
  <2>2. UNCHANGED <<receipts, drawn>>
    BY <1>6 DEF ReadFirst
  <2>3. CASE k.at < receipts[first].at
    BY <1>4, <1>5, <2>1, <2>2, <2>3
  <2>4. CASE ~(k.at < receipts[first].at)
    <3>1. PICK m : m = Moved(k, "attest", first) /\ m.job = "attest" /\ m.place = first
      <4>1. Moved(k, "attest", first).job = "attest" /\ Moved(k, "attest", first).place = first
        BY DEF Moved, Attesting
      <4> QED
        BY <4>1
    <3>2. work'[t] = m /\ \A x \in Traces \ {t} : work'[x] = work[x]
      BY <2>1, <2>4, <3>1 DEF IInv, Typed
    <3>3. SameObservation(receipts[first], receipts[i]) => first = i
      <4>1. SameObservation(receipts[first], receipts[i]) => first <= i /\ ~(first < i)
        BY <2>1 DEF Settled, SameObservation
      <4>2. i \in Int
        BY DEF IInv, Typed
      <4> QED
        BY <2>1, <4>1, <4>2
    <3>4. ~OtherwiseRead(i)'
      BY <2>2, <3>1, <3>2, <3>3 DEF Settled, OtherwiseRead, SameObservation
    <3>5. \A u \in Traces \ {t} : Receipt(u)' = Receipt(u)
      BY <3>2 DEF Receipt
    <3>6. ~Outstanding(i)'
      BY <2>2, <3>1, <3>2, <3>5 DEF Settled, Outstanding, SameObservation
    <3> QED
      BY <2>2, <3>4, <3>6 DEF Settled, SameObservation
  <2> QED
    BY <2>3, <2>4
<1>7. ASSUME NEW t \in Traces, Attest(t) \/ Crash(t)
      PROVE  Settled(i)'
  BY <1>4, <1>5, <1>7 DEF Attest, Crash
<1>8. ASSUME NEW t \in Traces, Publish(t)
      PROVE  Settled(i)'
  <2>1. PICK w : w = work[t] /\ w.job = "publish" /\ Publishing(w)
    BY <1>8 DEF Publish, IInv, WorkersOK, WorkOK
  <2>2. PICK c, j, s : w = [job |-> "publish", claim |-> c, judge |-> j, todo |-> s]
    BY <2>1 DEF Publishing
  <2>3. \A s2 : [w EXCEPT !.todo = s2].job \notin {"commit", "attest"}
    BY <2>2
  <2>4. \E k : k.job \notin {"commit", "attest"} /\ work' = [work EXCEPT ![t] = k]
    BY <1>5, <1>8, <2>1, <2>3 DEF Publish, IInv, Typed
  <2> QED
    BY <1>4, <1>8, <2>4 DEF Publish
<1>9. ASSUME NEW t \in Traces, NEW principal, NEW documents, Issue(t, principal, documents)
      PROVE  Settled(i)'
  <2>1. PICK k : k.job \notin {"commit", "attest"} /\ work' = [work EXCEPT ![t] = k]
    BY <1>9 DEF Issue
  <2> QED
    BY <1>4, <1>9, <2>1 DEF Issue
<1>10. ASSUME NEW t \in Traces, NEW principal, NEW listing, NEW at, NEW attestation, NEW prior,
              Qualify(t, principal, listing, attestation, prior, at)
       PROVE  Settled(i)'
  <2>1. PICK k : k.job \notin {"commit", "attest"} /\ work' = [work EXCEPT ![t] = k]
    BY <1>10 DEF Qualify
  <2> QED
    BY <1>4, <1>10, <2>1 DEF Qualify
<1>11. ASSUME NEW t, NEW principal, NEW listing, NEW at, NEW attestation, NEW prior, NEW event,
              \/ Blocked(t, principal, listing, at)
              \/ SelfAsserted(t, principal, listing, at)
              \/ Quarantine(t, principal, listing, attestation, prior, at)
              \/ RecordStatus(t, principal, prior, event, at)
       PROVE  Settled(i)'
  BY <1>1, <1>11 DEF Blocked, SelfAsserted, Quarantine, Reports, RecordStatus
<1>12. CASE \/ Tick
            \/ \E p \in setting.policies \ {policy} : Deploy(p)
            \/ \E object \in setting.breakable, state \in {"altered", "lost"} :
                 Fault(object, state)
            \/ \E principal \in Principals, terms \in TermsContents :
                 RegisterBasis(principal, terms)
            \/ \E t \in setting.traces, principal \in Principals, claim \in claims,
                 basis \in bases : RegisterGate(t, principal, claim, basis)
            \/ UNCHANGED vars
  <2>1. UNCHANGED <<receipts, drawn, work>>
    BY <1>12 DEF Tick, Deploy, Fault, RegisterBasis, RegisterGate, vars
  <2> QED
    BY <1>1, <2>1
<1>13. setting.traces \subseteq Traces
  BY HistoryAssumption DEF IInv, Typed
<1> QED
  BY <1>2, <1>3, <1>6, <1>7, <1>8, <1>9, <1>10, <1>11, <1>12, <1>13, SMTT(60)
     DEF Next, EvidenceNext

\* A step that attests is an issuer's.
LEMMA NewAttestation ==
    ASSUME IInv, [Next]_vars, NEW a \in attestations' \ attestations
    PROVE  \E t \in Traces : Attest(t)
<1>1. setting.traces \subseteq Traces
  BY HistoryAssumption DEF IInv, Typed
<1>2. attestations' # attestations
  OBVIOUS
<1>3. ASSUME NEW t, Observe(t) \/ Commit(t) \/ ReadFirst(t) \/ Publish(t) \/ Crash(t)
      PROVE  FALSE
  BY <1>2, <1>3 DEF Observe, Commit, ReadFirst, Publish, Crash
<1>4. ASSUME NEW t, NEW principal, NEW documents, Issue(t, principal, documents)
      PROVE  FALSE
  BY <1>2, <1>4 DEF Issue
<1>5. ASSUME NEW t, NEW principal, NEW listing, NEW at, NEW attestation, NEW prior, NEW event,
             \/ Blocked(t, principal, listing, at)
             \/ SelfAsserted(t, principal, listing, at)
             \/ Quarantine(t, principal, listing, attestation, prior, at)
             \/ Qualify(t, principal, listing, attestation, prior, at)
             \/ RecordStatus(t, principal, prior, event, at)
      PROVE  FALSE
  BY <1>2, <1>5 DEF Blocked, SelfAsserted, Quarantine, Reports, Qualify, RecordStatus
<1>6. CASE \/ Tick
           \/ \E p \in setting.policies \ {policy} : Deploy(p)
           \/ \E object \in setting.breakable, state \in {"altered", "lost"} :
                Fault(object, state)
           \/ \E principal \in Principals, terms \in TermsContents :
                RegisterBasis(principal, terms)
           \/ \E t \in setting.traces, principal \in Principals, claim \in claims,
                basis \in bases : RegisterGate(t, principal, claim, basis)
           \/ UNCHANGED vars
  BY <1>2, <1>6 DEF Tick, Deploy, Fault, RegisterBasis, RegisterGate, vars
<1> QED
  BY <1>1, <1>3, <1>4, <1>5, <1>6, SMTT(60) DEF Next, EvidenceNext

\* Once no insert with a lower place is open, nor another receipt read and yet
\* to be attested, the first receipt of a content at a distribution is settled
\* for good, and every attestation from then on names it
\* (find_first_source_retrieval_receipt, issue).
THEOREM FirstObservation == Spec => FirstObservationSettles
<1>1. ASSUME IInv, [Next]_vars, NEW a \in attestations' \ attestations
      PROVE  /\ a.receipt \in Range(receipts) /\ a.receipt.at <= a.at
             /\ \A i \in DOMAIN receipts :
                   (Settled(i) /\ SameObservation(a.receipt, receipts[i]))
                       => a.receipt = receipts[i]
  <2>1. PICK t \in Traces : Attest(t)
    BY <1>1, NewAttestation
  <2>2. /\ work[t].place \in DOMAIN receipts
        /\ receipts[work[t].place].at <= work[t].at
    BY <1>1, <2>1 DEF Attest, IInv, WorkersOK, WorkOK
  <2>3. a.receipt = receipts[work[t].place] /\ a.at = work[t].at
    BY <1>1, <2>1 DEF Attest, Attestation
  <2>4. ASSUME NEW i \in DOMAIN receipts, Settled(i), SameObservation(a.receipt, receipts[i])
        PROVE  a.receipt = receipts[i]
    BY <2>1, <2>3, <2>4 DEF Attest, Settled, OtherwiseRead
  <2> QED
    BY <2>2, <2>3, <2>4 DEF Range
<1>2. IInv /\ [Next]_vars =>
        [/\ \A i \in DOMAIN receipts : Settled(i) => Settled(i)'
         /\ \A a \in attestations' \ attestations :
               /\ a.receipt \in Range(receipts) /\ a.receipt.at <= a.at
               /\ \A i \in DOMAIN receipts :
                     (Settled(i) /\ SameObservation(a.receipt, receipts[i]))
                         => a.receipt = receipts[i]]_vars
  BY <1>1, SettledStays
<1> QED
  BY <1>2, Invariance, PTL DEF Spec, FirstObservationSettles

\* What historical_qualification_projections shows as qualified the verifier
\* accepts (is_usable), and what its report names is there (_build_reconstruction).
THEOREM ShownWhole == Spec => []ShownQualifiedIsWhole
<1>1. ASSUME IInv PROVE ShownQualifiedIsWhole
  <2> SUFFICES ASSUME NEW listing \in Listings, Shown(listing, clock).status = "qualified"
               PROVE  LET shown == Shown(listing, clock)
                      IN  /\ IsUsable(shown.claim, clock)
                          /\ \A kind \in ToSet(DerivedKinds) : <<kind, shown.claim>> \in derived
                          /\ \A h \in Horizons : LabelStatus(Evidence(shown.claim), h) = "mature"
    BY DEF ShownQualifiedIsWhole
  <2> DEFINE its == ReportsFor(listing)
             report == reports[Max(its)]
             on == ImpactsOn(report.claim)
  <2>1. /\ its # {} /\ Shown(listing, clock).claim = report.claim
        /\ ReportStatus(report, clock) = "qualified"
    BY DEF Shown
  <2>2. its \in SUBSET DOMAIN reports /\ on \in SUBSET DOMAIN impacts
    BY DEF ReportsFor, ImpactsOn
  <2> HIDE DEF its, on
  <2>3. report \in ToSet(reports)
    BY <1>1, <2>1, <2>2, LastOf DEF IInv, Typed
  <2> HIDE DEF report
  <2>4. report.status = "qualified"
    BY <2>1 DEF ReportStatus
  <2>5. Complete(report.claim) /\ report.exclusions = Exclusions(Evidence(report.claim))
    BY <1>1, <2>3, <2>4 DEF IInv, ReportsOK, ReportOK
  <2>6. on = {}
    <3> SUFFICES ASSUME on # {} PROVE FALSE
      OBVIOUS
    <3>1. impacts[Max(on)].event \in {"superseded", "revoked", "expired"}
      BY <1>1, <2>2, LastOf DEF IInv, Typed, ImpactsOK
    <3>2. ReportStatus(report, clock) = IF impacts[Max(on)].event = "superseded"
                                        THEN "expired" ELSE impacts[Max(on)].event
      BY <2>4 DEF ReportStatus, on
    <3> QED
      BY <2>1, <3>1, <3>2
  <2>7. ~(clock >= Evidence(report.claim).until) /\ report.exclusions = {}
    BY <2>1, <2>4, <2>6 DEF ReportStatus, on
  <2>8. IsUsable(report.claim, clock)
    <3>1. /\ ClaimOK(report.claim) /\ report.claim \in claims
          /\ "historical_reconstruction" \in report.claim.verification.scope
          /\ report.claim.verification \in verifications
      BY <1>1, <2>5 DEF Complete, IInv, ClaimsOK
    <3>2. Evidence(report.claim).from <= clock
      BY <3>1 DEF ClaimOK, Evidence
    <3>3. Evidence(report.claim).until \in Nat /\ clock \in Nat
      BY <1>1, <3>1, HistoryAssumption
         DEF IInv, Typed, ClaimOK, AttestationsOK, AttestationOK, Evidence
    <3>4. clock < Evidence(report.claim).until
      BY <2>7, <3>3
    <3> QED
      BY <2>6, <3>1, <3>2, <3>4 DEF IsUsable, on
  <2>9. \A h \in Horizons : LabelStatus(Evidence(report.claim), h) = "mature"
    BY <2>5, <2>7 DEF Exclusions
  <2> QED
    BY <2>1, <2>5, <2>8, <2>9 DEF Complete
<1> QED
  BY <1>1, Invariance, PTL

\* A claim a history may formally be used under was collected under terms its
\* gate archives (formal_qualification_available), not an engineering contract's,
\* and none of those who judged it collected it (_validated_evidence).
THEOREM FormalUse == Spec => []FormalUseIsEarned
<1>1. ASSUME IInv PROVE FormalUseIsEarned
  <2> SUFFICES ASSUME NEW claim \in claims, FormalQualificationAvailable(claim, clock)
               PROVE  LET attestation == claim.verification.attestation
                      IN  /\ attestation.policy.access \in {"open_data_terms", "zero_fee_plan"}
                          /\ attestation.policy.terms = Last(gates).basis.terms
                          /\ Exclusions(attestation.evidence) = {}
                          /\ ~\E i \in DOMAIN impacts : impacts[i].prior = claim
                          /\ JudgesOf(claim) # {}
                          /\ attestation.collector \notin JudgesOf(claim)
    BY DEF FormalUseIsEarned
  <2> DEFINE attestation == claim.verification.attestation
             basis == Last(gates).basis
  <2>1. /\ IsFormallyReconstructable(claim, clock)
        /\ basis \in bases /\ attestation.policy.id \in basis.policies
    BY DEF FormalQualificationAvailable, BasisHolds, BasisCovers
  <2>2. attestation.policy \in Policies
    BY <1>1 DEF IInv, ClaimsOK, ClaimOK, AttestationsOK, AttestationOK
  <2> HIDE DEF basis
  <2>3. PICK p \in Policies :
          /\ p.access \in {"open_data_terms", "zero_fee_plan"}
          /\ basis.policies = p.members /\ basis.terms = p.terms
    BY <1>1, <2>1 DEF IInv, BasesOK, BasisOK
  <2>4. attestation.policy.access = p.access /\ attestation.policy.terms = p.terms
    BY <2>1, <2>2, <2>3, QualificationAssumption
  <2>5. PICK i \in DOMAIN reports : reports[i].claim = claim /\ reports[i].exclusions = {}
    BY <2>1 DEF IsFormallyReconstructable, ReportsOn
  <2>6. Exclusions(attestation.evidence) = {}
    <3>1. ReportOK(reports[i])
      BY <1>1 DEF IInv, ReportsOK, ToSet
    <3> QED
      BY <2>5, <3>1 DEF ReportOK, Evidence
  <2>7. ~\E j \in DOMAIN impacts : impacts[j].prior = claim
    BY <2>1 DEF IsFormallyReconstructable, IsUsable, ImpactsOn
  <2>8. JudgesOf(claim) # {} /\ attestation.collector \notin JudgesOf(claim)
    <3>1. claim.verification \in verifications /\ JudgesOK
      BY <1>1 DEF IInv, ClaimsOK
    <3>2. \A x : <<claim.verification, x>> \in judges => x # attestation.collector
      BY <3>1 DEF JudgesOK
    <3> QED
      BY <3>1, <3>2 DEF JudgesOf, JudgesOK
  <2> QED
    BY <2>3, <2>4, <2>6, <2>7, <2>8 DEF basis
<1> QED
  BY <1>1, Invariance, PTL

LEMMA ImpactsStay ==
    ASSUME IInv, Next
    PROVE  /\ clock <= clock'
           /\ \A i \in DOMAIN impacts : i \in DOMAIN impacts' /\ impacts'[i] = impacts[i]
<1>1. clock \in Nat /\ clock <= clock
  BY DEF IInv, Typed
<1>2. ASSUME NEW e, impacts' = Referenced(impacts, e)
      PROVE  \A i \in DOMAIN impacts : i \in DOMAIN impacts' /\ impacts'[i] = impacts[i]
  <2>1. Extends(impacts, impacts', e)
    BY <1>2, ReferencedGrows DEF IInv, Typed
  <2> QED
    BY <2>1 DEF Extends
<1>3. ASSUME NEW t, Publish(t) PROVE clock' = clock /\ \E e : impacts' \in {impacts, Referenced(impacts, e)}
  <2>1. PICK e : e = Impact(t, "superseded", work[t].claim.supersedes, work[t].claim,
                            work[t].claim.verification.verified)
    OBVIOUS
  <2> QED
    BY <1>3, <2>1 DEF Publish
<1>4. ASSUME NEW t, NEW principal, NEW prior, NEW event, NEW at,
             RecordStatus(t, principal, prior, event, at)
      PROVE  clock' = clock /\ \E e : impacts' = Referenced(impacts, e)
  BY <1>4 DEF RecordStatus
<1>5. CASE \/ \E t \in setting.traces :
                 Observe(t) \/ Commit(t) \/ ReadFirst(t) \/ Attest(t) \/ Crash(t)
           \/ \E t \in setting.traces, principal \in Principals,
                 documents \in setting.documents : Issue(t, principal, documents)
           \/ \E p \in setting.policies \ {policy} : Deploy(p)
           \/ \E object \in setting.breakable, state \in {"altered", "lost"} :
                 Fault(object, state)
           \/ \E principal \in Principals, terms \in TermsContents :
                 RegisterBasis(principal, terms)
           \/ \E t \in setting.traces, principal \in Principals, claim \in claims,
                 basis \in bases : RegisterGate(t, principal, claim, basis)
  <2>1. clock' = clock /\ impacts' = impacts
    BY <1>5 DEF Observe, Commit, ReadFirst, Attest, Crash, Issue, Deploy, Fault, RegisterBasis, RegisterGate
  <2> QED
    BY <1>1, <2>1
<1>6. ASSUME NEW t, NEW principal, NEW listing, NEW at, NEW attestation, NEW prior,
             \/ Blocked(t, principal, listing, at)
             \/ SelfAsserted(t, principal, listing, at)
             \/ Quarantine(t, principal, listing, attestation, prior, at)
             \/ Qualify(t, principal, listing, attestation, prior, at)
      PROVE  /\ clock <= clock'
             /\ \A i \in DOMAIN impacts : i \in DOMAIN impacts' /\ impacts'[i] = impacts[i]
  <2>1. clock' = clock /\ impacts' = impacts
    BY <1>6 DEF Blocked, SelfAsserted, Quarantine, Reports, Qualify
  <2> QED
    BY <1>1, <2>1
<1>7. CASE Tick
  BY <1>1, <1>7 DEF Tick
<1> QED
  BY <1>1, <1>2, <1>3, <1>4, <1>5, <1>6, <1>7 DEF Next, EvidenceNext

\* The impacts are append-only, so a claim that stopped counting never counts
\* again (is_usable).
THEOREM EndedForGood == Spec => EndedStaysEnded
<1>1. ASSUME IInv, [Next]_vars, NEW claim \in claims, clock >= Evidence(claim).from,
             ~IsUsable(claim, clock), "historical_reconstruction" \in claim.verification.scope
      PROVE  ~IsUsable(claim, clock)'
  <2>1. /\ clock <= clock'
        /\ \A i \in DOMAIN impacts : i \in DOMAIN impacts' /\ impacts'[i] = impacts[i]
    <3>1. CASE Next
      BY <1>1, <3>1, ImpactsStay
    <3>2. CASE UNCHANGED vars
      BY <1>1, <3>2 DEF vars, IInv, Typed
    <3> QED
      BY <1>1, <3>1, <3>2
  <2>2. /\ Evidence(claim).from \in Nat /\ Evidence(claim).until \in Nat /\ clock \in Nat
        /\ claim.verification \in verifications
    BY <1>1, HistoryAssumption
       DEF IInv, Typed, ClaimsOK, ClaimOK, AttestationsOK, AttestationOK, Evidence
  <2>3. clock' \in Nat
    BY <1>1, NextIInv DEF IInv, Typed
  <2>4. clock >= Evidence(claim).until \/ ImpactsOn(claim) # {}
    BY <1>1, <2>2 DEF IsUsable
  <2>5. CASE clock >= Evidence(claim).until
    <3>1. ~(clock' < Evidence(claim).until)
      BY <2>1, <2>2, <2>3, <2>5
    <3> QED
      BY <3>1 DEF IsUsable, Evidence
  <2>6. CASE ImpactsOn(claim) # {}
    <3>1. ImpactsOn(claim)' # {}
      BY <2>1, <2>6 DEF ImpactsOn
    <3> QED
      BY <3>1 DEF IsUsable
  <2> QED
    BY <2>4, <2>5, <2>6
<1>2. IInv /\ [Next]_vars =>
          [\A claim \in claims :
            (clock >= Evidence(claim).from /\ ~IsUsable(claim, clock)
                /\ "historical_reconstruction" \in claim.verification.scope)
            => ~IsUsable(claim, clock)']_vars
  BY <1>1
<1> QED
  BY <1>2, Invariance, PTL DEF Spec, EndedStaysEnded

================================================================================
