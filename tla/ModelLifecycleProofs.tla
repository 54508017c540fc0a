--------------------------- MODULE ModelLifecycleProofs ---------------------------
(***************************************************************************)
(* Proofs about ModelLifecycle, for any candidates, evidence, profiles,    *)
(* durations and bounds.  Beyond type correctness they suppose that a      *)
(* caller expects a version it has observed, Lookahead = 0.                *)
(*                                                                         *)
(* The ledger only grows, so an invariant says of each event what held of  *)
(* the events before it when it was appended.                              *)
(***************************************************************************)
EXTENDS ModelLifecycle, SequenceTheorems, FiniteSetTheorems,
        WellFoundedInduction, TLAPS

-----------------------------------------------------------------------------
(* Ledgers.                                                                *)

LEMMA NewestIn ==
    ASSUME NEW n \in Nat, NEW S \in SUBSET (1..n), S # {}
    PROVE  Newest(S) \in S /\ \A y \in S : y <= Newest(S)
<1> DEFINE Above(s) == {k \in 1..n : k > s}
           T == {Above(s) : s \in S}
           R == StrictSubsetOrdering(1..n)
<1>1. T \subseteq FiniteSubsetsOf(1..n) /\ T # {}
  <2>1. IsFiniteSet(1..n)
    BY FS_Interval
  <2>2. ASSUME NEW s \in S
        PROVE  Above(s) \in SUBSET (1..n) /\ IsFiniteSet(Above(s))
    BY <2>1, FS_Subset
  <2> QED
    BY <2>2 DEF FiniteSubsetsOf
<1>2. \E x \in T : \A y \in T : ~(<<y, x>> \in R)
  <2>1. IsWellFoundedOn(R, FiniteSubsetsOf(1..n))
    BY FS_StrictSubsetOrderingWellFounded
  <2> HIDE DEF T, R
  <2> QED
    BY <1>1, <2>1, WFMin
<1>3. PICK s \in S : \A y \in S : ~(<<Above(y), Above(s)>> \in R)
  BY <1>2
<1>4. ASSUME NEW y \in S PROVE s >= y
  <2> SUFFICES ASSUME ~(s >= y) PROVE FALSE
    OBVIOUS
  <2>1. Above(y) \subseteq Above(s)
    OBVIOUS
  <2>2. y \in Above(s) /\ y \notin Above(y)
    OBVIOUS
  <2> QED
    BY <1>3, <2>1, <2>2 DEF StrictSubsetOrdering
<1>5. \E x \in S : \A y \in S : y <= x
  BY <1>4
<1> QED
  BY <1>5 DEF Newest

\* OfKind and About in any ledger.
KindIn(L, kind, v) == {i \in 1..v : L[i].kind = kind}
AboutIn(L, kind, c, v) == {i \in KindIn(L, kind, v) : L[i].candidate = c}

LEMMA NewestZero ==
    ASSUME NEW n \in Nat, NEW S \in SUBSET (1..n)
    PROVE  /\ Newest(S) \in S \cup {0} /\ Newest(S) \in 0..n
           /\ Newest(S) = 0 <=> S = {}
<1>1. CASE S = {}
  BY <1>1 DEF Newest
<1>2. CASE S # {}
  <2>1. Newest(S) \in S
    BY <1>2, NewestIn
  <2>2. Newest(S) \in 1..n
    BY <2>1
  <2>3. Newest(S) # 0 /\ Newest(S) \in 0..n
    BY <2>2
  <2> QED
    BY ONLY <1>2, <2>1, <2>3
<1> QED
  BY <1>1, <1>2

LEMMA Appended ==
    ASSUME NEW L \in Seq(Event), NEW e \in Event
    PROVE  /\ Append(L, e) \in Seq(Event)
           /\ Len(L) \in Nat /\ DOMAIN L = 1..Len(L)
           /\ Len(Append(L, e)) = Len(L) + 1
           /\ Append(L, e)[Len(L) + 1] = e
           /\ \A i \in 1..Len(L) : Append(L, e)[i] = L[i] /\ L[i] \in Event
           /\ L \o <<e>> = Append(L, e)
<1>1. /\ Append(L, e) \in Seq(Event)
      /\ Len(Append(L, e)) = Len(L) + 1
      /\ Append(L, e)[Len(L) + 1] = e
      /\ \A i \in 1..Len(L) : Append(L, e)[i] = L[i]
  BY AppendProperties
<1>2. /\ Len(L) \in Nat /\ DOMAIN L = 1..Len(L)
      /\ \A i \in 1..Len(L) : L[i] \in Event
  BY LenProperties, ElementOfSeq
<1>3. L \o <<e>> = Append(L, e)
  <2>1. <<e>> \in Seq(Event) /\ Len(<<e>>) = 1 /\ <<e>>[1] = e
    OBVIOUS
  <2>2. /\ L \o <<e>> \in Seq(Event)
        /\ Len(L \o <<e>>) = Len(L) + 1
        /\ \A i \in 1..(Len(L) + 1) : (L \o <<e>>)[i] =
              IF i <= Len(L) THEN L[i] ELSE <<e>>[i - Len(L)]
    BY <2>1, ConcatProperties
  <2>3. \A i \in 1..(Len(L) + 1) : (L \o <<e>>)[i] = Append(L, e)[i]
    <3> SUFFICES ASSUME NEW i \in 1..(Len(L) + 1)
                 PROVE  (L \o <<e>>)[i] = Append(L, e)[i]
      OBVIOUS
    <3>1. CASE i <= Len(L)
      BY <1>1, <1>2, <2>2, <3>1
    <3>2. CASE i = Len(L) + 1
      <4>1. ~(i <= Len(L)) /\ i - Len(L) = 1
        BY <1>2, <3>2
      <4> QED
        BY <1>1, <2>1, <2>2, <3>2, <4>1
    <3> QED
      BY <1>2, <3>1, <3>2
  <2> QED
    BY <1>1, <2>2, <2>3, SeqEqual
<1> QED
  BY <1>1, <1>2, <1>3

\* What was read of the first v events can be read again.
LEMMA SameBefore ==
    ASSUME NEW L \in Seq(Event), NEW e \in Event, NEW v \in 0..Len(L), NEW kind
    PROVE  /\ KindIn(Append(L, e), kind, v) = KindIn(L, kind, v)
           /\ \A c : AboutIn(Append(L, e), kind, c, v) = AboutIn(L, kind, c, v)
<1>1. \A i \in 1..v : Append(L, e)[i] = L[i]
  BY Appended
<1> QED
  BY <1>1 DEF KindIn, AboutIn

LEMMA EventOfKind ==
    ASSUME NEW e \in Event
    PROVE  /\ e.kind = "CandidateRecorded" => e \in CandidateEvent
           /\ e.kind = "GateDecisionRecorded" => e \in GateEvent
           /\ e.kind = "ApprovalDecisionRecorded" => e \in ApprovalEvent
           /\ e.kind = "ShadowEodRecorded" => e \in ShadowEvent
           /\ e.kind = "ShadowEodBlocked" => e \in BlockedEvent
           /\ e.kind \in {"PromotionEventRecorded", "RollbackEventRecorded"} =>
                 e \in TransitionEvent
           /\ e.kind = "ProductionAssignmentCreated" => e \in AssignmentEvent
BY DEF Event, CandidateEvent, GateEvent, ApprovalEvent, ShadowEvent,
       BlockedEvent, TransitionEvent, AssignmentEvent

-----------------------------------------------------------------------------
(* Types, whatever versions callers expect.                                *)

\* What the types of later events rely on: passed gates have evidence, and a
\* predecessor is an assignment.
Fits(L, v, e) ==
    /\ e.kind = "GateDecisionRecorded" /\ e.passed => e.evidence \in Evidence
    /\ e.kind = "ProductionAssignmentCreated" =>
          e.previous \in KindIn(L, "ProductionAssignmentCreated", v) \cup {0}

LedgerFits(L) == \A i \in 1..Len(L) : Fits(L, i - 1, L[i])

TypeInv == TypeOK /\ LedgerFits(ledger)

LEMMA FitsGrows ==
    ASSUME NEW L \in Seq(Event), LedgerFits(L),
           NEW e \in Event, Fits(L, Len(L), e)
    PROVE  LedgerFits(Append(L, e))
<1> DEFINE M == Append(L, e)
<1> SUFFICES ASSUME NEW i \in 1..Len(M) PROVE Fits(M, i - 1, M[i])
  BY DEF LedgerFits
<1>1. /\ Len(M) = Len(L) + 1 /\ Len(L) \in Nat /\ M[Len(L) + 1] = e
      /\ \A k \in 1..Len(L) : M[k] = L[k]
  BY Appended
<1>2. i - 1 \in 0..Len(L)
  BY <1>1
<1>3. KindIn(M, "ProductionAssignmentCreated", i - 1)
        = KindIn(L, "ProductionAssignmentCreated", i - 1)
  BY <1>2, SameBefore
<1>4. Fits(L, i - 1, M[i])
  <2>1. CASE i \in 1..Len(L)
    BY <1>1, <2>1 DEF LedgerFits
  <2>2. CASE i = Len(L) + 1
    BY <1>1, <2>2
  <2> QED
    BY <1>1, <2>1, <2>2
<1> QED
  BY <1>3, <1>4 DEF Fits

LEMMA RecordedOne ==
    ASSUME TypeInv, NEW e \in Event, NEW b \in BOOLEAN, Record(<<e>>, b),
           Fits(ledger, Len(ledger), e)
    PROVE  ledger' = Append(ledger, e) /\ now' = now /\ TypeInv'
<1>1. ledger \in Seq(Event) /\ Len(ledger) \in Nat /\ setbacks \in 0..MaxSetbacks
      /\ now \in Times
  BY LenProperties DEF TypeInv, TypeOK
<1>2. ledger' = Append(ledger, e)
  BY <1>1, Appended DEF Record
<1>3. PICK s \in {0, 1} : Room(1, s) /\ setbacks' = setbacks + s
  BY DEF Record
<1>4. Len(ledger) + 1 <= MaxEvents /\ setbacks' \in 0..MaxSetbacks
  BY <1>1, <1>3, LifecycleAssumption, LenProperties DEF Room, MaxSetbacks, MaxEvents
<1>5. ledger' \in Seq(Event) /\ Len(ledger') = Len(ledger) + 1
  BY <1>1, <1>2, Appended
<1>6. LedgerFits(ledger')
  BY <1>1, <1>2, FitsGrows DEF TypeInv
<1>7. now' = now
  BY DEF Record
<1> QED
  BY <1>1, <1>2, <1>4, <1>5, <1>6, <1>7 DEF TypeInv, TypeOK

\* The two events of a promotion or a rollback.
LEMMA RecordedTwo ==
    ASSUME TypeInv, NEW d \in Event, NEW e \in Event, Record(<<d, e>>, FALSE),
           Fits(ledger, Len(ledger), d), Fits(Append(ledger, d), Len(ledger) + 1, e)
    PROVE  /\ ledger' = Append(Append(ledger, d), e)
           /\ now' = now /\ TypeInv'
<1> DEFINE L == Append(ledger, d)
<1>1. ledger \in Seq(Event) /\ Len(ledger) \in Nat /\ setbacks \in 0..MaxSetbacks
      /\ now \in Times
  BY LenProperties DEF TypeInv, TypeOK
<1>2. L \in Seq(Event) /\ Len(L) = Len(ledger) + 1 /\ ledger \o <<d>> = L
  BY <1>1, Appended
<1>3. L \o <<e>> = Append(L, e) /\ Append(L, e) \in Seq(Event)
      /\ Len(Append(L, e)) = Len(ledger) + 2
  BY <1>1, <1>2, Appended
<1>4. ledger \o <<d, e>> = Append(L, e)
  <2>1. /\ <<d, e>> \in Seq(Event) /\ Len(<<d, e>>) = 2
        /\ <<d, e>>[1] = d /\ <<d, e>>[2] = e
    OBVIOUS
  <2> DEFINE n == Len(ledger)
  <2>2. /\ ledger \o <<d, e>> \in Seq(Event)
        /\ Len(ledger \o <<d, e>>) = n + 2
        /\ \A i \in 1..(n + 2) : (ledger \o <<d, e>>)[i] =
              IF i <= n THEN ledger[i] ELSE <<d, e>>[i - n]
    BY <1>1, <2>1, ConcatProperties
  <2>3. /\ \A i \in 1..n : Append(L, e)[i] = ledger[i]
        /\ Append(L, e)[n + 1] = d /\ Append(L, e)[n + 2] = e
    BY <1>1, <1>2, Appended
  <2>4. \A i \in 1..(n + 2) : (ledger \o <<d, e>>)[i] = Append(L, e)[i]
    <3> SUFFICES ASSUME NEW i \in 1..(n + 2)
                 PROVE  (ledger \o <<d, e>>)[i] = Append(L, e)[i]
      OBVIOUS
    <3>1. CASE i \in 1..n
      BY <2>2, <2>3, <3>1
    <3>2. CASE i = n + 1
      <4>1. ~(i <= n) /\ i - n = 1
        BY <1>1, <3>2
      <4> QED
        BY <2>1, <2>2, <2>3, <3>2, <4>1
    <3>3. CASE i = n + 2
      <4>1. ~(i <= n) /\ i - n = 2
        BY <1>1, <3>3
      <4> QED
        BY <2>1, <2>2, <2>3, <3>3, <4>1
    <3> QED
      BY <1>1, <3>1, <3>2, <3>3
  <2> QED
    BY <1>3, <2>2, <2>4, SeqEqual
<1>5. ledger' = Append(L, e)
  BY <1>4 DEF Record
<1>6. Room(2, 0) /\ setbacks' = setbacks
  BY <1>1 DEF Record
<1>7. Len(ledger) + 2 <= MaxEvents
  BY <1>1, <1>6, LifecycleAssumption, LenProperties DEF Room, MaxSetbacks, MaxEvents
<1>8. LedgerFits(Append(L, e))
  <2>1. LedgerFits(L)
    BY <1>1, FitsGrows DEF TypeInv
  <2> QED
    BY <1>2, <2>1, FitsGrows
<1>9. now' = now
  BY DEF Record
<1> QED
  BY <1>1, <1>3, <1>5, <1>6, <1>7, <1>8, <1>9 DEF TypeInv, TypeOK

\* What a command finds in the ledger.
LEMMA ReadsBefore ==
    ASSUME TypeInv, NEW n \in Nat, NEW s \in Reads(n)
    PROVE  \A i \in 1..n : s[i] \in Seen /\ s[i] \in 0..Len(ledger)
BY DEF Reads, Seen

LEMMA Found ==
    ASSUME TypeInv, NEW v \in 0..Len(ledger), NEW kind, NEW c,
           NEW p, p = Newest(About(kind, c, v))
    PROVE  /\ p \in 0..Len(ledger) /\ p \in 0..v /\ p \in Versions
           /\ p # 0 => /\ p \in About(kind, c, v)
                       /\ ledger[p] \in Event
                       /\ ledger[p].kind = kind /\ ledger[p].candidate = c
<1>1. Len(ledger) \in Nat /\ v \in Nat /\ \A i \in 1..Len(ledger) : ledger[i] \in Event
  BY LenProperties, ElementOfSeq DEF TypeInv, TypeOK
<1> DEFINE S == About(kind, c, v)
<1>2. S \in SUBSET (1..v) /\ \A i \in S : ledger[i].kind = kind /\ ledger[i].candidate = c
  BY DEF About, OfKind
<1>3. p \in S \cup {0} /\ p \in 0..v
  <2> HIDE DEF S
  <2> QED
    BY <1>1, <1>2, NewestZero DEF S
<1>4. MaxEvents \in Nat /\ Len(ledger) <= MaxEvents
  BY LifecycleAssumption, LenProperties, ElementOfSeq DEF MaxEvents, TypeInv, TypeOK
<1>5. p \in 0..Len(ledger) /\ p \in Versions
  BY <1>1, <1>3, <1>4 DEF Versions
<1> QED
  BY <1>1, <1>2, <1>3, <1>5

LEMMA FoundAssignment ==
    ASSUME TypeInv, NEW v \in 0..Len(ledger), NEW p, p = CurrentAssignment(v)
    PROVE  /\ p \in 0..v /\ p \in Versions
           /\ p \in KindIn(ledger, "ProductionAssignmentCreated", v) \cup {0}
           /\ p # 0 => ledger[p] \in AssignmentEvent
<1>1. Len(ledger) \in Nat /\ v \in Nat /\ \A i \in 1..Len(ledger) : ledger[i] \in Event
  BY LenProperties, ElementOfSeq DEF TypeInv, TypeOK
<1> DEFINE S == KindIn(ledger, "ProductionAssignmentCreated", v)
<1>2. /\ S \in SUBSET (1..v) /\ p = Newest(S)
      /\ \A i \in S : ledger[i].kind = "ProductionAssignmentCreated"
  BY DEF CurrentAssignment, Assignments, OfKind, KindIn
<1>3. p \in S \cup {0} /\ p \in 0..v
  <2> HIDE DEF S
  <2> QED
    BY <1>1, <1>2, NewestZero
<1>4. MaxEvents \in Nat /\ Len(ledger) <= MaxEvents
  BY LifecycleAssumption, LenProperties, ElementOfSeq DEF MaxEvents, TypeInv, TypeOK
<1>5. p \in 0..Len(ledger) /\ p \in Versions
  BY <1>1, <1>3, <1>4 DEF Versions
<1>6. p # 0 => ledger[p] \in AssignmentEvent
  BY <1>1, <1>2, <1>3, <1>5, EventOfKind
<1> QED
  BY <1>3, <1>5, <1>6

LEMMA RecordCandidateType ==
    ASSUME TypeInv, NEW c \in Candidates, NEW qualified \in BOOLEAN,
           RecordCandidate(c, qualified)
    PROVE  \E e \in CandidateEvent :
              ledger' = Append(ledger, e) /\ now' = now /\ TypeInv'
<1> DEFINE e == [kind |-> "CandidateRecorded", candidate |-> c,
                 qualified |-> qualified]
<1>1. e \in CandidateEvent /\ e \in Event /\ e.kind = "CandidateRecorded"
  BY DEF CandidateEvent, Event
<1>2. PICK b \in BOOLEAN : b = (~qualified \/ CandidateOf(c, Len(ledger)) # 0)
  OBVIOUS
<1>3. Record(<<e>>, b)
  BY <1>2 DEF RecordCandidate
<1>4. Fits(ledger, Len(ledger), e)
  BY DEF Fits
<1> HIDE DEF e
<1> QED
  BY <1>1, <1>3, <1>4, RecordedOne

LEMMA EvaluateBootstrapType ==
    ASSUME TypeInv, NEW c \in Candidates, NEW ev \in Evidence,
           NEW passed \in BOOLEAN, EvaluateBootstrap(c, ev, passed)
    PROVE  \E e \in GateEvent, s \in Reads(2) :
              /\ ledger' = Append(ledger, e) /\ now' = now /\ TypeInv'
              /\ e = [kind |-> "GateDecisionRecorded", candidate |-> c,
                      evidence |-> ev, passed |-> passed]
              /\ CandidateOf(c, s[1]) # 0
              /\ passed => BootstrapOpen(CandidateOf(c, s[1]), s[2])
<1> DEFINE e == [kind |-> "GateDecisionRecorded", candidate |-> c,
                 evidence |-> ev, passed |-> passed]
<1>1. e \in GateEvent /\ e \in Event /\ e.kind = "GateDecisionRecorded"
      /\ e.evidence = ev
  BY DEF GateEvent, Event
<1>2. PICK s \in Reads(2) :
        /\ CandidateOf(c, s[1]) # 0
        /\ passed => BootstrapOpen(CandidateOf(c, s[1]), s[2])
        /\ Record(<<e>>, ~passed \/ LatestGate(c, Len(ledger)) # 0)
  BY DEF EvaluateBootstrap
<1>3. PICK b \in BOOLEAN : b = (~passed \/ LatestGate(c, Len(ledger)) # 0)
  OBVIOUS
<1>4. Record(<<e>>, b)
  BY <1>2, <1>3
<1>5. Fits(ledger, Len(ledger), e)
  BY <1>1 DEF Fits
<1>6. ledger' = Append(ledger, e) /\ now' = now /\ TypeInv'
  <2> HIDE DEF e
  <2> QED
    BY <1>1, <1>4, <1>5, RecordedOne
<1> QED
  BY <1>1, <1>2, <1>6

LEMMA RecordDevelopmentFailureType ==
    ASSUME TypeInv, RecordDevelopmentFailure
    PROVE  \E e \in GateEvent :
              /\ ledger' = Append(ledger, e) /\ now' = now /\ TypeInv'
              /\ ~e.passed
<1> DEFINE e == [kind |-> "GateDecisionRecorded", candidate |-> None,
                 evidence |-> None, passed |-> FALSE]
<1>1. e \in GateEvent /\ e \in Event /\ ~e.passed
  BY DEF GateEvent, Event
<1>2. Record(<<e>>, TRUE)
  BY DEF RecordDevelopmentFailure
<1>3. Fits(ledger, Len(ledger), e)
  BY DEF Fits
<1> HIDE DEF e
<1> QED
  BY <1>1, <1>2, <1>3, RecordedOne

LEMMA BlockShadowType ==
    ASSUME TypeInv, NEW c \in Candidates, BlockShadow(c)
    PROVE  \E e \in BlockedEvent :
              ledger' = Append(ledger, e) /\ now' = now /\ TypeInv'
<1> DEFINE e == [kind |-> "ShadowEodBlocked", candidate |-> c]
<1>1. e \in BlockedEvent /\ e \in Event
  BY DEF BlockedEvent, Event
<1>2. Record(<<e>>, TRUE)
  BY DEF BlockShadow
<1>3. Fits(ledger, Len(ledger), e)
  BY DEF Fits
<1> HIDE DEF e
<1> QED
  BY <1>1, <1>2, <1>3, RecordedOne

LEMMA FoundGate ==
    ASSUME TypeInv, NEW v \in 0..Len(ledger), NEW c,
           NEW g, g = PassedGate(c, v), g # 0
    PROVE  /\ g = LatestGate(c, v) /\ g \in 1..v
           /\ g \in About("GateDecisionRecorded", c, v)
           /\ ledger[g].passed /\ ledger[g].evidence \in Evidence
<1>1. g = LatestGate(c, v) /\ ledger[g].passed
  BY DEF PassedGate
<1>2. /\ g \in 0..v /\ g \in 0..Len(ledger)
      /\ g \in About("GateDecisionRecorded", c, v)
      /\ ledger[g].kind = "GateDecisionRecorded"
  BY <1>1, Found DEF LatestGate
<1>3. Fits(ledger, g - 1, ledger[g])
  BY <1>2 DEF TypeInv, LedgerFits
<1> QED
  BY <1>1, <1>2, <1>3 DEF Fits

LEMMA FoundApproval ==
    ASSUME TypeInv, NEW v \in 0..Len(ledger), NEW c,
           NEW p, p = ApprovalOf(c, v)
    PROVE  /\ p \in Versions /\ p \in 0..v
           /\ p # 0 => /\ p \in About("ApprovalDecisionRecorded", c, v)
                       /\ ledger[p] \in ApprovalEvent
<1>1. /\ p \in Versions /\ p \in 0..v
      /\ p # 0 => /\ p \in About("ApprovalDecisionRecorded", c, v)
                  /\ ledger[p] \in Event
                  /\ ledger[p].kind = "ApprovalDecisionRecorded"
  BY Found DEF ApprovalOf
<1> QED
  BY <1>1, EventOfKind

LEMMA DecideApprovalType ==
    ASSUME TypeInv, NEW c \in Candidates, NEW eligible \in BOOLEAN,
           NEW requested \in {"approved", "rejected"},
           NEW expected \in Assignments(Len(ledger)) \cup {0},
           DecideApproval(c, eligible, requested, expected)
    PROVE  \E e \in ApprovalEvent, s \in Reads(3) :
              /\ ledger' = Append(ledger, e) /\ now' = now /\ TypeInv'
              /\ PassedGate(c, s[1]) # 0
              /\ e = [kind |-> "ApprovalDecisionRecorded", candidate |-> c,
                      gate |-> ledger[PassedGate(c, s[1])].evidence,
                      expected |-> expected,
                      refusal |-> Refusal(c, eligible, requested, expected, s),
                      at |-> now]
<1>1. PICK s \in Reads(3) :
        /\ PassedGate(c, s[1]) # 0
        /\ Record(<<[kind |-> "ApprovalDecisionRecorded", candidate |-> c,
                     gate |-> ledger[PassedGate(c, s[1])].evidence,
                     expected |-> expected,
                     refusal |-> Refusal(c, eligible, requested, expected, s),
                     at |-> now]>>,
                  \/ Refusal(c, eligible, requested, expected, s) # "none"
                  \/ ApprovalOf(c, Len(ledger)) # 0)
  BY DEF DecideApproval
<1> DEFINE e == [kind |-> "ApprovalDecisionRecorded", candidate |-> c,
                 gate |-> ledger[PassedGate(c, s[1])].evidence,
                 expected |-> expected,
                 refusal |-> Refusal(c, eligible, requested, expected, s),
                 at |-> now]
<1>2. ledger[PassedGate(c, s[1])].evidence \in Evidence
  <2>1. s[1] \in 0..Len(ledger)
    BY ReadsBefore
  <2> QED
    BY <1>1, <2>1, FoundGate
<1>3. Refusal(c, eligible, requested, expected, s) \in Refusals
  <2>1. CASE ~eligible
    BY <2>1, Zenon DEF Refusal, Refusals
  <2>2. CASE eligible /\ expected # CurrentAssignment(s[2])
    BY <2>2, Zenon DEF Refusal, Refusals
  <2>3. CASE eligible /\ expected = CurrentAssignment(s[2]) /\ Rejected(c, s[3])
    BY <2>3, Zenon DEF Refusal, Refusals
  <2>4. CASE eligible /\ expected = CurrentAssignment(s[2]) /\ ~Rejected(c, s[3])
    <3>1. Refusal(c, eligible, requested, expected, s)
            = IF requested = "rejected" THEN "approver_rejected" ELSE "none"
      BY <2>4, Zenon DEF Refusal
    <3> QED
      BY <3>1 DEF Refusals
  <2> QED
    BY <2>1, <2>2, <2>3, <2>4
<1>4. expected \in Versions /\ now \in Times
  <2>1. /\ Len(ledger) \in Nat /\ Len(ledger) <= MaxEvents /\ MaxEvents \in Nat
        /\ now \in Times
    BY LifecycleAssumption, LenProperties, ElementOfSeq
       DEF TypeInv, TypeOK, MaxEvents
  <2>2. expected \in 0..Len(ledger)
    BY <2>1 DEF Assignments, OfKind
  <2> QED
    BY <2>1, <2>2 DEF Versions
<1>5. e \in ApprovalEvent /\ e \in Event
  BY <1>2, <1>3, <1>4 DEF ApprovalEvent, Event
<1>6. Fits(ledger, Len(ledger), e)
  BY DEF Fits
<1>7. PICK b \in BOOLEAN : b = (\/ Refusal(c, eligible, requested, expected, s) # "none"
                                \/ ApprovalOf(c, Len(ledger)) # 0)
  OBVIOUS
<1>8. Record(<<e>>, b)
  BY <1>1, <1>7
<1>9. ledger' = Append(ledger, e) /\ now' = now /\ TypeInv'
  <2> HIDE DEF e
  <2> QED
    BY <1>5, <1>6, <1>8, RecordedOne
<1> QED
  BY <1>1, <1>5, <1>9

\* The events of a lineage, and the date of the last of them.
LEMMA FoundRuns ==
    ASSUME TypeInv, NEW v \in 0..Len(ledger), NEW c, NEW gate, NEW p, NEW expected,
           NEW runs, runs = Lineage(c, gate, p, expected, v)
    PROVE  /\ runs \in SUBSET (1..v) /\ IsFiniteSet(runs) /\ Cardinality(runs) \in Nat
           /\ runs \subseteq About("ShadowEodRecorded", c, v)
           /\ \A i \in runs : ledger[i] \in ShadowEvent
           /\ LastDate(runs) \in Nat
<1>1. v \in Nat /\ \A i \in 1..v : ledger[i] \in Event
  BY LenProperties, ElementOfSeq DEF TypeInv, TypeOK
<1>2. /\ runs \in SUBSET (1..v) /\ runs \subseteq About("ShadowEodRecorded", c, v)
      /\ \A i \in runs : ledger[i].kind = "ShadowEodRecorded"
  BY DEF Lineage, About, OfKind
<1>3. IsFiniteSet(runs) /\ Cardinality(runs) \in Nat
  <2>1. IsFiniteSet(1..v)
    BY <1>1, FS_Interval
  <2>2. IsFiniteSet(runs)
    BY <1>2, <2>1, FS_Subset
  <2> QED
    BY <2>2, FS_CardinalityType
<1>4. \A i \in runs : ledger[i] \in ShadowEvent
  BY <1>1, <1>2, EventOfKind
<1>5. LastDate(runs) \in Nat
  <2>1. CASE runs = {}
    BY <2>1 DEF LastDate
  <2>2. CASE runs # {}
    <3>1. Newest(runs) \in runs
      BY <1>1, <1>2, <2>2, NewestIn
    <3> QED
      BY <1>4, <2>2, <3>1 DEF LastDate, ShadowEvent
  <2> QED
    BY <2>1, <2>2
<1> QED
  BY <1>2, <1>3, <1>4, <1>5

LEMMA DateNat ==
    ASSUME NEW t \in Nat
    PROVE  Date(t) \in Nat
<1>1. t \div TicksPerDay \in Int /\ t \div TicksPerDay >= 0
  BY LifecycleAssumption
<1> QED
  BY <1>1 DEF Date

\* A later time is not on an earlier date.
LEMMA DateMonotone ==
    ASSUME NEW t \in Nat, NEW u \in Nat, t <= u
    PROVE  Date(t) <= Date(u)
<1> DEFINE d == TicksPerDay
<1>1. d \in Nat \ {0}
  BY LifecycleAssumption
<1>2. t \div d <= u \div d
  BY ONLY <1>1, t \in Nat, u \in Nat, t <= u
<1> QED
  BY <1>1, <1>2 DEF Date

LEMMA RecordShadowType ==
    ASSUME TypeInv, NEW c \in Candidates, NEW date \in 1..Date(now),
           RecordShadow(c, date)
    PROVE  \E e \in ShadowEvent, s \in Reads(4) : \E p, g, runs :
              /\ ledger' = Append(ledger, e) /\ now' = now /\ TypeInv'
              /\ p = ApprovalOf(c, s[1]) /\ p # 0
              /\ g = PassedGate(c, s[2]) /\ g # 0
              /\ runs = Lineage(c, ledger[p].gate, p, ledger[p].expected, s[3])
              /\ ledger[g].evidence = ledger[p].gate /\ Approved(p)
              /\ date >= Date(ledger[p].at)
              /\ Date(now) >= date
              /\ runs # {} => date > LastDate(runs)
              /\ e = [kind |-> "ShadowEodRecorded", candidate |-> c,
                      gate |-> ledger[p].gate, approval |-> p,
                      expected |-> ledger[p].expected, date |-> date,
                      previous |-> LastDate(runs),
                      count |-> Cardinality(runs) + 1, at |-> now]
<1>1. PICK s, p, g, runs :
              /\ s \in Reads(4)
              /\ p = ApprovalOf(c, s[1]) /\ p # 0
              /\ g = PassedGate(c, s[2]) /\ g # 0
              /\ runs = Lineage(c, ledger[p].gate, p, ledger[p].expected, s[3])
              /\ ledger[g].evidence = ledger[p].gate /\ Approved(p)
              /\ date >= Date(ledger[p].at)
              /\ Date(now) >= date
              /\ runs # {} => date > LastDate(runs)
              /\ Cardinality(runs) < RequiredShadows
              /\ Record(<<[kind |-> "ShadowEodRecorded", candidate |-> c,
                           gate |-> ledger[p].gate, approval |-> p,
                           expected |-> ledger[p].expected, date |-> date,
                           previous |-> LastDate(runs),
                           count |-> Cardinality(runs) + 1, at |-> now]>>, FALSE)
  BY Zenon DEF RecordShadow
<1> DEFINE e == [kind |-> "ShadowEodRecorded", candidate |-> c,
                 gate |-> ledger[p].gate, approval |-> p,
                 expected |-> ledger[p].expected, date |-> date,
                 previous |-> LastDate(runs),
                 count |-> Cardinality(runs) + 1, at |-> now]
<1>2. s[1] \in 0..Len(ledger) /\ s[2] \in 0..Len(ledger) /\ s[3] \in 0..Len(ledger)
  BY <1>1, ReadsBefore
<1>3. p \in Versions /\ ledger[p] \in ApprovalEvent
  BY <1>1, <1>2, FoundApproval
<1>4. Cardinality(runs) \in Nat /\ LastDate(runs) \in Nat
  BY <1>1, <1>2, FoundRuns
<1>5. now \in Times /\ date \in Nat /\ Cardinality(runs) + 1 \in 1..RequiredShadows
  <2>1. now \in Times /\ now \in Nat
    BY LifecycleAssumption DEF TypeInv, TypeOK, Times
  <2>2. date \in Nat
    BY <2>1, DateNat
  <2> QED
    BY <1>1, <1>4, <2>1, <2>2, LifecycleAssumption
<1>6. e \in ShadowEvent /\ e \in Event
  <2>1. ledger[p].gate \in Evidence /\ ledger[p].expected \in Versions
    BY <1>3 DEF ApprovalEvent
  <2> QED
    BY <1>3, <1>4, <1>5, <2>1 DEF ShadowEvent, Event
<1>7. Fits(ledger, Len(ledger), e)
  BY DEF Fits
<1>8. Record(<<e>>, FALSE)
  BY <1>1
<1>9. ledger' = Append(ledger, e) /\ now' = now /\ TypeInv'
  <2> HIDE DEF e
  <2> QED
    BY <1>6, <1>7, <1>8, RecordedOne
<1> QED
  BY <1>1, <1>6, <1>9

\* The two events of Assign.
Transition(kind, c, p) == [kind |-> kind, candidate |-> c, approval |-> p, at |-> now]
Installed(c, previous) ==
    [kind |-> "ProductionAssignmentCreated", candidate |-> c,
     previous |-> previous, at |-> now]

LEMMA AssignType ==
    ASSUME TypeInv, NEW kind \in {"PromotionEventRecorded", "RollbackEventRecorded"},
           NEW c \in Candidates, NEW p \in Versions,
           NEW previous \in Versions,
           previous \in KindIn(ledger, "ProductionAssignmentCreated", Len(ledger)) \cup {0},
           Assign(kind, c, p, previous)
    PROVE  \E d \in TransitionEvent, e \in AssignmentEvent :
              /\ d = Transition(kind, c, p) /\ e = Installed(c, previous)
              /\ ledger' = Append(Append(ledger, d), e)
              /\ now' = now /\ TypeInv'
<1>0. now \in Times /\ ledger \in Seq(Event) /\ Len(ledger) \in Nat
  BY LenProperties DEF TypeInv, TypeOK
<1>1. PICK d, e : d = Transition(kind, c, p) /\ e = Installed(c, previous)
  OBVIOUS
<1>2. d \in TransitionEvent /\ e \in AssignmentEvent /\ d \in Event /\ e \in Event
  BY <1>0, <1>1 DEF Transition, Installed, TransitionEvent, AssignmentEvent, Event
<1>3. Record(<<d, e>>, FALSE)
  BY <1>1 DEF Assign, Transition, Installed
<1>4. Fits(ledger, Len(ledger), d)
  <2>1. d.kind = kind
    BY <1>1 DEF Transition
  <2> QED
    BY <2>1 DEF Fits
<1>5. Fits(Append(ledger, d), Len(ledger) + 1, e)
  <2>1. e.kind = "ProductionAssignmentCreated" /\ e.previous = previous
    BY <1>1 DEF Installed
  <2>2. KindIn(ledger, "ProductionAssignmentCreated", Len(ledger))
          \subseteq KindIn(Append(ledger, d), "ProductionAssignmentCreated", Len(ledger) + 1)
    <3>1. \A i \in 1..Len(ledger) : Append(ledger, d)[i] = ledger[i]
      BY <1>0, <1>2, Appended
    <3> QED
      BY <1>0, <3>1 DEF KindIn
  <2> QED
    BY <2>1, <2>2 DEF Fits
<1>6. /\ ledger' = Append(Append(ledger, d), e)
      /\ now' = now /\ TypeInv'
  BY <1>2, <1>3, <1>4, <1>5, RecordedTwo
<1> QED
  BY <1>1, <1>2, <1>6

LEMMA PromoteType ==
    ASSUME TypeInv, NEW c \in Candidates, Promote(c)
    PROVE  \E s \in Reads(4) : \E g, p, runs, current :
              \E d \in TransitionEvent, e \in AssignmentEvent :
                 /\ d = Transition("PromotionEventRecorded", c, p)
                 /\ e = Installed(c, current)
                 /\ ledger' = Append(Append(ledger, d), e)
                 /\ now' = now /\ TypeInv'
                 /\ g = PassedGate(c, s[1]) /\ g # 0
                 /\ p = ApprovalOf(c, s[2]) /\ p # 0
                 /\ runs = Lineage(c, ledger[g].evidence, p, ledger[p].expected, s[3])
                 /\ Cardinality(runs) = RequiredShadows
                 /\ current = CurrentAssignment(s[4])
                 /\ ledger[p].expected = current
                 /\ Approved(p) /\ ~Expired(p, now)
<1>1. PICK s, g, p, runs, current :
                 /\ s \in Reads(4)
                 /\ g = PassedGate(c, s[1]) /\ g # 0
                 /\ p = ApprovalOf(c, s[2]) /\ p # 0
                 /\ runs = Lineage(c, ledger[g].evidence, p, ledger[p].expected, s[3])
                 /\ Cardinality(runs) = RequiredShadows
                 /\ current = CurrentAssignment(s[4])
                 /\ ledger[p].expected = current
                 /\ Approved(p) /\ ~Expired(p, now)
                 /\ Assign("PromotionEventRecorded", c, p, current)
  BY Zenon DEF Promote
<1>2. s[2] \in 0..Len(ledger) /\ s[4] \in 0..Len(ledger)
  BY <1>1, ReadsBefore
<1>3. p \in Versions
  BY <1>1, <1>2, FoundApproval
<1>4. /\ current \in Versions
      /\ current \in KindIn(ledger, "ProductionAssignmentCreated", Len(ledger)) \cup {0}
  <2>1. /\ current \in Versions
        /\ current \in KindIn(ledger, "ProductionAssignmentCreated", s[4]) \cup {0}
    BY <1>1, <1>2, FoundAssignment
  <2>2. Len(ledger) \in Nat
    BY LenProperties DEF TypeInv, TypeOK
  <2> QED
    BY <1>2, <2>1, <2>2 DEF KindIn
<1>5. \E d \in TransitionEvent, e \in AssignmentEvent :
                 /\ d = Transition("PromotionEventRecorded", c, p)
                 /\ e = Installed(c, current)
                 /\ ledger' = Append(Append(ledger, d), e)
                 /\ now' = now /\ TypeInv'
  BY <1>1, <1>3, <1>4, AssignType
<1> QED
  BY <1>1, <1>5, Zenon

LEMMA RollbackType ==
    ASSUME TypeInv, Rollback
    PROVE  \E v \in Seen : \E current, target :
              \E d \in TransitionEvent, e \in AssignmentEvent :
                 /\ current = CurrentAssignment(v) /\ current # 0
                 /\ target = ledger[current].previous /\ target # 0
                 /\ d = Transition("RollbackEventRecorded", ledger[target].candidate, 0)
                 /\ e = Installed(ledger[target].candidate, current)
                 /\ ledger' = Append(Append(ledger, d), e)
                 /\ now' = now /\ TypeInv'
<1>1. PICK v, current, target :
                 /\ v \in Seen
                 /\ current = CurrentAssignment(v) /\ current # 0
                 /\ target = ledger[current].previous /\ target # 0
                 /\ Assign("RollbackEventRecorded", ledger[target].candidate, 0, current)
  BY Zenon DEF Rollback
<1>2. v \in 0..Len(ledger) /\ Len(ledger) \in Nat /\ ledger \in Seq(Event)
  BY <1>1, LenProperties DEF Seen, TypeInv, TypeOK
<1>3. /\ current \in Versions /\ current \in 1..v
      /\ current \in KindIn(ledger, "ProductionAssignmentCreated", v)
  BY <1>1, <1>2, FoundAssignment
<1>4. current \in KindIn(ledger, "ProductionAssignmentCreated", Len(ledger))
  BY <1>2, <1>3 DEF KindIn
<1>5. target \in KindIn(ledger, "ProductionAssignmentCreated", current - 1)
  <2>1. Fits(ledger, current - 1, ledger[current])
    BY <1>2, <1>3 DEF TypeInv, LedgerFits
  <2> QED
    BY <1>1, <1>3, <2>1 DEF Fits, KindIn
<1>6. ledger[target].candidate \in Candidates
  <2>1. target \in 1..Len(ledger) /\ ledger[target].kind = "ProductionAssignmentCreated"
    BY <1>2, <1>3, <1>5 DEF KindIn
  <2>2. ledger[target] \in AssignmentEvent
    BY <1>2, <2>1, ElementOfSeq, EventOfKind
  <2> QED
    BY <2>2 DEF AssignmentEvent
<1>7. PICK k : k = ledger[target].candidate
  OBVIOUS
<1>8. 0 \in Versions
  BY LifecycleAssumption, LenProperties, ElementOfSeq DEF Versions, MaxEvents
<1>9. \E d \in TransitionEvent, e \in AssignmentEvent :
                 /\ d = Transition("RollbackEventRecorded", k, 0)
                 /\ e = Installed(k, current)
                 /\ ledger' = Append(Append(ledger, d), e)
                 /\ now' = now /\ TypeInv'
  BY <1>1, <1>3, <1>4, <1>6, <1>7, <1>8, AssignType, SMTT(30)
<1> QED
  BY <1>1, <1>7, <1>9, Zenon

LEMMA NextTypeInv == TypeInv /\ [Next]_vars => TypeInv'
<1> SUFFICES ASSUME TypeInv, [Next]_vars PROVE TypeInv'
  OBVIOUS
<1>1. ASSUME NEW c \in Candidates,
             \/ \E qualified \in BOOLEAN : RecordCandidate(c, qualified)
             \/ \E e \in Evidence, passed \in BOOLEAN : EvaluateBootstrap(c, e, passed)
             \/ \E eligible \in BOOLEAN, requested \in {"approved", "rejected"},
                   expected \in Assignments(Len(ledger)) \cup {0} :
                   DecideApproval(c, eligible, requested, expected)
             \/ \E date \in 1..Date(now) : RecordShadow(c, date)
             \/ BlockShadow(c)
             \/ Promote(c)
      PROVE  TypeInv'
  <2>1. CASE \E qualified \in BOOLEAN : RecordCandidate(c, qualified)
    BY <2>1, RecordCandidateType
  <2>2. CASE \E e \in Evidence, passed \in BOOLEAN : EvaluateBootstrap(c, e, passed)
    BY <2>2, EvaluateBootstrapType
  <2>3. CASE \E eligible \in BOOLEAN, requested \in {"approved", "rejected"},
                expected \in Assignments(Len(ledger)) \cup {0} :
                DecideApproval(c, eligible, requested, expected)
    BY <2>3, DecideApprovalType
  <2>4. CASE \E date \in 1..Date(now) : RecordShadow(c, date)
    BY <2>4, RecordShadowType
  <2>5. CASE BlockShadow(c)
    BY <2>5, BlockShadowType
  <2>6. CASE Promote(c)
    BY <2>6, PromoteType
  <2> QED
    BY <1>1, <2>1, <2>2, <2>3, <2>4, <2>5, <2>6
<1>2. CASE RecordDevelopmentFailure
  BY <1>2, RecordDevelopmentFailureType
<1>3. CASE Rollback
  BY <1>3, RollbackType
<1>4. CASE Tick
  BY <1>4, LifecycleAssumption DEF Tick, TypeInv, TypeOK, Times, LedgerFits, Fits
<1>5. CASE UNCHANGED vars
  BY <1>5 DEF vars, TypeInv, TypeOK, LedgerFits, Fits
<1> QED
  BY <1>1, <1>2, <1>3, <1>4, <1>5 DEF Next, Command

LEMMA InitTypeInv == Init => TypeInv
<1> SUFFICES ASSUME Init PROVE TypeInv
  OBVIOUS
<1>1. Limits[1] \in Nat /\ Len(Limits) - 1 \in Nat
  BY LifecycleAssumption, LenProperties, ElementOfSeq
<1>2. ledger \in Seq(Event) /\ Len(ledger) = 0
  BY EmptySeq DEF Init
<1> QED
  BY <1>1, <1>2, LifecycleAssumption
     DEF Init, TypeInv, TypeOK, LedgerFits, Times, MaxEvents, MaxSetbacks

\* The ledger holds lifecycle events and the bounds are kept, whatever versions
\* the callers of ModelLifecycle.execute expect.
THEOREM TypeCorrect == Spec => []TypeOK
<1>1. TypeInv => TypeOK
  BY DEF TypeInv
<1> QED
  BY <1>1, InitTypeInv, NextTypeInv, PTL DEF Spec

-----------------------------------------------------------------------------
(* What an event says of the events before it, when every command reads    *)
(* the version its caller expects.                                         *)

GateIn(L, c, v) == Newest(AboutIn(L, "GateDecisionRecorded", c, v))
ApprovalIn(L, c, v) == Newest(AboutIn(L, "ApprovalDecisionRecorded", c, v))
AssignmentIn(L, v) == Newest(KindIn(L, "ProductionAssignmentCreated", v))
RunsIn(L, c, p, v) ==
    {i \in AboutIn(L, "ShadowEodRecorded", c, v) : L[i].approval = p}

\* The gate in force has passed on the evidence that p approves.
GateStands(L, c, v, p) ==
    LET g == GateIn(L, c, v)
    IN  g # 0 /\ L[g].passed /\ L[g].evidence = L[p].gate

GateEarned(L, v, e) ==
    e.passed =>
        /\ \E r \in AboutIn(L, "CandidateRecorded", e.candidate, v) : L[r].qualified
        /\ KindIn(L, "ProductionAssignmentCreated", v) = {}

ApprovalEarned(L, v, e) ==
    /\ \E g \in AboutIn(L, "GateDecisionRecorded", e.candidate, v) :
          L[g].passed /\ L[g].evidence = e.gate
    /\ e.refusal = "none" =>
          /\ e.expected = AssignmentIn(L, v)
          /\ \A i \in AboutIn(L, "ApprovalDecisionRecorded", e.candidate, v) :
                L[i].refusal # "approver_rejected"

RunEarned(L, v, e) ==
    LET p == ApprovalIn(L, e.candidate, v)
    IN  /\ p # 0 /\ e.approval = p
        /\ e.gate = L[p].gate /\ e.expected = L[p].expected
        /\ GateStands(L, e.candidate, v, p)
        /\ Date(L[p].at) <= e.date /\ e.date <= Date(e.at)
        /\ \A i \in RunsIn(L, e.candidate, p, v) : L[i].date < e.date

PromotionEarned(L, v, e) ==
    LET p == ApprovalIn(L, e.candidate, v)
        runs == RunsIn(L, e.candidate, p, v)
    IN  /\ p # 0 /\ L[p].refusal = "none" /\ ~(e.at >= L[p].at + Validity)
        /\ L[p].expected = AssignmentIn(L, v)
        /\ GateStands(L, e.candidate, v, p)
        /\ Cardinality(runs) = RequiredShadows
        /\ \A i \in runs : L[i].at <= e.at

Earned(L, v, e) ==
    /\ e.kind = "GateDecisionRecorded" => GateEarned(L, v, e)
    /\ e.kind = "ApprovalDecisionRecorded" => ApprovalEarned(L, v, e)
    /\ e.kind = "ShadowEodRecorded" => RunEarned(L, v, e)
    /\ e.kind = "PromotionEventRecorded" => PromotionEarned(L, v, e)
    /\ e.kind = "ProductionAssignmentCreated" => e.previous = AssignmentIn(L, v)

LedgerEarned(L) == \A i \in 1..Len(L) : Earned(L, i - 1, L[i])

Timely(L, t) ==
    \A i \in 1..Len(L) : L[i].kind = "ShadowEodRecorded" => L[i].at <= t

IInv == TypeInv /\ LedgerEarned(ledger) /\ Timely(ledger, now)

LEMMA SameGate ==
    ASSUME NEW L \in Seq(Event), NEW x \in Event, NEW v \in 0..Len(L), NEW c,
           NEW p \in 1..v
    PROVE  GateStands(Append(L, x), c, v, p) <=> GateStands(L, c, v, p)
<1> DEFINE M == Append(L, x)
<1>1. AboutIn(M, "GateDecisionRecorded", c, v) = AboutIn(L, "GateDecisionRecorded", c, v)
  BY SameBefore
<1>2. GateIn(M, c, v) = GateIn(L, c, v)
  BY <1>1 DEF GateIn
<1>3. GateIn(L, c, v) \in 0..v
  <2>1. AboutIn(L, "GateDecisionRecorded", c, v) \in SUBSET (1..v) /\ v \in Nat
    BY Appended DEF AboutIn, KindIn
  <2> QED
    BY <2>1, NewestZero DEF GateIn
<1>4. \A i \in 1..v : M[i] = L[i]
  BY Appended
<1>5. GateIn(L, c, v) # 0 => M[GateIn(L, c, v)] = L[GateIn(L, c, v)]
  BY <1>3, <1>4
<1>6. M[p] = L[p]
  BY <1>4
<1>7. GateStands(M, c, v, p) <=> GateStands(L, c, v, p)
  <2> HIDE DEF M
  <2>1. CASE GateIn(L, c, v) = 0
    BY <1>2, <2>1 DEF GateStands
  <2>2. CASE GateIn(L, c, v) # 0
    <3>1. M[GateIn(M, c, v)] = L[GateIn(L, c, v)] /\ GateIn(M, c, v) # 0
      BY <1>2, <1>5, <2>2
    <3> QED
      BY <1>6, <2>2, <3>1, Zenon DEF GateStands
  <2> QED
    BY <2>1, <2>2
<1> QED
  BY <1>7

LEMMA EarnedGrows ==
    ASSUME NEW L \in Seq(Event), LedgerEarned(L),
           NEW e \in Event, Earned(L, Len(L), e)
    PROVE  LedgerEarned(Append(L, e))
<1> DEFINE M == Append(L, e)
<1> SUFFICES ASSUME NEW i \in 1..Len(M) PROVE Earned(M, i - 1, M[i])
  BY DEF LedgerEarned
<1>1. /\ Len(M) = Len(L) + 1 /\ Len(L) \in Nat /\ M[Len(L) + 1] = e
      /\ \A k \in 1..Len(L) : M[k] = L[k]
  BY Appended
<1>2. PICK v, x : v = i - 1 /\ x = M[i]
  OBVIOUS
<1>3. v \in 0..Len(L) /\ v \in Nat
  BY <1>1, <1>2
<1>4. Earned(L, v, x)
  <2>1. CASE i \in 1..Len(L)
    BY <1>1, <1>2, <2>1 DEF LedgerEarned
  <2>2. CASE i = Len(L) + 1
    BY <1>1, <1>2, <2>2
  <2> QED
    BY <1>1, <2>1, <2>2
<1>5. \A k \in 1..v : M[k] = L[k]
  BY <1>1, <1>3
<1>6. /\ \A kind : KindIn(M, kind, v) = KindIn(L, kind, v)
      /\ \A kind, c : AboutIn(M, kind, c, v) = AboutIn(L, kind, c, v)
  BY <1>3, SameBefore
<1>7. \A kind, c : AboutIn(L, kind, c, v) \in SUBSET (1..v)
  BY DEF AboutIn, KindIn
<1>8. /\ AssignmentIn(M, v) = AssignmentIn(L, v)
      /\ \A c : ApprovalIn(M, c, v) = ApprovalIn(L, c, v)
  BY <1>6 DEF AssignmentIn, ApprovalIn
<1>9. \A c : ApprovalIn(L, c, v) \in 0..v
  BY <1>3, <1>7, NewestZero DEF ApprovalIn
<1>10. \A c, p : RunsIn(M, c, p, v) = RunsIn(L, c, p, v) /\ RunsIn(L, c, p, v) \subseteq 1..v
  BY <1>5, <1>6, <1>7 DEF RunsIn
<1>11. \A c, p : p \in 1..v => (GateStands(M, c, v, p) <=> GateStands(L, c, v, p))
  BY <1>3, SameGate
<1> HIDE DEF M
<1>12. GateEarned(L, v, x) => GateEarned(M, v, x)
  BY <1>5, <1>6, <1>7 DEF GateEarned
<1>13. ApprovalEarned(L, v, x) => ApprovalEarned(M, v, x)
  BY <1>5, <1>6, <1>7, <1>8 DEF ApprovalEarned
<1>14. RunEarned(L, v, x) => RunEarned(M, v, x)
  <2> SUFFICES ASSUME RunEarned(L, v, x) PROVE RunEarned(M, v, x)
    OBVIOUS
  <2>1. PICK p : p = ApprovalIn(L, x.candidate, v)
    OBVIOUS
  <2>2. p \in 1..v /\ M[p] = L[p]
    <3>1. p # 0
      BY <2>1 DEF RunEarned
    <3> QED
      BY <1>3, <1>5, <1>9, <2>1, <3>1
  <2> QED
    BY <1>5, <1>8, <1>10, <1>11, <2>1, <2>2 DEF RunEarned
<1>15. PromotionEarned(L, v, x) => PromotionEarned(M, v, x)
  <2> SUFFICES ASSUME PromotionEarned(L, v, x) PROVE PromotionEarned(M, v, x)
    OBVIOUS
  <2>1. PICK p : p = ApprovalIn(L, x.candidate, v)
    OBVIOUS
  <2>2. p \in 1..v /\ M[p] = L[p]
    <3>1. p # 0
      BY <2>1 DEF PromotionEarned
    <3> QED
      BY <1>3, <1>5, <1>9, <2>1, <3>1
  <2> QED
    BY <1>5, <1>8, <1>10, <1>11, <2>1, <2>2 DEF PromotionEarned
<1>16. Earned(M, v, x)
  BY <1>4, <1>8, <1>12, <1>13, <1>14, <1>15 DEF Earned
<1> QED
  BY <1>2, <1>16

LEMMA TimelyGrows ==
    ASSUME NEW L \in Seq(Event), NEW t, Timely(L, t),
           NEW e \in Event, e.kind = "ShadowEodRecorded" => e.at <= t
    PROVE  Timely(Append(L, e), t)
<1>1. /\ Len(Append(L, e)) = Len(L) + 1 /\ Len(L) \in Nat
      /\ Append(L, e)[Len(L) + 1] = e
      /\ \A i \in 1..Len(L) : Append(L, e)[i] = L[i]
  BY Appended
<1>2. ASSUME NEW i \in 1..(Len(L) + 1)
      PROVE  Append(L, e)[i].kind = "ShadowEodRecorded" => Append(L, e)[i].at <= t
  <2>1. CASE i = Len(L) + 1
    BY <1>1, <2>1
  <2>2. CASE i \in 1..Len(L)
    BY <1>1, <2>2 DEF Timely
  <2> QED
    BY <1>1, <2>1, <2>2
<1> QED
  BY <1>1, <1>2 DEF Timely

LEMMA FollowsOne ==
    ASSUME IInv, NEW e \in Event, ledger' = Append(ledger, e), now' = now, TypeInv',
           Earned(ledger, Len(ledger), e), e.kind = "ShadowEodRecorded" => e.at <= now
    PROVE  IInv'
<1>1. ledger \in Seq(Event)
  BY DEF IInv, TypeInv, TypeOK
<1>2. LedgerEarned(ledger') /\ Timely(ledger', now')
  BY <1>1, EarnedGrows, TimelyGrows DEF IInv
<1> QED
  BY <1>2 DEF IInv

LEMMA FollowsTwo ==
    ASSUME IInv, NEW d \in Event, NEW e \in Event,
           ledger' = Append(Append(ledger, d), e), now' = now, TypeInv',
           Earned(ledger, Len(ledger), d), Earned(Append(ledger, d), Len(ledger) + 1, e),
           d.kind # "ShadowEodRecorded", e.kind # "ShadowEodRecorded"
    PROVE  IInv'
<1>1. /\ ledger \in Seq(Event)
      /\ Append(ledger, d) \in Seq(Event) /\ Len(Append(ledger, d)) = Len(ledger) + 1
  BY Appended DEF IInv, TypeInv, TypeOK
<1>2. LedgerEarned(Append(ledger, d)) /\ Timely(Append(ledger, d), now)
  BY <1>1, EarnedGrows, TimelyGrows DEF IInv
<1>3. LedgerEarned(ledger') /\ Timely(ledger', now')
  BY <1>1, <1>2, EarnedGrows, TimelyGrows
<1> QED
  BY <1>3 DEF IInv

\* Every read of a command sees the version that its append follows.
LEMMA ReadsNow ==
    ASSUME TypeInv, Lookahead = 0
    PROVE  /\ \A v \in Seen : v = Len(ledger)
           /\ \A n \in Nat : \A s \in Reads(n) : \A i \in 1..n : s[i] = Len(ledger)
<1>1. Len(ledger) \in Nat
  BY LenProperties DEF TypeInv, TypeOK
<1>2. \A v \in Seen : v = Len(ledger)
  BY <1>1 DEF Seen
<1> QED
  BY <1>2 DEF Reads

LEMMA AsRead ==
    \A v, c : /\ LatestGate(c, v) = GateIn(ledger, c, v)
              /\ ApprovalOf(c, v) = ApprovalIn(ledger, c, v)
              /\ CurrentAssignment(v) = AssignmentIn(ledger, v)
              /\ \A kind : /\ OfKind(kind, v) = KindIn(ledger, kind, v)
                           /\ About(kind, c, v) = AboutIn(ledger, kind, c, v)
BY DEF LatestGate, GateIn, ApprovalOf, ApprovalIn, CurrentAssignment, AssignmentIn,
       Assignments, OfKind, KindIn, About, AboutIn

LEMMA RecordCandidateIInv ==
    ASSUME IInv, NEW c \in Candidates, NEW qualified \in BOOLEAN,
           RecordCandidate(c, qualified)
    PROVE  IInv'
<1>1. PICK e \in CandidateEvent :
         ledger' = Append(ledger, e) /\ now' = now /\ TypeInv'
  BY RecordCandidateType DEF IInv
<1>2. e \in Event /\ e.kind = "CandidateRecorded"
  BY DEF Event, CandidateEvent
<1>3. Earned(ledger, Len(ledger), e)
  BY <1>2 DEF Earned
<1> QED
  BY <1>1, <1>2, <1>3, FollowsOne

LEMMA EvaluateBootstrapIInv ==
    ASSUME IInv, Lookahead = 0, NEW c \in Candidates, NEW ev \in Evidence,
           NEW passed \in BOOLEAN, EvaluateBootstrap(c, ev, passed)
    PROVE  IInv'
<1>0. TypeInv /\ Len(ledger) \in Nat
  BY LenProperties DEF IInv, TypeInv, TypeOK
<1>1. PICK e \in GateEvent, s \in Reads(2) :
         /\ ledger' = Append(ledger, e) /\ now' = now /\ TypeInv'
         /\ e = [kind |-> "GateDecisionRecorded", candidate |-> c,
                 evidence |-> ev, passed |-> passed]
         /\ CandidateOf(c, s[1]) # 0
         /\ passed => BootstrapOpen(CandidateOf(c, s[1]), s[2])
  BY <1>0, EvaluateBootstrapType
<1>2. s[1] = Len(ledger) /\ s[2] = Len(ledger)
  BY <1>0, ReadsNow
<1>3. e \in Event /\ e.kind = "GateDecisionRecorded" /\ e.candidate = c
      /\ e.passed = passed
  BY <1>1 DEF Event
<1>4. PICK r : r = CandidateOf(c, Len(ledger))
  OBVIOUS
<1>5. r \in AboutIn(ledger, "CandidateRecorded", c, Len(ledger))
  <2>1. r # 0 /\ r = Newest(About("CandidateRecorded", c, Len(ledger)))
    BY <1>1, <1>2, <1>4 DEF CandidateOf
  <2> QED
    BY <1>0, <2>1, Found, AsRead
<1>6. passed => /\ ledger[r].qualified
                /\ KindIn(ledger, "ProductionAssignmentCreated", Len(ledger)) = {}
  BY <1>1, <1>2, <1>4, AsRead DEF BootstrapOpen, Assignments
<1>7. Earned(ledger, Len(ledger), e)
  BY <1>3, <1>5, <1>6 DEF Earned, GateEarned
<1> QED
  BY <1>1, <1>3, <1>7, FollowsOne

LEMMA RecordDevelopmentFailureIInv ==
    ASSUME IInv, RecordDevelopmentFailure
    PROVE  IInv'
<1>1. PICK e \in GateEvent :
         ledger' = Append(ledger, e) /\ now' = now /\ TypeInv' /\ ~e.passed
  BY RecordDevelopmentFailureType DEF IInv
<1>2. e \in Event /\ e.kind = "GateDecisionRecorded"
  BY DEF Event, GateEvent
<1>3. Earned(ledger, Len(ledger), e)
  BY <1>1, <1>2 DEF Earned, GateEarned
<1> QED
  BY <1>1, <1>2, <1>3, FollowsOne

LEMMA BlockShadowIInv ==
    ASSUME IInv, NEW c \in Candidates, BlockShadow(c)
    PROVE  IInv'
<1>1. PICK e \in BlockedEvent :
         ledger' = Append(ledger, e) /\ now' = now /\ TypeInv'
  BY BlockShadowType DEF IInv
<1>2. e \in Event /\ e.kind = "ShadowEodBlocked"
  BY DEF Event, BlockedEvent
<1>3. Earned(ledger, Len(ledger), e)
  BY <1>2 DEF Earned
<1> QED
  BY <1>1, <1>2, <1>3, FollowsOne

LEMMA GivenApproval ==
    ASSUME NEW c, NEW eligible \in BOOLEAN, NEW requested, NEW expected, NEW s,
           Refusal(c, eligible, requested, expected, s) = "none"
    PROVE  expected = CurrentAssignment(s[2]) /\ ~Rejected(c, s[3])
<1>1. eligible
  BY Zenon DEF Refusal
<1>2. expected = CurrentAssignment(s[2])
  BY <1>1, Zenon DEF Refusal
<1>3. ~Rejected(c, s[3])
  BY <1>1, <1>2, Zenon DEF Refusal
<1> QED
  BY <1>2, <1>3

LEMMA DecideApprovalIInv ==
    ASSUME IInv, Lookahead = 0, NEW c \in Candidates, NEW eligible \in BOOLEAN,
           NEW requested \in {"approved", "rejected"},
           NEW expected \in Assignments(Len(ledger)) \cup {0},
           DecideApproval(c, eligible, requested, expected)
    PROVE  /\ IInv'
           /\ \E e \in ApprovalEvent : /\ ledger' = Append(ledger, e)
                                      /\ Earned(ledger, Len(ledger), e)
<1>0. TypeInv /\ Len(ledger) \in Nat
  BY LenProperties DEF IInv, TypeInv, TypeOK
<1>1. PICK e \in ApprovalEvent, s \in Reads(3) :
         /\ ledger' = Append(ledger, e) /\ now' = now /\ TypeInv'
         /\ PassedGate(c, s[1]) # 0
         /\ e = [kind |-> "ApprovalDecisionRecorded", candidate |-> c,
                 gate |-> ledger[PassedGate(c, s[1])].evidence,
                 expected |-> expected,
                 refusal |-> Refusal(c, eligible, requested, expected, s),
                 at |-> now]
  BY <1>0, DecideApprovalType
<1> DEFINE v == Len(ledger)
<1>2. s[1] = v /\ s[2] = v /\ s[3] = v
  BY <1>0, ReadsNow
<1>3. PICK g : g = PassedGate(c, v)
  OBVIOUS
<1>4. /\ e \in Event /\ e.kind = "ApprovalDecisionRecorded" /\ e.candidate = c
      /\ e.gate = ledger[g].evidence /\ e.expected = expected
      /\ e.refusal = Refusal(c, eligible, requested, expected, s)
  BY <1>1, <1>2, <1>3 DEF Event
<1>5. g \in AboutIn(ledger, "GateDecisionRecorded", c, v) /\ ledger[g].passed
  BY <1>0, <1>1, <1>2, <1>3, FoundGate, AsRead
<1>6. ASSUME e.refusal = "none"
      PROVE  /\ expected = AssignmentIn(ledger, v)
             /\ \A i \in AboutIn(ledger, "ApprovalDecisionRecorded", c, v) :
                   ledger[i].refusal # "approver_rejected"
  <2>1. expected = CurrentAssignment(v) /\ ~Rejected(c, v)
    <3>1. Refusal(c, eligible, requested, expected, s) = "none"
      BY <1>4, <1>6
    <3>2. expected = CurrentAssignment(s[2]) /\ ~Rejected(c, s[3])
      BY <3>1, GivenApproval
    <3> QED
      BY <1>2, <3>2
  <2> QED
    BY <2>1, AsRead DEF Rejected
<1>7. Earned(ledger, v, e)
  <2>1. ApprovalEarned(ledger, v, e)
    BY <1>4, <1>5, <1>6 DEF ApprovalEarned
  <2> QED
    BY <1>4, <2>1 DEF Earned
<1>8. IInv'
  BY <1>1, <1>4, <1>7, FollowsOne
<1> QED
  BY <1>1, <1>7, <1>8

\* The runs under an approval are about the gate and the assignment it names.
LEMMA RunsAreLineage ==
    ASSUME IInv, NEW c, NEW v \in 0..Len(ledger), NEW p
    PROVE  RunsIn(ledger, c, p, v) =
              Lineage(c, ledger[p].gate, p, ledger[p].expected, v)
<1>1. ASSUME NEW i \in RunsIn(ledger, c, p, v)
      PROVE  ledger[i].gate = ledger[p].gate /\ ledger[i].expected = ledger[p].expected
  <2>1. /\ i \in 1..Len(ledger) /\ ledger[i].kind = "ShadowEodRecorded"
        /\ ledger[i].approval = p
    BY LenProperties DEF RunsIn, AboutIn, KindIn, IInv, TypeInv, TypeOK
  <2>2. RunEarned(ledger, i - 1, ledger[i])
    BY <2>1 DEF IInv, LedgerEarned, Earned
  <2> QED
    BY <2>1, <2>2 DEF RunEarned
<1>2. RunsIn(ledger, c, p, v) = {i \in About("ShadowEodRecorded", c, v) :
                                     ledger[i].approval = p}
  BY AsRead DEF RunsIn
<1> QED
  BY <1>1, <1>2 DEF Lineage

\* They are on rising dates.
LEMMA RunsRise ==
    ASSUME IInv, NEW c, NEW v \in 0..Len(ledger), NEW p
    PROVE  /\ \A i, j \in RunsIn(ledger, c, p, v) :
                 i < j => ledger[i].date < ledger[j].date
           /\ RunsIn(ledger, c, p, v) \in SUBSET (1..v)
           /\ \A i \in RunsIn(ledger, c, p, v) : ledger[i].date \in Nat
<1> DEFINE R(u) == RunsIn(ledger, c, p, u)
<1>1. /\ v \in Nat /\ Len(ledger) \in Nat /\ \A i \in 1..Len(ledger) : ledger[i] \in Event
  BY LenProperties, ElementOfSeq DEF IInv, TypeInv, TypeOK
<1>2. /\ R(v) \in SUBSET (1..v)
      /\ \A i \in R(v) : /\ ledger[i].kind = "ShadowEodRecorded"
                         /\ ledger[i].approval = p /\ ledger[i].candidate = c
  BY DEF RunsIn, AboutIn, KindIn
<1>3. ASSUME NEW i \in R(v), NEW j \in R(v), i < j
      PROVE  ledger[i].date < ledger[j].date
  <2>1. RunEarned(ledger, j - 1, ledger[j])
    BY <1>1, <1>2 DEF IInv, LedgerEarned, Earned
  <2>2. i \in RunsIn(ledger, c, p, j - 1)
    BY <1>1, <1>2, <1>3 DEF RunsIn, AboutIn, KindIn
  <2>3. ledger[j].candidate = c /\ ApprovalIn(ledger, c, j - 1) = p
    BY <1>2, <2>1 DEF RunEarned
  <2> QED
    BY <2>1, <2>2, <2>3 DEF RunEarned
<1>4. ASSUME NEW i \in R(v) PROVE ledger[i].date \in Nat
  <2>1. ledger[i] \in ShadowEvent
    BY <1>1, <1>2, EventOfKind
  <2> QED
    BY <2>1 DEF ShadowEvent
<1> QED
  BY <1>2, <1>3, <1>4

LEMMA GateFound ==
    ASSUME TypeInv, NEW v \in 0..Len(ledger), NEW c, NEW p,
           NEW g, g = PassedGate(c, v), g # 0, ledger[g].evidence = ledger[p].gate
    PROVE  GateStands(ledger, c, v, p)
<1>1. g = GateIn(ledger, c, v) /\ ledger[g].passed
  BY FoundGate, AsRead
<1> QED
  BY <1>1 DEF GateStands

LEMMA RecordShadowIInv ==
    ASSUME IInv, Lookahead = 0, NEW c \in Candidates, NEW date \in 1..Date(now),
           RecordShadow(c, date)
    PROVE  IInv'
<1>0. /\ TypeInv /\ Len(ledger) \in Nat /\ Len(ledger) \in 0..Len(ledger)
      /\ now \in Nat /\ Date(now) \in Nat
  BY LenProperties, LifecycleAssumption, DateNat DEF IInv, TypeInv, TypeOK, Times
<1> DEFINE v == Len(ledger)
<1>1. PICK e \in ShadowEvent, s \in Reads(4) : \E p, g, runs :
         /\ ledger' = Append(ledger, e) /\ now' = now /\ TypeInv'
         /\ p = ApprovalOf(c, s[1]) /\ p # 0
         /\ g = PassedGate(c, s[2]) /\ g # 0
         /\ runs = Lineage(c, ledger[p].gate, p, ledger[p].expected, s[3])
         /\ ledger[g].evidence = ledger[p].gate /\ Approved(p)
         /\ date >= Date(ledger[p].at)
         /\ Date(now) >= date
         /\ runs # {} => date > LastDate(runs)
         /\ e = [kind |-> "ShadowEodRecorded", candidate |-> c,
                 gate |-> ledger[p].gate, approval |-> p,
                 expected |-> ledger[p].expected, date |-> date,
                 previous |-> LastDate(runs),
                 count |-> Cardinality(runs) + 1, at |-> now]
  BY <1>0, RecordShadowType
<1>2. s[1] = v /\ s[2] = v /\ s[3] = v
  BY <1>0, ReadsNow
<1>3. PICK p, g, runs :
         /\ ledger' = Append(ledger, e) /\ now' = now /\ TypeInv'
         /\ p = ApprovalOf(c, v) /\ p # 0
         /\ g = PassedGate(c, v) /\ g # 0
         /\ runs = Lineage(c, ledger[p].gate, p, ledger[p].expected, v)
         /\ ledger[g].evidence = ledger[p].gate
         /\ date >= Date(ledger[p].at)
         /\ Date(now) >= date
         /\ runs # {} => date > LastDate(runs)
         /\ e.kind = "ShadowEodRecorded" /\ e.candidate = c
         /\ e.gate = ledger[p].gate /\ e.approval = p
         /\ e.expected = ledger[p].expected /\ e.date = date /\ e.at = now
  BY <1>1, <1>2
<1>4. e \in Event
  BY DEF Event
<1>5. p = ApprovalIn(ledger, c, v) /\ GateStands(ledger, c, v, p)
  BY <1>0, <1>3, AsRead, GateFound
<1>6. runs = RunsIn(ledger, c, p, v)
  BY <1>0, <1>3, RunsAreLineage
<1>7. \A i \in runs : ledger[i].date < date
  <2> SUFFICES ASSUME NEW i \in runs PROVE ledger[i].date < date
    OBVIOUS
  <2>1. PICK x : x = Newest(runs)
    OBVIOUS
  <2>2. x \in runs /\ i <= x
    BY <1>0, <1>6, <2>1, RunsRise, NewestIn
  <2>3. ledger[x].date < date
    BY <1>0, <1>3, <1>6, <2>1, <2>2, RunsRise DEF LastDate
  <2>4. /\ i \in Nat /\ x \in Nat /\ ledger[i].date \in Nat /\ ledger[x].date \in Nat
        /\ i < x => ledger[i].date < ledger[x].date
    BY <1>0, <1>6, <2>2, RunsRise
  <2> QED
    BY <2>2, <2>3, <2>4
<1>8. Date(ledger[p].at) <= date /\ date <= Date(now)
  <2>1. ledger[p] \in ApprovalEvent
    BY <1>0, <1>3, FoundApproval
  <2>2. ledger[p].at \in Nat
    BY <2>1, LifecycleAssumption DEF ApprovalEvent, Times
  <2>3. Date(ledger[p].at) \in Nat
    BY <2>2, DateNat
  <2> QED
    BY <1>0, <1>3, <2>3
<1>9. Earned(ledger, v, e)
  <2>1. RunEarned(ledger, v, e)
    BY <1>3, <1>5, <1>6, <1>7, <1>8 DEF RunEarned
  <2> QED
    BY <1>3, <2>1 DEF Earned
<1> QED
  BY <1>0, <1>3, <1>4, <1>9, FollowsOne

\* The assignment that follows a transition replaces the one before it.
LEMMA AssignmentBehind ==
    ASSUME NEW L \in Seq(Event), NEW d \in TransitionEvent, NEW e,
           e.kind = "ProductionAssignmentCreated",
           e.previous = AssignmentIn(L, Len(L))
    PROVE  Earned(Append(L, d), Len(L) + 1, e)
<1> DEFINE M == Append(L, d)
<1>1. /\ Len(L) \in Nat /\ M[Len(L) + 1] = d
      /\ \A i \in 1..Len(L) : M[i] = L[i]
  BY Appended DEF Event
<1>2. d.kind # "ProductionAssignmentCreated"
  BY DEF TransitionEvent
<1>3. KindIn(M, "ProductionAssignmentCreated", Len(L) + 1)
        = KindIn(L, "ProductionAssignmentCreated", Len(L))
  <2> HIDE DEF M
  <2> QED
    BY <1>1, <1>2 DEF KindIn
<1>4. AssignmentIn(M, Len(L) + 1) = AssignmentIn(L, Len(L))
  BY <1>3 DEF AssignmentIn
<1> QED
  BY <1>4 DEF Earned

LEMMA PromoteIInv ==
    ASSUME IInv, Lookahead = 0, NEW c \in Candidates, Promote(c)
    PROVE  /\ IInv'
           /\ \E d \in TransitionEvent, e \in AssignmentEvent : \E p :
                 /\ ledger' = Append(Append(ledger, d), e)
                 /\ p = ApprovalIn(ledger, e.candidate, Len(ledger)) /\ p # 0
                 /\ ledger[p].refusal = "none"
                 /\ ledger[p].expected = AssignmentIn(ledger, Len(ledger))
<1>0. /\ TypeInv /\ Len(ledger) \in Nat /\ Len(ledger) \in 0..Len(ledger)
      /\ ledger \in Seq(Event)
  BY LenProperties DEF IInv, TypeInv, TypeOK
<1> DEFINE v == Len(ledger)
<1>1. PICK s \in Reads(4) : \E g, p, runs, current :
         \E d \in TransitionEvent, e \in AssignmentEvent :
            /\ d = Transition("PromotionEventRecorded", c, p)
            /\ e = Installed(c, current)
            /\ ledger' = Append(Append(ledger, d), e)
            /\ now' = now /\ TypeInv'
            /\ g = PassedGate(c, s[1]) /\ g # 0
            /\ p = ApprovalOf(c, s[2]) /\ p # 0
            /\ runs = Lineage(c, ledger[g].evidence, p, ledger[p].expected, s[3])
            /\ Cardinality(runs) = RequiredShadows
            /\ current = CurrentAssignment(s[4])
            /\ ledger[p].expected = current
            /\ Approved(p) /\ ~Expired(p, now)
  BY <1>0, PromoteType
<1>2. s[1] = v /\ s[2] = v /\ s[3] = v /\ s[4] = v
  BY <1>0, ReadsNow
<1>3. PICK g, p, runs, current :
         \E d \in TransitionEvent, e \in AssignmentEvent :
            /\ d = Transition("PromotionEventRecorded", c, p)
            /\ e = Installed(c, current)
            /\ ledger' = Append(Append(ledger, d), e)
            /\ now' = now /\ TypeInv'
            /\ g = PassedGate(c, v) /\ g # 0
            /\ p = ApprovalOf(c, v) /\ p # 0
            /\ runs = Lineage(c, ledger[g].evidence, p, ledger[p].expected, v)
            /\ Cardinality(runs) = RequiredShadows
            /\ current = CurrentAssignment(v)
            /\ ledger[p].expected = current
            /\ Approved(p) /\ ~Expired(p, now)
  BY <1>1, <1>2
<1>4. PICK d \in TransitionEvent, e \in AssignmentEvent :
            /\ d = Transition("PromotionEventRecorded", c, p)
            /\ e = Installed(c, current)
            /\ ledger' = Append(Append(ledger, d), e)
            /\ now' = now /\ TypeInv'
  BY <1>3
<1>5. /\ d.kind = "PromotionEventRecorded" /\ d.candidate = c /\ d.at = now
      /\ e.kind = "ProductionAssignmentCreated" /\ e.previous = current
      /\ e.candidate = c
      /\ d \in Event /\ e \in Event
  BY <1>4 DEF Transition, Installed, Event
<1>6. /\ p = ApprovalIn(ledger, c, v) /\ current = AssignmentIn(ledger, v)
      /\ ledger[p].refusal = "none" /\ ~(now >= ledger[p].at + Validity)
  BY <1>3, AsRead DEF Approved, Expired
<1>7. /\ runs # {} /\ runs \subseteq About("ShadowEodRecorded", c, v)
      /\ \A i \in runs : ledger[i].approval = p /\ ledger[i].gate = ledger[g].evidence
  <2>1. runs # {}
    BY <1>3, FS_EmptySet, LifecycleAssumption
  <2> QED
    BY <1>3, <2>1 DEF Lineage
<1>8. ledger[g].evidence = ledger[p].gate
  <2>1. PICK i : i \in runs
    BY <1>7
  <2>2. i \in RunsIn(ledger, c, p, v)
    BY <1>7, <2>1, AsRead DEF RunsIn
  <2>3. i \in Lineage(c, ledger[p].gate, p, ledger[p].expected, v)
    BY <1>0, <2>2, RunsAreLineage
  <2>4. ledger[i].gate = ledger[p].gate
    BY <2>3 DEF Lineage
  <2> QED
    BY <1>7, <2>1, <2>4
<1>9. runs = RunsIn(ledger, c, p, v) /\ GateStands(ledger, c, v, p)
  BY <1>0, <1>3, <1>8, RunsAreLineage, GateFound
<1>10. \A i \in runs : ledger[i].at <= now
  BY <1>7 DEF IInv, Timely, About, OfKind
<1>11. Earned(ledger, v, d)
  <2>1. PromotionEarned(ledger, v, d)
    BY <1>3, <1>5, <1>6, <1>9, <1>10 DEF PromotionEarned
  <2> QED
    BY <1>5, <2>1 DEF Earned
<1>12. Earned(Append(ledger, d), v + 1, e)
  BY <1>0, <1>5, <1>6, AssignmentBehind
<1>13. IInv'
  BY <1>4, <1>5, <1>11, <1>12, FollowsTwo
<1>14. ledger[p].expected = AssignmentIn(ledger, v) /\ p # 0
  BY <1>3, <1>6
<1> QED
  BY <1>4, <1>5, <1>6, <1>13, <1>14

LEMMA RollbackIInv ==
    ASSUME IInv, Lookahead = 0, Rollback
    PROVE  /\ IInv'
           /\ \E d \in TransitionEvent, e \in AssignmentEvent : \E a, t :
                 /\ ledger' = Append(Append(ledger, d), e)
                 /\ a = AssignmentIn(ledger, Len(ledger)) /\ a # 0
                 /\ t = ledger[a].previous /\ t # 0
                 /\ e.candidate = ledger[t].candidate
<1>0. TypeInv /\ Len(ledger) \in Nat /\ ledger \in Seq(Event)
  BY LenProperties DEF IInv, TypeInv, TypeOK
<1>1. PICK v \in Seen : \E current, target :
              \E d \in TransitionEvent, e \in AssignmentEvent :
                 /\ current = CurrentAssignment(v) /\ current # 0
                 /\ target = ledger[current].previous /\ target # 0
                 /\ d = Transition("RollbackEventRecorded", ledger[target].candidate, 0)
                 /\ e = Installed(ledger[target].candidate, current)
                 /\ ledger' = Append(Append(ledger, d), e)
                 /\ now' = now /\ TypeInv'
  BY <1>0, RollbackType
<1>2. v = Len(ledger)
  BY <1>0, ReadsNow
<1>3. PICK k, current, target :
              \E d \in TransitionEvent, e \in AssignmentEvent :
                 /\ current = CurrentAssignment(v) /\ current # 0
                 /\ target = ledger[current].previous /\ target # 0
                 /\ k = ledger[target].candidate
                 /\ d = Transition("RollbackEventRecorded", k, 0)
                 /\ e = Installed(k, current)
                 /\ ledger' = Append(Append(ledger, d), e)
                 /\ now' = now /\ TypeInv'
  BY <1>1
<1>4. PICK d \in TransitionEvent, e \in AssignmentEvent :
                 /\ current = CurrentAssignment(v) /\ current # 0
                 /\ target = ledger[current].previous /\ target # 0
                 /\ k = ledger[target].candidate
                 /\ d = Transition("RollbackEventRecorded", k, 0)
                 /\ e = Installed(k, current)
                 /\ ledger' = Append(Append(ledger, d), e)
                 /\ now' = now /\ TypeInv'
  BY <1>3
<1>5. /\ d.kind = "RollbackEventRecorded"
      /\ e.kind = "ProductionAssignmentCreated" /\ e.previous = current
      /\ e.candidate = ledger[target].candidate
      /\ d \in Event /\ e \in Event
  BY <1>4 DEF Transition, Installed, Event
<1>6. current = AssignmentIn(ledger, Len(ledger))
  BY <1>2, <1>4, AsRead
<1>7. Earned(ledger, Len(ledger), d)
  BY <1>5 DEF Earned
<1>8. Earned(Append(ledger, d), Len(ledger) + 1, e)
  BY <1>0, <1>5, <1>6, AssignmentBehind
<1>9. IInv'
  BY <1>4, <1>5, <1>7, <1>8, FollowsTwo
<1> QED
  BY <1>4, <1>5, <1>6, <1>9

LEMMA NextIInv ==
    ASSUME Lookahead = 0
    PROVE  IInv /\ [Next]_vars => IInv'
<1> SUFFICES ASSUME IInv, [Next]_vars PROVE IInv'
  OBVIOUS
<1>1. ASSUME NEW c \in Candidates,
             \/ \E qualified \in BOOLEAN : RecordCandidate(c, qualified)
             \/ \E e \in Evidence, passed \in BOOLEAN : EvaluateBootstrap(c, e, passed)
             \/ \E eligible \in BOOLEAN, requested \in {"approved", "rejected"},
                   expected \in Assignments(Len(ledger)) \cup {0} :
                   DecideApproval(c, eligible, requested, expected)
             \/ \E date \in 1..Date(now) : RecordShadow(c, date)
             \/ BlockShadow(c)
             \/ Promote(c)
      PROVE  IInv'
  <2>1. CASE \E qualified \in BOOLEAN : RecordCandidate(c, qualified)
    BY <2>1, RecordCandidateIInv
  <2>2. CASE \E e \in Evidence, passed \in BOOLEAN : EvaluateBootstrap(c, e, passed)
    BY <2>2, EvaluateBootstrapIInv
  <2>3. CASE \E eligible \in BOOLEAN, requested \in {"approved", "rejected"},
                expected \in Assignments(Len(ledger)) \cup {0} :
                DecideApproval(c, eligible, requested, expected)
    BY <2>3, DecideApprovalIInv
  <2>4. CASE \E date \in 1..Date(now) : RecordShadow(c, date)
    BY <2>4, RecordShadowIInv
  <2>5. CASE BlockShadow(c)
    BY <2>5, BlockShadowIInv
  <2>6. CASE Promote(c)
    BY <2>6, PromoteIInv
  <2> QED
    BY <1>1, <2>1, <2>2, <2>3, <2>4, <2>5, <2>6
<1>2. CASE RecordDevelopmentFailure
  BY <1>2, RecordDevelopmentFailureIInv
<1>3. CASE Rollback
  BY <1>3, RollbackIInv
<1>4. CASE Tick
  <2>1. TypeInv'
    BY NextTypeInv, <1>4 DEF Next, IInv
  <2>2. ledger' = ledger /\ now' = now + 1 /\ now \in Nat
    BY <1>4, LifecycleAssumption DEF Tick, IInv, TypeInv, TypeOK, Times
  <2>3. \A i \in 1..Len(ledger) :
           ledger[i].kind = "ShadowEodRecorded" => ledger[i].at \in Nat
    <3>1. ASSUME NEW i \in 1..Len(ledger), ledger[i].kind = "ShadowEodRecorded"
          PROVE  ledger[i].at \in Nat
      <4>1. ledger[i] \in ShadowEvent
        BY <3>1, LenProperties, ElementOfSeq, EventOfKind DEF IInv, TypeInv, TypeOK
      <4> QED
        BY <4>1, LifecycleAssumption DEF ShadowEvent, Times
    <3> QED
      BY <3>1
  <2>4. Timely(ledger, now + 1)
    <3>1. ASSUME NEW i \in 1..Len(ledger), ledger[i].kind = "ShadowEodRecorded"
          PROVE  ledger[i].at <= now + 1
      <4>1. ledger[i].at <= now /\ ledger[i].at \in Nat
        BY <2>3, <3>1 DEF IInv, Timely
      <4> QED
        BY <2>2, <4>1
    <3> QED
      BY <3>1 DEF Timely
  <2> QED
    BY <2>1, <2>2, <2>4 DEF IInv
<1>5. CASE UNCHANGED vars
  <2>1. TypeInv'
    BY NextTypeInv DEF IInv
  <2> QED
    BY <1>5, <2>1 DEF vars, IInv
<1> QED
  BY <1>1, <1>2, <1>3, <1>4, <1>5 DEF Next, Command

LEMMA InitIInv == Init => IInv
<1> SUFFICES ASSUME Init PROVE IInv
  OBVIOUS
<1>1. ledger = <<>> /\ Len(ledger) = 0
  BY EmptySeq DEF Init
<1> QED
  BY <1>1, InitTypeInv DEF IInv, LedgerEarned, Timely

LEMMA Invariance ==
    ASSUME Lookahead = 0
    PROVE  Spec => []IInv
<1>1. IInv /\ [Next]_vars => IInv'
  BY NextIInv
<1> QED
  BY <1>1, InitIInv, PTL DEF Spec

-----------------------------------------------------------------------------
(* What the ledger says of every event.                                    *)

LEMMA EventEarned ==
    ASSUME IInv
    PROVE  /\ Len(ledger) \in Nat
           /\ \A i \in 1..Len(ledger) :
                 /\ ledger[i] \in Event /\ i \in Nat
                 /\ i - 1 \in 0..Len(ledger) /\ i \in 0..Len(ledger)
                 /\ Earned(ledger, i - 1, ledger[i])
<1>1. Len(ledger) \in Nat /\ \A i \in 1..Len(ledger) : ledger[i] \in Event
  BY LenProperties, ElementOfSeq DEF IInv, TypeInv, TypeOK
<1> QED
  BY <1>1 DEF IInv, LedgerEarned

\* Once evaluate_bootstrap has seen a production assignment no gate passes:
\* the bootstrap gate is closed for good, whoever evaluates meanwhile.
THEOREM BootstrapStaysClosed ==
    ASSUME Lookahead = 0
    PROVE  Spec => []BootstrapIsClosed
<1>1. IInv => BootstrapIsClosed
  <2> SUFFICES ASSUME IInv,
                      NEW a \in Assignments(Len(ledger)),
                      NEW g \in OfKind("GateDecisionRecorded", Len(ledger)),
                      g > a, ledger[g].passed
               PROVE  FALSE
    BY DEF BootstrapIsClosed
  <2>1. /\ a \in 1..Len(ledger) /\ ledger[a].kind = "ProductionAssignmentCreated"
        /\ g \in 1..Len(ledger) /\ ledger[g].kind = "GateDecisionRecorded"
    BY DEF Assignments, OfKind
  <2>2. GateEarned(ledger, g - 1, ledger[g])
    BY <2>1, EventEarned DEF Earned
  <2>3. a \in KindIn(ledger, "ProductionAssignmentCreated", g - 1)
    BY <2>1, EventEarned DEF KindIn
  <2> QED
    BY <2>2, <2>3 DEF GateEarned
<1> QED
  BY <1>1, Invariance, PTL

LEMMA NoneAfterRejection ==
    ASSUME IInv, NEW c,
           NEW i \in About("ApprovalDecisionRecorded", c, Len(ledger)),
           ledger[i].refusal = "approver_rejected",
           NEW j \in About("ApprovalDecisionRecorded", c, Len(ledger)), i < j
    PROVE  ledger[j].refusal # "none"
<1>1. /\ i \in 1..Len(ledger) /\ ledger[i].kind = "ApprovalDecisionRecorded"
      /\ j \in 1..Len(ledger) /\ ledger[j].kind = "ApprovalDecisionRecorded"
      /\ ledger[i].candidate = c /\ ledger[j].candidate = c
  BY DEF About, OfKind
<1>2. ApprovalEarned(ledger, j - 1, ledger[j])
  BY <1>1, EventEarned DEF Earned
<1>3. i \in AboutIn(ledger, "ApprovalDecisionRecorded", c, j - 1)
  BY <1>1, EventEarned DEF AboutIn, KindIn
<1> QED
  BY <1>1, <1>2, <1>3 DEF ApprovalEarned

\* What stands in the ledger where a promotion was recorded.
LEMMA Promoted ==
    ASSUME IInv, NEW n \in OfKind("PromotionEventRecorded", Len(ledger)),
           NEW c, c = ledger[n].candidate,
           NEW p, p = ApprovalOf(c, n)
    PROVE  /\ n \in 1..Len(ledger) /\ p \in 1..n /\ p # n
           /\ ledger[n].kind = "PromotionEventRecorded"
           /\ ledger[p].kind = "ApprovalDecisionRecorded"
           /\ p \in About("ApprovalDecisionRecorded", c, Len(ledger))
           /\ ledger[p].candidate = c
           /\ p = ApprovalIn(ledger, c, n - 1)
           /\ \A i \in About("ApprovalDecisionRecorded", c, n) : i <= p
           /\ PromotionEarned(ledger, n - 1, ledger[n])
<1>1. n \in 1..Len(ledger) /\ ledger[n].kind = "PromotionEventRecorded"
  BY DEF OfKind
<1>2. PromotionEarned(ledger, n - 1, ledger[n]) /\ n \in Nat /\ n - 1 \in Nat
  BY <1>1, EventEarned DEF Earned
<1> DEFINE S == About("ApprovalDecisionRecorded", c, n)
<1>3. S = AboutIn(ledger, "ApprovalDecisionRecorded", c, n - 1)
  BY <1>1, <1>2 DEF About, OfKind, AboutIn, KindIn
<1>4. p = ApprovalIn(ledger, c, n - 1) /\ p = Newest(S)
  BY <1>3 DEF ApprovalOf, ApprovalIn
<1>5. p # 0 /\ S \in SUBSET (1..n)
  BY <1>2, <1>4 DEF PromotionEarned, About, OfKind
<1>6. S # {}
  BY <1>4, <1>5 DEF Newest
<1>7. p \in S /\ \A i \in S : i <= p
  <2> HIDE DEF S
  <2> QED
    BY <1>2, <1>4, <1>5, <1>6, NewestIn
<1>8. /\ p \in 1..n /\ ledger[p].kind = "ApprovalDecisionRecorded"
      /\ ledger[p].candidate = c
  BY <1>7 DEF About, OfKind
<1>9. p \in About("ApprovalDecisionRecorded", c, Len(ledger))
  BY <1>1, <1>2, <1>8, EventEarned DEF About, OfKind
<1> QED
  BY <1>1, <1>2, <1>4, <1>7, <1>8, <1>9

\* Once an approver has rejected a candidate's exact evidence decide_approval
\* approves it no more and promote finds no approval of it.
THEOREM RejectionStands ==
    ASSUME Lookahead = 0
    PROVE  Spec => []RejectionIsFinal
<1>1. IInv => RejectionIsFinal
  <2> SUFFICES ASSUME IInv, NEW c \in Candidates,
                      NEW i \in About("ApprovalDecisionRecorded", c, Len(ledger)),
                      ledger[i].refusal = "approver_rejected"
               PROVE  /\ \A j \in About("ApprovalDecisionRecorded", c, Len(ledger)) :
                            j > i => ~Approved(j)
                      /\ \A j \in About("PromotionEventRecorded", c, Len(ledger)) : j < i
    BY DEF RejectionIsFinal
  <2>1. /\ i \in 1..Len(ledger) /\ i \in Nat /\ ledger[i].kind = "ApprovalDecisionRecorded"
        /\ ledger[i].candidate = c
    BY EventEarned DEF About, OfKind
  <2>2. ASSUME NEW j \in About("ApprovalDecisionRecorded", c, Len(ledger)), j > i
        PROVE  ~Approved(j)
    <3>1. i < j
      BY <2>1, <2>2, EventEarned DEF About, OfKind
    <3> QED
      BY <3>1, NoneAfterRejection DEF Approved
  <2>3. ASSUME NEW n \in About("PromotionEventRecorded", c, Len(ledger)), ~(n < i)
        PROVE  FALSE
    <3>1. n \in OfKind("PromotionEventRecorded", Len(ledger)) /\ ledger[n].candidate = c
      BY DEF About
    <3>2. PICK p : p = ApprovalOf(c, n)
      OBVIOUS
    <3>3. /\ n \in 1..Len(ledger) /\ p \in 1..n
          /\ p \in About("ApprovalDecisionRecorded", c, Len(ledger))
          /\ \A k \in About("ApprovalDecisionRecorded", c, n) : k <= p
          /\ p = ApprovalIn(ledger, c, n - 1)
          /\ PromotionEarned(ledger, n - 1, ledger[n])
      BY <3>1, <3>2, Promoted
    <3>4. ledger[p].refusal = "none"
      BY <3>1, <3>3 DEF PromotionEarned
    <3>5. i \in About("ApprovalDecisionRecorded", c, n)
      BY <2>1, <2>3, <3>3, EventEarned DEF About, OfKind
    <3>6. i < p
      <4>1. i # p
        BY <3>4
      <4> QED
        BY <2>1, <3>3, <3>5, <4>1, EventEarned
    <3> QED
      BY <3>3, <3>4, <3>6, NoneAfterRejection
  <2>4. \A n \in About("PromotionEventRecorded", c, Len(ledger)) : n < i
    BY <2>3
  <2> QED
    BY <2>2, <2>4
<1> QED
  BY <1>1, Invariance, PTL

LEMMA NewestIs ==
    ASSUME NEW n \in Nat, NEW S \in SUBSET (1..n), NEW x \in S, \A y \in S : y <= x
    PROVE  Newest(S) = x
<1>1. PICK m : m = Newest(S)
  OBVIOUS
<1>2. m \in S /\ \A y \in S : y <= m
  BY <1>1, NewestIn
<1>3. x <= m /\ m <= x /\ x \in 1..n /\ m \in 1..n
  BY <1>2
<1> QED
  BY <1>1, <1>3

\* An event is not among those of another kind.
LEMMA OtherKind ==
    ASSUME IInv, NEW i \in 1..Len(ledger), NEW kind, ledger[i].kind # kind, NEW c
    PROVE  /\ About(kind, c, i) = AboutIn(ledger, kind, c, i - 1)
           /\ OfKind(kind, i) = KindIn(ledger, kind, i - 1)
<1>1. i \in Nat
  BY EventEarned
<1>2. OfKind(kind, i) = KindIn(ledger, kind, i - 1)
  BY <1>1 DEF OfKind, KindIn
<1> QED
  BY <1>2 DEF About, AboutIn

\* The runs between an approval and the promotion it allows are those recorded
\* under it, and none of them saw another gate.
LEMMA RunsBetween ==
    ASSUME IInv, NEW n \in OfKind("PromotionEventRecorded", Len(ledger)),
           NEW c, c = ledger[n].candidate,
           NEW p, p = ApprovalOf(c, n)
    PROVE  /\ Between("ShadowEodRecorded", c, p, n) = RunsIn(ledger, c, p, n - 1)
           /\ \A i \in RunsIn(ledger, c, p, n - 1) :
                 /\ i \in 1..Len(ledger) /\ ledger[i].kind = "ShadowEodRecorded"
                 /\ ledger[i].candidate = c
                 /\ ApprovalIn(ledger, c, i - 1) = p
                 /\ RunEarned(ledger, i - 1, ledger[i])
<1>1. /\ n \in 1..Len(ledger) /\ n \in Nat /\ p \in 1..n /\ p \in Nat
      /\ ledger[p].kind = "ApprovalDecisionRecorded" /\ ledger[p].candidate = c
      /\ \A i \in About("ApprovalDecisionRecorded", c, n) : i <= p
      /\ ledger[n].kind = "PromotionEventRecorded"
  <2>1. /\ n \in 1..Len(ledger) /\ p \in 1..n
        /\ ledger[p].kind = "ApprovalDecisionRecorded" /\ ledger[p].candidate = c
        /\ \A i \in About("ApprovalDecisionRecorded", c, n) : i <= p
        /\ ledger[n].kind = "PromotionEventRecorded"
    BY Promoted
  <2>2. n \in Nat /\ p \in Nat
    BY <2>1, EventEarned
  <2> QED
    BY <2>1, <2>2
<1>2. ASSUME NEW i \in RunsIn(ledger, c, p, n - 1)
      PROVE  /\ i \in 1..Len(ledger) /\ i \in Nat /\ i < n /\ p < i
             /\ ledger[i].kind = "ShadowEodRecorded"
             /\ ledger[i].candidate = c
             /\ ApprovalIn(ledger, c, i - 1) = p
             /\ RunEarned(ledger, i - 1, ledger[i])
  <2>1. /\ i \in 1..(n - 1) /\ ledger[i].kind = "ShadowEodRecorded"
        /\ ledger[i].candidate = c /\ ledger[i].approval = p
    BY DEF RunsIn, AboutIn, KindIn
  <2>2. i \in 1..Len(ledger) /\ i \in Nat /\ i < n
    BY <1>1, <2>1, EventEarned
  <2>3. RunEarned(ledger, i - 1, ledger[i])
    BY <2>1, <2>2, EventEarned DEF Earned
  <2>4. ApprovalIn(ledger, c, i - 1) = p
    BY <2>1, <2>3 DEF RunEarned
  <2>5. p \in 0..(i - 1)
    <3>1. AboutIn(ledger, "ApprovalDecisionRecorded", c, i - 1) \in SUBSET (1..(i - 1))
      BY DEF AboutIn, KindIn
    <3>2. i - 1 \in Nat
      BY <2>2
    <3> QED
      BY <2>4, <3>1, <3>2, NewestZero DEF ApprovalIn
  <2>6. p < i
    BY <1>1, <2>2, <2>5
  <2> QED
    BY <2>1, <2>2, <2>3, <2>4, <2>6
<1>3. ASSUME NEW i \in Between("ShadowEodRecorded", c, p, n)
      PROVE  i \in RunsIn(ledger, c, p, n - 1)
  <2>1. /\ i \in 1..n /\ p < i /\ i < n
        /\ ledger[i].kind = "ShadowEodRecorded" /\ ledger[i].candidate = c
    BY DEF Between, About, OfKind
  <2>2. i \in 1..Len(ledger) /\ i \in Nat /\ i - 1 \in Nat
    BY <1>1, <2>1, EventEarned
  <2>3. RunEarned(ledger, i - 1, ledger[i])
    BY <2>1, <2>2, EventEarned DEF Earned
  <2> DEFINE S == AboutIn(ledger, "ApprovalDecisionRecorded", c, i - 1)
  <2>4. S \in SUBSET (1..(i - 1)) /\ p \in S
    BY <1>1, <2>1, <2>2 DEF AboutIn, KindIn
  <2>5. \A k \in S : k <= p
    BY <1>1, <2>1, <2>2 DEF AboutIn, KindIn, About, OfKind
  <2>6. ApprovalIn(ledger, c, i - 1) = p
    <3> HIDE DEF S
    <3>1. Newest(S) = p
      BY <2>2, <2>4, <2>5, NewestIs
    <3> QED
      BY <3>1 DEF ApprovalIn, S
  <2>7. ledger[i].approval = p
    BY <2>1, <2>3, <2>6 DEF RunEarned
  <2> QED
    BY <1>1, <2>1, <2>2, <2>7 DEF RunsIn, AboutIn, KindIn
<1>4. ASSUME NEW i \in RunsIn(ledger, c, p, n - 1)
      PROVE  i \in Between("ShadowEodRecorded", c, p, n)
  BY <1>1, <1>2 DEF Between, About, OfKind
<1>5. Between("ShadowEodRecorded", c, p, n) = RunsIn(ledger, c, p, n - 1)
  BY <1>3, <1>4
<1> QED
  BY <1>2, <1>5

LEMMA GateInForce ==
    ASSUME IInv, NEW i \in 1..Len(ledger), ledger[i].kind # "GateDecisionRecorded",
           NEW c, NEW p, p # 0, GateStands(ledger, c, i - 1, p)
    PROVE  ApprovesGate(p, LatestGate(c, i))
<1>1. LatestGate(c, i) = GateIn(ledger, c, i - 1)
  BY OtherKind DEF LatestGate, GateIn
<1> QED
  BY <1>1 DEF GateStands, ApprovesGate

LEMMA VettedPromotion ==
    ASSUME IInv, NEW n \in OfKind("PromotionEventRecorded", Len(ledger)),
           NEW c, c = ledger[n].candidate,
           NEW p, p = ApprovalOf(c, n),
           NEW runs, runs = Between("ShadowEodRecorded", c, p, n)
    PROVE  /\ p # 0 /\ Approved(p) /\ ~Expired(p, ledger[n].at)
           /\ \E g \in About("GateDecisionRecorded", c, p) :
                 /\ ledger[g].passed /\ ledger[g].evidence = ledger[p].gate
                 /\ \E r \in About("CandidateRecorded", c, g) :
                       ledger[r].qualified
           /\ \A i \in runs \cup {n} : ApprovesGate(p, LatestGate(c, i))
           /\ ledger[p].expected = CurrentAssignment(n)
           /\ CurrentAssignment(p) = CurrentAssignment(n)
           /\ Cardinality({ledger[i].date : i \in runs}) = RequiredShadows
           /\ \A i \in runs : /\ ledger[i].date >= Date(ledger[p].at)
                              /\ ledger[i].date <= Date(ledger[n].at)
<1>1. /\ n \in 1..Len(ledger) /\ n \in Nat /\ p \in 1..n /\ p # n /\ p \in Nat
      /\ n - 1 \in 0..Len(ledger) /\ p \in 1..Len(ledger)
      /\ ledger[n].kind = "PromotionEventRecorded"
      /\ ledger[p].kind = "ApprovalDecisionRecorded" /\ ledger[p].candidate = c
      /\ p = ApprovalIn(ledger, c, n - 1)
      /\ PromotionEarned(ledger, n - 1, ledger[n])
  BY Promoted, EventEarned
<1>2. /\ runs = RunsIn(ledger, c, p, n - 1)
      /\ \A i \in runs :
            /\ i \in 1..Len(ledger) /\ ledger[i].kind = "ShadowEodRecorded"
            /\ ledger[i].candidate = c
            /\ ApprovalIn(ledger, c, i - 1) = p
            /\ RunEarned(ledger, i - 1, ledger[i])
  BY RunsBetween
<1>3. Approved(p) /\ ~Expired(p, ledger[n].at) /\ p # 0
  BY <1>1 DEF PromotionEarned, Approved, Expired
<1>4. ApprovalEarned(ledger, p - 1, ledger[p])
  BY <1>1, EventEarned DEF Earned
<1>5. \E g \in About("GateDecisionRecorded", c, p) :
         /\ ledger[g].passed /\ ledger[g].evidence = ledger[p].gate
         /\ \E r \in About("CandidateRecorded", c, g) : ledger[r].qualified
  <2>1. PICK g \in AboutIn(ledger, "GateDecisionRecorded", c, p - 1) :
           ledger[g].passed /\ ledger[g].evidence = ledger[p].gate
    BY <1>1, <1>4 DEF ApprovalEarned
  <2>2. /\ g \in 1..(p - 1) /\ ledger[g].kind = "GateDecisionRecorded"
        /\ ledger[g].candidate = c
    BY DEF AboutIn, KindIn
  <2>3. g \in 1..Len(ledger) /\ g \in Nat /\ g \in 1..p
    BY <1>1, <2>2, EventEarned
  <2>4. GateEarned(ledger, g - 1, ledger[g])
    BY <2>2, <2>3, EventEarned DEF Earned
  <2>5. PICK r \in AboutIn(ledger, "CandidateRecorded", c, g - 1) : ledger[r].qualified
    BY <2>1, <2>2, <2>4 DEF GateEarned
  <2>6. r \in About("CandidateRecorded", c, g)
    BY <2>3 DEF AboutIn, KindIn, About, OfKind
  <2>7. g \in About("GateDecisionRecorded", c, p)
    BY <2>2, <2>3 DEF About, OfKind
  <2> QED
    BY <2>1, <2>5, <2>6, <2>7
<1>6. \A i \in runs \cup {n} : ApprovesGate(p, LatestGate(c, i))
  <2>1. ASSUME NEW i \in runs PROVE ApprovesGate(p, LatestGate(c, i))
    <3>1. GateStands(ledger, c, i - 1, p)
      BY <1>2 DEF RunEarned
    <3> QED
      BY <1>2, <1>3, <3>1, GateInForce
  <2>2. ApprovesGate(p, LatestGate(c, n))
    <3>1. GateStands(ledger, c, n - 1, p)
      BY <1>1 DEF PromotionEarned
    <3> QED
      BY <1>1, <1>3, <3>1, GateInForce
  <2> QED
    BY <2>1, <2>2
<1>7. /\ ledger[p].expected = CurrentAssignment(n)
      /\ CurrentAssignment(p) = CurrentAssignment(n)
  <2>1. CurrentAssignment(n) = AssignmentIn(ledger, n - 1)
    BY <1>1, OtherKind DEF CurrentAssignment, Assignments, AssignmentIn
  <2>2. CurrentAssignment(p) = AssignmentIn(ledger, p - 1)
    BY <1>1, OtherKind DEF CurrentAssignment, Assignments, AssignmentIn
  <2>3. ledger[p].expected = AssignmentIn(ledger, n - 1) /\ ledger[p].refusal = "none"
    BY <1>1 DEF PromotionEarned
  <2>4. ledger[p].expected = AssignmentIn(ledger, p - 1)
    BY <1>4, <2>3 DEF ApprovalEarned
  <2> QED
    BY <2>1, <2>2, <2>3, <2>4
<1>8. Cardinality({ledger[i].date : i \in runs}) = RequiredShadows
  <2> DEFINE dates == {ledger[i].date : i \in runs}
             f == [i \in runs |-> ledger[i].date]
  <2>1. /\ \A i, j \in runs : i < j => ledger[i].date < ledger[j].date
        /\ runs \in SUBSET (1..(n - 1))
        /\ \A i \in runs : ledger[i].date \in Nat
    BY <1>1, <1>2, RunsRise
  <2>2. \A i, j \in runs : i # j => ledger[i].date # ledger[j].date
    <3> SUFFICES ASSUME NEW i \in runs, NEW j \in runs, i # j
                 PROVE  ledger[i].date # ledger[j].date
      OBVIOUS
    <3>1. i \in Int /\ j \in Int /\ ledger[i].date \in Nat /\ ledger[j].date \in Nat
      BY <2>1
    <3>2. (i < j => ledger[i].date < ledger[j].date)
            /\ (j < i => ledger[j].date < ledger[i].date)
      BY <2>1
    <3> QED
      BY <3>1, <3>2
  <2>3. f \in Bijection(runs, dates)
    <3>1. f \in [runs -> dates]
      OBVIOUS
    <3>2. \A i, j \in runs : f[i] = f[j] => i = j
      BY <2>2
    <3>3. \A d \in dates : \E i \in runs : f[i] = d
      OBVIOUS
    <3> HIDE DEF f, dates
    <3> QED
      BY <3>1, <3>2, <3>3 DEF Bijection, Injection, Surjection, IsInjective
  <2>4. IsFiniteSet(runs)
    <3>1. IsFiniteSet(1..(n - 1))
      BY <1>1, FS_Interval
    <3> QED
      BY <2>1, <3>1, FS_Subset
  <2>5. Cardinality(dates) = Cardinality(runs)
    <3>1. ExistsBijection(runs, dates)
      BY <2>3 DEF ExistsBijection
    <3> HIDE DEF dates
    <3> QED
      BY <2>4, <3>1, FS_Bijection
  <2>6. Cardinality(runs) = RequiredShadows
    BY <1>1, <1>2 DEF PromotionEarned
  <2> QED
    BY <2>5, <2>6
<1>9. ASSUME NEW i \in runs
      PROVE  /\ ledger[i].date >= Date(ledger[p].at)
             /\ ledger[i].date <= Date(ledger[n].at)
  <2>1. /\ Date(ledger[p].at) <= ledger[i].date
        /\ ledger[i].date <= Date(ledger[i].at)
    BY <1>2 DEF RunEarned
  <2>2. ledger[i].at <= ledger[n].at
    BY <1>1, <1>2 DEF PromotionEarned
  <2>3. /\ ledger[p] \in ApprovalEvent /\ ledger[i] \in ShadowEvent
        /\ ledger[n] \in TransitionEvent
    BY <1>1, <1>2, EventEarned, EventOfKind
  <2>4. /\ ledger[p].at \in Nat /\ ledger[i].at \in Nat /\ ledger[n].at \in Nat
        /\ ledger[i].date \in Nat
    <3>1. \A t \in Times : t \in Nat
      BY LifecycleAssumption DEF Times
    <3>2. ledger[p].at \in Times
      BY ONLY <2>3 DEF ApprovalEvent
    <3>3. ledger[i].at \in Times /\ ledger[i].date \in Nat
      BY ONLY <2>3 DEF ShadowEvent
    <3>4. ledger[n].at \in Times
      BY ONLY <2>3 DEF TransitionEvent
    <3> QED
      BY <3>1, <3>2, <3>3, <3>4
  <2>5. Date(ledger[i].at) <= Date(ledger[n].at)
    BY <2>2, <2>4, DateMonotone
  <2>6. Date(ledger[i].at) \in Nat /\ Date(ledger[n].at) \in Nat /\ Date(ledger[p].at) \in Nat
    BY <2>4, DateNat
  <2> QED
    BY <2>1, <2>4, <2>5, <2>6
<1> QED
  BY <1>3, <1>5, <1>6, <1>7, <1>8, <1>9

\* promote finds a standing approval, five runs on rising dates behind it and
\* the gate decision in force, which every one of the runs has seen, too.
THEOREM PromotionsVetted ==
    ASSUME Lookahead = 0
    PROVE  Spec => []PromotionIsVetted
<1>1. IInv => PromotionIsVetted
  BY VettedPromotion DEF PromotionIsVetted
<1> QED
  BY <1>1, Invariance, PTL

-----------------------------------------------------------------------------
(* The projection.                                                         *)

LEMMA ShownApproved ==
    ASSUME NEW c, NEW t, NEW v, v = Len(ledger),
           NEW p, p = ApprovalOf(c, v),
           NEW g, g = LatestGate(c, v)
    PROVE  ProjectedApproval(c, t) = "approved" <=>
              /\ ApprovesGate(p, g) /\ Approved(p) /\ ~Expired(p, t)
              /\ ledger[p].expected = CurrentAssignment(v)
<1>1. CASE p = 0
  <2>1. ~ApprovesGate(p, g)
    BY <1>1 DEF ApprovesGate
  <2>2. ProjectedApproval(c, t) = IF g # 0 /\ ~ledger[g].passed
                                  THEN "blocked_by_gate" ELSE "awaiting_approval"
    BY <1>1, <2>1, Zenon DEF ProjectedApproval
  <2> QED
    BY <2>1, <2>2
<1>2. CASE p # 0 /\ ~ApprovesGate(p, g)
  <2>1. ProjectedApproval(c, t) = "gate_lineage_changed"
    BY <1>2, Zenon DEF ProjectedApproval
  <2> QED
    BY <1>2, <2>1
<1>3. CASE p # 0 /\ ApprovesGate(p, g) /\ ~Approved(p)
  <2>1. ProjectedApproval(c, t) = "rejected"
    BY <1>3, Zenon DEF ProjectedApproval
  <2> QED
    BY <1>3, <2>1
<1>4. CASE p # 0 /\ ApprovesGate(p, g) /\ Approved(p)
  <2>1. ProjectedApproval(c, t) = IF Expired(p, t) THEN "approval_expired"
                                  ELSE IF ledger[p].expected # CurrentAssignment(v)
                                  THEN "expected_assignment_changed" ELSE "approved"
    BY <1>4, Zenon DEF ProjectedApproval
  <2> QED
    BY <1>4, <2>1
<1> QED
  BY <1>1, <1>2, <1>3, <1>4

LEMMA Promotable ==
    ASSUME IInv, NEW c,
           NEW v, v = Len(ledger),
           NEW p, p = ApprovalOf(c, v),
           NEW g, g = PassedGate(c, v),
           NEW runs, runs = Lineage(c, ledger[g].evidence, p, ledger[p].expected, v)
    PROVE  (/\ p # 0 /\ g # 0
            /\ IsHistory(runs, ledger[p].at)
            /\ Cardinality(runs) = RequiredShadows
            /\ ledger[p].expected = CurrentAssignment(v)
            /\ Approved(p) /\ ~Expired(p, now))
           <=> /\ ProjectedApproval(c, now) = "approved"
               /\ ProjectedShadows(c) = RequiredShadows
<1>0. TypeInv /\ v \in 0..Len(ledger)
  BY LenProperties DEF IInv, TypeInv, TypeOK
<1>1. PICK h : h = LatestGate(c, v)
  OBVIOUS
<1>2. PICK shown : shown = Lineage(c, ledger[p].gate, p, ledger[p].expected, v)
  OBVIOUS
<1>3. ProjectedApproval(c, now) = "approved" <=>
         /\ ApprovesGate(p, h) /\ Approved(p) /\ ~Expired(p, now)
         /\ ledger[p].expected = CurrentAssignment(v)
  BY <1>1, ShownApproved
<1>4. ProjectedShadows(c) =
         IF ApprovesGate(p, h) /\ IsHistory(shown, ledger[p].at)
         THEN Cardinality(shown) ELSE 0
  BY <1>1, <1>2, Zenon DEF ProjectedShadows
<1>5. ASSUME p # 0, g # 0, IsHistory(runs, ledger[p].at),
             Cardinality(runs) = RequiredShadows,
             ledger[p].expected = CurrentAssignment(v), Approved(p), ~Expired(p, now)
      PROVE  ProjectedApproval(c, now) = "approved" /\ ProjectedShadows(c) = RequiredShadows
  <2>1. g = h /\ ledger[g].passed
    BY <1>0, <1>1, <1>5, FoundGate
  <2>2. ledger[p].gate = ledger[g].evidence
    <3>1. runs # {}
      BY <1>5, FS_EmptySet, LifecycleAssumption
    <3>2. PICK i : i \in runs
      BY <3>1
    <3>3. i \in RunsIn(ledger, c, p, v) /\ ledger[i].gate = ledger[g].evidence
      BY <3>2, AsRead DEF Lineage, RunsIn
    <3>4. i \in Lineage(c, ledger[p].gate, p, ledger[p].expected, v)
      BY <1>0, <3>3, RunsAreLineage
    <3>5. ledger[i].gate = ledger[p].gate
      BY <3>4 DEF Lineage
    <3> QED
      BY <3>3, <3>5
  <2>3. ApprovesGate(p, h) /\ shown = runs
    BY <1>2, <1>5, <2>1, <2>2 DEF ApprovesGate
  <2> QED
    BY <1>3, <1>4, <1>5, <2>3
<1>6. ASSUME ProjectedApproval(c, now) = "approved", ProjectedShadows(c) = RequiredShadows
      PROVE  /\ p # 0 /\ g # 0
             /\ IsHistory(runs, ledger[p].at)
             /\ Cardinality(runs) = RequiredShadows
             /\ ledger[p].expected = CurrentAssignment(v)
             /\ Approved(p) /\ ~Expired(p, now)
  <2>1. /\ ApprovesGate(p, h) /\ Approved(p) /\ ~Expired(p, now)
        /\ ledger[p].expected = CurrentAssignment(v)
    BY <1>3, <1>6
  <2>2. g = h /\ p # 0 /\ g # 0 /\ ledger[g].evidence = ledger[p].gate
    BY <1>1, <2>1 DEF ApprovesGate, PassedGate
  <2>3. shown = runs
    BY <1>2, <2>2
  <2>4. IsHistory(shown, ledger[p].at) /\ Cardinality(shown) = RequiredShadows
    <3>1. RequiredShadows # 0
      BY LifecycleAssumption
    <3> QED
      BY <1>4, <1>6, <3>1, Zenon
  <2> QED
    BY <2>1, <2>2, <2>3, <2>4
<1> QED
  BY <1>5, <1>6

\* get_backtest shows a candidate as approved with all its shadow cycles
\* exactly when promote would find nothing in the ledger to refuse it for.
THEOREM ProjectionTells ==
    ASSUME Lookahead = 0
    PROVE  Spec => []ProjectionAgrees
<1>1. IInv => ProjectionAgrees
  BY Promotable, Zenon DEF ProjectionAgrees
<1> QED
  BY <1>1, Invariance, PTL

-----------------------------------------------------------------------------
(* The refinement: the assignments of a ledger, counted.                   *)

AssignedIn(L, v) == KindIn(L, "ProductionAssignmentCreated", v)
CountIn(L, v) == Cardinality(AssignedIn(L, v))

\* Every number up to the last one counts an assignment.
Counted(L) ==
    \A k \in 1..CountIn(L, Len(L)) : \E a \in AssignedIn(L, Len(L)) : CountIn(L, a) = k

\* What ServingHistory calls installed, rejected and granted.
InstalledIn(L) ==
    [k \in 1..CountIn(L, Len(L)) |->
        L[CHOOSE a \in AssignedIn(L, Len(L)) : CountIn(L, a) = k].candidate]
RejectedIn(L) ==
    {c \in Candidates :
        \E i \in AboutIn(L, "ApprovalDecisionRecorded", c, Len(L)) :
            L[i].refusal = "approver_rejected"}
GrantedIn(L) ==
    [c \in Candidates |->
        LET p == ApprovalIn(L, c, Len(L))
        IN  IF p # 0 /\ L[p].refusal = "none" THEN CountIn(L, L[p].expected) ELSE None]

LEMMA CountNat ==
    ASSUME NEW L \in Seq(Event), NEW v \in 0..Len(L)
    PROVE  IsFiniteSet(AssignedIn(L, v)) /\ CountIn(L, v) \in Nat
<1>1. v \in Int /\ AssignedIn(L, v) \in SUBSET (1..v)
  BY Appended DEF AssignedIn, KindIn
<1>2. IsFiniteSet(1..v)
  BY <1>1, FS_Interval
<1>3. IsFiniteSet(AssignedIn(L, v))
  BY <1>1, <1>2, FS_Subset
<1> QED
  BY <1>3, FS_CardinalityType DEF CountIn

LEMMA CountNext ==
    ASSUME NEW L \in Seq(Event), NEW a \in 1..Len(L)
    PROVE  CountIn(L, a) = CountIn(L, a - 1)
              + (IF L[a].kind = "ProductionAssignmentCreated" THEN 1 ELSE 0)
<1>1. a - 1 \in 0..Len(L) /\ a \in Nat
  BY LenProperties
<1>2. IsFiniteSet(AssignedIn(L, a - 1)) /\ CountIn(L, a - 1) \in Nat
  BY <1>1, CountNat
<1>3. CASE L[a].kind = "ProductionAssignmentCreated"
  <2>1. AssignedIn(L, a) = AssignedIn(L, a - 1) \cup {a} /\ a \notin AssignedIn(L, a - 1)
    BY <1>1, <1>3 DEF AssignedIn, KindIn
  <2>2. Cardinality(AssignedIn(L, a - 1) \cup {a}) = Cardinality(AssignedIn(L, a - 1)) + 1
    BY <1>2, <2>1, FS_AddElement
  <2> QED
    BY <1>3, <2>1, <2>2 DEF CountIn
<1>4. CASE L[a].kind # "ProductionAssignmentCreated"
  <2>1. AssignedIn(L, a) = AssignedIn(L, a - 1)
    BY <1>1, <1>4 DEF AssignedIn, KindIn
  <2> QED
    BY <1>2, <1>4, <2>1 DEF CountIn
<1> QED
  BY <1>3, <1>4

LEMMA CountMonotone ==
    ASSUME NEW L \in Seq(Event), NEW v \in 0..Len(L), NEW w \in 0..v
    PROVE  CountIn(L, w) <= CountIn(L, v)
<1>1. w \in 0..Len(L) /\ AssignedIn(L, w) \in SUBSET AssignedIn(L, v)
  BY LenProperties DEF AssignedIn, KindIn
<1> QED
  BY <1>1, CountNat, FS_Subset DEF CountIn

\* Different assignments have different numbers.
LEMMA CountOnce ==
    ASSUME NEW L \in Seq(Event),
           NEW a \in AssignedIn(L, Len(L)), NEW b \in AssignedIn(L, Len(L)),
           CountIn(L, a) = CountIn(L, b)
    PROVE  a = b
<1>1. ASSUME NEW x \in AssignedIn(L, Len(L)), NEW y \in AssignedIn(L, Len(L)), x < y
      PROVE  CountIn(L, x) < CountIn(L, y)
  <2>1. /\ x \in 1..Len(L) /\ y \in 1..Len(L) /\ y - 1 \in 0..Len(L) /\ x \in 0..(y - 1)
        /\ L[y].kind = "ProductionAssignmentCreated"
    BY <1>1, LenProperties DEF AssignedIn, KindIn
  <2>2. CountIn(L, y) = CountIn(L, y - 1) + 1
    BY <2>1, CountNext
  <2>3. CountIn(L, x) <= CountIn(L, y - 1)
    BY <2>1, CountMonotone
  <2>4. x \in 0..Len(L)
    BY <2>1
  <2>5. CountIn(L, x) \in Nat /\ CountIn(L, y - 1) \in Nat
    BY <2>1, <2>4, CountNat
  <2> QED
    BY <2>2, <2>3, <2>5
<1>2. a \in 0..Len(L) /\ b \in 0..Len(L) /\ a \in Nat /\ b \in Nat
  BY LenProperties DEF AssignedIn, KindIn
<1>3. CountIn(L, a) \in Nat /\ CountIn(L, b) \in Nat
  BY <1>2, CountNat
<1>4. ~(a < b) /\ ~(b < a)
  BY <1>1, <1>3
<1> QED
  BY <1>2, <1>4

\* The last assignment up to v counts as many as there are.
LEMMA CountLast ==
    ASSUME NEW L \in Seq(Event), NEW v \in 0..Len(L),
           NEW x, x = AssignmentIn(L, v)
    PROVE  /\ x \in 0..v /\ CountIn(L, x) = CountIn(L, v)
           /\ x # 0 => x \in AssignedIn(L, v)
<1>1. v \in Nat /\ AssignedIn(L, v) \in SUBSET (1..v) /\ x = Newest(AssignedIn(L, v))
  BY LenProperties DEF AssignedIn, KindIn, AssignmentIn
<1>2. CASE AssignedIn(L, v) = {}
  <2>1. x = 0
    BY <1>1, <1>2 DEF Newest
  <2>2. AssignedIn(L, x) = {}
    BY <2>1 DEF AssignedIn, KindIn
  <2>3. CountIn(L, x) = CountIn(L, v)
    BY <1>2, <2>2 DEF CountIn
  <2>4. x \in 0..v
    BY <1>1, <2>1
  <2> QED
    BY <2>1, <2>3, <2>4
<1>3. CASE AssignedIn(L, v) # {}
  <2>1. x \in AssignedIn(L, v) /\ \A y \in AssignedIn(L, v) : y <= x
    BY <1>1, <1>3, NewestIn
  <2>2. AssignedIn(L, x) = AssignedIn(L, v)
    <3>1. x \in 1..v
      BY <1>1, <2>1
    <3>2. ASSUME NEW y \in AssignedIn(L, x) PROVE y \in AssignedIn(L, v)
      <4>1. y \in 1..x /\ L[y].kind = "ProductionAssignmentCreated"
        BY DEF AssignedIn, KindIn
      <4>2. y \in 1..v
        BY <1>1, <3>1, <4>1
      <4> QED
        BY <4>1, <4>2 DEF AssignedIn, KindIn
    <3>3. ASSUME NEW y \in AssignedIn(L, v) PROVE y \in AssignedIn(L, x)
      <4>1. y \in 1..v /\ y <= x /\ L[y].kind = "ProductionAssignmentCreated"
        BY <2>1 DEF AssignedIn, KindIn
      <4> QED
        BY <3>1, <4>1 DEF AssignedIn, KindIn
    <3> QED
      BY <3>2, <3>3
  <2> QED
    BY <1>1, <2>1, <2>2 DEF CountIn
<1> QED
  BY <1>2, <1>3

\* The installed candidates by the numbers of their assignments.
LEMMA InstalledNumber ==
    ASSUME NEW L \in Seq(Event), Counted(L)
    PROVE  /\ InstalledIn(L) \in Seq(Candidates)
           /\ Len(InstalledIn(L)) = CountIn(L, Len(L)) /\ CountIn(L, Len(L)) \in Nat
           /\ \A a \in AssignedIn(L, Len(L)) :
                 /\ CountIn(L, a) \in 1..CountIn(L, Len(L))
                 /\ InstalledIn(L)[CountIn(L, a)] = L[a].candidate
<1> DEFINE n == CountIn(L, Len(L))
           S == AssignedIn(L, Len(L))
<1>1. Len(L) \in Nat /\ n \in Nat /\ \A i \in 1..Len(L) : L[i] \in Event
  <2>1. Len(L) \in Nat /\ Len(L) \in 0..Len(L) /\ \A i \in 1..Len(L) : L[i] \in Event
    BY LenProperties, ElementOfSeq
  <2> QED
    BY <2>1, CountNat
<1>2. ASSUME NEW a \in S
      PROVE  CountIn(L, a) \in 1..n /\ L[a].candidate \in Candidates
  <2>1. /\ a \in 1..Len(L) /\ L[a].kind = "ProductionAssignmentCreated"
        /\ a - 1 \in 0..Len(L) /\ a \in 0..Len(L) /\ Len(L) \in 0..Len(L)
    BY <1>1 DEF AssignedIn, KindIn
  <2>2. CountIn(L, a) = CountIn(L, a - 1) + 1 /\ CountIn(L, a - 1) \in Nat
    BY <2>1, CountNext, CountNat
  <2>3. CountIn(L, a) <= n
    BY <2>1, CountMonotone
  <2>4. L[a] \in AssignmentEvent
    BY <1>1, <2>1, EventOfKind
  <2> QED
    BY <1>1, <2>2, <2>3, <2>4 DEF AssignmentEvent
<1> DEFINE Place(k) == CHOOSE a \in S : CountIn(L, a) = k
<1>3. ASSUME NEW a \in S PROVE Place(CountIn(L, a)) = a
  <2>1. PICK k : k = CountIn(L, a)
    OBVIOUS
  <2>2. Place(k) \in S /\ CountIn(L, Place(k)) = k
    BY <2>1
  <2> HIDE DEF Place
  <2> QED
    BY <2>1, <2>2, CountOnce
<1>4. \A k \in 1..n : Place(k) \in S
  <2> SUFFICES ASSUME NEW k \in 1..n PROVE Place(k) \in S
    OBVIOUS
  <2>1. \E a \in S : CountIn(L, a) = k
    BY DEF Counted
  <2> QED
    BY <2>1
<1>5. InstalledIn(L) = [k \in 1..n |-> L[Place(k)].candidate]
  BY DEF InstalledIn
<1> HIDE DEF Place
<1>6. InstalledIn(L) \in [1..n -> Candidates]
  BY <1>2, <1>4, <1>5
<1>7. InstalledIn(L) \in Seq(Candidates) /\ Len(InstalledIn(L)) = n
  BY <1>1, <1>6
<1>8. ASSUME NEW a \in S PROVE InstalledIn(L)[CountIn(L, a)] = L[a].candidate
  BY <1>2, <1>3, <1>5
<1> QED
  BY <1>1, <1>2, <1>7, <1>8

LEMMA SameCount ==
    ASSUME NEW L \in Seq(Event), NEW e \in Event, NEW v \in 0..Len(L)
    PROVE  /\ AssignedIn(Append(L, e), v) = AssignedIn(L, v)
           /\ CountIn(Append(L, e), v) = CountIn(L, v)
BY SameBefore DEF AssignedIn, CountIn

\* An event that installs nobody.
LEMMA SameInstalled ==
    ASSUME NEW L \in Seq(Event), Counted(L), NEW e \in Event,
           e.kind # "ProductionAssignmentCreated"
    PROVE  Counted(Append(L, e)) /\ InstalledIn(Append(L, e)) = InstalledIn(L)
<1> DEFINE M == Append(L, e)
           n == CountIn(L, Len(L))
<1>1. /\ M \in Seq(Event) /\ Len(M) = Len(L) + 1 /\ Len(L) \in Nat
      /\ Len(L) \in 0..Len(L) /\ M[Len(L) + 1] = e
      /\ \A i \in 1..Len(L) : M[i] = L[i]
  BY Appended
<1>2. AssignedIn(M, Len(M)) = AssignedIn(L, Len(L))
  <2> HIDE DEF M
  <2> QED
    BY <1>1 DEF AssignedIn, KindIn
<1>3. CountIn(M, Len(M)) = n
  BY <1>2 DEF CountIn
<1>4. \A a \in AssignedIn(L, Len(L)) : CountIn(M, a) = CountIn(L, a) /\ M[a] = L[a]
  <2> SUFFICES ASSUME NEW a \in AssignedIn(L, Len(L))
               PROVE  CountIn(M, a) = CountIn(L, a) /\ M[a] = L[a]
    OBVIOUS
  <2>1. a \in 0..Len(L) /\ a \in 1..Len(L)
    BY <1>1 DEF AssignedIn, KindIn
  <2> QED
    BY <1>1, <2>1, SameCount
<1> HIDE DEF M
<1>5. Counted(M)
  BY <1>2, <1>3, <1>4 DEF Counted
<1>6. /\ InstalledIn(L) \in Seq(Candidates) /\ InstalledIn(M) \in Seq(Candidates)
      /\ Len(InstalledIn(L)) = n /\ Len(InstalledIn(M)) = n /\ n \in Nat
  BY <1>1, <1>3, <1>5, InstalledNumber
<1>7. ASSUME NEW k \in 1..n
      PROVE  InstalledIn(M)[k] = InstalledIn(L)[k]
  <2>1. PICK a \in AssignedIn(L, Len(L)) : CountIn(L, a) = k
    BY DEF Counted
  <2>2. InstalledIn(L)[k] = L[a].candidate
    BY <2>1, InstalledNumber
  <2>3. CountIn(M, a) = k /\ a \in AssignedIn(M, Len(M)) /\ M[a] = L[a]
    BY <1>2, <1>4, <2>1
  <2>4. InstalledIn(M)[k] = M[a].candidate
    BY <1>1, <1>5, <2>3, InstalledNumber
  <2> QED
    BY <2>2, <2>3, <2>4
<1>8. InstalledIn(M) = InstalledIn(L)
  BY <1>6, <1>7, SeqEqual
<1> QED
  BY <1>5, <1>8 DEF M

\* An assignment.
LEMMA OneInstalled ==
    ASSUME NEW L \in Seq(Event), Counted(L), NEW e \in AssignmentEvent
    PROVE  /\ Counted(Append(L, e))
           /\ InstalledIn(Append(L, e)) = Append(InstalledIn(L), e.candidate)
<1> DEFINE M == Append(L, e)
           n == CountIn(L, Len(L))
           b == Len(L) + 1
<1>1. /\ M \in Seq(Event) /\ Len(M) = b /\ Len(L) \in Nat
      /\ Len(L) \in 0..Len(L) /\ M[b] = e /\ b \in 1..b /\ b - 1 = Len(L)
      /\ \A i \in 1..Len(L) : M[i] = L[i]
      /\ e \in Event /\ e.kind = "ProductionAssignmentCreated" /\ e.candidate \in Candidates
  BY Appended DEF Event, AssignmentEvent
<1>2. /\ b \in AssignedIn(M, b) /\ AssignedIn(L, Len(L)) \subseteq AssignedIn(M, b)
      /\ Len(L) \in 0..Len(M)
  <2> HIDE DEF M
  <2> QED
    BY <1>1 DEF AssignedIn, KindIn
<1>3. CountIn(M, Len(L)) = n /\ n \in Nat
  BY <1>1, CountNat, SameCount
<1>4. CountIn(M, b) = n + 1
  <2> HIDE DEF M
  <2> QED
    BY <1>1, <1>3, CountNext
<1>5. \A a \in AssignedIn(L, Len(L)) : CountIn(M, a) = CountIn(L, a) /\ M[a] = L[a]
  <2> SUFFICES ASSUME NEW a \in AssignedIn(L, Len(L))
               PROVE  CountIn(M, a) = CountIn(L, a) /\ M[a] = L[a]
    OBVIOUS
  <2>1. a \in 0..Len(L) /\ a \in 1..Len(L)
    BY <1>1 DEF AssignedIn, KindIn
  <2> QED
    BY <1>1, <2>1, SameCount
<1> HIDE DEF M
<1>6. Counted(M)
  <2> SUFFICES ASSUME NEW k \in 1..(n + 1)
               PROVE  \E a \in AssignedIn(M, b) : CountIn(M, a) = k
    BY <1>1, <1>4 DEF Counted
  <2>1. CASE k = n + 1
    BY <1>2, <1>4, <2>1
  <2>2. CASE k \in 1..n
    <3>1. PICK a \in AssignedIn(L, Len(L)) : CountIn(L, a) = k
      BY <2>2 DEF Counted
    <3> QED
      BY <1>2, <1>5, <3>1
  <2> QED
    BY <1>3, <2>1, <2>2
<1>7. /\ InstalledIn(L) \in Seq(Candidates) /\ InstalledIn(M) \in Seq(Candidates)
      /\ Len(InstalledIn(L)) = n /\ Len(InstalledIn(M)) = n + 1
  BY <1>1, <1>4, <1>6, InstalledNumber
<1>8. PICK c : c = e.candidate
  OBVIOUS
<1>9. /\ Append(InstalledIn(L), c) \in Seq(Candidates)
      /\ Len(Append(InstalledIn(L), c)) = n + 1
      /\ \A k \in 1..n : Append(InstalledIn(L), c)[k] = InstalledIn(L)[k]
      /\ Append(InstalledIn(L), c)[n + 1] = c
  BY <1>1, <1>7, <1>8, AppendProperties
<1>10. ASSUME NEW k \in 1..(n + 1)
       PROVE  InstalledIn(M)[k] = Append(InstalledIn(L), c)[k]
  <2>1. CASE k = n + 1
    <3>1. InstalledIn(M)[k] = M[b].candidate
      BY <1>1, <1>2, <1>4, <1>6, <2>1, InstalledNumber
    <3> QED
      BY <1>1, <1>8, <1>9, <2>1, <3>1
  <2>2. CASE k \in 1..n
    <3>1. PICK a \in AssignedIn(L, Len(L)) : CountIn(L, a) = k
      BY <2>2 DEF Counted
    <3>2. InstalledIn(L)[k] = L[a].candidate
      BY <3>1, InstalledNumber
    <3>3. CountIn(M, a) = k /\ a \in AssignedIn(M, Len(M)) /\ M[a] = L[a]
      BY <1>1, <1>2, <1>5, <3>1
    <3>4. InstalledIn(M)[k] = M[a].candidate
      BY <1>1, <1>6, <3>3, InstalledNumber
    <3> QED
      BY <1>9, <2>2, <3>2, <3>3, <3>4
  <2>3. k = n + 1 \/ k \in 1..n
    <3> HIDE DEF n
    <3> QED
      BY <1>3
  <2> QED
    BY ONLY <2>1, <2>2, <2>3
<1>11. InstalledIn(M) = Append(InstalledIn(L), c)
  BY <1>7, <1>9, <1>10, SeqEqual
<1> QED
  BY <1>6, <1>8, <1>11 DEF M

\* An approval was granted against an assignment made before it.
LEMMA GrantedBefore ==
    ASSUME NEW L \in Seq(Event), LedgerEarned(L), NEW p \in 1..Len(L),
           L[p].kind = "ApprovalDecisionRecorded", L[p].refusal = "none"
    PROVE  L[p].expected \in 0..Len(L)
<1>1. p - 1 \in 0..Len(L) /\ Len(L) \in Nat
  BY LenProperties
<1>2. L[p].expected = AssignmentIn(L, p - 1)
  BY DEF LedgerEarned, Earned, ApprovalEarned
<1>3. L[p].expected \in 0..(p - 1)
  <2>1. PICK x : x = L[p].expected
    OBVIOUS
  <2>2. x \in 0..(p - 1)
    BY <1>1, <1>2, <2>1, CountLast
  <2> QED
    BY <2>1, <2>2
<1> QED
  BY <1>1, <1>3

\* Events after which nobody has decided anything.
LEMMA SameDecisions ==
    ASSUME NEW L \in Seq(Event), LedgerEarned(L), NEW M \in Seq(Event),
           Len(L) <= Len(M), \A i \in 1..Len(L) : M[i] = L[i],
           \A i \in 1..Len(M) : i > Len(L) => M[i].kind # "ApprovalDecisionRecorded"
    PROVE  RejectedIn(M) = RejectedIn(L) /\ GrantedIn(M) = GrantedIn(L)
<1>1. Len(L) \in Nat /\ Len(M) \in Nat
  BY LenProperties
<1> DEFINE D(N, c) == AboutIn(N, "ApprovalDecisionRecorded", c, Len(N))
<1>2. ASSUME NEW c PROVE D(M, c) = D(L, c) /\ D(L, c) \in SUBSET (1..Len(L))
  BY <1>1 DEF AboutIn, KindIn
<1>3. ASSUME NEW c, NEW i \in D(L, c)
      PROVE  /\ i \in 1..Len(L) /\ M[i] = L[i]
             /\ L[i].kind = "ApprovalDecisionRecorded"
  BY DEF AboutIn, KindIn
<1>4. RejectedIn(M) = RejectedIn(L)
  BY <1>2, <1>3 DEF RejectedIn
<1>5. ASSUME NEW c \in Candidates
      PROVE  GrantedIn(M)[c] = GrantedIn(L)[c]
  <2>1. PICK p : p = ApprovalIn(L, c, Len(L))
    OBVIOUS
  <2>2. p = ApprovalIn(M, c, Len(M)) /\ p \in D(L, c) \cup {0}
    <3>1. D(M, c) = D(L, c) /\ D(L, c) \in SUBSET (1..Len(L))
      BY <1>2
    <3>2. p = Newest(D(L, c)) /\ ApprovalIn(M, c, Len(M)) = Newest(D(M, c))
      BY <2>1 DEF ApprovalIn
    <3> HIDE DEF D
    <3> QED
      BY <1>1, <3>1, <3>2, NewestZero
  <2>3. CASE p # 0 /\ L[p].refusal = "none"
    <3>1. p \in 1..Len(L) /\ M[p] = L[p] /\ L[p].kind = "ApprovalDecisionRecorded"
      BY <1>3, <2>2, <2>3
    <3>2. PICK x : x = L[p].expected
      OBVIOUS
    <3>3. x \in 0..Len(L)
      BY <2>3, <3>1, <3>2, GrantedBefore
    <3>4. AssignedIn(M, x) = AssignedIn(L, x)
      <4>1. \A i \in 1..x : i \in 1..Len(L)
        BY <1>1, <3>3
      <4> QED
        BY <4>1 DEF AssignedIn, KindIn
    <3>5. CountIn(M, x) = CountIn(L, x)
      BY <3>4 DEF CountIn
    <3> QED
      BY <2>1, <2>2, <2>3, <3>1, <3>2, <3>5 DEF GrantedIn
  <2>4. CASE ~(p # 0 /\ L[p].refusal = "none")
    <3>1. ~(p # 0 /\ M[p].refusal = "none")
      BY <1>3, <2>2, <2>4
    <3> QED
      BY <2>1, <2>2, <2>4, <3>1 DEF GrantedIn
  <2> QED
    BY <2>3, <2>4
<1>6. GrantedIn(M) = GrantedIn(L)
  BY <1>5 DEF GrantedIn
<1> QED
  BY <1>4, <1>6

\* A decision.
LEMMA OneDecision ==
    ASSUME NEW L \in Seq(Event), LedgerEarned(L),
           NEW e \in ApprovalEvent, Earned(L, Len(L), e),
           NEW c, c = e.candidate
    PROVE  /\ c \in Candidates
           /\ e.refusal = "none" => c \notin RejectedIn(L)
           /\ RejectedIn(Append(L, e)) =
                 IF e.refusal = "approver_rejected" THEN RejectedIn(L) \cup {c}
                 ELSE RejectedIn(L)
           /\ GrantedIn(Append(L, e)) =
                 [GrantedIn(L) EXCEPT ![c] =
                     IF e.refusal = "none" THEN CountIn(L, Len(L)) ELSE None]
<1> DEFINE M == Append(L, e)
           b == Len(L) + 1
           D(N, d) == AboutIn(N, "ApprovalDecisionRecorded", d, Len(N))
<1>1. /\ M \in Seq(Event) /\ Len(M) = b /\ Len(L) \in Nat /\ b \in Nat
      /\ M[b] = e /\ \A i \in 1..Len(L) : M[i] = L[i]
      /\ e \in Event /\ e.kind = "ApprovalDecisionRecorded" /\ c \in Candidates
  BY Appended DEF Event, ApprovalEvent
<1> HIDE DEF M
<1>2. D(M, c) = D(L, c) \cup {b} /\ D(M, c) \in SUBSET (1..b)
  BY <1>1 DEF AboutIn, KindIn
<1>3. ASSUME NEW d, d # c PROVE D(M, d) = D(L, d)
  BY <1>1, <1>3 DEF AboutIn, KindIn
<1>4. ASSUME NEW d, NEW i \in D(L, d)
      PROVE  /\ i \in 1..Len(L) /\ M[i] = L[i]
             /\ L[i].kind = "ApprovalDecisionRecorded"
  BY <1>1 DEF AboutIn, KindIn
<1>5. e.refusal = "none" => c \notin RejectedIn(L)
  BY <1>1 DEF Earned, ApprovalEarned, RejectedIn
<1>6. RejectedIn(M) = IF e.refusal = "approver_rejected" THEN RejectedIn(L) \cup {c}
                      ELSE RejectedIn(L)
  <2>1. ASSUME NEW d \in Candidates, d # c
        PROVE  d \in RejectedIn(M) <=> d \in RejectedIn(L)
    BY <1>3, <1>4, <2>1 DEF RejectedIn
  <2>2. c \in RejectedIn(M) <=> c \in RejectedIn(L) \/ e.refusal = "approver_rejected"
    BY <1>1, <1>2, <1>4 DEF RejectedIn
  <2>3. RejectedIn(M) \subseteq Candidates /\ RejectedIn(L) \subseteq Candidates
    BY DEF RejectedIn
  <2>4. CASE e.refusal = "approver_rejected"
    BY <1>1, <2>1, <2>2, <2>3, <2>4
  <2>5. CASE e.refusal # "approver_rejected"
    <3>1. \A d \in Candidates : d \in RejectedIn(M) <=> d \in RejectedIn(L)
      BY <2>1, <2>2, <2>5
    <3>2. RejectedIn(M) = RejectedIn(L)
      BY <2>3, <3>1
    <3> QED
      BY <2>5, <3>2
  <2> QED
    BY <2>4, <2>5
<1>7. ASSUME NEW d \in Candidates, d # c
      PROVE  GrantedIn(M)[d] = GrantedIn(L)[d]
  <2>1. PICK p : p = ApprovalIn(L, d, Len(L))
    OBVIOUS
  <2>2. p = ApprovalIn(M, d, Len(M)) /\ p \in D(L, d) \cup {0}
    <3>1. D(M, d) = D(L, d) /\ D(L, d) \in SUBSET (1..Len(L))
      BY <1>3, <1>7 DEF AboutIn, KindIn
    <3>2. p = Newest(D(L, d)) /\ ApprovalIn(M, d, Len(M)) = Newest(D(M, d))
      BY <2>1 DEF ApprovalIn
    <3> HIDE DEF D
    <3> QED
      BY <1>1, <3>1, <3>2, NewestZero
  <2>3. CASE p # 0 /\ L[p].refusal = "none"
    <3>1. p \in 1..Len(L) /\ M[p] = L[p] /\ L[p].kind = "ApprovalDecisionRecorded"
      BY <1>4, <2>2, <2>3
    <3>2. PICK x : x = L[p].expected
      OBVIOUS
    <3>3. x \in 0..Len(L)
      BY <2>3, <3>1, <3>2, GrantedBefore
    <3>4. CountIn(M, x) = CountIn(L, x)
      BY <1>1, <3>3, SameCount DEF M
    <3> QED
      BY <2>1, <2>2, <2>3, <3>1, <3>2, <3>4 DEF GrantedIn
  <2>4. CASE ~(p # 0 /\ L[p].refusal = "none")
    <3>1. ~(p # 0 /\ M[p].refusal = "none")
      BY <1>4, <2>2, <2>4
    <3> QED
      BY <2>1, <2>2, <2>4, <3>1 DEF GrantedIn
  <2> QED
    BY <2>3, <2>4
<1>8. GrantedIn(M)[c] = IF e.refusal = "none" THEN CountIn(L, Len(L)) ELSE None
  <2>1. ApprovalIn(M, c, Len(M)) = b
    <3>1. \A y \in D(M, c) : y <= b
      BY <1>1, <1>2
    <3>2. ApprovalIn(M, c, Len(M)) = Newest(D(M, c)) /\ b \in D(M, c)
      BY <1>2 DEF ApprovalIn
    <3> HIDE DEF D, b
    <3> QED
      BY <1>1, <1>2, <3>1, <3>2, NewestIs
  <2>2. CASE e.refusal = "none"
    <3>1. e.expected = AssignmentIn(L, Len(L))
      BY <1>1, <2>2 DEF Earned, ApprovalEarned
    <3>2. Len(L) \in 0..Len(L)
      BY <1>1
    <3>3. /\ e.expected \in 0..Len(L)
          /\ CountIn(L, e.expected) = CountIn(L, Len(L))
      <4>1. PICK x : x = e.expected
        OBVIOUS
      <4>2. x \in 0..Len(L) /\ CountIn(L, x) = CountIn(L, Len(L))
        BY <3>1, <3>2, <4>1, CountLast
      <4> QED
        BY <4>1, <4>2
    <3>4. CountIn(M, e.expected) = CountIn(L, e.expected)
      BY <1>1, <3>3, SameCount DEF M
    <3> QED
      BY <1>1, <2>1, <2>2, <3>3, <3>4 DEF GrantedIn
  <2>3. CASE e.refusal # "none"
    BY <1>1, <2>1, <2>3 DEF GrantedIn
  <2> QED
    BY <2>2, <2>3
<1>9. GrantedIn(M) = [GrantedIn(L) EXCEPT ![c] =
                         IF e.refusal = "none" THEN CountIn(L, Len(L)) ELSE None]
  <2> DEFINE new == IF e.refusal = "none" THEN CountIn(L, Len(L)) ELSE None
  <2>1. GrantedIn(M)[c] = new
    BY <1>8
  <2>2. /\ GrantedIn(M) = [d \in Candidates |-> GrantedIn(M)[d]]
        /\ GrantedIn(L) = [d \in Candidates |-> GrantedIn(L)[d]]
    BY DEF GrantedIn
  <2> HIDE DEF new
  <2>3. GrantedIn(M) = [GrantedIn(L) EXCEPT ![c] = new]
    BY <1>1, <1>7, <2>1, <2>2
  <2> QED
    BY <2>3 DEF new
<1> QED
  BY <1>1, <1>5, <1>6, <1>9 DEF M

-----------------------------------------------------------------------------
(* The refinement: steps.                                                  *)

\* A step of ServingHistory from <<i, r, g>> to <<j, s, h>>, or none.
Moves(i, r, g, j, s, h) ==
    \/ \E c \in Candidates :
          \/ c \notin r /\ h = [g EXCEPT ![c] = Len(i)] /\ j = i /\ s = r
          \/ h = [g EXCEPT ![c] = None] /\ s \in {r, r \cup {c}} /\ j = i
          \/ g[c] = Len(i) /\ j = Append(i, c) /\ s = r /\ h = g
    \/ Len(i) > 1 /\ j = Append(i, i[Len(i) - 1]) /\ s = r /\ h = g
    \/ j = i /\ s = r /\ h = g

Serves(L, M) == Moves(InstalledIn(L), RejectedIn(L), GrantedIn(L),
                      InstalledIn(M), RejectedIn(M), GrantedIn(M))

LEMMA QuietServes ==
    ASSUME NEW L \in Seq(Event), LedgerEarned(L), Counted(L), NEW e \in Event,
           e.kind \notin {"ApprovalDecisionRecorded", "ProductionAssignmentCreated"}
    PROVE  Counted(Append(L, e)) /\ Serves(L, Append(L, e))
<1> DEFINE M == Append(L, e)
<1>1. /\ M \in Seq(Event) /\ Len(M) = Len(L) + 1 /\ Len(L) \in Nat
      /\ M[Len(L) + 1] = e /\ \A i \in 1..Len(L) : M[i] = L[i]
  BY Appended
<1>2. Counted(M) /\ InstalledIn(M) = InstalledIn(L)
  BY SameInstalled
<1>3. RejectedIn(M) = RejectedIn(L) /\ GrantedIn(M) = GrantedIn(L)
  <2> HIDE DEF M
  <2>1. \A i \in 1..Len(M) : i > Len(L) => M[i].kind # "ApprovalDecisionRecorded"
    <3> SUFFICES ASSUME NEW i \in 1..Len(M), i > Len(L)
                 PROVE  M[i].kind # "ApprovalDecisionRecorded"
      OBVIOUS
    <3>1. i = Len(L) + 1
      BY <1>1
    <3> QED
      BY <1>1, <3>1
  <2> QED
    BY <1>1, <2>1, SameDecisions
<1> QED
  BY <1>2, <1>3 DEF Serves, Moves

LEMMA DecisionServes ==
    ASSUME NEW L \in Seq(Event), LedgerEarned(L), Counted(L),
           NEW e \in ApprovalEvent, Earned(L, Len(L), e)
    PROVE  Counted(Append(L, e)) /\ Serves(L, Append(L, e))
<1> DEFINE M == Append(L, e)
<1>1. PICK c : c = e.candidate
  OBVIOUS
<1>2. /\ c \in Candidates
      /\ e.refusal = "none" => c \notin RejectedIn(L)
      /\ RejectedIn(M) = IF e.refusal = "approver_rejected" THEN RejectedIn(L) \cup {c}
                         ELSE RejectedIn(L)
      /\ GrantedIn(M) = [GrantedIn(L) EXCEPT ![c] =
                            IF e.refusal = "none" THEN CountIn(L, Len(L)) ELSE None]
  BY <1>1, OneDecision
<1>3. Counted(M) /\ InstalledIn(M) = InstalledIn(L)
  <2>1. e \in Event /\ e.kind # "ProductionAssignmentCreated"
    BY DEF Event, ApprovalEvent
  <2> QED
    BY <2>1, SameInstalled
<1>4. Len(InstalledIn(L)) = CountIn(L, Len(L))
  BY InstalledNumber
<1> HIDE DEF M
<1>5. CASE e.refusal = "none"
  <2>1. /\ c \notin RejectedIn(L) /\ RejectedIn(M) = RejectedIn(L)
        /\ GrantedIn(M) = [GrantedIn(L) EXCEPT ![c] = Len(InstalledIn(L))]
    BY <1>2, <1>4, <1>5
  <2> QED
    BY <1>2, <1>3, <2>1 DEF Serves, Moves, M
<1>6. CASE e.refusal # "none"
  <2>1. /\ RejectedIn(M) \in {RejectedIn(L), RejectedIn(L) \cup {c}}
        /\ GrantedIn(M) = [GrantedIn(L) EXCEPT ![c] = None]
    BY <1>2, <1>6
  <2> QED
    BY <1>2, <1>3, <2>1 DEF Serves, Moves, M
<1> QED
  BY <1>5, <1>6

LEMMA AssignServes ==
    ASSUME NEW L \in Seq(Event), LedgerEarned(L), Counted(L),
           NEW d \in TransitionEvent, NEW e \in AssignmentEvent
    PROVE  /\ Counted(Append(Append(L, d), e))
           /\ InstalledIn(Append(Append(L, d), e)) = Append(InstalledIn(L), e.candidate)
           /\ RejectedIn(Append(Append(L, d), e)) = RejectedIn(L)
           /\ GrantedIn(Append(Append(L, d), e)) = GrantedIn(L)
<1>0. PICK M : M = Append(Append(L, d), e)
  OBVIOUS
<1> DEFINE K == Append(L, d)
           n == Len(L)
<1>1. /\ d \in Event /\ e \in Event
      /\ d.kind # "ProductionAssignmentCreated" /\ d.kind # "ApprovalDecisionRecorded"
      /\ e.kind # "ApprovalDecisionRecorded"
  BY DEF Event, TransitionEvent, AssignmentEvent
<1>2. /\ K \in Seq(Event) /\ Len(K) = n + 1 /\ n \in Nat
      /\ K[n + 1] = d /\ \A i \in 1..n : K[i] = L[i]
  BY <1>1, Appended
<1>3. /\ M \in Seq(Event) /\ Len(M) = n + 2
      /\ M[n + 2] = e /\ M[n + 1] = d /\ \A i \in 1..n : M[i] = L[i]
  <2> HIDE DEF K
  <2>1. M = Append(K, e)
    BY <1>0 DEF K
  <2>2. /\ M \in Seq(Event) /\ Len(M) = Len(K) + 1
        /\ M[Len(K) + 1] = e /\ \A i \in 1..Len(K) : M[i] = K[i]
    BY <1>1, <1>2, <2>1, Appended
  <2> HIDE DEF n
  <2>3. Len(M) = n + 2 /\ Len(K) + 1 = n + 2 /\ Len(K) = n + 1
    BY <1>2, <2>2
  <2> QED
    BY <1>2, <2>2, <2>3
<1>4. Counted(K) /\ InstalledIn(K) = InstalledIn(L)
  BY <1>1, SameInstalled
<1>5. Counted(M) /\ InstalledIn(M) = Append(InstalledIn(L), e.candidate)
  <2> HIDE DEF K
  <2> QED
    BY <1>0, <1>2, <1>4, OneInstalled DEF K
<1>6. RejectedIn(M) = RejectedIn(L) /\ GrantedIn(M) = GrantedIn(L)
  <2>1. \A i \in 1..Len(M) : i > Len(L) => M[i].kind # "ApprovalDecisionRecorded"
    <3> SUFFICES ASSUME NEW i \in 1..Len(M), i > Len(L)
                 PROVE  M[i].kind # "ApprovalDecisionRecorded"
      OBVIOUS
    <3>1. i = n + 1 \/ i = n + 2
      BY <1>2, <1>3
    <3> QED
      BY <1>1, <1>3, <3>1
  <2>2. Len(L) <= Len(M)
    BY <1>2, <1>3
  <2> QED
    BY <1>3, <2>1, <2>2, SameDecisions
<1> QED
  BY <1>0, <1>5, <1>6

\* A promotion installs a candidate whose approval was granted against the
\* present history.
LEMMA PromoteServes ==
    ASSUME NEW L \in Seq(Event), LedgerEarned(L), Counted(L),
           NEW d \in TransitionEvent, NEW e \in AssignmentEvent,
           NEW p, p = ApprovalIn(L, e.candidate, Len(L)),
           p # 0, L[p].refusal = "none", L[p].expected = AssignmentIn(L, Len(L)),
           NEW M, M = Append(Append(L, d), e)
    PROVE  Counted(M) /\ Serves(L, M)
<1>1. PICK c : e.candidate = c
  OBVIOUS
<1>2. /\ Counted(M) /\ InstalledIn(M) = Append(InstalledIn(L), c)
      /\ RejectedIn(M) = RejectedIn(L) /\ GrantedIn(M) = GrantedIn(L)
  BY <1>1, AssignServes
<1>3. c \in Candidates
  BY <1>1 DEF AssignmentEvent
<1>4. PICK x : x = L[p].expected
  OBVIOUS
<1>5. CountIn(L, x) = CountIn(L, Len(L))
  <2>1. Len(L) \in 0..Len(L)
    BY LenProperties
  <2> QED
    BY <1>4, <2>1, CountLast
<1>6. GrantedIn(L)[c] = Len(InstalledIn(L))
  <2>1. GrantedIn(L)[c] = CountIn(L, x)
    BY <1>1, <1>3, <1>4 DEF GrantedIn
  <2> QED
    BY <1>5, <2>1, InstalledNumber
<1> QED
  BY <1>2, <1>3, <1>6 DEF Serves, Moves

\* A rollback reinstates the candidate installed before the present one.
LEMMA RollbackServes ==
    ASSUME NEW L \in Seq(Event), LedgerEarned(L), Counted(L),
           NEW d \in TransitionEvent, NEW e \in AssignmentEvent,
           NEW a, a = AssignmentIn(L, Len(L)), a # 0,
           NEW t, t = L[a].previous, t # 0, e.candidate = L[t].candidate,
           NEW M, M = Append(Append(L, d), e)
    PROVE  Counted(M) /\ Serves(L, M)
<1> DEFINE n == CountIn(L, Len(L))
<1>1. /\ Counted(M) /\ InstalledIn(M) = Append(InstalledIn(L), L[t].candidate)
      /\ RejectedIn(M) = RejectedIn(L) /\ GrantedIn(M) = GrantedIn(L)
  BY AssignServes
<1>2. Len(L) \in Nat /\ Len(L) \in 0..Len(L)
  BY LenProperties
<1>3. a \in AssignedIn(L, Len(L)) /\ CountIn(L, a) = n
  BY <1>2, CountLast
<1>4. /\ a \in 1..Len(L) /\ L[a].kind = "ProductionAssignmentCreated"
      /\ a - 1 \in 0..Len(L)
  BY <1>2, <1>3 DEF AssignedIn, KindIn
<1>5. t = AssignmentIn(L, a - 1)
  BY <1>4 DEF LedgerEarned, Earned
<1>6. t \in AssignedIn(L, a - 1) /\ CountIn(L, t) = CountIn(L, a - 1)
  BY <1>4, <1>5, CountLast
<1>7. t \in AssignedIn(L, Len(L))
  BY <1>2, <1>4, <1>6 DEF AssignedIn, KindIn
<1>8. n = CountIn(L, t) + 1
  BY <1>3, <1>4, <1>6, CountNext
<1>9. /\ CountIn(L, t) \in 1..n /\ n \in Nat /\ Len(InstalledIn(L)) = n
      /\ InstalledIn(L)[CountIn(L, t)] = L[t].candidate
  BY <1>7, InstalledNumber
<1>10. Len(InstalledIn(L)) > 1 /\ CountIn(L, t) = Len(InstalledIn(L)) - 1
  BY <1>8, <1>9
<1>11. InstalledIn(M) = Append(InstalledIn(L), InstalledIn(L)[Len(InstalledIn(L)) - 1])
  BY <1>1, <1>9, <1>10
<1> QED
  BY <1>1, <1>10, <1>11 DEF Serves, Moves

LEMMA StepServes ==
    ASSUME Lookahead = 0, IInv, Counted(ledger), [Next]_vars
    PROVE  Counted(ledger') /\ Serves(ledger, ledger')
<1>0. TypeInv /\ ledger \in Seq(Event) /\ LedgerEarned(ledger)
  BY DEF IInv, TypeInv, TypeOK
<1>1. ASSUME NEW e \in Event, ledger' = Append(ledger, e),
             e.kind \notin {"ApprovalDecisionRecorded", "ProductionAssignmentCreated"}
      PROVE  Counted(ledger') /\ Serves(ledger, ledger')
  BY <1>0, <1>1, QuietServes
<1>2. ASSUME ledger' = ledger
      PROVE  Counted(ledger') /\ Serves(ledger, ledger')
  BY <1>2 DEF Serves, Moves
<1>3. ASSUME NEW c \in Candidates,
             \/ \E qualified \in BOOLEAN : RecordCandidate(c, qualified)
             \/ \E e \in Evidence, passed \in BOOLEAN : EvaluateBootstrap(c, e, passed)
             \/ \E eligible \in BOOLEAN, requested \in {"approved", "rejected"},
                   expected \in Assignments(Len(ledger)) \cup {0} :
                   DecideApproval(c, eligible, requested, expected)
             \/ \E date \in 1..Date(now) : RecordShadow(c, date)
             \/ BlockShadow(c)
             \/ Promote(c)
      PROVE  Counted(ledger') /\ Serves(ledger, ledger')
  <2>1. CASE \E qualified \in BOOLEAN : RecordCandidate(c, qualified)
    <3>1. PICK e \in CandidateEvent : ledger' = Append(ledger, e)
      BY <1>0, <2>1, RecordCandidateType
    <3> QED
      BY <1>1, <3>1 DEF Event, CandidateEvent
  <2>2. CASE \E e \in Evidence, passed \in BOOLEAN : EvaluateBootstrap(c, e, passed)
    <3>1. PICK e \in GateEvent : ledger' = Append(ledger, e)
      BY <1>0, <2>2, EvaluateBootstrapType
    <3> QED
      BY <1>1, <3>1 DEF Event, GateEvent
  <2>3. CASE \E eligible \in BOOLEAN, requested \in {"approved", "rejected"},
                expected \in Assignments(Len(ledger)) \cup {0} :
                DecideApproval(c, eligible, requested, expected)
    <3>1. PICK e \in ApprovalEvent : /\ ledger' = Append(ledger, e)
                                     /\ Earned(ledger, Len(ledger), e)
      BY <2>3, DecideApprovalIInv
    <3> QED
      BY <1>0, <3>1, DecisionServes
  <2>4. CASE \E date \in 1..Date(now) : RecordShadow(c, date)
    <3>1. PICK e \in ShadowEvent : ledger' = Append(ledger, e)
      BY <1>0, <2>4, RecordShadowType
    <3> QED
      BY <1>1, <3>1 DEF Event, ShadowEvent
  <2>5. CASE BlockShadow(c)
    <3>1. PICK e \in BlockedEvent : ledger' = Append(ledger, e)
      BY <1>0, <2>5, BlockShadowType
    <3> QED
      BY <1>1, <3>1 DEF Event, BlockedEvent
  <2>6. CASE Promote(c)
    <3>1. PICK d \in TransitionEvent, e \in AssignmentEvent : \E p :
             /\ ledger' = Append(Append(ledger, d), e)
             /\ p = ApprovalIn(ledger, e.candidate, Len(ledger)) /\ p # 0
             /\ ledger[p].refusal = "none"
             /\ ledger[p].expected = AssignmentIn(ledger, Len(ledger))
      BY <2>6, PromoteIInv
    <3> QED
      BY <1>0, <3>1, PromoteServes
  <2> QED
    BY <1>3, <2>1, <2>2, <2>3, <2>4, <2>5, <2>6
<1>4. CASE RecordDevelopmentFailure
  <2>1. PICK e \in GateEvent : ledger' = Append(ledger, e)
    BY <1>0, <1>4, RecordDevelopmentFailureType
  <2> QED
    BY <1>1, <2>1 DEF Event, GateEvent
<1>5. CASE Rollback
  <2>1. PICK d \in TransitionEvent, e \in AssignmentEvent : \E a, t :
           /\ ledger' = Append(Append(ledger, d), e)
           /\ a = AssignmentIn(ledger, Len(ledger)) /\ a # 0
           /\ t = ledger[a].previous /\ t # 0
           /\ e.candidate = ledger[t].candidate
    BY <1>5, RollbackIInv
  <2> QED
    BY <1>0, <2>1, RollbackServes
<1>6. CASE Tick
  BY <1>2, <1>6 DEF Tick
<1>7. CASE UNCHANGED vars
  BY <1>2, <1>7 DEF vars
<1> QED
  BY <1>3, <1>4, <1>5, <1>6, <1>7 DEF Next, Command

\* The variables of ServingHistory in the state of the ledger.
installedNow ==
    [k \in 1..InstalledAt(Len(ledger)) |->
        ledger[CHOOSE a \in Assignments(Len(ledger)) : InstalledAt(a) = k].candidate]
rejectedNow == {c \in Candidates : Rejected(c, Len(ledger))}
grantedNow ==
    [c \in Candidates |->
        LET p == ApprovalOf(c, Len(ledger))
        IN  IF p # 0 /\ Approved(p) THEN InstalledAt(ledger[p].expected) ELSE None]

LEMMA HistoryNow ==
    /\ installedNow = InstalledIn(ledger)
    /\ rejectedNow = RejectedIn(ledger)
    /\ grantedNow = GrantedIn(ledger)
<1>1. installedNow = InstalledIn(ledger)
  BY DEF installedNow, InstalledIn, InstalledAt, CountIn, Assignments, AssignedIn,
         OfKind, KindIn
<1>2. rejectedNow = RejectedIn(ledger)
  BY DEF rejectedNow, RejectedIn, Rejected, About, OfKind, AboutIn, KindIn
<1>3. grantedNow = GrantedIn(ledger)
  BY DEF grantedNow, GrantedIn, ApprovalOf, ApprovalIn, Approved, InstalledAt, CountIn,
         Assignments, AssignedIn, About, OfKind, AboutIn, KindIn
<1> QED
  BY <1>1, <1>2, <1>3

LEMMA HistoryNext ==
    /\ installedNow' = InstalledIn(ledger')
    /\ rejectedNow' = RejectedIn(ledger')
    /\ grantedNow' = GrantedIn(ledger')
<1>1. installedNow' = InstalledIn(ledger')
  BY DEF installedNow, InstalledIn, InstalledAt, CountIn, Assignments, AssignedIn,
         OfKind, KindIn
<1>2. rejectedNow' = RejectedIn(ledger')
  BY DEF rejectedNow, RejectedIn, Rejected, About, OfKind, AboutIn, KindIn
<1>3. grantedNow' = GrantedIn(ledger')
  BY DEF grantedNow, GrantedIn, ApprovalOf, ApprovalIn, Approved, InstalledAt, CountIn,
         Assignments, AssignedIn, About, OfKind, AboutIn, KindIn
<1> QED
  BY <1>1, <1>2, <1>3

LEMMA ImplementsNext ==
    ASSUME Serves(ledger, ledger')
    PROVE  [History!Next]_(History!vars)
<1>1. Moves(installedNow, rejectedNow, grantedNow, installedNow', rejectedNow', grantedNow')
  BY HistoryNow, HistoryNext DEF Serves
<1>2. CASE UNCHANGED <<installedNow, rejectedNow, grantedNow>>
  BY <1>2 DEF History!vars, installedNow, rejectedNow, grantedNow
<1>3. ASSUME NEW c \in Candidates,
             c \notin rejectedNow,
             grantedNow' = [grantedNow EXCEPT ![c] = Len(installedNow)],
             UNCHANGED <<installedNow, rejectedNow>>
      PROVE  History!Approve(c)
  BY <1>3 DEF History!Approve, installedNow, rejectedNow, grantedNow
<1>4. ASSUME NEW c \in Candidates,
             grantedNow' = [grantedNow EXCEPT ![c] = None],
             rejectedNow' \in {rejectedNow, rejectedNow \cup {c}},
             UNCHANGED installedNow
      PROVE  History!Refuse(c)
  BY <1>4 DEF History!Refuse, installedNow, rejectedNow, grantedNow
<1>5. ASSUME NEW c \in Candidates,
             grantedNow[c] = Len(installedNow),
             installedNow' = Append(installedNow, c),
             UNCHANGED <<rejectedNow, grantedNow>>
      PROVE  History!Install(c)
  BY <1>5 DEF History!Install, installedNow, rejectedNow, grantedNow
<1>6. ASSUME Len(installedNow) > 1,
             installedNow' = Append(installedNow, installedNow[Len(installedNow) - 1]),
             UNCHANGED <<rejectedNow, grantedNow>>
      PROVE  History!Reinstate
  BY <1>6 DEF History!Reinstate, installedNow, rejectedNow, grantedNow
<1> QED
  BY <1>1, <1>2, <1>3, <1>4, <1>5, <1>6 DEF Moves, History!Next

LEMMA ImplementsInit ==
    ASSUME Init
    PROVE  Counted(ledger) /\ History!Init
<1>1. ledger = <<>> /\ Len(ledger) = 0
  BY DEF Init
<1>2. \A v : v \in 0..0 => AssignedIn(ledger, v) = {}
  BY <1>1 DEF AssignedIn, KindIn
<1>3. \A v : v \in 0..0 => CountIn(ledger, v) = 0
  BY <1>2, FS_EmptySet DEF CountIn
<1>4. Counted(ledger)
  BY <1>1, <1>2, <1>3 DEF Counted
<1>5. installedNow = <<>>
  BY <1>1, <1>3, HistoryNow DEF InstalledIn
<1>6. rejectedNow = {}
  BY <1>1, HistoryNow DEF RejectedIn, AboutIn, KindIn
<1>7. \A c : ApprovalIn(ledger, c, Len(ledger)) = 0
  BY <1>1 DEF ApprovalIn, AboutIn, KindIn, Newest
<1>8. grantedNow = [c \in Candidates |-> None]
  BY <1>7, HistoryNow DEF GrantedIn
<1> QED
  BY <1>4, <1>5, <1>6, <1>8 DEF History!Init, installedNow, rejectedNow, grantedNow

\* Whatever the commands of several operators are and in whatever order, the
\* ledger serves one candidate after the other: an assignment takes a candidate
\* whose approval was granted against the assignments it follows, a rejected
\* candidate is never approved again, and a rollback reinstates the predecessor.
THEOREM RefinesServingHistory ==
    ASSUME Lookahead = 0
    PROVE  Spec => ImplementsServingHistory
<1>1. IInv /\ Counted(ledger) /\ [Next]_vars
      => (IInv /\ Counted(ledger))' /\ [History!Next]_(History!vars)
  BY NextIInv, StepServes, ImplementsNext
<1>2. Init => IInv /\ Counted(ledger) /\ History!Init
  BY InitIInv, ImplementsInit
<1> QED
  BY <1>1, <1>2, PTL DEF Spec, ImplementsServingHistory, History!Spec

=============================================================================
