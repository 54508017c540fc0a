----------------------------- MODULE ModelLifecycle -----------------------------
(***************************************************************************)
(* The lifecycle of the models of one family (model_governance.py): its    *)
(* append-only ledger of events, the seven commands of                     *)
(* ModelLifecycle.execute that append to it, and the projection that       *)
(* ModelGovernanceQuery shows.  An event is named by its version, its      *)
(* index in the ledger.                                                    *)
(*                                                                         *)
(* A command reads the ledger several times, each time in a transaction of *)
(* its own, and then appends, if the version its caller expects is still   *)
(* the last one.  The ledger only grows, so a command is one action, at    *)
(* its append, whose earlier reads may have seen a shorter ledger.  A      *)
(* caller that expects a version it has observed makes every read see      *)
(* exactly that version; Lookahead says how many versions callers may name *)
(* before they exist.  A command that is refused, expects another version  *)
(* or repeats a command id changes nothing.                                *)
(*                                                                         *)
(* Time is a number of ticks.  The occurred_at of a command lies between   *)
(* the moment its caller observed the version it expects and its append,   *)
(* and no other event does, so it may as well be the moment of the append. *)
(***************************************************************************)
EXTENDS Naturals, Sequences, FiniteSets

CONSTANTS
    Candidates,         \* candidate ids of the family
    Evidence,           \* hard gate evidence, by id
    Profile,            \* [c]: feature schema, runtime and source policy of c
    RequiredShadows,    \* eligible EOD cycles before a promotion (5)
    Validity,           \* ticks from an approval to its expiry (7 days)
    TicksPerDay,        \* ticks per calendar date
    Lookahead,          \* versions that a caller may expect ahead of time
    Limits,             \* bound: [k]: length of a ledger in which k - 1
                        \* events, the setbacks, repeat or refuse something
    MaxTime,            \* bound: ticks
    None                \* no candidate, no evidence

ASSUME LifecycleAssumption ==
    /\ RequiredShadows \in Nat \ {0}
    /\ Validity \in Nat
    /\ TicksPerDay \in Nat \ {0}
    /\ Lookahead \in Nat
    /\ Limits \in Seq(Nat) /\ Limits # <<>>
    /\ \A k \in 1..Len(Limits) : Limits[k] <= Limits[1]
    /\ MaxTime \in Nat
    /\ None \notin Candidates \cup Evidence

VARIABLES
    ledger,             \* ml_model_lifecycle_events of the family, by version
    now,                \* the clock
    setbacks            \* events so far that repeat or refuse something

vars == <<ledger, now, setbacks>>

MaxSetbacks == Len(Limits) - 1
MaxEvents == Limits[1]

Versions == 0..MaxEvents
Times == 0..MaxTime
Date(t) == t \div TicksPerDay + 1

-----------------------------------------------------------------------------
(* The events.  The first versions of an assignment, an approval and so on *)
(* name it, 0 is "unassigned" or none.                                     *)

CandidateEvent == [kind : {"CandidateRecorded"}, candidate : Candidates,
                   qualified : BOOLEAN]

\* Development that yields no candidate is recorded as a failed gate.
GateEvent == [kind : {"GateDecisionRecorded"}, candidate : Candidates \cup {None},
              evidence : Evidence \cup {None}, passed : BOOLEAN]

\* The invalidated reasons that later commands tell apart: "ineligible" stands
\* for those about the approver, the references and the stated reason.
Refusals == {"none", "ineligible", "expected_assignment_changed",
             "prior_rejection_irreversible", "approver_rejected"}
ApprovalEvent == [kind : {"ApprovalDecisionRecorded"}, candidate : Candidates,
                  gate : Evidence, expected : Versions, refusal : Refusals,
                  at : Times]

\* A run is named by its date, previous is 0 for the first run of a lineage.
ShadowEvent == [kind : {"ShadowEodRecorded"}, candidate : Candidates,
                gate : Evidence, approval : Versions, expected : Versions,
                date : Nat, previous : Nat, count : 1..RequiredShadows,
                at : Times]
BlockedEvent == [kind : {"ShadowEodBlocked"}, candidate : Candidates]

TransitionEvent == [kind : {"PromotionEventRecorded", "RollbackEventRecorded"},
                    candidate : Candidates, approval : Versions, at : Times]
AssignmentEvent == [kind : {"ProductionAssignmentCreated"},
                    candidate : Candidates, previous : Versions, at : Times]

Event == CandidateEvent \cup GateEvent \cup ApprovalEvent \cup ShadowEvent
         \cup BlockedEvent \cup TransitionEvent \cup AssignmentEvent

TypeOK ==
    /\ ledger \in Seq(Event) /\ Len(ledger) <= MaxEvents
    /\ now \in Times
    /\ setbacks \in 0..MaxSetbacks

Init == ledger = <<>> /\ now = 0 /\ setbacks = 0

-----------------------------------------------------------------------------
(* Reading the ledger up to version v.                                     *)

Newest(S) == IF S = {} THEN 0 ELSE CHOOSE x \in S : \A y \in S : y <= x

\* The versions of the events of a kind, and those about c.
OfKind(kind, v) == {i \in 1..v : ledger[i].kind = kind}
About(kind, c, v) == {i \in OfKind(kind, v) : ledger[i].candidate = c}

\* _candidate, _current_approval: the latest event about c, 0 if there is none.
CandidateOf(c, v) == Newest(About("CandidateRecorded", c, v))
ApprovalOf(c, v) == Newest(About("ApprovalDecisionRecorded", c, v))
LatestGate(c, v) == Newest(About("GateDecisionRecorded", c, v))

\* Mutant of _passed_gate: any passed gate will do.
AnyPassedGate(c, v) ==
    Newest({i \in About("GateDecisionRecorded", c, v) : ledger[i].passed})

\* _passed_gate: the latest gate decision about c, 0 if it did not pass.
PassedGate(c, v) ==
    LET g == LatestGate(c, v)
    IN  IF g # 0 /\ ledger[g].passed THEN g ELSE 0

\* production_assignments and _current_assignment.
Assignments(v) == OfKind("ProductionAssignmentCreated", v)
CurrentAssignment(v) == Newest(Assignments(v))

Approved(p) == ledger[p].refusal = "none"
Expired(p, t) == t >= ledger[p].at + Validity

\* Mutant of _has_irreversible_rejection: only the latest decision counts.
LatestRejects(c, v) ==
    LET p == ApprovalOf(c, v)
    IN  p # 0 /\ ledger[p].refusal = "approver_rejected"

\* _has_irreversible_rejection.
Rejected(c, v) == \E i \in About("ApprovalDecisionRecorded", c, v) :
                      ledger[i].refusal = "approver_rejected"

\* _verified_shadow_lineage: the runs recorded for c under an approval, and
\* whether they form a history; otherwise it raises shadow_history_invalid.
Lineage(c, gate, p, expected, v) ==
    {i \in About("ShadowEodRecorded", c, v) :
        /\ ledger[i].gate = gate
        /\ ledger[i].approval = p
        /\ ledger[i].expected = expected}

LastDate(S) == IF S = {} THEN 0 ELSE ledger[Newest(S)].date

IsHistory(S, since) ==
    \A i \in S :
        LET before == {j \in S : j < i}
            run == ledger[i]
        IN  /\ run.count = Cardinality(before) + 1
            /\ run.previous = LastDate(before)
            /\ before # {} => run.date > LastDate(before)
            /\ Date(run.at) >= run.date
            /\ run.date >= Date(since)
            /\ run.at >= since

\* What the reads of a command that appends now may have seen.
Seen == {v \in 0..Len(ledger) : v + Lookahead >= Len(ledger)}

\* n reads, one after the other.
Reads(n) == {s \in [1..n -> Seen] : \A i \in 2..n : s[i - 1] <= s[i]}

-----------------------------------------------------------------------------
(* Appending.                                                              *)

\* The bounds leave room for n more events and s more setbacks.
Room(n, s) ==
    /\ setbacks + s <= MaxSetbacks
    /\ Len(ledger) + n <= Limits[setbacks + s + 1]

\* LifecycleStore.append and promote; setback says whether the bound counts it.
Record(events, setback) ==
    /\ Room(Len(events), IF setback THEN 1 ELSE 0)
    /\ setbacks' = setbacks + (IF setback THEN 1 ELSE 0)
    /\ ledger' = ledger \o events
    /\ UNCHANGED now

\* RecordCandidate; qualified: the facts of the bundle that the bootstrap gate
\* asks for hold.
RecordCandidate(c, qualified) ==
    Record(<<[kind |-> "CandidateRecorded", candidate |-> c,
              qualified |-> qualified]>>,
           ~qualified \/ CandidateOf(c, Len(ledger)) # 0)

\* Mutant: the assignments are those of a version read earlier.
OpenWhenRead(r, v) ==
    ledger[r].qualified /\ \E w \in 0..v : Assignments(w) = {}

\* The failed gates that the ledger decides: a candidate that is not qualified,
\* and any candidate once there has been an assignment.
BootstrapOpen(r, v) == ledger[r].qualified /\ Assignments(v) = {}

\* EvaluateBootstrapCandidate: the other gates lie in the evidence.
EvaluateBootstrap(c, e, passed) ==
    \E s \in Reads(2) :
        LET r == CandidateOf(c, s[1])
        IN  /\ r # 0
            /\ passed => BootstrapOpen(r, s[2])
            /\ Record(<<[kind |-> "GateDecisionRecorded", candidate |-> c,
                         evidence |-> e, passed |-> passed]>>,
                      ~passed \/ LatestGate(c, Len(ledger)) # 0)

\* RecordDevelopmentGateFailure.
RecordDevelopmentFailure ==
    Record(<<[kind |-> "GateDecisionRecorded", candidate |-> None,
              evidence |-> None, passed |-> FALSE]>>, TRUE)

\* Mutants: the approver's word is taken for the outcome; the assignment that
\* the approval names is not compared with the current one.
RefusalAsRequested(c, eligible, requested, expected, s) ==
    IF eligible THEN requested ELSE "ineligible"
RefusalUnbound(c, eligible, requested, expected, s) ==
    CASE ~eligible -> "ineligible"
      [] eligible /\ Rejected(c, s[3]) -> "prior_rejection_irreversible"
      [] OTHER -> IF requested = "rejected" THEN "approver_rejected" ELSE "none"

\* The invalidated_reason of a decision, "none" for an approval.
Refusal(c, eligible, requested, expected, s) ==
    CASE ~eligible -> "ineligible"
      [] eligible /\ expected # CurrentAssignment(s[2])
            -> "expected_assignment_changed"
      [] eligible /\ expected = CurrentAssignment(s[2]) /\ Rejected(c, s[3])
            -> "prior_rejection_irreversible"
      [] OTHER -> IF requested = "rejected" THEN "approver_rejected" ELSE "none"

\* DecideApproval: eligible is the verdict on the approver, the references and
\* the reason, requested what the approver asks for.
DecideApproval(c, eligible, requested, expected) ==
    \E s \in Reads(3) :
        LET g == PassedGate(c, s[1])
            refusal == Refusal(c, eligible, requested, expected, s)
        IN  /\ g # 0
            /\ Record(<<[kind |-> "ApprovalDecisionRecorded", candidate |-> c,
                         gate |-> ledger[g].evidence, expected |-> expected,
                         refusal |-> refusal, at |-> now]>>,
                      refusal # "none" \/ ApprovalOf(c, Len(ledger)) # 0)

\* RecordShadowEod, for evidence about the current approval p and a date on
\* which the run is verified: nothing blocks it.
RecordShadow(c, date) ==
    \E s \in Reads(4) :
        LET p == ApprovalOf(c, s[1])
            g == PassedGate(c, s[2])
            runs == Lineage(c, ledger[p].gate, p, ledger[p].expected, s[3])
        IN  /\ p # 0 /\ g # 0
            /\ ledger[g].evidence = ledger[p].gate
            /\ Approved(p) /\ ~Expired(p, now)
            /\ date >= Date(ledger[p].at) /\ now >= ledger[p].at
            /\ ledger[p].expected = CurrentAssignment(s[4])
            /\ Date(now) >= date
            /\ IsHistory(runs, ledger[p].at)
            /\ runs # {} => date > LastDate(runs)
            /\ Cardinality(runs) < RequiredShadows
            /\ Record(<<[kind |-> "ShadowEodRecorded", candidate |-> c,
                         gate |-> ledger[p].gate, approval |-> p,
                         expected |-> ledger[p].expected, date |-> date,
                         previous |-> LastDate(runs),
                         count |-> Cardinality(runs) + 1, at |-> now]>>, FALSE)

\* RecordShadowEod, for any other evidence: the failure is recorded.
BlockShadow(c) ==
    /\ ApprovalOf(c, Len(ledger)) # 0
    /\ Record(<<[kind |-> "ShadowEodBlocked", candidate |-> c]>>, TRUE)

\* The two events of a promotion or a rollback, in one transaction.
Assign(kind, c, p, previous) ==
    Record(<<[kind |-> kind, candidate |-> c, approval |-> p, at |-> now],
             [kind |-> "ProductionAssignmentCreated", candidate |-> c,
              previous |-> previous, at |-> now]>>, FALSE)

\* PromoteProductionAssignment, if the readiness verifier agrees.
Promote(c) ==
    \E s \in Reads(4) :
        LET g == PassedGate(c, s[1])
            p == ApprovalOf(c, s[2])
            runs == Lineage(c, ledger[g].evidence, p, ledger[p].expected, s[3])
            current == CurrentAssignment(s[4])
        IN  /\ g # 0 /\ p # 0
            /\ IsHistory(runs, ledger[p].at)
            /\ Cardinality(runs) = RequiredShadows
            /\ current # 0 => Profile[ledger[current].candidate] = Profile[c]
            /\ ledger[p].expected = current
            /\ Approved(p) /\ ~Expired(p, now)
            /\ Assign("PromotionEventRecorded", c, p, current)

\* RollbackProductionAssignment: the predecessor's candidate is assigned again,
\* as a new assignment.
Rollback ==
    \E v \in Seen :
        LET current == CurrentAssignment(v)
            target == ledger[current].previous
        IN  /\ current # 0 /\ target # 0
            /\ ledger[target].at < ledger[current].at
            /\ Profile[ledger[target].candidate] =
               Profile[ledger[current].candidate]
            /\ Assign("RollbackEventRecorded", ledger[target].candidate, 0,
                      current)

Tick ==
    /\ now < MaxTime
    /\ now' = now + 1
    /\ UNCHANGED <<ledger, setbacks>>

Command ==
    \/ \E c \in Candidates :
          \/ \E qualified \in BOOLEAN : RecordCandidate(c, qualified)
          \/ \E e \in Evidence, passed \in BOOLEAN :
                EvaluateBootstrap(c, e, passed)
          \/ \E eligible \in BOOLEAN, requested \in {"approved", "rejected"},
                expected \in Assignments(Len(ledger)) \cup {0} :
                DecideApproval(c, eligible, requested, expected)
          \/ \E date \in 1..Date(now) : RecordShadow(c, date)
          \/ BlockShadow(c)
          \/ Promote(c)
    \/ RecordDevelopmentFailure
    \/ Rollback

Next ==
    \/ Room(1, 0) /\ Command
    \/ Tick

Spec == Init /\ [][Next]_vars

-----------------------------------------------------------------------------
(* What ModelGovernanceQuery.get_backtest shows of c.                      *)

\* The approval is about the latest gate decision g, which then has passed: a
\* gate decision is named by its content.
ApprovesGate(p, g) ==
    /\ p # 0 /\ g # 0
    /\ ledger[g].passed
    /\ ledger[p].gate = ledger[g].evidence

\* Mutant: an approval is shown as it was given until it expires.
ProjectedAsGiven(c, t) ==
    LET p == ApprovalOf(c, Len(ledger))
    IN  CASE p = 0 -> "awaiting_approval"
          [] p # 0 /\ ~Approved(p) -> "rejected"
          [] OTHER -> IF Expired(p, t) THEN "approval_expired" ELSE "approved"

\* _approval_projection at time t, before and after there is a decision.
ProjectedApproval(c, t) ==
    LET v == Len(ledger)
        p == ApprovalOf(c, v)
        g == LatestGate(c, v)
    IN  CASE p = 0 -> IF g # 0 /\ ~ledger[g].passed
                      THEN "blocked_by_gate" ELSE "awaiting_approval"
          [] p # 0 /\ ~ApprovesGate(p, g) -> "gate_lineage_changed"
          [] ApprovesGate(p, g) /\ ~Approved(p) -> "rejected"
          [] OTHER -> IF Expired(p, t) THEN "approval_expired"
                      ELSE IF ledger[p].expected # CurrentAssignment(v)
                      THEN "expected_assignment_changed" ELSE "approved"

\* _current_lineage_shadow_count.
ProjectedShadows(c) ==
    LET v == Len(ledger)
        p == ApprovalOf(c, v)
        runs == Lineage(c, ledger[p].gate, p, ledger[p].expected, v)
    IN  IF ApprovesGate(p, LatestGate(c, v)) /\ IsHistory(runs, ledger[p].at)
        THEN Cardinality(runs) ELSE 0

-----------------------------------------------------------------------------
(* Properties.                                                             *)

\* The events of a kind about c strictly between two versions.
Between(kind, c, i, j) == {k \in About(kind, c, j) : i < k /\ k < j}

\* Every promotion rests on an approval that still stands: no later decision of
\* an approver, no other assignment, five runs on rising dates between the two,
\* and a candidate whose qualification a passed gate had examined.  When each of
\* the runs is recorded, and again at the promotion, the gate decision in force
\* has passed on the approved evidence: an evaluation that fails in between, or
\* is about other evidence, holds everything up until the gate has passed again
\* on the approved one.  The promotion happens before the approval expires.
PromotionIsVetted ==
    \A n \in OfKind("PromotionEventRecorded", Len(ledger)) :
        LET c == ledger[n].candidate
            p == ApprovalOf(c, n)
            runs == Between("ShadowEodRecorded", c, p, n)
        IN  /\ p # 0 /\ Approved(p) /\ ~Expired(p, ledger[n].at)
            /\ \E g \in About("GateDecisionRecorded", c, p) :
                  /\ ledger[g].passed /\ ledger[g].evidence = ledger[p].gate
                  /\ \E r \in About("CandidateRecorded", c, g) :
                        ledger[r].qualified
            /\ \A i \in runs \cup {n} : ApprovesGate(p, LatestGate(c, i))
            /\ ledger[p].expected = CurrentAssignment(n)
            /\ CurrentAssignment(p) = CurrentAssignment(n)
            /\ Cardinality({ledger[i].date : i \in runs}) = RequiredShadows
            /\ \A i \in runs : /\ ledger[i].date >= Date(ledger[p].at)
                               /\ ledger[i].date <= Date(ledger[n].at)

\* The rejection of a candidate's exact evidence is final: nobody approves or
\* promotes it afterwards, whatever gates and assignments follow.
RejectionIsFinal ==
    \A c \in Candidates :
        \A i \in About("ApprovalDecisionRecorded", c, Len(ledger)) :
            ledger[i].refusal = "approver_rejected" =>
                /\ \A j \in About("ApprovalDecisionRecorded", c, Len(ledger)) :
                      j > i => ~Approved(j)
                /\ \A j \in About("PromotionEventRecorded", c, Len(ledger)) : j < i

\* The bootstrap gate is closed for good by the first production assignment.
BootstrapIsClosed ==
    \A a \in Assignments(Len(ledger)) :
        \A g \in OfKind("GateDecisionRecorded", Len(ledger)) :
            g > a => ~ledger[g].passed

\* What researchers are shown is what a promotion would decide: the projection
\* says "approved" with all shadow cycles complete exactly when the lifecycle
\* finds a passed gate, a standing approval and a complete lineage.
ProjectionAgrees ==
    \A c \in Candidates :
        LET v == Len(ledger)
            p == ApprovalOf(c, v)
            g == PassedGate(c, v)
            runs == Lineage(c, ledger[g].evidence, p, ledger[p].expected, v)
            promotable == /\ p # 0 /\ g # 0
                          /\ IsHistory(runs, ledger[p].at)
                          /\ Cardinality(runs) = RequiredShadows
                          /\ ledger[p].expected = CurrentAssignment(v)
                          /\ Approved(p) /\ ~Expired(p, now)
        IN  promotable <=> /\ ProjectedApproval(c, now) = "approved"
                           /\ ProjectedShadows(c) = RequiredShadows

\* The ledger implements ServingHistory: an assignment replaces exactly the one
\* its approval was granted against, and a rollback reinstates its predecessor.
InstalledAt(i) == Cardinality(Assignments(i))
History == INSTANCE ServingHistory WITH
    installed <- [k \in 1..InstalledAt(Len(ledger)) |->
                    ledger[CHOOSE a \in Assignments(Len(ledger)) :
                              InstalledAt(a) = k].candidate],
    rejected <- {c \in Candidates : Rejected(c, Len(ledger))},
    granted <- [c \in Candidates |->
                  LET p == ApprovalOf(c, Len(ledger))
                  IN  IF p # 0 /\ Approved(p)
                      THEN InstalledAt(ledger[p].expected) ELSE None]
ImplementsServingHistory == History!Spec

-----------------------------------------------------------------------------
(* What the repository says of the program and the code does not do.       *)

=================================================================================
