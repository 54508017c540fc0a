----------------------------- MODULE OutboxRelay -----------------------------
(***************************************************************************)
(* The transactional outbox and its relay workers                          *)
(* (platform/outbox_relay.py), with the two publishing transactions of     *)
(* platform/state_store.py that feed it.                                   *)
(*                                                                         *)
(* Every action is one database transaction of the code (or one statement  *)
(* of the consumer transaction, which other workers can run between): the  *)
(* steps of two relay processes interleave at exactly those points.  The   *)
(* database is PostgreSQL at READ COMMITTED, the default that the code     *)
(* does not change: a SELECT takes no lock, an UPDATE or INSERT locks its  *)
(* row or key until the transaction ends.                                  *)
(*                                                                         *)
(* An event is the pair (aggregate, aggregate version).  Time is not a     *)
(* number: each relay process compares a lease with its own clock, so a    *)
(* lease lapses in the view of each process separately and at any moment.  *)
(***************************************************************************)
EXTENDS Naturals, Sequences, FiniteSets

CONSTANTS
    Workers,            \* relay processes, by worker_id
    Aggregates,         \* aggregate ids; the order of Nat is the column's order
    Listings,           \* those published by the fixture workflow; the others
                        \* are forecast batches, which have one event each
    Accepted,           \* Accepted[w]: aggregates whose event type and schema
                        \* version the EventCompatibility of w accepts
    MaxVersion,         \* bound: events published per listing
    MaxClaims,          \* bound: claims (fencing tokens) of one event
    MaxDisturbances,    \* bound: crashes, faults, untimely lapses, early calls
    None                \* no worker, SQL NULL

ASSUME RelayAssumption ==
    /\ Aggregates \subseteq Nat
    /\ Listings \subseteq Aggregates
    /\ Accepted \in [Workers -> SUBSET Aggregates]
    /\ MaxVersion \in Nat \ {0}
    /\ MaxClaims \in Nat
    /\ MaxDisturbances \in Nat
    /\ None \notin Workers

Versions == 1..MaxVersion

Research == "research_projection"
Operations == "operations_projection"
Consumers == {Research, Operations}

\* "relay_lease_superseded" etc.: reason codes of the incidents of an aggregate.
Reasons == {"relay_lease_superseded", "incompatible_event_contract",
            "expired_fencing_token", "out_of_order_aggregate_version",
            "consumer_transaction_crash"}

VARIABLES
    published,  \* [a]: highest aggregate_version in ops_outbox_events
    status,     \* [a][v]: ops_outbox_dispatch.status, "absent" before the insert
    claimedBy,  \* [a][v]: ops_outbox_dispatch.claimed_by
    token,      \* [a][v]: ops_outbox_dispatch.fencing_token
    lapsed,     \* [a][v]: the processes whose clock is past lease_expires_at
    attempts,   \* [a][v]: ops_outbox_delivery_attempts, by attempt_number
    processed,  \* [c][a]: versions in ops_processed_outbox_events
    cursor,     \* [c][a]: ops_projection_cursors.aggregate_version, 0 for none
    effects,    \* [c][a][v]: committed transactions that applied c's effect
    incident,   \* [a][r]: status of the incident of reason r
    relay,      \* [w]: the call of OutboxRelay.relay that w is running
    disturbed   \* disturbances so far, see MaxDisturbances

eventVars == <<published, status>>
claimVars == <<claimedBy, token, lapsed>>
effectVars == <<processed, cursor, effects>>
vars == <<published, status, claimedBy, token, lapsed, attempts, processed,
          cursor, effects, incident, relay, disturbed>>

AttemptStatuses == {"running", "delivered", "blocked", "failed", "deferred",
                    "superseded"}
Attempt == [token : 1..MaxClaims, status : AttemptStatuses]

\* Where a call of relay stands.  "recheck" and "commit" are inside a consumer
\* transaction that has written its effect row and holds the lock on it.
Stages == {"idle", "loaded", "claimed", "recovered", "started", "consume",
           "write", "recheck", "commit", "ack", "failing"}
Failures == {"expired_fencing_token", "out_of_order_aggregate_version",
             "consumer_transaction_crash"}

\* agg and ver name the loaded event, token the claim, attempt its number in
\* attempts, consumer the projection being served, failure the reason code
\* _finish_failure will record.
Call == [stage : Stages, agg : Aggregates \cup {0}, ver : Nat, token : Nat,
         attempt : Nat, consumer : Consumers,
         failure : Failures \cup {"none"}]

NoCall == [stage |-> "idle", agg |-> 0, ver |-> 0, token |-> 0, attempt |-> 0,
           consumer |-> Research, failure |-> "none"]

TypeOK ==
    /\ published \in [Aggregates -> 0..MaxVersion]
    /\ status \in [Aggregates -> [Versions ->
                     {"absent", "pending", "delivered", "isolated"}]]
    /\ claimedBy \in [Aggregates -> [Versions -> Workers \cup {None}]]
    /\ token \in [Aggregates -> [Versions -> 0..MaxClaims]]
    /\ lapsed \in [Aggregates -> [Versions -> SUBSET Workers]]
    /\ attempts \in [Aggregates -> [Versions -> Seq(Attempt)]]
    /\ processed \in [Consumers -> [Aggregates -> SUBSET Versions]]
    /\ cursor \in [Consumers -> [Aggregates -> 0..MaxVersion]]
    /\ effects \in [Consumers -> [Aggregates -> [Versions -> Nat]]]
    /\ incident \in [Aggregates -> [Reasons -> {"none", "open", "monitoring"}]]
    /\ relay \in [Workers -> Call]
    /\ disturbed \in 0..MaxDisturbances

Init ==
    /\ published = [a \in Aggregates |-> 0]
    /\ status = [a \in Aggregates |-> [v \in Versions |-> "absent"]]
    /\ claimedBy = [a \in Aggregates |-> [v \in Versions |-> None]]
    /\ token = [a \in Aggregates |-> [v \in Versions |-> 0]]
    /\ lapsed = [a \in Aggregates |-> [v \in Versions |-> {}]]
    /\ attempts = [a \in Aggregates |-> [v \in Versions |-> <<>>]]
    /\ processed = [c \in Consumers |-> [a \in Aggregates |-> {}]]
    /\ cursor = [c \in Consumers |-> [a \in Aggregates |-> 0]]
    /\ effects = [c \in Consumers |->
                    [a \in Aggregates |-> [v \in Versions |-> 0]]]
    /\ incident = [a \in Aggregates |-> [r \in Reasons |-> "none"]]
    /\ relay = [w \in Workers |-> NoCall]
    /\ disturbed = 0

-----------------------------------------------------------------------------
(* Publication.                                                            *)

\* publish_fixture_trace numbers the event max + 1 of its listing and
\* publish_production_trace always 1; the event, its pending dispatch row and
\* the stale research projection commit together.
Publish(a) ==
    /\ published[a] < IF a \in Listings THEN MaxVersion ELSE 1
    /\ published' = [published EXCEPT ![a] = @ + 1]
    /\ status' = [status EXCEPT ![a][published[a] + 1] = "pending"]
    /\ UNCHANGED <<claimVars, attempts, effectVars, incident, relay, disturbed>>

-----------------------------------------------------------------------------
(* Taking an event.                                                        *)

Pending(a, v) == v <= published[a] /\ status[a][v] = "pending"

\* _load_event(None): ORDER BY aggregate_id, aggregate_version LIMIT 1.
IsNext(a, v) ==
    /\ Pending(a, v)
    /\ \A b \in Aggregates, u \in Versions :
          Pending(b, u) => \/ a < b
                           \/ a = b /\ v <= u

\* relay(event_id=None) finds a pending event.
LoadNext(w) ==
    /\ relay[w].stage = "idle"
    /\ \E a \in Aggregates, v \in Versions :
          /\ IsNext(a, v)
          /\ relay' = [relay EXCEPT ![w] =
                         [NoCall EXCEPT !.stage = "loaded", !.agg = a, !.ver = v]]
    /\ UNCHANGED <<eventVars, claimVars, attempts, effectVars, incident,
                   disturbed>>

Disturb ==
    /\ disturbed < MaxDisturbances
    /\ disturbed' = disturbed + 1

\* relay(event_id=e) for a pending event that relay() would not choose: the
\* acceptance command and the tests deliver out of order this way.
LoadEvent(w, a, v) ==
    /\ relay[w].stage = "idle"
    /\ Pending(a, v)
    /\ ~IsNext(a, v)
    /\ relay' = [relay EXCEPT ![w] =
                   [NoCall EXCEPT !.stage = "loaded", !.agg = a, !.ver = v]]
    /\ Disturb
    /\ UNCHANGED <<eventVars, claimVars, attempts, effectVars, incident>>

\* Outcomes "empty", "already_delivered" and "isolated": nothing is written.
NothingToRelay(w) ==
    /\ relay[w].stage = "idle"
    /\ \/ \A a \in Aggregates, v \in Versions : ~Pending(a, v)
       \/ \E a \in Aggregates, v \in Versions :
             status[a][v] \in {"delivered", "isolated"}
    /\ UNCHANGED vars

\* Mutants of the claim's WHERE clause: no status, no lease.
ClaimableInAnyStatus(w, a, v) == claimedBy[a][v] = None \/ w \in lapsed[a][v]
ClaimableUnleased(w, a, v) == status[a][v] = "pending" /\ claimedBy[a][v] = None

\* The WHERE clause of the claim: pending, and unclaimed or with a lease that
\* has lapsed for this process.
Claimable(w, a, v) ==
    /\ status[a][v] = "pending"
    /\ claimedBy[a][v] = None \/ w \in lapsed[a][v]

\* Mutant: the claim keeps the fencing token of the one before it.
ClaimSameToken(w) ==
    LET a == relay[w].agg
        v == relay[w].ver
    IN  /\ relay[w].stage = "loaded"
        /\ Claimable(w, a, v)
        /\ claimedBy' = [claimedBy EXCEPT ![a][v] = w]
        /\ token' = [token EXCEPT ![a][v] = IF @ = 0 THEN 1 ELSE @]
        /\ lapsed' = [lapsed EXCEPT ![a][v] = {}]
        /\ relay' = [relay EXCEPT ![w].stage = "claimed",
                                  ![w].token = token'[a][v]]
        /\ UNCHANGED <<eventVars, attempts, effectVars, incident, disturbed>>

\* Mutant: the call keeps the token it read before the increment.
ClaimOldToken(w) ==
    LET a == relay[w].agg
        v == relay[w].ver
    IN  /\ relay[w].stage = "loaded"
        /\ Claimable(w, a, v)
        /\ token[a][v] < MaxClaims
        /\ claimedBy' = [claimedBy EXCEPT ![a][v] = w]
        /\ token' = [token EXCEPT ![a][v] = @ + 1]
        /\ lapsed' = [lapsed EXCEPT ![a][v] = {}]
        /\ relay' = [relay EXCEPT ![w].stage = "claimed",
                                  ![w].token = token[a][v]]
        /\ UNCHANGED <<eventVars, attempts, effectVars, incident, disturbed>>

Claim(w) ==
    LET a == relay[w].agg
        v == relay[w].ver
    IN  /\ relay[w].stage = "loaded"
        /\ Claimable(w, a, v)
        /\ token[a][v] < MaxClaims
        /\ claimedBy' = [claimedBy EXCEPT ![a][v] = w]
        /\ token' = [token EXCEPT ![a][v] = @ + 1]
        /\ lapsed' = [lapsed EXCEPT ![a][v] = {}]
        /\ relay' = [relay EXCEPT ![w].stage = "claimed",
                                  ![w].token = token[a][v] + 1]
        /\ UNCHANGED <<eventVars, attempts, effectVars, incident, disturbed>>

\* No row returned by the claim: outcome "busy".
ClaimBusy(w) ==
    LET a == relay[w].agg
        v == relay[w].ver
    IN  /\ relay[w].stage = "loaded"
        /\ ~Claimable(w, a, v) \/ token[a][v] = MaxClaims
        /\ relay' = [relay EXCEPT ![w] = NoCall]
        /\ UNCHANGED <<eventVars, claimVars, attempts, effectVars, incident,
                       disturbed>>

-----------------------------------------------------------------------------
(* Recording the attempt.                                                  *)

\* _record_incident: inserted or reopened, whatever its status was.
Open(a, r) == [incident EXCEPT ![a][r] = "open"]

\* _record_superseded_leases: attempts still running under an older token.
SupersedeLeases(w) ==
    LET a == relay[w].agg
        v == relay[w].ver
        Stale(n) == /\ attempts[a][v][n].status = "running"
                    /\ attempts[a][v][n].token < relay[w].token
    IN  /\ relay[w].stage = "claimed"
        /\ attempts' = [attempts EXCEPT ![a][v] =
              [n \in DOMAIN attempts[a][v] |->
                 IF Stale(n)
                 THEN [attempts[a][v][n] EXCEPT !.status = "superseded"]
                 ELSE attempts[a][v][n]]]
        /\ incident' = IF \E n \in DOMAIN attempts[a][v] : Stale(n)
                       THEN Open(a, "relay_lease_superseded") ELSE incident
        /\ relay' = [relay EXCEPT ![w].stage = "recovered"]
        /\ UNCHANGED <<eventVars, claimVars, effectVars, disturbed>>

\* _start_attempt: attempt_number is the count of rows plus one.
StartAttempt(w) ==
    LET a == relay[w].agg
        v == relay[w].ver
    IN  /\ relay[w].stage = "recovered"
        /\ attempts' = [attempts EXCEPT ![a][v] =
              Append(@, [token |-> relay[w].token, status |-> "running"])]
        /\ relay' = [relay EXCEPT ![w].stage = "started",
                                  ![w].attempt = Len(attempts[a][v]) + 1]
        /\ UNCHANGED <<eventVars, claimVars, effectVars, incident, disturbed>>

\* The WHERE clause of _release_claim and of the isolating update.
HoldsClaim(w, a, v) ==
    /\ claimedBy[a][v] = w
    /\ token[a][v] = relay[w].token

\* Mutant: only the lease is looked at.
CurrentLease(w, a, v) == w \notin lapsed[a][v]

\* _assert_current_claim, and the WHERE clause of the acknowledgement.
CurrentClaim(w, a, v) ==
    /\ HoldsClaim(w, a, v)
    /\ w \notin lapsed[a][v]

SetAttempt(w, a, v, s) ==
    attempts' = [attempts EXCEPT ![a][v][relay[w].attempt].status = s]

Release(a, v) ==
    /\ claimedBy' = [claimedBy EXCEPT ![a][v] = None]
    /\ lapsed' = [lapsed EXCEPT ![a][v] = {}]

\* An event contract this process does not accept.  Only the dispatch row is
\* guarded by the claim.
Isolate(w) ==
    LET a == relay[w].agg
        v == relay[w].ver
    IN  /\ relay[w].stage = "started"
        /\ a \notin Accepted[w]
        /\ IF HoldsClaim(w, a, v)
           THEN /\ status' = [status EXCEPT ![a][v] = "isolated"]
                /\ Release(a, v)
           ELSE UNCHANGED <<status, claimedBy, lapsed>>
        /\ SetAttempt(w, a, v, "blocked")
        /\ incident' = Open(a, "incompatible_event_contract")
        /\ relay' = [relay EXCEPT ![w] = NoCall]
        /\ UNCHANGED <<published, token, effectVars, disturbed>>

BeginDelivery(w) ==
    /\ relay[w].stage = "started"
    /\ relay[w].agg \in Accepted[w]
    /\ relay' = [relay EXCEPT ![w].stage = "consume"]
    /\ UNCHANGED <<eventVars, claimVars, attempts, effectVars, incident,
                   disturbed>>

-----------------------------------------------------------------------------
(* The consumer transaction (_consume), for Research and then Operations.  *)

\* Mutant: the loop over the consumers ends after the first.
AfterFirstConsumer(w) == [relay EXCEPT ![w].stage = "ack"]

AfterConsumer(w) ==
    IF relay[w].consumer = Research
    THEN [relay EXCEPT ![w].stage = "consume", ![w].consumer = Operations]
    ELSE [relay EXCEPT ![w].stage = "ack"]

Fail(w, why) == [relay EXCEPT ![w].stage = "failing", ![w].failure = why]

\* The consumer already committed this event: return without a write.
SkipProcessed(w) ==
    LET a == relay[w].agg
        v == relay[w].ver
        c == relay[w].consumer
    IN  /\ relay[w].stage = "consume"
        /\ CurrentClaim(w, a, v)
        /\ v \in processed[c][a]
        /\ relay' = AfterConsumer(w)
        /\ UNCHANGED <<eventVars, claimVars, attempts, effectVars, incident,
                       disturbed>>

\* Mutant: any later version is good enough.
NotOlder(c, a, v) == v > cursor[c][a]

InOrder(c, a, v) == v = cursor[c][a] + 1

\* The reads that open the transaction: claim, processed marker, cursor.
ConsumeRead(w) ==
    LET a == relay[w].agg
        v == relay[w].ver
        c == relay[w].consumer
    IN  /\ relay[w].stage = "consume"
        /\ CurrentClaim(w, a, v)
        /\ v \notin processed[c][a]
        /\ relay' = IF InOrder(c, a, v)
                    THEN [relay EXCEPT ![w].stage = "write"]
                    ELSE Fail(w, "out_of_order_aggregate_version")
        /\ UNCHANGED <<eventVars, claimVars, attempts, effectVars, incident,
                       disturbed>>

\* The effect row of (c, a, v) is locked by another open transaction.
RowLocked(w, c, a, v) ==
    \E x \in Workers \ {w} :
        /\ relay[x].stage \in {"recheck", "commit"}
        /\ relay[x].consumer = c
        /\ relay[x].agg = a
        /\ relay[x].ver = v

\* The effect: UPDATE of the research projection, which waits for the row and
\* goes on, or INSERT of the operations projection, whose key must be new.
ConsumeWrite(w) ==
    LET a == relay[w].agg
        v == relay[w].ver
        c == relay[w].consumer
    IN  /\ relay[w].stage = "write"
        /\ ~RowLocked(w, c, a, v)
        /\ c = Operations => effects[c][a][v] = 0
        /\ relay' = [relay EXCEPT ![w].stage = "recheck"]
        /\ UNCHANGED <<eventVars, claimVars, attempts, effectVars, incident,
                       disturbed>>

\* The second _assert_current_claim.
ConsumeRecheck(w) ==
    /\ relay[w].stage = "recheck"
    /\ CurrentClaim(w, relay[w].agg, relay[w].ver)
    /\ relay' = [relay EXCEPT ![w].stage = "commit"]
    /\ UNCHANGED <<eventVars, claimVars, attempts, effectVars, incident,
                   disturbed>>

\* Mutant: the marker is not unique per consumer and event.
CommitUnmarked(w) ==
    LET a == relay[w].agg
        v == relay[w].ver
        c == relay[w].consumer
    IN  /\ relay[w].stage = "commit"
        /\ processed' = [processed EXCEPT ![c][a] = @ \cup {v}]
        /\ cursor' = [cursor EXCEPT ![c][a] = v]
        /\ effects' = [effects EXCEPT ![c][a][v] = @ + 1]
        /\ relay' = AfterConsumer(w)
        /\ UNCHANGED <<eventVars, claimVars, attempts, incident, disturbed>>

\* Processed marker (unique per consumer and event), cursor, COMMIT.
ConsumeCommit(w) ==
    LET a == relay[w].agg
        v == relay[w].ver
        c == relay[w].consumer
    IN  /\ relay[w].stage = "commit"
        /\ v \notin processed[c][a]
        /\ processed' = [processed EXCEPT ![c][a] = @ \cup {v}]
        /\ cursor' = [cursor EXCEPT ![c][a] = v]
        /\ effects' = [effects EXCEPT ![c][a][v] = @ + 1]
        /\ relay' = AfterConsumer(w)
        /\ UNCHANGED <<eventVars, claimVars, attempts, incident, disturbed>>

\* A unique key is taken: IntegrityError is not a RuntimeError, so relay()
\* handles nothing and the process is left with a claim nobody releases.
ConsumeConflict(w) ==
    LET a == relay[w].agg
        v == relay[w].ver
        c == relay[w].consumer
    IN  /\ \/ /\ relay[w].stage = "write"
              /\ ~RowLocked(w, c, a, v)
              /\ c = Operations
              /\ effects[c][a][v] > 0
           \/ /\ relay[w].stage = "commit"
              /\ v \in processed[c][a]
        /\ relay' = [relay EXCEPT ![w] = NoCall]
        /\ UNCHANGED <<eventVars, claimVars, attempts, effectVars, incident,
                       disturbed>>

\* RelayLeaseLost from either assertion; the transaction rolls back.
LeaseLost(w) ==
    /\ relay[w].stage \in {"consume", "recheck"}
    /\ ~CurrentClaim(w, relay[w].agg, relay[w].ver)
    /\ relay' = Fail(w, "expired_fencing_token")
    /\ UNCHANGED <<eventVars, claimVars, attempts, effectVars, incident,
                   disturbed>>

-----------------------------------------------------------------------------
(* The end of the call.                                                    *)

Ack(w) ==
    LET a == relay[w].agg
        v == relay[w].ver
    IN  /\ relay[w].stage = "ack"
        /\ CurrentClaim(w, a, v)
        /\ status' = [status EXCEPT ![a][v] = "delivered"]
        /\ Release(a, v)
        /\ SetAttempt(w, a, v, "delivered")
        /\ incident' = [incident EXCEPT ![a] =
              [r \in Reasons |-> IF @[r] = "none" THEN "none" ELSE "monitoring"]]
        /\ relay' = [relay EXCEPT ![w] = NoCall]
        /\ UNCHANGED <<published, token, effectVars, disturbed>>

\* rowcount # 1: another process has superseded this attempt or will.
AckRefused(w) ==
    LET a == relay[w].agg
        v == relay[w].ver
    IN  /\ relay[w].stage = "ack"
        /\ ~CurrentClaim(w, a, v)
        /\ IF attempts[a][v][relay[w].attempt].status = "running"
           THEN SetAttempt(w, a, v, "failed")
           ELSE UNCHANGED attempts
        /\ incident' = Open(a, "expired_fencing_token")
        /\ relay' = [relay EXCEPT ![w] = NoCall]
        /\ UNCHANGED <<eventVars, claimVars, effectVars, disturbed>>

\* _finish_failure: the attempt is overwritten whatever its status, the claim
\* is released only if it is still this call's.
FinishFailure(w) ==
    LET a == relay[w].agg
        v == relay[w].ver
        why == relay[w].failure
    IN  /\ relay[w].stage = "failing"
        /\ SetAttempt(w, a, v, IF why = "out_of_order_aggregate_version"
                               THEN "deferred" ELSE "failed")
        /\ IF HoldsClaim(w, a, v)
           THEN Release(a, v)
           ELSE UNCHANGED <<claimedBy, lapsed>>
        /\ incident' = Open(a, why)
        /\ relay' = [relay EXCEPT ![w] = NoCall]
        /\ UNCHANGED <<eventVars, token, effectVars, disturbed>>

-----------------------------------------------------------------------------
(* The environment.                                                        *)

\* A RuntimeError at one of the three RelayFault seams.
Fault(w) ==
    /\ \/ relay[w].stage = "started" /\ relay[w].agg \in Accepted[w]
       \/ relay[w].stage \in {"recheck", "ack"}
    /\ relay' = Fail(w, "consumer_transaction_crash")
    /\ Disturb
    /\ UNCHANGED <<eventVars, claimVars, attempts, effectVars, incident>>

\* The process dies or an uncaught exception ends the call; an open
\* transaction rolls back.
Crash(w) ==
    /\ relay[w].stage # "idle"
    /\ relay' = [relay EXCEPT ![w] = NoCall]
    /\ Disturb
    /\ UNCHANGED <<eventVars, claimVars, attempts, effectVars, incident>>

\* Some running call owns the claim of (a, v).
OwnerAlive(a, v) ==
    \E x \in Workers : /\ relay[x].stage \notin {"idle", "loaded"}
                       /\ relay[x].agg = a
                       /\ relay[x].ver = v
                       /\ relay[x].token = token[a][v]

\* w's clock passes lease_expires_at.  While the owner still works this is an
\* untimely lapse (the owner took longer than the two seconds, or the clocks
\* disagree) and counts as a disturbance; after that it is only time passing.
Lapse(w, a, v) ==
    /\ claimedBy[a][v] # None
    /\ w \notin lapsed[a][v]
    /\ lapsed' = [lapsed EXCEPT ![a][v] = @ \cup {w}]
    /\ IF OwnerAlive(a, v) THEN Disturb ELSE UNCHANGED disturbed
    /\ UNCHANGED <<eventVars, claimedBy, token, attempts, effectVars, incident,
                   relay>>

-----------------------------------------------------------------------------

\* What a call does next once it is running.
Advance(w) ==
    \/ Claim(w)
    \/ ClaimBusy(w)
    \/ SupersedeLeases(w)
    \/ StartAttempt(w)
    \/ Isolate(w)
    \/ BeginDelivery(w)
    \/ SkipProcessed(w)
    \/ ConsumeRead(w)
    \/ ConsumeWrite(w)
    \/ ConsumeRecheck(w)
    \/ ConsumeCommit(w)
    \/ ConsumeConflict(w)
    \/ LeaseLost(w)
    \/ Ack(w)
    \/ AckRefused(w)
    \/ FinishFailure(w)

Next ==
    \/ \E a \in Aggregates : Publish(a)
    \/ \E w \in Workers : LoadNext(w) \/ NothingToRelay(w) \/ Advance(w)
    \/ \E w \in Workers : Fault(w) \/ Crash(w)
    \/ \E w \in Workers, a \in Aggregates, v \in Versions :
          LoadEvent(w, a, v) \/ Lapse(w, a, v)

Spec == Init /\ [][Next]_vars

\* The operator keeps running `relay --once`, a running call makes progress,
\* and a lease that nobody works under lapses for every process.
Fairness ==
    /\ \A w \in Workers : WF_vars(LoadNext(w)) /\ WF_vars(Advance(w))
    /\ \A w \in Workers, a \in Aggregates, v \in Versions :
          WF_vars(~OwnerAlive(a, v) /\ Lapse(w, a, v))

FairSpec == Spec /\ Fairness

-----------------------------------------------------------------------------
(* Properties.                                                             *)

Delivered(a, v) == status[a][v] = "delivered"

\* Every consumer has committed the effect of an event once if it recorded the
\* event as processed and never otherwise: a retry, a lease that lapsed under a
\* slow worker and a crash before the commit neither repeat nor lose an effect.
EffectsExactlyOnce ==
    \A c \in Consumers, a \in Aggregates, v \in Versions :
        effects[c][a][v] = IF v \in processed[c][a] THEN 1 ELSE 0

\* A consumer has processed exactly the versions up to its cursor, so an
\* aggregate is projected without gaps whatever order its events are relayed in.
ContiguousProjection ==
    \A c \in Consumers, a \in Aggregates : processed[c][a] = 1..cursor[c][a]

\* An event is acknowledged only after both projections contain it.
DeliveredIsProjected ==
    \A a \in Aggregates, v \in Versions :
        Delivered(a, v) => \A c \in Consumers : v \in processed[c][a]

\* Fencing: a delivered event was acknowledged by one attempt, the one that held
\* its last fencing token, and its claim is gone.
DeliveredByLastClaim ==
    \A a \in Aggregates, v \in Versions :
        LET wins == {n \in DOMAIN attempts[a][v] :
                        attempts[a][v][n].status = "delivered"}
        IN  IF Delivered(a, v)
            THEN /\ claimedBy[a][v] = None
                 /\ \E n \in wins : /\ wins = {n}
                                    /\ attempts[a][v][n].token = token[a][v]
            ELSE wins = {}

\* An unfinished call never owns a claim after another claimed the same event:
\* two calls that both hold the claim of an event are the same call.
OneClaimHolder ==
    \A a \in Aggregates, v \in Versions : \A w, x \in Workers :
        /\ \A y \in {w, x} : /\ relay[y].stage \notin {"idle", "loaded"}
                             /\ relay[y].agg = a
                             /\ relay[y].ver = v
        /\ relay[w].token = relay[x].token
        => w = x

\* No step takes an event out of a terminal status, moves a cursor back or
\* reuses a fencing token.
NoStepBack ==
    [][\A a \in Aggregates, v \in Versions :
          /\ status[a][v] \in {"delivered", "isolated"}
                => status'[a][v] = status[a][v]
          /\ token'[a][v] >= token[a][v]
          /\ \A c \in Consumers : cursor'[c][a] >= cursor[c][a]]_vars

\* Every published event is eventually acknowledged, or set aside as
\* incompatible, through crashes, faults and lapsed leases.
EventuallySettled ==
    \A a \in Aggregates, v \in Versions :
        status[a][v] = "pending" ~> status[a][v] \in {"delivered", "isolated"}

\* The relay implements exactly-once, in-order application (OrderedDelivery).
Ordered == INSTANCE OrderedDelivery WITH First <- Research, Second <- Operations
ImplementsOrderedDelivery == Ordered!Spec

-----------------------------------------------------------------------------
(* What the repository says of the program and the code does not do.       *)

==============================================================================
