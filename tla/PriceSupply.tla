------------------------------ MODULE PriceSupply ------------------------------
(***************************************************************************)
(* DataSupply.materialize run by concurrent workers over one database and  *)
(* one object repository, and PriceEligibilityQuery.get_listing over what  *)
(* they wrote.  Every process is started with a policy set and identities  *)
(* of its own choice, so a worker may still run with a set the reader's    *)
(* process no longer uses.  Each action is one transaction, one object     *)
(* write or one call of the provider (ProviderCollection).                 *)
(*                                                                         *)
(* One listing; a feed is a mode of one source, whose partition is a       *)
(* distribution (Primary) with one bundle member (Member).  A revision is  *)
(* the content of a raw partition, and the checkpoint after it is that     *)
(* content's hash: the revision itself.                                    *)
(***************************************************************************)
EXTENDS SourceRights

CONSTANTS
    Workers,       \* processes that run materialize
    Commands,      \* [trace, feed, distribution, mode], any of which may be resent
    Names,         \* the policy sets processes are started with
    Adapters,      \* identities of the source adapter, one after the other
    Reader,        \* identity of the process that answers queries
    Primary, Member,
    Revisions,     \* contents the provider can return
    Horizon,       \* bound: ticks of the clock
    MaxCommands,   \* bound: commands begun
    None

Feeds == {"current", "historical"}
Modes == {"live_provider", "engineering_double"}

ASSUME SupplyAssumption ==
    /\ Distributions = {Primary, Member} /\ Primary # Member
    /\ \A id \in Adapters \cup {Reader} : Loadable(id)
    /\ \A a \in Adapters : a.scopes = {Collect} /\ a.principal # Reader.principal
                             /\ a.environment = Reader.environment
    /\ \A id \in Adapters \cup {Reader} : id.issued \in Nat /\ id.expires \in Nat
    /\ Names \subseteq SetNames
    /\ \A c \in Commands : /\ c.feed \in Feeds /\ c.mode \in Modes
                          /\ c.distribution \in Distributions
    /\ None \notin Revisions
    /\ Horizon \in Nat

VARIABLES
    now,
    installed,   \* authorization_policy_sets: <<set, principal>>
    audit,       \* authorization_audits of collections
    rows,        \* price_research_eligibility, in sequence
    artifacts,   \* canonical_artifacts of the evaluations
    objects,     \* FilesystemObjectRepository
    egress,      \* source.egress security events: the decision that opened it
    work,        \* [w]: the command w runs
    answer,      \* the answer to a query, until the next step
    begun        \* commands begun

durable == <<installed, audit, rows, artifacts, objects, egress>>
vars == <<now, installed, audit, rows, artifacts, objects, egress, work, answer, begun>>

Idle == [stage |-> "idle"]
Identities == Adapters \cup {Reader}
Sets == [name \in Names |-> [id \in Identities |-> Build(name, id)]]

\* get_price_source_checkpoint: the checkpoint of the newest row that has one.
CheckpointOf(ledger, feed) ==
    LET with == {i \in DOMAIN ledger : ledger[i].feed = feed /\ ledger[i].checkpoint # None}
    IN  IF with = {} THEN None ELSE ledger[Max(with)].checkpoint

\* list_price_research_eligibility: the newest row of each feed.
Latest(ledger) ==
    {ledger[Max({i \in DOMAIN ledger : ledger[i].feed = f})]
        : f \in {ledger[i].feed : i \in DOMAIN ledger}}

Forget == answer' = Idle

Init ==
    /\ now = 0
    /\ installed = {} /\ audit = {} /\ rows = <<>>
    /\ artifacts = {} /\ objects = {} /\ egress = {}
    /\ work = [w \in Workers |-> Idle]
    /\ answer = Idle /\ begun = 0

Tick ==
    /\ now < Horizon
    /\ now' = now + 1
    /\ UNCHANGED <<durable, work, begun>> /\ Forget

\* The operator command that initializes a set: for the reader, then for the
\* adapter, in two transactions; it may end, or refuse the adapter, in between.
\* A set is a function of its name and of the identity, so installing it again
\* writes nothing and never conflicts.
Installable(name, id) ==
    Buildable(name, id) /\ \A p \in Sets[name][id].policies : EvidenceValid(p)
Initialize(name, adapter, both) ==
    /\ Installable(name, Reader)
    /\ both => Installable(name, adapter)
    /\ installed' = installed \cup {<<name, Reader.principal>>}
                      \cup (IF both THEN {<<name, adapter.principal>>} ELSE {})
    /\ installed' # installed
    /\ UNCHANGED <<now, audit, rows, artifacts, objects, egress, work, begun>> /\ Forget

-----------------------------------------------------------------------------
(* materialize *)

\* The basis of the policy the decision cites, else the only one the set has
\* for the source, for commands that name none.
SourceBasis(set, decision) ==
    LET bases == {p.basis : p \in PoliciesOf(set, Primary)} \ {"none"}
    IN  IF decision.basis # "none" THEN decision.basis
        ELSE IF Cardinality(bases) = 1 THEN CHOOSE b \in bases : TRUE
        ELSE "unverified"

Row(w, status, after) ==
    [feed |-> work[w].command.feed, trace |-> work[w].command.trace, status |-> status,
     decision |-> work[w].decision, before |-> work[w].expected, checkpoint |-> after,
     basis |-> work[w].basis]

\* publish_price_research_evaluation: decision, artifacts and row at once.
Publish(w, status, after, made) ==
    /\ rows' = Append(rows, Row(w, status, after))
    /\ audit' = audit \cup {work[w].decision}
    /\ artifacts' = artifacts \cup made
    /\ work' = [work EXCEPT ![w] = Idle]

Ingesting(w, stage) == work[w].stage = stage

\* A denied member leaves the primary audited as allowed; an allowed one is
\* audited before the partition is collected.
Audited(primary, member) ==
    IF ~primary.allowed THEN {} ELSE IF member.allowed THEN {member} ELSE {primary}

\* The source's rights, with the distribution the command names, then the
\* bundle member's.
Begin(w, name, id, command, expected) ==
    LET set == Sets[name][id]
        intent(d, distribution) ==
            CollectIntent(d, id.environment, distribution, command.mode, now)
        primary == Evaluate(set, id, intent(Primary, command.distribution))
        member == Evaluate(set, id, intent(Member, Member))
        decision == IF primary.allowed /\ ~member.allowed THEN member ELSE primary
    IN  /\ Ingesting(w, "idle")
        /\ begun < MaxCommands /\ begun' = begun + 1
        /\ <<name, id.principal>> \in installed
        /\ work' = [work EXCEPT ![w] =
               [stage |-> IF decision.allowed THEN "authorized" ELSE "blocked",
                command |-> command, expected |-> expected, decision |-> decision,
                basis |-> SourceBasis(set, decision),
                revision |-> None, good |-> FALSE, todo |-> {}]]
        /\ audit' = audit \cup Audited(primary, member)
        /\ UNCHANGED <<installed, rows, artifacts, objects, egress, now>> /\ Forget

PublishPolicyBlocked(w) ==
    /\ Ingesting(w, "blocked")
    /\ Publish(w, "policy_blocked", None, {})
    /\ UNCHANGED <<installed, objects, egress, now, begun>> /\ Forget

\* source_checkpoint_state_mismatch ends the command with nothing written.
CheckpointMismatch(w) ==
    /\ Ingesting(w, "authorized")
    /\ work[w].expected # CheckpointOf(rows, work[w].command.feed)
    /\ work' = [work EXCEPT ![w] = Idle]
    /\ UNCHANGED <<durable, now, begun>> /\ Forget

ContinueFromCheckpoint(w) ==
    /\ Ingesting(w, "authorized")
    /\ work[w].expected = CheckpointOf(rows, work[w].command.feed)
    /\ egress' = IF work[w].decision.mode = "live_provider"
                 THEN egress \cup {work[w].decision} ELSE egress
    /\ work' = [work EXCEPT ![w].stage = "loading"]
    /\ UNCHANGED <<installed, audit, rows, artifacts, objects, now, begun>> /\ Forget

\* Outcomes of a collection that returns no partition (ProviderCollection).
Refusals == {"credential_required", "deferred", "unavailable"}

LoadRefused(w, status) ==
    /\ Ingesting(w, "loading")
    /\ Publish(w, status, None, {})
    /\ UNCHANGED <<installed, objects, egress, now, begun>> /\ Forget

\* A partition; good when _quarantine_reason finds nothing in it.
Load(w, revision, good) ==
    /\ Ingesting(w, "loading")
    /\ work' = [work EXCEPT ![w].stage = "loaded", ![w].revision = revision, ![w].good = good,
                            ![w].todo = {<<"raw", revision>>, <<"member", revision>>}
                                          \cup (IF good THEN {<<"normalized", revision>>} ELSE {})]
    /\ UNCHANGED <<durable, now, begun>> /\ Forget

\* put_verified names an object by its content and replaces it atomically.
\* The raw partition comes first, the normalized one last.
PutOrder == <<"raw", "member", "normalized">>
PutVerified(w) ==
    LET o == <<PutOrder[Min({i \in DOMAIN PutOrder :
                              \E x \in work[w].todo : x[1] = PutOrder[i]})], work[w].revision>>
    IN  /\ Ingesting(w, "loaded") /\ work[w].todo # {}
        /\ objects' = objects \cup {o}
        /\ work' = [work EXCEPT ![w].todo = @ \ {o}]
        /\ UNCHANGED <<installed, audit, rows, artifacts, egress, now, begun>> /\ Forget

Receipts(w) ==
    {<<"raw", work[w].revision>>, <<"member", work[w].revision>>,
     <<"retrieval_receipt", work[w].revision>>}
Versions(w) ==
    IF work[w].good
    THEN {<<"normalized", work[w].revision>>, <<"dataset_version", work[w].revision>>,
          <<"adjustment_version", work[w].revision>>}
    ELSE {<<"quarantine_record", work[w].revision>>}

\* A plausible slip: the row is written before the last object.
PublishPartitionEarly(w) ==
    /\ Ingesting(w, "loaded") /\ Cardinality(work[w].todo) <= 1
    /\ Publish(w, IF work[w].good THEN "published" ELSE "quarantined", work[w].revision,
               Receipts(w) \cup Versions(w))
    /\ UNCHANGED <<installed, objects, egress, now, begun>> /\ Forget

\* A quarantined partition moves the checkpoint like a published one.
PublishPartition(w) ==
    /\ Ingesting(w, "loaded") /\ work[w].todo = {}
    /\ Publish(w, IF work[w].good THEN "published" ELSE "quarantined", work[w].revision,
               Receipts(w) \cup Versions(w))
    /\ UNCHANGED <<installed, objects, egress, now, begun>> /\ Forget

\* The process dies or raises: what it has stored stays.
Die(w) ==
    /\ ~Ingesting(w, "idle")
    /\ work' = [work EXCEPT ![w] = Idle]
    /\ UNCHANGED <<durable, now, begun>> /\ Forget

-----------------------------------------------------------------------------
(* get_listing *)

\* A reader's process knows its own identity and the adapter's it was given.
Subject(principal, adapter) == {id \in {Reader, adapter} : id.principal = principal}

\* The rights of one source row, if it is not blocked already.
RowRights(row, name, adapter, t) ==
    CurrentRights(row.decision, Primary,
        {Sets[name][id] : id \in {x \in Identities :
            x.principal = row.decision.principal /\ <<name, x.principal>> \in installed}},
        Subject(row.decision.principal, adapter), Reader.environment, t)

\* A plausible slip: the decision taken at collection stands while it lasts.
StillInWindow(row, name, adapter, t) ==
    row.status # "policy_blocked" /\ t >= row.decision.until

Withdrawn(row, name, adapter, t) ==
    row.status # "policy_blocked" /\ ~RowRights(row, name, adapter, t).allowed

\* The listing's status.
ListingStatus(found, withdrawn, valid, evidence) ==
    LET has(status) == \E r \in found : r.status = status
    IN  FirstOf(<< <<"policy_blocked", withdrawn \/ has("policy_blocked")>>,
                   <<"credential_required", ~valid \/ has("credential_required")>>,
                   <<"unavailable", has("unavailable")>>,
                   <<"deferred", has("deferred")>>,
                   <<"policy_blocked", {r.feed : r \in found} # Feeds>>,
                   <<"quarantined", has("quarantined")>>,
                   <<"policy_blocked", ~evidence>> >>, "qualified")

\* An authorized read of the latest rows, then of their rights at this instant,
\* then of valid, the readiness of the source credential (SourceCredentials), and
\* of evidence, a registered qualification gate (PriceQualification).
GetListing(name, adapter) ==
    LET found == Latest(rows)
        withdrawn == \E r \in found : Withdrawn(r, name, adapter, now)
    IN  /\ <<name, Reader.principal>> \in installed /\ found # {}
        /\ Evaluate(Sets[name][Reader], Reader, ReadIntent(Reader, now)).allowed
        /\ \E valid, evidence \in BOOLEAN :
             answer' = [stage |-> ListingStatus(found, withdrawn, valid, evidence),
                        name |-> name, at |-> now, rows |-> found]
        /\ UNCHANGED <<durable, now, begun, work>>

-----------------------------------------------------------------------------
Expectable == {None} \cup {rows[i].checkpoint : i \in DOMAIN rows}

Next ==
    \/ Tick
    \/ \E name \in Names, a \in Adapters, both \in BOOLEAN : Initialize(name, a, both)
    \/ \E w \in Workers :
         \/ \E name \in Names, id \in Adapters, c \in Commands, expected \in Expectable :
              Begin(w, name, id, c, expected)
         \/ PublishPolicyBlocked(w)
         \/ CheckpointMismatch(w)
         \/ ContinueFromCheckpoint(w)
         \/ \E status \in Refusals : LoadRefused(w, status)
         \/ \E r \in Revisions, good \in BOOLEAN : Load(w, r, good)
         \/ PutVerified(w)
         \/ PublishPartition(w)
         \/ Die(w)
    \/ \E name \in Names, a \in Adapters : GetListing(name, a)

Spec == Init /\ [][Next]_vars

-----------------------------------------------------------------------------
(* Properties *)

Kept == {"published", "quarantined"}

\* The durable checkpoint, and every earlier one, is backed: the raw partition,
\* its bundle member and its receipt are stored, whatever process died where.
CheckpointBacked ==
    \A i \in DOMAIN rows : rows[i].checkpoint # None =>
        /\ {"raw", "member"} \X {rows[i].checkpoint} \subseteq objects
        /\ <<"retrieval_receipt", rows[i].checkpoint>> \in artifacts
        /\ rows[i].status = "published" =>
               /\ <<"normalized", rows[i].checkpoint>> \in objects
               /\ <<"dataset_version", rows[i].checkpoint>> \in artifacts

\* A live provider is only ever called for a distribution that a policy made
\* from the providers' answers names, whatever set the worker was started with.
LiveCallsAreGranted ==
    \A d \in egress :
        /\ d.allowed /\ d.mode = "live_provider"
        /\ d.basis = "manifest" /\ d.distribution = Primary
        /\ \E id \in Adapters : id.principal = d.principal /\ Qualifies(id)

\* What is called qualified may still be used: both feeds hold a published
\* partition whose collection the reader's set would allow at the time of the
\* answer's evaluation, by an identity the reader can verify, in the prior
\* decision's own window - also when the worker ran with another set.
QualifiedIsUsable ==
    answer.stage = "qualified" =>
        /\ {r.feed : r \in answer.rows} = Feeds
        /\ \A r \in answer.rows :
             /\ r.status = "published"
             /\ r.decision.at <= answer.at /\ answer.at < r.decision.until
             /\ answer.name \in {"engineering", "qualified"}
             /\ answer.name = "engineering" => r.decision.mode = "engineering_double"

\* point-in-time-data-contracts.md and service-boundaries-and-api-contracts.md
\* promise that a command delivered again publishes nothing again.
PublishedOncePerTrace ==
    \A i, j \in DOMAIN rows :
        /\ rows[i].status \in Kept /\ rows[j].status \in Kept
        /\ rows[i].trace = rows[j].trace /\ rows[i].feed = rows[j].feed
        /\ rows[i].before = rows[j].before
        => i = j
=============================================================================
