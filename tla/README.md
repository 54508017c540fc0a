# Verification of the stock forecasting platform

TLA+ specifications of the parts of `src/stock_forecasting` whose correctness
depends on the order in which concurrent processes, transactions and failures
meet, or on rules that are too many to test together. TLC checks them on small
instances; every safety property, action property and refinement that holds there
is also proved with TLAPS for every value of the constants. Paths below are
relative to the repository; `platform/…`, `workflows/…` and the bare file names are
under `src/stock_forecasting/`.

## The system

The platform ingests prices, trains and governs models of stock price trends,
publishes forecasts of each trading day (EOD batches), and shows them to
researchers through REST, a CLI and Dagster. All state is in PostgreSQL (through
SQLAlchemy, at the default READ COMMITTED), in an encrypted secret store and in a
write-once object repository. There are several processes: the REST server, CLI
commands of operators, scheduled runs, and relay processes. They share only the
stores, and each is started with an API key, a policy set and a clock of its own.

| Component | State it keeps | Operations | Hard behaviour | What makes it correct |
|---|---|---|---|---|
| **Outbox and relay** `platform/outbox_relay.py` | `outbox_events`, `outbox_dispatch` (status, claim, fencing token, lease), attempts, incidents, per-consumer processed markers and cursors | publish (in the publishing transaction), `relay`, acknowledge, failure | several relay processes, lapsed leases, crashes between commits, retries | an event takes effect exactly once per consumer, in version order; delivered only when all consumers have it |
| **Source credentials** `source_credentials.py`, `operations_control.py` | append-only version ledger, cleanup queue, secret store, pins and cached leases of ingests | set, rotate, revoke, validate, drain the queue, resolve, check out | concurrent requests, two stores without a common transaction, lost answers, crashes | no secret is lost or leaked; a verdict is about the secret it was given for |
| **Model governance** `model_governance.py`, `bootstrap_workflow.py` | append-only ledger of each model family | candidate, gates, approval, shadow runs, promotion, rollback; projection | operators act on stale reads, expiry, repeated decisions | every promotion rests on standing evidence; rejection and bootstrap closure are final; the projection agrees |
| **Production EOD workflow** `production_eod.py`, `ServingAssignmentResolver` | serving pins, publications (work attempts, predictions, records, events), breach notifications | run a batch, replay, pin, publish, notify | competing runs of one batch, promotions under way, policy withdrawn meanwhile, failed runs | one assignment per batch, one publication per batch and key, retry gets through |
| **Authorization policy** `authorization.py`, `authorization_repository.py`, `formal_source_rights.py` | installed policy sets, audit rows | build a set for a key, install it, evaluate an intent, re-evaluate an earlier decision | sets for doubles and for live providers share datasets and principals; rights expire between collection and reading | deny by default; live calls rest on the providers' answers; a right is never older or wider than the set in force |
| **Data supply** `data_supply.py`, `price_eligibility_query.py` | eligibility rows with checkpoints, artifacts, objects | ingest, continue from a checkpoint, query a listing | resent commands, workers that die between object and row, stale checkpoints | a checkpoint never runs ahead of its data; what is called qualified may be used |
| **Market data providers** `alpaca_market_data.py`, `finmind_market_data.py`, `market_data_reference.py`, `provider_http.py` | none beyond a call | collect a partition, decode it, probe a credential | pagination, partial answers, tickers that change hands, refusals in the middle | what is published is whole and of nobody else; an accepted key stays valid |
| **Historical evidence** `historical_evidence.py` | receipts, attestations, verifications, claims, derived artifacts, reports, impacts | issue, qualify, supersede, revoke, expire, verify, project | one transaction per artifact, overlapping issuers, dead commands, changed files | the first observation settles; what is shown qualified is whole; what has ended stays ended |
| **Price qualification** `price_qualification.py` | source basis evidence, qualification gates | register basis, register gate, ask for formal availability | the policy of the gate is not the policy of the claim | formal use is earned under one policy |
| **Fixture EOD workflow** `workflows/fixture_eod.py`, `fixture_scenarios.py` | events, records, works, artifact references, files | execute a scenario, replay it | two stores, one number per listing, reused keys, other clocks and policies | whole publications, closed lineages, answers about what is stored |
| **Research query** `research_query.py` | audit rows | listing, predictions, history | records published between authorization and read | nothing is shown that was not authorized |
| **Object repository** `platform/object_repository.py` | content and metadata, write-once | put, open | a crash between content and metadata, altered or lost files | a reader never takes half an object or another content for it |
| **Notification delivery** `operations_control.py` | one delivery row per batch | deliver a breach notification | sent before it is recorded | — |
| **Forecasting** `forecasting.py`, `forecast_lab.py` | artifacts | fit, predict, backtest | numerical | — |
| **Adapters** `adapters/`, `cli.py` | none | translate requests | — | — |
| **Acceptance bundles** `acceptance*.py`, `ticket_*` | none | drive the system, export evidence | — | — |

How they interact: a production or fixture run publishes its rows *and* its outbox
event in one transaction; the relay brings the event to two projections
(research, operations), each with its own transaction. Governance appends the
assignments from which a production run pins the model of its batch. The
authorization policy is evaluated by every workflow, in part again inside the
publishing transaction, and the rights of ingested rows again when they are read.
An ingest resolves its secret from the credential ledger, calls a provider client,
and stores what the client decoded. The historical evidence of a source's archive is
qualified separately; the qualification gate ties a claim to the archived terms of
the source, and the eligibility query asks whether such a gate stands.

## Modules

| Module | What it is |
|---|---|
| `OrderedDelivery` | abstract: exactly-once delivery in order |
| `OutboxRelay` | the relay, implements `OrderedDelivery` |
| `CredentialLifecycle` | abstract: the life of one credential |
| `SourceCredentials` | the credential operations, implements `CredentialLifecycle` |
| `ServingHistory` | abstract: who serves a model family |
| `ModelLifecycle` | the governance commands and the projection, implements `ServingHistory` |
| `BatchServing` | abstract: one assignment and one publication per batch |
| `ProductionEod` | a run from its start to its publication, implements `BatchServing` |
| `SourceRights` | operators: identities, policy sets, intents, current rights |
| `PriceSupply` | ingests and eligibility queries over `SourceRights` |
| `FixtureEod` | the fixture workflow, its files and the research query over `SourceRights` |
| `MarketReference` | operators: what a collection's answers mean |
| `ProviderCollection` | a call of a provider client over `MarketReference` |
| `HistoricalDocuments` | operators: checks of the attested documents |
| `HistoricalEvidence` | the evidence workflow over `HistoricalDocuments` |
| `PriceQualification` | terms, gates and formal availability beside `HistoricalEvidence` |
| `MC…` | instances for TLC, one configuration per run |
| `…Proofs` | the theorems about a component and their proofs: `OutboxRelay`, `SourceCredentials`, `ModelLifecycle`, `ProductionEod`, `PriceSupply` (with `SourceRights`), `ProviderCollection` (with `MarketReference`), `PriceQualification` (with `HistoricalEvidence` and `HistoricalDocuments`), `FixtureEod` |

Operators are named after the function, table or column they model; the map from
each definition to its lines is in `PROJECT.json`. Definitions marked *Mutant* or
*a plausible slip* in a module are deliberately broken variants of a definition that
follows them; nothing uses them, they document which mistake each property would
detect.

### OutboxRelay

An event is a pair (aggregate, version); `status`, `claimedBy`, `token`, `leased`
are the columns of `outbox_dispatch`, `processed` and `cursor` the tables of the
two consumers, `relay[w]` the local variables of the call that process `w` is
executing. An action is one transaction, or one statement of a consumer
transaction when another process can act before the next (`ConsumeRead`,
`ConsumeWrite`, `ConsumeRecheck`, `ConsumeCommit`). `effects` is not in the code:
it counts committed effects. Each process compares a lease with its own clock, so
`Lapse` is allowed at any time; while the owner is still working it counts as a
disturbance, like a crash, a fault, and a call for an event out of order.

### SourceCredentials

`ledger` is `source_credential_versions` of one provider, `cleanup` the queue of
retired secrets, `secrets` what the encrypted store holds, `call[o]` the request
of operator `o`. Reading the current version and inserting the next are separate
steps: only the primary key protects the ledger. Each call of the secret store can
fail; the answer of a commit can be lost (`CommitFails`); a request can die. The
resolver (`Resolve`, `Checkout`, `CloseWindow`, `Expire`) keeps a pin and a cached
lease per ingest. Encryption and what the provider checks are reduced to whether a
secret is genuine; `ProviderCollection` has the probe behind that verdict.

### ModelLifecycle

The state is the ledger of one family and the clock. A command reads the ledger
several times and appends once, if the version its caller expects is still the
last; because a ledger only grows, a command is one action at its append. All of
its reads see exactly the expected version when callers expect versions they have
observed. `Lookahead` says how many versions ahead of time a caller may name
one; the runs use 0. The `occurred_at` of a command is trusted by the code and by
the model. One version of the gate and approval policies is modelled; a rejection
binds candidate, artifact, report and policy version, here the candidate.

### ProductionEod

`pin` is `serving_production_assignment_pins`, a publication the rows that one
publishing transaction inserts. `Start` is the clock check, `Prepare` the replay,
the data and the choice of an assignment, `PutPin` the insertion of the pin,
`ReadPublished`, `Insert` and `Commit` the publishing transaction: what it looks
up, the inserts that wait for other transactions' keys, and the last inserts and
the commit. A denied policy, a failing resolver and a dead process have the same
effect, the run ends: `Fail`. Promotions append assignments while runs are under
way, with the time at which they were sent.

### SourceRights

Pure operators. `Loadable` is what a key file must be, `Build` the five builders of
policy sets (blocked, pending, engineering, qualified and fixture) for an
identity, `ResolveRights` and `Evaluate` the resolution of an intent with its deny
reasons in the order of the code, `CurrentRights` the re-evaluation of a stored
collection decision against the sets in force. A version is its own content, so a
set that cites a version cites its content; identifiers and hashes disappear that
way. A policy dataset has one distribution, named like it. Six required uses are
two (`keep`, `show`), because the code asks for all six, or for the display alone.

### PriceSupply

`materialize` run by concurrent workers, and `get_listing` over what they wrote.
`rows` is `price_research_eligibility` in sequence, `artifacts` and `objects` the
canonical artifacts and the repository, `egress` the `source.egress` events,
`installed` the policy sets in the database, `work[w]` the local variables of a
worker. `Begin` is the authorization of the command and of its bundle member,
`CheckpointMismatch`/`ContinueFromCheckpoint` the comparison with the durable
checkpoint, `Load`/`LoadRefused` what the client returned (`ProviderCollection`),
`PutVerified` one object, `PublishPartition` the transaction that names all of it.
A worker may die anywhere. `Initialize` is the CLI command that installs a set for
the reader and then for the adapter. `GetListing` is one step: it reads at one
instant, except that the credential's readiness and the registered gate are
unrelated choices (`SourceCredentials`, `PriceQualification` know them). One listing;
a feed is a mode of one source; a revision is a content, and the checkpoint after it
is that content's hash, the revision itself.

### MarketReference and ProviderCollection

`MarketReference` is the reference graph and the calendar (which listing a symbol
meant on a day), the decoders of both providers, the completeness of members and
`QuarantineReason`. `ProviderCollection` is one call of a client: `todo` holds the
queries still to send, `page` and `seen` the pagination, `got` the answers. Every
answer is a step and is taken from a small set of contents for the query
(`PagesOf`), so the provider may change its mind, refuse, repeat a token or break
off between any two. A collection ends in a published or quarantined partition or
in a refusal; a probe (`ProbeStarts`, `LiveProbeStarts`) ends in a verdict. Rows
keep their symbol, day and whether their value is usable; wire formats, decimals
and adjustments are left out.

### HistoricalDocuments and HistoricalEvidence

`HistoricalDocuments` is what is computed from the evidence, the calendar and the
listing reference: listing failures in the order of the code, labels, exclusions,
the reconstruction contract. `HistoricalEvidence` has the commands: `Issue`,
`Observe`, `Commit`, `ReadFirst`, `Attest` (the collector), `Blocked`, `SelfAsserted`,
`Quarantine`, `Qualify` and then one `Publish` per artifact, `RecordStatus` (revoke and
expire). A trace is a command in progress and may stop between two artifacts.
Artifacts are sets of contents, because an id is the hash of the content; where the
code reads references in order (receipts, reports, impacts) their place is kept.

PostgreSQL draws the sequence number of a reference when the row is inserted and
shows the row when its transaction commits. Receipts are read by that number to find
the first one, so the two are two steps: `Observe` draws the place (`drawn`), `Commit`
puts the receipt at it, and until then nobody sees it. `receipts` is therefore a
function from the committed numbers, with gaps where a command is still open or died.
`ReadFirst` looks the first receipt up and `Attest` publishes in a transaction of its
own. Reports and impacts take their place and appear in one step: what is stated of
them (`ShownQualifiedIsWhole`, `EndedStaysEnded`, `FormalUseIsEarned`) holds of every
report, and asks of impacts whether there is one, so it does not depend on which of two
overlapping ones came first.

`judges` is what the audit says about who published a verification. `store` says of
each document's file whether it is intact, altered or lost. `IsUsable` and
`IsFormallyReconstructable` are the claim verifier, `Shown` the projection.
`setting`, chosen at the start, bounds a behaviour: which documents, policies and
traces it may use.

### PriceQualification

`bases` is the evidence of a source's terms, `gates` the registered gates in order.
`RegisterGate` is the registration with all its checks; the manifest's own archive
is one object that is already stored. `FormalQualificationAvailable(served, at)` is
the question, with `None` for a workflow without a clock, which is how
`PriceEligibilityQuery` composes it (`QueryClock`).

### FixtureEod

`run[w]` is a call of `execute`. `Begin` authorizes, `WriteOnce` writes one file
(content or metadata of a raw artifact), `Number`, `Compare` and `Commit` are the
publishing transaction split where another process may act: the event's version,
the comparison with an existing record and the lookup of works and references, and
the inserts. A transaction that finds a conflict or loses a unique key, and a
process that dies, leave the same state, `Die`. An artifact is ⟨kind, content, the
artifacts it cites⟩. `Ask`, `AuthorizeDataset` and `Show` are the three queries of
`ResearchQuery`, one authorization at a time.

## Runs

Properties are stated with a comment in the modules. A `violation` run shows a
place where the code does not do what the repository says of it.

| Run | Instance | Shows |
|---|---|---|
| `relay_safety` | 3 relay processes, one not upgraded, 1 listing with 2 versions, 3 claims per event, 2 disturbances | effects exactly once, contiguous projections, delivery complete and acknowledged by the last claim, one holder per claim, no step back, `OrderedDelivery` |
| `relay_liveness` | 2 processes, 2 aggregates (one refused by everybody), 1 disturbance | each event is delivered or isolated in the end |
| `credential_safety` | 2 requests, a genuine and a wrong secret, 3 versions, 2 failures | no loss, no leak, verdicts belong to their secret, `CredentialLifecycle` |
| `credential_cleanup` | 1 operator that comes back, 1 ingest, an expiring secret, 5 versions, 1 failure | each queued secret is removed in the end; a cached lease is of the validated version that is pinned |
| `governance_safety` | 2 candidates, 2 gate evidences, 2 shadow runs, approvals valid for 2 days, ledgers of 16, 9, 6, 5 events with 0, 1, 2, 3 setbacks | vetted promotions, final rejections, closed bootstrap, the projection agrees, `ServingHistory` |
| `production_serving` | 2 runs, 2 batches, 3 commands of which two share a key, 2 assignments, any number of failures | one publication per batch and key, named assignments take effect where they say, `BatchServing`, pinned batches are published in the end |
| `supply_safety` | 2 workers, 3 policy sets, live provider and engineering double, 2 feeds, 1 revision, 2 commands begun | checkpoints are backed, live calls are granted, what is called qualified is usable |
| `supply_once` | the same with one set and one command delivered twice | *violation*: both deliveries publish |
| `collection` | both providers, complete and candidate evidence, 2 listings that exchange a ticker, 2 page tokens, at most 2 pages | published partitions are whole and of nobody else; an accepted key stays valid |
| `history` | 1 listing, 3 principals, 2 commands at once on one history; 4 kinds of documents with files that change or disappear; policies put in force one after the other | the first observation settles, qualified is whole, formal use is earned and judged by another than the collector, ended stays ended |
| `gate_query` | the same | *violation*: what the workflow calls formally available the query never does |
| `fixture` | 2 processes, 2 settings (key, policy, clock), 4 commands of which 3 begin, 3 questions | whole and numbered publications, closed lineages, answers about the stored record, audited reads |

### Why the bounds are enough

*Relay.* Two processes are needed for every race; the third is the one that does
not accept the event. Two versions give an order to violate, three claims per
event allow a worker to be superseded and the superseding one as well, two
disturbances let one failure hit the recovery from another. Aggregates share
nothing in the safety properties, so one is enough there; the liveness run needs a
second one, because the head of the order can starve what is behind it.

*Credentials.* Three versions are a set, a rotation and a revocation, or two
rotations racing each other; the cleanup run has five versions for two full rounds
of set, validate and revoke under a running ingest. Two failures let the undo of a
failed publication fail. Two requests that drain the queue at once are in the
safety run only.

*Governance.* A promotion takes seven events (candidate, gate, approval, two runs,
transition, assignment) and a rollback two. Sixteen are enough for both candidates
to be promoted and a rollback. A *setback* is an event that
repeats or refuses something; three of them cover rejection, new gate and new
approval. Two shadow runs stand for five: the code counts and compares
neighbours. Approvals last two ticks, so that they expire within the run.

*Production.* Two runs race for the pin and for the publication; two assignments
tell an old model from the current one; the second batch has the later cutoff, so
that a batch starts between them. Assignments name the second batch or "the next".
A key is used for two batches, since callers choose keys.

*Supply.* Two commands fill both feeds, or race for one; a listing needs both feeds
to be qualified, and two rows are the fewest with an old and a new decision. One
revision suffices because contents are only compared with themselves. The adapter's
key lasts one tick and the reader's three, so that rights end between the collection
and the query. Pending, engineering and qualified sets are the three that
`materialize` and the query may be given for the same datasets and principals.

*Collection.* One ticker that one listing gives up and another takes over, with a
day before and after; two sessions and a day without; a page more than the limit and
a token that returns. Each query may be answered with whole, partial, foreign and
duplicated contents.

*History.* The code wants twenty sessions before the anchor and horizons of 1, 5 and
20; here it is two and one: positions are only compared. The three settings separate what
multiplies without meeting: overlapping commands on one good document, all documents
and damaged files one command after the other, and policies put in force in turn.
A qualification, its replacement and a revocation need four commands.

*Fixture.* Two processes race for a version, a record, a work and an artifact; the
four commands share a record between two keys and a key between two markets and two
scenarios; the third command is the repetition by a process with another clock, key
or policy. One question of each kind.

### Fairness

*Relay*: operators or a scheduler keep calling `relay --once` on each process, a
call that is running goes on, and a lease under which nobody works any more
lapses. *Cleanup*: a request that is running goes on, and requests keep coming:
nothing but the next request drains the queue. *Production*: a run goes on until
it returns (weak fairness of `Step`), and whoever wants a batch sends its command
again until it is published (strong fairness of `Resend`, since both runs may be
busy at any moment). Nothing forces a run to fail or prevents it from failing:
`EventuallyPublished` assumes that failures stop some time. Without these
assumptions the code promises nothing: none of these loops is in the program, they
are in the schedules and the hands of operators. The other modules state no
fairness: ingests, qualifications and fixture commands are repeated by nobody, and
the code owes them no progress. `CHECK_DEADLOCK` is off where a bound ends the
behaviours.

## Proofs

All properties of the passing runs but the three liveness properties are theorems,
for every value of the constants that the named assumptions of the modules allow:
any number of processes, keys, versions, documents and failures. Five theorems about
governance also have the hypothesis `Lookahead = 0`, explained below. The assumptions are
`ASSUME`s in the modules, so TLC evaluates them in every run. Each invariant below
was checked by TLC, on the instance of its run, before it was proved.

| Component | Theorem | Says |
|---|---|---|
| Relay | `TypeCorrect` | `Spec => []TypeOK` |
| | `ClaimsExclusive` | `Spec => []OneClaimHolder` |
| | `LastClaimDelivers` | `Spec => []DeliveredByLastClaim` |
| | `ProjectionContiguous` | `Spec => []ContiguousProjection` |
| | `ExactlyOnce` | `Spec => []EffectsExactlyOnce` |
| | `DeliveryComplete` | `Spec => []DeliveredIsProjected` |
| | `NeverStepsBack` | `Spec => NoStepBack` |
| | `RelayImplementsOrderedDelivery` | `Spec => Ordered!Spec` |
| Credentials | `TypeCorrect` | `Spec => []TypeOK` |
| | `CurrentStored` | `Spec => []CurrentSecretStored` |
| | `NothingLeaks` | `Spec => []NoSecretLeaks` |
| | `VerdictOfItsSecret` | `Spec => []ValidIsGenuine` |
| | `LeasesPinned` | `Spec => []LeaseOfValidatedPin` |
| | `RefinesCredentialLifecycle` | the ledger implements `CredentialLifecycle` |
| Governance | `TypeCorrect` | `Spec => []TypeOK` |
| | `BootstrapStaysClosed` | `Lookahead = 0`: `Spec => []BootstrapIsClosed` |
| | `RejectionStands` | `Lookahead = 0`: `Spec => []RejectionIsFinal` |
| | `PromotionsVetted` | `Lookahead = 0`: `Spec => []PromotionIsVetted` |
| | `ProjectionTells` | `Lookahead = 0`: `Spec => []ProjectionAgrees` |
| | `RefinesServingHistory` | `Lookahead = 0`: the ledger implements `ServingHistory` |
| Production | `TypeCorrect` | `Spec => []TypeOK` |
| | `OnePublication` | `Spec => []PublishedOnce` |
| | `NamedBatchFirst` | `Spec => []EffectiveFrom` |
| | `RefinesBatchServing` | runs, pins and publications implement `BatchServing` |
| Supply | `CheckpointsBacked` | `Spec => []CheckpointBacked` |
| | `LiveCallsGranted` | `Spec => []LiveCallsAreGranted` |
| | `QualifiedUsable` | `Spec => []QualifiedIsUsable` |
| Collection | `PublishedWhole` | `Spec => []PublishedIsWhole` |
| | `KeyStaysAccepted` | `Spec => []AcceptedKeyStaysValid` |
| History | `FirstObservation` | `Spec => FirstObservationSettles` |
| | `ShownWhole` | `Spec => []ShownQualifiedIsWhole` |
| | `FormalUse` | `Spec => []FormalUseIsEarned` |
| | `EndedForGood` | `Spec => EndedStaysEnded` |
| Fixture | `PublicationWhole` | `Spec => []PublicationIsWhole` |
| | `LineageComplete` | `Spec => []LineageClosed` |
| | `AnswersStored` | `Spec => [](AnswersAreRecords /\ answers \subseteq records)` |
| | `ReadsAudited` | `Spec => []ReadsAreAudited` |

### The arguments

*Relay*, four parts, each resting on the ones before. `TypeInv` is the types and what
the stage of a call says of its other fields (`CallOK`). `ClaimInv` is the status of
an event against its versions (`StatusInv`), tokens that calls remember are not newer
than the event's (`TokenInv`), and `OneClaimHolder`: exclusion is inductive because a
claim takes a token that no call has. `AttemptInv` numbers the attempts: a call that
has recorded one finds it under its own token (`AttemptOwned`), and once an event is
delivered no call that goes on claiming holds its token any more (`WinnerGone`), so
nobody can add a second delivered attempt. `ProjectionInv` is contiguous
projections, effects equal to markers, delivered implies projected, and
`CallProjected`, what a call at a given stage knows of the projections. The last one
is the strengthening that matters: a call that is past a consumer found or committed
its marker, and the one that holds the row lock of a consumer found the cursor one
below its version. It holds although claims may be superseded at any time, which is
why exactly-once delivery does not depend on fencing: the marker and the locked
cursor row carry it alone. The refinement maps `published`, `status` and `effects` to
themselves; `ConsumeCommit` is `Apply`, `Ack` is the delivery, `Isolate` the
isolation, and everything else stutters.

*Credentials*. `CallOK` says what a request knows at each stage: the secret it has
put is untouched by anybody else, unless its publication committed after all; what
it is about to remove was queued; the version it read allows its command if it is
still the last. `HoldersApart`: no two requests have the same secret in hand.
`StoreOK`: the current secret is stored and not queued, and nothing done is stored.
A step of one request must leave the others' `CallOK` alone (`Keeps`), which is
where the races are decided: the ledger's primary key, and the fact that a queued
secret is never current again. In the refinement the last version of the ledger is
the state of the credential.

*Governance*. The ledger only grows, so its invariant says of each event what held of
the events before it when it was appended (`LedgerEarned`), and an append has to
establish it for one event only; the properties then follow from the ledger by
themselves. `Timely` is that no shadow run is dated after the clock. The hypothesis `Lookahead = 0`
is that a caller expects a version that exists: commands come from operators who
have been shown one. It is needed: a command that names a version ahead of time is
decided on reads that may be older than the event it follows, and with `Lookahead = 1`
TLC refutes the first three invariants and the refinement. (It does not refute
`ProjectionAgrees` there, whose proof rests on the same invariant.) `TypeCorrect` does
not need it.

*Production*. `RunsKnow` says that the pin of a batch agrees with what a run has
computed, and that a run at its commit still finds the batch unpublished;
`WritersApart` that the keys in the transaction's inserts keep other writers of the
batch out until it commits. `EffectiveFrom` is kept because a pin takes an assignment
that names another batch only after that batch has been pinned with it, and pins are
never changed. The refinement maps a batch to
the assignment of its pin and to the one its publication was made under.

*Supply*. `WorkersOK`: what a worker has left to store, together with what is stored,
is all that the row it is going to write will name; so a worker may die anywhere.
`InstalledOK` and the types of decisions (a decision is one that some set in force
for some key gave at some time) carry the rights: with the reasons of `Evaluate`
taken in order, an allowed decision about a live provider can only come from the
qualified set, for an identity that qualifies. `QualifiedIsUsable` then follows from
`CurrentRights` at the time of the answer.

*Collection*. `PublishedWhole` goes through the decoders: no issue means that every
row was identified (`AllIdentified`), an identified row belongs to exactly one
listing (`OneListing`) and gives its price (`RowDecoded`), and each price comes from
such a row (`PriceOfRow`); completeness gives a row for each listing and session of
the only calendar; `NoReason` turns a partition without a reason to quarantine into
these hypotheses. The state machine adds that what was published is the partition of
the answers at hand (`PublishedOK`).

*History and qualification*. `AttestationsOK`: an attestation cites a committed receipt
of its own content, no later than itself. `PlacesOK`: a place that an open insert drew
is nobody else's and no committed receipt stands there, so a commit changes no receipt
there is. `SettledStays` is the lemma behind `FirstObservationSettles`: a first receipt
can be displaced only by an open insert below it (`Outstanding`), since new inserts draw
higher places, and can be contradicted only by an issuer that has already read another
(`OtherwiseRead`), since whoever reads now reads the least place. `WorkersOK`:
a command has published a prefix of the artifacts of its claim, so that a report or
an impact, published last, finds everything before it, and who judges the claim did not
collect its evidence; `JudgesOK` keeps that for what has been published. `ReportsOK`, `ClaimsOK` and
`BasesOK` say what reports, claims and bases were made of. Each step is shown to let
the state grow (`Grown`), and everything in the invariant is preserved by growth.
`EndedStaysEnded` follows from that and from the evidence's window: a claim stops being
usable by an impact or by time, and neither is ever undone.

*Fixture*. `Together`: the event, record and work of a key are there or none of them
is. `NumberedOK`: the version a transaction has taken is one that was given or the
next, so that of two that took the same one the unique key stops the second; what a
process found of its key it will find again. `StoringOK`: the files not yet stored are
still on the list. `QueryOK`: every dataset the question is about has been allowed,
with the decision audited, or is still to be asked for.

### What the constants are supposed to be

- `RelayAssumption`, `CredentialAssumption`, `FixtureAssumption`: `None` is none of
  the identifiers, and bounds are numbers.
- `ProductionAssumption`: cutoffs and bounds are numbers, `NextBatch` is no batch,
  `None` is no pin.
- `LifecycleAssumption`: durations and limits are numbers, and no limit on events is
  above the one without setbacks.
- `RightsAssumption`: the longest lifetime of a key is positive, and source distributions are not
  called like the system's own datasets (they are fixed strings in the code).
- `SupplyAssumption`: two distributions, loadable keys with dates, collectors apart
  from the reader, one environment.
- `CollectionAssumption`: graphs are what `MarketDataReferenceGraph.__post_init__`
  and the decoders' constructors accept, finite, and a client has at most one
  calendar (its parameter is one, or `None`).
- `HistoryAssumption`, `QualificationAssumption`: dates are numbers, evidence is
  about known listings, a policy is among the members of its basis and the members of
  one basis share its access and terms (an id is the hash of the policy).

### What the proofs changed

- `PromotionIsVetted` used to say that between the approval and the promotion no gate
  decision fails or is on other evidence. Its proof did not go through, and rightly: a
  gate may fail after the approval and pass again on the approved evidence before the
  promotion, since `promote` and the shadow runs look at the decision in force only.
  The run had not shown it because the path needs more repeated events than its
  limits leave. The property now says what the code ensures: the decision in force has
  passed on the approved evidence at each of the runs and at the promotion.
- `PublishedIsWhole` now asks for FinMind's prices only that the row be of a day with
  trading; Alpaca's decoder looks at no value. `CollectStarts` refuses a listing that
  the graph does not know (`market_data_reference_graph_listing_missing`), which the
  model had left out because no instance asked for one.
- Agreement on the first receipt was once proved of a model in which a receipt took
  its place and appeared in one step. With the draw, the commit and the read apart it is
  false (see *Historical evidence* below); `FirstObservationSettles` says what is left,
  and both halves of its condition are needed: without either TLC refutes it.
- `HistoricalEvidence` counts reports and impacts with sets of places instead of
  `SelectSeq`, about which the prover knows too little.

### What is only model-checked

The liveness properties (`EventuallySettled`, `QueuedIsRemoved`,
`EventuallyPublished`): liveness under fairness and `ENABLED` are out of the reach of
the prover. Induction over data is as well, so what a recursive definition computes
for every input cannot be proved; the modules contain none. The two properties that
the code violates are refuted by TLC.

## What the repository says and the code does not do

1. `supply_once`: a command names the checkpoint it continues from. The checkpoint is
   compared before the source is called (`data_supply.py:653`) and never again, and
   nothing in the ledger is unique per trace or checkpoint: two deliveries of one
   command publish two rows. `docs/design/service-boundaries-and-api-contracts.md:544`
   says that a command delivered again publishes nothing again.
2. `gate_query`: the eligibility query composes the qualification workflow without a
   clock (`price_eligibility_query.py:130`), and without one
   `formal_qualification_available` is False for every gate
   (`price_qualification.py:559`), where
   `tests/contracts/test_price_qualification.py:327` expects True of the same
   manifest and sources.

### Noted without a run

Disagreements and sharp edges met while reading the code; no run states them.

*Relay.*
- The check of the fencing token before a consumer commit locks nothing
  (`platform/outbox_relay.py:732`), so a superseded worker may commit, against
  `docs/design/data-platform-architecture.md:138`. The effect is still exactly once.
- In a rolling upgrade an event is isolated (`platform/outbox_relay.py:509`) after
  another process has committed effects of it; `docs/operations/ticket-03-compose.md:53`
  says it is isolated before any consumer effect.
- `docs/operations/ticket-03-compose.md:64` says the relay takes the oldest pending
  event, `_load_event` orders by aggregate id, so an aggregate whose events are
  deferred each time delays those behind it (line 351).

*Credentials.*
- Revoked, then set again, a credential leaves the cached lease of the revoked secret
  with a running ingest until its window closes (`source_credentials.py:787`).
- A validation repeated with the trace of the first finds the first one's pin and
  validates that version (line 528).
- A commit whose answer is lost, followed by a failed withdrawal, queues the secret
  that has become current (`platform/state_store.py:1122`).

*Governance and production.*
- A gate decision does not lapse with the policy it was taken under: a second
  candidate is promoted on a bootstrap gate (`model_governance.py:3229`,
  `docs/design/model-lifecycle-and-promotion.md:145` and 351).
- `docs/design/model-lifecycle-and-promotion.md:231` wants a new report and gate after
  an approval has lapsed; the code approves the same gate again.
- `effective_from_batch_id` may name a batch that has started under an older
  assignment (`model_governance.py:3413`, 2056). The new assignment then never takes
  effect and later batches end with `production_assignment_not_effective`.
- The replay of a publication looks it up by trace id (`platform/state_store.py:727`):
  one trace id for two batches finds two events.
- A breach notification is sent before its delivery is recorded
  (`operations_control.py:120`): a crash in between sends it again, and of two
  deliverers with different outcomes the second fails after it has sent.

*Supply and rights.*
- An expired key file still loads. Identities are checked when used.
- Rows collected from a double still count when the reader's set is the qualified
  one.
- `valid_until` of a decision does not foresee a version that starts inside its
  window and conflicts; reading evaluates again and notices.
- The decision is not taken again when the partition is loaded or published.
- A quarantined partition moves the checkpoint, so it is not fetched again.
- An older evaluation that commits later hides a newer one: the query takes the
  newest row.
- The query reads rows, rights, credential and gate one after the other, not in one
  snapshot.

*Collection.*
- Alpaca's bars are not checked for plausibility, a negative `Retry-After` raises
  `ValueError`, and a listing without an alias on one of the sessions never completes.
- Actions under a ticker that was reused, or of a listing that was not requested,
  quarantine the partition as `identity_ambiguous`.
- An unreadable answer with status 200 makes a key `valid` in the simple probe and
  leaves it `configured` in the live probe.
- An expected action counts by its id, whatever listing it came under.
- Prices on days without a session are published. The evidence the application is
  built with (candidate graph and calendar) always quarantines.

*Historical evidence.*
- Overlapping issuers of one document can attest different first receipts on
  PostgreSQL (`compose.yaml:34`). The sequence of a reference
  (`platform/schema.py:82`) is drawn at the insert (`platform/state_store.py:1702`) and
  seen at the commit, and the first receipt is the one with the least sequence that can
  be seen (line 1894): A draws 1, B draws 2, B commits, reads its own receipt as the
  first and attests it; A commits, and from then on A's is the first. Also, an issuer
  may publish what it read before another committed (`historical_evidence.py:175` and
  187). `.scratch/taiwan-us-stock-trend-forecasting-mvp/issues/08-dual-market-historical-evidence-backfill-qualification.md:29`
  says that new attestations keep the id and `first_observed_at` of the first receipt by
  the platform's append sequence. TLC finds two attestations that disagree after ten
  steps when asked that all agree; `FirstObservationSettles` is what holds.
- The application composes the verifier with the time the process started
  (`application.py:141`), so expiry is judged as of then.
- `supersede` publishes the new claim before the impact on the old one: in between
  both are usable, and after a crash they stay so.
- Of two reports on a claim under two traces, formal reconstructability is lost; any
  refused attempt hides a qualified claim in the projection.
- Separation of duties compares with the collector of this attestation only, and the
  attestation of a revoked claim may be qualified again.
- A missing file and an invalid decimal raise out of the workflow and leave no
  report; an object that was altered keeps its metadata, and `is_usable` never opens
  it again.
- `verify_training_lineage` asks for a digest that published snapshots do not have.

*Fixture.*
- With the system clock a repeated command conflicts, because the time of
  observation is in the payload; `tests/acceptance/test_taiwan_fixture_workflow.py:602`
  repeats it with a fixed clock. A renewed key or policy has the same effect.
- A conflict rolls the audit row of the allowed decision back with everything else.
- One idempotency key cannot serve two markets: that of a work is unique across them.
- The first publications of two markets can collide on the grant both cite; one of
  them has to be sent again.

## Not modelled

- In the components above: incident and audit rows beyond what the relay's own
  decisions read; the pins of validations (by trace id); the answers of repeated
  commands; the artifact and evidence repositories of governance; the numbers and
  milestones of a production run. A batch at one cutoff with two stock pool versions
  counts as two batches.
- Supply and providers: wire formats, decimals and adjustment factors; normalized
  content beyond its revision; the stock pool manifest beyond what a qualification
  checks; key files and policy manifests as text.
- Price qualification: the registration of candidate claims, rejections and audits,
  which nothing else reads.
- Fixture: the denial of a forbidden use, one row written once; the numbers
  predicted. The production catalog of the research query is another path: it authorizes its
  catalog, reads, and then authorizes the sources of the records it has read.
- Notification delivery: one row per batch; delivery is at least once, and the
  repository promises no more.
- Forecasting: real arithmetic. Adapters, rendering, acceptance bundles: input and
  output without state of their own.

## Plan

1. Done: the eight components are modelled, checked, and their safety properties
   proved.
2. Theorems still worth having: the refinement of an abstract ingest (a ledger of
   partitions that are backed and never named early) by `PriceSupply`; that the
   listing of a symbol never depends on the order of the graph; that a reader's
   rights are those of the set in force (`CurrentRights`) as a lemma of its own;
   `PublicationWhole` as a refinement of `BatchServing` or an abstract publication.
3. To model: the answers of repeated commands in governance; the delivery of breach
   notifications with two deliverers.
4. Composition: production run, outbox and relay, so that a published batch is
   projected exactly once and in the end; an ingest with the resolver of
   `SourceCredentials`.
