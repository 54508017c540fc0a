------------------------------- MODULE FixtureEod -------------------------------
(***************************************************************************)
(* FixtureEodWorkflow.execute run by concurrent processes over one object  *)
(* repository and one database, and ResearchQuery over what they           *)
(* published.  An action is one file written, one statement of the         *)
(* publishing transaction after which another process may act, or the      *)
(* commit.  A transaction that finds a conflict, one that waits for a      *)
(* unique key and loses it, and a process that dies leave the same state:  *)
(* Die.                                                                    *)
(*                                                                         *)
(* A market is named by its dataset.  An artifact is <<kind, content, the  *)
(* artifacts it cites>>: its id is the hash of exactly that.               *)
(***************************************************************************)
EXTENDS SourceRights

CONSTANTS
    Workers,       \* processes that run fixture batches
    Commands,      \* [key, trace, market, cutoff, scenario], sent any number of times
    Settings,      \* [identity, set, observed]: what a process is started with
    Asks,          \* [kind, market, cutoff, scenario]: what researchers ask
    Horizon,       \* bound: ticks of the clock
    MaxCommands,   \* bound: commands begun
    None

FixtureSets == {"active", "suspended", "purpose-removed", "grant-missing", "policy-unknown"}
Scenarios == {"normal", "late", "duplicate", "correction", "missing",
              "missing_company_action", "missing_calendar", "withdrawal"}

ASSUME FixtureAssumption ==
    /\ \A c \in Commands : /\ c.market \in FixtureMarkets /\ c.scenario \in Scenarios
                          /\ c.cutoff \in Nat
    /\ \A s \in Settings : /\ Loadable(s.identity) /\ s.set \in FixtureSets
                          /\ s.observed \in Nat \cup {None}
    /\ \A a \in Asks : a.kind \in {"listing", "predictions", "history"}
    /\ None \notin Nat

VARIABLES
    now,
    objects,   \* files of FilesystemObjectRepository: <<file, raw artifact>>
    events,    \* outbox events of the workflow: [market, key, trace, version]
    records,   \* serving_research_records
    works,     \* ops_work_attempts, with its health assessment and predictions
    refs,      \* trace_artifact_refs; the artifacts are those some trace refers to
    audit,     \* security_audit_events
    run,       \* [w]: the command w executes
    begun,     \* commands begun
    answers,   \* the outcomes returned
    query      \* the query of a researcher

stored == <<objects, events, records, works, refs>>
vars == <<now, objects, events, records, works, refs, audit, run, begun, answers, query>>

Idle == [stage |-> "idle"]

-----------------------------------------------------------------------------
(* Rights *)

\* The catalog: an XTAI entitlement may be suspended (expired and revoked are
\* refused alike), without a purpose, without a policy; or nothing is granted.
CatalogSet(name, id) ==
    FixtureSet(id,
        IF name = "suspended" THEN "suspended" ELSE "active",
        IF name = "purpose-removed" THEN {} ELSE {"fixture_research"},
        IF name = "grant-missing" THEN {} ELSE Fixture \cup Governing,
        IF name = "policy-unknown" THEN {"xnas-fixture-eod"} ELSE FixtureMarkets)

Intent(setting, action, market) ==
    [action |-> action, dataset |-> market, purpose |-> "fixture_research",
     environment |-> setting.identity.environment, state |-> "active", uses |-> {},
     distribution |-> "none", mode |-> "live_provider", at |-> now]

Authorize(setting, action, market) ==
    Evaluate(CatalogSet(setting.set, setting.identity), setting.identity,
             Intent(setting, action, market))

AuditRow(decision, trace) ==
    [action |-> decision.action, dataset |-> decision.dataset,
     allowed |-> decision.allowed, trace |-> trace]

\* publication_version_evidence: the versions an allowed decision rests on.
VersionEvidence(setting, market) ==
    LET set == CatalogSet(setting.set, setting.identity)
        rights == ResolveRights(set, setting.identity.principal,
                    Intent(setting, "fixture_pipeline.execute", market),
                    setting.identity.classes, setting.identity.classification)
    IN  [grants |-> rights.grants, policies |-> rights.policies,
         entitlements |-> rights.entitlements]

-----------------------------------------------------------------------------
(* What a command publishes; p is [command, observed, versions]. *)

Mutation(s) ==
    CASE s = "correction" -> "correct_anchor"
      [] s = "missing" -> "remove_anchor"
      [] OTHER -> "unchanged"
Relation(s) ==
    CASE s = "duplicate" -> "duplicate"
      [] s = "correction" -> "supersedes"
      [] s = "withdrawal" -> "withdraws"
      [] OTHER -> "independent"
Incomplete == {"missing", "missing_company_action", "missing_calendar", "withdrawal"}

\* A plausible slip: the withdrawn record is not published with its withdrawal.
SupersededOnly(s) == Relation(s) = "supersedes"

RelatedBaseRequired(s) == Relation(s) \in {"supersedes", "withdraws"}

\* Evidence observed after the cutoff is never used.
UnavailableReason(p) ==
    IF p.observed > p.command.cutoff THEN "post_cutoff_evidence"
    ELSE IF p.command.scenario \in Incomplete THEN p.command.scenario ELSE "none"
WorkStatus(p) == IF UnavailableReason(p) = "none" THEN "succeeded" ELSE "blocked"

Raw(c, mutation) == <<"raw_artifact", <<c.market, c.cutoff, mutation>>, {}>>
SourcePolicy(p) == <<"source_policy_version", <<p.command.market, p.versions.policies>>, {}>>
BaseSourceRecord(p) ==
    <<"source_record_version", <<"none">>, {Raw(p.command, "unchanged"), SourcePolicy(p)}>>
SourceRecord(p) ==
    LET c == p.command
        relation == Relation(c.scenario)
        cited == {Raw(c, Mutation(c.scenario)), SourcePolicy(p)}
    IN  CASE relation = "duplicate" -> BaseSourceRecord(p)
          [] relation = "independent" -> <<"source_record_version", <<"none">>, cited>>
          [] OTHER -> <<"source_record_version", <<relation>>, cited \cup {BaseSourceRecord(p)}>>
NormalizedRecord(p) == <<"normalized_record_version", <<p.command.market>>, {SourceRecord(p)}>>
RetrievalReceipt(p) ==
    <<"retrieval_receipt", <<p.observed, p.command.key, p.command.scenario>>, {SourceRecord(p)}>>
CoverageReport(p) ==
    <<"coverage_report", <<p.command.market, p.command.cutoff,
        IF p.command.scenario \in Incomplete THEN p.command.scenario ELSE "completed">>, {}>>
Calendar(p) ==
    IF p.command.scenario = "missing_calendar" THEN {}
    ELSE {<<"calendar_version", <<p.command.market>>, {}>>}
CompanyAction(p) ==
    IF p.command.scenario = "missing_company_action" THEN {}
    ELSE {<<"company_action_version", <<p.command.market>>, {}>>}
Adjustment(p) ==
    <<"adjustment_version", <<UnavailableReason(p) = "none">>,
      {Raw(p.command, Mutation(p.command.scenario))} \cup CompanyAction(p)>>
DatasetVersion(p) ==
    <<"dataset_version", <<p.command.market>>,
      {NormalizedRecord(p), CoverageReport(p), Adjustment(p)} \cup Calendar(p)>>
DataSelection(p) ==
    <<"data_selection", <<p.command.cutoff, p.command.scenario, UnavailableReason(p)>>,
      {DatasetVersion(p)} \cup (IF UnavailableReason(p) = "none" THEN {} ELSE {SourceRecord(p)})>>
FeatureSnapshot(p) == <<"feature_snapshot", <<UnavailableReason(p)>>, {DataSelection(p)}>>
\* All identity assertions of a market are one here.
Identity(p) ==
    LET market == <<p.command.market>>
        issuer == <<"issuer", market, {}>>
        security == <<"security", market, {issuer}>>
        listing == <<"listing", market, {security}>>
    IN  {issuer, security, listing,
         <<"identity_assertion", market, {security, listing, SourcePolicy(p)}>>}
Serving(p) ==
    LET model == <<"model_artifact", <<p.command.market>>, {}>>
    IN  {model, <<"serving_assignment", <<p.command.market>>, {model}>>}

\* What is published whatever the evidence says.
Standing(p) ==
    Identity(p) \cup Serving(p)
      \cup {<<"action_grant", <<p.versions.grants>>, {}>>,
            <<"source_entitlement", <<p.versions.entitlements>>, {}>>}

\* artifacts: everything the trace is made of.
Artifacts(p) ==
    Standing(p) \cup Calendar(p) \cup CompanyAction(p)
      \cup (IF RelatedBaseRequired(p.command.scenario)
            THEN {Raw(p.command, "unchanged"), BaseSourceRecord(p)} ELSE {})
      \cup {SourcePolicy(p), Raw(p.command, Mutation(p.command.scenario)), SourceRecord(p),
            NormalizedRecord(p), RetrievalReceipt(p), CoverageReport(p), Adjustment(p),
            DatasetVersion(p), DataSelection(p), FeatureSnapshot(p)}

\* research_record: the ids it shows.
Cited(p) ==
    Calendar(p) \cup Standing(p)
      \cup {SourcePolicy(p), Raw(p.command, Mutation(p.command.scenario)), SourceRecord(p),
            NormalizedRecord(p), RetrievalReceipt(p), CoverageReport(p), Adjustment(p),
            DatasetVersion(p), DataSelection(p), FeatureSnapshot(p)}
      \cup (IF Relation(p.command.scenario) = "independent" THEN {} ELSE {BaseSourceRecord(p)})

\* The files put before the transaction, in order: content, then metadata.
Files(c) ==
    LET put(raw) == << <<"content", raw>>, <<"metadata", raw>> >>
    IN  put(Raw(c, Mutation(c.scenario)))
          \o (IF RelatedBaseRequired(c.scenario) THEN put(Raw(c, "unchanged")) ELSE <<>>)

-----------------------------------------------------------------------------
(* execute *)

Init ==
    /\ now = 0
    /\ objects = {} /\ events = {} /\ records = {} /\ works = {} /\ refs = {} /\ audit = {}
    /\ run = [w \in Workers |-> Idle] /\ begun = 0
    /\ answers = {} /\ query = Idle

Tick ==
    /\ now < Horizon
    /\ now' = now + 1
    /\ UNCHANGED <<stored, audit, run, begun, answers, query>>

\* The time of observation is the process's own, or the clock's.
Begin(w, c, setting) ==
    LET decision == Authorize(setting, "fixture_pipeline.execute", c.market)
    IN  /\ run[w] = Idle
        /\ begun < MaxCommands /\ begun' = begun + 1
        /\ \/ /\ decision.allowed
              /\ run' = [run EXCEPT ![w] =
                    [stage |-> "storing", left |-> Files(c), command |-> c,
                     observed |-> IF setting.observed = None THEN now ELSE setting.observed,
                     versions |-> VersionEvidence(setting, c.market)]]
              /\ UNCHANGED audit
           \/ /\ ~decision.allowed
              /\ audit' = audit \cup {AuditRow(decision, c.trace)}
              /\ UNCHANGED run
        /\ UNCHANGED <<now, stored, answers, query>>

\* put_verified: a file that is there is left alone.
WriteOnce(w) ==
    /\ run[w].stage = "storing" /\ run[w].left # <<>>
    /\ objects' = objects \cup {Head(run[w].left)}
    /\ run' = [run EXCEPT ![w].left = Tail(@)]
    /\ UNCHANGED <<now, events, records, works, refs, audit, begun, answers, query>>

\* The transaction begins: the event of the key, or the next version of the
\* listing.  The event of another trace is a conflict.
Number(w) ==
    LET c == run[w].command
        ofListing == {e \in events : e.market = c.market}
        existing == {e \in ofListing : e.key = c.key}
    IN  /\ run[w].stage = "storing" /\ run[w].left = <<>>
        /\ \A e \in existing : e.trace = c.trace
        /\ run' = [run EXCEPT ![w] =
              [stage |-> "numbered", command |-> c,
               observed |-> run[w].observed, versions |-> run[w].versions,
               numbered |-> existing # {},
               version |-> IF existing # {} THEN (CHOOSE e \in existing : TRUE).version
                           ELSE Max({0} \cup {e.version : e \in ofListing}) + 1]]
        /\ UNCHANGED <<now, stored, audit, begun, answers, query>>

\* The payload published.
Payload(w) ==
    [command |-> run[w].command, observed |-> run[w].observed,
     versions |-> run[w].versions, version |-> run[w].version]

SameRecord(r, c) ==
    r.command.market = c.market /\ r.command.cutoff = c.cutoff /\ r.command.scenario = c.scenario

\* A plausible slip: the record that is there is taken for the same.
CompareNothing(w) ==
    LET c == run[w].command
        existing == {r \in records : SameRecord(r, c)}
    IN  /\ run[w].stage = "numbered"
        /\ run' = [run EXCEPT ![w] = [stage |-> "compared", numbered |-> run[w].numbered,
              payload |-> Payload(w), recorded |-> existing # {},
              worked |-> \E k \in works : k.market = c.market /\ k.key = c.key,
              seen |-> refs]]
        /\ UNCHANGED <<now, stored, audit, begun, answers, query>>

\* The record of the same listing, cutoff and scenario, whichever command made
\* it, must be this one; then what else is there is looked up.
Compare(w) ==
    LET c == run[w].command
        existing == {r \in records : SameRecord(r, c)}
    IN  /\ run[w].stage = "numbered"
        /\ existing \subseteq {Payload(w)}
        /\ run' = [run EXCEPT ![w] = [stage |-> "compared", numbered |-> run[w].numbered,
              payload |-> Payload(w), recorded |-> existing # {},
              worked |-> \E k \in works : k.market = c.market /\ k.key = c.key,
              seen |-> refs]]
        /\ UNCHANGED <<now, stored, audit, begun, answers, query>>

ArtifactsOf(references) == {r[2] : r \in references}
References(p) == {p.command.trace} \X Artifacts(p)

\* A plausible slip: two events of a listing may have one version.
ClashButVersions(w) ==
    LET p == run[w].payload
        c == p.command
    IN  \/ /\ ~run[w].numbered
           /\ \E e \in events : e.market = c.market /\ e.key = c.key
        \/ /\ ~run[w].recorded
           /\ \E r \in records : \/ r.command.market = c.market /\ r.command.key = c.key
                                 \/ SameRecord(r, c)
        \/ /\ ~run[w].worked
           /\ \/ \E k \in works : k.key = c.key
              \/ (References(p) \ run[w].seen) \cap refs # {}
              \/ (Artifacts(p) \ ArtifactsOf(run[w].seen)) \cap ArtifactsOf(refs) # {}

\* Whether a row to insert has, by now, a unique key some other row has: the
\* event's id or version, the record's id or its listing, cutoff and scenario,
\* the idempotency key of any work, an artifact, a reference.
Clash(w) ==
    LET p == run[w].payload
        c == p.command
    IN  \/ /\ ~run[w].numbered
           /\ \E e \in events : e.market = c.market /\ (e.key = c.key \/ e.version = p.version)
        \/ /\ ~run[w].recorded
           /\ \E r \in records : \/ r.command.market = c.market /\ r.command.key = c.key
                                 \/ SameRecord(r, c)
        \/ /\ ~run[w].worked
           /\ \/ \E k \in works : k.key = c.key
              \/ (References(p) \ run[w].seen) \cap refs # {}
              \/ (Artifacts(p) \ ArtifactsOf(run[w].seen)) \cap ArtifactsOf(refs) # {}

\* The missing rows and the audit row are inserted together.
Commit(w) ==
    LET p == run[w].payload
        c == p.command
    IN  /\ run[w].stage = "compared"
        /\ ~Clash(w)
        /\ events' = events \cup
              (IF run[w].numbered THEN {}
               ELSE {[market |-> c.market, key |-> c.key, trace |-> c.trace,
                      version |-> p.version]})
        /\ records' = records \cup (IF run[w].recorded THEN {} ELSE {p})
        /\ works' = works \cup
              (IF run[w].worked THEN {}
               ELSE {[market |-> c.market, key |-> c.key, trace |-> c.trace,
                      status |-> WorkStatus(p)]})
        /\ refs' = refs \cup (IF run[w].worked THEN {} ELSE References(p))
        /\ audit' = audit \cup {[action |-> "fixture_pipeline.execute", dataset |-> c.market,
                                 allowed |-> TRUE, trace |-> c.trace]}
        /\ answers' = answers \cup {p}
        /\ run' = [run EXCEPT ![w] = Idle]
        /\ UNCHANGED <<now, objects, begun, query>>

Die(w) ==
    /\ run[w] # Idle
    /\ run' = [run EXCEPT ![w] = Idle]
    /\ UNCHANGED <<now, stored, audit, begun, answers, query>>

-----------------------------------------------------------------------------
(* ResearchQuery *)

Everything == <<"xtai-fixture-eod", "xnas-fixture-eod">>

\* A plausible slip: what is not published yet is looked for in one market.
FirstMarketOnly(a) ==
    IF a.kind = "listing" /\ \E r \in records : SameRecord(r, a) THEN <<a.market>>
    ELSE <<"xtai-fixture-eod">>

\* get_listing_authorization_dataset: the dataset of the record; that of an
\* unknown record, and of a collection, may be any.
DatasetsOf(a) ==
    IF a.kind = "listing" /\ \E r \in records : SameRecord(r, a) THEN <<a.market>>
    ELSE Everything

Ask(a, setting) ==
    /\ query = Idle
    /\ query' = [stage |-> "asking", ask |-> a, setting |-> setting, left |-> DatasetsOf(a),
                 shown |-> {}]
    /\ UNCHANGED <<now, stored, audit, run, begun, answers>>

\* One dataset after the other, each decision audited on its own.
AuthorizeDataset ==
    /\ query.stage = "asking" /\ query.left # <<>>
    /\ LET decision == Authorize(query.setting, "research_prediction.read", Head(query.left))
       IN  /\ audit' = audit \cup {AuditRow(decision, "query")}
           /\ query' = IF decision.allowed THEN [query EXCEPT !.left = Tail(@)]
                       ELSE [query EXCEPT !.stage = "done"]
    /\ UNCHANGED <<now, stored, run, begun, answers>>

\* A collection shows the normal scenario only.
Shown(a) ==
    CASE a.kind = "listing" -> {r \in records : SameRecord(r, a)}
      [] a.kind = "predictions" -> {r \in records : r.command.scenario = "normal"}
      [] a.kind = "history" -> {r \in records : /\ r.command.scenario = "normal"
                                                /\ r.command.market = a.market}

Show ==
    /\ query.stage = "asking" /\ query.left = <<>>
    /\ query' = [query EXCEPT !.stage = "done", !.shown = Shown(query.ask)]
    /\ UNCHANGED <<now, stored, audit, run, begun, answers>>

Next ==
    \/ Tick
    \/ \E w \in Workers :
         \/ \E c \in Commands, s \in Settings : Begin(w, c, s)
         \/ WriteOnce(w)
         \/ Number(w)
         \/ Compare(w)
         \/ Commit(w)
         \/ Die(w)
    \/ \E a \in Asks, s \in Settings : Ask(a, s)
    \/ AuthorizeDataset
    \/ Show

Spec == Init /\ [][Next]_vars

-----------------------------------------------------------------------------
(* Properties *)

EventOf(r) == {e \in events : e.market = r.command.market /\ e.key = r.command.key}

\* publish_fixture_trace: whatever races, retries and conflicts there are, an
\* event, its record and its work come together and once, and the events of a
\* listing are numbered without gaps, as the relay requires of them.
PublicationIsWhole ==
    /\ Cardinality(events) = Cardinality(records) /\ Cardinality(events) = Cardinality(works)
    /\ \A r \in records :
          /\ \E e \in EventOf(r) : e.version = r.version /\ e.trace = r.command.trace
          /\ \E k \in works : /\ k.key = r.command.key /\ k.market = r.command.market
                              /\ k.status = WorkStatus(r)
    /\ \A m \in FixtureMarkets :
          {e.version : e \in {x \in events : x.market = m}}
             = 1..Cardinality({e \in events : e.market = m})

\* execute and publish_fixture_trace: every version a published record shows,
\* and every version one of those cites, is an artifact of its trace, and the
\* content and the metadata of every raw artifact are in the repository.
LineageClosed ==
    /\ \A r \in records : \A a \in Cited(r) :
          /\ <<r.command.trace, a>> \in refs
          /\ {r.command.trace} \X a[3] \subseteq refs
    /\ \A r \in refs : r[2][1] = "raw_artifact" =>
          <<"content", r[2]>> \in objects /\ <<"metadata", r[2]>> \in objects

\* FixtureEodOutcome: whatever answer a command gets, first or repeated, from a
\* process that knows another time or another policy, it is about the record
\* that is stored: its status, versions, and place among the listing's events.
AnswersAreRecords ==
    \A a \in answers : \E r \in records :
        /\ SameRecord(r, a.command) /\ r.command.key = a.command.key
        /\ r.version = a.version /\ WorkStatus(r) = WorkStatus(a)
        /\ FeatureSnapshot(r) = FeatureSnapshot(a) /\ SourcePolicy(r) = SourcePolicy(a)

\* ResearchQuery: no record is shown, not even one published after the query
\* looked up what to authorize, unless reading its dataset was allowed and
\* audited for this query.
ReadsAreAudited ==
    query # Idle => \A r \in query.shown :
        [action |-> "research_prediction.read", dataset |-> r.command.market,
         allowed |-> TRUE, trace |-> "query"] \in audit
=============================================================================
